---------------------------- MODULE MCHdlcDriver ----------------------------
EXTENDS HdlcDriver

\* No FFF, transparency, FFF of one and of two octets; options that conflict.
MCOptions ==
    {[fff |-> FALSE, stb |-> FALSE, inh |-> FALSE, type |-> 0, info |-> 3],
     [fff |-> FALSE, stb |-> TRUE,  inh |-> FALSE, type |-> 0, info |-> 3],
     [fff |-> TRUE,  stb |-> TRUE,  inh |-> TRUE,  type |-> 0, info |-> 0],
     [fff |-> TRUE,  stb |-> FALSE, inh |-> FALSE, type |-> 2, info |-> 3],
     [fff |-> TRUE,  stb |-> TRUE,  inh |-> FALSE, type |-> 1, info |-> 3],
     [fff |-> FALSE, stb |-> TRUE,  inh |-> FALSE, type |-> 1, info |-> 3]}

\* One backend without a function, one that prefers no FCS and adds a size.
MCBackends ==
    {NoBackend,
     [sizes |-> {4}, default |-> 0, check |-> TRUE, compute |-> TRUE],
     [sizes |-> {4}, default |-> 4, check |-> TRUE, compute |-> FALSE]}

MCPorts == {[contig |-> c, offload |-> s] : c \in BOOLEAN, s \in {{}, {2}}}

\* A short frame, and one with octets to be escaped.
MCInfos == {<<>>, <<126, 125, 7>>}
MCOctets == {126, 10, 131, 1}

=============================================================================
