----------------------------- MODULE MCHdlcConn -----------------------------
\* The links of the model-checked instances.
EXTENDS HdlcConn

OneSecondary == <<"S1">>
TwoSecondaries == <<"S1", "S2">>

\* Half duplex with one connection that comes, goes and comes again, or meets
\* a command lost twice; full duplex with two connections.
ConnLinks ==
    {[twa |-> TRUE, called |-> {"S1"}, maxCalls |-> 3, maxLoss |-> 1],
     [twa |-> TRUE, called |-> {"S1"}, maxCalls |-> 1, maxLoss |-> 2],
     [twa |-> FALSE, called |-> {"S1", "S2"}, maxCalls |-> 2, maxLoss |-> 1]}

\* Full duplex with one secondary and one connection, whose commands, answers
\* and polls may be lost; the secondary may be reset under it.
WatchLinks ==
    {[twa |-> FALSE, called |-> {"S1"}, maxCalls |-> 1, maxLoss |-> 2]}

AnswerLinks ==
    {[twa |-> FALSE, called |-> {"S1"}, maxCalls |-> 3, maxLoss |-> 2]}
=============================================================================
