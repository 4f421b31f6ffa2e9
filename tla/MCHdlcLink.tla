----------------------------- MODULE MCHdlcLink -----------------------------
\* The links of the model-checked instances.
EXTENDS HdlcLink

\* In mode m, a and b frames are written, e timers run out early.
LinkOf(m, twa, a, b, e) ==
    [mode |-> m, twa |-> twa, maxEarly |-> e,
     writes |-> [s \in {"A", "B"} |-> IF s = "A" THEN a ELSE b]]

DataLinks ==
    {LinkOf("NRM", FALSE, 3, 0, 1),
     LinkOf("NRM", TRUE, 2, 0, 0), LinkOf("NRM", TRUE, 1, 1, 0),
     LinkOf("ABM", FALSE, 2, 1, 0), LinkOf("ABM", TRUE, 1, 0, 0)}

FlowLinks == {LinkOf("NRM", FALSE, 3, 0, 0)}

AbmLinks == {LinkOf("ABM", FALSE, 2, 1, 0)}
=============================================================================
