----------------------------- MODULE HdlcStream -----------------------------
(***************************************************************************)
(* What a connection promises its two users: each direction is a stream    *)
(* of frames that reaches the other side in order and once, and a frame is *)
(* given back to the sender's pool as acknowledged only after it did.  The *)
(* service behind ioHdlcWriteTmo and ioHdlcReadTmo ("reliable, ordered"),  *)
(* without numbers, windows, polls or timers.                              *)
(***************************************************************************)
EXTENDS Naturals, Sequences

CONSTANT Side       \* the two ends

VARIABLES
    sent,       \* side -> frames accepted from its writer
    delivered,  \* side -> frames handed to its reader, each the ordinal it
                \*         has in the stream of the other side
    acked       \* side -> frames of it known to be delivered

vars == <<sent, delivered, acked>>

Peer(s) == CHOOSE o \in Side : o # s

Init ==
    /\ sent = [s \in Side |-> 0]
    /\ delivered = [s \in Side |-> << >>]
    /\ acked = [s \in Side |-> 0]

Send(s) ==
    /\ sent' = [sent EXCEPT ![s] = @ + 1]
    /\ UNCHANGED <<delivered, acked>>

\* A frame from the line brings the next frame of the stream, or learns how
\* far the other side got, or both.
Deliver(s) ==
    /\ Len(delivered[s]) < sent[Peer(s)]
    /\ delivered' = [delivered EXCEPT ![s] = Append(@, Len(@) + 1)]

Learn(s) ==
    \E n \in acked[s]..Len(delivered[Peer(s)]) : acked' = [acked EXCEPT ![s] = n]

Receive(s) ==
    /\ Deliver(s) \/ UNCHANGED delivered
    /\ Learn(s)
    /\ UNCHANGED sent

Next == \E s \in Side : Send(s) \/ Receive(s)

Spec == Init /\ [][Next]_vars
=============================================================================
