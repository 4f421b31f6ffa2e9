------------------------------ MODULE HdlcPeer ------------------------------
(***************************************************************************)
(* The send side of one iohdlc_station_peer_t as a record, and the         *)
(* functions of ioHdlc_core.c that move frames between its two queues.     *)
(* The functions all run under p->state_mutex, so each is one operator on  *)
(* the record.  Modules that give the record a life of its own (HdlcWindow)*)
(* or put it into a station (HdlcLink) extend this one.                    *)
(***************************************************************************)
EXTENDS Integers, Sequences

CONSTANTS
    Mod,    \* framing.modmask + 1: 8 or 128 in the code
    Ks      \* p->ks, the transmit window set by ioHdlcPeerSetWindow

ASSUME ModAssumption == Mod \in Nat /\ Mod >= 2

\* ioHdlcPeerSetWindow refuses 0 and anything above modmask.
ASSUME KsAssumption == Ks \in 1..(Mod - 1)

SeqNum == 0..(Mod - 1)

Inc(n) == (n + 1) % Mod             \* (n + 1) & modmask
Dist(a, b) == (b - a) % Mod         \* (b - a) & modmask

(***************************************************************************)
(* A queued I-frame.  data stands for the information field: the ordinal   *)
(* of the frame in the byte stream of this connection.  ns is the N(S) in  *)
(* its control field, or NoNS while the control field has not been         *)
(* materialised (tx_ctrl_len = 0, as hdlcTakeFrame leaves it).             *)
(***************************************************************************)
NoNS == -1
Frame == [data : Nat \ {0}, ns : SeqNum \union {NoNS}]

PeerWindow ==
    [vs : SeqNum, nr : SeqNum, vs_highest : SeqNum, vs_atlast_pf : SeqNum,
     chkpt_actioned : 0..Mod, i_pending_count : Nat,
     i_trans_q : Seq(Frame), i_retrans_q : Seq(Frame)]

\* A peer as ioHdlcAddPeer leaves it.
InitWindow ==
    [vs |-> 0, nr |-> 0, vs_highest |-> 0, vs_atlast_pf |-> 0,
     chkpt_actioned |-> 0, i_pending_count |-> 0,
     i_trans_q |-> << >>, i_retrans_q |-> << >>]

-----------------------------------------------------------------------------
\* ioHdlcWriteVTmo: insert a fresh frame at the tail of i_trans_q.
Enqueue(w, d) ==
    [w EXCEPT !.i_trans_q = Append(@, [data |-> d, ns |-> NoNS]),
              !.i_pending_count = @ + 1]

Outstanding(w) == Dist(w.nr, w.vs)

\* Mutant of CanSendI: one frame more than the window.
CanSendIOneMore(w) == w.i_trans_q # << >> /\ Outstanding(w) <= Ks

\* The window part of the burst loop's guards.
CanSendI(w) == w.i_trans_q # << >> /\ Outstanding(w) < Ks

\* is_last_frame of the burst loop: this frame fills the window or empties
\* the queue.
IsLastFrame(w) == Outstanding(w) + 1 >= Ks \/ Len(w.i_trans_q) = 1

\* prepareIFrameHeader: a frame that was already numbered keeps its N(S), a
\* fresh one is numbered from V(S).
NumberedHead(w) ==
    LET f == Head(w.i_trans_q)
    IN  IF f.ns = NoNS THEN [f EXCEPT !.ns = w.vs] ELSE f

\* Mutant of SendIFrame: vs_highest is never advanced.
SendIFrameHighestStays(w, chk) ==
    LET vs1 == Inc(w.vs)
    IN  [w EXCEPT
            !.i_trans_q = Tail(@),
            !.i_retrans_q = Append(@, NumberedHead(w)),
            !.vs = vs1,
            !.vs_atlast_pf = IF chk THEN vs1 ELSE @]

\* One pass of the burst loop.  chk: the frame carries P/F and the station
\* takes V(S) as its checkpoint reference.
SendIFrame(w, chk) ==
    LET vs1 == Inc(w.vs)
    IN  [w EXCEPT
            !.i_trans_q = Tail(@),
            !.i_retrans_q = Append(@, NumberedHead(w)),
            !.vs_highest = IF w.vs = w.vs_highest THEN vs1 ELSE @,
            !.vs = vs1,
            !.vs_atlast_pf = IF chk THEN vs1 ELSE @]

\* prepareSFrame: an S-frame that carries P/F takes the checkpoint reference.
SendSFrame(w, chk) ==
    [w EXCEPT !.vs_atlast_pf = IF chk THEN w.vs ELSE @]

-----------------------------------------------------------------------------
\* Mutant of IsNRValid: V(S), which retransmission sets back, is the limit,
\* as the comment in isNRValid has it.
IsNRValidUpToVS(w, nr) == Dist(w.nr, nr) <= Dist(w.nr, w.vs)

\* N(R) acknowledges nothing that was acknowledged before and nothing that
\* was never sent.
IsNRValid(w, nr) == Dist(w.nr, nr) <= Dist(w.nr, w.vs_highest)

\* How many turns the loop of processNR takes: until p->nr reaches N(R) or
\* i_retrans_q is empty.
AckCount(w, nr) ==
    LET d == Dist(w.nr, nr)
    IN  IF d < Len(w.i_retrans_q) THEN d ELSE Len(w.i_retrans_q)

\* processNR.  The loop moves V(S) at the last P/F past every frame it
\* releases from the one with that number on; numbers in the queue are
\* consecutive and distinct (RetransNumbered), so it ends behind the last.
ProcessNR(w, nr) ==
    LET n == AckCount(w, nr)
        q == w.i_retrans_q
    IN  [w EXCEPT
            !.i_retrans_q = SubSeq(q, n + 1, Len(q)),
            !.i_pending_count = @ - n,
            !.nr = (@ + n) % Mod,
            !.vs_atlast_pf =
                IF \E i \in 1..n : q[i].ns = w.vs_atlast_pf
                THEN Inc(q[n].ns) ELSE @]

\* Mutant of MoveBack: the frames go behind the ones not yet sent.
MoveBackToTail(w) ==
    [w EXCEPT !.i_trans_q = @ \o w.i_retrans_q,
              !.i_retrans_q = << >>,
              !.vs = Head(w.i_retrans_q).ns]

\* ioHdlc_frameq_move of the whole of i_retrans_q to the head of i_trans_q,
\* with V(S) set back to the first frame moved.
MoveBack(w) ==
    [w EXCEPT !.i_trans_q = w.i_retrans_q \o @,
              !.i_retrans_q = << >>,
              !.vs = Head(w.i_retrans_q).ns]

\* The scan of checkpointRetransmit finds something to retransmit iff the
\* oldest unacknowledged frame is not the checkpoint frame itself.
CheckpointDue(w) ==
    /\ w.i_retrans_q # << >>
    /\ Head(w.i_retrans_q).ns # w.vs_atlast_pf

\* Mutant of CheckpointRetransmit: V(S) is set to first_ns, which is the
\* number of the first frame plus one.
CheckpointOffByOne(w) ==
    IF CheckpointDue(w)
    THEN [MoveBack(w) EXCEPT !.chkpt_actioned = Head(w.i_retrans_q).ns + 1,
                             !.vs = Inc(Head(w.i_retrans_q).ns)]
    ELSE w

CheckpointRetransmit(w) ==
    IF CheckpointDue(w)
    THEN [MoveBack(w) EXCEPT !.chkpt_actioned = Head(w.i_retrans_q).ns + 1]
    ELSE w

\* handleSFrame, case REJ: a checkpoint actioned before inhibits the REJ and
\* is used up by it; otherwise everything outstanding is sent again.
RejRetransmit(w) ==
    IF w.chkpt_actioned # 0
    THEN [w EXCEPT !.chkpt_actioned = 0]
    ELSE IF w.i_retrans_q = << >>
         THEN w
         ELSE [MoveBack(w) EXCEPT !.vs_atlast_pf = Head(w.i_retrans_q).ns]

\* Mutant of ResetWindow: frames not yet sent survive into the next
\* connection.
ResetKeepsQueue(w) ==
    [w EXCEPT !.vs = 0, !.nr = 0, !.vs_highest = 0,
              !.i_pending_count = Len(w.i_trans_q), !.i_retrans_q = << >>]

\* Mutant of ResetWindow: the numbering goes on where it was.
ResetKeepsNumbers(w) ==
    [w EXCEPT !.nr = w.vs, !.vs_highest = w.vs, !.i_pending_count = 0,
              !.i_trans_q = << >>, !.i_retrans_q = << >>]

\* resetPeerProtocolState and clearPeerTxQueues: V(S) at the last P/F and
\* chkpt_actioned are not among the variables they reset.
ResetWindow(w) ==
    [w EXCEPT !.vs = 0, !.nr = 0, !.vs_highest = 0, !.i_pending_count = 0,
              !.i_trans_q = << >>, !.i_retrans_q = << >>]

-----------------------------------------------------------------------------
(***************************************************************************)
(* What it means for the record to be consistent.  HdlcWindow proves these *)
(* of a peer whose remote station sends anything, HdlcLink checks them of  *)
(* both ends of a link.                                                    *)
(***************************************************************************)
\* Frames that were sent before and are due again: V(S) up to the highest
\* V(S) reached.
Resend(w) == Dist(w.vs, w.vs_highest)

OutstandingOK(w) ==
    /\ Len(w.i_retrans_q) = Outstanding(w)
    /\ Len(w.i_retrans_q) <= Ks

RetransOK(w) ==
    \A i \in 1..Len(w.i_retrans_q) :
        w.i_retrans_q[i].ns = (w.nr + i - 1) % Mod

TransOK(w) ==
    /\ Resend(w) <= Len(w.i_trans_q)
    /\ \A i \in 1..Len(w.i_trans_q) :
          w.i_trans_q[i].ns =
              IF i <= Resend(w) THEN (w.vs + i - 1) % Mod ELSE NoNS

CycleOK(w) ==
    /\ Outstanding(w) + Resend(w) = Dist(w.nr, w.vs_highest)
    /\ Dist(w.nr, w.vs_highest) <= Ks

PendingOK(w) == w.i_pending_count = Len(w.i_trans_q) + Len(w.i_retrans_q)

\* The queues hold the frames of the stream after the first acked ones, in
\* stream order.
OrderOK(w, acked) ==
    /\ \A i \in 1..Len(w.i_retrans_q) : w.i_retrans_q[i].data = acked + i
    /\ \A i \in 1..Len(w.i_trans_q) :
          w.i_trans_q[i].data = acked + Len(w.i_retrans_q) + i

PeerConsistent(w, acked) ==
    OutstandingOK(w) /\ RetransOK(w) /\ TransOK(w) /\ CycleOK(w)
        /\ PendingOK(w) /\ OrderOK(w, acked) /\ w.nr = acked % Mod
=============================================================================
