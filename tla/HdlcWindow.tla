----------------------------- MODULE HdlcWindow -----------------------------
(***************************************************************************)
(* The transmit window of one peer against an arbitrary remote station.    *)
(* Whatever N(R), P/F bits and REJ frames arrive, in whatever order with   *)
(* respect to the writer and to the burst of the TX thread, the two frame  *)
(* queues, the sequence variables and the pending count stay consistent.   *)
(* The mode rules (who may send, when P/F is set) are left open here; they *)
(* are the subject of HdlcLink.                                            *)
(***************************************************************************)
EXTENDS HdlcPeer

CONSTANTS
    WriterMargin,   \* frames the writer may queue beyond the window
    MaxWrites       \* bound on the frames written in one connection

ASSUME WriterMarginAssumption == WriterMargin \in Nat
ASSUME MaxWritesAssumption == MaxWrites \in Nat

VARIABLES
    peer,          \* the peer's send side, a PeerWindow
    frmr,       \* p->frmr_condition
    bursting,   \* the TX thread is inside the I-frame loop of ConnectedTx
    written,    \* frames the writer queued on this connection
    acked       \* frames processNR released on this connection

vars == <<peer, frmr, bursting, written, acked>>

\* writer_pending_limit
PendingLimit == Ks + WriterMargin

Init ==
    /\ peer = InitWindow
    /\ frmr = FALSE
    /\ bursting = FALSE
    /\ written = 0
    /\ acked = 0

-----------------------------------------------------------------------------
\* A writer passes W_WAIT_COND and queues one frame.
Write ==
    /\ written < MaxWrites
    /\ peer.i_pending_count < PendingLimit
    /\ peer' = Enqueue(peer, written + 1)
    /\ written' = written + 1
    /\ UNCHANGED <<frmr, bursting, acked>>

\* ConnectedTx tests frmr_condition once, before the loop and without the
\* mutex: a burst that started goes on after an FRMR condition arises.
BeginBurst ==
    /\ ~bursting
    /\ ~frmr
    /\ bursting' = TRUE
    /\ UNCHANGED <<peer, frmr, written, acked>>

\* chk \in BOOLEAN: any rule for P/F, and for the reference it takes.
SendI ==
    /\ bursting
    /\ CanSendI(peer)
    /\ \E chk \in BOOLEAN : peer' = SendIFrame(peer, chk)
    /\ UNCHANGED <<frmr, bursting, written, acked>>

\* Out of the loop, for any of its reasons; the code behind skip_i_frames
\* may send an S-frame.
EndBurst ==
    /\ bursting
    /\ bursting' = FALSE
    /\ \E chk \in BOOLEAN : peer' = SendSFrame(peer, chk)
    /\ UNCHANGED <<frmr, written, acked>>

\* commonRx of an I-frame or of an S-frame other than REJ.  checkpoint: the
\* frame has P/F and is not a command received in ABM.
RecvAck(nr, checkpoint) ==
    /\ ~frmr
    /\ IsNRValid(peer, nr)
    /\ LET w1 == ProcessNR(peer, nr)
       IN  peer' = IF checkpoint THEN CheckpointRetransmit(w1) ELSE w1
    /\ acked' = acked + AckCount(peer, nr)
    /\ UNCHANGED <<frmr, bursting, written>>

\* commonRx of a REJ: handleCheckpointAndAck, then handleSFrame.
RecvRej(nr, checkpoint) ==
    /\ ~frmr
    /\ IsNRValid(peer, nr)
    /\ LET w1 == ProcessNR(peer, nr)
           w2 == IF checkpoint THEN CheckpointRetransmit(w1) ELSE w1
       IN  peer' = RejRetransmit(w2)
    /\ acked' = acked + AckCount(peer, nr)
    /\ UNCHANGED <<frmr, bursting, written>>

\* commonRx of any frame with an invalid N(R): the peer is left alone until
\* the connection is reset.
RecvInvalidNR(nr) ==
    /\ ~frmr
    /\ ~IsNRValid(peer, nr)
    /\ frmr' = TRUE
    /\ UNCHANGED <<peer, bursting, written, acked>>

\* resetPeerVars, closePeerOrderly or abortPeerLink, then a new connection.
\* The TX thread may be inside its burst.
Reset ==
    /\ peer' = ResetWindow(peer)
    /\ frmr' = FALSE
    /\ written' = 0
    /\ acked' = 0
    /\ UNCHANGED bursting

Next ==
    \/ Write
    \/ BeginBurst
    \/ SendI
    \/ EndBurst
    \/ \E nr \in SeqNum, checkpoint \in BOOLEAN : RecvAck(nr, checkpoint)
    \/ \E nr \in SeqNum, checkpoint \in BOOLEAN : RecvRej(nr, checkpoint)
    \/ \E nr \in SeqNum : RecvInvalidNR(nr)
    \/ Reset

Spec == Init /\ [][Next]_vars

-----------------------------------------------------------------------------
TypeOK ==
    /\ peer \in PeerWindow
    /\ frmr \in BOOLEAN
    /\ bursting \in BOOLEAN
    /\ written \in 0..MaxWrites
    /\ acked \in 0..MaxWrites

\* ioHdlc.h, at p->nr: "(vs-nr) & modmask = len(i_retrans_q), must be <= ks".
WindowInvariant == OutstandingOK(peer)

\* The frames awaiting acknowledgement carry consecutive numbers from N(R)
\* on; processNR logs the opposite as what "should never happen".
RetransNumbered == RetransOK(peer)

\* prepareIFrameHeader keeps the number of a frame that is sent again: the
\* frames due again stand first in i_trans_q, with the numbers V(S) is going
\* to run through, and no other frame there is numbered yet.
TransNumbered == TransOK(peer)

\* However often REJ and checkpointing send V(S) back, the span of numbers
\* in use never exceeds the window: V(S) does not wrap over itself.
NumberingCycle == CycleOK(peer)

\* ioHdlc.h, at i_pending_count: "len(i_trans_q) + len(i_retrans_q)"; and
\* writer_pending_limit is never exceeded.
PendingCount == PendingOK(peer) /\ peer.i_pending_count <= PendingLimit

\* The queues hold exactly the written and unacknowledged frames, in the
\* order written: none is lost, doubled or overtaken by a retransmission.
InOrder ==
    /\ acked + Len(peer.i_retrans_q) + Len(peer.i_trans_q) = written
    /\ OrderOK(peer, acked)

\* A number stands for one place in the stream as long as it is in use: the
\* k-th frame of the connection is sent, and sent again, as k - 1 modulo Mod.
NumberIsOrdinal ==
    /\ \A i \in 1..Len(peer.i_retrans_q) :
          peer.i_retrans_q[i].ns = (peer.i_retrans_q[i].data - 1) % Mod
    /\ \A i \in 1..Len(peer.i_trans_q) :
          peer.i_trans_q[i].ns \in {NoNS, (peer.i_trans_q[i].data - 1) % Mod}

\* The inductive invariant.
IInv ==
    /\ TypeOK
    /\ PeerConsistent(peer, acked)
    /\ peer.i_pending_count <= PendingLimit
    /\ acked + Len(peer.i_retrans_q) + Len(peer.i_trans_q) = written
=============================================================================
