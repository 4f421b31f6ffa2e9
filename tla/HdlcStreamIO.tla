---------------------------- MODULE HdlcStreamIO ----------------------------
(***************************************************************************)
(* The byte stream of one peer as its users see it: ioHdlcWriteVTmo and    *)
(* ioHdlcReadVTmo with their gates, condition variables, timeouts and      *)
(* terminal states, the frame pool under them (reference counts and        *)
(* watermarks), the transmit gate of a frame, and the connection that      *)
(* comes and goes.  A step is a critical section of state_mutex, of the    *)
(* pool or of the driver.                                                  *)
(*                                                                         *)
(* The remote station appears as what it makes the core do: acknowledge,   *)
(* ask for retransmission, deliver an I-frame, close, reset or set up the  *)
(* link.  Sequence numbers are the subject of HdlcWindow and HdlcLink; here *)
(* a frame carries the connection it was queued or received in.            *)
(***************************************************************************)
EXTENDS Integers, Sequences, SequencesExt, FiniteSets

CONSTANTS
    Frames,         \* the frames of the pool
    None,           \* no frame
    LowThreshold,   \* fpp->low_threshold
    HighThreshold,  \* fpp->high_threshold
    Ks,             \* send window
    PendingLimit,   \* writer_pending_limit
    WriteLen,       \* frames of one write
    InfoLen,        \* octets in a received I-frame
    ReadSizes,      \* octets a read may ask for
    Timed,          \* calls have a finite timeout
    MaxWrites, MaxReads, MaxRx, MaxFaults, MaxSessions  \* bounds

ASSUME PoolAssumption ==
    /\ IsFiniteSet(Frames) /\ None \notin Frames
    /\ LowThreshold \in Nat
    /\ HighThreshold \in Nat
    /\ LowThreshold <= HighThreshold
    /\ HighThreshold < Cardinality(Frames)

ASSUME SizeAssumption ==
    /\ InfoLen \in Nat \ {0}
    /\ WriteLen \in Nat \ {0}
    /\ ReadSizes \subseteq Nat \ {0}
    /\ MaxSessions \in Nat

VARIABLES
    pool,   \* reference counts and watermark state; history: the connection
            \* in which a frame was queued
    peer,   \* iohdlc_station_peer_t: queues, stream state, connection
    drv,    \* frames committed to the driver, their transmit gate closed
    infr,   \* frame the driver is receiving into
    w,      \* the writer that holds write_gate
    rd,     \* the reader that holds read_gate
    tx,     \* the TX thread
    left    \* what remains of the bounds

vars == <<pool, peer, drv, infr, w, rd, tx, left>>

(***************************************************************************)
(* The pool.                                                               *)
(***************************************************************************)
FreeFrames(pl) == {f \in Frames : pl.refs[f] = 0}

\* Mutant of CheckLow: strictly below the threshold.
CheckLowBelow(pl) ==
    [pl EXCEPT !.low = @ \/ Cardinality(FreeFrames(pl)) < LowThreshold]

\* hdlc_pool_check_low_watermark, on the pool after a frame was taken.
CheckLow(pl) ==
    [pl EXCEPT !.low = @ \/ Cardinality(FreeFrames(pl)) <= LowThreshold]

\* hdlc_pool_check_high_watermark, on the pool after frames were freed.
CheckHigh(pl) ==
    [pl EXCEPT !.low = @ /\ Cardinality(FreeFrames(pl)) <= HighThreshold]

\* take: f comes off the free list; which free frame that is makes no difference.
Take(pl, f) == CheckLow([pl EXCEPT !.refs[f] = 1])

NextFree(pl) == CHOOSE f \in Frames : f \in FreeFrames(pl)

\* f enters a queue of the peer in connection n.
Queued(pl, f, n) == [pl EXCEPT !.born[f] = n]

AddRef(pl, f) == [pl EXCEPT !.refs[f] = @ + 1]

\* release, once for each frame of S.
Release(pl, S) ==
    LET refs  == [f \in Frames |-> IF f \in S THEN pl.refs[f] - 1 ELSE pl.refs[f]]
        after == [pl EXCEPT !.refs = refs,
                            !.born = [f \in Frames |-> IF refs[f] = 0 THEN 0 ELSE @[f]]]
    IN IF \E f \in S : after.refs[f] = 0 THEN CheckHigh(after) ELSE after

(***************************************************************************)
(* Broadcasts: waiting threads run again and look at their condition.      *)
(***************************************************************************)
WakeWriter(x) == IF x.pc = "wait" THEN [x EXCEPT !.pc = "loop"] ELSE x
WakeReader(r) == IF r.pc = "wait" THEN [r EXCEPT !.pc = "run"] ELSE r

\* state_mutex is held by the TX thread while it waits for a transmit gate.
MutexFree == tx.pc # "gate"

IdleWriter == [pc |-> "idle", left |-> 0, fp |-> None, sig |-> FALSE, sess |-> 0]
IdleReader == [pc |-> "idle", want |-> 0, got |-> 0]

Init ==
    /\ pool = [refs |-> [f \in Frames |-> 0], low |-> FALSE,
               born |-> [f \in Frames |-> 0]]
    /\ peer = [conn |-> FALSE, closed |-> "none", sess |-> 0,
               trans |-> <<>>, retrans |-> <<>>, out |-> {}, pending |-> 0,
               recept |-> <<>>, partial |-> None, offset |-> 0,
               sending |-> FALSE, terminal |-> {}, busy |-> FALSE]
    /\ drv = <<>>
    /\ infr = None
    /\ w = IdleWriter
    /\ rd = IdleReader
    /\ tx = [pc |-> "wait", evt |-> FALSE, fp |-> None]
    /\ left = [writes |-> MaxWrites, reads |-> MaxReads, rx |-> MaxRx,
               faults |-> MaxFaults]

(***************************************************************************)
(* ioHdlcWriteVTmo.                                                        *)
(***************************************************************************)
\* W_WAIT_COND
MustWait == peer.pending >= PendingLimit \/ pool.low

\* Mutant of Reset: the writer does not look at its terminal state.
ResetIgnored == FALSE

\* IOHDLC_STREAM_TX_RESET_PENDING: the connection of the write is gone.
Reset == "txreset" \in peer.terminal

\* Admission: write_gate, then the first critical section.  A call that finds
\* the peer disconnected returns ENOTCONN and leaves nothing behind.
WriteBegin ==
    /\ MutexFree
    /\ left.writes > 0
    /\ w.pc = "idle"
    /\ peer.conn
    /\ w' = [pc |-> "loop", left |-> WriteLen, fp |-> None, sig |-> FALSE,
             sess |-> peer.sess]
    /\ peer' = [peer EXCEPT !.sending = TRUE]
    /\ left' = [left EXCEPT !.writes = @ - 1]
    /\ UNCHANGED <<pool, drv, infr, rd, tx>>

\* One pass of the flow control loop: give up, wait, or take a frame.  With the
\* pool empty the call goes round again.
WriteLoop ==
    /\ MutexFree
    /\ w.pc = "loop"
    /\ \/ /\ Reset \/ ~peer.conn
          /\ w' = [w EXCEPT !.pc = "done", !.sig = @ /\ ~Reset]
          /\ UNCHANGED <<pool, tx>>
       \/ /\ ~Reset /\ peer.conn /\ MustWait
          /\ w' = [w EXCEPT !.pc = "wait", !.sig = FALSE]
          /\ tx' = [tx EXCEPT !.evt = @ \/ w.sig]
          /\ UNCHANGED pool
       \/ /\ ~Reset /\ peer.conn /\ ~MustWait /\ FreeFrames(pool) # {}
          /\ pool' = Take(pool, NextFree(pool))
          /\ w' = [w EXCEPT !.pc = "copy", !.fp = NextFree(pool)]
          /\ UNCHANGED tx
    /\ UNCHANGED <<peer, drv, infr, rd, left>>

\* Mutant of WriteTimeout: MSG_TIMEOUT is taken for a wake-up.
WriteTimeoutIgnored ==
    /\ Timed
    /\ MutexFree
    /\ w.pc = "wait"
    /\ w' = [w EXCEPT !.pc = "loop"]
    /\ UNCHANGED <<pool, peer, drv, infr, rd, tx, left>>

\* The timeout of the condition variable: the state is looked at once more.
WriteTimeout ==
    /\ Timed
    /\ MutexFree
    /\ w.pc = "wait"
    /\ w' = [w EXCEPT !.pc = IF Reset \/ ~peer.conn \/ ~MustWait
                               THEN "loop" ELSE "done"]
    /\ UNCHANGED <<pool, peer, drv, infr, rd, tx, left>>

\* The frame is filled without the mutex; the connection may be gone by now.
WriteQueue ==
    /\ MutexFree
    /\ w.pc = "copy"
    /\ \/ /\ Reset \/ ~peer.conn
          /\ pool' = Release(pool, {w.fp})
          /\ w' = [w EXCEPT !.pc = "done", !.fp = None, !.sig = @ /\ ~Reset]
          /\ UNCHANGED peer
       \/ /\ ~Reset /\ peer.conn
          /\ peer' = [peer EXCEPT !.trans = Append(@, w.fp), !.pending = @ + 1]
          /\ pool' = Queued(pool, w.fp, w.sess)
          /\ w' = [w EXCEPT !.pc = IF w.left = 1 THEN "done" ELSE "loop",
                            !.left = @ - 1, !.fp = None, !.sig = TRUE]
    /\ UNCHANGED <<drv, infr, rd, tx, left>>

\* write_done: the reset is reported and forgotten, the TX thread is told.
WriteDone ==
    /\ MutexFree
    /\ w.pc = "done"
    /\ peer' = [peer EXCEPT !.terminal = @ \ {"txreset"}, !.sending = FALSE]
    /\ tx' = [tx EXCEPT !.evt = @ \/ (w.sig /\ ~Reset)]
    /\ w' = IdleWriter
    /\ UNCHANGED <<pool, drv, infr, rd, left>>

(***************************************************************************)
(* ioHdlcReadVTmo.                                                         *)
(***************************************************************************)
\* What the reader finds: the frame read in part and i_recept_q.
Buffered == IF peer.partial = None THEN peer.recept
                                   ELSE <<peer.partial>> \o peer.recept

\* IOHDLC_STREAM_RX_TERMINAL_MASK
RxTerminal == peer.terminal \ {"txreset"}

ReadBegin ==
    /\ left.reads > 0
    /\ rd.pc = "idle"
    /\ \E n \in ReadSizes :
          rd' = [pc |-> "run", want |-> n, got |-> 0]
    /\ left' = [left EXCEPT !.reads = @ - 1]
    /\ UNCHANGED <<pool, peer, drv, infr, w, tx>>

\* The end of the stream is reported, and its terminal state forgotten.
TellEnd == peer' = [peer EXCEPT !.terminal = @ \ RxTerminal]

\* partial_read_offset after the octets up to end were copied.
OffsetAfter(end) == end % InfoLen

\* From the mutex to the next wait or to the end of the call.  Frames read to
\* their end go back to the pool, which may end the local busy condition.
ReadConsume ==
    LET q     == Buffered
        avail == Len(q) * InfoLen - peer.offset
        need  == rd.want - rd.got
        n     == IF need < avail THEN need ELSE avail
        end   == peer.offset + n
        k     == end \div InfoLen       \* frames read to their end
        part  == end % InfoLen # 0
        pool1 == Release(pool, ToSet(SubSeq(q, 1, k)))
    IN /\ pool' = pool1
       /\ peer' = [peer EXCEPT
             !.partial = IF part THEN q[k + 1] ELSE None,
             !.offset  = OffsetAfter(end),
             !.recept  = SubSeq(q, IF part THEN k + 2 ELSE k + 1, Len(q))]
       /\ rd' = IF n = need \/ ~peer.conn
                  THEN IdleReader ELSE [rd EXCEPT !.got = @ + n, !.pc = "wait"]
       /\ tx' = [tx EXCEPT !.evt = @ \/ (k > 0 /\ peer.busy /\ ~pool1.low)]

ReadRun ==
    /\ MutexFree
    /\ rd.pc = "run"
    /\ \/ /\ peer.conn /\ RxTerminal # {}
          /\ rd' = IdleReader
          /\ IF rd.got > 0 THEN UNCHANGED peer ELSE TellEnd
          /\ UNCHANGED <<pool, tx>>
       \/ /\ Buffered # <<>>
          /\ ~peer.conn \/ RxTerminal = {}
          /\ ReadConsume
       \/ /\ Buffered = <<>>
          /\ ~peer.conn
          /\ rd' = IdleReader
          /\ IF rd.got > 0 \/ peer.closed = "none" THEN UNCHANGED peer
                                                   ELSE TellEnd
          /\ UNCHANGED <<pool, tx>>
       \/ /\ Buffered = <<>>
          /\ peer.conn /\ RxTerminal = {}
          /\ rd' = [rd EXCEPT !.pc = "wait"]
          /\ UNCHANGED <<pool, peer, tx>>
    /\ UNCHANGED <<drv, infr, w, left>>

ReadTimeout ==
    /\ Timed
    /\ MutexFree
    /\ rd.pc = "wait"
    /\ rd' = IF Buffered # <<>> \/ ~peer.conn \/ RxTerminal # {}
               THEN [rd EXCEPT !.pc = "run"] ELSE IdleReader
    /\ UNCHANGED <<pool, peer, drv, infr, w, tx, left>>

(***************************************************************************)
(* The TX thread.                                                          *)
(***************************************************************************)
TxWake ==
    /\ tx.pc = "wait" /\ tx.evt
    /\ tx' = [tx EXCEPT !.pc = "run", !.evt = FALSE]
    /\ UNCHANGED <<pool, peer, drv, infr, w, rd, left>>

TxOpen == peer.conn /\ peer.trans # <<>> /\ Len(peer.retrans) < Ks

\* hdlcSendFrame: one more reference, and the transmit gate of f is closed.
Commit(f) ==
    /\ drv' = Append(drv, f)
    /\ pool' = AddRef(pool, f)
    /\ tx' = [tx EXCEPT !.pc = "run", !.fp = None]

\* Mutant of GateClosed: the gate of a frame is not waited for.
GateClosedNever(f) == FALSE

\* ioHdlcFrameTxGateWait would block.
GateClosed(f) == f \in ToSet(drv)

\* The loop of ioHdlcConnectedTx.  A frame still committed to the driver from
\* its last transmission is waited for, with state_mutex held.
TxSend ==
    /\ tx.pc = "run" /\ TxOpen
    /\ LET f == Head(peer.trans)
       IN IF GateClosed(f)
            THEN /\ tx' = [tx EXCEPT !.pc = "gate", !.fp = f]
                 /\ peer' = [peer EXCEPT !.trans = Tail(@)]
                 /\ UNCHANGED <<pool, drv>>
            ELSE /\ peer' = [peer EXCEPT !.trans = Tail(@),
                                         !.retrans = Append(@, f)]
                 /\ Commit(f)
    /\ UNCHANGED <<infr, w, rd, left>>

TxGateOpen ==
    /\ tx.pc = "gate" /\ ~GateClosed(tx.fp)
    /\ peer' = [peer EXCEPT !.retrans = Append(@, tx.fp)]
    /\ Commit(tx.fp)
    /\ UNCHANGED <<infr, w, rd, left>>

\* The end of a pass: with the pool back to normal an RR ends the local busy
\* condition and the writers are woken.
TxTail ==
    /\ tx.pc = "run" /\ ~TxOpen
    /\ tx' = [tx EXCEPT !.pc = "wait"]
    /\ IF peer.conn /\ peer.busy /\ ~pool.low /\ FreeFrames(pool) # {}
         THEN /\ pool' = Take(pool, NextFree(pool))
              /\ drv' = Append(drv, NextFree(pool))
              /\ peer' = [peer EXCEPT !.busy = FALSE]
              /\ w' = WakeWriter(w)
         ELSE UNCHANGED <<pool, drv, peer, w>>
    /\ UNCHANGED <<infr, rd, left>>

(***************************************************************************)
(* The driver, which never takes state_mutex.                              *)
(***************************************************************************)
TxDone ==
    /\ drv # <<>>
    /\ drv' = Tail(drv)
    /\ pool' = Release(pool, {Head(drv)})
    /\ peer' = [peer EXCEPT !.out = @ \cup ({Head(drv)} \cap ToSet(peer.retrans \o peer.trans))]
    /\ UNCHANGED <<infr, w, rd, tx, left>>

\* The port gave up: every committed frame is dropped.
TxError ==
    /\ drv # <<>> /\ left.faults > 0
    /\ drv' = <<>>
    /\ pool' = Release(pool, ToSet(drv))
    /\ left' = [left EXCEPT !.faults = @ - 1]
    /\ UNCHANGED <<peer, infr, w, rd, tx>>

\* A frame is taken for the octets that arrive; with none they are lost.
RxTake ==
    /\ left.rx > 0
    /\ infr = None
    /\ FreeFrames(pool) # {}
    /\ pool' = Take(pool, NextFree(pool))
    /\ infr' = NextFree(pool)
    /\ left' = [left EXCEPT !.rx = @ - 1]
    /\ UNCHANGED <<peer, drv, w, rd, tx>>

(***************************************************************************)
(* What the core does with received frames.                                *)
(***************************************************************************)
\* An I-frame in sequence is delivered; a pool that ran low makes the station
\* busy.  A disconnected peer takes no I-frame.
RxDeliver ==
    /\ MutexFree
    /\ infr # None
    /\ infr' = None
    /\ IF peer.conn
         THEN /\ peer' = [peer EXCEPT !.recept = Append(@, infr),
                                      !.busy = @ \/ pool.low]
              /\ pool' = Queued(pool, infr, peer.sess)
              /\ rd' = WakeReader(rd)
              /\ tx' = [tx EXCEPT !.evt = TRUE]
         ELSE /\ pool' = Release(pool, {infr})
              /\ UNCHANGED <<peer, rd, tx>>
    /\ UNCHANGED <<drv, w, left>>

\* processNR for one frame the remote station has received.
Ack ==
    /\ MutexFree
    /\ peer.conn /\ peer.retrans # <<>>
    /\ LET f == Head(peer.retrans)
       IN /\ f \in peer.out \/ (drv # <<>> /\ f = Head(drv))
          /\ pool' = Release(pool, {f})
          /\ peer' = [peer EXCEPT !.retrans = Tail(@), !.pending = @ - 1,
                                  !.out = @ \ {f}]
    /\ w' = WakeWriter(w)
    /\ tx' = [tx EXCEPT !.evt = TRUE]
    /\ UNCHANGED <<drv, infr, rd, left>>

\* A checkpoint or REJ: what was sent and not acknowledged is sent again.
Retransmit ==
    /\ MutexFree
    /\ peer.conn /\ peer.retrans # <<>>
    /\ left.faults > 0
    /\ peer' = [peer EXCEPT !.trans = peer.retrans \o @, !.retrans = <<>>]
    /\ tx' = [tx EXCEPT !.evt = TRUE]
    /\ left' = [left EXCEPT !.faults = @ - 1]
    /\ UNCHANGED <<pool, drv, infr, w, rd>>

(***************************************************************************)
(* The connection.                                                         *)
(***************************************************************************)
\* Mutant of TxQueued: i_retrans_q is not drained.
TxQueuedTransOnly(pr) == ToSet(pr.trans)

\* clearPeerTxQueues: both queues are drained into the pool.
TxQueued(pr) == ToSet(pr.trans \o pr.retrans)
ClearTx(pr) == [pr EXCEPT !.trans = <<>>, !.retrans = <<>>, !.out = {},
                          !.pending = 0]

\* Mutant of EndOf: a reset is left for a writer that is not there.
EndOfAlways(pr, how) ==
    IF pr.conn THEN pr.terminal \cup {how, "txreset"} ELSE pr.terminal

\* The terminal state the end of a connection leaves for reader and writer.
EndOf(pr, how) ==
    IF pr.conn
      THEN pr.terminal \cup {how} \cup (IF pr.sending THEN {"txreset"} ELSE {})
      ELSE pr.terminal

\* closePeerOrderly, abortPeerLink; received data stay for the reader.
LinkDown(how) ==
    /\ MutexFree
    /\ peer.conn
    /\ peer' = [ClearTx(peer) EXCEPT !.conn = FALSE, !.closed = how,
                                     !.terminal = EndOf(peer, how)]
    /\ pool' = Release(pool, TxQueued(peer))
    /\ w' = WakeWriter(w)
    /\ rd' = WakeReader(rd)
    /\ UNCHANGED <<drv, infr, tx, left>>

\* resetPeerVars and ioHdlcSetConnected: a set mode command accepted or
\* answered, which may also find the peer connected.
LinkUp ==
    /\ MutexFree
    /\ peer.sess < MaxSessions
    /\ peer' = [ClearTx(peer) EXCEPT
          !.conn = TRUE, !.closed = "none", !.sess = @ + 1, !.sending = FALSE,
          !.terminal = EndOf(peer, "aborted"),
          !.recept = <<>>, !.partial = None, !.offset = 0]
    /\ pool' = Release(pool, TxQueued(peer) \cup ToSet(Buffered))
    /\ w' = WakeWriter(w)
    /\ rd' = IF peer.conn THEN WakeReader(rd) ELSE rd
    /\ UNCHANGED <<drv, infr, tx, left>>

WriterStep == WriteLoop \/ WriteTimeout \/ WriteQueue \/ WriteDone
ReaderStep == ReadRun \/ ReadTimeout
TxStep == TxWake \/ TxSend \/ TxGateOpen \/ TxTail
Remote == RxTake \/ RxDeliver \/ Ack \/ Retransmit
Connection == LinkDown("orderly") \/ LinkDown("aborted") \/ LinkUp

Next ==
    \/ WriteBegin \/ WriterStep
    \/ ReadBegin \/ ReaderStep
    \/ TxStep \/ TxDone \/ TxError
    \/ Remote \/ Connection

Spec == Init /\ [][Next]_vars

\* Threads run, the port ends the transfers it began, timeouts expire.  Nothing
\* is asked of the remote station or of the application.
Fairness ==
    WF_vars(WriterStep) /\ WF_vars(ReaderStep) /\ WF_vars(TxStep) /\ WF_vars(TxDone)

FairSpec == Spec /\ Fairness

\* With a remote station that acknowledges what it receives.
AckSpec == FairSpec /\ WF_vars(RxDeliver) /\ WF_vars(Ack)

(***************************************************************************)
(* Properties.                                                             *)
(***************************************************************************)
Sessions == 0..MaxSessions

\* Type invariant.
TypeOK ==
    /\ pool \in [refs : [Frames -> Nat], low : BOOLEAN, born : [Frames -> Sessions]]
    /\ peer.conn \in BOOLEAN /\ peer.sending \in BOOLEAN /\ peer.busy \in BOOLEAN
    /\ peer.closed \in {"none", "orderly", "aborted"}
    /\ peer.sess \in Sessions
    /\ \A q \in {peer.trans, peer.retrans, peer.recept, drv} : q \in Seq(Frames)
    /\ peer.pending \in Nat
    /\ peer.partial \in Frames \cup {None} /\ peer.offset \in 0..(InfoLen - 1)
    /\ peer.terminal \subseteq {"orderly", "aborted", "txreset"}
    /\ infr \in Frames \cup {None}
    /\ w.pc \in {"idle", "loop", "wait", "copy", "done"}
    /\ rd.pc \in {"idle", "run", "wait"}
    /\ tx.pc \in {"wait", "run", "gate"}

Count(f, q) == Cardinality({i \in 1..Len(q) : q[i] = f})
Holds(f, x) == IF x = f THEN 1 ELSE 0

\* Every reference has a holder and every holder a reference: no path (an
\* acknowledgement before the end of the transmission, a reset, a transport
\* error, a write given up half-way) leaks a frame or frees one in use.
RefsBalanced ==
    /\ TypeOK
    /\ \A f \in Frames :
          pool.refs[f] =
             Count(f, peer.trans \o peer.retrans \o peer.recept \o drv)
             + Holds(f, peer.partial) + Holds(f, infr)
             + Holds(f, w.fp) + Holds(f, tx.fp)

\* A frame is never committed to the driver a second time before its first
\* transmission has ended, whose octets the new header would overwrite.
GateExclusive == \A f \in Frames : Count(f, drv) <= 1

\* The assertion of ioHdlcWriteVTmo on admission: a reset of the stream that
\* no admitted writer is left to report does not survive.
NoStaleTxReset == Reset => w.pc # "idle"

\* Octets queued in one connection neither go out nor are read in another one,
\* and i_pending_count counts the frames that are queued.
OneStream ==
    /\ \A f \in ToSet(peer.trans \o peer.retrans \o Buffered) :
          pool.born[f] = peer.sess
    /\ peer.pending = Len(peer.trans \o peer.retrans) + Holds("gate", tx.pc)

\* A pool in the normal state has a free frame, so that a write admitted by
\* W_WAIT_COND never spins on a failing hdlcTakeFrame.
NormalMeansFree == ~pool.low => FreeFrames(pool) # {}

\* A write with a finite timeout returns, whatever the link and the remote
\* station do; in particular the TX thread, which waits for transmit gates
\* with state_mutex held, always gets on.
WriteReturns == w.pc # "idle" ~> w.pc = "idle"

\* "Writer wait condition is true until exceeding pending frames exist or pool
\* low": a writer whose wait condition no longer holds gets on.
WriterWoken == (w.pc = "wait" /\ ~MustWait) ~> (w.pc # "wait" \/ MustWait)

=============================================================================
