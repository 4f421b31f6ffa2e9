------------------------------ MODULE HdlcLink ------------------------------
(***************************************************************************)
(* Two connected stations and the line between them: the receive handler   *)
(* (commonRx), the transmit scheduler (ioHdlcConnectedTx) with its events, *)
(* the two timers of the runner, the writer and the reader.                *)
(*                                                                         *)
(* A is the primary and B the secondary in NRM; both are combined stations *)
(* in ABM.  The line is a pair of FIFO channels that may lose frames (a    *)
(* damaged frame fails its FCS and is lost).                               *)
(*                                                                         *)
(* A step is what the code does under p->state_mutex.  The TX thread       *)
(* releases the mutex between the timer handling and the burst, between    *)
(* the I-frames of a burst, and between the burst and the S-frame.         *)
(***************************************************************************)
EXTENDS HdlcPeer, FiniteSets

CONSTANTS
    Links,          \* the links to look at: mode, half duplex, bounds
    UseREJ,         \* the REJ option was negotiated
    WriterMargin,   \* frames the writer may queue beyond the window
    RetryMax,       \* p->poll_retry_max
    PoolLow,        \* queued frames at which the pool is LOW_WATER
    PoolNormal,     \* queued frames below which it is NORMAL again
    Readers,        \* the stations whose application reads
    MaxLoss         \* bound: frames the line loses

(***************************************************************************)
(* What the two stations were configured with, and the bounds of its runs: *)
(* the frames each station writes, and the timers that run out before the  *)
(* answer had its time to arrive.                                          *)
(***************************************************************************)
Link ==
    [mode : {"NRM", "ABM"}, twa : BOOLEAN, writes : [{"A", "B"} -> Nat],
     maxEarly : Nat]

ASSUME LinksAssumption == Links \subseteq Link
ASSUME FlagsAssumption == UseREJ \in BOOLEAN
ASSUME ReadersAssumption == Readers \subseteq {"A", "B"}
ASSUME MarginAssumption == {WriterMargin, RetryMax} \subseteq Nat
ASSUME PoolAssumption ==
    PoolLow \in Nat /\ PoolNormal \in Nat /\ PoolNormal <= PoolLow
ASSUME BoundsAssumption == MaxLoss \in Nat

VARIABLES
    st,     \* station -> protocol state, under state_mutex
    tx,     \* station -> where its TX thread is
    ev,     \* station -> flags of cm_listener, and the TX thread's pending bit
    chan,   \* station -> frames on their way to it
    losses, \* frames lost so far
    early,  \* timers that ran out early so far
    link    \* the link this is

running == <<st, tx, ev, chan, losses, early>>
vars == <<running, link>>

Station == {"A", "B"}
Other(s) == IF s = "A" THEN "B" ELSE "A"
Writes(s) == link.writes[s]

ABM == link.mode = "ABM"
TWA == link.twa             \* two-way alternate (half duplex) operation
IsPri(s) == ABM \/ s = "A"

\* IOHDLC_FLG_IDL is read in ABM with TWA only, and kept only there.
UsesIdle == ABM /\ TWA

(***************************************************************************)
(* Event flags.  The ones the TX thread treats alike are one flag here:    *)
(* WORK is I_RECVD, RR_RECVD, PF_RECVD, xREJ_RECVD and TX_IFRM_ENQ; URGENT *)
(* is RNR_RECVD and POOL_ST_CHG, which also end a burst.                   *)
(***************************************************************************)
Flag == {"WORK", "URGENT", "REJ_ACTED", "C_RPLYTMO", "T3_TMO", "LINE_IDLE"}
Timer == {"off", "armed", "expired"}
SFun == {"RR", "RNR", "REJ"}

PendingLimit == Ks + WriterMargin       \* writer_pending_limit

Wire ==
    [type : {"I"} \union SFun, cmd : BOOLEAN, pf : BOOLEAN, nr : SeqNum,
     ns : SeqNum \union {NoNS}, data : Nat]

\* A station just after the UA of its connection.
InitStation(s) ==
    [w |-> InitWindow, vr |-> 0, rej_actioned |-> 0, rejpend |-> FALSE,
     peer_busy |-> FALSE, need_p |-> FALSE, t3_expected_nr |-> 0, retry |-> 0,
     frmr |-> FALSE, up |-> TRUE,
     p_rcved |-> FALSE, f_rcved |-> IsPri(s), idl |-> FALSE,
     busy |-> FALSE, low |-> FALSE,
     t1 |-> "off", t3 |-> IF ~ABM /\ s = "A" THEN "armed" ELSE "off",
     signal_tx |-> FALSE, written |-> 0, acked |-> 0,
     delivered |-> << >>, unread |-> 0]

Init ==
    /\ link \in Links
    /\ st = [s \in Station |-> InitStation(s)]
    /\ tx = [s \in Station |-> [pc |-> "wait", cm |-> {}, sent |-> FALSE]]
    /\ ev = [s \in Station |-> [flags |-> {}, pending |-> FALSE]]
    /\ chan = [s \in Station |-> << >>]
    /\ losses = 0
    /\ early = 0

-----------------------------------------------------------------------------
\* Mutant of GetAndClear: the pending bit goes with the flags.
GetAndClearPending(s) == [ev EXCEPT ![s] = [flags |-> {}, pending |-> FALSE]]

\* Events between threads: a broadcast adds flags and sets the pending bit
\* of the waiting thread.  Taking the flags leaves the bit alone, so that a
\* wait after that returns at once, with no flags.
Broadcast(s, flags) ==
    IF flags = {} THEN ev
    ELSE [ev EXCEPT ![s] = [flags |-> @.flags \union flags, pending |-> TRUE]]

GetAndClear(s) == [ev EXCEPT ![s].flags = {}]

\* The frame pool: n frames in use, with the hysteresis of the watermarks.
PoolState(low, n) == IF low THEN n >= PoolNormal ELSE n >= PoolLow

InUse(x) == x.w.i_pending_count + x.unread

\* Mutant of SendOpportunity: the primary need not wait for F in TWA.
SendOpportunityAnyTime(s) ==
    IF ABM THEN TWA => st[s].idl ELSE s = "A" \/ st[s].p_rcved

\* sendOpportunity in the connected modes.
SendOpportunity(s) ==
    IF ABM THEN TWA => st[s].idl
    ELSE IF s = "A" THEN TWA => st[s].f_rcved ELSE st[s].p_rcved

\* In ABM a station answers while a received P is pending.
IsCommand(s) == IF ABM THEN ~st[s].p_rcved ELSE s = "A"

\* set_pf of the burst loop.
PFOnIFrame(s) ==
    LET x == st[s]
    IN  /\ ~x.busy
        /\ IF IsCommand(s)
           THEN IF TWA THEN IsLastFrame(x.w) ELSE x.f_rcved
           ELSE x.p_rcved /\ (ABM \/ IsLastFrame(x.w))

\* set_pf of prepareSFrame.
PFOnSFrame(s) ==
    LET x == st[s]
    IN  IF IsCommand(s)
        THEN /\ x.f_rcved
             /\ TWA => \/ ~CanSendI(x.w)
                       \/ x.peer_busy /\ x.need_p
        ELSE x.p_rcved

\* P/F sent: V(S) is noted as the checkpoint, except for an F that crosses
\* this station's own poll in ABM.
Checkpointed(s, pf) == pf /\ (IsCommand(s) \/ ~ABM \/ st[s].f_rcved)

\* The P/F state after sending a frame; a poll starts the reply timer.
AfterSend(s, x, pf) ==
    IF ~pf THEN x
    ELSE IF IsCommand(s)
         THEN [x EXCEPT !.f_rcved = FALSE, !.need_p = FALSE, !.t1 = "armed",
                        !.t3 = IF ABM THEN @ ELSE "off"]
         ELSE [x EXCEPT !.p_rcved = FALSE]

\* abortPeerLink.
Abort(x) ==
    [x EXCEPT !.w = ResetWindow(@), !.vr = 0, !.t3_expected_nr = 0,
              !.rejpend = FALSE, !.peer_busy = FALSE, !.need_p = FALSE,
              !.retry = 0, !.frmr = FALSE, !.t1 = "off", !.t3 = "off",
              !.f_rcved = TRUE, !.up = FALSE,
              !.low = PoolState(@, x.unread)]

\* handleTimeoutRetry, and what its callers do when a retry is allowed.
TimeoutRetry(x) ==
    IF x.retry >= RetryMax
    THEN Abort(x)
    ELSE [x EXCEPT !.retry = @ + 1, !.need_p = TRUE, !.f_rcved = TRUE,
                   !.rej_actioned = 0]

\* A reply timeout counts only if the timer was neither stopped nor started
\* again after it raised the flag.
ServeT1(x, flags) ==
    IF "C_RPLYTMO" \in flags /\ x.t1 = "expired" THEN TimeoutRetry(x) ELSE x

\* Mutant of ServeT3: the idle poll is not requested.
ServeT3NoPoll(x, flags) ==
    IF ~x.up \/ "T3_TMO" \notin flags \/ x.t3 # "expired" THEN x
    ELSE [x EXCEPT !.t3 = "off"]

ServeT3(x, flags) ==
    IF ~x.up \/ "T3_TMO" \notin flags \/ x.t3 # "expired" THEN x
    ELSE LET y == [x EXCEPT !.t3 = "off"]
         IN  IF ~ABM THEN [y EXCEPT !.need_p = TRUE]
             ELSE IF y.w.i_retrans_q = << >> THEN y ELSE TimeoutRetry(y)

-----------------------------------------------------------------------------
\* ioHdlcWriteVTmo queues a frame; the event follows later, outside the lock.
Write(s) ==
    LET x == st[s]
    IN  /\ x.up
        /\ x.written < Writes(s)
        /\ x.w.i_pending_count < PendingLimit
        /\ ~x.low
        /\ st' = [st EXCEPT ![s] =
                     [x EXCEPT !.w = Enqueue(@, x.written + 1),
                               !.written = @ + 1, !.signal_tx = TRUE,
                               !.low = PoolState(@, InUse(x) + 1)]]
        /\ UNCHANGED <<tx, ev, chan, losses, early>>

WriteSignal(s) ==
    /\ st[s].signal_tx
    /\ st' = [st EXCEPT ![s].signal_tx = FALSE]
    /\ ev' = Broadcast(s, {"WORK"})
    /\ UNCHANGED <<tx, chan, losses, early>>

\* ioHdlcReadVTmo consumes a frame and returns it to the pool.
Read(s) ==
    LET x == st[s]
        low1 == PoolState(x.low, InUse(x) - 1)
    IN  /\ s \in Readers
        /\ x.unread > 0
        /\ st' = [st EXCEPT ![s] = [x EXCEPT !.unread = @ - 1, !.low = low1]]
        /\ ev' = Broadcast(s, {f \in {"URGENT"} : x.busy /\ ~low1})
        /\ UNCHANGED <<tx, chan, losses, early>>

-----------------------------------------------------------------------------
\* ioHdlcTxEntry goes on with the events left over from the last round, or
\* waits for new ones, and serves the timers.
TxStart(s) ==
    LET leftover == tx[s].cm # {}
        flags == IF leftover THEN tx[s].cm ELSE ev[s].flags
        y == ServeT3(ServeT1(st[s], flags), flags)
    IN  /\ tx[s].pc = "wait"
        /\ st[s].up
        /\ leftover \/ ev[s].pending
        /\ ev' = IF leftover THEN ev
                 ELSE [ev EXCEPT ![s] = [flags |-> {}, pending |-> FALSE]]
        /\ st' = [st EXCEPT ![s] = y]
        /\ tx' = [tx EXCEPT ![s] =
                     [pc |-> IF ~y.up THEN "wait"
                             ELSE IF y.frmr THEN "tail" ELSE "burst",
                      cm |-> flags \ {"LINE_IDLE", "C_RPLYTMO", "T3_TMO"},
                      sent |-> FALSE]]
        /\ UNCHANGED <<chan, losses, early>>

BurstGoesOn(s) ==
    CanSendI(st[s].w) /\ SendOpportunity(s) /\ ~st[s].peer_busy

\* One pass of the loop: an I-frame is sent, then urgent events, or the end
\* of the turn in TWA, stop the burst.
TxBurst(s) ==
    LET x == st[s]
        pf == PFOnIFrame(s)
        flags == tx[s].cm \union ev[s].flags
        f == NumberedHead(x.w)
        y == [x EXCEPT !.w = SendIFrame(@, Checkpointed(s, pf))]
        z == AfterSend(s, y, pf)
    IN  /\ tx[s].pc = "burst"
        /\ BurstGoesOn(s)
        /\ st' = [st EXCEPT ![s] =
                     IF ABM THEN [z EXCEPT !.t3 = "armed",
                                           !.t3_expected_nr = z.w.vs]
                     ELSE z]
        /\ chan' = [chan EXCEPT ![Other(s)] =
                       Append(@, [type |-> "I", cmd |-> IsCommand(s),
                                  pf |-> pf, nr |-> x.vr, ns |-> f.ns,
                                  data |-> f.data])]
        /\ ev' = GetAndClear(s)
        /\ tx' = [tx EXCEPT ![s] =
                     [pc |-> IF \/ flags \intersect {"URGENT", "REJ_ACTED"} # {}
                                \/ TWA /\ pf
                             THEN "tail" ELSE "burst",
                      cm |-> flags, sent |-> TRUE]]
        /\ UNCHANGED <<losses, early>>

TxBurstEnd(s) ==
    /\ tx[s].pc = "burst"
    /\ ~BurstGoesOn(s)
    /\ tx' = [tx EXCEPT ![s].pc = "tail"]
    /\ UNCHANGED <<st, ev, chan, losses, early>>

\* Which S-frame the code behind skip_i_frames wants to send: a pending REJ
\* first, then the RR that ends local busy, then an answer or a poll if no
\* I-frame went out.  prepareSFrame refuses without a send opportunity.
WantedS(s) ==
    LET x == st[s]
    IN  IF ~SendOpportunity(s) THEN "none"
        ELSE IF x.rejpend THEN "REJ"
        ELSE IF x.busy /\ ~x.low THEN "RR"
        ELSE IF /\ ~tx[s].sent
                /\ x.p_rcved \/ (x.f_rcved /\ x.need_p)
             THEN IF x.busy THEN "RNR" ELSE "RR"
        ELSE "none"

TxTail(s) ==
    LET x == st[s]
        fun == WantedS(s)
        pf == PFOnSFrame(s)
        flags == tx[s].cm \union ev[s].flags
        y == [x EXCEPT !.w = SendSFrame(@, Checkpointed(s, pf)),
                       !.rejpend = @ /\ fun # "REJ",
                       !.busy = @ /\ fun # "RR"]
    IN  /\ tx[s].pc = "tail"
        /\ IF fun = "none"
           THEN UNCHANGED <<st, chan>>
           ELSE /\ st' = [st EXCEPT ![s] = AfterSend(s, y, pf)]
                /\ chan' = [chan EXCEPT ![Other(s)] =
                               Append(@, [type |-> fun, cmd |-> IsCommand(s),
                                          pf |-> pf, nr |-> x.vr,
                                          ns |-> NoNS, data |-> 0])]
        /\ ev' = GetAndClear(s)
        /\ tx' = [tx EXCEPT ![s] =
                     [pc |-> "wait", sent |-> FALSE,
                      cm |-> flags \ ({"WORK", "URGENT"} \union
                                IF x.rejpend THEN {"REJ_ACTED"} ELSE {})]]
        /\ UNCHANGED <<losses, early>>

-----------------------------------------------------------------------------
\* handleCheckpointAndAck of a frame with a valid N(R).
CheckpointAndAck(x, m) ==
    LET w1 == ProcessNR(x.w, m.nr)
        chk == m.pf /\ ~(ABM /\ m.cmd)
        w2 == IF chk THEN CheckpointRetransmit(w1) ELSE w1
        moved == chk /\ CheckpointDue(w1)
        stopT3 == ABM /\ (moved \/ w1.nr = x.t3_expected_nr)
        y == [x EXCEPT !.w = w2, !.acked = @ + AckCount(x.w, m.nr),
                       !.t3 = IF stopT3 THEN "off" ELSE @]
    IN  IF ~m.pf THEN y
        ELSE IF m.cmd THEN [y EXCEPT !.p_rcved = TRUE]
        ELSE [y EXCEPT !.f_rcved = TRUE, !.retry = 0, !.t1 = "off",
                       !.t3 = IF ABM THEN @ ELSE "armed"]

\* handleIFrame: a frame out of sequence is dropped, and answered with one
\* REJ at a time.
AcceptI(s, x, m, low1) ==
    [x EXCEPT !.delivered = Append(@, m.data), !.unread = @ + 1,
              !.rej_actioned = IF @ = m.ns + 1 THEN 0 ELSE @,
              !.peer_busy = @ /\ ~m.pf,
              !.busy = @ \/ low1,
              !.vr = Inc(@),
              !.need_p = @ \/ (~ABM /\ s = "A")]

RejDue(x, m) ==
    m.ns # x.vr /\ ~TWA /\ UseREJ /\ x.rej_actioned = 0

\* Mutant of HandleI: N(S) is not compared with V(R).
HandleIAnyOrder(s, x, m, low1) == AcceptI(s, x, m, low1)

HandleI(s, x, m, low1) ==
    IF m.ns = x.vr THEN AcceptI(s, x, m, low1)
    ELSE IF RejDue(x, m)
         THEN [x EXCEPT !.rej_actioned = x.vr + 1, !.rejpend = TRUE]
    ELSE x

\* Mutant of HandleS: RR does not end the peer's busy condition.
HandleSStaysBusy(x, m) ==
    CASE m.type = "RR" -> x
      [] m.type = "RNR" -> [x EXCEPT !.peer_busy = TRUE]
      [] m.type = "REJ" -> IF TWA THEN x
                           ELSE [x EXCEPT !.w = RejRetransmit(@)]

HandleS(x, m) ==
    CASE m.type = "RR" -> [x EXCEPT !.peer_busy = FALSE]
      [] m.type = "RNR" -> [x EXCEPT !.peer_busy = TRUE]
      [] m.type = "REJ" -> IF TWA THEN x
                           ELSE [x EXCEPT !.w = RejRetransmit(@)]

\* The flags commonRx broadcasts.
RxFlags(x, m, low1) ==
    {f \in {"WORK"} :
        \/ m.pf \/ m.type = "RR" \/ (m.type = "REJ" /\ ~TWA)
        \/ m.type = "I" /\ m.ns = x.vr}
    \union
    {f \in {"URGENT"} :
        \/ m.type = "RNR"
        \/ m.type = "I" /\ m.ns = x.vr /\ ~x.busy /\ low1}
    \union
    {f \in {"REJ_ACTED"} : m.type = "I" /\ RejDue(x, m)}

\* The pool after the received frame was taken and the acknowledged ones
\* were returned; a frame that is not accepted goes back too.
LowAfterAck(x, m) ==
    LET n == InUse(x) + 1
    IN  PoolState(PoolState(x.low, n), n - AckCount(x.w, m.nr))

\* commonRx of a frame that is not discarded for an FRMR condition.
CommonRx(s, x, m) ==
    LET low1 == LowAfterAck(x, m)
        y == CheckpointAndAck(x, m)
        z == IF m.type = "I" THEN HandleI(s, y, m, low1) ELSE HandleS(y, m)
    IN  IF IsNRValid(x.w, m.nr)
        THEN [z EXCEPT !.low = PoolState(low1, InUse(z))]
        ELSE [x EXCEPT !.frmr = TRUE]

\* One frame through ioHdlcRxEntry.  A disconnected station discards it, and
\* so does one in the FRMR condition.
RxFrame(s) ==
    LET m == Head(chan[s])
        x == [st[s] EXCEPT !.idl = FALSE]
        accepts == x.up /\ ~x.frmr
    IN  /\ chan[s] # << >>
        /\ chan' = [chan EXCEPT ![s] = Tail(@)]
        /\ st' = [st EXCEPT ![s] = IF accepts THEN CommonRx(s, x, m) ELSE x]
        /\ ev' = IF accepts /\ IsNRValid(x.w, m.nr)
                 THEN Broadcast(s, RxFlags(x, m, LowAfterAck(x, m))) ELSE ev
        /\ UNCHANGED <<tx, losses, early>>

\* The line loses a frame.
Lose(s) ==
    /\ losses < MaxLoss
    /\ chan[s] # << >>
    /\ chan' = [chan EXCEPT ![s] = Tail(@)]
    /\ losses' = losses + 1
    /\ UNCHANGED <<st, tx, ev, early>>

\* hdlcRecvFrame times out; only TWA broadcasts the event.
RxIdle(s) ==
    /\ TWA
    /\ chan[s] = << >>
    /\ ev' = Broadcast(s, {"LINE_IDLE"})
    /\ st' = [st EXCEPT ![s].idl = UsesIdle]
    /\ UNCHANGED <<tx, chan, losses, early>>

\* No frame on the line, no TX thread with anything to do, no writer about to
\* wake one.
AtRest ==
    \A s \in Station :
        chan[s] = << >> /\ tx[s].pc = "wait" /\ tx[s].cm = {}
            /\ (st[s].up => ~ev[s].pending) /\ ~st[s].signal_tx

\* A timer runs out: when nothing can arrive any more, or early, while an
\* answer is still on its way.
RunOut ==
    \/ AtRest /\ UNCHANGED early
    \/ ~AtRest /\ early < link.maxEarly /\ early' = early + 1

\* s_timer_cb
T1Expire(s) ==
    /\ st[s].t1 = "armed"
    /\ RunOut
    /\ st' = [st EXCEPT ![s].t1 = "expired"]
    /\ ev' = Broadcast(s, {"C_RPLYTMO"})
    /\ UNCHANGED <<tx, chan, losses>>

T3Expire(s) ==
    /\ st[s].t3 = "armed"
    /\ RunOut
    /\ st' = [st EXCEPT ![s].t3 = "expired"]
    /\ ev' = Broadcast(s, {"T3_TMO"})
    /\ UNCHANGED <<tx, chan, losses>>

TxStep(s) == TxStart(s) \/ TxBurst(s) \/ TxBurstEnd(s) \/ TxTail(s)

Step ==
    \E s \in Station :
        \/ Write(s)
        \/ WriteSignal(s)
        \/ Read(s)
        \/ TxStep(s)
        \/ RxFrame(s)
        \/ Lose(s)
        \/ RxIdle(s)
        \/ T1Expire(s)
        \/ T3Expire(s)

Next == Step /\ UNCHANGED link

Spec == Init /\ [][Next]_vars

(***************************************************************************)
(* Fairness: both threads of a station and its timers run, and a frame on  *)
(* the line arrives unless it is lost.  A writer that queued frames gets   *)
(* to signal them, a reader keeps reading; nobody has to write.            *)
(***************************************************************************)
Fairness ==
    \A s \in Station :
        /\ WF_running(TxStep(s))
        /\ WF_running(RxFrame(s))
        /\ WF_running(WriteSignal(s))
        /\ WF_running(Read(s))
        /\ WF_running(T1Expire(s))
        /\ WF_running(T3Expire(s))

FairSpec == Spec /\ Fairness

-----------------------------------------------------------------------------
StationState ==
    [w : PeerWindow, vr : SeqNum, rej_actioned : 0..Mod, rejpend : BOOLEAN,
     peer_busy : BOOLEAN, need_p : BOOLEAN, t3_expected_nr : SeqNum,
     retry : 0..RetryMax, frmr : BOOLEAN, up : BOOLEAN, p_rcved : BOOLEAN,
     f_rcved : BOOLEAN, idl : BOOLEAN, busy : BOOLEAN, low : BOOLEAN,
     t1 : Timer, t3 : Timer, signal_tx : BOOLEAN, written : Nat, acked : Nat,
     delivered : Seq(Nat), unread : Nat]

TypeOK ==
    /\ st \in [Station -> StationState]
    /\ tx \in [Station -> [pc : {"wait", "burst", "tail"},
                           cm : SUBSET Flag, sent : BOOLEAN]]
    /\ ev \in [Station -> [flags : SUBSET Flag, pending : BOOLEAN]]
    /\ chan \in [Station -> Seq(Wire)]
    /\ losses \in 0..MaxLoss
    /\ early \in 0..link.maxEarly
    /\ link \in Links

\* Both ends keep their queues and counters consistent (HdlcPeer).
WindowsConsistent ==
    /\ TypeOK
    /\ \A s \in Station : st[s].up => PeerConsistent(st[s].w, st[s].acked)

\* Two stations that both follow this code never send each other an N(R)
\* that isNRValid refuses, whatever is lost and however late the timers.
NoFrmr == \A s \in Station : ~st[s].frmr

\* The frames on the way to s that belong to the poll cycle of Other(s).
Polls(s) == Cardinality({i \in DOMAIN chan[s] : chan[s][i].pf /\ chan[s][i].cmd})
Finals(s) == Cardinality({i \in DOMAIN chan[s] : chan[s][i].pf /\ ~chan[s][i].cmd})

\* Two-way alternate operation of an NRM link shares one line: a frame is never sent while
\* the other station's frames are still on it.  PROTOCOL.md on F: "Must match
\* the poll that triggered it".  A poll or the F that answers it is on the
\* line, never two of them, and none once the station has taken the F: a late
\* F cannot close a later poll.
HalfDuplex ==
    TWA /\ ~ABM =>
        /\ chan["A"] = << >> \/ chan["B"] = << >>
        /\ \A s \in Station :
              LET n == Polls(Other(s)) + Finals(s)
              IN  st[s].up =>
                      /\ n <= 1
                      /\ IsPri(s) /\ st[s].f_rcved => n = 0

\* The TX thread of a connected station waits, and nothing will wake it.
Asleep(s) ==
    st[s].up /\ tx[s].pc = "wait" /\ tx[s].cm = {} /\ ~ev[s].pending

\* PROTOCOL.md on P: "Station B must respond with F=1".  A TX thread that
\* goes to sleep leaves no poll unanswered, unless it waits for an idle line.
PollAnswered ==
    \A s \in Station : Asleep(s) /\ (UsesIdle => st[s].idl) => ~st[s].p_rcved

\* The stations that count on a timer: the primary of an NRM link polls again
\* sooner or later, a combined station waits for its I-frames to be
\* acknowledged.
Waiting(s) == IF ABM THEN st[s].w.i_retrans_q # << >> ELSE s = "A"

\* PROTOCOL.md on T3: in NRM "next outbound frame (I or S) carries P=1,
\* starting a new T1 cycle", in ABM its expiry "initiates timeout recovery by
\* polling for peer status".  When the line has come to rest, a station that
\* counts on a timer has one running.
TimerWatches ==
    AtRest => \A s \in Station :
                 st[s].up /\ Waiting(s) => "armed" \in {st[s].t1, st[s].t3}

\* Whatever was written is in the end delivered, and the sender learns it:
\* neither loss nor local busy of the receiving secondary stalls the link.
Delivery ==
    \A l \in Links : \A s \in Station : \A n \in 1..l.writes[s] :
        (link = l /\ st[s].written >= n) ~> (st[s].acked >= n)

\* The link implements the reliable stream of HdlcStream: every step maps to
\* a step of it or to a stutter, whatever is lost, sent again or late.
Stream == INSTANCE HdlcStream WITH
    Side <- Station,
    sent <- [s \in Station |-> st[s].written],
    delivered <- [s \in Station |-> st[s].delivered],
    acked <- [s \in Station |-> st[s].acked]

ReliableStream == Stream!Spec
=============================================================================
