------------------------------- MODULE HdlcSpi -------------------------------
(***************************************************************************)
(* Two stations over SPI: the ChibiOS SPI stream port of the master and of *)
(* the slave, the transmit pipeline of the software driver above each, the *)
(* DATA_READY line by which the slave asks to be clocked, and the slave's  *)
(* watchdog.                                                               *)
(*                                                                         *)
(* On each side threads, the transfer completion interrupt, the DATA_READY *)
(* interrupt and the watchdog timer share the port's record.  A step is    *)
(* what runs under the system lock, or between two points at which an      *)
(* interrupt may come in: chb_spi_data_cb takes up to three steps, between *)
(* which DATA_READY (master) or the watchdog (slave) may run.  Threads do  *)
(* not run while an interrupt of their own side is being served.           *)
(*                                                                         *)
(* On the wire a frame is the units "F" (opening flag), "L" (length octet) *)
(* and "B" (the rest, closing flag included); "X" is what is read when     *)
(* nobody sends or when the transfers of the two sides do not match.       *)
(***************************************************************************)
EXTENDS Naturals, Sequences, SequencesExt

CONSTANTS
    Frames,     \* frames of each side
    None,       \* no frame
    Limit,      \* slave_watchdog_limit_ticks
    DmaErrors,  \* <<side, direction>> in which the DMA may fail
    MaxSend,    \* bound: frames the core of each side sends
    MaxFaults   \* bound: DMA errors, overruns and restarts

ASSUME LimitAssumption == Limit \in Nat \ {0}
ASSUME NoneAssumption == None \notin Frames
ASSUME DmaAssumption == DmaErrors \subseteq {"M", "S"} \X {"tx", "rx"}

VARIABLES
    node,   \* port, driver pipeline and transfer of each side
    irq,    \* an edge of DATA_READY is pending at the master
    ovr,    \* an octet came that the slave's port did not take
    left    \* what remains of the bounds

vars == <<node, irq, ovr, left>>

Sides == {"M", "S"}
NoDma == [dir |-> "no", todo |-> <<>>, n |-> 0]

(***************************************************************************)
(* The record of a side.  tx: tx_framep, and tx_active when it is a frame. *)
(* rxn, mode: the RX buffer saved (0 none, 1 octet, 2 a whole body) and    *)
(* its rx_mode.  fp: framep of a completion being served.  cb: how far     *)
(* that has got.  infl, rawq, parse: the driver's frame in flight, raw_q   *)
(* and receive parser.                                                     *)
(***************************************************************************)
Station0 ==
    [up |-> FALSE, tx |-> None, rxn |-> 0, mode |-> "start", rxa |-> FALSE,
     allowed |-> FALSE, gate |-> FALSE, rt |-> 0, tt |-> 0,
     last |-> FALSE, epoch |-> FALSE, capt |-> FALSE, coll |-> FALSE,
     line |-> FALSE, dma |-> NoDma, cb |-> "no", got |-> "X", fp |-> None,
     infl |-> None, rawq |-> <<>>, parse |-> "hunt"]

\* Everything but the driver's part of the record.
PortReset(p) ==
    [Station0 EXCEPT !.infl = p.infl, !.rawq = p.rawq, !.parse = p.parse]

\* spiStopTransferI, ioHdlcStreamSpiPlatformAbortSlaveI: a completion that is
\* still pending goes with the transfer.
StopTransfer(p) == [p EXCEPT !.dma = NoDma]

\* The SPI driver takes one transfer at a time.
Transfer(p, d) == IF p.dma = NoDma THEN d ELSE [d EXCEPT !.dir = "clash"]

\* chb_spi_start_receive_i, and the rx_active that goes with it.
StartReceive(p) ==
    [p EXCEPT !.rxa = TRUE,
              !.dma = Transfer(p, [dir |-> "rx", todo |-> <<>>, n |-> p.rxn])]

\* chb_spi_master_tx_blocked_i
MasterTxBlocked(p) == p.tx # None \/ p.rxa \/ p.epoch

\* Mutant of TryMasterRx: a transfer is started while one is in progress.
TryMasterRxAnyTime(p) ==
    IF p.rxn = 0 \/ p.coll \/ ~(p.capt \/ p.allowed)
      THEN p
      ELSE StartReceive([p EXCEPT !.capt = FALSE, !.allowed = (p.rxn = 1)])

\* chb_spi_try_start_master_rx_i: a packet is started by a captured edge and
\* continued on the credit it gave.
TryMasterRx(p) ==
    IF \/ p.rxn = 0 \/ p.rxa \/ p.tx # None \/ p.coll
       \/ p.dma # NoDma
       \/ ~p.allowed /\ ~p.capt
       \/ p.allowed /\ p.mode = "start"
      THEN p
      ELSE StartReceive([p EXCEPT !.capt = @ /\ p.allowed, !.allowed = (p.rxn = 1)])

RxSubmit(x, p, n, mode) ==
    LET q == [p EXCEPT !.rxn = n, !.mode = mode,
                       !.gate = x = "S" /\ mode # "start",
                       !.rt = 0]
    IN IF ~p.up THEN p
       ELSE IF p.tx # None THEN q
       ELSE IF x = "M" THEN TryMasterRx(q) ELSE StartReceive(q)

RxCancel(x, p) ==
    [(IF x = "M" /\ p.rxa THEN [StopTransfer(p) EXCEPT !.rxa = FALSE] ELSE p)
        EXCEPT !.rxn = 0, !.mode = "start", !.epoch = FALSE, !.capt = FALSE,
               !.coll = FALSE, !.allowed = FALSE,
               !.gate = FALSE, !.rt = 0, !.tt = 0]

\* s_on_rx with an error: the frame being assembled is dropped and the search
\* for a flag starts again.
OnRxError(x, p) == RxSubmit(x, RxCancel(x, [p EXCEPT !.parse = "hunt"]), 1, "start")

(***************************************************************************)
(* The transmit pipeline.                                                  *)
(***************************************************************************)
Wire(open) == (IF open THEN <<"F">> ELSE <<>>) \o <<"L", "B">>

\* chb_spi_tx_busy
TxBusy(x, p) == p.up /\ IF x = "M" THEN MasterTxBlocked(p) ELSE p.tx # None

\* chb_spi_tx_submit, for a started port that is not busy.  A receive buffer
\* that was armed is given back through the RX error callback.
TxSubmit(x, p, f, open) ==
    LET q == [(IF p.rxa THEN [StopTransfer(p) EXCEPT !.rxa = FALSE] ELSE p)
                EXCEPT !.tx = f]
        r == IF p.rxn # 0 THEN OnRxError(x, q) ELSE q
    IN [r EXCEPT !.capt = FALSE, !.allowed = FALSE, !.gate = FALSE,
                 !.rt = 0, !.tt = 0, !.line = (x = "S"),
                 !.dma = Transfer(r, [dir |-> "tx", todo |-> Wire(open), n |-> 0])]

\* s_try_start_next_tx_i.  A stopped port refuses the frame, which is dropped.
TryNext(x, p, open) ==
    LET q == [p EXCEPT !.rawq = Tail(@)]
    IN IF p.infl # None \/ p.rawq = <<>> \/ TxBusy(x, p) THEN p
       ELSE IF ~p.up THEN q
       ELSE TxSubmit(x, [q EXCEPT !.infl = Head(p.rawq)], Head(p.rawq), open)

\* drv_send_frame, after the frame was prepared and its gate closed.
SendFrame(x, p, f) ==
    IF ~TxBusy(x, p) /\ p.infl = None /\ p.rawq = <<>>
      THEN IF p.up THEN TxSubmit(x, [p EXCEPT !.infl = f], f, TRUE) ELSE p
      ELSE TryNext(x, [p EXCEPT !.rawq = Append(@, f)], TRUE)

\* s_on_tx_done
OnTxDone(x, p, f) ==
    TryNext(x, [p EXCEPT !.infl = IF @ = f THEN None ELSE @], FALSE)

\* s_on_tx_ready_i
OnTxReady(x, p) == TryNext(x, p, TRUE)

\* Mutant of OnTxError: the frame in flight is forgotten by the port only.
OnTxErrorQueueOnly(p) == [p EXCEPT !.rawq = <<>>]

\* s_on_tx_error_i
OnTxError(p) == [p EXCEPT !.infl = None, !.rawq = <<>>]

(***************************************************************************)
(* The receive parser of s_on_rx as the port drives it, for one-octet      *)
(* length fields: the next state, the size of the next transfer, its mode. *)
(***************************************************************************)
Parse(st, u) ==
    CASE u = "F"                          -> <<"open", 1, "cont">>
      [] st = "open" /\ u = "L"           -> <<"body", 2, "cont">>
      [] st = "body" /\ u = "B"           -> <<"open", 1, "cont">>
      [] st \in {"body", "acc"} /\ u # "B" -> <<"acc", 1, "cont">>
      [] OTHER                            -> <<"hunt", 1, "start">>

OnRx(x, p, u) ==
    LET nx == Parse(p.parse, u)
    IN RxSubmit(x, [p EXCEPT !.parse = nx[1]], nx[2], nx[3])

(***************************************************************************)
(* Steps.  A change of the slave's line, also one too short to be seen as  *)
(* a level, leaves an edge pending at the master.                          *)
(***************************************************************************)
Edge(p, q) == q.line # p.line \/ (q.tx # None /\ p.tx = None)

Becomes(x, q) ==
    /\ node' = [node EXCEPT ![x] = q]
    /\ irq' = (irq \/ (x = "S" /\ Edge(node.S, q)))

Init ==
    /\ node = [x \in Sides |->
                 RxSubmit(x, [Station0 EXCEPT !.up = TRUE], 1, "start")]
    /\ irq = FALSE
    /\ ovr = FALSE
    /\ left = [send |-> [x \in Sides |-> MaxSend], faults |-> MaxFaults]

Committed(p) == {p.infl, p.fp} \cup ToSet(p.rawq)

\* The core of side x sends a frame that is not in the pipeline.
Send(x) ==
    /\ node[x].cb = "no"
    /\ left.send[x] > 0
    /\ \E f \in Frames \ Committed(node[x]) :
          Becomes(x, SendFrame(x, node[x], f))
    /\ left' = [left EXCEPT !.send[x] = @ - 1]
    /\ UNCHANGED ovr

(***************************************************************************)
(* The clock (hardware).  The master's transfer moves one unit in each     *)
(* direction; a side whose transfer is over has its completion pending.    *)
(***************************************************************************)
Completed(p, u) == [p EXCEPT !.dma = [NoDma EXCEPT !.dir = "done"], !.got = u]

Fits(n, u) == IF n = 1 THEN u \in {"F", "L"} ELSE u = "B"

\* A sending side loses the unit at the head of its transfer.
Shifted(p) ==
    IF Len(p.dma.todo) = 1 THEN Completed(p, "X")
                           ELSE [p EXCEPT !.dma.todo = Tail(@)]

Reads(p, u) == Completed(p, IF Fits(p.dma.n, u) THEN u ELSE "X")

UnitOf(p) == IF p.dma.dir = "tx" THEN Head(p.dma.todo) ELSE "X"

ClockSide(p, u) ==
    CASE p.dma.dir = "tx" -> Shifted(p)
      [] p.dma.dir = "rx" -> Reads(p, u)
      [] OTHER            -> p

Clock ==
    /\ node.M.dma.dir \in {"tx", "rx"}
    /\ node' = [M |-> ClockSide(node.M, UnitOf(node.S)),
                S |-> ClockSide(node.S, UnitOf(node.M))]
    /\ ovr' = (ovr \/ (node.S.dma.dir \in {"no", "done"} /\ node.S.up)
                   \/ (node.S.dma.dir = "rx" /\ node.S.dma.n = 1 /\ UnitOf(node.M) = "B"))
    /\ UNCHANGED <<irq, left>>

(***************************************************************************)
(* chb_spi_data_cb.                                                        *)
(***************************************************************************)
Complete(p) == p.cb = "no" /\ p.dma.dir = "done"

\* The transfer over was a transmission.
DataTx(x) ==
    LET p == node[x]
    IN /\ Complete(p) /\ p.up /\ p.tx # None
       /\ Becomes(x, [p EXCEPT !.dma = NoDma, !.tx = None, !.fp = p.tx, !.tt = 0, !.cb = "txdone"])
       /\ UNCHANGED <<ovr, left>>

DataTxDone(x) ==
    LET p == node[x]
    IN /\ p.cb = "txdone"
       /\ Becomes(x, [OnTxDone(x, p, p.fp) EXCEPT !.fp = None,
                         !.cb = IF p.up THEN "txrx" ELSE "no"])
       /\ UNCHANGED <<ovr, left>>

\* Without a next frame to send the saved receive buffer is used.
AfterTx(x, p) ==
    IF p.tx # None THEN p
    ELSE IF x = "M" THEN TryMasterRx(p)
    ELSE [(IF p.rxn # 0 THEN StartReceive(p) ELSE p) EXCEPT !.line = FALSE]

DataTxRx(x) ==
    LET p == node[x]
    IN /\ p.cb = "txrx"
       /\ Becomes(x, [AfterTx(x, p) EXCEPT !.cb = "no"])
       /\ UNCHANGED <<ovr, left>>

\* The transfer over was a reception; the master keeps rx_active until on_rx
\* has armed the next buffer.
DataRx(x) ==
    LET p == node[x]
    IN /\ Complete(p) /\ p.up /\ p.tx = None /\ p.rxa
       /\ Becomes(x, [p EXCEPT !.dma = NoDma, !.rxn = 0, !.cb = "onrx",
                               !.rxa = x = "M",
                               !.allowed = @ /\ p.rxn = 1])
       /\ UNCHANGED <<ovr, left>>

DataOnRx(x) ==
    LET p == node[x]
    IN /\ p.cb = "onrx"
       /\ Becomes(x, [OnRx(x, p, p.got) EXCEPT
                         !.cb = IF x = "M" THEN "rxend" ELSE "no", !.got = "X"])
       /\ UNCHANGED <<ovr, left>>

\* Mutant of RxEnd: a frame that waits for the end of the reception is not
\* tried again.
RxEndNoReady(p) == TryMasterRx([p EXCEPT !.rxa = FALSE])

RxEnd(p) == OnTxReady("M", TryMasterRx([p EXCEPT !.rxa = FALSE]))

DataRxEnd ==
    /\ node.M.cb = "rxend"
    /\ Becomes("M", [RxEnd(node.M) EXCEPT !.cb = "no"])
    /\ UNCHANGED <<ovr, left>>

(***************************************************************************)
(* chb_spi_data_ready_i: the level now and the level seen last.            *)
(***************************************************************************)
\* chb_spi_abort_master_tx_i and the error callback.
AbortMasterTx(p) ==
    OnTxError([StopTransfer(p) EXCEPT !.tx = None, !.capt = FALSE,
                                      !.coll = TRUE, !.allowed = FALSE])

Closed(p) == [p EXCEPT !.epoch = FALSE, !.capt = FALSE, !.coll = FALSE,
                       !.allowed = FALSE]

\* The line is low: the slave's packet is over, if one was ever seen.
LineFell(p) ==
    IF ~p.last /\ p.tx # None THEN Closed(AbortMasterTx(p))
                              ELSE OnTxReady("M", Closed(p))

\* The line is high: a packet of the slave begins.
LineRose(p) ==
    LET q == [(IF p.last THEN Closed(p) ELSE p) EXCEPT !.epoch = TRUE]
    IN IF p.tx # None THEN AbortMasterTx(q)
       ELSE IF q.coll THEN q
       ELSE TryMasterRx([q EXCEPT !.capt = @ \/ ~q.allowed])

DataReady ==
    /\ irq
    /\ irq' = FALSE
    /\ node' = [node EXCEPT !.M =
          IF ~@.up THEN @
          ELSE [(IF node.S.line THEN LineRose(@) ELSE LineFell(@))
                  EXCEPT !.last = node.S.line]]
    /\ UNCHANGED <<ovr, left>>

(***************************************************************************)
(* The slave's watchdog and its errors.                                    *)
(***************************************************************************)
\* Mutant of SlaveAbort: an aborted transmission reports no RX error.
SlaveAbortTxOnly(p) ==
    LET q == [StopTransfer(p) EXCEPT
                !.tx = None, !.rxa = FALSE, !.rxn = 0, !.mode = "start",
                !.gate = FALSE, !.rt = 0, !.tt = 0,
                !.line = @ /\ p.tx = None]
    IN IF p.tx # None THEN OnTxError(q) ELSE OnRxError("S", q)

\* The slave's transfer is aborted and both directions start again.
SlaveAbort(p) ==
    LET q == [StopTransfer(p) EXCEPT
                !.tx = None, !.rxa = FALSE, !.rxn = 0, !.mode = "start",
                !.gate = FALSE, !.rt = 0, !.tt = 0,
                !.line = @ /\ p.tx = None]
    IN OnRxError("S", IF p.tx # None THEN OnTxError(q) ELSE q)

\* Mutant of WatchdogTick: a transmission is not timed.
WatchdogTickRxOnly(p) ==
    IF p.rxa /\ p.gate
      THEN IF p.rt + 1 >= Limit THEN SlaveAbort(p)
                                ELSE [p EXCEPT !.rt = @ + 1, !.tt = 0]
      ELSE [p EXCEPT !.rt = 0, !.tt = 0]

\* chb_spi_slave_watchdog_timeout
WatchdogTick(p) ==
    IF p.tx # None
      THEN IF p.tt + 1 >= Limit THEN SlaveAbort(p)
                                ELSE [p EXCEPT !.tt = @ + 1, !.rt = 0]
    ELSE IF p.rxa /\ p.gate
      THEN IF p.rt + 1 >= Limit THEN SlaveAbort(p)
                                ELSE [p EXCEPT !.rt = @ + 1, !.tt = 0]
    ELSE [p EXCEPT !.rt = 0, !.tt = 0]

\* An interrupt is served in less than a period: at most one tick falls into it.
Watchdog ==
    /\ node.S.up
    /\ node.S.cb = "no" \/ (node.S.tt = 0 /\ node.S.rt = 0)
    /\ Becomes("S", WatchdogTick(node.S))
    /\ UNCHANGED <<ovr, left>>

\* ioHdlcStreamSpiSlaveOverrunI, at the priority of chb_spi_data_cb.
SlaveOverrun ==
    /\ ovr /\ node.S.cb = "no"
    /\ ovr' = FALSE
    /\ IF node.S.up
         THEN Becomes("S", [SlaveAbort(node.S) EXCEPT !.line = FALSE])
         ELSE UNCHANGED <<node, irq>>
    /\ UNCHANGED left

\* chb_spi_error_cb.  A failed transmission drops the saved receive buffer and
\* calls on_tx_error_i only.
Failed(x, p) ==
    LET q == [Closed(p) EXCEPT
                !.dma = NoDma, !.tx = None, !.rxa = FALSE, !.rxn = 0,
                !.mode = "start", !.gate = FALSE, !.rt = 0, !.tt = 0,
                !.line = FALSE]
    IN IF p.tx # None THEN OnTxError(q) ELSE OnRxError(x, q)

ErrorCb(x) ==
    /\ left.faults > 0
    /\ node[x].up /\ node[x].cb = "no"
    /\ <<x, node[x].dma.dir>> \in DmaErrors
    /\ Becomes(x, Failed(x, node[x]))
    /\ left' = [left EXCEPT !.faults = @ - 1]
    /\ UNCHANGED ovr

(***************************************************************************)
(* drv_stop and drv_start with the port's stop and start.                  *)
(***************************************************************************)
Stop(x) ==
    /\ left.faults > 0
    /\ node[x].up /\ node[x].cb = "no"
    /\ Becomes(x, OnTxError(PortReset(node[x])))
    /\ left' = [left EXCEPT !.faults = @ - 1]
    /\ UNCHANGED ovr

Start(x) ==
    /\ ~node[x].up
    /\ Becomes(x, RxSubmit(x, [PortReset(node[x]) EXCEPT !.up = TRUE, !.infl = None],
                           1, "start"))
    /\ UNCHANGED <<ovr, left>>

DataCb(x) == DataTx(x) \/ DataTxDone(x) \/ DataTxRx(x) \/ DataRx(x) \/ DataOnRx(x)

Next ==
    \/ \E x \in Sides : Send(x) \/ DataCb(x) \/ ErrorCb(x) \/ Stop(x) \/ Start(x)
    \/ Clock \/ DataRxEnd \/ DataReady \/ Watchdog \/ SlaveOverrun

Spec == Init /\ [][Next]_vars

\* Interrupts are served, the clock runs while the master has a transfer, the
\* watchdog ticks, and a stopped side is started again.
Fairness ==
    /\ \A x \in Sides : WF_vars(DataCb(x)) /\ WF_vars(Start(x))
    /\ WF_vars(DataRxEnd) /\ WF_vars(Clock) /\ WF_vars(DataReady)
    /\ WF_vars(Watchdog) /\ WF_vars(SlaveOverrun)

FairSpec == Spec /\ Fairness

(***************************************************************************)
(* Properties.                                                             *)
(***************************************************************************)
\* Type invariant.
TypeOK ==
    /\ irq \in BOOLEAN /\ ovr \in BOOLEAN
    /\ \A x \in Sides : LET p == node[x] IN
          /\ \A b \in {p.up, p.rxa, p.allowed, p.gate, p.last, p.epoch, p.capt,
                       p.coll, p.line} : b \in BOOLEAN
          /\ \A f \in {p.tx, p.infl, p.fp} : f \in Frames \cup {None}
          /\ p.rawq \in Seq(Frames)
          /\ p.rxn \in 0..2 /\ p.mode \in {"start", "cont"}
          /\ p.rt \in 0..(Limit - 1) /\ p.tt \in 0..(Limit - 1)
          /\ p.parse \in {"hunt", "open", "body", "acc"}
          /\ p.cb \in {"no", "txdone", "txrx", "onrx", "rxend"}

\* "SPI TX and RX DMA operations are mutually exclusive": no transfer is ever
\* started over another one, and the flags of the port tell which one runs.
Exclusive ==
    /\ TypeOK
    /\ \A x \in Sides : LET p == node[x] IN
          /\ p.dma.dir # "clash"
          /\ p.dma.dir = "tx" => p.tx # None /\ ~p.rxa
          /\ p.dma.dir = "rx" => p.tx = None /\ p.rxa /\ p.rxn = p.dma.n
          /\ p.dma.dir = "done" => (p.tx = None) = p.rxa

\* The driver's in-flight frame is the one the port sends, or the one whose
\* completion is being served, so that no callback completes another frame.
PortDriverAgree ==
    \A x \in Sides : LET p == node[x] IN
       /\ p.infl = IF p.cb = "txdone" /\ p.tx = None THEN p.fp ELSE p.tx
       /\ p.infl \notin ToSet(p.rawq) \ {None}

\* A frame waits in the raw queue only while something is left that will try
\* it again: a transfer that will complete, or the edge that ends the slave's
\* packet.  Otherwise it would lie there until the core sends another one.
NotStranded ==
    \A x \in Sides : LET p == node[x] IN
       p.rawq # <<>> /\ p.cb = "no" =>
          \/ p.dma # NoDma
          \/ x = "M" /\ p.epoch /\ (node.S.line \/ irq)

\* "If TX is currently active the buffer is saved and RX DMA will be launched
\* automatically at the end of the TX transfer": a started port never loses
\* the receive buffer, or the station would hear nothing any more.
KeepsListening ==
    \A x \in Sides :
       node[x].up /\ node[x].cb = "no" => node[x].rxn # 0

\* Every frame committed to the driver is released in the end, sent or not: a
\* collision, a slave that is not clocked or a packet broken off never blocks
\* the transmit gate, for which the TX thread waits.
Released ==
    \A x \in Sides : (node[x].infl # None) ~> (node[x].infl = None /\ node[x].rawq = <<>>)

=============================================================================
