----------------------------- MODULE HdlcParser -----------------------------
(***************************************************************************)
(* The receive side of the software driver over a UART: s_on_rx, which     *)
(* runs in the interrupt that ends a receive transfer, and the queue from  *)
(* which drv_recv_frame takes frames in the RX thread of the station.      *)
(*                                                                         *)
(* Nothing is assumed of the line: any octet may arrive at any time, with  *)
(* or without an error, and the line may fall silent anywhere.             *)
(***************************************************************************)
EXTENDS HdlcConfig, SequencesExt

CONSTANTS
    Ports,          \* the ports the driver may be started on
    MaxPermits      \* bound: permits of the receive semaphore

Octets == 0..255

ASSUME PermitsAssumption == MaxPermits \in Nat

VARIABLES
    cfg,    \* the configuration of the station
    drv     \* parser, transfer, recept_q and its semaphore, pool

receiver == <<cfg, drv>>

(***************************************************************************)
(* The receive side.  buf holds the octets of in_frame, the ones of the    *)
(* transfer in progress included, n what the transfer still waits for, and *)
(* stage the staging octet.  miss is history: a flag opened no frame since *)
(* the pool was empty.                                                     *)
(***************************************************************************)
Fresh ==
    [up |-> TRUE, inf |-> FALSE, buf |-> <<>>, elen |-> 0, n |-> 1, stage |-> 0,
     free |-> cfg.pool, q |-> <<>>, sem |-> 0, idle |-> FALSE,
     miss |-> FALSE]

\* s_handle_rx_error
HandleRxError(d) ==
    [d EXCEPT !.free = @ + (IF d.inf THEN 1 ELSE 0),
              !.inf = FALSE, !.buf = <<>>, !.elen = 0, !.stage = 0]

\* The label newframe: a staged flag opens a frame, if the pool has one.
NewFrame(d) ==
    CASE d.inf                           -> d
      [] ~d.inf /\ d.stage # FLAG        -> [d EXCEPT !.n = 1]
      [] ~d.inf /\ d.stage = FLAG        ->
            IF d.free = 0
              THEN [d EXCEPT !.n = 1, !.stage = 0, !.miss = TRUE]
              ELSE [d EXCEPT !.n = 1, !.stage = 0, !.inf = TRUE, !.free = @ - 1,
                             !.miss = FALSE]

Discard(d) == NewFrame(HandleRxError(d))
Arm(d, elen, n) == [d EXCEPT !.elen = elen, !.n = n]

\* Mutant of ClosingFlag: the closing flag does not open the next frame.
ClosingFlagConsumed(d) ==
    IF d.elen < MinLen
      THEN [Arm(d, 0, 1) EXCEPT !.buf = <<>>]
      ELSE NewFrame([d EXCEPT !.q = Append(@, Front(d.buf)), !.sem = @ + 1,
                              !.inf = FALSE, !.buf = <<>>, !.elen = 0])

\* A closing flag: nothing or too little before it, or a frame to deliver.
ClosingFlag(d) ==
    IF d.elen < MinLen
      THEN [Arm(d, 0, 1) EXCEPT !.buf = <<>>]
      ELSE NewFrame([d EXCEPT !.q = Append(@, Front(d.buf)), !.sem = @ + 1,
                              !.inf = FALSE, !.buf = <<>>, !.elen = 0,
                              !.stage = FLAG])

\* An FFF of one octet: the rest of the frame and its flag in one transfer.
Type0(d) ==
    IF d.buf[1] \in 1..127 /\ d.buf[1] < cfg.framesize
      THEN Arm(d, d.buf[1], d.buf[1]) ELSE Discard(d)

\* An FFF of two octets.
Type1First(d) == IF d.buf[1] \div 16 = 8 THEN Arm(d, 1, 1) ELSE Discard(d)

\* Mutant of Type1Second: a frame as long as the buffer is taken.
Type1SecondFull(d) ==
    LET n == (d.buf[1] % 16) * 256 + d.buf[2]
    IN  IF n # 0 /\ n <= cfg.framesize THEN Arm(d, n, n - 1) ELSE Discard(d)

Type1Second(d) ==
    LET n == (d.buf[1] % 16) * 256 + d.buf[2]
    IN  IF n # 0 /\ n < cfg.framesize THEN Arm(d, n, n - 1) ELSE Discard(d)

\* Any other octet is kept while the buffer has room.
Accumulate(d) ==
    IF d.elen + 1 >= cfg.framesize THEN Discard(d) ELSE Arm(d, d.elen + 1, 1)

IsClosing(d) == Last(d.buf) = FLAG /\ ~(cfg.fff = 2 /\ d.elen = 1)

\* s_on_rx at the end of a transfer into in_frame.
InFrame(d) ==
    CASE IsClosing(d)                        -> ClosingFlag(d)
      [] ~IsClosing(d) /\ cfg.fff = 1 /\ d.elen = 0 -> Type0(d)
      [] ~IsClosing(d) /\ cfg.fff = 2 /\ d.elen = 0 -> Type1First(d)
      [] ~IsClosing(d) /\ cfg.fff = 2 /\ d.elen = 1 -> Type1Second(d)
      [] OTHER                               -> Accumulate(d)

\* The UART has received o: chb_rxend_cb at the end of the transfer.  A
\* transfer of no octets takes none and does not end.
Receive(d, o) ==
    CASE ~d.up            -> d
      [] d.up /\ ~d.inf   -> NewFrame([d EXCEPT !.stage = o])
      [] d.up /\ d.inf /\ d.n = 0 -> d
      [] d.up /\ d.inf /\ d.n > 0 ->
            LET e == [d EXCEPT !.buf = Append(@, o), !.n = @ - 1]
            IN  IF e.n = 0 THEN InFrame(e) ELSE e

\* chb_timeout_cb: the line has fallen silent.  Between frames the RX thread is
\* told, and the transfer stays as it is.
Timeout(d) ==
    IF d.inf /\ d.elen # 0 THEN Discard(d) ELSE [d EXCEPT !.sem = @ + 1]

\* Mutant of TakeOne: the frame is not given back.
TakeOneKept(d) == IF d.q = <<>> THEN [d EXCEPT !.sem = @ - 1]
                      ELSE [d EXCEPT !.sem = @ - 1, !.q = Tail(@)]

\* A permit and, if there is one, a frame; the core gives the frame back.
TakeOne(d) ==
    IF d.q = <<>> THEN [d EXCEPT !.sem = @ - 1]
                  ELSE [d EXCEPT !.sem = @ - 1, !.q = Tail(@), !.free = @ + 1]

-----------------------------------------------------------------------------
RxInit == cfg \in Configs /\ drv = Fresh

RxOctet(o) ==
    /\ drv' = [Receive(drv, o) EXCEPT !.idle = FALSE]
    /\ UNCHANGED cfg

\* An octet arrives with an error (chb_rxerr_cb).
RxError ==
    /\ drv.up
    /\ drv' = Discard(drv)
    /\ UNCHANGED cfg

\* The line is silent.  The UART tells it once.
RxIdle ==
    /\ drv.up /\ ~drv.idle
    /\ drv.sem < MaxPermits
    /\ drv' = [Timeout(drv) EXCEPT !.idle = TRUE]
    /\ UNCHANGED cfg

\* The RX thread: one round of the loop of drv_recv_frame.
RxTake ==
    /\ drv.up /\ drv.sem > 0
    /\ drv' = TakeOne(drv)
    /\ UNCHANGED cfg

\* ioHdlcStationDeinit; ioHdlcSwDriverInit and ioHdlcStationInit.
RxStop ==
    /\ drv.up
    /\ drv' = [Fresh EXCEPT !.up = FALSE]
    /\ UNCHANGED cfg

RxStart ==
    /\ ~drv.up
    /\ drv' = Fresh
    /\ UNCHANGED cfg

RxNext ==
    \/ \E o \in Octets : RxOctet(o)
    \/ RxError
    \/ RxIdle
    \/ RxTake
    \/ RxStop
    \/ RxStart

RxSpec == RxInit /\ [][RxNext]_receiver

-----------------------------------------------------------------------------
DriverState ==
    [up : BOOLEAN, inf : BOOLEAN, buf : Seq(Octets), elen : Nat, n : Nat,
     stage : Octets, free : Nat, q : Seq(Seq(Octets)), sem : Nat,
     idle : BOOLEAN, miss : BOOLEAN]

RxTypeOK == cfg \in Configs /\ drv \in DriverState

\* A transfer stays in the frame buffer, whatever length the line declares:
\* its last octet is frame[elen], where s_on_rx looks for the flag, and that
\* is inside the buffer.  A transfer of no octets, which s_on_rx asserts against
\* ("Invalid RX chunk size"), is submitted in one case only: an FFF of two
\* octets declares a length of 1.  A frame in recept_q is long enough to be one,
\* and leaves room for its flag.
InBounds ==
    /\ drv.inf =>
          /\ Len(drv.buf) + drv.n = drv.elen + 1
          /\ drv.elen < cfg.framesize
    /\ drv.n = 0 => drv.inf /\ cfg.fff = 2 /\ drv.elen = 1
    /\ \A i \in DOMAIN drv.q : Len(drv.q[i]) \in MinLen..(cfg.framesize - 1)

\* Every frame in recept_q has a permit, so that none is left behind by idle
\* permits and returns of NULL; and the pool has all other frames.
Accounted ==
    /\ drv.sem >= Len(drv.q)
    /\ drv.free + Len(drv.q) + (IF drv.inf THEN 1 ELSE 0) = cfg.pool

\* s_fcs_check_sw, s_fcs_compute_sw: "unsupported FCS size".  A configuration
\* the driver accepts never ends up with a function that cannot handle it, and
\* transparency never with a port that computes the FCS behind the encoding.
FcsHandled ==
    \A b \in Backends, port \in Ports, fcs \in {0, 2, 4} :
       Accepts(b, fcs, cfg.tr, cfg.fff) =>
          LET y == FcsPolicy(b, port, [cfg EXCEPT !.fcs = fcs])
          IN  /\ "sw" \in {y.check, y.compute} => fcs = 2
              /\ y.defer => ~cfg.tr /\ fcs \in port.offload
=============================================================================
