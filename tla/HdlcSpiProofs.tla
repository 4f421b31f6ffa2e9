---------------------------- MODULE HdlcSpiProofs ----------------------------
(***************************************************************************)
(* The safety properties of HdlcSpi for any frames, any limit of the       *)
(* watchdog above one tick and any number of sends and faults.             *)
(***************************************************************************)
EXTENDS HdlcSpi, SequenceTheorems, TLAPS

Units == {"F", "L", "B"}
Opt   == Frames \cup {None}
Ticks == 0..(Limit - 1)
Sizes == 0..2
DmaType == [dir : {"no", "tx", "rx", "done"}, todo : Seq(Units), n : Sizes]

PortType ==
    [up : BOOLEAN, tx : Opt, rxn : Sizes, mode : {"start", "cont"}, rxa : BOOLEAN,
     allowed : BOOLEAN, gate : BOOLEAN, rt : Ticks, tt : Ticks,
     last : BOOLEAN, epoch : BOOLEAN, capt : BOOLEAN, coll : BOOLEAN,
     line : BOOLEAN, dma : DmaType,
     cb : {"no", "txdone", "txrx", "onrx", "rxend"}, got : Units \cup {"X"},
     fp : Opt, infl : Opt, rawq : Seq(Frames),
     parse : {"hunt", "open", "body", "acc"}]

RxDma(n) == [dir |-> "rx", todo |-> <<>>, n |-> n]

(***************************************************************************)
(* The inductive invariant.                                                *)
(***************************************************************************)
\* The transfer of a side is the one the flags of its port name.
Transfers(p) ==
    /\ p.dma.dir = "no" => p.dma = NoDma
    /\ p.dma.dir = "tx" => p.tx # None /\ p.dma.todo # <<>>
    /\ p.dma.dir = "rx" => p.rxa /\ p.rxn = p.dma.n
    /\ p.dma.dir = "done" => p.rxa \/ p.tx # None
    /\ p.tx # None => p.dma.dir \in {"tx", "done"} /\ ~p.rxa

\* How far a completion has got, and what it left.
Serving(x, p) ==
    /\ p.cb # "no" => p.up
    /\ p.rxa => p.dma # NoDma \/ (x = "M" /\ p.cb \in {"onrx", "rxend"})
    /\ p.cb \in {"onrx", "rxend"} => p.tx = None /\ p.dma = NoDma
    /\ p.cb = "onrx" => (p.rxa <=> x = "M")
    /\ p.cb = "rxend" => x = "M" /\ p.rxa
    /\ p.cb = "txdone" => p.tx = None
    /\ p.cb \in {"txdone", "txrx"} /\ x = "S" /\ p.tx = None => p.dma = NoDma

\* A stopped side has nothing to send and nothing under way.
Stopped(p) ==
    ~p.up => /\ p.tx = None /\ p.rawq = <<>> /\ ~p.rxa /\ ~p.epoch

\* The frames of a queue are different ones, and f is none of them.
Distinct(s) == \A i, j \in 1..Len(s) : s[i] = s[j] => i = j
Absent(f, s) == \A i \in 1..Len(s) : s[i] # f

\* The pipeline of the driver follows the port.
Pipeline(p) ==
    /\ p.infl = IF p.cb = "txdone" THEN p.fp ELSE p.tx
    /\ (p.cb = "txdone") = (p.fp # None)
    /\ Absent(p.infl, p.rawq) /\ Distinct(p.rawq)

\* A receive buffer is there, unless it is just being used.
Listening(p) == p.up /\ p.cb # "onrx" => p.rxn # 0

\* A frame waits for a transmission, for the end of a reception, or for the end
\* of the slave's packet.
Waiting(x, p) ==
    p.rawq # <<>> => \/ p.tx # None \/ p.cb = "txdone"
                     \/ x = "M" /\ (p.rxa \/ p.epoch)

\* The DMA never fails while it sends, never while the master receives.
NoTxErrors == \A x \in Sides : <<x, "tx">> \notin DmaErrors
NoMasterRxErrors == <<"M", "rx">> \notin DmaErrors

PortOK(x, p) ==
    /\ p \in PortType
    /\ Transfers(p) /\ Serving(x, p) /\ Stopped(p) /\ Pipeline(p)
    /\ NoTxErrors => Listening(p)
    /\ NoMasterRxErrors => Waiting(x, p)

\* The master takes the slave's packet for open only while it is, or while the
\* edge that ends it is pending.
EpochSeen == node.M.epoch => node.S.line \/ irq

IInv ==
    /\ node \in [Sides -> PortType]
    /\ irq \in BOOLEAN /\ ovr \in BOOLEAN
    /\ \A x \in Sides : PortOK(x, node[x])
    /\ EpochSeen

(***************************************************************************)
(* The operators of the port.                                              *)
(***************************************************************************)
\* What none of the operators below changes: whether the side is up and how far
\* its completion has got; and none opens an epoch.
Kept(p, q) ==
    /\ q.up = p.up /\ q.cb = p.cb /\ q.fp = p.fp
    /\ q.epoch => p.epoch

\* The frames of the driver.
KeptDriver(p, q) == q.infl = p.infl /\ q.rawq = p.rawq

\* A watchdog that was reset, and no buffer.
LEMMA ZeroTicks == 0 \in Ticks /\ 0 \in Sizes
BY LimitAssumption DEF Ticks, Sizes

\* The records of the transfers.
LEMMA DmaTypes ==
    /\ NoDma \in DmaType /\ NoDma.dir = "no"
    /\ \A n \in Sizes : RxDma(n) \in DmaType /\ RxDma(n).dir = "rx" /\ RxDma(n).n = n
    /\ \A n \in Sizes : RxDma(n) # NoDma
BY DEF NoDma, RxDma, DmaType, Sizes

\* A reception is started on an idle port.
LEMMA StartReceiveFacts ==
    ASSUME NEW p \in PortType, p.dma = NoDma
    PROVE  LET q == StartReceive(p) IN
           /\ q \in PortType /\ Kept(p, q) /\ KeptDriver(p, q)
           /\ q.tx = p.tx /\ q.rxn = p.rxn /\ q.line = p.line
           /\ q.epoch = p.epoch
           /\ q.rxa /\ q.dma = RxDma(p.rxn)
<1>1. RxDma(p.rxn) \in DmaType
  BY DmaTypes DEF PortType
<1>2. StartReceive(p) = [p EXCEPT !.rxa = TRUE, !.dma = RxDma(p.rxn)]
  BY DEF StartReceive, Transfer, RxDma
<1>. QED BY <1>1, <1>2 DEF PortType, Kept, KeptDriver

\* chb_spi_try_start_master_rx_i changes nothing, or starts a reception on a
\* port that was idle.
LEMMA TryMasterRxFacts ==
    ASSUME NEW p \in PortType
    PROVE  LET q == TryMasterRx(p) IN
           /\ q \in PortType /\ Kept(p, q) /\ KeptDriver(p, q)
           /\ q.tx = p.tx /\ q.rxn = p.rxn /\ q.line = p.line
           /\ q.epoch = p.epoch
           /\ \/ q.rxa = p.rxa /\ q.dma = p.dma
              \/ /\ ~p.rxa /\ p.tx = None /\ p.dma = NoDma
                 /\ q.rxa /\ q.dma = RxDma(p.rxn) /\ p.rxn # 0
<1>. DEFINE r == [p EXCEPT !.capt = @ /\ p.allowed, !.allowed = (p.rxn = 1)]
<1>1. CASE TryMasterRx(p) = p
  BY <1>1 DEF Kept, KeptDriver
<1>2. CASE TryMasterRx(p) # p
  <2>1. /\ ~p.rxa /\ p.tx = None /\ p.dma = NoDma /\ p.rxn # 0
        /\ TryMasterRx(p) = StartReceive(r)
    BY <1>2 DEF TryMasterRx
  <2>2. /\ r \in PortType /\ r.dma = NoDma /\ r.rxn = p.rxn /\ Kept(p, r)
        /\ KeptDriver(p, r) /\ r.tx = p.tx /\ r.line = p.line /\ r.epoch = p.epoch
    BY <2>1 DEF PortType, Kept, KeptDriver
  <2>3. LET q == StartReceive(r) IN
           /\ q \in PortType /\ Kept(r, q) /\ KeptDriver(r, q)
           /\ q.tx = r.tx /\ q.rxn = r.rxn /\ q.line = r.line
           /\ q.epoch = r.epoch
           /\ q.rxa /\ q.dma = RxDma(r.rxn)
    BY <2>2, StartReceiveFacts
  <2>. HIDE DEF r
  <2>. QED BY <2>1, <2>2, <2>3 DEF Kept, KeptDriver
<1>. QED BY <1>1, <1>2

\* chb_spi_rx_submit saves the buffer; a transfer is started on an idle port
\* that does not send.
LEMMA RxSubmitFacts ==
    ASSUME NEW x \in Sides, NEW p \in PortType, NEW n \in 1..2,
           NEW mode \in {"start", "cont"}, p.up,
           x = "S" /\ p.tx = None => p.dma = NoDma
    PROVE  LET q == RxSubmit(x, p, n, mode) IN
           /\ q \in PortType /\ Kept(p, q) /\ KeptDriver(p, q)
           /\ q.tx = p.tx /\ q.rxn = n /\ q.line = p.line
           /\ \/ q.rxa = p.rxa /\ q.dma = p.dma /\ (x = "M" \/ p.tx # None)
              \/ /\ p.tx = None /\ p.dma = NoDma /\ (x = "M" => ~p.rxa)
                 /\ q.rxa /\ q.dma = RxDma(n)
<1>. DEFINE g == x = "S" /\ mode # "start"
            r == [p EXCEPT !.rxn = n, !.mode = mode, !.gate = g, !.rt = 0]
<1>0. g \in BOOLEAN /\ n \in Sizes
  BY DEF Sizes
<1>. HIDE DEF g
<1>1. /\ r \in PortType /\ Kept(p, r) /\ KeptDriver(p, r) /\ r.tx = p.tx
      /\ r.rxn = n /\ r.line = p.line /\ r.rxa = p.rxa /\ r.dma = p.dma
  BY <1>0, ZeroTicks DEF PortType, Kept, KeptDriver
<1>2. RxSubmit(x, p, n, mode) = IF p.tx # None THEN r
                                ELSE IF x = "M" THEN TryMasterRx(r) ELSE StartReceive(r)
  BY DEF RxSubmit, g
<1>3. LET q == TryMasterRx(r) IN
        /\ q \in PortType /\ Kept(r, q) /\ KeptDriver(r, q)
        /\ q.tx = r.tx /\ q.rxn = r.rxn /\ q.line = r.line
        /\ \/ q.rxa = r.rxa /\ q.dma = r.dma
           \/ /\ ~r.rxa /\ r.tx = None /\ r.dma = NoDma
              /\ q.rxa /\ q.dma = RxDma(r.rxn)
  BY <1>1, TryMasterRxFacts
<1>4. ASSUME r.dma = NoDma
      PROVE  LET q == StartReceive(r) IN
               /\ q \in PortType /\ Kept(r, q) /\ KeptDriver(r, q)
               /\ q.tx = r.tx /\ q.rxn = r.rxn /\ q.line = r.line
               /\ q.rxa /\ q.dma = RxDma(r.rxn)
  BY <1>1, <1>4, StartReceiveFacts
<1>. HIDE DEF r
<1>5. CASE p.tx # None
  BY <1>1, <1>2, <1>5
<1>6. CASE p.tx = None /\ x = "M"
  BY <1>1, <1>2, <1>3, <1>6 DEF Kept, KeptDriver
<1>7. CASE p.tx = None /\ x = "S"
  BY <1>1, <1>2, <1>4, <1>7 DEF Kept, KeptDriver
<1>. QED BY <1>5, <1>6, <1>7 DEF Sides

\* Types: what chb_spi_rx_cancel resets.
LEMMA CancelType ==
    ASSUME NEW p \in PortType
    PROVE  LET q == [p EXCEPT !.rxn = 0, !.mode = "start", !.epoch = FALSE,
                              !.capt = FALSE, !.coll = FALSE, !.allowed = FALSE,
                              !.gate = FALSE, !.rt = 0, !.tt = 0] IN
           /\ q \in PortType /\ ~q.epoch /\ q.rxn = 0
           /\ q.up = p.up /\ q.cb = p.cb /\ q.fp = p.fp
           /\ q.infl = p.infl /\ q.rawq = p.rawq /\ q.tx = p.tx /\ q.line = p.line
           /\ q.rxa = p.rxa /\ q.dma = p.dma
BY ZeroTicks DEF PortType

\* s_on_rx with an error, on a port with nothing under way: a buffer for the
\* next octet is there again.
LEMMA OnRxErrorFacts ==
    ASSUME NEW x \in Sides, NEW p \in PortType, p.up, ~p.rxa, p.dma = NoDma
    PROVE  LET q == OnRxError(x, p) IN
           /\ q \in PortType /\ Kept(p, q) /\ KeptDriver(p, q)
           /\ q.tx = p.tx /\ q.rxn = 1 /\ q.line = p.line
           /\ \/ ~q.rxa /\ q.dma = NoDma /\ (x = "M" \/ p.tx # None)
              \/ p.tx = None /\ q.rxa /\ q.dma = RxDma(1)
<1>. DEFINE o == [p EXCEPT !.parse = "hunt"]
            r == RxCancel(x, o)
<1>0. /\ o \in PortType /\ ~o.rxa /\ o.dma = p.dma /\ o.tx = p.tx /\ o.up
      /\ o.line = p.line /\ Kept(p, o) /\ KeptDriver(p, o)
  BY DEF PortType, Kept, KeptDriver
<1>. HIDE DEF o
<1>9. r = [o EXCEPT !.rxn = 0, !.mode = "start", !.epoch = FALSE, !.capt = FALSE,
                    !.coll = FALSE, !.allowed = FALSE, !.gate = FALSE, !.rt = 0, !.tt = 0]
  BY <1>0 DEF RxCancel
<1>. HIDE DEF r
<1>1. /\ r \in PortType /\ Kept(p, r) /\ KeptDriver(p, r) /\ r.tx = p.tx /\ r.up
      /\ r.line = p.line /\ ~r.rxa /\ r.dma = p.dma
  <2>1. /\ r \in PortType /\ ~r.epoch
        /\ r.up = o.up /\ r.cb = o.cb /\ r.fp = o.fp
        /\ r.infl = o.infl /\ r.rawq = o.rawq /\ r.tx = o.tx /\ r.line = o.line
        /\ r.rxa = o.rxa /\ r.dma = o.dma
    BY <1>0, <1>9, CancelType
  <2>. QED BY <1>0, <2>1 DEF Kept, KeptDriver
<1>. HIDE DEF r
<1>2. LET q == RxSubmit(x, r, 1, "start") IN
           /\ q \in PortType /\ Kept(r, q) /\ KeptDriver(r, q)
           /\ q.tx = r.tx /\ q.rxn = 1 /\ q.line = r.line
           /\ \/ q.rxa = r.rxa /\ q.dma = r.dma /\ (x = "M" \/ r.tx # None)
              \/ r.tx = None /\ q.rxa /\ q.dma = RxDma(1)
  BY <1>1, RxSubmitFacts
<1>3. OnRxError(x, p) = RxSubmit(x, r, 1, "start")
  BY DEF OnRxError, o, r
<1>. QED BY <1>1, <1>2, <1>3 DEF Kept, KeptDriver

(***************************************************************************)
(* The transmit pipeline.                                                  *)
(***************************************************************************)
TxDma(open) == [dir |-> "tx", todo |-> Wire(open), n |-> 0]

\* What is sent is never empty.
LEMMA TxDmaType ==
    ASSUME NEW open \in BOOLEAN
    PROVE  TxDma(open) \in DmaType /\ TxDma(open).todo # <<>> /\ TxDma(open).dir = "tx"
<1>1. /\ <<>> \in Seq(Units) /\ <<"F">> \in Seq(Units) /\ Len(<<"F">>) = 1
      /\ <<"L", "B">> \in Seq(Units) /\ Len(<<"L", "B">>) = 2 /\ Len(<<>>) = 0
  BY DEF Units
<1>2. \A s, t \in Seq(Units) : s \o t \in Seq(Units) /\ Len(s \o t) = Len(s) + Len(t)
  BY ConcatProperties
<1>3. Wire(open) \in Seq(Units) /\ Len(Wire(open)) >= 2
  BY <1>1, <1>2 DEF Wire
<1>4. Wire(open) # <<>>
  BY <1>1, <1>3
<1>. QED BY <1>3, <1>4, ZeroTicks DEF TxDma, DmaType

\* The port can take a frame: it sends none, and a master does not receive.
CanTake(x, p) ==
    /\ p.up /\ p.tx = None
    /\ x = "M" => ~p.rxa
    /\ p.rxa \/ p.dma = NoDma

\* chb_spi_tx_submit: the port sends the frame, and nothing else.
LEMMA TxSubmitFacts ==
    ASSUME NEW x \in Sides, NEW p \in PortType, NEW f \in Frames,
           NEW open \in BOOLEAN, CanTake(x, p)
    PROVE  LET q == TxSubmit(x, p, f, open) IN
           /\ q \in PortType /\ Kept(p, q) /\ KeptDriver(p, q)
           /\ q.tx = f /\ ~q.rxa /\ q.dma = TxDma(open)
           /\ p.rxn # 0 => q.rxn # 0
<1>. DEFINE q == [(IF p.rxa THEN [StopTransfer(p) EXCEPT !.rxa = FALSE] ELSE p)
                    EXCEPT !.tx = f]
            r == IF p.rxn # 0 THEN OnRxError(x, q) ELSE q
            t == [r EXCEPT !.capt = FALSE, !.allowed = FALSE, !.gate = FALSE,
                           !.rt = 0, !.tt = 0, !.line = (x = "S"),
                           !.dma = TxDma(open)]
<1>1. /\ q \in PortType /\ Kept(p, q) /\ KeptDriver(p, q) /\ q.tx = f /\ q.up
      /\ ~q.rxa /\ q.dma = NoDma /\ q.rxn = p.rxn
  <2>1. CASE p.rxa
    <3>1. q = [p EXCEPT !.dma = NoDma, !.rxa = FALSE, !.tx = f]
      BY <2>1 DEF StopTransfer
    <3>. HIDE DEF q
    <3>. QED BY <3>1, DmaTypes DEF PortType, Kept, KeptDriver, CanTake, Opt
  <2>2. CASE ~p.rxa
    BY <2>2 DEF PortType, Kept, KeptDriver, CanTake, Opt
  <2>. QED BY <2>1, <2>2 DEF PortType
<1>. HIDE DEF q
<1>2. LET s == OnRxError(x, q) IN
           /\ s \in PortType /\ Kept(q, s) /\ KeptDriver(q, s)
           /\ s.tx = q.tx /\ s.rxn = 1 /\ s.line = q.line
           /\ \/ ~s.rxa /\ s.dma = NoDma /\ (x = "M" \/ q.tx # None)
              \/ q.tx = None /\ s.rxa /\ s.dma = RxDma(1)
  BY <1>1, OnRxErrorFacts
<1>3. f # None
  BY NoneAssumption
<1>4. /\ r \in PortType /\ Kept(p, r) /\ KeptDriver(p, r) /\ r.tx = f
      /\ ~r.rxa /\ r.dma = NoDma /\ (p.rxn # 0 => r.rxn # 0)
  <2>1. CASE p.rxn # 0
    <3>1. r = OnRxError(x, q)
      BY <2>1
    <3>. HIDE DEF r
    <3>2. r \in PortType /\ r.tx = f /\ r.rxn # 0
      BY <1>1, <1>2, <3>1
    <3>3. ~r.rxa /\ r.dma = NoDma
      BY <1>1, <1>2, <1>3, <3>1
    <3>4. Kept(p, r) /\ KeptDriver(p, r)
      BY <1>1, <1>2, <3>1 DEF Kept, KeptDriver
    <3>. QED BY <3>2, <3>3, <3>4
  <2>2. CASE p.rxn = 0
    BY <1>1, <2>2
  <2>. QED BY <2>1, <2>2
<1>5. TxSubmit(x, p, f, open) =
        [r EXCEPT !.capt = FALSE, !.allowed = FALSE, !.gate = FALSE,
                  !.rt = 0, !.tt = 0, !.line = (x = "S"),
                  !.dma = Transfer(r, TxDma(open))]
  BY DEF TxSubmit, TxDma, q
<1>. HIDE DEF r
<1>6. TxSubmit(x, p, f, open) = t
  BY <1>4, <1>5 DEF Transfer
<1>7. /\ t \in PortType /\ Kept(r, t) /\ KeptDriver(r, t) /\ t.tx = r.tx
      /\ t.rxa = r.rxa /\ t.dma = TxDma(open) /\ t.rxn = r.rxn
  BY <1>4, TxDmaType, ZeroTicks DEF PortType, Kept, KeptDriver
<1>. QED BY <1>4, <1>6, <1>7 DEF Kept, KeptDriver

\* The head of raw_q is taken.
LEMMA TakeHead ==
    ASSUME NEW s \in Seq(Frames), s # <<>>, Distinct(s)
    PROVE  /\ Head(s) \in Frames /\ Tail(s) \in Seq(Frames)
           /\ Distinct(Tail(s)) /\ Absent(Head(s), Tail(s))
<1>1. /\ Head(s) = s[1] /\ Head(s) \in Frames /\ Tail(s) \in Seq(Frames)
      /\ Len(Tail(s)) = Len(s) - 1 /\ Len(s) \in Nat \ {0}
      /\ \A i \in 1..Len(Tail(s)) : Tail(s)[i] = s[i + 1]
  BY EmptySeq
<1>. QED BY <1>1 DEF Distinct, Absent

\* A frame goes to the end of raw_q.
LEMMA AddLast ==
    ASSUME NEW s \in Seq(Frames), NEW f \in Frames, Distinct(s), Absent(f, s)
    PROVE  /\ Append(s, f) \in Seq(Frames) /\ Append(s, f) # <<>>
           /\ Distinct(Append(s, f))
           /\ \A g : Absent(g, s) /\ g # f => Absent(g, Append(s, f))
<1>1. /\ Append(s, f) \in Seq(Frames) /\ Len(Append(s, f)) = Len(s) + 1
      /\ Len(s) \in Nat /\ Append(s, f)[Len(s) + 1] = f
      /\ \A i \in 1..Len(s) : Append(s, f)[i] = s[i]
  OBVIOUS
<1>2. Append(s, f) # <<>>
  BY <1>1, EmptySeq
<1>3. \A i \in 1..Len(Append(s, f)) : i \in 1..Len(s) \/ i = Len(s) + 1
  BY <1>1
<1>4. Distinct(Append(s, f))
  BY <1>1, <1>3 DEF Distinct, Absent
<1>5. ASSUME NEW g, Absent(g, s), g # f PROVE Absent(g, Append(s, f))
  BY <1>1, <1>3, <1>5 DEF Absent
<1>. QED BY <1>1, <1>2, <1>4, <1>5

\* A port without a transfer in its flags has none.
Quiet(p) == p.tx = None /\ ~p.rxa => p.dma = NoDma

\* The flags name every transfer.
LEMMA TransfersQuiet ==
    ASSUME NEW p \in PortType, Transfers(p)
    PROVE  Quiet(p)
<1>1. p.dma.dir \in {"no", "tx", "rx", "done"}
  BY DEF PortType, DmaType
<1>. QED BY <1>1 DEF Transfers, Quiet

\* Nothing is tried: there is no frame, or one is under way, or the port cannot
\* take one.
Busy(x, p) ==
    \/ p.infl # None \/ p.rawq = <<>> \/ p.tx # None
    \/ x = "M" /\ (p.rxa \/ p.epoch)

\* s_try_start_next_tx_i changes nothing, or the port sends the head of raw_q.
LEMMA TryNextFacts ==
    ASSUME NEW x \in Sides, NEW p \in PortType, NEW open \in BOOLEAN,
           Quiet(p), ~p.up => p.rawq = <<>>, Distinct(p.rawq)
    PROVE  LET q == TryNext(x, p, open) IN
           \/ q = p /\ Busy(x, p)
           \/ /\ q \in PortType /\ Kept(p, q)
              /\ p.rxn # 0 => q.rxn # 0
              /\ p.up /\ p.infl = None /\ p.tx = None /\ p.rawq # <<>>
              /\ x = "M" => ~p.rxa
              /\ q.infl = q.tx /\ q.tx \in Frames /\ ~q.rxa /\ q.dma = TxDma(open)
              /\ Absent(q.infl, q.rawq) /\ Distinct(q.rawq)
<1>. DEFINE b == TxBusy(x, p)
            q == [p EXCEPT !.rawq = Tail(@)]
            h == Head(p.rawq)
            r == [q EXCEPT !.infl = h]
<1>1. b = (p.up /\ (p.tx # None \/ (x = "M" /\ (p.rxa \/ p.epoch))))
  BY DEF TxBusy, MasterTxBlocked, Sides
<1>2. CASE p.infl # None \/ p.rawq = <<>> \/ b
  BY <1>1, <1>2 DEF TryNext, Busy
<1>3. CASE p.infl = None /\ p.rawq # <<>> /\ ~b
  <2>1. p.up /\ p.tx = None /\ (x = "M" => ~p.rxa)
    BY <1>1, <1>3
  <2>2. TryNext(x, p, open) = TxSubmit(x, r, h, open)
    BY <1>3, <2>1 DEF TryNext
  <2>3. /\ h \in Frames /\ Tail(p.rawq) \in Seq(Frames)
        /\ Distinct(Tail(p.rawq)) /\ Absent(h, Tail(p.rawq))
    BY <1>3, TakeHead DEF PortType
  <2>. HIDE DEF h
  <2>4. /\ r \in PortType /\ Kept(p, r) /\ r.rawq = Tail(p.rawq) /\ r.infl = h
        /\ r.tx = p.tx /\ r.rxa = p.rxa /\ r.dma = p.dma /\ r.rxn = p.rxn
    BY <2>3 DEF PortType, Kept, Opt
  <2>5. CanTake(x, r)
    BY <2>1, <2>4 DEF CanTake, Quiet, Kept
  <2>. HIDE DEF r
  <2>6. LET t == TxSubmit(x, r, h, open) IN
           /\ t \in PortType /\ Kept(r, t) /\ KeptDriver(r, t)
           /\ t.tx = h /\ ~t.rxa /\ t.dma = TxDma(open)
           /\ r.rxn # 0 => t.rxn # 0
    BY <2>3, <2>4, <2>5, TxSubmitFacts
  <2>. QED BY <1>3, <2>1, <2>2, <2>3, <2>4, <2>6 DEF Kept, KeptDriver
<1>. QED BY <1>2, <1>3

(***************************************************************************)
(* Steps.                                                                  *)
(***************************************************************************)
\* A port that has just been given a frame.
LEMMA SubmittedOK ==
    ASSUME NEW x \in Sides, NEW p \in PortType, NEW open \in BOOLEAN,
           p.up, p.tx \in Frames, p.infl = p.tx, ~p.rxa, p.dma = TxDma(open),
           p.cb \in {"no", "txrx"}, p.fp = None,
           Absent(p.infl, p.rawq), Distinct(p.rawq), NoTxErrors => p.rxn # 0
    PROVE  PortOK(x, p)
<1>1. /\ p.tx # None /\ p.dma.dir = "tx" /\ p.dma.todo # <<>> /\ p.dma # NoDma
  BY NoneAssumption, TxDmaType, DmaTypes
<1>2. Transfers(p) /\ Serving(x, p)
  BY <1>1 DEF Transfers, Serving
<1>3. Stopped(p) /\ Pipeline(p) /\ Waiting(x, p)
  BY <1>1 DEF Stopped, Pipeline, Waiting
<1>. QED BY <1>2, <1>3 DEF PortOK, Listening

\* A port that listens, or waits to, and has nothing to send.
LEMMA FreshOK ==
    ASSUME NEW x \in Sides, NEW p \in PortType, p.up, p.tx = None, p.infl = None,
           p.rawq = <<>>, p.cb = "no", p.fp = None, p.rxn # 0,
           \/ ~p.rxa /\ p.dma = NoDma
           \/ p.rxa /\ p.dma = RxDma(p.rxn)
    PROVE  PortOK(x, p)
<1>1. /\ NoDma.dir = "no" /\ RxDma(p.rxn).dir = "rx" /\ RxDma(p.rxn).n = p.rxn
      /\ RxDma(p.rxn) # NoDma
  BY DmaTypes DEF PortType
<1>2. Transfers(p) /\ Serving(x, p)
  BY <1>1 DEF Transfers, Serving
<1>3. Stopped(p) /\ Pipeline(p) /\ Waiting(x, p)
  BY EmptySeq DEF Stopped, Pipeline, Waiting, Absent, Distinct
<1>. QED BY <1>2, <1>3 DEF PortOK, Listening

\* A step of one side that leaves its port in order, and that opens no epoch,
\* keeps the inductive invariant: a change of the line leaves an edge pending.
LEMMA BecomesInv ==
    ASSUME IInv, NEW x \in Sides, NEW q, Becomes(x, q), PortOK(x, q),
           x = "M" /\ q.epoch => node.M.epoch, ovr' \in BOOLEAN
    PROVE  IInv'
<1>1. /\ node \in [Sides -> PortType] /\ q \in PortType
      /\ \A y \in Sides : PortOK(y, node[y])
  BY DEF IInv, PortOK
<1>2. node' = [node EXCEPT ![x] = q]
  BY DEF Becomes
<1>3. node' \in [Sides -> PortType]
  BY <1>1, <1>2
<1>4. ASSUME NEW y \in Sides PROVE PortOK(y, node'[y])
  BY <1>1, <1>2
<1>5. irq' \in BOOLEAN
  BY DEF Becomes, IInv
<1>6. EpochSeen'
  <2>1. CASE x = "M"
    BY <1>1, <1>2, <2>1 DEF Becomes, EpochSeen, IInv, Sides
  <2>2. CASE x = "S"
    BY <1>1, <1>2, <2>2 DEF Becomes, EpochSeen, IInv, Sides, Edge, PortType
  <2>. QED BY <2>1, <2>2 DEF Sides
<1>. QED BY <1>3, <1>4, <1>5, <1>6 DEF IInv

\* A started port with nothing under way is given its first receive buffer.
LEMMA StartedOK ==
    ASSUME NEW x \in Sides, NEW s \in PortType, s.up, s.tx = None, s.dma = NoDma,
           ~s.rxa, s.infl = None, s.rawq = <<>>, s.cb = "no", s.fp = None, ~s.epoch
    PROVE  /\ PortOK(x, RxSubmit(x, s, 1, "start"))
           /\ ~RxSubmit(x, s, 1, "start").epoch
<1>. DEFINE q == RxSubmit(x, s, 1, "start")
<1>1. /\ q \in PortType /\ Kept(s, q) /\ KeptDriver(s, q)
      /\ q.tx = s.tx /\ q.rxn = 1
      /\ \/ q.rxa = s.rxa /\ q.dma = s.dma
         \/ q.rxa /\ q.dma = RxDma(1)
  BY RxSubmitFacts
<1>. HIDE DEF q
<1>2. /\ q.up /\ q.tx = None /\ q.infl = None /\ q.rawq = <<>> /\ q.cb = "no"
      /\ q.fp = None /\ q.rxn # 0 /\ ~q.epoch
  BY <1>1 DEF Kept, KeptDriver
<1>3. (~q.rxa /\ q.dma = NoDma) \/ (q.rxa /\ q.dma = RxDma(q.rxn))
  BY <1>1
<1>4. PortOK(x, q)
  BY <1>1, <1>2, <1>3, FreshOK
<1>. QED BY <1>2, <1>4 DEF q

\* The two stations at power on.
LEMMA InitIInv == Init => IInv
<1>. SUFFICES ASSUME Init PROVE IInv
  OBVIOUS
<1>. DEFINE s == [Station0 EXCEPT !.up = TRUE]
<1>1. /\ s \in PortType /\ s.up /\ s.tx = None /\ s.dma = NoDma /\ ~s.rxa
      /\ s.infl = None /\ s.rawq = <<>> /\ s.cb = "no" /\ s.fp = None /\ ~s.epoch
  <2>1. /\ None \in Opt /\ NoDma \in DmaType /\ "X" \in Units \cup {"X"}
        /\ <<>> \in Seq(Frames)
    BY DmaTypes, EmptySeq DEF Opt
  <2>2. Station0 \in PortType
    BY <2>1, ZeroTicks DEF Station0, PortType
  <2>. QED BY <2>2 DEF Station0, PortType
<1>. HIDE DEF s
<1>2. ASSUME NEW x \in Sides
      PROVE  /\ PortOK(x, RxSubmit(x, s, 1, "start"))
             /\ ~RxSubmit(x, s, 1, "start").epoch
  BY <1>1, StartedOK
<1>3. node = [x \in Sides |-> RxSubmit(x, s, 1, "start")] /\ irq = FALSE /\ ovr = FALSE
  BY DEF Init, s
<1>4. \A x \in Sides : PortOK(x, node[x]) /\ ~node[x].epoch
  BY <1>2, <1>3
<1>5. node \in [Sides -> PortType]
  BY <1>2, <1>3 DEF PortOK
<1>. QED BY <1>3, <1>4, <1>5 DEF IInv, EpochSeen, Sides

\* No frame is None.
LEMMA NoneAbsent ==
    ASSUME NEW s \in Seq(Frames)
    PROVE  Absent(None, s)
BY NoneAssumption DEF Absent

\* The end of a transmission: the frame is the one being completed.
LEMMA DataTxStep ==
    ASSUME IInv, NEW x \in Sides, DataTx(x)
    PROVE  IInv'
<1>. DEFINE p == node[x]
            q == [p EXCEPT !.dma = NoDma, !.tx = None, !.fp = p.tx, !.tt = 0, !.cb = "txdone"]
<1>1. /\ PortOK(x, p) /\ p \in PortType /\ p.cb = "no" /\ p.up /\ p.tx # None
      /\ Becomes(x, q) /\ ovr' \in BOOLEAN
  BY DEF IInv, PortOK, DataTx, Complete
<1>. HIDE DEF p
<1>2. p.tx \in Opt /\ None \in Opt
  BY <1>1 DEF PortType, Opt
<1>3. /\ q \in PortType /\ q.dma = NoDma /\ q.tx = None /\ q.fp = p.tx
      /\ q.cb = "txdone" /\ (q.up <=> p.up) /\ (q.rxa <=> p.rxa) /\ q.rxn = p.rxn
      /\ q.infl = p.infl /\ q.rawq = p.rawq /\ (q.epoch <=> p.epoch)
  BY <1>1, <1>2, ZeroTicks, DmaTypes DEF PortType
<1>. HIDE DEF q
<1>4. ~p.rxa /\ p.infl = p.tx /\ Absent(p.infl, p.rawq) /\ Distinct(p.rawq)
  BY <1>1 DEF PortOK, Transfers, Pipeline
<1>5. Transfers(q) /\ Serving(x, q)
  BY <1>1, <1>3, <1>4, DmaTypes DEF Transfers, Serving
<1>6. Stopped(q) /\ Pipeline(q) /\ Waiting(x, q)
  BY <1>1, <1>3, <1>4 DEF Stopped, Pipeline, Waiting
<1>7. NoTxErrors => Listening(q)
  BY <1>1, <1>3 DEF Listening, PortOK
<1>8. PortOK(x, q)
  BY <1>3, <1>5, <1>6, <1>7 DEF PortOK
<1>9. x = "M" /\ q.epoch => node.M.epoch
  BY <1>3 DEF p
<1>. QED BY <1>1, <1>8, <1>9, BecomesInv

\* on_tx_done: the frame is released, and the next one sent if there is one.
LEMMA DataTxDoneStep ==
    ASSUME IInv, NEW x \in Sides, DataTxDone(x)
    PROVE  IInv'
<1>. DEFINE p == node[x]
            o == [p EXCEPT !.infl = None]
            r == TryNext(x, o, FALSE)
            q == [r EXCEPT !.fp = None, !.cb = "txrx"]
<1>1. /\ PortOK(x, p) /\ p \in PortType /\ p.cb = "txdone" /\ ovr' \in BOOLEAN
      /\ Becomes(x, [OnTxDone(x, p, p.fp) EXCEPT !.fp = None,
                         !.cb = IF p.up THEN "txrx" ELSE "no"])
  BY DEF IInv, PortOK, DataTxDone
<1>2. /\ p.up /\ p.tx = None /\ p.infl = p.fp /\ Distinct(p.rawq)
      /\ p.rxa => p.dma # NoDma
      /\ x = "S" => p.dma = NoDma
  BY <1>1 DEF PortOK, Serving, Pipeline
<1>3. Becomes(x, q)
  BY <1>1, <1>2 DEF OnTxDone
<1>. HIDE DEF p
<1>4. /\ o \in PortType /\ o.up /\ o.cb = "txdone" /\ o.tx = None /\ o.dma = p.dma
      /\ (o.rxa <=> p.rxa) /\ o.rxn = p.rxn /\ o.rawq = p.rawq /\ o.infl = None
      /\ (o.epoch <=> p.epoch)
  BY <1>1, <1>2 DEF PortType, Opt
<1>. HIDE DEF o
<1>5. Quiet(o)
  BY <1>1, <1>2, <1>4, TransfersQuiet DEF PortOK, Quiet
<1>6. NoTxErrors => p.rxn # 0
  BY <1>1, <1>2 DEF PortOK, Listening
<1>7. \/ r = o /\ Busy(x, o)
      \/ /\ r \in PortType /\ Kept(o, r)
         /\ o.rxn # 0 => r.rxn # 0
         /\ r.infl = r.tx /\ r.tx \in Frames /\ ~r.rxa /\ r.dma = TxDma(FALSE)
         /\ Absent(r.infl, r.rawq) /\ Distinct(r.rawq)
  BY <1>2, <1>4, <1>5, TryNextFacts
<1>. HIDE DEF r
<1>8. r \in PortType /\ Kept(o, r)
  BY <1>4, <1>7 DEF Kept
<1>9. /\ q \in PortType /\ q.fp = None /\ q.cb = "txrx" /\ (q.up <=> r.up) /\ q.tx = r.tx
      /\ (q.rxa <=> r.rxa) /\ q.dma = r.dma /\ q.rxn = r.rxn /\ q.infl = r.infl
      /\ q.rawq = r.rawq /\ (q.epoch <=> r.epoch)
  BY <1>8 DEF PortType, Opt
<1>. HIDE DEF q
<1>10. ASSUME r = o, Busy(x, o) PROVE PortOK(x, q)
  <2>1. /\ q.up /\ q.tx = None /\ (q.rxa <=> p.rxa) /\ q.dma = p.dma /\ q.rxn = p.rxn
        /\ q.infl = None /\ q.rawq = p.rawq /\ (q.epoch <=> p.epoch)
    BY <1>4, <1>9, <1>10
  <2>2. q.rawq = <<>> \/ (x = "M" /\ (q.rxa \/ q.epoch))
    BY <1>4, <1>9, <1>10 DEF Busy
  <2>3. Transfers(q) /\ Serving(x, q)
    BY <1>1, <1>2, <1>9, <2>1 DEF PortOK, Transfers, Serving
  <2>4. Absent(None, q.rawq)
    BY <1>9, NoneAbsent DEF PortType
  <2>5. Stopped(q) /\ Pipeline(q) /\ Waiting(x, q)
    BY <1>2, <1>9, <2>1, <2>2, <2>4 DEF Stopped, Pipeline, Waiting
  <2>. QED BY <1>6, <1>9, <2>1, <2>3, <2>5 DEF PortOK, Listening
<1>11. ASSUME ~(r = o /\ Busy(x, o)) PROVE PortOK(x, q)
  <2>1. /\ q.up /\ q.tx \in Frames /\ q.infl = q.tx /\ ~q.rxa /\ q.dma = TxDma(FALSE)
        /\ Absent(q.infl, q.rawq) /\ Distinct(q.rawq)
        /\ NoTxErrors => q.rxn # 0
    BY <1>4, <1>6, <1>7, <1>9, <1>11 DEF Kept
  <2>. QED BY <1>9, <2>1, SubmittedOK
<1>12. x = "M" /\ q.epoch => node.M.epoch
  BY <1>4, <1>8, <1>9 DEF Kept, p
<1>. QED BY <1>1, <1>3, <1>10, <1>11, <1>12, BecomesInv

\* After the transmission the saved buffer is used, on a port that is idle.
LEMMA DataTxRxStep ==
    ASSUME IInv, NEW x \in Sides, DataTxRx(x)
    PROVE  IInv'
<1>. DEFINE p == node[x]
            r == AfterTx(x, p)
            q == [r EXCEPT !.cb = "no"]
<1>1. /\ PortOK(x, p) /\ p \in PortType /\ p.cb = "txrx" /\ ovr' \in BOOLEAN
      /\ Becomes(x, q)
  BY DEF IInv, PortOK, DataTxRx
<1>2. /\ p.up /\ p.fp = None /\ p.infl = p.tx
      /\ Absent(p.infl, p.rawq) /\ Distinct(p.rawq)
      /\ p.rxa => p.dma # NoDma
      /\ x = "S" /\ p.tx = None => p.dma = NoDma
      /\ Transfers(p)
      /\ NoTxErrors => p.rxn # 0
      /\ NoMasterRxErrors => Waiting(x, p)
  BY <1>1 DEF PortOK, Serving, Pipeline, Listening
<1>. HIDE DEF p
<1>3. /\ r \in PortType /\ Kept(p, r) /\ KeptDriver(p, r) /\ r.tx = p.tx
      /\ r.rxn = p.rxn
      /\ p.epoch => r.epoch
      /\ \/ (r.rxa <=> p.rxa) /\ r.dma = p.dma
         \/ /\ ~p.rxa /\ p.tx = None /\ p.dma = NoDma
            /\ r.rxa /\ r.dma = RxDma(p.rxn)
  <2>1. CASE p.tx # None
    BY <1>1, <2>1 DEF AfterTx, Kept, KeptDriver
  <2>2. CASE p.tx = None /\ x = "M"
    <3>1. r = TryMasterRx(p)
      BY <2>2 DEF AfterTx
    <3>. QED BY <1>1, <3>1, TryMasterRxFacts
  <2>3. CASE p.tx = None /\ x = "S"
    <3>. DEFINE s == IF p.rxn # 0 THEN StartReceive(p) ELSE p
    <3>1. /\ p.dma = NoDma /\ ~p.rxa
      BY <1>2, <2>3
    <3>2. /\ s \in PortType /\ Kept(p, s) /\ KeptDriver(p, s) /\ s.tx = p.tx
          /\ s.rxn = p.rxn /\ (p.epoch => s.epoch)
          /\ \/ (s.rxa <=> p.rxa) /\ s.dma = p.dma
             \/ s.rxa /\ s.dma = RxDma(p.rxn)
      <4>1. CASE p.rxn = 0
        BY <1>1, <4>1 DEF Kept, KeptDriver
      <4>2. CASE p.rxn # 0
        BY <1>1, <3>1, <4>2, StartReceiveFacts
      <4>. QED BY <4>1, <4>2
    <3>3. r = [s EXCEPT !.line = FALSE]
      BY <2>3 DEF AfterTx
    <3>. HIDE DEF s, r
    <3>4. /\ r \in PortType /\ Kept(s, r) /\ KeptDriver(s, r) /\ r.tx = s.tx
          /\ r.rxn = s.rxn /\ (s.epoch => r.epoch) /\ (r.rxa <=> s.rxa)
          /\ r.dma = s.dma
      BY <3>2, <3>3 DEF PortType, Kept, KeptDriver
    <3>. QED BY <2>3, <3>1, <3>2, <3>4 DEF Kept, KeptDriver
  <2>. QED BY <2>1, <2>2, <2>3 DEF Sides
<1>. HIDE DEF r
<1>4. /\ q \in PortType /\ q.cb = "no" /\ (q.up <=> r.up) /\ q.fp = r.fp
      /\ q.tx = r.tx /\ (q.rxa <=> r.rxa) /\ q.dma = r.dma /\ q.rxn = r.rxn
      /\ q.infl = r.infl /\ q.rawq = r.rawq /\ (q.epoch <=> r.epoch)
  BY <1>3 DEF PortType
<1>. HIDE DEF q
<1>5. /\ q.up /\ q.fp = None /\ q.tx = p.tx /\ q.infl = p.infl /\ q.rawq = p.rawq
      /\ q.rxn = p.rxn /\ (p.epoch => q.epoch)
  BY <1>2, <1>3, <1>4 DEF Kept, KeptDriver
<1>6. Transfers(q) /\ Serving(x, q)
  <2>1. CASE (q.rxa <=> p.rxa) /\ q.dma = p.dma
    BY <1>2, <1>4, <1>5, <2>1 DEF Transfers, Serving
  <2>2. CASE p.tx = None /\ q.rxa /\ q.dma = RxDma(p.rxn)
    <3>1. /\ q.dma.dir = "rx" /\ q.dma.n = p.rxn /\ q.dma # NoDma
      BY <1>1, <2>2, DmaTypes DEF PortType
    <3>. QED BY <1>4, <1>5, <2>2, <3>1 DEF Transfers, Serving
  <2>. QED BY <1>3, <1>4, <2>1, <2>2
<1>7. Stopped(q) /\ Pipeline(q)
  BY <1>2, <1>4, <1>5 DEF Stopped, Pipeline
<1>8. p.rxa => q.rxa
  BY <1>3, <1>4
<1>9. NoMasterRxErrors => Waiting(x, q)
  BY <1>1, <1>2, <1>5, <1>8 DEF Waiting
<1>10. PortOK(x, q)
  BY <1>2, <1>4, <1>5, <1>6, <1>7, <1>9 DEF PortOK, Listening
<1>11. x = "M" /\ q.epoch => node.M.epoch
  BY <1>3, <1>4 DEF Kept, p
<1>. QED BY <1>1, <1>10, <1>11, BecomesInv

\* The end of a reception; the buffer is handed to on_rx.
LEMMA DataRxStep ==
    ASSUME IInv, NEW x \in Sides, DataRx(x)
    PROVE  IInv'
<1>. DEFINE p == node[x]
            a == p.allowed /\ p.rxn = 1
            b == x = "M"
            q == [p EXCEPT !.dma = NoDma, !.rxn = 0, !.cb = "onrx",
                           !.rxa = b, !.allowed = a]
<1>1. /\ PortOK(x, p) /\ p \in PortType /\ p.cb = "no" /\ p.up /\ p.tx = None /\ p.rxa
      /\ Becomes(x, q) /\ ovr' \in BOOLEAN /\ a \in BOOLEAN /\ b \in BOOLEAN
  BY DEF IInv, PortOK, DataRx, Complete
<1>. HIDE DEF p, a, b
<1>2. /\ p.fp = None /\ p.infl = None
      /\ Absent(p.infl, p.rawq) /\ Distinct(p.rawq)
      /\ NoMasterRxErrors => Waiting(x, p)
  BY <1>1 DEF PortOK, Pipeline
<1>3. /\ q \in PortType /\ q.dma = NoDma /\ q.cb = "onrx" /\ q.rxa = b
      /\ q.up = p.up /\ q.tx = p.tx /\ q.fp = p.fp /\ q.rxn = 0
      /\ q.infl = p.infl /\ q.rawq = p.rawq /\ q.epoch = p.epoch
  <2>1. p \in PortType /\ a \in BOOLEAN /\ b \in BOOLEAN
    BY <1>1
  <2>. QED BY <2>1, ZeroTicks, DmaTypes DEF PortType
<1>. HIDE DEF q
<1>4. Transfers(q) /\ Serving(x, q)
  BY <1>1, <1>3, DmaTypes DEF Transfers, Serving, b
<1>5. Stopped(q) /\ Pipeline(q) /\ Listening(q)
  BY <1>1, <1>2, <1>3 DEF Stopped, Pipeline, Listening
<1>6. NoMasterRxErrors => Waiting(x, q)
  BY <1>1, <1>2, <1>3 DEF Waiting, b
<1>7. PortOK(x, q)
  BY <1>3, <1>4, <1>5, <1>6 DEF PortOK
<1>8. x = "M" /\ q.epoch => node.M.epoch
  BY <1>3 DEF p
<1>. QED BY <1>1, <1>7, <1>8, BecomesInv

\* What the parser asks for next.
LEMMA ParseType ==
    ASSUME NEW st, NEW u
    PROVE  /\ Parse(st, u)[1] \in {"hunt", "open", "body", "acc"}
           /\ Parse(st, u)[2] \in 1..2
           /\ Parse(st, u)[3] \in {"start", "cont"}
BY DEF Parse

\* on_rx: the parser arms the next buffer; the slave's transfer starts at once,
\* the master's after the end of the completion.
LEMMA DataOnRxStep ==
    ASSUME IInv, NEW x \in Sides, DataOnRx(x)
    PROVE  IInv'
<1>. DEFINE p == node[x]
            nx == Parse(p.parse, p.got)
            o == [p EXCEPT !.parse = nx[1]]
            r == RxSubmit(x, o, nx[2], nx[3])
            c == IF x = "M" THEN "rxend" ELSE "no"
            q == [r EXCEPT !.cb = c, !.got = "X"]
<1>1. /\ PortOK(x, p) /\ p \in PortType /\ p.cb = "onrx" /\ ovr' \in BOOLEAN
      /\ Becomes(x, q)
  BY DEF IInv, PortOK, DataOnRx, OnRx
<1>2. /\ p.up /\ p.fp = None /\ p.infl = None /\ p.tx = None /\ p.dma = NoDma
      /\ Absent(p.infl, p.rawq) /\ Distinct(p.rawq)
      /\ (p.rxa <=> x = "M")
      /\ NoMasterRxErrors => Waiting(x, p)
  BY <1>1 DEF PortOK, Serving, Pipeline
<1>3. /\ nx[1] \in {"hunt", "open", "body", "acc"} /\ nx[2] \in 1..2
      /\ nx[3] \in {"start", "cont"}
  BY ParseType
<1>. HIDE DEF p, nx
<1>4. /\ o \in PortType /\ o.up /\ o.tx = None /\ o.dma = NoDma /\ (o.rxa <=> p.rxa)
      /\ Kept(p, o) /\ KeptDriver(p, o) /\ (o.epoch <=> p.epoch)
  BY <1>1, <1>2, <1>3 DEF PortType, Kept, KeptDriver
<1>. HIDE DEF o
<1>5. /\ r \in PortType /\ Kept(o, r) /\ KeptDriver(o, r)
      /\ r.tx = None /\ r.rxn = nx[2]
      /\ \/ r.rxa = o.rxa /\ r.dma = NoDma /\ x = "M"
         \/ /\ (x = "M" => ~o.rxa)
            /\ r.rxa /\ r.dma = RxDma(nx[2])
  BY <1>3, <1>4, RxSubmitFacts
<1>. HIDE DEF r
<1>6. c \in {"no", "rxend"}
  OBVIOUS
<1>7. /\ q \in PortType /\ q.cb = c /\ (q.up <=> r.up) /\ q.fp = r.fp
      /\ q.tx = r.tx /\ (q.rxa <=> r.rxa) /\ q.dma = r.dma /\ q.rxn = r.rxn
      /\ q.infl = r.infl /\ q.rawq = r.rawq /\ (q.epoch <=> r.epoch)
  <2>. HIDE DEF c
  <2>. QED BY <1>5, <1>6 DEF PortType, Units
<1>. HIDE DEF q
<1>8. /\ q.up /\ q.fp = None /\ q.tx = None /\ q.infl = None /\ q.rawq = p.rawq
      /\ q.rxn \in 1..2 /\ (q.epoch => p.epoch) /\ q.rxa
  BY <1>2, <1>3, <1>4, <1>5, <1>7 DEF Kept, KeptDriver, Sides
<1>9. \/ x = "M" /\ q.dma = NoDma /\ q.cb = "rxend"
      \/ /\ x = "S" /\ q.cb = "no" /\ q.dma = RxDma(q.rxn)
  BY <1>2, <1>4, <1>5, <1>7 DEF Sides
<1>10. Transfers(q) /\ Serving(x, q)
  <2>1. /\ NoDma.dir = "no" /\ RxDma(q.rxn).dir = "rx" /\ RxDma(q.rxn).n = q.rxn
        /\ RxDma(q.rxn) # NoDma
    BY <1>8, DmaTypes DEF Sizes
  <2>. QED BY <1>8, <1>9, <2>1 DEF Transfers, Serving
<1>11. Stopped(q) /\ Pipeline(q) /\ Listening(q)
  BY <1>2, <1>8, <1>9 DEF Stopped, Pipeline, Listening
<1>12. NoMasterRxErrors => Waiting(x, q)
  BY <1>1, <1>2, <1>8 DEF Waiting
<1>13. PortOK(x, q)
  BY <1>7, <1>10, <1>11, <1>12 DEF PortOK
<1>14. x = "M" /\ q.epoch => node.M.epoch
  BY <1>8 DEF p
<1>. QED BY <1>1, <1>13, <1>14, BecomesInv

\* The master's transfer or the frame that waited for it is started.
LEMMA DataRxEndStep ==
    ASSUME IInv, DataRxEnd
    PROVE  IInv'
<1>. DEFINE p == node["M"]
            o == [p EXCEPT !.rxa = FALSE]
            s == TryMasterRx(o)
            r == TryNext("M", s, TRUE)
            q == [r EXCEPT !.cb = "no"]
<1>1. /\ "M" \in Sides
      /\ PortOK("M", p) /\ p \in PortType /\ p.cb = "rxend" /\ ovr' \in BOOLEAN
      /\ Becomes("M", q)
  BY DEF IInv, PortOK, DataRxEnd, RxEnd, OnTxReady, Sides
<1>2. /\ p.up /\ p.fp = None /\ p.infl = None /\ p.tx = None /\ p.dma = NoDma
      /\ Distinct(p.rawq)
      /\ NoTxErrors => p.rxn # 0
  BY <1>1 DEF PortOK, Serving, Pipeline, Listening
<1>. HIDE DEF p
<1>3. /\ o \in PortType /\ ~o.rxa /\ o.up /\ o.tx = None /\ o.dma = NoDma
      /\ o.infl = None /\ o.fp = None /\ o.cb = "rxend" /\ o.rawq = p.rawq
      /\ o.rxn = p.rxn /\ (o.epoch <=> p.epoch)
  BY <1>1, <1>2 DEF PortType
<1>. HIDE DEF o
<1>4. /\ s \in PortType /\ Kept(o, s) /\ KeptDriver(o, s)
      /\ s.tx = o.tx /\ s.rxn = o.rxn
      /\ \/ s.rxa = o.rxa /\ s.dma = o.dma
         \/ s.rxa /\ s.dma = RxDma(o.rxn) /\ o.rxn # 0
  BY <1>3, TryMasterRxFacts
<1>. HIDE DEF s
<1>5. /\ s.up /\ s.tx = None /\ s.infl = None /\ s.fp = None /\ s.rawq = p.rawq
      /\ s.rxn = p.rxn /\ (s.epoch => p.epoch) /\ s.cb = "rxend"
      /\ \/ ~s.rxa /\ s.dma = NoDma
         \/ s.rxa /\ s.dma = RxDma(s.rxn)
  BY <1>3, <1>4 DEF Kept, KeptDriver
<1>6. Quiet(s)
  BY <1>5 DEF Quiet
<1>7. \/ r = s /\ Busy("M", s)
      \/ /\ r \in PortType /\ Kept(s, r)
         /\ s.rxn # 0 => r.rxn # 0
         /\ r.infl = r.tx /\ r.tx \in Frames /\ ~r.rxa /\ r.dma = TxDma(TRUE)
         /\ Absent(r.infl, r.rawq) /\ Distinct(r.rawq)
  BY <1>1, <1>2, <1>4, <1>5, <1>6, TryNextFacts
<1>. HIDE DEF r
<1>8. r \in PortType /\ Kept(s, r)
  BY <1>4, <1>7 DEF Kept
<1>9. /\ q \in PortType /\ q.cb = "no" /\ (q.up <=> r.up) /\ q.fp = r.fp /\ q.tx = r.tx
      /\ (q.rxa <=> r.rxa) /\ q.dma = r.dma /\ q.rxn = r.rxn /\ q.infl = r.infl
      /\ q.rawq = r.rawq /\ (q.epoch <=> r.epoch)
  BY <1>8 DEF PortType
<1>. HIDE DEF q
<1>10. ASSUME r = s, Busy("M", s) PROVE PortOK("M", q)
  <2>1. /\ q.up /\ q.tx = None /\ q.rxn = p.rxn /\ q.infl = None /\ q.fp = None
        /\ q.rawq = p.rawq /\ (q.epoch <=> s.epoch) /\ (q.rxa <=> s.rxa)
        /\ \/ ~q.rxa /\ q.dma = NoDma
           \/ q.rxa /\ q.dma = RxDma(q.rxn)
    BY <1>5, <1>9, <1>10
  <2>2. q.rawq = <<>> \/ q.rxa \/ q.epoch
    BY <1>5, <1>10, <2>1 DEF Busy
  <2>3. /\ NoDma.dir = "no" /\ RxDma(q.rxn).dir = "rx" /\ RxDma(q.rxn).n = q.rxn
        /\ RxDma(q.rxn) # NoDma
    BY <1>9, DmaTypes DEF PortType
  <2>4. Transfers(q) /\ Serving("M", q)
    BY <1>9, <2>1, <2>3 DEF Transfers, Serving
  <2>5. Absent(None, q.rawq)
    BY <1>9, NoneAbsent DEF PortType
  <2>6. Stopped(q) /\ Pipeline(q) /\ Waiting("M", q)
    BY <1>2, <1>9, <2>1, <2>2, <2>5 DEF Stopped, Pipeline, Waiting
  <2>. QED BY <1>2, <1>9, <2>1, <2>4, <2>6 DEF PortOK, Listening
<1>11. ASSUME ~(r = s /\ Busy("M", s)) PROVE PortOK("M", q)
  <2>1. /\ q.up /\ q.tx \in Frames /\ q.infl = q.tx /\ ~q.rxa /\ q.dma = TxDma(TRUE)
        /\ q.fp = None /\ Absent(q.infl, q.rawq) /\ Distinct(q.rawq)
        /\ NoTxErrors => q.rxn # 0
    BY <1>2, <1>5, <1>7, <1>9, <1>11 DEF Kept
  <2>. QED BY <1>1, <1>9, <2>1, SubmittedOK
<1>12. q.epoch => node.M.epoch
  BY <1>5, <1>8, <1>9 DEF Kept, p
<1>. QED BY <1>1, <1>10, <1>11, <1>12, BecomesInv

(***************************************************************************)
(* The clock.                                                              *)
(***************************************************************************)
\* A transfer that is over.
LEMMA CompletedFacts ==
    ASSUME NEW p \in PortType, NEW u \in Units \cup {"X"}
    PROVE  LET q == Completed(p, u) IN
           /\ q \in PortType /\ Kept(p, q) /\ KeptDriver(p, q) /\ q.tx = p.tx
           /\ q.rxn = p.rxn /\ (q.rxa <=> p.rxa) /\ (q.line <=> p.line)
           /\ (q.epoch <=> p.epoch)
           /\ q.dma.dir = "done" /\ q.dma # NoDma
<1>. DEFINE d == [NoDma EXCEPT !.dir = "done"]
<1>1. d \in DmaType /\ d.dir = "done" /\ d # NoDma
  BY DmaTypes DEF DmaType
<1>2. Completed(p, u) = [p EXCEPT !.dma = d, !.got = u]
  BY DEF Completed
<1>. HIDE DEF d
<1>. QED BY <1>1, <1>2 DEF PortType, Kept, KeptDriver

\* A unit is shifted: the port stays in order on either side.
LEMMA ClockSideOK ==
    ASSUME NEW x \in Sides, NEW p, PortOK(x, p), NEW u \in Units \cup {"X"}
    PROVE  LET q == ClockSide(p, u) IN
           PortOK(x, q) /\ (q.epoch <=> p.epoch) /\ (q.line <=> p.line)
<1>. DEFINE q == ClockSide(p, u)
<1>1. p \in PortType /\ p.dma \in DmaType
  BY DEF PortOK, PortType
<1>2. ASSUME q \in PortType, Kept(p, q), KeptDriver(p, q), q.tx = p.tx,
             q.rxn = p.rxn, q.rxa <=> p.rxa, q.line <=> p.line, q.epoch <=> p.epoch,
             q.dma # NoDma,
             p.dma.dir \in {"tx", "rx"},
             \/ q.dma.dir = "done"
             \/ p.dma.dir = "tx" /\ q.dma.dir = "tx" /\ q.dma.todo # <<>>
      PROVE  PortOK(x, q)
  <2>. HIDE DEF q
  <2>1. /\ (q.up <=> p.up) /\ q.cb = p.cb /\ q.fp = p.fp
        /\ q.infl = p.infl /\ q.rawq = p.rawq
    BY <1>2 DEF Kept, KeptDriver
  <2>2. p.dma # NoDma
    BY <1>2, DmaTypes
  <2>3. Transfers(q)
    BY <1>2 DEF PortOK, Transfers
  <2>4. Serving(x, q)
    BY <1>2, <2>1, <2>2 DEF PortOK, Serving
  <2>5. Stopped(q) /\ Pipeline(q)
    BY <1>2, <2>1 DEF PortOK, Stopped, Pipeline
  <2>6. (NoTxErrors => Listening(q)) /\ (NoMasterRxErrors => Waiting(x, q))
    BY <1>2, <2>1 DEF PortOK, Listening, Waiting
  <2>. QED BY <1>2, <2>3, <2>4, <2>5, <2>6 DEF PortOK
<1>3. CASE p.dma.dir = "tx"
  <2>1. q = Shifted(p) /\ p.dma.todo # <<>> /\ p.dma.todo \in Seq(Units)
    BY <1>1, <1>3 DEF ClockSide, PortOK, Transfers, DmaType
  <2>2. CASE Len(p.dma.todo) = 1
    <3>1. q = Completed(p, "X")
      BY <2>1, <2>2 DEF Shifted
    <3>. HIDE DEF q
    <3>2. /\ q \in PortType /\ Kept(p, q) /\ KeptDriver(p, q) /\ q.tx = p.tx
          /\ q.rxn = p.rxn /\ (q.rxa <=> p.rxa) /\ (q.line <=> p.line)
          /\ (q.epoch <=> p.epoch)
          /\ q.dma.dir = "done" /\ q.dma # NoDma
      BY <1>1, <3>1, CompletedFacts
    <3>3. PortOK(x, q)
      BY <1>2, <1>3, <3>2
    <3>. QED BY <3>2, <3>3 DEF q
  <2>3. CASE Len(p.dma.todo) # 1
    <3>. DEFINE d == [p.dma EXCEPT !.todo = Tail(@)]
    <3>1. q = [p EXCEPT !.dma = d]
      BY <2>1, <2>3 DEF Shifted
    <3>2. Tail(p.dma.todo) \in Seq(Units) /\ Tail(p.dma.todo) # <<>>
      <4>1. Len(p.dma.todo) \in Nat /\ Len(p.dma.todo) # 0
        BY <2>1, EmptySeq
      <4>2. /\ Tail(p.dma.todo) \in Seq(Units)
            /\ Len(Tail(p.dma.todo)) = Len(p.dma.todo) - 1
        BY <2>1, <4>1
      <4>3. Len(Tail(p.dma.todo)) # 0
        BY <2>3, <4>1, <4>2
      <4>4. Len(<<>>) = 0
        BY EmptySeq
      <4>. QED BY <4>2, <4>3, <4>4
    <3>3. d \in DmaType /\ d.dir = "tx" /\ d.todo # <<>> /\ d # NoDma
      BY <1>1, <1>3, <3>2, DmaTypes DEF DmaType
    <3>. HIDE DEF d, q
    <3>4. /\ q \in PortType /\ Kept(p, q) /\ KeptDriver(p, q) /\ q.tx = p.tx
          /\ q.rxn = p.rxn /\ (q.rxa <=> p.rxa) /\ (q.line <=> p.line)
          /\ (q.epoch <=> p.epoch) /\ q.dma = d
      BY <1>1, <3>1, <3>3 DEF PortType, Kept, KeptDriver
    <3>5. PortOK(x, q)
      BY <1>2, <1>3, <3>3, <3>4
    <3>. QED BY <3>4, <3>5 DEF q
  <2>. QED BY <2>2, <2>3
<1>4. CASE p.dma.dir = "rx"
  <2>1. q = Reads(p, u)
    BY <1>4 DEF ClockSide
  <2>2. PICK v \in Units \cup {"X"} : q = Completed(p, v)
    BY <2>1 DEF Reads
  <2>. HIDE DEF q
  <2>3. /\ q \in PortType /\ Kept(p, q) /\ KeptDriver(p, q) /\ q.tx = p.tx
        /\ q.rxn = p.rxn /\ (q.rxa <=> p.rxa) /\ (q.line <=> p.line)
        /\ (q.epoch <=> p.epoch)
        /\ q.dma.dir = "done" /\ q.dma # NoDma
    BY <1>1, <2>2, CompletedFacts
  <2>4. PortOK(x, q)
    BY <1>2, <1>4, <2>3
  <2>. QED BY <2>3, <2>4 DEF q
<1>5. CASE p.dma.dir \notin {"tx", "rx"}
  <2>1. q = p
    BY <1>5 DEF ClockSide
  <2>. QED BY <2>1
<1>. QED BY <1>3, <1>4, <1>5

\* The clock moves a unit each way.
LEMMA ClockStep ==
    ASSUME IInv, Clock
    PROVE  IInv'
<1>. DEFINE m == ClockSide(node["M"], UnitOf(node["S"]))
            s == ClockSide(node["S"], UnitOf(node["M"]))
<1>1. /\ node' = [M |-> m, S |-> s] /\ irq' = irq /\ ovr' \in BOOLEAN
      /\ PortOK("M", node["M"]) /\ PortOK("S", node["S"]) /\ irq \in BOOLEAN
      /\ node["M"].epoch => node["S"].line \/ irq
  BY DEF Clock, IInv, EpochSeen, Sides
<1>2. ASSUME NEW x \in Sides PROVE UnitOf(node[x]) \in Units \cup {"X"}
  <2>1. /\ node[x].dma.todo \in Seq(Units)
        /\ node[x].dma.dir = "tx" => node[x].dma.todo # <<>>
    BY DEF IInv, PortOK, Transfers, PortType, DmaType
  <2>2. CASE node[x].dma.dir = "tx"
    <3>1. Head(node[x].dma.todo) \in Units
      BY <2>1, <2>2
    <3>. QED BY <2>2, <3>1 DEF UnitOf
  <2>3. CASE node[x].dma.dir # "tx"
    BY <2>3 DEF UnitOf
  <2>. QED BY <2>2, <2>3
<1>3. /\ PortOK("M", m) /\ (m.epoch <=> node["M"].epoch)
  BY <1>1, <1>2, ClockSideOK DEF Sides
<1>4. /\ PortOK("S", s) /\ (s.line <=> node["S"].line)
  BY <1>1, <1>2, ClockSideOK DEF Sides
<1>. HIDE DEF m, s
<1>5. /\ node' \in [Sides -> PortType] /\ node'["M"] = m /\ node'["S"] = s
  BY <1>1, <1>3, <1>4 DEF Sides, PortOK
<1>6. \A x \in Sides : PortOK(x, node'[x])
  BY <1>3, <1>4, <1>5 DEF Sides
<1>7. EpochSeen'
  BY <1>1, <1>3, <1>4, <1>5 DEF EpochSeen
<1>. QED BY <1>1, <1>5, <1>6, <1>7 DEF IInv

(***************************************************************************)
(* DATA_READY.                                                             *)
(***************************************************************************)
\* The fields the invariant is about, the epoch apart, are the same.
SamePort(p, q) ==
    /\ (q.up <=> p.up) /\ q.cb = p.cb /\ q.fp = p.fp /\ q.tx = p.tx
    /\ (q.rxa <=> p.rxa) /\ q.dma = p.dma /\ q.rxn = p.rxn
    /\ q.infl = p.infl /\ q.rawq = p.rawq

\* The end of an epoch, and its beginning, touch nothing else.
LEMMA ReadyFacts ==
    ASSUME NEW p \in PortType
    PROVE  /\ Closed(p) \in PortType /\ SamePort(p, Closed(p)) /\ ~Closed(p).epoch
           /\ LET e == [p EXCEPT !.epoch = TRUE] IN
              e \in PortType /\ SamePort(p, e) /\ e.epoch
<1>. DEFINE c == Closed(p)
            e == [p EXCEPT !.epoch = TRUE]
<1>1. c \in PortType
  BY DEF Closed, PortType
<1>2. SamePort(p, c) /\ ~c.epoch
  BY DEF Closed, SamePort, PortType
<1>3. e \in PortType
  BY DEF PortType
<1>4. SamePort(p, e) /\ e.epoch
  BY DEF SamePort, PortType
<1>. QED BY <1>1, <1>2, <1>3, <1>4

\* A port with the same fields, and an epoch, is in order.
LEMMA SamePortOK ==
    ASSUME NEW x \in Sides, NEW p, PortOK(x, p), NEW q \in PortType, SamePort(p, q),
           p.epoch => q.epoch, q.epoch => q.up
    PROVE  PortOK(x, q)
<1>1. Transfers(q) /\ Serving(x, q)
  BY DEF SamePort, PortOK, Transfers, Serving
<1>2. Stopped(q) /\ Pipeline(q)
  BY DEF SamePort, PortOK, Stopped, Pipeline
<1>3. (NoTxErrors => Listening(q)) /\ (NoMasterRxErrors => Waiting(x, q))
  BY DEF SamePort, PortOK, Listening, Waiting
<1>. QED BY <1>1, <1>2, <1>3 DEF PortOK

\* chb_spi_abort_master_tx_i: port and driver forget the frame together.
LEMMA AbortMasterOK ==
    ASSUME NEW p, PortOK("M", p), p.tx # None
    PROVE  LET q == AbortMasterTx(p) IN
           PortOK("M", q) /\ (q.epoch <=> p.epoch) /\ q.up /\ q.rawq = <<>>
<1>. DEFINE q == AbortMasterTx(p)
<1>1. /\ p \in PortType /\ p.up /\ ~p.rxa /\ p.cb \in {"no", "txrx"} /\ p.fp = None
  BY DEF PortOK, Transfers, Serving, Stopped, Pipeline, PortType
<1>2. q = [p EXCEPT !.dma = NoDma, !.tx = None, !.capt = FALSE, !.coll = TRUE,
                    !.allowed = FALSE, !.infl = None, !.rawq = <<>>]
  BY DEF AbortMasterTx, OnTxError, StopTransfer
<1>. HIDE DEF q
<1>3. None \in Opt /\ <<>> \in Seq(Frames)
  BY EmptySeq DEF Opt
<1>4. /\ q \in PortType /\ q.dma = NoDma /\ q.tx = None /\ q.infl = None
      /\ q.rawq = <<>> /\ (q.up <=> p.up) /\ q.cb = p.cb /\ q.fp = p.fp
      /\ (q.rxa <=> p.rxa) /\ q.rxn = p.rxn /\ (q.epoch <=> p.epoch)
  BY <1>1, <1>2, <1>3, DmaTypes DEF PortType
<1>5. Transfers(q) /\ Serving("M", q)
  BY <1>1, <1>4, DmaTypes DEF Transfers, Serving
<1>6. Stopped(q) /\ Pipeline(q) /\ Waiting("M", q)
  BY <1>1, <1>4, EmptySeq DEF Stopped, Pipeline, Waiting, Absent, Distinct
<1>7. NoTxErrors => Listening(q)
  BY <1>1, <1>4 DEF PortOK, Listening
<1>8. PortOK("M", q)
  BY <1>4, <1>5, <1>6, <1>7 DEF PortOK
<1>. QED BY <1>1, <1>4, <1>8 DEF q

\* The line is low: the epoch is over, and a frame that waited for it is sent.
LEMMA LineFellOK ==
    ASSUME NEW p, PortOK("M", p), p.up
    PROVE  PortOK("M", LineFell(p)) /\ ~LineFell(p).epoch
<1>0. p \in PortType /\ "M" \in Sides
  BY DEF PortOK, Sides
<1>1. CASE ~p.last /\ p.tx # None
  <2>. DEFINE a == AbortMasterTx(p)
              c == Closed(a)
  <2>1. LineFell(p) = c
    BY <1>1 DEF LineFell
  <2>2. PortOK("M", a) /\ a.up /\ a.rawq = <<>> /\ a \in PortType
    BY <1>1, AbortMasterOK DEF PortOK
  <2>. HIDE DEF a
  <2>3. c \in PortType /\ SamePort(a, c) /\ ~c.epoch
    BY <2>2, ReadyFacts
  <2>. HIDE DEF c
  <2>4. Transfers(c) /\ Serving("M", c) /\ Stopped(c) /\ Pipeline(c)
    BY <2>2, <2>3 DEF SamePort, PortOK, Transfers, Serving, Stopped, Pipeline
  <2>5. (NoTxErrors => Listening(c)) /\ Waiting("M", c)
    BY <2>2, <2>3 DEF SamePort, PortOK, Listening, Waiting
  <2>. QED BY <2>1, <2>3, <2>4, <2>5 DEF PortOK
<1>2. CASE p.last \/ p.tx = None
  <2>. DEFINE c == Closed(p)
              r == TryNext("M", c, TRUE)
  <2>1. LineFell(p) = r
    BY <1>2 DEF LineFell, OnTxReady
  <2>2. c \in PortType /\ SamePort(p, c) /\ ~c.epoch
    BY <1>0, ReadyFacts
  <2>. HIDE DEF c
  <2>3. /\ Transfers(c) /\ Serving("M", c) /\ Stopped(c) /\ Pipeline(c)
    BY <2>2 DEF SamePort, PortOK, Transfers, Serving, Stopped, Pipeline
  <2>4. Quiet(c)
    BY <2>2, <2>3, TransfersQuiet
  <2>5. c.up /\ Distinct(c.rawq)
    BY <2>2, <2>3 DEF SamePort, Pipeline
  <2>6. \/ r = c /\ Busy("M", c)
        \/ /\ r \in PortType /\ Kept(c, r)
           /\ c.rxn # 0 => r.rxn # 0
           /\ c.up /\ c.infl = None /\ c.tx = None /\ ~c.rxa
           /\ r.infl = r.tx /\ r.tx \in Frames /\ ~r.rxa /\ r.dma = TxDma(TRUE)
           /\ Absent(r.infl, r.rawq) /\ Distinct(r.rawq)
    BY <1>0, <2>2, <2>4, <2>5, TryNextFacts
  <2>. HIDE DEF r
  <2>7. NoTxErrors => Listening(c)
    BY <2>2 DEF PortOK, SamePort, Listening
  <2>8. ASSUME r = c, Busy("M", c) PROVE PortOK("M", r) /\ ~r.epoch
    <3>1. Waiting("M", c)
      BY <2>2, <2>3, <2>8 DEF Waiting, Busy, Pipeline
    <3>. QED BY <2>2, <2>3, <2>7, <2>8, <3>1 DEF PortOK
  <2>9. ASSUME ~(r = c /\ Busy("M", c)) PROVE PortOK("M", r) /\ ~r.epoch
    <3>1. c.fp = None /\ c.cb \in {"no", "txrx"}
      BY <2>2, <2>3, <2>6, <2>9 DEF Pipeline, Serving, PortType
    <3>2. NoTxErrors => c.rxn # 0
      BY <2>5, <2>7, <3>1 DEF Listening
    <3>3. /\ r \in PortType /\ r.up /\ r.fp = None /\ r.cb \in {"no", "txrx"} /\ ~r.epoch
          /\ NoTxErrors => r.rxn # 0
      BY <2>2, <2>5, <2>6, <2>9, <3>1, <3>2 DEF Kept
    <3>4. /\ r.infl = r.tx /\ r.tx \in Frames /\ ~r.rxa /\ r.dma = TxDma(TRUE)
          /\ Absent(r.infl, r.rawq) /\ Distinct(r.rawq)
      BY <2>6, <2>9
    <3>5. PortOK("M", r)
      BY <1>0, <3>3, <3>4, SubmittedOK
    <3>. QED BY <3>3, <3>5
  <2>. QED BY <2>1, <2>8, <2>9
<1>. QED BY <1>0, <1>1, <1>2

\* The line is high: a packet of the slave begins.
LEMMA LineRoseOK ==
    ASSUME NEW p, PortOK("M", p), p.up
    PROVE  PortOK("M", LineRose(p))
<1>0. p \in PortType /\ "M" \in Sides
  BY DEF PortOK, Sides
<1>. DEFINE s == IF p.last THEN Closed(p) ELSE p
            q == [s EXCEPT !.epoch = TRUE]
            o == [q EXCEPT !.capt = @ \/ ~q.allowed]
            r == TryMasterRx(o)
<1>1. s \in PortType /\ SamePort(p, s)
  <2>1. CASE p.last
    BY <1>0, <2>1, ReadyFacts
  <2>2. CASE ~p.last
    BY <1>0, <2>2 DEF SamePort
  <2>. QED BY <2>1, <2>2
<1>2. LineRose(p) = IF p.tx # None THEN AbortMasterTx(q) ELSE IF q.coll THEN q ELSE r
  BY DEF LineRose
<1>. HIDE DEF s
<1>3. q \in PortType /\ SamePort(s, q) /\ q.epoch
  BY <1>1, ReadyFacts
<1>. HIDE DEF q
<1>4. SamePort(p, q)
  BY <1>1, <1>3 DEF SamePort
<1>5. PortOK("M", q) /\ q.up
  BY <1>0, <1>3, <1>4, SamePortOK DEF SamePort
<1>6. CASE p.tx # None
  <2>1. q.tx # None
    BY <1>4, <1>6 DEF SamePort
  <2>. QED BY <1>2, <1>5, <1>6, <2>1, AbortMasterOK
<1>7. CASE p.tx = None /\ q.coll
  BY <1>2, <1>5, <1>7
<1>8. CASE p.tx = None /\ ~q.coll
  <2>1. LineRose(p) = r
    BY <1>2, <1>8
  <2>2. o \in PortType /\ SamePort(q, o) /\ (o.epoch <=> q.epoch)
    BY <1>3 DEF PortType, SamePort
  <2>. HIDE DEF o
  <2>3. PortOK("M", o) /\ o.up /\ o.epoch
    BY <1>0, <1>3, <1>5, <2>2, SamePortOK DEF SamePort
  <2>4. /\ r \in PortType /\ Kept(o, r) /\ KeptDriver(o, r)
        /\ r.tx = o.tx /\ r.rxn = o.rxn
        /\ r.epoch = o.epoch
        /\ \/ r.rxa = o.rxa /\ r.dma = o.dma
           \/ /\ ~o.rxa /\ o.tx = None /\ o.dma = NoDma
              /\ r.rxa /\ r.dma = RxDma(o.rxn)
    BY <2>2, TryMasterRxFacts
  <2>. HIDE DEF r
  <2>5. CASE r.rxa = o.rxa /\ r.dma = o.dma
    <3>1. SamePort(o, r)
      BY <2>4, <2>5 DEF SamePort, Kept, KeptDriver
    <3>2. r.epoch /\ r.up
      BY <2>3, <2>4 DEF Kept
    <3>3. PortOK("M", r)
      BY <1>0, <2>3, <2>4, <3>1, <3>2, SamePortOK
    <3>. QED BY <2>1, <3>3
  <2>6. CASE ~o.rxa /\ o.tx = None /\ o.dma = NoDma /\ r.rxa /\ r.dma = RxDma(o.rxn)
    <3>1. /\ r.dma.dir = "rx" /\ r.dma.n = r.rxn /\ r.dma # NoDma
      BY <2>2, <2>4, <2>6, DmaTypes DEF PortType
    <3>2. o.cb \notin {"onrx", "rxend"}
      BY <1>0, <2>3, <2>6 DEF PortOK, Serving
    <3>3. /\ r.up /\ r.tx = None /\ r.cb = o.cb /\ r.fp = o.fp /\ r.infl = o.infl
          /\ r.rawq = o.rawq /\ r.rxn = o.rxn /\ r.epoch
      BY <2>3, <2>4, <2>6 DEF Kept, KeptDriver
    <3>4. Transfers(r) /\ Serving("M", r)
      BY <2>6, <3>1, <3>2, <3>3 DEF Transfers, Serving
    <3>5. Stopped(r) /\ Pipeline(r) /\ Waiting("M", r)
      BY <2>3, <2>6, <3>3 DEF PortOK, Stopped, Pipeline, Waiting
    <3>6. NoTxErrors => Listening(r)
      BY <2>3, <3>3 DEF PortOK, Listening
    <3>. QED BY <2>1, <2>4, <3>4, <3>5, <3>6 DEF PortOK
  <2>. QED BY <2>4, <2>5, <2>6
<1>. QED BY <1>6, <1>7, <1>8

\* chb_spi_data_ready_i: the master knows the level when it returns.
LEMMA DataReadyStep ==
    ASSUME IInv, DataReady
    PROVE  IInv'
<1>. DEFINE p == node["M"]
            l == node["S"].line
            t == IF l THEN LineRose(p) ELSE LineFell(p)
            q == IF ~p.up THEN p ELSE [t EXCEPT !.last = l]
<1>1. /\ node' = [node EXCEPT !["M"] = q] /\ irq' = FALSE /\ ovr' = ovr
      /\ PortOK("M", p) /\ PortOK("S", node["S"]) /\ l \in BOOLEAN
      /\ node \in [Sides -> PortType] /\ ovr \in BOOLEAN /\ "M" \in Sides
  BY DEF DataReady, IInv, Sides, PortOK, PortType
<1>. HIDE DEF p, l
<1>2. PortOK("M", q) /\ (q.epoch => l)
  <2>1. CASE ~p.up
    BY <1>1, <2>1 DEF PortOK, Stopped
  <2>2. CASE p.up
    <3>1. PortOK("M", t) /\ (t.epoch => l)
      <4>1. CASE l
        BY <1>1, <2>2, <4>1, LineRoseOK
      <4>2. CASE ~l
        BY <1>1, <2>2, <4>2, LineFellOK
      <4>. QED BY <4>1, <4>2
    <3>. DEFINE u == [t EXCEPT !.last = l]
    <3>2. q = u
      BY <2>2
    <3>. HIDE DEF t
    <3>3. t \in PortType
      BY <3>1 DEF PortOK
    <3>4. u \in PortType /\ SamePort(t, u) /\ (u.epoch <=> t.epoch)
      BY <1>1, <3>3 DEF SamePort, PortType
    <3>. HIDE DEF u
    <3>5. u.epoch => u.up
      BY <3>1, <3>4 DEF PortOK, Stopped, SamePort
    <3>6. PortOK("M", u)
      BY <1>1, <3>1, <3>4, <3>5, SamePortOK
    <3>. QED BY <3>1, <3>2, <3>4, <3>6
  <2>. QED BY <2>1, <2>2
<1>. HIDE DEF q
<1>3. /\ node' \in [Sides -> PortType] /\ node'["M"] = q /\ node'["S"] = node["S"]
  BY <1>1, <1>2 DEF PortOK, Sides
<1>4. \A x \in Sides : PortOK(x, node'[x])
  BY <1>1, <1>2, <1>3 DEF Sides
<1>5. EpochSeen'
  BY <1>2, <1>3 DEF EpochSeen, l
<1>. QED BY <1>1, <1>3, <1>4, <1>5 DEF IInv

(***************************************************************************)
(* Errors and the watchdog.                                                *)
(***************************************************************************)
\* A port that was reset, and on_rx with an error: it listens again.
LEMMA ResetOK ==
    ASSUME NEW x \in Sides, NEW s \in PortType, s.up, s.tx = None, s.infl = None,
           ~s.rxa, s.dma = NoDma, s.cb = "no", s.fp = None, Distinct(s.rawq),
           NoMasterRxErrors => s.rawq = <<>>
    PROVE  /\ PortOK(x, OnRxError(x, s))
           /\ OnRxError(x, s).epoch => s.epoch
<1>. DEFINE q == OnRxError(x, s)
<1>1. /\ q \in PortType /\ Kept(s, q) /\ KeptDriver(s, q)
      /\ q.tx = s.tx /\ q.rxn = 1
      /\ \/ ~q.rxa /\ q.dma = NoDma
         \/ q.rxa /\ q.dma = RxDma(1)
  BY OnRxErrorFacts
<1>. HIDE DEF q
<1>2. /\ q.up /\ q.tx = None /\ q.infl = None /\ q.rawq = s.rawq /\ q.cb = "no"
      /\ q.fp = None /\ q.rxn # 0 /\ (q.epoch => s.epoch)
  BY <1>1 DEF Kept, KeptDriver
<1>3. /\ NoDma.dir = "no" /\ RxDma(1).dir = "rx" /\ RxDma(1).n = 1 /\ RxDma(1) # NoDma
  BY DmaTypes DEF Sizes
<1>4. Transfers(q) /\ Serving(x, q)
  BY <1>1, <1>2, <1>3 DEF Transfers, Serving
<1>5. Absent(None, q.rawq)
  BY <1>1, NoneAbsent DEF PortType
<1>6. Stopped(q) /\ Pipeline(q) /\ Listening(q) /\ (NoMasterRxErrors => Waiting(x, q))
  BY <1>2, <1>5 DEF Stopped, Pipeline, Waiting, Listening
<1>. QED BY <1>1, <1>2, <1>4, <1>6 DEF PortOK, q

\* The frames of the pipeline are dropped.
LEMMA DroppedFacts ==
    ASSUME NEW p \in PortType
    PROVE  LET q == OnTxError(p) IN
           /\ q \in PortType /\ q.infl = None /\ q.rawq = <<>>
           /\ (q.up <=> p.up) /\ q.tx = p.tx /\ (q.rxa <=> p.rxa) /\ q.dma = p.dma
           /\ q.cb = p.cb /\ q.fp = p.fp /\ (q.epoch <=> p.epoch) /\ q.rxn = p.rxn
<1>1. None \in Opt /\ <<>> \in Seq(Frames)
  BY EmptySeq DEF Opt
<1>. QED BY <1>1 DEF OnTxError, PortType

\* The record the abort of a slave's transfer leaves to the callbacks.
LEMMA AbortedType ==
    ASSUME NEW p \in PortType
    PROVE  LET q == [StopTransfer(p) EXCEPT
                       !.tx = None, !.rxa = FALSE, !.rxn = 0, !.mode = "start",
                       !.gate = FALSE, !.rt = 0, !.tt = 0,
                       !.line = @ /\ p.tx = None] IN
           /\ q \in PortType /\ q.tx = None /\ ~q.rxa /\ q.dma = NoDma
           /\ (q.up <=> p.up) /\ q.cb = p.cb /\ q.fp = p.fp
           /\ q.infl = p.infl /\ q.rawq = p.rawq
<1>. DEFINE l == p.line /\ p.tx = None
            q == [p EXCEPT !.dma = NoDma, !.tx = None, !.rxa = FALSE, !.rxn = 0,
                           !.mode = "start", !.gate = FALSE, !.rt = 0, !.tt = 0,
                           !.line = l]
<1>1. l \in BOOLEAN /\ None \in Opt
  BY DEF Opt
<1>2. q = [StopTransfer(p) EXCEPT
              !.tx = None, !.rxa = FALSE, !.rxn = 0, !.mode = "start",
              !.gate = FALSE, !.rt = 0, !.tt = 0, !.line = @ /\ p.tx = None]
  BY DEF StopTransfer, PortType
<1>. HIDE DEF l
<1>3. q \in PortType
  BY <1>1, ZeroTicks, DmaTypes DEF PortType
<1>4. /\ q.tx = None /\ ~q.rxa /\ q.dma = NoDma
      /\ (q.up <=> p.up) /\ q.cb = p.cb /\ q.fp = p.fp
      /\ q.infl = p.infl /\ q.rawq = p.rawq
  BY DEF PortType
<1>. QED BY <1>2, <1>3, <1>4

\* What a port that serves no completion has in its pipeline.
LEMMA IdleFacts ==
    ASSUME NEW x \in Sides, NEW p, PortOK(x, p), p.cb = "no"
    PROVE  /\ p \in PortType /\ p.infl = p.tx /\ p.fp = None /\ Distinct(p.rawq)
           /\ x = "S" /\ p.tx = None /\ NoMasterRxErrors => p.rawq = <<>>
BY DEF PortOK, Pipeline, Waiting, PortType

\* The slave's transfer is aborted: port and driver forget the frame together,
\* and the port listens again.
LEMMA SlaveAbortOK ==
    ASSUME NEW p, PortOK("S", p), p.up, p.cb = "no"
    PROVE  PortOK("S", SlaveAbort(p))
<1>. DEFINE q == [StopTransfer(p) EXCEPT
                    !.tx = None, !.rxa = FALSE, !.rxn = 0, !.mode = "start",
                    !.gate = FALSE, !.rt = 0, !.tt = 0,
                    !.line = @ /\ p.tx = None]
            s == IF p.tx # None THEN OnTxError(q) ELSE q
<1>0. "S" \in Sides
  BY DEF Sides
<1>1. /\ p \in PortType /\ p.infl = p.tx /\ p.fp = None /\ Distinct(p.rawq)
      /\ p.tx = None /\ NoMasterRxErrors => p.rawq = <<>>
  BY <1>0, IdleFacts
<1>2. SlaveAbort(p) = OnRxError("S", s)
  BY DEF SlaveAbort
<1>3. /\ q \in PortType /\ q.tx = None /\ ~q.rxa /\ q.dma = NoDma
      /\ q.up /\ q.cb = "no" /\ q.fp = None /\ q.infl = p.infl /\ q.rawq = p.rawq
  BY <1>1, AbortedType
<1>. HIDE DEF q
<1>4. /\ s \in PortType /\ s.up /\ s.tx = None /\ s.infl = None
      /\ ~s.rxa /\ s.dma = NoDma /\ s.cb = "no" /\ s.fp = None /\ Distinct(s.rawq)
      /\ NoMasterRxErrors => s.rawq = <<>>
  <2>1. CASE p.tx # None
    <3>1. s = OnTxError(q)
      BY <2>1
    <3>. HIDE DEF s
    <3>2. /\ s \in PortType /\ s.infl = None /\ s.rawq = <<>>
          /\ (s.up <=> q.up) /\ s.tx = q.tx /\ (s.rxa <=> q.rxa) /\ s.dma = q.dma
          /\ s.cb = q.cb /\ s.fp = q.fp
      BY <1>3, <3>1, DroppedFacts
    <3>3. Distinct(s.rawq)
      BY <3>2, EmptySeq DEF Distinct
    <3>. QED BY <1>3, <3>2, <3>3
  <2>2. CASE p.tx = None
    BY <1>1, <1>3, <2>2
  <2>. QED BY <2>1, <2>2
<1>. HIDE DEF s
<1>5. PortOK("S", OnRxError("S", s))
  BY <1>0, <1>4, ResetOK
<1>. QED BY <1>2, <1>5

\* The ticks of a watchdog that is not over its limit.
LEMMA TickFacts ==
    ASSUME NEW p \in PortType, NEW i \in Ticks, NEW j \in Ticks
    PROVE  LET q == [p EXCEPT !.tt = i, !.rt = j] IN
           q \in PortType /\ SamePort(p, q) /\ (q.epoch <=> p.epoch)
<1>. DEFINE q == [p EXCEPT !.tt = i, !.rt = j]
<1>1. q \in PortType
  BY DEF PortType
<1>2. SamePort(p, q) /\ (q.epoch <=> p.epoch)
  BY DEF SamePort, PortType
<1>. QED BY <1>1, <1>2

\* chb_spi_slave_watchdog_timeout.  A completion that is being served restarts
\* the count, so that a limit of more than one period is not reached in it.
LEMMA WatchdogStep ==
    ASSUME IInv, Limit > 1, Watchdog
    PROVE  IInv'
<1>. DEFINE p == node["S"]
            q == WatchdogTick(p)
<1>0. "S" \in Sides
  BY DEF Sides
<1>1. /\ PortOK("S", p) /\ p \in PortType /\ p.up /\ Becomes("S", q) /\ ovr' \in BOOLEAN
      /\ p.cb = "no" \/ (p.tt = 0 /\ p.rt = 0)
  BY <1>0 DEF IInv, PortOK, Watchdog
<1>. HIDE DEF p
<1>2. p.tt \in Ticks /\ p.rt \in Ticks /\ 0 \in Ticks
  BY <1>1, ZeroTicks DEF PortType
<1>3. ASSUME NEW i \in Ticks, NEW j \in Ticks
      PROVE  PortOK("S", [p EXCEPT !.tt = i, !.rt = j])
  <2>. DEFINE u == [p EXCEPT !.tt = i, !.rt = j]
  <2>1. u \in PortType /\ SamePort(p, u) /\ (u.epoch <=> p.epoch)
    BY <1>1, TickFacts
  <2>. HIDE DEF u
  <2>2. u.epoch => u.up
    BY <1>1, <2>1 DEF SamePort
  <2>3. PortOK("S", u)
    BY <1>0, <1>1, <2>1, <2>2, SamePortOK
  <2>. QED BY <2>3 DEF u
<1>4. \/ q = SlaveAbort(p) /\ p.cb = "no"
      \/ \E i, j \in Ticks : q = [p EXCEPT !.tt = i, !.rt = j]
  <2>1. /\ p.tt + 1 < Limit => p.tt + 1 \in Ticks
        /\ p.rt + 1 < Limit => p.rt + 1 \in Ticks
        /\ (p.tt + 1 >= Limit \/ p.rt + 1 >= Limit) => p.cb = "no"
        /\ p.tt + 1 >= Limit \/ p.tt + 1 < Limit
        /\ p.rt + 1 >= Limit \/ p.rt + 1 < Limit
    BY <1>1, <1>2, LimitAssumption DEF Ticks
  <2>2. CASE p.tx # None /\ p.tt + 1 >= Limit
    BY <2>1, <2>2 DEF WatchdogTick
  <2>3. CASE p.tx # None /\ ~(p.tt + 1 >= Limit)
    <3>1. q = [p EXCEPT !.tt = p.tt + 1, !.rt = 0]
      BY <1>1, <2>3 DEF WatchdogTick, PortType
    <3>. QED BY <1>2, <2>1, <2>3, <3>1
  <2>4. CASE p.tx = None /\ (p.rxa /\ p.gate) /\ p.rt + 1 >= Limit
    BY <2>1, <2>4 DEF WatchdogTick
  <2>5. CASE p.tx = None /\ (p.rxa /\ p.gate) /\ ~(p.rt + 1 >= Limit)
    <3>1. q = [p EXCEPT !.tt = 0, !.rt = p.rt + 1]
      BY <1>1, <2>5 DEF WatchdogTick, PortType
    <3>. QED BY <1>2, <2>1, <2>5, <3>1
  <2>6. CASE p.tx = None /\ ~(p.rxa /\ p.gate)
    <3>1. q = [p EXCEPT !.tt = 0, !.rt = 0]
      BY <1>1, <2>6 DEF WatchdogTick, PortType
    <3>. QED BY <1>2, <3>1
  <2>. QED BY <2>2, <2>3, <2>4, <2>5, <2>6
<1>. HIDE DEF q
<1>5. PortOK("S", q)
  <2>1. CASE q = SlaveAbort(p) /\ p.cb = "no"
    BY <1>1, <2>1, SlaveAbortOK
  <2>2. CASE \E i, j \in Ticks : q = [p EXCEPT !.tt = i, !.rt = j]
    BY <1>3, <2>2
  <2>. QED BY <1>4, <2>1, <2>2
<1>. QED BY <1>0, <1>1, <1>5, BecomesInv

\* An octet too many: the slave's packet is broken off.
LEMMA SlaveOverrunStep ==
    ASSUME IInv, SlaveOverrun
    PROVE  IInv'
<1>. DEFINE p == node["S"]
            a == SlaveAbort(p)
            q == [a EXCEPT !.line = FALSE]
<1>0. "S" \in Sides
  BY DEF Sides
<1>1. PortOK("S", p) /\ p.cb = "no" /\ ovr' \in BOOLEAN
  BY <1>0 DEF IInv, SlaveOverrun
<1>2. CASE p.up
  <2>1. Becomes("S", q)
    BY <1>2 DEF SlaveOverrun
  <2>2. PortOK("S", a)
    BY <1>1, <1>2, SlaveAbortOK
  <2>. HIDE DEF a, p
  <2>3. a \in PortType /\ (a.epoch => a.up)
    BY <2>2 DEF PortOK, Stopped
  <2>4. q \in PortType
    BY <2>3 DEF PortType
  <2>5. SamePort(a, q) /\ (q.epoch <=> a.epoch)
    BY <2>3 DEF SamePort, PortType
  <2>. HIDE DEF q
  <2>6. PortOK("S", q)
    <3>1. q.epoch => q.up
      BY <2>3, <2>5 DEF SamePort
    <3>. QED BY <1>0, <2>2, <2>4, <2>5, <3>1, SamePortOK
  <2>. QED BY <1>0, <1>1, <2>1, <2>6, BecomesInv
<1>3. CASE ~p.up
  <2>1. node' = node /\ irq' = irq
    BY <1>3 DEF SlaveOverrun
  <2>. QED BY <1>1, <2>1 DEF IInv, EpochSeen
<1>. QED BY <1>2, <1>3

\* The record a DMA error leaves to the callbacks.
LEMMA FailedType ==
    ASSUME NEW p \in PortType
    PROVE  LET q == [Closed(p) EXCEPT
                       !.dma = NoDma, !.tx = None, !.rxa = FALSE, !.rxn = 0,
                       !.mode = "start", !.gate = FALSE, !.rt = 0, !.tt = 0,
                       !.line = FALSE] IN
           /\ q \in PortType /\ q.tx = None /\ ~q.rxa /\ q.dma = NoDma /\ ~q.epoch
           /\ (q.up <=> p.up) /\ q.cb = p.cb /\ q.fp = p.fp
           /\ q.infl = p.infl /\ q.rawq = p.rawq
<1>. DEFINE c == Closed(p)
            q == [c EXCEPT !.dma = NoDma, !.tx = None, !.rxa = FALSE, !.rxn = 0,
                           !.mode = "start", !.gate = FALSE, !.rt = 0, !.tt = 0,
                           !.line = FALSE]
<1>1. c \in PortType /\ SamePort(p, c) /\ ~c.epoch
  BY ReadyFacts
<1>. HIDE DEF c
<1>2. None \in Opt
  BY DEF Opt
<1>3. q \in PortType
  BY <1>1, <1>2, ZeroTicks, DmaTypes DEF PortType
<1>4. /\ q.tx = None /\ ~q.rxa /\ q.dma = NoDma /\ ~q.epoch
      /\ (q.up <=> c.up) /\ q.cb = c.cb /\ q.fp = c.fp
      /\ q.infl = c.infl /\ q.rawq = c.rawq
  BY <1>1 DEF PortType
<1>. QED BY <1>1, <1>3, <1>4 DEF SamePort, c

\* chb_spi_error_cb: only a failed transmission costs the receive buffer, and
\* only the master's reception leaves a frame in the queue.
LEMMA ErrorCbStep ==
    ASSUME IInv, NEW x \in Sides, ErrorCb(x)
    PROVE  IInv'
<1>. DEFINE p == node[x]
            q == [Closed(p) EXCEPT
                    !.dma = NoDma, !.tx = None, !.rxa = FALSE, !.rxn = 0,
                    !.mode = "start", !.gate = FALSE, !.rt = 0, !.tt = 0,
                    !.line = FALSE]
            t == Failed(x, p)
<1>1. /\ PortOK(x, p) /\ p \in PortType /\ p.up /\ p.cb = "no" /\ ovr' \in BOOLEAN
      /\ <<x, p.dma.dir>> \in DmaErrors /\ Becomes(x, t)
  BY DEF IInv, PortOK, ErrorCb
<1>2. t = IF p.tx # None THEN OnTxError(q) ELSE OnRxError(x, q)
  BY DEF Failed
<1>. HIDE DEF p
<1>3. /\ p.infl = p.tx /\ p.fp = None /\ Distinct(p.rawq)
      /\ x = "S" /\ p.tx = None /\ NoMasterRxErrors => p.rawq = <<>>
  BY <1>1, IdleFacts
<1>4. /\ q \in PortType /\ q.tx = None /\ ~q.rxa /\ q.dma = NoDma /\ ~q.epoch
      /\ (q.up <=> p.up) /\ q.cb = p.cb /\ q.fp = p.fp
      /\ q.infl = p.infl /\ q.rawq = p.rawq
  BY <1>1, FailedType
<1>. HIDE DEF q
<1>5. p.dma.dir \in {"tx", "rx"}
  BY <1>1, DmaAssumption
<1>6. CASE p.tx # None
  <2>1. p.dma.dir = "tx"
    BY <1>1, <1>5, <1>6 DEF PortOK, Transfers
  <2>2. ~NoTxErrors
    BY <1>1, <2>1 DEF NoTxErrors
  <2>3. t = OnTxError(q)
    BY <1>2, <1>6
  <2>. HIDE DEF t
  <2>4. /\ t \in PortType /\ t.infl = None /\ t.rawq = <<>>
        /\ t.up /\ t.tx = None /\ ~t.rxa /\ t.dma = NoDma
        /\ t.cb = "no" /\ t.fp = None /\ ~t.epoch
    BY <1>1, <1>3, <1>4, <2>3, DroppedFacts
  <2>5. Transfers(t) /\ Serving(x, t)
    BY <2>4, DmaTypes DEF Transfers, Serving
  <2>6. Stopped(t) /\ Pipeline(t) /\ Waiting(x, t)
    BY <2>4, EmptySeq DEF Stopped, Pipeline, Waiting, Absent, Distinct
  <2>7. PortOK(x, t)
    BY <2>2, <2>4, <2>5, <2>6 DEF PortOK
  <2>. QED BY <1>1, <2>4, <2>7, BecomesInv
<1>7. CASE p.tx = None
  <2>1. p.dma.dir = "rx"
    BY <1>1, <1>5, <1>7 DEF PortOK, Transfers
  <2>2. NoMasterRxErrors => x = "S"
    BY <1>1, <2>1 DEF NoMasterRxErrors, Sides
  <2>3. t = OnRxError(x, q)
    BY <1>2, <1>7
  <2>4. /\ q.up /\ q.infl = None /\ q.cb = "no" /\ q.fp = None /\ Distinct(q.rawq)
        /\ NoMasterRxErrors => q.rawq = <<>>
    BY <1>1, <1>3, <1>4, <1>7, <2>2
  <2>5. PortOK(x, OnRxError(x, q)) /\ (OnRxError(x, q).epoch => q.epoch)
    BY <1>4, <2>4, ResetOK
  <2>. HIDE DEF t
  <2>. QED BY <1>1, <1>4, <2>3, <2>5, BecomesInv
<1>. QED BY <1>6, <1>7

(***************************************************************************)
(* Stop and start.                                                         *)
(***************************************************************************)
\* The record of a port that is stopped.
LEMMA PortResetFacts ==
    ASSUME NEW p \in PortType
    PROVE  LET q == PortReset(p) IN
           /\ q \in PortType /\ ~q.up /\ q.tx = None /\ ~q.rxa /\ q.dma = NoDma
           /\ q.cb = "no" /\ q.fp = None /\ ~q.epoch
           /\ q.infl = p.infl /\ q.rawq = p.rawq
<1>1. /\ None \in Opt /\ NoDma \in DmaType /\ "X" \in Units \cup {"X"}
      /\ <<>> \in Seq(Frames)
  BY DmaTypes, EmptySeq DEF Opt
<1>2. Station0 \in PortType
  BY <1>1, ZeroTicks DEF Station0, PortType
<1>3. /\ ~Station0.up /\ Station0.tx = None /\ ~Station0.rxa /\ Station0.dma = NoDma
      /\ Station0.cb = "no" /\ Station0.fp = None /\ ~Station0.epoch
  BY DEF Station0
<1>. QED BY <1>2, <1>3 DEF PortReset, PortType

\* drv_stop: the pipeline is dropped with the transfer.
LEMMA StopStep ==
    ASSUME IInv, NEW x \in Sides, Stop(x)
    PROVE  IInv'
<1>. DEFINE p == node[x]
            r == PortReset(p)
            q == OnTxError(r)
<1>1. p \in PortType /\ Becomes(x, q) /\ ovr' \in BOOLEAN
  BY DEF IInv, PortOK, Stop
<1>. HIDE DEF p
<1>2. /\ r \in PortType /\ ~r.up /\ r.tx = None /\ ~r.rxa /\ r.dma = NoDma
      /\ r.cb = "no" /\ r.fp = None /\ ~r.epoch
  BY <1>1, PortResetFacts
<1>. HIDE DEF r
<1>3. /\ q \in PortType /\ ~q.up /\ q.tx = None /\ ~q.rxa /\ q.dma = NoDma
      /\ q.cb = "no" /\ q.fp = None /\ ~q.epoch /\ q.infl = None /\ q.rawq = <<>>
  BY <1>2, DroppedFacts
<1>. HIDE DEF q
<1>4. Transfers(q) /\ Serving(x, q)
  BY <1>3, DmaTypes DEF Transfers, Serving
<1>5. Stopped(q) /\ Pipeline(q) /\ Waiting(x, q) /\ Listening(q)
  BY <1>3, EmptySeq DEF Stopped, Pipeline, Waiting, Listening, Absent, Distinct
<1>6. PortOK(x, q)
  BY <1>3, <1>4, <1>5 DEF PortOK
<1>. QED BY <1>1, <1>3, <1>6, BecomesInv

\* drv_start: the port listens, and knows nothing of what was before.
LEMMA StartStep ==
    ASSUME IInv, NEW x \in Sides, Start(x)
    PROVE  IInv'
<1>. DEFINE p == node[x]
            r == PortReset(p)
            s == [r EXCEPT !.up = TRUE, !.infl = None]
            q == RxSubmit(x, s, 1, "start")
<1>1. /\ p \in PortType /\ PortOK(x, p) /\ ~p.up /\ Becomes(x, q) /\ ovr' \in BOOLEAN
  BY DEF IInv, PortOK, Start
<1>2. p.rawq = <<>>
  BY <1>1 DEF PortOK, Stopped
<1>. HIDE DEF p
<1>3. /\ r \in PortType /\ r.tx = None /\ ~r.rxa /\ r.dma = NoDma
      /\ r.cb = "no" /\ r.fp = None /\ ~r.epoch /\ r.rawq = <<>>
  BY <1>1, <1>2, PortResetFacts
<1>. HIDE DEF r
<1>4. None \in Opt
  BY DEF Opt
<1>5. /\ s \in PortType /\ s.up /\ s.tx = None /\ ~s.rxa /\ s.dma = NoDma
      /\ s.cb = "no" /\ s.fp = None /\ ~s.epoch /\ s.rawq = <<>> /\ s.infl = None
  BY <1>3, <1>4 DEF PortType
<1>. HIDE DEF s
<1>6. PortOK(x, q) /\ ~q.epoch
  BY <1>5, StartedOK
<1>. HIDE DEF q
<1>. QED BY <1>1, <1>6, BecomesInv

(***************************************************************************)
(* Sending.                                                                *)
(***************************************************************************)
\* drv_send_frame: the frame is sent at once, or it waits behind the others.
LEMMA SendStep ==
    ASSUME IInv, NEW x \in Sides, Send(x)
    PROVE  IInv'
<1>. DEFINE p == node[x]
<1>1. /\ PortOK(x, p) /\ p \in PortType /\ p.cb = "no" /\ ovr' \in BOOLEAN
  BY DEF IInv, PortOK, Send
<1>2. PICK f \in Frames \ Committed(p) : Becomes(x, SendFrame(x, p, f))
  BY DEF Send
<1>. HIDE DEF p
<1>3. /\ p.infl = p.tx /\ p.fp = None /\ Distinct(p.rawq) /\ p.rawq \in Seq(Frames)
      /\ p.rxn \in Sizes /\ (p.up => (NoTxErrors => p.rxn # 0))
      /\ (~p.up => p.tx = None /\ p.rawq = <<>>)
  BY <1>1, IdleFacts DEF PortOK, Listening, Stopped, PortType
<1>4. f # p.infl /\ Absent(f, p.rawq)
  BY <1>2, <1>3 DEF Committed, ToSet, Absent
<1>5. Quiet(p)
  BY <1>1, TransfersQuiet DEF PortOK
<1>6. TxBusy(x, p) = (p.up /\ (p.tx # None \/ (x = "M" /\ (p.rxa \/ p.epoch))))
  BY DEF TxBusy, MasterTxBlocked, Sides
<1>7. ASSUME ~p.up PROVE IInv'
  <2>1. SendFrame(x, p, f) = p
    BY <1>3, <1>6, <1>7 DEF SendFrame
  <2>2. x = "M" /\ p.epoch => node.M.epoch
    BY DEF p
  <2>. QED BY <1>1, <1>2, <2>1, <2>2, BecomesInv
<1>8. ASSUME p.up, ~TxBusy(x, p), p.infl = None, p.rawq = <<>> PROVE IInv'
  <2>. DEFINE o == [p EXCEPT !.infl = f]
              q == TxSubmit(x, o, f, TRUE)
  <2>1. SendFrame(x, p, f) = q
    BY <1>8 DEF SendFrame
  <2>2. f \in Opt
    BY <1>2 DEF Opt
  <2>3. /\ o \in PortType /\ (o.up <=> p.up) /\ o.cb = p.cb /\ o.fp = p.fp
        /\ o.tx = p.tx /\ (o.rxa <=> p.rxa) /\ o.dma = p.dma /\ o.rxn = p.rxn
        /\ o.infl = f /\ o.rawq = p.rawq /\ (o.epoch <=> p.epoch)
    BY <1>1, <2>2 DEF PortType
  <2>. HIDE DEF o
  <2>4. CanTake(x, o)
    BY <1>3, <1>5, <1>6, <1>8, <2>3 DEF CanTake, Quiet
  <2>5. /\ q \in PortType /\ Kept(o, q) /\ KeptDriver(o, q)
        /\ q.tx = f /\ ~q.rxa /\ q.dma = TxDma(TRUE)
        /\ o.rxn # 0 => q.rxn # 0
    <3>1. f \in Frames /\ o \in PortType /\ TRUE \in BOOLEAN
      BY <1>2, <2>3
    <3>. QED BY <2>4, <3>1, TxSubmitFacts
  <2>. HIDE DEF q
  <2>6. /\ q.up /\ q.tx \in Frames /\ q.infl = q.tx /\ q.cb = "no" /\ q.fp = None
        /\ q.rawq = p.rawq /\ (NoTxErrors => q.rxn # 0) /\ (q.epoch => p.epoch)
    BY <1>1, <1>2, <1>3, <1>8, <2>3, <2>5 DEF Kept, KeptDriver
  <2>7. Absent(q.infl, q.rawq) /\ Distinct(q.rawq)
    BY <1>3, <1>4, <2>5, <2>6
  <2>8. PortOK(x, q)
    BY <2>5, <2>6, <2>7, SubmittedOK
  <2>9. x = "M" /\ q.epoch => node.M.epoch
    BY <2>6 DEF p
  <2>. QED BY <1>1, <1>2, <2>1, <2>8, <2>9, BecomesInv
<1>9. ASSUME p.up, TxBusy(x, p) \/ p.infl # None \/ p.rawq # <<>> PROVE IInv'
  <2>. DEFINE s == Append(p.rawq, f)
              o == [p EXCEPT !.rawq = s]
              q == TryNext(x, o, TRUE)
  <2>1. SendFrame(x, p, f) = q
    BY <1>1, <1>9 DEF SendFrame, PortType
  <2>2. /\ s \in Seq(Frames) /\ s # <<>> /\ Distinct(s)
        /\ \A g : Absent(g, p.rawq) /\ g # f => Absent(g, s)
    BY <1>2, <1>3, <1>4, AddLast
  <2>. HIDE DEF s
  <2>3. /\ o \in PortType /\ (o.up <=> p.up) /\ o.cb = p.cb /\ o.fp = p.fp
        /\ o.tx = p.tx /\ (o.rxa <=> p.rxa) /\ o.dma = p.dma /\ o.rxn = p.rxn
        /\ o.infl = p.infl /\ o.rawq = s /\ (o.epoch <=> p.epoch)
    BY <1>1, <2>2 DEF PortType
  <2>. HIDE DEF o
  <2>4. Quiet(o)
    BY <1>5, <2>3 DEF Quiet
  <2>5. \/ q = o /\ Busy(x, o)
        \/ /\ q \in PortType /\ Kept(o, q)
           /\ o.rxn # 0 => q.rxn # 0
           /\ q.infl = q.tx /\ q.tx \in Frames /\ ~q.rxa /\ q.dma = TxDma(TRUE)
           /\ Absent(q.infl, q.rawq) /\ Distinct(q.rawq)
    BY <1>9, <2>2, <2>3, <2>4, TryNextFacts
  <2>. HIDE DEF q
  <2>6. ASSUME q = o, Busy(x, o) PROVE PortOK(x, q)
    <3>1. Transfers(o) /\ Serving(x, o)
      BY <1>1, <2>3 DEF PortOK, Transfers, Serving
    <3>2. Absent(p.infl, p.rawq)
      BY <1>1 DEF PortOK, Pipeline
    <3>3. Stopped(o) /\ Pipeline(o)
      BY <1>1, <1>3, <1>4, <1>9, <2>2, <2>3, <3>2 DEF Stopped, Pipeline
    <3>4. Waiting(x, o)
      BY <1>3, <2>2, <2>3, <2>6 DEF Waiting, Busy
    <3>. QED BY <1>3, <1>9, <2>3, <2>6, <3>1, <3>3, <3>4 DEF PortOK, Listening
  <2>7. ASSUME ~(q = o /\ Busy(x, o)) PROVE PortOK(x, q)
    <3>1. /\ q \in PortType /\ q.up /\ q.cb = "no" /\ q.fp = None
          /\ (NoTxErrors => q.rxn # 0)
      BY <1>1, <1>3, <1>9, <2>3, <2>5, <2>7 DEF Kept
    <3>2. /\ q.infl = q.tx /\ q.tx \in Frames /\ ~q.rxa /\ q.dma = TxDma(TRUE)
          /\ Absent(q.infl, q.rawq) /\ Distinct(q.rawq)
      BY <2>5, <2>7
    <3>. QED BY <3>1, <3>2, SubmittedOK
  <2>8. q.epoch => p.epoch
    BY <2>3, <2>5 DEF Kept
  <2>9. x = "M" /\ q.epoch => node.M.epoch
    BY <2>8 DEF p
  <2>. QED BY <1>1, <1>2, <2>1, <2>6, <2>7, <2>9, BecomesInv
<1>. QED BY <1>7, <1>8, <1>9

(***************************************************************************)
(* The theorems.                                                           *)
(***************************************************************************)
\* Every step keeps the inductive invariant.
LEMMA NextIInv ==
    ASSUME Limit > 1, IInv, [Next]_vars
    PROVE  IInv'
<1>1. ASSUME NEW x \in Sides, Send(x) PROVE IInv'
  BY <1>1, SendStep
<1>2. ASSUME NEW x \in Sides, DataCb(x) PROVE IInv'
  BY <1>2, DataTxStep, DataTxDoneStep, DataTxRxStep, DataRxStep, DataOnRxStep DEF DataCb
<1>3. ASSUME NEW x \in Sides, ErrorCb(x) PROVE IInv'
  BY <1>3, ErrorCbStep
<1>4. ASSUME NEW x \in Sides, Stop(x) PROVE IInv'
  BY <1>4, StopStep
<1>5. ASSUME NEW x \in Sides, Start(x) PROVE IInv'
  BY <1>5, StartStep
<1>6. CASE Clock
  BY <1>6, ClockStep
<1>7. CASE DataRxEnd
  BY <1>7, DataRxEndStep
<1>8. CASE DataReady
  BY <1>8, DataReadyStep
<1>9. CASE Watchdog
  BY <1>9, WatchdogStep
<1>10. CASE SlaveOverrun
  BY <1>10, SlaveOverrunStep
<1>11. CASE UNCHANGED vars
  BY <1>11 DEF vars, IInv, EpochSeen
<1>. QED BY <1>1, <1>2, <1>3, <1>4, <1>5, <1>6, <1>7, <1>8, <1>9, <1>10, <1>11 DEF Next

\* The inductive invariant holds in every reachable state, if the watchdog
\* waits for more than one period.
THEOREM Invariance == Limit > 1 => (Spec => []IInv)
<1>. SUFFICES ASSUME Limit > 1 PROVE Spec => []IInv
  OBVIOUS
<1>1. IInv /\ [Next]_vars => IInv'
  BY NextIInv
<1>. QED BY InitIInv, <1>1, PTL DEF Spec

\* The flags of the port name the one transfer that runs: neither a callback,
\* an edge of DATA_READY, the watchdog nor a thread starts one over another.
THEOREM TransfersExclusive == Limit > 1 => (Spec => []Exclusive)
<1>. SUFFICES ASSUME Limit > 1 PROVE Spec => []Exclusive
  OBVIOUS
<1>1. IInv => Exclusive
  <2>. SUFFICES ASSUME IInv PROVE Exclusive
    OBVIOUS
  <2>1. ASSUME NEW x \in Sides
        PROVE  LET p == node[x] IN
               /\ \A b \in {p.up, p.rxa, p.allowed, p.gate, p.last, p.epoch, p.capt,
                            p.coll, p.line} : b \in BOOLEAN
               /\ \A f \in {p.tx, p.infl, p.fp} : f \in Frames \cup {None}
               /\ p.rawq \in Seq(Frames)
               /\ p.rxn \in 0..2 /\ p.mode \in {"start", "cont"}
               /\ p.rt \in 0..(Limit - 1) /\ p.tt \in 0..(Limit - 1)
               /\ p.parse \in {"hunt", "open", "body", "acc"}
               /\ p.cb \in {"no", "txdone", "txrx", "onrx", "rxend"}
    <3>1. node[x] \in PortType
      BY DEF IInv
    <3>. QED BY <3>1 DEF PortType, Opt, Sizes, Ticks
  <2>2. ASSUME NEW x \in Sides
        PROVE  LET p == node[x] IN
               /\ p.dma.dir # "clash"
               /\ p.dma.dir = "tx" => p.tx # None /\ ~p.rxa
               /\ p.dma.dir = "rx" => p.tx = None /\ p.rxa /\ p.rxn = p.dma.n
               /\ p.dma.dir = "done" => (p.tx = None) = p.rxa
    <3>1. node[x] \in PortType /\ Transfers(node[x])
      BY DEF IInv, PortOK
    <3>2. node[x].dma \in DmaType /\ node[x].rxa \in BOOLEAN
      BY <3>1 DEF PortType
    <3>3. node[x].dma.dir # "clash"
      BY <3>2 DEF DmaType
    <3>. QED BY <3>1, <3>2, <3>3 DEF Transfers
  <2>3. TypeOK
    BY <2>1 DEF TypeOK, IInv
  <2>. QED BY <2>2, <2>3 DEF Exclusive
<1>. QED BY <1>1, Invariance, PTL

\* The driver's frame in flight is the port's, and none that still waits: no
\* callback completes or releases another frame than the one that was sent.
THEOREM PipelineFollowsPort == Limit > 1 => (Spec => []PortDriverAgree)
<1>. SUFFICES ASSUME Limit > 1 PROVE Spec => []PortDriverAgree
  OBVIOUS
<1>1. IInv => PortDriverAgree
  <2>. SUFFICES ASSUME IInv, NEW x \in Sides
                PROVE  /\ node[x].infl = IF node[x].cb = "txdone" /\ node[x].tx = None
                                         THEN node[x].fp ELSE node[x].tx
                       /\ node[x].infl \notin ToSet(node[x].rawq) \ {None}
    BY DEF PortDriverAgree
  <2>1. Pipeline(node[x]) /\ Serving(x, node[x])
    BY DEF IInv, PortOK
  <2>2. node[x].infl = IF node[x].cb = "txdone" /\ node[x].tx = None
                       THEN node[x].fp ELSE node[x].tx
    BY <2>1 DEF Pipeline, Serving
  <2>3. node[x].rawq \in Seq(Frames)
    BY DEF IInv, PortType
  <2>4. node[x].infl \notin ToSet(node[x].rawq)
    BY <2>1, <2>3 DEF Pipeline, Absent, ToSet
  <2>. QED BY <2>2, <2>4
<1>. QED BY <1>1, Invariance, PTL

\* A frame that waits in raw_q is tried again: by the transfer that runs, or by
\* the edge that ends the slave's packet.  An error of the master's reception
\* is the exception: it closes the epoch and tries nothing.
THEOREM FramesNotStranded == Limit > 1 /\ NoMasterRxErrors => (Spec => []NotStranded)
<1>. SUFFICES ASSUME Limit > 1, NoMasterRxErrors PROVE Spec => []NotStranded
  OBVIOUS
<1>1. IInv => NotStranded
  <2>. SUFFICES ASSUME IInv, NEW x \in Sides, node[x].rawq # <<>>, node[x].cb = "no"
                PROVE  \/ node[x].dma # NoDma
                       \/ x = "M" /\ node[x].epoch /\ (node.S.line \/ irq)
    BY DEF NotStranded
  <2>1. Transfers(node[x]) /\ Serving(x, node[x]) /\ Waiting(x, node[x])
    BY DEF IInv, PortOK
  <2>2. CASE node[x].tx # None \/ node[x].rxa
    BY <2>1, <2>2, DmaTypes DEF Transfers, Serving
  <2>3. CASE node[x].tx = None /\ ~node[x].rxa
    <3>1. x = "M" /\ node[x].epoch
      BY <2>1, <2>3 DEF Waiting
    <3>. QED BY <3>1 DEF IInv, EpochSeen
  <2>. QED BY <2>2, <2>3
<1>. QED BY <1>1, Invariance, PTL

\* A started port never loses the receive buffer, whatever is sent, aborted,
\* restarted or received with an error.  A DMA error while sending is the
\* exception: it drops the saved buffer.
THEOREM PortKeepsListening == Limit > 1 /\ NoTxErrors => (Spec => []KeepsListening)
<1>. SUFFICES ASSUME Limit > 1, NoTxErrors PROVE Spec => []KeepsListening
  OBVIOUS
<1>1. IInv => KeepsListening
  BY DEF IInv, PortOK, Listening, KeepsListening
<1>. QED BY <1>1, Invariance, PTL

=============================================================================
