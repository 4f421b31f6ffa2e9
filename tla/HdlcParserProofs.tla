-------------------------- MODULE HdlcParserProofs --------------------------
(***************************************************************************)
(* The theorems about the receive parser, for every configuration that is  *)
(* accepted and any octets from the line.  The invariant ties the length   *)
(* counted so far (elen) to the octets in the buffer and to those the      *)
(* transfer still waits for: each branch of s_on_rx computes the next      *)
(* transfer from elen, and none of them looks at the buffer's fill level.  *)
(***************************************************************************)
EXTENDS HdlcParser, SequenceTheorems, TLAPS

(***************************************************************************)
(* Configurations.                                                         *)
(***************************************************************************)
\* A size that is accepted is one of the three sizes there are.
LEMMA DefaultFcsType ==
  ASSUME NEW b \in Backend
  PROVE  DefaultFcs(b) \in {0, 2, 4}
BY DEF Backend, DefaultFcs, FcsCaps, BaseSizes

\* calculate_frame_size makes room for two octets at least, whatever is asked
\* for: the first octet of an FFF and the one behind it.
LEMMA FrameSizeRoom ==
  ASSUME NEW fff \in 0..2, NEW fcs \in {0, 2, 4}, NEW info \in Nat,
         NEW tr \in BOOLEAN
  PROVE  /\ CalculateFrameSize(fff, fcs, info, tr) \in Nat
         /\ CalculateFrameSize(fff, fcs, info, tr) >= 3
<1> DEFINE asked == fff + 2 + info
           most == (IF fff = 1 THEN 127 ELSE 4095) - fcs
           elen == IF fff # 0 /\ asked > most THEN most ELSE asked
           size == elen + fcs + 1
<1>1. asked \in Nat /\ asked >= 2
  OBVIOUS
<1>2. most \in Nat /\ most >= 2
  OBVIOUS
<1>3. elen \in Nat /\ elen >= 2
  BY <1>1, <1>2
<1>4. size \in Nat /\ size >= 3
  BY <1>3
<1> HIDE DEF size
<1>5. CalculateFrameSize(fff, fcs, info, tr) = IF tr THEN 2 * size ELSE size
  BY DEF CalculateFrameSize, size, elen, most, asked
<1> QED
  BY <1>4, <1>5

\* The longest INFO field is a natural number.
LEMMA MaxInfoType ==
  ASSUME NEW fff \in 0..2, NEW fcs \in {0, 2, 4}, NEW info \in Nat
  PROVE  MaxInfo(fff, fcs, info) \in Nat
<1>1. CASE info # 0
  BY <1>1 DEF MaxInfo
<1>2. CASE info = 0 /\ fff = 1
  BY <1>2 DEF MaxInfo
<1>3. CASE info = 0 /\ fff = 2
  BY <1>3 DEF MaxInfo
<1>4. CASE info = 0 /\ fff = 0
  BY <1>4 DEF MaxInfo
<1> QED
  BY <1>1, <1>2, <1>3, <1>4

\* Every configuration ioHdlcStationInit accepts has a pool, a known FCS size
\* and room in its buffers; transparency excludes an FFF.
LEMMA ConfigsRoom ==
  ASSUME NEW c \in Configs
  PROVE  /\ c.pool \in Nat \ {0} /\ c.framesize \in Nat /\ c.framesize >= 3
         /\ c.tr \in BOOLEAN /\ c.fff \in 0..2
<1>1. PICK k \in PoolSizes, x \in Backends \X Options :
          ~Refused(x[1], x[2]) /\ c = Configured(x[1], x[2], k)
  BY DEF Configs
<1> DEFINE b == x[1]
           o == x[2]
           fcs == DefaultFcs(b)
           info == MaxInfo(FffType(o), fcs, o.info)
           size == CalculateFrameSize(FffType(o), fcs, info, Transparency(o))
<1>2. b \in Backend /\ o \in Option
  BY BackendsAssumption, OptionsAssumption
<1>3. fcs \in {0, 2, 4}
  BY <1>2, DefaultFcsType
<1>4. FffType(o) \in 0..2
  BY <1>1 DEF Refused, Accepts
<1>5. Transparency(o) \in BOOLEAN /\ o.info \in Nat
  BY <1>2 DEF Transparency, Option
<1>6. info \in Nat
  BY <1>3, <1>4, <1>5, MaxInfoType
<1>7. size \in Nat /\ size >= 3
  BY <1>3, <1>4, <1>5, <1>6, FrameSizeRoom
<1>8. k \in Nat \ {0}
  BY PoolSizesAssumption
<1>9. /\ c.pool = k /\ c.framesize = size /\ c.tr = Transparency(o)
      /\ c.fff = FffType(o)
  BY <1>1 DEF Configured
<1> QED
  BY <1>4, <1>5, <1>7, <1>8, <1>9

(***************************************************************************)
(* What holds of the receive side between two callbacks.  Queued: the      *)
(* frames in recept_q fit and have their permits, and no frame of the pool *)
(* is unaccounted for.  Tracked: elen, the octets in the buffer and the    *)
(* octets awaited agree, and an octet is awaited unless an FFF of two has  *)
(* declared that its second octet is the last.                             *)
(***************************************************************************)
Queued(d) ==
    /\ d \in DriverState
    /\ \A i \in DOMAIN d.q : Len(d.q[i]) \in MinLen..(cfg.framesize - 1)
    /\ d.sem >= Len(d.q)
    /\ d.free + Len(d.q) + (IF d.inf THEN 1 ELSE 0) = cfg.pool

Tracked(d) ==
    /\ d.inf => Len(d.buf) + d.n = d.elen + 1 /\ d.elen < cfg.framesize
    /\ ~d.inf => d.buf = << >> /\ d.elen = 0 /\ d.n = 1
    /\ d.n = 0 => d.inf /\ cfg.fff = 2 /\ d.elen = 1

\* The inductive invariant.
RxIInv == cfg \in Configs /\ Queued(drv) /\ Tracked(drv)

\* The staging octet is cleared to an octet, and a flag is one.
LEMMA ZeroOctet == 0 \in Octets /\ FLAG \in Octets
BY DEF Octets, FLAG

\* A staged flag opens a frame with an empty buffer and awaits one octet, or
\* finds the pool empty and opens none.
LEMMA NewFrameKeeps ==
  ASSUME cfg \in Configs, NEW d, Queued(d), ~d.inf, d.buf = << >>, d.elen = 0
  PROVE  Queued(NewFrame(d)) /\ Tracked(NewFrame(d))
<1>1. cfg.framesize \in Nat /\ cfg.framesize >= 3 /\ cfg.pool \in Nat
  BY ConfigsRoom
<1>2. d \in DriverState
  BY DEF Queued
<1>3. CASE d.stage # FLAG
  <2> DEFINE e == [d EXCEPT !.n = 1]
  <2>1. NewFrame(d) = e
    BY <1>3 DEF NewFrame
  <2>2. e \in DriverState
    BY <1>2 DEF DriverState
  <2>3. /\ e.inf = d.inf /\ e.buf = << >> /\ e.elen = 0 /\ e.n = 1
        /\ e.q = d.q /\ e.sem = d.sem /\ e.free = d.free
    BY <1>2 DEF DriverState
  <2> HIDE DEF e
  <2>4. Queued(e)
    BY <2>2, <2>3 DEF Queued
  <2>5. Tracked(e)
    BY <2>3 DEF Tracked
  <2> QED
    BY <2>1, <2>4, <2>5
<1>4. CASE d.stage = FLAG /\ d.free = 0
  <2> DEFINE e == [d EXCEPT !.n = 1, !.stage = 0, !.miss = TRUE]
  <2>1. NewFrame(d) = e
    BY <1>4 DEF NewFrame
  <2>2. e \in DriverState
    BY <1>2, ZeroOctet DEF DriverState
  <2>3. /\ e.inf = d.inf /\ e.buf = << >> /\ e.elen = 0 /\ e.n = 1
        /\ e.q = d.q /\ e.sem = d.sem /\ e.free = d.free
    BY <1>2 DEF DriverState
  <2> HIDE DEF e
  <2>4. Queued(e)
    BY <2>2, <2>3 DEF Queued
  <2>5. Tracked(e)
    BY <2>3 DEF Tracked
  <2> QED
    BY <2>1, <2>4, <2>5
<1>5. CASE d.stage = FLAG /\ d.free # 0
  <2> DEFINE e == [d EXCEPT !.n = 1, !.stage = 0, !.inf = TRUE, !.free = @ - 1,
                            !.miss = FALSE]
  <2>1. NewFrame(d) = e
    BY <1>5 DEF NewFrame
  <2>2. d.free - 1 \in Nat
    BY <1>2, <1>5 DEF DriverState
  <2>3. e \in DriverState
    <3>1. ASSUME NEW k \in Nat
          PROVE  [d EXCEPT !.n = 1, !.stage = 0, !.inf = TRUE, !.free = k,
                           !.miss = FALSE] \in DriverState
      BY <1>2, ZeroOctet DEF DriverState
    <3> QED
      BY <2>2, <3>1
  <2>4. /\ e.inf /\ e.buf = << >> /\ e.elen = 0 /\ e.n = 1
        /\ e.q = d.q /\ e.sem = d.sem /\ e.free = d.free - 1
    BY <1>2 DEF DriverState
  <2> HIDE DEF e
  <2>5. Len(d.q) \in Nat /\ d.free \in Nat
    BY <1>2, LenProperties DEF DriverState
  <2>6. Queued(e)
    BY <2>3, <2>4, <2>5 DEF Queued
  <2>7. Tracked(e)
    <3>1. Len(e.buf) = 0
      BY <2>4
    <3> QED
      BY <1>1, <2>4, <3>1 DEF Tracked
  <2> QED
    BY <2>1, <2>6, <2>7
<1> QED
  BY <1>3, <1>4, <1>5

\* s_handle_rx_error gives the frame back, and the parser starts over.
LEMMA DiscardKeeps ==
  ASSUME cfg \in Configs, NEW d, Queued(d)
  PROVE  Queued(Discard(d)) /\ Tracked(Discard(d))
<1>1. d \in DriverState
  BY DEF Queued
<1> DEFINE e == HandleRxError(d)
           k == d.free + (IF d.inf THEN 1 ELSE 0)
<1>2. k \in Nat
  BY <1>1 DEF DriverState
<1>3. e = [d EXCEPT !.free = k, !.inf = FALSE, !.buf = << >>, !.elen = 0,
                    !.stage = 0]
  BY DEF HandleRxError
<1>4. << >> \in Seq(Octets)
  BY EmptySeq
<1>5. e \in DriverState
  <2>1. ASSUME NEW m \in Nat, NEW s \in Seq(Octets)
        PROVE  [d EXCEPT !.free = m, !.inf = FALSE, !.buf = s, !.elen = 0,
                         !.stage = 0] \in DriverState
    BY <1>1, ZeroOctet DEF DriverState
  <2> HIDE DEF k, e
  <2> QED
    BY <1>2, <1>3, <1>4, <2>1
<1>6. /\ ~e.inf /\ e.buf = << >> /\ e.elen = 0
      /\ e.q = d.q /\ e.sem = d.sem /\ e.free = k
  BY <1>1, <1>3 DEF DriverState
<1>7. Len(d.q) \in Nat /\ d.free \in Nat
  BY <1>1, LenProperties DEF DriverState
<1>8. Queued(e)
  <2> HIDE DEF e
  <2>1. e.free + Len(e.q) + 0 = cfg.pool
    BY <1>6, <1>7 DEF Queued
  <2> HIDE DEF k
  <2> QED
    BY <1>5, <1>6, <2>1 DEF Queued
<1> HIDE DEF e
<1>9. Queued(NewFrame(e)) /\ Tracked(NewFrame(e))
  BY <1>6, <1>8, NewFrameKeeps
<1> QED
  BY <1>9 DEF Discard, e

\* The next transfer is armed for the rest that elen announces.
LEMMA ArmKeeps ==
  ASSUME cfg \in Configs, NEW d, Queued(d), d.inf,
         NEW elen \in Nat, NEW n \in Nat,
         Len(d.buf) + n = elen + 1, elen < cfg.framesize,
         n = 0 => cfg.fff = 2 /\ elen = 1
  PROVE  Queued(Arm(d, elen, n)) /\ Tracked(Arm(d, elen, n))
<1>1. d \in DriverState
  BY DEF Queued
<1> DEFINE e == [d EXCEPT !.elen = elen, !.n = n]
<1>2. Arm(d, elen, n) = e
  BY DEF Arm
<1>3. e \in DriverState
  BY <1>1 DEF DriverState
<1>4. /\ e.inf /\ e.inf = d.inf /\ e.buf = d.buf /\ e.elen = elen /\ e.n = n
      /\ e.q = d.q /\ e.sem = d.sem /\ e.free = d.free
  BY <1>1 DEF DriverState
<1> HIDE DEF e
<1>5. Queued(e)
  BY <1>3, <1>4 DEF Queued
<1>6. Tracked(e)
  BY <1>4 DEF Tracked
<1> QED
  BY <1>2, <1>5, <1>6

(***************************************************************************)
(* The branches of s_on_rx at the end of a transfer: frame[elen] is the    *)
(* octet that came last.                                                   *)
(***************************************************************************)
Ended(d) ==
    /\ Queued(d) /\ d.inf /\ d.n = 0
    /\ Len(d.buf) = d.elen + 1 /\ d.elen < cfg.framesize

\* The octets of the buffer are octets, and their number is a number.
LEMMA EndedType ==
  ASSUME NEW d, Ended(d)
  PROVE  /\ d \in DriverState /\ d.buf \in Seq(Octets) /\ d.elen \in Nat
         /\ \A i \in 1..(d.elen + 1) : d.buf[i] \in 0..255
<1>1. d \in DriverState
  BY DEF Ended, Queued
<1>2. d.buf \in Seq(Octets) /\ d.elen \in Nat
  BY <1>1 DEF DriverState
<1>3. \A i \in 1..Len(d.buf) : d.buf[i] \in Octets
  BY <1>2, ElementOfSeq
<1> QED
  BY <1>1, <1>2, <1>3 DEF Ended, Octets

\* A closing flag delivers the octets before it, and opens the next frame.
LEMMA ClosingFlagKeeps ==
  ASSUME cfg \in Configs, NEW d, Ended(d)
  PROVE  Queued(ClosingFlag(d)) /\ Tracked(ClosingFlag(d))
<1>1. /\ d \in DriverState /\ d.buf \in Seq(Octets) /\ d.elen \in Nat
  BY EndedType
<1>2. cfg.framesize \in Nat /\ cfg.framesize >= 3 /\ cfg.pool \in Nat
  BY ConfigsRoom
<1>3. << >> \in Seq(Octets) /\ Len(<< >>) = 0
  BY EmptySeq
<1>4. Queued(d) /\ d.inf
  BY DEF Ended
<1>5. CASE d.elen < MinLen
  <2> DEFINE e == [Arm(d, 0, 1) EXCEPT !.buf = << >>]
  <2>1. ClosingFlag(d) = e
    BY <1>5 DEF ClosingFlag
  <2>2. e = [d EXCEPT !.elen = 0, !.n = 1, !.buf = << >>]
    BY <1>1 DEF Arm, DriverState
  <2>3. e \in DriverState
    <3>1. ASSUME NEW s \in Seq(Octets)
          PROVE  [d EXCEPT !.elen = 0, !.n = 1, !.buf = s] \in DriverState
      BY <1>1 DEF DriverState
    <3> HIDE DEF e
    <3> QED
      BY <1>3, <2>2, <3>1
  <2>4. /\ e.inf = d.inf /\ e.buf = << >> /\ e.elen = 0 /\ e.n = 1
        /\ e.q = d.q /\ e.sem = d.sem /\ e.free = d.free
    BY <1>1, <2>2 DEF DriverState
  <2> HIDE DEF e
  <2>5. Queued(e)
    BY <1>4, <2>3, <2>4 DEF Queued
  <2>6. Tracked(e)
    BY <1>2, <1>3, <1>4, <2>4 DEF Tracked
  <2> QED
    BY <2>1, <2>5, <2>6
<1>6. CASE d.elen >= MinLen
  <2> DEFINE f == Front(d.buf)
             q == Append(d.q, f)
             e == [d EXCEPT !.q = q, !.sem = @ + 1, !.inf = FALSE,
                            !.buf = << >>, !.elen = 0, !.stage = FLAG]
  <2>1. ClosingFlag(d) = NewFrame(e)
    BY <1>1, <1>6 DEF ClosingFlag, MinLen
  <2>2. f \in Seq(Octets) /\ Len(f) = d.elen
    <3>1. Len(d.buf) - 1 = d.elen
      BY <1>1 DEF Ended
    <3>2. f = SubSeq(d.buf, 1, d.elen)
      BY <3>1 DEF Front
    <3>3. \A i \in 1..d.elen : d.buf[i] \in Octets
      BY <1>1, EndedType DEF Octets
    <3>4. SubSeq(d.buf, 1, d.elen) \in Seq(Octets)
      BY <1>1, <3>1, SubSeqProperties
    <3>5. Len(SubSeq(d.buf, 1, d.elen)) = d.elen
      BY <1>1, <3>1, SubSeqProperties
    <3> QED
      BY <3>2, <3>4, <3>5
  <2>3. d.q \in Seq(Seq(Octets)) /\ Len(d.q) \in Nat
    BY <1>1, LenProperties DEF DriverState
  <2> HIDE DEF f
  <2>4. /\ q \in Seq(Seq(Octets)) /\ Len(q) = Len(d.q) + 1
        /\ \A i \in 1..Len(d.q) : q[i] = d.q[i]
        /\ q[Len(d.q) + 1] = f
    BY <2>2, <2>3, AppendProperties
  <2> HIDE DEF q
  <2>5. e \in DriverState
    <3>1. ASSUME NEW s \in Seq(Octets), NEW k \in Nat
          PROVE  [d EXCEPT !.q = q, !.sem = k, !.inf = FALSE, !.buf = s,
                           !.elen = 0, !.stage = FLAG] \in DriverState
      BY <1>1, <2>4, ZeroOctet DEF DriverState
    <3>2. d.sem + 1 \in Nat
      BY <1>1 DEF DriverState
    <3> QED
      BY <1>3, <3>1, <3>2
  <2>6. /\ ~e.inf /\ e.buf = << >> /\ e.elen = 0
        /\ e.q = q /\ e.sem = d.sem + 1 /\ e.free = d.free
    BY <1>1 DEF DriverState
  <2> HIDE DEF e
  <2>7. \A i \in DOMAIN e.q : Len(e.q[i]) \in MinLen..(cfg.framesize - 1)
    <3> SUFFICES ASSUME NEW i \in 1..(Len(d.q) + 1)
                 PROVE  Len(q[i]) \in MinLen..(cfg.framesize - 1)
      BY <2>4, <2>6, LenProperties
    <3>1. CASE i \in 1..Len(d.q)
      <4>1. i \in DOMAIN d.q /\ q[i] = d.q[i]
        BY <2>3, <2>4, <3>1, LenProperties
      <4> QED
        BY <1>4, <4>1 DEF Queued
    <3>2. CASE i = Len(d.q) + 1
      BY <1>1, <1>2, <1>6, <2>2, <2>4, <3>2 DEF MinLen, Ended
    <3> QED
      BY <2>3, <3>1, <3>2
  <2>8. e.sem >= Len(e.q)
    <3>1. d.sem >= Len(d.q) /\ d.sem \in Nat
      BY <1>1, <1>4 DEF Queued, DriverState
    <3> QED
      BY <2>3, <2>4, <2>6, <3>1
  <2>9. e.free + Len(e.q) + 0 = cfg.pool
    <3>1. d.free + Len(d.q) + 1 = cfg.pool /\ d.free \in Nat
      BY <1>1, <1>4 DEF Queued, DriverState
    <3>2. e.free + Len(e.q) + 0 = d.free + (Len(d.q) + 1) + 0
      BY <2>4, <2>6
    <3>3. ASSUME NEW a \in Nat, NEW k \in Nat
          PROVE  a + (k + 1) + 0 = a + k + 1
      OBVIOUS
    <3>4. d.free + (Len(d.q) + 1) + 0 = d.free + Len(d.q) + 1
      BY <2>3, <3>1, <3>3
    <3> QED
      BY <3>1, <3>2, <3>4
  <2>10. Queued(e)
    BY <2>5, <2>6, <2>7, <2>8, <2>9 DEF Queued
  <2> QED
    BY <2>1, <2>6, <2>10, NewFrameKeeps
<1> QED
  BY <1>1, <1>5, <1>6 DEF MinLen

\* An FFF of one octet sizes a transfer that ends inside the buffer.
LEMMA Type0Keeps ==
  ASSUME cfg \in Configs, NEW d, Ended(d), d.elen = 0
  PROVE  Queued(Type0(d)) /\ Tracked(Type0(d))
<1>1. Queued(d) /\ d.inf /\ Len(d.buf) = 1
  BY DEF Ended
<1>2. d.buf[1] \in Nat
  <2>1. 1 \in 1..(d.elen + 1)
    OBVIOUS
  <2>2. \A i \in 1..(d.elen + 1) : d.buf[i] \in 0..255
    BY EndedType
  <2>3. d.buf[1] \in 0..255
    BY <2>1, <2>2
  <2> QED
    BY <2>3
<1>3. CASE d.buf[1] \in 1..127 /\ d.buf[1] < cfg.framesize
  <2>1. Type0(d) = Arm(d, d.buf[1], d.buf[1])
    BY <1>3 DEF Type0
  <2> DEFINE n == d.buf[1]
  <2>2. n \in Nat /\ Len(d.buf) + n = n + 1 /\ n < cfg.framesize /\ n # 0
    BY <1>1, <1>2, <1>3
  <2> HIDE DEF n
  <2>3. Queued(Arm(d, n, n)) /\ Tracked(Arm(d, n, n))
    BY <1>1, <2>2, ArmKeeps
  <2> QED
    BY <2>1, <2>3 DEF n
<1>4. CASE ~(d.buf[1] \in 1..127 /\ d.buf[1] < cfg.framesize)
  BY <1>1, <1>4, DiscardKeeps DEF Type0
<1> QED
  BY <1>3, <1>4

\* The first octet of an FFF of two leaves room for the second.
LEMMA Type1FirstKeeps ==
  ASSUME cfg \in Configs, NEW d, Ended(d), d.elen = 0
  PROVE  Queued(Type1First(d)) /\ Tracked(Type1First(d))
<1>1. Queued(d) /\ d.inf /\ Len(d.buf) = 1
  BY DEF Ended
<1>2. cfg.framesize \in Nat /\ cfg.framesize >= 3
  BY ConfigsRoom
<1>3. CASE d.buf[1] \div 16 = 8
  <2>1. Type1First(d) = Arm(d, 1, 1)
    BY <1>3 DEF Type1First
  <2>2. Len(d.buf) + 1 = 1 + 1 /\ 1 < cfg.framesize
    BY <1>1, <1>2
  <2>3. Queued(Arm(d, 1, 1)) /\ Tracked(Arm(d, 1, 1))
    <3>1. 1 \in Nat /\ (1 = 0 => cfg.fff = 2 /\ 1 = 1)
      OBVIOUS
    <3> QED
      BY <1>1, <2>2, <3>1, ArmKeeps
  <2> QED
    BY <2>1, <2>3
<1>4. CASE ~(d.buf[1] \div 16 = 8)
  BY <1>1, <1>4, DiscardKeeps DEF Type1First
<1> QED
  BY <1>3, <1>4

\* Its second octet is already in the buffer and is not awaited again.
LEMMA Type1SecondKeeps ==
  ASSUME cfg \in Configs, cfg.fff = 2, NEW d, Ended(d), d.elen = 1
  PROVE  Queued(Type1Second(d)) /\ Tracked(Type1Second(d))
<1> DEFINE n == (d.buf[1] % 16) * 256 + d.buf[2]
<1>1. Queued(d) /\ d.inf /\ Len(d.buf) = 2
  BY DEF Ended
<1>2. n \in Nat
  <2>1. d.buf[1] \in 0..255 /\ d.buf[2] \in 0..255
    <3>1. 1 \in 1..(d.elen + 1) /\ 2 \in 1..(d.elen + 1)
      OBVIOUS
    <3> QED
      BY <3>1, EndedType
  <2>2. ASSUME NEW a \in 0..255, NEW b \in 0..255
        PROVE  (a % 16) * 256 + b \in Nat
    <3>1. a % 16 \in 0..15
      OBVIOUS
    <3>2. ASSUME NEW h \in 0..15 PROVE h * 256 + b \in Nat
      OBVIOUS
    <3> QED
      BY <3>1, <3>2
  <2> QED
    BY <2>1, <2>2
<1>3. Type1Second(d) = IF n # 0 /\ n < cfg.framesize THEN Arm(d, n, n - 1)
                                                     ELSE Discard(d)
  BY DEF Type1Second
<1> HIDE DEF n
<1>4. CASE n # 0 /\ n < cfg.framesize
  <2>1. /\ n - 1 \in Nat /\ Len(d.buf) + (n - 1) = n + 1
        /\ n - 1 = 0 => n = 1
    BY <1>1, <1>2, <1>4
  <2>2. Queued(Arm(d, n, n - 1)) /\ Tracked(Arm(d, n, n - 1))
    BY <1>1, <1>2, <1>4, <2>1, ArmKeeps
  <2> QED
    BY <1>3, <1>4, <2>2
<1>5. CASE ~(n # 0 /\ n < cfg.framesize)
  BY <1>1, <1>3, <1>5, DiscardKeeps
<1> QED
  BY <1>4, <1>5

\* One more octet is awaited only where there is room for it.
LEMMA AccumulateKeeps ==
  ASSUME cfg \in Configs, NEW d, Ended(d)
  PROVE  Queued(Accumulate(d)) /\ Tracked(Accumulate(d))
<1>1. Queued(d) /\ d.inf /\ Len(d.buf) = d.elen + 1 /\ d.elen \in Nat
  BY EndedType DEF Ended
<1>2. cfg.framesize \in Nat
  BY ConfigsRoom
<1>3. CASE d.elen + 1 >= cfg.framesize
  BY <1>1, <1>3, DiscardKeeps DEF Accumulate
<1>4. CASE ~(d.elen + 1 >= cfg.framesize)
  <2>1. Accumulate(d) = Arm(d, d.elen + 1, 1)
    BY <1>4 DEF Accumulate
  <2> DEFINE m == d.elen + 1
  <2>2. m \in Nat /\ Len(d.buf) + 1 = m + 1 /\ m < cfg.framesize
    BY <1>1, <1>2, <1>4
  <2> HIDE DEF m
  <2>3. Queued(Arm(d, m, 1)) /\ Tracked(Arm(d, m, 1))
    BY <1>1, <2>2, ArmKeeps
  <2> QED
    BY <2>1, <2>3 DEF m
<1> QED
  BY <1>3, <1>4

\* s_on_rx at the end of a transfer into a frame.
LEMMA InFrameKeeps ==
  ASSUME cfg \in Configs, NEW d, Ended(d)
  PROVE  Queued(InFrame(d)) /\ Tracked(InFrame(d))
<1>1. d.elen \in Nat /\ cfg.fff \in 0..2
  BY EndedType, ConfigsRoom
<1>2. CASE IsClosing(d)
  BY <1>2, ClosingFlagKeeps DEF InFrame
<1>3. CASE ~IsClosing(d) /\ cfg.fff = 1 /\ d.elen = 0
  <2>1. InFrame(d) = Type0(d)
    BY <1>3 DEF InFrame
  <2> QED
    BY <1>3, <2>1, Type0Keeps
<1>4. CASE ~IsClosing(d) /\ cfg.fff = 2 /\ d.elen = 0
  <2>1. InFrame(d) = Type1First(d)
    BY <1>4 DEF InFrame
  <2> QED
    BY <1>4, <2>1, Type1FirstKeeps
<1>5. CASE ~IsClosing(d) /\ cfg.fff = 2 /\ d.elen = 1
  <2>1. InFrame(d) = Type1Second(d)
    BY <1>5 DEF InFrame
  <2> QED
    BY <1>5, <2>1, Type1SecondKeeps
<1>6. CASE /\ ~IsClosing(d) /\ ~(cfg.fff = 1 /\ d.elen = 0)
           /\ ~(cfg.fff = 2 /\ d.elen = 0) /\ ~(cfg.fff = 2 /\ d.elen = 1)
  <2>1. InFrame(d) = Accumulate(d)
    BY <1>6 DEF InFrame
  <2> QED
    BY <2>1, AccumulateKeeps
<1> QED
  BY <1>2, <1>3, <1>4, <1>5, <1>6

\* An octet arrives: between frames it is staged, in a frame it counts down the
\* transfer.
LEMMA ReceiveKeeps ==
  ASSUME cfg \in Configs, NEW d, Queued(d), Tracked(d), NEW o \in Octets
  PROVE  Queued(Receive(d, o)) /\ Tracked(Receive(d, o))
<1>1. d \in DriverState
  BY DEF Queued
<1>2. CASE ~d.up
  BY <1>2 DEF Receive
<1>3. CASE d.up /\ ~d.inf
  <2> DEFINE e == [d EXCEPT !.stage = o]
  <2>1. Receive(d, o) = NewFrame(e)
    BY <1>3 DEF Receive
  <2>2. e \in DriverState
    BY <1>1 DEF DriverState
  <2>3. /\ e.inf = d.inf /\ e.buf = d.buf /\ e.elen = d.elen
        /\ e.q = d.q /\ e.sem = d.sem /\ e.free = d.free
    BY <1>1 DEF DriverState
  <2> HIDE DEF e
  <2>4. Queued(e)
    BY <2>2, <2>3 DEF Queued
  <2>5. ~e.inf /\ e.buf = << >> /\ e.elen = 0
    BY <1>3, <2>3 DEF Tracked
  <2> QED
    BY <2>1, <2>4, <2>5, NewFrameKeeps
<1>4. CASE d.up /\ d.inf /\ d.n = 0
  <2>1. Receive(d, o) = d
    BY <1>4 DEF Receive
  <2> QED
    BY <2>1
<1>5. CASE d.up /\ d.inf /\ d.n > 0
  <2> DEFINE s == Append(d.buf, o)
             e == [d EXCEPT !.buf = s, !.n = @ - 1]
  <2>1. Receive(d, o) = IF e.n = 0 THEN InFrame(e) ELSE e
    BY <1>1, <1>5 DEF Receive, DriverState
  <2>2. d.buf \in Seq(Octets) /\ d.n \in Nat /\ d.elen \in Nat
    BY <1>1 DEF DriverState
  <2>3. Len(d.buf) \in Nat
    BY <2>2, LenProperties
  <2>4. s \in Seq(Octets) /\ Len(s) = Len(d.buf) + 1
    BY <2>2, AppendProperties
  <2> HIDE DEF s
  <2>5. e \in DriverState
    <3>1. ASSUME NEW k \in Nat
          PROVE  [d EXCEPT !.buf = s, !.n = k] \in DriverState
      BY <1>1, <2>4 DEF DriverState
    <3>2. d.n - 1 \in Nat
      BY <1>5, <2>2
    <3> QED
      BY <3>1, <3>2
  <2>6. /\ e.inf = d.inf /\ e.buf = s /\ e.n = d.n - 1 /\ e.elen = d.elen
        /\ e.q = d.q /\ e.sem = d.sem /\ e.free = d.free
    BY <1>1 DEF DriverState
  <2> HIDE DEF e
  <2>7. Queued(e)
    BY <2>5, <2>6 DEF Queued
  <2>8. Len(d.buf) + d.n = d.elen + 1 /\ d.elen < cfg.framesize
    BY <1>5 DEF Tracked
  <2>9. Len(e.buf) + e.n = e.elen + 1 /\ e.elen < cfg.framesize
    <3>1. ASSUME NEW a \in Nat, NEW k \in Nat
          PROVE  (a + 1) + (k - 1) = a + k
      OBVIOUS
    <3>2. Len(e.buf) + e.n = (Len(d.buf) + 1) + (d.n - 1)
      BY <2>4, <2>6
    <3> QED
      BY <2>2, <2>3, <2>6, <2>8, <3>1, <3>2
  <2>10. CASE e.n = 0
    <3>1. Len(e.buf) = e.elen + 1
      BY <2>2, <2>3, <2>4, <2>6, <2>9, <2>10
    <3>2. Ended(e)
      BY <1>5, <2>6, <2>7, <2>9, <2>10, <3>1 DEF Ended
    <3> QED
      BY <2>1, <2>10, <3>2, InFrameKeeps
  <2>11. CASE e.n # 0
    <3>1. Tracked(e)
      BY <1>5, <2>6, <2>9, <2>11 DEF Tracked
    <3> QED
      BY <2>1, <2>7, <2>11, <3>1
  <2> QED
    BY <2>10, <2>11
<1> QED
  <2>1. d.n \in Nat
    BY <1>1 DEF DriverState
  <2> QED
    BY <1>2, <1>3, <1>4, <1>5, <2>1

\* The line falls silent: inside a frame the frame is given up, elsewhere the
\* RX thread gets a permit.
LEMMA TimeoutKeeps ==
  ASSUME cfg \in Configs, NEW d, Queued(d), Tracked(d)
  PROVE  Queued(Timeout(d)) /\ Tracked(Timeout(d))
<1>1. d \in DriverState
  BY DEF Queued
<1>2. CASE d.inf /\ d.elen # 0
  BY <1>2, DiscardKeeps DEF Timeout
<1>3. CASE ~(d.inf /\ d.elen # 0)
  <2> DEFINE e == [d EXCEPT !.sem = @ + 1]
  <2>1. Timeout(d) = e
    BY <1>3 DEF Timeout
  <2>2. e \in DriverState
    <3>1. ASSUME NEW k \in Nat PROVE [d EXCEPT !.sem = k] \in DriverState
      BY <1>1 DEF DriverState
    <3>2. d.sem + 1 \in Nat
      BY <1>1 DEF DriverState
    <3> QED
      BY <3>1, <3>2
  <2>3. /\ e.inf = d.inf /\ e.buf = d.buf /\ e.elen = d.elen /\ e.n = d.n
        /\ e.q = d.q /\ e.sem = d.sem + 1 /\ e.free = d.free
    BY <1>1 DEF DriverState
  <2> HIDE DEF e
  <2>4. e.sem >= Len(e.q)
    <3>1. Len(d.q) \in Nat /\ d.sem \in Nat
      BY <1>1, LenProperties DEF DriverState
    <3>2. d.sem >= Len(d.q)
      BY DEF Queued
    <3> QED
      BY <2>3, <3>1, <3>2
  <2>5. Queued(e)
    BY <2>2, <2>3, <2>4 DEF Queued
  <2>6. Tracked(e)
    BY <2>3 DEF Tracked
  <2> QED
    BY <2>1, <2>5, <2>6
<1> QED
  BY <1>2, <1>3

\* The RX thread uses up a permit and takes a frame if there is one.
LEMMA TakeOneKeeps ==
  ASSUME NEW d, Queued(d), Tracked(d), d.sem > 0
  PROVE  Queued(TakeOne(d)) /\ Tracked(TakeOne(d))
<1>1. d \in DriverState
  BY DEF Queued
<1>2. d.sem \in Nat /\ d.free \in Nat /\ d.q \in Seq(Seq(Octets))
  BY <1>1 DEF DriverState
<1>3. Len(d.q) \in Nat /\ d.sem >= Len(d.q)
  BY <1>2, LenProperties DEF Queued
<1>4. d.sem - 1 \in Nat
  BY <1>2
<1>5. CASE d.q = << >>
  <2> DEFINE e == [d EXCEPT !.sem = @ - 1]
  <2>1. TakeOne(d) = e
    BY <1>5 DEF TakeOne
  <2>2. e \in DriverState
    <3>1. ASSUME NEW k \in Nat PROVE [d EXCEPT !.sem = k] \in DriverState
      BY <1>1 DEF DriverState
    <3> QED
      BY <1>4, <3>1
  <2>3. /\ e.inf = d.inf /\ e.buf = d.buf /\ e.elen = d.elen /\ e.n = d.n
        /\ e.q = d.q /\ e.sem = d.sem - 1 /\ e.free = d.free
    BY <1>1 DEF DriverState
  <2> HIDE DEF e
  <2>4. Len(e.q) = 0
    BY <1>5, <2>3
  <2>5. Queued(e)
    BY <1>4, <2>2, <2>3, <2>4 DEF Queued
  <2>6. Tracked(e)
    BY <2>3 DEF Tracked
  <2> QED
    BY <2>1, <2>5, <2>6
<1>6. CASE d.q # << >>
  <2> DEFINE q == Tail(d.q)
             e == [d EXCEPT !.sem = @ - 1, !.q = q, !.free = @ + 1]
  <2>1. TakeOne(d) = e
    BY <1>6 DEF TakeOne
  <2>2. /\ q \in Seq(Seq(Octets)) /\ Len(q) = Len(d.q) - 1
        /\ \A i \in 1..Len(q) : q[i] = d.q[i + 1]
    BY <1>2, <1>6, HeadTailProperties
  <2> HIDE DEF q
  <2>3. e \in DriverState
    <3>1. ASSUME NEW k \in Nat, NEW m \in Nat
          PROVE  [d EXCEPT !.sem = k, !.q = q, !.free = m] \in DriverState
      BY <1>1, <2>2 DEF DriverState
    <3>2. d.free + 1 \in Nat
      BY <1>2
    <3> QED
      BY <1>4, <3>1, <3>2
  <2>4. /\ e.inf = d.inf /\ e.buf = d.buf /\ e.elen = d.elen /\ e.n = d.n
        /\ e.q = q /\ e.sem = d.sem - 1 /\ e.free = d.free + 1
    BY <1>1 DEF DriverState
  <2> HIDE DEF e
  <2>5. \A i \in DOMAIN e.q : Len(e.q[i]) \in MinLen..(cfg.framesize - 1)
    <3> SUFFICES ASSUME NEW i \in 1..Len(q)
                 PROVE  Len(q[i]) \in MinLen..(cfg.framesize - 1)
      BY <2>2, <2>4, LenProperties
    <3>1. i + 1 \in DOMAIN d.q
      BY <1>2, <1>3, <2>2, LenProperties
    <3>2. q[i] = d.q[i + 1]
      BY <2>2
    <3> QED
      BY <3>1, <3>2 DEF Queued
  <2>6. e.sem >= Len(e.q)
    BY <1>2, <1>3, <2>2, <2>4
  <2>7. e.free + Len(e.q) = d.free + Len(d.q)
    <3>1. ASSUME NEW a \in Nat, NEW k \in Nat PROVE (a + 1) + (k - 1) = a + k
      OBVIOUS
    <3> QED
      BY <1>2, <1>3, <2>2, <2>4, <3>1
  <2>8. Queued(e)
    BY <2>3, <2>4, <2>5, <2>6, <2>7 DEF Queued
  <2>9. Tracked(e)
    BY <2>4 DEF Tracked
  <2> QED
    BY <2>1, <2>8, <2>9
<1> QED
  BY <1>5, <1>6

\* After a start the pool is full, and nothing is queued or awaited but the
\* first flag.
LEMMA FreshKeeps ==
  ASSUME cfg \in Configs
  PROVE  /\ Queued(Fresh) /\ Tracked(Fresh)
         /\ Queued([Fresh EXCEPT !.up = FALSE])
         /\ Tracked([Fresh EXCEPT !.up = FALSE])
<1>1. cfg.pool \in Nat
  BY ConfigsRoom
<1>2. << >> \in Seq(Octets) /\ << >> \in Seq(Seq(Octets)) /\ Len(<< >>) = 0
  BY EmptySeq
<1>3. Fresh \in DriverState
  <2>1. ASSUME NEW s \in Seq(Octets), NEW q \in Seq(Seq(Octets))
        PROVE  [up |-> TRUE, inf |-> FALSE, buf |-> s, elen |-> 0, n |-> 1,
                stage |-> 0, free |-> cfg.pool, q |-> q, sem |-> 0,
                idle |-> FALSE, miss |-> FALSE] \in DriverState
    BY <1>1, ZeroOctet DEF DriverState
  <2> QED
    BY <1>2, <2>1 DEF Fresh
<1>4. /\ ~Fresh.inf /\ Fresh.buf = << >> /\ Fresh.elen = 0 /\ Fresh.n = 1
      /\ Fresh.q = << >> /\ Fresh.sem = 0 /\ Fresh.free = cfg.pool
  BY DEF Fresh
<1>5. ASSUME NEW e \in DriverState,
             ~e.inf, e.buf = << >>, e.elen = 0, e.n = 1, e.q = << >>,
             e.sem = 0, e.free = cfg.pool
      PROVE  Queued(e) /\ Tracked(e)
  <2>1. DOMAIN e.q = {}
    BY <1>2, <1>5, LenProperties
  <2>2. e.free + Len(e.q) + 0 = cfg.pool /\ e.sem >= Len(e.q)
    BY <1>1, <1>2, <1>5
  <2>3. Queued(e)
    BY <1>5, <2>1, <2>2 DEF Queued
  <2>4. Tracked(e)
    BY <1>5 DEF Tracked
  <2> QED
    BY <2>3, <2>4
<1>6. Queued(Fresh) /\ Tracked(Fresh)
  BY <1>3, <1>4, <1>5
<1> DEFINE e == [Fresh EXCEPT !.up = FALSE]
<1>7. e \in DriverState
  BY <1>3 DEF DriverState
<1>8. /\ ~e.inf /\ e.buf = << >> /\ e.elen = 0 /\ e.n = 1 /\ e.q = << >>
      /\ e.sem = 0 /\ e.free = cfg.pool
  BY <1>3, <1>4 DEF DriverState
<1> HIDE DEF e
<1>9. Queued(e) /\ Tracked(e)
  BY <1>5, <1>7, <1>8
<1> QED
  BY <1>6, <1>9 DEF e

-----------------------------------------------------------------------------
(***************************************************************************)
(* The theorems.                                                           *)
(***************************************************************************)
\* A record that differs in idle only.
LEMMA IdleKeeps ==
  ASSUME NEW d, Queued(d), Tracked(d), NEW b \in BOOLEAN
  PROVE  Queued([d EXCEPT !.idle = b]) /\ Tracked([d EXCEPT !.idle = b])
<1> DEFINE e == [d EXCEPT !.idle = b]
<1>1. d \in DriverState
  BY DEF Queued
<1>2. e \in DriverState
  BY <1>1 DEF DriverState
<1>3. /\ e.inf = d.inf /\ e.buf = d.buf /\ e.elen = d.elen /\ e.n = d.n
      /\ e.q = d.q /\ e.sem = d.sem /\ e.free = d.free
  BY <1>1 DEF DriverState
<1> HIDE DEF e
<1>4. Queued(e)
  BY <1>2, <1>3 DEF Queued
<1>5. Tracked(e)
  BY <1>3 DEF Tracked
<1> QED
  BY <1>4, <1>5 DEF e

\* Every callback and every call of the RX thread keeps the invariant, for any
\* octets from the line.
LEMMA StepKeeps ==
  ASSUME RxIInv, [RxNext]_receiver
  PROVE  RxIInv'
<1>1. cfg \in Configs /\ Queued(drv) /\ Tracked(drv)
  BY DEF RxIInv
<1>2. CASE UNCHANGED receiver
  BY <1>1, <1>2 DEF RxIInv, receiver, Queued, Tracked
<1> SUFFICES ASSUME RxNext PROVE RxIInv'
  BY <1>2
<1>3. cfg' = cfg
  BY DEF RxNext, RxOctet, RxError, RxIdle, RxTake, RxStop, RxStart
<1>4. SUFFICES ASSUME NEW d, drv' = d PROVE Queued(d) /\ Tracked(d)
  BY <1>1, <1>3 DEF RxIInv, Queued, Tracked
<1>5. CASE \E o \in Octets : RxOctet(o)
  <2>1. PICK o \in Octets : drv' = [Receive(drv, o) EXCEPT !.idle = FALSE]
    BY <1>5 DEF RxOctet
  <2> QED
    BY <1>1, <1>4, <2>1, ReceiveKeeps, IdleKeeps
<1>6. CASE RxError
  BY <1>1, <1>4, <1>6, DiscardKeeps DEF RxError
<1>7. CASE RxIdle
  <2>1. d = [Timeout(drv) EXCEPT !.idle = TRUE]
    BY <1>4, <1>7 DEF RxIdle
  <2> QED
    BY <1>1, <2>1, TimeoutKeeps, IdleKeeps
<1>8. CASE RxTake
  BY <1>1, <1>4, <1>8, TakeOneKeeps DEF RxTake
<1>9. CASE RxStop
  BY <1>1, <1>4, <1>9, FreshKeeps DEF RxStop
<1>10. CASE RxStart
  BY <1>1, <1>4, <1>10, FreshKeeps DEF RxStart
<1> QED
  BY <1>5, <1>6, <1>7, <1>8, <1>9, <1>10 DEF RxNext

\* The inductive invariant holds in every behaviour of the receive side.
THEOREM RxInvariance == RxSpec => []RxIInv
<1>1. RxInit => RxIInv
  BY FreshKeeps DEF RxInit, RxIInv
<1>2. RxIInv /\ [RxNext]_receiver => RxIInv'
  BY StepKeeps
<1> QED
  BY <1>1, <1>2, PTL DEF RxSpec

\* For every accepted configuration and any octets: no transfer is armed
\* beyond the frame buffer, the flag is looked for in the octet that came
\* last, a transfer of no octets comes from an FFF of two that declares a
\* length of 1 and from nothing else, and every frame delivered has a legal
\* length.
THEOREM TransfersInBounds == RxSpec => []InBounds
<1>1. RxIInv => InBounds
  BY DEF RxIInv, Queued, Tracked, InBounds
<1> QED
  BY <1>1, RxInvariance, PTL

\* The types of the receive side.
THEOREM ReceiverTyped == RxSpec => []RxTypeOK
<1>1. RxIInv => RxTypeOK
  BY DEF RxIInv, Queued, RxTypeOK
<1> QED
  BY <1>1, RxInvariance, PTL

\* A delivered frame never waits without a permit, and no frame of the pool is
\* lost or given back twice, whatever the line does and whenever the station
\* is taken down.
THEOREM FramesAccounted == RxSpec => []Accounted
<1>1. RxIInv => Accounted
  BY DEF RxIInv, Queued, Accounted
<1> QED
  BY <1>1, RxInvariance, PTL

\* An accepted FCS size is never left to a function that cannot handle it.
THEOREM FcsAlwaysHandled == RxSpec => []FcsHandled
<1>1. ASSUME cfg \in Configs PROVE FcsHandled
  <2>1. cfg.tr \in BOOLEAN
    BY <1>1, ConfigsRoom
  <2> SUFFICES ASSUME NEW b \in Backends, NEW port \in Ports,
                      NEW fcs \in {0, 2, 4}, Accepts(b, fcs, cfg.tr, cfg.fff)
               PROVE  LET y == FcsPolicy(b, port, [cfg EXCEPT !.fcs = fcs])
                      IN  /\ "sw" \in {y.check, y.compute} => fcs = 2
                          /\ y.defer => ~cfg.tr /\ fcs \in port.offload
    BY DEF FcsHandled
  <2>2. PICK k \in PoolSizes, x \in Backends \X Options :
            cfg = Configured(x[1], x[2], k)
    BY <1>1 DEF Configs
  <2> DEFINE c == [cfg EXCEPT !.fcs = fcs]
  <2>3. c.fcs = fcs /\ c.tr = cfg.tr
    BY <2>2 DEF Configured
  <2> HIDE DEF c
  <2>4. fcs \in BaseSizes \/ (b.check /\ b.compute /\ fcs \in b.sizes)
    BY DEF Accepts, FcsCaps
  <2>5. CASE fcs = 0
    <3>1. FcsPolicy(b, port, c) =
            [check |-> "none", compute |-> "none", defer |-> FALSE]
      BY <2>3, <2>5 DEF FcsPolicy
    <3> QED
      BY <3>1 DEF c
  <2>6. CASE fcs # 0
    <3> DEFINE y == FcsPolicy(b, port, c)
    <3>1. /\ y.check = IF b.check /\ fcs \in b.sizes THEN "backend" ELSE "sw"
          /\ y.compute = IF b.compute /\ fcs \in b.sizes THEN "backend" ELSE "sw"
          /\ y.defer = (~cfg.tr /\ ~port.contig /\ fcs \in port.offload)
      BY <2>3, <2>6 DEF FcsPolicy
    <3> HIDE DEF y
    <3>2. "sw" \in {y.check, y.compute} => fcs = 2
      BY <2>4, <2>6, <3>1 DEF BaseSizes
    <3>3. y.defer => ~cfg.tr /\ fcs \in port.offload
      BY <3>1
    <3> QED
      BY <3>2, <3>3 DEF y, c
  <2> QED
    BY <2>5, <2>6
<1>2. RxIInv => FcsHandled
  BY <1>1 DEF RxIInv
<1> QED
  BY <1>2, RxInvariance, PTL
=============================================================================
