------------------------- MODULE HdlcStreamIOProofs -------------------------
(***************************************************************************)
(* The reference counts of the pool balance, a frame is committed to the   *)
(* driver once at a time, and the streams of two connections never mix,    *)
(* for every pool, window, write and read size: proofs of the invariants   *)
(* of HdlcStreamIO.                                                        *)
(***************************************************************************)
EXTENDS HdlcStreamIO, FiniteSetTheorems, SequenceTheorems, TLAPS

-----------------------------------------------------------------------------
(* Counting the places of a frame in a queue.                              *)

\* The places of f in a queue.
Places(f, q) == {i \in 1..Len(q) : q[i] = f}

\* The places of a frame are finitely many.
LEMMA PlacesFinite ==
    ASSUME NEW q \in Seq(Frames), NEW f
    PROVE  IsFiniteSet(Places(f, q)) /\ Count(f, q) \in Nat
<1>1. Places(f, q) \in SUBSET (1..Len(q))
  BY DEF Places
<1>2. IsFiniteSet(1..Len(q))
  <2>1. 1 \in Int /\ Len(q) \in Int
    OBVIOUS
  <2>. QED BY <2>1, FS_Interval
<1>3. IsFiniteSet(Places(f, q))
  BY <1>1, <1>2, FS_Subset
<1>. QED BY <1>3, FS_CardinalityType DEF Count, Places

\* No frame has a place in an empty queue.
LEMMA CountEmpty ==
    ASSUME NEW f
    PROVE  Count(f, <<>>) = 0
<1>1. {i \in 1..Len(<<>>) : <<>>[i] = f} = {}
  OBVIOUS
<1>. QED BY <1>1, FS_EmptySet DEF Count

\* A frame is in a queue when it has a place there.
LEMMA CountMember ==
    ASSUME NEW q \in Seq(Frames), NEW f
    PROVE  f \in ToSet(q) <=> Count(f, q) >= 1
<1>1. f \in ToSet(q) <=> Places(f, q) # {}
  BY DEF ToSet, Places
<1>2. Count(f, q) = 0 <=> Places(f, q) = {}
  BY PlacesFinite, FS_EmptySet DEF Count, Places
<1>. QED BY <1>1, <1>2, PlacesFinite

\* The frames of a queue.
LEMMA ToSetFrames ==
    ASSUME NEW q \in Seq(Frames)
    PROVE  ToSet(q) \in SUBSET Frames
BY DEF ToSet

\* The places in a concatenation.
LEMMA CountConcat ==
    ASSUME NEW q \in Seq(Frames), NEW r \in Seq(Frames), NEW f
    PROVE  Count(f, q \o r) = Count(f, q) + Count(f, r)
<1>. DEFINE A == Places(f, q)
            B == {i \in (Len(q) + 1)..(Len(q) + Len(r)) : (q \o r)[i] = f}
            F == [i \in Places(f, r) |-> i + Len(q)]
<1>1. Len(q) \in Nat /\ Len(r) \in Nat /\ Len(q \o r) = Len(q) + Len(r)
  OBVIOUS
<1>2. \A i \in 1..(Len(q) + Len(r)) :
         (q \o r)[i] = IF i <= Len(q) THEN q[i] ELSE r[i - Len(q)]
  BY ConcatProperties
<1>3. Places(f, q \o r) = A \cup B
  BY <1>1, <1>2 DEF Places
<1>4. A \cap B = {}
  BY <1>1 DEF Places
<1>5. F \in Bijection(Places(f, r), B)
  <2>1. F \in [Places(f, r) -> B]
    BY <1>1, <1>2 DEF Places
  <2>2. \A i, j \in Places(f, r) : F[i] = F[j] => i = j
    BY <1>1 DEF Places
  <2>3. \A b \in B : \E i \in Places(f, r) : F[i] = b
    <3>. SUFFICES ASSUME NEW b \in B PROVE \E i \in Places(f, r) : F[i] = b
      OBVIOUS
    <3>1. b - Len(q) \in Places(f, r) /\ b = (b - Len(q)) + Len(q)
      BY <1>1, <1>2 DEF Places
    <3>. QED BY <3>1
  <2>. QED BY <2>1, <2>2, <2>3 DEF Bijection, Injection, Surjection, IsInjective
<1>6. IsFiniteSet(B) /\ Cardinality(B) = Cardinality(Places(f, r))
  <2>. HIDE DEF F, B
  <2>1. ExistsBijection(Places(f, r), B)
    BY <1>5 DEF ExistsBijection
  <2>. QED BY <2>1, PlacesFinite, FS_Bijection
<1>7. Cardinality(A \cup B) = Cardinality(A) + Cardinality(B) - Cardinality(A \cap B)
  BY <1>6, PlacesFinite, FS_Union
<1>8. Cardinality(A) \in Nat /\ Cardinality(B) \in Nat
  BY <1>6, PlacesFinite, FS_CardinalityType
<1>9. /\ Count(f, q) = Cardinality(A)
      /\ Count(f, r) = Cardinality(Places(f, r))
      /\ Count(f, q \o r) = Cardinality(Places(f, q \o r))
  BY DEF Count, Places
<1>10. Cardinality(A \cap B) = 0
  BY <1>4, FS_EmptySet
<1>. HIDE DEF A, B
<1>. QED BY <1>3, <1>6, <1>7, <1>8, <1>9, <1>10

\* The place in a queue of one frame.
LEMMA CountOne ==
    ASSUME NEW g \in Frames, NEW f
    PROVE  Count(f, <<g>>) = Holds(f, g)
<1>1. {i \in 1..Len(<<g>>) : <<g>>[i] = f} = IF g = f THEN {1} ELSE {}
  OBVIOUS
<1>. QED BY <1>1, FS_EmptySet, FS_Singleton DEF Count, Holds

\* A frame more at the end.
LEMMA CountAppend ==
    ASSUME NEW q \in Seq(Frames), NEW g \in Frames, NEW f
    PROVE  Count(f, Append(q, g)) = Count(f, q) + Holds(f, g)
<1>1. <<g>> \in Seq(Frames) /\ Append(q, g) = q \o <<g>>
  OBVIOUS
<1>2. Count(f, q \o <<g>>) = Count(f, q) + Count(f, <<g>>)
  BY <1>1, CountConcat
<1>. QED BY <1>1, <1>2, CountOne

\* A frame less at the front.
LEMMA CountTail ==
    ASSUME NEW q \in Seq(Frames), q # <<>>, NEW f
    PROVE  /\ Head(q) \in Frames /\ Tail(q) \in Seq(Frames)
           /\ Count(f, q) = Holds(f, Head(q)) + Count(f, Tail(q))
<1>1. Head(q) \in Frames /\ Tail(q) \in Seq(Frames) /\ <<Head(q)>> \in Seq(Frames)
  OBVIOUS
<1>2. q = <<Head(q)>> \o Tail(q)
  OBVIOUS
<1>. QED BY <1>1, <1>2, CountConcat, CountOne

-----------------------------------------------------------------------------
(* The pool.                                                               *)

PoolType == [refs : [Frames -> Nat], low : BOOLEAN, born : [Frames -> Sessions]]

\* A pool in the normal state has more free frames than the low watermark.
WatermarkOK(pl) == ~pl.low => Cardinality(FreeFrames(pl)) > LowThreshold

\* The free frames can be counted.
LEMMA FreeFinite ==
    ASSUME NEW pl
    PROVE  IsFiniteSet(FreeFrames(pl)) /\ Cardinality(FreeFrames(pl)) \in Nat
<1>1. FreeFrames(pl) \in SUBSET Frames
  BY DEF FreeFrames
<1>2. IsFiniteSet(FreeFrames(pl))
  BY <1>1, PoolAssumption, FS_Subset
<1>. QED BY <1>2, FS_CardinalityType

\* A frame off the free list.
LEMMA TakeFacts ==
    ASSUME NEW pl \in PoolType, NEW f \in Frames
    PROVE  /\ Take(pl, f) \in PoolType
           /\ Take(pl, f).refs = [pl.refs EXCEPT ![f] = 1]
           /\ Take(pl, f).born = pl.born
           /\ WatermarkOK(Take(pl, f))
<1>. DEFINE q == [pl EXCEPT !.refs[f] = 1]
            c == Cardinality(FreeFrames(q))
<1>1. Take(pl, f) = [q EXCEPT !.low = @ \/ c <= LowThreshold]
  BY DEF Take, CheckLow
<1>2. q \in PoolType /\ q.refs = [pl.refs EXCEPT ![f] = 1] /\ q.born = pl.born
  BY DEF PoolType
<1>3. FreeFrames(Take(pl, f)) = FreeFrames(q)
  BY <1>1, <1>2 DEF FreeFrames, PoolType
<1>4. c \in Nat
  BY FreeFinite
<1>. HIDE DEF q, c
<1>5. ~Take(pl, f).low => ~(c <= LowThreshold)
  BY <1>1, <1>2 DEF PoolType
<1>6. WatermarkOK(Take(pl, f))
  BY <1>3, <1>4, <1>5, PoolAssumption DEF WatermarkOK, c
<1>. QED BY <1>1, <1>2, <1>6 DEF PoolType

\* A reference more to a frame in use, and a frame that enters a queue, leave
\* the free frames alone.
LEMMA AddRefFacts ==
    ASSUME NEW pl \in PoolType, NEW f \in Frames, pl.refs[f] >= 1, WatermarkOK(pl)
    PROVE  /\ AddRef(pl, f) \in PoolType
           /\ AddRef(pl, f).refs = [pl.refs EXCEPT ![f] = @ + 1]
           /\ AddRef(pl, f).born = pl.born
           /\ WatermarkOK(AddRef(pl, f))
<1>1. /\ AddRef(pl, f) \in PoolType
      /\ AddRef(pl, f).refs = [pl.refs EXCEPT ![f] = @ + 1]
      /\ AddRef(pl, f).born = pl.born
      /\ AddRef(pl, f).low = pl.low
  BY DEF AddRef, PoolType
<1>2. FreeFrames(AddRef(pl, f)) = FreeFrames(pl)
  BY <1>1 DEF FreeFrames, PoolType
<1>. QED BY <1>1, <1>2 DEF WatermarkOK

\* A frame that enters a queue gets the connection it belongs to, and no other change.
LEMMA QueuedFacts ==
    ASSUME NEW pl \in PoolType, NEW f \in Frames, NEW n \in Sessions, WatermarkOK(pl)
    PROVE  /\ Queued(pl, f, n) \in PoolType
           /\ Queued(pl, f, n).refs = pl.refs
           /\ Queued(pl, f, n).born = [pl.born EXCEPT ![f] = n]
           /\ WatermarkOK(Queued(pl, f, n))
<1>1. /\ Queued(pl, f, n) \in PoolType
      /\ Queued(pl, f, n).refs = pl.refs
      /\ Queued(pl, f, n).born = [pl.born EXCEPT ![f] = n]
      /\ Queued(pl, f, n).low = pl.low
  BY DEF Queued, PoolType
<1>2. FreeFrames(Queued(pl, f, n)) = FreeFrames(pl)
  BY <1>1 DEF FreeFrames
<1>. QED BY <1>1, <1>2 DEF WatermarkOK

\* One reference less to each frame of S.  A frame still in use keeps the
\* connection it belongs to.
LEMMA ReleaseFacts ==
    ASSUME NEW pl \in PoolType, NEW S \in SUBSET Frames, WatermarkOK(pl),
           \A f \in S : pl.refs[f] >= 1
    PROVE  /\ Release(pl, S) \in PoolType
           /\ \A f \in Frames :
                 /\ Release(pl, S).refs[f] = IF f \in S THEN pl.refs[f] - 1 ELSE pl.refs[f]
                 /\ Release(pl, S).refs[f] # 0 => Release(pl, S).born[f] = pl.born[f]
           /\ WatermarkOK(Release(pl, S))
<1>. DEFINE refs  == [f \in Frames |-> IF f \in S THEN pl.refs[f] - 1 ELSE pl.refs[f]]
            after == [pl EXCEPT !.refs = refs,
                                !.born = [f \in Frames |-> IF refs[f] = 0 THEN 0 ELSE @[f]]]
            c     == Cardinality(FreeFrames(after))
            born  == [f \in Frames |-> IF refs[f] = 0 THEN 0 ELSE pl.born[f]]
<1>1. /\ refs \in [Frames -> Nat]
      /\ \A f \in Frames : refs[f] = IF f \in S THEN pl.refs[f] - 1 ELSE pl.refs[f]
  BY DEF PoolType
<1>. HIDE DEF refs
<1>2. /\ born \in [Frames -> Sessions]
      /\ \A f \in Frames : refs[f] # 0 => born[f] = pl.born[f]
  BY <1>1, SizeAssumption DEF PoolType, Sessions
<1>3. after = [pl EXCEPT !.refs = refs, !.born = born]
  BY DEF PoolType
<1>. HIDE DEF born
<1>4. after \in PoolType /\ after.refs = refs /\ after.born = born /\ after.low = pl.low
  BY <1>1, <1>2, <1>3 DEF PoolType
<1>5. Release(pl, S) = IF \E f \in S : after.refs[f] = 0
                         THEN [after EXCEPT !.low = @ /\ c <= HighThreshold] ELSE after
  BY DEF Release, CheckHigh, refs
<1>. HIDE DEF after
<1>6. c \in Nat /\ Cardinality(FreeFrames(pl)) \in Nat
  BY FreeFinite
<1>7. FreeFrames(pl) \in SUBSET FreeFrames(after)
  BY <1>1, <1>4 DEF FreeFrames, PoolType
<1>8. Cardinality(FreeFrames(pl)) <= c
  BY <1>7, FreeFinite, FS_Subset
<1>. HIDE DEF c
<1>9. CASE \E f \in S : after.refs[f] = 0
  <2>1. /\ Release(pl, S) \in PoolType
        /\ Release(pl, S).refs = refs /\ Release(pl, S).born = born
        /\ ~Release(pl, S).low => (~pl.low \/ ~(c <= HighThreshold))
    BY <1>4, <1>5, <1>9 DEF PoolType
  <2>2. FreeFrames(Release(pl, S)) = FreeFrames(after)
    BY <1>4, <2>1 DEF FreeFrames
  <2>3. WatermarkOK(Release(pl, S))
    BY <2>1, <2>2, <1>6, <1>8, PoolAssumption DEF WatermarkOK, c
  <2>. QED BY <1>1, <1>2, <2>1, <2>3
<1>10. CASE ~ \E f \in S : after.refs[f] = 0
  <2>1. Release(pl, S) = after
    BY <1>5, <1>10
  <2>2. WatermarkOK(after)
    BY <1>4, <1>6, <1>8, PoolAssumption DEF WatermarkOK, c
  <2>. QED BY <1>1, <1>2, <1>4, <2>1, <2>2
<1>. QED BY <1>9, <1>10

-----------------------------------------------------------------------------
(* The inductive invariant.                                                *)

PeerType ==
    [conn : BOOLEAN, closed : {"none", "orderly", "aborted"}, sess : Sessions,
     trans : Seq(Frames), retrans : Seq(Frames), out : SUBSET Frames,
     pending : Nat, recept : Seq(Frames), partial : Frames \cup {None},
     offset : 0..(InfoLen - 1), sending : BOOLEAN,
     terminal : SUBSET {"orderly", "aborted", "txreset"}, busy : BOOLEAN]

WriterType ==
    [pc : {"idle", "loop", "wait", "copy", "done"}, left : Int,
     fp : Frames \cup {None}, sig : BOOLEAN, sess : Sessions]

ReaderType == [pc : {"idle", "run", "wait"}, want : Nat, got : Nat]

TxType == [pc : {"wait", "run", "gate"}, evt : BOOLEAN, fp : Frames \cup {None}]

Types ==
    /\ pool \in PoolType
    /\ peer \in PeerType
    /\ drv \in Seq(Frames)
    /\ infr \in Frames \cup {None}
    /\ w \in WriterType
    /\ rd \in ReaderType
    /\ tx \in TxType

\* Who holds f besides the driver's transmit queue: for the stream, a queue of
\* the peer, the frame read in part, or the TX thread at the gate; otherwise the
\* receiver or the writer.
Streamed(f) ==
    Count(f, peer.trans) + Count(f, peer.retrans) + Count(f, peer.recept)
    + Holds(f, peer.partial) + Holds(f, tx.fp)

Owned(f) == Streamed(f) + Holds(f, infr) + Holds(f, w.fp)

\* Each frame has at most one owner and is committed at most once; these are
\* its references.
Balanced ==
    \A f \in Frames :
       /\ pool.refs[f] = Owned(f) + Count(f, drv)
       /\ Owned(f) <= 1
       /\ Count(f, drv) <= 1

\* What the threads hold follows from where they are.
Roles ==
    /\ tx.fp # None <=> tx.pc = "gate"
    /\ w.fp # None <=> w.pc = "copy"
    /\ rd.pc # "idle" => rd.got < rd.want

\* A writer that is not told of a reset writes to the connection that admitted it.
Admitted ==
    /\ peer.sending \/ Reset => w.pc # "idle"
    /\ w.pc # "idle" /\ ~Reset =>
          peer.conn /\ peer.sending /\ w.sess = peer.sess

\* The frames of the stream belong to the connection.
OfSession ==
    /\ \A f \in Frames : Streamed(f) >= 1 => pool.born[f] = peer.sess
    /\ peer.pending = Len(peer.trans) + Len(peer.retrans)
                      + (IF tx.pc = "gate" THEN 1 ELSE 0)

IInv ==
    /\ Types
    /\ Balanced
    /\ Roles
    /\ Admitted
    /\ OfSession
    /\ WatermarkOK(pool)

-----------------------------------------------------------------------------
(* The initial state, and the steps that move no frame.                    *)

\* The inductive invariant holds before the first connection.
LEMMA InitIInv == Init => IInv
<1>. SUFFICES ASSUME Init PROVE IInv
  OBVIOUS
<1>. USE DEF Init
<1>1. Types
  BY SizeAssumption DEF Types, PoolType, PeerType, WriterType, ReaderType, TxType,
     IdleWriter, IdleReader, Sessions
<1>2. None \notin Frames
  BY PoolAssumption
<1>3. /\ peer.trans = <<>> /\ peer.retrans = <<>> /\ peer.recept = <<>>
      /\ peer.partial = None /\ tx.fp = None /\ infr = None /\ w.fp = None
      /\ drv = <<>> /\ \A f \in Frames : pool.refs[f] = 0
  BY DEF IdleWriter
<1>4. \A f \in Frames : Streamed(f) = 0 /\ Owned(f) = 0 /\ Count(f, drv) = 0
  BY <1>2, <1>3, CountEmpty DEF Streamed, Owned, Holds
<1>5. Balanced
  BY <1>3, <1>4 DEF Balanced
<1>6. Roles
  BY PoolAssumption DEF Roles, IdleWriter, IdleReader
<1>7. Admitted
  BY DEF Admitted, Reset, IdleWriter
<1>8. OfSession
  BY <1>4 DEF OfSession
<1>9. WatermarkOK(pool)
  <2>1. FreeFrames(pool) = Frames
    BY DEF FreeFrames
  <2>2. Cardinality(Frames) \in Nat
    BY PoolAssumption, FS_CardinalityType
  <2>. QED BY <2>1, <2>2, PoolAssumption DEF WatermarkOK
<1>. QED BY <1>1, <1>5, <1>6, <1>7, <1>8, <1>9 DEF IInv

\* Frames that stay where they are keep the invariant.
LEMMA FramesUnmoved ==
    ASSUME IInv, pool' = pool, drv' = drv, infr' = infr,
           peer'.trans = peer.trans, peer'.retrans = peer.retrans,
           peer'.recept = peer.recept, peer'.partial = peer.partial,
           peer'.pending = peer.pending, peer'.sess = peer.sess,
           tx'.fp = tx.fp, tx'.pc = "gate" <=> tx.pc = "gate", w'.fp = w.fp
    PROVE  Balanced' /\ OfSession' /\ WatermarkOK(pool)'
<1>1. \A f \in Frames : Streamed(f)' = Streamed(f) /\ Owned(f)' = Owned(f)
                        /\ Count(f, drv)' = Count(f, drv)
  BY DEF Streamed, Owned
<1>. QED BY <1>1 DEF IInv, Balanced, OfSession, WatermarkOK

\* ioHdlcWriteVTmo is entered: no frame changes hands.
LEMMA WriteBeginStep ==
    ASSUME IInv, WriteBegin
    PROVE  IInv'
<1>1. Types'
  <2>1. peer' \in PeerType
    BY DEF IInv, Types, WriteBegin, PeerType
  <2>2. w' \in WriterType
    BY SizeAssumption DEF IInv, Types, WriteBegin, PeerType, WriterType
  <2>. QED BY <2>1, <2>2 DEF IInv, Types, WriteBegin
<1>2. Roles' /\ Admitted'
  BY DEF IInv, Types, Roles, Admitted, Reset, WriteBegin, PeerType, WriterType
<1>3. Balanced' /\ OfSession' /\ WatermarkOK(pool)'
  BY FramesUnmoved DEF IInv, Types, Roles, WriteBegin, PeerType, WriterType
<1>. QED BY <1>1, <1>2, <1>3 DEF IInv

\* A writer gives up its wait: no frame changes hands.
LEMMA WriteTimeoutStep ==
    ASSUME IInv, WriteTimeout
    PROVE  IInv'
<1>1. Types'
  BY DEF IInv, Types, WriteTimeout, WriterType
<1>2. Roles' /\ Admitted'
  BY DEF IInv, Types, Roles, Admitted, Reset, WriteTimeout, WriterType
<1>3. Balanced' /\ OfSession' /\ WatermarkOK(pool)'
  BY FramesUnmoved DEF IInv, Types, WriteTimeout, WriterType
<1>. QED BY <1>1, <1>2, <1>3 DEF IInv

\* A write returns: it holds no frame any more.
LEMMA WriteDoneStep ==
    ASSUME IInv, WriteDone
    PROVE  IInv'
<1>1. Types'
  <2>1. peer' \in PeerType
    BY DEF IInv, Types, WriteDone, PeerType
  <2>2. w' \in WriterType
    BY SizeAssumption DEF WriteDone, WriterType, IdleWriter, Sessions
  <2>3. tx' \in TxType
    BY DEF IInv, Types, WriteDone, TxType
  <2>. QED BY <2>1, <2>2, <2>3 DEF IInv, Types, WriteDone
<1>2. Roles' /\ Admitted'
  BY DEF IInv, Types, Roles, Admitted, Reset, WriteDone, PeerType, WriterType, TxType,
     IdleWriter
<1>3. Balanced' /\ OfSession' /\ WatermarkOK(pool)'
  BY FramesUnmoved
     DEF IInv, Types, Roles, WriteDone, PeerType, WriterType, TxType, IdleWriter
<1>. QED BY <1>1, <1>2, <1>3 DEF IInv

\* ioHdlcReadVTmo is entered: no frame changes hands.
LEMMA ReadBeginStep ==
    ASSUME IInv, ReadBegin
    PROVE  IInv'
<1>1. Types' /\ Roles'
  BY SizeAssumption DEF IInv, Types, Roles, ReadBegin, ReaderType
<1>2. Admitted'
  BY DEF IInv, Admitted, Reset, ReadBegin
<1>3. Balanced' /\ OfSession' /\ WatermarkOK(pool)'
  BY FramesUnmoved DEF ReadBegin
<1>. QED BY <1>1, <1>2, <1>3 DEF IInv

\* A reader gives up its wait: no frame changes hands.
LEMMA ReadTimeoutStep ==
    ASSUME IInv, ReadTimeout
    PROVE  IInv'
<1>1. Types' /\ Roles'
  BY DEF IInv, Types, Roles, ReadTimeout, ReaderType, IdleReader
<1>2. Admitted'
  BY DEF IInv, Admitted, Reset, ReadTimeout
<1>3. Balanced' /\ OfSession' /\ WatermarkOK(pool)'
  BY FramesUnmoved DEF ReadTimeout
<1>. QED BY <1>1, <1>2, <1>3 DEF IInv

\* The TX thread wakes up: no frame changes hands.
LEMMA TxWakeStep ==
    ASSUME IInv, TxWake
    PROVE  IInv'
<1>1. Types' /\ Roles'
  BY DEF IInv, Types, Roles, TxWake, TxType
<1>2. Admitted'
  BY DEF IInv, Admitted, Reset, TxWake
<1>3. Balanced' /\ OfSession' /\ WatermarkOK(pool)'
  BY FramesUnmoved DEF IInv, Types, TxWake, TxType
<1>. QED BY <1>1, <1>2, <1>3 DEF IInv

-----------------------------------------------------------------------------
(* The steps that move frames.                                             *)

\* The frame hdlcTakeFrame returns is free.
LEMMA NextFreeFacts ==
    ASSUME NEW pl, FreeFrames(pl) # {}
    PROVE  NextFree(pl) \in Frames /\ pl.refs[NextFree(pl)] = 0
BY DEF NextFree, FreeFrames

\* The counts are natural numbers.
LEMMA CountsNat ==
    ASSUME Types, NEW f \in Frames
    PROVE  /\ Count(f, peer.trans) \in Nat /\ Count(f, peer.retrans) \in Nat
           /\ Count(f, peer.recept) \in Nat /\ Count(f, drv) \in Nat
           /\ \A x : Holds(f, x) \in {0, 1}
           /\ Streamed(f) \in Nat /\ Owned(f) \in Nat
<1>1. /\ peer.trans \in Seq(Frames) /\ peer.retrans \in Seq(Frames)
      /\ peer.recept \in Seq(Frames) /\ drv \in Seq(Frames)
  BY DEF Types, PeerType
<1>2. /\ Count(f, peer.trans) \in Nat /\ Count(f, peer.retrans) \in Nat
      /\ Count(f, peer.recept) \in Nat /\ Count(f, drv) \in Nat
  BY <1>1, PlacesFinite
<1>3. \A x : Holds(f, x) \in {0, 1}
  BY DEF Holds
<1>. QED BY <1>2, <1>3 DEF Streamed, Owned

\* A frame without references is nowhere.
LEMMA FreeNowhere ==
    ASSUME IInv, NEW f \in Frames, pool.refs[f] = 0
    PROVE  Streamed(f) = 0 /\ Owned(f) = 0 /\ Count(f, drv) = 0
<1>1. Holds(f, infr) \in {0, 1} /\ Holds(f, w.fp) \in {0, 1}
  BY DEF Holds
<1>. QED BY CountsNat, <1>1 DEF IInv, Balanced, Owned

\* What a broadcast does to the writer and to the reader.
LEMMA WakeFacts ==
    ASSUME Types
    PROVE  /\ WakeWriter(w) \in WriterType
           /\ WakeWriter(w).fp = w.fp /\ WakeWriter(w).sess = w.sess
           /\ WakeWriter(w).pc = "idle" <=> w.pc = "idle"
           /\ WakeWriter(w).pc = "copy" <=> w.pc = "copy"
           /\ WakeReader(rd) \in ReaderType
           /\ WakeReader(rd).want = rd.want /\ WakeReader(rd).got = rd.got
           /\ WakeReader(rd).pc = "idle" <=> rd.pc = "idle"
BY DEF Types, WakeWriter, WakeReader, WriterType, ReaderType

\* A pass of the write loop takes at most one frame from the pool.
LEMMA WriteLoopStep ==
    ASSUME IInv, WriteLoop
    PROVE  IInv'
<1>. DEFINE g == NextFree(pool)
<1>1. CASE /\ UNCHANGED <<pool, peer, drv, infr, rd>>
           /\ \/ w' = [w EXCEPT !.pc = "done", !.sig = @ /\ ~Reset] /\ UNCHANGED tx
              \/ w' = [w EXCEPT !.pc = "wait", !.sig = FALSE]
                 /\ tx' = [tx EXCEPT !.evt = @ \/ w.sig]
  <2>1. /\ w' \in WriterType /\ w'.fp = w.fp /\ w'.sess = w.sess
        /\ w'.pc \in {"wait", "done"}
    BY <1>1 DEF IInv, Types, WriterType
  <2>2. tx' \in TxType /\ tx'.fp = tx.fp /\ tx'.pc = tx.pc
    BY <1>1 DEF IInv, Types, TxType
  <2>3. Types'
    BY <1>1, <2>1, <2>2 DEF IInv, Types
  <2>4. Roles' /\ Admitted'
    BY <1>1, <2>1, <2>2 DEF IInv, Roles, Admitted, Reset, WriteLoop
  <2>5. Balanced' /\ OfSession' /\ WatermarkOK(pool)'
    BY <1>1, <2>1, <2>2, FramesUnmoved
  <2>. QED BY <2>3, <2>4, <2>5 DEF IInv
<1>2. CASE /\ FreeFrames(pool) # {} /\ pool' = Take(pool, g)
           /\ w' = [w EXCEPT !.pc = "copy", !.fp = g]
           /\ UNCHANGED <<peer, drv, infr, rd, tx>>
  <2>1. g \in Frames /\ pool.refs[g] = 0
    BY <1>2, NextFreeFacts
  <2>. HIDE DEF g
  <2>2. /\ pool' \in PoolType /\ pool'.refs = [pool.refs EXCEPT ![g] = 1]
        /\ pool'.born = pool.born /\ WatermarkOK(pool)'
    BY <1>2, <2>1, TakeFacts DEF IInv, Types, WatermarkOK
  <2>3. w' \in WriterType /\ w'.pc = "copy" /\ w'.fp = g /\ w'.sess = w.sess
    BY <1>2, <2>1 DEF IInv, Types, WriterType
  <2>4. Types'
    BY <1>2, <2>2, <2>3 DEF IInv, Types
  <2>5. w.fp = None /\ w.pc = "loop"
    BY DEF IInv, Roles, WriteLoop
  <2>6. Roles' /\ Admitted'
    BY <1>2, <2>1, <2>3, <2>5, PoolAssumption DEF IInv, Roles, Admitted, Reset
  <2>7. \A f \in Frames : /\ Streamed(f)' = Streamed(f)
                          /\ Owned(f)' = Owned(f) + Holds(f, g)
                          /\ Count(f, drv)' = Count(f, drv)
    <3>. SUFFICES ASSUME NEW f \in Frames
                  PROVE  /\ Streamed(f)' = Streamed(f)
                         /\ Owned(f)' = Owned(f) + Holds(f, g)
                         /\ Count(f, drv)' = Count(f, drv)
      OBVIOUS
    <3>1. Holds(f, w.fp) = 0
      BY <2>5, PoolAssumption DEF Holds
    <3>2. Streamed(f)' = Streamed(f) /\ Streamed(f) \in Nat
      BY <1>2, CountsNat DEF IInv, Streamed
    <3>3. Holds(f, infr) \in Nat /\ Holds(f, g) \in Nat
      BY DEF Holds
    <3>. QED BY <1>2, <2>3, <3>1, <3>2, <3>3 DEF Owned
  <2>8. Balanced'
    <3>1. Owned(g) = 0 /\ Count(g, drv) = 0
      BY <2>1, FreeNowhere
    <3>2. \A f \in Frames : Owned(f) \in Nat /\ Count(f, drv) \in Nat
      BY CountsNat DEF IInv
    <3>. SUFFICES ASSUME NEW f \in Frames
                  PROVE  pool'.refs[f] = Owned(f)' + Count(f, drv)'
                         /\ Owned(f)' <= 1 /\ Count(f, drv)' <= 1
      BY DEF Balanced
    <3>3. pool.refs[f] = Owned(f) + Count(f, drv) /\ Owned(f) <= 1 /\ Count(f, drv) <= 1
      BY DEF IInv, Balanced
    <3>4. pool'.refs[f] = IF f = g THEN 1 ELSE pool.refs[f]
      BY <2>1, <2>2 DEF IInv, Types, PoolType
    <3>5. Holds(f, g) = IF f = g THEN 1 ELSE 0
      BY DEF Holds
    <3>. QED BY <2>7, <3>1, <3>2, <3>3, <3>4, <3>5
  <2>9. OfSession'
    BY <1>2, <2>2, <2>7 DEF IInv, OfSession
  <2>. QED BY <2>2, <2>4, <2>6, <2>8, <2>9 DEF IInv
<1>. QED
  <2>1. \/ /\ UNCHANGED <<pool, peer, drv, infr, rd>>
           /\ \/ w' = [w EXCEPT !.pc = "done", !.sig = @ /\ ~Reset] /\ UNCHANGED tx
              \/ w' = [w EXCEPT !.pc = "wait", !.sig = FALSE]
                 /\ tx' = [tx EXCEPT !.evt = @ \/ w.sig]
        \/ /\ FreeFrames(pool) # {} /\ pool' = Take(pool, g)
           /\ w' = [w EXCEPT !.pc = "copy", !.fp = g]
           /\ UNCHANGED <<peer, drv, infr, rd, tx>>
    BY DEF WriteLoop
  <2>. QED BY <1>1, <1>2, <2>1

\* The counts of the next state are natural numbers too.
LEMMA CountsNatNext ==
    ASSUME Types', NEW f \in Frames
    PROVE  Streamed(f)' \in Nat /\ Owned(f)' \in Nat /\ Streamed(f)' <= Owned(f)'
           /\ Count(f, drv)' \in Nat
<1>1. /\ peer'.trans \in Seq(Frames) /\ peer'.retrans \in Seq(Frames)
      /\ peer'.recept \in Seq(Frames) /\ drv' \in Seq(Frames)
  BY DEF Types, PeerType
<1>2. /\ Count(f, peer'.trans) \in Nat /\ Count(f, peer'.retrans) \in Nat
      /\ Count(f, peer'.recept) \in Nat /\ Count(f, drv') \in Nat
  BY <1>1, PlacesFinite
<1>3. /\ Holds(f, peer'.partial) \in Nat /\ Holds(f, tx'.fp) \in Nat
      /\ Holds(f, infr') \in Nat /\ Holds(f, w'.fp) \in Nat
  BY DEF Holds
<1>. QED BY <1>2, <1>3 DEF Streamed, Owned

\* One reference less to a frame in use.
LEMMA ReleaseOne ==
    ASSUME IInv, NEW g \in Frames, Owned(g) >= 1 \/ Count(g, drv) >= 1,
           pool' = Release(pool, {g})
    PROVE  /\ pool' \in PoolType /\ WatermarkOK(pool)'
           /\ \A f \in Frames :
                 /\ pool'.refs[f] = pool.refs[f] - Holds(f, g)
                 /\ pool'.refs[f] # 0 => pool'.born[f] = pool.born[f]
<1>1. pool.refs[g] >= 1
  BY CountsNat DEF IInv, Balanced
<1>2. {g} \in SUBSET Frames /\ \A f \in {g} : pool.refs[f] >= 1
  BY <1>1
<1>3. pool \in PoolType /\ WatermarkOK(pool)
  BY DEF IInv, Types
<1>4. /\ pool' \in PoolType /\ WatermarkOK(pool')
      /\ \A f \in Frames :
            /\ pool'.refs[f] = IF f \in {g} THEN pool.refs[f] - 1 ELSE pool.refs[f]
            /\ pool'.refs[f] # 0 => pool'.born[f] = pool.born[f]
  BY <1>2, <1>3, ReleaseFacts
<1>5. \A f \in Frames : pool.refs[f] \in Nat
  BY <1>3 DEF PoolType
<1>6. WatermarkOK(pool)'
  BY <1>4 DEF WatermarkOK
<1>7. \A f \in Frames : pool'.refs[f] = pool.refs[f] - Holds(f, g)
  BY <1>4, <1>5 DEF Holds
<1>. QED BY <1>4, <1>6, <1>7

\* The frames of the stream keep their connection when none enters it and the
\* references of those that stay are kept.
LEMMA StreamKept ==
    ASSUME IInv, Types', Balanced', peer'.sess = peer.sess,
           \A f \in Frames : Streamed(f)' <= Streamed(f),
           \A f \in Frames : pool'.refs[f] # 0 => pool'.born[f] = pool.born[f]
    PROVE  \A f \in Frames : Streamed(f)' >= 1 => pool'.born[f] = peer'.sess
<1>. SUFFICES ASSUME NEW f \in Frames, Streamed(f)' >= 1
              PROVE  pool'.born[f] = peer'.sess
  OBVIOUS
<1>1. /\ Streamed(f)' \in Nat /\ Owned(f)' \in Nat /\ Streamed(f)' <= Owned(f)'
      /\ Count(f, drv)' \in Nat
  BY CountsNatNext
<1>2. pool'.refs[f] # 0
  BY <1>1 DEF Balanced
<1>3. Streamed(f) \in Nat
  BY CountsNat DEF IInv
<1>4. Streamed(f) >= 1
  BY <1>1, <1>3
<1>. QED BY <1>2, <1>4 DEF IInv, OfSession

\* The frame of the writer becomes the one of i_trans_q, or is given back.
LEMMA WriteQueueStep ==
    ASSUME IInv, WriteQueue
    PROVE  IInv'
<1>. DEFINE g == w.fp
<1>1. w.pc = "copy" /\ g \in Frames /\ tx.fp = None /\ tx.pc # "gate"
  BY DEF IInv, Types, WriterType, Roles, WriteQueue, MutexFree
<1>2. \A f \in Frames : Owned(f) = Streamed(f) + Holds(f, infr) + Holds(f, g)
  BY DEF Owned
<1>3. Holds(g, g) = 1 /\ Holds(g, infr) \in Nat /\ Streamed(g) \in Nat
  BY <1>1, CountsNat DEF Holds, IInv
<1>4. Owned(g) >= 1
  BY <1>1, <1>2, <1>3
<1>. HIDE DEF g
<1>5. CASE /\ pool' = Release(pool, {g})
           /\ w' = [w EXCEPT !.pc = "done", !.fp = None, !.sig = @ /\ ~Reset]
           /\ UNCHANGED <<peer, drv, infr, rd, tx>>
  <2>1. w' \in WriterType /\ w'.pc = "done" /\ w'.fp = None /\ w'.sess = w.sess
    BY <1>5 DEF IInv, Types, WriterType
  <2>2. /\ pool' \in PoolType /\ WatermarkOK(pool)'
        /\ \A f \in Frames :
              /\ pool'.refs[f] = pool.refs[f] - Holds(f, g)
              /\ pool'.refs[f] # 0 => pool'.born[f] = pool.born[f]
    BY <1>1, <1>4, <1>5, ReleaseOne
  <2>3. Types'
    BY <1>5, <2>1, <2>2 DEF IInv, Types
  <2>4. Roles' /\ Admitted'
    BY <1>1, <1>5, <2>1 DEF IInv, Roles, Admitted, Reset
  <2>5. \A f \in Frames : /\ Streamed(f)' = Streamed(f)
                          /\ Owned(f)' = Streamed(f) + Holds(f, infr)
                          /\ Count(f, drv)' = Count(f, drv)
    <3>. SUFFICES ASSUME NEW f \in Frames
                  PROVE  /\ Streamed(f)' = Streamed(f)
                         /\ Owned(f)' = Streamed(f) + Holds(f, infr)
                         /\ Count(f, drv)' = Count(f, drv)
      OBVIOUS
    <3>1. Streamed(f)' = Streamed(f) /\ Streamed(f) \in Nat
      BY <1>5, CountsNat DEF IInv, Streamed
    <3>2. Holds(f, None) = 0 /\ Holds(f, infr) \in Nat
      BY PoolAssumption DEF Holds
    <3>. QED BY <1>5, <2>1, <3>1, <3>2 DEF Owned
  <2>6. Balanced'
    <3>. SUFFICES ASSUME NEW f \in Frames
                  PROVE  pool'.refs[f] = Owned(f)' + Count(f, drv)'
                         /\ Owned(f)' <= 1 /\ Count(f, drv)' <= 1
      BY DEF Balanced
    <3>1. pool.refs[f] = Owned(f) + Count(f, drv) /\ Owned(f) <= 1 /\ Count(f, drv) <= 1
      BY DEF IInv, Balanced
    <3>2. /\ Streamed(f) \in Nat /\ Holds(f, infr) \in Nat /\ Holds(f, g) \in Nat
          /\ Count(f, drv) \in Nat
      BY CountsNat DEF IInv, Holds
    <3>. QED BY <1>2, <2>2, <2>5, <3>1, <3>2
  <2>7. OfSession'
    <3>1. \A f \in Frames : Streamed(f) \in Nat
      BY CountsNat DEF IInv
    <3>2. \A f \in Frames : Streamed(f)' <= Streamed(f)
      BY <2>5, <3>1
    <3>3. \A f \in Frames : Streamed(f)' >= 1 => pool'.born[f] = peer'.sess
      BY <1>5, <2>2, <2>3, <2>6, <3>2, StreamKept
    <3>. QED BY <1>5, <3>3 DEF IInv, OfSession
  <2>. QED BY <2>2, <2>3, <2>4, <2>6, <2>7 DEF IInv
<1>6. CASE /\ ~Reset
           /\ peer' = [peer EXCEPT !.trans = Append(@, g), !.pending = @ + 1]
           /\ pool' = Queued(pool, g, w.sess)
           /\ w' = [w EXCEPT !.pc = IF w.left = 1 THEN "done" ELSE "loop",
                             !.left = @ - 1, !.fp = None, !.sig = TRUE]
           /\ UNCHANGED <<drv, infr, rd, tx>>
  <2>1. /\ w' \in WriterType /\ w'.pc \in {"done", "loop"}
        /\ w'.fp = None /\ w'.sess = w.sess
    <3>1. w \in WriterType /\ w.left - 1 \in Int
      BY DEF IInv, Types, WriterType
    <3>2. (IF w.left = 1 THEN "done" ELSE "loop") \in {"done", "loop"}
      OBVIOUS
    <3>. QED BY <1>6, <3>1, <3>2 DEF WriterType
  <2>2. /\ peer' \in PeerType
        /\ peer'.trans = Append(peer.trans, g) /\ peer'.pending = peer.pending + 1
        /\ peer'.retrans = peer.retrans /\ peer'.recept = peer.recept
        /\ peer'.partial = peer.partial /\ peer'.sess = peer.sess
        /\ peer'.conn = peer.conn /\ peer'.sending = peer.sending
        /\ peer'.terminal = peer.terminal
    <3>1. /\ peer \in PeerType /\ peer.pending + 1 \in Nat
          /\ Append(peer.trans, g) \in Seq(Frames)
      BY <1>1 DEF IInv, Types, PeerType
    <3>. QED BY <1>6, <3>1 DEF PeerType
  <2>3. /\ pool' \in PoolType /\ WatermarkOK(pool)'
        /\ pool'.refs = pool.refs
        /\ pool'.born = [pool.born EXCEPT ![g] = w.sess]
    BY <1>1, <1>6, QueuedFacts DEF IInv, Types, WriterType, WatermarkOK
  <2>4. Types'
    BY <1>6, <2>1, <2>2, <2>3 DEF IInv, Types
  <2>5. Roles' /\ Admitted'
    BY <1>1, <1>6, <2>1, <2>2 DEF IInv, Roles, Admitted, Reset
  <2>6. \A f \in Frames : /\ Streamed(f)' = Streamed(f) + Holds(f, g)
                          /\ Owned(f)' = Owned(f)
                          /\ Count(f, drv)' = Count(f, drv)
    <3>. SUFFICES ASSUME NEW f \in Frames
                  PROVE  /\ Streamed(f)' = Streamed(f) + Holds(f, g)
                         /\ Owned(f)' = Owned(f)
                         /\ Count(f, drv)' = Count(f, drv)
      OBVIOUS
    <3>1. Count(f, peer'.trans) = Count(f, peer.trans) + Holds(f, g)
      BY <1>1, <2>2, CountAppend DEF IInv, Types, PeerType
    <3>2. /\ Count(f, peer.trans) \in Nat /\ Count(f, peer.retrans) \in Nat
          /\ Count(f, peer.recept) \in Nat /\ Streamed(f) \in Nat
      BY CountsNat DEF IInv
    <3>3. /\ Holds(f, peer.partial) \in Nat /\ Holds(f, tx.fp) \in Nat
          /\ Holds(f, g) \in Nat /\ Holds(f, infr) \in Nat /\ Holds(f, None) = 0
      BY PoolAssumption DEF Holds
    <3>4. Streamed(f)' = Streamed(f) + Holds(f, g)
      BY <1>6, <2>2, <3>1, <3>2, <3>3 DEF Streamed
    <3>. QED BY <1>2, <1>6, <2>1, <3>2, <3>3, <3>4 DEF Owned
  <2>7. Balanced'
    BY <2>3, <2>6 DEF IInv, Balanced
  <2>8. OfSession'
    <3>1. w.sess = peer.sess
      BY <1>1, <1>6 DEF IInv, Admitted
    <3>2. \A f \in Frames : Streamed(f)' >= 1 => pool'.born[f] = peer'.sess
      BY <1>1, <2>2, <2>3, <2>6, <3>1, CountsNat
      DEF IInv, Types, PoolType, OfSession, Holds
    <3>3. Len(peer'.trans) = Len(peer.trans) + 1
      BY <1>1, <2>2 DEF IInv, Types, PeerType
    <3>. QED
      BY <1>1, <1>6, <2>2, <3>2, <3>3 DEF IInv, Types, PeerType, OfSession
  <2>. QED BY <2>3, <2>4, <2>5, <2>7, <2>8 DEF IInv
<1>. QED BY <1>5, <1>6 DEF WriteQueue, g

\* hdlcSendFrame for a frame of the stream whose gate is open.
LEMMA CommitFacts ==
    ASSUME IInv, NEW g \in Frames, Owned(g) >= 1, ~GateClosed(g), Commit(g)
    PROVE  /\ pool' \in PoolType /\ WatermarkOK(pool)' /\ pool'.born = pool.born
           /\ drv' \in Seq(Frames)
           /\ tx' \in TxType /\ tx'.pc = "run" /\ tx'.fp = None
           /\ \A f \in Frames :
                 /\ pool'.refs[f] = pool.refs[f] + Holds(f, g)
                 /\ Count(f, drv)' = Count(f, drv) + Holds(f, g)
                 /\ Count(f, drv)' <= 1
<1>1. /\ pool \in PoolType /\ WatermarkOK(pool) /\ drv \in Seq(Frames)
      /\ \A f \in Frames : pool.refs[f] \in Nat
  BY DEF IInv, Types, PoolType
<1>2. pool.refs[g] >= 1
  BY CountsNat DEF IInv, Balanced
<1>3. /\ pool' \in PoolType /\ WatermarkOK(pool') /\ pool'.born = pool.born
      /\ pool'.refs = [pool.refs EXCEPT ![g] = @ + 1]
  BY <1>1, <1>2, AddRefFacts DEF Commit
<1>4. WatermarkOK(pool)'
  BY <1>3 DEF WatermarkOK
<1>5. \A f \in Frames : pool'.refs[f] = pool.refs[f] + Holds(f, g)
  BY <1>1, <1>3 DEF PoolType, Holds
<1>6. drv' \in Seq(Frames)
  BY <1>1 DEF Commit
<1>7. tx' \in TxType /\ tx'.pc = "run" /\ tx'.fp = None
  BY DEF IInv, Types, TxType, Commit
<1>8. \A f \in Frames : Count(f, drv') = Count(f, drv) + Holds(f, g)
  BY <1>1, CountAppend DEF Commit
<1>9. Count(g, drv) = 0
  BY <1>1, CountMember, PlacesFinite DEF GateClosed
<1>10. \A f \in Frames : Count(f, drv') <= 1
  <2>1. \A f \in Frames : Count(f, drv) \in Nat /\ Count(f, drv) <= 1
    BY CountsNat DEF IInv, Balanced
  <2>. QED BY <1>8, <1>9, <2>1 DEF Holds
<1>. QED BY <1>3, <1>4, <1>5, <1>6, <1>7, <1>8, <1>10

\* The terms of Streamed and Owned are natural numbers.
CountsOK(f) ==
    /\ Count(f, peer.trans) \in Nat /\ Count(f, peer.retrans) \in Nat
    /\ Count(f, peer.recept) \in Nat /\ Count(f, drv) \in Nat
    /\ Holds(f, peer.partial) \in Nat /\ Holds(f, tx.fp) \in Nat
    /\ Holds(f, infr) \in Nat /\ Holds(f, w.fp) \in Nat /\ Holds(f, None) = 0

\* The references of a frame under the inductive invariant.
LEMMA StreamSum ==
    ASSUME IInv, NEW f \in Frames
    PROVE  /\ CountsOK(f)
           /\ Streamed(f) \in Nat /\ Owned(f) \in Nat
           /\ pool.refs[f] = Owned(f) + Count(f, drv)
           /\ Owned(f) <= 1 /\ Count(f, drv) <= 1
<1>1. /\ Holds(f, peer.partial) \in Nat /\ Holds(f, tx.fp) \in Nat
      /\ Holds(f, infr) \in Nat /\ Holds(f, w.fp) \in Nat /\ Holds(f, None) = 0
  BY PoolAssumption DEF Holds
<1>. QED BY <1>1, CountsNat DEF IInv, CountsOK, Balanced

\* A frame is sent, and the driver gets a reference of its own, or the gate is waited for.
LEMMA TxSendStep ==
    ASSUME IInv, TxSend
    PROVE  IInv'
<1>. DEFINE g == Head(peer.trans)
<1>1. /\ tx.pc = "run" /\ tx.fp = None /\ peer.trans # <<>>
      /\ peer \in PeerType /\ peer.trans \in Seq(Frames) /\ peer.retrans \in Seq(Frames)
  BY DEF IInv, Types, PeerType, Roles, TxSend, TxOpen
<1>2. /\ g \in Frames /\ Tail(peer.trans) \in Seq(Frames)
      /\ Append(peer.retrans, g) \in Seq(Frames)
      /\ Len(Tail(peer.trans)) = Len(peer.trans) - 1
      /\ Len(Append(peer.retrans, g)) = Len(peer.retrans) + 1
      /\ Len(peer.trans) \in Nat /\ Len(peer.retrans) \in Nat
  BY <1>1
<1>3. \A f \in Frames :
         /\ Count(f, peer.trans) = Holds(f, g) + Count(f, Tail(peer.trans))
         /\ Count(f, Append(peer.retrans, g)) = Count(f, peer.retrans) + Holds(f, g)
         /\ Holds(f, g) \in Nat /\ Count(f, Tail(peer.trans)) \in Nat
  BY <1>1, <1>2, CountTail, CountAppend, PlacesFinite DEF Holds
<1>. HIDE DEF g
<1>4. CASE /\ tx' = [tx EXCEPT !.pc = "gate", !.fp = g]
           /\ peer' = [peer EXCEPT !.trans = Tail(@)]
           /\ UNCHANGED <<pool, drv, infr, w, rd>>
  <2>1. tx' \in TxType /\ tx'.pc = "gate" /\ tx'.fp = g
    BY <1>2, <1>4 DEF IInv, Types, TxType
  <2>2. /\ peer' \in PeerType /\ peer'.trans = Tail(peer.trans)
        /\ peer'.retrans = peer.retrans /\ peer'.recept = peer.recept
        /\ peer'.partial = peer.partial /\ peer'.pending = peer.pending
        /\ peer'.sess = peer.sess /\ peer'.conn = peer.conn
        /\ peer'.sending = peer.sending /\ peer'.terminal = peer.terminal
    BY <1>1, <1>2, <1>4 DEF PeerType
  <2>3. Types'
    BY <1>4, <2>1, <2>2 DEF IInv, Types
  <2>4. Roles' /\ Admitted'
    BY <1>2, <1>4, <2>1, <2>2, PoolAssumption DEF IInv, Roles, Admitted, Reset
  <2>5. \A f \in Frames : Streamed(f)' = Streamed(f) /\ Owned(f)' = Owned(f)
                          /\ Count(f, drv)' = Count(f, drv)
    <3>. SUFFICES ASSUME NEW f \in Frames
                  PROVE  Streamed(f)' = Streamed(f) /\ Owned(f)' = Owned(f)
                         /\ Count(f, drv)' = Count(f, drv)
      OBVIOUS
    <3>0. CountsOK(f)
      BY StreamSum
    <3>1. Streamed(f)' = Streamed(f)
      BY <1>1, <1>3, <2>1, <2>2, <3>0 DEF Streamed, CountsOK
    <3>. QED BY <1>4, <3>1 DEF Owned
  <2>6. Balanced'
    BY <1>4, <2>5 DEF IInv, Balanced
  <2>7. OfSession'
    BY <1>1, <1>2, <1>4, <2>1, <2>2, <2>5 DEF IInv, Types, PeerType, OfSession
  <2>8. WatermarkOK(pool)'
    BY <1>4 DEF IInv, WatermarkOK
  <2>. QED BY <2>3, <2>4, <2>6, <2>7, <2>8 DEF IInv
<1>5. CASE /\ ~GateClosed(g) /\ Commit(g)
           /\ peer' = [peer EXCEPT !.trans = Tail(@), !.retrans = Append(@, g)]
           /\ UNCHANGED <<infr, w, rd>>
  <2>1. Owned(g) >= 1
    <3>1. CountsOK(g)
      BY <1>2, StreamSum
    <3>2. Count(g, peer.trans) >= 1
      BY <1>2, <1>3, <3>1 DEF Holds
    <3>. QED BY <3>1, <3>2 DEF Owned, Streamed, CountsOK
  <2>2. /\ pool' \in PoolType /\ WatermarkOK(pool)' /\ pool'.born = pool.born
        /\ drv' \in Seq(Frames)
        /\ tx' \in TxType /\ tx'.pc = "run" /\ tx'.fp = None
        /\ \A f \in Frames :
              /\ pool'.refs[f] = pool.refs[f] + Holds(f, g)
              /\ Count(f, drv)' = Count(f, drv) + Holds(f, g)
              /\ Count(f, drv)' <= 1
    BY <1>2, <1>5, <2>1, CommitFacts
  <2>3. /\ peer' \in PeerType /\ peer'.trans = Tail(peer.trans)
        /\ peer'.retrans = Append(peer.retrans, g) /\ peer'.recept = peer.recept
        /\ peer'.partial = peer.partial /\ peer'.pending = peer.pending
        /\ peer'.sess = peer.sess /\ peer'.conn = peer.conn
        /\ peer'.sending = peer.sending /\ peer'.terminal = peer.terminal
    BY <1>1, <1>2, <1>5 DEF PeerType
  <2>4. Types'
    BY <1>5, <2>2, <2>3 DEF IInv, Types
  <2>5. Roles' /\ Admitted'
    BY <1>5, <2>2, <2>3 DEF IInv, Roles, Admitted, Reset
  <2>6. \A f \in Frames : Streamed(f)' = Streamed(f) /\ Owned(f)' = Owned(f)
    <3>. SUFFICES ASSUME NEW f \in Frames
                  PROVE  Streamed(f)' = Streamed(f) /\ Owned(f)' = Owned(f)
      OBVIOUS
    <3>0. CountsOK(f)
      BY StreamSum
    <3>1. Streamed(f)' = Streamed(f)
      BY <1>1, <1>3, <2>2, <2>3, <3>0 DEF Streamed, CountsOK
    <3>. QED BY <1>5, <3>1 DEF Owned
  <2>7. Balanced'
    <3>. SUFFICES ASSUME NEW f \in Frames
                  PROVE  pool'.refs[f] = Owned(f)' + Count(f, drv)'
                         /\ Owned(f)' <= 1 /\ Count(f, drv)' <= 1
      BY DEF Balanced
    <3>1. /\ pool.refs[f] = Owned(f) + Count(f, drv) /\ Owned(f) <= 1
          /\ Owned(f) \in Nat /\ Count(f, drv) \in Nat
      BY StreamSum DEF CountsOK
    <3>. QED BY <1>3, <2>2, <2>6, <3>1
  <2>8. OfSession'
    BY <1>1, <1>2, <1>5, <2>2, <2>3, <2>6 DEF IInv, Types, PeerType, OfSession
  <2>. QED BY <2>2, <2>4, <2>5, <2>7, <2>8 DEF IInv
<1>. QED BY <1>4, <1>5 DEF TxSend, g

\* The gate is open: the frame is sent, which was committed nowhere.
LEMMA TxGateOpenStep ==
    ASSUME IInv, TxGateOpen
    PROVE  IInv'
<1>. DEFINE g == tx.fp
<1>1. /\ tx.pc = "gate" /\ g \in Frames /\ ~GateClosed(g) /\ Commit(g)
      /\ peer \in PeerType /\ peer.retrans \in Seq(Frames)
      /\ UNCHANGED <<infr, w, rd>>
      /\ peer' = [peer EXCEPT !.retrans = Append(@, g)]
  BY DEF IInv, Types, PeerType, TxType, Roles, TxGateOpen
<1>2. /\ Append(peer.retrans, g) \in Seq(Frames)
      /\ Len(Append(peer.retrans, g)) = Len(peer.retrans) + 1
      /\ Len(peer.trans) \in Nat /\ Len(peer.retrans) \in Nat
  BY <1>1 DEF PeerType
<1>3. \A f \in Frames :
         /\ Count(f, Append(peer.retrans, g)) = Count(f, peer.retrans) + Holds(f, g)
         /\ Holds(f, g) \in Nat
  BY <1>1, CountAppend DEF Holds
<1>4. Owned(g) >= 1
  <2>1. CountsOK(g)
    BY <1>1, StreamSum
  <2>2. Holds(g, g) = 1
    BY DEF Holds
  <2>. QED BY <2>1, <2>2 DEF Owned, Streamed, CountsOK
<1>5. /\ pool' \in PoolType /\ WatermarkOK(pool)' /\ pool'.born = pool.born
      /\ drv' \in Seq(Frames)
      /\ tx' \in TxType /\ tx'.pc = "run" /\ tx'.fp = None
      /\ \A f \in Frames :
            /\ pool'.refs[f] = pool.refs[f] + Holds(f, g)
            /\ Count(f, drv)' = Count(f, drv) + Holds(f, g)
            /\ Count(f, drv)' <= 1
  BY <1>1, <1>4, CommitFacts
<1>6. /\ peer' \in PeerType /\ peer'.trans = peer.trans
      /\ peer'.retrans = Append(peer.retrans, g) /\ peer'.recept = peer.recept
      /\ peer'.partial = peer.partial /\ peer'.pending = peer.pending
      /\ peer'.sess = peer.sess /\ peer'.conn = peer.conn
      /\ peer'.sending = peer.sending /\ peer'.terminal = peer.terminal
  BY <1>1, <1>2 DEF PeerType
<1>7. Types'
  BY <1>1, <1>5, <1>6 DEF IInv, Types
<1>8. Roles' /\ Admitted'
  BY <1>1, <1>5, <1>6 DEF IInv, Roles, Admitted, Reset
<1>9. \A f \in Frames : Streamed(f)' = Streamed(f) /\ Owned(f)' = Owned(f)
  <2>. SUFFICES ASSUME NEW f \in Frames
                PROVE  Streamed(f)' = Streamed(f) /\ Owned(f)' = Owned(f)
    OBVIOUS
  <2>0. CountsOK(f)
    BY StreamSum
  <2>1. Streamed(f)' = Streamed(f)
    BY <1>3, <1>5, <1>6, <2>0 DEF Streamed, CountsOK
  <2>. QED BY <1>1, <2>1 DEF Owned
<1>10. Balanced'
  <2>. SUFFICES ASSUME NEW f \in Frames
                PROVE  pool'.refs[f] = Owned(f)' + Count(f, drv)'
                       /\ Owned(f)' <= 1 /\ Count(f, drv)' <= 1
    BY DEF Balanced
  <2>1. /\ pool.refs[f] = Owned(f) + Count(f, drv) /\ Owned(f) <= 1
        /\ Owned(f) \in Nat /\ Count(f, drv) \in Nat
    BY StreamSum DEF CountsOK
  <2>. QED BY <1>3, <1>5, <1>9, <2>1
<1>11. OfSession'
  BY <1>1, <1>2, <1>5, <1>6, <1>9 DEF IInv, PeerType, OfSession
<1>. QED BY <1>5, <1>7, <1>8, <1>10, <1>11 DEF IInv

\* The end of a pass of the TX thread takes at most one frame, for an RR.
LEMMA TxTailStep ==
    ASSUME IInv, TxTail
    PROVE  IInv'
<1>. DEFINE g == NextFree(pool)
<1>1. tx' \in TxType /\ tx'.pc = "wait" /\ tx'.fp = tx.fp /\ tx.pc = "run"
  BY DEF IInv, Types, TxType, TxTail
<1>2. CASE UNCHANGED <<pool, drv, peer, w>>
  <2>1. Types'
    BY <1>1, <1>2 DEF IInv, Types, TxTail
  <2>2. Roles' /\ Admitted'
    BY <1>1, <1>2 DEF IInv, Roles, Admitted, Reset, TxTail
  <2>3. Balanced' /\ OfSession' /\ WatermarkOK(pool)'
    BY <1>1, <1>2, FramesUnmoved DEF TxTail
  <2>. QED BY <2>1, <2>2, <2>3 DEF IInv
<1>3. CASE /\ FreeFrames(pool) # {}
           /\ pool' = Take(pool, g) /\ drv' = Append(drv, g)
           /\ peer' = [peer EXCEPT !.busy = FALSE] /\ w' = WakeWriter(w)
  <2>1. g \in Frames /\ pool.refs[g] = 0
    BY <1>3, NextFreeFacts
  <2>. HIDE DEF g
  <2>2. /\ pool' \in PoolType /\ pool'.refs = [pool.refs EXCEPT ![g] = 1]
        /\ pool'.born = pool.born /\ WatermarkOK(pool)'
    BY <1>3, <2>1, TakeFacts DEF IInv, Types, WatermarkOK
  <2>3. drv \in Seq(Frames) /\ drv' \in Seq(Frames)
    BY <1>3, <2>1 DEF IInv, Types
  <2>4. /\ w' \in WriterType /\ w'.fp = w.fp /\ w'.sess = w.sess
        /\ w'.pc = "idle" <=> w.pc = "idle"
        /\ w'.pc = "copy" <=> w.pc = "copy"
    BY <1>3, WakeFacts DEF IInv
  <2>5. /\ peer' \in PeerType /\ peer'.trans = peer.trans
        /\ peer'.retrans = peer.retrans /\ peer'.recept = peer.recept
        /\ peer'.partial = peer.partial /\ peer'.pending = peer.pending
        /\ peer'.sess = peer.sess /\ peer'.conn = peer.conn
        /\ peer'.sending = peer.sending /\ peer'.terminal = peer.terminal
    BY <1>3 DEF IInv, Types, PeerType
  <2>6. UNCHANGED <<infr, rd>>
    BY DEF TxTail
  <2>7. Types'
    BY <1>1, <2>2, <2>3, <2>4, <2>5, <2>6 DEF IInv, Types
  <2>8. Roles' /\ Admitted'
    BY <1>1, <2>4, <2>5, <2>6 DEF IInv, Roles, Admitted, Reset
  <2>9. \A f \in Frames : /\ Streamed(f)' = Streamed(f) /\ Owned(f)' = Owned(f)
                          /\ Count(f, drv)' = Count(f, drv) + Holds(f, g)
    <3>1. \A f \in Frames : Streamed(f)' = Streamed(f) /\ Owned(f)' = Owned(f)
      BY <1>1, <2>4, <2>5, <2>6 DEF Streamed, Owned
    <3>2. \A f \in Frames : Count(f, drv') = Count(f, drv) + Holds(f, g)
      BY <1>3, <2>1, <2>3, CountAppend
    <3>. QED BY <3>1, <3>2
  <2>10. Balanced'
    <3>. SUFFICES ASSUME NEW f \in Frames
                  PROVE  pool'.refs[f] = Owned(f)' + Count(f, drv)'
                         /\ Owned(f)' <= 1 /\ Count(f, drv)' <= 1
      BY DEF Balanced
    <3>1. Owned(g) = 0 /\ Count(g, drv) = 0
      BY <2>1, FreeNowhere
    <3>2. /\ pool.refs[f] = Owned(f) + Count(f, drv) /\ Owned(f) <= 1
          /\ Count(f, drv) <= 1 /\ Owned(f) \in Nat /\ Count(f, drv) \in Nat
      BY StreamSum DEF CountsOK
    <3>3. pool'.refs[f] = IF f = g THEN 1 ELSE pool.refs[f]
      BY <2>1, <2>2 DEF IInv, Types, PoolType
    <3>4. Holds(f, g) = IF f = g THEN 1 ELSE 0
      BY DEF Holds
    <3>. QED BY <2>9, <3>1, <3>2, <3>3, <3>4
  <2>11. OfSession'
    BY <1>1, <2>2, <2>5, <2>9 DEF IInv, OfSession
  <2>. QED BY <2>2, <2>7, <2>8, <2>10, <2>11 DEF IInv
<1>. QED BY <1>2, <1>3 DEF TxTail

\* The driver gives its reference back at the end of the transfer.
LEMMA TxDoneStep ==
    ASSUME IInv, TxDone
    PROVE  IInv'
<1>. DEFINE g == Head(drv)
<1>1. drv \in Seq(Frames) /\ drv # <<>> /\ drv' = Tail(drv) /\ pool' = Release(pool, {g})
  BY DEF IInv, Types, TxDone
<1>2. g \in Frames /\ drv' \in Seq(Frames)
  BY <1>1
<1>3. \A f \in Frames : /\ Count(f, drv) = Holds(f, g) + Count(f, drv)'
                        /\ Holds(f, g) \in Nat /\ Count(f, drv)' \in Nat
  <2>1. \A f \in Frames : /\ Count(f, drv) = Holds(f, g) + Count(f, drv')
                          /\ Holds(f, g) \in Nat /\ Count(f, drv') \in Nat
    BY <1>1, <1>2, CountTail, PlacesFinite DEF Holds
  <2>. QED BY <2>1
<1>4. Count(g, drv) >= 1
  BY <1>2, <1>3 DEF Holds
<1>5. /\ peer' \in PeerType /\ peer'.trans = peer.trans
      /\ peer'.retrans = peer.retrans /\ peer'.recept = peer.recept
      /\ peer'.partial = peer.partial /\ peer'.pending = peer.pending
      /\ peer'.sess = peer.sess /\ peer'.conn = peer.conn
      /\ peer'.sending = peer.sending /\ peer'.terminal = peer.terminal
  <2>1. peer \in PeerType /\ peer.out \cup ({g} \cap ToSet(peer.retrans \o peer.trans)) \in SUBSET Frames
    BY <1>2 DEF IInv, Types, PeerType
  <2>. QED BY <2>1 DEF TxDone, PeerType
<1>. HIDE DEF g
<1>6. /\ pool' \in PoolType /\ WatermarkOK(pool)'
      /\ \A f \in Frames :
            /\ pool'.refs[f] = pool.refs[f] - Holds(f, g)
            /\ pool'.refs[f] # 0 => pool'.born[f] = pool.born[f]
  BY <1>1, <1>2, <1>4, ReleaseOne
<1>7. UNCHANGED <<infr, w, rd, tx>>
  BY DEF TxDone
<1>8. Types'
  BY <1>2, <1>5, <1>6, <1>7 DEF IInv, Types
<1>9. Roles' /\ Admitted'
  BY <1>5, <1>7 DEF IInv, Roles, Admitted, Reset
<1>10. \A f \in Frames : Streamed(f)' = Streamed(f) /\ Owned(f)' = Owned(f)
  BY <1>5, <1>7 DEF Streamed, Owned
<1>11. Balanced'
  <2>. SUFFICES ASSUME NEW f \in Frames
                PROVE  pool'.refs[f] = Owned(f)' + Count(f, drv)'
                       /\ Owned(f)' <= 1 /\ Count(f, drv)' <= 1
    BY DEF Balanced
  <2>1. /\ pool.refs[f] = Owned(f) + Count(f, drv) /\ Owned(f) <= 1
        /\ Count(f, drv) <= 1 /\ Owned(f) \in Nat /\ Count(f, drv) \in Nat
    BY StreamSum DEF CountsOK
  <2>. QED BY <1>3, <1>6, <1>10, <2>1
<1>12. OfSession'
  <2>1. \A f \in Frames : Streamed(f)' <= Streamed(f)
    BY <1>10, StreamSum
  <2>2. \A f \in Frames : Streamed(f)' >= 1 => pool'.born[f] = peer'.sess
    BY <1>5, <1>6, <1>8, <1>11, <2>1, StreamKept
  <2>. QED BY <1>5, <1>7, <2>2 DEF IInv, OfSession
<1>. QED BY <1>6, <1>8, <1>9, <1>11, <1>12 DEF IInv

\* The driver gives its reference back after a transport error.
LEMMA TxErrorStep ==
    ASSUME IInv, TxError
    PROVE  IInv'
<1>. DEFINE S == ToSet(drv)
<1>1. drv \in Seq(Frames) /\ drv' = <<>> /\ UNCHANGED <<peer, infr, w, rd, tx>>
  BY DEF IInv, Types, TxError
<1>2. S \in SUBSET Frames /\ \A f \in Frames : f \in S <=> Count(f, drv) >= 1
  <2>1. S \in SUBSET Frames
    BY <1>1 DEF ToSet
  <2>. QED BY <1>1, <2>1, CountMember
<1>. HIDE DEF S
<1>3. \A f \in S : pool.refs[f] >= 1
  BY <1>2, StreamSum DEF CountsOK
<1>4. /\ pool' \in PoolType /\ WatermarkOK(pool)'
      /\ \A f \in Frames :
            /\ pool'.refs[f] = IF f \in S THEN pool.refs[f] - 1 ELSE pool.refs[f]
            /\ pool'.refs[f] # 0 => pool'.born[f] = pool.born[f]
  <2>1. pool' = Release(pool, S) /\ pool \in PoolType /\ WatermarkOK(pool)
    BY DEF TxError, S, IInv, Types
  <2>. QED BY <1>2, <1>3, <2>1, ReleaseFacts DEF WatermarkOK
<1>5. Types'
  BY <1>1, <1>4 DEF IInv, Types
<1>6. Roles' /\ Admitted'
  BY <1>1 DEF IInv, Roles, Admitted, Reset
<1>7. \A f \in Frames : /\ Streamed(f)' = Streamed(f) /\ Owned(f)' = Owned(f)
                        /\ Count(f, drv)' = 0
  <2>1. \A f \in Frames : Streamed(f)' = Streamed(f) /\ Owned(f)' = Owned(f)
    BY <1>1 DEF Streamed, Owned
  <2>. QED BY <1>1, <2>1, CountEmpty
<1>8. Balanced'
  <2>. SUFFICES ASSUME NEW f \in Frames
                PROVE  pool'.refs[f] = Owned(f)' + Count(f, drv)'
                       /\ Owned(f)' <= 1 /\ Count(f, drv)' <= 1
    BY DEF Balanced
  <2>1. /\ pool.refs[f] = Owned(f) + Count(f, drv) /\ Owned(f) <= 1
        /\ Count(f, drv) <= 1 /\ Owned(f) \in Nat /\ Count(f, drv) \in Nat
    BY StreamSum DEF CountsOK
  <2>. QED BY <1>2, <1>4, <1>7, <2>1
<1>9. OfSession'
  <2>1. \A f \in Frames : Streamed(f)' <= Streamed(f)
    BY <1>7, StreamSum
  <2>2. \A f \in Frames : Streamed(f)' >= 1 => pool'.born[f] = peer'.sess
    BY <1>1, <1>4, <1>5, <1>8, <2>1, StreamKept
  <2>. QED BY <1>1, <2>2 DEF IInv, OfSession
<1>. QED BY <1>4, <1>5, <1>6, <1>8, <1>9 DEF IInv

\* The driver takes a frame for what it receives.
LEMMA RxTakeStep ==
    ASSUME IInv, RxTake
    PROVE  IInv'
<1>. DEFINE g == NextFree(pool)
<1>1. g \in Frames /\ pool.refs[g] = 0
  BY NextFreeFacts DEF RxTake
<1>2. infr = None /\ infr' = g /\ UNCHANGED <<peer, drv, w, rd, tx>>
  BY DEF RxTake
<1>3. pool' = Take(pool, g)
  BY DEF RxTake
<1>. HIDE DEF g
<1>4. /\ pool' \in PoolType /\ pool'.refs = [pool.refs EXCEPT ![g] = 1]
      /\ pool'.born = pool.born /\ WatermarkOK(pool)'
  BY <1>1, <1>3, TakeFacts DEF IInv, Types, WatermarkOK
<1>5. Types'
  BY <1>1, <1>2, <1>4 DEF IInv, Types
<1>6. Roles' /\ Admitted'
  BY <1>2 DEF IInv, Roles, Admitted, Reset
<1>7. \A f \in Frames : /\ Streamed(f)' = Streamed(f)
                        /\ Owned(f)' = Owned(f) + Holds(f, g)
                        /\ Count(f, drv)' = Count(f, drv)
  <2>. SUFFICES ASSUME NEW f \in Frames
                PROVE  /\ Streamed(f)' = Streamed(f)
                       /\ Owned(f)' = Owned(f) + Holds(f, g)
                       /\ Count(f, drv)' = Count(f, drv)
    OBVIOUS
  <2>1. Streamed(f)' = Streamed(f) /\ Count(f, drv)' = Count(f, drv)
    BY <1>2 DEF Streamed
  <2>2. CountsOK(f) /\ Streamed(f) \in Nat /\ Holds(f, g) \in Nat
    BY StreamSum DEF Holds
  <2>. QED BY <1>2, <2>1, <2>2 DEF Owned, CountsOK
<1>8. Balanced'
  <2>. SUFFICES ASSUME NEW f \in Frames
                PROVE  pool'.refs[f] = Owned(f)' + Count(f, drv)'
                       /\ Owned(f)' <= 1 /\ Count(f, drv)' <= 1
    BY DEF Balanced
  <2>1. Owned(g) = 0 /\ Count(g, drv) = 0
    BY <1>1, FreeNowhere
  <2>2. /\ pool.refs[f] = Owned(f) + Count(f, drv) /\ Owned(f) <= 1
        /\ Count(f, drv) <= 1 /\ Owned(f) \in Nat /\ Count(f, drv) \in Nat
    BY StreamSum DEF CountsOK
  <2>3. pool'.refs[f] = IF f = g THEN 1 ELSE pool.refs[f]
    BY <1>1, <1>4 DEF IInv, Types, PoolType
  <2>4. Holds(f, g) = IF f = g THEN 1 ELSE 0
    BY DEF Holds
  <2>. QED BY <1>7, <2>1, <2>2, <2>3, <2>4
<1>9. OfSession'
  BY <1>2, <1>4, <1>7 DEF IInv, OfSession
<1>. QED BY <1>4, <1>5, <1>6, <1>8, <1>9 DEF IInv

\* The received frame becomes the one of i_recept_q, or is given back.
LEMMA RxDeliverStep ==
    ASSUME IInv, RxDeliver
    PROVE  IInv'
<1>. DEFINE g == infr
<1>1. /\ g \in Frames /\ infr' = None /\ tx.fp = None /\ tx.pc # "gate"
      /\ UNCHANGED <<drv, w, left>> /\ peer \in PeerType /\ peer.recept \in Seq(Frames)
  BY DEF IInv, Types, PeerType, Roles, RxDeliver, MutexFree
<1>2. \A f \in Frames : /\ Owned(f) = Streamed(f) + Holds(f, g) + Holds(f, w.fp)
                        /\ Streamed(f) \in Nat /\ Holds(f, g) \in Nat
                        /\ Holds(f, w.fp) \in Nat /\ Holds(f, None) = 0
  BY StreamSum DEF Owned, CountsOK
<1>3. Owned(g) >= 1
  BY <1>1, <1>2 DEF Holds
<1>. HIDE DEF g
<1>4. CASE /\ pool' = Queued(pool, g, peer.sess) /\ rd' = WakeReader(rd)
           /\ peer' = [peer EXCEPT !.recept = Append(@, g), !.busy = @ \/ pool.low]
           /\ tx' = [tx EXCEPT !.evt = TRUE]
  <2>1. /\ peer' \in PeerType /\ peer'.trans = peer.trans
        /\ peer'.retrans = peer.retrans /\ peer'.recept = Append(peer.recept, g)
        /\ peer'.partial = peer.partial /\ peer'.pending = peer.pending
        /\ peer'.sess = peer.sess /\ peer'.conn = peer.conn
        /\ peer'.sending = peer.sending /\ peer'.terminal = peer.terminal
    <3>1. Append(peer.recept, g) \in Seq(Frames)
      BY <1>1
    <3>. QED BY <1>1, <1>4, <3>1 DEF PeerType
  <2>2. /\ pool' \in PoolType /\ WatermarkOK(pool)' /\ pool'.refs = pool.refs
        /\ pool'.born = [pool.born EXCEPT ![g] = peer.sess]
    BY <1>1, <1>4, QueuedFacts DEF IInv, Types, PeerType, WatermarkOK
  <2>3. /\ rd' \in ReaderType /\ rd'.want = rd.want /\ rd'.got = rd.got
        /\ rd'.pc = "idle" <=> rd.pc = "idle"
    BY <1>4, WakeFacts DEF IInv
  <2>4. tx' \in TxType /\ tx'.pc = tx.pc /\ tx'.fp = tx.fp
    BY <1>4 DEF IInv, Types, TxType
  <2>5. Types'
    BY <1>1, <2>1, <2>2, <2>3, <2>4 DEF IInv, Types
  <2>6. Roles' /\ Admitted'
    BY <1>1, <2>1, <2>3, <2>4 DEF IInv, Roles, Admitted, Reset
  <2>7. \A f \in Frames : /\ Streamed(f)' = Streamed(f) + Holds(f, g)
                          /\ Owned(f)' = Owned(f)
                          /\ Count(f, drv)' = Count(f, drv)
    <3>. SUFFICES ASSUME NEW f \in Frames
                  PROVE  /\ Streamed(f)' = Streamed(f) + Holds(f, g)
                         /\ Owned(f)' = Owned(f)
                         /\ Count(f, drv)' = Count(f, drv)
      OBVIOUS
    <3>1. Count(f, peer'.recept) = Count(f, peer.recept) + Holds(f, g)
      BY <1>1, <2>1, CountAppend
    <3>2. CountsOK(f)
      BY StreamSum
    <3>3. Streamed(f)' = Streamed(f) + Holds(f, g)
      BY <1>2, <2>1, <2>4, <3>1, <3>2 DEF Streamed, CountsOK
    <3>. QED BY <1>1, <1>2, <3>3 DEF Owned
  <2>8. Balanced'
    BY <2>2, <2>7 DEF IInv, Balanced
  <2>9. OfSession'
    <3>1. \A f \in Frames : Streamed(f)' >= 1 => pool'.born[f] = peer'.sess
      BY <1>1, <1>2, <2>1, <2>2, <2>7 DEF IInv, Types, PoolType, OfSession, Holds
    <3>. QED BY <2>1, <2>4, <3>1 DEF IInv, OfSession
  <2>. QED BY <2>2, <2>5, <2>6, <2>8, <2>9 DEF IInv
<1>5. CASE pool' = Release(pool, {g}) /\ UNCHANGED <<peer, rd, tx>>
  <2>1. /\ pool' \in PoolType /\ WatermarkOK(pool)'
        /\ \A f \in Frames :
              /\ pool'.refs[f] = pool.refs[f] - Holds(f, g)
              /\ pool'.refs[f] # 0 => pool'.born[f] = pool.born[f]
    BY <1>1, <1>3, <1>5, ReleaseOne
  <2>2. Types'
    BY <1>1, <1>5, <2>1 DEF IInv, Types
  <2>3. Roles' /\ Admitted'
    BY <1>1, <1>5 DEF IInv, Roles, Admitted, Reset
  <2>4. \A f \in Frames : /\ Streamed(f)' = Streamed(f)
                          /\ Owned(f)' = Streamed(f) + Holds(f, w.fp)
                          /\ Count(f, drv)' = Count(f, drv)
    <3>1. \A f \in Frames : Streamed(f)' = Streamed(f)
      BY <1>5 DEF Streamed
    <3>. QED BY <1>1, <1>2, <1>5, <3>1 DEF Owned
  <2>5. Balanced'
    <3>. SUFFICES ASSUME NEW f \in Frames
                  PROVE  pool'.refs[f] = Owned(f)' + Count(f, drv)'
                         /\ Owned(f)' <= 1 /\ Count(f, drv)' <= 1
      BY DEF Balanced
    <3>1. /\ pool.refs[f] = Owned(f) + Count(f, drv) /\ Owned(f) <= 1
          /\ Count(f, drv) <= 1 /\ Count(f, drv) \in Nat
      BY StreamSum DEF CountsOK
    <3>. QED BY <1>2, <2>1, <2>4, <3>1
  <2>6. OfSession'
    <3>1. \A f \in Frames : Streamed(f)' <= Streamed(f)
      BY <1>2, <2>4
    <3>2. \A f \in Frames : Streamed(f)' >= 1 => pool'.born[f] = peer'.sess
      BY <1>5, <2>1, <2>2, <2>5, <3>1, StreamKept
    <3>. QED BY <1>5, <3>2 DEF IInv, OfSession
  <2>. QED BY <2>1, <2>2, <2>3, <2>5, <2>6 DEF IInv
<1>. QED BY <1>4, <1>5 DEF RxDeliver, g

\* Acknowledged frames leave i_retrans_q for the pool.
LEMMA AckStep ==
    ASSUME IInv, Ack
    PROVE  IInv'
<1>. DEFINE g == Head(peer.retrans)
<1>1. /\ peer \in PeerType /\ peer.retrans \in Seq(Frames) /\ peer.retrans # <<>>
      /\ peer.trans \in Seq(Frames)
      /\ tx.pc # "gate" /\ tx.fp = None /\ UNCHANGED <<drv, infr, rd>>
  BY DEF IInv, Types, PeerType, Roles, Ack, MutexFree
<1>2. /\ g \in Frames /\ Tail(peer.retrans) \in Seq(Frames)
      /\ Len(Tail(peer.retrans)) = Len(peer.retrans) - 1
      /\ Len(peer.trans) \in Nat /\ Len(peer.retrans) \in Nat /\ Len(peer.retrans) >= 1
  BY <1>1 DEF PeerType
<1>3. peer.pending = Len(peer.trans) + Len(peer.retrans)
  BY <1>1, <1>2 DEF IInv, OfSession
<1>4. \A f \in Frames :
         /\ Count(f, peer.retrans) = Holds(f, g) + Count(f, Tail(peer.retrans))
         /\ Holds(f, g) \in Nat /\ Count(f, Tail(peer.retrans)) \in Nat
  BY <1>1, <1>2, CountTail, PlacesFinite DEF Holds
<1>5. /\ pool' = Release(pool, {g}) /\ w' = WakeWriter(w)
      /\ tx' = [tx EXCEPT !.evt = TRUE]
      /\ peer' = [peer EXCEPT !.retrans = Tail(@), !.pending = @ - 1, !.out = @ \ {g}]
  BY DEF Ack
<1>. HIDE DEF g
<1>6. Owned(g) >= 1
  <2>1. CountsOK(g)
    BY <1>2, StreamSum
  <2>2. Count(g, peer.retrans) >= 1
    BY <1>2, <1>4 DEF Holds
  <2>. QED BY <2>1, <2>2 DEF Owned, Streamed, CountsOK
<1>7. /\ pool' \in PoolType /\ WatermarkOK(pool)'
      /\ \A f \in Frames :
            /\ pool'.refs[f] = pool.refs[f] - Holds(f, g)
            /\ pool'.refs[f] # 0 => pool'.born[f] = pool.born[f]
  BY <1>2, <1>5, <1>6, ReleaseOne
<1>8. /\ peer' \in PeerType /\ peer'.trans = peer.trans
      /\ peer'.retrans = Tail(peer.retrans) /\ peer'.recept = peer.recept
      /\ peer'.partial = peer.partial /\ peer'.pending = peer.pending - 1
      /\ peer'.sess = peer.sess /\ peer'.conn = peer.conn
      /\ peer'.sending = peer.sending /\ peer'.terminal = peer.terminal
  <2>1. peer.pending \in Nat
    BY <1>1 DEF PeerType
  <2>2. peer.pending >= 1
    <3>. DEFINE a == Len(peer.trans)
                b == Len(peer.retrans)
    <3>0. a \in Nat /\ b \in Nat /\ b >= 1
      BY <1>2
    <3>. HIDE DEF a, b
    <3>1. a + b >= 1
      BY <3>0
    <3>. QED BY <1>3, <3>1 DEF a, b
  <2>3. peer.pending - 1 \in Nat
    BY <2>1, <2>2
  <2>. QED BY <1>1, <1>2, <1>5, <2>3 DEF PeerType
<1>9. /\ w' \in WriterType /\ w'.fp = w.fp /\ w'.sess = w.sess
      /\ w'.pc = "idle" <=> w.pc = "idle"
      /\ w'.pc = "copy" <=> w.pc = "copy"
  BY <1>5, WakeFacts DEF IInv
<1>10. tx' \in TxType /\ tx'.pc = tx.pc /\ tx'.fp = tx.fp
  BY <1>5 DEF IInv, Types, TxType
<1>11. Types'
  BY <1>1, <1>7, <1>8, <1>9, <1>10 DEF IInv, Types
<1>12. Roles' /\ Admitted'
  BY <1>1, <1>8, <1>9, <1>10 DEF IInv, Roles, Admitted, Reset
<1>13. \A f \in Frames : /\ Streamed(f) = Streamed(f)' + Holds(f, g)
                         /\ Owned(f) = Owned(f)' + Holds(f, g)
                         /\ Streamed(f)' \in Nat /\ Owned(f)' \in Nat
                         /\ Count(f, drv)' = Count(f, drv)
  <2>. SUFFICES ASSUME NEW f \in Frames
                PROVE  /\ Streamed(f) = Streamed(f)' + Holds(f, g)
                       /\ Owned(f) = Owned(f)' + Holds(f, g)
                       /\ Streamed(f)' \in Nat /\ Owned(f)' \in Nat
                       /\ Count(f, drv)' = Count(f, drv)
    OBVIOUS
  <2>1. CountsOK(f)
    BY StreamSum
  <2>2. Streamed(f)' \in Nat /\ Owned(f)' \in Nat
    BY <1>11, CountsNatNext
  <2>3. Streamed(f) = Streamed(f)' + Holds(f, g)
    BY <1>4, <1>8, <1>10, <2>1 DEF Streamed, CountsOK
  <2>4. Owned(f) = Owned(f)' + Holds(f, g)
    BY <1>1, <1>4, <1>9, <2>1, <2>2, <2>3 DEF Owned, CountsOK
  <2>. QED BY <1>1, <2>2, <2>3, <2>4
<1>14. Balanced'
  <2>. SUFFICES ASSUME NEW f \in Frames
                PROVE  pool'.refs[f] = Owned(f)' + Count(f, drv)'
                       /\ Owned(f)' <= 1 /\ Count(f, drv)' <= 1
    BY DEF Balanced
  <2>1. /\ pool.refs[f] = Owned(f) + Count(f, drv) /\ Owned(f) <= 1
        /\ Count(f, drv) <= 1 /\ Owned(f) \in Nat /\ Count(f, drv) \in Nat
    BY StreamSum DEF CountsOK
  <2>. QED BY <1>4, <1>7, <1>13, <2>1
<1>15. OfSession'
  <2>1. \A f \in Frames : Streamed(f)' <= Streamed(f)
    BY <1>4, <1>13
  <2>2. \A f \in Frames : Streamed(f)' >= 1 => pool'.born[f] = peer'.sess
    BY <1>7, <1>8, <1>11, <1>14, <2>1, StreamKept
  <2>3. peer'.pending = Len(peer'.trans) + Len(peer'.retrans)
    BY <1>1, <1>2, <1>3, <1>8 DEF PeerType
  <2>. QED BY <1>1, <1>10, <2>2, <2>3 DEF OfSession
<1>. QED BY <1>7, <1>11, <1>12, <1>14, <1>15 DEF IInv

\* Frames move from i_retrans_q to the head of i_trans_q.
LEMMA RetransmitStep ==
    ASSUME IInv, Retransmit
    PROVE  IInv'
<1>1. /\ peer \in PeerType /\ peer.retrans \in Seq(Frames) /\ peer.trans \in Seq(Frames)
      /\ peer' = [peer EXCEPT !.trans = peer.retrans \o @, !.retrans = <<>>]
      /\ tx' = [tx EXCEPT !.evt = TRUE] /\ UNCHANGED <<pool, drv, infr, w, rd>>
  BY DEF IInv, Types, PeerType, Retransmit
<1>2. /\ peer' \in PeerType /\ peer'.trans = peer.retrans \o peer.trans
      /\ peer'.retrans = <<>> /\ peer'.recept = peer.recept
      /\ peer'.partial = peer.partial /\ peer'.pending = peer.pending
      /\ peer'.sess = peer.sess /\ peer'.conn = peer.conn
      /\ peer'.sending = peer.sending /\ peer'.terminal = peer.terminal
  <2>1. peer.retrans \o peer.trans \in Seq(Frames) /\ <<>> \in Seq(Frames)
    BY <1>1
  <2>. QED BY <1>1, <2>1 DEF PeerType
<1>3. tx' \in TxType /\ tx'.pc = tx.pc /\ tx'.fp = tx.fp
  BY <1>1 DEF IInv, Types, TxType
<1>4. Types'
  BY <1>1, <1>2, <1>3 DEF IInv, Types
<1>5. Roles' /\ Admitted'
  BY <1>1, <1>2, <1>3 DEF IInv, Roles, Admitted, Reset
<1>6. \A f \in Frames : /\ Streamed(f)' = Streamed(f) /\ Owned(f)' = Owned(f)
                        /\ Count(f, drv)' = Count(f, drv)
  <2>. SUFFICES ASSUME NEW f \in Frames
                PROVE  /\ Streamed(f)' = Streamed(f) /\ Owned(f)' = Owned(f)
                       /\ Count(f, drv)' = Count(f, drv)
    OBVIOUS
  <2>1. /\ Count(f, peer'.trans) = Count(f, peer.retrans) + Count(f, peer.trans)
        /\ Count(f, peer'.retrans) = 0
    BY <1>1, <1>2, CountConcat, CountEmpty
  <2>2. CountsOK(f)
    BY StreamSum
  <2>3. Streamed(f)' = Streamed(f)
    BY <1>2, <1>3, <2>1, <2>2 DEF Streamed, CountsOK
  <2>. QED BY <1>1, <2>3 DEF Owned
<1>7. Balanced' /\ WatermarkOK(pool)'
  BY <1>1, <1>6 DEF IInv, Balanced, WatermarkOK
<1>8. OfSession'
  <2>1. /\ Len(peer'.trans) = Len(peer.retrans) + Len(peer.trans)
        /\ Len(peer'.retrans) = 0
        /\ Len(peer.trans) \in Nat /\ Len(peer.retrans) \in Nat
    BY <1>1, <1>2
  <2>2. Len(peer'.trans) + Len(peer'.retrans) = Len(peer.trans) + Len(peer.retrans)
    BY <1>1, <1>2, <2>1 DEF PeerType
  <2>3. peer'.pending = Len(peer'.trans) + Len(peer'.retrans)
                        + (IF tx'.pc = "gate" THEN 1 ELSE 0)
    BY <1>2, <1>3, <2>2 DEF IInv, OfSession
  <2>. QED BY <1>1, <1>2, <1>6, <2>3 DEF IInv, OfSession
<1>. QED BY <1>4, <1>5, <1>7, <1>8 DEF IInv

\* The frames of the transmit queues, which are drained into the pool.
LEMMA TxQueuedFacts ==
    ASSUME IInv
    PROVE  /\ TxQueued(peer) \in SUBSET Frames
           /\ \A f \in Frames :
                 f \in TxQueued(peer) <=> Count(f, peer.trans) + Count(f, peer.retrans) >= 1
<1>1. /\ peer.trans \in Seq(Frames) /\ peer.retrans \in Seq(Frames)
      /\ peer.trans \o peer.retrans \in Seq(Frames)
  BY DEF IInv, Types, PeerType
<1>2. TxQueued(peer) \in SUBSET Frames
  BY <1>1, ToSetFrames DEF TxQueued
<1>3. \A f \in Frames : f \in TxQueued(peer) <=> Count(f, peer.trans \o peer.retrans) >= 1
  BY <1>1, CountMember DEF TxQueued
<1>4. \A f \in Frames :
         Count(f, peer.trans \o peer.retrans) = Count(f, peer.trans) + Count(f, peer.retrans)
  BY <1>1, CountConcat
<1>. QED BY <1>2, <1>3, <1>4

\* The frames the reader finds.
LEMMA BufferedFacts ==
    ASSUME IInv
    PROVE  /\ Buffered \in Seq(Frames)
           /\ \A f \in Frames :
                 Count(f, Buffered) = Count(f, peer.recept) + Holds(f, peer.partial)
<1>1. peer.recept \in Seq(Frames) /\ peer.partial \in Frames \cup {None}
  BY DEF IInv, Types, PeerType
<1>2. CASE peer.partial = None
  BY <1>1, <1>2, StreamSum DEF Buffered, CountsOK
<1>3. CASE peer.partial \in Frames
  <2>1. Buffered = <<peer.partial>> \o peer.recept /\ <<peer.partial>> \in Seq(Frames)
    BY <1>3, PoolAssumption DEF Buffered
  <2>2. \A f \in Frames : Count(f, Buffered) = Count(f, <<peer.partial>>) + Count(f, peer.recept)
    BY <1>1, <2>1, CountConcat
  <2>3. \A f \in Frames : Count(f, <<peer.partial>>) = Holds(f, peer.partial)
    BY <1>3, CountOne
  <2>4. \A f \in Frames : Count(f, peer.recept) \in Nat /\ Holds(f, peer.partial) \in Nat
    BY StreamSum DEF CountsOK
  <2>5. Buffered \in Seq(Frames)
    BY <1>1, <2>1
  <2>. QED BY <2>2, <2>3, <2>4, <2>5
<1>. QED BY <1>1, <1>2, <1>3

\* The end of a connection empties the transmit queues.
LEMMA LinkDownStep ==
    ASSUME IInv, NEW how \in {"orderly", "aborted"}, LinkDown(how)
    PROVE  IInv'
<1>1. /\ peer \in PeerType /\ peer.conn /\ tx.pc # "gate" /\ tx.fp = None
      /\ UNCHANGED <<drv, infr, tx>>
      /\ w' = WakeWriter(w) /\ rd' = WakeReader(rd)
      /\ pool' = Release(pool, TxQueued(peer))
  BY DEF IInv, Types, Roles, LinkDown, MutexFree
<1>2. /\ EndOf(peer, how) \subseteq {"orderly", "aborted", "txreset"}
      /\ "txreset" \in EndOf(peer, how) <=> Reset \/ peer.sending
  BY <1>1 DEF EndOf, PeerType, Reset
<1>3. /\ peer' \in PeerType /\ peer'.trans = <<>> /\ peer'.retrans = <<>>
      /\ peer'.recept = peer.recept /\ peer'.partial = peer.partial
      /\ peer'.pending = 0 /\ peer'.sess = peer.sess /\ ~peer'.conn
      /\ peer'.sending = peer.sending /\ peer'.terminal = EndOf(peer, how)
  <2>1. <<>> \in Seq(Frames) /\ {} \in SUBSET Frames
    OBVIOUS
  <2>2. peer' = [peer EXCEPT !.trans = <<>>, !.retrans = <<>>, !.out = {},
                             !.pending = 0, !.conn = FALSE, !.closed = how,
                             !.terminal = EndOf(peer, how)]
    BY DEF LinkDown, ClearTx
  <2>. QED BY <1>1, <1>2, <2>1, <2>2 DEF PeerType
<1>4. /\ w' \in WriterType /\ w'.fp = w.fp /\ w'.sess = w.sess
      /\ w'.pc = "idle" <=> w.pc = "idle"
      /\ w'.pc = "copy" <=> w.pc = "copy"
      /\ rd' \in ReaderType /\ rd'.want = rd.want /\ rd'.got = rd.got
      /\ rd'.pc = "idle" <=> rd.pc = "idle"
  BY <1>1, WakeFacts DEF IInv
<1>5. \A f \in TxQueued(peer) : pool.refs[f] >= 1
  <2>. SUFFICES ASSUME NEW f \in Frames, f \in TxQueued(peer) PROVE pool.refs[f] >= 1
    BY TxQueuedFacts
  <2>1. CountsOK(f) /\ pool.refs[f] = Owned(f) + Count(f, drv)
    BY StreamSum
  <2>2. Count(f, peer.trans) + Count(f, peer.retrans) >= 1
    BY TxQueuedFacts
  <2>. QED BY <2>1, <2>2 DEF CountsOK, Owned, Streamed
<1>6. /\ pool' \in PoolType /\ WatermarkOK(pool)'
      /\ \A f \in Frames :
            /\ pool'.refs[f] = IF f \in TxQueued(peer) THEN pool.refs[f] - 1
                                                       ELSE pool.refs[f]
            /\ pool'.refs[f] # 0 => pool'.born[f] = pool.born[f]
  <2>1. TxQueued(peer) \in SUBSET Frames /\ pool \in PoolType /\ WatermarkOK(pool)
    BY TxQueuedFacts DEF IInv, Types
  <2>. QED BY <1>1, <1>5, <2>1, ReleaseFacts DEF WatermarkOK
<1>7. Types'
  BY <1>1, <1>3, <1>4, <1>6 DEF IInv, Types
<1>8. Roles'
  BY <1>1, <1>4 DEF IInv, Roles
<1>9. Admitted'
  <2>1. Reset' <=> Reset \/ peer.sending
    BY <1>2, <1>3 DEF Reset
  <2>. QED BY <1>3, <1>4, <2>1 DEF IInv, Admitted
<1>10. \A f \in Frames :
          /\ Streamed(f) = Streamed(f)' + Count(f, peer.trans) + Count(f, peer.retrans)
          /\ Owned(f) = Owned(f)' + Count(f, peer.trans) + Count(f, peer.retrans)
          /\ Streamed(f)' \in Nat /\ Owned(f)' \in Nat
          /\ Count(f, drv)' = Count(f, drv)
  <2>. SUFFICES ASSUME NEW f \in Frames
                PROVE  /\ Streamed(f) = Streamed(f)' + Count(f, peer.trans) + Count(f, peer.retrans)
                       /\ Owned(f) = Owned(f)' + Count(f, peer.trans) + Count(f, peer.retrans)
                       /\ Streamed(f)' \in Nat /\ Owned(f)' \in Nat
                       /\ Count(f, drv)' = Count(f, drv)
    OBVIOUS
  <2>1. CountsOK(f)
    BY StreamSum
  <2>2. Count(f, peer'.trans) = 0 /\ Count(f, peer'.retrans) = 0
    BY <1>3, CountEmpty
  <2>3. Streamed(f)' = Count(f, peer.recept) + Holds(f, peer.partial) + Holds(f, tx.fp)
    BY <1>1, <1>3, <2>1, <2>2 DEF Streamed, CountsOK
  <2>4. Owned(f)' = Streamed(f)' + Holds(f, infr) + Holds(f, w.fp)
    BY <1>1, <1>4 DEF Owned
  <2>. QED BY <1>1, <2>1, <2>3, <2>4 DEF Streamed, Owned, CountsOK
<1>11. Balanced'
  <2>. SUFFICES ASSUME NEW f \in Frames
                PROVE  pool'.refs[f] = Owned(f)' + Count(f, drv)'
                       /\ Owned(f)' <= 1 /\ Count(f, drv)' <= 1
    BY DEF Balanced
  <2>1. /\ pool.refs[f] = Owned(f) + Count(f, drv) /\ Owned(f) <= 1
        /\ Count(f, drv) <= 1 /\ Owned(f) \in Nat /\ Count(f, drv) \in Nat
        /\ Count(f, peer.trans) \in Nat /\ Count(f, peer.retrans) \in Nat
    BY StreamSum DEF CountsOK
  <2>2. f \in TxQueued(peer) <=> Count(f, peer.trans) + Count(f, peer.retrans) >= 1
    BY TxQueuedFacts
  <2>. QED BY <1>6, <1>10, <2>1, <2>2
<1>12. OfSession'
  <2>1. \A f \in Frames : Streamed(f)' <= Streamed(f)
    BY <1>10, StreamSum DEF CountsOK
  <2>2. \A f \in Frames : Streamed(f)' >= 1 => pool'.born[f] = peer'.sess
    BY <1>3, <1>6, <1>7, <1>11, <2>1, StreamKept
  <2>3. Len(peer'.trans) = 0 /\ Len(peer'.retrans) = 0
    BY <1>3
  <2>. QED BY <1>1, <1>3, <2>2, <2>3 DEF OfSession
<1>. QED BY <1>6, <1>7, <1>8, <1>9, <1>11, <1>12 DEF IInv

\* A new connection empties the queues of the previous one.
LEMMA LinkUpStep ==
    ASSUME IInv, LinkUp
    PROVE  IInv'
<1>. DEFINE S == TxQueued(peer) \cup ToSet(Buffered)
<1>1. /\ peer \in PeerType /\ tx.pc # "gate" /\ tx.fp = None
      /\ UNCHANGED <<drv, infr, tx>>
      /\ w' = WakeWriter(w) /\ rd' \in {WakeReader(rd), rd}
      /\ pool' = Release(pool, S)
  BY DEF IInv, Types, Roles, LinkUp, MutexFree
<1>2. /\ EndOf(peer, "aborted") \subseteq {"orderly", "aborted", "txreset"}
      /\ "txreset" \in EndOf(peer, "aborted") <=> Reset \/ (peer.conn /\ peer.sending)
  BY <1>1 DEF EndOf, PeerType, Reset
<1>3. /\ peer' \in PeerType /\ peer'.trans = <<>> /\ peer'.retrans = <<>>
      /\ peer'.recept = <<>> /\ peer'.partial = None
      /\ peer'.pending = 0 /\ peer'.conn /\ ~peer'.sending
      /\ peer'.terminal = EndOf(peer, "aborted")
  <2>1. <<>> \in Seq(Frames) /\ {} \in SUBSET Frames /\ 0 \in 0..(InfoLen - 1)
    BY SizeAssumption
  <2>2. peer.sess + 1 \in Sessions
    BY <1>1, SizeAssumption DEF LinkUp, PeerType, Sessions
  <2>3. peer' = [peer EXCEPT !.trans = <<>>, !.retrans = <<>>, !.out = {},
                             !.pending = 0, !.conn = TRUE, !.closed = "none",
                             !.sess = @ + 1, !.sending = FALSE,
                             !.terminal = EndOf(peer, "aborted"),
                             !.recept = <<>>, !.partial = None, !.offset = 0]
    BY DEF LinkUp, ClearTx
  <2>. QED BY <1>1, <1>2, <2>1, <2>2, <2>3 DEF PeerType
<1>4. /\ w' \in WriterType /\ w'.fp = w.fp /\ w'.sess = w.sess
      /\ w'.pc = "idle" <=> w.pc = "idle"
      /\ w'.pc = "copy" <=> w.pc = "copy"
      /\ rd' \in ReaderType /\ rd'.want = rd.want /\ rd'.got = rd.got
      /\ rd'.pc = "idle" <=> rd.pc = "idle"
  BY <1>1, WakeFacts DEF IInv, Types
<1>5. /\ S \in SUBSET Frames
      /\ \A f \in Frames : f \in S <=> Streamed(f) >= 1
  <2>1. ToSet(Buffered) \in SUBSET Frames
    BY BufferedFacts DEF ToSet
  <2>2. ASSUME NEW f \in Frames PROVE f \in S <=> Streamed(f) >= 1
    <3>1. CountsOK(f) /\ Holds(f, tx.fp) = 0
      BY <1>1, StreamSum DEF CountsOK
    <3>2. f \in ToSet(Buffered) <=> Count(f, peer.recept) + Holds(f, peer.partial) >= 1
      BY BufferedFacts, CountMember
    <3>3. f \in TxQueued(peer) <=> Count(f, peer.trans) + Count(f, peer.retrans) >= 1
      BY TxQueuedFacts
    <3>. QED BY <3>1, <3>2, <3>3 DEF Streamed, CountsOK
  <2>. QED BY <2>1, <2>2, TxQueuedFacts
<1>. HIDE DEF S
<1>6. \A f \in S : pool.refs[f] >= 1
  <2>. SUFFICES ASSUME NEW f \in Frames, f \in S PROVE pool.refs[f] >= 1
    BY <1>5
  <2>1. CountsOK(f) /\ pool.refs[f] = Owned(f) + Count(f, drv) /\ Streamed(f) \in Nat
    BY StreamSum
  <2>. QED BY <1>5, <2>1 DEF CountsOK, Owned
<1>7. /\ pool' \in PoolType /\ WatermarkOK(pool)'
      /\ \A f \in Frames :
            pool'.refs[f] = IF f \in S THEN pool.refs[f] - 1 ELSE pool.refs[f]
  <2>1. pool \in PoolType /\ WatermarkOK(pool)
    BY DEF IInv, Types
  <2>. QED BY <1>1, <1>5, <1>6, <2>1, ReleaseFacts DEF WatermarkOK
<1>8. Types'
  BY <1>1, <1>3, <1>4, <1>7 DEF IInv, Types
<1>9. Roles'
  BY <1>1, <1>4 DEF IInv, Roles
<1>10. Admitted'
  <2>1. Reset' <=> Reset \/ (peer.conn /\ peer.sending)
    BY <1>2, <1>3 DEF Reset
  <2>. QED BY <1>3, <1>4, <2>1 DEF IInv, Admitted
<1>11. \A f \in Frames : /\ Streamed(f)' = 0
                         /\ Owned(f)' = Holds(f, infr) + Holds(f, w.fp)
                         /\ Count(f, drv)' = Count(f, drv)
  <2>. SUFFICES ASSUME NEW f \in Frames
                PROVE  /\ Streamed(f)' = 0
                       /\ Owned(f)' = Holds(f, infr) + Holds(f, w.fp)
                       /\ Count(f, drv)' = Count(f, drv)
    OBVIOUS
  <2>1. CountsOK(f)
    BY StreamSum
  <2>2. /\ Count(f, peer'.trans) = 0 /\ Count(f, peer'.retrans) = 0
        /\ Count(f, peer'.recept) = 0 /\ Holds(f, peer'.partial) = 0
        /\ Holds(f, tx'.fp) = 0
    BY <1>1, <1>3, <2>1, CountEmpty DEF CountsOK
  <2>3. Streamed(f)' = 0
    BY <2>2 DEF Streamed
  <2>. QED BY <1>1, <1>4, <2>1, <2>3 DEF Owned, CountsOK
<1>12. Balanced'
  <2>. SUFFICES ASSUME NEW f \in Frames
                PROVE  pool'.refs[f] = Owned(f)' + Count(f, drv)'
                       /\ Owned(f)' <= 1 /\ Count(f, drv)' <= 1
    BY DEF Balanced
  <2>1. /\ pool.refs[f] = Owned(f) + Count(f, drv) /\ Owned(f) <= 1
        /\ Count(f, drv) <= 1 /\ Streamed(f) \in Nat /\ CountsOK(f)
    BY StreamSum
  <2>2. Owned(f) = Streamed(f) + Holds(f, infr) + Holds(f, w.fp)
    BY DEF Owned
  <2>. QED BY <1>5, <1>7, <1>11, <2>1, <2>2 DEF CountsOK
<1>13. OfSession'
  <2>1. Len(peer'.trans) = 0 /\ Len(peer'.retrans) = 0
    BY <1>3
  <2>. QED BY <1>1, <1>3, <1>11, <2>1 DEF OfSession
<1>. QED BY <1>7, <1>8, <1>9, <1>10, <1>12, <1>13 DEF IInv

\* Where a read ends: the frames read to their end, and the one read in part,
\* are among those that were there.
LEMMA ReadEnd ==
    ASSUME NEW L \in Nat \ {0}, NEW off \in 0..(InfoLen - 1), NEW n \in Nat,
           n <= L * InfoLen - off
    PROVE  /\ off + n \in Nat
           /\ (off + n) \div InfoLen \in 0..L
           /\ (off + n) % InfoLen \in 0..(InfoLen - 1)
           /\ (off + n) % InfoLen # 0 => (off + n) \div InfoLen + 1 <= L
<1>. DEFINE e == off + n
            k == e \div InfoLen
            r == e % InfoLen
<1>1. e \in Nat /\ InfoLen \in Nat /\ InfoLen >= 1 /\ L * InfoLen \in Nat
  BY SizeAssumption
<1>2. e <= L * InfoLen
  BY <1>1
<1>. HIDE DEF e
<1>3. k \in Int /\ r \in 0..(InfoLen - 1) /\ e = InfoLen * k + r
  BY <1>1, SMTT(30)
<1>. HIDE DEF k, r
<1>4. k >= 0
  <2>1. SUFFICES ASSUME k <= -1 PROVE FALSE
    BY <1>3
  <2>2. InfoLen * k <= -InfoLen
    BY <1>1, <1>3, <2>1, SMTT(30)
  <2>. QED BY <1>1, <1>3, <2>2
<1>5. k <= L
  <2>1. SUFFICES ASSUME k - L >= 1 PROVE FALSE
    BY <1>3
  <2>2. InfoLen * (k - L) >= InfoLen
    BY <1>1, <1>3, <2>1, SMTT(30)
  <2>3. InfoLen * (k - L) = InfoLen * k - L * InfoLen
    BY <1>1, <1>3, SMTT(30)
  <2>4. InfoLen * k \in Int
    BY <1>1, <1>3
  <2>. QED BY <1>1, <1>2, <1>3, <2>2, <2>3, <2>4
<1>6. r # 0 => k + 1 <= L
  <2>1. SUFFICES ASSUME r # 0, k = L PROVE FALSE
    BY <1>3, <1>5
  <2>2. InfoLen * k = L * InfoLen
    BY <1>1, <1>3, <2>1, SMTT(30)
  <2>. QED BY <1>1, <1>2, <1>3, <2>1, <2>2
<1>. QED BY <1>1, <1>3, <1>4, <1>5, <1>6 DEF e, k, r

\* A queue cut after its first k frames.
LEMMA CountCut ==
    ASSUME NEW q \in Seq(Frames), NEW k \in 0..Len(q), NEW f
    PROVE  /\ SubSeq(q, 1, k) \in Seq(Frames)
           /\ SubSeq(q, k + 1, Len(q)) \in Seq(Frames)
           /\ Count(f, q) = Count(f, SubSeq(q, 1, k)) + Count(f, SubSeq(q, k + 1, Len(q)))
<1>1. SubSeq(q, 1, k) \in Seq(Frames) /\ SubSeq(q, k + 1, Len(q)) \in Seq(Frames)
  <2>1. k \in Int /\ Len(q) \in Int /\ 1 \in Int /\ k + 1 \in Int
    OBVIOUS
  <2>2. (\A i \in 1..k : q[i] \in Frames) /\ (\A i \in (k + 1)..Len(q) : q[i] \in Frames)
    OBVIOUS
  <2>. QED BY <2>1, <2>2, SubSeqProperties
<1>2. SubSeq(q, 1, k) \o SubSeq(q, k + 1, Len(q)) = SubSeq(q, 1, Len(q))
  <2>1. Len(q) \in Nat /\ 1 \in 1..(Len(q) + 1) /\ k \in (1 - 1)..Len(q)
        /\ Len(q) \in k..Len(q)
    OBVIOUS
  <2>. QED BY <2>1, ConcatAdjacentSubSeq
<1>3. SubSeq(q, 1, Len(q)) = q
  BY SubSeqFull
<1>. DEFINE a == SubSeq(q, 1, k)
            b == SubSeq(q, k + 1, Len(q))
<1>. HIDE DEF a, b
<1>4. a \in Seq(Frames) /\ b \in Seq(Frames) /\ a \o b = q
  BY <1>1, <1>2, <1>3 DEF a, b
<1>5. Count(f, q) = Count(f, a) + Count(f, b)
  BY <1>4, CountConcat
<1>. QED BY <1>1, <1>5 DEF a, b

\* The frame after the cut.
LEMMA CountNext ==
    ASSUME NEW q \in Seq(Frames), NEW k \in 0..(Len(q) - 1), NEW f
    PROVE  /\ q[k + 1] \in Frames
           /\ SubSeq(q, k + 2, Len(q)) \in Seq(Frames)
           /\ Count(f, SubSeq(q, k + 1, Len(q)))
                 = Holds(f, q[k + 1]) + Count(f, SubSeq(q, k + 2, Len(q)))
<1>. DEFINE r == SubSeq(q, k + 1, Len(q))
<1>1. /\ r \in Seq(Frames) /\ r # <<>> /\ Head(r) = q[k + 1]
      /\ Tail(r) = SubSeq(q, k + 2, Len(q)) /\ q[k + 1] \in Frames
  <2>1. k + 1 \in 1..Len(q) /\ Len(q) \in (k + 1)..Len(q) /\ k + 1 + 1 = k + 2
    OBVIOUS
  <2>2. Head(r) = q[k + 1] /\ Tail(r) = SubSeq(q, k + 2, Len(q))
    BY <2>1, HeadTailOfSubSeq
  <2>3. r \in Seq(Frames) /\ Len(r) = Len(q) - k /\ q[k + 1] \in Frames
    <3>1. k + 1 \in Int /\ Len(q) \in Int /\ k + 1 <= Len(q)
      OBVIOUS
    <3>2. \A i \in (k + 1)..Len(q) : q[i] \in Frames
      OBVIOUS
    <3>3. /\ r \in Seq(Frames)
          /\ Len(r) = IF k + 1 <= Len(q) THEN Len(q) - (k + 1) + 1 ELSE 0
      BY <3>1, <3>2, SubSeqProperties
    <3>. QED BY <3>1, <3>2, <3>3
  <2>. HIDE DEF r
  <2>4. Len(r) # 0
    BY <2>1, <2>3
  <2>5. r # <<>>
    BY <2>4
  <2>. QED BY <2>2, <2>3, <2>5
<1>. HIDE DEF r
<1>2. Tail(r) \in Seq(Frames) /\ Count(f, r) = Holds(f, Head(r)) + Count(f, Tail(r))
  BY <1>1, CountTail
<1>. QED BY <1>1, <1>2 DEF r

\* A read consumes a frame, in part or as a whole.
LEMMA ReadConsumeStep ==
    ASSUME IInv, ReadConsume, MutexFree, rd.pc = "run", Buffered # <<>>,
           UNCHANGED <<drv, infr, w, left>>
    PROVE  IInv'
<1>. DEFINE q     == Buffered
            avail == Len(q) * InfoLen - peer.offset
            need  == rd.want - rd.got
            n     == IF need < avail THEN need ELSE avail
            end   == peer.offset + n
            k     == end \div InfoLen
            part  == end % InfoLen # 0
            S     == ToSet(SubSeq(q, 1, k))
            pool1 == Release(pool, S)
            rest  == SubSeq(q, IF part THEN k + 2 ELSE k + 1, Len(q))
            pfr   == IF part THEN q[k + 1] ELSE None
<1>1. /\ pool' = pool1
      /\ peer' = [peer EXCEPT !.partial = pfr, !.offset = OffsetAfter(end), !.recept = rest]
      /\ rd' = IF n = need \/ ~peer.conn
                 THEN IdleReader ELSE [rd EXCEPT !.got = @ + n, !.pc = "wait"]
      /\ tx' = [tx EXCEPT !.evt = @ \/ (k > 0 /\ peer.busy /\ ~pool1.low)]
  BY DEF ReadConsume
<1>2. /\ peer \in PeerType /\ rd \in ReaderType /\ tx \in TxType
      /\ peer.offset \in 0..(InfoLen - 1) /\ tx.fp = None /\ tx.pc # "gate"
      /\ rd.want \in Nat /\ rd.got \in Nat /\ rd.got < rd.want
  BY DEF IInv, Types, PeerType, ReaderType, Roles, MutexFree
<1>3. /\ q \in Seq(Frames) /\ q # <<>>
      /\ \A f \in Frames : Count(f, q) = Count(f, peer.recept) + Holds(f, peer.partial)
  BY BufferedFacts
<1>. HIDE DEF q
<1>4. Len(q) \in Nat \ {0}
  BY <1>3
<1>5. /\ need \in Nat /\ need >= 1 /\ n \in Nat /\ n <= avail /\ n <= need
  <2>. DEFINE m == Len(q) * InfoLen
  <2>1. m \in Nat /\ m >= InfoLen
    BY <1>4, SizeAssumption, SMTT(30)
  <2>. HIDE DEF m
  <2>2. avail \in Nat
    <3>1. avail = m - peer.offset
      BY DEF m
    <3>. HIDE DEF avail
    <3>. QED BY <1>2, <2>1, <3>1, SizeAssumption
  <2>. HIDE DEF avail
  <2>. QED BY <1>2, <2>2
<1>6. /\ end \in Nat /\ k \in 0..Len(q) /\ OffsetAfter(end) \in 0..(InfoLen - 1)
      /\ part => k + 1 <= Len(q)
  BY <1>2, <1>4, <1>5, ReadEnd DEF OffsetAfter
<1>. HIDE DEF avail, need, end, k, part, n
<1>7. /\ rest \in Seq(Frames) /\ pfr \in Frames \cup {None}
      /\ SubSeq(q, 1, k) \in Seq(Frames)
      /\ \A f \in Frames :
            Count(f, q) = Count(f, SubSeq(q, 1, k)) + Holds(f, pfr) + Count(f, rest)
  <2>1. /\ SubSeq(q, 1, k) \in Seq(Frames) /\ SubSeq(q, k + 1, Len(q)) \in Seq(Frames)
        /\ \A f \in Frames : Count(f, q) = Count(f, SubSeq(q, 1, k))
                                           + Count(f, SubSeq(q, k + 1, Len(q)))
    BY <1>3, <1>6, CountCut
  <2>2. \A f \in Frames : /\ Count(f, SubSeq(q, 1, k)) \in Nat
                          /\ Count(f, SubSeq(q, k + 1, Len(q))) \in Nat
                          /\ Holds(f, None) = 0
    BY <2>1, PlacesFinite, PoolAssumption DEF Holds
  <2>3. CASE ~part
    <3>1. rest = SubSeq(q, k + 1, Len(q)) /\ pfr = None
      BY <2>3
    <3>. HIDE DEF rest, pfr
    <3>. QED BY <2>1, <2>2, <3>1
  <2>4. CASE part
    <3>1. rest = SubSeq(q, k + 2, Len(q)) /\ pfr = q[k + 1]
      BY <2>4
    <3>. HIDE DEF rest, pfr
    <3>2. k \in 0..(Len(q) - 1)
      BY <1>4, <1>6, <2>4
    <3>3. /\ pfr \in Frames /\ rest \in Seq(Frames)
          /\ \A f \in Frames :
                Count(f, SubSeq(q, k + 1, Len(q))) = Holds(f, pfr) + Count(f, rest)
      BY <1>3, <3>1, <3>2, CountNext
    <3>4. \A f \in Frames : Holds(f, pfr) \in Nat /\ Count(f, rest) \in Nat
      BY <3>3, PlacesFinite DEF Holds
    <3>5. ASSUME NEW f \in Frames
          PROVE  Count(f, q) = Count(f, SubSeq(q, 1, k)) + Holds(f, pfr) + Count(f, rest)
      <4>. DEFINE a == Count(f, SubSeq(q, 1, k))
      <4>1. Count(f, q) = a + (Holds(f, pfr) + Count(f, rest)) /\ a \in Nat
        BY <2>1, <2>2, <3>3
      <4>. HIDE DEF a
      <4>2. Count(f, q) = a + Holds(f, pfr) + Count(f, rest)
        BY <3>4, <4>1
      <4>. QED BY <4>2 DEF a
    <3>. QED BY <2>1, <3>3, <3>5
  <2>. QED BY <2>3, <2>4
<1>. HIDE DEF rest, pfr
<1>8. /\ S \in SUBSET Frames
      /\ \A f \in Frames : /\ f \in S <=> Count(f, SubSeq(q, 1, k)) >= 1
                           /\ Count(f, SubSeq(q, 1, k)) \in Nat
                           /\ Count(f, rest) \in Nat /\ Holds(f, pfr) \in Nat
  BY <1>7, ToSetFrames, CountMember, PlacesFinite DEF Holds
<1>. HIDE DEF S
<1>9. \A f \in Frames :
         Count(f, peer.recept) + Holds(f, peer.partial)
            = Count(f, SubSeq(q, 1, k)) + Holds(f, pfr) + Count(f, rest)
  BY <1>3, <1>7
<1>10. \A f \in S : pool.refs[f] >= 1
  <2>. SUFFICES ASSUME NEW f \in Frames, f \in S PROVE pool.refs[f] >= 1
    BY <1>8
  <2>1. CountsOK(f) /\ pool.refs[f] = Owned(f) + Count(f, drv)
    BY StreamSum
  <2>2. Count(f, peer.recept) + Holds(f, peer.partial) >= 1
    BY <1>8, <1>9
  <2>. QED BY <2>1, <2>2 DEF CountsOK, Owned, Streamed
<1>11. /\ pool' \in PoolType /\ WatermarkOK(pool)'
       /\ \A f \in Frames :
             /\ pool'.refs[f] = IF f \in S THEN pool.refs[f] - 1 ELSE pool.refs[f]
             /\ pool'.refs[f] # 0 => pool'.born[f] = pool.born[f]
  <2>1. pool \in PoolType /\ WatermarkOK(pool)
    BY DEF IInv, Types
  <2>. QED BY <1>1, <1>8, <1>10, <2>1, ReleaseFacts DEF WatermarkOK
<1>. HIDE DEF pool1
<1>12. /\ peer' \in PeerType /\ peer'.trans = peer.trans /\ peer'.retrans = peer.retrans
       /\ peer'.recept = rest /\ peer'.partial = pfr
       /\ peer'.pending = peer.pending /\ peer'.sess = peer.sess /\ peer'.conn = peer.conn
       /\ peer'.sending = peer.sending /\ peer'.terminal = peer.terminal
  BY <1>1, <1>2, <1>6, <1>7 DEF PeerType
<1>13. tx' \in TxType /\ tx'.pc = tx.pc /\ tx'.fp = tx.fp
  BY <1>1, <1>2 DEF TxType
<1>14. rd' \in ReaderType /\ (rd'.pc # "idle" => rd'.got < rd'.want)
  <2>1. CASE rd' = IdleReader
    BY <2>1 DEF IdleReader, ReaderType
  <2>2. CASE n # need /\ rd' = [rd EXCEPT !.got = @ + n, !.pc = "wait"]
    <3>1. rd.got + n \in Nat /\ rd.got + n < rd.want
      BY <1>2, <1>5, <2>2 DEF need
    <3>. QED BY <1>2, <2>2, <3>1 DEF ReaderType
  <2>. QED BY <1>1, <2>1, <2>2
<1>15. Types'
  BY <1>11, <1>12, <1>13, <1>14 DEF IInv, Types
<1>16. Roles' /\ Admitted'
  BY <1>12, <1>13, <1>14 DEF IInv, Roles, Admitted, Reset
<1>17. \A f \in Frames :
          /\ Streamed(f) = Streamed(f)' + Count(f, SubSeq(q, 1, k))
          /\ Owned(f) = Owned(f)' + Count(f, SubSeq(q, 1, k))
          /\ Streamed(f)' \in Nat /\ Owned(f)' \in Nat
          /\ Count(f, drv)' = Count(f, drv)
  <2>. SUFFICES ASSUME NEW f \in Frames
                PROVE  /\ Streamed(f) = Streamed(f)' + Count(f, SubSeq(q, 1, k))
                       /\ Owned(f) = Owned(f)' + Count(f, SubSeq(q, 1, k))
                       /\ Streamed(f)' \in Nat /\ Owned(f)' \in Nat
                       /\ Count(f, drv)' = Count(f, drv)
    OBVIOUS
  <2>. DEFINE c  == Count(f, SubSeq(q, 1, k))
              t  == Count(f, peer.trans)
              r  == Count(f, peer.retrans)
              c1 == Count(f, peer.recept)
              p1 == Holds(f, peer.partial)
              c2 == Count(f, rest)
              p2 == Holds(f, pfr)
              x  == Holds(f, tx.fp)
              i  == Holds(f, infr)
              v  == Holds(f, w.fp)
  <2>1. t \in Nat /\ r \in Nat /\ c1 \in Nat /\ p1 \in Nat /\ x \in Nat /\ i \in Nat /\ v \in Nat
    BY StreamSum DEF CountsOK
  <2>2. c \in Nat /\ c2 \in Nat /\ p2 \in Nat /\ c1 + p1 = c + p2 + c2
    BY <1>8, <1>9
  <2>3. Streamed(f) = t + r + c1 + p1 + x /\ Owned(f) = Streamed(f) + i + v
    BY DEF Streamed, Owned
  <2>4. Streamed(f)' = t + r + c2 + p2 + x
    BY <1>12, <1>13 DEF Streamed
  <2>5. Owned(f)' = Streamed(f)' + i + v
    BY DEF Owned
  <2>. HIDE DEF c, t, r, c1, p1, c2, p2, x, i, v
  <2>6. Streamed(f)' \in Nat /\ Streamed(f) = Streamed(f)' + c
    BY <2>1, <2>2, <2>3, <2>4
  <2>7. Owned(f)' \in Nat /\ Owned(f) = Owned(f)' + c
    BY <2>1, <2>2, <2>3, <2>5, <2>6
  <2>. QED BY <2>6, <2>7 DEF c
<1>18. Balanced'
  <2>. SUFFICES ASSUME NEW f \in Frames
                PROVE  pool'.refs[f] = Owned(f)' + Count(f, drv)'
                       /\ Owned(f)' <= 1 /\ Count(f, drv)' <= 1
    BY DEF Balanced
  <2>1. /\ pool.refs[f] = Owned(f) + Count(f, drv) /\ Owned(f) <= 1
        /\ Count(f, drv) <= 1 /\ Owned(f) \in Nat /\ Count(f, drv) \in Nat
    BY StreamSum DEF CountsOK
  <2>. QED BY <1>8, <1>11, <1>17, <2>1
<1>19. OfSession'
  <2>1. \A f \in Frames : Streamed(f)' <= Streamed(f)
    BY <1>8, <1>17
  <2>2. \A f \in Frames : Streamed(f)' >= 1 => pool'.born[f] = peer'.sess
    BY <1>11, <1>12, <1>15, <1>18, <2>1, StreamKept
  <2>. QED BY <1>12, <1>13, <2>2 DEF IInv, OfSession
<1>. QED BY <1>11, <1>15, <1>16, <1>18, <1>19 DEF IInv

\* A pass of the read loop, whether it consumes anything or not.
LEMMA ReadRunStep ==
    ASSUME IInv, ReadRun
    PROVE  IInv'
<1>1. CASE Buffered # <<>> /\ ReadConsume
  BY <1>1, ReadConsumeStep DEF ReadRun
<1>2. CASE /\ rd' \in {IdleReader, [rd EXCEPT !.pc = "wait"]}
           /\ UNCHANGED peer \/ TellEnd
           /\ UNCHANGED <<pool, tx, drv, infr, w>>
  <2>1. rd' \in ReaderType /\ (rd'.pc # "idle" => rd'.got < rd'.want)
    BY <1>2 DEF IInv, Types, ReaderType, Roles, IdleReader, ReadRun
  <2>2. /\ peer' \in PeerType /\ peer'.trans = peer.trans
        /\ peer'.retrans = peer.retrans /\ peer'.recept = peer.recept
        /\ peer'.partial = peer.partial /\ peer'.pending = peer.pending
        /\ peer'.sess = peer.sess /\ peer'.conn = peer.conn
        /\ peer'.sending = peer.sending /\ (Reset' <=> Reset)
    <3>1. CASE UNCHANGED peer
      BY <3>1 DEF IInv, Types, Reset, PeerType
    <3>2. CASE TellEnd
      BY <3>2 DEF IInv, Types, Reset, PeerType, TellEnd, RxTerminal
    <3>. QED BY <1>2, <3>1, <3>2
  <2>3. Types'
    BY <1>2, <2>1, <2>2 DEF IInv, Types
  <2>4. Roles' /\ Admitted'
    BY <1>2, <2>1, <2>2 DEF IInv, Roles, Admitted
  <2>5. Balanced' /\ OfSession' /\ WatermarkOK(pool)'
    BY <1>2, <2>2, FramesUnmoved
  <2>. QED BY <2>3, <2>4, <2>5 DEF IInv
<1>. QED BY <1>1, <1>2 DEF ReadRun

-----------------------------------------------------------------------------
(* The invariants of HdlcStreamIO.                                         *)

\* Every step keeps the inductive invariant.
LEMMA NextIInv == IInv /\ [Next]_vars => IInv'
<1>. SUFFICES ASSUME IInv, [Next]_vars PROVE IInv'
  OBVIOUS
<1>1. CASE WriterStep
  BY <1>1, WriteLoopStep, WriteTimeoutStep, WriteQueueStep, WriteDoneStep DEF WriterStep
<1>2. CASE ReaderStep
  BY <1>2, ReadRunStep, ReadTimeoutStep DEF ReaderStep
<1>3. CASE TxStep
  BY <1>3, TxWakeStep, TxSendStep, TxGateOpenStep, TxTailStep DEF TxStep
<1>4. CASE Remote
  BY <1>4, RxTakeStep, RxDeliverStep, AckStep, RetransmitStep DEF Remote
<1>5. CASE Connection
  BY <1>5, LinkDownStep, LinkUpStep DEF Connection
<1>6. CASE WriteBegin \/ ReadBegin
  BY <1>6, WriteBeginStep, ReadBeginStep
<1>7. CASE TxDone \/ TxError
  BY <1>7, TxDoneStep, TxErrorStep
<1>8. CASE UNCHANGED vars
  <2>1. Types' /\ Roles' /\ Admitted'
    BY <1>8 DEF vars, IInv, Types, Roles, Admitted, Reset
  <2>2. Balanced' /\ OfSession' /\ WatermarkOK(pool)'
    BY <1>8, FramesUnmoved DEF vars
  <2>. QED BY <2>1, <2>2 DEF IInv
<1>. QED BY <1>1, <1>2, <1>3, <1>4, <1>5, <1>6, <1>7, <1>8 DEF Next

\* The inductive invariant holds of every behaviour of the stream.
LEMMA SpecIInv == Spec => []IInv
<1>1. Init => IInv
  BY InitIInv
<1>2. IInv /\ [Next]_vars => IInv'
  BY NextIInv
<1>. QED BY <1>1, <1>2, PTL DEF Spec

\* Queues, threads and pool keep their types in every configuration.
THEOREM TypeCorrect == Spec => []TypeOK
<1>1. IInv => TypeOK
  BY DEF IInv, Types, TypeOK, PoolType, PeerType, WriterType, ReaderType, TxType
<1>. QED BY <1>1, SpecIInv, PTL

\* Every reference to a frame of the pool has a holder and every holder a
\* reference: whatever the order of writes, reads, transmissions, transport
\* errors, acknowledgements and resets, no frame leaks and none is freed in use.
THEOREM ReferencesBalance == Spec => []RefsBalanced
<1>1. IInv => RefsBalanced
  <2>. SUFFICES ASSUME IInv PROVE RefsBalanced
    OBVIOUS
  <2>1. TypeOK
    BY DEF IInv, Types, TypeOK, PoolType, PeerType, WriterType, ReaderType, TxType
  <2>2. ASSUME NEW f \in Frames
        PROVE  pool.refs[f] =
                  Count(f, peer.trans \o peer.retrans \o peer.recept \o drv)
                  + Holds(f, peer.partial) + Holds(f, infr)
                  + Holds(f, w.fp) + Holds(f, tx.fp)
    <3>. DEFINE a == peer.trans \o peer.retrans
                b == a \o peer.recept
    <3>1. /\ peer.trans \in Seq(Frames) /\ peer.retrans \in Seq(Frames)
          /\ peer.recept \in Seq(Frames) /\ drv \in Seq(Frames)
      BY DEF IInv, Types, PeerType
    <3>2. a \in Seq(Frames) /\ Count(f, a) = Count(f, peer.trans) + Count(f, peer.retrans)
      BY <3>1, CountConcat
    <3>. HIDE DEF a
    <3>3. b \in Seq(Frames) /\ Count(f, b) = Count(f, a) + Count(f, peer.recept)
      BY <3>1, <3>2, CountConcat
    <3>. HIDE DEF b
    <3>4. Count(f, b \o drv) = Count(f, b) + Count(f, drv)
      BY <3>1, <3>3, CountConcat
    <3>5. CountsOK(f) /\ pool.refs[f] = Owned(f) + Count(f, drv)
      BY StreamSum
    <3>6. pool.refs[f] = Count(f, b \o drv)
                         + Holds(f, peer.partial) + Holds(f, infr)
                         + Holds(f, w.fp) + Holds(f, tx.fp)
      BY <3>2, <3>3, <3>4, <3>5 DEF CountsOK, Owned, Streamed
    <3>. QED BY <3>6 DEF a, b
  <2>. QED BY <2>1, <2>2 DEF RefsBalanced
<1>. QED BY <1>1, SpecIInv, PTL

\* The transmit gate keeps a frame from being committed to the driver twice,
\* for every send window, also when a retransmission overtakes the end of the
\* first transmission.
THEOREM CommittedOnce == Spec => []GateExclusive
<1>1. IInv => GateExclusive
  BY DEF IInv, Balanced, GateExclusive
<1>. QED BY <1>1, SpecIInv, PTL

\* The assertion of ioHdlcWriteVTmo holds: no reset of an earlier connection is
\* left when a writer is admitted.
THEOREM ResetReported == Spec => []NoStaleTxReset
<1>1. IInv => NoStaleTxReset
  BY DEF IInv, Admitted, NoStaleTxReset
<1>. QED BY <1>1, SpecIInv, PTL

\* Octets of one connection neither go out nor are read in another one, and
\* i_pending_count counts the queued frames.
THEOREM StreamsSeparate == Spec => []OneStream
<1>1. IInv => OneStream
  <2>. SUFFICES ASSUME IInv PROVE OneStream
    OBVIOUS
  <2>1. /\ peer.trans \in Seq(Frames) /\ peer.retrans \in Seq(Frames)
        /\ Buffered \in Seq(Frames)
    BY BufferedFacts DEF IInv, Types, PeerType
  <2>. DEFINE a == peer.trans \o peer.retrans
  <2>2. a \in Seq(Frames) /\ Len(a) = Len(peer.trans) + Len(peer.retrans)
    BY <2>1
  <2>3. ASSUME NEW f \in Frames, f \in ToSet(a \o Buffered)
        PROVE  pool.born[f] = peer.sess
    <3>1. Count(f, a) = Count(f, peer.trans) + Count(f, peer.retrans)
      BY <2>1, CountConcat
    <3>. HIDE DEF a
    <3>2. a \o Buffered \in Seq(Frames)
          /\ Count(f, a \o Buffered) = Count(f, a) + Count(f, Buffered)
      BY <2>1, <2>2, CountConcat
    <3>3. Count(f, a \o Buffered) >= 1
      BY <2>3, <3>2, CountMember
    <3>4. Count(f, Buffered) = Count(f, peer.recept) + Holds(f, peer.partial)
      BY BufferedFacts
    <3>5. CountsOK(f)
      BY StreamSum
    <3>6. Streamed(f) >= 1
      BY <3>1, <3>2, <3>3, <3>4, <3>5 DEF CountsOK, Streamed
    <3>. QED BY <3>6 DEF IInv, OfSession
  <2>4. ToSet(a \o Buffered) \in SUBSET Frames
    <3>. HIDE DEF a
    <3>1. a \o Buffered \in Seq(Frames)
      BY <2>1, <2>2
    <3>. QED BY <3>1, ToSetFrames
  <2>5. peer.pending = Len(a) + Holds("gate", tx.pc)
    BY <2>2 DEF IInv, OfSession, Holds
  <2>. QED BY <2>3, <2>4, <2>5 DEF OneStream
<1>. QED BY <1>1, SpecIInv, PTL

\* For every pair of watermarks a pool in the normal state has a free frame.
THEOREM NormalPoolHasFrames == Spec => []NormalMeansFree
<1>1. IInv => NormalMeansFree
  <2>. SUFFICES ASSUME IInv, ~pool.low PROVE FreeFrames(pool) # {}
    BY DEF NormalMeansFree
  <2>1. Cardinality(FreeFrames(pool)) > LowThreshold
    BY DEF IInv, WatermarkOK
  <2>2. Cardinality(FreeFrames(pool)) # 0
    BY <2>1, FreeFinite, PoolAssumption
  <2>. QED BY <2>2, FS_EmptySet
<1>. QED BY <1>1, SpecIInv, PTL

=============================================================================
