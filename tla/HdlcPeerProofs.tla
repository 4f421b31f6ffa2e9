--------------------------- MODULE HdlcPeerProofs ---------------------------
(***************************************************************************)
(* The operators of HdlcPeer keep the queues and sequence variables of a   *)
(* peer consistent, for every modulus and every window: one lemma for each *)
(* operator, and the arithmetic modulo Mod they rest on.                   *)
(***************************************************************************)
EXTENDS HdlcPeer, TLAPS

-----------------------------------------------------------------------------
(* Arithmetic modulo Mod.  Within two turns of the modulus it is linear.   *)

\* The remainder by cases, for the differences and sums of two numbers.
LEMMA ModCases ==
    ASSUME NEW a \in Int, a > -Mod, a < 2 * Mod
    PROVE  a % Mod = IF a < 0 THEN a + Mod
                     ELSE IF a < Mod THEN a ELSE a - Mod
BY ModAssumption, SMTT(30)

\* Brackets of a sum.
LEMMA AddOne ==
    ASSUME NEW a \in Nat, NEW b \in Nat, NEW c \in Nat
    PROVE  a + b + c + 1 = a + b + (c + 1)
OBVIOUS

\* What is left of a sequence after its first n elements.
LEMMA SuffixProperties ==
    ASSUME NEW S, NEW s \in Seq(S), NEW n \in 0..Len(s)
    PROVE  /\ SubSeq(s, n + 1, Len(s)) \in Seq(S)
           /\ Len(SubSeq(s, n + 1, Len(s))) = Len(s) - n
           /\ \A i \in 1..(Len(s) - n) : SubSeq(s, n + 1, Len(s))[i] = s[i + n]
OBVIOUS

\* A remainder is a sequence number.
LEMMA ModRange ==
    ASSUME NEW a \in Int
    PROVE  a % Mod \in SeqNum
BY ModAssumption, SMTT(30) DEF SeqNum

\* Quotient and remainder.
LEMMA ModQuotient ==
    ASSUME NEW a \in Int
    PROVE  /\ a = Mod * (a \div Mod) + (a % Mod)
           /\ (a \div Mod) \in Int
           /\ a % Mod \in 0..(Mod - 1)
BY ModAssumption, SMTT(30)

\* A positive multiple of Mod is no smaller than Mod.
LEMMA MultiplePositive ==
    ASSUME NEW k \in Int, k >= 1
    PROVE  Mod * k >= Mod
BY ModAssumption, SMTT(30)

\* A negative multiple of Mod is no larger than -Mod.
LEMMA MultipleNegative ==
    ASSUME NEW k \in Int, k <= -1
    PROVE  Mod * k <= -Mod
BY ModAssumption, SMTT(30)

\* The remainder is unique.
LEMMA ModUnique ==
    ASSUME NEW a \in Int, NEW q \in Int, NEW r \in 0..(Mod - 1),
           a = Mod * q + r
    PROVE  a % Mod = r
<1>. DEFINE p == a \div Mod
            t == a % Mod
<1>. HIDE DEF p, t
<1>1. a = Mod * p + t /\ p \in Int /\ t \in 0..(Mod - 1)
  BY ModQuotient DEF p, t
<1>2. Mod * (q - p) = t - r
  BY <1>1, ModAssumption, SMTT(30)
<1>3. CASE q - p >= 1
  BY <1>1, <1>2, <1>3, MultiplePositive, ModAssumption
<1>4. CASE q - p <= -1
  BY <1>1, <1>2, <1>4, MultipleNegative, ModAssumption
<1>5. CASE q = p
  BY <1>1, <1>5, ModAssumption DEF t
<1>. QED BY <1>1, <1>3, <1>4, <1>5

\* Counting on from a is counting on from its remainder.
LEMMA ModAdd ==
    ASSUME NEW a \in Nat, NEW n \in 0..(Mod - 1)
    PROVE  (a + n) % Mod = ((a % Mod) + n) % Mod
<1>. DEFINE q == a \div Mod
            r == a % Mod
<1>. HIDE DEF q, r
<1>1. a = Mod * q + r /\ q \in Int /\ r \in 0..(Mod - 1)
  BY ModQuotient DEF q, r
<1>2. CASE r + n < Mod
  <2>1. (r + n) % Mod = r + n
    BY <1>1, <1>2, ModAssumption, SMTT(30)
  <2>2. /\ r + n \in 0..(Mod - 1)
        /\ a + n = Mod * q + (r + n)
        /\ a + n \in Int
    BY <1>1, <1>2, ModAssumption, SMTT(30)
  <2>3. (a + n) % Mod = r + n
    BY <2>2, <1>1, ModUnique
  <2>. QED BY <2>1, <2>3 DEF r
<1>3. CASE r + n >= Mod
  <2>1. (r + n) % Mod = r + n - Mod
    BY <1>1, <1>3, ModAssumption, SMTT(30)
  <2>2. /\ r + n - Mod \in 0..(Mod - 1)
        /\ a + n = Mod * (q + 1) + (r + n - Mod)
        /\ a + n \in Int /\ q + 1 \in Int
    BY <1>1, <1>3, ModAssumption, SMTT(30)
  <2>3. (a + n) % Mod = r + n - Mod
    BY <2>2, ModUnique
  <2>. QED BY <2>1, <2>3 DEF r
<1>. QED BY <1>1, <1>2, <1>3, ModAssumption

\* The distance between two numbers, by cases.
LEMMA DistCases ==
    ASSUME NEW a \in SeqNum, NEW b \in SeqNum
    PROVE  Dist(a, b) = IF b < a THEN b - a + Mod ELSE b - a
BY ModCases, ModAssumption DEF Dist, SeqNum

\* The successor of a number, by cases.
LEMMA IncCases ==
    ASSUME NEW a \in SeqNum
    PROVE  Inc(a) = IF a = Mod - 1 THEN 0 ELSE a + 1
BY ModCases, ModAssumption DEF Inc, SeqNum

\* The successor of a number is a number.
LEMMA IncRange ==
    ASSUME NEW a \in SeqNum
    PROVE  Inc(a) \in SeqNum
BY IncCases, ModAssumption DEF SeqNum

\* Counting on from a number by less than a turn, by cases.
LEMMA AddCases ==
    ASSUME NEW a \in SeqNum, NEW n \in 0..Mod
    PROVE  (a + n) % Mod = IF a + n < Mod THEN a + n ELSE a + n - Mod
BY ModCases, ModAssumption DEF SeqNum

\* A distance is a sequence number, counted on from its start.
LEMMA DistAdd ==
    ASSUME NEW a \in SeqNum, NEW b \in SeqNum
    PROVE  Dist(a, b) \in SeqNum /\ (a + Dist(a, b)) % Mod = b
<1>1. Dist(a, b) \in SeqNum
  BY DistCases, ModAssumption DEF SeqNum
<1>2. Dist(a, b) \in 0..Mod
  BY <1>1, ModAssumption DEF SeqNum
<1>3. (a + Dist(a, b)) % Mod =
          IF a + Dist(a, b) < Mod THEN a + Dist(a, b) ELSE a + Dist(a, b) - Mod
  BY <1>2, AddCases
<1>. QED BY <1>1, <1>3, DistCases, ModAssumption DEF SeqNum

\* The i-th number after a is the (i-1)-th after its successor.
LEMMA IncAdd ==
    ASSUME NEW a \in SeqNum, NEW i \in 1..Mod
    PROVE  (Inc(a) + (i - 1)) % Mod = (a + i) % Mod
<1>1. Inc(a) = IF a = Mod - 1 THEN 0 ELSE a + 1
  BY IncCases
<1>2. Inc(a) \in SeqNum /\ i \in 0..Mod /\ i - 1 \in 0..Mod
  BY <1>1, ModAssumption DEF SeqNum
<1>3. (a + i) % Mod = IF a + i < Mod THEN a + i ELSE a + i - Mod
  BY <1>2, AddCases
<1>4. (Inc(a) + (i - 1)) % Mod =
          IF Inc(a) + (i - 1) < Mod THEN Inc(a) + (i - 1)
          ELSE Inc(a) + (i - 1) - Mod
  BY <1>2, AddCases
<1>. QED BY <1>1, <1>3, <1>4, ModAssumption DEF SeqNum

\* Counting on in two stages.
LEMMA AddAdd ==
    ASSUME NEW a \in SeqNum, NEW n \in Nat, NEW k \in Nat, n + k <= Mod
    PROVE  (((a + n) % Mod) + k) % Mod = (a + (n + k)) % Mod
<1>1. n \in 0..Mod /\ k \in 0..Mod /\ n + k \in 0..Mod
  BY ModAssumption
<1>. DEFINE b == (a + n) % Mod
<1>2. b = IF a + n < Mod THEN a + n ELSE a + n - Mod
  BY <1>1, AddCases
<1>3. (a + (n + k)) % Mod =
          IF a + (n + k) < Mod THEN a + (n + k) ELSE a + (n + k) - Mod
  BY <1>1, AddCases
<1>. HIDE DEF b
<1>4. b \in SeqNum
  BY <1>1, <1>2, ModAssumption DEF SeqNum
<1>5. (b + k) % Mod = IF b + k < Mod THEN b + k ELSE b + k - Mod
  BY <1>1, <1>4, AddCases
<1>6. (b + k) % Mod = (a + (n + k)) % Mod
  BY <1>1, <1>2, <1>3, <1>4, <1>5, ModAssumption DEF SeqNum
<1>. QED BY <1>6 DEF b

\* Sending one frame: one more outstanding, one less to send again.
LEMMA SendArithmetic ==
    ASSUME NEW vs \in SeqNum, NEW nr \in SeqNum, NEW vh \in SeqNum,
           NEW vh1, vh1 = IF vs = vh THEN Inc(vs) ELSE vh,
           Dist(nr, vs) < Ks, Dist(nr, vs) + Dist(vs, vh) <= Ks
    PROVE  /\ Dist(nr, Inc(vs)) = Dist(nr, vs) + 1
           /\ Dist(Inc(vs), vh1) =
                  IF Dist(vs, vh) = 0 THEN 0 ELSE Dist(vs, vh) - 1
           /\ Dist(nr, vh1) = Dist(nr, Inc(vs)) + Dist(Inc(vs), vh1)
           /\ Dist(nr, vh1) <= Ks
<1>1. Mod \in Nat /\ Mod >= 2 /\ Ks \in Nat /\ Ks <= Mod - 1
  BY ModAssumption, KsAssumption
<1>2. Inc(vs) = IF vs = Mod - 1 THEN 0 ELSE vs + 1
  BY IncCases
<1>3. Inc(vs) \in SeqNum /\ vh1 \in SeqNum
  BY <1>1, <1>2 DEF SeqNum
<1>4. /\ Dist(nr, vs) = IF vs < nr THEN vs - nr + Mod ELSE vs - nr
      /\ Dist(vs, vh) = IF vh < vs THEN vh - vs + Mod ELSE vh - vs
  BY DistCases
<1>5. /\ Dist(nr, Inc(vs)) =
             IF Inc(vs) < nr THEN Inc(vs) - nr + Mod ELSE Inc(vs) - nr
      /\ Dist(Inc(vs), vh1) =
             IF vh1 < Inc(vs) THEN vh1 - Inc(vs) + Mod ELSE vh1 - Inc(vs)
      /\ Dist(nr, vh1) = IF vh1 < nr THEN vh1 - nr + Mod ELSE vh1 - nr
  BY <1>3, DistCases
<1>6. Dist(nr, Inc(vs)) = Dist(nr, vs) + 1
  BY <1>1, <1>2, <1>3, <1>4, <1>5 DEF SeqNum
<1>7. Dist(Inc(vs), vh1) = IF Dist(vs, vh) = 0 THEN 0 ELSE Dist(vs, vh) - 1
  BY <1>1, <1>2, <1>3, <1>4, <1>5 DEF SeqNum
<1>8. Dist(nr, vh1) = Dist(nr, Inc(vs)) + Dist(Inc(vs), vh1)
  BY <1>1, <1>2, <1>3, <1>4, <1>5, <1>6, <1>7 DEF SeqNum
<1>9. Dist(nr, vs) \in SeqNum /\ Dist(vs, vh) \in SeqNum
  BY DistAdd
<1>10. Dist(nr, vh1) <= Ks
  BY <1>1, <1>6, <1>7, <1>8, <1>9 DEF SeqNum
<1>. QED BY <1>6, <1>7, <1>8, <1>10

\* Releasing n outstanding frames: n fewer outstanding.
LEMMA AckArithmetic ==
    ASSUME NEW vs \in SeqNum, NEW nr \in SeqNum, NEW vh \in SeqNum,
           NEW n \in 0..Dist(nr, vs), NEW nr1, nr1 = (nr + n) % Mod,
           Dist(nr, vs) + Dist(vs, vh) = Dist(nr, vh)
    PROVE  /\ nr1 \in SeqNum
           /\ Dist(nr1, vs) = Dist(nr, vs) - n
           /\ Dist(nr1, vh) = Dist(nr, vh) - n
<1>1. Dist(nr, vs) \in SeqNum /\ Dist(nr, vh) \in SeqNum
  BY DistAdd
<1>2. n \in 0..Mod
  BY <1>1, ModAssumption DEF SeqNum
<1>3. nr1 = IF nr + n < Mod THEN nr + n ELSE nr + n - Mod
  BY <1>2, AddCases
<1>4. nr1 \in SeqNum
  BY <1>2, <1>3, ModAssumption DEF SeqNum
<1>5. /\ Dist(nr, vs) = IF vs < nr THEN vs - nr + Mod ELSE vs - nr
      /\ Dist(vs, vh) = IF vh < vs THEN vh - vs + Mod ELSE vh - vs
      /\ Dist(nr, vh) = IF vh < nr THEN vh - nr + Mod ELSE vh - nr
  BY DistCases
<1>6. /\ Dist(nr1, vs) = IF vs < nr1 THEN vs - nr1 + Mod ELSE vs - nr1
      /\ Dist(nr1, vh) = IF vh < nr1 THEN vh - nr1 + Mod ELSE vh - nr1
  BY <1>4, DistCases
<1>. QED BY <1>2, <1>3, <1>4, <1>5, <1>6, ModAssumption DEF SeqNum

-----------------------------------------------------------------------------
(* The operators of HdlcPeer preserve PeerConsistent.                      *)

\* Where the frames of two joined queues are.
LEMMA ConcatIndex ==
    ASSUME NEW S, NEW s \in Seq(S), NEW t \in Seq(S)
    PROVE  /\ s \o t \in Seq(S)
           /\ Len(s \o t) = Len(s) + Len(t)
           /\ \A i \in 1..Len(s) : (s \o t)[i] = s[i]
           /\ \A i \in 1..Len(t) : (s \o t)[Len(s) + i] = t[i]
OBVIOUS

\* What the type of a peer gives.
LEMMA PeerFacts ==
    ASSUME NEW w \in PeerWindow
    PROVE  /\ w.i_trans_q \in Seq(Frame) /\ w.i_retrans_q \in Seq(Frame)
           /\ Len(w.i_trans_q) \in Nat /\ Len(w.i_retrans_q) \in Nat
           /\ w.vs \in SeqNum /\ w.nr \in SeqNum /\ w.vs_highest \in SeqNum
           /\ w.vs_atlast_pf \in SeqNum
           /\ w.i_pending_count \in Nat
           /\ Outstanding(w) \in SeqNum /\ Resend(w) \in SeqNum
<1>1. /\ w.i_trans_q \in Seq(Frame) /\ w.i_retrans_q \in Seq(Frame)
      /\ w.vs \in SeqNum /\ w.nr \in SeqNum /\ w.vs_highest \in SeqNum
      /\ w.vs_atlast_pf \in SeqNum
      /\ w.i_pending_count \in Nat
  BY DEF PeerWindow
<1>2. Len(w.i_trans_q) \in Nat /\ Len(w.i_retrans_q) \in Nat
  BY <1>1
<1>3. Outstanding(w) \in SeqNum /\ Resend(w) \in SeqNum
  BY <1>1, DistAdd DEF Outstanding, Resend
<1>. QED BY <1>1, <1>2, <1>3

\* Queuing a frame that continues the stream keeps the peer consistent.
LEMMA EnqueueConsistent ==
    ASSUME NEW w \in PeerWindow, NEW a \in Nat, NEW d \in Nat,
           PeerConsistent(w, a),
           d = a + Len(w.i_retrans_q) + Len(w.i_trans_q) + 1
    PROVE  /\ Enqueue(w, d) \in PeerWindow
           /\ PeerConsistent(Enqueue(w, d), a)
           /\ Len(Enqueue(w, d).i_trans_q) = Len(w.i_trans_q) + 1
           /\ Enqueue(w, d).i_retrans_q = w.i_retrans_q
           /\ Enqueue(w, d).i_pending_count = w.i_pending_count + 1
<1>. DEFINE f == [data |-> d, ns |-> NoNS]
            x == Enqueue(w, d)
            q == w.i_trans_q
<1>1. /\ q \in Seq(Frame) /\ w.i_retrans_q \in Seq(Frame)
      /\ Len(q) \in Nat /\ w.i_pending_count \in Nat
      /\ Resend(w) \in SeqNum
  BY PeerFacts
<1>2. d \in Nat \ {0}
  BY DEF PeerWindow
<1>3. f \in Frame /\ f.ns = NoNS /\ f.data = d
  BY <1>2 DEF Frame
<1>4. x = [w EXCEPT !.i_trans_q = Append(q, f),
                    !.i_pending_count = w.i_pending_count + 1]
  BY DEF Enqueue
<1>. HIDE DEF f, x
<1>5. Append(q, f) \in Seq(Frame) /\ w.i_pending_count + 1 \in Nat
  BY <1>1, <1>3
<1>6. /\ x.i_trans_q = Append(q, f)
      /\ x.i_pending_count = w.i_pending_count + 1
      /\ x.i_retrans_q = w.i_retrans_q
      /\ x.vs = w.vs /\ x.nr = w.nr /\ x.vs_highest = w.vs_highest
  BY <1>4 DEF PeerWindow
<1>7. x \in PeerWindow
  BY <1>4, <1>5 DEF PeerWindow
<1>8. /\ Len(x.i_trans_q) = Len(q) + 1
      /\ \A i \in 1..Len(q) : x.i_trans_q[i] = q[i]
      /\ x.i_trans_q[Len(q) + 1] = f
  BY <1>1, <1>3, <1>6
<1>9. Outstanding(x) = Outstanding(w) /\ Resend(x) = Resend(w)
  BY <1>6 DEF Outstanding, Resend
<1>10. OutstandingOK(x) /\ RetransOK(x) /\ CycleOK(x)
  BY <1>6, <1>9 DEF OutstandingOK, RetransOK, CycleOK, PeerConsistent
<1>11. TransOK(x)
  <2>1. Resend(w) <= Len(q) /\ Resend(w) \in Int
    BY <1>1, ModAssumption DEF TransOK, PeerConsistent, SeqNum
  <2>2. ASSUME NEW i \in 1..(Len(q) + 1)
        PROVE  x.i_trans_q[i].ns =
                   IF i <= Resend(w) THEN (w.vs + i - 1) % Mod ELSE NoNS
    <3>1. CASE i \in 1..Len(q)
      BY <3>1, <1>8 DEF TransOK, PeerConsistent
    <3>2. CASE i = Len(q) + 1
      <4>1. ~(i <= Resend(w))
        BY <3>2, <2>1 DEF PeerWindow
      <4>. QED BY <3>2, <4>1, <1>3, <1>8
    <3>. QED BY <3>1, <3>2 DEF PeerWindow
  <2>3. Resend(w) <= Len(q) + 1
    BY <2>1 DEF PeerWindow
  <2>. QED BY <1>6, <1>8, <1>9, <2>2, <2>3 DEF TransOK
<1>12. PendingOK(x)
  BY <1>6, <1>7, <1>8 DEF PendingOK, PeerConsistent, PeerWindow
<1>13. OrderOK(x, a)
  <2>1. ASSUME NEW i \in 1..Len(x.i_retrans_q)
        PROVE  x.i_retrans_q[i].data = a + i
    BY <1>6 DEF OrderOK, PeerConsistent
  <2>2. ASSUME NEW i \in 1..(Len(q) + 1)
        PROVE  x.i_trans_q[i].data = a + Len(w.i_retrans_q) + i
    <3>1. CASE i \in 1..Len(q)
      BY <3>1, <1>8 DEF OrderOK, PeerConsistent
    <3>2. CASE i = Len(q) + 1
      <4>1. x.i_trans_q[i].data = d
        BY <3>2, <1>3, <1>8
      <4>2. Len(w.i_retrans_q) \in Nat
        BY <1>1
      <4>3. Len(q) \in Nat
        BY <1>1
      <4>4. d = a + Len(w.i_retrans_q) + Len(q) + 1
        OBVIOUS
      <4>5. a + Len(w.i_retrans_q) + Len(q) + 1 = a + Len(w.i_retrans_q) + (Len(q) + 1)
        BY <4>2, <4>3, AddOne
      <4>. QED BY <3>2, <4>1, <4>4, <4>5
    <3>3. i = Len(q) + 1 \/ i \in 1..Len(q)
      BY <1>1
    <3>. QED BY <3>1, <3>2, <3>3
  <2>. QED BY <1>6, <1>8, <2>1, <2>2 DEF OrderOK
<1>. QED
  BY <1>6, <1>7, <1>8, <1>10, <1>11, <1>12, <1>13 DEF PeerConsistent, x

\* Sending the first queued frame: it gets, or still has, the number V(S).
LEMMA SendIFrameConsistent ==
    ASSUME NEW w \in PeerWindow, NEW a \in Nat, NEW chk \in BOOLEAN,
           PeerConsistent(w, a), CanSendI(w)
    PROVE  /\ SendIFrame(w, chk) \in PeerWindow
           /\ PeerConsistent(SendIFrame(w, chk), a)
           /\ Len(SendIFrame(w, chk).i_trans_q) = Len(w.i_trans_q) - 1
           /\ Len(SendIFrame(w, chk).i_retrans_q) = Len(w.i_retrans_q) + 1
           /\ SendIFrame(w, chk).i_pending_count = w.i_pending_count
<1>. DEFINE f == NumberedHead(w)
            x == SendIFrame(w, chk)
            q == w.i_trans_q
            r == w.i_retrans_q
            vh1 == IF w.vs = w.vs_highest THEN Inc(w.vs) ELSE w.vs_highest
            pf1 == IF chk THEN Inc(w.vs) ELSE w.vs_atlast_pf
<1>1. /\ q \in Seq(Frame) /\ r \in Seq(Frame)
      /\ Len(q) \in Nat /\ Len(r) \in Nat
      /\ w.vs \in SeqNum /\ w.nr \in SeqNum /\ w.vs_highest \in SeqNum
      /\ w.vs_atlast_pf \in SeqNum /\ w.i_pending_count \in Nat
      /\ Outstanding(w) \in SeqNum /\ Resend(w) \in SeqNum
  BY PeerFacts
<1>2. Len(q) >= 1 /\ q[1] \in Frame /\ Head(q) = q[1]
  BY <1>1 DEF CanSendI
<1>3. Mod \in Nat /\ Mod >= 2 /\ Ks \in Nat /\ Ks <= Mod - 1
  BY ModAssumption, KsAssumption
<1>4. f \in Frame /\ f.ns = w.vs /\ f.data = q[1].data
  <2>1. q[1].ns = NoNS \/ q[1].ns = (w.vs + 1 - 1) % Mod
    BY <1>1, <1>2 DEF PeerConsistent, TransOK
  <2>2. (w.vs + 1 - 1) % Mod = w.vs
    <3>1. w.vs + 1 - 1 = w.vs /\ w.vs \in Int /\ w.vs >= 0 /\ w.vs < Mod
      BY <1>1, <1>3 DEF SeqNum
    <3>. QED BY <1>3, <3>1, ModCases
  <2>. QED BY <1>1, <1>2, <2>1, <2>2 DEF NumberedHead, Frame
<1>5. Inc(w.vs) \in SeqNum /\ vh1 \in SeqNum /\ pf1 \in SeqNum
  <2>1. Inc(w.vs) \in SeqNum
    BY <1>1, IncRange
  <2>. QED BY <1>1, <2>1
<1>6. x = [w EXCEPT !.i_trans_q = Tail(q), !.i_retrans_q = Append(r, f),
                    !.vs_highest = vh1, !.vs = Inc(w.vs),
                    !.vs_atlast_pf = pf1]
  BY DEF SendIFrame
<1>. HIDE DEF x, f, vh1, pf1
<1>7. Tail(q) \in Seq(Frame) /\ Append(r, f) \in Seq(Frame)
  BY <1>1, <1>2, <1>4
<1>8. /\ x.i_trans_q = Tail(q)
      /\ x.i_retrans_q = Append(r, f)
      /\ x.vs = Inc(w.vs) /\ x.vs_highest = vh1
      /\ x.nr = w.nr
      /\ x.i_pending_count = w.i_pending_count
  BY <1>6 DEF PeerWindow
<1>9. x \in PeerWindow
  BY <1>5, <1>6, <1>7 DEF PeerWindow
<1>10. /\ Len(x.i_trans_q) = Len(q) - 1
       /\ \A i \in 1..(Len(q) - 1) : x.i_trans_q[i] = q[i + 1]
       /\ Len(x.i_retrans_q) = Len(r) + 1
       /\ \A i \in 1..Len(r) : x.i_retrans_q[i] = r[i]
       /\ x.i_retrans_q[Len(r) + 1] = f
  BY <1>1, <1>2, <1>4, <1>8
<1>11. /\ Outstanding(x) = Outstanding(w) + 1
       /\ Resend(x) = IF Resend(w) = 0 THEN 0 ELSE Resend(w) - 1
       /\ Dist(x.nr, x.vs_highest) = Outstanding(x) + Resend(x)
       /\ Dist(x.nr, x.vs_highest) <= Ks
  BY <1>1, <1>8, SendArithmetic
     DEF Outstanding, Resend, CanSendI, PeerConsistent, CycleOK, vh1
<1>12. Resend(x) \in 0..Ks /\ Resend(w) \in 0..Ks
  BY <1>1, <1>3, <1>11 DEF PeerConsistent, CycleOK, SeqNum
<1>13. OutstandingOK(x) /\ CycleOK(x)
  BY <1>1, <1>3, <1>10, <1>11, <1>12
     DEF OutstandingOK, CycleOK, PeerConsistent, SeqNum
<1>14. RetransOK(x)
  <2>1. (w.nr + (Len(r) + 1) - 1) % Mod = w.vs
    <3>1. Len(r) = Dist(w.nr, w.vs)
      BY DEF PeerConsistent, OutstandingOK, Outstanding
    <3>2. w.nr + (Len(r) + 1) - 1 = w.nr + Len(r)
      BY <1>1 DEF SeqNum
    <3>. QED BY <1>1, <3>1, <3>2, DistAdd
  <2>2. ASSUME NEW i \in 1..(Len(r) + 1)
        PROVE  x.i_retrans_q[i].ns = (w.nr + i - 1) % Mod
    <3>1. CASE i = Len(r) + 1
      BY <3>1, <2>1, <1>4, <1>10
    <3>2. CASE i \in 1..Len(r)
      BY <3>2, <1>10 DEF PeerConsistent, RetransOK
    <3>. QED BY <1>1, <3>1, <3>2
  <2>. QED BY <1>8, <1>10, <2>2 DEF RetransOK
<1>15. TransOK(x)
  <2>1. Resend(w) <= Len(q)
    BY DEF PeerConsistent, TransOK
  <2>2. Resend(x) <= Len(q) - 1
    BY <1>1, <1>2, <1>11, <1>12, <2>1
  <2>3. ASSUME NEW i \in 1..(Len(q) - 1), i <= Resend(x)
        PROVE  x.i_trans_q[i].ns = (x.vs + i - 1) % Mod
    <3>1. i + 1 \in 1..Len(q) /\ i + 1 <= Resend(w) /\ i \in 1..Mod
      BY <1>1, <1>3, <1>11, <1>12, <2>3
    <3>2. x.i_trans_q[i].ns = (w.vs + (i + 1) - 1) % Mod
      BY <1>1, <1>10, <3>1 DEF PeerConsistent, TransOK
    <3>3. w.vs + (i + 1) - 1 = w.vs + i /\ x.vs + i - 1 = Inc(w.vs) + (i - 1)
      BY <1>1, <1>5, <1>8 DEF SeqNum
    <3>. QED BY <1>1, <3>1, <3>2, <3>3, IncAdd
  <2>4. ASSUME NEW i \in 1..(Len(q) - 1), ~(i <= Resend(x))
        PROVE  x.i_trans_q[i].ns = NoNS
    <3>1. i + 1 \in 1..Len(q) /\ ~(i + 1 <= Resend(w))
      BY <1>1, <1>11, <1>12, <2>4
    <3>. QED BY <1>1, <1>10, <3>1 DEF PeerConsistent, TransOK
  <2>. QED BY <1>10, <2>2, <2>3, <2>4 DEF TransOK
<1>16. PendingOK(x)
  <2>1. w.i_pending_count = Len(q) + Len(r)
    BY DEF PendingOK, PeerConsistent
  <2>2. Len(q) + Len(r) = (Len(q) - 1) + (Len(r) + 1)
    BY DEF PeerWindow
  <2>. QED BY <1>8, <1>10, <2>1, <2>2 DEF PendingOK
<1>17. OrderOK(x, a)
  <2>1. ASSUME NEW i \in 1..(Len(r) + 1)
        PROVE  x.i_retrans_q[i].data = a + i
    <3>1. CASE i = Len(r) + 1
      BY <3>1, <1>1, <1>2, <1>4, <1>10 DEF PeerConsistent, OrderOK
    <3>2. CASE i \in 1..Len(r)
      BY <3>2, <1>10 DEF PeerConsistent, OrderOK
    <3>3. i = Len(r) + 1 \/ i \in 1..Len(r)
      BY <1>1
    <3>. QED BY <3>1, <3>2, <3>3
  <2>2. ASSUME NEW i \in 1..(Len(q) - 1)
        PROVE  x.i_trans_q[i].data = a + (Len(r) + 1) + i
    <3>1. i + 1 \in 1..Len(q)
      BY <1>1
    <3>2. x.i_trans_q[i].data = a + Len(r) + (i + 1)
      BY <1>10, <3>1 DEF PeerConsistent, OrderOK
    <3>. QED BY <3>2 DEF PeerWindow
  <2>. QED BY <1>10, <2>1, <2>2 DEF OrderOK
<1>. QED
  BY <1>8, <1>9, <1>10, <1>13, <1>14, <1>15, <1>16, <1>17
     DEF PeerConsistent, x

\* PeerConsistent does not read the checkpoint reference or chkpt_actioned.
LEMMA ConsistentCore ==
    ASSUME NEW w \in PeerWindow, NEW x \in PeerWindow, NEW a \in Nat,
           PeerConsistent(w, a),
           x.vs = w.vs, x.nr = w.nr, x.vs_highest = w.vs_highest,
           x.i_pending_count = w.i_pending_count,
           x.i_trans_q = w.i_trans_q, x.i_retrans_q = w.i_retrans_q
    PROVE  PeerConsistent(x, a)
<1>1. Outstanding(x) = Outstanding(w) /\ Resend(x) = Resend(w)
  BY DEF Outstanding, Resend
<1>. QED
  BY <1>1 DEF PeerConsistent, OutstandingOK, RetransOK, TransOK, CycleOK,
              PendingOK, OrderOK

\* An S-frame changes nothing but the checkpoint reference.
LEMMA SendSFrameConsistent ==
    ASSUME NEW w \in PeerWindow, NEW a \in Nat, NEW chk \in BOOLEAN,
           PeerConsistent(w, a)
    PROVE  /\ SendSFrame(w, chk) \in PeerWindow
           /\ PeerConsistent(SendSFrame(w, chk), a)
           /\ SendSFrame(w, chk).i_trans_q = w.i_trans_q
           /\ SendSFrame(w, chk).i_retrans_q = w.i_retrans_q
           /\ SendSFrame(w, chk).i_pending_count = w.i_pending_count
<1>. DEFINE x == SendSFrame(w, chk)
<1>1. x \in PeerWindow
  BY DEF SendSFrame, PeerWindow
<1>2. /\ x.vs = w.vs /\ x.nr = w.nr /\ x.vs_highest = w.vs_highest
      /\ x.i_pending_count = w.i_pending_count
      /\ x.i_trans_q = w.i_trans_q /\ x.i_retrans_q = w.i_retrans_q
  BY DEF SendSFrame, PeerWindow
<1>. HIDE DEF x
<1>3. PeerConsistent(x, a)
  BY <1>1, <1>2, ConsistentCore
<1>. QED BY <1>1, <1>2, <1>3 DEF x

\* processNR releases the oldest frames, as many as it counts N(R) on.
LEMMA ProcessNRConsistent ==
    ASSUME NEW w \in PeerWindow, NEW a \in Nat, NEW nr \in SeqNum,
           PeerConsistent(w, a)
    PROVE  /\ ProcessNR(w, nr) \in PeerWindow
           /\ AckCount(w, nr) \in Nat
           /\ AckCount(w, nr) <= Len(w.i_retrans_q)
           /\ PeerConsistent(ProcessNR(w, nr), a + AckCount(w, nr))
           /\ ProcessNR(w, nr).i_trans_q = w.i_trans_q
           /\ Len(ProcessNR(w, nr).i_retrans_q) =
                  Len(w.i_retrans_q) - AckCount(w, nr)
           /\ ProcessNR(w, nr).i_pending_count =
                  w.i_pending_count - AckCount(w, nr)
<1>. DEFINE n == AckCount(w, nr)
            x == ProcessNR(w, nr)
            q == w.i_trans_q
            r == w.i_retrans_q
            nr1 == (w.nr + n) % Mod
            pf1 == IF \E i \in 1..n : r[i].ns = w.vs_atlast_pf
                   THEN Inc(r[n].ns) ELSE w.vs_atlast_pf
<1>1. /\ q \in Seq(Frame) /\ r \in Seq(Frame)
      /\ w.vs \in SeqNum /\ w.nr \in SeqNum /\ w.vs_highest \in SeqNum
      /\ w.vs_atlast_pf \in SeqNum /\ w.i_pending_count \in Nat
      /\ Outstanding(w) \in SeqNum /\ Resend(w) \in SeqNum
  BY PeerFacts
<1>2. Mod \in Nat /\ Mod >= 2 /\ Ks \in Nat /\ Ks <= Mod - 1
  BY ModAssumption, KsAssumption
<1>3. Dist(w.nr, nr) \in Nat
  <2>1. Dist(w.nr, nr) \in SeqNum
    BY <1>1, DistAdd
  <2>. QED BY <1>2, <2>1 DEF SeqNum
<1>4. n \in Nat /\ n <= Len(r) /\ Len(r) <= Ks /\ Len(r) \in Nat
  <2>1. Len(r) <= Ks
    BY DEF PeerConsistent, OutstandingOK
  <2>2. Len(r) \in Nat
    BY <1>1
  <2>. QED BY <1>3, <2>1, <2>2 DEF AckCount, PeerWindow
<1>5. x = [w EXCEPT !.i_retrans_q = SubSeq(r, n + 1, Len(r)),
                    !.i_pending_count = w.i_pending_count - n,
                    !.nr = nr1, !.vs_atlast_pf = pf1]
  BY DEF ProcessNR
<1>. HIDE DEF n, x, nr1, pf1
<1>6. nr1 \in SeqNum
  <2>1. w.nr + n \in Int
    BY <1>1, <1>2, <1>4 DEF SeqNum
  <2>. QED BY <2>1, ModRange DEF nr1
<1>7. pf1 \in SeqNum
  <2>1. CASE \E i \in 1..n : r[i].ns = w.vs_atlast_pf
    <3>1. n \in 1..Len(r)
      BY <1>4, <2>1
    <3>2. r[n].ns = (w.nr + n - 1) % Mod
      BY <3>1 DEF PeerConsistent, RetransOK
    <3>3. w.nr + n - 1 \in Int
      BY <1>1, <1>2, <1>4 DEF SeqNum
    <3>4. r[n].ns \in SeqNum
      BY <3>2, <3>3, ModRange
    <3>. QED BY <2>1, <3>4, IncRange DEF pf1
  <2>2. CASE ~\E i \in 1..n : r[i].ns = w.vs_atlast_pf
    BY <1>1, <2>2 DEF pf1
  <2>. QED BY <2>1, <2>2
<1>8. w.i_pending_count - n \in Nat
  <2>1. w.i_pending_count = Len(q) + Len(r)
    BY DEF PeerConsistent, PendingOK
  <2>. QED BY <1>4, <2>1 DEF PeerWindow
<1>9. /\ SubSeq(r, n + 1, Len(r)) \in Seq(Frame)
      /\ Len(SubSeq(r, n + 1, Len(r))) = Len(r) - n
      /\ \A i \in 1..(Len(r) - n) : SubSeq(r, n + 1, Len(r))[i] = r[i + n]
  <2>. n \in 0..Len(r)
    BY <1>4
  <2>. QED BY <1>1, SuffixProperties
<1>10. /\ x.i_retrans_q = SubSeq(r, n + 1, Len(r))
       /\ x.i_trans_q = q
       /\ x.i_pending_count = w.i_pending_count - n
       /\ x.nr = nr1 /\ x.vs = w.vs /\ x.vs_highest = w.vs_highest
  BY <1>5 DEF PeerWindow
<1>11. x \in PeerWindow
  BY <1>5, <1>6, <1>7, <1>8, <1>9 DEF PeerWindow
<1>12. /\ Len(x.i_retrans_q) = Len(r) - n
       /\ \A i \in 1..(Len(r) - n) : x.i_retrans_q[i] = r[i + n]
  BY <1>9, <1>10
<1>13. /\ Outstanding(x) = Outstanding(w) - n
       /\ Resend(x) = Resend(w)
       /\ Dist(x.nr, x.vs_highest) = Dist(w.nr, w.vs_highest) - n
  <2>1. Len(r) = Dist(w.nr, w.vs)
    BY DEF PeerConsistent, OutstandingOK, Outstanding
  <2>2. n \in 0..Dist(w.nr, w.vs)
    BY <1>4, <2>1
  <2>3. Dist(w.nr, w.vs) + Dist(w.vs, w.vs_highest) = Dist(w.nr, w.vs_highest)
    BY DEF PeerConsistent, CycleOK, Outstanding, Resend
  <2>4. /\ Dist(nr1, w.vs) = Dist(w.nr, w.vs) - n
        /\ Dist(nr1, w.vs_highest) = Dist(w.nr, w.vs_highest) - n
    BY <1>1, <2>2, <2>3, AckArithmetic DEF nr1
  <2>. QED BY <1>10, <2>4 DEF Outstanding, Resend
<1>14. OutstandingOK(x)
  <2>1. Len(r) = Outstanding(w)
    BY DEF PeerConsistent, OutstandingOK
  <2>2. Len(r) - n <= Ks
    BY <1>2, <1>4
  <2>. QED BY <1>12, <1>13, <2>1, <2>2 DEF OutstandingOK
<1>15. CycleOK(x)
  <2>1. /\ Outstanding(w) + Resend(w) = Dist(w.nr, w.vs_highest)
        /\ Dist(w.nr, w.vs_highest) <= Ks
    BY DEF PeerConsistent, CycleOK
  <2>2. Dist(w.nr, w.vs_highest) \in Int
    <3>1. Dist(w.nr, w.vs_highest) \in SeqNum
      BY <1>1, DistAdd
    <3>. QED BY <1>2, <3>1 DEF SeqNum
  <2>3. Outstanding(w) \in Int /\ Resend(w) \in Int
    BY <1>1 DEF SeqNum
  <2>. QED BY <1>2, <1>4, <1>13, <2>1, <2>2, <2>3 DEF CycleOK
<1>16. RetransOK(x)
  <2>1. ASSUME NEW i \in 1..(Len(r) - n)
        PROVE  x.i_retrans_q[i].ns = (nr1 + i - 1) % Mod
    <3>1. i + n \in 1..Len(r) /\ i - 1 \in Nat /\ n + (i - 1) <= Mod
      BY <1>2, <1>4
    <3>2. x.i_retrans_q[i].ns = (w.nr + (i + n) - 1) % Mod
      BY <1>12, <3>1 DEF PeerConsistent, RetransOK
    <3>3. /\ w.nr + (i + n) - 1 = w.nr + (n + (i - 1))
          /\ nr1 + i - 1 = nr1 + (i - 1)
      BY <1>1, <1>2, <1>4, <1>6 DEF SeqNum
    <3>4. (nr1 + (i - 1)) % Mod = (w.nr + (n + (i - 1))) % Mod
      BY <1>1, <1>4, <3>1, AddAdd DEF nr1
    <3>. QED BY <3>2, <3>3, <3>4
  <2>. QED BY <1>10, <1>12, <2>1 DEF RetransOK
<1>17. TransOK(x)
  BY <1>10, <1>13 DEF TransOK, PeerConsistent
<1>18. PendingOK(x)
  <2>1. w.i_pending_count = Len(q) + Len(r)
    BY DEF PeerConsistent, PendingOK
  <2>2. Len(q) + Len(r) - n = Len(q) + (Len(r) - n)
    BY <1>4 DEF PeerWindow
  <2>3. x.i_pending_count = Len(q) + (Len(r) - n)
    BY <1>4, <1>10, <2>1, <2>2 DEF PeerWindow
  <2>4. x.i_pending_count = Len(x.i_trans_q) + Len(x.i_retrans_q)
    BY <1>10, <1>12, <2>3
  <2>. QED BY <2>4 DEF PendingOK
<1>19. OrderOK(x, a + n)
  <2>1. ASSUME NEW i \in 1..(Len(r) - n)
        PROVE  x.i_retrans_q[i].data = a + n + i
    <3>1. i + n \in 1..Len(r)
      BY <1>4
    <3>2. x.i_retrans_q[i].data = a + (i + n)
      BY <1>12, <3>1 DEF PeerConsistent, OrderOK
    <3>. QED BY <1>4, <3>2
  <2>2. ASSUME NEW i \in 1..Len(q)
        PROVE  x.i_trans_q[i].data = a + n + (Len(r) - n) + i
    <3>1. x.i_trans_q[i].data = a + Len(r) + i
      BY <1>10 DEF PeerConsistent, OrderOK
    <3>2. a + n + (Len(r) - n) + i = a + Len(r) + i
      BY <1>4 DEF PeerWindow
    <3>. QED BY <3>1, <3>2
  <2>. QED BY <1>10, <1>12, <2>1, <2>2 DEF OrderOK
<1>20. x.nr = (a + n) % Mod
  <2>1. w.nr = a % Mod
    BY DEF PeerConsistent
  <2>2. n \in 0..(Mod - 1)
    BY <1>2, <1>4
  <2>. QED BY <1>10, <2>1, <2>2, ModAdd DEF nr1
<1>21. PeerConsistent(x, a + n)
  BY <1>14, <1>15, <1>16, <1>17, <1>18, <1>19, <1>20 DEF PeerConsistent
<1>. QED BY <1>4, <1>10, <1>11, <1>12, <1>21 DEF n, x

\* Going back: everything outstanding stands first in i_trans_q again, and
\* V(S) is back at N(R).
LEMMA MoveBackConsistent ==
    ASSUME NEW w \in PeerWindow, NEW a \in Nat,
           PeerConsistent(w, a), w.i_retrans_q # << >>
    PROVE  /\ MoveBack(w) \in PeerWindow
           /\ PeerConsistent(MoveBack(w), a)
           /\ Head(w.i_retrans_q).ns \in SeqNum
           /\ Len(MoveBack(w).i_trans_q) =
                  Len(w.i_retrans_q) + Len(w.i_trans_q)
           /\ Len(MoveBack(w).i_retrans_q) = 0
           /\ MoveBack(w).i_pending_count = w.i_pending_count
<1>. DEFINE x == MoveBack(w)
            q == w.i_trans_q
            r == w.i_retrans_q
            h == Head(r).ns
<1>1. /\ q \in Seq(Frame) /\ r \in Seq(Frame)
      /\ w.vs \in SeqNum /\ w.nr \in SeqNum /\ w.vs_highest \in SeqNum
      /\ Outstanding(w) \in SeqNum /\ Resend(w) \in SeqNum
  BY PeerFacts
<1>2. Mod \in Nat /\ Mod >= 2 /\ Ks \in Nat /\ Ks <= Mod - 1
  BY ModAssumption, KsAssumption
<1>3. Len(r) \in Nat /\ Len(r) >= 1 /\ Len(q) \in Nat /\ Head(r) = r[1]
  BY <1>1
<1>4. h = w.nr
  <2>1. h = (w.nr + 1 - 1) % Mod
    BY <1>3 DEF PeerConsistent, RetransOK
  <2>2. w.nr + 1 - 1 = w.nr /\ w.nr \in Int /\ w.nr >= 0 /\ w.nr < Mod
    BY <1>1, <1>2 DEF SeqNum
  <2>. QED BY <1>2, <2>1, <2>2, ModCases
<1>5. x = [w EXCEPT !.i_trans_q = r \o q, !.i_retrans_q = << >>, !.vs = h]
  BY DEF MoveBack
<1>. HIDE DEF x, h
<1>6. /\ r \o q \in Seq(Frame)
      /\ Len(r \o q) = Len(r) + Len(q)
      /\ \A i \in 1..Len(r) : (r \o q)[i] = r[i]
      /\ \A i \in 1..Len(q) : (r \o q)[Len(r) + i] = q[i]
  <2>1. q \in Seq(Frame) /\ r \in Seq(Frame)
    BY <1>1
  <2>. HIDE DEF q, r
  <2>. QED BY <2>1, ConcatIndex
<1>7. << >> \in Seq(Frame) /\ Len(<< >>) = 0
  OBVIOUS
<1>8. /\ x.i_trans_q = r \o q /\ x.i_retrans_q = << >>
      /\ x.vs = w.nr /\ x.nr = w.nr /\ x.vs_highest = w.vs_highest
      /\ x.i_pending_count = w.i_pending_count
  BY <1>4, <1>5 DEF PeerWindow
<1>9. x \in PeerWindow
  BY <1>1, <1>4, <1>5, <1>6, <1>7 DEF PeerWindow
<1>10. Len(x.i_trans_q) = Len(r) + Len(q) /\ Len(x.i_retrans_q) = 0
  BY <1>6, <1>7, <1>8
<1>11. /\ Len(r) = Dist(w.nr, w.vs)
       /\ Len(r) + Resend(w) = Dist(w.nr, w.vs_highest)
       /\ Dist(w.nr, w.vs_highest) <= Ks
       /\ Resend(w) <= Len(q)
  BY DEF PeerConsistent, CycleOK, OutstandingOK, Outstanding, TransOK
<1>12. Resend(w) \in Nat /\ Len(r) + Resend(w) <= Ks
  <2>1. Resend(w) \in Nat
    BY <1>1, <1>2 DEF SeqNum
  <2>. QED BY <1>11, <2>1
<1>13. Outstanding(x) = 0 /\ Resend(x) = Len(r) + Resend(w)
  <2>1. Dist(w.nr, w.nr) = 0
    BY <1>1, <1>2, DistCases DEF SeqNum
  <2>. QED BY <1>8, <1>11, <2>1 DEF Outstanding, Resend
<1>14. OutstandingOK(x) /\ RetransOK(x)
  BY <1>2, <1>10, <1>13 DEF OutstandingOK, RetransOK
<1>15. CycleOK(x)
  BY <1>2, <1>3, <1>8, <1>11, <1>12, <1>13 DEF CycleOK
<1>16. TransOK(x)
  <2>1. Resend(x) <= Len(r) + Len(q)
    BY <1>3, <1>11, <1>12, <1>13
  <2>2. ASSUME NEW i \in 1..Len(r)
        PROVE  /\ x.i_trans_q[i].ns = (w.nr + i - 1) % Mod
               /\ i <= Len(r) + Resend(w)
    <3>1. x.i_trans_q[i].ns = (w.nr + i - 1) % Mod
      BY <1>6, <1>8 DEF PeerConsistent, RetransOK
    <3>. QED BY <1>12, <3>1 DEF PeerWindow
  <2>3. ASSUME NEW j \in 1..Len(q), j <= Resend(w)
        PROVE  x.i_trans_q[Len(r) + j].ns = (w.nr + (Len(r) + j) - 1) % Mod
    <3>1. x.i_trans_q[Len(r) + j].ns = (w.vs + j - 1) % Mod
      BY <1>6, <1>8, <2>3 DEF PeerConsistent, TransOK
    <3>2. w.vs = (w.nr + Len(r)) % Mod
      BY <1>1, <1>11, DistAdd
    <3>3. j - 1 \in Nat /\ Len(r) + (j - 1) <= Mod
      BY <1>2, <1>3, <1>12, <2>3
    <3>4. (((w.nr + Len(r)) % Mod) + (j - 1)) % Mod = (w.nr + (Len(r) + (j - 1))) % Mod
      BY <1>1, <1>3, <3>3, AddAdd
    <3>5. /\ w.vs + j - 1 = w.vs + (j - 1)
          /\ w.nr + (Len(r) + j) - 1 = w.nr + (Len(r) + (j - 1))
      BY <1>1, <1>2, <1>3 DEF SeqNum
    <3>. QED BY <3>1, <3>2, <3>4, <3>5
  <2>4. ASSUME NEW j \in 1..Len(q), ~(j <= Resend(w))
        PROVE  x.i_trans_q[Len(r) + j].ns = NoNS
    BY <1>6, <1>8, <2>4 DEF PeerConsistent, TransOK
  <2>5. ASSUME NEW i \in 1..(Len(r) + Len(q))
        PROVE  x.i_trans_q[i].ns =
                   IF i <= Len(r) + Resend(w) THEN (w.nr + i - 1) % Mod
                   ELSE NoNS
    <3>1. CASE i \in 1..Len(r)
      BY <2>2, <3>1
    <3>2. CASE i > Len(r)
      <4>. DEFINE j == i - Len(r)
      <4>1. j \in 1..Len(q) /\ i = Len(r) + j
        BY <3>2 DEF PeerWindow
      <4>. HIDE DEF j
      <4>2. CASE j <= Resend(w)
        <5>1. i <= Len(r) + Resend(w)
          BY <1>3, <1>12, <4>1, <4>2
        <5>. QED BY <2>3, <4>1, <4>2, <5>1
      <4>3. CASE ~(j <= Resend(w))
        <5>1. ~(i <= Len(r) + Resend(w))
          BY <1>3, <1>12, <4>1, <4>3
        <5>. QED BY <2>4, <4>1, <4>3, <5>1
      <4>. QED BY <4>2, <4>3
    <3>. QED BY <1>3, <3>1, <3>2
  <2>. QED BY <1>8, <1>10, <1>13, <2>1, <2>5 DEF TransOK
<1>17. PendingOK(x)
  <2>1. w.i_pending_count = Len(q) + Len(r)
    BY DEF PeerConsistent, PendingOK
  <2>2. Len(q) + Len(r) = Len(r) + Len(q) + 0
    BY DEF PeerWindow
  <2>3. x.i_pending_count = Len(x.i_trans_q) + Len(x.i_retrans_q)
    BY <1>8, <1>10, <2>1, <2>2
  <2>. QED BY <2>3 DEF PendingOK
<1>18. OrderOK(x, a)
  <2>1. ASSUME NEW i \in 1..(Len(r) + Len(q))
        PROVE  x.i_trans_q[i].data = a + 0 + i
    <3>1. CASE i \in 1..Len(r)
      BY <1>6, <1>8, <3>1 DEF PeerConsistent, OrderOK
    <3>2. CASE i > Len(r)
      <4>. DEFINE j == i - Len(r)
      <4>1. j \in 1..Len(q) /\ i = Len(r) + j
        BY <3>2 DEF PeerWindow
      <4>. HIDE DEF j
      <4>2. x.i_trans_q[i].data = a + Len(r) + j
        BY <1>6, <1>8, <4>1 DEF PeerConsistent, OrderOK
      <4>. QED BY <4>1, <4>2 DEF PeerWindow
    <3>. QED BY <3>1, <3>2 DEF PeerWindow
  <2>2. \A i \in 1..Len(x.i_retrans_q) : x.i_retrans_q[i].data = a + i
    BY <1>10
  <2>3. \A i \in 1..Len(x.i_trans_q) :
           x.i_trans_q[i].data = a + Len(x.i_retrans_q) + i
    BY <1>10, <2>1, Zenon
  <2>. QED BY <2>2, <2>3 DEF OrderOK
<1>. QED
  BY <1>1, <1>4, <1>8, <1>9, <1>10, <1>14, <1>15, <1>16, <1>17, <1>18
     DEF PeerConsistent, x, h

\* Checkpoint recovery keeps the peer consistent.
LEMMA CheckpointConsistent ==
    ASSUME NEW w \in PeerWindow, NEW a \in Nat, PeerConsistent(w, a)
    PROVE  LET x == CheckpointRetransmit(w)
           IN  /\ x \in PeerWindow
               /\ PeerConsistent(x, a)
               /\ Len(x.i_retrans_q) + Len(x.i_trans_q) =
                      Len(w.i_retrans_q) + Len(w.i_trans_q)
               /\ x.i_pending_count = w.i_pending_count
<1>. DEFINE x == CheckpointRetransmit(w)
            m == MoveBack(w)
<1>1. CASE CheckpointDue(w)
  <2>1. /\ m \in PeerWindow /\ PeerConsistent(m, a)
        /\ Head(w.i_retrans_q).ns \in SeqNum
        /\ Len(m.i_trans_q) = Len(w.i_retrans_q) + Len(w.i_trans_q)
        /\ Len(m.i_retrans_q) = 0
        /\ m.i_pending_count = w.i_pending_count
    BY <1>1, MoveBackConsistent DEF CheckpointDue
  <2>2. x = [m EXCEPT !.chkpt_actioned = Head(w.i_retrans_q).ns + 1]
    BY <1>1 DEF CheckpointRetransmit
  <2>. HIDE DEF x, m
  <2>3. Head(w.i_retrans_q).ns + 1 \in 0..Mod
    BY <2>1, ModAssumption DEF SeqNum
  <2>4. x \in PeerWindow
    BY <2>1, <2>2, <2>3 DEF PeerWindow
  <2>5. /\ x.vs = m.vs /\ x.nr = m.nr /\ x.vs_highest = m.vs_highest
        /\ x.i_pending_count = m.i_pending_count
        /\ x.i_trans_q = m.i_trans_q /\ x.i_retrans_q = m.i_retrans_q
    BY <2>1, <2>2 DEF PeerWindow
  <2>6. PeerConsistent(x, a)
    BY <2>1, <2>4, <2>5, ConsistentCore
  <2>7. Len(x.i_retrans_q) + Len(x.i_trans_q) =
            Len(w.i_retrans_q) + Len(w.i_trans_q)
    <3>1. Len(x.i_retrans_q) + Len(x.i_trans_q) =
              0 + (Len(w.i_retrans_q) + Len(w.i_trans_q))
      BY <2>1, <2>5
    <3>2. 0 + (Len(w.i_retrans_q) + Len(w.i_trans_q)) =
              Len(w.i_retrans_q) + Len(w.i_trans_q)
      BY DEF PeerWindow
    <3>. QED BY <3>1, <3>2
  <2>. QED BY <2>1, <2>4, <2>5, <2>6, <2>7 DEF x
<1>2. CASE ~CheckpointDue(w)
  BY <1>2 DEF CheckpointRetransmit
<1>. QED BY <1>1, <1>2

\* Acting on a REJ, or being inhibited from it, keeps the peer consistent.
LEMMA RejConsistent ==
    ASSUME NEW w \in PeerWindow, NEW a \in Nat, PeerConsistent(w, a)
    PROVE  LET x == RejRetransmit(w)
           IN  /\ x \in PeerWindow
               /\ PeerConsistent(x, a)
               /\ Len(x.i_retrans_q) + Len(x.i_trans_q) =
                      Len(w.i_retrans_q) + Len(w.i_trans_q)
               /\ x.i_pending_count = w.i_pending_count
<1>. DEFINE x == RejRetransmit(w)
            m == MoveBack(w)
<1>1. CASE w.chkpt_actioned # 0
  <2>1. x = [w EXCEPT !.chkpt_actioned = 0]
    BY <1>1 DEF RejRetransmit
  <2>. HIDE DEF x
  <2>2. x \in PeerWindow
    BY <2>1, ModAssumption DEF PeerWindow
  <2>3. /\ x.vs = w.vs /\ x.nr = w.nr /\ x.vs_highest = w.vs_highest
        /\ x.i_pending_count = w.i_pending_count
        /\ x.i_trans_q = w.i_trans_q /\ x.i_retrans_q = w.i_retrans_q
    BY <2>1 DEF PeerWindow
  <2>4. PeerConsistent(x, a)
    BY <2>2, <2>3, ConsistentCore
  <2>. QED BY <2>2, <2>3, <2>4 DEF x
<1>2. CASE w.chkpt_actioned = 0 /\ w.i_retrans_q = << >>
  BY <1>2 DEF RejRetransmit
<1>3. CASE w.chkpt_actioned = 0 /\ w.i_retrans_q # << >>
  <2>1. /\ m \in PeerWindow /\ PeerConsistent(m, a)
        /\ Head(w.i_retrans_q).ns \in SeqNum
        /\ Len(m.i_trans_q) = Len(w.i_retrans_q) + Len(w.i_trans_q)
        /\ Len(m.i_retrans_q) = 0
        /\ m.i_pending_count = w.i_pending_count
    BY <1>3, MoveBackConsistent
  <2>2. x = [m EXCEPT !.vs_atlast_pf = Head(w.i_retrans_q).ns]
    BY <1>3 DEF RejRetransmit
  <2>. HIDE DEF x, m
  <2>3. x \in PeerWindow
    BY <2>1, <2>2 DEF PeerWindow
  <2>4. /\ x.vs = m.vs /\ x.nr = m.nr /\ x.vs_highest = m.vs_highest
        /\ x.i_pending_count = m.i_pending_count
        /\ x.i_trans_q = m.i_trans_q /\ x.i_retrans_q = m.i_retrans_q
    BY <2>1, <2>2 DEF PeerWindow
  <2>5. PeerConsistent(x, a)
    BY <2>1, <2>3, <2>4, ConsistentCore
  <2>6. Len(x.i_retrans_q) + Len(x.i_trans_q) =
            Len(w.i_retrans_q) + Len(w.i_trans_q)
    <3>1. Len(x.i_retrans_q) + Len(x.i_trans_q) =
              0 + (Len(w.i_retrans_q) + Len(w.i_trans_q))
      BY <2>1, <2>4
    <3>2. 0 + (Len(w.i_retrans_q) + Len(w.i_trans_q)) =
              Len(w.i_retrans_q) + Len(w.i_trans_q)
      BY DEF PeerWindow
    <3>. QED BY <3>1, <3>2
  <2>. QED BY <2>1, <2>3, <2>4, <2>5, <2>6 DEF x
<1>. QED BY <1>1, <1>2, <1>3

\* An empty peer is consistent at the start of a stream.
LEMMA EmptyConsistent ==
    ASSUME NEW x \in PeerWindow,
           x.vs = 0, x.nr = 0, x.vs_highest = 0, x.i_pending_count = 0,
           x.i_trans_q = << >>, x.i_retrans_q = << >>
    PROVE  PeerConsistent(x, 0)
<1>1. Dist(0, 0) = 0 /\ 0 % Mod = 0
  BY ModCases, ModAssumption DEF Dist
<1>2. Outstanding(x) = 0 /\ Resend(x) = 0
  BY <1>1 DEF Outstanding, Resend
<1>3. Len(x.i_trans_q) = 0 /\ Len(x.i_retrans_q) = 0
  OBVIOUS
<1>. QED
  BY <1>1, <1>2, <1>3, KsAssumption, ModAssumption
     DEF PeerConsistent, OutstandingOK, RetransOK, TransOK, CycleOK,
         PendingOK, OrderOK

\* resetPeerVars and its kin leave an empty peer.
LEMMA ResetConsistent ==
    ASSUME NEW w \in PeerWindow
    PROVE  /\ ResetWindow(w) \in PeerWindow
           /\ PeerConsistent(ResetWindow(w), 0)
           /\ Len(ResetWindow(w).i_retrans_q) = 0
           /\ Len(ResetWindow(w).i_trans_q) = 0
           /\ ResetWindow(w).i_pending_count = 0
<1>. DEFINE x == ResetWindow(w)
<1>1. 0 \in SeqNum /\ << >> \in Seq(Frame)
  BY ModAssumption DEF SeqNum
<1>2. x \in PeerWindow
  BY <1>1 DEF ResetWindow, PeerWindow
<1>3. /\ x.vs = 0 /\ x.nr = 0 /\ x.vs_highest = 0 /\ x.i_pending_count = 0
      /\ x.i_trans_q = << >> /\ x.i_retrans_q = << >>
  BY DEF ResetWindow, PeerWindow
<1>. HIDE DEF x
<1>. QED BY <1>2, <1>3, EmptyConsistent DEF x

=============================================================================
