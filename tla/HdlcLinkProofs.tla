--------------------------- MODULE HdlcLinkProofs ---------------------------
(***************************************************************************)
(* Two connected stations implement the reliable stream of HdlcStream, for *)
(* every modulus, every window below it and every number of frames, losses *)
(* and early timers, in both modes: an N(S) is never taken for another     *)
(* frame's, an N(R) is never refused, and what is acknowledged has been    *)
(* delivered.                                                              *)
(***************************************************************************)
EXTENDS HdlcLink, HdlcPeerProofs, FiniteSetTheorems

(***************************************************************************)
(* The inductive invariant.  The place of a frame in its stream is its     *)
(* data.  A station that is up has had the first acked frames of its       *)
(* stream acknowledged, has sent the first High ones, and has received the *)
(* first Got ones of the other's.  x is a station, o the other one, c the  *)
(* frames on their way to x.                                               *)
(***************************************************************************)
Got(x) == Len(x.delivered)
High(x) == x.acked + Dist(x.w.nr, x.w.vs_highest)
Queued(w) == Len(w.i_retrans_q) + Len(w.i_trans_q)

\* What a station that is up knows of its own stream.
SendSide(x, o) ==
    x.up =>
        /\ PeerConsistent(x.w, x.acked)
        /\ x.acked + Queued(x.w) = x.written
        /\ Got(o) <= High(x)

\* What is delivered is a prefix of the other's stream, and V(R) its length.
ReceiveSide(x, o) ==
    /\ \A i \in 1..Got(x) : x.delivered[i] = i
    /\ Got(x) <= o.written
    /\ o.acked <= Got(x)
    /\ x.up => x.vr = Got(x) % Mod

\* An I-frame is near enough to what x has received for its number to tell
\* which one it is.
Near(x, o, m) ==
    m.type = "I" =>
        /\ m.data \in 1..o.written
        /\ m.ns = (m.data - 1) % Mod
        /\ m.data <= Got(x) + Ks /\ Got(x) < m.data + Ks
        /\ o.up => m.data <= High(o)

\* The frames of m's stream sent before it are not far ahead of it.
Behind(k, m) == k.type = "I" /\ m.type = "I" => k.data < m.data + Ks

IFramesOK(x, o, c) ==
    /\ \A i \in 1..Len(c) : Near(x, o, c[i])
    /\ \A i \in 1..Len(c) : \A j \in 1..Len(c) : j < i => Behind(c[j], c[i])

\* An N(R) acknowledges what has arrived, and no less than the one before it.
Ahead(x, m) == Dist(x.w.nr, m.nr)

AcksOK(x, o, c) ==
    x.up =>
        /\ \A i \in 1..Len(c) : x.acked + Ahead(x, c[i]) <= Got(o)
        /\ \A i \in 1..Len(c) : \A j \in 1..Len(c) :
              j < i => Ahead(x, c[j]) <= Ahead(x, c[i])

LinkOK(x, o, c) ==
    SendSide(x, o) /\ ReceiveSide(x, o) /\ IFramesOK(x, o, c) /\ AcksOK(x, o, c)

\* A station that went down sends nothing any more, and none is in the FRMR
\* condition.
Calm(s) == ~st[s].frmr /\ (~st[s].up => tx[s].pc = "wait")

IInv ==
    /\ TypeOK
    /\ \A s \in Station : Calm(s) /\ LinkOK(st[s], st[Other(s)], chan[s])

(***************************************************************************)
(* Places and numbers.                                                     *)
(***************************************************************************)
\* The distance of two numbers is the distance of two places less than a turn
\* apart.
LEMMA DistOfPlaces ==
    ASSUME NEW a \in Nat, NEW r \in Nat, a <= r, r - a < Mod
    PROVE  Dist(a % Mod, r % Mod) = r - a
<1>. DEFINE n == r - a
            u == a % Mod
<1>1. n \in 0..(Mod - 1) /\ n \in 0..Mod /\ r = a + n
  BY ModAssumption
<1>2. u \in SeqNum
  BY ModRange
<1>. HIDE DEF n, u
<1>3. r % Mod = (u + n) % Mod
  BY <1>1, ModAdd DEF u
<1>4. (u + n) % Mod = IF u + n < Mod THEN u + n ELSE u + n - Mod
  BY <1>1, <1>2, AddCases
<1>5. (u + n) % Mod \in SeqNum
  BY <1>1, <1>2, ModRange DEF SeqNum
<1>6. Dist(u, (u + n) % Mod) = n
  <2>. DEFINE v == (u + n) % Mod
  <2>1. Dist(u, v) = IF v < u THEN v - u + Mod ELSE v - u
    BY <1>2, <1>5, DistCases
  <2>. HIDE DEF v
  <2>2. v = IF u + n < Mod THEN u + n ELSE u + n - Mod
    BY <1>4 DEF v
  <2>3. Dist(u, v) = n
    BY <1>1, <1>2, <2>1, <2>2, ModAssumption DEF SeqNum
  <2>. QED BY <2>3 DEF v
<1>. QED BY <1>3, <1>6 DEF n, u

\* The number of the place to come is the one of no other place in a window.
LEMMA SamePlace ==
    \A d, r \in Nat : d <= r + Ks /\ r <= d + Ks /\ d % Mod = r % Mod => d = r
<1>0. Ks \in Nat /\ Ks < Mod /\ Mod \in Nat
  BY KsAssumption, ModAssumption
<1>1. ASSUME NEW d \in Nat, NEW r \in Nat, d % Mod = r % Mod
      PROVE  Dist(d % Mod, r % Mod) = 0 /\ Dist(r % Mod, d % Mod) = 0
  <2>1. d % Mod \in SeqNum
    BY ModRange
  <2>2. Dist(d % Mod, d % Mod) = 0
    BY <2>1, DistCases DEF SeqNum
  <2>. QED BY <1>1, <2>2
<1>2. ASSUME NEW d \in Nat, NEW r \in Nat, d <= r, r <= d + Ks,
             Dist(d % Mod, r % Mod) = 0
      PROVE  d = r
  <2>1. r - d < Mod
    BY <1>0, <1>2
  <2>2. Dist(d % Mod, r % Mod) = r - d
    BY <1>2, <2>1, DistOfPlaces
  <2>3. r - d = 0
    BY <1>2, <2>2, Zenon
  <2>. QED BY <2>3
<1>3. ASSUME NEW d \in Nat, NEW r \in Nat PROVE d <= r \/ r <= d
  OBVIOUS
<1>. QED BY <1>1, <1>2, <1>3, Zenon

\* The successor of a place's number is the number of the next place.
LEMMA IncOfPlace ==
    ASSUME NEW r \in Nat
    PROVE  Inc(r % Mod) = (r + 1) % Mod
<1>1. 1 \in 0..(Mod - 1)
  BY ModAssumption
<1>2. (r + 1) % Mod = ((r % Mod) + 1) % Mod
  BY <1>1, ModAdd
<1>. QED BY <1>2 DEF Inc

\* Acknowledging n frames takes n off the distance of every number that is no
\* nearer.
LEMMA DistShift ==
    ASSUME NEW a \in SeqNum, NEW b \in SeqNum, NEW n \in Nat, n <= Dist(a, b)
    PROVE  /\ (a + n) % Mod \in SeqNum
           /\ Dist((a + n) % Mod, b) = Dist(a, b) - n
<1>1. Dist(b, b) = 0
  BY DistCases DEF SeqNum
<1>2. Dist(a, b) \in SeqNum
  BY DistAdd
<1>3. n \in 0..Dist(a, b) /\ Dist(a, b) + Dist(b, b) = Dist(a, b)
  BY <1>1, <1>2 DEF SeqNum
<1>. QED BY <1>3, AckArithmetic

(***************************************************************************)
(* The operators of HdlcPeer and the numbers of the window.                *)
(***************************************************************************)
\* N(R) and the highest V(S) change when frames are acknowledged or sent, and
\* at no other time.
LEMMA NumbersKept ==
    ASSUME NEW w \in PeerWindow
    PROVE  /\ \A d : /\ Enqueue(w, d).nr = w.nr
                     /\ Enqueue(w, d).vs_highest = w.vs_highest
           /\ \A chk : /\ SendSFrame(w, chk).nr = w.nr
                       /\ SendSFrame(w, chk).vs_highest = w.vs_highest
           /\ CheckpointRetransmit(w).nr = w.nr
           /\ CheckpointRetransmit(w).vs_highest = w.vs_highest
           /\ RejRetransmit(w).nr = w.nr
           /\ RejRetransmit(w).vs_highest = w.vs_highest
           /\ \A nr : /\ ProcessNR(w, nr).nr = (w.nr + AckCount(w, nr)) % Mod
                      /\ ProcessNR(w, nr).vs_highest = w.vs_highest
           /\ \A chk : SendIFrame(w, chk).nr = w.nr
<1>1. \A d : Enqueue(w, d).nr = w.nr /\ Enqueue(w, d).vs_highest = w.vs_highest
  BY DEF Enqueue, PeerWindow
<1>2. \A chk : SendSFrame(w, chk).nr = w.nr /\ SendSFrame(w, chk).vs_highest = w.vs_highest
  BY DEF SendSFrame, PeerWindow
<1>3. MoveBack(w).nr = w.nr /\ MoveBack(w).vs_highest = w.vs_highest
  BY DEF MoveBack, PeerWindow
<1>4. /\ CheckpointRetransmit(w).nr = w.nr
      /\ CheckpointRetransmit(w).vs_highest = w.vs_highest
  BY DEF CheckpointRetransmit, MoveBack, PeerWindow
<1>5. /\ RejRetransmit(w).nr = w.nr
      /\ RejRetransmit(w).vs_highest = w.vs_highest
  BY DEF RejRetransmit, MoveBack, PeerWindow
<1>6. \A nr : /\ ProcessNR(w, nr).nr = (w.nr + AckCount(w, nr)) % Mod
              /\ ProcessNR(w, nr).vs_highest = w.vs_highest
  BY DEF ProcessNR, PeerWindow
<1>7. \A chk : SendIFrame(w, chk).nr = w.nr
  BY DEF SendIFrame, PeerWindow
<1>. QED BY <1>1, <1>2, <1>4, <1>5, <1>6, <1>7

\* The frame a burst sends: the first one not outstanding, numbered by its
\* place, within the window and among those sent afterwards.
LEMMA SentFrame ==
    ASSUME NEW w \in PeerWindow, NEW a \in Nat, NEW chk \in BOOLEAN,
           PeerConsistent(w, a), CanSendI(w)
    PROVE  LET f == NumberedHead(w)
               u == SendIFrame(w, chk)
           IN  /\ f.data = a + Len(w.i_retrans_q) + 1
               /\ f.data \in 1..(a + Queued(w)) /\ f.data <= a + Ks
               /\ f.ns = (f.data - 1) % Mod
               /\ f.data <= a + Dist(u.nr, u.vs_highest)
               /\ Dist(w.nr, w.vs_highest) <= Dist(u.nr, u.vs_highest)
<1>. DEFINE f == NumberedHead(w)
            u == SendIFrame(w, chk)
            q == w.i_trans_q
            r == w.i_retrans_q
            h == Head(q)
<1>1. /\ q \in Seq(Frame) /\ q # << >> /\ Len(r) \in Nat /\ Len(q) \in Nat
      /\ w.vs \in SeqNum /\ w.nr \in SeqNum /\ w.vs_highest \in SeqNum
      /\ Resend(w) \in SeqNum /\ Outstanding(w) \in SeqNum
  BY PeerFacts DEF CanSendI
<1>2. Len(q) >= 1 /\ h = q[1] /\ h \in Frame
  BY <1>1
<1>3. /\ Len(r) = Outstanding(w) /\ Outstanding(w) < Ks /\ w.nr = a % Mod
      /\ Outstanding(w) + Resend(w) = Dist(w.nr, w.vs_highest)
      /\ Dist(w.nr, w.vs_highest) <= Ks
  BY DEF PeerConsistent, OutstandingOK, CycleOK, CanSendI
<1>4. h.data = a + Len(r) + 1 /\ (h.ns = w.vs \/ h.ns = NoNS)
  <2>1. 1 \in 1..Len(q)
    BY <1>1, <1>2
  <2>2. /\ q[1].data = a + Len(r) + 1
        /\ q[1].ns = IF 1 <= Resend(w) THEN (w.vs + 1 - 1) % Mod ELSE NoNS
    BY <2>1 DEF PeerConsistent, OrderOK, TransOK
  <2>3. (w.vs + 1 - 1) % Mod = w.vs
    <3>1. w.vs + 1 - 1 = w.vs /\ w.vs \in Int /\ w.vs > -Mod /\ w.vs < 2 * Mod
          /\ w.vs < Mod /\ ~(w.vs < 0)
      BY <1>1, ModAssumption DEF SeqNum
    <3>2. w.vs % Mod = w.vs
      BY <3>1, ModCases
    <3>. QED BY <3>1, <3>2
  <2>. QED BY <1>2, <2>2, <2>3
<1>5. f.data = h.data /\ f.ns = w.vs
  BY <1>2, <1>4 DEF NumberedHead, Frame
<1>6. w.vs = (f.data - 1) % Mod
  <2>1. (w.nr + Outstanding(w)) % Mod = w.vs
    BY <1>1, DistAdd DEF Outstanding
  <2>2. Outstanding(w) \in 0..(Mod - 1)
    BY <1>1 DEF SeqNum
  <2>3. (a + Outstanding(w)) % Mod = ((a % Mod) + Outstanding(w)) % Mod
    BY <2>2, ModAdd
  <2>4. f.data - 1 = a + Outstanding(w)
    BY <1>1, <1>3, <1>4, <1>5
  <2>. QED BY <1>3, <2>1, <2>3, <2>4
<1>7. /\ u.nr = w.nr
      /\ u.vs_highest = IF w.vs = w.vs_highest THEN Inc(w.vs) ELSE w.vs_highest
  BY DEF SendIFrame, PeerWindow
<1>. HIDE DEF f, u, q, r, h
<1>8. /\ Dist(w.nr, Inc(w.vs)) = Dist(w.nr, w.vs) + 1
      /\ Dist(Inc(w.vs), u.vs_highest) =
             IF Dist(w.vs, w.vs_highest) = 0 THEN 0 ELSE Dist(w.vs, w.vs_highest) - 1
      /\ Dist(w.nr, u.vs_highest) =
             Dist(w.nr, Inc(w.vs)) + Dist(Inc(w.vs), u.vs_highest)
  BY <1>1, <1>3, <1>7, SendArithmetic DEF Outstanding, Resend
<1>9. /\ Dist(w.nr, u.vs_highest) >= Outstanding(w) + 1
      /\ Dist(w.nr, w.vs_highest) <= Dist(w.nr, u.vs_highest)
  <2>. DEFINE k == Dist(w.vs, w.vs_highest)
  <2>1. k = Resend(w) /\ k \in Nat /\ Outstanding(w) \in Nat
        /\ Outstanding(w) = Dist(w.nr, w.vs)
    BY <1>1 DEF Resend, Outstanding, SeqNum
  <2>. HIDE DEF k
  <2>2. Dist(w.nr, u.vs_highest) = (Outstanding(w) + 1) + (IF k = 0 THEN 0 ELSE k - 1)
    BY <1>8, <2>1 DEF k
  <2>3. Dist(w.nr, w.vs_highest) = Outstanding(w) + k
    BY <1>3, <2>1
  <2>. QED BY <2>1, <2>2, <2>3
<1>10. /\ f.data = a + Len(r) + 1 /\ f.data \in Nat
       /\ f.data >= 1 /\ f.data <= a + (Len(r) + Len(q)) /\ f.data <= a + Ks
  BY <1>1, <1>2, <1>3, <1>4, <1>5, KsAssumption, ModAssumption DEF SeqNum
<1>11. f.data <= a + Dist(u.nr, u.vs_highest)
  <2>1. Outstanding(w) \in Nat /\ Dist(u.nr, u.vs_highest) = Dist(w.nr, u.vs_highest)
    BY <1>1, <1>7 DEF SeqNum
  <2>2. f.data = a + (Outstanding(w) + 1)
    BY <1>1, <1>3, <1>10
  <2>3. Inc(w.vs) \in SeqNum
    BY <1>1, IncRange
  <2>4. u.vs_highest \in SeqNum
    BY <1>1, <1>7, <2>3
  <2>5. Dist(w.nr, u.vs_highest) \in Nat
    <3>1. Dist(w.nr, u.vs_highest) \in SeqNum
      BY <1>1, <2>4, DistAdd
    <3>. QED BY <3>1 DEF SeqNum
  <2>. QED BY <1>9, <2>1, <2>2, <2>5
<1>12. /\ f.ns = (f.data - 1) % Mod /\ Queued(w) = Len(r) + Len(q)
  BY <1>5, <1>6 DEF Queued, q, r
<1>13. f.data \in 1..(a + Queued(w))
  BY <1>1, <1>10, <1>12
<1>. QED BY <1>7, <1>9, <1>10, <1>11, <1>12, <1>13 DEF f, u, r

(***************************************************************************)
(* What the parts of the invariant say of numbers.                         *)
(***************************************************************************)
\* The fields of a station the invariant is about.
LEMMA StationFacts ==
    ASSUME NEW x \in StationState
    PROVE  /\ x.w \in PeerWindow /\ x.w.nr \in SeqNum /\ x.w.vs_highest \in SeqNum
           /\ x.acked \in Nat /\ x.written \in Nat /\ Got(x) \in Nat
           /\ x.delivered \in Seq(Nat) /\ x.vr \in SeqNum
           /\ High(x) \in Nat /\ Queued(x.w) \in Nat /\ High(x) >= x.acked
<1>1. /\ x.w \in PeerWindow /\ x.acked \in Nat /\ x.written \in Nat
      /\ x.delivered \in Seq(Nat) /\ x.vr \in SeqNum
  BY DEF StationState
<1>2. x.w.nr \in SeqNum /\ x.w.vs_highest \in SeqNum /\ Queued(x.w) \in Nat
  <2>1. /\ x.w.nr \in SeqNum /\ x.w.vs_highest \in SeqNum
        /\ Len(x.w.i_retrans_q) \in Nat /\ Len(x.w.i_trans_q) \in Nat
    BY <1>1, PeerFacts
  <2>2. ASSUME NEW a \in Nat, NEW b \in Nat PROVE a + b \in Nat
    OBVIOUS
  <2>3. Len(x.w.i_retrans_q) + Len(x.w.i_trans_q) \in Nat
    BY <2>1, <2>2, Zenon
  <2>. QED BY <2>1, <2>3, Zenon DEF Queued
<1>3. Dist(x.w.nr, x.w.vs_highest) \in SeqNum
  BY <1>2, DistAdd
<1>4. Dist(x.w.nr, x.w.vs_highest) \in Nat
  BY <1>3 DEF SeqNum
<1>5. Got(x) \in Nat
  BY <1>1 DEF Got
<1>6. High(x) \in Nat /\ High(x) >= x.acked
  BY <1>1, <1>4 DEF High
<1>. QED BY <1>1, <1>2, <1>5, <1>6

\* A window of a station that is up.
LEMMA WindowFacts ==
    ASSUME NEW x \in StationState, NEW o \in StationState, x.up, SendSide(x, o)
    PROVE  x.w.nr = x.acked % Mod /\ High(x) <= x.acked + Ks /\ Got(o) <= High(x)
<1>1. PeerConsistent(x.w, x.acked) /\ Got(o) <= High(x)
  BY DEF SendSide
<1>2. x.w.nr = x.acked % Mod /\ Dist(x.w.nr, x.w.vs_highest) <= Ks
  BY <1>1 DEF PeerConsistent, CycleOK
<1>3. x.acked \in Nat /\ Dist(x.w.nr, x.w.vs_highest) \in Int /\ Ks \in Nat
  <2>1. Dist(x.w.nr, x.w.vs_highest) \in SeqNum
    BY StationFacts, DistAdd
  <2>2. x.acked \in Nat
    BY StationFacts
  <2>. QED BY <2>1, <2>2, KsAssumption, ModAssumption DEF SeqNum
<1>. QED BY <1>1, <1>2, <1>3 DEF High

\* A frame on the line.
LEMMA WireFacts ==
    ASSUME NEW c \in Seq(Wire), NEW i \in 1..Len(c)
    PROVE  /\ c[i] \in Wire /\ c[i].nr \in SeqNum /\ c[i].data \in Nat
           /\ c[i].pf \in BOOLEAN /\ c[i].cmd \in BOOLEAN
           /\ c[i].type \in {"I"} \union SFun
<1>1. c[i] \in Wire
  OBVIOUS
<1>. QED BY <1>1 DEF Wire

\* The distance of an N(R) is a number.
LEMMA AheadFacts ==
    ASSUME NEW x \in StationState, NEW c \in Seq(Wire), NEW i \in 1..Len(c)
    PROVE  Ahead(x, c[i]) \in Nat
<1>1. x.w.nr \in SeqNum /\ c[i].nr \in SeqNum
  BY StationFacts, WireFacts
<1>2. Dist(x.w.nr, c[i].nr) \in SeqNum
  BY <1>1, DistAdd
<1>. QED BY <1>2 DEF Ahead, SeqNum

(***************************************************************************)
(* How the invariant follows a station and the line.                       *)
(***************************************************************************)
\* The frames that stay on the line when its first one is taken.
LEMMA TailFacts ==
    ASSUME NEW c \in Seq(Wire), c # << >>
    PROVE  /\ Tail(c) \in Seq(Wire) /\ Len(Tail(c)) = Len(c) - 1 /\ Len(c) \in Nat \ {0}
           /\ \A i \in 1..Len(Tail(c)) : Tail(c)[i] = c[i + 1] /\ i + 1 \in 1..Len(c)
           /\ Head(c) = c[1] /\ 1 \in 1..Len(c)
OBVIOUS

\* The frames on the line when one more is sent.
LEMMA AppendFacts ==
    ASSUME NEW c \in Seq(Wire), NEW m \in Wire
    PROVE  /\ Append(c, m) \in Seq(Wire) /\ Len(Append(c, m)) = Len(c) + 1
           /\ Len(c) \in Nat
           /\ \A i \in 1..Len(c) : Append(c, m)[i] = c[i]
           /\ Append(c, m)[Len(c) + 1] = m
           /\ \A i \in 1..Len(Append(c, m)) : i \in 1..Len(c) \/ i = Len(c) + 1
<1>1. /\ Append(c, m) \in Seq(Wire) /\ Len(Append(c, m)) = Len(c) + 1
      /\ Len(c) \in Nat
      /\ \A i \in 1..Len(c) : Append(c, m)[i] = c[i]
      /\ Append(c, m)[Len(c) + 1] = m
  OBVIOUS
<1>. QED BY <1>1

\* A frame that is lost, or discarded, leaves the others in order.
LEMMA LostOK ==
    ASSUME NEW x \in StationState, NEW o \in StationState, NEW c \in Seq(Wire),
           c # << >>, LinkOK(x, o, c)
    PROVE  LinkOK(x, o, Tail(c))
<1>. DEFINE t == Tail(c)
<1>1. /\ t \in Seq(Wire) /\ Len(c) \in Nat /\ Len(t) \in Nat
      /\ \A i \in 1..Len(t) : t[i] = c[i + 1] /\ i + 1 \in 1..Len(c)
  BY TailFacts
<1>. HIDE DEF t
<1>2. \A i \in 1..Len(t) : Near(x, o, t[i])
  BY <1>1 DEF LinkOK, IFramesOK
<1>3. ASSUME NEW i \in 1..Len(t), NEW j \in 1..Len(t), j < i
      PROVE  /\ Behind(t[j], t[i])
             /\ x.up => Ahead(x, t[j]) <= Ahead(x, t[i])
  <2>1. /\ t[i] = c[i + 1] /\ t[j] = c[j + 1] /\ j + 1 < i + 1
        /\ i + 1 \in 1..Len(c) /\ j + 1 \in 1..Len(c)
    BY <1>1, <1>3
  <2>. QED BY <2>1 DEF LinkOK, IFramesOK, AcksOK
<1>4. ASSUME x.up, NEW i \in 1..Len(t) PROVE x.acked + Ahead(x, t[i]) <= Got(o)
  BY <1>1, <1>4 DEF LinkOK, AcksOK
<1>5. IFramesOK(x, o, t)
  BY <1>2, <1>3 DEF IFramesOK
<1>6. AcksOK(x, o, t)
  BY <1>3, <1>4 DEF AcksOK
<1>. QED BY <1>5, <1>6 DEF LinkOK, t

\* Station y is station x, as far as the streams are concerned.
SameStream(x, y) ==
    /\ (y.up <=> x.up) /\ y.acked = x.acked /\ y.written = x.written
    /\ y.vr = x.vr /\ y.delivered = x.delivered
    /\ y.w.nr = x.w.nr /\ y.w.vs_highest = x.w.vs_highest
    /\ Queued(y.w) = Queued(x.w)
    /\ x.up => PeerConsistent(y.w, y.acked)

\* Both directions of the link follow such a station.
LEMMA SameStreamOK ==
    ASSUME NEW x, NEW y, NEW o, NEW c, NEW d, SameStream(x, y),
           LinkOK(x, o, c), LinkOK(o, x, d)
    PROVE  LinkOK(y, o, c) /\ LinkOK(o, y, d)
<1>1. Got(y) = Got(x) /\ High(y) = High(x)
  BY DEF SameStream, Got, High
<1>2. \A m : /\ Near(y, o, m) <=> Near(x, o, m)
             /\ Near(o, y, m) <=> Near(o, x, m)
             /\ Ahead(y, m) = Ahead(x, m)
  BY <1>1 DEF SameStream, Near, Ahead
<1>3. SendSide(y, o) /\ SendSide(o, y)
  BY <1>1 DEF SameStream, SendSide, LinkOK
<1>4. ReceiveSide(y, o) /\ ReceiveSide(o, y)
  BY <1>1 DEF SameStream, ReceiveSide, LinkOK
<1>5. IFramesOK(y, o, c) /\ IFramesOK(o, y, d)
  BY <1>2 DEF IFramesOK, LinkOK
<1>6. AcksOK(y, o, c) /\ AcksOK(o, y, d)
  BY <1>1, <1>2 DEF AcksOK, LinkOK, SameStream
<1>. QED BY <1>3, <1>4, <1>5, <1>6 DEF LinkOK

\* A frame is queued.
LEMMA WrittenOK ==
    ASSUME NEW x \in StationState, NEW y \in StationState, NEW o \in StationState,
           NEW c \in Seq(Wire), NEW d \in Seq(Wire),
           LinkOK(x, o, c), LinkOK(o, x, d), x.up, y.up,
           y.acked = x.acked, y.written = x.written + 1, y.vr = x.vr,
           y.delivered = x.delivered, y.w.nr = x.w.nr, y.w.vs_highest = x.w.vs_highest,
           Queued(y.w) = Queued(x.w) + 1, PeerConsistent(y.w, y.acked)
    PROVE  LinkOK(y, o, c) /\ LinkOK(o, y, d)
<1>1. Got(y) = Got(x) /\ High(y) = High(x)
  BY DEF Got, High
<1>2. x.written \in Nat /\ Got(o) \in Nat /\ x.acked \in Nat /\ Queued(x.w) \in Nat
  BY StationFacts
<1>3. SendSide(y, o) /\ SendSide(o, y)
  BY <1>1, <1>2 DEF SendSide, LinkOK
<1>4. ReceiveSide(y, o) /\ ReceiveSide(o, y)
  BY <1>1, <1>2 DEF ReceiveSide, LinkOK
<1>5. \A m : (Near(x, o, m) => Near(y, o, m)) /\ (Near(o, x, m) => Near(o, y, m))
  BY <1>1, <1>2 DEF Near
<1>6. IFramesOK(y, o, c) /\ IFramesOK(o, y, d)
  BY <1>5 DEF IFramesOK, LinkOK
<1>7. \A m : Ahead(y, m) = Ahead(x, m)
  BY DEF Ahead
<1>8. AcksOK(y, o, c) /\ AcksOK(o, y, d)
  BY <1>1, <1>7 DEF AcksOK, LinkOK
<1>. QED BY <1>3, <1>4, <1>6, <1>8 DEF LinkOK

\* The link is given up by one station; what it sent is still on the line.
LEMMA AbortedOK ==
    ASSUME NEW x \in StationState, NEW y, NEW o, NEW c, NEW d,
           LinkOK(x, o, c), LinkOK(o, x, d), ~y.up,
           y.acked = x.acked, y.written = x.written, y.delivered = x.delivered
    PROVE  LinkOK(y, o, c) /\ LinkOK(o, y, d)
<1>1. Got(y) = Got(x)
  BY DEF Got
<1>2. SendSide(y, o) /\ SendSide(o, y)
  BY <1>1 DEF SendSide, LinkOK
<1>3. ReceiveSide(y, o) /\ ReceiveSide(o, y)
  BY <1>1 DEF ReceiveSide, LinkOK
<1>4. \A m : (Near(x, o, m) => Near(y, o, m)) /\ (Near(o, x, m) => Near(o, y, m))
  BY <1>1 DEF Near
<1>5. IFramesOK(y, o, c) /\ IFramesOK(o, y, d)
  BY <1>4 DEF IFramesOK, LinkOK
<1>6. AcksOK(y, o, c) /\ AcksOK(o, y, d)
  BY <1>1 DEF AcksOK, LinkOK
<1>. QED BY <1>2, <1>3, <1>5, <1>6 DEF LinkOK

\* The N(R) a station sends acknowledges all it has received.
LEMMA FreshAck ==
    ASSUME NEW x \in StationState, NEW o \in StationState, x.up, o.up,
           ReceiveSide(x, o), SendSide(o, x)
    PROVE  o.acked + Dist(o.w.nr, x.vr) = Got(x)
<1>1. /\ o.acked \in Nat /\ Got(x) \in Nat /\ High(o) \in Nat
  BY StationFacts
<1>2. o.w.nr = o.acked % Mod /\ High(o) <= o.acked + Ks /\ Got(x) <= High(o)
  BY WindowFacts
<1>3. o.acked <= Got(x) /\ x.vr = Got(x) % Mod
  BY DEF ReceiveSide
<1>4. Got(x) - o.acked < Mod
  BY <1>1, <1>2, KsAssumption, ModAssumption
<1>5. Dist(o.acked % Mod, Got(x) % Mod) = Got(x) - o.acked
  BY <1>1, <1>3, <1>4, DistOfPlaces
<1>6. Dist(o.w.nr, x.vr) = Got(x) - o.acked
  BY <1>2, <1>3, <1>5, Zenon
<1>. QED BY <1>1, <1>6

\* A frame is sent: an S-frame, or an I-frame of the window.
LEMMA SentOK ==
    ASSUME NEW x \in StationState, NEW y \in StationState, NEW o \in StationState,
           NEW c \in Seq(Wire), NEW d \in Seq(Wire), NEW m \in Wire,
           LinkOK(x, o, c), LinkOK(o, x, d), x.up, y.up,
           y.acked = x.acked, y.written = x.written, y.vr = x.vr,
           y.delivered = x.delivered, y.w.nr = x.w.nr,
           Queued(y.w) = Queued(x.w), High(x) <= High(y),
           PeerConsistent(y.w, y.acked), m.nr = x.vr,
           m.type = "I" =>
               /\ m.data \in 1..x.written /\ m.ns = (m.data - 1) % Mod
               /\ x.acked < m.data /\ m.data <= x.acked + Ks
               /\ m.data <= High(y)
    PROVE  LinkOK(y, o, c) /\ LinkOK(o, y, Append(d, m))
<1>. DEFINE e == Append(d, m)
<1>1. /\ e \in Seq(Wire) /\ Len(e) = Len(d) + 1 /\ Len(d) \in Nat
      /\ \A i \in 1..Len(d) : e[i] = d[i]
      /\ e[Len(d) + 1] = m
      /\ \A i \in 1..Len(e) : i \in 1..Len(d) \/ i = Len(d) + 1
  BY AppendFacts
<1>. HIDE DEF e
<1>2. Got(y) = Got(x)
  BY DEF Got
<1>3. /\ x.acked \in Nat /\ Got(o) \in Nat /\ High(x) \in Nat /\ High(y) \in Nat
      /\ Got(x) \in Nat /\ o.acked \in Nat
  BY StationFacts
<1>4. High(x) <= x.acked + Ks /\ Got(o) <= High(x) /\ x.acked <= Got(o)
  <2>1. High(x) <= x.acked + Ks /\ Got(o) <= High(x)
    BY WindowFacts DEF LinkOK
  <2>. QED BY <2>1 DEF LinkOK, ReceiveSide
<1>5. Ks \in Nat /\ m.data \in Nat
  BY KsAssumption, ModAssumption DEF Wire
<1>6. SendSide(y, o) /\ SendSide(o, y)
  <2>1. Got(o) <= High(y)
    BY <1>3, <1>4
  <2>. QED BY <1>2, <2>1 DEF SendSide, LinkOK
<1>7. ReceiveSide(y, o) /\ ReceiveSide(o, y)
  BY <1>2 DEF ReceiveSide, LinkOK
<1>8. IFramesOK(y, o, c)
  <2>1. \A k : Near(x, o, k) => Near(y, o, k)
    BY <1>2 DEF Near
  <2>. QED BY <2>1 DEF IFramesOK, LinkOK
<1>9. AcksOK(y, o, c)
  <2>1. \A k : Ahead(y, k) = Ahead(x, k)
    BY DEF Ahead
  <2>. QED BY <2>1 DEF AcksOK, LinkOK
<1>10. ASSUME NEW i \in 1..Len(d)
       PROVE  d[i].data \in Nat /\ Near(o, y, d[i]) /\ Behind(d[i], m)
  <2>1. d[i].data \in Nat
    BY WireFacts
  <2>2. Near(o, x, d[i])
    BY DEF LinkOK, IFramesOK
  <2>3. Near(o, y, d[i])
    BY <1>3, <2>1, <2>2 DEF Near
  <2>4. Behind(d[i], m)
    <3>1. SUFFICES ASSUME d[i].type = "I", m.type = "I" PROVE d[i].data < m.data + Ks
      BY DEF Behind
    <3>2. d[i].data <= High(x)
      BY <2>2, <3>1 DEF Near
    <3>. QED BY <1>3, <1>4, <1>5, <2>1, <3>1, <3>2
  <2>. QED BY <2>1, <2>3, <2>4
<1>11. Near(o, y, m)
  <2>1. SUFFICES ASSUME m.type = "I"
                 PROVE  m.data <= Got(o) + Ks /\ Got(o) < m.data + Ks
    BY DEF Near
  <2>. QED BY <1>3, <1>4, <1>5, <2>1
<1>12. IFramesOK(o, y, e)
  <2>1. ASSUME NEW i \in 1..Len(e) PROVE Near(o, y, e[i])
    BY <1>1, <1>10, <1>11
  <2>2. ASSUME NEW i \in 1..Len(e), NEW j \in 1..Len(e), j < i
        PROVE  Behind(e[j], e[i])
    <3>1. j \in 1..Len(d)
      BY <1>1, <2>2
    <3>2. CASE i \in 1..Len(d)
      BY <1>1, <2>2, <3>1, <3>2 DEF LinkOK, IFramesOK
    <3>3. CASE i = Len(d) + 1
      BY <1>1, <1>10, <3>1, <3>3
    <3>. QED BY <1>1, <3>2, <3>3
  <2>. QED BY <2>1, <2>2 DEF IFramesOK
<1>13. AcksOK(o, y, e)
  <2>1. SUFFICES ASSUME o.up
                 PROVE  /\ \A i \in 1..Len(e) : o.acked + Ahead(o, e[i]) <= Got(y)
                        /\ \A i \in 1..Len(e) : \A j \in 1..Len(e) :
                              j < i => Ahead(o, e[j]) <= Ahead(o, e[i])
    BY DEF AcksOK
  <2>2. o.acked + Ahead(o, m) = Got(x)
    BY <2>1, FreshAck DEF LinkOK, Ahead
  <2>3. Ahead(o, m) \in Nat
    <3>1. o.w.nr \in SeqNum /\ m.nr \in SeqNum
      BY StationFacts DEF Wire
    <3>2. Dist(o.w.nr, m.nr) \in SeqNum
      BY <3>1, DistAdd
    <3>. QED BY <3>2 DEF Ahead, SeqNum
  <2>4. ASSUME NEW i \in 1..Len(d)
        PROVE  o.acked + Ahead(o, d[i]) <= Got(x) /\ Ahead(o, d[i]) <= Ahead(o, m)
    <3>1. o.acked + Ahead(o, d[i]) <= Got(x)
      BY <2>1 DEF LinkOK, AcksOK
    <3>2. Ahead(o, d[i]) \in Nat
      BY AheadFacts
    <3>. QED BY <1>3, <2>2, <2>3, <3>1, <3>2
  <2>5. ASSUME NEW i \in 1..Len(e) PROVE o.acked + Ahead(o, e[i]) <= Got(y)
    <3>1. CASE i \in 1..Len(d)
      BY <1>1, <1>2, <2>4, <3>1
    <3>2. CASE i = Len(d) + 1
      BY <1>1, <1>2, <1>3, <2>2, <3>2
    <3>. QED BY <1>1, <3>1, <3>2
  <2>6. ASSUME NEW i \in 1..Len(e), NEW j \in 1..Len(e), j < i
        PROVE  Ahead(o, e[j]) <= Ahead(o, e[i])
    <3>1. j \in 1..Len(d)
      BY <1>1, <2>6
    <3>2. CASE i \in 1..Len(d)
      BY <1>1, <2>1, <2>6, <3>1, <3>2 DEF LinkOK, AcksOK
    <3>3. CASE i = Len(d) + 1
      BY <1>1, <2>4, <3>1, <3>3
    <3>. QED BY <1>1, <3>2, <3>3
  <2>. QED BY <2>5, <2>6
<1>. QED BY <1>6, <1>7, <1>8, <1>9, <1>12, <1>13 DEF LinkOK, e

\* The frame whose number is V(R) is the next one of the stream.
LEMMA NextPlace ==
    ASSUME NEW x \in StationState, NEW o \in StationState, NEW m \in Wire,
           x.up, ReceiveSide(x, o), Near(x, o, m), m.type = "I", m.ns = x.vr
    PROVE  m.data = Got(x) + 1
<1>1. Got(x) \in Nat
  BY StationFacts
<1>2. /\ m.data \in 1..o.written /\ m.ns = (m.data - 1) % Mod
      /\ m.data <= Got(x) + Ks /\ Got(x) < m.data + Ks
  BY DEF Near
<1>3. x.vr = Got(x) % Mod /\ Ks \in Nat
  BY KsAssumption, ModAssumption DEF ReceiveSide
<1>4. o.written \in Nat
  BY StationFacts
<1>5. /\ m.data - 1 \in Nat /\ m.data - 1 <= Got(x) + Ks
      /\ Got(x) <= (m.data - 1) + Ks
  BY <1>1, <1>2, <1>3, <1>4
<1>6. (m.data - 1) % Mod = Got(x) % Mod
  BY <1>2, <1>3, Zenon
<1>7. m.data - 1 = Got(x)
  BY <1>1, <1>5, <1>6, SamePlace, Zenon
<1>. QED BY <1>1, <1>2, <1>4, <1>7

\* Station y is station x after n frames of its stream were acknowledged by m
\* and the frame in m was accepted, or not.
Received(x, y, m, n) ==
    /\ y.up /\ y.acked = x.acked + n /\ y.written = x.written
    /\ y.w.nr = (x.w.nr + n) % Mod /\ y.w.vs_highest = x.w.vs_highest
    /\ Queued(y.w) + n = Queued(x.w)
    /\ PeerConsistent(y.w, y.acked)
    /\ \/ y.delivered = x.delivered /\ y.vr = x.vr
       \/ /\ m.type = "I" /\ m.ns = x.vr
          /\ y.delivered = Append(x.delivered, m.data)
          /\ y.vr = Inc(x.vr)

\* How far such a station has got.
LEMMA ReceivedFacts ==
    ASSUME NEW x \in StationState, NEW y \in StationState, NEW o \in StationState,
           NEW c \in Seq(Wire), LinkOK(x, o, c), x.up, c # << >>,
           NEW n \in Nat, n <= Ahead(x, Head(c)), Received(x, y, Head(c), n)
    PROVE  /\ High(y) = High(x) /\ y.acked <= Got(o)
           /\ n <= Dist(x.w.nr, x.w.vs_highest)
           /\ \/ /\ y.delivered = x.delivered /\ y.vr = x.vr /\ Got(y) = Got(x)
              \/ /\ Head(c).type = "I" /\ Head(c).data = Got(x) + 1
                 /\ y.delivered = Append(x.delivered, Got(x) + 1)
                 /\ Got(y) = Got(x) + 1 /\ y.vr = Got(y) % Mod
<1>. DEFINE m == Head(c)
<1>1. 1 \in 1..Len(c) /\ m = c[1]
  BY TailFacts
<1>2. m \in Wire /\ m.nr \in SeqNum /\ Ahead(x, m) \in Nat
  BY <1>1, WireFacts, AheadFacts
<1>3. x.acked + Ahead(x, m) <= Got(o) /\ Near(x, o, m)
  BY <1>1 DEF LinkOK, AcksOK, IFramesOK
<1>4. Got(o) <= High(x)
  BY DEF LinkOK, SendSide
<1>. HIDE DEF m
<1>5. /\ x.acked \in Nat /\ Got(o) \in Nat /\ Got(x) \in Nat
      /\ x.w.nr \in SeqNum /\ x.w.vs_highest \in SeqNum /\ x.delivered \in Seq(Nat)
  BY StationFacts
<1>6. Dist(x.w.nr, x.w.vs_highest) \in Nat
  <2>1. Dist(x.w.nr, x.w.vs_highest) \in SeqNum
    BY <1>5, DistAdd
  <2>. QED BY <2>1 DEF SeqNum
<1>7. n <= Dist(x.w.nr, x.w.vs_highest) /\ x.acked + n <= Got(o)
  <2>1. n <= Ahead(x, m)
    BY DEF m
  <2>2. x.acked + n <= Got(o)
    BY <1>2, <1>3, <1>5, <2>1
  <2>3. x.acked + n <= x.acked + Dist(x.w.nr, x.w.vs_highest)
    BY <1>4, <1>5, <1>6, <2>2 DEF High
  <2>. QED BY <1>5, <1>6, <2>2, <2>3
<1>8. High(y) = High(x)
  <2>1. Dist((x.w.nr + n) % Mod, x.w.vs_highest) = Dist(x.w.nr, x.w.vs_highest) - n
    BY <1>5, <1>7, DistShift
  <2>2. /\ y.acked = x.acked + n
        /\ Dist(y.w.nr, y.w.vs_highest) = Dist(x.w.nr, x.w.vs_highest) - n
    BY <2>1, Zenon DEF Received
  <2>. QED BY <1>5, <1>6, <2>2 DEF High
<1>9. y.acked <= Got(o)
  BY <1>7 DEF Received
<1>10. CASE y.delivered = x.delivered /\ y.vr = x.vr
  BY <1>7, <1>8, <1>9, <1>10 DEF Got
<1>11. CASE /\ m.type = "I" /\ m.ns = x.vr
            /\ y.delivered = Append(x.delivered, m.data)
            /\ y.vr = Inc(x.vr)
  <2>1. m.data = Got(x) + 1
    BY <1>2, <1>3, <1>11, NextPlace DEF LinkOK
  <2>2. m.data \in Nat
    BY <1>2 DEF Wire
  <2>3. Got(y) = Got(x) + 1
    BY <1>5, <1>11, <2>2 DEF Got
  <2>4. x.vr = Got(x) % Mod
    BY DEF LinkOK, ReceiveSide
  <2>5. Inc(Got(x) % Mod) = (Got(x) + 1) % Mod
    BY <1>5, IncOfPlace
  <2>6. y.vr = Got(y) % Mod
    BY <1>11, <2>3, <2>4, <2>5, Zenon
  <2>7. y.delivered = Append(x.delivered, Got(x) + 1)
    BY <1>11, <2>1, Zenon
  <2>. QED BY <1>7, <1>8, <1>9, <1>11, <2>1, <2>3, <2>6, <2>7 DEF m
<1>. QED BY <1>10, <1>11 DEF Received, m

\* What such a station has received is a longer prefix, and the frames still
\* on the line are near to it.
LEMMA ReceivedOK ==
    ASSUME NEW x \in StationState, NEW y \in StationState, NEW o \in StationState,
           NEW c \in Seq(Wire), NEW d \in Seq(Wire),
           LinkOK(x, o, c), LinkOK(o, x, d), x.up, c # << >>,
           NEW n \in Nat, n <= Ahead(x, Head(c)), Received(x, y, Head(c), n)
    PROVE  LinkOK(y, o, Tail(c)) /\ LinkOK(o, y, d)
<1>. DEFINE m == Head(c)
            t == Tail(c)
<1>1. /\ 1 \in 1..Len(c) /\ m = c[1] /\ t \in Seq(Wire) /\ Len(c) \in Nat
      /\ \A i \in 1..Len(t) : t[i] = c[i + 1] /\ i + 1 \in 1..Len(c)
  BY TailFacts
<1>2. /\ High(y) = High(x) /\ y.acked <= Got(o)
      /\ n <= Dist(x.w.nr, x.w.vs_highest)
      /\ \/ /\ y.delivered = x.delivered /\ y.vr = x.vr /\ Got(y) = Got(x)
         \/ /\ m.type = "I" /\ m.data = Got(x) + 1
            /\ y.delivered = Append(x.delivered, Got(x) + 1)
            /\ Got(y) = Got(x) + 1 /\ y.vr = Got(y) % Mod
  BY ReceivedFacts
<1>3. n <= Ahead(x, m) /\ Received(x, y, m, n)
  OBVIOUS
<1>4. LinkOK(x, o, t)
  BY LostOK
<1>. HIDE DEF m, t
<1>5. /\ x.acked \in Nat /\ Got(o) \in Nat /\ Got(x) \in Nat /\ Got(y) \in Nat
      /\ x.w.nr \in SeqNum /\ x.delivered \in Seq(Nat) /\ o.written \in Nat
      /\ o.acked \in Nat /\ Queued(x.w) \in Nat /\ Queued(y.w) \in Nat
      /\ High(o) \in Nat /\ x.written \in Nat
  BY StationFacts
<1>6. Near(x, o, m) /\ (x.acked + Ahead(x, m) <= Got(o)) /\ Ks \in Nat
  BY <1>1, KsAssumption, ModAssumption DEF LinkOK, AcksOK, IFramesOK
<1>7. Got(x) <= Got(y) /\ Got(y) <= o.written /\ (o.up => Got(y) <= High(o))
  <2>1. CASE Got(y) = Got(x)
    BY <1>5, <2>1 DEF LinkOK, ReceiveSide, SendSide
  <2>2. CASE m.type = "I" /\ m.data = Got(x) + 1 /\ Got(y) = Got(x) + 1
    <3>1. Got(y) \in 1..o.written /\ (o.up => Got(y) <= High(o))
      BY <1>6, <2>2 DEF Near
    <3>. QED BY <1>5, <2>2, <3>1
  <2>. QED BY <1>2, <2>1, <2>2
<1>8. SendSide(y, o)
  <2>1. Got(o) <= High(y) /\ x.acked + Queued(x.w) = x.written
    BY <1>2 DEF LinkOK, SendSide
  <2>2. /\ y.acked = x.acked + n /\ Queued(y.w) + n = Queued(x.w)
        /\ y.written = x.written /\ PeerConsistent(y.w, y.acked)
    BY <1>3 DEF Received
  <2>3. y.acked + Queued(y.w) = y.written
    BY <1>5, <2>1, <2>2
  <2>. QED BY <2>1, <2>2, <2>3 DEF SendSide
<1>9. SendSide(o, y)
  BY <1>7 DEF LinkOK, SendSide
<1>10. ReceiveSide(y, o)
  <2>1. \A i \in 1..Got(y) : y.delivered[i] = i
    <3>1. \A i \in 1..Got(x) : x.delivered[i] = i
      BY DEF LinkOK, ReceiveSide
    <3>2. CASE y.delivered = x.delivered /\ Got(y) = Got(x)
      BY <3>1, <3>2
    <3>3. CASE /\ y.delivered = Append(x.delivered, Got(x) + 1)
               /\ Got(y) = Got(x) + 1
      <4>1. ASSUME NEW i \in 1..Got(y) PROVE y.delivered[i] = i
        <5>1. Got(x) + 1 \in Nat /\ Len(x.delivered) = Got(x)
          BY <1>5 DEF Got
        <5>2. i \in 1..Got(x) \/ i = Got(x) + 1
          BY <1>5, <3>3
        <5>. QED BY <1>5, <3>1, <3>3, <5>1, <5>2
      <4>. QED BY <4>1
    <3>. QED BY <1>2, <3>2, <3>3
  <2>2. o.acked <= Got(y)
    <3>1. o.acked <= Got(x)
      BY DEF LinkOK, ReceiveSide
    <3>. QED BY <1>5, <1>7, <3>1
  <2>3. y.vr = Got(y) % Mod
    <3>1. x.vr = Got(x) % Mod
      BY DEF LinkOK, ReceiveSide
    <3>. QED BY <1>2, <3>1, Zenon
  <2>. QED BY <1>7, <2>1, <2>2, <2>3 DEF ReceiveSide
<1>11. ReceiveSide(o, y)
  <2>1. y.written = x.written
    BY <1>3 DEF Received
  <2>. QED BY <1>2, <2>1 DEF LinkOK, ReceiveSide
<1>12. IFramesOK(y, o, t)
  <2>1. ASSUME NEW i \in 1..Len(t) PROVE Near(y, o, t[i])
    <3>1. Near(x, o, t[i]) /\ t[i].data \in Nat
      BY <1>1, <1>4, WireFacts DEF LinkOK, IFramesOK
    <3>2. Behind(m, t[i])
      <4>1. t[i] = c[i + 1] /\ i + 1 \in 1..Len(c) /\ 1 < i + 1
        BY <1>1
      <4>. QED BY <1>1, <4>1 DEF LinkOK, IFramesOK
    <3>3. SUFFICES ASSUME t[i].type = "I"
                   PROVE  t[i].data <= Got(y) + Ks /\ Got(y) < t[i].data + Ks
      BY <3>1 DEF Near
    <3>4. t[i].data <= Got(x) + Ks /\ Got(x) < t[i].data + Ks
      BY <3>1, <3>3 DEF Near
    <3>5. m.type = "I" => m.data < t[i].data + Ks
      BY <3>2, <3>3 DEF Behind
    <3>. QED BY <1>2, <1>5, <1>6, <1>7, <3>1, <3>4, <3>5
  <2>. QED BY <1>4, <2>1 DEF LinkOK, IFramesOK
<1>13. IFramesOK(o, y, d)
  <2>1. \A k : Near(o, x, k) => Near(o, y, k)
    BY <1>2, <1>3 DEF Near, Received
  <2>. QED BY <2>1 DEF LinkOK, IFramesOK
<1>14. ASSUME NEW i \in 1..Len(t)
       PROVE  /\ Ahead(x, t[i]) \in Nat /\ Ahead(x, m) <= Ahead(x, t[i])
              /\ Ahead(y, t[i]) = Ahead(x, t[i]) - n
  <2>1. Ahead(x, t[i]) \in Nat /\ t[i].nr \in SeqNum
    BY <1>1, AheadFacts, WireFacts
  <2>2. Ahead(x, m) <= Ahead(x, t[i]) /\ Ahead(x, m) \in Nat
    <3>1. t[i] = c[i + 1] /\ i + 1 \in 1..Len(c) /\ 1 < i + 1
      BY <1>1
    <3>. QED BY <1>1, <3>1, AheadFacts DEF LinkOK, AcksOK
  <2>3. n <= Dist(x.w.nr, t[i].nr)
    BY <1>3, <2>1, <2>2 DEF Ahead
  <2>4. Dist((x.w.nr + n) % Mod, t[i].nr) = Dist(x.w.nr, t[i].nr) - n
    BY <1>5, <2>1, <2>3, DistShift
  <2>5. Dist(y.w.nr, t[i].nr) = Dist(x.w.nr, t[i].nr) - n
    BY <1>3, <2>4, Zenon DEF Received
  <2>. QED BY <2>1, <2>2, <2>5 DEF Ahead
<1>15. AcksOK(y, o, t)
  <2>1. ASSUME NEW i \in 1..Len(t) PROVE y.acked + Ahead(y, t[i]) <= Got(o)
    <3>1. x.acked + Ahead(x, t[i]) <= Got(o)
      BY <1>4 DEF LinkOK, AcksOK
    <3>2. y.acked = x.acked + n
      BY <1>3 DEF Received
    <3>. QED BY <1>5, <1>14, <3>1, <3>2
  <2>2. ASSUME NEW i \in 1..Len(t), NEW j \in 1..Len(t), j < i
        PROVE  Ahead(y, t[j]) <= Ahead(y, t[i])
    <3>1. Ahead(x, t[j]) <= Ahead(x, t[i])
      BY <1>4, <2>2 DEF LinkOK, AcksOK
    <3>. QED BY <1>14, <3>1
  <2>. QED BY <2>1, <2>2 DEF AcksOK
<1>16. AcksOK(o, y, d)
  <2>1. ASSUME o.up, NEW i \in 1..Len(d) PROVE o.acked + Ahead(o, d[i]) <= Got(y)
    <3>1. o.acked + Ahead(o, d[i]) <= Got(x) /\ Ahead(o, d[i]) \in Nat
      BY <2>1, AheadFacts DEF LinkOK, AcksOK
    <3>. QED BY <1>5, <1>7, <3>1
  <2>. QED BY <2>1 DEF LinkOK, AcksOK
<1>. QED
  BY <1>8, <1>9, <1>10, <1>11, <1>12, <1>13, <1>15, <1>16 DEF LinkOK, t

(***************************************************************************)
(* A step changes one station, the frames to it and the frames from it.    *)
(***************************************************************************)
TxState == [pc : {"wait", "burst", "tail"}, cm : SUBSET Flag, sent : BOOLEAN]
EvState == [flags : SUBSET Flag, pending : BOOLEAN]

\* The variables around the stations keep their types.
AroundOK ==
    /\ tx \in [Station -> TxState] /\ ev \in [Station -> EvState]
    /\ chan \in [Station -> Seq(Wire)]
    /\ losses \in 0..MaxLoss /\ early \in 0..link.maxEarly /\ link \in Links

\* What the users of station x see when it becomes y, o being the other one.
UserStep(x, y, o) ==
    \/ y.written = x.written /\ y.acked = x.acked /\ y.delivered = x.delivered
    \/ y.written = x.written + 1 /\ y.acked = x.acked /\ y.delivered = x.delivered
    \/ /\ y.written = x.written /\ y.acked \in x.acked..Got(o)
       /\ \/ y.delivered = x.delivered
          \/ /\ Got(x) < o.written
             /\ y.delivered = Append(x.delivered, Got(x) + 1)

\* Station s becomes y, and the invariant follows it.
Becomes(s, y) ==
    /\ y \in StationState /\ st' = [st EXCEPT ![s] = y]
    /\ LinkOK(y, st[Other(s)], chan'[s])
    /\ LinkOK(st[Other(s)], y, chan'[Other(s)])
    /\ ~y.frmr /\ (~y.up => tx'[s].pc = "wait")
    /\ tx'[Other(s)] = tx[Other(s)]
    /\ UserStep(st[s], y, st[Other(s)])

\* There are two stations.
LEMMA TwoStations ==
    ASSUME NEW s \in Station
    PROVE  /\ Other(s) \in Station /\ Other(s) # s /\ Other(Other(s)) = s
           /\ \A r \in Station : r = s \/ r = Other(s)
           /\ Stream!Peer(s) = Other(s)
<1>1. /\ Other(s) \in Station /\ Other(s) # s /\ Other(Other(s)) = s
      /\ \A r \in Station : r = s \/ r = Other(s)
  BY DEF Station, Other
<1>2. Stream!Peer(s) = Other(s)
  <2>1. Stream!Peer(s) = CHOOSE o \in Station : o # s
    BY DEF Stream!Peer
  <2>2. \E o \in Station : o # s
    BY <1>1
  <2>. QED BY <1>1, <2>1, <2>2
<1>. QED BY <1>1, <1>2

\* The invariant holds after such a step.
LEMMA BecomesOK ==
    ASSUME IInv, NEW s \in Station, NEW y, Becomes(s, y), AroundOK'
    PROVE  IInv'
<1>. DEFINE o == Other(s)
<1>1. o \in Station /\ o # s /\ Other(o) = s /\ \A r \in Station : r = s \/ r = o
  BY TwoStations
<1>2. st \in [Station -> StationState]
  BY DEF IInv, TypeOK
<1>3. Calm(o)
  BY <1>1 DEF IInv
<1>4. Other(s) = o
  OBVIOUS
<1>. HIDE DEF o
<1>5. st' \in [Station -> StationState] /\ st'[s] = y /\ st'[o] = st[o]
  BY <1>1, <1>2 DEF Becomes
<1>6. TypeOK'
  BY <1>5 DEF TypeOK, AroundOK, TxState, EvState
<1>7. Calm(s)' /\ Calm(o)'
  BY <1>3, <1>4, <1>5 DEF Calm, Becomes
<1>8. LinkOK(st'[s], st'[o], chan'[s]) /\ LinkOK(st'[o], st'[s], chan'[o])
  BY <1>4, <1>5 DEF Becomes
<1>9. ASSUME NEW r \in Station
      PROVE  Calm(r)' /\ LinkOK(st'[r], st'[Other(r)], chan'[r])
  BY <1>1, <1>4, <1>7, <1>8
<1>. QED BY <1>6, <1>9 DEF IInv

\* The users see a step of the reliable stream, or none.
LEMMA BecomesStream ==
    ASSUME IInv, NEW s \in Station, NEW y, Becomes(s, y)
    PROVE  [Stream!Next]_(Stream!vars)
<1>. DEFINE o == Other(s)
            x == st[s]
            W == [r \in Station |-> st[r].written]
            D == [r \in Station |-> st[r].delivered]
            A == [r \in Station |-> st[r].acked]
<1>1. /\ o \in Station /\ o # s /\ \A r \in Station : r = s \/ r = o
      /\ Stream!Peer(s) = o
  BY TwoStations
<1>2. st \in [Station -> StationState]
  BY DEF IInv, TypeOK
<1>3. st'[s] = y /\ st'[o] = st[o] /\ UserStep(x, y, st[o])
  BY <1>1, <1>2 DEF Becomes
<1>4. /\ W' = [r \in Station |-> st'[r].written]
      /\ D' = [r \in Station |-> st'[r].delivered]
      /\ A' = [r \in Station |-> st'[r].acked]
  OBVIOUS
<1>5. /\ W' = [W EXCEPT ![s] = y.written]
      /\ D' = [D EXCEPT ![s] = y.delivered]
      /\ A' = [A EXCEPT ![s] = y.acked]
  BY <1>1, <1>3, <1>4
<1>6. /\ W[s] = x.written /\ D[s] = x.delivered /\ A[s] = x.acked
      /\ W[o] = st[o].written /\ D[o] = st[o].delivered
  BY <1>1
<1>7. /\ W = [W EXCEPT ![s] = W[s]] /\ D = [D EXCEPT ![s] = D[s]]
      /\ A = [A EXCEPT ![s] = A[s]]
  OBVIOUS
<1>8. CASE y.written = x.written /\ y.acked = x.acked /\ y.delivered = x.delivered
  <2>1. W' = W /\ D' = D /\ A' = A
    BY <1>5, <1>6, <1>7, <1>8
  <2>. QED BY <2>1 DEF Stream!vars
<1>9. CASE y.written = x.written + 1 /\ y.acked = x.acked /\ y.delivered = x.delivered
  <2>1. W' = [W EXCEPT ![s] = W[s] + 1] /\ D' = D /\ A' = A
    BY <1>5, <1>6, <1>7, <1>9
  <2>2. Stream!Send(s)
    BY <2>1 DEF Stream!Send
  <2>. QED BY <2>2 DEF Stream!Next
<1>10. CASE /\ y.written = x.written /\ y.acked \in x.acked..Got(st[o])
            /\ \/ y.delivered = x.delivered
               \/ /\ Got(x) < st[o].written
                  /\ y.delivered = Append(x.delivered, Got(x) + 1)
  <2>1. W' = W
    BY <1>5, <1>6, <1>7, <1>10
  <2>2. Stream!Learn(s)
    BY <1>1, <1>5, <1>6, <1>10 DEF Stream!Learn, Got
  <2>3. CASE y.delivered = x.delivered
    <3>1. D' = D
      BY <1>5, <1>6, <1>7, <2>3
    <3>2. Stream!Receive(s)
      BY <2>1, <2>2, <3>1 DEF Stream!Receive
    <3>. QED BY <3>2 DEF Stream!Next
  <2>4. CASE /\ Got(x) < st[o].written
             /\ y.delivered = Append(x.delivered, Got(x) + 1)
    <3>1. Stream!Deliver(s)
      BY <1>1, <1>5, <1>6, <2>4 DEF Stream!Deliver, Got
    <3>2. Stream!Receive(s)
      BY <2>1, <2>2, <3>1 DEF Stream!Receive
    <3>. QED BY <3>2 DEF Stream!Next
  <2>. QED BY <1>10, <2>3, <2>4
<1>. QED BY <1>3, <1>8, <1>9, <1>10 DEF UserStep

\* What the invariant says of one station.
LEMMA IInvFacts ==
    ASSUME IInv, NEW s \in Station
    PROVE  /\ st[s] \in StationState /\ st[Other(s)] \in StationState
           /\ chan[s] \in Seq(Wire) /\ chan[Other(s)] \in Seq(Wire)
           /\ LinkOK(st[s], st[Other(s)], chan[s])
           /\ LinkOK(st[Other(s)], st[s], chan[Other(s)])
           /\ ~st[s].frmr /\ (~st[s].up => tx[s].pc = "wait")
           /\ st \in [Station -> StationState] /\ AroundOK
           /\ tx[s] \in TxState /\ ev[s] \in EvState
<1>1. TypeOK /\ Calm(s) /\ LinkOK(st[s], st[Other(s)], chan[s])
  BY DEF IInv
<1>2. Other(s) \in Station /\ Other(Other(s)) = s
  BY TwoStations
<1>3. LinkOK(st[Other(s)], st[s], chan[Other(s)])
  BY <1>2 DEF IInv
<1>4. AroundOK
  BY <1>1 DEF TypeOK, AroundOK, TxState, EvState
<1>. QED BY <1>1, <1>2, <1>3, <1>4 DEF TypeOK, AroundOK, Calm

\* Raising events keeps the events well typed.
LEMMA BroadcastType ==
    ASSUME ev \in [Station -> EvState], NEW s \in Station, NEW f \in SUBSET Flag
    PROVE  Broadcast(s, f) \in [Station -> EvState]
<1>1. ev[s].flags \union f \in SUBSET Flag
  BY DEF EvState
<1>2. [flags |-> ev[s].flags \union f, pending |-> TRUE] \in EvState
  BY <1>1 DEF EvState
<1>. QED BY <1>2 DEF Broadcast

\* So does taking them.
LEMMA GetAndClearType ==
    ASSUME ev \in [Station -> EvState], NEW s \in Station
    PROVE  GetAndClear(s) \in [Station -> EvState]
<1>1. [ev[s] EXCEPT !.flags = {}] \in EvState
  BY DEF EvState
<1>. QED BY <1>1 DEF GetAndClear

\* Where nothing the streams see changes, nothing is broken.
LEMMA QuietStep ==
    ASSUME IInv, NEW s \in Station, NEW y \in StationState,
           st' = [st EXCEPT ![s] = y], chan' = chan, SameStream(st[s], y),
           ~y.frmr, ~y.up => tx'[s].pc = "wait", tx'[Other(s)] = tx[Other(s)]
    PROVE  Becomes(s, y)
<1>1. /\ LinkOK(st[s], st[Other(s)], chan[s])
      /\ LinkOK(st[Other(s)], st[s], chan[Other(s)])
  BY IInvFacts
<1>2. LinkOK(y, st[Other(s)], chan[s]) /\ LinkOK(st[Other(s)], y, chan[Other(s)])
  BY <1>1, SameStreamOK
<1>3. UserStep(st[s], y, st[Other(s)])
  BY DEF UserStep, SameStream
<1>. QED BY <1>2, <1>3 DEF Becomes

\* A station whose window is left alone.
LEMMA SameWindow ==
    ASSUME NEW x, NEW y, NEW o, NEW c, LinkOK(x, o, c), y.w = x.w,
           y.up <=> x.up, y.acked = x.acked, y.written = x.written, y.vr = x.vr,
           y.delivered = x.delivered
    PROVE  SameStream(x, y)
<1>1. x.up => PeerConsistent(x.w, x.acked)
  BY DEF LinkOK, SendSide
<1>. QED BY <1>1 DEF SameStream

(***************************************************************************)
(* The initial state.                                                      *)
(***************************************************************************)
\* Two stations just connected satisfy the invariant.
LEMMA InitIInv == Init => IInv
<1>. SUFFICES ASSUME Init PROVE IInv
  OBVIOUS
<1>1. 0 \in SeqNum /\ << >> \in Seq(Frame) /\ << >> \in Seq(Nat) /\ << >> \in Seq(Wire)
      /\ 0 \in 0..Mod /\ 0 \in 0..RetryMax
  BY ModAssumption, MarginAssumption DEF SeqNum
<1>2. InitWindow \in PeerWindow
  BY <1>1 DEF InitWindow, PeerWindow
<1>3. PeerConsistent(InitWindow, 0) /\ Queued(InitWindow) = 0
  <2>1. PeerConsistent(InitWindow, 0)
    BY <1>2, EmptyConsistent DEF InitWindow
  <2>. QED BY <2>1 DEF InitWindow, Queued
<1>4. Dist(InitWindow.nr, InitWindow.vs_highest) = 0 /\ 0 % Mod = 0
  BY ModCases, ModAssumption DEF Dist, InitWindow
<1>5. ASSUME NEW s \in Station
      PROVE  /\ InitStation(s) \in StationState
             /\ InitStation(s).up /\ ~InitStation(s).frmr
             /\ InitStation(s).w = InitWindow /\ InitStation(s).acked = 0
             /\ InitStation(s).written = 0 /\ InitStation(s).vr = 0
             /\ InitStation(s).delivered = << >>
  <2>1. IsPri(s) \in BOOLEAN
    BY DEF IsPri, ABM
  <2>2. (IF ~ABM /\ s = "A" THEN "armed" ELSE "off") \in Timer
    BY DEF Timer
  <2>3. InitStation(s) \in StationState
    BY <1>1, <1>2, <2>1, <2>2 DEF InitStation, StationState, Timer
  <2>. QED BY <2>3 DEF InitStation
<1>6. \A s \in Station : st[s] = InitStation(s) /\ chan[s] = << >>
  BY DEF Init
<1>7. TypeOK
  <2>1. st \in [Station -> StationState]
    BY <1>5 DEF Init
  <2>2. tx \in [Station -> TxState] /\ ev \in [Station -> EvState]
        /\ chan \in [Station -> Seq(Wire)]
    BY <1>1 DEF Init, TxState, EvState
  <2>3. losses \in 0..MaxLoss /\ early \in 0..link.maxEarly /\ link \in Links
    BY LinksAssumption, BoundsAssumption DEF Init, Link
  <2>. QED BY <2>1, <2>2, <2>3 DEF TypeOK, TxState, EvState
<1>8. ASSUME NEW s \in Station
      PROVE  Calm(s) /\ LinkOK(st[s], st[Other(s)], chan[s])
  <2>. DEFINE x == st[s]
              o == st[Other(s)]
  <2>1. /\ x.up /\ ~x.frmr /\ x.w = InitWindow /\ x.acked = 0 /\ x.written = 0
        /\ x.vr = 0 /\ x.delivered = << >>
        /\ o.up /\ ~o.frmr /\ o.w = InitWindow /\ o.acked = 0 /\ o.written = 0
        /\ o.vr = 0 /\ o.delivered = << >>
    BY <1>5, <1>6, TwoStations
  <2>. HIDE DEF x, o
  <2>2. Got(x) = 0 /\ Got(o) = 0 /\ High(x) = 0 /\ High(o) = 0
    BY <1>4, <2>1 DEF Got, High
  <2>3. SendSide(x, o)
    BY <1>3, <2>1, <2>2 DEF SendSide
  <2>4. ReceiveSide(x, o)
    BY <1>4, <2>1, <2>2 DEF ReceiveSide
  <2>5. chan[s] = << >> /\ Len(<< >>) = 0
    BY <1>6
  <2>6. IFramesOK(x, o, chan[s]) /\ AcksOK(x, o, chan[s])
    BY <2>5 DEF IFramesOK, AcksOK
  <2>7. Calm(s)
    BY <2>1 DEF Calm, x
  <2>. QED BY <2>3, <2>4, <2>6, <2>7 DEF LinkOK, x, o
<1>. QED BY <1>7, <1>8 DEF IInv

(***************************************************************************)
(* The steps of the application, of the line and of the timers.            *)
(***************************************************************************)
\* The pool has a watermark state, whatever the count.
LEMMA PoolType == \A low : \A n \in Int : PoolState(low, n) \in BOOLEAN
<1>. SUFFICES ASSUME NEW low, NEW n \in Int PROVE PoolState(low, n) \in BOOLEAN
  OBVIOUS
<1>1. (n >= PoolNormal) \in BOOLEAN /\ (n >= PoolLow) \in BOOLEAN
  BY PoolAssumption
<1>2. CASE low
  BY <1>1, <1>2, Zenon DEF PoolState
<1>3. CASE ~low
  BY <1>1, <1>3, Zenon DEF PoolState
<1>. QED BY <1>2, <1>3

\* The frames of a station that are in use are counted.
LEMMA InUseType ==
    ASSUME NEW x \in StationState
    PROVE  InUse(x) \in Nat
<1>1. x.w \in PeerWindow /\ x.unread \in Nat
  BY DEF StationState
<1>2. x.w.i_pending_count \in Nat
  BY <1>1, PeerFacts
<1>. QED BY <1>1, <1>2 DEF InUse

\* Writing a frame.
LEMMA WriteOK ==
    ASSUME IInv, NEW s \in Station, Write(s), UNCHANGED link
    PROVE  (\E y : Becomes(s, y)) /\ AroundOK'
<1>. DEFINE x == st[s]
            u == Enqueue(x.w, x.written + 1)
            l == PoolState(x.low, InUse(x) + 1)
            y == [x EXCEPT !.w = u, !.written = @ + 1, !.signal_tx = TRUE, !.low = l]
<1>1. /\ x \in StationState /\ st[Other(s)] \in StationState
      /\ chan[s] \in Seq(Wire) /\ chan[Other(s)] \in Seq(Wire)
      /\ LinkOK(x, st[Other(s)], chan[s]) /\ LinkOK(st[Other(s)], x, chan[Other(s)])
      /\ ~x.frmr /\ AroundOK
  BY IInvFacts
<1>2. x.up /\ st' = [st EXCEPT ![s] = y] /\ chan' = chan /\ tx' = tx
      /\ UNCHANGED <<ev, losses, early, link>>
  BY DEF Write
<1>. HIDE DEF x
<1>3. /\ x.w \in PeerWindow /\ x.acked \in Nat /\ x.written \in Nat
      /\ Queued(x.w) \in Nat
  BY <1>1, StationFacts
<1>4. PeerConsistent(x.w, x.acked) /\ x.acked + Queued(x.w) = x.written
  BY <1>1, <1>2 DEF LinkOK, SendSide
<1>5. x.written + 1 = x.acked + Len(x.w.i_retrans_q) + Len(x.w.i_trans_q) + 1
  <2>1. Len(x.w.i_retrans_q) \in Nat /\ Len(x.w.i_trans_q) \in Nat
    BY <1>3, PeerFacts
  <2>2. ASSUME NEW a \in Nat, NEW b \in Nat, NEW e \in Nat
        PROVE  a + (b + e) + 1 = a + b + e + 1
    OBVIOUS
  <2>3. x.written + 1 = x.acked + (Len(x.w.i_retrans_q) + Len(x.w.i_trans_q)) + 1
    BY <1>4 DEF Queued
  <2>. QED BY <1>3, <2>1, <2>2, <2>3, Zenon
<1>6. /\ u \in PeerWindow /\ PeerConsistent(u, x.acked)
      /\ Len(u.i_trans_q) = Len(x.w.i_trans_q) + 1
      /\ u.i_retrans_q = x.w.i_retrans_q
      /\ u.nr = x.w.nr /\ u.vs_highest = x.w.vs_highest
  <2>1. x.written + 1 \in Nat
    BY <1>3
  <2>. QED BY <1>3, <1>4, <1>5, <2>1, EnqueueConsistent, NumbersKept
<1>7. l \in BOOLEAN /\ u \in PeerWindow /\ x.written + 1 \in Nat
  <2>1. InUse(x) + 1 \in Int
    BY <1>1, InUseType
  <2>. QED BY <1>3, <1>6, <2>1, PoolType
<1>. HIDE DEF u, l
<1>8. Queued(u) = Queued(x.w) + 1
  <2>1. Len(x.w.i_retrans_q) \in Nat /\ Len(x.w.i_trans_q) \in Nat
    BY <1>3, PeerFacts
  <2>2. ASSUME NEW b \in Nat, NEW e \in Nat PROVE b + (e + 1) = b + e + 1
    OBVIOUS
  <2>. QED BY <1>6, <2>1, <2>2, Zenon DEF Queued
<1>9. y \in StationState
  BY <1>1, <1>7 DEF StationState
<1>10. /\ y.w = u /\ y.written = x.written + 1 /\ (y.up <=> x.up)
       /\ y.acked = x.acked /\ y.vr = x.vr /\ y.delivered = x.delivered
       /\ (y.frmr <=> x.frmr)
  BY <1>1 DEF StationState
<1>. HIDE DEF y
<1>11. LinkOK(y, st[Other(s)], chan[s]) /\ LinkOK(st[Other(s)], y, chan[Other(s)])
  BY <1>1, <1>2, <1>6, <1>8, <1>9, <1>10, WrittenOK
<1>12. Becomes(s, y)
  BY <1>1, <1>2, <1>9, <1>10, <1>11 DEF Becomes, UserStep, x
<1>13. AroundOK'
  BY <1>1, <1>2 DEF AroundOK
<1>. QED BY <1>12, <1>13

\* Waking the TX thread for what was written.
LEMMA WriteSignalOK ==
    ASSUME IInv, NEW s \in Station, WriteSignal(s), UNCHANGED link
    PROVE  (\E y : Becomes(s, y)) /\ AroundOK'
<1>. DEFINE x == st[s]
            y == [x EXCEPT !.signal_tx = FALSE]
<1>1. /\ x \in StationState /\ LinkOK(x, st[Other(s)], chan[s])
      /\ ~x.frmr /\ (~x.up => tx[s].pc = "wait") /\ AroundOK
  BY IInvFacts
<1>2. /\ st' = [st EXCEPT ![s] = y] /\ ev' = Broadcast(s, {"WORK"})
      /\ UNCHANGED <<tx, chan, losses, early, link>>
  BY DEF WriteSignal
<1>3. y \in StationState
  BY <1>1 DEF StationState
<1>4. /\ y.w = x.w /\ (y.up <=> x.up) /\ y.acked = x.acked /\ y.written = x.written
      /\ y.vr = x.vr /\ y.delivered = x.delivered /\ (y.frmr <=> x.frmr)
  BY <1>1 DEF StationState
<1>. HIDE DEF y
<1>5. SameStream(x, y)
  BY <1>1, <1>4, SameWindow
<1>6. Becomes(s, y)
  BY <1>1, <1>2, <1>3, <1>4, <1>5, QuietStep
<1>7. AroundOK'
  BY <1>1, <1>2, BroadcastType DEF AroundOK, Flag
<1>. QED BY <1>6, <1>7

\* Reading a frame.
LEMMA ReadOK ==
    ASSUME IInv, NEW s \in Station, Read(s), UNCHANGED link
    PROVE  (\E y : Becomes(s, y)) /\ AroundOK'
<1>. DEFINE x == st[s]
            l == PoolState(x.low, InUse(x) - 1)
            y == [x EXCEPT !.unread = @ - 1, !.low = l]
            f == {g \in {"URGENT"} : x.busy /\ ~l}
<1>1. /\ x \in StationState /\ LinkOK(x, st[Other(s)], chan[s])
      /\ ~x.frmr /\ (~x.up => tx[s].pc = "wait") /\ AroundOK
  BY IInvFacts
<1>2. /\ st' = [st EXCEPT ![s] = y] /\ ev' = Broadcast(s, f) /\ x.unread > 0
      /\ UNCHANGED <<tx, chan, losses, early, link>>
  BY DEF Read
<1>3. l \in BOOLEAN /\ f \in SUBSET Flag
  <2>1. InUse(x) - 1 \in Int
    BY <1>1, InUseType
  <2>. QED BY <2>1, PoolType DEF Flag
<1>. HIDE DEF l, f
<1>4. x.unread - 1 \in Nat
  BY <1>1, <1>2 DEF StationState
<1>5. y \in StationState
  BY <1>1, <1>3, <1>4 DEF StationState
<1>6. /\ y.w = x.w /\ (y.up <=> x.up) /\ y.acked = x.acked /\ y.written = x.written
      /\ y.vr = x.vr /\ y.delivered = x.delivered /\ (y.frmr <=> x.frmr)
  BY <1>1 DEF StationState
<1>. HIDE DEF y
<1>7. SameStream(x, y)
  BY <1>1, <1>6, SameWindow
<1>8. Becomes(s, y)
  BY <1>1, <1>2, <1>5, <1>6, <1>7, QuietStep
<1>9. AroundOK'
  BY <1>1, <1>2, <1>3, BroadcastType DEF AroundOK
<1>. QED BY <1>8, <1>9

\* The line loses a frame.
LEMMA LoseOK ==
    ASSUME IInv, NEW s \in Station, Lose(s), UNCHANGED link
    PROVE  (\E y : Becomes(s, y)) /\ AroundOK'
<1>1. /\ st[s] \in StationState /\ st[Other(s)] \in StationState
      /\ chan[s] \in Seq(Wire)
      /\ LinkOK(st[s], st[Other(s)], chan[s])
      /\ LinkOK(st[Other(s)], st[s], chan[Other(s)])
      /\ ~st[s].frmr /\ (~st[s].up => tx[s].pc = "wait")
      /\ st \in [Station -> StationState] /\ AroundOK
  BY IInvFacts
<1>2. /\ losses < MaxLoss /\ chan[s] # << >> /\ losses' = losses + 1
      /\ chan' = [chan EXCEPT ![s] = Tail(chan[s])]
      /\ UNCHANGED <<st, tx, ev, early, link>>
  BY DEF Lose
<1>3. Other(s) \in Station /\ Other(s) # s
  BY TwoStations
<1>4. Tail(chan[s]) \in Seq(Wire)
  BY <1>1, <1>2, TailFacts
<1>5. /\ chan \in [Station -> Seq(Wire)] /\ chan'[s] = Tail(chan[s])
      /\ chan'[Other(s)] = chan[Other(s)] /\ chan' \in [Station -> Seq(Wire)]
  <2>1. chan \in [Station -> Seq(Wire)]
    BY <1>1 DEF AroundOK
  <2>. QED BY <1>2, <1>3, <1>4, <2>1
<1>6. LinkOK(st[s], st[Other(s)], Tail(chan[s]))
  BY <1>1, <1>2, LostOK
<1>7. st' = [st EXCEPT ![s] = st[s]]
  BY <1>1, <1>2
<1>8. UserStep(st[s], st[s], st[Other(s)])
  BY DEF UserStep
<1>9. Becomes(s, st[s])
  BY <1>1, <1>2, <1>5, <1>6, <1>7, <1>8 DEF Becomes
<1>10. losses' \in 0..MaxLoss
  BY <1>1, <1>2, BoundsAssumption DEF AroundOK
<1>11. AroundOK'
  BY <1>1, <1>2, <1>5, <1>10 DEF AroundOK
<1>. QED BY <1>9, <1>11

\* The line falls idle.
LEMMA RxIdleOK ==
    ASSUME IInv, NEW s \in Station, RxIdle(s), UNCHANGED link
    PROVE  (\E y : Becomes(s, y)) /\ AroundOK'
<1>. DEFINE x == st[s]
            y == [x EXCEPT !.idl = UsesIdle]
<1>1. /\ x \in StationState /\ LinkOK(x, st[Other(s)], chan[s])
      /\ ~x.frmr /\ (~x.up => tx[s].pc = "wait") /\ AroundOK
  BY IInvFacts
<1>2. /\ st' = [st EXCEPT ![s] = y] /\ ev' = Broadcast(s, {"LINE_IDLE"})
      /\ UNCHANGED <<tx, chan, losses, early, link>>
  BY DEF RxIdle
<1>3. UsesIdle \in BOOLEAN
  BY DEF UsesIdle, ABM
<1>4. y \in StationState
  BY <1>1, <1>3 DEF StationState
<1>5. /\ y.w = x.w /\ (y.up <=> x.up) /\ y.acked = x.acked /\ y.written = x.written
      /\ y.vr = x.vr /\ y.delivered = x.delivered /\ (y.frmr <=> x.frmr)
  BY <1>1 DEF StationState
<1>. HIDE DEF y
<1>6. SameStream(x, y)
  BY <1>1, <1>5, SameWindow
<1>7. Becomes(s, y)
  BY <1>1, <1>2, <1>4, <1>5, <1>6, QuietStep
<1>8. AroundOK'
  BY <1>1, <1>2, BroadcastType DEF AroundOK, Flag
<1>. QED BY <1>7, <1>8

\* The bound on early timers holds.
LEMMA RunOutOK ==
    ASSUME AroundOK, RunOut, UNCHANGED link
    PROVE  early' \in 0..link'.maxEarly
<1>1. link.maxEarly \in Nat /\ early \in 0..link.maxEarly /\ link' = link
  BY LinksAssumption DEF AroundOK, Link
<1>2. early' = early \/ (early < link.maxEarly /\ early' = early + 1)
  BY DEF RunOut
<1>. QED BY <1>1, <1>2

\* The reply timer runs out.
LEMMA T1ExpireOK ==
    ASSUME IInv, NEW s \in Station, T1Expire(s), UNCHANGED link
    PROVE  (\E y : Becomes(s, y)) /\ AroundOK'
<1>. DEFINE x == st[s]
            y == [x EXCEPT !.t1 = "expired"]
<1>1. /\ x \in StationState /\ LinkOK(x, st[Other(s)], chan[s])
      /\ ~x.frmr /\ (~x.up => tx[s].pc = "wait") /\ AroundOK
  BY IInvFacts
<1>2. /\ st' = [st EXCEPT ![s] = y] /\ ev' = Broadcast(s, {"C_RPLYTMO"}) /\ RunOut
      /\ UNCHANGED <<tx, chan, losses, link>>
  BY DEF T1Expire
<1>3. y \in StationState
  BY <1>1 DEF StationState, Timer
<1>4. /\ y.w = x.w /\ (y.up <=> x.up) /\ y.acked = x.acked /\ y.written = x.written
      /\ y.vr = x.vr /\ y.delivered = x.delivered /\ (y.frmr <=> x.frmr)
  BY <1>1 DEF StationState
<1>. HIDE DEF y
<1>5. SameStream(x, y)
  BY <1>1, <1>4, SameWindow
<1>6. Becomes(s, y)
  BY <1>1, <1>2, <1>3, <1>4, <1>5, QuietStep
<1>7. early' \in 0..link'.maxEarly
  BY <1>1, <1>2, RunOutOK
<1>8. AroundOK'
  BY <1>1, <1>2, <1>7, BroadcastType DEF AroundOK, Flag
<1>. QED BY <1>6, <1>8

\* The other timer runs out.
LEMMA T3ExpireOK ==
    ASSUME IInv, NEW s \in Station, T3Expire(s), UNCHANGED link
    PROVE  (\E y : Becomes(s, y)) /\ AroundOK'
<1>. DEFINE x == st[s]
            y == [x EXCEPT !.t3 = "expired"]
<1>1. /\ x \in StationState /\ LinkOK(x, st[Other(s)], chan[s])
      /\ ~x.frmr /\ (~x.up => tx[s].pc = "wait") /\ AroundOK
  BY IInvFacts
<1>2. /\ st' = [st EXCEPT ![s] = y] /\ ev' = Broadcast(s, {"T3_TMO"}) /\ RunOut
      /\ UNCHANGED <<tx, chan, losses, link>>
  BY DEF T3Expire
<1>3. y \in StationState
  BY <1>1 DEF StationState, Timer
<1>4. /\ y.w = x.w /\ (y.up <=> x.up) /\ y.acked = x.acked /\ y.written = x.written
      /\ y.vr = x.vr /\ y.delivered = x.delivered /\ (y.frmr <=> x.frmr)
  BY <1>1 DEF StationState
<1>. HIDE DEF y
<1>5. SameStream(x, y)
  BY <1>1, <1>4, SameWindow
<1>6. Becomes(s, y)
  BY <1>1, <1>2, <1>3, <1>4, <1>5, QuietStep
<1>7. early' \in 0..link'.maxEarly
  BY <1>1, <1>2, RunOutOK
<1>8. AroundOK'
  BY <1>1, <1>2, <1>7, BroadcastType DEF AroundOK, Flag
<1>. QED BY <1>6, <1>8

(***************************************************************************)
(* The steps of the TX thread.                                             *)
(***************************************************************************)
\* y is x after its timers were served: the link may have been given up.
Served(x, y) ==
    /\ y \in StationState /\ ~y.frmr
    /\ y.acked = x.acked /\ y.written = x.written /\ y.delivered = x.delivered
    /\ y.up => x.up /\ y.w = x.w /\ y.vr = x.vr

\* A timeout leaves the stream alone, or ends the link.
LEMMA TimeoutRetryServed ==
    ASSUME NEW x \in StationState, x.up, ~x.frmr
    PROVE  Served(x, TimeoutRetry(x))
<1>. DEFINE u == ResetWindow(x.w)
            l == PoolState(x.low, x.unread)
<1>1. x.w \in PeerWindow /\ x.unread \in Nat /\ x.retry \in 0..RetryMax
  BY DEF StationState
<1>2. u \in PeerWindow /\ l \in BOOLEAN /\ 0 \in SeqNum /\ 0 \in 0..RetryMax
      /\ 0 \in 0..Mod /\ "off" \in Timer
  <2>1. 0 \in SeqNum /\ 0 \in 0..RetryMax /\ 0 \in 0..Mod /\ "off" \in Timer
    BY ModAssumption, MarginAssumption DEF SeqNum, Timer
  <2>. QED BY <1>1, <2>1, ResetConsistent, PoolType
<1>3. CASE x.retry >= RetryMax
  <2>. DEFINE y == [x EXCEPT !.w = u, !.vr = 0, !.t3_expected_nr = 0,
                        !.rejpend = FALSE, !.peer_busy = FALSE, !.need_p = FALSE,
                        !.retry = 0, !.frmr = FALSE, !.t1 = "off", !.t3 = "off",
                        !.f_rcved = TRUE, !.up = FALSE, !.low = l]
  <2>1. TimeoutRetry(x) = y
    BY <1>3 DEF TimeoutRetry, Abort
  <2>. HIDE DEF u, l
  <2>2. y \in StationState
    BY <1>2 DEF StationState
  <2>3. ~y.frmr /\ ~y.up /\ y.acked = x.acked /\ y.written = x.written
        /\ y.delivered = x.delivered
    BY DEF StationState
  <2>. HIDE DEF y
  <2>. QED BY <2>1, <2>2, <2>3 DEF Served
<1>4. CASE ~(x.retry >= RetryMax)
  <2>. DEFINE r == x.retry + 1
              y == [x EXCEPT !.retry = r, !.need_p = TRUE, !.f_rcved = TRUE,
                             !.rej_actioned = 0]
  <2>1. TimeoutRetry(x) = y
    BY <1>4 DEF TimeoutRetry
  <2>2. r \in 0..RetryMax
    BY <1>1, <1>4, MarginAssumption
  <2>. HIDE DEF r
  <2>3. y \in StationState
    BY <1>2, <2>2 DEF StationState
  <2>4. ~y.frmr /\ y.acked = x.acked /\ y.written = x.written
        /\ y.delivered = x.delivered /\ y.w = x.w /\ y.vr = x.vr
    BY DEF StationState
  <2>. HIDE DEF y
  <2>. QED BY <2>1, <2>3, <2>4 DEF Served
<1>. QED BY <1>3, <1>4

\* The same of both timers, one after the other.
LEMMA TimersServed ==
    ASSUME NEW x \in StationState, x.up, ~x.frmr, NEW f
    PROVE  Served(x, ServeT3(ServeT1(x, f), f))
<1>. DEFINE z == ServeT1(x, f)
            v == [z EXCEPT !.t3 = "off"]
            n == [v EXCEPT !.need_p = TRUE]
            y == ServeT3(z, f)
<1>1. Served(x, x)
  BY DEF Served
<1>2. Served(x, z)
  BY <1>1, TimeoutRetryServed DEF ServeT1
<1>. HIDE DEF z
<1>3. z \in StationState /\ ~z.frmr
  BY <1>2 DEF Served
<1>4. /\ v \in StationState /\ (v.frmr <=> z.frmr) /\ (v.up <=> z.up) /\ v.w = z.w
      /\ v.vr = z.vr
      /\ v.acked = z.acked /\ v.written = z.written /\ v.delivered = z.delivered
  <2>1. v \in StationState
    BY <1>3 DEF StationState, Timer
  <2>. QED BY <1>3, <2>1 DEF StationState
<1>5. \/ y = z \/ y = n \/ y = v
      \/ z.up /\ y = TimeoutRetry(v)
  BY DEF ServeT3
<1>. HIDE DEF v, y
<1>6. /\ n \in StationState /\ (n.frmr <=> v.frmr) /\ (n.up <=> v.up) /\ n.w = v.w
      /\ n.vr = v.vr
      /\ n.acked = v.acked /\ n.written = v.written /\ n.delivered = v.delivered
  <2>1. n \in StationState
    BY <1>4 DEF StationState
  <2>. QED BY <1>4, <2>1 DEF StationState
<1>. HIDE DEF n
<1>7. ASSUME z.up PROVE Served(v, TimeoutRetry(v))
  BY <1>3, <1>4, <1>7, TimeoutRetryServed
<1>8. Served(x, v) /\ Served(x, n)
  BY <1>2, <1>3, <1>4, <1>6 DEF Served
<1>9. ASSUME z.up PROVE Served(x, TimeoutRetry(v))
  BY <1>7, <1>8, <1>9 DEF Served
<1>10. Served(x, y)
  BY <1>2, <1>5, <1>8, <1>9
<1>. QED BY <1>10 DEF y, z

\* The TX thread takes its events and serves the timers.
LEMMA TxStartOK ==
    ASSUME IInv, NEW s \in Station, TxStart(s), UNCHANGED link
    PROVE  (\E y : Becomes(s, y)) /\ AroundOK'
<1>. DEFINE x == st[s]
            leftover == tx[s].cm # {}
            flags == IF leftover THEN tx[s].cm ELSE ev[s].flags
            y == ServeT3(ServeT1(x, flags), flags)
            t == [pc |-> IF ~y.up THEN "wait" ELSE IF y.frmr THEN "tail" ELSE "burst",
                  cm |-> flags \ {"LINE_IDLE", "C_RPLYTMO", "T3_TMO"},
                  sent |-> FALSE]
            e == [flags |-> {}, pending |-> FALSE]
<1>1. /\ x \in StationState /\ LinkOK(x, st[Other(s)], chan[s])
      /\ LinkOK(st[Other(s)], x, chan[Other(s)])
      /\ ~x.frmr /\ AroundOK /\ tx[s] \in TxState /\ ev[s] \in EvState
  BY IInvFacts
<1>2. /\ st' = [st EXCEPT ![s] = y] /\ x.up
      /\ tx' = [tx EXCEPT ![s] = t]
      /\ ev' = IF leftover THEN ev ELSE [ev EXCEPT ![s] = e]
      /\ UNCHANGED <<chan, losses, early, link>>
  BY DEF TxStart
<1>3. Served(x, y)
  BY <1>1, <1>2, TimersServed
<1>4. flags \in SUBSET Flag
  BY <1>1 DEF TxState, EvState
<1>. HIDE DEF y, flags
<1>5. t \in TxState /\ e \in EvState /\ (~y.up => t.pc = "wait")
  BY <1>4 DEF TxState, EvState
<1>. HIDE DEF t, e
<1>6. /\ tx' \in [Station -> TxState] /\ tx'[s] = t
      /\ tx'[Other(s)] = tx[Other(s)] /\ ev' \in [Station -> EvState]
  BY <1>1, <1>2, <1>5, TwoStations DEF AroundOK
<1>7. AroundOK'
  BY <1>1, <1>2, <1>6 DEF AroundOK
<1>8. Becomes(s, y)
  <2>1. CASE y.up
    <3>1. SameStream(x, y)
      BY <1>1, <1>2, <1>3, <2>1, SameWindow DEF Served
    <3>. QED BY <1>2, <1>3, <1>6, <2>1, <3>1, QuietStep DEF Served
  <2>2. CASE ~y.up
    <3>1. /\ LinkOK(y, st[Other(s)], chan[s])
          /\ LinkOK(st[Other(s)], y, chan[Other(s)])
      BY <1>1, <1>3, <2>2, AbortedOK DEF Served
    <3>2. UserStep(x, y, st[Other(s)])
      BY <1>3 DEF UserStep, Served
    <3>. QED BY <1>2, <1>3, <1>5, <1>6, <3>1, <3>2 DEF Becomes, Served
  <2>. QED BY <2>1, <2>2
<1>. QED BY <1>7, <1>8

\* A burst ends.
LEMMA TxBurstEndOK ==
    ASSUME IInv, NEW s \in Station, TxBurstEnd(s), UNCHANGED link
    PROVE  (\E y : Becomes(s, y)) /\ AroundOK'
<1>1. /\ st[s] \in StationState /\ LinkOK(st[s], st[Other(s)], chan[s])
      /\ LinkOK(st[Other(s)], st[s], chan[Other(s)])
      /\ ~st[s].frmr /\ (~st[s].up => tx[s].pc = "wait")
      /\ st \in [Station -> StationState] /\ AroundOK /\ tx[s] \in TxState
  BY IInvFacts
<1>2. /\ tx[s].pc = "burst" /\ tx' = [tx EXCEPT ![s] = [@ EXCEPT !.pc = "tail"]]
      /\ UNCHANGED <<st, ev, chan, losses, early, link>>
  BY DEF TxBurstEnd
<1>3. [tx[s] EXCEPT !.pc = "tail"] \in TxState
  BY <1>1 DEF TxState
<1>4. tx' \in [Station -> TxState] /\ tx'[Other(s)] = tx[Other(s)]
  BY <1>1, <1>2, <1>3, TwoStations DEF AroundOK
<1>5. st[s].up /\ st' = [st EXCEPT ![s] = st[s]]
  BY <1>1, <1>2
<1>6. UserStep(st[s], st[s], st[Other(s)])
  BY DEF UserStep
<1>7. Becomes(s, st[s])
  BY <1>1, <1>2, <1>4, <1>5, <1>6 DEF Becomes
<1>8. AroundOK'
  BY <1>1, <1>2, <1>4 DEF AroundOK
<1>. QED BY <1>7, <1>8

\* The P/F bits are Booleans.
LEMMA FlagTypes ==
    ASSUME NEW s \in Station
    PROVE  /\ IsCommand(s) \in BOOLEAN /\ PFOnIFrame(s) \in BOOLEAN
           /\ st[s] \in StationState => PFOnSFrame(s) \in BOOLEAN
           /\ \A pf : Checkpointed(s, pf) \in BOOLEAN
<1>1. IsCommand(s) \in BOOLEAN
  BY DEF IsCommand
<1>2. PFOnIFrame(s) \in BOOLEAN
  BY Zenon DEF PFOnIFrame
<1>3. ASSUME st[s] \in StationState PROVE PFOnSFrame(s) \in BOOLEAN
  <2>1. st[s].p_rcved \in BOOLEAN
    BY <1>3 DEF StationState
  <2>2. CASE IsCommand(s)
    BY <2>2, Zenon DEF PFOnSFrame
  <2>3. CASE ~IsCommand(s)
    BY <2>1, <2>3, Zenon DEF PFOnSFrame
  <2>. QED BY <2>2, <2>3
<1>4. \A pf : Checkpointed(s, pf) \in BOOLEAN
  BY Zenon DEF Checkpointed
<1>. QED BY <1>1, <1>2, <1>3, <1>4

\* Two stations that differ in timers, bits and counters at most.
Alike(x, y) ==
    /\ y.w = x.w /\ (y.up <=> x.up) /\ (y.frmr <=> x.frmr) /\ y.acked = x.acked
    /\ y.written = x.written /\ y.vr = x.vr /\ y.delivered = x.delivered

\* Sending P or F touches nothing else.
LEMMA AfterSendFacts ==
    ASSUME NEW x \in StationState, NEW s \in Station, NEW pf \in BOOLEAN
    PROVE  AfterSend(s, x, pf) \in StationState /\ Alike(x, AfterSend(s, x, pf))
<1>. DEFINE a == [x EXCEPT !.f_rcved = FALSE, !.need_p = FALSE, !.t1 = "armed",
                          !.t3 = IF ABM THEN @ ELSE "off"]
            b == [x EXCEPT !.p_rcved = FALSE]
            t == IF ABM THEN x.t3 ELSE "off"
<1>1. AfterSend(s, x, pf) \in {x, a, b}
  BY DEF AfterSend
<1>2. t \in Timer /\ "armed" \in Timer
  BY DEF Timer, StationState
<1>. HIDE DEF t
<1>3. a = [x EXCEPT !.f_rcved = FALSE, !.need_p = FALSE, !.t1 = "armed", !.t3 = t]
  BY DEF t
<1>4. a \in StationState /\ b \in StationState
  BY <1>2, <1>3 DEF StationState
<1>5. Alike(x, x) /\ Alike(x, a) /\ Alike(x, b)
  BY DEF StationState, Alike
<1>. QED BY <1>1, <1>4, <1>5

\* Appending to one end of the line.
LEMMA AppendChan ==
    ASSUME chan \in [Station -> Seq(Wire)], NEW s \in Station, NEW m \in Wire,
           chan' = [chan EXCEPT ![Other(s)] = Append(@, m)]
    PROVE  /\ chan' \in [Station -> Seq(Wire)] /\ chan'[s] = chan[s]
           /\ chan'[Other(s)] = Append(chan[Other(s)], m)
<1>1. Other(s) \in Station /\ Other(s) # s
  BY TwoStations
<1>2. Append(chan[Other(s)], m) \in Seq(Wire)
  BY <1>1
<1>. QED BY <1>1, <1>2

\* The TX thread sends an I-frame.
LEMMA TxBurstOK ==
    ASSUME IInv, NEW s \in Station, TxBurst(s), UNCHANGED link
    PROVE  (\E y : Becomes(s, y)) /\ AroundOK'
<1>. DEFINE x == st[s]
            o == st[Other(s)]
            pf == PFOnIFrame(s)
            chk == Checkpointed(s, pf)
            cmd == IsCommand(s)
            flags == tx[s].cm \union ev[s].flags
            f == NumberedHead(x.w)
            u == SendIFrame(x.w, chk)
            v == [x EXCEPT !.w = u]
            z == AfterSend(s, v, pf)
            y == IF ABM THEN [z EXCEPT !.t3 = "armed", !.t3_expected_nr = z.w.vs]
                 ELSE z
            m == [type |-> "I", cmd |-> cmd, pf |-> pf, nr |-> x.vr,
                  ns |-> f.ns, data |-> f.data]
            t == [pc |-> IF \/ flags \intersect {"URGENT", "REJ_ACTED"} # {}
                            \/ TWA /\ pf
                         THEN "tail" ELSE "burst",
                  cm |-> flags, sent |-> TRUE]
<1>1. /\ x \in StationState /\ o \in StationState
      /\ chan[s] \in Seq(Wire) /\ chan[Other(s)] \in Seq(Wire)
      /\ LinkOK(x, o, chan[s]) /\ LinkOK(o, x, chan[Other(s)])
      /\ ~x.frmr /\ (~x.up => tx[s].pc = "wait")
      /\ AroundOK /\ tx[s] \in TxState /\ ev[s] \in EvState
  BY IInvFacts
<1>2. /\ tx[s].pc = "burst" /\ CanSendI(x.w)
      /\ st' = [st EXCEPT ![s] = y]
      /\ chan' = [chan EXCEPT ![Other(s)] = Append(@, m)]
      /\ ev' = GetAndClear(s) /\ tx' = [tx EXCEPT ![s] = t]
      /\ UNCHANGED <<losses, early, link>>
  BY DEF TxBurst, BurstGoesOn
<1>3. pf \in BOOLEAN /\ chk \in BOOLEAN /\ cmd \in BOOLEAN
  BY FlagTypes
<1>4. flags \in SUBSET Flag
  BY <1>1 DEF TxState, EvState
<1>. HIDE DEF x, o, pf, chk, cmd, flags
<1>5. x.up /\ PeerConsistent(x.w, x.acked) /\ x.acked + Queued(x.w) = x.written
  <2>1. x.up
    BY <1>1, <1>2
  <2>. QED BY <1>1, <2>1 DEF LinkOK, SendSide
<1>6. x.w \in PeerWindow /\ x.acked \in Nat /\ x.written \in Nat /\ Queued(x.w) \in Nat
      /\ x.vr \in SeqNum
  BY <1>1, StationFacts
<1>7. /\ u \in PeerWindow /\ PeerConsistent(u, x.acked)
      /\ Len(u.i_trans_q) = Len(x.w.i_trans_q) - 1
      /\ Len(u.i_retrans_q) = Len(x.w.i_retrans_q) + 1
  BY <1>2, <1>3, <1>5, <1>6, SendIFrameConsistent
<1>8. u.nr = x.w.nr
  BY <1>6, NumbersKept
<1>9. /\ f.data = x.acked + Len(x.w.i_retrans_q) + 1
      /\ f.data \in 1..(x.acked + Queued(x.w)) /\ f.data <= x.acked + Ks
      /\ f.ns = (f.data - 1) % Mod
      /\ f.data <= x.acked + Dist(u.nr, u.vs_highest)
      /\ Dist(x.w.nr, x.w.vs_highest) <= Dist(u.nr, u.vs_highest)
  BY <1>2, <1>3, <1>5, <1>6, SentFrame
<1>. HIDE DEF f, u
<1>10. Queued(u) = Queued(x.w) /\ x.acked < f.data
  <2>1. Len(x.w.i_retrans_q) \in Nat /\ Len(x.w.i_trans_q) \in Nat
    BY <1>6, PeerFacts
  <2>2. ASSUME NEW a \in Nat, NEW b \in Nat PROVE (a + 1) + (b - 1) = a + b
    OBVIOUS
  <2>3. ASSUME NEW a \in Nat, NEW b \in Nat PROVE a < a + b + 1
    OBVIOUS
  <2>4. Queued(u) = Queued(x.w)
    BY <1>7, <2>1, <2>2, Zenon DEF Queued
  <2>5. x.acked < f.data
    BY <1>6, <1>9, <2>1, <2>3, Zenon
  <2>. QED BY <2>4, <2>5
<1>11. v \in StationState
  BY <1>1, <1>7 DEF StationState
<1>12. /\ v.w = u /\ (v.up <=> x.up) /\ (v.frmr <=> x.frmr) /\ v.acked = x.acked
       /\ v.written = x.written /\ v.vr = x.vr /\ v.delivered = x.delivered
  BY <1>1 DEF StationState
<1>. HIDE DEF v
<1>13. z \in StationState /\ Alike(v, z)
  BY <1>3, <1>11, AfterSendFacts
<1>. HIDE DEF z
<1>14. y \in StationState /\ Alike(z, y)
  <2>1. z.w.vs \in SeqNum
    BY <1>13, PeerFacts DEF StationState
  <2>2. ASSUME NEW k \in SeqNum
        PROVE  [z EXCEPT !.t3 = "armed", !.t3_expected_nr = k] \in StationState
    BY <1>13 DEF StationState, Timer
  <2>3. y \in StationState
    BY <1>13, <2>1, <2>2
  <2>. QED BY <1>13, <2>3 DEF StationState, Alike
<1>. HIDE DEF y
<1>15. /\ y.w = u /\ y.up /\ ~y.frmr /\ y.acked = x.acked
       /\ y.written = x.written /\ y.vr = x.vr /\ y.delivered = x.delivered
  BY <1>1, <1>5, <1>12, <1>13, <1>14 DEF Alike
<1>16. m \in Wire
  <2>1. f.data \in Nat /\ f.ns \in SeqNum
    <3>1. f.data \in Nat /\ f.data - 1 \in Int
      BY <1>6, <1>9
    <3>. QED BY <1>9, <3>1, ModRange
  <2>. QED BY <1>3, <1>6, <2>1 DEF Wire
<1>17. m.type = "I" /\ m.nr = x.vr /\ m.ns = f.ns /\ m.data = f.data
  OBVIOUS
<1>. HIDE DEF m
<1>18. High(x) <= High(y) /\ f.data <= High(y)
  <2>1. High(x) \in Nat /\ High(y) \in Nat
    BY <1>1, <1>14, StationFacts
  <2>2. /\ High(y) = x.acked + Dist(u.nr, u.vs_highest)
        /\ High(x) = x.acked + Dist(x.w.nr, x.w.vs_highest)
    BY <1>15 DEF High
  <2>3. Dist(u.nr, u.vs_highest) \in SeqNum /\ Dist(x.w.nr, x.w.vs_highest) \in SeqNum
    BY <1>6, <1>7, PeerFacts, DistAdd
  <2>4. Dist(u.nr, u.vs_highest) \in Int /\ Dist(x.w.nr, x.w.vs_highest) \in Int
    BY <2>3 DEF SeqNum
  <2>. QED BY <1>6, <1>9, <2>2, <2>4
<1>19. LinkOK(y, o, chan[s]) /\ LinkOK(o, y, Append(chan[Other(s)], m))
  <2>1. Queued(y.w) = Queued(x.w) /\ y.w.nr = x.w.nr /\ PeerConsistent(y.w, y.acked)
    BY <1>7, <1>8, <1>10, <1>15
  <2>2. /\ m.data \in 1..x.written /\ m.ns = (m.data - 1) % Mod
        /\ x.acked < m.data /\ m.data <= x.acked + Ks /\ m.data <= High(y)
    BY <1>5, <1>9, <1>10, <1>17, <1>18
  <2>. QED BY <1>1, <1>5, <1>14, <1>15, <1>16, <1>17, <1>18, <2>1, <2>2, SentOK
<1>20. /\ chan' \in [Station -> Seq(Wire)] /\ chan'[s] = chan[s]
       /\ chan'[Other(s)] = Append(chan[Other(s)], m)
  BY <1>1, <1>2, <1>16, AppendChan DEF AroundOK
<1>21. t \in TxState
  BY <1>4 DEF TxState
<1>. HIDE DEF t
<1>22. /\ tx' \in [Station -> TxState] /\ tx'[Other(s)] = tx[Other(s)]
       /\ ev' \in [Station -> EvState]
  BY <1>1, <1>2, <1>21, TwoStations, GetAndClearType DEF AroundOK
<1>23. UserStep(x, y, o)
  BY <1>15 DEF UserStep
<1>24. Becomes(s, y)
  BY <1>2, <1>14, <1>15, <1>19, <1>20, <1>22, <1>23 DEF Becomes, x, o
<1>25. AroundOK'
  BY <1>1, <1>2, <1>20, <1>22 DEF AroundOK
<1>. QED BY <1>24, <1>25

\* The TX thread ends its round, with an S-frame or without one.
LEMMA TxTailOK ==
    ASSUME IInv, NEW s \in Station, TxTail(s), UNCHANGED link
    PROVE  (\E y : Becomes(s, y)) /\ AroundOK'
<1>. DEFINE x == st[s]
            o == st[Other(s)]
            fun == WantedS(s)
            pf == PFOnSFrame(s)
            chk == Checkpointed(s, pf)
            cmd == IsCommand(s)
            flags == tx[s].cm \union ev[s].flags
            u == SendSFrame(x.w, chk)
            rej == x.rejpend /\ fun # "REJ"
            busy == x.busy /\ fun # "RR"
            v == [x EXCEPT !.w = u, !.rejpend = rej, !.busy = busy]
            y == AfterSend(s, v, pf)
            m == [type |-> fun, cmd |-> cmd, pf |-> pf, nr |-> x.vr,
                  ns |-> NoNS, data |-> 0]
            t == [pc |-> "wait", sent |-> FALSE,
                  cm |-> flags \ ({"WORK", "URGENT"} \union
                             IF x.rejpend THEN {"REJ_ACTED"} ELSE {})]
<1>1. /\ x \in StationState /\ o \in StationState
      /\ chan[s] \in Seq(Wire) /\ chan[Other(s)] \in Seq(Wire)
      /\ LinkOK(x, o, chan[s]) /\ LinkOK(o, x, chan[Other(s)])
      /\ ~x.frmr /\ (~x.up => tx[s].pc = "wait")
      /\ st \in [Station -> StationState]
      /\ AroundOK /\ tx[s] \in TxState /\ ev[s] \in EvState
  BY IInvFacts
<1>2. /\ tx[s].pc = "tail"
      /\ IF fun = "none" THEN UNCHANGED <<st, chan>>
         ELSE /\ st' = [st EXCEPT ![s] = y]
              /\ chan' = [chan EXCEPT ![Other(s)] = Append(@, m)]
      /\ ev' = GetAndClear(s) /\ tx' = [tx EXCEPT ![s] = t]
      /\ UNCHANGED <<losses, early, link>>
  BY DEF TxTail
<1>3. pf \in BOOLEAN /\ chk \in BOOLEAN /\ cmd \in BOOLEAN
  BY <1>1, FlagTypes
<1>4. flags \in SUBSET Flag
  BY <1>1 DEF TxState, EvState
<1>5. fun \in {"none"} \union SFun
  BY DEF WantedS, SFun
<1>. HIDE DEF x, o, pf, chk, cmd, flags, fun
<1>6. x.up /\ PeerConsistent(x.w, x.acked)
  <2>1. x.up
    BY <1>1, <1>2
  <2>. QED BY <1>1, <2>1 DEF LinkOK, SendSide
<1>7. t \in TxState
  BY <1>4 DEF TxState
<1>. HIDE DEF t
<1>8. /\ tx' \in [Station -> TxState] /\ tx'[Other(s)] = tx[Other(s)]
      /\ ev' \in [Station -> EvState]
  BY <1>1, <1>2, <1>7, TwoStations, GetAndClearType DEF AroundOK
<1>9. CASE fun = "none"
  <2>1. st' = [st EXCEPT ![s] = x] /\ chan' = chan
    BY <1>1, <1>2, <1>9 DEF x
  <2>2. UserStep(x, x, o)
    BY DEF UserStep
  <2>3. Becomes(s, x)
    BY <1>1, <1>6, <1>8, <2>1, <2>2 DEF Becomes, x, o
  <2>4. AroundOK'
    BY <1>1, <1>2, <1>8, <2>1 DEF AroundOK
  <2>. QED BY <2>3, <2>4
<1>10. CASE fun # "none"
  <2>1. x.w \in PeerWindow /\ x.acked \in Nat /\ x.vr \in SeqNum
    BY <1>1, StationFacts
  <2>2. /\ u \in PeerWindow /\ u.nr = x.w.nr /\ u.vs_highest = x.w.vs_highest
        /\ u.vs = x.w.vs /\ u.i_pending_count = x.w.i_pending_count
        /\ u.i_trans_q = x.w.i_trans_q /\ u.i_retrans_q = x.w.i_retrans_q
    <3>1. x.w.vs \in SeqNum /\ x.w.vs_atlast_pf \in SeqNum
      BY <2>1, PeerFacts
    <3>2. u \in PeerWindow
      BY <2>1, <3>1 DEF SendSFrame, PeerWindow
    <3>. QED BY <2>1, <3>2 DEF SendSFrame, PeerWindow
  <2>3. rej \in BOOLEAN /\ busy \in BOOLEAN
    BY Zenon
  <2>. HIDE DEF u, rej, busy
  <2>4. PeerConsistent(u, x.acked) /\ Queued(u) = Queued(x.w)
    BY <1>6, <2>1, <2>2, ConsistentCore DEF Queued
  <2>5. v \in StationState
    BY <1>1, <2>2, <2>3 DEF StationState
  <2>6. /\ v.w = u /\ (v.up <=> x.up) /\ (v.frmr <=> x.frmr) /\ v.acked = x.acked
        /\ v.written = x.written /\ v.vr = x.vr /\ v.delivered = x.delivered
    BY <1>1 DEF StationState
  <2>. HIDE DEF v
  <2>7. y \in StationState /\ Alike(v, y)
    BY <1>3, <2>5, AfterSendFacts
  <2>. HIDE DEF y
  <2>8. /\ y.w = u /\ y.up /\ ~y.frmr /\ y.acked = x.acked
        /\ y.written = x.written /\ y.vr = x.vr /\ y.delivered = x.delivered
    BY <1>1, <1>6, <2>6, <2>7 DEF Alike
  <2>9. m \in Wire /\ m.type = fun /\ m.nr = x.vr
    BY <1>3, <1>5, <1>10, <2>1 DEF Wire
  <2>10. m.type # "I"
    BY <1>5, <1>10, <2>9 DEF SFun
  <2>. HIDE DEF m
  <2>11. High(x) <= High(y)
    <3>1. High(x) = High(y) /\ High(x) \in Nat
      BY <1>1, <2>2, <2>8, StationFacts DEF High
    <3>. QED BY <3>1
  <2>12. LinkOK(y, o, chan[s]) /\ LinkOK(o, y, Append(chan[Other(s)], m))
    <3>1. Queued(y.w) = Queued(x.w) /\ y.w.nr = x.w.nr /\ PeerConsistent(y.w, y.acked)
      BY <2>2, <2>4, <2>8
    <3>. QED BY <1>1, <1>6, <2>7, <2>8, <2>9, <2>10, <2>11, <3>1, SentOK
  <2>13. /\ chan' \in [Station -> Seq(Wire)] /\ chan'[s] = chan[s]
         /\ chan'[Other(s)] = Append(chan[Other(s)], m)
    BY <1>1, <1>2, <1>10, <2>9, AppendChan DEF AroundOK
  <2>14. UserStep(x, y, o)
    BY <2>8 DEF UserStep
  <2>15. Becomes(s, y)
    BY <1>2, <1>8, <1>10, <2>7, <2>8, <2>12, <2>13, <2>14 DEF Becomes, x, o
  <2>16. AroundOK'
    BY <1>1, <1>2, <1>8, <2>13 DEF AroundOK
  <2>. QED BY <2>15, <2>16
<1>. QED BY <1>9, <1>10

(***************************************************************************)
(* The step of the receiver.                                               *)
(***************************************************************************)
\* A retransmission keeps the numbers and the length of what is queued.
LEMMA RetransmissionKept ==
    ASSUME NEW w \in PeerWindow, NEW a \in Nat, PeerConsistent(w, a)
    PROVE  /\ CheckpointRetransmit(w) \in PeerWindow
           /\ PeerConsistent(CheckpointRetransmit(w), a)
           /\ Queued(CheckpointRetransmit(w)) = Queued(w)
           /\ RejRetransmit(w) \in PeerWindow
           /\ PeerConsistent(RejRetransmit(w), a)
           /\ Queued(RejRetransmit(w)) = Queued(w)
<1>1. LET u == CheckpointRetransmit(w)
      IN  /\ u \in PeerWindow /\ PeerConsistent(u, a)
          /\ Len(u.i_retrans_q) + Len(u.i_trans_q) =
                 Len(w.i_retrans_q) + Len(w.i_trans_q)
  BY CheckpointConsistent
<1>2. LET u == RejRetransmit(w)
      IN  /\ u \in PeerWindow /\ PeerConsistent(u, a)
          /\ Len(u.i_retrans_q) + Len(u.i_trans_q) =
                 Len(w.i_retrans_q) + Len(w.i_trans_q)
  BY RejConsistent
<1>. QED BY <1>1, <1>2, Zenon DEF Queued

\* handleCheckpointAndAck takes n frames off the window, and may turn back.
LEMMA CheckpointAndAckFacts ==
    ASSUME NEW x \in StationState, NEW m \in Wire, x.up, ~x.frmr,
           PeerConsistent(x.w, x.acked)
    PROVE  LET n == AckCount(x.w, m.nr)
               y == CheckpointAndAck(x, m)
           IN  /\ n \in Nat /\ y \in StationState /\ ~y.frmr
               /\ Received(x, y, m, n)
               /\ y.vr = x.vr /\ y.delivered = x.delivered
<1>. DEFINE n == AckCount(x.w, m.nr)
            w1 == ProcessNR(x.w, m.nr)
            chk == m.pf /\ ~(ABM /\ m.cmd)
            w2 == IF chk THEN CheckpointRetransmit(w1) ELSE w1
            stopT3 == ABM /\ ((chk /\ CheckpointDue(w1)) \/ w1.nr = x.t3_expected_nr)
            t == IF stopT3 THEN "off" ELSE x.t3
            t2 == IF ABM THEN t ELSE "armed"
            a == x.acked + n
            v == [x EXCEPT !.w = w2, !.acked = a, !.t3 = t]
            p == [v EXCEPT !.p_rcved = TRUE]
            q == [v EXCEPT !.f_rcved = TRUE, !.retry = 0, !.t1 = "off", !.t3 = t2]
            y == CheckpointAndAck(x, m)
<1>1. x.w \in PeerWindow /\ x.acked \in Nat /\ m.nr \in SeqNum /\ x.t3 \in Timer
  BY DEF StationState, Wire
<1>2. /\ w1 \in PeerWindow /\ n \in Nat /\ n <= Len(x.w.i_retrans_q)
      /\ PeerConsistent(w1, a)
      /\ w1.i_trans_q = x.w.i_trans_q
      /\ Len(w1.i_retrans_q) = Len(x.w.i_retrans_q) - n
  BY <1>1, ProcessNRConsistent
<1>3. w1.nr = (x.w.nr + n) % Mod /\ w1.vs_highest = x.w.vs_highest
  BY <1>1, NumbersKept
<1>4. y = IF ~m.pf THEN v ELSE IF m.cmd THEN p ELSE q
  <2>1. v.t3 = t
    BY DEF StationState
  <2>. QED BY <2>1 DEF CheckpointAndAck
<1>. HIDE DEF w1, n, a, y, chk, stopT3
<1>5. a = x.acked + n /\ a \in Nat
  BY <1>1, <1>2 DEF a
<1>6. Queued(w1) + n = Queued(x.w)
  <2>1. Len(x.w.i_retrans_q) \in Nat /\ Len(x.w.i_trans_q) \in Nat
    BY <1>1, PeerFacts
  <2>2. ASSUME NEW i \in Nat, NEW j \in Nat PROVE ((i - n) + j) + n = i + j
    BY <1>2
  <2>3. ((Len(x.w.i_retrans_q) - n) + Len(x.w.i_trans_q)) + n =
            Len(x.w.i_retrans_q) + Len(x.w.i_trans_q)
    BY <2>1, <2>2, Zenon
  <2>4. Queued(w1) = (Len(x.w.i_retrans_q) - n) + Len(x.w.i_trans_q)
    BY <1>2, Zenon DEF Queued
  <2>. QED BY <2>3, <2>4, Zenon DEF Queued
<1>7. /\ w2 \in PeerWindow /\ PeerConsistent(w2, a) /\ Queued(w2) + n = Queued(x.w)
      /\ w2.nr = (x.w.nr + n) % Mod /\ w2.vs_highest = x.w.vs_highest
  <2>1. CASE chk
    <3>1. /\ CheckpointRetransmit(w1) \in PeerWindow
          /\ PeerConsistent(CheckpointRetransmit(w1), a)
          /\ Queued(CheckpointRetransmit(w1)) = Queued(w1)
      BY <1>2, <1>5, RetransmissionKept
    <3>2. /\ CheckpointRetransmit(w1).nr = w1.nr
          /\ CheckpointRetransmit(w1).vs_highest = w1.vs_highest
      BY <1>2, NumbersKept
    <3>. QED BY <1>3, <1>6, <2>1, <3>1, <3>2, Zenon
  <2>2. CASE ~chk
    BY <1>2, <1>3, <1>6, <2>2, Zenon
  <2>. QED BY <2>1, <2>2
<1>. HIDE DEF w2
<1>8. t \in Timer /\ t2 \in Timer /\ "off" \in Timer /\ 0 \in 0..RetryMax
  BY <1>1, MarginAssumption DEF Timer
<1>. HIDE DEF t, t2
<1>9. v \in StationState
  BY <1>5, <1>7, <1>8 DEF StationState
<1>10. /\ v.w = w2 /\ (v.up <=> x.up) /\ (v.frmr <=> x.frmr) /\ v.acked = a
       /\ v.written = x.written /\ v.vr = x.vr /\ v.delivered = x.delivered
  BY DEF StationState
<1>. HIDE DEF v
<1>11. p \in StationState /\ q \in StationState
  BY <1>8, <1>9 DEF StationState
<1>12. Alike(v, p) /\ Alike(v, q) /\ Alike(v, v)
  BY <1>9 DEF StationState, Alike
<1>. HIDE DEF p, q
<1>13. y \in StationState /\ Alike(v, y)
  BY <1>4, <1>9, <1>11, <1>12
<1>14. /\ y.w = w2 /\ y.up /\ ~y.frmr /\ y.acked = x.acked + n
       /\ y.written = x.written /\ y.vr = x.vr /\ y.delivered = x.delivered
  BY <1>5, <1>10, <1>13 DEF Alike
<1>15. Received(x, y, m, n)
  BY <1>5, <1>7, <1>14, Zenon DEF Received
<1>. QED BY <1>2, <1>13, <1>14, <1>15 DEF n, y

\* An N(R) on the line is one that isNRValid accepts.
LEMMA NRValid ==
    ASSUME NEW x \in StationState, NEW o \in StationState, NEW c \in Seq(Wire),
           LinkOK(x, o, c), x.up, c # << >>
    PROVE  IsNRValid(x.w, Head(c).nr)
<1>. DEFINE m == Head(c)
<1>1. 1 \in 1..Len(c) /\ m = c[1]
  BY TailFacts
<1>2. Ahead(x, m) \in Nat
  BY <1>1, AheadFacts
<1>3. x.acked + Ahead(x, m) <= Got(o)
  BY <1>1 DEF LinkOK, AcksOK
<1>4. Got(o) <= High(x)
  BY DEF LinkOK, SendSide
<1>. HIDE DEF m
<1>5. x.acked \in Nat /\ Got(o) \in Nat
  BY StationFacts
<1>6. Dist(x.w.nr, x.w.vs_highest) \in Nat
  <2>1. Dist(x.w.nr, x.w.vs_highest) \in SeqNum
    BY StationFacts, DistAdd
  <2>. QED BY <2>1 DEF SeqNum
<1>7. Ahead(x, m) <= Dist(x.w.nr, x.w.vs_highest)
  BY <1>2, <1>3, <1>4, <1>5, <1>6 DEF High
<1>. QED BY <1>7 DEF IsNRValid, Ahead, m

\* An I-frame: accepted, or dropped with or without a REJ.
LEMMA HandleIFacts ==
    ASSUME NEW s \in Station, NEW x, NEW y \in StationState, NEW m \in Wire, NEW n,
           NEW low1, ~y.frmr, m.type = "I", Received(x, y, m, n),
           y.vr = x.vr, y.delivered = x.delivered
    PROVE  LET z == HandleI(s, y, m, low1)
           IN  z \in StationState /\ ~z.frmr /\ Received(x, z, m, n)
<1>. DEFINE rej == IF y.rej_actioned = m.ns + 1 THEN 0 ELSE y.rej_actioned
            pb == y.peer_busy /\ ~m.pf
            b == y.busy \/ low1
            np == y.need_p \/ (~ABM /\ s = "A")
            vr == Inc(y.vr)
            dl == Append(y.delivered, m.data)
            un == y.unread + 1
            a == [y EXCEPT !.delivered = dl, !.unread = un, !.rej_actioned = rej,
                           !.peer_busy = pb, !.busy = b, !.vr = vr, !.need_p = np]
            k == y.vr + 1
            r == [y EXCEPT !.rej_actioned = k, !.rejpend = TRUE]
            z == HandleI(s, y, m, low1)
<1>1. y.vr \in SeqNum /\ y.delivered \in Seq(Nat) /\ y.rej_actioned \in 0..Mod
      /\ y.unread \in Nat /\ m.data \in Nat
  BY DEF StationState, Wire
<1>2. rej \in 0..Mod /\ k \in 0..Mod
  BY <1>1, ModAssumption DEF SeqNum
<1>3. pb \in BOOLEAN /\ b \in BOOLEAN /\ np \in BOOLEAN
  BY Zenon
<1>4. vr \in SeqNum /\ dl \in Seq(Nat) /\ un \in Nat
  BY <1>1, IncRange
<1>5. \/ m.ns = y.vr /\ z = a
      \/ z = r \/ z = y
  BY DEF HandleI, AcceptI
<1>. HIDE DEF rej, pb, b, np, vr, dl, un, k, z
<1>6. a \in StationState
  BY <1>2, <1>3, <1>4 DEF StationState
<1>7. r \in StationState
  BY <1>2 DEF StationState
<1>8. /\ a.w = y.w /\ (a.up <=> y.up) /\ (a.frmr <=> y.frmr) /\ a.acked = y.acked
      /\ a.written = y.written /\ a.vr = vr /\ a.delivered = dl
  BY DEF StationState
<1>9. Alike(y, r)
  BY DEF StationState, Alike
<1>. HIDE DEF a, r
<1>10. CASE m.ns = y.vr /\ z = a
  <2>1. /\ z.w = y.w /\ z.up /\ z.acked = y.acked /\ z.written = y.written
        /\ z.vr = Inc(x.vr) /\ z.delivered = Append(x.delivered, m.data)
        /\ m.ns = x.vr
    BY <1>8, <1>10 DEF Received, vr, dl
  <2>2. Received(x, z, m, n)
    BY <2>1, Zenon DEF Received
  <2>. QED BY <1>6, <1>8, <1>10, <2>2 DEF z
<1>11. CASE z = r
  <2>1. Received(x, r, m, n)
    BY <1>9 DEF Received, Alike
  <2>. QED BY <1>7, <1>9, <1>11, <2>1 DEF Alike, z
<1>12. CASE z = y
  BY <1>12 DEF z
<1>. QED BY <1>5, <1>10, <1>11, <1>12

\* An S-frame.
LEMMA HandleSFacts ==
    ASSUME NEW x, NEW y \in StationState, NEW m \in Wire, NEW n,
           ~y.frmr, m.type \in SFun, Received(x, y, m, n),
           y.vr = x.vr, y.delivered = x.delivered
    PROVE  LET z == HandleS(y, m)
           IN  z \in StationState /\ ~z.frmr /\ Received(x, z, m, n)
<1>. DEFINE u == RejRetransmit(y.w)
            b1 == [y EXCEPT !.peer_busy = FALSE]
            b2 == [y EXCEPT !.peer_busy = TRUE]
            r == [y EXCEPT !.w = u]
            z == HandleS(y, m)
<1>1. z \in {b1, b2, y, r}
  BY DEF HandleS, SFun
<1>2. y.w \in PeerWindow /\ y.acked \in Nat
  BY DEF StationState
<1>3. PeerConsistent(y.w, y.acked)
  BY DEF Received
<1>4. /\ u \in PeerWindow /\ PeerConsistent(u, y.acked) /\ Queued(u) = Queued(y.w)
      /\ u.nr = y.w.nr /\ u.vs_highest = y.w.vs_highest
  BY <1>2, <1>3, RetransmissionKept, NumbersKept
<1>. HIDE DEF u, z
<1>5. b1 \in StationState /\ b2 \in StationState /\ r \in StationState
  BY <1>4 DEF StationState
<1>6. Alike(y, b1) /\ Alike(y, b2)
  BY DEF StationState, Alike
<1>7. /\ r.w = u /\ (r.up <=> y.up) /\ (r.frmr <=> y.frmr) /\ r.acked = y.acked
      /\ r.written = y.written /\ r.vr = y.vr /\ r.delivered = y.delivered
  BY DEF StationState
<1>. HIDE DEF b1, b2, r
<1>8. Received(x, b1, m, n) /\ Received(x, b2, m, n)
  BY <1>6 DEF Received, Alike
<1>9. Received(x, r, m, n)
  <2>1. /\ r.up /\ r.acked = x.acked + n /\ r.written = x.written
        /\ r.w.nr = (x.w.nr + n) % Mod /\ r.w.vs_highest = x.w.vs_highest
        /\ Queued(r.w) + n = Queued(x.w) /\ PeerConsistent(r.w, r.acked)
        /\ r.delivered = x.delivered /\ r.vr = x.vr
    BY <1>4, <1>7 DEF Received
  <2>. QED BY <2>1, Zenon DEF Received
<1>. QED BY <1>1, <1>5, <1>6, <1>7, <1>8, <1>9 DEF Alike, z

\* commonRx of a frame of this link.
LEMMA CommonRxFacts ==
    ASSUME NEW s \in Station, NEW x \in StationState, NEW m \in Wire,
           x.up, ~x.frmr, PeerConsistent(x.w, x.acked), IsNRValid(x.w, m.nr)
    PROVE  LET z == CommonRx(s, x, m)
               n == AckCount(x.w, m.nr)
           IN  /\ n \in Nat /\ n <= Ahead(x, m)
               /\ z \in StationState /\ ~z.frmr /\ Received(x, z, m, n)
<1>. DEFINE n == AckCount(x.w, m.nr)
            low1 == LowAfterAck(x, m)
            y == CheckpointAndAck(x, m)
            v == IF m.type = "I" THEN HandleI(s, y, m, low1) ELSE HandleS(y, m)
            l == PoolState(low1, InUse(v))
            z == [v EXCEPT !.low = l]
<1>1. CommonRx(s, x, m) = z
  BY DEF CommonRx
<1>2. /\ n \in Nat /\ y \in StationState /\ ~y.frmr /\ Received(x, y, m, n)
      /\ y.vr = x.vr /\ y.delivered = x.delivered
  BY CheckpointAndAckFacts
<1>3. n <= Ahead(x, m)
  <2>1. Dist(x.w.nr, m.nr) \in Nat /\ Len(x.w.i_retrans_q) \in Nat
    <3>1. x.w \in PeerWindow /\ m.nr \in SeqNum
      BY DEF StationState, Wire
    <3>2. x.w.nr \in SeqNum /\ Len(x.w.i_retrans_q) \in Nat
      BY <3>1, PeerFacts
    <3>3. Dist(x.w.nr, m.nr) \in SeqNum
      BY <3>1, <3>2, DistAdd
    <3>. QED BY <3>2, <3>3 DEF SeqNum
  <2>2. ASSUME NEW i \in Nat, NEW j \in Nat PROVE (IF i < j THEN i ELSE j) <= i
    OBVIOUS
  <2>3. n = IF Dist(x.w.nr, m.nr) < Len(x.w.i_retrans_q) THEN Dist(x.w.nr, m.nr)
            ELSE Len(x.w.i_retrans_q)
    BY Zenon DEF AckCount
  <2>4. n <= Dist(x.w.nr, m.nr)
    BY <2>1, <2>2, <2>3, Zenon
  <2>. QED BY <2>4 DEF Ahead
<1>. HIDE DEF n, y, low1
<1>4. v \in StationState /\ ~v.frmr /\ Received(x, v, m, n)
  <2>1. CASE m.type = "I"
    BY <1>2, <2>1, HandleIFacts
  <2>2. CASE m.type # "I"
    <3>1. m.type \in SFun
      BY <2>2 DEF Wire
    <3>. QED BY <1>2, <2>2, <3>1, HandleSFacts
  <2>. QED BY <2>1, <2>2
<1>. HIDE DEF v
<1>5. l \in BOOLEAN
  BY <1>4, InUseType, PoolType
<1>. HIDE DEF l
<1>6. z \in StationState
  BY <1>4, <1>5 DEF StationState
<1>7. Alike(v, z)
  BY <1>4 DEF StationState, Alike
<1>. HIDE DEF z
<1>8. ~z.frmr /\ Received(x, z, m, n)
  BY <1>4, <1>7 DEF Received, Alike
<1>. QED BY <1>1, <1>2, <1>3, <1>6, <1>8 DEF n

\* A station takes a frame off the line.
LEMMA RxFrameOK ==
    ASSUME IInv, NEW s \in Station, RxFrame(s), UNCHANGED link
    PROVE  (\E y : Becomes(s, y)) /\ AroundOK'
<1>. DEFINE x0 == st[s]
            o == st[Other(s)]
            c == chan[s]
            d == chan[Other(s)]
            m == Head(c)
            x == [x0 EXCEPT !.idl = FALSE]
            accepts == x.up /\ ~x.frmr
            y == IF accepts THEN CommonRx(s, x, m) ELSE x
            f == RxFlags(x, m, LowAfterAck(x, m))
<1>1. /\ x0 \in StationState /\ o \in StationState /\ c \in Seq(Wire) /\ d \in Seq(Wire)
      /\ LinkOK(x0, o, c) /\ LinkOK(o, x0, d)
      /\ ~x0.frmr /\ (~x0.up => tx[s].pc = "wait") /\ AroundOK
  BY IInvFacts
<1>2. /\ c # << >> /\ chan' = [chan EXCEPT ![s] = Tail(@)]
      /\ st' = [st EXCEPT ![s] = y]
      /\ ev' = IF accepts /\ IsNRValid(x.w, m.nr) THEN Broadcast(s, f) ELSE ev
      /\ UNCHANGED <<tx, losses, early, link>>
  BY DEF RxFrame
<1>3. f \in SUBSET Flag
  BY DEF RxFlags, Flag
<1>. HIDE DEF f
<1>4. x \in StationState /\ Alike(x0, x)
  <2>1. x \in StationState
    BY <1>1 DEF StationState
  <2>. QED BY <1>1, <2>1 DEF StationState, Alike
<1>5. Tail(c) \in Seq(Wire) /\ m \in Wire
  BY <1>1, <1>2, TailFacts
<1>6. /\ chan' \in [Station -> Seq(Wire)] /\ chan'[s] = Tail(c) /\ chan'[Other(s)] = d
      /\ ev' \in [Station -> EvState]
  BY <1>1, <1>2, <1>3, <1>5, TwoStations, BroadcastType DEF AroundOK
<1>7. AroundOK'
  BY <1>1, <1>2, <1>6 DEF AroundOK
<1>. HIDE DEF x0, o, c, d, m, x
<1>8. SameStream(x0, x)
  BY <1>1, <1>4, SameWindow DEF Alike
<1>9. LinkOK(x, o, c) /\ LinkOK(o, x, d)
  BY <1>1, <1>8, SameStreamOK
<1>10. CASE x.up
  <2>1. ~x.frmr /\ PeerConsistent(x.w, x.acked)
    BY <1>1, <1>4, <1>9, <1>10 DEF Alike, LinkOK, SendSide
  <2>2. IsNRValid(x.w, m.nr)
    BY <1>1, <1>2, <1>4, <1>9, <1>10, NRValid DEF m
  <2>. DEFINE n == AckCount(x.w, m.nr)
  <2>3. y = CommonRx(s, x, m)
    BY <1>10, <2>1
  <2>4. /\ n \in Nat /\ n <= Ahead(x, m)
        /\ y \in StationState /\ ~y.frmr /\ Received(x, y, m, n)
    BY <1>4, <1>5, <1>10, <2>1, <2>2, <2>3, CommonRxFacts
  <2>. HIDE DEF n, y
  <2>5. LinkOK(y, o, Tail(c)) /\ LinkOK(o, y, d)
    BY <1>1, <1>2, <1>4, <1>9, <1>10, <2>4, ReceivedOK DEF m
  <2>6. UserStep(x, y, o)
    <3>1. /\ y.acked <= Got(o)
          /\ \/ y.delivered = x.delivered
             \/ /\ Got(y) = Got(x) + 1
                /\ y.delivered = Append(x.delivered, Got(x) + 1)
      BY <1>1, <1>2, <1>4, <1>9, <1>10, <2>4, ReceivedFacts DEF m
    <3>2. y.written = x.written /\ y.acked = x.acked + n
      BY <2>4 DEF Received
    <3>3. Got(y) <= o.written
      BY <2>5 DEF LinkOK, ReceiveSide
    <3>4. x.acked \in Nat /\ Got(o) \in Nat /\ Got(x) \in Nat /\ o.written \in Nat
      BY <1>1, <1>4, StationFacts
    <3>5. y.acked \in x.acked..Got(o)
      BY <2>4, <3>1, <3>2, <3>4
    <3>6. Got(y) = Got(x) + 1 => Got(x) < o.written
      BY <3>3, <3>4
    <3>. QED BY <3>1, <3>2, <3>5, <3>6 DEF UserStep
  <2>7. UserStep(x0, y, o)
    BY <1>4, <2>6 DEF UserStep, Alike, Got
  <2>8. y.up
    BY <2>4 DEF Received
  <2>9. Becomes(s, y)
    BY <1>2, <1>6, <2>4, <2>5, <2>7, <2>8 DEF Becomes, x0, o
  <2>. QED BY <1>7, <2>9
<1>11. CASE ~x.up
  <2>1. y = x
    BY <1>11
  <2>. HIDE DEF y
  <2>2. LinkOK(x, o, Tail(c))
    BY <1>1, <1>2, <1>4, <1>9, LostOK
  <2>3. UserStep(x0, x, o)
    BY <1>4 DEF UserStep, Alike
  <2>4. ~x.frmr /\ (~x.up => tx[s].pc = "wait")
    BY <1>1, <1>4 DEF Alike
  <2>5. Becomes(s, x)
    BY <1>2, <1>4, <1>6, <1>9, <2>1, <2>2, <2>3, <2>4 DEF Becomes, x0, o
  <2>. QED BY <1>7, <2>5
<1>. QED BY <1>10, <1>11

(***************************************************************************)
(* The theorems.                                                           *)
(***************************************************************************)
\* Every step of the link is a step of one station.
LEMMA StepOK ==
    ASSUME IInv, Next
    PROVE  AroundOK' /\ \E s \in Station : \E y : Becomes(s, y)
<1>1. UNCHANGED link
  BY DEF Next
<1>2. PICK s \in Station :
          \/ Write(s) \/ WriteSignal(s) \/ Read(s) \/ TxStep(s) \/ RxFrame(s)
          \/ Lose(s) \/ RxIdle(s) \/ T1Expire(s) \/ T3Expire(s)
  BY DEF Next, Step
<1>3. CASE Write(s)
  BY <1>1, <1>3, WriteOK
<1>4. CASE WriteSignal(s)
  BY <1>1, <1>4, WriteSignalOK
<1>5. CASE Read(s)
  BY <1>1, <1>5, ReadOK
<1>6. CASE TxStart(s)
  BY <1>1, <1>6, TxStartOK
<1>7. CASE TxBurst(s)
  BY <1>1, <1>7, TxBurstOK
<1>8. CASE TxBurstEnd(s)
  BY <1>1, <1>8, TxBurstEndOK
<1>9. CASE TxTail(s)
  BY <1>1, <1>9, TxTailOK
<1>10. CASE RxFrame(s)
  BY <1>1, <1>10, RxFrameOK
<1>11. CASE Lose(s)
  BY <1>1, <1>11, LoseOK
<1>12. CASE RxIdle(s)
  BY <1>1, <1>12, RxIdleOK
<1>13. CASE T1Expire(s)
  BY <1>1, <1>13, T1ExpireOK
<1>14. CASE T3Expire(s)
  BY <1>1, <1>14, T3ExpireOK
<1>. QED
  BY <1>2, <1>3, <1>4, <1>5, <1>6, <1>7, <1>8, <1>9, <1>10, <1>11, <1>12, <1>13,
     <1>14 DEF TxStep

\* A step, or none, preserves the invariant.
LEMMA NextIInv == IInv /\ [Next]_vars => IInv'
<1>. SUFFICES ASSUME IInv, [Next]_vars PROVE IInv'
  OBVIOUS
<1>1. CASE Next
  <2>1. AroundOK' /\ \E s \in Station : \E y : Becomes(s, y)
    BY <1>1, StepOK
  <2>. QED BY <2>1, BecomesOK
<1>2. CASE UNCHANGED vars
  BY <1>2 DEF vars, running, IInv, TypeOK, Calm
<1>. QED BY <1>1, <1>2

\* The invariant holds throughout, whatever the line loses and however early
\* the timers of the two stations run out.
THEOREM Invariance == Spec => []IInv
<1>. QED BY InitIInv, NextIInv, PTL DEF Spec

\* Both ends of a link keep their queues, counters and sequence variables
\* consistent, in NRM and in ABM, for every modulus, window and number of
\* frames.
THEOREM BothWindowsConsistent == Spec => []WindowsConsistent
<1>1. IInv => WindowsConsistent
  BY DEF IInv, WindowsConsistent, LinkOK, SendSide
<1>. QED BY <1>1, Invariance, PTL

\* Neither station ever refuses an N(R) of the other: the FRMR condition of
\* ioHdlc_core.c needs a peer that does not follow the code, or a connection
\* that was not set up at both ends.
THEOREM NeverRejects == Spec => []NoFrmr
<1>1. IInv => NoFrmr
  BY DEF IInv, NoFrmr, Calm
<1>. QED BY <1>1, Invariance, PTL

\* The link implements the reliable stream: what a station reads is what the
\* other one wrote, in order, once and without gaps, and what the writer takes
\* for acknowledged has been delivered, after any loss, retransmission, REJ,
\* timeout or abort.
THEOREM ImplementsStream == Spec => ReliableStream
<1>1. Init => Stream!Init
  <2>. SUFFICES ASSUME Init PROVE Stream!Init
    OBVIOUS
  <2>1. \A s \in Station : /\ st[s].written = 0 /\ st[s].acked = 0
                           /\ st[s].delivered = << >>
    BY DEF Init, InitStation
  <2>. QED BY <2>1 DEF Stream!Init
<1>2. IInv /\ [Next]_vars => [Stream!Next]_(Stream!vars)
  <2>. SUFFICES ASSUME IInv, [Next]_vars PROVE [Stream!Next]_(Stream!vars)
    OBVIOUS
  <2>1. CASE Next
    <3>1. \E s \in Station : \E y : Becomes(s, y)
      BY <2>1, StepOK
    <3>. QED BY <3>1, BecomesStream
  <2>2. CASE UNCHANGED vars
    BY <2>2 DEF vars, running, Stream!vars
  <2>. QED BY <2>1, <2>2
<1>. QED BY <1>1, <1>2, Invariance, PTL DEF Spec, ReliableStream, Stream!Spec

(***************************************************************************)
(* Polls.  While neither end is busy, a TX thread that has a poll to       *)
(* answer is about to look at it: its pending bit is set, or it has flags  *)
(* left over, or it has sent nothing in this round, or the last frame of   *)
(* its burst will carry F (NRM), or it owes a REJ, which carries F.        *)
(***************************************************************************)
NoBusy == \A s \in Station : ~st[s].busy

Attended(x, t, e) ==
    \/ e.pending
    \/ t.pc = "wait" /\ t.cm # {}
    \/ t.pc = "burst" /\ (~t.sent \/ (~ABM /\ CanSendI(x.w)))
    \/ t.pc = "tail" /\ (~t.sent \/ x.rejpend)

\* The primary of an NRM link is never polled.
Unpolled(x, c) == ~x.p_rcved /\ \A i \in 1..Len(c) : ~c[i].cmd

\* No burst is cut short by anything but a REJ that is still to be sent.
PollOK(s, x, t, e, c) ==
    /\ "URGENT" \notin e.flags \union t.cm
    /\ ~x.peer_busy /\ \A i \in 1..Len(c) : c[i].type # "RNR"
    /\ ~ABM /\ s = "A" => Unpolled(x, c)
    /\ x.up /\ "REJ_ACTED" \in e.flags \union t.cm => x.rejpend
    /\ x.up /\ x.p_rcved /\ (UsesIdle => x.idl) => Attended(x, t, e)

PollInv == \A s \in Station : PollOK(s, st[s], tx[s], ev[s], chan[s])

\* It is enough to look at both stations.
LEMMA PollBecomes ==
    ASSUME NEW s \in Station, UNCHANGED link,
           PollOK(Other(s), st'[Other(s)], tx'[Other(s)], ev'[Other(s)], chan'[Other(s)]),
           PollOK(s, st'[s], tx'[s], ev'[s], chan'[s])
    PROVE  PollInv'
<1>. SUFFICES ASSUME NEW t \in Station
              PROVE  PollOK(t, st[t], tx[t], ev[t], chan[t])'
  BY DEF PollInv
<1>1. t = s \/ t = Other(s)
  BY DEF Station, Other
<1>2. PollOK(t, st'[t], tx'[t], ev'[t], chan'[t])
  BY <1>1
<1>. QED
  BY <1>2 DEF PollOK, Attended, Unpolled, ABM, TWA, UsesIdle

\* A frame that arrives or is lost leaves the others.
LEMMA PollTail ==
    ASSUME NEW s, NEW x, NEW t, NEW e, NEW c \in Seq(Wire), c # << >>,
           PollOK(s, x, t, e, c)
    PROVE  PollOK(s, x, t, e, Tail(c))
<1>1. Len(Tail(c)) = Len(c) - 1 /\ Len(c) \in Nat
      /\ \A i \in 1..Len(Tail(c)) : Tail(c)[i] = c[i + 1]
  OBVIOUS
<1>2. \A i \in 1..Len(Tail(c)) : i + 1 \in 1..Len(c) /\ Tail(c)[i] = c[i + 1]
  BY <1>1
<1>. QED
  BY <1>2 DEF PollOK, Unpolled

\* A frame that is sent is no RNR, and to the primary of an NRM link no command.
LEMMA PollAppend ==
    ASSUME NEW s, NEW x, NEW t, NEW e, NEW c \in Seq(Wire), NEW m \in Wire,
           PollOK(s, x, t, e, c), m.type # "RNR", ~ABM /\ s = "A" => ~m.cmd
    PROVE  PollOK(s, x, t, e, Append(c, m))
<1>1. /\ Len(Append(c, m)) = Len(c) + 1 /\ Len(c) \in Nat
      /\ Append(c, m)[Len(c) + 1] = m
      /\ \A i \in 1..Len(c) : Append(c, m)[i] = c[i]
  OBVIOUS
<1>2. ASSUME NEW i \in 1..Len(Append(c, m))
      PROVE  Append(c, m)[i] = m \/ (i \in 1..Len(c) /\ Append(c, m)[i] = c[i])
  BY <1>1
<1>3. \A i \in 1..Len(Append(c, m)) : Append(c, m)[i].type # "RNR"
  BY <1>2 DEF PollOK
<1>4. ~ABM /\ s = "A" => \A i \in 1..Len(Append(c, m)) : ~Append(c, m)[i].cmd
  BY <1>2 DEF PollOK, Unpolled
<1>. QED
  BY <1>3, <1>4 DEF PollOK, Unpolled

\* What a broadcast adds.
LEMMA BroadcastFacts ==
    ASSUME ev \in [Station -> EvState], NEW s \in Station, NEW f
    PROVE  LET d == Broadcast(s, f)
           IN  /\ d[Other(s)] = ev[Other(s)]
               /\ d[s].flags = ev[s].flags \union f
               /\ d[s].pending <=> ev[s].pending \/ f # {}
<1>1. Other(s) \in Station /\ Other(s) # s
  BY TwoStations
<1>2. CASE f = {}
  BY <1>2 DEF Broadcast
<1>3. CASE f # {}
  BY <1>1, <1>3 DEF Broadcast, EvState
<1>. QED BY <1>2, <1>3

\* Taking the flags leaves the pending bit.
LEMMA GetAndClearFacts ==
    ASSUME ev \in [Station -> EvState], NEW s \in Station
    PROVE  LET d == GetAndClear(s)
           IN  /\ d[Other(s)] = ev[Other(s)]
               /\ d[s].flags = {} /\ (d[s].pending <=> ev[s].pending)
<1>1. Other(s) \in Station /\ Other(s) # s
  BY TwoStations
<1>. QED BY <1>1 DEF GetAndClear, EvState

\* A step that is not one of the TX thread: a poll that is new, or may be
\* answered from now on, comes with a broadcast.
LEMMA PollCarried ==
    ASSUME NEW s, NEW x, NEW y, NEW t, NEW e, NEW d, NEW c, PollOK(s, x, t, e, c),
           y.up <=> x.up, x.rejpend => y.rejpend, ~y.peer_busy,
           ~ABM /\ s = "A" => ~y.p_rcved,
           "URGENT" \notin d.flags,
           "REJ_ACTED" \in d.flags => "REJ_ACTED" \in e.flags \/ y.rejpend,
           e.pending => d.pending,
           \/ d.pending
           \/ /\ y.p_rcved => x.p_rcved
              /\ y.idl => x.idl
              /\ CanSendI(x.w) => CanSendI(y.w)
    PROVE  PollOK(s, y, t, d, c)
<1>1. y.up /\ "REJ_ACTED" \in d.flags \union t.cm => y.rejpend
  BY DEF PollOK
<1>2. y.up /\ y.p_rcved /\ (UsesIdle => y.idl) => Attended(y, t, d)
  BY DEF PollOK, Attended
<1>. QED
  BY <1>1, <1>2 DEF PollOK, Unpolled

\* What the invariants say of the two stations.
LEMMA PollFacts ==
    ASSUME IInv, PollInv, NEW s \in Station
    PROVE  /\ PollOK(s, st[s], tx[s], ev[s], chan[s])
           /\ PollOK(Other(s), st[Other(s)], tx[Other(s)], ev[Other(s)], chan[Other(s)])
           /\ st \in [Station -> StationState] /\ AroundOK
           /\ Other(s) \in Station /\ Other(s) # s /\ Other(Other(s)) = s
BY IInvFacts, TwoStations DEF PollInv

\* The writer, the reader, the timers and the silence of the line.
LEMMA EventPoll ==
    ASSUME IInv, PollInv, NEW s \in Station, UNCHANGED <<tx, chan, link>>,
           NEW y, NEW f, st' = [st EXCEPT ![s] = y], ev' = Broadcast(s, f),
           "URGENT" \notin f, "REJ_ACTED" \notin f,
           y.up <=> st[s].up, y.rejpend <=> st[s].rejpend,
           y.peer_busy <=> st[s].peer_busy, y.p_rcved <=> st[s].p_rcved,
           \/ f # {}
           \/ (y.idl <=> st[s].idl) /\ (CanSendI(st[s].w) => CanSendI(y.w))
    PROVE  PollInv'
<1>1. /\ PollOK(s, st[s], tx[s], ev[s], chan[s])
      /\ PollOK(Other(s), st[Other(s)], tx[Other(s)], ev[Other(s)], chan[Other(s)])
      /\ st \in [Station -> StationState] /\ ev \in [Station -> EvState]
      /\ Other(s) \in Station /\ Other(s) # s
  BY PollFacts DEF AroundOK
<1>2. /\ st'[s] = y /\ st'[Other(s)] = st[Other(s)]
      /\ tx'[s] = tx[s] /\ tx'[Other(s)] = tx[Other(s)]
      /\ chan'[s] = chan[s] /\ chan'[Other(s)] = chan[Other(s)]
  BY <1>1
<1>3. /\ ev'[Other(s)] = ev[Other(s)] /\ ev'[s].flags = ev[s].flags \union f
      /\ ev'[s].pending <=> ev[s].pending \/ f # {}
  BY <1>1, BroadcastFacts
<1>4. /\ ~st[s].peer_busy /\ (~ABM /\ s = "A" => ~st[s].p_rcved)
      /\ "URGENT" \notin ev[s].flags
  BY <1>1 DEF PollOK, Unpolled
<1>5. PollOK(s, y, tx[s], ev'[s], chan[s])
  BY <1>1, <1>3, <1>4, PollCarried
<1>. QED BY <1>1, <1>2, <1>3, <1>5, PollBecomes

\* Queuing a frame.
LEMMA WritePoll ==
    ASSUME IInv, PollInv, NEW s \in Station, Write(s), UNCHANGED link
    PROVE  PollInv'
<1>. DEFINE x == st[s]
            u == Enqueue(x.w, x.written + 1)
            k == x.written + 1
            l == PoolState(x.low, InUse(x) + 1)
            y == [x EXCEPT !.w = u, !.written = k, !.signal_tx = TRUE, !.low = l]
<1>1. x \in StationState
  BY IInvFacts
<1>2. st' = [st EXCEPT ![s] = y] /\ UNCHANGED <<tx, ev, chan, link>>
  BY <1>1 DEF Write, StationState
<1>3. CanSendI(x.w) => CanSendI(u)
  <2>1. x.w \in PeerWindow
    BY <1>1 DEF StationState
  <2>2. /\ u.nr = x.w.nr /\ u.vs = x.w.vs
        /\ u.i_trans_q = Append(x.w.i_trans_q, [data |-> k, ns |-> NoNS])
    BY <2>1 DEF Enqueue, PeerWindow
  <2>3. x.w.i_trans_q \in Seq(Frame)
    BY <2>1, PeerFacts
  <2>4. Append(x.w.i_trans_q, [data |-> k, ns |-> NoNS]) # << >>
    BY <2>3
  <2>. HIDE DEF u
  <2>. QED BY <2>2, <2>4, Zenon DEF CanSendI, Outstanding
<1>. HIDE DEF u, k, l
<1>4. /\ (y.up <=> x.up) /\ (y.rejpend <=> x.rejpend) /\ (y.idl <=> x.idl)
      /\ (y.peer_busy <=> x.peer_busy) /\ (y.p_rcved <=> x.p_rcved) /\ y.w = u
  BY <1>1 DEF StationState
<1>. HIDE DEF y
<1>5. ev' = Broadcast(s, {})
  BY <1>2 DEF Broadcast
<1>. QED BY <1>2, <1>3, <1>4, <1>5, EventPoll

\* The writer's event.
LEMMA WriteSignalPoll ==
    ASSUME IInv, PollInv, NEW s \in Station, WriteSignal(s), UNCHANGED link
    PROVE  PollInv'
<1>. DEFINE x == st[s]
            y == [x EXCEPT !.signal_tx = FALSE]
<1>1. x \in StationState
  BY IInvFacts
<1>2. /\ st' = [st EXCEPT ![s] = y] /\ ev' = Broadcast(s, {"WORK"})
      /\ UNCHANGED <<tx, chan, link>>
  BY DEF WriteSignal
<1>3. /\ (y.up <=> x.up) /\ (y.rejpend <=> x.rejpend)
      /\ (y.peer_busy <=> x.peer_busy) /\ (y.p_rcved <=> x.p_rcved)
  BY <1>1 DEF StationState
<1>. HIDE DEF y
<1>. QED BY <1>2, <1>3, EventPoll

\* A station that is not busy tells nobody that a frame was read.
LEMMA ReadPoll ==
    ASSUME IInv, PollInv, NoBusy, NEW s \in Station, Read(s), UNCHANGED link
    PROVE  PollInv'
<1>. DEFINE x == st[s]
            l == PoolState(x.low, InUse(x) - 1)
            k == x.unread - 1
            y == [x EXCEPT !.unread = k, !.low = l]
            f == {g \in {"URGENT"} : x.busy /\ ~l}
<1>1. x \in StationState
  BY IInvFacts
<1>2. /\ st' = [st EXCEPT ![s] = y] /\ ev' = Broadcast(s, f)
      /\ UNCHANGED <<tx, chan, link>>
  BY DEF Read
<1>3. f = {}
  BY DEF NoBusy
<1>. HIDE DEF f, k, l
<1>4. /\ (y.up <=> x.up) /\ (y.rejpend <=> x.rejpend) /\ (y.idl <=> x.idl)
      /\ (y.peer_busy <=> x.peer_busy) /\ (y.p_rcved <=> x.p_rcved) /\ y.w = x.w
  BY <1>1 DEF StationState
<1>. HIDE DEF y
<1>. QED BY <1>2, <1>3, <1>4, EventPoll

\* The line falls idle.
LEMMA RxIdlePoll ==
    ASSUME IInv, PollInv, NEW s \in Station, RxIdle(s), UNCHANGED link
    PROVE  PollInv'
<1>. DEFINE x == st[s]
            y == [x EXCEPT !.idl = UsesIdle]
<1>1. x \in StationState
  BY IInvFacts
<1>2. /\ st' = [st EXCEPT ![s] = y] /\ ev' = Broadcast(s, {"LINE_IDLE"})
      /\ UNCHANGED <<tx, chan, link>>
  BY DEF RxIdle
<1>3. /\ (y.up <=> x.up) /\ (y.rejpend <=> x.rejpend)
      /\ (y.peer_busy <=> x.peer_busy) /\ (y.p_rcved <=> x.p_rcved)
  BY <1>1 DEF StationState
<1>. HIDE DEF y
<1>. QED BY <1>2, <1>3, EventPoll

\* A timer runs out.
LEMMA ExpirePoll ==
    ASSUME IInv, PollInv, NEW s \in Station, T1Expire(s) \/ T3Expire(s),
           UNCHANGED link
    PROVE  PollInv'
<1>. DEFINE x == st[s]
            y == [x EXCEPT !.t1 = "expired"]
            z == [x EXCEPT !.t3 = "expired"]
<1>1. x \in StationState
  BY IInvFacts
<1>2. /\ (y.up <=> x.up) /\ (y.rejpend <=> x.rejpend)
      /\ (y.peer_busy <=> x.peer_busy) /\ (y.p_rcved <=> x.p_rcved)
  BY <1>1 DEF StationState
<1>3. /\ (z.up <=> x.up) /\ (z.rejpend <=> x.rejpend)
      /\ (z.peer_busy <=> x.peer_busy) /\ (z.p_rcved <=> x.p_rcved)
  BY <1>1 DEF StationState
<1>4. CASE T1Expire(s)
  <2>1. /\ st' = [st EXCEPT ![s] = y] /\ ev' = Broadcast(s, {"C_RPLYTMO"})
        /\ UNCHANGED <<tx, chan, link>>
    BY <1>4 DEF T1Expire
  <2>. HIDE DEF y
  <2>. QED BY <1>2, <2>1, EventPoll
<1>5. CASE T3Expire(s)
  <2>1. /\ st' = [st EXCEPT ![s] = z] /\ ev' = Broadcast(s, {"T3_TMO"})
        /\ UNCHANGED <<tx, chan, link>>
    BY <1>5 DEF T3Expire
  <2>. HIDE DEF z
  <2>. QED BY <1>3, <2>1, EventPoll
<1>. QED BY <1>4, <1>5

\* The line loses a frame.
LEMMA LosePoll ==
    ASSUME IInv, PollInv, NEW s \in Station, Lose(s), UNCHANGED link
    PROVE  PollInv'
<1>1. /\ PollOK(s, st[s], tx[s], ev[s], chan[s])
      /\ PollOK(Other(s), st[Other(s)], tx[Other(s)], ev[Other(s)], chan[Other(s)])
      /\ Other(s) \in Station /\ Other(s) # s /\ AroundOK
  BY PollFacts
<1>2. /\ chan[s] # << >> /\ chan' = [chan EXCEPT ![s] = Tail(chan[s])]
      /\ UNCHANGED <<st, tx, ev, link>>
  BY DEF Lose
<1>3. /\ chan'[s] = Tail(chan[s]) /\ chan'[Other(s)] = chan[Other(s)]
      /\ chan[s] \in Seq(Wire)
  BY <1>1, <1>2 DEF AroundOK
<1>4. PollOK(s, st[s], tx[s], ev[s], Tail(chan[s]))
  BY <1>1, <1>2, <1>3, PollTail
<1>. QED BY <1>1, <1>2, <1>3, <1>4, PollBecomes

\* Nothing that answering a poll depends on differs.
Heeds(x, y) ==
    /\ (y.p_rcved <=> x.p_rcved) /\ (x.peer_busy \/ ~y.peer_busy)
    /\ y.up => x.up /\ (y.rejpend <=> x.rejpend)

\* The timers leave it alone, unless they end the link.
LEMMA RetryHeeds ==
    ASSUME NEW x \in StationState
    PROVE  Heeds(x, TimeoutRetry(x))
<1>. DEFINE u == ResetWindow(x.w)
            l == PoolState(x.low, x.unread)
            k == x.retry + 1
            a == [x EXCEPT !.w = u, !.vr = 0, !.t3_expected_nr = 0,
                           !.rejpend = FALSE, !.peer_busy = FALSE, !.need_p = FALSE,
                           !.retry = 0, !.frmr = FALSE, !.t1 = "off", !.t3 = "off",
                           !.f_rcved = TRUE, !.up = FALSE, !.low = l]
            b == [x EXCEPT !.retry = k, !.need_p = TRUE, !.f_rcved = TRUE,
                           !.rej_actioned = 0]
<1>1. TimeoutRetry(x) = a \/ TimeoutRetry(x) = b
  BY DEF TimeoutRetry, Abort
<1>. HIDE DEF u, l, k
<1>2. Heeds(x, a) /\ Heeds(x, b)
  BY DEF StationState, Heeds
<1>. HIDE DEF a, b
<1>. QED BY <1>1, <1>2

\* The same of both timers, one after the other.
LEMMA TimersHeed ==
    ASSUME NEW x \in StationState, x.up, ~x.frmr, NEW f
    PROVE  Heeds(x, ServeT3(ServeT1(x, f), f))
<1>. DEFINE z == ServeT1(x, f)
            v == [z EXCEPT !.t3 = "off"]
            n == [v EXCEPT !.need_p = TRUE]
            y == ServeT3(z, f)
<1>1. Heeds(x, z)
  BY RetryHeeds DEF ServeT1, Heeds
<1>2. z \in StationState
  BY TimeoutRetryServed DEF ServeT1, Served
<1>. HIDE DEF z
<1>3. v \in StationState
  BY <1>2 DEF StationState, Timer
<1>4. Heeds(z, z) /\ Heeds(z, v) /\ Heeds(z, n)
  BY <1>2 DEF StationState, Heeds
<1>5. y = z \/ y = n \/ y = v \/ y = TimeoutRetry(v)
  BY DEF ServeT3
<1>. HIDE DEF v, n, y
<1>6. Heeds(v, TimeoutRetry(v))
  BY <1>3, RetryHeeds
<1>7. Heeds(z, TimeoutRetry(v))
  BY <1>4, <1>6 DEF Heeds
<1>8. Heeds(z, y)
  BY <1>4, <1>5, <1>7
<1>9. Heeds(x, y)
  BY <1>1, <1>8 DEF Heeds
<1>. QED BY <1>9 DEF y, z

\* A new round looks at the poll before it has sent anything.
LEMMA TxStartPoll ==
    ASSUME IInv, PollInv, NEW s \in Station, TxStart(s), UNCHANGED link
    PROVE  PollInv'
<1>. DEFINE x == st[s]
            leftover == tx[s].cm # {}
            flags == IF leftover THEN tx[s].cm ELSE ev[s].flags
            y == ServeT3(ServeT1(x, flags), flags)
            cm == flags \ {"LINE_IDLE", "C_RPLYTMO", "T3_TMO"}
            t == [pc |-> IF ~y.up THEN "wait" ELSE IF y.frmr THEN "tail" ELSE "burst",
                  cm |-> cm, sent |-> FALSE]
            e == [flags |-> {}, pending |-> FALSE]
<1>1. /\ PollOK(s, x, tx[s], ev[s], chan[s])
      /\ PollOK(Other(s), st[Other(s)], tx[Other(s)], ev[Other(s)], chan[Other(s)])
      /\ st \in [Station -> StationState] /\ AroundOK
      /\ Other(s) \in Station /\ Other(s) # s
  BY PollFacts
<1>2. x \in StationState /\ ~x.frmr
  BY IInvFacts
<1>3. /\ st' = [st EXCEPT ![s] = y] /\ x.up
      /\ tx' = [tx EXCEPT ![s] = t]
      /\ ev' = IF leftover THEN ev ELSE [ev EXCEPT ![s] = e]
      /\ UNCHANGED <<chan, link>>
  BY DEF TxStart
<1>4. Heeds(x, y) /\ Served(x, y)
  BY <1>2, <1>3, TimersHeed, TimersServed
<1>5. flags \subseteq tx[s].cm \union ev[s].flags
  OBVIOUS
<1>6. ev'[s].flags \subseteq ev[s].flags /\ ev'[Other(s)] = ev[Other(s)]
  BY <1>1, <1>3 DEF AroundOK, EvState
<1>. HIDE DEF y, flags
<1>7. t.cm \subseteq tx[s].cm \union ev[s].flags /\ t.sent = FALSE
      /\ (y.up => t.pc = "burst")
  BY <1>4, <1>5 DEF Served
<1>. HIDE DEF t, e
<1>8. /\ st'[s] = y /\ st'[Other(s)] = st[Other(s)]
      /\ tx'[s] = t /\ tx'[Other(s)] = tx[Other(s)]
  BY <1>1, <1>3 DEF AroundOK
<1>9. PollOK(s, y, t, ev'[s], chan[s])
  <2>1. /\ "URGENT" \notin ev'[s].flags \union t.cm
        /\ y.up /\ "REJ_ACTED" \in ev'[s].flags \union t.cm => y.rejpend
    BY <1>1, <1>4, <1>6, <1>7 DEF PollOK, Heeds
  <2>2. y.up => Attended(y, t, ev'[s])
    BY <1>7 DEF Attended
  <2>. QED BY <1>1, <1>4, <2>1, <2>2 DEF PollOK, Heeds, Unpolled
<1>10. chan'[s] = chan[s] /\ chan'[Other(s)] = chan[Other(s)]
  BY <1>3
<1>. QED BY <1>1, <1>6, <1>8, <1>9, <1>10, PollBecomes

\* P/F of a frame that is no command answers the poll.
LEMMA AfterSendPoll ==
    ASSUME NEW x \in StationState, NEW s \in Station, NEW pf \in BOOLEAN
    PROVE  LET z == AfterSend(s, x, pf)
           IN  /\ (z.up <=> x.up) /\ (z.rejpend <=> x.rejpend) /\ (z.idl <=> x.idl)
               /\ (z.peer_busy <=> x.peer_busy) /\ z.w = x.w
               /\ z.p_rcved <=> x.p_rcved /\ ~(pf /\ ~IsCommand(s))
<1>. DEFINE t == IF ABM THEN x.t3 ELSE "off"
            a == [x EXCEPT !.f_rcved = FALSE, !.need_p = FALSE, !.t1 = "armed",
                           !.t3 = t]
            b == [x EXCEPT !.p_rcved = FALSE]
            z == AfterSend(s, x, pf)
<1>1. z = IF ~pf THEN x ELSE IF IsCommand(s) THEN a ELSE b
  BY DEF AfterSend, StationState
<1>. HIDE DEF t
<1>2. /\ (a.up <=> x.up) /\ (a.rejpend <=> x.rejpend) /\ (a.idl <=> x.idl)
      /\ (a.peer_busy <=> x.peer_busy) /\ a.w = x.w /\ (a.p_rcved <=> x.p_rcved)
  BY DEF StationState
<1>3. /\ (b.up <=> x.up) /\ (b.rejpend <=> x.rejpend) /\ (b.idl <=> x.idl)
      /\ (b.peer_busy <=> x.peer_busy) /\ b.w = x.w /\ ~b.p_rcved
  BY DEF StationState
<1>. HIDE DEF a, b, z
<1>4. CASE ~pf
  BY <1>1, <1>4 DEF z
<1>5. CASE pf /\ IsCommand(s)
  BY <1>1, <1>2, <1>5 DEF z
<1>6. CASE pf /\ ~IsCommand(s)
  BY <1>1, <1>3, <1>6 DEF z
<1>. QED BY <1>4, <1>5, <1>6

\* A frame that is not the last of its burst is followed by another.
LEMMA BurstFollows ==
    ASSUME NEW w \in PeerWindow, NEW a \in Nat, PeerConsistent(w, a), CanSendI(w),
           ~IsLastFrame(w), NEW chk \in BOOLEAN
    PROVE  CanSendI(SendIFrame(w, chk))
<1>. DEFINE u == SendIFrame(w, chk)
<1>1. /\ u \in PeerWindow /\ PeerConsistent(u, a)
      /\ Len(u.i_trans_q) = Len(w.i_trans_q) - 1
      /\ Len(u.i_retrans_q) = Len(w.i_retrans_q) + 1
  BY SendIFrameConsistent
<1>2. /\ Len(w.i_trans_q) \in Nat /\ Len(w.i_trans_q) # 0 /\ Len(w.i_trans_q) # 1
      /\ Outstanding(w) \in Int
  BY PeerFacts DEF CanSendI, IsLastFrame, SeqNum
<1>. HIDE DEF u
<1>3. u.i_trans_q # << >>
  <2>1. Len(u.i_trans_q) # 0
    BY <1>1, <1>2
  <2>. QED BY <2>1
<1>4. Outstanding(u) = Outstanding(w) + 1
  BY <1>1 DEF PeerConsistent, OutstandingOK
<1>5. Outstanding(w) + 1 < Ks
  BY <1>2, KsAssumption, ModAssumption DEF IsLastFrame
<1>. QED BY <1>3, <1>4, <1>5 DEF CanSendI, u

\* A station with a poll to answer sends responses, with F as soon as it may.
LEMMA PolledStation ==
    ASSUME NEW s \in Station, st[s].p_rcved, ~st[s].busy,
           ~ABM /\ s = "A" => ~st[s].p_rcved
    PROVE  /\ ~IsCommand(s)
           /\ ABM \/ s = "B"
           /\ (UsesIdle => st[s].idl) => SendOpportunity(s)
           /\ PFOnSFrame(s)
           /\ ABM \/ IsLastFrame(st[s].w) => PFOnIFrame(s)
<1>1. ~IsCommand(s) /\ (ABM \/ s = "B")
  BY DEF IsCommand, Station
<1>2. (UsesIdle => st[s].idl) => SendOpportunity(s)
  BY <1>1 DEF SendOpportunity, UsesIdle
<1>3. PFOnSFrame(s)
  BY <1>1 DEF PFOnSFrame
<1>4. ABM \/ IsLastFrame(st[s].w) => PFOnIFrame(s)
  BY <1>1 DEF PFOnIFrame
<1>. QED BY <1>1, <1>2, <1>3, <1>4

\* In ABM the first I-frame after a poll answers it; in NRM the last one of the
\* burst does, unless a REJ comes before it.
LEMMA TxBurstPoll ==
    ASSUME IInv, PollInv, NoBusy, NEW s \in Station, TxBurst(s), UNCHANGED link
    PROVE  PollInv'
<1>. DEFINE x == st[s]
            o == Other(s)
            pf == PFOnIFrame(s)
            chk == Checkpointed(s, pf)
            cmd == IsCommand(s)
            flags == tx[s].cm \union ev[s].flags
            f == NumberedHead(x.w)
            u == SendIFrame(x.w, chk)
            v == [x EXCEPT !.w = u]
            z == AfterSend(s, v, pf)
            y == IF ABM THEN [z EXCEPT !.t3 = "armed", !.t3_expected_nr = z.w.vs]
                 ELSE z
            m == [type |-> "I", cmd |-> cmd, pf |-> pf, nr |-> x.vr,
                  ns |-> f.ns, data |-> f.data]
            t == [pc |-> IF \/ flags \intersect {"URGENT", "REJ_ACTED"} # {}
                            \/ TWA /\ pf
                         THEN "tail" ELSE "burst",
                  cm |-> flags, sent |-> TRUE]
<1>1. /\ PollOK(s, x, tx[s], ev[s], chan[s])
      /\ PollOK(o, st[o], tx[o], ev[o], chan[o])
      /\ st \in [Station -> StationState] /\ AroundOK
      /\ o \in Station /\ o # s /\ Other(o) = s
  BY PollFacts
<1>2. /\ x \in StationState /\ x.up /\ LinkOK(x, st[o], chan[s]) /\ ~x.busy
      /\ tx[s].pc = "burst"
  BY IInvFacts DEF TxBurst, NoBusy
<1>3. /\ CanSendI(x.w) /\ st' = [st EXCEPT ![s] = y]
      /\ chan' = [chan EXCEPT ![o] = Append(chan[o], m)]
      /\ ev' = GetAndClear(s) /\ tx' = [tx EXCEPT ![s] = t]
      /\ UNCHANGED link
  BY <1>1 DEF TxBurst, BurstGoesOn, AroundOK
<1>4. pf \in BOOLEAN /\ chk \in BOOLEAN /\ cmd \in BOOLEAN
  BY FlagTypes
<1>5. x.w \in PeerWindow /\ x.acked \in Nat /\ x.vr \in SeqNum
      /\ PeerConsistent(x.w, x.acked)
  BY <1>2, StationFacts DEF LinkOK, SendSide
<1>6. u \in PeerWindow /\ (~IsLastFrame(x.w) => CanSendI(u))
  BY <1>3, <1>4, <1>5, SendIFrameConsistent, BurstFollows
<1>7. f.data \in Nat /\ f.ns \in SeqNum
  <2>1. /\ f.data \in 1..(x.acked + Queued(x.w)) /\ f.ns = (f.data - 1) % Mod
        /\ Queued(x.w) \in Nat
    BY <1>3, <1>4, <1>5, SentFrame, StationFacts, <1>2
  <2>2. f.data \in Nat /\ f.data - 1 \in Int
    BY <1>5, <2>1
  <2>. QED BY <2>1, <2>2, ModRange
<1>8. m \in Wire /\ m.type = "I" /\ m.cmd = cmd
  BY <1>4, <1>5, <1>7 DEF Wire
<1>9. ~ABM /\ o = "A" => ~cmd
  BY <1>1 DEF IsCommand
<1>10. flags \in SUBSET Flag /\ t.cm = flags /\ t.sent
       /\ t.pc = IF \/ flags \intersect {"URGENT", "REJ_ACTED"} # {}
                    \/ TWA /\ pf
                 THEN "tail" ELSE "burst"
  BY <1>1 DEF AroundOK, TxState, EvState
<1>. HIDE DEF f, u, m
<1>11. v \in StationState
  BY <1>2, <1>6 DEF StationState
<1>12. /\ v.w = u /\ (v.up <=> x.up) /\ (v.rejpend <=> x.rejpend)
       /\ (v.idl <=> x.idl) /\ (v.peer_busy <=> x.peer_busy)
       /\ (v.p_rcved <=> x.p_rcved)
  BY <1>2 DEF StationState
<1>. HIDE DEF v
<1>13. /\ z.w = u /\ (z.up <=> x.up) /\ (z.rejpend <=> x.rejpend)
       /\ (z.idl <=> x.idl) /\ (z.peer_busy <=> x.peer_busy)
       /\ (z.p_rcved <=> x.p_rcved /\ ~(pf /\ ~cmd))
  BY <1>4, <1>11, <1>12, AfterSendPoll
<1>14. z \in StationState
  BY <1>4, <1>11, AfterSendFacts
<1>. HIDE DEF z
<1>15. /\ y.w = z.w /\ (y.up <=> z.up) /\ (y.rejpend <=> z.rejpend)
       /\ (y.idl <=> z.idl) /\ (y.peer_busy <=> z.peer_busy)
       /\ (y.p_rcved <=> z.p_rcved)
  BY <1>14 DEF StationState
<1>. HIDE DEF y, t
<1>16. /\ st'[s] = y /\ st'[o] = st[o] /\ tx'[s] = t /\ tx'[o] = tx[o]
       /\ chan'[s] = chan[s] /\ chan'[o] = Append(chan[o], m)
       /\ chan[o] \in Seq(Wire)
  BY <1>1, <1>3 DEF AroundOK
<1>17. /\ ev'[o] = ev[o] /\ ev'[s].flags = {} /\ (ev'[s].pending <=> ev[s].pending)
  BY <1>1, <1>3, GetAndClearFacts DEF AroundOK
<1>18. /\ "URGENT" \notin flags /\ ("REJ_ACTED" \in flags => x.rejpend)
       /\ (~ABM /\ s = "A" => ~x.p_rcved) /\ ~x.peer_busy
  BY <1>1, <1>2 DEF PollOK, Unpolled
<1>. HIDE DEF flags
<1>19. ASSUME y.p_rcved PROVE Attended(y, t, ev'[s])
  <2>1. x.p_rcved /\ ~(pf /\ ~cmd)
    BY <1>13, <1>15, <1>19
  <2>2. ~pf /\ ~ABM /\ ~IsLastFrame(x.w)
    BY <1>2, <1>18, <2>1, PolledStation
  <2>3. CanSendI(y.w)
    BY <1>6, <1>13, <1>15, <2>2
  <2>4. t.pc = "burst" \/ (t.pc = "tail" /\ y.rejpend)
    BY <1>10, <1>13, <1>15, <1>18, <2>2
  <2>. QED BY <2>2, <2>3, <2>4 DEF Attended
<1>20. PollOK(s, y, t, ev'[s], chan[s])
  BY <1>1, <1>10, <1>13, <1>15, <1>17, <1>18, <1>19 DEF PollOK, Unpolled
<1>21. PollOK(o, st[o], tx[o], ev[o], Append(chan[o], m))
  BY <1>1, <1>8, <1>9, <1>16, PollAppend
<1>. QED BY <1>16, <1>17, <1>20, <1>21, <1>3, PollBecomes

\* A burst that has sent a frame and owes F goes on.
LEMMA TxBurstEndPoll ==
    ASSUME IInv, PollInv, NoBusy, NEW s \in Station, TxBurstEnd(s), UNCHANGED link
    PROVE  PollInv'
<1>. DEFINE x == st[s]
            t == [tx[s] EXCEPT !.pc = "tail"]
<1>1. /\ PollOK(s, x, tx[s], ev[s], chan[s])
      /\ PollOK(Other(s), st[Other(s)], tx[Other(s)], ev[Other(s)], chan[Other(s)])
      /\ st \in [Station -> StationState] /\ AroundOK
      /\ Other(s) \in Station /\ Other(s) # s /\ ~x.busy
  BY PollFacts DEF NoBusy
<1>2. /\ tx[s].pc = "burst" /\ ~BurstGoesOn(s) /\ tx' = [tx EXCEPT ![s] = t]
      /\ UNCHANGED <<st, ev, chan, link>>
  BY DEF TxBurstEnd
<1>3. t.pc = "tail" /\ t.cm = tx[s].cm /\ (t.sent <=> tx[s].sent)
  BY <1>1 DEF AroundOK, TxState
<1>. HIDE DEF t
<1>4. /\ st'[s] = x /\ st'[Other(s)] = st[Other(s)]
      /\ tx'[s] = t /\ tx'[Other(s)] = tx[Other(s)]
      /\ ev'[s] = ev[s] /\ ev'[Other(s)] = ev[Other(s)]
      /\ chan'[s] = chan[s] /\ chan'[Other(s)] = chan[Other(s)]
  BY <1>1, <1>2 DEF AroundOK
<1>5. ASSUME x.up, x.p_rcved, UsesIdle => x.idl
      PROVE  Attended(x, t, ev[s])
  <2>1. \/ ev[s].pending \/ ~tx[s].sent
        \/ ~ABM /\ CanSendI(x.w)
    BY <1>1, <1>2, <1>5 DEF PollOK, Attended
  <2>2. CASE ~ABM /\ CanSendI(x.w)
    <3>1. SendOpportunity(s) /\ ~x.peer_busy
      BY <1>1, <1>5, PolledStation DEF PollOK, Unpolled
    <3>. QED BY <1>2, <2>2, <3>1 DEF BurstGoesOn
  <2>. QED BY <1>3, <2>1, <2>2 DEF Attended
<1>6. PollOK(s, x, t, ev[s], chan[s])
  BY <1>1, <1>3, <1>5 DEF PollOK
<1>. QED BY <1>1, <1>2, <1>4, <1>6, PollBecomes

\* The S-frame behind the burst carries F if no I-frame did, and so does a REJ.
LEMMA TxTailPoll ==
    ASSUME IInv, PollInv, NoBusy, NEW s \in Station, TxTail(s), UNCHANGED link
    PROVE  PollInv'
<1>. DEFINE x == st[s]
            o == Other(s)
            fun == WantedS(s)
            pf == PFOnSFrame(s)
            chk == Checkpointed(s, pf)
            cmd == IsCommand(s)
            flags == tx[s].cm \union ev[s].flags
            u == SendSFrame(x.w, chk)
            rej == x.rejpend /\ fun # "REJ"
            busy == x.busy /\ fun # "RR"
            v == [x EXCEPT !.w = u, !.rejpend = rej, !.busy = busy]
            z == AfterSend(s, v, pf)
            y == st'[s]
            m == [type |-> fun, cmd |-> cmd, pf |-> pf, nr |-> x.vr,
                  ns |-> NoNS, data |-> 0]
            t == [pc |-> "wait", sent |-> FALSE,
                  cm |-> flags \ ({"WORK", "URGENT"} \union
                             IF x.rejpend THEN {"REJ_ACTED"} ELSE {})]
<1>1. /\ PollOK(s, x, tx[s], ev[s], chan[s])
      /\ PollOK(o, st[o], tx[o], ev[o], chan[o])
      /\ st \in [Station -> StationState] /\ AroundOK
      /\ o \in Station /\ o # s /\ Other(o) = s /\ ~x.busy
  BY PollFacts DEF NoBusy
<1>2. x \in StationState /\ x.up /\ tx[s].pc = "tail"
  BY IInvFacts DEF TxTail
<1>3. /\ IF fun = "none" THEN UNCHANGED <<st, chan>>
         ELSE /\ st' = [st EXCEPT ![s] = z]
              /\ chan' = [chan EXCEPT ![o] = Append(chan[o], m)]
      /\ ev' = GetAndClear(s) /\ tx' = [tx EXCEPT ![s] = t]
      /\ UNCHANGED link
  BY <1>1 DEF TxTail, AroundOK
<1>4. pf \in BOOLEAN /\ chk \in BOOLEAN /\ cmd \in BOOLEAN
  BY <1>2, FlagTypes
<1>5. fun \in {"none", "RR", "REJ"}
  BY <1>1 DEF WantedS
<1>7. x.w \in PeerWindow /\ x.vr \in SeqNum
  BY <1>2 DEF StationState
<1>8. /\ t.pc = "wait" /\ t.cm \subseteq flags
      /\ (x.rejpend => "REJ_ACTED" \notin t.cm)
  OBVIOUS
<1>9. /\ "URGENT" \notin flags /\ ("REJ_ACTED" \in flags => x.rejpend)
      /\ (~ABM /\ s = "A" => ~x.p_rcved) /\ ~x.peer_busy
  BY <1>1, <1>2 DEF PollOK, Unpolled
<1>10. /\ tx'[s] = t /\ tx'[o] = tx[o]
       /\ ev'[o] = ev[o] /\ ev'[s].flags = {} /\ (ev'[s].pending <=> ev[s].pending)
  BY <1>1, <1>3, GetAndClearFacts DEF AroundOK
<1>11. /\ st'[o] = st[o] /\ chan'[s] = chan[s]
       /\ y = IF fun = "none" THEN x ELSE z
       /\ fun = "none" => chan'[o] = chan[o]
       /\ fun # "none" => chan'[o] = Append(chan[o], m)
  <2>1. chan \in [Station -> Seq(Wire)]
    BY <1>1 DEF AroundOK
  <2>. HIDE DEF fun, z, m
  <2>. QED BY <1>1, <1>3, <2>1
<1>12. fun # "none" => m \in Wire /\ m.type # "RNR" /\ m.cmd = cmd
  BY <1>4, <1>5, <1>7 DEF Wire, SFun
<1>13. ~ABM /\ o = "A" => ~cmd
  BY <1>1 DEF IsCommand
<1>14. PollOK(o, st[o], tx[o], ev[o], chan'[o])
  <2>1. chan[o] \in Seq(Wire)
    BY <1>1 DEF AroundOK
  <2>. HIDE DEF fun, m, cmd
  <2>. QED BY <1>1, <1>11, <1>12, <1>13, <2>1, PollAppend
<1>. HIDE DEF flags, t, m
<1>15. u \in PeerWindow
  <2>1. x.w.vs \in SeqNum /\ x.w.vs_atlast_pf \in SeqNum
    BY <1>7, PeerFacts
  <2>. QED BY <1>7, <2>1 DEF SendSFrame, PeerWindow
<1>16. rej \in BOOLEAN /\ busy \in BOOLEAN
  BY Zenon
<1>17. rej => x.rejpend
  OBVIOUS
<1>. HIDE DEF u, rej, busy
<1>18. v \in StationState
  BY <1>2, <1>15, <1>16 DEF StationState
<1>19. /\ (v.up <=> x.up) /\ (v.idl <=> x.idl) /\ (v.peer_busy <=> x.peer_busy)
       /\ (v.p_rcved <=> x.p_rcved)
  BY <1>2 DEF StationState
<1>. HIDE DEF v
<1>20. /\ (z.up <=> v.up) /\ (z.idl <=> v.idl) /\ (z.peer_busy <=> v.peer_busy)
       /\ (z.p_rcved <=> v.p_rcved /\ ~(pf /\ ~cmd))
  BY <1>4, <1>18, AfterSendPoll
<1>. HIDE DEF z
<1>21. /\ (y.up <=> x.up) /\ (y.idl <=> x.idl) /\ ~y.peer_busy
       /\ (y.p_rcved <=> x.p_rcved /\ (fun = "none" \/ ~(pf /\ ~cmd)))
  BY <1>9, <1>11, <1>19, <1>20
<1>. HIDE DEF y
<1>22. "REJ_ACTED" \notin ev'[s].flags \union t.cm
  BY <1>8, <1>9, <1>10
<1>23. ASSUME y.p_rcved, UsesIdle => y.idl PROVE ev'[s].pending
  <2>1. x.p_rcved /\ (UsesIdle => x.idl) /\ (fun = "none" \/ ~(pf /\ ~cmd))
    BY <1>21, <1>23
  <2>2. SendOpportunity(s) /\ pf /\ ~cmd
    BY <1>1, <1>9, <2>1, PolledStation
  <2>3. fun = "none"
    BY <2>1, <2>2
  <2>4. ~x.rejpend /\ tx[s].sent
    BY <1>1, <2>1, <2>2, <2>3 DEF WantedS, fun
  <2>. QED BY <1>1, <1>2, <1>10, <2>1, <2>4 DEF PollOK, Attended
<1>24. PollOK(s, y, t, ev'[s], chan[s])
  BY <1>1, <1>8, <1>9, <1>10, <1>21, <1>22, <1>23 DEF PollOK, Unpolled, Attended
<1>. QED BY <1>3, <1>10, <1>11, <1>14, <1>24, PollBecomes DEF y

\* An acknowledgement takes nothing away from a burst.
LEMMA AckedCanSend ==
    ASSUME NEW w \in PeerWindow, NEW a \in Nat, PeerConsistent(w, a), CanSendI(w),
           NEW nr \in SeqNum
    PROVE  CanSendI(ProcessNR(w, nr))
<1>. DEFINE u == ProcessNR(w, nr)
            n == AckCount(w, nr)
<1>1. /\ u \in PeerWindow /\ n \in Nat /\ PeerConsistent(u, a + n)
      /\ u.i_trans_q = w.i_trans_q
      /\ Len(u.i_retrans_q) = Len(w.i_retrans_q) - n
  BY ProcessNRConsistent
<1>. HIDE DEF u, n
<1>2. Outstanding(u) = Outstanding(w) - n /\ Outstanding(w) \in Int
  BY <1>1, PeerFacts DEF PeerConsistent, OutstandingOK, SeqNum
<1>3. Outstanding(u) < Ks
  BY <1>1, <1>2, KsAssumption DEF CanSendI
<1>. QED BY <1>1, <1>3 DEF CanSendI, u

\* handleCheckpointAndAck notes a poll.
LEMMA CheckpointPoll ==
    ASSUME NEW x \in StationState, NEW m \in Wire
    PROVE  LET y == CheckpointAndAck(x, m)
           IN  /\ (y.up <=> x.up) /\ (y.rejpend <=> x.rejpend)
               /\ (y.idl <=> x.idl) /\ (y.peer_busy <=> x.peer_busy)
               /\ y.vr = x.vr /\ y.rej_actioned = x.rej_actioned
               /\ y.p_rcved <=> x.p_rcved \/ (m.pf /\ m.cmd)
               /\ ~m.pf => y.w = ProcessNR(x.w, m.nr)
<1>. DEFINE w1 == ProcessNR(x.w, m.nr)
            chk == m.pf /\ ~(ABM /\ m.cmd)
            w2 == IF chk THEN CheckpointRetransmit(w1) ELSE w1
            stopT3 == ABM /\ ((chk /\ CheckpointDue(w1)) \/ w1.nr = x.t3_expected_nr)
            t == IF stopT3 THEN "off" ELSE x.t3
            t2 == IF ABM THEN t ELSE "armed"
            a == x.acked + AckCount(x.w, m.nr)
            v == [x EXCEPT !.w = w2, !.acked = a, !.t3 = t]
            p == [v EXCEPT !.p_rcved = TRUE]
            q == [v EXCEPT !.f_rcved = TRUE, !.retry = 0, !.t1 = "off", !.t3 = t2]
            y == CheckpointAndAck(x, m)
<1>1. y = IF ~m.pf THEN v ELSE IF m.cmd THEN p ELSE q
  <2>1. v.t3 = t
    BY DEF StationState
  <2>. QED BY <2>1 DEF CheckpointAndAck
<1>2. ~m.pf => w2 = w1
  OBVIOUS
<1>. HIDE DEF w1, w2, t, t2, a, y
<1>3. /\ v.w = w2 /\ (v.up <=> x.up) /\ (v.rejpend <=> x.rejpend)
      /\ (v.idl <=> x.idl) /\ (v.peer_busy <=> x.peer_busy)
      /\ v.vr = x.vr /\ v.rej_actioned = x.rej_actioned
      /\ (v.p_rcved <=> x.p_rcved) /\ DOMAIN v = DOMAIN x
  BY DEF StationState
<1>. HIDE DEF v
<1>4. /\ (p.up <=> v.up) /\ (p.rejpend <=> v.rejpend)
      /\ (p.idl <=> v.idl) /\ (p.peer_busy <=> v.peer_busy)
      /\ p.vr = v.vr /\ p.rej_actioned = v.rej_actioned /\ p.p_rcved
  BY <1>3 DEF StationState
<1>5. /\ (q.up <=> v.up) /\ (q.rejpend <=> v.rejpend)
      /\ (q.idl <=> v.idl) /\ (q.peer_busy <=> v.peer_busy)
      /\ q.vr = v.vr /\ q.rej_actioned = v.rej_actioned
      /\ (q.p_rcved <=> v.p_rcved)
  BY <1>3 DEF StationState
<1>. HIDE DEF p, q
<1>6. CASE ~m.pf
  BY <1>1, <1>2, <1>3, <1>6 DEF y, w1
<1>7. CASE m.pf /\ m.cmd
  BY <1>1, <1>3, <1>4, <1>7 DEF y
<1>8. CASE m.pf /\ ~m.cmd
  BY <1>1, <1>3, <1>5, <1>8 DEF y
<1>. QED BY <1>6, <1>7, <1>8

\* What a frame changes beyond that.
Noticed(x, z, m) ==
    /\ (z.up <=> x.up) /\ (x.rejpend => z.rejpend) /\ (z.idl <=> x.idl)
    /\ ~x.peer_busy /\ m.type # "RNR" => ~z.peer_busy
    /\ z.p_rcved <=> x.p_rcved \/ (m.pf /\ m.cmd)

\* Of an I-frame.
LEMMA HandleIPoll ==
    ASSUME NEW s \in Station, NEW x, NEW y \in StationState, NEW m \in Wire, NEW low1,
           Noticed(x, y, m), y.vr = x.vr, y.rej_actioned = x.rej_actioned
    PROVE  LET z == HandleI(s, y, m, low1)
           IN  /\ Noticed(x, z, m)
               /\ m.ns = x.vr /\ low1 => z.busy
               /\ RejDue(x, m) => z.rejpend
               /\ m.ns # x.vr /\ ~RejDue(x, m) => z = y
<1>. DEFINE rej == IF y.rej_actioned = m.ns + 1 THEN 0 ELSE y.rej_actioned
            pb == y.peer_busy /\ ~m.pf
            b == y.busy \/ low1
            np == y.need_p \/ (~ABM /\ s = "A")
            vr == Inc(y.vr)
            dl == Append(y.delivered, m.data)
            un == y.unread + 1
            a == [y EXCEPT !.delivered = dl, !.unread = un, !.rej_actioned = rej,
                           !.peer_busy = pb, !.busy = b, !.vr = vr, !.need_p = np]
            k == y.vr + 1
            r == [y EXCEPT !.rej_actioned = k, !.rejpend = TRUE]
            z == HandleI(s, y, m, low1)
<1>1. RejDue(y, m) <=> RejDue(x, m)
  BY DEF RejDue
<1>2. z = IF m.ns = x.vr THEN a ELSE IF RejDue(x, m) THEN r ELSE y
  <2>1. AcceptI(s, y, m, low1) = a
    BY DEF AcceptI
  <2>. HIDE DEF a, r
  <2>. QED BY <1>1, <2>1 DEF HandleI, r, k
<1>3. RejDue(x, m) => m.ns # x.vr
  BY DEF RejDue
<1>4. (pb => y.peer_busy) /\ (low1 => b)
  OBVIOUS
<1>. HIDE DEF rej, pb, b, np, vr, dl, un, k, z
<1>5. /\ (a.up <=> y.up) /\ (a.rejpend <=> y.rejpend) /\ (a.idl <=> y.idl)
      /\ (a.peer_busy <=> pb) /\ (a.p_rcved <=> y.p_rcved) /\ (a.busy <=> b)
  BY DEF StationState
<1>6. /\ (r.up <=> y.up) /\ r.rejpend /\ (r.idl <=> y.idl)
      /\ (r.peer_busy <=> y.peer_busy) /\ (r.p_rcved <=> y.p_rcved)
  BY DEF StationState
<1>. HIDE DEF a, r
<1>7. CASE m.ns = x.vr
  <2>1. z = a
    BY <1>2, <1>7
  <2>2. Noticed(x, z, m) /\ (low1 => z.busy)
    BY <1>4, <1>5, <2>1 DEF Noticed
  <2>. QED BY <1>3, <1>7, <2>2 DEF z
<1>8. CASE m.ns # x.vr /\ RejDue(x, m)
  <2>1. z = r
    BY <1>2, <1>8
  <2>2. Noticed(x, z, m) /\ z.rejpend
    BY <1>6, <2>1 DEF Noticed
  <2>. QED BY <1>8, <2>2 DEF z
<1>9. CASE m.ns # x.vr /\ ~RejDue(x, m)
  BY <1>2, <1>9 DEF z
<1>. QED BY <1>7, <1>8, <1>9

\* Of an S-frame.
LEMMA HandleSPoll ==
    ASSUME NEW x, NEW y \in StationState, NEW m \in Wire, m.type \in SFun,
           Noticed(x, y, m)
    PROVE  LET z == HandleS(y, m)
           IN  Noticed(x, z, m) /\ (m.type = "REJ" /\ TWA => z = y)
<1>. DEFINE u == RejRetransmit(y.w)
            b1 == [y EXCEPT !.peer_busy = FALSE]
            b2 == [y EXCEPT !.peer_busy = TRUE]
            r == [y EXCEPT !.w = u]
            z == HandleS(y, m)
<1>1. z = IF m.type = "RR" THEN b1 ELSE IF m.type = "RNR" THEN b2
          ELSE IF TWA THEN y ELSE r
  BY DEF HandleS, SFun
<1>. HIDE DEF u, z
<1>2. /\ (b1.up <=> y.up) /\ (b1.rejpend <=> y.rejpend) /\ (b1.idl <=> y.idl)
      /\ ~b1.peer_busy /\ (b1.p_rcved <=> y.p_rcved)
  BY DEF StationState
<1>3. /\ (b2.up <=> y.up) /\ (b2.rejpend <=> y.rejpend) /\ (b2.idl <=> y.idl)
      /\ (b2.p_rcved <=> y.p_rcved)
  BY DEF StationState
<1>4. /\ (r.up <=> y.up) /\ (r.rejpend <=> y.rejpend) /\ (r.idl <=> y.idl)
      /\ (r.peer_busy <=> y.peer_busy) /\ (r.p_rcved <=> y.p_rcved)
  BY DEF StationState
<1>. HIDE DEF b1, b2, r
<1>5. CASE m.type = "RR"
  BY <1>1, <1>2, <1>5 DEF Noticed, z
<1>6. CASE m.type = "RNR"
  BY <1>1, <1>3, <1>6 DEF Noticed, z
<1>7. CASE m.type = "REJ"
  BY <1>1, <1>4, <1>7 DEF Noticed, z
<1>. QED BY <1>5, <1>6, <1>7 DEF SFun

\* commonRx: unless it makes the station busy it ends no burst but by a REJ that
\* is due, and where it raises no event it has noted no poll and left the burst
\* as it was.
LEMMA CommonRxPoll ==
    ASSUME NEW s \in Station, NEW x \in StationState, NEW m \in Wire,
           x.up, ~x.frmr, PeerConsistent(x.w, x.acked), IsNRValid(x.w, m.nr)
    PROVE  LET z == CommonRx(s, x, m)
               f == RxFlags(x, m, LowAfterAck(x, m))
           IN  /\ Noticed(x, z, m)
               /\ m.type # "RNR" /\ "URGENT" \in f => z.busy
               /\ "REJ_ACTED" \in f => z.rejpend
               /\ f = {} => ~m.pf /\ (CanSendI(x.w) => CanSendI(z.w))
<1>. DEFINE low1 == LowAfterAck(x, m)
            f == RxFlags(x, m, low1)
            y == CheckpointAndAck(x, m)
            v == IF m.type = "I" THEN HandleI(s, y, m, low1) ELSE HandleS(y, m)
            l == PoolState(low1, InUse(v))
            z == [v EXCEPT !.low = l]
<1>1. CommonRx(s, x, m) = z
  BY DEF CommonRx
<1>2. /\ y \in StationState /\ ~y.frmr /\ y.vr = x.vr /\ y.delivered = x.delivered
      /\ Received(x, y, m, AckCount(x.w, m.nr))
  BY CheckpointAndAckFacts
<1>3. /\ Noticed(x, y, m) /\ y.rej_actioned = x.rej_actioned
      /\ ~m.pf => y.w = ProcessNR(x.w, m.nr)
  BY CheckpointPoll DEF Noticed
<1>4. m.type \in {"I"} \union SFun /\ m.nr \in SeqNum
  BY DEF Wire
<1>5. v \in StationState
  BY <1>2, <1>4, HandleIFacts, HandleSFacts
<1>. HIDE DEF y, low1
<1>6. /\ Noticed(x, v, m)
      /\ m.type = "I" /\ m.ns = x.vr /\ low1 => v.busy
      /\ m.type = "I" /\ RejDue(x, m) => v.rejpend
      /\ \/ m.type = "I" /\ m.ns # x.vr /\ ~RejDue(x, m)
         \/ m.type = "REJ" /\ TWA
         => v = y
  <2>1. CASE m.type = "I"
    <3>1. v = HandleI(s, y, m, low1)
      BY <2>1
    <3>. HIDE DEF v
    <3>. QED BY <1>2, <1>3, <2>1, <3>1, HandleIPoll
  <2>2. CASE m.type # "I"
    <3>1. v = HandleS(y, m)
      BY <2>2
    <3>. HIDE DEF v
    <3>. QED BY <1>2, <1>3, <1>4, <2>2, <3>1, HandleSPoll
  <2>. QED BY <2>1, <2>2
<1>. HIDE DEF v, l
<1>7. /\ (z.up <=> v.up) /\ (z.rejpend <=> v.rejpend) /\ (z.idl <=> v.idl)
      /\ (z.peer_busy <=> v.peer_busy) /\ (z.p_rcved <=> v.p_rcved)
      /\ (z.busy <=> v.busy) /\ z.w = v.w
  BY <1>5 DEF StationState
<1>. HIDE DEF z
<1>8. Noticed(x, z, m)
  BY <1>6, <1>7 DEF Noticed
<1>9. m.type # "RNR" /\ "URGENT" \in f => z.busy
  BY <1>6, <1>7 DEF RxFlags
<1>10. "REJ_ACTED" \in f => z.rejpend
  BY <1>6, <1>7 DEF RxFlags
<1>11. ASSUME f = {} PROVE ~m.pf /\ (CanSendI(x.w) => CanSendI(z.w))
  <2>1. /\ ~m.pf /\ m.type # "RR" /\ m.type # "RNR"
        /\ ~(m.type = "REJ" /\ ~TWA) /\ ~(m.type = "I" /\ m.ns = x.vr)
        /\ ~(m.type = "I" /\ RejDue(x, m))
    <3>1. "WORK" \notin f /\ "URGENT" \notin f /\ "REJ_ACTED" \notin f
      BY <1>11
    <3>. HIDE DEF f
    <3>2. ASSUME f = RxFlags(x, m, low1)
          PROVE  /\ ~m.pf /\ m.type # "RR" /\ m.type # "RNR"
                 /\ ~(m.type = "REJ" /\ ~TWA) /\ ~(m.type = "I" /\ m.ns = x.vr)
                 /\ ~(m.type = "I" /\ RejDue(x, m))
      BY <3>1, <3>2 DEF RxFlags
    <3>. QED BY <3>2 DEF f
  <2>2. v = y
    BY <1>4, <1>6, <2>1 DEF SFun
  <2>3. z.w = ProcessNR(x.w, m.nr)
    BY <1>3, <1>7, <2>1, <2>2
  <2>4. x.w \in PeerWindow /\ x.acked \in Nat
    BY DEF StationState
  <2>. QED BY <1>4, <2>1, <2>3, <2>4, AckedCanSend
<1>. QED BY <1>1, <1>8, <1>9, <1>10, <1>11 DEF f, low1

\* A station takes a frame off the line: a poll comes with an event.
LEMMA RxFramePoll ==
    ASSUME IInv, PollInv, NoBusy', NEW s \in Station, RxFrame(s), UNCHANGED link
    PROVE  PollInv'
<1>. DEFINE x0 == st[s]
            o == Other(s)
            c == chan[s]
            m == Head(c)
            x == [x0 EXCEPT !.idl = FALSE]
            accepts == x.up /\ ~x.frmr
            y == IF accepts THEN CommonRx(s, x, m) ELSE x
            f == RxFlags(x, m, LowAfterAck(x, m))
<1>1. /\ PollOK(s, x0, tx[s], ev[s], c)
      /\ PollOK(o, st[o], tx[o], ev[o], chan[o])
      /\ st \in [Station -> StationState] /\ AroundOK
      /\ o \in Station /\ o # s
  BY PollFacts
<1>2. /\ x0 \in StationState /\ LinkOK(x0, st[o], c) /\ ~x0.frmr /\ c \in Seq(Wire)
      /\ st[o] \in StationState
  BY IInvFacts
<1>3. /\ c # << >> /\ chan' = [chan EXCEPT ![s] = Tail(c)]
      /\ st' = [st EXCEPT ![s] = y]
      /\ ev' = IF accepts /\ IsNRValid(x.w, m.nr) THEN Broadcast(s, f) ELSE ev
      /\ UNCHANGED <<tx, link>>
  BY <1>1 DEF RxFrame, AroundOK
<1>4. /\ x \in StationState /\ x.w = x0.w /\ (x.up <=> x0.up) /\ ~x.frmr
      /\ x.acked = x0.acked /\ ~x.idl /\ (x.rejpend <=> x0.rejpend)
      /\ (x.peer_busy <=> x0.peer_busy) /\ (x.p_rcved <=> x0.p_rcved)
  <2>1. x \in StationState
    BY <1>2 DEF StationState
  <2>. QED BY <1>2, <2>1 DEF StationState
<1>5. m \in Wire /\ m = c[1] /\ 1 \in 1..Len(c)
  BY <1>2, <1>3, TailFacts
<1>6. m.type # "RNR" /\ (~ABM /\ s = "A" => ~m.cmd /\ ~x0.p_rcved)
      /\ ~x0.peer_busy /\ "URGENT" \notin ev[s].flags
  BY <1>1, <1>5 DEF PollOK, Unpolled
<1>7. /\ st'[s] = y /\ st'[o] = st[o] /\ tx'[s] = tx[s] /\ tx'[o] = tx[o]
      /\ chan'[s] = Tail(c) /\ chan'[o] = chan[o]
  <2>1. chan \in [Station -> Seq(Wire)]
    BY <1>1 DEF AroundOK
  <2>. HIDE DEF y, c
  <2>. QED BY <1>1, <1>3, <2>1
<1>8. ~y.busy
  BY <1>7 DEF NoBusy
<1>9. PollOK(s, x0, tx[s], ev[s], Tail(c))
  BY <1>1, <1>2, <1>3, PollTail
<1>. HIDE DEF x, c, m, f
<1>10. CASE x.up
  <2>1. PeerConsistent(x.w, x.acked) /\ IsNRValid(x.w, m.nr)
    BY <1>2, <1>3, <1>4, <1>10, NRValid DEF LinkOK, SendSide, m
  <2>2. y = CommonRx(s, x, m) /\ ev' = Broadcast(s, f)
    BY <1>3, <1>4, <1>10, <2>1
  <2>3. /\ Noticed(x, y, m) /\ "URGENT" \notin f
        /\ "REJ_ACTED" \in f => y.rejpend
        /\ f = {} => ~m.pf /\ (CanSendI(x.w) => CanSendI(y.w))
    BY <1>4, <1>5, <1>6, <1>8, <1>10, <2>1, <2>2, CommonRxPoll DEF f
  <2>4. /\ ev'[o] = ev[o] /\ ev'[s].flags = ev[s].flags \union f
        /\ ev'[s].pending <=> ev[s].pending \/ f # {}
    BY <1>1, <2>2, BroadcastFacts DEF AroundOK
  <2>. HIDE DEF y
  <2>5. /\ y.up <=> x0.up
        /\ x0.rejpend => y.rejpend
        /\ ~y.peer_busy
        /\ ~ABM /\ s = "A" => ~y.p_rcved
        /\ "URGENT" \notin ev'[s].flags
        /\ "REJ_ACTED" \in ev'[s].flags => "REJ_ACTED" \in ev[s].flags \/ y.rejpend
    BY <1>4, <1>6, <2>3, <2>4 DEF Noticed
  <2>6. \/ ev'[s].pending
        \/ /\ y.p_rcved => x0.p_rcved
           /\ y.idl => x0.idl
           /\ CanSendI(x0.w) => CanSendI(y.w)
    BY <1>4, <2>3, <2>4 DEF Noticed
  <2>7. PollOK(s, y, tx[s], ev'[s], Tail(c))
    BY <1>9, <2>4, <2>5, <2>6, PollCarried
  <2>. QED BY <1>1, <1>3, <1>7, <2>4, <2>7, PollBecomes
<1>11. CASE ~x.up
  <2>1. y = x /\ ev' = ev
    BY <1>3, <1>11
  <2>. HIDE DEF y
  <2>2. PollOK(s, y, tx[s], ev'[s], Tail(c))
    BY <1>4, <1>6, <1>9, <2>1, PollCarried
  <2>. QED BY <1>1, <1>3, <1>7, <2>1, <2>2, PollBecomes
<1>. QED BY <1>10, <1>11

\* A step that makes no station busy keeps every poll in sight.
LEMMA NextPoll ==
    ASSUME IInv, PollInv, NoBusy, NoBusy', [Next]_vars
    PROVE  PollInv'
<1>1. CASE UNCHANGED vars
  BY <1>1 DEF vars, running, PollInv, PollOK, Attended, Unpolled, UsesIdle, ABM, TWA
<1>. SUFFICES ASSUME Next PROVE PollInv'
  BY <1>1
<1>2. UNCHANGED link
  BY DEF Next
<1>3. PICK s \in Station :
          \/ Write(s) \/ WriteSignal(s) \/ Read(s) \/ TxStep(s) \/ RxFrame(s)
          \/ Lose(s) \/ RxIdle(s) \/ T1Expire(s) \/ T3Expire(s)
  BY DEF Next, Step
<1>4. CASE Write(s)
  BY <1>2, <1>4, WritePoll
<1>5. CASE WriteSignal(s)
  BY <1>2, <1>5, WriteSignalPoll
<1>6. CASE Read(s)
  BY <1>2, <1>6, ReadPoll
<1>7. CASE TxStart(s)
  BY <1>2, <1>7, TxStartPoll
<1>8. CASE TxBurst(s)
  BY <1>2, <1>8, TxBurstPoll
<1>9. CASE TxBurstEnd(s)
  BY <1>2, <1>9, TxBurstEndPoll
<1>10. CASE TxTail(s)
  BY <1>2, <1>10, TxTailPoll
<1>11. CASE RxFrame(s)
  BY <1>2, <1>11, RxFramePoll
<1>12. CASE Lose(s)
  BY <1>2, <1>12, LosePoll
<1>13. CASE RxIdle(s)
  BY <1>2, <1>13, RxIdlePoll
<1>14. CASE T1Expire(s) \/ T3Expire(s)
  BY <1>2, <1>14, ExpirePoll
<1>. QED
  BY <1>3, <1>4, <1>5, <1>6, <1>7, <1>8, <1>9, <1>10, <1>11, <1>12, <1>13,
     <1>14 DEF TxStep

\* Nothing has been sent and nothing received.
LEMMA InitPoll == Init => PollInv
<1>. SUFFICES ASSUME Init, NEW s \in Station
              PROVE  PollOK(s, st[s], tx[s], ev[s], chan[s])
  BY DEF PollInv
<1>1. /\ ~st[s].peer_busy /\ ~st[s].p_rcved /\ ~st[s].rejpend
      /\ tx[s].cm = {} /\ ev[s].flags = {} /\ chan[s] = << >>
  BY DEF Init, InitStation
<1>. QED BY <1>1 DEF PollOK, Unpolled

\* As long as no station is busy, a TX thread that goes to sleep leaves no poll
\* unanswered, in NRM and ABM, half and full duplex, whatever is lost, however
\* the frames, events and timers fall between the steps of a burst.  A busy
\* station does: ioHdlc_core.c sets no P/F on its I-frames (1829), and an
\* I-frame that was sent suppresses the S-frame (1960).
THEOREM PollsAnswered == Spec /\ []NoBusy => []PollAnswered
<1>1. PollInv => PollAnswered
  BY DEF PollInv, PollOK, Attended, PollAnswered, Asleep
<1>2. IInv /\ PollInv /\ NoBusy /\ NoBusy' /\ [Next]_vars => PollInv'
  BY NextPoll
<1>. QED BY InitPoll, <1>1, <1>2, Invariance, PTL DEF Spec

(***************************************************************************)
(* A pool that holds whatever the applications will ever write, and one    *)
(* frame more for the reception, never runs low: no station gets busy.     *)
(***************************************************************************)
AmplePool == \A l \in Links : l.writes["A"] + l.writes["B"] + 1 < PoolLow

\* The frames of a station in use are of its own stream or of the other's.
Counts(x, n) ==
    /\ x.unread <= Got(x) /\ x.written <= n
    /\ ~x.up => x.w.i_pending_count = 0

Roomy(x, n) == ~x.busy /\ ~x.low /\ Counts(x, n)

Room == \A s \in Station : Roomy(st[s], Writes(s))

\* What a station may have in use.
Share(s) == Writes(s) + Writes(Other(s))

LEMMA ShareFacts ==
    ASSUME AmplePool, link \in Links, NEW s \in Station
    PROVE  /\ Writes(s) \in Nat /\ Writes(Other(s)) \in Nat /\ Share(s) \in Nat
           /\ \A low : \A n \in Int :
                 ~low /\ n <= Share(s) + 1 => ~PoolState(low, n)
<1>1. link \in Link /\ link.writes["A"] + link.writes["B"] + 1 < PoolLow
  BY LinksAssumption DEF AmplePool
<1>2. link.writes["A"] \in Nat /\ link.writes["B"] \in Nat
  BY <1>1 DEF Link
<1>3. Share(s) = link.writes["A"] + link.writes["B"]
      /\ Writes(s) \in Nat /\ Writes(Other(s)) \in Nat
  BY <1>2 DEF Share, Writes, Other, Station
<1>4. ASSUME NEW low, NEW n \in Int, ~low, n <= Share(s) + 1
      PROVE  ~PoolState(low, n)
  <2>1. ~(n >= PoolLow)
    BY <1>1, <1>2, <1>3, <1>4, PoolAssumption
  <2>. QED BY <1>4, <2>1 DEF PoolState
<1>. QED BY <1>2, <1>3, <1>4

LEMMA InUseBound ==
    ASSUME NEW x \in StationState, NEW o \in StationState, NEW c, LinkOK(x, o, c),
           NEW a \in Nat, NEW b \in Nat, Counts(x, a), o.written <= b
    PROVE  InUse(x) <= a + b /\ InUse(x) \in Nat
           /\ x.w.i_pending_count <= x.written
<1>1. /\ x.w \in PeerWindow /\ x.unread \in Nat /\ x.acked \in Nat
      /\ x.written \in Nat /\ Got(x) \in Nat /\ o.written \in Nat
  BY StationFacts DEF StationState
<1>2. /\ x.w.i_pending_count \in Nat
      /\ Len(x.w.i_retrans_q) \in Nat /\ Len(x.w.i_trans_q) \in Nat
  BY <1>1, PeerFacts
<1>3. x.w.i_pending_count <= x.written
  <2>1. CASE x.up
    <3>1. x.w.i_pending_count = Len(x.w.i_trans_q) + Len(x.w.i_retrans_q)
          /\ x.acked + (Len(x.w.i_retrans_q) + Len(x.w.i_trans_q)) = x.written
      BY <2>1 DEF LinkOK, SendSide, PeerConsistent, PendingOK, Queued
    <3>2. ASSUME NEW p \in Nat, NEW q \in Nat, NEW r \in Nat
          PROVE  p + q <= r + (q + p)
      OBVIOUS
    <3>. QED BY <1>1, <1>2, <3>1, <3>2, Zenon
  <2>2. CASE ~x.up
    <3>1. x.w.i_pending_count = 0
      BY <2>2 DEF Counts
    <3>2. ASSUME NEW p \in Nat PROVE 0 <= p
      OBVIOUS
    <3>. QED BY <1>1, <3>1, <3>2, Zenon
  <2>. QED BY <2>1, <2>2
<1>4. x.unread <= b
  <2>1. Got(x) <= o.written
    BY DEF LinkOK, ReceiveSide
  <2>. QED BY <1>1, <2>1 DEF Counts
<1>5. x.written <= a
  BY DEF Counts
<1>6. ASSUME NEW p \in Nat, NEW u \in Nat, NEW v \in Nat, p <= v, v <= a, u <= b
      PROVE  p + u <= a + b /\ p + u \in Nat
  BY <1>6
<1>7. InUse(x) = x.w.i_pending_count + x.unread
  BY DEF InUse
<1>8. InUse(x) <= a + b /\ InUse(x) \in Nat
  <2>. DEFINE p == x.w.i_pending_count
              v == x.written
  <2>1. p \in Nat /\ v \in Nat /\ p <= v /\ v <= a /\ InUse(x) = p + x.unread
        /\ x.unread \in Nat /\ x.unread <= b
    BY <1>1, <1>2, <1>3, <1>4, <1>5, <1>7
  <2>. HIDE DEF p, v
  <2>. QED BY <2>1
<1>. QED BY <1>3, <1>8

\* A station that only changes in timers, bits and the order of its queues.
SameRoom(x, y) ==
    /\ y.busy => x.busy
    /\ y.low => x.low
    /\ y.unread = x.unread /\ y.delivered = x.delivered /\ y.written = x.written
    /\ ~y.up => ~x.up /\ y.w = x.w

LEMMA SameRoomKept ==
    ASSUME NEW x, NEW y, NEW n, Roomy(x, n), SameRoom(x, y)
    PROVE  Roomy(y, n)
BY DEF Roomy, Counts, SameRoom, Got

\* It is enough to look at the station that takes the step.
LEMMA RoomBecomes ==
    ASSUME IInv, Room, NEW s \in Station, NEW y, UNCHANGED link,
           st' = [st EXCEPT ![s] = y], Roomy(y, Writes(s))
    PROVE  Room'
<1>. SUFFICES ASSUME NEW t \in Station PROVE Roomy(st[t], Writes(t))'
  BY DEF Room
<1>1. st'[t] = IF t = s THEN y ELSE st[t]
  BY IInvFacts
<1>2. Roomy(st'[t], Writes(t))
  BY <1>1 DEF Room
<1>. QED BY <1>2 DEF Roomy, Counts, Writes, Got

\* What is known of the station that takes a step.
LEMMA RoomFacts ==
    ASSUME AmplePool, IInv, Room, NEW s \in Station
    PROVE  /\ Roomy(st[s], Writes(s))
           /\ st[s] \in StationState /\ Other(s) \in Station
           /\ st[Other(s)].written <= Writes(Other(s))
           /\ InUse(st[s]) \in Nat /\ InUse(st[s]) <= Share(s)
           /\ st[s].w.i_pending_count <= st[s].written
           /\ Writes(s) \in Nat /\ Share(s) \in Nat /\ Writes(s) <= Share(s)
           /\ \A low : \A n \in Int :
                 ~low /\ n <= Share(s) + 1 => ~PoolState(low, n)
<1>1. /\ st[s] \in StationState /\ st[Other(s)] \in StationState
      /\ LinkOK(st[s], st[Other(s)], chan[s]) /\ link \in Links
  BY IInvFacts DEF AroundOK
<1>2. Other(s) \in Station
  BY TwoStations
<1>3. Roomy(st[s], Writes(s)) /\ Roomy(st[Other(s)], Writes(Other(s)))
  BY <1>2 DEF Room
<1>4. /\ Writes(s) \in Nat /\ Writes(Other(s)) \in Nat /\ Share(s) \in Nat
      /\ \A low : \A n \in Int : ~low /\ n <= Share(s) + 1 => ~PoolState(low, n)
  BY <1>1, ShareFacts
<1>5. Counts(st[s], Writes(s)) /\ st[Other(s)].written <= Writes(Other(s))
  BY <1>3 DEF Roomy, Counts
<1>6. InUse(st[s]) <= Writes(s) + Writes(Other(s)) /\ InUse(st[s]) \in Nat
      /\ st[s].w.i_pending_count <= st[s].written
  BY <1>1, <1>4, <1>5, InUseBound
<1>7. Writes(s) <= Share(s)
  BY <1>4 DEF Share
<1>. QED BY <1>1, <1>2, <1>3, <1>4, <1>5, <1>6, <1>7 DEF Share

\* The writer, and the reader.
LEMMA WriteRoom ==
    ASSUME AmplePool, IInv, Room, NEW s \in Station, Write(s), UNCHANGED link
    PROVE  Room'
<1>. DEFINE x == st[s]
            u == Enqueue(x.w, x.written + 1)
            l == PoolState(x.low, InUse(x) + 1)
            y == [x EXCEPT !.w = u, !.written = @ + 1, !.signal_tx = TRUE, !.low = l]
<1>1. x.up /\ x.written < Writes(s) /\ st' = [st EXCEPT ![s] = y]
  BY DEF Write
<1>2. /\ Roomy(x, Writes(s)) /\ x \in StationState /\ Writes(s) \in Nat
      /\ InUse(x) \in Nat /\ InUse(x) <= Share(s) /\ Share(s) \in Nat
      /\ \A low : \A n \in Int : ~low /\ n <= Share(s) + 1 => ~PoolState(low, n)
  BY RoomFacts
<1>. HIDE DEF x
<1>3. ~l
  <2>1. InUse(x) + 1 \in Int /\ InUse(x) + 1 <= Share(s) + 1
    BY <1>2
  <2>. QED BY <1>2, <2>1, Zenon DEF Roomy
<1>. HIDE DEF u, l
<1>4. /\ (y.busy <=> x.busy) /\ (y.low <=> l) /\ y.unread = x.unread
      /\ y.delivered = x.delivered /\ y.written = x.written + 1 /\ (y.up <=> x.up)
  BY <1>2 DEF StationState
<1>5. x.written + 1 <= Writes(s)
  BY <1>1, <1>2 DEF StationState
<1>. HIDE DEF y
<1>6. Roomy(y, Writes(s))
  BY <1>1, <1>2, <1>3, <1>4, <1>5 DEF Roomy, Counts, Got
<1>. QED BY <1>1, <1>6, RoomBecomes DEF x

LEMMA ReadRoom ==
    ASSUME AmplePool, IInv, Room, NEW s \in Station, Read(s), UNCHANGED link
    PROVE  Room'
<1>. DEFINE x == st[s]
            l == PoolState(x.low, InUse(x) - 1)
            y == [x EXCEPT !.unread = @ - 1, !.low = l]
<1>1. st' = [st EXCEPT ![s] = y]
  BY DEF Read
<1>2. /\ Roomy(x, Writes(s)) /\ x \in StationState
      /\ InUse(x) \in Nat /\ InUse(x) <= Share(s) /\ Share(s) \in Nat
      /\ \A low : \A n \in Int : ~low /\ n <= Share(s) + 1 => ~PoolState(low, n)
  BY RoomFacts
<1>. HIDE DEF x
<1>3. ~l
  <2>1. InUse(x) - 1 \in Int /\ InUse(x) - 1 <= Share(s) + 1
    BY <1>2
  <2>. QED BY <1>2, <2>1, Zenon DEF Roomy
<1>. HIDE DEF l
<1>4. /\ (y.busy <=> x.busy) /\ (y.low <=> l) /\ y.unread = x.unread - 1
      /\ y.delivered = x.delivered /\ y.written = x.written /\ (y.up <=> x.up)
      /\ y.w = x.w
  BY <1>2 DEF StationState
<1>5. x.unread - 1 <= x.unread /\ Got(x) \in Nat /\ x.unread \in Nat
  BY <1>2, StationFacts DEF StationState
<1>. HIDE DEF y
<1>6. Roomy(y, Writes(s))
  <2>1. x.unread <= Got(x)
    BY <1>2 DEF Roomy, Counts
  <2>2. y.unread <= Got(x)
    BY <1>4, <1>5, <2>1
  <2>. QED BY <1>2, <1>3, <1>4, <2>2 DEF Roomy, Counts, Got
<1>. QED BY <1>1, <1>6, RoomBecomes DEF x

\* The steps that touch neither the pool nor what is counted.
LEMMA QuietRoom ==
    ASSUME AmplePool, IInv, Room, NEW s \in Station, UNCHANGED link,
           \/ WriteSignal(s) \/ RxIdle(s) \/ Lose(s) \/ TxBurstEnd(s)
           \/ T1Expire(s) \/ T3Expire(s)
    PROVE  Room'
<1>. DEFINE x == st[s]
            a == [x EXCEPT !.signal_tx = FALSE]
            b == [x EXCEPT !.idl = UsesIdle]
            c == [x EXCEPT !.t1 = "expired"]
            d == [x EXCEPT !.t3 = "expired"]
<1>1. /\ Roomy(x, Writes(s)) /\ x \in StationState /\ st \in [Station -> StationState]
  BY RoomFacts, IInvFacts
<1>2. PICK y \in {x, a, b, c, d} : st' = [st EXCEPT ![s] = y]
  <2>1. CASE WriteSignal(s)
    BY <2>1 DEF WriteSignal
  <2>2. CASE RxIdle(s)
    BY <2>2 DEF RxIdle
  <2>3. CASE Lose(s) \/ TxBurstEnd(s)
    <3>1. st' = [st EXCEPT ![s] = x]
      BY <1>1, <2>3 DEF Lose, TxBurstEnd
    <3>. QED BY <3>1
  <2>4. CASE T1Expire(s)
    BY <2>4 DEF T1Expire
  <2>5. CASE T3Expire(s)
    BY <2>5 DEF T3Expire
  <2>. QED BY <2>1, <2>2, <2>3, <2>4, <2>5
<1>. HIDE DEF x
<1>3. SameRoom(x, x) /\ SameRoom(x, a) /\ SameRoom(x, b) /\ SameRoom(x, c)
      /\ SameRoom(x, d)
  BY <1>1 DEF StationState, SameRoom
<1>. HIDE DEF a, b, c, d
<1>4. Roomy(y, Writes(s))
  BY <1>1, <1>2, <1>3, SameRoomKept
<1>. QED BY <1>2, <1>4, RoomBecomes

\* A link that is given up keeps what has not been read yet.
LEMMA TimeoutRetryRoom ==
    ASSUME NEW x \in StationState, NEW n, Roomy(x, n), x.up,
           ~PoolState(x.low, x.unread)
    PROVE  Roomy(TimeoutRetry(x), n)
<1>. DEFINE u == ResetWindow(x.w)
            l == PoolState(x.low, x.unread)
            y == [x EXCEPT !.w = u, !.vr = 0, !.t3_expected_nr = 0,
                        !.rejpend = FALSE, !.peer_busy = FALSE, !.need_p = FALSE,
                        !.retry = 0, !.frmr = FALSE, !.t1 = "off", !.t3 = "off",
                        !.f_rcved = TRUE, !.up = FALSE, !.low = l]
            z == [x EXCEPT !.retry = @ + 1, !.need_p = TRUE, !.f_rcved = TRUE,
                           !.rej_actioned = 0]
<1>1. TimeoutRetry(x) \in {y, z}
  BY DEF TimeoutRetry, Abort
<1>2. u.i_pending_count = 0
  <2>1. x.w \in PeerWindow
    BY DEF StationState
  <2>. QED BY <2>1 DEF ResetWindow, PeerWindow
<1>. HIDE DEF u, l
<1>3. /\ (y.busy <=> x.busy) /\ (y.low <=> l) /\ y.unread = x.unread
      /\ y.delivered = x.delivered /\ y.written = x.written /\ ~y.up /\ y.w = u
  BY DEF StationState
<1>4. SameRoom(x, z)
  BY DEF StationState, SameRoom
<1>. HIDE DEF y, z
<1>5. Roomy(y, n)
  BY <1>2, <1>3 DEF Roomy, Counts, Got, l
<1>6. Roomy(z, n)
  BY <1>4, SameRoomKept
<1>. QED BY <1>1, <1>5, <1>6

LEMMA TxStartRoom ==
    ASSUME AmplePool, IInv, Room, NEW s \in Station, TxStart(s), UNCHANGED link
    PROVE  Room'
<1>. DEFINE x == st[s]
            f == IF tx[s].cm # {} THEN tx[s].cm ELSE ev[s].flags
            z == ServeT1(x, f)
            v == [z EXCEPT !.t3 = "off"]
            p == [v EXCEPT !.need_p = TRUE]
            y == ServeT3(z, f)
<1>1. x.up /\ st' = [st EXCEPT ![s] = y]
  BY DEF TxStart
<1>2. /\ Roomy(x, Writes(s)) /\ x \in StationState /\ ~x.frmr
      /\ InUse(x) \in Nat /\ InUse(x) <= Share(s) /\ Share(s) \in Nat
      /\ \A low : \A n \in Int : ~low /\ n <= Share(s) + 1 => ~PoolState(low, n)
  BY RoomFacts, IInvFacts
<1>. HIDE DEF x
<1>3. x.unread \in Nat /\ x.unread <= Share(s)
  <2>1. x.w \in PeerWindow /\ x.unread \in Nat
    BY <1>2 DEF StationState
  <2>2. x.w.i_pending_count \in Nat
    BY <2>1, PeerFacts
  <2>. QED BY <1>2, <2>1, <2>2 DEF InUse
<1>4. ~PoolState(x.low, x.unread)
  BY <1>2, <1>3 DEF Roomy
<1>5. Served(x, z) /\ Roomy(z, Writes(s)) /\ z.unread = x.unread
  <2>1. Served(x, x)
    BY <1>2 DEF Served
  <2>2. Served(x, TimeoutRetry(x)) /\ Roomy(TimeoutRetry(x), Writes(s))
    BY <1>1, <1>2, <1>4, TimeoutRetryServed, TimeoutRetryRoom
  <2>3. TimeoutRetry(x).unread = x.unread
    BY <1>2 DEF TimeoutRetry, Abort, StationState
  <2>. QED BY <1>2, <2>1, <2>2, <2>3 DEF ServeT1
<1>. HIDE DEF z
<1>6. z \in StationState
  BY <1>5 DEF Served
<1>7. y = z \/ y = p \/ y = v \/ (z.up /\ y = TimeoutRetry(v))
  BY DEF ServeT3
<1>8. v \in StationState /\ SameRoom(z, v) /\ v.unread = z.unread /\ (v.up <=> z.up)
  <2>1. v \in StationState
    BY <1>6 DEF StationState, Timer
  <2>. QED BY <1>6, <2>1 DEF StationState, SameRoom
<1>. HIDE DEF v
<1>9. SameRoom(v, p)
  BY <1>8 DEF StationState, SameRoom
<1>. HIDE DEF p, y
<1>10. Roomy(v, Writes(s)) /\ Roomy(p, Writes(s))
  BY <1>5, <1>8, <1>9, SameRoomKept
<1>11. ASSUME z.up PROVE Roomy(TimeoutRetry(v), Writes(s))
  <2>1. ~PoolState(v.low, v.unread)
    BY <1>2, <1>3, <1>5, <1>8, <1>10 DEF Roomy
  <2>. QED BY <1>8, <1>10, <1>11, <2>1, TimeoutRetryRoom
<1>12. Roomy(y, Writes(s))
  BY <1>5, <1>7, <1>10, <1>11
<1>. QED BY <1>1, <1>12, RoomBecomes DEF x, y, z

\* Sending touches windows, timers and bits.
LEMMA AfterSendRoom ==
    ASSUME NEW x \in StationState, NEW s \in Station, NEW pf \in BOOLEAN, x.up
    PROVE  SameRoom(x, AfterSend(s, x, pf))
<1>. DEFINE a == [x EXCEPT !.f_rcved = FALSE, !.need_p = FALSE, !.t1 = "armed",
                          !.t3 = IF ABM THEN @ ELSE "off"]
            b == [x EXCEPT !.p_rcved = FALSE]
<1>1. AfterSend(s, x, pf) \in {x, a, b}
  BY DEF AfterSend
<1>2. SameRoom(x, x) /\ SameRoom(x, a) /\ SameRoom(x, b)
  BY DEF StationState, SameRoom
<1>. HIDE DEF a, b
<1>. QED BY <1>1, <1>2

LEMMA TxBurstRoom ==
    ASSUME AmplePool, IInv, Room, NEW s \in Station, TxBurst(s), UNCHANGED link
    PROVE  Room'
<1>. DEFINE x == st[s]
            pf == PFOnIFrame(s)
            u == SendIFrame(x.w, Checkpointed(s, pf))
            v == [x EXCEPT !.w = u]
            z == AfterSend(s, v, pf)
            t == [z EXCEPT !.t3 = "armed", !.t3_expected_nr = z.w.vs]
            y == IF ABM THEN t ELSE z
<1>1. tx[s].pc = "burst" /\ st' = [st EXCEPT ![s] = y] /\ CanSendI(x.w)
  BY DEF TxBurst, BurstGoesOn
<1>2. /\ Roomy(x, Writes(s)) /\ x \in StationState /\ x.up
      /\ LinkOK(x, st[Other(s)], chan[s])
  BY <1>1, RoomFacts, IInvFacts
<1>3. pf \in BOOLEAN /\ Checkpointed(s, pf) \in BOOLEAN
  BY FlagTypes
<1>4. u \in PeerWindow
  <2>1. PeerConsistent(x.w, x.acked) /\ x.w \in PeerWindow /\ x.acked \in Nat
    BY <1>2, StationFacts DEF LinkOK, SendSide
  <2>. QED BY <1>1, <1>3, <2>1, SendIFrameConsistent
<1>. HIDE DEF x, pf, u
<1>5. v \in StationState /\ SameRoom(x, v) /\ v.up
  <2>1. v \in StationState
    BY <1>2, <1>4 DEF StationState
  <2>. QED BY <1>2, <2>1 DEF StationState, SameRoom
<1>. HIDE DEF v
<1>6. z \in StationState /\ SameRoom(v, z) /\ z.up
  BY <1>3, <1>5, AfterSendFacts, AfterSendRoom DEF Alike
<1>. HIDE DEF z
<1>7. SameRoom(z, t) /\ SameRoom(z, z)
  BY <1>6 DEF StationState, SameRoom
<1>. HIDE DEF t
<1>8. Roomy(y, Writes(s))
  BY <1>2, <1>5, <1>6, <1>7, SameRoomKept
<1>. HIDE DEF y
<1>. QED BY <1>1, <1>8, RoomBecomes

LEMMA TxTailRoom ==
    ASSUME AmplePool, IInv, Room, NEW s \in Station, TxTail(s), UNCHANGED link
    PROVE  Room'
<1>. DEFINE x == st[s]
            fun == WantedS(s)
            pf == PFOnSFrame(s)
            u == SendSFrame(x.w, Checkpointed(s, pf))
            rej == x.rejpend /\ fun # "REJ"
            busy == x.busy /\ fun # "RR"
            v == [x EXCEPT !.w = u, !.rejpend = rej, !.busy = busy]
            y == AfterSend(s, v, pf)
<1>1. /\ tx[s].pc = "tail"
      /\ IF fun = "none" THEN st' = st ELSE st' = [st EXCEPT ![s] = y]
  BY DEF TxTail
<1>2. /\ Roomy(x, Writes(s)) /\ x \in StationState /\ x.up
      /\ st \in [Station -> StationState]
  BY <1>1, RoomFacts, IInvFacts
<1>3. pf \in BOOLEAN /\ Checkpointed(s, pf) \in BOOLEAN
  BY <1>2, FlagTypes
<1>4. CASE fun = "none"
  <2>1. st' = [st EXCEPT ![s] = x]
    BY <1>1, <1>2, <1>4
  <2>. QED BY <1>2, <2>1, RoomBecomes
<1>5. CASE fun # "none"
  <2>1. u \in PeerWindow
    <3>1. x.w \in PeerWindow
      BY <1>2 DEF StationState
    <3>2. x.w.vs \in SeqNum /\ x.w.vs_atlast_pf \in SeqNum
      BY <3>1, PeerFacts
    <3>. QED BY <3>1, <3>2 DEF SendSFrame, PeerWindow
  <2>2. rej \in BOOLEAN /\ busy \in BOOLEAN /\ (busy => x.busy)
    BY Zenon
  <2>. HIDE DEF x, pf, u, rej, busy
  <2>3. v \in StationState /\ SameRoom(x, v) /\ v.up
    <3>1. v \in StationState
      BY <1>2, <2>1, <2>2 DEF StationState
    <3>. QED BY <1>2, <2>2, <3>1 DEF StationState, SameRoom
  <2>. HIDE DEF v
  <2>4. Roomy(y, Writes(s))
    BY <1>2, <1>3, <2>3, AfterSendRoom, SameRoomKept
  <2>. QED BY <1>1, <1>5, <2>4, RoomBecomes
<1>. QED BY <1>4, <1>5

\* A frame that is accepted is one more to read.
LEMMA CommonRxRoom ==
    ASSUME NEW s \in Station, NEW x \in StationState, NEW m \in Wire, NEW n,
           x.up, ~x.frmr, PeerConsistent(x.w, x.acked), IsNRValid(x.w, m.nr),
           Roomy(x, n), ~LowAfterAck(x, m)
    PROVE  LET z == CommonRx(s, x, m)
           IN  Counts(z, n) /\ ~z.busy
               /\ \E v : z.low = PoolState(LowAfterAck(x, m), InUse(v))
                         /\ InUse(v) = InUse(z)
<1>. DEFINE low1 == LowAfterAck(x, m)
            y == CheckpointAndAck(x, m)
            rej == IF y.rej_actioned = m.ns + 1 THEN 0 ELSE y.rej_actioned
            pb == y.peer_busy /\ ~m.pf
            b == y.busy \/ low1
            np == y.need_p \/ (~ABM /\ s = "A")
            vr == Inc(y.vr)
            dl == Append(y.delivered, m.data)
            un == y.unread + 1
            a == [y EXCEPT !.delivered = dl, !.unread = un, !.rej_actioned = rej,
                           !.peer_busy = pb, !.busy = b, !.vr = vr, !.need_p = np]
            k == y.vr + 1
            r == [y EXCEPT !.rej_actioned = k, !.rejpend = TRUE]
            b1 == [y EXCEPT !.peer_busy = FALSE]
            b2 == [y EXCEPT !.peer_busy = TRUE]
            u == RejRetransmit(y.w)
            j == [y EXCEPT !.w = u]
            v == IF m.type = "I" THEN HandleI(s, y, m, low1) ELSE HandleS(y, m)
            l == PoolState(low1, InUse(v))
            z == [v EXCEPT !.low = l]
<1>1. CommonRx(s, x, m) = z
  BY DEF CommonRx
<1>2. /\ y \in StationState /\ ~y.frmr /\ Received(x, y, m, AckCount(x.w, m.nr))
      /\ y.vr = x.vr /\ y.delivered = x.delivered
  BY CheckpointAndAckFacts
<1>3. (y.busy <=> x.busy) /\ y.unread = x.unread /\ y.up /\ y.written = x.written
  <2>1. (y.busy <=> x.busy) /\ y.unread = x.unread
    BY DEF CheckpointAndAck, StationState
  <2>. QED BY <1>2, <2>1 DEF Received
<1>4. v \in StationState
  <2>1. m.type \in {"I"} \union SFun
    BY DEF Wire
  <2>. QED BY <1>2, <2>1, HandleIFacts, HandleSFacts
<1>5. v \in {a, r, y, b1, b2, j}
  BY DEF HandleI, AcceptI, HandleS, Wire, SFun
<1>6. y.delivered \in Seq(Nat) /\ m.data \in Nat /\ y.unread \in Nat
  BY <1>2 DEF StationState, Wire
<1>7. Len(dl) = Got(y) + 1 /\ un = y.unread + 1 /\ Got(y) \in Nat
  BY <1>6 DEF Got
<1>8. ~b
  BY <1>3 DEF Roomy
<1>. HIDE DEF y, rej, pb, b, np, vr, dl, un, k, u, v, low1
<1>9. /\ (a.busy <=> b) /\ a.unread = un /\ a.delivered = dl
      /\ a.written = y.written /\ (a.up <=> y.up)
  BY <1>2 DEF StationState
<1>10. SameRoom(y, r) /\ SameRoom(y, y) /\ SameRoom(y, b1) /\ SameRoom(y, b2)
       /\ SameRoom(y, j)
  BY <1>2, <1>3 DEF StationState, SameRoom
<1>. HIDE DEF a, r, b1, b2, j
<1>11. Counts(y, n) /\ ~y.busy
  BY <1>2, <1>3 DEF Roomy, Counts, Got
<1>12. Counts(a, n) /\ ~a.busy
  <2>1. y.unread + 1 <= Got(y) + 1
    BY <1>6, <1>7, <1>11 DEF Counts
  <2>. QED BY <1>3, <1>7, <1>8, <1>9, <1>11, <2>1 DEF Counts, Got
<1>13. Counts(v, n) /\ ~v.busy
  BY <1>3, <1>5, <1>10, <1>11, <1>12 DEF SameRoom, Counts, Got
<1>. HIDE DEF l
<1>14. /\ (z.busy <=> v.busy) /\ z.low = l /\ z.unread = v.unread /\ z.w = v.w
       /\ z.delivered = v.delivered /\ z.written = v.written /\ (z.up <=> v.up)
  BY <1>4 DEF StationState
<1>. HIDE DEF z
<1>15. Counts(z, n) /\ ~z.busy /\ InUse(v) = InUse(z)
  BY <1>13, <1>14 DEF Counts, Got, InUse
<1>. QED BY <1>1, <1>14, <1>15 DEF l, low1

LEMMA RxFrameRoom ==
    ASSUME AmplePool, IInv, Room, NEW s \in Station, RxFrame(s), UNCHANGED link
    PROVE  Room'
<1>. DEFINE x0 == st[s]
            o == st[Other(s)]
            c == chan[s]
            m == Head(c)
            x == [x0 EXCEPT !.idl = FALSE]
            y == CommonRx(s, x, m)
            low1 == LowAfterAck(x, m)
<1>1. /\ c # << >>
      /\ st' = [st EXCEPT ![s] = IF x.up /\ ~x.frmr THEN y ELSE x]
  BY DEF RxFrame
<1>2. /\ x0 \in StationState /\ o \in StationState /\ c \in Seq(Wire) /\ ~x0.frmr
      /\ LinkOK(x0, o, c) /\ st \in [Station -> StationState]
  BY IInvFacts
<1>3. /\ Roomy(x0, Writes(s)) /\ InUse(x0) \in Nat /\ InUse(x0) <= Share(s)
      /\ Share(s) \in Nat /\ Writes(s) \in Nat /\ o.written <= Writes(Other(s))
      /\ \A low : \A n \in Int : ~low /\ n <= Share(s) + 1 => ~PoolState(low, n)
  BY RoomFacts
<1>4. Writes(Other(s)) \in Nat /\ Share(s) = Writes(s) + Writes(Other(s))
  <2>1. link \in Links
    BY IInvFacts DEF AroundOK
  <2>. QED BY <2>1, ShareFacts DEF Share
<1>5. PICK w : Becomes(s, w)
  BY RxFrameOK
<1>. HIDE DEF x0, o, c
<1>6. x \in StationState /\ Alike(x0, x) /\ SameRoom(x0, x) /\ InUse(x) = InUse(x0)
  <2>1. x \in StationState
    BY <1>2 DEF StationState
  <2>. QED BY <1>2, <2>1 DEF StationState, Alike, SameRoom, InUse
<1>. HIDE DEF x, m
<1>7. Roomy(x, Writes(s))
  BY <1>3, <1>6, SameRoomKept
<1>8. CASE ~(x.up /\ ~x.frmr)
  BY <1>1, <1>7, <1>8, RoomBecomes
<1>9. CASE x.up /\ ~x.frmr
  <2>1. m \in Wire
    BY <1>1, <1>2, TailFacts DEF m
  <2>2. PeerConsistent(x.w, x.acked) /\ IsNRValid(x.w, m.nr)
    <3>1. x0.up /\ IsNRValid(x0.w, m.nr)
      BY <1>1, <1>2, <1>6, <1>9, NRValid DEF Alike, m
    <3>. QED BY <1>2, <1>6, <3>1 DEF Alike, LinkOK, SendSide
  <2>3. AckCount(x.w, m.nr) \in Nat
    BY <1>6, <1>9, <2>1, <2>2, CommonRxFacts
  <2>4. ~low1
    <3>1. /\ InUse(x) + 1 \in Int /\ InUse(x) + 1 <= Share(s) + 1
          /\ (InUse(x) + 1) - AckCount(x.w, m.nr) \in Int
          /\ (InUse(x) + 1) - AckCount(x.w, m.nr) <= Share(s) + 1
      BY <1>3, <1>6, <2>3
    <3>2. ~PoolState(x.low, InUse(x) + 1)
      BY <1>3, <1>7, <3>1, Zenon DEF Roomy
    <3>3. ~PoolState(PoolState(x.low, InUse(x) + 1),
                     (InUse(x) + 1) - AckCount(x.w, m.nr))
      BY <1>3, <3>1, <3>2, Zenon
    <3>4. low1 = PoolState(PoolState(x.low, InUse(x) + 1),
                           (InUse(x) + 1) - AckCount(x.w, m.nr))
      BY DEF LowAfterAck
    <3>. HIDE DEF low1
    <3>. QED BY <3>3, <3>4
  <2>. HIDE DEF low1
  <2>5. /\ Counts(y, Writes(s)) /\ ~y.busy
        /\ \E v : y.low = PoolState(low1, InUse(v)) /\ InUse(v) = InUse(y)
    BY <1>6, <1>7, <1>9, <2>1, <2>2, <2>4, CommonRxRoom DEF low1
  <2>. HIDE DEF y
  <2>6. st' = [st EXCEPT ![s] = y]
    BY <1>1, <1>9
  <2>7. w = y
    BY <1>2, <1>5, <2>6 DEF Becomes
  <2>8. y \in StationState /\ LinkOK(y, o, chan'[s])
    BY <1>5, <2>7 DEF Becomes, o
  <2>9. InUse(y) <= Writes(s) + Writes(Other(s)) /\ InUse(y) \in Nat
    BY <1>2, <1>3, <1>4, <2>5, <2>8, InUseBound
  <2>10. InUse(y) \in Int /\ InUse(y) <= Share(s) + 1
    BY <1>3, <1>4, <2>9
  <2>11. ~PoolState(low1, InUse(y))
    BY <1>3, <2>4, <2>10, Zenon
  <2>12. Roomy(y, Writes(s))
    BY <2>5, <2>11 DEF Roomy
  <2>. QED BY <2>6, <2>12, RoomBecomes
<1>. QED BY <1>8, <1>9

LEMMA NextRoom ==
    ASSUME AmplePool, IInv, Room, [Next]_vars
    PROVE  Room'
<1>1. CASE UNCHANGED vars
  BY <1>1 DEF vars, running, Room, Roomy, Counts, Writes, Got
<1>. SUFFICES ASSUME Next PROVE Room'
  BY <1>1
<1>2. UNCHANGED link
  BY DEF Next
<1>3. PICK s \in Station :
          \/ Write(s) \/ WriteSignal(s) \/ Read(s) \/ TxStep(s) \/ RxFrame(s)
          \/ Lose(s) \/ RxIdle(s) \/ T1Expire(s) \/ T3Expire(s)
  BY DEF Next, Step
<1>4. CASE Write(s)
  BY <1>2, <1>4, WriteRoom
<1>5. CASE Read(s)
  BY <1>2, <1>5, ReadRoom
<1>6. CASE TxStart(s)
  BY <1>2, <1>6, TxStartRoom
<1>7. CASE TxBurst(s)
  BY <1>2, <1>7, TxBurstRoom
<1>8. CASE TxTail(s)
  BY <1>2, <1>8, TxTailRoom
<1>9. CASE RxFrame(s)
  BY <1>2, <1>9, RxFrameRoom
<1>10. CASE \/ WriteSignal(s) \/ RxIdle(s) \/ Lose(s) \/ TxBurstEnd(s)
            \/ T1Expire(s) \/ T3Expire(s)
  BY <1>2, <1>10, QuietRoom
<1>. QED
  BY <1>3, <1>4, <1>5, <1>6, <1>7, <1>8, <1>9, <1>10 DEF TxStep

LEMMA InitRoom ==
    ASSUME AmplePool, Init
    PROVE  Room
<1>. SUFFICES ASSUME NEW s \in Station PROVE Roomy(st[s], Writes(s))
  BY DEF Room
<1>1. link \in Links /\ Writes(s) \in Nat
  <2>1. link \in Links
    BY DEF Init
  <2>. QED BY <2>1, ShareFacts
<1>2. /\ ~st[s].busy /\ ~st[s].low /\ st[s].unread = 0 /\ st[s].written = 0
      /\ st[s].delivered = << >> /\ st[s].up
  BY DEF Init, InitStation
<1>. QED BY <1>1, <1>2 DEF Roomy, Counts, Got

\* With a pool for all that is written no station gets busy, so that the
\* hypothesis of PollsAnswered holds and no poll is ever slept on.
THEOREM AmplePoolAnswers == AmplePool /\ Spec => []PollAnswered
<1>1. Room => NoBusy
  BY DEF Room, Roomy, NoBusy
<1>2. AmplePool /\ Init => Room
  BY InitRoom
<1>3. AmplePool /\ IInv /\ Room /\ [Next]_vars => Room'
  BY NextRoom
<1>4. AmplePool /\ Spec => []NoBusy
  <2>. SUFFICES ASSUME AmplePool PROVE Spec => []NoBusy
    OBVIOUS
  <2>1. Init => Room
    BY <1>2
  <2>2. IInv /\ Room /\ [Next]_vars => Room'
    BY <1>3
  <2>. QED BY <1>1, <2>1, <2>2, Invariance, PTL DEF Spec
<1>. QED BY <1>4, PollsAnswered, PTL

(***************************************************************************)
(* Turns.  The stations of a half-duplex NRM link transmit in turn: A      *)
(* until it has sent P, B from P to F.  Where no timer runs out before its *)
(* answer had time to arrive, the turn is with one station at most, and    *)
(* the mark (P or F) that passes it on is the last frame on the line.      *)
(***************************************************************************)
PatientLinks == \A l \in Links : l.mode = "NRM" /\ l.twa => l.maxEarly = 0

InTurns == TWA /\ ~ABM

Unmarked(c) == \A i \in 1..Len(c) : ~c[i].pf
MarkLast(c) == \A i \in 1..Len(c) : c[i].pf => i = Len(c)

\* Frames of a are commands, frames of b responses.  A mark that is lost ends
\* the turns until the reply timer gives a the line again.
TurnOK(a, b, toA, toB) ==
    /\ \A i \in 1..Len(toA) : ~toA[i].cmd
    /\ \A i \in 1..Len(toB) : toB[i].cmd
    /\ MarkLast(toA) /\ MarkLast(toB)
    /\ toA = << >> \/ toB = << >>
    /\ a.f_rcved => toA = << >> /\ Unmarked(toB) /\ ~b.p_rcved
    /\ b.p_rcved => toB = << >> /\ Unmarked(toA)
    /\ a.t1 = "expired" /\ ~a.f_rcved => toA = << >> /\ toB = << >> /\ ~b.p_rcved
    /\ ~a.p_rcved
    /\ b.up /\ b.t1 = "off" /\ b.t3 = "off"

Turn == InTurns => TurnOK(st["A"], st["B"], chan["A"], chan["B"])

\* Two states of a station that the turns do not tell apart.
SameTurn(x, y) ==
    /\ (y.f_rcved <=> x.f_rcved) /\ (y.p_rcved <=> x.p_rcved)
    /\ (y.up <=> x.up) /\ y.t1 = x.t1 /\ y.t3 = x.t3

\* The two stations by name.
LEMMA StationNames ==
    /\ "A" \in Station /\ "B" \in Station /\ Other("A") = "B" /\ Other("B") = "A"
    /\ \A s \in Station : s = "A" \/ s = "B"
BY DEF Station, Other

\* What the line looks like with its first frame gone, or one more sent.
LEMMA MarkTail ==
    ASSUME NEW c \in Seq(Wire), c # << >>, MarkLast(c)
    PROVE  /\ MarkLast(Tail(c)) /\ (Unmarked(c) => Unmarked(Tail(c)))
           /\ Head(c).pf => Tail(c) = << >>
           /\ (\A i \in 1..Len(c) : c[i].cmd) => \A i \in 1..Len(Tail(c)) : Tail(c)[i].cmd
           /\ (\A i \in 1..Len(c) : ~c[i].cmd) => \A i \in 1..Len(Tail(c)) : ~Tail(c)[i].cmd
<1>1. /\ Tail(c) \in Seq(Wire) /\ Len(Tail(c)) = Len(c) - 1 /\ Len(c) \in Nat \ {0}
      /\ \A i \in 1..Len(Tail(c)) : Tail(c)[i] = c[i + 1] /\ i + 1 \in 1..Len(c)
      /\ Head(c) = c[1] /\ 1 \in 1..Len(c)
  BY TailFacts
<1>2. MarkLast(Tail(c))
  <2>. SUFFICES ASSUME NEW i \in 1..Len(Tail(c)), Tail(c)[i].pf PROVE i = Len(Tail(c))
    BY DEF MarkLast
  <2>1. i + 1 = Len(c)
    BY <1>1 DEF MarkLast
  <2>2. Len(Tail(c)) = Len(c) - 1 /\ Len(c) \in Nat /\ i \in Int
    BY <1>1
  <2>. QED BY <2>1, <2>2
<1>3. Head(c).pf => Tail(c) = << >>
  <2>1. Head(c).pf => Len(c) = 1
    BY <1>1 DEF MarkLast
  <2>2. \A d \in Seq(Wire) : Len(d) = 0 => d = << >>
    OBVIOUS
  <2>3. Head(c).pf => Len(Tail(c)) = 0
    BY <1>1, <2>1
  <2>. QED BY <1>1, <2>2, <2>3, Zenon
<1>. QED BY <1>1, <1>2, <1>3, Zenon DEF Unmarked

LEMMA MarkAppend ==
    ASSUME NEW c \in Seq(Wire), NEW m \in Wire, Unmarked(c)
    PROVE  /\ MarkLast(Append(c, m)) /\ (~m.pf => Unmarked(Append(c, m)))
           /\ m.cmd /\ (\A i \in 1..Len(c) : c[i].cmd) =>
                  \A i \in 1..Len(Append(c, m)) : Append(c, m)[i].cmd
           /\ ~m.cmd /\ (\A i \in 1..Len(c) : ~c[i].cmd) =>
                  \A i \in 1..Len(Append(c, m)) : ~Append(c, m)[i].cmd
<1>1. /\ Len(Append(c, m)) = Len(c) + 1
      /\ \A i \in 1..Len(c) : Append(c, m)[i] = c[i]
      /\ Append(c, m)[Len(c) + 1] = m
      /\ \A i \in 1..Len(Append(c, m)) : i \in 1..Len(c) \/ i = Len(c) + 1
  BY AppendFacts
<1>. QED BY <1>1, Zenon DEF MarkLast, Unmarked

\* It is enough to look at what A and B become.
LEMMA TurnBecomes ==
    ASSUME UNCHANGED link,
           InTurns => TurnOK(st'["A"], st'["B"], chan'["A"], chan'["B"])
    PROVE  Turn'
BY DEF Turn, InTurns, TWA, ABM

\* A step that neither sends nor receives.
LEMMA TurnQuiet ==
    ASSUME Turn, st \in [Station -> StationState], UNCHANGED <<chan, link>>,
           NEW s \in Station, NEW y, st' = [st EXCEPT ![s] = y], SameTurn(st[s], y)
    PROVE  Turn'
<1>1. s = "A" \/ s = "B"
  BY StationNames
<1>2. CASE s = "A"
  <2>1. st'["A"] = y /\ st'["B"] = st["B"]
    BY <1>2, StationNames
  <2>2. InTurns => TurnOK(y, st["B"], chan["A"], chan["B"])
    BY <1>2 DEF Turn, TurnOK, SameTurn
  <2>. QED BY <2>1, <2>2, TurnBecomes
<1>3. CASE s = "B"
  <2>1. st'["B"] = y /\ st'["A"] = st["A"]
    BY <1>3, StationNames
  <2>2. InTurns => TurnOK(st["A"], y, chan["A"], chan["B"])
    BY <1>3 DEF Turn, TurnOK, SameTurn
  <2>. QED BY <2>1, <2>2, TurnBecomes
<1>. QED BY <1>1, <1>2, <1>3

\* What the invariants say of the stations by name.
LEMMA TurnFacts ==
    ASSUME IInv
    PROVE  /\ st \in [Station -> StationState] /\ chan \in [Station -> Seq(Wire)]
           /\ st["A"] \in StationState /\ st["B"] \in StationState
           /\ chan["A"] \in Seq(Wire) /\ chan["B"] \in Seq(Wire)
           /\ AroundOK
<1>1. "A" \in Station
  BY StationNames
<1>. QED BY <1>1, IInvFacts, StationNames DEF AroundOK

\* The writer, the reader, the silence of the line, the end of a burst.
LEMMA QuietTurn ==
    ASSUME IInv, Turn, UNCHANGED link, NEW s \in Station,
           Write(s) \/ WriteSignal(s) \/ Read(s) \/ RxIdle(s) \/ TxBurstEnd(s)
    PROVE  Turn'
<1>. DEFINE x == st[s]
            u == Enqueue(x.w, x.written + 1)
            k == x.written + 1
            l == PoolState(x.low, InUse(x) + 1)
            l2 == PoolState(x.low, InUse(x) - 1)
            n == x.unread - 1
            y1 == [x EXCEPT !.w = u, !.written = k, !.signal_tx = TRUE, !.low = l]
            y2 == [x EXCEPT !.signal_tx = FALSE]
            y3 == [x EXCEPT !.unread = n, !.low = l2]
            y4 == [x EXCEPT !.idl = UsesIdle]
<1>1. x \in StationState /\ st \in [Station -> StationState]
  BY IInvFacts
<1>2. chan' = chan
  BY DEF Write, WriteSignal, Read, RxIdle, TxBurstEnd
<1>3. \E y \in {x, y1, y2, y3, y4} : st' = [st EXCEPT ![s] = y]
  <2>1. TxBurstEnd(s) => st' = [st EXCEPT ![s] = x]
    BY <1>1 DEF TxBurstEnd
  <2>2. Write(s) => st' = [st EXCEPT ![s] = y1]
    BY <1>1 DEF Write, StationState
  <2>3. WriteSignal(s) => st' = [st EXCEPT ![s] = y2]
    BY DEF WriteSignal
  <2>4. Read(s) => st' = [st EXCEPT ![s] = y3]
    BY DEF Read
  <2>5. RxIdle(s) => st' = [st EXCEPT ![s] = y4]
    BY DEF RxIdle
  <2>. HIDE DEF y1, y2, y3, y4
  <2>. QED BY <2>1, <2>2, <2>3, <2>4, <2>5
<1>. HIDE DEF u, k, l, l2, n
<1>4. \A y \in {x, y1, y2, y3, y4} : SameTurn(x, y)
  BY <1>1 DEF StationState, SameTurn
<1>. HIDE DEF y1, y2, y3, y4
<1>. QED BY <1>1, <1>2, <1>3, <1>4, TurnQuiet

\* What sending P or F does to the turns.
LEMMA AfterSendTurn ==
    ASSUME NEW x \in StationState, NEW s \in Station, NEW pf \in BOOLEAN, ~ABM
    PROVE  LET z == AfterSend(s, x, pf)
           IN  /\ ~pf => SameTurn(x, z)
               /\ pf /\ s = "A" => /\ ~z.f_rcved /\ z.t1 = "armed" /\ z.t3 = "off"
                                   /\ (z.p_rcved <=> x.p_rcved) /\ (z.up <=> x.up)
               /\ pf /\ s = "B" => /\ ~z.p_rcved /\ (z.f_rcved <=> x.f_rcved)
                                   /\ (z.up <=> x.up) /\ z.t1 = x.t1 /\ z.t3 = x.t3
<1>. DEFINE a == [x EXCEPT !.f_rcved = FALSE, !.need_p = FALSE, !.t1 = "armed",
                           !.t3 = "off"]
            b == [x EXCEPT !.p_rcved = FALSE]
            z == AfterSend(s, x, pf)
<1>1. IsCommand(s) <=> s = "A"
  BY DEF IsCommand
<1>2. z = IF ~pf THEN x ELSE IF s = "A" THEN a ELSE b
  BY <1>1 DEF AfterSend, StationState
<1>3. /\ ~a.f_rcved /\ a.t1 = "armed" /\ a.t3 = "off"
      /\ (a.p_rcved <=> x.p_rcved) /\ (a.up <=> x.up)
  BY DEF StationState
<1>4. /\ ~b.p_rcved /\ (b.f_rcved <=> x.f_rcved)
      /\ (b.up <=> x.up) /\ b.t1 = x.t1 /\ b.t3 = x.t3
  BY DEF StationState
<1>. HIDE DEF a, b, z
<1>5. ~pf => SameTurn(x, z)
  BY <1>2 DEF SameTurn
<1>6. pf /\ s = "A" => z = a
  BY <1>2
<1>7. pf /\ s = "B" => z = b
  BY <1>2
<1>. QED BY <1>3, <1>4, <1>5, <1>6, <1>7 DEF z

\* The station that sends has the turn; P and F pass it on.
LEMMA SentTurn ==
    ASSUME IInv, Turn, InTurns, UNCHANGED link, NEW s \in Station, SendOpportunity(s),
           NEW m \in Wire, m.cmd <=> IsCommand(s), NEW v \in StationState,
           SameTurn(st[s], v), NEW y, SameTurn(AfterSend(s, v, m.pf), y),
           st' = [st EXCEPT ![s] = y],
           chan' = [chan EXCEPT ![Other(s)] = Append(@, m)]
    PROVE  Turn'
<1>. DEFINE a == st["A"]
            b == st["B"]
            z == AfterSend(s, v, m.pf)
<1>1. /\ st \in [Station -> StationState] /\ chan \in [Station -> Seq(Wire)]
      /\ chan["A"] \in Seq(Wire) /\ chan["B"] \in Seq(Wire)
  BY TurnFacts
<1>2. TurnOK(a, b, chan["A"], chan["B"]) /\ ~ABM /\ TWA
  BY DEF Turn, InTurns
<1>3. m.pf \in BOOLEAN
  BY DEF Wire
<1>4. s = "A" \/ s = "B"
  BY StationNames
<1>5. CASE s = "A"
  <2>1. /\ st'["A"] = y /\ st'["B"] = b /\ chan'["A"] = chan["A"]
        /\ chan'["B"] = Append(chan["B"], m)
    BY <1>1, <1>5, StationNames
  <2>2. a.f_rcved /\ m.cmd
    BY <1>2, <1>5 DEF SendOpportunity, IsCommand
  <2>3. /\ MarkLast(Append(chan["B"], m))
        /\ ~m.pf => Unmarked(Append(chan["B"], m))
        /\ \A i \in 1..Len(Append(chan["B"], m)) : Append(chan["B"], m)[i].cmd
    BY <1>1, <1>2, <2>2, MarkAppend DEF TurnOK
  <2>4. /\ ~m.pf => SameTurn(v, z)
        /\ m.pf => ~z.f_rcved /\ z.t1 = "armed" /\ (z.p_rcved <=> v.p_rcved)
    BY <1>2, <1>3, <1>5, AfterSendTurn
  <2>. HIDE DEF z
  <2>5. /\ ~m.pf => (y.f_rcved <=> a.f_rcved) /\ y.t1 = a.t1
        /\ m.pf => ~y.f_rcved /\ y.t1 = "armed"
        /\ y.p_rcved <=> a.p_rcved
    BY <1>5, <2>4 DEF SameTurn, z
  <2>. DEFINE c == Append(chan["B"], m)
  <2>. HIDE DEF c, a, b
  <2>6. TurnOK(y, b, chan["A"], c)
    BY <1>2, <2>2, <2>3, <2>5 DEF TurnOK, c
  <2>. QED BY <2>1, <2>6, TurnBecomes DEF c, b
<1>6. CASE s = "B"
  <2>1. /\ st'["B"] = y /\ st'["A"] = a /\ chan'["B"] = chan["B"]
        /\ chan'["A"] = Append(chan["A"], m)
    BY <1>1, <1>6, StationNames
  <2>2. b.p_rcved /\ ~m.cmd
    BY <1>2, <1>6 DEF SendOpportunity, IsCommand
  <2>3. /\ MarkLast(Append(chan["A"], m))
        /\ ~m.pf => Unmarked(Append(chan["A"], m))
        /\ \A i \in 1..Len(Append(chan["A"], m)) : ~Append(chan["A"], m)[i].cmd
    BY <1>1, <1>2, <2>2, MarkAppend DEF TurnOK
  <2>4. /\ ~m.pf => SameTurn(v, z)
        /\ m.pf => ~z.p_rcved /\ (z.up <=> v.up) /\ z.t1 = v.t1 /\ z.t3 = v.t3
    BY <1>2, <1>3, <1>6, AfterSendTurn
  <2>. HIDE DEF z
  <2>5. /\ ~m.pf => (y.p_rcved <=> b.p_rcved)
        /\ m.pf => ~y.p_rcved
        /\ (y.up <=> b.up) /\ y.t1 = b.t1 /\ y.t3 = b.t3
    BY <1>6, <2>4 DEF SameTurn, z
  <2>. DEFINE c == Append(chan["A"], m)
  <2>. HIDE DEF c, a, b
  <2>6. TurnOK(a, y, c, chan["B"])
    BY <1>2, <2>2, <2>3, <2>5 DEF TurnOK, c
  <2>. QED BY <2>1, <2>6, TurnBecomes DEF c, a
<1>. QED BY <1>4, <1>5, <1>6

\* An I-frame of the burst.
LEMMA TxBurstTurn ==
    ASSUME IInv, Turn, NEW s \in Station, TxBurst(s), UNCHANGED link
    PROVE  Turn'
<1>. DEFINE x == st[s]
            pf == PFOnIFrame(s)
            chk == Checkpointed(s, pf)
            cmd == IsCommand(s)
            f == NumberedHead(x.w)
            u == SendIFrame(x.w, chk)
            v == [x EXCEPT !.w = u]
            z == AfterSend(s, v, pf)
            y == IF ABM THEN [z EXCEPT !.t3 = "armed", !.t3_expected_nr = z.w.vs]
                 ELSE z
            m == [type |-> "I", cmd |-> cmd, pf |-> pf, nr |-> x.vr,
                  ns |-> f.ns, data |-> f.data]
<1>. SUFFICES ASSUME InTurns PROVE Turn'
  BY DEF Turn, InTurns, TWA, ABM
<1>1. /\ tx[s].pc = "burst" /\ BurstGoesOn(s)
      /\ st' = [st EXCEPT ![s] = y]
      /\ chan' = [chan EXCEPT ![Other(s)] = Append(@, m)]
  BY DEF TxBurst
<1>2. /\ x \in StationState /\ x.up /\ LinkOK(x, st[Other(s)], chan[s])
  BY <1>1, IInvFacts
<1>3. CanSendI(x.w) /\ SendOpportunity(s) /\ ~ABM
  BY <1>1 DEF BurstGoesOn, InTurns
<1>4. pf \in BOOLEAN /\ chk \in BOOLEAN /\ cmd \in BOOLEAN
  BY FlagTypes
<1>5. x.w \in PeerWindow /\ x.acked \in Nat /\ x.vr \in SeqNum
      /\ PeerConsistent(x.w, x.acked)
  BY <1>2, StationFacts DEF LinkOK, SendSide
<1>6. u \in PeerWindow
  BY <1>3, <1>4, <1>5, SendIFrameConsistent
<1>7. f.data \in Nat /\ f.ns \in SeqNum
  <2>1. /\ f.data \in 1..(x.acked + Queued(x.w)) /\ f.ns = (f.data - 1) % Mod
        /\ Queued(x.w) \in Nat
    BY <1>2, <1>3, <1>4, <1>5, SentFrame, StationFacts
  <2>2. f.data \in Nat /\ f.data - 1 \in Int
    BY <1>5, <2>1
  <2>. QED BY <2>1, <2>2, ModRange
<1>. HIDE DEF u, f, pf, cmd
<1>8. m \in Wire /\ (m.cmd <=> cmd) /\ (m.pf <=> pf) /\ m.pf = pf
  BY <1>4, <1>5, <1>7 DEF Wire
<1>9. v \in StationState
  BY <1>2, <1>6 DEF StationState
<1>10. SameTurn(x, v)
  BY <1>2 DEF StationState, SameTurn
<1>. HIDE DEF m, v
<1>11. y = AfterSend(s, v, m.pf) /\ SameTurn(AfterSend(s, v, m.pf), y)
  BY <1>3, <1>8 DEF SameTurn
<1>. HIDE DEF y
<1>. QED BY <1>1, <1>3, <1>8, <1>9, <1>10, <1>11, SentTurn DEF cmd

\* The S-frame behind it.
LEMMA TxTailTurn ==
    ASSUME IInv, Turn, NEW s \in Station, TxTail(s), UNCHANGED link
    PROVE  Turn'
<1>. DEFINE x == st[s]
            fun == WantedS(s)
            pf == PFOnSFrame(s)
            chk == Checkpointed(s, pf)
            cmd == IsCommand(s)
            u == SendSFrame(x.w, chk)
            rej == x.rejpend /\ fun # "REJ"
            busy == x.busy /\ fun # "RR"
            v == [x EXCEPT !.w = u, !.rejpend = rej, !.busy = busy]
            y == AfterSend(s, v, pf)
            m == [type |-> fun, cmd |-> cmd, pf |-> pf, nr |-> x.vr,
                  ns |-> NoNS, data |-> 0]
<1>. SUFFICES ASSUME InTurns PROVE Turn'
  BY DEF Turn, InTurns, TWA, ABM
<1>1. IF fun = "none" THEN UNCHANGED <<st, chan>>
      ELSE /\ st' = [st EXCEPT ![s] = y]
           /\ chan' = [chan EXCEPT ![Other(s)] = Append(@, m)]
  BY DEF TxTail
<1>2. x \in StationState /\ st \in [Station -> StationState]
  BY IInvFacts
<1>3. CASE fun = "none"
  <2>1. st' = [st EXCEPT ![s] = x] /\ UNCHANGED <<chan, link>>
    BY <1>1, <1>2, <1>3
  <2>2. SameTurn(x, x)
    BY DEF SameTurn
  <2>. QED BY <1>2, <2>1, <2>2, TurnQuiet
<1>4. CASE fun # "none"
  <2>1. pf \in BOOLEAN /\ chk \in BOOLEAN /\ cmd \in BOOLEAN
    BY <1>2, FlagTypes
  <2>2. SendOpportunity(s) /\ fun \in SFun
    BY <1>4 DEF WantedS, SFun
  <2>3. x.w \in PeerWindow /\ x.vr \in SeqNum
    BY <1>2 DEF StationState
  <2>4. u \in PeerWindow
    <3>1. x.w.vs \in SeqNum /\ x.w.vs_atlast_pf \in SeqNum
      BY <2>3, PeerFacts
    <3>. QED BY <2>3, <3>1 DEF SendSFrame, PeerWindow
  <2>5. rej \in BOOLEAN /\ busy \in BOOLEAN
    BY Zenon
  <2>. HIDE DEF fun, u, pf, cmd, rej, busy
  <2>6. m \in Wire /\ (m.cmd <=> cmd) /\ m.pf = pf
    BY <2>1, <2>2, <2>3 DEF Wire
  <2>7. v \in StationState
    BY <1>2, <2>4, <2>5 DEF StationState
  <2>8. SameTurn(x, v)
    BY <1>2 DEF StationState, SameTurn
  <2>. HIDE DEF m, v
  <2>9. y = AfterSend(s, v, m.pf) /\ SameTurn(AfterSend(s, v, m.pf), y)
    BY <2>6 DEF SameTurn
  <2>. HIDE DEF y
  <2>. QED BY <1>1, <1>4, <2>2, <2>6, <2>7, <2>8, <2>9, SentTurn DEF cmd
<1>. QED BY <1>3, <1>4

\* What the timers do to a station of an NRM link.
LEMMA TimersNRM ==
    ASSUME NEW x \in StationState, x.up, ~x.frmr, NEW f, ~ABM
    PROVE  LET y == ServeT3(ServeT1(x, f), f)
           IN  /\ y.p_rcved <=> x.p_rcved
               /\ x.t1 = "off" /\ x.t3 = "off" => y = x
               /\ \/ /\ x.t1 = "expired" /\ "C_RPLYTMO" \in f
                     /\ y.f_rcved /\ (y.up => y.need_p)
                  \/ /\ ~(x.t1 = "expired" /\ "C_RPLYTMO" \in f)
                     /\ (y.f_rcved <=> x.f_rcved) /\ y.t1 = x.t1 /\ y.up
                     /\ x.need_p => y.need_p
                     /\ IF x.t3 = "expired" /\ "T3_TMO" \in f
                        THEN y.need_p ELSE y.t3 = x.t3
               /\ y.t3 # "off" => y.t3 = x.t3
               /\ y.rejpend => x.rejpend
               /\ y.signal_tx <=> x.signal_tx
<1>. DEFINE u == ResetWindow(x.w)
            l == PoolState(x.low, x.unread)
            k == x.retry + 1
            a == [x EXCEPT !.w = u, !.vr = 0, !.t3_expected_nr = 0,
                           !.rejpend = FALSE, !.peer_busy = FALSE, !.need_p = FALSE,
                           !.retry = 0, !.frmr = FALSE, !.t1 = "off", !.t3 = "off",
                           !.f_rcved = TRUE, !.up = FALSE, !.low = l]
            b == [x EXCEPT !.retry = k, !.need_p = TRUE, !.f_rcved = TRUE,
                           !.rej_actioned = 0]
            z == ServeT1(x, f)
            v == [z EXCEPT !.t3 = "off"]
            n == [v EXCEPT !.need_p = TRUE]
            y == ServeT3(z, f)
<1>1. z = IF "C_RPLYTMO" \in f /\ x.t1 = "expired"
          THEN (IF x.retry >= RetryMax THEN a ELSE b) ELSE x
  <2>1. TimeoutRetry(x) = IF x.retry >= RetryMax THEN a ELSE b
    BY DEF TimeoutRetry, Abort
  <2>. HIDE DEF a, b
  <2>. QED BY <2>1 DEF ServeT1
<1>2. y = IF ~z.up \/ "T3_TMO" \notin f \/ z.t3 # "expired" THEN z ELSE n
  <2>. HIDE DEF z
  <2>. QED BY DEF ServeT3
<1>. HIDE DEF u, l, k
<1>3. /\ a.f_rcved /\ ~a.up /\ (a.p_rcved <=> x.p_rcved) /\ a.t3 = "off" /\ ~a.rejpend
      /\ (a.signal_tx <=> x.signal_tx)
  BY DEF StationState
<1>4. /\ b.f_rcved /\ b.need_p /\ b.up /\ (b.p_rcved <=> x.p_rcved) /\ b.t3 = x.t3
      /\ (b.rejpend <=> x.rejpend) /\ (b.signal_tx <=> x.signal_tx)
      /\ DOMAIN b = DOMAIN x /\ b.t1 = x.t1
  BY DEF StationState
<1>. HIDE DEF a, b
<1>5. z.up => DOMAIN z = DOMAIN x
  BY <1>1, <1>3, <1>4
<1>. HIDE DEF z
<1>6. z.up => /\ n.need_p /\ n.t3 = "off" /\ n.t1 = z.t1 /\ (n.f_rcved <=> z.f_rcved)
              /\ (n.p_rcved <=> z.p_rcved) /\ (n.up <=> z.up)
              /\ (n.rejpend <=> z.rejpend) /\ (n.signal_tx <=> z.signal_tx)
  BY <1>5 DEF StationState
<1>. HIDE DEF n, y
<1>7. CASE "C_RPLYTMO" \in f /\ x.t1 = "expired"
  <2>1. z = a \/ z = b
    BY <1>1, <1>7
  <2>. QED BY <1>2, <1>3, <1>4, <1>6, <1>7, <2>1 DEF y, z
<1>8. CASE ~("C_RPLYTMO" \in f /\ x.t1 = "expired")
  <2>1. z = x
    BY <1>1, <1>8
  <2>. QED BY <1>2, <1>6, <1>8, <2>1 DEF y, z
<1>. QED BY <1>7, <1>8

\* A reply timer that has run out gives A the turn, when nobody has it.
LEMMA TxStartTurn ==
    ASSUME IInv, Turn, NEW s \in Station, TxStart(s), UNCHANGED link
    PROVE  Turn'
<1>. DEFINE x == st[s]
            f == IF tx[s].cm # {} THEN tx[s].cm ELSE ev[s].flags
            y == ServeT3(ServeT1(x, f), f)
<1>. SUFFICES ASSUME InTurns PROVE Turn'
  BY DEF Turn, InTurns, TWA, ABM
<1>1. x.up /\ st' = [st EXCEPT ![s] = y] /\ UNCHANGED <<chan, link>>
  BY DEF TxStart
<1>2. x \in StationState /\ ~x.frmr /\ st \in [Station -> StationState] /\ ~ABM
  BY IInvFacts DEF InTurns
<1>3. TurnOK(st["A"], st["B"], chan["A"], chan["B"])
  BY DEF Turn
<1>. HIDE DEF f
<1>4. /\ (y.p_rcved <=> x.p_rcved)
      /\ (x.t1 = "off" /\ x.t3 = "off" => y = x)
      /\ \/ x.t1 = "expired" /\ y.f_rcved
         \/ (y.f_rcved <=> x.f_rcved) /\ y.t1 = x.t1
  BY <1>1, <1>2, TimersNRM
<1>. HIDE DEF y
<1>5. CASE s = "A"
  <2>1. st'["A"] = y /\ st'["B"] = st["B"]
    BY <1>1, <1>2, <1>5, StationNames
  <2>2. TurnOK(y, st["B"], chan["A"], chan["B"])
    <3>1. CASE x.t1 = "expired" /\ y.f_rcved /\ ~x.f_rcved
      <4>1. chan["A"] = << >> /\ chan["B"] = << >> /\ ~st["B"].p_rcved
        BY <1>3, <1>5, <3>1 DEF TurnOK
      <4>2. Unmarked(chan["B"])
        BY <4>1 DEF Unmarked
      <4>. QED BY <1>3, <1>4, <1>5, <3>1, <4>1, <4>2 DEF TurnOK
    <3>2. CASE y.f_rcved /\ x.f_rcved
      BY <1>3, <1>4, <1>5, <3>2 DEF TurnOK
    <3>3. CASE (y.f_rcved <=> x.f_rcved) /\ y.t1 = x.t1
      BY <1>3, <1>4, <1>5, <3>3 DEF TurnOK
    <3>. QED BY <1>4, <3>1, <3>2, <3>3
  <2>. QED BY <1>1, <2>1, <2>2, TurnBecomes
<1>6. CASE s = "B"
  <2>1. y = x
    BY <1>3, <1>4, <1>6 DEF TurnOK
  <2>2. SameTurn(x, y)
    BY <2>1 DEF SameTurn
  <2>. QED BY <1>1, <1>2, <2>2, TurnQuiet
<1>. QED BY <1>5, <1>6, StationNames

\* Two states of a station of an NRM link that a frame without F may lead
\* from one to the other, as far as turns, polls and timers go.
Untouched(x, y) ==
    /\ (y.f_rcved <=> x.f_rcved) /\ (y.up <=> x.up) /\ y.t1 = x.t1 /\ y.t3 = x.t3
    /\ (y.p_rcved <=> x.p_rcved) /\ (y.signal_tx <=> x.signal_tx)
    /\ x.need_p => y.need_p
    /\ TWA => (y.rejpend <=> x.rejpend)

\* What commonRx does to a station of an NRM link: P is noted, F stops the
\* reply timer and starts T3.
LEMMA CommonRxNRM ==
    ASSUME NEW s \in Station, NEW x \in StationState, NEW m \in Wire, ~ABM,
           x.up, ~x.frmr, PeerConsistent(x.w, x.acked), IsNRValid(x.w, m.nr)
    PROVE  LET z == CommonRx(s, x, m)
           IN  /\ ~m.pf => Untouched(x, z)
               /\ m.pf /\ m.cmd =>
                      /\ (z.f_rcved <=> x.f_rcved) /\ z.t1 = x.t1 /\ z.t3 = x.t3
                      /\ z.p_rcved
               /\ m.pf /\ ~m.cmd =>
                      /\ z.f_rcved /\ z.t1 = "off" /\ z.t3 = "armed"
                      /\ (z.p_rcved <=> x.p_rcved)
               /\ (z.up <=> x.up) /\ (z.signal_tx <=> x.signal_tx)
               /\ x.need_p => z.need_p
               /\ TWA => (z.rejpend <=> x.rejpend)
<1>. DEFINE w1 == ProcessNR(x.w, m.nr)
            w2 == IF m.pf THEN CheckpointRetransmit(w1) ELSE w1
            k == x.acked + AckCount(x.w, m.nr)
            v == [x EXCEPT !.w = w2, !.acked = k, !.t3 = x.t3]
            p == [v EXCEPT !.p_rcved = TRUE]
            q == [v EXCEPT !.f_rcved = TRUE, !.retry = 0, !.t1 = "off", !.t3 = "armed"]
            y == CheckpointAndAck(x, m)
            low1 == LowAfterAck(x, m)
            rej == IF y.rej_actioned = m.ns + 1 THEN 0 ELSE y.rej_actioned
            pb == y.peer_busy /\ ~m.pf
            b == y.busy \/ low1
            np == y.need_p \/ (~ABM /\ s = "A")
            vr == Inc(y.vr)
            dl == Append(y.delivered, m.data)
            un == y.unread + 1
            ai == [y EXCEPT !.delivered = dl, !.unread = un, !.rej_actioned = rej,
                            !.peer_busy = pb, !.busy = b, !.vr = vr, !.need_p = np]
            j == y.vr + 1
            ri == [y EXCEPT !.rej_actioned = j, !.rejpend = TRUE]
            b1 == [y EXCEPT !.peer_busy = FALSE]
            b2 == [y EXCEPT !.peer_busy = TRUE]
            u == RejRetransmit(y.w)
            rs == [y EXCEPT !.w = u]
            h == IF m.type = "I" THEN HandleI(s, y, m, low1) ELSE HandleS(y, m)
            l == PoolState(low1, InUse(h))
            z == [h EXCEPT !.low = l]
<1>1. CommonRx(s, x, m) = z
  BY DEF CommonRx
<1>2. y \in StationState
  BY CheckpointAndAckFacts
<1>3. y = IF ~m.pf THEN v ELSE IF m.cmd THEN p ELSE q
  BY DEF CheckpointAndAck, StationState
<1>4. h \in StationState
  <2>1. m.type \in {"I"} \union SFun
    BY DEF Wire
  <2>2. /\ ~y.frmr /\ Received(x, y, m, AckCount(x.w, m.nr))
        /\ y.vr = x.vr /\ y.delivered = x.delivered
    BY CheckpointAndAckFacts
  <2>. HIDE DEF y, low1
  <2>. QED BY <1>2, <2>1, <2>2, HandleIFacts, HandleSFacts
<1>5. h \in {ai, y, b1, b2, rs} \/ (~TWA /\ h = ri)
  BY DEF HandleI, AcceptI, HandleS, Wire, SFun, RejDue
<1>. HIDE DEF w1, w2, k, y, low1, rej, pb, b, vr, dl, un, j, u, l
<1>6. /\ (v.f_rcved <=> x.f_rcved) /\ (v.up <=> x.up) /\ v.t1 = x.t1 /\ v.t3 = x.t3
      /\ (v.p_rcved <=> x.p_rcved) /\ (v.signal_tx <=> x.signal_tx)
      /\ (v.need_p <=> x.need_p) /\ (v.rejpend <=> x.rejpend) /\ DOMAIN v = DOMAIN x
  BY DEF StationState
<1>. HIDE DEF v
<1>7. /\ (p.f_rcved <=> v.f_rcved) /\ (p.up <=> v.up) /\ p.t1 = v.t1 /\ p.t3 = v.t3
      /\ p.p_rcved /\ (p.signal_tx <=> v.signal_tx)
      /\ (p.need_p <=> v.need_p) /\ (p.rejpend <=> v.rejpend)
  BY <1>6 DEF StationState
<1>8. /\ q.f_rcved /\ (q.up <=> v.up) /\ q.t1 = "off" /\ q.t3 = "armed"
      /\ (q.p_rcved <=> v.p_rcved) /\ (q.signal_tx <=> v.signal_tx)
      /\ (q.need_p <=> v.need_p) /\ (q.rejpend <=> v.rejpend)
  BY <1>6 DEF StationState
<1>9. Untouched(y, ai)
  BY <1>2 DEF StationState, Untouched
<1>10. /\ Untouched(y, y) /\ Untouched(y, b1) /\ Untouched(y, b2) /\ Untouched(y, rs)
       /\ ~TWA => Untouched(y, ri)
  BY <1>2 DEF StationState, Untouched
<1>. HIDE DEF p, q, ai, ri, b1, b2, rs
<1>11. Untouched(y, h)
  BY <1>5, <1>9, <1>10
<1>. HIDE DEF h
<1>12. Untouched(h, z)
  BY <1>4 DEF StationState, Untouched
<1>. HIDE DEF z
<1>13. Untouched(y, z)
  BY <1>11, <1>12 DEF Untouched
<1>14. CASE ~m.pf
  BY <1>1, <1>3, <1>6, <1>13, <1>14 DEF Untouched
<1>15. CASE m.pf /\ m.cmd
  BY <1>1, <1>3, <1>6, <1>7, <1>13, <1>15 DEF Untouched
<1>16. CASE m.pf /\ ~m.cmd
  BY <1>1, <1>3, <1>6, <1>8, <1>13, <1>16 DEF Untouched
<1>. QED BY <1>14, <1>15, <1>16

\* What a frame that is taken off the line does to a station of an NRM link.
LEMMA RxFrameNRM ==
    ASSUME IInv, NEW s \in Station, RxFrame(s), UNCHANGED link, ~ABM
    PROVE  LET x == st[s]
               m == Head(chan[s])
               y == st'[s]
           IN  /\ st' = [st EXCEPT ![s] = y] /\ chan[s] # << >>
               /\ chan'[s] = Tail(chan[s]) /\ chan'[Other(s)] = chan[Other(s)]
               /\ m \in Wire
               /\ ~m.pf => Untouched(x, y)
               /\ m.pf /\ m.cmd =>
                      /\ (y.f_rcved <=> x.f_rcved) /\ y.t1 = x.t1 /\ y.t3 = x.t3
                      /\ x.p_rcved => y.p_rcved
               /\ m.pf /\ ~m.cmd =>
                      /\ IF x.up THEN y.f_rcved /\ y.t1 = "off" /\ y.t3 = "armed"
                         ELSE Untouched(x, y)
                      /\ (y.p_rcved <=> x.p_rcved)
               /\ (y.up <=> x.up) /\ (y.signal_tx <=> x.signal_tx)
               /\ x.need_p => y.need_p
               /\ TWA => (y.rejpend <=> x.rejpend)
<1>. DEFINE x0 == st[s]
            m == Head(chan[s])
            x == [x0 EXCEPT !.idl = FALSE]
            c == CommonRx(s, x, m)
            y == IF x.up /\ ~x.frmr THEN c ELSE x
<1>1. /\ chan[s] # << >> /\ chan' = [chan EXCEPT ![s] = Tail(chan[s])]
      /\ st' = [st EXCEPT ![s] = y]
  BY DEF RxFrame
<1>2. /\ x0 \in StationState /\ LinkOK(x0, st[Other(s)], chan[s]) /\ ~x0.frmr
      /\ chan[s] \in Seq(Wire) /\ st[Other(s)] \in StationState
      /\ st \in [Station -> StationState] /\ chan \in [Station -> Seq(Wire)]
  BY IInvFacts DEF AroundOK
<1>3. m \in Wire
  BY <1>1, <1>2, TailFacts
<1>4. /\ x \in StationState /\ Untouched(x0, x) /\ x.w = x0.w /\ x.acked = x0.acked
      /\ ~x.frmr /\ (x.need_p <=> x0.need_p) /\ (x.rejpend <=> x0.rejpend)
  <2>1. x \in StationState
    BY <1>2 DEF StationState
  <2>. QED BY <1>2, <2>1 DEF StationState, Untouched
<1>5. /\ chan'[s] = Tail(chan[s]) /\ chan'[Other(s)] = chan[Other(s)]
      /\ st'[s] = y
  <2>1. Other(s) \in Station /\ Other(s) # s
    BY TwoStations
  <2>. HIDE DEF y
  <2>. QED BY <1>1, <1>2, <2>1
<1>6. x.up => PeerConsistent(x.w, x.acked) /\ IsNRValid(x.w, m.nr)
  <2>1. x0.up => PeerConsistent(x0.w, x0.acked) /\ IsNRValid(x0.w, m.nr)
    BY <1>1, <1>2, NRValid DEF LinkOK, SendSide
  <2>. HIDE DEF m, x, x0
  <2>. QED BY <1>4, <2>1 DEF Untouched
<1>. HIDE DEF m, x0, x
<1>7. CASE ~x.up
  <2>1. y = x
    BY <1>7
  <2>. HIDE DEF y
  <2>. QED BY <1>1, <1>3, <1>4, <1>5, <1>7, <2>1 DEF Untouched, m, x0
<1>8. CASE x.up
  <2>1. y = c
    BY <1>4, <1>8
  <2>2. /\ ~m.pf => Untouched(x, c)
        /\ m.pf /\ m.cmd =>
               /\ (c.f_rcved <=> x.f_rcved) /\ c.t1 = x.t1 /\ c.t3 = x.t3
               /\ c.p_rcved
        /\ m.pf /\ ~m.cmd =>
               /\ c.f_rcved /\ c.t1 = "off" /\ c.t3 = "armed"
               /\ (c.p_rcved <=> x.p_rcved)
        /\ (c.up <=> x.up) /\ (c.signal_tx <=> x.signal_tx)
        /\ x.need_p => c.need_p
        /\ TWA => (c.rejpend <=> x.rejpend)
    BY <1>3, <1>4, <1>6, <1>8, CommonRxNRM
  <2>. HIDE DEF y, c
  <2>3. ~m.pf => Untouched(x0, y)
    BY <1>4, <2>1, <2>2 DEF Untouched
  <2>. QED BY <1>1, <1>3, <1>4, <1>5, <1>8, <2>1, <2>2, <2>3 DEF Untouched, m, x0
<1>. QED BY <1>7, <1>8

\* P gives B the turn, F gives it back to A.
LEMMA RxFrameTurn ==
    ASSUME IInv, Turn, NEW s \in Station, RxFrame(s), UNCHANGED link
    PROVE  Turn'
<1>. DEFINE a == st["A"]
            b == st["B"]
            m == Head(chan[s])
            c == Tail(chan[s])
            y == st'[s]
<1>. SUFFICES ASSUME InTurns PROVE Turn'
  BY DEF Turn, InTurns, TWA, ABM
<1>1. /\ st \in [Station -> StationState] /\ chan \in [Station -> Seq(Wire)]
      /\ chan["A"] \in Seq(Wire) /\ chan["B"] \in Seq(Wire)
  BY TurnFacts
<1>2. TurnOK(a, b, chan["A"], chan["B"]) /\ ~ABM /\ TWA
  BY DEF Turn, InTurns
<1>3. /\ st' = [st EXCEPT ![s] = y] /\ chan[s] # << >>
      /\ chan'[s] = c /\ chan'[Other(s)] = chan[Other(s)]
      /\ ~m.pf => Untouched(st[s], y)
      /\ m.pf /\ m.cmd =>
             /\ (y.f_rcved <=> st[s].f_rcved) /\ y.t1 = st[s].t1 /\ y.t3 = st[s].t3
      /\ m.pf /\ ~m.cmd =>
             /\ IF st[s].up THEN y.f_rcved /\ y.t1 = "off" /\ y.t3 = "armed"
                ELSE Untouched(st[s], y)
             /\ (y.p_rcved <=> st[s].p_rcved)
      /\ (y.up <=> st[s].up)
  BY <1>2, RxFrameNRM
<1>4. chan[s] \in Seq(Wire) /\ MarkLast(chan[s])
  BY <1>1, <1>2, StationNames DEF TurnOK
<1>5. /\ MarkLast(c) /\ (Unmarked(chan[s]) => Unmarked(c)) /\ (m.pf => c = << >>)
      /\ (\A i \in 1..Len(chan[s]) : chan[s][i].cmd) => \A i \in 1..Len(c) : c[i].cmd
      /\ (\A i \in 1..Len(chan[s]) : ~chan[s][i].cmd) => \A i \in 1..Len(c) : ~c[i].cmd
  BY <1>3, <1>4, MarkTail
<1>6. m = chan[s][1] /\ 1 \in 1..Len(chan[s])
  BY <1>3, <1>4, TailFacts
<1>7. m.pf => ~Unmarked(chan[s])
  BY <1>6 DEF Unmarked
<1>8. Unmarked(<< >>)
  BY DEF Unmarked
<1>. HIDE DEF a, b, c, m, y
<1>9. CASE s = "A"
  <2>1. st'["A"] = y /\ st'["B"] = b /\ chan'["A"] = c /\ chan'["B"] = chan["B"]
    BY <1>1, <1>3, <1>9, StationNames DEF b
  <2>2. ~m.cmd /\ chan["B"] = << >> /\ ~a.f_rcved /\ a.t1 # "expired"
    BY <1>2, <1>3, <1>6, <1>9 DEF TurnOK
  <2>3. TurnOK(y, b, c, chan["B"])
    <3>1. CASE ~m.pf \/ ~a.up
      <4>1. Untouched(a, y)
        BY <1>3, <1>9, <2>2, <3>1 DEF a
      <4>. QED BY <1>2, <1>5, <1>8, <1>9, <2>2, <4>1 DEF TurnOK, Untouched
    <3>2. CASE m.pf /\ a.up
      <4>1. /\ y.f_rcved /\ y.t1 = "off" /\ c = << >> /\ ~b.p_rcved
            /\ (y.p_rcved <=> a.p_rcved)
        BY <1>2, <1>3, <1>5, <1>7, <1>9, <2>2, <3>2 DEF TurnOK, a
      <4>. QED BY <1>2, <1>5, <1>8, <1>9, <2>2, <4>1 DEF TurnOK
    <3>. QED BY <3>1, <3>2
  <2>. QED BY <2>1, <2>3, TurnBecomes
<1>10. CASE s = "B"
  <2>1. st'["B"] = y /\ st'["A"] = a /\ chan'["B"] = c /\ chan'["A"] = chan["A"]
    BY <1>1, <1>3, <1>10, StationNames DEF a
  <2>2. /\ m.cmd /\ chan["A"] = << >> /\ ~b.p_rcved
        /\ ~(a.t1 = "expired" /\ ~a.f_rcved)
    BY <1>2, <1>3, <1>6, <1>10 DEF TurnOK
  <2>3. TurnOK(a, y, chan["A"], c)
    <3>1. CASE ~m.pf
      <4>1. Untouched(b, y)
        BY <1>3, <1>10, <3>1 DEF b
      <4>. QED BY <1>2, <1>5, <1>8, <1>10, <2>2, <4>1 DEF TurnOK, Untouched
    <3>2. CASE m.pf
      <4>1. y.t1 = b.t1 /\ y.t3 = b.t3 /\ (y.up <=> b.up) /\ c = << >> /\ ~a.f_rcved
        BY <1>2, <1>3, <1>5, <1>7, <1>10, <2>2, <3>2 DEF TurnOK, b
      <4>. QED BY <1>2, <1>5, <1>8, <1>10, <2>2, <4>1 DEF TurnOK
    <3>. QED BY <3>1, <3>2
  <2>. QED BY <2>1, <2>3, TurnBecomes
<1>. QED BY <1>9, <1>10, StationNames

\* A frame that is lost takes its mark with it.
LEMMA LoseTurn ==
    ASSUME IInv, Turn, NEW s \in Station, Lose(s), UNCHANGED link
    PROVE  Turn'
<1>. DEFINE a == st["A"]
            b == st["B"]
            c == Tail(chan[s])
<1>. SUFFICES ASSUME InTurns PROVE Turn'
  BY DEF Turn, InTurns, TWA, ABM
<1>1. /\ chan \in [Station -> Seq(Wire)]
      /\ chan["A"] \in Seq(Wire) /\ chan["B"] \in Seq(Wire)
  BY TurnFacts
<1>2. TurnOK(a, b, chan["A"], chan["B"])
  BY DEF Turn
<1>3. st' = st /\ chan[s] # << >> /\ chan' = [chan EXCEPT ![s] = c]
  BY DEF Lose
<1>4. chan[s] \in Seq(Wire) /\ MarkLast(chan[s])
  BY <1>1, <1>2, StationNames DEF TurnOK
<1>5. /\ MarkLast(c) /\ (Unmarked(chan[s]) => Unmarked(c))
      /\ (\A i \in 1..Len(chan[s]) : chan[s][i].cmd) => \A i \in 1..Len(c) : c[i].cmd
      /\ (\A i \in 1..Len(chan[s]) : ~chan[s][i].cmd) => \A i \in 1..Len(c) : ~c[i].cmd
  BY <1>3, <1>4, MarkTail
<1>. HIDE DEF a, b, c
<1>6. CASE s = "A"
  <2>1. chan'["A"] = c /\ chan'["B"] = chan["B"]
    BY <1>1, <1>3, <1>6, StationNames
  <2>2. TurnOK(a, b, c, chan["B"])
    BY <1>2, <1>3, <1>5, <1>6 DEF TurnOK
  <2>. QED BY <1>3, <2>1, <2>2, TurnBecomes DEF a, b
<1>7. CASE s = "B"
  <2>1. chan'["B"] = c /\ chan'["A"] = chan["A"]
    BY <1>1, <1>3, <1>7, StationNames
  <2>2. TurnOK(a, b, chan["A"], c)
    BY <1>2, <1>3, <1>5, <1>7 DEF TurnOK
  <2>. QED BY <1>3, <2>1, <2>2, TurnBecomes DEF a, b
<1>. QED BY <1>6, <1>7, StationNames

\* The reply timer of a patient link runs out when the answer cannot come any
\* more, and then B, which has slept on no poll, does not have the turn.
LEMMA ExpireTurn ==
    ASSUME PatientLinks, IInv, Turn, InTurns => PollAnswered, NEW s \in Station,
           T1Expire(s) \/ T3Expire(s), UNCHANGED link
    PROVE  Turn'
<1>. DEFINE x == st[s]
            y == [x EXCEPT !.t1 = "expired"]
            z == [x EXCEPT !.t3 = "expired"]
<1>. SUFFICES ASSUME InTurns PROVE Turn'
  BY DEF Turn, InTurns, TWA, ABM
<1>1. /\ st \in [Station -> StationState] /\ x \in StationState
      /\ link \in Links /\ early \in 0..link.maxEarly
  BY IInvFacts DEF AroundOK
<1>2. TurnOK(st["A"], st["B"], chan["A"], chan["B"]) /\ TWA /\ ~ABM
  BY DEF Turn, InTurns
<1>3. AtRest
  <2>1. link.maxEarly = 0
    <3>1. link.mode \in {"NRM", "ABM"}
      BY <1>1, LinksAssumption DEF Link
    <3>. QED BY <1>1, <1>2, <3>1 DEF PatientLinks, TWA, ABM
  <2>2. ~(early < link.maxEarly)
    BY <1>1, <2>1
  <2>. QED BY <2>2 DEF T1Expire, T3Expire, RunOut
<1>4. s = "A"
  BY <1>2, StationNames DEF TurnOK, T1Expire, T3Expire
<1>5. chan["A"] = << >> /\ chan["B"] = << >> /\ ~st["B"].p_rcved
  <2>1. "B" \in Station /\ "A" \in Station /\ st["B"].up /\ ~UsesIdle
    BY <1>2, StationNames DEF TurnOK, UsesIdle
  <2>2. Asleep("B")
    BY <1>3, <2>1 DEF AtRest, Asleep
  <2>3. PollAnswered
    OBVIOUS
  <2>. QED BY <1>3, <2>1, <2>2, <2>3 DEF PollAnswered, AtRest
<1>6. Unmarked(<< >>)
  BY DEF Unmarked
<1>7. CASE T1Expire(s)
  <2>1. st' = [st EXCEPT ![s] = y] /\ chan' = chan
    BY <1>7 DEF T1Expire
  <2>2. (y.f_rcved <=> x.f_rcved) /\ (y.p_rcved <=> x.p_rcved)
    BY <1>1 DEF StationState
  <2>. HIDE DEF y
  <2>3. st'["A"] = y /\ st'["B"] = st["B"]
    BY <1>1, <1>4, <2>1, StationNames
  <2>4. TurnOK(y, st["B"], chan["A"], chan["B"])
    BY <1>2, <1>4, <1>5, <1>6, <2>2 DEF TurnOK
  <2>. QED BY <2>1, <2>3, <2>4, TurnBecomes
<1>8. CASE T3Expire(s)
  <2>1. st' = [st EXCEPT ![s] = z] /\ chan' = chan
    BY <1>8 DEF T3Expire
  <2>2. /\ (z.f_rcved <=> x.f_rcved) /\ (z.p_rcved <=> x.p_rcved) /\ z.t1 = x.t1
    BY <1>1 DEF StationState
  <2>. HIDE DEF z
  <2>3. st'["A"] = z /\ st'["B"] = st["B"]
    BY <1>1, <1>4, <2>1, StationNames
  <2>4. TurnOK(z, st["B"], chan["A"], chan["B"])
    BY <1>2, <1>4, <1>5, <1>6, <2>2 DEF TurnOK
  <2>. QED BY <2>1, <2>3, <2>4, TurnBecomes
<1>. QED BY <1>7, <1>8

\* Every step passes the turn on or leaves it where it is.
LEMMA NextTurn ==
    ASSUME PatientLinks, IInv, Turn, InTurns => PollAnswered, [Next]_vars
    PROVE  Turn'
<1>1. CASE UNCHANGED vars
  BY <1>1 DEF vars, running, Turn, InTurns, ABM, TWA
<1>. SUFFICES ASSUME Next PROVE Turn'
  BY <1>1
<1>2. UNCHANGED link
  BY DEF Next
<1>3. PICK s \in Station :
          \/ Write(s) \/ WriteSignal(s) \/ Read(s) \/ TxStep(s) \/ RxFrame(s)
          \/ Lose(s) \/ RxIdle(s) \/ T1Expire(s) \/ T3Expire(s)
  BY DEF Next, Step
<1>4. CASE \/ Write(s) \/ WriteSignal(s) \/ Read(s) \/ RxIdle(s) \/ TxBurstEnd(s)
  BY <1>2, <1>4, QuietTurn
<1>5. CASE TxStart(s)
  BY <1>2, <1>5, TxStartTurn
<1>6. CASE TxBurst(s)
  BY <1>2, <1>6, TxBurstTurn
<1>7. CASE TxTail(s)
  BY <1>2, <1>7, TxTailTurn
<1>8. CASE RxFrame(s)
  BY <1>2, <1>8, RxFrameTurn
<1>9. CASE Lose(s)
  BY <1>2, <1>9, LoseTurn
<1>10. CASE T1Expire(s) \/ T3Expire(s)
  BY <1>2, <1>10, ExpireTurn
<1>. QED
  BY <1>3, <1>4, <1>5, <1>6, <1>7, <1>8, <1>9, <1>10 DEF TxStep

\* A begins.
LEMMA InitTurn == Init => Turn
<1>. SUFFICES ASSUME Init, InTurns
              PROVE  TurnOK(st["A"], st["B"], chan["A"], chan["B"])
  BY DEF Turn
<1>1. /\ chan["A"] = << >> /\ chan["B"] = << >>
      /\ ~st["A"].p_rcved /\ ~st["B"].p_rcved /\ st["A"].t1 = "off"
      /\ st["B"].up /\ st["B"].t1 = "off" /\ st["B"].t3 = "off"
  BY StationNames DEF Init, InitStation, InTurns
<1>. QED BY <1>1 DEF TurnOK, MarkLast, Unmarked

\* At most one mark is the last frame of a line.
LEMMA OneMark ==
    ASSUME NEW c \in Seq(Wire), MarkLast(c), NEW S, S \subseteq {i \in DOMAIN c : c[i].pf}
    PROVE  /\ Cardinality(S) \in {0, 1}
           /\ Unmarked(c) => Cardinality(S) = 0
<1>1. DOMAIN c = 1..Len(c)
  OBVIOUS
<1>2. S \subseteq {Len(c)}
  BY <1>1 DEF MarkLast
<1>3. S = {} \/ S = {Len(c)}
  BY <1>2
<1>4. Cardinality({}) = 0 /\ Cardinality({Len(c)}) = 1
  BY FS_EmptySet, FS_Singleton
<1>5. Unmarked(c) => S = {}
  BY <1>1 DEF Unmarked
<1>. QED BY <1>3, <1>4, <1>5

\* The turns keep the frames of the two stations off each other.
LEMMA TurnsAlternate ==
    ASSUME IInv, Turn
    PROVE  HalfDuplex
<1>. SUFFICES ASSUME InTurns PROVE HalfDuplex
  BY DEF HalfDuplex, InTurns
<1>. DEFINE a == st["A"]
            b == st["B"]
            toA == chan["A"]
            toB == chan["B"]
<1>1. TurnOK(a, b, toA, toB) /\ ~ABM
  BY DEF Turn, InTurns
<1>2. toA \in Seq(Wire) /\ toB \in Seq(Wire)
  BY TurnFacts
<1>3. Other("A") = "B" /\ Other("B") = "A"
  BY StationNames
<1>4. /\ Polls("B") \in {0, 1} /\ Finals("A") \in {0, 1}
      /\ Unmarked(toB) => Polls("B") = 0
      /\ Unmarked(toA) => Finals("A") = 0
  BY <1>1, <1>2, OneMark DEF Polls, Finals, TurnOK
<1>5. Polls("A") = 0 /\ Finals("B") = 0
  <2>1. {i \in DOMAIN toA : toA[i].pf /\ toA[i].cmd} = {}
    BY <1>1, <1>2 DEF TurnOK
  <2>2. {i \in DOMAIN toB : toB[i].pf /\ ~toB[i].cmd} = {}
    BY <1>1, <1>2 DEF TurnOK
  <2>. QED BY <2>1, <2>2, FS_EmptySet DEF Polls, Finals
<1>6. toA = << >> \/ toB = << >>
  BY <1>1 DEF TurnOK
<1>7. Unmarked(<< >>)
  BY DEF Unmarked
<1>8. Polls("B") + Finals("A") <= 1
  <2>1. CASE toA = << >>
    BY <1>4, <1>7, <2>1
  <2>2. CASE toB = << >>
    BY <1>4, <1>7, <2>2
  <2>. QED BY <1>6, <2>1, <2>2
<1>9. a.f_rcved => Polls("B") + Finals("A") = 0
  BY <1>1, <1>4, <1>7 DEF TurnOK
<1>10. ASSUME NEW s \in Station
       PROVE  LET n == Polls(Other(s)) + Finals(s)
              IN  n <= 1 /\ (IsPri(s) /\ st[s].f_rcved => n = 0)
  <2>1. CASE s = "A"
    BY <1>3, <1>8, <1>9, <2>1
  <2>2. CASE s = "B"
    BY <1>3, <1>5, <2>2
  <2>. QED BY <2>1, <2>2, StationNames
<1>. QED BY <1>6, <1>10 DEF HalfDuplex

\* Where no timer runs out before its answer had time to arrive, and no poll
\* is slept on, the stations of a half-duplex NRM link never send at the same
\* time, one P or F at most is on the line, and none is left once F has been
\* taken: ioHdlc_core.c sends in TWA after F only (sendOpportunity).
THEOREM NeverSendTogether ==
    PatientLinks /\ Spec /\ [](InTurns => PollAnswered) => []HalfDuplex
<1>. SUFFICES ASSUME PatientLinks
              PROVE  Spec /\ [](InTurns => PollAnswered) => []HalfDuplex
  OBVIOUS
<1>1. IInv /\ Turn => HalfDuplex
  BY TurnsAlternate
<1>2. IInv /\ Turn /\ (InTurns => PollAnswered) /\ [Next]_vars => Turn'
  BY NextTurn
<1>. QED BY InitTurn, <1>1, <1>2, Invariance, PTL DEF Spec

\* So it is where the pool is large enough for what is written.
THEOREM AmplePoolAlternates == PatientLinks /\ AmplePool /\ Spec => []HalfDuplex
BY NeverSendTogether, AmplePoolAnswers, PTL

(***************************************************************************)
(* Timers.  While it is not busy, and in half duplex the other end neither, *)
(* the primary of an NRM link always has a timer running, or one has run   *)
(* out and its flag is on the way to the TX thread, or the TX thread is    *)
(* about to send the poll that starts the reply timer.                     *)
(***************************************************************************)
\* The TX thread will come to the poll: it is not asleep, or the writer is
\* about to wake it; and neither a burst nor the S-frame behind it leaves
\* the poll out for good.
Prompted(x, t, e) ==
    \/ t.pc = "wait" /\ (x.signal_tx \/ e.pending \/ t.cm # {})
    \/ t.pc = "burst" /\ (t.sent => TWA /\ CanSendI(x.w))
    \/ /\ t.pc = "tail" /\ ~t.sent
       /\ TWA => ~CanSendI(x.w) \/ x.signal_tx \/ e.pending

WatchOK(x, t, e) ==
    /\ x.t3 # "off" => x.f_rcved
    /\ e.flags # {} => e.pending
    /\ TWA => ~x.rejpend
    /\ x.up => \/ "armed" \in {x.t1, x.t3}
               \/ x.t1 = "expired" /\ "C_RPLYTMO" \in e.flags \union t.cm
               \/ x.t3 = "expired" /\ "T3_TMO" \in e.flags \union t.cm
               \/ x.f_rcved /\ x.need_p /\ Prompted(x, t, e)

Watch == ~ABM => WatchOK(st["A"], tx["A"], ev["A"])

\* A step of one station leaves the other's threads and events alone.
LEMMA OtherAlone ==
    ASSUME IInv, NEW s \in Station,
           \/ Write(s) \/ WriteSignal(s) \/ Read(s) \/ TxStep(s) \/ RxFrame(s)
           \/ Lose(s) \/ RxIdle(s) \/ T1Expire(s) \/ T3Expire(s)
    PROVE  LET o == Other(s)
           IN  st'[o] = st[o] /\ tx'[o] = tx[o] /\ ev'[o] = ev[o]
<1>. DEFINE o == Other(s)
<1>1. /\ st \in [Station -> StationState] /\ tx \in [Station -> TxState]
      /\ ev \in [Station -> EvState] /\ o \in Station /\ o # s
  BY IInvFacts, TwoStations DEF AroundOK
<1>2. \A f : Broadcast(s, f)[o] = ev[o]
  BY <1>1, BroadcastFacts
<1>3. GetAndClear(s)[o] = ev[o]
  BY <1>1, GetAndClearFacts
<1>. HIDE DEF o
<1>4. ev'[o] = ev[o]
  <2>1. CASE Write(s) \/ Lose(s) \/ TxBurstEnd(s)
    BY <2>1 DEF Write, Lose, TxBurstEnd
  <2>2. CASE WriteSignal(s) \/ Read(s) \/ RxIdle(s) \/ T1Expire(s) \/ T3Expire(s)
    BY <1>2, <2>2 DEF WriteSignal, Read, RxIdle, T1Expire, T3Expire
  <2>3. CASE RxFrame(s)
    BY <1>2, <2>3 DEF RxFrame
  <2>4. CASE TxBurst(s) \/ TxTail(s)
    BY <1>3, <2>4 DEF TxBurst, TxTail
  <2>5. CASE TxStart(s)
    BY <1>1, <2>5 DEF TxStart
  <2>. QED BY <2>1, <2>2, <2>3, <2>4, <2>5 DEF TxStep
<1>5. tx'[o] = tx[o]
  <2>1. CASE TxStep(s)
    BY <1>1, <2>1 DEF TxStep, TxStart, TxBurst, TxBurstEnd, TxTail
  <2>2. CASE ~TxStep(s)
    BY <2>2 DEF Write, WriteSignal, Read, RxFrame, Lose, RxIdle, T1Expire, T3Expire
  <2>. QED BY <2>1, <2>2
<1>6. st'[o] = st[o]
  <2>1. CASE TxStep(s)
    BY <1>1, <2>1 DEF TxStep, TxStart, TxBurst, TxBurstEnd, TxTail
  <2>2. CASE Write(s) \/ WriteSignal(s) \/ Read(s) \/ Lose(s)
    BY <1>1, <2>2 DEF Write, WriteSignal, Read, Lose
  <2>3. CASE RxFrame(s) \/ RxIdle(s) \/ T1Expire(s) \/ T3Expire(s)
    BY <1>1, <2>3 DEF RxFrame, RxIdle, T1Expire, T3Expire
  <2>. QED BY <2>1, <2>2, <2>3
<1>. QED BY <1>4, <1>5, <1>6 DEF o

\* It is enough to look at A.
LEMMA WatchBecomes ==
    ASSUME UNCHANGED link, ~ABM => WatchOK(st'["A"], tx'["A"], ev'["A"])
    PROVE  Watch'
BY DEF Watch, WatchOK, Prompted, ABM, TWA

\* A step that is not one of the TX thread, and takes no F.
LEMMA WatchCarried ==
    ASSUME NEW x, NEW y, NEW t, NEW e, NEW d, WatchOK(x, t, e),
           y.up <=> x.up, y.f_rcved <=> x.f_rcved, x.need_p => y.need_p,
           y.t1 = x.t1, y.t3 = x.t3, TWA => (y.rejpend <=> x.rejpend),
           e.flags \subseteq d.flags, e.pending => d.pending,
           d.flags # {} => d.pending,
           x.signal_tx => y.signal_tx \/ d.pending,
           TWA /\ x.f_rcved =>
               /\ CanSendI(x.w) => CanSendI(y.w)
               /\ CanSendI(y.w) => CanSendI(x.w) \/ y.signal_tx \/ d.pending
    PROVE  WatchOK(y, t, d)
<1>1. x.f_rcved /\ Prompted(x, t, e) => Prompted(y, t, d)
  BY DEF Prompted
<1>2. y.up => \/ "armed" \in {y.t1, y.t3}
              \/ y.t1 = "expired" /\ "C_RPLYTMO" \in d.flags \union t.cm
              \/ y.t3 = "expired" /\ "T3_TMO" \in d.flags \union t.cm
              \/ y.f_rcved /\ y.need_p /\ Prompted(y, t, d)
  BY <1>1 DEF WatchOK
<1>. QED BY <1>2 DEF WatchOK

\* What the invariants say of A.
LEMMA WatchFacts ==
    ASSUME IInv, Watch, ~ABM
    PROVE  /\ WatchOK(st["A"], tx["A"], ev["A"]) /\ "A" \in Station
           /\ st["A"] \in StationState /\ ~st["A"].frmr
           /\ ~st["A"].up => tx["A"].pc = "wait"
           /\ st \in [Station -> StationState] /\ tx \in [Station -> TxState]
           /\ ev \in [Station -> EvState] /\ ev["A"] \in EvState /\ tx["A"] \in TxState
BY IInvFacts, StationNames DEF AroundOK, Watch

\* The writer, the reader, the silence of the line, the loss of a frame.
LEMMA QuietWatch ==
    ASSUME IInv, Watch, ~ABM, UNCHANGED link,
           \/ Write("A") \/ WriteSignal("A") \/ Read("A") \/ RxIdle("A") \/ Lose("A")
    PROVE  Watch'
<1>. DEFINE x == st["A"]
            u == Enqueue(x.w, x.written + 1)
            k == x.written + 1
            l == PoolState(x.low, InUse(x) + 1)
            l2 == PoolState(x.low, InUse(x) - 1)
            n == x.unread - 1
            f == {g \in {"URGENT"} : x.busy /\ ~l2}
            y1 == [x EXCEPT !.w = u, !.written = k, !.signal_tx = TRUE, !.low = l]
            y2 == [x EXCEPT !.signal_tx = FALSE]
            y3 == [x EXCEPT !.unread = n, !.low = l2]
            y4 == [x EXCEPT !.idl = UsesIdle]
            y == st'["A"]
            d == ev'["A"]
<1>1. /\ WatchOK(x, tx["A"], ev["A"]) /\ "A" \in Station /\ x \in StationState
      /\ st \in [Station -> StationState] /\ ev \in [Station -> EvState]
  BY WatchFacts
<1>2. \A g : /\ Broadcast("A", g)["A"].flags = ev["A"].flags \union g
             /\ Broadcast("A", g)["A"].pending <=> ev["A"].pending \/ g # {}
  BY <1>1, BroadcastFacts
<1>3. tx' = tx
  BY DEF Write, WriteSignal, Read, RxIdle, Lose
<1>4. CanSendI(x.w) => CanSendI(u)
  <2>1. x.w \in PeerWindow
    BY <1>1 DEF StationState
  <2>2. /\ u.nr = x.w.nr /\ u.vs = x.w.vs
        /\ u.i_trans_q = Append(x.w.i_trans_q, [data |-> k, ns |-> NoNS])
    BY <2>1 DEF Enqueue, PeerWindow
  <2>3. x.w.i_trans_q \in Seq(Frame)
    BY <2>1, PeerFacts
  <2>4. Append(x.w.i_trans_q, [data |-> k, ns |-> NoNS]) # << >>
    BY <2>3
  <2>. HIDE DEF u
  <2>. QED BY <2>2, <2>4, Zenon DEF CanSendI, Outstanding
<1>5. \/ y = y1 /\ d = ev["A"]
      \/ y = y2 /\ \E g : d = Broadcast("A", g)["A"] /\ g # {}
      \/ y = y3 /\ \E g : d = Broadcast("A", g)["A"]
      \/ y = y4 /\ \E g : d = Broadcast("A", g)["A"]
      \/ y = x /\ d = ev["A"]
  <2>. HIDE DEF u, k, l, l2, n, f
  <2>1. CASE Write("A")
    <3>1. st' = [st EXCEPT !["A"] = y1] /\ ev' = ev
      BY <1>1, <2>1 DEF Write, StationState, u, k, l
    <3>. HIDE DEF y1
    <3>. QED BY <1>1, <3>1
  <2>2. CASE WriteSignal("A")
    <3>1. st' = [st EXCEPT !["A"] = y2] /\ ev' = Broadcast("A", {"WORK"})
      BY <2>2 DEF WriteSignal
    <3>. HIDE DEF y2
    <3>. QED BY <1>1, <3>1
  <2>3. CASE Read("A")
    <3>1. st' = [st EXCEPT !["A"] = y3] /\ ev' = Broadcast("A", f)
      BY <2>3 DEF Read, n, l2, f
    <3>. HIDE DEF y3
    <3>. QED BY <1>1, <3>1
  <2>4. CASE RxIdle("A")
    <3>1. st' = [st EXCEPT !["A"] = y4] /\ ev' = Broadcast("A", {"LINE_IDLE"})
      BY <2>4 DEF RxIdle
    <3>. HIDE DEF y4
    <3>. QED BY <1>1, <3>1
  <2>5. CASE Lose("A")
    BY <2>5 DEF Lose
  <2>. QED BY <2>1, <2>2, <2>3, <2>4, <2>5
<1>. HIDE DEF u, k, l, l2, n, f, y, d
<1>6. /\ \A z \in {y1, y2, y3, y4} :
             /\ (z.up <=> x.up) /\ (z.f_rcved <=> x.f_rcved) /\ (z.need_p <=> x.need_p)
             /\ z.t1 = x.t1 /\ z.t3 = x.t3 /\ (z.rejpend <=> x.rejpend)
      /\ y1.signal_tx /\ (y3.signal_tx <=> x.signal_tx)
      /\ (y4.signal_tx <=> x.signal_tx)
      /\ y1.w = u /\ y2.w = x.w /\ y3.w = x.w /\ y4.w = x.w
  BY <1>1 DEF StationState
<1>. HIDE DEF y1, y2, y3, y4
<1>7. /\ ev["A"].flags \subseteq d.flags /\ (ev["A"].pending => d.pending)
      /\ d.flags # {} => d.pending
  <2>1. ev["A"].flags # {} => ev["A"].pending
    BY <1>1 DEF WatchOK
  <2>. QED BY <1>2, <1>5, <2>1
<1>8. /\ (y.up <=> x.up) /\ (y.f_rcved <=> x.f_rcved) /\ (y.need_p <=> x.need_p)
      /\ y.t1 = x.t1 /\ y.t3 = x.t3 /\ (y.rejpend <=> x.rejpend)
      /\ x.signal_tx => y.signal_tx \/ d.pending
      /\ CanSendI(x.w) => CanSendI(y.w)
      /\ CanSendI(y.w) => CanSendI(x.w) \/ y.signal_tx \/ d.pending
  BY <1>2, <1>4, <1>5, <1>6
<1>9. WatchOK(y, tx["A"], d)
  BY <1>1, <1>7, <1>8, WatchCarried
<1>. QED BY <1>3, <1>9, WatchBecomes DEF y, d

\* A timer that runs out raises its flag.
LEMMA ExpireWatch ==
    ASSUME IInv, Watch, ~ABM, UNCHANGED link, T1Expire("A") \/ T3Expire("A")
    PROVE  Watch'
<1>. DEFINE x == st["A"]
            y == [x EXCEPT !.t1 = "expired"]
            z == [x EXCEPT !.t3 = "expired"]
            d == ev'["A"]
<1>1. /\ WatchOK(x, tx["A"], ev["A"]) /\ "A" \in Station /\ x \in StationState
      /\ st \in [Station -> StationState] /\ ev \in [Station -> EvState]
  BY WatchFacts
<1>2. \A g : /\ Broadcast("A", g)["A"].flags = ev["A"].flags \union g
             /\ Broadcast("A", g)["A"].pending <=> ev["A"].pending \/ g # {}
  BY <1>1, BroadcastFacts
<1>3. CASE T1Expire("A")
  <2>1. /\ st' = [st EXCEPT !["A"] = y] /\ ev' = Broadcast("A", {"C_RPLYTMO"})
        /\ tx' = tx
    BY <1>3 DEF T1Expire
  <2>2. /\ y.t1 = "expired" /\ y.t3 = x.t3 /\ (y.f_rcved <=> x.f_rcved)
        /\ (y.rejpend <=> x.rejpend)
    BY <1>1 DEF StationState
  <2>. HIDE DEF y
  <2>3. st'["A"] = y /\ "C_RPLYTMO" \in d.flags /\ d.pending
    BY <1>1, <1>2, <2>1
  <2>. HIDE DEF x, d
  <2>4. WatchOK(y, tx["A"], d)
    BY <1>1, <2>2, <2>3 DEF WatchOK
  <2>. QED BY <2>1, <2>3, <2>4, WatchBecomes DEF d
<1>4. CASE T3Expire("A")
  <2>1. /\ st' = [st EXCEPT !["A"] = z] /\ ev' = Broadcast("A", {"T3_TMO"})
        /\ tx' = tx /\ x.t3 = "armed"
    BY <1>4 DEF T3Expire
  <2>2. /\ z.t3 = "expired" /\ (z.f_rcved <=> x.f_rcved) /\ (z.rejpend <=> x.rejpend)
    BY <1>1 DEF StationState
  <2>. HIDE DEF z
  <2>3. st'["A"] = z /\ "T3_TMO" \in d.flags /\ d.pending
    BY <1>1, <1>2, <2>1
  <2>. HIDE DEF d
  <2>4. WatchOK(z, tx["A"], d)
    BY <1>1, <2>1, <2>2, <2>3 DEF WatchOK
  <2>. QED BY <2>1, <2>3, <2>4, WatchBecomes DEF d
<1>. QED BY <1>3, <1>4

\* A timeout that is served asks for a poll.
LEMMA TxStartWatch ==
    ASSUME IInv, Watch, ~ABM, UNCHANGED link, TxStart("A")
    PROVE  Watch'
<1>. DEFINE x == st["A"]
            leftover == tx["A"].cm # {}
            f == IF leftover THEN tx["A"].cm ELSE ev["A"].flags
            y == ServeT3(ServeT1(x, f), f)
            cm == f \ {"LINE_IDLE", "C_RPLYTMO", "T3_TMO"}
            t == [pc |-> IF ~y.up THEN "wait" ELSE IF y.frmr THEN "tail" ELSE "burst",
                  cm |-> cm, sent |-> FALSE]
            e == [flags |-> {}, pending |-> FALSE]
            d == ev'["A"]
<1>1. /\ WatchOK(x, tx["A"], ev["A"]) /\ "A" \in Station /\ x \in StationState
      /\ ~x.frmr /\ st \in [Station -> StationState] /\ tx \in [Station -> TxState]
      /\ ev \in [Station -> EvState]
  BY WatchFacts
<1>2. /\ x.up /\ st' = [st EXCEPT !["A"] = y] /\ tx' = [tx EXCEPT !["A"] = t]
      /\ ev' = IF leftover THEN ev ELSE [ev EXCEPT !["A"] = e]
  BY DEF TxStart
<1>3. Served(x, y)
  BY <1>1, <1>2, TimersServed
<1>4. /\ \/ /\ x.t1 = "expired" /\ "C_RPLYTMO" \in f
            /\ y.f_rcved /\ (y.up => y.need_p)
         \/ /\ ~(x.t1 = "expired" /\ "C_RPLYTMO" \in f)
            /\ (y.f_rcved <=> x.f_rcved) /\ y.t1 = x.t1 /\ y.up
            /\ x.need_p => y.need_p
            /\ IF x.t3 = "expired" /\ "T3_TMO" \in f THEN y.need_p ELSE y.t3 = x.t3
      /\ y.t3 # "off" => y.t3 = x.t3
      /\ y.rejpend => x.rejpend
  BY <1>1, <1>2, TimersNRM
<1>5. IF leftover THEN d = ev["A"] /\ f = tx["A"].cm
      ELSE d.flags = {} /\ f = ev["A"].flags /\ tx["A"].cm = {}
  BY <1>1, <1>2
<1>. HIDE DEF y, f, leftover
<1>6. y.up => t.pc = "burst" /\ ~t.sent
  BY <1>3 DEF Served
<1>7. "C_RPLYTMO" \in ev["A"].flags \union tx["A"].cm =>
          "C_RPLYTMO" \in f \/ "C_RPLYTMO" \in d.flags
  BY <1>5
<1>8. "T3_TMO" \in ev["A"].flags \union tx["A"].cm =>
          "T3_TMO" \in f \/ "T3_TMO" \in d.flags
  BY <1>5
<1>. HIDE DEF t, d
<1>9. d.flags # {} => d.pending
  BY <1>1, <1>5 DEF WatchOK
<1>10. y.t3 # "off" => y.f_rcved
  BY <1>1, <1>4 DEF WatchOK
<1>11. ASSUME y.up, y.f_rcved, y.need_p PROVE Prompted(y, t, d)
  BY <1>6, <1>11 DEF Prompted
<1>12. ASSUME y.up
       PROVE  \/ "armed" \in {y.t1, y.t3}
              \/ y.t1 = "expired" /\ "C_RPLYTMO" \in d.flags \union t.cm
              \/ y.t3 = "expired" /\ "T3_TMO" \in d.flags \union t.cm
              \/ y.f_rcved /\ y.need_p
  <2>1. CASE x.t1 = "expired" /\ "C_RPLYTMO" \in f
    BY <1>4, <1>12, <2>1
  <2>2. CASE ~(x.t1 = "expired" /\ "C_RPLYTMO" \in f)
    <3>1. /\ (y.f_rcved <=> x.f_rcved) /\ y.t1 = x.t1
          /\ x.need_p => y.need_p
          /\ IF x.t3 = "expired" /\ "T3_TMO" \in f THEN y.need_p ELSE y.t3 = x.t3
      BY <1>4, <2>2
    <3>2. \/ x.t1 = "armed" \/ x.t3 = "armed"
          \/ x.t1 = "expired" /\ "C_RPLYTMO" \in ev["A"].flags \union tx["A"].cm
          \/ x.t3 = "expired" /\ "T3_TMO" \in ev["A"].flags \union tx["A"].cm
          \/ x.f_rcved /\ x.need_p
      BY <1>1, <1>2 DEF WatchOK
    <3>3. x.t3 = "expired" => x.f_rcved
      BY <1>1 DEF WatchOK
    <3>4. CASE x.t1 = "armed"
      BY <3>1, <3>4
    <3>5. CASE x.t3 = "armed"
      BY <3>1, <3>5
    <3>6. CASE x.t1 = "expired" /\ "C_RPLYTMO" \in ev["A"].flags \union tx["A"].cm
      BY <1>7, <2>2, <3>1, <3>6
    <3>7. CASE x.t3 = "expired" /\ "T3_TMO" \in ev["A"].flags \union tx["A"].cm
      <4>1. CASE "T3_TMO" \in f
        BY <3>1, <3>3, <3>7, <4>1
      <4>2. CASE "T3_TMO" \notin f
        BY <1>8, <3>1, <3>7, <4>2
      <4>. QED BY <4>1, <4>2
    <3>8. CASE x.f_rcved /\ x.need_p
      BY <3>1, <3>8
    <3>. QED BY <3>2, <3>4, <3>5, <3>6, <3>7, <3>8
  <2>. QED BY <2>1, <2>2
<1>13. TWA => ~y.rejpend
  BY <1>1, <1>4 DEF WatchOK
<1>14. WatchOK(y, t, d)
  BY <1>9, <1>10, <1>11, <1>12, <1>13 DEF WatchOK
<1>. QED BY <1>1, <1>2, <1>14, WatchBecomes DEF d

\* What sending P or F does to the timers of the primary of an NRM link.
LEMMA AfterSendWatch ==
    ASSUME NEW x \in StationState, NEW pf \in BOOLEAN, ~ABM
    PROVE  LET z == AfterSend("A", x, pf)
           IN  /\ ~pf => z = x
               /\ pf => z.t1 = "armed" /\ z.t3 = "off"
               /\ (z.rejpend <=> x.rejpend) /\ z.w = x.w
               /\ (z.signal_tx <=> x.signal_tx)
<1>. DEFINE a == [x EXCEPT !.f_rcved = FALSE, !.need_p = FALSE, !.t1 = "armed",
                           !.t3 = "off"]
            z == AfterSend("A", x, pf)
<1>1. z = IF ~pf THEN x ELSE a
  BY DEF AfterSend, StationState, IsCommand
<1>2. /\ a.t1 = "armed" /\ a.t3 = "off" /\ (a.rejpend <=> x.rejpend) /\ a.w = x.w
      /\ (a.signal_tx <=> x.signal_tx)
  BY DEF StationState
<1>. HIDE DEF a, z
<1>. QED BY <1>1, <1>2 DEF z

\* The last I-frame of a burst, in full duplex the first one, is the poll.
LEMMA TxBurstWatch ==
    ASSUME IInv, TWA => PollInv, ~st["A"].busy, Watch, ~ABM, UNCHANGED link, TxBurst("A")
    PROVE  Watch'
<1>. DEFINE x == st["A"]
            pf == PFOnIFrame("A")
            chk == Checkpointed("A", pf)
            flags == tx["A"].cm \union ev["A"].flags
            u == SendIFrame(x.w, chk)
            v == [x EXCEPT !.w = u]
            y == AfterSend("A", v, pf)
            t == [pc |-> IF \/ flags \intersect {"URGENT", "REJ_ACTED"} # {}
                            \/ TWA /\ pf
                         THEN "tail" ELSE "burst",
                  cm |-> flags, sent |-> TRUE]
            d == ev'["A"]
<1>1. /\ WatchOK(x, tx["A"], ev["A"]) /\ "A" \in Station /\ x \in StationState
      /\ st \in [Station -> StationState] /\ tx \in [Station -> TxState]
      /\ ev \in [Station -> EvState]
      /\ ~x.up => tx["A"].pc = "wait"
  BY WatchFacts
<1>2. /\ tx["A"].pc = "burst" /\ BurstGoesOn("A") /\ st' = [st EXCEPT !["A"] = y]
      /\ ev' = GetAndClear("A") /\ tx' = [tx EXCEPT !["A"] = t]
  BY DEF TxBurst
<1>3. x.up /\ ~x.busy /\ CanSendI(x.w) /\ SendOpportunity("A") /\ (TWA => x.f_rcved)
  BY <1>1, <1>2 DEF BurstGoesOn, SendOpportunity
<1>4. TWA => "URGENT" \notin flags /\ ("REJ_ACTED" \in flags => x.rejpend)
  BY <1>1, <1>3, PollFacts DEF PollOK
<1>5. pf \in BOOLEAN /\ chk \in BOOLEAN
  BY <1>1, FlagTypes
<1>6. x.w \in PeerWindow /\ x.acked \in Nat /\ PeerConsistent(x.w, x.acked)
  <2>1. LinkOK(x, st["B"], chan["A"])
    BY <1>1, IInvFacts, StationNames
  <2>. QED BY <1>1, <1>3, <2>1, StationFacts, IInvFacts, StationNames
           DEF LinkOK, SendSide, StationState
<1>7. u \in PeerWindow /\ (~IsLastFrame(x.w) => CanSendI(u))
  BY <1>3, <1>5, <1>6, SendIFrameConsistent, BurstFollows
<1>8. pf <=> IF TWA THEN IsLastFrame(x.w) ELSE x.f_rcved
  BY <1>3 DEF PFOnIFrame, IsCommand
<1>9. d.flags = {} /\ (d.pending <=> ev["A"].pending)
  BY <1>1, <1>2, GetAndClearFacts
<1>10. t.cm = flags /\ t.sent
       /\ t.pc = IF \/ flags \intersect {"URGENT", "REJ_ACTED"} # {}
                    \/ TWA /\ pf
                 THEN "tail" ELSE "burst"
  OBVIOUS
<1>11. x.up /\ t.cm = tx["A"].cm \union ev["A"].flags
  BY <1>3
<1>. HIDE DEF u, pf, d, t, flags
<1>12. /\ v \in StationState /\ v.w = u /\ (v.rejpend <=> x.rejpend)
       /\ (v.f_rcved <=> x.f_rcved) /\ (v.need_p <=> x.need_p) /\ v.t1 = x.t1
       /\ v.t3 = x.t3 /\ (v.up <=> x.up) /\ (v.signal_tx <=> x.signal_tx)
  <2>1. v \in StationState
    BY <1>1, <1>7 DEF StationState
  <2>. QED BY <1>1, <2>1 DEF StationState
<1>. HIDE DEF v
<1>13. /\ ~pf => y = v
       /\ pf => y.t1 = "armed" /\ y.t3 = "off"
       /\ (y.rejpend <=> v.rejpend)
  BY <1>5, <1>12, AfterSendWatch
<1>. HIDE DEF y
<1>14. WatchOK(y, t, d)
  <2>1. CASE pf
    BY <1>1, <1>9, <1>12, <1>13, <2>1 DEF WatchOK
  <2>2. CASE ~pf
    <3>1. ASSUME x.f_rcved, x.need_p PROVE Prompted(y, t, d)
      <4>1. TWA /\ CanSendI(u)
        BY <1>7, <1>8, <2>2, <3>1
      <4>2. ~x.rejpend
        BY <1>1, <4>1 DEF WatchOK
      <4>3. t.pc = "burst"
        BY <1>4, <1>10, <2>2, <4>1, <4>2
      <4>. QED BY <1>12, <1>13, <2>2, <4>1, <4>3 DEF Prompted
    <3>. QED BY <1>1, <1>9, <1>11, <1>12, <1>13, <2>2, <3>1 DEF WatchOK
  <2>. QED BY <2>1, <2>2
<1>. QED BY <1>1, <1>2, <1>14, WatchBecomes DEF d

\* A burst that has left the poll out goes on.
LEMMA TxBurstEndWatch ==
    ASSUME IInv, TWA => PollInv, ~st["A"].busy, Watch, ~ABM, UNCHANGED link, TxBurstEnd("A")
    PROVE  Watch'
<1>. DEFINE x == st["A"]
            t == [tx["A"] EXCEPT !.pc = "tail"]
<1>1. /\ WatchOK(x, tx["A"], ev["A"]) /\ "A" \in Station /\ tx["A"] \in TxState
      /\ tx \in [Station -> TxState]
  BY WatchFacts
<1>2. /\ tx["A"].pc = "burst" /\ ~BurstGoesOn("A") /\ tx' = [tx EXCEPT !["A"] = t]
      /\ UNCHANGED <<st, ev>>
  BY DEF TxBurstEnd
<1>3. TWA => ~x.peer_busy
  BY <1>1, PollFacts DEF PollOK
<1>4. t.pc = "tail" /\ t.cm = tx["A"].cm /\ (t.sent <=> tx["A"].sent)
  BY <1>1 DEF TxState
<1>. HIDE DEF t
<1>5. ASSUME x.f_rcved, Prompted(x, tx["A"], ev["A"]) PROVE Prompted(x, t, ev["A"])
  <2>1. SendOpportunity("A")
    BY <1>5 DEF SendOpportunity
  <2>2. TWA => ~CanSendI(x.w)
    BY <1>2, <1>3, <2>1 DEF BurstGoesOn
  <2>3. ~tx["A"].sent
    BY <1>2, <1>5, <2>2 DEF Prompted
  <2>. QED BY <1>4, <2>2, <2>3 DEF Prompted
<1>6. WatchOK(x, t, ev["A"])
  BY <1>1, <1>4, <1>5 DEF WatchOK
<1>. QED BY <1>1, <1>2, <1>6, WatchBecomes

\* The S-frame behind the burst is the poll if no I-frame was, unless frames
\* were queued since then.
LEMMA TxTailWatch ==
    ASSUME IInv, TWA => PollInv, ~st["A"].busy, Watch, ~ABM, UNCHANGED link, TxTail("A")
    PROVE  Watch'
<1>. DEFINE x == st["A"]
            fun == WantedS("A")
            pf == PFOnSFrame("A")
            chk == Checkpointed("A", pf)
            flags == tx["A"].cm \union ev["A"].flags
            u == SendSFrame(x.w, chk)
            rej == x.rejpend /\ fun # "REJ"
            busy == x.busy /\ fun # "RR"
            v == [x EXCEPT !.w = u, !.rejpend = rej, !.busy = busy]
            z == AfterSend("A", v, pf)
            y == st'["A"]
            t == [pc |-> "wait", sent |-> FALSE,
                  cm |-> flags \ ({"WORK", "URGENT"} \union
                             IF x.rejpend THEN {"REJ_ACTED"} ELSE {})]
            d == ev'["A"]
<1>1. /\ WatchOK(x, tx["A"], ev["A"]) /\ "A" \in Station /\ x \in StationState
      /\ st \in [Station -> StationState] /\ tx \in [Station -> TxState]
      /\ ev \in [Station -> EvState]
      /\ ~x.up => tx["A"].pc = "wait"
  BY WatchFacts
<1>2. /\ tx["A"].pc = "tail"
      /\ IF fun = "none" THEN st' = st ELSE st' = [st EXCEPT !["A"] = z]
      /\ ev' = GetAndClear("A") /\ tx' = [tx EXCEPT !["A"] = t]
  BY DEF TxTail
<1>3. x.up /\ ~x.busy
  BY <1>1, <1>2
<1>4. pf \in BOOLEAN /\ chk \in BOOLEAN
  BY <1>1, FlagTypes
<1>5. d.flags = {} /\ (d.pending <=> ev["A"].pending)
  BY <1>1, <1>2, GetAndClearFacts
<1>6. /\ t.pc = "wait"
      /\ "C_RPLYTMO" \in flags => "C_RPLYTMO" \in t.cm
      /\ "T3_TMO" \in flags => "T3_TMO" \in t.cm
  OBVIOUS
<1>7. y = IF fun = "none" THEN x ELSE z
  <2>. HIDE DEF fun, z
  <2>. QED BY <1>1, <1>2
<1>8. IsCommand("A")
  BY DEF IsCommand
<1>9. u \in PeerWindow
  <2>1. x.w \in PeerWindow
    BY <1>1 DEF StationState
  <2>2. x.w.vs \in SeqNum /\ x.w.vs_atlast_pf \in SeqNum
    BY <2>1, PeerFacts
  <2>. QED BY <2>1, <2>2 DEF SendSFrame, PeerWindow
<1>10. rej \in BOOLEAN /\ busy \in BOOLEAN /\ (rej => x.rejpend)
  BY Zenon
<1>. HIDE DEF u, rej, busy, t, d, y
<1>11. /\ v \in StationState /\ (v.rejpend => x.rejpend)
       /\ (v.f_rcved <=> x.f_rcved) /\ (v.need_p <=> x.need_p) /\ v.t1 = x.t1
       /\ v.t3 = x.t3 /\ (v.up <=> x.up) /\ (v.signal_tx <=> x.signal_tx)
  <2>1. v \in StationState
    BY <1>1, <1>9, <1>10 DEF StationState
  <2>. QED BY <1>1, <1>10, <2>1 DEF StationState
<1>. HIDE DEF v
<1>12. /\ ~pf => z = v
       /\ pf => z.t1 = "armed" /\ z.t3 = "off"
       /\ (z.rejpend <=> v.rejpend)
  BY <1>4, <1>11, AfterSendWatch
<1>. HIDE DEF z
<1>13. /\ (y.rejpend => x.rejpend)
       /\ \/ y.t1 = "armed" /\ y.t3 = "off" /\ fun # "none"
          \/ /\ (fun = "none" \/ ~pf)
             /\ (y.f_rcved <=> x.f_rcved) /\ (y.need_p <=> x.need_p) /\ y.t1 = x.t1
             /\ y.t3 = x.t3 /\ (y.up <=> x.up) /\ (y.signal_tx <=> x.signal_tx)
  BY <1>7, <1>11, <1>12
<1>14. ASSUME x.f_rcved, x.need_p, Prompted(x, tx["A"], ev["A"]), fun = "none" \/ ~pf
       PROVE  x.signal_tx \/ ev["A"].pending
  <2>1. ~tx["A"].sent /\ (TWA => ~CanSendI(x.w) \/ x.signal_tx \/ ev["A"].pending)
    BY <1>2, <1>14 DEF Prompted
  <2>2. SendOpportunity("A")
    BY <1>14 DEF SendOpportunity
  <2>3. fun # "none"
    BY <1>14, <2>1, <2>2 DEF WantedS
  <2>4. ~pf
    BY <1>14, <2>3
  <2>5. TWA /\ CanSendI(x.w)
    BY <1>8, <1>14, <2>4 DEF PFOnSFrame
  <2>. QED BY <2>1, <2>5
<1>. HIDE DEF fun, pf
<1>15. WatchOK(y, t, d)
  <2>1. TWA => ~y.rejpend
    BY <1>1, <1>13 DEF WatchOK
  <2>2. CASE y.t1 = "armed" /\ y.t3 = "off"
    BY <1>5, <2>1, <2>2 DEF WatchOK
  <2>3. CASE /\ (fun = "none" \/ ~pf)
             /\ (y.f_rcved <=> x.f_rcved) /\ (y.need_p <=> x.need_p) /\ y.t1 = x.t1
             /\ y.t3 = x.t3 /\ (y.up <=> x.up) /\ (y.signal_tx <=> x.signal_tx)
    <3>1. x.f_rcved /\ x.need_p /\ Prompted(x, tx["A"], ev["A"]) => Prompted(y, t, d)
      BY <1>5, <1>6, <1>14, <2>3 DEF Prompted
    <3>2. \/ "armed" \in {x.t1, x.t3}
          \/ x.t1 = "expired" /\ "C_RPLYTMO" \in flags
          \/ x.t3 = "expired" /\ "T3_TMO" \in flags
          \/ x.f_rcved /\ x.need_p /\ Prompted(x, tx["A"], ev["A"])
      BY <1>1, <1>3 DEF WatchOK
    <3>3. y.t3 # "off" => y.f_rcved
      BY <1>1, <2>3 DEF WatchOK
    <3>4. \/ "armed" \in {y.t1, y.t3}
          \/ y.t1 = "expired" /\ "C_RPLYTMO" \in d.flags \union t.cm
          \/ y.t3 = "expired" /\ "T3_TMO" \in d.flags \union t.cm
          \/ y.f_rcved /\ y.need_p /\ Prompted(y, t, d)
      BY <1>6, <2>3, <3>1, <3>2
    <3>. QED BY <1>5, <2>1, <3>3, <3>4 DEF WatchOK
  <2>. QED BY <1>13, <2>2, <2>3
<1>. QED BY <1>1, <1>2, <1>15, WatchBecomes DEF d, y

\* F stops the reply timer and starts T3; no other frame touches a timer, and
\* in half duplex none comes while A has the turn.
LEMMA RxFrameWatch ==
    ASSUME IInv, Turn, Watch, ~ABM, UNCHANGED link, RxFrame("A")
    PROVE  Watch'
<1>. DEFINE x == st["A"]
            m == Head(chan["A"])
            y == st'["A"]
            d == ev'["A"]
<1>1. /\ WatchOK(x, tx["A"], ev["A"]) /\ "A" \in Station /\ x \in StationState
      /\ ev \in [Station -> EvState] /\ Other("A") = "B"
  BY WatchFacts, StationNames
<1>2. tx' = tx /\ (ev' = ev \/ \E f : ev' = Broadcast("A", f))
  BY DEF RxFrame
<1>3. /\ ev["A"].flags \subseteq d.flags /\ (ev["A"].pending => d.pending)
      /\ d.flags # {} => d.pending
  <2>1. ev["A"].flags # {} => ev["A"].pending
    BY <1>1 DEF WatchOK
  <2>2. \A g : /\ Broadcast("A", g)["A"].flags = ev["A"].flags \union g
               /\ Broadcast("A", g)["A"].pending <=> ev["A"].pending \/ g # {}
    BY <1>1, BroadcastFacts
  <2>. QED BY <1>2, <2>1, <2>2
<1>4. /\ chan["A"] # << >> /\ m \in Wire
      /\ ~m.pf => Untouched(x, y)
      /\ m.pf /\ m.cmd =>
             (y.f_rcved <=> x.f_rcved) /\ y.t1 = x.t1 /\ y.t3 = x.t3
      /\ m.pf /\ ~m.cmd =>
             IF x.up THEN y.f_rcved /\ y.t1 = "off" /\ y.t3 = "armed"
             ELSE Untouched(x, y)
      /\ (y.up <=> x.up) /\ (y.signal_tx <=> x.signal_tx)
      /\ x.need_p => y.need_p
      /\ TWA => (y.rejpend <=> x.rejpend)
  BY <1>1, RxFrameNRM
<1>5. TWA => ~x.f_rcved
  BY <1>4 DEF Turn, InTurns, TurnOK
<1>. HIDE DEF m, y, d
<1>6. CASE m.pf /\ ~m.cmd /\ x.up
  <2>1. WatchOK(y, tx["A"], d)
    BY <1>1, <1>3, <1>4, <1>6 DEF WatchOK
  <2>. QED BY <1>2, <2>1, WatchBecomes DEF y, d
<1>7. CASE ~(m.pf /\ ~m.cmd /\ x.up)
  <2>1. (y.f_rcved <=> x.f_rcved) /\ y.t1 = x.t1 /\ y.t3 = x.t3
    BY <1>4, <1>7 DEF Untouched
  <2>2. WatchOK(y, tx["A"], d)
    BY <1>1, <1>3, <1>4, <1>5, <2>1, WatchCarried
  <2>. QED BY <1>2, <2>2, WatchBecomes DEF y, d
<1>. QED BY <1>6, <1>7

\* Every step keeps a timer running, or the TX thread on its way to the poll.
LEMMA NextWatch ==
    ASSUME IInv, TWA => PollInv, ~st["A"].busy, Turn, Watch, [Next]_vars
    PROVE  Watch'
<1>1. CASE UNCHANGED vars
  BY <1>1 DEF vars, running, Watch, WatchOK, Prompted, ABM, TWA
<1>. SUFFICES ASSUME Next, ~ABM PROVE Watch'
  BY <1>1 DEF Next, Watch, ABM
<1>2. UNCHANGED link
  BY DEF Next
<1>3. PICK s \in Station :
          \/ Write(s) \/ WriteSignal(s) \/ Read(s) \/ TxStep(s) \/ RxFrame(s)
          \/ Lose(s) \/ RxIdle(s) \/ T1Expire(s) \/ T3Expire(s)
  BY DEF Next, Step
<1>4. CASE s = "B"
  <2>1. st'["A"] = st["A"] /\ tx'["A"] = tx["A"] /\ ev'["A"] = ev["A"]
    BY <1>3, <1>4, OtherAlone, StationNames
  <2>2. WatchOK(st["A"], tx["A"], ev["A"])
    BY DEF Watch
  <2>. QED BY <1>2, <2>1, <2>2, WatchBecomes
<1>5. CASE s = "A"
  <2>1. CASE \/ Write("A") \/ WriteSignal("A") \/ Read("A") \/ RxIdle("A") \/ Lose("A")
    BY <1>2, <2>1, QuietWatch
  <2>2. CASE TxStart("A")
    BY <1>2, <2>2, TxStartWatch
  <2>3. CASE TxBurst("A")
    BY <1>2, <2>3, TxBurstWatch
  <2>4. CASE TxBurstEnd("A")
    BY <1>2, <2>4, TxBurstEndWatch
  <2>5. CASE TxTail("A")
    BY <1>2, <2>5, TxTailWatch
  <2>6. CASE RxFrame("A")
    BY <1>2, <2>6, RxFrameWatch
  <2>7. CASE T1Expire("A") \/ T3Expire("A")
    BY <1>2, <2>7, ExpireWatch
  <2>. QED
    BY <1>3, <1>5, <2>1, <2>2, <2>3, <2>4, <2>5, <2>6, <2>7 DEF TxStep
<1>. QED BY <1>4, <1>5, StationNames

\* T3 of the primary runs from the start.
LEMMA InitWatch == Init => Watch
<1>. SUFFICES ASSUME Init, ~ABM PROVE WatchOK(st["A"], tx["A"], ev["A"])
  BY DEF Watch
<1>1. /\ st["A"].t3 = "armed" /\ st["A"].f_rcved /\ ~st["A"].rejpend
      /\ ev["A"].flags = {}
  BY StationNames DEF Init, InitStation, IsPri
<1>. QED BY <1>1 DEF WatchOK

\* At rest nothing is on the way, so that a timer runs.
LEMMA WatchAtRest ==
    ASSUME Watch
    PROVE  ~ABM => TimerWatches
<1>. SUFFICES ASSUME ~ABM, AtRest, st["A"].up
              PROVE  "armed" \in {st["A"].t1, st["A"].t3}
  BY DEF TimerWatches, Waiting
<1>1. /\ tx["A"].pc = "wait" /\ tx["A"].cm = {} /\ ~ev["A"].pending
      /\ ~st["A"].signal_tx
  BY StationNames DEF AtRest
<1>. QED BY <1>1 DEF Watch, WatchOK, Prompted

\* As long as it is not busy, and in half duplex neither station is, the
\* primary of an NRM link never waits without a timer: when the line has come
\* to rest T1 or T3 runs, whatever was lost, however early the timers of a
\* full-duplex link, and wherever writes and events fall between the steps of
\* a burst.  A busy primary sets no P on its I-frames (ioHdlc_core.c:1829),
\* and a combined station may wait for ever (run abm_poll_lost).
THEOREM PrimaryKeepsTimer ==
    /\ PatientLinks
    /\ Spec
    /\ [](~st["A"].busy /\ (TWA => NoBusy))
    => [](~ABM => TimerWatches)
<1>. SUFFICES ASSUME PatientLinks
              PROVE  Spec /\ [](~st["A"].busy /\ (TWA => NoBusy))
                         => [](~ABM => TimerWatches)
  OBVIOUS
<1>. DEFINE Calls == TWA => PollInv
            Free == ~st["A"].busy /\ (TWA => NoBusy)
<1>1. Init => Calls
  BY InitPoll
<1>2. IInv /\ Calls /\ Free /\ Free' /\ [Next]_vars => Calls'
  <2>. SUFFICES ASSUME IInv, Calls, Free, Free', [Next]_vars, TWA' PROVE PollInv'
    OBVIOUS
  <2>1. TWA
    BY DEF Next, vars, TWA
  <2>2. NoBusy'
    OBVIOUS
  <2>. QED BY <2>1, <2>2, NextPoll
<1>3. Calls => (InTurns => PollAnswered)
  BY DEF PollInv, PollOK, Attended, PollAnswered, Asleep, InTurns
<1>4. IInv /\ Turn /\ Calls /\ [Next]_vars => Turn'
  BY <1>3, NextTurn
<1>5. IInv /\ Calls /\ Free /\ Turn /\ Watch /\ [Next]_vars => Watch'
  BY NextWatch
<1>6. Watch => (~ABM => TimerWatches)
  BY WatchAtRest
<1>. HIDE DEF Calls, Free
<1>7. Spec /\ []Free => [](~ABM => TimerWatches)
  BY InitTurn, InitWatch, <1>1, <1>2, <1>4, <1>5, <1>6, Invariance, PTL DEF Spec
<1>. QED BY <1>7 DEF Free

(***************************************************************************)
(* A secondary that writes nothing: nothing is ever delivered to the       *)
(* primary, so that its pool never makes it busy.                          *)
(***************************************************************************)
\* A step that counts nothing as written; who got busy has accepted a frame.
Alert(x, y) == y.written = x.written /\ (y.busy => x.busy)

Listens(x, y) ==
    y.written = x.written /\ (y.busy => x.busy \/ y.delivered # x.delivered)

\* Nothing is written to the primaries of full-duplex links.
OneWay == \A l \in Links : l.mode = "NRM" /\ ~l.twa /\ l.writes["B"] = 0

Unstirred == Writes("B") = 0 => st["B"].written = 0 /\ ~st["A"].busy

\* The writer, the reader, the timers that run out, the end of a burst.
LEMMA QuietListens ==
    ASSUME IInv, NEW s \in Station,
           \/ WriteSignal(s) \/ Read(s) \/ RxIdle(s) \/ Lose(s) \/ TxBurstEnd(s)
           \/ T1Expire(s) \/ T3Expire(s)
    PROVE  \E y : st' = [st EXCEPT ![s] = y] /\ Listens(st[s], y)
<1>. DEFINE x == st[s]
            n == x.unread - 1
            l == PoolState(x.low, InUse(x) - 1)
            a == [x EXCEPT !.signal_tx = FALSE]
            b == [x EXCEPT !.idl = UsesIdle]
            c == [x EXCEPT !.t1 = "expired"]
            d == [x EXCEPT !.t3 = "expired"]
            e == [x EXCEPT !.unread = n, !.low = l]
<1>1. x \in StationState /\ st \in [Station -> StationState]
  BY IInvFacts
<1>2. PICK y \in {x, a, b, c, d, e} : st' = [st EXCEPT ![s] = y]
  <2>1. CASE WriteSignal(s)
    BY <2>1 DEF WriteSignal
  <2>2. CASE RxIdle(s)
    BY <2>2 DEF RxIdle
  <2>3. CASE Lose(s) \/ TxBurstEnd(s)
    <3>1. st' = [st EXCEPT ![s] = x]
      BY <1>1, <2>3 DEF Lose, TxBurstEnd
    <3>. QED BY <3>1
  <2>4. CASE T1Expire(s)
    BY <2>4 DEF T1Expire
  <2>5. CASE T3Expire(s)
    BY <2>5 DEF T3Expire
  <2>6. CASE Read(s)
    <3>1. st' = [st EXCEPT ![s] = e]
      BY <1>1, <2>6 DEF Read, StationState
    <3>. QED BY <3>1
  <2>. QED BY <2>1, <2>2, <2>3, <2>4, <2>5, <2>6
<1>. HIDE DEF n, l
<1>3. /\ Listens(x, x) /\ Listens(x, a) /\ Listens(x, b) /\ Listens(x, c)
      /\ Listens(x, d) /\ Listens(x, e)
  BY <1>1 DEF StationState, Listens
<1>. HIDE DEF x, a, b, c, d, e
<1>. QED BY <1>2, <1>3 DEF x

\* Retries and links given up, and what is sent.
LEMMA RetryListens ==
    ASSUME NEW x \in StationState
    PROVE  Alert(x, TimeoutRetry(x))
<1>. DEFINE u == ResetWindow(x.w)
            l == PoolState(x.low, x.unread)
            k == x.retry + 1
            y == [x EXCEPT !.w = u, !.vr = 0, !.t3_expected_nr = 0,
                        !.rejpend = FALSE, !.peer_busy = FALSE, !.need_p = FALSE,
                        !.retry = 0, !.frmr = FALSE, !.t1 = "off", !.t3 = "off",
                        !.f_rcved = TRUE, !.up = FALSE, !.low = l]
            z == [x EXCEPT !.retry = k, !.need_p = TRUE, !.f_rcved = TRUE,
                           !.rej_actioned = 0]
<1>1. TimeoutRetry(x) \in {y, z}
  BY DEF TimeoutRetry, Abort, StationState
<1>. HIDE DEF u, l, k
<1>2. Alert(x, y) /\ Alert(x, z)
  BY DEF StationState, Alert
<1>. HIDE DEF y, z
<1>. QED BY <1>1, <1>2

LEMMA AfterSendListens ==
    ASSUME NEW x \in StationState, NEW s \in Station, NEW pf \in BOOLEAN
    PROVE  LET y == AfterSend(s, x, pf)
           IN  y.written = x.written /\ (y.busy <=> x.busy) /\ y.delivered = x.delivered
<1>. DEFINE t == IF ABM THEN x.t3 ELSE "off"
            a == [x EXCEPT !.f_rcved = FALSE, !.need_p = FALSE, !.t1 = "armed",
                          !.t3 = t]
            b == [x EXCEPT !.p_rcved = FALSE]
<1>1. AfterSend(s, x, pf) \in {x, a, b}
  BY DEF AfterSend, StationState
<1>. HIDE DEF t
<1>2. /\ a.written = x.written /\ (a.busy <=> x.busy) /\ a.delivered = x.delivered
      /\ b.written = x.written /\ (b.busy <=> x.busy) /\ b.delivered = x.delivered
  BY DEF StationState
<1>. HIDE DEF a, b
<1>. QED BY <1>1, <1>2

LEMMA TxListens ==
    ASSUME IInv, NEW s \in Station, TxStart(s) \/ TxBurst(s) \/ TxTail(s)
    PROVE  \E y : st' = [st EXCEPT ![s] = y] /\ Listens(st[s], y)
<1>1. st[s] \in StationState /\ st \in [Station -> StationState]
      /\ LinkOK(st[s], st[Other(s)], chan[s]) /\ (~st[s].up => tx[s].pc = "wait")
  BY IInvFacts
<1>2. CASE TxStart(s)
  <2>. DEFINE x == st[s]
              f == IF tx[s].cm # {} THEN tx[s].cm ELSE ev[s].flags
              z == ServeT1(x, f)
              v == [z EXCEPT !.t3 = "off"]
              p == [v EXCEPT !.need_p = TRUE]
              y == ServeT3(z, f)
  <2>1. x.up /\ ~x.frmr /\ st' = [st EXCEPT ![s] = y]
    BY <1>2, IInvFacts DEF TxStart
  <2>. HIDE DEF x
  <2>2. z = x \/ z = TimeoutRetry(x)
    BY DEF ServeT1
  <2>3. z \in StationState /\ Alert(x, z)
    <3>1. Served(x, TimeoutRetry(x)) /\ Alert(x, TimeoutRetry(x))
      BY <1>1, <2>1, TimeoutRetryServed, RetryListens DEF x
    <3>. QED BY <1>1, <2>2, <3>1 DEF x, Served, Alert
  <2>. HIDE DEF z
  <2>4. y = z \/ y = p \/ y = v \/ y = TimeoutRetry(v)
    BY DEF ServeT3
  <2>5. v \in StationState
    BY <2>3 DEF StationState, Timer
  <2>6. Alert(z, v)
    BY <2>3 DEF StationState, Alert
  <2>. HIDE DEF v
  <2>7. Alert(v, p)
    BY <2>5 DEF StationState, Alert
  <2>8. Alert(v, TimeoutRetry(v))
    BY <2>5, RetryListens
  <2>. HIDE DEF p, y
  <2>9. Alert(x, y)
    <3>1. ASSUME NEW i, NEW j, NEW k, Alert(i, j), Alert(j, k) PROVE Alert(i, k)
      BY <3>1, Zenon DEF Alert
    <3>. QED BY <2>3, <2>4, <2>6, <2>7, <2>8, <3>1
  <2>. QED BY <2>1, <2>9 DEF Alert, Listens, x
<1>3. CASE TxBurst(s)
  <2>. DEFINE x == st[s]
              pf == PFOnIFrame(s)
              u == SendIFrame(x.w, Checkpointed(s, pf))
              v == [x EXCEPT !.w = u]
              z == AfterSend(s, v, pf)
              k == z.w.vs
              t == [z EXCEPT !.t3 = "armed", !.t3_expected_nr = k]
              y == IF ABM THEN t ELSE z
  <2>1. tx[s].pc = "burst" /\ st' = [st EXCEPT ![s] = y] /\ CanSendI(x.w)
    BY <1>3 DEF TxBurst, BurstGoesOn
  <2>2. pf \in BOOLEAN /\ Checkpointed(s, pf) \in BOOLEAN
    BY FlagTypes
  <2>3. u \in PeerWindow
    <3>1. PeerConsistent(x.w, x.acked) /\ x.w \in PeerWindow /\ x.acked \in Nat
      BY <1>1, <2>1, StationFacts DEF LinkOK, SendSide
    <3>. QED BY <2>1, <2>2, <3>1, SendIFrameConsistent
  <2>. HIDE DEF x, pf, u
  <2>4. v \in StationState
    BY <1>1, <2>3 DEF StationState, x
  <2>5. v.written = x.written /\ (v.busy <=> x.busy) /\ v.delivered = x.delivered
    BY <1>1 DEF StationState, x
  <2>. HIDE DEF v
  <2>6. z \in StationState
    <3>1. v.up
      BY <1>1, <1>3, <2>1 DEF v, x, StationState
    <3>. QED BY <2>2, <2>4, <3>1, AfterSendFacts
  <2>7. z.written = v.written /\ (z.busy <=> v.busy) /\ z.delivered = v.delivered
    BY <2>2, <2>4, AfterSendListens
  <2>. HIDE DEF z, k
  <2>8. t.written = z.written /\ (t.busy <=> z.busy) /\ t.delivered = z.delivered
    BY <2>6 DEF StationState
  <2>. HIDE DEF t
  <2>9. Listens(x, y)
    BY <2>5, <2>7, <2>8 DEF Listens
  <2>. QED BY <2>1, <2>9 DEF x
<1>4. CASE TxTail(s)
  <2>. DEFINE x == st[s]
              fun == WantedS(s)
              pf == PFOnSFrame(s)
              u == SendSFrame(x.w, Checkpointed(s, pf))
              rej == x.rejpend /\ fun # "REJ"
              busy == x.busy /\ fun # "RR"
              v == [x EXCEPT !.w = u, !.rejpend = rej, !.busy = busy]
              y == AfterSend(s, v, pf)
  <2>1. /\ tx[s].pc = "tail"
        /\ IF fun = "none" THEN st' = st ELSE st' = [st EXCEPT ![s] = y]
    BY <1>4 DEF TxTail
  <2>2. pf \in BOOLEAN /\ Checkpointed(s, pf) \in BOOLEAN
    BY <1>1, FlagTypes
  <2>3. CASE fun = "none"
    <3>1. st' = [st EXCEPT ![s] = x] /\ Listens(x, x)
      BY <1>1, <2>1, <2>3 DEF Listens
    <3>. QED BY <3>1
  <2>4. CASE fun # "none"
    <3>1. u \in PeerWindow
      <4>1. x.w \in PeerWindow
        BY <1>1 DEF StationState
      <4>2. x.w.vs \in SeqNum /\ x.w.vs_atlast_pf \in SeqNum
        BY <4>1, PeerFacts
      <4>. QED BY <4>1, <4>2 DEF SendSFrame, PeerWindow
    <3>2. rej \in BOOLEAN /\ busy \in BOOLEAN /\ (busy => x.busy)
      BY Zenon
    <3>. HIDE DEF x, pf, u, rej, busy
    <3>3. v \in StationState
      BY <1>1, <3>1, <3>2 DEF StationState, x
    <3>4. v.written = x.written /\ (v.busy <=> busy) /\ v.delivered = x.delivered
      BY <1>1 DEF StationState, x
    <3>. HIDE DEF v
    <3>5. y.written = v.written /\ (y.busy <=> v.busy)
      BY <2>2, <3>3, AfterSendListens
    <3>. HIDE DEF y
    <3>6. Listens(x, y)
      BY <3>2, <3>4, <3>5 DEF Listens
    <3>. QED BY <2>1, <2>4, <3>6 DEF x
  <2>. QED BY <2>3, <2>4
<1>. QED BY <1>2, <1>3, <1>4

LEMMA CommonRxListens ==
    ASSUME NEW s \in Station, NEW x \in StationState, NEW m \in Wire,
           x.up, ~x.frmr, PeerConsistent(x.w, x.acked), IsNRValid(x.w, m.nr)
    PROVE  Listens(x, CommonRx(s, x, m))
<1>. DEFINE low1 == LowAfterAck(x, m)
            y == CheckpointAndAck(x, m)
            rej == IF y.rej_actioned = m.ns + 1 THEN 0 ELSE y.rej_actioned
            pb == y.peer_busy /\ ~m.pf
            b == y.busy \/ low1
            np == y.need_p \/ (~ABM /\ s = "A")
            vr == Inc(y.vr)
            dl == Append(y.delivered, m.data)
            un == y.unread + 1
            a == [y EXCEPT !.delivered = dl, !.unread = un, !.rej_actioned = rej,
                           !.peer_busy = pb, !.busy = b, !.vr = vr, !.need_p = np]
            k == y.vr + 1
            r == [y EXCEPT !.rej_actioned = k, !.rejpend = TRUE]
            b1 == [y EXCEPT !.peer_busy = FALSE]
            b2 == [y EXCEPT !.peer_busy = TRUE]
            u == RejRetransmit(y.w)
            j == [y EXCEPT !.w = u]
            v == IF m.type = "I" THEN HandleI(s, y, m, low1) ELSE HandleS(y, m)
            l == PoolState(low1, InUse(v))
            z == [v EXCEPT !.low = l]
<1>1. CommonRx(s, x, m) = z
  BY DEF CommonRx
<1>2. y \in StationState /\ y.delivered = x.delivered /\ ~y.frmr
      /\ Received(x, y, m, AckCount(x.w, m.nr)) /\ y.vr = x.vr
  BY CheckpointAndAckFacts
<1>3. (y.busy <=> x.busy) /\ y.written = x.written
  <2>1. y.busy <=> x.busy
    BY DEF CheckpointAndAck, StationState
  <2>. QED BY <1>2, <2>1 DEF Received
<1>4. v \in StationState
  <2>1. m.type \in {"I"} \union SFun
    BY DEF Wire
  <2>. QED BY <1>2, <2>1, HandleIFacts, HandleSFacts
<1>5. v \in {a, r, y, b1, b2, j}
  BY DEF HandleI, AcceptI, HandleS, Wire, SFun
<1>6. dl # y.delivered
  <2>1. y.delivered \in Seq(Nat) /\ m.data \in Nat
    BY <1>2 DEF StationState, Wire
  <2>2. Len(dl) = Len(y.delivered) + 1 /\ Len(y.delivered) \in Nat
    BY <2>1
  <2>. QED BY <2>2
<1>. HIDE DEF y, rej, pb, b, np, vr, dl, un, k, u, v, low1
<1>7. a.written = y.written /\ a.delivered = dl
  BY <1>2 DEF StationState
<1>8. /\ r.written = y.written /\ (r.busy <=> y.busy)
      /\ b1.written = y.written /\ (b1.busy <=> y.busy)
      /\ b2.written = y.written /\ (b2.busy <=> y.busy)
      /\ j.written = y.written /\ (j.busy <=> y.busy)
  BY <1>2 DEF StationState
<1>. HIDE DEF a, r, b1, b2, j
<1>9. Listens(x, v)
  BY <1>2, <1>3, <1>5, <1>6, <1>7, <1>8 DEF Listens
<1>. HIDE DEF l
<1>10. z.written = v.written /\ (z.busy <=> v.busy) /\ z.delivered = v.delivered
  BY <1>4 DEF StationState
<1>. HIDE DEF z
<1>. QED BY <1>1, <1>9, <1>10 DEF Listens

LEMMA RxFrameListens ==
    ASSUME IInv, NEW s \in Station, RxFrame(s)
    PROVE  \E y : st' = [st EXCEPT ![s] = y] /\ Listens(st[s], y)
<1>. DEFINE x0 == st[s]
            m == Head(chan[s])
            x == [x0 EXCEPT !.idl = FALSE]
            y == CommonRx(s, x, m)
<1>1. /\ chan[s] # << >>
      /\ st' = [st EXCEPT ![s] = IF x.up /\ ~x.frmr THEN y ELSE x]
  BY DEF RxFrame
<1>2. /\ x0 \in StationState /\ ~x0.frmr /\ chan[s] \in Seq(Wire)
      /\ LinkOK(x0, st[Other(s)], chan[s]) /\ st[Other(s)] \in StationState
  BY IInvFacts
<1>. HIDE DEF x0
<1>3. x \in StationState
  BY <1>2 DEF StationState
<1>4. /\ x.written = x0.written /\ (x.busy <=> x0.busy) /\ x.delivered = x0.delivered
      /\ x.w = x0.w /\ (x.up <=> x0.up) /\ x.acked = x0.acked
  BY <1>2 DEF StationState
<1>. HIDE DEF x
<1>5. CASE ~(x.up /\ ~x.frmr)
  <2>1. st' = [st EXCEPT ![s] = x] /\ Listens(x0, x)
    BY <1>1, <1>4, <1>5 DEF Listens
  <2>. QED BY <2>1 DEF x0
<1>6. CASE x.up /\ ~x.frmr
  <2>1. m \in Wire
    BY <1>1, <1>2, TailFacts
  <2>2. x0.up /\ PeerConsistent(x0.w, x0.acked) /\ IsNRValid(x0.w, m.nr)
    BY <1>1, <1>2, <1>4, <1>6, NRValid DEF LinkOK, SendSide
  <2>3. Listens(x, y)
    BY <1>3, <1>4, <1>6, <2>1, <2>2, CommonRxListens
  <2>. HIDE DEF y
  <2>4. st' = [st EXCEPT ![s] = y] /\ Listens(x0, y)
    BY <1>1, <1>4, <1>6, <2>3 DEF Listens
  <2>. QED BY <2>4 DEF x0
<1>. QED BY <1>5, <1>6

\* What is delivered to A was written by B.
LEMMA NextUnstirred ==
    ASSUME IInv, Unstirred, [Next]_vars
    PROVE  Unstirred'
<1>1. CASE UNCHANGED vars
  BY <1>1 DEF vars, running, Unstirred, Writes
<1>. SUFFICES ASSUME Next, Writes("B") = 0
              PROVE  st'["B"].written = 0 /\ ~st'["A"].busy
  BY <1>1 DEF Next, Unstirred, Writes
<1>2. /\ st["B"].written = 0 /\ ~st["A"].busy /\ st["A"].delivered = << >>
      /\ st \in [Station -> StationState]
  <2>1. st["B"].written = 0 /\ ~st["A"].busy
    BY DEF Unstirred
  <2>2. Got(st["A"]) <= st["B"].written /\ st["A"] \in StationState
        /\ st \in [Station -> StationState]
    BY IInvFacts, StationNames DEF LinkOK, ReceiveSide
  <2>3. st["A"].delivered \in Seq(Nat)
    BY <2>2 DEF StationState
  <2>4. Len(st["A"].delivered) = 0
    BY <2>1, <2>2, <2>3 DEF Got
  <2>. QED BY <2>1, <2>2, <2>3, <2>4
<1>3. IInv'
  BY NextIInv
<1>4. Got(st'["A"]) <= st'["B"].written /\ st'["A"] \in StationState
  BY <1>3, StationNames DEF IInv, LinkOK, ReceiveSide, TypeOK
<1>5. PICK s \in Station :
          \/ Write(s) \/ WriteSignal(s) \/ Read(s) \/ TxStep(s) \/ RxFrame(s)
          \/ Lose(s) \/ RxIdle(s) \/ T1Expire(s) \/ T3Expire(s)
  BY DEF Next, Step
<1>6. CASE Write(s)
  <2>1. st[s].written < Writes(s) /\ st' = [st EXCEPT ![s] = st'[s]]
        /\ (st'[s].busy <=> st[s].busy)
    <3>. DEFINE x == st[s]
                u == Enqueue(x.w, x.written + 1)
                k == x.written + 1
                l == PoolState(x.low, InUse(x) + 1)
                y == [x EXCEPT !.w = u, !.written = k, !.signal_tx = TRUE, !.low = l]
    <3>1. x \in StationState
      BY <1>2
    <3>2. x.written < Writes(s) /\ st' = [st EXCEPT ![s] = y]
      BY <1>6, <3>1 DEF Write, StationState
    <3>. HIDE DEF u, k, l
    <3>3. y.busy <=> x.busy
      BY <3>1 DEF StationState
    <3>. HIDE DEF y
    <3>4. st'[s] = y
      BY <1>2, <3>2
    <3>. QED BY <3>2, <3>3, <3>4
  <2>2. s # "B"
    BY <1>2, <2>1
  <2>3. s = "A"
    BY <2>2, StationNames
  <2>. QED BY <1>2, <2>1, <2>3, StationNames
<1>7. CASE ~Write(s)
  <2>1. PICK y : st' = [st EXCEPT ![s] = y] /\ Listens(st[s], y)
    BY <1>5, <1>7, QuietListens, TxListens, RxFrameListens DEF TxStep
  <2>2. CASE s = "B"
    BY <1>2, <2>1, <2>2, StationNames DEF Listens
  <2>3. CASE s = "A"
    <3>1. st'["A"] = y /\ st'["B"] = st["B"]
      BY <1>2, <2>1, <2>3, StationNames
    <3>2. y.delivered = << >>
      <4>1. y.delivered \in Seq(Nat)
        BY <1>4, <3>1 DEF StationState
      <4>2. Len(y.delivered) = 0
        BY <1>2, <1>4, <3>1, <4>1 DEF Got
      <4>. QED BY <4>1, <4>2
    <3>. QED BY <1>2, <2>1, <2>3, <3>1, <3>2 DEF Listens
  <2>. QED BY <2>2, <2>3, StationNames
<1>. QED BY <1>6, <1>7

\* A primary to which nothing is written never waits without a timer in full
\* duplex, whatever is lost and however early a timer runs out: the traffic of
\* the run nrm_flow, for every window and pool.
THEOREM OneWayKeepsTimer == OneWay /\ Spec => []TimerWatches
<1>. DEFINE Free == ~st["A"].busy /\ (TWA => NoBusy)
            Flow == ~ABM /\ ~TWA /\ Writes("B") = 0
<1>. SUFFICES ASSUME OneWay PROVE Spec => []TimerWatches
  OBVIOUS
<1>1. PatientLinks
  BY DEF PatientLinks, OneWay
<1>2. Init => Flow /\ Unstirred
  <2>. SUFFICES ASSUME Init PROVE Flow /\ Unstirred
    OBVIOUS
  <2>1. link \in Links
    BY DEF Init
  <2>2. Flow
    BY <2>1 DEF OneWay, ABM, TWA, Writes
  <2>3. st["B"].written = 0 /\ ~st["A"].busy
    BY StationNames DEF Init, InitStation
  <2>. QED BY <2>2, <2>3 DEF Unstirred
<1>3. Flow /\ [Next]_vars => Flow'
  BY DEF Next, vars, ABM, TWA, Writes
<1>4. Flow /\ Unstirred => Free /\ ~ABM
  BY DEF Unstirred
<1>5. IInv /\ Unstirred /\ [Next]_vars => Unstirred'
  BY NextUnstirred
<1>. HIDE DEF Flow, Free
<1>6. Spec => [](Free /\ ~ABM)
  BY <1>2, <1>3, <1>4, <1>5, Invariance, PTL DEF Spec
<1>7. Spec /\ []Free => [](~ABM => TimerWatches)
  BY <1>1, PrimaryKeepsTimer DEF Free
<1>. QED BY <1>6, <1>7, PTL

=============================================================================
