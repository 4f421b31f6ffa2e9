-------------------------- MODULE HdlcWindowProofs --------------------------
(***************************************************************************)
(* The queues and sequence variables of a peer stay consistent for every   *)
(* modulus and every window: proofs of the invariants of HdlcWindow.       *)
(*                                                                         *)
(* The actions of HdlcWindow are operators of HdlcPeer, each of which      *)
(* preserves PeerConsistent (HdlcPeerProofs).                              *)
(***************************************************************************)
EXTENDS HdlcWindow, HdlcPeerProofs

-----------------------------------------------------------------------------
(* The invariant of HdlcWindow.                                            *)

\* A peer as ioHdlcAddPeer makes it satisfies the invariant.
LEMMA InitIInv == Init => IInv
<1>. SUFFICES ASSUME Init PROVE IInv
  OBVIOUS
<1>1. 0 \in SeqNum /\ 0 \in 0..Mod /\ << >> \in Seq(Frame)
  BY ModAssumption DEF SeqNum
<1>2. peer \in PeerWindow
  BY <1>1 DEF Init, InitWindow, PeerWindow
<1>3. /\ peer.vs = 0 /\ peer.nr = 0 /\ peer.vs_highest = 0
      /\ peer.i_pending_count = 0
      /\ peer.i_trans_q = << >> /\ peer.i_retrans_q = << >>
  BY DEF Init, InitWindow
<1>4. PeerConsistent(peer, 0)
  BY <1>2, <1>3, EmptyConsistent
<1>5. TypeOK
  <2>1. 0 \in 0..MaxWrites
    BY MaxWritesAssumption
  <2>. QED BY <1>2, <2>1, Zenon DEF Init, TypeOK
<1>6. peer.i_pending_count <= PendingLimit
  BY <1>3, KsAssumption, ModAssumption, WriterMarginAssumption DEF PendingLimit
<1>7. acked + Len(peer.i_retrans_q) + Len(peer.i_trans_q) = written
  BY <1>3 DEF Init
<1>. QED BY <1>4, <1>5, <1>6, <1>7 DEF IInv, Init

\* Every step of the writer, of the TX thread and of the RX thread preserves
\* the invariant.
LEMMA NextIInv == IInv /\ [Next]_vars => IInv'
<1>. SUFFICES ASSUME IInv, [Next]_vars PROVE IInv'
  OBVIOUS
<1>1. /\ peer \in PeerWindow /\ frmr \in BOOLEAN /\ bursting \in BOOLEAN
      /\ written \in 0..MaxWrites /\ acked \in 0..MaxWrites
      /\ PeerConsistent(peer, acked)
      /\ peer.i_pending_count <= PendingLimit
      /\ acked + Len(peer.i_retrans_q) + Len(peer.i_trans_q) = written
  BY DEF IInv, TypeOK
<1>2. acked \in Nat /\ written \in Nat
  BY <1>1, MaxWritesAssumption
<1>3. PendingLimit \in Nat
  BY KsAssumption, ModAssumption, WriterMarginAssumption DEF PendingLimit
<1>4. CASE Write
  <2>. DEFINE d == written + 1
              x == Enqueue(peer, d)
  <2>1. d \in Nat /\ d = acked + Len(peer.i_retrans_q) + Len(peer.i_trans_q) + 1
    <3>1. written + 1 \in Nat
      BY <1>2
    <3>. QED BY <1>1, <3>1, Zenon
  <2>2. /\ x \in PeerWindow /\ PeerConsistent(x, acked)
        /\ Len(x.i_trans_q) = Len(peer.i_trans_q) + 1
        /\ x.i_retrans_q = peer.i_retrans_q
        /\ x.i_pending_count = peer.i_pending_count + 1
    BY <1>1, <1>2, <2>1, EnqueueConsistent
  <2>3. /\ peer' = x /\ written' = written + 1 /\ acked' = acked
        /\ frmr' = frmr /\ bursting' = bursting
        /\ written < MaxWrites /\ peer.i_pending_count < PendingLimit
    BY <1>4 DEF Write
  <2>. HIDE DEF x, d
  <2>4. TypeOK'
    BY <1>1, <2>2, <2>3, MaxWritesAssumption DEF TypeOK
  <2>5. (peer.i_pending_count <= PendingLimit)'
    <3>1. peer.i_pending_count \in Nat
      BY <1>1 DEF PeerWindow
    <3>2. peer.i_pending_count + 1 <= PendingLimit
      BY <1>3, <2>3, <3>1
    <3>. QED BY <2>2, <2>3, <3>2 DEF PendingLimit
  <2>6. (acked + Len(peer.i_retrans_q) + Len(peer.i_trans_q) = written)'
    <3>1. acked + Len(peer.i_retrans_q) + (Len(peer.i_trans_q) + 1) = written + 1
      BY <1>1, <1>2 DEF PeerWindow
    <3>. QED BY <2>2, <2>3, <3>1
  <2>. QED BY <2>2, <2>3, <2>4, <2>5, <2>6 DEF IInv
<1>5. CASE BeginBurst
  BY <1>1, <1>5 DEF BeginBurst, IInv, TypeOK, PendingLimit
<1>6. CASE SendI
  <2>1. PICK chk \in BOOLEAN : peer' = SendIFrame(peer, chk)
    BY <1>6 DEF SendI
  <2>2. /\ frmr' = frmr /\ bursting' = bursting /\ written' = written
        /\ acked' = acked /\ CanSendI(peer)
    BY <1>6 DEF SendI
  <2>3. /\ peer' \in PeerWindow /\ PeerConsistent(peer', acked)
        /\ Len(peer'.i_trans_q) = Len(peer.i_trans_q) - 1
        /\ Len(peer'.i_retrans_q) = Len(peer.i_retrans_q) + 1
        /\ peer'.i_pending_count = peer.i_pending_count
    BY <1>1, <1>2, <2>1, <2>2, SendIFrameConsistent
  <2>4. acked + (Len(peer.i_retrans_q) + 1) + (Len(peer.i_trans_q) - 1) = written
    BY <1>1, <1>2 DEF PeerWindow
  <2>. QED BY <1>1, <2>2, <2>3, <2>4 DEF IInv, TypeOK, PendingLimit
<1>7. CASE EndBurst
  <2>1. PICK chk \in BOOLEAN : peer' = SendSFrame(peer, chk)
    BY <1>7 DEF EndBurst
  <2>2. /\ frmr' = frmr /\ bursting' = FALSE /\ written' = written
        /\ acked' = acked
    BY <1>7 DEF EndBurst
  <2>3. /\ peer' \in PeerWindow /\ PeerConsistent(peer', acked)
        /\ peer'.i_trans_q = peer.i_trans_q
        /\ peer'.i_retrans_q = peer.i_retrans_q
        /\ peer'.i_pending_count = peer.i_pending_count
    BY <1>1, <1>2, <2>1, SendSFrameConsistent
  <2>. QED BY <1>1, <2>2, <2>3 DEF IInv, TypeOK, PendingLimit
<1>8. ASSUME NEW nr \in SeqNum, NEW c \in BOOLEAN,
             RecvAck(nr, c) \/ RecvRej(nr, c)
      PROVE  IInv'
  <2>. DEFINE n == AckCount(peer, nr)
              x == ProcessNR(peer, nr)
              y == IF c THEN CheckpointRetransmit(x) ELSE x
  <2>1. /\ x \in PeerWindow /\ n \in Nat /\ n <= Len(peer.i_retrans_q)
        /\ PeerConsistent(x, acked + n)
        /\ x.i_trans_q = peer.i_trans_q
        /\ Len(x.i_retrans_q) = Len(peer.i_retrans_q) - n
        /\ x.i_pending_count = peer.i_pending_count - n
    BY <1>1, <1>2, ProcessNRConsistent
  <2>2. /\ acked' = acked + n /\ written' = written
        /\ frmr' = frmr /\ bursting' = bursting
        /\ peer' = y \/ peer' = RejRetransmit(y)
    BY <1>8 DEF RecvAck, RecvRej
  <2>. HIDE DEF n, x
  <2>3. acked + n \in Nat
    BY <1>2, <2>1
  <2>4. /\ y \in PeerWindow /\ PeerConsistent(y, acked + n)
        /\ Len(y.i_retrans_q) + Len(y.i_trans_q) =
               Len(x.i_retrans_q) + Len(x.i_trans_q)
        /\ y.i_pending_count = x.i_pending_count
    BY <2>1, <2>3, CheckpointConsistent
  <2>. HIDE DEF y
  <2>5. /\ peer' \in PeerWindow /\ PeerConsistent(peer', acked')
        /\ Len(peer'.i_retrans_q) + Len(peer'.i_trans_q) =
               Len(x.i_retrans_q) + Len(x.i_trans_q)
        /\ peer'.i_pending_count = x.i_pending_count
    BY <2>2, <2>3, <2>4, RejConsistent
  <2>6. (acked + Len(peer.i_retrans_q) + Len(peer.i_trans_q) = written)'
    <3>1. Len(peer'.i_retrans_q) \in Nat /\ Len(peer'.i_trans_q) \in Nat
      BY <2>5 DEF PeerWindow
    <3>2. acked' + Len(peer'.i_retrans_q) + Len(peer'.i_trans_q) =
              acked' + (Len(peer'.i_retrans_q) + Len(peer'.i_trans_q))
      BY <2>2, <2>3, <2>5 DEF PeerWindow
    <3>3. acked' + (Len(peer'.i_retrans_q) + Len(peer'.i_trans_q)) =
              (acked + n) + ((Len(peer.i_retrans_q) - n) + Len(peer.i_trans_q))
      BY <2>1, <2>2, <2>5
    <3>4. (acked + n) + ((Len(peer.i_retrans_q) - n) + Len(peer.i_trans_q)) =
              written
      <4>. DEFINE lr == Len(peer.i_retrans_q)
                  lt == Len(peer.i_trans_q)
      <4>1. lr \in Int /\ lt \in Int /\ acked + lr + lt = written
        BY <1>1 DEF PeerWindow
      <4>2. acked \in Int /\ n \in Int
        BY <1>2, <2>1
      <4>. HIDE DEF lr, lt
      <4>3. (acked + n) + ((lr - n) + lt) = written
        BY <4>1, <4>2
      <4>. QED BY <4>3 DEF lr, lt
    <3>. QED BY <2>2, <3>2, <3>3, <3>4
  <2>7. (peer.i_pending_count <= PendingLimit)'
    <3>1. peer.i_pending_count \in Nat
      BY <1>1 DEF PeerWindow
    <3>2. peer.i_pending_count - n <= PendingLimit
      BY <1>1, <1>3, <2>1, <3>1
    <3>. QED BY <2>1, <2>5, <3>2 DEF PendingLimit
  <2>8. acked' \in 0..MaxWrites
    <3>1. acked + n <= written
      BY <1>1, <1>2, <2>1 DEF PeerWindow
    <3>. QED BY <1>1, <1>2, <2>2, <2>3, <3>1, MaxWritesAssumption
  <2>. QED BY <1>1, <2>2, <2>5, <2>6, <2>7, <2>8 DEF IInv, TypeOK
<1>9. ASSUME NEW nr \in SeqNum, RecvInvalidNR(nr)
      PROVE  IInv'
  BY <1>1, <1>9 DEF RecvInvalidNR, IInv, TypeOK, PendingLimit
<1>10. CASE Reset
  <2>1. /\ peer' \in PeerWindow /\ PeerConsistent(peer', 0)
        /\ Len(peer'.i_retrans_q) = 0 /\ Len(peer'.i_trans_q) = 0
        /\ peer'.i_pending_count = 0
    BY <1>1, <1>10, ResetConsistent DEF Reset
  <2>2. written' = 0 /\ acked' = 0 /\ frmr' = FALSE /\ bursting' = bursting
    BY <1>10 DEF Reset
  <2>3. 0 <= PendingLimit
    BY <1>3
  <2>4. 0 \in 0..MaxWrites
    BY MaxWritesAssumption
  <2>5. TypeOK'
    BY <1>1, <2>1, <2>2, <2>4, Zenon DEF TypeOK
  <2>6. (acked + Len(peer.i_retrans_q) + Len(peer.i_trans_q) = written)'
    BY <2>1, <2>2
  <2>7. (peer.i_pending_count <= PendingLimit)'
    BY <2>1, <2>3 DEF PendingLimit
  <2>. QED BY <2>1, <2>2, <2>5, <2>6, <2>7 DEF IInv
<1>11. CASE UNCHANGED vars
  BY <1>1, <1>11 DEF vars, IInv, TypeOK, PendingLimit
<1>. QED
  BY <1>4, <1>5, <1>6, <1>7, <1>8, <1>9, <1>10, <1>11 DEF Next

\* The inductive invariant holds in every reachable state of the window.
THEOREM IInvCorrect == Spec => []IInv
BY InitIInv, NextIInv, PTL DEF Spec

\* The state of a peer is well typed.
THEOREM TypeCorrect == Spec => []TypeOK
<1>1. IInv => TypeOK
  BY DEF IInv
<1>. QED BY <1>1, IInvCorrect, PTL

\* The invariant the header states of (vs - nr) & modmask and i_retrans_q,
\* for every modulus and every window.
THEOREM WindowCorrect == Spec => []WindowInvariant
<1>1. IInv => WindowInvariant
  BY DEF IInv, PeerConsistent, WindowInvariant
<1>. QED BY <1>1, IInvCorrect, PTL

\* Numbers of the unacknowledged frames are consecutive, numbers of the
\* frames due again are the ones V(S) runs through, and together they span
\* no more than the window.
THEOREM NumberingCorrect ==
    Spec => [](RetransNumbered /\ TransNumbered /\ NumberingCycle)
<1>1. IInv => RetransNumbered /\ TransNumbered /\ NumberingCycle
  BY DEF IInv, PeerConsistent, RetransNumbered, TransNumbered, NumberingCycle
<1>. QED BY <1>1, IInvCorrect, PTL

\* i_pending_count counts both queues and stays within the writer's limit.
THEOREM PendingCorrect == Spec => []PendingCount
<1>1. IInv => PendingCount
  BY DEF IInv, PeerConsistent, PendingCount
<1>. QED BY <1>1, IInvCorrect, PTL

\* No frame is lost, doubled or overtaken between the writer and processNR.
THEOREM OrderCorrect == Spec => []InOrder
<1>1. IInv => InOrder
  BY DEF IInv, PeerConsistent, InOrder
<1>. QED BY <1>1, IInvCorrect, PTL

\* A number in use is the place of its frame in the stream, modulo Mod.
THEOREM OrdinalCorrect == Spec => []NumberIsOrdinal
<1>1. ASSUME IInv PROVE NumberIsOrdinal
  <2>. DEFINE q == peer.i_trans_q
              r == peer.i_retrans_q
              lq == Len(q)
              lr == Len(r)
              rs == Resend(peer)
  <2>1. /\ peer \in PeerWindow /\ PeerConsistent(peer, acked)
        /\ acked \in 0..MaxWrites
    BY <1>1 DEF IInv, TypeOK
  <2>2. acked \in Nat
    BY <2>1, MaxWritesAssumption
  <2>3. /\ lq \in Nat /\ lr \in Nat /\ rs \in SeqNum
        /\ peer.nr \in SeqNum /\ peer.vs \in SeqNum
    BY <2>1, PeerFacts
  <2>4. Mod \in Nat /\ Mod >= 2 /\ Ks \in Nat /\ Ks <= Mod - 1
    BY ModAssumption, KsAssumption
  <2>5. /\ lr = Outstanding(peer) /\ lr <= Ks
        /\ Outstanding(peer) + rs <= Ks
        /\ peer.nr = acked % Mod
        /\ \A i \in 1..lr : r[i].ns = (peer.nr + i - 1) % Mod
        /\ \A i \in 1..lr : r[i].data = acked + i
        /\ \A i \in 1..lq : q[i].data = acked + lr + i
        /\ \A i \in 1..lq :
              q[i].ns = IF i <= rs THEN (peer.vs + i - 1) % Mod ELSE NoNS
    BY <2>1 DEF PeerConsistent, OutstandingOK, CycleOK, RetransOK, TransOK, OrderOK
  <2>6. lr + rs <= Ks
    BY <2>5
  <2>7. peer.vs = (peer.nr + lr) % Mod
    BY <2>3, <2>5, DistAdd DEF Outstanding
  <2>. HIDE DEF lq, lr, rs, q, r
  <2>8. ASSUME NEW k \in 0..(Mod - 1)
        PROVE  (peer.nr + k) % Mod = (acked + k) % Mod
    BY <2>2, <2>5, ModAdd
  <2>9. ASSUME NEW i \in 1..lr
        PROVE  r[i].ns = (r[i].data - 1) % Mod
    <3>1. i - 1 \in 0..(Mod - 1)
      BY <2>3, <2>4, <2>5
    <3>2. peer.nr + i - 1 = peer.nr + (i - 1)
      BY <2>3, <2>4 DEF SeqNum
    <3>3. r[i].data - 1 = acked + (i - 1)
      BY <2>2, <2>3, <2>5
    <3>. QED BY <2>5, <2>8, <3>1, <3>2, <3>3
  <2>10. ASSUME NEW i \in 1..lq
         PROVE  q[i].ns \in {NoNS, (q[i].data - 1) % Mod}
    <3>1. CASE i <= rs
      <4>1. rs \in Nat
        BY <2>3, <2>4 DEF SeqNum
      <4>2. i - 1 \in Nat /\ lr + (i - 1) \in 0..(Mod - 1) /\ lr + (i - 1) <= Mod
        BY <2>3, <2>4, <2>6, <3>1, <4>1
      <4>3. peer.vs + i - 1 = peer.vs + (i - 1)
        BY <2>3, <2>4 DEF SeqNum
      <4>4. (peer.vs + (i - 1)) % Mod = (peer.nr + (lr + (i - 1))) % Mod
        BY <2>3, <2>7, <4>2, AddAdd
      <4>5. q[i].data - 1 = acked + (lr + (i - 1))
        BY <2>2, <2>3, <2>5
      <4>6. q[i].ns = (peer.vs + i - 1) % Mod
        BY <2>5, <3>1
      <4>. QED BY <2>8, <4>2, <4>3, <4>4, <4>5, <4>6
    <3>2. CASE ~(i <= rs)
      BY <2>5, <3>2
    <3>. QED BY <3>1, <3>2
  <2>. QED BY <2>9, <2>10 DEF NumberIsOrdinal, q, r, lq, lr
<1>. QED BY <1>1, IInvCorrect, PTL
=============================================================================
