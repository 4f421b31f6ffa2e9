--------------------------- MODULE HdlcConnProofs ---------------------------
(***************************************************************************)
(* The theorems about HdlcConn.  For every link: types, and a              *)
(* connected_count no less than the number of connected peers.  For an NRM *)
(* link of which one secondary is called: the invariant OneLink, which     *)
(* describes the primary (what a pending command, a call in progress and   *)
(* an abandoned call may look like), the secondary, and what the line may  *)
(* carry in either direction.  For an NRM link with any secondaries called:*)
(* the invariant Accord, which relates what the primary believes of a peer *)
(* to that peer and to the line.  A handler of the TX thread or the RX     *)
(* thread changes a context; one lemma for each says what it does, others  *)
(* that the invariants are kept when its context is stored.                *)
(***************************************************************************)
EXTENDS HdlcConn, FiniteSetTheorems, WellFoundedInduction, TLAPS

-----------------------------------------------------------------------------
(* Types.                                                                  *)

LineFrame ==
    {m \in [type : {"RR", "UA", "DM"} \union UCmd, cmd : BOOLEAN,
            pf : BOOLEAN, src : Station] :
        m.cmd => m.type \in {"RR"} \union UCmd}

Line == [Station -> Seq(LineFrame)]

\* What a handler of s works on.
Handled(s) ==
    [x : StationState(s), p : [PeerSet(s) -> PeerState], cm : SUBSET Flag,
     chan : Line, app : SUBSET AppFlag, to : {"on", "loop", "tail"}]

ConnectedPeers(p) == {q \in DOMAIN p : p[q].conn}

\* ss_state and connected_count, which resetPeerVars lets drift apart.
Counted(x, p) == Cardinality(ConnectedPeers(p)) <= x.connected_count

Sound(s, c) == c \in Handled(s) /\ Counted(c.x, c.p)

LEMMA PeerSetFacts ==
    ASSUME NEW s \in Station
    PROVE  /\ PeerSet(s) \subseteq Station
           /\ IsFiniteSet(PeerSet(s))
           /\ Peers(s) \in Seq(PeerSet(s))
           /\ Len(Peers(s)) \in Nat \ {0}
           /\ PeerSet(s) = {Peers(s)[i] : i \in 1..Len(Peers(s))}
<1>1. Secondaries \in Seq(Secs) /\ Len(Secondaries) \in Nat
  BY PeersAssumption DEF Secs
<1>2. DOMAIN Secondaries = 1..Len(Secondaries) /\ Len(Secondaries) # 0
  BY <1>1, PeersAssumption
<1>3. Secs = {Secondaries[i] : i \in 1..Len(Secondaries)}
  BY <1>2 DEF Secs
<1>4. IsFiniteSet(Secs)
  <2>1. IsFiniteSet(1..Len(Secondaries))
    BY <1>1, FS_Interval
  <2>. DEFINE f == [i \in 1..Len(Secondaries) |-> Secondaries[i]]
  <2>2. f \in Surjection(1..Len(Secondaries), Secs)
    <3>1. f \in [1..Len(Secondaries) -> Secs]
      BY <1>3
    <3>2. \A t \in Secs : \E i \in 1..Len(Secondaries) : f[i] = t
      BY <1>3
    <3>. QED BY <3>1, <3>2 DEF Surjection
  <2>. HIDE DEF f
  <2>. QED BY <2>1, <2>2, FS_Surjection, Zenon
<1>5. IsFiniteSet({"P"}) /\ <<"P">> \in Seq({"P"}) /\ Len(<<"P">>) = 1
  <2>1. IsFiniteSet({"P"})
    BY FS_Singleton, Zenon
  <2>. QED BY <2>1
<1>6. {"P"} = {<<"P">>[i] : i \in 1..1}
  OBVIOUS
<1>7. CASE s = "P"
  BY <1>1, <1>2, <1>3, <1>4, <1>7 DEF PeerSet, Peers, Station
<1>8. CASE s # "P"
  BY <1>5, <1>6, <1>8 DEF PeerSet, Peers, Station
<1>. QED BY <1>7, <1>8
LEMMA CountConnected ==
    ASSUME NEW s \in Station,
           NEW p \in [PeerSet(s) -> PeerState], NEW r \in [PeerSet(s) -> PeerState],
           NEW q \in PeerSet(s),
           \A o \in PeerSet(s) \ {q} : r[o].conn = p[o].conn
    PROVE  /\ IsFiniteSet(ConnectedPeers(p)) /\ Cardinality(ConnectedPeers(p)) \in Nat
           /\ Cardinality(ConnectedPeers(r)) =
                 IF r[q].conn = p[q].conn THEN Cardinality(ConnectedPeers(p))
                 ELSE IF r[q].conn THEN Cardinality(ConnectedPeers(p)) + 1
                 ELSE Cardinality(ConnectedPeers(p)) - 1
           /\ p[q].conn => Cardinality(ConnectedPeers(p)) > 0
<1>. DEFINE A == ConnectedPeers(p)
            B == ConnectedPeers(r)
<1>1. A \subseteq PeerSet(s)
  BY DEF ConnectedPeers
<1>2. IsFiniteSet(A) /\ Cardinality(A) \in Nat
  BY <1>1, PeerSetFacts, FS_Subset, FS_CardinalityType, Zenon
<1>3. r[q].conn \in BOOLEAN /\ p[q].conn \in BOOLEAN
  BY DEF PeerState
<1>4. DOMAIN p = PeerSet(s) /\ DOMAIN r = PeerSet(s)
  OBVIOUS
<1>5. /\ q \in A <=> p[q].conn
      /\ \A o \in PeerSet(s) \ {q} : o \in A <=> o \in B
      /\ q \in B <=> r[q].conn
      /\ B \subseteq PeerSet(s)
  BY <1>4 DEF ConnectedPeers
<1>. HIDE DEF A, B
<1>6. CASE r[q].conn = p[q].conn
  <2>1. A = B
    <3>1. \A o \in PeerSet(s) : o \in A <=> o \in B
      BY <1>5, <1>6, Zenon
    <3>. QED BY <1>1, <1>5, <3>1, Zenon
  <2>2. p[q].conn => Cardinality(A) # 0
    <3>1. Cardinality(A) = 0 => A = {}
      BY <1>2, FS_EmptySet, Zenon
    <3>. QED BY <1>5, <3>1
  <2>3. p[q].conn => Cardinality(A) > 0
    BY <1>2, <2>2
  <2>. QED BY <1>2, <1>6, <2>1, <2>3, Zenon DEF A, B
<1>7. CASE r[q].conn /\ ~p[q].conn
  <2>1. B = A \cup {q} /\ q \notin A
    BY <1>1, <1>5, <1>7
  <2>2. Cardinality(B) = Cardinality(A) + 1
    BY <1>2, <2>1, FS_AddElement, Zenon
  <2>. QED BY <1>2, <1>7, <2>2, Zenon DEF A, B
<1>8. CASE ~r[q].conn /\ p[q].conn
  <2>1. B = A \ {q} /\ q \in A
    BY <1>1, <1>5, <1>8
  <2>2. Cardinality(B) = Cardinality(A) - 1
    BY <1>2, <2>1, FS_RemoveElement, Zenon
  <2>3. Cardinality(A) # 0
    <3>1. Cardinality(A) = 0 => A = {}
      BY <1>2, FS_EmptySet, Zenon
    <3>. QED BY <2>1, <3>1
  <2>4. Cardinality(A) > 0
    BY <1>2, <2>3
  <2>. QED BY <1>2, <1>8, <2>2, <2>4, Zenon DEF A, B
<1>. QED BY <1>3, <1>6, <1>7, <1>8, Zenon

-----------------------------------------------------------------------------
(* What the helpers of the handlers keep.                                  *)

LEMMA ResetProtocolSound ==
    ASSUME NEW s \in Station, NEW c, Sound(s, c), NEW q \in PeerSet(s)
    PROVE  Sound(s, ResetProtocol(c, q))
<1>. DEFINE d == ResetProtocol(c, q)
<1>1. InitPeer \in PeerState /\ c.p[q] \in PeerState
  BY BoundsAssumption DEF Sound, Handled, InitPeer, PeerState, UCmd, Timer
<1>2. [InitPeer EXCEPT !.conn = c.p[q].conn] \in PeerState
  BY <1>1 DEF PeerState
<1>3. d \in Handled(s) /\ d.x = c.x /\ d.p = [c.p EXCEPT ![q] = [InitPeer EXCEPT !.conn = c.p[q].conn]]
  BY <1>2 DEF Sound, Handled, ResetProtocol
<1>. HIDE DEF d
<1>4. /\ d.p \in [PeerSet(s) -> PeerState] /\ c.p \in [PeerSet(s) -> PeerState]
      /\ \A o \in PeerSet(s) \ {q} : d.p[o].conn = c.p[o].conn
      /\ d.p[q].conn = c.p[q].conn
  BY <1>3 DEF Sound, Handled, InitPeer
<1>5. Cardinality(ConnectedPeers(d.p)) = Cardinality(ConnectedPeers(c.p))
  BY <1>4, CountConnected
<1>. QED BY <1>3, <1>5 DEF Sound, Counted, d

LEMMA ResetVarsSound ==
    ASSUME NEW s \in Station, NEW c, Sound(s, c), NEW q \in PeerSet(s)
    PROVE  /\ Sound(s, ResetVars(c, q))
           /\ ~ResetVars(c, q).p[q].conn
<1>. DEFINE d == ResetVars(c, q)
<1>1. InitPeer \in PeerState
  BY BoundsAssumption DEF InitPeer, PeerState, UCmd, Timer
<1>3. d \in Handled(s) /\ d.x = c.x /\ d.p = [c.p EXCEPT ![q] = InitPeer]
  BY <1>1 DEF Sound, Handled, ResetVars
<1>. HIDE DEF d
<1>4. /\ d.p \in [PeerSet(s) -> PeerState] /\ c.p \in [PeerSet(s) -> PeerState]
      /\ \A o \in PeerSet(s) \ {q} : d.p[o].conn = c.p[o].conn
      /\ d.p[q].conn = FALSE
  BY <1>1, <1>3 DEF Sound, Handled, InitPeer
<1>5. /\ Cardinality(ConnectedPeers(d.p)) <= Cardinality(ConnectedPeers(c.p))
      /\ Cardinality(ConnectedPeers(d.p)) \in Nat
      /\ Cardinality(ConnectedPeers(c.p)) \in Nat
  BY <1>4, CountConnected
<1>6. c.x.connected_count \in Nat
  BY DEF Sound, Handled, StationState
<1>. QED BY <1>3, <1>4, <1>5, <1>6 DEF Sound, Counted, d

LEMMA SetConnectedSound ==
    ASSUME NEW s \in Station, NEW c, Sound(s, c), NEW q \in PeerSet(s)
    PROVE  Sound(s, SetConnected(c, q))
<1>. DEFINE d == SetConnected(c, q)
            n == IF c.p[q].conn THEN c.x.connected_count ELSE c.x.connected_count + 1
<1>1. /\ c.x \in StationState(s) /\ c.p \in [PeerSet(s) -> PeerState]
      /\ c.x.connected_count \in Nat /\ c.p[q].conn \in BOOLEAN
  BY DEF Sound, Handled, StationState, PeerState
<1>2. n \in Nat
  BY <1>1
<1>3. /\ d.x = [c.x EXCEPT !.connected_count = n]
      /\ d.p = [c.p EXCEPT ![q] = [@ EXCEPT !.conn = TRUE]]
  BY DEF Sound, Handled, SetConnected
<1>4. d \in Handled(s)
  <2>1. [c.x EXCEPT !.connected_count = n] \in StationState(s)
    BY <1>1, <1>2 DEF StationState
  <2>2. [c.p[q] EXCEPT !.conn = TRUE] \in PeerState
    BY <1>1, ZenonT(40) DEF PeerState
  <2>. HIDE DEF n
  <2>3. d = [c EXCEPT !.x = [c.x EXCEPT !.connected_count = n],
                      !.p = [c.p EXCEPT ![q] = [c.p[q] EXCEPT !.conn = TRUE]]]
    BY DEF SetConnected, Sound, Handled, n
  <2>. DEFINE y == [c.x EXCEPT !.connected_count = n]
              r == [c.p[q] EXCEPT !.conn = TRUE]
  <2>. HIDE DEF d, y, r
  <2>4. d = [c EXCEPT !.x = y, !.p = [c.p EXCEPT ![q] = r]]
    BY <2>3 DEF y, r
  <2>5. y \in StationState(s) /\ r \in PeerState
    BY <2>1, <2>2 DEF y, r
  <2>6. [c.p EXCEPT ![q] = r] \in [PeerSet(s) -> PeerState]
    BY <1>1, <2>5
  <2>. QED BY <1>1, <2>4, <2>5, <2>6, Zenon DEF Sound, Handled
<1>. HIDE DEF d
<1>5. /\ d.p \in [PeerSet(s) -> PeerState]
      /\ \A o \in PeerSet(s) \ {q} : d.p[o].conn = c.p[o].conn
      /\ d.p[q].conn = TRUE
  <2>1. d.p \in [PeerSet(s) -> PeerState]
    BY <1>4 DEF Handled
  <2>2. c.p[q] \in PeerState
    BY <1>1
  <2>. QED BY <1>1, <1>3, <2>1, <2>2 DEF PeerState
<1>6. /\ Cardinality(ConnectedPeers(c.p)) \in Nat
      /\ Cardinality(ConnectedPeers(d.p)) =
            IF c.p[q].conn THEN Cardinality(ConnectedPeers(c.p))
            ELSE Cardinality(ConnectedPeers(c.p)) + 1
  BY <1>1, <1>5, CountConnected, Zenon
<1>7. d.x.connected_count = n
  BY <1>1, <1>3 DEF StationState
<1>. QED BY <1>1, <1>4, <1>6, <1>7 DEF Sound, Counted, d

LEMMA SetDisconnectedSound ==
    ASSUME NEW s \in Station, NEW c, Sound(s, c), NEW q \in PeerSet(s)
    PROVE  Sound(s, SetDisconnected(c, q))
<1>. DEFINE d == SetDisconnected(c, q)
            n == IF c.p[q].conn THEN c.x.connected_count - 1 ELSE c.x.connected_count
<1>1. /\ c.x \in StationState(s) /\ c.p \in [PeerSet(s) -> PeerState]
      /\ c.x.connected_count \in Nat /\ c.p[q].conn \in BOOLEAN
  BY DEF Sound, Handled, StationState, PeerState
<1>2. n \in Nat
  <2>1. /\ Cardinality(ConnectedPeers(c.p)) \in Nat
        /\ c.p[q].conn => Cardinality(ConnectedPeers(c.p)) > 0
    BY <1>1, CountConnected
  <2>. QED BY <1>1, <2>1 DEF Sound, Counted
<1>3. /\ d.x = [c.x EXCEPT !.connected_count = n]
      /\ d.p = [c.p EXCEPT ![q] = [@ EXCEPT !.conn = FALSE]]
  BY DEF Sound, Handled, SetDisconnected
<1>4. d \in Handled(s)
  <2>1. [c.x EXCEPT !.connected_count = n] \in StationState(s)
    BY <1>1, <1>2 DEF StationState
  <2>2. [c.p[q] EXCEPT !.conn = FALSE] \in PeerState
    BY <1>1, ZenonT(40) DEF PeerState
  <2>. HIDE DEF n
  <2>3. d = [c EXCEPT !.x = [c.x EXCEPT !.connected_count = n],
                      !.p = [c.p EXCEPT ![q] = [c.p[q] EXCEPT !.conn = FALSE]]]
    BY DEF SetDisconnected, Sound, Handled, n
  <2>. DEFINE y == [c.x EXCEPT !.connected_count = n]
              r == [c.p[q] EXCEPT !.conn = FALSE]
  <2>. HIDE DEF d, y, r
  <2>4. d = [c EXCEPT !.x = y, !.p = [c.p EXCEPT ![q] = r]]
    BY <2>3 DEF y, r
  <2>5. y \in StationState(s) /\ r \in PeerState
    BY <2>1, <2>2 DEF y, r
  <2>6. [c.p EXCEPT ![q] = r] \in [PeerSet(s) -> PeerState]
    BY <1>1, <2>5
  <2>. QED BY <1>1, <2>4, <2>5, <2>6 DEF Sound, Handled
<1>. HIDE DEF d
<1>5. /\ d.p \in [PeerSet(s) -> PeerState]
      /\ \A o \in PeerSet(s) \ {q} : d.p[o].conn = c.p[o].conn
      /\ d.p[q].conn = FALSE
  <2>1. d.p \in [PeerSet(s) -> PeerState]
    BY <1>4 DEF Handled
  <2>2. c.p[q] \in PeerState
    BY <1>1
  <2>. QED BY <1>1, <1>3, <2>1, <2>2 DEF PeerState
<1>6. /\ Cardinality(ConnectedPeers(c.p)) \in Nat
      /\ Cardinality(ConnectedPeers(d.p)) =
            IF c.p[q].conn THEN Cardinality(ConnectedPeers(c.p)) - 1
            ELSE Cardinality(ConnectedPeers(c.p))
  BY <1>1, <1>5, CountConnected
<1>7. d.x.connected_count = n
  BY <1>1, <1>3 DEF StationState
<1>. QED BY <1>1, <1>4, <1>6, <1>7 DEF Sound, Counted, d

LEMMA ApplyModeType ==
    ASSUME NEW s \in Station, NEW x \in StationState(s), NEW mode
    PROVE  /\ ApplyMode(x, mode) \in StationState(s)
           /\ ApplyMode(x, mode).connected_count = x.connected_count
<1>. DEFINE r == mode \in {"NRM", "ABM"}
            p == x.pri \/ mode = "ABM"
            f == x.f_rcved \/ mode = "ABM" \/ (mode = "NDM" /\ x.pri)
<1>1. r \in BOOLEAN /\ p \in BOOLEAN /\ f \in BOOLEAN
  OBVIOUS
<1>2. ApplyMode(x, mode) = [x EXCEPT !.rx_fn = r, !.pri = p, !.f_rcved = f]
  BY DEF ApplyMode, StationState
<1>. HIDE DEF r, p, f
<1>. QED BY <1>1, <1>2, Zenon DEF StationState

LEMMA LeaveModeSound ==
    ASSUME NEW s \in Station, NEW c, Sound(s, c)
    PROVE  Sound(s, LeaveMode(c))
<1>. DEFINE mode == IF c.x.mode = "NRM" THEN "NDM" ELSE "ADM"
            y == [c.x EXCEPT !.mode = mode]
            d == [c EXCEPT !.x = ApplyMode(y, mode)]
<1>1. c.x \in StationState(s) /\ y \in StationState(s)
      /\ y.connected_count = c.x.connected_count
  BY DEF Sound, Handled, StationState
<1>2. ApplyMode(y, mode) \in StationState(s)
      /\ ApplyMode(y, mode).connected_count = c.x.connected_count
  <2>. HIDE DEF y, mode
  <2>. QED BY <1>1, ApplyModeType
<1>3. LeaveMode(c) = IF c.x.connected_count > 0 THEN c ELSE d
  BY DEF LeaveMode, Sound, Handled
<1>. HIDE DEF y, mode
<1>4. d \in Handled(s) /\ d.p = c.p /\ d.x.connected_count = c.x.connected_count
  BY <1>2 DEF Sound, Handled
<1>5. Sound(s, d)
  BY <1>4 DEF Sound, Counted
<1>. HIDE DEF d
<1>. QED BY <1>3, <1>5

LEMMA RaiseSound ==
    ASSUME NEW s \in Station, NEW c, Sound(s, c), NEW flags \in SUBSET AppFlag
    PROVE  Sound(s, Raise(c, flags))
BY DEF Sound, Counted, Handled, Raise

LEMMA ClosePeerOrderlySound ==
    ASSUME NEW s \in Station, NEW c, Sound(s, c), NEW q \in PeerSet(s)
    PROVE  Sound(s, ClosePeerOrderly(c, q))
<1>1. Sound(s, LeaveMode(SetDisconnected(ResetProtocol(c, q), q)))
  BY ResetProtocolSound, SetDisconnectedSound, LeaveModeSound
<1>2. {f \in {"LINK_DOWN"} : c.p[q].conn} \in SUBSET AppFlag
  BY DEF AppFlag
<1>. QED BY <1>1, <1>2, RaiseSound DEF ClosePeerOrderly

LEMMA AbortPeerLinkSound ==
    ASSUME NEW s \in Station, NEW c, Sound(s, c), NEW q \in PeerSet(s)
    PROVE  Sound(s, AbortPeerLink(c, q))
BY ResetProtocolSound, SetDisconnectedSound, LeaveModeSound DEF AbortPeerLink

-----------------------------------------------------------------------------
(* ioHdlcNextPeer.                                                         *)

LEMMA LeastNumber ==
    ASSUME NEW T \in SUBSET Nat, T # {}
    PROVE  \E k \in T : \A j \in T : k <= j
<1>1. PICK k \in T : \A j \in T : ~ (<<j, k>> \in OpToRel(<, Nat))
  BY WFMin, NatLessThanWellFounded, Zenon
<1>2. \A j \in T : k <= j
  <2>. TAKE j \in T
  <2>1. <<j, k>> \notin {ss \in Nat \X Nat : ss[1] < ss[2]}
    BY <1>1 DEF OpToRel
  <2>2. ~ (j < k)
    BY <2>1
  <2>. QED BY <2>2
<1>. QED BY <1>2

LEMMA RoundList ==
    ASSUME NEW n \in Nat \ {0}, NEW a \in Int, 0 <= a, a < 2 * n
    PROVE  a % n = IF a < n THEN a ELSE a - n
BY SMTT(30)

\* Whom ioHdlcNextPeer looks for.
Matches(c, q, pendingOnly) ==
    IF pendingOnly THEN ~c.p[q].conn /\ c.p[q].um_cmd # "none"
    ELSE c.p[q].conn \/ c.p[q].um_cmd # "none"

\* It finds a peer that matches when there is one, and stays where it is when
\* there is none.
LEMMA NextPeerFinds ==
    ASSUME NEW s \in Station, NEW c, c.x.c_peer \in PeerSet(s), NEW b \in BOOLEAN
    PROVE  /\ NextPeer(s, c, b) \in PeerSet(s)
           /\ (\A q \in PeerSet(s) : ~Matches(c, q, b)) => NextPeer(s, c, b) = c.x.c_peer
           /\ (\E q \in PeerSet(s) : Matches(c, q, b)) => Matches(c, NextPeer(s, c, b), b)
<1>. DEFINE P == Peers(s)
            n == Len(P)
            here == CHOOSE i \in 1..n : P[i] = c.x.c_peer
            nth(k) == P[((here - 1 + k) % n) + 1]
            M(k) == Matches(c, nth(k), b)
            first(k) == M(k) /\ \A j \in 1..(k - 1) : ~M(j)
<1>1. /\ P \in Seq(PeerSet(s)) /\ n \in Nat \ {0}
      /\ PeerSet(s) = {P[i] : i \in 1..n}
  BY PeerSetFacts, Zenon
<1>2. here \in 1..n
  <2>1. \E i \in 1..n : P[i] = c.x.c_peer
    BY <1>1, Zenon
  <2>. QED BY <2>1
<1>3. NextPeer(s, c, b) =
         IF \A k \in 1..n : ~M(k) THEN c.x.c_peer
         ELSE nth(CHOOSE k \in 1..n : first(k))
  BY Zenon DEF NextPeer, Matches
<1>. HIDE DEF P, n, here
<1>4. \A k \in 1..n : ((here - 1 + k) % n) + 1 \in 1..n
  <2>. TAKE k \in 1..n
  <2>. DEFINE a == here - 1 + k
  <2>1. a \in Int /\ 0 <= a /\ a < 2 * n
    BY <1>1, <1>2
  <2>2. a % n = IF a < n THEN a ELSE a - n
    BY <1>1, <2>1, RoundList, Zenon
  <2>. QED BY <1>1, <2>1, <2>2, SMTT(30)
<1>5. \A k \in 1..n : nth(k) \in PeerSet(s)
  BY <1>1, <1>4, Zenon
<1>6. \A q \in PeerSet(s) : \E k \in 1..n : nth(k) = q
  <2>. TAKE q \in PeerSet(s)
  <2>1. PICK i \in 1..n : P[i] = q
    BY <1>1
  <2>. DEFINE k == IF i > here THEN i - here ELSE i - here + n
              a == here - 1 + k
  <2>2. k \in 1..n /\ a \in Int /\ 0 <= a /\ a < 2 * n
        /\ (IF a < n THEN a ELSE a - n) = i - 1
    BY <1>1, <1>2
  <2>. HIDE DEF k
  <2>3. a % n = i - 1
    BY <1>1, <2>2, RoundList, Zenon
  <2>4. (a % n) + 1 = i
    BY <1>1, <2>3
  <2>5. nth(k) = q
    BY <2>1, <2>4
  <2>. QED BY <2>2, <2>5
<1>7. ASSUME \E k \in 1..n : M(k)
      PROVE  \E k \in 1..n : first(k)
  <2>. DEFINE T == {k \in 1..n : M(k)}
  <2>1. T \in SUBSET Nat /\ T # {}
    <3>1. 1..n \subseteq Nat
      BY <1>1
    <3>. HIDE DEF M
    <3>. QED BY <1>7, <3>1, Zenon
  <2>. HIDE DEF T
  <2>2. PICK k \in T : \A j \in T : k <= j
    BY <2>1, LeastNumber
  <2>3. k \in 1..n /\ M(k)
    BY <2>2, Zenon DEF T
  <2>4. \A j \in 1..(k - 1) : j \in 1..n /\ j \notin T
    <3>. TAKE j \in 1..(k - 1)
    <3>1. j \in 1..n /\ j < k
      BY <1>1, <2>3
    <3>2. j \in T => k <= j
      BY <2>2
    <3>. QED BY <1>1, <2>3, <3>1, <3>2
  <2>5. \A j \in 1..(k - 1) : ~M(j)
    BY <2>4, Zenon DEF T
  <2>. QED BY <2>3, <2>5, Zenon
<1>. HIDE DEF nth
<1>8. CASE \A k \in 1..n : ~M(k)
  <2>1. NextPeer(s, c, b) = c.x.c_peer
    BY <1>3, <1>8, Zenon
  <2>2. \A q \in PeerSet(s) : ~Matches(c, q, b)
    BY <1>6, <1>8, Zenon
  <2>. QED BY <2>1, <2>2, Zenon
<1>9. CASE \E k \in 1..n : M(k)
  <2>. DEFINE k == CHOOSE k \in 1..n : first(k)
  <2>1. k \in 1..n /\ first(k)
    BY <1>7, <1>9, Zenon
  <2>. HIDE DEF k
  <2>2. NextPeer(s, c, b) = nth(k)
    BY <1>3, <1>9, Zenon DEF k
  <2>3. nth(k) \in PeerSet(s) /\ Matches(c, nth(k), b)
    BY <1>5, <2>1, Zenon
  <2>. QED BY <2>2, <2>3, Zenon
<1>. QED BY <1>8, <1>9, Zenon

-----------------------------------------------------------------------------
(* What the stages of the TX thread and the handlers of frames keep.       *)

LEMMA SoundFacts ==
    ASSUME NEW s \in Station, NEW c, Sound(s, c)
    PROVE  /\ c.x \in StationState(s) /\ c.p \in [PeerSet(s) -> PeerState]
           /\ c.cm \in SUBSET Flag /\ c.chan \in Line
           /\ c.app \in SUBSET AppFlag /\ c.to \in {"on", "loop", "tail"}
           /\ c.x.c_peer \in PeerSet(s) /\ c.x.c_peer \in Station
           /\ c = [x |-> c.x, p |-> c.p, cm |-> c.cm, chan |-> c.chan,
                   app |-> c.app, to |-> c.to]
<1>1. c \in Handled(s)
  BY DEF Sound
<1>2. c.x.c_peer \in PeerSet(s)
  BY <1>1 DEF Handled, StationState
<1>3. c.x.c_peer \in Station
  BY <1>2, PeerSetFacts, Zenon
<1>. QED BY <1>1, <1>2, <1>3 DEF Handled

\* A change that leaves ss_state and connected_count alone.
LEMMA StaysSound ==
    ASSUME NEW s \in Station, NEW c, Sound(s, c), NEW d \in Handled(s),
           d.x.connected_count = c.x.connected_count,
           \A q \in PeerSet(s) : d.p[q].conn = c.p[q].conn
    PROVE  Sound(s, d)
<1>1. DOMAIN d.p = PeerSet(s) /\ DOMAIN c.p = PeerSet(s)
  BY SoundFacts DEF Handled
<1>2. ConnectedPeers(d.p) = ConnectedPeers(c.p)
  BY <1>1 DEF ConnectedPeers
<1>. QED BY <1>2 DEF Sound, Counted

\* A change of the station and of one peer.
LEMMA UpdateSound ==
    ASSUME NEW s \in Station, NEW c, Sound(s, c), NEW q \in PeerSet(s),
           NEW x \in StationState(s), x.connected_count = c.x.connected_count,
           NEW v \in PeerState, v.conn = c.p[q].conn
    PROVE  Sound(s, [c EXCEPT !.x = x, !.p = [c.p EXCEPT ![q] = v]])
<1>. DEFINE r == [c.p EXCEPT ![q] = v]
            d == [c EXCEPT !.x = x, !.p = r]
<1>1. c.p \in [PeerSet(s) -> PeerState]
  BY SoundFacts
<1>2. r \in [PeerSet(s) -> PeerState] /\ \A o \in PeerSet(s) : r[o].conn = c.p[o].conn
  BY <1>1
<1>. HIDE DEF r
<1>3. d \in Handled(s) /\ d.x = x /\ d.p = r
  BY <1>2, Zenon DEF Sound, Handled
<1>. HIDE DEF d
<1>4. d.x.connected_count = c.x.connected_count
  BY <1>3
<1>5. \A o \in PeerSet(s) : d.p[o].conn = c.p[o].conn
  BY <1>2, <1>3
<1>6. Sound(s, d)
  BY <1>3, <1>4, <1>5, StaysSound
<1>. QED BY <1>6 DEF d, r

\* A change of what is not counted.
LEMMA AroundSound ==
    ASSUME NEW s \in Station, NEW c, Sound(s, c),
           NEW cm \in SUBSET Flag, NEW to \in {"on", "loop", "tail"}
    PROVE  /\ Sound(s, [c EXCEPT !.cm = cm])
           /\ Sound(s, [c EXCEPT !.to = to])
           /\ Sound(s, [c EXCEPT !.cm = cm, !.to = to])
BY SoundFacts, Zenon DEF Sound, Counted, Handled

LEMMA SendSound ==
    ASSUME NEW s \in Station, NEW c, Sound(s, c),
           NEW type \in {"RR", "UA", "DM"} \union UCmd, NEW cmd \in BOOLEAN, NEW pf \in BOOLEAN,
           cmd => type \in {"RR"} \union UCmd
    PROVE  Sound(s, Send(s, c, type, cmd, pf))
<1>. DEFINE m == [type |-> type, cmd |-> cmd, pf |-> pf, src |-> s]
            line == [c.chan EXCEPT ![c.x.c_peer] = Append(@, m)]
            q == c.x.c_peer
<1>1. m \in LineFrame
  BY DEF LineFrame
<1>2. c.chan \in [Station -> Seq(LineFrame)] /\ q \in Station
  BY SoundFacts DEF Line
<1>. HIDE DEF m
<1>3. line \in Line
  BY <1>1, <1>2 DEF Line
<1>4. Send(s, c, type, cmd, pf) = [c EXCEPT !.chan = line]
  BY SoundFacts DEF Send, m
<1>. HIDE DEF line
<1>5. Send(s, c, type, cmd, pf) \in Handled(s)
      /\ Send(s, c, type, cmd, pf).x = c.x /\ Send(s, c, type, cmd, pf).p = c.p
  BY <1>3, <1>4 DEF Sound, Handled
<1>. QED BY <1>5 DEF Sound

LEMMA MoveToNextSound ==
    ASSUME NEW s \in Station, NEW c, Sound(s, c), NEW b \in BOOLEAN
    PROVE  Sound(s, MoveToNext(s, c, b))
<1>. DEFINE q == NextPeer(s, c, b)
            d == MoveToNext(s, c, b)
<1>1. q \in PeerSet(s)
  BY SoundFacts, NextPeerFinds
<1>2. d = [c EXCEPT !.x = [c.x EXCEPT !.c_peer = q]]
  BY SoundFacts DEF MoveToNext
<1>. HIDE DEF q, d
<1>3. [c.x EXCEPT !.c_peer = q] \in StationState(s)
      /\ [c.x EXCEPT !.c_peer = q].connected_count = c.x.connected_count
  BY <1>1, SoundFacts DEF StationState
<1>4. d \in Handled(s) /\ d.p = c.p /\ d.x.connected_count = c.x.connected_count
  BY <1>2, <1>3, Zenon DEF Sound, Handled
<1>. QED BY <1>4, StaysSound DEF d

LEMMA PolledSound ==
    ASSUME NEW s \in Station, NEW c, Sound(s, c)
    PROVE  Sound(s, Polled(c))
<1>. DEFINE q == c.x.c_peer
            t == IF c.x.mode = "NRM" /\ c.x.pri THEN "off" ELSE c.p[q].t3
            x == [c.x EXCEPT !.f_rcved = FALSE]
            v == [c.p[q] EXCEPT !.t1 = "armed", !.t3 = t]
<1>1. q \in PeerSet(s) /\ c.p[q] \in PeerState
  BY SoundFacts
<1>2. x \in StationState(s) /\ x.connected_count = c.x.connected_count
  BY SoundFacts, ZenonT(40) DEF StationState
<1>3. v \in PeerState /\ v.conn = c.p[q].conn
  BY <1>1, Zenon DEF PeerState, Timer
<1>4. Polled(c) = [c EXCEPT !.x = x, !.p = [c.p EXCEPT ![q] = v]]
  <2>1. [c.p EXCEPT ![q].t1 = "armed", ![q].t3 = t] = [c.p EXCEPT ![q] = v]
    BY <1>1, SoundFacts, Zenon
  <2>2. Polled(c) = [c EXCEPT !.x = x, !.p = [c.p EXCEPT ![q].t1 = "armed", ![q].t3 = t]]
    BY SoundFacts, ZenonT(40) DEF Polled
  <2>. QED BY <2>1, <2>2, Zenon
<1>. HIDE DEF x, v, q
<1>5. Sound(s, [c EXCEPT !.x = x, !.p = [c.p EXCEPT ![q] = v]])
  BY <1>1, <1>2, <1>3, UpdateSound, Zenon
<1>. QED BY <1>4, <1>5, Zenon

LEMMA WithStation ==
    ASSUME NEW s \in Station, NEW c, Sound(s, c),
           NEW x \in StationState(s), x.connected_count = c.x.connected_count
    PROVE  Sound(s, [c EXCEPT !.x = x])
<1>. DEFINE d == [c EXCEPT !.x = x]
<1>1. d \in Handled(s) /\ d.x = x /\ d.p = c.p
  BY DEF Sound, Handled
<1>. HIDE DEF d
<1>2. d.x.connected_count = c.x.connected_count
  BY <1>1
<1>3. Sound(s, d)
  BY <1>1, <1>2, StaysSound
<1>. QED BY <1>3 DEF d

LEMMA WithPeer ==
    ASSUME NEW s \in Station, NEW c, Sound(s, c), NEW q \in PeerSet(s),
           NEW v \in PeerState, v.conn = c.p[q].conn
    PROVE  Sound(s, [c EXCEPT !.p = [c.p EXCEPT ![q] = v]])
<1>. DEFINE r == [c.p EXCEPT ![q] = v]
            d == [c EXCEPT !.p = r]
<1>1. c.p \in [PeerSet(s) -> PeerState]
  BY SoundFacts
<1>2. r \in [PeerSet(s) -> PeerState] /\ \A o \in PeerSet(s) : r[o].conn = c.p[o].conn
  BY <1>1
<1>. HIDE DEF r
<1>3. d \in Handled(s) /\ d.x = c.x /\ d.p = r
  BY <1>2 DEF Sound, Handled
<1>. HIDE DEF d
<1>4. d.x.connected_count = c.x.connected_count
  BY <1>3
<1>5. \A o \in PeerSet(s) : d.p[o].conn = c.p[o].conn
  BY <1>2, <1>3
<1>6. Sound(s, d)
  BY <1>3, <1>4, <1>5, StaysSound
<1>. QED BY <1>6 DEF d, r

LEMMA FinalReceived ==
    ASSUME NEW s \in Station, NEW c, Sound(s, c), NEW b \in BOOLEAN
    PROVE  Sound(s, [c EXCEPT !.x.f_rcved = b])
<1>. DEFINE x == [c.x EXCEPT !.f_rcved = b]
<1>1. x \in StationState(s) /\ x.connected_count = c.x.connected_count
  BY SoundFacts DEF StationState
<1>2. [c EXCEPT !.x.f_rcved = b] = [c EXCEPT !.x = x]
  OBVIOUS
<1>. HIDE DEF x
<1>3. Sound(s, [c EXCEPT !.x = x])
  BY <1>1, WithStation
<1>. QED BY <1>2, <1>3, Zenon

LEMMA PollReceived ==
    ASSUME NEW s \in Station, NEW c, Sound(s, c), NEW b \in BOOLEAN
    PROVE  Sound(s, [c EXCEPT !.x.p_rcved = b])
<1>. DEFINE x == [c.x EXCEPT !.p_rcved = b]
<1>1. x \in StationState(s) /\ x.connected_count = c.x.connected_count
  BY SoundFacts DEF StationState
<1>2. [c EXCEPT !.x.p_rcved = b] = [c EXCEPT !.x = x]
  OBVIOUS
<1>. HIDE DEF x
<1>3. Sound(s, [c EXCEPT !.x = x])
  BY <1>1, WithStation
<1>. QED BY <1>2, <1>3, Zenon

LEMMA NeedPoll ==
    ASSUME NEW s \in Station, NEW c, Sound(s, c), NEW q \in PeerSet(s), NEW b \in BOOLEAN
    PROVE  Sound(s, [c EXCEPT !.p[q].need_p = b])
<1>. DEFINE v == [c.p[q] EXCEPT !.need_p = b]
<1>1. v \in PeerState /\ v.conn = c.p[q].conn
  <2>1. c.p[q] \in PeerState
    BY SoundFacts
  <2>. QED BY <2>1 DEF PeerState
<1>2. [c EXCEPT !.p[q].need_p = b] = [c EXCEPT !.p = [c.p EXCEPT ![q] = v]]
  OBVIOUS
<1>. HIDE DEF v
<1>3. Sound(s, [c EXCEPT !.p = [c.p EXCEPT ![q] = v]])
  BY <1>1, WithPeer
<1>. QED BY <1>2, <1>3, Zenon

LEMMA TimeoutRetrySound ==
    ASSUME NEW s \in Station, NEW c, Sound(s, c), NEW q \in PeerSet(s)
    PROVE  Sound(s, TimeoutRetry(c, q))
<1>1. c.p[q] \in PeerState
  BY SoundFacts
<1>2. CASE ~Exhausted(c, q)
  <2>. DEFINE v == [c.p[q] EXCEPT !.retry = c.p[q].retry + 1]
  <2>1. v \in PeerState /\ v.conn = c.p[q].conn
    BY <1>1, <1>2, BoundsAssumption DEF Exhausted, PeerState
  <2>2. TimeoutRetry(c, q) = [c EXCEPT !.p = [c.p EXCEPT ![q] = v]]
    BY <1>2 DEF TimeoutRetry
  <2>. HIDE DEF v
  <2>3. Sound(s, [c EXCEPT !.p = [c.p EXCEPT ![q] = v]])
    BY <2>1, WithPeer
  <2>. QED BY <2>2, <2>3, Zenon
<1>3. CASE Exhausted(c, q)
  <2>. DEFINE d == Raise(AbortPeerLink(c, q), {f \in {"LINK_LOST"} : c.p[q].conn})
  <2>1. {f \in {"LINK_LOST"} : c.p[q].conn} \in SUBSET AppFlag
    BY DEF AppFlag
  <2>2. Sound(s, d)
    BY <2>1, AbortPeerLinkSound, RaiseSound
  <2>3. TimeoutRetry(c, q) = [d EXCEPT !.x.f_rcved = TRUE]
    BY <1>3 DEF TimeoutRetry
  <2>. HIDE DEF d
  <2>. QED BY <2>2, <2>3, FinalReceived, Zenon
<1>. QED BY <1>2, <1>3

LEMMA ServeRequestSound ==
    ASSUME NEW s \in Station, NEW c, Sound(s, c)
    PROVE  Sound(s, ServeRequest(s, c))
<1>. DEFINE d == MoveToNext(s, c, TRUE)
<1>1. Sound(s, d)
  BY MoveToNextSound, Zenon
<1>2. d.cm \ {"LINK_REQ", "C_RPLYTMO"} \in SUBSET Flag
  BY <1>1, SoundFacts, Zenon
<1>3. Sound(s, [d EXCEPT !.to = "loop", !.cm = @ \ {"LINK_REQ", "C_RPLYTMO"}])
  <2>1. [d EXCEPT !.to = "loop", !.cm = @ \ {"LINK_REQ", "C_RPLYTMO"}]
           = [d EXCEPT !.cm = d.cm \ {"LINK_REQ", "C_RPLYTMO"}, !.to = "loop"]
    <3>. HIDE DEF d
    <3>. QED BY <1>1, Zenon DEF Sound, Handled
  <2>. HIDE DEF d
  <2>2. Sound(s, [d EXCEPT !.cm = d.cm \ {"LINK_REQ", "C_RPLYTMO"}, !.to = "loop"])
    BY <1>1, <1>2, AroundSound, Zenon
  <2>. QED BY <2>1, <2>2, Zenon
<1>4. ServeRequest(s, c) \in {c, d, [d EXCEPT !.to = "loop", !.cm = @ \ {"LINK_REQ", "C_RPLYTMO"}]}
  BY Zenon DEF ServeRequest
<1>. HIDE DEF d
<1>. QED BY <1>1, <1>3, <1>4

LEMMA ServeRetrySound ==
    ASSUME NEW s \in Station, NEW c, Sound(s, c)
    PROVE  Sound(s, ServeRetry(s, c))
<1>. DEFINE q == c.x.c_peer
            d == TimeoutRetry(c, q)
            e == MoveToNext(s, d, FALSE)
<1>1. Sound(s, d)
  BY SoundFacts, TimeoutRetrySound
<1>. HIDE DEF d
<1>2. Sound(s, e)
  BY <1>1, MoveToNextSound, Zenon
<1>. HIDE DEF e
<1>3. Sound(s, [e EXCEPT !.cm = {}, !.to = "loop"])
  BY <1>2, AroundSound, Zenon
<1>4. [e EXCEPT !.to = "loop", !.cm = {}] = [e EXCEPT !.cm = {}, !.to = "loop"]
  BY <1>2, Zenon DEF Sound, Handled
<1>5. ServeRetry(s, c) \in {c, d, [e EXCEPT !.to = "loop", !.cm = {}]}
  BY Zenon DEF ServeRetry, d, e
<1>. QED BY <1>1, <1>3, <1>4, <1>5

LEMMA SendCommandSound ==
    ASSUME NEW s \in Station, NEW c, Sound(s, c)
    PROVE  Sound(s, SendCommand(s, c))
<1>. DEFINE q == c.x.c_peer
            left == c.cm \ {"LINK_REQ", "C_RPLYTMO"}
            b == c.x.f_rcved \/ (TWA /\ ~c.p[q].conn /\ c.p[q].um_cmd = SetMode)
            c1 == [[c EXCEPT !.cm = left] EXCEPT !.x.f_rcved = b]
            c2 == Polled(Send(s, c1, c.p[q].um_cmd, TRUE, TRUE))
<1>1. left \in SUBSET Flag /\ c.x \in StationState(s) /\ q \in PeerSet(s) /\ c.p[q] \in PeerState
  BY SoundFacts
<1>2. b \in BOOLEAN /\ c.p[q].um_cmd \in UCmd
  BY <1>1, SMTT(30) DEF StationState, PeerState
<1>. HIDE DEF left, b
<1>3. Sound(s, c1)
  BY <1>1, <1>2, AroundSound, FinalReceived, Zenon
<1>4. c1 = [c EXCEPT !.cm = left, !.x.f_rcved = b]
  BY DEF Sound, Handled
<1>. HIDE DEF c1
<1>5. Sound(s, c2)
  BY <1>2, <1>3, SendSound, PolledSound, Zenon
<1>6. Sound(s, [c1 EXCEPT !.to = "loop"])
  BY <1>3, AroundSound, Zenon
<1>. DEFINE v == [c2.p[q] EXCEPT !.sent = TRUE]
<1>. HIDE DEF c2
<1>7. v \in PeerState /\ v.conn = c2.p[q].conn
  <2>1. c2.p[q] \in PeerState
    BY <1>1, <1>5, SoundFacts
  <2>. QED BY <2>1, Zenon DEF PeerState
<1>8. [c2 EXCEPT !.p[q].sent = TRUE] = [c2 EXCEPT !.p = [c2.p EXCEPT ![q] = v]]
  OBVIOUS
<1>. HIDE DEF v
<1>9. Sound(s, [c2 EXCEPT !.p[q].sent = TRUE])
  <2>1. Sound(s, [c2 EXCEPT !.p = [c2.p EXCEPT ![q] = v]])
    BY <1>1, <1>5, <1>7, WithPeer
  <2>. QED BY <1>8, <2>1, Zenon
<1>10. SendCommand(s, c) \in {c, [c1 EXCEPT !.to = "loop"], [c2 EXCEPT !.p[q].sent = TRUE]}
  BY <1>4, Zenon DEF SendCommand, c2, left, b
<1>. QED BY <1>6, <1>9, <1>10

LEMMA ServeCommandSound ==
    ASSUME NEW s \in Station, NEW c, Sound(s, c)
    PROVE  Sound(s, ServeCommand(s, c))
<1>. DEFINE d == ServeRequest(s, c)
            e == SendCommand(s, ServeRetry(s, d))
<1>1. Sound(s, d)
  BY ServeRequestSound
<1>2. ServeCommand(s, c) \in {c, e, [d EXCEPT !.to = "loop", !.cm = {}]}
  BY Zenon DEF ServeCommand
<1>. HIDE DEF d
<1>3. Sound(s, e)
  BY <1>1, ServeRetrySound, SendCommandSound
<1>. HIDE DEF e
<1>4. Sound(s, [d EXCEPT !.cm = {}, !.to = "loop"])
  BY <1>1, AroundSound
<1>5. [d EXCEPT !.to = "loop", !.cm = {}] = [d EXCEPT !.cm = {}, !.to = "loop"]
  BY <1>1 DEF Sound, Handled
<1>. QED BY <1>2, <1>3, <1>4, <1>5

LEMMA ServeResponseSound ==
    ASSUME NEW s \in Station, NEW c, Sound(s, c)
    PROVE  Sound(s, ServeResponse(s, c))
<1>. DEFINE q == c.x.c_peer
            m == Send(s, c, c.p[q].um_rsp, FALSE, c.x.p_rcved)
            y == [m.x EXCEPT !.p_rcved = FALSE]
            v == [m.p[q] EXCEPT !.rcved = FALSE]
            left == m.cm \ {"UM_RECVD"}
            c1 == [[m EXCEPT !.cm = left] EXCEPT !.x = y, !.p = [m.p EXCEPT ![q] = v]]
<1>1. c.x \in StationState(s) /\ q \in PeerSet(s) /\ c.p[q] \in PeerState
  BY SoundFacts
<1>2. c.x.p_rcved \in BOOLEAN /\ c.p[q].um_rsp \in {"UA", "DM"} \union UCmd
  BY <1>1 DEF StationState, PeerState, UCmd
<1>3. Sound(s, m)
  BY <1>2, SendSound, Zenon
<1>4. c1 = [m EXCEPT !.cm = @ \ {"UM_RECVD"}, !.p[q].rcved = FALSE, !.x.p_rcved = FALSE]
  <2>. HIDE DEF m
  <2>. QED BY <1>3, Zenon DEF Sound, Handled
<1>5. ServeResponse(s, c) \in {c, c1, ClosePeerOrderly(c1, q)}
  <2>. HIDE DEF c1, q
  <2>. QED BY <1>4, Zenon DEF ServeResponse, m, q
<1>. HIDE DEF m
<1>6. /\ y \in StationState(s) /\ y.connected_count = m.x.connected_count
      /\ v \in PeerState /\ v.conn = m.p[q].conn
      /\ left \in SUBSET Flag
  <2>1. m.x \in StationState(s) /\ m.p[q] \in PeerState /\ m.cm \in SUBSET Flag
    BY <1>1, <1>3, SoundFacts
  <2>. QED BY <2>1, Zenon DEF StationState, PeerState
<1>. HIDE DEF y, v, left
<1>7. Sound(s, [m EXCEPT !.cm = left])
      /\ [m EXCEPT !.cm = left].x = m.x /\ [m EXCEPT !.cm = left].p = m.p
  <2>1. Sound(s, [m EXCEPT !.cm = left])
    BY <1>3, <1>6, AroundSound, Zenon
  <2>. QED BY <1>3, <2>1 DEF Sound, Handled
<1>8. Sound(s, c1)
  <2>. DEFINE n == [m EXCEPT !.cm = left]
  <2>. HIDE DEF n
  <2>1. Sound(s, n) /\ n.x = m.x /\ n.p = m.p
    BY <1>7 DEF n
  <2>2. Sound(s, [n EXCEPT !.x = y, !.p = [n.p EXCEPT ![q] = v]])
    BY <1>1, <1>6, <2>1, UpdateSound, Zenon
  <2>. QED BY <2>1, <2>2 DEF n
<1>9. Sound(s, ClosePeerOrderly(c1, q))
  BY <1>1, <1>8, ClosePeerOrderlySound
<1>. QED BY <1>5, <1>8, <1>9

LEMMA ServeDisconnectedSound ==
    ASSUME NEW s \in Station, NEW c, Sound(s, c)
    PROVE  Sound(s, ServeDisconnected(s, c))
<1>. DEFINE d == MoveToNext(s, c, FALSE)
            next == d.x.c_peer
            e == [d EXCEPT !.p[next].need_p = TRUE]
            cm1 == c.cm \ {"LINK_ST_CHG"}
            cm2 == c.cm \intersect {"C_RPLYTMO", "LINK_REQ"}
            r1 == [c EXCEPT !.cm = cm1]
            r2 == [d EXCEPT !.to = "loop", !.cm = {"LINK_ST_CHG"}, !.p[next].need_p = TRUE]
            r3 == [d EXCEPT !.to = "loop", !.cm = {}]
            r4 == [c EXCEPT !.to = "loop", !.cm = cm2]
<1>1. ServeDisconnected(s, c) \in {c, r1, r2, r3, r4}
  <2>1. r1 = [c EXCEPT !.cm = @ \ {"LINK_ST_CHG"}]
        /\ r4 = [c EXCEPT !.to = "loop", !.cm = @ \intersect {"C_RPLYTMO", "LINK_REQ"}]
    <3>. HIDE DEF d
    <3>. QED OBVIOUS
  <2>. HIDE DEF r1, r4
  <2>. QED BY <2>1, Zenon DEF ServeDisconnected
<1>2. Sound(s, d) /\ next \in PeerSet(s)
  BY MoveToNextSound, SoundFacts, Zenon
<1>. HIDE DEF d
<1>3. Sound(s, e)
  BY <1>2, NeedPoll, Zenon
<1>4. /\ {"LINK_ST_CHG"} \in SUBSET Flag /\ {} \in SUBSET Flag
      /\ cm1 \in SUBSET Flag /\ cm2 \in SUBSET Flag
  BY SoundFacts DEF Flag
<1>. HIDE DEF cm1, cm2
<1>5. Sound(s, r1)
  BY <1>4, AroundSound, ZenonT(40)
<1>6. Sound(s, r2)
  <2>1. r2 = [e EXCEPT !.cm = {"LINK_ST_CHG"}, !.to = "loop"]
    BY <1>2, Zenon DEF Sound, Handled
  <2>. HIDE DEF e, r2
  <2>. QED BY <1>3, <1>4, <2>1, AroundSound, Zenon
<1>7. Sound(s, r3)
  <2>1. r3 = [d EXCEPT !.cm = {}, !.to = "loop"]
    BY <1>2, Zenon DEF Sound, Handled
  <2>. HIDE DEF r3
  <2>. QED BY <1>2, <1>4, <2>1, AroundSound, Zenon
<1>8. Sound(s, r4)
  <2>1. r4 = [c EXCEPT !.cm = cm2, !.to = "loop"]
    BY Zenon DEF Sound, Handled
  <2>. HIDE DEF r4
  <2>. QED BY <1>4, <2>1, AroundSound, Zenon
<1>. HIDE DEF r1, r2, r3, r4
<1>. QED BY <1>1, <1>5, <1>6, <1>7, <1>8

LEMMA ServeTimersSound ==
    ASSUME NEW s \in Station, NEW c, Sound(s, c)
    PROVE  Sound(s, ServeTimers(c))
<1>. DEFINE q == c.x.c_peer
            left == c.cm \ {"C_RPLYTMO", "T3_TMO", "LINE_IDLE"}
            some == c.cm \ {"C_RPLYTMO", "LINE_IDLE"}
            t1 == "C_RPLYTMO" \in c.cm /\ c.p[q].t1 = "expired"
            d == TimeoutRetry(c, q)
            e == [d EXCEPT !.p[q].need_p = TRUE, !.x.f_rcved = TRUE]
            c1 == IF t1 THEN e ELSE c
            b == c1.p[q].need_p \/ (c.x.mode = "NRM" /\ c.x.pri)
            r1 == [c EXCEPT !.to = "loop"]
            r2 == [d EXCEPT !.to = "loop", !.cm = some]
            r3 == [c1 EXCEPT !.to = "tail", !.cm = left, !.p[q].t3 = "off",
                             !.p[q].need_p = b]
            r4 == [c1 EXCEPT !.to = "tail", !.cm = left]
<1>1. q \in PeerSet(s) /\ left \in SUBSET Flag /\ some \in SUBSET Flag
  BY SoundFacts
<1>2. Sound(s, d)
  BY <1>1, TimeoutRetrySound
<1>3. d.cm = c.cm
  BY DEF TimeoutRetry, Raise, AbortPeerLink, LeaveMode, SetDisconnected, ResetProtocol
<1>4. ServeTimers(c) \in {c, r1, r2, r3, r4}
  <2>1. r2 = [d EXCEPT !.to = "loop", !.cm = @ \ {"C_RPLYTMO", "LINE_IDLE"}]
    BY <1>2, <1>3 DEF Sound, Handled
  <2>2. r3 = [c1 EXCEPT !.to = "tail", !.cm = left, !.p[q].t3 = "off",
                        !.p[q].need_p = @ \/ (c.x.mode = "NRM" /\ c.x.pri)]
    <3>. HIDE DEF c1
    <3>. QED OBVIOUS
  <2>3. ServeTimers(c) =
           IF c.to # "on" THEN c
           ELSE IF c.x.mode \notin {"NRM", "ABM"} THEN r1
           ELSE IF t1 /\ Exhausted(c, q)
                THEN [d EXCEPT !.to = "loop", !.cm = @ \ {"C_RPLYTMO", "LINE_IDLE"}]
           ELSE IF "T3_TMO" \in c.cm /\ c.p[q].t3 = "expired"
                THEN [c1 EXCEPT !.to = "tail", !.cm = left, !.p[q].t3 = "off",
                                !.p[q].need_p = @ \/ (c.x.mode = "NRM" /\ c.x.pri)]
           ELSE r4
    BY DEF ServeTimers
  <2>4. ServeTimers(c) =
           IF c.to # "on" THEN c
           ELSE IF c.x.mode \notin {"NRM", "ABM"} THEN r1
           ELSE IF t1 /\ Exhausted(c, q) THEN r2
           ELSE IF "T3_TMO" \in c.cm /\ c.p[q].t3 = "expired" THEN r3
           ELSE r4
    <3>. HIDE DEF r1, r2, r3, r4, d, c1, t1
    <3>. QED BY <2>1, <2>2, <2>3, Zenon
  <2>. HIDE DEF r1, r2, r3, r4, t1
  <2>. QED BY <2>4, Zenon
<1>5. Sound(s, e)
  <2>. DEFINE f == [d EXCEPT !.p[q].need_p = TRUE]
  <2>1. Sound(s, f)
    BY <1>1, <1>2, NeedPoll, Zenon
  <2>2. e = [f EXCEPT !.x.f_rcved = TRUE]
    BY <1>2 DEF Sound, Handled
  <2>. HIDE DEF e, f
  <2>. QED BY <2>1, <2>2, FinalReceived, Zenon
<1>. HIDE DEF d, e
<1>6. Sound(s, c1)
  BY <1>5
<1>7. b \in BOOLEAN
  BY SMTT(30)
<1>. HIDE DEF c1, b, left, some
<1>8. Sound(s, r1)
  BY AroundSound, ZenonT(40)
<1>9. Sound(s, r2)
  <2>1. r2 = [d EXCEPT !.cm = some, !.to = "loop"]
    BY <1>2, Zenon DEF Sound, Handled
  <2>. HIDE DEF r2
  <2>. QED BY <1>1, <1>2, <2>1, AroundSound, Zenon
<1>10. Sound(s, r4)
  <2>1. r4 = [c1 EXCEPT !.cm = left, !.to = "tail"]
    BY <1>6, Zenon DEF Sound, Handled
  <2>. HIDE DEF r4
  <2>. QED BY <1>1, <1>6, <2>1, AroundSound, Zenon
<1>11. Sound(s, r3)
  <2>. DEFINE v == [c1.p[q] EXCEPT !.t3 = "off", !.need_p = b]
              n == [c1 EXCEPT !.p = [c1.p EXCEPT ![q] = v]]
  <2>1. v \in PeerState /\ v.conn = c1.p[q].conn
    <3>1. c1.p[q] \in PeerState
      BY <1>1, <1>6, SoundFacts
    <3>. QED BY <1>7, <3>1, Zenon DEF PeerState, Timer
  <2>2. r3 = [n EXCEPT !.cm = left, !.to = "tail"]
    <3>1. c1.p \in [PeerSet(s) -> PeerState]
      BY <1>6, SoundFacts
    <3>2. [c1.p EXCEPT ![q].t3 = "off", ![q].need_p = b] = [c1.p EXCEPT ![q] = v]
      BY <1>1, <3>1, Zenon
    <3>3. r3 = [c1 EXCEPT !.p = [c1.p EXCEPT ![q].t3 = "off", ![q].need_p = b],
                          !.cm = left, !.to = "tail"]
      <4>. DEFINE u == [c1.p EXCEPT ![q].t3 = "off", ![q].need_p = b]
      <4>1. r3 = [c1 EXCEPT !.to = "tail", !.cm = left, !.p = u]
        BY ZenonT(40)
      <4>. HIDE DEF u, r3
      <4>2. r3 = [c1 EXCEPT !.p = u, !.cm = left, !.to = "tail"]
        BY <1>6, <4>1, Zenon DEF Sound, Handled
      <4>. QED BY <4>2 DEF u
    <3>. HIDE DEF v, r3
    <3>4. r3 = [c1 EXCEPT !.p = [c1.p EXCEPT ![q] = v], !.cm = left, !.to = "tail"]
      BY <3>2, <3>3, Zenon
    <3>. QED BY <3>4
  <2>. HIDE DEF v
  <2>3. Sound(s, n)
    BY <1>1, <1>6, <2>1, WithPeer
  <2>. HIDE DEF n, r3
  <2>. QED BY <1>1, <2>2, <2>3, AroundSound, Zenon
<1>. HIDE DEF r1, r2, r3, r4
<1>. QED BY <1>4, <1>8, <1>9, <1>10, <1>11

LEMMA RecvRRSound ==
    ASSUME NEW s \in Station, NEW c, Sound(s, c), NEW m \in LineFrame
    PROVE  Sound(s, RecvRR(c, m))
<1>. DEFINE q == c.x.c_peer
            y == [c.x EXCEPT !.p_rcved = TRUE]
            z == [c.x EXCEPT !.f_rcved = TRUE]
            t == IF c.x.mode = "NRM" THEN "armed" ELSE c.p[q].t3
            v == [c.p[q] EXCEPT !.retry = 0, !.t1 = "off", !.t3 = t]
            d == [c EXCEPT !.cm = {"PF_RECVD"}]
            r1 == [d EXCEPT !.x = y]
            r2 == [d EXCEPT !.x = z, !.p = [d.p EXCEPT ![q] = v]]
<1>1. c.x \in StationState(s) /\ q \in PeerSet(s) /\ c.p[q] \in PeerState
      /\ c.p \in [PeerSet(s) -> PeerState]
  BY SoundFacts
<1>2. Sound(s, d) /\ d.x = c.x /\ d.p = c.p
  <2>1. {"PF_RECVD"} \in SUBSET Flag
    BY SMTT(30) DEF Flag
  <2>2. Sound(s, d)
    BY <2>1, AroundSound, Zenon
  <2>. QED BY <2>2 DEF Sound, Handled
<1>3. RecvRR(c, m) \in {c, r1, r2}
  <2>1. r1 = [c EXCEPT !.x.p_rcved = TRUE, !.cm = {"PF_RECVD"}]
    BY Zenon DEF Sound, Handled
  <2>2. r2 = [c EXCEPT !.x.f_rcved = TRUE, !.cm = {"PF_RECVD"},
                       !.p[q].retry = 0, !.p[q].t1 = "off",
                       !.p[q].t3 = IF c.x.mode = "NRM" THEN "armed" ELSE @]
    <3>1. [c.p EXCEPT ![q].retry = 0, ![q].t1 = "off", ![q].t3 = t] = [c.p EXCEPT ![q] = v]
      BY <1>1, Zenon
    <3>2. [c EXCEPT !.x.f_rcved = TRUE, !.cm = {"PF_RECVD"},
                    !.p[q].retry = 0, !.p[q].t1 = "off",
                    !.p[q].t3 = IF c.x.mode = "NRM" THEN "armed" ELSE @]
          = [c EXCEPT !.x = z, !.cm = {"PF_RECVD"},
                      !.p = [c.p EXCEPT ![q].retry = 0, ![q].t1 = "off", ![q].t3 = t]]
      BY <1>1, ZenonT(40) DEF Sound, Handled
    <3>. HIDE DEF v, t, z
    <3>3. r2 = [c EXCEPT !.x = z, !.cm = {"PF_RECVD"}, !.p = [c.p EXCEPT ![q] = v]]
      BY Zenon DEF Sound, Handled
    <3>. HIDE DEF r2
    <3>. QED BY <3>1, <3>2, <3>3, Zenon DEF t
  <2>. HIDE DEF r1, r2
  <2>. QED BY <2>1, <2>2, Zenon DEF RecvRR
<1>4. /\ y \in StationState(s) /\ y.connected_count = c.x.connected_count
      /\ z \in StationState(s) /\ z.connected_count = c.x.connected_count
      /\ v \in PeerState /\ v.conn = c.p[q].conn
  <2>1. 0 \in 0..RetryMax
    BY BoundsAssumption
  <2>2. v \in PeerState /\ v.conn = c.p[q].conn
    BY <1>1, <2>1, Zenon DEF PeerState, Timer
  <2>. QED BY <1>1, <2>2, Zenon DEF StationState
<1>. HIDE DEF d, v, y, z
<1>5. Sound(s, r1)
  BY <1>2, <1>4, WithStation
<1>6. Sound(s, r2)
  BY <1>1, <1>2, <1>4, UpdateSound, Zenon
<1>. HIDE DEF r1, r2
<1>. QED BY <1>3, <1>5, <1>6

LEMMA NewModeSound ==
    ASSUME NEW s \in Station, NEW c, Sound(s, c), NEW mode \in {"NRM", "ABM"}
    PROVE  Sound(s, [c EXCEPT !.x = ApplyMode([@ EXCEPT !.mode = mode], mode)])
<1>. DEFINE y == [c.x EXCEPT !.mode = mode]
            z == ApplyMode(y, mode)
<1>1. y \in StationState(s) /\ y.connected_count = c.x.connected_count
  BY SoundFacts DEF StationState
<1>. HIDE DEF y
<1>2. z \in StationState(s) /\ z.connected_count = c.x.connected_count
  BY <1>1, ApplyModeType
<1>. HIDE DEF z
<1>3. Sound(s, [c EXCEPT !.x = z])
  BY <1>2, WithStation
<1>. QED BY <1>3, Zenon DEF y, z

LEMMA RecvCommandSound ==
    ASSUME NEW s \in Station, NEW c, Sound(s, c), NEW m \in LineFrame,
           m.cmd, m.type # "RR"
    PROVE  Sound(s, RecvCommand(c, m))
<1>. DEFINE q == c.x.c_peer
            disc == c.x.mode \in {"NDM", "ADM"}
            v == [c.p[q] EXCEPT !.um_cmd = m.type]
            b == c.x.p_rcved \/ m.pf
            y == [c.x EXCEPT !.p_rcved = b]
            c1 == [c EXCEPT !.p[q].um_cmd = m.type, !.x.p_rcved = @ \/ m.pf]
            mode == IF m.type = "SNRM" THEN "NRM" ELSE "ABM"
            c2 == [c1 EXCEPT !.x = ApplyMode([@ EXCEPT !.mode = mode], mode)]
            c3 == Raise(SetConnected(ResetVars(c2, q), q), {"LINK_UP"})
            c4 == IF m.type = "DISC" THEN c1 ELSE c3
            rsp == IF m.type = "DISC" /\ disc THEN "DM" ELSE "UA"
            w == [c4.p[q] EXCEPT !.rcved = TRUE, !.um_rsp = rsp]
            c5 == [c4 EXCEPT !.cm = {"UM_RECVD"}]
<1>1. c.x \in StationState(s) /\ q \in PeerSet(s) /\ c.p[q] \in PeerState
      /\ c.p \in [PeerSet(s) -> PeerState]
  BY SoundFacts
<1>2. m.type \in UCmd
  BY DEF LineFrame
<1>3. b \in BOOLEAN
  OBVIOUS
<1>4. c1 = [c EXCEPT !.x = y, !.p = [c.p EXCEPT ![q] = v]]
  BY Zenon DEF Sound, Handled
<1>10. RecvCommand(c, m) =
          IF c.p[q].rcved THEN c
          ELSE [c4 EXCEPT !.p[q].rcved = TRUE, !.cm = {"UM_RECVD"}, !.p[q].um_rsp = rsp]
  BY DEF RecvCommand
<1>. HIDE DEF b, c1
<1>5. v \in PeerState /\ v.conn = c.p[q].conn
      /\ y \in StationState(s) /\ y.connected_count = c.x.connected_count
  BY <1>1, <1>2, <1>3 DEF PeerState, StationState
<1>. HIDE DEF v, y
<1>6. Sound(s, c1)
  <2>1. Sound(s, [c EXCEPT !.x = y, !.p = [c.p EXCEPT ![q] = v]])
    BY <1>1, <1>5, UpdateSound, Zenon
  <2>. QED BY <1>4, <2>1, Zenon
<1>7. Sound(s, c2)
  BY <1>6, NewModeSound, Zenon
<1>. HIDE DEF c2
<1>8. Sound(s, c3)
  <2>1. Sound(s, SetConnected(ResetVars(c2, q), q))
    BY <1>1, <1>7, ResetVarsSound, SetConnectedSound
  <2>2. {"LINK_UP"} \in SUBSET AppFlag
    BY DEF AppFlag
  <2>. QED BY <2>1, <2>2, RaiseSound
<1>. HIDE DEF c3
<1>9. Sound(s, c4)
  BY <1>6, <1>8
<1>. HIDE DEF c4
<1>11. Sound(s, c5) /\ c5.p = c4.p
  <2>1. {"UM_RECVD"} \in SUBSET Flag
    BY SMTT(30) DEF Flag
  <2>2. Sound(s, c5)
    BY <1>9, <2>1, AroundSound, Zenon
  <2>. QED BY <1>9, <2>2 DEF Sound, Handled
<1>12. w \in PeerState /\ w.conn = c4.p[q].conn
  <2>1. c4.p[q] \in PeerState
    BY <1>1, <1>9, SoundFacts
  <2>. QED BY <2>1, Zenon DEF PeerState
<1>13. [c4 EXCEPT !.p[q].rcved = TRUE, !.cm = {"UM_RECVD"}, !.p[q].um_rsp = rsp]
          = [c5 EXCEPT !.p = [c5.p EXCEPT ![q] = w]]
  <2>1. c4.p \in [PeerSet(s) -> PeerState]
    BY <1>9, SoundFacts
  <2>2. [c4.p EXCEPT ![q].rcved = TRUE, ![q].um_rsp = rsp] = [c4.p EXCEPT ![q] = w]
    BY <1>1, <2>1, Zenon
  <2>3. [c4 EXCEPT !.p[q].rcved = TRUE, !.cm = {"UM_RECVD"}, !.p[q].um_rsp = rsp]
           = [c4 EXCEPT !.cm = {"UM_RECVD"},
                        !.p = [c4.p EXCEPT ![q].rcved = TRUE, ![q].um_rsp = rsp]]
    <3>. HIDE DEF rsp
    <3>. QED BY <1>9, <2>1, ZenonT(40) DEF Sound, Handled
  <2>. HIDE DEF w, rsp
  <2>4. [c5 EXCEPT !.p = [c5.p EXCEPT ![q] = w]]
           = [c4 EXCEPT !.cm = {"UM_RECVD"}, !.p = [c4.p EXCEPT ![q] = w]]
    BY <1>9 DEF Sound, Handled
  <2>. QED BY <2>2, <2>3, <2>4, Zenon
<1>. HIDE DEF c5, w
<1>14. Sound(s, [c5 EXCEPT !.p = [c5.p EXCEPT ![q] = w]])
  BY <1>1, <1>11, <1>12, WithPeer
<1>. QED BY <1>10, <1>13, <1>14, Zenon

LEMMA RecvResponseSound ==
    ASSUME NEW s \in Station, NEW c, Sound(s, c), NEW m \in LineFrame
    PROVE  Sound(s, RecvResponse(c, m))
<1>. DEFINE q == c.x.c_peer
            cmd == c.p[q].um_cmd
            v == [c.p[q] EXCEPT !.t1 = "off"]
            c1 == [c EXCEPT !.p[q].t1 = "off"]
            d1 == ClosePeerOrderly(c1, q)
            d2 == Raise(SetDisconnected(c1, q), {"LINK_REFUSED"})
            c3 == ResetVars(c1, q)
            c4 == [c3 EXCEPT !.x = ApplyMode(c3.x, c3.x.mode)]
            d3 == Raise(SetConnected(c4, q), {"LINK_UP"})
            c2 == IF cmd = "DISC" THEN d1 ELSE IF m.type = "DM" THEN d2 ELSE d3
            t3 == m.type = "UA" /\ c2.x.mode = "NRM" /\ c2.x.pri /\ c2.p[q].conn
            y == [c2.x EXCEPT !.f_rcved = TRUE]
            f == IF t3 THEN "armed" ELSE c2.p[q].t3
            w == [c2.p[q] EXCEPT !.um_cmd = "none", !.sent = FALSE, !.rcved = FALSE,
                                 !.t3 = f]
            c5 == [c2 EXCEPT !.cm = {"LINK_ST_CHG", "LINK_REQ"}]
<1>1. q \in PeerSet(s) /\ c.p[q] \in PeerState /\ c.p \in [PeerSet(s) -> PeerState]
  BY SoundFacts
<1>2. c1 = [c EXCEPT !.p = [c.p EXCEPT ![q] = v]]
  OBVIOUS
<1>3. v \in PeerState /\ v.conn = c.p[q].conn
  BY <1>1 DEF PeerState, Timer
<1>9. RecvResponse(c, m) =
         IF ~c.p[q].sent \/ ~m.pf THEN c
         ELSE [c2 EXCEPT !.x.f_rcved = TRUE, !.cm = {"LINK_ST_CHG", "LINK_REQ"},
                         !.p[q].um_cmd = "none", !.p[q].sent = FALSE,
                         !.p[q].rcved = FALSE,
                         !.p[q].t3 = IF t3 THEN "armed" ELSE @]
  BY DEF RecvResponse
<1>. HIDE DEF v, c1
<1>4. Sound(s, c1)
  <2>1. Sound(s, [c EXCEPT !.p = [c.p EXCEPT ![q] = v]])
    BY <1>1, <1>3, WithPeer
  <2>. QED BY <1>2, <2>1, Zenon
<1>5. {"LINK_REFUSED"} \in SUBSET AppFlag /\ {"LINK_UP"} \in SUBSET AppFlag
      /\ {"LINK_ST_CHG", "LINK_REQ"} \in SUBSET Flag
  BY DEF AppFlag, Flag
<1>6. Sound(s, d1)
  BY <1>1, <1>4, ClosePeerOrderlySound
<1>7. Sound(s, d2)
  BY <1>1, <1>4, <1>5, SetDisconnectedSound, RaiseSound
<1>8. Sound(s, d3)
  <2>1. Sound(s, c3)
    BY <1>1, <1>4, ResetVarsSound
  <2>. HIDE DEF c3
  <2>2. ApplyMode(c3.x, c3.x.mode) \in StationState(s)
        /\ ApplyMode(c3.x, c3.x.mode).connected_count = c3.x.connected_count
    BY <2>1, SoundFacts, ApplyModeType
  <2>3. Sound(s, c4)
    BY <2>1, <2>2, WithStation
  <2>. HIDE DEF c4
  <2>. QED BY <1>1, <1>5, <2>3, SetConnectedSound, RaiseSound
<1>. HIDE DEF d1, d2, d3
<1>10. Sound(s, c2)
  BY <1>6, <1>7, <1>8
<1>. HIDE DEF c2
<1>11. c2.p \in [PeerSet(s) -> PeerState] /\ c2.p[q] \in PeerState /\ c2.x \in StationState(s)
  BY <1>1, <1>10, SoundFacts
<1>12. w \in PeerState /\ w.conn = c2.p[q].conn
       /\ y \in StationState(s) /\ y.connected_count = c2.x.connected_count
  <2>1. f \in Timer
    <3>. HIDE DEF t3
    <3>. QED BY <1>11 DEF PeerState, Timer
  <2>. HIDE DEF f
  <2>. QED BY <1>11, <2>1, Zenon DEF PeerState, StationState, UCmd
<1>13. Sound(s, c5) /\ c5.x = c2.x /\ c5.p = c2.p
  <2>1. Sound(s, c5)
    BY <1>5, <1>10, AroundSound, Zenon
  <2>. QED BY <1>10, <2>1 DEF Sound, Handled
<1>14. [c2 EXCEPT !.x.f_rcved = TRUE, !.cm = {"LINK_ST_CHG", "LINK_REQ"},
                  !.p[q].um_cmd = "none", !.p[q].sent = FALSE,
                  !.p[q].rcved = FALSE,
                  !.p[q].t3 = IF t3 THEN "armed" ELSE @]
          = [c5 EXCEPT !.x = y, !.p = [c5.p EXCEPT ![q] = w]]
  <2>. HIDE DEF t3
  <2>1. [c2.p EXCEPT ![q].um_cmd = "none", ![q].sent = FALSE, ![q].rcved = FALSE,
                     ![q].t3 = f] = [c2.p EXCEPT ![q] = w]
    BY <1>1, <1>11, Zenon
  <2>2. [c2 EXCEPT !.x.f_rcved = TRUE, !.cm = {"LINK_ST_CHG", "LINK_REQ"},
                   !.p[q].um_cmd = "none", !.p[q].sent = FALSE,
                   !.p[q].rcved = FALSE,
                   !.p[q].t3 = IF t3 THEN "armed" ELSE @]
          = [c2 EXCEPT !.cm = {"LINK_ST_CHG", "LINK_REQ"}, !.x = y,
                       !.p = [c2.p EXCEPT ![q].um_cmd = "none", ![q].sent = FALSE,
                                          ![q].rcved = FALSE, ![q].t3 = f]]
    BY <1>1, <1>10, <1>11, ZenonT(40) DEF Sound, Handled
  <2>. HIDE DEF w, y
  <2>3. [c5 EXCEPT !.x = y, !.p = [c5.p EXCEPT ![q] = w]]
           = [c2 EXCEPT !.cm = {"LINK_ST_CHG", "LINK_REQ"}, !.x = y,
                        !.p = [c2.p EXCEPT ![q] = w]]
    BY <1>10 DEF Sound, Handled
  <2>. QED BY <2>1, <2>2, <2>3, ZenonT(40)
<1>. HIDE DEF c5, w, y
<1>15. Sound(s, [c5 EXCEPT !.x = y, !.p = [c5.p EXCEPT ![q] = w]])
  BY <1>1, <1>12, <1>13, UpdateSound, Zenon
<1>. QED BY <1>9, <1>14, <1>15, Zenon

-----------------------------------------------------------------------------
(* Type correctness, and the count of connected peers.                     *)

Thread == [pc : {"wait", "serve", "tail"}, cm : SUBSET Flag]
Events == [flags : SUBSET Flag, pending : BOOLEAN]
Call == [pc : {"idle", "upReq", "up", "downReq", "down"},
         s_mode : {"NDM", "ADM", "0"}, flags : SUBSET AppFlag]

\* A function on the stations.
Table(f) == DOMAIN f = Station /\ f = [s \in Station |-> f[s]]

\* The types once more, station by station and with the domains.
Typed ==
    /\ link \in Links
    /\ chan \in Line
    /\ tx \in [Station -> Thread]
    /\ ev \in [Station -> Events]
    /\ Table(st) /\ Table(pr) /\ Table(api)
    /\ \A s \in Station :
          /\ st[s] \in StationState(s)
          /\ pr[s] \in [PeerSet(s) -> PeerState]
          /\ api[s] \in [PeerSet(s) -> Call]
          /\ Counted(st[s], pr[s])

LEMMA TypedTypeOK == Typed => TypeOK
BY DEF Typed, TypeOK, Thread, Events, Call

LEMMA ContextSound ==
    ASSUME Typed, NEW s \in Station, NEW cm \in SUBSET Flag
    PROVE  Sound(s, Context(s, cm))
<1>1. /\ st[s] \in StationState(s) /\ pr[s] \in [PeerSet(s) -> PeerState]
      /\ chan \in Line /\ Counted(st[s], pr[s])
  BY DEF Typed
<1>. QED BY <1>1 DEF Context, Sound, Handled, AppFlag

LEMMA BroadcastType ==
    ASSUME Typed, NEW s \in Station, NEW flags \in SUBSET Flag
    PROVE  Broadcast(s, flags) \in [Station -> Events]
<1>. DEFINE v == [flags |-> ev[s].flags \union flags, pending |-> TRUE]
<1>1. ev \in [Station -> Events]
  BY DEF Typed
<1>2. v \in Events
  BY <1>1 DEF Events
<1>3. Broadcast(s, flags) = IF flags = {} THEN ev ELSE [ev EXCEPT ![s] = v]
  BY DEF Broadcast
<1>. HIDE DEF v
<1>4. [ev EXCEPT ![s] = v] \in [Station -> Events]
  BY <1>1, <1>2
<1>. QED BY <1>1, <1>3, <1>4, Zenon

LEMMA NotifiedType ==
    ASSUME Typed, NEW s \in Station, NEW flags \in SUBSET AppFlag
    PROVE  /\ Table(Notified(s, flags))
           /\ \A r \in Station : Notified(s, flags)[r] \in [PeerSet(r) -> Call]
<1>. DEFINE a == [q \in PeerSet(s) |->
                    [api[s][q] EXCEPT !.flags = @ \union (flags \intersect Mask(api[s][q].pc))]]
<1>1. Table(api) /\ \A r \in Station : api[r] \in [PeerSet(r) -> Call]
  BY DEF Typed
<1>2. Notified(s, flags) = [api EXCEPT ![s] = a]
  BY Zenon DEF Notified
<1>3. a \in [PeerSet(s) -> Call]
  <2>. SUFFICES ASSUME NEW q \in PeerSet(s)
                PROVE  [api[s][q] EXCEPT !.flags = @ \union (flags \intersect Mask(api[s][q].pc))] \in Call
    OBVIOUS
  <2>. DEFINE f == flags \intersect Mask(api[s][q].pc)
  <2>1. api[s][q] \in Call /\ f \in SUBSET AppFlag
    BY <1>1
  <2>. HIDE DEF f
  <2>. QED BY <2>1 DEF Call
<1>. HIDE DEF a
<1>4. /\ Table([api EXCEPT ![s] = a]) /\ [api EXCEPT ![s] = a][s] = a
      /\ \A r \in Station \ {s} : [api EXCEPT ![s] = a][r] = api[r]
  BY <1>1, SMTT(30) DEF Table
<1>. QED BY <1>1, <1>2, <1>3, <1>4

\* What a step may do to the station s.
LEMMA StoreTyped ==
    ASSUME Typed, NEW s \in Station, NEW c, Sound(s, c), link' = link,
           st' = [st EXCEPT ![s] = c.x], pr' = [pr EXCEPT ![s] = c.p],
           api' = Notified(s, c.app), chan' \in Line,
           tx' \in [Station -> Thread], ev' \in [Station -> Events]
    PROVE  Typed'
<1>1. /\ link \in Links /\ Table(st) /\ Table(pr)
      /\ \A r \in Station :
            /\ st[r] \in StationState(r)
            /\ pr[r] \in [PeerSet(r) -> PeerState]
            /\ Counted(st[r], pr[r])
  BY DEF Typed
<1>2. /\ c.x \in StationState(s) /\ c.p \in [PeerSet(s) -> PeerState]
      /\ Counted(c.x, c.p) /\ c.app \in SUBSET AppFlag
  BY SoundFacts DEF Sound
<1>3. Table(api') /\ \A r \in Station : api'[r] \in [PeerSet(r) -> Call]
  BY <1>2, NotifiedType
<1>4. /\ Table(st') /\ st'[s] = c.x /\ \A r \in Station \ {s} : st'[r] = st[r]
      /\ Table(pr') /\ pr'[s] = c.p /\ \A r \in Station \ {s} : pr'[r] = pr[r]
  <2>1. Table(st') /\ st'[s] = c.x /\ \A r \in Station \ {s} : st'[r] = st[r]
    BY <1>1 DEF Table
  <2>2. Table(pr') /\ pr'[s] = c.p /\ \A r \in Station \ {s} : pr'[r] = pr[r]
    BY <1>1 DEF Table
  <2>. QED BY <2>1, <2>2
<1>5. ASSUME NEW r \in Station
      PROVE  /\ st'[r] \in StationState(r)
             /\ pr'[r] \in [PeerSet(r) -> PeerState]
             /\ Counted(st'[r], pr'[r])
  <2>1. CASE r = s
    <3>1. st'[r] = c.x /\ pr'[r] = c.p
      BY <1>4, <2>1
    <3>. QED BY <1>2, <2>1, <3>1
  <2>2. CASE r # s
    <3>1. st'[r] = st[r] /\ pr'[r] = pr[r]
      BY <1>4, <2>2
    <3>. QED BY <1>1, <3>1
  <2>. QED BY <2>1, <2>2
<1>6. link' \in Links
  BY <1>1
<1>. QED BY <1>3, <1>4, <1>5, <1>6, Zenon
     DEF Typed, Table, PeerSet, Secs, Station, StationState, PeerState, Line, Counted, ConnectedPeers

\* A step of the callers, of the timers or of the line.
LEMMA UpdateTyped ==
    ASSUME Typed, NEW s \in Station, NEW x \in StationState(s),
           NEW p \in [PeerSet(s) -> PeerState], Counted(x, p),
           NEW a \in [PeerSet(s) -> Call], link' = link,
           st' = [st EXCEPT ![s] = x], pr' = [pr EXCEPT ![s] = p],
           api' = [api EXCEPT ![s] = a], chan' \in Line,
           tx' \in [Station -> Thread], ev' \in [Station -> Events]
    PROVE  Typed'
<1>1. /\ link \in Links
      /\ Table(st) /\ Table(pr) /\ Table(api)
      /\ \A r \in Station :
            /\ st[r] \in StationState(r)
            /\ pr[r] \in [PeerSet(r) -> PeerState]
            /\ api[r] \in [PeerSet(r) -> Call]
            /\ Counted(st[r], pr[r])
  BY DEF Typed
<1>4. /\ Table(st') /\ st'[s] = x /\ \A r \in Station \ {s} : st'[r] = st[r]
      /\ Table(pr') /\ pr'[s] = p /\ \A r \in Station \ {s} : pr'[r] = pr[r]
      /\ Table(api') /\ api'[s] = a /\ \A r \in Station \ {s} : api'[r] = api[r]
  <2>1. Table(st') /\ st'[s] = x /\ \A r \in Station \ {s} : st'[r] = st[r]
    BY <1>1 DEF Table
  <2>2. Table(pr') /\ pr'[s] = p /\ \A r \in Station \ {s} : pr'[r] = pr[r]
    BY <1>1 DEF Table
  <2>3. Table(api') /\ api'[s] = a /\ \A r \in Station \ {s} : api'[r] = api[r]
    BY <1>1 DEF Table
  <2>. QED BY <2>1, <2>2, <2>3
<1>5. ASSUME NEW r \in Station
      PROVE  /\ st'[r] \in StationState(r)
             /\ pr'[r] \in [PeerSet(r) -> PeerState]
             /\ api'[r] \in [PeerSet(r) -> Call]
             /\ Counted(st'[r], pr'[r])
  <2>1. CASE r = s
    <3>1. st'[r] = x /\ pr'[r] = p /\ api'[r] = a
      BY <1>4, <2>1
    <3>. QED BY <2>1, <3>1
  <2>2. CASE r # s
    <3>1. st'[r] = st[r] /\ pr'[r] = pr[r] /\ api'[r] = api[r]
      BY <1>4, <2>2
    <3>. QED BY <1>1, <3>1
  <2>. QED BY <2>1, <2>2
<1>6. link' \in Links
  BY <1>1
<1>. QED BY <1>4, <1>5, <1>6, Zenon
     DEF Typed, Table, PeerSet, Secs, Station, StationState, PeerState, Line, Counted, ConnectedPeers

\* A station as ioHdlcStationInit leaves it.
InitialStation(s) ==
    /\ InitStation(s) \in StationState(s)
    /\ [q \in PeerSet(s) |-> InitPeer] \in [PeerSet(s) -> PeerState]
    /\ Counted(InitStation(s), [q \in PeerSet(s) |-> InitPeer])

LEMMA InitialStationSound ==
    ASSUME NEW s \in Station
    PROVE  InitialStation(s)
<1>1. InitPeer \in PeerState /\ InitPeer.conn = FALSE
  BY BoundsAssumption DEF InitPeer, PeerState, UCmd, Timer
<1>2. Peers(s)[1] \in PeerSet(s)
  BY PeerSetFacts
<1>3. (Mode = "NRM" /\ s = "P") \in BOOLEAN /\ DiscMode \in {"NDM", "ADM"}
  BY DEF DiscMode
<1>4. InitStation(s) \in StationState(s) /\ InitStation(s).connected_count = 0
  <2>. DEFINE b == Mode = "NRM" /\ s = "P"
  <2>1. b \in BOOLEAN
    OBVIOUS
  <2>2. InitStation(s) = [mode |-> DiscMode, rx_fn |-> FALSE, pri |-> b,
                          connected_count |-> 0, c_peer |-> Peers(s)[1],
                          p_rcved |-> FALSE, f_rcved |-> b, idl |-> FALSE]
    BY DEF InitStation
  <2>. HIDE DEF b
  <2>. QED BY <1>2, <1>3, <2>1, <2>2 DEF StationState
<1>. DEFINE p == [q \in PeerSet(s) |-> InitPeer]
<1>5. p \in [PeerSet(s) -> PeerState] /\ ConnectedPeers(p) = {}
  <2>1. DOMAIN p = PeerSet(s) /\ \A q \in PeerSet(s) : p[q].conn = FALSE
    BY <1>1
  <2>2. p \in [PeerSet(s) -> PeerState]
    BY <1>1
  <2>. HIDE DEF p
  <2>. QED BY <2>1, <2>2 DEF ConnectedPeers
<1>6. Cardinality({}) = 0
  BY FS_EmptySet, Zenon
<1>7. Counted(InitStation(s), p)
  BY <1>4, <1>5, <1>6 DEF Counted
<1>. QED BY <1>4, <1>5, <1>7 DEF InitialStation

LEMMA InitTyped == Init => Typed
<1>. SUFFICES ASSUME Init PROVE Typed
  OBVIOUS
<1>1. /\ link \in Links
      /\ st = [s \in Station |-> InitStation(s)]
      /\ pr = [s \in Station |-> [q \in PeerSet(s) |-> InitPeer]]
      /\ tx = [s \in Station |-> [pc |-> "wait", cm |-> {}]]
      /\ ev = [s \in Station |-> [flags |-> {}, pending |-> FALSE]]
      /\ api = [s \in Station |-> [q \in PeerSet(s) |-> IdleCall]]
      /\ chan = [s \in Station |-> << >>]
  BY Zenon DEF Init
<1>2. /\ InitPeer \in PeerState /\ ~InitPeer.conn
  BY BoundsAssumption DEF InitPeer, PeerState, UCmd, Timer
<1>3. IdleCall \in Call /\ [pc |-> "wait", cm |-> {}] \in Thread
      /\ [flags |-> {}, pending |-> FALSE] \in Events
  BY DEF IdleCall, Call, Thread, Events
<1>4. << >> \in Seq(LineFrame)
  OBVIOUS
<1>5. ASSUME NEW s \in Station
      PROVE  InitialStation(s)
  BY <1>5, InitialStationSound
<1>6. Table(st) /\ Table(pr) /\ Table(api)
      /\ tx \in [Station -> Thread] /\ ev \in [Station -> Events] /\ chan \in Line
  BY <1>1, <1>3, <1>4 DEF Line, Table
<1>7. ASSUME NEW s \in Station
      PROVE  /\ st[s] \in StationState(s)
             /\ pr[s] \in [PeerSet(s) -> PeerState]
             /\ api[s] \in [PeerSet(s) -> Call]
             /\ Counted(st[s], pr[s])
  <2>1. st[s] = InitStation(s) /\ pr[s] = [q \in PeerSet(s) |-> InitPeer]
        /\ api[s] = [q \in PeerSet(s) |-> IdleCall]
    BY <1>1
  <2>2. api[s] \in [PeerSet(s) -> Call]
    BY <1>3, <2>1
  <2>. QED BY <1>5, <2>1, <2>2 DEF InitialStation
<1>. QED BY <1>1, <1>6, <1>7, Zenon DEF Typed

\* The round of the TX thread: the four parts in the order of the code.
Round(s) ==
    ServeTimers(ServeDisconnected(s, ServeResponse(s, ServeCommand(s, Context(s, tx[s].cm)))))

LEMMA TxServeRound ==
    ASSUME NEW s \in Station, TxServe(s)
    PROVE  /\ tx[s].pc = "serve"
           /\ Store(s, Round(s))
           /\ tx' = [tx EXCEPT ![s] =
                        [pc |-> IF Round(s).to = "tail" THEN "tail"
                                ELSE IF Round(s).cm = {} THEN "wait" ELSE "serve",
                         cm |-> Round(s).cm]]
           /\ UNCHANGED <<ev, used>>
BY Zenon DEF TxServe, Round

LEMMA RoundSound ==
    ASSUME Typed, NEW s \in Station
    PROVE  Sound(s, Round(s))
<1>1. tx[s].cm \in SUBSET Flag
  BY DEF Typed, Thread
<1>. QED BY <1>1, ContextSound, ServeCommandSound, ServeResponseSound,
            ServeDisconnectedSound, ServeTimersSound DEF Round

\* What the station leaves behind at the end of ioHdlcConnectedTx.
TailWanted(s) ==
    LET c == Context(s, tx[s].cm)
    IN  /\ SendOpportunity(c.x)
        /\ c.x.p_rcved \/ (c.x.f_rcved /\ c.p[c.x.c_peer].need_p)

TailSent(s) ==
    LET c == Context(s, tx[s].cm)
        cmd == IsCommand(c.x)
        pf == IF cmd THEN c.x.f_rcved ELSE c.x.p_rcved
        sent == Send(s, c, "RR", cmd, pf)
    IN  IF ~TailWanted(s) THEN c
        ELSE IF ~pf THEN sent
        ELSE IF cmd THEN [Polled(sent) EXCEPT !.p[c.x.c_peer].need_p = FALSE]
        ELSE [sent EXCEPT !.x.p_rcved = FALSE]

TailLeft(s) ==
    LET c1 == TailSent(s)
        c2 == MoveToNext(s, c1, FALSE)
        next == c2.x.c_peer
    IN  IF ~(c1.x.mode = "NRM" /\ c1.x.pri /\ c1.x.f_rcved) THEN c1
        ELSE IF next = Context(s, tx[s].cm).x.c_peer THEN c2
        ELSE [c2 EXCEPT !.p[next].need_p = TRUE]

LEMMA TxTailLeft ==
    ASSUME NEW s \in Station, TxTail(s)
    PROVE  LET cm1 == (tx[s].cm \union ev[s].flags) \ {"PF_RECVD"}
           IN  /\ tx[s].pc = "tail"
               /\ Store(s, TailLeft(s))
               /\ ev' = [ev EXCEPT ![s].flags = {}]
               /\ tx' = [tx EXCEPT ![s] =
                            [pc |-> IF cm1 = {} THEN "wait" ELSE "serve", cm |-> cm1]]
               /\ UNCHANGED used
<1>. DEFINE c == Context(s, tx[s].cm)
            q == c.x.c_peer
            wanted == /\ SendOpportunity(c.x)
                      /\ c.x.p_rcved \/ (c.x.f_rcved /\ c.p[q].need_p)
            cmd == IsCommand(c.x)
            pf == IF cmd THEN c.x.f_rcved ELSE c.x.p_rcved
            sent == Send(s, c, "RR", cmd, pf)
            c1 == IF ~wanted THEN c
                  ELSE IF ~pf THEN sent
                  ELSE IF cmd THEN [Polled(sent) EXCEPT !.p[q].need_p = FALSE]
                  ELSE [sent EXCEPT !.x.p_rcved = FALSE]
            c2 == MoveToNext(s, c1, FALSE)
            next == c2.x.c_peer
            c3 == IF ~(c1.x.mode = "NRM" /\ c1.x.pri /\ c1.x.f_rcved) THEN c1
                  ELSE IF next = q THEN c2 ELSE [c2 EXCEPT !.p[next].need_p = TRUE]
            cm1 == (tx[s].cm \union ev[s].flags) \ {"PF_RECVD"}
<1>1. c1 = TailSent(s)
  BY DEF TailSent, TailWanted
<1>2. c3 = TailLeft(s)
  <2>. HIDE DEF c1
  <2>. QED BY <1>1, SMTT(30) DEF TailLeft
<1>3. /\ tx[s].pc = "tail"
      /\ \E done \in {c3} : Store(s, done)
      /\ ev' = [ev EXCEPT ![s].flags = {}]
      /\ tx' = [tx EXCEPT ![s] = [pc |-> IF cm1 = {} THEN "wait" ELSE "serve", cm |-> cm1]]
      /\ UNCHANGED used
  BY Zenon DEF TxTail
<1>. HIDE DEF c3, cm1
<1>4. Store(s, TailLeft(s))
  BY <1>2, <1>3, Zenon
<1>. QED BY <1>3, <1>4, Zenon DEF cm1

LEMMA TailSentSound ==
    ASSUME Typed, NEW s \in Station
    PROVE  Sound(s, TailSent(s))
<1>. DEFINE c == Context(s, tx[s].cm)
            q == c.x.c_peer
            cmd == IsCommand(c.x)
            pf == IF cmd THEN c.x.f_rcved ELSE c.x.p_rcved
            sent == Send(s, c, "RR", cmd, pf)
            p1 == Polled(sent)
            r1 == [p1 EXCEPT !.p[q].need_p = FALSE]
            r2 == [sent EXCEPT !.x.p_rcved = FALSE]
<1>1. Sound(s, c)
  <2>1. tx[s].cm \in SUBSET Flag
    BY DEF Typed, Thread
  <2>. QED BY <2>1, ContextSound
<1>2. TailSent(s) \in {c, sent, r1, r2}
  BY Zenon DEF TailSent
<1>. HIDE DEF c
<1>3. c.x \in StationState(s) /\ q \in PeerSet(s)
  BY <1>1, SoundFacts
<1>4. cmd \in BOOLEAN
  BY <1>3, Zenon DEF IsCommand, StationState
<1>. HIDE DEF cmd
<1>5. pf \in BOOLEAN
  BY <1>3 DEF StationState
<1>. HIDE DEF pf
<1>6. Sound(s, sent)
  BY <1>1, <1>4, <1>5, SendSound
<1>. HIDE DEF sent
<1>7. Sound(s, p1)
  BY <1>6, PolledSound
<1>. HIDE DEF p1
<1>8. Sound(s, r1)
  BY <1>3, <1>7, NeedPoll, Zenon
<1>9. Sound(s, r2)
  BY <1>6, PollReceived, Zenon
<1>. HIDE DEF r1, r2
<1>. QED BY <1>1, <1>2, <1>6, <1>8, <1>9

LEMMA TailLeftSound ==
    ASSUME Typed, NEW s \in Station
    PROVE  Sound(s, TailLeft(s))
<1>. DEFINE c1 == TailSent(s)
            c2 == MoveToNext(s, c1, FALSE)
            next == c2.x.c_peer
            r == [c2 EXCEPT !.p[next].need_p = TRUE]
<1>1. TailLeft(s) \in {c1, c2, r}
  BY Zenon DEF TailLeft
<1>2. Sound(s, c1)
  BY TailSentSound
<1>. HIDE DEF c1
<1>3. Sound(s, c2) /\ next \in PeerSet(s)
  BY <1>2, MoveToNextSound, SoundFacts, Zenon
<1>. HIDE DEF c2
<1>4. Sound(s, r)
  BY <1>3, NeedPoll, Zenon
<1>. HIDE DEF r
<1>. QED BY <1>1, <1>2, <1>3, <1>4

\* ioHdlcRxEntry: what a frame does to the station.
Received(s) ==
    LET m == Head(chan[s])
        c0 == [Context(s, {}) EXCEPT !.x.idl = FALSE]
    IN  IF ~(m.cmd \/ m.src = c0.x.c_peer) THEN c0
        ELSE IF m.type = "RR" THEN IF c0.x.rx_fn THEN RecvRR(c0, m) ELSE c0
        ELSE IF m.cmd THEN RecvCommand(c0, m)
        ELSE RecvResponse(c0, m)

LEMMA RxFrameReceived ==
    ASSUME NEW s \in Station, RxFrame(s)
    PROVE  /\ chan[s] # << >>
           /\ st' = [st EXCEPT ![s] = Received(s).x]
           /\ pr' = [pr EXCEPT ![s] = Received(s).p]
           /\ api' = Notified(s, Received(s).app)
           /\ ev' = Broadcast(s, Received(s).cm)
           /\ chan' = [chan EXCEPT ![s] = Tail(@)]
           /\ UNCHANGED <<tx, used>>
BY Zenon DEF RxFrame, Received

LEMMA ReceivedSound ==
    ASSUME Typed, NEW s \in Station, chan[s] # << >>
    PROVE  Sound(s, Received(s))
<1>. DEFINE m == Head(chan[s])
            k == Context(s, {})
            y == [k.x EXCEPT !.idl = FALSE]
            c0 == [k EXCEPT !.x.idl = FALSE]
<1>1. m \in LineFrame
  BY DEF Typed, Line
<1>2. Sound(s, k)
  BY ContextSound
<1>3. Sound(s, c0)
  <2>. HIDE DEF k
  <2>1. y \in StationState(s) /\ y.connected_count = k.x.connected_count
    BY <1>2, SoundFacts, ZenonT(40) DEF StationState
  <2>2. c0 = [k EXCEPT !.x = y]
    OBVIOUS
  <2>. HIDE DEF y, c0
  <2>3. Sound(s, [k EXCEPT !.x = y])
    BY <1>2, <2>1, WithStation
  <2>. QED BY <2>2, <2>3, Zenon
<1>4. Received(s) =
         IF ~(m.cmd \/ m.src = c0.x.c_peer) THEN c0
         ELSE IF m.type = "RR" THEN IF c0.x.rx_fn THEN RecvRR(c0, m) ELSE c0
         ELSE IF m.cmd THEN RecvCommand(c0, m)
         ELSE RecvResponse(c0, m)
  BY Zenon DEF Received
<1>. HIDE DEF c0, m, k
<1>. QED BY <1>1, <1>3, <1>4, RecvRRSound, RecvCommandSound, RecvResponseSound

\* A call or a timer changes the call, the command or the timers of a peer,
\* and the mode of the station.
LEMMA CallTyped ==
    ASSUME Typed, NEW s \in Station, NEW q \in PeerSet(s), link' = link,
           \/ LinkUpBegin(s, q) \/ LinkDownBegin(s, q)
           \/ LinkRequest(s, q) \/ LinkEvent(s, q) \/ LinkTimeout(s, q)
           \/ T1Expire(s, q) \/ T3Expire(s, q)
    PROVE  Typed'
<1>1. /\ chan \in Line /\ tx \in [Station -> Thread] /\ ev \in [Station -> Events]
      /\ Table(st) /\ Table(pr) /\ Table(api)
      /\ st[s] \in StationState(s) /\ pr[s] \in [PeerSet(s) -> PeerState]
      /\ api[s] \in [PeerSet(s) -> Call] /\ Counted(st[s], pr[s])
  BY DEF Typed
<1>2. [st EXCEPT ![s] = st[s]] = st /\ [pr EXCEPT ![s] = pr[s]] = pr
      /\ [api EXCEPT ![s] = api[s]] = api
  BY <1>1, Zenon DEF Table
<1>3. pr[s][q] \in PeerState /\ api[s][q] \in Call
  BY <1>1
<1>4. \A a \in Call : [api[s] EXCEPT ![q] = a] \in [PeerSet(s) -> Call]
  BY <1>1
<1>5. \A p \in PeerState : p.conn = pr[s][q].conn =>
         /\ [pr[s] EXCEPT ![q] = p] \in [PeerSet(s) -> PeerState]
         /\ Counted(st[s], [pr[s] EXCEPT ![q] = p])
  <2>. TAKE p \in PeerState
  <2>. HAVE p.conn = pr[s][q].conn
  <2>. DEFINE r == [pr[s] EXCEPT ![q] = p]
  <2>1. r \in [PeerSet(s) -> PeerState] /\ \A o \in PeerSet(s) : r[o].conn = pr[s][o].conn
    BY <1>1
  <2>2. DOMAIN r = PeerSet(s) /\ DOMAIN pr[s] = PeerSet(s)
    BY <1>1
  <2>. HIDE DEF r
  <2>3. ConnectedPeers(r) = ConnectedPeers(pr[s])
    BY <2>1, <2>2 DEF ConnectedPeers
  <2>4. Counted(st[s], r)
    BY <1>1, <2>3 DEF Counted
  <2>. QED BY <2>1, <2>4 DEF r
<1>6. \A x \in StationState(s) : x.connected_count = st[s].connected_count =>
         Counted(x, pr[s])
  BY <1>1 DEF Counted
<1>7. \A flags \in SUBSET Flag : Broadcast(s, flags) \in [Station -> Events]
  BY BroadcastType
<1>8. {"LINK_REQ"} \in SUBSET Flag /\ {"C_RPLYTMO"} \in SUBSET Flag
      /\ {"T3_TMO"} \in SUBSET Flag
  BY DEF Flag
<1>9. CASE LinkUpBegin(s, q)
  <2>. DEFINE disc == st[s].mode \in {"NDM", "ADM"}
              b == st[s].pri \/ Mode = "ABM"
              x == [st[s] EXCEPT !.pri = b, !.mode = IF disc THEN Mode ELSE @]
              a == [pc |-> "upReq", flags |-> {}, s_mode |-> IF disc THEN st[s].mode ELSE "0"]
  <2>1. /\ st' = [st EXCEPT ![s] = x]
        /\ api' = [api EXCEPT ![s] = [api[s] EXCEPT ![q] = a]]
        /\ UNCHANGED <<pr, tx, ev, chan>>
    BY <1>1, <1>9, Zenon DEF LinkUpBegin
  <2>2. b \in BOOLEAN
    OBVIOUS
  <2>. HIDE DEF b
  <2>3. x \in StationState(s) /\ x.connected_count = st[s].connected_count
    BY <1>1, <2>2, ModeAssumption, Zenon DEF StationState
  <2>4. a \in Call
    BY <1>1 DEF Call, StationState, AppFlag
  <2>. HIDE DEF x, a
  <2>5. pr' = [pr EXCEPT ![s] = pr[s]]
    BY <1>2, <2>1, Zenon
  <2>6. tx' \in [Station -> Thread] /\ ev' \in [Station -> Events] /\ chan' \in Line
    BY <1>1, <2>1
  <2>. QED BY <1>1, <1>4, <1>6, <2>1, <2>3, <2>4, <2>5, <2>6, UpdateTyped, Zenon
<1>10. CASE LinkDownBegin(s, q)
  <2>. DEFINE a == [IdleCall EXCEPT !.pc = "downReq"]
  <2>1. /\ api' = [api EXCEPT ![s] = [api[s] EXCEPT ![q] = a]]
        /\ UNCHANGED <<st, pr, tx, ev, chan>>
    BY <1>1, <1>10 DEF LinkDownBegin
  <2>2. a \in Call
    BY DEF Call, IdleCall, AppFlag
  <2>. HIDE DEF a
  <2>3. st' = [st EXCEPT ![s] = st[s]] /\ pr' = [pr EXCEPT ![s] = pr[s]]
    BY <1>2, <2>1, Zenon
  <2>4. tx' \in [Station -> Thread] /\ ev' \in [Station -> Events] /\ chan' \in Line
    BY <1>1, <2>1
  <2>. QED BY <1>1, <1>4, <2>1, <2>2, <2>3, <2>4, UpdateTyped, Zenon
<1>11. CASE LinkRequest(s, q)
  <2>. DEFINE up == api[s][q].pc = "upReq"
              a == [api[s][q] EXCEPT !.pc = IF up THEN "up" ELSE "down"]
              p == [pr[s][q] EXCEPT !.um_cmd = IF up THEN SetMode ELSE "DISC"]
  <2>1. /\ api' = [api EXCEPT ![s] = [api[s] EXCEPT ![q] = a]]
        /\ pr' = [pr EXCEPT ![s] = [pr[s] EXCEPT ![q] = p]]
        /\ ev' = Broadcast(s, {"LINK_REQ"})
        /\ UNCHANGED <<st, tx, chan>>
    BY <1>1, <1>11 DEF LinkRequest
  <2>2. a \in Call /\ p \in PeerState /\ p.conn = pr[s][q].conn
    BY <1>3 DEF Call, PeerState, UCmd, SetMode
  <2>. HIDE DEF a, p
  <2>3. st' = [st EXCEPT ![s] = st[s]]
    BY <1>2, <2>1, Zenon
  <2>4. tx' \in [Station -> Thread] /\ ev' \in [Station -> Events] /\ chan' \in Line
    BY <1>1, <1>7, <1>8, <2>1
  <2>. QED BY <1>1, <1>4, <1>5, <2>1, <2>2, <2>3, <2>4, UpdateTyped, Zenon
<1>12. ASSUME NEW mode \in {st[s].mode, api[s][q].s_mode}, NEW a \in Call,
              st' = [st EXCEPT ![s].mode = mode],
              api' = [api EXCEPT ![s][q] = a],
              UNCHANGED <<pr, tx, ev, chan>>
       PROVE  Typed'
  <2>. DEFINE x == [st[s] EXCEPT !.mode = mode]
  <2>1. st' = [st EXCEPT ![s] = x] /\ api' = [api EXCEPT ![s] = [api[s] EXCEPT ![q] = a]]
    BY <1>1, <1>12
  <2>2. x \in StationState(s) /\ x.connected_count = st[s].connected_count
    BY <1>1, <1>3 DEF StationState, Call
  <2>. HIDE DEF x
  <2>3. pr' = [pr EXCEPT ![s] = pr[s]]
    BY <1>2, <1>12, Zenon
  <2>4. tx' \in [Station -> Thread] /\ ev' \in [Station -> Events] /\ chan' \in Line
    BY <1>1, <1>12
  <2>. QED BY <1>1, <1>4, <1>6, <2>1, <2>2, <2>3, <2>4, UpdateTyped, Zenon
<1>13. IdleCall \in Call /\ [api[s][q] EXCEPT !.flags = {}] \in Call
  BY <1>3 DEF IdleCall, Call, AppFlag
<1>14. CASE LinkEvent(s, q)
  <2>. DEFINE conn == pr[s][q].conn
              refused == /\ api[s][q].pc = "up" /\ "LINK_REFUSED" \in api[s][q].flags /\ ~conn
              over == \/ api[s][q].pc = "up" /\ "LINK_UP" \in api[s][q].flags /\ conn
                      \/ api[s][q].pc = "down" /\ "LINK_DOWN" \in api[s][q].flags /\ ~conn
                      \/ refused
              a == IF over THEN IdleCall ELSE [api[s][q] EXCEPT !.flags = {}]
              mode == IF refused THEN api[s][q].s_mode ELSE st[s].mode
  <2>1. /\ st' = [st EXCEPT ![s].mode = mode] /\ api' = [api EXCEPT ![s][q] = a]
        /\ UNCHANGED <<pr, tx, ev, chan>>
    BY <1>14 DEF LinkEvent
  <2>2. a \in Call /\ mode \in {st[s].mode, api[s][q].s_mode}
    BY <1>13
  <2>. HIDE DEF a, mode
  <2>. QED BY <1>12, <2>1, <2>2, Zenon
<1>15. CASE LinkTimeout(s, q)
  <2>. DEFINE mode == IF api[s][q].pc = "up" THEN api[s][q].s_mode ELSE st[s].mode
  <2>1. /\ st' = [st EXCEPT ![s].mode = mode] /\ api' = [api EXCEPT ![s][q] = IdleCall]
        /\ UNCHANGED <<pr, tx, ev, chan>>
    BY <1>15 DEF LinkTimeout
  <2>2. mode \in {st[s].mode, api[s][q].s_mode}
    OBVIOUS
  <2>. HIDE DEF mode
  <2>. QED BY <1>12, <1>13, <2>1, <2>2, Zenon
<1>16. ASSUME NEW p \in PeerState, p.conn = pr[s][q].conn, NEW flags \in SUBSET Flag,
              pr' = [pr EXCEPT ![s] = [pr[s] EXCEPT ![q] = p]],
              ev' = Broadcast(s, flags), UNCHANGED <<st, tx, api, chan>>
       PROVE  Typed'
  <2>1. st' = [st EXCEPT ![s] = st[s]] /\ api' = [api EXCEPT ![s] = api[s]]
    BY <1>2, <1>16, Zenon
  <2>2. tx' \in [Station -> Thread] /\ ev' \in [Station -> Events] /\ chan' \in Line
    BY <1>1, <1>7, <1>16
  <2>3. /\ [pr[s] EXCEPT ![q] = p] \in [PeerSet(s) -> PeerState]
        /\ Counted(st[s], [pr[s] EXCEPT ![q] = p])
    BY <1>5, <1>16
  <2>. DEFINE r == [pr[s] EXCEPT ![q] = p]
  <2>4. pr' = [pr EXCEPT ![s] = r]
    BY <1>16
  <2>. HIDE DEF r
  <2>. QED BY <1>1, <2>1, <2>2, <2>3, <2>4, UpdateTyped, Zenon DEF r
<1>17. CASE T1Expire(s, q)
  <2>. DEFINE p == [pr[s][q] EXCEPT !.t1 = "expired"]
  <2>1. /\ pr' = [pr EXCEPT ![s] = [pr[s] EXCEPT ![q] = p]]
        /\ ev' = Broadcast(s, {"C_RPLYTMO"}) /\ UNCHANGED <<st, tx, api, chan>>
    BY <1>1, <1>17 DEF T1Expire
  <2>2. p \in PeerState /\ p.conn = pr[s][q].conn
    BY <1>3 DEF PeerState, Timer
  <2>. HIDE DEF p
  <2>. QED BY <1>8, <1>16, <2>1, <2>2, Zenon
<1>18. CASE T3Expire(s, q)
  <2>. DEFINE p == [pr[s][q] EXCEPT !.t3 = "expired"]
  <2>1. /\ pr' = [pr EXCEPT ![s] = [pr[s] EXCEPT ![q] = p]]
        /\ ev' = Broadcast(s, {"T3_TMO"}) /\ UNCHANGED <<st, tx, api, chan>>
    BY <1>1, <1>18 DEF T3Expire
  <2>2. p \in PeerState /\ p.conn = pr[s][q].conn
    BY <1>3 DEF PeerState, Timer
  <2>. HIDE DEF p
  <2>. QED BY <1>8, <1>16, <2>1, <2>2, Zenon
<1>. QED BY <1>9, <1>10, <1>11, <1>14, <1>15, <1>17, <1>18

LEMMA StepTyped ==
    ASSUME Typed, Next
    PROVE  Typed'
<1>1. link' = link /\ Step
  BY DEF Next
<1>2. PICK s \in Station :
         \/ TxFetch(s) \/ TxServe(s) \/ TxTail(s)
         \/ RxFrame(s) \/ Lose(s) \/ RxIdle(s) \/ Restart(s)
         \/ \E q \in PeerSet(s) :
               \/ LinkUpBegin(s, q) \/ LinkDownBegin(s, q)
               \/ LinkRequest(s, q) \/ LinkEvent(s, q) \/ LinkTimeout(s, q)
               \/ T1Expire(s, q) \/ T3Expire(s, q)
  BY <1>1, Zenon DEF Step, TxStep, CallStep
<1>3. /\ chan \in Line /\ tx \in [Station -> Thread] /\ ev \in [Station -> Events]
      /\ Table(st) /\ Table(pr) /\ Table(api)
      /\ st[s] \in StationState(s) /\ pr[s] \in [PeerSet(s) -> PeerState]
      /\ api[s] \in [PeerSet(s) -> Call] /\ Counted(st[s], pr[s])
  BY DEF Typed
<1>4. [st EXCEPT ![s] = st[s]] = st /\ [pr EXCEPT ![s] = pr[s]] = pr
      /\ [api EXCEPT ![s] = api[s]] = api
  BY <1>3, Zenon DEF Table
<1>5. \A r \in Station : chan[r] # << >> => [chan EXCEPT ![r] = Tail(@)] \in Line
  BY <1>3 DEF Line
<1>6. \A flags \in SUBSET Flag : Broadcast(s, flags) \in [Station -> Events]
  BY BroadcastType
<1>7. CASE TxFetch(s)
  <2>. DEFINE t == [pc |-> "serve", cm |-> ev[s].flags]
              e == [flags |-> {}, pending |-> FALSE]
  <2>1. t \in Thread /\ e \in Events
    BY <1>3 DEF Thread, Events
  <2>2. tx' = [tx EXCEPT ![s] = t] /\ ev' = [ev EXCEPT ![s] = e]
        /\ UNCHANGED <<st, pr, api, chan, used>>
    BY <1>7 DEF TxFetch
  <2>. HIDE DEF t, e
  <2>3. tx' \in [Station -> Thread] /\ ev' \in [Station -> Events] /\ chan' \in Line
    BY <1>3, <2>1, <2>2
  <2>4. st' = [st EXCEPT ![s] = st[s]] /\ pr' = [pr EXCEPT ![s] = pr[s]]
        /\ api' = [api EXCEPT ![s] = api[s]]
    BY <1>4, <2>2, Zenon
  <2>. QED BY <1>1, <1>3, <2>3, <2>4, UpdateTyped, Zenon
<1>8. CASE TxServe(s)
  <2>. DEFINE c == Round(s)
              t == [pc |-> IF c.to = "tail" THEN "tail"
                           ELSE IF c.cm = {} THEN "wait" ELSE "serve", cm |-> c.cm]
  <2>1. Store(s, c) /\ tx' = [tx EXCEPT ![s] = t] /\ ev' = ev
    BY <1>8, TxServeRound
  <2>2. Sound(s, c)
    BY RoundSound
  <2>. HIDE DEF c
  <2>3. t \in Thread /\ c.chan \in Line
    BY <2>2, SoundFacts DEF Thread
  <2>. HIDE DEF t
  <2>4. /\ st' = [st EXCEPT ![s] = c.x] /\ pr' = [pr EXCEPT ![s] = c.p]
        /\ api' = Notified(s, c.app) /\ chan' = c.chan
    BY <2>1 DEF Store
  <2>5. tx' \in [Station -> Thread] /\ ev' \in [Station -> Events] /\ chan' \in Line
    BY <1>3, <2>1, <2>3, <2>4
  <2>. QED BY <1>1, <2>2, <2>4, <2>5, StoreTyped, Zenon
<1>9. CASE TxTail(s)
  <2>. DEFINE c == TailLeft(s)
              cm1 == (tx[s].cm \union ev[s].flags) \ {"PF_RECVD"}
              t == [pc |-> IF cm1 = {} THEN "wait" ELSE "serve", cm |-> cm1]
              e == [ev[s] EXCEPT !.flags = {}]
  <2>1. Store(s, c) /\ tx' = [tx EXCEPT ![s] = t] /\ ev' = [ev EXCEPT ![s] = e]
    BY <1>9, TxTailLeft
  <2>2. Sound(s, c)
    BY TailLeftSound
  <2>. HIDE DEF c
  <2>3. t \in Thread /\ e \in Events
    <3>1. tx[s] \in Thread /\ ev[s] \in Events
      BY <1>3
    <3>2. cm1 \in SUBSET Flag
      BY <3>1 DEF Thread, Events
    <3>. QED BY <3>1, <3>2 DEF Thread, Events
  <2>. HIDE DEF t, e
  <2>4. /\ st' = [st EXCEPT ![s] = c.x] /\ pr' = [pr EXCEPT ![s] = c.p]
        /\ api' = Notified(s, c.app) /\ chan' = c.chan
    BY <2>1 DEF Store
  <2>5. tx' \in [Station -> Thread] /\ ev' \in [Station -> Events] /\ chan' \in Line
    BY <1>3, <2>1, <2>2, <2>3, <2>4, SoundFacts
  <2>. QED BY <1>1, <2>2, <2>4, <2>5, StoreTyped
<1>10. CASE RxFrame(s)
  <2>. DEFINE c == Received(s)
  <2>1. /\ chan[s] # << >>
        /\ st' = [st EXCEPT ![s] = c.x] /\ pr' = [pr EXCEPT ![s] = c.p]
        /\ api' = Notified(s, c.app) /\ ev' = Broadcast(s, c.cm)
        /\ chan' = [chan EXCEPT ![s] = Tail(@)] /\ tx' = tx
    BY <1>10, RxFrameReceived
  <2>2. Sound(s, c)
    BY <2>1, ReceivedSound
  <2>. HIDE DEF c
  <2>3. c.cm \in SUBSET Flag
    BY <2>2, SoundFacts
  <2>4. tx' \in [Station -> Thread] /\ ev' \in [Station -> Events] /\ chan' \in Line
    BY <1>3, <1>5, <1>6, <2>1, <2>3, Zenon
  <2>. QED BY <1>1, <2>1, <2>2, <2>4, StoreTyped, Zenon
<1>11. CASE Lose(s)
  <2>1. /\ chan[s] # << >> /\ chan' = [chan EXCEPT ![s] = Tail(@)]
        /\ UNCHANGED <<st, pr, tx, ev, api>>
    BY <1>11 DEF Lose
  <2>2. tx' \in [Station -> Thread] /\ ev' \in [Station -> Events] /\ chan' \in Line
    BY <1>3, <1>5, <2>1, Zenon
  <2>3. st' = [st EXCEPT ![s] = st[s]] /\ pr' = [pr EXCEPT ![s] = pr[s]]
        /\ api' = [api EXCEPT ![s] = api[s]]
    BY <1>4, <2>1, Zenon
  <2>. QED BY <1>1, <1>3, <2>2, <2>3, UpdateTyped
<1>12. CASE RxIdle(s)
  <2>. DEFINE x == [st[s] EXCEPT !.idl = TRUE]
  <2>1. /\ st' = [st EXCEPT ![s] = x] /\ ev' = Broadcast(s, {"LINE_IDLE"})
        /\ UNCHANGED <<pr, tx, api, chan, used>>
    BY <1>12 DEF RxIdle
  <2>2. x \in StationState(s) /\ x.connected_count = st[s].connected_count
    BY <1>3, Zenon DEF StationState
  <2>3. {"LINE_IDLE"} \in SUBSET Flag
    BY DEF Flag
  <2>. HIDE DEF x
  <2>4. Counted(x, pr[s]) /\ st' = [st EXCEPT ![s] = x]
    BY <1>3, <2>1, <2>2 DEF Counted
  <2>5. tx' \in [Station -> Thread] /\ ev' \in [Station -> Events] /\ chan' \in Line
    BY <1>3, <1>6, <2>1, <2>3
  <2>6. pr' = [pr EXCEPT ![s] = pr[s]] /\ api' = [api EXCEPT ![s] = api[s]]
    BY <1>4, <2>1, Zenon
  <2>. QED BY <1>1, <1>3, <2>2, <2>4, <2>5, <2>6, UpdateTyped, Zenon
<1>13. CASE Restart(s)
  <2>. DEFINE p == [q \in PeerSet(s) |-> InitPeer]
              t == [pc |-> "wait", cm |-> {}]
              e == [flags |-> {}, pending |-> FALSE]
  <2>1. /\ st' = [st EXCEPT ![s] = InitStation(s)] /\ pr' = [pr EXCEPT ![s] = p]
        /\ tx' = [tx EXCEPT ![s] = t] /\ ev' = [ev EXCEPT ![s] = e]
        /\ chan' = [chan EXCEPT ![s] = << >>] /\ api' = api
    BY <1>13, Zenon DEF Restart
  <2>2. t \in Thread /\ e \in Events /\ << >> \in Seq(LineFrame)
    BY DEF Thread, Events
  <2>3. /\ InitStation(s) \in StationState(s) /\ p \in [PeerSet(s) -> PeerState]
        /\ Counted(InitStation(s), p)
    BY InitialStationSound DEF InitialStation
  <2>. HIDE DEF p, t, e
  <2>4. tx' \in [Station -> Thread] /\ ev' \in [Station -> Events] /\ chan' \in Line
    BY <1>3, <2>1, <2>2 DEF Line
  <2>5. api' = [api EXCEPT ![s] = api[s]]
    BY <1>4, <2>1, Zenon
  <2>. QED BY <1>1, <1>3, <2>1, <2>3, <2>4, <2>5, UpdateTyped, Zenon
<1>14. ASSUME NEW q \in PeerSet(s),
              \/ LinkUpBegin(s, q) \/ LinkDownBegin(s, q)
              \/ LinkRequest(s, q) \/ LinkEvent(s, q) \/ LinkTimeout(s, q)
              \/ T1Expire(s, q) \/ T3Expire(s, q)
       PROVE  Typed'
  BY <1>1, <1>14, CallTyped
<1>. QED BY <1>2, <1>7, <1>8, <1>9, <1>10, <1>11, <1>12, <1>13, <1>14

LEMMA TypedInvariant == Spec => []Typed
<1>1. Typed /\ UNCHANGED vars => Typed'
  <2>. SUFFICES ASSUME Typed, UNCHANGED vars PROVE Typed'
    OBVIOUS
  <2>1. UNCHANGED <<st, pr, tx, ev, api, chan, used, link>>
    BY DEF vars, running
  <2>2. /\ link' \in Links /\ chan' \in Line
        /\ tx' \in [Station -> Thread] /\ ev' \in [Station -> Events]
        /\ Table(st') /\ Table(pr') /\ Table(api')
    BY <2>1 DEF Typed
  <2>3. \A s \in Station :
           /\ st'[s] \in StationState(s)
           /\ pr'[s] \in [PeerSet(s) -> PeerState]
           /\ api'[s] \in [PeerSet(s) -> Call]
           /\ Counted(st'[s], pr'[s])
    BY <2>1 DEF Typed
  <2>. QED BY <2>2, <2>3 DEF Typed
<1>2. Typed /\ [Next]_vars => Typed'
  BY <1>1, StepTyped
<1>. QED BY InitTyped, <1>2, PTL DEF Spec

\* Type correctness, and resetPeerVars (ioHdlc_core.c): it takes a peer out of
\* the connection without taking it out of connected_count, so that the count
\* may stay too high, and LeaveMode be missed, but no peer is connected that
\* is not counted.
THEOREM PeersAreCounted ==
    Spec => [](TypeOK /\ \A s \in Station : Counted(st[s], pr[s]))
<1>1. Typed => TypeOK /\ \A s \in Station : Counted(st[s], pr[s])
  BY TypedTypeOK DEF Typed
<1>. QED BY <1>1, TypedInvariant, PTL

-----------------------------------------------------------------------------
(* What the helpers do, field by field.                                    *)

\* The flags in hand, the line and where the TX thread goes are left alone.
SameRest(c, d) == d.cm = c.cm /\ d.chan = c.chan /\ d.to = c.to

LEMMA ClosePeerDoes ==
    ASSUME NEW s \in Station, NEW c, Sound(s, c), NEW q \in PeerSet(s), NEW n,
           n = (IF c.p[q].conn THEN c.x.connected_count - 1 ELSE c.x.connected_count),
           NEW d, d = LeaveMode(SetDisconnected(ResetProtocol(c, q), q))
    PROVE  /\ SameRest(c, d) /\ d.app = c.app
           /\ d.p = [c.p EXCEPT ![q] = InitPeer]
           /\ n > 0 => d.x = [c.x EXCEPT !.connected_count = n]
           /\ ~(n > 0) => /\ d.x.connected_count = n /\ ~d.x.rx_fn
                          /\ d.x.mode = IF c.x.mode = "NRM" THEN "NDM" ELSE "ADM"
                          /\ d.x.pri = c.x.pri /\ d.x.c_peer = c.x.c_peer
                          /\ d.x.p_rcved = c.x.p_rcved
                          /\ c.x.f_rcved => d.x.f_rcved
<1>. DEFINE e == ResetProtocol(c, q)
            g == SetDisconnected(e, q)
            v == [InitPeer EXCEPT !.conn = c.p[q].conn]
            mode == IF c.x.mode = "NRM" THEN "NDM" ELSE "ADM"
            y == [c.x EXCEPT !.connected_count = n]
            z == [y EXCEPT !.mode = mode]
<1>1. /\ c.x \in StationState(s) /\ c.p \in [PeerSet(s) -> PeerState]
      /\ InitPeer \in PeerState
  BY SoundFacts, BoundsAssumption DEF InitPeer, PeerState, UCmd, Timer
<1>2. /\ SameRest(c, e) /\ e.app = c.app /\ e.x = c.x /\ e.p = [c.p EXCEPT ![q] = v]
      /\ v = [InitPeer EXCEPT !.conn = c.p[q].conn]
  BY DEF ResetProtocol, SameRest, Sound, Handled
<1>3. v.conn = c.p[q].conn /\ [v EXCEPT !.conn = FALSE] = InitPeer
  <2>. DEFINE b == c.p[q].conn
  <2>. HIDE DEF b
  <2>1. [InitPeer EXCEPT !.conn = b].conn = b
    BY DEF InitPeer
  <2>2. [[InitPeer EXCEPT !.conn = b] EXCEPT !.conn = FALSE] = InitPeer
    <3>1. InitPeer.conn = FALSE
      BY DEF InitPeer
    <3>. QED BY <1>1, <3>1, Zenon DEF PeerState
  <2>. QED BY <2>1, <2>2 DEF b
<1>13. d = LeaveMode(g)
  BY Zenon
<1>. HIDE DEF v
<1>4. Sound(s, e)
  BY ResetProtocolSound
<1>. HIDE DEF e
<1>5. e.p[q] = v /\ e.p[q].conn = c.p[q].conn
  BY <1>1, <1>2, <1>3
<1>6. /\ SameRest(c, g) /\ g.app = c.app
      /\ g.x = [e.x EXCEPT !.connected_count = n]
      /\ g.p = [e.p EXCEPT ![q] = [v EXCEPT !.conn = FALSE]]
  <2>1. g.x = [e.x EXCEPT !.connected_count = n]
        /\ g.p = [e.p EXCEPT ![q] = [@ EXCEPT !.conn = FALSE]]
    BY <1>2, <1>4, <1>5, Zenon DEF SetDisconnected, Sound, Handled
  <2>2. [e.p EXCEPT ![q] = [@ EXCEPT !.conn = FALSE]]
           = [e.p EXCEPT ![q] = [v EXCEPT !.conn = FALSE]]
    BY <1>5
  <2>3. SameRest(e, g) /\ g.app = e.app
    BY <1>4 DEF SetDisconnected, SameRest, Sound, Handled
  <2>. HIDE DEF g
  <2>4. SameRest(c, g) /\ g.app = c.app
    BY <1>2, <2>3 DEF SameRest
  <2>. QED BY <2>1, <2>2, <2>4, Zenon
<1>7. Sound(s, g)
  BY <1>4, SetDisconnectedSound
<1>. HIDE DEF g
<1>8. g.x = y /\ g.p = [c.p EXCEPT ![q] = InitPeer]
  BY <1>1, <1>2, <1>3, <1>6
<1>9. n \in Nat /\ y.connected_count = n /\ y.mode = c.x.mode
      /\ y \in StationState(s) /\ y.pri = c.x.pri /\ y.c_peer = c.x.c_peer
      /\ y.p_rcved = c.x.p_rcved /\ y.f_rcved = c.x.f_rcved
  <2>1. g.x.connected_count \in Nat /\ g.x \in StationState(s)
    BY <1>7, SoundFacts DEF StationState
  <2>2. g.x.connected_count = n
    BY <1>1, <1>8 DEF StationState
  <2>. QED BY <1>1, <1>8, <2>1, <2>2 DEF StationState
<1>10. d = IF n > 0 THEN g ELSE [g EXCEPT !.x = ApplyMode([g.x EXCEPT !.mode = mode], mode)]
  BY <1>8, <1>9, <1>13 DEF LeaveMode
<1>11. CASE n > 0
  BY <1>6, <1>8, <1>10, <1>11
<1>12. CASE ~(n > 0)
  <2>1. d.x = ApplyMode(z, mode) /\ SameRest(g, d) /\ d.app = g.app /\ d.p = g.p
    BY <1>7, <1>8, <1>10, <1>12 DEF SameRest, Sound, Handled
  <2>2. /\ z.connected_count = n /\ z.mode = mode /\ z.pri = c.x.pri
        /\ z.c_peer = c.x.c_peer /\ z.p_rcved = c.x.p_rcved /\ z.f_rcved = c.x.f_rcved
        /\ z \in StationState(s)
    BY <1>9, Zenon DEF StationState
  <2>3. mode \notin {"NRM", "ABM"}
    OBVIOUS
  <2>. HIDE DEF z, y
  <2>4. /\ d.x.connected_count = n /\ ~d.x.rx_fn /\ d.x.mode = mode
        /\ d.x.c_peer = c.x.c_peer /\ d.x.p_rcved = c.x.p_rcved
        /\ d.x.pri = (z.pri \/ mode = "ABM")
        /\ d.x.f_rcved = (z.f_rcved \/ mode = "ABM" \/ (mode = "NDM" /\ z.pri))
    <3>. HIDE DEF mode
    <3>. QED BY <2>1, <2>2, <2>3, Zenon DEF ApplyMode, StationState
  <2>5. d.x.pri = c.x.pri
    <3>. HIDE DEF mode
    <3>1. z.pri \in BOOLEAN
      BY <2>2 DEF StationState
    <3>. QED BY <2>2, <2>3, <2>4, <3>1
  <2>. QED BY <1>6, <1>8, <1>12, <2>1, <2>2, <2>4, <2>5, Zenon DEF SameRest
<1>. QED BY <1>11, <1>12

\* The fields of a peer that the connection depends on.
Alike(v, w) ==
    /\ w.conn = v.conn /\ w.um_cmd = v.um_cmd /\ w.sent = v.sent
    /\ w.rcved = v.rcved /\ w.t1 = v.t1

Others(s, c, d, q) == \A r \in PeerSet(s) \ {q} : d.p[r] = c.p[r]

LEMMA SendDoes ==
    ASSUME NEW s \in Station, NEW c, Sound(s, c), NEW type, NEW cmd, NEW pf,
           NEW d, d = Send(s, c, type, cmd, pf)
    PROVE  /\ d.x = c.x /\ d.p = c.p /\ d.cm = c.cm /\ d.app = c.app /\ d.to = c.to
           /\ d.chan = [c.chan EXCEPT ![c.x.c_peer] =
                           Append(@, [type |-> type, cmd |-> cmd, pf |-> pf, src |-> s])]
BY DEF Send, Sound, Handled

LEMMA PolledDoes ==
    ASSUME NEW s \in Station, NEW c, Sound(s, c), NEW d, d = Polled(c)
    PROVE  /\ SameRest(c, d) /\ d.app = c.app
           /\ d.x = [c.x EXCEPT !.f_rcved = FALSE]
           /\ Others(s, c, d, c.x.c_peer)
           /\ d.p[c.x.c_peer].t1 = "armed"
           /\ d.p[c.x.c_peer].conn = c.p[c.x.c_peer].conn
           /\ d.p[c.x.c_peer].um_cmd = c.p[c.x.c_peer].um_cmd
           /\ d.p[c.x.c_peer].sent = c.p[c.x.c_peer].sent
           /\ d.p[c.x.c_peer].rcved = c.p[c.x.c_peer].rcved
<1>. DEFINE q == c.x.c_peer
            t == IF c.x.mode = "NRM" /\ c.x.pri THEN "off" ELSE c.p[q].t3
            x == [c.x EXCEPT !.f_rcved = FALSE]
            v == [c.p[q] EXCEPT !.t1 = "armed", !.t3 = t]
<1>1. q \in PeerSet(s) /\ c.p[q] \in PeerState /\ c.p \in [PeerSet(s) -> PeerState]
  BY SoundFacts
<1>2. v.t1 = "armed" /\ v.conn = c.p[q].conn /\ v.um_cmd = c.p[q].um_cmd
      /\ v.sent = c.p[q].sent /\ v.rcved = c.p[q].rcved
  BY <1>1 DEF PeerState
<1>3. [c.p EXCEPT ![q].t1 = "armed", ![q].t3 = t] = [c.p EXCEPT ![q] = v]
  BY <1>1, Zenon
<1>4. d = [c EXCEPT !.x = x, !.p = [c.p EXCEPT ![q].t1 = "armed", ![q].t3 = t]]
  BY SoundFacts, ZenonT(40) DEF Polled
<1>. HIDE DEF x, v, q, t
<1>5. d = [c EXCEPT !.x = x, !.p = [c.p EXCEPT ![q] = v]]
  BY <1>3, <1>4, Zenon
<1>6. d.x = x /\ d.p = [c.p EXCEPT ![q] = v] /\ SameRest(c, d) /\ d.app = c.app
  BY <1>5 DEF SameRest, Sound, Handled
<1>7. d.p[q] = v /\ \A r \in PeerSet(s) \ {q} : d.p[r] = c.p[r]
  BY <1>1, <1>6
<1>. QED BY <1>2, <1>6, <1>7 DEF Others, x, q

LEMMA MoveToNextDoes ==
    ASSUME NEW s \in Station, NEW c, Sound(s, c), NEW b \in BOOLEAN,
           NEW d, d = MoveToNext(s, c, b)
    PROVE  /\ SameRest(c, d) /\ d.app = c.app /\ d.p = c.p
           /\ d.x = [c.x EXCEPT !.c_peer = NextPeer(s, c, b)]
           /\ d.x.c_peer \in PeerSet(s)
           /\ (\A q \in PeerSet(s) : ~Matches(c, q, b)) => d.x.c_peer = c.x.c_peer
           /\ (\E q \in PeerSet(s) : Matches(c, q, b)) => Matches(c, d.x.c_peer, b)
<1>1. c.x.c_peer \in PeerSet(s)
  BY SoundFacts
<1>2. d.x = [c.x EXCEPT !.c_peer = NextPeer(s, c, b)] /\ d.p = c.p
      /\ SameRest(c, d) /\ d.app = c.app
  BY DEF MoveToNext, SameRest, Sound, Handled
<1>3. d.x.c_peer = NextPeer(s, c, b)
  BY <1>2, SoundFacts DEF StationState
<1>. QED BY <1>1, <1>2, <1>3, NextPeerFinds

LEMMA ZeroOrMore == \A n \in Nat : n > 0 \/ n = 0
OBVIOUS

LEMMA TimeoutRetryDoes ==
    ASSUME NEW s \in Station, NEW c, Sound(s, c), NEW q \in PeerSet(s),
           NEW n, n = (IF c.p[q].conn THEN c.x.connected_count - 1 ELSE c.x.connected_count),
           NEW d, d = TimeoutRetry(c, q)
    PROVE  /\ SameRest(c, d) /\ Others(s, c, d, q)
           /\ d.app \subseteq c.app \union {"LINK_LOST"}
           /\ ~Exhausted(c, q) => d.x = c.x /\ Alike(c.p[q], d.p[q])
           /\ Exhausted(c, q) => /\ d.p[q] = InitPeer
                                 /\ d.x.f_rcved
                                 /\ d.x.pri = c.x.pri /\ d.x.c_peer = c.x.c_peer
                                 /\ d.x.connected_count = n
                                 /\ n = 0 => ~d.x.rx_fn /\ d.x.mode =
                                       IF c.x.mode = "NRM" THEN "NDM" ELSE "ADM"
                                 /\ n > 0 => d.x.rx_fn = c.x.rx_fn /\ d.x.mode = c.x.mode
<1>1. c.x \in StationState(s) /\ c.p \in [PeerSet(s) -> PeerState] /\ c.p[q] \in PeerState
  BY SoundFacts
<1>2. CASE ~Exhausted(c, q)
  <2>. DEFINE v == [c.p[q] EXCEPT !.retry = c.p[q].retry + 1]
  <2>1. Alike(c.p[q], v)
    BY <1>1 DEF Alike, PeerState
  <2>2. d = [c EXCEPT !.p = [c.p EXCEPT ![q] = v]]
    BY <1>2 DEF TimeoutRetry
  <2>. HIDE DEF v
  <2>3. d.p = [c.p EXCEPT ![q] = v] /\ d.x = c.x /\ d.app = c.app /\ SameRest(c, d)
    BY <2>2 DEF SameRest, Sound, Handled
  <2>4. d.p[q] = v /\ Others(s, c, d, q)
    BY <1>1, <2>3 DEF Others
  <2>. QED BY <1>2, <2>1, <2>3, <2>4
<1>3. CASE Exhausted(c, q)
  <2>. DEFINE g == AbortPeerLink(c, q)
              lost == {f \in {"LINK_LOST"} : c.p[q].conn}
              e == Raise(g, lost)
  <2>1. /\ SameRest(c, g) /\ g.app = c.app
        /\ g.p = [c.p EXCEPT ![q] = InitPeer]
        /\ n > 0 => g.x = [c.x EXCEPT !.connected_count = n]
        /\ ~(n > 0) => /\ g.x.connected_count = n /\ ~g.x.rx_fn
                       /\ g.x.mode = IF c.x.mode = "NRM" THEN "NDM" ELSE "ADM"
                       /\ g.x.pri = c.x.pri /\ g.x.c_peer = c.x.c_peer
    BY ClosePeerDoes DEF AbortPeerLink
  <2>2. Sound(s, g)
    BY AbortPeerLinkSound
  <2>3. d = [e EXCEPT !.x.f_rcved = TRUE]
    BY <1>3 DEF TimeoutRetry
  <2>. HIDE DEF g
  <2>4. e = [g EXCEPT !.app = g.app \union lost]
    BY DEF Raise
  <2>. HIDE DEF e
  <2>5. /\ d.x = [g.x EXCEPT !.f_rcved = TRUE] /\ d.p = g.p /\ SameRest(g, d)
        /\ d.app = g.app \union lost
    BY <2>2, <2>3, <2>4 DEF SameRest, Sound, Handled
  <2>6. d.p[q] = InitPeer /\ Others(s, c, d, q)
    BY <1>1, <2>1, <2>5 DEF Others
  <2>7. n \in Nat
    <3>1. n > 0 \/ n = g.x.connected_count
      BY <2>1
    <3>2. g.x.connected_count \in Nat /\ c.x.connected_count \in Nat /\ c.p[q].conn \in BOOLEAN
      BY <1>1, <2>2, SoundFacts DEF StationState, PeerState
    <3>. QED BY <3>1, <3>2
  <2>8. g.x \in StationState(s)
    BY <2>2, SoundFacts
  <2>9. /\ d.x.f_rcved /\ d.x.pri = c.x.pri /\ d.x.c_peer = c.x.c_peer
        /\ d.x.connected_count = n
        /\ n = 0 => ~d.x.rx_fn /\ d.x.mode = IF c.x.mode = "NRM" THEN "NDM" ELSE "ADM"
        /\ n > 0 => d.x.rx_fn = c.x.rx_fn /\ d.x.mode = c.x.mode
    <3>1. d.x = [g.x EXCEPT !.f_rcved = TRUE]
      BY <2>5
    <3>. HIDE DEF lost
    <3>2. CASE n > 0
      BY <1>1, <2>1, <2>8, <3>1, <3>2 DEF StationState
    <3>3. CASE n = 0
      BY <2>1, <2>8, <3>1, <3>3 DEF StationState
    <3>4. n > 0 \/ n = 0
      BY <2>7, ZeroOrMore, Zenon
    <3>. QED BY <3>2, <3>3, <3>4, Zenon
  <2>10. SameRest(c, d) /\ d.app \subseteq c.app \union {"LINK_LOST"}
    BY <2>1, <2>5 DEF SameRest
  <2>. QED BY <1>3, <2>6, <2>9, <2>10
<1>. QED BY <1>2, <1>3

-----------------------------------------------------------------------------
(* An NRM link of which one secondary is called.  What the primary keeps   *)
(* between steps and between the parts of a round: l is the link, x, p, a  *)
(* its station, peers and calls, f the flags on their way to its TX        *)
(* thread, ch the line and h the peers of all stations.                    *)

InFlight(s) == ev[s].flags \union tx[s].cm

Hand(s) ==
    /\ tx[s].pc = "wait" => tx[s].cm = {}
    /\ ev[s].flags # {} => ev[s].pending

Orders(f) == \A i \in DOMAIN f : f[i].cmd /\ f[i].type \in {"RR", "SNRM", "DISC"}
Answers(f) == \A i \in DOMAIN f : ~f[i].cmd /\ f[i].type \in {"RR", "UA", "DM"}
Supervisory(f) == \A i \in DOMAIN f : f[i].type = "RR"

\* Commands go to the secondary that is called, and responses come back.
LineOK(l, ch) ==
    /\ Answers(ch["P"])
    /\ \A s \in Secs : Orders(ch[s])
    /\ \A s \in Secs \ l.called : ch[s] = << >>

\* A secondary: connected in NRM only, and told of the command it holds.
Secondary(x, p, a, f) ==
    /\ ~x.pri /\ x.mode \in {"NDM", "NRM", "ADM"}
    /\ ~p.sent /\ p.t1 = "off"
    /\ p.conn => x.mode = "NRM" /\ x.rx_fn
    /\ p.rcved => "UM_RECVD" \in f /\ p.um_rsp # "none"
    /\ a.pc = "idle"
    /\ "LINK_REQ" \notin f /\ "C_RPLYTMO" \notin f

\* The peer that is called, and the station: it has the station to itself.
Owned(q, v, x) ==
    /\ v.sent => v.um_cmd # "none"
    /\ v.um_cmd \in {"none", "SNRM", "DISC"}
    /\ v.conn \/ v.sent => x.c_peer = q
    /\ x.connected_count = IF v.conn THEN 1 ELSE 0
    /\ x.rx_fn <=> v.conn
    /\ v.conn => x.mode = "NRM"
    /\ ~v.conn /\ ~v.sent => x.f_rcved

\* The call of that peer: where it stands, what it was told, and the mode.
Calling(v, x, a) ==
    /\ a.pc = "upReq" => x.mode = "NRM" /\ ~v.conn /\ a.flags = {}
    /\ a.pc = "downReq" => a.flags = {}
    /\ a.pc \in {"upReq", "up"} => a.s_mode \in {"NDM", "ADM"}
    /\ a.pc = "up" => /\ v.conn => "LINK_UP" \in a.flags
                      /\ v.um_cmd # "DISC"
                      /\ a.flags \subseteq {"LINK_UP", "LINK_REFUSED"}
    /\ a.pc = "down" => a.flags \subseteq {"LINK_DOWN"}
    /\ v.um_cmd = "SNRM" => a.pc = "up" /\ a.flags = {} /\ ~v.conn /\ x.mode = "NRM"
    /\ ~v.conn /\ a.pc \notin {"upReq", "up"} => x.mode # "NRM"
    /\ ~v.conn /\ ~v.sent /\ (a.pc = "downReq" \/ (a.pc = "down" /\ v.um_cmd = "DISC"))
          => x.mode = "NDM"
    /\ a.pc = "downReq" /\ ~v.conn => ~v.sent
    /\ a.pc = "down" /\ "LINK_DOWN" \in a.flags => ~v.conn /\ v.um_cmd = "none"

\* A command that waits: its request or its reply timer is on the way.  In
\* half duplex the request of a DISC for a connected peer may be dropped.
Pending(l, v, a, f) ==
    /\ v.um_cmd = "SNRM" => \/ v.sent /\ (v.t1 = "armed" \/ "C_RPLYTMO" \in f)
                            \/ "LINK_REQ" \in f
    /\ v.um_cmd = "DISC" /\ ~v.sent /\ a.pc = "down" /\ (l.twa => ~v.conn)
          => "LINK_REQ" \in f

\* A command whose call has timed out is a DISC that nothing sends, repeats
\* or answers any more.
Abandoned(q, v, a, f, ch, h) ==
    a.pc \in {"idle", "upReq", "downReq"} /\ v.um_cmd # "none" =>
        /\ v.um_cmd = "DISC"
        /\ "LINK_REQ" \notin f
        /\ ~v.conn => v.sent
        /\ v.sent => /\ v.t1 # "armed" /\ "C_RPLYTMO" \notin f
                     /\ Supervisory(ch[q]) /\ Supervisory(ch["P"])
                     /\ ~h[q]["P"].rcved

Uncalled(v, a) == ~v.conn /\ ~v.sent /\ v.um_cmd = "none" /\ v.t1 = "off" /\ a.pc = "idle"

Primary(l, x, p, a, f, ch, h) ==
    /\ x.pri /\ x.mode \in {"NDM", "NRM", "ADM"} /\ "UM_RECVD" \notin f
    /\ \A q \in Secs : ~p[q].rcved
    /\ \A q \in Secs \ l.called : Uncalled(p[q], a[q])
    /\ \A q \in Secs \intersect l.called :
          /\ Owned(q, p[q], x) /\ Calling(p[q], x, a[q])
          /\ Pending(l, p[q], a[q], f) /\ Abandoned(q, p[q], a[q], f, ch, h)

Single(l) == \A q, r \in l.called : q = r

OneLink ==
    /\ \A s \in Station : Hand(s)
    /\ LineOK(link, chan)
    /\ \A s \in Secs : Secondary(st[s], pr[s]["P"], api[s]["P"], InFlight(s))
    /\ \A s \in Secs \ link.called : ~pr[s]["P"].rcved
    /\ Primary(link, st["P"], pr["P"], api["P"], InFlight("P"), chan, pr)
    /\ tx["P"].pc = "tail" => pr["P"][st["P"].c_peer].conn /\ ~pr["P"][st["P"].c_peer].sent

LEMMA QueueFacts ==
    ASSUME NEW f \in Seq(LineFrame), NEW m \in LineFrame
    PROVE  /\ Orders(f) /\ m.cmd /\ m.type \in {"RR", "SNRM", "DISC"} => Orders(Append(f, m))
           /\ Answers(f) /\ ~m.cmd /\ m.type \in {"RR", "UA", "DM"} => Answers(Append(f, m))
           /\ Supervisory(f) /\ m.type = "RR" => Supervisory(Append(f, m))
<1>1. /\ DOMAIN Append(f, m) = 1..(Len(f) + 1) /\ DOMAIN f = 1..Len(f) /\ Len(f) \in Nat
      /\ \A i \in 1..Len(f) : Append(f, m)[i] = f[i]
      /\ Append(f, m)[Len(f) + 1] = m
  OBVIOUS
<1>2. \A i \in 1..(Len(f) + 1) : i \in 1..Len(f) \/ i = Len(f) + 1
  BY <1>1
<1>3. \A i \in DOMAIN Append(f, m) :
         (i \in DOMAIN f /\ Append(f, m)[i] = f[i]) \/ Append(f, m)[i] = m
  BY <1>1, <1>2, Zenon
<1>. QED BY <1>3, Zenon DEF Orders, Answers, Supervisory

LEMMA HeadFacts ==
    ASSUME NEW f \in Seq(LineFrame), f # << >>
    PROVE  /\ Head(f) \in LineFrame /\ Tail(f) \in Seq(LineFrame)
           /\ Orders(f) => Orders(Tail(f)) /\ Head(f).cmd /\ Head(f).type \in {"RR", "SNRM", "DISC"}
           /\ Answers(f) => Answers(Tail(f)) /\ ~Head(f).cmd /\ Head(f).type \in {"RR", "UA", "DM"}
           /\ Supervisory(f) => Supervisory(Tail(f)) /\ Head(f).type = "RR"
<1>1. /\ DOMAIN f = 1..Len(f) /\ Len(f) \in Nat /\ Len(f) # 0
      /\ DOMAIN Tail(f) = 1..(Len(f) - 1)
      /\ \A i \in 1..(Len(f) - 1) : Tail(f)[i] = f[i + 1]
      /\ Head(f) = f[1] /\ Head(f) \in LineFrame /\ Tail(f) \in Seq(LineFrame)
  OBVIOUS
<1>2. 1 \in DOMAIN f /\ \A i \in DOMAIN Tail(f) : i + 1 \in DOMAIN f
  BY <1>1
<1>3. \A i \in DOMAIN Tail(f) : \E j \in DOMAIN f : Tail(f)[i] = f[j]
  BY <1>1, <1>2
<1>. QED BY <1>1, <1>2, <1>3, Zenon DEF Orders, Answers, Supervisory

\* Nothing but the peer that is called changes.
LEMMA PrimaryKept ==
    ASSUME NEW l, Single(l), NEW q \in Secs \intersect l.called,
           NEW x, NEW p, NEW a, NEW f, NEW ch, NEW h, Primary(l, x, p, a, f, ch, h),
           NEW x2, NEW p2, NEW a2, NEW f2, NEW ch2, NEW h2,
           x2.pri, x2.mode \in {"NDM", "NRM", "ADM"}, "UM_RECVD" \notin f2,
           \A r \in Secs \ {q} : Alike(p[r], p2[r]) /\ a2[r].pc = a[r].pc,
           ~p2[q].rcved, Owned(q, p2[q], x2), Calling(p2[q], x2, a2[q]),
           Pending(l, p2[q], a2[q], f2), Abandoned(q, p2[q], a2[q], f2, ch2, h2)
    PROVE  Primary(l, x2, p2, a2, f2, ch2, h2)
<1>1. \A r \in Secs : ~p2[r].rcved
  BY DEF Primary, Alike
<1>2. \A r \in Secs \ l.called : Uncalled(p2[r], a2[r])
  <2>. TAKE r \in Secs \ l.called
  <2>1. r # q /\ Uncalled(p[r], a[r])
    BY DEF Primary
  <2>. QED BY <2>1 DEF Uncalled, Alike
<1>3. \A r \in Secs \intersect l.called : r = q
  BY DEF Single
<1>. QED BY <1>1, <1>2, <1>3 DEF Primary

\* A change that the connection does not depend on, flags that are taken or
\* dropped, and the turn to another peer.
LEMMA PrimaryAround ==
    ASSUME NEW l, NEW x, NEW p, NEW a, NEW f, NEW ch, NEW h, Primary(l, x, p, a, f, ch, h),
           NEW x2, NEW p2, NEW f2,
           \A q \in Secs : Alike(p[q], p2[q]),
           x2.pri = x.pri, x2.mode = x.mode, x2.rx_fn = x.rx_fn,
           x2.connected_count = x.connected_count, x.f_rcved => x2.f_rcved,
           \A q \in Secs \intersect l.called : p[q].conn \/ p[q].sent => x2.c_peer = q,
           "UM_RECVD" \notin f2, "LINK_REQ" \in f2 => "LINK_REQ" \in f,
           "C_RPLYTMO" \in f2 => "C_RPLYTMO" \in f,
           \A q \in Secs \intersect l.called : Pending(l, p[q], a[q], f2)
    PROVE  Primary(l, x2, p2, a, f2, ch, h)
<1>1. \A r \in Secs : ~p2[r].rcved
  BY DEF Primary, Alike
<1>2. \A r \in Secs \ l.called : Uncalled(p2[r], a[r])
  BY DEF Primary, Uncalled, Alike
<1>3. ASSUME NEW q \in Secs \intersect l.called
      PROVE  /\ Owned(q, p2[q], x2) /\ Calling(p2[q], x2, a[q])
             /\ Pending(l, p2[q], a[q], f2) /\ Abandoned(q, p2[q], a[q], f2, ch, h)
  <2>1. /\ Owned(q, p[q], x) /\ Calling(p[q], x, a[q])
        /\ Pending(l, p[q], a[q], f2) /\ Abandoned(q, p[q], a[q], f, ch, h)
    BY <1>3 DEF Primary
  <2>2. Alike(p[q], p2[q])
    BY <1>3
  <2>3. p[q].conn \/ p[q].sent => x2.c_peer = q
    BY <1>3
  <2>4. Owned(q, p2[q], x2)
    BY <2>1, <2>2, <2>3 DEF Owned, Alike
  <2>5. Calling(p2[q], x2, a[q])
    BY <2>1, <2>2 DEF Calling, Alike
  <2>6. Pending(l, p2[q], a[q], f2)
    BY <2>1, <2>2 DEF Pending, Alike
  <2>7. Abandoned(q, p2[q], a[q], f2, ch, h)
    BY <2>1, <2>2 DEF Abandoned, Alike
  <2>. QED BY <2>4, <2>5, <2>6, <2>7
<1>. QED BY <1>1, <1>2, <1>3 DEF Primary

\* Between the parts of a round of the primary.
AtPrimary(c) ==
    /\ Mode = "NRM" /\ Single(link)
    /\ Sound("P", c) /\ c.app \subseteq {"LINK_LOST"}
    /\ api["P"] \in [Secs -> Call]
    /\ LineOK(link, c.chan)
    /\ Primary(link, c.x, c.p, api["P"], ev["P"].flags \union c.cm, c.chan, pr)

\* There is a command for the current peer, and a reason to send it.
Commanded(c) ==
    LET v == c.p[c.x.c_peer]
    IN  v.um_cmd # "none" /\ ("LINK_REQ" \in c.cm \/ (v.sent /\ "C_RPLYTMO" \in c.cm))

LEMMA PrimaryPeers ==
    /\ "P" \in Station /\ PeerSet("P") = Secs /\ "P" \notin Secs
    /\ \A s \in Secs : s \in Station /\ s # "P" /\ PeerSet(s) = {"P"}
BY PeersAssumption DEF Station, PeerSet, Secs

LEMMA AtPrimaryFacts ==
    ASSUME NEW c, AtPrimary(c)
    PROVE  /\ c.x \in StationState("P") /\ c.p \in [Secs -> PeerState]
           /\ c.cm \in SUBSET Flag /\ c.chan \in Line /\ c.to \in {"on", "loop", "tail"}
           /\ c.x.c_peer \in Secs /\ c.x.pri /\ c.x.mode \in {"NDM", "NRM", "ADM"}
           /\ \A q \in Secs \ link.called : Uncalled(c.p[q], api["P"][q])
           /\ \A q \in Secs \intersect link.called :
                 /\ Owned(q, c.p[q], c.x) /\ Calling(c.p[q], c.x, api["P"][q])
                 /\ Pending(link, c.p[q], api["P"][q], ev["P"].flags \union c.cm)
                 /\ Abandoned(q, c.p[q], api["P"][q], ev["P"].flags \union c.cm, c.chan, pr)
           /\ \A q \in Secs : c.p[q].conn \/ c.p[q].um_cmd # "none" \/ c.p[q].sent
                 => q \in link.called
           /\ \A q \in Secs : c.p[q].conn \/ c.p[q].sent => q = c.x.c_peer
           /\ \A q, r \in Secs : q \in link.called /\ r \in link.called => q = r
<1>1. /\ c.x \in StationState("P") /\ c.p \in [Secs -> PeerState]
      /\ c.cm \in SUBSET Flag /\ c.chan \in Line /\ c.to \in {"on", "loop", "tail"}
      /\ c.x.c_peer \in Secs
  BY PrimaryPeers, SoundFacts DEF AtPrimary
<1>2. /\ c.x.pri /\ c.x.mode \in {"NDM", "NRM", "ADM"}
      /\ \A q \in Secs \ link.called : Uncalled(c.p[q], api["P"][q])
      /\ \A q \in Secs \intersect link.called :
            /\ Owned(q, c.p[q], c.x) /\ Calling(c.p[q], c.x, api["P"][q])
            /\ Pending(link, c.p[q], api["P"][q], ev["P"].flags \union c.cm)
            /\ Abandoned(q, c.p[q], api["P"][q], ev["P"].flags \union c.cm, c.chan, pr)
  BY Zenon DEF AtPrimary, Primary
<1>3. \A q \in Secs : c.p[q].conn \/ c.p[q].um_cmd # "none" \/ c.p[q].sent
         => q \in link.called
  BY <1>2 DEF Uncalled
<1>4. \A q \in Secs : c.p[q].conn \/ c.p[q].sent => q = c.x.c_peer
  BY <1>2, <1>3 DEF Owned
<1>5. \A q, r \in Secs : q \in link.called /\ r \in link.called => q = r
  BY DEF AtPrimary, Single
<1>. QED BY <1>1, <1>2, <1>3, <1>4, <1>5, Zenon

\* A part of the round that changes what the connection does not depend on.
LEMMA AtPrimaryAround ==
    ASSUME NEW c, AtPrimary(c), NEW d, Sound("P", d), d.app \subseteq {"LINK_LOST"},
           d.chan = c.chan,
           \A q \in Secs : Alike(c.p[q], d.p[q]),
           d.x.pri = c.x.pri, d.x.mode = c.x.mode, d.x.rx_fn = c.x.rx_fn,
           d.x.connected_count = c.x.connected_count, c.x.f_rcved => d.x.f_rcved,
           \A q \in Secs : c.p[q].conn \/ c.p[q].sent => d.x.c_peer = q,
           "UM_RECVD" \notin d.cm, "LINK_REQ" \in d.cm => "LINK_REQ" \in c.cm,
           "C_RPLYTMO" \in d.cm => "C_RPLYTMO" \in c.cm,
           \A q \in Secs \intersect link.called :
              Pending(link, c.p[q], api["P"][q], ev["P"].flags \union d.cm)
    PROVE  AtPrimary(d)
<1>. DEFINE f == ev["P"].flags \union c.cm
            f2 == ev["P"].flags \union d.cm
<1>1. Primary(link, c.x, c.p, api["P"], f, c.chan, pr)
  BY DEF AtPrimary
<1>2. /\ "UM_RECVD" \notin f2 /\ ("LINK_REQ" \in f2 => "LINK_REQ" \in f)
      /\ ("C_RPLYTMO" \in f2 => "C_RPLYTMO" \in f)
  BY <1>1 DEF Primary
<1>3. \A q \in Secs \intersect link.called : Pending(link, c.p[q], api["P"][q], f2)
  BY Zenon
<1>. HIDE DEF f, f2
<1>4. Primary(link, d.x, d.p, api["P"], f2, c.chan, pr)
  BY <1>1, <1>2, <1>3, PrimaryAround
<1>. QED BY <1>4, Zenon DEF AtPrimary, f2

\* Whom the primary turns to.
LEMMA PrimaryMoves ==
    ASSUME NEW c, AtPrimary(c), NEW b \in BOOLEAN, NEW d, d = MoveToNext("P", c, b)
    PROVE  /\ Sound("P", d) /\ d.cm = c.cm /\ d.chan = c.chan /\ d.to = c.to
           /\ d.app = c.app /\ d.p = c.p /\ d.x.c_peer \in Secs
           /\ d.x.pri = c.x.pri /\ d.x.mode = c.x.mode /\ d.x.rx_fn = c.x.rx_fn
           /\ d.x.connected_count = c.x.connected_count /\ d.x.f_rcved = c.x.f_rcved
           /\ (\A q \in Secs : ~Matches(c, q, b)) => d.x.c_peer = c.x.c_peer
           /\ (\E q \in Secs : Matches(c, q, b)) => Matches(c, d.x.c_peer, b)
<1>1. Sound("P", c) /\ c.x \in StationState("P") /\ "P" \in Station /\ PeerSet("P") = Secs
  BY PrimaryPeers, AtPrimaryFacts, Zenon DEF AtPrimary
<1>2. /\ SameRest(c, d) /\ d.app = c.app /\ d.p = c.p
      /\ d.x = [c.x EXCEPT !.c_peer = NextPeer("P", c, b)]
      /\ d.x.c_peer \in PeerSet("P")
      /\ (\A q \in PeerSet("P") : ~Matches(c, q, b)) => d.x.c_peer = c.x.c_peer
      /\ (\E q \in PeerSet("P") : Matches(c, q, b)) => Matches(c, d.x.c_peer, b)
  BY <1>1, MoveToNextDoes
<1>3. Sound("P", d)
  BY <1>1, MoveToNextSound
<1>4. /\ d.x.pri = c.x.pri /\ d.x.mode = c.x.mode /\ d.x.rx_fn = c.x.rx_fn
      /\ d.x.connected_count = c.x.connected_count /\ d.x.f_rcved = c.x.f_rcved
  <2>. DEFINE n == NextPeer("P", c, b)
  <2>1. d.x = [c.x EXCEPT !.c_peer = n]
    BY <1>2
  <2>. HIDE DEF n
  <2>. QED BY <1>1, <2>1 DEF StationState
<1>. QED BY <1>1, <1>2, <1>3, <1>4, Zenon DEF SameRest

LEMMA RequestKept ==
    ASSUME NEW c, AtPrimary(c), c.to = "on",
           "LINK_REQ" \in c.cm
              \/ (c.p[c.x.c_peer].sent /\ "C_RPLYTMO" \in c.cm),
           NEW d, d = ServeRequest("P", c)
    PROVE  AtPrimary(d) /\ (d.to = "on" => Commanded(d))
<1>. DEFINE r == c.x.c_peer
            c1 == MoveToNext("P", c, TRUE)
            q1 == c1.x.c_peer
            c2 == [c1 EXCEPT !.to = "loop", !.cm = @ \ {"LINK_REQ", "C_RPLYTMO"}]
<1>1. /\ r \in Secs /\ c.p \in [Secs -> PeerState] /\ c.x \in StationState("P")
      /\ \A q \in Secs : c.p[q].conn \/ c.p[q].um_cmd # "none" \/ c.p[q].sent
            => q \in link.called
      /\ \A q \in Secs : c.p[q].conn \/ c.p[q].sent => q = r
      /\ \A q, o \in Secs : q \in link.called /\ o \in link.called => q = o
      /\ Sound("P", c) /\ c.app \subseteq {"LINK_LOST"}
  BY AtPrimaryFacts, Zenon DEF AtPrimary
<1>2. d = IF "LINK_REQ" \notin c.cm \/ c.p[r].um_cmd # "none" \/ c.p[r].sent THEN c
          ELSE IF c1.p[q1].um_cmd # "none" THEN c1 ELSE c2
  BY Zenon DEF ServeRequest
<1>3. CASE "LINK_REQ" \notin c.cm \/ c.p[r].um_cmd # "none" \/ c.p[r].sent
  <2>1. d = c
    BY <1>2, <1>3, Zenon
  <2>2. c.p[r].sent => c.p[r].um_cmd # "none"
    BY <1>1, AtPrimaryFacts, Zenon DEF Owned
  <2>. QED BY <1>3, <2>1, <2>2 DEF Commanded
<1>4. CASE "LINK_REQ" \in c.cm /\ c.p[r].um_cmd = "none" /\ ~c.p[r].sent
  <2>1. /\ Sound("P", c1) /\ c1.cm = c.cm /\ c1.chan = c.chan /\ c1.to = c.to
        /\ c1.app = c.app /\ c1.p = c.p /\ q1 \in Secs
        /\ c1.x.pri = c.x.pri /\ c1.x.mode = c.x.mode /\ c1.x.rx_fn = c.x.rx_fn
        /\ c1.x.connected_count = c.x.connected_count /\ c1.x.f_rcved = c.x.f_rcved
        /\ (\A q \in Secs : ~Matches(c, q, TRUE)) => q1 = r
        /\ (\E q \in Secs : Matches(c, q, TRUE)) => Matches(c, q1, TRUE)
    BY PrimaryMoves, Zenon
  <2>. HIDE DEF c1
  <2>4. \A q \in Secs : Alike(c.p[q], c1.p[q])
    BY <2>1 DEF Alike
  <2>5. \A q \in Secs : c.p[q].conn \/ c.p[q].sent => q1 = q
    <3>. TAKE q \in Secs
    <3>. HAVE c.p[q].conn \/ c.p[q].sent
    <3>1. q = r /\ c.p[q].um_cmd = "none"
      BY <1>1, <1>4
    <3>2. \A o \in Secs : c.p[o].um_cmd = "none"
      BY <1>1, <3>1
    <3>3. \A o \in Secs : ~Matches(c, o, TRUE)
      BY <3>2 DEF Matches
    <3>. QED BY <2>1, <3>1, <3>3, Zenon
  <2>6. CASE c1.p[q1].um_cmd # "none"
    <3>1. d = c1
      BY <1>2, <1>4, <2>6
    <3>3. "UM_RECVD" \notin c.cm
      BY DEF AtPrimary, Primary
    <3>4. \A q \in Secs \intersect link.called :
             Pending(link, c.p[q], api["P"][q], ev["P"].flags \union c.cm)
      BY AtPrimaryFacts, Zenon
    <3>5. AtPrimary(c1)
      BY <1>1, <2>1, <2>4, <2>5, <3>3, <3>4, AtPrimaryAround, Zenon
    <3>. QED BY <1>4, <2>1, <2>6, <3>1, <3>5 DEF Commanded
  <2>7. CASE c1.p[q1].um_cmd = "none"
    <3>1. d = c2
      BY <1>2, <1>4, <2>7
    <3>2. /\ d.to = "loop" /\ d.cm = c.cm \ {"LINK_REQ", "C_RPLYTMO"}
          /\ d.x = c1.x /\ d.p = c1.p /\ d.chan = c.chan /\ d.app = c.app
      BY <2>1, <3>1, Zenon DEF Sound, Handled
    <3>. HIDE DEF c2
    <3>3. \A q \in Secs : c.p[q].um_cmd = "none"
      <4>. SUFFICES ASSUME NEW q \in Secs, c.p[q].um_cmd # "none" PROVE FALSE
        OBVIOUS
      <4>1. CASE c.p[q].conn
        BY <1>1, <1>4, <4>1
      <4>2. CASE ~c.p[q].conn
        <5>1. Matches(c, q, TRUE)
          BY <4>2 DEF Matches
        <5>2. Matches(c, q1, TRUE)
          BY <2>1, <5>1, Zenon
        <5>. QED BY <2>1, <2>7, <5>2 DEF Matches
      <4>. QED BY <4>1, <4>2
    <3>4. \A q \in Secs \intersect link.called :
             Pending(link, c.p[q], api["P"][q], ev["P"].flags \union d.cm)
      BY <3>3 DEF Pending
    <3>5. "UM_RECVD" \notin d.cm /\ ("LINK_REQ" \in d.cm => "LINK_REQ" \in c.cm)
          /\ ("C_RPLYTMO" \in d.cm => "C_RPLYTMO" \in c.cm)
      BY <3>2 DEF AtPrimary, Primary
    <3>6. Sound("P", d)
      BY <1>1, PrimaryPeers, ServeRequestSound
    <3>7. AtPrimary(d)
      BY <1>1, <2>1, <2>4, <2>5, <3>2, <3>4, <3>5, <3>6, AtPrimaryAround
    <3>. QED BY <3>2, <3>7
  <2>. QED BY <2>6, <2>7
<1>. QED BY <1>3, <1>4

\* The last connected peer is given up.
LEMMA LastGivenUp ==
    ASSUME NEW s \in Station, NEW c, Sound(s, c), NEW q \in PeerSet(s),
           c.x.connected_count = (IF c.p[q].conn THEN 1 ELSE 0),
           Exhausted(c, q), NEW d, d = TimeoutRetry(c, q)
    PROVE  /\ SameRest(c, d) /\ Others(s, c, d, q)
           /\ d.app \subseteq c.app \union {"LINK_LOST"}
           /\ d.p[q] = InitPeer /\ d.x.f_rcved
           /\ d.x.pri = c.x.pri /\ d.x.c_peer = c.x.c_peer
           /\ d.x.connected_count = 0 /\ ~d.x.rx_fn
           /\ d.x.mode = IF c.x.mode = "NRM" THEN "NDM" ELSE "ADM"
<1>1. PICK n : n = (IF c.p[q].conn THEN c.x.connected_count - 1 ELSE c.x.connected_count)
  OBVIOUS
<1>2. n = 0
  BY <1>1
<1>3. /\ SameRest(c, d) /\ Others(s, c, d, q)
      /\ d.app \subseteq c.app \union {"LINK_LOST"}
      /\ d.p[q] = InitPeer /\ d.x.f_rcved
      /\ d.x.pri = c.x.pri /\ d.x.c_peer = c.x.c_peer
      /\ d.x.connected_count = n
      /\ n = 0 => ~d.x.rx_fn /\ d.x.mode = IF c.x.mode = "NRM" THEN "NDM" ELSE "ADM"
  BY <1>1, TimeoutRetryDoes
<1>. QED BY <1>2, <1>3

\* The current peer is given up.
LEMMA AbortKept ==
    ASSUME NEW c, AtPrimary(c), NEW q, q = c.x.c_peer, q \in link.called,
           api["P"][q].pc # "upReq", api["P"][q].pc = "downReq" => c.p[q].conn,
           Exhausted(c, q), NEW g, g = TimeoutRetry(c, q),
           NEW d, Sound("P", d), d.x = g.x, d.p = g.p, d.app = g.app, d.chan = c.chan,
           "UM_RECVD" \notin d.cm
    PROVE  AtPrimary(d)
<1>. DEFINE a == api["P"][q]
            f == ev["P"].flags \union d.cm
<1>1. /\ q \in Secs /\ c.p \in [Secs -> PeerState] /\ Sound("P", c)
      /\ c.x.pri /\ c.x.mode \in {"NDM", "NRM", "ADM"} /\ c.app \subseteq {"LINK_LOST"}
      /\ Owned(q, c.p[q], c.x) /\ Calling(c.p[q], c.x, a)
      /\ Single(link) /\ LineOK(link, c.chan) /\ Mode = "NRM" /\ api["P"] \in [Secs -> Call]
  BY AtPrimaryFacts, Zenon DEF AtPrimary
<1>2. c.p[q] \in PeerState /\ a \in Call
  BY <1>1
<1>3. c.x.connected_count = IF c.p[q].conn THEN 1 ELSE 0
  BY <1>1 DEF Owned
<1>4. /\ SameRest(c, g) /\ Others("P", c, g, q)
      /\ g.app \subseteq c.app \union {"LINK_LOST"}
      /\ g.p[q] = InitPeer /\ g.x.f_rcved /\ g.x.pri = c.x.pri /\ g.x.c_peer = c.x.c_peer
      /\ g.x.connected_count = 0
      /\ ~g.x.rx_fn /\ g.x.mode = IF c.x.mode = "NRM" THEN "NDM" ELSE "ADM"
  <2>1. q \in PeerSet("P") /\ "P" \in Station
    BY <1>1, PrimaryPeers
  <2>2. Sound("P", c)
    BY <1>1
  <2>. HIDE DEF a, f
  <2>. QED BY <1>3, <2>1, <2>2, LastGivenUp
<1>5. /\ ~InitPeer.conn /\ InitPeer.um_cmd = "none" /\ ~InitPeer.sent /\ ~InitPeer.rcved
      /\ InitPeer.t1 = "off"
  BY DEF InitPeer
<1>6. d.x.pri /\ d.x.mode \in {"NDM", "ADM"} /\ ~d.p[q].rcved
  BY <1>1, <1>4, <1>5
<1>7. Owned(q, d.p[q], d.x)
  BY <1>3, <1>4, <1>5, SMTT(30) DEF Owned
<1>8. Calling(d.p[q], d.x, a)
  <2>1. a.pc \in {"idle", "up", "downReq", "down"}
    BY <1>2 DEF Call
  <2>2. a.pc = "downReq" => d.x.mode = "NDM"
    BY <1>1, <1>4 DEF Owned
  <2>. QED BY <1>1, <1>4, <1>5, <1>6, <2>1, <2>2, ZenonT(40) DEF Calling
<1>9. Pending(link, d.p[q], a, f) /\ Abandoned(q, d.p[q], a, f, d.chan, pr)
  BY <1>4, <1>5 DEF Pending, Abandoned
<1>10. \A r \in Secs \ {q} : Alike(c.p[r], d.p[r])
  BY <1>4, PrimaryPeers DEF Others, Alike
<1>11. Primary(link, c.x, c.p, api["P"], ev["P"].flags \union c.cm, c.chan, pr)
       /\ "UM_RECVD" \notin f
  BY Zenon DEF AtPrimary, Primary
<1>. HIDE DEF f, a
<1>12. Primary(link, d.x, d.p, api["P"], f, d.chan, pr)
  BY <1>1, <1>6, <1>7, <1>8, <1>9, <1>10, <1>11, PrimaryKept DEF a
<1>. QED BY <1>1, <1>4, <1>12 DEF AtPrimary, f

LEMMA RetryKept ==
    ASSUME NEW c, AtPrimary(c), c.to = "on" => Commanded(c), NEW d, d = ServeRetry("P", c)
    PROVE  AtPrimary(d) /\ (d.to = "on" => Commanded(d))
<1>. DEFINE q == c.x.c_peer
            c1 == TimeoutRetry(c, q)
            m == MoveToNext("P", c1, FALSE)
            c2 == [m EXCEPT !.to = "loop", !.cm = {}]
<1>1. d = IF c.to # "on" \/ "C_RPLYTMO" \notin c.cm THEN c
          ELSE IF Exhausted(c, q) THEN c2 ELSE c1
  BY Zenon DEF ServeRetry
<1>2. CASE c.to # "on" \/ "C_RPLYTMO" \notin c.cm
  BY <1>1, <1>2
<1>3. ASSUME c.to = "on", "C_RPLYTMO" \in c.cm
      PROVE  AtPrimary(d) /\ (d.to = "on" => Commanded(d))
  <2>1. /\ q \in Secs /\ q \in link.called /\ Sound("P", c) /\ Commanded(c)
        /\ c.app \subseteq {"LINK_LOST"} /\ c.p[q].um_cmd # "none"
        /\ Owned(q, c.p[q], c.x) /\ c.x \in StationState("P")
        /\ Abandoned(q, c.p[q], api["P"][q], ev["P"].flags \union c.cm, c.chan, pr)
        /\ "LINK_REQ" \in c.cm \/ (c.p[q].sent /\ "C_RPLYTMO" \in c.cm)
    BY <1>3, AtPrimaryFacts, Zenon DEF AtPrimary, Commanded
  <2>2. api["P"][q].pc \notin {"idle", "upReq", "downReq"}
    BY <2>1 DEF Abandoned
  <2>3. Sound("P", c1) /\ q \in PeerSet("P") /\ "P" \in Station
    BY <2>1, PrimaryPeers, TimeoutRetrySound
  <2>4. /\ SameRest(c, c1) /\ Others("P", c, c1, q)
        /\ c1.app \subseteq c.app \union {"LINK_LOST"}
        /\ ~Exhausted(c, q) => c1.x = c.x /\ Alike(c.p[q], c1.p[q])
        /\ Exhausted(c, q) => c1.p[q] = InitPeer
    <3>1. PICK n : n = (IF c.p[q].conn THEN c.x.connected_count - 1
                        ELSE c.x.connected_count)
      OBVIOUS
    <3>. HIDE DEF q
    <3>2. \A e : e = TimeoutRetry(c, q) =>
             /\ SameRest(c, e) /\ Others("P", c, e, q)
             /\ e.app \subseteq c.app \union {"LINK_LOST"}
             /\ ~Exhausted(c, q) => e.x = c.x /\ Alike(c.p[q], e.p[q])
             /\ Exhausted(c, q) => e.p[q] = InitPeer
      BY <2>1, <2>3, <3>1, TimeoutRetryDoes
    <3>. QED BY <3>2, Zenon
  <2>5. CASE ~Exhausted(c, q)
    <3>1. d = c1
      BY <1>1, <1>3, <2>5
    <3>. HIDE DEF c1
    <3>2. \A r \in Secs : Alike(c.p[r], c1.p[r])
      <4>. TAKE r \in Secs
      <4>1. CASE r = q
        BY <2>4, <2>5, <4>1
      <4>2. CASE r # q
        BY <2>4, <4>2, PrimaryPeers DEF Others, Alike
      <4>. QED BY <4>1, <4>2
    <3>3. c1.cm = c.cm /\ c1.chan = c.chan /\ c1.to = c.to /\ c1.x = c.x
      BY <2>4, <2>5 DEF SameRest
    <3>4. /\ \A r \in Secs : c.p[r].conn \/ c.p[r].sent => c1.x.c_peer = r
          /\ "UM_RECVD" \notin c1.cm
          /\ \A r \in Secs \intersect link.called :
                Pending(link, c.p[r], api["P"][r], ev["P"].flags \union c1.cm)
      <4>1. "UM_RECVD" \notin c.cm
        BY DEF AtPrimary, Primary
      <4>2. /\ \A r \in Secs : c.p[r].conn \/ c.p[r].sent => c.x.c_peer = r
            /\ \A r \in Secs \intersect link.called :
                  Pending(link, c.p[r], api["P"][r], ev["P"].flags \union c.cm)
        BY AtPrimaryFacts, Zenon
      <4>. QED BY <3>3, <4>1, <4>2, Zenon
    <3>5. AtPrimary(c1)
      BY <2>1, <2>3, <2>4, <3>2, <3>3, <3>4, AtPrimaryAround
    <3>6. Commanded(c1)
      BY <2>1, <3>2, <3>3 DEF Commanded, Alike
    <3>. QED BY <3>1, <3>5, <3>6
  <2>6. CASE Exhausted(c, q)
    <3>1. d = c2
      BY <1>1, <1>3, <2>6
    <3>2. "UM_RECVD" \notin c1.cm /\ c1.chan = c.chan
      BY <2>4 DEF SameRest, AtPrimary, Primary
    <3>. HIDE DEF c1
    <3>3. AtPrimary(c1)
      <4>. HIDE DEF q
      <4>. QED BY <2>1, <2>2, <2>3, <2>6, <3>2, AbortKept DEF q, c1
    <3>4. \A r \in Secs : ~c1.p[r].conn /\ ~c1.p[r].sent /\ c1.p[r].um_cmd = "none"
      <4>. TAKE r \in Secs
      <4>1. CASE r = q
        BY <2>4, <2>6, <4>1 DEF InitPeer
      <4>2. CASE r # q
        <5>1. c1.p[r] = c.p[r]
          BY <2>4, <4>2, PrimaryPeers DEF Others
        <5>2. \A o, w \in Secs : o \in link.called /\ w \in link.called => o = w
          BY AtPrimaryFacts, Zenon
        <5>3. r \notin link.called
          BY <2>1, <4>2, <5>2, Zenon
        <5>4. \A o \in Secs : c.p[o].conn \/ c.p[o].um_cmd # "none" \/ c.p[o].sent
                 => o \in link.called
          BY AtPrimaryFacts, Zenon
        <5>. QED BY <5>1, <5>3, <5>4, Zenon
      <4>. QED BY <4>1, <4>2
    <3>5. /\ Sound("P", m) /\ m.chan = c1.chan /\ m.app = c1.app /\ m.p = c1.p
          /\ m.x.pri = c1.x.pri /\ m.x.mode = c1.x.mode /\ m.x.rx_fn = c1.x.rx_fn
          /\ m.x.connected_count = c1.x.connected_count /\ m.x.f_rcved = c1.x.f_rcved
      BY <3>3, PrimaryMoves, ZenonT(40)
    <3>. HIDE DEF m
    <3>6. /\ c2.x = m.x /\ c2.p = m.p /\ c2.app = m.app /\ c2.chan = m.chan
          /\ c2.cm = {} /\ c2.to = "loop"
      BY <3>5 DEF Sound, Handled
    <3>7. Sound("P", c2)
      BY <2>1, <2>3, <3>1, ServeRetrySound
    <3>. HIDE DEF c2
    <3>8. AtPrimary(c2)
      <4>1. \A r \in Secs : Alike(c1.p[r], c2.p[r])
        BY <3>5, <3>6 DEF Alike
      <4>2. \A r \in Secs \intersect link.called :
               Pending(link, c1.p[r], api["P"][r], ev["P"].flags \union c2.cm)
        BY <3>4 DEF Pending
      <4>3. c2.app \subseteq {"LINK_LOST"}
        BY <3>3, <3>5, <3>6 DEF AtPrimary
      <4>. QED BY <3>3, <3>4, <3>5, <3>6, <3>7, <4>1, <4>2, <4>3, AtPrimaryAround
    <3>. QED BY <3>1, <3>6, <3>8
  <2>. QED BY <2>5, <2>6
<1>. QED BY <1>2, <1>3

\* The command of the current peer is sent, or has to wait for the turn.
LEMMA SendKept ==
    ASSUME NEW c, AtPrimary(c), c.to = "on" => Commanded(c), NEW d, d = SendCommand("P", c)
    PROVE  AtPrimary(d) /\ (d.to = "on" => "LINK_REQ" \notin d.cm)
<1>. DEFINE q == c.x.c_peer
            v == c.p[q]
            a == api["P"][q]
            left == c.cm \ {"LINK_REQ", "C_RPLYTMO"}
            b == c.x.f_rcved \/ (TWA /\ ~v.conn /\ v.um_cmd = SetMode)
            c1 == [[c EXCEPT !.cm = left] EXCEPT !.x.f_rcved = b]
            e == Send("P", c1, v.um_cmd, TRUE, TRUE)
            c2 == Polled(e)
            d1 == [c1 EXCEPT !.to = "loop"]
            d2 == [c2 EXCEPT !.p[q].sent = TRUE]
<1>1. CASE c.to # "on"
  <2>1. d = c
    BY <1>1 DEF SendCommand
  <2>. QED BY <1>1, <2>1
<1>2. CASE c.to = "on"
  <2>1. /\ q \in Secs /\ q \in link.called /\ Sound("P", c) /\ Commanded(c)
        /\ c.app \subseteq {"LINK_LOST"} /\ c.p \in [Secs -> PeerState]
        /\ c.x \in StationState("P") /\ c.x.pri /\ c.x.mode \in {"NDM", "NRM", "ADM"}
        /\ Mode = "NRM" /\ c.chan \in Line
    BY <1>2, AtPrimaryFacts, Zenon DEF AtPrimary, Commanded
  <2>2. /\ Owned(q, v, c.x) /\ Calling(v, c.x, a)
        /\ Pending(link, v, a, ev["P"].flags \union c.cm)
        /\ Abandoned(q, v, a, ev["P"].flags \union c.cm, c.chan, pr)
    BY <2>1, AtPrimaryFacts, Zenon
  <2>3. /\ v.um_cmd \in {"SNRM", "DISC"} /\ v \in PeerState /\ a \in Call
        /\ "LINK_REQ" \in c.cm \/ (v.sent /\ "C_RPLYTMO" \in c.cm)
    BY <2>1, <2>2 DEF Commanded, Owned, AtPrimary
  <2>4. a.pc \in {"up", "down"}
    BY <2>2, <2>3 DEF Abandoned, Call
  <2>5. b \in BOOLEAN /\ left \in SUBSET Flag
    BY <2>1, <2>3, AtPrimaryFacts, Zenon DEF StationState, PeerState
  <2>6. b = (c.x.f_rcved \/ (TWA /\ ~v.conn /\ v.um_cmd = "SNRM"))
    BY <2>1 DEF SetMode
  <2>7. d = IF ~SendOpportunity(c1.x) THEN d1 ELSE d2
    <3>1. c1 = [c EXCEPT !.cm = left, !.x.f_rcved = b]
      <4>. HIDE DEF left, b
      <4>. QED BY <2>1 DEF Sound, Handled
    <3>. QED BY <1>2, <3>1, Zenon DEF SendCommand
  <2>8. "UM_RECVD" \notin left /\ "LINK_REQ" \notin left
    BY SMTT(30) DEF AtPrimary, Primary
  <2>9. Sound("P", d) /\ Sound("P", c1)
    <3>. HIDE DEF left, b
    <3>. QED BY <2>1, <2>5, PrimaryPeers, SendCommandSound, AroundSound, FinalReceived, Zenon
  <2>10. /\ c1.x = [c.x EXCEPT !.f_rcved = b] /\ c1.p = c.p /\ c1.cm = left
         /\ c1.chan = c.chan /\ c1.app = c.app /\ c1.to = "on"
    <3>. HIDE DEF left, b
    <3>. QED BY <1>2, <2>1 DEF Sound, Handled
  <2>11. /\ c1.x.f_rcved = b /\ c1.x.c_peer = q /\ c1.x.pri /\ c1.x.mode = c.x.mode
         /\ c1.x.rx_fn = c.x.rx_fn /\ c1.x.connected_count = c.x.connected_count
    <3>. HIDE DEF left, b, c1
    <3>. QED BY <2>1, <2>10 DEF StationState
  <2>12. CASE ~SendOpportunity(c1.x)
    <3>1. d = d1
      BY <2>7, <2>12, Zenon
    <3>. HIDE DEF c1, b
    <3>2. d.x = c1.x /\ d.p = c1.p /\ d.cm = left /\ d.chan = c.chan /\ d.app = c.app
          /\ d.to = "loop"
      BY <2>9, <2>10, <3>1 DEF Sound, Handled
    <3>3. TWA /\ ~(c.x.mode \in {"NRM", "NDM"} /\ b)
      BY <2>11, <2>12, SMTT(30) DEF SendOpportunity
    <3>4. v.um_cmd # "SNRM"
      BY <2>2, <2>6, <3>3, ZenonT(40) DEF Calling
    <3>5. ~(v.um_cmd = "DISC" /\ ~v.sent /\ a.pc = "down" /\ ~v.conn)
      BY <2>2, <2>6, <3>3, Zenon DEF Calling, Owned
    <3>6. Pending(link, v, a, ev["P"].flags \union d.cm)
      BY <2>3, <3>3, <3>4, <3>5 DEF Pending, TWA
    <3>7. \A r \in Secs \intersect link.called :
             Pending(link, c.p[r], api["P"][r], ev["P"].flags \union d.cm)
      <4>1. \A r \in Secs \intersect link.called : r = q
        BY <2>1, AtPrimaryFacts, Zenon
      <4>. QED BY <3>6, <4>1, Zenon
    <3>8. \A r \in Secs : c.p[r].conn \/ c.p[r].sent => d.x.c_peer = r
      BY <2>11, <3>2, AtPrimaryFacts, Zenon
    <3>9. \A r \in Secs : Alike(c.p[r], d.p[r])
      BY <2>10, <3>2 DEF Alike
    <3>10. c.x.f_rcved => d.x.f_rcved
      BY <2>6, <2>11, <3>2, Zenon
    <3>11. "LINK_REQ" \notin d.cm /\ "C_RPLYTMO" \notin d.cm /\ "UM_RECVD" \notin d.cm
      BY <2>8, <3>2
    <3>12. /\ d.x.pri = c.x.pri /\ d.x.mode = c.x.mode /\ d.x.rx_fn = c.x.rx_fn
           /\ d.x.connected_count = c.x.connected_count
      BY <2>1, <2>11, <3>2, Zenon
    <3>13. d.app \subseteq {"LINK_LOST"}
      BY <2>1, <3>2
    <3>. HIDE DEF left, d1
    <3>14. AtPrimary(d)
      BY <2>9, <3>2, <3>7, <3>8, <3>9, <3>10, <3>11, <3>12, <3>13, AtPrimaryAround
    <3>. QED BY <3>2, <3>14, SMTT(30)
  <2>13. CASE SendOpportunity(c1.x)
    <3>1. d = d2
      BY <2>7, <2>13, Zenon
    <3>. DEFINE m == [type |-> v.um_cmd, cmd |-> TRUE, pf |-> TRUE, src |-> "P"]
    <3>. HIDE DEF c1, b, left
    <3>2. /\ e.x = c1.x /\ e.p = c.p /\ e.cm = left /\ e.app = c.app /\ e.to = "on"
          /\ e.chan = [c.chan EXCEPT ![q] = Append(@, m)]
      <4>1. /\ e.x = c1.x /\ e.p = c1.p /\ e.cm = c1.cm /\ e.app = c1.app /\ e.to = c1.to
            /\ e.chan = [c1.chan EXCEPT ![c1.x.c_peer] = Append(@, m)]
        <5>. DEFINE w == v.um_cmd
        <5>. HIDE DEF w
        <5>. QED BY <2>9 DEF Send, Sound, Handled
      <4>. HIDE DEF e, m
      <4>2. [c1.chan EXCEPT ![c1.x.c_peer] = Append(@, m)]
               = [c.chan EXCEPT ![q] = Append(@, m)]
        BY <2>10, <2>11, Zenon
      <4>. QED BY <2>10, <4>1, <4>2, Zenon
    <3>3. Sound("P", e)
      <4>1. v.um_cmd \in {"RR"} \union UCmd
        BY <2>3 DEF UCmd
      <4>. QED BY <2>3, <2>9, <4>1, PrimaryPeers, SendSound, Zenon DEF UCmd
    <3>. HIDE DEF e
    <3>4. /\ SameRest(e, c2) /\ c2.app = e.app
          /\ c2.x = [e.x EXCEPT !.f_rcved = FALSE]
          /\ Others("P", e, c2, q)
          /\ c2.p[q].t1 = "armed" /\ c2.p[q].conn = e.p[q].conn
          /\ c2.p[q].um_cmd = e.p[q].um_cmd /\ c2.p[q].rcved = e.p[q].rcved
      BY <2>11, <3>2, <3>3, PrimaryPeers, PolledDoes, SMTT(30)
    <3>5. Sound("P", c2) /\ c2.p \in [Secs -> PeerState]
      BY <3>3, PrimaryPeers, PolledSound, SoundFacts
    <3>. HIDE DEF c2
    <3>6. /\ d.x = c2.x /\ d.p = [c2.p EXCEPT ![q].sent = TRUE] /\ d.cm = c2.cm
          /\ d.chan = c2.chan /\ d.app = c2.app /\ d.to = c2.to
      BY <3>1, <3>5, Zenon DEF Sound, Handled
    <3>7. /\ d.p[q].sent /\ d.p[q].t1 = "armed" /\ d.p[q].conn = v.conn
          /\ d.p[q].um_cmd = v.um_cmd /\ ~d.p[q].rcved
      <4>1. ~v.rcved
        BY <2>1 DEF AtPrimary, Primary
      <4>2. c2.p[q] \in PeerState
        BY <2>1, <3>5
      <4>3. d.p[q] = [c2.p[q] EXCEPT !.sent = TRUE]
        BY <2>1, <3>5, <3>6, Zenon
      <4>. QED BY <3>2, <3>4, <4>1, <4>2, <4>3 DEF PeerState
    <3>8. \A r \in Secs \ {q} : Alike(c.p[r], d.p[r])
      <4>. TAKE r \in Secs \ {q}
      <4>1. d.p[r] = c2.p[r] /\ c2.p[r] = e.p[r]
        BY <3>4, <3>5, <3>6, PrimaryPeers DEF Others
      <4>. QED BY <3>2, <4>1 DEF Alike
    <3>9. d.x = [c1.x EXCEPT !.f_rcved = FALSE] /\ d.cm = left /\ d.app = c.app
          /\ d.chan = [c.chan EXCEPT ![q] = Append(@, m)] /\ d.to = "on"
      BY <3>2, <3>4, <3>6 DEF SameRest
    <3>10. /\ d.x.c_peer = q /\ d.x.pri /\ d.x.mode = c.x.mode
           /\ d.x.rx_fn = c.x.rx_fn /\ d.x.connected_count = c.x.connected_count
      <4>1. c1.x \in StationState("P")
        BY <2>9, PrimaryPeers, SoundFacts
      <4>. QED BY <2>11, <3>9, <4>1 DEF StationState
    <3>11. LineOK(link, d.chan)
      <4>1. c.chan[q] \in Seq(LineFrame) /\ m \in LineFrame /\ q \in Station /\ q # "P"
            /\ DOMAIN c.chan = Station
        BY <2>1, <2>3, PrimaryPeers DEF Line, LineFrame, UCmd
      <4>2. /\ Answers(c.chan["P"]) /\ \A s \in Secs : Orders(c.chan[s])
            /\ \A s \in Secs \ link.called : c.chan[s] = << >>
        BY DEF AtPrimary, LineOK
      <4>3. Orders(Append(c.chan[q], m))
        BY <2>1, <2>3, <4>1, <4>2, QueueFacts
      <4>4. d.chan[q] = Append(c.chan[q], m) /\ \A s \in Station \ {q} : d.chan[s] = c.chan[s]
        BY <3>9, <4>1
      <4>5. d.chan["P"] = c.chan["P"] /\ \A s \in Secs \ {q} : d.chan[s] = c.chan[s]
        BY <4>1, <4>4, PrimaryPeers, SMTT(30)
      <4>. QED BY <2>1, <4>2, <4>3, <4>4, <4>5, Zenon DEF LineOK
    <3>. DEFINE f == ev["P"].flags \union d.cm
    <3>12. Owned(q, d.p[q], d.x)
      BY <2>2, <2>3, <3>7, <3>10, SMTT(30) DEF Owned
    <3>13. Calling(d.p[q], d.x, a)
      BY <2>2, <2>4, <3>7, <3>10, Zenon DEF Calling
    <3>14. Pending(link, d.p[q], a, f)
      BY <3>7 DEF Pending
    <3>15. Abandoned(q, d.p[q], a, f, d.chan, pr)
      BY <2>4 DEF Abandoned
    <3>16. /\ Primary(link, c.x, c.p, api["P"], ev["P"].flags \union c.cm, c.chan, pr)
           /\ "UM_RECVD" \notin f /\ Single(link) /\ LineOK(link, c.chan)
           /\ api["P"] \in [Secs -> Call]
      BY <2>8, <3>9, Zenon DEF AtPrimary, Primary
    <3>. HIDE DEF f, m
    <3>17. Primary(link, d.x, d.p, api["P"], f, d.chan, pr)
      BY <2>1, <3>7, <3>8, <3>10, <3>12, <3>13, <3>14, <3>15, <3>16, PrimaryKept
    <3>18. AtPrimary(d)
      BY <2>1, <2>9, <3>9, <3>11, <3>16, <3>17 DEF AtPrimary, f
    <3>. QED BY <2>8, <3>9, <3>18, SMTT(30)
  <2>. QED BY <2>12, <2>13
<1>. QED BY <1>1, <1>2

LEMMA ServeCommandKept ==
    ASSUME NEW c, AtPrimary(c), c.to = "on", NEW d, d = ServeCommand("P", c)
    PROVE  AtPrimary(d) /\ (d.to = "on" => "LINK_REQ" \notin d.cm)
<1>. DEFINE p == c.p[c.x.c_peer]
            c1 == ServeRequest("P", c)
            c2 == ServeRetry("P", c1)
<1>1. CASE ~("LINK_REQ" \in c.cm \/ (p.sent /\ "C_RPLYTMO" \in c.cm))
  <2>1. d = c
    BY <1>1, Zenon DEF ServeCommand
  <2>. QED BY <1>1, <2>1
<1>2. CASE "LINK_REQ" \in c.cm \/ (p.sent /\ "C_RPLYTMO" \in c.cm)
  <2>1. AtPrimary(c1) /\ (c1.to = "on" => Commanded(c1))
    BY <1>2, RequestKept
  <2>2. c1.x.pri
    BY <2>1, AtPrimaryFacts, Zenon
  <2>3. d = SendCommand("P", c2)
    BY <1>2, <2>2, Zenon DEF ServeCommand
  <2>. HIDE DEF c1
  <2>4. AtPrimary(c2) /\ (c2.to = "on" => Commanded(c2))
    BY <2>1, RetryKept
  <2>. QED BY <2>3, <2>4, SendKept
<1>. QED BY <1>1, <1>2

\* Nothing that the connection depends on changes.
SameLink(s, c, d) ==
    /\ d.chan = c.chan /\ d.app = c.app
    /\ \A r \in PeerSet(s) : Alike(c.p[r], d.p[r])
    /\ d.x.pri = c.x.pri /\ d.x.mode = c.x.mode /\ d.x.rx_fn = c.x.rx_fn
    /\ d.x.connected_count = c.x.connected_count
    /\ c.x.f_rcved => d.x.f_rcved

LEMMA NeedPollAlike ==
    ASSUME NEW s \in Station, NEW c, Sound(s, c), NEW q \in PeerSet(s), NEW b,
           NEW p2, p2 = [c.p EXCEPT ![q].need_p = b]
    PROVE  \A r \in PeerSet(s) : Alike(c.p[r], p2[r])
<1>1. c.p \in [PeerSet(s) -> PeerState] /\ c.p[q] \in PeerState
  BY SoundFacts
<1>2. p2[q] = [c.p[q] EXCEPT !.need_p = b] /\ \A r \in PeerSet(s) \ {q} : p2[r] = c.p[r]
  BY <1>1
<1>3. Alike(c.p[q], p2[q])
  BY <1>1, <1>2 DEF Alike, PeerState
<1>. QED BY <1>2, <1>3 DEF Alike

LEMMA ServeDisconnectedDoes ==
    ASSUME NEW s \in Station, NEW c, Sound(s, c), NEW d, d = ServeDisconnected(s, c),
           NEW v, v = c.p[c.x.c_peer], NEW free,
           free <=> c.x.pri /\ ~v.conn /\ v.um_cmd = "none" /\ ~v.sent
    PROVE  /\ SameLink(s, c, d)
           /\ d.x.c_peer = c.x.c_peer \/ free
           /\ d.cm \subseteq c.cm \union {"LINK_ST_CHG"}
           /\ c.cm \intersect {"LINK_REQ", "C_RPLYTMO"} \subseteq d.cm \/ free
           /\ c.to # "on" => d = c
           /\ c.to = "on" => IF v.conn /\ ~v.sent THEN d.to = "on" ELSE d.to = "loop"
           /\ c.to = "on" /\ "UM_RECVD" \in d.cm => v.conn /\ ~v.sent
<1>. DEFINE g == MoveToNext(s, c, FALSE)
            next == g.x.c_peer
            cm1 == c.cm \ {"LINK_ST_CHG"}
            cm2 == c.cm \intersect {"C_RPLYTMO", "LINK_REQ"}
            r1 == [c EXCEPT !.cm = cm1]
            r2 == [g EXCEPT !.to = "loop", !.cm = {"LINK_ST_CHG"}, !.p[next].need_p = TRUE]
            r3 == [g EXCEPT !.to = "loop", !.cm = {}]
            r4 == [c EXCEPT !.to = "loop", !.cm = cm2]
<1>1. d = IF c.to # "on" THEN c
          ELSE IF v.conn /\ ~v.sent THEN r1
          ELSE IF c.x.pri /\ ~v.conn /\ v.um_cmd = "none" /\ ~v.sent
               THEN IF c.p[next].conn THEN r2 ELSE r3
          ELSE r4
  <2>1. r1 = [c EXCEPT !.cm = @ \ {"LINK_ST_CHG"}]
        /\ r4 = [c EXCEPT !.to = "loop", !.cm = @ \intersect {"C_RPLYTMO", "LINK_REQ"}]
    <3>. HIDE DEF g
    <3>. QED OBVIOUS
  <2>. HIDE DEF r1, r4
  <2>. QED BY <2>1, Zenon DEF ServeDisconnected
<1>2. /\ SameRest(c, g) /\ g.app = c.app /\ g.p = c.p
      /\ g.x = [c.x EXCEPT !.c_peer = NextPeer(s, c, FALSE)] /\ next \in PeerSet(s)
  <2>1. \A o \in BOOLEAN : \A h : h = MoveToNext(s, c, o) =>
           /\ SameRest(c, h) /\ h.app = c.app /\ h.p = c.p
           /\ h.x = [c.x EXCEPT !.c_peer = NextPeer(s, c, o)] /\ h.x.c_peer \in PeerSet(s)
    BY MoveToNextDoes
  <2>2. FALSE \in BOOLEAN
    OBVIOUS
  <2>. QED BY <2>1, <2>2, Zenon
<1>3. Sound(s, g)
  BY MoveToNextSound, Zenon
<1>. HIDE DEF g
<1>4. /\ g.x.pri = c.x.pri /\ g.x.mode = c.x.mode /\ g.x.rx_fn = c.x.rx_fn
      /\ g.x.connected_count = c.x.connected_count /\ g.x.f_rcved = c.x.f_rcved
  <2>. DEFINE n == NextPeer(s, c, FALSE)
  <2>. HIDE DEF n
  <2>1. g.x = [c.x EXCEPT !.c_peer = n] /\ c.x \in StationState(s)
    BY <1>2, SoundFacts DEF n
  <2>. QED BY <2>1 DEF StationState
<1>5. \A r \in PeerSet(s) : Alike(c.p[r], c.p[r])
  BY DEF Alike
<1>6. SameLink(s, c, c)
  BY <1>5 DEF SameLink
<1>7. CASE c.to # "on"
  BY <1>1, <1>6, <1>7
<1>8. CASE c.to = "on" /\ v.conn /\ ~v.sent
  <2>1. d = r1
    BY <1>1, <1>8, Zenon
  <2>2. d.x = c.x /\ d.p = c.p /\ d.cm = cm1 /\ d.chan = c.chan /\ d.app = c.app /\ d.to = c.to
    BY <2>1 DEF Sound, Handled
  <2>3. SameLink(s, c, d)
    BY <1>5, <2>2 DEF SameLink
  <2>. QED BY <1>8, <2>2, <2>3
<1>9. CASE c.to = "on" /\ ~(v.conn /\ ~v.sent) /\ free /\ c.p[next].conn
  <2>1. d = r2
    BY <1>1, <1>9, Zenon
  <2>2. d.x = g.x /\ d.p = [c.p EXCEPT ![next].need_p = TRUE] /\ d.cm = {"LINK_ST_CHG"}
        /\ d.chan = c.chan /\ d.app = c.app /\ d.to = "loop"
    BY <1>2, <1>3, <2>1, ZenonT(40) DEF Sound, Handled, SameRest
  <2>3. \A r \in PeerSet(s) : Alike(c.p[r], d.p[r])
    BY <1>2, <2>2, NeedPollAlike, ZenonT(40)
  <2>. HIDE DEF next
  <2>4. SameLink(s, c, d)
    BY <1>4, <2>2, <2>3, Zenon DEF SameLink
  <2>. QED BY <1>9, <2>2, <2>4
<1>10. CASE c.to = "on" /\ ~(v.conn /\ ~v.sent) /\ free /\ ~c.p[next].conn
  <2>1. d = r3
    BY <1>1, <1>10, Zenon
  <2>2. d.x = g.x /\ d.p = c.p /\ d.cm = {} /\ d.chan = c.chan /\ d.app = c.app /\ d.to = "loop"
    BY <1>2, <1>3, <2>1, Zenon DEF Sound, Handled, SameRest
  <2>4. SameLink(s, c, d)
    BY <1>4, <1>5, <2>2 DEF SameLink
  <2>. QED BY <1>10, <2>2, <2>4
<1>11. CASE c.to = "on" /\ ~(v.conn /\ ~v.sent) /\ ~free
  <2>1. d = r4
    BY <1>1, <1>11, Zenon
  <2>2. d.x = c.x /\ d.p = c.p /\ d.cm = cm2 /\ d.chan = c.chan /\ d.app = c.app /\ d.to = "loop"
    BY <2>1 DEF Sound, Handled
  <2>4. SameLink(s, c, d)
    BY <1>5, <2>2 DEF SameLink
  <2>. QED BY <1>11, <2>2, <2>4
<1>. QED BY <1>7, <1>8, <1>9, <1>10, <1>11, Zenon

LEMMA ServeTimersDoes ==
    ASSUME NEW s \in Station, NEW c, Sound(s, c), NEW d, d = ServeTimers(c),
           NEW q, q = c.x.c_peer, NEW late,
           late <=> c.to = "on" /\ c.x.mode \in {"NRM", "ABM"} /\ "C_RPLYTMO" \in c.cm
                    /\ c.p[q].t1 = "expired" /\ Exhausted(c, q)
    PROVE  /\ ~late => SameLink(s, c, d) /\ d.x.c_peer = q
           /\ late => LET g == TimeoutRetry(c, q)
                      IN  d.x = g.x /\ d.p = g.p /\ d.app = g.app /\ d.to = "loop"
           /\ d.chan = c.chan /\ d.cm \subseteq c.cm
           /\ {"LINK_REQ", "UM_RECVD"} \intersect c.cm \subseteq d.cm
           /\ c.to # "on" => d = c
           /\ c.to = "on" => IF late \/ c.x.mode \notin {"NRM", "ABM"} THEN d.to = "loop"
                             ELSE d.to = "tail"
<1>. DEFINE left == c.cm \ {"C_RPLYTMO", "T3_TMO", "LINE_IDLE"}
            some == c.cm \ {"C_RPLYTMO", "LINE_IDLE"}
            t1 == "C_RPLYTMO" \in c.cm /\ c.p[q].t1 = "expired"
            t3 == "T3_TMO" \in c.cm /\ c.p[q].t3 = "expired"
            g == TimeoutRetry(c, q)
            e == [g EXCEPT !.p[q].need_p = TRUE, !.x.f_rcved = TRUE]
            c1 == IF t1 THEN e ELSE c
            b == c1.p[q].need_p \/ (c.x.mode = "NRM" /\ c.x.pri)
            r1 == [c EXCEPT !.to = "loop"]
            r2 == [g EXCEPT !.to = "loop", !.cm = some]
            r3 == [c1 EXCEPT !.to = "tail", !.cm = left, !.p[q].t3 = "off",
                             !.p[q].need_p = b]
            r4 == [c1 EXCEPT !.to = "tail", !.cm = left]
<1>1. q \in PeerSet(s) /\ c.p \in [PeerSet(s) -> PeerState] /\ c.p[q] \in PeerState
      /\ c.x \in StationState(s)
  BY SoundFacts
<1>2. Sound(s, g) /\ g.cm = c.cm /\ g.chan = c.chan
  <2>1. g.cm = c.cm /\ g.chan = c.chan
    BY DEF TimeoutRetry, Raise, AbortPeerLink, LeaveMode, SetDisconnected, ResetProtocol
  <2>. QED BY <1>1, <2>1, TimeoutRetrySound
<1>3. d = IF c.to # "on" THEN c
          ELSE IF c.x.mode \notin {"NRM", "ABM"} THEN r1
          ELSE IF t1 /\ Exhausted(c, q) THEN r2
          ELSE IF t3 THEN r3
          ELSE r4
  <2>1. r2 = [g EXCEPT !.to = "loop", !.cm = @ \ {"C_RPLYTMO", "LINE_IDLE"}]
    BY <1>2 DEF Sound, Handled
  <2>2. r3 = [c1 EXCEPT !.to = "tail", !.cm = left, !.p[q].t3 = "off",
                        !.p[q].need_p = @ \/ (c.x.mode = "NRM" /\ c.x.pri)]
    <3>. HIDE DEF c1
    <3>. QED OBVIOUS
  <2>3. d = IF c.to # "on" THEN c
            ELSE IF c.x.mode \notin {"NRM", "ABM"} THEN r1
            ELSE IF t1 /\ Exhausted(c, q)
                 THEN [g EXCEPT !.to = "loop", !.cm = @ \ {"C_RPLYTMO", "LINE_IDLE"}]
            ELSE IF t3
                 THEN [c1 EXCEPT !.to = "tail", !.cm = left, !.p[q].t3 = "off",
                                 !.p[q].need_p = @ \/ (c.x.mode = "NRM" /\ c.x.pri)]
            ELSE r4
    BY DEF ServeTimers
  <2>. HIDE DEF r1, r2, r3, r4, g, c1, t1, t3
  <2>. QED BY <2>1, <2>2, <2>3, Zenon
<1>4. \A r \in PeerSet(s) : Alike(c.p[r], c.p[r])
  BY DEF Alike
<1>5. SameLink(s, c, c)
  BY <1>4 DEF SameLink
<1>. HIDE DEF g, r1, r2, r3, r4
<1>6. CASE c.to # "on"
  BY <1>3, <1>5, <1>6
<1>7. CASE c.to = "on" /\ c.x.mode \notin {"NRM", "ABM"}
  <2>1. d = r1 /\ ~late
    BY <1>3, <1>7, Zenon
  <2>2. d.x = c.x /\ d.p = c.p /\ d.cm = c.cm /\ d.chan = c.chan /\ d.app = c.app /\ d.to = "loop"
    BY <2>1 DEF Sound, Handled, r1
  <2>3. SameLink(s, c, d)
    BY <1>4, <2>2 DEF SameLink
  <2>. QED BY <1>7, <2>1, <2>2, <2>3
<1>8. CASE late
  <2>1. d = r2 /\ c.to = "on"
    BY <1>3, <1>8, Zenon
  <2>2. d.x = g.x /\ d.p = g.p /\ d.cm = some /\ d.chan = c.chan /\ d.app = g.app /\ d.to = "loop"
    BY <1>2, <2>1 DEF Sound, Handled, r2
  <2>. QED BY <1>8, <2>1, <2>2 DEF g
<1>9. CASE c.to = "on" /\ c.x.mode \in {"NRM", "ABM"} /\ ~late
  <2>1. d = (IF t3 THEN r3 ELSE r4) /\ ~(t1 /\ Exhausted(c, q))
    <3>. HIDE DEF t3
    <3>. QED BY <1>3, <1>9, Zenon
  <2>2. /\ c1.chan = c.chan /\ c1.app = c.app /\ Sound(s, c1) /\ c1.x.c_peer = q
        /\ \A r \in PeerSet(s) : Alike(c.p[r], c1.p[r])
        /\ c1.x.pri = c.x.pri /\ c1.x.mode = c.x.mode /\ c1.x.rx_fn = c.x.rx_fn
        /\ c1.x.connected_count = c.x.connected_count /\ (c.x.f_rcved => c1.x.f_rcved)
    <3>1. CASE t1
      <4>. DEFINE w == [c.p[q] EXCEPT !.retry = c.p[q].retry + 1, !.need_p = TRUE]
      <4>1. c1 = e
        BY <3>1
      <4>2. g = [c EXCEPT !.p[q].retry = @ + 1]
        BY <2>1, <3>1, Zenon DEF TimeoutRetry, g
      <4>3. e.x = [c.x EXCEPT !.f_rcved = TRUE] /\ e.app = c.app /\ e.chan = c.chan
        BY <1>2, <4>2 DEF Sound, Handled
      <4>4. e.p = [c.p EXCEPT ![q] = w]
        <5>1. g.p = [c.p EXCEPT ![q] = [c.p[q] EXCEPT !.retry = c.p[q].retry + 1]]
          BY <4>2 DEF Sound, Handled
        <5>2. e.p = [g.p EXCEPT ![q].need_p = TRUE]
          BY <1>2 DEF Sound, Handled
        <5>. QED BY <1>1, <5>1, <5>2, Zenon
      <4>5. Alike(c.p[q], w)
        BY <1>1 DEF Alike, PeerState
      <4>. HIDE DEF w
      <4>6. \A r \in PeerSet(s) : Alike(c.p[r], e.p[r])
        <5>1. e.p[q] = w /\ \A r \in PeerSet(s) \ {q} : e.p[r] = c.p[r]
          BY <1>1, <4>4
        <5>. HIDE DEF e
        <5>. QED BY <1>4, <4>5, <5>1
      <4>7. Sound(s, e)
        <5>. DEFINE h == [g EXCEPT !.p[q].need_p = TRUE]
        <5>1. Sound(s, h)
          BY <1>1, <1>2, NeedPoll, Zenon
        <5>2. e = [h EXCEPT !.x.f_rcved = TRUE]
          BY <1>2 DEF Sound, Handled
        <5>. HIDE DEF e, h
        <5>. QED BY <5>1, <5>2, FinalReceived, Zenon
      <4>. HIDE DEF e, c1
      <4>8. /\ e.x.pri = c.x.pri /\ e.x.mode = c.x.mode /\ e.x.rx_fn = c.x.rx_fn
            /\ e.x.connected_count = c.x.connected_count /\ e.x.f_rcved /\ e.x.c_peer = q
        BY <1>1, <4>3 DEF StationState
      <4>. QED BY <4>1, <4>3, <4>6, <4>7, <4>8
    <3>2. CASE ~t1
      <4>1. c1 = c
        BY <3>2
      <4>. HIDE DEF c1
      <4>. QED BY <1>4, <4>1
    <3>. QED BY <3>1, <3>2, Zenon
  <2>. HIDE DEF c1, b, left
  <2>3. CASE ~t3
    <3>1. d.x = c1.x /\ d.p = c1.p /\ d.cm = left /\ d.chan = c1.chan /\ d.app = c1.app
          /\ d.to = "tail"
      BY <2>1, <2>2, <2>3 DEF Sound, Handled, r4
    <3>2. SameLink(s, c, d)
      BY <2>2, <3>1 DEF SameLink
    <3>. QED BY <1>9, <2>2, <3>1, <3>2 DEF left
  <2>4. CASE t3
    <3>1. d.x = c1.x /\ d.p = [c1.p EXCEPT ![q].t3 = "off", ![q].need_p = b]
          /\ d.cm = left /\ d.chan = c1.chan /\ d.app = c1.app /\ d.to = "tail"
      BY <2>1, <2>2, <2>4 DEF Sound, Handled, r3
    <3>2. c1.p \in [PeerSet(s) -> PeerState] /\ c1.p[q] \in PeerState
      BY <1>1, <2>2, SoundFacts
    <3>3. \A r \in PeerSet(s) : Alike(c1.p[r], d.p[r])
      <4>1. d.p[q] = [c1.p[q] EXCEPT !.t3 = "off", !.need_p = b]
            /\ \A r \in PeerSet(s) \ {q} : d.p[r] = c1.p[r]
        <5>. DEFINE w == [c1.p[q] EXCEPT !.t3 = "off", !.need_p = b]
        <5>1. [c1.p EXCEPT ![q].t3 = "off", ![q].need_p = b] = [c1.p EXCEPT ![q] = w]
          BY <1>1, <3>2, Zenon
        <5>. HIDE DEF w
        <5>2. d.p = [c1.p EXCEPT ![q] = w]
          BY <3>1, <5>1, Zenon
        <5>3. d.p[q] = w /\ \A r \in PeerSet(s) \ {q} : d.p[r] = c1.p[r]
          BY <1>1, <3>2, <5>2
        <5>. QED BY <5>3 DEF w
      <4>2. Alike(c1.p[q], d.p[q])
        BY <3>2, <4>1 DEF Alike, PeerState
      <4>. QED BY <4>1, <4>2, Zenon DEF Alike
    <3>4. \A r \in PeerSet(s) : Alike(c.p[r], d.p[r])
      BY <2>2, <3>3 DEF Alike
    <3>5. SameLink(s, c, d)
      BY <2>2, <3>1, <3>4 DEF SameLink
    <3>. QED BY <1>9, <2>2, <3>1, <3>5 DEF left
  <2>. QED BY <2>3, <2>4
<1>. QED BY <1>6, <1>7, <1>8, <1>9

\* The command part leaves the round or goes on with it.
LEMMA ServeCommandGoesOn ==
    ASSUME NEW s \in Station, NEW c, Sound(s, c), c.to # "tail"
    PROVE  ServeCommand(s, c).to # "tail"
<1>1. ASSUME NEW g, Sound(s, g), g.to # "tail", NEW b \in BOOLEAN
      PROVE  MoveToNext(s, g, b).to # "tail"
  BY <1>1 DEF MoveToNext, Sound, Handled
<1>2. ASSUME NEW g, Sound(s, g), g.to # "tail"
      PROVE  ServeRequest(s, g).to # "tail"
  <2>. DEFINE h == MoveToNext(s, g, TRUE)
              r == [h EXCEPT !.to = "loop", !.cm = @ \ {"LINK_REQ", "C_RPLYTMO"}]
  <2>1. Sound(s, h)
    BY <1>2, MoveToNextSound, Zenon
  <2>2. h.to # "tail"
    <3>1. TRUE \in BOOLEAN
      OBVIOUS
    <3>. QED BY <1>1, <1>2, <3>1, Zenon
  <2>3. ServeRequest(s, g) \in {g, h, r}
    BY Zenon DEF ServeRequest
  <2>. HIDE DEF h
  <2>4. r.to = "loop"
    BY <2>1 DEF Sound, Handled
  <2>. HIDE DEF r
  <2>. QED BY <1>2, <2>2, <2>3, <2>4
<1>3. ASSUME NEW g, Sound(s, g), g.to # "tail"
      PROVE  ServeRetry(s, g).to # "tail"
  <2>. DEFINE h == TimeoutRetry(g, g.x.c_peer)
              k == MoveToNext(s, h, FALSE)
              r == [k EXCEPT !.to = "loop", !.cm = {}]
  <2>1. Sound(s, h) /\ h.to = g.to
    <3>1. h.to = g.to
      BY <1>3 DEF TimeoutRetry, Raise, AbortPeerLink, LeaveMode, SetDisconnected,
                  ResetProtocol, Sound, Handled
    <3>. QED BY <1>3, <3>1, SoundFacts, TimeoutRetrySound
  <2>2. ServeRetry(s, g) \in {g, h, r}
    BY Zenon DEF ServeRetry
  <2>. HIDE DEF h
  <2>3. Sound(s, k)
    BY <2>1, MoveToNextSound, Zenon
  <2>. HIDE DEF k
  <2>4. r.to = "loop"
    BY <2>3 DEF Sound, Handled
  <2>. HIDE DEF r
  <2>. QED BY <1>3, <2>1, <2>2, <2>4
<1>4. ASSUME NEW g, Sound(s, g), g.to # "tail"
      PROVE  SendCommand(s, g).to # "tail"
  BY <1>4 DEF SendCommand, Polled, Send, Sound, Handled
<1>5. ServeCommand(s, c) \in
         {c, SendCommand(s, ServeRetry(s, ServeRequest(s, c))),
          [ServeRequest(s, c) EXCEPT !.to = "loop", !.cm = {}]}
  BY Zenon DEF ServeCommand
<1>6. Sound(s, ServeRequest(s, c)) /\ ServeRequest(s, c).to # "tail"
  BY <1>2, ServeRequestSound
<1>7. SendCommand(s, ServeRetry(s, ServeRequest(s, c))).to # "tail"
  BY <1>3, <1>4, <1>6, ServeRetrySound
<1>8. [ServeRequest(s, c) EXCEPT !.to = "loop", !.cm = {}].to = "loop"
  BY <1>6 DEF Sound, Handled
<1>. QED BY <1>5, <1>7, <1>8, Zenon

\* The primary waits for the responses to its commands, and moves on.
LEMMA ServeDisconnectedKept ==
    ASSUME NEW c, AtPrimary(c), c.to = "on" => "LINK_REQ" \notin c.cm,
           NEW d, d = ServeDisconnected("P", c)
    PROVE  /\ AtPrimary(d)
           /\ d.to = "on" => d.p[d.x.c_peer].conn /\ ~d.p[d.x.c_peer].sent
           /\ c.to # "tail" => d.to # "tail"
<1>. DEFINE v == c.p[c.x.c_peer]
            free == c.x.pri /\ ~v.conn /\ v.um_cmd = "none" /\ ~v.sent
<1>1. /\ Sound("P", c) /\ c.x.c_peer \in Secs /\ c.app \subseteq {"LINK_LOST"}
      /\ "P" \in Station /\ PeerSet("P") = Secs /\ "UM_RECVD" \notin c.cm
  BY AtPrimaryFacts, PrimaryPeers, Zenon DEF AtPrimary, Primary
<1>2. /\ SameLink("P", c, d)
      /\ d.x.c_peer = c.x.c_peer \/ free
      /\ d.cm \subseteq c.cm \union {"LINK_ST_CHG"}
      /\ c.cm \intersect {"LINK_REQ", "C_RPLYTMO"} \subseteq d.cm \/ free
      /\ c.to # "on" => d = c
      /\ c.to = "on" => IF v.conn /\ ~v.sent THEN d.to = "on" ELSE d.to = "loop"
      /\ c.to = "on" /\ "UM_RECVD" \in d.cm => v.conn /\ ~v.sent
  <2>1. ASSUME NEW w, w = c.p[c.x.c_peer], NEW o,
               o <=> c.x.pri /\ ~w.conn /\ w.um_cmd = "none" /\ ~w.sent
        PROVE  /\ SameLink("P", c, d)
               /\ d.x.c_peer = c.x.c_peer \/ o
               /\ d.cm \subseteq c.cm \union {"LINK_ST_CHG"}
               /\ c.cm \intersect {"LINK_REQ", "C_RPLYTMO"} \subseteq d.cm \/ o
               /\ c.to # "on" => d = c
               /\ c.to = "on" => IF w.conn /\ ~w.sent THEN d.to = "on" ELSE d.to = "loop"
               /\ c.to = "on" /\ "UM_RECVD" \in d.cm => w.conn /\ ~w.sent
    BY <1>1, <2>1, ServeDisconnectedDoes
  <2>. QED BY <2>1, Zenon
<1>3. CASE c.to # "on"
  BY <1>2, <1>3
<1>4. CASE c.to = "on"
  <2>1. \A q \in Secs : c.p[q].conn \/ c.p[q].sent => q = c.x.c_peer
    BY AtPrimaryFacts, Zenon
  <2>2. \A q \in Secs : c.p[q].conn \/ c.p[q].sent => d.x.c_peer = q
    <3>. TAKE q \in Secs
    <3>. HAVE c.p[q].conn \/ c.p[q].sent
    <3>1. q = c.x.c_peer /\ ~free
      BY <2>1
    <3>. QED BY <1>2, <3>1, Zenon
  <2>3. \A q \in Secs \intersect link.called :
           Pending(link, c.p[q], api["P"][q], ev["P"].flags \union d.cm)
    <3>. TAKE q \in Secs \intersect link.called
    <3>1. Pending(link, c.p[q], api["P"][q], ev["P"].flags \union c.cm)
      BY AtPrimaryFacts, Zenon
    <3>2. CASE ~free
      <4>1. {"LINK_REQ", "C_RPLYTMO"} \intersect c.cm \subseteq d.cm
        BY <1>2, <3>2
      <4>. QED BY <3>1, <4>1 DEF Pending
    <3>3. CASE free
      <4>1. q = c.x.c_peer => ~c.p[q].sent /\ c.p[q].um_cmd = "none"
        BY <3>3
      <4>2. ~c.p[q].sent
        BY <2>1, <4>1
      <4>. QED BY <1>4, <3>1, <4>2 DEF Pending
    <3>. QED BY <3>2, <3>3
  <2>4. Sound("P", d)
    BY <1>1, ServeDisconnectedSound
  <2>5. d.app \subseteq {"LINK_LOST"} /\ "UM_RECVD" \notin d.cm
        /\ ("LINK_REQ" \in d.cm => "LINK_REQ" \in c.cm)
        /\ ("C_RPLYTMO" \in d.cm => "C_RPLYTMO" \in c.cm)
    BY <1>1, <1>2 DEF SameLink
  <2>6. /\ d.chan = c.chan /\ \A q \in Secs : Alike(c.p[q], d.p[q])
        /\ d.x.pri = c.x.pri /\ d.x.mode = c.x.mode /\ d.x.rx_fn = c.x.rx_fn
        /\ d.x.connected_count = c.x.connected_count /\ (c.x.f_rcved => d.x.f_rcved)
    BY <1>1, <1>2, Zenon DEF SameLink
  <2>. HIDE DEF free, v
  <2>7. AtPrimary(d)
    BY <2>2, <2>3, <2>4, <2>5, <2>6, AtPrimaryAround
  <2>8. d.to = "on" => d.p[d.x.c_peer].conn /\ ~d.p[d.x.c_peer].sent
    <3>1. CASE v.conn /\ ~v.sent
      <4>1. d.x.c_peer = c.x.c_peer
        BY <1>1, <2>2, <3>1 DEF v
      <4>. QED BY <1>1, <2>6, <3>1, <4>1 DEF Alike, v
    <3>2. CASE ~(v.conn /\ ~v.sent)
      <4>1. d.to = "loop"
        BY <1>2, <1>4, <3>2
      <4>. QED BY <4>1
    <3>. QED BY <3>1, <3>2
  <2>9. d.to # "tail"
    BY <1>2, <1>4
  <2>. QED BY <2>7, <2>8, <2>9
<1>. QED BY <1>3, <1>4

LEMMA ServeTimersKept ==
    ASSUME NEW c, AtPrimary(c), c.to # "tail",
           c.to = "on" => c.p[c.x.c_peer].conn /\ ~c.p[c.x.c_peer].sent,
           NEW d, d = ServeTimers(c)
    PROVE  /\ AtPrimary(d)
           /\ d.to = "tail" => d.p[d.x.c_peer].conn /\ ~d.p[d.x.c_peer].sent
<1>. DEFINE q == c.x.c_peer
            late == /\ c.to = "on" /\ c.x.mode \in {"NRM", "ABM"} /\ "C_RPLYTMO" \in c.cm
                    /\ c.p[q].t1 = "expired" /\ Exhausted(c, q)
            g == TimeoutRetry(c, q)
<1>1. /\ Sound("P", c) /\ q \in Secs /\ c.app \subseteq {"LINK_LOST"}
      /\ "P" \in Station /\ PeerSet("P") = Secs /\ "UM_RECVD" \notin c.cm
  BY AtPrimaryFacts, PrimaryPeers, Zenon DEF AtPrimary, Primary
<1>2. /\ ~late => SameLink("P", c, d) /\ d.x.c_peer = q
      /\ late => d.x = g.x /\ d.p = g.p /\ d.app = g.app /\ d.to = "loop"
      /\ d.chan = c.chan /\ d.cm \subseteq c.cm
      /\ {"LINK_REQ", "UM_RECVD"} \intersect c.cm \subseteq d.cm
      /\ c.to # "on" => d = c
      /\ c.to = "on" => IF late \/ c.x.mode \notin {"NRM", "ABM"} THEN d.to = "loop"
                        ELSE d.to = "tail"
  <2>1. ASSUME NEW r, r = c.x.c_peer, NEW o,
               o <=> /\ c.to = "on" /\ c.x.mode \in {"NRM", "ABM"} /\ "C_RPLYTMO" \in c.cm
                     /\ c.p[r].t1 = "expired" /\ Exhausted(c, r)
        PROVE  /\ ~o => SameLink("P", c, d) /\ d.x.c_peer = r
               /\ o => LET h == TimeoutRetry(c, r)
                       IN  d.x = h.x /\ d.p = h.p /\ d.app = h.app /\ d.to = "loop"
               /\ d.chan = c.chan /\ d.cm \subseteq c.cm
               /\ {"LINK_REQ", "UM_RECVD"} \intersect c.cm \subseteq d.cm
               /\ c.to # "on" => d = c
               /\ c.to = "on" => IF o \/ c.x.mode \notin {"NRM", "ABM"} THEN d.to = "loop"
                                 ELSE d.to = "tail"
    BY <1>1, <2>1, ServeTimersDoes
  <2>. QED BY <2>1, Zenon
<1>3. CASE c.to # "on"
  BY <1>2, <1>3
<1>4. CASE c.to = "on"
  <2>1. c.p[q].conn /\ ~c.p[q].sent
    BY <1>4
  <2>2. /\ q \in link.called /\ Owned(q, c.p[q], c.x) /\ Calling(c.p[q], c.x, api["P"][q])
    BY <1>1, <2>1, AtPrimaryFacts, ZenonT(40)
  <2>3. Sound("P", d) /\ "UM_RECVD" \notin d.cm
    BY <1>1, <1>2, ServeTimersSound
  <2>4. CASE late
    <3>1. api["P"][q].pc # "upReq" /\ Exhausted(c, q)
      BY <2>1, <2>2, <2>4 DEF Calling
    <3>2. d.x = g.x /\ d.p = g.p /\ d.app = g.app /\ d.chan = c.chan /\ d.to = "loop"
      BY <1>2, <2>4, Zenon
    <3>3. q = c.x.c_peer /\ g = TimeoutRetry(c, q)
      OBVIOUS
    <3>. HIDE DEF late, g, q
    <3>4. AtPrimary(d)
      BY <2>1, <2>2, <2>3, <3>1, <3>2, <3>3, AbortKept
    <3>. QED BY <3>2, <3>4
  <2>5. CASE ~late
    <3>1. /\ SameLink("P", c, d) /\ d.x.c_peer = q /\ d.cm \subseteq c.cm
          /\ {"LINK_REQ", "UM_RECVD"} \intersect c.cm \subseteq d.cm
      BY <1>2, <2>5, Zenon
    <3>2. /\ d.chan = c.chan /\ \A r \in Secs : Alike(c.p[r], d.p[r])
          /\ d.x.pri = c.x.pri /\ d.x.mode = c.x.mode /\ d.x.rx_fn = c.x.rx_fn
          /\ d.x.connected_count = c.x.connected_count /\ (c.x.f_rcved => d.x.f_rcved)
          /\ d.app = c.app
      BY <1>1, <3>1, Zenon DEF SameLink
    <3>3. \A r \in Secs : c.p[r].conn \/ c.p[r].sent => d.x.c_peer = r
      BY <3>1, AtPrimaryFacts, Zenon
    <3>4. \A r \in Secs \intersect link.called :
             Pending(link, c.p[r], api["P"][r], ev["P"].flags \union d.cm)
      <4>. TAKE r \in Secs \intersect link.called
      <4>1. r = q
        BY <1>1, <2>2, AtPrimaryFacts, Zenon
      <4>2. Pending(link, c.p[r], api["P"][r], ev["P"].flags \union c.cm)
        BY AtPrimaryFacts, Zenon
      <4>3. c.p[r].um_cmd # "SNRM"
        BY <2>1, <2>2, <4>1 DEF Calling
      <4>4. "LINK_REQ" \in c.cm => "LINK_REQ" \in d.cm
        BY <3>1
      <4>. QED BY <4>2, <4>3, <4>4 DEF Pending
    <3>. HIDE DEF late, q
    <3>5. AtPrimary(d)
      BY <1>1, <2>3, <3>1, <3>2, <3>3, <3>4, AtPrimaryAround
    <3>6. d.p[d.x.c_peer].conn /\ ~d.p[d.x.c_peer].sent
      BY <1>1, <2>1, <3>1, <3>2 DEF Alike
    <3>. QED BY <3>5, <3>6
  <2>. QED BY <2>4, <2>5
<1>. QED BY <1>3, <1>4

-----------------------------------------------------------------------------
(* Steps of one station.                                                   *)

OnlyAt(s) ==
    \A r \in Station \ {s} :
        /\ st'[r] = st[r] /\ pr'[r] = pr[r] /\ api'[r] = api[r]
        /\ tx'[r] = tx[r] /\ ev'[r] = ev[r]

\* Nothing is under way that a command or a response would be.
Quiet(s) == Supervisory(chan[s]) /\ Supervisory(chan["P"]) /\ ~pr[s]["P"].rcved

LEMMA PrimaryStep ==
    ASSUME OneLink, link' = link, OnlyAt("P"), Hand("P")', LineOK(link, chan'),
           Primary(link, st'["P"], pr'["P"], api'["P"], InFlight("P")', chan', pr),
           tx'["P"].pc = "tail"
              => pr'["P"][st'["P"].c_peer].conn /\ ~pr'["P"][st'["P"].c_peer].sent
    PROVE  OneLink'
<1>1. \A s \in Secs : s \in Station \ {"P"}
  BY PrimaryPeers
<1>2. \A s \in Secs : /\ st'[s] = st[s] /\ pr'[s] = pr[s] /\ api'[s] = api[s]
                      /\ tx'[s] = tx[s] /\ ev'[s] = ev[s]
  BY <1>1 DEF OnlyAt
<1>3. Primary(link, st'["P"], pr'["P"], api'["P"], InFlight("P")', chan', pr')
  <2>1. \A q \in Secs : pr'[q]["P"].rcved = pr[q]["P"].rcved
    BY <1>2
  <2>. QED BY <2>1 DEF Primary, Abandoned
<1>4. \A s \in Station : Hand(s)'
  <2>1. \A s \in Station \ {"P"} : Hand(s)'
    BY DEF OnlyAt, Hand, OneLink
  <2>. QED BY <2>1
<1>5. \A s \in Secs : Secondary(st[s], pr[s]["P"], api[s]["P"], InFlight(s))'
  BY <1>2, Zenon DEF OneLink, InFlight
<1>6. \A s \in Secs \ link.called : ~pr'[s]["P"].rcved
  BY <1>2 DEF OneLink
<1>. QED BY <1>3, <1>4, <1>5, <1>6 DEF OneLink

\* A step of the secondary s, with what it leaves.  The secondaries of l.called
\* are those that may be told of something.
Moved(l, s) ==
    /\ OnlyAt(s) /\ Hand(s)' /\ LineOK(l, chan')
    /\ \A r \in Secs \ {s} : chan'[r] = chan[r]
    /\ Secondary(st'[s], pr'[s]["P"], api'[s]["P"], InFlight(s)')
    /\ s \notin l.called => ~pr'[s]["P"].rcved
    /\ Quiet(s) => Quiet(s)'

\* What OneLink says of the line and of the secondaries.
Ends(l) ==
    /\ \A s \in Secs : Hand(s)
    /\ LineOK(l, chan)
    /\ \A s \in Secs : Secondary(st[s], pr[s]["P"], api[s]["P"], InFlight(s))
    /\ \A s \in Secs \ l.called : ~pr[s]["P"].rcved

LEMMA OneLinkEnds == OneLink => Ends(link)
BY PrimaryPeers DEF OneLink, Ends

\* The same with every secondary called.
Everyone == [called |-> Secs]

\* The peer q of the primary: w is what q itself believes, ch the line.  It is
\* leaving when a DISC waits for it; it is answering as long as a response to
\* a command is to come.
Parting(f) == \E i \in DOMAIN f : f[i].type = "DISC"
From(q, f) == \E i \in DOMAIN f : f[i].src = q /\ f[i].type # "RR"
Leaving(q, w, ch) == Parting(ch[q]) \/ (w.rcved /\ w.um_cmd = "DISC")
Settled(q, w, ch) == ~Leaving(q, w, ch) /\ (w.rcved \/ From(q, ch["P"]) => w.conn)
Joined(q, w, ch) == w.conn /\ ~Leaving(q, w, ch)

\* What the primary believes of q, by v and its call a, and what is true.
Agreed(q, v, a, w, ch) ==
    /\ v.sent => v.um_cmd # "none"
    /\ v.um_cmd \in {"none", "SNRM", "DISC"} /\ ~v.rcved
    /\ v.um_cmd = "SNRM" => Settled(q, w, ch)
    /\ v.conn /\ ~(v.um_cmd = "DISC" /\ v.sent) => Joined(q, w, ch)
    /\ a.pc = "upReq" /\ v.conn => v.um_cmd # "DISC"

Accord ==
    /\ Ends(Everyone)
    /\ st["P"].pri /\ st["P"].mode # "ABM"
    /\ \A q \in Secs : Agreed(q, pr["P"][q], api["P"][q], pr[q]["P"], chan)

LEMMA SecondaryStep ==
    ASSUME OneLink, Single(link), link' = link, NEW s \in Secs, Moved(link, s)
    PROVE  OneLink'
<1>. USE DEF Moved
<1>1. s \in Station /\ s # "P" /\ "P" \in Station /\ \A r \in Secs : r \in Station
  BY PrimaryPeers
<1>2. /\ st'["P"] = st["P"] /\ pr'["P"] = pr["P"] /\ api'["P"] = api["P"]
      /\ tx'["P"] = tx["P"] /\ ev'["P"] = ev["P"]
  BY <1>1 DEF OnlyAt
<1>3. \A r \in Secs \ {s} : /\ st'[r] = st[r] /\ pr'[r] = pr[r] /\ api'[r] = api[r]
                            /\ tx'[r] = tx[r] /\ ev'[r] = ev[r]
  BY <1>1 DEF OnlyAt
<1>4. ASSUME NEW q \in Secs \intersect link.called, NEW v, NEW a, NEW f,
             Abandoned(q, v, a, f, chan, pr)
      PROVE  Abandoned(q, v, a, f, chan', pr')
  <2>1. SUFFICES ASSUME Supervisory(chan[q]), Supervisory(chan["P"]), ~pr[q]["P"].rcved
                 PROVE  /\ Supervisory(chan'[q]) /\ Supervisory(chan'["P"])
                        /\ ~pr'[q]["P"].rcved
    BY <1>4 DEF Abandoned
  <2>2. CASE q = s
    BY <2>1, <2>2 DEF Quiet
  <2>3. CASE q # s
    <3>1. s \in Secs \ link.called
      BY <2>3 DEF Single
    <3>2. chan[s] = << >> /\ ~pr[s]["P"].rcved
      BY <3>1 DEF OneLink, LineOK
    <3>3. Supervisory(chan[s])
      BY <3>2 DEF Supervisory
    <3>4. Supervisory(chan'["P"])
      BY <2>1, <3>2, <3>3 DEF Quiet
    <3>. QED BY <1>3, <2>1, <2>3, <3>4
  <2>. QED BY <2>2, <2>3
<1>5. Primary(link, st'["P"], pr'["P"], api'["P"], InFlight("P")', chan', pr')
  <2>1. Primary(link, st["P"], pr["P"], api["P"], InFlight("P"), chan, pr)
    BY DEF OneLink
  <2>2. InFlight("P")' = InFlight("P")
    BY <1>2 DEF InFlight
  <2>3. Primary(link, st["P"], pr["P"], api["P"], InFlight("P"), chan', pr')
    BY <1>4, <2>1 DEF Primary
  <2>. QED BY <1>2, <2>2, <2>3
<1>6. \A r \in Station : Hand(r)'
  <2>1. \A r \in Station \ {s} : Hand(r)'
    BY DEF OnlyAt, Hand, OneLink
  <2>. QED BY <2>1
<1>7. \A r \in Secs : Secondary(st[r], pr[r]["P"], api[r]["P"], InFlight(r))'
  <2>1. \A r \in Secs \ {s} : Secondary(st[r], pr[r]["P"], api[r]["P"], InFlight(r))'
    BY <1>3, Zenon DEF OneLink, InFlight
  <2>. QED BY <2>1
<1>8. \A r \in Secs \ link.called : ~pr'[r]["P"].rcved
  <2>1. \A r \in Secs \ {s} : r \notin link.called => ~pr'[r]["P"].rcved
    BY <1>3 DEF OneLink
  <2>. QED BY <2>1
<1>9. tx'["P"].pc = "tail"
         => pr'["P"][st'["P"].c_peer].conn /\ ~pr'["P"][st'["P"].c_peer].sent
  BY <1>2 DEF OneLink
<1>. QED BY <1>5, <1>6, <1>7, <1>8, <1>9 DEF OneLink

LEMMA NotifiedDoes ==
    ASSUME Typed, NEW s \in Station, NEW flags \in SUBSET AppFlag
    PROVE  /\ \A r \in Station \ {s} : Notified(s, flags)[r] = api[r]
           /\ Notified(s, flags)[s] \in [PeerSet(s) -> Call]
           /\ \A q \in PeerSet(s) :
                 /\ Notified(s, flags)[s][q].pc = api[s][q].pc
                 /\ Notified(s, flags)[s][q].s_mode = api[s][q].s_mode
                 /\ Notified(s, flags)[s][q].flags
                       = api[s][q].flags \union (flags \intersect Mask(api[s][q].pc))
<1>. DEFINE a == [q \in PeerSet(s) |->
                    [api[s][q] EXCEPT !.flags = @ \union (flags \intersect Mask(api[s][q].pc))]]
<1>1. Table(api) /\ api[s] \in [PeerSet(s) -> Call]
  BY DEF Typed
<1>2. Notified(s, flags) = [api EXCEPT ![s] = a]
  BY Zenon DEF Notified
<1>3. \A q \in PeerSet(s) :
         /\ a[q].pc = api[s][q].pc /\ a[q].s_mode = api[s][q].s_mode
         /\ a[q].flags = api[s][q].flags \union (flags \intersect Mask(api[s][q].pc))
  <2>. TAKE q \in PeerSet(s)
  <2>. DEFINE f == api[s][q].flags \union (flags \intersect Mask(api[s][q].pc))
  <2>1. a[q] = [api[s][q] EXCEPT !.flags = f]
    OBVIOUS
  <2>2. api[s][q] \in Call
    BY <1>1
  <2>. HIDE DEF f, a
  <2>3. a[q].pc = api[s][q].pc /\ a[q].s_mode = api[s][q].s_mode /\ a[q].flags = f
    BY <2>1, <2>2 DEF Call
  <2>. QED BY <2>3 DEF f
<1>. HIDE DEF a
<1>4. [api EXCEPT ![s] = a][s] = a /\ \A r \in Station \ {s} : [api EXCEPT ![s] = a][r] = api[r]
  BY <1>1 DEF Table
<1>. QED BY <1>2, <1>3, <1>4, NotifiedType, Zenon

\* Nobody is told.
LEMMA NobodyTold ==
    ASSUME Typed, NEW s \in Station, NEW flags \in SUBSET AppFlag,
           flags \subseteq {"LINK_LOST"} \/ \A q \in PeerSet(s) : api[s][q].pc = "idle"
    PROVE  Notified(s, flags)[s] = api[s]
<1>. DEFINE b == Notified(s, flags)[s]
<1>1. api[s] \in [PeerSet(s) -> Call]
  BY DEF Typed
<1>2. \A q \in PeerSet(s) : flags \intersect Mask(api[s][q].pc) = {}
  <2>. TAKE q \in PeerSet(s)
  <2>1. api[s][q].pc \in {"idle", "upReq", "up", "downReq", "down"}
    BY <1>1 DEF Call
  <2>2. "LINK_LOST" \notin Mask(api[s][q].pc)
    BY <2>1 DEF Mask
  <2>3. api[s][q].pc = "idle" => Mask(api[s][q].pc) = {}
    BY DEF Mask
  <2>. QED BY <2>2, <2>3
<1>3. /\ b \in [PeerSet(s) -> Call]
      /\ \A q \in PeerSet(s) :
            /\ b[q].pc = api[s][q].pc /\ b[q].s_mode = api[s][q].s_mode
            /\ b[q].flags = api[s][q].flags \union (flags \intersect Mask(api[s][q].pc))
  BY NotifiedDoes
<1>. HIDE DEF b
<1>4. \A q \in PeerSet(s) : b[q] = api[s][q]
  <2>. TAKE q \in PeerSet(s)
  <2>1. b[q] \in Call /\ api[s][q] \in Call
    BY <1>1, <1>3
  <2>2. b[q].flags = api[s][q].flags
    BY <1>2, <1>3, Zenon
  <2>. QED BY <1>3, <2>1, <2>2 DEF Call
<1>5. b = api[s]
  BY <1>1, <1>3, <1>4
<1>. QED BY <1>5 DEF b

\* What a handler of s leaves behind.
LEMMA Stored ==
    ASSUME Typed, NEW s \in Station, NEW c, Sound(s, c),
           st' = [st EXCEPT ![s] = c.x], pr' = [pr EXCEPT ![s] = c.p],
           api' = Notified(s, c.app),
           \A r \in Station \ {s} : tx'[r] = tx[r] /\ ev'[r] = ev[r]
    PROVE  OnlyAt(s) /\ st'[s] = c.x /\ pr'[s] = c.p
<1>1. Table(st) /\ Table(pr) /\ c.app \in SUBSET AppFlag
  BY SoundFacts DEF Typed
<1>2. st'[s] = c.x /\ \A r \in Station \ {s} : st'[r] = st[r]
  BY <1>1 DEF Table
<1>3. pr'[s] = c.p /\ \A r \in Station \ {s} : pr'[r] = pr[r]
  BY <1>1 DEF Table
<1>4. \A r \in Station \ {s} : api'[r] = api[r]
  BY <1>1, NotifiedDoes
<1>. QED BY <1>2, <1>3, <1>4 DEF OnlyAt

LEMMA ContextAtPrimary ==
    ASSUME Mode = "NRM", Single(link), Typed, OneLink, NEW c, c = Context("P", tx["P"].cm)
    PROVE  /\ AtPrimary(c) /\ c.to = "on" /\ c.app = {}
           /\ c.x = st["P"] /\ c.p = pr["P"] /\ c.chan = chan /\ c.cm = tx["P"].cm
<1>1. c.to = "on" /\ c.app = {} /\ c.x = st["P"] /\ c.p = pr["P"] /\ c.chan = chan
      /\ c.cm = tx["P"].cm
  BY DEF Context
<1>2. "P" \in Station /\ tx["P"].cm \in SUBSET Flag /\ api["P"] \in [Secs -> Call]
  BY PrimaryPeers DEF Typed, Thread
<1>3. Sound("P", c)
  BY <1>2, ContextSound
<1>. QED BY <1>1, <1>2, <1>3, Zenon DEF AtPrimary, OneLink, InFlight

\* A round of the TX thread of the primary.
LEMMA ServePrimary ==
    ASSUME Mode = "NRM", Single(link), Typed, OneLink, TxServe("P"), link' = link
    PROVE  OneLink'
<1>. DEFINE c0 == Context("P", tx["P"].cm)
            c1 == ServeCommand("P", c0)
            c2 == ServeResponse("P", c1)
            c3 == ServeDisconnected("P", c2)
            d == ServeTimers(c3)
<1>1. AtPrimary(c0) /\ c0.to = "on"
  BY ContextAtPrimary
<1>2. /\ tx["P"].pc = "serve"
      /\ Store("P", d)
      /\ tx' = [tx EXCEPT !["P"] =
                   [pc |-> IF d.to = "tail" THEN "tail"
                           ELSE IF d.cm = {} THEN "wait" ELSE "serve",
                    cm |-> d.cm]]
      /\ UNCHANGED <<ev, used>>
  BY PrimaryPeers, TxServeRound DEF Round
<1>3. d = Round("P")
  BY DEF Round
<1>. HIDE DEF c0
<1>4. AtPrimary(c1) /\ (c1.to = "on" => "LINK_REQ" \notin c1.cm) /\ c1.to # "tail"
  <2>1. Sound("P", c0) /\ c0.to # "tail"
    BY <1>1 DEF AtPrimary
  <2>. QED BY <1>1, <2>1, PrimaryPeers, ServeCommandKept, ServeCommandGoesOn
<1>. HIDE DEF c1
<1>5. c2 = c1
  <2>1. ~c1.p[c1.x.c_peer].rcved
    BY <1>4, AtPrimaryFacts, Zenon DEF AtPrimary, Primary
  <2>. QED BY <2>1, Zenon DEF ServeResponse
<1>. HIDE DEF c2
<1>6. /\ AtPrimary(c3) /\ c3.to # "tail"
      /\ c3.to = "on" => c3.p[c3.x.c_peer].conn /\ ~c3.p[c3.x.c_peer].sent
  BY <1>4, <1>5, ServeDisconnectedKept
<1>. HIDE DEF c3
<1>7. AtPrimary(d) /\ (d.to = "tail" => d.p[d.x.c_peer].conn /\ ~d.p[d.x.c_peer].sent)
  BY <1>6, ServeTimersKept
<1>. HIDE DEF d
<1>8. Sound("P", d) /\ d.app \subseteq {"LINK_LOST"} /\ LineOK(link, d.chan)
      /\ Primary(link, d.x, d.p, api["P"], ev["P"].flags \union d.cm, d.chan, pr)
  BY <1>7 DEF AtPrimary
<1>9. /\ tx'["P"].pc = (IF d.to = "tail" THEN "tail" ELSE IF d.cm = {} THEN "wait" ELSE "serve")
      /\ tx'["P"].cm = d.cm /\ ev' = ev
      /\ \A r \in Station \ {"P"} : tx'[r] = tx[r]
  <2>1. tx \in [Station -> Thread] /\ "P" \in Station
    BY PrimaryPeers DEF Typed
  <2>. QED BY <1>2, <2>1
<1>10. /\ st' = [st EXCEPT !["P"] = d.x] /\ pr' = [pr EXCEPT !["P"] = d.p]
       /\ api' = Notified("P", d.app) /\ chan' = d.chan
  BY <1>2 DEF Store
<1>11. OnlyAt("P") /\ st'["P"] = d.x /\ pr'["P"] = d.p
  <2>1. \A r \in Station \ {"P"} : tx'[r] = tx[r] /\ ev'[r] = ev[r]
    BY <1>9
  <2>. QED BY <1>8, <1>10, <2>1, PrimaryPeers, Stored, Zenon
<1>12. api'["P"] = api["P"]
  BY <1>8, <1>10, PrimaryPeers, SoundFacts, NobodyTold
<1>13. Hand("P")'
  <2>1. Hand("P")
    BY PrimaryPeers DEF OneLink
  <2>. QED BY <1>9, <2>1 DEF Hand
<1>14. Primary(link, st'["P"], pr'["P"], api'["P"], InFlight("P")', chan', pr)
  BY <1>8, <1>9, <1>10, <1>11, <1>12 DEF InFlight
<1>. QED BY <1>7, <1>8, <1>9, <1>10, <1>11, <1>13, <1>14, PrimaryStep

\* What the end of ioHdlcConnectedTx leaves alone.
SameCalls(c, d, q) ==
    /\ d.app = c.app /\ d.x.pri = c.x.pri /\ d.x.mode = c.x.mode
    /\ d.x.rx_fn = c.x.rx_fn /\ d.x.connected_count = c.x.connected_count
    /\ d.x.c_peer = q
    /\ \A r \in Secs \ {q} : Alike(c.p[r], d.p[r])
    /\ d.p[q].conn = c.p[q].conn /\ d.p[q].um_cmd = c.p[q].um_cmd
    /\ d.p[q].sent = c.p[q].sent /\ d.p[q].rcved = c.p[q].rcved

LEMMA PollSent ==
    ASSUME NEW c, AtPrimary(c), NEW q, q = c.x.c_peer, q \in link.called,
           NEW cmd, cmd \in BOOLEAN, cmd, NEW pf, pf \in BOOLEAN,
           NEW d, d = Send("P", c, "RR", cmd, pf)
    PROVE  Sound("P", d) /\ LineOK(link, d.chan) /\ d.x = c.x /\ d.p = c.p /\ d.app = c.app
<1>. DEFINE m == [type |-> "RR", cmd |-> cmd, pf |-> pf, src |-> "P"]
<1>1. Sound("P", c) /\ q \in Secs /\ c.chan \in Line /\ LineOK(link, c.chan)
  BY AtPrimaryFacts, Zenon DEF AtPrimary
<1>2. d.x = c.x /\ d.p = c.p /\ d.app = c.app /\ d.chan = [c.chan EXCEPT ![q] = Append(@, m)]
  BY <1>1 DEF Send, Sound, Handled
<1>3. Sound("P", d)
  BY <1>1, PrimaryPeers, SendSound, Zenon
<1>4. c.chan[q] \in Seq(LineFrame) /\ m \in LineFrame /\ q \in Station /\ q # "P"
      /\ DOMAIN c.chan = Station
  BY <1>1, PrimaryPeers DEF Line, LineFrame
<1>5. m.cmd /\ m.type = "RR"
  OBVIOUS
<1>. HIDE DEF m
<1>6. /\ Answers(c.chan["P"]) /\ \A s \in Secs : Orders(c.chan[s])
      /\ \A s \in Secs \ link.called : c.chan[s] = << >>
  BY <1>1 DEF LineOK
<1>7. Orders(Append(c.chan[q], m))
  BY <1>1, <1>4, <1>5, <1>6, QueueFacts
<1>8. d.chan[q] = Append(c.chan[q], m) /\ \A s \in Station \ {q} : d.chan[s] = c.chan[s]
  BY <1>2, <1>4, Zenon
<1>9. d.chan["P"] = c.chan["P"] /\ \A s \in Secs \ {q} : d.chan[s] = c.chan[s]
  BY <1>4, <1>8, PrimaryPeers, Zenon
<1>10. LineOK(link, d.chan)
  BY <1>6, <1>7, <1>8, <1>9, Zenon DEF LineOK
<1>. QED BY <1>2, <1>3, <1>10, Zenon

LEMMA TailSentPrimary ==
    ASSUME Mode = "NRM", Single(link), Typed, OneLink,
           NEW c, c = Context("P", tx["P"].cm), NEW q, q = c.x.c_peer, q \in link.called,
           NEW d, d = TailSent("P")
    PROVE  Sound("P", d) /\ LineOK(link, d.chan) /\ SameCalls(c, d, q)
<1>. DEFINE cmd == IsCommand(c.x)
            pf == IF cmd THEN c.x.f_rcved ELSE c.x.p_rcved
            sent == Send("P", c, "RR", cmd, pf)
            p1 == Polled(sent)
            r1 == [p1 EXCEPT !.p[q].need_p = FALSE]
<1>1. /\ AtPrimary(c) /\ Sound("P", c) /\ q \in Secs /\ LineOK(link, c.chan) /\ c.x.pri
      /\ c.x.mode # "ABM" /\ c.x \in StationState("P") /\ c.p \in [Secs -> PeerState]
  BY ContextAtPrimary, AtPrimaryFacts, Zenon DEF AtPrimary
<1>2. "P" \in Station /\ PeerSet("P") = Secs
  BY PrimaryPeers
<1>3. Sound("P", d)
  BY <1>2, TailSentSound
<1>4. cmd \in BOOLEAN /\ cmd
  BY <1>1 DEF IsCommand, StationState
<1>5. d \in {c, sent, r1}
  BY <1>4, Zenon DEF TailSent
<1>. HIDE DEF cmd
<1>12. pf \in BOOLEAN
  BY <1>1 DEF StationState
<1>. HIDE DEF pf
<1>6. Sound("P", sent) /\ LineOK(link, sent.chan) /\ sent.x = c.x /\ sent.p = c.p
      /\ sent.app = c.app
  <2>1. sent = Send("P", c, "RR", cmd, pf)
    BY SMTT(30)
  <2>. HIDE DEF sent
  <2>2. sent.x = c.x /\ sent.p = c.p /\ sent.app = c.app
    BY <1>1, <2>1 DEF Send, Sound, Handled
  <2>3. \A k \in BOOLEAN : \A y \in BOOLEAN : \A e : k /\ e = Send("P", c, "RR", k, y)
           => Sound("P", e)
    BY <1>1, PollSent, Zenon
  <2>4. \A k \in BOOLEAN : \A y \in BOOLEAN : \A e : k /\ e = Send("P", c, "RR", k, y)
           => LineOK(link, e.chan)
    BY <1>1, PollSent, Zenon
  <2>5. Sound("P", sent)
    BY <1>4, <1>12, <2>1, <2>3, Zenon
  <2>6. LineOK(link, sent.chan)
    BY <1>4, <1>12, <2>1, <2>4, Zenon
  <2>. QED BY <2>2, <2>5, <2>6
<1>7. SameCalls(c, c, q) /\ SameCalls(c, sent, q)
  <2>. HIDE DEF sent
  <2>. QED BY <1>1, <1>6, Zenon DEF SameCalls, Alike
<1>. HIDE DEF sent
<1>8. /\ SameRest(sent, p1) /\ p1.app = c.app
      /\ p1.x = [c.x EXCEPT !.f_rcved = FALSE]
      /\ Others("P", sent, p1, q)
      /\ p1.p[q].conn = c.p[q].conn /\ p1.p[q].um_cmd = c.p[q].um_cmd
      /\ p1.p[q].sent = c.p[q].sent /\ p1.p[q].rcved = c.p[q].rcved
      /\ Sound("P", p1)
  BY <1>1, <1>2, <1>6, PolledDoes, PolledSound, SMTT(30)
<1>. HIDE DEF p1
<1>9. r1.x = p1.x /\ r1.p = [p1.p EXCEPT ![q].need_p = FALSE] /\ r1.chan = sent.chan
      /\ r1.app = c.app
  BY <1>8, Zenon DEF Sound, Handled, SameRest
<1>. HIDE DEF r1
<1>10. \A r \in Secs : Alike(p1.p[r], r1.p[r])
  <2>1. \A b, w : w = [p1.p EXCEPT ![q].need_p = b] =>
           \A r \in PeerSet("P") : Alike(p1.p[r], w[r])
    <3>1. "P" \in Station /\ q \in PeerSet("P") /\ Sound("P", p1)
      BY <1>1, <1>2, <1>8
    <3>. QED BY <3>1, NeedPollAlike, ZenonT(40)
  <2>. QED BY <1>2, <1>9, <2>1, Zenon
<1>11. SameCalls(c, r1, q)
  <2>1. /\ r1.x.pri = c.x.pri /\ r1.x.mode = c.x.mode /\ r1.x.rx_fn = c.x.rx_fn
        /\ r1.x.connected_count = c.x.connected_count /\ r1.x.c_peer = q
    <3>1. r1.x = [c.x EXCEPT !.f_rcved = FALSE] /\ c.x \in StationState("P")
      BY <1>1, <1>8, <1>9, Zenon
    <3>. QED BY <3>1, SMTT(30) DEF StationState
  <2>2. \A r \in Secs \ {q} : Alike(c.p[r], r1.p[r])
    <3>1. \A r \in Secs \ {q} : p1.p[r] = c.p[r]
      BY <1>2, <1>6, <1>8, Zenon DEF Others
    <3>. QED BY <1>10, <3>1
  <2>3. /\ r1.p[q].conn = c.p[q].conn /\ r1.p[q].um_cmd = c.p[q].um_cmd
        /\ r1.p[q].sent = c.p[q].sent /\ r1.p[q].rcved = c.p[q].rcved
    BY <1>1, <1>8, <1>10, Zenon DEF Alike
  <2>. QED BY <1>9, <2>1, <2>2, <2>3, Zenon DEF SameCalls
<1>. QED BY <1>1, <1>3, <1>5, <1>6, <1>7, <1>9, <1>11

LEMMA TailLeftPrimary ==
    ASSUME Mode = "NRM", Single(link), Typed, OneLink,
           NEW c, c = Context("P", tx["P"].cm), NEW q, q = c.x.c_peer, q \in link.called,
           c.p[q].conn, NEW d, d = TailLeft("P")
    PROVE  Sound("P", d) /\ LineOK(link, d.chan) /\ SameCalls(c, d, q)
<1>. DEFINE c1 == TailSent("P")
            c2 == MoveToNext("P", c1, FALSE)
            next == c2.x.c_peer
            r == [c2 EXCEPT !.p[next].need_p = TRUE]
<1>1. d \in {c1, c2, r}
  BY Zenon DEF TailLeft
<1>2. Sound("P", d) /\ "P" \in Station /\ PeerSet("P") = Secs
  BY PrimaryPeers, TailLeftSound
<1>3. Sound("P", c1) /\ LineOK(link, c1.chan) /\ SameCalls(c, c1, q)
  BY TailSentPrimary
<1>. HIDE DEF c1
<1>4. AtPrimary(c) /\ q \in Secs
  BY ContextAtPrimary, AtPrimaryFacts, Zenon
<1>5. /\ SameRest(c1, c2) /\ c2.app = c1.app /\ c2.p = c1.p /\ next \in Secs
      /\ c2.x = [c1.x EXCEPT !.c_peer = NextPeer("P", c1, FALSE)]
      /\ (\E o \in Secs : Matches(c1, o, FALSE)) => Matches(c1, next, FALSE)
      /\ Sound("P", c2)
  <2>1. \A b \in BOOLEAN : \A h : h = MoveToNext("P", c1, b) =>
           /\ SameRest(c1, h) /\ h.app = c1.app /\ h.p = c1.p /\ h.x.c_peer \in PeerSet("P")
           /\ h.x = [c1.x EXCEPT !.c_peer = NextPeer("P", c1, b)]
           /\ (\E o \in PeerSet("P") : Matches(c1, o, b)) => Matches(c1, h.x.c_peer, b)
    BY <1>2, <1>3, MoveToNextDoes
  <2>2. FALSE \in BOOLEAN
    OBVIOUS
  <2>3. Sound("P", c2)
    BY <1>2, <1>3, MoveToNextSound, Zenon
  <2>. QED BY <1>2, <2>1, <2>2, <2>3, Zenon
<1>. HIDE DEF c2
<1>6. next = q
  <2>1. Matches(c1, q, FALSE)
    BY <1>3, Zenon DEF Matches, SameCalls
  <2>2. Matches(c1, next, FALSE)
    BY <1>4, <1>5, <2>1, Zenon
  <2>3. c.p[next].conn \/ c.p[next].um_cmd # "none"
    BY <1>3, <1>5, <2>2, Zenon DEF Matches, SameCalls, Alike
  <2>4. \A o \in Secs : c.p[o].conn \/ c.p[o].um_cmd # "none" \/ c.p[o].sent
           => o \in link.called
    BY <1>4, AtPrimaryFacts, Zenon
  <2>5. next \in link.called
    BY <1>5, <2>3, <2>4, Zenon
  <2>. QED BY <2>5 DEF Single
<1>7. SameCalls(c, c2, q) /\ LineOK(link, c2.chan)
  <2>. DEFINE n == NextPeer("P", c1, FALSE)
  <2>. HIDE DEF n
  <2>1. c2.x = [c1.x EXCEPT !.c_peer = n] /\ c1.x \in StationState("P")
    BY <1>2, <1>3, <1>5, SoundFacts DEF n
  <2>2. /\ c2.x.pri = c1.x.pri /\ c2.x.mode = c1.x.mode /\ c2.x.rx_fn = c1.x.rx_fn
        /\ c2.x.connected_count = c1.x.connected_count
    BY <2>1, SMTT(30) DEF StationState
  <2>. QED BY <1>3, <1>5, <1>6, <2>2, Zenon DEF SameCalls, SameRest
<1>8. SameCalls(c, r, q) /\ LineOK(link, r.chan)
  <2>1. r.x = c2.x /\ r.p = [c2.p EXCEPT ![q].need_p = TRUE] /\ r.chan = c2.chan
        /\ r.app = c2.app
    BY <1>5, <1>6, Zenon DEF Sound, Handled
  <2>. HIDE DEF r
  <2>2. \A o \in Secs : Alike(c2.p[o], r.p[o])
    <3>1. \A b, w : w = [c2.p EXCEPT ![q].need_p = b] =>
             \A o \in PeerSet("P") : Alike(c2.p[o], w[o])
      <4>1. "P" \in Station /\ q \in PeerSet("P") /\ Sound("P", c2)
        BY <1>2, <1>4, <1>5
      <4>. QED BY <4>1, NeedPollAlike, Zenon
    <3>. QED BY <1>2, <2>1, <3>1, Zenon
  <2>3. \A o \in Secs \ {q} : Alike(c.p[o], r.p[o])
    BY <1>7, <2>2, ZenonT(40) DEF SameCalls, Alike
  <2>4. /\ r.p[q].conn = c.p[q].conn /\ r.p[q].um_cmd = c.p[q].um_cmd
        /\ r.p[q].sent = c.p[q].sent /\ r.p[q].rcved = c.p[q].rcved
    BY <1>4, <1>7, <2>2, Zenon DEF SameCalls, Alike
  <2>. QED BY <1>7, <2>1, <2>3, <2>4, ZenonT(40) DEF SameCalls
<1>. HIDE DEF r
<1>. QED BY <1>1, <1>2, <1>3, <1>7, <1>8

\* The primary polls the connected secondary.
LEMMA TailPrimary ==
    ASSUME Mode = "NRM", Single(link), Typed, OneLink, TxTail("P"), link' = link
    PROVE  OneLink'
<1>. DEFINE c == Context("P", tx["P"].cm)
            q == c.x.c_peer
            d == TailLeft("P")
            cm1 == (tx["P"].cm \union ev["P"].flags) \ {"PF_RECVD"}
            a == api["P"][q]
            f == InFlight("P")
            f2 == InFlight("P")'
<1>1. /\ AtPrimary(c) /\ c.x = st["P"] /\ c.p = pr["P"] /\ c.chan = chan /\ c.app = {}
      /\ c.cm = tx["P"].cm
  BY ContextAtPrimary
<1>2. /\ tx["P"].pc = "tail"
      /\ Store("P", d)
      /\ ev' = [ev EXCEPT !["P"].flags = {}]
      /\ tx' = [tx EXCEPT !["P"] =
                   [pc |-> IF cm1 = {} THEN "wait" ELSE "serve", cm |-> cm1]]
  BY PrimaryPeers, TxTailLeft, Zenon
<1>3. q \in Secs /\ q \in link.called /\ c.p[q].conn /\ ~c.p[q].sent
  <2>1. c.p[q].conn /\ ~c.p[q].sent
    BY <1>1, <1>2 DEF OneLink
  <2>. QED BY <1>1, <2>1, AtPrimaryFacts, ZenonT(40)
<1>4. Sound("P", d) /\ LineOK(link, d.chan) /\ SameCalls(c, d, q)
  <2>1. \A o, w, e : o = Context("P", tx["P"].cm) /\ w = o.x.c_peer /\ w \in link.called
           /\ o.p[w].conn /\ e = TailLeft("P")
           => Sound("P", e) /\ LineOK(link, e.chan) /\ SameCalls(o, e, w)
    BY TailLeftPrimary
  <2>. QED BY <1>3, <2>1, Zenon
<1>5. /\ tx'["P"].pc = (IF cm1 = {} THEN "wait" ELSE "serve") /\ tx'["P"].cm = cm1
      /\ ev'["P"].flags = {} /\ ev'["P"].pending = ev["P"].pending
      /\ \A r \in Station \ {"P"} : tx'[r] = tx[r] /\ ev'[r] = ev[r]
  <2>1. tx \in [Station -> Thread] /\ ev \in [Station -> Events] /\ "P" \in Station
    BY PrimaryPeers DEF Typed
  <2>2. ev["P"] \in Events
    BY <2>1
  <2>. HIDE DEF cm1
  <2>. QED BY <1>2, <2>1, <2>2 DEF Events
<1>6. /\ Owned(q, c.p[q], c.x) /\ Calling(c.p[q], c.x, a)
      /\ Pending(link, c.p[q], a, f) /\ Abandoned(q, c.p[q], a, f, c.chan, pr)
      /\ Primary(link, c.x, c.p, api["P"], f, c.chan, pr)
  BY <1>1, <1>3, AtPrimaryFacts DEF OneLink, InFlight
<1>7. f2 = f \ {"PF_RECVD"}
  BY <1>5 DEF InFlight
<1>. HIDE DEF c, q, d, cm1, f, f2
<1>8. "UM_RECVD" \notin f2 /\ ("LINK_REQ" \in f2 <=> "LINK_REQ" \in f)
  BY <1>6, <1>7 DEF Primary
<1>9. /\ d.x.pri = c.x.pri /\ d.x.mode = c.x.mode
      /\ d.x.rx_fn = c.x.rx_fn /\ d.x.connected_count = c.x.connected_count
      /\ d.x.c_peer = q /\ d.app = {}
      /\ d.p[q].conn /\ d.p[q].um_cmd = c.p[q].um_cmd
      /\ ~d.p[q].sent /\ d.p[q].rcved = c.p[q].rcved
      /\ \A r \in Secs \ {q} : Alike(c.p[r], d.p[r])
  BY <1>1, <1>3, <1>4 DEF SameCalls
<1>10. Owned(q, d.p[q], d.x)
  BY <1>3, <1>6, <1>9 DEF Owned
<1>11. Calling(d.p[q], d.x, a)
  BY <1>3, <1>6, <1>9 DEF Calling
<1>12. Pending(link, d.p[q], a, f2)
  BY <1>3, <1>6, <1>8, <1>9 DEF Pending, Calling
<1>13. Abandoned(q, d.p[q], a, f2, d.chan, pr)
  BY <1>3, <1>6, <1>8, <1>9 DEF Abandoned
<1>14. ~d.p[q].rcved /\ d.x.pri /\ d.x.mode \in {"NDM", "NRM", "ADM"}
  BY <1>3, <1>6, <1>9 DEF Primary
<1>15. Primary(link, d.x, d.p, api["P"], f2, d.chan, pr)
  <2>. HIDE DEF a
  <2>1. \A r \in Secs \ {q} : Alike(c.p[r], d.p[r]) /\ api["P"][r].pc = api["P"][r].pc
    BY <1>9
  <2>. QED BY <1>3, <1>6, <1>8, <1>10, <1>11, <1>12, <1>13, <1>14, <2>1, PrimaryKept DEF a
<1>16. /\ st' = [st EXCEPT !["P"] = d.x] /\ pr' = [pr EXCEPT !["P"] = d.p]
       /\ api' = Notified("P", d.app) /\ chan' = d.chan
  BY <1>2 DEF Store
<1>17. OnlyAt("P") /\ st'["P"] = d.x /\ pr'["P"] = d.p
  BY <1>4, <1>5, <1>16, PrimaryPeers, Stored, Zenon
<1>18. api'["P"] = api["P"]
  <2>1. d.app \subseteq {"LINK_LOST"} /\ d.app \in SUBSET AppFlag
    BY <1>9
  <2>. QED BY <1>16, <2>1, PrimaryPeers, NobodyTold
<1>19. Hand("P")' /\ tx'["P"].pc # "tail"
  BY <1>5 DEF Hand
<1>20. Primary(link, st'["P"], pr'["P"], api'["P"], InFlight("P")', chan', pr)
  BY <1>15, <1>16, <1>17, <1>18 DEF f2
<1>. QED BY <1>4, <1>16, <1>17, <1>19, <1>20, PrimaryStep

-----------------------------------------------------------------------------
(* What comes from the line.                                               *)

LEMMA BroadcastDoes ==
    ASSUME Typed, NEW s \in Station, NEW flags \in SUBSET Flag,
           NEW e, e = Broadcast(s, flags)
    PROVE  /\ \A r \in Station \ {s} : e[r] = ev[r]
           /\ e[s].flags = ev[s].flags \union flags
           /\ ev[s].pending => e[s].pending
           /\ flags # {} => e[s].pending
<1>. DEFINE v == [flags |-> ev[s].flags \union flags, pending |-> TRUE]
<1>1. ev \in [Station -> Events]
  BY DEF Typed
<1>2. e = IF flags = {} THEN ev ELSE [ev EXCEPT ![s] = v]
  BY DEF Broadcast
<1>3. v.flags = ev[s].flags \union flags /\ v.pending
  OBVIOUS
<1>. HIDE DEF v
<1>4. CASE flags = {}
  BY <1>2, <1>4
<1>5. CASE flags # {}
  BY <1>1, <1>2, <1>3, <1>5
<1>. QED BY <1>4, <1>5

LEMMA RecvRRDoes ==
    ASSUME NEW s \in Station, NEW c, Sound(s, c), NEW m, NEW d, d = RecvRR(c, m),
           NEW q, q = c.x.c_peer
    PROVE  /\ d.chan = c.chan /\ d.app = c.app
           /\ d.cm \subseteq c.cm \union {"PF_RECVD"}
           /\ d.x.pri = c.x.pri /\ d.x.mode = c.x.mode /\ d.x.rx_fn = c.x.rx_fn
           /\ d.x.connected_count = c.x.connected_count /\ d.x.c_peer = c.x.c_peer
           /\ c.x.f_rcved => d.x.f_rcved
           /\ \A r \in PeerSet(s) \ {q} : d.p[r] = c.p[r]
           /\ d.p[q].conn = c.p[q].conn /\ d.p[q].um_cmd = c.p[q].um_cmd
           /\ d.p[q].sent = c.p[q].sent /\ d.p[q].rcved = c.p[q].rcved
           /\ d.p[q].um_rsp = c.p[q].um_rsp
           /\ d.p[q].t1 = c.p[q].t1 \/ d.p[q].t1 = "off"
<1>. DEFINE y == [c.x EXCEPT !.p_rcved = TRUE]
            z == [c.x EXCEPT !.f_rcved = TRUE]
            t == IF c.x.mode = "NRM" THEN "armed" ELSE c.p[q].t3
            v == [c.p[q] EXCEPT !.retry = 0, !.t1 = "off", !.t3 = t]
            w == [c.p EXCEPT ![q].retry = 0, ![q].t1 = "off", ![q].t3 = t]
            r1 == [c EXCEPT !.x.p_rcved = TRUE, !.cm = {"PF_RECVD"}]
            r2 == [c EXCEPT !.x.f_rcved = TRUE, !.cm = {"PF_RECVD"},
                            !.p[q].retry = 0, !.p[q].t1 = "off",
                            !.p[q].t3 = IF c.x.mode = "NRM" THEN "armed" ELSE @]
<1>1. c.x \in StationState(s) /\ q \in PeerSet(s) /\ c.p[q] \in PeerState
      /\ c.p \in [PeerSet(s) -> PeerState]
  BY SoundFacts
<1>2. d = c \/ d = r1 \/ d = r2
  BY Zenon DEF RecvRR
<1>3. w = [c.p EXCEPT ![q] = v]
  BY <1>1, Zenon
<1>4. /\ y.pri = c.x.pri /\ y.mode = c.x.mode /\ y.rx_fn = c.x.rx_fn
      /\ y.connected_count = c.x.connected_count /\ y.c_peer = c.x.c_peer
      /\ y.f_rcved = c.x.f_rcved
      /\ z.pri = c.x.pri /\ z.mode = c.x.mode /\ z.rx_fn = c.x.rx_fn
      /\ z.connected_count = c.x.connected_count /\ z.c_peer = c.x.c_peer /\ z.f_rcved
  BY <1>1 DEF StationState
<1>5. /\ v.conn = c.p[q].conn /\ v.um_cmd = c.p[q].um_cmd /\ v.sent = c.p[q].sent
      /\ v.rcved = c.p[q].rcved /\ v.um_rsp = c.p[q].um_rsp /\ v.t1 = "off"
  BY <1>1 DEF PeerState
<1>6. CASE d = c
  BY <1>6
<1>7. CASE d = r1
  <2>1. d.x = y /\ d.p = c.p /\ d.cm = {"PF_RECVD"} /\ d.chan = c.chan /\ d.app = c.app
    BY <1>7 DEF Sound, Handled
  <2>. HIDE DEF y
  <2>. QED BY <1>4, <2>1
<1>8. CASE d = r2
  <2>1. d.x = z /\ d.p = w /\ d.cm = {"PF_RECVD"} /\ d.chan = c.chan /\ d.app = c.app
    BY <1>8 DEF Sound, Handled
  <2>. HIDE DEF z, v, w
  <2>2. d.p[q] = v /\ \A r \in PeerSet(s) \ {q} : d.p[r] = c.p[r]
    BY <1>1, <1>3, <2>1
  <2>. QED BY <1>4, <1>5, <2>1, <2>2, SMTT(30)
<1>. HIDE DEF r1, r2
<1>. QED BY <1>2, <1>6, <1>7, <1>8, Zenon

\* The end of a response: the command is cleared, and T3 watches a new
\* connection.
Cleared(c, q, t) ==
    [c EXCEPT !.x.f_rcved = TRUE, !.cm = {"LINK_ST_CHG", "LINK_REQ"},
              !.p[q].um_cmd = "none", !.p[q].sent = FALSE, !.p[q].rcved = FALSE,
              !.p[q].t3 = IF t THEN "armed" ELSE @]

LEMMA ClearedDoes ==
    ASSUME NEW s \in Station, NEW c, Sound(s, c), NEW q \in PeerSet(s), NEW t,
           NEW d, d = Cleared(c, q, t)
    PROVE  /\ d.chan = c.chan /\ d.app = c.app /\ d.cm = {"LINK_ST_CHG", "LINK_REQ"}
           /\ d.x.f_rcved /\ d.x.mode = c.x.mode /\ d.x.c_peer = c.x.c_peer
           /\ d.x.pri = c.x.pri /\ d.x.rx_fn = c.x.rx_fn
           /\ d.x.connected_count = c.x.connected_count
           /\ \A r \in PeerSet(s) \ {q} : d.p[r] = c.p[r]
           /\ d.p[q].conn = c.p[q].conn /\ d.p[q].t1 = c.p[q].t1
           /\ d.p[q].um_cmd = "none" /\ ~d.p[q].sent /\ ~d.p[q].rcved
<1>. DEFINE f == IF t THEN "armed" ELSE c.p[q].t3
            w == [c.p[q] EXCEPT !.um_cmd = "none", !.sent = FALSE, !.rcved = FALSE,
                                !.t3 = f]
            p2 == [c.p EXCEPT ![q].um_cmd = "none", ![q].sent = FALSE,
                              ![q].rcved = FALSE, ![q].t3 = f]
            y == [c.x EXCEPT !.f_rcved = TRUE]
<1>1. c.p[q] \in PeerState /\ c.p \in [PeerSet(s) -> PeerState] /\ c.x \in StationState(s)
  BY SoundFacts
<1>2. d = [c EXCEPT !.cm = {"LINK_ST_CHG", "LINK_REQ"}, !.x = y, !.p = p2]
  BY <1>1, ZenonT(40) DEF Cleared, Sound, Handled
<1>. HIDE DEF f
<1>3. p2 = [c.p EXCEPT ![q] = w]
  BY <1>1, Zenon
<1>4. w.conn = c.p[q].conn /\ w.t1 = c.p[q].t1 /\ w.um_cmd = "none" /\ ~w.sent /\ ~w.rcved
  BY <1>1 DEF PeerState
<1>5. /\ y.f_rcved /\ y.mode = c.x.mode /\ y.c_peer = c.x.c_peer
      /\ y.pri = c.x.pri /\ y.rx_fn = c.x.rx_fn
      /\ y.connected_count = c.x.connected_count
  BY <1>1 DEF StationState
<1>. HIDE DEF w, p2, y
<1>6. d.x = y /\ d.p = p2 /\ d.chan = c.chan /\ d.app = c.app
      /\ d.cm = {"LINK_ST_CHG", "LINK_REQ"}
  BY <1>2 DEF Sound, Handled
<1>7. d.p[q] = w /\ \A r \in PeerSet(s) \ {q} : d.p[r] = c.p[r]
  BY <1>1, <1>3, <1>6, SMTT(30)
<1>. QED BY <1>4, <1>5, <1>6, <1>7

\* An awaited response concludes the command of the current peer.
LEMMA RecvResponseDoes ==
    ASSUME NEW s \in Station, NEW c, Sound(s, c), NEW m,
           NEW q, q = c.x.c_peer, c.p[q].sent, m.pf,
           NEW n, n = (IF c.p[q].conn THEN c.x.connected_count - 1 ELSE c.x.connected_count),
           NEW d, d = RecvResponse(c, m)
    PROVE  /\ d.chan = c.chan /\ d.cm = {"LINK_ST_CHG", "LINK_REQ"} /\ d.x.f_rcved
           /\ d.x.c_peer = c.x.c_peer
           /\ \A r \in PeerSet(s) \ {q} : d.p[r] = c.p[r]
           /\ d.p[q].um_cmd = "none" /\ ~d.p[q].sent /\ ~d.p[q].rcved
           /\ d.p[q].t1 = "off"
           /\ c.p[q].um_cmd = "DISC" =>
                 /\ ~d.p[q].conn /\ d.x.pri = c.x.pri /\ d.x.connected_count = n
                 /\ d.app = c.app \union {f \in {"LINK_DOWN"} : c.p[q].conn}
                 /\ ~(n > 0) => /\ ~d.x.rx_fn
                                /\ d.x.mode = IF c.x.mode = "NRM" THEN "NDM" ELSE "ADM"
                 /\ n > 0 => d.x.mode = c.x.mode
           /\ c.p[q].um_cmd # "DISC" /\ m.type = "DM" =>
                 /\ ~d.p[q].conn /\ d.x.pri = c.x.pri /\ d.x.mode = c.x.mode
                 /\ d.x.rx_fn = c.x.rx_fn /\ d.x.connected_count = n
                 /\ d.app = c.app \union {"LINK_REFUSED"}
           /\ c.p[q].um_cmd # "DISC" /\ m.type # "DM" =>
                 /\ d.p[q].conn /\ d.x.mode = c.x.mode
                 /\ d.x.pri = (c.x.pri \/ c.x.mode = "ABM")
                 /\ d.x.rx_fn = (c.x.mode \in {"NRM", "ABM"})
                 /\ d.x.connected_count = c.x.connected_count + 1
                 /\ d.app = c.app \union {"LINK_UP"}
<1>. DEFINE v == [c.p[q] EXCEPT !.t1 = "off"]
            c1 == [c EXCEPT !.p[q].t1 = "off"]
            lost == {f \in {"LINK_DOWN"} : c1.p[q].conn}
            e1 == LeaveMode(SetDisconnected(ResetProtocol(c1, q), q))
            d1 == ClosePeerOrderly(c1, q)
            e2 == SetDisconnected(c1, q)
            d2 == Raise(e2, {"LINK_REFUSED"})
            c3 == ResetVars(c1, q)
            y3 == ApplyMode(c3.x, c3.x.mode)
            c4 == [c3 EXCEPT !.x = ApplyMode(@, @.mode)]
            e3 == SetConnected(c4, q)
            d3 == Raise(e3, {"LINK_UP"})
            c2 == IF c.p[q].um_cmd = "DISC" THEN d1 ELSE IF m.type = "DM" THEN d2 ELSE d3
            t3 == m.type = "UA" /\ c2.x.mode = "NRM" /\ c2.x.pri /\ c2.p[q].conn
<1>1. q \in PeerSet(s) /\ c.p[q] \in PeerState /\ c.p \in [PeerSet(s) -> PeerState]
      /\ c.x \in StationState(s)
  BY SoundFacts, SMTT(30)
<1>2. d = Cleared(c2, q, t3)
  BY ZenonT(40) DEF RecvResponse, Cleared
<1>3. v \in PeerState /\ v.conn = c.p[q].conn /\ v.t1 = "off"
  BY <1>1 DEF PeerState, Timer
<1>4. c1 = [c EXCEPT !.p = [c.p EXCEPT ![q] = v]]
  OBVIOUS
<1>. HIDE DEF v, c1
<1>5. Sound(s, c1)
  <2>1. Sound(s, [c EXCEPT !.p = [c.p EXCEPT ![q] = v]])
    BY <1>1, <1>3, WithPeer
  <2>. QED BY <1>4, <2>1, Zenon
<1>6. /\ c1.x = c.x /\ c1.p = [c.p EXCEPT ![q] = v] /\ c1.chan = c.chan /\ c1.app = c.app
      /\ c1.p[q] = v /\ \A r \in PeerSet(s) \ {q} : c1.p[r] = c.p[r]
      /\ c1.p[q].conn = c.p[q].conn
  <2>1. c1.x = c.x /\ c1.p = [c.p EXCEPT ![q] = v] /\ c1.chan = c.chan /\ c1.app = c.app
    BY <1>4 DEF Sound, Handled
  <2>. QED BY <1>1, <1>3, <2>1
\* The station x, the peer and what is told, before the command is cleared.
<1>. DEFINE Before(g) ==
        /\ g.chan = c.chan /\ g.x.c_peer = c.x.c_peer /\ g.p[q].t1 = "off"
        /\ \A r \in PeerSet(s) \ {q} : g.p[r] = c.p[r]
        /\ Sound(s, g)
<1>7. /\ Before(d1) /\ ~d1.p[q].conn /\ d1.x.pri = c.x.pri /\ d1.x.connected_count = n
      /\ d1.app = c.app \union {f \in {"LINK_DOWN"} : c.p[q].conn}
      /\ ~(n > 0) => /\ ~d1.x.rx_fn
                     /\ d1.x.mode = IF c.x.mode = "NRM" THEN "NDM" ELSE "ADM"
      /\ n > 0 => d1.x.mode = c.x.mode
  <2>1. /\ SameRest(c1, e1) /\ e1.app = c1.app
        /\ e1.p = [c1.p EXCEPT ![q] = InitPeer]
        /\ n > 0 => e1.x = [c1.x EXCEPT !.connected_count = n]
        /\ ~(n > 0) => /\ e1.x.connected_count = n /\ ~e1.x.rx_fn
                       /\ e1.x.mode = IF c1.x.mode = "NRM" THEN "NDM" ELSE "ADM"
                       /\ e1.x.pri = c1.x.pri /\ e1.x.c_peer = c1.x.c_peer
    <3>1. n = (IF c1.p[q].conn THEN c1.x.connected_count - 1 ELSE c1.x.connected_count)
      BY <1>6
    <3>. QED BY <1>1, <1>5, <3>1, ClosePeerDoes, SMTT(30)
  <2>2. d1 = Raise(e1, lost)
    BY Zenon DEF ClosePeerOrderly
  <2>3. Sound(s, d1)
    BY <1>1, <1>5, ClosePeerOrderlySound
  <2>4. Sound(s, e1)
    BY <1>1, <1>5, AbortPeerLinkSound, Zenon DEF AbortPeerLink
  <2>. HIDE DEF e1, d1
  <2>5. d1.x = e1.x /\ d1.p = e1.p /\ d1.chan = e1.chan /\ d1.app = e1.app \union lost
    BY <2>2, <2>4 DEF Raise, Sound, Handled
  <2>6. InitPeer.t1 = "off" /\ ~InitPeer.conn
    BY DEF InitPeer
  <2>. HIDE DEF lost
  <2>7. d1.p[q] = InitPeer /\ \A r \in PeerSet(s) \ {q} : d1.p[r] = c.p[r]
    BY <1>1, <1>6, <2>1, <2>5
  <2>8. /\ d1.x.pri = c.x.pri /\ d1.x.connected_count = n /\ d1.x.c_peer = c.x.c_peer
        /\ n > 0 => d1.x.mode = c.x.mode
    <3>1. CASE n > 0
      BY <1>1, <1>6, <2>1, <2>5, <3>1 DEF StationState
    <3>2. CASE ~(n > 0)
      BY <1>6, <2>1, <2>5, <3>2
    <3>. QED BY <3>1, <3>2
  <2>9. Before(d1)
    BY <1>6, <2>1, <2>3, <2>5, <2>6, <2>7, <2>8 DEF SameRest
  <2>. QED BY <1>6, <2>1, <2>5, <2>6, <2>7, <2>8, <2>9 DEF lost
<1>8. /\ Before(d2) /\ ~d2.p[q].conn /\ d2.x.pri = c.x.pri /\ d2.x.mode = c.x.mode
      /\ d2.x.rx_fn = c.x.rx_fn /\ d2.x.connected_count = n
      /\ d2.app = c.app \union {"LINK_REFUSED"}
  <2>1. Sound(s, e2) /\ Sound(s, d2)
    <3>1. {"LINK_REFUSED"} \in SUBSET AppFlag
      BY DEF AppFlag
    <3>. QED BY <1>1, <1>5, <3>1, SetDisconnectedSound, RaiseSound
  <2>2. e2 = [c1 EXCEPT !.x.connected_count = n, !.p[q].conn = FALSE]
    BY <1>6, Zenon DEF SetDisconnected
  <2>3. d2 = [e2 EXCEPT !.app = @ \union {"LINK_REFUSED"}]
    BY DEF Raise
  <2>. HIDE DEF e2, d2
  <2>4. /\ d2.x = [c.x EXCEPT !.connected_count = n]
        /\ d2.p = [c1.p EXCEPT ![q].conn = FALSE] /\ d2.chan = c.chan
        /\ d2.app = c.app \union {"LINK_REFUSED"}
    BY <1>5, <1>6, <2>1, <2>2, <2>3, Zenon DEF Sound, Handled
  <2>5. d2.p[q] = [v EXCEPT !.conn = FALSE] /\ \A r \in PeerSet(s) \ {q} : d2.p[r] = c.p[r]
    BY <1>1, <1>6, <2>4
  <2>6. ~d2.p[q].conn /\ d2.p[q].t1 = "off"
    BY <1>3, <2>5 DEF PeerState
  <2>7. /\ d2.x.pri = c.x.pri /\ d2.x.mode = c.x.mode /\ d2.x.c_peer = c.x.c_peer
        /\ d2.x.rx_fn = c.x.rx_fn /\ d2.x.connected_count = n
    <3>. HIDE DEF v
    <3>. QED BY <1>1, <2>4 DEF StationState
  <2>. QED BY <2>1, <2>4, <2>5, <2>6, <2>7
<1>9. /\ Before(d3) /\ d3.p[q].conn /\ d3.x.mode = c.x.mode
      /\ d3.x.pri = (c.x.pri \/ c.x.mode = "ABM")
      /\ d3.x.rx_fn = (c.x.mode \in {"NRM", "ABM"})
      /\ d3.x.connected_count = c.x.connected_count + 1
      /\ d3.app = c.app \union {"LINK_UP"}
  <2>1. Sound(s, c3)
    BY <1>1, <1>5, ResetVarsSound
  <2>2. c3 = [c1 EXCEPT !.p[q] = InitPeer]
    BY DEF ResetVars
  <2>. HIDE DEF c3
  <2>3. c3.x = c.x /\ c3.p = [c1.p EXCEPT ![q] = InitPeer] /\ c3.chan = c.chan
        /\ c3.app = c.app
    BY <1>5, <1>6, <2>2 DEF Sound, Handled
  <2>4. /\ y3 \in StationState(s) /\ y3.connected_count = c.x.connected_count
        /\ y3.mode = c.x.mode /\ y3.c_peer = c.x.c_peer
        /\ y3.pri = (c.x.pri \/ c.x.mode = "ABM")
        /\ y3.rx_fn = (c.x.mode \in {"NRM", "ABM"})
    <3>1. y3 \in StationState(s) /\ y3.connected_count = c.x.connected_count
      BY <1>1, <2>3, ApplyModeType
    <3>. QED BY <1>1, <2>3, <3>1 DEF ApplyMode, StationState
  <2>5. c4 = [c3 EXCEPT !.x = y3]
    OBVIOUS
  <2>. HIDE DEF y3
  <2>6. Sound(s, c4)
    <3>1. Sound(s, [c3 EXCEPT !.x = y3])
      BY <2>1, <2>3, <2>4, WithStation
    <3>. QED BY <2>5, <3>1, Zenon
  <2>. HIDE DEF c4
  <2>7. c4.x = y3 /\ c4.p = c3.p /\ c4.chan = c.chan /\ c4.app = c.app
    BY <2>1, <2>3, <2>5 DEF Sound, Handled
  <2>8. c4.p[q] = InitPeer /\ ~InitPeer.conn /\ InitPeer.t1 = "off"
        /\ InitPeer \in PeerState
    BY <1>1, <1>6, <2>3, <2>7, BoundsAssumption DEF InitPeer, PeerState, UCmd, Timer
  <2>9. Sound(s, e3) /\ Sound(s, d3)
    <3>1. {"LINK_UP"} \in SUBSET AppFlag
      BY DEF AppFlag
    <3>. QED BY <1>1, <2>6, <3>1, SetConnectedSound, RaiseSound
  <2>10. e3 = [c4 EXCEPT !.x.connected_count = @ + 1, !.p[q].conn = TRUE]
    BY <2>8 DEF SetConnected
  <2>11. d3 = [e3 EXCEPT !.app = @ \union {"LINK_UP"}]
    BY DEF Raise
  <2>. HIDE DEF e3, d3
  <2>12. /\ d3.x = [y3 EXCEPT !.connected_count = y3.connected_count + 1]
         /\ d3.p = [c3.p EXCEPT ![q].conn = TRUE] /\ d3.chan = c.chan
         /\ d3.app = c.app \union {"LINK_UP"}
    BY <2>6, <2>7, <2>9, <2>10, <2>11, Zenon DEF Sound, Handled
  <2>13. d3.p[q] = [InitPeer EXCEPT !.conn = TRUE]
         /\ \A r \in PeerSet(s) \ {q} : d3.p[r] = c.p[r]
    BY <1>1, <1>6, <2>3, <2>7, <2>8, <2>12
  <2>14. d3.p[q].conn /\ d3.p[q].t1 = "off"
    BY <2>13 DEF InitPeer
  <2>15. /\ d3.x.mode = c.x.mode /\ d3.x.c_peer = c.x.c_peer
         /\ d3.x.pri = (c.x.pri \/ c.x.mode = "ABM")
         /\ d3.x.rx_fn = (c.x.mode \in {"NRM", "ABM"})
         /\ d3.x.connected_count = c.x.connected_count + 1
    BY <2>4, <2>12 DEF StationState
  <2>. QED BY <2>9, <2>12, <2>13, <2>14, <2>15
<1>. HIDE DEF d1, d2, d3
<1>10. Before(c2)
  BY <1>7, <1>8, <1>9, Zenon
<1>11. /\ c.p[q].um_cmd = "DISC" => c2 = d1
       /\ c.p[q].um_cmd # "DISC" /\ m.type = "DM" => c2 = d2
       /\ c.p[q].um_cmd # "DISC" /\ m.type # "DM" => c2 = d3
  OBVIOUS
<1>. HIDE DEF c2
<1>12. Sound(s, c2)
  BY <1>10
<1>. HIDE DEF t3, Before
<1>13. /\ d.chan = c2.chan /\ d.app = c2.app /\ d.cm = {"LINK_ST_CHG", "LINK_REQ"}
       /\ d.x.f_rcved /\ d.x.mode = c2.x.mode /\ d.x.c_peer = c2.x.c_peer
       /\ d.x.pri = c2.x.pri /\ d.x.rx_fn = c2.x.rx_fn
       /\ d.x.connected_count = c2.x.connected_count
       /\ \A r \in PeerSet(s) \ {q} : d.p[r] = c2.p[r]
       /\ d.p[q].conn = c2.p[q].conn /\ d.p[q].t1 = c2.p[q].t1
       /\ d.p[q].um_cmd = "none" /\ ~d.p[q].sent /\ ~d.p[q].rcved
  BY <1>1, <1>2, <1>12, ClearedDoes
<1>18. /\ d.chan = c.chan /\ d.cm = {"LINK_ST_CHG", "LINK_REQ"} /\ d.x.f_rcved
       /\ d.x.c_peer = c.x.c_peer
       /\ \A r \in PeerSet(s) \ {q} : d.p[r] = c.p[r]
       /\ d.p[q].um_cmd = "none" /\ ~d.p[q].sent /\ ~d.p[q].rcved
       /\ d.p[q].t1 = "off" /\ d.p[q].conn = c2.p[q].conn
  BY <1>10, <1>13 DEF Before
<1>19. CASE c.p[q].um_cmd = "DISC"
  BY <1>7, <1>11, <1>13, <1>18, <1>19
<1>20. CASE c.p[q].um_cmd # "DISC" /\ m.type = "DM"
  BY <1>8, <1>11, <1>13, <1>18, <1>20
<1>21. CASE c.p[q].um_cmd # "DISC" /\ m.type # "DM"
  BY <1>9, <1>11, <1>13, <1>18, <1>21
<1>. QED BY <1>18, <1>19, <1>20, <1>21

\* A step from the line, at any station.
LEMMA Arrived ==
    ASSUME Typed, NEW s \in Station, RxFrame(s), NEW d, d = Received(s)
    PROVE  /\ Sound(s, d) /\ chan[s] # << >> /\ chan[s] \in Seq(LineFrame)
           /\ OnlyAt(s) /\ st'[s] = d.x /\ pr'[s] = d.p
           /\ api' = Notified(s, d.app) /\ tx' = tx
           /\ chan'[s] = Tail(chan[s]) /\ \A r \in Station \ {s} : chan'[r] = chan[r]
           /\ InFlight(s)' = InFlight(s) \union d.cm
           /\ Hand(s) => Hand(s)'
<1>1. /\ chan[s] # << >>
      /\ st' = [st EXCEPT ![s] = d.x]
      /\ pr' = [pr EXCEPT ![s] = d.p]
      /\ api' = Notified(s, d.app)
      /\ ev' = Broadcast(s, d.cm)
      /\ chan' = [chan EXCEPT ![s] = Tail(@)]
      /\ UNCHANGED <<tx, used>>
  BY RxFrameReceived, Zenon
<1>2. Sound(s, d) /\ d.cm \in SUBSET Flag /\ chan \in Line
  BY <1>1, ReceivedSound, SoundFacts DEF Typed
<1>3. /\ \A r \in Station \ {s} : ev'[r] = ev[r]
      /\ ev'[s].flags = ev[s].flags \union d.cm
      /\ ev[s].pending => ev'[s].pending
      /\ d.cm # {} => ev'[s].pending
  <2>1. PICK e : e = Broadcast(s, d.cm)
    OBVIOUS
  <2>2. /\ \A r \in Station \ {s} : e[r] = ev[r]
        /\ e[s].flags = ev[s].flags \union d.cm
        /\ ev[s].pending => e[s].pending
        /\ d.cm # {} => e[s].pending
    BY <1>2, <2>1, BroadcastDoes
  <2>. QED BY <1>1, <2>1, <2>2, Zenon
<1>4. OnlyAt(s) /\ st'[s] = d.x /\ pr'[s] = d.p
  BY <1>1, <1>2, <1>3, Stored, ZenonT(40)
<1>5. /\ chan'[s] = Tail(chan[s]) /\ chan[s] \in Seq(LineFrame)
      /\ \A r \in Station \ {s} : chan'[r] = chan[r]
  BY <1>1, <1>2 DEF Line
<1>6. InFlight(s)' = InFlight(s) \union d.cm /\ (Hand(s) => Hand(s)')
  BY <1>1, <1>3 DEF InFlight, Hand
<1>. QED BY <1>1, <1>2, <1>4, <1>5, <1>6, Zenon

\* What a station begins with.
Begins(s, c) ==
    /\ Sound(s, c) /\ c.p = pr[s] /\ c.chan = chan /\ c.cm = {} /\ c.app = {}
    /\ c.x.pri = st[s].pri /\ c.x.mode = st[s].mode /\ c.x.rx_fn = st[s].rx_fn
    /\ c.x.connected_count = st[s].connected_count /\ c.x.c_peer = st[s].c_peer
    /\ c.x.f_rcved = st[s].f_rcved

LEMMA ReceivedContext ==
    ASSUME Typed, NEW s \in Station,
           NEW c, c = [Context(s, {}) EXCEPT !.x.idl = FALSE]
    PROVE  Begins(s, c)
<1>. DEFINE k == Context(s, {})
            y == [k.x EXCEPT !.idl = FALSE]
<1>1. Sound(s, k)
  BY ContextSound
<1>2. k.x = st[s] /\ k.p = pr[s] /\ k.chan = chan /\ k.cm = {} /\ k.app = {}
  BY DEF Context
<1>. HIDE DEF k
<1>3. y \in StationState(s) /\ y.connected_count = k.x.connected_count
      /\ y.pri = k.x.pri /\ y.mode = k.x.mode /\ y.rx_fn = k.x.rx_fn
      /\ y.c_peer = k.x.c_peer /\ y.f_rcved = k.x.f_rcved
  BY <1>1, SoundFacts, ZenonT(40) DEF StationState
<1>4. c = [k EXCEPT !.x = y]
  BY Zenon DEF k
<1>. HIDE DEF y
<1>5. Sound(s, c)
  <2>1. Sound(s, [k EXCEPT !.x = y])
    BY <1>1, <1>3, WithStation
  <2>. QED BY <1>4, <2>1, Zenon
<1>6. c.x = y /\ c.p = k.p /\ c.chan = k.chan /\ c.cm = k.cm /\ c.app = k.app
  BY <1>1, <1>4 DEF Sound, Handled
<1>. QED BY <1>2, <1>3, <1>5, <1>6, Zenon DEF y, Begins

\* Frames that leave the line bring nothing new.
LEMMA PrimaryLine ==
    ASSUME NEW l, NEW x, NEW p, NEW a, NEW f, NEW ch, NEW h, Primary(l, x, p, a, f, ch, h),
           NEW ch2, \A q \in Secs : Supervisory(ch[q]) /\ Supervisory(ch["P"])
                                       => Supervisory(ch2[q]) /\ Supervisory(ch2["P"])
    PROVE  Primary(l, x, p, a, f, ch2, h)
BY DEF Primary, Abandoned

\* The primary hears from a connected peer.
LEMMA HeardPrimary ==
    ASSUME Mode = "NRM", Single(link), Typed, OneLink,
           NEW c, Begins("P", c), c.x.rx_fn,
           NEW m, NEW d, d = RecvRR(c, m), NEW f2, f2 = InFlight("P") \union d.cm
    PROVE  /\ Primary(link, d.x, d.p, api["P"], f2, chan, pr) /\ d.app = c.app
           /\ d.x.c_peer = c.x.c_peer
           /\ d.p[c.x.c_peer].conn = c.p[c.x.c_peer].conn
           /\ d.p[c.x.c_peer].sent = c.p[c.x.c_peer].sent
<1>. DEFINE w == c.x.c_peer
            f == InFlight("P")
            a == api["P"]
<1>1. w \in Secs /\ "P" \in Station /\ PeerSet("P") = Secs
  BY PrimaryPeers, SoundFacts DEF Begins
<1>2. /\ d.app = c.app /\ d.cm \subseteq {"PF_RECVD"}
      /\ d.x.pri = c.x.pri /\ d.x.mode = c.x.mode /\ d.x.rx_fn = c.x.rx_fn
      /\ d.x.connected_count = c.x.connected_count /\ d.x.c_peer = c.x.c_peer
      /\ c.x.f_rcved => d.x.f_rcved
      /\ \A r \in Secs \ {w} : d.p[r] = c.p[r]
      /\ d.p[w].conn = c.p[w].conn /\ d.p[w].um_cmd = c.p[w].um_cmd
      /\ d.p[w].sent = c.p[w].sent /\ d.p[w].rcved = c.p[w].rcved
      /\ d.p[w].t1 = c.p[w].t1 \/ d.p[w].t1 = "off"
  <2>1. ASSUME NEW o, o = c.x.c_peer, NEW k, Sound("P", k), k = c
        PROVE  /\ d.chan = k.chan /\ d.app = k.app
               /\ d.cm \subseteq k.cm \union {"PF_RECVD"}
               /\ d.x.pri = k.x.pri /\ d.x.mode = k.x.mode /\ d.x.rx_fn = k.x.rx_fn
               /\ d.x.connected_count = k.x.connected_count /\ d.x.c_peer = k.x.c_peer
               /\ k.x.f_rcved => d.x.f_rcved
               /\ \A r \in PeerSet("P") \ {o} : d.p[r] = k.p[r]
               /\ d.p[o].conn = k.p[o].conn /\ d.p[o].um_cmd = k.p[o].um_cmd
               /\ d.p[o].sent = k.p[o].sent /\ d.p[o].rcved = k.p[o].rcved
               /\ d.p[o].um_rsp = k.p[o].um_rsp
               /\ d.p[o].t1 = k.p[o].t1 \/ d.p[o].t1 = "off"
    <3>1. "P" \in Station /\ d = RecvRR(k, m) /\ o = k.x.c_peer
      BY <1>1, <2>1
    <3>. QED BY <2>1, <3>1, RecvRRDoes
  <2>3. Sound("P", c)
    BY DEF Begins
  <2>2. c.cm \union {"PF_RECVD"} = {"PF_RECVD"}
    BY DEF Begins
  <2>. QED BY <1>1, <2>1, <2>2, <2>3, ZenonT(40)
<1>3. Primary(link, st["P"], pr["P"], a, f, chan, pr)
  BY DEF OneLink
<1>4. /\ "UM_RECVD" \notin f2 /\ ("LINK_REQ" \in f2 <=> "LINK_REQ" \in f)
      /\ ("C_RPLYTMO" \in f2 <=> "C_RPLYTMO" \in f)
  BY <1>2, <1>3 DEF Primary
<1>. HIDE DEF w, f, a
<1>5. \A r \in Secs \ {w} : Alike(pr["P"][r], d.p[r])
  BY <1>2 DEF Alike, Begins
<1>6. CASE w \in link.called
  <2>. DEFINE v == pr["P"][w]
              v2 == d.p[w]
              z == st["P"]
  <2>1. /\ ~v.rcved /\ Owned(w, v, z) /\ Calling(v, z, a[w])
        /\ Pending(link, v, a[w], f) /\ Abandoned(w, v, a[w], f, chan, pr)
        /\ z.pri /\ z.mode \in {"NDM", "NRM", "ADM"}
    BY <1>1, <1>3, <1>6 DEF Primary
  <2>2. /\ v2.conn = v.conn /\ v2.um_cmd = v.um_cmd /\ v2.sent = v.sent
        /\ v2.rcved = v.rcved /\ (v2.t1 = v.t1 \/ v2.t1 = "off")
        /\ d.x.pri = z.pri /\ d.x.mode = z.mode /\ d.x.rx_fn = z.rx_fn
        /\ d.x.connected_count = z.connected_count /\ d.x.c_peer = z.c_peer
        /\ z.f_rcved => d.x.f_rcved
    BY <1>2 DEF Begins
  <2>3. z.rx_fn
    BY DEF Begins
  <2>. HIDE DEF v, v2, z
  <2>4. v.conn /\ v.um_cmd # "SNRM"
    BY <2>1, <2>3 DEF Owned, Calling
  <2>5. Owned(w, v2, d.x) /\ Calling(v2, d.x, a[w])
    BY <2>1, <2>2 DEF Owned, Calling
  <2>6. Pending(link, v2, a[w], f2)
    BY <1>4, <2>1, <2>2, <2>4 DEF Pending
  <2>7. Abandoned(w, v2, a[w], f2, chan, pr)
    BY <1>4, <2>1, <2>2, <2>4 DEF Abandoned
  <2>8. ~v2.rcved /\ d.x.pri /\ d.x.mode \in {"NDM", "NRM", "ADM"}
    BY <2>1, <2>2
  <2>9. \A r \in Secs \ {w} : Alike(pr["P"][r], d.p[r]) /\ a[r].pc = a[r].pc
    BY <1>5
  <2>10. Primary(link, d.x, d.p, a, f2, chan, pr)
    BY <1>1, <1>3, <1>4, <1>6, <2>5, <2>6, <2>7, <2>8, <2>9, PrimaryKept DEF v2
  <2>. QED BY <1>2, <2>10 DEF a, w
<1>7. CASE w \notin link.called
  <2>1. Uncalled(pr["P"][w], a[w])
    BY <1>1, <1>3, <1>7 DEF Primary
  <2>2. Alike(pr["P"][w], d.p[w])
    BY <1>2, <2>1 DEF Alike, Uncalled, Begins
  <2>3. \A r \in Secs : Alike(pr["P"][r], d.p[r])
    BY <1>5, <2>2
  <2>4. \A r \in Secs \intersect link.called : Pending(link, pr["P"][r], a[r], f2)
    BY <1>3, <1>4 DEF Primary, Pending
  <2>5. \A r \in Secs \intersect link.called :
           pr["P"][r].conn \/ pr["P"][r].sent => d.x.c_peer = r
    BY <1>2, <1>3 DEF Primary, Owned, Begins
  <2>. DEFINE z == st["P"]
              p == pr["P"]
  <2>7. /\ d.x.pri = z.pri /\ d.x.mode = z.mode /\ d.x.rx_fn = z.rx_fn
        /\ d.x.connected_count = z.connected_count
        /\ z.f_rcved => d.x.f_rcved
        /\ Primary(link, z, p, a, f, chan, pr)
        /\ \A r \in Secs : Alike(p[r], d.p[r])
        /\ \A r \in Secs \intersect link.called :
              /\ Pending(link, p[r], a[r], f2)
              /\ p[r].conn \/ p[r].sent => d.x.c_peer = r
    BY <1>2, <1>3, <2>3, <2>4, <2>5, Zenon DEF Begins
  <2>. HIDE DEF z, p
  <2>6. Primary(link, d.x, d.p, a, f2, chan, pr)
    BY <1>4, <2>7, PrimaryAround
  <2>. QED BY <1>2, <2>6 DEF a, w
<1>. QED BY <1>6, <1>7

\* An answer to the command of the current peer.
LEMMA AnsweredPrimary ==
    ASSUME Mode = "NRM", Single(link), Typed, OneLink,
           NEW c, Begins("P", c), NEW q, q = c.x.c_peer, c.p[q].sent,
           NEW m, m.pf, m.type \in {"UA", "DM"}, ~Supervisory(chan["P"]),
           NEW d, d = RecvResponse(c, m), Sound("P", d),
           NEW f2, f2 = InFlight("P") \union d.cm,
           NEW a2, a2 = Notified("P", d.app)["P"], NEW ch2
    PROVE  Primary(link, d.x, d.p, a2, f2, ch2, pr)
<1>. DEFINE f == InFlight("P")
            z == st["P"]
            v == pr["P"][q]
            v2 == d.p[q]
            a == api["P"][q]
            b == a2[q]
<1>1. q \in Secs /\ "P" \in Station /\ PeerSet("P") = Secs
  BY PrimaryPeers, SoundFacts DEF Begins
<1>2. Primary(link, z, pr["P"], api["P"], f, chan, pr)
  BY DEF OneLink
<1>3. q \in link.called /\ v.sent
  BY <1>1, <1>2 DEF Begins, Primary, Uncalled
<1>4. /\ Owned(q, v, z) /\ Calling(v, z, a) /\ Abandoned(q, v, a, f, chan, pr)
      /\ z.pri /\ z.mode \in {"NDM", "NRM", "ADM"} /\ "UM_RECVD" \notin f
  BY <1>1, <1>2, <1>3 DEF Primary
<1>5. PICK n : n = (IF c.p[q].conn THEN c.x.connected_count - 1 ELSE c.x.connected_count)
  OBVIOUS
<1>6. /\ d.cm = {"LINK_ST_CHG", "LINK_REQ"} /\ d.x.f_rcved /\ d.x.c_peer = c.x.c_peer
      /\ \A r \in PeerSet("P") \ {q} : d.p[r] = c.p[r]
      /\ d.p[q].um_cmd = "none" /\ ~d.p[q].sent /\ ~d.p[q].rcved /\ d.p[q].t1 = "off"
      /\ c.p[q].um_cmd = "DISC" =>
            /\ ~d.p[q].conn /\ d.x.pri = c.x.pri /\ d.x.connected_count = n
            /\ d.app = c.app \union {g \in {"LINK_DOWN"} : c.p[q].conn}
            /\ ~(n > 0) => /\ ~d.x.rx_fn
                           /\ d.x.mode = IF c.x.mode = "NRM" THEN "NDM" ELSE "ADM"
      /\ c.p[q].um_cmd # "DISC" /\ m.type = "DM" =>
            /\ ~d.p[q].conn /\ d.x.pri = c.x.pri /\ d.x.mode = c.x.mode
            /\ d.x.rx_fn = c.x.rx_fn /\ d.x.connected_count = n
            /\ d.app = c.app \union {"LINK_REFUSED"}
      /\ c.p[q].um_cmd # "DISC" /\ m.type # "DM" =>
            /\ d.p[q].conn /\ d.x.mode = c.x.mode
            /\ d.x.pri = (c.x.pri \/ c.x.mode = "ABM")
            /\ d.x.rx_fn = (c.x.mode \in {"NRM", "ABM"})
            /\ d.x.connected_count = c.x.connected_count + 1
            /\ d.app = c.app \union {"LINK_UP"}
  <2>1. "P" \in Station /\ Sound("P", c)
    BY <1>1 DEF Begins
  <2>. HIDE DEF f, z, v, v2, a, b
  <2>. QED BY <1>5, <2>1, RecvResponseDoes
<1>7. /\ api["P"] \in [Secs -> Call] /\ a2 \in [Secs -> Call]
      /\ \A r \in Secs : a2[r].pc = api["P"][r].pc
      /\ b.s_mode = a.s_mode
      /\ b.flags = a.flags \union (d.app \intersect Mask(a.pc))
  <2>1. d.app \in SUBSET AppFlag
    BY <1>1, SoundFacts
  <2>2. api["P"] \in [Secs -> Call]
    BY <1>1 DEF Typed
  <2>3. PICK g : g = d.app
    OBVIOUS
  <2>4. /\ Notified("P", g)["P"] \in [PeerSet("P") -> Call]
        /\ \A r \in PeerSet("P") :
              /\ Notified("P", g)["P"][r].pc = api["P"][r].pc
              /\ Notified("P", g)["P"][r].s_mode = api["P"][r].s_mode
              /\ Notified("P", g)["P"][r].flags
                    = api["P"][r].flags \union (g \intersect Mask(api["P"][r].pc))
    <3>1. "P" \in Station /\ g \in SUBSET AppFlag
      BY <1>1, <2>1, <2>3
    <3>. QED BY <3>1, NotifiedDoes
  <2>. QED BY <1>1, <2>2, <2>3, <2>4, Zenon
<1>8. /\ c.p[q] = v /\ c.app = {} /\ c.x.pri = z.pri /\ c.x.mode = z.mode
      /\ c.x.rx_fn = z.rx_fn /\ c.x.connected_count = z.connected_count
      /\ c.x.c_peer = z.c_peer
  BY DEF Begins
<1>9. "UM_RECVD" \notin f2 /\ "LINK_REQ" \in f2
  BY <1>4, <1>6
<1>10. \A r \in Secs \ {q} : Alike(pr["P"][r], d.p[r]) /\ a2[r].pc = api["P"][r].pc
  BY <1>1, <1>6, <1>7 DEF Alike, Begins
<1>11. /\ b.pc = a.pc /\ a.pc \in {"idle", "upReq", "up", "downReq", "down"}
       /\ v.um_cmd \in {"SNRM", "DISC"} /\ a.pc \in {"up", "down"}
  <2>1. b.pc = a.pc /\ a.pc \in {"idle", "upReq", "up", "downReq", "down"}
    BY <1>1, <1>7 DEF Call
  <2>. QED BY <1>3, <1>4, <2>1 DEF Owned, Abandoned
<1>12. d.x.c_peer = q
  BY <1>6
<1>. DEFINE After == /\ d.x.pri /\ d.x.mode \in {"NDM", "NRM", "ADM"}
                     /\ Owned(q, v2, d.x) /\ Calling(v2, d.x, b)
<1>. HIDE DEF f, z, v, a, b
<1>13. ASSUME v.um_cmd = "DISC" PROVE After
  <2>1. a.pc = "down" /\ n = 0
    BY <1>4, <1>5, <1>8, <1>11, <1>13 DEF Owned, Calling
  <2>2. /\ ~d.p[q].conn /\ d.x.pri = c.x.pri /\ d.x.connected_count = n
        /\ d.app = c.app \union {g \in {"LINK_DOWN"} : c.p[q].conn}
        /\ ~d.x.rx_fn /\ d.x.mode \in {"NDM", "ADM"}
    BY <1>6, <1>8, <1>13, <2>1
  <2>3. b.flags \subseteq {"LINK_DOWN"} /\ b.pc = "down"
    BY <1>4, <1>7, <1>8, <1>11, <2>1, <2>2 DEF Calling
  <2>4. Owned(q, v2, d.x)
    BY <1>6, <2>1, <2>2 DEF Owned
  <2>5. Calling(v2, d.x, b)
    BY <1>6, <2>2, <2>3 DEF Calling
  <2>. QED BY <1>4, <1>8, <2>2, <2>4, <2>5
<1>14. ASSUME v.um_cmd = "SNRM" PROVE After
  <2>1. /\ a.pc = "up" /\ a.flags = {} /\ ~v.conn /\ z.mode = "NRM" /\ b.pc = "up"
        /\ b.s_mode \in {"NDM", "ADM"} /\ z.connected_count = 0 /\ n = 0 /\ ~z.rx_fn
    BY <1>4, <1>5, <1>7, <1>8, <1>11, <1>14 DEF Owned, Calling
  <2>2. CASE m.type = "DM"
    <3>1. /\ ~d.p[q].conn /\ d.x.pri = z.pri /\ d.x.mode = "NRM"
          /\ ~d.x.rx_fn /\ d.x.connected_count = 0
          /\ d.app = c.app \union {"LINK_REFUSED"}
      BY <1>6, <1>8, <1>14, <2>1, <2>2
    <3>2. b.flags \subseteq {"LINK_UP", "LINK_REFUSED"}
      BY <1>7, <1>8, <2>1, <3>1 DEF Mask
    <3>3. Owned(q, v2, d.x)
      BY <1>6, <3>1 DEF Owned
    <3>4. Calling(v2, d.x, b)
      BY <1>6, <2>1, <3>1, <3>2 DEF Calling
    <3>. QED BY <1>4, <3>1, <3>3, <3>4
  <2>3. CASE m.type = "UA"
    <3>1. /\ d.p[q].conn /\ d.x.pri /\ d.x.mode = "NRM"
          /\ d.x.rx_fn /\ d.x.connected_count = 1
          /\ d.app = c.app \union {"LINK_UP"}
      <4>1. c.p[q].um_cmd # "DISC" /\ m.type # "DM"
        BY <1>8, <1>14, <2>3
      <4>2. /\ d.p[q].conn /\ d.x.mode = c.x.mode
            /\ d.x.pri = (c.x.pri \/ c.x.mode = "ABM")
            /\ d.x.rx_fn = (c.x.mode \in {"NRM", "ABM"})
            /\ d.x.connected_count = c.x.connected_count + 1
            /\ d.app = c.app \union {"LINK_UP"}
        BY <1>6, <4>1
      <4>3. c.x.pri /\ c.x.mode \in {"NRM", "ABM"}
        BY <1>4, <1>8, <2>1
      <4>4. d.x.pri /\ d.x.rx_fn
        BY <4>2, <4>3, Zenon
      <4>5. d.x.connected_count = 1 /\ d.x.mode = "NRM"
        BY <1>8, <2>1, <4>2
      <4>. QED BY <4>2, <4>4, <4>5
    <3>2. b.flags = {"LINK_UP"}
      BY <1>7, <1>8, <2>1, <3>1 DEF Mask
    <3>3. Owned(q, v2, d.x)
      BY <1>6, <1>12, <3>1 DEF Owned
    <3>4. Calling(v2, d.x, b)
      BY <1>6, <2>1, <3>1, <3>2 DEF Calling
    <3>. QED BY <3>1, <3>3, <3>4
  <2>. QED BY <2>2, <2>3
<1>15. After
  BY <1>11, <1>13, <1>14
<1>16. Pending(link, v2, b, f2) /\ Abandoned(q, v2, b, f2, ch2, pr) /\ ~v2.rcved
  BY <1>6 DEF Pending, Abandoned
<1>. QED
  <2>. HIDE DEF v2
  <2>1. q \in Secs \intersect link.called
    BY <1>1, <1>3
  <2>2. /\ ~d.p[q].rcved /\ Owned(q, d.p[q], d.x) /\ Calling(d.p[q], d.x, a2[q])
        /\ Pending(link, d.p[q], a2[q], f2) /\ Abandoned(q, d.p[q], a2[q], f2, ch2, pr)
        /\ d.x.pri /\ d.x.mode \in {"NDM", "NRM", "ADM"}
    BY <1>15, <1>16 DEF v2, b
  <2>. HIDE DEF After
  <2>. QED BY <1>2, <1>9, <1>10, <2>1, <2>2, PrimaryKept

\* What the primary does with a frame.
LEMMA ReceivePrimary ==
    ASSUME Mode = "NRM", Single(link), Typed, OneLink, RxFrame("P"), link' = link
    PROVE  OneLink'
<1>. DEFINE m == Head(chan["P"])
            c == [Context("P", {}) EXCEPT !.x.idl = FALSE]
            d == Received("P")
            q == st["P"].c_peer
<1>1. /\ Sound("P", d) /\ chan["P"] # << >> /\ chan["P"] \in Seq(LineFrame)
      /\ OnlyAt("P") /\ st'["P"] = d.x /\ pr'["P"] = d.p
      /\ api' = Notified("P", d.app) /\ tx' = tx
      /\ chan'["P"] = Tail(chan["P"]) /\ \A r \in Station \ {"P"} : chan'[r] = chan[r]
      /\ InFlight("P")' = InFlight("P") \union d.cm
      /\ Hand("P") => Hand("P")'
  BY PrimaryPeers, Arrived
<1>2. /\ ~m.cmd /\ m.type \in {"RR", "UA", "DM"}
      /\ Answers(chan'["P"])
      /\ Supervisory(chan["P"]) => Supervisory(chan'["P"]) /\ m.type = "RR"
  BY <1>1, HeadFacts DEF OneLink, LineOK
<1>3. Begins("P", c)
  BY PrimaryPeers, ReceivedContext
<1>4. d = IF ~(m.cmd \/ m.src = c.x.c_peer) THEN c
          ELSE IF m.type = "RR" THEN IF c.x.rx_fn THEN RecvRR(c, m) ELSE c
          ELSE IF m.cmd THEN RecvCommand(c, m)
          ELSE RecvResponse(c, m)
  BY Zenon DEF Received
<1>. HIDE DEF m, c, d
<1>5. c.p = pr["P"] /\ c.x.c_peer = q /\ c.app = {} /\ c.cm = {} /\ q \in Secs
      /\ PeerSet("P") = Secs
  BY <1>3, PrimaryPeers, SoundFacts DEF Begins
<1>. HIDE DEF q
<1>6. \/ d = c
      \/ m.type = "RR" /\ c.x.rx_fn /\ d = RecvRR(c, m)
      \/ m.type # "RR" /\ c.p[q].sent /\ m.pf /\ d = RecvResponse(c, m)
  <2>1. ~(c.p[q].sent /\ m.pf) => RecvResponse(c, m) = c
    BY <1>5, Zenon DEF RecvResponse
  <2>. QED BY <1>2, <1>4, <2>1, SMTT(30)
<1>7. \A s \in Secs : chan'[s] = chan[s]
  BY <1>1, PrimaryPeers
<1>8. LineOK(link, chan')
  BY <1>2, <1>7 DEF OneLink, LineOK
<1>9. \A s \in Secs : Supervisory(chan[s]) /\ Supervisory(chan["P"])
                         => Supervisory(chan'[s]) /\ Supervisory(chan'["P"])
  BY <1>2, <1>7
<1>10. Hand("P")'
  BY <1>1, PrimaryPeers DEF OneLink
<1>11. tx["P"].pc = "tail" => pr["P"][q].conn /\ ~pr["P"][q].sent
  BY DEF OneLink, q
<1>12. CASE d = c
  <2>1. Primary(link, st["P"], pr["P"], api["P"], InFlight("P"), chan, pr)
    BY DEF OneLink
  <2>2. Primary(link, d.x, d.p, api["P"], InFlight("P"), chan, pr)
    <3>. DEFINE z == st["P"]
                p == pr["P"]
                f == InFlight("P")
    <3>1. /\ c.x.pri = z.pri /\ c.x.mode = z.mode /\ c.x.rx_fn = z.rx_fn
          /\ c.x.connected_count = z.connected_count
          /\ z.f_rcved => c.x.f_rcved
          /\ c.p = p /\ c.x.c_peer = z.c_peer
      BY <1>3 DEF Begins
    <3>2. /\ \A r \in Secs : Alike(p[r], c.p[r])
          /\ \A r \in Secs \intersect link.called : p[r].conn \/ p[r].sent => c.x.c_peer = r
          /\ "UM_RECVD" \notin f
          /\ \A r \in Secs \intersect link.called : Pending(link, p[r], api["P"][r], f)
      BY <2>1, <3>1 DEF Alike, Primary, Owned
    <3>3. Primary(link, z, p, api["P"], f, chan, pr)
      BY <2>1
    <3>. HIDE DEF z, p, f
    <3>4. Primary(link, c.x, c.p, api["P"], f, chan, pr)
      BY <3>1, <3>2, <3>3, PrimaryAround
    <3>. QED BY <1>12, <3>4 DEF f
  <2>3. api'["P"] = api["P"]
    <3>1. d.app \in SUBSET AppFlag /\ d.app \subseteq {"LINK_LOST"}
      BY <1>5, <1>12 DEF AppFlag
    <3>. QED BY <1>1, <3>1, PrimaryPeers, NobodyTold
  <2>4. InFlight("P")' = InFlight("P")
    BY <1>1, <1>5, <1>12, Zenon
  <2>5. Primary(link, st'["P"], pr'["P"], api'["P"], InFlight("P")', chan', pr)
    <3>1. Primary(link, d.x, d.p, api["P"], InFlight("P"), chan', pr)
      BY <1>9, <2>2, PrimaryLine
    <3>. QED BY <1>1, <2>3, <2>4, <3>1
  <2>6. tx'["P"].pc = "tail"
           => pr'["P"][st'["P"].c_peer].conn /\ ~pr'["P"][st'["P"].c_peer].sent
    BY <1>1, <1>5, <1>11, <1>12
  <2>. QED BY <1>1, <1>8, <1>10, <2>5, <2>6, PrimaryStep
<1>13. CASE c.x.rx_fn /\ d = RecvRR(c, m)
  <2>1. PICK f2 : f2 = InFlight("P") \union d.cm
    BY Zenon
  <2>2. /\ Primary(link, d.x, d.p, api["P"], f2, chan, pr) /\ d.app = c.app
        /\ d.x.c_peer = c.x.c_peer
        /\ d.p[c.x.c_peer].conn = c.p[c.x.c_peer].conn
        /\ d.p[c.x.c_peer].sent = c.p[c.x.c_peer].sent
    BY <1>3, <1>13, <2>1, HeardPrimary
  <2>3. api'["P"] = api["P"]
    <3>1. d.app \in SUBSET AppFlag /\ d.app \subseteq {"LINK_LOST"}
      BY <1>5, <2>2 DEF AppFlag
    <3>. QED BY <1>1, <3>1, PrimaryPeers, NobodyTold
  <2>4. Primary(link, st'["P"], pr'["P"], api'["P"], InFlight("P")', chan', pr)
    <3>1. Primary(link, d.x, d.p, api["P"], f2, chan', pr)
      BY <1>9, <2>2, PrimaryLine
    <3>. QED BY <1>1, <2>1, <2>3, <3>1, Zenon
  <2>5. tx'["P"].pc = "tail"
           => pr'["P"][st'["P"].c_peer].conn /\ ~pr'["P"][st'["P"].c_peer].sent
    BY <1>1, <1>5, <1>11, <2>2
  <2>. QED BY <1>1, <1>8, <1>10, <2>4, <2>5, PrimaryStep
<1>14. CASE m.type # "RR" /\ c.p[q].sent /\ m.pf /\ d = RecvResponse(c, m)
  <2>1. PICK f2 : f2 = InFlight("P") \union d.cm
    OBVIOUS
  <2>2. PICK a2 : a2 = Notified("P", d.app)["P"]
    OBVIOUS
  <2>3. /\ m.type \in {"UA", "DM"} /\ ~Supervisory(chan["P"]) /\ q = c.x.c_peer
    BY <1>2, <1>5, <1>14
  <2>4. \A ch2 : Primary(link, d.x, d.p, a2, f2, ch2, pr)
    BY <1>1, <1>3, <1>14, <2>1, <2>2, <2>3, AnsweredPrimary, Zenon
  <2>5. Primary(link, st'["P"], pr'["P"], api'["P"], InFlight("P")', chan', pr)
    BY <1>1, <2>1, <2>2, <2>4, Zenon
  <2>6. tx'["P"].pc # "tail"
    BY <1>1, <1>5, <1>11, <1>14
  <2>. QED BY <1>1, <1>8, <1>10, <2>5, <2>6, PrimaryStep
<1>. QED BY <1>6, <1>12, <1>13, <1>14

-----------------------------------------------------------------------------
(* Calls, timers and losses.                                               *)

\* A step at the primary that is about the peer that is called.
LEMMA CalledStep ==
    ASSUME Single(link), Typed, OneLink, link' = link, OnlyAt("P"),
           chan' = chan, tx' = tx, NEW q \in Secs, q \in link.called,
           NEW g, "UM_RECVD" \notin g, ev'["P"].flags = ev["P"].flags \union g,
           ev'["P"].flags # {} => ev'["P"].pending,
           NEW z2, z2 = st'["P"], z2.pri, z2.mode \in {"NDM", "NRM", "ADM"},
           z2.c_peer = st["P"].c_peer,
           NEW v2, v2 = pr'["P"][q], ~v2.rcved,
           v2.conn = pr["P"][q].conn, v2.sent = pr["P"][q].sent,
           \A r \in Secs \ {q} : pr'["P"][r] = pr["P"][r] /\ api'["P"][r].pc = api["P"][r].pc,
           NEW b2, b2 = api'["P"][q],
           NEW f2, f2 = InFlight("P") \union g,
           Owned(q, v2, z2), Calling(v2, z2, b2),
           Pending(link, v2, b2, f2), Abandoned(q, v2, b2, f2, chan, pr)
    PROVE  OneLink'
<1>1. Primary(link, st["P"], pr["P"], api["P"], InFlight("P"), chan, pr)
  BY DEF OneLink
<1>2. "UM_RECVD" \notin f2 /\ InFlight("P")' = f2
  BY <1>1 DEF Primary, InFlight
<1>3. \A r \in Secs \ {q} : Alike(pr["P"][r], pr'["P"][r]) /\ api'["P"][r].pc = api["P"][r].pc
  BY DEF Alike
<1>4. Primary(link, st'["P"], pr'["P"], api'["P"], f2, chan, pr)
  <2>. DEFINE p2 == pr'["P"]
              a2 == api'["P"]
              z == st["P"]
              p == pr["P"]
              a == api["P"]
              f == InFlight("P")
  <2>1. q \in Secs \intersect link.called
    OBVIOUS
  <2>2. /\ ~p2[q].rcved /\ Owned(q, p2[q], z2) /\ Calling(p2[q], z2, a2[q])
        /\ Pending(link, p2[q], a2[q], f2) /\ Abandoned(q, p2[q], a2[q], f2, chan, pr)
    OBVIOUS
  <2>3. \A r \in Secs \ {q} : Alike(p[r], p2[r]) /\ a2[r].pc = a[r].pc
    BY <1>3
  <2>4. Primary(link, z, p, a, f, chan, pr)
    BY <1>1
  <2>. HIDE DEF p2, a2, z, p, a, f
  <2>5. Primary(link, z2, p2, a2, f2, chan, pr)
    BY <1>2, <2>1, <2>2, <2>3, <2>4, PrimaryKept
  <2>. QED BY <2>5 DEF p2, a2
<1>5. Hand("P")'
  BY PrimaryPeers DEF OneLink, Hand
<1>6. tx'["P"].pc = "tail"
         => pr'["P"][st'["P"].c_peer].conn /\ ~pr'["P"][st'["P"].c_peer].sent
  <2>1. SUFFICES ASSUME tx["P"].pc = "tail"
                 PROVE  pr'["P"][st["P"].c_peer].conn /\ ~pr'["P"][st["P"].c_peer].sent
    OBVIOUS
  <2>2. pr["P"][st["P"].c_peer].conn /\ ~pr["P"][st["P"].c_peer].sent
    BY <2>1 DEF OneLink
  <2>3. st["P"].c_peer \in Secs
    BY PrimaryPeers DEF Typed, StationState
  <2>4. CASE st["P"].c_peer = q
    BY <2>2, <2>4
  <2>5. CASE st["P"].c_peer # q
    BY <2>2, <2>3, <2>5
  <2>. QED BY <2>4, <2>5
<1>7. LineOK(link, chan')
  BY DEF OneLink
<1>. QED BY <1>2, <1>4, <1>5, <1>6, <1>7, PrimaryStep, Zenon

\* How a step changes one peer of the primary.
LEMMA OnePeer ==
    ASSUME Typed, NEW q \in Secs, NEW z2, NEW v2, NEW b2,
           st' = [st EXCEPT !["P"] = z2],
           pr' = [pr EXCEPT !["P"][q] = v2], api' = [api EXCEPT !["P"][q] = b2],
           \A r \in Station \ {"P"} : tx'[r] = tx[r] /\ ev'[r] = ev[r]
    PROVE  /\ OnlyAt("P") /\ st'["P"] = z2 /\ pr'["P"][q] = v2 /\ api'["P"][q] = b2
           /\ \A r \in Secs \ {q} : pr'["P"][r] = pr["P"][r] /\ api'["P"][r] = api["P"][r]
<1>1. /\ Table(st) /\ Table(pr) /\ Table(api) /\ "P" \in Station
      /\ pr["P"] \in [Secs -> PeerState] /\ api["P"] \in [Secs -> Call]
  BY PrimaryPeers DEF Typed
<1>2. st'["P"] = z2 /\ \A r \in Station \ {"P"} : st'[r] = st[r]
  BY <1>1 DEF Table
<1>3. pr'["P"] = [pr["P"] EXCEPT ![q] = v2] /\ \A r \in Station \ {"P"} : pr'[r] = pr[r]
  BY <1>1 DEF Table
<1>4. api'["P"] = [api["P"] EXCEPT ![q] = b2] /\ \A r \in Station \ {"P"} : api'[r] = api[r]
  BY <1>1 DEF Table
<1>5. pr'["P"][q] = v2 /\ \A r \in Secs \ {q} : pr'["P"][r] = pr["P"][r]
  BY <1>1, <1>3
<1>6. api'["P"][q] = b2 /\ \A r \in Secs \ {q} : api'["P"][r] = api["P"][r]
  BY <1>1, <1>4
<1>. QED BY <1>2, <1>3, <1>4, <1>5, <1>6 DEF OnlyAt

\* What the peer that is called is known to be.
LEMMA CalledFacts ==
    ASSUME Single(link), Typed, OneLink, NEW q \in Secs,
           NEW v, v = pr["P"][q], NEW z, z = st["P"], NEW b, b = api["P"][q],
           NEW f, f = InFlight("P")
    PROVE  /\ v \in PeerState /\ z \in StationState("P") /\ b \in Call /\ ~v.rcved /\ z.pri
           /\ z.mode \in {"NDM", "NRM", "ADM"} /\ "UM_RECVD" \notin f
           /\ q \in link.called =>
                 /\ Owned(q, v, z) /\ Calling(v, z, b) /\ Pending(link, v, b, f)
                 /\ Abandoned(q, v, b, f, chan, pr)
           /\ q \notin link.called => Uncalled(v, b)
<1>1. v \in PeerState /\ z \in StationState("P") /\ b \in Call
  BY PrimaryPeers DEF Typed
<1>2. Primary(link, z, pr["P"], api["P"], f, chan, pr)
  BY DEF OneLink
<1>. QED BY <1>1, <1>2 DEF Primary

LEMMA UpBeginKept ==
    ASSUME Mode = "NRM", Single(link), Typed, OneLink, NEW q \in Secs,
           LinkUpBegin("P", q), link' = link
    PROVE  OneLink'
<1>. DEFINE v == pr["P"][q]
            z == st["P"]
            b == api["P"][q]
            f == InFlight("P")
            disc == z.mode \in {"NDM", "ADM"}
            y == [z EXCEPT !.pri = @ \/ Mode = "ABM", !.mode = IF disc THEN Mode ELSE @]
            b2 == [pc |-> "upReq", flags |-> {}, s_mode |-> IF disc THEN z.mode ELSE "0"]
<1>1. /\ b.pc = "idle" /\ q \in link.called /\ ~v.conn
      /\ st' = [st EXCEPT !["P"].pri = @ \/ Mode = "ABM",
                          !["P"].mode = IF disc THEN Mode ELSE @]
      /\ api' = [api EXCEPT !["P"][q] = b2]
      /\ UNCHANGED <<pr, tx, ev, chan>>
  BY Zenon DEF LinkUpBegin
<1>2. /\ v \in PeerState /\ z \in StationState("P") /\ ~v.rcved /\ z.pri
      /\ z.mode \in {"NDM", "NRM", "ADM"} /\ "UM_RECVD" \notin f
      /\ Owned(q, v, z) /\ Calling(v, z, b) /\ Pending(link, v, b, f)
      /\ Abandoned(q, v, b, f, chan, pr)
  BY <1>1, CalledFacts
<1>3. disc /\ b2.pc = "upReq" /\ b2.flags = {} /\ b2.s_mode \in {"NDM", "ADM"}
  BY <1>1, <1>2 DEF Calling
<1>4. /\ y.mode = "NRM" /\ y.pri /\ y.rx_fn = z.rx_fn /\ y.f_rcved = z.f_rcved
      /\ y.connected_count = z.connected_count /\ y.c_peer = z.c_peer
  BY <1>2, <1>3 DEF StationState
<1>5. st' = [st EXCEPT !["P"] = y]
  <2>1. Table(st) /\ "P" \in Station /\ st["P"] \in StationState("P")
    BY PrimaryPeers DEF Typed
  <2>. QED BY <1>1, <2>1, Zenon DEF Table
<1>6. pr' = [pr EXCEPT !["P"][q] = v]
  <2>1. Table(pr) /\ "P" \in Station /\ pr["P"] \in [Secs -> PeerState]
    BY PrimaryPeers DEF Typed
  <2>. QED BY <1>1, <2>1 DEF Table
<1>. HIDE DEF v, z, b, f, y, b2, disc
<1>7. /\ OnlyAt("P") /\ st'["P"] = y /\ pr'["P"][q] = v /\ api'["P"][q] = b2
      /\ \A r \in Secs \ {q} : pr'["P"][r] = pr["P"][r] /\ api'["P"][r] = api["P"][r]
  <2>1. api' = [api EXCEPT !["P"][q] = b2]
        /\ \A r \in Station \ {"P"} : tx'[r] = tx[r] /\ ev'[r] = ev[r]
    BY <1>1
  <2>. QED BY <1>5, <1>6, <2>1, OnePeer, Zenon
<1>8. v.um_cmd # "SNRM"
  BY <1>1, <1>2 DEF Calling
<1>9. Owned(q, v, y) /\ Calling(v, y, b2)
  BY <1>1, <1>2, <1>3, <1>4, <1>8 DEF Owned, Calling
<1>10. Pending(link, v, b2, f) /\ Abandoned(q, v, b2, f, chan, pr)
  BY <1>1, <1>2, <1>3, <1>8 DEF Pending, Abandoned
<1>. QED
  <2>1. PICK g : g = {}
    BY Zenon
  <2>2. PICK f2 : f2 = InFlight("P") \union g
    BY Zenon
  <2>3. f2 = f
    BY <2>1, <2>2 DEF f
  <2>4. /\ Pending(link, v, b2, f2) /\ Abandoned(q, v, b2, f2, chan, pr)
        /\ ev'["P"].flags = ev["P"].flags \union g /\ "UM_RECVD" \notin g
        /\ ev'["P"].flags # {} => ev'["P"].pending
    BY <1>1, <1>10, <2>1, <2>3, PrimaryPeers DEF OneLink, Hand
  <2>5. y.c_peer = st["P"].c_peer /\ v = pr["P"][q] /\ chan' = chan /\ tx' = tx
    BY <1>1, <1>4 DEF z, v
  <2>. QED BY <1>1, <1>2, <1>4, <1>7, <1>9, <2>2, <2>4, <2>5, CalledStep, Zenon

LEMMA SamePeer ==
    ASSUME Typed, NEW q \in Secs
    PROVE  /\ [st EXCEPT !["P"] = st["P"]] = st
           /\ [pr EXCEPT !["P"][q] = pr["P"][q]] = pr
           /\ [api EXCEPT !["P"][q] = api["P"][q]] = api
<1>1. /\ Table(st) /\ Table(pr) /\ Table(api) /\ "P" \in Station
      /\ pr["P"] \in [Secs -> PeerState] /\ api["P"] \in [Secs -> Call]
  BY PrimaryPeers DEF Typed
<1>2. [st EXCEPT !["P"] = st["P"]] = st
  BY <1>1 DEF Table
<1>3. [pr["P"] EXCEPT ![q] = pr["P"][q]] = pr["P"] /\ [pr EXCEPT !["P"] = pr["P"]] = pr
  BY <1>1 DEF Table
<1>4. [api["P"] EXCEPT ![q] = api["P"][q]] = api["P"] /\ [api EXCEPT !["P"] = api["P"]] = api
  BY <1>1 DEF Table
<1>. QED BY <1>2, <1>3, <1>4, Zenon

\* What a call or the reply timer of that peer does; g are the events it raises.
LEMMA CalledKept ==
    ASSUME Mode = "NRM", Single(link), Typed, OneLink, link' = link,
           NEW q \in Secs, q \in link.called,
           NEW z2, NEW v2, NEW b2, NEW g, NEW f2, f2 = InFlight("P") \union g,
           st' = [st EXCEPT !["P"] = z2], pr' = [pr EXCEPT !["P"][q] = v2],
           api' = [api EXCEPT !["P"][q] = b2],
           g \in SUBSET Flag, "UM_RECVD" \notin g, ev' = Broadcast("P", g),
           chan' = chan, tx' = tx,
           z2.pri, z2.mode \in {"NDM", "NRM", "ADM"}, z2.c_peer = st["P"].c_peer,
           ~v2.rcved, v2.conn = pr["P"][q].conn, v2.sent = pr["P"][q].sent,
           Owned(q, v2, z2), Calling(v2, z2, b2),
           Pending(link, v2, b2, f2), Abandoned(q, v2, b2, f2, chan, pr)
    PROVE  OneLink'
<1>1. /\ \A r \in Station \ {"P"} : ev'[r] = ev[r]
      /\ ev'["P"].flags = ev["P"].flags \union g
      /\ ev["P"].pending => ev'["P"].pending
      /\ g # {} => ev'["P"].pending
  <2>1. PICK e : e = Broadcast("P", g)
    OBVIOUS
  <2>2. /\ \A r \in Station \ {"P"} : e[r] = ev[r]
        /\ e["P"].flags = ev["P"].flags \union g
        /\ ev["P"].pending => e["P"].pending
        /\ g # {} => e["P"].pending
    BY <2>1, PrimaryPeers, BroadcastDoes
  <2>3. ev' = e
    BY <2>1
  <2>. QED BY <2>2, <2>3
<1>2. ev'["P"].flags # {} => ev'["P"].pending
  BY <1>1, PrimaryPeers DEF OneLink, Hand
<1>3. /\ OnlyAt("P") /\ st'["P"] = z2 /\ pr'["P"][q] = v2 /\ api'["P"][q] = b2
      /\ \A r \in Secs \ {q} : pr'["P"][r] = pr["P"][r] /\ api'["P"][r] = api["P"][r]
  <2>1. \A r \in Station \ {"P"} : tx'[r] = tx[r] /\ ev'[r] = ev[r]
    BY <1>1
  <2>. QED BY <2>1, OnePeer, Zenon
<1>. QED BY <1>1, <1>2, <1>3, CalledStep, Zenon

LEMMA NoEvent == ev = Broadcast("P", {}) /\ {} \in SUBSET Flag /\ \A f : f = f \union {}
BY DEF Broadcast

LEMMA DownBeginKept ==
    ASSUME Mode = "NRM", Single(link), Typed, OneLink, NEW q \in Secs,
           LinkDownBegin("P", q), link' = link
    PROVE  OneLink'
<1>. DEFINE v == pr["P"][q]
            z == st["P"]
            b == api["P"][q]
            f == InFlight("P")
            b2 == [IdleCall EXCEPT !.pc = "downReq"]
<1>1. /\ b.pc = "idle" /\ v.conn
      /\ api' = [api EXCEPT !["P"][q] = b2]
      /\ UNCHANGED <<st, pr, tx, ev, chan>>
  BY Zenon DEF LinkDownBegin
<1>2. /\ v \in PeerState /\ ~v.rcved /\ z.pri
      /\ z.mode \in {"NDM", "NRM", "ADM"}
      /\ q \in link.called /\ Owned(q, v, z) /\ Calling(v, z, b) /\ Pending(link, v, b, f)
      /\ Abandoned(q, v, b, f, chan, pr)
  BY <1>1, CalledFacts DEF Uncalled
<1>3. b2.pc = "downReq" /\ b2.flags = {}
  BY DEF IdleCall
<1>4. st' = [st EXCEPT !["P"] = z] /\ pr' = [pr EXCEPT !["P"][q] = v]
  BY <1>1, SamePeer
<1>. HIDE DEF v, z, b, f, b2
<1>5. v.um_cmd # "SNRM"
  BY <1>1, <1>2 DEF Calling
<1>6. Calling(v, z, b2)
  BY <1>1, <1>2, <1>3, <1>5 DEF Calling
<1>7. Pending(link, v, b2, f) /\ Abandoned(q, v, b2, f, chan, pr)
  BY <1>1, <1>2, <1>3, <1>5 DEF Pending, Abandoned
<1>. QED
  <2>1. PICK g : g = {}
    OBVIOUS
  <2>2. f = InFlight("P") \union g /\ g \in SUBSET Flag /\ "UM_RECVD" \notin g
        /\ ev' = Broadcast("P", g)
    BY <1>1, <2>1, NoEvent DEF f
  <2>3. z.c_peer = st["P"].c_peer /\ v = pr["P"][q] /\ chan' = chan /\ tx' = tx
    BY <1>1 DEF z, v
  <2>. QED BY <1>1, <1>2, <1>4, <1>6, <1>7, <2>2, <2>3, CalledKept, Zenon

LEMMA RequestCallKept ==
    ASSUME Mode = "NRM", Single(link), Typed, OneLink, NEW q \in Secs,
           LinkRequest("P", q), link' = link
    PROVE  OneLink'
<1>. DEFINE v == pr["P"][q]
            z == st["P"]
            b == api["P"][q]
            f == InFlight("P")
            up == b.pc = "upReq"
            b2 == [b EXCEPT !.pc = IF up THEN "up" ELSE "down"]
            v2 == [v EXCEPT !.um_cmd = IF up THEN "SNRM" ELSE "DISC"]
            f2 == f \union {"LINK_REQ"}
<1>1. /\ b.pc \in {"upReq", "downReq"}
      /\ api' = [api EXCEPT !["P"][q] = b2]
      /\ pr' = [pr EXCEPT !["P"][q] = v2]
      /\ ev' = Broadcast("P", {"LINK_REQ"})
      /\ UNCHANGED <<st, tx, chan>>
  <2>1. SetMode = "SNRM"
    BY DEF SetMode
  <2>. QED BY <2>1 DEF LinkRequest
<1>2. /\ v \in PeerState /\ b \in Call /\ ~v.rcved /\ z.pri
      /\ z.mode \in {"NDM", "NRM", "ADM"}
      /\ q \in link.called /\ Owned(q, v, z) /\ Calling(v, z, b) /\ Pending(link, v, b, f)
      /\ Abandoned(q, v, b, f, chan, pr)
  BY <1>1, CalledFacts DEF Uncalled
<1>3. /\ b2.flags = b.flags /\ b2.s_mode = b.s_mode
      /\ b2.pc = IF up THEN "up" ELSE "down"
      /\ v2.um_cmd = IF up THEN "SNRM" ELSE "DISC"
      /\ v2.conn = v.conn /\ v2.sent = v.sent /\ v2.rcved = v.rcved /\ v2.t1 = v.t1
  BY <1>2 DEF PeerState, Call
<1>4. st' = [st EXCEPT !["P"] = z]
  BY <1>1, SamePeer
<1>. HIDE DEF v, z, b, f, b2, v2, up
<1>5. b2.pc \in {"up", "down"}
  BY <1>3
<1>6. Owned(q, v2, z)
  BY <1>2, <1>3 DEF Owned
<1>7. Calling(v2, z, b2)
  BY <1>1, <1>2, <1>3 DEF Calling, up
<1>8. Pending(link, v2, b2, f2) /\ Abandoned(q, v2, b2, f2, chan, pr)
  BY <1>5 DEF Pending, Abandoned
<1>. HIDE DEF f2
<1>. QED
  <2>1. PICK g : g = {"LINK_REQ"}
    BY Zenon
  <2>2. f2 = InFlight("P") \union g /\ g \in SUBSET Flag /\ "UM_RECVD" \notin g
        /\ ev' = Broadcast("P", g)
    BY <1>1, <2>1 DEF f, f2, Flag
  <2>3. /\ z.c_peer = st["P"].c_peer /\ v2.conn = pr["P"][q].conn /\ v2.sent = pr["P"][q].sent
        /\ chan' = chan /\ tx' = tx /\ ~v2.rcved
    BY <1>1, <1>2, <1>3 DEF z, v
  <2>. QED BY <1>1, <1>2, <1>4, <1>6, <1>7, <1>8, <2>2, <2>3, CalledKept, Zenon

LEMMA EventCallKept ==
    ASSUME Mode = "NRM", Single(link), Typed, OneLink, NEW q \in Secs,
           LinkEvent("P", q), link' = link
    PROVE  OneLink'
<1>. DEFINE v == pr["P"][q]
            z == st["P"]
            b == api["P"][q]
            f == InFlight("P")
            refused == b.pc = "up" /\ "LINK_REFUSED" \in b.flags /\ ~v.conn
            over == \/ b.pc = "up" /\ "LINK_UP" \in b.flags /\ v.conn
                    \/ b.pc = "down" /\ "LINK_DOWN" \in b.flags /\ ~v.conn
                    \/ refused
            b2 == IF over THEN IdleCall ELSE [b EXCEPT !.flags = {}]
            mode == IF refused THEN b.s_mode ELSE z.mode
            y == [z EXCEPT !.mode = mode]
<1>1. /\ b.pc \in {"up", "down"} /\ b.flags # {}
      /\ api' = [api EXCEPT !["P"][q] = b2]
      /\ st' = [st EXCEPT !["P"].mode = mode]
      /\ UNCHANGED <<pr, tx, ev, chan>>
  BY DEF LinkEvent
<1>2. /\ v \in PeerState /\ z \in StationState("P") /\ b \in Call /\ ~v.rcved /\ z.pri
      /\ z.mode \in {"NDM", "NRM", "ADM"}
      /\ q \in link.called /\ Owned(q, v, z) /\ Calling(v, z, b) /\ Pending(link, v, b, f)
      /\ Abandoned(q, v, b, f, chan, pr)
  BY <1>1, CalledFacts DEF Uncalled
<1>3. st' = [st EXCEPT !["P"] = y] /\ pr' = [pr EXCEPT !["P"][q] = v]
  <2>1. pr' = [pr EXCEPT !["P"][q] = v]
    BY <1>1, SamePeer
  <2>2. st' = [st EXCEPT !["P"] = [st["P"] EXCEPT !.mode = mode]]
    BY <1>1
  <2>. QED BY <2>1, <2>2
<1>4. b2.pc = "idle" \/ (b2.pc = b.pc /\ b2.flags = {} /\ b2.s_mode = b.s_mode /\ ~over)
  <2>. HIDE DEF over
  <2>. QED BY <1>2 DEF Call, IdleCall
<1>5. /\ y.pri = z.pri /\ y.rx_fn = z.rx_fn /\ y.f_rcved = z.f_rcved
      /\ y.connected_count = z.connected_count /\ y.c_peer = z.c_peer /\ y.mode = mode
  <2>. HIDE DEF mode
  <2>. QED BY <1>2, Zenon DEF StationState
<1>6. b2.pc = "idle" <=> over
  <2>. HIDE DEF over
  <2>. QED BY <1>1, <1>2 DEF Call, IdleCall
<1>7. v.um_cmd = "none" /\ ~v.sent
  BY <1>1, <1>2 DEF Owned, Calling
<1>8. refused => mode \in {"NDM", "ADM"} /\ ~v.conn
  BY <1>2 DEF Calling
<1>9. ~refused => mode = z.mode
  OBVIOUS
<1>10. b.pc = "down" => over
  BY <1>1, <1>2 DEF Calling
<1>11. b.pc = "up" /\ ~over => ~v.conn /\ ~refused
  BY <1>1, <1>2 DEF Calling
<1>12. over /\ ~refused /\ b.pc = "up" => v.conn
  OBVIOUS
<1>13. refused => over /\ b.pc = "up"
  OBVIOUS
<1>. HIDE DEF v, z, b, f, b2, y, mode, over, refused
<1>14. Owned(q, v, y) /\ y.mode \in {"NDM", "NRM", "ADM"}
  BY <1>2, <1>5, <1>8, <1>9 DEF Owned
<1>15. Calling(v, y, b2)
  <2>1. CASE over
    <3>1. b2.pc = "idle"
      BY <1>6, <2>1
    <3>2. ~v.conn => y.mode # "NRM"
      BY <1>1, <1>2, <1>5, <1>8, <1>9, <1>12, <1>13, <2>1 DEF Calling
    <3>. QED BY <1>7, <3>1, <3>2 DEF Calling
  <2>2. CASE ~over
    <3>1. b2.pc = "up" /\ b2.flags = {} /\ b2.s_mode = b.s_mode /\ b.pc = "up"
      BY <1>1, <1>4, <1>6, <1>10, <2>2
    <3>2. ~v.conn
      BY <1>11, <2>2, <3>1
    <3>. QED BY <1>2, <1>7, <3>1, <3>2 DEF Calling
  <2>. QED BY <2>1, <2>2
<1>16. Pending(link, v, b2, f) /\ Abandoned(q, v, b2, f, chan, pr)
  BY <1>7 DEF Pending, Abandoned
<1>. QED
  <2>1. PICK g : g = {}
    OBVIOUS
  <2>2. f = InFlight("P") \union g /\ g \in SUBSET Flag /\ "UM_RECVD" \notin g
        /\ ev' = Broadcast("P", g)
    BY <1>1, <2>1, NoEvent DEF f
  <2>3. y.c_peer = st["P"].c_peer /\ v = pr["P"][q] /\ chan' = chan /\ tx' = tx /\ y.pri
    BY <1>1, <1>2, <1>5 DEF z, v
  <2>. QED BY <1>1, <1>2, <1>3, <1>14, <1>15, <1>16, <2>2, <2>3, CalledKept, Zenon

\* At rest no command is under way.
LEMMA RestFacts ==
    ASSUME Typed, OneLink, AtRest
    PROVE  /\ InFlight("P") = {}
           /\ \A s \in Station : chan[s] = << >>
           /\ \A s \in Secs : ~pr[s]["P"].rcved
<1>1. \A s \in Station : /\ chan[s] = << >> /\ (Asleep(s) \/ Spinning(s))
                         /\ tx[s].pc = "wait" => tx[s].cm = {}
                         /\ ev[s].flags # {} => ev[s].pending
  BY DEF AtRest, OneLink, Hand
<1>2. \A s \in Station : Asleep(s) => InFlight(s) = {}
  BY <1>1 DEF Asleep, InFlight
<1>3. ~Spinning("P")
  <2>1. "UM_RECVD" \notin InFlight("P")
    BY DEF OneLink, Primary
  <2>. QED BY <2>1 DEF Spinning, InFlight
<1>4. \A s \in Secs : ~pr[s]["P"].rcved
  <2>. TAKE s \in Secs
  <2>1. s \in Station /\ PeerSet(s) = {"P"} /\ st[s] \in StationState(s)
    BY PrimaryPeers DEF Typed
  <2>2. st[s].c_peer = "P"
    BY <2>1 DEF StationState
  <2>3. Secondary(st[s], pr[s]["P"], api[s]["P"], InFlight(s))
    BY DEF OneLink
  <2>4. CASE Asleep(s)
    BY <1>2, <2>1, <2>3, <2>4 DEF Secondary
  <2>5. CASE Spinning(s)
    BY <2>2, <2>5 DEF Spinning
  <2>. QED BY <1>1, <2>1, <2>4, <2>5
<1>. QED BY <1>1, <1>2, <1>3, <1>4, PrimaryPeers

LEMMA TimeoutCallKept ==
    ASSUME Mode = "NRM", Single(link), Typed, OneLink, NEW q \in Secs,
           LinkTimeout("P", q), link' = link
    PROVE  OneLink'
<1>. DEFINE v == pr["P"][q]
            z == st["P"]
            b == api["P"][q]
            f == InFlight("P")
            mode == IF b.pc = "up" THEN b.s_mode ELSE z.mode
            y == [z EXCEPT !.mode = mode]
            b2 == IdleCall
<1>1. /\ b.pc \in {"up", "down"} /\ b.flags = {} /\ AtRest
      /\ api' = [api EXCEPT !["P"][q] = b2]
      /\ st' = [st EXCEPT !["P"].mode = mode]
      /\ UNCHANGED <<pr, tx, ev, chan>>
  BY DEF LinkTimeout
<1>2. /\ v \in PeerState /\ z \in StationState("P") /\ b \in Call /\ ~v.rcved /\ z.pri
      /\ z.mode \in {"NDM", "NRM", "ADM"}
      /\ q \in link.called /\ Owned(q, v, z) /\ Calling(v, z, b) /\ Pending(link, v, b, f)
      /\ Abandoned(q, v, b, f, chan, pr)
  BY <1>1, CalledFacts DEF Uncalled
<1>3. st' = [st EXCEPT !["P"] = y] /\ pr' = [pr EXCEPT !["P"][q] = v]
  <2>1. pr' = [pr EXCEPT !["P"][q] = v]
    BY <1>1, SamePeer
  <2>2. st' = [st EXCEPT !["P"] = [st["P"] EXCEPT !.mode = mode]]
    BY <1>1
  <2>. QED BY <2>1, <2>2
<1>4. b2.pc = "idle" /\ b2.flags = {}
  BY DEF IdleCall
<1>5. /\ y.pri = z.pri /\ y.rx_fn = z.rx_fn /\ y.f_rcved = z.f_rcved
      /\ y.connected_count = z.connected_count /\ y.c_peer = z.c_peer /\ y.mode = mode
  <2>. HIDE DEF mode
  <2>. QED BY <1>2 DEF StationState
<1>6. /\ f = {} /\ chan[q] = << >> /\ chan["P"] = << >> /\ ~pr[q]["P"].rcved
      /\ v.t1 # "armed"
  <2>1. v.t1 # "armed"
    BY PrimaryPeers DEF LinkTimeout
  <2>. QED BY <1>1, <2>1, RestFacts, PrimaryPeers
<1>7. Supervisory(chan[q]) /\ Supervisory(chan["P"])
  BY <1>6 DEF Supervisory
<1>8. /\ b.pc = "up" => mode \in {"NDM", "ADM"}
      /\ b.pc = "down" => mode = z.mode
  BY <1>2 DEF Calling
<1>. HIDE DEF v, z, b, f, b2, y, mode
<1>9. v.um_cmd \in {"none", "DISC"} /\ (b.pc = "up" => v.um_cmd = "none" /\ ~v.conn /\ ~v.sent)
  BY <1>1, <1>2, <1>6 DEF Owned, Calling, Pending
<1>10. Owned(q, v, y) /\ y.mode \in {"NDM", "NRM", "ADM"}
  BY <1>1, <1>2, <1>5, <1>8, <1>9 DEF Owned
<1>11. Calling(v, y, b2)
  <2>1. ~v.conn => y.mode # "NRM"
    BY <1>1, <1>2, <1>5, <1>8 DEF Calling
  <2>. QED BY <1>4, <1>9, <2>1 DEF Calling
<1>12. Pending(link, v, b2, f)
  BY <1>4, <1>9 DEF Pending
<1>13. Abandoned(q, v, b2, f, chan, pr)
  <2>1. v.um_cmd = "DISC" /\ ~v.conn => v.sent
    BY <1>1, <1>2, <1>6, <1>9 DEF Pending
  <2>. QED BY <1>4, <1>6, <1>7, <1>9, <2>1 DEF Abandoned
<1>. QED
  <2>1. PICK g : g = {}
    OBVIOUS
  <2>2. f = InFlight("P") \union g /\ g \in SUBSET Flag /\ "UM_RECVD" \notin g
        /\ ev' = Broadcast("P", g)
    BY <1>1, <2>1, NoEvent DEF f
  <2>3. y.c_peer = st["P"].c_peer /\ v = pr["P"][q] /\ chan' = chan /\ tx' = tx /\ y.pri
    BY <1>1, <1>2, <1>5 DEF z, v
  <2>. QED BY <1>1, <1>2, <1>3, <1>10, <1>11, <1>12, <1>13, <2>2, <2>3, CalledKept, Zenon

LEMMA ReplyTimerKept ==
    ASSUME Mode = "NRM", Single(link), Typed, OneLink, NEW q \in Secs,
           T1Expire("P", q), link' = link
    PROVE  OneLink'
<1>. DEFINE v == pr["P"][q]
            z == st["P"]
            b == api["P"][q]
            f == InFlight("P")
            v2 == [v EXCEPT !.t1 = "expired"]
            f2 == f \union {"C_RPLYTMO"}
<1>1. /\ v.t1 = "armed"
      /\ pr' = [pr EXCEPT !["P"][q] = v2]
      /\ ev' = Broadcast("P", {"C_RPLYTMO"})
      /\ UNCHANGED <<st, tx, api, chan>>
  BY DEF T1Expire
<1>2. /\ v \in PeerState /\ ~v.rcved /\ z.pri
      /\ z.mode \in {"NDM", "NRM", "ADM"}
      /\ q \in link.called /\ Owned(q, v, z) /\ Calling(v, z, b) /\ Pending(link, v, b, f)
      /\ Abandoned(q, v, b, f, chan, pr)
  BY <1>1, CalledFacts DEF Uncalled
<1>3. /\ v2.um_cmd = v.um_cmd /\ v2.conn = v.conn /\ v2.sent = v.sent /\ v2.rcved = v.rcved
      /\ v2.t1 = "expired"
  BY <1>2 DEF PeerState
<1>4. st' = [st EXCEPT !["P"] = z] /\ api' = [api EXCEPT !["P"][q] = b]
  BY <1>1, SamePeer
<1>. HIDE DEF v, z, b, f, v2
<1>5. Owned(q, v2, z) /\ Calling(v2, z, b)
  BY <1>2, <1>3 DEF Owned, Calling
<1>6. Pending(link, v2, b, f2)
  BY <1>2, <1>3 DEF Pending
<1>7. Abandoned(q, v2, b, f2, chan, pr)
  BY <1>1, <1>2, <1>3 DEF Abandoned
<1>. HIDE DEF f2
<1>. QED
  <2>1. PICK g : g = {"C_RPLYTMO"}
    BY Zenon
  <2>2. f2 = InFlight("P") \union g /\ g \in SUBSET Flag /\ "UM_RECVD" \notin g
        /\ ev' = Broadcast("P", g)
    BY <1>1, <2>1 DEF f, f2, Flag
  <2>3. /\ z.c_peer = st["P"].c_peer /\ v2.conn = pr["P"][q].conn /\ v2.sent = pr["P"][q].sent
        /\ chan' = chan /\ tx' = tx /\ ~v2.rcved
    BY <1>1, <1>2, <1>3 DEF z, v
  <2>. QED BY <1>1, <1>2, <1>4, <1>5, <1>6, <1>7, <2>2, <2>3, CalledKept, Zenon

\* A step at the primary that the connection does not depend on.
LEMMA PrimaryAside ==
    ASSUME Typed, OneLink, link' = link, OnlyAt("P"), chan' = chan,
           NEW z, z = st["P"], NEW z2, z2 = st'["P"],
           z2.pri = z.pri, z2.mode = z.mode, z2.rx_fn = z.rx_fn,
           z2.connected_count = z.connected_count, z2.c_peer = z.c_peer,
           z2.f_rcved = z.f_rcved,
           \A r \in Secs : Alike(pr["P"][r], pr'["P"][r]),
           api'["P"] = api["P"],
           NEW g, g \intersect {"UM_RECVD", "LINK_REQ", "C_RPLYTMO"} = {},
           InFlight("P")' = InFlight("P") \union g,
           Hand("P")', tx'["P"].pc = "tail" => tx["P"].pc = "tail"
    PROVE  OneLink'
<1>. DEFINE p == pr["P"]
            p2 == pr'["P"]
            a == api["P"]
            f == InFlight("P")
            f2 == InFlight("P")'
<1>1. Primary(link, z, p, a, f, chan, pr)
  BY DEF OneLink
<1>2. /\ "UM_RECVD" \notin f2 /\ ("LINK_REQ" \in f2 <=> "LINK_REQ" \in f)
      /\ ("C_RPLYTMO" \in f2 <=> "C_RPLYTMO" \in f)
  BY <1>1 DEF Primary
<1>3. /\ \A r \in Secs : Alike(p[r], p2[r])
      /\ \A r \in Secs \intersect link.called : p[r].conn \/ p[r].sent => z2.c_peer = r
      /\ \A r \in Secs \intersect link.called : Pending(link, p[r], a[r], f2)
  BY <1>1, <1>2 DEF Primary, Owned, Pending
<1>4. tx'["P"].pc = "tail"
         => pr'["P"][st'["P"].c_peer].conn /\ ~pr'["P"][st'["P"].c_peer].sent
  <2>1. z.c_peer \in Secs
    BY PrimaryPeers DEF Typed, StationState
  <2>2. tx["P"].pc = "tail" => p[z.c_peer].conn /\ ~p[z.c_peer].sent
    BY DEF OneLink
  <2>. QED BY <1>3, <2>1, <2>2 DEF Alike
<1>5. LineOK(link, chan')
  BY DEF OneLink
<1>. HIDE DEF p, p2, a, f, f2
<1>6. z2.pri = z.pri /\ z2.mode = z.mode /\ z2.rx_fn = z.rx_fn
      /\ z2.connected_count = z.connected_count /\ (z.f_rcved => z2.f_rcved)
  OBVIOUS
<1>7. Primary(link, z2, p2, a, f2, chan, pr)
  BY <1>1, <1>2, <1>3, <1>6, PrimaryAround
<1>8. Primary(link, st'["P"], pr'["P"], api'["P"], InFlight("P")', chan', pr)
  BY <1>7 DEF p2, a, f2
<1>. QED BY <1>4, <1>5, <1>8, PrimaryStep

LEMMA AsidePrimary ==
    ASSUME Typed, OneLink, link' = link,
           \/ TxFetch("P") \/ RxIdle("P") \/ \E q \in Secs : T3Expire("P", q)
    PROVE  OneLink'
<1>1. /\ "P" \in Station /\ Table(st) /\ Table(pr) /\ Table(api)
      /\ tx \in [Station -> Thread] /\ ev \in [Station -> Events]
      /\ pr["P"] \in [Secs -> PeerState] /\ st["P"] \in StationState("P")
  BY PrimaryPeers DEF Typed
<1>2. \A r \in Secs : Alike(pr["P"][r], pr["P"][r])
  BY DEF Alike
<1>3. Hand("P")
  BY <1>1 DEF OneLink
<1>4. CASE TxFetch("P")
  <2>1. /\ tx["P"].pc = "wait"
        /\ tx' = [tx EXCEPT !["P"] = [pc |-> "serve", cm |-> ev["P"].flags]]
        /\ ev' = [ev EXCEPT !["P"] = [flags |-> {}, pending |-> FALSE]]
        /\ UNCHANGED <<st, pr, api, chan>>
    BY <1>4 DEF TxFetch
  <2>2. /\ tx'["P"] = [pc |-> "serve", cm |-> ev["P"].flags]
        /\ ev'["P"] = [flags |-> {}, pending |-> FALSE]
        /\ \A r \in Station \ {"P"} : tx'[r] = tx[r] /\ ev'[r] = ev[r]
    BY <1>1, <2>1
  <2>3. InFlight("P")' = InFlight("P") \union {} /\ Hand("P")' /\ tx'["P"].pc # "tail"
    BY <1>3, <2>1, <2>2 DEF InFlight, Hand
  <2>4. OnlyAt("P")
    BY <2>1, <2>2 DEF OnlyAt
  <2>5. PICK g : g = {}
    BY Zenon
  <2>6. g \intersect {"UM_RECVD", "LINK_REQ", "C_RPLYTMO"} = {}
        /\ InFlight("P")' = InFlight("P") \union g
    BY <2>3, <2>5
  <2>. QED BY <1>2, <2>1, <2>3, <2>4, <2>6, PrimaryAside
<1>5. ASSUME NEW g \in SUBSET Flag, ev' = Broadcast("P", g), UNCHANGED <<tx, api, chan>>,
             g \intersect {"UM_RECVD", "LINK_REQ", "C_RPLYTMO"} = {},
             NEW z2, st' = [st EXCEPT !["P"] = z2],
             z2.pri = st["P"].pri, z2.mode = st["P"].mode, z2.rx_fn = st["P"].rx_fn,
             z2.connected_count = st["P"].connected_count, z2.c_peer = st["P"].c_peer,
             z2.f_rcved = st["P"].f_rcved,
             NEW p2, pr' = [pr EXCEPT !["P"] = p2],
             \A r \in Secs : Alike(pr["P"][r], p2[r])
      PROVE  OneLink'
  <2>1. /\ \A r \in Station \ {"P"} : ev'[r] = ev[r]
        /\ ev'["P"].flags = ev["P"].flags \union g
        /\ ev["P"].pending => ev'["P"].pending
        /\ g # {} => ev'["P"].pending
    <3>1. PICK e : e = Broadcast("P", g)
      OBVIOUS
    <3>2. /\ \A r \in Station \ {"P"} : e[r] = ev[r]
          /\ e["P"].flags = ev["P"].flags \union g
          /\ ev["P"].pending => e["P"].pending
          /\ g # {} => e["P"].pending
      BY <3>1, PrimaryPeers, BroadcastDoes
    <3>3. ev' = e
      BY <1>5, <3>1
    <3>. QED BY <3>2, <3>3
  <2>2. /\ st'["P"] = z2 /\ pr'["P"] = p2
        /\ \A r \in Station \ {"P"} : st'[r] = st[r] /\ pr'[r] = pr[r]
    BY <1>1, <1>5 DEF Table
  <2>3. OnlyAt("P")
    BY <1>5, <2>1, <2>2 DEF OnlyAt
  <2>4. InFlight("P")' = InFlight("P") \union g /\ Hand("P")'
    BY <1>3, <1>5, <2>1 DEF InFlight, Hand
  <2>5. PICK z : z = st["P"]
    OBVIOUS
  <2>6. z2 = st'["P"] /\ chan' = chan /\ api'["P"] = api["P"] /\ tx'["P"].pc = tx["P"].pc
        /\ \A r \in Secs : Alike(pr["P"][r], pr'["P"][r])
    BY <1>5, <2>2
  <2>. QED BY <1>5, <2>3, <2>4, <2>5, <2>6, PrimaryAside
<1>6. CASE RxIdle("P")
  <2>. DEFINE y == [st["P"] EXCEPT !.idl = TRUE]
  <2>1. /\ st' = [st EXCEPT !["P"] = y] /\ ev' = Broadcast("P", {"LINE_IDLE"})
        /\ UNCHANGED <<pr, tx, api, chan>>
    BY <1>6 DEF RxIdle
  <2>2. /\ y.pri = st["P"].pri /\ y.mode = st["P"].mode /\ y.rx_fn = st["P"].rx_fn
        /\ y.connected_count = st["P"].connected_count /\ y.c_peer = st["P"].c_peer
        /\ y.f_rcved = st["P"].f_rcved
    BY <1>1 DEF StationState
  <2>3. pr' = [pr EXCEPT !["P"] = pr["P"]]
    BY <1>1, <2>1 DEF Table
  <2>4. {"LINE_IDLE"} \in SUBSET Flag
        /\ {"LINE_IDLE"} \intersect {"UM_RECVD", "LINK_REQ", "C_RPLYTMO"} = {}
    BY DEF Flag
  <2>. HIDE DEF y
  <2>. QED BY <1>2, <1>5, <2>1, <2>2, <2>3, <2>4, Zenon
<1>7. ASSUME NEW q \in Secs, T3Expire("P", q) PROVE OneLink'
  <2>. DEFINE v == [pr["P"][q] EXCEPT !.t3 = "expired"]
              p2 == [pr["P"] EXCEPT ![q] = v]
  <2>1. /\ pr' = [pr EXCEPT !["P"] = p2] /\ ev' = Broadcast("P", {"T3_TMO"})
        /\ UNCHANGED <<st, tx, api, chan>>
    BY <1>7 DEF T3Expire
  <2>2. Alike(pr["P"][q], v)
    BY <1>1 DEF Alike, PeerState
  <2>. HIDE DEF v
  <2>3. \A r \in Secs : Alike(pr["P"][r], p2[r])
    BY <1>1, <1>2, <2>2
  <2>4. st' = [st EXCEPT !["P"] = st["P"]]
    BY <1>1, <2>1, Zenon DEF Table
  <2>5. {"T3_TMO"} \in SUBSET Flag
        /\ {"T3_TMO"} \intersect {"UM_RECVD", "LINK_REQ", "C_RPLYTMO"} = {}
    BY DEF Flag
  <2>. HIDE DEF p2
  <2>. QED BY <1>5, <2>1, <2>3, <2>4, <2>5, Zenon
<1>. QED BY <1>4, <1>6, <1>7

\* A frame is lost, at any station.
LEMMA LoseKept ==
    ASSUME Typed, OneLink, NEW s \in Station, Lose(s), link' = link
    PROVE  OneLink'
<1>1. /\ chan[s] # << >> /\ chan' = [chan EXCEPT ![s] = Tail(@)]
      /\ UNCHANGED <<st, pr, tx, ev, api>>
  BY DEF Lose
<1>2. chan \in [Station -> Seq(LineFrame)]
  BY DEF Typed, Line
<1>3. chan'[s] = Tail(chan[s]) /\ \A r \in Station \ {s} : chan'[r] = chan[r]
  BY <1>1, <1>2
<1>4. /\ Orders(chan[s]) => Orders(chan'[s])
      /\ Answers(chan[s]) => Answers(chan'[s])
      /\ Supervisory(chan[s]) => Supervisory(chan'[s])
  BY <1>1, <1>2, <1>3, HeadFacts
<1>5. LineOK(link, chan')
  <2>1. Answers(chan'["P"])
    BY <1>3, <1>4, PrimaryPeers DEF OneLink, LineOK
  <2>2. \A r \in Secs : Orders(chan'[r])
    BY <1>3, <1>4, PrimaryPeers DEF OneLink, LineOK
  <2>3. \A r \in Secs \ link.called : chan'[r] = << >>
    <3>1. \A r \in Secs \ link.called : r \in Station \ {s}
      BY <1>1, PrimaryPeers DEF OneLink, LineOK
    <3>. QED BY <1>3, <3>1 DEF OneLink, LineOK
  <2>. QED BY <2>1, <2>2, <2>3 DEF LineOK
<1>6. \A q \in Secs : Supervisory(chan[q]) /\ Supervisory(chan["P"])
                         => Supervisory(chan'[q]) /\ Supervisory(chan'["P"])
  BY <1>3, <1>4, PrimaryPeers
<1>7. Primary(link, st["P"], pr["P"], api["P"], InFlight("P"), chan', pr)
  BY <1>6, PrimaryLine DEF OneLink
<1>. QED BY <1>1, <1>5, <1>7, Zenon DEF OneLink, InFlight, Hand

-----------------------------------------------------------------------------
(* Steps of a secondary.                                                   *)

\* What a handler of a secondary s leaves: the line ch, the flags f.
AtSecondary(l, s, c, ch, f) ==
    /\ Sound(s, c)
    /\ LineOK(l, ch)
    /\ \A r \in Secs \ {s} : ch[r] = chan[r]
    /\ Secondary(c.x, c.p["P"], api[s]["P"], f)
    /\ s \notin l.called => ~c.p["P"].rcved
    /\ Quiet(s) => Supervisory(ch[s]) /\ Supervisory(ch["P"]) /\ ~c.p["P"].rcved

LEMMA SecondaryStored ==
    ASSUME Typed, NEW l, Ends(l), NEW s \in Secs, NEW c,
           AtSecondary(l, s, c, chan', InFlight(s)'),
           OnlyAt(s), st'[s] = c.x, pr'[s] = c.p, api' = Notified(s, c.app), Hand(s)'
    PROVE  Moved(l, s)
<1>1. s \in Station /\ PeerSet(s) = {"P"}
  BY PrimaryPeers
<1>2. api[s]["P"].pc = "idle"
  BY DEF Ends, Secondary
<1>3. api'[s] = api[s]
  <2>1. c.app \in SUBSET AppFlag
    BY <1>1, SoundFacts DEF AtSecondary
  <2>2. \A q \in PeerSet(s) : api[s][q].pc = "idle"
    BY <1>1, <1>2
  <2>3. Notified(s, c.app)[s] = api[s]
    BY <1>1, <2>1, <2>2, NobodyTold
  <2>. QED BY <2>3
<1>4. Secondary(st[s], pr[s]["P"], api[s]["P"], InFlight(s))'
  BY <1>3 DEF AtSecondary
<1>5. s \notin l.called => ~pr'[s]["P"].rcved
  BY DEF AtSecondary
<1>6. Quiet(s) => Quiet(s)'
  BY DEF AtSecondary, Quiet
<1>7. LineOK(l, chan') /\ \A r \in Secs \ {s} : chan'[r] = chan[r]
  BY DEF AtSecondary
<1>. QED BY <1>4, <1>5, <1>6, <1>7, Zenon DEF Moved

\* A response joins the frames on their way to the primary.
Answered(ch, m) == [ch EXCEPT !["P"] = Append(@, m)]

LEMMA ResponseQueued ==
    ASSUME NEW l, NEW ch \in Line, LineOK(l, ch), NEW m \in LineFrame, ~m.cmd,
           m.type \in {"RR", "UA", "DM"}, NEW ch2, ch2 = Answered(ch, m)
    PROVE  /\ LineOK(l, ch2) /\ \A r \in Secs : ch2[r] = ch[r]
           /\ m.type = "RR" /\ Supervisory(ch["P"]) => Supervisory(ch2["P"])
<1>1. "P" \in Station /\ "P" \notin Secs /\ \A r \in Secs : r \in Station
  BY PrimaryPeers
<1>2. ch["P"] \in Seq(LineFrame)
  BY <1>1 DEF Line
<1>3. ch2["P"] = Append(ch["P"], m) /\ \A r \in Secs : ch2[r] = ch[r]
  BY <1>1 DEF Line, Answered
<1>4. Answers(ch2["P"]) /\ (m.type = "RR" /\ Supervisory(ch["P"]) => Supervisory(ch2["P"]))
  BY <1>2, <1>3, QueueFacts, SMTT(30) DEF LineOK
<1>. QED BY <1>3, <1>4 DEF LineOK

LEMMA ServeResponseDoes ==
    ASSUME NEW s \in Station, NEW c, Sound(s, c), NEW q, q = c.x.c_peer,
           c.to = "on", c.p[q].rcved, NEW d, d = ServeResponse(s, c),
           NEW k, k = [type |-> c.p[q].um_rsp, cmd |-> FALSE, pf |-> c.x.p_rcved, src |-> s]
    PROVE  /\ d.to = "on" /\ d.cm \subseteq c.cm /\ d.x.pri = c.x.pri
           /\ d.chan = [c.chan EXCEPT ![q] = Append(@, k)]
           /\ ~d.p[q].rcved /\ (d.p[q].sent => c.p[q].sent)
           /\ d.p[q].t1 \in {"off", c.p[q].t1}
           /\ d.p[q].conn => c.p[q].conn /\ d.x.mode = c.x.mode /\ d.x.rx_fn = c.x.rx_fn
           /\ d.x.mode \in {c.x.mode, "NDM", "ADM"}
           /\ c.p[q].um_cmd # "DISC" => d.p[q].conn = c.p[q].conn
<1>. DEFINE m == Send(s, c, c.p[q].um_rsp, FALSE, c.x.p_rcved)
            y == [m.x EXCEPT !.p_rcved = FALSE]
            v == [m.p[q] EXCEPT !.rcved = FALSE]
            left == m.cm \ {"UM_RECVD"}
            p2 == [m.p EXCEPT ![q] = v]
            c1 == [m EXCEPT !.cm = left, !.x = y, !.p = p2]
            g == LeaveMode(SetDisconnected(ResetProtocol(c1, q), q))
            raised == {f \in {"LINK_DOWN"} : c1.p[q].conn}
<1>1. c.x \in StationState(s) /\ q \in PeerSet(s) /\ c.p[q] \in PeerState
      /\ c.p \in [PeerSet(s) -> PeerState]
  BY SoundFacts
<1>2. c.x.p_rcved \in BOOLEAN /\ c.p[q].um_rsp \in {"UA", "DM"} \union UCmd
  BY <1>1 DEF StationState, PeerState, UCmd
<1>3. /\ m.x = c.x /\ m.p = c.p /\ m.cm = c.cm /\ m.app = c.app /\ m.to = c.to
      /\ m.chan = [c.chan EXCEPT ![q] = Append(@, k)]
  <2>1. /\ m.x = c.x /\ m.p = c.p /\ m.cm = c.cm /\ m.app = c.app /\ m.to = c.to
        /\ m.chan = [c.chan EXCEPT ![c.x.c_peer] = Append(@, k)]
    BY DEF Send, Sound, Handled
  <2>. HIDE DEF m
  <2>. QED BY <2>1
<1>4. Sound(s, m)
  BY <1>2, SendSound, Zenon
<1>5. c1 = [m EXCEPT !.cm = @ \ {"UM_RECVD"}, !.p[q].rcved = FALSE, !.x.p_rcved = FALSE]
  <2>. HIDE DEF m
  <2>. QED BY <1>4, Zenon DEF Sound, Handled
<1>6. d = c1 \/ (c.p[q].um_cmd = "DISC" /\ d = ClosePeerOrderly(c1, q))
  <2>. HIDE DEF c1
  <2>. QED BY <1>5, Zenon DEF ServeResponse, m
<1>. HIDE DEF m
<1>7. /\ y \in StationState(s) /\ y.connected_count = c.x.connected_count
      /\ v \in PeerState /\ v.conn = c.p[q].conn /\ ~v.rcved /\ v.sent = c.p[q].sent
      /\ v.t1 = c.p[q].t1 /\ y.pri = c.x.pri /\ y.mode = c.x.mode /\ y.rx_fn = c.x.rx_fn
  BY <1>1, <1>3, ZenonT(40) DEF StationState, PeerState
<1>. HIDE DEF y, v
<1>8. /\ c1.x = y /\ c1.p = p2 /\ c1.cm = left /\ c1.chan = m.chan /\ c1.to = m.to
      /\ c1.app = m.app /\ c1 \in Handled(s)
  BY <1>1, <1>3, <1>4, <1>7, Zenon DEF Sound, Handled
<1>9. p2[q] = v /\ p2 \in [PeerSet(s) -> PeerState]
      /\ \A r \in PeerSet(s) : p2[r].conn = c.p[r].conn
  BY <1>1, <1>3, <1>7
<1>. HIDE DEF c1, p2
<1>10. Sound(s, c1)
  BY <1>7, <1>8, <1>9, StaysSound
<1>11. CASE d = c1
  BY <1>3, <1>7, <1>8, <1>9, <1>11
<1>12. CASE c.p[q].um_cmd = "DISC" /\ d = ClosePeerOrderly(c1, q)
  <2>1. d = Raise(g, raised)
    BY <1>12, Zenon DEF ClosePeerOrderly
  <2>2. PICK n : n = (IF c1.p[q].conn THEN c1.x.connected_count - 1
                      ELSE c1.x.connected_count)
    OBVIOUS
  <2>3. /\ SameRest(c1, g) /\ g.app = c1.app
        /\ g.p = [c1.p EXCEPT ![q] = InitPeer]
        /\ n > 0 => g.x = [c1.x EXCEPT !.connected_count = n]
        /\ ~(n > 0) => /\ g.x.connected_count = n /\ ~g.x.rx_fn
                       /\ g.x.mode = IF c1.x.mode = "NRM" THEN "NDM" ELSE "ADM"
                       /\ g.x.pri = c1.x.pri /\ g.x.c_peer = c1.x.c_peer
                       /\ g.x.p_rcved = c1.x.p_rcved
                       /\ c1.x.f_rcved => g.x.f_rcved
    <3>1. g = LeaveMode(SetDisconnected(ResetProtocol(c1, q), q))
      OBVIOUS
    <3>. HIDE DEF g
    <3>. QED BY <1>1, <1>10, <2>2, <3>1, ClosePeerDoes, SMTT(30)
  <2>4. Sound(s, g)
    BY <1>1, <1>10, ResetProtocolSound, SetDisconnectedSound, LeaveModeSound
  <2>. HIDE DEF g, raised
  <2>5. d.x = g.x /\ d.p = g.p /\ d.cm = g.cm /\ d.chan = g.chan /\ d.to = g.to
    BY <2>1, <2>4 DEF Raise, Sound, Handled
  <2>6. d.p[q] = InitPeer
    BY <1>1, <1>8, <1>9, <2>3, <2>5
  <2>7. ~InitPeer.rcved /\ ~InitPeer.sent /\ ~InitPeer.conn /\ InitPeer.t1 = "off"
    BY DEF InitPeer
  <2>8. d.x.pri = c.x.pri /\ d.x.mode \in {c.x.mode, "NDM", "ADM"}
    <3>1. CASE n > 0
      <4>1. g.x.pri = y.pri /\ g.x.mode = y.mode
        BY <1>7, <1>8, <2>3, <3>1 DEF StationState
      <4>. QED BY <1>7, <2>5, <4>1
    <3>2. CASE ~(n > 0)
      BY <1>7, <1>8, <2>3, <2>5, <3>2
    <3>. QED BY <3>1, <3>2
  <2>9. d.to = "on" /\ d.cm = left /\ d.chan = m.chan
    BY <1>3, <1>8, <2>3, <2>5 DEF SameRest
  <2>. QED BY <1>3, <1>12, <2>6, <2>7, <2>8, <2>9
<1>. QED BY <1>6, <1>11, <1>12

LEMMA ContextAtSecondary ==
    ASSUME Typed, NEW l, Ends(l), NEW s \in Secs, NEW c, c = Context(s, tx[s].cm)
    PROVE  /\ AtSecondary(l, s, c, chan, InFlight(s)) /\ c.to = "on" /\ c.app = {}
           /\ c.x = st[s] /\ c.p = pr[s] /\ c.chan = chan /\ c.cm = tx[s].cm
           /\ c.x.c_peer = "P"
<1>1. c.to = "on" /\ c.app = {} /\ c.x = st[s] /\ c.p = pr[s] /\ c.chan = chan
      /\ c.cm = tx[s].cm
  BY DEF Context
<1>2. s \in Station /\ PeerSet(s) = {"P"}
  BY PrimaryPeers
<1>3. Sound(s, c)
  <2>1. tx[s].cm \in SUBSET Flag
    BY <1>2 DEF Typed, Thread
  <2>. QED BY <1>2, <2>1, ContextSound
<1>4. c.x.c_peer = "P"
  BY <1>2, <1>3, SoundFacts
<1>. QED BY <1>1, <1>3, <1>4 DEF AtSecondary, Ends, Quiet

\* The U response of a secondary: afterwards it holds no command.
LEMMA ResponseKept ==
    ASSUME Typed, NEW l, Ends(l), NEW s \in Secs,
           NEW c, AtSecondary(l, s, c, c.chan, ev[s].flags \union c.cm), c.to = "on",
           c.chan = chan, c.p = pr[s], NEW d, d = ServeResponse(s, c)
    PROVE  /\ AtSecondary(l, s, d, d.chan, ev[s].flags \union d.cm) /\ d.to = "on"
           /\ ~d.p["P"].rcved
<1>1. s \in Station /\ PeerSet(s) = {"P"} /\ Sound(s, c) /\ c.x.c_peer = "P"
  <2>1. s \in Station /\ PeerSet(s) = {"P"} /\ Sound(s, c)
    BY PrimaryPeers DEF AtSecondary
  <2>. QED BY <2>1, SoundFacts
<1>2. Sound(s, d)
  BY <1>1, ServeResponseSound
<1>3. CASE ~c.p["P"].rcved
  <2>1. d = c
    BY <1>1, <1>3, Zenon DEF ServeResponse
  <2>. QED BY <1>3, <2>1
<1>4. CASE c.p["P"].rcved
  <2>0. PICK m : m = [type |-> c.p["P"].um_rsp, cmd |-> FALSE, pf |-> c.x.p_rcved, src |-> s]
    BY Zenon
  <2>1. /\ d.to = "on" /\ d.cm \subseteq c.cm /\ d.x.pri = c.x.pri
        /\ d.chan = [c.chan EXCEPT !["P"] = Append(@, m)]
        /\ ~d.p["P"].rcved /\ (d.p["P"].sent => c.p["P"].sent)
        /\ d.p["P"].t1 \in {"off", c.p["P"].t1}
        /\ d.p["P"].conn => c.p["P"].conn /\ d.x.mode = c.x.mode /\ d.x.rx_fn = c.x.rx_fn
        /\ d.x.mode \in {c.x.mode, "NDM", "ADM"}
    <3>1. PICK q : q = c.x.c_peer
      OBVIOUS
    <3>2. c.p[q].rcved
      BY <1>1, <1>4, <3>1
    <3>5. m = [type |-> c.p[q].um_rsp, cmd |-> FALSE, pf |-> c.x.p_rcved, src |-> s]
      BY <1>1, <2>0, <3>1
    <3>3. /\ d.to = "on" /\ d.cm \subseteq c.cm /\ d.x.pri = c.x.pri
          /\ d.chan = [c.chan EXCEPT ![q] = Append(@, m)]
          /\ ~d.p[q].rcved /\ (d.p[q].sent => c.p[q].sent)
          /\ d.p[q].t1 \in {"off", c.p[q].t1}
          /\ d.p[q].conn => c.p[q].conn /\ d.x.mode = c.x.mode /\ d.x.rx_fn = c.x.rx_fn
          /\ d.x.mode \in {c.x.mode, "NDM", "ADM"}
      BY <1>1, <3>1, <3>2, <3>5, ServeResponseDoes
    <3>4. q = "P"
      BY <1>1, <3>1
    <3>. QED BY <3>3, <3>4
  <2>2. /\ ~c.x.pri /\ c.x.mode \in {"NDM", "NRM", "ADM"} /\ ~c.p["P"].sent /\ c.p["P"].t1 = "off"
        /\ c.p["P"].conn => c.x.mode = "NRM" /\ c.x.rx_fn
        /\ c.p["P"].um_rsp # "none" /\ api[s]["P"].pc = "idle"
        /\ "LINK_REQ" \notin ev[s].flags \union c.cm
        /\ "C_RPLYTMO" \notin ev[s].flags \union c.cm
        /\ LineOK(l, c.chan) /\ s \in l.called
    BY <1>4 DEF AtSecondary, Secondary
  <2>3. m \in LineFrame /\ ~m.cmd /\ m.type \in {"RR", "UA", "DM"}
    <3>1. c.x \in StationState(s) /\ c.p["P"] \in PeerState
      BY <1>1, SoundFacts
    <3>2. c.x.p_rcved \in BOOLEAN /\ c.p["P"].um_rsp \in {"UA", "DM"}
      BY <2>2, <3>1 DEF StationState, PeerState
    <3>. QED BY <1>1, <2>0, <3>2 DEF LineFrame
  <2>4. LineOK(l, d.chan) /\ \A r \in Secs : d.chan[r] = c.chan[r]
    <3>1. c.chan \in Line
      BY <1>1, SoundFacts
    <3>2. d.chan = Answered(c.chan, m)
      BY <2>1 DEF Answered
    <3>. QED BY <2>2, <2>3, <3>1, <3>2, ResponseQueued
  <2>5. Secondary(d.x, d.p["P"], api[s]["P"], ev[s].flags \union d.cm)
    BY <2>1, <2>2 DEF Secondary
  <2>6. ~Quiet(s)
    BY <1>4 DEF Quiet
  <2>7. \A r \in Secs \ {s} : d.chan[r] = chan[r]
    BY <2>4
  <2>. QED BY <1>2, <2>1, <2>4, <2>5, <2>6, <2>7 DEF AtSecondary
<1>. QED BY <1>3, <1>4

\* A round of the TX thread of a secondary.
LEMMA ServeSecondary ==
    ASSUME Typed, NEW l, Ends(l), NEW s \in Secs, TxServe(s)
    PROVE  Moved(l, s)
<1>. DEFINE c0 == Context(s, tx[s].cm)
            c1 == ServeCommand(s, c0)
            c2 == ServeResponse(s, c1)
            c3 == ServeDisconnected(s, c2)
            d == ServeTimers(c3)
<1>1. s \in Station /\ PeerSet(s) = {"P"}
  BY PrimaryPeers
<1>2. /\ AtSecondary(l, s, c0, chan, InFlight(s)) /\ c0.to = "on" /\ c0.app = {}
      /\ c0.p = pr[s] /\ c0.chan = chan /\ c0.cm = tx[s].cm /\ c0.x.c_peer = "P"
  BY ContextAtSecondary
<1>3. /\ tx[s].pc = "serve"
      /\ Store(s, d)
      /\ tx' = [tx EXCEPT ![s] =
                   [pc |-> IF d.to = "tail" THEN "tail"
                           ELSE IF d.cm = {} THEN "wait" ELSE "serve",
                    cm |-> d.cm]]
      /\ UNCHANGED <<ev, used>>
  BY <1>1, TxServeRound DEF Round
<1>. HIDE DEF c0
<1>4. AtSecondary(l, s, c0, c0.chan, ev[s].flags \union c0.cm)
  BY <1>2 DEF InFlight
<1>5. c1 = c0
  <2>1. "LINK_REQ" \notin c0.cm /\ ~c0.p[c0.x.c_peer].sent
    BY <1>2, <1>4 DEF AtSecondary, Secondary
  <2>. QED BY <2>1, Zenon DEF ServeCommand
<1>. HIDE DEF c1
<1>6. /\ AtSecondary(l, s, c2, c2.chan, ev[s].flags \union c2.cm) /\ c2.to = "on"
      /\ ~c2.p["P"].rcved
  BY <1>2, <1>4, <1>5, ResponseKept
<1>. HIDE DEF c2
<1>7. Sound(s, c2) /\ c2.x.c_peer = "P"
  BY <1>1, <1>6, SoundFacts DEF AtSecondary
<1>8. Sound(s, c3) /\ Sound(s, d)
  BY <1>7, <1>1, ServeDisconnectedSound, ServeTimersSound
<1>9. SameLink(s, c2, c3) /\ c3.cm \subseteq c2.cm \union {"LINK_ST_CHG"}
  <2>1. \A v, free : v = c2.p[c2.x.c_peer]
            /\ (free <=> c2.x.pri /\ ~v.conn /\ v.um_cmd = "none" /\ ~v.sent)
            => SameLink(s, c2, c3) /\ c3.cm \subseteq c2.cm \union {"LINK_ST_CHG"}
    BY <1>1, <1>7, ServeDisconnectedDoes
  <2>. QED BY <2>1, Zenon
<1>. HIDE DEF c3
<1>10. "C_RPLYTMO" \notin c3.cm /\ c3.x.c_peer = "P"
  <2>1. c3.x.c_peer = "P"
    BY <1>1, <1>8, SoundFacts
  <2>. QED BY <1>6, <1>9, <2>1 DEF AtSecondary, Secondary
<1>11. SameLink(s, c3, d) /\ d.cm \subseteq c3.cm
  <2>1. \A q, late : q = c3.x.c_peer
            /\ (late <=> c3.to = "on" /\ c3.x.mode \in {"NRM", "ABM"} /\ "C_RPLYTMO" \in c3.cm
                         /\ c3.p[q].t1 = "expired" /\ Exhausted(c3, q))
            => /\ ~late => SameLink(s, c3, d) /\ d.x.c_peer = q
               /\ d.cm \subseteq c3.cm
    BY <1>1, <1>8, ServeTimersDoes
  <2>. QED BY <1>10, <2>1, Zenon
<1>. HIDE DEF d
<1>12. /\ d.x.pri = c2.x.pri /\ d.x.mode = c2.x.mode /\ d.x.rx_fn = c2.x.rx_fn
       /\ Alike(c2.p["P"], d.p["P"]) /\ d.chan = c2.chan
       /\ d.cm \subseteq c2.cm \union {"LINK_ST_CHG"}
  <2>1. Alike(c2.p["P"], c3.p["P"]) /\ Alike(c3.p["P"], d.p["P"])
    BY <1>1, <1>9, <1>11 DEF SameLink
  <2>2. Alike(c2.p["P"], d.p["P"])
    BY <2>1 DEF Alike
  <2>. QED BY <1>9, <1>11, <2>2 DEF SameLink
<1>13. AtSecondary(l, s, d, d.chan, ev[s].flags \union d.cm)
  <2>1. /\ d.p["P"].conn = c2.p["P"].conn /\ d.p["P"].sent = c2.p["P"].sent
        /\ ~d.p["P"].rcved /\ d.p["P"].t1 = c2.p["P"].t1
    BY <1>6, <1>12 DEF Alike
  <2>2. Secondary(d.x, d.p["P"], api[s]["P"], ev[s].flags \union d.cm)
    BY <1>6, <1>12, <2>1 DEF AtSecondary, Secondary
  <2>. QED BY <1>6, <1>8, <1>12, <2>1, <2>2 DEF AtSecondary
<1>14. /\ tx'[s].pc = (IF d.to = "tail" THEN "tail" ELSE IF d.cm = {} THEN "wait" ELSE "serve")
       /\ tx'[s].cm = d.cm /\ ev' = ev
       /\ \A r \in Station \ {s} : tx'[r] = tx[r]
  <2>1. tx \in [Station -> Thread]
    BY DEF Typed
  <2>. QED BY <1>1, <1>3, <2>1
<1>15. /\ st' = [st EXCEPT ![s] = d.x] /\ pr' = [pr EXCEPT ![s] = d.p]
       /\ api' = Notified(s, d.app) /\ chan' = d.chan
  BY <1>3 DEF Store
<1>16. OnlyAt(s) /\ st'[s] = d.x /\ pr'[s] = d.p
  <2>1. \A r \in Station \ {s} : tx'[r] = tx[r] /\ ev'[r] = ev[r]
    BY <1>14
  <2>. QED BY <1>1, <1>8, <1>15, <2>1, Stored, Zenon
<1>17. Hand(s)'
  <2>1. Hand(s)
    BY <1>1 DEF Ends
  <2>. QED BY <1>14, <2>1 DEF Hand
<1>18. AtSecondary(l, s, d, chan', InFlight(s)')
  BY <1>13, <1>14, <1>15 DEF InFlight
<1>. QED BY <1>15, <1>16, <1>17, <1>18, SecondaryStored

\* An RR that answers, or nothing.
LEMMA TailSentSecondary ==
    ASSUME Typed, NEW l, Ends(l), NEW s \in Secs, NEW c, c = Context(s, tx[s].cm),
           NEW d, d = TailSent(s)
    PROVE  /\ d.x.pri = c.x.pri /\ d.x.mode = c.x.mode /\ d.x.rx_fn = c.x.rx_fn
           /\ d.p = c.p
           /\ d.chan = chan \/ \E m \in LineFrame :
                 ~m.cmd /\ m.type = "RR" /\ d.chan = Answered(chan, m)
<1>. DEFINE cmd == IsCommand(c.x)
            pf == IF cmd THEN c.x.f_rcved ELSE c.x.p_rcved
            sent == Send(s, c, "RR", cmd, pf)
            r2 == [sent EXCEPT !.x.p_rcved = FALSE]
            y == [sent.x EXCEPT !.p_rcved = FALSE]
            m == [type |-> "RR", cmd |-> cmd, pf |-> pf, src |-> s]
<1>1. /\ Sound(s, c) /\ c.chan = chan /\ c.x.c_peer = "P" /\ s \in Station
      /\ ~c.x.pri /\ c.x.mode # "ABM" /\ c.x \in StationState(s)
  <2>1. Sound(s, c) /\ c.chan = chan /\ c.x.c_peer = "P" /\ ~c.x.pri /\ c.x.mode # "ABM"
    BY ContextAtSecondary DEF AtSecondary, Secondary
  <2>. QED BY <2>1, PrimaryPeers, SoundFacts
<1>2. ~cmd /\ cmd \in BOOLEAN
  BY <1>1 DEF IsCommand, StationState
<1>3. d = c \/ d = sent \/ d = r2
  BY <1>2, Zenon DEF TailSent
<1>. HIDE DEF cmd
<1>4. pf \in BOOLEAN
  BY <1>1, <1>2 DEF StationState
<1>. HIDE DEF pf
<1>5. m \in LineFrame /\ ~m.cmd /\ m.type = "RR"
  BY <1>1, <1>2, <1>4 DEF LineFrame
<1>6. /\ sent.x = c.x /\ sent.p = c.p /\ sent.chan = Answered(chan, m)
      /\ Sound(s, sent)
  <2>1. Sound(s, sent)
    <3>1. \A k \in BOOLEAN : \A b \in BOOLEAN : \A e : e = Send(s, c, "RR", k, b) => Sound(s, e)
      BY <1>1, SendSound, Zenon
    <3>. QED BY <1>2, <1>4, <3>1, Zenon
  <2>2. sent.x = c.x /\ sent.p = c.p /\ sent.chan = [c.chan EXCEPT ![c.x.c_peer] = Append(@, m)]
    BY <1>1 DEF Send, Sound, Handled
  <2>. HIDE DEF sent, m
  <2>. QED BY <1>1, <2>1, <2>2 DEF Answered
<1>. HIDE DEF sent, m
<1>7. r2.x = y /\ r2.p = sent.p /\ r2.chan = sent.chan
  BY <1>6 DEF Sound, Handled
<1>8. y.pri = c.x.pri /\ y.mode = c.x.mode /\ y.rx_fn = c.x.rx_fn
  BY <1>1, <1>6 DEF StationState
<1>. HIDE DEF r2, y
<1>9. CASE d = c
  BY <1>1, <1>9
<1>10. CASE d = sent
  BY <1>5, <1>6, <1>10
<1>11. CASE d = r2
  BY <1>5, <1>6, <1>7, <1>8, <1>11
<1>. QED BY <1>3, <1>9, <1>10, <1>11

LEMMA TailSecondary ==
    ASSUME Typed, NEW l, Ends(l), NEW s \in Secs, TxTail(s)
    PROVE  Moved(l, s)
<1>. DEFINE d == TailLeft(s)
            cm1 == (tx[s].cm \union ev[s].flags) \ {"PF_RECVD"}
<1>c. PICK c : c = Context(s, tx[s].cm)
  OBVIOUS
<1>1. /\ AtSecondary(l, s, c, chan, InFlight(s)) /\ c.x = st[s] /\ c.p = pr[s]
      /\ s \in Station
  BY <1>c, ContextAtSecondary, PrimaryPeers
<1>2. /\ tx[s].pc = "tail"
      /\ Store(s, d)
      /\ ev' = [ev EXCEPT ![s].flags = {}]
      /\ tx' = [tx EXCEPT ![s] = [pc |-> IF cm1 = {} THEN "wait" ELSE "serve", cm |-> cm1]]
  BY <1>1, TxTailLeft, Zenon
<1>3. PICK e : e = TailSent(s)
  OBVIOUS
<1>4. /\ e.x.pri = c.x.pri /\ e.x.mode = c.x.mode /\ e.x.rx_fn = c.x.rx_fn
      /\ e.p = c.p
      /\ e.chan = chan \/ \E m \in LineFrame :
            ~m.cmd /\ m.type = "RR" /\ e.chan = Answered(chan, m)
  BY <1>c, <1>3, TailSentSecondary
<1>5. d = e
  <2>1. ~e.x.pri
    BY <1>1, <1>4 DEF AtSecondary, Secondary
  <2>. QED BY <1>3, <2>1, Zenon DEF TailLeft
<1>6. Sound(s, d)
  BY <1>1, TailLeftSound
<1>7. /\ tx'[s].pc = (IF cm1 = {} THEN "wait" ELSE "serve") /\ tx'[s].cm = cm1
      /\ ev'[s].flags = {}
      /\ \A r \in Station \ {s} : tx'[r] = tx[r] /\ ev'[r] = ev[r]
  <2>1. tx \in [Station -> Thread] /\ ev \in [Station -> Events]
    BY DEF Typed
  <2>2. ev[s] \in Events
    BY <1>1, <2>1
  <2>. HIDE DEF cm1
  <2>. QED BY <1>1, <1>2, <2>1, <2>2 DEF Events
<1>8. InFlight(s)' = InFlight(s) \ {"PF_RECVD"}
  BY <1>7 DEF InFlight
<1>9. Hand(s)'
  BY <1>7 DEF Hand
<1>. HIDE DEF d, cm1
<1>10. /\ LineOK(l, d.chan) /\ \A r \in Secs : d.chan[r] = chan[r]
       /\ Supervisory(chan["P"]) => Supervisory(d.chan["P"])
  <2>1. chan \in Line /\ LineOK(l, chan)
    BY DEF Typed, Ends
  <2>2. ASSUME NEW m \in LineFrame, ~m.cmd, m.type = "RR",
               NEW ch2, ch2 = Answered(chan, m)
        PROVE  /\ LineOK(l, ch2) /\ \A r \in Secs : ch2[r] = chan[r]
               /\ Supervisory(chan["P"]) => Supervisory(ch2["P"])
    <3>1. m.type \in {"RR", "UA", "DM"}
      BY <2>2
    <3>2. /\ LineOK(l, ch2) /\ \A r \in Secs : ch2[r] = chan[r]
          /\ m.type = "RR" /\ Supervisory(chan["P"]) => Supervisory(ch2["P"])
      BY <2>1, <2>2, <3>1, ResponseQueued
    <3>. QED BY <2>2, <3>2
  <2>3. CASE d.chan = chan
    BY <2>1, <2>3
  <2>. QED BY <1>4, <1>5, <2>2, <2>3
<1>11. AtSecondary(l, s, d, d.chan, InFlight(s)')
  <2>1. Secondary(d.x, d.p["P"], api[s]["P"], InFlight(s)')
    BY <1>1, <1>4, <1>5, <1>8 DEF AtSecondary, Secondary
  <2>2. Quiet(s) => /\ Supervisory(d.chan[s]) /\ Supervisory(d.chan["P"]) /\ ~d.p["P"].rcved
    BY <1>1, <1>4, <1>5, <1>10 DEF Quiet
  <2>. QED BY <1>1, <1>4, <1>5, <1>6, <1>10, <2>1, <2>2 DEF AtSecondary
<1>12. /\ st' = [st EXCEPT ![s] = d.x] /\ pr' = [pr EXCEPT ![s] = d.p]
       /\ api' = Notified(s, d.app) /\ chan' = d.chan
  BY <1>2 DEF Store
<1>13. OnlyAt(s) /\ st'[s] = d.x /\ pr'[s] = d.p
  BY <1>1, <1>6, <1>7, <1>12, Stored, Zenon
<1>14. AtSecondary(l, s, d, chan', InFlight(s)')
  BY <1>11, <1>12
<1>. QED BY <1>9, <1>12, <1>13, <1>14, SecondaryStored

-----------------------------------------------------------------------------
(* What a secondary receives.                                              *)

\* The end of a command: it is held, with its response.
Noted(c, q, rsp) ==
    [c EXCEPT !.p[q].rcved = TRUE, !.cm = {"UM_RECVD"}, !.p[q].um_rsp = rsp]

LEMMA NotedDoes ==
    ASSUME NEW s \in Station, NEW c, Sound(s, c), NEW q \in PeerSet(s), NEW rsp,
           NEW d, d = Noted(c, q, rsp)
    PROVE  /\ d.cm = {"UM_RECVD"} /\ d.x = c.x
           /\ d.p[q].rcved /\ d.p[q].um_rsp = rsp /\ d.p[q].conn = c.p[q].conn
           /\ d.p[q].sent = c.p[q].sent /\ d.p[q].t1 = c.p[q].t1
           /\ d.p[q].um_cmd = c.p[q].um_cmd
<1>. DEFINE w == [c.p[q] EXCEPT !.rcved = TRUE, !.um_rsp = rsp]
            p2 == [c.p EXCEPT ![q].rcved = TRUE, ![q].um_rsp = rsp]
<1>1. c.p[q] \in PeerState /\ c.p \in [PeerSet(s) -> PeerState]
  BY SoundFacts
<1>2. d = [c EXCEPT !.cm = {"UM_RECVD"}, !.p = p2]
  BY <1>1, Zenon DEF Noted, Sound, Handled
<1>3. p2 = [c.p EXCEPT ![q] = w]
  BY <1>1, Zenon
<1>4. w.rcved /\ w.um_rsp = rsp /\ w.conn = c.p[q].conn /\ w.sent = c.p[q].sent
      /\ w.t1 = c.p[q].t1 /\ w.um_cmd = c.p[q].um_cmd
  BY <1>1 DEF PeerState
<1>. HIDE DEF w, p2
<1>5. d.x = c.x /\ d.p = p2 /\ d.cm = {"UM_RECVD"}
  BY <1>2 DEF Sound, Handled
<1>6. d.p[q] = w
  BY <1>1, <1>3, <1>5
<1>. QED BY <1>4, <1>5, <1>6

\* A set-mode command resets the peer and connects it in NRM.
LEMMA SetModeDoes ==
    ASSUME NEW s \in Station, NEW c, Sound(s, c), NEW q \in PeerSet(s),
           NEW c2, c2 = [c EXCEPT !.x = ApplyMode([@ EXCEPT !.mode = "NRM"], "NRM")],
           NEW d, d = Raise(SetConnected(ResetVars(c2, q), q), {"LINK_UP"})
    PROVE  /\ Sound(s, d) /\ d.x.mode = "NRM" /\ d.x.rx_fn /\ d.x.pri = c.x.pri
           /\ d.p[q].conn /\ ~d.p[q].sent /\ d.p[q].t1 = "off" /\ d.p[q].um_cmd = "none"
<1>. DEFINE y == [c.x EXCEPT !.mode = "NRM"]
            z == ApplyMode(y, "NRM")
            c3 == ResetVars(c2, q)
            e == SetConnected(c3, q)
<1>1. c.p \in [PeerSet(s) -> PeerState] /\ c.x \in StationState(s)
  BY SoundFacts
<1>2. y \in StationState(s) /\ y.connected_count = c.x.connected_count
      /\ y.mode = "NRM" /\ y.pri = c.x.pri
  BY <1>1 DEF StationState
<1>3. c2 = [c EXCEPT !.x = z]
  OBVIOUS
<1>. HIDE DEF y
<1>4. z \in StationState(s) /\ z.mode = "NRM" /\ z.pri = c.x.pri /\ z.rx_fn
  <2>1. z \in StationState(s)
    BY <1>2, ApplyModeType
  <2>2. c.x.pri \in BOOLEAN
    BY <1>1 DEF StationState
  <2>. QED BY <1>2, <2>1, <2>2, Zenon DEF ApplyMode, StationState
<1>. HIDE DEF z
<1>5. Sound(s, c2)
  <2>1. \A m \in {"NRM", "ABM"} : \A g :
           g = [c EXCEPT !.x = ApplyMode([@ EXCEPT !.mode = m], m)] => Sound(s, g)
    BY NewModeSound, Zenon
  <2>. QED BY <2>1
<1>6. c2.x = z
  BY <1>3 DEF Sound, Handled
<1>7. Sound(s, c3) /\ Sound(s, e) /\ Sound(s, d)
  <2>1. Sound(s, c3) /\ Sound(s, e)
    BY <1>5, ResetVarsSound, SetConnectedSound
  <2>2. {"LINK_UP"} \in SUBSET AppFlag
    BY DEF AppFlag
  <2>. QED BY <2>1, <2>2, RaiseSound
<1>8. c3 = [c2 EXCEPT !.p[q] = InitPeer]
  BY DEF ResetVars
<1>16. d = Raise(e, {"LINK_UP"})
  OBVIOUS
<1>. HIDE DEF c3
<1>9. c3.x = z /\ c3.p[q] = InitPeer /\ c3.p \in [PeerSet(s) -> PeerState]
  <2>1. c2.p \in [PeerSet(s) -> PeerState]
    BY <1>5, SoundFacts
  <2>2. c3.x = c2.x /\ c3.p = [c2.p EXCEPT ![q] = InitPeer]
    BY <1>5, <1>8 DEF Sound, Handled
  <2>3. c3.p \in [PeerSet(s) -> PeerState]
    BY <1>7, SoundFacts
  <2>. QED BY <1>6, <2>1, <2>2, <2>3
<1>10. PICK n : n = (IF c3.p[q].conn THEN c3.x.connected_count ELSE c3.x.connected_count + 1)
  BY SMTT(30)
<1>11. e.x = [z EXCEPT !.connected_count = n] /\ e.p = [c3.p EXCEPT ![q].conn = TRUE]
  BY <1>7, <1>9, <1>10, Zenon DEF SetConnected, Sound, Handled
<1>. HIDE DEF e
<1>12. d.x = e.x /\ d.p = e.p
  BY <1>7, <1>16, Zenon DEF Raise, Sound, Handled
<1>13. d.x.mode = "NRM" /\ d.x.rx_fn /\ d.x.pri = c.x.pri
  BY <1>4, <1>11, <1>12 DEF StationState
<1>14. d.p[q] = [InitPeer EXCEPT !.conn = TRUE]
  BY <1>9, <1>11, <1>12, Zenon
<1>15. d.p[q].conn /\ ~d.p[q].sent /\ d.p[q].t1 = "off" /\ d.p[q].um_cmd = "none"
  BY <1>14 DEF InitPeer
<1>. QED BY <1>7, <1>13, <1>15

LEMMA RecvCommandDoes ==
    ASSUME NEW s \in Station, NEW c, Sound(s, c), NEW q, q = c.x.c_peer,
           NEW m \in LineFrame, m.type \in {"SNRM", "DISC"}, ~c.p[q].rcved,
           NEW d, d = RecvCommand(c, m)
    PROVE  /\ d.cm = {"UM_RECVD"} /\ d.x.pri = c.x.pri
           /\ d.p[q].rcved /\ d.p[q].um_rsp \in {"UA", "DM"}
           /\ d.p[q].sent => c.p[q].sent
           /\ d.p[q].t1 \in {"off", c.p[q].t1}
           /\ \/ d.x.mode = "NRM" /\ d.x.rx_fn
              \/ d.x.mode = c.x.mode /\ d.x.rx_fn = c.x.rx_fn /\ d.p[q].conn = c.p[q].conn
           /\ m.type = "SNRM" => d.p[q].conn /\ d.p[q].um_cmd = "none"
<1>. DEFINE disc == c.x.mode \in {"NDM", "ADM"}
            v == [c.p[q] EXCEPT !.um_cmd = m.type]
            b == c.x.p_rcved \/ m.pf
            y == [c.x EXCEPT !.p_rcved = b]
            c1 == [c EXCEPT !.p[q].um_cmd = m.type, !.x.p_rcved = @ \/ m.pf]
            c2 == [c1 EXCEPT !.x = ApplyMode([@ EXCEPT !.mode = "NRM"], "NRM")]
            c3 == Raise(SetConnected(ResetVars(c2, q), q), {"LINK_UP"})
            c4 == IF m.type = "DISC" THEN c1 ELSE c3
            rsp == IF m.type = "DISC" /\ disc THEN "DM" ELSE "UA"
<1>1. c.x \in StationState(s) /\ q \in PeerSet(s) /\ c.p[q] \in PeerState
      /\ c.p \in [PeerSet(s) -> PeerState]
  BY SoundFacts
<1>2. m.type \in UCmd
  BY DEF UCmd
<1>3. b \in BOOLEAN
  OBVIOUS
<1>4. c1 = [c EXCEPT !.x = y, !.p = [c.p EXCEPT ![q] = v]]
  BY Zenon DEF Sound, Handled
<1>5. d = Noted(c4, q, rsp)
  <2>. DEFINE mode == IF m.type = "SNRM" THEN "NRM" ELSE "ABM"
              c2m == [c1 EXCEPT !.x = ApplyMode([@ EXCEPT !.mode = mode], mode)]
              c3m == Raise(SetConnected(ResetVars(c2m, q), q), {"LINK_UP"})
              c4m == IF m.type = "DISC" THEN c1 ELSE c3m
  <2>1. d = [c4m EXCEPT !.p[q].rcved = TRUE, !.cm = {"UM_RECVD"}, !.p[q].um_rsp = rsp]
    BY DEF RecvCommand
  <2>2. d = Noted(c4m, q, rsp)
    <3>. HIDE DEF c4m, rsp
    <3>. QED BY <2>1, Zenon DEF Noted
  <2>3. c4m = c4
    <3>1. CASE m.type = "DISC"
      BY <3>1
    <3>2. CASE m.type = "SNRM"
      <4>1. mode = "NRM"
        BY <3>2
      <4>. HIDE DEF mode, c1
      <4>2. c2m = c2
        BY <4>1, Zenon
      <4>. HIDE DEF c2m, c2
      <4>. QED BY <4>2
    <3>. QED BY <3>1, <3>2
  <2>. HIDE DEF c4m, c4
  <2>. QED BY <2>2, <2>3
<1>. HIDE DEF b, c1
<1>6. /\ v \in PeerState /\ v.conn = c.p[q].conn /\ v.sent = c.p[q].sent /\ v.t1 = c.p[q].t1
      /\ y \in StationState(s) /\ y.connected_count = c.x.connected_count
      /\ y.mode = c.x.mode /\ y.rx_fn = c.x.rx_fn /\ y.pri = c.x.pri
  BY <1>1, <1>2, <1>3 DEF PeerState, StationState
<1>. HIDE DEF v, y
<1>7. Sound(s, c1)
  <2>1. Sound(s, [c EXCEPT !.x = y, !.p = [c.p EXCEPT ![q] = v]])
    BY <1>1, <1>6, UpdateSound, Zenon
  <2>. QED BY <1>4, <2>1, Zenon
<1>8. c1.x = y /\ c1.p[q] = v
  <2>1. c1.x = y /\ c1.p = [c.p EXCEPT ![q] = v]
    BY <1>4 DEF Sound, Handled
  <2>. QED BY <1>1, <2>1
<1>9. /\ Sound(s, c3) /\ c3.x.mode = "NRM" /\ c3.x.rx_fn /\ c3.x.pri = c1.x.pri
      /\ c3.p[q].conn /\ ~c3.p[q].sent /\ c3.p[q].t1 = "off" /\ c3.p[q].um_cmd = "none"
  <2>1. PICK g : g = c3
    OBVIOUS
  <2>2. PICK e : e = c2
    BY Zenon
  <2>3. e = [c1 EXCEPT !.x = ApplyMode([@ EXCEPT !.mode = "NRM"], "NRM")]
        /\ g = Raise(SetConnected(ResetVars(e, q), q), {"LINK_UP"})
    BY <2>1, <2>2, Zenon
  <2>. HIDE DEF c2, c3
  <2>4. /\ Sound(s, g) /\ g.x.mode = "NRM" /\ g.x.rx_fn /\ g.x.pri = c1.x.pri
        /\ g.p[q].conn /\ ~g.p[q].sent /\ g.p[q].t1 = "off" /\ g.p[q].um_cmd = "none"
    BY <1>1, <1>7, <2>3, SetModeDoes
  <2>. QED BY <2>1, <2>4
<1>. HIDE DEF c3
<1>10. Sound(s, c4) /\ rsp \in {"UA", "DM"}
  BY <1>7, <1>9
<1>. HIDE DEF c4, rsp
<1>11. /\ d.cm = {"UM_RECVD"} /\ d.x = c4.x
       /\ d.p[q].rcved /\ d.p[q].um_rsp = rsp /\ d.p[q].conn = c4.p[q].conn
       /\ d.p[q].sent = c4.p[q].sent /\ d.p[q].t1 = c4.p[q].t1
       /\ d.p[q].um_cmd = c4.p[q].um_cmd
  BY <1>1, <1>5, <1>10, NotedDoes
<1>12. CASE m.type = "DISC"
  <2>1. c4 = c1
    BY <1>12 DEF c4
  <2>. QED BY <1>6, <1>8, <1>10, <1>11, <1>12, <2>1
<1>13. CASE m.type # "DISC"
  <2>1. c4 = c3
    BY <1>13 DEF c4
  <2>. QED BY <1>6, <1>8, <1>9, <1>10, <1>11, <2>1
<1>. QED BY <1>12, <1>13

LEMMA ReceiveSecondary ==
    ASSUME Typed, NEW l, Ends(l), NEW s \in Secs, RxFrame(s)
    PROVE  Moved(l, s)
<1>. DEFINE m == Head(chan[s])
            c == [Context(s, {}) EXCEPT !.x.idl = FALSE]
            d == Received(s)
            a == api[s]["P"]
            f == InFlight(s)
<1>1. s \in Station /\ PeerSet(s) = {"P"} /\ "P" \in Station \ {s}
  BY PrimaryPeers
<1>2. /\ Sound(s, d) /\ chan[s] # << >> /\ chan[s] \in Seq(LineFrame)
      /\ OnlyAt(s) /\ st'[s] = d.x /\ pr'[s] = d.p
      /\ api' = Notified(s, d.app) /\ tx' = tx
      /\ chan'[s] = Tail(chan[s]) /\ \A r \in Station \ {s} : chan'[r] = chan[r]
      /\ InFlight(s)' = InFlight(s) \union d.cm
      /\ Hand(s) => Hand(s)'
  BY <1>1, Arrived
<1>3. /\ m \in LineFrame /\ m.cmd /\ m.type \in {"RR", "SNRM", "DISC"}
      /\ Orders(chan'[s])
      /\ Supervisory(chan[s]) => Supervisory(chan'[s]) /\ m.type = "RR"
  BY <1>2, HeadFacts DEF Ends, LineOK
<1>4. Begins(s, c)
  BY <1>1, ReceivedContext
<1>5. d = IF ~(m.cmd \/ m.src = c.x.c_peer) THEN c
          ELSE IF m.type = "RR" THEN IF c.x.rx_fn THEN RecvRR(c, m) ELSE c
          ELSE IF m.cmd THEN RecvCommand(c, m)
          ELSE RecvResponse(c, m)
  BY Zenon DEF Received
<1>. HIDE DEF m, c, d
<1>6. c.p = pr[s] /\ c.x.c_peer = "P" /\ c.cm = {} /\ Sound(s, c)
      /\ c.x.pri = st[s].pri /\ c.x.mode = st[s].mode /\ c.x.rx_fn = st[s].rx_fn
  BY <1>1, <1>4, SoundFacts DEF Begins
<1>7. \/ d = c
      \/ d = RecvRR(c, m)
      \/ m.type # "RR" /\ ~c.p["P"].rcved /\ d = RecvCommand(c, m)
  <2>1. c.p["P"].rcved => RecvCommand(c, m) = c
    BY <1>6 DEF RecvCommand
  <2>. QED BY <1>3, <1>5, <2>1
<1>8. s \in l.called /\ LineOK(l, chan')
  <2>1. LineOK(l, chan)
    BY DEF Ends
  <2>2. s \in l.called
    BY <1>2, <2>1 DEF LineOK
  <2>3. \A r \in Secs \ {s} : chan'[r] = chan[r]
    BY <1>2, PrimaryPeers
  <2>4. chan'["P"] = chan["P"]
    BY <1>1, <1>2
  <2>. QED BY <1>3, <2>1, <2>2, <2>3, <2>4 DEF LineOK
<1>9. Secondary(st[s], pr[s]["P"], a, f) /\ Hand(s)'
  BY <1>1, <1>2 DEF Ends
<1>10. \A r \in Secs \ {s} : chan'[r] = chan[r]
  BY <1>2, PrimaryPeers
<1>11. InFlight(s)' = f \union d.cm
  BY <1>2
<1>12. chan'["P"] = chan["P"]
  BY <1>1, <1>2
<1>. HIDE DEF a, f
<1>13. /\ Secondary(d.x, d.p["P"], a, f \union d.cm)
       /\ d.p["P"].rcved => pr[s]["P"].rcved \/ m.type # "RR"
  <2>1. CASE d = c
    BY <1>6, <1>9, <2>1 DEF Secondary
  <2>2. CASE d = RecvRR(c, m)
    <3>1. PICK q : q = c.x.c_peer
      OBVIOUS
    <3>2. /\ d.chan = c.chan /\ d.app = c.app
          /\ d.cm \subseteq c.cm \union {"PF_RECVD"}
          /\ d.x.pri = c.x.pri /\ d.x.mode = c.x.mode /\ d.x.rx_fn = c.x.rx_fn
          /\ d.x.connected_count = c.x.connected_count /\ d.x.c_peer = c.x.c_peer
          /\ c.x.f_rcved => d.x.f_rcved
          /\ \A r \in PeerSet(s) \ {q} : d.p[r] = c.p[r]
          /\ d.p[q].conn = c.p[q].conn /\ d.p[q].um_cmd = c.p[q].um_cmd
          /\ d.p[q].sent = c.p[q].sent /\ d.p[q].rcved = c.p[q].rcved
          /\ d.p[q].um_rsp = c.p[q].um_rsp
          /\ d.p[q].t1 = c.p[q].t1 \/ d.p[q].t1 = "off"
      BY <1>1, <1>6, <2>2, <3>1, RecvRRDoes
    <3>3. q = "P"
      BY <1>6, <3>1
    <3>. QED BY <1>6, <1>9, <3>2, <3>3 DEF Secondary
  <2>3. CASE m.type # "RR" /\ ~c.p["P"].rcved /\ d = RecvCommand(c, m)
    <3>1. PICK q : q = c.x.c_peer
      OBVIOUS
    <3>2. q = "P" /\ m.type \in {"SNRM", "DISC"} /\ ~c.p[q].rcved
      BY <1>3, <1>6, <2>3, <3>1
    <3>3. /\ d.cm = {"UM_RECVD"} /\ d.x.pri = c.x.pri
          /\ d.p[q].rcved /\ d.p[q].um_rsp \in {"UA", "DM"}
          /\ d.p[q].sent => c.p[q].sent
          /\ d.p[q].t1 \in {"off", c.p[q].t1}
          /\ \/ d.x.mode = "NRM" /\ d.x.rx_fn
             \/ d.x.mode = c.x.mode /\ d.x.rx_fn = c.x.rx_fn /\ d.p[q].conn = c.p[q].conn
      BY <1>1, <1>3, <1>6, <2>3, <3>1, <3>2, RecvCommandDoes, SMTT(30)
    <3>. QED BY <1>6, <1>9, <2>3, <3>2, <3>3 DEF Secondary
  <2>. QED BY <1>7, <2>1, <2>2, <2>3
<1>14. AtSecondary(l, s, d, chan', InFlight(s)')
  <2>1. Quiet(s) => Supervisory(chan'[s]) /\ Supervisory(chan'["P"]) /\ ~d.p["P"].rcved
    BY <1>3, <1>12, <1>13 DEF Quiet
  <2>. QED BY <1>2, <1>8, <1>10, <1>11, <1>13, <2>1, Zenon DEF AtSecondary, a
<1>. QED BY <1>2, <1>9, <1>14, SecondaryStored, Zenon

\* A step at a secondary that the connection does not depend on.
LEMMA SecondaryAside ==
    ASSUME Typed, NEW l, Ends(l), NEW s \in Secs, OnlyAt(s), chan' = chan,
           NEW z2, z2 = st'[s],
           z2.pri = st[s].pri, z2.mode = st[s].mode, z2.rx_fn = st[s].rx_fn,
           NEW v, v = pr[s]["P"], NEW w, w = pr'[s]["P"],
           Alike(v, w), w.um_rsp = v.um_rsp, api'[s] = api[s],
           NEW g, g \intersect {"LINK_REQ", "C_RPLYTMO"} = {},
           InFlight(s)' = InFlight(s) \union g, Hand(s)'
    PROVE  Moved(l, s)
<1>1. Secondary(st[s], v, api[s]["P"], InFlight(s)) /\ LineOK(l, chan)
      /\ (s \notin l.called => ~v.rcved)
  BY DEF Ends
<1>2. Secondary(z2, w, api[s]["P"], InFlight(s)')
  BY <1>1 DEF Secondary, Alike
<1>3. Secondary(st[s], pr[s]["P"], api[s]["P"], InFlight(s))'
  BY <1>2
<1>4. w.rcved = v.rcved
  BY DEF Alike
<1>5. Quiet(s) => Quiet(s)'
  BY <1>4 DEF Quiet
<1>6. LineOK(l, chan') /\ \A r \in Secs \ {s} : chan'[r] = chan[r]
  BY <1>1
<1>7. s \notin l.called => ~pr'[s]["P"].rcved
  BY <1>1, <1>4
<1>. QED BY <1>3, <1>5, <1>6, <1>7, Zenon DEF Moved

LEMMA AsideSecondary ==
    ASSUME Typed, NEW l, Ends(l), NEW s \in Secs,
           TxFetch(s) \/ RxIdle(s) \/ T3Expire(s, "P")
    PROVE  Moved(l, s)
<1>1. /\ s \in Station /\ Table(st) /\ Table(pr) /\ Table(api)
      /\ tx \in [Station -> Thread] /\ ev \in [Station -> Events]
      /\ pr[s] \in [{"P"} -> PeerState] /\ st[s] \in StationState(s)
  BY PrimaryPeers, Zenon DEF Typed
<1>2. PICK v : v = pr[s]["P"]
  OBVIOUS
<1>3. Hand(s) /\ Alike(v, v)
  BY <1>1 DEF Ends, Alike
<1>4. CASE TxFetch(s)
  <2>1. /\ tx[s].pc = "wait"
        /\ tx' = [tx EXCEPT ![s] = [pc |-> "serve", cm |-> ev[s].flags]]
        /\ ev' = [ev EXCEPT ![s] = [flags |-> {}, pending |-> FALSE]]
        /\ UNCHANGED <<st, pr, api, chan>>
    BY <1>4 DEF TxFetch
  <2>2. /\ tx'[s] = [pc |-> "serve", cm |-> ev[s].flags]
        /\ ev'[s] = [flags |-> {}, pending |-> FALSE]
        /\ \A r \in Station \ {s} : tx'[r] = tx[r] /\ ev'[r] = ev[r]
    BY <1>1, <2>1
  <2>3. InFlight(s)' = InFlight(s) \union {} /\ Hand(s)'
    BY <1>3, <2>1, <2>2 DEF InFlight, Hand
  <2>4. OnlyAt(s)
    BY <2>1, <2>2 DEF OnlyAt
  <2>5. PICK g : g = {}
    BY Zenon
  <2>6. g \intersect {"LINK_REQ", "C_RPLYTMO"} = {} /\ InFlight(s)' = InFlight(s) \union g
    BY <2>3, <2>5
  <2>7. PICK z2 : z2 = st'[s]
    OBVIOUS
  <2>8. z2.pri = st[s].pri /\ z2.mode = st[s].mode /\ z2.rx_fn = st[s].rx_fn
        /\ v = pr'[s]["P"] /\ api'[s] = api[s] /\ chan' = chan
    BY <1>2, <2>1, <2>7
  <2>9. v.um_rsp = v.um_rsp
    OBVIOUS
  <2>. QED BY <1>2, <1>3, <2>3, <2>4, <2>6, <2>7, <2>8, <2>9, SecondaryAside, Zenon
<1>5. ASSUME NEW g \in SUBSET Flag, ev' = Broadcast(s, g), UNCHANGED <<tx, api, chan>>,
             g \intersect {"LINK_REQ", "C_RPLYTMO"} = {},
             NEW z2, st' = [st EXCEPT ![s] = z2],
             z2.pri = st[s].pri, z2.mode = st[s].mode, z2.rx_fn = st[s].rx_fn,
             NEW w, pr' = [pr EXCEPT ![s] = [pr[s] EXCEPT !["P"] = w]],
             Alike(v, w), w.um_rsp = v.um_rsp
      PROVE  Moved(l, s)
  <2>1. /\ \A r \in Station \ {s} : ev'[r] = ev[r]
        /\ ev'[s].flags = ev[s].flags \union g
        /\ ev[s].pending => ev'[s].pending
        /\ g # {} => ev'[s].pending
    <3>1. PICK e : e = Broadcast(s, g)
      OBVIOUS
    <3>2. /\ \A r \in Station \ {s} : e[r] = ev[r]
          /\ e[s].flags = ev[s].flags \union g
          /\ ev[s].pending => e[s].pending
          /\ g # {} => e[s].pending
      BY <1>1, <3>1, BroadcastDoes
    <3>3. ev' = e
      BY <1>5, <3>1
    <3>. QED BY <3>2, <3>3
  <2>2. /\ st'[s] = z2 /\ pr'[s]["P"] = w
        /\ \A r \in Station \ {s} : st'[r] = st[r] /\ pr'[r] = pr[r]
    BY <1>1, <1>5 DEF Table
  <2>3. OnlyAt(s)
    BY <1>5, <2>1, <2>2 DEF OnlyAt
  <2>4. InFlight(s)' = InFlight(s) \union g /\ Hand(s)'
    BY <1>3, <1>5, <2>1 DEF InFlight, Hand
  <2>6. z2 = st'[s] /\ chan' = chan /\ api'[s] = api[s] /\ w = pr'[s]["P"]
    BY <1>5, <2>2
  <2>. QED BY <1>2, <1>5, <2>3, <2>4, <2>6, SecondaryAside, Zenon
<1>6. CASE RxIdle(s)
  <2>. DEFINE y == [st[s] EXCEPT !.idl = TRUE]
  <2>1. /\ st' = [st EXCEPT ![s] = y] /\ ev' = Broadcast(s, {"LINE_IDLE"})
        /\ UNCHANGED <<pr, tx, api, chan>>
    BY <1>6 DEF RxIdle
  <2>2. /\ y.pri = st[s].pri /\ y.mode = st[s].mode /\ y.rx_fn = st[s].rx_fn
    BY <1>1 DEF StationState
  <2>3. pr' = [pr EXCEPT ![s] = [pr[s] EXCEPT !["P"] = v]]
    BY <1>1, <1>2, <2>1, Zenon DEF Table
  <2>4. {"LINE_IDLE"} \in SUBSET Flag /\ {"LINE_IDLE"} \intersect {"LINK_REQ", "C_RPLYTMO"} = {}
    BY DEF Flag
  <2>5. v.um_rsp = v.um_rsp
    OBVIOUS
  <2>. HIDE DEF y
  <2>. QED BY <1>3, <1>5, <2>1, <2>2, <2>3, <2>4, <2>5, Zenon
<1>7. CASE T3Expire(s, "P")
  <2>. DEFINE w == [v EXCEPT !.t3 = "expired"]
  <2>1. /\ pr' = [pr EXCEPT ![s] = [pr[s] EXCEPT !["P"] = w]] /\ ev' = Broadcast(s, {"T3_TMO"})
        /\ UNCHANGED <<st, tx, api, chan>>
    BY <1>2, <1>7 DEF T3Expire
  <2>2. Alike(v, w) /\ w.um_rsp = v.um_rsp
    BY <1>1, <1>2 DEF Alike, PeerState
  <2>. HIDE DEF w
  <2>4. st' = [st EXCEPT ![s] = st[s]]
    BY <1>1, <2>1, Zenon DEF Table
  <2>5. {"T3_TMO"} \in SUBSET Flag /\ {"T3_TMO"} \intersect {"LINK_REQ", "C_RPLYTMO"} = {}
    BY DEF Flag
  <2>. QED BY <1>5, <2>1, <2>2, <2>4, <2>5, Zenon
<1>. QED BY <1>4, <1>6, <1>7

\* A secondary is reset.
LEMMA RestartKept ==
    ASSUME Mode = "NRM", Typed, NEW l, Ends(l), NEW s \in Station, Restart(s)
    PROVE  Moved(l, s)
<1>1. /\ s \in Secs /\ PeerSet(s) = {"P"}
      /\ st' = [st EXCEPT ![s] = InitStation(s)]
      /\ pr' = [pr EXCEPT ![s] = [q \in PeerSet(s) |-> InitPeer]]
      /\ tx' = [tx EXCEPT ![s] = [pc |-> "wait", cm |-> {}]]
      /\ ev' = [ev EXCEPT ![s] = [flags |-> {}, pending |-> FALSE]]
      /\ chan' = [chan EXCEPT ![s] = << >>] /\ api' = api
  BY PrimaryPeers DEF Restart
<1>2. /\ Table(st) /\ Table(pr) /\ tx \in [Station -> Thread] /\ ev \in [Station -> Events]
      /\ chan \in [Station -> Seq(LineFrame)]
  BY DEF Typed, Line
<1>3. /\ st'[s] = InitStation(s) /\ pr'[s]["P"] = InitPeer
      /\ tx'[s] = [pc |-> "wait", cm |-> {}]
      /\ ev'[s] = [flags |-> {}, pending |-> FALSE] /\ chan'[s] = << >>
  BY <1>1, <1>2 DEF Table
<1>4. \A r \in Station \ {s} : /\ st'[r] = st[r] /\ pr'[r] = pr[r] /\ api'[r] = api[r]
                               /\ tx'[r] = tx[r] /\ ev'[r] = ev[r] /\ chan'[r] = chan[r]
  BY <1>1, <1>2, Zenon DEF Table
<1>5. OnlyAt(s) /\ Hand(s)'
  BY <1>3, <1>4 DEF OnlyAt, Hand
<1>6. InFlight(s)' = {}
  BY <1>3 DEF InFlight
<1>7. /\ ~InitPeer.conn /\ ~InitPeer.sent /\ ~InitPeer.rcved /\ InitPeer.t1 = "off"
      /\ ~InitStation(s).pri /\ InitStation(s).mode = "NDM"
  BY <1>1, PrimaryPeers, Zenon DEF InitPeer, InitStation, DiscMode
<1>8. api'[s]["P"].pc = "idle"
  BY <1>1 DEF Ends, Secondary
<1>9. Secondary(st[s], pr[s]["P"], api[s]["P"], InFlight(s))'
  BY <1>3, <1>6, <1>7, <1>8 DEF Secondary
<1>10. ~pr'[s]["P"].rcved
  BY <1>3, <1>7
<1>11. chan'["P"] = chan["P"] /\ \A r \in Secs \ {s} : chan'[r] = chan[r]
  BY <1>1, <1>4, PrimaryPeers
<1>12. LineOK(l, chan') /\ Supervisory(chan'[s])
  <2>1. LineOK(l, chan)
    BY DEF Ends
  <2>2. Orders(chan'[s]) /\ Supervisory(chan'[s])
    BY <1>3 DEF Orders, Supervisory
  <2>. QED BY <1>3, <1>11, <2>1, <2>2 DEF LineOK
<1>13. Quiet(s) => Quiet(s)'
  BY <1>10, <1>11, <1>12 DEF Quiet
<1>. QED BY <1>1, <1>5, <1>9, <1>10, <1>11, <1>12, <1>13, Zenon DEF Moved

-----------------------------------------------------------------------------
(* The invariant, and what it says.                                        *)

\* Nobody calls a secondary, and a secondary calls nobody.
LEMMA SecondaryWaits ==
    ASSUME Mode = "NRM", Typed, NEW l, Ends(l), NEW s \in Secs, NEW q \in PeerSet(s)
    PROVE  /\ ~LinkUpBegin(s, q) /\ ~LinkDownBegin(s, q) /\ ~LinkRequest(s, q)
           /\ ~LinkEvent(s, q) /\ ~LinkTimeout(s, q) /\ ~T1Expire(s, q)
<1>1. q = "P" /\ s # "P"
  BY PrimaryPeers
<1>2. api[s][q].pc = "idle" /\ pr[s][q].t1 = "off"
  BY <1>1 DEF Ends, Secondary
<1>. QED BY <1>1, <1>2 DEF Initiates, LinkUpBegin, LinkDownBegin, LinkRequest, LinkEvent,
            LinkTimeout, T1Expire

LEMMA OneLinkStep ==
    ASSUME Mode = "NRM", Single(link), Typed, OneLink, Next
    PROVE  OneLink'
<1>1. link' = link /\ Step
  BY DEF Next
<1>2. PICK s \in Station :
        \/ TxStep(s)
        \/ RxFrame(s)
        \/ Lose(s)
        \/ RxIdle(s)
        \/ Restart(s)
        \/ \E q \in PeerSet(s) :
              \/ LinkUpBegin(s, q)
              \/ LinkDownBegin(s, q)
              \/ CallStep(s, q)
              \/ T1Expire(s, q)
              \/ T3Expire(s, q)
  BY <1>1 DEF Step
<1>0. Ends(link)
  BY OneLinkEnds
<1>3. CASE Lose(s)
  BY <1>1, <1>3, LoseKept
<1>4. CASE Restart(s)
  <2>1. s \in Secs
    BY <1>4 DEF Restart
  <2>2. Moved(link, s)
    BY <1>0, <1>4, <2>1, RestartKept
  <2>. QED BY <1>1, <2>1, <2>2, SecondaryStep
<1>5. CASE s = "P"
  <2>1. CASE TxServe("P")
    BY <1>1, <2>1, ServePrimary
  <2>2. CASE TxTail("P")
    BY <1>1, <2>2, TailPrimary
  <2>3. CASE RxFrame("P")
    BY <1>1, <2>3, ReceivePrimary
  <2>4. CASE TxFetch("P") \/ RxIdle("P") \/ \E q \in Secs : T3Expire("P", q)
    BY <1>1, <2>4, AsidePrimary
  <2>5. ASSUME NEW q \in Secs, LinkUpBegin("P", q) PROVE OneLink'
    BY <1>1, <2>5, UpBeginKept
  <2>6. ASSUME NEW q \in Secs, LinkDownBegin("P", q) PROVE OneLink'
    BY <1>1, <2>6, DownBeginKept
  <2>7. ASSUME NEW q \in Secs, LinkRequest("P", q) PROVE OneLink'
    BY <1>1, <2>7, RequestCallKept
  <2>8. ASSUME NEW q \in Secs, LinkEvent("P", q) PROVE OneLink'
    BY <1>1, <2>8, EventCallKept
  <2>9. ASSUME NEW q \in Secs, LinkTimeout("P", q) PROVE OneLink'
    BY <1>1, <2>9, TimeoutCallKept
  <2>10. ASSUME NEW q \in Secs, T1Expire("P", q) PROVE OneLink'
    BY <1>1, <2>10, ReplyTimerKept
  <2>11. PeerSet("P") = Secs
    BY PrimaryPeers
  <2>. QED BY <1>2, <1>3, <1>4, <1>5, <2>1, <2>2, <2>3, <2>4, <2>5, <2>6, <2>7, <2>8, <2>9,
              <2>10, <2>11, Zenon DEF TxStep, CallStep
<1>6. CASE s \in Secs
  <2>1. CASE TxServe(s)
    <3>1. Moved(link, s)
      BY <1>0, <1>6, <2>1, ServeSecondary
    <3>. QED BY <1>1, <1>6, <3>1, SecondaryStep
  <2>2. CASE TxTail(s)
    <3>1. Moved(link, s)
      BY <1>0, <1>6, <2>2, TailSecondary
    <3>. QED BY <1>1, <1>6, <3>1, SecondaryStep
  <2>3. CASE RxFrame(s)
    <3>1. Moved(link, s)
      BY <1>0, <1>6, <2>3, ReceiveSecondary
    <3>. QED BY <1>1, <1>6, <3>1, SecondaryStep
  <2>4. CASE TxFetch(s) \/ RxIdle(s) \/ T3Expire(s, "P")
    <3>1. Moved(link, s)
      BY <1>0, <1>6, <2>4, AsideSecondary
    <3>. QED BY <1>1, <1>6, <3>1, SecondaryStep
  <2>5. \A q \in PeerSet(s) :
           /\ ~LinkUpBegin(s, q) /\ ~LinkDownBegin(s, q) /\ ~LinkRequest(s, q)
           /\ ~LinkEvent(s, q) /\ ~LinkTimeout(s, q) /\ ~T1Expire(s, q)
    BY <1>0, <1>6, SecondaryWaits
  <2>6. \A q \in PeerSet(s) : q = "P"
    BY <1>6, PrimaryPeers
  <2>. QED BY <1>2, <1>3, <1>4, <2>1, <2>2, <2>3, <2>4, <2>5, <2>6, Zenon DEF TxStep, CallStep
<1>. QED BY <1>5, <1>6 DEF Station

LEMMA InitOneLink ==
    ASSUME Mode = "NRM", Init
    PROVE  OneLink
<1>1. /\ st = [s \in Station |-> InitStation(s)]
      /\ pr = [s \in Station |-> [q \in PeerSet(s) |-> InitPeer]]
      /\ tx = [s \in Station |-> [pc |-> "wait", cm |-> {}]]
      /\ ev = [s \in Station |-> [flags |-> {}, pending |-> FALSE]]
      /\ api = [s \in Station |-> [q \in PeerSet(s) |-> IdleCall]]
      /\ chan = [s \in Station |-> << >>]
  BY Zenon DEF Init
<1>2. /\ ~InitPeer.conn /\ ~InitPeer.sent /\ ~InitPeer.rcved /\ InitPeer.t1 = "off"
      /\ InitPeer.um_cmd = "none" /\ IdleCall.pc = "idle"
  BY DEF InitPeer, IdleCall
<1>3. \A s \in Station :
         /\ InitStation(s).mode = "NDM" /\ ~InitStation(s).rx_fn
         /\ InitStation(s).connected_count = 0
         /\ InitStation(s).pri = (s = "P") /\ InitStation(s).f_rcved = (s = "P")
  BY DEF InitStation, DiscMode
<1>4. \A s \in Station : /\ st[s] = InitStation(s) /\ chan[s] = << >> /\ InFlight(s) = {}
                         /\ tx[s].pc = "wait" /\ Hand(s)
  BY <1>1 DEF InFlight, Hand
<1>5. \A s \in Secs : pr[s]["P"] = InitPeer /\ api[s]["P"] = IdleCall
  BY <1>1, PrimaryPeers
<1>6. \A q \in Secs : pr["P"][q] = InitPeer /\ api["P"][q] = IdleCall
  BY <1>1, PrimaryPeers
<1>7. LineOK(link, chan)
  <2>1. \A s \in Station : Answers(chan[s]) /\ Orders(chan[s])
    BY <1>4 DEF Answers, Orders
  <2>. QED BY <1>4, <2>1, PrimaryPeers DEF LineOK
<1>8. \A s \in Secs : Secondary(st[s], pr[s]["P"], api[s]["P"], InFlight(s))
  <2>. TAKE s \in Secs
  <2>1. s \in Station /\ s # "P"
    BY PrimaryPeers
  <2>2. /\ ~st[s].pri /\ st[s].mode = "NDM" /\ InFlight(s) = {}
        /\ pr[s]["P"] = InitPeer /\ api[s]["P"] = IdleCall
    BY <1>3, <1>4, <1>5, <2>1, Zenon
  <2>. QED BY <1>2, <2>2 DEF Secondary
<1>9. Primary(link, st["P"], pr["P"], api["P"], InFlight("P"), chan, pr)
  <2>1. \A q \in Secs : /\ Uncalled(InitPeer, IdleCall) /\ Owned(q, InitPeer, st["P"])
                        /\ Calling(InitPeer, st["P"], IdleCall)
                        /\ Pending(link, InitPeer, IdleCall, InFlight("P"))
                        /\ Abandoned(q, InitPeer, IdleCall, InFlight("P"), chan, pr)
    BY <1>2, <1>3, <1>4, PrimaryPeers, Zenon DEF Uncalled, Owned, Calling, Pending, Abandoned
  <2>2. st["P"].pri /\ st["P"].mode = "NDM" /\ InFlight("P") = {}
    BY <1>3, <1>4, PrimaryPeers, Zenon
  <2>. QED BY <1>2, <1>6, <2>1, <2>2 DEF Primary
<1>10. \A s \in Secs \ link.called : ~pr[s]["P"].rcved
  BY <1>2, <1>5
<1>11. tx["P"].pc # "tail"
  BY <1>4, PrimaryPeers
<1>. QED BY <1>4, <1>7, <1>8, <1>9, <1>10, <1>11 DEF OneLink

\* A link of which at most one secondary is called.
LinkInv == Typed /\ (Single(link) => OneLink)

\* The mode and the TX thread of every station, under the invariant.
LEMMA ConnectedInMode ==
    ASSUME Mode = "NRM", Typed, OneLink, NEW s \in Station, NEW q \in PeerSet(s), pr[s][q].conn
    PROVE  st[s].mode = "NRM" /\ st[s].rx_fn
<1>1. CASE s = "P"
  <2>1. q \in Secs
    BY <1>1, PrimaryPeers
  <2>2. q \in link.called
    BY <1>1, <2>1 DEF OneLink, Primary, Uncalled
  <2>. QED BY <1>1, <2>1, <2>2 DEF OneLink, Primary, Owned
<1>2. CASE s \in Secs
  <2>1. q = "P"
    BY <1>2, PrimaryPeers
  <2>. QED BY <1>2, <2>1 DEF OneLink, Secondary
<1>. QED BY <1>1, <1>2 DEF Station

LEMMA AsleepServed ==
    ASSUME Mode = "NRM", Typed, OneLink, NEW s \in Station, NEW q \in PeerSet(s),
           ~TWA, Asleep(s), api[s][q].pc \in {"up", "down"}, pr[s][q].um_cmd # "none"
    PROVE  pr[s][q].sent
<1>1. CASE s = "P"
  <2>. DEFINE v == pr["P"][q]
              a == api["P"][q]
              f == InFlight("P")
  <2>1. q \in Secs
    BY <1>1, PrimaryPeers
  <2>2. q \in link.called
    BY <1>1, <2>1 DEF OneLink, Primary, Uncalled
  <2>3. Owned(q, v, st["P"]) /\ Calling(v, st["P"], a) /\ Pending(link, v, a, f)
    BY <2>1, <2>2 DEF OneLink, Primary
  <2>4. f = {}
    <3>1. Hand("P") /\ tx["P"].pc = "wait" /\ ~ev["P"].pending
      BY <1>1, PrimaryPeers DEF OneLink, Asleep
    <3>. QED BY <3>1 DEF Hand, InFlight
  <2>5. v.um_cmd # "none" /\ a.pc \in {"up", "down"}
    BY <1>1
  <2>. HIDE DEF v, a, f
  <2>6. v.um_cmd \in {"SNRM", "DISC"}
    BY <2>3, <2>5 DEF Owned
  <2>7. v.um_cmd = "DISC" => a.pc = "down"
    BY <2>3, <2>5 DEF Calling
  <2>8. v.sent
    BY <2>3, <2>4, <2>6, <2>7 DEF Pending, TWA
  <2>. QED BY <1>1, <2>8 DEF v
<1>2. CASE s \in Secs
  BY <1>2, PrimaryPeers DEF OneLink, Secondary
<1>. QED BY <1>1, <1>2 DEF Station

LEMMA NormalLink ==
    ASSUME Mode = "NRM"
    PROVE  /\ Init => LinkInv
           /\ LinkInv /\ [Next]_vars => LinkInv'
           /\ LinkInv => ModeKept /\ (Single(link) => RequestServed)
<1>1. Init => LinkInv
  BY InitTyped, InitOneLink DEF LinkInv
<1>2. ASSUME LinkInv, Next PROVE LinkInv'
  <2>1. link' = link /\ (Single(link)' <=> Single(link))
    BY <1>2 DEF Next, Single
  <2>2. Typed'
    BY <1>2, StepTyped DEF LinkInv
  <2>3. Single(link) => OneLink'
    BY <1>2, OneLinkStep DEF LinkInv
  <2>. QED BY <2>1, <2>2, <2>3 DEF LinkInv
<1>3. ASSUME LinkInv, UNCHANGED vars PROVE LinkInv'
  <2>1. UNCHANGED <<st, pr, tx, ev, api, chan, used, link>>
    BY <1>3 DEF vars, running
  <2>2. Typed'
    <3>1. /\ link' \in Links /\ chan' \in Line
          /\ tx' \in [Station -> Thread] /\ ev' \in [Station -> Events]
          /\ Table(st') /\ Table(pr') /\ Table(api')
      BY <1>3, <2>1 DEF LinkInv, Typed
    <3>2. \A s \in Station :
             /\ st'[s] \in StationState(s)
             /\ pr'[s] \in [PeerSet(s) -> PeerState]
             /\ api'[s] \in [PeerSet(s) -> Call]
             /\ Counted(st'[s], pr'[s])
      BY <1>3, <2>1 DEF LinkInv, Typed
    <3>. QED BY <3>1, <3>2 DEF Typed
  <2>3. Single(link)' <=> Single(link)
    BY <2>1 DEF Single
  <2>4. OneLink => OneLink'
    BY <2>1 DEF OneLink, Hand, InFlight
  <2>. QED BY <1>3, <2>2, <2>3, <2>4 DEF LinkInv
<1>4. ASSUME LinkInv, Cardinality(link.called) = 1 PROVE Single(link)
  <2>1. link.called \subseteq Station
    BY <1>4, LinksAssumption DEF LinkInv, Typed, Link
  <2>2. IsFiniteSet(Station)
    <3>1. IsFiniteSet({"P"}) /\ IsFiniteSet(Secs)
      BY PeerSetFacts, PrimaryPeers, FS_Singleton, Zenon
    <3>. QED BY <3>1, FS_Union, Zenon DEF Station
  <2>3. IsFiniteSet(link.called)
    BY <2>1, <2>2, FS_Subset
  <2>4. \E x : link.called = {x}
    BY <1>4, <2>3, FS_Singleton, Zenon
  <2>. QED BY <2>4 DEF Single
<1>5. ASSUME LinkInv PROVE ModeKept
  <2>1. TypeOK
    BY <1>5, TypedTypeOK DEF LinkInv
  <2>2. ASSUME Cardinality(link.called) = 1, NEW s \in Station,
               \E q \in PeerSet(s) : pr[s][q].conn
        PROVE  st[s].mode = Mode /\ st[s].rx_fn
    <3>1. Typed /\ OneLink
      BY <1>4, <1>5, <2>2 DEF LinkInv
    <3>. QED BY <2>2, <3>1, ConnectedInMode
  <2>. QED BY <2>1, <2>2, Zenon DEF ModeKept
<1>6. ASSUME LinkInv, Single(link) PROVE RequestServed
  <2>1. Typed /\ OneLink
    BY <1>6 DEF LinkInv
  <2>2. ASSUME NEW s \in Station, NEW q \in PeerSet(s), ~TWA, Asleep(s),
               api[s][q].pc \in {"up", "down"}, pr[s][q].um_cmd # "none"
        PROVE  \E r \in PeerSet(s) : pr[s][r].sent
    BY <2>1, <2>2, AsleepServed
  <2>. QED BY <2>2, Zenon DEF RequestServed
<1>. QED BY <1>1, <1>2, <1>3, <1>5, <1>6

NormalMode == Mode = "NRM"

\* "In multipoint, all peers use the same mode" (ioHdlc.c, LinkUpEx), for an
\* NRM link of which one secondary is called: a connected station is in the
\* mode of the connection and has its receive handler, whatever is lost, times
\* out or is reset.
THEOREM OneConnectionKeepsMode == NormalMode /\ Spec => []ModeKept
<1>. SUFFICES ASSUME NormalMode PROVE Spec => []ModeKept
  OBVIOUS
<1>1. Init => LinkInv
  BY NormalLink DEF NormalMode
<1>2. LinkInv /\ [Next]_vars => LinkInv'
  BY NormalLink DEF NormalMode
<1>3. LinkInv => ModeKept
  BY NormalLink DEF NormalMode
<1>. QED BY <1>1, <1>2, <1>3, PTL DEF Spec

\* "Signal TX task to send the command" (ioHdlc.c, LinkUpEx and LinkDownEx), for
\* an NRM link in full duplex of which one secondary is called: the TX thread
\* does not go to sleep over a command that was never sent.
THEOREM OneRequestIsServed == NormalMode /\ Spec => [](Single(link) => RequestServed)
<1>. SUFFICES ASSUME NormalMode PROVE Spec => [](Single(link) => RequestServed)
  OBVIOUS
<1>1. Init => LinkInv
  BY NormalLink DEF NormalMode
<1>2. LinkInv /\ [Next]_vars => LinkInv'
  BY NormalLink DEF NormalMode
<1>3. LinkInv => (Single(link) => RequestServed)
  BY NormalLink DEF NormalMode
<1>. QED BY <1>1, <1>2, <1>3, PTL DEF Spec

-----------------------------------------------------------------------------
(* No ghost connection.                                                    *)

LEMMA PartingFacts ==
    ASSUME NEW f \in Seq(LineFrame), NEW m \in LineFrame
    PROVE  /\ Parting(Append(f, m)) <=> Parting(f) \/ m.type = "DISC"
           /\ \A q : From(q, Append(f, m)) <=> From(q, f) \/ (m.src = q /\ m.type # "RR")
<1>1. /\ DOMAIN Append(f, m) = 1..(Len(f) + 1) /\ DOMAIN f = 1..Len(f) /\ Len(f) \in Nat
      /\ \A i \in 1..Len(f) : Append(f, m)[i] = f[i]
      /\ Append(f, m)[Len(f) + 1] = m
  OBVIOUS
<1>2. \A i \in 1..(Len(f) + 1) : i \in 1..Len(f) \/ i = Len(f) + 1
  BY <1>1
<1>3. \A i \in DOMAIN Append(f, m) :
         (i \in DOMAIN f /\ Append(f, m)[i] = f[i]) \/ Append(f, m)[i] = m
  BY <1>1, <1>2, Zenon
<1>4. \A i \in DOMAIN f : i \in DOMAIN Append(f, m) /\ Append(f, m)[i] = f[i]
  BY <1>1
<1>5. \E i \in DOMAIN Append(f, m) : Append(f, m)[i] = m
  <2>1. Len(f) + 1 \in 1..(Len(f) + 1)
    BY <1>1
  <2>. QED BY <1>1, <2>1, Zenon
<1>6. Parting(Append(f, m)) <=> Parting(f) \/ m.type = "DISC"
  BY <1>3, <1>4, <1>5, ZenonT(40) DEF Parting
<1>7. \A q : From(q, Append(f, m)) <=> From(q, f) \/ (m.src = q /\ m.type # "RR")
  BY <1>3, <1>4, <1>5, ZenonT(40) DEF From
<1>. QED BY <1>6, <1>7

LEMMA PartingHead ==
    ASSUME NEW f \in Seq(LineFrame), f # << >>
    PROVE  /\ Parting(f) <=> Parting(Tail(f)) \/ Head(f).type = "DISC"
           /\ \A q : From(q, f) <=> From(q, Tail(f)) \/ (Head(f).src = q /\ Head(f).type # "RR")
<1>1. /\ DOMAIN f = 1..Len(f) /\ Len(f) \in Nat /\ Len(f) # 0
      /\ DOMAIN Tail(f) = 1..(Len(f) - 1)
      /\ \A i \in 1..(Len(f) - 1) : Tail(f)[i] = f[i + 1]
      /\ Head(f) = f[1]
  OBVIOUS
<1>2. 1 \in DOMAIN f /\ \A i \in DOMAIN Tail(f) : i + 1 \in DOMAIN f
  BY <1>1
<1>3. \A i \in DOMAIN Tail(f) : \E j \in DOMAIN f : Tail(f)[i] = f[j]
  BY <1>1, <1>2
<1>4. \A j \in DOMAIN f : f[j] = Head(f) \/ \E i \in DOMAIN Tail(f) : Tail(f)[i] = f[j]
  <2>. TAKE j \in DOMAIN f
  <2>1. CASE j = 1
    BY <1>1, <2>1
  <2>2. CASE j # 1
    <3>1. j - 1 \in DOMAIN Tail(f) /\ j - 1 \in 1..(Len(f) - 1) /\ (j - 1) + 1 = j
      BY <1>1, <2>2
    <3>2. Tail(f)[j - 1] = f[j]
      BY <1>1, <3>1
    <3>. QED BY <3>1, <3>2, Zenon
  <2>. QED BY <2>1, <2>2
<1>5. Parting(f) <=> Parting(Tail(f)) \/ Head(f).type = "DISC"
  BY <1>1, <1>2, <1>3, <1>4, ZenonT(40) DEF Parting
<1>6. \A q : From(q, f) <=> From(q, Tail(f)) \/ (Head(f).src = q /\ Head(f).type # "RR")
  <2>. TAKE q
  <2>1. From(q, f) => From(q, Tail(f)) \/ (Head(f).src = q /\ Head(f).type # "RR")
    BY <1>4, Zenon DEF From
  <2>2. From(q, Tail(f)) => From(q, f)
    BY <1>3, Zenon DEF From
  <2>3. Head(f).src = q /\ Head(f).type # "RR" => From(q, f)
    BY <1>1, <1>2, Zenon DEF From
  <2>. QED BY <2>1, <2>2, <2>3
<1>. QED BY <1>5, <1>6

\* The line has no new DISC for q, and no new answer of it.
Calmer(q, ch, ch2) ==
    /\ Parting(ch2[q]) => Parting(ch[q])
    /\ From(q, ch2["P"]) => From(q, ch["P"])

\* What the primary believes of a peer stays, or is nothing at all any more.
Believed(v, w) ==
    /\ w.conn = v.conn /\ w.um_cmd = v.um_cmd /\ w.sent = v.sent /\ w.rcved = v.rcved
Gone(w) == ~w.conn /\ w.um_cmd = "none" /\ ~w.sent /\ ~w.rcved

LEMMA AgreedKept ==
    ASSUME NEW q, NEW v, NEW a, NEW w, NEW ch, Agreed(q, v, a, w, ch),
           NEW v2, NEW a2, NEW ch2, Believed(v, v2) \/ Gone(v2),
           a2.pc = "upReq" => a.pc = "upReq", Calmer(q, ch, ch2)
    PROVE  Agreed(q, v2, a2, w, ch2)
BY DEF Agreed, Believed, Gone, Calmer, Settled, Joined, Leaving

\* What a step of the primary may do to the peer q: it adds no command, and
\* a DISC or a connection only for a command.
Since(q, v, ch, w, ch2) ==
    /\ w.um_cmd \in {v.um_cmd, "none"}
    /\ w.conn => v.conn \/ v.um_cmd # "none"
    /\ Parting(ch2[q]) => Parting(ch[q]) \/ v.um_cmd = "DISC"
    /\ From(q, ch2["P"]) => From(q, ch["P"])

LEMMA SinceKept ==
    ASSUME NEW q, NEW v, NEW ch, NEW w, NEW ch1, Since(q, v, ch, w, ch1),
           NEW w2, NEW ch2, Believed(w, w2) \/ Gone(w2), Calmer(q, ch1, ch2)
    PROVE  Since(q, v, ch, w2, ch2)
BY DEF Since, Believed, Gone, Calmer

\* Between the parts of a round of the primary.
Agreeing(c) ==
    /\ Sound("P", c) /\ LineOK(Everyone, c.chan) /\ c.x.pri /\ c.x.mode # "ABM"
    /\ \A q \in Secs : /\ Agreed(q, c.p[q], api["P"][q], pr[q]["P"], c.chan)
                      /\ Since(q, pr["P"][q], chan, c.p[q], c.chan)

LEMMA AgreeingKept ==
    ASSUME NEW c, Agreeing(c), NEW d, Sound("P", d), d.chan = c.chan,
           d.x.pri, d.x.mode # "ABM",
           \A q \in Secs : Believed(c.p[q], d.p[q]) \/ Gone(d.p[q])
    PROVE  Agreeing(d)
<1>1. \A q \in Secs : Calmer(q, c.chan, d.chan)
  BY DEF Calmer
<1>2. \A q \in Secs : /\ Agreed(q, d.p[q], api["P"][q], pr[q]["P"], d.chan)
                      /\ Since(q, pr["P"][q], chan, d.p[q], d.chan)
  <2>. TAKE q \in Secs
  <2>1. Agreed(q, c.p[q], api["P"][q], pr[q]["P"], c.chan)
        /\ Since(q, pr["P"][q], chan, c.p[q], c.chan)
    BY DEF Agreeing
  <2>2. api["P"][q].pc = "upReq" => api["P"][q].pc = "upReq"
    OBVIOUS
  <2>3. Believed(c.p[q], d.p[q]) \/ Gone(d.p[q])
    OBVIOUS
  <2>. QED BY <1>1, <2>1, <2>2, <2>3, AgreedKept, SinceKept
<1>. QED BY <1>2 DEF Agreeing

LEMMA AgreeingMoves ==
    ASSUME NEW c, Agreeing(c), NEW b \in BOOLEAN, NEW d, d = MoveToNext("P", c, b)
    PROVE  /\ Agreeing(d) /\ d.p = c.p /\ d.cm = c.cm /\ d.to = c.to
           /\ d.x.c_peer \in Secs
<1>1. Sound("P", c) /\ "P" \in Station /\ PeerSet("P") = Secs
  BY PrimaryPeers DEF Agreeing
<1>2. /\ SameRest(c, d) /\ d.app = c.app /\ d.p = c.p
      /\ d.x = [c.x EXCEPT !.c_peer = NextPeer("P", c, b)]
      /\ d.x.c_peer \in PeerSet("P")
  BY <1>1, MoveToNextDoes
<1>3. Sound("P", d)
  BY <1>1, MoveToNextSound
<1>4. d.x.pri = c.x.pri /\ d.x.mode = c.x.mode
  <2>. DEFINE n == NextPeer("P", c, b)
  <2>1. d.x = [c.x EXCEPT !.c_peer = n] /\ c.x \in StationState("P")
    BY <1>1, <1>2, SoundFacts
  <2>. HIDE DEF n
  <2>. QED BY <2>1 DEF StationState
<1>5. \A q \in Secs : Believed(c.p[q], d.p[q])
  BY <1>2 DEF Believed
<1>6. d.x.pri /\ d.x.mode # "ABM" /\ d.chan = c.chan
  BY <1>2, <1>4 DEF Agreeing, SameRest
<1>7. Agreeing(d)
  BY <1>3, <1>5, <1>6, AgreeingKept
<1>. QED BY <1>1, <1>2, <1>7 DEF SameRest

\* A request, which may be for another peer.
LEMMA RequestAgreed ==
    ASSUME NEW c, Agreeing(c), c.to = "on",
           "LINK_REQ" \in c.cm \/ (c.p[c.x.c_peer].sent /\ "C_RPLYTMO" \in c.cm),
           NEW d, d = ServeRequest("P", c)
    PROVE  /\ Agreeing(d)
           /\ d.to = "on" => d.p[d.x.c_peer].um_cmd # "none"
<1>. DEFINE r == c.x.c_peer
            c1 == MoveToNext("P", c, TRUE)
            q1 == c1.x.c_peer
            c2 == [c1 EXCEPT !.to = "loop", !.cm = @ \ {"LINK_REQ", "C_RPLYTMO"}]
<1>1. Sound("P", c) /\ r \in Secs /\ "P" \in Station
  BY PrimaryPeers, SoundFacts, Zenon DEF Agreeing
<1>2. d = IF "LINK_REQ" \notin c.cm \/ c.p[r].um_cmd # "none" \/ c.p[r].sent THEN c
          ELSE IF c1.p[q1].um_cmd # "none" THEN c1 ELSE c2
  BY Zenon DEF ServeRequest
<1>3. CASE "LINK_REQ" \notin c.cm \/ c.p[r].um_cmd # "none" \/ c.p[r].sent
  <2>1. d = c
    BY <1>2, <1>3, Zenon
  <2>2. c.p[r].sent => c.p[r].um_cmd # "none"
    BY <1>1 DEF Agreeing, Agreed
  <2>. QED BY <1>3, <2>1, <2>2
<1>4. CASE "LINK_REQ" \in c.cm /\ c.p[r].um_cmd = "none" /\ ~c.p[r].sent
  <2>1. Agreeing(c1) /\ c1.p = c.p /\ c1.to = c.to
    <3>1. \A b \in BOOLEAN : \A h : h = MoveToNext("P", c, b)
             => Agreeing(h) /\ h.p = c.p /\ h.to = c.to
      BY AgreeingMoves, Zenon
    <3>2. TRUE \in BOOLEAN
      OBVIOUS
    <3>. QED BY <3>1, <3>2, Zenon
  <2>. HIDE DEF c1
  <2>2. CASE c1.p[q1].um_cmd # "none"
    BY <1>2, <1>4, <2>1, <2>2
  <2>3. CASE c1.p[q1].um_cmd = "none"
    <3>1. d = c2
      BY <1>2, <1>4, <2>3
    <3>2. d.to = "loop" /\ d.x = c1.x /\ d.p = c1.p /\ d.chan = c1.chan
      BY <2>1, <3>1, Zenon DEF Agreeing, Sound, Handled
    <3>3. Sound("P", d)
      BY <1>1, ServeRequestSound
    <3>. HIDE DEF c2
    <3>4. \A q \in Secs : Believed(c1.p[q], d.p[q])
      BY <3>2 DEF Believed
    <3>5. Agreeing(d)
      <4>1. d.x.pri /\ d.x.mode # "ABM" /\ d.chan = c1.chan
        BY <2>1, <3>2 DEF Agreeing
      <4>. QED BY <2>1, <3>3, <3>4, <4>1, AgreeingKept
    <3>. QED BY <3>2, <3>5
  <2>. QED BY <2>2, <2>3
<1>. QED BY <1>3, <1>4

LEMMA RetryMode ==
    ASSUME NEW s \in Station, NEW c, Sound(s, c), NEW q \in PeerSet(s),
           NEW d, d = TimeoutRetry(c, q)
    PROVE  /\ SameRest(c, d) /\ Others(s, c, d, q)
           /\ ~Exhausted(c, q) => d.x = c.x /\ Alike(c.p[q], d.p[q])
           /\ Exhausted(c, q) => d.p[q] = InitPeer
           /\ d.x.pri = c.x.pri /\ d.x.mode \in {"NDM", "ADM", c.x.mode}
<1>1. PICK n : n = (IF c.p[q].conn THEN c.x.connected_count - 1 ELSE c.x.connected_count)
  OBVIOUS
<1>2. /\ SameRest(c, d) /\ Others(s, c, d, q)
      /\ ~Exhausted(c, q) => d.x = c.x /\ Alike(c.p[q], d.p[q])
  BY <1>1, TimeoutRetryDoes
<1>3. ASSUME Exhausted(c, q)
      PROVE  /\ d.p[q] = InitPeer /\ d.x.pri = c.x.pri
             /\ d.x.connected_count = n
             /\ n = 0 => ~d.x.rx_fn /\ d.x.mode = IF c.x.mode = "NRM" THEN "NDM" ELSE "ADM"
             /\ n > 0 => d.x.rx_fn = c.x.rx_fn /\ d.x.mode = c.x.mode
  BY <1>1, <1>3, TimeoutRetryDoes
<1>4. ASSUME Exhausted(c, q)
      PROVE  d.x.mode \in {"NDM", "ADM", c.x.mode}
  <2>1. n \in Nat
    <3>1. Sound(s, d)
      BY TimeoutRetrySound
    <3>2. d.x.connected_count \in Nat
      BY <3>1, SoundFacts DEF StationState
    <3>. QED BY <1>3, <1>4, <3>2
  <2>2. n > 0 \/ n = 0
    BY <2>1, ZeroOrMore, Zenon
  <2>. QED BY <1>3, <1>4, <2>2
<1>. QED BY <1>2, <1>3, <1>4

\* A peer is given up, or gets another try.
LEMMA AgreeingRetries ==
    ASSUME NEW c, Agreeing(c), NEW q, q = c.x.c_peer, NEW d, d = TimeoutRetry(c, q)
    PROVE  /\ Agreeing(d) /\ d.cm = c.cm /\ d.to = c.to
           /\ ~Exhausted(c, q) => d.x = c.x /\ d.p[q].um_cmd = c.p[q].um_cmd
<1>1. Sound("P", c) /\ q \in Secs /\ "P" \in Station /\ PeerSet("P") = Secs
      /\ c.x.pri /\ c.x.mode # "ABM" /\ c.x \in StationState("P")
  BY PrimaryPeers, SoundFacts, Zenon DEF Agreeing
<1>2. Sound("P", d)
  BY <1>1, TimeoutRetrySound
<1>4. /\ SameRest(c, d) /\ Others("P", c, d, q)
      /\ ~Exhausted(c, q) => d.x = c.x /\ Alike(c.p[q], d.p[q])
      /\ Exhausted(c, q) => d.p[q] = InitPeer
      /\ d.x.pri = c.x.pri /\ d.x.mode \in {"NDM", "ADM", c.x.mode}
  <2>1. Sound("P", c) /\ "P" \in Station /\ q \in PeerSet("P")
    BY <1>1
  <2>2. ASSUME NEW s \in Station, Sound(s, c), NEW r \in PeerSet(s),
               NEW e, e = TimeoutRetry(c, r)
        PROVE  /\ SameRest(c, e) /\ Others(s, c, e, r)
               /\ ~Exhausted(c, r) => e.x = c.x /\ Alike(c.p[r], e.p[r])
               /\ Exhausted(c, r) => e.p[r] = InitPeer
               /\ e.x.pri = c.x.pri /\ e.x.mode \in {"NDM", "ADM", c.x.mode}
    BY <2>2, RetryMode
  <2>. QED BY <2>1, <2>2, Zenon
<1>5. d.x.pri /\ d.x.mode # "ABM"
  BY <1>1, <1>4
<1>6. \A r \in Secs : Believed(c.p[r], d.p[r]) \/ Gone(d.p[r])
  <2>. TAKE r \in Secs
  <2>1. CASE r # q
    BY <1>1, <1>4, <2>1 DEF Others, Believed
  <2>2. CASE r = q /\ Exhausted(c, q)
    BY <1>4, <2>2 DEF InitPeer, Gone
  <2>3. CASE r = q /\ ~Exhausted(c, q)
    BY <1>4, <2>3 DEF Alike, Believed
  <2>. QED BY <2>1, <2>2, <2>3
<1>7. Agreeing(d)
  <2>1. d.chan = c.chan
    BY <1>4 DEF SameRest
  <2>. QED BY <1>2, <1>5, <1>6, <2>1, AgreeingKept
<1>. QED BY <1>4, <1>7 DEF SameRest, Alike

LEMMA RetryAgreed ==
    ASSUME NEW c, Agreeing(c), c.to = "on" => c.p[c.x.c_peer].um_cmd # "none",
           NEW d, d = ServeRetry("P", c)
    PROVE  Agreeing(d) /\ (d.to = "on" => d.p[d.x.c_peer].um_cmd # "none")
<1>. DEFINE q == c.x.c_peer
            c1 == TimeoutRetry(c, q)
            m == MoveToNext("P", c1, FALSE)
            c2 == [m EXCEPT !.to = "loop", !.cm = {}]
<1>1. d = IF c.to # "on" \/ "C_RPLYTMO" \notin c.cm THEN c
          ELSE IF Exhausted(c, q) THEN c2 ELSE c1
  BY Zenon DEF ServeRetry
<1>2. /\ Agreeing(c1) /\ c1.to = c.to
      /\ ~Exhausted(c, q) => c1.x = c.x /\ c1.p[q].um_cmd = c.p[q].um_cmd
  <2>1. ASSUME NEW r, r = c.x.c_peer, NEW h, h = TimeoutRetry(c, r)
        PROVE  /\ Agreeing(h) /\ h.cm = c.cm /\ h.to = c.to
               /\ ~Exhausted(c, r) => h.x = c.x /\ h.p[r].um_cmd = c.p[r].um_cmd
    BY <2>1, AgreeingRetries
  <2>. QED BY <2>1, Zenon
<1>3. Sound("P", c) /\ "P" \in Station
  BY PrimaryPeers DEF Agreeing
<1>4. CASE c.to # "on" \/ "C_RPLYTMO" \notin c.cm
  BY <1>1, <1>4
<1>5. CASE c.to = "on" /\ "C_RPLYTMO" \in c.cm /\ ~Exhausted(c, q)
  <2>1. d = c1
    BY <1>1, <1>5, Zenon
  <2>. HIDE DEF c1
  <2>. QED BY <1>2, <1>5, <2>1
<1>6. CASE c.to = "on" /\ "C_RPLYTMO" \in c.cm /\ Exhausted(c, q)
  <2>1. d = c2
    BY <1>1, <1>6, Zenon
  <2>. HIDE DEF c1
  <2>2. Agreeing(m)
    <3>1. \A b \in BOOLEAN : \A h : h = MoveToNext("P", c1, b) => Agreeing(h)
      BY <1>2, AgreeingMoves, Zenon
    <3>2. FALSE \in BOOLEAN
      OBVIOUS
    <3>. QED BY <3>1, <3>2, Zenon
  <2>3. Sound("P", d)
    BY <1>3, ServeRetrySound
  <2>. HIDE DEF m
  <2>4. d.to = "loop" /\ d.x = m.x /\ d.p = m.p /\ d.chan = m.chan
    BY <2>1, <2>2, Zenon DEF Agreeing, Sound, Handled
  <2>. HIDE DEF c2
  <2>5. Agreeing(d)
    <3>1. d.x.pri /\ d.x.mode # "ABM" /\ \A r \in Secs : Believed(m.p[r], d.p[r])
      BY <2>2, <2>4 DEF Agreeing, Believed
    <3>. QED BY <2>2, <2>3, <2>4, <3>1, AgreeingKept
  <2>. QED BY <2>4, <2>5
<1>. QED BY <1>4, <1>5, <1>6

\* A frame m of the primary for q.
LEMMA CommandQueued ==
    ASSUME NEW ch \in Line, LineOK(Everyone, ch), NEW q \in Secs,
           NEW m \in LineFrame, m.cmd, m.type \in {"RR", "SNRM", "DISC"},
           NEW ch2, ch2 = [ch EXCEPT ![q] = Append(@, m)]
    PROVE  /\ LineOK(Everyone, ch2) /\ ch2["P"] = ch["P"]
           /\ \A r \in Secs \ {q} : Calmer(r, ch, ch2)
           /\ m.type # "DISC" => Calmer(q, ch, ch2)
<1>1. ch[q] \in Seq(LineFrame) /\ q \in Station /\ q # "P" /\ "P" \in Station
      /\ DOMAIN ch = Station /\ \A r \in Secs : r \in Station
  BY PrimaryPeers DEF Line
<1>2. /\ Answers(ch["P"]) /\ \A s \in Secs : Orders(ch[s])
  BY DEF LineOK
<1>3. Orders(Append(ch[q], m))
  BY <1>1, <1>2, QueueFacts
<1>4. ch2[q] = Append(ch[q], m) /\ ch2["P"] = ch["P"] /\ \A s \in Secs \ {q} : ch2[s] = ch[s]
  BY <1>1, Zenon
<1>5. LineOK(Everyone, ch2)
  <2>1. \A s \in Secs : Orders(ch2[s])
    BY <1>2, <1>3, <1>4, Zenon
  <2>2. \A s \in Secs \ Everyone.called : ch2[s] = << >>
    BY DEF Everyone
  <2>. QED BY <1>2, <1>4, <2>1, <2>2, Zenon DEF LineOK
<1>6. \A r \in Secs \ {q} : Calmer(r, ch, ch2)
  BY <1>4 DEF Calmer
<1>7. m.type # "DISC" => Calmer(q, ch, ch2)
  <2>1. Parting(ch2[q]) => Parting(ch[q]) \/ m.type = "DISC"
    BY <1>1, <1>4, PartingFacts
  <2>. QED BY <1>4, <2>1 DEF Calmer
<1>. QED BY <1>4, <1>5, <1>6, <1>7

\* The command of the current peer is sent, or has to wait for the turn.
LEMMA SendAgreed ==
    ASSUME NEW c, Agreeing(c), c.to = "on" => c.p[c.x.c_peer].um_cmd # "none",
           NEW d, d = SendCommand("P", c)
    PROVE  Agreeing(d)
<1>. DEFINE q == c.x.c_peer
            v == c.p[q]
            left == c.cm \ {"LINK_REQ", "C_RPLYTMO"}
            b == c.x.f_rcved \/ (TWA /\ ~v.conn /\ v.um_cmd = SetMode)
            c1 == [[c EXCEPT !.cm = left] EXCEPT !.x.f_rcved = b]
            e == Send("P", c1, v.um_cmd, TRUE, TRUE)
            c2 == Polled(e)
            d1 == [c1 EXCEPT !.to = "loop"]
            d2 == [c2 EXCEPT !.p[q].sent = TRUE]
<1>1. /\ Sound("P", c) /\ q \in Secs /\ c.p \in [Secs -> PeerState] /\ c.chan \in Line
      /\ c.x \in StationState("P") /\ c.x.pri /\ c.x.mode # "ABM"
      /\ LineOK(Everyone, c.chan) /\ v \in PeerState /\ c.cm \in SUBSET Flag
      /\ Agreed(q, v, api["P"][q], pr[q]["P"], c.chan)
      /\ Since(q, pr["P"][q], chan, v, c.chan)
  BY PrimaryPeers, SoundFacts DEF Agreeing
<1>2. CASE c.to # "on"
  BY <1>2 DEF SendCommand
<1>3. CASE c.to = "on"
  <2>1. v.um_cmd \in {"SNRM", "DISC"}
    BY <1>1, <1>3 DEF Agreed
  <2>2. b \in BOOLEAN /\ left \in SUBSET Flag
    BY <1>1 DEF StationState, PeerState
  <2>3. d = IF ~SendOpportunity(c1.x) THEN d1 ELSE d2
    <3>1. c1 = [c EXCEPT !.cm = left, !.x.f_rcved = b]
      <4>. HIDE DEF left, b
      <4>. QED BY <1>1 DEF Sound, Handled
    <3>. QED BY <1>3, <3>1, Zenon DEF SendCommand
  <2>4. Sound("P", d) /\ Sound("P", c1)
    <3>. HIDE DEF left, b
    <3>. QED BY <1>1, <2>2, PrimaryPeers, SendCommandSound, AroundSound, FinalReceived, Zenon
  <2>5. /\ c1.x = [c.x EXCEPT !.f_rcved = b] /\ c1.p = c.p /\ c1.chan = c.chan
    <3>. HIDE DEF left, b
    <3>. QED BY <1>1 DEF Sound, Handled
  <2>6. c1.x.c_peer = q /\ c1.x.pri /\ c1.x.mode = c.x.mode
    <3>. HIDE DEF left, b, c1
    <3>. QED BY <1>1, <2>5 DEF StationState
  <2>. HIDE DEF c1, b, left
  <2>7. CASE d = d1
    <3>1. d.x = c1.x /\ d.p = c.p /\ d.chan = c.chan
      BY <2>4, <2>5, <2>7 DEF Sound, Handled
    <3>2. \A r \in Secs : Believed(c.p[r], d.p[r])
      BY <3>1 DEF Believed
    <3>3. d.x.pri /\ d.x.mode # "ABM"
      BY <1>1, <2>6, <3>1
    <3>. QED BY <2>4, <3>1, <3>2, <3>3, AgreeingKept
  <2>8. CASE d = d2
    <3>. DEFINE m == [type |-> v.um_cmd, cmd |-> TRUE, pf |-> TRUE, src |-> "P"]
    <3>1. "P" \in Station /\ PeerSet("P") = Secs
      BY PrimaryPeers
    <3>2. /\ e.x = c1.x /\ e.p = c.p /\ e.chan = [c.chan EXCEPT ![q] = Append(@, m)]
      <4>1. /\ e.x = c1.x /\ e.p = c1.p
            /\ e.chan = [c1.chan EXCEPT ![c1.x.c_peer] = Append(@, m)]
        <5>. DEFINE w == v.um_cmd
        <5>. HIDE DEF w
        <5>. QED BY <2>4 DEF Send, Sound, Handled
      <4>. HIDE DEF e, m
      <4>2. [c1.chan EXCEPT ![c1.x.c_peer] = Append(@, m)]
               = [c.chan EXCEPT ![q] = Append(@, m)]
        BY <2>5, <2>6, Zenon
      <4>. QED BY <2>5, <4>1, <4>2, Zenon
    <3>3. Sound("P", e)
      <4>1. v.um_cmd \in {"RR"} \union UCmd
        BY <2>1 DEF UCmd
      <4>. QED BY <2>1, <2>4, <3>1, <4>1, SendSound, Zenon DEF UCmd
    <3>. HIDE DEF e
    <3>4. /\ SameRest(e, c2) /\ c2.x = [e.x EXCEPT !.f_rcved = FALSE]
          /\ Others("P", e, c2, q) /\ c2.p[q].conn = e.p[q].conn
          /\ c2.p[q].um_cmd = e.p[q].um_cmd /\ c2.p[q].rcved = e.p[q].rcved
      BY <2>6, <3>1, <3>2, <3>3, PolledDoes, SMTT(30)
    <3>5. Sound("P", c2) /\ c2.p \in [Secs -> PeerState]
      BY <3>1, <3>3, PolledSound, SoundFacts
    <3>. HIDE DEF c2
    <3>6. d.x = c2.x /\ d.p = [c2.p EXCEPT ![q].sent = TRUE] /\ d.chan = c2.chan
      BY <2>8, <3>5, Zenon DEF Sound, Handled
    <3>7. /\ d.p[q].sent /\ d.p[q].conn = v.conn /\ d.p[q].um_cmd = v.um_cmd
          /\ d.p[q].rcved = v.rcved
      <4>1. c2.p[q] \in PeerState /\ d.p[q] = [c2.p[q] EXCEPT !.sent = TRUE]
        BY <1>1, <3>5, <3>6
      <4>. QED BY <3>2, <3>4, <4>1 DEF PeerState
    <3>8. \A r \in Secs \ {q} : d.p[r] = c.p[r]
      <4>. TAKE r \in Secs \ {q}
      <4>1. d.p[r] = c2.p[r] /\ c2.p[r] = e.p[r]
        BY <3>1, <3>4, <3>5, <3>6 DEF Others
      <4>. QED BY <3>2, <4>1
    <3>9. /\ d.x = [c1.x EXCEPT !.f_rcved = FALSE]
          /\ d.chan = [c.chan EXCEPT ![q] = Append(@, m)]
      BY <3>2, <3>4, <3>6 DEF SameRest
    <3>10. d.x.pri /\ d.x.mode = c.x.mode
      <4>1. c1.x \in StationState("P")
        BY <2>4, <3>1, SoundFacts
      <4>. QED BY <2>6, <3>9, <4>1 DEF StationState
    <3>11. m \in LineFrame /\ m.cmd /\ m.type = v.um_cmd
      BY <2>1, <3>1 DEF LineFrame, UCmd
    <3>. HIDE DEF m
    <3>12. /\ LineOK(Everyone, d.chan) /\ d.chan["P"] = c.chan["P"]
           /\ \A r \in Secs \ {q} : Calmer(r, c.chan, d.chan)
           /\ m.type # "DISC" => Calmer(q, c.chan, d.chan)
      <4>1. /\ c.chan \in Line /\ LineOK(Everyone, c.chan) /\ q \in Secs
            /\ m \in LineFrame /\ m.cmd /\ m.type \in {"RR", "SNRM", "DISC"}
            /\ d.chan = [c.chan EXCEPT ![q] = Append(@, m)]
        BY <1>1, <2>1, <3>9, <3>11
      <4>. HIDE DEF q
      <4>. QED BY <4>1, CommandQueued
    <3>13. \A r \in Secs \ {q} : /\ Agreed(r, d.p[r], api["P"][r], pr[r]["P"], d.chan)
                               /\ Since(r, pr["P"][r], chan, d.p[r], d.chan)
      <4>. TAKE r \in Secs \ {q}
      <4>1. Agreed(r, c.p[r], api["P"][r], pr[r]["P"], c.chan) /\ Believed(c.p[r], d.p[r])
            /\ Since(r, pr["P"][r], chan, c.p[r], c.chan)
        BY <3>8 DEF Agreeing, Believed
      <4>2. api["P"][r].pc = "upReq" => api["P"][r].pc = "upReq"
        OBVIOUS
      <4>. QED BY <3>12, <4>1, <4>2, AgreedKept, SinceKept
    <3>14. Agreed(q, d.p[q], api["P"][q], pr[q]["P"], d.chan)
      <4>1. CASE v.um_cmd = "DISC"
        BY <1>1, <3>7, <4>1 DEF Agreed
      <4>2. CASE v.um_cmd = "SNRM"
        <5>1. Calmer(q, c.chan, d.chan)
          BY <3>11, <3>12, <4>2
        <5>. QED BY <1>1, <3>7, <4>2, <5>1 DEF Agreed, Calmer, Settled, Joined, Leaving
      <4>. QED BY <2>1, <4>1, <4>2
    <3>15. Since(q, pr["P"][q], chan, d.p[q], d.chan)
      <4>1. CASE v.um_cmd = "DISC"
        BY <1>1, <3>7, <3>12, <4>1 DEF Since
      <4>2. CASE v.um_cmd = "SNRM"
        <5>1. Calmer(q, c.chan, d.chan)
          BY <3>11, <3>12, <4>2
        <5>. QED BY <1>1, <3>7, <5>1 DEF Since, Calmer
      <4>. QED BY <2>1, <4>1, <4>2
    <3>. QED BY <1>1, <2>4, <3>10, <3>12, <3>13, <3>14, <3>15 DEF Agreeing
  <2>. QED BY <2>3, <2>7, <2>8, Zenon
<1>. QED BY <1>2, <1>3

LEMMA CommandAgreed ==
    ASSUME NEW c, Agreeing(c), c.to = "on", NEW d, d = ServeCommand("P", c)
    PROVE  Agreeing(d)
<1>. DEFINE p == c.p[c.x.c_peer]
            c1 == ServeRequest("P", c)
            c2 == ServeRetry("P", c1)
<1>1. CASE ~("LINK_REQ" \in c.cm \/ (p.sent /\ "C_RPLYTMO" \in c.cm))
  BY <1>1, Zenon DEF ServeCommand
<1>2. CASE "LINK_REQ" \in c.cm \/ (p.sent /\ "C_RPLYTMO" \in c.cm)
  <2>1. Agreeing(c1) /\ (c1.to = "on" => c1.p[c1.x.c_peer].um_cmd # "none")
    BY <1>2, RequestAgreed
  <2>2. d = SendCommand("P", c2)
    <3>1. c1.x.pri
      BY <2>1 DEF Agreeing
    <3>. QED BY <1>2, <3>1, Zenon DEF ServeCommand
  <2>. HIDE DEF c1
  <2>3. Agreeing(c2) /\ (c2.to = "on" => c2.p[c2.x.c_peer].um_cmd # "none")
    BY <2>1, RetryAgreed
  <2>. HIDE DEF c2
  <2>. QED BY <2>2, <2>3, SendAgreed
<1>. QED BY <1>1, <1>2

\* What the connection does not depend on changes.
LEMMA SameLinkAgreed ==
    ASSUME NEW c, Agreeing(c), NEW d, Sound("P", d), SameLink("P", c, d)
    PROVE  Agreeing(d)
<1>1. d.x.pri /\ d.x.mode # "ABM" /\ d.chan = c.chan
  BY DEF SameLink, Agreeing
<1>2. \A r \in Secs : Believed(c.p[r], d.p[r])
  BY PrimaryPeers DEF SameLink, Alike, Believed
<1>. QED BY <1>1, <1>2, AgreeingKept

LEMMA DisconnectedAgreed ==
    ASSUME NEW c, Agreeing(c), NEW d, d = ServeDisconnected("P", c)
    PROVE  Agreeing(d)
<1>1. "P" \in Station /\ Sound("P", c)
  BY PrimaryPeers DEF Agreeing
<1>2. PICK v : v = c.p[c.x.c_peer]
  OBVIOUS
<1>3. PICK free : free <=> c.x.pri /\ ~v.conn /\ v.um_cmd = "none" /\ ~v.sent
  OBVIOUS
<1>4. SameLink("P", c, d)
  BY <1>1, <1>2, <1>3, ServeDisconnectedDoes
<1>5. Sound("P", d)
  BY <1>1, ServeDisconnectedSound
<1>. QED BY <1>4, <1>5, SameLinkAgreed

LEMMA TimersAgreed ==
    ASSUME NEW c, Agreeing(c), NEW d, d = ServeTimers(c)
    PROVE  Agreeing(d)
<1>. DEFINE r == c.x.c_peer
            g == TimeoutRetry(c, r)
<1>1. "P" \in Station /\ Sound("P", c)
  BY PrimaryPeers DEF Agreeing
<1>2. PICK q : q = c.x.c_peer
  OBVIOUS
<1>3. PICK late : late <=> c.to = "on" /\ c.x.mode \in {"NRM", "ABM"} /\ "C_RPLYTMO" \in c.cm
                           /\ c.p[q].t1 = "expired" /\ Exhausted(c, q)
  OBVIOUS
<1>4. PICK h : h = TimeoutRetry(c, q)
  OBVIOUS
<1>5. /\ ~late => SameLink("P", c, d)
      /\ late => d.x = h.x /\ d.p = h.p
      /\ d.chan = c.chan
  BY <1>1, <1>2, <1>3, <1>4, ServeTimersDoes
<1>6. Sound("P", d)
  BY <1>1, ServeTimersSound
<1>7. CASE ~late
  BY <1>5, <1>6, <1>7, SameLinkAgreed
<1>8. CASE late
  <2>1. Agreeing(h) /\ h.x.pri /\ h.x.mode # "ABM"
    BY <1>2, <1>4, AgreeingRetries DEF Agreeing
  <2>2. h.chan = c.chan
    <3>1. q \in PeerSet("P")
      BY <1>1, <1>2, SoundFacts
    <3>2. ASSUME NEW s \in Station, Sound(s, c), NEW o \in PeerSet(s)
          PROVE  SameRest(c, TimeoutRetry(c, o))
      BY <3>2, RetryMode, Zenon
    <3>. QED BY <1>1, <1>4, <3>1, <3>2 DEF SameRest
  <2>3. \A o \in Secs : Believed(h.p[o], d.p[o])
    BY <1>5, <1>8 DEF Believed
  <2>. QED BY <1>5, <1>6, <1>8, <2>1, <2>2, <2>3, AgreeingKept
<1>. QED BY <1>7, <1>8

\* A poll, and what comes with it.
LEMMA PollAgreed ==
    ASSUME NEW c, Agreeing(c), NEW cmd \in BOOLEAN, cmd, NEW pf \in BOOLEAN,
           NEW d, d = Send("P", c, "RR", cmd, pf)
    PROVE  Agreeing(d) /\ d.x = c.x /\ d.p = c.p
<1>. DEFINE q == c.x.c_peer
            m == [type |-> "RR", cmd |-> cmd, pf |-> pf, src |-> "P"]
<1>1. /\ Sound("P", c) /\ q \in Secs /\ c.chan \in Line /\ LineOK(Everyone, c.chan)
      /\ "P" \in Station
  BY PrimaryPeers, SoundFacts DEF Agreeing
<1>2. d.x = c.x /\ d.p = c.p /\ d.chan = [c.chan EXCEPT ![q] = Append(@, m)]
  BY <1>1 DEF Send, Sound, Handled
<1>3. Sound("P", d)
  BY <1>1, SendSound, Zenon
<1>4. m \in LineFrame /\ m.cmd /\ m.type = "RR"
  BY <1>1 DEF LineFrame
<1>. HIDE DEF m
<1>5. LineOK(Everyone, d.chan) /\ \A r \in Secs : Calmer(r, c.chan, d.chan)
  <2>1. /\ LineOK(Everyone, d.chan) /\ d.chan["P"] = c.chan["P"]
        /\ \A r \in Secs \ {q} : Calmer(r, c.chan, d.chan)
        /\ m.type # "DISC" => Calmer(q, c.chan, d.chan)
    BY <1>1, <1>2, <1>4, CommandQueued
  <2>. QED BY <1>4, <2>1
<1>6. \A r \in Secs : /\ Agreed(r, d.p[r], api["P"][r], pr[r]["P"], d.chan)
                      /\ Since(r, pr["P"][r], chan, d.p[r], d.chan)
  <2>. TAKE r \in Secs
  <2>1. Agreed(r, c.p[r], api["P"][r], pr[r]["P"], c.chan) /\ Believed(c.p[r], d.p[r])
        /\ Since(r, pr["P"][r], chan, c.p[r], c.chan)
    BY <1>2 DEF Agreeing, Believed
  <2>2. api["P"][r].pc = "upReq" => api["P"][r].pc = "upReq"
    OBVIOUS
  <2>. QED BY <1>5, <2>1, <2>2, AgreedKept, SinceKept
<1>7. d.x.pri /\ d.x.mode # "ABM"
  BY <1>2 DEF Agreeing
<1>. QED BY <1>2, <1>3, <1>5, <1>6, <1>7, Zenon DEF Agreeing

LEMMA PolledAgreed ==
    ASSUME NEW c, Agreeing(c), NEW d, d = Polled(c)
    PROVE  Agreeing(d)
<1>1. "P" \in Station /\ PeerSet("P") = Secs /\ Sound("P", c) /\ c.x \in StationState("P")
  BY PrimaryPeers, SoundFacts DEF Agreeing
<1>2. Sound("P", d)
  BY <1>1, PolledSound
<1>3. PICK q : q = c.x.c_peer
  OBVIOUS
<1>4. /\ SameRest(c, d) /\ d.x = [c.x EXCEPT !.f_rcved = FALSE] /\ Others("P", c, d, q)
      /\ d.p[q].conn = c.p[q].conn /\ d.p[q].um_cmd = c.p[q].um_cmd
      /\ d.p[q].sent = c.p[q].sent /\ d.p[q].rcved = c.p[q].rcved
  BY <1>1, <1>3, PolledDoes
<1>5. d.x.pri /\ d.x.mode # "ABM"
  BY <1>1, <1>4 DEF StationState, Agreeing
<1>6. \A r \in Secs : Believed(c.p[r], d.p[r])
  BY <1>1, <1>4 DEF Others, Believed
<1>7. d.chan = c.chan
  BY <1>4 DEF SameRest
<1>. QED BY <1>2, <1>5, <1>6, <1>7, AgreeingKept

LEMMA NeedPollAgreed ==
    ASSUME NEW c, Agreeing(c), NEW q \in Secs, NEW b \in BOOLEAN,
           NEW d, d = [c EXCEPT !.p[q].need_p = b]
    PROVE  Agreeing(d)
<1>1. "P" \in Station /\ PeerSet("P") = Secs /\ Sound("P", c) /\ q \in PeerSet("P")
  BY PrimaryPeers DEF Agreeing
<1>2. Sound("P", d)
  BY <1>1, NeedPoll
<1>3. d.x = c.x /\ d.chan = c.chan /\ d.p = [c.p EXCEPT ![q].need_p = b]
  BY <1>1, Zenon DEF Sound, Handled
<1>4. \A r \in Secs : Believed(c.p[r], d.p[r])
  <2>1. \A r \in PeerSet("P") : Alike(c.p[r], d.p[r])
    BY <1>1, <1>3, NeedPollAlike
  <2>. QED BY <1>1, <2>1 DEF Alike, Believed
<1>5. d.x.pri /\ d.x.mode # "ABM"
  BY <1>3 DEF Agreeing
<1>. QED BY <1>2, <1>3, <1>4, <1>5, AgreeingKept

LEMMA TailSentAgreed ==
    ASSUME NEW c, c = Context("P", tx["P"].cm), Agreeing(c), NEW d, d = TailSent("P")
    PROVE  Agreeing(d)
<1>. DEFINE q == c.x.c_peer
            cmd == IsCommand(c.x)
            pf == IF cmd THEN c.x.f_rcved ELSE c.x.p_rcved
            sent == Send("P", c, "RR", cmd, pf)
            p1 == Polled(sent)
            r1 == [p1 EXCEPT !.p[q].need_p = FALSE]
<1>1. c.x.pri /\ c.x.mode # "ABM" /\ c.x \in StationState("P") /\ q \in Secs
  BY PrimaryPeers, SoundFacts DEF Agreeing
<1>2. cmd \in BOOLEAN /\ cmd
  BY <1>1 DEF IsCommand, StationState
<1>3. d \in {c, sent, r1}
  BY <1>2, Zenon DEF TailSent
<1>. HIDE DEF cmd
<1>4. pf \in BOOLEAN
  BY <1>1 DEF StationState
<1>. HIDE DEF pf
<1>5. Agreeing(sent)
  <2>1. \A k \in BOOLEAN : \A y \in BOOLEAN : \A e : k /\ e = Send("P", c, "RR", k, y)
           => Agreeing(e)
    BY PollAgreed, Zenon
  <2>. QED BY <1>2, <1>4, <2>1, Zenon
<1>. HIDE DEF sent
<1>6. Agreeing(p1)
  BY <1>5, PolledAgreed
<1>. HIDE DEF p1, q
<1>7. Agreeing(r1)
  <2>1. \A b \in BOOLEAN : \A e : e = [p1 EXCEPT !.p[q].need_p = b] => Agreeing(e)
    BY <1>1, <1>6, NeedPollAgreed, Zenon
  <2>2. FALSE \in BOOLEAN
    OBVIOUS
  <2>. QED BY <2>1, <2>2, Zenon
<1>. QED BY <1>3, <1>5, <1>7

LEMMA TailLeftAgreed ==
    ASSUME Agreeing(Context("P", tx["P"].cm)), NEW d, d = TailLeft("P")
    PROVE  Agreeing(d)
<1>. DEFINE c1 == TailSent("P")
            c2 == MoveToNext("P", c1, FALSE)
            next == c2.x.c_peer
            r == [c2 EXCEPT !.p[next].need_p = TRUE]
<1>1. d \in {c1, c2, r}
  BY Zenon DEF TailLeft
<1>2. Agreeing(c1)
  BY TailSentAgreed
<1>. HIDE DEF c1
<1>3. Agreeing(c2) /\ next \in Secs
  <2>1. \A b \in BOOLEAN : \A h : h = MoveToNext("P", c1, b)
           => Agreeing(h) /\ h.x.c_peer \in Secs
    BY <1>2, AgreeingMoves, Zenon
  <2>2. FALSE \in BOOLEAN
    OBVIOUS
  <2>. QED BY <2>1, <2>2, Zenon
<1>. HIDE DEF c2, next
<1>4. Agreeing(r)
  <2>1. \A b \in BOOLEAN : \A e : e = [c2 EXCEPT !.p[next].need_p = b] => Agreeing(e)
    BY <1>3, NeedPollAgreed, Zenon
  <2>2. TRUE \in BOOLEAN
    OBVIOUS
  <2>. QED BY <2>1, <2>2, Zenon
<1>. QED BY <1>1, <1>2, <1>3, <1>4

\* A step of the primary that is not a call.
Follows ==
    \A q \in Secs : /\ api'["P"][q].pc = api["P"][q].pc /\ pr'[q]["P"] = pr[q]["P"]
                    /\ Since(q, pr["P"][q], chan, pr'["P"][q], chan')

\* A step of the primary.
LEMMA PrimaryAccords ==
    ASSUME Accord, OnlyAt("P"), LineOK(Everyone, chan'),
           st'["P"].pri, st'["P"].mode # "ABM",
           \A q \in Secs : Agreed(q, pr'["P"][q], api'["P"][q], pr[q]["P"], chan')
    PROVE  Accord'
<1>1. \A s \in Secs : /\ s \in Station /\ st'[s] = st[s] /\ pr'[s] = pr[s] /\ api'[s] = api[s]
                      /\ tx'[s] = tx[s] /\ ev'[s] = ev[s]
  BY PrimaryPeers DEF OnlyAt
<1>2. Ends(Everyone)
  BY DEF Accord
<1>3. \A s \in Secs : Hand(s)'
  BY <1>1, <1>2 DEF Hand, Ends
<1>4. \A s \in Secs : Secondary(st[s], pr[s]["P"], api[s]["P"], InFlight(s))'
  <2>1. \A s \in Secs : Secondary(st[s], pr[s]["P"], api[s]["P"], InFlight(s))
    BY <1>2 DEF Ends
  <2>. QED BY <1>1, <2>1, Zenon DEF InFlight
<1>5. Ends(Everyone)'
  BY <1>3, <1>4 DEF Ends, Everyone
<1>6. \A q \in Secs : Agreed(q, pr'["P"][q], api'["P"][q], pr'[q]["P"], chan')
  BY <1>1, Zenon
<1>. QED BY <1>5, <1>6 DEF Accord

LEMMA AgreeingStored ==
    ASSUME Typed, Accord, NEW c, Agreeing(c), Store("P", c),
           \A r \in Station \ {"P"} : tx'[r] = tx[r] /\ ev'[r] = ev[r]
    PROVE  Accord' /\ Follows
<1>1. "P" \in Station /\ PeerSet("P") = Secs /\ Sound("P", c) /\ c.app \in SUBSET AppFlag
  BY PrimaryPeers, SoundFacts DEF Agreeing
<1>2. /\ st' = [st EXCEPT !["P"] = c.x] /\ pr' = [pr EXCEPT !["P"] = c.p]
      /\ api' = Notified("P", c.app) /\ chan' = c.chan
  BY DEF Store
<1>3. OnlyAt("P") /\ st'["P"] = c.x /\ pr'["P"] = c.p
  BY <1>1, <1>2, Stored
<1>4. \A q \in Secs : api'["P"][q].pc = api["P"][q].pc
  BY <1>1, <1>2, NotifiedDoes
<1>5. \A q \in Secs : Agreed(q, pr'["P"][q], api'["P"][q], pr[q]["P"], chan')
  BY <1>2, <1>3, <1>4 DEF Agreeing, Agreed
<1>6. LineOK(Everyone, chan') /\ st'["P"].pri /\ st'["P"].mode # "ABM"
  BY <1>2, <1>3 DEF Agreeing
<1>7. Follows
  <2>1. \A q \in Secs : pr'[q]["P"] = pr[q]["P"]
    BY <1>3, PrimaryPeers DEF OnlyAt
  <2>. QED BY <1>2, <1>3, <1>4, <2>1 DEF Agreeing, Follows
<1>. QED BY <1>3, <1>5, <1>6, <1>7, PrimaryAccords

LEMMA ContextAgreed ==
    ASSUME Typed, Accord, NEW cm \in SUBSET Flag, NEW c, c = Context("P", cm)
    PROVE  /\ Agreeing(c) /\ c.to = "on" /\ c.x = st["P"] /\ c.p = pr["P"]
           /\ c.chan = chan /\ c.cm = cm /\ c.app = {}
<1>1. /\ c.to = "on" /\ c.x = st["P"] /\ c.p = pr["P"] /\ c.chan = chan /\ c.cm = cm
      /\ c.app = {}
  BY DEF Context
<1>2. Sound("P", c)
  BY PrimaryPeers, ContextSound
<1>3. LineOK(Everyone, c.chan) /\ c.x.pri /\ c.x.mode # "ABM"
  BY <1>1, Zenon DEF Accord, Ends
<1>4. \A q \in Secs : /\ Agreed(q, c.p[q], api["P"][q], pr[q]["P"], c.chan)
                      /\ Since(q, pr["P"][q], chan, c.p[q], c.chan)
  <2>1. \A q, v, ch : Since(q, v, ch, v, ch)
    BY DEF Since
  <2>. QED BY <1>1, <2>1, Zenon DEF Accord
<1>. QED BY <1>1, <1>2, <1>3, <1>4, Zenon DEF Agreeing

LEMMA ServeAccords ==
    ASSUME Typed, Accord, TxServe("P")
    PROVE  Accord' /\ Follows
<1>. DEFINE c0 == Context("P", tx["P"].cm)
            c1 == ServeCommand("P", c0)
            c2 == ServeResponse("P", c1)
            c3 == ServeDisconnected("P", c2)
            d == ServeTimers(c3)
<1>1. Agreeing(c0) /\ c0.to = "on"
  <2>1. tx["P"].cm \in SUBSET Flag
    BY PrimaryPeers DEF Typed, Thread
  <2>. QED BY <2>1, ContextAgreed, Zenon
<1>2. /\ Store("P", d)
      /\ tx' = [tx EXCEPT !["P"] =
                   [pc |-> IF d.to = "tail" THEN "tail"
                           ELSE IF d.cm = {} THEN "wait" ELSE "serve",
                    cm |-> d.cm]]
      /\ UNCHANGED <<ev, used>>
  BY PrimaryPeers, TxServeRound DEF Round
<1>. HIDE DEF c0
<1>3. Agreeing(c1)
  BY <1>1, CommandAgreed
<1>. HIDE DEF c1
<1>4. c2 = c1
  <2>1. c1.x.c_peer \in Secs
    BY <1>3, PrimaryPeers, SoundFacts DEF Agreeing
  <2>2. ~c1.p[c1.x.c_peer].rcved
    BY <1>3, <2>1, Zenon DEF Agreeing, Agreed
  <2>. QED BY <2>2, Zenon DEF ServeResponse
<1>. HIDE DEF c2
<1>5. Agreeing(c3)
  BY <1>3, <1>4, DisconnectedAgreed
<1>. HIDE DEF c3
<1>6. Agreeing(d)
  BY <1>5, TimersAgreed
<1>. HIDE DEF d
<1>7. \A r \in Station \ {"P"} : tx'[r] = tx[r] /\ ev'[r] = ev[r]
  BY <1>2, PrimaryPeers DEF Typed
<1>. QED BY <1>2, <1>6, <1>7, AgreeingStored

LEMMA TailAccords ==
    ASSUME Typed, Accord, TxTail("P")
    PROVE  Accord' /\ Follows
<1>. DEFINE c == Context("P", tx["P"].cm)
            d == TailLeft("P")
            cm1 == (tx["P"].cm \union ev["P"].flags) \ {"PF_RECVD"}
<1>1. Agreeing(c)
  <2>1. tx["P"].cm \in SUBSET Flag
    BY PrimaryPeers DEF Typed, Thread
  <2>. QED BY <2>1, ContextAgreed, Zenon
<1>2. /\ tx["P"].pc = "tail"
      /\ Store("P", d)
      /\ ev' = [ev EXCEPT !["P"].flags = {}]
      /\ tx' = [tx EXCEPT !["P"] =
                   [pc |-> IF cm1 = {} THEN "wait" ELSE "serve", cm |-> cm1]]
  BY PrimaryPeers, TxTailLeft, Zenon
<1>3. Agreeing(d)
  BY <1>1, TailLeftAgreed
<1>. HIDE DEF d, cm1
<1>4. \A r \in Station \ {"P"} : tx'[r] = tx[r] /\ ev'[r] = ev[r]
  BY <1>2, PrimaryPeers DEF Typed
<1>. QED BY <1>2, <1>3, <1>4, AgreeingStored

\* The primary takes a frame from the line.  A UA for its SNRM comes from a
\* peer that is connected by then.
LEMMA ReceiveAccords ==
    ASSUME Typed, Accord, RxFrame("P")
    PROVE  Accord' /\ Follows
<1>. DEFINE m == Head(chan["P"])
            c == [Context("P", {}) EXCEPT !.x.idl = FALSE]
            d == Received("P")
            q == st["P"].c_peer
<1>1. /\ Sound("P", d) /\ chan["P"] # << >> /\ chan["P"] \in Seq(LineFrame)
      /\ OnlyAt("P") /\ st'["P"] = d.x /\ pr'["P"] = d.p
      /\ api' = Notified("P", d.app) /\ tx' = tx
      /\ chan'["P"] = Tail(chan["P"]) /\ \A r \in Station \ {"P"} : chan'[r] = chan[r]
  BY PrimaryPeers, Arrived
<1>2. LineOK(Everyone, chan) /\ st["P"].pri /\ st["P"].mode # "ABM"
  BY DEF Accord, Ends
<1>3. /\ ~m.cmd /\ m.type \in {"RR", "UA", "DM"} /\ Answers(chan'["P"])
      /\ \A r : From(r, chan["P"]) <=> From(r, chan'["P"]) \/ (m.src = r /\ m.type # "RR")
  BY <1>1, <1>2, HeadFacts, PartingHead DEF LineOK
<1>4. Begins("P", c)
  BY PrimaryPeers, ReceivedContext
<1>5. d = IF ~(m.cmd \/ m.src = c.x.c_peer) THEN c
          ELSE IF m.type = "RR" THEN IF c.x.rx_fn THEN RecvRR(c, m) ELSE c
          ELSE IF m.cmd THEN RecvCommand(c, m)
          ELSE RecvResponse(c, m)
  BY Zenon DEF Received
<1>. HIDE DEF m, c, d
<1>6. c.p = pr["P"] /\ c.x.c_peer = q /\ q \in Secs /\ PeerSet("P") = Secs
      /\ c.x.pri /\ c.x.mode = st["P"].mode /\ Sound("P", c) /\ "P" \in Station
  BY <1>2, <1>4, PrimaryPeers, SoundFacts DEF Begins
<1>. HIDE DEF q
<1>7. \/ d = c
      \/ d = RecvRR(c, m)
      \/ m.src = q /\ m.type # "RR" /\ c.p[q].sent /\ m.pf /\ d = RecvResponse(c, m)
  <2>1. ~(c.p[q].sent /\ m.pf) => RecvResponse(c, m) = c
    BY <1>6, Zenon DEF RecvResponse
  <2>. QED BY <1>3, <1>5, <1>6, <2>1, SMTT(30)
<1>8. \A r \in Secs : chan'[r] = chan[r]
  BY <1>1, PrimaryPeers
<1>9. LineOK(Everyone, chan') /\ \A r \in Secs : Calmer(r, chan, chan')
  BY <1>2, <1>3, <1>8 DEF LineOK, Everyone, Calmer
<1>10. \A r \in Secs : api'["P"][r].pc = api["P"][r].pc
  <2>1. d.app \in SUBSET AppFlag
    BY <1>1, <1>6, SoundFacts
  <2>. QED BY <1>1, <1>6, <2>1, NotifiedDoes
<1>11. \A r \in Secs : Agreed(r, pr["P"][r], api["P"][r], pr[r]["P"], chan)
  BY DEF Accord
\* All that remains is the station's mode and each peer.
<1>12. ASSUME d.x.pri, d.x.mode # "ABM",
              \A r \in Secs : \/ Believed(c.p[r], d.p[r]) \/ Gone(d.p[r])
                              \/ /\ Agreed(r, d.p[r], api'["P"][r], pr[r]["P"], chan')
                                 /\ c.p[r].sent /\ d.p[r].um_cmd = "none"
       PROVE  Accord' /\ Follows
  <2>1. \A r \in Secs : Agreed(r, pr'["P"][r], api'["P"][r], pr[r]["P"], chan')
    <3>. TAKE r \in Secs
    <3>1. CASE Agreed(r, d.p[r], api'["P"][r], pr[r]["P"], chan')
      BY <1>1, <3>1
    <3>2. CASE Believed(c.p[r], d.p[r]) \/ Gone(d.p[r])
      <4>1. Agreed(r, c.p[r], api["P"][r], pr[r]["P"], chan) /\ Calmer(r, chan, chan')
            /\ api'["P"][r].pc = api["P"][r].pc
        BY <1>6, <1>9, <1>10, <1>11
      <4>2. Agreed(r, d.p[r], api'["P"][r], pr[r]["P"], chan')
        BY <3>2, <4>1, AgreedKept
      <4>. QED BY <1>1, <4>2
    <3>. QED BY <1>12, <3>1, <3>2
  <2>2. st'["P"].pri /\ st'["P"].mode # "ABM"
    BY <1>1, <1>12
  <2>3. Follows
    <3>1. \A r \in Secs : pr'[r]["P"] = pr[r]["P"]
      BY <1>1, PrimaryPeers DEF OnlyAt
    <3>2. \A r \in Secs : Since(r, pr["P"][r], chan, pr'["P"][r], chan')
      BY <1>1, <1>6, <1>9, <1>11, <1>12 DEF Since, Agreed, Believed, Gone, Calmer
    <3>. QED BY <1>10, <3>1, <3>2 DEF Follows
  <2>. QED BY <1>1, <1>9, <2>1, <2>2, <2>3, PrimaryAccords
<1>13. CASE d = c
  <2>1. \A r \in Secs : Believed(c.p[r], d.p[r])
    BY <1>13 DEF Believed
  <2>2. d.x.pri /\ d.x.mode # "ABM"
    BY <1>2, <1>6, <1>13
  <2>. QED BY <1>12, <2>1, <2>2
<1>14. CASE d = RecvRR(c, m)
  <2>1. PICK o : o = c.x.c_peer
    OBVIOUS
  <2>2. /\ d.x.pri = c.x.pri /\ d.x.mode = c.x.mode
        /\ \A r \in PeerSet("P") \ {o} : d.p[r] = c.p[r]
        /\ d.p[o].conn = c.p[o].conn /\ d.p[o].um_cmd = c.p[o].um_cmd
        /\ d.p[o].sent = c.p[o].sent /\ d.p[o].rcved = c.p[o].rcved
    <3>1. ASSUME NEW s \in Station, Sound(s, c), NEW e, e = RecvRR(c, m)
          PROVE  /\ e.x.pri = c.x.pri /\ e.x.mode = c.x.mode
                 /\ \A r \in PeerSet(s) \ {o} : e.p[r] = c.p[r]
                 /\ e.p[o].conn = c.p[o].conn /\ e.p[o].um_cmd = c.p[o].um_cmd
                 /\ e.p[o].sent = c.p[o].sent /\ e.p[o].rcved = c.p[o].rcved
      BY <2>1, <3>1, RecvRRDoes
    <3>. QED BY <1>6, <1>14, <3>1, Zenon
  <2>3. \A r \in Secs : Believed(c.p[r], d.p[r])
    BY <1>6, <2>2 DEF Believed
  <2>4. d.x.pri /\ d.x.mode # "ABM"
    BY <1>2, <1>6, <2>2
  <2>. QED BY <1>12, <2>3, <2>4
<1>15. CASE m.src = q /\ m.type # "RR" /\ c.p[q].sent /\ m.pf /\ d = RecvResponse(c, m)
  <2>1. PICK n : n = (IF c.p[q].conn THEN c.x.connected_count - 1 ELSE c.x.connected_count)
    OBVIOUS
  <2>2. /\ \A r \in PeerSet("P") \ {q} : d.p[r] = c.p[r]
        /\ d.p[q].um_cmd = "none" /\ ~d.p[q].sent /\ ~d.p[q].rcved
        /\ c.p[q].um_cmd = "DISC" =>
              /\ ~d.p[q].conn /\ d.x.pri = c.x.pri /\ d.x.connected_count = n
              /\ ~(n > 0) => /\ ~d.x.rx_fn
                             /\ d.x.mode = IF c.x.mode = "NRM" THEN "NDM" ELSE "ADM"
              /\ n > 0 => d.x.mode = c.x.mode
        /\ c.p[q].um_cmd # "DISC" /\ m.type = "DM" =>
              /\ ~d.p[q].conn /\ d.x.pri = c.x.pri /\ d.x.mode = c.x.mode
        /\ c.p[q].um_cmd # "DISC" /\ m.type # "DM" =>
              /\ d.p[q].conn /\ d.x.mode = c.x.mode
              /\ d.x.pri = (c.x.pri \/ c.x.mode = "ABM")
    <3>1. q = c.x.c_peer /\ c.p[q].sent /\ m.pf /\ Sound("P", c) /\ "P" \in Station
          /\ d = RecvResponse(c, m)
      BY <1>6, <1>15
    <3>. QED BY <2>1, <3>1, RecvResponseDoes
  <2>3. d.x.pri /\ d.x.mode # "ABM"
    <3>1. CASE c.p[q].um_cmd = "DISC"
      <4>1. d.x.mode \in {"NDM", "ADM", c.x.mode}
        BY <2>2, <3>1
      <4>. QED BY <1>2, <1>6, <2>2, <3>1, <4>1
    <3>2. CASE c.p[q].um_cmd # "DISC"
      BY <1>2, <1>6, <2>2, <3>2
    <3>. QED BY <3>1, <3>2
  <2>4. \A r \in Secs \ {q} : Believed(c.p[r], d.p[r])
    BY <1>6, <2>2 DEF Believed
  <2>5. \/ Gone(d.p[q])
        \/ /\ Agreed(q, d.p[q], api'["P"][q], pr[q]["P"], chan')
           /\ c.p[q].sent /\ d.p[q].um_cmd = "none"
    <3>1. CASE c.p[q].um_cmd = "DISC" \/ m.type = "DM"
      BY <2>2, <3>1 DEF Gone
    <3>2. CASE c.p[q].um_cmd # "DISC" /\ m.type # "DM"
      <4>1. Agreed(q, c.p[q], api["P"][q], pr[q]["P"], chan)
        BY <1>6, <1>11
      <4>2. c.p[q].um_cmd = "SNRM" /\ From(q, chan["P"]) /\ chan'[q] = chan[q]
        BY <1>3, <1>6, <1>8, <1>15, <3>2, <4>1 DEF Agreed
      <4>3. Joined(q, pr[q]["P"], chan')
        BY <4>1, <4>2 DEF Agreed, Settled, Joined, Leaving
      <4>. QED BY <1>15, <2>2, <3>2, <4>3 DEF Agreed
    <3>. QED BY <3>1, <3>2
  <2>6. \A r \in Secs : \/ Believed(c.p[r], d.p[r]) \/ Gone(d.p[r])
                        \/ /\ Agreed(r, d.p[r], api'["P"][r], pr[r]["P"], chan')
                           /\ c.p[r].sent /\ d.p[r].um_cmd = "none"
    BY <2>4, <2>5, Zenon
  <2>. QED BY <1>12, <2>3, <2>6
<1>. QED BY <1>7, <1>13, <1>14, <1>15

\* A step at the primary that is about one peer.
LEMMA OnePeerAccords ==
    ASSUME Typed, Accord, NEW q \in Secs, NEW z2, NEW v2, NEW b2,
           st' = [st EXCEPT !["P"] = z2],
           pr' = [pr EXCEPT !["P"][q] = v2], api' = [api EXCEPT !["P"][q] = b2],
           \A r \in Station \ {"P"} : tx'[r] = tx[r] /\ ev'[r] = ev[r],
           chan' = chan, z2.pri, z2.mode # "ABM",
           Agreed(q, v2, b2, pr[q]["P"], chan)
    PROVE  Accord'
<1>1. /\ OnlyAt("P") /\ st'["P"] = z2 /\ pr'["P"][q] = v2 /\ api'["P"][q] = b2
      /\ \A r \in Secs \ {q} : pr'["P"][r] = pr["P"][r] /\ api'["P"][r] = api["P"][r]
  BY OnePeer
<1>2. \A r \in Secs : Agreed(r, pr'["P"][r], api'["P"][r], pr[r]["P"], chan')
  <2>. TAKE r \in Secs
  <2>1. CASE r = q
    BY <1>1, <2>1
  <2>2. CASE r # q
    <3>1. Agreed(r, pr["P"][r], api["P"][r], pr[r]["P"], chan)
      BY DEF Accord
    <3>. QED BY <1>1, <2>2, <3>1
  <2>. QED BY <2>1, <2>2
<1>3. LineOK(Everyone, chan')
  BY DEF Accord, Ends
<1>. QED BY <1>1, <1>2, <1>3, PrimaryAccords

\* The same when what is believed of the peer stays.
LEMMA BelievedAccords ==
    ASSUME Typed, Accord, NEW q \in Secs, NEW z2, NEW v2, NEW b2,
           st' = [st EXCEPT !["P"] = z2],
           pr' = [pr EXCEPT !["P"][q] = v2], api' = [api EXCEPT !["P"][q] = b2],
           \A r \in Station \ {"P"} : tx'[r] = tx[r] /\ ev'[r] = ev[r],
           chan' = chan, z2.pri, z2.mode # "ABM",
           Believed(pr["P"][q], v2),
           b2.pc = "upReq" => api["P"][q].pc = "upReq" \/ ~v2.conn
    PROVE  Accord'
<1>1. Agreed(q, pr["P"][q], api["P"][q], pr[q]["P"], chan)
  BY DEF Accord
<1>2. Agreed(q, v2, b2, pr[q]["P"], chan)
  BY <1>1 DEF Agreed, Believed
<1>. QED BY <1>2, OnePeerAccords

LEMMA BroadcastOthers ==
    ASSUME Typed, NEW g \in SUBSET Flag, ev' = Broadcast("P", g), tx' = tx
    PROVE  \A r \in Station \ {"P"} : tx'[r] = tx[r] /\ ev'[r] = ev[r]
<1>1. PICK e : e = Broadcast("P", g)
  OBVIOUS
<1>2. \A r \in Station \ {"P"} : e[r] = ev[r]
  BY <1>1, PrimaryPeers, BroadcastDoes
<1>. QED BY <1>1, <1>2

LEMMA CallAccords ==
    ASSUME Mode = "NRM", Typed, Accord, NEW q \in Secs,
           LinkUpBegin("P", q) \/ LinkDownBegin("P", q) \/ LinkEvent("P", q) \/ LinkTimeout("P", q)
    PROVE  Accord'
<1>. DEFINE v == pr["P"][q]
            z == st["P"]
            b == api["P"][q]
<1>1. /\ v \in PeerState /\ z \in StationState("P") /\ b \in Call
      /\ z.pri /\ z.mode # "ABM" /\ b.s_mode # "ABM"
  BY PrimaryPeers DEF Typed, Accord, Call
<1>2. Believed(v, v)
  BY DEF Believed
<1>3. pr' = pr /\ ev' = ev /\ tx' = tx /\ chan' = chan
  BY DEF LinkUpBegin, LinkDownBegin, LinkEvent, LinkTimeout
<1>4. pr' = [pr EXCEPT !["P"][q] = v]
  BY <1>3, SamePeer
<1>5. \E mode, b2 :
         /\ mode # "ABM"
         /\ b2.pc = "upReq" => b.pc = "upReq" \/ ~v.conn
         /\ st' = [st EXCEPT !["P"] = [z EXCEPT !.mode = mode]]
         /\ api' = [api EXCEPT !["P"][q] = b2]
  <2>1. CASE LinkUpBegin("P", q)
    <3>. DEFINE disc == z.mode \in {"NDM", "ADM"}
                mode == IF disc THEN "NRM" ELSE z.mode
                b2 == [pc |-> "upReq", flags |-> {}, s_mode |-> IF disc THEN z.mode ELSE "0"]
    <3>1. /\ ~v.conn
          /\ st' = [st EXCEPT !["P"].pri = @ \/ Mode = "ABM",
                              !["P"].mode = IF disc THEN Mode ELSE @]
          /\ api' = [api EXCEPT !["P"][q] = b2]
      BY <2>1, Zenon DEF LinkUpBegin
    <3>2. st' = [st EXCEPT !["P"] = [z EXCEPT !.mode = mode]]
      <4>1. Table(st) /\ "P" \in Station
        BY PrimaryPeers DEF Typed
      <4>2. [z EXCEPT !.pri = @ \/ Mode = "ABM", !.mode = IF disc THEN Mode ELSE @]
               = [z EXCEPT !.mode = mode]
        BY <1>1 DEF StationState
      <4>3. st' = [st EXCEPT !["P"] = [z EXCEPT !.pri = @ \/ Mode = "ABM",
                                                !.mode = IF disc THEN Mode ELSE @]]
        BY <3>1, <4>1, Zenon DEF Table
      <4>. QED BY <4>2, <4>3, Zenon
    <3>3. mode # "ABM"
      BY <1>1
    <3>. HIDE DEF mode, b2
    <3>. QED BY <3>1, <3>2, <3>3, Zenon
  <2>2. CASE LinkDownBegin("P", q)
    <3>. DEFINE b2 == [IdleCall EXCEPT !.pc = "downReq"]
    <3>1. st' = st /\ api' = [api EXCEPT !["P"][q] = b2]
      BY <2>2, Zenon DEF LinkDownBegin
    <3>2. st' = [st EXCEPT !["P"] = [z EXCEPT !.mode = z.mode]]
      <4>1. [z EXCEPT !.mode = z.mode] = z
        BY <1>1 DEF StationState
      <4>. QED BY <3>1, <4>1, SamePeer, Zenon
    <3>3. b2.pc # "upReq"
      BY DEF IdleCall
    <3>. HIDE DEF b2
    <3>. QED BY <1>1, <3>1, <3>2, <3>3, Zenon
  <2>3. CASE LinkEvent("P", q)
    <3>. DEFINE refused == b.pc = "up" /\ "LINK_REFUSED" \in b.flags /\ ~v.conn
                over == \/ b.pc = "up" /\ "LINK_UP" \in b.flags /\ v.conn
                        \/ b.pc = "down" /\ "LINK_DOWN" \in b.flags /\ ~v.conn
                        \/ refused
                b2 == IF over THEN IdleCall ELSE [b EXCEPT !.flags = {}]
                mode == IF refused THEN b.s_mode ELSE z.mode
    <3>1. /\ b.pc \in {"up", "down"}
          /\ api' = [api EXCEPT !["P"][q] = b2]
          /\ st' = [st EXCEPT !["P"].mode = mode]
      BY <2>3 DEF LinkEvent
    <3>2. b2.pc # "upReq"
      <4>. HIDE DEF over
      <4>. QED BY <1>1, <3>1 DEF Call, IdleCall
    <3>3. mode # "ABM"
      BY <1>1
    <3>. HIDE DEF b2, mode
    <3>4. st' = [st EXCEPT !["P"] = [z EXCEPT !.mode = mode]]
      BY <3>1
    <3>. QED BY <3>1, <3>2, <3>3, <3>4, Zenon
  <2>4. CASE LinkTimeout("P", q)
    <3>. DEFINE mode == IF b.pc = "up" THEN b.s_mode ELSE z.mode
    <3>1. /\ api' = [api EXCEPT !["P"][q] = IdleCall]
          /\ st' = [st EXCEPT !["P"].mode = mode]
      BY <2>4 DEF LinkTimeout
    <3>2. IdleCall.pc # "upReq"
      BY DEF IdleCall
    <3>3. mode # "ABM"
      BY <1>1
    <3>. HIDE DEF mode
    <3>4. st' = [st EXCEPT !["P"] = [z EXCEPT !.mode = mode]]
      BY <3>1
    <3>. QED BY <3>1, <3>2, <3>3, <3>4, Zenon
  <2>. QED BY <2>1, <2>2, <2>3, <2>4
<1>6. PICK mode, b2 :
         /\ mode # "ABM"
         /\ b2.pc = "upReq" => b.pc = "upReq" \/ ~v.conn
         /\ st' = [st EXCEPT !["P"] = [z EXCEPT !.mode = mode]]
         /\ api' = [api EXCEPT !["P"][q] = b2]
  BY <1>5, Zenon
<1>7. PICK z2 : z2 = [z EXCEPT !.mode = mode]
  OBVIOUS
<1>8. z2.pri /\ z2.mode # "ABM"
  BY <1>1, <1>6, <1>7 DEF StationState
<1>9. \A r \in Station \ {"P"} : tx'[r] = tx[r] /\ ev'[r] = ev[r]
  BY <1>3
<1>. QED BY <1>2, <1>3, <1>4, <1>6, <1>7, <1>8, <1>9, BelievedAccords, Zenon

\* The command is asked for.  A new connection is asked for when nothing of an
\* earlier one is under way.
LEMMA RequestCallAccords ==
    ASSUME Mode = "NRM", Typed, Accord, NEW q \in Secs, LinkRequest("P", q),
           api["P"][q].pc = "upReq" => Settled(q, pr[q]["P"], chan)
    PROVE  Accord'
<1>. DEFINE v == pr["P"][q]
            z == st["P"]
            b == api["P"][q]
            up == b.pc = "upReq"
            b2 == [b EXCEPT !.pc = IF up THEN "up" ELSE "down"]
            v2 == [v EXCEPT !.um_cmd = IF up THEN "SNRM" ELSE "DISC"]
<1>1. /\ b.pc \in {"upReq", "downReq"}
      /\ api' = [api EXCEPT !["P"][q] = b2]
      /\ pr' = [pr EXCEPT !["P"][q] = v2]
      /\ ev' = Broadcast("P", {"LINK_REQ"})
      /\ UNCHANGED <<st, tx, chan>>
  <2>1. SetMode = "SNRM"
    BY DEF SetMode
  <2>. QED BY <2>1 DEF LinkRequest
<1>2. v \in PeerState /\ b \in Call /\ z.pri /\ z.mode # "ABM"
      /\ Agreed(q, v, b, pr[q]["P"], chan)
  BY PrimaryPeers DEF Typed, Accord
<1>3. /\ b2.pc = IF up THEN "up" ELSE "down"
      /\ v2.um_cmd = IF up THEN "SNRM" ELSE "DISC"
      /\ v2.conn = v.conn /\ v2.sent = v.sent /\ v2.rcved = v.rcved
  BY <1>2 DEF PeerState, Call
<1>4. st' = [st EXCEPT !["P"] = z]
  BY <1>1, SamePeer
<1>5. \A r \in Station \ {"P"} : tx'[r] = tx[r] /\ ev'[r] = ev[r]
  <2>1. {"LINK_REQ"} \in SUBSET Flag
    BY DEF Flag
  <2>. QED BY <1>1, <2>1, BroadcastOthers
<1>6. up => Settled(q, pr[q]["P"], chan)
  OBVIOUS
<1>. HIDE DEF v, z, b, b2, v2, up
<1>7. Agreed(q, v2, b2, pr[q]["P"], chan)
  <2>1. CASE up
    BY <1>2, <1>3, <1>6, <2>1 DEF Agreed, up
  <2>2. CASE ~up
    BY <1>2, <1>3, <2>2 DEF Agreed
  <2>. QED BY <2>1, <2>2
<1>. QED BY <1>1, <1>2, <1>4, <1>5, <1>7, OnePeerAccords, Zenon

\* A timer runs out, the TX thread fetches its events, or the line is idle.
LEMMA AsideAccords ==
    ASSUME Typed, Accord,
           \/ TxFetch("P") \/ RxIdle("P")
           \/ \E q \in Secs : T1Expire("P", q) \/ T3Expire("P", q)
    PROVE  Accord'
<1>1. /\ "P" \in Station /\ Table(st) /\ tx \in [Station -> Thread]
      /\ ev \in [Station -> Events] /\ st["P"] \in StationState("P")
      /\ st["P"].pri /\ st["P"].mode # "ABM"
      /\ \A q \in Secs : pr["P"][q] \in PeerState
  BY PrimaryPeers DEF Typed, Accord
<1>2. PICK q \in Secs : TRUE
  BY PrimaryPeers DEF Typed, StationState
<1>3. \A v : Believed(v, v)
  BY DEF Believed
<1>4. CASE TxFetch("P")
  <2>1. /\ tx' = [tx EXCEPT !["P"] = [pc |-> "serve", cm |-> ev["P"].flags]]
        /\ ev' = [ev EXCEPT !["P"] = [flags |-> {}, pending |-> FALSE]]
        /\ UNCHANGED <<st, pr, api, chan>>
    BY <1>4 DEF TxFetch
  <2>2. \A r \in Station \ {"P"} : tx'[r] = tx[r] /\ ev'[r] = ev[r]
    BY <1>1, <2>1
  <2>3. /\ st' = [st EXCEPT !["P"] = st["P"]]
        /\ pr' = [pr EXCEPT !["P"][q] = pr["P"][q]]
        /\ api' = [api EXCEPT !["P"][q] = api["P"][q]]
    BY <1>2, <2>1, SamePeer
  <2>. QED BY <1>1, <1>3, <2>1, <2>2, <2>3, BelievedAccords
<1>5. CASE RxIdle("P")
  <2>. DEFINE y == [st["P"] EXCEPT !.idl = TRUE]
  <2>1. /\ st' = [st EXCEPT !["P"] = y] /\ ev' = Broadcast("P", {"LINE_IDLE"})
        /\ UNCHANGED <<pr, tx, api, chan>>
    BY <1>5 DEF RxIdle
  <2>2. y.pri /\ y.mode # "ABM"
    BY <1>1 DEF StationState
  <2>. HIDE DEF y
  <2>3. \A r \in Station \ {"P"} : tx'[r] = tx[r] /\ ev'[r] = ev[r]
    <3>1. {"LINE_IDLE"} \in SUBSET Flag
      BY DEF Flag
    <3>. QED BY <2>1, <3>1, BroadcastOthers
  <2>4. /\ pr' = [pr EXCEPT !["P"][q] = pr["P"][q]]
        /\ api' = [api EXCEPT !["P"][q] = api["P"][q]]
    BY <1>2, <2>1, SamePeer
  <2>. QED BY <1>3, <2>1, <2>2, <2>3, <2>4, BelievedAccords
<1>6. ASSUME NEW r \in Secs, NEW v2, Believed(pr["P"][r], v2),
             pr' = [pr EXCEPT !["P"][r] = v2], UNCHANGED <<st, tx, api, chan>>,
             NEW g \in SUBSET Flag, ev' = Broadcast("P", g)
      PROVE  Accord'
  <2>1. \A s \in Station \ {"P"} : tx'[s] = tx[s] /\ ev'[s] = ev[s]
    BY <1>6, BroadcastOthers
  <2>2. /\ st' = [st EXCEPT !["P"] = st["P"]]
        /\ api' = [api EXCEPT !["P"][r] = api["P"][r]]
    BY <1>6, SamePeer
  <2>. QED BY <1>1, <1>6, <2>1, <2>2, BelievedAccords
<1>7. ASSUME NEW r \in Secs, T1Expire("P", r) PROVE Accord'
  <2>. DEFINE v2 == [pr["P"][r] EXCEPT !.t1 = "expired"]
  <2>1. /\ pr' = [pr EXCEPT !["P"][r] = v2] /\ ev' = Broadcast("P", {"C_RPLYTMO"})
        /\ UNCHANGED <<st, tx, api, chan>>
    BY <1>7 DEF T1Expire
  <2>2. Believed(pr["P"][r], v2)
    BY <1>1 DEF Believed, PeerState
  <2>3. {"C_RPLYTMO"} \in SUBSET Flag
    BY DEF Flag
  <2>. HIDE DEF v2
  <2>. QED BY <1>6, <2>1, <2>2, <2>3, Zenon
<1>8. ASSUME NEW r \in Secs, T3Expire("P", r) PROVE Accord'
  <2>. DEFINE v2 == [pr["P"][r] EXCEPT !.t3 = "expired"]
  <2>1. /\ pr' = [pr EXCEPT !["P"][r] = v2] /\ ev' = Broadcast("P", {"T3_TMO"})
        /\ UNCHANGED <<st, tx, api, chan>>
    BY <1>8 DEF T3Expire
  <2>2. Believed(pr["P"][r], v2)
    BY <1>1 DEF Believed, PeerState
  <2>3. {"T3_TMO"} \in SUBSET Flag
    BY DEF Flag
  <2>. HIDE DEF v2
  <2>. QED BY <1>6, <2>1, <2>2, <2>3, Zenon
<1>. QED BY <1>4, <1>5, <1>7, <1>8

LEMMA LoseCalmer ==
    ASSUME Typed, NEW s \in Station, Lose(s), NEW q \in Secs
    PROVE  Calmer(q, chan, chan')
<1>1. /\ chan \in [Station -> Seq(LineFrame)] /\ chan[s] # << >>
      /\ chan' = [chan EXCEPT ![s] = Tail(@)]
  BY DEF Lose, Typed, Line
<1>2. chan'[s] = Tail(chan[s]) /\ \A r \in Station \ {s} : chan'[r] = chan[r]
  BY <1>1
<1>3. /\ Parting(chan'[s]) => Parting(chan[s])
      /\ \A r : From(r, chan'[s]) => From(r, chan[s])
  BY <1>1, <1>2, PartingHead
<1>. QED BY <1>2, <1>3, PrimaryPeers DEF Calmer

\* A frame is lost, at any station.
LEMMA LoseAccords ==
    ASSUME Typed, Accord, NEW s \in Station, Lose(s)
    PROVE  Accord'
<1>1. /\ chan[s] # << >> /\ chan' = [chan EXCEPT ![s] = Tail(@)]
      /\ UNCHANGED <<st, pr, tx, ev, api>>
  BY DEF Lose
<1>2. chan \in [Station -> Seq(LineFrame)]
  BY DEF Typed, Line
<1>3. chan'[s] = Tail(chan[s]) /\ \A r \in Station \ {s} : chan'[r] = chan[r]
  BY <1>1, <1>2
<1>4. /\ Orders(chan[s]) => Orders(chan'[s])
      /\ Answers(chan[s]) => Answers(chan'[s])
  BY <1>1, <1>2, <1>3, HeadFacts
<1>5. LineOK(Everyone, chan')
  <2>1. LineOK(Everyone, chan)
    BY DEF Accord, Ends
  <2>2. Answers(chan'["P"])
    BY <1>3, <1>4, <2>1, PrimaryPeers DEF LineOK
  <2>3. \A r \in Secs : Orders(chan'[r])
    BY <1>3, <1>4, <2>1, PrimaryPeers DEF LineOK
  <2>. QED BY <2>2, <2>3 DEF LineOK, Everyone
<1>6. \A q \in Secs : Calmer(q, chan, chan')
  BY LoseCalmer
<1>7. \A q \in Secs : Agreed(q, pr["P"][q], api["P"][q], pr[q]["P"], chan')
  <2>. TAKE q \in Secs
  <2>1. Agreed(q, pr["P"][q], api["P"][q], pr[q]["P"], chan) /\ Calmer(q, chan, chan')
    BY <1>6 DEF Accord
  <2>2. Believed(pr["P"][q], pr["P"][q]) /\ (api["P"][q].pc = "upReq" => api["P"][q].pc = "upReq")
    BY DEF Believed
  <2>. QED BY <2>1, <2>2, AgreedKept
<1>. QED BY <1>1, <1>5, <1>7, Zenon DEF Accord, Ends, InFlight, Hand

\* The secondary s, which is w on the line ch after a step of its own, is as
\* settled and as joined as before, and only its own answers are new.
Steady(s, w, ch) ==
    /\ Settled(s, pr[s]["P"], chan) => Settled(s, w, ch)
    /\ Joined(s, pr[s]["P"], chan) => Joined(s, w, ch)
    /\ \A q \in Secs \ {s} : From(q, ch["P"]) => From(q, chan["P"])

\* A peer of a secondary that stays connected as it was, and is told nothing.
Same(v, w) == w.conn = v.conn /\ w.um_cmd = v.um_cmd /\ w.rcved = v.rcved

LEMMA SameSteady ==
    ASSUME NEW s \in Secs, NEW w, Same(pr[s]["P"], w), NEW ch,
           Parting(ch[s]) => Parting(chan[s]),
           \A q \in Secs : From(q, ch["P"]) => From(q, chan["P"])
    PROVE  Steady(s, w, ch)
BY DEF Steady, Same, Settled, Joined, Leaving

LEMMA SecondaryAccords ==
    ASSUME Accord, NEW s \in Secs, Moved(Everyone, s), Steady(s, pr'[s]["P"], chan')
    PROVE  Accord'
<1>. USE DEF Moved
<1>1. s \in Station /\ s # "P" /\ "P" \in Station /\ \A r \in Secs : r \in Station
  BY PrimaryPeers
<1>2. /\ st'["P"] = st["P"] /\ pr'["P"] = pr["P"] /\ api'["P"] = api["P"]
      /\ \A r \in Secs \ {s} : /\ st'[r] = st[r] /\ pr'[r] = pr[r] /\ api'[r] = api[r]
                               /\ tx'[r] = tx[r] /\ ev'[r] = ev[r]
  BY <1>1 DEF OnlyAt
<1>3. Ends(Everyone)
  BY DEF Accord
<1>4. \A r \in Secs : Hand(r)'
  <2>. TAKE r \in Secs
  <2>1. CASE r = s
    BY <2>1
  <2>2. CASE r # s
    BY <1>2, <1>3, <2>2 DEF Hand, Ends
  <2>. QED BY <2>1, <2>2
<1>5. \A r \in Secs : Secondary(st[r], pr[r]["P"], api[r]["P"], InFlight(r))'
  <2>. TAKE r \in Secs
  <2>1. CASE r = s
    BY <2>1
  <2>2. CASE r # s
    <3>1. Secondary(st[r], pr[r]["P"], api[r]["P"], InFlight(r))
      BY <1>3 DEF Ends
    <3>. QED BY <1>2, <2>2, <3>1, Zenon DEF InFlight
  <2>. QED BY <2>1, <2>2
<1>6. Ends(Everyone)'
  BY <1>4, <1>5 DEF Ends, Everyone
<1>7. \A q \in Secs : Agreed(q, pr'["P"][q], api'["P"][q], pr'[q]["P"], chan')
  <2>. TAKE q \in Secs
  <2>1. Agreed(q, pr["P"][q], api["P"][q], pr[q]["P"], chan)
    BY DEF Accord
  <2>2. /\ Settled(q, pr[q]["P"], chan) => Settled(q, pr'[q]["P"], chan')
        /\ Joined(q, pr[q]["P"], chan) => Joined(q, pr'[q]["P"], chan')
    <3>1. CASE q = s
      BY <3>1 DEF Steady
    <3>2. CASE q # s
      <4>1. /\ pr'[q] = pr[q] /\ chan'[q] = chan[q]
            /\ From(q, chan'["P"]) => From(q, chan["P"])
        BY <1>2, <3>2 DEF Steady
      <4>. QED BY <4>1 DEF Settled, Joined, Leaving
    <3>. QED BY <3>1, <3>2
  <2>. QED BY <1>2, <2>1, <2>2, Zenon DEF Agreed
<1>. QED BY <1>2, <1>6, <1>7 DEF Accord

\* The answers that are added to those on their way to the primary.
LEMMA AnsweredFrom ==
    ASSUME NEW ch \in Line, NEW m \in LineFrame, NEW ch2, ch2 = Answered(ch, m)
    PROVE  /\ \A r \in Secs : ch2[r] = ch[r]
           /\ \A r : From(r, ch2["P"]) <=> From(r, ch["P"]) \/ (m.src = r /\ m.type # "RR")
<1>1. "P" \in Station /\ "P" \notin Secs /\ \A r \in Secs : r \in Station
  BY PrimaryPeers
<1>2. ch["P"] \in Seq(LineFrame)
  BY <1>1 DEF Line
<1>3. ch2["P"] = Append(ch["P"], m) /\ \A r \in Secs : ch2[r] = ch[r]
  BY <1>1 DEF Line, Answered
<1>. QED BY <1>2, <1>3, PartingFacts

\* The U response: what follows a DISC was leaving before; the response to
\* anything else comes from a connected peer.
LEMMA ResponseSteady ==
    ASSUME Typed, Ends(Everyone), NEW s \in Secs, NEW c, Sound(s, c), c.to = "on",
           c.chan = chan, c.p = pr[s], NEW d, d = ServeResponse(s, c)
    PROVE  Steady(s, d.p["P"], d.chan)
<1>1. s \in Station /\ PeerSet(s) = {"P"} /\ c.x.c_peer = "P" /\ c.p["P"] \in PeerState
      /\ c.x \in StationState(s)
  BY PrimaryPeers, SoundFacts
<1>2. CASE ~c.p["P"].rcved
  <2>1. d = c
    BY <1>1, <1>2, Zenon DEF ServeResponse
  <2>2. Same(pr[s]["P"], d.p["P"])
    BY <2>1 DEF Same
  <2>. QED BY <2>1, <2>2, SameSteady
<1>3. CASE c.p["P"].rcved
  <2>0. PICK m : m = [type |-> c.p["P"].um_rsp, cmd |-> FALSE, pf |-> c.x.p_rcved, src |-> s]
    BY Zenon
  <2>1. /\ d.chan = [c.chan EXCEPT !["P"] = Append(@, m)]
        /\ ~d.p["P"].rcved
        /\ c.p["P"].um_cmd # "DISC" => d.p["P"].conn = c.p["P"].conn
    <3>1. PICK q : q = c.x.c_peer
      OBVIOUS
    <3>2. c.p[q].rcved
      BY <1>1, <1>3, <3>1
    <3>3. m = [type |-> c.p[q].um_rsp, cmd |-> FALSE, pf |-> c.x.p_rcved, src |-> s]
      BY <1>1, <2>0, <3>1
    <3>4. /\ d.chan = [c.chan EXCEPT ![q] = Append(@, m)]
          /\ ~d.p[q].rcved
          /\ c.p[q].um_cmd # "DISC" => d.p[q].conn = c.p[q].conn
      BY <1>1, <3>1, <3>2, <3>3, ServeResponseDoes
    <3>5. q = "P"
      BY <1>1, <3>1
    <3>. QED BY <3>4, <3>5
  <2>2. m \in LineFrame /\ m.src = s
    <3>1. c.p["P"].um_rsp # "none"
      <4>1. Secondary(st[s], pr[s]["P"], api[s]["P"], InFlight(s))
        BY DEF Ends
      <4>. QED BY <1>3, <4>1 DEF Secondary
    <3>2. c.x.p_rcved \in BOOLEAN /\ c.p["P"].um_rsp \in {"UA", "DM"}
      BY <1>1, <3>1 DEF StationState, PeerState
    <3>. QED BY <1>1, <2>0, <3>2 DEF LineFrame
  <2>3. /\ \A r \in Secs : d.chan[r] = chan[r]
        /\ \A r \in Secs \ {s} : From(r, d.chan["P"]) => From(r, chan["P"])
    <3>1. chan \in Line /\ d.chan = Answered(chan, m)
      BY <2>1 DEF Typed, Answered
    <3>. QED BY <2>2, <3>1, AnsweredFrom
  <2>4. c.p["P"].um_cmd = "DISC" => Leaving(s, pr[s]["P"], chan)
    BY <1>3 DEF Leaving
  <2>. QED BY <1>3, <2>1, <2>3, <2>4 DEF Steady, Settled, Joined, Leaving
<1>. QED BY <1>2, <1>3

LEMMA ServeSteady ==
    ASSUME Typed, Ends(Everyone), NEW s \in Secs, TxServe(s)
    PROVE  Steady(s, pr'[s]["P"], chan')
<1>. DEFINE c0 == Context(s, tx[s].cm)
            c1 == ServeCommand(s, c0)
            c2 == ServeResponse(s, c1)
            c3 == ServeDisconnected(s, c2)
            d == ServeTimers(c3)
<1>1. s \in Station /\ PeerSet(s) = {"P"}
  BY PrimaryPeers
<1>2. /\ AtSecondary(Everyone, s, c0, chan, InFlight(s)) /\ c0.to = "on"
      /\ c0.p = pr[s] /\ c0.chan = chan /\ c0.cm = tx[s].cm /\ c0.x.c_peer = "P"
  BY ContextAtSecondary
<1>3. Store(s, d)
  BY <1>1, TxServeRound DEF Round
<1>. HIDE DEF c0
<1>4. AtSecondary(Everyone, s, c0, c0.chan, ev[s].flags \union c0.cm)
  BY <1>2 DEF InFlight
<1>5. c1 = c0
  <2>1. "LINK_REQ" \notin c0.cm /\ ~c0.p[c0.x.c_peer].sent
    BY <1>2, <1>4 DEF AtSecondary, Secondary
  <2>. QED BY <2>1, Zenon DEF ServeCommand
<1>. HIDE DEF c1
<1>6. /\ AtSecondary(Everyone, s, c2, c2.chan, ev[s].flags \union c2.cm) /\ c2.to = "on"
      /\ ~c2.p["P"].rcved
  BY <1>2, <1>4, <1>5, ResponseKept
<1>7. Steady(s, c2.p["P"], c2.chan)
  <2>1. Sound(s, c1) /\ c1.to = "on" /\ c1.chan = chan /\ c1.p = pr[s]
    BY <1>2, <1>5 DEF AtSecondary
  <2>. QED BY <2>1, ResponseSteady
<1>. HIDE DEF c2
<1>8. Sound(s, c2) /\ c2.x.c_peer = "P"
  BY <1>1, <1>6, SoundFacts DEF AtSecondary
<1>9. Sound(s, c3) /\ Sound(s, d)
  BY <1>8, <1>1, ServeDisconnectedSound, ServeTimersSound
<1>10. SameLink(s, c2, c3) /\ c3.cm \subseteq c2.cm \union {"LINK_ST_CHG"}
  <2>1. \A v, free : v = c2.p[c2.x.c_peer]
            /\ (free <=> c2.x.pri /\ ~v.conn /\ v.um_cmd = "none" /\ ~v.sent)
            => SameLink(s, c2, c3) /\ c3.cm \subseteq c2.cm \union {"LINK_ST_CHG"}
    BY <1>1, <1>8, ServeDisconnectedDoes
  <2>. QED BY <2>1, Zenon
<1>. HIDE DEF c3
<1>11. "C_RPLYTMO" \notin c3.cm
  BY <1>6, <1>10 DEF AtSecondary, Secondary
<1>12. SameLink(s, c3, d)
  <2>1. \A q, late : q = c3.x.c_peer
            /\ (late <=> c3.to = "on" /\ c3.x.mode \in {"NRM", "ABM"} /\ "C_RPLYTMO" \in c3.cm
                         /\ c3.p[q].t1 = "expired" /\ Exhausted(c3, q))
            => (~late => SameLink(s, c3, d))
    BY <1>1, <1>9, ServeTimersDoes
  <2>. QED BY <1>11, <2>1, Zenon
<1>. HIDE DEF d
<1>13. Same(c2.p["P"], d.p["P"]) /\ d.chan = c2.chan
  BY <1>1, <1>10, <1>12 DEF SameLink, Alike, Same
<1>14. pr'[s] = d.p /\ chan' = d.chan
  <2>1. pr' = [pr EXCEPT ![s] = d.p] /\ chan' = d.chan
    BY <1>3 DEF Store
  <2>. QED BY <1>1, <2>1 DEF Typed, Table
<1>. QED BY <1>7, <1>13, <1>14 DEF Steady, Same, Settled, Joined, Leaving

LEMMA TailSteady ==
    ASSUME Typed, Ends(Everyone), NEW s \in Secs, TxTail(s)
    PROVE  Steady(s, pr'[s]["P"], chan')
<1>1. PICK c : c = Context(s, tx[s].cm)
  OBVIOUS
<1>2. /\ AtSecondary(Everyone, s, c, chan, InFlight(s)) /\ c.p = pr[s] /\ s \in Station
  BY <1>1, ContextAtSecondary, PrimaryPeers
<1>3. PICK e : e = TailSent(s)
  OBVIOUS
<1>4. /\ e.x.pri = c.x.pri /\ e.p = c.p
      /\ e.chan = chan \/ \E m \in LineFrame :
            ~m.cmd /\ m.type = "RR" /\ e.chan = Answered(chan, m)
  BY <1>1, <1>3, TailSentSecondary
<1>5. Store(s, e)
  <2>1. ~e.x.pri
    BY <1>2, <1>4 DEF AtSecondary, Secondary
  <2>2. TailLeft(s) = e
    BY <1>3, <2>1, Zenon DEF TailLeft
  <2>3. Store(s, TailLeft(s))
    BY <1>2, TxTailLeft, Zenon
  <2>. QED BY <2>2, <2>3
<1>6. pr'[s] = pr[s] /\ chan' = e.chan
  <2>1. pr' = [pr EXCEPT ![s] = e.p] /\ chan' = e.chan
    BY <1>5 DEF Store
  <2>. QED BY <1>2, <1>4, <2>1 DEF Typed, Table
<1>7. /\ \A r \in Secs : chan'[r] = chan[r]
      /\ \A r \in Secs : From(r, chan'["P"]) => From(r, chan["P"])
  <2>1. chan \in Line
    BY DEF Typed
  <2>2. ASSUME NEW m \in LineFrame, m.type = "RR", chan' = Answered(chan, m)
        PROVE  /\ \A r \in Secs : chan'[r] = chan[r]
               /\ \A r \in Secs : From(r, chan'["P"]) => From(r, chan["P"])
    BY <2>1, <2>2, AnsweredFrom
  <2>. QED BY <1>4, <1>6, <2>2
<1>8. Same(pr[s]["P"], pr'[s]["P"])
  BY <1>6 DEF Same
<1>. QED BY <1>7, <1>8, SameSteady

\* A secondary that takes a DISC was leaving before; one that takes a SNRM is
\* connected by it.
LEMMA ReceiveSteady ==
    ASSUME Typed, Ends(Everyone), NEW s \in Secs, RxFrame(s)
    PROVE  Steady(s, pr'[s]["P"], chan')
<1>. DEFINE m == Head(chan[s])
            c == [Context(s, {}) EXCEPT !.x.idl = FALSE]
            d == Received(s)
<1>1. s \in Station /\ PeerSet(s) = {"P"} /\ "P" \in Station \ {s}
  BY PrimaryPeers
<1>2. /\ Sound(s, d) /\ chan[s] # << >> /\ chan[s] \in Seq(LineFrame)
      /\ pr'[s] = d.p
      /\ chan'[s] = Tail(chan[s]) /\ chan'["P"] = chan["P"]
  BY <1>1, Arrived
<1>3. /\ m \in LineFrame /\ m.cmd /\ m.type \in {"RR", "SNRM", "DISC"}
      /\ Parting(chan[s]) <=> Parting(chan'[s]) \/ m.type = "DISC"
  BY <1>2, HeadFacts, PartingHead DEF Ends, LineOK
<1>4. Begins(s, c)
  BY <1>1, ReceivedContext
<1>5. d = IF ~(m.cmd \/ m.src = c.x.c_peer) THEN c
          ELSE IF m.type = "RR" THEN IF c.x.rx_fn THEN RecvRR(c, m) ELSE c
          ELSE IF m.cmd THEN RecvCommand(c, m)
          ELSE RecvResponse(c, m)
  BY Zenon DEF Received
<1>. HIDE DEF m, c, d
<1>6. c.p = pr[s] /\ c.x.c_peer = "P" /\ Sound(s, c)
  BY <1>1, <1>4, SoundFacts DEF Begins
<1>7. \/ d = c
      \/ d = RecvRR(c, m)
      \/ m.type # "RR" /\ ~c.p["P"].rcved /\ d = RecvCommand(c, m)
  <2>1. c.p["P"].rcved => RecvCommand(c, m) = c
    BY <1>6 DEF RecvCommand
  <2>. QED BY <1>3, <1>5, <2>1
<1>8. Same(pr[s]["P"], d.p["P"]) => Steady(s, pr'[s]["P"], chan')
  BY <1>2, <1>3, SameSteady
<1>9. CASE d = c
  BY <1>6, <1>8, <1>9 DEF Same
<1>10. CASE d = RecvRR(c, m)
  <2>1. PICK q : q = c.x.c_peer
    OBVIOUS
  <2>2. /\ d.p[q].conn = c.p[q].conn /\ d.p[q].um_cmd = c.p[q].um_cmd
        /\ d.p[q].rcved = c.p[q].rcved
    BY <1>1, <1>6, <1>10, <2>1, RecvRRDoes
  <2>. QED BY <1>6, <1>8, <2>1, <2>2 DEF Same
<1>11. CASE m.type # "RR" /\ ~c.p["P"].rcved /\ d = RecvCommand(c, m)
  <2>1. CASE m.type = "DISC"
    <3>1. Leaving(s, pr[s]["P"], chan)
      BY <1>3, <2>1 DEF Leaving
    <3>. QED BY <1>2, <3>1 DEF Steady, Settled, Joined
  <2>2. CASE m.type = "SNRM"
    <3>1. PICK q : q = c.x.c_peer
      OBVIOUS
    <3>2. q = "P" /\ m.type \in {"SNRM", "DISC"} /\ ~c.p[q].rcved
      BY <1>6, <1>11, <2>2, <3>1
    <3>3. d.p[q].conn /\ d.p[q].um_cmd = "none"
      BY <1>1, <1>3, <1>6, <1>11, <2>2, <3>1, <3>2, RecvCommandDoes, SMTT(30)
    <3>. QED BY <1>2, <1>3, <3>2, <3>3 DEF Steady, Settled, Joined, Leaving
  <2>. QED BY <1>3, <1>11, <2>1, <2>2
<1>. QED BY <1>7, <1>9, <1>10, <1>11

LEMMA AsideSteady ==
    ASSUME Typed, NEW s \in Secs, TxFetch(s) \/ RxIdle(s) \/ T3Expire(s, "P")
    PROVE  Steady(s, pr'[s]["P"], chan')
<1>1. s \in Station /\ Table(pr) /\ pr[s] \in [{"P"} -> PeerState]
  BY PrimaryPeers, Zenon DEF Typed
<1>2. chan' = chan /\ (pr' = pr \/ pr' = [pr EXCEPT ![s]["P"].t3 = "expired"])
  BY DEF TxFetch, RxIdle, T3Expire
<1>3. Same(pr[s]["P"], pr'[s]["P"])
  <2>1. CASE pr' = pr
    BY <2>1 DEF Same
  <2>2. CASE pr' = [pr EXCEPT ![s]["P"].t3 = "expired"]
    <3>1. pr'[s]["P"] = [pr[s]["P"] EXCEPT !.t3 = "expired"]
      BY <1>1, <2>2 DEF Table
    <3>. QED BY <1>1, <3>1 DEF Same, PeerState
  <2>. QED BY <1>2, <2>1, <2>2
<1>. QED BY <1>2, <1>3, SameSteady

\* Nobody asks for a connection as long as a DISC for the secondary, or an
\* answer of it to an earlier command, is still under way.
Unhurried == \A q \in Secs : api["P"][q].pc = "upReq" => Settled(q, pr[q]["P"], chan)

NoRestarts == MaxRestarts = 0

\* What is used up of the bounds.
Spent == used \in [calls : Nat, losses : Nat, restarts : Nat]

LEMMA SpentStep ==
    ASSUME Spent, Next
    PROVE  Spent'
<1>1. PICK s \in Station :
        \/ TxStep(s)
        \/ RxFrame(s)
        \/ Lose(s)
        \/ RxIdle(s)
        \/ Restart(s)
        \/ \E q \in PeerSet(s) :
              \/ LinkUpBegin(s, q)
              \/ LinkDownBegin(s, q)
              \/ CallStep(s, q)
              \/ T1Expire(s, q)
              \/ T3Expire(s, q)
  BY Zenon DEF Next, Step
<1>2. TxStep(s) => used' = used
  BY Zenon DEF TxStep, TxFetch, TxServe, TxTail
<1>3. RxFrame(s) => used' = used
  BY DEF RxFrame
<1>4. RxIdle(s) => used' = used
  BY DEF RxIdle
<1>5. Lose(s) => used' = [used EXCEPT !.losses = @ + 1]
  BY DEF Lose
<1>6. Restart(s) => used' = [used EXCEPT !.restarts = @ + 1]
  BY DEF Restart
<1>7. ASSUME NEW q \in PeerSet(s)
      PROVE  /\ CallStep(s, q) \/ T1Expire(s, q) \/ T3Expire(s, q) => used' = used
             /\ LinkUpBegin(s, q) \/ LinkDownBegin(s, q)
                   => used' = [used EXCEPT !.calls = @ + 1]
  BY DEF CallStep, LinkRequest, LinkEvent, LinkTimeout, T1Expire, T3Expire, LinkUpBegin,
         LinkDownBegin
<1>8. used' \in {used, [used EXCEPT !.calls = @ + 1], [used EXCEPT !.losses = @ + 1],
                 [used EXCEPT !.restarts = @ + 1]}
  BY <1>1, <1>2, <1>3, <1>4, <1>5, <1>6, <1>7, Zenon
<1>. QED BY <1>8 DEF Spent

LEMMA AccordStep ==
    ASSUME Mode = "NRM", NoRestarts, Spent, Typed, Accord, Unhurried, Next
    PROVE  Accord'
<1>1. PICK s \in Station :
        \/ TxStep(s)
        \/ RxFrame(s)
        \/ Lose(s)
        \/ RxIdle(s)
        \/ Restart(s)
        \/ \E q \in PeerSet(s) :
              \/ LinkUpBegin(s, q)
              \/ LinkDownBegin(s, q)
              \/ CallStep(s, q)
              \/ T1Expire(s, q)
              \/ T3Expire(s, q)
  BY DEF Next, Step
<1>2. Ends(Everyone)
  BY DEF Accord
<1>3. CASE Lose(s)
  BY <1>3, LoseAccords
<1>4. ~Restart(s)
  BY DEF Restart, NoRestarts, Spent
<1>5. CASE s = "P"
  <2>1. CASE TxServe("P")
    BY <2>1, ServeAccords
  <2>2. CASE TxTail("P")
    BY <2>2, TailAccords
  <2>3. CASE RxFrame("P")
    BY <2>3, ReceiveAccords
  <2>4. ASSUME \/ TxFetch("P") \/ RxIdle("P")
               \/ \E q \in Secs : T1Expire("P", q) \/ T3Expire("P", q)
        PROVE  Accord'
    BY <2>4, AsideAccords
  <2>5. ASSUME NEW q \in Secs,
               \/ LinkUpBegin("P", q) \/ LinkDownBegin("P", q)
               \/ LinkEvent("P", q) \/ LinkTimeout("P", q)
        PROVE  Accord'
    BY <2>5, CallAccords
  <2>6. ASSUME NEW q \in Secs, LinkRequest("P", q) PROVE Accord'
    <3>1. api["P"][q].pc = "upReq" => Settled(q, pr[q]["P"], chan)
      BY DEF Unhurried
    <3>. QED BY <2>6, <3>1, RequestCallAccords
  <2>7. PeerSet("P") = Secs
    BY PrimaryPeers
  <2>. QED BY <1>1, <1>3, <1>4, <1>5, <2>1, <2>2, <2>3, <2>4, <2>5, <2>6, <2>7,
              Zenon DEF TxStep, CallStep
<1>6. CASE s \in Secs
  <2>1. CASE TxServe(s)
    <3>1. Moved(Everyone, s) /\ Steady(s, pr'[s]["P"], chan')
      BY <1>2, <1>6, <2>1, ServeSecondary, ServeSteady
    <3>. QED BY <1>6, <3>1, SecondaryAccords
  <2>2. CASE TxTail(s)
    <3>1. Moved(Everyone, s) /\ Steady(s, pr'[s]["P"], chan')
      BY <1>2, <1>6, <2>2, TailSecondary, TailSteady
    <3>. QED BY <1>6, <3>1, SecondaryAccords
  <2>3. CASE RxFrame(s)
    <3>1. Moved(Everyone, s) /\ Steady(s, pr'[s]["P"], chan')
      BY <1>2, <1>6, <2>3, ReceiveSecondary, ReceiveSteady
    <3>. QED BY <1>6, <3>1, SecondaryAccords
  <2>4. CASE TxFetch(s) \/ RxIdle(s) \/ T3Expire(s, "P")
    <3>1. Moved(Everyone, s) /\ Steady(s, pr'[s]["P"], chan')
      BY <1>2, <1>6, <2>4, AsideSecondary, AsideSteady
    <3>. QED BY <1>6, <3>1, SecondaryAccords
  <2>5. \A q \in PeerSet(s) :
           /\ ~LinkUpBegin(s, q) /\ ~LinkDownBegin(s, q) /\ ~LinkRequest(s, q)
           /\ ~LinkEvent(s, q) /\ ~LinkTimeout(s, q) /\ ~T1Expire(s, q)
    BY <1>2, <1>6, SecondaryWaits
  <2>6. \A q \in PeerSet(s) : q = "P"
    BY <1>6, PrimaryPeers
  <2>. QED BY <1>1, <1>3, <1>4, <2>1, <2>2, <2>3, <2>4, <2>5, <2>6, Zenon DEF TxStep, CallStep
<1>. QED BY <1>5, <1>6 DEF Station

LEMMA InitAccord ==
    ASSUME Mode = "NRM", Init
    PROVE  Accord
<1>1. OneLink
  BY InitOneLink
<1>2. /\ pr = [s \in Station |-> [q \in PeerSet(s) |-> InitPeer]]
      /\ st = [s \in Station |-> InitStation(s)]
      /\ api = [s \in Station |-> [q \in PeerSet(s) |-> IdleCall]]
      /\ chan = [s \in Station |-> << >>]
  BY Zenon DEF Init
<1>3. /\ ~InitPeer.conn /\ ~InitPeer.sent /\ ~InitPeer.rcved /\ InitPeer.um_cmd = "none"
      /\ IdleCall.pc = "idle"
  BY DEF InitPeer, IdleCall
<1>4. st["P"].pri /\ st["P"].mode # "ABM"
  BY <1>1 DEF OneLink, Primary
<1>5. Ends(Everyone)
  <2>1. LineOK(Everyone, chan)
    BY <1>1 DEF OneLink, LineOK, Everyone
  <2>2. /\ \A s \in Secs : Hand(s)
        /\ \A s \in Secs : Secondary(st[s], pr[s]["P"], api[s]["P"], InFlight(s))
    BY <1>1, PrimaryPeers DEF OneLink
  <2>. QED BY <2>1, <2>2 DEF Ends, Everyone
<1>6. \A q \in Secs : pr["P"][q] = InitPeer /\ api["P"][q] = IdleCall
  BY <1>2, PrimaryPeers
<1>7. \A q, w : Agreed(q, InitPeer, IdleCall, w, chan)
  BY <1>3 DEF Agreed
<1>. QED BY <1>4, <1>5, <1>6, <1>7 DEF Accord

\* The invariant: what the primary believes of its peers agrees with them.
GhostInv == Typed /\ Spent /\ Accord

LEMMA AccordNoGhost ==
    ASSUME Accord
    PROVE  NoGhost
<1>1. \A q \in Secs : Agreed(q, pr["P"][q], api["P"][q], pr[q]["P"], chan)
  BY DEF Accord
<1>. QED BY <1>1 DEF NoGhost, Agreed, Joined

LEMMA GhostKept ==
    ASSUME Mode = "NRM", NoRestarts
    PROVE  /\ Init => GhostInv
           /\ GhostInv /\ Unhurried /\ [Next]_vars => GhostInv'
<1>1. ASSUME Init PROVE GhostInv
  <2>1. Spent
    BY <1>1 DEF Init, Spent
  <2>. QED BY <1>1, <2>1, InitTyped, InitAccord DEF GhostInv
<1>2. ASSUME GhostInv, Unhurried, Next PROVE GhostInv'
  <2>1. Typed'
    BY <1>2, StepTyped DEF GhostInv
  <2>2. Accord'
    BY <1>2, AccordStep DEF GhostInv
  <2>3. Spent'
    BY <1>2, SpentStep DEF GhostInv
  <2>. QED BY <2>1, <2>2, <2>3 DEF GhostInv
<1>3. ASSUME GhostInv, UNCHANGED vars PROVE GhostInv'
  <2>1. UNCHANGED <<st, pr, tx, ev, api, chan, used, link>>
    BY <1>3 DEF vars, running
  <2>2. Typed'
    <3>1. /\ link' \in Links /\ chan' \in Line
          /\ tx' \in [Station -> Thread] /\ ev' \in [Station -> Events]
          /\ Table(st') /\ Table(pr') /\ Table(api')
      BY <1>3, <2>1 DEF GhostInv, Typed
    <3>2. \A s \in Station :
             /\ st'[s] \in StationState(s)
             /\ pr'[s] \in [PeerSet(s) -> PeerState]
             /\ api'[s] \in [PeerSet(s) -> Call]
             /\ Counted(st'[s], pr'[s])
      BY <1>3, <2>1 DEF GhostInv, Typed
    <3>. QED BY <3>1, <3>2 DEF Typed
  <2>3. Accord'
    BY <1>3, <2>1, Zenon DEF GhostInv, Accord, Ends, InFlight, Hand
  <2>4. Spent'
    BY <1>3, <2>1 DEF GhostInv, Spent
  <2>. QED BY <2>2, <2>3, <2>4 DEF GhostInv
<1>. QED BY <1>1, <1>2, <1>3

\* The primary of an NRM link believes in no connection that its secondary does
\* not know of, as long as no station is reset and no application asks for a
\* connection in a hurry (LinkUpEx sets um_cmd whatever is under way).
THEOREM PatientCallersSeeNoGhost ==
    NormalMode /\ NoRestarts /\ Spec /\ []Unhurried => []NoGhost
<1>. SUFFICES ASSUME NormalMode, NoRestarts
              PROVE  Spec /\ []Unhurried => []NoGhost
  OBVIOUS
<1>1. Init => GhostInv
  BY GhostKept DEF NormalMode
<1>2. GhostInv /\ Unhurried /\ [Next]_vars => GhostInv'
  BY GhostKept DEF NormalMode
<1>3. GhostInv => NoGhost
  BY AccordNoGhost DEF GhostInv
<1>. QED BY <1>1, <1>2, <1>3, PTL DEF Spec

-----------------------------------------------------------------------------
(* Two calls leave no ghost connection.                                    *)

TwoCalls == \A l \in Links : l.maxCalls <= 2

\* A peer for which a call was made, and one with which nothing is being ended.
Active(q) == \/ api["P"][q].pc # "idle"
             \/ pr["P"][q].conn \/ pr["P"][q].um_cmd # "none"
CalmAt(q) == /\ api["P"][q].pc \notin {"downReq", "down"}
             /\ pr["P"][q].um_cmd # "DISC"
             /\ Settled(q, pr[q]["P"], chan)
Calm == \A q \in Secs : CalmAt(q)

\* What the calls made so far say of the peers.
Few ==
    /\ \A q \in Secs : Active(q) => used.calls >= 1
    /\ \A q, r \in Secs : q # r /\ Active(q) /\ api["P"][r].pc = "upReq"
                              => used.calls >= 2
    /\ Calm \/ (used.calls >= 2 /\ \A q \in Secs : api["P"][q].pc # "upReq")

LEMMA FewUnhurried == Few => Unhurried
BY DEF Few, Unhurried, Calm, CalmAt

\* A step that begins no call keeps it.
Tamer(q) ==
    /\ Active(q)' => Active(q)
    /\ api'["P"][q].pc = "upReq" => api["P"][q].pc = "upReq"
    /\ CalmAt(q) => CalmAt(q)'

LEMMA FewTamer ==
    ASSUME Few, used'.calls = used.calls, \A q \in Secs : Tamer(q)
    PROVE  Few'
<1>1. \A q \in Secs : Active(q)' => used'.calls >= 1
  BY DEF Few, Tamer
<1>2. \A q, r \in Secs : q # r /\ Active(q)' /\ api'["P"][r].pc = "upReq"
                            => used'.calls >= 2
  BY DEF Few, Tamer
<1>3. Calm' \/ (used'.calls >= 2 /\ \A q \in Secs : api'["P"][q].pc # "upReq")
  BY DEF Few, Tamer, Calm
<1>. QED BY <1>1, <1>2, <1>3 DEF Few

LEMMA FollowsTamer ==
    ASSUME Follows, NEW q \in Secs
    PROVE  Tamer(q)
<1>1. /\ api'["P"][q].pc = api["P"][q].pc /\ pr'[q]["P"] = pr[q]["P"]
      /\ Since(q, pr["P"][q], chan, pr'["P"][q], chan')
  BY DEF Follows
<1>2. Active(q)' => Active(q)
  BY <1>1 DEF Active, Since
<1>3. CalmAt(q) => CalmAt(q)'
  BY <1>1 DEF CalmAt, Since, Settled, Leaving
<1>. QED BY <1>1, <1>2, <1>3 DEF Tamer

\* A step of a secondary.
LEMMA SecondaryTamer ==
    ASSUME NEW s \in Secs, Moved(Everyone, s), Steady(s, pr'[s]["P"], chan'), NEW q \in Secs
    PROVE  Tamer(q)
<1>1. /\ pr'["P"] = pr["P"] /\ api'["P"] = api["P"]
      /\ q # s => pr'[q] = pr[q] /\ chan'[q] = chan[q]
  BY PrimaryPeers DEF Moved, OnlyAt
<1>2. Settled(q, pr[q]["P"], chan) => Settled(q, pr'[q]["P"], chan')
  <2>1. CASE q = s
    BY <2>1 DEF Steady
  <2>2. CASE q # s
    BY <1>1, <2>2 DEF Steady, Settled, Leaving
  <2>. QED BY <2>1, <2>2
<1>. QED BY <1>1, <1>2 DEF Tamer, Active, CalmAt

\* A frame is lost, or the primary does nothing about its peers.
LEMMA CalmerTamer ==
    ASSUME NEW q \in Secs, Calmer(q, chan, chan'), pr'[q]["P"] = pr[q]["P"],
           api'["P"][q].pc = api["P"][q].pc,
           pr'["P"][q].conn = pr["P"][q].conn, pr'["P"][q].um_cmd = pr["P"][q].um_cmd
    PROVE  Tamer(q)
<1>1. Settled(q, pr[q]["P"], chan) => Settled(q, pr'[q]["P"], chan')
  BY DEF Calmer, Settled, Leaving
<1>. QED BY <1>1 DEF Tamer, Active, CalmAt

LEMMA CallChanged ==
    ASSUME Typed, NEW q \in Secs, NEW b, api' = [api EXCEPT !["P"][q] = b]
    PROVE  api'["P"][q] = b /\ \A r \in Secs \ {q} : api'["P"][r] = api["P"][r]
BY PrimaryPeers DEF Typed, Table

LEMMA PeerChanged ==
    ASSUME Typed, NEW q \in Secs, NEW v, pr' = [pr EXCEPT !["P"][q] = v]
    PROVE  /\ pr'["P"][q] = v /\ \A r \in Secs \ {q} : pr'["P"][r] = pr["P"][r]
           /\ \A r \in Secs : pr'[r] = pr[r]
BY PrimaryPeers DEF Typed, Table

LEMMA AsideTamer ==
    ASSUME Typed, \/ TxFetch("P") \/ RxIdle("P")
                  \/ \E r \in Secs : T1Expire("P", r) \/ T3Expire("P", r),
           NEW q \in Secs
    PROVE  Tamer(q)
<1>1. chan' = chan /\ api' = api /\ Calmer(q, chan, chan)
  BY DEF TxFetch, RxIdle, T1Expire, T3Expire, Calmer
<1>2. /\ pr'[q]["P"] = pr[q]["P"] /\ pr'["P"][q].conn = pr["P"][q].conn
      /\ pr'["P"][q].um_cmd = pr["P"][q].um_cmd
  <2>1. CASE pr' = pr
    BY <2>1
  <2>2. ASSUME NEW r \in Secs, NEW w,
               w \in {[pr["P"][r] EXCEPT !.t1 = "expired"],
                      [pr["P"][r] EXCEPT !.t3 = "expired"]},
               pr' = [pr EXCEPT !["P"][r] = w]
        PROVE  /\ pr'[q]["P"] = pr[q]["P"] /\ pr'["P"][q].conn = pr["P"][q].conn
               /\ pr'["P"][q].um_cmd = pr["P"][q].um_cmd
    <3>1. pr["P"][r] \in PeerState
      BY PrimaryPeers DEF Typed
    <3>2. w.conn = pr["P"][r].conn /\ w.um_cmd = pr["P"][r].um_cmd
      BY <2>2, <3>1 DEF PeerState
    <3>3. /\ pr'["P"][r] = w /\ \A p \in Secs \ {r} : pr'["P"][p] = pr["P"][p]
          /\ pr'[q] = pr[q]
      BY <2>2, PeerChanged
    <3>. QED BY <3>2, <3>3
  <2>3. CASE TxFetch("P") \/ RxIdle("P")
    BY <2>1, <2>3 DEF TxFetch, RxIdle
  <2>4. ASSUME NEW r \in Secs, T1Expire("P", r) \/ T3Expire("P", r)
        PROVE  \E w \in {[pr["P"][r] EXCEPT !.t1 = "expired"],
                         [pr["P"][r] EXCEPT !.t3 = "expired"]} :
                  pr' = [pr EXCEPT !["P"][r] = w]
    BY <2>4 DEF T1Expire, T3Expire
  <2>. QED BY <2>2, <2>3, <2>4, Zenon
<1>. QED BY <1>1, <1>2, CalmerTamer

\* The steps of a call that has begun.
LEMMA CallTamer ==
    ASSUME Mode = "NRM", Typed, NEW q \in Secs, CallStep("P", q), NEW r \in Secs
    PROVE  Tamer(r)
<1>. DEFINE b == api["P"][q]
            v == pr["P"][q]
<1>1. b \in Call /\ v \in PeerState /\ chan' = chan
  BY PrimaryPeers DEF Typed, CallStep, LinkRequest, LinkEvent, LinkTimeout
<1>2. CASE LinkRequest("P", q)
  <2>. DEFINE up == b.pc = "upReq"
              b2 == [b EXCEPT !.pc = IF up THEN "up" ELSE "down"]
              v2 == [v EXCEPT !.um_cmd = IF up THEN "SNRM" ELSE "DISC"]
  <2>1. /\ b.pc \in {"upReq", "downReq"}
        /\ api' = [api EXCEPT !["P"][q] = b2] /\ pr' = [pr EXCEPT !["P"][q] = v2]
    BY <1>2 DEF LinkRequest, SetMode
  <2>2. b2.pc = (IF up THEN "up" ELSE "down") /\ v2.um_cmd = IF up THEN "SNRM" ELSE "DISC"
    BY <1>1 DEF Call, PeerState
  <2>. HIDE DEF b2, v2
  <2>3. /\ api'["P"][q] = b2 /\ \A p \in Secs \ {q} : api'["P"][p] = api["P"][p]
        /\ pr'["P"][q] = v2 /\ \A p \in Secs \ {q} : pr'["P"][p] = pr["P"][p]
        /\ pr'[r] = pr[r]
    BY <2>1, CallChanged, PeerChanged
  <2>4. CASE r = q
    BY <1>1, <2>1, <2>2, <2>3, <2>4 DEF Tamer, Active, CalmAt
  <2>5. CASE r # q
    BY <1>1, <2>3, <2>5 DEF Tamer, Active, CalmAt
  <2>. QED BY <2>4, <2>5
<1>3. CASE LinkEvent("P", q) \/ LinkTimeout("P", q)
  <2>1. b.pc \in {"up", "down"} /\ pr' = pr
    BY <1>3 DEF LinkEvent, LinkTimeout
  <2>2. PICK b2 \in {IdleCall, [b EXCEPT !.flags = {}]} : api' = [api EXCEPT !["P"][q] = b2]
    BY <1>3, Zenon DEF LinkEvent, LinkTimeout
  <2>3. b2.pc \in {"idle", b.pc}
    BY <1>1, <2>2 DEF IdleCall, Call
  <2>4. api'["P"][q] = b2 /\ \A p \in Secs \ {q} : api'["P"][p] = api["P"][p]
    BY <2>2, CallChanged
  <2>5. CASE r = q
    BY <1>1, <2>1, <2>3, <2>4, <2>5 DEF Tamer, Active, CalmAt
  <2>6. CASE r # q
    BY <1>1, <2>1, <2>4, <2>6 DEF Tamer, Active, CalmAt
  <2>. QED BY <2>5, <2>6
<1>. QED BY <1>2, <1>3 DEF CallStep

\* A call begins: it is the first or the second.
LEMMA BeginFew ==
    ASSUME Mode = "NRM", Spent, Typed, TwoCalls, Few, NEW q \in Secs,
           LinkUpBegin("P", q) \/ LinkDownBegin("P", q)
    PROVE  Few'
<1>1. used.calls \in Nat /\ used'.calls = used.calls + 1 /\ used.calls < 2
  <2>1. used.calls < link.maxCalls /\ used' = [used EXCEPT !.calls = @ + 1]
    BY DEF LinkUpBegin, LinkDownBegin
  <2>2. link.maxCalls <= 2 /\ link.maxCalls \in Nat
    BY LinksAssumption DEF TwoCalls, Typed, Link
  <2>. QED BY <2>1, <2>2 DEF Spent
<1>2. /\ Calm /\ pr' = pr /\ chan' = chan /\ api["P"][q].pc = "idle"
      /\ \A r \in Secs : Active(r) => used.calls = 1
      /\ \A p, r \in Secs : p # r /\ Active(p) => api["P"][r].pc # "upReq"
  BY <1>1 DEF Few, LinkUpBegin, LinkDownBegin
<1>3. PICK b : /\ api' = [api EXCEPT !["P"][q] = b]
               /\ \/ b.pc = "upReq"
                  \/ b.pc = "downReq" /\ pr["P"][q].conn
  <2>1. CASE LinkUpBegin("P", q)
    <3>. DEFINE m == IF st["P"].mode \in {"NDM", "ADM"} THEN st["P"].mode ELSE "0"
                b == [pc |-> "upReq", flags |-> {}, s_mode |-> m]
    <3>1. api' = [api EXCEPT !["P"][q] = b]
      BY <2>1, Zenon DEF LinkUpBegin
    <3>2. b.pc = "upReq"
      OBVIOUS
    <3>. HIDE DEF b
    <3>. QED BY <3>1, <3>2
  <2>2. CASE LinkDownBegin("P", q)
    <3>1. [IdleCall EXCEPT !.pc = "downReq"].pc = "downReq"
      BY DEF IdleCall
    <3>. QED BY <2>2, <3>1, Zenon DEF LinkDownBegin
  <2>. QED BY <2>1, <2>2
<1>4. api'["P"][q] = b /\ \A r \in Secs \ {q} : api'["P"][r] = api["P"][r]
  BY <1>3, CallChanged
<1>5. \A r \in Secs \ {q} : Active(r)' => Active(r)
  BY <1>2, <1>4 DEF Active
<1>6. \A p, r \in Secs : p # r /\ Active(p)' /\ api'["P"][r].pc = "upReq"
                            => used'.calls >= 2
  <2>. SUFFICES ASSUME NEW p \in Secs, NEW r \in Secs, p # r, Active(p)',
                       api'["P"][r].pc = "upReq"
                PROVE  used.calls = 1
    BY <1>1
  <2>1. CASE p # q
    BY <1>2, <1>5, <2>1
  <2>2. CASE p = q
    BY <1>2, <1>4, <2>2 DEF Active
  <2>. QED BY <2>1, <2>2
<1>7. Calm' \/ (used'.calls >= 2 /\ \A r \in Secs : api'["P"][r].pc # "upReq")
  <2>1. CASE b.pc = "upReq"
    <3>1. ASSUME NEW r \in Secs PROVE CalmAt(r)'
      <4>1. CalmAt(r) /\ api'["P"][r].pc \notin {"downReq", "down"}
        BY <1>2, <1>4, <2>1 DEF Calm, CalmAt
      <4>. QED BY <1>2, <4>1 DEF CalmAt
    <3>. QED BY <3>1 DEF Calm
  <2>2. CASE b.pc = "downReq" /\ pr["P"][q].conn
    <3>1. Active(q) /\ used'.calls >= 2
      BY <1>1, <1>2, <2>2 DEF Active
    <3>. QED BY <1>2, <1>4, <2>2, <3>1
  <2>. QED BY <1>3, <2>1, <2>2
<1>8. \A r \in Secs : Active(r)' => used'.calls >= 1
  BY <1>1
<1>. QED BY <1>6, <1>7, <1>8 DEF Few

LEMMA FewStep ==
    ASSUME Mode = "NRM", NoRestarts, TwoCalls, Spent, Typed, Accord, Few, Next
    PROVE  Few'
<1>1. PICK s \in Station :
        \/ TxStep(s)
        \/ RxFrame(s)
        \/ Lose(s)
        \/ RxIdle(s)
        \/ Restart(s)
        \/ \E q \in PeerSet(s) :
              \/ LinkUpBegin(s, q)
              \/ LinkDownBegin(s, q)
              \/ CallStep(s, q)
              \/ T1Expire(s, q)
              \/ T3Expire(s, q)
  BY DEF Next, Step
<1>2. Ends(Everyone)
  BY DEF Accord
<1>3. ~Restart(s)
  BY DEF Restart, NoRestarts, Spent
<1>4. CASE Lose(s)
  <2>1. UNCHANGED <<pr, api>> /\ used'.calls = used.calls
    BY <1>4 DEF Lose, Spent
  <2>2. \A q \in Secs : Calmer(q, chan, chan')
    BY <1>4, LoseCalmer
  <2>. QED BY <2>1, <2>2, CalmerTamer, FewTamer
<1>5. CASE s = "P"
  <2>1. CASE TxServe("P") \/ TxTail("P") \/ RxFrame("P")
    <3>1. Follows /\ used' = used
      BY <2>1, ServeAccords, TailAccords, ReceiveAccords, Zenon DEF TxServe, TxTail, RxFrame
    <3>. QED BY <3>1, FollowsTamer, FewTamer, Zenon
  <2>2. ASSUME \/ TxFetch("P") \/ RxIdle("P")
               \/ \E q \in Secs : T1Expire("P", q) \/ T3Expire("P", q)
        PROVE  Few'
    <3>1. used' = used
      BY <2>2 DEF TxFetch, RxIdle, T1Expire, T3Expire
    <3>. QED BY <2>2, <3>1, AsideTamer, FewTamer
  <2>3. ASSUME NEW q \in Secs, CallStep("P", q) PROVE Few'
    <3>1. used' = used
      BY <2>3 DEF CallStep, LinkRequest, LinkEvent, LinkTimeout
    <3>. QED BY <2>3, <3>1, CallTamer, FewTamer
  <2>4. ASSUME NEW q \in Secs, LinkUpBegin("P", q) \/ LinkDownBegin("P", q) PROVE Few'
    BY <2>4, BeginFew
  <2>5. PeerSet("P") = Secs
    BY PrimaryPeers
  <2>. QED BY <1>1, <1>3, <1>4, <1>5, <2>1, <2>2, <2>3, <2>4, <2>5, Zenon DEF TxStep
<1>6. CASE s \in Secs
  <2>1. ASSUME Moved(Everyone, s), Steady(s, pr'[s]["P"], chan'), used' = used PROVE Few'
    BY <1>6, <2>1, SecondaryTamer, FewTamer
  <2>2. CASE TxServe(s)
    <3>1. used' = used
      BY <2>2, Zenon DEF TxServe
    <3>. QED BY <1>2, <1>6, <2>1, <2>2, <3>1, ServeSecondary, ServeSteady
  <2>3. CASE TxTail(s)
    <3>1. used' = used
      BY <2>3, Zenon DEF TxTail
    <3>. QED BY <1>2, <1>6, <2>1, <2>3, <3>1, TailSecondary, TailSteady
  <2>4. CASE RxFrame(s)
    <3>1. used' = used
      BY <2>4 DEF RxFrame
    <3>. QED BY <1>2, <1>6, <2>1, <2>4, <3>1, ReceiveSecondary, ReceiveSteady
  <2>5. CASE TxFetch(s) \/ RxIdle(s) \/ T3Expire(s, "P")
    <3>1. used' = used
      BY <2>5 DEF TxFetch, RxIdle, T3Expire
    <3>. QED BY <1>2, <1>6, <2>1, <2>5, <3>1, AsideSecondary, AsideSteady
  <2>6. \A q \in PeerSet(s) :
           /\ ~LinkUpBegin(s, q) /\ ~LinkDownBegin(s, q) /\ ~LinkRequest(s, q)
           /\ ~LinkEvent(s, q) /\ ~LinkTimeout(s, q) /\ ~T1Expire(s, q)
    BY <1>2, <1>6, SecondaryWaits
  <2>7. \A q \in PeerSet(s) : q = "P"
    BY <1>6, PrimaryPeers
  <2>. QED BY <1>1, <1>3, <1>4, <2>2, <2>3, <2>4, <2>5, <2>6, <2>7, Zenon DEF TxStep, CallStep
<1>. QED BY <1>5, <1>6 DEF Station

LEMMA InitFew ==
    ASSUME Mode = "NRM", Init
    PROVE  Few
<1>1. \A q \in Secs : /\ pr["P"][q] = InitPeer /\ pr[q]["P"] = InitPeer
                      /\ api["P"][q] = IdleCall /\ chan[q] = << >> /\ chan["P"] = << >>
  BY PrimaryPeers DEF Init
<1>2. /\ ~InitPeer.conn /\ ~InitPeer.rcved /\ InitPeer.um_cmd = "none"
      /\ IdleCall.pc = "idle"
  BY DEF InitPeer, IdleCall
<1>3. ~Parting(<< >>) /\ \A q : ~From(q, << >>)
  BY DEF Parting, From
<1>4. Calm /\ \A q \in Secs : ~Active(q)
  BY <1>1, <1>2, <1>3 DEF Calm, CalmAt, Settled, Leaving, Active
<1>. QED BY <1>4 DEF Few

LEMMA FewKept ==
    ASSUME Mode = "NRM", NoRestarts, TwoCalls
    PROVE  /\ Init => GhostInv /\ Few
           /\ GhostInv /\ Few /\ [Next]_vars => GhostInv' /\ Few'
<1>1. ASSUME GhostInv, Few, Next PROVE Few'
  BY <1>1, FewStep DEF GhostInv
<1>2. ASSUME Few, UNCHANGED vars PROVE Few'
  BY <1>2, Zenon DEF vars, running, Few, Calm, CalmAt, Active
<1>. QED BY <1>1, <1>2, InitFew, FewUnhurried, GhostKept

\* The primary of an NRM link believes in no connection that its secondary does
\* not know of, as long as no station is reset and its applications make at most
\* two calls, whatever calls they are: a third one can come too early
\* (PatientCallersSeeNoGhost).
THEOREM TwoCallsLeaveNoGhost ==
    NormalMode /\ NoRestarts /\ TwoCalls /\ Spec => []NoGhost
<1>. SUFFICES ASSUME NormalMode, NoRestarts, TwoCalls PROVE Spec => []NoGhost
  OBVIOUS
<1>1. Init => GhostInv /\ Few
  BY FewKept DEF NormalMode
<1>2. GhostInv /\ Few /\ [Next]_vars => GhostInv' /\ Few'
  BY FewKept DEF NormalMode
<1>3. GhostInv => NoGhost
  BY AccordNoGhost DEF GhostInv
<1>. QED BY <1>1, <1>2, <1>3, PTL DEF Spec

=============================================================================
