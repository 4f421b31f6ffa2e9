------------------------------ MODULE HdlcConn ------------------------------
(***************************************************************************)
(* Connection management: the link-up and link-down calls of the           *)
(* applications, the U-frames they cause, and the surveillance polls of an *)
(* idle link.  A station "P" is the primary of an NRM link with any number *)
(* of secondaries, or one end of an ABM link.                              *)
(*                                                                         *)
(* I-frames are left to HdlcLink: all queues are empty here.  TEST, UI and *)
(* FRMR are not modelled.                                                  *)
(***************************************************************************)
EXTENDS Integers, Sequences, FiniteSets

CONSTANTS
    Mode,           \* "NRM" or "ABM"
    Links,          \* the links to look at: half duplex, calls, bounds
    Secondaries,    \* the peers of "P", in the order they were added
    RetryMax,       \* p->poll_retry_max
    MaxRestarts     \* bound: stations that are reset

ASSUME ModeAssumption == Mode \in {"NRM", "ABM"}
ASSUME PeersAssumption ==
    /\ Secondaries \in Seq({Secondaries[i] : i \in DOMAIN Secondaries})
    /\ Secondaries # << >>
    /\ "P" \notin {Secondaries[i] : i \in DOMAIN Secondaries}
    /\ \A i, j \in DOMAIN Secondaries : Secondaries[i] = Secondaries[j] => i = j
    /\ Mode = "ABM" => Len(Secondaries) = 1
ASSUME BoundsAssumption == {RetryMax, MaxRestarts} \subseteq Nat

VARIABLES
    st,     \* station -> what all its peers share
    pr,     \* station -> peer -> connection state, under state_mutex
    tx,     \* station -> its TX thread: where it is, its local cm_flags
    ev,     \* station -> flags of cm_listener, and the TX thread's pending bit
    api,    \* station -> peer -> the application thread that calls
    chan,   \* station -> frames on their way to it
    used,   \* how much of each bound is used up
    link    \* the link this is

running == <<st, pr, tx, ev, api, chan, used>>
vars == <<running, link>>

Secs == {Secondaries[i] : i \in DOMAIN Secondaries}
Station == {"P"} \union Secs
Peers(s) == IF s = "P" THEN Secondaries ELSE <<"P">>
PeerSet(s) == IF s = "P" THEN Secs ELSE {"P"}

(***************************************************************************)
(* What the stations were configured with, the stations of which an        *)
(* application wants a connection, and the bounds: the calls it makes and  *)
(* the frames the line loses.                                              *)
(***************************************************************************)
Link == [twa : BOOLEAN, called : SUBSET Station, maxCalls : Nat, maxLoss : Nat]

ASSUME LinksAssumption == Links \subseteq Link

TWA == link.twa             \* two-way alternate (half duplex) operation

SetMode == IF Mode = "NRM" THEN "SNRM" ELSE "SABM"      \* IOHDLC_MODE_TO_UCMD
DiscMode == IF Mode = "NRM" THEN "NDM" ELSE "ADM"
Initiates(s) == Mode = "ABM" \/ s = "P"

Flag == {"LINK_REQ", "LINK_ST_CHG", "UM_RECVD", "C_RPLYTMO", "T3_TMO",
         "PF_RECVD", "LINE_IDLE"}
UCmd == {"none", "SNRM", "SABM", "DISC"}
Timer == {"off", "armed", "expired"}
AppFlag == {"LINK_UP", "LINK_REFUSED", "LINK_DOWN", "LINK_LOST"}

InitStation(s) ==
    [mode |-> DiscMode, rx_fn |-> FALSE, pri |-> Mode = "NRM" /\ s = "P",
     connected_count |-> 0, c_peer |-> Peers(s)[1], p_rcved |-> FALSE,
     f_rcved |-> Mode = "NRM" /\ s = "P", idl |-> FALSE]

InitPeer ==
    [conn |-> FALSE, um_cmd |-> "none", sent |-> FALSE, rcved |-> FALSE,
     um_rsp |-> "none", need_p |-> FALSE, retry |-> 0, t1 |-> "off",
     t3 |-> "off"]

IdleCall == [pc |-> "idle", s_mode |-> "0", flags |-> {}]

Init ==
    /\ link \in Links
    /\ st = [s \in Station |-> InitStation(s)]
    /\ pr = [s \in Station |-> [q \in PeerSet(s) |-> InitPeer]]
    /\ tx = [s \in Station |-> [pc |-> "wait", cm |-> {}]]
    /\ ev = [s \in Station |-> [flags |-> {}, pending |-> FALSE]]
    /\ api = [s \in Station |-> [q \in PeerSet(s) |-> IdleCall]]
    /\ chan = [s \in Station |-> << >>]
    /\ used = [calls |-> 0, losses |-> 0, restarts |-> 0]

-----------------------------------------------------------------------------
(***************************************************************************)
(* The handlers work on a record c: the station (x), its peers (p), the    *)
(* event flags in hand (cm), the line (chan), the application events       *)
(* raised (app) and where the TX thread goes next (to).                    *)
(***************************************************************************)
Context(s, cm) ==
    [x |-> st[s], p |-> pr[s], cm |-> cm, chan |-> chan, app |-> {}, to |-> "on"]

Raise(c, flags) == [c EXCEPT !.app = @ \union flags]
Send(s, c, type, cmd, pf) ==
    [c EXCEPT !.chan[c.x.c_peer] =
        Append(@, [type |-> type, cmd |-> cmd, pf |-> pf, src |-> s])]

ApplyMode(x, mode) ==
    [x EXCEPT !.rx_fn = mode \in {"NRM", "ABM"},
              !.pri = @ \/ mode = "ABM",
              !.f_rcved = @ \/ mode = "ABM" \/ (mode = "NDM" /\ x.pri)]

SetConnected(c, q) ==
    [c EXCEPT !.x.connected_count = IF c.p[q].conn THEN @ ELSE @ + 1,
              !.p[q].conn = TRUE]

SetDisconnected(c, q) ==
    [c EXCEPT !.x.connected_count = IF c.p[q].conn THEN @ - 1 ELSE @,
              !.p[q].conn = FALSE]

\* resetPeerProtocolState
ResetProtocol(c, q) ==
    [c EXCEPT !.p[q] = [InitPeer EXCEPT !.conn = c.p[q].conn]]

\* resetPeerVars: ss_state = 0 takes the peer out of the connection without
\* taking it out of connected_count.
ResetVars(c, q) == [c EXCEPT !.p[q] = InitPeer]

\* The station leaves its mode with its last peer.
LeaveMode(c) ==
    LET mode == IF c.x.mode = "NRM" THEN "NDM" ELSE "ADM"
    IN  IF c.x.connected_count > 0 THEN c
        ELSE [c EXCEPT !.x = ApplyMode([@ EXCEPT !.mode = mode], mode)]

ClosePeerOrderly(c, q) ==
    Raise(LeaveMode(SetDisconnected(ResetProtocol(c, q), q)),
          {f \in {"LINK_DOWN"} : c.p[q].conn})

\* Mutant of AbortPeerLink: the peer stays connected.
AbortPeerLinkConnected(c, q) == LeaveMode(ResetProtocol(c, q))

AbortPeerLink(c, q) == LeaveMode(SetDisconnected(ResetProtocol(c, q), q))

Exhausted(c, q) == c.p[q].retry >= RetryMax

\* Mutant of TimeoutRetry: the peer is given up without being aborted.
TimeoutRetryNoAbort(c, q) ==
    IF ~Exhausted(c, q) THEN [c EXCEPT !.p[q].retry = @ + 1]
    ELSE [c EXCEPT !.x.f_rcved = TRUE]

\* handleTimeoutRetry
TimeoutRetry(c, q) ==
    IF ~Exhausted(c, q) THEN [c EXCEPT !.p[q].retry = @ + 1]
    ELSE [Raise(AbortPeerLink(c, q), {f \in {"LINK_LOST"} : c.p[q].conn})
             EXCEPT !.x.f_rcved = TRUE]

\* ioHdlcNextPeer: the first peer behind c_peer that matches, round the list;
\* c_peer itself if there is none.
NextPeer(s, c, pendingOnly) ==
    LET P == Peers(s)
        n == Len(P)
        here == CHOOSE i \in 1..n : P[i] = c.x.c_peer
        nth(k) == P[((here - 1 + k) % n) + 1]
        matches(k) ==
            LET q == c.p[nth(k)]
            IN  IF pendingOnly THEN ~q.conn /\ q.um_cmd # "none"
                ELSE q.conn \/ q.um_cmd # "none"
    IN  IF \A k \in 1..n : ~matches(k) THEN c.x.c_peer
        ELSE nth(CHOOSE k \in 1..n : matches(k) /\ \A j \in 1..(k - 1) : ~matches(j))

MoveToNext(s, c, pendingOnly) ==
    [c EXCEPT !.x.c_peer = NextPeer(s, c, pendingOnly)]

SendOpportunity(x) ==
    IF x.mode \in {"NRM", "NDM"}
    THEN IF x.pri THEN TWA => x.f_rcved ELSE x.p_rcved
    ELSE TWA => x.idl

IsCommand(x) == IF x.mode = "ABM" THEN ~x.p_rcved ELSE x.pri

\* Mutant of Polled: the reply timer is not started.
PolledUntimed(c) == [c EXCEPT !.x.f_rcved = FALSE]

\* startPollReplyTimer, and the F that a poll takes back.
Polled(c) ==
    LET q == c.x.c_peer
    IN  [c EXCEPT !.x.f_rcved = FALSE, !.p[q].t1 = "armed",
                  !.p[q].t3 = IF c.x.mode = "NRM" /\ c.x.pri THEN "off" ELSE @]

-----------------------------------------------------------------------------
\* Mutant of Broadcast: a new event replaces those not yet taken.
BroadcastReplaces(s, flags) ==
    IF flags = {} THEN ev ELSE [ev EXCEPT ![s] = [flags |-> flags, pending |-> TRUE]]

\* Events between threads, as in HdlcLink; app_es reaches the listeners of
\* the calls that are waiting.
Broadcast(s, flags) ==
    IF flags = {} THEN ev
    ELSE [ev EXCEPT ![s] = [flags |-> @.flags \union flags, pending |-> TRUE]]

Mask(pc) ==
    CASE pc = "idle" -> {}
      [] pc \in {"upReq", "up"} -> {"LINK_UP", "LINK_REFUSED"}
      [] pc \in {"downReq", "down"} -> {"LINK_DOWN"}

Notified(s, flags) ==
    [api EXCEPT ![s] = [q \in PeerSet(s) |->
        [api[s][q] EXCEPT !.flags = @ \union (flags \intersect Mask(api[s][q].pc))]]]

\* What a handler of s leaves behind.
Store(s, c) ==
    /\ st' = [st EXCEPT ![s] = c.x]
    /\ pr' = [pr EXCEPT ![s] = c.p]
    /\ api' = Notified(s, c.app)
    /\ chan' = c.chan

-----------------------------------------------------------------------------
\* ioHdlcStationLinkUpEx: the checks, the listener and the mode come first,
\* outside the lock; then the command and the request.  A secondary's calls
\* do nothing and are left out.
LinkUpBegin(s, q) ==
    LET disc == st[s].mode \in {"NDM", "ADM"}
    IN  /\ Initiates(s)
        /\ api[s][q].pc = "idle"
        /\ q \in link.called
        /\ used.calls < link.maxCalls
        /\ ~pr[s][q].conn
        /\ used' = [used EXCEPT !.calls = @ + 1]
        /\ st' = [st EXCEPT ![s].pri = @ \/ Mode = "ABM",
                            ![s].mode = IF disc THEN Mode ELSE @]
        /\ api' = [api EXCEPT ![s][q] =
                      [pc |-> "upReq", flags |-> {},
                       s_mode |-> IF disc THEN st[s].mode ELSE "0"]]
        /\ UNCHANGED <<pr, tx, ev, chan>>

\* ioHdlcStationLinkDownEx, the same way.
LinkDownBegin(s, q) ==
    /\ Initiates(s)
    /\ api[s][q].pc = "idle"
    /\ used.calls < link.maxCalls
    /\ pr[s][q].conn
    /\ used' = [used EXCEPT !.calls = @ + 1]
    /\ api' = [api EXCEPT ![s][q] = [IdleCall EXCEPT !.pc = "downReq"]]
    /\ UNCHANGED <<st, pr, tx, ev, chan>>

LinkRequest(s, q) ==
    LET up == api[s][q].pc = "upReq"
    IN  /\ api[s][q].pc \in {"upReq", "downReq"}
        /\ api' = [api EXCEPT ![s][q].pc = IF up THEN "up" ELSE "down"]
        /\ pr' = [pr EXCEPT ![s][q].um_cmd = IF up THEN SetMode ELSE "DISC"]
        /\ ev' = Broadcast(s, {"LINK_REQ"})
        /\ UNCHANGED <<st, tx, chan, used>>

\* Mutant of LinkEvent: the old mode is put back on success too.
LinkEventRestores(s, q) ==
    LET a == api[s][q]
        conn == pr[s][q].conn
        over == \/ a.pc = "up" /\ "LINK_UP" \in a.flags /\ conn
                \/ a.pc = "down" /\ "LINK_DOWN" \in a.flags /\ ~conn
                \/ a.pc = "up" /\ "LINK_REFUSED" \in a.flags /\ ~conn
    IN  /\ a.pc \in {"up", "down"}
        /\ a.flags # {}
        /\ api' = [api EXCEPT ![s][q] =
                      IF over THEN IdleCall ELSE [a EXCEPT !.flags = {}]]
        /\ st' = [st EXCEPT ![s].mode =
                     IF over /\ a.pc = "up" THEN a.s_mode ELSE @]
        /\ UNCHANGED <<pr, tx, ev, chan, used>>

\* The waiting call looks at an event, and at its peer without the lock.
LinkEvent(s, q) ==
    LET a == api[s][q]
        conn == pr[s][q].conn
        refused == a.pc = "up" /\ "LINK_REFUSED" \in a.flags /\ ~conn
        over == \/ a.pc = "up" /\ "LINK_UP" \in a.flags /\ conn
                \/ a.pc = "down" /\ "LINK_DOWN" \in a.flags /\ ~conn
                \/ refused
    IN  /\ a.pc \in {"up", "down"}
        /\ a.flags # {}
        /\ api' = [api EXCEPT ![s][q] =
                      IF over THEN IdleCall ELSE [a EXCEPT !.flags = {}]]
        /\ st' = [st EXCEPT ![s].mode =
                     IF refused THEN a.s_mode ELSE @]
        /\ UNCHANGED <<pr, tx, ev, chan, used>>

Asleep(s) == tx[s].pc = "wait" /\ ~ev[s].pending

\* A TX thread that was told of a command it has already answered keeps the
\* flag, and goes round without anything to do.
Spinning(s) ==
    LET p == pr[s][st[s].c_peer]
    IN  /\ tx[s].pc # "wait"
        /\ tx[s].cm = {"UM_RECVD"}
        /\ ev[s].flags = {}
        /\ ~p.rcved /\ ~p.need_p /\ ~st[s].p_rcved

\* Nothing on the line and nothing to do for a TX thread or for a caller
\* between its two steps.
AtRest ==
    \A s \in Station :
        /\ chan[s] = << >>
        /\ Asleep(s) \/ Spinning(s)
        /\ \A q \in PeerSet(s) : api[s][q].pc \notin {"upReq", "downReq"}

\* The safety timeout of a call is longer than all the retries of a command
\* (s_link_api_timeout_ms).  It passes when no command of the station is
\* being retried any more and no poll of the peer is outstanding.
LinkTimeout(s, q) ==
    LET a == api[s][q]
    IN  /\ a.pc \in {"up", "down"}
        /\ a.flags = {}
        /\ AtRest
        /\ \A r \in PeerSet(s) : pr[s][r].t1 # "armed"
        /\ api' = [api EXCEPT ![s][q] = IdleCall]
        /\ st' = [st EXCEPT ![s].mode = IF a.pc = "up" THEN a.s_mode ELSE @]
        /\ UNCHANGED <<pr, tx, ev, chan, used>>

-----------------------------------------------------------------------------
\* ioHdlcTxEntry waits, and takes the flags before it has the mutex.
TxFetch(s) ==
    /\ tx[s].pc = "wait"
    /\ ev[s].pending
    /\ tx' = [tx EXCEPT ![s] = [pc |-> "serve", cm |-> ev[s].flags]]
    /\ ev' = [ev EXCEPT ![s] = [flags |-> {}, pending |-> FALSE]]
    /\ UNCHANGED <<st, pr, api, chan, used>>

\* A request is for the current peer, or for a peer that has a command
\* pending while the current one has none.
ServeRequest(s, c) ==
    LET p == c.p[c.x.c_peer]
        c1 == MoveToNext(s, c, TRUE)
    IN  IF "LINK_REQ" \notin c.cm \/ p.um_cmd # "none" \/ p.sent THEN c
        ELSE IF c1.p[c1.x.c_peer].um_cmd # "none" THEN c1
        ELSE [c1 EXCEPT !.to = "loop", !.cm = @ \ {"LINK_REQ", "C_RPLYTMO"}]

\* A reply timeout is charged to the command: which timer ran out is not
\* asked.
ServeRetry(s, c) ==
    LET q == c.x.c_peer
        c1 == TimeoutRetry(c, q)
    IN  IF c.to # "on" \/ "C_RPLYTMO" \notin c.cm THEN c
        ELSE IF Exhausted(c, q)
             THEN [MoveToNext(s, c1, FALSE) EXCEPT !.to = "loop", !.cm = {}]
        ELSE c1

SendCommand(s, c) ==
    LET q == c.x.c_peer
        left == c.cm \ {"LINK_REQ", "C_RPLYTMO"}
        c1 == [c EXCEPT !.cm = left,
                        !.x.f_rcved = @ \/ (TWA /\ ~c.p[q].conn
                                               /\ c.p[q].um_cmd = SetMode)]
    IN  IF c.to # "on" THEN c
        ELSE IF ~SendOpportunity(c1.x) THEN [c1 EXCEPT !.to = "loop"]
        ELSE [Polled(Send(s, c1, c.p[q].um_cmd, TRUE, TRUE))
                 EXCEPT !.p[q].sent = TRUE]

\* The U command part of a round.
ServeCommand(s, c) ==
    LET p == c.p[c.x.c_peer]
        c1 == ServeRequest(s, c)
    IN  IF ~("LINK_REQ" \in c.cm \/ (p.sent /\ "C_RPLYTMO" \in c.cm)) THEN c
        ELSE IF c1.to = "on" /\ ~c1.x.pri
             THEN [c1 EXCEPT !.to = "loop", !.cm = {}]
        ELSE SendCommand(s, ServeRetry(s, c1))

\* The U response part: it needs no send opportunity, and ends the connection
\* of a peer that sent DISC.
ServeResponse(s, c) ==
    LET q == c.x.c_peer
        c1 == [Send(s, c, c.p[q].um_rsp, FALSE, c.x.p_rcved)
                  EXCEPT !.cm = @ \ {"UM_RECVD"}, !.p[q].rcved = FALSE,
                         !.x.p_rcved = FALSE]
    IN  IF c.to # "on" \/ ~c.p[q].rcved THEN c
        ELSE IF c.p[q].um_cmd = "DISC" THEN ClosePeerOrderly(c1, q)
        ELSE c1

\* Without a connected peer, or with a command outstanding, the round ends
\* here; a primary without a command moves on to the next peer.
ServeDisconnected(s, c) ==
    LET p == c.p[c.x.c_peer]
        c1 == MoveToNext(s, c, FALSE)
        next == c1.x.c_peer
    IN  IF c.to # "on" THEN c
        ELSE IF p.conn /\ ~p.sent THEN [c EXCEPT !.cm = @ \ {"LINK_ST_CHG"}]
        ELSE IF c.x.pri /\ ~p.conn /\ p.um_cmd = "none" /\ ~p.sent
             THEN IF c.p[next].conn
                  THEN [c1 EXCEPT !.to = "loop", !.cm = {"LINK_ST_CHG"},
                                  !.p[next].need_p = TRUE]
                  ELSE [c1 EXCEPT !.to = "loop", !.cm = {}]
        ELSE [c EXCEPT !.to = "loop", !.cm = @ \intersect {"C_RPLYTMO", "LINK_REQ"}]

\* The timers at the head of ioHdlcConnectedTx; in ABM T3 does nothing as
\* long as no I-frame is outstanding.
ServeTimers(c) ==
    LET q == c.x.c_peer
        left == c.cm \ {"C_RPLYTMO", "T3_TMO", "LINE_IDLE"}
        t1 == "C_RPLYTMO" \in c.cm /\ c.p[q].t1 = "expired"
        t3 == "T3_TMO" \in c.cm /\ c.p[q].t3 = "expired"
        c1 == IF t1 THEN [TimeoutRetry(c, q) EXCEPT !.p[q].need_p = TRUE,
                                                    !.x.f_rcved = TRUE]
              ELSE c
    IN  IF c.to # "on" THEN c
        ELSE IF c.x.mode \notin {"NRM", "ABM"} THEN [c EXCEPT !.to = "loop"]
        ELSE IF t1 /\ Exhausted(c, q)
             THEN [TimeoutRetry(c, q) EXCEPT
                      !.to = "loop", !.cm = @ \ {"C_RPLYTMO", "LINE_IDLE"}]
        ELSE IF t3
             THEN [c1 EXCEPT !.to = "tail", !.cm = left, !.p[q].t3 = "off",
                             !.p[q].need_p = @ \/ (c.x.mode = "NRM" /\ c.x.pri)]
        ELSE [c1 EXCEPT !.to = "tail", !.cm = left]

\* A round of ioHdlcTxEntry, up to the unlock in ioHdlcConnectedTx.
TxServe(s) ==
    /\ tx[s].pc = "serve"
    /\ \E c1 \in {ServeCommand(s, Context(s, tx[s].cm))} :
       \E c2 \in {ServeResponse(s, c1)} :
       \E c3 \in {ServeDisconnected(s, c2)} :
       \E c \in {ServeTimers(c3)} :
          /\ Store(s, c)
          /\ tx' = [tx EXCEPT ![s] =
                       [pc |-> IF c.to = "tail" THEN "tail"
                               ELSE IF c.cm = {} THEN "wait" ELSE "serve",
                        cm |-> c.cm]]
    /\ UNCHANGED <<ev, used>>

\* The end of ioHdlcConnectedTx when there are no I-frames: an RR that
\* answers or polls, then the primary's turn to the next peer.
TxTail(s) ==
    LET c == Context(s, tx[s].cm)
        q == c.x.c_peer
        wanted == /\ SendOpportunity(c.x)
                  /\ c.x.p_rcved \/ (c.x.f_rcved /\ c.p[q].need_p)
        cmd == IsCommand(c.x)
        pf == IF cmd THEN c.x.f_rcved ELSE c.x.p_rcved
        sent == Send(s, c, "RR", cmd, pf)
        c1 == IF ~wanted THEN c
              ELSE IF ~pf THEN sent
              ELSE IF cmd THEN [Polled(sent) EXCEPT !.p[q].need_p = FALSE]
              ELSE [sent EXCEPT !.x.p_rcved = FALSE]
        c2 == MoveToNext(s, c1, FALSE)
        next == c2.x.c_peer
        c3 == IF ~(c1.x.mode = "NRM" /\ c1.x.pri /\ c1.x.f_rcved) THEN c1
              ELSE IF next = q THEN c2 ELSE [c2 EXCEPT !.p[next].need_p = TRUE]
        cm1 == (tx[s].cm \union ev[s].flags) \ {"PF_RECVD"}
    IN  /\ tx[s].pc = "tail"
        /\ \E done \in {c3} : Store(s, done)
        /\ ev' = [ev EXCEPT ![s].flags = {}]
        /\ tx' = [tx EXCEPT ![s] =
                     [pc |-> IF cm1 = {} THEN "wait" ELSE "serve", cm |-> cm1]]
        /\ UNCHANGED used

-----------------------------------------------------------------------------
\* handleUFrame, a command: one at a time; a set-mode command is accepted in
\* any state, a DISC is left to the TX thread.
RecvCommand(c, m) ==
    LET q == c.x.c_peer
        disc == c.x.mode \in {"NDM", "ADM"}
        c1 == [c EXCEPT !.p[q].um_cmd = m.type, !.x.p_rcved = @ \/ m.pf]
        c2 == IF m.type = "DISC" THEN c1
              ELSE LET mode == IF m.type = "SNRM" THEN "NRM" ELSE "ABM"
                   IN  Raise(SetConnected(ResetVars(
                           [c1 EXCEPT !.x = ApplyMode([@ EXCEPT !.mode = mode], mode)],
                           q), q), {"LINK_UP"})
    IN  IF c.p[q].rcved THEN c
        ELSE [c2 EXCEPT !.p[q].rcved = TRUE, !.cm = {"UM_RECVD"},
                        !.p[q].um_rsp = IF m.type = "DISC" /\ disc
                                        THEN "DM" ELSE "UA"]

\* handleUFrame, a response: it ends the outstanding command.
RecvResponse(c, m) ==
    LET q == c.x.c_peer
        cmd == c.p[q].um_cmd
        c1 == [c EXCEPT !.p[q].t1 = "off"]
        c2 == IF cmd = "DISC" THEN ClosePeerOrderly(c1, q)
              ELSE IF m.type = "DM"
                   THEN Raise(SetDisconnected(c1, q), {"LINK_REFUSED"})
              ELSE LET c3 == ResetVars(c1, q)
                   IN  Raise(SetConnected([c3 EXCEPT !.x = ApplyMode(@, @.mode)], q),
                             {"LINK_UP"})
        t3 == /\ m.type = "UA" /\ c2.x.mode = "NRM"
              /\ c2.x.pri /\ c2.p[q].conn
    IN  IF ~c.p[q].sent \/ ~m.pf THEN c
        ELSE [c2 EXCEPT !.x.f_rcved = TRUE, !.cm = {"LINK_ST_CHG", "LINK_REQ"},
                        !.p[q].um_cmd = "none", !.p[q].sent = FALSE,
                        !.p[q].rcved = FALSE,
                        !.p[q].t3 = IF t3 THEN "armed" ELSE @]

\* Mutant of RecvRR: the idle timer is not restarted.
RecvRRUnwatched(c, m) ==
    LET q == c.x.c_peer
    IN  IF ~m.pf THEN c
        ELSE IF m.cmd THEN [c EXCEPT !.x.p_rcved = TRUE, !.cm = {"PF_RECVD"}]
        ELSE [c EXCEPT !.x.f_rcved = TRUE, !.cm = {"PF_RECVD"},
                       !.p[q].retry = 0, !.p[q].t1 = "off"]

\* commonRx of an RR.
RecvRR(c, m) ==
    LET q == c.x.c_peer
    IN  IF ~m.pf THEN c
        ELSE IF m.cmd THEN [c EXCEPT !.x.p_rcved = TRUE, !.cm = {"PF_RECVD"}]
        ELSE [c EXCEPT !.x.f_rcved = TRUE, !.cm = {"PF_RECVD"},
                       !.p[q].retry = 0, !.p[q].t1 = "off",
                       !.p[q].t3 = IF c.x.mode = "NRM" THEN "armed" ELSE @]

\* ioHdlcRxEntry.  A response must come from the current peer; without a
\* receive handler, in the disconnected modes, only U-frames are looked at.
RxFrame(s) ==
    LET m == Head(chan[s])
        c0 == [Context(s, {}) EXCEPT !.x.idl = FALSE]
        mine == m.cmd \/ m.src = c0.x.c_peer
    IN  /\ chan[s] # << >>
        /\ \E c \in {IF ~mine THEN c0
                     ELSE IF m.type = "RR"
                          THEN IF c0.x.rx_fn THEN RecvRR(c0, m) ELSE c0
                     ELSE IF m.cmd THEN RecvCommand(c0, m)
                     ELSE RecvResponse(c0, m)} :
              /\ st' = [st EXCEPT ![s] = c.x]
              /\ pr' = [pr EXCEPT ![s] = c.p]
              /\ api' = Notified(s, c.app)
              /\ ev' = Broadcast(s, c.cm)
        /\ chan' = [chan EXCEPT ![s] = Tail(@)]
        /\ UNCHANGED <<tx, used>>

Lose(s) ==
    /\ chan[s] # << >>
    /\ used.losses < link.maxLoss
    /\ used' = [used EXCEPT !.losses = @ + 1]
    /\ chan' = [chan EXCEPT ![s] = Tail(@)]
    /\ UNCHANGED <<st, pr, tx, ev, api>>

RxIdle(s) ==
    /\ TWA
    /\ chan[s] = << >>
    /\ st' = [st EXCEPT ![s].idl = TRUE]
    /\ ev' = Broadcast(s, {"LINE_IDLE"})
    /\ UNCHANGED <<pr, tx, api, chan, used>>

\* s_timer_cb.  The reply timeouts are long enough for an answer that is on
\* its way, so a timer runs out only when nothing can arrive any more.
T1Expire(s, q) ==
    /\ pr[s][q].t1 = "armed"
    /\ AtRest
    /\ pr' = [pr EXCEPT ![s][q].t1 = "expired"]
    /\ ev' = Broadcast(s, {"C_RPLYTMO"})
    /\ UNCHANGED <<st, tx, api, chan, used>>

T3Expire(s, q) ==
    /\ pr[s][q].t3 = "armed"
    /\ AtRest
    /\ pr' = [pr EXCEPT ![s][q].t3 = "expired"]
    /\ ev' = Broadcast(s, {"T3_TMO"})
    /\ UNCHANGED <<st, tx, api, chan, used>>

\* A secondary is reset and forgets everything; what was on its way to it is
\* lost.
Restart(s) ==
    /\ s \in Secs
    /\ used.restarts < MaxRestarts
    /\ \A q \in PeerSet(s) : api[s][q].pc = "idle"
    /\ used' = [used EXCEPT !.restarts = @ + 1]
    /\ st' = [st EXCEPT ![s] = InitStation(s)]
    /\ pr' = [pr EXCEPT ![s] = [q \in PeerSet(s) |-> InitPeer]]
    /\ tx' = [tx EXCEPT ![s] = [pc |-> "wait", cm |-> {}]]
    /\ ev' = [ev EXCEPT ![s] = [flags |-> {}, pending |-> FALSE]]
    /\ chan' = [chan EXCEPT ![s] = << >>]
    /\ UNCHANGED api

TxStep(s) == TxFetch(s) \/ TxServe(s) \/ TxTail(s)
CallStep(s, q) == LinkRequest(s, q) \/ LinkEvent(s, q) \/ LinkTimeout(s, q)

Step ==
    \E s \in Station :
        \/ TxStep(s)
        \/ RxFrame(s)
        \/ Lose(s)
        \/ RxIdle(s)
        \/ Restart(s)
        \/ \E q \in PeerSet(s) :
              \/ LinkUpBegin(s, q)
              \/ LinkDownBegin(s, q)
              \/ CallStep(s, q)
              \/ T1Expire(s, q)
              \/ T3Expire(s, q)

Next == Step /\ UNCHANGED link

Spec == Init /\ [][Next]_vars

(***************************************************************************)
(* Fairness: the threads run, timers run out, a frame arrives unless it is *)
(* lost, a call that started goes on.  Nobody has to call.                 *)
(***************************************************************************)
Fairness ==
    \A s \in Station :
        /\ WF_running(TxStep(s))
        /\ WF_running(RxFrame(s))
        /\ \A q \in PeerSet(s) :
              /\ WF_running(CallStep(s, q))
              /\ WF_running(T1Expire(s, q))
              /\ WF_running(T3Expire(s, q))

FairSpec == Spec /\ Fairness

-----------------------------------------------------------------------------
PeerState ==
    [conn : BOOLEAN, um_cmd : UCmd, sent : BOOLEAN, rcved : BOOLEAN,
     um_rsp : {"none", "UA", "DM"}, need_p : BOOLEAN, retry : 0..RetryMax,
     t1 : Timer, t3 : Timer]

StationState(s) ==
    [mode : {"NDM", "ADM", "NRM", "ABM", "0"}, rx_fn : BOOLEAN, pri : BOOLEAN,
     connected_count : Nat, c_peer : PeerSet(s), p_rcved : BOOLEAN,
     f_rcved : BOOLEAN, idl : BOOLEAN]

TypeOK ==
    \A s \in Station :
        /\ st[s] \in StationState(s)
        /\ pr[s] \in [PeerSet(s) -> PeerState]
        /\ tx[s] \in [pc : {"wait", "serve", "tail"}, cm : SUBSET Flag]
        /\ ev[s] \in [flags : SUBSET Flag, pending : BOOLEAN]
        /\ api[s] \in [PeerSet(s) ->
                          [pc : {"idle", "upReq", "up", "downReq", "down"},
                           s_mode : {"NDM", "ADM", "0"}, flags : SUBSET AppFlag]]

\* The primary of an NRM link never believes in a connection its secondary
\* does not know of: losses and retries lead to no half-open link on its
\* side, except while a command is outstanding.
NoGhost ==
    Mode = "NRM" =>
        \A q \in Secs : pr["P"][q].conn /\ ~pr["P"][q].sent => pr[q]["P"].conn

\* "In multipoint, all peers use the same mode" (LinkUpEx): as long as a peer
\* is connected the station stays in the mode of the connection, with its
\* receive handler.  That holds while only one connection is asked for.
ModeKept ==
    /\ TypeOK
    /\ Cardinality(link.called) = 1 =>
          \A s \in Station :
             (\E q \in PeerSet(s) : pr[s][q].conn)
                 => st[s].mode = Mode /\ st[s].rx_fn

\* PROTOCOL.md on connection and disconnection: "UA,F=1".  The initiator drops
\* a response without F.
AnswersHaveF ==
    \A s \in Station : \A i \in DOMAIN chan[s] :
        chan[s][i].type \in {"UA", "DM"} => chan[s][i].pf

\* LinkUpEx and LinkDownEx on LINK_REQ: "Signal TX task to send the command".
\* In full duplex the TX thread does not go to sleep over a command that was
\* never sent.
RequestServed ==
    \A s \in Station : \A q \in PeerSet(s) :
        /\ ~TWA
        /\ Asleep(s) /\ api[s][q].pc \in {"up", "down"}
        /\ pr[s][q].um_cmd # "none"
        => \E r \in PeerSet(s) : pr[s][r].sent

\* PROTOCOL.md on the idle poll of NRM: T3 starts when F is received, its expiry
\* asks for a poll, and a poll starts T1.  When the line has come to rest, T1 or
\* T3 of a connected secondary is armed, so that its loss will be found out
\* without any request of the application.  It holds of the one secondary of a
\* link that is not asked to disconnect, and nothing is claimed of more: with
\* two, the T3 of the one is lost while the other is polled.
Surveillance ==
    Mode = "NRM" /\ Cardinality(link.called) = 1 /\ AtRest =>
        \A q \in Secs :
           pr["P"][q].conn /\ pr["P"][q].um_cmd # "DISC"
              => "armed" \in {pr["P"][q].t1, pr["P"][q].t3}

\* A command that was sent is concluded: answered, or given up after the
\* last retry.
Concludes ==
    \A s \in Station : \A q \in PeerSet(s) : pr[s][q].sent ~> ~pr[s][q].sent

\* A primary whose secondary was reset finds out by its polls: it drops the
\* connection, or the two agree on a new one.
HalfOpenDetected ==
    \A q \in Secs :
        pr["P"][q].conn /\ ~pr[q]["P"].conn
            ~> (pr["P"][q].conn <=> pr[q]["P"].conn)
=============================================================================
