-------------------------- MODULE HdlcLinkManager --------------------------
(***************************************************************************)
(* The link manager: a thread in ioHdlcLinkManagerRun that watches one     *)
(* peer, reports its state and, when active, connects it again; a thread   *)
(* that calls ioHdlcLinkManagerStop; and the protocol core, which changes  *)
(* the peer's state and broadcasts on the station's application events.    *)
(*                                                                         *)
(* Both listeners of the manager share one event bit of its thread.  A     *)
(* step of the thread is one critical section of a listener, of the        *)
(* thread's events, of the manager or of the peer.  Nothing is bounded.    *)
(***************************************************************************)

VARIABLES
    peer,            \* what ioHdlcPeerGetState returns
    app,             \* the listener on the station's app_es
    stop,            \* the listener on stop_es
    pending,         \* the manager's event bit in its thread
    active,          \* config.active
    stop_requested,
    stopper,         \* where ioHdlcLinkManagerStop is
    pc,              \* where ioHdlcLinkManagerRun is
    last_state,
    retry            \* retry_pending, and whether retry_deadline has passed

vars == <<peer, app, stop, pending, active, stop_requested, stopper, pc,
          last_state, retry>>

thread == <<pc, last_state, retry>>

Closed == {"ORDERLY_CLOSED", "ABORTED"}
PeerState == {"CONNECTED", "DISCONNECTED"} \union Closed

\* Mutant of Wanted: the loss of a link is not listened for.
WantedNotLost == {"LINK_UP", "LINK_DOWN"}

Wanted == {"LINK_UP", "LINK_DOWN", "LINK_LOST"}

running == pc # "idle"

Init ==
    /\ peer = "DISCONNECTED"
    /\ app = [reg |-> FALSE, flags |-> {}]
    /\ stop = [reg |-> FALSE, flags |-> {}]
    /\ pending = FALSE
    /\ active \in BOOLEAN
    /\ stop_requested = FALSE
    /\ stopper = "idle"
    /\ pc = "idle"
    /\ last_state = "INVALID"
    /\ retry = "none"

-----------------------------------------------------------------------------
\* iohdlc_evt_broadcast_flags for one listener: the wanted flags are added,
\* and the thread's bit is set if the listener has any, old or new.  No flags
\* stand for no broadcast.
Added(l, flags, wflags) ==
    IF l.reg THEN [l EXCEPT !.flags = @ \union (flags \intersect wflags)] ELSE l

BroadcastApp(flags) ==
    /\ app' = Added(app, flags, Wanted)
    /\ pending' = (pending \/ (flags # {} /\ app'.flags # {}))
    /\ UNCHANGED stop

BroadcastStop ==
    /\ stop' = Added(stop, {"STOP"}, {"STOP"})
    /\ pending' = (pending \/ stop'.flags # {})
    /\ UNCHANGED app

-----------------------------------------------------------------------------
(* The protocol core, under state_mutex: the state changes and its event   *)
(* are one step.                                                           *)

Core(state, flags) ==
    /\ peer' = state
    /\ BroadcastApp(flags)
    /\ UNCHANGED <<active, stop_requested, stopper, thread>>

\* A set-mode command or its UA; a peer that is connected already is reset.
Connect == Core("CONNECTED", {"LINK_UP"})

\* closePeerOrderly, handleTimeoutRetry: an event only if it was connected.
CloseOrderly ==
    Core("ORDERLY_CLOSED", IF peer = "CONNECTED" THEN {"LINK_DOWN"} ELSE {})
Abort == Core("ABORTED", IF peer = "CONNECTED" THEN {"LINK_LOST"} ELSE {})

\* DM for a set-mode command: no instance of HdlcConn reaches one at a peer
\* that is connected.
Refuse == peer # "CONNECTED" /\ Core("DISCONNECTED", {"LINK_REFUSED"})

\* A call of another thread clears the terminal state.
OtherCall == peer \in Closed /\ Core("DISCONNECTED", {})

\* The flags are those of all peers of the station.
OtherPeer == \E f \in Wanted \union {"LINK_REFUSED"} : Core(peer, {f})

-----------------------------------------------------------------------------
(* ioHdlcLinkManagerObjectInit and ioHdlcLinkManagerStop.                  *)

ObjectInit ==
    /\ ~running /\ stopper = "idle"
    /\ active' \in BOOLEAN
    /\ stop_requested' = FALSE
    /\ UNCHANGED <<peer, app, stop, pending, stopper, thread>>

StopRequest ==
    /\ stopper = "idle"
    /\ stop_requested' = TRUE
    /\ stopper' = "broadcast"
    /\ UNCHANGED <<peer, app, stop, pending, active, thread>>

StopBroadcast ==
    /\ stopper = "broadcast"
    /\ stopper' = "idle"
    /\ BroadcastStop
    /\ UNCHANGED <<peer, active, stop_requested, thread>>

-----------------------------------------------------------------------------
(* ioHdlcLinkManagerRun.                                                   *)

Go(from, to) == pc = from /\ pc' = to
KeepEvents == UNCHANGED <<app, stop, pending>>
KeepOthers == UNCHANGED <<peer, active, stop_requested, stopper>>

\* A run while another one is under way, or after Stop, returns at once.
Run ==
    /\ Go("idle", "register")
    /\ ~stop_requested
    /\ last_state' = "INVALID" /\ retry' = "none"
    /\ KeepEvents /\ KeepOthers

Register ==
    /\ Go("register", "registerStop")
    /\ app' = [reg |-> TRUE, flags |-> {}]
    /\ UNCHANGED <<stop, pending, last_state, retry>> /\ KeepOthers

\* Mutant of RegisterStop: nothing listens for the stop event.
RegisterStopNever ==
    /\ Go("registerStop", "notify")
    /\ KeepEvents /\ UNCHANGED <<last_state, retry>> /\ KeepOthers

RegisterStop ==
    /\ Go("registerStop", "notify")
    /\ stop' = [reg |-> TRUE, flags |-> {}]
    /\ UNCHANGED <<app, pending, last_state, retry>> /\ KeepOthers

\* notifyState, before the loop and after every wait.
Notify ==
    /\ Go("notify", "loop")
    /\ last_state' = peer
    /\ KeepEvents /\ UNCHANGED retry /\ KeepOthers

\* isStopRequested, at the top of the loop and before an attempt.
TestStop(from, goesOn) ==
    /\ Go(from, IF stop_requested THEN "unregisterStop" ELSE goesOn)
    /\ KeepEvents /\ UNCHANGED <<last_state, retry>> /\ KeepOthers

\* The state decides between waiting for ever, until the retry deadline, or
\* trying now.
Decide ==
    /\ LET watches == ~active \/ peer = "CONNECTED"
       IN  /\ Go("decide", IF watches \/ retry = "running" THEN "poll" ELSE "ready")
           /\ retry' = IF watches \/ retry = "passed" THEN "none" ELSE retry
    /\ KeepEvents /\ UNCHANGED last_state /\ KeepOthers

\* Mutant of Poll: the flags are cleared, and the wait starts all the same.
PollForgets ==
    /\ Go("poll", "wait")
    /\ app' = [app EXCEPT !.flags = {}]
    /\ pending' = FALSE
    /\ UNCHANGED <<stop, last_state, retry>> /\ KeepOthers

\* ioHdlcAppListenerWait takes the flags before it blocks.
Poll ==
    /\ Go("poll", IF app.flags # {} THEN "drain" ELSE "wait")
    /\ app' = [app EXCEPT !.flags = {}]
    /\ UNCHANGED <<stop, pending, last_state, retry>> /\ KeepOthers

\* There were flags: the bit that came with them is cleared without waiting.
Drain ==
    /\ Go("drain", "clearStop")
    /\ pending' = FALSE
    /\ UNCHANGED <<app, stop, last_state, retry>> /\ KeepOthers

\* There were none: it blocks until the bit is set or the deadline passes.
Wake ==
    /\ pending /\ Go("wait", "take")
    /\ pending' = FALSE
    /\ UNCHANGED <<app, stop, last_state, retry>> /\ KeepOthers

\* Mutant of WaitTimeout: the wait for the deadline has no timeout.
WaitTimeoutNever == FALSE

WaitTimeout ==
    /\ ~pending /\ retry = "passed" /\ Go("wait", "clearStop")
    /\ KeepEvents /\ UNCHANGED <<last_state, retry>> /\ KeepOthers

Take ==
    /\ Go("take", "clearStop")
    /\ app' = [app EXCEPT !.flags = {}]
    /\ UNCHANGED <<stop, pending, last_state, retry>> /\ KeepOthers

\* waitEvent: the flags of the stop listener are thrown away.
ClearStop ==
    /\ Go("clearStop", "notify")
    /\ stop' = [stop EXCEPT !.flags = {}]
    /\ UNCHANGED <<app, pending, last_state, retry>> /\ KeepOthers

\* is_ready, a hook of the application.
AskReady ==
    /\ \/ Go("ready", "testStop") /\ UNCHANGED retry
       \/ Go("ready", "loop") /\ retry' = "running"
    /\ KeepEvents /\ UNCHANGED last_state /\ KeepOthers

\* ioHdlcStationLinkUp returns at once if the peer is connected.
CallLinkUp ==
    /\ Go("linkUp", IF peer = "CONNECTED" THEN "notifyCall" ELSE "request")
    /\ KeepEvents /\ UNCHANGED <<last_state, retry>> /\ KeepOthers

\* A new attempt clears the terminal state.
Request ==
    /\ Go("request", "calling")
    /\ peer' = IF peer \in Closed THEN "DISCONNECTED" ELSE peer
    /\ KeepEvents
    /\ UNCHANGED <<last_state, retry, active, stop_requested, stopper>>

\* The call succeeds, is refused or times out (HdlcConn).
LinkUpReturns ==
    /\ Go("calling", "notifyCall")
    /\ KeepEvents /\ UNCHANGED <<last_state, retry>> /\ KeepOthers

NotifyCall ==
    /\ Go("notifyCall", "testCall")
    /\ last_state' = peer
    /\ KeepEvents /\ UNCHANGED retry /\ KeepOthers

TestCall ==
    /\ Go("testCall", "loop")
    /\ retry' = IF peer = "CONNECTED" THEN retry ELSE "running"
    /\ KeepEvents /\ UNCHANGED last_state /\ KeepOthers

DeadlinePasses ==
    /\ retry = "running" /\ retry' = "passed"
    /\ KeepEvents /\ UNCHANGED <<pc, last_state>> /\ KeepOthers

UnregisterStop ==
    /\ Go("unregisterStop", "unregister")
    /\ stop' = [reg |-> FALSE, flags |-> {}]
    /\ UNCHANGED <<app, pending, last_state, retry>> /\ KeepOthers

Unregister ==
    /\ Go("unregister", "clearBit")
    /\ app' = [reg |-> FALSE, flags |-> {}]
    /\ UNCHANGED <<stop, pending, last_state, retry>> /\ KeepOthers

\* Mutant of ClearBit: the bit is left as it is.
ClearBitNot ==
    /\ Go("clearBit", "idle")
    /\ KeepEvents /\ UNCHANGED <<last_state, retry>> /\ KeepOthers

\* ioHdlcAppListenerUnregister clears the bit; then the run is over.
ClearBit ==
    /\ Go("clearBit", "idle")
    /\ pending' = FALSE
    /\ UNCHANGED <<app, stop, last_state, retry>> /\ KeepOthers

\* What the thread does by itself once it runs.
Step ==
    \/ Register \/ RegisterStop \/ Notify
    \/ TestStop("loop", "decide") \/ Decide
    \/ Poll \/ Drain \/ Wake \/ WaitTimeout \/ Take \/ ClearStop
    \/ AskReady \/ TestStop("testStop", "linkUp")
    \/ CallLinkUp \/ Request \/ LinkUpReturns \/ NotifyCall \/ TestCall
    \/ UnregisterStop \/ Unregister \/ ClearBit

Next ==
    \/ Connect \/ CloseOrderly \/ Abort \/ Refuse
    \/ OtherCall \/ OtherPeer
    \/ ObjectInit \/ StopRequest \/ StopBroadcast
    \/ Run \/ Step \/ DeadlinePasses

Spec == Init /\ [][Next]_vars

(***************************************************************************)
(* Fairness: the thread of the manager and that of the caller of Stop run, *)
(* a link-up call returns by its safety timeout, and time goes on.         *)
(* Nothing is assumed of the core, the hook or the caller of Run.          *)
(***************************************************************************)
FairSpec ==
    Spec /\ WF_vars(Step) /\ WF_vars(StopBroadcast) /\ WF_vars(DeadlinePasses)

-----------------------------------------------------------------------------
PC == {"idle", "register", "registerStop", "notify", "loop", "decide", "poll",
       "drain", "wait", "take", "clearStop", "ready", "testStop", "linkUp",
       "request", "calling", "notifyCall", "testCall", "unregisterStop",
       "unregister", "clearBit"}

TypeOK ==
    /\ peer \in PeerState
    /\ app \in [reg : BOOLEAN, flags : SUBSET {"LINK_UP", "LINK_DOWN", "LINK_LOST"}]
    /\ stop \in [reg : BOOLEAN, flags : SUBSET {"STOP"}]
    /\ pending \in BOOLEAN /\ active \in BOOLEAN /\ stop_requested \in BOOLEAN
    /\ stopper \in {"idle", "broadcast"}
    /\ pc \in PC
    /\ last_state \in PeerState \union {"INVALID"}
    /\ retry \in {"none", "running", "passed"}

Known == (last_state = "CONNECTED") <=> (peer = "CONNECTED")

\* on_state_change: "Notify the application of an effective peer-state
\* transition".  A manager that sleeps has reported whether the peer is
\* connected, however events coalesce, come from other peers, or fall between
\* the reading of the state and the wait.
LinkKnown == pc = "wait" /\ ~pending => Known

\* ioHdlcAppListenerUnregister "clears its thread event bit": a run leaves
\* neither a listener, which lives on its stack, nor the bit behind, also
\* when Stop broadcasts while it returns.
LeavesNothing == ~running => ~app.reg /\ ~stop.reg /\ ~pending

(***************************************************************************)
(* Why the two hold.  The listeners are registered exactly inside the run; *)
(* and where the thread may still go to sleep over a state it has not      *)
(* reported, the event of that state is still in its listener, and once it *)
(* sleeps, in its event bit.                                               *)
(***************************************************************************)
Listening ==
    /\ app.reg <=> pc \notin {"idle", "register", "clearBit"}
    /\ stop.reg <=>
          pc \notin {"idle", "register", "registerStop", "unregister", "clearBit"}
    /\ ~app.reg => app.flags = {}
    /\ ~stop.reg => stop.flags = {}

Reading == {"loop", "decide", "poll", "ready", "testStop", "linkUp", "request",
            "calling", "notifyCall", "testCall"}

Announced ==
    /\ pc \in Reading => Known \/ app.flags # {}
    /\ pc = "wait" => Known \/ pending

\* The inductive invariant of the manager.
IInv == TypeOK /\ Listening /\ (pc = "idle" => ~pending) /\ Announced

\* ioHdlcLinkManagerStop: "The stop event wakes passive and retry waits".
\* Stop ends a run, at whatever point it comes.
StopReturns == stop_requested /\ running ~> ~running

\* An active manager whose peer is not connected asks again whether it may
\* connect, whatever state changes it slept through.
Reconnects ==
    running /\ active /\ peer # "CONNECTED"
        ~> pc = "ready" \/ peer = "CONNECTED" \/ stop_requested
=============================================================================
