----------------------- MODULE HdlcLinkManagerProofs -----------------------
(***************************************************************************)
(* The safety properties of the link manager hold in every behaviour: IInv *)
(* is inductive.  One lemma for the broadcasts, one step per action.       *)
(***************************************************************************)
EXTENDS HdlcLinkManager, TLAPS

\* A broadcast adds to a registered listener what it wants and leaves an
\* unregistered one alone; the bit is set when there are flags, never cleared.
LEMMA BroadcastAppEffect ==
    ASSUME IInv, NEW flags, BroadcastApp(flags)
    PROVE  /\ app'.reg = app.reg
           /\ app' \in [reg : BOOLEAN,
                        flags : SUBSET {"LINK_UP", "LINK_DOWN", "LINK_LOST"}]
           /\ ~app.reg => app'.flags = {} /\ pending' = pending
           /\ app.flags \subseteq app'.flags
           /\ app.reg => \A f \in flags \intersect Wanted : f \in app'.flags
           /\ flags # {} /\ app'.flags # {} => pending'
           /\ pending => pending'
           /\ pending' \in BOOLEAN
           /\ stop' = stop
<1>1. app \in [reg : BOOLEAN,
               flags : SUBSET {"LINK_UP", "LINK_DOWN", "LINK_LOST"}]
  BY DEF IInv, TypeOK
<1>2. pending \in BOOLEAN /\ (~app.reg => app.flags = {})
  BY DEF IInv, TypeOK, Listening
<1>3. app' = IF app.reg
             THEN [app EXCEPT !.flags = @ \union (flags \intersect Wanted)]
             ELSE app
  BY DEF BroadcastApp, Added
<1>4. /\ pending' = (pending \/ (flags # {} /\ app'.flags # {}))
      /\ stop' = stop
  BY DEF BroadcastApp
<1>5. CASE app.reg
  <2>1. /\ app'.reg = app.reg
        /\ app'.flags = app.flags \union (flags \intersect Wanted)
        /\ app' \in [reg : BOOLEAN,
                     flags : SUBSET {"LINK_UP", "LINK_DOWN", "LINK_LOST"}]
    BY <1>1, <1>3, <1>5 DEF Wanted
  <2>. QED BY <1>2, <1>4, <1>5, <2>1
<1>6. CASE ~app.reg
  <2>1. app' = app
    BY <1>3, <1>6
  <2>. QED BY <1>1, <1>2, <1>4, <1>6, <2>1
<1>. QED BY <1>5, <1>6

\* A step of the core that changes whether the peer is connected comes with
\* an event the manager listens for.
LEMMA CoreKeepsIInv ==
    ASSUME IInv, NEW state \in PeerState, NEW flags, Core(state, flags),
           (state = "CONNECTED") # (peer = "CONNECTED")
               => flags \intersect Wanted # {}
    PROVE  IInv'
<1>1. /\ peer' = state /\ BroadcastApp(flags)
      /\ active' = active /\ stop_requested' = stop_requested
      /\ stopper' = stopper /\ pc' = pc /\ last_state' = last_state
      /\ retry' = retry
  BY DEF Core, thread
<1>2. /\ app'.reg = app.reg
      /\ app' \in [reg : BOOLEAN,
                   flags : SUBSET {"LINK_UP", "LINK_DOWN", "LINK_LOST"}]
      /\ ~app.reg => app'.flags = {} /\ pending' = pending
      /\ app.flags \subseteq app'.flags
      /\ app.reg => \A f \in flags \intersect Wanted : f \in app'.flags
      /\ flags # {} /\ app'.flags # {} => pending'
      /\ pending => pending'
      /\ pending' \in BOOLEAN
      /\ stop' = stop
  BY <1>1, BroadcastAppEffect
<1>3. TypeOK'
  BY <1>1, <1>2 DEF IInv, TypeOK
<1>4. Listening'
  BY <1>1, <1>2 DEF IInv, Listening
<1>5. (pc = "idle" => ~pending)'
  BY <1>1, <1>2 DEF IInv, Listening
<1>6. Announced'
  <2>1. pc \in Reading \union {"wait"} => app.reg
    BY DEF IInv, Listening, Reading
  <2>2. app.reg => (Known' <=> Known) \/ (flags # {} /\ app'.flags # {})
    BY <1>1, <1>2 DEF Known
  <2>3. ASSUME pc \in Reading
        PROVE  Known' \/ app'.flags # {}
    BY <1>2, <2>1, <2>2, <2>3 DEF IInv, Announced
  <2>4. ASSUME pc = "wait"
        PROVE  Known' \/ pending'
    BY <1>2, <2>1, <2>2, <2>4 DEF IInv, Announced
  <2>. QED BY <1>1, <2>3, <2>4 DEF Announced
<1>. QED BY <1>3, <1>4, <1>5, <1>6 DEF IInv

\* The inductive invariant holds before the first run.
LEMMA InitIInv == Init => IInv
<1>. SUFFICES ASSUME Init PROVE IInv
  OBVIOUS
<1>1. TypeOK
  BY DEF Init, TypeOK, PeerState, Closed, PC
<1>2. Listening
  BY DEF Init, Listening
<1>3. Announced
  BY DEF Init, Announced, Reading
<1>. QED BY <1>1, <1>2, <1>3 DEF Init, IInv

\* A step of the thread keeps IInv.  Only Poll and Take empty the listener of
\* the station: Poll goes on to sleep if there was nothing, so the state was
\* known, and to a new reading otherwise, like Take.
LEMMA StepKeepsIInv == IInv /\ Step => IInv'
<1>. SUFFICES ASSUME IInv, Step PROVE IInv'
  OBVIOUS
<1>. USE DEF IInv, TypeOK, Listening, Announced, Known, Reading, PC, Go
<1>1. CASE Register
  BY <1>1 DEF Register, KeepOthers
<1>2. CASE RegisterStop
  BY <1>2 DEF RegisterStop, KeepOthers
<1>3. CASE Notify
  BY <1>3 DEF Notify, KeepOthers, KeepEvents
<1>4. CASE Decide
  BY <1>4 DEF Decide, KeepOthers, KeepEvents
<1>5. CASE Poll
  BY <1>5 DEF Poll, KeepOthers
<1>6. CASE Drain
  BY <1>6 DEF Drain, KeepOthers
<1>7. CASE Wake
  BY <1>7 DEF Wake, KeepOthers
<1>8. CASE WaitTimeout
  BY <1>8 DEF WaitTimeout, KeepOthers, KeepEvents
<1>9. CASE Take
  BY <1>9 DEF Take, KeepOthers
<1>10. CASE ClearStop
  BY <1>10 DEF ClearStop, KeepOthers
<1>11. CASE AskReady
  BY <1>11 DEF AskReady, KeepOthers, KeepEvents
<1>12. CASE CallLinkUp
  BY <1>12 DEF CallLinkUp, KeepOthers, KeepEvents
<1>13. CASE Request
  BY <1>13 DEF Request, KeepEvents, PeerState, Closed
<1>14. CASE LinkUpReturns
  BY <1>14 DEF LinkUpReturns, KeepOthers, KeepEvents
<1>15. CASE NotifyCall
  BY <1>15 DEF NotifyCall, KeepOthers, KeepEvents
<1>16. CASE TestCall
  BY <1>16 DEF TestCall, KeepOthers, KeepEvents
<1>17. CASE UnregisterStop
  BY <1>17 DEF UnregisterStop, KeepOthers
<1>18. CASE Unregister
  BY <1>18 DEF Unregister, KeepOthers
<1>19. CASE ClearBit
  BY <1>19 DEF ClearBit, KeepOthers
<1>20. CASE TestStop("loop", "decide")
  BY <1>20 DEF TestStop, KeepOthers, KeepEvents
<1>21. CASE TestStop("testStop", "linkUp")
  BY <1>21 DEF TestStop, KeepOthers, KeepEvents
<1>. QED BY <1>1, <1>2, <1>3, <1>4, <1>5, <1>6, <1>7, <1>8, <1>9, <1>10, <1>11, <1>12, <1>13, <1>14, <1>15, <1>16, <1>17, <1>18, <1>19, <1>20, <1>21 DEF Step

\* Every step of the system keeps IInv.
LEMMA NextKeepsIInv == IInv /\ [Next]_vars => IInv'
<1>. SUFFICES ASSUME IInv, [Next]_vars PROVE IInv'
  OBVIOUS
<1>1. peer \in PeerState
  BY DEF IInv, TypeOK
<1>2. CASE Connect
  BY <1>2, CoreKeepsIInv DEF Connect, PeerState, Wanted
<1>3. CASE CloseOrderly
  BY <1>3, CoreKeepsIInv DEF CloseOrderly, PeerState, Closed, Wanted
<1>4. CASE Abort
  BY <1>4, CoreKeepsIInv DEF Abort, PeerState, Closed, Wanted
<1>5. CASE Refuse
  BY <1>5, CoreKeepsIInv DEF Refuse, PeerState
<1>6. CASE OtherCall
  BY <1>6, CoreKeepsIInv DEF OtherCall, PeerState, Closed
<1>7. CASE OtherPeer
  BY <1>1, <1>7, CoreKeepsIInv DEF OtherPeer
<1>8. CASE ObjectInit
  BY <1>8 DEF ObjectInit, thread, running, IInv, TypeOK, Listening, Announced, Known
<1>9. CASE StopRequest
  BY <1>9 DEF StopRequest, thread, IInv, TypeOK, Listening, Announced, Known
<1>10. CASE StopBroadcast
  BY <1>10 DEF StopBroadcast, BroadcastStop, Added, thread, IInv, TypeOK,
               Listening, Announced, Known
<1>11. CASE Run
  BY <1>11 DEF Run, Go, KeepEvents, KeepOthers, IInv, TypeOK, Listening,
               Announced, Reading, PC
<1>12. CASE Step
  BY <1>12, StepKeepsIInv
<1>13. CASE DeadlinePasses
  BY <1>13 DEF DeadlinePasses, KeepEvents, KeepOthers, IInv, TypeOK, Listening,
               Announced, Known
<1>14. CASE UNCHANGED vars
  BY <1>14 DEF vars, IInv, TypeOK, Listening, Announced, Known
<1>. QED BY <1>2, <1>3, <1>4, <1>5, <1>6, <1>7, <1>8, <1>9, <1>10, <1>11,
            <1>12, <1>13, <1>14 DEF Next

-----------------------------------------------------------------------------
\* The inductive invariant holds: the listeners are registered exactly during
\* a run, and the event of a state not yet reported is never lost.
THEOREM ManagerIInvCorrect == Spec => []IInv
<1>1. Init => IInv
  BY InitIInv
<1>2. IInv /\ [Next]_vars => IInv'
  BY NextKeepsIInv
<1>. QED BY <1>1, <1>2, PTL DEF Spec

\* ioHdlcLinkManagerRun: "coalescing and events emitted for other peers are
\* harmless".  A manager that sleeps knows whether its peer is connected.
THEOREM LinkKnownCorrect == Spec => []LinkKnown
<1>1. IInv => LinkKnown
  BY DEF IInv, Announced, LinkKnown
<1>. QED BY <1>1, ManagerIInvCorrect, PTL

\* ioHdlcAppListenerUnregister and the end of ioHdlcLinkManagerRun: a run that
\* is over has left no listener and no event bit.
THEOREM LeavesNothingCorrect == Spec => []LeavesNothing
<1>1. IInv => LeavesNothing
  BY DEF IInv, Listening, LeavesNothing, running
<1>. QED BY <1>1, ManagerIInvCorrect, PTL
=============================================================================
