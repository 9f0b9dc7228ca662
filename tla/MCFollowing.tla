----------------------------- MODULE MCFollowing -----------------------------
(* A small instance, for TLC, of the screens that follow something as it happens: each *)
(* behaviour is of one of them.                                                        *)
EXTENDS TraceScreen, ServiceScreens, SessionScreens

\* Somebody signed in on this machine before.
Cookie == [of |-> "ana", stamp |-> 1, start |-> 1]

Init ==
  \/ TraceInit
  \/ \E screen \in {"workers", "events"} : Opened(ServiceOpening(screen), ServiceStored)
  \/ SessionInit(Cookie)

Shown(screens) == page.name \in screens

Next ==
  \/ Shown({"trace"}) /\ TraceSteps
  \/ Shown({"workers", "services", "events"}) /\ ServiceSteps
  \/ Shown({"starting", "login", "inside"}) /\ SessionSteps

Spec == Init /\ [][Next]_browser

\* The timers of a page run while it is open, the network carries what is asked and does not
\* lose every answer, and what was asked of the router and of the connection happens.  A
\* timer that finds no room is one question more than the bound allows: it is fair when
\* there is room again and again.  A behaviour is of one screen, so that the actions of
\* different ones share a conjunct.
Fairness ==
  /\ SF_browser(FindProcesses \/ StatusTimer \/ EventsTimer \/ Poll)
  /\ \A s \in Slots :
       /\ SF_browser(ServiceServed(s) \/ SessionServed(s))
       /\ WF_browser(WorkersServed(s))
       /\ SF_browser(\/ ProcessesFound(s)
                     \/ StatusAnswered(s)
                     \/ EventsAnswered(s)
                     \/ \E op \in SessionOps : ThrownOut(s, op))
       /\ WF_browser(CommandEnds(s) \/ SessionHeard(s))
  /\ WF_browser(StreamReopened \/ NavigationEnds)
  /\ WF_browser(StreamRetried \/ LiveRetried)
  /\ WF_browser(LiveArrives)
  /\ WF_browser(LiveRefused)
  /\ \A p \in Processes : WF_browser(\E k \in 1..MaxLines : LinesArrive(p, k))

FairSpec == Spec /\ Fairness
=============================================================================
