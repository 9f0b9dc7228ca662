----------------------------- MODULE WebScreens -----------------------------
(* The screen of the web applications of the machine: which of them answers by each name *)
(* of the DNS, the file of the proxy for that name, and the swap of one for another.     *)
EXTENDS Browser

CONSTANTS Apps,      \* the web applications, in the order they are told
          AddressOf, \* the name each answers by; None when it has none
          MaxSwaps   \* how many swaps are made, here and elsewhere

OnWeb == page.name = "web"
Answering == {AddressOf[a] : a \in ToSet(Apps)} \ {None}

-----------------------------------------------------------------------------
(* The Worker Control *)

\* Only one of those that share a name answers by it.
Swapped(a, activate) ==
  [stored EXCEPT !.exists = @ \union {AddressOf[a]},
                 !.active = {b \in @ : AddressOf[b] # AddressOf[a] \/ (b # a /\ ~activate)}
                              \union (IF activate THEN {a} ELSE {})]

\* The proxy may not take the configuration, and then nothing changes.
WebServed(s) ==
  \/ /\ InStage(s, {"frontends"}, "sent")
     /\ Serve(s, stored.active, stored)
  \/ /\ InStage(s, {"webSite"}, "sent")
     /\ Serve(s, [of |-> calls[s].at, exists |-> calls[s].at \in stored.exists], stored)
  \/ /\ InStage(s, {"switchWeb"}, "sent")
     /\ \/ Serve(s, FALSE, stored)
        \/ Serve(s, TRUE, Swapped(calls[s].at, calls[s].with))

MaySwap == stored.swaps < MaxSwaps
Counted(after) == [after EXCEPT !.swaps = @ + 1]

\* By another administrator, or by an application being published.
SwappedElsewhere(a) ==
  /\ OnWeb
  /\ MaySwap
  /\ AddressOf[a] # None
  /\ \E activate \in BOOLEAN : stored' = Counted(Swapped(a, activate))
  /\ UNCHANGED <<page, view, calls>>

-----------------------------------------------------------------------------
(* What is read *)

\* The one that was chosen, or the first.
Application(v) == IF v.active = None THEN None ELSE IF v.chosen # None THEN v.chosen ELSE Head(Apps)
AddressShown(v) == IF Application(v) = None THEN None ELSE AddressOf[Application(v)]

SiteQuestion(v) == IF AddressShown(v) = None THEN <<>> ELSE <<Request("webSite", AddressShown(v), None)>>
SiteKept(v) == IF AddressShown(v) = None THEN [v EXCEPT !.site = None] ELSE v

FrontendsQuestion == <<Request("frontends", None, None)>>

\* Mutant: once there was a problem nothing is asked any more.
WebTimerUntilAProblem ==
  /\ OnWeb
  /\ ~view.problem
  /\ Send(FrontendsQuestion)
  /\ UNCHANGED <<page, view, stored>>

WebTimer ==
  /\ OnWeb
  /\ Send(FrontendsQuestion)
  /\ UNCHANGED <<page, view, stored>>

\* The file of the proxy is asked for after; how much the modules are used is left out.
FrontendsAnswered(s) ==
  /\ Answer(s, "frontends")
  /\ LET next == [view EXCEPT !.active = calls[s].answer, !.problem = FALSE]
     IN  view' = SiteKept(next) /\ Ends(s, SiteQuestion(next))
  /\ UNCHANGED <<page, stored>>

\* That the Worker Control is too old is told instead, in the same place.
FrontendsFailed(s) ==
  /\ Failure(s, "frontends")
  /\ view' = [view EXCEPT !.problem = TRUE]
  /\ Ends(s, <<>>)
  /\ UNCHANGED <<page, stored>>

\* Whatever name is on the screen by then.  What there was stays when it fails.
SiteEnds(s) ==
  /\ \/ Answer(s, "webSite") /\ view' = [view EXCEPT !.site = calls[s].answer, !.siteProblem = FALSE]
     \/ Failure(s, "webSite") /\ \E told \in BOOLEAN : view' = [view EXCEPT !.siteProblem = told]
  /\ Ends(s, <<>>)
  /\ UNCHANGED <<page, stored>>

ChooseWeb(a) ==
  /\ OnWeb
  /\ view.active # None
  /\ view.confirming = None
  /\ a # Application(view)
  /\ LET next == [view EXCEPT !.chosen = a]
     IN  view' = SiteKept(next) /\ Send(SiteQuestion(next))
  /\ UNCHANGED <<page, stored>>

-----------------------------------------------------------------------------
(* The swap *)

\* One that does not answer is activated, one that does is taken out; and where the name has
\* no file yet, it is made with the one that answers.
AskSwap(activate) ==
  /\ OnWeb
  /\ AddressShown(view) # None
  /\ view.confirming = None
  /\ ~view.switching
  /\ LET a == Application(view)
         fileIsMissing == ~view.siteProblem /\ view.site # None /\ ~view.site.exists
     IN  /\ activate => a \notin view.active \/ fileIsMissing
         /\ ~activate => a \in view.active
         /\ view' = [view EXCEPT !.confirming = [app |-> a, activate |-> activate]]
  /\ UNCHANGED <<page, calls, stored>>

AnswerSwap(yes) ==
  /\ OnWeb
  /\ view.confirming # None
  /\ IF yes
     THEN /\ MaySwap
          /\ view' = [view EXCEPT !.confirming = None, !.switching = TRUE]
          /\ Send(<<Request("switchWeb", view.confirming.app, view.confirming.activate)>>)
          /\ stored' = Counted(stored)
     ELSE /\ view' = [view EXCEPT !.confirming = None]
          /\ UNCHANGED <<calls, stored>>
  /\ UNCHANGED page

\* Swapped, all is read again; not swapped, what the proxy said is shown.
SwapEnds(s) ==
  /\ \/ Answer(s, "switchWeb") /\ Ends(s, IF calls[s].answer THEN FrontendsQuestion ELSE <<>>)
     \/ Failure(s, "switchWeb") /\ Ends(s, <<>>)
  /\ view' = [view EXCEPT !.switching = FALSE]
  /\ UNCHANGED <<page, stored>>

-----------------------------------------------------------------------------

WebOpening ==
  [page |-> [name |-> "web"], asks |-> FrontendsQuestion,
   view |-> [active |-> None, chosen |-> None, problem |-> FALSE, site |-> None, siteProblem |-> FALSE,
             switching |-> FALSE, confirming |-> None]]

WebStore(active) == [active |-> active, exists |-> {}, swaps |-> 0]

WebSteps ==
  \/ \E a \in ToSet(Apps) : SwappedElsewhere(a) \/ ChooseWeb(a)
  \/ WebTimer
  \/ \E yes \in BOOLEAN : AskSwap(yes) \/ AnswerSwap(yes)
  \/ \E s \in Slots : \/ WebServed(s)
                      \/ FrontendsAnswered(s)
                      \/ FrontendsFailed(s)
                      \/ SiteEnds(s)
                      \/ SwapEnds(s)

-----------------------------------------------------------------------------
(* What must hold *)

\* However the lists that were asked for cross with the swaps made here and elsewhere: again
\* and again, the screen shows who answers by each name.
WhoAnswersIsShown == []<>(OnWeb => view.active = stored.active)
=============================================================================
