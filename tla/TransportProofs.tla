--------------------------- MODULE TransportProofs ---------------------------
(* The screens over which things go from one environment to another, and those that follow *)
(* what changes: what is shown and decided is of what was asked, for any number of things,  *)
(* environments and requests in flight.                                                     *)
EXTENDS CatalogScreens, DraftScreens, PackageScreens, FileScreens, UploadScreens, DatabaseScreens, TraceScreen, RequestLemmas

-----------------------------------------------------------------------------
(* One package: one decision at a time *)

PackageFields == {"detail", "checks", "open", "content", "busy", "asking"}
Deciding == Orders \union {"revertPlan", "newVersion", "reopened"}

AtMostOne(S) == \A s, t \in S : s = t

\* A question on the screen is about an order, and nothing is on its way while it is asked.
OrderAsked == view.asking # None => view.asking.op \in Orders /\ ~view.busy

\* The page is busy exactly while a request that decides is on its way, and there is one.
BusyWithOne == (view.busy <=> InFlight(Deciding) # {}) /\ AtMostOne(InFlight(Deciding))

DecisionInv ==
  /\ CallTable
  /\ page.name \in {"package", "send", "elsewhere"}
  /\ page = [f \in DOMAIN page |-> page[f]]
  /\ OnPackage => /\ view = [f \in PackageFields |-> view[f]]
                  /\ view.busy \in BOOLEAN
                  /\ OrderAsked
                  /\ BusyWithOne

\* Nothing that decides begins or ends, and no question is asked.
LEMMA NothingDecided ==
  ASSUME DecisionInv, CallTable', page'.name = page.name, page' = [f \in DOMAIN page' |-> page'[f]],
         OnPackage => /\ view' = [f \in PackageFields |-> view'[f]] /\ view'.busy = view.busy
                      /\ view'.asking \in {view.asking, None}
                      /\ InFlight(Deciding)' = InFlight(Deciding)
  PROVE  DecisionInv'
BY DEF DecisionInv, OnPackage, OrderAsked, BusyWithOne

\* A request that decides is sent, from a page that is not busy.
LEMMA DecisionBegins ==
  ASSUME DecisionInv, NoneIsNoRequest, OnPackage, ~view.busy, page' = page,
         NEW op \in Deciding, NEW with, Ordered(op, with)
  PROVE  DecisionInv'
<1> DEFINE x == Request(op, page.at, with)
<1>1. IsRequest(x) /\ x.op = op
  BY Requests DEF Request
<1>2. view' = [view EXCEPT !.busy = TRUE, !.asking = None] /\ Send(<<x>>)
  BY DEF Ordered
<1> HIDE DEF x
<1>3. CallTable' /\ \E k \in Slots : InFlight(Deciding)' = InFlight(Deciding) \union {k}
  BY <1>1, <1>2, AskedMore DEF DecisionInv
<1>4. InFlight(Deciding) = {}
  BY DEF DecisionInv, BusyWithOne
<1>5. AtMostOne(InFlight(Deciding))' /\ InFlight(Deciding)' # {}
  BY <1>3, <1>4 DEF AtMostOne
<1>6. view' = [f \in PackageFields |-> view'[f]] /\ view'.busy = TRUE /\ view'.asking = None
  BY <1>2 DEF DecisionInv, PackageFields
<1> QED BY <1>3, <1>5, <1>6 DEF DecisionInv, OnPackage, OrderAsked, BusyWithOne

\* The request that decides ends.
LEMMA DecisionEnds ==
  ASSUME DecisionInv, NoneIsNoRequest, page' = page, NEW s \in InFlight(Deciding),
         NEW op, NEW at, NEW with, op \notin Deciding,
         Ends(s, <<>>) \/ Ends(s, <<Request(op, at, with)>>),
         OnPackage => /\ view' = [f \in PackageFields |-> view'[f]] /\ view'.busy = FALSE
                      /\ view'.asking # None => view'.asking.op \in Orders
  PROVE  DecisionInv'
<1>1. s \in Slots
  BY DEF InFlight
<1>2. IsRequest(Request(op, at, with)) /\ Request(op, at, with).op = op
  BY Requests DEF Request
<1>3. CallTable' /\ InFlight(Deciding)' = InFlight(Deciding) \ {s}
  BY <1>1, <1>2, AskedLess, AskedInstead DEF DecisionInv
<1> QED BY <1>3 DEF DecisionInv, OnPackage, OrderAsked, BusyWithOne, AtMostOne

\* A request that does not decide ends, and others that do not are sent.
LEMMA OthersEnd ==
  ASSUME DecisionInv, NoneIsNoRequest, NEW s \in Slots, s \notin InFlight(Deciding),
         NEW op, NEW at, NEW with, op \notin Deciding,
         Ends(s, <<>>) \/ Ends(s, <<Request(op, at, with)>>)
  PROVE  CallTable' /\ InFlight(Deciding)' = InFlight(Deciding)
<1> DEFINE x == Request(op, at, with)
<1>1. IsRequest(x) /\ x.op \notin Deciding
  BY Requests DEF Request
<1>2. CallTable
  BY DEF DecisionInv
<1> HIDE DEF x
<1>3. ASSUME Ends(s, <<>>)
      PROVE  CallTable' /\ InFlight(Deciding)' = InFlight(Deciding) \ {s}
  BY <1>2, <1>3, AskedLess
<1>4. ASSUME Ends(s, <<x>>)
      PROVE  CallTable' /\ InFlight(Deciding)' = InFlight(Deciding) \ {s}
  BY <1>1, <1>2, <1>4, AskedInstead
<1>5. Ends(s, <<>>) \/ Ends(s, <<x>>)
  BY DEF x
<1> QED BY <1>3, <1>4, <1>5

\* A handler asks for something that does not decide.
LEMMA OthersBegin ==
  ASSUME DecisionInv, NoneIsNoRequest, NEW op, NEW at, NEW with, op \notin Deciding, Send(<<Request(op, at, with)>>)
  PROVE  CallTable' /\ InFlight(Deciding)' = InFlight(Deciding)
<1> DEFINE x == Request(op, at, with)
<1>1. IsRequest(x) /\ x.op \notin Deciding
  BY Requests DEF Request
<1>2. CallTable /\ Send(<<x>>)
  BY DEF DecisionInv
<1> HIDE DEF x
<1>3. CallTable' /\ \E k \in Slots : InFlight(Deciding)' = InFlight(Deciding) \union (IF x.op \in Deciding THEN {k} ELSE {})
  BY <1>1, <1>2, AskedMore
<1> QED BY <1>1, <1>3

\* A field of the page changes that is neither busy nor asking.
LEMMA PageTurns ==
  ASSUME DecisionInv, OnPackage, NEW v, NEW w,
         \/ view' = view
         \/ view' = [view EXCEPT !.detail = v]
         \/ view' = [view EXCEPT !.checks = v]
         \/ view' = [view EXCEPT !.open = v]
         \/ view' = [view EXCEPT !.open = v, !.content = w]
         \/ view' = [view EXCEPT !.content = v]
         \/ view' = [view EXCEPT !.asking = None]
         \/ view' = [view EXCEPT !.detail = None, !.checks = None, !.asking = None]
  PROVE  /\ view' = [f \in PackageFields |-> view'[f]] /\ view'.busy = view.busy
         /\ view'.asking \in {view.asking, None}
BY DEF DecisionInv, PackageFields

\* Every step of the page of a package, and of sending it, keeps the invariant.
LEMMA DecisionStep == DecisionInv /\ NoneIsNoRequest /\ [PackageSteps]_browser => DecisionInv'
<1> SUFFICES ASSUME DecisionInv, NoneIsNoRequest, [PackageSteps]_browser
             PROVE  DecisionInv'
  OBVIOUS
<1>0. /\ CallTable
      /\ OnPackage => /\ view = [f \in PackageFields |-> view[f]] /\ OrderAsked /\ BusyWithOne
  BY DEF DecisionInv
<1>a. {"package", "check", "item", "sendings", "sendPackage"} \intersect Deciding = {}
  BY DEF Deciding, Orders
<1>b. \A s \in Slots, op \in Deciding : Answer(s, op) \/ Failure(s, op) => s \in InFlight(Deciding)
  BY DEF Answer, Failure, InStage, InFlight
<1>c. \A op : \A s \in Slots : op \notin Deciding /\ (Answer(s, op) \/ Failure(s, op)) => s \notin InFlight(Deciding)
  BY DEF Answer, Failure, InStage, InFlight
<1>d. page = [f \in DOMAIN page |-> page[f]]
  BY DEF DecisionInv
<1>1. ASSUME UNCHANGED <<page, view, calls>>
      PROVE  DecisionInv'
  BY <1>0, <1>1, <1>d, AskedSame, NothingDecided
<1>2. ASSUME NEW p \in Versions, VersionOpened(p)
      PROVE  DecisionInv'
  <2>1. CallTable' /\ InFlight(Deciding)' = InFlight(Deciding)
    BY <1>2, <1>a, OthersBegin DEF VersionOpened, PackageQuestion
  <2>2. page'.name = page.name /\ page' = [f \in DOMAIN page' |-> page'[f]]
    BY <1>2, <1>d DEF VersionOpened
  <2> QED BY <1>2, <2>1, <2>2, PageTurns, NothingDecided DEF VersionOpened
<1>3. CASE ReadAgain
  <2>1. CallTable' /\ InFlight(Deciding)' = InFlight(Deciding)
    BY <1>3, <1>a, OthersBegin DEF ReadAgain, PackageQuestion
  <2> QED BY <1>3, <1>d, <2>1, PageTurns, NothingDecided DEF ReadAgain
<1>4. ASSUME NEW n \in Items, ToggleItem(n)
      PROVE  DecisionInv'
  <2>1. CallTable' /\ InFlight(Deciding)' = InFlight(Deciding)
    BY <1>0, <1>4, <1>a, AskedSame, OthersBegin DEF ToggleItem
  <2> QED BY <1>4, <1>d, <2>1, PageTurns, NothingDecided DEF ToggleItem
<1>5. ASSUME NEW op \in Orders \union {"newVersion"}, Decide(op)
      PROVE  DecisionInv'
  BY <1>5, DecisionBegins DEF Decide, Decidable, Deciding
<1>6. ASSUME NEW op \in Orders \union {"newVersion"}, AskWhether(op)
      PROVE  DecisionInv'
  <2>1. CASE op = "revert"
    BY <1>6, <2>1, DecisionBegins DEF AskWhether, Decidable, Deciding
  <2>2. CASE op # "revert"
    <3> DEFINE q == [op |-> op, of |-> view.detail.of]
    <3>1. q.op \in Orders
      BY <1>6, <2>2 DEF AskWhether, Orders
    <3> HIDE DEF q
    <3>2. OnPackage /\ ~view.busy /\ view' = [view EXCEPT !.asking = q] /\ UNCHANGED <<page, calls>>
      BY <1>6, <2>2 DEF AskWhether, Decidable, q
    <3>3. view' = [f \in PackageFields |-> view'[f]] /\ view'.busy = view.busy /\ view'.asking = q
      BY <1>0, <3>2 DEF PackageFields
    <3>4. CallTable' /\ InFlight(Deciding)' = InFlight(Deciding)
      BY <1>0, <3>2, AskedSame
    <3> QED BY <3>1, <3>2, <3>3, <3>4 DEF DecisionInv, OnPackage, OrderAsked, BusyWithOne
  <2> QED BY <2>1, <2>2
<1>7. CASE AnswerNo
  <2>1. CallTable' /\ InFlight(Deciding)' = InFlight(Deciding)
    BY <1>0, <1>7, AskedSame DEF AnswerNo
  <2> QED BY <1>7, <1>d, <2>1, PageTurns, NothingDecided DEF AnswerNo
<1>8. CASE AnswerYes
  <2>1. OnPackage /\ ~view.busy /\ view.asking.op \in Deciding /\ page' = page
    BY <1>0, <1>8 DEF AnswerYes, OrderAsked, Deciding
  <2> QED BY <1>8, <2>1, DecisionBegins DEF AnswerYes
<1>9. ASSUME NEW s \in Slots, PackageServed(s) \/ SendingServed(s)
      PROVE  DecisionInv'
  <2>1. calls[s] # None /\ (Refuse(s) \/ \E answer, after : Serve(s, answer, after))
    BY <1>9 DEF PackageServed, SendingServed, InStage
  <2>2. CallTable' /\ InFlight(Deciding)' = InFlight(Deciding) /\ UNCHANGED <<page, view>>
    BY <1>0, <2>1, AskedStill
  <2> QED BY <1>0, <1>d, <2>2, NothingDecided
<1>10. ASSUME NEW s \in Slots, PackageAnswered(s)
       PROVE  DecisionInv'
  <2>1. s \notin InFlight(Deciding)
    BY <1>10, <1>a, <1>c DEF PackageAnswered
  <2>2. CallTable' /\ InFlight(Deciding)' = InFlight(Deciding)
    BY <1>10, <1>a, <2>1, OthersEnd DEF PackageAnswered
  <2> QED BY <1>10, <1>d, <2>2, PageTurns, NothingDecided DEF PackageAnswered
<1>11. ASSUME NEW s \in Slots, PackageUnread(s) \/ CheckEnds(s) \/ ItemAnswered(s)
       PROVE  DecisionInv'
  <2>1. s \notin InFlight(Deciding) /\ Ends(s, <<>>) /\ page' = page
    BY <1>11, <1>a, <1>c DEF PackageUnread, CheckEnds, ItemAnswered
  <2>2. CallTable' /\ InFlight(Deciding)' = InFlight(Deciding)
    BY <1>a, <2>1, OthersEnd
  <2>3. view' = view \/ (\E v : view' = [view EXCEPT !.checks = v]) \/ \E v : view' = [view EXCEPT !.content = v]
    BY <1>11 DEF PackageUnread, CheckEnds, ItemAnswered
  <2> QED BY <1>d, <2>1, <2>2, <2>3, PageTurns, NothingDecided
<1>12. ASSUME NEW s \in Slots, PlanEnds(s)
       PROVE  DecisionInv'
  <2>1. s \in InFlight(Deciding) /\ Ends(s, <<>>) /\ page' = page
    BY <1>12, <1>b DEF PlanEnds, Deciding
  <2> DEFINE q == [op |-> "revert", of |-> calls[s].at]
  <2>2. view' = [view EXCEPT !.busy = FALSE, !.asking = q] \/ view' = [view EXCEPT !.busy = FALSE, !.asking = @]
    BY <1>12 DEF PlanEnds
  <2>3. q.op \in Orders
    BY DEF Orders
  <2> HIDE DEF q
  <2>4. OnPackage => /\ view' = [f \in PackageFields |-> view'[f]] /\ view'.busy = FALSE
                     /\ view'.asking \in {view.asking, q}
    BY <1>0, <2>2 DEF PackageFields
  <2> QED BY <1>0, <1>a, <2>1, <2>3, <2>4, DecisionEnds DEF OrderAsked
<1>13. ASSUME NEW s \in Slots, OrderEnds(s) \/ NotLeft(s)
       PROVE  DecisionInv'
  <2>0. /\ page' = page
        /\ \E op \in Deciding : Answer(s, op) \/ Failure(s, op)
    BY <1>13 DEF OrderEnds, NotLeft, Deciding, Orders
  <2>1. s \in InFlight(Deciding) /\ page' = page
    BY <1>b, <2>0
  <2>2. Ends(s, <<>>) \/ Ends(s, <<Request("package", page.at, FALSE)>>)
    BY <1>13 DEF OrderEnds, NotLeft, PackageQuestion
  <2>3. view' = [view EXCEPT !.busy = FALSE] \/ \E v : view' = [view EXCEPT !.busy = FALSE, !.detail = v]
    BY <1>13 DEF OrderEnds, NotLeft
  <2>4. OnPackage => view' = [f \in PackageFields |-> view'[f]] /\ view'.busy = FALSE /\ view'.asking = view.asking
    BY <1>0, <2>3 DEF PackageFields
  <2> QED BY <1>0, <1>a, <2>1, <2>2, <2>4, DecisionEnds DEF OrderAsked
<1>14. ASSUME NEW s \in Slots, PackageDeleted(s)
       PROVE  DecisionInv'
  <2> DEFINE x == Request("reopened", None, None)
  <2>1. s \in InFlight(Deciding) /\ Ends(s, <<x>>) /\ UNCHANGED <<page, view>>
    BY <1>14, <1>b DEF PackageDeleted, Deciding, Orders
  <2>2. IsRequest(x) /\ x.op \in Deciding
    BY Requests DEF Request, Deciding
  <2> HIDE DEF x
  <2>3. CallTable' /\ \E k \in Slots : InFlight(Deciding)' = (InFlight(Deciding) \ {s}) \union {k}
    BY <1>0, <2>1, <2>2, AskedInstead
  <2> QED BY <2>1, <2>3 DEF DecisionInv, OnPackage, OrderAsked, BusyWithOne, AtMostOne
<1>15. ASSUME NEW s \in Slots, PackageLeft(s)
       PROVE  DecisionInv'
  <2>1. page' = [name |-> "elsewhere", screen |-> "area"] /\ CallTable'
    BY <1>0, <1>15, LeavesNone DEF PackageLeft, Elsewhere
  <2> QED BY <2>1 DEF DecisionInv, OnPackage
<1>16. ASSUME CallTable', page' = page, ~OnPackage
       PROVE  DecisionInv'
  BY <1>16, <1>d, NothingDecided
<1>17. CASE SendPackage \/ FollowTimer
  <2>1. \E x : IsRequest(x) /\ Send(<<x>>)
    BY <1>17, Requests DEF SendPackage, FollowTimer, FollowQuestion
  <2>2. CallTable' /\ page' = page /\ ~OnPackage
    BY <1>0, <1>17, <2>1, AskedMore DEF SendPackage, FollowTimer, OnPackage, OnSending
  <2> QED BY <1>16, <2>2
<1>18. ASSUME NEW s \in Slots, SendingStarted(s) \/ SendingNotStarted(s) \/ SendingFollowed(s) \/ SendingUnread(s)
       PROVE  DecisionInv'
  <2>1. s \notin InFlight(Deciding) /\ Ends(s, <<>>) /\ page' = page
    BY <1>18, <1>a, <1>c DEF SendingStarted, SendingNotStarted, SendingFollowed, SendingUnread
  <2>2. CallTable' /\ InFlight(Deciding)' = InFlight(Deciding)
    BY <1>a, <2>1, OthersEnd
  <2>3. \/ view' = view
        \/ view' = [view EXCEPT !.sending = FALSE]
        \/ \E v : view' = [view EXCEPT !.last = v, !.following = TRUE]
        \/ \E v, w : view' = [view EXCEPT !.last = v, !.sending = w, !.following = @ /\ w]
    <3>1. CASE SendingFollowed(s)
      <4> DEFINE w == calls[s].answer.status = "sending"
                 v == calls[s].answer
      <4>1. view' = [view EXCEPT !.last = v, !.sending = w, !.following = @ /\ w]
        BY <3>1 DEF SendingFollowed
      <4> HIDE DEF w, v
      <4> QED BY <4>1
    <3>2. CASE SendingStarted(s)
      <4> DEFINE v == calls[s].answer
      <4>1. view' = [view EXCEPT !.last = v, !.following = TRUE]
        BY <3>2 DEF SendingStarted
      <4> HIDE DEF v
      <4> QED BY <4>1
    <3> QED BY <1>18, <3>1, <3>2 DEF SendingNotStarted, SendingUnread
  <2>4. OnPackage => view' = [f \in PackageFields |-> view'[f]] /\ view'.busy = view.busy /\ view'.asking = view.asking
    BY <1>0, <2>3 DEF PackageFields
  <2> QED BY <1>d, <2>1, <2>2, <2>4, NothingDecided
<1>19. CASE SendingStops \/ (\E p \in Versions : RunnerSteps(p)) \/ UNCHANGED browser
  BY <1>1, <1>19 DEF SendingStops, RunnerSteps, browser
<1> QED BY <1>2, <1>3, <1>4, <1>5, <1>6, <1>7, <1>8, <1>9, <1>10, <1>11, <1>12, <1>13, <1>14, <1>15,
           <1>17, <1>18, <1>19 DEF PackageSteps

\* On the page of a package, and of the sending of one, one decision at a time is on its way
\* and the page knows it (PackageScreens, OneDecisionAtATime).
THEOREM OneDecision == ASSUME NoneIsNoRequest PROVE PackageSpec => []OneDecisionAtATime
<1>1. PackageInit => DecisionInv
  <2> SUFFICES ASSUME NEW screen \in {"package", "send"}, NEW kept, Opened(PackageOpening(screen), kept)
               PROVE  DecisionInv
    BY DEF PackageInit
  <2>1. CASE screen = "send"
    <3> DEFINE o == PackageOpening("send")
    <3>1. o.page = [name |-> "send"] /\ Fresh(o.asks)
      BY Requests DEF PackageOpening, FollowQuestion
    <3> HIDE DEF o
    <3>2. CallTable /\ page = [name |-> "send"]
      BY <2>1, <3>1, Opening DEF Opened, o
    <3> QED BY <3>2 DEF DecisionInv, OnPackage
  <2>2. CASE screen = "package"
    <3> DEFINE p == CHOOSE p \in Versions : p \notin MadeHere
               x == Request("package", p, TRUE)
               o == PackageOpening("package")
    <3>1. /\ o.page = [name |-> "package", at |-> p] /\ Fresh(o.asks) /\ o.asks = <<x>>
          /\ o.view = [f \in PackageFields |-> o.view[f]] /\ o.view.busy = FALSE /\ o.view.asking = None
          /\ x.op \notin Deciding
      BY Requests DEF PackageOpening, PackageQuestion, PackageFields, Request, Deciding, Orders
    <3> HIDE DEF o, p, x
    <3>2. CallTable /\ \A s \in Slots : calls[s] # None => \E i \in DOMAIN o.asks : calls[s] = o.asks[i]
      BY <2>2, <3>1, Opening DEF o
    <3>3. InFlight(Deciding) = {}
      BY <3>1, <3>2 DEF InFlight
    <3>4. page = [name |-> "package", at |-> p] /\ view = o.view
      BY <2>2, <3>1 DEF Opened, o
    <3> QED BY <3>1, <3>2, <3>3, <3>4 DEF DecisionInv, OnPackage, OrderAsked, BusyWithOne, AtMostOne
  <2> QED BY <2>1, <2>2
<1>2. DecisionInv => OneDecisionAtATime
  <2> SUFFICES ASSUME DecisionInv, OnPackage
               PROVE  OneDecisionAtATime
    BY DEF OneDecisionAtATime
  <2>1. InFlight(Deciding) = {s \in Slots : calls[s] # None /\ calls[s].op \in Orders \union {"revertPlan", "newVersion", "reopened"}}
    BY DEF InFlight, Deciding
  <2>2. AtMostOne(InFlight(Deciding)) /\ (view.busy <=> InFlight(Deciding) # {}) /\ (view.asking # None => ~view.busy)
    BY DEF DecisionInv, OrderAsked, BusyWithOne
  <2>3. InFlight(Deciding) = {} \/ \E s : InFlight(Deciding) = {s}
    BY <2>2 DEF AtMostOne
  <2>4. Cardinality(InFlight(Deciding)) <= 1
    <3>1. ASSUME NEW S, S = {} \/ \E s : S = {s}
          PROVE  Cardinality(S) <= 1
      <4>1. CASE S = {}
        BY <4>1, FS_EmptySet
      <4>2. ASSUME NEW s, S = {s} PROVE Cardinality(S) = 1
        BY <4>2, FS_Singleton
      <4> QED BY <3>1, <4>1, <4>2
    <3> QED BY <2>3, <3>1
  <2> QED BY <2>1, <2>2, <2>4 DEF OneDecisionAtATime
<1>3. DecisionInv /\ [PackageSteps]_browser => DecisionInv'
  BY DecisionStep
<1> QED BY <1>1, <1>2, <1>3, PTL DEF PackageSpec

-----------------------------------------------------------------------------
(* The list of what changed in the databases *)

ChangesFields == {"filter", "typing", "changes", "problem", "outdated"}

\* A question of the list that still counts is of the filters, unless they are being typed,
\* and is answered with the changes it asks for.
OfTheList(c) ==
  /\ c.op = "changes"
  /\ c.with \in BOOLEAN
  /\ c.with => view.typing \/ c.at = view.filter
  /\ c.stage = "answered" => c.answer = c.at

ChangesInv ==
  /\ CallTable
  /\ page = [f \in DOMAIN page |-> page[f]]
  /\ OnChanges => /\ view = [f \in ChangesFields |-> view[f]]
                  /\ \A s \in Slots : calls[s] # None => OfTheList(calls[s])
                  /\ ChangesAreOfTheFilters

\* On the other screens of the databases there is nothing to show.
LEMMA OtherScreens ==
  ASSUME ChangesInv, CallTable', ~OnChanges, page' = page
  PROVE  ChangesInv'
BY DEF ChangesInv, OnChanges

\* What the last question makes of those before: they count no more.
LEMMA CountNoMore ==
  ASSUME ChangesInv, NoneIsNoRequest, OnChanges
  PROVE  LET t == LastAsked(calls)
         IN  /\ IsTable(t) /\ FreeSlots(t) = FreeSlots(calls)
             /\ \A s \in Slots : t[s] = None \/ (IsRequest(t[s]) /\ t[s].op = "changes" /\ t[s].with = FALSE
                                                 /\ (t[s].stage = "answered" => t[s].answer = t[s].at))
<1> DEFINE t == LastAsked(calls)
<1>0. CallTable /\ \A s \in Slots : calls[s] # None => OfTheList(calls[s])
  BY DEF ChangesInv
<1>1. t = [s \in Slots |-> IF calls[s] # None THEN [calls[s] EXCEPT !.with = FALSE] ELSE None]
  BY <1>0, Zenon DEF LastAsked, CallTable, OfTheList
<1>2. ASSUME NEW s \in Slots, calls[s] # None, NEW d, d = [calls[s] EXCEPT !.with = FALSE]
      PROVE  IsRequest(d) /\ d.op = "changes" /\ d.with = FALSE /\ (d.stage = "answered" => d.answer = d.at) /\ d # None
  <2>1. IsRequest(calls[s]) /\ OfTheList(calls[s])
    BY <1>0, <1>2 DEF CallTable
  <2>2. IsRequest(d) /\ d.op = "changes" /\ d.with = FALSE /\ (d.stage = "answered" => d.answer = d.at)
    BY <1>2, <2>1 DEF IsRequest, RequestFields, OfTheList
  <2> QED BY <2>2 DEF NoneIsNoRequest
<1>3. \A s \in Slots : t[s] = IF calls[s] # None THEN [calls[s] EXCEPT !.with = FALSE] ELSE None
  BY <1>1
<1>4. IsTable(t) /\ DOMAIN t = Slots /\ DOMAIN calls = Slots
  BY <1>0, <1>1 DEF IsTable, CallTable
<1> HIDE DEF t
<1>5. \A s \in Slots : \/ calls[s] = None /\ t[s] = None
                       \/ /\ calls[s] # None /\ t[s] # None /\ IsRequest(t[s]) /\ t[s].op = "changes" /\ t[s].with = FALSE
                          /\ t[s].stage = "answered" => t[s].answer = t[s].at
  BY <1>2, <1>3
<1>6. FreeSlots(t) = FreeSlots(calls)
  BY <1>4, <1>5 DEF FreeSlots
<1> QED BY <1>4, <1>5, <1>6 DEF t

\* Filters chosen, typed to the end, or the timer: the list is asked for once more.
LEMMA AskedOnceMore ==
  ASSUME ChangesInv, NoneIsNoRequest, OnChanges, NEW v, RefreshChanges(v),
         v = [f \in ChangesFields |-> v[f]]
  PROVE  ChangesInv'
<1> DEFINE x == Request("changes", v.filter, TRUE)
           t == LastAsked(calls)
<1>1. IsRequest(x) /\ x.op = "changes" /\ x.at = v.filter /\ x.with = TRUE /\ x.stage = "sent"
  BY Requests DEF Request
<1>2. /\ IsTable(t) /\ FreeSlots(t) = FreeSlots(calls)
      /\ \A s \in Slots : t[s] = None \/ (IsRequest(t[s]) /\ t[s].op = "changes" /\ t[s].with = FALSE
                                          /\ (t[s].stage = "answered" => t[s].answer = t[s].at))
  BY CountNoMore
<1>3. Room(1) /\ view' = v /\ page' = page /\ calls' = Placed(t, x)
  BY DEF RefreshChanges
<1>4. CallTable /\ page = [f \in DOMAIN page |-> page[f]]
  BY DEF ChangesInv
<1> HIDE DEF x, t
<1>5. FreeSlots(t) # {}
  BY <1>2, <1>3, <1>4, RoomIsFree
<1>6. PICK k \in Slots : calls' = [t EXCEPT ![k] = x]
  BY <1>2, <1>3, <1>5, PlacedFree
<1>7. /\ calls' = [s \in Slots |-> calls'[s]] /\ calls'[k] = x /\ x # None
      /\ \A s \in Slots \ {k} : calls'[s] = t[s]
  BY <1>1, <1>2, <1>6 DEF IsTable, NoneIsNoRequest
<1>8. CallTable'
  BY <1>1, <1>2, <1>7 DEF CallTable
<1>9. \A s \in Slots : calls'[s] # None => OfTheList(calls[s])'
  <2>1. ASSUME NEW s \in Slots, s # k, calls'[s] # None
        PROVE  OfTheList(calls[s])'
    <3>1. calls'[s] = t[s]
      BY <1>7, <2>1
    <3> QED BY <1>2, <2>1, <3>1 DEF OfTheList
  <2>2. OfTheList(calls[k])'
    BY <1>1, <1>3, <1>7 DEF OfTheList
  <2> QED BY <2>1, <2>2
<1>10. ChangesAreOfTheFilters'
  BY <1>1, <1>7 DEF ChangesAreOfTheFilters
<1> QED BY <1>3, <1>4, <1>8, <1>9, <1>10 DEF ChangesInv, OnChanges

\* The list is answered, or is not.
LEMMA ListEnds ==
  ASSUME ChangesInv, OnChanges, NEW s \in Slots, ChangesEnd(s)
  PROVE  ChangesInv'
<1>1. /\ page' = page /\ calls[s] # None /\ Ends(s, <<>>)
      /\ \/ calls[s].stage = "answered" /\ calls[s].with
            /\ view' = [view EXCEPT !.changes = calls[s].answer, !.problem = FALSE, !.outdated = FALSE]
         \/ ~calls[s].with /\ view' = view
         \/ calls[s].with /\ view' = [view EXCEPT !.outdated = TRUE]
         \/ calls[s].with /\ view' = [view EXCEPT !.problem = TRUE]
  BY DEF ChangesEnd, Answer, Failure, InStage
<1>2. /\ CallTable /\ view = [f \in ChangesFields |-> view[f]] /\ page = [f \in DOMAIN page |-> page[f]]
      /\ \A q \in Slots : calls[q] # None => OfTheList(calls[q])
      /\ ChangesAreOfTheFilters
  BY DEF ChangesInv
<1>3. CallTable' /\ calls'[s] = None /\ \A q \in Slots \ {s} : calls'[q] = calls[q]
  BY <1>1, <1>2, AskedLess
<1>4. /\ view' = [f \in ChangesFields |-> view'[f]] /\ view'.filter = view.filter /\ view'.typing = view.typing
      /\ \/ calls[s].with /\ view'.changes = calls[s].answer /\ calls[s].stage = "answered"
         \/ ~calls[s].with /\ view' = view
         \/ view'.outdated = TRUE
         \/ view'.problem = TRUE
  <2>1. ASSUME NEW a, view' = [view EXCEPT !.changes = a, !.problem = FALSE, !.outdated = FALSE]
        PROVE  /\ view' = [f \in ChangesFields |-> view'[f]] /\ view'.filter = view.filter /\ view'.typing = view.typing
               /\ view'.changes = a
    BY <1>2, <2>1 DEF ChangesFields
  <2>2. ASSUME view' = [view EXCEPT !.outdated = TRUE] \/ view' = [view EXCEPT !.problem = TRUE]
        PROVE  /\ view' = [f \in ChangesFields |-> view'[f]] /\ view'.filter = view.filter /\ view'.typing = view.typing
               /\ view'.outdated = TRUE \/ view'.problem = TRUE
    BY <1>2, <2>2 DEF ChangesFields
  <2> QED BY <1>1, <1>2, <2>1, <2>2
<1>5. \A q \in Slots : calls'[q] # None => OfTheList(calls[q])'
  BY <1>2, <1>3, <1>4 DEF OfTheList
<1>6. ChangesAreOfTheFilters'
  <2> SUFFICES ASSUME ~view'.typing, ~view'.problem, ~view'.outdated, view'.changes # None, view'.changes # view'.filter
               PROVE  \E q \in Slots : calls'[q] # None /\ calls'[q].with
    BY <1>1 DEF ChangesAreOfTheFilters
  <2>1. OfTheList(calls[s])
    BY <1>1, <1>2
  <2>2. ~calls[s].with /\ view' = view
    BY <1>4, <2>1 DEF OfTheList
  <2>3. PICK q \in Slots : calls[q] # None /\ calls[q].with
    BY <1>2, <2>2 DEF ChangesAreOfTheFilters
  <2> QED BY <1>3, <2>2, <2>3
<1> QED BY <1>1, <1>2, <1>3, <1>4, <1>5, <1>6 DEF ChangesInv, OnChanges

\* The service answers.
LEMMA DatabaseAnswersKeep ==
  ASSUME ChangesInv, NoneIsNoRequest, NEW s \in Slots, DatabaseServed(s)
  PROVE  ChangesInv'
<1>1. calls[s] # None /\ CallTable
  BY DEF DatabaseServed, InStage, ChangesInv
<1> DEFINE a == DatabaseAnswer(calls[s])
<1>2. Refuse(s) \/ Serve(s, a, stored)
  BY DEF DatabaseServed
<1> HIDE DEF a
<1>3. /\ Serves(s, calls'[s]) /\ UNCHANGED <<page, view>>
      /\ IsRequest(calls'[s]) /\ calls'[s].op = calls[s].op /\ calls'[s].at = calls[s].at /\ calls'[s].with = calls[s].with
      /\ calls'[s].stage = "answered" => calls'[s].answer = a
  <2>1. CASE Refuse(s)
    BY <1>1, <2>1, Serving DEF ServedAs
  <2>2. CASE Serve(s, a, stored)
    BY <1>1, <2>2, Serving DEF ServedAs
  <2> QED BY <1>2, <2>1, <2>2
<1>4. CallTable' /\ calls'[s] # None /\ \A q \in Slots \ {s} : calls'[q] = calls[q]
  BY <1>3 DEF Serves, NoneIsNoRequest
<1>5. CASE ~OnChanges
  BY <1>3, <1>4, <1>5, OtherScreens
<1>6. CASE OnChanges
  <2>1. \A q \in Slots : calls[q] # None => OfTheList(calls[q])
    BY <1>6 DEF ChangesInv
  <2>2. a = calls[s].at
    BY <1>1, <2>1 DEF a, DatabaseAnswer, OfTheList
  <2>3. \A q \in Slots : calls'[q] # None => OfTheList(calls[q])'
    BY <1>1, <1>3, <1>4, <2>1, <2>2 DEF OfTheList
  <2>4. ChangesAreOfTheFilters'
    BY <1>3, <1>4, <1>6 DEF ChangesInv, ChangesAreOfTheFilters, OnChanges
  <2> QED BY <1>3, <1>4, <1>6, <2>3, <2>4 DEF ChangesInv, OnChanges
<1> QED BY <1>5, <1>6

\* Every step of the screens of the databases keeps the invariant.
LEMMA ChangesStep == ChangesInv /\ NoneIsNoRequest /\ [DatabaseSteps]_browser => ChangesInv'
<1> SUFFICES ASSUME ChangesInv, NoneIsNoRequest, [DatabaseSteps]_browser
             PROVE  ChangesInv'
  OBVIOUS
<1>0. /\ CallTable /\ page = [f \in DOMAIN page |-> page[f]]
      /\ OnChanges => /\ view = [f \in ChangesFields |-> view[f]]
                      /\ \A s \in Slots : calls[s] # None => OfTheList(calls[s])
  BY DEF ChangesInv
<1>1. ASSUME UNCHANGED <<page, view, calls>>
      PROVE  ChangesInv'
  BY <1>0, <1>1 DEF ChangesInv, CallTable, OnChanges, ChangesAreOfTheFilters, OfTheList
<1>2. ASSUME NEW f \in Periods, ChooseChanges(f)
      PROVE  ChangesInv'
  <2> DEFINE v == [view EXCEPT !.filter = f]
  <2>1. OnChanges /\ RefreshChanges(v)
    BY <1>2 DEF ChooseChanges
  <2>2. v = [g \in ChangesFields |-> v[g]]
    BY <1>0, <2>1 DEF ChangesFields
  <2> HIDE DEF v
  <2> QED BY <2>1, <2>2, AskedOnceMore
<1>3. ASSUME NEW f \in Periods, TypeForChanges(f)
      PROVE  ChangesInv'
  <2>1. OnChanges /\ view' = [view EXCEPT !.filter = f, !.typing = TRUE] /\ UNCHANGED <<page, calls>>
    BY <1>3 DEF TypeForChanges
  <2>2. view' = [g \in ChangesFields |-> view'[g]] /\ view'.typing = TRUE
    BY <1>0, <2>1 DEF ChangesFields
  <2> QED BY <1>0, <2>1, <2>2 DEF ChangesInv, CallTable, OnChanges, ChangesAreOfTheFilters, OfTheList
<1>4. CASE TypingStops
  <2> DEFINE v == [view EXCEPT !.typing = FALSE]
  <2>1. OnChanges /\ RefreshChanges(v)
    BY <1>4 DEF TypingStops
  <2>2. v = [g \in ChangesFields |-> v[g]]
    BY <1>0, <2>1 DEF ChangesFields
  <2> HIDE DEF v
  <2> QED BY <2>1, <2>2, AskedOnceMore
<1>5. CASE ChangesTimer
  BY <1>0, <1>5, AskedOnceMore DEF ChangesTimer
<1>6. CASE \/ \E whole \in BOOLEAN : ShowWhole(whole)
           \/ \E text \in Finds : LookFor(text)
           \/ \E step \in {-1, 1} : NextHit(step)
  <2>1. page' = page /\ calls' = calls /\ ~OnChanges
    BY <1>6 DEF ShowWhole, LookFor, NextHit, HasScript, OnChange, OnObject, OnChanges
  <2> QED BY <1>0, <2>1, OtherScreens DEF CallTable
<1>7. ASSUME NEW o \in Things, OpenThing(o)
      PROVE  ChangesInv'
  <2> DEFINE r == ObjectQuestions(o)
  <2>1. Fresh(r) /\ Send(r)
    BY <1>7, Requests, TwoRequests DEF OpenThing, ObjectQuestions
  <2>2. page' = [page EXCEPT !.at = o] /\ page.name = "object"
    BY <1>7 DEF OpenThing, OnObject
  <2> HIDE DEF r
  <2>3. CallTable'
    BY <1>0, <2>1, Sending
  <2>4. page' = [f \in DOMAIN page' |-> page'[f]] /\ page'.name = "object"
    BY <1>0, <2>2
  <2> QED BY <2>3, <2>4 DEF ChangesInv, OnChanges
<1>8. ASSUME NEW s \in Slots, ChangesEnd(s)
      PROVE  ChangesInv'
  <2>1. CASE OnChanges
    BY <1>8, <2>1, ListEnds
  <2>2. CASE ~OnChanges
    <3>1. Ends(s, <<>>) /\ page' = page
      BY <1>8 DEF ChangesEnd
    <3> QED BY <1>0, <2>2, <3>1, AskedLess, OtherScreens
  <2> QED BY <2>1, <2>2
<1>9. ASSUME NEW s \in Slots, ChangeRead(s) \/ ObjectRead(s)
      PROVE  ChangesInv'
  <2>1. Ends(s, <<>>) /\ page' = page /\ calls[s] # None /\ calls[s].op \in {"change", "object", "objectChanges"}
    BY <1>9 DEF ChangeRead, ObjectRead, Answer, Failure, InStage
  <2>2. ~OnChanges
    BY <1>0, <2>1 DEF OfTheList
  <2> QED BY <1>0, <2>1, <2>2, AskedLess, OtherScreens
<1> QED BY <1>1, <1>2, <1>3, <1>4, <1>5, <1>6, <1>7, <1>8, <1>9, DatabaseAnswersKeep DEF DatabaseSteps, browser

\* Whatever the filters, and however the answers cross: the changes that are listed are those
\* of the filters on the screen once the last question was answered (DatabaseScreens,
\* ChangesAreOfTheFilters).
THEOREM ChangesOfTheFilters ==
  ASSUME NEW kept, NoneIsNoRequest
  PROVE  DatabaseSpec(kept) => []ChangesAreOfTheFilters
<1>1. DatabaseInit(kept) => ChangesInv
  <2>1. ASSUME NEW o, Fresh(o.asks), Opened(o, kept), o.page = [f \in DOMAIN o.page |-> o.page[f]], o.page.name # "changes"
        PROVE  ChangesInv
    BY <2>1, Opening DEF Opened, ChangesInv, OnChanges
  <2>2. ASSUME NEW o \in Things, NEW find \in Finds, Opened(ObjectOpening(o, find), kept)
        PROVE  ChangesInv
    <3> DEFINE p == ObjectOpening(o, find)
    <3>1. Fresh(p.asks) /\ p.page = [f \in DOMAIN p.page |-> p.page[f]] /\ p.page.name # "changes"
      BY Requests, TwoRequests DEF ObjectOpening, ObjectQuestions
    <3> HIDE DEF p
    <3> QED BY <2>1, <2>2, <3>1 DEF p
  <2>3. ASSUME Opened(DatabaseOpening("change"), kept)
        PROVE  ChangesInv
    <3> DEFINE p == DatabaseOpening("change")
    <3>1. Fresh(p.asks) /\ p.page = [f \in DOMAIN p.page |-> p.page[f]] /\ p.page.name # "changes"
      BY Requests DEF DatabaseOpening
    <3> HIDE DEF p
    <3> QED BY <2>1, <2>3, <3>1 DEF p
  <2>4. ASSUME Opened(DatabaseOpening("changes"), kept)
        PROVE  ChangesInv
    <3> DEFINE p == DatabaseOpening("changes")
               x == Request("changes", Min(Periods), TRUE)
    <3>1. /\ Fresh(p.asks) /\ p.page = [name |-> "changes"] /\ p.asks = <<x>>
          /\ p.view = [f \in ChangesFields |-> p.view[f]] /\ p.view.filter = Min(Periods) /\ p.view.changes = None
          /\ x.op = "changes" /\ x.with = TRUE /\ x.at = Min(Periods) /\ x.stage = "sent"
      BY Requests DEF DatabaseOpening, ChangesFields, Request
    <3> HIDE DEF p, x
    <3>2. CallTable /\ \A s \in Slots : calls[s] # None => calls[s] = x
      BY <2>4, <3>1, Opening DEF p
    <3>3. page = [name |-> "changes"] /\ view = p.view
      BY <2>4, <3>1 DEF Opened, p
    <3>4. \A s \in Slots : calls[s] # None => OfTheList(calls[s])
      BY <3>1, <3>2, <3>3 DEF OfTheList
    <3>5. ChangesAreOfTheFilters
      BY <3>1, <3>3 DEF ChangesAreOfTheFilters
    <3> QED BY <3>1, <3>2, <3>3, <3>4, <3>5 DEF ChangesInv
  <2> QED BY <2>2, <2>3, <2>4 DEF DatabaseInit
<1>2. ChangesInv => ChangesAreOfTheFilters
  BY DEF ChangesInv, ChangesAreOfTheFilters
<1>3. ChangesInv /\ [DatabaseSteps]_browser => ChangesInv'
  BY ChangesStep
<1> QED BY <1>1, <1>2, <1>3, PTL DEF DatabaseSpec

-----------------------------------------------------------------------------
(* The trace of the processes *)

TraceFields == {"processes", "lines", "taken", "source", "retry"}
TraceStore == {"group", "history", "written", "troubles", "restarted", "again"}
IsStream(c) == c = [f \in {"pids", "open", "due"} |-> c[f]]

\* Null is neither a stream nor the numbers of processes.
NoneIsNoStream == (\A c : IsStream(c) => c # None) /\ None \notin SUBSET Processes

\* What the service told, and is going to, are processes.
Told ==
  /\ stored = [f \in TraceStore |-> stored[f]]
  /\ stored.group \in SUBSET Processes
  /\ \A s \in Slots : calls[s] # None =>
       /\ calls[s].op = "workers"
       /\ calls[s].stage = "answered" => calls[s].answer \in SUBSET Processes

TraceInv ==
  /\ CallTable
  /\ OnTrace
  /\ view = [f \in TraceFields |-> view[f]]
  /\ view.processes \in SUBSET Processes
  /\ view.source # None => IsStream(view.source)
  /\ OneStreamOfTheProcesses
  /\ Told

\* The stream and the retry stay what they were, of the same processes.
LEMMA StreamStays ==
  ASSUME TraceInv, page' = page, CallTable', Told', view' = [f \in TraceFields |-> view'[f]],
         view'.processes = view.processes, view'.retry = view.retry,
         \/ view'.source = view.source
         \/ /\ view.source # None /\ view'.source # None /\ IsStream(view'.source)
            /\ view'.source.pids = view.source.pids
  PROVE  TraceInv'
BY DEF TraceInv, OnTrace, OneStreamOfTheProcesses

\* What the group is, what was written and what went wrong so far changes, and no request.
LEMMA ToldStill ==
  ASSUME TraceInv, calls' = calls, stored' = [f \in TraceStore |-> stored'[f]], stored'.group \in SUBSET Processes
  PROVE  CallTable' /\ Told'
BY DEF TraceInv, CallTable, Told

\* A stream with other lines that are due, or that is interrupted, is a stream of the same
\* processes.
LEMMA StreamChanges ==
  ASSUME NEW c, IsStream(c), NEW due, NEW open
  PROVE  /\ IsStream([c EXCEPT !.due = due]) /\ [c EXCEPT !.due = due].pids = c.pids
         /\ IsStream([c EXCEPT !.open = open, !.due = due]) /\ [c EXCEPT !.open = open, !.due = due].pids = c.pids
BY DEF IsStream

\* A stream that is opened, and what it is for.
LEMMA StreamOpens ==
  ASSUME NEW pids
  PROVE  IsStream(Stream(pids)) /\ Stream(pids).pids = pids
BY DEF IsStream, Stream

\* A question about the processes ends, unless another one is asked.
LEMMA QuestionEnds ==
  ASSUME TraceInv, NEW s \in Slots, Ends(s, <<>>), stored' = [f \in TraceStore |-> stored'[f]], stored'.group = stored.group
  PROVE  CallTable' /\ Told'
<1>1. CallTable' /\ calls'[s] = None /\ \A q \in Slots \ {s} : calls'[q] = calls[q]
  BY AskedLess DEF TraceInv
<1> QED BY <1>1 DEF TraceInv, Told

\* Every step of the page of the trace keeps the invariant.
LEMMA TraceStep == TraceInv /\ NoneIsNoStream /\ [TraceSteps]_browser => TraceInv'
<1> SUFFICES ASSUME TraceInv, NoneIsNoStream, [TraceSteps]_browser
             PROVE  TraceInv'
  OBVIOUS
<1>0. /\ CallTable /\ OnTrace /\ Told /\ OneStreamOfTheProcesses
      /\ view = [f \in TraceFields |-> view[f]] /\ view.processes \in SUBSET Processes
      /\ view.source # None => IsStream(view.source)
      /\ stored = [f \in TraceStore |-> stored[f]] /\ stored.group \in SUBSET Processes
  BY DEF TraceInv, Told
<1>a. ASSUME NEW st, view.source # None, view' = [view EXCEPT !.source = st], IsStream(st), st.pids = view.source.pids,
             page' = page, CallTable', Told'
      PROVE  TraceInv'
  <2>1. view' = [f \in TraceFields |-> view'[f]] /\ view'.source = st /\ view'.processes = view.processes /\ view'.retry = view.retry
    BY <1>0, <1>a DEF TraceFields
  <2>2. st # None
    BY <1>a DEF NoneIsNoStream
  <2> QED BY <1>a, <2>1, <2>2, StreamStays
<1>1. ASSUME UNCHANGED browser
      PROVE  TraceInv'
  BY <1>0, <1>1, StreamStays DEF browser, CallTable, Told
<1>2. ASSUME NEW p \in Processes, ProcessWrites(p)
      PROVE  TraceInv'
  <2> DEFINE line == TraceLine(p, Len(stored.history[p]) + 1, stored.written + 1)
             h == [stored.history EXCEPT ![p] = Append(@, line)]
             due == [view.source.due EXCEPT ![p] = Append(@, line)]
             st == [view.source EXCEPT !.due = due]
  <2>1. view.source # None /\ view' = [view EXCEPT !.source = st] /\ UNCHANGED <<page, calls>>
    BY <1>2 DEF ProcessWrites, Watched
  <2>2. stored' = [stored EXCEPT !.written = @ + 1, !.history = h]
    BY <1>2 DEF ProcessWrites
  <2> HIDE DEF h, due
  <2>3. IsStream(st) /\ st.pids = view.source.pids
    BY <1>0, <2>1, StreamChanges
  <2>4. stored' = [f \in TraceStore |-> stored'[f]] /\ stored'.group = stored.group
    BY <1>0, <2>2 DEF TraceStore
  <2> HIDE DEF st
  <2> QED BY <1>0, <1>a, <2>1, <2>3, <2>4, ToldStill
<1>3. ASSUME NEW p \in Processes, TraceForgotten(p)
      PROVE  TraceInv'
  <2> DEFINE h == [stored.history EXCEPT ![p] = <<>>]
             again == IF view.taken[p] > 0 THEN stored.restarted \union {p} ELSE stored.restarted
  <2>1. stored' = [stored EXCEPT !.history = h, !.restarted = again] /\ UNCHANGED <<page, view, calls>>
    BY <1>3 DEF TraceForgotten
  <2> HIDE DEF h, again
  <2>2. stored' = [f \in TraceStore |-> stored'[f]] /\ stored'.group = stored.group
    BY <1>0, <2>1 DEF TraceStore
  <2> QED BY <1>0, <2>1, <2>2, ToldStill, StreamStays
<1>4. ASSUME NEW p \in Processes, NEW k \in 1..MaxLines, LinesArrive(p, k)
      PROVE  TraceInv'
  <2> DEFINE batch == SubSeq(view.source.due[p], 1, k)
             fresh == NotTaken(p, batch)
             due == [view.source.due EXCEPT ![p] = SubSeq(@, k + 1, Len(@))]
             st == [view.source EXCEPT !.due = due]
             read == [view EXCEPT !.source = st]
             taken == [view.taken EXCEPT ![p] = Last(fresh).n]
             lines == LastOf(Woven(view.lines, fresh), KeptLines)
  <2>1. /\ view.source # None /\ UNCHANGED <<page, calls, stored>>
        /\ view' = IF fresh = <<>> THEN [view EXCEPT !.source.due[p] = SubSeq(@, k + 1, Len(@))]
                   ELSE [[view EXCEPT !.source.due[p] = SubSeq(@, k + 1, Len(@))]
                           EXCEPT !.taken[p] = Last(fresh).n, !.lines = LastOf(Woven(@, fresh), KeptLines)]
    BY <1>4 DEF LinesArrive, Watched
  <2>2. [view EXCEPT !.source.due[p] = SubSeq(@, k + 1, Len(@))] = read
    OBVIOUS
  <2>3. read.taken = view.taken /\ read.lines = view.lines /\ read = [f \in TraceFields |-> read[f]] /\ read.source = st
        /\ read.processes = view.processes /\ read.retry = view.retry
    BY <1>0 DEF TraceFields
  <2>4. view' = read \/ view' = [read EXCEPT !.taken = taken, !.lines = lines]
    <3>1. CASE fresh = <<>>
      BY <2>1, <2>2, <3>1
    <3>2. CASE fresh # <<>>
      <4>1. view' = [read EXCEPT !.taken[p] = Last(fresh).n, !.lines = LastOf(Woven(@, fresh), KeptLines)]
        BY <2>1, <2>2, <3>2
      <4> HIDE DEF fresh, read
      <4> QED BY <2>3, <4>1
    <3> QED BY <3>1, <3>2
  <2> HIDE DEF batch, fresh, due, taken, lines
  <2>5. IsStream(st) /\ st.pids = view.source.pids
    BY <1>0, <2>1, StreamChanges
  <2>6. st # None
    BY <2>5 DEF NoneIsNoStream
  <2> HIDE DEF st, read
  <2>7. /\ view' = [f \in TraceFields |-> view'[f]] /\ view'.source = st
        /\ view'.processes = view.processes /\ view'.retry = view.retry
    BY <2>3, <2>4 DEF TraceFields
  <2>8. CallTable' /\ Told'
    BY <1>0, <2>1, ToldStill
  <2> QED BY <2>1, <2>5, <2>6, <2>7, <2>8, StreamStays
<1>5. ASSUME NEW pids \in SUBSET Processes, GroupChanges(pids)
      PROVE  TraceInv'
  <2>1. stored' = [stored EXCEPT !.troubles = @ + 1, !.group = pids] /\ UNCHANGED <<page, view, calls>>
    BY <1>5 DEF GroupChanges, TraceTroubled
  <2>2. stored' = [f \in TraceStore |-> stored'[f]] /\ stored'.group = pids
    BY <1>0, <2>1 DEF TraceStore
  <2> QED BY <1>0, <2>1, <2>2, ToldStill, StreamStays
<1>6. CASE FindProcesses
  <2> DEFINE x == Request("workers", None, None)
  <2>1. IsRequest(x) /\ x.op = "workers" /\ x.stage = "sent"
    BY Requests DEF Request
  <2>2. Send(<<x>>) /\ UNCHANGED <<page, view, stored>>
    BY <1>6 DEF FindProcesses
  <2> HIDE DEF x
  <2>3. PICK k \in Slots : calls[k] = None /\ calls' = [calls EXCEPT ![k] = x]
    BY <1>0, <2>2, SendsOne
  <2>4. CallTable' /\ \A q \in Slots : calls'[q] \in {calls[q], x}
    BY <1>0, <2>1, <2>3 DEF CallTable
  <2>5. Told'
    BY <1>0, <2>1, <2>2, <2>4 DEF Told
  <2> QED BY <1>0, <2>2, <2>4, <2>5, StreamStays
<1>7. CASE ClearTrace
  <2>1. view' = [view EXCEPT !.lines = <<>>] /\ stored' = [stored EXCEPT !.again = {}] /\ UNCHANGED <<page, calls>>
    BY <1>7 DEF ClearTrace
  <2>2. view' = [f \in TraceFields |-> view'[f]] /\ view'.source = view.source /\ view'.processes = view.processes /\ view'.retry = view.retry
    BY <1>0, <2>1 DEF TraceFields
  <2>3. stored' = [f \in TraceStore |-> stored'[f]] /\ stored'.group = stored.group
    BY <1>0, <2>1 DEF TraceStore
  <2> QED BY <1>0, <2>1, <2>2, <2>3, ToldStill, StreamStays
<1>8. CASE StreamInterrupted
  <2> DEFINE due == [p \in DOMAIN view.source.due |-> <<>>]
             st == [view.source EXCEPT !.open = FALSE, !.due = due]
  <2>1. /\ view.source # None /\ UNCHANGED <<page, calls>> /\ stored' = [stored EXCEPT !.troubles = @ + 1]
        /\ view' = [view EXCEPT !.source.open = FALSE, !.source.due = [p \in DOMAIN @ |-> <<>>]]
    BY <1>8 DEF StreamInterrupted, TraceTroubled
  <2>2. view' = [view EXCEPT !.source = st]
    <3>1. [view EXCEPT !.source.open = FALSE, !.source.due = [p \in DOMAIN @ |-> <<>>]] = [view EXCEPT !.source = st]
      BY <1>0, <2>1 DEF TraceFields, IsStream
    <3> QED BY <2>1, <3>1
  <2> HIDE DEF due
  <2>3. IsStream(st) /\ st.pids = view.source.pids
    BY <1>0, <2>1, StreamChanges
  <2> HIDE DEF st
  <2>4. stored' = [f \in TraceStore |-> stored'[f]] /\ stored'.group = stored.group
    BY <1>0, <2>1 DEF TraceStore
  <2> QED BY <1>0, <1>a, <2>1, <2>2, <2>3, <2>4, ToldStill
<1>9. CASE StreamReopened
  <2> DEFINE st == Stream(view.source.pids)
  <2>1. view.source # None /\ view' = [view EXCEPT !.source = st] /\ UNCHANGED <<page, calls, stored>>
    BY <1>9 DEF StreamReopened
  <2>2. IsStream(st) /\ st.pids = view.source.pids
    BY StreamOpens
  <2> HIDE DEF st
  <2> QED BY <1>0, <1>a, <2>1, <2>2, ToldStill
<1>10. CASE StreamClosed
  <2> DEFINE taken == [p \in Processes |-> 0]
             again == {line.pid : line \in ToSet(view.lines)}
             none == {}
  <2>1. /\ view.source # None /\ UNCHANGED <<page, calls>>
        /\ stored' = [[stored EXCEPT !.troubles = @ + 1] EXCEPT !.restarted = none, !.again = again]
        /\ view' = [view EXCEPT !.source = None, !.retry = view.source.pids, !.taken = taken]
    BY <1>10 DEF StreamClosed, CountedAnew, TraceTroubled
  <2> HIDE DEF taken, again, none
  <2>2. /\ view' = [f \in TraceFields |-> view'[f]] /\ view'.source = None /\ view'.processes = view.processes
        /\ view'.retry = view.source.pids
    BY <1>0, <2>1 DEF TraceFields
  <2>3. view.source.pids = view.processes /\ view.processes # {} /\ view.processes # None
    BY <1>0, <2>1 DEF OneStreamOfTheProcesses, NoneIsNoStream
  <2>4. stored' = [f \in TraceStore |-> stored'[f]] /\ stored'.group = stored.group
    BY <1>0, <2>1 DEF TraceStore
  <2> QED BY <1>0, <2>1, <2>2, <2>3, <2>4, ToldStill DEF TraceInv, OnTrace, OneStreamOfTheProcesses
<1>11. CASE StreamRetried
  <2> DEFINE st == Stream(view.retry)
  <2>1. view.retry # None /\ view' = [view EXCEPT !.retry = None, !.source = st] /\ UNCHANGED <<page, calls, stored>>
    BY <1>11 DEF StreamRetried
  <2>2. IsStream(st) /\ st.pids = view.retry /\ st # None
    BY StreamOpens DEF NoneIsNoStream
  <2> HIDE DEF st
  <2>3. view' = [f \in TraceFields |-> view'[f]] /\ view'.source = st /\ view'.processes = view.processes /\ view'.retry = None
    BY <1>0, <2>1 DEF TraceFields
  <2>4. view.retry = view.processes /\ view.processes # {}
    BY <1>0, <2>1 DEF OneStreamOfTheProcesses
  <2> QED BY <1>0, <2>1, <2>2, <2>3, <2>4, ToldStill DEF TraceInv, OnTrace, OneStreamOfTheProcesses
<1>12. ASSUME NEW s \in Slots, WorkersServed(s)
       PROVE  TraceInv'
  <2>1. calls[s] # None /\ Serve(s, stored.group, stored)
    BY <1>12 DEF WorkersServed, InStage
  <2>2. Serves(s, calls'[s]) /\ ServedAs(calls'[s], calls[s], "answered", stored.group) /\ UNCHANGED <<page, view, stored>>
    BY <1>0, <2>1, Serving
  <2>3. CallTable' /\ Told'
    BY <1>0, <2>1, <2>2 DEF Serves, ServedAs, Told
  <2> QED BY <1>0, <2>2, <2>3, StreamStays
<1>13. ASSUME NEW s \in Slots, ProcessesFound(s)
       PROVE  TraceInv'
  <2> DEFINE a == calls[s].answer
             src == IF a = {} THEN None ELSE Stream(a)
  <2>1. /\ calls[s] # None /\ calls[s].stage = "answered" /\ Ends(s, <<>>) /\ UNCHANGED <<page, stored>>
        /\ view' = IF a = view.processes THEN view ELSE [view EXCEPT !.processes = a, !.retry = None, !.source = src]
    BY <1>13 DEF ProcessesFound, Answer, InStage, Followed
  <2>2. a \in SUBSET Processes
    BY <1>0, <2>1 DEF Told
  <2>3. (a = {} /\ src = None) \/ (a # {} /\ src # None /\ IsStream(src) /\ src.pids = a)
    BY StreamOpens DEF NoneIsNoStream
  <2> HIDE DEF a, src
  <2>4. CallTable' /\ Told'
    BY <1>0, <2>1, QuestionEnds
  <2>5. CASE a = view.processes
    BY <1>0, <2>1, <2>4, <2>5, StreamStays
  <2>6. CASE a # view.processes
    <3>1. view' = [f \in TraceFields |-> view'[f]] /\ view'.source = src /\ view'.processes = a /\ view'.retry = None
      BY <1>0, <2>1, <2>6 DEF TraceFields
    <3> QED BY <1>0, <2>1, <2>2, <2>3, <2>4, <3>1 DEF TraceInv, OnTrace, OneStreamOfTheProcesses
  <2> QED BY <2>5, <2>6
<1>14. ASSUME NEW s \in Slots, ProcessesNotFound(s)
       PROVE  TraceInv'
  <2>1. Ends(s, <<>>) /\ UNCHANGED <<page, view>> /\ stored' = [stored EXCEPT !.troubles = @ + 1]
    BY <1>14 DEF ProcessesNotFound, TraceTroubled
  <2>2. stored' = [f \in TraceStore |-> stored'[f]] /\ stored'.group = stored.group
    BY <1>0, <2>1 DEF TraceStore
  <2> QED BY <1>0, <2>1, <2>2, QuestionEnds, StreamStays
<1> QED BY <1>1, <1>2, <1>3, <1>4, <1>5, <1>6, <1>7, <1>8, <1>9, <1>10, <1>11, <1>12, <1>13, <1>14 DEF TraceSteps

\* Streams that break, processes that come and go, answers that cross: the page of the trace
\* has one stream or one retry, of the processes it follows (TraceScreen,
\* OneStreamOfTheProcesses).
THEOREM OneStream == ASSUME NoneIsNoStream PROVE TraceSpec => []OneStreamOfTheProcesses
<1>1. TraceInit => TraceInv
  <2> SUFFICES ASSUME NEW whole \in BOOLEAN, Opened(TraceOpening(whole), TraceStored)
               PROVE  TraceInv
    BY DEF TraceInit
  <2> DEFINE o == TraceOpening(whole)
             x == Request("workers", None, None)
             first == {Min(Processes)}
             due == [p \in first |-> <<>>]
             st == [pids |-> first, open |-> TRUE, due |-> due]
             taken == [p \in Processes |-> 0]
             quiet == [processes |-> {}, lines |-> <<>>, taken |-> taken, source |-> None, retry |-> None]
  <2>1. first \in SUBSET Processes /\ first # {}
    BY ProcessesAssumption, LeastSlot
  <2>2. x.op = "workers" /\ x.stage = "sent" /\ Fresh(<<x>>) /\ Fresh(<<>>)
    BY Requests DEF Request
  <2>3. o.page.name = "trace" /\ o.asks = IF whole THEN <<x>> ELSE <<>>
    BY DEF TraceOpening, TracePage
  <2>4. o.view = IF whole THEN quiet ELSE [quiet EXCEPT !.processes = first, !.source = st]
    BY DEF TraceOpening
  <2> HIDE DEF o, x, first, due, taken
  <2>5. IsStream(st) /\ st.pids = first
    BY DEF IsStream
  <2> HIDE DEF st
  <2>6. st # None
    BY <2>5 DEF NoneIsNoStream
  <2>7. /\ o.view = [f \in TraceFields |-> o.view[f]] /\ o.view.retry = None
        /\ \/ o.view.processes = {} /\ o.view.source = None
           \/ o.view.processes = first /\ o.view.source = st
    <3>1. quiet = [f \in TraceFields |-> quiet[f]] /\ quiet.retry = None /\ quiet.processes = {} /\ quiet.source = None
      BY DEF TraceFields
    <3> HIDE DEF quiet
    <3>2. CASE whole
      BY <2>4, <3>1, <3>2
    <3>3. CASE ~whole
      <4>1. o.view = [quiet EXCEPT !.processes = first, !.source = st]
        BY <2>4, <3>3
      <4> QED BY <3>1, <4>1 DEF TraceFields
    <3> QED BY <3>2, <3>3
  <2>8. Fresh(o.asks)
    BY <2>2, <2>3
  <2>9. CallTable /\ \A s \in Slots : calls[s] # None => calls[s] = x
    <3>1. \A i \in DOMAIN o.asks : o.asks[i] = x
      BY <2>3
    <3> QED BY <2>8, <3>1, Opening DEF o
  <2>10. page = o.page /\ view = o.view /\ stored = TraceStored
    BY DEF Opened, o
  <2>11. Told
    <3>1. stored = [f \in TraceStore |-> stored[f]] /\ stored.group = Processes
      BY <2>10 DEF TraceStored, TraceStore
    <3> QED BY <2>2, <2>9, <3>1 DEF Told
  <2>12. OneStreamOfTheProcesses /\ view.processes \in SUBSET Processes /\ (view.source # None => IsStream(view.source))
    BY <2>1, <2>5, <2>6, <2>7, <2>10 DEF OneStreamOfTheProcesses
  <2> QED BY <2>3, <2>7, <2>9, <2>10, <2>11, <2>12 DEF TraceInv, OnTrace
<1>2. TraceInv => OneStreamOfTheProcesses
  BY DEF TraceInv
<1>3. TraceInv /\ [TraceSteps]_browser => TraceInv'
  BY TraceStep
<1> QED BY <1>1, <1>2, <1>3, PTL DEF TraceSpec

-----------------------------------------------------------------------------
(* What is put in an open package, from the list of the packages, from what is picked of the *)
(* objects and from a comparison: what is told to be in went in                              *)

IncludingPages == {"area", "packages", "picks", "compare"}

FieldsOf(name) ==
  CASE name = "area" -> {"draft", "read", "items", "name", "busy", "including", "told"}
    [] name = "packages" -> {"came", "shown", "older", "busy", "including", "told"}
    [] name = "picks" -> {"picked", "including", "told"}
    [] name = "compare" -> {"route", "result", "compared", "loadingLast", "busy", "picked", "opened", "including", "told"}
    [] name = "objects" -> {"filter", "where", "listed", "hits", "loading", "typing", "problem"}
    [] OTHER -> {}

OpsOf(name) ==
  CASE name = "area" -> {"area", "ownDrafts", "remove", "changeDraft", "close", "addScript", "deleteDraft"}
    [] name = "packages" -> {"packages", "importPackage", "drafts", "createDraft", "add"}
    [] name = "picks" -> {"drafts", "createDraft", "add"}
    [] name = "compare" -> {"lastComparison", "compare", "open", "drafts", "createDraft", "add"}
    [] name = "objects" -> {"objects", "search"}
    [] OTHER -> {}

\* The packages of the service, and what ever went in them.
Shelved ==
  /\ stored = [f \in DOMAIN stored |-> stored[f]]
  /\ {"open", "used", "taken", "current", "remembered", "area", "name", "made"} \subseteq DOMAIN stored
  /\ stored.open \subseteq Drafts /\ stored.used \subseteq Drafts
  /\ stored.taken = [d \in Drafts |-> stored.taken[d]]

Inclusion == {"phase", "asked", "left", "done", "failed", "drafts", "makes", "draft"}

\* What is told to be in went in.
WentIn(c) == c.done = {} \/ (c.draft \in Drafts /\ c.done \subseteq stored.taken[c.draft])

\* An inclusion on its way: everything that was asked for is in, or failed, or is left.
Underway(c) ==
  /\ c = [f \in Inclusion |-> c[f]]
  /\ c.asked \in SUBSET Objects
  /\ c.asked = c.done \union c.failed \union c.left
  /\ c.done \intersect c.failed = {} /\ (c.done \union c.failed) \intersect c.left = {}
  /\ WentIn(c)
  /\ c.phase \in {"reading", "picking", "creating", "adding"}
  /\ c.phase # "adding" => c.done = {} /\ c.failed = {}

Over(c) ==
  /\ WentIn(c)
  /\ c.done \union c.failed = c.asked
  /\ c.done \intersect c.failed = {}

\* The page of a comparison was left, and what went in is still said.
SaidLast == DOMAIN view = {"told"} /\ Over(view.told)

\* Of each screen: the fields of its component and the questions it asks.
Shaped ==
  /\ CallTable
  /\ page = [f \in DOMAIN page |-> page[f]]
  /\ page.name \in IncludingPages \union {"objects", "elsewhere"}
  /\ view = [f \in DOMAIN view |-> view[f]]
  /\ DOMAIN view = FieldsOf(page.name) \/ (page.name = "elsewhere" /\ SaidLast)
  /\ \A s \in Slots : calls[s] # None => calls[s].op \in OpsOf(page.name)

\* The question of an inclusion that is on its way is that of its phase.
OfThePhase(c) ==
  /\ c.op = "drafts" => view.including # None /\ view.including.phase = "reading"
  /\ c.op = "add" => /\ view.including # None /\ view.including.phase = "adding"
                     /\ c.at = view.including.draft /\ c.with \in view.including.left
                     /\ c.stage = "answered" => c.at \in Drafts /\ c.with \in stored.taken[c.at]

Stepwise == {"drafts", "add"}

IncludeInv ==
  /\ view.including # None => Underway(view.including)
  /\ view.told # None => Over(view.told)
  /\ AtMostOne(InFlight(Stepwise))
  /\ \A s \in InFlight(Stepwise) : OfThePhase(calls[s])

\* Packages are opened and things go in them; nothing that went in is forgotten.
ShelfGrows ==
  /\ Shelved'
  /\ \A d \in Drafts : stored.taken[d] \subseteq stored'.taken[d]

\* What went in stays said rightly.
LEMMA StillIn ==
  ASSUME ShelfGrows, NEW c
  PROVE  (WentIn(c) => WentIn(c)') /\ (Over(c) => Over(c)') /\ (Underway(c) => Underway(c)')
<1>1. WentIn(c) => WentIn(c)'
  BY DEF ShelfGrows, WentIn
<1> QED BY <1>1 DEF Over, Underway

\* A step beside the inclusion.
LEMMA IncludeKept ==
  ASSUME IncludeInv, ShelfGrows, Keeps(Stepwise), view'.including = view.including, view'.told = view.told
  PROVE  IncludeInv'
<1>1. InFlight(Stepwise)' = InFlight(Stepwise) /\ \A q \in InFlight(Stepwise) : calls'[q] = calls[q]
  BY KeptAsked
<1>2. ASSUME NEW c, OfThePhase(c)
      PROVE  /\ c.op = "drafts" => view'.including # None /\ view'.including.phase = "reading"
             /\ c.op = "add" => /\ view'.including # None /\ view'.including.phase = "adding"
                                /\ c.at = view'.including.draft /\ c.with \in view'.including.left
                                /\ c.stage = "answered" => c.at \in Drafts /\ c.with \in stored'.taken[c.at]
  BY <1>2 DEF OfThePhase, ShelfGrows
<1>3. \A s \in InFlight(Stepwise)' : OfThePhase(calls[s])'
  <2> TAKE s \in InFlight(Stepwise)'
  <2> DEFINE c == calls[s]
  <2>1. calls'[s] = c /\ OfThePhase(c)
    BY <1>1 DEF IncludeInv
  <2> HIDE DEF c
  <2> QED BY <1>2, <2>1 DEF OfThePhase
<1>4. view'.including # None => Underway(view.including)'
  <2> DEFINE c == view.including
  <2>1. c # None => Underway(c)
    BY DEF IncludeInv
  <2>2. Underway(c) => Underway(view.including)'
    BY StillIn DEF Underway, WentIn, ShelfGrows
  <2> QED BY <2>1, <2>2
<1>5. view'.told # None => Over(view.told)'
  BY DEF IncludeInv, Over, WentIn, ShelfGrows
<1> QED BY <1>1, <1>3, <1>4, <1>5 DEF IncludeInv

\* The next step of the inclusion: at most one question of it is on its way, as its phase says.
LEMMA IncludeNext ==
  ASSUME NEW k, InFlight(Stepwise)' \subseteq {k}, k \in InFlight(Stepwise)' => OfThePhase(calls[k])',
         view'.including # None => Underway(view.including)',
         view'.told # None => Over(view.told)'
  PROVE  IncludeInv'
BY DEF IncludeInv, AtMostOne

\* What a comparison is kept as, and shown.
KeptOf(c, r) == c.of = r /\ c.can \in SUBSET Objects

OfTheRoute(c) ==
  /\ c.op = "lastComparison" => /\ c.at \in Routes
                                /\ c.stage = "answered" => c.answer = None \/ KeptOf(c.answer, c.at)
  /\ c.op = "compare" => /\ view.busy /\ c.at = view.route
                         /\ c.stage = "answered" => KeptOf(c.answer, c.at)

Comparing == {"lastComparison", "compare"}

\* The environment is not changed while it is compared with, and no other comparison is made.
CompareInv ==
  /\ view.route \in Routes
  /\ view.result # None => KeptOf(view.result, view.route) /\ view.compared = view.route
  /\ AtMostOne(InFlight({"compare"}))
  /\ \A s \in InFlight(Comparing) : OfTheRoute(calls[s])
  /\ "last" \in DOMAIN stored /\ stored.last = [r \in Routes |-> stored.last[r]]
  /\ \A r \in Routes : stored.last[r] # None => KeptOf(stored.last[r], r)

\* A question of the list that still counts is of what is searched for.
OfTheSearch(c) ==
  /\ c.stage = "answered" => c.answer = c.at
  /\ c.with = TRUE => /\ c.op = "search" => view.where = "script" /\ (view.typing \/ c.at = view.filter)
                      /\ c.op = "objects" /\ view.where = "name" => view.typing \/ c.at = view.filter

Counting(op) == \E s \in Slots : calls[s] # None /\ calls[s].op = op /\ calls[s].with = TRUE

\* What is listed, or found in the scripts, is what is searched for, or will be.
ListInv ==
  /\ view.where \in {"name", "script"}
  /\ \A s \in Slots : calls[s] # None => OfTheSearch(calls[s])
  /\ view.where = "name" /\ ~view.typing =>
       view.problem \/ view.listed = None \/ view.listed = view.filter \/ Counting("objects")
  /\ view.where = "script" /\ ~view.typing =>
       view.hits = None \/ view.hits = view.filter \/ Counting("search")

PackingInv ==
  /\ Shaped
  /\ Shelved
  /\ page.name \in IncludingPages => IncludeInv
  /\ OnArea => view.including = None
  /\ OnPicks \/ OnCompare => view.picked \in SUBSET Objects
  /\ OnCompare => CompareInv
  /\ OnObjects => ListInv

\* The fields of the component stay, and the inclusion with what was told of the last one.
SameInclusion ==
  /\ view' = [f \in DOMAIN view |-> view'[f]]
  /\ view'.including = view.including /\ view'.told = view.told

\* Another package is chosen, or none.
LEMMA ChoosingGrows ==
  ASSUME Shelved, NEW d, NEW e
  PROVE  /\ stored' = stored => ShelfGrows /\ DOMAIN stored' = DOMAIN stored
         /\ stored' \in {[stored EXCEPT !.current = d], [stored EXCEPT !.current = d, !.remembered = e]} =>
              ShelfGrows /\ DOMAIN stored' = DOMAIN stored /\ ("last" \in DOMAIN stored => stored'.last = stored.last)
BY DEF Shelved, ShelfGrows

\* The component is left.
LEMMA PackingLeft ==
  ASSUME PackingInv, NEW screen, Elsewhere(screen), ShelfGrows
  PROVE  PackingInv'
<1>1. CallTable' /\ \A s \in Slots : calls'[s] = None
  BY LeavesNone DEF PackingInv, Shaped
<1>2. page' = [name |-> "elsewhere", screen |-> screen] /\ view' = <<>>
  BY DEF Elsewhere
<1>3. DOMAIN <<>> = {} /\ <<>> = [f \in DOMAIN <<>> |-> <<>>[f]]
  OBVIOUS
<1>4. page'.name = "elsewhere" /\ page' = [f \in DOMAIN page' |-> page'[f]]
  BY <1>2
<1>5. Shaped'
  BY <1>1, <1>2, <1>3, <1>4 DEF Shaped, FieldsOf
<1> QED BY <1>4, <1>5 DEF PackingInv, ShelfGrows, IncludingPages, OnPicks, OnCompare, OnObjects, OnArea

\* The page of a comparison is left, once everything is in or failed.
LEMMA SaidAndLeft ==
  ASSUME PackingInv, NEW c, Over(c), TellsAndLeaves(c), ShelfGrows
  PROVE  PackingInv'
<1>1. CallTable' /\ \A s \in Slots : calls'[s] = None
  BY DEF PackingInv, Shaped, CallTable, TellsAndLeaves
<1>2. page'.name = "elsewhere" /\ page' = [f \in DOMAIN page' |-> page'[f]]
  BY DEF TellsAndLeaves
<1>3. view' = [f \in DOMAIN view' |-> view'[f]] /\ DOMAIN view' = {"told"} /\ view'.told = c
  BY DEF TellsAndLeaves
<1>4. SaidLast'
  BY <1>3, StillIn DEF SaidLast, Over, WentIn
<1>5. Shaped'
  BY <1>1, <1>2, <1>3, <1>4 DEF Shaped
<1> QED BY <1>2, <1>5 DEF PackingInv, ShelfGrows, IncludingPages, OnPicks, OnCompare, OnObjects, OnArea

\* A step on the page of a package, or on the list of the packages, beside the inclusion.
LEMMA Aside ==
  ASSUME PackingInv, page.name \in {"area", "packages"}, page' = page, SameInclusion, ShelfGrows,
         CallTable', Keeps(Stepwise), \A q \in Slots : calls'[q] # None => calls'[q].op \in OpsOf(page.name)
  PROVE  PackingInv'
<1>1. IncludeInv'
  BY IncludeKept DEF PackingInv, SameInclusion, IncludingPages
<1>2. Shaped'
  BY DEF PackingInv, Shaped, SameInclusion
<1> QED BY <1>1, <1>2 DEF PackingInv, ShelfGrows, SameInclusion, OnPicks, OnCompare, OnObjects, OnArea

\* A handler of those pages that sends one request, or none.
LEMMA AsideSends ==
  ASSUME PackingInv, page.name \in {"area", "packages"}, page' = page, SameInclusion, ShelfGrows,
         NEW x, IsRequest(x), x.op \in OpsOf(page.name), x.op \notin Stepwise, Send(<<x>>) \/ calls' = calls
  PROVE  PackingInv'
<1>1. CallTable /\ \A q \in Slots : calls[q] # None => calls[q].op \in OpsOf(page.name)
  BY DEF PackingInv, Shaped
<1>2. CallTable' /\ Keeps(Stepwise) /\ \A q \in Slots : calls'[q] \in {calls[q], x}
  <2>1. CASE Send(<<x>>)
    BY <1>1, <2>1, KeptSending
  <2>2. CASE calls' = calls
    BY <1>1, <2>2 DEF CallTable, Keeps
  <2> QED BY <2>1, <2>2
<1>3. \A q \in Slots : calls'[q] # None => calls'[q].op \in OpsOf(page.name)
  BY <1>1, <1>2
<1> QED BY <1>2, <1>3, Aside

\* A continuation of those pages, that asks for something more or does not.
LEMMA AsideEnds ==
  ASSUME PackingInv, page.name \in {"area", "packages"}, page' = page, SameInclusion, ShelfGrows,
         NEW s \in Slots, calls[s].op \notin Stepwise,
         NEW x, IsRequest(x), x.op \in OpsOf(page.name), x.op \notin Stepwise, Ends(s, <<>>) \/ Ends(s, <<x>>)
  PROVE  PackingInv'
<1>1. CallTable /\ \A q \in Slots : calls[q] # None => calls[q].op \in OpsOf(page.name)
  BY DEF PackingInv, Shaped
<1>2. CallTable' /\ Keeps(Stepwise) /\ \A q \in Slots : calls'[q] \in {calls[q], None, x}
  BY <1>1, KeptEnding DEF Outside
<1>3. \A q \in Slots : calls'[q] # None => calls'[q].op \in OpsOf(page.name)
  BY <1>1, <1>2
<1> QED BY <1>2, <1>3, Aside

\* Of the page of an open package and of the list of the packages: what they ask for.
LEMMA PageOps ==
  /\ {"area", "ownDrafts", "remove", "changeDraft", "close", "addScript", "deleteDraft"} = OpsOf("area")
  /\ {"packages", "importPackage"} \subseteq OpsOf("packages")
  /\ \A op \in {"area", "ownDrafts", "remove", "changeDraft", "close", "addScript", "deleteDraft",
                "packages", "importPackage"} : op \notin Stepwise
  /\ \A name : \A op \in {"area", "ownDrafts", "remove", "changeDraft", "close", "addScript", "deleteDraft"} :
       op \in OpsOf(name) => name = "area"
  /\ \A name : \A op \in {"packages", "importPackage"} : op \in OpsOf(name) => name = "packages"
BY DEF OpsOf, Stepwise

PageChanges ==
  \/ view' = view
  \/ \E a : \/ view' = [view EXCEPT !.name = a]
           \/ view' = [view EXCEPT !.busy = a]
           \/ view' = [view EXCEPT !.draft = a]
  \/ \E a, b, c, d : view' = [view EXCEPT !.draft = a, !.items = b, !.read = c, !.name = d]
  \/ \E a, b, c : view' = [view EXCEPT !.came = a, !.older = b, !.shown = c]

\* What these pages show besides the inclusion.
LEMMA PageFields ==
  ASSUME Shaped, page.name \in {"area", "packages"}, PageChanges
  PROVE  SameInclusion
<1>1. view = [f \in DOMAIN view |-> view[f]] /\ {"including", "told"} \subseteq DOMAIN view
  BY DEF Shaped, FieldsOf
<1> QED BY <1>1 DEF SameInclusion, PageChanges

\* What is done on the page of an open package and on the list, the inclusion aside.
LEMMA PageHandlers ==
  ASSUME PackingInv,
         \/ \E text \in Texts : TypeName(text)
         \/ \E o \in Objects : RemoveFromArea(o)
         \/ SaveNames \/ ClosePackage \/ AddScript \/ DiscardDraft \/ IncludeHere
         \/ PackagesTimer \/ ImportPackage
  PROVE  PackingInv'
<1>0. Shaped /\ Shelved
  BY DEF PackingInv
<1>a. ASSUME page.name = "area", page' = page, SameInclusion, ShelfGrows, NEW op, NEW at, NEW with,
             op \in {"area", "ownDrafts", "remove", "changeDraft", "close", "addScript", "deleteDraft"},
             Send(<<Request(op, at, with)>>) \/ calls' = calls
      PROVE  PackingInv'
  <2> DEFINE x == Request(op, at, with)
  <2>1. IsRequest(x) /\ x.op = op /\ (Send(<<x>>) \/ calls' = calls)
    BY <1>a, Requests DEF Request
  <2> HIDE DEF x
  <2> QED BY <1>a, <2>1, PageOps, AsideSends
<1>b. ASSUME page.name = "packages", page' = page, SameInclusion, ShelfGrows, NEW op,
             op \in {"packages", "importPackage"}, Send(<<Request(op, None, None)>>)
      PROVE  PackingInv'
  <2> DEFINE x == Request(op, None, None)
  <2>1. IsRequest(x) /\ x.op = op /\ Send(<<x>>)
    BY <1>b, Requests DEF Request
  <2> HIDE DEF x
  <2> QED BY <1>b, <2>1, PageOps, AsideSends
<1>1. ASSUME NEW text \in Texts, TypeName(text)
      PROVE  PackingInv'
  <2>1. page.name = "area" /\ view' = [view EXCEPT !.name = text] /\ UNCHANGED <<page, calls, stored>>
    BY <1>1 DEF TypeName, AreaShown, OnArea
  <2>2. SameInclusion /\ ShelfGrows
    BY <1>0, <2>1, PageFields, ChoosingGrows DEF PageChanges
  <2> QED BY <1>a, <2>1, <2>2
<1>2. ASSUME NEW o \in Objects, RemoveFromArea(o)
      PROVE  PackingInv'
  <2>1. page.name = "area" /\ Send(<<Request("remove", page.at, o)>>) /\ UNCHANGED <<page, view, stored>>
    BY <1>2 DEF RemoveFromArea, AreaShown, OnArea
  <2>2. SameInclusion /\ ShelfGrows
    BY <1>0, <2>1, PageFields, ChoosingGrows DEF PageChanges
  <2> QED BY <1>a, <2>1, <2>2
<1>3. CASE SaveNames \/ ClosePackage \/ AddScript \/ DiscardDraft
  <2>1. /\ page.name = "area" /\ UNCHANGED <<page, stored>> /\ (view' = view \/ view' = [view EXCEPT !.busy = TRUE])
        /\ \E op \in {"changeDraft", "close", "addScript", "deleteDraft"}, with \in {view.name, Max(Objects), None} :
             Send(<<Request(op, page.at, with)>>)
    BY <1>3 DEF SaveNames, ClosePackage, AddScript, DiscardDraft, OrderOnArea, AreaShown, OnArea
  <2>2. SameInclusion /\ ShelfGrows
    BY <1>0, <2>1, PageFields, ChoosingGrows DEF PageChanges
  <2>3. PICK op \in {"changeDraft", "close", "addScript", "deleteDraft"}, with \in {view.name, Max(Objects), None} :
          Send(<<Request(op, page.at, with)>>)
    BY <2>1
  <2> QED BY <1>a, <2>1, <2>2, <2>3
<1>4. CASE IncludeHere
  <2>1. page.name = "area" /\ stored' = [stored EXCEPT !.current = view.draft, !.remembered = view.draft] /\ UNCHANGED <<page, view, calls>>
    BY <1>4 DEF IncludeHere, AreaShown, OnArea, Choose
  <2>2. SameInclusion /\ ShelfGrows
    BY <1>0, <2>1, PageFields, ChoosingGrows DEF PageChanges
  <2> QED BY <1>a, <2>1, <2>2
<1>5. CASE PackagesTimer \/ ImportPackage
  <2>1. /\ page.name = "packages" /\ UNCHANGED <<page, stored>> /\ (view' = view \/ view' = [view EXCEPT !.busy = TRUE])
        /\ \E op \in {"packages", "importPackage"} : Send(<<Request(op, None, None)>>)
    BY <1>5 DEF PackagesTimer, ImportPackage, OnPackages
  <2>2. SameInclusion /\ ShelfGrows
    BY <1>0, <2>1, PageFields, ChoosingGrows DEF PageChanges
  <2> QED BY <1>b, <2>1, <2>2
<1> QED BY <1>1, <1>2, <1>3, <1>4, <1>5

\* What is answered to those pages, the inclusion aside.
LEMMA PageAnswers ==
  ASSUME PackingInv, NEW s \in Slots,
         \/ OwnDraftsAnswered(s) \/ AreaAnswered(s) \/ RemoveEnds(s) \/ NamesEnd(s) \/ AreaLeft(s)
         \/ NotClosed(s) \/ ScriptEnds(s) \/ ImportEnds(s) \/ PackagesAnswered(s) \/ DraftUnheard(s)
  PROVE  PackingInv'
<1>0. Shaped /\ Shelved /\ (calls[s] # None => calls[s].op \in OpsOf(page.name))
  BY DEF PackingInv, Shaped
<1> DEFINE x == Request("area", page.at, None)
           y == Request("packages", None, None)
<1>x. IsRequest(x) /\ x.op = "area" /\ AreaQuestion = <<x>> /\ IsRequest(y) /\ y.op = "packages"
  BY Requests DEF Request, AreaQuestion
<1> HIDE DEF x, y
<1>a. ASSUME calls[s] # None, page' = page, SameInclusion, ShelfGrows,
             \/ /\ Ends(s, <<>>) \/ Ends(s, <<x>>)
                /\ calls[s].op \in {"area", "ownDrafts", "remove", "changeDraft", "close", "addScript", "deleteDraft"}
             \/ Ends(s, <<>>) /\ calls[s].op \in {"packages", "importPackage"}
      PROVE  PackingInv'
  <2>1. CASE calls[s].op \in {"area", "ownDrafts", "remove", "changeDraft", "close", "addScript", "deleteDraft"}
    <3>1. page.name = "area" /\ calls[s].op \notin Stepwise /\ x.op \in OpsOf(page.name) /\ x.op \notin Stepwise
      BY <1>0, <1>a, <1>x, <2>1, PageOps
    <3>2. Ends(s, <<>>) \/ Ends(s, <<x>>)
      BY <1>a, <2>1
    <3> QED BY <1>a, <1>x, <3>1, <3>2, AsideEnds
  <2>2. CASE calls[s].op \in {"packages", "importPackage"}
    <3>1. page.name = "packages" /\ calls[s].op \notin Stepwise /\ y.op \in OpsOf(page.name) /\ y.op \notin Stepwise
      BY <1>0, <1>a, <1>x, <2>2, PageOps
    <3>2. Ends(s, <<>>)
      BY <1>a, <2>2
    <3> QED BY <1>a, <1>x, <3>1, <3>2, AsideEnds
  <2> QED BY <1>a, <2>1, <2>2
<1>b. calls[s] # None /\ calls[s].op \in {"area", "ownDrafts", "remove", "changeDraft", "close", "addScript", "deleteDraft",
                                          "packages", "importPackage"} => page.name \in {"area", "packages"}
  BY <1>0, PageOps
<1>c. ASSUME calls[s] # None, calls[s].op \in {"area", "ownDrafts", "remove", "changeDraft", "close", "addScript", "deleteDraft",
                                               "packages", "importPackage"},
             PageChanges
      PROVE  SameInclusion
  BY <1>0, <1>b, <1>c, PageFields
<1>1. CASE OwnDraftsAnswered(s)
  <2> DEFINE d == IF calls[s].at \in calls[s].answer THEN calls[s].at ELSE None
  <2>1. calls[s] # None /\ calls[s].op = "ownDrafts" /\ Ends(s, <<>>) /\ UNCHANGED <<page, view>> /\ stored' = [stored EXCEPT !.current = d]
    BY <1>1 DEF OwnDraftsAnswered, Answer, InStage
  <2> HIDE DEF d
  <2>2. ShelfGrows
    BY <1>0, <2>1, ChoosingGrows
  <2> QED BY <1>a, <1>c, <2>1, <2>2 DEF PageChanges
<1>2. CASE AreaAnswered(s)
  <2> DEFINE v == IF calls[s].answer.draft # None /\ ~view.read THEN calls[s].answer.name ELSE view.name
             a == calls[s].answer.draft
             i == calls[s].answer.items
  <2>1. calls[s] # None /\ calls[s].op = "area" /\ Ends(s, <<>>) /\ UNCHANGED <<page, stored>>
    BY <1>2 DEF AreaAnswered, Answer, InStage
  <2>2. view' = [view EXCEPT !.draft = a, !.items = i, !.read = TRUE, !.name = v]
    BY <1>2 DEF AreaAnswered
  <2> HIDE DEF v, a, i
  <2> QED BY <1>0, <1>a, <1>c, <2>1, <2>2, ChoosingGrows DEF PageChanges
<1>3. CASE RemoveEnds(s) \/ NamesEnd(s) \/ NotClosed(s) \/ ScriptEnds(s)
  <2>1. /\ calls[s] # None /\ calls[s].op \in {"remove", "changeDraft", "close", "addScript"} /\ UNCHANGED <<page, stored>>
        /\ Ends(s, <<>>) \/ Ends(s, <<x>>)
    BY <1>3, <1>x DEF RemoveEnds, NamesEnd, NotClosed, ScriptEnds, Answer, Failure, InStage
  <2>2. view' = view \/ (\E a : view' = [view EXCEPT !.draft = a]) \/ view' = [view EXCEPT !.busy = FALSE]
    BY <1>3 DEF RemoveEnds, NamesEnd, NotClosed, ScriptEnds
  <2>3. SameInclusion
    BY <1>c, <2>1, <2>2 DEF PageChanges
  <2> QED BY <1>0, <1>a, <2>1, <2>3, ChoosingGrows DEF PageChanges
<1>4. CASE AreaLeft(s)
  <2>1. /\ Elsewhere(IF calls[s].op = "close" THEN "package" ELSE "packages")
        /\ stored' = stored \/ stored' = [stored EXCEPT !.current = None, !.remembered = None]
    BY <1>4 DEF AreaLeft, LetGoOf, Choose
  <2> QED BY <1>0, <2>1, ChoosingGrows, PackingLeft
<1>5. CASE ImportEnds(s)
  <2>1. CASE Elsewhere("package") /\ stored' = stored
    BY <1>0, <2>1, ChoosingGrows, PackingLeft
  <2>2. CASE ~Elsewhere("package")
    <3>1. /\ calls[s] # None /\ calls[s].op = "importPackage" /\ Ends(s, <<>>) /\ UNCHANGED <<page, stored>>
          /\ view' = [view EXCEPT !.busy = FALSE]
      BY <1>5, <2>2 DEF ImportEnds, Failure
    <3> QED BY <1>0, <1>a, <1>c, <3>1, ChoosingGrows DEF PageChanges
  <2> QED BY <1>5, <2>1, <2>2 DEF ImportEnds
<1>6. CASE PackagesAnswered(s)
  <2> DEFINE a == calls[s].answer
             b == Sorted(a).older
             c == SelectSeq(calls[s].answer, LAMBDA item : item \in Sorted(a).newest)
  <2>1. calls[s] # None /\ calls[s].op = "packages" /\ Ends(s, <<>>) /\ UNCHANGED <<page, stored>>
    BY <1>6 DEF PackagesAnswered, Answer, InStage
  <2>2. view' = [view EXCEPT !.came = a, !.older = b, !.shown = c]
    BY <1>6 DEF PackagesAnswered
  <2> HIDE DEF a, b, c
  <2> QED BY <1>0, <1>a, <1>c, <2>1, <2>2, ChoosingGrows DEF PageChanges
<1>7. CASE DraftUnheard(s)
  <2>1. /\ calls[s] # None /\ calls[s].op \in {"ownDrafts", "area", "packages"} /\ Ends(s, <<>>)
        /\ UNCHANGED <<page, view, stored>>
    BY <1>7 DEF DraftUnheard, Failure
  <2> QED BY <1>0, <1>a, <1>c, <2>1, ChoosingGrows DEF PageChanges
<1> QED BY <1>1, <1>2, <1>3, <1>4, <1>5, <1>6, <1>7

Includers == {"packages", "picks", "compare"}
Questions == {"drafts", "createDraft", "add"}

\* What the component becomes when the inclusion does, and what was told of the last one.
InclusionBecomes(c, d) ==
  /\ view' = [f \in DOMAIN view |-> view'[f]]
  /\ \A f \in DOMAIN view \ {"including", "told", "picked"} : view'[f] = view[f]
  /\ OnPicks \/ OnCompare => view'.picked \in {view.picked, {}}
  /\ view'.including = c /\ view'.told = d

\* With the questions to the other environment as they were, what is shown of it stays.
LEMMA CompareKept ==
  ASSUME CompareInv, Keeps(Comparing), view'.route = view.route, view'.result = view.result,
         view'.compared = view.compared, view'.busy = view.busy,
         "last" \in DOMAIN stored', stored'.last = stored.last
  PROVE  CompareInv'
<1>1. Keeps({"compare"})
  BY DEF Keeps, Outside, Comparing
<1>2. InFlight({"compare"})' = InFlight({"compare"})
  BY <1>1, KeptAsked
<1>3. InFlight(Comparing)' = InFlight(Comparing) /\ \A q \in InFlight(Comparing) : calls'[q] = calls[q]
  BY KeptAsked
<1>4. \A c : OfTheRoute(c) => /\ c.op = "lastComparison" => /\ c.at \in Routes
                                                            /\ c.stage = "answered" => c.answer = None \/ KeptOf(c.answer, c.at)
                              /\ c.op = "compare" => /\ view'.busy /\ c.at = view'.route
                                                     /\ c.stage = "answered" => KeptOf(c.answer, c.at)
  BY DEF OfTheRoute
<1>5. \A s \in InFlight(Comparing)' : OfTheRoute(calls[s])'
  <2> TAKE s \in InFlight(Comparing)'
  <2> DEFINE c == calls[s]
  <2>1. calls'[s] = c /\ OfTheRoute(c)
    BY <1>3 DEF CompareInv
  <2> HIDE DEF c
  <2> QED BY <1>4, <2>1 DEF OfTheRoute
<1> QED BY <1>2, <1>5 DEF CompareInv, KeptOf

\* The inclusion goes on, the rest of the screen as it was.
LEMMA GoesOn ==
  ASSUME PackingInv, page.name \in Includers, page' = page, NEW c, NEW d, InclusionBecomes(c, d),
         CallTable', Keeps(Comparing), \A q \in Slots : calls'[q] # None => calls'[q].op \in OpsOf(page.name),
         ShelfGrows, DOMAIN stored' = DOMAIN stored, "last" \in DOMAIN stored => stored'.last = stored.last,
         IncludeInv'
  PROVE  PackingInv'
<1>1. Shaped'
  BY DEF PackingInv, Shaped, InclusionBecomes, Includers
<1>2. OnCompare => CompareInv'
  <2> SUFFICES ASSUME OnCompare
               PROVE  CompareInv'
    OBVIOUS
  <2>1. {"route", "result", "compared", "busy"} \subseteq DOMAIN view
    BY DEF PackingInv, Shaped, FieldsOf, OnCompare
  <2>2. view'.route = view.route /\ view'.result = view.result /\ view'.compared = view.compared /\ view'.busy = view.busy
    BY <2>1 DEF InclusionBecomes
  <2>3. CompareInv
    BY DEF PackingInv
  <2>4. "last" \in DOMAIN stored' /\ stored'.last = stored.last
    BY <2>3 DEF CompareInv
  <2> QED BY <2>2, <2>3, <2>4, CompareKept
<1>3. OnPicks \/ OnCompare => view'.picked \in SUBSET Objects
  BY DEF PackingInv, InclusionBecomes
<1> QED BY <1>1, <1>2, <1>3 DEF PackingInv, ShelfGrows, OnPicks, OnCompare, OnObjects, OnArea, Includers

\* What a question of the inclusion makes of the table.
LEMMA QuestionCalls ==
  ASSUME PackingInv, page.name \in Includers, NEW x, IsRequest(x), x.op \in Questions, NEW s \in Slots,
         \/ calls' = calls
         \/ Send(<<x>>)
         \/ calls[s] # None /\ calls[s].op \in Questions /\ (Ends(s, <<>>) \/ Ends(s, <<x>>))
  PROVE  CallTable' /\ Keeps(Comparing) /\ \A q \in Slots : calls'[q] # None => calls'[q].op \in OpsOf(page.name)
<1>1. Questions \subseteq OpsOf(page.name) /\ Questions \intersect Comparing = {}
  BY DEF Questions, Comparing, Includers, OpsOf
<1>2. CallTable /\ \A q \in Slots : calls[q] # None => calls[q].op \in OpsOf(page.name)
  BY DEF PackingInv, Shaped
<1>3. CASE calls' = calls
  BY <1>2, <1>3 DEF CallTable, Keeps
<1>4. CASE Send(<<x>>)
  <2>1. CallTable' /\ Keeps(Comparing) /\ \A q \in Slots : calls'[q] \in {calls[q], x}
    BY <1>1, <1>2, <1>4, KeptSending
  <2> QED BY <1>1, <1>2, <2>1
<1>5. CASE calls[s] # None /\ calls[s].op \in Questions /\ (Ends(s, <<>>) \/ Ends(s, <<x>>))
  <2>1. CallTable' /\ Keeps(Comparing) /\ \A q \in Slots : calls'[q] \in {calls[q], None, x}
    BY <1>1, <1>2, <1>5, KeptEnding DEF Outside
  <2> QED BY <1>1, <1>2, <2>1
<1> QED BY <1>3, <1>4, <1>5

\* The phases before anything is put in.
LEMMA NextPhase ==
  ASSUME NEW c, Underway(c), c.phase # "adding"
  PROVE  /\ \A drafts : Underway([c EXCEPT !.phase = "picking", !.drafts = drafts])
         /\ \A makes : Underway([c EXCEPT !.phase = "picking", !.makes = makes])
         /\ \A makes : Underway([c EXCEPT !.phase = "creating", !.makes = makes])
BY DEF Underway, Inclusion, WentIn

AddedTo(c, d) == [c EXCEPT !.phase = "adding", !.draft = d, !.makes = {}]

\* The phase in which everything is.
LEMMA AddingPhase ==
  ASSUME NEW c, Underway(c), c.phase # "adding", NEW d
  PROVE  /\ Underway(AddedTo(c, d)) /\ AddedTo(c, d).phase = "adding" /\ AddedTo(c, d).draft = d
         /\ AddedTo(c, d).left = c.left
BY DEF Underway, Inclusion, WentIn, AddedTo

\* What is on its way and what is over is so in the next state too.
LEMMA StillUnderway ==
  ASSUME ShelfGrows
  PROVE  /\ (\E c : Underway(c) /\ view'.including = c) => Underway(view.including)'
         /\ (\E c : Over(c) /\ view'.told = c) => Over(view.told)'
<1>1. ASSUME NEW c, WentIn(c)
      PROVE  c.done = {} \/ (c.draft \in Drafts /\ c.done \subseteq stored'.taken[c.draft])
  BY <1>1 DEF WentIn, ShelfGrows
<1>2. ASSUME NEW c, Underway(c), view'.including = c
      PROVE  Underway(view.including)'
  BY <1>1, <1>2 DEF Underway, WentIn
<1>3. ASSUME NEW c, Over(c), view'.told = c
      PROVE  Over(view.told)'
  BY <1>1, <1>3 DEF Over, WentIn
<1> QED BY <1>2, <1>3

\* The screens of an inclusion.
LEMMA InclusionScreens ==
  ASSUME PackingInv
  PROVE  /\ \A phase : InPhase(phase) => page.name \in Includers
         /\ \A s \in Slots : calls[s] # None /\ calls[s].op \in Questions => page.name \in Includers
         /\ page.name \in Includers => /\ IncludeInv /\ {"including", "told"} \subseteq DOMAIN view
                                       /\ OnPicks \/ OnCompare => "picked" \in DOMAIN view
<1>1. /\ page.name \in {"area", "packages", "picks", "compare", "objects", "elsewhere"}
      /\ DOMAIN view = FieldsOf(page.name) \/ DOMAIN view = {"told"}
  BY DEF PackingInv, Shaped, IncludingPages, SaidLast
<1>2. \A phase : InPhase(phase) => page.name \in Includers
  BY <1>1 DEF PackingInv, InPhase, Includers, FieldsOf, OnArea
<1>3. \A s \in Slots : calls[s] # None /\ calls[s].op \in Questions => page.name \in Includers
  <2>1. \A op \in Questions : op \in OpsOf(page.name) => page.name \in Includers
    BY <1>1 DEF Questions, OpsOf, Includers
  <2> QED BY <2>1 DEF PackingInv, Shaped
<1>4. page.name \in Includers => /\ IncludeInv /\ {"including", "told"} \subseteq DOMAIN view
                                 /\ OnPicks \/ OnCompare => "picked" \in DOMAIN view
  BY DEF PackingInv, Shaped, Includers, IncludingPages, FieldsOf, OnPicks, OnCompare
<1> QED BY <1>2, <1>3, <1>4

BecomesOf(c, d) ==
  \/ view' = [view EXCEPT !.including = c] /\ d = view.told
  \/ view' = [view EXCEPT !.including = c, !.told = d]
  \/ OnPicks /\ c = None /\ d = view.told /\ view' = [view EXCEPT !.including = None, !.picked = {}]
  \/ OnPicks /\ c = None /\ view' = [[view EXCEPT !.including = None, !.picked = {}] EXCEPT !.told = d]
  \/ view' = view /\ c = view.including /\ d = view.told

\* The forms in which the handlers write it.
LEMMA Becoming ==
  ASSUME PackingInv, page.name \in Includers, NEW c, NEW d, BecomesOf(c, d)
  PROVE  InclusionBecomes(c, d)
<1>1. /\ view = [f \in DOMAIN view |-> view[f]] /\ {"including", "told"} \subseteq DOMAIN view
      /\ OnPicks \/ OnCompare => "picked" \in DOMAIN view
  BY InclusionScreens DEF PackingInv, Shaped
<1>2. CASE view' = view /\ c = view.including /\ d = view.told
  BY <1>1, <1>2 DEF InclusionBecomes
<1>3. CASE view' = [view EXCEPT !.including = c] /\ d = view.told
  BY <1>1, <1>3 DEF InclusionBecomes
<1>4. CASE view' = [view EXCEPT !.including = c, !.told = d]
  BY <1>1, <1>4 DEF InclusionBecomes
<1>5. CASE OnPicks /\ c = None /\ d = view.told /\ view' = [view EXCEPT !.including = None, !.picked = {}]
  BY <1>1, <1>5 DEF InclusionBecomes
<1>6. CASE OnPicks /\ c = None /\ view' = [[view EXCEPT !.including = None, !.picked = {}] EXCEPT !.told = d]
  BY <1>1, <1>6 DEF InclusionBecomes
<1> QED BY <1>2, <1>3, <1>4, <1>5, <1>6 DEF BecomesOf

\* Between two inclusions, and while it is said which package it is, none of the questions that
\* take an inclusion on is on its way.
LEMMA NothingAsked ==
  ASSUME IncludeInv, view.including = None \/ view.including.phase \in {"picking", "creating"}
  PROVE  InFlight(Stepwise) = {}
<1>1. \A s \in InFlight(Stepwise) : FALSE
  BY DEF IncludeInv, OfThePhase, InFlight, Stepwise
<1> QED BY <1>1

\* An inclusion that is given up: nothing of it was on its way.
LEMMA InclusionGivenUp ==
  ASSUME PackingInv, page.name \in Includers, page' = page, view' = Abandoned, stored' = stored,
         CallTable', Keeps(Comparing), \A q \in Slots : calls'[q] # None => calls'[q].op \in OpsOf(page.name),
         InFlight(Stepwise)' = {}
  PROVE  PackingInv'
<1>1. BecomesOf(None, view.told)
  BY DEF Abandoned, BecomesOf, OnPicks
<1>2. InclusionBecomes(None, view.told)
  BY <1>1, Becoming
<1>3. ShelfGrows /\ DOMAIN stored' = DOMAIN stored
  BY ChoosingGrows DEF PackingInv
<1>4. IncludeInv
  BY InclusionScreens
<1>5. view'.including = None /\ view'.told = view.told
  BY <1>2 DEF InclusionBecomes
<1>6. view'.told # None => Over(view.told)'
  BY <1>3, <1>4, <1>5, StillUnderway DEF IncludeInv
<1>7. IncludeInv'
  BY <1>5, <1>6, IncludeNext
<1> QED BY <1>2, <1>3, <1>7, GoesOn

\* Something is asked to be put in a package (IncludeInto): it is asked which are open.
LEMMA IncludeBegins ==
  ASSUME PackingInv, NoneIsNoRecord, page.name \in Includers, page' = page, view.including = None,
         NEW items \in SUBSET Objects, IncludeInto(view, items),
         stored' = [f \in DOMAIN stored |-> stored'[f]], DOMAIN stored' = DOMAIN stored,
         \A f \in DOMAIN stored \ {"runs"} : stored'[f] = stored[f]
  PROVE  PackingInv'
<1> DEFINE c == Asking(items)
           x == Request("drafts", None, None)
<1>1. IsRequest(x) /\ x.op = "drafts" /\ Send(<<x>>)
  BY Requests DEF Request, IncludeInto
<1>2. view' = [view EXCEPT !.including = c, !.told = None]
  BY DEF IncludeInto
<1>3. Underway(c) /\ c.phase = "reading"
  BY DEF Underway, Asking, Inclusion, WentIn
<1>4. c # None
  BY <1>3, NoneIsNoneOfThem DEF Underway
<1> HIDE DEF c, x
<1>5. InclusionBecomes(c, None)
  BY <1>2, Becoming DEF BecomesOf
<1>6. ShelfGrows /\ ("last" \in DOMAIN stored => stored'.last = stored.last)
  <2>1. Shelved
    BY DEF PackingInv
  <2>2. stored'.open = stored.open /\ stored'.used = stored.used /\ stored'.taken = stored.taken
    BY <2>1 DEF Shelved
  <2> QED BY <2>1, <2>2 DEF ShelfGrows, Shelved
<1>7. IncludeInv /\ InFlight(Stepwise) = {}
  BY InclusionScreens, NothingAsked
<1>8. \E k \in Slots : calls'[k] = x /\ InFlight(Stepwise)' = InFlight(Stepwise) \union {k}
  <2>1. x.op \in Stepwise /\ CallTable /\ NoneIsNoRequest
    BY <1>1, NoneIsNoneOfThem DEF Stepwise, PackingInv, Shaped
  <2> QED BY <1>1, <2>1, AskedMore
<1>9. view'.including = c /\ view'.told = None
  BY <1>5 DEF InclusionBecomes
<1>10. IncludeInv'
  <2>1. PICK k \in Slots : calls'[k] = x /\ InFlight(Stepwise)' = {k}
    BY <1>7, <1>8
  <2>2. OfThePhase(calls[k])'
    BY <1>1, <1>3, <1>4, <1>9, <2>1 DEF OfThePhase
  <2>3. Underway(view.including)'
    BY <1>3, <1>6, <1>9, StillUnderway
  <2> QED BY <1>9, <2>1, <2>2, <2>3, IncludeNext
<1>11. CallTable' /\ Keeps(Comparing) /\ \A q \in Slots : calls'[q] # None => calls'[q].op \in OpsOf(page.name)
  <2>1. x.op \in Questions
    BY <1>1 DEF Questions
  <2>2. PICK s \in Slots : TRUE
    BY <1>8
  <2> QED BY <1>1, <2>1, <2>2, QuestionCalls
<1> QED BY <1>5, <1>6, <1>10, <1>11, GoesOn

\* The packages are read, or are not.
LEMMA DraftsEnd ==
  ASSUME PackingInv, NoneIsNoRecord, NEW s \in Slots, DraftsRead(s) \/ DraftsUnread(s)
  PROVE  PackingInv'
<1>1. calls[s] # None /\ calls[s].op = "drafts" /\ Ends(s, <<>>) /\ UNCHANGED <<page, stored>>
  BY DEF DraftsRead, DraftsUnread, Answer, Failure, InStage
<1>2. page.name \in Includers /\ IncludeInv /\ {"including", "told"} \subseteq DOMAIN view
  BY <1>1, InclusionScreens DEF Questions
<1>3. s \in InFlight(Stepwise)
  BY <1>1 DEF InFlight, Stepwise
<1>4. InFlight(Stepwise)' = {}
  <2>1. InFlight(Stepwise)' = InFlight(Stepwise) \ {s}
    BY <1>1, AskedLess DEF PackingInv, Shaped
  <2> QED BY <1>2, <1>3, <2>1 DEF IncludeInv, AtMostOne
<1>5. CallTable' /\ Keeps(Comparing) /\ \A q \in Slots : calls'[q] # None => calls'[q].op \in OpsOf(page.name)
  <2> DEFINE x == Request("drafts", None, None)
  <2>1. IsRequest(x) /\ x.op \in Questions
    BY Requests DEF Request, Questions
  <2> HIDE DEF x
  <2>2. calls[s].op \in Questions
    BY <1>1 DEF Questions
  <2> QED BY <1>1, <1>2, <2>1, <2>2, QuestionCalls
<1>6. ShelfGrows /\ DOMAIN stored' = DOMAIN stored
  BY <1>1, ChoosingGrows DEF PackingInv
<1>7. CASE DraftsRead(s)
  <2> DEFINE a == calls[s].answer
             e == [view.including EXCEPT !.phase = "picking", !.drafts = a]
  <2>1. view.including # None /\ view.including.phase = "reading" /\ Underway(view.including)
    BY <1>1, <1>2, <1>3 DEF IncludeInv, OfThePhase
  <2>2. view' = [view EXCEPT !.including.phase = "picking", !.including.drafts = a]
    BY <1>7 DEF DraftsRead
  <2> HIDE DEF a
  <2>3. view' = [view EXCEPT !.including = e]
    <3>1. view = [f \in DOMAIN view |-> view[f]]
      BY DEF PackingInv, Shaped
    <3>2. [view EXCEPT !.including.phase = "picking", !.including.drafts = a] = [view EXCEPT !.including = e]
      BY <1>2, <2>1, <3>1 DEF Underway, Inclusion
    <3> QED BY <2>2, <3>2
  <2>4. Underway(e)
    BY <2>1, NextPhase
  <2> HIDE DEF e
  <2>5. InclusionBecomes(e, view.told)
    BY <1>2, <2>3, Becoming DEF BecomesOf
  <2>6. view'.including = e /\ view'.told = view.told
    BY <2>5 DEF InclusionBecomes
  <2>7. IncludeInv'
    <3>1. Underway(view.including)' /\ (view'.told # None => Over(view.told)')
      BY <1>2, <1>6, <2>4, <2>6, StillUnderway DEF IncludeInv
    <3> QED BY <1>4, <3>1, IncludeNext
  <2> QED BY <1>1, <1>2, <1>5, <1>6, <2>5, <2>7, GoesOn
<1>8. CASE DraftsUnread(s)
  BY <1>1, <1>2, <1>4, <1>5, <1>8, InclusionGivenUp DEF DraftsUnread
<1> QED BY <1>7, <1>8

\* A new package is asked for.
LEMMA NewDraftAsked ==
  ASSUME PackingInv, NoneIsNoRecord, PickNewDraft
  PROVE  PackingInv'
<1> DEFINE x == Request("createDraft", None, None)
           w == Min(FreeSlots(calls))
           m == view.including.makes \union {w}
           e == [view.including EXCEPT !.phase = "creating", !.makes = m]
<1>1. /\ PickerOpen /\ Send(<<x>>) /\ UNCHANGED <<page, stored>>
      /\ view' = [view EXCEPT !.including.phase = "creating", !.including.makes = @ \union {w}]
  BY DEF PickNewDraft
<1>2. page.name \in Includers /\ IncludeInv /\ {"including", "told"} \subseteq DOMAIN view
  BY <1>1, InclusionScreens DEF PickerOpen
<1>3. view.including # None /\ view.including.phase \in {"picking", "creating"} /\ Underway(view.including)
  BY <1>1, <1>2 DEF PickerOpen, InPhase, IncludeInv
<1> HIDE DEF w
<1>4. IsRequest(x) /\ x.op = "createDraft"
  BY Requests DEF Request
<1>5. view' = [view EXCEPT !.including = e]
  <2>1. view = [f \in DOMAIN view |-> view[f]]
    BY DEF PackingInv, Shaped
  <2> QED BY <1>1, <1>2, <1>3, <2>1 DEF Underway, Inclusion
<1> HIDE DEF m
<1>6. Underway(e)
  BY <1>3, NextPhase
<1> HIDE DEF x, e
<1>7. InclusionBecomes(e, view.told)
  BY <1>2, <1>5, Becoming DEF BecomesOf
<1>8. \E k \in Slots : InFlight(Stepwise)' = InFlight(Stepwise)
  <2>1. x.op \notin Stepwise /\ CallTable /\ NoneIsNoRequest
    BY <1>4, NoneIsNoneOfThem DEF Stepwise, PackingInv, Shaped
  <2>2. \E k \in Slots : InFlight(Stepwise)' = InFlight(Stepwise) \union {}
    BY <1>1, <1>4, <2>1, AskedMore
  <2> QED BY <2>2
<1>9. InFlight(Stepwise)' = {}
  BY <1>2, <1>3, <1>8, NothingAsked
<1>10. ShelfGrows /\ DOMAIN stored' = DOMAIN stored
  BY <1>1, ChoosingGrows DEF PackingInv
<1>11. IncludeInv'
  <2>1. view'.including = e /\ view'.told = view.told
    BY <1>7 DEF InclusionBecomes
  <2>2. Underway(view.including)' /\ (view'.told # None => Over(view.told)')
    BY <1>2, <1>6, <1>10, <2>1, StillUnderway DEF IncludeInv
  <2> QED BY <1>9, <2>2, IncludeNext
<1>12. CallTable' /\ Keeps(Comparing) /\ \A q \in Slots : calls'[q] # None => calls'[q].op \in OpsOf(page.name)
  <2>1. x.op \in Questions
    BY <1>4 DEF Questions
  <2>2. PICK s \in Slots : TRUE
    BY <1>8
  <2> QED BY <1>1, <1>2, <1>4, <2>1, <2>2, QuestionCalls
<1> QED BY <1>1, <1>2, <1>7, <1>10, <1>11, <1>12, GoesOn

\* The inclusion is given up by hand, or the new package was not made.
LEMMA NothingPicked ==
  ASSUME PackingInv, NoneIsNoRecord, PickNothing \/ \E s \in Slots : DraftNotCreated(s)
  PROVE  PackingInv'
<1>0. CallTable /\ \A q \in Slots : calls[q] # None => calls[q].op \in OpsOf(page.name)
  BY DEF PackingInv, Shaped
<1>1. CASE PickNothing
  <2>1. page.name \in Includers /\ IncludeInv
    BY <1>1, InclusionScreens DEF PickNothing, PickerOpen
  <2>2. InFlight(Stepwise) = {} /\ calls' = calls
    BY <1>1, <2>1, NothingAsked DEF PickNothing, PickerOpen, InPhase
  <2>3. CallTable' /\ Keeps(Comparing) /\ InFlight(Stepwise)' = {}
    BY <1>0, <2>2, AskedSame DEF Keeps
  <2> QED BY <1>0, <1>1, <2>1, <2>2, <2>3, InclusionGivenUp DEF PickNothing
<1>2. ASSUME NEW s \in Slots, DraftNotCreated(s)
      PROVE  PackingInv'
  <2> DEFINE m == view.including.makes \ {s}
             e == [view.including EXCEPT !.phase = "picking", !.makes = m]
             x == Request("createDraft", None, None)
  <2>1. /\ calls[s] # None /\ calls[s].op = "createDraft" /\ Ends(s, <<>>) /\ UNCHANGED <<page, stored>>
        /\ view' = IF AskedHere(s) THEN [view EXCEPT !.including.phase = "picking", !.including.makes = @ \ {s}] ELSE view
    BY <1>2 DEF DraftNotCreated, Failure
  <2>2. page.name \in Includers /\ IncludeInv /\ {"including", "told"} \subseteq DOMAIN view
    BY <2>1, InclusionScreens DEF Questions
  <2>3. CallTable' /\ Keeps(Comparing) /\ \A q \in Slots : calls'[q] # None => calls'[q].op \in OpsOf(page.name)
    <3>1. IsRequest(x) /\ x.op \in Questions /\ calls[s].op \in Questions
      BY <2>1, Requests DEF Request, Questions
    <3> HIDE DEF x
    <3> QED BY <2>1, <2>2, <3>1, QuestionCalls
  <2>4. ShelfGrows /\ DOMAIN stored' = DOMAIN stored
    BY <2>1, ChoosingGrows DEF PackingInv
  <2>5. Keeps(Stepwise)
    <3>1. IsRequest(x) /\ Outside(calls[s], Stepwise)
      BY <2>1, Requests DEF Outside, Stepwise
    <3> HIDE DEF x
    <3> QED BY <1>0, <2>1, <3>1, KeptEnding
  <2>6. CASE ~AskedHere(s)
    <3>1. InclusionBecomes(view.including, view.told)
      BY <2>1, <2>2, <2>6, Becoming DEF BecomesOf
    <3>2. IncludeInv'
      BY <2>1, <2>2, <2>4, <2>5, <2>6, IncludeKept
    <3> QED BY <2>1, <2>2, <2>3, <2>4, <3>1, <3>2, GoesOn
  <2>7. CASE AskedHere(s)
    <3>1. view.including # None /\ view.including.phase \in {"picking", "creating"} /\ Underway(view.including)
      BY <2>2, <2>7 DEF AskedHere, PickerOpen, InPhase, IncludeInv
    <3>2. view' = [view EXCEPT !.including = e]
      <4>1. view = [f \in DOMAIN view |-> view[f]]
        BY DEF PackingInv, Shaped
      <4> QED BY <2>1, <2>2, <2>7, <3>1, <4>1 DEF Underway, Inclusion
    <3> HIDE DEF m
    <3>3. Underway(e)
      BY <3>1, NextPhase
    <3> HIDE DEF e
    <3>4. InclusionBecomes(e, view.told)
      BY <2>2, <3>2, Becoming DEF BecomesOf
    <3>5. InFlight(Stepwise)' = {}
      BY <2>2, <2>5, <3>1, NothingAsked, KeptAsked
    <3>6. IncludeInv'
      <4>1. view'.including = e /\ view'.told = view.told
        BY <3>4 DEF InclusionBecomes
      <4>2. Underway(view.including)' /\ (view'.told # None => Over(view.told)')
        BY <2>2, <2>4, <3>3, <4>1, StillUnderway DEF IncludeInv
      <4> QED BY <3>5, <4>2, IncludeNext
    <3> QED BY <2>1, <2>2, <2>3, <2>4, <3>4, <3>6, GoesOn
  <2> QED BY <2>6, <2>7
<1> QED BY <1>1, <1>2

\* The package is said, or made: what is left goes in, the first of it now (Adding).
LEMMA AddingBegins ==
  ASSUME PackingInv, NoneIsNoRecord, page.name \in Includers, view.including # None,
         view.including.phase \in {"picking", "creating"}, NEW d, NEW s \in Slots,
         \/ Room(1) /\ Adding(calls, d)
         \/ calls[s] # None /\ calls[s].op = "createDraft" /\ Adding(Less(calls, s), d)
  PROVE  PackingInv'
<1>0. /\ IncludeInv /\ {"including", "told"} \subseteq DOMAIN view
      /\ CallTable /\ Shelved /\ view = [f \in DOMAIN view |-> view[f]] /\ NoneIsNoRequest
  BY InclusionScreens, NoneIsNoneOfThem DEF PackingInv, Shaped
<1>1. stored' = [stored EXCEPT !.current = d, !.remembered = d]
  BY DEF Adding, Choose
<1>2. ShelfGrows /\ DOMAIN stored' = DOMAIN stored /\ ("last" \in DOMAIN stored => stored'.last = stored.last)
  BY <1>0, <1>1, ChoosingGrows
<1>3. CASE view.including.left = {}
  <2>1. Elsewhere("area")
    BY <1>3 DEF Adding
  <2> QED BY <1>2, <2>1, PackingLeft
<1>4. CASE view.including.left # {}
  <2> DEFINE c == view.including
             left == c.left
             x == Request("add", d, Min(left))
             e == AddedTo(c, d)
  <2>1. /\ page' = page /\ view' = [view EXCEPT !.including.phase = "adding", !.including.draft = d, !.including.makes = {}]
        /\ \/ Room(1) /\ calls' = Placed(calls, x)
           \/ calls[s] # None /\ calls[s].op = "createDraft" /\ calls' = Placed(Less(calls, s), x)
    BY <1>4 DEF Adding
  <2>2. Underway(view.including) /\ InFlight(Stepwise) = {}
    BY <1>0, NothingAsked DEF IncludeInv
  <2>3. Min(left) \in left
    <3>1. left \in SUBSET Nat
      BY <2>2, PackingAssumption DEF Underway
    <3> QED BY <1>4, <3>1, LeastSlot
  <2>4. IsRequest(x) /\ x.op = "add" /\ x.at = d /\ x.with = Min(left) /\ x.stage = "sent"
    BY Requests DEF Request
  <2>5. Underway(e) /\ e.phase = "adding" /\ e.draft = d /\ e.left = left
    <3>1. Underway(c) /\ c.phase # "adding"
      BY <2>2
    <3> HIDE DEF c
    <3> QED BY <3>1, AddingPhase
  <2>6. view' = [view EXCEPT !.including = e]
    BY <1>0, <2>1, <2>2 DEF Underway, Inclusion, AddedTo
  <2>7. e # None
    BY <2>5, NoneIsNoneOfThem DEF Underway
  <2> HIDE DEF x, e, left
  <2>8. Send(<<x>>) \/ (calls[s] # None /\ calls[s].op = "createDraft" /\ Ends(s, <<x>>))
    <3>1. Room(1) /\ calls' = Placed(calls, x) => Send(<<x>>)
      BY PlusOne DEF Send
    <3>2. calls' = Placed(Less(calls, s), x) => Ends(s, <<x>>)
      BY <1>0, PlacedEnds
    <3> QED BY <2>1, <3>1, <3>2
  <2>9. PICK k \in Slots : calls'[k] = x /\ InFlight(Stepwise)' = {k}
    <3>1. x.op \in Stepwise
      BY <2>4 DEF Stepwise
    <3>2. CASE Send(<<x>>)
      BY <1>0, <2>2, <2>4, <3>1, <3>2, AskedMore
    <3>3. CASE Ends(s, <<x>>)
      BY <1>0, <2>2, <2>4, <3>1, <3>3, AskedInstead
    <3> QED BY <2>8, <3>2, <3>3
  <2>10. CallTable' /\ Keeps(Comparing) /\ \A q \in Slots : calls'[q] # None => calls'[q].op \in OpsOf(page.name)
    <3>1. x.op \in Questions /\ "createDraft" \in Questions
      BY <2>4 DEF Questions
    <3> QED BY <2>4, <2>8, <3>1, QuestionCalls
  <2>11. InclusionBecomes(e, view.told)
    BY <2>6, Becoming DEF BecomesOf
  <2>12. view'.including = e /\ view'.told = view.told
    BY <2>11 DEF InclusionBecomes
  <2>13. IncludeInv'
    <3>1. OfThePhase(calls[k])'
      BY <2>3, <2>4, <2>5, <2>7, <2>9, <2>12 DEF OfThePhase
    <3>2. Underway(view.including)' /\ (view'.told # None => Over(view.told)')
      BY <1>0, <1>2, <2>5, <2>12, StillUnderway DEF IncludeInv
    <3> QED BY <2>9, <3>1, <3>2, IncludeNext
  <2> QED BY <1>2, <2>1, <2>10, <2>11, <2>13, GoesOn
<1> QED BY <1>3, <1>4

AfterItem(c, item, went) ==
  [c EXCEPT !.left = c.left \ {item},
            !.done = IF went THEN @ \union {item} ELSE @,
            !.failed = IF went THEN @ ELSE @ \union {item}]

\* What one more item that went in, or failed, makes of the inclusion.
LEMMA OneItemMore ==
  ASSUME NEW c, Underway(c), NEW item \in c.left, NEW went \in BOOLEAN,
         went => c.draft \in Drafts /\ item \in stored.taken[c.draft], c.phase = "adding"
  PROVE  LET next == AfterItem(c, item, went)
         IN  /\ Underway(next) /\ next.left = c.left \ {item} /\ next.draft = c.draft /\ next.phase = "adding"
             /\ c.left \ {item} = {} => Over(next)
<1> DEFINE left == c.left \ {item}
           done == IF went THEN c.done \union {item} ELSE c.done
           failed == IF went THEN c.failed ELSE c.failed \union {item}
           next == AfterItem(c, item, went)
<1>1. /\ next = [f \in Inclusion |-> next[f]] /\ next.left = left /\ next.done = done /\ next.failed = failed
      /\ next.draft = c.draft /\ next.phase = "adding" /\ next.asked = c.asked
  BY DEF Underway, Inclusion, AfterItem
<1>2. /\ c.asked = done \union failed \union left /\ done \intersect failed = {}
      /\ (done \union failed) \intersect left = {}
  BY DEF Underway
<1>3. done = {} \/ (c.draft \in Drafts /\ done \subseteq stored.taken[c.draft])
  BY DEF Underway, WentIn
<1> HIDE DEF next, left, done, failed
<1>4. Underway(next) /\ (left = {} => Over(next))
  BY <1>1, <1>2, <1>3 DEF Underway, Over, WentIn
<1> QED BY <1>1, <1>4 DEF next, left, done, failed

\* An item is in, or is not, and the next one goes, until all are over (AddEnds).
LEMMA ItemEnds ==
  ASSUME PackingInv, NoneIsNoRecord, NEW s \in Slots, AddEnds(s)
  PROVE  PackingInv'
<1> DEFINE c == view.including
           item == calls[s].with
           left == c.left \ {item}
           x == Request("add", c.draft, Min(left))
<1>1. PICK went \in BOOLEAN :
        /\ calls[s] # None /\ calls[s].op = "add" /\ (went => calls[s].stage = "answered") /\ UNCHANGED stored
        /\ \/ left # {} /\ view' = [view EXCEPT !.including = AfterItem(c, item, went)] /\ Ends(s, <<x>>) /\ UNCHANGED page
           \/ left = {} /\ Tells(s, AfterItem(c, item, went))
  BY Zenon DEF AddEnds, Answer, Failure, InStage, AfterItem
<1> DEFINE next == AfterItem(c, item, went)
<1>2. page.name \in Includers /\ IncludeInv /\ {"including", "told"} \subseteq DOMAIN view
  BY <1>1, InclusionScreens DEF Questions
<1>3. s \in InFlight(Stepwise) /\ CallTable /\ NoneIsNoRequest
  BY <1>1, NoneIsNoneOfThem DEF InFlight, Stepwise, PackingInv, Shaped
<1>4. /\ c # None /\ Underway(c) /\ c.phase = "adding" /\ item \in c.left
      /\ went => c.draft \in Drafts /\ item \in stored.taken[c.draft]
  BY <1>1, <1>2, <1>3 DEF IncludeInv, OfThePhase
<1>5. /\ Underway(next) /\ next.left = left /\ next.draft = c.draft /\ next.phase = "adding"
      /\ left = {} => Over(next)
  <2> HIDE DEF c, item
  <2> QED BY <1>4, OneItemMore
<1>6. InFlight(Stepwise) \ {s} = {}
  BY <1>2, <1>3 DEF IncludeInv, AtMostOne
<1>7. ShelfGrows /\ DOMAIN stored' = DOMAIN stored
  BY <1>1, ChoosingGrows DEF PackingInv
<1>8. IsRequest(x) /\ x.op = "add" /\ x.at = c.draft /\ x.with = Min(left) /\ x.stage = "sent"
  BY Requests DEF Request
<1>9. next # None
  BY <1>5, NoneIsNoneOfThem DEF Underway
<1>10. left # {} => Min(left) \in left
  <2>1. left \in SUBSET Nat
    BY <1>4, PackingAssumption DEF Underway
  <2> QED BY <2>1, LeastSlot
<1> HIDE DEF x, next, left
<1>0. CASE left = {} /\ TellsAndLeaves(next)
  BY <1>0, <1>5, <1>7, SaidAndLeft
<1> SUFFICES ASSUME ~(left = {} /\ TellsAndLeaves(next))
             PROVE  PackingInv'
  BY <1>0
<1>11. /\ page' = page
       /\ \/ left # {} /\ view' = [view EXCEPT !.including = next] /\ Ends(s, <<x>>)
          \/ left = {} /\ view' = [Abandoned EXCEPT !.told = next] /\ Ends(s, <<>>)
  BY <1>1 DEF Tells, TellsAndStays, x, next, left
<1>12. CallTable' /\ Keeps(Comparing) /\ \A q \in Slots : calls'[q] # None => calls'[q].op \in OpsOf(page.name)
  <2>1. x.op \in Questions /\ calls[s].op \in Questions
    BY <1>1, <1>8 DEF Questions
  <2> QED BY <1>1, <1>2, <1>8, <1>11, <2>1, QuestionCalls
<1>13. CASE left # {}
  <2>1. PICK k \in Slots : calls'[k] = x /\ InFlight(Stepwise)' = {k}
    <3>1. x.op \in Stepwise /\ Ends(s, <<x>>)
      BY <1>8, <1>11, <1>13 DEF Stepwise
    <3> QED BY <1>3, <1>6, <1>8, <3>1, AskedInstead
  <2>2. InclusionBecomes(next, view.told)
    BY <1>2, <1>11, <1>13, Becoming DEF BecomesOf
  <2>3. view'.including = next /\ view'.told = view.told
    BY <2>2 DEF InclusionBecomes
  <2>4. IncludeInv'
    <3>1. OfThePhase(calls[k])'
      BY <1>5, <1>8, <1>9, <1>10, <1>13, <2>1, <2>3 DEF OfThePhase
    <3>2. Underway(view.including)' /\ (view'.told # None => Over(view.told)')
      BY <1>2, <1>5, <1>7, <2>3, StillUnderway DEF IncludeInv
    <3> QED BY <2>1, <3>1, <3>2, IncludeNext
  <2> QED BY <1>1, <1>11, <1>2, <1>7, <1>12, <2>2, <2>4, GoesOn
<1>14. CASE left = {}
  <2>1. InFlight(Stepwise)' = {}
    BY <1>3, <1>6, <1>11, <1>14, AskedLess
  <2>2. BecomesOf(None, next)
    <3>1. CASE OnPicks
      BY <1>11, <1>14, <3>1 DEF BecomesOf, Abandoned, OnPicks
    <3>2. CASE ~OnPicks
      <4>1. view' = [[view EXCEPT !.including = None] EXCEPT !.told = next]
        BY <1>11, <1>14, <3>2 DEF Abandoned, OnPicks
      <4>2. [[view EXCEPT !.including = None] EXCEPT !.told = next] = [view EXCEPT !.including = None, !.told = next]
        OBVIOUS
      <4> QED BY <4>1, <4>2 DEF BecomesOf
    <3> QED BY <3>1, <3>2
  <2>3. InclusionBecomes(None, next)
    BY <1>2, <2>2, Becoming
  <2>4. view'.including = None /\ view'.told = next
    BY <2>3 DEF InclusionBecomes
  <2>5. IncludeInv'
    <3>1. view'.told # None => Over(view.told)'
      BY <1>5, <1>7, <1>14, <2>4, StillUnderway
    <3> QED BY <2>1, <2>4, <3>1, IncludeNext
  <2> QED BY <1>1, <1>11, <1>2, <1>7, <1>12, <2>3, <2>5, GoesOn
<1> QED BY <1>13, <1>14

\* The package is said, or was made.
LEMMA PackageSaid ==
  ASSUME PackingInv, NoneIsNoRecord, (\E d \in Drafts : PickDraft(d)) \/ \E s \in Slots : DraftCreated(s)
  PROVE  PackingInv'
<1>1. ASSUME NEW d \in Drafts, PickDraft(d)
      PROVE  PackingInv'
  <2>1. InPhase("picking") /\ Room(1) /\ Adding(calls, d)
    BY <1>1 DEF PickDraft
  <2>2. page.name \in Includers /\ view.including # None /\ view.including.phase = "picking"
    BY <2>1, InclusionScreens DEF InPhase
  <2>3. CallTable
    BY DEF PackingInv, Shaped
  <2>4. PICK s \in Slots : TRUE
    <3>1. FreeSlots(calls) # {}
      BY <2>1, <2>3, RoomIsFree
    <3> QED BY <2>3, <3>1 DEF FreeSlots, CallTable
  <2> QED BY <2>1, <2>2, <2>4, AddingBegins
<1>2. ASSUME NEW s \in Slots, DraftCreated(s)
      PROVE  PackingInv'
  <2>1. calls[s] # None /\ calls[s].op = "createDraft"
    BY <1>2 DEF DraftCreated, Answer, InStage
  <2>2. page.name \in Includers /\ IncludeInv
    BY <2>1, InclusionScreens DEF Questions
  <2>3. CASE AskedHere(s)
    <3>1. view.including # None /\ view.including.phase \in {"picking", "creating"}
      BY <2>3 DEF AskedHere, PickerOpen, InPhase
    <3>2. Adding(Less(calls, s), calls[s].answer)
      BY <1>2, <2>3 DEF DraftCreated
    <3> QED BY <2>1, <2>2, <3>1, <3>2, AddingBegins
  <2>4. CASE ~AskedHere(s)
    <3> DEFINE x == Request("createDraft", None, None)
    <3>1. Ends(s, <<>>) /\ UNCHANGED <<page, view, stored>>
      BY <1>2, <2>4 DEF DraftCreated
    <3>2. IsRequest(x) /\ x.op \in Questions /\ calls[s].op \in Questions /\ Outside(calls[s], Stepwise)
      BY <2>1, Requests DEF Request, Questions, Outside, Stepwise
    <3> HIDE DEF x
    <3>3. CallTable' /\ Keeps(Comparing) /\ \A q \in Slots : calls'[q] # None => calls'[q].op \in OpsOf(page.name)
      BY <2>1, <2>2, <3>1, <3>2, QuestionCalls
    <3>4. Keeps(Stepwise)
      BY <3>1, <3>2, KeptEnding DEF PackingInv, Shaped
    <3>5. ShelfGrows /\ DOMAIN stored' = DOMAIN stored
      BY <3>1, ChoosingGrows DEF PackingInv
    <3>6. InclusionBecomes(view.including, view.told)
      BY <2>2, <3>1, Becoming DEF BecomesOf
    <3>7. IncludeInv'
      BY <2>2, <3>1, <3>4, <3>5, IncludeKept
    <3> QED BY <2>2, <3>1, <3>3, <3>5, <3>6, <3>7, GoesOn
  <2> QED BY <2>3, <2>4
<1> QED BY <1>1, <1>2

\* What the service makes of what it is asked for about packages (DraftEffect).
LEMMA EffectGrows ==
  ASSUME Shelved, NEW c, c.op \in DraftReads \union DraftWrites, ~DraftRefuses(c), stored' = DraftEffect(c)
  PROVE  /\ ShelfGrows /\ DOMAIN stored' = DOMAIN stored /\ ("last" \in DOMAIN stored => stored'.last = stored.last)
         /\ c.op = "add" => c.at \in Drafts /\ c.with \in stored'.taken[c.at]
<1>0. /\ stored = [f \in DOMAIN stored |-> stored[f]] /\ stored.open \subseteq Drafts /\ stored.used \subseteq Drafts
      /\ {"open", "used", "taken", "area", "name"} \subseteq DOMAIN stored /\ stored.taken = [d \in Drafts |-> stored.taken[d]]
  BY DEF Shelved
<1>a. ASSUME stored' = [f \in DOMAIN stored |-> stored'[f]],
             \A f \in DOMAIN stored \ {"area", "name", "open", "used"} : stored'[f] = stored[f],
             stored'.open \subseteq Drafts, stored'.used \subseteq Drafts
      PROVE  ShelfGrows /\ DOMAIN stored' = DOMAIN stored /\ ("last" \in DOMAIN stored => stored'.last = stored.last)
  <2>1. stored'.taken = stored.taken /\ DOMAIN stored' = DOMAIN stored /\ ("last" \in DOMAIN stored => stored'.last = stored.last)
    BY <1>0, <1>a
  <2> QED BY <1>0, <1>a, <2>1 DEF ShelfGrows, Shelved
<1>1. CASE c.op \in {"add", "addScript"}
  <2> DEFINE area == [stored.area EXCEPT ![c.at] = @ \union {c.with}]
             taken == [stored.taken EXCEPT ![c.at] = @ \union {c.with}]
  <2>1. stored' = [stored EXCEPT !.area[c.at] = @ \union {c.with}, !.taken[c.at] = @ \union {c.with}]
    BY <1>1 DEF DraftEffect
  <2>2. stored' = [stored EXCEPT !.area = area, !.taken = taken]
    BY <1>0, <2>1
  <2>3. c.at \in Drafts
    BY <1>0, <1>1 DEF DraftRefuses
  <2>4. /\ taken = [d \in Drafts |-> taken[d]] /\ \A d \in Drafts : stored.taken[d] \subseteq taken[d]
        /\ c.with \in taken[c.at]
    BY <1>0, <2>3
  <2> HIDE DEF area, taken
  <2>5. /\ stored' = [f \in DOMAIN stored |-> stored'[f]] /\ stored'.taken = taken /\ stored'.open = stored.open
        /\ stored'.used = stored.used /\ ("last" \in DOMAIN stored => stored'.last = stored.last)
    BY <1>0, <2>2
  <2>6. ShelfGrows
    BY <1>0, <2>4, <2>5 DEF ShelfGrows, Shelved
  <2> QED BY <2>3, <2>4, <2>5, <2>6
<1>2. CASE c.op = "remove"
  <2> DEFINE area == [stored.area EXCEPT ![c.at] = @ \ {c.with}]
  <2>1. stored' = [stored EXCEPT !.area = area]
    BY <1>0, <1>2 DEF DraftEffect
  <2> HIDE DEF area
  <2> QED BY <1>0, <1>2, <1>a, <2>1
<1>3. CASE c.op = "createDraft"
  <2> DEFINE d == Min(Drafts \ stored.used)
  <2>1. stored' = [stored EXCEPT !.open = @ \union {d}, !.used = @ \union {d}]
    BY <1>3 DEF DraftEffect
  <2>2. Drafts # stored.used
    BY <1>3 DEF DraftRefuses
  <2>3. d \in Drafts
    <3>1. Drafts \ stored.used # {} /\ Drafts \ stored.used \in SUBSET Nat
      BY <1>0, <2>2, PackingAssumption
    <3> QED BY <3>1, LeastSlot
  <2> HIDE DEF d
  <2>4. /\ stored' = [f \in DOMAIN stored |-> stored'[f]]
        /\ stored'.open = stored.open \union {d} /\ stored'.used = stored.used \union {d}
        /\ \A f \in DOMAIN stored \ {"area", "name", "open", "used"} : stored'[f] = stored[f]
    BY <1>0, <2>1
  <2>5. ShelfGrows /\ DOMAIN stored' = DOMAIN stored /\ ("last" \in DOMAIN stored => stored'.last = stored.last)
    BY <1>0, <1>a, <2>3, <2>4
  <2> QED BY <1>3, <2>5
<1>4. CASE c.op = "changeDraft"
  <2> DEFINE name == [stored.name EXCEPT ![c.at] = c.with]
  <2>1. stored' = [stored EXCEPT !.name = name]
    BY <1>0, <1>4 DEF DraftEffect
  <2> HIDE DEF name
  <2> QED BY <1>0, <1>4, <1>a, <2>1
<1>5. CASE c.op \in {"deleteDraft", "close"}
  <2> DEFINE area == [stored.area EXCEPT ![c.at] = {}]
  <2>1. stored' = [stored EXCEPT !.open = @ \ {c.at}, !.area = area]
    BY <1>0, <1>5 DEF DraftEffect, Shut
  <2> HIDE DEF area
  <2> QED BY <1>0, <1>5, <1>a, <2>1
<1>6. CASE c.op \in DraftReads \union {"importPackage"}
  <2>1. stored' = stored
    BY <1>6 DEF DraftEffect, DraftReads
  <2> QED BY <1>0, <1>6, <1>a, <2>1 DEF DraftReads
<1> QED BY <1>1, <1>2, <1>3, <1>4, <1>5, <1>6 DEF DraftWrites

\* Which packages are open changes, and everything else of the screens stays.
LEMMA ServiceGoesOn ==
  ASSUME PackingInv, page.name \in IncludingPages, UNCHANGED <<page, view>>,
         CallTable', Keeps(Comparing), \A q \in Slots : calls'[q] # None => calls'[q].op \in OpsOf(page.name),
         ShelfGrows, DOMAIN stored' = DOMAIN stored, "last" \in DOMAIN stored => stored'.last = stored.last,
         IncludeInv'
  PROVE  PackingInv'
<1>1. Shaped'
  BY DEF PackingInv, Shaped, IncludingPages
<1>2. OnCompare => CompareInv'
  <2> SUFFICES ASSUME OnCompare
               PROVE  CompareInv'
    OBVIOUS
  <2>1. CompareInv
    BY DEF PackingInv
  <2>2. "last" \in DOMAIN stored' /\ stored'.last = stored.last
    BY <2>1 DEF CompareInv
  <2> QED BY <2>1, <2>2, CompareKept
<1> QED BY <1>1, <1>2 DEF PackingInv, ShelfGrows, IncludingPages, OnPicks, OnCompare, OnObjects, OnArea

\* The service does what it is asked about packages, or refuses.
LEMMA DraftServedKeeps ==
  ASSUME PackingInv, NoneIsNoRecord, NEW s \in Slots, DraftServed(s)
  PROVE  PackingInv'
<1>0. CallTable /\ NoneIsNoRequest /\ Shelved /\ \A q \in Slots : calls[q] # None => calls[q].op \in OpsOf(page.name)
  BY NoneIsNoneOfThem DEF PackingInv, Shaped
<1> DEFINE c == calls[s]
<1>1. /\ c # None /\ c.op \in DraftReads \union DraftWrites
      /\ \/ Refuse(s)
         \/ ~DraftRefuses(c) /\ \E answer : Serve(s, answer, DraftEffect(c))
  BY DEF DraftServed, InStage
<1>2. page.name \in IncludingPages
  <2>1. \A op \in DraftReads \union DraftWrites : op \in OpsOf(page.name) => page.name \in IncludingPages
    BY DEF DraftReads, DraftWrites, OpsOf, IncludingPages
  <2> QED BY <1>0, <1>1, <2>1
<1>3. /\ Serves(s, calls'[s]) /\ UNCHANGED <<page, view>>
      /\ IsRequest(calls'[s]) /\ calls'[s].op = c.op /\ calls'[s].at = c.at /\ calls'[s].with = c.with
      /\ \/ stored' = stored /\ calls'[s].stage = "refused"
         \/ ~DraftRefuses(c) /\ stored' = DraftEffect(c)
  <2>1. CASE Refuse(s)
    BY <1>0, <1>1, <2>1, Serving DEF ServedAs
  <2>2. ASSUME NEW answer, ~DraftRefuses(c), Serve(s, answer, DraftEffect(c))
        PROVE  <1>3
    <3> DEFINE e == DraftEffect(c)
    <3> HIDE DEF e
    <3>1. /\ Serves(s, calls'[s]) /\ ServedAs(calls'[s], calls[s], "answered", answer)
          /\ stored' = e /\ UNCHANGED <<page, view>>
      BY <1>0, <1>1, <2>2, Serving DEF e
    <3> QED BY <2>2, <3>1 DEF e, ServedAs
  <2> QED BY <1>1, <2>1, <2>2
<1>4. /\ ShelfGrows /\ DOMAIN stored' = DOMAIN stored /\ ("last" \in DOMAIN stored => stored'.last = stored.last)
      /\ c.op = "add" /\ calls'[s].stage = "answered" => c.at \in Drafts /\ c.with \in stored'.taken[c.at]
  <2>1. CASE stored' = stored /\ calls'[s].stage = "refused"
    <3>1. ShelfGrows /\ DOMAIN stored' = DOMAIN stored
      BY <1>0, <2>1 DEF ShelfGrows, Shelved
    <3>2. calls'[s].stage # "answered"
      BY <2>1
    <3> QED BY <2>1, <3>1, <3>2
  <2>2. CASE ~DraftRefuses(c) /\ stored' = DraftEffect(c)
    <3> HIDE DEF c
    <3> QED BY <1>0, <1>1, <2>2, EffectGrows
  <2> QED BY <1>3, <2>1, <2>2
<1> HIDE DEF c
<1>5. CallTable' /\ calls'[s] # None /\ \A q \in Slots \ {s} : calls'[q] = calls[q]
  BY <1>0, <1>3 DEF Serves, NoneIsNoRequest
<1>6. Keeps(Comparing)
  <2>1. c.op \notin Comparing
    BY <1>1 DEF DraftReads, DraftWrites, Comparing
  <2> QED BY <1>0, <1>1, <1>3, <2>1, KeptServing DEF c
<1>7. \A q \in Slots : calls'[q] # None => calls'[q].op \in OpsOf(page.name)
  BY <1>0, <1>1, <1>3, <1>5 DEF c
<1>8. IncludeInv'
  <2>1. IncludeInv
    BY <1>2 DEF PackingInv
  <2>2. InFlight(Stepwise)' = InFlight(Stepwise)
    BY <1>1, <1>3, <1>5 DEF InFlight, c
  <2>3. \A q \in InFlight(Stepwise)' : OfThePhase(calls[q])'
    <3>1. TAKE q \in InFlight(Stepwise)'
    <3>2. OfThePhase(calls[q])
      BY <2>1, <2>2 DEF IncludeInv
    <3>3. CASE q = s
      BY <1>3, <1>4, <3>2, <3>3 DEF OfThePhase, c
    <3>4. CASE q # s
      <4>1. calls'[q] = calls[q] /\ q \in Slots
        BY <1>5, <3>4 DEF InFlight
      <4> QED BY <1>3, <1>4, <3>2, <4>1 DEF OfThePhase, ShelfGrows
    <3> QED BY <3>3, <3>4
  <2>4. /\ view'.including # None => Underway(view.including)'
        /\ view'.told # None => Over(view.told)'
    BY <1>3, <1>4, <2>1, StillUnderway DEF IncludeInv
  <2> QED BY <2>1, <2>2, <2>3, <2>4 DEF IncludeInv
<1> QED BY <1>2, <1>3, <1>4, <1>5, <1>6, <1>7, <1>8, ServiceGoesOn

\* Somebody else closes a package.
LEMMA ShutKeeps ==
  ASSUME PackingInv, NEW d \in Drafts, ShutElsewhere(d)
  PROVE  PackingInv'
<1>1. page.name \in IncludingPages /\ UNCHANGED <<page, view, calls>> /\ stored' = Shut(d)
  BY DEF ShutElsewhere, IncludingPages
<1> DEFINE area == [stored.area EXCEPT ![d] = {}]
<1>2. Shelved /\ CallTable /\ \A q \in Slots : calls[q] # None => calls[q].op \in OpsOf(page.name)
  BY DEF PackingInv, Shaped
<1>3. stored' = [stored EXCEPT !.open = @ \ {d}, !.area = area]
  BY <1>1, <1>2 DEF Shut, Shelved
<1> HIDE DEF area
<1>4. /\ stored' = [f \in DOMAIN stored |-> stored'[f]] /\ stored'.open \subseteq stored.open /\ stored'.used = stored.used
      /\ stored'.taken = stored.taken /\ ("last" \in DOMAIN stored => stored'.last = stored.last)
  BY <1>2, <1>3 DEF Shelved
<1>5. ShelfGrows
  BY <1>2, <1>4 DEF ShelfGrows, Shelved
<1>6. CallTable' /\ Keeps(Comparing) /\ Keeps(Stepwise)
  BY <1>1, <1>2 DEF CallTable, Keeps
<1>7. IncludeInv'
  BY <1>1, <1>5, <1>6, IncludeKept DEF PackingInv
<1> QED BY <1>1, <1>2, <1>4, <1>5, <1>6, <1>7, ServiceGoesOn

\* A package is made from the list, or what was picked goes in one.
LEMMA InclusionAsked ==
  ASSUME PackingInv, NoneIsNoRecord, CreatePackage \/ IncludePicked
  PROVE  PackingInv'
<1>0. Shelved
  BY DEF PackingInv
<1>1. CASE CreatePackage
  <2>1. /\ page.name \in Includers /\ page' = page /\ view.including = None /\ IncludeInto(view, {}) /\ stored' = stored
        /\ {} \in SUBSET Objects
    BY <1>1 DEF CreatePackage, OnPackages, Includers
  <2> QED BY <1>0, <2>1, IncludeBegins DEF Shelved
<1>2. CASE IncludePicked
  <2>1. /\ (OnPicks \/ OnCompare) /\ page' = page /\ view.including = None /\ IncludeInto(view, view.picked)
        /\ (stored' = stored \/ stored' = [stored EXCEPT !.runs = @ + 1])
    BY <1>2 DEF IncludePicked, Free, OneMoreRun
  <2>2. page.name \in Includers /\ view.picked \in SUBSET Objects
    BY <2>1 DEF OnPicks, OnCompare, Includers, PackingInv
  <2>3. /\ stored' = [f \in DOMAIN stored |-> stored'[f]] /\ DOMAIN stored' = DOMAIN stored
        /\ \A f \in DOMAIN stored \ {"runs"} : stored'[f] = stored[f]
    BY <1>0, <2>1 DEF Shelved
  <2> DEFINE items == view.picked
  <2>4. items \in SUBSET Objects /\ IncludeInto(view, items)
    BY <2>1, <2>2
  <2> HIDE DEF items
  <2> QED BY <2>1, <2>2, <2>3, <2>4, IncludeBegins
<1> QED BY <1>1, <1>2

-----------------------------------------------------------------------------
(* The comparison *)

\* A step of the page of the comparison, beside the inclusion.
LEMMA ComparePage ==
  ASSUME PackingInv, OnCompare, page' = page, SameInclusion, ShelfGrows, view'.picked \in SUBSET Objects,
         CallTable', Keeps(Stepwise), \A q \in Slots : calls'[q] # None => calls'[q].op \in OpsOf("compare"),
         CompareInv'
  PROVE  PackingInv'
<1>1. IncludeInv'
  BY IncludeKept DEF PackingInv, SameInclusion, IncludingPages, OnCompare
<1>2. Shaped'
  BY DEF PackingInv, Shaped, SameInclusion, OnCompare
<1> QED BY <1>1, <1>2 DEF PackingInv, ShelfGrows, OnPicks, OnCompare, OnObjects, OnArea

\* What the page of the comparison is made of.
LEMMA CompareFields ==
  ASSUME PackingInv, OnCompare
  PROVE  /\ view = [f \in DOMAIN view |-> view[f]]
         /\ DOMAIN view = {"route", "result", "compared", "loadingLast", "busy", "picked", "opened", "including", "told"}
         /\ CompareInv /\ CallTable /\ view.picked \in SUBSET Objects /\ Shelved
         /\ \A q \in Slots : calls[q] # None => calls[q].op \in OpsOf("compare")
         /\ {"lastComparison", "compare", "open"} \subseteq OpsOf("compare")
         /\ stored' = stored => ShelfGrows
BY DEF PackingInv, Shaped, OnCompare, FieldsOf, OpsOf, Shelved, ShelfGrows

OnlyRows ==
  /\ view' = [f \in DOMAIN view |-> view'[f]]
  /\ \A f \in DOMAIN view \ {"picked", "opened"} : view'[f] = view[f]

\* Rows are picked, opened and read.
LEMMA RowSteps ==
  ASSUME PackingInv, OnCompare,
         \/ \E o \in Objects : (ToggleRow(o) \/ Pick(o))
         \/ Suggest
         \/ \E s \in Slots : RowRead(s)
  PROVE  PackingInv'
<1>0. /\ view = [f \in DOMAIN view |-> view[f]]
      /\ DOMAIN view = {"route", "result", "compared", "loadingLast", "busy", "picked", "opened", "including", "told"}
      /\ CompareInv /\ CallTable /\ view.picked \in SUBSET Objects
      /\ \A q \in Slots : calls[q] # None => calls[q].op \in OpsOf("compare")
      /\ {"lastComparison", "compare", "open"} \subseteq OpsOf("compare")
      /\ stored' = stored => ShelfGrows
  BY CompareFields
<1>a. ASSUME page' = page, stored' = stored, OnlyRows, view'.picked \in SUBSET Objects, CallTable', Keeps(Stepwise), Keeps(Comparing),
             \A q \in Slots : calls'[q] # None => calls'[q].op \in OpsOf("compare")
      PROVE  PackingInv'
  <2>1. /\ SameInclusion /\ view'.route = view.route /\ view'.result = view.result
        /\ view'.compared = view.compared /\ view'.busy = view.busy
    BY <1>0, <1>a DEF SameInclusion, OnlyRows
  <2>2. CompareInv'
    BY <1>0, <1>a, <2>1, CompareKept DEF CompareInv
  <2> QED BY <1>0, <1>a, <2>1, <2>2, ComparePage
<1>b. \A q : q \in {Stepwise, Comparing} => "open" \notin q
  BY DEF Stepwise, Comparing
<1>1. ASSUME NEW o \in Objects, ToggleRow(o)
      PROVE  PackingInv'
  <2> DEFINE x == Request("open", view.compared, o)
  <2>1. PICK rows : view' = [view EXCEPT !.opened = rows]
    BY <1>1 DEF ToggleRow
  <2>2. page' = page /\ stored' = stored /\ (calls' = calls \/ Send(<<x>>)) /\ IsRequest(x) /\ x.op = "open"
    BY <1>1, Requests DEF ToggleRow, Request
  <2> HIDE DEF x
  <2>3. /\ CallTable' /\ Keeps(Stepwise) /\ Keeps(Comparing)
        /\ \A q \in Slots : calls'[q] # None => calls'[q].op \in OpsOf("compare")
    <3>1. CASE calls' = calls
      BY <1>0, <3>1 DEF CallTable, Keeps
    <3>2. CASE Send(<<x>>)
      BY <1>0, <1>b, <2>2, <3>2, KeptSending
    <3> QED BY <2>2, <3>1, <3>2
  <2>4. OnlyRows /\ view'.picked = view.picked
    BY <1>0, <2>1 DEF OnlyRows
  <2> QED BY <1>0, <1>a, <2>2, <2>3, <2>4
<1>2. ASSUME NEW o \in Objects, Pick(o)
      PROVE  PackingInv'
  <2> DEFINE a == IF o \in view.picked THEN view.picked \ {o} ELSE view.picked \union {o}
  <2>1. view' = [view EXCEPT !.picked = a] /\ UNCHANGED <<page, calls, stored>> /\ a \in SUBSET Objects
    BY <1>0, <1>2 DEF Pick
  <2> HIDE DEF a
  <2>2. OnlyRows /\ view'.picked = a
    BY <1>0, <2>1 DEF OnlyRows
  <2>3. CallTable' /\ Keeps(Stepwise) /\ Keeps(Comparing)
    BY <1>0, <2>1 DEF CallTable, Keeps
  <2> QED BY <1>0, <1>a, <2>1, <2>2, <2>3
<1>3. CASE Suggest
  <2> DEFINE a == view.result.can
  <2>1. view' = [view EXCEPT !.picked = a] /\ UNCHANGED <<page, calls, stored>> /\ a \in SUBSET Objects
    BY <1>0, <1>3 DEF Suggest, CompareInv, KeptOf
  <2> HIDE DEF a
  <2>2. OnlyRows /\ view'.picked = a
    BY <1>0, <2>1 DEF OnlyRows
  <2>3. CallTable' /\ Keeps(Stepwise) /\ Keeps(Comparing)
    BY <1>0, <2>1 DEF CallTable, Keeps
  <2> QED BY <1>0, <1>a, <2>1, <2>2, <2>3
<1>4. ASSUME NEW s \in Slots, RowRead(s)
      PROVE  PackingInv'
  <2> DEFINE x == Request("open", None, None)
  <2>1. PICK rows : view' = [view EXCEPT !.opened = rows]
    BY <1>4 DEF RowRead
  <2>2. /\ page' = page /\ stored' = stored /\ Ends(s, <<>>) /\ calls[s].op = "open" /\ IsRequest(x)
    BY <1>4, Requests DEF RowRead, Answer, Failure, InStage
  <2> HIDE DEF x
  <2>3. /\ CallTable' /\ Keeps(Stepwise) /\ Keeps(Comparing)
        /\ \A q \in Slots : calls'[q] # None => calls'[q].op \in OpsOf("compare")
    BY <1>0, <1>b, <2>2, KeptEnding DEF Outside
  <2>4. OnlyRows /\ view'.picked = view.picked
    BY <1>0, <2>1 DEF OnlyRows
  <2> QED BY <1>0, <1>a, <2>2, <2>3, <2>4
<1> QED BY <1>1, <1>2, <1>3, <1>4

\* A row is read, or is not.
LEMMA RowsRead ==
  ASSUME PackingInv, NEW s \in Slots, RowRead(s)
  PROVE  PackingInv'
<1>1. calls[s] # None /\ calls[s].op = "open"
  BY DEF RowRead, Answer, Failure, InStage
<1>2. "open" \in OpsOf(page.name) => page.name = "compare"
  BY DEF OpsOf
<1>3. OnCompare
  BY <1>1, <1>2 DEF PackingInv, Shaped, OnCompare
<1> QED BY <1>3, RowSteps

\* Something is picked, of the list of the objects or of a comparison.
LEMMA Picked ==
  ASSUME PackingInv, NEW o \in Objects, Pick(o)
  PROVE  PackingInv'
<1> DEFINE a == IF o \in view.picked THEN view.picked \ {o} ELSE view.picked \union {o}
<1>1. (OnPicks \/ OnCompare) /\ view' = [view EXCEPT !.picked = a] /\ UNCHANGED <<page, calls, stored>>
  BY DEF Pick, Pickable
<1>2. CASE OnCompare
  BY <1>2, RowSteps
<1>3. CASE OnPicks
  <2>1. a \in SUBSET Objects /\ view = [f \in DOMAIN view |-> view[f]] /\ DOMAIN view = {"picked", "including", "told"}
    BY <1>3 DEF PackingInv, Shaped, OnPicks, FieldsOf
  <2> HIDE DEF a
  <2>2. /\ view' = [f \in DOMAIN view |-> view'[f]] /\ view'.including = view.including /\ view'.told = view.told
        /\ view'.picked = a
    BY <1>1, <2>1
  <2>3. IncludeInv /\ page.name = "picks" /\ CallTable /\ Shelved
    BY <1>3 DEF PackingInv, OnPicks, IncludingPages, Shaped
  <2>4. ShelfGrows /\ Keeps(Stepwise) /\ CallTable'
    BY <1>1, <2>3 DEF ShelfGrows, Shelved, Keeps, CallTable
  <2>5. IncludeInv'
    BY <2>2, <2>3, <2>4, IncludeKept
  <2>6. Shaped'
    <3>1. page' = page /\ calls' = calls /\ DOMAIN view' = FieldsOf("picks")
      BY <1>1, <2>1 DEF FieldsOf
    <3> QED BY <2>2, <2>3, <2>4, <3>1 DEF PackingInv, Shaped
  <2> QED BY <1>1, <2>1, <2>2, <2>3, <2>4, <2>5, <2>6 DEF PackingInv, ShelfGrows, OnPicks, OnCompare, OnObjects, OnArea
<1> QED BY <1>1, <1>2, <1>3

\* While the screen is not busy no comparison is made, and what is asked for of the ones that
\* were kept is of an environment whatever is chosen.
LEMMA NotBusy ==
  ASSUME CompareInv, ~view.busy
  PROVE  InFlight({"compare"}) = {} /\ \A q \in InFlight(Comparing) : calls[q].op = "lastComparison"
<1>1. \A q \in InFlight(Comparing) : calls[q].op # "compare"
  BY DEF CompareInv, OfTheRoute, InFlight
<1> QED BY <1>1 DEF InFlight, Comparing

OfKept(c) == c.at \in Routes /\ (c.stage = "answered" => c.answer = None \/ KeptOf(c.answer, c.at))

\* What is asked for of a comparison that was kept does not depend on the screen.
LEMMA OfAnyScreen ==
  ASSUME NEW c, c.op = "lastComparison"
  PROVE  (OfTheRoute(c) <=> OfKept(c)) /\ (OfTheRoute(c)' <=> OfKept(c))
BY DEF OfTheRoute, OfKept, KeptOf

\* Another environment is chosen: the comparison that was kept is asked for.
LEMMA RouteChosen ==
  ASSUME PackingInv, NoneIsNoRecord, NEW r \in Routes, ChooseRoute(r)
  PROVE  PackingInv'
<1> DEFINE x == Request("lastComparison", r, None)
<1>0. /\ OnCompare /\ ~view.busy /\ page' = page /\ Send(<<x>>)
      /\ stored' = [stored EXCEPT !.crossed = RowsOnTheWay]
      /\ view' = [view EXCEPT !.route = r, !.result = None, !.picked = {}, !.opened = <<>>, !.loadingLast = TRUE]
  BY DEF ChooseRoute
<1>1. IsRequest(x) /\ x.op = "lastComparison" /\ x.at = r /\ x.stage = "sent"
  BY Requests DEF Request
<1> HIDE DEF x
<1>2. /\ view = [f \in DOMAIN view |-> view[f]]
      /\ DOMAIN view = {"route", "result", "compared", "loadingLast", "busy", "picked", "opened", "including", "told"}
      /\ CompareInv /\ CallTable
      /\ \A q \in Slots : calls[q] # None => calls[q].op \in OpsOf("compare")
      /\ {"lastComparison", "compare", "open"} \subseteq OpsOf("compare")
      /\ Shelved /\ NoneIsNoRequest
  BY <1>0, CompareFields, NoneIsNoneOfThem
<1>3. /\ SameInclusion /\ view'.picked = {} /\ view'.route = r /\ view'.result = None /\ view'.busy = view.busy
  BY <1>0, <1>2 DEF SameInclusion
<1>4. /\ CallTable' /\ Keeps(Stepwise)
      /\ \A q \in Slots : calls'[q] # None => calls'[q].op \in OpsOf("compare")
  <2>1. x.op \notin Stepwise
    BY <1>1 DEF Stepwise
  <2> QED BY <1>0, <1>1, <1>2, <2>1, KeptSending
<1>5. PICK k \in Slots : /\ calls[k] = None /\ calls'[k] = x /\ \A q \in Slots \ {k} : calls'[q] = calls[q]
                         /\ InFlight({"compare"})' = InFlight({"compare"})
                         /\ InFlight(Comparing)' = InFlight(Comparing) \union {k}
  <2>1. x.op \notin {"compare"} /\ x.op \in Comparing
    BY <1>1 DEF Comparing
  <2>2. PICK k \in Slots : /\ calls[k] = None /\ calls'[k] = x /\ \A q \in Slots \ {k} : calls'[q] = calls[q]
                           /\ \A ops : InFlight(ops)' = InFlight(ops) \union (IF x.op \in ops THEN {k} ELSE {})
    BY <1>0, <1>1, <1>2, AskedMore
  <2>3. InFlight({"compare"})' = InFlight({"compare"}) \union {} /\ InFlight(Comparing)' = InFlight(Comparing) \union {k}
    BY <2>1, <2>2
  <2> QED BY <2>2, <2>3
<1>6. InFlight({"compare"}) = {} /\ \A q \in InFlight(Comparing) : calls[q].op = "lastComparison"
  BY <1>0, <1>2, NotBusy
<1>7. /\ ShelfGrows /\ DOMAIN stored' = DOMAIN stored /\ stored'.last = stored.last
  <2>1. stored'.open = stored.open /\ stored'.used = stored.used /\ stored'.taken = stored.taken /\ stored'.last = stored.last
    BY <1>0, <1>2 DEF Shelved, CompareInv
  <2> QED BY <1>0, <1>2, <2>1 DEF Shelved, ShelfGrows
<1>8. CompareInv'
  <2>1. \A q \in InFlight(Comparing)' : OfTheRoute(calls[q])'
    <3> TAKE q \in InFlight(Comparing)'
    <3>1. CASE q = k
      BY <1>1, <1>5, <3>1 DEF OfTheRoute
    <3>2. CASE q # k
      <4>1. q \in InFlight(Comparing) /\ q \in Slots
        BY <1>5, <3>2 DEF InFlight
      <4> DEFINE c == calls[q]
      <4>2. c.op = "lastComparison" /\ OfTheRoute(c) /\ calls'[q] = c
        BY <1>2, <1>5, <1>6, <3>2, <4>1 DEF CompareInv
      <4> HIDE DEF c
      <4>3. OfKept(c)
        BY <4>2, OfAnyScreen
      <4> QED BY <4>2, <4>3 DEF OfKept, OfTheRoute, KeptOf
    <3> QED BY <3>1, <3>2
  <2>2. AtMostOne(InFlight({"compare"})')
    BY <1>5, <1>6 DEF AtMostOne
  <2> QED BY <1>0, <1>2, <1>3, <1>7, <2>1, <2>2 DEF CompareInv, AtMostOne, KeptOf
<1> QED BY <1>0, <1>3, <1>4, <1>8, <1>7, ComparePage

\* A comparison is made with the environment that is chosen.
LEMMA ComparisonRuns ==
  ASSUME PackingInv, NoneIsNoRecord, RunComparison
  PROVE  PackingInv'
<1> DEFINE x == Request("compare", view.route, None)
<1>0. /\ OnCompare /\ ~view.busy /\ page' = page /\ stored' = [stored EXCEPT !.runs = @ + 1] /\ Send(<<x>>)
      /\ view' = [view EXCEPT !.busy = TRUE, !.picked = {}, !.opened = <<>>]
  BY DEF RunComparison, OneMoreRun
<1>1. IsRequest(x) /\ x.op = "compare" /\ x.at = view.route /\ x.stage = "sent"
  BY Requests DEF Request
<1> HIDE DEF x
<1>2. /\ view = [f \in DOMAIN view |-> view[f]]
      /\ DOMAIN view = {"route", "result", "compared", "loadingLast", "busy", "picked", "opened", "including", "told"}
      /\ CompareInv /\ CallTable
      /\ \A q \in Slots : calls[q] # None => calls[q].op \in OpsOf("compare")
      /\ {"lastComparison", "compare", "open"} \subseteq OpsOf("compare")
      /\ Shelved /\ NoneIsNoRequest
  BY <1>0, CompareFields, NoneIsNoneOfThem
<1>3. /\ SameInclusion /\ view'.picked = {} /\ view'.route = view.route /\ view'.result = view.result
      /\ view'.compared = view.compared /\ view'.busy = TRUE
  BY <1>0, <1>2 DEF SameInclusion
<1>4. /\ CallTable' /\ Keeps(Stepwise)
      /\ \A q \in Slots : calls'[q] # None => calls'[q].op \in OpsOf("compare")
  <2>1. x.op \notin Stepwise
    BY <1>1 DEF Stepwise
  <2> QED BY <1>0, <1>1, <1>2, <2>1, KeptSending
<1>5. PICK k \in Slots : /\ calls[k] = None /\ calls'[k] = x /\ \A q \in Slots \ {k} : calls'[q] = calls[q]
                         /\ InFlight({"compare"})' = InFlight({"compare"}) \union {k}
                         /\ InFlight(Comparing)' = InFlight(Comparing) \union {k}
  <2>1. x.op \in {"compare"} /\ x.op \in Comparing
    BY <1>1 DEF Comparing
  <2>2. PICK k \in Slots : /\ calls[k] = None /\ calls'[k] = x /\ \A q \in Slots \ {k} : calls'[q] = calls[q]
                           /\ \A ops : InFlight(ops)' = InFlight(ops) \union (IF x.op \in ops THEN {k} ELSE {})
    BY <1>0, <1>1, <1>2, AskedMore
  <2>3. InFlight({"compare"})' = InFlight({"compare"}) \union {k} /\ InFlight(Comparing)' = InFlight(Comparing) \union {k}
    BY <2>1, <2>2
  <2> QED BY <2>2, <2>3
<1>6. InFlight({"compare"}) = {} /\ \A q \in InFlight(Comparing) : calls[q].op = "lastComparison"
  BY <1>0, <1>2, NotBusy
<1>7. /\ ShelfGrows /\ DOMAIN stored' = DOMAIN stored /\ stored'.last = stored.last
  <2>1. stored'.open = stored.open /\ stored'.used = stored.used /\ stored'.taken = stored.taken /\ stored'.last = stored.last
    BY <1>0, <1>2 DEF Shelved, CompareInv
  <2> QED BY <1>0, <1>2, <2>1 DEF Shelved, ShelfGrows
<1>8. CompareInv'
  <2>1. \A q \in InFlight(Comparing)' : OfTheRoute(calls[q])'
    <3> TAKE q \in InFlight(Comparing)'
    <3>1. CASE q = k
      BY <1>1, <1>3, <1>5, <3>1 DEF OfTheRoute
    <3>2. CASE q # k
      <4>1. q \in InFlight(Comparing) /\ q \in Slots
        BY <1>5, <3>2 DEF InFlight
      <4> DEFINE c == calls[q]
      <4>2. c.op = "lastComparison" /\ OfTheRoute(c) /\ calls'[q] = c
        BY <1>2, <1>5, <1>6, <3>2, <4>1 DEF CompareInv
      <4> HIDE DEF c
      <4>3. OfKept(c)
        BY <4>2, OfAnyScreen
      <4> QED BY <4>2, <4>3 DEF OfKept, OfTheRoute, KeptOf
    <3> QED BY <3>1, <3>2
  <2>2. AtMostOne(InFlight({"compare"})')
    BY <1>5, <1>6 DEF AtMostOne
  <2> QED BY <1>2, <1>3, <1>7, <2>1, <2>2 DEF CompareInv, AtMostOne, KeptOf
<1> QED BY <1>0, <1>3, <1>4, <1>7, <1>8, ComparePage

\* The comparison that was kept is read, or the one that was made is answered, or neither.
LEMMA ComparisonComes ==
  ASSUME PackingInv, NEW s \in Slots, LastComparisonEnds(s) \/ ComparisonEnds(s)
  PROVE  PackingInv'
<1> DEFINE c == calls[s]
<1>0. /\ c # None /\ c.op \in Comparing /\ page' = page /\ stored' = stored /\ Ends(s, <<>>)
  BY DEF LastComparisonEnds, ComparisonEnds, Answer, Failure, InStage, Comparing
<1>1. OnCompare
  <2>1. \A op \in Comparing : op \in OpsOf(page.name) => page.name = "compare"
    BY DEF Comparing, OpsOf
  <2> QED BY <1>0, <2>1 DEF PackingInv, Shaped, OnCompare
<1>2. /\ view = [f \in DOMAIN view |-> view[f]]
      /\ DOMAIN view = {"route", "result", "compared", "loadingLast", "busy", "picked", "opened", "including", "told"}
      /\ CompareInv /\ CallTable /\ view.picked \in SUBSET Objects
      /\ \A q \in Slots : calls[q] # None => calls[q].op \in OpsOf("compare")
      /\ ShelfGrows
  BY <1>0, <1>1, CompareFields
<1>3. s \in InFlight(Comparing) /\ OfTheRoute(c)
  BY <1>0, <1>2 DEF InFlight, CompareInv
<1>4. /\ CallTable' /\ calls'[s] = None /\ \A q \in Slots \ {s} : calls'[q] = calls[q]
      /\ InFlight(Comparing)' = InFlight(Comparing) \ {s} /\ InFlight({"compare"})' = InFlight({"compare"}) \ {s}
  BY <1>0, <1>2, AskedLess
<1>5. Keeps(Stepwise) /\ \A q \in Slots : calls'[q] # None => calls'[q].op \in OpsOf("compare")
  BY <1>0, <1>2, <1>4 DEF Keeps, Outside, Comparing, Stepwise
<1>6. AtMostOne(InFlight({"compare"})') /\ InFlight(Comparing)' \subseteq InFlight(Comparing)
  BY <1>2, <1>4 DEF AtMostOne, CompareInv
<1>a. ASSUME SameInclusion, view'.picked = view.picked, view'.route = view.route,
             \/ view'.result = view.result /\ view'.compared = view.compared
             \/ view'.result = None
             \/ KeptOf(view'.result, view.route) /\ view'.compared = view.route,
             view'.busy = view.busy \/ InFlight({"compare"})' = {}
      PROVE  PackingInv'
  <2>1. \A q \in InFlight(Comparing)' : OfTheRoute(calls[q])'
    <3> TAKE q \in InFlight(Comparing)'
    <3> DEFINE e == calls[q]
    <3>1. OfTheRoute(e) /\ calls'[q] = e /\ (e.op = "compare" => InFlight({"compare"})' # {})
      BY <1>2, <1>4, <1>6 DEF CompareInv, InFlight
    <3> HIDE DEF e
    <3> QED BY <1>a, <3>1 DEF OfTheRoute, KeptOf
  <2>2. CompareInv'
    BY <1>0, <1>2, <1>6, <1>a, <2>1 DEF CompareInv, AtMostOne, KeptOf
  <2> QED BY <1>0, <1>1, <1>2, <1>4, <1>5, <1>a, <2>2, ComparePage
<1>7. CASE LastComparisonEnds(s)
  <2>1. c.op = "lastComparison" /\ (c.stage = "answered" => c.answer = None \/ KeptOf(c.answer, c.at))
    BY <1>3, <1>7 DEF LastComparisonEnds, Answer, Failure, InStage, OfTheRoute
  <2>2. \/ /\ c.stage = "answered" /\ c.at = view.route
           /\ view' = [view EXCEPT !.result = c.answer, !.compared = view.route, !.loadingLast = FALSE]
        \/ view' = [view EXCEPT !.loadingLast = FALSE]
    BY <1>7 DEF LastComparisonEnds, Answer, InStage
  <2>3. CASE view' = [view EXCEPT !.loadingLast = FALSE]
    <3>1. /\ SameInclusion /\ view'.picked = view.picked /\ view'.route = view.route /\ view'.busy = view.busy
          /\ view'.result = view.result /\ view'.compared = view.compared
      BY <1>2, <2>3 DEF SameInclusion
    <3> QED BY <1>a, <3>1
  <2>4. CASE /\ c.stage = "answered" /\ c.at = view.route
             /\ view' = [view EXCEPT !.result = c.answer, !.compared = view.route, !.loadingLast = FALSE]
    <3>1. /\ SameInclusion /\ view'.picked = view.picked /\ view'.route = view.route /\ view'.busy = view.busy
          /\ view'.result = c.answer /\ view'.compared = view.route
      BY <1>2, <2>4 DEF SameInclusion
    <3> QED BY <1>a, <2>1, <2>4, <3>1
  <2> QED BY <2>2, <2>3, <2>4
<1>8. CASE ComparisonEnds(s)
  <2>1. c.op = "compare" /\ c.at = view.route /\ (c.stage = "answered" => KeptOf(c.answer, c.at))
    BY <1>3, <1>8 DEF ComparisonEnds, Answer, Failure, InStage, OfTheRoute
  <2>2. InFlight({"compare"})' = {}
    BY <1>0, <1>2, <1>4, <2>1 DEF CompareInv, AtMostOne, InFlight
  <2>3. \/ /\ c.stage = "answered"
           /\ view' = [view EXCEPT !.result = c.answer, !.compared = view.route, !.busy = FALSE]
        \/ view' = [view EXCEPT !.busy = FALSE]
    BY <1>8 DEF ComparisonEnds, Answer, InStage
  <2>4. CASE view' = [view EXCEPT !.busy = FALSE]
    <3>1. /\ SameInclusion /\ view'.picked = view.picked /\ view'.route = view.route
          /\ view'.result = view.result /\ view'.compared = view.compared
      BY <1>2, <2>4 DEF SameInclusion
    <3> QED BY <1>a, <2>2, <3>1
  <2>5. CASE /\ c.stage = "answered"
             /\ view' = [view EXCEPT !.result = c.answer, !.compared = view.route, !.busy = FALSE]
    <3>1. /\ SameInclusion /\ view'.picked = view.picked /\ view'.route = view.route
          /\ view'.result = c.answer /\ view'.compared = view.route
      BY <1>2, <2>5 DEF SameInclusion
    <3> QED BY <1>a, <2>1, <2>2, <2>5, <3>1
  <2> QED BY <2>3, <2>4, <2>5
<1> QED BY <1>7, <1>8

-----------------------------------------------------------------------------
(* The list of the objects, and what is found in their scripts *)

\* What the page of the objects is made of.
LEMMA ListFields ==
  ASSUME PackingInv, OnObjects
  PROVE  /\ view = [f \in DOMAIN view |-> view[f]]
         /\ DOMAIN view = {"filter", "where", "listed", "hits", "loading", "typing", "problem"}
         /\ ListInv /\ CallTable
         /\ \A q \in Slots : calls[q] # None => calls[q].op \in {"objects", "search"}
         /\ stored' = stored => ShelfGrows
BY DEF PackingInv, Shaped, OnObjects, FieldsOf, OpsOf, Shelved, ShelfGrows

\* A step of it.
LEMMA ListPage ==
  ASSUME PackingInv, OnObjects, page' = page, view' = [f \in DOMAIN view |-> view'[f]], ShelfGrows,
         CallTable', \A q \in Slots : calls'[q] # None => calls'[q].op \in {"objects", "search"}, ListInv'
  PROVE  PackingInv'
<1>1. Shaped'
  BY DEF PackingInv, Shaped, OnObjects, OpsOf
<1> QED BY <1>1 DEF PackingInv, ShelfGrows, OnPicks, OnCompare, OnObjects, OnArea, IncludingPages

\* Questions that do not count anymore.
LEMMA OutdatedTable ==
  ASSUME CallTable, NoneIsNoRequest, \A q \in Slots : calls[q] # None => calls[q].op \in {"objects", "search"}
  PROVE  /\ IsTable(Outdated(calls)) /\ FreeSlots(Outdated(calls)) = FreeSlots(calls)
         /\ \A q \in Slots : Outdated(calls)[q] # None =>
              /\ calls[q] # None /\ IsRequest(Outdated(calls)[q]) /\ Outdated(calls)[q].with = FALSE
              /\ Outdated(calls)[q].op = calls[q].op /\ Outdated(calls)[q].at = calls[q].at
              /\ Outdated(calls)[q].stage = calls[q].stage /\ Outdated(calls)[q].answer = calls[q].answer
<1> DEFINE t == Outdated(calls)
<1>1. IsTable(t)
  BY DEF Outdated, CallTable, IsTable
<1>2. \A c : IsRequest(c) => /\ IsRequest([c EXCEPT !.with = FALSE])
                             /\ [c EXCEPT !.with = FALSE].with = FALSE /\ [c EXCEPT !.with = FALSE].op = c.op
                             /\ [c EXCEPT !.with = FALSE].at = c.at /\ [c EXCEPT !.with = FALSE].stage = c.stage
                             /\ [c EXCEPT !.with = FALSE].answer = c.answer
  BY DEF IsRequest, RequestFields
<1>3. \A q \in Slots : /\ calls[q] = None => t[q] = None
                       /\ calls[q] # None => t[q] = [calls[q] EXCEPT !.with = FALSE] /\ IsRequest(calls[q])
  BY DEF Outdated, CallTable
<1> HIDE DEF t
<1>4. ASSUME NEW q \in Slots, calls[q] # None
      PROVE  /\ IsRequest(t[q]) /\ t[q].with = FALSE /\ t[q].op = calls[q].op /\ t[q].at = calls[q].at
             /\ t[q].stage = calls[q].stage /\ t[q].answer = calls[q].answer /\ t[q] # None
  <2> DEFINE c == calls[q]
             d == [c EXCEPT !.with = FALSE]
  <2>1. IsRequest(c) /\ t[q] = d
    BY <1>3, <1>4
  <2> HIDE DEF c, d
  <2>2. IsRequest(d) /\ d.with = FALSE /\ d.op = c.op /\ d.at = c.at /\ d.stage = c.stage /\ d.answer = c.answer
    BY <1>2, <2>1 DEF d
  <2>3. d # None
    BY <2>2 DEF NoneIsNoRequest
  <2> QED BY <2>1, <2>2, <2>3 DEF c
<1>5. \A q \in Slots : calls[q] = None <=> t[q] = None
  BY <1>3, <1>4
<1>6. FreeSlots(t) = FreeSlots(calls)
  <2>1. DOMAIN t = Slots /\ DOMAIN calls = Slots
    BY <1>1 DEF IsTable, CallTable
  <2> QED BY <1>5, <2>1 DEF FreeSlots
<1> QED BY <1>1, <1>4, <1>5, <1>6 DEF t

\* The questions of the list, put in the places that are free.
LEMMA QuestionsPlaced ==
  ASSUME CallTable, NoneIsNoRequest, NEW t, IsTable(t), FreeSlots(t) = FreeSlots(calls),
         NEW x, NEW y, IsRequest(x), IsRequest(y), NEW r,
         r \in {<<>>, <<x>>, <<y>>, <<x, y>>}, Room(Len(r)), calls' = Plus(t, r)
  PROVE  /\ IsTable(calls') /\ \A q \in Slots : calls'[q] \in {t[q], x, y}
         /\ r \in {<<x>>, <<x, y>>} => \E k \in Slots : calls'[k] = x
         /\ r = <<>> => calls' = t
         /\ r \in {<<>>, <<x>>} => \A q \in Slots : calls'[q] \in {t[q], x}
         /\ r \in {<<>>, <<y>>} => \A q \in Slots : calls'[q] \in {t[q], y}
<1>1. CASE r = <<>>
  <2>1. calls' = t
    BY <1>1, PlusNone
  <2> QED BY <1>1, <2>1
<1>2. ASSUME NEW z \in {x, y}, r = <<z>>
      PROVE  IsTable(calls') /\ \E k \in Slots : calls'[k] = z /\ \A q \in Slots \ {k} : calls'[q] = t[q]
  <2>1. Len(r) = 1
    BY <1>2
  <2>2. FreeSlots(t) # {}
    BY <1>2, <2>1, RoomIsFree
  <2>3. PICK k \in Slots : t[k] = None /\ calls' = [t EXCEPT ![k] = z]
    BY <1>2, <2>2, PlusOne, PlacedFree
  <2> QED BY <2>3 DEF IsTable
<1>3. CASE r = <<x, y>>
  <2>1. Len(r) = 2
    BY <1>3
  <2>2. calls' = Placed(Placed(t, x), y)
    BY <1>3, PlusTwo
  <2>3. Cardinality(FreeSlots(t)) >= 2 /\ FreeSlots(t) # {}
    <3>1. Room(2)
      BY <2>1
    <3> QED BY <3>1, RoomIsFree DEF Room
  <2>4. PICK k \in Slots : t[k] = None /\ Placed(t, x) = [t EXCEPT ![k] = x]
    BY <2>3, PlacedFree
  <2> DEFINE u == [t EXCEPT ![k] = x]
  <2>5. IsTable(u) /\ u[k] = x /\ (\A q \in Slots \ {k} : u[q] = t[q]) /\ calls' = Placed(u, y)
    BY <2>2, <2>4 DEF IsTable
  <2> HIDE DEF u
  <2>6. FreeSlots(u) # {}
    <3>1. k \in FreeSlots(t) /\ FreeSlots(t) \subseteq Slots
      BY <2>4 DEF FreeSlots, IsTable
    <3>2. PICK q \in FreeSlots(t) : q # k
      BY <2>3, <3>1, RoomForTwo
    <3> QED BY <2>5, <3>1, <3>2 DEF FreeSlots, IsTable
  <2>7. PICK q \in Slots : u[q] = None /\ calls' = [u EXCEPT ![q] = y]
    BY <2>5, <2>6, PlacedFree
  <2>8. q # k
    BY <2>5, <2>7 DEF NoneIsNoRequest
  <2> QED BY <1>3, <2>5, <2>7, <2>8 DEF IsTable
<1>4. CASE r = <<x>>
  BY <1>2, <1>4
<1>5. CASE r = <<y>> /\ r # <<x>>
  BY <1>2, <1>5
<1> QED BY <1>1, <1>3, <1>4, <1>5

SearchesRight == \A q \in Slots : calls[q] # None => calls[q].op \in {"objects", "search"} /\ OfTheSearch(calls[q])

AskedAgain ==
  \/ view.where = "name" /\ Counting("objects")
  \/ view.where = "script" /\ (view.hits = None \/ Counting("search"))

\* What the list is, once its questions were asked again.
LEMMA ListAsked ==
  ASSUME OnObjects, view' = [f \in DOMAIN view |-> view'[f]], page' = page, stored' = stored, PackingInv, NoneIsNoRecord,
         CallTable', view'.where \in {"name", "script"},
         SearchesRight', AskedAgain'
  PROVE  PackingInv'
<1>1. ListInv'
  BY DEF ListInv, SearchesRight, AskedAgain
<1>2. ShelfGrows
  BY ListFields
<1> QED BY <1>1, <1>2, ListPage DEF SearchesRight

\* The list is asked for again, for other words, in another place, or when the typing is over:
\* of its questions only the new ones count.
LEMMA Refreshed ==
  ASSUME PackingInv, NoneIsNoRecord, OnObjects, NEW v, RefreshObjects(v), v = [f \in DOMAIN view |-> v[f]],
         v.where \in {"name", "script"}
  PROVE  PackingInv'
<1> DEFINE t == Outdated(calls)
           r == ObjectsQuestion(v)
           short == v.where = "script" /\ v.filter \in TooShort
<1>0. /\ DOMAIN view = {"filter", "where", "listed", "hits", "loading", "typing", "problem"}
      /\ ListInv /\ CallTable /\ NoneIsNoRequest
      /\ \A q \in Slots : calls[q] # None => calls[q].op \in {"objects", "search"} /\ OfTheSearch(calls[q])
  BY ListFields, NoneIsNoneOfThem DEF ListInv
<1>1. /\ Room(Len(r)) /\ calls' = Plus(t, r) /\ UNCHANGED <<page, stored>>
      /\ view' = [v EXCEPT !.loading = ~short, !.hits = IF short THEN None ELSE @]
  BY DEF RefreshObjects
<1>2. /\ view' = [f \in DOMAIN view |-> view'[f]] /\ view'.where = v.where /\ view'.filter = v.filter
      /\ view'.typing = v.typing /\ (short => view'.hits = None)
  BY <1>0, <1>1
<1>3. /\ IsTable(t) /\ FreeSlots(t) = FreeSlots(calls)
      /\ \A q \in Slots : t[q] # None =>
           /\ calls[q] # None /\ IsRequest(t[q]) /\ t[q].with = FALSE
           /\ t[q].op = calls[q].op /\ t[q].at = calls[q].at /\ t[q].stage = calls[q].stage /\ t[q].answer = calls[q].answer
  BY <1>0, OutdatedTable
<1> DEFINE found == Request("search", v.filter, TRUE)
           named == Request("objects", v.filter, TRUE)
           all == Request("objects", Everything, TRUE)
<1>4. \/ v.where = "name" /\ r = <<named>>
      \/ v.where = "script" /\ short /\ r \in {<<>>, <<all>>}
      \/ v.where = "script" /\ ~short /\ r \in {<<found>>, <<found, all>>}
  <2>1. <<found>> \o <<>> = <<found>> /\ <<found>> \o <<all>> = <<found, all>>
    <3> HIDE DEF found, all
    <3> QED BY Pairs
  <2>2. <<>> \o <<>> = <<>> /\ <<>> \o <<all>> = <<all>>
    <3> HIDE DEF all
    <3> QED OBVIOUS
  <2>3. CASE v.where = "name"
    BY <2>3 DEF ObjectsQuestion
  <2>4. CASE v.where = "script" /\ v.filter \in TooShort
    <3>1. r = <<>> \o (IF v.listed = None THEN <<all>> ELSE <<>>)
      BY <2>4 DEF ObjectsQuestion
    <3> QED BY <2>2, <2>4, <3>1
  <2>5. CASE v.where = "script" /\ v.filter \notin TooShort
    <3>1. r = <<found>> \o (IF v.listed = None THEN <<all>> ELSE <<>>)
      BY <2>5 DEF ObjectsQuestion
    <3> HIDE DEF r
    <3> QED BY <2>1, <2>5, <3>1
  <2> QED BY <2>3, <2>4, <2>5
<1>5. /\ IsRequest(found) /\ found.with = TRUE /\ found.stage = "sent" /\ found.at = v.filter /\ found.op = "search"
      /\ IsRequest(named) /\ named.with = TRUE /\ named.stage = "sent" /\ named.at = v.filter /\ named.op = "objects"
      /\ IsRequest(all) /\ all.with = TRUE /\ all.stage = "sent" /\ all.op = "objects"
  BY Requests DEF Request
<1> HIDE DEF t, r, found, named, all
<1>6. ASSUME NEW q \in Slots, calls'[q] = t[q], calls'[q] # None
      PROVE  IsRequest(calls'[q]) /\ calls'[q].op \in {"objects", "search"} /\ OfTheSearch(calls[q])'
  <2>1. /\ calls[q] # None /\ IsRequest(t[q]) /\ t[q].with = FALSE
        /\ t[q].op = calls[q].op /\ t[q].at = calls[q].at /\ t[q].stage = calls[q].stage /\ t[q].answer = calls[q].answer
    BY <1>3, <1>6
  <2> QED BY <1>0, <1>6, <2>1 DEF OfTheSearch
<1>9. /\ page' = page /\ stored' = stored /\ view' = [f \in DOMAIN view |-> view'[f]]
      /\ view'.where \in {"name", "script"}
  <2>1. page' = page /\ stored' = stored
    BY <1>1
  <2> QED BY <1>2, <2>1
<1>7. CASE v.where = "name" /\ r = <<named>>
  <2>1. /\ IsTable(calls') /\ \A q \in Slots : calls'[q] \in {t[q], named}
        /\ \E k \in Slots : calls'[k] = named
    <3>1. r \in {<<>>, <<named>>, <<all>>, <<named, all>>} /\ r \in {<<>>, <<named>>} /\ r \in {<<named>>, <<named, all>>}
      BY <1>7
    <3> QED BY <1>0, <1>1, <1>3, <1>5, <3>1, QuestionsPlaced
  <2>2. ASSUME NEW q \in Slots, calls'[q] = named
        PROVE  OfTheSearch(calls[q])'
    BY <1>2, <1>5, <2>2 DEF OfTheSearch
  <2>3. CallTable' /\ SearchesRight'
    BY <1>5, <1>6, <2>1, <2>2 DEF CallTable, IsTable, SearchesRight
  <2>4. AskedAgain'
    BY <1>0, <1>2, <1>5, <1>7, <2>1 DEF AskedAgain, Counting, NoneIsNoRequest
  <2> QED BY <1>9, <2>3, <2>4, ListAsked
<1>8. CASE v.where = "script" /\ r \in {<<>>, <<all>>, <<found>>, <<found, all>>}
  <2>1. /\ IsTable(calls') /\ \A q \in Slots : calls'[q] \in {t[q], found, all}
        /\ r \in {<<found>>, <<found, all>>} => \E k \in Slots : calls'[k] = found
    BY <1>0, <1>1, <1>3, <1>5, <1>8, QuestionsPlaced
  <2>2. ASSUME NEW q \in Slots, calls'[q] \in {found, all}
        PROVE  OfTheSearch(calls[q])'
    BY <1>2, <1>5, <1>8, <2>2 DEF OfTheSearch
  <2>3. CallTable' /\ SearchesRight'
    BY <1>5, <1>6, <2>1, <2>2 DEF CallTable, IsTable, SearchesRight
  <2>4. AskedAgain'
    BY <1>0, <1>2, <1>4, <1>5, <1>8, <2>1 DEF AskedAgain, Counting, NoneIsNoRequest
  <2> QED BY <1>9, <2>3, <2>4, ListAsked
<1> QED BY <1>4, <1>7, <1>8

\* Something else is searched for, or somewhere else: at once, or when the typing is over.
LEMMA SearchAgain ==
  ASSUME PackingInv, NoneIsNoRecord,
         NEW f, NEW where \in {"name", "script"}, ChooseFilter(f) \/ LookIn(where) \/ TypingOver
  PROVE  PackingInv'
<1>0. OnObjects
  BY DEF ChooseFilter, LookIn, TypingOver
<1>1. /\ view = [g \in DOMAIN view |-> view[g]]
      /\ DOMAIN view = {"filter", "where", "listed", "hits", "loading", "typing", "problem"}
      /\ view.where \in {"name", "script"}
  BY <1>0, ListFields DEF ListInv
<1>2. CASE ChooseFilter(f)
  <2> DEFINE v == [view EXCEPT !.filter = f]
  <2>1. RefreshObjects(v)
    BY <1>2 DEF ChooseFilter
  <2>2. v = [g \in DOMAIN view |-> v[g]] /\ v.where \in {"name", "script"}
    BY <1>1
  <2> HIDE DEF v
  <2> QED BY <1>0, <2>1, <2>2, Refreshed
<1>3. CASE LookIn(where)
  <2> DEFINE v == [view EXCEPT !.where = where]
  <2>1. RefreshObjects(v)
    BY <1>3 DEF LookIn
  <2>2. v = [g \in DOMAIN view |-> v[g]] /\ v.where \in {"name", "script"}
    BY <1>1
  <2> HIDE DEF v
  <2> QED BY <1>0, <2>1, <2>2, Refreshed
<1>4. CASE TypingOver
  <2> DEFINE v == [view EXCEPT !.typing = FALSE]
  <2>1. RefreshObjects(v)
    BY <1>4 DEF TypingOver
  <2>2. v = [g \in DOMAIN view |-> v[g]] /\ v.where \in {"name", "script"}
    BY <1>1
  <2> HIDE DEF v
  <2> QED BY <1>0, <2>1, <2>2, Refreshed
<1> QED BY <1>2, <1>3, <1>4

\* While it is typed, nothing is asked for.
LEMMA SearchTyped ==
  ASSUME PackingInv, NEW f, TypeSearch(f)
  PROVE  PackingInv'
<1>0. OnObjects /\ view' = [view EXCEPT !.filter = f, !.typing = TRUE] /\ UNCHANGED <<page, calls, stored>>
  BY DEF TypeSearch
<1>1. /\ view = [g \in DOMAIN view |-> view[g]]
      /\ DOMAIN view = {"filter", "where", "listed", "hits", "loading", "typing", "problem"}
      /\ ListInv /\ CallTable /\ ShelfGrows /\ \A q \in Slots : calls[q] # None => calls[q].op \in {"objects", "search"}
  BY <1>0, ListFields
<1>2. view' = [g \in DOMAIN view |-> view'[g]] /\ view'.where = view.where /\ view'.typing = TRUE
  BY <1>0, <1>1
<1>3. \A c : OfTheSearch(c) => /\ c.stage = "answered" => c.answer = c.at
                               /\ c.with = TRUE /\ c.op = "search" => view.where = "script"
  BY DEF OfTheSearch
<1>4. \A q \in Slots : calls'[q] # None => OfTheSearch(calls[q])'
  <2> TAKE q \in Slots
  <2> DEFINE c == calls[q]
  <2>1. c # None => OfTheSearch(c)
    BY <1>1 DEF ListInv
  <2>2. calls'[q] = c
    BY <1>0
  <2> HIDE DEF c
  <2> QED BY <1>2, <1>3, <2>1, <2>2 DEF OfTheSearch
<1>5. ListInv'
  BY <1>1, <1>2, <1>4 DEF ListInv
<1>6. CallTable'
  BY <1>0, <1>1 DEF CallTable
<1> QED BY <1>0, <1>1, <1>2, <1>5, <1>6, ListPage

\* An answer comes, or none: what still counts is of what is searched for, unless it is typed.
LEMMA ListAnswers ==
  ASSUME PackingInv, NEW s \in Slots, ObjectsAnswered(s) \/ ObjectsFailed(s) \/ SearchEnds(s)
  PROVE  PackingInv'
<1> DEFINE c == calls[s]
<1>0. c # None /\ c.op \in {"objects", "search"} /\ page' = page /\ stored' = stored /\ Ends(s, <<>>)
  BY DEF ObjectsAnswered, ObjectsFailed, SearchEnds, Answer, Failure, InStage
<1>1. OnObjects
  <2>1. \A op \in {"objects", "search"} : op \in OpsOf(page.name) => page.name = "objects"
    BY DEF OpsOf
  <2> QED BY <1>0, <2>1 DEF PackingInv, Shaped, OnObjects
<1>2. /\ view = [f \in DOMAIN view |-> view[f]]
      /\ DOMAIN view = {"filter", "where", "listed", "hits", "loading", "typing", "problem"}
      /\ ListInv /\ CallTable /\ ShelfGrows
      /\ \A q \in Slots : calls[q] # None => calls[q].op \in {"objects", "search"}
  BY <1>0, <1>1, ListFields
<1>3. CallTable' /\ calls'[s] = None /\ \A q \in Slots \ {s} : calls'[q] = calls[q]
  BY <1>0, <1>2, AskedLess
<1>4. OfTheSearch(c)
  BY <1>0, <1>2 DEF ListInv
<1>5. \A op : Counting(op) => Counting(op)' \/ (c.op = op /\ c.with = TRUE)
  BY <1>3 DEF Counting
<1>a. ASSUME view' = [f \in DOMAIN view |-> view'[f]], view'.where = view.where, view'.filter = view.filter,
             view'.typing = view.typing,
             \/ view'.listed = view.listed /\ ~(c.op = "objects" /\ c.with = TRUE) /\ (view.problem => view'.problem)
             \/ view'.problem
             \/ view'.listed = None
             \/ view.where = "script" /\ c.op = "objects"
             \/ view'.listed = view.filter
             \/ view.typing,
             \/ view'.hits = view.hits /\ ~(c.op = "search" /\ c.with = TRUE)
             \/ view'.hits = None
             \/ view'.hits = view.filter
             \/ view.typing
      PROVE  PackingInv'
  <2>1. \A q \in Slots : calls'[q] # None => OfTheSearch(calls[q])'
    <3> TAKE q \in Slots
    <3> DEFINE e == calls[q]
    <3>1. calls'[q] # None => e # None /\ calls'[q] = e
      BY <1>3
    <3>2. e # None => OfTheSearch(e)
      BY <1>2 DEF ListInv
    <3> HIDE DEF e
    <3> QED BY <1>a, <3>1, <3>2 DEF OfTheSearch
  <2>2. ListInv'
    BY <1>2, <1>5, <1>a, <2>1 DEF ListInv
  <2> QED BY <1>0, <1>1, <1>2, <1>3, <1>a, <2>2, ListPage
<1> HIDE DEF c
<1>6. CASE ObjectsAnswered(s)
  <2>1. c.op = "objects" /\ c.answer = c.at
    BY <1>4, <1>6 DEF ObjectsAnswered, Answer, InStage, OfTheSearch, c
  <2>2. CASE c.with = TRUE
    <3>1. view' = [view EXCEPT !.listed = c.answer, !.loading = FALSE, !.problem = FALSE]
      BY <1>6, <2>2 DEF ObjectsAnswered, Latest, c
    <3>2. /\ view' = [f \in DOMAIN view |-> view'[f]] /\ view'.where = view.where /\ view'.filter = view.filter
          /\ view'.typing = view.typing /\ view'.hits = view.hits /\ view'.listed = c.at
      BY <1>2, <2>1, <3>1
    <3>3. view.where = "script" \/ view.typing \/ c.at = view.filter
      BY <1>2, <1>4, <2>1, <2>2 DEF OfTheSearch, ListInv
    <3> QED BY <1>a, <2>1, <3>2, <3>3
  <2>3. CASE c.with # TRUE
    <3>1. view' = view
      BY <1>6, <2>3 DEF ObjectsAnswered, Latest, c
    <3> QED BY <1>2, <1>a, <2>3, <3>1
  <2> QED BY <2>2, <2>3
<1>7. CASE ObjectsFailed(s)
  <2>1. c.op = "objects"
    BY <1>7 DEF ObjectsFailed, Failure, c
  <2>2. CASE c.with = TRUE
    <3>1. \/ view' = [view EXCEPT !.loading = FALSE, !.listed = None]
          \/ view' = [view EXCEPT !.loading = FALSE, !.problem = TRUE]
      BY <1>7, <2>2 DEF ObjectsFailed, Latest, c
    <3>2. /\ view' = [f \in DOMAIN view |-> view'[f]] /\ view'.where = view.where /\ view'.filter = view.filter
          /\ view'.typing = view.typing /\ view'.hits = view.hits /\ (view'.problem = TRUE \/ view'.listed = None)
      <4>1. CASE view' = [view EXCEPT !.loading = FALSE, !.listed = None]
        BY <1>2, <4>1
      <4>2. CASE view' = [view EXCEPT !.loading = FALSE, !.problem = TRUE]
        BY <1>2, <4>2
      <4> QED BY <3>1, <4>1, <4>2
    <3> QED BY <1>a, <2>1, <3>2
  <2>3. CASE c.with # TRUE
    <3>1. view' = view
      BY <1>7, <2>3 DEF ObjectsFailed, Latest, c
    <3> QED BY <1>2, <1>a, <2>3, <3>1
  <2> QED BY <2>2, <2>3
<1>8. CASE SearchEnds(s)
  <2>1. c.op = "search"
    BY <1>8 DEF SearchEnds, Answer, Failure, InStage, c
  <2>2. CASE c.with = TRUE
    <3>1. \/ c.stage = "answered" /\ view' = [view EXCEPT !.hits = c.answer, !.loading = FALSE]
          \/ view' = [view EXCEPT !.hits = None, !.loading = FALSE, !.problem = TRUE]
      BY <1>8, <2>2 DEF SearchEnds, Latest, c
    <3>2. /\ view' = [f \in DOMAIN view |-> view'[f]] /\ view'.where = view.where /\ view'.filter = view.filter
          /\ view'.typing = view.typing /\ view'.listed = view.listed
          /\ \/ view'.hits = None /\ view'.problem = TRUE
             \/ c.stage = "answered" /\ view'.hits = c.answer /\ view'.problem = view.problem
      <4>1. CASE c.stage = "answered" /\ view' = [view EXCEPT !.hits = c.answer, !.loading = FALSE]
        BY <1>2, <4>1
      <4>2. CASE view' = [view EXCEPT !.hits = None, !.loading = FALSE, !.problem = TRUE]
        BY <1>2, <4>2
      <4> QED BY <3>1, <4>1, <4>2
    <3>3. c.stage = "answered" => c.answer = c.at /\ (view.typing \/ c.at = view.filter)
      BY <1>4, <2>1, <2>2 DEF OfTheSearch
    <3> QED BY <1>a, <2>1, <3>2, <3>3
  <2>3. CASE c.with # TRUE
    <3>1. view' = view
      BY <1>8, <2>3 DEF SearchEnds, Latest, c
    <3> QED BY <1>2, <1>a, <2>3, <3>1
  <2> QED BY <2>2, <2>3
<1> QED BY <1>6, <1>7, <1>8

-----------------------------------------------------------------------------
(* The service answers these pages, and the invariant as a whole *)

\* A question of the list is answered.
LEMMA ListServed ==
  ASSUME PackingInv, NoneIsNoRecord, NEW s \in Slots, CatalogServed(s), calls[s].op \in {"objects", "search"}
  PROVE  PackingInv'
<1> DEFINE c == calls[s]
<1>1. c # None /\ Serve(s, c.at, stored)
  BY DEF CatalogServed, CatalogAnswers, InStage
<1>2. OnObjects
  <2>1. \A op \in {"objects", "search"} : op \in OpsOf(page.name) => page.name = "objects"
    BY DEF OpsOf
  <2> QED BY <1>1, <2>1 DEF PackingInv, Shaped, OnObjects
<1>3. CallTable /\ NoneIsNoRequest
  BY NoneIsNoneOfThem DEF PackingInv, Shaped
<1>4. /\ Serves(s, calls'[s]) /\ IsRequest(calls'[s]) /\ calls'[s].op = c.op /\ calls'[s].at = c.at
      /\ calls'[s].with = c.with /\ calls'[s].answer = c.at /\ UNCHANGED <<page, view, stored>>
  BY <1>1, <1>3, Serving DEF ServedAs
<1>5. /\ view = [f \in DOMAIN view |-> view[f]] /\ ListInv /\ ShelfGrows
      /\ \A q \in Slots : calls[q] # None => calls[q].op \in {"objects", "search"} /\ OfTheSearch(calls[q])
  BY <1>2, <1>4, ListFields DEF ListInv
<1>6. CallTable' /\ calls'[s] # None /\ \A q \in Slots \ {s} : calls'[q] = calls[q]
  BY <1>3, <1>4 DEF Serves, NoneIsNoRequest
<1>7. \A op : Counting(op) => Counting(op)'
  BY <1>1, <1>4, <1>6 DEF Counting
<1>8. \A q \in Slots : calls'[q] # None => calls'[q].op \in {"objects", "search"} /\ OfTheSearch(calls[q])'
  <2> TAKE q \in Slots
  <2>1. CASE q = s
    <3>1. OfTheSearch(c) /\ c.op \in {"objects", "search"}
      BY <1>1, <1>5
    <3> HIDE DEF c
    <3> QED BY <1>4, <2>1, <3>1 DEF OfTheSearch
  <2>2. CASE q # s
    <3> DEFINE e == calls[q]
    <3>1. calls'[q] = e /\ (e # None => e.op \in {"objects", "search"} /\ OfTheSearch(e))
      BY <1>5, <1>6, <2>2
    <3> HIDE DEF e
    <3> QED BY <1>4, <3>1 DEF OfTheSearch
  <2> QED BY <2>1, <2>2
<1>9. ListInv'
  BY <1>4, <1>5, <1>7, <1>8 DEF ListInv
<1> QED BY <1>2, <1>4, <1>5, <1>6, <1>8, <1>9, ListPage

\* A comparison is made, read, or one of its rows is.
LEMMA CompareServed ==
  ASSUME PackingInv, NoneIsNoRecord, NEW s \in Slots, CatalogServed(s), calls[s].op \in {"lastComparison", "compare", "open"}
  PROVE  PackingInv'
<1> DEFINE c == calls[s]
<1>1. OnCompare /\ c # None
  <2>1. \A op \in {"lastComparison", "compare", "open"} : op \in OpsOf(page.name) => page.name = "compare"
    BY DEF OpsOf
  <2>2. c # None
    BY DEF CatalogServed, InStage
  <2> QED BY <2>1, <2>2 DEF PackingInv, Shaped, OnCompare
<1>2. PICK answer :
        /\ c.op = "lastComparison" => answer = stored.last[c.at]
        /\ c.op = "compare" => answer \in [of : {c.at}, can : SUBSET Objects]
        /\ Serve(s, answer, IF c.op = "compare" THEN [stored EXCEPT !.last[c.at] = answer] ELSE stored)
  BY DEF CatalogServed, CatalogAnswers
<1>3. /\ CompareInv /\ CallTable /\ view.picked \in SUBSET Objects /\ Shelved /\ NoneIsNoRequest
      /\ \A q \in Slots : calls[q] # None => calls[q].op \in OpsOf("compare")
      /\ view = [f \in DOMAIN view |-> view[f]]
  BY <1>1, CompareFields, NoneIsNoneOfThem
<1>4. /\ Serves(s, calls'[s]) /\ IsRequest(calls'[s]) /\ calls'[s].op = c.op /\ calls'[s].at = c.at
      /\ calls'[s].answer = answer /\ UNCHANGED <<page, view>>
      /\ stored' = IF c.op = "compare" THEN [stored EXCEPT !.last[c.at] = answer] ELSE stored
  BY <1>1, <1>2, <1>3, Serving DEF ServedAs
<1>5. CallTable' /\ calls'[s] # None /\ \A q \in Slots \ {s} : calls'[q] = calls[q]
  BY <1>3, <1>4 DEF Serves, NoneIsNoRequest
<1>6. \A ops : InFlight(ops)' = InFlight(ops)
  BY <1>1, <1>4, <1>5 DEF InFlight
<1>7. Keeps(Stepwise)
  <2>1. c.op \notin Stepwise
    BY DEF Stepwise
  <2> QED BY <1>1, <1>3, <1>4, <2>1, KeptServing
<1>8. c.op \in Comparing => OfTheRoute(c)
  BY <1>1, <1>3 DEF CompareInv, InFlight
<1>9. c.op \in Comparing => c.at \in Routes /\ (answer = None \/ KeptOf(answer, c.at)) /\ (c.op = "compare" => KeptOf(answer, c.at))
  <2>1. CASE c.op = "lastComparison"
    BY <1>2, <1>3, <1>8, <2>1 DEF OfTheRoute, CompareInv, Comparing
  <2>2. CASE c.op = "compare"
    BY <1>2, <1>3, <1>8, <2>2 DEF OfTheRoute, CompareInv, Comparing, KeptOf
  <2> QED BY <2>1, <2>2 DEF Comparing
<1>10. /\ ShelfGrows /\ "last" \in DOMAIN stored' /\ stored'.last = [r \in Routes |-> stored'.last[r]]
       /\ \A r \in Routes : stored'.last[r] # None => KeptOf(stored'.last[r], r)
  <2>1. CASE c.op # "compare"
    BY <1>3, <1>4, <2>1 DEF CompareInv, Shelved, ShelfGrows
  <2>2. CASE c.op = "compare"
    <3> DEFINE last == [stored.last EXCEPT ![c.at] = answer]
    <3>1. stored' = [stored EXCEPT !.last = last]
      BY <1>3, <1>4, <2>2 DEF Shelved, CompareInv
    <3>2. last = [r \in Routes |-> last[r]] /\ \A r \in Routes : last[r] # None => KeptOf(last[r], r)
      BY <1>3, <1>9, <2>2 DEF CompareInv, Comparing
    <3> HIDE DEF last
    <3>3. /\ stored' = [f \in DOMAIN stored |-> stored'[f]] /\ stored'.open = stored.open /\ stored'.used = stored.used
          /\ stored'.taken = stored.taken /\ "last" \in DOMAIN stored' /\ stored'.last = last
      BY <1>3, <3>1 DEF Shelved, CompareInv
    <3> QED BY <1>3, <3>2, <3>3 DEF Shelved, ShelfGrows
  <2> QED BY <2>1, <2>2
<1>11. \A q \in InFlight(Comparing)' : OfTheRoute(calls[q])'
  <2> TAKE q \in InFlight(Comparing)'
  <2>1. CASE q = s
    <3>1. c.op \in Comparing /\ OfTheRoute(c)
      BY <1>4, <1>8, <2>1 DEF InFlight
    <3> HIDE DEF c
    <3> QED BY <1>4, <1>9, <2>1, <3>1 DEF OfTheRoute, KeptOf
  <2>2. CASE q # s
    <3> DEFINE e == calls[q]
    <3>1. calls'[q] = e /\ OfTheRoute(e)
      BY <1>3, <1>5, <1>6, <2>2 DEF CompareInv, InFlight
    <3> HIDE DEF e
    <3> QED BY <1>4, <3>1 DEF OfTheRoute, KeptOf
  <2> QED BY <2>1, <2>2
<1>12. CompareInv'
  <2>1. AtMostOne(InFlight({"compare"})')
    BY <1>3, <1>6 DEF CompareInv, AtMostOne
  <2> QED BY <1>3, <1>4, <1>10, <1>11, <2>1 DEF CompareInv, AtMostOne, KeptOf
<1>13. /\ SameInclusion /\ view'.picked \in SUBSET Objects /\ page' = page
       /\ \A q \in Slots : calls'[q] # None => calls'[q].op \in OpsOf("compare")
  BY <1>1, <1>3, <1>4, <1>5 DEF SameInclusion
<1> QED BY <1>1, <1>5, <1>7, <1>10, <1>12, <1>13, ComparePage

\* Every step keeps the invariant.
LEMMA PackingStep == PackingInv /\ NoneIsNoRecord /\ [PackingSteps]_browser => PackingInv'
<1> SUFFICES ASSUME PackingInv, NoneIsNoRecord, [PackingSteps]_browser
             PROVE  PackingInv'
  OBVIOUS
<1>1. CASE UNCHANGED browser
  <2>1. page' = page /\ view' = view /\ calls' = calls /\ stored' = stored
    BY <1>1 DEF browser
  <2>2. Shaped' /\ ShelfGrows
    BY <2>1 DEF PackingInv, Shaped, SaidLast, Over, WentIn, CallTable, Shelved, ShelfGrows
  <2>3. Keeps(Stepwise) /\ Keeps(Comparing)
    BY <2>1 DEF Keeps
  <2>4. IncludeInv => IncludeInv'
    BY <2>1, <2>2, <2>3, IncludeKept
  <2>5. CompareInv => CompareInv'
    BY <2>1, <2>3, CompareKept DEF CompareInv
  <2>6. ListInv => ListInv'
    BY <2>1 DEF ListInv, OfTheSearch, Counting
  <2> QED BY <2>1, <2>2, <2>4, <2>5, <2>6 DEF PackingInv, ShelfGrows, OnArea, OnPicks, OnCompare, OnObjects
<1>2. ASSUME DraftSteps
      PROVE  PackingInv'
  <2>1. ASSUME NEW d \in Drafts, ShutElsewhere(d) \/ PickDraft(d)
        PROVE  PackingInv'
    BY <2>1, ShutKeeps, PackageSaid
  <2>2. CASE PickNewDraft
    BY <2>2, NewDraftAsked
  <2>3. CASE PickNothing
    BY <2>3, NothingPicked
  <2>4. ASSUME \/ \E text \in Texts : TypeName(text)
               \/ \E o \in Objects : RemoveFromArea(o)
               \/ SaveNames \/ ClosePackage \/ AddScript \/ DiscardDraft \/ IncludeHere
               \/ PackagesTimer \/ ImportPackage
        PROVE  PackingInv'
    BY <2>4, PageHandlers
  <2>5. CASE CreatePackage
    BY <2>5, InclusionAsked
  <2>6. ASSUME NEW s \in Slots, DraftServed(s)
        PROVE  PackingInv'
    BY <2>6, DraftServedKeeps
  <2>7. ASSUME NEW s \in Slots, DraftsRead(s) \/ DraftsUnread(s)
        PROVE  PackingInv'
    BY <2>7, DraftsEnd
  <2>8. ASSUME NEW s \in Slots, DraftCreated(s)
        PROVE  PackingInv'
    BY <2>8, PackageSaid
  <2>9. ASSUME NEW s \in Slots, DraftNotCreated(s)
        PROVE  PackingInv'
    BY <2>9, NothingPicked
  <2>10. ASSUME NEW s \in Slots, AddEnds(s)
         PROVE  PackingInv'
    BY <2>10, ItemEnds
  <2>11. ASSUME NEW s \in Slots,
                \/ OwnDraftsAnswered(s) \/ AreaAnswered(s) \/ RemoveEnds(s) \/ NamesEnd(s) \/ AreaLeft(s) \/ NotClosed(s)
                \/ ScriptEnds(s) \/ ImportEnds(s) \/ PackagesAnswered(s) \/ DraftUnheard(s)
         PROVE  PackingInv'
    BY <2>11, PageAnswers
  <2> QED BY <1>2, <2>1, <2>2, <2>3, <2>4, <2>5, <2>6, <2>7, <2>8, <2>9, <2>10, <2>11 DEF DraftSteps
<1>3. ASSUME CatalogSteps
      PROVE  PackingInv'
  <2>1. ASSUME NEW f \in Searches, ChooseFilter(f)
        PROVE  PackingInv'
    BY <2>1, SearchAgain
  <2>2. ASSUME NEW f \in Searches, TypeSearch(f)
        PROVE  PackingInv'
    BY <2>2, SearchTyped
  <2>3. ASSUME NEW where \in {"name", "script"}, LookIn(where)
        PROVE  PackingInv'
    BY <2>3, SearchAgain
  <2>4. CASE TypingOver
    BY <2>4, SearchAgain
  <2>5. ASSUME NEW r \in Routes, ChooseRoute(r)
        PROVE  PackingInv'
    BY <2>5, RouteChosen
  <2>6. CASE RunComparison
    BY <2>6, ComparisonRuns
  <2>7. ASSUME NEW o \in Objects, ToggleRow(o)
        PROVE  PackingInv'
    BY <2>7, RowSteps DEF ToggleRow
  <2>8. ASSUME NEW o \in Objects, Pick(o)
        PROVE  PackingInv'
    BY <2>8, Picked
  <2>9. CASE Suggest
    BY <2>9, RowSteps DEF Suggest
  <2>10. CASE IncludePicked
    BY <2>10, InclusionAsked
  <2>11. ASSUME NEW s \in Slots, CatalogServed(s)
         PROVE  PackingInv'
    BY <2>11, ListServed, CompareServed DEF CatalogServed, InStage
  <2>12. ASSUME NEW s \in Slots, ObjectsAnswered(s) \/ ObjectsFailed(s) \/ SearchEnds(s)
         PROVE  PackingInv'
    BY <2>12, ListAnswers
  <2>13. ASSUME NEW s \in Slots, LastComparisonEnds(s) \/ ComparisonEnds(s)
         PROVE  PackingInv'
    BY <2>13, ComparisonComes
  <2>14. ASSUME NEW s \in Slots, RowRead(s)
         PROVE  PackingInv'
    BY <2>14, RowsRead
  <2> QED BY <1>3, <2>1, <2>2, <2>3, <2>4, <2>5, <2>6, <2>7, <2>8, <2>9, <2>10, <2>11, <2>12, <2>13, <2>14 DEF CatalogSteps
<1> QED BY <1>1, <1>2, <1>3 DEF PackingSteps

\* The packages as a screen finds them, with the comparison that was kept of one environment.
LEMMA StoresShelved ==
  ASSUME NEW screen, NEW kept
  PROVE  /\ kept \in DraftStores(screen) /\ stored = kept => Shelved
         /\ kept \in CatalogStores(screen) /\ stored = kept =>
              /\ Shelved /\ {"last", "crossed"} \subseteq DOMAIN stored /\ stored.last = KeptBefore
<1> DEFINE first == Min(Drafts)
<1>1. first \in Drafts
  BY PackingAssumption, LeastSlot
<1> HIDE DEF first
<1>2. ASSUME NEW store \in DraftStores(screen)
      PROVE  /\ store = [f \in DOMAIN store |-> store[f]]
             /\ {"open", "used", "taken", "current", "remembered", "area", "name", "made"} = DOMAIN store
             /\ store.open = {first} /\ store.used = {first} /\ store.taken = [d \in Drafts |-> {}]
  <2>1. PICK order : store = [open |-> {first}, used |-> {first}, area |-> [d \in Drafts |-> {Min(Objects)}],
                              taken |-> [d \in Drafts |-> {}], name |-> [d \in Drafts |-> None],
                              current |-> None, remembered |-> first, made |-> order]
    BY <1>2 DEF DraftStores, first
  <2> DEFINE area == [d \in Drafts |-> {Min(Objects)}]
             taken == [d \in Drafts |-> {}]
             name == [d \in Drafts |-> None]
  <2>2. store = [open |-> {first}, used |-> {first}, area |-> area, taken |-> taken, name |-> name,
                 current |-> None, remembered |-> first, made |-> order]
    BY <2>1
  <2> HIDE DEF area, taken, name
  <2>3. /\ store = [f \in DOMAIN store |-> store[f]]
        /\ {"open", "used", "taken", "current", "remembered", "area", "name", "made"} = DOMAIN store
    BY <2>2
  <2>4. store.open = {first} /\ store.used = {first} /\ store.taken = taken
    BY <2>2
  <2> QED BY <2>3, <2>4 DEF taken
<1>3. kept \in DraftStores(screen) /\ stored = kept => Shelved
  BY <1>1, <1>2 DEF Shelved
<1>4. ASSUME kept \in CatalogStores(screen), stored = kept
      PROVE  /\ Shelved /\ {"last", "crossed"} \subseteq DOMAIN stored /\ stored.last = KeptBefore
  <2>1. PICK store \in DraftStores(screen) :
          kept = [f \in DOMAIN store \union {"runs", "last", "crossed"} |->
                    CASE f = "runs" -> 0 [] f = "last" -> KeptBefore [] f = "crossed" -> {} [] OTHER -> store[f]]
    BY <1>4 DEF CatalogStores
  <2>2. /\ kept = [f \in DOMAIN kept |-> kept[f]] /\ DOMAIN kept = DOMAIN store \union {"runs", "last", "crossed"}
        /\ kept.last = KeptBefore
    BY <2>1
  <2>3. kept.open = store.open /\ kept.used = store.used /\ kept.taken = store.taken
    BY <1>2, <2>1
  <2> QED BY <1>1, <1>2, <1>4, <2>2, <2>3 DEF Shelved
<1> QED BY <1>3, <1>4

\* What was kept of a comparison is of its environment.
LEMMA KeptBeforeIsKept == KeptBefore = [r \in Routes |-> KeptBefore[r]] /\ \A r \in Routes : KeptBefore[r] # None => KeptOf(KeptBefore[r], r)
BY DEF KeptBefore, KeptOf

\* A screen of an inclusion opens with nothing being put in, and nothing asked about it.
LEMMA NothingYet ==
  ASSUME view.including = None, view.told = None, \A s \in Slots : calls[s] # None => calls[s].op \notin Stepwise
  PROVE  IncludeInv
<1>1. InFlight(Stepwise) = {}
  BY DEF InFlight
<1> QED BY <1>1 DEF IncludeInv, AtMostOne

\* The page of an open package and the list of the packages, as they open.
LEMMA DraftBegins == DraftInit => PackingInv
<1> SUFFICES ASSUME NEW screen \in {"area", "packages"}, NEW kept \in DraftStores(screen), Opened(DraftOpening(screen), kept)
             PROVE  PackingInv
  BY DEF DraftInit
<1>1. Shelved
  BY StoresShelved DEF Opened
<1> DEFINE o == DraftOpening(screen)
<1>2. CASE screen = "area"
  <2> DEFINE a == Request("area", Min(Drafts), None)
             b == Request("ownDrafts", Min(Drafts), None)
  <2>1. /\ o.page = [name |-> "area", at |-> Min(Drafts)] /\ o.asks = <<a>> \o <<b>>
        /\ o.view = [draft |-> None, read |-> FALSE, items |-> {}, name |-> None, busy |-> FALSE,
                     including |-> None, told |-> None]
    BY <1>2 DEF DraftOpening, OwnDraftsQuestion
  <2>2. IsRequest(a) /\ IsRequest(b) /\ a.op = "area" /\ b.op = "ownDrafts"
    BY Requests DEF Request
  <2> HIDE DEF a, b, o
  <2>3. o.asks = <<a, b>> /\ Fresh(o.asks)
    <3>1. <<a>> \o <<b>> = <<a, b>>
      BY Pairs
    <3>2. Fresh(<<a, b>>)
      BY <2>2, TwoRequests
    <3> QED BY <2>1, <3>1, <3>2
  <2>4. CallTable /\ \A s \in Slots : calls[s] # None => \E i \in DOMAIN o.asks : calls[s] = o.asks[i]
    BY <2>3, Opening DEF o
  <2>5. \A s \in Slots : calls[s] # None => calls[s].op \in {"area", "ownDrafts"}
    BY <2>2, <2>3, <2>4
  <2>6. page = o.page /\ view = o.view
    BY DEF Opened, o
  <2>7. /\ page = [f \in DOMAIN page |-> page[f]] /\ page.name = "area"
        /\ view = [f \in DOMAIN view |-> view[f]] /\ view.including = None /\ view.told = None
        /\ DOMAIN view = {"draft", "read", "items", "name", "busy", "including", "told"}
    BY <2>1, <2>6
  <2>8. Shaped /\ IncludeInv
    BY <2>4, <2>5, <2>7, NothingYet DEF Shaped, FieldsOf, OpsOf, IncludingPages, Stepwise
  <2> QED BY <1>1, <2>7, <2>8 DEF PackingInv, OnArea, OnPicks, OnCompare, OnObjects
<1>3. CASE screen = "packages"
  <2> DEFINE a == Request("packages", None, None)
  <2>1. /\ o.page = [name |-> "packages"] /\ o.asks = <<a>>
        /\ o.view = [came |-> <<>>, shown |-> <<>>, older |-> <<>>, busy |-> FALSE, including |-> None, told |-> None]
    BY <1>3 DEF DraftOpening
  <2>2. a.op = "packages" /\ Fresh(<<a>>)
    BY Requests DEF Request
  <2> HIDE DEF a, o
  <2>3. CallTable /\ \A s \in Slots : calls[s] # None => \E i \in DOMAIN o.asks : calls[s] = o.asks[i]
    BY <2>1, <2>2, Opening DEF o
  <2>4. \A s \in Slots : calls[s] # None => calls[s].op = "packages"
    BY <2>1, <2>2, <2>3
  <2>5. page = o.page /\ view = o.view
    BY DEF Opened, o
  <2>6. /\ page = [f \in DOMAIN page |-> page[f]] /\ page.name = "packages"
        /\ view = [f \in DOMAIN view |-> view[f]] /\ view.including = None /\ view.told = None
        /\ DOMAIN view = {"came", "shown", "older", "busy", "including", "told"}
    BY <2>1, <2>5
  <2>7. Shaped /\ IncludeInv
    BY <2>3, <2>4, <2>6, NothingYet DEF Shaped, FieldsOf, OpsOf, IncludingPages, Stepwise
  <2> QED BY <1>1, <2>6, <2>7 DEF PackingInv, OnArea, OnPicks, OnCompare, OnObjects
<1> QED BY <1>2, <1>3

\* The list of the objects, what is picked of it, and the comparison, as they open.
LEMMA CatalogBegins == CatalogInit => PackingInv
<1> SUFFICES ASSUME NEW screen \in {"objects", "picks", "compare"}, NEW kept \in CatalogStores(screen),
                    Opened(CatalogOpening(screen), kept)
             PROVE  PackingInv
  BY DEF CatalogInit
<1>1. Shelved /\ {"last", "crossed"} \subseteq DOMAIN stored /\ stored.last = KeptBefore
  BY StoresShelved DEF Opened
<1> DEFINE o == CatalogOpening(screen)
<1>2. CASE screen = "objects"
  <2> DEFINE f0 == CHOOSE f \in Searches : f \notin TooShort
             a == Request("objects", f0, TRUE)
  <2>1. /\ o.page = [name |-> "objects"] /\ o.asks = <<a>>
        /\ o.view = [filter |-> f0, where |-> "name", listed |-> None, hits |-> None, loading |-> TRUE,
                     typing |-> FALSE, problem |-> FALSE]
    BY <1>2 DEF CatalogOpening
  <2>2. a.op = "objects" /\ a.at = f0 /\ a.stage = "sent" /\ Fresh(<<a>>)
    BY Requests DEF Request
  <2> HIDE DEF a, o, f0
  <2>3. CallTable /\ \A s \in Slots : calls[s] # None => \E i \in DOMAIN o.asks : calls[s] = o.asks[i]
    BY <2>1, <2>2, Opening DEF o
  <2>4. \A s \in Slots : calls[s] # None => calls[s] = a
    BY <2>1, <2>3
  <2>5. page = o.page /\ view = o.view
    BY DEF Opened, o
  <2>6. /\ page = [f \in DOMAIN page |-> page[f]] /\ page.name = "objects"
        /\ view = [f \in DOMAIN view |-> view[f]] /\ view.filter = f0 /\ view.where = "name"
        /\ view.listed = None /\ view.hits = None
        /\ DOMAIN view = {"filter", "where", "listed", "hits", "loading", "typing", "problem"}
    BY <2>1, <2>5
  <2>7. ListInv
    BY <2>2, <2>4, <2>6 DEF ListInv, OfTheSearch
  <2>8. Shaped
    BY <2>2, <2>3, <2>4, <2>6 DEF Shaped, FieldsOf, OpsOf
  <2> QED BY <1>1, <2>6, <2>7, <2>8 DEF PackingInv, OnArea, OnPicks, OnCompare, OnObjects, IncludingPages
<1>3. CASE screen = "picks"
  <2>1. /\ o.page = [name |-> "picks"] /\ o.asks = <<>>
        /\ o.view = [picked |-> {}, including |-> None, told |-> None]
    BY <1>3 DEF CatalogOpening
  <2> HIDE DEF o
  <2>2. CallTable /\ \A s \in Slots : calls[s] = None
    BY <2>1, Requests, Opening DEF o
  <2>3. page = o.page /\ view = o.view
    BY DEF Opened, o
  <2>4. /\ page = [f \in DOMAIN page |-> page[f]] /\ page.name = "picks"
        /\ view = [f \in DOMAIN view |-> view[f]] /\ view.including = None /\ view.told = None /\ view.picked = {}
        /\ DOMAIN view = {"picked", "including", "told"}
    <3>1. page = [f \in DOMAIN page |-> page[f]] /\ page.name = "picks"
      BY <2>1, <2>3
    <3> DEFINE none == {}
    <3>2. view = [picked |-> none, including |-> None, told |-> None]
      BY <2>1, <2>3
    <3> HIDE DEF none
    <3>3. /\ view = [f \in DOMAIN view |-> view[f]] /\ view.including = None /\ view.told = None /\ view.picked = none
          /\ DOMAIN view = {"picked", "including", "told"}
      BY <3>2
    <3> QED BY <3>1, <3>3 DEF none
  <2>5. Shaped /\ IncludeInv
    BY <2>2, <2>4, NothingYet DEF Shaped, FieldsOf, IncludingPages
  <2> QED BY <1>1, <2>4, <2>5 DEF PackingInv, OnArea, OnPicks, OnCompare, OnObjects
<1>4. CASE screen = "compare"
  <2> DEFINE r == CHOOSE r \in Routes : TRUE
             a == Request("lastComparison", r, None)
  <2>1. /\ o.page = [name |-> "compare"] /\ o.asks = <<a>>
        /\ o.view = [route |-> r, result |-> None, compared |-> None, loadingLast |-> TRUE, busy |-> FALSE,
                     picked |-> {}, opened |-> <<>>, including |-> None, told |-> None]
    BY <1>4 DEF CatalogOpening
  <2>2. a.op = "lastComparison" /\ a.at = r /\ a.stage = "sent" /\ Fresh(<<a>>)
    BY Requests DEF Request
  <2>3. r \in Routes
    BY RoutesAssumption
  <2> HIDE DEF a, o, r
  <2>4. CallTable /\ \A s \in Slots : calls[s] # None => \E i \in DOMAIN o.asks : calls[s] = o.asks[i]
    BY <2>1, <2>2, Opening DEF o
  <2>5. \A s \in Slots : calls[s] # None => calls[s] = a
    BY <2>1, <2>4
  <2>6. page = o.page /\ view = o.view
    BY DEF Opened, o
  <2>7. /\ page = [f \in DOMAIN page |-> page[f]] /\ page.name = "compare"
        /\ view = [f \in DOMAIN view |-> view[f]] /\ view.including = None /\ view.told = None /\ view.picked = {}
        /\ view.route = r /\ view.result = None
        /\ DOMAIN view = {"route", "result", "compared", "loadingLast", "busy", "picked", "opened", "including", "told"}
    <3>1. page = [f \in DOMAIN page |-> page[f]] /\ page.name = "compare"
      BY <2>1, <2>6
    <3> DEFINE none == {}
               rows == <<>>
    <3>2. view = [route |-> r, result |-> None, compared |-> None, loadingLast |-> TRUE, busy |-> FALSE,
                  picked |-> none, opened |-> rows, including |-> None, told |-> None]
      BY <2>1, <2>6
    <3> HIDE DEF none, rows
    <3>3. /\ view = [f \in DOMAIN view |-> view[f]] /\ view.including = None /\ view.told = None /\ view.picked = none
          /\ view.route = r /\ view.result = None
          /\ DOMAIN view = {"route", "result", "compared", "loadingLast", "busy", "picked", "opened", "including", "told"}
      BY <3>2
    <3> QED BY <3>1, <3>3 DEF none
  <2>8. Shaped /\ IncludeInv
    BY <2>2, <2>4, <2>5, <2>7, NothingYet DEF Shaped, FieldsOf, OpsOf, IncludingPages, Stepwise
  <2>9. CompareInv
    BY <1>1, <2>2, <2>3, <2>5, <2>7, KeptBeforeIsKept DEF CompareInv, InFlight, AtMostOne, OfTheRoute
  <2> QED BY <1>1, <2>7, <2>8, <2>9 DEF PackingInv, OnArea, OnPicks, OnCompare, OnObjects
<1> QED BY <1>2, <1>3, <1>4

\* However the questions are answered, and whoever closes the package meanwhile: what is told to
\* be in it went in, and everything that was picked is told to be in or not (AddEnds).
THEOREM ToldIsIn == ASSUME NoneIsNoRecord PROVE PackingSpec => []WhatIsToldIsIn
<1>1. PackingInit => PackingInv
  BY DraftBegins, CatalogBegins DEF PackingInit
<1>2. PackingInv /\ [PackingSteps]_browser => PackingInv'
  BY PackingStep
<1>3. PackingInv => WhatIsToldIsIn
  <2>1. ASSUME PackingInv, "told" \in DOMAIN view, view.told # None
        PROVE  WhatIsToldIsIn
    <3>1. page.name \in IncludingPages \/ SaidLast
      BY <2>1 DEF PackingInv, Shaped, FieldsOf, IncludingPages
    <3>2. Over(view.told)
      BY <2>1, <3>1 DEF PackingInv, IncludeInv, SaidLast
    <3> QED BY <3>2 DEF Over, WentIn, WhatIsToldIsIn
  <2> QED BY <2>1 DEF WhatIsToldIsIn
<1> QED BY <1>1, <1>2, <1>3, PTL DEF PackingSpec

-----------------------------------------------------------------------------
(* The rows of a comparison *)

\* A row is read from the environment that is chosen, or was on its way when it was chosen.
RowOfTheRoute(c) ==
  c.op = "open" => /\ c.at = view.route \/ c.with \in stored.crossed
                   /\ c.stage = "answered" => c.answer = c.at

RowsInv ==
  OnCompare =>
    /\ "crossed" \in DOMAIN stored
    /\ \A o \in DOMAIN view.opened \ stored.crossed : view.opened[o] \in {"loading", "problem", view.route}
    /\ \A s \in Slots : calls[s] # None => RowOfTheRoute(calls[s])

\* No row is opened, closed or read.
LEMMA RowsKept ==
  ASSUME RowsInv, OnCompare, view'.opened = view.opened, view'.route = view.route,
         "crossed" \in DOMAIN stored', stored'.crossed = stored.crossed, Keeps({"open"})
  PROVE  RowsInv'
<1>1. \A s \in Slots : calls'[s] # None => RowOfTheRoute(calls[s])'
  BY DEF RowsInv, RowOfTheRoute, Keeps, Outside
<1> QED BY <1>1 DEF RowsInv

SameCrossed == "crossed" \in DOMAIN stored' /\ stored'.crossed = stored.crossed

\* What is kept of the rows is kept whatever the service makes of the packages.
LEMMA EffectKeepsCrossed ==
  ASSUME Shelved, "crossed" \in DOMAIN stored, NEW c, c.op \in {"drafts", "createDraft", "add"}, stored' = DraftEffect(c)
  PROVE  SameCrossed
<1>1. stored = [f \in DOMAIN stored |-> stored[f]]
  BY DEF Shelved
<1> DEFINE d == Min(Drafts \ stored.used)
<1>2. CASE c.op = "add"
  <2>1. stored' = [stored EXCEPT !.area[c.at] = @ \union {c.with}, !.taken[c.at] = @ \union {c.with}]
    BY <1>2 DEF DraftEffect
  <2> QED BY <1>1, <2>1 DEF SameCrossed
<1>3. CASE c.op = "createDraft"
  <2>1. stored' = [stored EXCEPT !.open = @ \union {d}, !.used = @ \union {d}]
    BY <1>3 DEF DraftEffect
  <2> HIDE DEF d
  <2> QED BY <1>1, <2>1 DEF SameCrossed
<1>4. CASE c.op = "drafts"
  BY <1>4 DEF DraftEffect, SameCrossed
<1> QED BY <1>2, <1>3, <1>4

\* What the inclusion asks, says and ends leaves the rows as they are.
LEMMA InclusionRows ==
  ASSUME PackingInv, RowsInv, OnCompare, view'.opened = view.opened, view'.route = view.route,
         SameCrossed,
         NEW x, IsRequest(x), x.op \in Questions,
         \/ calls' = calls
         \/ Send(<<x>>)
         \/ \E s \in Slots : calls[s] # None /\ calls[s].op \in Questions /\ (Ends(s, <<>>) \/ Ends(s, <<x>>))
  PROVE  RowsInv'
<1>1. CallTable
  BY DEF PackingInv, Shaped
<1>2. Keeps({"open"})
  <2>1. x.op \notin {"open"} /\ \A op \in Questions : op \notin {"open"}
    BY DEF Questions
  <2>2. CASE calls' = calls
    BY <2>2 DEF Keeps
  <2>3. CASE Send(<<x>>)
    BY <1>1, <2>1, <2>3, KeptSending
  <2>4. ASSUME NEW s \in Slots, calls[s] # None, calls[s].op \in Questions, Ends(s, <<>>) \/ Ends(s, <<x>>)
        PROVE  Keeps({"open"})
    BY <1>1, <2>1, <2>4, KeptEnding DEF Outside
  <2> QED BY <2>2, <2>3, <2>4
<1> QED BY <1>2, RowsKept DEF SameCrossed

\* What becomes of the screen with the inclusion.
LEMMA InclusionLook ==
  ASSUME PackingInv, OnCompare, NEW e, NEW d,
         view' \in {view, Abandoned, [Abandoned EXCEPT !.told = e], [view EXCEPT !.including = e],
                    [view EXCEPT !.including = e, !.told = d]}
  PROVE  view'.opened = view.opened /\ view'.route = view.route
<1>1. /\ view = [f \in DOMAIN view |-> view[f]]
      /\ DOMAIN view = {"route", "result", "compared", "loadingLast", "busy", "picked", "opened", "including", "told"}
  BY CompareFields
<1>2. Abandoned = [view EXCEPT !.including = None]
  BY DEF Abandoned, OnCompare
<1> QED BY <1>1, <1>2

\* What is done about packages, in the page of a comparison and elsewhere.
LEMMA RowsAcrossDrafts ==
  ASSUME PackingInv, RowsInv, NoneIsNoRecord, DraftSteps
  PROVE  RowsInv'
<1> SUFFICES ASSUME OnCompare'
             PROVE  RowsInv'
  BY DEF RowsInv
<1>a. ASSUME page' = page \/ (\E screen : Elsewhere(screen))
      PROVE  page' = page /\ OnCompare
  BY <1>a DEF Elsewhere, OnCompare
<1>b. Shaped /\ CallTable /\ Shelved /\ \A s \in Slots : calls[s] # None => calls[s].op \in OpsOf(page.name)
  BY DEF PackingInv, Shaped
<1>c. ASSUME OnCompare
      PROVE  /\ "crossed" \in DOMAIN stored /\ view = [f \in DOMAIN view |-> view[f]]
             /\ DOMAIN view = {"route", "result", "compared", "loadingLast", "busy", "picked", "opened", "including", "told"}
  BY <1>c, CompareFields DEF RowsInv
<1>d. \A op, at, with : IsRequest(Request(op, at, with)) /\ Request(op, at, with).op = op
  BY Requests DEF Request
<1>1. ASSUME \/ \E d \in Drafts : ShutElsewhere(d)
             \/ \E text \in Texts : TypeName(text)
             \/ \E o \in Objects : RemoveFromArea(o)
             \/ SaveNames \/ ClosePackage \/ AddScript \/ DiscardDraft \/ IncludeHere \/ PackagesTimer
             \/ CreatePackage \/ ImportPackage
      PROVE  RowsInv'
  <2>1. page.name \in {"area", "packages", "picks"} /\ page' = page
    BY <1>1 DEF ShutElsewhere, TypeName, RemoveFromArea, SaveNames, ClosePackage, AddScript, DiscardDraft, IncludeHere,
                PackagesTimer, CreatePackage, ImportPackage, OrderOnArea, AreaShown, OnArea, OnPackages
  <2> QED BY <2>1 DEF OnCompare
<1>2. ASSUME NEW s \in Slots,
             \/ OwnDraftsAnswered(s) \/ AreaAnswered(s) \/ RemoveEnds(s) \/ NamesEnd(s) \/ AreaLeft(s)
             \/ NotClosed(s) \/ ScriptEnds(s) \/ ImportEnds(s) \/ PackagesAnswered(s) \/ DraftUnheard(s)
      PROVE  RowsInv'
  <2>1. /\ calls[s] # None
        /\ calls[s].op \in {"ownDrafts", "area", "remove", "changeDraft", "close", "deleteDraft", "addScript",
                            "importPackage", "packages"}
        /\ page' = page \/ (\E screen : Elsewhere(screen))
    BY <1>2 DEF OwnDraftsAnswered, AreaAnswered, RemoveEnds, NamesEnd, AreaLeft, NotClosed, ScriptEnds, ImportEnds,
                PackagesAnswered, DraftUnheard, Answer, Failure, InStage
  <2>2. OnCompare
    BY <1>a, <2>1
  <2> QED BY <1>b, <2>1, <2>2 DEF OnCompare, OpsOf
<1>3. ASSUME NEW s \in Slots, DraftServed(s)
      PROVE  RowsInv'
  <2> DEFINE c == calls[s]
  <2>1. c # None /\ (Refuse(s) \/ \E answer : Serve(s, answer, DraftEffect(c)))
    BY <1>3 DEF DraftServed, InStage
  <2>2. OnCompare /\ UNCHANGED <<page, view>> /\ Serves(s, calls'[s]) /\ calls'[s].op = c.op
        /\ (stored' = stored \/ stored' = DraftEffect(c))
    <3>1. CASE Refuse(s)
      <4>1. UNCHANGED <<page, view, stored>> /\ Serves(s, calls'[s]) /\ calls'[s].op = c.op
        BY <1>b, <2>1, <3>1, Serving DEF ServedAs
      <4> QED BY <1>a, <4>1
    <3>2. ASSUME NEW answer, Serve(s, answer, DraftEffect(c))
          PROVE  <2>2
      <4> DEFINE e == DraftEffect(c)
      <4> HIDE DEF e
      <4>1. UNCHANGED <<page, view>> /\ stored' = e /\ Serves(s, calls'[s]) /\ calls'[s].op = c.op
        BY <1>b, <2>1, <3>2, Serving DEF ServedAs, e
      <4> QED BY <1>a, <4>1 DEF e
    <3> QED BY <2>1, <3>1, <3>2
  <2>3. c.op \in {"drafts", "createDraft", "add"}
    <3>1. c.op \in DraftReads \union DraftWrites
      BY <1>3 DEF DraftServed, InStage
    <3> QED BY <1>b, <2>1, <2>2, <3>1 DEF DraftReads, DraftWrites, OnCompare, OpsOf
  <2>4. Keeps({"open"})
    BY <2>2, <2>3 DEF Keeps, Outside, Serves
  <2> HIDE DEF c
  <2>5. SameCrossed
    <3>1. CASE stored' = stored
      BY <1>c, <2>2, <3>1 DEF SameCrossed
    <3>2. CASE stored' = DraftEffect(c)
      BY <1>b, <1>c, <2>2, <2>3, <3>2, EffectKeepsCrossed
    <3> QED BY <2>2, <3>1, <3>2
  <2> QED BY <2>2, <2>4, <2>5, RowsKept DEF SameCrossed
<1>4. ASSUME NEW x, IsRequest(x), x.op \in Questions, page' = page, SameCrossed,
             OnCompare => view'.opened = view.opened /\ view'.route = view.route,
             \/ calls' = calls
             \/ Send(<<x>>)
             \/ \E s \in Slots : calls[s] # None /\ calls[s].op \in Questions /\ (Ends(s, <<>>) \/ Ends(s, <<x>>))
      PROVE  RowsInv'
  <2>1. OnCompare
    BY <1>4 DEF OnCompare
  <2> QED BY <1>4, <2>1, InclusionRows
<1>5. ASSUME NEW table, NEW d, NEW s \in Slots, Adding(table, d),
             \/ table = calls /\ Room(1)
             \/ table = Less(calls, s) /\ calls[s] # None /\ calls[s].op = "createDraft"
      PROVE  RowsInv'
  <2> DEFINE x == Request("add", d, Min(view.including.left))
  <2>1. stored' = [stored EXCEPT !.current = d, !.remembered = d] /\ (page' = page \/ Elsewhere("area"))
    BY <1>5 DEF Adding, Choose
  <2>2. OnCompare /\ page' = page
    BY <1>a, <2>1
  <2>3. /\ view' = [view EXCEPT !.including.phase = "adding", !.including.draft = d, !.including.makes = {}]
        /\ calls' = Placed(table, x)
    BY <1>5, <2>2 DEF Adding, Elsewhere, OnCompare
  <2>4. SameCrossed
    BY <1>b, <1>c, <2>1, <2>2 DEF Shelved, SameCrossed
  <2> DEFINE none == {}
  <2>5. view'.opened = view.opened /\ view'.route = view.route
    <3>1. view' = [view EXCEPT !.including.phase = "adding", !.including.draft = d, !.including.makes = none]
      BY <2>3
    <3> HIDE DEF none
    <3> QED BY <1>c, <2>2, <3>1
  <2>6. IsRequest(x) /\ x.op \in Questions /\ "createDraft" \in Questions
    BY <1>d DEF Questions
  <2> HIDE DEF x
  <2>7. Send(<<x>>) \/ (calls[s] # None /\ calls[s].op \in Questions /\ Ends(s, <<x>>))
    <3>1. CASE table = calls /\ Room(1)
      BY <2>3, <3>1, PlusOne DEF Send
    <3>2. CASE table = Less(calls, s) /\ calls[s] # None /\ calls[s].op = "createDraft"
      BY <1>b, <2>3, <2>6, <3>2, PlacedEnds
    <3> QED BY <1>5, <3>1, <3>2
  <2> QED BY <1>4, <2>2, <2>4, <2>5, <2>6, <2>7
<1>6. ASSUME NEW d \in Drafts, PickDraft(d)
      PROVE  RowsInv'
  <2>1. Room(1) /\ Adding(calls, d)
    BY <1>6 DEF PickDraft
  <2>2. PICK s \in Slots : TRUE
    <3>1. FreeSlots(calls) # {}
      BY <1>b, <2>1, RoomIsFree
    <3> QED BY <1>b, <3>1 DEF FreeSlots, CallTable
  <2> QED BY <1>5, <2>1, <2>2
<1> DEFINE y == Request("createDraft", None, None)
           z == Request("drafts", None, None)
<1>7. IsRequest(y) /\ y.op \in Questions /\ IsRequest(z) /\ z.op \in Questions
  BY <1>d DEF Questions
<1>8. stored' = stored /\ OnCompare => SameCrossed
  BY <1>c DEF SameCrossed
<1>9. CASE PickNewDraft
  <2> DEFINE w == Min(FreeSlots(calls))
  <2>1. /\ Send(<<y>>) /\ page' = page /\ stored' = stored
        /\ view' = [view EXCEPT !.including.phase = "creating", !.including.makes = @ \union {w}]
    BY <1>9 DEF PickNewDraft
  <2> HIDE DEF w, y
  <2>2. OnCompare
    BY <1>a, <2>1
  <2>3. view'.opened = view.opened /\ view'.route = view.route
    BY <1>c, <2>1, <2>2
  <2> QED BY <1>4, <1>7, <1>8, <2>1, <2>2, <2>3
<1>10. CASE PickNothing
  <2>1. view' = Abandoned /\ page' = page /\ stored' = stored /\ calls' = calls
    BY <1>10 DEF PickNothing
  <2>2. OnCompare
    BY <1>a, <2>1
  <2>3. view'.opened = view.opened /\ view'.route = view.route
    BY <2>1, <2>2, InclusionLook
  <2> HIDE DEF y
  <2> QED BY <1>4, <1>7, <1>8, <2>1, <2>2, <2>3
<1>11. ASSUME NEW s \in Slots, DraftsRead(s) \/ DraftsUnread(s) \/ DraftNotCreated(s) \/ (DraftCreated(s) /\ ~AskedHere(s))
       PROVE  RowsInv'
  <2>1. /\ calls[s] # None /\ calls[s].op \in Questions /\ Ends(s, <<>>) /\ page' = page /\ stored' = stored
        /\ \/ view' \in {view, Abandoned}
           \/ view' = [view EXCEPT !.including.phase = "picking", !.including.drafts = calls[s].answer]
           \/ view' = [view EXCEPT !.including.phase = "picking", !.including.makes = @ \ {s}]
    BY <1>11 DEF DraftsRead, DraftsUnread, DraftNotCreated, DraftCreated, Answer, Failure, InStage, Questions
  <2>2. OnCompare
    BY <1>a, <2>1
  <2>3. view'.opened = view.opened /\ view'.route = view.route
    <3>1. CASE view' \in {view, Abandoned}
      BY <1>c, <2>2, <3>1 DEF Abandoned, OnCompare
    <3>2. CASE view' = [view EXCEPT !.including.phase = "picking", !.including.drafts = calls[s].answer]
      BY <1>c, <2>2, <3>2
    <3>3. CASE view' = [view EXCEPT !.including.phase = "picking", !.including.makes = @ \ {s}]
      BY <1>c, <2>2, <3>3
    <3> QED BY <2>1, <3>1, <3>2, <3>3
  <2> HIDE DEF y
  <2> QED BY <1>4, <1>7, <1>8, <2>1, <2>2, <2>3
<1>12. ASSUME NEW s \in Slots, DraftCreated(s), AskedHere(s)
       PROVE  RowsInv'
  <2>1. calls[s] # None /\ calls[s].op = "createDraft" /\ Adding(Less(calls, s), calls[s].answer)
    BY <1>12 DEF DraftCreated, Answer, InStage
  <2> QED BY <1>5, <2>1
<1>13. ASSUME NEW s \in Slots, AddEnds(s)
       PROVE  RowsInv'
  <2> DEFINE left == view.including.left \ {calls[s].with}
             x == Request("add", view.including.draft, Min(left))
  <2>1. PICK went \in BOOLEAN :
          /\ calls[s] # None /\ calls[s].op = "add" /\ stored' = stored
          /\ \/ /\ view' = [view EXCEPT !.including = AfterItem(view.including, calls[s].with, went)]
                /\ Ends(s, <<x>>)
                /\ page' = page
             \/ Tells(s, AfterItem(view.including, calls[s].with, went))
    BY <1>13, Zenon DEF AddEnds, Answer, Failure, InStage, AfterItem
  <2> DEFINE e == AfterItem(view.including, calls[s].with, went)
  <2>2. OnCompare /\ page' = page /\ view' = [view EXCEPT !.including = e] /\ Ends(s, <<x>>)
    BY <2>1 DEF Tells, TellsAndLeaves, TellsAndStays, OnCompare
  <2>3. view' = [view EXCEPT !.including = e] \/ view' = [Abandoned EXCEPT !.told = e]
    BY <2>2
  <2>4. IsRequest(x) /\ x.op \in Questions /\ calls[s].op \in Questions /\ (Ends(s, <<>>) \/ Ends(s, <<x>>))
    BY <1>d, <2>1, <2>2 DEF Questions
  <2> HIDE DEF e, x
  <2>5. view'.opened = view.opened /\ view'.route = view.route
    BY <2>2, <2>3, InclusionLook
  <2> QED BY <1>4, <1>8, <2>1, <2>2, <2>4, <2>5
<1> QED BY <1>1, <1>2, <1>3, <1>6, <1>9, <1>10, <1>11, <1>12, <1>13 DEF DraftSteps

\* A row is opened, closed or read.
LEMMA RowsToggled ==
  ASSUME PackingInv, RowsInv, \/ \E o \in Objects : ToggleRow(o)
                              \/ \E s \in Slots : RowRead(s)
  PROVE  RowsInv'
<1>1. ASSUME OnCompare
      PROVE  /\ "crossed" \in DOMAIN stored /\ view = [f \in DOMAIN view |-> view[f]]
             /\ DOMAIN view = {"route", "result", "compared", "loadingLast", "busy", "picked", "opened", "including", "told"}
             /\ CallTable /\ (view.result # None => view.compared = view.route)
             /\ \A o \in DOMAIN view.opened \ stored.crossed : view.opened[o] \in {"loading", "problem", view.route}
             /\ \A s \in Slots : calls[s] # None => RowOfTheRoute(calls[s])
  BY <1>1, CompareFields DEF RowsInv, CompareInv
<1>2. ASSUME OnCompare, page' = page, stored' = stored, NEW rows, view' = [view EXCEPT !.opened = rows],
             \A o \in DOMAIN rows \ stored.crossed : rows[o] \in {"loading", "problem", view.route},
             \A q \in Slots : calls'[q] # None => RowOfTheRoute(calls'[q])
      PROVE  RowsInv'
  <2>1. view'.opened = rows /\ view'.route = view.route
    BY <1>1, <1>2
  <2>2. \A q \in Slots : calls'[q] # None => RowOfTheRoute(calls[q])'
    BY <1>2, <2>1 DEF RowOfTheRoute
  <2> QED BY <1>1, <1>2, <2>1, <2>2 DEF RowsInv
<1>3. ASSUME NEW o \in Objects, ToggleRow(o)
      PROVE  RowsInv'
  <2> DEFINE x == Request("open", view.compared, o)
             shut == [p \in DOMAIN view.opened \ {o} |-> view.opened[p]]
             rows == OpenedRow(view.opened, o, "loading")
  <2>1. /\ OnCompare /\ page' = page /\ stored' = stored /\ view.compared = view.route
        /\ \/ view' = [view EXCEPT !.opened = shut] /\ calls' = calls
           \/ view' = [view EXCEPT !.opened = rows] /\ Send(<<x>>)
    BY <1>1, <1>3 DEF ToggleRow
  <2>2. IsRequest(x) /\ RowOfTheRoute(x)
    BY <2>1, Requests DEF Request, RowOfTheRoute
  <2>3. /\ \A p \in DOMAIN shut \ stored.crossed : shut[p] \in {"loading", "problem", view.route}
        /\ \A p \in DOMAIN rows \ stored.crossed : rows[p] \in {"loading", "problem", view.route}
    BY <1>1, <2>1 DEF OpenedRow
  <2> HIDE DEF x, shut, rows
  <2>4. CASE view' = [view EXCEPT !.opened = shut] /\ calls' = calls
    BY <1>1, <1>2, <2>1, <2>3, <2>4
  <2>5. CASE view' = [view EXCEPT !.opened = rows] /\ Send(<<x>>)
    <3>1. \A q \in Slots : calls'[q] \in {calls[q], x}
      BY <1>1, <2>1, <2>2, <2>5, KeptSending
    <3>2. \A q \in Slots : calls'[q] # None => RowOfTheRoute(calls'[q])
      BY <1>1, <2>1, <2>2, <3>1
    <3> QED BY <1>2, <2>1, <2>3, <2>5, <3>2
  <2> QED BY <2>1, <2>4, <2>5
<1>4. ASSUME NEW s \in Slots, RowRead(s)
      PROVE  RowsInv'
  <2> DEFINE c == calls[s]
  <2>0. /\ c # None /\ c.op = "open" /\ page' = page /\ stored' = stored /\ Ends(s, <<>>)
        /\ \/ c.stage = "answered" /\ view' = [view EXCEPT !.opened = OpenedRow(view.opened, c.with, c.answer)]
           \/ view' = [view EXCEPT !.opened = OpenedRow(view.opened, c.with, "problem")]
    BY <1>4 DEF RowRead, Answer, Failure, InStage
  <2> SUFFICES ASSUME NEW what, what = "problem" \/ (what = c.answer /\ c.stage = "answered"),
                      view' = [view EXCEPT !.opened = OpenedRow(view.opened, c.with, what)]
               PROVE  RowsInv'
    BY <2>0
  <2> DEFINE rows == OpenedRow(view.opened, c.with, what)
  <2>1. /\ c # None /\ c.op = "open" /\ page' = page /\ stored' = stored /\ Ends(s, <<>>)
        /\ view' = [view EXCEPT !.opened = rows] /\ (what = "problem" \/ (what = c.answer /\ c.stage = "answered"))
    BY <2>0
  <2>2. OnCompare
    <3>1. "open" \in OpsOf(page.name) => page.name = "compare"
      BY DEF OpsOf
    <3> QED BY <2>1, <3>1 DEF PackingInv, Shaped, OnCompare
  <2>3. \A p \in DOMAIN rows \ stored.crossed : rows[p] \in {"loading", "problem", view.route}
    <3>1. c.with \in stored.crossed \/ what \in {"problem", view.route}
      BY <1>1, <2>1, <2>2 DEF RowOfTheRoute
    <3> HIDE DEF c
    <3> QED BY <1>1, <2>2, <3>1 DEF OpenedRow
  <2>4. \A q \in Slots : calls'[q] # None => RowOfTheRoute(calls'[q])
    <3>1. calls'[s] = None /\ \A q \in Slots \ {s} : calls'[q] = calls[q]
      BY <1>1, <2>1, <2>2, AskedLess
    <3> QED BY <1>1, <2>2, <3>1
  <2> HIDE DEF rows
  <2> QED BY <1>2, <2>1, <2>2, <2>3, <2>4
<1> QED BY <1>3, <1>4

\* Another environment is chosen: the rows that are on their way are marked.
LEMMA RowsCross ==
  ASSUME PackingInv, RowsInv, NEW r \in Routes, ChooseRoute(r)
  PROVE  RowsInv'
<1> DEFINE x == Request("lastComparison", r, None)
           none == <<>>
<1>1. /\ OnCompare /\ page' = page /\ Send(<<x>>)
      /\ stored' = [stored EXCEPT !.crossed = RowsOnTheWay]
      /\ view' = [view EXCEPT !.route = r, !.result = None, !.picked = {}, !.opened = none, !.loadingLast = TRUE]
  BY DEF ChooseRoute
<1>2. DOMAIN none = {} /\ IsRequest(x) /\ x.op = "lastComparison"
  <2>1. DOMAIN none = {}
    OBVIOUS
  <2> HIDE DEF none
  <2>2. IsRequest(x)
    BY Requests
  <2>3. x.op = "lastComparison"
    BY DEF Request
  <2> QED BY <2>1, <2>2, <2>3
<1> HIDE DEF x, none
<1>3. /\ "crossed" \in DOMAIN stored /\ view = [f \in DOMAIN view |-> view[f]]
      /\ DOMAIN view = {"route", "result", "compared", "loadingLast", "busy", "picked", "opened", "including", "told"}
      /\ CallTable /\ \A s \in Slots : calls[s] # None => RowOfTheRoute(calls[s])
      /\ stored = [f \in DOMAIN stored |-> stored[f]]
  BY <1>1, CompareFields DEF RowsInv, Shelved
<1>4. view'.opened = none /\ "crossed" \in DOMAIN stored' /\ stored'.crossed = RowsOnTheWay
  BY <1>1, <1>3
<1>5. \A q \in Slots : calls'[q] \in {calls[q], x}
  BY <1>1, <1>2, <1>3, KeptSending
<1>6. \A q \in Slots : calls'[q] # None => RowOfTheRoute(calls[q])'
  <2>1. \A q \in Slots : calls[q] # None /\ calls[q].op = "open" => calls[q].with \in RowsOnTheWay
    BY DEF RowsOnTheWay
  <2>2. \A q \in Slots : calls'[q] # None /\ calls'[q].op = "open" => calls'[q] = calls[q]
    BY <1>2, <1>5
  <2> QED BY <1>3, <1>4, <2>1, <2>2 DEF RowOfTheRoute
<1> QED BY <1>2, <1>4, <1>6 DEF RowsInv

\* What is done in the page of a comparison, and in the list of the objects.
LEMMA RowsAcrossCatalog ==
  ASSUME PackingInv, RowsInv, NoneIsNoRecord, CatalogSteps
  PROVE  RowsInv'
<1> SUFFICES ASSUME OnCompare'
             PROVE  RowsInv'
  BY DEF RowsInv
<1>a. page' = page => OnCompare
  BY DEF OnCompare
<1>b. Shaped /\ CallTable /\ Shelved /\ \A s \in Slots : calls[s] # None => calls[s].op \in OpsOf(page.name)
  BY DEF PackingInv, Shaped
<1>c. ASSUME OnCompare
      PROVE  /\ "crossed" \in DOMAIN stored /\ view = [f \in DOMAIN view |-> view[f]]
             /\ DOMAIN view = {"route", "result", "compared", "loadingLast", "busy", "picked", "opened", "including", "told"}
  BY <1>c, CompareFields DEF RowsInv
<1>d. ASSUME NEW op, NEW at, NEW with
      PROVE  IsRequest(Request(op, at, with)) /\ Request(op, at, with).op = op
  <2>1. IsRequest(Request(op, at, with))
    BY Requests
  <2>2. Request(op, at, with).op = op
    BY DEF Request
  <2> QED BY <2>1, <2>2
<1>e. ASSUME page.name = "objects", page' = page
      PROVE  RowsInv'
  BY <1>e DEF OnCompare
<1>f. ASSUME NEW v, RefreshObjects(v)
      PROVE  page' = page
  BY <1>f DEF RefreshObjects
<1>1. ASSUME \/ \E f \in Searches : ChooseFilter(f) \/ TypeSearch(f)
             \/ \E where \in {"name", "script"} : LookIn(where)
             \/ TypingOver
      PROVE  RowsInv'
  <2>1. ASSUME NEW f \in Searches, ChooseFilter(f)
        PROVE  RowsInv'
    BY <1>e, <1>f, <2>1 DEF ChooseFilter, OnObjects
  <2>2. ASSUME NEW f \in Searches, TypeSearch(f)
        PROVE  RowsInv'
    BY <1>e, <2>2 DEF TypeSearch, OnObjects
  <2>3. ASSUME NEW where, LookIn(where)
        PROVE  RowsInv'
    BY <1>e, <1>f, <2>3 DEF LookIn, OnObjects
  <2>4. CASE TypingOver
    BY <1>e, <1>f, <2>4 DEF TypingOver, OnObjects
  <2> QED BY <1>1, <2>1, <2>2, <2>3, <2>4
<1>2. ASSUME NEW s \in Slots, ObjectsAnswered(s) \/ ObjectsFailed(s) \/ SearchEnds(s)
      PROVE  RowsInv'
  <2>1. calls[s] # None /\ calls[s].op \in {"objects", "search"} /\ page' = page
    BY <1>2 DEF ObjectsAnswered, ObjectsFailed, SearchEnds, Answer, Failure, InStage
  <2> QED BY <1>a, <1>b, <2>1 DEF OnCompare, OpsOf
<1>3. ASSUME NEW r \in Routes, ChooseRoute(r)
      PROVE  RowsInv'
  BY <1>3, RowsCross
<1>4. ASSUME (\E o \in Objects : ToggleRow(o)) \/ \E s \in Slots : RowRead(s)
      PROVE  RowsInv'
  BY <1>4, RowsToggled
<1>5. CASE RunComparison
  <2> DEFINE x == Request("compare", view.route, None)
             none == <<>>
  <2>1. /\ OnCompare /\ page' = page /\ Send(<<x>>) /\ stored' = [stored EXCEPT !.runs = @ + 1]
        /\ view' = [view EXCEPT !.busy = TRUE, !.picked = {}, !.opened = none]
    BY <1>5 DEF RunComparison, OneMoreRun
  <2>2. DOMAIN none = {} /\ IsRequest(x) /\ x.op \notin {"open"}
    <3>1. DOMAIN none = {}
      OBVIOUS
    <3> HIDE DEF none
    <3>2. IsRequest(x) /\ x.op = "compare"
      BY <1>d
    <3> HIDE DEF x
    <3> QED BY <3>1, <3>2
  <2> HIDE DEF x, none
  <2>3. Keeps({"open"})
    BY <1>b, <2>1, <2>2, KeptSending
  <2>4. view'.opened = none /\ view'.route = view.route /\ SameCrossed
    BY <1>b, <1>c, <2>1 DEF Shelved, SameCrossed
  <2>5. \A q \in Slots : calls'[q] # None => RowOfTheRoute(calls[q])'
    BY <2>1, <2>3, <2>4 DEF RowsInv, RowOfTheRoute, SameCrossed, Keeps, Outside
  <2> QED BY <2>2, <2>4, <2>5 DEF RowsInv, SameCrossed
<1>6. ASSUME (\E o \in Objects : Pick(o)) \/ Suggest
      PROVE  RowsInv'
  <2>1. PICK picked : view' = [view EXCEPT !.picked = picked]
    BY <1>6 DEF Pick, Suggest
  <2>2. UNCHANGED <<page, calls, stored>>
    BY <1>6 DEF Pick, Suggest
  <2>3. view'.opened = view.opened /\ view'.route = view.route
    BY <1>a, <1>c, <2>1, <2>2
  <2> QED BY <1>a, <1>c, <2>2, <2>3, RowsKept DEF Keeps
<1>7. CASE IncludePicked
  <2> DEFINE x == Request("drafts", None, None)
             e == Asking(view.picked)
  <2>1. /\ page' = page /\ Send(<<x>>) /\ view' = [view EXCEPT !.including = e, !.told = None]
        /\ (stored' = stored \/ stored' = [stored EXCEPT !.runs = @ + 1])
    BY <1>7 DEF IncludePicked, IncludeInto, OneMoreRun
  <2>2. IsRequest(x) /\ x.op \in Questions
    BY <1>d DEF Questions
  <2> HIDE DEF x, e
  <2>3. view'.opened = view.opened /\ view'.route = view.route /\ SameCrossed
    BY <1>a, <1>b, <1>c, <2>1 DEF Shelved, SameCrossed
  <2> QED BY <1>a, <2>1, <2>2, <2>3, InclusionRows
<1>8. ASSUME NEW s \in Slots, LastComparisonEnds(s) \/ ComparisonEnds(s)
      PROVE  RowsInv'
  <2>1. calls[s] # None /\ calls[s].op \in Comparing /\ page' = page /\ stored' = stored /\ Ends(s, <<>>)
    BY <1>8 DEF LastComparisonEnds, ComparisonEnds, Answer, Failure, InStage, Comparing
  <2>2. view'.opened = view.opened /\ view'.route = view.route
    <3>1. OnCompare
      BY <1>a, <2>1
    <3>2. CASE LastComparisonEnds(s)
      BY <1>c, <3>1, <3>2 DEF LastComparisonEnds
    <3>3. CASE ComparisonEnds(s)
      BY <1>c, <3>1, <3>3 DEF ComparisonEnds
    <3> QED BY <1>8, <3>2, <3>3
  <2>3. Keeps({"open"})
    <3>1. calls'[s] = None /\ \A q \in Slots \ {s} : calls'[q] = calls[q]
      BY <1>b, <2>1, AskedLess
    <3> QED BY <2>1, <3>1 DEF Keeps, Outside, Comparing
  <2> QED BY <1>a, <1>c, <2>1, <2>2, <2>3, RowsKept
<1>9. ASSUME NEW s \in Slots, CatalogServed(s)
      PROVE  RowsInv'
  <2> DEFINE c == calls[s]
  <2>1. c # None /\ c.op \in {"objects", "search", "lastComparison", "compare", "open"} /\ c.stage = "sent"
    BY <1>9 DEF CatalogServed, InStage
  <2>2. PICK answer \in CatalogAnswers(c) :
          Serve(s, answer, IF c.op = "compare" THEN [stored EXCEPT !.last[c.at] = answer] ELSE stored)
    BY <1>9 DEF CatalogServed
  <2> DEFINE last == [stored.last EXCEPT ![c.at] = answer]
  <2>3. /\ Serves(s, calls'[s]) /\ ServedAs(calls'[s], c, "answered", answer) /\ UNCHANGED <<page, view>>
        /\ stored' = IF c.op = "compare" THEN [stored EXCEPT !.last[c.at] = answer] ELSE stored
    BY <1>b, <2>1, <2>2, Serving
  <2>4. stored' = [stored EXCEPT !.last = last] \/ stored' = stored
    BY <2>3
  <2> HIDE DEF last
  <2>5. SameCrossed /\ OnCompare
    BY <1>a, <1>b, <1>c, <2>3, <2>4 DEF Shelved, SameCrossed
  <2>6. c.op = "open" => answer = c.at
    BY <2>2 DEF CatalogAnswers
  <2>7. \A q \in Slots : calls'[q] # None => RowOfTheRoute(calls[q])'
    <3> DEFINE e == calls'[s]
    <3>1. e.op = c.op /\ e.at = c.at /\ e.with = c.with /\ e.answer = answer
      BY <2>3 DEF ServedAs
    <3>2. RowOfTheRoute(c) /\ \A q \in Slots \ {s} : calls'[q] = calls[q]
      BY <2>1, <2>3, <2>5 DEF RowsInv, Serves
    <3>3. RowOfTheRoute(calls[s])'
      BY <2>3, <2>5, <2>6, <3>1, <3>2 DEF RowOfTheRoute, SameCrossed
    <3>4. ASSUME NEW q \in Slots \ {s}, calls'[q] # None
          PROVE  RowOfTheRoute(calls[q])'
      BY <2>3, <2>5, <3>2, <3>4 DEF RowsInv, RowOfTheRoute, SameCrossed
    <3> QED BY <3>3, <3>4
  <2> QED BY <2>3, <2>5, <2>7 DEF RowsInv, SameCrossed
<1> QED BY <1>1, <1>2, <1>3, <1>4, <1>5, <1>6, <1>7, <1>8, <1>9 DEF CatalogSteps

\* The page of a comparison opens with no row.
LEMMA RowsBegin == PackingInit => RowsInv
<1> SUFFICES ASSUME PackingInit, OnCompare
             PROVE  RowsInv
  BY DEF RowsInv
<1>1. PICK screen, kept : kept \in CatalogStores(screen) /\ screen = "compare" /\ Opened(CatalogOpening(screen), kept)
  <2>1. ASSUME NEW screen \in {"area", "packages"}, NEW kept, Opened(DraftOpening(screen), kept)
        PROVE  FALSE
    BY <2>1 DEF Opened, DraftOpening, OnCompare
  <2>2. ASSUME NEW screen \in {"objects", "picks"}, NEW kept, Opened(CatalogOpening(screen), kept)
        PROVE  FALSE
    BY <2>2 DEF Opened, CatalogOpening, OnCompare
  <2> QED BY <2>1, <2>2 DEF PackingInit, DraftInit, CatalogInit
<1> DEFINE o == CatalogOpening(screen)
           r == CHOOSE r \in Routes : TRUE
           a == Request("lastComparison", r, None)
           rows == <<>>
<1>2. /\ o.asks = <<a>>
      /\ o.view = [route |-> r, result |-> None, compared |-> None, loadingLast |-> TRUE, busy |-> FALSE,
                   picked |-> {}, opened |-> rows, including |-> None, told |-> None]
  BY <1>1 DEF CatalogOpening
<1>3. a.op = "lastComparison" /\ Fresh(<<a>>) /\ DOMAIN rows = {}
  BY Requests DEF Request
<1> HIDE DEF a, o, r, rows
<1>4. \A s \in Slots : calls[s] # None => calls[s] = a
  <2>1. Opened(o, kept)
    BY <1>1 DEF o
  <2>2. \A s \in Slots : calls[s] # None => \E i \in DOMAIN o.asks : calls[s] = o.asks[i]
    BY <1>2, <1>3, <2>1, Opening
  <2> QED BY <1>2, <2>2
<1>5. stored = kept /\ view = o.view
  BY <1>1 DEF Opened, o
<1>6. "crossed" \in DOMAIN stored
  BY <1>1, <1>5, StoresShelved
<1>7. view.opened = rows
  BY <1>2, <1>5
<1> QED BY <1>3, <1>4, <1>6, <1>7 DEF RowsInv, RowOfTheRoute

\* However comparisons and the ones kept from before cross, the one on the screen is of the
\* environment that is chosen, and so is every row that was read but one that was on its way
\* when another environment was chosen (LastComparisonEnds, ComparisonEnds, RowRead).
THEOREM OneRoute == ASSUME NoneIsNoRecord PROVE PackingSpec => []ComparisonIsOfTheRoute
<1>1. PackingInit => PackingInv /\ RowsInv
  <2>1. PackingInit => PackingInv
    BY DraftBegins, CatalogBegins DEF PackingInit
  <2>2. PackingInit => RowsInv
    BY RowsBegin
  <2> QED BY <2>1, <2>2
<1>2. PackingInv /\ [PackingSteps]_browser => PackingInv'
  BY PackingStep
<1>3. PackingInv /\ RowsInv /\ [PackingSteps]_browser => RowsInv'
  <2>1. RowsInv /\ UNCHANGED browser => RowsInv'
    BY DEF browser, RowsInv, RowOfTheRoute, OnCompare
  <2> QED BY <2>1, RowsAcrossDrafts, RowsAcrossCatalog DEF PackingSteps
<1>4. PackingInv /\ RowsInv => ComparisonIsOfTheRoute
  BY DEF PackingInv, CompareInv, KeptOf, RowsInv, ComparisonIsOfTheRoute
<1> QED BY <1>1, <1>2, <1>3, <1>4, PTL DEF PackingSpec

\* Searches typed, chosen and moved between names and scripts while answers are on the way: once
\* the last question was answered, what is listed is what is searched for (ObjectsAnswered, SearchEnds).
THEOREM OneSearch == ASSUME NoneIsNoRecord PROVE PackingSpec => []ListIsOfTheSearch
<1>1. PackingInit => PackingInv
  BY DraftBegins, CatalogBegins DEF PackingInit
<1>2. PackingInv /\ [PackingSteps]_browser => PackingInv'
  BY PackingStep
<1>3. PackingInv => ListIsOfTheSearch
  BY DEF PackingInv, ListInv, Counting, Latest, ListIsOfTheSearch
<1> QED BY <1>1, <1>2, <1>3, PTL DEF PackingSpec

-----------------------------------------------------------------------------
(* Files of a machine: what the proxy has not read *)

FilesFields == {"open", "loaded", "text", "edited", "busy", "unread"}
FilesStore == {"files", "running", "elsewhere", "edits", "unheard"}
MachineOps == {"writeFile", "proxyTest", "proxyReload", "proxyRestart"}

\* The proxy runs every file that nobody else wrote as it was last written.
RunsAll == \A f \in TargetFiles \ stored.elsewhere : stored.running[f] = stored.files[f]

\* On the way: that the proxy has read its configuration; that a file was written.
SaysRead(c) == c # None /\ c.op \in {"proxyReload", "proxyRestart"} /\ c.stage = "answered" /\ c.answer
SaysSaved(c) == c # None /\ c.op = "writeFile" /\ c.stage = "answered" /\ c.answer.saved

\* One thing at a time is asked of the machine, and the page is busy with it.  What it says
\* of having read is so until the page has it, and what the proxy does not run the page says,
\* or an answer on its way will have it say.
FilesInv ==
  /\ CallTable
  /\ page.name \in {"application", "proxy"}
  /\ view = [f \in FilesFields |-> view[f]]
  /\ view.busy <=> InFlight(MachineOps) # {}
  /\ AtMostOne(InFlight(MachineOps))
  /\ stored = [f \in FilesStore |-> stored[f]]
  /\ DOMAIN stored.files = TargetFiles
  /\ \A s \in Slots : SaysRead(calls[s]) => RunsAll
  /\ OnProxy /\ ~stored.unheard /\ ~view.unread => RunsAll \/ \E s \in Slots : SaysSaved(calls[s])

\* What is asked of the machine and what the page knows of it stay, and no less is run.
LEMMA FilesStay ==
  ASSUME FilesInv, CallTable', page' = page, Keeps(MachineOps),
         view' = [f \in FilesFields |-> view'[f]], view'.busy = view.busy, view'.unread = view.unread,
         stored' = [f \in FilesStore |-> stored'[f]], DOMAIN stored'.files = TargetFiles,
         stored'.unheard = stored.unheard, RunsAll => RunsAll'
  PROVE  FilesInv'
<1>1. InFlight(MachineOps)' = InFlight(MachineOps)
  BY KeptAsked
<1>2. ASSUME NEW s \in Slots
      PROVE  (SaysRead(calls[s])' <=> SaysRead(calls[s])) /\ (SaysSaved(calls[s])' <=> SaysSaved(calls[s]))
  BY DEF Keeps, Outside, SaysRead, SaysSaved, MachineOps
<1>3. /\ \A s \in Slots : SaysRead(calls[s])' => RunsAll'
      /\ (OnProxy /\ ~stored.unheard /\ ~view.unread)' => RunsAll' \/ \E s \in Slots : SaysSaved(calls[s])'
  BY <1>2 DEF FilesInv, OnProxy
<1> QED BY <1>1, <1>3 DEF FilesInv

\* Nothing is asked of the machine by what asks for a file or for all of them.
LEMMA FilesAsk ==
  ASSUME NEW op \in {"files", "targetFile"}, NEW at, NEW with
  PROVE  IsRequest(Request(op, at, with)) /\ Request(op, at, with).op \notin MachineOps
BY Requests DEF Request, MachineOps

\* The request that something be done of the machine, from a page that is not busy.
LEMMA MachineAsked ==
  ASSUME FilesInv, NoneIsNoRequest, NEW op \in MachineOps, NEW at, NEW with, AskMachine(op, at, with)
  PROVE  FilesInv'
<1> DEFINE x == Request(op, at, with)
<1>1. IsRequest(x) /\ x.op = op /\ x.stage = "sent"
  BY Requests DEF Request
<1>2. /\ view' = [view EXCEPT !.busy = TRUE] /\ Send(<<x>>) /\ ~view.busy
      /\ UNCHANGED <<page, stored>>
  BY DEF AskMachine
<1> HIDE DEF x
<1>3. CallTable
  BY DEF FilesInv
<1>4. PICK k \in Slots : /\ CallTable' /\ calls[k] = None /\ calls'[k] = x
                         /\ \A q \in Slots \ {k} : calls'[q] = calls[q]
                         /\ \A ops : InFlight(ops)' = InFlight(ops) \union (IF x.op \in ops THEN {k} ELSE {})
  BY <1>1, <1>2, <1>3, AskedMore
<1>5. InFlight(MachineOps) = {} /\ InFlight(MachineOps)' = {k}
  BY <1>1, <1>2, <1>4 DEF FilesInv
<1>6. view' = [f \in FilesFields |-> view'[f]] /\ view'.busy /\ view'.unread = view.unread
  BY <1>2 DEF FilesInv, FilesFields
<1>7. \A s \in Slots : /\ SaysRead(calls'[s]) => SaysRead(calls[s])
                       /\ SaysSaved(calls[s]) => SaysSaved(calls'[s])
  BY <1>1, <1>4 DEF SaysRead, SaysSaved
<1>8. RunsAll' <=> RunsAll
  BY <1>2 DEF RunsAll
<1>9. \A s \in Slots : SaysRead(calls'[s]) => RunsAll'
  BY <1>7, <1>8 DEF FilesInv
<1>10. (OnProxy /\ ~stored.unheard /\ ~view.unread)' => RunsAll' \/ \E s \in Slots : SaysSaved(calls'[s])
  BY <1>2, <1>6, <1>7, <1>8 DEF FilesInv, OnProxy
<1> QED BY <1>2, <1>4, <1>5, <1>6, <1>9, <1>10 DEF FilesInv, AtMostOne, SaysRead, SaysSaved

\* The continuation of what was asked of the machine.
LEMMA MachineEnds ==
  ASSUME FilesInv, NoneIsNoRequest, NEW s \in InFlight(MachineOps), page' = page,
         Ends(s, <<>>) \/ Ends(s, FilesQuestion),
         view' = [f \in FilesFields |-> view'[f]], ~view'.busy,
         stored' = [f \in FilesStore |-> stored'[f]], DOMAIN stored'.files = TargetFiles,
         RunsAll' <=> RunsAll,
         (OnProxy /\ ~stored.unheard /\ ~view.unread)' => RunsAll
  PROVE  FilesInv'
<1> DEFINE x == Request("files", None, None)
<1>1. IsRequest(x) /\ x.op \notin MachineOps /\ s \in Slots
  BY FilesAsk DEF InFlight
<1>2. Ends(s, <<>>) \/ Ends(s, <<x>>)
  BY DEF FilesQuestion
<1> HIDE DEF x
<1>3. CallTable' /\ InFlight(MachineOps)' = InFlight(MachineOps) \ {s}
  BY <1>1, <1>2, AskedLess, AskedInstead DEF FilesInv
<1>4. InFlight(MachineOps)' = {}
  BY <1>3 DEF FilesInv, AtMostOne
<1>5. \A q \in Slots : ~SaysRead(calls'[q])
  BY <1>4 DEF InFlight, SaysRead, MachineOps
<1> QED BY <1>3, <1>4, <1>5 DEF FilesInv, AtMostOne, OnProxy

\* Nobody is told that the proxy read all while a write is on its way.
LEMMA NotBoth ==
  ASSUME FilesInv, NEW s \in InFlight({"writeFile", "proxyTest", "proxyReload", "proxyRestart"}), NEW q \in Slots, q # s
  PROVE  ~SaysRead(calls[q]) /\ ~SaysSaved(calls[q])
BY DEF FilesInv, AtMostOne, InFlight, SaysRead, SaysSaved, MachineOps

\* The Worker Control carries something out, or refuses it.
LEMMA MachineServes ==
  ASSUME FilesInv, NoneIsNoRequest, NEW s \in Slots, FilesServed(s)
  PROVE  FilesInv'
<1> DEFINE answer == calls'[s].answer
<1>0. CallTable /\ calls[s] # None
  BY DEF FilesInv, FilesServed, InStage
<1>1. Refuse(s) \/ \E a, after : Serve(s, a, after)
  BY DEF FilesServed
<1>2. /\ Serves(s, calls'[s]) /\ IsRequest(calls'[s]) /\ calls'[s].op = calls[s].op /\ UNCHANGED <<page, view>>
  BY <1>0, <1>1, Serving DEF ServedAs
<1>3. CallTable' /\ InFlight(MachineOps)' = InFlight(MachineOps)
  BY <1>0, <1>1, AskedStill
<1>4. \A q \in Slots \ {s} : calls'[q] = calls[q]
  BY <1>2 DEF Serves
<1>5. CASE calls[s].op \notin MachineOps
  <2>1. Keeps(MachineOps)
    BY <1>0, <1>2, <1>5, KeptServing
  <2>2. stored' = stored
    BY <1>0, <1>5, Serving DEF FilesServed, InStage, MachineOps
  <2>3. RunsAll => RunsAll'
    BY <2>2 DEF RunsAll
  <2> QED BY <1>2, <1>3, <2>1, <2>2, <2>3, FilesStay DEF FilesInv
<1>6. CASE calls[s].op \in MachineOps
  <2>0. s \in InFlight({"writeFile", "proxyTest", "proxyReload", "proxyRestart"}) /\ calls[s].stage = "sent"
    BY <1>0, <1>6 DEF InFlight, MachineOps, FilesServed, InStage
  <2>1. ~SaysRead(calls[s]) /\ ~SaysSaved(calls[s])
    BY <2>0 DEF SaysRead, SaysSaved
  <2>2. \A q \in Slots : ~SaysRead(calls[q]) /\ ~SaysSaved(calls[q])
    BY <2>0, <2>1, NotBoth
  <2>3. \A q \in Slots \ {s} : ~SaysRead(calls'[q]) /\ ~SaysSaved(calls'[q])
    BY <1>4, <2>2
  <2>4. OnProxy /\ ~stored.unheard /\ ~view.unread => RunsAll
    BY <2>2 DEF FilesInv
  <2>5. ASSUME stored' = [f \in FilesStore |-> stored'[f]], DOMAIN stored'.files = TargetFiles,
               stored'.unheard = stored.unheard, SaysRead(calls'[s]) => RunsAll',
               RunsAll => RunsAll' \/ SaysSaved(calls'[s])
        PROVE  FilesInv'
    <3>1. \A q \in Slots : SaysRead(calls'[q]) => RunsAll'
      BY <2>3, <2>5
    <3>2. (OnProxy /\ ~stored.unheard /\ ~view.unread)' => RunsAll' \/ \E q \in Slots : SaysSaved(calls'[q])
      BY <1>2, <2>4, <2>5 DEF OnProxy
    <3> QED BY <1>2, <1>3, <2>5, <3>1, <3>2 DEF FilesInv, SaysRead, SaysSaved
  <2>6. CASE stored' = stored /\ ~(calls[s].op \in {"proxyReload", "proxyRestart"} /\ calls'[s].stage = "answered" /\ calls'[s].answer)
    <3>1. ~SaysRead(calls'[s]) /\ (RunsAll <=> RunsAll')
      BY <1>2, <2>6 DEF SaysRead, RunsAll
    <3> QED BY <2>5, <2>6, <3>1 DEF FilesInv
  <2>7. CASE calls[s].op \in {"proxyReload", "proxyRestart"} /\ stored' = [stored EXCEPT !.running = stored.files, !.elsewhere = {}]
    <3>1. /\ stored' = [f \in FilesStore |-> stored'[f]] /\ stored'.files = stored.files
          /\ stored'.running = stored.files /\ stored'.unheard = stored.unheard
      BY <2>7 DEF FilesInv, FilesStore
    <3>2. RunsAll'
      BY <3>1 DEF RunsAll
    <3> QED BY <2>5, <3>1, <3>2 DEF FilesInv
  <2>8. ASSUME NEW f, NEW v, calls[s].op = "writeFile", calls'[s].stage = "answered", calls'[s].answer.saved,
               stored' = [stored EXCEPT !.files[f] = v, !.elsewhere = @ \ {f}]
        PROVE  FilesInv'
    <3>1. /\ stored' = [g \in FilesStore |-> stored'[g]] /\ DOMAIN stored'.files = TargetFiles
          /\ stored'.unheard = stored.unheard
      BY <2>8 DEF FilesInv, FilesStore
    <3>2. SaysSaved(calls'[s]) /\ ~SaysRead(calls'[s])
      BY <1>2, <2>8 DEF SaysRead, SaysSaved, NoneIsNoRequest
    <3> QED BY <2>5, <3>1, <3>2
  <2>9. CASE calls[s].op = "writeFile"
    <3>1. InStage(s, {"writeFile"}, "sent")
      BY <1>0, <2>0, <2>9 DEF InStage
    <3>2. Refuse(s) => stored' = stored
      BY DEF Refuse
    <3>3. CASE ~Refuse(s)
      <4> DEFINE f == calls[s].at
                 v == calls[s].with.content
      <4>1. PICK saved \in WriteAnswers :
              Serve(s, [saved |-> saved, sha |-> v],
                    IF saved THEN [stored EXCEPT !.files[f] = v, !.elsewhere = @ \ {f}] ELSE stored)
        BY <2>9, <3>3 DEF FilesServed, InStage
      <4>2. /\ calls'[s].stage = "answered" /\ calls'[s].answer = [saved |-> saved, sha |-> v]
            /\ stored' = IF saved THEN [stored EXCEPT !.files[f] = v, !.elsewhere = @ \ {f}] ELSE stored
        BY <1>0, <4>1, Serving DEF ServedAs
      <4>3. calls'[s].answer.saved = saved
        BY <4>2
      <4> HIDE DEF f, v
      <4> QED BY <2>6, <2>8, <2>9, <4>2, <4>3
    <3> QED BY <2>6, <2>9, <3>2, <3>3
  <2>10. CASE calls[s].op \in {"proxyReload", "proxyRestart"}
    <3>1. PICK taken \in BOOLEAN :
            Serve(s, taken, IF taken THEN [stored EXCEPT !.running = stored.files, !.elsewhere = {}] ELSE stored)
      BY <2>10 DEF FilesServed, InStage
    <3>2. /\ calls'[s].answer = taken
          /\ stored' = IF taken THEN [stored EXCEPT !.running = stored.files, !.elsewhere = {}] ELSE stored
      BY <1>0, <3>1, Serving DEF ServedAs
    <3> QED BY <2>6, <2>7, <2>10, <3>2
  <2>11. CASE calls[s].op = "proxyTest"
    <3>1. Serve(s, TRUE, stored)
      BY <2>11 DEF FilesServed, InStage
    <3>2. stored' = stored
      BY <3>1 DEF Serve
    <3> QED BY <2>6, <2>11, <3>2
  <2> QED BY <1>6, <2>9, <2>10, <2>11 DEF MachineOps
<1> QED BY <1>5, <1>6

\* Every step of the screens of the files keeps the invariant.
LEMMA FilesStep == FilesInv /\ NoneIsNoRequest /\ [FileSteps]_browser => FilesInv'
<1> SUFFICES ASSUME FilesInv, NoneIsNoRequest, [FileSteps]_browser
             PROVE  FilesInv'
  OBVIOUS
<1>0. /\ CallTable /\ view = [f \in FilesFields |-> view[f]] /\ stored = [f \in FilesStore |-> stored[f]]
      /\ DOMAIN stored.files = TargetFiles
  BY DEF FilesInv
<1>a. calls' = calls => CallTable' /\ Keeps(MachineOps)
  BY <1>0 DEF CallTable, Keeps
<1>b. UNCHANGED stored => (RunsAll' <=> RunsAll)
  BY DEF RunsAll
<1>1. CASE UNCHANGED browser
  BY <1>0, <1>1, <1>a, <1>b, FilesStay DEF browser
<1>2. ASSUME NEW f \in TargetFiles, WrittenElsewhere(f)
      PROVE  FilesInv'
  <2> DEFINE n == stored.edits + 1
             v == Content(f, stored.edits + 1)
  <2>1. stored' = [[stored EXCEPT !.edits = n] EXCEPT !.files[f] = v, !.elsewhere = @ \union {f}]
        /\ UNCHANGED <<page, view, calls>>
    BY <1>2 DEF WrittenElsewhere, Edited
  <2> HIDE DEF n, v
  <2>2. /\ stored' = [g \in FilesStore |-> stored'[g]] /\ DOMAIN stored'.files = TargetFiles
        /\ \A g \in TargetFiles \ {f} : stored'.files[g] = stored.files[g]
        /\ stored'.running = stored.running
        /\ stored'.elsewhere = stored.elsewhere \union {f} /\ stored'.unheard = stored.unheard
    BY <1>0, <2>1 DEF FilesStore
  <2>3. RunsAll => RunsAll'
    BY <2>2 DEF RunsAll
  <2> QED BY <1>0, <1>a, <2>1, <2>2, <2>3, FilesStay
<1>3. ASSUME NEW f \in TargetFiles, SelectFile(f)
      PROVE  FilesInv'
  <2>1. CallTable' /\ Keeps(MachineOps)
    BY <1>0, <1>3, FilesAsk, KeptSending DEF SelectFile
  <2>2. view' = [g \in FilesFields |-> view'[g]] /\ view'.busy = view.busy /\ view'.unread = view.unread
    BY <1>0, <1>3 DEF SelectFile, FilesFields
  <2> QED BY <1>0, <1>3, <1>b, <2>1, <2>2, FilesStay DEF SelectFile
<1>4. CASE TypeInFile
  <2> DEFINE n == stored.edits + 1
  <2>1. /\ view' = [view EXCEPT !.text.edition = n, !.edited = TRUE]
        /\ stored' = [stored EXCEPT !.edits = n] /\ UNCHANGED <<page, calls>>
    BY <1>4 DEF TypeInFile, Edited
  <2> HIDE DEF n
  <2>2. view' = [g \in FilesFields |-> view'[g]] /\ view'.busy = view.busy /\ view'.unread = view.unread
    BY <1>0, <2>1 DEF FilesFields
  <2>3. /\ stored' = [g \in FilesStore |-> stored'[g]] /\ stored'.files = stored.files
        /\ stored'.running = stored.running /\ stored'.elsewhere = stored.elsewhere /\ stored'.unheard = stored.unheard
    BY <1>0, <2>1 DEF FilesStore
  <2>4. RunsAll => RunsAll'
    BY <2>3 DEF RunsAll
  <2> QED BY <1>0, <1>a, <2>1, <2>2, <2>3, <2>4, FilesStay
<1>5. CASE DiscardText
  <2>1. view' = [g \in FilesFields |-> view'[g]] /\ view'.busy = view.busy /\ view'.unread = view.unread
    BY <1>0, <1>5 DEF DiscardText, FilesFields
  <2> QED BY <1>0, <1>5, <1>a, <1>b, <2>1, FilesStay DEF DiscardText
<1>6. CASE SaveText
  BY <1>6, MachineAsked DEF SaveText, MachineOps
<1>7. ASSUME NEW op \in {"proxyTest", "proxyReload", "proxyRestart"}, AskProxy(op)
      PROVE  FilesInv'
  BY <1>7, MachineAsked DEF AskProxy, MachineOps
<1>8. ASSUME NEW s \in Slots, FilesServed(s)
      PROVE  FilesInv'
  BY <1>8, MachineServes
<1>9. ASSUME NEW s \in Slots, FileRead(s) \/ FilesHeard(s)
      PROVE  FilesInv'
  <2>1. Outside(calls[s], MachineOps) /\ Ends(s, <<>>) /\ UNCHANGED <<page, stored>>
    BY <1>9 DEF FileRead, FilesHeard, Answer, Failure, InStage, Outside, MachineOps
  <2>2. CallTable' /\ Keeps(MachineOps)
    BY <1>0, <2>1, FilesAsk, KeptEnding
  <2>3. view' = [g \in FilesFields |-> view'[g]] /\ view'.busy = view.busy /\ view'.unread = view.unread
    <3>1. CASE FilesHeard(s)
      BY <1>0, <3>1 DEF FilesHeard
    <3>2. CASE FileRead(s)
      <4> DEFINE a == calls[s].answer
                 l == [content |-> a, sha |-> a]
      <4>1. view' = [view EXCEPT !.loaded = l, !.text = a]
        BY <3>2 DEF FileRead
      <4> HIDE DEF a, l
      <4> QED BY <1>0, <4>1 DEF FilesFields
    <3> QED BY <1>9, <3>1, <3>2
  <2> QED BY <1>0, <1>b, <2>1, <2>2, <2>3, FilesStay
<1>10. ASSUME NEW s \in Slots, TextSaved(s)
       PROVE  FilesInv'
  <2> DEFINE l == [content |-> view.text, sha |-> calls[s].answer.sha]
  <2>1. /\ s \in InFlight(MachineOps) /\ UNCHANGED <<page, stored>>
        /\ s \in InFlight({"writeFile", "proxyTest", "proxyReload", "proxyRestart"})
        /\ calls[s].op = "writeFile" /\ calls[s].stage = "answered" /\ calls[s] # None
    BY <1>10 DEF TextSaved, Answer, InStage, InFlight, MachineOps
  <2>2. CASE calls[s].answer.saved
    <3>1. /\ view' = [view EXCEPT !.busy = FALSE, !.loaded = l, !.edited = FALSE, !.unread = @ \/ OnProxy]
          /\ Ends(s, FilesQuestion)
      BY <1>10, <2>2 DEF TextSaved
    <3> HIDE DEF l
    <3>2. /\ view' = [g \in FilesFields |-> view'[g]] /\ ~view'.busy
          /\ view'.unread = (view.unread \/ OnProxy)
      BY <1>0, <3>1 DEF FilesFields
    <3>3. ~(OnProxy /\ ~view.unread)'
      BY <2>1, <3>2 DEF OnProxy
    <3> QED BY <1>0, <1>b, <2>1, <3>1, <3>2, <3>3, MachineEnds
  <2>3. CASE ~calls[s].answer.saved
    <3>1. view' = [view EXCEPT !.busy = FALSE] /\ Ends(s, <<>>)
      BY <1>10, <2>3 DEF TextSaved
    <3>2. view' = [g \in FilesFields |-> view'[g]] /\ ~view'.busy /\ view'.unread = view.unread
      BY <1>0, <3>1 DEF FilesFields
    <3>3. \A q \in Slots : ~SaysSaved(calls[q])
      BY <2>1, <2>3, NotBoth DEF SaysSaved
    <3>4. (OnProxy /\ ~stored.unheard /\ ~view.unread)' => RunsAll
      BY <2>1, <3>2, <3>3 DEF FilesInv, OnProxy
    <3> QED BY <1>0, <1>b, <2>1, <3>1, <3>2, <3>4, MachineEnds
  <2> QED BY <2>2, <2>3
<1>11. ASSUME NEW s \in Slots, ProxySays(s)
       PROVE  FilesInv'
  <2>1. PICK op \in {"proxyTest", "proxyReload", "proxyRestart"} :
          /\ Answer(s, op)
          /\ view' = [view EXCEPT !.busy = FALSE, !.unread = @ /\ (op = "proxyTest" \/ ~calls[s].answer)]
          /\ Ends(s, IF op = "proxyRestart" THEN FilesQuestion ELSE <<>>)
    BY <1>11 DEF ProxySays
  <2>2. /\ s \in InFlight(MachineOps) /\ UNCHANGED <<page, stored>>
        /\ s \in InFlight({"writeFile", "proxyTest", "proxyReload", "proxyRestart"})
        /\ calls[s].op = op /\ calls[s].stage = "answered" /\ calls[s] # None
    BY <1>11, <2>1 DEF ProxySays, Answer, InStage, InFlight, MachineOps
  <2>3. /\ view' = [g \in FilesFields |-> view'[g]] /\ ~view'.busy
        /\ view'.unread <=> view.unread /\ (op = "proxyTest" \/ ~calls[s].answer)
    BY <1>0, <2>1 DEF FilesFields
  <2>4. Ends(s, <<>>) \/ Ends(s, FilesQuestion)
    BY <2>1
  <2>5. \A q \in Slots : ~SaysSaved(calls[q])
    BY <2>2, NotBoth DEF SaysSaved
  <2>6. CASE ~view.unread
    <3>1. (OnProxy /\ ~stored.unheard /\ ~view.unread)' => RunsAll
      BY <2>2, <2>5, <2>6 DEF FilesInv, OnProxy
    <3> QED BY <1>0, <1>b, <2>2, <2>3, <2>4, <3>1, MachineEnds
  <2>7. CASE view.unread
    <3>1. (~view.unread)' => SaysRead(calls[s])
      BY <2>2, <2>3, <2>7 DEF SaysRead
    <3>2. (OnProxy /\ ~stored.unheard /\ ~view.unread)' => RunsAll
      BY <3>1 DEF FilesInv
    <3> QED BY <1>0, <1>b, <2>2, <2>3, <2>4, <3>2, MachineEnds
  <2> QED BY <2>6, <2>7
<1>12. ASSUME NEW s \in Slots, MachineFails(s)
       PROVE  FilesInv'
  <2> DEFINE heard == calls[s].stage = "answered"
  <2>1. /\ s \in InFlight(MachineOps) /\ page' = page /\ Ends(s, <<>>)
        /\ s \in InFlight({"writeFile", "proxyTest", "proxyReload", "proxyRestart"})
        /\ view' = [view EXCEPT !.busy = FALSE] /\ stored' = [stored EXCEPT !.unheard = @ \/ heard]
    BY <1>12 DEF MachineFails, Failure, InFlight, MachineOps
  <2>2. SaysSaved(calls[s]) => heard
    BY DEF SaysSaved
  <2> HIDE DEF heard
  <2>3. view' = [g \in FilesFields |-> view'[g]] /\ ~view'.busy /\ view'.unread = view.unread
    BY <1>0, <2>1 DEF FilesFields
  <2>4. /\ stored' = [g \in FilesStore |-> stored'[g]] /\ stored'.files = stored.files
        /\ stored'.running = stored.running /\ stored'.elsewhere = stored.elsewhere
        /\ stored'.unheard = (stored.unheard \/ heard)
    BY <1>0, <2>1 DEF FilesStore
  <2>5. RunsAll' <=> RunsAll
    BY <2>4 DEF RunsAll
  <2>6. ~heard => \A q \in Slots : ~SaysSaved(calls[q])
    BY <2>1, <2>2, NotBoth
  <2>7. (OnProxy /\ ~stored.unheard /\ ~view.unread)' => RunsAll
    BY <2>1, <2>3, <2>4, <2>6 DEF FilesInv, OnProxy
  <2> QED BY <1>0, <2>1, <2>3, <2>4, <2>5, <2>7, MachineEnds
<1> QED BY <1>1, <1>2, <1>3, <1>4, <1>5, <1>6, <1>7, <1>8, <1>9, <1>10, <1>11, <1>12 DEF FileSteps

\* While every answer comes, what was saved on the page of the proxy runs, or the page says that
\* it does not yet (FileScreens, UnreadIsSaid).
THEOREM ReadOrSaid == ASSUME NoneIsNoRequest PROVE FileSpec => []UnreadIsSaid
<1>1. FileInit => FilesInv
  <2> SUFFICES ASSUME NEW screen \in {"application", "proxy"}, Opened(FileOpening(screen), FileStored)
               PROVE  FilesInv
    BY DEF FileInit
  <2> DEFINE o == FileOpening(screen)
             x == Request("files", None, None)
  <2>1. /\ o.page = [name |-> screen] /\ o.asks = <<x>> /\ Fresh(o.asks)
        /\ o.view = [f \in FilesFields |-> o.view[f]] /\ ~o.view.busy /\ ~o.view.unread
        /\ x.op \notin MachineOps
    BY Requests DEF FileOpening, FilesQuestion, FilesFields, Request, MachineOps
  <2> HIDE DEF o, x
  <2>2. CallTable /\ \A s \in Slots : calls[s] # None => \E i \in DOMAIN o.asks : calls[s] = o.asks[i]
    BY <2>1, Opening DEF o
  <2>3. page = [name |-> screen] /\ view = o.view /\ stored = FileStored
    BY <2>1 DEF Opened, o
  <2>4. \A s \in Slots : calls[s] # None => calls[s].op \notin MachineOps
    BY <2>1, <2>2
  <2>5. InFlight(MachineOps) = {} /\ \A s \in Slots : ~SaysRead(calls[s])
    BY <2>4 DEF InFlight, SaysRead, MachineOps
  <2>6. /\ stored = [f \in FilesStore |-> stored[f]] /\ DOMAIN stored.files = TargetFiles
        /\ stored.running = stored.files
    BY <2>3 DEF FileStored, FilesStore
  <2>7. RunsAll
    BY <2>6 DEF RunsAll
  <2> QED BY <2>1, <2>2, <2>3, <2>5, <2>6, <2>7 DEF FilesInv, AtMostOne
<1>2. FilesInv => UnreadIsSaid
  <2> SUFFICES ASSUME FilesInv, OnProxy, ~stored.unheard, ~view.busy, ~view.unread
               PROVE  RunsAll
    BY DEF UnreadIsSaid, RunsAll
  <2>1. \A s \in Slots : ~SaysSaved(calls[s])
    BY DEF FilesInv, InFlight, SaysSaved, MachineOps
  <2> QED BY <2>1 DEF FilesInv
<1>3. FilesInv /\ [FileSteps]_browser => FilesInv'
  BY FilesStep
<1> QED BY <1>1, <1>2, <1>3, PTL DEF FileSpec

-----------------------------------------------------------------------------
(* What is packed, one thing after the other *)

UploadFields == {"targets", "inbox", "problem", "busy", "search", "picked", "dialog", "outcome"}
UploadKeeps == {"targets", "inbox", "manual", "open", "used", "made", "taken", "tasks", "spent", "unheard"}
TaskFields == {"op", "draft", "chosen", "left", "alone", "done", "failed"}
Packs == {"addRunning", "addIncoming"}

\* What a task says to have gone in did, into a package there is.
WereTaken(task, taken) == task.done = {} \/ (task.draft \in Packages /\ task.done \subseteq taken[task.draft])

\* One item of a task is on its way: the others went in, or did not, or are left.
ItemUnderway(c, taken) ==
  LET task == c.with.task
      item == c.with.item
  IN  /\ task = [f \in TaskFields |-> task[f]]
      /\ task.op = c.op /\ task.draft = c.at
      /\ task.done \union task.failed \union task.left \union {item} = task.chosen
      /\ task.done \intersect task.failed = {}
      /\ task.left \intersect (task.done \union task.failed) = {}
      /\ item \notin task.done \union task.failed \union task.left
      /\ WereTaken(task, taken)
      /\ c.stage = "answered" => task.draft \in Packages /\ item \in taken[task.draft]

\* What is told at the end of a task.
RightlyTold(task, taken) ==
  /\ WereTaken(task, taken)
  /\ task.done \union task.failed = task.chosen
  /\ task.done \intersect task.failed = {}

\* What the service keeps, of the packages there may be.
IsShelf(kept) ==
  /\ kept = [f \in UploadKeeps |-> kept[f]]
  /\ kept.open \subseteq Packages /\ kept.used \subseteq Packages
  /\ DOMAIN kept.taken = Packages

ShelfRight == IsShelf(stored)

UploadInv ==
  /\ CallTable
  /\ page.name \in {"uploads", "elsewhere"}
  /\ OnUploads => /\ view = [f \in UploadFields |-> view[f]]
                  /\ view.outcome # None => RightlyTold(view.outcome, stored.taken)
  /\ ~OnUploads => \A s \in Slots : calls[s] = None
  /\ ShelfRight
  /\ \A s \in InFlight(Packs) : ItemUnderway(calls[s], stored.taken)

More(taken, after) == \A d \in Packages : taken[d] \subseteq after[d]
MoreTaken == ShelfRight' /\ More(stored.taken, stored'.taken)

\* What went in stays in.
LEMMA StillTaken ==
  ASSUME NEW taken, NEW after, More(taken, after)
  PROVE  /\ \A task : WereTaken(task, taken) => WereTaken(task, after)
         /\ \A task : RightlyTold(task, taken) => RightlyTold(task, after)
         /\ \A c : ItemUnderway(c, taken) => ItemUnderway(c, after)
<1>1. \A task : WereTaken(task, taken) => WereTaken(task, after)
  BY DEF More, WereTaken
<1>2. \A task : RightlyTold(task, taken) => RightlyTold(task, after)
  BY <1>1 DEF RightlyTold
<1>3. ASSUME NEW c, ItemUnderway(c, taken)
      PROVE  ItemUnderway(c, after)
  <2> DEFINE task == c.with.task
             item == c.with.item
  <2>1. WereTaken(task, after)
    BY <1>1, <1>3 DEF ItemUnderway
  <2>2. c.stage = "answered" => task.draft \in Packages /\ item \in after[task.draft]
    BY <1>3 DEF ItemUnderway, More
  <2>3. /\ task = [f \in TaskFields |-> task[f]]
        /\ task.op = c.op /\ task.draft = c.at
        /\ task.done \union task.failed \union task.left \union {item} = task.chosen
        /\ task.done \intersect task.failed = {}
        /\ task.left \intersect (task.done \union task.failed) = {}
        /\ item \notin task.done \union task.failed \union task.left
    BY <1>3, Zenon DEF ItemUnderway
  <2> HIDE DEF task, item
  <2> QED BY <2>1, <2>2, <2>3, Zenon DEF ItemUnderway, task, item
<1> QED BY <1>1, <1>2, <1>3

\* With the store as it was.
LEMMA NoMoreTaken == ASSUME UploadInv, stored' = stored PROVE MoreTaken
BY DEF UploadInv, MoreTaken, ShelfRight, More

\* What the requests of the tasks become, if they become anything.
LEMMA UploadStays ==
  ASSUME UploadInv, CallTable', OnUploads, page' = page, MoreTaken,
         view' = [f \in UploadFields |-> view'[f]],
         view'.outcome \in {view.outcome, None} \/ RightlyTold(view'.outcome, stored'.taken),
         \A q \in Slots : \/ calls'[q] = calls[q] \/ Outside(calls'[q], Packs)
                          \/ ItemUnderway(calls'[q], stored'.taken)
  PROVE  UploadInv'
<1>0. More(stored.taken, stored'.taken)
  BY DEF MoreTaken
<1>1. ASSUME NEW s \in Slots, calls'[s] # None, calls'[s].op \in Packs
      PROVE  ItemUnderway(calls'[s], stored'.taken)
  <2>1. CASE calls'[s] = calls[s]
    <3>1. ItemUnderway(calls[s], stored.taken)
      BY <1>1, <2>1 DEF UploadInv, InFlight
    <3>2. ItemUnderway(calls[s], stored'.taken)
      BY <1>0, <3>1, StillTaken
    <3> QED BY <2>1, <3>2
  <2> QED BY <1>1, <2>1 DEF Outside
<1>2. view'.outcome # None => RightlyTold(view'.outcome, stored'.taken)
  <2>1. CASE view'.outcome = view.outcome
    <3>1. view.outcome # None => RightlyTold(view.outcome, stored.taken)
      BY DEF UploadInv
    <3>2. view.outcome # None => RightlyTold(view.outcome, stored'.taken)
      BY <1>0, <3>1, StillTaken
    <3> QED BY <2>1, <3>2
  <2> QED BY <2>1
<1>3. \A s \in InFlight(Packs)' : ItemUnderway(calls'[s], stored'.taken)
  BY <1>1 DEF InFlight
<1> QED BY <1>2, <1>3 DEF UploadInv, OnUploads, MoreTaken

\* What is picked, typed and opened changes a field that says nothing of what was packed.
LEMMA PageOfUploads ==
  ASSUME UploadInv, OnUploads, NEW v, NEW w, NEW u,
         \/ view' = view
         \/ view' = [view EXCEPT !.picked = v]
         \/ view' = [view EXCEPT !.search = v]
         \/ view' = [view EXCEPT !.outcome = None]
         \/ view' = [view EXCEPT !.dialog = v]
         \/ view' = [view EXCEPT !.busy = v]
         \/ view' = [view EXCEPT !.dialog = v, !.outcome = None]
         \/ view' = [view EXCEPT !.dialog = v, !.busy = w]
         \/ view' = [view EXCEPT !.targets = v, !.inbox = w, !.problem = u]
         \/ view' = [view EXCEPT !.problem = v]
  PROVE  view' = [f \in UploadFields |-> view'[f]] /\ view'.outcome \in {view.outcome, None}
BY DEF UploadInv, UploadFields

\* The next item of a task is asked for.
LEMMA NextItem ==
  ASSUME NEW taken, NEW task, task = [f \in TaskFields |-> task[f]], task.left # {},
         task.done \union task.failed \union task.left = task.chosen,
         task.done \intersect task.failed = {},
         task.left \intersect (task.done \union task.failed) = {},
         WereTaken(task, taken)
  PROVE  IsRequest(NextOf(task)) /\ ItemUnderway(NextOf(task), taken)
<1> DEFINE item == CHOOSE t \in task.left : TRUE
           rest == [task EXCEPT !.left = @ \ {item}]
           x == [task |-> rest, item |-> item]
           c == Request(task.op, task.draft, x)
<1>1. item \in task.left
  OBVIOUS
<1>2. NextOf(task) = c
  BY DEF NextOf
<1> HIDE DEF item
<1>3. /\ rest = [f \in TaskFields |-> rest[f]] /\ rest.left = task.left \ {item}
      /\ rest.op = task.op /\ rest.draft = task.draft /\ rest.chosen = task.chosen
      /\ rest.done = task.done /\ rest.failed = task.failed
  BY DEF TaskFields
<1>4. x.task = rest /\ x.item = item
  OBVIOUS
<1> HIDE DEF rest, x
<1>5. IsRequest(c) /\ c.op = task.op /\ c.at = task.draft /\ c.with = x /\ c.stage = "sent"
  BY Requests DEF Request
<1> HIDE DEF c
<1>6. WereTaken(rest, taken)
  BY <1>3 DEF WereTaken
<1>7. /\ rest.done \union rest.failed \union rest.left \union {item} = rest.chosen
      /\ rest.left \intersect (rest.done \union rest.failed) = {}
      /\ item \notin rest.done \union rest.failed \union rest.left
  BY <1>1, <1>3
<1>8. ItemUnderway(c, taken)
  BY <1>3, <1>4, <1>5, <1>6, <1>7 DEF ItemUnderway
<1> QED BY <1>2, <1>5, <1>8
\* What the service does to the packages and to what was left in the inbox.
LEMMA EffectTakes ==
  ASSUME UploadInv, NEW c, ~UploadRefuses(c), stored' = UploadEffect(c)
  PROVE  /\ MoreTaken
         /\ c.op \in Packs => c.at \in Packages /\ c.with.item \in stored'.taken[c.at]
<1>0. ShelfRight
  BY DEF UploadInv
<1>1. CASE c.op \in Additions
  <2> DEFINE i == c.with.item
             left == IF c.op = "addIncoming" THEN stored.inbox \ {i} ELSE stored.inbox
  <2>1. c.at \in Packages
    BY <1>0, <1>1 DEF UploadRefuses, ShelfRight, IsShelf
  <2>2. stored' = [stored EXCEPT !.taken[c.at] = @ \union {i}, !.inbox = left]
    BY <1>1 DEF UploadEffect, Additions
  <2> HIDE DEF i, left
  <2>3. /\ stored' = [f \in UploadKeeps |-> stored'[f]]
        /\ stored'.taken = [stored.taken EXCEPT ![c.at] = @ \union {i}]
        /\ stored'.open = stored.open /\ stored'.used = stored.used
    BY <1>0, <2>2 DEF ShelfRight, IsShelf, UploadKeeps
  <2>4. /\ DOMAIN stored'.taken = Packages /\ i \in stored'.taken[c.at]
        /\ \A d \in Packages : stored.taken[d] \subseteq stored'.taken[d]
    BY <1>0, <2>1, <2>3 DEF ShelfRight, IsShelf
  <2>5. ShelfRight'
    BY <1>0, <2>3, <2>4 DEF ShelfRight, IsShelf
  <2> QED BY <2>1, <2>4, <2>5 DEF i, MoreTaken, More
<1>2. CASE c.op = "createDraft"
  <2> DEFINE d == Min(Packages \ stored.used)
  <2>1. d \in Packages
    <3>1. Packages \ stored.used # {} /\ Packages \ stored.used \in SUBSET Nat
      BY <1>0, <1>2, PackagesAssumption DEF UploadRefuses, ShelfRight, IsShelf
    <3> QED BY <3>1, LeastSlot
  <2>2. stored' = [stored EXCEPT !.open = @ \union {d}, !.used = @ \union {d}]
    BY <1>2 DEF UploadEffect, Additions
  <2> HIDE DEF d
  <2>3. /\ stored' = [f \in UploadKeeps |-> stored'[f]] /\ stored'.taken = stored.taken
        /\ stored'.open = stored.open \union {d} /\ stored'.used = stored.used \union {d}
    BY <1>0, <2>2 DEF ShelfRight, IsShelf, UploadKeeps
  <2> QED BY <1>0, <1>2, <2>1, <2>3 DEF MoreTaken, More, ShelfRight, IsShelf, Packs
<1>3. CASE c.op \in {"deleteDraft", "close"}
  <2>1. \E made : stored' = [stored EXCEPT !.open = @ \ {c.at}] \/ stored' = [stored EXCEPT !.open = @ \ {c.at}, !.made = made]
    BY <1>3 DEF UploadEffect, Additions
  <2>2. /\ stored' = [f \in UploadKeeps |-> stored'[f]] /\ stored'.taken = stored.taken
        /\ stored'.open = stored.open \ {c.at} /\ stored'.used = stored.used
    BY <1>0, <2>1 DEF ShelfRight, IsShelf, UploadKeeps
  <2> QED BY <1>0, <1>3, <2>2 DEF MoreTaken, More, ShelfRight, IsShelf, Packs
<1>4. CASE c.op \notin Additions \union {"createDraft", "deleteDraft", "close"}
  <2>1. stored' = stored
    BY <1>4 DEF UploadEffect
  <2> QED BY <1>4, <2>1, NoMoreTaken DEF Packs, Additions
<1> QED BY <1>1, <1>2, <1>3, <1>4

\* A screen that is there still, while something is on its way.
LEMMA StillThere ==
  ASSUME UploadInv, NEW s \in Slots, calls[s] # None
  PROVE  OnUploads /\ view = [f \in UploadFields |-> view[f]]
BY DEF UploadInv

\* The service answers or refuses.
LEMMA UploadServes ==
  ASSUME UploadInv, NoneIsNoRequest, NEW s \in Slots, UploadServed(s)
  PROVE  UploadInv'
<1>0. CallTable /\ calls[s] # None /\ OnUploads /\ view = [f \in UploadFields |-> view[f]]
  BY StillThere DEF UploadServed, InStage, UploadInv
<1>1. CASE Refuse(s)
  <2>1. /\ Serves(s, calls'[s]) /\ ServedAs(calls'[s], calls[s], "refused", calls[s].answer)
        /\ UNCHANGED <<page, view, stored>>
    BY <1>0, <1>1, Serving
  <2>2. calls[s].op \in Packs => ItemUnderway(calls'[s], stored'.taken)
    <3>1. calls[s].op \in Packs => ItemUnderway(calls[s], stored.taken)
      BY <1>0 DEF UploadInv, InFlight
    <3> QED BY <2>1, <3>1 DEF ItemUnderway, ServedAs
  <2>3. CallTable' /\ MoreTaken
    BY <2>1, NoMoreTaken DEF Serves
  <2>4. \A q \in Slots : \/ calls'[q] = calls[q] \/ Outside(calls'[q], Packs)
                         \/ ItemUnderway(calls'[q], stored'.taken)
    BY <2>1, <2>2 DEF Serves, ServedAs, Outside
  <2> QED BY <1>0, <2>1, <2>3, <2>4, UploadStays
<1>2. CASE ~UploadRefuses(calls[s]) /\ Serve(s, UploadAnswer(calls[s]), UploadEffect(calls[s]))
  <2>1. /\ Serves(s, calls'[s]) /\ ServedAs(calls'[s], calls[s], "answered", UploadAnswer(calls[s]))
        /\ stored' = UploadEffect(calls[s]) /\ UNCHANGED <<page, view>>
    BY <1>0, <1>2, Serving
  <2>2. /\ MoreTaken
        /\ calls[s].op \in Packs => calls[s].at \in Packages /\ calls[s].with.item \in stored'.taken[calls[s].at]
    BY <1>2, <2>1, EffectTakes
  <2>3. calls[s].op \in Packs => ItemUnderway(calls'[s], stored'.taken)
    <3>1. calls[s].op \in Packs => ItemUnderway(calls[s], stored.taken)
      BY <1>0 DEF UploadInv, InFlight
    <3>2. calls[s].op \in Packs => ItemUnderway(calls[s], stored'.taken)
      BY <2>2, <3>1, StillTaken DEF MoreTaken
    <3> QED BY <2>1, <2>2, <3>2 DEF ItemUnderway, ServedAs
  <2>4. CallTable'
    BY <2>1 DEF Serves
  <2>5. \A q \in Slots : \/ calls'[q] = calls[q] \/ Outside(calls'[q], Packs)
                         \/ ItemUnderway(calls'[q], stored'.taken)
    BY <2>1, <2>3 DEF Serves, ServedAs, Outside
  <2> QED BY <1>0, <2>1, <2>2, <2>4, <2>5, UploadStays
<1> QED BY <1>1, <1>2 DEF UploadServed

\* What is asked and ends, of the requests that pack nothing.
LEMMA UploadAsks ==
  ASSUME UploadInv, NEW op, NEW at, NEW with, op \notin Packs
  PROVE  LET x == Request(op, at, with)
         IN  /\ IsRequest(x) /\ x.op = op
             /\ Send(<<x>>) => /\ CallTable'
                               /\ \A q \in Slots : calls'[q] = calls[q] \/ Outside(calls'[q], Packs)
             /\ \A s \in Slots : Ends(s, <<x>>) \/ Ends(s, <<>>) =>
                  /\ CallTable'
                  /\ \A q \in Slots : calls'[q] = calls[q] \/ Outside(calls'[q], Packs)
<1> DEFINE x == Request(op, at, with)
<1>1. IsRequest(x) /\ x.op = op /\ CallTable
  BY Requests DEF Request, UploadInv
<1> HIDE DEF x
<1>2. ASSUME Send(<<x>>)
      PROVE  CallTable' /\ \A q \in Slots : calls'[q] = calls[q] \/ Outside(calls'[q], Packs)
  BY <1>1, <1>2, KeptSending DEF Outside
<1>3. ASSUME NEW s \in Slots, Ends(s, <<x>>) \/ Ends(s, <<>>)
      PROVE  CallTable' /\ \A q \in Slots : calls'[q] = calls[q] \/ Outside(calls'[q], Packs)
  BY <1>1, <1>3, KeptEnding DEF Outside
<1> QED BY <1>1, <1>2, <1>3 DEF x

\* A request for what there is to show again.
LEMMA TargetsAsked ==
  ASSUME UploadInv, NEW s \in Slots, Ends(s, <<>>) \/ Ends(s, TargetsQuestion)
  PROVE  CallTable' /\ \A q \in Slots : calls'[q] = calls[q] \/ Outside(calls'[q], Packs)
BY UploadAsks DEF TargetsQuestion, Packs

\* The item that is asked for next takes its place among the requests.
LEMMA NextAsked ==
  ASSUME UploadInv, NEW x, NEW taken, IsRequest(x), ItemUnderway(x, taken), Send(<<x>>) \/ \E s \in Slots : Ends(s, <<x>>)
  PROVE  CallTable' /\ \A q \in Slots : calls'[q] = calls[q] \/ Outside(calls'[q], Packs) \/ ItemUnderway(calls'[q], taken)
<1>0. CallTable
  BY DEF UploadInv
<1>1. CASE Send(<<x>>)
  BY <1>0, <1>1, KeptSending
<1>2. ASSUME NEW s \in Slots, Ends(s, <<x>>)
      PROVE  CallTable' /\ \A q \in Slots : calls'[q] \in {calls[q], None, x}
  BY <1>0, <1>2, KeptEnding
<1> QED BY <1>1, <1>2 DEF Outside

\* A task begins.
LEMMA TaskBegins ==
  ASSUME UploadInv, NEW d \in Packages, PackInto(d)
  PROVE  UploadInv'
<1> DEFINE asked == view.dialog.task
           task == [op |-> asked.op, draft |-> d, chosen |-> asked.chosen, left |-> asked.chosen,
                    alone |-> asked.alone, done |-> {}, failed |-> {}]
<1>1. OnUploads /\ page' = page /\ stored' = stored /\ view = [f \in UploadFields |-> view[f]]
  BY DEF PackInto, DialogOf, UploadInv
<1>2. /\ task = [f \in TaskFields |-> task[f]] /\ task.op = asked.op
      /\ task.chosen = asked.chosen /\ task.left = asked.chosen /\ task.done = {} /\ task.failed = {}
  BY DEF TaskFields
<1>3. IF task.left = {} THEN view' = ReadAfter([view EXCEPT !.dialog = None], task) /\ Send(TargetsQuestion)
      ELSE view' = [view EXCEPT !.dialog = None, !.busy = TRUE] /\ Send(<<NextOf(task)>>)
  BY DEF PackInto
<1> HIDE DEF task
<1>4. MoreTaken
  BY <1>1, NoMoreTaken
<1>5. CASE task.left = {}
  <2>1. view' = [view EXCEPT !.dialog = None, !.busy = FALSE, !.outcome = task]
    BY <1>3, <1>5 DEF ReadAfter
  <2>2. view' = [f \in UploadFields |-> view'[f]] /\ view'.outcome = task
    BY <1>1, <2>1 DEF UploadFields
  <2>3. RightlyTold(task, stored'.taken)
    BY <1>2, <1>5 DEF RightlyTold, WereTaken
  <2>4. CallTable' /\ \A q \in Slots : calls'[q] = calls[q] \/ Outside(calls'[q], Packs)
    BY <1>3, <1>5, UploadAsks DEF TargetsQuestion, Packs
  <2> QED BY <1>1, <1>4, <2>2, <2>3, <2>4, UploadStays
<1>6. CASE task.left # {}
  <2>1. view' = [view EXCEPT !.dialog = None, !.busy = TRUE]
    BY <1>3, <1>6
  <2>2. view' = [f \in UploadFields |-> view'[f]] /\ view'.outcome = view.outcome
    BY <1>1, <2>1 DEF UploadFields
  <2>3. WereTaken(task, stored'.taken)
    BY <1>2 DEF WereTaken
  <2>4. IsRequest(NextOf(task)) /\ ItemUnderway(NextOf(task), stored'.taken)
    BY <1>2, <1>6, <2>3, NextItem
  <2>5. Send(<<NextOf(task)>>)
    BY <1>3, <1>6
  <2>6. /\ CallTable'
        /\ \A q \in Slots : calls'[q] = calls[q] \/ Outside(calls'[q], Packs) \/ ItemUnderway(calls'[q], stored'.taken)
    BY <2>4, <2>5, NextAsked
  <2> QED BY <1>1, <1>4, <2>2, <2>6, UploadStays
<1> QED BY <1>5, <1>6
\* An item went in, or did not: the next is asked for, or it is told how it went.
LEMMA TaskGoesOn ==
  ASSUME UploadInv, NEW s \in Slots, PackEnds(s)
  PROVE  UploadInv'
<1>1. PICK went \in BOOLEAN :
        /\ IF went THEN Packed(s) ELSE NotPacked(s)
        /\ LET item == calls[s].with.item
               now == calls[s].with.task
               task == IF went THEN [now EXCEPT !.done = @ \union {item}] ELSE [now EXCEPT !.failed = @ \union {item}]
               next == [view EXCEPT !.picked = IF went /\ ~now.alone THEN @ \ {item} ELSE @]
           IN  IF task.left # {} THEN view' = next /\ Ends(s, <<NextOf(task)>>)
               ELSE /\ view' = ReadAfter(next, task)
                    /\ Ends(s, IF task.alone /\ ~went THEN <<>> ELSE TargetsQuestion)
  BY DEF PackEnds
<1> DEFINE item == calls[s].with.item
           now == calls[s].with.task
           task == IF went THEN [now EXCEPT !.done = @ \union {item}] ELSE [now EXCEPT !.failed = @ \union {item}]
           picked == IF went /\ ~now.alone THEN view.picked \ {item} ELSE view.picked
<1>2. /\ calls[s] # None /\ s \in InFlight(Packs)
      /\ went => calls[s].stage = "answered"
  BY <1>1 DEF Packed, NotPacked, Answer, Failure, InStage, InFlight, Packs
<1>3. OnUploads /\ page' = page /\ stored' = stored /\ view = [f \in UploadFields |-> view[f]]
  BY <1>2, StillThere DEF PackEnds
<1>4. MoreTaken /\ stored'.taken = stored.taken
  BY <1>3, NoMoreTaken
<1>5. ItemUnderway(calls[s], stored.taken)
  BY <1>2 DEF UploadInv
<1>6. /\ now = [f \in TaskFields |-> now[f]]
      /\ now.done \union now.failed \union now.left \union {item} = now.chosen
      /\ now.done \intersect now.failed = {}
      /\ now.left \intersect (now.done \union now.failed) = {}
      /\ item \notin now.done \union now.failed \union now.left
      /\ WereTaken(now, stored.taken)
      /\ went => now.draft \in Packages /\ item \in stored.taken[now.draft]
  BY <1>2, <1>5 DEF ItemUnderway
<1>7. IF task.left # {} THEN view' = [view EXCEPT !.picked = picked] /\ Ends(s, <<NextOf(task)>>)
      ELSE /\ view' = ReadAfter([view EXCEPT !.picked = picked], task)
           /\ Ends(s, <<>>) \/ Ends(s, TargetsQuestion)
  BY <1>1
<1> HIDE DEF item, now, picked
<1>8. /\ task = [f \in TaskFields |-> task[f]]
      /\ task.left = now.left /\ task.draft = now.draft /\ task.chosen = now.chosen
      /\ task.done = (IF went THEN now.done \union {item} ELSE now.done)
      /\ task.failed = (IF went THEN now.failed ELSE now.failed \union {item})
  <2>1. CASE went
    <3> DEFINE then == [now EXCEPT !.done = @ \union {item}]
    <3>1. task = then
      BY <2>1
    <3>2. /\ then = [f \in TaskFields |-> then[f]]
          /\ then.left = now.left /\ then.draft = now.draft /\ then.chosen = now.chosen
          /\ then.done = now.done \union {item} /\ then.failed = now.failed
      BY <1>6 DEF TaskFields
    <3> HIDE DEF then, task
    <3> QED BY <2>1, <3>1, <3>2
  <2>2. CASE ~went
    <3> DEFINE then == [now EXCEPT !.failed = @ \union {item}]
    <3>1. task = then
      BY <2>2
    <3>2. /\ then = [f \in TaskFields |-> then[f]]
          /\ then.left = now.left /\ then.draft = now.draft /\ then.chosen = now.chosen
          /\ then.done = now.done /\ then.failed = now.failed \union {item}
      BY <1>6 DEF TaskFields
    <3> HIDE DEF then, task
    <3> QED BY <2>2, <3>1, <3>2
  <2> QED BY <2>1, <2>2
<1> HIDE DEF task
<1>9. WereTaken(task, stored.taken)
  <2>1. CASE went
    <3>1. now.done \subseteq stored.taken[now.draft] /\ now.draft \in Packages
      BY <1>6, <2>1 DEF WereTaken
    <3> QED BY <1>6, <1>8, <2>1, <3>1 DEF WereTaken
  <2>2. CASE ~went
    BY <1>6, <1>8, <2>2 DEF WereTaken
  <2> QED BY <2>1, <2>2
<1>10. /\ task.done \union task.failed \union task.left = task.chosen
       /\ task.done \intersect task.failed = {}
       /\ task.left \intersect (task.done \union task.failed) = {}
  BY <1>6, <1>8
<1>11. CASE task.left # {}
  <2>1. view' = [view EXCEPT !.picked = picked] /\ Ends(s, <<NextOf(task)>>)
    BY <1>7, <1>11
  <2>2. view' = [f \in UploadFields |-> view'[f]] /\ view'.outcome = view.outcome
    BY <1>3, <2>1 DEF UploadFields
  <2>3. IsRequest(NextOf(task)) /\ ItemUnderway(NextOf(task), stored'.taken)
    BY <1>4, <1>8, <1>9, <1>10, <1>11, NextItem
  <2>4. /\ CallTable'
        /\ \A q \in Slots : calls'[q] = calls[q] \/ Outside(calls'[q], Packs) \/ ItemUnderway(calls'[q], stored'.taken)
    BY <2>1, <2>3, NextAsked
  <2> QED BY <1>3, <1>4, <2>2, <2>4, UploadStays
<1>12. CASE task.left = {}
  <2>1. view' = [view EXCEPT !.picked = picked, !.busy = FALSE, !.outcome = task]
    BY <1>7, <1>12 DEF ReadAfter
  <2>2. view' = [f \in UploadFields |-> view'[f]] /\ view'.outcome = task
    BY <1>3, <2>1 DEF UploadFields
  <2>3. RightlyTold(task, stored'.taken)
    BY <1>4, <1>9, <1>10, <1>12 DEF RightlyTold
  <2>4. CallTable' /\ \A q \in Slots : calls'[q] = calls[q] \/ Outside(calls'[q], Packs)
    BY <1>7, <1>12, TargetsAsked
  <2> QED BY <1>3, <1>4, <2>2, <2>3, <2>4, UploadStays
<1> QED BY <1>11, <1>12

\* The page is left: nothing of it is there anymore.
LEMMA UploadsLeft ==
  ASSUME UploadInv, NEW s \in Slots, UploadLeft(s)
  PROVE  UploadInv'
<1>1. calls' = [q \in Slots |-> None] /\ page'.name = "elsewhere" /\ stored' = stored
  BY DEF UploadLeft, UploadInv, CallTable
<1>2. CallTable' /\ \A q \in Slots : calls'[q] = None
  BY <1>1 DEF CallTable
<1>3. ShelfRight'
  BY <1>1 DEF UploadInv, ShelfRight, IsShelf
<1> QED BY <1>1, <1>2, <1>3 DEF UploadInv, OnUploads, InFlight

\* Every step of the page keeps the invariant.
LEMMA UploadStep == UploadInv /\ NoneIsNoRequest /\ [UploadSteps]_browser => UploadInv'
<1> SUFFICES ASSUME UploadInv, NoneIsNoRequest, [UploadSteps]_browser
             PROVE  UploadInv'
  OBVIOUS
<1>0. CallTable /\ ShelfRight
  BY DEF UploadInv
<1>a. stored' = stored => MoreTaken
  BY NoMoreTaken
<1>b. calls' = calls => CallTable'
  BY <1>0 DEF CallTable
<1>c. OneMoreTask => MoreTaken
  <2> SUFFICES ASSUME OneMoreTask PROVE MoreTaken
    OBVIOUS
  <2> DEFINE n == stored.tasks + 1
  <2>1. stored' = [stored EXCEPT !.tasks = n]
    BY DEF OneMoreTask
  <2> HIDE DEF n
  <2>2. /\ stored' = [f \in UploadKeeps |-> stored'[f]] /\ stored'.taken = stored.taken
        /\ stored'.open = stored.open /\ stored'.used = stored.used
    BY <1>0, <2>1 DEF ShelfRight, IsShelf, UploadKeeps
  <2> QED BY <1>0, <2>2 DEF ShelfRight, IsShelf, MoreTaken, More
<1>e. Bringing => MoreTaken
  <2> SUFFICES ASSUME Bringing PROVE MoreTaken
    OBVIOUS
  <2>1. /\ stored' = [f \in UploadKeeps |-> stored'[f]] /\ stored'.taken = stored.taken
        /\ stored'.open = stored.open /\ stored'.used = stored.used
    BY <1>0 DEF Bringing, ShelfRight, IsShelf, UploadKeeps
  <2> QED BY <1>0, <2>1 DEF ShelfRight, IsShelf, MoreTaken, More
<1>d. \A b : stored' = [stored EXCEPT !.unheard = b] => MoreTaken
  <2> SUFFICES ASSUME NEW b, stored' = [stored EXCEPT !.unheard = b] PROVE MoreTaken
    OBVIOUS
  <2>1. /\ stored' = [f \in UploadKeeps |-> stored'[f]] /\ stored'.taken = stored.taken
        /\ stored'.open = stored.open /\ stored'.used = stored.used
    BY <1>0 DEF ShelfRight, IsShelf, UploadKeeps
  <2> QED BY <1>0, <2>1 DEF ShelfRight, IsShelf, MoreTaken, More
<1>1. CASE UNCHANGED browser
  <2>1. CallTable' /\ ShelfRight'
    BY <1>0, <1>1 DEF browser, CallTable, ShelfRight
  <2> QED BY <1>1, <2>1 DEF UploadInv, OnUploads, InFlight, browser
<1>2. ASSUME NEW d \in Packages, GivenUpElsewhere(d)
      PROVE  UploadInv'
  <2>1. /\ stored' = [f \in UploadKeeps |-> stored'[f]] /\ stored'.taken = stored.taken
        /\ stored'.open = stored.open \ {d} /\ stored'.used = stored.used
    BY <1>0, <1>2 DEF GivenUpElsewhere, ShelfRight, IsShelf, UploadKeeps
  <2>2. MoreTaken
    BY <1>0, <2>1 DEF ShelfRight, IsShelf, MoreTaken, More
  <2> QED BY <1>2, <1>b, <2>2, PageOfUploads, UploadStays DEF GivenUpElsewhere
<1>3. ASSUME NEW d \in Packages, PackInto(d)
      PROVE  UploadInv'
  BY <1>3, TaskBegins
<1>4. ASSUME OnUploads, UNCHANGED <<page, calls, stored>>,
             (\E v : view' = [view EXCEPT !.picked = v] \/ view' = [view EXCEPT !.search = v] \/ view' = [view EXCEPT !.dialog = v])
      PROVE  UploadInv'
  BY <1>4, <1>a, <1>b, PageOfUploads, UploadStays
<1>5. ASSUME NEW picked, Picking(picked)
      PROVE  UploadInv'
  BY <1>4, <1>5 DEF Picking, Listed
<1>6. ASSUME NEW q, SearchFor(q)
      PROVE  UploadInv'
  BY <1>4, <1>6 DEF SearchFor, Listed
<1>7. CASE CloseDialog
  BY <1>4, <1>7 DEF CloseDialog
<1>8. ASSUME NEW op, NEW chosen, NEW alone, AskDraft(op, chosen, alone)
      PROVE  UploadInv'
  <2>1. OnUploads /\ page' = page /\ OneMoreTask /\ view' = [view EXCEPT !.outcome = None]
    BY <1>8 DEF AskDraft, Listed
  <2>2. CallTable' /\ \A q \in Slots : calls'[q] = calls[q] \/ Outside(calls'[q], Packs)
    BY <1>8, UploadAsks DEF AskDraft, Packs
  <2> QED BY <1>c, <2>1, <2>2, PageOfUploads, UploadStays
<1>9. ASSUME NEW t, AskUpload(t) \/ AskUploadNew(t)
      PROVE  UploadInv'
  <2>1. /\ OnUploads /\ UNCHANGED <<page, calls>> /\ Bringing
        /\ view' = [view EXCEPT !.dialog = [of |-> "upload", target |-> t], !.outcome = None]
    BY <1>9 DEF AskUpload, AskUploadNew, Listed
  <2> DEFINE d == [of |-> "upload", target |-> t]
  <2>2. view' = [view EXCEPT !.dialog = d, !.outcome = None]
    BY <2>1
  <2> HIDE DEF d
  <2> QED BY <1>b, <1>e, <2>1, <2>2, PageOfUploads, UploadStays
<1>10. CASE UploadAndApply
  <2>1. CallTable' /\ \A q \in Slots : calls'[q] = calls[q] \/ Outside(calls'[q], Packs)
    BY <1>10, UploadAsks DEF UploadAndApply, Packs
  <2> QED BY <1>10, <1>a, <2>1, PageOfUploads, UploadStays DEF UploadAndApply, DialogOf
<1>11. ASSUME NEW s \in Slots, UploadServed(s)
       PROVE  UploadInv'
  BY <1>11, UploadServes
<1>12. ASSUME NEW s \in Slots, TargetsRead(s)
       PROVE  UploadInv'
  <2>1. calls[s] # None /\ UNCHANGED <<page, stored>> /\ Ends(s, <<>>)
    BY <1>12 DEF TargetsRead, Answer, Failure, InStage
  <2>2. CallTable' /\ \A q \in Slots : calls'[q] = calls[q] \/ Outside(calls'[q], Packs)
    BY <2>1, TargetsAsked
  <2>3. \/ view' = [view EXCEPT !.targets = calls[s].answer.targets, !.inbox = calls[s].answer.inbox, !.problem = FALSE]
        \/ view' = [view EXCEPT !.problem = TRUE]
    BY <1>12 DEF TargetsRead
  <2>4. \E v, w : \/ view' = [view EXCEPT !.targets = v, !.inbox = w, !.problem = FALSE]
                  \/ view' = [view EXCEPT !.problem = TRUE]
    BY <2>3
  <2> QED BY <1>a, <2>1, <2>2, <2>4, StillThere, PageOfUploads, UploadStays
<1>13. ASSUME NEW s \in Slots, DraftsToPick(s)
       PROVE  UploadInv'
  <2>1. calls[s] # None /\ UNCHANGED <<page, stored>> /\ Ends(s, <<>>)
    BY <1>13 DEF DraftsToPick, Answer, Failure, InStage
  <2>2. CallTable' /\ \A q \in Slots : calls'[q] = calls[q] \/ Outside(calls'[q], Packs)
    BY <2>1, TargetsAsked
  <2> DEFINE d == [of |-> "drafts", drafts |-> calls[s].answer, task |-> calls[s].with]
  <2>3. view' = [view EXCEPT !.dialog = d] \/ view' = view
    BY <1>13 DEF DraftsToPick
  <2> HIDE DEF d
  <2> QED BY <1>a, <2>1, <2>2, <2>3, StillThere, PageOfUploads, UploadStays
<1>14. ASSUME NEW s \in Slots, PackEnds(s)
       PROVE  UploadInv'
  BY <1>14, TaskGoesOn
<1>15. ASSUME NEW s \in Slots, OneAfterTheOther(s) \/ UploadNotTaken(s) \/ GivenUp(s)
       PROVE  UploadInv'
  <2>1. /\ calls[s] # None /\ page' = page
        /\ stored' = stored \/ \E b : stored' = [stored EXCEPT !.unheard = b]
        /\ view' = view \/ view' = [view EXCEPT !.busy = FALSE]
    BY <1>15 DEF OneAfterTheOther, UploadNotTaken, GivenUp, Unheard, Answer, Failure, InStage
  <2>2. \/ Ends(s, <<>>)
        \/ \E op \in {"addFiles", "close", "approve", "deleteDraft"} : \E at, with : Ends(s, <<Request(op, at, with)>>)
    BY <1>15 DEF OneAfterTheOther, UploadNotTaken, GivenUp
  <2>3. CallTable' /\ \A q \in Slots : calls'[q] = calls[q] \/ Outside(calls'[q], Packs)
    BY <2>2, TargetsAsked, UploadAsks DEF Packs
  <2>4. MoreTaken
    BY <1>a, <1>d, <2>1
  <2> QED BY <2>1, <2>3, <2>4, StillThere, PageOfUploads, UploadStays
<1>16. ASSUME NEW s \in Slots, UploadLeft(s)
       PROVE  UploadInv'
  BY <1>16, UploadsLeft
<1>17. ASSUME NEW on \in BOOLEAN, NEW t, PickTarget(t, on) \/ PickGroup(t, on) \/ PackPicked(on) \/ PackOne(t, on)
       PROVE  UploadInv'
  BY <1>5, <1>8, <1>17 DEF PickTarget, PickGroup, PackPicked, PackOne
<1>18. ASSUME NEW on \in BOOLEAN, NEW kind, PickSection(kind, on)
       PROVE  UploadInv'
  BY <1>5, <1>18 DEF PickSection
<1>19. CASE PickNone
  BY <1>5, <1>19 DEF PickNone
<1> QED BY <1>1, <1>2, <1>3, <1>6, <1>7, <1>9, <1>10, <1>11, <1>12, <1>13, <1>14, <1>15, <1>16, <1>17, <1>18, <1>19
        DEF UploadSteps

\* The page is opened.
LEMMA UploadBegins ==
  ASSUME NEW kept, UploadInit(kept), IsShelf(kept)
  PROVE  UploadInv
<1> DEFINE o == UploadOpening
           x == Request("targets", None, None)
<1>1. /\ o.page = [name |-> "uploads"] /\ o.asks = <<x>> /\ Fresh(o.asks)
      /\ o.view = [f \in UploadFields |-> o.view[f]] /\ o.view.outcome = None
      /\ x.op \notin Packs
  BY Requests DEF UploadOpening, TargetsQuestion, UploadFields, Request, Packs
<1> HIDE DEF o, x
<1>2. Opened(o, kept)
  BY DEF UploadInit, o
<1>3. CallTable /\ \A s \in Slots : calls[s] # None => \E i \in DOMAIN o.asks : calls[s] = o.asks[i]
  BY <1>1, <1>2, Opening
<1>4. page = [name |-> "uploads"] /\ view = o.view /\ stored = kept
  BY <1>1, <1>2 DEF Opened
<1>5. InFlight(Packs) = {}
  BY <1>1, <1>3 DEF InFlight
<1> QED BY <1>1, <1>3, <1>4, <1>5 DEF UploadInv, OnUploads, ShelfRight

\* One package is open, with nothing in it.
FirstShelf(kept) ==
  /\ IsShelf(kept)
  /\ kept.open = {Min(Packages)} /\ kept.made = {} /\ kept.unheard = FALSE

\* What the service keeps when the page is opened.
LEMMA StoreBegins ==
  ASSUME NEW targets, NEW inbox, NEW manual, NEW tasks
  PROVE  FirstShelf(UploadStore(targets, inbox, manual, tasks))
<1> DEFINE kept == UploadStore(targets, inbox, manual, tasks)
           p == {Min(Packages)}
           none == [d \in Packages |-> {}]
<1>1. kept = [targets |-> targets, inbox |-> inbox, manual |-> manual, open |-> p, used |-> p,
              made |-> {}, taken |-> none, tasks |-> tasks, spent |-> FALSE, unheard |-> FALSE]
  BY DEF UploadStore
<1> HIDE DEF kept
<1>2. p \subseteq Packages /\ DOMAIN none = Packages
  BY PackagesAssumption, LeastSlot
<1>3. /\ kept = [f \in UploadKeeps |-> kept[f]]
      /\ kept.open = p /\ kept.used = p /\ kept.taken = none /\ kept.made = {} /\ kept.unheard = FALSE
  <2> DEFINE nothing == {}
  <2> HIDE DEF p, none, nothing
  <2>1. kept = [targets |-> targets, inbox |-> inbox, manual |-> manual, open |-> p, used |-> p,
                made |-> nothing, taken |-> none, tasks |-> tasks, spent |-> FALSE, unheard |-> FALSE]
    BY <1>1 DEF nothing
  <2>2. /\ kept.open = p /\ kept.used = p /\ kept.taken = none /\ kept.made = nothing /\ kept.unheard = FALSE
    BY ONLY <2>1
  <2>3. kept = [f \in UploadKeeps |-> kept[f]]
    BY ONLY <2>1 DEF UploadKeeps
  <2> QED BY <2>2, <2>3 DEF nothing
<1> HIDE DEF none
<1>4. FirstShelf(kept)
  BY <1>2, <1>3 DEF FirstShelf, IsShelf
<1> QED BY <1>4 DEF kept

\* Packages given up by others, answers refused and lost, one packing over another: all that was
\* chosen is told to be in, and is, or not to be (UploadScreens, PackedOrSaid).
THEOREM AllIsTold ==
  ASSUME NEW targets, NEW inbox, NEW manual, NEW tasks, NoneIsNoRequest
  PROVE  UploadSpec(UploadStore(targets, inbox, manual, tasks)) => []PackedOrSaid
<1> DEFINE kept == UploadStore(targets, inbox, manual, tasks)
<1>1. UploadInit(kept) => UploadInv
  <2>1. ASSUME NEW k, k = kept, UploadInit(k)
        PROVE  UploadInv
    BY <2>1, StoreBegins, UploadBegins DEF FirstShelf
  <2> QED BY <2>1, Zenon
<1>2. UploadInv => PackedOrSaid
  BY DEF UploadInv, PackedOrSaid, RightlyTold, WereTaken
<1>3. UploadInv /\ [UploadSteps]_browser => UploadInv'
  BY UploadStep
<1> QED BY <1>1, <1>2, <1>3, PTL DEF UploadSpec

-----------------------------------------------------------------------------
(* A version brought by hand: the package that is made for it *)

MakingOps == {"createDraft", "addFiles", "close", "approve", "deleteDraft"}

\* What is open or closed here besides the package that was open at first.
Brought(kept) == (kept.open \union kept.made) \ {Min(Packages)}

\* How far the making is, and which package it may have left.
ShownBy(c, kept) ==
  /\ c.op = "createDraft" => Brought(kept) \subseteq (IF c.stage = "answered" THEN {c.answer} ELSE {})
  /\ c.op \in {"addFiles", "close", "approve"} => Brought(kept) \subseteq {c.at}
  /\ c.op = "deleteDraft" => Brought(kept) \subseteq (IF c.stage = "sent" THEN {c.at} ELSE {})
  /\ c.op \in {"createDraft", "addFiles", "deleteDraft"} => kept.made \subseteq {Min(Packages)}

UploadDialog == view.dialog # None /\ view.dialog.of = "upload"

\* One version is brought, asked about and then made; which package was made for it is known as
\* long as the answers come.
MakingInv ==
  /\ OnUploads =>
       /\ AtMostOne(InFlight(MakingOps))
       /\ UploadDialog => InFlight(MakingOps) = {}
       /\ UploadDialog \/ InFlight(MakingOps) # {} => stored.spent
       /\ \/ stored.unheard
          \/ /\ InFlight(MakingOps) = {} => Brought(stored) = {}
             /\ \A s \in InFlight(MakingOps) : ShownBy(calls[s], stored)
  /\ ~OnUploads => stored.unheard \/ Brought(stored) \subseteq {page.at}

\* Nothing more is open or closed here.
NoMoreBrought ==
  /\ stored'.open \subseteq stored.open /\ stored'.made = stored.made
  /\ stored'.spent = stored.spent /\ stored'.unheard = stored.unheard

\* The making stays as it is.
LEMMA MakingStays ==
  ASSUME MakingInv, OnUploads, page' = page, Keeps(MakingOps), NoMoreBrought, UploadDialog' => UploadDialog
  PROVE  MakingInv'
<1>1. /\ InFlight(MakingOps)' = InFlight(MakingOps)
      /\ \A s \in InFlight(MakingOps) : calls'[s] = calls[s]
  BY KeptAsked
<1>2. Brought(stored') \subseteq Brought(stored)
  BY DEF NoMoreBrought, Brought
<1>3. \A s \in InFlight(MakingOps) : ShownBy(calls[s], stored) => ShownBy(calls'[s], stored')
  BY <1>1, <1>2 DEF ShownBy, NoMoreBrought
<1> QED BY <1>1, <1>2, <1>3 DEF MakingInv, OnUploads, NoMoreBrought

\* The making goes on to its next request, or its request is answered.
LEMMA MakingGoesOn ==
  ASSUME MakingInv, OnUploads, page' = page, NEW s \in InFlight(MakingOps), NEW k, InFlight(MakingOps)' = {k},
         UploadDialog' => UploadDialog,
         stored'.spent = stored.spent,
         stored'.unheard \/ (~stored.unheard /\ (ShownBy(calls[s], stored) => ShownBy(calls'[k], stored')))
  PROVE  MakingInv'
<1>1. ~UploadDialog /\ stored.spent /\ (stored.unheard \/ ShownBy(calls[s], stored))
  BY DEF MakingInv
<1>2. stored'.unheard \/ \A q \in InFlight(MakingOps)' : ShownBy(calls'[q], stored')
  BY <1>1
<1> QED BY <1>1, <1>2 DEF MakingInv, OnUploads, AtMostOne

\* The making is over and the page stays.
LEMMA MakingEnds ==
  ASSUME MakingInv, OnUploads, page' = page, NEW s \in InFlight(MakingOps), InFlight(MakingOps)' = {},
         UploadDialog' => UploadDialog,
         stored'.spent = stored.spent,
         stored'.unheard \/ (~stored.unheard /\ (ShownBy(calls[s], stored) => Brought(stored') = {}))
  PROVE  MakingInv'
<1>1. ~UploadDialog /\ (stored.unheard \/ ShownBy(calls[s], stored))
  BY DEF MakingInv
<1> QED BY <1>1 DEF MakingInv, OnUploads, AtMostOne

\* Of the service, what it does to the packages while one is made.
LEMMA MakingServed ==
  ASSUME UploadInv, MakingInv, NoneIsNoRequest, NEW s \in Slots, UploadServed(s)
  PROVE  MakingInv'
<1> DEFINE c == calls[s]
<1>0. CallTable /\ c # None /\ OnUploads /\ c.stage = "sent" /\ stored = [f \in UploadKeeps |-> stored[f]]
  BY StillThere DEF UploadServed, InStage, UploadInv, ShelfRight, IsShelf
<1>1. /\ Serves(s, calls'[s]) /\ IsRequest(calls'[s]) /\ UNCHANGED <<page, view>>
      /\ calls'[s].op = c.op /\ calls'[s].at = c.at
      /\ CallTable' /\ InFlight(MakingOps)' = InFlight(MakingOps)
  <2>1. Refuse(s) \/ \E a, after : Serve(s, a, after)
    BY DEF UploadServed
  <2> QED BY <1>0, <2>1, Serving, AskedStill DEF ServedAs
<1>2. \/ /\ calls'[s].stage = "refused" /\ stored' = stored
         /\ c.op = "deleteDraft" => c.at \notin stored.open
      \/ /\ calls'[s].stage = "answered" /\ calls'[s].answer = UploadAnswer(c)
         /\ stored' = UploadEffect(c) /\ ~UploadRefuses(c)
  <2>1. CASE Refuse(s)
    <3>1. calls'[s].stage = "refused" /\ stored' = stored
      BY <1>0, <2>1, Serving DEF ServedAs
    <3>2. UploadRefuses(c) \/ c.op # "deleteDraft"
      <4>1. ~Serve(s, UploadAnswer(c), UploadEffect(c))
        <5>1. Serve(s, UploadAnswer(c), UploadEffect(c)) => calls'[s].stage = "answered"
          BY <1>0, Serving DEF ServedAs
        <5> QED BY <3>1, <5>1
      <4> QED BY <4>1 DEF UploadServed
    <3> QED BY <3>1, <3>2 DEF UploadRefuses, Additions
  <2>2. CASE ~UploadRefuses(c) /\ Serve(s, UploadAnswer(c), UploadEffect(c))
    BY <1>0, <2>2, Serving DEF ServedAs
  <2> QED BY <2>1, <2>2 DEF UploadServed
<1>3. CASE c.op \notin MakingOps
  <2>1. Keeps(MakingOps)
    BY <1>0, <1>1, <1>3, KeptServing
  <2>2. /\ stored'.open = stored.open /\ stored'.made = stored.made /\ stored'.spent = stored.spent /\ stored'.unheard = stored.unheard
    <3>1. CASE c.op \in Additions /\ stored' = UploadEffect(c)
      <4> DEFINE d == c.at
                 t == stored.taken[c.at] \union {c.with.item}
                 i == IF c.op = "addIncoming" THEN stored.inbox \ {c.with.item} ELSE stored.inbox
      <4>1. stored' = [stored EXCEPT !.taken[d] = t, !.inbox = i]
        BY <1>0, <3>1 DEF UploadEffect, Additions, UploadKeeps
      <4> HIDE DEF d, t, i
      <4> QED BY <1>0, <4>1 DEF UploadKeeps
    <3>2. CASE c.op \notin Additions /\ stored' = UploadEffect(c)
      BY <1>3, <3>2 DEF UploadEffect, MakingOps
    <3> QED BY <1>2, <3>1, <3>2
  <2>3. NoMoreBrought
    BY <2>2 DEF NoMoreBrought
  <2>4. UploadDialog' => UploadDialog
    BY <1>1 DEF UploadDialog
  <2> QED BY <1>0, <1>1, <2>1, <2>3, <2>4, MakingStays
<1>4. CASE c.op \in MakingOps
  <2>1. s \in InFlight(MakingOps) /\ InFlight(MakingOps)' = {s}
    BY <1>0, <1>1, <1>4 DEF InFlight, MakingInv, AtMostOne
  <2>2. UploadDialog' => UploadDialog
    BY <1>1 DEF UploadDialog
  <2>3. ASSUME stored'.spent = stored.spent, stored'.unheard = stored.unheard,
               ShownBy(c, stored) => ShownBy(calls'[s], stored')
        PROVE  MakingInv'
    BY <1>0, <1>1, <2>1, <2>2, <2>3, MakingGoesOn
  <2>4. CASE stored' = stored /\ calls'[s].stage = "refused" /\ (c.op = "deleteDraft" => c.at \notin stored.open)
    BY <1>0, <1>1, <2>3, <2>4 DEF ShownBy, Brought
  <2>5. CASE c.op = "createDraft" /\ stored' = UploadEffect(c) /\ calls'[s].answer = UploadAnswer(c) /\ calls'[s].stage = "answered"
    <3> DEFINE d == Min(Packages \ stored.used)
    <3>1. stored' = [stored EXCEPT !.open = @ \union {d}, !.used = @ \union {d}] /\ calls'[s].answer = d
      BY <2>5 DEF UploadEffect, UploadAnswer, Additions
    <3> HIDE DEF d
    <3>2. /\ stored'.open = stored.open \union {d} /\ stored'.made = stored.made
          /\ stored'.spent = stored.spent /\ stored'.unheard = stored.unheard
      BY <1>0, <3>1 DEF UploadKeeps
    <3>3. ShownBy(c, stored) => ShownBy(calls'[s], stored')
      BY <1>0, <1>1, <2>5, <3>1, <3>2 DEF ShownBy, Brought
    <3> QED BY <2>3, <3>2, <3>3
  <2>6. CASE c.op = "addFiles" /\ stored' = UploadEffect(c)
    <3> DEFINE t == stored.taken[c.at] \union {c.with.item}
    <3>1. stored' = [stored EXCEPT !.taken[c.at] = t, !.inbox = @]
      BY <2>6 DEF UploadEffect, Additions
    <3> HIDE DEF t
    <3>2. /\ stored'.open = stored.open /\ stored'.made = stored.made
          /\ stored'.spent = stored.spent /\ stored'.unheard = stored.unheard
      BY <1>0, <3>1 DEF UploadKeeps
    <3>3. ShownBy(c, stored) => ShownBy(calls'[s], stored')
      BY <1>1, <2>6, <3>2 DEF ShownBy, Brought
    <3> QED BY <2>3, <3>2, <3>3
  <2>7. CASE c.op = "deleteDraft" /\ stored' = UploadEffect(c) /\ calls'[s].stage = "answered"
    <3>1. stored' = [stored EXCEPT !.open = @ \ {c.at}]
      BY <2>7 DEF UploadEffect, Additions
    <3>2. /\ stored'.open = stored.open \ {c.at} /\ stored'.made = stored.made
          /\ stored'.spent = stored.spent /\ stored'.unheard = stored.unheard
      BY <1>0, <3>1 DEF UploadKeeps
    <3>3. ShownBy(c, stored) => ShownBy(calls'[s], stored')
      BY <1>0, <1>1, <2>7, <3>2 DEF ShownBy, Brought
    <3> QED BY <2>3, <3>2, <3>3
  <2>8. CASE c.op = "close" /\ stored' = UploadEffect(c)
    <3>1. stored' = [stored EXCEPT !.open = @ \ {c.at}, !.made = @ \union {c.at}]
      BY <2>8 DEF UploadEffect, Additions
    <3>2. /\ stored'.open = stored.open \ {c.at} /\ stored'.made = stored.made \union {c.at}
          /\ stored'.spent = stored.spent /\ stored'.unheard = stored.unheard
      BY <1>0, <3>1 DEF UploadKeeps
    <3>3. ShownBy(c, stored) => ShownBy(calls'[s], stored')
      BY <1>1, <2>8, <3>2 DEF ShownBy, Brought
    <3> QED BY <2>3, <3>2, <3>3
  <2>9. CASE c.op = "approve" /\ stored' = UploadEffect(c)
    <3>1. stored' = stored
      BY <2>9 DEF UploadEffect, Additions
    <3>2. ShownBy(c, stored) => ShownBy(calls'[s], stored')
      BY <1>1, <2>9, <3>1 DEF ShownBy
    <3> QED BY <2>3, <3>1, <3>2
  <2> QED BY <1>2, <1>4, <2>4, <2>5, <2>6, <2>7, <2>8, <2>9 DEF MakingOps
<1> QED BY <1>3, <1>4

\* What is asked for to pack into is for packing, and so is the dialog with the packages.
TaskOps ==
  OnUploads => /\ \A s \in InFlight({"drafts"}) : calls[s].with.op \in Packs
               /\ view.dialog # None /\ view.dialog.of = "drafts" => view.dialog.task.op \in Packs

\* Nothing is asked for to pack into, or it is for packing.
LEMMA TaskOpsStay ==
  ASSUME TaskOps, OnUploads, page' = page,
         view'.dialog \in {view.dialog, None} \/ view'.dialog.of = "upload" \/ view'.dialog.task.op \in Packs,
         \A q \in Slots : \/ calls'[q] = calls[q] \/ Outside(calls'[q], {"drafts"})
                          \/ calls'[q].with.op \in Packs
  PROVE  TaskOps'
<1>1. \A q \in InFlight({"drafts"})' : calls'[q].with.op \in Packs
  BY DEF InFlight, Outside, TaskOps
<1>2. view'.dialog # None /\ view'.dialog.of = "drafts" => view'.dialog.task.op \in Packs
  BY DEF TaskOps
<1> QED BY <1>1, <1>2 DEF TaskOps, OnUploads

\* One request is sent, or ends, or both.
LEMMA OneAsked ==
  ASSUME UploadInv, NEW x, IsRequest(x), Send(<<x>>) \/ \E s \in Slots : Ends(s, <<x>>) \/ Ends(s, <<>>)
  PROVE  /\ \A q \in Slots : calls'[q] \in {calls[q], None, x}
         /\ x.op # "drafts" => \A q \in Slots : calls'[q] = calls[q] \/ Outside(calls'[q], {"drafts"})
<1>1. \A q \in Slots : calls'[q] \in {calls[q], None, x}
  BY KeptSending, KeptEnding DEF UploadInv
<1> QED BY <1>1 DEF Outside

\* What the steps do to the dialog.
LEMMA DialogOfUploads ==
  ASSUME UploadInv, OnUploads, NEW v, NEW w, NEW u,
         \/ view' = view
         \/ view' = [view EXCEPT !.picked = v]
         \/ view' = [view EXCEPT !.search = v]
         \/ view' = [view EXCEPT !.outcome = None]
         \/ view' = [view EXCEPT !.busy = v]
         \/ view' = [view EXCEPT !.targets = v, !.inbox = w, !.problem = u]
         \/ view' = [view EXCEPT !.problem = v]
         \/ view' = [view EXCEPT !.picked = v, !.busy = FALSE, !.outcome = w]
         \/ view' = [view EXCEPT !.dialog = None]
         \/ view' = [view EXCEPT !.dialog = None, !.busy = TRUE]
         \/ view' = [view EXCEPT !.dialog = None, !.busy = FALSE, !.outcome = v]
  PROVE  view'.dialog \in {view.dialog, None}
BY DEF UploadInv, UploadFields

\* What is picked changes, or what is typed, or a dialog goes.
QuietOnUploads ==
  /\ OnUploads /\ UNCHANGED <<page, calls, stored>>
  /\ \E v : \/ view' = [view EXCEPT !.picked = v] \/ view' = [view EXCEPT !.search = v]
            \/ view' = [view EXCEPT !.dialog = None]

\* A question to pack into, of what was chosen.
AskedToPack == \E op \in Packs : \E chosen, alone : AskDraft(op, chosen, alone)

\* A version to bring is asked about.
AskedToBring ==
  /\ Listed /\ MayBring /\ Bringing /\ UNCHANGED <<page, calls>>
  /\ \E t : view' = [view EXCEPT !.dialog = [of |-> "upload", target |-> t], !.outcome = None]

\* The steps of whoever is at the page.
LEMMA HandlersOfUploads ==
  ASSUME UploadInv, NEW on \in BOOLEAN, NEW t, NEW q,
         \/ SearchFor(q) \/ PickTarget(t, on) \/ PickGroup(t, on) \/ PickSection(q, on)
         \/ PackPicked(on) \/ PackOne(t, on) \/ PickNone \/ CloseDialog \/ AskUpload(t) \/ AskUploadNew(t)
  PROVE  QuietOnUploads \/ AskedToPack \/ AskedToBring
<1>1. ASSUME NEW picked, Picking(picked)
      PROVE  QuietOnUploads
  BY <1>1 DEF Picking, Listed, QuietOnUploads
<1>2. ASSUME NEW op \in {"addRunning", "addIncoming"}, NEW chosen, NEW alone, AskDraft(op, chosen, alone)
      PROVE  AskedToPack
  BY <1>2 DEF AskedToPack, Packs
<1>3. SearchFor(q) \/ CloseDialog => QuietOnUploads
  BY DEF SearchFor, CloseDialog, Listed, QuietOnUploads
<1>4. AskUpload(t) \/ AskUploadNew(t) => AskedToBring
  BY DEF AskUpload, AskUploadNew, AskedToBring
<1>5. PickTarget(t, on) \/ PickGroup(t, on) \/ PickSection(q, on) \/ PickNone => QuietOnUploads
  BY <1>1 DEF PickTarget, PickGroup, PickSection, PickNone
<1>6. PackPicked(on) \/ PackOne(t, on) => AskedToPack
  BY <1>2 DEF PackPicked, PackOne
<1> QED BY <1>3, <1>4, <1>5, <1>6

\* The step of the page, by what it does.
LEMMA StepsOfUploads ==
  ASSUME UploadInv, UploadSteps
  PROVE  \/ \E d \in Packages : GivenUpElsewhere(d) \/ PackInto(d)
         \/ QuietOnUploads \/ AskedToPack \/ AskedToBring \/ UploadAndApply
         \/ \E s \in Slots : \/ UploadServed(s) \/ TargetsRead(s) \/ DraftsToPick(s) \/ PackEnds(s)
                             \/ OneAfterTheOther(s) \/ UploadNotTaken(s) \/ GivenUp(s) \/ UploadLeft(s)
BY HandlersOfUploads DEF UploadSteps

\* A task that begins or goes on: its next item, or what there is to show.
LEMMA TaskAsks ==
  ASSUME UploadInv, TaskOps, (\E d \in Packages : PackInto(d)) \/ \E s \in Slots : PackEnds(s)
  PROVE  /\ OnUploads /\ UNCHANGED <<page, stored>> /\ view'.dialog \in {view.dialog, None}
         /\ \E x : /\ IsRequest(x) /\ x.op \in Packs \union {"targets"}
                   /\ \/ Send(<<x>>)
                      \/ \E s \in InFlight(Packs) : Ends(s, <<x>>) \/ Ends(s, <<>>)
<1> DEFINE y == Request("targets", None, None)
<1>0. IsRequest(y) /\ y.op = "targets" /\ TargetsQuestion = <<y>>
  BY Requests DEF Request, TargetsQuestion
<1>a. \A task : IsRequest(NextOf(task)) /\ NextOf(task).op = task.op
  BY Requests DEF NextOf, Request
<1> HIDE DEF y
<1>1. ASSUME NEW d \in Packages, PackInto(d)
      PROVE  /\ OnUploads /\ UNCHANGED <<page, stored>> /\ view'.dialog \in {view.dialog, None}
             /\ \E x : IsRequest(x) /\ x.op \in Packs \union {"targets"} /\ Send(<<x>>)
  <2> DEFINE asked == view.dialog.task
             task == [op |-> asked.op, draft |-> d, chosen |-> asked.chosen, left |-> asked.chosen,
                      alone |-> asked.alone, done |-> {}, failed |-> {}]
  <2>1. OnUploads /\ UNCHANGED <<page, stored>> /\ asked.op \in Packs
    BY <1>1 DEF PackInto, DialogOf, TaskOps
  <2>2. task.op = asked.op
    OBVIOUS
  <2>3. \/ view' = ReadAfter([view EXCEPT !.dialog = None], task) /\ Send(TargetsQuestion)
        \/ view' = [view EXCEPT !.dialog = None, !.busy = TRUE] /\ Send(<<NextOf(task)>>)
    BY <1>1 DEF PackInto
  <2> HIDE DEF task
  <2>4. view'.dialog \in {view.dialog, None}
    BY <2>1, <2>3, DialogOfUploads DEF ReadAfter
  <2>5. NextOf(task).op \in Packs
    BY <1>a, <2>1, <2>2
  <2> QED BY <1>0, <1>a, <2>1, <2>3, <2>4, <2>5
<1>2. ASSUME NEW s \in Slots, PackEnds(s)
      PROVE  /\ OnUploads /\ UNCHANGED <<page, stored>> /\ view'.dialog \in {view.dialog, None}
             /\ s \in InFlight(Packs)
             /\ \E x : IsRequest(x) /\ x.op \in Packs \union {"targets"} /\ (Ends(s, <<x>>) \/ Ends(s, <<>>))
  <2>1. PICK went \in BOOLEAN :
        /\ IF went THEN Packed(s) ELSE NotPacked(s)
        /\ LET item == calls[s].with.item
               now == calls[s].with.task
               task == IF went THEN [now EXCEPT !.done = @ \union {item}] ELSE [now EXCEPT !.failed = @ \union {item}]
               next == [view EXCEPT !.picked = IF went /\ ~now.alone THEN @ \ {item} ELSE @]
           IN  IF task.left # {} THEN view' = next /\ Ends(s, <<NextOf(task)>>)
               ELSE /\ view' = ReadAfter(next, task)
                    /\ Ends(s, IF task.alone /\ ~went THEN <<>> ELSE TargetsQuestion)
    BY <1>2 DEF PackEnds
  <2> DEFINE item == calls[s].with.item
             now == calls[s].with.task
             task == IF went THEN [now EXCEPT !.done = @ \union {item}] ELSE [now EXCEPT !.failed = @ \union {item}]
             picked == IF went /\ ~now.alone THEN view.picked \ {item} ELSE view.picked
  <2>2. calls[s] # None /\ s \in InFlight(Packs)
    BY <2>1 DEF Packed, NotPacked, Answer, Failure, InStage, InFlight, Packs
  <2>3. OnUploads /\ UNCHANGED <<page, stored>>
    BY <1>2, <2>2, StillThere DEF PackEnds
  <2>4. \/ view' = [view EXCEPT !.picked = picked] /\ Ends(s, <<NextOf(task)>>)
        \/ /\ view' = ReadAfter([view EXCEPT !.picked = picked], task)
           /\ Ends(s, <<>>) \/ Ends(s, TargetsQuestion)
    BY <2>1
  <2>5. now = [f \in TaskFields |-> now[f]] /\ now.op \in Packs
    BY <2>2 DEF UploadInv, ItemUnderway, InFlight
  <2> HIDE DEF item, now, picked
  <2>6. task.op = now.op
    <3> DEFINE a == [now EXCEPT !.done = @ \union {item}]
               b == [now EXCEPT !.failed = @ \union {item}]
    <3>1. a.op = now.op /\ b.op = now.op /\ task \in {a, b}
      BY <2>5 DEF TaskFields
    <3> HIDE DEF a, b, task
    <3> QED BY <3>1
  <2> HIDE DEF task
  <2>7. view'.dialog \in {view.dialog, None}
    <3>1. \/ view' = [view EXCEPT !.picked = picked]
          \/ view' = [view EXCEPT !.picked = picked, !.busy = FALSE, !.outcome = task]
      BY <2>4 DEF ReadAfter
    <3> QED BY <2>3, <3>1, DialogOfUploads
  <2>8. NextOf(task).op \in Packs
    BY <1>a, <2>5, <2>6
  <2> QED BY <1>0, <1>a, <2>2, <2>3, <2>4, <2>7, <2>8
<1> QED BY <1>1, <1>2

\* Every step keeps what is asked for to pack into for packing.
LEMMA TaskOpsStep == UploadInv /\ TaskOps /\ [UploadSteps]_browser => TaskOps'
<1> SUFFICES ASSUME UploadInv, TaskOps, [UploadSteps]_browser
             PROVE  TaskOps'
  OBVIOUS
<1>1. CASE UNCHANGED browser
  BY <1>1 DEF browser, TaskOps, OnUploads, InFlight
<1>2. ASSUME OnUploads, page' = page, calls' = calls, view'.dialog \in {view.dialog, None} \/ view'.dialog.of = "upload"
      PROVE  TaskOps'
  BY <1>2, TaskOpsStay
<1>3. ASSUME NEW d \in Packages, GivenUpElsewhere(d)
      PROVE  TaskOps'
  BY <1>2, <1>3 DEF GivenUpElsewhere
<1>4. CASE QuietOnUploads
  BY <1>2, <1>4, DialogOfUploads DEF QuietOnUploads
<1>5. CASE AskedToBring
  <2>1. PICK t : view' = [view EXCEPT !.dialog = [of |-> "upload", target |-> t], !.outcome = None]
    BY <1>5 DEF AskedToBring
  <2> DEFINE d == [of |-> "upload", target |-> t]
  <2>2. view' = [view EXCEPT !.dialog = d, !.outcome = None] /\ d.of = "upload"
    BY <2>1
  <2> HIDE DEF d
  <2>3. view'.dialog = d /\ OnUploads
    BY <1>5, <2>2 DEF AskedToBring, Listed, UploadInv, UploadFields
  <2> QED BY <1>2, <1>5, <2>2, <2>3 DEF AskedToBring
<1>6. ASSUME NEW op \in Packs, NEW chosen, NEW alone, AskDraft(op, chosen, alone)
      PROVE  TaskOps'
  <2> DEFINE w == [op |-> op, chosen |-> chosen, alone |-> alone]
             x == Request("drafts", None, w)
  <2>1. IsRequest(x) /\ x.with = w /\ w.op = op
    BY Requests DEF Request
  <2>2. OnUploads /\ page' = page /\ view' = [view EXCEPT !.outcome = None] /\ Send(<<x>>)
    BY <1>6 DEF AskDraft, Listed
  <2> HIDE DEF w, x
  <2>3. \A q \in Slots : calls'[q] = calls[q] \/ calls'[q] = None \/ calls'[q].with.op \in Packs
    BY <2>1, <2>2, OneAsked
  <2> QED BY <2>2, <2>3, DialogOfUploads, TaskOpsStay DEF Outside
<1>7. ASSUME OnUploads, page' = page, view'.dialog \in {view.dialog, None},
             NEW x, IsRequest(x), x.op # "drafts", Send(<<x>>) \/ \E s \in Slots : Ends(s, <<x>>) \/ Ends(s, <<>>)
      PROVE  TaskOps'
  BY <1>7, OneAsked, TaskOpsStay
<1>8. CASE (\E d \in Packages : PackInto(d)) \/ \E s \in Slots : PackEnds(s)
  <2>1. \E x : /\ IsRequest(x) /\ x.op # "drafts"
               /\ Send(<<x>>) \/ \E s \in Slots : Ends(s, <<x>>) \/ Ends(s, <<>>)
    BY <1>8, TaskAsks DEF Packs, InFlight
  <2> QED BY <1>7, <1>8, <2>1, TaskAsks
<1>9. CASE UploadAndApply
  <2>1. \E at, with : Send(<<Request("createDraft", at, with)>>)
    BY <1>9 DEF UploadAndApply
  <2>2. \A at, with : IsRequest(Request("createDraft", at, with)) /\ Request("createDraft", at, with).op # "drafts"
    BY Requests DEF Request
  <2>3. OnUploads /\ page' = page /\ view'.dialog \in {view.dialog, None}
    BY <1>9, DialogOfUploads DEF UploadAndApply, DialogOf
  <2> QED BY <1>7, <2>1, <2>2, <2>3
<1>10. ASSUME NEW s \in Slots, UploadServed(s)
       PROVE  TaskOps'
  <2>1. CallTable /\ calls[s] # None /\ OnUploads
    BY <1>10, StillThere DEF UploadServed, InStage, UploadInv
  <2>2. Refuse(s) \/ \E a, after : Serve(s, a, after)
    BY <1>10 DEF UploadServed
  <2>3. Serves(s, calls'[s]) /\ calls'[s].op = calls[s].op /\ calls'[s].with = calls[s].with /\ UNCHANGED <<page, view>>
    BY <2>1, <2>2, Serving DEF ServedAs
  <2>4. \A q \in Slots : calls'[q] = calls[q] \/ Outside(calls'[q], {"drafts"}) \/ calls'[q].with.op \in Packs
    BY <2>1, <2>3 DEF Serves, TaskOps, Outside, InFlight
  <2> QED BY <2>1, <2>3, <2>4, TaskOpsStay
<1>11. ASSUME NEW s \in Slots, TargetsRead(s) \/ OneAfterTheOther(s) \/ UploadNotTaken(s) \/ GivenUp(s)
       PROVE  TaskOps'
  <2>1. OnUploads /\ page' = page
    BY <1>11, StillThere DEF TargetsRead, OneAfterTheOther, UploadNotTaken, GivenUp, Answer, Failure, InStage
  <2>2. \E op \in {"addFiles", "close", "approve", "deleteDraft"} : \E at, with : Ends(s, <<Request(op, at, with)>>) \/ Ends(s, <<>>)
    BY <1>11 DEF TargetsRead, OneAfterTheOther, UploadNotTaken, GivenUp
  <2>3. \A op \in {"addFiles", "close", "approve", "deleteDraft"} : \A at, with :
          IsRequest(Request(op, at, with)) /\ Request(op, at, with).op # "drafts"
    BY Requests DEF Request
  <2>4. \/ view' = view \/ view' = [view EXCEPT !.busy = FALSE] \/ view' = [view EXCEPT !.problem = TRUE]
        \/ \E v, w : view' = [view EXCEPT !.targets = v, !.inbox = w, !.problem = FALSE]
    BY <1>11 DEF TargetsRead, OneAfterTheOther, UploadNotTaken, GivenUp
  <2>5. view'.dialog \in {view.dialog, None}
    <3>1. view = [f \in UploadFields |-> view[f]]
      BY <2>1 DEF UploadInv
    <3>2. ASSUME NEW v, NEW w, view' = [view EXCEPT !.targets = v, !.inbox = w, !.problem = FALSE]
          PROVE  view'.dialog = view.dialog
      BY <3>1, <3>2 DEF UploadFields
    <3>3. view' = [view EXCEPT !.busy = FALSE] \/ view' = [view EXCEPT !.problem = TRUE] => view'.dialog = view.dialog
      BY <3>1 DEF UploadFields
    <3> QED BY <2>4, <3>2, <3>3
  <2> QED BY <1>7, <2>1, <2>2, <2>3, <2>5
<1>12. ASSUME NEW s \in Slots, DraftsToPick(s)
       PROVE  TaskOps'
  <2>1. calls[s] # None /\ page' = page /\ Ends(s, <<>>) /\ s \in InFlight({"drafts"})
    BY <1>12 DEF DraftsToPick, Answer, Failure, InStage, InFlight
  <2>2. OnUploads /\ view = [f \in UploadFields |-> view[f]] /\ calls[s].with.op \in Packs
    BY <2>1, StillThere DEF TaskOps
  <2> DEFINE d == [of |-> "drafts", drafts |-> calls[s].answer, task |-> calls[s].with]
  <2>3. (view' = [view EXCEPT !.dialog = d] \/ view' = view) /\ d.task = calls[s].with
    BY <1>12 DEF DraftsToPick
  <2> HIDE DEF d
  <2>4. view'.dialog = view.dialog \/ view'.dialog.task.op \in Packs
    BY <2>2, <2>3 DEF UploadFields
  <2>5. \A q \in Slots : calls'[q] = calls[q] \/ calls'[q] = None
    BY <2>1, AskedLess DEF UploadInv
  <2> QED BY <2>1, <2>2, <2>4, <2>5, TaskOpsStay DEF Outside
<1>13. ASSUME NEW s \in Slots, UploadLeft(s)
       PROVE  TaskOps'
  BY <1>13 DEF UploadLeft, TaskOps, OnUploads
<1> QED BY <1>1, <1>3, <1>4, <1>5, <1>6, <1>8, <1>9, <1>10, <1>11, <1>12, <1>13, StepsOfUploads DEF AskedToPack

\* Something else is packed, picked, read or given up: what is made is not disturbed.
LEMMA MakingApart ==
  ASSUME UploadInv, TaskOps, MakingInv,
         \/ \E d \in Packages : GivenUpElsewhere(d) \/ PackInto(d)
         \/ QuietOnUploads \/ AskedToPack
         \/ \E s \in Slots : TargetsRead(s) \/ DraftsToPick(s) \/ PackEnds(s)
  PROVE  MakingInv'
<1>0. CallTable /\ stored = [f \in UploadKeeps |-> stored[f]]
  BY DEF UploadInv, ShelfRight, IsShelf
<1>a. stored' = stored => NoMoreBrought
  BY DEF NoMoreBrought
<1>b. view'.dialog \in {view.dialog, None} \/ view'.dialog.of = "drafts" => (UploadDialog' => UploadDialog)
  BY DEF UploadDialog
<1>c. calls' = calls => Keeps(MakingOps)
  BY DEF Keeps
<1>1. ASSUME NEW d \in Packages, GivenUpElsewhere(d)
      PROVE  MakingInv'
  <2>1. NoMoreBrought
    BY <1>0, <1>1 DEF GivenUpElsewhere, UploadKeeps, NoMoreBrought
  <2> QED BY <1>1, <1>b, <1>c, <2>1, MakingStays DEF GivenUpElsewhere
<1>2. CASE QuietOnUploads
  <2>1. view'.dialog \in {view.dialog, None}
    BY <1>2, DialogOfUploads DEF QuietOnUploads
  <2> QED BY <1>2, <1>a, <1>b, <1>c, <2>1, MakingStays DEF QuietOnUploads
<1>3. CASE AskedToPack
  <2>0. PICK op \in Packs : \E chosen, alone : AskDraft(op, chosen, alone)
    BY <1>3 DEF AskedToPack
  <2>1. PICK chosen, alone : AskDraft(op, chosen, alone)
    BY <2>0
  <2> DEFINE x == Request("drafts", None, [op |-> op, chosen |-> chosen, alone |-> alone])
             n == stored.tasks + 1
  <2>2. IsRequest(x) /\ x.op = "drafts" /\ Send(<<x>>)
    BY <2>1, Requests DEF AskDraft, Request
  <2>3. OnUploads /\ page' = page /\ view' = [view EXCEPT !.outcome = None] /\ stored' = [stored EXCEPT !.tasks = n]
    BY <2>1 DEF AskDraft, Listed, OneMoreTask
  <2> HIDE DEF x
  <2>4. Keeps(MakingOps)
    BY <1>0, <2>2, KeptSending DEF MakingOps
  <2>5. view'.dialog \in {view.dialog, None}
    BY <2>3, DialogOfUploads
  <2> HIDE DEF n
  <2>6. NoMoreBrought
    BY <1>0, <2>3 DEF NoMoreBrought, UploadKeeps
  <2> QED BY <1>b, <2>3, <2>4, <2>5, <2>6, MakingStays
<1>4. CASE (\E d \in Packages : PackInto(d)) \/ \E s \in Slots : PackEnds(s)
  <2>1. OnUploads /\ UNCHANGED <<page, stored>> /\ view'.dialog \in {view.dialog, None}
    BY <1>4, TaskAsks
  <2>2. PICK x : /\ IsRequest(x) /\ x.op \in Packs \union {"targets"}
                 /\ \/ Send(<<x>>)
                    \/ \E s \in InFlight(Packs) : Ends(s, <<x>>) \/ Ends(s, <<>>)
    BY <1>4, TaskAsks
  <2>3. x.op \notin MakingOps
    BY <2>2 DEF Packs, MakingOps
  <2>4. ASSUME NEW s \in InFlight(Packs), Ends(s, <<x>>) \/ Ends(s, <<>>)
        PROVE  Keeps(MakingOps)
    <3>1. s \in Slots /\ Outside(calls[s], MakingOps)
      BY DEF InFlight, Packs, MakingOps, Outside
    <3> QED BY <1>0, <2>2, <2>3, <2>4, <3>1, KeptEnding
  <2>5. Keeps(MakingOps)
    BY <1>0, <2>2, <2>3, <2>4, KeptSending
  <2> QED BY <1>a, <1>b, <2>1, <2>5, MakingStays
<1>5. ASSUME NEW s \in Slots, TargetsRead(s) \/ DraftsToPick(s)
      PROVE  MakingInv'
  <2>1. calls[s] # None /\ UNCHANGED <<page, stored>> /\ Ends(s, <<>>) /\ Outside(calls[s], MakingOps)
    BY <1>5 DEF TargetsRead, DraftsToPick, Answer, Failure, InStage, Outside, MakingOps
  <2>2. OnUploads /\ view = [f \in UploadFields |-> view[f]]
    BY <2>1, StillThere
  <2>3. Keeps(MakingOps)
    <3>1. IsRequest(Request("targets", None, None))
      BY Requests
    <3> QED BY <1>0, <2>1, <3>1, KeptEnding
  <2>4. view'.dialog = view.dialog \/ view'.dialog.of = "drafts"
    <3> DEFINE a == calls[s].answer.targets
               b == calls[s].answer.inbox
               d == [of |-> "drafts", drafts |-> calls[s].answer, task |-> calls[s].with]
    <3>1. /\ d.of = "drafts"
          /\ \/ view' = [view EXCEPT !.targets = a, !.inbox = b, !.problem = FALSE]
             \/ view' = [view EXCEPT !.problem = TRUE]
             \/ view' = [view EXCEPT !.dialog = d]
             \/ view' = view
      BY <1>5 DEF TargetsRead, DraftsToPick
    <3> HIDE DEF a, b, d
    <3> QED BY <2>2, <3>1 DEF UploadFields
  <2> QED BY <1>a, <1>b, <2>1, <2>2, <2>3, <2>4, MakingStays
<1> QED BY <1>1, <1>2, <1>3, <1>4, <1>5

\* A version is asked about: there was none before, and there is none after.
LEMMA MakingAskedAbout ==
  ASSUME UploadInv, MakingInv, AskedToBring
  PROVE  MakingInv'
<1>1. PICK t : view' = [view EXCEPT !.dialog = [of |-> "upload", target |-> t], !.outcome = None]
  BY DEF AskedToBring
<1>2. OnUploads /\ page' = page /\ calls' = calls /\ ~stored.spent
  BY DEF AskedToBring, Listed, MayBring
<1>3. ~UploadDialog /\ InFlight(MakingOps) = {} /\ (stored.unheard \/ Brought(stored) = {})
  BY <1>2 DEF MakingInv
<1>4. stored = [f \in UploadKeeps |-> stored[f]] /\ stored' = [stored EXCEPT !.spent = TRUE]
  BY DEF UploadInv, ShelfRight, IsShelf, AskedToBring, Bringing
<1>5. /\ stored'.open = stored.open /\ stored'.made = stored.made
      /\ stored'.unheard = stored.unheard /\ stored'.spent = TRUE
  BY <1>4 DEF UploadKeeps
<1>6. InFlight(MakingOps)' = {} /\ Brought(stored') = Brought(stored)
  BY <1>2, <1>3, <1>5 DEF InFlight, Brought
<1> QED BY <1>2, <1>3, <1>5, <1>6 DEF MakingInv, OnUploads, AtMostOne

\* The package for a version is asked for.
LEMMA MakingBegins ==
  ASSUME UploadInv, MakingInv, NoneIsNoRequest, UploadAndApply
  PROVE  MakingInv'
<1> DEFINE w == [item |-> view.dialog.target]
           x == Request("createDraft", None, w)
<1>1. OnUploads /\ UNCHANGED <<page, stored>> /\ Send(<<x>>) /\ UploadDialog
  BY DEF UploadAndApply, DialogOf, UploadDialog
<1>2. view'.dialog = None
  BY <1>1 DEF UploadAndApply, UploadInv, UploadFields
<1>3. IsRequest(x) /\ x.op = "createDraft" /\ x.stage = "sent"
  BY Requests DEF Request
<1> HIDE DEF w, x
<1>4. InFlight(MakingOps) = {} /\ stored.spent /\ (stored.unheard \/ Brought(stored) = {})
  BY <1>1 DEF MakingInv
<1>5. PICK k \in Slots : calls'[k] = x /\ \A ops : InFlight(ops)' = InFlight(ops) \union (IF x.op \in ops THEN {k} ELSE {})
  BY <1>1, <1>3, AskedMore DEF UploadInv
<1>6. InFlight(MakingOps)' = {k}
  BY <1>3, <1>4, <1>5 DEF MakingOps
<1>7. stored.unheard \/ ShownBy(calls'[k], stored)
  BY <1>3, <1>4, <1>5 DEF ShownBy, Brought
<1>8. ~UploadDialog'
  BY <1>2 DEF UploadDialog
<1> QED BY <1>1, <1>4, <1>6, <1>7, <1>8 DEF MakingInv, OnUploads, AtMostOne

\* The making goes on, or what was made for nothing is given up.
LEMMA MakingContinued ==
  ASSUME UploadInv, MakingInv, NoneIsNoRequest, NEW s \in Slots,
         OneAfterTheOther(s) \/ UploadNotTaken(s) \/ GivenUp(s)
  PROVE  MakingInv'
<1> DEFINE c == calls[s]
<1>1. c # None /\ c.op \in MakingOps /\ page' = page
  BY DEF OneAfterTheOther, UploadNotTaken, GivenUp, Answer, Failure, InStage, MakingOps
<1>2. /\ CallTable /\ OnUploads /\ stored = [f \in UploadKeeps |-> stored[f]]
      /\ view = [f \in UploadFields |-> view[f]] /\ s \in InFlight(MakingOps) /\ InFlight(MakingOps) = {s}
  BY <1>1, StillThere DEF UploadInv, ShelfRight, IsShelf, MakingInv, AtMostOne, InFlight
<1>3. UploadDialog' => UploadDialog
  <2>1. view' = view \/ view' = [view EXCEPT !.busy = FALSE]
    BY DEF OneAfterTheOther, UploadNotTaken, GivenUp
  <2> QED BY <1>2, <2>1 DEF UploadDialog, UploadFields
<1>4. ASSUME NEW op \in MakingOps, NEW at, NEW with, Ends(s, <<Request(op, at, with)>>),
             stored'.spent = stored.spent,
             \A d : IsRequest(d) /\ d.op = op /\ d.at = at /\ d.stage = "sent" =>
               stored'.unheard \/ (~stored.unheard /\ (ShownBy(c, stored) => ShownBy(d, stored')))
      PROVE  MakingInv'
  <2> DEFINE x == Request(op, at, with)
  <2>1. IsRequest(x) /\ x.op = op /\ x.at = at /\ x.stage = "sent"
    BY Requests DEF Request
  <2>2. Ends(s, <<x>>)
    BY <1>4
  <2> HIDE DEF x
  <2>3. PICK k \in Slots : calls'[k] = x /\ \A ops : InFlight(ops)' = (InFlight(ops) \ {s}) \union (IF x.op \in ops THEN {k} ELSE {})
    BY <1>2, <2>1, <2>2, AskedInstead
  <2>4. InFlight(MakingOps)' = {k}
    BY <1>2, <2>1, <2>3
  <2>5. stored'.unheard \/ (~stored.unheard /\ (ShownBy(c, stored) => ShownBy(calls'[k], stored')))
    BY <1>4, <2>1, <2>3
  <2> QED BY <1>1, <1>2, <1>3, <1>4, <2>4, <2>5, MakingGoesOn
<1>5. ASSUME Ends(s, <<>>), stored'.spent = stored.spent,
             stored'.unheard \/ (~stored.unheard /\ (ShownBy(c, stored) => Brought(stored') = {}))
      PROVE  MakingInv'
  <2>1. InFlight(MakingOps)' = {}
    BY <1>2, <1>5, AskedLess
  <2> QED BY <1>1, <1>2, <1>3, <1>5, <2>1, MakingEnds
<1>6. ASSUME NEW b, stored' = [stored EXCEPT !.unheard = b]
      PROVE  /\ stored'.open = stored.open /\ stored'.made = stored.made /\ stored'.spent = stored.spent
             /\ stored'.unheard = b
  BY <1>2, <1>6 DEF UploadKeeps
<1>7. CASE OneAfterTheOther(s)
  <2>1. stored' = stored /\ c.stage = "answered"
    BY <1>7 DEF OneAfterTheOther, Answer, InStage
  <2>2. CASE c.op = "createDraft" /\ Ends(s, <<Request("addFiles", c.answer, c.with)>>)
    BY <1>4, <2>1, <2>2 DEF ShownBy, MakingOps
  <2>3. CASE c.op = "addFiles" /\ Ends(s, <<Request("close", c.at, c.with)>>)
    BY <1>4, <2>1, <2>3 DEF ShownBy, MakingOps
  <2>4. CASE c.op = "close" /\ Ends(s, <<Request("approve", c.at, c.with)>>)
    BY <1>4, <2>1, <2>4 DEF ShownBy, MakingOps
  <2> QED BY <1>7, <2>2, <2>3, <2>4 DEF OneAfterTheOther, Answer, InStage
<1>8. CASE UploadNotTaken(s)
  <2> DEFINE b == stored.unheard \/ c.stage = "answered"
  <2>1. stored' = [stored EXCEPT !.unheard = b]
    BY <1>8 DEF UploadNotTaken, Unheard
  <2>2. /\ stored'.open = stored.open /\ stored'.made = stored.made /\ stored'.spent = stored.spent
        /\ stored'.unheard = b
    <3> HIDE DEF b
    <3> QED BY <1>6, <2>1
  <2>3. CASE c.op = "createDraft" /\ Ends(s, <<>>)
    BY <1>5, <2>2, <2>3 DEF ShownBy, Brought
  <2>4. CASE c.op = "addFiles" /\ Ends(s, <<Request("deleteDraft", c.at, None)>>)
    BY <1>4, <2>2, <2>4 DEF ShownBy, MakingOps, Brought
  <2> QED BY <1>8, <2>3, <2>4 DEF UploadNotTaken, Failure
<1>9. CASE GivenUp(s)
  <2>1. c.op = "deleteDraft" /\ Ends(s, <<>>)
    BY <1>9 DEF GivenUp, Answer, Failure, InStage
  <2>2. CASE stored' = stored /\ c.stage = "answered"
    BY <1>5, <2>1, <2>2 DEF ShownBy
  <2>3. CASE stored' = [stored EXCEPT !.unheard = @ \/ c.stage # "refused"]
    <3> DEFINE b == stored.unheard \/ c.stage # "refused"
    <3>1. stored' = [stored EXCEPT !.unheard = b]
      BY <2>3
    <3>2. /\ stored'.open = stored.open /\ stored'.made = stored.made /\ stored'.spent = stored.spent
          /\ stored'.unheard = b
      <4> HIDE DEF b
      <4> QED BY <1>6, <3>1
    <3> QED BY <1>5, <2>1, <3>2 DEF ShownBy, Brought
  <2> QED BY <1>9, <2>2, <2>3 DEF GivenUp, Answer, Failure, InStage
<1> QED BY <1>7, <1>8, <1>9

\* The page opens of what could not be closed, or was.
LEMMA MakingLeft ==
  ASSUME UploadInv, MakingInv, NEW s \in Slots, UploadLeft(s)
  PROVE  MakingInv'
<1>1. /\ calls[s] # None /\ calls[s].op \in {"close", "approve"} /\ stored' = stored
      /\ page'.name = "elsewhere" /\ page'.at = calls[s].at
  BY DEF UploadLeft, Answer, Failure, InStage
<1>2. OnUploads /\ s \in InFlight(MakingOps)
  BY <1>1, StillThere DEF InFlight, MakingOps
<1>3. stored.unheard \/ Brought(stored) \subseteq {calls[s].at}
  BY <1>1, <1>2 DEF MakingInv, ShownBy
<1>4. ~OnUploads'
  BY <1>1 DEF OnUploads
<1> QED BY <1>1, <1>3, <1>4 DEF MakingInv

\* Every step keeps what is known of the package that is made.
LEMMA MakingStep == UploadInv /\ TaskOps /\ MakingInv /\ NoneIsNoRequest /\ [UploadSteps]_browser => MakingInv'
<1> SUFFICES ASSUME UploadInv, TaskOps, MakingInv, NoneIsNoRequest, [UploadSteps]_browser
             PROVE  MakingInv'
  OBVIOUS
<1>1. CASE UNCHANGED browser
  BY <1>1 DEF browser, MakingInv, OnUploads, InFlight, UploadDialog
<1>2. CASE UploadSteps
  BY <1>2, StepsOfUploads, MakingApart, MakingAskedAbout, MakingBegins, MakingServed, MakingContinued, MakingLeft
<1> QED BY <1>1, <1>2

\* Whatever is refused on the way, by whom: the one version that is brought, whatever is packed beside
\* it, leaves no package open or closed that its page does not show, unless an answer or the
\* request that gives it up was lost (UploadScreens, NothingLeftHalfMade).
THEOREM NoneHalfMade ==
  ASSUME NEW targets, NEW inbox, NEW manual, NEW tasks, NoneIsNoRequest
  PROVE  UploadSpec(UploadStore(targets, inbox, manual, tasks)) => []NothingLeftHalfMade
<1> DEFINE kept == UploadStore(targets, inbox, manual, tasks)
           Inv == UploadInv /\ TaskOps /\ MakingInv
<1>0. FirstShelf(kept)
  BY StoreBegins
<1>1. UploadInit(kept) => Inv
  <2> HIDE DEF kept
  <2>1. ASSUME NEW k, k = kept, UploadInit(k)
        PROVE  Inv
    <3>1. /\ IsShelf(k) /\ k.open = {Min(Packages)} /\ k.made = {} /\ k.unheard = FALSE
      BY <1>0, <2>1 DEF FirstShelf
    <3>2. UploadInv
      BY <2>1, <3>1, UploadBegins
    <3> DEFINE o == UploadOpening
               x == Request("targets", None, None)
    <3>3. /\ o.asks = <<x>> /\ Fresh(o.asks) /\ o.page.name = "uploads" /\ o.view.dialog = None
          /\ x.op \notin MakingOps \union {"drafts"}
      BY Requests DEF UploadOpening, TargetsQuestion, Request, MakingOps
    <3> HIDE DEF o, x
    <3>4. Opened(o, k)
      BY <2>1 DEF UploadInit, o
    <3>5. \A q \in Slots : calls[q] # None => calls[q] = x
      BY <3>3, <3>4, Opening
    <3>6. OnUploads /\ view.dialog = None /\ stored = k
      BY <3>3, <3>4 DEF Opened, OnUploads
    <3>7. InFlight(MakingOps) = {} /\ InFlight({"drafts"}) = {}
      BY <3>3, <3>5 DEF InFlight
    <3>8. Brought(stored) = {}
      BY <3>1, <3>6 DEF Brought
    <3> QED BY <3>2, <3>6, <3>7, <3>8 DEF TaskOps, MakingInv, UploadDialog, AtMostOne
  <2> QED BY <2>1, Zenon
<1>2. Inv => NothingLeftHalfMade
  <2> SUFFICES ASSUME Inv, ~stored.unheard, InFlight(MakingOps) = {}
               PROVE  Brought(stored) \subseteq (IF OnUploads THEN {} ELSE {page.at})
    BY DEF NothingLeftHalfMade, InFlight, MakingOps, UploadWrites, Additions, Brought
  <2> QED BY DEF MakingInv
<1>3. Inv /\ [UploadSteps]_browser => Inv'
  BY UploadStep, TaskOpsStep, MakingStep
<1> QED BY <1>1, <1>2, <1>3, PTL DEF UploadSpec
=============================================================================
