--------------------------- MODULE PackageScreens ---------------------------
(* One package of the transport: the page that shows it, where the decision about it is *)
(* taken, and the box that sends it to another environment; and what the service makes  *)
(* of the decisions.                                                                    *)
EXTENDS Browser

CONSTANTS Versions,   \* the versions of the package
          MadeHere,   \* those made in this environment
          Items,      \* numbers of the items of a package
          MaxOrders   \* how many orders are given, besides those that only read or open another page

Running == {"Approved", "Applying", "Reverting"}
Waits == {"Pending", "Closed", "Reverted", "Failed"}
Revertible == {"Applied", "Partial", "RevertedPartly"}
Troubled == {"Partial", "Failed", "RevertedPartly"}

OnPackage == page.name = "package"
OnSending == page.name = "send"

-----------------------------------------------------------------------------
(* The service *)

PackageDetail(p) == [of |-> p, status |-> stored.status[p]]

\* What an order makes of a package, and in which states it is taken.
Decided(op, p) ==
  CASE op = "approve" -> "Approved"
    [] op = "reject" /\ stored.status[p] = "Pending" -> "Rejected"
    [] op = "reject" -> IF p \in MadeHere THEN "Closed" ELSE "Pending"
    [] op = "revert" -> "Reverting"
    [] op = "acknowledge" -> stored.status[p]
    [] op = "delete" -> "gone"

Taken(op, p) ==
  CASE op = "approve" -> stored.status[p] \in Waits
    [] op = "reject" -> stored.status[p] = "Approved" \/ (p \notin MadeHere /\ stored.status[p] = "Pending")
    [] op \in {"revert", "revertPlan"} -> stored.status[p] \in Revertible
    [] op = "acknowledge" -> stored.status[p] \in Troubled
    [] op = "delete" -> p \in MadeHere /\ stored.status[p] = "Closed"
    [] op = "reopened" -> TRUE
    [] OTHER -> stored.status[p] # "gone"

Orders == {"approve", "reject", "revert", "acknowledge", "delete"}
PackageReads == {"package", "check", "item", "revertPlan", "newVersion", "reopened"}

\* A comparison finds something that keeps the package from being applied, or not; a plan
\* has a step that goes back, or none.
PackageAnswers(c) ==
  CASE c.op \in {"check", "revertPlan"} -> BOOLEAN
    [] c.op = "package" -> {PackageDetail(c.at)}
    [] OTHER -> {None}

PackageServed(s) ==
  /\ InStage(s, PackageReads \union Orders, "sent")
  /\ LET c == calls[s]
     IN  IF ~Taken(c.op, c.at) THEN Refuse(s)
         ELSE IF c.op \in Orders
         THEN LET status == Decided(c.op, c.at)
              IN  Serve(s, [of |-> c.at, status |-> status], [stored EXCEPT !.status[c.at] = status])
         ELSE \E answer \in PackageAnswers(c) : Serve(s, answer, stored)

\* The runner takes the packages that were approved, or asked to be put back, to the end.
RunnerSteps(p) ==
  /\ OnPackage
  /\ \E next \in CASE stored.status[p] = "Approved"  -> {"Applying"}
                   [] stored.status[p] = "Applying"  -> {"Applied", "Partial", "Failed"}
                   [] stored.status[p] = "Reverting" -> {"Reverted", "RevertedPartly"}
                   [] OTHER -> {} :
       stored' = [stored EXCEPT !.status[p] = next]
  /\ UNCHANGED <<page, view, calls>>

-----------------------------------------------------------------------------
(* Reading the package *)

\* with: the first time, which compares with this environment too.
PackageQuestion(p, first) == <<Request("package", p, first)>>

VersionOpened(p) ==
  /\ OnPackage
  /\ p # page.at
  /\ page' = [page EXCEPT !.at = p]
  /\ view' = [view EXCEPT !.detail = None, !.checks = None, !.asking = None]
  /\ Send(PackageQuestion(p, TRUE))
  /\ UNCHANGED stored

\* What is running is read again and again by the timer; anything, when something else on
\* the page wants it to be.
ReadAgain ==
  /\ OnPackage
  /\ view.detail # None
  /\ Send(PackageQuestion(page.at, FALSE))
  /\ UNCHANGED <<page, view, stored>>

\* Compared the first time, and once more when what was running is over.
ComparedAgain(detail, first) ==
  \/ first
  \/ /\ view.detail = None \/ view.detail.status # detail.status
     /\ detail.status \notin Running

PackageAnswered(s) ==
  /\ Answer(s, "package")
  /\ LET detail == calls[s].answer
     IN  /\ view' = [view EXCEPT !.detail = detail]
         /\ Ends(s, IF ComparedAgain(detail, calls[s].with) THEN <<Request("check", page.at, None)>> ELSE <<>>)
  /\ UNCHANGED <<page, stored>>

\* What was shown stays, with the reason above it.
PackageUnread(s) ==
  /\ \E op \in {"package", "item"} : Failure(s, op)
  /\ Ends(s, <<>>)
  /\ UNCHANGED <<page, view, stored>>

CheckEnds(s) ==
  /\ \/ Answer(s, "check") /\ view' = [view EXCEPT !.checks = calls[s].answer]
     \/ Failure(s, "check") /\ view' = [view EXCEPT !.checks = None]
  /\ Ends(s, <<>>)
  /\ UNCHANGED <<page, stored>>

ToggleItem(n) ==
  /\ OnPackage
  /\ view.detail # None
  /\ IF view.open = n
     THEN view' = [view EXCEPT !.open = None] /\ UNCHANGED calls
     ELSE /\ view' = [view EXCEPT !.open = n, !.content = None]
          /\ Send(<<Request("item", page.at, n)>>)
  /\ UNCHANGED <<page, stored>>

ItemAnswered(s) ==
  /\ Answer(s, "item")
  /\ view' = IF view.open = calls[s].with THEN [view EXCEPT !.content = calls[s].at] ELSE view
  /\ Ends(s, <<>>)
  /\ UNCHANGED <<page, stored>>

-----------------------------------------------------------------------------
(* The decision *)

Blocked == view.checks = TRUE

\* What the page offers for what it shows.
Offered(op) ==
  LET status == view.detail.status
  IN  CASE op = "approve" -> ~Blocked /\ status \in Waits /\ (status = "Closed" => view.detail.of \in MadeHere)
        [] op = "reject" -> status \in {"Pending", "Approved"}
        [] op = "revert" -> status \in Revertible
        [] op = "acknowledge" -> status \in Troubled
        [] op = "delete" -> status = "Closed" /\ view.detail.of \in MadeHere
        [] op = "newVersion" -> view.detail.of \in MadeHere

\* Mutant: while another decision is on its way, too.
DecidableAnytime(op) ==
  /\ OnPackage
  /\ view.detail # None
  /\ view.asking = None
  /\ op # "newVersion" => stored.orders < MaxOrders
  /\ Offered(op)

Decidable(op) ==
  /\ OnPackage
  /\ view.detail # None
  /\ ~view.busy
  /\ view.asking = None
  /\ op # "newVersion" => stored.orders < MaxOrders
  /\ Offered(op)

\* with: the version of which it was said what would be done, when it was.
Ordered(op, said) ==
  /\ view' = [view EXCEPT !.busy = TRUE, !.asking = None]
  /\ Send(<<Request(op, page.at, said)>>)

OneMore == [stored EXCEPT !.orders = @ + 1]

\* Refusing and acknowledging are not asked about; a new version only opens one.
Decide(op) ==
  /\ op \in {"reject", "acknowledge", "newVersion"}
  /\ Decidable(op)
  /\ Ordered(op, None)
  /\ stored' = IF op = "newVersion" THEN stored ELSE OneMore
  /\ UNCHANGED page

\* Before anything is put back, what would be is read.
AskWhether(op) ==
  /\ op \in {"approve", "delete", "revert"}
  /\ Decidable(op)
  /\ IF op = "revert" THEN Ordered("revertPlan", None)
     ELSE view' = [view EXCEPT !.asking = [op |-> op, of |-> view.detail.of]] /\ UNCHANGED calls
  /\ UNCHANGED <<page, stored>>

\* The question names the environment that the package on the screen says: with none there
\* it cannot be asked.
PlanEnds(s) ==
  /\ \/ Answer(s, "revertPlan")
     \/ Failure(s, "revertPlan")
  /\ view' = [view EXCEPT !.busy = FALSE,
                          !.asking = IF calls[s].stage = "answered" /\ calls[s].answer /\ view.detail # None
                                     THEN [op |-> "revert", of |-> calls[s].at] ELSE @]
  /\ Ends(s, <<>>)
  /\ UNCHANGED <<page, stored>>

AnswerNo ==
  /\ OnPackage
  /\ view.asking # None
  /\ view' = [view EXCEPT !.asking = None]
  /\ UNCHANGED <<page, calls, stored>>

AnswerYes ==
  /\ OnPackage
  /\ view.asking # None
  /\ Ordered(view.asking.op, view.asking.of)
  /\ stored' = OneMore
  /\ UNCHANGED page

\* The answer to an order is the package after it; refused or lost, it is read again.
OrderEnds(s) ==
  /\ \E op \in Orders \ {"delete"} :
       \/ /\ Answer(s, op)
          /\ view' = [view EXCEPT !.busy = FALSE, !.detail = calls[s].answer]
          /\ Ends(s, <<>>)
       \/ /\ Failure(s, op)
          /\ view' = [view EXCEPT !.busy = FALSE]
          /\ Ends(s, PackageQuestion(page.at, FALSE))
  /\ UNCHANGED <<page, stored>>

\* Deleted, its items are in an open package again, which is looked for.
PackageDeleted(s) ==
  /\ Answer(s, "delete")
  /\ Ends(s, <<Request("reopened", None, None)>>)
  /\ UNCHANGED <<page, view, stored>>

PackageLeft(s) ==
  /\ \E op \in {"reopened", "newVersion"} : Answer(s, op)
  /\ Elsewhere("area")
  /\ UNCHANGED stored

\* The page stays on a package that may be deleted by then.
NotLeft(s) ==
  /\ \E op \in {"delete", "reopened", "newVersion"} : Failure(s, op)
  /\ view' = [view EXCEPT !.busy = FALSE]
  /\ Ends(s, <<>>)
  /\ UNCHANGED <<page, stored>>

-----------------------------------------------------------------------------
(* Sending it to another environment *)

FollowQuestion == <<Request("sendings", None, None)>>

\* n: the sendings of the package so far; the last one is told.
SendingServed(s) ==
  \/ /\ InStage(s, {"sendings"}, "sent")
     /\ Serve(s, stored.sending, stored)
  \/ /\ InStage(s, {"sendPackage"}, "sent")
     /\ LET started == [n |-> stored.sending.n + 1, status |-> "sending"]
        IN  IF stored.sending.status = "sending" THEN Refuse(s)
            ELSE Serve(s, started, [stored EXCEPT !.sending = started])

SendingStops ==
  /\ OnSending
  /\ stored.sending.status = "sending"
  /\ \E end \in {"delivered", "failed"} : stored' = [stored EXCEPT !.sending.status = end]
  /\ UNCHANGED <<page, view, calls>>

SendPackage ==
  /\ OnSending
  /\ ~view.sending
  /\ stored.orders < MaxOrders
  /\ view' = [view EXCEPT !.sending = TRUE]
  /\ Send(<<Request("sendPackage", None, None)>>)
  /\ stored' = OneMore
  /\ UNCHANGED page

SendingStarted(s) ==
  /\ Answer(s, "sendPackage")
  /\ view' = [view EXCEPT !.last = calls[s].answer, !.following = TRUE]
  /\ Ends(s, <<>>)
  /\ UNCHANGED <<page, stored>>

SendingNotStarted(s) ==
  /\ Failure(s, "sendPackage")
  /\ view' = [view EXCEPT !.sending = FALSE]
  /\ Ends(s, <<>>)
  /\ UNCHANGED <<page, stored>>

FollowTimer ==
  /\ OnSending
  /\ view.following
  /\ Send(FollowQuestion)
  /\ UNCHANGED <<page, view, stored>>

SendingFollowed(s) ==
  /\ Answer(s, "sendings")
  /\ LET running == calls[s].answer.status = "sending"
     IN  view' = [view EXCEPT !.last = calls[s].answer, !.sending = running, !.following = @ /\ running]
  /\ Ends(s, <<>>)
  /\ UNCHANGED <<page, stored>>

SendingUnread(s) ==
  /\ Failure(s, "sendings")
  /\ Ends(s, <<>>)
  /\ UNCHANGED <<page, view, stored>>

-----------------------------------------------------------------------------

NoSending == [n |-> 0, status |-> "none"]

PackageOpening(screen) ==
  CASE screen = "package" ->
         [page |-> [name |-> screen, at |-> CHOOSE p \in Versions : p \notin MadeHere],
          view |-> [detail |-> None, checks |-> None, open |-> None, content |-> None, busy |-> FALSE, asking |-> None],
          asks |-> PackageQuestion(CHOOSE p \in Versions : p \notin MadeHere, TRUE)]
    [] screen = "send" ->
         [page |-> [name |-> screen], view |-> [last |-> NoSending, sending |-> FALSE, following |-> FALSE],
          asks |-> FollowQuestion]

\* What is made elsewhere was applied already, or not.
PackageStores ==
  {[status |-> [p \in Versions |-> IF p \in MadeHere THEN "Closed" ELSE status],
    sending |-> NoSending, orders |-> 0] : status \in {"Pending", "Applied"}}

PackageSteps ==
  \/ \E p \in Versions : RunnerSteps(p) \/ VersionOpened(p)
  \/ ReadAgain
  \/ \E n \in Items : ToggleItem(n)
  \/ \E op \in Orders \union {"newVersion"} : Decide(op) \/ AskWhether(op)
  \/ AnswerNo
  \/ AnswerYes
  \/ SendingStops
  \/ SendPackage
  \/ FollowTimer
  \/ \E s \in Slots : \/ PackageServed(s)
                      \/ PackageAnswered(s)
                      \/ PackageUnread(s)
                      \/ CheckEnds(s)
                      \/ ItemAnswered(s)
                      \/ PlanEnds(s)
                      \/ OrderEnds(s)
                      \/ PackageDeleted(s)
                      \/ PackageLeft(s)
                      \/ NotLeft(s)
                      \/ SendingServed(s)
                      \/ SendingStarted(s)
                      \/ SendingNotStarted(s)
                      \/ SendingFollowed(s)
                      \/ SendingUnread(s)

PackageInit == \E screen \in {"package", "send"}, kept \in PackageStores : Opened(PackageOpening(screen), kept)
PackageSpec == PackageInit /\ [][PackageSteps]_browser

-----------------------------------------------------------------------------
(* What must hold *)

\* Through questions asked and taken back, plans read, answers that fail and versions of
\* the package opened meanwhile: one decision at a time is on its way, and while it is the
\* page takes no other.
OneDecisionAtATime ==
  LET deciding == {s \in Slots : calls[s] # None /\ calls[s].op \in Orders \union {"revertPlan", "newVersion", "reopened"}}
  IN  OnPackage =>
        /\ Cardinality(deciding) <= 1
        /\ view.busy <=> deciding # {}
        /\ view.asking # None => ~view.busy
=============================================================================
