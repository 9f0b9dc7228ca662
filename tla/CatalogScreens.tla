--------------------------- MODULE CatalogScreens ---------------------------
(* Where things are chosen to be put in a package: the objects of a database, searched   *)
(* by name or inside their scripts, and the comparison with another environment.         *)
EXTENDS DraftScreens

CONSTANTS Searches,   \* what may be searched for
          TooShort,   \* those too short to be searched for in the scripts
          Routes,     \* other environments
          MaxRuns     \* how many comparisons are made, or things included from one

ASSUME RoutesAssumption == Routes # {}

OnObjects == page.name = "objects"
OnCompare == page.name = "compare"

\* What is picked of the list stays through whatever is listed: it is followed apart.
OnPicks == page.name = "picks"

\* The question which package it is leaves nothing else to be clicked.
NoQuestion == ~PickerOpen

\* What is put in a package: at most one inclusion at a time is followed.
Free == view.including = None

-----------------------------------------------------------------------------
(* The service *)

\* A comparison tells what can go from here to there, and is kept.
CatalogAnswers(c) ==
  CASE c.op \in {"objects", "search"} -> {c.at}
    [] c.op = "lastComparison" -> {stored.last[c.at]}
    [] c.op = "compare" -> [of : {c.at}, can : SUBSET Objects]
    [] c.op = "open" -> {c.at}

CatalogServed(s) ==
  /\ InStage(s, {"objects", "search", "lastComparison", "compare", "open"}, "sent")
  /\ \E answer \in CatalogAnswers(calls[s]) :
       Serve(s, answer, IF calls[s].op = "compare" THEN [stored EXCEPT !.last[calls[s].at] = answer] ELSE stored)

-----------------------------------------------------------------------------
(* The objects of a database *)

Everything == "everything"

\* Mutant: every answer counts, in the order it comes.
NeverOutdated(table) == table

\* Of the questions of the list only the last one counts.
Outdated(table) ==
  [s \in DOMAIN table |->
     IF table[s] # None /\ table[s].op \in {"objects", "search"} THEN [table[s] EXCEPT !.with = FALSE] ELSE table[s]]

ObjectsQuestion(v) ==
  IF v.where = "name" THEN <<Request("objects", v.filter, TRUE)>>
  ELSE (IF v.filter \in TooShort THEN <<>> ELSE <<Request("search", v.filter, TRUE)>>)
       \o (IF v.listed = None THEN <<Request("objects", Everything, TRUE)>> ELSE <<>>)

RefreshObjects(v) ==
  LET short == v.where = "script" /\ v.filter \in TooShort
      questions == ObjectsQuestion(v)
  IN  /\ Room(Len(questions))
      /\ view' = [v EXCEPT !.loading = ~short, !.hits = IF short THEN None ELSE @]
      /\ calls' = Plus(Outdated(calls), questions)
      /\ UNCHANGED <<page, stored>>

\* A kind, a schema, an order: at once.  What is typed: when it stops for a while.
ChooseFilter(f) == OnObjects /\ f # view.filter /\ RefreshObjects([view EXCEPT !.filter = f])
LookIn(where) == OnObjects /\ where # view.where /\ RefreshObjects([view EXCEPT !.where = where])
TypingOver == OnObjects /\ view.typing /\ RefreshObjects([view EXCEPT !.typing = FALSE])

TypeSearch(f) ==
  /\ OnObjects
  /\ f # view.filter
  /\ view' = [view EXCEPT !.filter = f, !.typing = TRUE]
  /\ UNCHANGED <<page, calls, stored>>

Latest(s) == calls[s].with = TRUE

ObjectsAnswered(s) ==
  /\ Answer(s, "objects")
  /\ view' = IF Latest(s) THEN [view EXCEPT !.listed = calls[s].answer, !.loading = FALSE, !.problem = FALSE] ELSE view
  /\ Ends(s, <<>>)
  /\ UNCHANGED <<page, stored>>

\* Nothing to list because the database is not set up, or nobody answered.
ObjectsFailed(s) ==
  /\ Failure(s, "objects")
  /\ \E unset \in BOOLEAN :
       view' = IF ~Latest(s) THEN view
               ELSE IF unset THEN [view EXCEPT !.loading = FALSE, !.listed = None]
               ELSE [view EXCEPT !.loading = FALSE, !.problem = TRUE]
  /\ Ends(s, <<>>)
  /\ UNCHANGED <<page, stored>>

SearchEnds(s) ==
  /\ \/ Answer(s, "search")
     \/ Failure(s, "search")
  /\ \E went \in {calls[s].stage = "answered", FALSE} :
       view' = IF ~Latest(s) THEN view
               ELSE IF went THEN [view EXCEPT !.hits = calls[s].answer, !.loading = FALSE]
               ELSE [view EXCEPT !.hits = None, !.loading = FALSE, !.problem = TRUE]
  /\ Ends(s, <<>>)
  /\ UNCHANGED <<page, stored>>

-----------------------------------------------------------------------------
(* The comparison *)

\* Rows that are being read from the environment they were opened in.
RowsOnTheWay == {calls[s].with : s \in {s \in Slots : calls[s] # None /\ calls[s].op = "open"}}

\* Mutant: the rows that are open stay open.
RowsStayOpen(r) ==
  /\ OnCompare
  /\ NoQuestion
  /\ ~view.busy
  /\ r # view.route
  /\ view' = [view EXCEPT !.route = r, !.result = None, !.picked = {}, !.loadingLast = TRUE]
  /\ Send(<<Request("lastComparison", r, None)>>)
  /\ stored' = [stored EXCEPT !.crossed = RowsOnTheWay]
  /\ UNCHANGED page

\* Another environment, or this one again: the comparison that was kept is shown.
\* crossed: the rows that were on their way from one environment when another was chosen.
ChooseRoute(r) ==
  /\ OnCompare
  /\ NoQuestion
  /\ ~view.busy
  /\ r # view.route
  /\ view' = [view EXCEPT !.route = r, !.result = None, !.picked = {}, !.opened = <<>>, !.loadingLast = TRUE]
  /\ Send(<<Request("lastComparison", r, None)>>)
  /\ stored' = [stored EXCEPT !.crossed = RowsOnTheWay]
  /\ UNCHANGED page

\* Mutant: whatever environment it was kept for.
LastComparisonShown(s) ==
  /\ \/ /\ Answer(s, "lastComparison")
        /\ view' = [view EXCEPT !.result = calls[s].answer, !.compared = view.route, !.loadingLast = FALSE]
     \/ /\ Failure(s, "lastComparison")
        /\ view' = [view EXCEPT !.loadingLast = FALSE]
  /\ Ends(s, <<>>)
  /\ UNCHANGED <<page, stored>>

LastComparisonEnds(s) ==
  /\ \/ /\ Answer(s, "lastComparison")
        /\ view' = IF calls[s].at = view.route
                   THEN [view EXCEPT !.result = calls[s].answer, !.compared = view.route, !.loadingLast = FALSE]
                   ELSE [view EXCEPT !.loadingLast = FALSE]
     \/ /\ Failure(s, "lastComparison")
        /\ view' = [view EXCEPT !.loadingLast = FALSE]
  /\ Ends(s, <<>>)
  /\ UNCHANGED <<page, stored>>

MayRun == stored.runs < MaxRuns
OneMoreRun == [stored EXCEPT !.runs = @ + 1]

RunComparison ==
  /\ OnCompare
  /\ NoQuestion
  /\ ~view.busy
  /\ MayRun
  /\ view' = [view EXCEPT !.busy = TRUE, !.picked = {}, !.opened = <<>>]
  /\ Send(<<Request("compare", view.route, None)>>)
  /\ stored' = OneMoreRun
  /\ UNCHANGED page

ComparisonEnds(s) ==
  /\ \/ /\ Answer(s, "compare")
        /\ view' = [view EXCEPT !.result = calls[s].answer, !.compared = view.route, !.busy = FALSE]
     \/ /\ Failure(s, "compare")
        /\ view' = [view EXCEPT !.busy = FALSE]
  /\ Ends(s, <<>>)
  /\ UNCHANGED <<page, stored>>

OpenedRow(rows, o, what) == [p \in DOMAIN rows \union {o} |-> IF p = o THEN what ELSE rows[p]]

\* The two sides of a row, read from the environment the comparison was made with.
ToggleRow(o) ==
  /\ OnCompare
  /\ NoQuestion
  /\ view.result # None
  /\ IF o \in DOMAIN view.opened
     THEN /\ view' = [view EXCEPT !.opened = [p \in DOMAIN @ \ {o} |-> @[p]]]
          /\ UNCHANGED calls
     ELSE /\ view' = [view EXCEPT !.opened = OpenedRow(@, o, "loading")]
          /\ Send(<<Request("open", view.compared, o)>>)
  /\ UNCHANGED <<page, stored>>

RowRead(s) ==
  /\ \/ Answer(s, "open") /\ view' = [view EXCEPT !.opened = OpenedRow(@, calls[s].with, calls[s].answer)]
     \/ Failure(s, "open") /\ view' = [view EXCEPT !.opened = OpenedRow(@, calls[s].with, "problem")]
  /\ Ends(s, <<>>)
  /\ UNCHANGED <<page, stored>>

-----------------------------------------------------------------------------
(* What is picked, and put in a package *)

Pickable == IF OnPicks THEN Objects
            ELSE IF OnCompare /\ view.result # None THEN view.result.can ELSE {}

Pick(o) ==
  /\ NoQuestion
  /\ o \in Pickable
  /\ view' = [view EXCEPT !.picked = IF o \in @ THEN @ \ {o} ELSE @ \union {o}]
  /\ UNCHANGED <<page, calls, stored>>

\* What is behind on the other side, all at once.
Suggest ==
  /\ OnCompare
  /\ NoQuestion
  /\ view.result # None
  /\ view' = [view EXCEPT !.picked = view.result.can]
  /\ UNCHANGED <<page, calls, stored>>

IncludePicked ==
  /\ OnPicks \/ (OnCompare /\ view.result # None)
  /\ Free
  /\ view.picked # {}
  /\ IncludeInto(view, view.picked)
  /\ IF OnCompare THEN MayRun /\ stored' = OneMoreRun ELSE UNCHANGED stored
  /\ UNCHANGED page

CatalogOpening(screen) ==
  CASE screen = "objects" ->
         LET f == CHOOSE f \in Searches : f \notin TooShort
         IN  [page |-> [name |-> screen], asks |-> <<Request("objects", f, TRUE)>>,
              view |-> [filter |-> f, where |-> "name", listed |-> None, hits |-> None, loading |-> TRUE,
                        typing |-> FALSE, problem |-> FALSE]]
    [] screen = "picks" ->
         [page |-> [name |-> screen], view |-> [picked |-> {}, including |-> None, told |-> None], asks |-> <<>>]
    [] screen = "compare" ->
         LET r == CHOOSE r \in Routes : TRUE
         IN  [page |-> [name |-> screen], asks |-> <<Request("lastComparison", r, None)>>,
              view |-> [route |-> r, result |-> None, compared |-> None, loadingLast |-> TRUE, busy |-> FALSE,
                        picked |-> {}, opened |-> <<>>, including |-> None, told |-> None]]

\* Of one environment a comparison was kept already.
KeptBefore == [r \in Routes |-> IF r = CHOOSE q \in Routes : TRUE THEN [of |-> r, can |-> Objects] ELSE None]

CatalogStores(screen) ==
  {[f \in DOMAIN store \union {"runs", "last", "crossed"} |->
      CASE f = "runs" -> 0
        [] f = "last" -> KeptBefore
        [] f = "crossed" -> {}
        [] OTHER -> store[f]] : store \in DraftStores(screen)}

CatalogSteps ==
  \/ \E f \in Searches : ChooseFilter(f) \/ TypeSearch(f)
  \/ \E where \in {"name", "script"} : LookIn(where)
  \/ TypingOver
  \/ \E r \in Routes : ChooseRoute(r)
  \/ RunComparison
  \/ \E o \in Objects : ToggleRow(o) \/ Pick(o)
  \/ Suggest
  \/ IncludePicked
  \/ \E s \in Slots : \/ CatalogServed(s)
                      \/ ObjectsAnswered(s)
                      \/ ObjectsFailed(s)
                      \/ SearchEnds(s)
                      \/ LastComparisonEnds(s)
                      \/ ComparisonEnds(s)
                      \/ RowRead(s)

CatalogInit ==
  \E screen \in {"objects", "picks", "compare"} : \E kept \in CatalogStores(screen) : Opened(CatalogOpening(screen), kept)

\* Things go in an open package from its own page and from these.
PackingInit == DraftInit \/ CatalogInit
PackingSteps == DraftSteps \/ CatalogSteps
PackingSpec == PackingInit /\ [][PackingSteps]_browser

-----------------------------------------------------------------------------
(* What must hold *)

\* Searches typed, chosen and moved between names and scripts while answers are on the
\* way: once the last question was answered, what is listed is what is searched for.
ListIsOfTheSearch ==
  LET settled == ~view.typing /\ ~view.problem
      asked(op) == \E s \in Slots : calls[s] # None /\ calls[s].op = op /\ Latest(s)
  IN  OnObjects /\ settled =>
        /\ view.where = "name" /\ ~asked("objects") /\ view.listed # None => view.listed = view.filter
        /\ view.where = "script" /\ ~asked("search") /\ view.hits # None => view.hits = view.filter

\* However comparisons, the ones kept from before and the rows that are opened cross, the
\* comparison on the screen is of the environment that is chosen, and so is every row that
\* was read, but one that was on its way when another environment was chosen.
ComparisonIsOfTheRoute ==
  OnCompare =>
    /\ view.result # None => view.result.of = view.route /\ view.compared = view.route
    /\ \A o \in DOMAIN view.opened \ stored.crossed : view.opened[o] \in {"loading", "problem", view.route}
=============================================================================
