---------------------------- MODULE DraftScreens ----------------------------
(* Packages being put together: the one way of putting something in an open package,    *)
(* which every screen uses, the page of an open package, and the list of the packages.  *)
EXTENDS Browser

CONSTANTS Objects,    \* what may go in a package
          Drafts,     \* packages that may be open
          Made,       \* closed packages: records with a line and a version
          Texts       \* what may be written as the name of an open package

ASSUME PackingAssumption == Drafts \subseteq Nat /\ Drafts # {} /\ Objects \subseteq Nat

OnArea == page.name = "area"
OnPackages == page.name = "packages"

-----------------------------------------------------------------------------
(* The service *)

AreaAnswer(d) ==
  [draft |-> IF d \in stored.open THEN d ELSE None, name |-> stored.name[d], items |-> stored.area[d]]

DraftReads == {"drafts", "ownDrafts", "area", "packages"}
DraftWrites == {"add", "addScript", "remove", "createDraft", "changeDraft", "deleteDraft", "close",
                "importPackage"}

DraftAnswers(c) ==
  CASE c.op \in {"drafts", "ownDrafts"} -> {stored.open}
    [] c.op = "area" -> {AreaAnswer(c.at)}
    [] c.op = "packages" -> {stored.made}
    [] c.op = "createDraft" -> {Min(Drafts \ stored.used)}
    [] c.op = "changeDraft" -> {c.at}
    [] OTHER -> {None}

Shut(d) == [stored EXCEPT !.open = @ \ {d}, !.area[d] = {}]

\* taken: everything that ever went in, by package.
DraftEffect(c) ==
  CASE c.op \in {"add", "addScript"} -> [stored EXCEPT !.area[c.at] = @ \union {c.with}, !.taken[c.at] = @ \union {c.with}]
    [] c.op = "remove" -> [stored EXCEPT !.area[c.at] = @ \ {c.with}]
    [] c.op = "createDraft" -> LET d == Min(Drafts \ stored.used)
                               IN  [stored EXCEPT !.open = @ \union {d}, !.used = @ \union {d}]
    [] c.op = "changeDraft" -> [stored EXCEPT !.name[c.at] = c.with]
    [] c.op \in {"deleteDraft", "close"} -> Shut(c.at)
    [] OTHER -> stored

\* A package that is not open takes nothing, and an empty one is not closed.
DraftRefuses(c) ==
  \/ c.op \in {"add", "addScript", "changeDraft", "deleteDraft", "close"} /\ c.at \notin stored.open
  \/ c.op = "close" /\ stored.area[c.at] = {}
  \/ c.op = "createDraft" /\ Drafts = stored.used

DraftServed(s) ==
  /\ InStage(s, DraftReads \union DraftWrites, "sent")
  /\ IF DraftRefuses(calls[s]) THEN Refuse(s)
     ELSE \E answer \in DraftAnswers(calls[s]) : Serve(s, answer, DraftEffect(calls[s]))

\* Somebody else closes a package.
ShutElsewhere(d) ==
  /\ page.name \in {"area", "packages", "picks"}
  /\ d \in stored.open
  /\ stored' = Shut(d)
  /\ UNCHANGED <<page, view, calls>>

-----------------------------------------------------------------------------
(* The package things go in *)

\* The one chosen before, while it is still open: asked for when the panel starts.
OwnDraftsAnswered(s) ==
  /\ Answer(s, "ownDrafts")
  /\ stored' = [stored EXCEPT !.current = IF calls[s].at \in calls[s].answer THEN calls[s].at ELSE None]
  /\ Ends(s, <<>>)
  /\ UNCHANGED <<page, view>>

Choose(d) == stored' = [stored EXCEPT !.current = d, !.remembered = d]
LetGoOf(d) == IF stored.current = d THEN Choose(None) ELSE UNCHANGED stored

-----------------------------------------------------------------------------
(* Putting things in it, from any screen *)

\* makes: where the packages that were asked for from this dialog are being made.
Asking(items) ==
  [phase |-> "reading", asked |-> items, left |-> items, done |-> {}, failed |-> {},
   drafts |-> {}, makes |-> {}, draft |-> None]

\* Whoever is at the panel says every time which package it is.
IncludeInto(v, items) ==
  /\ view' = [v EXCEPT !.including = Asking(items), !.told = None]
  /\ Send(<<Request("drafts", None, None)>>)

InPhase(phase) == "including" \in DOMAIN view /\ view.including # None /\ view.including.phase = phase
PickerOpen == InPhase("picking") \/ InPhase("creating")

DraftsRead(s) ==
  /\ Answer(s, "drafts")
  /\ view' = [view EXCEPT !.including.phase = "picking", !.including.drafts = calls[s].answer]
  /\ Ends(s, <<>>)
  /\ UNCHANGED <<page, stored>>

\* With nothing to put in, what was wanted is the package itself: it opens.
Adding(table, d) ==
  /\ Choose(d)
  /\ IF view.including.left = {}
     THEN Elsewhere("area")
     ELSE /\ view' = [view EXCEPT !.including.phase = "adding", !.including.draft = d, !.including.makes = {}]
          /\ calls' = Placed(table, Request("add", d, Min(view.including.left)))
          /\ UNCHANGED page

PickDraft(d) ==
  /\ InPhase("picking")
  /\ d \in view.including.drafts
  /\ Room(1)
  /\ Adding(calls, d)

\* Enter asks once more while a package is being made.
PickNewDraft ==
  /\ PickerOpen
  /\ Send(<<Request("createDraft", None, None)>>)
  /\ view' = [view EXCEPT !.including.phase = "creating", !.including.makes = @ \union {Min(FreeSlots(calls))}]
  /\ UNCHANGED <<page, stored>>

\* Once the dialog is closed nobody waits for the package that was being made.
AskedHere(s) == PickerOpen /\ s \in view.including.makes

DraftCreated(s) ==
  /\ Answer(s, "createDraft")
  /\ IF AskedHere(s) THEN Adding(Less(calls, s), calls[s].answer)
     ELSE Ends(s, <<>>) /\ UNCHANGED <<page, view, stored>>

DraftNotCreated(s) ==
  /\ Failure(s, "createDraft")
  /\ view' = IF AskedHere(s) THEN [view EXCEPT !.including.phase = "picking", !.including.makes = @ \ {s}] ELSE view
  /\ Ends(s, <<>>)
  /\ UNCHANGED <<page, stored>>

\* Nothing was put in.  The list of the objects lets go of what was picked all the same.
Abandoned == IF page.name = "picks"
             THEN [view EXCEPT !.including = None, !.picked = {}]
             ELSE [view EXCEPT !.including = None]

DraftsUnread(s) ==
  /\ Failure(s, "drafts")
  /\ view' = Abandoned
  /\ Ends(s, <<>>)
  /\ UNCHANGED <<page, stored>>

PickNothing ==
  /\ PickerOpen
  /\ view' = Abandoned
  /\ UNCHANGED <<page, calls, stored>>

\* What is told at the end.  The page of a comparison then goes to the package, where it is
\* still told; any other stays.
TellsAndStays(s, all) ==
  /\ view' = [Abandoned EXCEPT !.told = all]
  /\ Ends(s, <<>>)
  /\ UNCHANGED page

TellsAndLeaves(all) ==
  /\ page' = [name |-> "elsewhere", screen |-> "area"]
  /\ view' = [told |-> all]
  /\ calls' = [s \in DOMAIN calls |-> None]

Tells(s, all) == IF page.name = "compare" THEN TellsAndLeaves(all) ELSE TellsAndStays(s, all)

\* Mutant: what failed is told to be in.
AddEndsAnyway(s) ==
  /\ Answer(s, "add") \/ Failure(s, "add")
  /\ LET now  == view.including
         item == calls[s].with
         left == now.left \ {item}
         next == [now EXCEPT !.left = left, !.done = @ \union {item}]
     IN  IF left # {}
         THEN /\ view' = [view EXCEPT !.including = next]
              /\ Ends(s, <<Request("add", now.draft, Min(left))>>)
              /\ UNCHANGED page
         ELSE Tells(s, next)
  /\ UNCHANGED stored

\* One after the other; what fails is said and the rest goes on.
AddEnds(s) ==
  /\ \E went \in BOOLEAN :
       /\ IF went THEN Answer(s, "add") ELSE Failure(s, "add")
       /\ LET now  == view.including
              item == calls[s].with
              left == now.left \ {item}
              next == [now EXCEPT !.left = left,
                                  !.done = IF went THEN @ \union {item} ELSE @,
                                  !.failed = IF went THEN @ ELSE @ \union {item}]
          IN  IF left # {}
              THEN /\ view' = [view EXCEPT !.including = next]
                   /\ Ends(s, <<Request("add", now.draft, Min(left))>>)
                   /\ UNCHANGED page
              ELSE Tells(s, next)
  /\ UNCHANGED stored

-----------------------------------------------------------------------------
(* The page of an open package *)

AreaQuestion == <<Request("area", page.at, None)>>

\* Only the first answer fills the name: what is being typed stays.
AreaAnswered(s) ==
  /\ Answer(s, "area")
  /\ LET answer == calls[s].answer
     IN  view' = [view EXCEPT !.draft = answer.draft, !.items = answer.items, !.read = TRUE,
                              !.name = IF answer.draft # None /\ ~view.read THEN answer.name ELSE @]
  /\ Ends(s, <<>>)
  /\ UNCHANGED <<page, stored>>

AreaShown == OnArea /\ view.draft # None

TypeName(text) ==
  /\ AreaShown
  /\ view' = [view EXCEPT !.name = text]
  /\ UNCHANGED <<page, calls, stored>>

RemoveFromArea(o) ==
  /\ AreaShown
  /\ o \in view.items
  /\ Send(<<Request("remove", page.at, o)>>)
  /\ UNCHANGED <<page, view, stored>>

\* Taken out or not, the page is read again.
RemoveEnds(s) ==
  /\ Answer(s, "remove") \/ Failure(s, "remove")
  /\ Ends(s, AreaQuestion)
  /\ UNCHANGED <<page, view, stored>>

OrderOnArea(op, with) ==
  /\ AreaShown
  /\ ~view.busy
  /\ Send(<<Request(op, page.at, with)>>)
  /\ UNCHANGED <<page, stored>>

SaveNames == OrderOnArea("changeDraft", view.name) /\ UNCHANGED view

NamesEnd(s) ==
  /\ \/ Answer(s, "changeDraft") /\ view' = [view EXCEPT !.draft = calls[s].answer]
     \/ Failure(s, "changeDraft") /\ UNCHANGED view
  /\ Ends(s, <<>>)
  /\ UNCHANGED <<page, stored>>

ClosePackage ==
  /\ OrderOnArea("close", view.name)
  /\ view.items # {}
  /\ view' = [view EXCEPT !.busy = TRUE]

\* A script written here, or read from a file of the machine.
AddScript ==
  /\ OrderOnArea("addScript", Max(Objects))
  /\ view' = [view EXCEPT !.busy = TRUE]

ScriptEnds(s) ==
  /\ \/ Answer(s, "addScript") /\ Ends(s, AreaQuestion)
     \/ Failure(s, "addScript") /\ Ends(s, <<>>)
  /\ view' = [view EXCEPT !.busy = FALSE]
  /\ UNCHANGED <<page, stored>>

DiscardDraft == OrderOnArea("deleteDraft", None) /\ UNCHANGED view

\* Closed, its package opens; discarded, or not, the list does.
AreaLeft(s) ==
  /\ Answer(s, "close") \/ Answer(s, "deleteDraft") \/ Failure(s, "deleteDraft")
  /\ Elsewhere(IF calls[s].op = "close" THEN "package" ELSE "packages")
  /\ LetGoOf(page.at)

NotClosed(s) ==
  /\ Failure(s, "close")
  /\ view' = [view EXCEPT !.busy = FALSE]
  /\ Ends(s, <<>>)
  /\ UNCHANGED <<page, stored>>

\* What is included from the screens of the panel goes in this one.
IncludeHere ==
  /\ AreaShown
  /\ Choose(view.draft)
  /\ UNCHANGED <<page, view, calls>>

-----------------------------------------------------------------------------
(* The list of the packages *)

PackagesTimer ==
  /\ OnPackages
  /\ Send(<<Request("packages", None, None)>>)
  /\ UNCHANGED <<page, view, stored>>

\* Mutant: the first that comes of each package is the newest.
SortedFirst(packages) ==
  LET Take(sofar, item) ==
        IF \E k \in sofar.newest : k.line = item.line THEN [sofar EXCEPT !.older = Append(@, item)]
        ELSE [sofar EXCEPT !.newest = @ \union {item}]
  IN  FoldLeft(Take, [newest |-> {}, older |-> <<>>], packages)

\* Walks over the packages, in whatever order they come, keeping the newest of each and the
\* versions it leaves behind.
Sorted(packages) ==
  LET Take(sofar, item) ==
        LET known == {k \in sofar.newest : k.line = item.line}
            behind(k) == [sofar EXCEPT !.newest = (@ \ {k}) \union {item}, !.older = Append(@, k)]
        IN  IF known = {} THEN [sofar EXCEPT !.newest = @ \union {item}]
            ELSE LET k == CHOOSE k \in known : TRUE
                 IN  IF item.version > k.version THEN behind(k)
                     ELSE [sofar EXCEPT !.older = Append(@, item)]
  IN  FoldLeft(Take, [newest |-> {}, older |-> <<>>], packages)

PackagesAnswered(s) ==
  /\ Answer(s, "packages")
  /\ LET sorted == Sorted(calls[s].answer)
     IN  view' = [view EXCEPT !.came = calls[s].answer, !.older = sorted.older,
                              !.shown = SelectSeq(calls[s].answer, LAMBDA item : item \in sorted.newest)]
  /\ Ends(s, <<>>)
  /\ UNCHANGED <<page, stored>>

CreatePackage ==
  /\ OnPackages
  /\ view.including = None
  /\ IncludeInto(view, {})
  /\ UNCHANGED <<page, stored>>

\* The file of a package made in another environment: the package opens.
ImportPackage ==
  /\ OnPackages
  /\ ~view.busy
  /\ view' = [view EXCEPT !.busy = TRUE]
  /\ Send(<<Request("importPackage", None, None)>>)
  /\ UNCHANGED <<page, stored>>

ImportEnds(s) ==
  /\ \/ Answer(s, "importPackage") /\ Elsewhere("package")
     \/ Failure(s, "importPackage") /\ view' = [view EXCEPT !.busy = FALSE] /\ Ends(s, <<>>) /\ UNCHANGED page
  /\ UNCHANGED stored

DraftUnheard(s) ==
  /\ \E op \in {"ownDrafts", "area", "packages"} : Failure(s, op)
  /\ Ends(s, <<>>)
  /\ UNCHANGED <<page, view, stored>>

-----------------------------------------------------------------------------

\* The package remembered from before is asked for as the panel starts.
OwnDraftsQuestion == <<Request("ownDrafts", Min(Drafts), None)>>

DraftOpening(screen) ==
  CASE screen = "area" ->
         [page |-> [name |-> screen, at |-> Min(Drafts)],
          view |-> [draft |-> None, read |-> FALSE, items |-> {}, name |-> None, busy |-> FALSE,
                   including |-> None, told |-> None],
          asks |-> <<Request("area", Min(Drafts), None)>> \o OwnDraftsQuestion]
    [] screen = "packages" ->
         [page |-> [name |-> screen], asks |-> <<Request("packages", None, None)>>,
          view |-> [came |-> <<>>, shown |-> <<>>, older |-> <<>>, busy |-> FALSE, including |-> None, told |-> None]]

\* The closed packages come in any order.
DraftStores(screen) ==
  LET orders == IF screen = "packages" THEN SetToAllKPermutations(Made) ELSE {<<>>}
  IN  {[open |-> {Min(Drafts)}, used |-> {Min(Drafts)}, area |-> [d \in Drafts |-> {Min(Objects)}],
        taken |-> [d \in Drafts |-> {}], name |-> [d \in Drafts |-> None],
        current |-> None, remembered |-> Min(Drafts), made |-> order] : order \in orders}

DraftSteps ==
  \/ \E d \in Drafts : ShutElsewhere(d) \/ PickDraft(d)
  \/ PickNewDraft
  \/ PickNothing
  \/ \E text \in Texts : TypeName(text)
  \/ \E o \in Objects : RemoveFromArea(o)
  \/ SaveNames
  \/ ClosePackage
  \/ AddScript
  \/ DiscardDraft
  \/ IncludeHere
  \/ PackagesTimer
  \/ CreatePackage
  \/ ImportPackage
  \/ \E s \in Slots : \/ DraftServed(s)
                      \/ OwnDraftsAnswered(s)
                      \/ DraftsRead(s)
                      \/ DraftsUnread(s)
                      \/ DraftCreated(s)
                      \/ DraftNotCreated(s)
                      \/ AddEnds(s)
                      \/ AreaAnswered(s)
                      \/ RemoveEnds(s)
                      \/ NamesEnd(s)
                      \/ AreaLeft(s)
                      \/ NotClosed(s)
                      \/ ScriptEnds(s)
                      \/ ImportEnds(s)
                      \/ PackagesAnswered(s)
                      \/ DraftUnheard(s)

DraftInit == \E screen \in {"area", "packages"} : \E kept \in DraftStores(screen) : Opened(DraftOpening(screen), kept)

-----------------------------------------------------------------------------
(* What must hold *)

\* However the questions are answered, and whoever closes the package meanwhile: what is
\* told to be in it went in, and everything that was picked is told to be in or not.
WhatIsToldIsIn ==
  "told" \in DOMAIN view /\ view.told # None =>
    /\ view.told.done \subseteq stored.taken[view.told.draft]
    /\ view.told.done \union view.told.failed = view.told.asked
    /\ view.told.done \intersect view.told.failed = {}

\* In whatever order the packages come, each line shows its newest version, once, and every
\* other version is beside it.
EveryVersionIsListedOnce ==
  OnPackages =>
    /\ \A i \in DOMAIN view.shown, k \in DOMAIN view.came :
         view.came[k].line = view.shown[i].line => view.came[k].version <= view.shown[i].version
    /\ \A i, j \in DOMAIN view.shown : view.shown[i].line = view.shown[j].line => i = j
    /\ Cardinality(ToSet(view.shown)) + Len(view.older) = Len(view.came)
    /\ ToSet(view.shown) \union ToSet(view.older) = ToSet(view.came)
=============================================================================
