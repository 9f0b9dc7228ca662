---------------------------- MODULE UploadScreens ----------------------------
(* The screen of what runs on the machine and may go in a package: the applications with  *)
(* their modules, what is picked of them, how what is picked is packed, and how a version *)
(* brought by hand is made a package of its own and applied.                              *)
EXTENDS Browser

CONSTANTS NoFolder,  \* the targets with no folder known: they are neither picked nor packed
          Sought,    \* what may be typed in the search
          Loose,     \* the name of the modules of no known application
          Packages,  \* those that may be open
          MaxTasks   \* how many times something is packed

ASSUME PackagesAssumption == Packages \subseteq Nat /\ Packages # {} /\ MaxTasks \in Nat

OnUploads == page.name = "uploads"

\* What may be carried.  A web application that is whole has a mode; its modules have none,
\* and are named with the application before them, or without.
Target(kind, app, part, mode) == [kind |-> kind, app |-> app, part |-> part, mode |-> mode]

Web(t) == t.kind = "frontend"
IsWhole(t) == Web(t) /\ t.mode # None
IsModule(t) == Web(t) /\ t.mode = None

-----------------------------------------------------------------------------
(* The service, and the Worker Control behind it *)

UploadReads == {"targets", "drafts"}
Additions == {"addRunning", "addIncoming", "addFiles"}
UploadWrites == Additions \union {"createDraft", "deleteDraft", "close", "approve"}

UploadAnswer(c) ==
  CASE c.op = "targets" -> [targets |-> stored.targets, inbox |-> stored.inbox]
    [] c.op = "drafts" -> stored.open
    [] c.op = "createDraft" -> Min(Packages \ stored.used)
    [] OTHER -> c.at

\* taken: everything that ever went in, by package.  A version left in the inbox leaves it.
UploadEffect(c) ==
  CASE c.op \in Additions ->
         [stored EXCEPT !.taken[c.at] = @ \union {c.with.item},
                        !.inbox = IF c.op = "addIncoming" THEN @ \ {c.with.item} ELSE @]
    [] c.op = "createDraft" ->
         LET d == Min(Packages \ stored.used)
         IN  [stored EXCEPT !.open = @ \union {d}, !.used = @ \union {d}]
    [] c.op = "deleteDraft" -> [stored EXCEPT !.open = @ \ {c.at}]
    [] c.op = "close" -> [stored EXCEPT !.open = @ \ {c.at}, !.made = @ \union {c.at}]
    [] OTHER -> stored

UploadRefuses(c) ==
  \/ c.op \in Additions \union {"deleteDraft", "close"} /\ c.at \notin stored.open
  \/ c.op = "addIncoming" /\ c.with.item \notin stored.inbox
  \/ c.op = "createDraft" /\ stored.used = Packages

\* A file that is not good, a version that cannot be packed, a rule of the environment: all
\* but giving an open package up may be refused.
UploadServed(s) ==
  /\ InStage(s, UploadReads \union UploadWrites, "sent")
  /\ \/ (UploadRefuses(calls[s]) \/ calls[s].op \in UploadWrites \ {"deleteDraft"}) /\ Refuse(s)
     \/ ~UploadRefuses(calls[s]) /\ Serve(s, UploadAnswer(calls[s]), UploadEffect(calls[s]))

\* Somebody else gives an open package up.
GivenUpElsewhere(d) ==
  /\ OnUploads
  /\ d \in stored.open
  /\ stored' = [stored EXCEPT !.open = @ \ {d}]
  /\ UNCHANGED <<page, view, calls>>

-----------------------------------------------------------------------------
(* What there is, as it is shown *)

TargetsQuestion == <<Request("targets", None, None)>>

TargetsRead(s) ==
  /\ \/ Answer(s, "targets")
        /\ view' = [view EXCEPT !.targets = calls[s].answer.targets, !.inbox = calls[s].answer.inbox, !.problem = FALSE]
     \/ Failure(s, "targets") /\ view' = [view EXCEPT !.problem = TRUE]
  /\ Ends(s, <<>>)
  /\ UNCHANGED <<page, stored>>

\* The name of an application is before the name of its modules.
Matches(t, q) == q = None \/ q \in {t.app, t.part}

\* One application alone names its modules without itself.
Owner(t, heads) ==
  LET single == {h \in heads : h.mode = "mfe"}
  IN  IF t.app # None THEN t.app
      ELSE IF Cardinality(single) = 1 THEN (CHOOSE h \in single : TRUE).app
      ELSE None

\* By name, the application and its modules.  What owns nothing is looked up by no name and
\* kept by another.
Grouped(targets) ==
  LET heads == {t \in ToSet(targets) : IsWhole(t)}
      start == [name \in {h.app : h \in heads} |->
                  [whole |-> CHOOSE h \in heads : h.app = name, modules |-> {}]]
      Put(groups, t) ==
        LET owner == Owner(t, heads)
        IN  IF owner \in DOMAIN groups THEN [groups EXCEPT ![owner].modules = @ \union {t}]
            ELSE ((IF owner = None THEN Loose ELSE owner) :> [whole |-> None, modules |-> {t}]) @@ groups
  IN  FoldLeft(Put, start, SelectSeq(targets, IsModule))

\* While searching, an application shows only the modules that match, unless its own name does.
Groups(targets, q) ==
  LET all == Grouped(targets)
      own(name) == q \in {None, name}
      kept(name) == IF own(name) THEN all[name].modules ELSE {t \in all[name].modules : Matches(t, q)}
  IN  [name \in {n \in DOMAIN all : own(n) \/ kept(n) # {}} |-> [whole |-> all[name].whole, modules |-> kept(name)]]

GroupsShown == Groups(view.targets, view.search)

\* The applications on top, as the box of the whole section picks them.
WebTops ==
  UNION {IF group.whole # None THEN {group.whole} ELSE group.modules : group \in Range(GroupsShown)}

Section(kind) ==
  IF kind = "frontend" THEN WebTops
  ELSE {t \in ToSet(view.targets) : t.kind = kind /\ Matches(t, view.search)}

Listed == OnUploads /\ view.targets # None /\ ~view.problem /\ view.dialog = None

-----------------------------------------------------------------------------
(* What is picked *)

Picking(picked) ==
  /\ Listed
  /\ view' = [view EXCEPT !.picked = picked]
  /\ UNCHANGED <<page, calls, stored>>

With(on, some, all) == IF on THEN all \union some ELSE all \ some
Usable(some) == some \ NoFolder

SearchFor(q) ==
  /\ Listed
  /\ q # view.search
  /\ view' = [view EXCEPT !.search = q]
  /\ UNCHANGED <<page, calls, stored>>

GroupPicked(group) ==
  IF group.whole # None THEN group.whole \in view.picked
  ELSE Usable(group.modules) # {} /\ Usable(group.modules) \subseteq view.picked

\* A module goes with its application when that is picked.
PickTarget(t, on) ==
  /\ Listed
  /\ t \notin NoFolder
  /\ IF Web(t) THEN \E group \in Range(GroupsShown) : t \in group.modules /\ ~GroupPicked(group)
     ELSE t \in Section(t.kind)
  /\ Picking(With(on, {t}, view.picked))

\* Its modules go with it: picked apart too, they would be carried twice.
PickGroup(group, on) ==
  IF group.whole = None THEN Picking(With(on, Usable(group.modules), view.picked))
  ELSE group.whole \notin NoFolder /\ Picking(With(on, {group.whole}, view.picked \ group.modules))

PickSection(kind, on) ==
  /\ Listed
  /\ Section(kind) # {}
  /\ Picking(With(on, Usable(Section(kind)), view.picked))

PickNone == Listed /\ ~view.busy /\ view.picked # {} /\ Picking({})

-----------------------------------------------------------------------------
(* Packing what is picked *)

MayTask == stored.tasks < MaxTasks
OneMoreTask == stored' = [stored EXCEPT !.tasks = @ + 1]

\* The package is asked for first; what was chosen stays as it was chosen.  op tells what is
\* running now from what was left in the inbox; alone, what has a button of its own.  What was told goes.
AskDraft(op, chosen, alone) ==
  /\ Listed
  /\ ~view.busy
  /\ MayTask
  /\ view' = [view EXCEPT !.outcome = None]
  /\ Send(<<Request("drafts", None, [op |-> op, chosen |-> chosen, alone |-> alone])>>)
  /\ OneMoreTask
  /\ UNCHANGED page

PackPicked(fromInbox) ==
  /\ Listed
  /\ view.picked # {}
  /\ LET known == {t \in ToSet(view.targets) : t \in view.picked}
     IN  IF fromInbox
         THEN stored.manual /\ known \intersect view.inbox # {} /\ AskDraft("addIncoming", known \intersect view.inbox, FALSE)
         ELSE AskDraft("addRunning", known, FALSE)

PackOne(t, fromInbox) ==
  /\ Listed
  /\ t \in ToSet(view.targets)
  /\ IF fromInbox THEN stored.manual /\ t \in view.inbox /\ AskDraft("addIncoming", {t}, TRUE)
     ELSE t \notin NoFolder /\ AskDraft("addRunning", {t}, TRUE)

DraftsToPick(s) ==
  /\ \/ /\ Answer(s, "drafts")
        /\ view.dialog = None
        /\ view' = [view EXCEPT !.dialog = [of |-> "drafts", drafts |-> calls[s].answer, task |-> calls[s].with]]
     \/ Failure(s, "drafts") /\ UNCHANGED view
  /\ Ends(s, <<>>)
  /\ UNCHANGED <<page, stored>>

DialogOf(what) == OnUploads /\ view.dialog # None /\ view.dialog.of = what

CloseDialog ==
  /\ OnUploads
  /\ view.dialog # None
  /\ view' = [view EXCEPT !.dialog = None]
  /\ UNCHANGED <<page, calls, stored>>

\* In any order, one after the other.
NextOf(task) ==
  LET item == CHOOSE t \in task.left : TRUE
  IN  Request(task.op, task.draft, [task |-> [task EXCEPT !.left = @ \ {item}], item |-> item])

ReadAfter(v, task) == [v EXCEPT !.busy = FALSE, !.outcome = task]

PackInto(d) ==
  /\ DialogOf("drafts")
  /\ d \in view.dialog.drafts
  /\ LET asked == view.dialog.task
         task == [op |-> asked.op, draft |-> d, chosen |-> asked.chosen, left |-> asked.chosen,
                  alone |-> asked.alone, done |-> {}, failed |-> {}]
         open == [view EXCEPT !.dialog = None]
     IN  IF asked.chosen = {} THEN view' = ReadAfter(open, task) /\ Send(TargetsQuestion)
         ELSE view' = [open EXCEPT !.busy = TRUE] /\ Send(<<NextOf(task)>>)
  /\ UNCHANGED <<page, stored>>

Packed(s) == \E op \in {"addRunning", "addIncoming"} : Answer(s, op)
NotPacked(s) == \E op \in {"addRunning", "addIncoming"} : Failure(s, op)

\* Mutant: the first that fails ends it.
PackEndsAtOnce(s) ==
  /\ \E went \in BOOLEAN :
       /\ IF went THEN Packed(s) ELSE NotPacked(s)
       /\ LET item == calls[s].with.item
              now == calls[s].with.task
              task == IF went THEN [now EXCEPT !.done = @ \union {item}] ELSE [now EXCEPT !.failed = @ \union {item}]
              next == [view EXCEPT !.picked = IF went /\ ~now.alone THEN @ \ {item} ELSE @]
          IN  IF task.left # {} /\ went THEN view' = next /\ Ends(s, <<NextOf(task)>>)
              ELSE /\ view' = ReadAfter(next, task)
                   /\ Ends(s, IF task.alone /\ ~went THEN <<>> ELSE TargetsQuestion)
  /\ UNCHANGED <<page, stored>>

\* What fails is said and the rest goes on; what went in is picked no more.
PackEnds(s) ==
  /\ \E went \in BOOLEAN :
       /\ IF went THEN Packed(s) ELSE NotPacked(s)
       /\ LET item == calls[s].with.item
              now == calls[s].with.task
              task == IF went THEN [now EXCEPT !.done = @ \union {item}] ELSE [now EXCEPT !.failed = @ \union {item}]
              next == [view EXCEPT !.picked = IF went /\ ~now.alone THEN @ \ {item} ELSE @]
          IN  IF task.left # {} THEN view' = next /\ Ends(s, <<NextOf(task)>>)
              ELSE /\ view' = ReadAfter(next, task)
                   /\ Ends(s, IF task.alone /\ ~went THEN <<>> ELSE TargetsQuestion)
  /\ UNCHANGED <<page, stored>>

-----------------------------------------------------------------------------
(* Bringing a version by hand *)

\* One version is brought by hand, in the whole behaviour, whatever is packed beside it.
MayBring == ~stored.spent
Bringing == stored' = [stored EXCEPT !.spent = TRUE]

\* The version of a file to download, and whether to apply it now, are asked about.
AskUpload(t) ==
  /\ Listed
  /\ stored.manual
  /\ t \in ToSet(view.targets)
  /\ ~view.busy
  /\ MayBring
  /\ view' = [view EXCEPT !.dialog = [of |-> "upload", target |-> t], !.outcome = None]
  /\ Bringing
  /\ UNCHANGED <<page, calls>>

\* A file under a new name: what is there already is not brought again.
AskUploadNew(t) ==
  /\ Listed
  /\ stored.manual
  /\ t.kind = "download"
  /\ t \notin ToSet(view.targets)
  /\ ~view.busy
  /\ MayBring
  /\ view' = [view EXCEPT !.dialog = [of |-> "upload", target |-> t], !.outcome = None]
  /\ Bringing
  /\ UNCHANGED <<page, calls>>

\* A package is made with it, closed and approved.
UploadAndApply ==
  /\ DialogOf("upload")
  /\ view' = [view EXCEPT !.dialog = None, !.busy = TRUE]
  /\ Send(<<Request("createDraft", None, [item |-> view.dialog.target])>>)
  /\ UNCHANGED <<page, stored>>

OneAfterTheOther(s) ==
  /\ \/ /\ Answer(s, "createDraft")
        /\ Ends(s, <<Request("addFiles", calls[s].answer, calls[s].with)>>)
     \/ /\ Answer(s, "addFiles")
        /\ Ends(s, <<Request("close", calls[s].at, calls[s].with)>>)
     \/ /\ Answer(s, "close")
        /\ Ends(s, <<Request("approve", calls[s].at, calls[s].with)>>)
  /\ UNCHANGED <<page, view, stored>>

\* unheard: an answer of the making did not come of something that was carried out, or the
\* request that gives the package up was lost before or after, which nothing says (GivenUp).
Unheard(s) == stored' = [stored EXCEPT !.unheard = @ \/ calls[s].stage = "answered"]

\* Mutant: the package that was being made stays.
UploadNotTakenAnyway(s) ==
  /\ Failure(s, "createDraft") \/ Failure(s, "addFiles")
  /\ view' = [view EXCEPT !.busy = FALSE]
  /\ Ends(s, <<>>)
  /\ Unheard(s)
  /\ UNCHANGED page

\* Nothing was applied: the package that was being made goes away.
UploadNotTaken(s) ==
  /\ \/ Failure(s, "createDraft") /\ view' = [view EXCEPT !.busy = FALSE] /\ Ends(s, <<>>)
     \/ Failure(s, "addFiles") /\ UNCHANGED view /\ Ends(s, <<Request("deleteDraft", calls[s].at, None)>>)
  /\ Unheard(s)
  /\ UNCHANGED page

\* Refused or lost, nothing is said of it: a package whose giving up was lost stays open.
GivenUp(s) ==
  /\ \/ Answer(s, "deleteDraft") /\ UNCHANGED stored
     \/ Failure(s, "deleteDraft") /\ stored' = [stored EXCEPT !.unheard = @ \/ calls[s].stage # "refused"]
  /\ view' = [view EXCEPT !.busy = FALSE]
  /\ Ends(s, <<>>)
  /\ UNCHANGED page

\* What could not be closed opens; what could not be approved opens all the same.
UploadLeft(s) ==
  /\ \/ Failure(s, "close") /\ page' = [name |-> "elsewhere", screen |-> "area", at |-> calls[s].at]
     \/ (Answer(s, "approve") \/ Failure(s, "approve"))
        /\ page' = [name |-> "elsewhere", screen |-> "package", at |-> calls[s].at]
  /\ view' = <<>>
  /\ calls' = [slot \in DOMAIN calls |-> None]
  /\ UNCHANGED stored

-----------------------------------------------------------------------------

UploadOpening ==
  [page |-> [name |-> "uploads"], asks |-> TargetsQuestion,
   view |-> [targets |-> None, inbox |-> {}, problem |-> FALSE, busy |-> FALSE, search |-> None,
             picked |-> {}, dialog |-> None, outcome |-> None]]

UploadStore(targets, inbox, manual, tasks) ==
  [targets |-> targets, inbox |-> inbox, manual |-> manual, open |-> {Min(Packages)}, used |-> {Min(Packages)},
   made |-> {}, taken |-> [d \in Packages |-> {}], tasks |-> tasks, spent |-> FALSE, unheard |-> FALSE]

UploadSteps ==
  \/ \E d \in Packages : GivenUpElsewhere(d) \/ PackInto(d)
  \/ \E q \in Sought \union {None} : SearchFor(q)
  \/ \E on \in BOOLEAN :
       \/ Listed /\ \E t \in ToSet(view.targets) : PickTarget(t, on)
       \/ Listed /\ \E group \in Range(GroupsShown) : PickGroup(group, on)
       \/ \E kind \in {"frontend", "service", "download"} : PickSection(kind, on)
       \/ PackPicked(on)
       \/ Listed /\ \E t \in ToSet(view.targets) : PackOne(t, on)
  \/ PickNone
  \/ CloseDialog
  \/ Listed /\ \E t \in ToSet(view.targets) : AskUpload(t)
  \/ AskUploadNew(Target("download", None, "new", None))
  \/ UploadAndApply
  \/ \E s \in Slots : \/ UploadServed(s)
                      \/ TargetsRead(s)
                      \/ DraftsToPick(s)
                      \/ PackEnds(s)
                      \/ OneAfterTheOther(s)
                      \/ UploadNotTaken(s)
                      \/ GivenUp(s)
                      \/ UploadLeft(s)

UploadInit(kept) == Opened(UploadOpening, kept)
UploadSpec(kept) == UploadInit(kept) /\ [][UploadSteps]_browser

-----------------------------------------------------------------------------
(* What must hold *)

\* Packages given up by others, answers refused and lost, one packing over another: all that
\* was chosen is told to be in, and went in, or not to be.
PackedOrSaid ==
  OnUploads /\ view.outcome # None =>
    /\ view.outcome.done \subseteq stored.taken[view.outcome.draft]
    /\ view.outcome.done \union view.outcome.failed = view.outcome.chosen
    /\ view.outcome.done \intersect view.outcome.failed = {}

\* The behaviour is of this screen, left already or not.
OfUploads == "inbox" \in DOMAIN stored

\* Whatever is refused on the way, by whom: a package that was made for a version brought by
\* hand is not left open behind the back of whoever brought it; its page opens, or it is
\* gone, unless the answer that would have told of it was lost, or the request that would
\* have given it up was lost, before or after it was carried out.
NothingLeftHalfMade ==
  OfUploads =>
    LET going == \E s \in Slots : calls[s] # None /\ calls[s].op \in UploadWrites \ {"addRunning", "addIncoming"}
        shown == IF OnUploads THEN {} ELSE {page.at}
    IN  going \/ stored.unheard \/ (stored.open \union stored.made) \ {Min(Packages)} \subseteq shown
=============================================================================
