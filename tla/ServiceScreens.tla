---------------------------- MODULE ServiceScreens ----------------------------
(* The screens of what the Worker Control runs and watches: the groups of processes,   *)
(* the Windows services with the dialogs that choose and set them, and the history.    *)
(* They are read again every few seconds, and after every command.                     *)
EXTENDS Browser

CONSTANTS Units,        \* groups of processes, or Windows services
          Folders,      \* folders services are suggested from
          Ways,         \* how one service is watched, as the dialog sets it
          Plain,        \* the choice of a service nobody set: no field in the file
          Filters,      \* what the history can be filtered by
          MaxWorkers,   \* how many processes a group may have
          MaxCommands   \* how many commands are given

On(screen) == page.name = screen
StatusQuestion == <<Request("status", None, None)>>
Spend == [stored EXCEPT !.spent = @ + 1]
MayCommand == stored.spent < MaxCommands

-----------------------------------------------------------------------------
(* The Worker Control *)

\* Mutant: every service that is not there comes in, picked or not.
MutatedAll(file, change) ==
  CASE change.kind = "add" ->
         [items |-> [u \in Units |-> IF file.items[u] = None THEN Plain ELSE file.items[u]], folders |-> change.value]
    [] change.kind = "settings" -> [file EXCEPT !.items = [u \in Units |-> IF u \in change.names THEN change.value ELSE @[u]]]
    [] change.kind = "remove" -> [file EXCEPT !.items = [u \in Units |-> IF u \in change.names THEN None ELSE @[u]]]

\* names: services to add with folders to suggest from; otherwise one service and its value.
Mutated(file, change) ==
  CASE change.kind = "add" ->
         [items |-> [u \in Units |-> IF u \in change.names /\ file.items[u] = None THEN Plain ELSE file.items[u]],
          folders |-> change.value]
    [] change.kind = "settings" -> [file EXCEPT !.items = [u \in Units |-> IF u \in change.names THEN change.value ELSE @[u]]]
    [] change.kind = "remove" -> [file EXCEPT !.items = [u \in Units |-> IF u \in change.names THEN None ELSE @[u]]]

UnitCommands == {"enable", "resize", "restart"}
ServiceReads == {"status", "installed", "file", "events"}

ServiceAnswer(c) ==
  CASE c.op = "status" -> stored.units
    [] c.op \in {"installed", "file"} -> stored.file
    [] c.op = "events" -> c.at
    [] OTHER -> None

ServiceEffect(c) ==
  CASE c.op = "enable" -> [stored EXCEPT !.units[c.at].on = c.with]
    [] c.op = "resize" -> [stored EXCEPT !.units[c.at].total = c.with]
    [] c.op = "saveFile" -> [stored EXCEPT !.file = c.with.config]
    [] OTHER -> stored

ServiceServed(s) ==
  /\ InStage(s, ServiceReads \union UnitCommands \union {"saveFile"}, "sent")
  /\ Serve(s, ServiceAnswer(calls[s]), ServiceEffect(calls[s]))

-----------------------------------------------------------------------------
(* What is read again and again *)

StatusTimer ==
  /\ page.name \in {"workers", "services"}
  /\ Send(StatusQuestion)
  /\ UNCHANGED <<page, view, stored>>

StatusAnswered(s) ==
  /\ Answer(s, "status")
  /\ view' = [view EXCEPT !.status = calls[s].answer, !.problem = FALSE]
  /\ Ends(s, <<>>)
  /\ UNCHANGED <<page, stored>>

StatusFailed(s) ==
  /\ Failure(s, "status")
  /\ view' = [view EXCEPT !.status = None, !.problem = TRUE]
  /\ Ends(s, <<>>)
  /\ UNCHANGED <<page, stored>>

-----------------------------------------------------------------------------
(* Commands to a group or a service *)

Command(op, u, with) ==
  /\ MayCommand
  /\ view.busy # u
  /\ view.status # None
  /\ view' = [view EXCEPT !.busy = u]
  /\ Send(<<Request(op, u, with)>>)
  /\ stored' = Spend
  /\ UNCHANGED page

\* Enabling or disabling, and how many processes, are decided by what the screen shows.
ToggleGroup(u) == On("workers") /\ view.status # None /\ Command("enable", u, ~view.status[u].on)

ResizeGroup(u, n) ==
  /\ On("workers")
  /\ view.status # None
  /\ n \in {view.status[u].total - 1, view.status[u].total + 1}
  /\ Command("resize", u, n)

RestartUnit(u) == On("workers") /\ view.status # None /\ view.status[u].on /\ Command("restart", u, None)

ActOnService(u, on) == On("services") /\ Command("enable", u, on)

\* Mutant: what was refused stays busy.
CommandEndsBusy(s) ==
  /\ \E op \in UnitCommands :
       \/ Answer(s, op) /\ view' = [view EXCEPT !.busy = None]
       \/ Failure(s, op) /\ UNCHANGED view
  /\ Ends(s, StatusQuestion)
  /\ UNCHANGED <<page, stored>>

\* Done or refused: nothing is busy any more, and the status is read again.
CommandEnds(s) ==
  /\ \E op \in UnitCommands : Answer(s, op) \/ Failure(s, op)
  /\ view' = [view EXCEPT !.busy = None]
  /\ Ends(s, StatusQuestion)
  /\ UNCHANGED <<page, stored>>

-----------------------------------------------------------------------------
(* Which services are watched, and how: the file is read, changed and written back *)

Change(kind, names, value) == Request("file", "change", [kind |-> kind, names |-> names, value |-> value])
NoDialog == On("services") /\ view.dialog = None

OpenAddServices ==
  /\ NoDialog
  /\ MayCommand
  /\ view' = [view EXCEPT !.dialog = [kind |-> "add", known |-> None, folders |-> {}, chosen |-> {}]]
  /\ Send(<<Request("installed", None, None)>>)
  /\ stored' = Spend
  /\ UNCHANGED page

Adding == On("services") /\ view.dialog # None /\ view.dialog.kind = "add"

InstalledAnswered(s) ==
  /\ Answer(s, "installed")
  /\ view' = IF Adding THEN [view EXCEPT !.dialog.known = calls[s].answer, !.dialog.folders = calls[s].answer.folders]
             ELSE view
  /\ Ends(s, <<>>)
  /\ UNCHANGED <<page, stored>>

\* A service that is watched already cannot be chosen.
ChooseService(u) ==
  /\ Adding
  /\ view.dialog.known # None
  /\ view.dialog.known.items[u] = None
  /\ view' = [view EXCEPT !.dialog.chosen = IF u \in @ THEN @ \ {u} ELSE @ \union {u}]
  /\ UNCHANGED <<page, calls, stored>>

ChangeFolder(f) ==
  /\ Adding
  /\ view' = [view EXCEPT !.dialog.folders = IF f \in @ THEN @ \ {f} ELSE @ \union {f}]
  /\ UNCHANGED <<page, calls, stored>>

DoneAdding ==
  /\ Adding
  /\ LET original == IF view.dialog.known = None THEN {} ELSE view.dialog.known.folders
     IN  view.dialog.chosen # {} \/ view.dialog.folders # original
  /\ Send(<<Change("add", view.dialog.chosen, view.dialog.folders)>>)
  /\ view' = [view EXCEPT !.dialog = None]
  /\ UNCHANGED <<page, stored>>

\* The settings of a service are read before the dialog opens.
AskSettings(u) ==
  /\ NoDialog
  /\ MayCommand
  /\ view.status # None
  /\ Send(<<Request("file", "dialog", u)>>)
  /\ stored' = Spend
  /\ UNCHANGED <<page, view>>

OpenSettings(s) ==
  /\ Answer(s, "file")
  /\ calls[s].at = "dialog"
  /\ view.dialog = None
  /\ LET current == calls[s].answer.items[calls[s].with]
     IN  view' = [view EXCEPT !.dialog = [kind |-> "settings", of |-> calls[s].with,
                                          value |-> IF current = None THEN Plain ELSE current]]
  /\ Ends(s, <<>>)
  /\ UNCHANGED <<page, stored>>

SaveSettings(choice) ==
  /\ On("services")
  /\ view.dialog # None /\ view.dialog.kind = "settings"
  /\ Send(<<Change("settings", {view.dialog.of}, choice)>>)
  /\ view' = [view EXCEPT !.dialog = None]
  /\ UNCHANGED <<page, stored>>

CloseDialog ==
  /\ On("services")
  /\ view.dialog # None
  /\ view' = [view EXCEPT !.dialog = None]
  /\ UNCHANGED <<page, calls, stored>>

RemoveService(u) ==
  /\ NoDialog
  /\ MayCommand
  /\ view.status # None
  /\ Send(<<Change("remove", {u}, None)>>)
  /\ stored' = Spend
  /\ UNCHANGED <<page, view>>

ChangeFile(s) ==
  /\ Answer(s, "file")
  /\ calls[s].at = "change"
  /\ LET base == calls[s].answer
     IN  Ends(s, <<Request("saveFile", None, [change |-> calls[s].with, base |-> base,
                                              config |-> Mutated(base, calls[s].with)])>>)
  /\ UNCHANGED <<page, view, stored>>

\* Written or not, the status is read again; only a dialog that could not open is told so.
ChangeEnds(s) ==
  /\ \/ Answer(s, "saveFile") \/ Failure(s, "saveFile")
     \/ Failure(s, "file") /\ calls[s].at = "change"
  /\ Ends(s, StatusQuestion)
  /\ UNCHANGED <<page, view, stored>>

-----------------------------------------------------------------------------
(* The history *)

EventsQuestion(f) == <<Request("events", f, None)>>

FilterEvents(f) ==
  /\ On("events")
  /\ f # view.filter
  /\ view' = [view EXCEPT !.filter = f]
  /\ Send(EventsQuestion(f))
  /\ UNCHANGED <<page, stored>>

\* Mutant: the timer goes on asking for what it was set up with.
EventsTimerOfTheStart ==
  /\ On("events")
  /\ Send(EventsQuestion(CHOOSE f \in Filters : TRUE))
  /\ UNCHANGED <<page, view, stored>>

EventsTimer ==
  /\ On("events")
  /\ Send(EventsQuestion(view.filter))
  /\ UNCHANGED <<page, view, stored>>

EventsAnswered(s) ==
  /\ Answer(s, "events")
  /\ view' = [view EXCEPT !.shown = calls[s].answer, !.problem = FALSE]
  /\ Ends(s, <<>>)
  /\ UNCHANGED <<page, stored>>

\* What was shown stays; the reason is written above it.
EventsFailed(s) ==
  /\ Failure(s, "events")
  /\ view' = [view EXCEPT !.problem = TRUE]
  /\ Ends(s, <<>>)
  /\ UNCHANGED <<page, stored>>

ServiceUnheard(s) ==
  /\ \/ Failure(s, "installed")
     \/ Failure(s, "file") /\ calls[s].at = "dialog"
  /\ Ends(s, <<>>)
  /\ UNCHANGED <<page, view, stored>>

-----------------------------------------------------------------------------

ServiceOpening(screen) ==
  CASE screen = "events" ->
         LET f == CHOOSE f \in Filters : TRUE
         IN  [page |-> [name |-> screen], view |-> [filter |-> f, shown |-> None, problem |-> FALSE],
              asks |-> EventsQuestion(f)]
    [] OTHER ->
         [page |-> [name |-> screen], asks |-> StatusQuestion,
          view |-> [status |-> None, problem |-> FALSE, busy |-> None, dialog |-> None]]

ServiceStored ==
  [units |-> [u \in Units |-> [on |-> TRUE, total |-> 1]],
   file |-> [items |-> [u \in Units |-> None], folders |-> {}], spent |-> 0]

ServiceSteps ==
  \/ StatusTimer
  \/ \E u \in Units : \/ ToggleGroup(u)
                      \/ \E n \in 0..MaxWorkers : ResizeGroup(u, n)
                      \/ RestartUnit(u)
                      \/ \E on \in BOOLEAN : ActOnService(u, on)
                      \/ ChooseService(u)
                      \/ AskSettings(u)
                      \/ RemoveService(u)
  \/ OpenAddServices
  \/ \E f \in Folders : ChangeFolder(f)
  \/ DoneAdding
  \/ \E choice \in Ways : SaveSettings(choice)
  \/ CloseDialog
  \/ \E f \in Filters : FilterEvents(f)
  \/ EventsTimer
  \/ \E s \in Slots : \/ ServiceServed(s)
                      \/ StatusAnswered(s)
                      \/ StatusFailed(s)
                      \/ CommandEnds(s)
                      \/ InstalledAnswered(s)
                      \/ OpenSettings(s)
                      \/ ChangeFile(s)
                      \/ ChangeEnds(s)
                      \/ EventsAnswered(s)
                      \/ EventsFailed(s)
                      \/ ServiceUnheard(s)

ServiceInit == \E screen \in {"workers", "services", "events"} : Opened(ServiceOpening(screen), ServiceStored)
ServiceSpec == ServiceInit /\ [][ServiceSteps]_browser

-----------------------------------------------------------------------------
(* What must hold *)

\* A change of the watched services writes back the file as it was read, but for what was
\* chosen: adding never resets a service that is set already, setting or removing one
\* touches no other and no folder, and the dialog never adds what it knew to be watched.
OnlyWhatWasChosenChanges ==
  \A s \in Slots : calls[s] # None /\ calls[s].op = "saveFile" =>
    LET change == calls[s].with.change
        base   == calls[s].with.base
        config == calls[s].with.config
    IN  /\ \A u \in Units : \/ u \in change.names /\ (change.kind = "add" => base.items[u] = None)
                            \/ config.items[u] = base.items[u]
        /\ change.kind # "add" => config.folders = base.folders

\* However answers cross, once no more commands are given the screen shows the groups and
\* services as they are, and none as busy.
TheStatusIsShownInTheEnd ==
  LET supervising == page.name \in {"workers", "services"}
  IN  /\ <>[](supervising => view.busy = None)
      /\ <>[](supervising => view.status = stored.units \/ view.problem)

\* Answers for a filter that was left may show for a while; the ones that stay are those of
\* the filter that stays.
TheFilterWins ==
  \A f \in Filters : <>[](On("events") /\ view.filter = f) => <>[](On("events") /\ view.shown = f)
=============================================================================
