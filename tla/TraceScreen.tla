----------------------------- MODULE TraceScreen -----------------------------
(* The trace of the processes of a group, or of a single one: the page that follows    *)
(* whoever is there, the event stream it opens, and the hub that keeps the last lines. *)
EXTENDS Browser

CONSTANTS Processes,   \* numbers of processes
          MaxLines,    \* how many lines are written in all
          KeptLines,   \* how many lines the page keeps (4000 in the code)
          MaxTroubles  \* how often a stream breaks, a question fails, the group changes

ASSUME ProcessesAssumption == Processes \subseteq Nat /\ Processes # {}

TraceLine(p, n, at) == [pid |-> p, n |-> n, moment |-> at]
TracePage(whole) == [name |-> "trace", whole |-> whole]

OnTrace == page.name = "trace"

-----------------------------------------------------------------------------
(* The service: the processes of the group, and what the hub kept of each *)

Watched(p) == view.source # None /\ view.source.open /\ p \in view.source.pids

\* Whoever starts to watch gets the lines kept from a while ago first.
Stream(pids) == [pids |-> pids, open |-> TRUE, due |-> [p \in pids |-> stored.history[p]]]

\* Only a process that is watched traces.
ProcessWrites(p) ==
  /\ OnTrace
  /\ Watched(p)
  /\ stored.written < MaxLines
  /\ LET line == TraceLine(p, Len(stored.history[p]) + 1, stored.written + 1)
     IN  /\ stored' = [stored EXCEPT !.written = @ + 1, !.history[p] = Append(@, line)]
         /\ view' = [view EXCEPT !.source.due[p] = Append(@, line)]
  /\ UNCHANGED <<page, calls>>

\* Nobody watched a process for a while: its lines are let go, and counted from the start.
\* restarted: where the page still counts from what it took before.
TraceForgotten(p) ==
  /\ OnTrace
  /\ ~Watched(p)
  /\ stored.history[p] # <<>>
  /\ stored' = [stored EXCEPT !.history[p] = <<>>,
                              !.restarted = IF view.taken[p] > 0 THEN @ \union {p} ELSE @]
  /\ UNCHANGED <<page, view, calls>>

TraceTroubled == [stored EXCEPT !.troubles = @ + 1]
MoreTrouble == stored.troubles < MaxTroubles

GroupChanges(pids) ==
  /\ OnTrace
  /\ MoreTrouble
  /\ pids # stored.group
  /\ stored' = [TraceTroubled EXCEPT !.group = pids]
  /\ UNCHANGED <<page, view, calls>>

WorkersServed(s) ==
  /\ InStage(s, {"workers"}, "sent")
  /\ Serve(s, stored.group, stored)

-----------------------------------------------------------------------------
(* The page *)

\* Mutant: the retry of the stream before is left to happen.
FollowedToo(v, pids) ==
  [v EXCEPT !.processes = pids, !.source = IF pids = {} THEN None ELSE Stream(pids)]

\* Follows these processes from now on: another stream, and no retry of the one before.
Followed(v, pids) ==
  [v EXCEPT !.processes = pids, !.retry = None,
            !.source = IF pids = {} THEN None ELSE Stream(pids)]

\* The processes of a group change; of a single process there is nothing to ask.
FindProcesses ==
  /\ OnTrace
  /\ page.whole
  /\ Send(<<Request("workers", None, None)>>)
  /\ UNCHANGED <<page, view, stored>>

ProcessesFound(s) ==
  /\ Answer(s, "workers")
  /\ view' = IF calls[s].answer = view.processes THEN view ELSE Followed(view, calls[s].answer)
  /\ Ends(s, <<>>)
  /\ UNCHANGED <<page, stored>>

\* Nobody answered, or the answer has no such group or service: it is said, and the page
\* goes on with what it follows.
ProcessesNotFound(s) ==
  /\ Failure(s, "workers")
  /\ MoreTrouble
  /\ Ends(s, <<>>)
  /\ stored' = TraceTroubled
  /\ UNCHANGED <<page, view>>

\* Lines of one process arrive: what comes again is left out; each process sends in its
\* own time, and on screen the lines go in the order they were written.
Later(a, b) == \/ a.moment < b.moment
               \/ a.moment = b.moment /\ a.pid < b.pid
               \/ a.moment = b.moment /\ a.pid = b.pid /\ a.n <= b.n

\* Mutant: in the order they came.
WovenAsTheyCame(current, rows) == current \o rows

Woven(current, rows) ==
  LET both == current \o rows
  IN  IF current # <<>> /\ rows[1].moment < Last(current).moment THEN SortSeq(both, Later) ELSE both

LastOf(rows, n) == SubSeq(rows, Max({1, Len(rows) - n + 1}), Len(rows))

\* Mutant: the last one again.
FromTheLastOn(p, batch) == SelectSeq(batch, LAMBDA line : line.n >= view.taken[p])

NotTaken(p, batch) == SelectSeq(batch, LAMBDA line : line.n > view.taken[p])

LinesArrive(p, k) ==
  /\ OnTrace
  /\ Watched(p)
  /\ k \in 1..Len(view.source.due[p])
  /\ LET batch == SubSeq(view.source.due[p], 1, k)
         fresh == NotTaken(p, batch)
         read  == [view EXCEPT !.source.due[p] = SubSeq(@, k + 1, Len(@))]
     IN  view' = IF fresh = <<>> THEN read
                 ELSE [read EXCEPT !.taken[p] = Last(fresh).n,
                                   !.lines = LastOf(Woven(@, fresh), KeptLines)]
  /\ UNCHANGED <<page, calls, stored>>

ClearTrace ==
  /\ OnTrace
  /\ view' = [view EXCEPT !.lines = <<>>]
  /\ stored' = [stored EXCEPT !.again = {}]
  /\ UNCHANGED <<page, calls>>

-----------------------------------------------------------------------------
(* The stream breaks *)

\* The connection is only interrupted: the browser opens it again by itself.
StreamInterrupted ==
  /\ OnTrace
  /\ MoreTrouble
  /\ view.source # None /\ view.source.open
  /\ view' = [view EXCEPT !.source.open = FALSE, !.source.due = [p \in DOMAIN @ |-> <<>>]]
  /\ stored' = TraceTroubled
  /\ UNCHANGED <<page, calls>>

StreamReopened ==
  /\ OnTrace
  /\ view.source # None /\ ~view.source.open
  /\ view' = [view EXCEPT !.source = Stream(@.pids)]
  /\ UNCHANGED <<page, calls, stored>>

\* The page counts from the start: what is on the screen of a process may come again.
CountedAnew == [TraceTroubled EXCEPT !.restarted = {}, !.again = {line.pid : line \in ToSet(view.lines)}]

\* Mutant: closed for good.
StreamClosedForGood ==
  /\ OnTrace
  /\ MoreTrouble
  /\ view.source # None
  /\ view' = [view EXCEPT !.source = None, !.taken = [p \in Processes |-> 0]]
  /\ stored' = CountedAnew
  /\ UNCHANGED <<page, calls>>

\* The browser gives up: the page starts over a while later, as if nothing had been taken.
StreamClosed ==
  /\ OnTrace
  /\ MoreTrouble
  /\ view.source # None
  /\ view' = [view EXCEPT !.source = None, !.retry = view.source.pids,
                          !.taken = [p \in Processes |-> 0]]
  /\ stored' = CountedAnew
  /\ UNCHANGED <<page, calls>>

StreamRetried ==
  /\ OnTrace
  /\ view.retry # None
  /\ view' = [view EXCEPT !.retry = None, !.source = Stream(view.retry)]
  /\ UNCHANGED <<page, calls, stored>>

-----------------------------------------------------------------------------

TraceStored ==
  [group |-> Processes, history |-> [p \in Processes |-> <<>>], written |-> 0, troubles |-> 0,
   restarted |-> {}, again |-> {}]

\* A single process is followed at once; those of a group are asked for first.
TraceOpening(whole) ==
  LET first == {Min(Processes)}
      quiet == [processes |-> {}, lines |-> <<>>, taken |-> [p \in Processes |-> 0],
                source |-> None, retry |-> None]
  IN  [page |-> TracePage(whole),
       view |-> IF whole THEN quiet
                ELSE [quiet EXCEPT !.processes = first,
                                   !.source = [pids |-> first, open |-> TRUE, due |-> [p \in first |-> <<>>]]],
       asks |-> IF whole THEN <<Request("workers", None, None)>> ELSE <<>>]

TraceSteps ==
  \/ \E p \in Processes : \/ ProcessWrites(p)
                          \/ TraceForgotten(p)
                          \/ \E k \in 1..MaxLines : LinesArrive(p, k)
  \/ \E pids \in SUBSET Processes : GroupChanges(pids)
  \/ FindProcesses
  \/ ClearTrace
  \/ StreamInterrupted
  \/ StreamReopened
  \/ StreamClosed
  \/ StreamRetried
  \/ \E s \in Slots : \/ WorkersServed(s)
                      \/ ProcessesFound(s)
                      \/ ProcessesNotFound(s)

TraceInit == \E whole \in BOOLEAN : Opened(TraceOpening(whole), TraceStored)
TraceSpec == TraceInit /\ [][TraceSteps]_browser

-----------------------------------------------------------------------------
(* What must hold *)

\* There is one stream or one retry, never both, and it is of the processes the page says
\* it follows; with somebody to follow there is one of them.
OneStreamOfTheProcesses ==
  OnTrace =>
    /\ view.source = None \/ view.retry = None
    /\ view.processes = {} <=> view.source = None /\ view.retry = None
    /\ view.source # None => view.source.pids = view.processes
    /\ view.retry # None => view.retry = view.processes

\* Whatever comes late, again, or from several processes in their own time, the lines on
\* screen are in the order they were written and each is there once, but for the lines of
\* processes the page counts anew, which are sent once more.
LinesInTheOrderWritten ==
  OnTrace =>
    \A i \in 1..(Len(view.lines) - 1) :
      \/ view.lines[i].moment < view.lines[i + 1].moment
      \/ view.lines[i] = view.lines[i + 1] /\ view.lines[i].pid \in stored.again

\* Answers that arrive out of order, streams that break and processes that come and go
\* leave the page, in the end, on the processes of the group, with all that was sent read
\* and every line taken in, but for processes whose lines were counted from the start again
\* while the page counts on.
TheGroupIsFollowed ==
  <>[](OnTrace /\ page.whole =>
         /\ view.processes = stored.group
         /\ \A p \in stored.group :
              /\ Watched(p) /\ view.source.due[p] = <<>>
              /\ p \in stored.restarted \/ view.taken[p] = Len(stored.history[p]))
=============================================================================
