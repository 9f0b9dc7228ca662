---------------------------- MODULE QueueScreens ----------------------------
(* The screens of the queues: the list, one queue with the form of its definition, the *)
(* messages that go through it, and its dead letters.                                  *)
EXTENDS Browser

CONSTANTS Queues,       \* names of queues
          Definitions,  \* settings that can be written in the form of a queue
          Blank,        \* the one with every field empty
          Letters,      \* ids of dead letters: numbers, the queue lists them by age
          Kept,         \* how many messages the watch keeps (500 in the code)
          Watched       \* ids of the messages that go through a watched queue: 1..n

ASSUME WatchedAssumption == Kept \in Nat /\ IsFiniteSet(Watched) /\ Watched = 1..Cardinality(Watched)

QueuePage(name, q, query) == [name |-> name, at |-> q, query |-> query]

-----------------------------------------------------------------------------
(* The service *)

QueueDetail(q) == [of |-> q, own |-> stored.own[q], paused |-> stored.paused[q]]
DeadSummary == {q \in Queues : stored.letters[q] # {}}

QueueReads == {"queue", "deadSummary", "deadLetters"}
QueueWrites == {"saveSettings", "clearSettings", "pause", "purge", "requeue", "discard",
                "discardAll"}

QueueAnswer(c) ==
  CASE c.op = "queue" -> QueueDetail(c.at)
    [] c.op = "deadSummary" -> DeadSummary
    [] c.op = "deadLetters" -> [of |-> c.at, ids |-> stored.letters[c.at]]
    [] OTHER -> None

\* Clearing the definition of a queue clears its pause with it; writing one keeps it;
\* pausing a queue without one gives it one.
QueueEffect(c) ==
  CASE c.op = "saveSettings" -> [stored EXCEPT !.own[c.at] = c.with.value]
    [] c.op = "clearSettings" -> [stored EXCEPT !.own[c.at] = None, !.paused[c.at] = FALSE]
    [] c.op = "pause" -> [stored EXCEPT !.own[c.at] = IF @ = None THEN Blank ELSE @, !.paused[c.at] = c.with]
    [] c.op \in {"requeue", "discard"} -> [stored EXCEPT !.letters[c.at] = @ \ {c.with}]
    [] c.op = "discardAll" -> [stored EXCEPT !.letters[c.at] = {}]
    [] OTHER -> stored

\* A letter that is gone cannot be requeued or discarded again.
QueueRefuses(c) == c.op \in {"requeue", "discard"} /\ c.with \notin stored.letters[c.at]

QueueServed(s) ==
  /\ InStage(s, QueueReads \union QueueWrites, "sent")
  /\ IF QueueRefuses(calls[s]) THEN Refuse(s)
     ELSE Serve(s, QueueAnswer(calls[s]), QueueEffect(calls[s]))

\* A message dies.
MessageDies ==
  /\ page.name = "dead"
  /\ \E q \in Queues, l \in Letters :
       /\ \A p \in Queues : l \notin stored.letters[p]
       /\ stored' = [stored EXCEPT !.letters[q] = @ \union {l}]
  /\ UNCHANGED <<page, view, calls>>

-----------------------------------------------------------------------------
(* The list of the queues *)

\* The pending messages are asked for beside it, and only shown, under the same guard:
\* they are left out.
QueueQuestion(q) == <<Request("queue", q, None)>>

\* A row of the list opens its queue; defining one asks for its name and opens its form.
OpenQueue(q, query) ==
  /\ page.name = "queues"
  /\ page' = QueuePage("queue", q, query)
  /\ view' = [detail |-> None, failed |-> FALSE, saving |-> FALSE, form |-> None]
  /\ Send(QueueQuestion(q))
  /\ UNCHANGED stored

-----------------------------------------------------------------------------
(* One queue *)

\* Another address, the same component.
QueueChanged(q) ==
  /\ page.name = "queue"
  /\ q # page.at
  /\ page' = QueuePage("queue", q, None)
  /\ view' = [view EXCEPT !.detail = None, !.form = None]
  /\ Send(QueueQuestion(q))
  /\ UNCHANGED stored

QueueTimer ==
  /\ page.name = "queue"
  /\ view.form = None
  /\ Send(QueueQuestion(page.at))
  /\ UNCHANGED <<page, view, stored>>

\* The form while it is being edited, and None otherwise: opening it fills it again.
FormOf(detail, q) ==
  [of |-> q, value |-> IF detail = None \/ detail.own = None THEN Blank ELSE detail.own]
Editing(v) == [v EXCEPT !.form = FormOf(v.detail, page.at)]

\* Mutant: the answer is shown whatever queue it is of.
QueueAnsweredAnyhow(s) ==
  /\ Answer(s, "queue")
  /\ view' = [view EXCEPT !.detail = calls[s].answer, !.failed = FALSE]
  /\ Ends(s, <<>>)
  /\ UNCHANGED <<page, stored>>

QueueAnswered(s) ==
  /\ Answer(s, "queue")
  /\ LET detail == calls[s].answer
         shown  == [view EXCEPT !.detail = detail, !.failed = FALSE]
     IN  view' = IF calls[s].at # page.at THEN view
                 ELSE IF view.detail = None /\ page.query = "define" /\ detail.own = None
                 THEN Editing(shown)
                 ELSE shown
  /\ Ends(s, <<>>)
  /\ UNCHANGED <<page, stored>>

QueueFailed(s) ==
  /\ Failure(s, "queue")
  /\ view' = [view EXCEPT !.failed = TRUE]
  /\ Ends(s, <<>>)
  /\ UNCHANGED <<page, stored>>

QueueFormOffered == page.name = "queue" /\ view.detail # None

EditQueue ==
  /\ QueueFormOffered
  /\ view.form = None
  /\ view' = Editing(view)
  /\ UNCHANGED <<page, calls, stored>>

TypeDefinition(d) ==
  /\ QueueFormOffered
  /\ view.form # None
  /\ view' = [view EXCEPT !.form.value = d]
  /\ UNCHANGED <<page, calls, stored>>

CancelDefinition ==
  /\ QueueFormOffered
  /\ view.form # None
  /\ ~view.saving
  /\ view' = [view EXCEPT !.form = None]
  /\ UNCHANGED <<page, calls, stored>>

SaveDefinition ==
  /\ QueueFormOffered
  /\ view.form # None
  /\ ~view.saving
  /\ view' = [view EXCEPT !.saving = TRUE]
  /\ Send(<<Request("saveSettings", page.at, view.form)>>)
  /\ UNCHANGED <<page, stored>>

\* The questions of the queue that is on the screen by then.
DefinitionSaved(s) ==
  /\ Answer(s, "saveSettings")
  /\ view' = [view EXCEPT !.form = None, !.saving = FALSE]
  /\ Ends(s, QueueQuestion(page.at))
  /\ UNCHANGED <<page, stored>>

DefinitionNotSaved(s) ==
  /\ Failure(s, "saveSettings")
  /\ view' = [view EXCEPT !.saving = FALSE]
  /\ Ends(s, <<>>)
  /\ UNCHANGED <<page, stored>>

ResetDefinition ==
  /\ QueueFormOffered
  /\ view.form = None
  /\ view.detail.own # None
  /\ Send(<<Request("clearSettings", page.at, None)>>)
  /\ UNCHANGED <<page, view, stored>>

\* Whether it is a pause or a resumption is decided by what the screen showed.
TogglePause ==
  /\ QueueFormOffered
  /\ Send(<<Request("pause", page.at, ~view.detail.paused)>>)
  /\ UNCHANGED <<page, view, stored>>

PurgeQueue ==
  /\ QueueFormOffered
  /\ Send(<<Request("purge", page.at, None)>>)
  /\ UNCHANGED <<page, view, stored>>

QueueCommanded(s) ==
  /\ \E op \in {"clearSettings", "pause", "purge"} : Answer(s, op)
  /\ view' = IF calls[s].op = "clearSettings" THEN [view EXCEPT !.form = None] ELSE view
  /\ Ends(s, QueueQuestion(page.at))
  /\ UNCHANGED <<page, stored>>

\* Nobody catches these: the screen stays as it was.
QueueUnheard(s) ==
  /\ \E op \in {"clearSettings", "pause", "purge", "deadSummary", "deadLetters",
                "discardAll"} : Failure(s, op)
  /\ Ends(s, <<>>)
  /\ UNCHANGED <<page, view, stored>>

-----------------------------------------------------------------------------
(* The dead letters *)

DeadQuestions(q) == IF q = None THEN <<>> ELSE <<Request("deadLetters", q, None)>>

\* The queue is in the query of the address: another one, and what was shown goes.
Chosen(q) ==
  /\ page' = QueuePage("dead", q, None)
  /\ view' = [view EXCEPT !.letters = None]

PickQueue(q) ==
  /\ page.name = "dead"
  /\ q \in view.summary
  /\ q # page.at
  /\ Chosen(q)
  /\ Send(DeadQuestions(q))
  /\ UNCHANGED stored

DeadTimer ==
  /\ page.name = "dead"
  /\ Send(<<Request("deadSummary", None, None)>> \o DeadQuestions(page.at))
  /\ UNCHANGED <<page, view, stored>>

\* Nothing chosen yet: the first queue that has something is opened.
DeadSummaryAnswered(s) ==
  /\ Answer(s, "deadSummary")
  /\ LET summary == calls[s].answer
     IN  IF page.at = None /\ summary # {}
         THEN \E q \in summary :
                /\ page' = QueuePage("dead", q, None)
                /\ view' = [view EXCEPT !.summary = summary, !.letters = None]
                /\ Ends(s, DeadQuestions(q))
         ELSE /\ view' = [view EXCEPT !.summary = summary]
              /\ Ends(s, <<>>)
              /\ UNCHANGED page
  /\ UNCHANGED stored

DeadLettersAnswered(s) ==
  /\ Answer(s, "deadLetters")
  /\ view' = IF calls[s].at = page.at THEN [view EXCEPT !.letters = calls[s].answer] ELSE view
  /\ Ends(s, <<>>)
  /\ UNCHANGED <<page, stored>>

\* The letter carries its queue; all of them are those of the queue in the address.
DisposeOfLetter(op, l) ==
  /\ page.name = "dead"
  /\ view.letters # None
  /\ l \in view.letters.ids
  /\ Send(<<Request(op, view.letters.of, l)>>)
  /\ UNCHANGED <<page, view, stored>>

DiscardAll ==
  /\ page.name = "dead"
  /\ view.letters # None
  /\ view.letters.ids # {}
  /\ Send(<<Request("discardAll", page.at, view.letters)>>)
  /\ UNCHANGED <<page, view, stored>>

\* Answered or refused, the screen is read again; only discarding all is not caught.
LettersDisposedOf(s) ==
  /\ \/ \E op \in {"requeue", "discard", "discardAll"} : Answer(s, op)
     \/ \E op \in {"requeue", "discard"} : Failure(s, op)
  /\ Ends(s, <<Request("deadSummary", None, None)>> \o DeadQuestions(page.at))
  /\ UNCHANGED <<page, view, stored>>

-----------------------------------------------------------------------------
(* Watching the messages of a queue *)

\* The kinds of step, in the order a state may advance; "confirmed" stands for being
\* confirmed or answered.
Kinds == <<"published", "delivered", "confirmed", "dead">>
Rank(kind) == CHOOSE i \in DOMAIN Kinds : Kinds[i] = kind

\* Message m is published at m; whatever happens to it happens after every publication.
Moment(m, kind) == IF kind = "published" THEN m ELSE m + Cardinality(Watched)

Followed(m, kind) == [at |-> Moment(m, kind), body |-> FALSE, state |-> kind, took |-> FALSE]

\* Mutant: the step that came last, not the furthest.
MergedLast(row, m, kind) ==
  [row EXCEPT !.state = kind, !.body = @ \/ kind = "published"]

Merged(row, m, kind) ==
  LET advanced  == IF Rank(kind) >= Rank(row.state) THEN [row EXCEPT !.state = kind] ELSE row
      described == IF kind = "published"
                   THEN [advanced EXCEPT !.at = Moment(m, kind), !.body = TRUE]
                   ELSE advanced
  IN  IF kind = "confirmed" /\ described.body
      THEN [described EXCEPT !.took = TRUE]
      ELSE described

\* The newest are kept; of two of the same moment, the one that came first.
Newest(rows) ==
  LET older(m) == Cardinality({o \in DOMAIN rows : rows[o].at > rows[m].at})
  IN  [m \in {n \in DOMAIN rows : older(n) < Kept} |-> rows[m]]

Noted(table, m, what) == [n \in DOMAIN table \union {m} |-> IF n = m THEN what ELSE table[n]]

\* heard: what came of each message since it is shown, by which the rows are judged.
TakeStep(m, kind) ==
  /\ page.name = "watch"
  /\ view.source = "open"
  /\ LET row  == IF m \in DOMAIN view.rows THEN view.rows[m] ELSE Followed(m, kind)
         rows == Newest(Noted(view.rows, m, Merged(row, m, kind)))
         told == Noted(view.heard, m, {kind} \union IF m \in DOMAIN view.heard THEN view.heard[m] ELSE {})
     IN  view' = [view EXCEPT !.rows = rows,
                              !.heard = [n \in DOMAIN rows |-> told[n]]]
  /\ UNCHANGED <<page, calls, stored>>

ClearWatch ==
  /\ page.name = "watch"
  /\ view' = [view EXCEPT !.rows = <<>>, !.heard = <<>>]
  /\ UNCHANGED <<page, calls, stored>>

\* The browser gave the connection up: another one after a while.  Nothing is read again,
\* and the service sends what it kept as it does to anybody who comes.
WatchBreaks ==
  /\ page.name = "watch"
  /\ view.source = "open"
  /\ view' = [view EXCEPT !.source = "retry"]
  /\ UNCHANGED <<page, calls, stored>>

WatchAgain ==
  /\ page.name = "watch"
  /\ view.source = "retry"
  /\ view' = [view EXCEPT !.source = "open"]
  /\ UNCHANGED <<page, calls, stored>>

-----------------------------------------------------------------------------

\* The screen as it is opened, with the questions it begins with.
QueueOpening(screen) ==
  CASE screen = "queues" ->
         [page |-> QueuePage("queues", None, None), view |-> <<>>, asks |-> <<>>]
    [] screen = "dead" ->
         [page |-> QueuePage("dead", None, None), view |-> [summary |-> {}, letters |-> None],
          asks |-> <<Request("deadSummary", None, None)>>]
    [] screen = "watch" ->
         [page |-> QueuePage("watch", None, None),
          view |-> [rows |-> <<>>, heard |-> <<>>, source |-> "open"], asks |-> <<>>]

QueueStored ==
  [own |-> [q \in Queues |-> None], paused |-> [q \in Queues |-> FALSE],
   letters |-> [q \in Queues |-> {}]]

QueueSteps ==
  \/ MessageDies
  \/ \E q \in Queues : \/ \E query \in {None, "define"} : OpenQueue(q, query)
                       \/ QueueChanged(q)
                       \/ PickQueue(q)
  \/ QueueTimer
  \/ \E d \in Definitions : TypeDefinition(d)
  \/ EditQueue
  \/ CancelDefinition
  \/ SaveDefinition
  \/ ResetDefinition
  \/ TogglePause
  \/ PurgeQueue
  \/ DeadTimer
  \/ \E l \in Letters, op \in {"requeue", "discard"} : DisposeOfLetter(op, l)
  \/ DiscardAll
  \/ \E m \in Watched, i \in DOMAIN Kinds : TakeStep(m, Kinds[i])
  \/ ClearWatch
  \/ WatchBreaks
  \/ WatchAgain
  \/ \E s \in Slots : \/ QueueServed(s)
                      \/ QueueAnswered(s)
                      \/ QueueFailed(s)
                      \/ DefinitionSaved(s)
                      \/ DefinitionNotSaved(s)
                      \/ QueueCommanded(s)
                      \/ DeadSummaryAnswered(s)
                      \/ DeadLettersAnswered(s)
                      \/ LettersDisposedOf(s)
                      \/ QueueUnheard(s)

QueueInit == \E screen \in {"queues", "dead", "watch"} : Opened(QueueOpening(screen), QueueStored)
QueueSpec == QueueInit /\ [][QueueSteps]_browser

-----------------------------------------------------------------------------
(* What must hold *)

\* The answers of a queue that was left never show under the name of another: what one
\* queue's screen shows, and what is in its form, is of the queue in the address, and a
\* definition is only written to the queue it was read from.
WhatIsShownIsOfItsQueue ==
  /\ page.name = "queue" =>
       /\ view.detail # None => view.detail.of = page.at
       /\ view.form # None => view.form.of = page.at
  /\ page.name = "dead" /\ view.letters # None => view.letters.of = page.at
  /\ \A s \in Slots : calls[s] # None =>
       /\ calls[s].op = "saveSettings" => calls[s].with.of = calls[s].at
       /\ calls[s].op = "discardAll" => calls[s].with.of = calls[s].at

\* Steps of a message arrive in any order, more than once, and after the message fell out
\* of the list: its row says the furthest of what came, and shows the content and how long
\* it took only when the publication came.
WatchSaysTheFurthest ==
  page.name = "watch" =>
    /\ Cardinality(DOMAIN view.rows) <= Kept
    /\ \A m \in DOMAIN view.rows :
         LET row == view.rows[m]
         IN  /\ row.state \in view.heard[m]
             /\ \A kind \in view.heard[m] : Rank(kind) <= Rank(row.state)
             /\ row.body <=> "published" \in view.heard[m]
             /\ row.took => {"published", "confirmed"} \subseteq view.heard[m]
=============================================================================
