--------------------------- MODULE DatabaseScreens ---------------------------
(* The screens of what is in the databases and of what changed in them: the list of the *)
(* changes, one change with its two sides, and one object with its script.              *)
EXTENDS Browser, LineDiff, Integers

CONSTANTS Things,   \* the objects of a database
          Periods,  \* what the list of the changes may be narrowed to
          Finds,    \* what may be looked for in a script, without the blanks around it
          Lower     \* the small letter of each letter

OnChanges == page.name = "changes"
OnChange == page.name = "change"
OnObject == page.name = "object"

-----------------------------------------------------------------------------
(* The service *)

DatabaseReads == {"changes", "change", "object", "objectChanges"}

\* A change that is kept no more, an object that was dropped: 404.
Gone(c) ==
  \/ c.op = "change" /\ stored.change = None
  \/ c.op = "object" /\ stored.scripts[c.at] = None

DatabaseAnswer(c) ==
  CASE c.op = "change" -> stored.change
    [] c.op = "object" -> [of |-> c.at, script |-> stored.scripts[c.at]]
    [] OTHER -> c.at

DatabaseServed(s) ==
  /\ InStage(s, DatabaseReads, "sent")
  /\ IF Gone(calls[s]) THEN Refuse(s) ELSE Serve(s, DatabaseAnswer(calls[s]), stored)

-----------------------------------------------------------------------------
(* The list of the changes *)

\* Mutant: every answer counts, in the order it comes.
EveryOneCounts(table) == table

\* Of the questions of the list only the last one counts.
LastAsked(table) ==
  [s \in DOMAIN table |->
     IF table[s] # None /\ table[s].op = "changes" THEN [table[s] EXCEPT !.with = FALSE] ELSE table[s]]

RefreshChanges(v) ==
  /\ Room(1)
  /\ view' = v
  /\ calls' = Placed(LastAsked(calls), Request("changes", v.filter, TRUE))
  /\ UNCHANGED <<page, stored>>

\* A kind and a period at once; what is typed, when it stops for a while; and every half a
\* minute.
ChooseChanges(f) == OnChanges /\ f # view.filter /\ RefreshChanges([view EXCEPT !.filter = f])
TypingStops == OnChanges /\ view.typing /\ RefreshChanges([view EXCEPT !.typing = FALSE])
ChangesTimer == OnChanges /\ RefreshChanges(view)

TypeForChanges(f) ==
  /\ OnChanges
  /\ f # view.filter
  /\ view' = [view EXCEPT !.filter = f, !.typing = TRUE]
  /\ UNCHANGED <<page, calls, stored>>

\* An old Worker Control does not know of changes; otherwise the problem is said.
ChangesEnd(s) ==
  /\ \/ /\ Answer(s, "changes")
        /\ view' = IF calls[s].with
                   THEN [view EXCEPT !.changes = calls[s].answer, !.problem = FALSE, !.outdated = FALSE]
                   ELSE view
     \/ /\ Failure(s, "changes")
        /\ \E old \in BOOLEAN :
             view' = IF ~calls[s].with THEN view
                     ELSE IF old THEN [view EXCEPT !.outdated = TRUE]
                     ELSE [view EXCEPT !.problem = TRUE]
  /\ Ends(s, <<>>)
  /\ UNCHANGED <<page, stored>>

-----------------------------------------------------------------------------
(* One change *)

ChangeRead(s) ==
  /\ \/ Answer(s, "change") /\ view' = [view EXCEPT !.change = calls[s].answer]
     \/ Failure(s, "change") /\ view' = IF calls[s].stage = "refused" THEN [view EXCEPT !.missing = TRUE]
                                        ELSE [view EXCEPT !.problem = TRUE]
  /\ Ends(s, <<>>)
  /\ UNCHANGED <<page, stored>>

\* What was created, or dropped, has one side only.
Compared(change) == change.old # Nothing /\ change.new # Nothing

Lines(change) == Diff(change.old, change.new)

ShowWhole(whole) ==
  /\ OnChange
  /\ view.change # None
  /\ Compared(view.change)
  /\ view' = [view EXCEPT !.whole = whole]
  /\ UNCHANGED <<page, calls, stored>>

\* Without a comparison to make the lines are shown as they are.
Parts(change, whole) ==
  IF whole \/ ~Compared(change) THEN <<[kept |-> TRUE, lines |-> Lines(change)]>>
  ELSE Around(Lines(change))

-----------------------------------------------------------------------------
(* One object *)

ObjectQuestions(o) == <<Request("objectChanges", o, None), Request("object", o, None)>>

\* From one object to another over the same screen: what is looked for stays.
OpenThing(o) ==
  /\ OnObject
  /\ o # page.at
  /\ page' = [page EXCEPT !.at = o]
  /\ view' = [view EXCEPT !.detail = None, !.problem = FALSE, !.missing = FALSE, !.changes = None]
  /\ Send(ObjectQuestions(o))
  /\ UNCHANGED stored

ObjectRead(s) ==
  /\ \/ Answer(s, "object") /\ view' = [view EXCEPT !.detail = calls[s].answer]
     \/ Failure(s, "object") /\ view' = IF calls[s].stage = "refused" THEN [view EXCEPT !.missing = TRUE]
                                        ELSE [view EXCEPT !.problem = TRUE]
     \/ Answer(s, "objectChanges") /\ view' = [view EXCEPT !.changes = calls[s].answer]
     \/ Failure(s, "objectChanges") /\ UNCHANGED view
  /\ Ends(s, <<>>)
  /\ UNCHANGED <<page, stored>>

Small(letters) == [i \in DOMAIN letters |-> Lower[letters[i]]]
FoundAt(script, wanted, i) ==
  i + Len(wanted) - 1 <= Len(script) /\ SubSeq(script, i, i + Len(wanted) - 1) = wanted

\* Mutant: the next place is looked for one letter on.
HitsOverlapping(script, wanted) ==
  SelectSeq([i \in DOMAIN script |-> i], LAMBDA i : Len(wanted) > 1 /\ FoundAt(Small(script), Small(wanted), i))

\* Where the text is in the script; a letter alone is not looked for.
Hits(script, wanted) ==
  LET small == Small(script)
      from[i \in 1..Len(script) + 1] ==
        LET places == {k \in i..Len(script) : FoundAt(small, Small(wanted), k)}
        IN  IF places = {} THEN <<>> ELSE <<Min(places)>> \o from[Min(places) + Len(wanted)]
  IN  IF Len(wanted) > 1 THEN from[1] ELSE <<>>

\* The script cut where the text was found, each of those pieces with its number.
Marked(script, wanted) ==
  LET hits == Hits(script, wanted)
      Cut(sofar, place) ==
        [parts |-> sofar.parts \o <<[text |-> SubSeq(script, sofar.next, place - 1), hit |-> None],
                                    [text |-> SubSeq(script, place, place + Len(wanted) - 1), hit |-> Len(sofar.parts) \div 2]>>,
         next |-> place + Len(wanted)]
      all == FoldLeft(Cut, [parts |-> <<>>, next |-> 1], hits)
  IN  Append(all.parts, [text |-> SubSeq(script, all.next, Len(script)), hit |-> None])

HasScript == OnObject /\ view.detail # None /\ view.detail.script # <<>>
HitsHere == Hits(view.detail.script, view.find)

LookFor(text) ==
  /\ HasScript
  /\ text # view.find
  /\ view' = [view EXCEPT !.find = text, !.at = 0]
  /\ UNCHANGED <<page, calls, stored>>

\* Round and round.
NextHit(step) ==
  /\ HasScript
  /\ HitsHere # <<>>
  /\ view' = [view EXCEPT !.at = (@ + step + Len(HitsHere)) % Len(HitsHere)]
  /\ UNCHANGED <<page, calls, stored>>

-----------------------------------------------------------------------------

DatabaseOpening(screen) ==
  CASE screen = "changes" ->
         [page |-> [name |-> screen], asks |-> <<Request("changes", Min(Periods), TRUE)>>,
          view |-> [filter |-> Min(Periods), typing |-> FALSE, changes |-> None, problem |-> FALSE, outdated |-> FALSE]]
    [] screen = "change" ->
         [page |-> [name |-> screen], asks |-> <<Request("change", None, None)>>,
          view |-> [change |-> None, missing |-> FALSE, problem |-> FALSE, whole |-> FALSE]]

\* Coming from a search in the scripts, what was searched for is looked for here too.
ObjectOpening(o, find) ==
  [page |-> [name |-> "object", at |-> o], asks |-> ObjectQuestions(o),
   view |-> [detail |-> None, missing |-> FALSE, problem |-> FALSE, changes |-> None, find |-> find, at |-> 0]]

DatabaseStore(change, scripts) == [change |-> change, scripts |-> scripts]

DatabaseSteps ==
  \/ \E f \in Periods : ChooseChanges(f) \/ TypeForChanges(f)
  \/ TypingStops
  \/ ChangesTimer
  \/ \E whole \in BOOLEAN : ShowWhole(whole)
  \/ \E o \in Things : OpenThing(o)
  \/ \E text \in Finds : LookFor(text)
  \/ \E step \in {-1, 1} : NextHit(step)
  \/ \E s \in Slots : \/ DatabaseServed(s)
                      \/ ChangesEnd(s)
                      \/ ChangeRead(s)
                      \/ ObjectRead(s)

DatabaseInit(kept) ==
  \/ \E screen \in {"changes", "change"} : Opened(DatabaseOpening(screen), kept)
  \/ \E o \in Things, find \in Finds : Opened(ObjectOpening(o, find), kept)
DatabaseSpec(kept) == DatabaseInit(kept) /\ [][DatabaseSteps]_browser

-----------------------------------------------------------------------------
(* What must hold *)

\* Filters chosen and typed while answers are on the way, the timer between them: once the
\* last question was answered, the changes listed are those of the filters on the screen.
ChangesAreOfTheFilters ==
  OnChanges /\ ~view.typing /\ ~view.problem /\ ~view.outdated /\ view.changes # None =>
    \/ view.changes = view.filter
    \/ \E s \in Slots : calls[s] # None /\ calls[s].with

ChangeShown == OnChange /\ view.change # None
Spelled(lines) == [i \in DOMAIN lines |-> lines[i].text]
OfBefore(lines) == SelectSeq(lines, LAMBDA line : line.kind # "+")
OfAfter(lines) == SelectSeq(lines, LAMBDA line : line.kind # "-")

Subsequences(t) ==
  {LET places == SetToSortSeq(chosen, <) IN [i \in DOMAIN places |-> t[places[i]]] : chosen \in SUBSET DOMAIN t}

\* Whatever the two texts have at their start, in the middle and at their end: the lines
\* that stay and go out are the old text, those that stay and come in the new one, each has
\* its number there, and, while the two are not too long, no way to tell one from the other
\* is shorter: as many stay as both have in the same order.
ComparisonTellsBothTexts ==
  ChangeShown =>
    LET lines == Lines(view.change)
        old == OfBefore(lines)
        new == OfAfter(lines)
        a == Split(view.change.old)
        b == Split(view.change.new)
    IN  /\ Spelled(old) = a
        /\ Spelled(new) = b
        /\ \A i \in DOMAIN old : old[i].before = i
        /\ \A i \in DOMAIN new : new[i].after = i
        /\ Len(a) * Len(b) <= TooMuch =>
             Len(SelectSeq(lines, LAMBDA line : ~Changed(line)))
               = Max({Len(both) : both \in Subsequences(a) \intersect Subsequences(b)})

\* However near the changes are to one another and to the ends: the parts, put together, are
\* the comparison; a part that is only counted has no change in it and none near it; and no
\* part is counted for fewer lines than would be worth it, between two that are shown.
OnlyWhatStaysIsLeftOut ==
  ChangeShown =>
    LET parts == Parts(view.change, view.whole)
        starts(k) == Len(FlattenSeq([i \in 1..k - 1 |-> parts[i].lines]))
        lines == Lines(view.change)
    IN  /\ FlattenSeq([k \in DOMAIN parts |-> parts[k].lines]) = lines
        /\ \A k \in DOMAIN parts : ~parts[k].kept =>
             /\ \A c \in DOMAIN lines : Changed(lines[c]) => c <= starts(k) - Context \/ c > starts(k + 1) + Context
             /\ k \in 2..Len(parts) - 1 => Len(parts[k].lines) > Context
             /\ {k - 1, k + 1} \intersect DOMAIN parts \subseteq {n \in DOMAIN parts : parts[n].kept}

\* What the screen of a change shows is the two texts, whole or with what is left out counted.
ComparisonIsWhole == ComparisonTellsBothTexts /\ OnlyWhatStaysIsLeftOut

\* Wherever the text is in the script, its letters small or capital, beside itself or over
\* itself: the pieces are the script, those that are marked are numbered and are the text,
\* and the text is nowhere without touching one.
MarksAreTheText ==
  HasScript /\ Len(view.find) > 1 =>
    LET script == view.detail.script
        wanted == view.find
        parts == Marked(script, wanted)
        marks == SelectSeq(parts, LAMBDA part : part.hit # None)
        hits == Hits(script, wanted)
    IN  /\ FlattenSeq([k \in DOMAIN parts |-> parts[k].text]) = script
        /\ \A n \in DOMAIN marks : marks[n].hit = n - 1 /\ Small(marks[n].text) = Small(wanted)
        /\ \A i \in 1..Len(script) : FoundAt(Small(script), Small(wanted), i) =>
             \E k \in ToSet(hits) : i < k + Len(wanted) /\ k < i + Len(wanted)
=============================================================================
