------------------------------- MODULE LineDiff -------------------------------
(* How two versions of a text are compared line by line, and what of the comparison is *)
(* worth showing.                                                                      *)
EXTENDS Naturals, Sequences, FiniteSets, FiniteSetsExt, SequencesExt

CONSTANTS Empty,    \* the line with nothing in it
          TooMuch,  \* above this many cells, everything goes out and everything comes in
          Context   \* how many lines are shown around each change

\* A text: the lines that are ended, however they are, and what follows the last of them.
Text(lines, rest) == [lines |-> lines, rest |-> rest]

\* No text, null or empty.
Nothing == Text(<<>>, Empty)

\* The last end of line ends a line; it does not begin another.
Split(text) == IF text.rest = Empty /\ text.lines # <<>> THEN text.lines ELSE Append(text.lines, text.rest)

-----------------------------------------------------------------------------
(* One line of a comparison, with its number on each side; 0 on the side it is not on *)

Stays(line, i, j) == [kind |-> " ", text |-> line, before |-> i, after |-> j]
Out(line, i) == [kind |-> "-", text |-> line, before |-> i, after |-> 0]
In(line, j) == [kind |-> "+", text |-> line, before |-> 0, after |-> j]

Changed(line) == line.kind # " "

-----------------------------------------------------------------------------
(* The comparison *)

Shorter(a, b) == Min({Len(a), Len(b)})
SameAtTheStart(a, b) == Max({k \in 0..Shorter(a, b) : \A i \in 1..k : a[i] = b[i]})

\* The tail does not reach into what is the same at the start.
SameAtTheEnd(a, b) ==
  Max({k \in 0..Shorter(a, b) - SameAtTheStart(a, b) :
         \A i \in 0..k - 1 : a[Len(a) - i] = b[Len(b) - i]})

\* How much the rest of a, from each line on, has in common with the rest of b: a row for
\* each line of a and one below, from the last up.
Row(line, b, below) ==
  LET Cell(other, row) ==
        LET j == Len(b) + 1 - Len(row)
        IN  <<IF line = other THEN below[j + 1] + 1 ELSE Max({below[j], Head(row)})>> \o row
  IN  FoldRight(Cell, b, <<0>>)

InCommon(a, b) ==
  LET Above(line, rows) == <<Row(line, b, Head(rows))>> \o rows
  IN  FoldRight(Above, a, <<[j \in 1..Len(b) + 1 |-> 0]>>)

\* Mutant: of the two ways on, the one that leaves less in common.
MiddleTheOtherWay(a, b, start) ==
  LET rows == InCommon(a, b)
      from[i \in 1..Len(a) + 1, j \in 1..Len(b) + 1] ==
        LET hasOut == i <= Len(a)
            hasIn == j <= Len(b)
        IN  IF ~hasOut /\ ~hasIn THEN <<>>
            ELSE IF hasOut /\ hasIn /\ a[i] = b[j] THEN <<Stays(a[i], start + i, start + j)>> \o from[i + 1, j + 1]
            ELSE IF hasOut /\ (~hasIn \/ rows[i + 1][j] < rows[i][j + 1]) THEN <<Out(a[i], start + i)>> \o from[i + 1, j]
            ELSE <<In(b[j], start + j)>> \o from[i, j + 1]
  IN  from[1, 1]

\* From the first line on, whichever way leaves the more in common; out before in.
Middle(a, b, start) ==
  LET rows == InCommon(a, b)
      from[i \in 1..Len(a) + 1, j \in 1..Len(b) + 1] ==
        LET hasOut == i <= Len(a)
            hasIn == j <= Len(b)
        IN  IF ~hasOut /\ ~hasIn THEN <<>>
            ELSE IF hasOut /\ hasIn /\ a[i] = b[j] THEN <<Stays(a[i], start + i, start + j)>> \o from[i + 1, j + 1]
            ELSE IF hasOut /\ (~hasIn \/ rows[i + 1][j] >= rows[i][j + 1]) THEN <<Out(a[i], start + i)>> \o from[i + 1, j]
            ELSE <<In(b[j], start + j)>> \o from[i, j + 1]
  IN  from[1, 1]

Replaced(a, b, start) == [i \in DOMAIN a |-> Out(a[i], start + i)] \o [j \in DOMAIN b |-> In(b[j], start + j)]

Diff(before, after) ==
  LET a == Split(before)
      b == Split(after)
      start == SameAtTheStart(a, b)
      tail == SameAtTheEnd(a, b)
      midA == SubSeq(a, start + 1, Len(a) - tail)
      midB == SubSeq(b, start + 1, Len(b) - tail)
  IN  [i \in 1..start |-> Stays(a[i], i, i)]
      \o (IF Len(midA) * Len(midB) > TooMuch THEN Replaced(midA, midB, start) ELSE Middle(midA, midB, start))
      \o [k \in 1..tail |-> Stays(a[Len(a) - tail + k], Len(a) - tail + k, Len(b) - tail + k)]

-----------------------------------------------------------------------------
(* What is shown of it *)

\* Mutant: one line short after the change.
NearButOne(lines) ==
  {i \in DOMAIN lines : \E c \in DOMAIN lines : Changed(lines[c]) /\ c <= i + Context /\ i < c + Context}

NearAChange(lines) ==
  {i \in DOMAIN lines : \E c \in DOMAIN lines : Changed(lines[c]) /\ c <= i + Context /\ i <= c + Context}

\* A handful of equal lines between two changes is not worth leaving out.
Handfuls(lines, near) ==
  {i \in DOMAIN lines \ near :
     \E from \in 2..i : \E to \in i..Len(lines) - 1 :
       /\ from..to \intersect near = {}
       /\ {from - 1, to + 1} \subseteq near
       /\ to - from + 1 <= Context}

\* Stretches that are shown and stretches that are counted, in turn.  The lines of one that
\* is counted are not told.
Around(lines) ==
  LET near == NearAChange(lines)
      keep == near \union Handfuls(lines, near)
      Take(parts, i) ==
        IF parts # <<>> /\ Last(parts).kept = (i \in keep)
        THEN [parts EXCEPT ![Len(parts)].lines = Append(@, lines[i])]
        ELSE Append(parts, [kept |-> i \in keep, lines |-> <<lines[i]>>])
  IN  FoldLeft(Take, <<>>, [i \in DOMAIN lines |-> i])
=============================================================================
