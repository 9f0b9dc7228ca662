--------------------------- MODULE DeadLetterStore ---------------------------
(***************************************************************************)
(* What ZapMQ.Core/DeadLetterStore.cs does to the letters of one queue: a  *)
(* list, oldest first, that letters leave by hand, by limit or by age.     *)
(* Every method of the class runs under one lock, so each is one operator  *)
(* from the list before it to the list after it.  A letter is a record     *)
(* with at least the fields msg and diedAt.                                *)
(***************************************************************************)
EXTENDS Integers, Sequences, SequencesExt

\* The k youngest letters, for k no larger than the list.
Youngest(letters, k) == SubSeq(letters, Len(letters) - k + 1, Len(letters))

\* Mutant: the newest letter goes to the front.
AddedInFront(letters, letter, limit, maxAge) ==
  IF limit <= 0 \/ maxAge <= 0 THEN letters ELSE << letter >> \o letters

\* Mutant: the one that is too many goes with the next.
AddedOverTheLimit(letters, letter, limit, maxAge) ==
  IF limit <= 0 \/ maxAge <= 0
  THEN letters
  ELSE Append(IF Len(letters) > limit THEN Youngest(letters, limit) ELSE letters, letter)

\* A queue whose limit or age is zero keeps no letter at all.
Added(letters, letter, limit, maxAge) ==
  IF limit <= 0 \/ maxAge <= 0
  THEN letters
  ELSE LET all == Append(letters, letter)
       IN  IF Len(all) > limit THEN Youngest(all, limit) ELSE all

\* The oldest letter goes while there are too many or it is too old: what is
\* left is the longest tail that stops the loop.
Pruned(letters, limit, maxAge, time) ==
  LET StopsAt(k) == /\ k <= limit
                    /\ k > 0 => time - letters[Len(letters) - k + 1].diedAt <= maxAge
      stops == { k \in 0 .. Len(letters) : StopsAt(k) }
  IN  IF stops = {} THEN <<>> ELSE Youngest(letters, Max(stops))

HasLetter(letters, m) == \E k \in DOMAIN letters : letters[k].msg = m

\* Find(queue, id).
Letter(letters, m) == letters[SelectInSeq(letters, LAMBDA letter : letter.msg = m)]

\* Remove(queue, id) takes the first letter with that id.
Without(letters, m) == RemoveFirstMatch(letters, LAMBDA letter : letter.msg = m)
==============================================================================
