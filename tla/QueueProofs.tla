----------------------------- MODULE QueueProofs -----------------------------
(* What a step of the broker does to the messages, and what a queue holds: whatever call *)
(* it belongs to, a step is one of the few moves below; a queue with a message or a        *)
(* consumer is found by its name.  The broker lets go of a queue only after it retired it, *)
(* under its lock, and a retired queue holds nothing.                                      *)
EXTENDS TypeProofs

-----------------------------------------------------------------------------
(* How messages move.  Whatever other threads are doing, what is proved of messages, *)
(* holders and answers is proved of the moves.                                        *)

\* The queues with a message in their line, and in their dictionary.
InLine(q, m)  == { i \in Instances : m \in ToSet(q[i]) }
InAir(q, m)   == { i \in Instances : m \in q[i] }
Lines(m)      == InLine(pending, m)
Flights(m)    == InAir(inFlight, m)

\* Every other message is what and where it was.
Elsewhere(M) == \A x \in Messages \ M : /\ entry'[x] = entry[x] /\ fate'[x] = fate[x]
                                        /\ Lines(x)' = Lines(x) /\ Flights(x)' = Flights(x)

Goes(m, lines, flights, e, f) ==
  /\ m \in Messages /\ Elsewhere({m})
  /\ Lines(m)' = lines /\ Flights(m)' = flights /\ entry'[m] = e /\ fate'[m] = f

SameConsumers == UNCHANGED << cstate, current >>

\* No message moves; a consumer may become free, or close.
Stays == Elsewhere({}) /\ SameConsumers

Freed(c) ==
  /\ c \in Consumers /\ op[c].pc = "release" /\ op'[c].pc = "rotate"
  /\ Elsewhere({}) /\ UNCHANGED current
  /\ cstate' = [cstate EXCEPT ![c] = IF @ = "busy" THEN "free" ELSE @]

Closes(c) ==
  /\ c \in Consumers
  /\ Elsewhere({}) /\ UNCHANGED current
  /\ cstate' = [cstate EXCEPT ![c] = "closed"]

\* Published, put in the line, given to a consumer, taken out of the line to be answered.
Born(m) ==
  /\ fate[m] = "unborn" /\ SameConsumers
  /\ \E e : Goes(m, Lines(m), Flights(m), e, "sent") /\ e.owner = None /\ ~e.answered

Queued(m, i) ==
  /\ fate[m] = "sent" /\ SameConsumers /\ ~removed[i]
  /\ \E t \in Threads : At(t, "gate", {"publish"}) /\ op[t].inst = i /\ op[t].msg = m
  /\ Goes(m, {i}, {}, [entry[m] EXCEPT !.born = now], "live")

Given(m, i, c) ==
  /\ Lines(m) = {i} /\ fate[m] = "live" /\ c \in Consumers /\ cstate[c] = "free"
  /\ cstate' = [cstate EXCEPT ![c] = "busy"]
  /\ current' = [current EXCEPT ![c] = [home |-> entry[m].home, msg |-> m]]
  /\ Goes(m, {}, {i}, [entry[m] EXCEPT !.owner = c], "live")

PutAside(m, i) ==
  /\ Lines(m) = {i} /\ fate[m] = "live" /\ SameConsumers
  /\ Goes(m, {}, {i}, entry[m], "live")

\* What nobody holds is over, several at once in a purge or a sweep.
Ended == { "taken", "collected", "expired", "notConsumed", "dropped", "purged" }

End(M) ==
  /\ M \subseteq Messages /\ Elsewhere(M) /\ SameConsumers
  /\ \A m \in M : /\ fate[m] = "live" /\ entry[m].owner = None
                  /\ Lines(m)' = {} /\ Flights(m)' = {}
                  /\ entry'[m] = Blank /\ fate'[m] \in Ended

\* What nobody holds is answered: the answer goes out, or is kept.
GoesOut(m) ==
  /\ fate[m] = "live" /\ entry[m].owner = None /\ SameConsumers
  /\ Goes(m, {}, {}, Blank, "pushed")

IsKept(m, i) ==
  /\ fate[m] = "live" /\ entry[m].owner = None /\ SameConsumers
  /\ Lines(m) \union Flights(m) = {i} /\ ~SomebodyWaits(entry[m].replyTo)
  /\ Goes(m, {}, {i}, Answered(m), "live")

AskedFor(m, c) ==
  /\ entry[m].answered => ~SomebodyWaits(c)
  /\ fate[m] = "live" /\ c \in Consumers /\ SameConsumers
  /\ Goes(m, Lines(m), Flights(m), [entry[m] EXCEPT !.replyTo = c], "live")

\* Its holder lets go of it.
LetsGo(c, m) ==
  /\ c \in Consumers /\ fate[m] = "live" /\ entry[m].owner = c
  /\ op[c].msg = m /\ op[c].kind \in {"confirm", "respond", "abandon"} /\ op'[c] # op[c]
  /\ current' = [current EXCEPT ![c] = None] /\ UNCHANGED cstate
  /\ \/ \E f \in {"confirmed", "unconfirmed", "pushed"} : Goes(m, {}, {}, Blank, f)
     \/ \E i \in Instances : /\ Flights(m) = {i} /\ ~SomebodyWaits(entry[m].replyTo)
                             /\ Goes(m, {}, {i}, Answered(m), "live")
     \/ \E i \in Instances : /\ Flights(m) = {i} /\ settings[i].redeliver
                             /\ Goes(m, {i}, {}, [entry[m] EXCEPT !.owner = None], "live")

\* An answer reaches whoever waits for it, or a connection that is gone.
IsHanded(m) ==
  /\ fate[m] \in OverByPush /\ SameConsumers
  /\ \E f \in {"answered", "answerLost"} : Goes(m, Lines(m), Flights(m), entry[m], f)

Move ==
  \/ Stays
  \/ \E c \in Consumers : Freed(c) \/ Closes(c) \/ (\E m \in Messages : LetsGo(c, m) \/ AskedFor(m, c))
  \/ \E m \in Messages : Born(m) \/ GoesOut(m) \/ IsHanded(m)
  \/ \E m \in Messages, i \in Instances :
       Queued(m, i) \/ PutAside(m, i) \/ IsKept(m, i) \/ (\E c \in Consumers : Given(m, i, c))
  \/ \E M \in SUBSET Messages : End(M)

-----------------------------------------------------------------------------
(* What is known of messages before a step *)

\* What is owned is in a dictionary: it was delivered and is not finished.
OwnedAway == \A m \in Messages : entry[m].owner # None => Flights(m) # {}

\* The name of a message leads to the queue it is in.
Found == \A i \in Instances : \A m \in Content(i) : registry[entry[m].home] = i

MessageInv == TypeInv /\ AnswersAway /\ OwnedAway /\ Found

\* The parts of it.
LEMMA MessageTypes ==
  ASSUME MessageInv
  PROVE  /\ TypeInv /\ AnswersAway /\ OwnedAway /\ Found
         /\ entry \in [Messages -> Entries] /\ fate \in [Messages -> Fates]
         /\ pending \in [Instances -> Seq(Messages)] /\ inFlight \in [Instances -> SUBSET Messages]
         /\ cstate \in [Consumers -> {"free", "busy", "closed"}]
         /\ current \in [Consumers -> [home : Names, msg : Messages] \union {None}]
         /\ op \in [Threads -> Ops] /\ now \in Nat
         /\ \A i \in Instances : IsInjective(pending[i])
  BY DEF MessageInv, TypeInv, TypeOK, Places, OnePlaceEach

-----------------------------------------------------------------------------
(* Where a message is *)

\* It is in one queue, there in one place, and live.
LEMMA WhereItIs ==
  ASSUME TypeInv, NEW i \in Instances, NEW m \in Content(i)
  PROVE  /\ m \in Messages /\ fate[m] = "live" /\ entry[m] \in Entries
         /\ m \in inFlight[i] => Lines(m) = {} /\ Flights(m) = {i}
         /\ m \notin inFlight[i] => Lines(m) = {i} /\ Flights(m) = {} /\ m \in ToSet(pending[i])
<1>1. m \in Messages /\ fate[m] = "live" /\ entry[m] \in Entries
  BY OwnedIsLive
<1>2. \A j \in Instances : j # i => m \notin Content(j)
  BY DEF TypeInv, Places, OnePlaceEach
<1>3. \A j \in Instances : m \in Content(j) <=> m \in ToSet(pending[j]) \/ m \in inFlight[j]
  BY DEF Content
<1>4. m \in inFlight[i] => m \notin ToSet(pending[i])
  BY DEF TypeInv, Places, OnePlaceEach
<1> QED BY <1>1, <1>2, <1>3, <1>4 DEF Lines, Flights, InLine, InAir

\* A message that is not live is in no queue.
LEMMA NowhereUnlessLive ==
  ASSUME TypeInv, NEW m \in Messages, fate[m] # "live"
  PROVE  Lines(m) = {} /\ Flights(m) = {}
  BY DEF TypeInv, Places, OnePlaceEach, Content, Lines, Flights, InLine, InAir

\* No queue but i changes.
OnlyIn(i) == \A j \in Instances \ {i} : pending'[j] = pending[j] /\ inFlight'[j] = inFlight[j]

\* Where a message is then depends on what is in i.
LEMMA OneQueue ==
  ASSUME NEW i \in Instances, OnlyIn(i), NEW x
  PROVE  /\ InLine(pending', x) = (InLine(pending, x) \ {i}) \union (IF x \in ToSet(pending'[i]) THEN {i} ELSE {})
         /\ InAir(inFlight', x) = (InAir(inFlight, x) \ {i}) \union (IF x \in inFlight'[i] THEN {i} ELSE {})
  BY DEF InLine, InAir, OnlyIn

\* What is not in M is where it was.
LEMMA OneQueueFor ==
  ASSUME NEW i \in Instances, OnlyIn(i), NEW M,
         \A x \in Messages \ M : /\ (x \in ToSet(pending'[i]) <=> x \in ToSet(pending[i]))
                                 /\ (x \in inFlight'[i] <=> x \in inFlight[i])
                                 /\ entry'[x] = entry[x] /\ fate'[x] = fate[x]
  PROVE  Elsewhere(M)
<1>1. \A x \in Messages \ M : Lines(x)' = Lines(x) /\ Flights(x)' = Flights(x)
  BY DEF Lines, Flights, InLine, InAir, OnlyIn
<1> QED BY <1>1 DEF Elsewhere

\* The queue i is given a line and a dictionary.
LEMMA OnlyThere ==
  ASSUME TypeInv, NEW i \in Instances, NEW p, NEW f,
         pending' = [pending EXCEPT ![i] = p], inFlight' = [inFlight EXCEPT ![i] = f]
  PROVE  OnlyIn(i) /\ pending'[i] = p /\ inFlight'[i] = f
  BY DEF TypeInv, TypeOK, OnlyIn

-----------------------------------------------------------------------------
(* Steps that move no message *)

\* What is left as it was is where it was.
LEMMA NothingMoves ==
  ASSUME UNCHANGED << pending, inFlight, entry, fate >>
  PROVE  Elsewhere({})
  BY DEF Elsewhere, Lines, Flights, InLine, InAir

\* A step that leaves the methods' variables alone moves nothing.
LEMMA QuietMove ==
  ASSUME \/ UNCHANGED bodyVars
         \/ UNCHANGED << pending, inFlight, entry, fate, consumerVars >>
         \/ UNCHANGED << pending, inFlight, messageVars, cstate, current >>
  PROVE  Move
  BY NothingMoves DEF Move, Stays, SameConsumers, bodyVars, messageVars, consumerVars

\* What is asked of the broker, apart from publishing and leaving it.
LEMMA AskingMoves ==
  ASSUME Start,
         ~ \E t \in Consumers \union Callers, n \in Names, m \in Messages, k \in Kinds : Publish(t, n, m, k),
         ~ \E c \in Consumers : Disconnect(c),
         ~ \E t \in Callers, n \in Names, m, x \in Messages : Requeue(t, n, m, x)
  PROVE  Move
<1>1. UNCHANGED << pending, inFlight, entry, fate, cstate, current >>
  BY DEF Start, Bind, Unbind, Confirm, Respond, Settle, Await, Take, RespondLate, Collect, Configure, SetPaused,
         Purge, DiscardDeadLetters, DiscardDeadLetter, Discard, StartSweep, bodyVars, messageVars, queueVars,
         consumerVars
<1> QED BY <1>1, NothingMoves DEF Move, Stays, SameConsumers

\* Steps of calls between the methods of the queues.
LEMMA BetweenMoves ==
  ASSUME NEW t \in Threads,
         \/ Lookup(t) \/ ReadSettings(t) \/ Unregister(t) \/ DispatchLocked(t) \/ DispatchFinds(t) \/ ScanBusy(t)
         \/ HandDone(t) \/ Rotate(t) \/ FreeNext(t) \/ FreeEnds(t) \/ LeaveNext(t) \/ LeaveLast(t)
         \/ Reread(t) \/ AssignSettings(t) \/ PauseWrites(t)
         \/ SweepNext(t) \/ SweepEnters(t) \/ SweepSkips(t) \/ Retire(t)
  PROVE  Move
<1>1. UNCHANGED bodyVars
  BY DEF Lookup, ReadSettings, Unregister, DispatchLocked, DispatchFinds, ScanBusy, HandDone, Rotate, FreeNext,
         FreeEnds, LeaveNext, LeaveLast, Reread, AssignSettings, PauseWrites, SweepNext, SweepEnters, SweepSkips,
         Retire
<1> QED BY <1>1, QuietMove

\* Methods that end, or change who is bound, or look whether the queue is empty.
LEMMA MethodMoves ==
  ASSUME NEW t \in Threads,
         \/ BindLocked(t) \/ UnbindLocked(t) \/ DispatchEnds(t) \/ ScanEnds(t) \/ TakeEnters(t)
         \/ Complete(t) \/ SweepEnds(t)
  PROVE  Move
<1>1. UNCHANGED << pending, inFlight, entry, fate, cstate, current >>
  BY DEF BindLocked, AddConsumer, UnbindLocked, RemoveConsumer, DispatchEnds, ScanEnds, FinishDispatch, OnlyTracks,
         TakeEnters, Complete, SweepEnds, bodyVars, contentVars, messageVars, queueVars, consumerVars
<1> QED BY <1>1, NothingMoves DEF Move, Stays, SameConsumers

\* A consumer is free again, or closes.
LEMMA ConsumerMoves ==
  ASSUME TypeInv, NEW t \in Threads, Release(t) \/ (t \in Consumers /\ Disconnect(t))
  PROVE  Move
<1>1. Elsewhere({})
  BY NothingMoves DEF Release, Disconnect, queueVars, messageVars
<1>2. t \in Consumers
  BY CallType DEF Release, Fits, ByConsumers
<1>3. CASE Release(t)
  <2>1. op'[t].pc = "rotate"
    BY <1>3, CallType DEF Release, Goto, Ops
  <2> QED BY <1>1, <1>2, <1>3, <2>1 DEF Release, Move, Freed
<1>4. CASE Disconnect(t)
  BY <1>1, <1>2, <1>4 DEF Disconnect, Move, Closes
<1> QED BY <1>3, <1>4

-----------------------------------------------------------------------------
(* A message is born and joins the line *)

\* A message is written down, with no owner and no answer.
LEMMA BornMoves ==
  ASSUME TypeInv, NEW t \in Threads,
         \/ \E n \in Names, m \in Messages, k \in Kinds : Publish(t, n, m, k)
         \/ \E n \in Names, m, x \in Messages : Requeue(t, n, m, x)
  PROVE  Move
<1>1. PICK m \in Messages : \E e : /\ fate[m] = "unborn" /\ e.owner = None /\ ~e.answered
                                   /\ entry' = [entry EXCEPT ![m] = e] /\ fate' = [fate EXCEPT ![m] = "sent"]
                                   /\ UNCHANGED << pending, inFlight, cstate, current >>
  <2>1. ASSUME NEW n \in Names, NEW m \in Messages, NEW k \in Kinds, Publish(t, n, m, k)
        PROVE  \E e : /\ fate[m] = "unborn" /\ e.owner = None /\ ~e.answered
                      /\ entry' = [entry EXCEPT ![m] = e] /\ fate' = [fate EXCEPT ![m] = "sent"]
                      /\ UNCHANGED << pending, inFlight, cstate, current >>
    <3> DEFINE e == [Blank EXCEPT !.home = n, !.rpc = k.rpc, !.ttl = k.ttl,
                                  !.replyTo = IF k.rpc /\ t \in Consumers THEN t ELSE None]
    <3>1. e.owner = None /\ ~e.answered
      BY DEF Blank
    <3>2. entry' = [entry EXCEPT ![m] = e] /\ fate' = [fate EXCEPT ![m] = "sent"] /\ fate[m] = "unborn"
          /\ UNCHANGED << pending, inFlight, cstate, current >>
      BY <2>1 DEF Publish, Becomes, queueVars, consumerVars
    <3> HIDE DEF e
    <3> QED BY <3>1, <3>2
  <2>2. ASSUME NEW n \in Names, NEW x \in Messages, NEW m \in Messages, Requeue(t, n, x, m)
        PROVE  \E e : /\ fate[m] = "unborn" /\ e.owner = None /\ ~e.answered
                      /\ entry' = [entry EXCEPT ![m] = e] /\ fate' = [fate EXCEPT ![m] = "sent"]
                      /\ UNCHANGED << pending, inFlight, cstate, current >>
    <3> DEFINE e == [Blank EXCEPT !.home = n, !.rpc = Letter(dead[n], x).rpc]
    <3>1. e.owner = None /\ ~e.answered
      BY DEF Blank
    <3>2. entry' = [entry EXCEPT ![m] = e] /\ fate' = [fate EXCEPT ![m] = "sent"] /\ fate[m] = "unborn"
          /\ UNCHANGED << pending, inFlight, cstate, current >>
      BY <2>2 DEF Requeue, Becomes, queueVars, consumerVars
    <3> HIDE DEF e
    <3> QED BY <3>1, <3>2
  <2> QED BY <2>1, <2>2
<1>2. entry \in [Messages -> Entries] /\ fate \in [Messages -> Fates]
  BY DEF TypeInv, TypeOK
<1>3. Born(m)
  BY <1>1, <1>2 DEF Born, Goes, Elsewhere, Lines, Flights, InLine, InAir, SameConsumers
<1> QED BY <1>3 DEF Move

\* What is sent joins the end of the line; what was retired takes nothing.
LEMMA JoinMoves ==
  ASSUME TypeInv, NEW t \in Threads, TryPublish(t)
  PROVE  Move
<1>0. PICK i, m : i = op[t].inst /\ m = op[t].msg
  OBVIOUS
<1>1. CASE UNCHANGED bodyVars
  BY <1>1, QuietMove
<1>2. CASE ~removed[i] /\ Accept(i, m)
  <2>1. i \in Instances /\ m \in Messages /\ fate[m] = "sent" /\ Lines(m) = {} /\ Flights(m) = {}
        /\ \A j \in Instances : m \notin Content(j)
    <3>1. i \in Instances /\ Joins(op[t])
      BY <1>0, CallType DEF TryPublish, At, Joins, Fits, InQueue
    <3> QED BY <1>0, <3>1, JoiningIsSent DEF Content, Lines, Flights, InLine, InAir
  <2>2. /\ entry' = [entry EXCEPT ![m].born = now] /\ fate' = [fate EXCEPT ![m] = "live"]
        /\ pending' = [pending EXCEPT ![i] = Append(pending[i], m)]
        /\ UNCHANGED << inFlight, cstate, current >>
    BY <1>2 DEF Accept, Becomes
  <2>3. /\ pending \in [Instances -> Seq(Messages)] /\ inFlight'[i] = inFlight[i]
        /\ entry \in [Messages -> Entries] /\ fate \in [Messages -> Fates]
    BY <2>1, <2>2 DEF TypeInv, TypeOK
  <2>4. pending'[i] = Append(pending[i], m) /\ OnlyIn(i)
    BY <2>1, <2>2, <2>3 DEF OnlyIn
  <2>5. ToSet(pending'[i]) = ToSet(pending[i]) \union {m}
    BY <2>1, <2>3, <2>4, AppendElements
  <2>6. Elsewhere({m}) /\ Lines(m)' = {i} /\ Flights(m)' = {}
    <3>1. m \in ToSet(pending'[i]) /\ m \notin inFlight'[i]
      BY <2>1, <2>3, <2>5 DEF Content
    <3>2. \A x \in Messages \ {m} : /\ (x \in ToSet(pending'[i]) <=> x \in ToSet(pending[i]))
                                    /\ (x \in inFlight'[i] <=> x \in inFlight[i])
                                    /\ entry'[x] = entry[x] /\ fate'[x] = fate[x]
      BY <2>2, <2>3, <2>5
    <3>3. Elsewhere({m})
      BY <2>1, <2>4, <3>2, OneQueueFor
    <3>4. /\ InLine(pending', m) = (InLine(pending, m) \ {i}) \union {i}
          /\ InAir(inFlight', m) = InAir(inFlight, m) \ {i}
      BY <2>1, <2>4, <3>1, OneQueue
    <3> QED BY <2>1, <3>3, <3>4 DEF Lines, Flights
  <2>7. Queued(m, i)
    <3>1. At(t, "gate", {"publish"}) /\ ~removed[i]
      BY <1>2 DEF TryPublish
    <3> QED BY <1>0, <2>1, <2>2, <2>3, <2>6, <3>1 DEF Queued, Goes, SameConsumers
  <2> QED BY <2>1, <2>7 DEF Move
<1> QED BY <1>0, <1>1, <1>2 DEF TryPublish

-----------------------------------------------------------------------------
(* A message dies in the line, or leaves it *)

\* A message of the line has no owner.
LEMMA OfLine ==
  ASSUME MessageInv, NEW i \in Instances, NEW m \in ToSet(pending[i])
  PROVE  /\ m \in Messages /\ fate[m] = "live" /\ Lines(m) = {i} /\ Flights(m) = {} /\ m \notin inFlight[i]
         /\ entry[m].owner = None /\ ~entry[m].answered
<1>1. m \in Content(i) /\ m \notin inFlight[i]
  BY DEF Content, MessageInv, TypeInv, Places, OnePlaceEach
<1>2. m \in Messages /\ fate[m] = "live" /\ Lines(m) = {i} /\ Flights(m) = {}
  BY <1>1, WhereItIs, MessageTypes
<1> QED BY <1>1, <1>2, MessageTypes DEF OwnedAway, AnswersAway

\* A message of the dictionary.
LEMMA OfDictionary ==
  ASSUME MessageInv, NEW i \in Instances, NEW m \in inFlight[i]
  PROVE  /\ m \in Messages /\ fate[m] = "live" /\ Lines(m) = {} /\ Flights(m) = {i} /\ m \notin ToSet(pending[i])
         /\ entry[m] \in Entries
<1>1. m \in Content(i) /\ m \notin ToSet(pending[i])
  BY DEF Content, MessageInv, TypeInv, Places, OnePlaceEach
<1> QED BY <1>1, WhereItIs, MessageTypes

\* Some messages nobody holds leave their queue for good.
LEMMA EndMoves ==
  ASSUME MessageInv, NEW i \in Instances, OnlyIn(i), NEW M \in SUBSET Content(i),
         ToSet(pending'[i]) = ToSet(pending[i]) \ M, inFlight'[i] = inFlight[i] \ M,
         \A m \in M : entry[m].owner = None /\ entry'[m] = Blank /\ fate'[m] \in Ended,
         \A x \in Messages \ M : entry'[x] = entry[x] /\ fate'[x] = fate[x],
         SameConsumers
  PROVE  Move
<1>0. \A x \in Messages \ M : /\ (x \in ToSet(pending'[i]) <=> x \in ToSet(pending[i]))
                               /\ (x \in inFlight'[i] <=> x \in inFlight[i])
                               /\ entry'[x] = entry[x] /\ fate'[x] = fate[x]
  OBVIOUS
<1>1. Elsewhere(M)
  BY <1>0, OneQueueFor
<1>2. \A m \in M : /\ m \in Messages /\ fate[m] = "live"
                   /\ Lines(m) \subseteq {i} /\ Flights(m) \subseteq {i}
  BY WhereItIs, MessageTypes
<1>3. \A m \in M : Lines(m)' = {} /\ Flights(m)' = {}
  <2>1. ASSUME NEW m \in M
        PROVE  InLine(pending', m) = InLine(pending, m) \ {i} /\ InAir(inFlight', m) = InAir(inFlight, m) \ {i}
    <3>1. m \notin ToSet(pending'[i]) /\ m \notin inFlight'[i]
      OBVIOUS
    <3> QED BY <3>1, OneQueue
  <2> QED BY <1>2, <2>1 DEF Lines, Flights
<1>4. End(M)
  BY <1>1, <1>2, <1>3 DEF End
<1> QED BY <1>2, <1>4 DEF Move

\* One message does.
LEMMA OneEnds ==
  ASSUME MessageInv, NEW i \in Instances, NEW m \in Content(i), entry[m].owner = None,
         pending' = [pending EXCEPT ![i] = IF m \in inFlight[i] THEN @ ELSE RemoveFirst(@, m)],
         inFlight' = [inFlight EXCEPT ![i] = @ \ {m}],
         Forget(m), NEW f \in Ended, Becomes(m, f), SameConsumers
  PROVE  Move
<1>1. /\ OnlyIn(i) /\ inFlight'[i] = inFlight[i] \ {m}
      /\ pending'[i] = IF m \in inFlight[i] THEN pending[i] ELSE RemoveFirst(pending[i], m)
  BY MessageTypes DEF OnlyIn
<1>2. ToSet(pending'[i]) = ToSet(pending[i]) \ {m}
  <2>1. m \in inFlight[i] => m \notin ToSet(pending[i])
    BY OfDictionary
  <2>2. ToSet(RemoveFirst(pending[i], m)) = ToSet(pending[i]) \ {m}
    BY RemoveFirstElements, MessageTypes
  <2> QED BY <1>1, <2>1, <2>2
<1>3. m \in Messages
  BY WhereItIs, MessageTypes
<1>4. /\ \A x \in {m} : entry[x].owner = None /\ entry'[x] = Blank /\ fate'[x] \in Ended
      /\ \A x \in Messages \ {m} : entry'[x] = entry[x] /\ fate'[x] = fate[x]
      /\ {m} \in SUBSET Content(i)
  BY <1>3, MessageTypes DEF Forget, Becomes
<1> QED BY <1>1, <1>2, <1>4, EndMoves

\* Dead messages of the line are buried, by Dispatch, Take or the sweep.
LEMMA BuryMoves ==
  ASSUME MessageInv, NEW t \in Threads, DispatchBuries(t) \/ TakeBuries(t) \/ SweepBuries(t)
  PROVE  Move
<1>0. PICK i : i = op[t].inst
  OBVIOUS
<1>1. i \in Instances /\ (SweepBuries(t) => op[t].scan >= 1)
  BY <1>0, CallType, MessageTypes DEF DispatchBuries, TakeBuries, SweepBuries, Looking, Fits, InQueue
<1>2. PICK m \in ToSet(pending[i]) : BuryPending(i, m)
  <2>1. pending[i] \in Seq(Messages)
    BY <1>1, MessageTypes
  <2>2. CASE DispatchBuries(t) \/ TakeBuries(t)
    BY <1>0, <2>1, <2>2, TailElements DEF DispatchBuries, TakeBuries, BuryHead
  <2>3. CASE SweepBuries(t)
    <3>1. op[t].scan \in 1 .. Len(pending[i])
      BY <1>0, <1>1, <2>1, <2>3, CallType, MessageTypes DEF SweepBuries
    <3>2. pending[i][op[t].scan] \in ToSet(pending[i])
      BY <2>1, <3>1 DEF ToSet
    <3> QED BY <1>0, <2>3, <3>2 DEF SweepBuries, SweepPending
  <2> QED BY <2>2, <2>3
<1>3. UNCHANGED << inFlight, cstate, current >>
  BY DEF DispatchBuries, TakeBuries, SweepBuries, BuryHead, SweepPending
<1>4. m \in Content(i) /\ m \notin inFlight[i] /\ entry[m].owner = None
  BY <1>1, <1>2, OfLine DEF Content
<1>5. /\ pending' = [pending EXCEPT ![i] = RemoveFirst(@, m)] /\ Forget(m) /\ Becomes(m, DeathOf(m))
      /\ DeathOf(m) \in Ended
  BY <1>2 DEF BuryPending, Bury, DeathOf, Ended
<1>6. /\ inFlight' = [inFlight EXCEPT ![i] = @ \ {m}] /\ SameConsumers
      /\ pending' = [pending EXCEPT ![i] = IF m \in inFlight[i] THEN @ ELSE RemoveFirst(@, m)]
  BY <1>1, <1>3, <1>4, <1>5, MessageTypes DEF SameConsumers
<1> QED BY <1>1, <1>4, <1>5, <1>6, OneEnds

\* All the rest being as it was, one message is where the queue has it now.
LEMMA OneGoes ==
  ASSUME NEW i \in Instances, OnlyIn(i), NEW m \in Messages, Lines(m) \subseteq {i}, Flights(m) \subseteq {i},
         \A x \in Messages \ {m} : /\ (x \in ToSet(pending'[i]) <=> x \in ToSet(pending[i]))
                                   /\ (x \in inFlight'[i] <=> x \in inFlight[i])
                                   /\ entry'[x] = entry[x] /\ fate'[x] = fate[x]
  PROVE  Goes(m, IF m \in ToSet(pending'[i]) THEN {i} ELSE {}, IF m \in inFlight'[i] THEN {i} ELSE {},
              entry'[m], fate'[m])
<1>1. Elsewhere({m})
  BY OneQueueFor
<1>2. /\ InLine(pending', m) = (InLine(pending, m) \ {i}) \union (IF m \in ToSet(pending'[i]) THEN {i} ELSE {})
      /\ InAir(inFlight', m) = (InAir(inFlight, m) \ {i}) \union (IF m \in inFlight'[i] THEN {i} ELSE {})
  BY OneQueue
<1>3. /\ Lines(m)' = IF m \in ToSet(pending'[i]) THEN {i} ELSE {}
      /\ Flights(m)' = IF m \in inFlight'[i] THEN {i} ELSE {}
  BY <1>2 DEF Lines, Flights
<1> QED BY <1>1, <1>3 DEF Goes

\* A message leaves the line for the dictionary.
LEMMA OutOfLine ==
  ASSUME MessageInv, NEW i \in Instances, NEW m \in ToSet(pending[i]),
         \/ pending' = [pending EXCEPT ![i] = RemoveFirst(pending[i], m)]
         \/ pending[i] # <<>> /\ m = Head(pending[i]) /\ pending' = [pending EXCEPT ![i] = Tail(pending[i])],
         inFlight' = [inFlight EXCEPT ![i] = @ \union {m}],
         \A x \in Messages \ {m} : entry'[x] = entry[x] /\ fate'[x] = fate[x]
  PROVE  Goes(m, {}, {i}, entry'[m], fate'[m])
<1>1. OnlyIn(i) /\ inFlight'[i] = inFlight[i] \union {m}
  BY MessageTypes DEF OnlyIn
<1>2. ToSet(pending'[i]) = ToSet(pending[i]) \ {m}
  <2>1. /\ ToSet(RemoveFirst(pending[i], m)) = ToSet(pending[i]) \ {m}
    BY RemoveFirstElements, MessageTypes
  <2>2. pending[i] # <<>> => ToSet(Tail(pending[i])) = ToSet(pending[i]) \ {Head(pending[i])}
    BY TailElements, MessageTypes
  <2> QED BY <2>1, <2>2, MessageTypes
<1>3. m \in Messages /\ Lines(m) \subseteq {i} /\ Flights(m) \subseteq {i}
  BY OfLine
<1>4. \A x \in Messages \ {m} : /\ (x \in ToSet(pending'[i]) <=> x \in ToSet(pending[i]))
                                /\ (x \in inFlight'[i] <=> x \in inFlight[i])
                                /\ entry'[x] = entry[x] /\ fate'[x] = fate[x]
  BY <1>1, <1>2
<1>5. m \notin ToSet(pending'[i]) /\ m \in inFlight'[i]
  BY <1>1, <1>2
<1> QED BY <1>1, <1>3, <1>4, <1>5, OneGoes

\* Who is next is one of the bound consumers.
LEMMA CandidateType ==
  ASSUME TypeInv, NEW i \in Instances, NEW k \in Nat, k < Len(bound[i])
  PROVE  bound[i][Candidate(i, k)] \in Consumers
<1>1. bound[i] \in Seq(Consumers) /\ nextConsumer[i] \in Nat /\ Len(bound[i]) \in Nat /\ Len(bound[i]) > 0
  BY DEF TypeInv, TypeOK
<1>2. Candidate(i, k) \in 1 .. Len(bound[i])
  <2> DEFINE n == nextConsumer[i]
             len == Len(bound[i])
  <2>1. n \in Nat /\ len \in Nat /\ len > 0 /\ Candidate(i, k) = ((n + k) % len) + 1
    BY <1>1 DEF Candidate
  <2> HIDE DEF n, len
  <2>2. Candidate(i, k) \in 1 .. len
    BY <2>1, TurnType
  <2> QED BY <2>2 DEF len
<1> QED BY <1>1, <1>2

\* The head of the line goes to a free consumer.
LEMMA AcquireMoves ==
  ASSUME MessageInv, NEW t \in Threads, ScanAcquires(t)
  PROVE  Move
<1>0. PICK i, k, m : i = op[t].inst /\ k = op[t].scan /\ m = Head(pending[i])
  OBVIOUS
<1>1. PICK c : c = bound[i][Candidate(i, k)]
  OBVIOUS
<1>2. i \in Instances /\ k \in Nat /\ k < Len(bound[i]) /\ Assign(i, k)
  BY <1>0, CallType, MessageTypes DEF ScanAcquires, Fits, InQueue
<1>3. c \in Consumers
  BY <1>1, <1>2, CandidateType, MessageTypes
<1>4. /\ pending[i] # <<>> /\ cstate[c] = "free"
      /\ cstate' = [cstate EXCEPT ![c] = "busy"]
      /\ pending' = [pending EXCEPT ![i] = Tail(pending[i])]
      /\ inFlight' = [inFlight EXCEPT ![i] = @ \union {m}]
      /\ entry' = [entry EXCEPT ![m].owner = c]
      /\ current' = [current EXCEPT ![c] = [home |-> entry[m].home, msg |-> m]]
      /\ fate' = fate
  BY <1>0, <1>1, <1>2 DEF Assign
<1>5. m \in ToSet(pending[i])
  BY <1>0, <1>2, <1>4, TailElements, MessageTypes
<1>6. m \in Messages /\ fate[m] = "live" /\ Lines(m) = {i}
  BY <1>2, <1>5, OfLine
<1>7. /\ \A x \in Messages \ {m} : entry'[x] = entry[x] /\ fate'[x] = fate[x]
      /\ entry'[m] = [entry[m] EXCEPT !.owner = c] /\ fate'[m] = "live"
  BY <1>4, <1>6, MessageTypes
<1>8. Goes(m, {}, {i}, entry'[m], fate'[m])
  BY <1>0, <1>2, <1>4, <1>5, <1>7, OutOfLine
<1>9. Given(m, i, c)
  BY <1>3, <1>4, <1>6, <1>7, <1>8 DEF Given
<1> QED BY <1>2, <1>3, <1>6, <1>9 DEF Move

\* The head of the line is taken.
LEMMA TakeMoves ==
  ASSUME MessageInv, NEW t \in Threads, TakeReturns(t)
  PROVE  Move
<1>0. PICK i, m : i = op[t].inst /\ m = Head(pending[i])
  OBVIOUS
<1>1. i \in Instances
  BY <1>0, CallType, MessageTypes DEF TakeReturns, Fits, InQueue
<1>2. CASE OnlyTracks(i)
  BY <1>2, QuietMove DEF OnlyTracks
<1>3. CASE TakeHead(i)
  <2>1. /\ pending[i] # <<>> /\ pending' = [pending EXCEPT ![i] = Tail(pending[i])] /\ SameConsumers
    BY <1>3 DEF TakeHead, HeadIsDeliverable, SameConsumers
  <2>2. m \in ToSet(pending[i]) /\ ToSet(Tail(pending[i])) = ToSet(pending[i]) \ {m}
    BY <1>0, <1>1, <2>1, TailElements, MessageTypes
  <2>3. m \in Messages /\ fate[m] = "live" /\ Lines(m) = {i} /\ entry[m].owner = None /\ m \notin inFlight[i]
    BY <1>1, <2>2, OfLine
  <2>4. CASE entry[m].rpc
    <3>1. inFlight' = [inFlight EXCEPT ![i] = @ \union {m}] /\ UNCHANGED << entry, fate >>
      BY <1>0, <1>3, <2>4 DEF TakeHead
    <3>2. Goes(m, {}, {i}, entry'[m], fate'[m])
      BY <1>0, <1>1, <2>1, <2>2, <3>1, OutOfLine
    <3>3. PutAside(m, i)
      BY <2>1, <2>3, <3>1, <3>2 DEF PutAside
    <3> QED BY <1>1, <2>3, <3>3 DEF Move
  <2>5. CASE ~entry[m].rpc
    <3>1. /\ entry' = [entry EXCEPT ![m] = Blank] /\ fate' = [fate EXCEPT ![m] = "taken"] /\ inFlight' = inFlight
      BY <1>0, <1>3, <2>5 DEF TakeHead, Forget, Becomes
    <3>2. /\ OnlyIn(i) /\ inFlight'[i] = inFlight[i] \ {m} /\ ToSet(pending'[i]) = ToSet(pending[i]) \ {m}
      BY <1>1, <2>1, <2>2, <2>3, <3>1, MessageTypes DEF OnlyIn
    <3>3. /\ \A x \in {m} : entry[x].owner = None /\ entry'[x] = Blank /\ fate'[x] \in Ended
          /\ \A x \in Messages \ {m} : entry'[x] = entry[x] /\ fate'[x] = fate[x]
          /\ {m} \in SUBSET Content(i)
      BY <2>2, <2>3, <3>1, MessageTypes DEF Ended, Content
    <3> QED BY <1>1, <2>1, <3>2, <3>3, EndMoves
  <2> QED BY <2>4, <2>5
<1> QED BY <1>0, <1>2, <1>3 DEF TakeReturns

\* Something is handed over.
LEMMA HandMoves ==
  ASSUME MessageInv, NEW t \in Threads, HandOver(t)
  PROVE  Move
<1>0. PICK m : m = Head(op[t].out).msg
  OBVIOUS
<1>1. UNCHANGED << pending, inFlight, entry, cstate, current >>
  BY DEF HandOver, queueVars, consumerVars
<1>2. CASE fate' = fate
  BY <1>1, <1>2, NothingMoves DEF Move, Stays, SameConsumers
<1>3. CASE fate' # fate
  <2>1. /\ Head(op[t].out).response /\ \E f \in {"answered", "answerLost"} : fate' = [fate EXCEPT ![m] = f]
        /\ op[t].out # <<>>
    BY <1>0, <1>3 DEF HandOver, Becomes
  <2>2. op[t].out \in Seq(Handed) /\ AnswersOver
    BY CallType, MessageTypes DEF TypeInv, Places
  <2>3. 1 \in DOMAIN op[t].out /\ Head(op[t].out) = op[t].out[1]
    BY <2>1, <2>2, EmptySeq
  <2>4. m \in Messages /\ fate[m] \in OverByPush
    BY <1>0, <2>1, <2>2, <2>3, HandedElement DEF AnswersOver
  <2>5. /\ Elsewhere({m}) /\ Lines(m)' = Lines(m) /\ Flights(m)' = Flights(m)
        /\ entry'[m] = entry[m] /\ fate'[m] \in {"answered", "answerLost"}
    BY <1>1, <2>1, <2>4, MessageTypes DEF Elsewhere, Lines, Flights
  <2>6. IsHanded(m)
    BY <1>1, <2>4, <2>5 DEF IsHanded, Goes, SameConsumers
  <2> QED BY <2>4, <2>6 DEF Move
<1> QED BY <1>2, <1>3

-----------------------------------------------------------------------------
(* Answers, confirmations and what a connection leaves behind *)

\* What is found in the dictionary is not taken out of the line, which is not there then.
TakenOut(i, m) == pending' = [pending EXCEPT ![i] = IF m \in inFlight[i] THEN @ ELSE RemoveFirst(@, m)]

\* A message taken out of its queue leaves it, and the other queues and lines are as they were.
LEMMA WhatIsTakenOut ==
  ASSUME MessageInv, NEW i \in Instances, NEW m \in Content(i),
         TakenOut(i, m) \/ (m \in inFlight[i] /\ UNCHANGED pending)
  PROVE  /\ TakenOut(i, m)
         /\ \A j \in Instances \ {i} : pending'[j] = pending[j]
         /\ ToSet(pending'[i]) = ToSet(pending[i]) \ {m}
         /\ m \in Messages /\ Lines(m) \union Flights(m) = {i} /\ fate[m] = "live"
<1>1. TakenOut(i, m)
  BY MessageTypes DEF TakenOut
<1>2. pending'[i] = IF m \in inFlight[i] THEN pending[i] ELSE RemoveFirst(pending[i], m)
  BY <1>1, MessageTypes DEF TakenOut
<1>3. m \in inFlight[i] => m \notin ToSet(pending[i])
  BY OfDictionary
<1>4. ToSet(RemoveFirst(pending[i], m)) = ToSet(pending[i]) \ {m}
  BY RemoveFirstElements, MessageTypes
<1>5. m \in Messages /\ Lines(m) \union Flights(m) = {i} /\ fate[m] = "live"
  BY WhereItIs, MessageTypes
<1>6. \A j \in Instances \ {i} : pending'[j] = pending[j]
  BY <1>1, MessageTypes DEF TakenOut
<1> QED BY <1>1, <1>2, <1>3, <1>4, <1>5, <1>6

\* A message that is finished is nowhere.
LEMMA FinishedGoes ==
  ASSUME MessageInv, NEW i \in Instances, NEW m \in Content(i),
         TakenOut(i, m) \/ (m \in inFlight[i] /\ UNCHANGED pending),
         inFlight' = [inFlight EXCEPT ![i] = @ \ {m}], Forget(m), NEW f, Becomes(m, f)
  PROVE  Goes(m, {}, {}, Blank, f)
<1>1. OnlyIn(i) /\ inFlight'[i] = inFlight[i] \ {m}
  BY WhatIsTakenOut, MessageTypes DEF OnlyIn
<1>2. ToSet(pending'[i]) = ToSet(pending[i]) \ {m} /\ m \in Messages /\ Lines(m) \subseteq {i} /\ Flights(m) \subseteq {i}
  BY WhatIsTakenOut
<1>3. \A x \in Messages \ {m} : /\ (x \in ToSet(pending'[i]) <=> x \in ToSet(pending[i]))
                                /\ (x \in inFlight'[i] <=> x \in inFlight[i])
                                /\ entry'[x] = entry[x] /\ fate'[x] = fate[x]
  BY <1>1, <1>2, MessageTypes DEF Forget, Becomes
<1>4. m \notin ToSet(pending'[i]) /\ m \notin inFlight'[i] /\ entry'[m] = Blank /\ fate'[m] = f
  BY <1>1, <1>2, MessageTypes DEF Forget, Becomes
<1> QED BY <1>1, <1>2, <1>3, <1>4, OneGoes

\* One that keeps its answer is in the dictionary.
LEMMA KeptGoes ==
  ASSUME MessageInv, NEW i \in Instances, NEW m \in Content(i),
         TakenOut(i, m) \/ (m \in inFlight[i] /\ UNCHANGED pending), KeepAnswer(i, m)
  PROVE  Goes(m, {}, {i}, Answered(m), "live")
<1>1. /\ OnlyIn(i) /\ inFlight'[i] = inFlight[i] \union {m}
  BY WhatIsTakenOut, MessageTypes DEF OnlyIn, KeepAnswer
<1>2. /\ ToSet(pending'[i]) = ToSet(pending[i]) \ {m} /\ m \in Messages /\ fate[m] = "live"
      /\ Lines(m) \subseteq {i} /\ Flights(m) \subseteq {i}
  BY WhatIsTakenOut
<1>3. entry' = [entry EXCEPT ![m] = Answered(m)] /\ fate' = fate
  BY DEF KeepAnswer
<1>4. \A x \in Messages \ {m} : /\ (x \in ToSet(pending'[i]) <=> x \in ToSet(pending[i]))
                                /\ (x \in inFlight'[i] <=> x \in inFlight[i])
                                /\ entry'[x] = entry[x] /\ fate'[x] = fate[x]
  BY <1>1, <1>2, <1>3, MessageTypes
<1>5. m \notin ToSet(pending'[i]) /\ m \in inFlight'[i] /\ entry'[m] = Answered(m) /\ fate'[m] = "live"
  BY <1>1, <1>2, <1>3, MessageTypes
<1> QED BY SMTT(30), <1>1, <1>2, <1>4, <1>5, OneGoes

\* What a call that is in the gate with a message knows of it.
LEMMA GateCall ==
  ASSUME MessageInv, NEW t \in Threads, op[t].pc = "gate",
         op[t].kind \in { "respondLate", "collect", "confirm", "respond", "await", "abandon" }
  PROVE  /\ op[t].inst \in Instances /\ op[t].msg \in Messages
         /\ op[t].kind \notin {"respondLate", "collect"} => t \in Consumers
         /\ Reachable(op[t].inst, op[t].msg) => op[t].msg \in Content(op[t].inst)
<1>1. op[t].inst \in Instances /\ op[t].msg \in Messages
  BY CallType, MessageTypes DEF Fits, InQueue
<1>2. op[t].kind \notin {"respondLate", "collect"} => t \in Consumers
  BY CallType, MessageTypes DEF Fits, ByConsumers
<1>3. Reachable(op[t].inst, op[t].msg) => op[t].msg \in Content(op[t].inst)
  BY <1>1, MessageTypes DEF Reachable, Contains, Content, ToSet
<1> QED BY <1>1, <1>2, <1>3

\* A 1.x answer: it is refused, and the message leaves the line all the same, or goes
\* out, or is kept.
LEMMA LateMoves ==
  ASSUME MessageInv, NEW t \in Threads, RespondLateLocked(t)
  PROVE  Move
<1>0. PICK i, m : i = op[t].inst /\ m = op[t].msg
  OBVIOUS
<1>1. i \in Instances /\ m \in Messages /\ (Reachable(i, m) => m \in Content(i))
  BY <1>0, GateCall DEF RespondLateLocked, At
<1>2. CASE UNCHANGED bodyVars
  BY <1>2, QuietMove
<1>3. CASE LateRespondBody(i, m)
  <2>1. TakenOut(i, m) /\ m \in Content(i) /\ SameConsumers
    BY <1>1, <1>3 DEF LateRespondBody, TakenOut, SameConsumers
  <2>2. Lines(m) \union Flights(m) = {i} /\ fate[m] = "live"
    BY <1>1, <2>1, WhatIsTakenOut
  <2>3. CASE m \in inFlight[i] /\ inFlight' = [inFlight EXCEPT ![i] = @ \union {m}] /\ UNCHANGED << entry, fate >>
    <3>1. inFlight' = inFlight /\ pending' = pending
      BY <2>1, <2>3, MessageTypes DEF TakenOut
    <3>2. Stays
      BY <2>1, <2>3, <3>1, NothingMoves DEF Stays
    <3> QED BY <3>2 DEF Move
  <2>4. CASE m \notin inFlight[i] /\ inFlight' = [inFlight EXCEPT ![i] = @ \union {m}] /\ UNCHANGED << entry, fate >>
    <3>1. m \in ToSet(pending[i]) /\ pending' = [pending EXCEPT ![i] = RemoveFirst(pending[i], m)]
      BY <2>1, <2>4, MessageTypes DEF TakenOut, Content
    <3>2. Goes(m, {}, {i}, entry'[m], fate'[m])
      BY <1>1, <2>4, <3>1, OutOfLine
    <3>3. Lines(m) = {i}
      BY <1>1, <3>1, OfLine
    <3>4. PutAside(m, i)
      BY <2>1, <2>2, <2>4, <3>2, <3>3 DEF PutAside
    <3> QED BY <1>1, <3>4 DEF Move
  <2>5. CASE ~RefusesAnswer(i, m) /\ Finish(i, m, "pushed")
    <3>1. Goes(m, {}, {}, Blank, "pushed")
      BY <1>1, <2>1, <2>5, FinishedGoes DEF Finish
    <3>2. GoesOut(m)
      BY <2>1, <2>2, <2>5, <3>1 DEF GoesOut, RefusesAnswer
    <3> QED BY <1>1, <3>2 DEF Move
  <2>6. CASE ~RefusesAnswer(i, m) /\ ~SomebodyWaits(entry[m].replyTo) /\ KeepAnswer(i, m)
    <3>1. Goes(m, {}, {i}, Answered(m), "live")
      BY <1>1, <2>1, <2>6, KeptGoes
    <3>2. IsKept(m, i)
      BY <2>1, <2>2, <2>6, <3>1 DEF IsKept, RefusesAnswer
    <3> QED BY <1>1, <3>2 DEF Move
  <2> QED BY <1>3, <2>3, <2>4, <2>5, <2>6 DEF LateRespondBody
<1> QED BY <1>0, <1>2, <1>3 DEF RespondLateLocked

\* An answer is collected.
LEMMA CollectMoves ==
  ASSUME MessageInv, NEW t \in Threads, CollectLocked(t)
  PROVE  Move
<1>0. PICK i, m : i = op[t].inst /\ m = op[t].msg
  OBVIOUS
<1>1. i \in Instances /\ m \in Messages
  BY <1>0, GateCall DEF CollectLocked, At
<1>2. CASE UNCHANGED bodyVars
  BY <1>2, QuietMove
<1>3. CASE CollectBody(i, m)
  <2>1. m \in inFlight[i] /\ entry[m].answered /\ UNCHANGED pending /\ Finish(i, m, "collected") /\ SameConsumers
    BY <1>3 DEF CollectBody, SameConsumers
  <2>2. m \in Content(i) /\ entry[m].owner = None
    BY <1>1, <2>1, MessageTypes DEF Content, AnswersAway
  <2>3. pending' = [pending EXCEPT ![i] = IF m \in inFlight[i] THEN @ ELSE RemoveFirst(@, m)]
    BY <2>1, MessageTypes
  <2>4. "collected" \in Ended
    BY DEF Ended
  <2> QED BY <1>1, <2>1, <2>2, <2>3, <2>4, OneEnds DEF Finish
<1> QED BY <1>0, <1>2, <1>3 DEF CollectLocked

\* A consumer confirms, answers or abandons the message it holds.
LEMMA SettleMoves ==
  ASSUME MessageInv, NEW t \in Threads, ConfirmLocked(t) \/ RespondLocked(t) \/ AbandonLocked(t)
  PROVE  Move
<1>0. PICK i, m : i = op[t].inst /\ m = op[t].msg
  OBVIOUS
<1>1. i \in Instances /\ m \in Messages /\ t \in Consumers /\ op[t].pc = "gate" /\ op[t] \in Ops
      /\ op[t].kind \in {"confirm", "respond", "abandon"}
  BY <1>0, GateCall, CallType, MessageTypes DEF ConfirmLocked, RespondLocked, AbandonLocked, At
<1>2. CASE UNCHANGED bodyVars
  BY <1>2, QuietMove
<1>3. CASE ConfirmBody(t, i, m) \/ RespondBody(t, i, m) \/ DiesUnconfirmed(t, i, m) \/ GoesBack(t, i, m)
  <2>1. /\ m \in inFlight[i] /\ entry[m].owner = t /\ current' = [current EXCEPT ![t] = None] /\ UNCHANGED cstate
    BY <1>3 DEF ConfirmBody, RespondBody, DiesUnconfirmed, GoesBack, Owns
  <2>2. m \in Content(i) /\ fate[m] = "live" /\ Flights(m) = {i} /\ m \notin ToSet(pending[i]) /\ Lines(m) = {}
        /\ entry[m] \in Entries
    BY <1>1, <2>1, OfDictionary DEF Content
  <2>4. (\E f \in {"confirmed", "unconfirmed", "pushed"} : Goes(m, {}, {}, Blank, f))
        \/ (~SomebodyWaits(entry[m].replyTo) /\ Goes(m, {}, {i}, Answered(m), "live"))
        \/ (settings[i].redeliver /\ Goes(m, {i}, {}, [entry[m] EXCEPT !.owner = None], "live"))
    <3>1. CASE \E f \in {"confirmed", "unconfirmed", "pushed"} :
                 /\ UNCHANGED pending /\ inFlight' = [inFlight EXCEPT ![i] = @ \ {m}] /\ Forget(m) /\ Becomes(m, f)
      <4>1. PICK f \in {"confirmed", "unconfirmed", "pushed"} :
                 /\ UNCHANGED pending /\ inFlight' = [inFlight EXCEPT ![i] = @ \ {m}] /\ Forget(m) /\ Becomes(m, f)
        BY <3>1
      <4>2. Goes(m, {}, {}, Blank, f)
        BY <1>1, <2>1, <2>2, <4>1, FinishedGoes
      <4> QED BY <4>2
    <3>2. CASE UNCHANGED pending /\ ~SomebodyWaits(entry[m].replyTo) /\ KeepAnswer(i, m)
      BY <1>1, <2>1, <2>2, <3>2, KeptGoes
    <3>3. CASE GoesBack(t, i, m)
      <4>1. /\ pending' = [pending EXCEPT ![i] = <<m>> \o pending[i]] /\ inFlight' = [inFlight EXCEPT ![i] = @ \ {m}]
            /\ entry' = [entry EXCEPT ![m].owner = None] /\ fate' = fate /\ settings[i].redeliver
        BY <3>3 DEF GoesBack
      <4>2. /\ OnlyIn(i) /\ inFlight'[i] = inFlight[i] \ {m} /\ pending'[i] = <<m>> \o pending[i]
        BY <1>1, <4>1, MessageTypes DEF OnlyIn
      <4>3. ToSet(pending'[i]) = ToSet(pending[i]) \union {m}
        BY <1>1, <4>2, LineElements, MessageTypes
      <4>4. /\ \A x \in Messages \ {m} : /\ (x \in ToSet(pending'[i]) <=> x \in ToSet(pending[i]))
                                         /\ (x \in inFlight'[i] <=> x \in inFlight[i])
                                         /\ entry'[x] = entry[x] /\ fate'[x] = fate[x]
            /\ m \in ToSet(pending'[i]) /\ m \notin inFlight'[i]
            /\ entry'[m] = [entry[m] EXCEPT !.owner = None] /\ fate'[m] = "live"
        BY <1>1, <2>2, <4>1, <4>2, <4>3, MessageTypes
      <4>5. Lines(m) \subseteq {i} /\ Flights(m) \subseteq {i}
        BY <2>2
      <4>6. Goes(m, {i}, {}, entry'[m], fate'[m])
        BY <1>1, <4>2, <4>4, <4>5, OneGoes
      <4> QED BY <4>1, <4>4, <4>6
    <3> QED BY <1>3, <3>1, <3>2, <3>3 DEF ConfirmBody, RespondBody, DiesUnconfirmed, Finish, Bury
  <2>5. op'[t] # op[t]
    <3>1. /\ op \in [Threads -> Ops] /\ DOMAIN op[t] = DOMAIN Idle /\ Idle.pc = "idle"
      BY CallType, MessageTypes DEF Ops, Idle
    <3>2. op'[t].pc # "gate"
      BY <1>1, <3>1 DEF ConfirmLocked, RespondLocked, AbandonLocked, Goto, Return, Ops
    <3> QED BY <1>1, <3>2
  <2>6. LetsGo(t, m)
    BY <1>0, <1>1, <2>1, <2>2, <2>4, <2>5 DEF LetsGo
  <2> QED BY <1>1, <2>6 DEF Move
<1> QED BY <1>0, <1>2, <1>3 DEF ConfirmLocked, RespondLocked, AbandonLocked

\* A connection asks for the answer of a message.
LEMMA AwaitMoves ==
  ASSUME MessageInv, NEW t \in Threads, AwaitLocked(t)
  PROVE  Move
<1>0. PICK i, m : i = op[t].inst /\ m = op[t].msg
  OBVIOUS
<1>1. i \in Instances /\ m \in Messages /\ t \in Consumers /\ (Reachable(i, m) => m \in Content(i))
  BY <1>0, GateCall DEF AwaitLocked, At
<1>2. CASE OnlyTracks(i)
  BY <1>2, QuietMove DEF OnlyTracks
<1>3. CASE AwaitBody(t, i, m)
  <2>1. m \in Content(i) /\ fate[m] = "live" /\ UNCHANGED pending /\ SameConsumers
    BY <1>1, <1>3, WhereItIs, MessageTypes DEF AwaitBody, SameConsumers
  <2>2. CASE entry[m].answered /\ Finish(i, m, "pushed")
    <3>1. entry[m].owner = None /\ m \in inFlight[i]
      BY <1>1, <2>1, <2>2, MessageTypes DEF AnswersAway, Content
    <3>2. Goes(m, {}, {}, Blank, "pushed")
      BY <1>1, <2>1, <2>2, <3>1, FinishedGoes DEF Finish
    <3>3. GoesOut(m)
      BY <2>1, <3>1, <3>2 DEF GoesOut
    <3> QED BY <1>1, <3>3 DEF Move
  <2>3. CASE /\ entry[m].answered => ~SomebodyWaits(t)
             /\ entry' = [entry EXCEPT ![m].replyTo = t] /\ UNCHANGED << inFlight, fate >>
    <3>1. Goes(m, Lines(m), Flights(m), [entry[m] EXCEPT !.replyTo = t], "live")
      BY <1>1, <2>1, <2>3, MessageTypes DEF Goes, Elsewhere, Lines, Flights
    <3>2. AskedFor(m, t)
      BY <1>1, <2>1, <2>3, <3>1 DEF AskedFor
    <3> QED BY <1>1, <3>2 DEF Move
  <2> QED BY <1>3, <2>2, <2>3 DEF AwaitBody
<1> QED BY <1>0, <1>2, <1>3 DEF AwaitLocked

-----------------------------------------------------------------------------
(* Several messages at once, and a new queue *)

\* A purge ends what is in the line, a sweep what outlived its retention.
LEMMA EndedMoves ==
  ASSUME MessageInv, NEW t \in Threads, PurgeLocked(t) \/ SweepLeaves(t)
  PROVE  Move
<1>0. PICK i, M : i = op[t].inst /\ M = IF PurgeLocked(t) THEN ToSet(pending[i]) ELSE Outlived(i)
  OBVIOUS
<1>1. i \in Instances
  BY <1>0, CallType, MessageTypes DEF PurgeLocked, SweepLeaves, At, Fits, InQueue
<1>2. CASE PurgeLocked(t)
  <2>1. /\ pending' = [pending EXCEPT ![i] = <<>>] /\ inFlight' = inFlight /\ SameConsumers
        /\ entry' = [m \in Messages |-> IF m \in M THEN Blank ELSE entry[m]]
        /\ fate' = [m \in Messages |-> IF m \in M THEN "purged" ELSE fate[m]]
    BY <1>0, <1>2 DEF PurgeLocked, PurgeBody, SameConsumers
  <2>2. \A m \in M : m \in Messages /\ entry[m].owner = None /\ m \notin inFlight[i]
    BY <1>0, <1>1, <1>2, OfLine
  <2>3. OnlyIn(i) /\ pending'[i] = <<>> /\ inFlight'[i] = inFlight[i]
    BY <1>1, <2>1, MessageTypes DEF OnlyIn
  <2>4. ToSet(pending'[i]) = ToSet(pending[i]) \ M /\ inFlight'[i] = inFlight[i] \ M /\ M \in SUBSET Content(i)
    <3>1. ToSet(<<>>) = {}
      BY DEF ToSet
    <3> QED BY <1>0, <1>2, <2>2, <2>3, <3>1 DEF Content
  <2>5. /\ \A m \in M : entry[m].owner = None /\ entry'[m] = Blank /\ fate'[m] \in Ended
        /\ \A x \in Messages \ M : entry'[x] = entry[x] /\ fate'[x] = fate[x]
    BY <2>1, <2>2 DEF Ended
  <2> QED BY <1>1, <2>1, <2>3, <2>4, <2>5, EndMoves
<1>3. CASE ~PurgeLocked(t)
  <2>1. /\ inFlight' = [inFlight EXCEPT ![i] = @ \ M] /\ UNCHANGED pending /\ SameConsumers
        /\ entry' = [m \in Messages |-> IF m \in M THEN Blank ELSE entry[m]]
        /\ fate' = [m \in Messages |-> IF m \in M THEN "dropped" ELSE fate[m]]
    BY <1>0, <1>3 DEF SweepLeaves, SweepInFlight, SameConsumers
  <2>2. \A m \in M : m \in inFlight[i] /\ entry[m].owner = None
    BY <1>0, <1>3 DEF Outlived
  <2>3. \A m \in M : m \in Messages /\ m \notin ToSet(pending[i])
    BY <1>1, <2>2, OfDictionary
  <2>4. OnlyIn(i) /\ pending'[i] = pending[i] /\ inFlight'[i] = inFlight[i] \ M
    BY <1>1, <2>1, MessageTypes DEF OnlyIn
  <2>5. ToSet(pending'[i]) = ToSet(pending[i]) \ M /\ M \in SUBSET Content(i)
    BY <2>2, <2>3, <2>4 DEF Content
  <2>6. /\ \A m \in M : entry[m].owner = None /\ entry'[m] = Blank /\ fate'[m] \in Ended
        /\ \A x \in Messages \ M : entry'[x] = entry[x] /\ fate'[x] = fate[x]
    BY <2>1, <2>2, <2>3 DEF Ended
  <2> QED BY <1>1, <2>1, <2>4, <2>5, <2>6, EndMoves
<1> QED BY <1>2, <1>3

\* A queue that is made takes the place of one that held nothing.
LEMMA AddMoves ==
  ASSUME MessageInv, NEW t \in Threads, AddQueue(t)
  PROVE  Move
<1>1. UNCHANGED << pending, inFlight, entry, fate, cstate, current >>
  <2>1. CASE UNCHANGED << pending, inFlight >>
    BY <2>1 DEF AddQueue, messageVars
  <2>2. CASE ~UNCHANGED << pending, inFlight >>
    <3>1. PICK i \in Instances : /\ Unused(i) /\ pending' = [pending EXCEPT ![i] = <<>>]
                                 /\ inFlight' = [inFlight EXCEPT ![i] = {}]
      BY <2>2 DEF AddQueue
    <3>2. Content(i) = {}
      <4>1. \A m \in Content(i) : m \in Messages /\ fate[m] = "live" /\ entry[m].home \in Names
        BY WhereItIs, HomeOfLive, MessageTypes
      <4> QED BY <3>1, <4>1, MessageTypes DEF Found, Unused
    <3>3. inFlight[i] = {} /\ pending[i] = <<>>
      <4>1. pending[i] # <<>> => Head(pending[i]) \in ToSet(pending[i])
        BY TailElements, MessageTypes
      <4> QED BY <3>2, <4>1 DEF Content
    <3>4. pending' = pending /\ inFlight' = inFlight
      BY <3>1, <3>3, MessageTypes
    <3> QED BY <2>2, <3>4
  <2> QED BY <2>1, <2>2
<1> QED BY <1>1, NothingMoves DEF Move, Stays, SameConsumers

-----------------------------------------------------------------------------
(* Every step is a move *)

\* What begins a call is a move, or moves nothing.
LEMMA StartMoves ==
  ASSUME MessageInv, Start
  PROVE  Move
<1>1. CASE \E t \in Consumers \union Callers, n \in Names, m \in Messages, k \in Kinds : Publish(t, n, m, k)
  BY <1>1, BornMoves, MessageTypes DEF Threads
<1>2. CASE \E c \in Consumers : Disconnect(c)
  BY <1>2, ConsumerMoves, MessageTypes DEF Threads
<1>3. CASE \E t \in Callers, n \in Names, m, x \in Messages : Requeue(t, n, m, x)
  BY <1>3, BornMoves, MessageTypes DEF Threads
<1> QED BY <1>1, <1>2, <1>3, AskingMoves

\* What a thread in a call does.
LEMMA CallMovesMessages ==
  ASSUME MessageInv, NEW t \in Threads, Step(t)
  PROVE  Move
<1>1. CASE \/ Lookup(t) \/ ReadSettings(t) \/ Unregister(t) \/ DispatchLocked(t) \/ DispatchFinds(t) \/ ScanBusy(t)
           \/ HandDone(t) \/ Rotate(t) \/ FreeNext(t) \/ FreeEnds(t) \/ LeaveNext(t) \/ LeaveLast(t)
           \/ Reread(t) \/ AssignSettings(t) \/ PauseWrites(t)
           \/ SweepNext(t) \/ SweepEnters(t) \/ SweepSkips(t) \/ Retire(t)
  BY <1>1, BetweenMoves
<1>2. CASE \/ BindLocked(t) \/ UnbindLocked(t) \/ DispatchEnds(t) \/ ScanEnds(t) \/ TakeEnters(t)
           \/ Complete(t) \/ SweepEnds(t)
  BY <1>2, MethodMoves
<1>3. CASE AddQueue(t) \/ TryPublish(t) \/ Release(t)
  BY <1>3, AddMoves, JoinMoves, ConsumerMoves, MessageTypes
<1>4. CASE DispatchBuries(t) \/ TakeBuries(t) \/ SweepBuries(t)
  BY <1>4, BuryMoves
<1>5. CASE ScanAcquires(t) \/ TakeReturns(t) \/ HandOver(t)
  BY <1>5, AcquireMoves, TakeMoves, HandMoves
<1>6. CASE RespondLateLocked(t) \/ CollectLocked(t) \/ AwaitLocked(t)
  BY <1>6, LateMoves, CollectMoves, AwaitMoves
<1>7. CASE ConfirmLocked(t) \/ RespondLocked(t) \/ AbandonLocked(t)
  BY <1>7, SettleMoves
<1>8. CASE PurgeLocked(t) \/ SweepLeaves(t)
  BY <1>8, EndedMoves
<1> QED BY <1>1, <1>2, <1>3, <1>4, <1>5, <1>6, <1>7, <1>8 DEF Step

\* Every step of the broker is one of the moves.
LEMMA MoveStep == MessageInv /\ [Next]_vars => Move
<1> SUFFICES ASSUME MessageInv, [Next]_vars
             PROVE  Move
  OBVIOUS
<1>1. CASE Start
  BY <1>1, StartMoves
<1>2. CASE Tick \/ UNCHANGED vars
  <2>1. UNCHANGED << pending, inFlight, messageVars, cstate, current >>
    BY <1>2 DEF Tick, vars, queueVars, messageVars, consumerVars
  <2> QED BY <2>1, QuietMove
<1>3. CASE \E t \in Threads : Step(t)
  BY <1>3, CallMovesMessages
<1> QED BY <1>1, <1>2, <1>3 DEF Next

-----------------------------------------------------------------------------
(* A retired queue holds nothing.  The sweeper decides to retire a queue by  *)
(* the time it has been empty; so the invariant ties that time to what the   *)
(* queue holds.  The state needs no more shape than that the queues have a   *)
(* line, a dictionary, a list of consumers, a time and a flag each.          *)

heldVars == << pending, inFlight, bound, emptySince, removed >>

Shape ==
  /\ DOMAIN pending = Instances
  /\ DOMAIN inFlight = Instances
  /\ DOMAIN bound = Instances
  /\ DOMAIN emptySince = Instances
  /\ DOMAIN removed = Instances

\* A queue that counts the time since it became empty is empty.
EmptySinceThen == \A i \in Instances : emptySince[i] # Never => pending[i] = <<>> /\ inFlight[i] = {}

RetirementInv == Shape /\ EmptySinceThen /\ RetiredQueueHoldsNothing

\* Nothing can be removed from an empty sequence.
LEMMA RemoveFromEmpty ==
  ASSUME NEW e
  PROVE  RemoveFirst(<<>>, e) = <<>> /\ ~Contains(<<>>, e)
  BY DEF RemoveFirst, Contains

\* The invariant holds before anybody called.
LEMMA RetirementInit == Init => RetirementInv
  BY DEF Init, RetirementInv, Shape, EmptySinceThen, RetiredQueueHoldsNothing, Never

\* A step that touches no queue keeps it.
LEMMA RetirementStutter == RetirementInv /\ UNCHANGED heldVars => RetirementInv'
  BY DEF heldVars, RetirementInv, Shape, EmptySinceThen, RetiredQueueHoldsNothing

USE DEF RetirementInv, Shape, EmptySinceThen, RetiredQueueHoldsNothing, Never,
        queueVars, contentVars, messageVars, consumerVars, bodyVars, stableVars

\* A new queue is empty and not retired.
LEMMA AddQueueKeepsIt ==
  ASSUME RetirementInv, NEW t \in Threads, AddQueue(t)
  PROVE  RetirementInv'
<1> DEFINE n == op[t].name
<1>1. CASE registry[n] # None
  BY <1>1, RetirementStutter DEF AddQueue, heldVars
<1>2. CASE registry[n] = None
  <2>1. PICK i \in Instances :
          /\ pending' = [pending EXCEPT ![i] = <<>>]
          /\ inFlight' = [inFlight EXCEPT ![i] = {}]
          /\ bound' = [bound EXCEPT ![i] = <<>>]
          /\ emptySince' = [emptySince EXCEPT ![i] = Never]
          /\ removed' = [removed EXCEPT ![i] = FALSE]
    BY <1>2 DEF AddQueue
  <2> QED BY <2>1
<1> QED BY <1>1, <1>2

\* Publish and Bind ask first whether the queue was retired.
LEMMA TryPublishKeepsIt ==
  ASSUME RetirementInv, NEW t \in Threads, TryPublish(t)
  PROVE  RetirementInv'
  BY DEF TryPublish, Accept

\* So does Bind.
LEMMA BindKeepsIt ==
  ASSUME RetirementInv, NEW t \in Threads, BindLocked(t)
  PROVE  RetirementInv'
  BY DEF BindLocked, AddConsumer

\* A retired queue has no consumer to lose.
LEMMA UnbindKeepsIt ==
  ASSUME RetirementInv, NEW t \in Threads, UnbindLocked(t)
  PROVE  RetirementInv'
  BY RemoveFromEmpty DEF UnbindLocked, RemoveConsumer

\* The time is written down only when the queue is empty.
LEMMA OnlyTracksKeepsIt ==
  ASSUME RetirementInv, NEW i, OnlyTracks(i), UNCHANGED removed
  PROVE  RetirementInv'
  BY DEF OnlyTracks, TrackEmptiness

\* Dispatch takes messages from a line that is not empty.
LEMMA DispatchKeepsIt ==
  ASSUME RetirementInv, NEW t \in Threads,
         DispatchEnds(t) \/ DispatchBuries(t) \/ ScanAcquires(t) \/ ScanEnds(t)
  PROVE  RetirementInv'
<1>1. CASE DispatchEnds(t) \/ ScanEnds(t)
  BY <1>1, OnlyTracksKeepsIt DEF DispatchEnds, ScanEnds, FinishDispatch
<1>2. CASE DispatchBuries(t)
  BY <1>2, RemoveFromEmpty DEF DispatchBuries, BuryHead, BuryPending, Bury
<1>3. CASE ScanAcquires(t)
  BY <1>3 DEF ScanAcquires, Assign
<1> QED BY <1>1, <1>2, <1>3

\* So does Take, which looks afterwards whether the queue became empty.
LEMMA TakeKeepsIt ==
  ASSUME RetirementInv, NEW t \in Threads,
         TakeEnters(t) \/ TakeBuries(t) \/ TakeReturns(t)
  PROVE  RetirementInv'
<1>1. CASE TakeEnters(t)
  BY <1>1, OnlyTracksKeepsIt DEF TakeEnters
<1>2. CASE TakeBuries(t)
  BY <1>2, RemoveFromEmpty DEF TakeBuries, BuryHead, BuryPending, Bury
<1>3. CASE TakeReturns(t)
  <2>1. CASE OnlyTracks(op[t].inst)
    BY <1>3, <2>1, OnlyTracksKeepsIt DEF TakeReturns
  <2>2. CASE TakeHead(op[t].inst)
    BY <1>3, <2>2 DEF TakeReturns, TakeHead, HeadIsDeliverable, TrackEmptiness
  <2> QED BY <1>3, <2>1, <2>2 DEF TakeReturns
<1> QED BY <1>1, <1>2, <1>3

\* What ends a message of the dictionary looks whether the queue became empty.
LEMMA FinishKeepsIt ==
  ASSUME RetirementInv, NEW i, NEW m, NEW f, Finish(i, m, f),
         UNCHANGED << bound, removed >>,
         \/ UNCHANGED pending
         \/ pending' = [pending EXCEPT ![i] = IF m \in inFlight[i] THEN @ ELSE RemoveFirst(@, m)]
  PROVE  RetirementInv'
  BY RemoveFromEmpty DEF Finish, TrackEmptiness, Forget, Becomes

\* Confirm, Respond, TakeResponse and Await settle what the dictionary holds.
LEMMA SettleKeepsIt ==
  ASSUME RetirementInv, NEW t \in Threads,
         ConfirmLocked(t) \/ RespondLocked(t) \/ CollectLocked(t) \/ AwaitLocked(t)
  PROVE  RetirementInv'
<1> DEFINE i == op[t].inst
           m == op[t].msg
<1>1. CASE ConfirmLocked(t)
  BY <1>1, FinishKeepsIt DEF ConfirmLocked, ConfirmBody
<1>2. CASE RespondLocked(t)
  <2>1. CASE RespondBody(t, i, m)
    <3>1. CASE KeepAnswer(i, m)
      BY <1>2, <2>1, <3>1 DEF RespondLocked, RespondBody, KeepAnswer, Owns
    <3>2. CASE \E f \in {"confirmed", "pushed"} : Finish(i, m, f)
      BY <1>2, <2>1, <3>2, FinishKeepsIt DEF RespondLocked, RespondBody
    <3> QED BY <2>1, <3>1, <3>2 DEF RespondBody
  <2> QED BY <1>2, <2>1 DEF RespondLocked
<1>3. CASE CollectLocked(t)
  BY <1>3, FinishKeepsIt DEF CollectLocked, CollectBody
<1>4. CASE AwaitLocked(t)
  <2>1. CASE OnlyTracks(i)
    BY <1>4, <2>1, OnlyTracksKeepsIt DEF AwaitLocked
  <2>2. CASE AwaitBody(t, i, m)
    BY <1>4, <2>2, FinishKeepsIt DEF AwaitLocked, AwaitBody
  <2> QED BY <1>4, <2>1, <2>2 DEF AwaitLocked
<1> QED BY <1>1, <1>2, <1>3, <1>4

\* A late answer finds its message here, so this queue does not count as empty.
LEMMA LateKeepsIt ==
  ASSUME RetirementInv, NEW t \in Threads, RespondLateLocked(t)
  PROVE  RetirementInv'
<1> DEFINE i == op[t].inst
           m == op[t].msg
<1>1. CASE LateRespondBody(i, m)
  <2>1. CASE Finish(i, m, "pushed")
    BY <1>1, <2>1, FinishKeepsIt DEF RespondLateLocked, LateRespondBody
  <2>2. CASE RefusesAnswer(i, m) \/ KeepAnswer(i, m)
    <3>1. /\ UNCHANGED << bound, emptySince, removed >>
          /\ inFlight' = [inFlight EXCEPT ![i] = @ \union {m}]
          /\ pending' = [pending EXCEPT ![i] = IF m \in inFlight[i] THEN @ ELSE RemoveFirst(@, m)]
      BY <1>1, <2>2 DEF RespondLateLocked, LateRespondBody, KeepAnswer
    <3>2. m \in inFlight[i] \/ pending[i] # <<>>
      BY <1>1, RemoveFromEmpty DEF LateRespondBody, Reachable
    <3>3. i \in Instances => emptySince[i] = Never /\ ~removed[i]
      BY <3>2
    <3> QED BY <3>1, <3>3
  <2> QED BY <1>1, <2>1, <2>2 DEF LateRespondBody
<1> QED BY <1>1 DEF RespondLateLocked

\* Abandon puts its message back, and the time is forgotten, or buries it.
LEMMA AbandonKeepsIt ==
  ASSUME RetirementInv, NEW t \in Threads, AbandonLocked(t)
  PROVE  RetirementInv'
<1> DEFINE i == op[t].inst
           m == op[t].msg
<1>1. CASE GoesBack(t, i, m)
  BY <1>1 DEF AbandonLocked, GoesBack, Owns
<1>2. CASE DiesUnconfirmed(t, i, m)
  BY <1>2 DEF AbandonLocked, DiesUnconfirmed, Owns, TrackEmptiness, Bury
<1> QED BY <1>1, <1>2 DEF AbandonLocked

\* Purge empties the line.
LEMMA PurgeKeepsIt ==
  ASSUME RetirementInv, NEW t \in Threads, PurgeLocked(t)
  PROVE  RetirementInv'
  BY DEF PurgeLocked, PurgeBody, TrackEmptiness

\* The sweeper retires a queue only when it is empty and unbound at that moment.
LEMMA SweepKeepsIt ==
  ASSUME RetirementInv, NEW t \in Threads, SweepBuries(t) \/ SweepLeaves(t)
  PROVE  RetirementInv'
<1>1. CASE SweepBuries(t)
  BY <1>1, RemoveFromEmpty DEF SweepBuries, SweepPending, BuryPending, Bury
<1>2. CASE SweepLeaves(t)
  BY <1>2 DEF SweepLeaves, SweepInFlight, TrackEmptiness, MayRetire
<1> QED BY <1>1, <1>2

\* The calls that take these steps, and all the others.
LEMMA RetirementStep == RetirementInv /\ [Next]_vars => RetirementInv'
<1> SUFFICES ASSUME RetirementInv, [Next]_vars PROVE RetirementInv'
  OBVIOUS
<1>1. CASE UNCHANGED vars
  BY <1>1, RetirementStutter DEF vars, heldVars
<1>2. CASE Start
  <2> USE RetirementStutter DEF heldVars
  <2>1. CASE \E t \in Consumers \union Callers, n \in Names, m \in Messages, k \in Kinds : Publish(t, n, m, k)
    BY <2>1 DEF Publish
  <2>2. CASE \E c \in Consumers, n \in Names : Bind(c, n) \/ Unbind(c, n)
    BY <2>2 DEF Bind, Unbind
  <2>3. CASE \E c \in Consumers, m \in Messages : Confirm(c, m) \/ Respond(c, m) \/ Await(c, m)
    BY <2>3 DEF Confirm, Respond, Settle, Await
  <2>4. CASE \E c \in Consumers : Disconnect(c)
    BY <2>4 DEF Disconnect
  <2>5. CASE \/ \E t \in Callers, n \in Names, keep \in BOOLEAN : Take(t, n, keep)
             \/ \E t \in Callers, m \in Messages : RespondLate(t, m) \/ Collect(t, m)
    BY <2>5 DEF Take, RespondLate, Collect
  <2>6. CASE \/ \E t \in Callers, n \in Names, o \in Options \union {None} : Configure(t, n, o)
             \/ \E t \in Callers, n \in Names, paused \in BOOLEAN : SetPaused(t, n, paused)
             \/ \E t \in Callers, n \in Names : Purge(t, n)
    BY <2>6 DEF Configure, SetPaused, Purge
  <2>7. CASE \/ \E t \in Callers, n \in Names : DiscardDeadLetters(t, n)
             \/ \E t \in Callers, n \in Names, m \in Messages : DiscardDeadLetter(t, n, m)
    BY <2>7 DEF DiscardDeadLetters, DiscardDeadLetter, Discard
  <2>8. CASE \E t \in Callers, n \in Names, m, x \in Messages : Requeue(t, n, m, x)
    BY <2>8 DEF Requeue
  <2>9. CASE StartSweep(Sweeper)
    BY <2>9 DEF StartSweep, bodyVars, stableVars
  <2> QED BY <1>2, <2>1, <2>2, <2>3, <2>4, <2>5, <2>6, <2>7, <2>8, <2>9 DEF Start
<1>3. CASE Tick
  BY <1>3, RetirementStutter DEF Tick, heldVars
<1>4. CASE \E t \in Threads : Step(t)
  <2> PICK t \in Threads : Step(t)
    BY <1>4
  <2>1. CASE Lookup(t) \/ ReadSettings(t) \/ Unregister(t)
    BY <2>1, RetirementStutter DEF Lookup, ReadSettings, Unregister, heldVars
  <2>2. CASE AddQueue(t)
    BY <2>2, AddQueueKeepsIt
  <2>3. CASE TryPublish(t)
    BY <2>3, TryPublishKeepsIt
  <2>4. CASE BindLocked(t) \/ UnbindLocked(t)
    BY <2>4, BindKeepsIt, UnbindKeepsIt
  <2>5. CASE DispatchLocked(t) \/ DispatchFinds(t) \/ ScanBusy(t)
    BY <2>5, RetirementStutter DEF DispatchLocked, DispatchFinds, ScanBusy, heldVars
  <2>6. CASE DispatchEnds(t) \/ DispatchBuries(t) \/ ScanAcquires(t) \/ ScanEnds(t)
    BY <2>6, DispatchKeepsIt
  <2>7. CASE HandOver(t) \/ HandDone(t)
    BY <2>7, RetirementStutter DEF HandOver, HandDone, heldVars
  <2>8. CASE TakeEnters(t) \/ TakeBuries(t) \/ TakeReturns(t)
    BY <2>8, TakeKeepsIt
  <2>9. CASE RespondLateLocked(t)
    BY <2>9, LateKeepsIt
  <2>10. CASE CollectLocked(t) \/ ConfirmLocked(t) \/ RespondLocked(t) \/ AwaitLocked(t)
    BY <2>10, SettleKeepsIt
  <2>11. CASE Release(t) \/ Rotate(t) \/ FreeNext(t) \/ FreeEnds(t)
    BY <2>11, RetirementStutter DEF Release, Rotate, FreeNext, FreeEnds, heldVars
  <2>12. CASE LeaveNext(t) \/ LeaveLast(t) \/ Complete(t)
    BY <2>12, RetirementStutter DEF LeaveNext, LeaveLast, Complete, heldVars
  <2>13. CASE AbandonLocked(t)
    BY <2>13, AbandonKeepsIt
  <2>14. CASE Reread(t) \/ AssignSettings(t) \/ PauseWrites(t)
    BY <2>14, RetirementStutter DEF Reread, AssignSettings, PauseWrites, heldVars
  <2>15. CASE PurgeLocked(t)
    BY <2>15, PurgeKeepsIt
  <2>16. CASE SweepNext(t) \/ SweepEnters(t) \/ SweepSkips(t) \/ Retire(t) \/ SweepEnds(t)
    BY <2>16, RetirementStutter DEF SweepNext, SweepEnters, SweepSkips, Retire, SweepEnds, heldVars
  <2>17. CASE SweepBuries(t) \/ SweepLeaves(t)
    BY <2>17, SweepKeepsIt
  <2> QED
    BY <2>1, <2>2, <2>3, <2>4, <2>5, <2>6, <2>7, <2>8, <2>9, <2>10, <2>11, <2>12, <2>13,
       <2>14, <2>15, <2>16, <2>17 DEF Step
<1> QED BY <1>1, <1>2, <1>3, <1>4 DEF Next

\* MessageQueue.TryPublish and Bind, SweepAndTryRetire: a queue the broker has let go of
\* holds no message and no consumer, whatever the threads that still refer to it do.
THEOREM RetiredHoldsNothing == Spec => []RetiredQueueHoldsNothing
<1>1. Init => RetirementInv
  BY RetirementInit
<1>2. RetirementInv /\ [Next]_vars => RetirementInv'
  BY RetirementStep
<1>3. RetirementInv => RetiredQueueHoldsNothing
  OBVIOUS
<1> QED BY <1>1, <1>2, <1>3, PTL DEF Spec

HIDE DEF RetirementInv, Shape, EmptySinceThen, RetiredQueueHoldsNothing, Never,
         queueVars, contentVars, messageVars, consumerVars, bodyVars, stableVars

-----------------------------------------------------------------------------
(* The calls of the threads *)

\* A step of one thread leaves the calls of the others alone.
OthersWait(t) == \A u \in Threads \ {t} : op'[u] = op[u]

\* A step of the call of one thread is not a step of another's.
LEMMA StepOfOne ==
  ASSUME TypeInv, NEW t \in Threads, Step(t)
  PROVE  OthersWait(t)
<1>1. op \in [Threads -> Ops]
  BY CallType
<1>2. CASE Lookup(t) \/ ReadSettings(t) \/ AddQueue(t) \/ Unregister(t) \/ TryPublish(t) \/ BindLocked(t) \/ UnbindLocked(t)
  BY <1>1, <1>2 DEF Lookup, ReadSettings, AddQueue, Unregister, TryPublish, BindLocked, UnbindLocked, Goto, OthersWait
<1>3. CASE \/ DispatchLocked(t) \/ DispatchEnds(t) \/ DispatchBuries(t) \/ DispatchFinds(t)
           \/ ScanBusy(t) \/ ScanAcquires(t) \/ ScanEnds(t)
  BY <1>1, <1>3 DEF DispatchLocked, DispatchEnds, DispatchBuries, DispatchFinds, ScanBusy, ScanAcquires, ScanEnds,
                    FinishDispatch, Goto, OthersWait
<1>4. CASE HandOver(t) \/ HandDone(t) \/ TakeEnters(t) \/ TakeBuries(t) \/ TakeReturns(t)
           \/ RespondLateLocked(t) \/ CollectLocked(t) \/ ConfirmLocked(t) \/ RespondLocked(t) \/ AwaitLocked(t)
  BY <1>1, <1>4 DEF HandOver, HandDone, TakeEnters, TakeBuries, TakeReturns, RespondLateLocked, CollectLocked,
                    ConfirmLocked, RespondLocked, AwaitLocked, Goto, Return, OthersWait
<1>5. CASE Release(t) \/ Rotate(t) \/ FreeNext(t) \/ FreeEnds(t) \/ LeaveNext(t) \/ LeaveLast(t)
           \/ AbandonLocked(t) \/ Complete(t)
  BY <1>1, <1>5 DEF Release, Rotate, FreeNext, FreeEnds, LeaveNext, LeaveLast, AbandonLocked, Complete, Goto, Return,
                    OthersWait
<1>6. CASE Reread(t) \/ AssignSettings(t) \/ PauseWrites(t) \/ PurgeLocked(t)
  BY <1>1, <1>6 DEF Reread, AssignSettings, PauseWrites, Written, PurgeLocked, Goto, Return, OthersWait
<1>7. CASE SweepNext(t) \/ SweepEnters(t) \/ SweepBuries(t) \/ SweepSkips(t) \/ SweepLeaves(t) \/ Retire(t) \/ SweepEnds(t)
  BY <1>1, <1>7 DEF SweepNext, SweepEnters, SweepBuries, SweepSkips, SweepLeaves, Retire, SweepEnds, Goto, Return,
                    OthersWait
<1> QED BY <1>2, <1>3, <1>4, <1>5, <1>6, <1>7 DEF Step

\* A call that looks its queue up goes to it, or is over, or makes the queue.
GoesTo(o, kinds) ==
  /\ o.pc = "gate" /\ o.kind \in kinds /\ o.inst = registry[o.name] /\ o.inst # None
  /\ o.scan = 0 /\ o.out = <<>> /\ o.todo = <<>>

\* What looks a queue up comes out at the gate of the queue of that name, ends, or goes on to make it.
LEMMA LookedUp ==
  ASSUME NEW k, NEW n, NEW m
  PROVE  /\ \/ TryGet(k, n, m) = Idle
            \/ GoesTo(TryGet(k, n, m), {k}) /\ TryGet(k, n, m).name = n /\ TryGet(k, n, m).msg = m
         /\ \/ GoesTo(GetOrAdd(k, n, m), {k})
            \/ /\ GetOrAdd(k, n, m).pc = "resolve" /\ GetOrAdd(k, n, m).kind = k
               /\ GetOrAdd(k, n, m).out = <<>> /\ GetOrAdd(k, n, m).todo = <<>>
         /\ GetOrAdd(k, n, m).name = n /\ GetOrAdd(k, n, m).msg = m
  BY DEF TryGet, GetOrAdd, Idle, GoesTo

\* How a call begins.
Asked == { "publish", "bind", "take", "unbind", "confirm", "respond", "await", "respondLate", "collect", "purge" }

Begins(o) ==
  /\ o.out = <<>>
  /\ \/ o = Idle
     \/ GoesTo(o, Asked)
     \/ o.pc \in {"resolve", "lookup"} /\ o.kind \in {"publish", "bind", "take"} /\ o.todo = <<>>
     \/ o.pc = "reread" /\ o.kind = "configure" /\ o.todo = <<>>
     \/ o.pc = "leaving" /\ o.kind = "disconnect"
     \/ o.pc = "pausing" /\ o.kind = "pause" /\ o.todo = <<>>
     \/ o.pc = "sweep" /\ o.kind = "sweep"

Starts(u) == OthersWait(u) /\ Ready(u) /\ Begins(op'[u])

\* What begins a call begins one, of a thread that had none, at a place where calls begin.
LEMMA StartOfOne ==
  ASSUME TypeInv, Start
  PROVE  UNCHANGED op \/ \E u \in Threads : Starts(u)
<1>0. ASSUME NEW u \in Threads, NEW k \in Requests, Asks(u, k), NEW o, op' = [op EXCEPT ![u] = o], Begins(o)
      PROVE  Starts(u)
  BY <1>0, CallType DEF Starts, OthersWait, Asks
<1>l. ASSUME NEW k \in Asked, NEW n, NEW m
      PROVE  /\ Begins(TryGet(k, n, m))
             /\ k \in {"publish", "bind", "take"} => Begins(GetOrAdd(k, n, m))
  BY LookedUp DEF Begins, Asked, GoesTo, Idle
<1>1. ASSUME NEW u \in Consumers \union Callers, NEW n \in Names, NEW m \in Messages, NEW k \in Kinds, Publish(u, n, m, k)
      PROVE  Starts(u)
  BY <1>0, <1>1, <1>l DEF Publish, Threads, Asked, Asks
<1>2. ASSUME NEW c \in Consumers, NEW n \in Names, Bind(c, n) \/ Unbind(c, n)
      PROVE  Starts(c)
  BY <1>0, <1>2, <1>l DEF Bind, Unbind, Threads, Asked, Asks
<1>3. ASSUME NEW c \in Consumers, NEW m \in Messages, Confirm(c, m) \/ Respond(c, m) \/ Await(c, m)
      PROVE  Starts(c)
  BY <1>0, <1>3, <1>l DEF Confirm, Respond, Settle, Await, Threads, Asked, Asks
<1>4. ASSUME NEW c \in Consumers, Disconnect(c)
      PROVE  Starts(c)
  <2> DEFINE o == [Idle EXCEPT !.pc = "leaving", !.kind = "disconnect", !.todo = queues[c]]
  <2>1. Begins(o)
    BY DEF Begins, Idle
  <2>2. op' = [op EXCEPT ![c] = o] /\ Asks(c, "disconnect")
    BY <1>4 DEF Disconnect
  <2> HIDE DEF o
  <2> QED BY <1>0, <2>1, <2>2 DEF Threads, Asks
<1>5. ASSUME NEW u \in Callers, NEW n \in Names, NEW keep \in BOOLEAN, Take(u, n, keep)
      PROVE  Starts(u)
  BY <1>0, <1>5, <1>l DEF Take, Threads, Asked, Asks
<1>6. ASSUME NEW u \in Callers, NEW m \in Messages, RespondLate(u, m) \/ Collect(u, m)
      PROVE  Starts(u)
  BY <1>0, <1>6, <1>l DEF RespondLate, Collect, Threads, Asked, Asks
<1>7. ASSUME NEW u \in Callers, NEW n \in Names, NEW x \in Options \union {None}, Configure(u, n, x)
      PROVE  Starts(u)
  <2> DEFINE o == IF registry[n] = None THEN Idle ELSE [TryGet("configure", n, None) EXCEPT !.pc = "reread"]
  <2>1. Begins(o)
    BY DEF Begins, Idle, TryGet
  <2>2. op' = [op EXCEPT ![u] = o] /\ Asks(u, "configure")
    BY <1>7 DEF Configure, Written
  <2> HIDE DEF o
  <2> QED BY <1>0, <2>1, <2>2 DEF Threads, Asks
<1>8. ASSUME NEW u \in Callers, NEW n \in Names, NEW paused \in BOOLEAN, SetPaused(u, n, paused)
      PROVE  Starts(u)
  <2>1. PICK a : op' = [op EXCEPT ![u] = [Idle EXCEPT !.pc = "pausing", !.kind = "pause", !.name = n, !.arg = a]]
    BY <1>8 DEF SetPaused
  <2>2. Begins([Idle EXCEPT !.pc = "pausing", !.kind = "pause", !.name = n, !.arg = a])
    BY DEF Begins, Idle
  <2> QED BY <1>0, <1>8, <2>1, <2>2 DEF Threads, Asks, SetPaused
<1>9. ASSUME NEW u \in Callers, NEW n \in Names, Purge(u, n)
      PROVE  Starts(u)
  BY <1>0, <1>9, <1>l DEF Purge, Threads, Asked, Asks
<1>10. ASSUME NEW u \in Callers, NEW n \in Names, NEW m \in Messages, NEW x \in Messages, Requeue(u, n, m, x)
       PROVE  Starts(u)
  <2> DEFINE o == [Idle EXCEPT !.pc = "lookup", !.kind = "publish", !.name = n, !.msg = x]
  <2>1. Begins(o)
    BY DEF Begins, Idle
  <2>2. op' = [op EXCEPT ![u] = o] /\ Asks(u, "requeue")
    BY <1>10 DEF Requeue
  <2> HIDE DEF o
  <2> QED BY <1>0, <2>1, <2>2 DEF Threads, Asks
<1>11. ASSUME StartSweep(Sweeper)
       PROVE  Starts(Sweeper)
  <2>1. PICK order : op' = [op EXCEPT ![Sweeper] = [Idle EXCEPT !.pc = "sweep", !.kind = "sweep", !.todo = order]]
    BY <1>11 DEF StartSweep
  <2>2. Begins([Idle EXCEPT !.pc = "sweep", !.kind = "sweep", !.todo = order])
    BY DEF Begins, Idle
  <2> QED BY <1>0, <1>11, <2>1, <2>2 DEF Threads, Asks, StartSweep
<1>12. ASSUME NEW u \in Callers, NEW n \in Names,
              DiscardDeadLetters(u, n) \/ \E m \in Messages : DiscardDeadLetter(u, n, m)
       PROVE  UNCHANGED op
  BY <1>12 DEF DiscardDeadLetters, DiscardDeadLetter, Discard
<1> QED BY <1>1, <1>2, <1>3, <1>4, <1>5, <1>6, <1>7, <1>8, <1>9, <1>10, <1>11, <1>12 DEF Start, Threads

-----------------------------------------------------------------------------
(* The course of a call *)

\* Where a call of each kind may be.
Dispatching == { "dispatch", "look", "scan", "hand" }

Way(kind) ==
  CASE kind = "none"                              -> { "idle", "complete" }
    [] kind \in {"publish", "bind"}               -> { "lookup", "resolve", "add", "gate", "unregister" } \union Dispatching
    [] kind = "take"                              -> { "resolve", "add", "gate", "taking" }
    [] kind \in {"unbind", "collect", "purge"}    -> { "gate" }
    [] kind \in {"respondLate", "await"}          -> { "gate", "hand" }
    [] kind = "confirm"                           -> { "gate", "release", "rotate" }
    [] kind = "respond"                           -> { "gate", "hand", "release", "rotate" }
    [] kind = "free"                              -> { "freeing", "gate" } \union Dispatching
    [] kind = "disconnect"                        -> { "leaving", "gate" }
    [] kind = "abandon"                           -> { "gate" } \union Dispatching
    [] kind = "configure"                         -> { "reread", "assign", "gate" } \union Dispatching
    [] kind = "pause"                             -> { "pausing" }
    [] kind = "sweep"                             -> { "sweep", "gate", "sweeping", "retire" }

\* Who makes it.
Whose(kind) ==
  CASE kind = "none"    -> Threads
    [] kind = "publish" -> Consumers \union Callers
    [] kind \in {"bind", "unbind", "confirm", "respond", "await", "free", "disconnect", "abandon"} -> Consumers
    [] kind \in {"take", "respondLate", "collect", "configure", "pause", "purge"} -> Callers
    [] kind = "sweep"   -> {Sweeper}

Course(t) == op[t].pc \in Way(op[t].kind) /\ t \in Whose(op[t].kind)

\* A call that begins is at its beginning, and one who may make it makes it.
LEMMA StartCourse ==
  ASSUME TypeInv, Start, NEW t \in Threads, Course(t)
  PROVE  Course(t)'
<1>1. CASE op'[t] = op[t]
  BY <1>1 DEF Course
<1>0. ASSUME NEW u \in Threads, NEW o, op' = [op EXCEPT ![u] = o],
             o = Idle \/ (o.pc \in Way(o.kind) /\ u \in Whose(o.kind))
      PROVE  Course(t)'
  <2>1. Idle.pc \in Way(Idle.kind) /\ Threads = Whose(Idle.kind)
    BY DEF Idle, Way, Whose
  <2> QED BY <1>0, <2>1, CallType DEF Course
<1>c. Consumers \subseteq Threads /\ Callers \subseteq Threads /\ Sweeper \in Threads
  BY DEF Threads
<1>l. ASSUME NEW k \in Asked, NEW n, NEW m, NEW u \in Whose(k)
      PROVE  /\ TryGet(k, n, m) = Idle \/ (TryGet(k, n, m).pc \in Way(TryGet(k, n, m).kind) /\ u \in Whose(TryGet(k, n, m).kind))
             /\ k \in {"publish", "bind", "take"}
                  => GetOrAdd(k, n, m).pc \in Way(GetOrAdd(k, n, m).kind) /\ u \in Whose(GetOrAdd(k, n, m).kind)
  <2>1. "gate" \in Way(k) /\ (k \in {"publish", "bind", "take"} => "resolve" \in Way(k))
    BY DEF Asked, Way, Dispatching
  <2>2. /\ TryGet(k, n, m) = Idle \/ (TryGet(k, n, m).pc = "gate" /\ TryGet(k, n, m).kind = k)
        /\ GetOrAdd(k, n, m).pc \in {"gate", "resolve"} /\ GetOrAdd(k, n, m).kind = k
    BY LookedUp DEF GoesTo
  <2> QED BY <2>1, <2>2
<1>w. /\ Consumers \union Callers = Whose("publish")
      /\ Consumers = Whose("bind") /\ Consumers = Whose("unbind") /\ Consumers = Whose("confirm")
      /\ Consumers = Whose("respond") /\ Consumers = Whose("await") /\ Consumers = Whose("disconnect")
      /\ Callers = Whose("take") /\ Callers = Whose("respondLate") /\ Callers = Whose("collect")
      /\ Callers = Whose("configure") /\ Callers = Whose("pause") /\ Callers = Whose("purge")
      /\ {Sweeper} = Whose("sweep")
  BY DEF Whose
<1>2. ASSUME NEW u \in Consumers \union Callers, NEW n \in Names, NEW m \in Messages, NEW k \in Kinds, Publish(u, n, m, k)
      PROVE  Course(t)'
  BY <1>0, <1>2, <1>l, <1>w, <1>c DEF Publish, Asked
<1>3. ASSUME NEW c \in Consumers, NEW n \in Names, Bind(c, n) \/ Unbind(c, n)
      PROVE  Course(t)'
  BY <1>0, <1>3, <1>l, <1>w, <1>c DEF Bind, Unbind, Asked
<1>4. ASSUME NEW c \in Consumers, NEW m \in Messages, Confirm(c, m) \/ Respond(c, m) \/ Await(c, m)
      PROVE  Course(t)'
  BY <1>0, <1>4, <1>l, <1>w, <1>c DEF Confirm, Respond, Settle, Await, Asked
<1>5. ASSUME NEW c \in Consumers, Disconnect(c)
      PROVE  Course(t)'
  <2> DEFINE o == [Idle EXCEPT !.pc = "leaving", !.kind = "disconnect", !.todo = queues[c]]
  <2>1. o.pc = "leaving" /\ o.kind = "disconnect" /\ "leaving" \in Way("disconnect")
    BY DEF Idle, Way
  <2>2. op' = [op EXCEPT ![c] = o]
    BY <1>5 DEF Disconnect
  <2> HIDE DEF o
  <2> QED BY <1>0, <1>w, <1>c, <2>1, <2>2
<1>6. ASSUME NEW u \in Callers, \/ \E n \in Names : Purge(u, n) \/ \E keep \in BOOLEAN : Take(u, n, keep)
                                \/ \E m \in Messages : RespondLate(u, m) \/ Collect(u, m)
      PROVE  Course(t)'
  BY <1>0, <1>6, <1>l, <1>w, <1>c DEF Take, RespondLate, Collect, Purge, Asked
<1>7. ASSUME NEW u \in Callers, NEW n \in Names, NEW x \in Options \union {None}, Configure(u, n, x)
      PROVE  Course(t)'
  <2> DEFINE o == IF registry[n] = None THEN Idle ELSE [TryGet("configure", n, None) EXCEPT !.pc = "reread"]
  <2>1. (o = Idle \/ (o.pc = "reread" /\ o.kind = "configure")) /\ "reread" \in Way("configure")
    BY DEF Idle, TryGet, Way
  <2>2. op' = [op EXCEPT ![u] = o]
    BY <1>7 DEF Configure, Written
  <2> HIDE DEF o
  <2> QED BY <1>0, <1>w, <1>c, <2>1, <2>2
<1>8. ASSUME NEW u \in Callers, NEW n \in Names, NEW paused \in BOOLEAN, SetPaused(u, n, paused)
      PROVE  Course(t)'
  <2>1. PICK a : op' = [op EXCEPT ![u] = [Idle EXCEPT !.pc = "pausing", !.kind = "pause", !.name = n, !.arg = a]]
    BY <1>8 DEF SetPaused
  <2> DEFINE o == [Idle EXCEPT !.pc = "pausing", !.kind = "pause", !.name = n, !.arg = a]
  <2>2. o.pc = "pausing" /\ o.kind = "pause" /\ "pausing" \in Way("pause")
    BY DEF Idle, Way
  <2>3. op' = [op EXCEPT ![u] = o]
    BY <2>1
  <2> HIDE DEF o
  <2> QED BY <1>0, <1>w, <1>c, <2>2, <2>3
<1>9. ASSUME NEW u \in Callers, NEW n \in Names, NEW m \in Messages, NEW x \in Messages, Requeue(u, n, m, x)
      PROVE  Course(t)'
  <2> DEFINE o == [Idle EXCEPT !.pc = "lookup", !.kind = "publish", !.name = n, !.msg = x]
  <2>1. o.pc = "lookup" /\ o.kind = "publish" /\ "lookup" \in Way("publish")
    BY DEF Idle, Way
  <2>2. op' = [op EXCEPT ![u] = o]
    BY <1>9 DEF Requeue
  <2> HIDE DEF o
  <2> QED BY <1>0, <1>w, <1>c, <2>1, <2>2
<1>10. ASSUME StartSweep(Sweeper)
       PROVE  Course(t)'
  <2>1. PICK order : op' = [op EXCEPT ![Sweeper] = [Idle EXCEPT !.pc = "sweep", !.kind = "sweep", !.todo = order]]
    BY <1>10 DEF StartSweep
  <2> DEFINE o == [Idle EXCEPT !.pc = "sweep", !.kind = "sweep", !.todo = order]
  <2>2. o.pc = "sweep" /\ o.kind = "sweep" /\ "sweep" \in Way("sweep")
    BY DEF Idle, Way
  <2>3. op' = [op EXCEPT ![Sweeper] = o]
    BY <2>1
  <2> HIDE DEF o
  <2> QED BY <1>0, <1>w, <1>c, <2>2, <2>3
<1>11. ASSUME NEW u \in Callers, NEW n \in Names,
              DiscardDeadLetters(u, n) \/ \E m \in Messages : DiscardDeadLetter(u, n, m)
       PROVE  Course(t)'
  BY <1>1, <1>11 DEF DiscardDeadLetters, DiscardDeadLetter, Discard
<1> QED BY <1>2, <1>3, <1>4, <1>5, <1>6, <1>7, <1>8, <1>9, <1>10, <1>11 DEF Start

\* A call keeps its kind while it goes on, and then frees or abandons what it left.
LEMMA StepCourse ==
  ASSUME TypeInv, NEW t \in Threads, Step(t), Course(t)
  PROVE  Course(t)'
<1>0. op \in [Threads -> Ops] /\ op[t] \in Ops /\ Fits(t, op[t]) /\ op[t].kind \in Calls
  BY CallType
<1>1. ASSUME op'[t].kind = op[t].kind, op'[t].pc \in Way(op[t].kind)
      PROVE  Course(t)'
  BY <1>1 DEF Course
<1>2. ASSUME op'[t] = Idle
      PROVE  Course(t)'
  BY <1>2 DEF Course, Idle, Way, Whose
<1>3. CASE Lookup(t)
  <2>1. op'[t] = GetOrAdd(op[t].kind, op[t].name, op[t].msg) /\ op[t].kind \in {"publish", "bind"}
    BY <1>0, <1>3 DEF Lookup, Fits, Course, Way
  <2>2. op'[t].kind = op[t].kind /\ op'[t].pc \in {"resolve", "gate"}
    BY <2>1, LookedUp DEF GoesTo
  <2> QED BY <1>1, <2>1, <2>2 DEF Way
<1>4. CASE ReadSettings(t) \/ AddQueue(t) \/ Unregister(t)
  <2>1. op'[t].kind = op[t].kind /\ op[t].kind \in {"publish", "bind", "take"}
        /\ op'[t].pc \in {"add", "gate", "lookup"} /\ (op'[t].pc = "lookup" => op[t].kind # "take")
    <3>1. CASE ReadSettings(t)
      BY <1>0, <3>1 DEF ReadSettings, Fits, Ops
    <3>2. CASE AddQueue(t)
      <4>1. PICK i : op' = [op EXCEPT ![t].inst = i, ![t].pc = "gate"]
        BY <3>2 DEF AddQueue
      <4>2. op[t].kind \in {"publish", "bind", "take"}
        BY <1>0, <3>2 DEF AddQueue, Fits
      <4> QED BY <1>0, <4>1, <4>2 DEF Ops
    <3>3. CASE Unregister(t)
      BY <1>0, <3>3 DEF Unregister, At, Ops
    <3> QED BY <1>4, <3>1, <3>2, <3>3
  <2> QED BY <1>1, <2>1 DEF Way
<1>5. CASE TryPublish(t) \/ BindLocked(t) \/ DispatchLocked(t)
  <2>1. op'[t].kind = op[t].kind /\ op[t].kind \in {"publish", "bind", "free", "configure"}
        /\ op'[t].pc \in {"unregister", "dispatch"} /\ (op'[t].pc = "unregister" => op[t].kind \in {"publish", "bind"})
    BY <1>0, <1>5 DEF TryPublish, BindLocked, DispatchLocked, At, Goto, Ops
  <2> QED BY <1>1, <2>1 DEF Way, Dispatching
<1>6. CASE \/ DispatchEnds(t) \/ DispatchBuries(t) \/ DispatchFinds(t) \/ ScanBusy(t) \/ ScanAcquires(t) \/ ScanEnds(t)
  <2>1. op[t].kind \in {"publish", "bind", "free", "abandon", "configure"}
    BY <1>0, <1>6 DEF DispatchEnds, DispatchBuries, DispatchFinds, Looking, ScanBusy, ScanAcquires, ScanEnds,
                      Course, Way, Dispatching, Calls
  <2>2. op'[t].kind = op[t].kind
        /\ (op'[t].pc \in Dispatching \/ (op[t].kind = "free" /\ op'[t].pc = "freeing"))
    BY <1>0, <1>6 DEF DispatchEnds, DispatchBuries, DispatchFinds, ScanBusy, ScanAcquires, ScanEnds, FinishDispatch,
                      AfterDispatch, Goto, Ops, Dispatching
  <2> QED BY <1>1, <2>1, <2>2 DEF Way
<1>7. CASE HandOver(t) \/ TakeBuries(t) \/ SweepBuries(t)
  <2>1. op'[t].kind = op[t].kind /\ op'[t].pc = op[t].pc
    BY <1>0, <1>7 DEF HandOver, TakeBuries, SweepBuries, Ops
  <2> QED BY <1>1, <2>1 DEF Course
<1>8. CASE HandDone(t)
  <2>1. CASE op[t].kind = "respond"
    BY <1>0, <1>1, <1>8, <2>1 DEF HandDone, Ops, Way
  <2>2. CASE op[t].kind = "abandon"
    <3>1. op'[t] = [Idle EXCEPT !.pc = "complete"]
      BY <1>0, <1>8, <2>2 DEF HandDone
    <3> QED BY <3>1 DEF Idle, Course, Way, Whose
  <2>3. CASE op[t].kind \notin {"respond", "abandon"}
    BY <1>0, <1>2, <1>8, <2>3 DEF HandDone
  <2> QED BY <2>1, <2>2, <2>3
<1>9. CASE TakeEnters(t) \/ TakeReturns(t) \/ CollectLocked(t) \/ Complete(t) \/ PurgeLocked(t) \/ SweepEnds(t)
  <2>1. op'[t] = Idle \/ (TakeEnters(t) /\ op'[t].kind = op[t].kind /\ op'[t].pc = "taking" /\ op[t].kind = "take")
    BY <1>0, <1>9 DEF TakeEnters, TakeReturns, CollectLocked, Complete, PurgeLocked, SweepEnds, At, Goto, Return, Ops
  <2> QED BY <1>1, <1>2, <2>1 DEF Way
<1>10. CASE RespondLateLocked(t) \/ ConfirmLocked(t) \/ RespondLocked(t) \/ AwaitLocked(t) \/ AbandonLocked(t)
  <2>1. \/ op'[t] = Idle
        \/ op'[t].kind = op[t].kind /\ op[t].kind = "confirm" /\ op'[t].pc = "release"
        \/ op'[t].kind = op[t].kind /\ op[t].kind \in {"respondLate", "respond", "await", "abandon"} /\ op'[t].pc = "hand"
        \/ op'[t].kind = op[t].kind /\ op[t].kind = "abandon" /\ op'[t].pc = "dispatch"
    BY <1>0, <1>10 DEF RespondLateLocked, ConfirmLocked, RespondLocked, AwaitLocked, AbandonLocked, At, Goto, Return, Ops
  <2> QED BY <1>1, <1>2, <2>1 DEF Way, Dispatching
<1>11. CASE UnbindLocked(t)
  <2>1. op'[t] = Idle \/ (op'[t].kind = op[t].kind /\ op[t].kind = "disconnect" /\ op'[t].pc = "leaving")
    BY <1>0, <1>11 DEF UnbindLocked, At, Ops
  <2> QED BY <1>1, <1>2, <2>1 DEF Way
<1>12. CASE Release(t)
  <2>1. op'[t].kind = op[t].kind /\ op'[t].pc = "rotate" /\ op[t].kind \in {"confirm", "respond"}
    BY <1>0, <1>12 DEF Release, Goto, Ops, Course, Way, Calls, Dispatching
  <2> QED BY <1>1, <2>1 DEF Way
<1>13. CASE Rotate(t)
  <2>1. PICK q : op' = [op EXCEPT ![t] = [Idle EXCEPT !.pc = "freeing", !.kind = "free", !.todo = q]]
    BY <1>13 DEF Rotate
  <2>2. op'[t].pc = "freeing" /\ op'[t].kind = "free"
    BY <1>0, <2>1 DEF Idle
  <2>3. t \in Consumers
    BY <1>0, <1>13 DEF Rotate, Fits, ByConsumers
  <2> QED BY <2>2, <2>3 DEF Course, Way, Whose
<1>14. CASE FreeNext(t) \/ FreeEnds(t) \/ LeaveNext(t) \/ SweepNext(t) \/ SweepEnters(t) \/ SweepSkips(t)
            \/ SweepLeaves(t) \/ Retire(t)
  <2>1. op'[t].kind = op[t].kind /\ op[t].kind \in {"free", "disconnect", "sweep"}
    BY SMTT(30), <1>0, <1>14 DEF FreeNext, FreeEnds, LeaveNext, SweepNext, SweepEnters, SweepSkips, SweepLeaves, Retire, At, Goto,
                       Ops, Fits
  <2>2. /\ op[t].kind = "free" => op'[t].pc \in {"freeing", "gate", "hand"}
        /\ op[t].kind = "disconnect" => op'[t].pc \in {"leaving", "gate"}
        /\ op[t].kind = "sweep" => op'[t].pc \in {"sweep", "gate", "sweeping", "retire"}
    BY SMTT(30), <1>0, <1>14 DEF FreeNext, FreeEnds, LeaveNext, SweepNext, SweepEnters, SweepSkips, SweepLeaves, Retire, At, Goto,
                       Ops, Fits
  <2> QED BY <1>1, <2>1, <2>2 DEF Way, Dispatching
<1>15. CASE LeaveLast(t)
  <2>1. t \in Consumers
    BY <1>0, <1>15 DEF LeaveLast, Fits, ByConsumers
  <2>2. CASE op'[t] = [Idle EXCEPT !.pc = "complete"]
    BY <2>2 DEF Idle, Course, Way, Whose
  <2>3. CASE op'[t] = TryGet("abandon", current[t].home, current[t].msg)
    <3>1. op'[t] = Idle \/ (op'[t].pc = "gate" /\ op'[t].kind = "abandon")
      BY <2>3, LookedUp DEF GoesTo
    <3> QED BY <1>2, <2>1, <3>1 DEF Course, Way, Whose
  <2> QED BY <1>0, <1>15, <2>2, <2>3 DEF LeaveLast
<1>16. CASE Reread(t) \/ AssignSettings(t)
  <2>1. op'[t].kind = op[t].kind /\ op[t].kind = "configure" /\ op'[t].pc \in {"assign", "gate"}
    BY <1>0, <1>16 DEF Reread, AssignSettings, Goto, Ops, Fits
  <2> QED BY <1>1, <2>1 DEF Way
<1>17. CASE PauseWrites(t)
  <2>1. op'[t] = Idle \/ (op'[t].pc = "reread" /\ op'[t].kind = "configure")
    <3>1. op'[t] = IF registry[op[t].name] = None THEN Idle
                   ELSE [TryGet("configure", op[t].name, None) EXCEPT !.pc = "reread"]
      BY <1>0, <1>17 DEF PauseWrites, Written
    <3> QED BY <3>1 DEF TryGet, Idle
  <2>2. t \in Callers
    BY <1>0, <1>17 DEF PauseWrites, Course, Way, Whose, Calls, Dispatching
  <2> QED BY <1>2, <2>1, <2>2 DEF Course, Way, Whose
<1> QED BY <1>3, <1>4, <1>5, <1>6, <1>7, <1>8, <1>9, <1>10, <1>11, <1>12, <1>13, <1>14, <1>15, <1>16, <1>17 DEF Step

\* Which steps there are at each point of a call.
LEMMA StepByPlace ==
  ASSUME NEW t \in Threads, Step(t)
  PROVE  /\ op[t].pc = "gate" =>
              \/ op[t].kind = "publish" /\ TryPublish(t)
              \/ op[t].kind = "bind" /\ BindLocked(t)
              \/ op[t].kind \in {"unbind", "disconnect"} /\ UnbindLocked(t)
              \/ op[t].kind \in {"free", "configure"} /\ DispatchLocked(t)
              \/ op[t].kind = "take" /\ TakeEnters(t)
              \/ op[t].kind = "respondLate" /\ RespondLateLocked(t)
              \/ op[t].kind = "collect" /\ CollectLocked(t)
              \/ op[t].kind = "confirm" /\ ConfirmLocked(t)
              \/ op[t].kind = "respond" /\ RespondLocked(t)
              \/ op[t].kind = "await" /\ AwaitLocked(t)
              \/ op[t].kind = "abandon" /\ AbandonLocked(t)
              \/ op[t].kind = "purge" /\ PurgeLocked(t)
              \/ op[t].kind = "sweep" /\ SweepEnters(t)
         /\ op[t].pc \in {"dispatch", "look"} => DispatchEnds(t) \/ DispatchBuries(t) \/ DispatchFinds(t)
         /\ op[t].pc = "scan" => ScanBusy(t) \/ ScanAcquires(t) \/ ScanEnds(t)
         /\ op[t].pc = "hand" => HandOver(t) \/ HandDone(t)
         /\ op[t].pc = "taking" => TakeBuries(t) \/ TakeReturns(t)
         /\ op[t].pc = "release" => Release(t)
         /\ op[t].pc = "rotate" => Rotate(t)
         /\ op[t].pc = "freeing" => FreeNext(t) \/ FreeEnds(t)
         /\ op[t].pc = "leaving" => LeaveNext(t) \/ LeaveLast(t)
         /\ op[t].pc = "complete" => Complete(t)
         /\ op[t].pc = "lookup" => Lookup(t)
         /\ op[t].pc = "resolve" => ReadSettings(t)
         /\ op[t].pc = "add" => AddQueue(t)
         /\ op[t].pc = "unregister" => Unregister(t)
         /\ op[t].pc = "reread" => Reread(t)
         /\ op[t].pc = "assign" => AssignSettings(t)
         /\ op[t].pc = "pausing" => PauseWrites(t)
         /\ op[t].pc = "sweep" => SweepNext(t) \/ SweepEnds(t)
         /\ op[t].pc = "sweeping" => SweepBuries(t) \/ SweepSkips(t) \/ SweepLeaves(t)
         /\ op[t].pc = "retire" => Retire(t)
         /\ op[t].pc # "idle"
<1>1. /\ Lookup(t) => op[t].pc = "lookup"
      /\ ReadSettings(t) => op[t].pc = "resolve"
      /\ AddQueue(t) => op[t].pc = "add"
      /\ Unregister(t) => op[t].pc = "unregister"
      /\ DispatchEnds(t) \/ DispatchBuries(t) \/ DispatchFinds(t) => op[t].pc \in {"dispatch", "look"}
      /\ ScanBusy(t) \/ ScanAcquires(t) \/ ScanEnds(t) => op[t].pc = "scan"
      /\ HandOver(t) \/ HandDone(t) => op[t].pc = "hand"
      /\ TakeBuries(t) \/ TakeReturns(t) => op[t].pc = "taking"
  BY DEF Lookup, ReadSettings, AddQueue, Unregister, DispatchEnds, DispatchBuries, DispatchFinds, Looking, ScanBusy,
         ScanAcquires, ScanEnds, HandOver, HandDone, TakeBuries, TakeReturns, At
<1>2. /\ Release(t) => op[t].pc = "release"
      /\ Rotate(t) => op[t].pc = "rotate"
      /\ FreeNext(t) \/ FreeEnds(t) => op[t].pc = "freeing"
      /\ LeaveNext(t) \/ LeaveLast(t) => op[t].pc = "leaving"
      /\ Complete(t) => op[t].pc = "complete"
      /\ Reread(t) => op[t].pc = "reread"
      /\ AssignSettings(t) => op[t].pc = "assign"
      /\ PauseWrites(t) => op[t].pc = "pausing"
      /\ SweepNext(t) \/ SweepEnds(t) => op[t].pc = "sweep"
      /\ SweepBuries(t) \/ SweepSkips(t) \/ SweepLeaves(t) => op[t].pc = "sweeping"
      /\ Retire(t) => op[t].pc = "retire"
  BY DEF Release, Rotate, FreeNext, FreeEnds, LeaveNext, LeaveLast, Complete, Reread, AssignSettings, PauseWrites,
         SweepNext, SweepEnds, SweepBuries, SweepSkips, SweepLeaves, Retire
<1>3. /\ TryPublish(t) => At(t, "gate", {"publish"})
      /\ BindLocked(t) => At(t, "gate", {"bind"})
      /\ UnbindLocked(t) => At(t, "gate", {"unbind", "disconnect"})
      /\ DispatchLocked(t) => At(t, "gate", {"free", "configure"})
      /\ TakeEnters(t) => At(t, "gate", {"take"})
      /\ RespondLateLocked(t) => At(t, "gate", {"respondLate"})
      /\ CollectLocked(t) => At(t, "gate", {"collect"})
      /\ ConfirmLocked(t) => At(t, "gate", {"confirm"})
      /\ RespondLocked(t) => At(t, "gate", {"respond"})
      /\ AwaitLocked(t) => At(t, "gate", {"await"})
      /\ AbandonLocked(t) => At(t, "gate", {"abandon"})
      /\ PurgeLocked(t) => At(t, "gate", {"purge"})
      /\ SweepEnters(t) => At(t, "gate", {"sweep"})
  BY DEF TryPublish, BindLocked, UnbindLocked, DispatchLocked, TakeEnters, RespondLateLocked, CollectLocked,
         ConfirmLocked, RespondLocked, AwaitLocked, AbandonLocked, PurgeLocked, SweepEnters
<1> QED BY <1>1, <1>2, <1>3 DEF Step, At

\* A call that changes its kind frees its consumer, abandons its message, or configures.
LEMMA KindKeeps ==
  ASSUME TypeInv, NEW t \in Threads, Step(t)
  PROVE  \/ op'[t].kind = op[t].kind
         \/ op'[t].kind = "none" /\ op'[t].pc \in {"idle", "complete"}
         \/ op[t].pc = "rotate" /\ op'[t].kind = "free"
         \/ op[t].pc = "leaving" /\ op'[t].kind = "abandon"
         \/ op[t].pc = "pausing" /\ op'[t].kind = "configure"
<1>0. op \in [Threads -> Ops] /\ op[t] \in Ops
  BY CallType
<1>1. CASE op'[t] = Idle
  BY <1>1 DEF Idle
<1>2. CASE Lookup(t) \/ ReadSettings(t) \/ AddQueue(t) \/ Unregister(t)
  <2>1. CASE AddQueue(t)
    <3>1. PICK i : op' = [op EXCEPT ![t].inst = i, ![t].pc = "gate"]
      BY <2>1 DEF AddQueue
    <3> QED BY <1>0, <3>1 DEF Ops
  <2>2. CASE Lookup(t)
    <3>1. op'[t] = GetOrAdd(op[t].kind, op[t].name, op[t].msg)
      BY <1>0, <2>2 DEF Lookup
    <3> QED BY <3>1, LookedUp DEF GoesTo
  <2>3. CASE ReadSettings(t) \/ Unregister(t)
    BY <1>0, <2>3 DEF ReadSettings, Unregister, Ops
  <2> QED BY <1>2, <2>1, <2>2, <2>3
<1>3. CASE TryPublish(t) \/ BindLocked(t) \/ DispatchLocked(t) \/ UnbindLocked(t) \/ DispatchEnds(t) \/ DispatchBuries(t)
           \/ DispatchFinds(t) \/ ScanBusy(t) \/ ScanAcquires(t) \/ ScanEnds(t)
  BY <1>0, <1>1, <1>3 DEF TryPublish, BindLocked, DispatchLocked, UnbindLocked, DispatchEnds, DispatchBuries,
       DispatchFinds, ScanBusy, ScanAcquires, ScanEnds, FinishDispatch, AfterDispatch, Goto, Ops
<1>4. CASE HandOver(t) \/ TakeEnters(t) \/ TakeBuries(t) \/ TakeReturns(t) \/ RespondLateLocked(t) \/ CollectLocked(t)
           \/ ConfirmLocked(t) \/ RespondLocked(t) \/ AwaitLocked(t) \/ AbandonLocked(t) \/ PurgeLocked(t)
  BY <1>0, <1>1, <1>4 DEF HandOver, TakeEnters, TakeBuries, TakeReturns, RespondLateLocked, CollectLocked,
       ConfirmLocked, RespondLocked, AwaitLocked, AbandonLocked, PurgeLocked, Goto, Return, Ops
<1>5. CASE HandDone(t)
  BY <1>0, <1>5 DEF HandDone, Ops, Idle
<1>6. CASE Release(t) \/ FreeNext(t) \/ FreeEnds(t) \/ LeaveNext(t) \/ Complete(t) \/ Reread(t) \/ AssignSettings(t)
           \/ SweepNext(t) \/ SweepEnters(t) \/ SweepBuries(t) \/ SweepSkips(t) \/ SweepLeaves(t) \/ Retire(t) \/ SweepEnds(t)
  BY <1>0, <1>1, <1>6 DEF Release, FreeNext, FreeEnds, LeaveNext, Complete, Reread, AssignSettings, SweepNext, SweepEnters,
       SweepBuries, SweepSkips, SweepLeaves, Retire, SweepEnds, Goto, Return, Ops
<1>7. CASE Rotate(t)
  <2>1. PICK q : op' = [op EXCEPT ![t] = [Idle EXCEPT !.pc = "freeing", !.kind = "free", !.todo = q]]
    BY <1>7 DEF Rotate
  <2> QED BY <1>0, <1>7, <2>1 DEF Idle, Rotate
<1>8. CASE LeaveLast(t)
  BY <1>0, <1>8 DEF LeaveLast, TryGet, Idle
<1>9. CASE PauseWrites(t)
  BY <1>0, <1>9 DEF PauseWrites, Written, TryGet, Idle
<1> QED BY <1>2, <1>3, <1>4, <1>5, <1>6, <1>7, <1>8, <1>9 DEF Step

\* Every call keeps to its course.
LEMMA CourseStep ==
  ASSUME TypeInv, [Next]_vars, \A t \in Threads : Course(t)
  PROVE  \A t \in Threads : Course(t)'
<1> SUFFICES ASSUME NEW t \in Threads
             PROVE  Course(t)'
  OBVIOUS
<1>1. CASE op'[t] = op[t]
  BY <1>1 DEF Course
<1>2. CASE Start
  BY <1>2, StartCourse
<1>3. CASE Tick \/ UNCHANGED vars
  BY <1>1, <1>3 DEF Tick, vars
<1>4. ASSUME NEW u \in Threads, Step(u)
      PROVE  Course(t)'
  BY <1>1, <1>4, StepCourse, StepOfOne DEF OthersWait
<1> QED BY <1>2, <1>3, <1>4 DEF Next

-----------------------------------------------------------------------------
(* What a call knows of the queue it goes to *)

\* The queue that is let go of was retired; the one that a message or a consumer is
\* brought to is still the one of its name, or was retired.
FoundCall(t) ==
  /\ op[t].pc \in {"unregister", "retire"} => removed[op[t].inst]
  /\ op[t].pc = "gate" /\ op[t].kind \in {"publish", "bind"}
       => removed[op[t].inst] \/ registry[op[t].name] = op[t].inst

\* Consumers are bound to queues that have a name.
BoundFound == \A i \in Instances : bound[i] # <<>> => \E n \in Names : registry[n] = i

RegistryInv == RetirementInv /\ BoundFound /\ \A t \in Threads : FoundCall(t)

\* A call that goes elsewhere knows nothing of it.
LEMMA FoundElsewhere ==
  ASSUME NEW t, op'[t].pc \notin {"gate", "unregister", "retire"}
         \/ (op'[t].pc = "gate" /\ op'[t].kind \notin {"publish", "bind"})
  PROVE  FoundCall(t)'
  BY DEF FoundCall

\* A call that begins has looked its queue up.
LEMMA StartFinds ==
  ASSUME TypeInv, Start, NEW t \in Threads
  PROVE  op'[t] = op[t] \/ FoundCall(t)'
<1>1. CASE UNCHANGED op
  BY <1>1
<1>2. CASE UNCHANGED registry /\ \E u \in Threads : Starts(u)
  <2>1. PICK u \in Threads : Starts(u)
    BY <1>2
  <2>2. FoundCall(u)'
    BY <1>2, <2>1 DEF Starts, Begins, Idle, GoesTo, FoundCall
  <2> QED BY <2>1, <2>2 DEF Starts, OthersWait
<1>3. UNCHANGED registry
  BY DEF Start, Publish, Bind, Unbind, Confirm, Respond, Settle, Await, Disconnect, Take, RespondLate, Collect,
         Configure, SetPaused, Purge, Requeue, DiscardDeadLetters, DiscardDeadLetter, Discard, StartSweep, stableVars
<1> QED BY <1>1, <1>2, <1>3, StartOfOne

\* So does one that goes on.
LEMMA StepFinds ==
  ASSUME TypeInv, NEW t \in Threads, Step(t)
  PROVE  op'[t] = op[t] \/ FoundCall(t)'
<1>0. op \in [Threads -> Ops] /\ op[t] \in Ops /\ Fits(t, op[t])
  BY CallType
<1>1. CASE Lookup(t)
  <2>1. op'[t] = GetOrAdd(op[t].kind, op[t].name, op[t].msg) /\ UNCHANGED registry
    BY <1>0, <1>1 DEF Lookup, stableVars
  <2> QED BY <2>1, LookedUp DEF FoundCall, GoesTo
<1>2. CASE AddQueue(t)
  <2>1. op'[t].inst = registry'[op'[t].name] /\ op'[t].pc = "gate"
    <3>1. op[t].name \in Names /\ registry \in [Names -> Instances \union {None}]
      BY <1>0, <1>2 DEF AddQueue, Fits, TypeInv, TypeOK
    <3>2. CASE registry[op[t].name] # None
      BY SMTT(30), <1>0, <1>2, <3>1, <3>2 DEF AddQueue, Ops
    <3>3. CASE registry[op[t].name] = None
      <4>1. PICK i \in Instances : /\ registry' = [registry EXCEPT ![op[t].name] = i]
                                   /\ op' = [op EXCEPT ![t].inst = i, ![t].pc = "gate"]
        BY <1>2, <3>3 DEF AddQueue
      <4> QED BY <1>0, <3>1, <4>1 DEF Ops
    <3> QED BY <3>2, <3>3
  <2> QED BY <2>1 DEF FoundCall
<1>3. CASE TryPublish(t) \/ BindLocked(t)
  <2>1. op'[t].pc = "dispatch" \/ (op'[t].pc = "unregister" /\ op'[t].inst = op[t].inst /\ removed[op[t].inst])
    BY <1>0, <1>3 DEF TryPublish, BindLocked, Goto, Ops
  <2>2. UNCHANGED removed
    BY <1>3 DEF TryPublish, BindLocked, stableVars
  <2> QED BY <2>1, <2>2 DEF FoundCall
<1>4. CASE SweepLeaves(t)
  <2>1. op'[t].inst = op[t].inst /\ op'[t].pc = IF removed'[op[t].inst] THEN "retire" ELSE "sweep"
    BY <1>0, <1>4 DEF SweepLeaves, Ops
  <2> QED BY <2>1 DEF FoundCall
<1>5. CASE ReadSettings(t) \/ Unregister(t) \/ UnbindLocked(t) \/ DispatchLocked(t) \/ DispatchEnds(t) \/ DispatchBuries(t)
           \/ DispatchFinds(t) \/ ScanBusy(t) \/ ScanAcquires(t) \/ ScanEnds(t)
  <2>1. op'[t].pc \notin {"gate", "unregister", "retire"}
    BY <1>0, <1>5 DEF ReadSettings, Unregister, UnbindLocked, DispatchLocked, DispatchEnds, DispatchBuries,
       DispatchFinds, ScanBusy, ScanAcquires, ScanEnds, FinishDispatch, AfterDispatch, Goto, Ops, Idle
  <2> QED BY <2>1, FoundElsewhere
<1>6. CASE HandOver(t) \/ HandDone(t) \/ TakeEnters(t) \/ TakeBuries(t) \/ TakeReturns(t) \/ RespondLateLocked(t)
           \/ CollectLocked(t) \/ ConfirmLocked(t) \/ RespondLocked(t) \/ AwaitLocked(t)
  <2>1. op'[t] = op[t] \/ op'[t].pc \notin {"gate", "unregister", "retire"}
    BY <1>0, <1>6 DEF HandOver, HandDone, TakeEnters, TakeBuries, TakeReturns, RespondLateLocked, CollectLocked,
       ConfirmLocked, RespondLocked, AwaitLocked, Goto, Return, Ops, Idle
  <2> QED BY <2>1, FoundElsewhere
<1>7. CASE Release(t) \/ Rotate(t) \/ FreeEnds(t) \/ AbandonLocked(t) \/ Complete(t) \/ Reread(t) \/ PurgeLocked(t)
           \/ SweepEnters(t) \/ SweepBuries(t) \/ SweepSkips(t) \/ Retire(t) \/ SweepEnds(t)
  <2>1. CASE Release(t) \/ FreeEnds(t) \/ AbandonLocked(t) \/ Reread(t) \/ SweepEnters(t) \/ SweepBuries(t)
             \/ SweepSkips(t) \/ Retire(t)
    <3>1. op'[t] = op[t] \/ op'[t].pc \notin {"gate", "unregister", "retire"}
      BY <1>0, <2>1 DEF Release, FreeEnds, AbandonLocked, Reread, SweepEnters, SweepBuries, SweepSkips, Retire,
         Goto, Ops
    <3> QED BY <3>1, FoundElsewhere
  <2>2. CASE Rotate(t) \/ Complete(t) \/ PurgeLocked(t) \/ SweepEnds(t)
    <3>1. ASSUME Rotate(t) PROVE op'[t].pc = "freeing"
      <4>1. PICK q : op' = [op EXCEPT ![t] = [Idle EXCEPT !.pc = "freeing", !.kind = "free", !.todo = q]]
        BY <3>1 DEF Rotate
      <4> QED BY <1>0, <4>1 DEF Idle
    <3>2. ASSUME ~Rotate(t) PROVE op'[t] = Idle
      BY <1>0, <2>2, <3>2 DEF Complete, PurgeLocked, SweepEnds, Return
    <3> QED BY <3>1, <3>2, FoundElsewhere DEF Idle
  <2> QED BY <1>7, <2>1, <2>2
<1>8. CASE FreeNext(t) \/ LeaveNext(t) \/ LeaveLast(t) \/ AssignSettings(t) \/ PauseWrites(t) \/ SweepNext(t)
  <2>1. op'[t].pc \notin {"unregister", "retire"} /\ op'[t].kind \notin {"publish", "bind"}
    <3>1. CASE FreeNext(t) \/ LeaveNext(t) \/ SweepNext(t) \/ AssignSettings(t)
      BY <1>0, <3>1 DEF FreeNext, LeaveNext, SweepNext, AssignSettings, Goto, Ops, Fits
    <3>2. CASE LeaveLast(t)
      BY <1>0, <3>2 DEF LeaveLast, TryGet, Idle
    <3>3. CASE PauseWrites(t)
      BY <1>0, <3>3 DEF PauseWrites, Written, TryGet, Idle
    <3> QED BY <1>8, <3>1, <3>2, <3>3
  <2> QED BY <2>1 DEF FoundCall
<1> QED BY <1>1, <1>2, <1>3, <1>4, <1>5, <1>6, <1>7, <1>8 DEF Step

\* A name keeps its queue, unless it was retired.
LEMMA NamesKeep ==
  ASSUME TypeInv, [Next]_vars, \A t \in Threads : FoundCall(t), NEW n \in Names, registry[n] # None
  PROVE  registry'[n] = registry[n] \/ removed[registry[n]]
<1>0. registry \in [Names -> Instances \union {None}]
  BY DEF TypeInv, TypeOK
<1>1. CASE UNCHANGED registry
  BY <1>1
<1>2. ASSUME NEW t \in Threads, Unregister(t) \/ Retire(t)
      PROVE  registry'[n] = registry[n] \/ removed[registry[n]]
  <2>1. removed[op[t].inst] /\ LetGo(op[t].name, op[t].inst)
    BY <1>2 DEF Unregister, Retire, At, FoundCall
  <2> QED BY <1>0, <2>1 DEF LetGo
<1>3. ASSUME NEW t \in Threads, AddQueue(t)
      PROVE  registry'[n] = registry[n]
  BY <1>0, <1>3 DEF AddQueue
<1>4. CASE Start
  BY <1>4 DEF Start, Publish, Bind, Unbind, Confirm, Respond, Settle, Await, Disconnect, Take, RespondLate, Collect,
         Configure, SetPaused, Purge, Requeue, DiscardDeadLetters, DiscardDeadLetter, Discard, StartSweep, stableVars
<1>5. CASE Tick \/ UNCHANGED vars
  BY <1>5 DEF Tick, vars
<1>6. ASSUME NEW t \in Threads, Step(t), ~(Unregister(t) \/ Retire(t) \/ AddQueue(t))
      PROVE  UNCHANGED registry
  BY <1>6 DEF Step, Lookup, ReadSettings, TryPublish, BindLocked, UnbindLocked, DispatchLocked, DispatchEnds,
       DispatchBuries, DispatchFinds, ScanBusy, ScanAcquires, ScanEnds, HandOver, HandDone, TakeEnters, TakeBuries,
       TakeReturns, RespondLateLocked, CollectLocked, ConfirmLocked, RespondLocked, AwaitLocked, Release, Rotate,
       FreeNext, FreeEnds, LeaveNext, LeaveLast, AbandonLocked, Complete, Reread, AssignSettings, PauseWrites,
       PurgeLocked, SweepNext, SweepEnters, SweepBuries, SweepSkips, SweepLeaves, SweepEnds, stableVars
<1> QED BY <1>1, <1>2, <1>3, <1>4, <1>5, <1>6 DEF Next

\* A queue that was retired stays so until nobody refers to it.
LEMMA RetiredKeeps ==
  ASSUME TypeInv, [Next]_vars, NEW i \in Instances, removed[i]
  PROVE  removed'[i] \/ Unused(i)
<1>0. removed \in [Instances -> BOOLEAN]
  BY DEF TypeInv, TypeOK
<1>1. ASSUME NEW t \in Threads, AddQueue(t) \/ SweepLeaves(t)
      PROVE  removed'[i] \/ Unused(i)
  BY <1>0, <1>1 DEF AddQueue, SweepLeaves
<1>2. CASE Start
  BY <1>2 DEF Start, Publish, Bind, Unbind, Confirm, Respond, Settle, Await, Disconnect, Take, RespondLate, Collect,
         Configure, SetPaused, Purge, Requeue, DiscardDeadLetters, DiscardDeadLetter, Discard, StartSweep,
         stableVars, queueVars
<1>3. CASE Tick \/ UNCHANGED vars
  BY <1>3 DEF Tick, vars, queueVars
<1>4. ASSUME NEW t \in Threads, Step(t), ~(SweepLeaves(t) \/ AddQueue(t))
      PROVE  UNCHANGED removed
  BY <1>4 DEF Step, Lookup, ReadSettings, Unregister, TryPublish, BindLocked, UnbindLocked, DispatchLocked,
       DispatchEnds, DispatchBuries, DispatchFinds, ScanBusy, ScanAcquires, ScanEnds, HandOver, HandDone, TakeEnters,
       TakeBuries, TakeReturns, RespondLateLocked, CollectLocked, ConfirmLocked, RespondLocked, AwaitLocked, Release,
       Rotate, FreeNext, FreeEnds, LeaveNext, LeaveLast, AbandonLocked, Complete, Reread, AssignSettings, PauseWrites,
       PurgeLocked, SweepNext, SweepEnters, SweepBuries, SweepSkips, SweepEnds, Retire, stableVars, queueVars
<1> QED BY <1>1, <1>2, <1>3, <1>4 DEF Next

\* Only Bind and Unbind, and a queue that is new, change who is bound.
LEMMA BoundStays ==
  ASSUME [Next]_vars, ~ \E t \in Threads : AddQueue(t) \/ UnbindLocked(t) \/ BindLocked(t)
  PROVE  UNCHANGED bound
<1>1. CASE Start
  BY <1>1 DEF Start, Publish, Bind, Unbind, Confirm, Respond, Settle, Await, Disconnect, Take, RespondLate, Collect,
         Configure, SetPaused, Purge, Requeue, DiscardDeadLetters, DiscardDeadLetter, Discard, StartSweep,
         bodyVars, queueVars
<1>2. CASE Tick \/ UNCHANGED vars
  BY <1>2 DEF Tick, vars, queueVars
<1>3. ASSUME NEW t \in Threads, Step(t)
      PROVE  UNCHANGED bound
  <2>1. CASE \/ Lookup(t) \/ ReadSettings(t) \/ Unregister(t) \/ DispatchLocked(t) \/ DispatchFinds(t) \/ ScanBusy(t)
             \/ HandOver(t) \/ HandDone(t) \/ Release(t) \/ Rotate(t) \/ FreeNext(t) \/ FreeEnds(t) \/ LeaveNext(t)
             \/ LeaveLast(t) \/ Complete(t) \/ Reread(t) \/ AssignSettings(t) \/ PauseWrites(t) \/ SweepNext(t)
             \/ SweepEnters(t) \/ SweepSkips(t) \/ SweepEnds(t) \/ Retire(t)
    BY <2>1 DEF Lookup, ReadSettings, Unregister, DispatchLocked, DispatchFinds, ScanBusy, HandOver, HandDone, Release,
         Rotate, FreeNext, FreeEnds, LeaveNext, LeaveLast, Complete, Reread, AssignSettings, PauseWrites, SweepNext,
         SweepEnters, SweepSkips, SweepEnds, Retire, bodyVars, queueVars
  <2>2. CASE DispatchEnds(t) \/ DispatchBuries(t) \/ ScanAcquires(t) \/ ScanEnds(t) \/ TakeEnters(t) \/ TakeBuries(t)
             \/ TakeReturns(t) \/ SweepBuries(t) \/ SweepLeaves(t) \/ PurgeLocked(t)
    BY <2>2 DEF DispatchEnds, DispatchBuries, BuryHead, ScanAcquires, Assign, ScanEnds, FinishDispatch, OnlyTracks,
         TakeEnters, TakeBuries, TakeReturns, TakeHead, SweepBuries, SweepPending, SweepLeaves, SweepInFlight,
         PurgeLocked, PurgeBody, bodyVars
  <2>3. CASE TryPublish(t) \/ RespondLateLocked(t) \/ CollectLocked(t) \/ ConfirmLocked(t) \/ RespondLocked(t)
             \/ AwaitLocked(t) \/ AbandonLocked(t)
    BY <2>3 DEF TryPublish, Accept, RespondLateLocked, LateRespondBody, CollectLocked, CollectBody, ConfirmLocked,
         ConfirmBody, RespondLocked, RespondBody, AwaitLocked, AwaitBody, OnlyTracks, AbandonLocked, GoesBack,
         DiesUnconfirmed, bodyVars
  <2> QED BY <1>3, <2>1, <2>2, <2>3 DEF Step
<1> QED BY <1>1, <1>2, <1>3 DEF Next

\* A queue has consumers, or one is bound to it that found it in the registry.
LEMMA BoundComes ==
  ASSUME TypeInv, [Next]_vars, NEW i \in Instances, bound'[i] # <<>>
  PROVE  \/ bound[i] # <<>>
         \/ \E t \in Threads : At(t, "gate", {"bind"}) /\ op[t].inst = i /\ ~removed[i]
<1>0. bound \in [Instances -> Seq(Consumers)]
  BY DEF TypeInv, TypeOK
<1>1. ASSUME NEW t \in Threads, AddQueue(t)
      PROVE  bound'[i] = bound[i] \/ bound'[i] = <<>>
  BY <1>0, <1>1 DEF AddQueue
<1>2. ASSUME NEW t \in Threads, UnbindLocked(t)
      PROVE  bound[i] # <<>>
  <2>1. bound[i] = <<>> => bound'[i] = <<>>
    BY <1>0, <1>2, RemoveFromEmpty DEF UnbindLocked, RemoveConsumer
  <2> QED BY <2>1
<1>3. ASSUME NEW t \in Threads, BindLocked(t), bound[i] = <<>>
      PROVE  At(t, "gate", {"bind"}) /\ op[t].inst = i /\ ~removed[i]
  BY <1>0, <1>3 DEF BindLocked, AddConsumer, bodyVars
<1>4. CASE ~ \E t \in Threads : AddQueue(t) \/ UnbindLocked(t) \/ BindLocked(t)
  BY <1>4, BoundStays
<1> QED BY <1>1, <1>2, <1>3, <1>4

-----------------------------------------------------------------------------
(* What is in a queue is found, step by step *)

\* Where a message is after a step, it was before, or has just been published to.
LEMMA WhereItWas ==
  ASSUME MessageInv, Move, NEW m \in Messages, NEW j \in Lines(m)' \union Flights(m)'
  PROVE  /\ entry'[m].home = entry[m].home
         /\ j \in Lines(m) \union Flights(m) \/ Queued(m, j)
<1>0. entry[m] \in Entries /\ Blank.owner = None
  BY MessageTypes DEF Blank
<1>1. ASSUME NEW M, Elsewhere(M), m \notin M
      PROVE  entry'[m] = entry[m] /\ j \in Lines(m) \union Flights(m)
  BY <1>1 DEF Elsewhere
<1>2. CASE Stays \/ \E c \in Consumers : Freed(c) \/ Closes(c)
  BY <1>1, <1>2 DEF Stays, Freed, Closes
<1>3. ASSUME NEW c \in Consumers, NEW x \in Messages, LetsGo(c, x)
      PROVE  entry'[m].home = entry[m].home /\ j \in Lines(m) \union Flights(m)
  <2>1. CASE x # m
    BY <1>1, <1>3, <2>1 DEF LetsGo, Goes
  <2>2. CASE x = m
    <3>1. /\ Answered(m).home = entry[m].home
          /\ [entry[m] EXCEPT !.owner = None].home = entry[m].home
      BY <1>0 DEF Answered, Entries
    <3>2. ~ \E f : Goes(m, {}, {}, Blank, f)
      BY DEF Goes
    <3>3. \/ \E i \in Instances : Flights(m) = {i} /\ Goes(m, {}, {i}, Answered(m), "live")
          \/ \E i \in Instances : Flights(m) = {i} /\ Goes(m, {i}, {}, [entry[m] EXCEPT !.owner = None], "live")
      BY <1>3, <2>2, <3>2 DEF LetsGo
    <3> QED BY <3>1, <3>3 DEF Goes
  <2> QED BY <2>1, <2>2
<1>4. ASSUME NEW c \in Consumers, NEW x \in Messages, AskedFor(x, c)
      PROVE  entry'[m].home = entry[m].home /\ j \in Lines(m) \union Flights(m)
  BY <1>0, <1>1, <1>4 DEF AskedFor, Goes, Entries
<1>5. ASSUME NEW x \in Messages, Born(x) \/ GoesOut(x) \/ IsHanded(x)
      PROVE  entry'[m].home = entry[m].home /\ j \in Lines(m) \union Flights(m)
  <2>1. CASE x # m
    BY <1>1, <1>5, <2>1 DEF Born, GoesOut, IsHanded, Goes
  <2>2. CASE Born(m)
    <3>1. Lines(m) = {} /\ Flights(m) = {}
      BY <2>2, NowhereUnlessLive, MessageTypes DEF Born
    <3> QED BY <2>2, <3>1 DEF Born, Goes
  <2>3. CASE GoesOut(m) \/ IsHanded(m)
    BY <2>3 DEF GoesOut, IsHanded, Goes
  <2> QED BY <1>5, <2>1, <2>2, <2>3
<1>6. ASSUME NEW x \in Messages, NEW i \in Instances, Queued(x, i) \/ PutAside(x, i) \/ IsKept(x, i)
      PROVE  entry'[m].home = entry[m].home /\ (j \in Lines(m) \union Flights(m) \/ Queued(m, j))
  <2>1. CASE x # m
    BY <1>1, <1>6, <2>1 DEF Queued, PutAside, IsKept, Goes
  <2>2. CASE x = m
    <3>1. /\ Answered(m).home = entry[m].home
          /\ [entry[m] EXCEPT !.born = now].home = entry[m].home
      BY <1>0 DEF Answered, Entries
    <3>2. entry'[m].home = entry[m].home
      BY <1>6, <2>2, <3>1 DEF Queued, PutAside, IsKept, Goes
    <3>3. j \in Lines(m) \union Flights(m) \/ Queued(m, j)
      BY <1>6, <2>2 DEF Queued, PutAside, IsKept, Goes
    <3> QED BY <3>2, <3>3
  <2> QED BY <2>1, <2>2
<1>7. ASSUME NEW x \in Messages, NEW i \in Instances, NEW c \in Consumers, Given(x, i, c)
      PROVE  entry'[m].home = entry[m].home /\ j \in Lines(m) \union Flights(m)
  BY <1>0, <1>1, <1>7 DEF Given, Goes, Entries
<1>8. ASSUME NEW M \in SUBSET Messages, End(M)
      PROVE  entry'[m].home = entry[m].home /\ j \in Lines(m) \union Flights(m)
  BY <1>1, <1>8 DEF End
<1> QED BY <1>2, <1>3, <1>4, <1>5, <1>6, <1>7, <1>8 DEF Move

\* What is owned stays in the dictionary, or is owned no more.
LEMMA OwnedAwayKept ==
  ASSUME MessageInv, Move
  PROVE  OwnedAway'
<1> SUFFICES ASSUME NEW m \in Messages, entry'[m].owner # None
             PROVE  Flights(m)' # {}
  BY DEF OwnedAway
<1>0. entry[m] \in Entries /\ Blank.owner = None /\ (entry[m].owner # None => Flights(m) # {})
      /\ (fate[m] # "live" => entry[m].owner = None)
  BY NowhereUnlessLive, MessageTypes DEF Blank, OwnedAway
<1>1. ASSUME NEW M, Elsewhere(M), m \notin M
      PROVE  Flights(m)' # {}
  BY <1>0, <1>1 DEF Elsewhere
<1>2. CASE Stays \/ \E c \in Consumers : Freed(c) \/ Closes(c)
  BY <1>1, <1>2 DEF Stays, Freed, Closes
<1>3. ASSUME NEW c \in Consumers, NEW x \in Messages, LetsGo(c, x)
      PROVE  Flights(m)' # {}
  BY <1>0, <1>1, <1>3 DEF LetsGo, Goes, Answered, Entries
<1>4. ASSUME NEW c \in Consumers, NEW x \in Messages, AskedFor(x, c)
      PROVE  Flights(m)' # {}
  BY <1>0, <1>1, <1>4 DEF AskedFor, Goes, Entries
<1>5. ASSUME NEW x \in Messages, Born(x) \/ GoesOut(x) \/ IsHanded(x)
      PROVE  Flights(m)' # {}
  <2>1. CASE x # m
    BY <1>1, <1>5, <2>1 DEF Born, GoesOut, IsHanded, Goes
  <2>2. CASE x = m
    BY <1>0, <1>5, <2>2 DEF Born, GoesOut, IsHanded, Goes
  <2> QED BY <2>1, <2>2
<1>6. ASSUME NEW x \in Messages, NEW i \in Instances, Queued(x, i) \/ PutAside(x, i) \/ IsKept(x, i)
      PROVE  Flights(m)' # {}
  <2>1. CASE x # m
    BY <1>1, <1>6, <2>1 DEF Queued, PutAside, IsKept, Goes
  <2>2. CASE x = m
    BY <1>0, <1>6, <2>2 DEF Queued, PutAside, IsKept, Goes, Answered, Entries
  <2> QED BY <2>1, <2>2
<1>7. ASSUME NEW x \in Messages, NEW i \in Instances, NEW c \in Consumers, Given(x, i, c)
      PROVE  Flights(m)' # {}
  BY <1>0, <1>1, <1>7 DEF Given, Goes, Entries
<1>8. ASSUME NEW M \in SUBSET Messages, End(M)
      PROVE  Flights(m)' # {}
  BY <1>0, <1>1, <1>8 DEF End
<1> QED BY <1>2, <1>3, <1>4, <1>5, <1>6, <1>7, <1>8 DEF Move

\* The invariant, and what follows from it about one queue.
FoundInv == MessageInv /\ RegistryInv

\* A message of a queue is live, and its queue is the one the registry has by the name of its home.
LEMMA HeldInQueue ==
  ASSUME FoundInv, NEW m \in Messages, NEW j \in Lines(m) \union Flights(m)
  PROVE  /\ j \in Instances /\ m \in Content(j) /\ ~removed[j] /\ fate[m] = "live"
         /\ entry[m].home \in Names /\ registry[entry[m].home] = j
<1>1. j \in Instances /\ m \in Content(j)
  BY DEF Lines, Flights, InLine, InAir, Content
<1>2. fate[m] = "live" /\ entry[m].home \in Names /\ registry[entry[m].home] = j
  BY <1>1, WhereItIs, HomeOfLive, MessageTypes DEF FoundInv, Found
<1>3. removed[j] => Content(j) = {}
  BY <1>1 DEF FoundInv, RegistryInv, RetirementInv, RetiredQueueHoldsNothing, Content, ToSet
<1> QED BY <1>1, <1>2, <1>3

\* Every step preserves it: what is moved stays in the queue it was in or leaves it for good.
LEMMA FoundStep == FoundInv /\ [Next]_vars => FoundInv'
<1> SUFFICES ASSUME FoundInv, [Next]_vars
             PROVE  FoundInv'
  OBVIOUS
<1>1. /\ MessageInv /\ TypeInv /\ AnswersAway /\ RetirementInv /\ BoundFound /\ \A t \in Threads : FoundCall(t)
      /\ \A i \in Instances : removed[i] => bound[i] = <<>>
  BY MessageTypes DEF FoundInv, RegistryInv, RetirementInv, RetiredQueueHoldsNothing
<1>2. TypeInv' /\ AnswersAway' /\ RetirementInv' /\ Move
  BY <1>1, TypeStep, RetirementStep, MoveStep
<1>3. OwnedAway'
  BY <1>1, <1>2, OwnedAwayKept
<1>4. Found'
  <2> SUFFICES ASSUME NEW i \in Instances, NEW m \in Content(i)'
               PROVE  registry'[entry'[m].home] = i
    BY DEF Found
  <2>1. m \in Messages /\ i \in Lines(m)' \union Flights(m)'
    <3>1. m \in Messages
      <4>1. pending' \in [Instances -> Seq(Messages)] /\ inFlight' \in [Instances -> SUBSET Messages]
        BY <1>2 DEF TypeInv, TypeOK
      <4> QED BY <4>1 DEF Content, ToSet
    <3> QED BY <3>1 DEF Lines, Flights, InLine, InAir, Content
  <2>2. entry'[m].home = entry[m].home /\ (i \in Lines(m) \union Flights(m) \/ Queued(m, i))
    BY <1>1, <1>2, <2>1, WhereItWas
  <2>3. entry[m].home \in Names /\ registry[entry[m].home] = i /\ ~removed[i]
    <3>1. CASE i \in Lines(m) \union Flights(m)
      BY <2>1, <3>1, HeldInQueue
    <3>2. CASE Queued(m, i)
      <4>1. PICK t \in Threads : At(t, "gate", {"publish"}) /\ op[t].inst = i /\ op[t].msg = m /\ ~removed[i]
        BY <3>2 DEF Queued
      <4>2. FoundCall(t) /\ Fits(t, op[t]) /\ JoinsOnce
        BY <1>1, CallType DEF TypeInv, Places
      <4>3. op[t].name \in Names /\ entry[m].home = op[t].name
        BY <4>1, <4>2 DEF Fits, At, JoinsOnce, Joins
      <4> QED BY <4>1, <4>2, <4>3 DEF FoundCall, At
    <3> QED BY <2>2, <3>1, <3>2
  <2>4. registry[entry[m].home] # None
    BY <2>3, ThreadsAssumption
  <2> QED BY <1>1, <2>2, <2>3, <2>4, NamesKeep
<1>5. BoundFound'
  <2> SUFFICES ASSUME NEW i \in Instances, bound'[i] # <<>>
               PROVE  \E n \in Names : registry'[n] = i
    BY DEF BoundFound
  <2>1. ~removed[i] /\ \E n \in Names : registry[n] = i
    <3>1. CASE bound[i] # <<>>
      BY <1>1, <3>1 DEF BoundFound
    <3>2. CASE \E t \in Threads : At(t, "gate", {"bind"}) /\ op[t].inst = i /\ ~removed[i]
      <4>1. PICK t \in Threads : At(t, "gate", {"bind"}) /\ op[t].inst = i /\ ~removed[i]
        BY <3>2
      <4>2. FoundCall(t) /\ Fits(t, op[t])
        BY <1>1, CallType
      <4> QED BY <4>1, <4>2 DEF FoundCall, At, Fits
    <3> QED BY <1>1, <3>1, <3>2, BoundComes
  <2>2. PICK n \in Names : registry[n] = i
    BY <2>1
  <2>3. registry[n] # None
    BY <2>2, ThreadsAssumption
  <2> QED BY <1>1, <2>1, <2>2, <2>3, NamesKeep
<1>6. \A t \in Threads : FoundCall(t)'
  <2> SUFFICES ASSUME NEW t \in Threads
               PROVE  FoundCall(t)'
    OBVIOUS
  <2>1. op'[t] = op[t] \/ FoundCall(t)'
    <3>1. CASE Start
      BY <1>1, <3>1, StartFinds
    <3>2. CASE Tick \/ UNCHANGED vars
      BY <3>2 DEF Tick, vars
    <3>3. ASSUME NEW u \in Threads, Step(u)
          PROVE  op'[t] = op[t] \/ FoundCall(t)'
      <4>1. CASE u = t
        BY <1>1, <3>3, <4>1, StepFinds
      <4>2. CASE u # t
        BY <1>1, <3>3, <4>2, StepOfOne DEF OthersWait
      <4> QED BY <4>1, <4>2
    <3> QED BY <3>1, <3>2, <3>3 DEF Next
  <2>2. CASE op'[t] = op[t]
    <3>1. FoundCall(t) /\ Fits(t, op[t])
      BY <1>1, CallType
    <3>2. ASSUME op[t].inst \in Instances, removed[op[t].inst]
          PROVE  removed'[op[t].inst]
      BY <1>1, <3>2, RetiredKeeps DEF Unused
    <3>3. ASSUME op[t].inst \in Instances, op[t].name \in Names, registry[op[t].name] = op[t].inst
          PROVE  removed'[op[t].inst] \/ registry'[op[t].name] = op[t].inst
      <4>1. registry[op[t].name] # None
        BY <3>3, ThreadsAssumption
      <4> QED BY <1>1, <3>2, <3>3, <4>1, NamesKeep
    <3> QED BY <2>2, <3>1, <3>2, <3>3 DEF FoundCall, Fits, InQueue
  <2> QED BY <2>1, <2>2
<1> QED BY <1>2, <1>3, <1>4, <1>5, <1>6 DEF FoundInv, MessageInv, RegistryInv


\* The invariant holds before anybody called.
LEMMA FoundInit == Init => FoundInv
<1> SUFFICES ASSUME Init PROVE FoundInv
  OBVIOUS
<1>1. TypeInv /\ AnswersAway /\ RetirementInv
  BY TypeInit, RetirementInit
<1>2. /\ \A i \in Instances : pending[i] = <<>> /\ inFlight[i] = {} /\ bound[i] = <<>>
      /\ \A m \in Messages : entry[m].owner = None
      /\ \A t \in Threads : op[t].pc = "idle"
  BY DEF Init, Blank, Idle
<1>3. \A i \in Instances : Content(i) = {}
  BY <1>2 DEF Content, ToSet
<1>4. OwnedAway /\ Found /\ BoundFound /\ \A t \in Threads : FoundCall(t)
  BY <1>2, <1>3 DEF OwnedAway, Found, BoundFound, FoundCall
<1> QED BY <1>1, <1>4 DEF FoundInv, MessageInv, RegistryInv

\* Broker.cs: whatever is in a queue is reached by its name.  A message in the line or in
\* the dictionary, and a consumer that is bound, are in a queue that the registry has.
THEOREM NothingStranded == Spec => []NothingIsStranded
<1>1. Init => FoundInv
  BY FoundInit
<1>2. FoundInv /\ [Next]_vars => FoundInv'
  BY FoundStep
<1>3. FoundInv => NothingIsStranded
  <2> SUFFICES ASSUME FoundInv, NEW i \in Instances
               PROVE  /\ \A k \in DOMAIN pending[i] : registry[entry[pending[i][k]].home] = i
                      /\ \A m \in inFlight[i] : registry[entry[m].home] = i
                      /\ \A k \in DOMAIN bound[i] : \E n \in Names : registry[n] = i
    BY DEF NothingIsStranded
  <2>1. Found /\ BoundFound
    BY DEF FoundInv, MessageInv, RegistryInv
  <2>2. \A k \in DOMAIN pending[i] : pending[i][k] \in Content(i)
    BY DEF Content, ToSet
  <2>3. \A m \in inFlight[i] : m \in Content(i)
    BY DEF Content
  <2>4. (\E k : k \in DOMAIN bound[i]) => bound[i] # <<>>
    BY EmptySeq
  <2> QED BY <2>1, <2>2, <2>3, <2>4 DEF Found, BoundFound
<1> QED BY <1>1, <1>2, <1>3, PTL DEF Spec
==============================================================================
