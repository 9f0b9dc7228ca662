----------------------------- MODULE MessageQueue -----------------------------
(***************************************************************************)
(* The queues, the messages in them and the consumers they are pushed to:  *)
(* the state of ZapMQ.Core/MessageQueue.cs and Consumer.cs and what each   *)
(* method does to it.  Every method of a queue runs under the lock of that *)
(* queue, gate[i]; the ones that loop (Dispatch, Sweep, FirstDeliverable)  *)
(* keep the lock over several steps, because the state of a consumer and   *)
(* the settings of a queue change without it.  Module Broker gives these   *)
(* steps to threads.                                                       *)
(*                                                                         *)
(* A queue is an instance, not a name: the broker may let go of one and    *)
(* make another with the same name while a thread still holds the first.   *)
(***************************************************************************)
EXTENDS DeadLetterStore, FiniteSets

CONSTANTS
  Names,           (* queue names                                          *)
  Instances,       (* MessageQueue objects                                 *)
  Messages,        (* message ids                                          *)
  Consumers,       (* connections the broker pushes messages to            *)
  None,            (* null                                                 *)
  EmptyLifetime    (* how long a queue is kept after its last message left *)

VARIABLES
  pending,         (* instance -> ids in the line, head first              *)
  inFlight,        (* instance -> ids delivered and not finished           *)
  bound,           (* instance -> consumers it pushes to                   *)
  nextConsumer,    (* instance -> where the next round of the robin starts *)
  emptySince,      (* instance -> when it became empty, or Never           *)
  removed,         (* instance -> the broker has let go of it              *)
  settings,        (* instance -> retention, limit, maxAge, redeliver, paused *)
  gate,            (* instance -> the thread inside its lock, or None      *)
  entry,           (* id -> the Entry object                               *)
  fate,            (* id -> what became of it: which counter counted it    *)
  dead,            (* name -> its dead letters, oldest first               *)
  cstate,          (* consumer -> "free", "busy" or "closed"               *)
  queues,          (* consumer -> names it is bound to, in binding order   *)
  lastQueue,       (* consumer -> name its last message came from          *)
  current,         (* consumer -> the message it has not confirmed, or None *)
  now              (* the clock                                            *)

queueVars    == << pending, inFlight, bound, nextConsumer, emptySince, removed, settings, gate >>
contentVars  == << pending, inFlight, emptySince >>
messageVars  == << entry, fate, dead >>
consumerVars == << cstate, queues, lastQueue, current >>

Never == -1

Blank == [ home |-> None, rpc |-> FALSE, ttl |-> 0, born |-> 0, owner |-> None,
           replyTo |-> None, answered |-> FALSE, answeredAt |-> 0 ]

\* Ids that are finished keep no entry: the object is garbage.
Forget(m)     == entry' = [entry EXCEPT ![m] = Blank]
Becomes(m, f) == fate' = [fate EXCEPT ![m] = f]

-----------------------------------------------------------------------------
(* Private helpers of the queue *)

IsPastRetention(i, m) == now - entry[m].born > settings[i].retention

IsExpired(m) == entry[m].ttl > 0 /\ now - entry[m].born > entry[m].ttl

IsDead(i, m) == IsExpired(m) \/ IsPastRetention(i, m)

DeathOf(m) == IF IsExpired(m) THEN "expired" ELSE "notConsumed"

\* TrackEmptiness at the end of a method that leaves these contents behind.
TrackEmptiness(i, line, flight) ==
  emptySince' = [emptySince EXCEPT ![i] =
                   IF line = <<>> /\ flight = {} /\ @ = Never THEN now ELSE @]

\* Bury(entry, reason): the letter goes to the store under the limits of the queue.
Bury(i, m, why) ==
  LET letter == [ msg |-> m, rpc |-> entry[m].rpc, why |-> why, diedAt |-> now ]
  IN  /\ dead' = [dead EXCEPT ![entry[m].home] =
                    Added(@, letter, settings[i].limit, settings[i].maxAge)]
      /\ Becomes(m, why)
      /\ Forget(m)

\* BuryIfDead on a message of the line that is dead.
BuryPending(i, m) ==
  /\ IsDead(i, m)
  /\ pending' = [pending EXCEPT ![i] = RemoveFirst(@, m)]
  /\ Bury(i, m, DeathOf(m))

\* PushResponse hands an answer over only when somebody who is not closed waits for it.
SomebodyWaits(receiver) == receiver # None /\ cstate[receiver] # "closed"

Response(receiver, m) == [ to |-> receiver, msg |-> m, response |-> TRUE ]
Delivery(receiver, m) == [ to |-> receiver, msg |-> m, response |-> FALSE ]

Owns(c, i, m) == m \in inFlight[i] /\ entry[m].owner = c

-----------------------------------------------------------------------------
(* The lock *)

Enter(i, t)  == gate[i] = None /\ gate' = [gate EXCEPT ![i] = t]
Leave(i)     == gate' = [gate EXCEPT ![i] = None]
Unlocked(i)  == gate[i] = None /\ UNCHANGED gate

-----------------------------------------------------------------------------
(* The methods, inside the lock.  Each says what the method does to the    *)
(* queue, the messages and the consumers; settings, queues, removed and    *)
(* the clock are left to the module that takes the step.                   *)

\* TryPublish, up to Dispatch: the message joins the end of the line.
Accept(i, m) ==
  /\ pending' = [pending EXCEPT ![i] = Append(@, m)]
  /\ entry' = [entry EXCEPT ![m].born = now]
  /\ Becomes(m, "live")
  /\ emptySince' = [emptySince EXCEPT ![i] = Never]
  /\ UNCHANGED << inFlight, bound, nextConsumer, dead, cstate, lastQueue, current >>

\* Bind, up to Dispatch.
AddConsumer(i, c) ==
  /\ bound' = [bound EXCEPT ![i] = IF Contains(@, c) THEN @ ELSE Append(@, c)]
  /\ UNCHANGED << contentVars, messageVars, nextConsumer, cstate, lastQueue, current >>

\* Mutant: the turn is not reset.
KeepTurn(i, c) ==
  /\ bound' = [bound EXCEPT ![i] = RemoveFirst(@, c)]
  /\ UNCHANGED << contentVars, messageVars, nextConsumer, cstate, lastQueue, current >>

\* Unbind.
RemoveConsumer(i, c) ==
  /\ bound' = [bound EXCEPT ![i] = RemoveFirst(@, c)]
  /\ nextConsumer' = [nextConsumer EXCEPT ![i] = 0]
  /\ UNCHANGED << contentVars, messageVars, cstate, lastQueue, current >>

\* FirstDeliverable buries the dead messages it finds at the head, one by one.
BuryHead(i) ==
  /\ pending[i] # <<>>
  /\ BuryPending(i, Head(pending[i]))
  /\ UNCHANGED << inFlight, emptySince, bound, nextConsumer, cstate, lastQueue, current >>

HeadIsDeliverable(i) == pending[i] # <<>> /\ ~IsDead(i, Head(pending[i]))

\* The consumer NextFreeConsumer looks at after passing k busy ones.
Candidate(i, k) == ((nextConsumer[i] + k) % Len(bound[i])) + 1

\* Mutant: the message is assigned to a consumer that was not acquired.
AssignUnacquired(i, k) ==
  LET at == Candidate(i, k)
      c  == bound[i][at]
      m  == Head(pending[i])
  IN  /\ pending[i] # <<>>
      /\ cstate[c] # "closed"
      /\ cstate' = [cstate EXCEPT ![c] = "busy"]
      /\ nextConsumer' = [nextConsumer EXCEPT ![i] = at % Len(bound[i])]
      /\ pending' = [pending EXCEPT ![i] = Tail(@)]
      /\ inFlight' = [inFlight EXCEPT ![i] = @ \union {m}]
      /\ entry' = [entry EXCEPT ![m].owner = c]
      /\ current' = [current EXCEPT ![c] = [home |-> entry[m].home, msg |-> m]]
      /\ lastQueue' = [lastQueue EXCEPT ![c] = entry[m].home]
      /\ UNCHANGED << emptySince, bound, fate, dead >>

\* One turn of Dispatch's loop that found a free consumer: TryAcquire, then the head goes to it.
Assign(i, k) ==
  LET at == Candidate(i, k)
      c  == bound[i][at]
      m  == Head(pending[i])
  IN  /\ pending[i] # <<>>
      /\ cstate[c] = "free"
      /\ cstate' = [cstate EXCEPT ![c] = "busy"]
      /\ nextConsumer' = [nextConsumer EXCEPT ![i] = at % Len(bound[i])]
      /\ pending' = [pending EXCEPT ![i] = Tail(@)]
      /\ inFlight' = [inFlight EXCEPT ![i] = @ \union {m}]
      /\ entry' = [entry EXCEPT ![m].owner = c]
      /\ current' = [current EXCEPT ![c] = [home |-> entry[m].home, msg |-> m]]
      /\ lastQueue' = [lastQueue EXCEPT ![c] = entry[m].home]
      /\ UNCHANGED << emptySince, bound, fate, dead >>

\* A method that changes nothing else still looks whether the queue is empty.
OnlyTracks(i) ==
  /\ TrackEmptiness(i, pending[i], inFlight[i])
  /\ UNCHANGED << pending, inFlight, bound, nextConsumer, messageVars, cstate, lastQueue, current >>

\* Take of a live head: an RPC message then waits for its response, a plain one is finished.
TakeHead(i) ==
  LET m == Head(pending[i])
  IN  /\ HeadIsDeliverable(i)
      /\ pending' = [pending EXCEPT ![i] = Tail(@)]
      /\ IF entry[m].rpc
         THEN /\ inFlight' = [inFlight EXCEPT ![i] = @ \union {m}]
              /\ UNCHANGED << entry, fate >>
         ELSE /\ Forget(m)
              /\ Becomes(m, "taken")
              /\ UNCHANGED inFlight
      /\ TrackEmptiness(i, Tail(pending[i]), inFlight'[i])
      /\ UNCHANGED << bound, nextConsumer, dead, cstate, lastQueue, current >>

\* A message that is finished leaves the dictionary of the queue.
Finish(i, m, f) ==
  /\ inFlight' = [inFlight EXCEPT ![i] = @ \ {m}]
  /\ TrackEmptiness(i, pending'[i], inFlight[i] \ {m})
  /\ Forget(m)
  /\ Becomes(m, f)

\* Confirm(consumer, id) by the owner.
ConfirmBody(c, i, m) ==
  /\ Owns(c, i, m)
  /\ UNCHANGED pending
  /\ Finish(i, m, "confirmed")
  /\ current' = [current EXCEPT ![c] = None]
  /\ UNCHANGED << bound, nextConsumer, dead, cstate, lastQueue >>

\* StoreResponse.
Answered(m) == [entry[m] EXCEPT !.owner = None, !.answered = TRUE, !.answeredAt = now]

\* The answer is written and stays in the dictionary.
KeepAnswer(i, m) ==
  /\ entry' = [entry EXCEPT ![m] = Answered(m)]
  /\ inFlight' = [inFlight EXCEPT ![i] = @ \union {m}]
  /\ UNCHANGED << fate, emptySince >>

\* Respond(consumer, id, response): confirms a plain message, answers an RPC one.
RespondBody(c, i, m) ==
  /\ Owns(c, i, m)
  /\ current' = [current EXCEPT ![c] = None]
  /\ UNCHANGED << pending, bound, nextConsumer, dead, cstate, lastQueue >>
  /\ \/ ~entry[m].rpc /\ Finish(i, m, "confirmed")
     \/ entry[m].rpc /\ SomebodyWaits(entry[m].replyTo) /\ Finish(i, m, "pushed")
     \/ entry[m].rpc /\ ~SomebodyWaits(entry[m].replyTo) /\ KeepAnswer(i, m)

\* Respond(id, response, includeUndelivered: true) finds the message: in the
\* dictionary, or in the line, which it takes it out of at once.
Reachable(i, m) == m \in inFlight[i] \/ Contains(pending[i], m)

RefusesAnswer(i, m) ==
  \/ entry[m].owner # None
  \/ ~entry[m].answered /\ IsPastRetention(i, m)

LateRespondBody(i, m) ==
  /\ Reachable(i, m)
  /\ pending' = [pending EXCEPT ![i] = IF m \in inFlight[i] THEN @ ELSE RemoveFirst(@, m)]
  /\ UNCHANGED << bound, nextConsumer, dead, cstate, lastQueue, current >>
  /\ \/ /\ RefusesAnswer(i, m)
        /\ inFlight' = [inFlight EXCEPT ![i] = @ \union {m}]
        /\ UNCHANGED << entry, fate, emptySince >>
     \/ /\ ~RefusesAnswer(i, m)
        /\ \/ SomebodyWaits(entry[m].replyTo) /\ Finish(i, m, "pushed")
           \/ ~SomebodyWaits(entry[m].replyTo) /\ KeepAnswer(i, m)

\* TakeResponse(id) of an answered message.
CollectBody(i, m) ==
  /\ m \in inFlight[i]
  /\ entry[m].answered
  /\ UNCHANGED pending
  /\ Finish(i, m, "collected")
  /\ UNCHANGED << bound, nextConsumer, dead, cstate, lastQueue, current >>

\* Mutants: an answer that is there is not handed over; it is, and stays there.
AwaitWithoutPush(c, i, m) ==
  /\ Reachable(i, m)
  /\ entry[m].rpc
  /\ entry' = [entry EXCEPT ![m].replyTo = c]
  /\ UNCHANGED << contentVars, bound, nextConsumer, fate, dead, cstate, lastQueue, current >>

AwaitAndKeep(c, i, m) ==
  /\ Reachable(i, m)
  /\ entry[m].rpc
  /\ entry' = [entry EXCEPT ![m].replyTo = c]
  /\ fate' = IF entry[m].answered THEN [fate EXCEPT ![m] = "pushed"] ELSE fate
  /\ UNCHANGED << contentVars, bound, nextConsumer, dead, cstate, lastQueue, current >>

\* Await(consumer, id) of an RPC message that is still here.
AwaitBody(c, i, m) ==
  /\ Reachable(i, m)
  /\ entry[m].rpc
  /\ UNCHANGED << pending, bound, nextConsumer, dead, cstate, lastQueue, current >>
  /\ \/ /\ entry[m].answered /\ SomebodyWaits(c)
        /\ Finish(i, m, "pushed")
     \/ /\ ~(entry[m].answered /\ SomebodyWaits(c))
        /\ entry' = [entry EXCEPT ![m].replyTo = c]
        /\ UNCHANGED << inFlight, emptySince, fate >>

\* Mutants: the message keeps its owner; it stays in the dictionary.
GoesBackOwned(c, i, m) ==
  /\ Owns(c, i, m)
  /\ settings[i].redeliver
  /\ inFlight' = [inFlight EXCEPT ![i] = @ \ {m}]
  /\ pending' = [pending EXCEPT ![i] = <<m>> \o @]
  /\ emptySince' = [emptySince EXCEPT ![i] = Never]
  /\ current' = [current EXCEPT ![c] = None]
  /\ UNCHANGED << bound, nextConsumer, entry, fate, dead, cstate, lastQueue >>

GoesBackAndStays(c, i, m) ==
  /\ Owns(c, i, m)
  /\ settings[i].redeliver
  /\ pending' = [pending EXCEPT ![i] = <<m>> \o @]
  /\ emptySince' = [emptySince EXCEPT ![i] = Never]
  /\ entry' = [entry EXCEPT ![m].owner = None]
  /\ current' = [current EXCEPT ![c] = None]
  /\ UNCHANGED << inFlight, bound, nextConsumer, fate, dead, cstate, lastQueue >>

\* Abandon(consumer, id), up to Dispatch: back to the head, or to the dead letters.
GoesBack(c, i, m) ==
  /\ Owns(c, i, m)
  /\ settings[i].redeliver
  /\ inFlight' = [inFlight EXCEPT ![i] = @ \ {m}]
  /\ pending' = [pending EXCEPT ![i] = <<m>> \o @]
  /\ emptySince' = [emptySince EXCEPT ![i] = Never]
  /\ entry' = [entry EXCEPT ![m].owner = None]
  /\ current' = [current EXCEPT ![c] = None]
  /\ UNCHANGED << bound, nextConsumer, fate, dead, cstate, lastQueue >>

DiesUnconfirmed(c, i, m) ==
  /\ Owns(c, i, m)
  /\ ~settings[i].redeliver
  /\ inFlight' = [inFlight EXCEPT ![i] = @ \ {m}]
  /\ Bury(i, m, "unconfirmed")
  /\ current' = [current EXCEPT ![c] = None]
  /\ TrackEmptiness(i, pending[i], inFlight[i] \ {m})
  /\ UNCHANGED << pending, bound, nextConsumer, cstate, lastQueue >>

\* Purge.
PurgeBody(i) ==
  LET gone == ToSet(pending[i])
  IN  /\ pending' = [pending EXCEPT ![i] = <<>>]
      /\ TrackEmptiness(i, <<>>, inFlight[i])
      /\ entry' = [m \in Messages |-> IF m \in gone THEN Blank ELSE entry[m]]
      /\ fate' = [m \in Messages |-> IF m \in gone THEN "purged" ELSE fate[m]]
      /\ UNCHANGED << inFlight, bound, nextConsumer, dead, cstate, lastQueue, current >>

\* Sweep of the k-th message of the line, when it is dead.
SweepPending(i, k) ==
  /\ BuryPending(i, pending[i][k])
  /\ UNCHANGED << inFlight, emptySince, bound, nextConsumer, cstate, lastQueue, current >>

\* Mutant: what a consumer is processing has a deadline too.
OutlivedOrHeld(i) ==
  { m \in inFlight[i] :
      now - (IF entry[m].answered THEN entry[m].answeredAt ELSE entry[m].born)
        > settings[i].retention }

\* Sweep of the dictionary.  A message a connected consumer is processing has no deadline.
Outlived(i) ==
  { m \in inFlight[i] :
      /\ entry[m].owner = None
      /\ now - (IF entry[m].answered THEN entry[m].answeredAt ELSE entry[m].born)
           > settings[i].retention }

SweepInFlight(i) ==
  /\ inFlight' = [inFlight EXCEPT ![i] = @ \ Outlived(i)]
  /\ TrackEmptiness(i, pending[i], inFlight[i] \ Outlived(i))
  /\ entry' = [m \in Messages |-> IF m \in Outlived(i) THEN Blank ELSE entry[m]]
  /\ fate' = [m \in Messages |-> IF m \in Outlived(i) THEN "dropped" ELSE fate[m]]
  /\ UNCHANGED << pending, bound, nextConsumer, dead, cstate, lastQueue, current >>

\* The queue has been empty and unbound for longer than it is kept for.
MayRetire(i) ==
  /\ bound[i] = <<>>
  /\ emptySince'[i] # Never
  /\ now - emptySince'[i] > EmptyLifetime
=============================================================================
