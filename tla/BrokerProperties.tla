--------------------------- MODULE BrokerProperties ---------------------------
(* What must hold of the broker, whoever calls it and in whatever order. *)
EXTENDS Broker

Entries == [ home : Names \union {None}, rpc : BOOLEAN, ttl : Nat, born : Nat,
             owner : Consumers \union {None}, replyTo : Consumers \union {None},
             answered : BOOLEAN, answeredAt : Nat ]

Fates == { "unborn", "sent", "live", "taken", "confirmed", "pushed", "answered", "answerLost",
           "collected", "expired", "notConsumed", "unconfirmed", "dropped", "purged" }

Steps == { "idle", "lookup", "resolve", "add", "gate", "unregister", "dispatch", "look", "scan", "hand",
           "taking", "release", "rotate", "freeing", "leaving", "complete", "reread", "assign",
           "pausing", "sweep", "sweeping", "retire" }

Calls == { "none", "publish", "bind", "unbind", "take", "respondLate", "collect", "confirm",
           "respond", "await", "free", "disconnect", "abandon", "configure", "pause", "purge", "sweep" }

Handed == [to : Consumers, msg : Messages, response : BOOLEAN]

Ops == [ pc : Steps, kind : Calls, name : Names \union {None}, msg : Messages \union {None},
         inst : Instances \union {None}, todo : Seq(Names),
         out : Seq(Handed),
         scan : Nat, arg : Settings ]

Letters == [ msg : Messages, rpc : BOOLEAN, why : Fates, diedAt : Nat ]

\* The variables hold values of their types; the turn of the round robin is that of a
\* consumer that is still bound.
TypeOK ==
  /\ pending \in [Instances -> Seq(Messages)]
  /\ inFlight \in [Instances -> SUBSET Messages]
  /\ bound \in [Instances -> Seq(Consumers)]
  /\ nextConsumer \in [Instances -> Nat]
  /\ \A i \in Instances : nextConsumer[i] = 0 \/ nextConsumer[i] < Len(bound[i])
  /\ emptySince \in [Instances -> Nat \union {Never}]
  /\ removed \in [Instances -> BOOLEAN]
  /\ settings \in [Instances -> Settings]
  /\ gate \in [Instances -> Threads \union {None}]
  /\ entry \in [Messages -> Entries]
  /\ fate \in [Messages -> Fates]
  /\ cstate \in [Consumers -> {"free", "busy", "closed"}]
  /\ queues \in [Consumers -> Seq(Names)]
  /\ lastQueue \in [Consumers -> Names \union {None}]
  /\ current \in [Consumers -> [home : Names, msg : Messages] \union {None}]
  /\ now \in Nat
  /\ registry \in [Names -> Instances \union {None}]
  /\ options \in [Names -> Settings \union {None}]
  /\ op \in [Threads -> Ops]
  /\ got \in [Consumers -> Messages \union {None}]
  /\ gone \subseteq Consumers
  /\ dead \in [Names -> Seq(Letters)]

\* The messages a consumer has been pushed and not confirmed.
Held(c) == { m \in Messages : entry[m].owner = c /\ \E i \in Instances : m \in inFlight[i] }

\* Consumer.cs: a consumer "holds at most one unconfirmed message at a time,
\* whatever the number of queues it is bound to", and Current says which one,
\* although two queues dispatch to it under two different locks.
OneUnconfirmedMessage ==
  \A c \in Consumers : Held(c) = (IF current[c] = None THEN {} ELSE { current[c].msg })

\* A message is in one place: one queue, and there either in the line, once, or
\* in the dictionary.  What is finished is in neither.
InOnePlace ==
  \A m \in Messages :
    LET lines   == UNION { {i} \X { k \in DOMAIN pending[i] : pending[i][k] = m } : i \in Instances }
        flights == { i \in Instances : m \in inFlight[i] }
    IN  Cardinality(lines) + Cardinality(flights) = (IF fate[m] = "live" THEN 1 ELSE 0)

\* A queue the broker has let go of holds nothing and nobody: Publish and Bind
\* that found it before the sweeper retired it start again with another one.
RetiredQueueHoldsNothing ==
  \A i \in Instances :
    removed[i] => pending[i] = <<>> /\ inFlight[i] = {} /\ bound[i] = <<>>

\* Whatever is in a queue can be found: a queue with a message or a consumer in
\* it is the one its name leads to.
NothingIsStranded ==
  \A i \in Instances :
    /\ \A k \in DOMAIN pending[i] : registry[entry[pending[i][k]].home] = i
    /\ \A m \in inFlight[i] : registry[entry[m].home] = i
    /\ \A k \in DOMAIN bound[i] : \E n \in Names : registry[n] = i

\* Once the broker is done with a connection no queue knows it: what was being
\* assigned to it while it closed has been settled too.
NobodyGoneHoldsAnything ==
  \A c \in gone : /\ Held(c) = {}
                  /\ \A i \in Instances : ~Contains(bound[i], c)

\* One message at a time while it is there, and none when it is gone.
WhatConsumersHold == OneUnconfirmedMessage /\ NobodyGoneHoldsAnything

\* A message a consumer holds is taken from it only by that connection itself, when
\* it confirms or answers that message or when it is gone: no retention (Sweep), no
\* 1.x answer (Respond(id)), no purge and no other connection takes it away.
OnlyTheHolderLetsGo ==
  [][\A c \in Consumers : \A m \in Held(c) :
       m \notin Held(c)' => /\ op[c].msg = m
                            /\ op[c].kind \in {"confirm", "respond", "abandon"}
                            /\ op'[c] # op[c]]_vars

\* When no thread is in a call, no message waits in a queue that is not paused
\* while a consumer bound to it is free: no wake-up was lost between the
\* publisher that found everybody busy and the consumer that became free.
NoMessageSleeps ==
  (\A t \in Threads : op[t].pc = "idle") =>
    \A i \in Instances :
      pending[i] # <<>> /\ ~settings[i].paused =>
        \A k \in DOMAIN bound[i] : cstate[bound[i][k]] # "free"

\* PushResponse: an answer stays in the queue only while nobody waits for it on a
\* live connection, although the answer, the wait (Await) and the end of the
\* connection come from three threads.
NoAnswerIsKeptFromAWaiter ==
  \A i \in Instances : \A m \in inFlight[i] :
    entry[m].answered => ~SomebodyWaits(entry[m].replyTo)

\* ConfigureQueue dispatches under the lock of the queue after it gave it the new
\* settings, so that once the call is over nobody is still acting on the old ones:
\* a paused queue hands over a message only while some call is changing its settings.
HandsOver(i) ==
  /\ pending[i] # <<>>
  /\ \/ entry'[Head(pending[i])].owner # None
     \/ fate'[Head(pending[i])] = "taken"

PauseIsBarrier ==
  [][\A i \in Instances :
       settings[i].paused /\ HandsOver(i)
         => \E t \in Callers : op[t].kind = "configure" /\ op[t].inst = i]_vars

\* Whatever settings a queue was ever given.
EverGiven == Options \union {Defaults, DisposableSettings}

\* A dead letter is about a message that died, tells how, and is the only one about it;
\* the letters of a queue are in the order the messages died, and however settings change
\* while messages die never more than the most some settings keep.
LettersTellTheTruth ==
  \A n \in Names :
    /\ \E given \in EverGiven : Len(dead[n]) <= given.limit
    /\ \A k \in DOMAIN dead[n] :
         /\ fate[dead[n][k].msg] = dead[n][k].why
         /\ \A l \in DOMAIN dead[n] :
              k < l => /\ dead[n][k].msg # dead[n][l].msg
                       /\ dead[n][k].diedAt <= dead[n][l].diedAt

-----------------------------------------------------------------------------
(* The life of a message *)

Stage(m) ==
  CASE fate[m] \in {"unborn", "sent", "pushed"}                       -> fate[m]
    [] fate[m] = "live" /\ entry[m].owner # None                      -> "held"
    [] fate[m] = "live" /\ entry[m].answered                          -> "answered"
    [] fate[m] = "live" /\ ~entry[m].answered /\ entry[m].owner = None
         /\ \E i \in Instances : m \in inFlight[i]                    -> "awaited"
    [] fate[m] = "live" /\ ~entry[m].answered /\ entry[m].owner = None
         /\ \A i \in Instances : m \notin inFlight[i]                 -> "waiting"
    [] OTHER                                                          -> "over"

Life == INSTANCE MessageLife WITH
          life <- [m \in Messages |-> Stage(m)],
          holder <- [m \in Messages |-> entry[m].owner],
          MayReturn <- Defaults.redeliver \/ DisposableSettings.redeliver \/ \E o \in Options : o.redeliver

\* The broker with its threads, locks and queues keeps the promise of MessageLife: no
\* interleaving delivers a message twice, brings back one that is over, or gives a
\* consumer a second one.
KeepsTheLifeOfAMessage == Life!Spec

-----------------------------------------------------------------------------
(* Progress *)

\* A thread whose step is possible again and again takes it: the lock of a queue is
\* not kept from one waiter for ever.  Nobody has to start a call, and time may stop.
FairThreads == Spec /\ \A t \in Threads : SF_vars(Step(t))

\* Publish and Bind start again when the sweeper retired the queue they found, Dispatch
\* and Sweep loop over lists that other threads change between their locks, and a
\* lock is waited for in every call: no call goes on for ever.
CallsEnd == \A t \in Threads : op[t].pc # "idle" ~> op[t].pc = "idle"

\* Clients confirm what they were handed, whatever else they do.
FairClients ==
  /\ FairThreads
  /\ \A c \in Consumers, m \in Messages : SF_vars(got[c] = m /\ Confirm(c, m))

\* A message in the line of a queue with a consumer is delivered and its delivery ends,
\* or every consumer leaves the queue: the consumer that finishes finds it, even if it
\* became free, or was bound, just while the publisher was finding everybody busy.
EveryMessageIsServed ==
  \A m \in Messages :
    (\E i \in Instances : Contains(pending[i], m) /\ bound[i] # <<>>)
      ~> \/ fate[m] # "live"
         \/ \E i \in Instances : Contains(pending[i], m) /\ bound[i] = <<>>

-----------------------------------------------------------------------------
(* What the comments and the documents say, and the code does not keep *)

\* MessageQueue.cs:519-522: an answer goes to "whoever is waiting for it on a live
\* connection. Otherwise it stays until it is collected".
NoAnswerIsLost == \A m \in Messages : fate[m] # "answerLost"
=============================================================================
