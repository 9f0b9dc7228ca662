-------------------------------- MODULE Broker --------------------------------
(***************************************************************************)
(* ZapMQ.Core/Broker.cs and the threads that call it: one per connection   *)
(* (its receive loop handles a frame at a time, and disconnects when it    *)
(* ends), the 1.x and administration requests, and the sweeper.  A call    *)
(* looks a queue up by name, waits for its lock, does its work, leaves the *)
(* lock and hands over what it decided to deliver: other threads run       *)
(* between any two of these.                                               *)
(***************************************************************************)
EXTENDS MessageQueue

CONSTANTS
  Callers,         (* requests of 1.x clients and of the administration    *)
  Sweeper,         (* the housekeeping thread                              *)
  Requests,        (* the operations clients make use of                   *)
  Kinds,           (* messages they publish: records of rpc and ttl        *)
  Options,         (* settings the administration gives to a queue         *)
  Defaults,        (* settings of a queue that was given none              *)
  Disposable,      (* names that start with a disposable prefix            *)
  DisposableSettings,
  MaxNow           (* bound: the clock stops here                          *)

VARIABLES
  registry,        (* name -> the instance the broker keeps, or None       *)
  options,         (* name -> settings of its own, or None                 *)
  op,              (* thread -> the call it is in                          *)
  got,             (* consumer -> the message its client is processing     *)
  gone             (* consumers whose outbox is completed                  *)

vars == << queueVars, messageVars, consumerVars, now, registry, options, op, got, gone >>

Threads == Consumers \union Callers \union {Sweeper}

ASSUME ThreadsAssumption ==
  /\ Consumers \intersect Callers = {}
  /\ Sweeper \notin Consumers \union Callers
  /\ None \notin Threads \union Instances \union Names \union Messages

\* null is not the message of a consumer.
ASSUME NoneAssumption == None \notin [home : Names, msg : Messages]

ASSUME BoundsAssumption == EmptyLifetime \in Nat /\ MaxNow \in Nat

\* QueueSettings: no field is null or negative once it is resolved.
Settings == [retention : Nat, limit : Nat, maxAge : Nat, redeliver : BOOLEAN, paused : BOOLEAN]

ASSUME ValuesAssumption ==
  /\ IsFiniteSet(Names)
  /\ Kinds \subseteq [rpc : BOOLEAN, ttl : Nat]
  /\ Options \subseteq Settings
  /\ Defaults \in Settings
  /\ DisposableSettings \in Settings

Idle == [ pc |-> "idle", kind |-> "none", name |-> None, msg |-> None, inst |-> None,
          todo |-> <<>>, out |-> <<>>, scan |-> 0, arg |-> Defaults ]

Goto(t, p) == op' = [op EXCEPT ![t].pc = p]
Return(t)  == op' = [op EXCEPT ![t] = Idle]

\* A connection takes no frame once it is closed.
Ready(t) == op[t].pc = "idle" /\ (t \in Consumers => cstate[t] # "closed")

Asks(t, kind) == kind \in Requests /\ Ready(t)

At(t, p, kinds) == op[t].pc = p /\ op[t].kind \in kinds

\* GetOrAddQueue: the queue of that name, or the way to a new one.
GetOrAdd(kind, n, m) ==
  [Idle EXCEPT !.kind = kind, !.name = n, !.msg = m, !.inst = registry[n],
               !.pc = IF registry[n] = None THEN "resolve" ELSE "gate"]

\* TryGetValue: without a queue of that name there is nothing to do.
TryGet(kind, n, m) ==
  IF registry[n] = None THEN Idle
  ELSE [Idle EXCEPT !.kind = kind, !.name = n, !.msg = m, !.inst = registry[n], !.pc = "gate"]

Resolve(n) ==
  IF n \in Disposable THEN DisposableSettings
  ELSE IF options[n] = None THEN Defaults ELSE options[n]

\* An instance no thread and no name refers to is garbage, and its memory is used again.
Unused(i) == (\A n \in Names : registry[n] # i) /\ (\A t \in Threads : op[t].inst # i)

bodyVars   == << pending, inFlight, bound, nextConsumer, emptySince, messageVars, cstate, lastQueue, current >>
stableVars == << now, registry, options, settings, removed, queues, got, gone >>

Init ==
  /\ pending = [i \in Instances |-> <<>>]
  /\ inFlight = [i \in Instances |-> {}]
  /\ bound = [i \in Instances |-> <<>>]
  /\ nextConsumer = [i \in Instances |-> 0]
  /\ emptySince = [i \in Instances |-> Never]
  /\ removed = [i \in Instances |-> FALSE]
  /\ settings = [i \in Instances |-> Defaults]
  /\ gate = [i \in Instances |-> None]
  /\ entry = [m \in Messages |-> Blank]
  /\ fate = [m \in Messages |-> "unborn"]
  /\ dead = [n \in Names |-> <<>>]
  /\ cstate = [c \in Consumers |-> "free"]
  /\ queues = [c \in Consumers |-> <<>>]
  /\ lastQueue = [c \in Consumers |-> None]
  /\ current = [c \in Consumers |-> None]
  /\ now = 0
  /\ registry = [n \in Names |-> None]
  /\ options = [n \in Names |-> None]
  /\ op = [t \in Threads |-> Idle]
  /\ got = [c \in Consumers |-> None]
  /\ gone = {}

-----------------------------------------------------------------------------
(* Looking a queue up, making one, letting go of one *)

Lookup(t) ==
  /\ op[t].pc = "lookup"
  /\ op' = [op EXCEPT ![t] = GetOrAdd(@.kind, @.name, @.msg)]
  /\ UNCHANGED << bodyVars, stableVars, gate >>

\* The factory of GetOrAdd reads the settings; the queue appears only afterwards.
ReadSettings(t) ==
  /\ op[t].pc = "resolve"
  /\ op' = [op EXCEPT ![t].arg = Resolve(op[t].name), ![t].pc = "add"]
  /\ UNCHANGED << bodyVars, stableVars, gate >>

\* Somebody else's queue came first, or this one is kept.
AddQueue(t) ==
  /\ op[t].pc = "add"
  /\ UNCHANGED << messageVars, cstate, lastQueue, current, now, options, queues, got, gone, gate >>
  /\ LET n == op[t].name IN
     \/ /\ registry[n] # None
        /\ op' = [op EXCEPT ![t].inst = registry[n], ![t].pc = "gate"]
        /\ UNCHANGED << pending, inFlight, bound, nextConsumer, emptySince, removed, settings, registry >>
     \/ /\ registry[n] = None
        /\ \E i \in Instances :
             /\ Unused(i)
             /\ registry' = [registry EXCEPT ![n] = i]
             /\ pending' = [pending EXCEPT ![i] = <<>>]
             /\ inFlight' = [inFlight EXCEPT ![i] = {}]
             /\ bound' = [bound EXCEPT ![i] = <<>>]
             /\ nextConsumer' = [nextConsumer EXCEPT ![i] = 0]
             /\ emptySince' = [emptySince EXCEPT ![i] = Never]
             /\ removed' = [removed EXCEPT ![i] = FALSE]
             /\ settings' = [settings EXCEPT ![i] = op[t].arg]
             /\ op' = [op EXCEPT ![t].inst = i, ![t].pc = "gate"]

\* Mutants: whatever has the name goes; nothing goes.
LetGoOfName(n, i) == registry' = [registry EXCEPT ![n] = None]
KeepForEver(n, i) == UNCHANGED registry

\* TryRemove of the pair: only this instance is let go of, whatever has the name by now.
LetGo(n, i) == registry' = [registry EXCEPT ![n] = IF @ = i THEN None ELSE @]

\* Publish and Bind found a retired queue: out of the registry with it, and again.
Unregister(t) ==
  /\ At(t, "unregister", {"publish", "bind"})
  /\ LetGo(op[t].name, op[t].inst)
  /\ op' = [op EXCEPT ![t].pc = "lookup", ![t].inst = None]
  /\ UNCHANGED << bodyVars, gate, now, options, settings, removed, queues, got, gone >>

-----------------------------------------------------------------------------
(* Dispatch, for whoever holds the lock of the queue *)

MayDispatch(i) == ~settings[i].paused /\ bound[i] # <<>>

\* What a call does after its Dispatch: free goes on to the next queue.
AfterDispatch(t) == IF op[t].kind = "free" THEN "freeing" ELSE "hand"

FinishDispatch(t) ==
  LET i == op[t].inst IN
  /\ OnlyTracks(i)
  /\ Leave(i)
  /\ op' = [op EXCEPT ![t].pc = AfterDispatch(t), ![t].scan = 0]

\* The loop asks whether it may go on, and then FirstDeliverable looks for a message:
\* past that question nobody asks again until one is found.
Looking(t) == \/ op[t].pc = "dispatch" /\ MayDispatch(op[t].inst)
              \/ op[t].pc = "look"

DispatchEnds(t) ==
  /\ \/ op[t].pc = "dispatch" /\ ~MayDispatch(op[t].inst)
     \/ Looking(t) /\ pending[op[t].inst] = <<>>
  /\ FinishDispatch(t)
  /\ UNCHANGED stableVars

DispatchBuries(t) ==
  /\ Looking(t)
  /\ BuryHead(op[t].inst)
  /\ Goto(t, "look")
  /\ UNCHANGED << gate, stableVars >>

DispatchFinds(t) ==
  /\ Looking(t)
  /\ HeadIsDeliverable(op[t].inst)
  /\ op' = [op EXCEPT ![t].pc = "scan", ![t].scan = 0]
  /\ UNCHANGED << bodyVars, gate, stableVars >>

\* NextFreeConsumer: TryAcquire on one consumer after the other.
ScanBusy(t) ==
  LET i == op[t].inst IN
  /\ op[t].pc = "scan"
  /\ op[t].scan < Len(bound[i])
  /\ cstate[bound[i][Candidate(i, op[t].scan)]] # "free"
  /\ op' = [op EXCEPT ![t].scan = @ + 1]
  /\ UNCHANGED << bodyVars, gate, stableVars >>

ScanAcquires(t) ==
  LET i == op[t].inst
      c == bound[i][Candidate(i, op[t].scan)]
  IN  /\ op[t].pc = "scan"
      /\ op[t].scan < Len(bound[i])
      /\ Assign(i, op[t].scan)
      /\ op' = [op EXCEPT ![t].pc = "dispatch", ![t].scan = 0,
                          ![t].out = Append(@, Delivery(c, Head(pending[i])))]
      /\ UNCHANGED << gate, stableVars >>

ScanEnds(t) ==
  /\ op[t].pc = "scan"
  /\ op[t].scan = Len(bound[op[t].inst])
  /\ FinishDispatch(t)
  /\ UNCHANGED stableVars

-----------------------------------------------------------------------------
(* Hand: deliveries leave one by one, outside every lock *)

HandOver(t) ==
  LET d == Head(op[t].out) IN
  /\ op[t].pc = "hand"
  /\ op[t].out # <<>>
  /\ op' = [op EXCEPT ![t].out = Tail(@)]
  /\ IF d.response
     THEN /\ Becomes(d.msg, IF d.to \in gone THEN "answerLost" ELSE "answered")
          /\ UNCHANGED got
     ELSE /\ got' = [got EXCEPT ![d.to] = IF cstate[d.to] = "closed" THEN @ ELSE d.msg]
          /\ UNCHANGED fate
  /\ UNCHANGED << queueVars, entry, dead, consumerVars, now, registry, options, gone >>

\* A consumer that answered is freed after its answer was handed over.
HandDone(t) ==
  /\ op[t].pc = "hand"
  /\ op[t].out = <<>>
  /\ op' = [op EXCEPT ![t] = CASE @.kind = "respond" -> [@ EXCEPT !.pc = "release"]
                               [] @.kind = "abandon" -> [Idle EXCEPT !.pc = "complete"]
                               [] OTHER -> Idle]
  /\ UNCHANGED << bodyVars, gate, stableVars >>

-----------------------------------------------------------------------------
(* Publish *)

Publish(t, n, m, k) ==
  /\ Asks(t, "publish")
  /\ fate[m] = "unborn"
  /\ Becomes(m, "sent")
  /\ entry' = [entry EXCEPT ![m] = [Blank EXCEPT !.home = n, !.rpc = k.rpc, !.ttl = k.ttl,
                 !.replyTo = IF k.rpc /\ t \in Consumers THEN t ELSE None]]
  /\ op' = [op EXCEPT ![t] = GetOrAdd("publish", n, m)]
  /\ UNCHANGED << queueVars, dead, consumerVars, now, registry, options, got, gone >>

\* Mutant: the instance is not asked whether it was retired.
PublishAnyway(t) ==
  /\ At(t, "gate", {"publish"})
  /\ UNCHANGED stableVars
  /\ Enter(op[t].inst, t)
  /\ Accept(op[t].inst, op[t].msg)
  /\ Goto(t, "dispatch")

TryPublish(t) ==
  LET i == op[t].inst IN
  /\ At(t, "gate", {"publish"})
  /\ UNCHANGED stableVars
  /\ \/ /\ removed[i]
        /\ Unlocked(i)
        /\ Goto(t, "unregister")
        /\ UNCHANGED bodyVars
     \/ /\ ~removed[i]
        /\ Enter(i, t)
        /\ Accept(i, op[t].msg)
        /\ Goto(t, "dispatch")

-----------------------------------------------------------------------------
(* Taking, answering and collecting the 1.x way *)

\* With an asker to write down the queue is made to exist; without one it is only looked for.
Take(t, n, keep) ==
  /\ Asks(t, "take")
  /\ op' = [op EXCEPT ![t] = IF keep THEN GetOrAdd("take", n, None) ELSE TryGet("take", n, None)]
  /\ UNCHANGED << bodyVars, gate, stableVars >>

\* A paused queue hands nothing over; otherwise FirstDeliverable keeps the lock while
\* it buries dead heads.
TakeEnters(t) ==
  LET i == op[t].inst IN
  /\ At(t, "gate", {"take"})
  /\ UNCHANGED stableVars
  /\ \/ settings[i].paused /\ Unlocked(i) /\ OnlyTracks(i) /\ Return(t)
     \/ ~settings[i].paused /\ Enter(i, t) /\ Goto(t, "taking") /\ UNCHANGED bodyVars

TakeBuries(t) ==
  /\ op[t].pc = "taking"
  /\ BuryHead(op[t].inst)
  /\ UNCHANGED << op, gate, stableVars >>

TakeReturns(t) ==
  LET i == op[t].inst IN
  /\ op[t].pc = "taking"
  /\ \/ pending[i] = <<>> /\ OnlyTracks(i)
     \/ TakeHead(i)
  /\ Leave(i)
  /\ Return(t)
  /\ UNCHANGED stableVars

RespondLate(t, m) ==
  /\ Asks(t, "respondLate")
  /\ fate[m] = "live"
  /\ op' = [op EXCEPT ![t] = TryGet("respondLate", entry[m].home, m)]
  /\ UNCHANGED << bodyVars, gate, stableVars >>

\* The answer goes out with Hand when somebody waits for it.
OutAfter(m, f, receiver) == IF f = "pushed" THEN << Response(receiver, m) >> ELSE <<>>

RespondLateLocked(t) ==
  LET i == op[t].inst
      m == op[t].msg
  IN  /\ At(t, "gate", {"respondLate"})
      /\ Unlocked(i)
      /\ UNCHANGED stableVars
      /\ \/ ~Reachable(i, m) /\ Return(t) /\ UNCHANGED bodyVars
         \/ /\ LateRespondBody(i, m)
            /\ op' = [op EXCEPT ![t].pc = "hand",
                        ![t].out = OutAfter(m, fate'[m], entry[m].replyTo)]

Collect(t, m) ==
  /\ Asks(t, "collect")
  /\ fate[m] = "live"
  /\ op' = [op EXCEPT ![t] = TryGet("collect", entry[m].home, m)]
  /\ UNCHANGED << bodyVars, gate, stableVars >>

CollectLocked(t) ==
  LET i == op[t].inst
      m == op[t].msg
  IN  /\ At(t, "gate", {"collect"})
      /\ Unlocked(i)
      /\ Return(t)
      /\ UNCHANGED stableVars
      /\ \/ ~(m \in inFlight[i] /\ entry[m].answered) /\ UNCHANGED bodyVars
         \/ CollectBody(i, m)

-----------------------------------------------------------------------------
(* Bind and Unbind, by a connection *)

Bind(c, n) ==
  /\ Asks(c, "bind")
  /\ queues' = [queues EXCEPT ![c] = IF Contains(@, n) THEN @ ELSE Append(@, n)]
  /\ op' = [op EXCEPT ![c] = GetOrAdd("bind", n, None)]
  /\ UNCHANGED << bodyVars, gate, now, registry, options, settings, removed, got, gone >>

BindLocked(t) ==
  LET i == op[t].inst IN
  /\ At(t, "gate", {"bind"})
  /\ UNCHANGED stableVars
  /\ \/ /\ removed[i]
        /\ Unlocked(i)
        /\ Goto(t, "unregister")
        /\ UNCHANGED bodyVars
     \/ /\ ~removed[i]
        /\ Enter(i, t)
        /\ AddConsumer(i, t)
        /\ Goto(t, "dispatch")

Unbind(c, n) ==
  /\ Asks(c, "unbind")
  /\ queues' = [queues EXCEPT ![c] = RemoveFirst(@, n)]
  /\ op' = [op EXCEPT ![c] = TryGet("unbind", n, None)]
  /\ UNCHANGED << bodyVars, gate, now, registry, options, settings, removed, got, gone >>

UnbindLocked(t) ==
  /\ At(t, "gate", {"unbind", "disconnect"})
  /\ Unlocked(op[t].inst)
  /\ RemoveConsumer(op[t].inst, t)
  /\ op' = [op EXCEPT ![t] = IF @.kind = "unbind" THEN Idle ELSE [@ EXCEPT !.pc = "leaving"]]
  /\ UNCHANGED stableVars

-----------------------------------------------------------------------------
(* Confirm, Respond and Await, by a connection *)

\* A client names the message it was handed, or one that another connection holds: its
\* own former one, say, that the broker has not seen end.  One that is over is not found.
MayName(c, m) == fate[m] = "live" /\ (got[c] = m \/ entry[m].owner \notin {None, c})

Settle(c, m, kind) ==
  /\ Asks(c, kind)
  /\ MayName(c, m)
  /\ op' = [op EXCEPT ![c] = TryGet(kind, entry[m].home, m)]
  /\ got' = [got EXCEPT ![c] = IF @ = m THEN None ELSE @]
  /\ UNCHANGED << bodyVars, gate, now, registry, options, settings, removed, queues, gone >>

Confirm(c, m) == Settle(c, m, "confirm")
Respond(c, m) == Settle(c, m, "respond")

\* Mutant: the consumer is not freed.
ConfirmOnly(t) ==
  LET i == op[t].inst
      m == op[t].msg
  IN  /\ At(t, "gate", {"confirm"})
      /\ Unlocked(i)
      /\ Return(t)
      /\ UNCHANGED stableVars
      /\ \/ ~Owns(t, i, m) /\ UNCHANGED bodyVars
         \/ ConfirmBody(t, i, m)

ConfirmLocked(t) ==
  LET i == op[t].inst
      m == op[t].msg
  IN  /\ At(t, "gate", {"confirm"})
      /\ Unlocked(i)
      /\ UNCHANGED stableVars
      /\ \/ ~Owns(t, i, m) /\ Return(t) /\ UNCHANGED bodyVars
         \/ ConfirmBody(t, i, m) /\ Goto(t, "release")

RespondLocked(t) ==
  LET i == op[t].inst
      m == op[t].msg
  IN  /\ At(t, "gate", {"respond"})
      /\ Unlocked(i)
      /\ UNCHANGED stableVars
      /\ \/ ~Owns(t, i, m) /\ Return(t) /\ UNCHANGED bodyVars
         \/ /\ RespondBody(t, i, m)
            /\ op' = [op EXCEPT ![t].pc = "hand",
                        ![t].out = OutAfter(m, fate'[m], entry[m].replyTo)]

Await(c, m) ==
  /\ Asks(c, "await")
  /\ fate[m] = "live"
  /\ op' = [op EXCEPT ![c] = TryGet("await", entry[m].home, m)]
  /\ UNCHANGED << bodyVars, gate, stableVars >>

AwaitLocked(t) ==
  LET i == op[t].inst
      m == op[t].msg
  IN  /\ At(t, "gate", {"await"})
      /\ Unlocked(i)
      /\ UNCHANGED stableVars
      /\ \/ /\ ~(Reachable(i, m) /\ entry[m].rpc)
            /\ OnlyTracks(i)
            /\ Goto(t, "hand")
         \/ /\ AwaitBody(t, i, m)
            /\ op' = [op EXCEPT ![t].pc = "hand",
                        ![t].out = OutAfter(m, fate'[m], t)]

-----------------------------------------------------------------------------
(* Free: the consumer may take the next message from any queue it is bound to *)

Release(t) ==
  /\ op[t].pc = "release"
  /\ cstate' = [cstate EXCEPT ![t] = IF @ = "busy" THEN "free" ELSE @]
  /\ Goto(t, "rotate")
  /\ UNCHANGED << queueVars, messageVars, queues, lastQueue, current, now, registry, options, got, gone >>

\* The queues of the consumer, starting after the one that served it last.
Rotated(c) ==
  LET all   == queues[c]
      start == SelectInSeq(all, LAMBDA n : n = lastQueue[c])
  IN  SubSeq(all, start + 1, Len(all)) \o SubSeq(all, 1, start)

Rotate(t) ==
  /\ op[t].pc = "rotate"
  /\ op' = [op EXCEPT ![t] = [Idle EXCEPT !.pc = "freeing", !.kind = "free", !.todo = Rotated(t)]]
  /\ UNCHANGED << bodyVars, gate, stableVars >>

FreeNext(t) ==
  /\ op[t].pc = "freeing"
  /\ cstate[t] = "free"
  /\ op[t].todo # <<>>
  /\ LET n == Head(op[t].todo) IN
     op' = [op EXCEPT ![t].todo = Tail(@), ![t].inst = registry[n],
                      ![t].pc = IF registry[n] = None THEN "freeing" ELSE "gate"]
  /\ UNCHANGED << bodyVars, gate, stableVars >>

FreeEnds(t) ==
  /\ op[t].pc = "freeing"
  /\ cstate[t] # "free" \/ op[t].todo = <<>>
  /\ Goto(t, "hand")
  /\ UNCHANGED << bodyVars, gate, stableVars >>

DispatchLocked(t) ==
  /\ At(t, "gate", {"free", "configure"})
  /\ Enter(op[t].inst, t)
  /\ Goto(t, "dispatch")
  /\ UNCHANGED << bodyVars, stableVars >>

-----------------------------------------------------------------------------
(* Disconnect: the receive loop of the connection ended *)

Disconnect(c) ==
  /\ Asks(c, "disconnect")
  /\ cstate' = [cstate EXCEPT ![c] = "closed"]
  /\ queues' = [queues EXCEPT ![c] = <<>>]
  /\ got' = [got EXCEPT ![c] = None]
  /\ op' = [op EXCEPT ![c] = [Idle EXCEPT !.pc = "leaving", !.kind = "disconnect", !.todo = queues[c]]]
  /\ UNCHANGED << queueVars, messageVars, lastQueue, current, now, registry, options, gone >>

LeaveNext(t) ==
  /\ op[t].pc = "leaving"
  /\ op[t].todo # <<>>
  /\ LET n == Head(op[t].todo) IN
     op' = [op EXCEPT ![t].todo = Tail(@), ![t].inst = registry[n],
                      ![t].pc = IF registry[n] = None THEN "leaving" ELSE "gate"]
  /\ UNCHANGED << bodyVars, gate, stableVars >>

\* Mutant: the last queue is left out.
LeaveOneBehind(t) ==
  LET held == current[t] IN
  /\ op[t].pc = "leaving"
  /\ Len(op[t].todo) <= 1
  /\ op' = [op EXCEPT ![t] = IF held # None /\ registry[held.home] # None
                             THEN TryGet("abandon", held.home, held.msg)
                             ELSE [Idle EXCEPT !.pc = "complete"]]
  /\ UNCHANGED << bodyVars, gate, stableVars >>

\* Current is read only now, after every queue was unbound.
LeaveLast(t) ==
  LET held == current[t] IN
  /\ op[t].pc = "leaving"
  /\ op[t].todo = <<>>
  /\ op' = [op EXCEPT ![t] = IF held # None /\ registry[held.home] # None
                             THEN TryGet("abandon", held.home, held.msg)
                             ELSE [Idle EXCEPT !.pc = "complete"]]
  /\ UNCHANGED << bodyVars, gate, stableVars >>

\* Mutant: what went back is not dispatched.
AbandonQuietly(t) ==
  LET i == op[t].inst
      m == op[t].msg
  IN  /\ At(t, "gate", {"abandon"})
      /\ Unlocked(i)
      /\ Goto(t, "hand")
      /\ UNCHANGED stableVars
      /\ \/ ~Owns(t, i, m) /\ UNCHANGED bodyVars
         \/ DiesUnconfirmed(t, i, m)
         \/ GoesBack(t, i, m)

AbandonLocked(t) ==
  LET i == op[t].inst
      m == op[t].msg
  IN  /\ At(t, "gate", {"abandon"})
      /\ UNCHANGED stableVars
      /\ \/ Unlocked(i) /\ ~Owns(t, i, m) /\ Goto(t, "hand") /\ UNCHANGED bodyVars
         \/ Unlocked(i) /\ DiesUnconfirmed(t, i, m) /\ Goto(t, "hand")
         \/ Enter(i, t) /\ GoesBack(t, i, m) /\ Goto(t, "dispatch")

\* The connection completes its outbox once the broker is done with it.
Complete(t) ==
  /\ op[t].pc = "complete"
  /\ gone' = gone \union {t}
  /\ Return(t)
  /\ UNCHANGED << queueVars, messageVars, consumerVars, now, registry, options, got >>

-----------------------------------------------------------------------------
(* Administration: settings, purge, dead letters *)

\* ConfigureQueue writes the settings down and looks the queue up, here in one step: a queue
\* that is made between the two is given them as one that was there before ...
Written(t, n, o) ==
  /\ options' = [options EXCEPT ![n] = o]
  /\ op' = [op EXCEPT ![t] = IF registry[n] = None THEN Idle
                             ELSE [TryGet("configure", n, None) EXCEPT !.pc = "reread"]]

Configure(t, n, o) ==
  /\ Asks(t, "configure")
  /\ Written(t, n, o)
  /\ UNCHANGED << bodyVars, gate, now, registry, settings, removed, queues, got, gone >>

\* ... reads them again, resolved ...
Reread(t) ==
  /\ op[t].pc = "reread"
  /\ op' = [op EXCEPT ![t].arg = Resolve(op[t].name), ![t].pc = "assign"]
  /\ UNCHANGED << bodyVars, gate, stableVars >>

\* Mutant: nobody waits for those that are still acting on the old settings.
AssignAndGo(t) ==
  /\ op[t].pc = "assign"
  /\ settings' = [settings EXCEPT ![op[t].inst] = op[t].arg]
  /\ Goto(t, "hand")
  /\ UNCHANGED << bodyVars, gate, now, registry, options, removed, queues, got, gone >>

\* ... and gives them to the queue outside its lock, before dispatching.
AssignSettings(t) ==
  /\ op[t].pc = "assign"
  /\ settings' = [settings EXCEPT ![op[t].inst] = op[t].arg]
  /\ Goto(t, "gate")
  /\ UNCHANGED << bodyVars, gate, now, registry, options, removed, queues, got, gone >>

\* SetPaused reads the settings of the queue, changes one and configures it with the result.
SetPaused(t, n, paused) ==
  /\ Asks(t, "pause")
  /\ op' = [op EXCEPT ![t] = [Idle EXCEPT !.pc = "pausing", !.kind = "pause", !.name = n,
              !.arg = [(IF options[n] = None THEN Defaults ELSE options[n]) EXCEPT !.paused = paused]]]
  /\ UNCHANGED << bodyVars, gate, stableVars >>

PauseWrites(t) ==
  /\ op[t].pc = "pausing"
  /\ Written(t, op[t].name, op[t].arg)
  /\ UNCHANGED << bodyVars, gate, now, registry, settings, removed, queues, got, gone >>

Purge(t, n) ==
  /\ Asks(t, "purge")
  /\ op' = [op EXCEPT ![t] = TryGet("purge", n, None)]
  /\ UNCHANGED << bodyVars, gate, stableVars >>

PurgeLocked(t) ==
  /\ At(t, "gate", {"purge"})
  /\ Unlocked(op[t].inst)
  /\ PurgeBody(op[t].inst)
  /\ Return(t)
  /\ UNCHANGED stableVars

\* The dead letter m goes, and a copy of it with the id x is published.
Requeue(t, n, m, x) ==
  /\ Asks(t, "requeue")
  /\ HasLetter(dead[n], m)
  /\ fate[x] = "unborn"
  /\ dead' = [dead EXCEPT ![n] = Without(@, m)]
  /\ Becomes(x, "sent")
  /\ entry' = [entry EXCEPT ![x] = [Blank EXCEPT !.home = n, !.rpc = Letter(dead[n], m).rpc]]
  /\ op' = [op EXCEPT ![t] = [Idle EXCEPT !.pc = "lookup", !.kind = "publish", !.name = n, !.msg = x]]
  /\ UNCHANGED << queueVars, consumerVars, now, registry, options, got, gone >>

Discard(t, n, letters) ==
  /\ Asks(t, "discard")
  /\ dead' = [dead EXCEPT ![n] = letters]
  /\ UNCHANGED << queueVars, entry, fate, consumerVars, now, registry, options, op, got, gone >>

DiscardDeadLetter(t, n, m)  == HasLetter(dead[n], m) /\ Discard(t, n, Without(dead[n], m))
DiscardDeadLetters(t, n)    == dead[n] # <<>> /\ Discard(t, n, <<>>)

-----------------------------------------------------------------------------
(* Sweep, once a second *)

Orders == { s \in [1 .. Cardinality(Names) -> Names] : IsInjective(s) }

StartSweep(t) ==
  /\ Asks(t, "sweep")
  /\ \E order \in Orders :
       op' = [op EXCEPT ![t] = [Idle EXCEPT !.pc = "sweep", !.kind = "sweep", !.todo = order]]
  /\ UNCHANGED << bodyVars, gate, stableVars >>

SweepNext(t) ==
  /\ op[t].pc = "sweep"
  /\ op[t].todo # <<>>
  /\ LET n == Head(op[t].todo) IN
     op' = [op EXCEPT ![t].todo = Tail(@), ![t].name = n, ![t].inst = registry[n],
                      ![t].pc = IF registry[n] = None THEN "sweep" ELSE "gate"]
  /\ UNCHANGED << bodyVars, gate, stableVars >>

SweepEnters(t) ==
  /\ At(t, "gate", {"sweep"})
  /\ Enter(op[t].inst, t)
  /\ op' = [op EXCEPT ![t].pc = "sweeping", ![t].scan = 1]
  /\ UNCHANGED << bodyVars, stableVars >>

SweepBuries(t) ==
  /\ op[t].pc = "sweeping"
  /\ op[t].scan <= Len(pending[op[t].inst])
  /\ SweepPending(op[t].inst, op[t].scan)
  /\ UNCHANGED << op, gate, stableVars >>

SweepSkips(t) ==
  LET i == op[t].inst IN
  /\ op[t].pc = "sweeping"
  /\ op[t].scan <= Len(pending[i])
  /\ ~IsDead(i, pending[i][op[t].scan])
  /\ op' = [op EXCEPT ![t].scan = @ + 1]
  /\ UNCHANGED << bodyVars, gate, stableVars >>

SweepLeaves(t) ==
  LET i == op[t].inst IN
  /\ op[t].pc = "sweeping"
  /\ op[t].scan > Len(pending[i])
  /\ SweepInFlight(i)
  /\ removed' = [removed EXCEPT ![i] = @ \/ MayRetire(i)]
  /\ Leave(i)
  /\ op' = [op EXCEPT ![t].scan = 0, ![t].pc = IF removed'[i] THEN "retire" ELSE "sweep"]
  /\ UNCHANGED << now, registry, options, settings, queues, got, gone >>

Retire(t) ==
  /\ op[t].pc = "retire"
  /\ LetGo(op[t].name, op[t].inst)
  /\ Goto(t, "sweep")
  /\ UNCHANGED << bodyVars, gate, now, options, settings, removed, queues, got, gone >>

\* Prune reads the limits of each queue by its name: the letters outlive the queue.
SweepEnds(t) ==
  /\ op[t].pc = "sweep"
  /\ op[t].todo = <<>>
  /\ dead' = [n \in Names |-> Pruned(dead[n], Resolve(n).limit, Resolve(n).maxAge, now)]
  /\ Return(t)
  /\ UNCHANGED << queueVars, entry, fate, consumerVars, now, registry, options, got, gone >>

Tick ==
  /\ now < MaxNow
  /\ now' = now + 1
  /\ UNCHANGED << queueVars, messageVars, consumerVars, registry, options, op, got, gone >>

-----------------------------------------------------------------------------
(* The threads *)

\* What a client, an administrator or the timer starts.
Start ==
  \/ \E t \in Consumers \union Callers, n \in Names, m \in Messages, k \in Kinds : Publish(t, n, m, k)
  \/ \E c \in Consumers, n \in Names : Bind(c, n) \/ Unbind(c, n)
  \/ \E c \in Consumers, m \in Messages : Confirm(c, m) \/ Respond(c, m) \/ Await(c, m)
  \/ \E c \in Consumers : Disconnect(c)
  \/ \E t \in Callers, n \in Names, keep \in BOOLEAN : Take(t, n, keep)
  \/ \E t \in Callers, m \in Messages : RespondLate(t, m) \/ Collect(t, m)
  \/ \E t \in Callers, n \in Names, o \in Options \union {None} : Configure(t, n, o)
  \/ \E t \in Callers, n \in Names, paused \in BOOLEAN : SetPaused(t, n, paused)
  \/ \E t \in Callers, n \in Names : Purge(t, n) \/ DiscardDeadLetters(t, n)
  \/ \E t \in Callers, n \in Names, m, x \in Messages : Requeue(t, n, m, x)
  \/ \E t \in Callers, n \in Names, m \in Messages : DiscardDeadLetter(t, n, m)
  \/ StartSweep(Sweeper)

\* What a thread in a call does next.
Step(t) ==
  \/ Lookup(t) \/ ReadSettings(t) \/ AddQueue(t) \/ Unregister(t)
  \/ TryPublish(t) \/ BindLocked(t) \/ UnbindLocked(t)
  \/ DispatchLocked(t) \/ DispatchEnds(t) \/ DispatchBuries(t) \/ DispatchFinds(t)
  \/ ScanBusy(t) \/ ScanAcquires(t) \/ ScanEnds(t)
  \/ HandOver(t) \/ HandDone(t)
  \/ TakeEnters(t) \/ TakeBuries(t) \/ TakeReturns(t)
  \/ RespondLateLocked(t) \/ CollectLocked(t)
  \/ ConfirmLocked(t) \/ RespondLocked(t) \/ AwaitLocked(t)
  \/ Release(t) \/ Rotate(t) \/ FreeNext(t) \/ FreeEnds(t)
  \/ LeaveNext(t) \/ LeaveLast(t) \/ AbandonLocked(t) \/ Complete(t)
  \/ Reread(t) \/ AssignSettings(t) \/ PauseWrites(t) \/ PurgeLocked(t)
  \/ SweepNext(t) \/ SweepEnters(t) \/ SweepBuries(t) \/ SweepSkips(t) \/ SweepLeaves(t)
  \/ Retire(t) \/ SweepEnds(t)

Next == Start \/ Tick \/ \E t \in Threads : Step(t)

Spec == Init /\ [][Next]_vars
=============================================================================
