------------------------------ MODULE CallProofs ------------------------------
(* What calls leave behind when they are over, whatever came in between: the      *)
(* letters about the dead, the connections that are gone, the settings of a queue *)
(* and who was to be served next.                                                 *)
EXTENDS HolderProofs

-----------------------------------------------------------------------------
(* The letters about the dead *)

\* Fates a letter tells of.
Buried == {"expired", "notConsumed", "unconfirmed"}

\* Letters tell what became of their messages, by now; in the order the messages died.
Tells(letters, f, time) ==
  \A k \in DOMAIN letters : /\ f[letters[k].msg] = letters[k].why
                            /\ letters[k].why \in Buried /\ letters[k].diedAt <= time

InOrder(letters) ==
  \A k, l \in DOMAIN letters : k < l => /\ letters[k].msg # letters[l].msg
                                        /\ letters[k].diedAt <= letters[l].diedAt

\* They are no more than the most that is kept.
Bounded(letters) == \E given \in EverGiven : Len(letters) <= given.limit

LettersInv == \A n \in Names : Tells(dead[n], fate, now) /\ InOrder(dead[n]) /\ Bounded(dead[n])

\* A part of the letters does too.
LEMMA PartTells ==
  ASSUME NEW p, NEW s, PartOf(p, s), NEW f, NEW time, Tells(s, f, time), InOrder(s)
  PROVE  Tells(p, f, time) /\ InOrder(p)
<1>1. PICK g \in [DOMAIN p -> DOMAIN s] : /\ \A k \in DOMAIN p : p[k] = s[g[k]]
                                          /\ \A k, l \in DOMAIN p : k < l => g[k] < g[l]
  BY DEF PartOf
<1>2. Tells(p, f, time)
  BY <1>1 DEF Tells
<1>3. InOrder(p)
  BY <1>1 DEF InOrder
<1> QED BY <1>2, <1>3

\* What is buried stays buried.
LEMMA BuriedStays ==
  ASSUME Move, NEW m \in Messages, fate[m] \in Buried
  PROVE  fate'[m] = fate[m]
<1>1. fate[m] \notin {"unborn", "sent", "live"} /\ fate[m] \notin OverByPush
  BY DEF Buried, OverByPush
<1> QED BY <1>1, MoveOfOne DEF MoveOf, Rests, Ends, Born, GoesOut, IsHanded, Queued, PutAside, IsKept, Given, LetsGo, AskedFor

\* Letters are taken out, or one is added about a message that was live.
Shrinks(n) == PartOf(dead'[n], dead[n])

Gains(n) == \E m \in Messages, e \in Letters :
              /\ fate[m] = "live" /\ e.msg = m /\ e.diedAt = now
              /\ e.why \in Buried /\ fate'[m] = e.why
              /\ PartOf(dead'[n], Append(dead[n], e))
              /\ \E i \in Instances : Len(dead'[n]) <= settings[i].limit

\* What is about the letters of one queue leaves those of the others alone.
LEMMA LettersOfOne ==
  ASSUME TypeInv, NEW h \in Names, NEW s, dead' = [dead EXCEPT ![h] = s],
         PartOf(s, dead[h]) \/ Gains(h)
  PROVE  \A n \in Names : Shrinks(n) \/ Gains(n)
<1>1. dead \in [Names -> Seq(Letters)]
  BY DEF TypeInv, TypeOK
<1>2. \A n \in Names : PartOf(dead[n], dead[n])
  BY <1>1, WholeOrNothing
<1>3. dead'[h] = s /\ \A n \in Names \ {h} : dead'[n] = dead[n]
  BY <1>1
<1> QED BY <1>2, <1>3 DEF Shrinks

\* Bury writes a letter about a message of a queue.
LEMMA BuryWrites ==
  ASSUME MessageInv, NEW i \in Instances, NEW m \in Content(i), NEW why \in Buried, Bury(i, m, why)
  PROVE  \A n \in Names : Shrinks(n) \/ Gains(n)
<1> DEFINE h == entry[m].home
           e == [ msg |-> m, rpc |-> entry[m].rpc, why |-> why, diedAt |-> now ]
           s == Added(dead[h], e, settings[i].limit, settings[i].maxAge)
<1>1. /\ TypeInv /\ m \in Messages /\ fate[m] = "live" /\ entry[m] \in Entries /\ h \in Names
      /\ dead \in [Names -> Seq(Letters)] /\ now \in Nat /\ settings[i] \in Settings
      /\ fate \in [Messages -> Fates]
  BY MessageTypes, WhereItIs, HomeOfLive DEF TypeInv, TypeOK
<1>2. e \in Letters /\ e.msg = m /\ e.why = why /\ e.diedAt = now
  BY <1>1 DEF Letters, Entries, Buried, Fates
<1>3. dead' = [dead EXCEPT ![h] = s] /\ fate'[m] = why
  BY <1>1 DEF Bury, Becomes
<1>4. PartOf(s, dead[h]) \/ (PartOf(s, Append(dead[h], e)) /\ Len(s) <= settings[i].limit)
  BY <1>1, <1>2, AddedPart DEF Settings
<1>5. dead'[h] = s
  BY <1>1, <1>3
<1> HIDE DEF s, e
<1>6. PartOf(s, dead[h]) \/ Gains(h)
  BY <1>1, <1>2, <1>3, <1>4, <1>5 DEF Gains
<1> QED BY <1>1, <1>3, <1>6, LettersOfOne

\* Whatever happens, letters are taken out or one is added.
LEMMA LettersMove ==
  ASSUME MessageInv, [Next]_vars
  PROVE  \A n \in Names : Shrinks(n) \/ Gains(n)
<1>0. /\ TypeInv /\ dead \in [Names -> Seq(Letters)] /\ op \in [Threads -> Ops] /\ CallsFit
      /\ pending \in [Instances -> Seq(Messages)]
  BY MessageTypes DEF TypeInv, TypeOK
<1>1. ASSUME UNCHANGED dead
      PROVE  \A n \in Names : Shrinks(n)
  BY <1>0, <1>1, WholeOrNothing DEF Shrinks
<1>2. ASSUME NEW i \in Instances, NEW m \in ToSet(pending[i]), BuryPending(i, m)
      PROVE  \A n \in Names : Shrinks(n) \/ Gains(n)
  <2>1. m \in Content(i) /\ Bury(i, m, DeathOf(m)) /\ DeathOf(m) \in Buried
    BY <1>2 DEF Content, BuryPending, DeathOf, Buried
  <2> QED BY <2>1, BuryWrites
<1>3. ASSUME NEW t \in Threads, DispatchBuries(t) \/ TakeBuries(t) \/ SweepBuries(t)
      PROVE  \A n \in Names : Shrinks(n) \/ Gains(n)
  <2>1. op[t].inst \in Instances /\ (op[t].pc = "sweeping" => op[t].scan >= 1) /\ op[t].scan \in Nat
    BY <1>0, <1>3 DEF DispatchBuries, TakeBuries, SweepBuries, Looking, CallsFit, Fits, InQueue, Ops
  <2>2. PICK i \in Instances : i = op[t].inst
    BY <2>1
  <2>3. CASE BuryHead(i)
    <3>1. Head(pending[i]) \in ToSet(pending[i]) /\ BuryPending(i, Head(pending[i]))
      BY <1>0, <2>3, TailElements DEF BuryHead
    <3> QED BY <1>2, <3>1
  <2>4. CASE SweepBuries(t)
    <3>1. PICK k : k = op[t].scan
      OBVIOUS
    <3>2. k \in DOMAIN pending[i] /\ SweepPending(i, k)
      BY <1>0, <2>1, <2>2, <2>4, <3>1, LenProperties DEF SweepBuries
    <3>3. pending[i][k] \in ToSet(pending[i]) /\ BuryPending(i, pending[i][k])
      BY <3>2 DEF SweepPending, ToSet
    <3> QED BY <1>2, <3>3
  <2> QED BY <1>3, <2>2, <2>3, <2>4 DEF DispatchBuries, TakeBuries
<1>4. ASSUME NEW t \in Threads, AbandonLocked(t)
      PROVE  \A n \in Names : Shrinks(n) \/ Gains(n)
  <2>1. op[t].inst \in Instances
    BY <1>0, <1>4 DEF AbandonLocked, At, CallsFit, Fits, InQueue
  <2>2. PICK i, m : i = op[t].inst /\ m = op[t].msg
    OBVIOUS
  <2>3. CASE DiesUnconfirmed(t, i, m)
    BY <2>1, <2>2, <2>3, BuryWrites DEF DiesUnconfirmed, Owns, Content, Buried
  <2>4. CASE UNCHANGED dead
    BY <1>1, <2>4
  <2> QED BY <1>4, <2>2, <2>3, <2>4 DEF AbandonLocked, GoesBack, bodyVars, messageVars
<1>5. ASSUME NEW t \in Threads, SweepEnds(t)
      PROVE  \A n \in Names : Shrinks(n)
  <2>1. dead' = [n \in Names |-> Pruned(dead[n], Resolve(n).limit, Resolve(n).maxAge, now)]
    BY <1>5 DEF SweepEnds
  <2> QED BY <1>0, <2>1, PrunedPart DEF Shrinks
<1>6. ASSUME NEW n \in Names, NEW m, NEW s, s \in {<<>>, Without(dead[n], m)},
             dead' = [dead EXCEPT ![n] = s]
      PROVE  \A h \in Names : Shrinks(h) \/ Gains(h)
  <2>1. PartOf(s, dead[n])
    BY <1>0, <1>6, WholeOrNothing, WithoutPart
  <2> QED BY <1>0, <1>6, <2>1, LettersOfOne
<1>7. CASE \E t \in Callers, n \in Names, m, x \in Messages : Requeue(t, n, m, x)
  BY <1>6, <1>7 DEF Requeue
<1>8. CASE \E t \in Callers, n \in Names : DiscardDeadLetters(t, n) \/ \E m \in Messages : DiscardDeadLetter(t, n, m)
  BY <1>6, <1>8 DEF DiscardDeadLetters, DiscardDeadLetter, Discard
<1>9. CASE /\ Start
           /\ ~ \E t \in Callers, n \in Names, m, x \in Messages : Requeue(t, n, m, x)
           /\ ~ \E t \in Callers, n \in Names : DiscardDeadLetters(t, n) \/ \E m \in Messages : DiscardDeadLetter(t, n, m)
  <2>1. UNCHANGED dead
    BY <1>9 DEF Start, Publish, Bind, Unbind, Confirm, Respond, Settle, Await, Disconnect, Take, RespondLate, Collect,
           Configure, SetPaused, Purge, StartSweep, bodyVars, messageVars
  <2> QED BY <1>1, <2>1
<1>10. CASE Tick \/ UNCHANGED vars
  BY <1>1, <1>10 DEF Tick, vars, messageVars
<1>11. ASSUME NEW t \in Threads, Step(t),
              ~(DispatchBuries(t) \/ TakeBuries(t) \/ SweepBuries(t) \/ AbandonLocked(t) \/ SweepEnds(t))
       PROVE  UNCHANGED dead
  <2>1. CASE RespondLateLocked(t) \/ CollectLocked(t) \/ ConfirmLocked(t) \/ RespondLocked(t) \/ AwaitLocked(t)
    BY <2>1 DEF RespondLateLocked, CollectLocked, ConfirmLocked, RespondLocked, AwaitLocked, LateRespondBody,
         CollectBody, ConfirmBody, RespondBody, AwaitBody, OnlyTracks, bodyVars, messageVars
  <2>2. CASE ~(RespondLateLocked(t) \/ CollectLocked(t) \/ ConfirmLocked(t) \/ RespondLocked(t) \/ AwaitLocked(t))
    BY <1>11, <2>2 DEF Step, Lookup, ReadSettings, AddQueue, Unregister, TryPublish, BindLocked, UnbindLocked,
       DispatchLocked, DispatchEnds, DispatchFinds, ScanBusy, ScanAcquires, ScanEnds, HandOver, HandDone, TakeEnters,
       TakeReturns, Release, Rotate, FreeNext, FreeEnds, LeaveNext, LeaveLast, Complete, Reread, AssignSettings,
       PauseWrites, PurgeLocked, SweepNext, SweepEnters, SweepSkips, SweepLeaves, Retire, Accept, AddConsumer,
       RemoveConsumer, FinishDispatch, OnlyTracks, Assign, TakeHead, PurgeBody, SweepInFlight, bodyVars, messageVars
  <2> QED BY <2>1, <2>2
<1> QED BY <1>1, <1>3, <1>4, <1>5, <1>7, <1>8, <1>9, <1>10, <1>11 DEF Next

\* The clock does not go back.
LEMMA TimeGoesOn ==
  ASSUME TypeInv, [Next]_vars
  PROVE  now \in Nat /\ now' \in Nat /\ now <= now'
<1>0. now \in Nat
  BY DEF TypeInv, TypeOK
<1>1. CASE Tick
  BY <1>0, <1>1 DEF Tick
<1>2. CASE Start
  <2>1. now' = now
    BY <1>2 DEF Start, Publish, Bind, Unbind, Confirm, Respond, Settle, Await, Disconnect, Take, RespondLate,
         Collect, Configure, SetPaused, Purge, Requeue, DiscardDeadLetters, DiscardDeadLetter, Discard, StartSweep,
         stableVars
  <2> QED BY <1>0, <2>1
<1>3. ASSUME NEW t \in Threads, Step(t)
      PROVE  now' = now
  BY <1>3 DEF Step, Lookup, ReadSettings, AddQueue, Unregister, TryPublish, BindLocked, UnbindLocked,
       DispatchLocked, DispatchEnds, DispatchBuries, DispatchFinds, ScanBusy, ScanAcquires, ScanEnds, HandOver, HandDone,
       TakeEnters, TakeBuries, TakeReturns, RespondLateLocked, CollectLocked, ConfirmLocked, RespondLocked, AwaitLocked,
       Release, Rotate, FreeNext, FreeEnds, LeaveNext, LeaveLast, AbandonLocked, Complete, Reread, AssignSettings,
       PauseWrites, PurgeLocked, SweepNext, SweepEnters, SweepBuries, SweepSkips, SweepLeaves, Retire, SweepEnds, stableVars
<1>4. CASE UNCHANGED vars
  BY <1>0, <1>4 DEF vars
<1> QED BY <1>0, <1>1, <1>2, <1>3, <1>4 DEF Next

\* Letters go on telling the truth.
LEMMA LettersStep ==
  ASSUME MessageInv, MessageInv', SettingsKnown, LettersInv, [Next]_vars
  PROVE  LettersInv'
<1>0. /\ TypeInv /\ Move /\ dead \in [Names -> Seq(Letters)]
      /\ now \in Nat /\ now' \in Nat /\ now <= now'
  BY MoveStep, MessageTypes, TimeGoesOn DEF TypeInv, TypeOK
<1> SUFFICES ASSUME NEW n \in Names
             PROVE  Tells(dead'[n], fate', now') /\ InOrder(dead'[n]) /\ Bounded(dead'[n])
  BY DEF LettersInv, Bounded
<1>1. PICK s : s = dead[n]
  OBVIOUS
<1>2. /\ s \in Seq(Letters) /\ DOMAIN s = 1 .. Len(s) /\ Len(s) \in Nat
      /\ \A k \in DOMAIN s : s[k].msg \in Messages /\ s[k].diedAt \in Nat /\ s[k].diedAt <= now
      /\ \A k \in DOMAIN s : fate[s[k].msg] = s[k].why /\ s[k].why \in Buried
      /\ InOrder(s)
  <2>1. s \in Seq(Letters) /\ Tells(s, fate, now) /\ InOrder(s)
    BY <1>0, <1>1 DEF LettersInv
  <2>2. \A k \in DOMAIN s : s[k] \in Letters
    BY <2>1
  <2> QED BY <2>1, <2>2 DEF Tells, Letters
<1>3. Tells(s, fate', now') /\ InOrder(s)
  BY <1>0, <1>2, BuriedStays DEF Tells
<1>4. CASE Shrinks(n)
  <2>1. Len(dead'[n]) <= Len(s) /\ Len(dead'[n]) \in Nat
    BY <1>0, <1>1, <1>4, MessageTypes DEF Shrinks, PartOf, TypeInv, TypeOK
  <2>2. Bounded(s) /\ \A given \in EverGiven : given.limit \in Nat
    BY <1>1, ValuesAssumption DEF LettersInv, EverGiven, Settings
  <2>3. Bounded(dead'[n])
    BY <1>2, <2>1, <2>2 DEF Bounded
  <2> QED BY <1>1, <1>3, <1>4, <2>3, PartTells DEF Shrinks
<1>5. CASE Gains(n)
  <2>1. PICK m \in Messages, e \in Letters :
              /\ fate[m] = "live" /\ e.msg = m /\ e.diedAt = now
              /\ e.why \in Buried /\ fate'[m] = e.why
              /\ PartOf(dead'[n], Append(s, e))
              /\ \E i \in Instances : Len(dead'[n]) <= settings[i].limit
    BY <1>1, <1>5 DEF Gains
  <2>5. Bounded(dead'[n])
    BY <2>1 DEF Bounded, SettingsKnown, Known
  <2> DEFINE all == Append(s, e)
  <2>2. /\ DOMAIN all = 1 .. Len(s) + 1
        /\ \A k \in 1 .. Len(s) : all[k] = s[k]
        /\ all[Len(s) + 1] = e
    BY <1>2, AppendProperties
  <2> HIDE DEF all
  <2>3. Tells(all, fate', now')
    BY <1>0, <1>2, <1>3, <2>1, <2>2 DEF Tells
  <2>4. InOrder(all)
    <3> SUFFICES ASSUME NEW k \in DOMAIN all, NEW l \in DOMAIN all, k < l
                 PROVE  all[k].msg # all[l].msg /\ all[k].diedAt <= all[l].diedAt
      BY DEF InOrder
    <3>1. CASE l \in 1 .. Len(s)
      BY <1>2, <2>2, <3>1 DEF InOrder
    <3>2. CASE l = Len(s) + 1
      <4>1. k \in 1 .. Len(s) /\ all[k] = s[k] /\ all[l] = e
        BY <1>2, <2>2, <3>2
      <4>2. fate[s[k].msg] # "live" /\ s[k].diedAt <= now
        BY <1>2, <4>1 DEF Buried
      <4> QED BY <2>1, <4>1, <4>2
    <3> QED BY <1>2, <2>2, <3>1, <3>2
  <2> QED BY <2>1, <2>3, <2>4, <2>5, PartTells DEF all
<1> QED BY <1>0, <1>4, <1>5, LettersMove

\* DeadLetterStore.cs, Add, Remove and Prune, and Bury and Requeue around them: a dead letter is
\* about a message that died, tells how, and is the only one about it, in the order they died,
\* and no queue ever has more of them than the most some settings keep.
THEOREM LettersAreTrue == Spec => []LettersTellTheTruth
<1>1. Init => LettersInv
  <2>1. Init => \A n \in Names : dead[n] = <<>>
    BY DEF Init
  <2>2. Tells(<<>>, fate, now) /\ InOrder(<<>>) /\ Bounded(<<>>)
    BY ValuesAssumption DEF Tells, InOrder, Bounded, EverGiven, Settings
  <2> QED BY <2>1, <2>2 DEF LettersInv
<1>2. HeldInv /\ SettingsKnown /\ LettersInv /\ [Next]_vars => HeldInv' /\ SettingsKnown' /\ LettersInv'
  BY HeldStep, KnownStep, MessageTypes, LettersStep DEF HeldInv, FoundInv
<1>3. LettersInv => LettersTellTheTruth
  BY DEF LettersInv, Tells, InOrder, Bounded, LettersTellTheTruth
<1> QED BY HeldInit, KnownAtFirst, <1>1, <1>2, <1>3, PTL DEF Spec

-----------------------------------------------------------------------------
(* Inside the lock *)

\* The thread that has the lock of a queue is the one whose call is inside.
InsideLock == { "dispatch", "look", "scan", "taking", "sweeping" }

Inside(t, i) == op[t].pc \in InsideLock /\ op[t].inst = i

LockInv == \A i \in Instances : \A t \in Threads : (gate[i] = t) <=> Inside(t, i)

\* A call stays where it is, enters the lock of its queue, or leaves it.
Remains(t) ==
  /\ UNCHANGED gate
  /\ (op'[t].pc \in InsideLock) <=> (op[t].pc \in InsideLock)
  /\ op[t].pc \in InsideLock => op'[t].inst = op[t].inst

Comes(t) ==
  /\ op[t].pc = "gate" /\ op'[t].pc \in InsideLock /\ op'[t].inst = op[t].inst
  /\ Enter(op[t].inst, t)

Leaves(t) == op[t].pc \in InsideLock /\ op'[t].pc \notin InsideLock /\ Leave(op[t].inst)

\* The step that takes the lock, or gives it back, goes in, or out.
LEMMA LockGoes ==
  ASSUME TypeInv, NEW t \in Threads, Step(t)
  PROVE  Remains(t) \/ Comes(t) \/ Leaves(t)
<1>0. op \in [Threads -> Ops]
  BY DEF TypeInv, TypeOK
<1> USE DEF InsideLock
<1>1. CASE Lookup(t) \/ ReadSettings(t) \/ AddQueue(t) \/ Unregister(t)
  <2>1. CASE Lookup(t)
    <3>1. PICK o : o = GetOrAdd(op[t].kind, op[t].name, op[t].msg)
      OBVIOUS
    <3>2. o.pc \in {"gate", "resolve"}
      BY <3>1, LookedUp DEF GoesTo
    <3>3. op'[t] = o /\ op[t].pc = "lookup" /\ UNCHANGED gate
      BY <1>0, <2>1, <3>1 DEF Lookup
    <3> QED BY <3>2, <3>3 DEF Remains
  <2>2. CASE AddQueue(t)
    <3>1. PICK i : op' = [op EXCEPT ![t].inst = i, ![t].pc = "gate"]
      BY <2>2 DEF AddQueue
    <3>2. op'[t].pc = "gate"
      BY <1>0, <3>1 DEF Ops
    <3>3. op[t].pc = "add" /\ UNCHANGED gate
      BY <2>2 DEF AddQueue
    <3> QED BY <3>2, <3>3 DEF Remains
  <2> QED BY <1>0, <1>1, <2>1, <2>2 DEF ReadSettings, Unregister, At, Remains, Ops
<1>2. CASE TryPublish(t) \/ BindLocked(t) \/ DispatchLocked(t) \/ SweepEnters(t)
  BY <1>0, <1>2 DEF TryPublish, BindLocked, DispatchLocked, SweepEnters, At, Goto, Unlocked, Remains, Comes, Ops
<1>3. CASE TakeEnters(t)
  BY <1>0, <1>3 DEF TakeEnters, At, Goto, Return, Idle, Unlocked, Remains, Comes, Ops
<1>4. CASE AbandonLocked(t)
  BY <1>0, <1>4 DEF AbandonLocked, At, Goto, Unlocked, Remains, Comes, Ops
<1>5. CASE UnbindLocked(t) \/ PurgeLocked(t) \/ CollectLocked(t)
  BY <1>0, <1>5 DEF UnbindLocked, PurgeLocked, CollectLocked, At, Return, Idle, Unlocked, Remains, Ops
<1>6. CASE DispatchEnds(t) \/ ScanEnds(t)
  BY <1>0, <1>6 DEF DispatchEnds, ScanEnds, Looking, FinishDispatch, AfterDispatch, Leaves, Ops
<1>7. CASE DispatchBuries(t) \/ DispatchFinds(t) \/ ScanBusy(t) \/ ScanAcquires(t)
  BY <1>0, <1>7 DEF DispatchBuries, DispatchFinds, ScanBusy, ScanAcquires, Looking, Goto, Remains, bodyVars, Ops
<1>8. CASE HandOver(t) \/ HandDone(t)
  <2>1. CASE HandOver(t)
    BY <1>0, <2>1 DEF HandOver, queueVars, Remains, Ops
  <2>2. CASE HandDone(t)
    <3>1. op'[t].pc \in {"release", "complete", "idle"}
      BY <1>0, <2>2 DEF HandDone, Idle, Ops
    <3> QED BY <2>2, <3>1 DEF HandDone, Remains
  <2> QED BY <1>8, <2>1, <2>2
<1>9. CASE TakeBuries(t) \/ TakeReturns(t)
  BY <1>0, <1>9 DEF TakeBuries, TakeReturns, Return, Idle, Remains, Leaves, Ops
<1>10. CASE RespondLateLocked(t) \/ ConfirmLocked(t) \/ RespondLocked(t) \/ AwaitLocked(t)
  <2>1. op'[t].pc \in {"hand", "idle", "release"}
    BY <1>0, <1>10 DEF RespondLateLocked, ConfirmLocked, RespondLocked, AwaitLocked, Goto, Return, Idle, Ops
  <2> QED BY <1>10, <2>1 DEF RespondLateLocked, ConfirmLocked, RespondLocked, AwaitLocked, At, Unlocked, Remains
<1>11. CASE Release(t) \/ FreeNext(t) \/ FreeEnds(t) \/ LeaveNext(t)
  BY <1>0, <1>11 DEF Release, FreeNext, FreeEnds, LeaveNext, Goto, Remains, queueVars, Ops
<1>12. CASE Rotate(t)
  <2>1. PICK s : s = Rotated(t)
    OBVIOUS
  <2> QED BY <1>0, <1>12, <2>1 DEF Rotate, Idle, Remains
<1>13. CASE LeaveLast(t)
  <2>1. op'[t].pc \in {"gate", "idle", "complete"}
    <3>1. PICK o : o = TryGet("abandon", current[t].home, current[t].msg)
      OBVIOUS
    <3>2. o.pc \in {"gate", "idle"}
      BY <3>1, LookedUp DEF GoesTo, Idle
    <3>3. op'[t] = o \/ op'[t] = [Idle EXCEPT !.pc = "complete"]
      BY <1>0, <1>13, <3>1 DEF LeaveLast
    <3> QED BY <3>2, <3>3 DEF Idle
  <2> QED BY <1>13, <2>1 DEF LeaveLast, Remains
<1>14. CASE Complete(t) \/ Reread(t) \/ AssignSettings(t)
  BY <1>0, <1>14 DEF Complete, Reread, AssignSettings, Goto, Return, Idle, queueVars, Remains, Ops
<1>15. CASE PauseWrites(t)
  <2>1. op'[t].pc \in {"idle", "reread"}
    BY <1>0, <1>15 DEF PauseWrites, Written, TryGet, Idle
  <2> QED BY <1>15, <2>1 DEF PauseWrites, Remains
<1>16. CASE SweepNext(t) \/ SweepBuries(t) \/ SweepSkips(t) \/ SweepLeaves(t) \/ Retire(t)
  BY <1>0, <1>16 DEF SweepNext, SweepBuries, SweepSkips, SweepLeaves, Retire, Goto, Remains, Leaves, Ops
<1>17. CASE SweepEnds(t)
  BY <1>0, <1>17 DEF SweepEnds, Return, Idle, queueVars, Remains
<1> QED BY <1>1, <1>2, <1>3, <1>4, <1>5, <1>6, <1>7, <1>8, <1>9, <1>10, <1>11, <1>12, <1>13, <1>14,
           <1>15, <1>16, <1>17 DEF Step

\* So the lock of a queue is that of the call inside it.
LEMMA LockStep ==
  ASSUME TypeInv, LockInv, [Next]_vars
  PROVE  LockInv'
<1>0. op \in [Threads -> Ops] /\ gate \in [Instances -> Threads \union {None}] /\ CallsFit
  BY DEF TypeInv, TypeOK
<1>1. CASE Tick \/ UNCHANGED vars
  BY <1>1 DEF Tick, vars, queueVars, LockInv, Inside
<1>2. CASE Start
  <2>1. UNCHANGED gate
    BY <1>2 DEF Start, Publish, Bind, Unbind, Confirm, Respond, Settle, Await, Disconnect, Take, RespondLate,
         Collect, Configure, SetPaused, Purge, Requeue, DiscardDeadLetters, DiscardDeadLetter, Discard, StartSweep,
         queueVars
  <2>2. CASE UNCHANGED op
    BY <2>1, <2>2 DEF LockInv, Inside
  <2>3. ASSUME NEW u \in Threads, Starts(u)
        PROVE  LockInv'
    <3>1. /\ op[u].pc \notin InsideLock /\ op'[u].pc \notin InsideLock
          /\ \A t \in Threads \ {u} : op'[t] = op[t]
      BY <2>3 DEF Starts, Ready, Begins, GoesTo, OthersWait, Idle, InsideLock
    <3> QED BY <2>1, <3>1 DEF LockInv, Inside
  <2> QED BY <1>2, <2>2, <2>3, StartOfOne
<1>3. ASSUME NEW t \in Threads, Step(t)
      PROVE  LockInv'
  <2>1. \A u \in Threads \ {t} : op'[u] = op[u]
    BY <1>3, StepOfOne DEF OthersWait
  <2>2. CASE Remains(t)
    BY <2>1, <2>2 DEF Remains, LockInv, Inside
  <2>3. None \notin Threads /\ (op[t].pc \in InsideLock => op[t].inst \in Instances)
    BY <1>0, ThreadsAssumption DEF CallsFit, Fits, InQueue, InsideLock
  <2>4. CASE Comes(t)
    <3>1. PICK j : j = op[t].inst
      OBVIOUS
    <3>2. gate[j] = None /\ gate' = [gate EXCEPT ![j] = t] /\ Inside(t, j)' /\ ~Inside(t, j)
      BY <2>4, <3>1 DEF Comes, Enter, Inside, InsideLock
    <3>3. \A i \in Instances : i # j => ~Inside(t, i)' /\ ~Inside(t, i)
      BY <2>4, <3>1 DEF Comes, Inside, InsideLock
    <3>4. \A i \in Instances : \A u \in Threads \ {t} : Inside(u, i)' <=> Inside(u, i)
      BY <2>1 DEF Inside
    <3> QED BY <1>0, <2>3, <3>2, <3>3, <3>4 DEF LockInv
  <2>5. CASE Leaves(t)
    <3>1. PICK j : j = op[t].inst
      OBVIOUS
    <3>2. gate' = [gate EXCEPT ![j] = None] /\ Inside(t, j) /\ j \in Instances
      BY <2>3, <2>5, <3>1 DEF Leaves, Leave, Inside
    <3>3. \A i \in Instances : ~Inside(t, i)' /\ (i # j => ~Inside(t, i))
      BY <2>5, <3>1 DEF Leaves, Inside
    <3>4. \A i \in Instances : \A u \in Threads \ {t} : Inside(u, i)' <=> Inside(u, i)
      BY <2>1 DEF Inside
    <3>5. gate[j] = t
      BY <3>2 DEF LockInv
    <3> QED BY <1>0, <2>3, <3>2, <3>3, <3>4, <3>5 DEF LockInv
  <2> QED BY <1>3, <2>2, <2>4, <2>5, LockGoes
<1> QED BY <1>1, <1>2, <1>3 DEF Next

-----------------------------------------------------------------------------
(* A queue that is paused *)

\* A call that is past the question whether the queue is paused.
Acting(t, i)  == op[t].pc \in {"look", "scan", "taking"} /\ op[t].inst = i

\* A call that gave the queue its settings, and waits for those that are still acting.
Changing(i) == \E t \in Callers : At(t, "gate", {"configure"}) /\ op[t].inst = i

PauseInv == \A i \in Instances : settings[i].paused /\ (\E t \in Threads : Acting(t, i)) => Changing(i)

\* A call goes on acting, or asks whether the queue is paused.
LEMMA ActsBy ==
  ASSUME TypeInv, NEW t \in Threads, Step(t), NEW i, Acting(t, i)'
  PROVE  /\ UNCHANGED settings
         /\ Acting(t, i) \/ (op[t].inst = i /\ ~settings[i].paused)
<1>0. /\ op \in [Threads -> Ops] /\ op'[t].pc \in InsideLock /\ op'[t].pc \in {"look", "scan", "taking"}
      /\ op'[t].inst = i
  BY DEF TypeInv, TypeOK, Acting, InsideLock
<1>1. /\ op'[t].inst = op[t].inst
      /\ op[t].pc = "gate" \/ op[t].pc \in InsideLock
      /\ op[t].pc = "gate" => op'[t].pc # op[t].pc /\ op'[t].pc \in InsideLock
  <2>1. ~Leaves(t)
    BY <1>0 DEF Leaves
  <2> QED BY <1>0, <2>1, LockGoes DEF Remains, Comes, InsideLock
<1>2. CASE op[t].pc = "gate"
  <2>1. CASE TakeEnters(t)
    <3>1. UNCHANGED settings
      BY <2>1 DEF TakeEnters, stableVars
    <3>2. ~settings[op[t].inst].paused
      <4>1. ~Return(t)
        BY <1>0, <1>1 DEF Return, Idle
      <4> QED BY <2>1, <4>1 DEF TakeEnters
    <3> QED BY <1>0, <1>1, <3>1, <3>2
  <2>2. CASE TryPublish(t) \/ BindLocked(t) \/ DispatchLocked(t)
    <3>1. op'[t].pc \in {"unregister", "dispatch"}
      BY <1>0, <2>2 DEF TryPublish, BindLocked, DispatchLocked, Goto, Ops
    <3> QED BY <1>0, <3>1
  <2>3. CASE AbandonLocked(t) \/ SweepEnters(t)
    <3>1. op'[t].pc \in {"hand", "dispatch", "sweeping"}
      BY <1>0, <2>3 DEF AbandonLocked, SweepEnters, Goto, Ops
    <3> QED BY <1>0, <3>1
  <2>4. CASE UnbindLocked(t) \/ PurgeLocked(t) \/ CollectLocked(t)
    <3>1. op'[t].pc \in {"idle", "leaving"}
      BY <1>0, <2>4 DEF UnbindLocked, PurgeLocked, CollectLocked, Return, Idle, Ops
    <3> QED BY <1>0, <3>1
  <2>5. CASE RespondLateLocked(t) \/ ConfirmLocked(t) \/ RespondLocked(t) \/ AwaitLocked(t)
    <3>1. op'[t].pc \in {"hand", "idle", "release"}
      BY <1>0, <2>5 DEF RespondLateLocked, ConfirmLocked, RespondLocked, AwaitLocked, Goto, Return, Idle, Ops
    <3> QED BY <1>0, <3>1
  <2> QED BY <1>2, <2>1, <2>2, <2>3, <2>4, <2>5, StepByPlace
<1>3. CASE op[t].pc \in {"dispatch", "look"}
  <2>1. CASE DispatchEnds(t)
    <3>1. op'[t].pc \in {"freeing", "hand"}
      BY <1>0, <2>1 DEF DispatchEnds, FinishDispatch, AfterDispatch, Ops
    <3> QED BY <1>0, <3>1
  <2>2. CASE DispatchBuries(t) \/ DispatchFinds(t)
    BY <1>0, <1>1, <2>2 DEF DispatchBuries, DispatchFinds, Looking, MayDispatch, Acting, stableVars
  <2> QED BY <1>3, <2>1, <2>2, StepByPlace
<1>4. CASE op[t].pc = "scan"
  BY <1>1, <1>4, StepByPlace DEF ScanBusy, ScanAcquires, ScanEnds, Acting, stableVars
<1>5. CASE op[t].pc = "taking"
  BY <1>1, <1>5, StepByPlace DEF TakeBuries, TakeReturns, Acting, stableVars
<1>6. CASE op[t].pc = "sweeping"
  <2>1. CASE SweepBuries(t) \/ SweepSkips(t)
    <3>1. op'[t].pc = op[t].pc
      BY <1>0, <2>1 DEF SweepBuries, SweepSkips, Ops
    <3> QED BY <1>0, <1>6, <3>1
  <2>2. CASE SweepLeaves(t)
    <3>1. op'[t].pc \in {"retire", "sweep"}
      BY <1>0, <2>2 DEF SweepLeaves, Ops
    <3> QED BY <1>0, <3>1
  <2> QED BY <1>6, <2>1, <2>2, StepByPlace
<1> QED BY <1>1, <1>2, <1>3, <1>4, <1>5, <1>6 DEF InsideLock

\* The settings of a queue change while a call waits for those that are acting, or nobody acts yet.
LEMMA SettingsChange ==
  ASSUME TypeInv, NEW t \in Threads, Step(t), Course(t), NEW i \in Instances, settings'[i] # settings[i]
  PROVE  Changing(i)' \/ (Unused(i) /\ AddQueue(t))
<1>0. op \in [Threads -> Ops] /\ settings \in [Instances -> Settings]
  BY DEF TypeInv, TypeOK
<1>1. CASE AssignSettings(t)
  <2>1. PICK j, s : j = op[t].inst /\ s = op[t].arg
    OBVIOUS
  <2>2. i = j /\ op'[t].pc = "gate" /\ op'[t].kind = op[t].kind /\ op'[t].inst = j /\ op[t].pc = "assign"
    BY <1>0, <1>1, <2>1 DEF AssignSettings, Goto, Ops
  <2>3. op[t].kind = "configure" /\ t \in Callers
    <3>1. op[t].kind = "configure"
      BY <2>2 DEF TypeInv, CallsFit, Fits
    <3> QED BY <3>1 DEF Course, Whose
  <2> QED BY <2>2, <2>3 DEF Changing, At
<1>2. CASE AddQueue(t)
  BY <1>0, <1>2 DEF AddQueue
<1>3. CASE ~(AssignSettings(t) \/ AddQueue(t))
  <2>1. UNCHANGED settings
    BY <1>3 DEF Step, Lookup, ReadSettings, Unregister, TryPublish, BindLocked, UnbindLocked,
       DispatchLocked, DispatchEnds, DispatchBuries, DispatchFinds, ScanBusy, ScanAcquires, ScanEnds, HandOver, HandDone,
       TakeEnters, TakeBuries, TakeReturns, RespondLateLocked, CollectLocked, ConfirmLocked, RespondLocked, AwaitLocked,
       Release, Rotate, FreeNext, FreeEnds, LeaveNext, LeaveLast, AbandonLocked, Complete, Reread,
       PauseWrites, PurgeLocked, SweepNext, SweepEnters, SweepBuries, SweepSkips, SweepLeaves, Retire, SweepEnds,
       stableVars, queueVars
  <2> QED BY <2>1
<1> QED BY <1>1, <1>2, <1>3

\* Nobody acts on settings that a call has changed, unless that call still waits.
LEMMA PauseStep ==
  ASSUME TypeInv, LockInv, PauseInv, \A t \in Threads : Course(t), [Next]_vars
  PROVE  PauseInv'
<1>0. /\ op \in [Threads -> Ops] /\ gate \in [Instances -> Threads \union {None}]
      /\ None \notin Threads /\ Callers \subseteq Threads
  BY ThreadsAssumption DEF TypeInv, TypeOK, Threads
<1>1. CASE Tick \/ UNCHANGED vars
  BY <1>1 DEF Tick, vars, queueVars, PauseInv, Acting, Changing, At
<1>2. CASE Start
  <2>1. UNCHANGED settings
    BY <1>2 DEF Start, Publish, Bind, Unbind, Confirm, Respond, Settle, Await, Disconnect, Take, RespondLate,
         Collect, Configure, SetPaused, Purge, Requeue, DiscardDeadLetters, DiscardDeadLetter, Discard, StartSweep,
         queueVars, stableVars
  <2>2. CASE UNCHANGED op
    BY <2>1, <2>2 DEF PauseInv, Acting, Changing, At
  <2>3. ASSUME NEW u \in Threads, Starts(u)
        PROVE  PauseInv'
    <3>1. /\ op[u].pc = "idle" /\ op'[u].pc \notin {"look", "scan", "taking"}
          /\ \A t \in Threads \ {u} : op'[t] = op[t]
      BY <2>3 DEF Starts, Ready, Begins, GoesTo, OthersWait, Idle
    <3>2. \A t \in Threads, i \in Instances : Acting(t, i)' => Acting(t, i)
      BY <3>1 DEF Acting
    <3>3. \A i \in Instances : Changing(i) => Changing(i)'
      BY <1>0, <3>1 DEF Changing, At
    <3> QED BY <2>1, <3>2, <3>3 DEF PauseInv
  <2> QED BY <1>2, <2>2, <2>3, StartOfOne
<1>3. ASSUME NEW t \in Threads, Step(t)
      PROVE  PauseInv'
  <2>1. \A u \in Threads \ {t} : op'[u] = op[u]
    BY <1>3, StepOfOne DEF OthersWait
  <2> SUFFICES ASSUME NEW i \in Instances, NEW u \in Threads, Acting(u, i)', settings'[i].paused
               PROVE  Changing(i)'
    BY DEF PauseInv
  <2>2. Acting(u, i) \/ (op[u].inst = i /\ ~settings[i].paused /\ settings' = settings)
    BY <1>3, <2>1, ActsBy DEF Acting
  <2>3. CASE settings'[i] # settings[i]
    <3>1. ~Unused(i)
      BY <2>2 DEF Unused, Acting
    <3> QED BY <1>3, <2>3, <3>1, SettingsChange
  <2>4. CASE settings'[i] = settings[i]
    <3>1. Acting(u, i) /\ Changing(i)
      BY <2>2, <2>4 DEF PauseInv
    <3>2. PICK v \in Callers : At(v, "gate", {"configure"}) /\ op[v].inst = i
      BY <3>1 DEF Changing
    <3>3. v # t
      <4>1. gate[i] = u
        BY <3>1 DEF LockInv, Inside, Acting, InsideLock
      <4>2. gate[i] # None
        BY <1>0, <4>1
      <4>3. v = t => DispatchLocked(t)
        BY <1>3, <3>2, StepByPlace DEF At
      <4> QED BY <3>2, <4>2, <4>3 DEF DispatchLocked, Enter
    <3>4. op'[v] = op[v]
      BY <1>0, <2>1, <3>3
    <3> QED BY <3>2, <3>4 DEF Changing, At
  <2> QED BY <2>3, <2>4
<1> QED BY <1>1, <1>2, <1>3 DEF Next

\* A step that gives no message to a consumer, nor to a 1.x client.
HandsNothing ==
  \A m \in Messages : /\ entry'[m].owner \in {entry[m].owner, None}
                      /\ fate'[m] = "taken" => fate[m] = "taken"

\* Only a call that found a consumer, or takes, does.
LEMMA StepHands ==
  ASSUME TypeInv, NEW t \in Threads, Step(t), ~ScanAcquires(t), ~TakeReturns(t)
  PROVE  HandsNothing
<1>0. /\ entry \in [Messages -> Entries] /\ fate \in [Messages -> Fates] /\ op \in [Threads -> Ops]
  BY DEF TypeInv, TypeOK
<1>1. ASSUME NEW m, \/ entry' = [entry EXCEPT ![m] = Blank]
                    \/ entry' = [entry EXCEPT ![m] = Answered(m)]
                    \/ entry' = [entry EXCEPT ![m].born = now]
                    \/ entry' = [entry EXCEPT ![m].owner = None]
                    \/ entry' = [entry EXCEPT ![m].replyTo = t]
                    \/ entry' = entry
      PROVE  \A x \in Messages : entry'[x].owner \in {entry[x].owner, None}
  <2> SUFFICES ASSUME NEW x \in Messages
               PROVE  entry'[x].owner \in {entry[x].owner, None}
    OBVIOUS
  <2>1. CASE x # m
    BY <1>0, <1>1, <2>1
  <2>2. CASE x = m
    <3>1. entry[x] \in Entries
      BY <1>0
    <3>2. /\ Blank.owner = None /\ Answered(x).owner = None
          /\ [entry[x] EXCEPT !.born = now].owner = entry[x].owner
          /\ [entry[x] EXCEPT !.owner = None].owner = None
          /\ [entry[x] EXCEPT !.replyTo = t].owner = entry[x].owner
      BY <3>1 DEF Blank, Answered, Entries
    <3>3. entry'[x] \in { Blank, Answered(x), [entry[x] EXCEPT !.born = now], [entry[x] EXCEPT !.owner = None],
                          [entry[x] EXCEPT !.replyTo = t], entry[x] }
      BY <1>0, <1>1, <2>2
    <3> QED BY <3>2, <3>3
  <2> QED BY <2>1, <2>2
<1>2. ASSUME NEW m, NEW f, f # "taken", fate' = [fate EXCEPT ![m] = f] \/ fate' = fate
      PROVE  \A x \in Messages : fate'[x] = "taken" => fate[x] = "taken"
  BY <1>0, <1>2
<1>3. CASE TryPublish(t)
  <2>1. entry' = entry \/ entry' = [entry EXCEPT ![op[t].msg].born = now]
    BY <1>3 DEF TryPublish, Accept, bodyVars, messageVars
  <2>2. fate' = fate \/ fate' = [fate EXCEPT ![op[t].msg] = "live"]
    BY <1>3 DEF TryPublish, Accept, Becomes, bodyVars, messageVars
  <2> QED BY <1>1, <1>2, <2>1, <2>2 DEF HandsNothing
<1>4. CASE DispatchBuries(t) \/ TakeBuries(t) \/ SweepBuries(t)
  <2>1. \E m : entry' = [entry EXCEPT ![m] = Blank]
    BY <1>4 DEF DispatchBuries, TakeBuries, SweepBuries, BuryHead, SweepPending, BuryPending, Bury, Forget
  <2>2. \E m : fate' = [fate EXCEPT ![m] = "expired"] \/ fate' = [fate EXCEPT ![m] = "notConsumed"]
    BY <1>4 DEF DispatchBuries, TakeBuries, SweepBuries, BuryHead, SweepPending, BuryPending, Bury, Becomes, DeathOf
  <2> QED BY <1>1, <1>2, <2>1, <2>2 DEF HandsNothing
<1>5. CASE HandOver(t)
  <2>1. entry' = entry
    BY <1>5 DEF HandOver
  <2>2. \E m : fate' = fate \/ fate' = [fate EXCEPT ![m] = "answerLost"] \/ fate' = [fate EXCEPT ![m] = "answered"]
    BY <1>5 DEF HandOver, Becomes
  <2> QED BY <1>1, <1>2, <2>1, <2>2 DEF HandsNothing
<1>6. CASE RespondLateLocked(t) \/ CollectLocked(t) \/ ConfirmLocked(t) \/ RespondLocked(t)
  <2>1. PICK m : m = op[t].msg
    OBVIOUS
  <2>2. \/ entry' = entry \/ entry' = [entry EXCEPT ![m] = Blank]
        \/ entry' = [entry EXCEPT ![m] = Answered(m)]
    BY <1>6, <2>1 DEF RespondLateLocked, CollectLocked, ConfirmLocked, RespondLocked, LateRespondBody, CollectBody,
         ConfirmBody, RespondBody, KeepAnswer, Finish, Forget, bodyVars, messageVars
  <2>3. \/ fate' = fate \/ fate' = [fate EXCEPT ![m] = "pushed"]
        \/ fate' = [fate EXCEPT ![m] = "collected"] \/ fate' = [fate EXCEPT ![m] = "confirmed"]
    BY <1>6, <2>1 DEF RespondLateLocked, CollectLocked, ConfirmLocked, RespondLocked, LateRespondBody, CollectBody,
         ConfirmBody, RespondBody, KeepAnswer, Finish, Becomes, bodyVars, messageVars
  <2> QED BY <1>1, <1>2, <2>2, <2>3 DEF HandsNothing
<1>7. CASE AwaitLocked(t)
  <2>1. PICK m : m = op[t].msg
    OBVIOUS
  <2>2. \/ entry' = entry \/ entry' = [entry EXCEPT ![m] = Blank]
        \/ entry' = [entry EXCEPT ![m].replyTo = t]
    BY <1>7, <2>1 DEF AwaitLocked, AwaitBody, OnlyTracks, Finish, Forget, messageVars
  <2>3. fate' = fate \/ fate' = [fate EXCEPT ![m] = "pushed"]
    BY <1>7, <2>1 DEF AwaitLocked, AwaitBody, OnlyTracks, Finish, Becomes, messageVars
  <2> QED BY <1>1, <1>2, <2>2, <2>3 DEF HandsNothing
<1>8. CASE AbandonLocked(t)
  <2>1. PICK m : m = op[t].msg
    OBVIOUS
  <2>2. \/ entry' = entry \/ entry' = [entry EXCEPT ![m] = Blank]
        \/ entry' = [entry EXCEPT ![m].owner = None]
    BY <1>8, <2>1 DEF AbandonLocked, DiesUnconfirmed, GoesBack, Bury, Forget, bodyVars, messageVars
  <2>3. fate' = fate \/ fate' = [fate EXCEPT ![m] = "unconfirmed"]
    BY <1>8, <2>1 DEF AbandonLocked, DiesUnconfirmed, GoesBack, Bury, Becomes, bodyVars, messageVars
  <2> QED BY <1>1, <1>2, <2>2, <2>3 DEF HandsNothing
<1>9. CASE PurgeLocked(t) \/ SweepLeaves(t)
  <2>1. PICK S : /\ entry' = [m \in Messages |-> IF m \in S THEN Blank ELSE entry[m]]
                 /\ \/ fate' = [m \in Messages |-> IF m \in S THEN "purged" ELSE fate[m]]
                    \/ fate' = [m \in Messages |-> IF m \in S THEN "dropped" ELSE fate[m]]
    BY <1>9 DEF PurgeLocked, PurgeBody, SweepLeaves, SweepInFlight
  <2> QED BY <2>1 DEF HandsNothing, Blank
<1>10. CASE ~(TryPublish(t) \/ DispatchBuries(t) \/ TakeBuries(t) \/ SweepBuries(t) \/ HandOver(t) \/ RespondLateLocked(t)
              \/ CollectLocked(t) \/ ConfirmLocked(t) \/ RespondLocked(t) \/ AwaitLocked(t) \/ AbandonLocked(t)
              \/ PurgeLocked(t) \/ SweepLeaves(t))
  <2>1. UNCHANGED << entry, fate >>
    BY <1>10 DEF Step, Lookup, ReadSettings, AddQueue, Unregister, BindLocked, UnbindLocked,
       DispatchLocked, DispatchEnds, DispatchFinds, ScanBusy, ScanEnds, HandDone, TakeEnters, Release, Rotate, FreeNext,
       FreeEnds, LeaveNext, LeaveLast, Complete, Reread, AssignSettings, PauseWrites, SweepNext, SweepEnters, SweepSkips,
       Retire, SweepEnds, AddConsumer, RemoveConsumer, FinishDispatch, OnlyTracks, bodyVars, messageVars
  <2> QED BY <2>1 DEF HandsNothing
<1> QED BY <1>3, <1>4, <1>5, <1>6, <1>7, <1>8, <1>9, <1>10

\* Nothing that is asked for hands a message out by itself.
LEMMA StartHands ==
  ASSUME TypeInv, Start
  PROVE  HandsNothing
<1>0. entry \in [Messages -> Entries] /\ fate \in [Messages -> Fates]
  BY DEF TypeInv, TypeOK
<1>1. ASSUME NEW m, NEW e, e.owner = None, entry' = [entry EXCEPT ![m] = e], fate' = [fate EXCEPT ![m] = "sent"]
      PROVE  HandsNothing
  BY <1>0, <1>1 DEF HandsNothing
<1>2. CASE \E t \in Consumers \union Callers, n \in Names, m \in Messages, k \in Kinds : Publish(t, n, m, k)
  <2>1. PICK m, rpc, ttl, r : /\ fate' = [fate EXCEPT ![m] = "sent"]
                              /\ entry' = [entry EXCEPT ![m] = [Blank EXCEPT !.home = r.home, !.rpc = rpc, !.ttl = ttl,
                                                                              !.replyTo = r.replyTo]]
    <3>1. PICK t \in Consumers \union Callers, n \in Names, m \in Messages, k \in Kinds : Publish(t, n, m, k)
      BY <1>2
    <3>2. PICK w : w = IF k.rpc /\ t \in Consumers THEN t ELSE None
      OBVIOUS
    <3>3. PICK r : r.home = n /\ r.replyTo = w
      <4>1. [home |-> n, replyTo |-> w].home = n /\ [home |-> n, replyTo |-> w].replyTo = w
        OBVIOUS
      <4> QED BY <4>1
    <3>4. /\ fate' = [fate EXCEPT ![m] = "sent"]
          /\ entry' = [entry EXCEPT ![m] = [Blank EXCEPT !.home = r.home, !.rpc = k.rpc, !.ttl = k.ttl,
                                                         !.replyTo = r.replyTo]]
      BY <3>1, <3>2, <3>3 DEF Publish, Becomes
    <3> QED BY <3>4
  <2>2. PICK e : e = [Blank EXCEPT !.home = r.home, !.rpc = rpc, !.ttl = ttl, !.replyTo = r.replyTo]
    OBVIOUS
  <2>3. e.owner = None
    BY <2>2 DEF Blank
  <2> QED BY <1>1, <2>1, <2>2, <2>3
<1>3. CASE \E t \in Callers, n \in Names, m, x \in Messages : Requeue(t, n, m, x)
  <2>1. PICK n, x, rpc : /\ fate' = [fate EXCEPT ![x] = "sent"]
                         /\ entry' = [entry EXCEPT ![x] = [Blank EXCEPT !.home = n, !.rpc = rpc]]
    <3>1. PICK t \in Callers, n \in Names, m, x \in Messages : Requeue(t, n, m, x)
      BY <1>3
    <3>2. PICK rpc : rpc = Letter(dead[n], m).rpc
      OBVIOUS
    <3>3. /\ fate' = [fate EXCEPT ![x] = "sent"]
          /\ entry' = [entry EXCEPT ![x] = [Blank EXCEPT !.home = n, !.rpc = rpc]]
      BY <3>1, <3>2 DEF Requeue, Becomes
    <3> QED BY <3>3
  <2>2. PICK e : e = [Blank EXCEPT !.home = n, !.rpc = rpc]
    OBVIOUS
  <2>3. e.owner = None
    BY <2>2 DEF Blank
  <2> QED BY <1>1, <2>1, <2>2, <2>3
<1>4. CASE /\ ~ \E t \in Consumers \union Callers, n \in Names, m \in Messages, k \in Kinds : Publish(t, n, m, k)
           /\ ~ \E t \in Callers, n \in Names, m, x \in Messages : Requeue(t, n, m, x)
  <2>1. UNCHANGED << entry, fate >>
    BY <1>4 DEF Start, Bind, Unbind, Confirm, Respond, Settle, Await, Disconnect, Take, RespondLate, Collect,
         Configure, SetPaused, Purge, DiscardDeadLetters, DiscardDeadLetter, Discard, StartSweep, bodyVars, messageVars
  <2> QED BY <2>1 DEF HandsNothing
<1> QED BY <1>2, <1>3, <1>4

\* A message that is handed over is at the head of the line of a queue whose lock a call has.
LEMMA HandedByActing ==
  ASSUME MessageInv, [Next]_vars, NEW i \in Instances, HandsOver(i)
  PROVE  \E t \in Threads : Acting(t, i)
<1>0. /\ TypeInv /\ entry \in [Messages -> Entries] /\ fate \in [Messages -> Fates] /\ op \in [Threads -> Ops]
      /\ pending \in [Instances -> Seq(Messages)]
  BY MessageTypes DEF TypeInv, TypeOK
<1>1. PICK m : m = Head(pending[i])
  OBVIOUS
<1>2. m \in ToSet(pending[i]) /\ m \in Content(i)
  BY <1>0, <1>1, TailElements DEF HandsOver, Content
<1>3. m \in Messages /\ fate[m] = "live" /\ entry[m].owner = None
  BY <1>2, OfLine
<1>4. entry'[m].owner # None \/ fate'[m] = "taken"
  BY <1>1 DEF HandsOver
<1>5. ~HandsNothing
  BY <1>3, <1>4 DEF HandsNothing
<1>6. PICK t \in Threads : ScanAcquires(t) \/ TakeReturns(t)
  <2>1. CASE Tick \/ UNCHANGED vars
    <3>1. UNCHANGED << entry, fate >>
      BY <2>1 DEF Tick, vars, messageVars
    <3> QED BY <1>5, <3>1 DEF HandsNothing
  <2> QED BY <1>0, <1>5, <2>1, StepHands, StartHands DEF Next
<1>7. PICK j, x : j = op[t].inst /\ x = Head(pending[op[t].inst])
  OBVIOUS
<1>8. op[t].pc \in {"scan", "taking"} /\ j \in Instances
  BY <1>0, <1>6, <1>7 DEF ScanAcquires, TakeReturns, TypeInv, CallsFit, Fits, InQueue
<1>9. m = x /\ pending[j] # <<>>
  <2>1. CASE ScanAcquires(t)
    <3>1. PICK c : entry' = [entry EXCEPT ![x].owner = c] /\ fate' = fate /\ pending[j] # <<>>
      BY <1>7, <2>1 DEF ScanAcquires, Assign
    <3> QED BY <1>0, <1>3, <1>4, <3>1
  <2>2. CASE TakeReturns(t)
    <3>1. ~OnlyTracks(j)
      BY <1>3, <1>4 DEF OnlyTracks, messageVars
    <3>2. TakeHead(j)
      BY <1>7, <2>2, <3>1 DEF TakeReturns
    <3>3. /\ pending[j] # <<>>
          /\ entry' = entry \/ entry' = [entry EXCEPT ![x] = Blank]
          /\ fate' = fate \/ fate' = [fate EXCEPT ![x] = "taken"]
      BY <1>7, <3>2 DEF TakeHead, HeadIsDeliverable, Forget, Becomes
    <3>4. m # x => entry'[m] = entry[m] /\ fate'[m] = fate[m]
      BY <1>0, <1>3, <3>3
    <3>5. m # x => entry'[m].owner = None /\ fate'[m] = "live"
      BY <1>3, <3>4
    <3> QED BY <1>4, <3>3, <3>5
  <2> QED BY <1>6, <2>1, <2>2
<1>10. m \in Content(j)
  BY <1>0, <1>7, <1>8, <1>9, TailElements DEF Content
<1>11. i = j
  BY <1>0, <1>2, <1>8, <1>10 DEF TypeInv, Places, OnePlaceEach
<1> QED BY <1>7, <1>8, <1>11 DEF Acting

CallInv == HeldInv /\ LockInv /\ PauseInv

\* The invariants of this module hold before anybody called.
LEMMA CallInit == Init => CallInv
<1> SUFFICES ASSUME Init
             PROVE  LockInv /\ PauseInv
  BY HeldInit DEF CallInv
<1>1. /\ \A t \in Threads : op[t].pc = "idle"
      /\ \A i \in Instances : gate[i] = None
      /\ None \notin Threads
  BY ThreadsAssumption DEF Init, Idle
<1> QED BY <1>1 DEF LockInv, Inside, InsideLock, PauseInv, Acting

\* Every step keeps them.
LEMMA CallStep == CallInv /\ [Next]_vars => CallInv'
<1> SUFFICES ASSUME CallInv, [Next]_vars
             PROVE  CallInv'
  OBVIOUS
<1>1. TypeInv /\ \A t \in Threads : Course(t)
  BY MessageTypes DEF CallInv, HeldInv, FoundInv
<1> QED BY <1>1, HeldStep, LockStep, PauseStep DEF CallInv

\* Broker.cs, ConfigureQueue, and MessageQueue.cs, Settings, Dispatch and Take: a paused queue
\* hands over a message only while some call that changed its settings still waits.
THEOREM PausingIsABarrier == Spec => PauseIsBarrier
<1>1. CallInv /\ [Next]_vars
        => \A i \in Instances :
             settings[i].paused /\ HandsOver(i) => \E t \in Callers : op[t].kind = "configure" /\ op[t].inst = i
  <2> SUFFICES ASSUME CallInv, [Next]_vars, NEW i \in Instances, settings[i].paused, HandsOver(i)
               PROVE  \E t \in Callers : op[t].kind = "configure" /\ op[t].inst = i
    OBVIOUS
  <2>1. \E t \in Threads : Acting(t, i)
    BY HandedByActing DEF CallInv, HeldInv, FoundInv
  <2>2. Changing(i)
    BY <2>1 DEF CallInv, PauseInv
  <2> QED BY <2>2 DEF Changing, At
<1>2. CallInv /\ [Next]_vars
        => [\A i \in Instances :
              settings[i].paused /\ HandsOver(i) => \E t \in Callers : op[t].kind = "configure" /\ op[t].inst = i]_vars
  BY <1>1
<1> QED BY CallInit, CallStep, <1>2, PTL DEF Spec, PauseIsBarrier

-----------------------------------------------------------------------------
(* Who is bound, and who knows of it *)

\* A name among these leads to the instance.
Reaches(r, names, i) == \E n \in ToSet(names) : r[n] = i

\* A consumer that is bound has the name of the queue among its own, or is unbinding from it.
Explained(c, i) ==
  \/ Reaches(registry, queues[c], i)
  \/ op[c].kind = "disconnect" /\ Reaches(registry, op[c].todo, i)
  \/ At(c, "gate", {"unbind", "disconnect"}) /\ op[c].inst = i

\* A connection that binds has the name among its own already.
Binding(c) ==
  op[c].kind = "bind" /\ op[c].pc \in {"lookup", "resolve", "add", "gate", "unregister"}
    => op[c].name \in ToSet(queues[c])

BoundInv ==
  /\ \A i \in Instances : IsInjective(bound[i]) /\ \A c \in ToSet(bound[i]) : Explained(c, i)
  /\ \A c \in Consumers : Binding(c)

\* Who is bound was so before and does not unbind now, or binds now.
BindsTo(c, i) == BindLocked(c) /\ op[c].inst = i /\ ~removed[i]

\* No step binds a consumer twice, nor keeps bound the one that unbinds.
LEMMA BoundGoes ==
  ASSUME MessageInv, [Next]_vars, NEW i \in Instances, IsInjective(bound[i])
  PROVE  /\ IsInjective(bound'[i])
         /\ \A c \in ToSet(bound'[i]) : /\ c \in Consumers
                                        /\ \/ c \in ToSet(bound[i]) /\ ~(UnbindLocked(c) /\ op[c].inst = i)
                                           \/ BindsTo(c, i)
<1>0. TypeInv /\ bound \in [Instances -> Seq(Consumers)] /\ bound[i] \in Seq(Consumers) /\ CallsFit
  BY MessageTypes DEF TypeInv, TypeOK
<1>1. \A c \in ToSet(bound[i]) : c \in Consumers
  BY <1>0 DEF ToSet
<1>2. ASSUME NEW t \in Threads, UnbindLocked(t)
      PROVE  /\ IsInjective(bound'[i])
             /\ \A c \in ToSet(bound'[i]) : c \in ToSet(bound[i]) /\ ~(UnbindLocked(c) /\ op[c].inst = i)
  <2>1. PICK j : j = op[t].inst
    OBVIOUS
  <2>2. bound' = [bound EXCEPT ![j] = RemoveFirst(@, t)] /\ op[t].pc = "gate" /\ op'[t] # op[t]
    BY <1>2, <2>1, <1>0, CallType DEF UnbindLocked, RemoveConsumer, At, Idle, Ops
  <2>3. \A c \in Threads : UnbindLocked(c) => c = t
    <3>1. SUFFICES ASSUME NEW c \in Threads, UnbindLocked(c), c # t
                   PROVE  FALSE
      OBVIOUS
    <3>2. op'[c] # op[c]
      BY <1>0, <3>1, CallType DEF UnbindLocked, At, Idle, Ops
    <3>3. Step(t)
      BY <1>2 DEF Step
    <3> QED BY <3>1, <3>2, <3>3, <1>0, StepOfOne DEF OthersWait
  <2>4. CASE i = j
    <3>1. bound'[i] = RemoveFirst(bound[i], t)
      BY <1>0, <2>2, <2>4
    <3>2. IsInjective(bound'[i]) /\ ToSet(bound'[i]) = ToSet(bound[i]) \ {t}
      BY <1>0, <3>1, RemoveFirstElements
    <3> QED BY <1>1, <2>3, <3>2 DEF Threads
  <2>5. CASE i # j
    <3>1. bound'[i] = bound[i]
      BY <1>0, <2>2, <2>5
    <3> QED BY <1>1, <2>1, <2>3, <2>5, <3>1 DEF Threads
  <2> QED BY <2>4, <2>5
<1>3. ASSUME NEW t \in Threads, BindLocked(t)
      PROVE  /\ IsInjective(bound'[i])
             /\ \A c \in ToSet(bound'[i]) : c \in ToSet(bound[i]) \/ BindsTo(c, i)
  <2>1. PICK j : j = op[t].inst
    OBVIOUS
  <2>2. t \in Consumers
    BY <1>0, <1>3 DEF BindLocked, At, CallsFit, Fits, ByConsumers
  <2>3. CASE UNCHANGED bound
    BY <2>3
  <2>4. CASE ~removed[j] /\ AddConsumer(j, t)
    <3>1. i # j \/ Contains(bound[i], t) => bound'[i] = bound[i]
      BY <1>0, <2>4 DEF AddConsumer
    <3>2. CASE i = j /\ ~Contains(bound[i], t)
      <4>1. bound'[i] = Append(bound[i], t) /\ t \notin ToSet(bound[i])
        BY <1>0, <2>4, <3>2 DEF AddConsumer, Contains, ToSet
      <4>2. PICK s \in Seq(Consumers) : s = bound[i]
        BY <1>0
      <4>3. IsInjective(s) /\ t \notin ToSet(s) /\ bound'[i] = Append(s, t)
        BY <4>1, <4>2
      <4>4. PICK c \in Consumers : c = t /\ c \notin ToSet(s) /\ bound'[i] = Append(s, c)
        BY <2>2, <4>3
      <4>5. ToSet(Append(s, c)) = ToSet(s) \union {c}
        BY AppendElements
      <4>6. IsInjective(Append(s, c))
        BY <4>3, <4>4, LineElements DEF ToSet
      <4>7. IsInjective(bound'[i]) /\ ToSet(bound'[i]) = ToSet(bound[i]) \union {t}
        BY <4>2, <4>3, <4>4, <4>5, <4>6
      <4> QED BY <1>3, <2>1, <2>4, <3>2, <4>7 DEF BindsTo
    <3> QED BY <3>1, <3>2
  <2> QED BY <1>3, <2>1, <2>3, <2>4 DEF BindLocked, bodyVars
<1>4. ASSUME NEW t \in Threads, BindLocked(t), NEW c \in Threads, UnbindLocked(c)
      PROVE  FALSE
  <2>1. c # t /\ Step(c)
    BY <1>4 DEF BindLocked, UnbindLocked, At, Step
  <2>2. op'[t] # op[t]
    BY <1>4, <1>0, CallType DEF BindLocked, At, Goto, Ops
  <2> QED BY <1>4, <2>1, <2>2, <1>0, StepOfOne DEF OthersWait
<1>5. ASSUME NEW t \in Threads, AddQueue(t)
      PROVE  bound'[i] = bound[i] \/ bound'[i] = <<>>
  BY <1>0, <1>5 DEF AddQueue
<1>6. ASSUME NEW t \in Threads, AddQueue(t), NEW c \in Threads, UnbindLocked(c)
      PROVE  FALSE
  <2>1. c # t /\ Step(c) /\ op[t].pc = "add"
    BY <1>6 DEF AddQueue, UnbindLocked, At, Step
  <2>2. op'[t].pc = "gate"
    <3>1. PICK k : op' = [op EXCEPT ![t].inst = k, ![t].pc = "gate"]
      BY <1>6 DEF AddQueue
    <3> QED BY <1>0, <3>1, CallType DEF Ops
  <2> QED BY <1>6, <2>1, <2>2, <1>0, StepOfOne DEF OthersWait
<1>7. IsInjective(<<>>) /\ ToSet(<<>>) = {}
  BY DEF IsInjective, ToSet
<1>8. CASE \E t \in Threads : UnbindLocked(t)
  BY <1>1, <1>2, <1>8
<1>9. CASE \E t \in Threads : BindLocked(t)
  <2>1. /\ IsInjective(bound'[i])
        /\ \A c \in ToSet(bound'[i]) : c \in ToSet(bound[i]) \/ BindsTo(c, i)
    BY <1>3, <1>9
  <2>2. \A c \in Threads : ~UnbindLocked(c)
    BY <1>4, <1>9
  <2>3. \A c \in ToSet(bound'[i]) : c \in Consumers
    <3>1. bound'[i] \in Seq(Consumers)
      BY <1>0, MessageTypes, TypeStep DEF TypeInv, TypeOK
    <3> QED BY <3>1 DEF ToSet
  <2> QED BY <2>1, <2>2, <2>3 DEF Threads
<1>10. CASE \E t \in Threads : AddQueue(t)
  BY <1>1, <1>5, <1>6, <1>7, <1>10 DEF Threads
<1>11. CASE ~ \E t \in Threads : AddQueue(t) \/ UnbindLocked(t) \/ BindLocked(t)
  <2>1. UNCHANGED bound
    BY <1>11, BoundStays
  <2> QED BY <1>1, <1>11, <2>1 DEF Threads
<1> QED BY <1>8, <1>9, <1>10, <1>11

\* Only Bind, Unbind and Disconnect change the names a connection is bound to.
LEMMA NamesOfConsumers ==
  ASSUME [Next]_vars
  PROVE  \/ UNCHANGED queues
         \/ \E c \in Consumers : Disconnect(c) \/ \E n \in Names : Bind(c, n) \/ Unbind(c, n)
<1>1. CASE Start
  BY <1>1 DEF Start, Publish, Confirm, Respond, Settle, Await, Take, RespondLate, Collect,
         Configure, SetPaused, Purge, Requeue, DiscardDeadLetters, DiscardDeadLetter, Discard, StartSweep,
         stableVars, consumerVars
<1>2. CASE Tick \/ UNCHANGED vars
  BY <1>2 DEF Tick, vars, consumerVars
<1>3. ASSUME NEW t \in Threads, Step(t)
      PROVE  UNCHANGED queues
  BY <1>3 DEF Step, Lookup, ReadSettings, AddQueue, Unregister, TryPublish, BindLocked, UnbindLocked,
       DispatchLocked, DispatchEnds, DispatchBuries, DispatchFinds, ScanBusy, ScanAcquires, ScanEnds, HandOver, HandDone,
       TakeEnters, TakeBuries, TakeReturns, RespondLateLocked, CollectLocked, ConfirmLocked, RespondLocked, AwaitLocked,
       Release, Rotate, FreeNext, FreeEnds, LeaveNext, LeaveLast, AbandonLocked, Complete, Reread, AssignSettings,
       PauseWrites, PurgeLocked, SweepNext, SweepEnters, SweepBuries, SweepSkips, SweepLeaves, Retire, SweepEnds,
       stableVars, consumerVars
<1> QED BY <1>1, <1>2, <1>3 DEF Next

\* What Bind, Unbind and Disconnect do to the names and the call of the connection.
LEMMA NamesChange ==
  ASSUME TypeInv, NEW u \in Consumers, NEW n,
         Bind(u, n) \/ Unbind(u, n) \/ Disconnect(u)
  PROVE  /\ op[u].pc = "idle" /\ UNCHANGED << registry, bound >>
         /\ \A c \in Consumers \ {u} : op'[c] = op[c] /\ queues'[c] = queues[c]
         /\ \/ /\ op'[u].kind = "bind" /\ op'[u].name = n /\ ToSet(queues[u]) \subseteq ToSet(queues'[u])
               /\ n \in Names => n \in ToSet(queues'[u])
            \/ /\ queues'[u] = RemoveFirst(queues[u], n)
               /\ op'[u].kind # "bind"
               /\ registry[n] # None => At(u, "gate", {"unbind"})' /\ op'[u].inst = registry[n]
            \/ op'[u].kind = "disconnect" /\ op'[u].todo = queues[u]
<1>0. /\ op \in [Threads -> Ops] /\ queues \in [Consumers -> Seq(Names)] /\ u \in Threads
      /\ \A c \in Consumers : c \in Threads /\ queues[c] \in Seq(Names)
  BY DEF TypeInv, TypeOK, Threads
<1>1. CASE Bind(u, n)
  <2>1. PICK o : o = GetOrAdd("bind", n, None)
    OBVIOUS
  <2>2. op' = [op EXCEPT ![u] = o] /\ o.name = n /\ o.kind = "bind"
    BY <1>1, <2>1, LookedUp DEF Bind, GoesTo
  <2>3. queues' = [queues EXCEPT ![u] = IF Contains(@, n) THEN @ ELSE Append(@, n)]
    BY <1>1 DEF Bind
  <2>4. ToSet(queues[u]) \subseteq ToSet(queues'[u]) /\ (n \in Names => n \in ToSet(queues'[u]))
    <3>1. CASE Contains(queues[u], n)
      BY <1>0, <2>3, <3>1 DEF Contains, ToSet
    <3>2. CASE ~Contains(queues[u], n)
      <4>1. queues'[u] = Append(queues[u], n)
        BY <1>0, <2>3, <3>2
      <4>2. PICK s \in Seq(Names) : s = queues[u]
        BY <1>0
      <4>3. /\ Len(s) \in Nat /\ DOMAIN s = 1 .. Len(s) /\ DOMAIN Append(s, n) = 1 .. Len(s) + 1
            /\ \A j \in 1 .. Len(s) : Append(s, n)[j] = s[j]
            /\ Append(s, n)[Len(s) + 1] = n
        BY <4>2, AppendProperties
      <4> QED BY <4>1, <4>2, <4>3 DEF ToSet
    <3> QED BY <3>1, <3>2
  <2>5. op[u].pc = "idle" /\ UNCHANGED << registry, bound >>
    BY <1>1 DEF Bind, Asks, Ready, bodyVars
  <2> QED BY <1>0, <2>2, <2>3, <2>4, <2>5
<1>2. CASE Unbind(u, n)
  <2>1. PICK o : o = TryGet("unbind", n, None)
    OBVIOUS
  <2>2. /\ op' = [op EXCEPT ![u] = o]
        /\ o = Idle \/ (GoesTo(o, {"unbind"}) /\ o.name = n)
        /\ registry[n] # None => o # Idle
    <3>1. registry[n] # None => o.pc = "gate"
      BY <2>1 DEF TryGet, Idle
    <3>2. registry[n] # None => o # Idle
      BY <3>1 DEF Idle
    <3>3. o = Idle \/ (GoesTo(o, {"unbind"}) /\ o.name = n)
      BY <2>1, LookedUp
    <3> QED BY <1>2, <2>1, <3>2, <3>3 DEF Unbind
  <2>3. queues' = [queues EXCEPT ![u] = RemoveFirst(@, n)]
    BY <1>2 DEF Unbind
  <2>4. op[u].pc = "idle" /\ UNCHANGED << registry, bound >>
    BY <1>2 DEF Unbind, Asks, Ready, bodyVars
  <2>5. o.kind # "bind" /\ (registry[n] # None => o.pc = "gate" /\ o.kind = "unbind" /\ o.inst = registry[n])
    BY <2>2 DEF GoesTo, Idle
  <2>6. At(u, "gate", {"unbind"})' <=> op'[u].pc = "gate" /\ op'[u].kind = "unbind"
    BY DEF At
  <2> QED BY <1>0, <2>2, <2>3, <2>4, <2>5, <2>6
<1>3. CASE Disconnect(u)
  <2>1. PICK s : s = queues[u]
    OBVIOUS
  <2>2. /\ op' = [op EXCEPT ![u] = [Idle EXCEPT !.pc = "leaving", !.kind = "disconnect", !.todo = s]]
        /\ queues' = [queues EXCEPT ![u] = <<>>]
    BY <1>3, <2>1 DEF Disconnect
  <2>3. op[u].pc = "idle" /\ UNCHANGED << registry, bound >>
    BY <1>3 DEF Disconnect, Asks, Ready, queueVars
  <2>4. op'[u].kind = "disconnect" /\ op'[u].todo = s
    BY <1>0, <2>2 DEF Idle
  <2> QED BY <1>0, <2>1, <2>2, <2>3, <2>4
<1> QED BY <1>1, <1>2, <1>3

\* What the place of a call says of its kind, and the kind of the place.
LEMMA PlaceTells ==
  ASSUME TypeInv, NEW t \in Threads, Course(t)
  PROVE  /\ op[t].pc = "idle" => op[t].kind = "none"
         /\ op[t].kind = "none" => op[t].pc \in {"idle", "complete"}
         /\ op[t].kind = "disconnect" => op[t].pc \in {"leaving", "gate"}
         /\ op[t].kind = "unbind" => op[t].pc = "gate"
         /\ op[t].kind = "abandon" => op[t].pc \in {"gate"} \union Dispatching
         /\ op[t].kind = "free" => op[t].pc \in {"freeing", "gate"} \union Dispatching
         /\ op[t].kind = "bind" => op[t].pc \in {"lookup", "resolve", "add", "gate", "unregister"} \union Dispatching
<1>1. op[t].kind \in Calls
  BY CallType
<1>2. PICK k, p : k \in Calls /\ k = op[t].kind /\ p = op[t].pc /\ p \in Way(k)
  BY <1>1 DEF Course
<1>3. CASE k \in {"none", "publish", "bind", "take", "unbind", "collect", "purge", "respondLate", "await"}
  BY <1>2, <1>3 DEF Way, Dispatching
<1>4. CASE k \in {"confirm", "respond", "free", "disconnect", "abandon", "configure", "pause", "sweep"}
  BY <1>2, <1>4 DEF Way, Dispatching
<1> QED BY <1>2, <1>3, <1>4 DEF Calls

\* A consumer that is bound, and does not unbind now, goes on knowing of the queue.
LEMMA ExplainedStep ==
  ASSUME MessageInv, RetirementInv, \A t \in Threads : FoundCall(t) /\ Course(t), [Next]_vars,
         NEW i \in Instances, NEW c \in Consumers, ~removed[i], Explained(c, i),
         ~(UnbindLocked(c) /\ op[c].inst = i)
  PROVE  Explained(c, i)'
<1>0. /\ TypeInv /\ op \in [Threads -> Ops] /\ queues \in [Consumers -> Seq(Names)] /\ c \in Threads
      /\ queues[c] \in Seq(Names) /\ op[c] \in Ops /\ op[c].todo \in Seq(Names)
      /\ None \notin Instances
  BY MessageTypes, CallType, ThreadsAssumption DEF TypeInv, TypeOK, Threads
<1>1. \A n \in Names : registry[n] = i => registry'[n] = i
  BY <1>0, NamesKeep
<1>2. ASSUME NEW s \in Seq(Names), Reaches(registry, s, i)
      PROVE  Reaches(registry', s, i)
  <2>1. \A n \in ToSet(s) : n \in Names
    BY DEF ToSet
  <2> QED BY <1>1, <1>2, <2>1 DEF Reaches
<1>3. CASE op'[c] = op[c] /\ queues'[c] = queues[c]
  BY <1>0, <1>2, <1>3 DEF Explained, At
<1>4. ASSUME NEW u \in Consumers, NEW n, Bind(u, n) \/ Unbind(u, n) \/ Disconnect(u), n \in Names \/ Disconnect(u)
      PROVE  Explained(c, i)'
  <2>1. CASE u # c
    BY <1>3, <1>4, <1>0, <2>1, NamesChange
  <2>2. CASE u = c
    <3>1. op[c].pc = "idle" /\ registry' = registry
      BY <1>0, <1>4, <2>2, NamesChange
    <3>2. op[c].kind = "none"
      BY <1>0, <3>1, PlaceTells
    <3>3. PICK x \in ToSet(queues[c]) : registry[x] = i
      BY <3>1, <3>2 DEF Explained, At, Reaches
    <3>4. CASE ToSet(queues[c]) \subseteq ToSet(queues'[c])
      BY <3>1, <3>3, <3>4 DEF Explained, Reaches
    <3>5. CASE /\ queues'[c] = RemoveFirst(queues[c], n)
               /\ registry[n] # None => At(c, "gate", {"unbind"})' /\ op'[c].inst = registry[n]
      <4>1. CASE x # n
        <5>1. x \in ToSet(queues'[c])
          BY <1>0, <3>3, <3>5, <4>1, OthersKept
        <5> QED BY <3>1, <3>3, <5>1 DEF Explained, Reaches
      <4>2. CASE x = n
        <5>1. At(c, "gate", {"unbind"})' /\ op'[c].inst = i
          BY <1>0, <3>3, <3>5, <4>2
        <5> QED BY <5>1 DEF Explained, At
      <4> QED BY <4>1, <4>2
    <3>6. CASE op'[c].kind = "disconnect" /\ op'[c].todo = queues[c]
      BY <3>1, <3>3, <3>6 DEF Explained, Reaches
    <3> QED BY <1>0, <1>4, <2>2, <3>4, <3>5, <3>6, NamesChange
  <2> QED BY <2>1, <2>2
<1>5. CASE UNCHANGED queues /\ Start
  <2>1. CASE op'[c] = op[c]
    BY <1>3, <1>5, <2>1
  <2>2. CASE op[c].pc = "idle"
    <3>1. op[c].kind = "none"
      BY <1>0, <2>2, PlaceTells
    <3>2. Reaches(registry, queues[c], i)
      BY <2>2, <3>1 DEF Explained, At
    <3> QED BY <1>0, <1>2, <1>5, <3>2 DEF Explained
  <2> QED BY <1>0, <1>5, <2>1, <2>2, StartOfOne DEF Starts, Ready, OthersWait
<1>6. CASE UNCHANGED queues /\ Step(c) /\ Reaches(registry, queues[c], i)
  BY <1>0, <1>2, <1>6 DEF Explained
<1>7. CASE UNCHANGED queues /\ Step(c) /\ ~Reaches(registry, queues[c], i)
  <2>1. op[c].kind \in {"disconnect", "unbind"} /\ op[c].pc \in {"leaving", "gate"}
    BY <1>0, <1>7, PlaceTells DEF Explained, At
  <2>2. CASE op[c].pc = "gate"
    <3>1. UnbindLocked(c)
      BY <1>0, <1>7, <2>1, <2>2, StepByPlace
    <3>2. op[c].kind = "disconnect" /\ Reaches(registry, op[c].todo, i)
      BY <1>7, <3>1 DEF Explained, At
    <3>3. op'[c].kind = "disconnect" /\ op'[c].todo = op[c].todo
      BY <1>0, <3>1, <3>2 DEF UnbindLocked, Ops
    <3> QED BY <1>0, <1>2, <3>2, <3>3 DEF Explained
  <2>3. CASE op[c].pc = "leaving"
    <3>1. op[c].kind = "disconnect" /\ Reaches(registry, op[c].todo, i)
      BY <1>7, <2>3 DEF Explained, At
    <3>2. PICK x \in ToSet(op[c].todo) : registry[x] = i
      BY <3>1 DEF Reaches
    <3>3. op[c].todo # <<>> /\ (x = Head(op[c].todo) \/ x \in ToSet(Tail(op[c].todo))) /\ Tail(op[c].todo) \in Seq(Names)
      BY <1>0, <3>2, HeadOrTail
    <3>4. LeaveNext(c)
      BY <1>0, <1>7, <2>3, <3>3, StepByPlace DEF LeaveLast
    <3>5. PICK h, s : h = Head(op[c].todo) /\ s = Tail(op[c].todo)
      OBVIOUS
    <3>6. op' = [op EXCEPT ![c].todo = s, ![c].inst = registry[h],
                           ![c].pc = IF registry[h] = None THEN "leaving" ELSE "gate"]
      BY <3>4, <3>5 DEF LeaveNext
    <3>7. /\ op'[c].kind = "disconnect" /\ op'[c].todo = s /\ op'[c].inst = registry[h]
          /\ registry[h] # None => op'[c].pc = "gate"
      BY <1>0, <3>1, <3>6 DEF Ops
    <3>8. CASE x = h
      <4>1. op'[c].pc = "gate" /\ op'[c].inst = i
        BY <1>0, <3>2, <3>7, <3>8
      <4> QED BY <3>7, <4>1 DEF Explained, At
    <3>9. CASE x \in ToSet(s)
      <4>1. Reaches(registry, s, i) /\ s \in Seq(Names)
        BY <3>2, <3>3, <3>5, <3>9 DEF Reaches
      <4> QED BY <1>2, <3>7, <4>1 DEF Explained
    <3> QED BY <3>3, <3>5, <3>8, <3>9
  <2> QED BY <2>1, <2>2, <2>3
<1>8. CASE Tick \/ UNCHANGED vars
  BY <1>3, <1>8 DEF Tick, vars, consumerVars
<1>9. ASSUME NEW t \in Threads, Step(t), UNCHANGED queues
      PROVE  Explained(c, i)'
  BY <1>0, <1>3, <1>6, <1>7, <1>9, StepOfOne DEF OthersWait
<1> QED BY <1>4, <1>5, <1>8, <1>9, NamesOfConsumers DEF Next

\* A call that binds, disconnects, abandons or completes was not begun by anything else.
LEMMA StartKinds ==
  ASSUME TypeInv, Start, NEW c \in Threads
  PROVE  \/ op'[c] = op[c]
         \/ \E n \in Names : Bind(c, n)
         \/ Disconnect(c)
         \/ op'[c].kind \notin {"bind", "disconnect", "abandon"} /\ op'[c].pc # "complete"
<1>0. op \in [Threads -> Ops]
  BY DEF TypeInv, TypeOK
<1> DEFINE Other(o) == o.kind \notin {"bind", "disconnect", "abandon"} /\ o.pc # "complete"
<1>1. ASSUME NEW u, NEW o, op' = [op EXCEPT ![u] = o], Other(o)
      PROVE  op'[c] = op[c] \/ Other(op'[c])
  BY <1>0, <1>1
<1>2. ASSUME NEW k \in Asked \ {"bind"}, NEW n, NEW m
      PROVE  Other(TryGet(k, n, m)) /\ Other(GetOrAdd(k, n, m))
  BY <1>2, LookedUp DEF GoesTo, Idle, Asked
<1>3. Other(Idle)
  BY DEF Idle
<1> SUFFICES \/ op'[c] = op[c] \/ Other(op'[c])
             \/ (\E n \in Names : Bind(c, n)) \/ Disconnect(c)
  OBVIOUS
<1> HIDE DEF Other
<1>a. CASE \E t \in Consumers \union Callers, n \in Names, m \in Messages, k \in Kinds : Publish(t, n, m, k)
  BY <1>1, <1>2, <1>a DEF Asked, Publish
<1>b. CASE \E x \in Consumers, n \in Names : Unbind(x, n)
  BY <1>1, <1>2, <1>b DEF Asked, Unbind
<1>c. CASE \E x \in Consumers, m \in Messages : Confirm(x, m) \/ Respond(x, m) \/ Await(x, m)
  BY <1>1, <1>2, <1>c DEF Asked, Confirm, Respond, Settle, Await
<1>d. CASE \E t \in Callers, n \in Names, keep \in BOOLEAN : Take(t, n, keep)
  BY <1>1, <1>2, <1>d DEF Asked, Take
<1>e. CASE \/ \E t \in Callers, m \in Messages : RespondLate(t, m) \/ Collect(t, m)
           \/ \E t \in Callers, n \in Names : Purge(t, n)
  BY <1>1, <1>2, <1>e DEF Asked, RespondLate, Collect, Purge
<1>5. CASE \E t \in Callers, n \in Names, o \in Options \union {None} : Configure(t, n, o)
  <2>1. PICK u, n : op' = [op EXCEPT ![u] = IF registry[n] = None THEN Idle
                                            ELSE [TryGet("configure", n, None) EXCEPT !.pc = "reread"]]
    BY <1>5 DEF Configure, Written
  <2>2. Other(IF registry[n] = None THEN Idle ELSE [TryGet("configure", n, None) EXCEPT !.pc = "reread"])
    BY DEF TryGet, Idle, Other
  <2> QED BY <1>1, <2>1, <2>2
<1>6. CASE \E t \in Callers, n \in Names, paused \in BOOLEAN : SetPaused(t, n, paused)
  <2>1. PICK u, n, a : op' = [op EXCEPT ![u] = [Idle EXCEPT !.pc = "pausing", !.kind = "pause", !.name = n, !.arg = a]]
    BY <1>6 DEF SetPaused
  <2>2. Other([Idle EXCEPT !.pc = "pausing", !.kind = "pause", !.name = n, !.arg = a])
    BY DEF Idle, Other
  <2> QED BY <1>1, <2>1, <2>2
<1>7. CASE \E t \in Callers, n \in Names, m, x \in Messages : Requeue(t, n, m, x)
  <2>1. PICK u \in Callers, n \in Names, m \in Messages, x \in Messages : Requeue(u, n, m, x)
    BY <1>7
  <2>3. op' = [op EXCEPT ![u] = [Idle EXCEPT !.pc = "lookup", !.kind = "publish", !.name = n, !.msg = x]]
    BY <2>1 DEF Requeue
  <2>2. Other([Idle EXCEPT !.pc = "lookup", !.kind = "publish", !.name = n, !.msg = x])
    BY DEF Idle, Other
  <2> QED BY <1>1, <2>2, <2>3
<1>8. CASE StartSweep(Sweeper)
  <2>1. PICK order : op' = [op EXCEPT ![Sweeper] = [Idle EXCEPT !.pc = "sweep", !.kind = "sweep", !.todo = order]]
    BY <1>8 DEF StartSweep
  <2>2. Other([Idle EXCEPT !.pc = "sweep", !.kind = "sweep", !.todo = order])
    BY DEF Idle, Other
  <2> QED BY <1>1, <2>1, <2>2
<1>9. CASE \/ \E t \in Callers, n \in Names : DiscardDeadLetters(t, n)
           \/ \E t \in Callers, n \in Names, m \in Messages : DiscardDeadLetter(t, n, m)
  BY <1>9 DEF DiscardDeadLetters, DiscardDeadLetter, Discard
<1>10. CASE \E u \in Consumers : Disconnect(u)
  <2>1. PICK u \in Consumers : Disconnect(u)
    BY <1>10
  <2>2. PICK o : op' = [op EXCEPT ![u] = o]
    BY <2>1 DEF Disconnect
  <2> QED BY <1>0, <2>1, <2>2
<1>11. CASE \E u \in Consumers, n \in Names : Bind(u, n)
  BY <1>0, <1>11 DEF Bind
<1> QED BY <1>a, <1>b, <1>c, <1>d, <1>e, <1>5, <1>6, <1>7, <1>8, <1>9, <1>10, <1>11 DEF Start

\* A call that binds keeps the name it binds, and once it is bound does not bind again.
LEMMA BindGoesOn ==
  ASSUME TypeInv, NEW c \in Threads, Step(c), Course(c), op'[c].kind = "bind",
         op'[c].pc \in {"lookup", "resolve", "add", "gate", "unregister"}
  PROVE  /\ op[c].kind = "bind" /\ op'[c].name = op[c].name
         /\ op[c].pc \in {"lookup", "resolve", "add", "gate", "unregister"}
<1>0. op \in [Threads -> Ops] /\ op[c] \in Ops
  BY DEF TypeInv, TypeOK
<1>1. op[c].kind = "bind"
  BY KindKeeps
<1>2. op[c].pc \in {"lookup", "resolve", "add", "gate", "unregister"} \union Dispatching
  BY <1>1, PlaceTells
<1>3. CASE op[c].pc \in {"dispatch", "look", "scan"}
  <2>1. CASE DispatchEnds(c) \/ ScanEnds(c)
    BY <1>0, <1>1, <2>1 DEF DispatchEnds, ScanEnds, FinishDispatch, AfterDispatch, Ops
  <2>2. CASE DispatchBuries(c) \/ DispatchFinds(c)
    BY <1>0, <2>2 DEF DispatchBuries, DispatchFinds, Goto, Ops
  <2>3. CASE ScanBusy(c) \/ ScanAcquires(c)
    BY <1>0, <2>3 DEF ScanBusy, ScanAcquires, Ops
  <2> QED BY <1>3, <2>1, <2>2, <2>3, StepByPlace
<1>4. CASE op[c].pc = "hand"
  <2>1. CASE HandOver(c)
    BY <1>0, <1>4, <2>1 DEF HandOver, Ops
  <2>2. CASE HandDone(c)
    BY <1>0, <1>1, <2>2 DEF HandDone, Idle
  <2> QED BY <1>4, <2>1, <2>2, StepByPlace
<1>5. CASE op[c].pc = "lookup"
  <2>1. PICK k, n, m : k = op[c].kind /\ n = op[c].name /\ m = op[c].msg
    OBVIOUS
  <2>2. GetOrAdd(k, n, m).name = n
    BY DEF GetOrAdd, Idle
  <2>3. op'[c] = GetOrAdd(k, n, m)
    BY <1>0, <1>5, <2>1, StepByPlace DEF Lookup
  <2> QED BY <1>1, <1>5, <2>1, <2>2, <2>3
<1>6. CASE op[c].pc = "resolve"
  <2>1. PICK a : op' = [op EXCEPT ![c].arg = a, ![c].pc = "add"]
    BY <1>6, StepByPlace DEF ReadSettings
  <2> QED BY <1>0, <1>1, <1>6, <2>1 DEF Ops
<1>7. CASE op[c].pc = "add"
  <2>1. PICK i : op' = [op EXCEPT ![c].inst = i, ![c].pc = "gate"]
    BY <1>7, StepByPlace DEF AddQueue
  <2> QED BY <1>0, <1>1, <1>7, <2>1 DEF Ops
<1>8. CASE op[c].pc = "unregister"
  <2>1. op' = [op EXCEPT ![c].pc = "lookup", ![c].inst = None]
    BY <1>8, StepByPlace DEF Unregister
  <2> QED BY <1>0, <1>1, <1>8, <2>1 DEF Ops
<1>9. CASE op[c].pc = "gate"
  <2>1. BindLocked(c)
    BY <1>1, <1>9, StepByPlace
  <2> QED BY <1>0, <1>1, <1>9, <2>1 DEF BindLocked, Goto, Ops
<1> QED BY <1>2, <1>3, <1>4, <1>5, <1>6, <1>7, <1>8, <1>9 DEF Dispatching

\* A connection keeps the name it binds among its own until it is bound.
LEMMA BindingStep ==
  ASSUME TypeInv, \A t \in Threads : Course(t), [Next]_vars, NEW c \in Consumers, Binding(c)
  PROVE  Binding(c)'
<1>0. op \in [Threads -> Ops] /\ c \in Threads
  BY DEF TypeInv, TypeOK, Threads
<1>1. CASE op'[c] = op[c] /\ queues'[c] = queues[c]
  BY <1>1 DEF Binding
<1>2. ASSUME NEW n, Bind(c, n) \/ Unbind(c, n) \/ Disconnect(c), n \in Names \/ Disconnect(c)
      PROVE  Binding(c)'
  <2>1. CASE Disconnect(c)
    <3>1. PICK s : s = queues[c]
      OBVIOUS
    <3>2. op' = [op EXCEPT ![c] = [Idle EXCEPT !.pc = "leaving", !.kind = "disconnect", !.todo = s]]
      BY <2>1, <3>1 DEF Disconnect
    <3>3. op'[c].kind # "bind"
      BY <1>0, <3>2 DEF Idle
    <3> QED BY <3>3 DEF Binding
  <2>2. CASE n \in Names
    BY <1>2, <2>2, NamesChange DEF Binding
  <2> QED BY <1>2, <2>1, <2>2
<1>3. ASSUME NEW u \in Consumers, NEW n, Bind(u, n) \/ Unbind(u, n) \/ Disconnect(u), u # c
      PROVE  Binding(c)'
  BY <1>1, <1>3, NamesChange
<1>4. CASE UNCHANGED queues /\ Start
  <2>1. CASE Disconnect(c) \/ \E n \in Names : Bind(c, n)
    BY <1>2, <2>1
  <2>2. CASE op'[c].kind # "bind"
    BY <2>2 DEF Binding
  <2> QED BY <1>0, <1>1, <1>4, <2>1, <2>2, StartKinds
<1>5. CASE UNCHANGED queues /\ Step(c)
  BY <1>0, <1>5, BindGoesOn DEF Binding
<1>6. ASSUME NEW t \in Threads, Step(t), t # c, UNCHANGED queues
      PROVE  Binding(c)'
  BY <1>0, <1>1, <1>6, StepOfOne DEF OthersWait
<1>7. CASE Tick \/ UNCHANGED vars
  BY <1>1, <1>7 DEF Tick, vars, consumerVars
<1> QED BY <1>2, <1>3, <1>4, <1>5, <1>6, <1>7, NamesOfConsumers DEF Next

\* Whoever is bound goes on knowing of it.
LEMMA BoundStep ==
  ASSUME FoundInv, BoundInv, \A t \in Threads : Course(t), [Next]_vars
  PROVE  BoundInv'
<1>0. TypeInv /\ MessageInv /\ RetirementInv /\ \A t \in Threads : FoundCall(t) /\ Course(t)
  BY MessageTypes DEF FoundInv, RegistryInv
<1>1. \A c \in Consumers : Binding(c)'
  BY <1>0, BindingStep DEF BoundInv
<1> SUFFICES ASSUME NEW i \in Instances
             PROVE  IsInjective(bound'[i]) /\ \A c \in ToSet(bound'[i]) : Explained(c, i)'
  BY <1>1 DEF BoundInv
<1>2. /\ IsInjective(bound'[i])
      /\ \A c \in ToSet(bound'[i]) : /\ c \in Consumers
                                     /\ \/ c \in ToSet(bound[i]) /\ ~(UnbindLocked(c) /\ op[c].inst = i)
                                        \/ BindsTo(c, i)
  BY <1>0, BoundGoes DEF BoundInv
<1>3. ASSUME NEW c \in Consumers, c \in ToSet(bound[i]), ~(UnbindLocked(c) /\ op[c].inst = i)
      PROVE  Explained(c, i)'
  <2>1. bound[i] # <<>>
    BY <1>3 DEF ToSet
  <2>2. ~removed[i]
    BY <1>0, <2>1 DEF RetirementInv, RetiredQueueHoldsNothing
  <2> QED BY <1>0, <1>3, <2>2, ExplainedStep DEF BoundInv
<1>4. ASSUME NEW c \in Consumers, BindsTo(c, i)
      PROVE  Explained(c, i)'
  <2>1. c \in Threads /\ op[c].pc = "gate" /\ op[c].kind = "bind" /\ op[c].inst = i /\ ~removed[i]
    BY <1>4 DEF BindsTo, BindLocked, At, Threads
  <2>2. op[c].name \in ToSet(queues[c])
    BY <2>1 DEF BoundInv, Binding
  <2>3. registry[op[c].name] = i
    BY <1>0, <2>1 DEF FoundCall
  <2>4. UNCHANGED << registry, queues >>
    BY <1>4 DEF BindsTo, BindLocked, stableVars
  <2> QED BY <2>2, <2>3, <2>4 DEF Explained, Reaches
<1> QED BY <1>2, <1>3, <1>4

-----------------------------------------------------------------------------
(* Connections that are gone *)

\* What a closed connection still holds is what it is about to abandon.
LastHeld(c) == /\ At(c, "gate", {"abandon"}) /\ current[c].msg = op[c].msg
               /\ Flights(op[c].msg) = {op[c].inst}

\* A connection that is leaving is closed, and one that is closed is leaving, or has left.
Closing(c) ==
  /\ c \in gone => cstate[c] = "closed" /\ op[c].pc = "idle"
  /\ op[c].kind \in {"disconnect", "abandon"} \/ op[c].pc = "complete" => cstate[c] = "closed"
  /\ cstate[c] = "closed" => queues[c] = <<>> /\ op[c].kind \in {"disconnect", "abandon", "none"}
  /\ cstate[c] = "closed" /\ op[c].kind # "disconnect" /\ current[c] # None => LastHeld(c)

ClosingInv == \A c \in Consumers : Closing(c)

\* Only Disconnect closes a connection, and only Complete lets it be gone.
LEMMA ClosesBy ==
  ASSUME TypeInv, [Next]_vars, NEW c \in Consumers
  PROVE  /\ cstate'[c] = "closed" => cstate[c] = "closed" \/ Disconnect(c)
         /\ c \in gone' => c \in gone \/ Complete(c)
<1>0. cstate \in [Consumers -> {"free", "busy", "closed"}]
  BY DEF TypeInv, TypeOK
<1>1. CASE Start
  <2>1. gone' = gone
    BY <1>1 DEF Start, Publish, Bind, Unbind, Confirm, Respond, Settle, Await, Disconnect, Take, RespondLate,
         Collect, Configure, SetPaused, Purge, Requeue, DiscardDeadLetters, DiscardDeadLetter, Discard, StartSweep,
         stableVars
  <2>2. CASE \E u \in Consumers : Disconnect(u)
    <3>1. PICK u \in Consumers : Disconnect(u)
      BY <2>2
    <3>2. cstate' = [cstate EXCEPT ![u] = "closed"]
      BY <3>1 DEF Disconnect
    <3>3. u # c => cstate'[c] = cstate[c]
      BY <1>0, <3>2
    <3> QED BY <2>1, <3>1, <3>3
  <2>3. CASE ~ \E u \in Consumers : Disconnect(u)
    <3>1. cstate' = cstate
      BY <1>1, <2>3 DEF Start, Publish, Bind, Unbind, Confirm, Respond, Settle, Await, Take, RespondLate,
           Collect, Configure, SetPaused, Purge, Requeue, DiscardDeadLetters, DiscardDeadLetter, Discard, StartSweep,
           consumerVars, bodyVars
    <3> QED BY <2>1, <3>1
  <2> QED BY <2>2, <2>3
<1>2. CASE Tick \/ UNCHANGED vars
  BY <1>2 DEF Tick, vars, consumerVars
<1>3. ASSUME NEW t \in Threads, Step(t)
      PROVE  cstate'[c] = "closed" => cstate[c] = "closed"
  <2>1. CASE ScanAcquires(t)
    <3>1. PICK x : cstate' = [cstate EXCEPT ![x] = "busy"]
      BY <2>1 DEF ScanAcquires, Assign
    <3> QED BY <1>0, <3>1
  <2>2. CASE Release(t)
    BY <1>0, <2>2 DEF Release
  <2>3. CASE ~(ScanAcquires(t) \/ Release(t))
    <3>1. CASE \/ Lookup(t) \/ ReadSettings(t) \/ AddQueue(t) \/ Unregister(t) \/ DispatchLocked(t) \/ DispatchFinds(t)
               \/ ScanBusy(t) \/ HandOver(t) \/ HandDone(t) \/ Rotate(t) \/ FreeNext(t) \/ FreeEnds(t) \/ LeaveNext(t)
               \/ LeaveLast(t) \/ Complete(t) \/ Reread(t) \/ AssignSettings(t) \/ PauseWrites(t) \/ SweepNext(t)
               \/ SweepEnters(t) \/ SweepSkips(t) \/ SweepEnds(t) \/ Retire(t)
      BY <3>1 DEF Lookup, ReadSettings, AddQueue, Unregister, DispatchLocked, DispatchFinds, ScanBusy, HandOver, HandDone,
           Rotate, FreeNext, FreeEnds, LeaveNext, LeaveLast, Complete, Reread, AssignSettings, PauseWrites, SweepNext,
           SweepEnters, SweepSkips, SweepEnds, Retire, bodyVars, consumerVars
    <3>2. CASE \/ DispatchEnds(t) \/ DispatchBuries(t) \/ ScanEnds(t) \/ TakeEnters(t) \/ TakeBuries(t) \/ TakeReturns(t)
               \/ SweepBuries(t) \/ SweepLeaves(t) \/ PurgeLocked(t)
      BY <3>2 DEF DispatchEnds, DispatchBuries, BuryHead, ScanEnds, FinishDispatch, OnlyTracks, TakeEnters, TakeBuries,
           TakeReturns, TakeHead, SweepBuries, SweepPending, SweepLeaves, SweepInFlight, PurgeLocked, PurgeBody, bodyVars
    <3>3. CASE \/ TryPublish(t) \/ BindLocked(t) \/ UnbindLocked(t) \/ RespondLateLocked(t) \/ CollectLocked(t)
               \/ ConfirmLocked(t) \/ RespondLocked(t) \/ AwaitLocked(t) \/ AbandonLocked(t)
      BY <3>3 DEF TryPublish, Accept, BindLocked, AddConsumer, UnbindLocked, RemoveConsumer, RespondLateLocked,
           LateRespondBody, CollectLocked, CollectBody, ConfirmLocked, ConfirmBody, RespondLocked, RespondBody,
           AwaitLocked, AwaitBody, OnlyTracks, AbandonLocked, GoesBack, DiesUnconfirmed, bodyVars
    <3> QED BY <1>3, <2>3, <3>1, <3>2, <3>3 DEF Step
  <2> QED BY <2>1, <2>2, <2>3
<1>4. ASSUME NEW t \in Threads, Step(t)
      PROVE  c \in gone' => c \in gone \/ Complete(c)
  <2>1. CASE Complete(t)
    BY <2>1 DEF Complete
  <2>2. CASE ~Complete(t)
    BY <1>4, <2>2 DEF Step, Lookup, ReadSettings, AddQueue, Unregister, TryPublish, BindLocked, UnbindLocked,
       DispatchLocked, DispatchEnds, DispatchBuries, DispatchFinds, ScanBusy, ScanAcquires, ScanEnds, HandOver, HandDone,
       TakeEnters, TakeBuries, TakeReturns, RespondLateLocked, CollectLocked, ConfirmLocked, RespondLocked, AwaitLocked,
       Release, Rotate, FreeNext, FreeEnds, LeaveNext, LeaveLast, AbandonLocked, Reread, AssignSettings,
       PauseWrites, PurgeLocked, SweepNext, SweepEnters, SweepBuries, SweepSkips, SweepLeaves, Retire, SweepEnds, stableVars
  <2> QED BY <2>1, <2>2
<1> QED BY <1>1, <1>2, <1>3, <1>4 DEF Next

\* A call completes its connection after it left, or after what it abandoned was handed on.
LEMMA CompletesBy ==
  ASSUME TypeInv, NEW t \in Threads, Step(t), op'[t].pc = "complete"
  PROVE  op[t].pc = "leaving" \/ op[t].kind = "abandon"
<1>0. op \in [Threads -> Ops]
  BY DEF TypeInv, TypeOK
<1>1. op[t].pc \notin InsideLock => op'[t].pc \notin InsideLock
  BY DEF InsideLock
<1>2. CASE op[t].pc \in {"lookup", "resolve", "add", "unregister"}
  <2>1. CASE Lookup(t)
    <3>1. PICK o : o = GetOrAdd(op[t].kind, op[t].name, op[t].msg)
      OBVIOUS
    <3>2. o.pc \in {"gate", "resolve"}
      BY <3>1, LookedUp DEF GoesTo
    <3>3. op'[t] = o
      BY <1>0, <2>1, <3>1 DEF Lookup
    <3> QED BY <3>2, <3>3
  <2>2. CASE AddQueue(t)
    <3>1. PICK i : op' = [op EXCEPT ![t].inst = i, ![t].pc = "gate"]
      BY <2>2 DEF AddQueue
    <3> QED BY <1>0, <3>1 DEF Ops
  <2>3. CASE ReadSettings(t)
    <3>1. PICK a : op' = [op EXCEPT ![t].arg = a, ![t].pc = "add"]
      BY <2>3 DEF ReadSettings
    <3> QED BY <1>0, <3>1 DEF Ops
  <2>4. CASE Unregister(t)
    BY <1>0, <2>4 DEF Unregister, Ops
  <2> QED BY <1>2, <2>1, <2>2, <2>3, <2>4, StepByPlace
<1>3. CASE op[t].pc = "gate"
  <2>1. CASE TryPublish(t) \/ BindLocked(t) \/ DispatchLocked(t) \/ SweepEnters(t) \/ AbandonLocked(t)
    BY <1>0, <2>1 DEF TryPublish, BindLocked, DispatchLocked, SweepEnters, AbandonLocked, Goto, Ops
  <2>2. CASE TakeEnters(t) \/ UnbindLocked(t) \/ PurgeLocked(t) \/ CollectLocked(t)
    BY <1>0, <2>2 DEF TakeEnters, UnbindLocked, PurgeLocked, CollectLocked, Goto, Return, Idle, Ops
  <2>3. CASE RespondLateLocked(t) \/ ConfirmLocked(t) \/ RespondLocked(t) \/ AwaitLocked(t)
    BY <1>0, <2>3 DEF RespondLateLocked, ConfirmLocked, RespondLocked, AwaitLocked, Goto, Return, Idle, Ops
  <2> QED BY <1>3, <2>1, <2>2, <2>3, StepByPlace
<1>4. CASE op[t].pc \in {"dispatch", "look", "scan"}
  <2>1. CASE DispatchEnds(t) \/ ScanEnds(t)
    BY <1>0, <2>1 DEF DispatchEnds, ScanEnds, FinishDispatch, AfterDispatch, Ops
  <2>2. CASE DispatchBuries(t) \/ DispatchFinds(t)
    BY <1>0, <2>2 DEF DispatchBuries, DispatchFinds, Goto, Ops
  <2>3. CASE ScanBusy(t) \/ ScanAcquires(t)
    BY <1>0, <1>4, <2>3 DEF ScanBusy, ScanAcquires, Ops
  <2> QED BY <1>4, <2>1, <2>2, <2>3, StepByPlace
<1>5. CASE op[t].pc = "hand"
  <2>1. CASE HandOver(t)
    BY <1>0, <1>5, <2>1 DEF HandOver, Ops
  <2>2. CASE HandDone(t)
    BY <1>0, <2>2 DEF HandDone, Idle, Ops
  <2> QED BY <1>5, <2>1, <2>2, StepByPlace
<1>6. CASE op[t].pc \in {"taking", "sweeping", "sweep", "retire"}
  <2>1. CASE TakeBuries(t) \/ SweepBuries(t) \/ SweepSkips(t)
    BY <1>0, <1>6, <2>1 DEF TakeBuries, SweepBuries, SweepSkips, Ops
  <2>2. CASE TakeReturns(t) \/ SweepEnds(t)
    BY <1>0, <2>2 DEF TakeReturns, SweepEnds, Return, Idle
  <2>3. CASE SweepLeaves(t) \/ SweepNext(t) \/ Retire(t)
    BY <1>0, <2>3 DEF SweepLeaves, SweepNext, Retire, Goto, Ops
  <2> QED BY <1>6, <2>1, <2>2, <2>3, StepByPlace
<1>7. CASE op[t].pc \in {"release", "rotate", "freeing"}
  <2>1. CASE Release(t) \/ FreeEnds(t) \/ FreeNext(t)
    BY <1>0, <2>1 DEF Release, FreeEnds, FreeNext, Goto, Ops
  <2>2. CASE Rotate(t)
    <3>1. PICK s : s = Rotated(t)
      OBVIOUS
    <3> QED BY <1>0, <2>2, <3>1 DEF Rotate, Idle
  <2> QED BY <1>7, <2>1, <2>2, StepByPlace
<1>8. CASE op[t].pc \in {"complete", "reread", "assign", "pausing"}
  <2>1. CASE Complete(t) \/ Reread(t) \/ AssignSettings(t)
    BY <1>0, <2>1 DEF Complete, Reread, AssignSettings, Goto, Return, Idle, Ops
  <2>2. CASE PauseWrites(t)
    BY <1>0, <2>2 DEF PauseWrites, Written, TryGet, Idle
  <2> QED BY <1>8, <2>1, <2>2, StepByPlace
<1>9. op[t].pc \in Steps /\ op[t].pc # "idle"
  BY CallType, StepByPlace
<1> QED BY <1>2, <1>3, <1>4, <1>5, <1>6, <1>7, <1>8, <1>9 DEF Steps


\* What is closed stays so; what it holds is what it held, or nothing, and its call is its own.
LEMMA ClosedStays ==
  ASSUME MessageInv, [Next]_vars, NEW c \in Consumers, cstate[c] = "closed"
  PROVE  /\ cstate'[c] = "closed" /\ queues'[c] = queues[c]
         /\ current'[c] = current[c] \/ current'[c] = None
         /\ op'[c] = op[c] \/ Step(c)
<1>0. /\ TypeInv /\ Move /\ c \in Threads /\ cstate'[c] \in {"free", "busy", "closed"}
  BY MoveStep, MessageTypes, TypeStep DEF Threads, TypeInv, TypeOK, MessageInv
<1>1. cstate'[c] = "closed" /\ (current'[c] = current[c] \/ current'[c] = None)
  <2>1. CASE \E m \in Messages : LetsGo(c, m)
    BY <1>0, <2>1, MessageTypes DEF LetsGo, TypeInv, TypeOK
  <2>2. ~ \E m \in Messages, i \in Instances : Given(m, i, c)
    BY DEF Given
  <2> QED BY <1>0, <2>1, <2>2, MoveOfConsumer
<1>2. \A u \in Consumers : \A n : Bind(u, n) \/ Unbind(u, n) \/ Disconnect(u) => u # c
  BY DEF Bind, Unbind, Disconnect, Asks, Ready
<1>3. queues'[c] = queues[c]
  BY <1>0, <1>2, NamesOfConsumers, NamesChange
<1>4. op'[c] = op[c] \/ Step(c)
  <2>1. CASE Start
    <3>1. ASSUME NEW u \in Threads, Starts(u)
          PROVE  op'[c] = op[c]
      <4>1. u # c
        BY <3>1 DEF Starts, Ready
      <4> QED BY <1>0, <3>1, <4>1 DEF Starts, OthersWait
    <3> QED BY <1>0, <2>1, <3>1, StartOfOne
  <2>2. CASE Tick \/ UNCHANGED vars
    BY <2>2 DEF Tick, vars
  <2>3. ASSUME NEW u \in Threads, Step(u)
        PROVE  op'[c] = op[c] \/ Step(c)
    BY <1>0, <2>3, StepOfOne DEF OthersWait
  <2> QED BY <2>1, <2>2, <2>3 DEF Next
<1> QED BY <1>1, <1>3, <1>4

\* Nobody else takes away what a closed connection is about to abandon.
LEMMA LastHeldStays ==
  ASSUME HeldInv, [Next]_vars, NEW c \in Consumers, cstate[c] = "closed", op'[c] = op[c],
         current'[c] # None, current[c] # None => LastHeld(c)
  PROVE  LastHeld(c)'
<1>0. /\ MessageInv /\ TypeInv /\ Move /\ Holding(c) /\ c # None
      /\ current[c] \in [home : Names, msg : Messages] \union {None}
  BY MoveStep, MessageTypes, ThreadsAssumption DEF HeldInv, FoundInv, HolderInv, Threads, TypeInv, TypeOK
<1>1. current'[c] = current[c] /\ current[c] # None /\ LastHeld(c)
  BY <1>0, ClosedStays
<1>2. PICK m \in Messages : m = current[c].msg /\ m = op[c].msg /\ entry[m].owner = c /\ Flights(m) = {op[c].inst}
  BY <1>0, <1>1 DEF LastHeld, Holding
<1>3. Flights(m)' = Flights(m)
  <2>1. ~ \E i \in Instances, d \in Consumers : Given(m, i, d)
    <3> SUFFICES ASSUME NEW i \in Instances, NEW d \in Consumers, Given(m, i, d)
                 PROVE  FALSE
      OBVIOUS
    <3>1. m \in ToSet(pending[i])
      BY DEF Given, Lines, InLine
    <3> QED BY <1>0, <1>2, <3>1, OfLine
  <2>2. ~ \E d \in Consumers : LetsGo(d, m)
    BY <1>2 DEF LetsGo
  <2> QED BY <1>0, <1>2, <2>1, <2>2, OwnerMoves
<1>4. PICK i : i = op[c].inst
  OBVIOUS
<1>5. Flights(m)' = {i} /\ op'[c].inst = i /\ op'[c].msg = m /\ current'[c].msg = m
  BY <1>1, <1>2, <1>3, <1>4
<1>6. At(c, "gate", {"abandon"})'
  BY <1>1 DEF LastHeld, At
<1>7. PICK x : x = op'[c].msg
  OBVIOUS
<1> QED BY <1>5, <1>6, <1>7 DEF LastHeld, Flights, InAir


\* A closed connection leaves queue after queue, abandons what it holds and is gone.
LEMMA ClosedGoesOn ==
  ASSUME HeldInv, [Next]_vars, NEW c \in Consumers, cstate[c] = "closed", Closing(c), Step(c)
  PROVE  /\ op'[c].kind \in {"disconnect", "abandon", "none"}
         /\ c \in gone' => op'[c].pc = "idle"
         /\ op'[c].kind # "disconnect" /\ current'[c] # None => LastHeld(c)'
<1>a. MessageInv /\ Holding(c) /\ c # None /\ c \in Threads /\ Course(c)
  BY ThreadsAssumption DEF HeldInv, FoundInv, HolderInv, Threads
<1>b. MessageInv /\ TypeInv /\ OwnedAway
  BY <1>a, MessageTypes DEF MessageInv
<1>0. /\ MessageInv /\ TypeInv /\ Holding(c) /\ c # None /\ c \in Threads
      /\ op \in [Threads -> Ops] /\ op[c] \in Ops /\ Course(c) /\ OwnedAway
      /\ current \in [Consumers -> [home : Names, msg : Messages] \union {None}]
  BY <1>a, <1>b DEF TypeInv, TypeOK
<1>1. /\ op[c].kind \in {"disconnect", "abandon", "none"} /\ c \notin gone
      /\ op[c].kind # "disconnect" /\ current[c] # None => LastHeld(c)
  BY <1>0, StepByPlace DEF Closing
<1>2. current'[c] = current[c] \/ current'[c] = None
  BY <1>0, ClosedStays
<1>3. op[c].pc \in {"complete", "leaving", "gate"} \union Dispatching
  BY <1>0, <1>1, PlaceTells, StepByPlace
<1>4. c \in gone' => Complete(c)
  BY <1>0, <1>1, ClosesBy
<1>5. CASE Complete(c)
  <2>1. op'[c] = Idle /\ current' = current /\ op[c].pc = "complete"
    BY <1>0, <1>5 DEF Complete, Return, consumerVars
  <2>2. op[c].kind # "abandon" /\ op[c].kind # "disconnect"
    BY <1>0, <2>1, PlaceTells DEF Dispatching
  <2>3. current[c] = None
    BY <1>1, <2>1, <2>2 DEF LastHeld, At
  <2> QED BY <2>1, <2>3 DEF Idle
<1>6. CASE LeaveNext(c)
  <2>1. op[c].kind = "disconnect"
    BY <1>0, <1>6, <1>1, PlaceTells DEF LeaveNext, Dispatching
  <2>2. op'[c].kind = op[c].kind
    BY <1>0, <1>6 DEF LeaveNext
  <2>3. ~Complete(c)
    BY <1>6 DEF LeaveNext, Complete
  <2> QED BY <1>4, <2>1, <2>2, <2>3
<1>7. CASE UnbindLocked(c)
  <2>1. op[c].pc = "gate" /\ op[c].kind \in {"unbind", "disconnect"}
    BY <1>7 DEF UnbindLocked, At
  <2>2. op[c].kind = "disconnect"
    BY <1>1, <2>1
  <2>3. op'[c] = [op[c] EXCEPT !.pc = "leaving"]
    BY <1>0, <1>7, <2>2 DEF UnbindLocked
  <2>4. op'[c].kind = "disconnect"
    BY <1>0, <2>2, <2>3 DEF Ops
  <2>5. ~Complete(c)
    BY <2>1 DEF Complete
  <2> QED BY <1>4, <2>4, <2>5
<1>8. CASE LeaveLast(c)
  <2>0. ~Complete(c) /\ UNCHANGED << current, entry, inFlight >>
    BY <1>8 DEF LeaveLast, Complete, bodyVars, messageVars, stableVars
  <2>1. CASE current[c] = None
    <3>1. op'[c] = [Idle EXCEPT !.pc = "complete"]
      BY <1>0, <1>8, <2>1 DEF LeaveLast
    <3> QED BY <1>4, <2>0, <2>1, <3>1 DEF Idle
  <2>2. CASE current[c] # None
    <3>1. PICK m \in Messages, n \in Names : m = current[c].msg /\ n = current[c].home /\ entry[m].owner = c /\ entry[m].home = n
      <4>1. PICK m \in Messages : m = current[c].msg /\ entry[m].owner = c
        BY <1>0, <2>2 DEF Holding
      <4>2. entry[m].home \in Names /\ current[c] = [home |-> entry[m].home, msg |-> m]
        BY <1>0, <4>1, OwnedHome DEF Holding
      <4> QED BY <4>1, <4>2
    <3>2. PICK j \in Flights(m) : j \in Instances
      BY <1>0, <3>1 DEF OwnedAway, Flights, InAir
    <3>3. registry[n] = j
      BY <3>1, <3>2, HeldInQueue DEF HeldInv
    <3>4. Flights(m) = {j}
      BY <1>0, <3>2, OfDictionary DEF Flights, InAir
    <3>5. j # None
      BY <3>2, ThreadsAssumption
    <3>6. op'[c] = TryGet("abandon", n, m)
      BY <1>0, <1>8, <2>2, <3>1, <3>3, <3>5 DEF LeaveLast
    <3>7. op'[c] = [Idle EXCEPT !.kind = "abandon", !.name = n, !.msg = m, !.inst = j, !.pc = "gate"]
      BY <3>3, <3>5, <3>6 DEF TryGet
    <3>8. op'[c].kind = "abandon" /\ op'[c].pc = "gate" /\ op'[c].msg = m /\ op'[c].inst = j
      BY <3>7 DEF Idle
    <3>9. Flights(m)' = {j} /\ current'[c].msg = m
      BY <2>0, <3>1, <3>4 DEF Flights, InAir
    <3>10. PICK x : x = op'[c].msg
      OBVIOUS
    <3>11. LastHeld(c)'
      BY <3>8, <3>9, <3>10 DEF LastHeld, At, Flights, InAir
    <3> QED BY <1>4, <2>0, <3>8, <3>11
  <2> QED BY <2>1, <2>2
<1>9. CASE AbandonLocked(c)
  <2>1. op[c].pc = "gate" /\ op[c].kind = "abandon"
    BY <1>9 DEF AbandonLocked, At
  <2>2. op'[c].kind = "abandon" /\ ~Complete(c)
    BY <1>0, <1>9, <2>1 DEF AbandonLocked, Goto, Complete, Ops
  <2>3. current'[c] = None
    <3>1. CASE current[c] = None
      BY <1>2, <3>1
    <3>2. CASE current[c] # None
      <4>1. LastHeld(c) /\ entry[current[c].msg].owner = c
        BY <1>0, <1>1, <2>1, <3>2 DEF Holding
      <4>2. Owns(c, op[c].inst, op[c].msg)
        BY <4>1 DEF LastHeld, Owns, Flights, InAir
      <4> QED BY <1>0, <1>9, <4>2 DEF AbandonLocked, DiesUnconfirmed, GoesBack
    <3> QED BY <3>1, <3>2
  <2> QED BY <1>4, <2>2, <2>3
<1>10. CASE op[c].pc \in Dispatching
  <2>1. op[c].kind = "abandon" /\ op[c].pc # "leaving" /\ op[c].pc # "rotate" /\ op[c].pc # "pausing" /\ op[c].pc # "complete"
    BY <1>0, <1>1, <1>10, PlaceTells DEF Dispatching
  <2>2. op'[c].kind \in {"abandon", "none"}
    BY <1>0, <2>1, KindKeeps
  <2>3. ~LastHeld(c)
    BY <1>10 DEF LastHeld, At, Dispatching
  <2>4. current'[c] = None
    BY <1>1, <1>2, <2>1, <2>3
  <2>5. ~Complete(c)
    BY <2>1 DEF Complete
  <2> QED BY <1>4, <2>2, <2>4, <2>5
<1>11. op[c].pc = "gate" => UnbindLocked(c) \/ AbandonLocked(c)
  BY <1>0, <1>1, StepByPlace
<1>12. op[c].pc = "leaving" => LeaveNext(c) \/ LeaveLast(c)
  BY <1>0, StepByPlace
<1>13. op[c].pc = "complete" => Complete(c)
  BY <1>0, StepByPlace
<1> QED BY <1>3, <1>5, <1>6, <1>7, <1>8, <1>9, <1>10, <1>11, <1>12, <1>13


\* A connection that is not closed is not leaving after the step either.
LEMMA OpenGoesOn ==
  ASSUME HeldInv, [Next]_vars, NEW c \in Consumers, cstate[c] # "closed", Closing(c), ~Disconnect(c)
  PROVE  Closing(c)'
<1>0. /\ TypeInv /\ c \in Threads /\ op \in [Threads -> Ops] /\ Fits(c, op[c])
  BY MessageTypes DEF HeldInv, FoundInv, Threads, TypeInv, TypeOK, CallsFit
<1>1. cstate'[c] # "closed"
  BY <1>0, ClosesBy
<1>2. /\ op[c].kind \notin {"disconnect", "abandon"} /\ op[c].pc # "complete" /\ c \notin gone
      /\ op[c].pc # "leaving"
  BY <1>0 DEF Closing, Fits
<1>3. c \notin gone'
  BY <1>0, <1>2, ClosesBy DEF Complete
<1>4. op'[c].kind \notin {"disconnect", "abandon"} /\ op'[c].pc # "complete"
  <2>1. CASE op'[c] = op[c]
    BY <1>2, <2>1
  <2>2. ASSUME NEW n \in Names, Bind(c, n)
        PROVE  op'[c].kind \notin {"disconnect", "abandon"} /\ op'[c].pc # "complete"
    <3>1. op'[c] = GetOrAdd("bind", n, None)
      BY <1>0, <2>2 DEF Bind
    <3> QED BY <3>1, LookedUp DEF GoesTo, GetOrAdd, Idle
  <2>3. CASE Start
    BY <1>0, <2>1, <2>2, <2>3, StartKinds
  <2>4. CASE Step(c)
    BY <1>0, <1>2, <2>4, KindKeeps, CompletesBy
  <2>5. ASSUME NEW u \in Threads, Step(u), u # c
        PROVE  op'[c] = op[c]
    BY <1>0, <2>5, StepOfOne DEF OthersWait
  <2>6. CASE Tick \/ UNCHANGED vars
    BY <2>1, <2>6 DEF Tick, vars
  <2> QED BY <2>1, <2>3, <2>4, <2>5, <2>6 DEF Next
<1> QED BY <1>1, <1>3, <1>4 DEF Closing

\* Whatever the step, a connection is closed, leaves and is gone in this order.
LEMMA ClosingStep ==
  ASSUME HeldInv, ClosingInv, [Next]_vars
  PROVE  ClosingInv'
<1> SUFFICES ASSUME NEW c \in Consumers
             PROVE  Closing(c)'
  BY DEF ClosingInv
<1>0. MessageInv /\ TypeInv /\ Closing(c) /\ c \in Threads
  BY MessageTypes DEF HeldInv, FoundInv, ClosingInv, Threads
<1>1. CASE cstate[c] = "closed"
  <2>1. /\ cstate'[c] = "closed" /\ queues'[c] = <<>>
        /\ op'[c] = op[c] \/ Step(c)
    BY <1>0, <1>1, ClosedStays DEF Closing
  <2>2. CASE Step(c)
    BY <1>0, <1>1, <2>1, <2>2, ClosedGoesOn DEF Closing
  <2>3. CASE op'[c] = op[c] /\ ~Step(c)
    <3>1. c \in gone' => c \in gone
      <4>1. Complete(c) => Step(c)
        BY DEF Step
      <4> QED BY <1>0, <2>3, <4>1, ClosesBy
    <3>2. op[c].kind # "disconnect" /\ current'[c] # None => LastHeld(c)'
      <4> SUFFICES ASSUME op[c].kind # "disconnect", current'[c] # None
                   PROVE  LastHeld(c)'
        OBVIOUS
      <4>1. current[c] # None => LastHeld(c)
        BY <1>0, <1>1 DEF Closing
      <4> QED BY <1>1, <2>3, <4>1, LastHeldStays
    <3> QED BY <1>0, <1>1, <2>1, <2>3, <3>1, <3>2 DEF Closing
  <2> QED BY <2>1, <2>2, <2>3
<1>2. CASE Disconnect(c)
  <2>0. /\ op \in [Threads -> Ops] /\ cstate \in [Consumers -> {"free", "busy", "closed"}]
        /\ queues \in [Consumers -> Seq(Names)]
    BY <1>0 DEF TypeInv, TypeOK
  <2>1. cstate'[c] = "closed" /\ cstate[c] # "closed" /\ gone' = gone /\ queues'[c] = <<>>
    BY <1>2, <2>0 DEF Disconnect, Asks, Ready
  <2>2. PICK s : s = queues[c]
    OBVIOUS
  <2>3. op'[c] = [Idle EXCEPT !.pc = "leaving", !.kind = "disconnect", !.todo = s]
    BY <1>0, <1>2, <2>0, <2>2 DEF Disconnect
  <2>4. op'[c].kind = "disconnect"
    BY <2>3 DEF Idle
  <2> QED BY <1>0, <2>1, <2>4 DEF Closing
<1>3. CASE cstate[c] # "closed" /\ ~Disconnect(c)
  BY <1>0, <1>3, OpenGoesOn
<1> QED BY <1>1, <1>2, <1>3

\* Before anybody called nobody is bound, and nobody has left.
LEMMA BoundInit == Init => BoundInv /\ ClosingInv
<1> SUFFICES ASSUME Init PROVE BoundInv /\ ClosingInv
  OBVIOUS
<1>1. /\ \A c \in Consumers : op[c] = Idle /\ cstate[c] = "free" /\ gone = {}
      /\ \A i \in Instances : bound[i] = <<>>
  BY DEF Init, Threads
<1>2. \A i \in Instances : ToSet(bound[i]) = {} /\ IsInjective(bound[i])
  BY <1>1 DEF ToSet, IsInjective
<1>3. \A c \in Consumers : Binding(c) /\ Closing(c)
  BY <1>1 DEF Binding, Closing, Idle
<1> QED BY <1>2, <1>3 DEF BoundInv, ClosingInv

\* Consumer.cs: "a consumer holds at most one unconfirmed message at a time"; and
\* Broker.cs, Disconnect: when the broker is done with a connection it holds nothing, and no
\* queue knows it, whatever was being assigned to it or bound while it closed.
THEOREM ConsumersHold == Spec => []WhatConsumersHold
<1> DEFINE Inv == HeldInv /\ BoundInv /\ ClosingInv
<1>1. Init => Inv
  BY HeldInit, BoundInit
<1>2. Inv /\ [Next]_vars => Inv'
  BY HeldStep, BoundStep, ClosingStep DEF HeldInv
<1>3. Inv => WhatConsumersHold
  <2> SUFFICES ASSUME Inv PROVE WhatConsumersHold
    OBVIOUS
  <2>1. OneUnconfirmedMessage
    BY HeldIsCurrent DEF OneUnconfirmedMessage
  <2>2. ASSUME NEW c \in gone
        PROVE  Held(c) = {} /\ \A i \in Instances : ~Contains(bound[i], c)
    <3>1. c \in Consumers /\ c \in Threads /\ TypeInv /\ Course(c) /\ \A i \in Instances : bound[i] \in Seq(Consumers)
      BY MessageTypes DEF HeldInv, FoundInv, Threads, TypeInv, TypeOK
    <3>2. cstate[c] = "closed" /\ op[c].pc = "idle" /\ queues[c] = <<>>
      BY <3>1 DEF ClosingInv, Closing
    <3>3. op[c].kind = "none"
      BY <3>1, <3>2, PlaceTells
    <3>4. current[c] = None
      BY <3>1, <3>2, <3>3 DEF ClosingInv, Closing, LastHeld, At
    <3>5. Held(c) = {}
      BY <3>1, <3>4, HeldIsCurrent
    <3>6. \A i \in Instances : c \notin ToSet(bound[i])
      <4> SUFFICES ASSUME NEW i \in Instances, c \in ToSet(bound[i]) PROVE FALSE
        OBVIOUS
      <4>1. Explained(c, i)
        BY DEF BoundInv
      <4>2. ToSet(queues[c]) = {}
        BY <3>2 DEF ToSet
      <4> QED BY <3>2, <3>3, <4>1, <4>2 DEF Explained, Reaches, At
    <3>7. \A i \in Instances : Contains(bound[i], c) => c \in ToSet(bound[i])
      BY DEF Contains, ToSet
    <3> QED BY <3>5, <3>6, <3>7
  <2>3. NobodyGoneHoldsAnything
    BY <2>2 DEF NobodyGoneHoldsAnything
  <2> QED BY <2>1, <2>3 DEF WhatConsumersHold
<1> QED BY <1>1, <1>2, <1>3, PTL DEF Spec

-----------------------------------------------------------------------------
(* No message sleeps: while one waits for a free consumer, some call is on its way to it *)

\* A message waits in the queue although the consumer is bound to it and free.
Waits(i, c) ==
  pending[i] # <<>> /\ ~settings[i].paused /\ c \in ToSet(bound[i]) /\ cstate[c] = "free"

\* The round of the robin has still to come to the consumer.
Ahead(t, i, c) == \E k \in op[t].scan .. Len(bound[i]) - 1 : bound[i][Candidate(i, k)] = c

\* The consumer goes through the queues it is bound to, after it became free.
Roaming(c) == op[c].kind = "free" /\ op[c].pc \in {"freeing", "gate", "dispatch", "look", "scan"}

\* The call will dispatch to the consumer, or find that it is not free any more.
Serves(t, i, c) ==
  \/ At(t, "gate", {"free", "configure"}) /\ op[t].inst = i
  \/ op[t].pc \in {"dispatch", "look"} /\ op[t].inst = i
  \/ op[t].pc = "scan" /\ op[t].inst = i /\ Ahead(t, i, c)
  \/ t = c /\ op[c].pc = "rotate"
  \/ t = c /\ Roaming(c) /\ Reaches(registry, op[c].todo, i)

SleepInv == \A i \in Instances, c \in Consumers : Waits(i, c) => \E t \in Threads : Serves(t, i, c)

\* A round of the robin comes to everybody who is bound.
LEMMA RoundIsWhole ==
  ASSUME NEW n \in Nat, NEW len \in Nat, n = 0 \/ n < len, NEW p \in 1 .. len
  PROVE  \E k \in 0 .. len - 1 : ((n + k) % len) + 1 = p
<1>1. CASE p - 1 >= n
  <2>1. PICK k \in 0 .. len - 1 : k = p - 1 - n
    BY <1>1
  <2>2. n + k = p - 1 /\ p - 1 \in 0 .. len - 1
    BY <2>1
  <2>3. (p - 1) % len = p - 1
    BY <2>2
  <2>4. ((n + k) % len) + 1 = p
    BY <2>2, <2>3
  <2> QED BY <2>4
<1>2. CASE p - 1 < n
  <2>1. PICK k \in 0 .. len - 1 : k = p - 1 - n + len
    BY <1>2
  <2>2. n + k = p - 1 + len /\ p - 1 \in 0 .. len - 1
    BY <2>1
  <2>3. (p - 1 + len) % len = p - 1
    BY <2>2
  <2>4. ((n + k) % len) + 1 = p
    BY <2>2, <2>3
  <2> QED BY <2>4
<1> QED BY <1>1, <1>2

\* So the search finds a consumer that is bound, wherever it starts.
LEMMA RobinComes ==
  ASSUME TypeInv, NEW i \in Instances, NEW c \in ToSet(bound[i])
  PROVE  \E k \in 0 .. Len(bound[i]) - 1 : bound[i][Candidate(i, k)] = c
<1> DEFINE n == nextConsumer[i]
           len == Len(bound[i])
<1>1. n \in Nat /\ len \in Nat /\ (n = 0 \/ n < len) /\ DOMAIN bound[i] = 1 .. len
  BY DEF TypeInv, TypeOK
<1>2. PICK p \in 1 .. len : bound[i][p] = c
  BY <1>1 DEF ToSet
<1>3. \A k : Candidate(i, k) = ((n + k) % len) + 1
  BY DEF Candidate
<1> HIDE DEF n, len
<1>4. PICK k \in 0 .. len - 1 : ((n + k) % len) + 1 = p
  BY <1>1, <1>2, RoundIsWhole
<1>5. bound[i][Candidate(i, k)] = c
  BY <1>2, <1>3, <1>4
<1> QED BY <1>4, <1>5 DEF len

\* The queues of the consumer are all there, in whatever order it goes through them.
LEMMA RotatedIsAll ==
  ASSUME TypeInv, NEW c \in Consumers, NEW n \in ToSet(queues[c])
  PROVE  n \in ToSet(Rotated(c))
<1> DEFINE all == queues[c]
           I == { i \in 1 .. Len(all) : all[i] = lastQueue[c] }
           start == IF I # {} THEN Min(I) ELSE 0
<1>1. all \in Seq(Names) /\ Len(all) \in Nat
  BY DEF TypeInv, TypeOK
<1>2. Rotated(c) = SubSeq(all, start + 1, Len(all)) \o SubSeq(all, 1, start)
  BY DEF Rotated, SelectInSeq
<1>3. start \in 0 .. Len(all)
  <2>1. I \in SUBSET Nat
    BY <1>1
  <2>2. CASE I # {}
    <3>1. Min(I) \in I
      BY <2>1, <2>2, LeastOf
    <3> QED BY <3>1, <2>2, <1>1
  <2>3. CASE I = {}
    BY <2>3, <1>1
  <2> QED BY <2>2, <2>3
<1> HIDE DEF start
<1> QED BY <1>1, <1>2, <1>3, RotationElements

\* Nobody else touches the consumers of a queue while a call is inside its lock.
LEMMA KeptInside ==
  ASSUME TypeInv, LockInv, [Next]_vars, NEW t \in Threads, ~Step(t), NEW i \in Instances, Inside(t, i)
  PROVE  bound'[i] = bound[i] /\ nextConsumer'[i] = nextConsumer[i]
<1>0. /\ gate[i] = t /\ t # None /\ bound \in [Instances -> Seq(Consumers)]
      /\ nextConsumer \in [Instances -> Nat] /\ op \in [Threads -> Ops]
  BY ThreadsAssumption DEF LockInv, TypeInv, TypeOK, Threads
<1>1. CASE Start
  BY <1>1 DEF Start, Publish, Bind, Unbind, Confirm, Respond, Settle, Await, Disconnect, Take, RespondLate, Collect,
         Configure, SetPaused, Purge, Requeue, DiscardDeadLetters, DiscardDeadLetter, Discard, StartSweep,
         bodyVars, queueVars
<1>2. CASE Tick \/ UNCHANGED vars
  BY <1>2 DEF Tick, vars, queueVars
<1>3. ASSUME NEW u \in Threads, Step(u), u # t
      PROVE  bound'[i] = bound[i] /\ nextConsumer'[i] = nextConsumer[i]
  <2>1. CASE AddQueue(u)
    <3>1. ~Unused(i)
      BY DEF Unused, Inside
    <3> QED BY <1>0, <2>1, <3>1 DEF AddQueue
  <2>2. CASE BindLocked(u)
    <3>1. op[u].inst = i => ~Enter(op[u].inst, u) /\ ~Unlocked(op[u].inst)
      BY <1>0 DEF Enter, Unlocked
    <3> QED BY <1>0, <2>2, <3>1 DEF BindLocked, AddConsumer, bodyVars
  <2>3. CASE UnbindLocked(u)
    <3>1. op[u].inst # i
      BY <1>0, <2>3 DEF UnbindLocked, Unlocked
    <3> QED BY <1>0, <2>3, <3>1 DEF UnbindLocked, RemoveConsumer
  <2>4. CASE ScanAcquires(u)
    <3>1. op[u].inst # i
      BY <1>0, <1>3, <2>4 DEF ScanAcquires, LockInv, Inside, InsideLock
    <3>2. PICK j, x : j = op[u].inst /\ nextConsumer' = [nextConsumer EXCEPT ![j] = x] /\ UNCHANGED bound
      BY <2>4 DEF ScanAcquires, Assign
    <3> QED BY <1>0, <3>1, <3>2
  <2>5. CASE ~(AddQueue(u) \/ BindLocked(u) \/ UnbindLocked(u) \/ ScanAcquires(u))
    <3>1. CASE \/ Lookup(u) \/ ReadSettings(u) \/ Unregister(u) \/ DispatchLocked(u) \/ DispatchFinds(u) \/ ScanBusy(u)
               \/ HandOver(u) \/ HandDone(u) \/ Release(u) \/ Rotate(u) \/ FreeNext(u) \/ FreeEnds(u) \/ LeaveNext(u)
               \/ LeaveLast(u) \/ Complete(u) \/ Reread(u) \/ AssignSettings(u) \/ PauseWrites(u) \/ SweepNext(u)
               \/ SweepEnters(u) \/ SweepSkips(u) \/ SweepEnds(u) \/ Retire(u)
      BY <3>1 DEF Lookup, ReadSettings, Unregister, DispatchLocked, DispatchFinds, ScanBusy, HandOver, HandDone,
           Release, Rotate, FreeNext, FreeEnds, LeaveNext, LeaveLast, Complete, Reread, AssignSettings, PauseWrites,
           SweepNext, SweepEnters, SweepSkips, SweepEnds, Retire, bodyVars, queueVars
    <3>2. CASE \/ DispatchEnds(u) \/ DispatchBuries(u) \/ ScanEnds(u) \/ TakeEnters(u) \/ TakeBuries(u) \/ TakeReturns(u)
               \/ SweepBuries(u) \/ SweepLeaves(u) \/ PurgeLocked(u)
      BY <3>2 DEF DispatchEnds, DispatchBuries, BuryHead, ScanEnds, FinishDispatch, OnlyTracks, TakeEnters, TakeBuries,
           TakeReturns, TakeHead, SweepBuries, SweepPending, SweepLeaves, SweepInFlight, PurgeLocked, PurgeBody, bodyVars
    <3>3. CASE \/ TryPublish(u) \/ RespondLateLocked(u) \/ CollectLocked(u)
               \/ ConfirmLocked(u) \/ RespondLocked(u) \/ AwaitLocked(u) \/ AbandonLocked(u)
      BY <3>3 DEF TryPublish, Accept, RespondLateLocked,
           LateRespondBody, CollectLocked, CollectBody, ConfirmLocked, ConfirmBody, RespondLocked, RespondBody,
           AwaitLocked, AwaitBody, OnlyTracks, AbandonLocked, GoesBack, DiesUnconfirmed, bodyVars
    <3> QED BY <1>3, <2>5, <3>1, <3>2, <3>3 DEF Step
  <2> QED BY <2>1, <2>2, <2>3, <2>4, <2>5
<1> QED BY <1>1, <1>2, <1>3 DEF Next

\* A queue that held nothing holds something because a call published to it, or gave a message
\* back, and is about to dispatch.
LEMMA LineComes ==
  ASSUME TypeInv, NEW t \in Threads, Step(t), NEW i \in Instances, pending[i] = <<>>, pending'[i] # <<>>
  PROVE  op'[t].pc = "dispatch" /\ op'[t].inst = i
<1>0. pending \in [Instances -> Seq(Messages)] /\ op \in [Threads -> Ops] /\ op[t] \in Ops /\ CallsFit
  BY CallType DEF TypeInv, TypeOK
<1>1. ASSUME NEW j, NEW m, pending' = [pending EXCEPT ![j] = RemoveFirst(@, m)]
      PROVE  FALSE
  BY <1>0, <1>1, RemoveFromEmpty
<1>2. CASE TryPublish(t) \/ AbandonLocked(t)
  <2>1. PICK j : j = op[t].inst
    OBVIOUS
  <2>2. CASE TryPublish(t)
    <3>1. PICK s : pending' = [pending EXCEPT ![j] = s] /\ Goto(t, "dispatch")
      BY <2>1, <2>2 DEF TryPublish, Accept, bodyVars
    <3> QED BY <1>0, <2>1, <3>1 DEF Goto, Ops
  <2>3. CASE AbandonLocked(t)
    <3>1. PICK s : pending' = [pending EXCEPT ![j] = s] /\ Goto(t, "dispatch")
      BY <2>1, <2>3 DEF AbandonLocked, GoesBack, DiesUnconfirmed, bodyVars
    <3> QED BY <1>0, <2>1, <3>1 DEF Goto, Ops
  <2> QED BY <1>2, <2>2, <2>3
<1>3. CASE DispatchBuries(t) \/ TakeBuries(t)
  <2>1. BuryHead(op[t].inst)
    BY <1>3 DEF DispatchBuries, TakeBuries
  <2> QED BY <1>1, <2>1 DEF BuryHead, BuryPending
<1>4. CASE SweepBuries(t)
  BY <1>1, <1>4 DEF SweepBuries, SweepPending, BuryPending
<1>5. CASE ScanAcquires(t) \/ TakeReturns(t)
  <2>1. PICK j, s : pending' = [pending EXCEPT ![j] = s] /\ (pending[j] # <<>> \/ UNCHANGED pending)
    <3>1. CASE ScanAcquires(t)
      BY <3>1 DEF ScanAcquires, Assign
    <3>2. CASE TakeReturns(t) /\ TakeHead(op[t].inst)
      BY <3>2 DEF TakeHead, HeadIsDeliverable
    <3>3. CASE TakeReturns(t) /\ OnlyTracks(op[t].inst)
      <4>1. pending' = pending
        BY <3>3 DEF OnlyTracks
      <4>2. pending' = [pending EXCEPT ![i] = pending[i]]
        BY <1>0, <4>1
      <4> QED BY <4>1, <4>2
    <3> QED BY <1>5, <3>1, <3>2, <3>3 DEF TakeReturns
  <2> QED BY <1>0, <2>1
<1>6. CASE RespondLateLocked(t)
  <2>1. PICK j, m : UNCHANGED pending \/ pending' = [pending EXCEPT ![j] = IF m \in inFlight[j] THEN @ ELSE RemoveFirst(@, m)]
    BY <1>6 DEF RespondLateLocked, LateRespondBody, bodyVars
  <2> QED BY <1>0, <2>1, RemoveFromEmpty
<1>7. CASE PurgeLocked(t) \/ AddQueue(t)
  BY <1>0, <1>7 DEF PurgeLocked, PurgeBody, AddQueue
<1>8. CASE ~(\/ TryPublish(t) \/ AbandonLocked(t) \/ DispatchBuries(t) \/ TakeBuries(t) \/ SweepBuries(t) \/ ScanAcquires(t)
             \/ TakeReturns(t) \/ RespondLateLocked(t) \/ PurgeLocked(t) \/ AddQueue(t))
  <2>1. CASE \/ Lookup(t) \/ ReadSettings(t) \/ Unregister(t) \/ DispatchLocked(t) \/ DispatchFinds(t) \/ ScanBusy(t)
             \/ HandOver(t) \/ HandDone(t) \/ Release(t) \/ Rotate(t) \/ FreeNext(t) \/ FreeEnds(t) \/ LeaveNext(t)
             \/ LeaveLast(t) \/ Complete(t) \/ Reread(t) \/ AssignSettings(t) \/ PauseWrites(t) \/ SweepNext(t)
             \/ SweepEnters(t) \/ SweepSkips(t) \/ SweepEnds(t) \/ Retire(t)
    BY <2>1 DEF Lookup, ReadSettings, Unregister, DispatchLocked, DispatchFinds, ScanBusy, HandOver, HandDone,
         Release, Rotate, FreeNext, FreeEnds, LeaveNext, LeaveLast, Complete, Reread, AssignSettings, PauseWrites,
         SweepNext, SweepEnters, SweepSkips, SweepEnds, Retire, bodyVars, queueVars
  <2>2. CASE \/ DispatchEnds(t) \/ ScanEnds(t) \/ TakeEnters(t) \/ SweepLeaves(t) \/ BindLocked(t) \/ UnbindLocked(t)
             \/ CollectLocked(t) \/ ConfirmLocked(t) \/ RespondLocked(t) \/ AwaitLocked(t)
    BY <2>2 DEF DispatchEnds, ScanEnds, FinishDispatch, OnlyTracks, TakeEnters, SweepLeaves, SweepInFlight, bodyVars,
         BindLocked, AddConsumer, UnbindLocked, RemoveConsumer, contentVars, CollectLocked, CollectBody, ConfirmLocked,
         ConfirmBody, RespondLocked, RespondBody, AwaitLocked, AwaitBody
  <2> QED BY <1>8, <2>1, <2>2 DEF Step
<1> QED BY <1>2, <1>3, <1>4, <1>5, <1>6, <1>7, <1>8

\* Waiting begins with a call that is on its way already: the one that queued the message,
\* gave it back, bound the consumer, made it free or gave the queue its settings.
LEMMA WaitingBegins ==
  ASSUME MessageInv, \A t \in Threads : Course(t), [Next]_vars, NEW i \in Instances, NEW c \in Consumers,
         IsInjective(bound[i]), Waits(i, c)', ~Waits(i, c)
  PROVE  \E t \in Threads : Serves(t, i, c)'
<1>0. /\ TypeInv /\ Move /\ op \in [Threads -> Ops] /\ cstate \in [Consumers -> {"free", "busy", "closed"}]
      /\ settings \in [Instances -> Settings] /\ bound \in [Instances -> Seq(Consumers)]
      /\ c \in Threads /\ Callers \subseteq Threads
  BY MoveStep, MessageTypes DEF TypeInv, TypeOK, Threads
<1>1. CASE c \notin ToSet(bound[i])
  <2>1. BindLocked(c) /\ op[c].inst = i /\ ~removed[i]
    BY <1>1, BoundGoes DEF Waits, BindsTo
  <2>2. op'[c].pc = "dispatch" /\ op'[c].inst = i
    BY <1>0, <2>1 DEF BindLocked, Goto, Ops
  <2> QED BY <1>0, <2>2 DEF Serves
<1>2. CASE cstate[c] # "free"
  <2>1. cstate'[c] = "free"
    BY DEF Waits
  <2>2. \A m \in Messages : LetsGo(c, m) => cstate' = cstate
    BY DEF LetsGo
  <2>3. \A m \in Messages, j \in Instances : Given(m, j, c) => cstate[c] = "free"
    BY DEF Given
  <2>4. op'[c].pc = "rotate"
    BY <1>0, <1>2, <2>1, <2>2, <2>3, MoveOfConsumer
  <2> QED BY <1>0, <2>4 DEF Serves
<1>3. CASE pending[i] = <<>> \/ settings[i].paused
  <2>1. pending'[i] # pending[i] \/ settings'[i] # settings[i]
    BY <1>3 DEF Waits
  <2>2. CASE Start
    BY <2>1, <2>2 DEF Start, Publish, Bind, Unbind, Confirm, Respond, Settle, Await, Disconnect, Take, RespondLate,
         Collect, Configure, SetPaused, Purge, Requeue, DiscardDeadLetters, DiscardDeadLetter, Discard, StartSweep,
         bodyVars, stableVars, queueVars
  <2>3. CASE Tick \/ UNCHANGED vars
    BY <2>1, <2>3 DEF Tick, vars, queueVars
  <2>4. ASSUME NEW t \in Threads, Step(t)
        PROVE  \E u \in Threads : Serves(u, i, c)'
    <3>1. CASE pending[i] = <<>>
      <4>1. op'[t].pc = "dispatch" /\ op'[t].inst = i
        BY <1>0, <2>4, <3>1, LineComes DEF Waits
      <4> QED BY <4>1 DEF Serves
    <3>2. CASE settings'[i] # settings[i]
      <4>1. CASE Changing(i)'
        BY <1>0, <4>1 DEF Changing, Serves, At
      <4>2. CASE AddQueue(t)
        <5>1. bound'[i] = <<>> \/ settings'[i] = settings[i]
          BY <1>0, <4>2 DEF AddQueue
        <5> QED BY <3>2, <5>1 DEF Waits, ToSet
      <4> QED BY <1>0, <2>4, <3>2, <4>1, <4>2, SettingsChange
    <3> QED BY <1>3, <3>1, <3>2 DEF Waits
  <2> QED BY <2>2, <2>3, <2>4 DEF Next
<1> QED BY <1>1, <1>2, <1>3 DEF Waits

\* A call that serves the consumer serves it until it found that nothing waits, or somebody
\* took the consumer.
LEMMA ServesOn ==
  ASSUME FoundInv, NEW t \in Threads, Step(t), Course(t), NEW i \in Instances, NEW c \in Consumers,
         Explained(c, i), Serves(t, i, c), Waits(i, c), Waits(i, c)'
  PROVE  Serves(t, i, c)'
<1>0. /\ TypeInv /\ op \in [Threads -> Ops] /\ op[t] \in Ops /\ op[t].todo \in Seq(Names) /\ c \in Threads
      /\ bound \in [Instances -> Seq(Consumers)] /\ bound[i] \in Seq(Consumers) /\ None \notin Instances
      /\ op[t].scan \in Nat
  BY MessageTypes, CallType, ThreadsAssumption DEF FoundInv, TypeInv, TypeOK, Threads, Ops
<1>1. CASE At(t, "gate", {"free", "configure"}) /\ op[t].inst = i
  <2>1. DispatchLocked(t)
    BY <1>1, StepByPlace DEF At
  <2>2. op'[t].pc = "dispatch" /\ op'[t].inst = i
    BY <1>0, <1>1, <2>1 DEF DispatchLocked, Goto, Ops
  <2> QED BY <2>2 DEF Serves
<1>2. CASE op[t].pc \in {"dispatch", "look"} /\ op[t].inst = i
  <2>1. CASE DispatchEnds(t)
    <3>1. settings' = settings
      BY <2>1 DEF DispatchEnds, stableVars
    <3>2. MayDispatch(i)
      BY DEF MayDispatch, Waits, ToSet
    <3> QED BY <1>2, <2>1, <3>2 DEF DispatchEnds, Looking, Waits
  <2>2. CASE DispatchBuries(t)
    <3>1. op'[t].pc = "look" /\ op'[t].inst = i
      BY <1>0, <1>2, <2>2 DEF DispatchBuries, Goto, Ops
    <3> QED BY <3>1 DEF Serves
  <2>3. CASE DispatchFinds(t)
    <3>1. op'[t].pc = "scan" /\ op'[t].inst = i /\ op'[t].scan = 0
      BY <1>0, <1>2, <2>3 DEF DispatchFinds, Ops
    <3>2. bound' = bound /\ nextConsumer' = nextConsumer
      BY <2>3 DEF DispatchFinds, bodyVars
    <3>3. \E k \in 0 .. Len(bound[i]) - 1 : bound[i][Candidate(i, k)] = c
      BY <1>0, RobinComes DEF Waits
    <3>4. Ahead(t, i, c)'
      BY <3>1, <3>2, <3>3 DEF Ahead, Candidate
    <3> QED BY <3>1, <3>4 DEF Serves
  <2> QED BY <1>2, <2>1, <2>2, <2>3, StepByPlace
<1>3. CASE op[t].pc = "scan" /\ op[t].inst = i /\ Ahead(t, i, c)
  <2>1. PICK k \in op[t].scan .. Len(bound[i]) - 1 : bound[i][Candidate(i, k)] = c
    BY <1>3 DEF Ahead
  <2>2. CASE ScanEnds(t)
    BY <1>0, <1>3, <2>1, <2>2 DEF ScanEnds
  <2>3. CASE ScanAcquires(t)
    <3>1. PICK o : op' = [op EXCEPT ![t].pc = "dispatch", ![t].scan = 0, ![t].out = o]
      BY <2>3 DEF ScanAcquires
    <3>2. op'[t].pc = "dispatch" /\ op'[t].inst = i
      BY <1>0, <1>3, <3>1 DEF Ops
    <3> QED BY <3>2 DEF Serves
  <2>4. CASE ScanBusy(t)
    <3>1. k # op[t].scan
      BY <1>3, <2>1, <2>4 DEF ScanBusy, Waits
    <3>2. op'[t].pc = "scan" /\ op'[t].inst = i /\ op'[t].scan = op[t].scan + 1
      BY <1>0, <1>3, <2>4 DEF ScanBusy, Ops
    <3>3. bound' = bound /\ nextConsumer' = nextConsumer
      BY <2>4 DEF ScanBusy, bodyVars
    <3>4. k \in op[t].scan + 1 .. Len(bound[i]) - 1
      BY <1>0, <2>1, <3>1
    <3>5. Ahead(t, i, c)'
      BY <2>1, <3>2, <3>3, <3>4 DEF Ahead, Candidate
    <3> QED BY <3>2, <3>5 DEF Serves
  <2> QED BY <1>3, <2>2, <2>3, <2>4, StepByPlace
<1>4. CASE t = c /\ op[c].pc = "rotate"
  <2>1. PICK s : s = Rotated(c) /\ op' = [op EXCEPT ![c] = [Idle EXCEPT !.pc = "freeing", !.kind = "free", !.todo = s]]
                 /\ registry' = registry
    BY <1>4, StepByPlace DEF Rotate, stableVars
  <2>2. op'[c].kind = "free" /\ op'[c].pc = "freeing" /\ op'[c].todo = s
    <3>1. op'[c] = [Idle EXCEPT !.pc = "freeing", !.kind = "free", !.todo = s]
      BY <1>0, <2>1
    <3> QED BY <3>1 DEF Idle
  <2>3. Reaches(registry, queues[c], i)
    <3>1. op[c].kind # "disconnect" /\ op[c].pc # "gate"
      BY <1>0, <1>4, PlaceTells
    <3> QED BY <3>1 DEF Explained, At
  <2>4. Reaches(registry, s, i)
    BY <1>0, <2>1, <2>3, RotatedIsAll DEF Reaches
  <2> QED BY <1>4, <2>1, <2>2, <2>4 DEF Serves, Roaming
<1>5. CASE t = c /\ Roaming(c) /\ Reaches(registry, op[c].todo, i)
  <2>0. op[t].kind = "free" /\ op[t].pc \in {"freeing", "gate", "dispatch", "look", "scan"}
        /\ Reaches(registry, op[t].todo, i)
    BY <1>5 DEF Roaming
  <2>1. UNCHANGED registry /\ cstate[t] = "free"
    <3>1. Rotate(t) \/ FreeNext(t) \/ FreeEnds(t) \/ DispatchLocked(t) \/ DispatchEnds(t) \/ DispatchBuries(t)
          \/ DispatchFinds(t) \/ ScanBusy(t) \/ ScanAcquires(t) \/ ScanEnds(t)
      BY <2>0, StepByPlace
    <3> QED BY <1>5, <3>1 DEF Rotate, FreeNext, FreeEnds, DispatchLocked, DispatchEnds, DispatchBuries, DispatchFinds,
               ScanBusy, ScanAcquires, ScanEnds, stableVars, Waits
  <2>2. PICK x \in ToSet(op[t].todo) : registry[x] = i
    BY <2>0 DEF Reaches
  <2>3. op[t].todo # <<>> /\ (x = Head(op[t].todo) \/ x \in ToSet(Tail(op[t].todo)))
    BY <1>0, <2>2, HeadOrTail
  <2>4. ASSUME op'[t].kind = "free", op'[t].todo = op[t].todo, op'[t].pc \in {"freeing", "gate", "dispatch", "look", "scan"}
        PROVE  Serves(t, i, c)'
    BY <1>5, <2>0, <2>1, <2>4 DEF Serves, Roaming
  <2>5. CASE FreeNext(t)
    <3>1. PICK h, s : h = Head(op[t].todo) /\ s = Tail(op[t].todo)
      OBVIOUS
    <3>2. op' = [op EXCEPT ![t].todo = s, ![t].inst = registry[h],
                           ![t].pc = IF registry[h] = None THEN "freeing" ELSE "gate"]
      BY <2>5, <3>1 DEF FreeNext
    <3>3. /\ op'[t].kind = "free" /\ op'[t].todo = s /\ op'[t].inst = registry[h]
          /\ op'[t].pc = IF registry[h] = None THEN "freeing" ELSE "gate"
      BY <1>0, <2>0, <3>2 DEF Ops
    <3>4. CASE x = h
      <4>1. op'[t].pc = "gate" /\ op'[t].inst = i
        BY <1>0, <2>2, <3>3, <3>4
      <4> QED BY <3>3, <4>1 DEF Serves, At
    <3>5. CASE x \in ToSet(s)
      <4>1. Reaches(registry, s, i)
        BY <2>2, <3>5 DEF Reaches
      <4> QED BY <1>5, <2>1, <3>3, <4>1 DEF Serves, Roaming
    <3> QED BY <2>3, <3>1, <3>4, <3>5
  <2>6. CASE FreeEnds(t)
    BY <2>1, <2>3, <2>6 DEF FreeEnds
  <2>7. CASE DispatchLocked(t)
    <3>1. op'[t].kind = "free" /\ op'[t].todo = op[t].todo /\ op'[t].pc = "dispatch"
      BY <1>0, <2>0, <2>7 DEF DispatchLocked, Goto, Ops
    <3> QED BY <2>4, <3>1
  <2>8. CASE DispatchEnds(t) \/ ScanEnds(t)
    <3>1. op' = [op EXCEPT ![t].pc = "freeing", ![t].scan = 0]
      BY <2>0, <2>8 DEF DispatchEnds, ScanEnds, FinishDispatch, AfterDispatch
    <3>2. op'[t].kind = "free" /\ op'[t].todo = op[t].todo /\ op'[t].pc = "freeing"
      BY <1>0, <2>0, <3>1 DEF Ops
    <3> QED BY <2>4, <3>2
  <2>9. CASE DispatchBuries(t) \/ DispatchFinds(t) \/ ScanBusy(t)
    <3>1. op'[t].kind = "free" /\ op'[t].todo = op[t].todo /\ op'[t].pc \in {"look", "scan"}
      BY <1>0, <2>0, <2>9 DEF DispatchBuries, DispatchFinds, ScanBusy, Goto, Ops
    <3> QED BY <2>4, <3>1
  <2>10. CASE ScanAcquires(t)
    <3>1. PICK o : op' = [op EXCEPT ![t].pc = "dispatch", ![t].scan = 0, ![t].out = o]
      BY <2>10 DEF ScanAcquires
    <3>2. op'[t].kind = "free" /\ op'[t].todo = op[t].todo /\ op'[t].pc = "dispatch"
      BY <1>0, <2>0, <3>1 DEF Ops
    <3> QED BY <2>4, <3>2
  <2> QED BY <2>0, <2>5, <2>6, <2>7, <2>8, <2>9, <2>10, StepByPlace
<1> QED BY <1>1, <1>2, <1>3, <1>4, <1>5 DEF Serves

\* A call that serves the consumer and does not step now goes on serving it.
LEMMA ServesStill ==
  ASSUME FoundInv, LockInv, [Next]_vars, NEW t \in Threads, ~Step(t), NEW i \in Instances, NEW c \in Consumers,
         Serves(t, i, c), Waits(i, c)
  PROVE  Serves(t, i, c)'
<1>0. /\ TypeInv /\ op \in [Threads -> Ops] /\ op[t] \in Ops /\ op[t].todo \in Seq(Names) /\ None \notin Instances
      /\ \A u \in Threads : FoundCall(u)
  BY MessageTypes, CallType, ThreadsAssumption DEF FoundInv, RegistryInv, TypeInv, TypeOK, Ops
<1>1. op[t].pc # "idle"
  BY DEF Serves, At, Roaming
<1>2. op'[t] = op[t]
  <2>1. CASE Start
    <3>1. \A u \in Threads : Starts(u) => u # t
      BY <1>1 DEF Starts, Ready
    <3> QED BY <1>0, <2>1, <3>1, StartOfOne DEF Starts, OthersWait
  <2>2. CASE Tick \/ UNCHANGED vars
    BY <2>2 DEF Tick, vars
  <2>3. ASSUME NEW u \in Threads, Step(u)
        PROVE  op'[t] = op[t]
    BY <1>0, <2>3, StepOfOne DEF OthersWait
  <2> QED BY <2>1, <2>2, <2>3 DEF Next
<1>3. CASE At(t, "gate", {"free", "configure"}) /\ op[t].inst = i
  BY <1>2, <1>3 DEF Serves, At
<1>4. CASE op[t].pc \in {"dispatch", "look"} /\ op[t].inst = i
  BY <1>2, <1>4 DEF Serves
<1>5. CASE op[t].pc = "scan" /\ op[t].inst = i /\ Ahead(t, i, c)
  <2>1. bound'[i] = bound[i] /\ nextConsumer'[i] = nextConsumer[i]
    BY <1>0, <1>5, KeptInside DEF Inside, InsideLock
  <2>2. Ahead(t, i, c)'
    BY <1>2, <1>5, <2>1 DEF Ahead, Candidate
  <2> QED BY <1>2, <1>5, <2>2 DEF Serves
<1>6. CASE t = c /\ op[c].pc = "rotate"
  BY <1>2, <1>6 DEF Serves
<1>7. CASE t = c /\ Roaming(c) /\ Reaches(registry, op[c].todo, i)
  <2>1. PICK x \in ToSet(op[t].todo) : registry[x] = i
    BY <1>7 DEF Reaches
  <2>2. x \in Names
    BY <1>0, <2>1 DEF ToSet
  <2>3. ~removed[i]
    BY DEF Waits, ToSet, FoundInv, RegistryInv, RetirementInv, RetiredQueueHoldsNothing
  <2>4. registry'[x] = i
    BY <1>0, <2>1, <2>2, <2>3, NamesKeep
  <2> QED BY <1>2, <1>7, <2>1, <2>4 DEF Serves, Roaming, Reaches
<1> QED BY <1>3, <1>4, <1>5, <1>6, <1>7 DEF Serves

\* Whatever the step, a message that waits for a free consumer has a call on its way to it.
LEMMA SleepStep ==
  ASSUME FoundInv, LockInv, BoundInv, SleepInv, \A t \in Threads : Course(t), [Next]_vars
  PROVE  SleepInv'
<1> SUFFICES ASSUME NEW i \in Instances, NEW c \in Consumers, Waits(i, c)'
             PROVE  \E t \in Threads : Serves(t, i, c)'
  BY DEF SleepInv
<1>0. MessageInv /\ IsInjective(bound[i])
  BY DEF FoundInv, BoundInv
<1>1. CASE ~Waits(i, c)
  BY <1>0, <1>1, WaitingBegins
<1>2. CASE Waits(i, c)
  <2>1. PICK t \in Threads : Serves(t, i, c)
    BY <1>2 DEF SleepInv
  <2>2. Explained(c, i)
    BY <1>2 DEF BoundInv, Waits
  <2>3. CASE Step(t)
    BY <1>2, <2>1, <2>2, <2>3, ServesOn
  <2>4. CASE ~Step(t)
    BY <1>2, <2>1, <2>4, ServesStill
  <2> QED BY <2>3, <2>4
<1> QED BY <1>1, <1>2

\* MessageQueue.cs and Broker.cs, Dispatch and Free: no wake-up is lost between a publisher
\* that finds every consumer busy and a consumer that becomes free, is bound or is given back
\* to: when nobody is in a call, no message waits for a free consumer of a queue that is not paused.
THEOREM NobodySleeps == Spec => []NoMessageSleeps
<1> DEFINE Inv == CallInv /\ BoundInv /\ SleepInv
<1>1. Init => Inv
  <2>1. Init => SleepInv
    BY DEF Init, SleepInv, Waits
  <2> QED BY <2>1, CallInit, BoundInit
<1>2. Inv /\ [Next]_vars => Inv'
  BY CallStep, BoundStep, SleepStep DEF CallInv, HeldInv
<1>3. Inv => NoMessageSleeps
  <2> SUFFICES ASSUME Inv, \A t \in Threads : op[t].pc = "idle", NEW i \in Instances,
                      pending[i] # <<>> /\ ~settings[i].paused, NEW k \in DOMAIN bound[i], cstate[bound[i][k]] = "free"
               PROVE  FALSE
    BY DEF NoMessageSleeps
  <2>1. PICK c \in Consumers : c = bound[i][k] /\ c \in ToSet(bound[i]) /\ c \in Threads
    <3>1. TypeInv
      BY MessageTypes DEF CallInv, HeldInv, FoundInv
    <3>2. bound[i][k] \in Consumers
      BY <3>1 DEF TypeInv, TypeOK
    <3> QED BY <3>2 DEF ToSet, Threads
  <2>2. Waits(i, c)
    BY <2>1 DEF Waits
  <2>3. PICK t \in Threads : Serves(t, i, c)
    BY <2>2 DEF SleepInv
  <2>4. op[t].pc = "idle" /\ op[c].pc = "idle"
    BY <2>1
  <2> QED BY <2>3, <2>4 DEF Serves, At, Roaming
<1> QED BY <1>1, <1>2, <1>3, PTL DEF Spec
===============================================================================
