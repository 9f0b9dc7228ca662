------------------------------ MODULE TypeProofs ------------------------------
(* The variables of the broker keep their types: the steps that TypeLemmas leaves *)
(* over, and all of them together.                                               *)
EXTENDS TypeLemmas

-----------------------------------------------------------------------------
(* Joining and leaving a queue, purging and sweeping one *)

\* The list of consumers changes, with the turn.
LEMMA BoundType ==
  ASSUME BodyTypes, NEW i \in Instances, NEW c \in Consumers,
         \/ AddConsumer(i, c)
         \/ RemoveConsumer(i, c)
  PROVE  BodyTypes' /\ UNCHANGED << pending, inFlight, fate, entry >>
<1>1. bound[i] \in Seq(Consumers) /\ nextConsumer[i] \in Nat /\ Len(bound[i]) \in Nat
  BY DEF BodyTypes
<1>2. CASE AddConsumer(i, c)
  <2> DEFINE b == IF Contains(bound[i], c) THEN bound[i] ELSE Append(bound[i], c)
  <2>1. /\ bound' = [bound EXCEPT ![i] = b]
        /\ UNCHANGED << pending, inFlight, emptySince, entry, fate, dead, nextConsumer, cstate, lastQueue, current >>
    BY <1>2 DEF AddConsumer, contentVars, messageVars
  <2>2. b \in Seq(Consumers) /\ Len(b) \in Nat /\ Len(b) >= Len(bound[i])
    BY <1>1, AppendProperties
  <2> HIDE DEF b
  <2>3. bound' \in [Instances -> Seq(Consumers)]
    BY <2>1, <2>2 DEF BodyTypes
  <2>4. \A j \in Instances : nextConsumer'[j] = 0 \/ nextConsumer'[j] < Len(bound'[j])
    BY <1>1, <2>1, <2>2 DEF BodyTypes
  <2> QED BY <2>1, <2>3, <2>4 DEF BodyTypes
<1>3. CASE RemoveConsumer(i, c)
  <2> DEFINE b == RemoveFirst(bound[i], c)
  <2>1. /\ bound' = [bound EXCEPT ![i] = b] /\ nextConsumer' = [nextConsumer EXCEPT ![i] = 0]
        /\ UNCHANGED << pending, inFlight, emptySince, entry, fate, dead, cstate, lastQueue, current >>
    BY <1>3 DEF RemoveConsumer, contentVars, messageVars
  <2>2. b \in Seq(Consumers)
    BY <1>1, RemoveFirstElements
  <2> HIDE DEF b
  <2>3. bound' \in [Instances -> Seq(Consumers)] /\ nextConsumer' \in [Instances -> Nat]
    BY <2>1, <2>2 DEF BodyTypes
  <2>4. \A j \in Instances : nextConsumer'[j] = 0 \/ nextConsumer'[j] < Len(bound'[j])
    BY <2>1, <2>2 DEF BodyTypes
  <2> QED BY <2>1, <2>3, <2>4 DEF BodyTypes
<1> QED BY <1>2, <1>3

\* A thread that found a retired queue lets go of it.
LEMMA FoundRetired ==
  ASSUME TypeInv, NEW t \in Threads, op[t].pc = "gate", op[t].kind \in {"publish", "bind"},
         Unlocked(op[t].inst), Goto(t, "unregister"), UNCHANGED << bodyVars, stableVars >>
  PROVE  TypeInv'
<1> DEFINE o == [op[t] EXCEPT !.pc = "unregister"]
<1>1. op' = [op EXCEPT ![t] = o] /\ gate' \in [Instances -> Threads \union {None}]
  BY CallType DEF Goto, Unlocked
<1>2. o \in Ops
  BY CallType, OpGoes DEF Steps
<1>3. /\ o.pc = "unregister" /\ o.kind = op[t].kind /\ o.name = op[t].name /\ o.msg = op[t].msg
      /\ o.inst = op[t].inst /\ o.out = op[t].out /\ Fits(t, op[t])
  BY CallType DEF Ops
<1> HIDE DEF o
<1>4. Fits(t, o) /\ (Joins(o) => Joins(op[t]))
  BY <1>3 DEF Fits, Joins, InQueue, ByConsumers
<1> QED BY <1>1, <1>2, <1>3, <1>4, OnlyTheCall

\* Bind: the queue was retired, or has one consumer more.
LEMMA BindType == ASSUME TypeInv, NEW t \in Threads, BindLocked(t) PROVE TypeInv'
<1> DEFINE i == op[t].inst
<1>1. op[t].pc = "gate" /\ op[t].kind = "bind" /\ UNCHANGED stableVars
  BY DEF BindLocked, At
<1>2. CASE Unlocked(i) /\ Goto(t, "unregister") /\ UNCHANGED bodyVars
  BY <1>1, <1>2, FoundRetired
<1>3. CASE Enter(i, t) /\ AddConsumer(i, t) /\ Goto(t, "dispatch")
  <2> DEFINE o == [op[t] EXCEPT !.pc = "dispatch"]
  <2>1. o \in Ops /\ Fits(t, o) /\ ~Joins(o) /\ o.out = op[t].out /\ op' = [op EXCEPT ![t] = o]
    BY <1>1, <1>3, GoesOnTo DEF InQueue, Goto
  <2>2. i \in Instances /\ BodyTypes /\ GateType' /\ t \in Consumers
    BY <1>1, <1>3, InGate, CallType DEF Fits, ByConsumers, Enter, GateType
  <2>3. BodyTypes' /\ UNCHANGED << pending, inFlight, fate, entry >>
    BY <1>3, <2>2, BoundType
  <2> HIDE DEF o
  <2> QED BY <1>1, <2>1, <2>2, <2>3, QuietStep
<1> QED BY <1>2, <1>3 DEF BindLocked

\* Unbind: the consumer leaves the list, and the turn starts again.
LEMMA UnbindType == ASSUME TypeInv, NEW t \in Threads, UnbindLocked(t) PROVE TypeInv'
<1> DEFINE i == op[t].inst
           o == IF op[t].kind = "unbind" THEN Idle ELSE [op[t] EXCEPT !.pc = "leaving"]
<1>1. /\ op[t].pc = "gate" /\ op[t].kind \in {"unbind", "disconnect"} /\ UNCHANGED << gate, stableVars >>
      /\ RemoveConsumer(i, t) /\ op' = [op EXCEPT ![t] = o]
  BY DEF UnbindLocked, At, Unlocked
<1>2. i \in Instances /\ BodyTypes /\ GateType' /\ t \in Consumers
  BY <1>1, InGate, CallType DEF Fits, ByConsumers, GateType
<1>3. BodyTypes' /\ UNCHANGED << pending, inFlight, fate, entry >>
  BY <1>1, <1>2, BoundType
<1>4. o \in Ops /\ Fits(t, o) /\ ~Joins(o) /\ (o.out = <<>> \/ o.out = op[t].out)
  <2>1. CASE op[t].kind = "unbind"
    BY <2>1, IdleFits
  <2>2. CASE op[t].kind # "unbind"
    <3> DEFINE h == [op[t] EXCEPT !.pc = "leaving"]
    <3>1. h \in Ops
      BY CallType, OpGoes DEF Steps
    <3>2. h.pc = "leaving" /\ h.kind = "disconnect" /\ h.out = op[t].out
      BY <1>1, <2>2, CallType DEF Ops
    <3> HIDE DEF h
    <3>3. Fits(t, h) /\ ~Joins(h)
      BY <1>2, <3>2 DEF Fits, Joins, InQueue, ByConsumers
    <3>4. o = h
      BY <2>2 DEF h
    <3> QED BY <3>1, <3>2, <3>3, <3>4
  <2> QED BY <2>1, <2>2
<1> HIDE DEF o
<1> QED BY <1>1, <1>2, <1>3, <1>4, QuietStep

\* A message that is being published is in no queue yet.
LEMMA JoiningIsSent ==
  ASSUME TypeInv, NEW t \in Threads, Joins(op[t])
  PROVE  /\ op[t].msg \in Messages /\ fate[op[t].msg] = "sent"
         /\ entry[op[t].msg].home = op[t].name
         /\ \A j \in Instances : op[t].msg \notin Content(j)
         /\ \A u \in Threads : u # t /\ Joins(op[u]) => op[u].msg # op[t].msg
  BY CallType DEF TypeInv, Fits, Places, JoinsOnce, OnePlaceEach

\* The message joins the end of the line.
LEMMA AcceptType ==
  ASSUME TypeInv, NEW t \in Threads, op[t].pc = "gate", op[t].kind = "publish",
         Enter(op[t].inst, t), Accept(op[t].inst, op[t].msg), Goto(t, "dispatch"), UNCHANGED stableVars
  PROVE  TypeInv'
<1> DEFINE i == op[t].inst
           m == op[t].msg
           o == [op[t] EXCEPT !.pc = "dispatch"]
           p == Append(pending[i], m)
<1>1. i \in Instances /\ now \in Nat /\ BodyTypes /\ GateType /\ Places /\ GateType'
      /\ pending[i] \in Seq(Messages) /\ IsInjective(pending[i])
      /\ ToSet(pending[i]) \intersect inFlight[i] = {}
  BY InGate DEF GateType, Enter
<1>2. /\ m \in Messages /\ fate[m] = "sent" /\ entry[m].home \in Names
      /\ \A j \in Instances : m \notin Content(j)
      /\ \A u \in Threads : u # t /\ Joins(op[u]) => op[u].msg # m
  <2>1. Joins(op[t]) /\ op[t].name \in Names
    BY CallType DEF Joins, Fits
  <2> QED BY <2>1, JoiningIsSent
<1>3. /\ pending' = [pending EXCEPT ![i] = p]
      /\ entry' = [entry EXCEPT ![m].born = now]
      /\ fate' = [fate EXCEPT ![m] = "live"]
      /\ emptySince' = [emptySince EXCEPT ![i] = Never]
      /\ UNCHANGED << inFlight, bound, nextConsumer, dead, cstate, lastQueue, current >>
  BY DEF Accept, Becomes
<1>4. o \in Ops /\ Fits(t, o) /\ ~Joins(o) /\ o.out = op[t].out /\ op' = [op EXCEPT ![t] = o]
  BY GoesOnTo DEF InQueue, Goto
<1>5. p \in Seq(Messages) /\ ToSet(p) = ToSet(pending[i]) \union {m} /\ IsInjective(p)
  <2>1. m \notin ToSet(pending[i])
    BY <1>1, <1>2 DEF Content
  <2>2. m \in Messages /\ pending[i] \in Seq(Messages) /\ IsInjective(pending[i])
    BY <1>1, <1>2
  <2> DEFINE s == pending[i]
  <2> HIDE DEF m, i, s
  <2>3. m \notin ToSet(s) /\ s \in Seq(Messages) /\ IsInjective(s)
    BY <2>1, <2>2 DEF s
  <2>4. Append(s, m) \in Seq(Messages)
    BY <2>2, <2>3, LineElements
  <2>5. ToSet(Append(s, m)) = ToSet(s) \union {m}
    BY <2>2, <2>3, AppendElements
  <2>6. IsInjective(Append(s, m))
    BY <2>2, <2>3, LineElements
  <2> QED BY <2>4, <2>5, <2>6 DEF s
<1> HIDE DEF p, o
<1>6. entry' \in [Messages -> Entries] /\ \A x \in Messages : entry'[x].home = entry[x].home
  <2>1. entry[m] \in Entries /\ entry'[m] = [entry[m] EXCEPT !.born = now]
    BY <1>1, <1>2, <1>3 DEF BodyTypes
  <2>2. entry'[m] \in Entries /\ entry'[m].home = entry[m].home
    BY <1>1, <2>1 DEF Entries
  <2> QED BY <1>1, <1>3, <2>1, <2>2 DEF BodyTypes
<1>7. fate' \in [Messages -> Fates] /\ fate'[m] = "live" /\ \A x \in Messages \ {m} : fate'[x] = fate[x]
  BY <1>1, <1>2, <1>3 DEF BodyTypes, Fates
<1>8. BodyTypes'
  <2>1. pending' \in [Instances -> Seq(Messages)] /\ emptySince' \in [Instances -> Nat \union {Never}]
    BY <1>1, <1>3, <1>5 DEF BodyTypes
  <2> QED BY <1>1, <1>3, <1>6, <1>7, <2>1 DEF BodyTypes
<1>9. \A j \in Instances : /\ j # i => pending'[j] = pending[j]
                           /\ inFlight'[j] = inFlight[j]
                           /\ Content(j) \subseteq Messages
  BY <1>1, <1>3, LineElements DEF BodyTypes, Content, ToSet
<1>10. pending'[i] = p
  BY <1>1, <1>3 DEF BodyTypes
<1>11. OnePlaceEach'
  <2>1. \A j \in Instances : Content(j)' = IF j = i THEN Content(j) \union {m} ELSE Content(j)
    BY <1>5, <1>9, <1>10 DEF Content
  <2>2. \A j \in Instances : IsInjective(pending'[j]) /\ ToSet(pending'[j]) \intersect inFlight'[j] = {}
    <3>1. m \notin inFlight[i]
      BY <1>1, <1>2 DEF Content
    <3> QED BY <1>1, <1>5, <1>9, <1>10, <3>1 DEF Places, OnePlaceEach
  <2>3. \A j, k \in Instances : j # k => Content(j)' \intersect Content(k)' = {}
    BY <1>1, <1>2, <2>1 DEF Places, OnePlaceEach
  <2>4. \A j \in Instances : \A x \in Content(j)' : fate'[x] = "live"
    BY <1>1, <1>2, <1>7, <1>9, <2>1 DEF Places, OnePlaceEach
  <2>5. \A x \in Messages : fate'[x] = "live" => entry'[x].home \in Names
    BY <1>1, <1>2, <1>6, <1>7 DEF Places, OnePlaceEach
  <2> QED BY <2>2, <2>3, <2>4, <2>5 DEF OnePlaceEach
<1>12. op \in [Threads -> Ops] /\ \A u \in Threads : op'[u] = IF u = t THEN o ELSE op[u]
  BY <1>4, CallType
<1>13. JoinsOnce'
  <2>1. \A u \in Threads : Joins(op'[u]) => u # t /\ op'[u] = op[u] /\ op[u].msg \in Messages \ {m}
    BY <1>2, <1>4, <1>12, JoiningIsSent
  <2> QED BY <1>1, <1>6, <1>7, <2>1 DEF Places, JoinsOnce
<1>14. AnswersOver'
  <2> SUFFICES ASSUME NEW u \in Threads, NEW k \in DOMAIN op'[u].out, op'[u].out[k].response
               PROVE  fate'[op'[u].out[k].msg] \in OverByPush
    BY DEF AnswersOver
  <2>1. op'[u].out = op[u].out /\ op[u].out \in Seq(Handed)
    BY <1>4, <1>12 DEF Ops
  <2>2. op[u].out[k].msg \in Messages /\ fate[op[u].out[k].msg] \in OverByPush
    BY <1>1, <2>1, HandedElement DEF Places, AnswersOver
  <2> QED BY <1>2, <1>7, <2>1, <2>2 DEF OverByPush
<1> QED BY <1>1, <1>4, <1>8, <1>11, <1>13, <1>14, BodyStep DEF Places

\* TryPublish: the queue was retired, or has one message more.
LEMMA TryPublishType == ASSUME TypeInv, NEW t \in Threads, TryPublish(t) PROVE TypeInv'
<1>1. op[t].pc = "gate" /\ op[t].kind = "publish" /\ UNCHANGED stableVars
  BY DEF TryPublish, At
<1>2. CASE Unlocked(op[t].inst) /\ Goto(t, "unregister") /\ UNCHANGED bodyVars
  BY <1>1, <1>2, FoundRetired
<1>3. CASE Enter(op[t].inst, t) /\ Accept(op[t].inst, op[t].msg) /\ Goto(t, "dispatch")
  BY <1>1, <1>3, AcceptType
<1> QED BY <1>2, <1>3 DEF TryPublish

\* A message is born: the thread that publishes it, or a dead letter again, starts its call.
LEMMA BornPlaces ==
  ASSUME TypeInv, NEW t \in Threads, NEW o, op' = [op EXCEPT ![t] = o], o.out = <<>>,
         NEW m \in Messages, fate[m] = "unborn", fate' = [fate EXCEPT ![m] = "sent"],
         NEW e \in Entries, entry' = [entry EXCEPT ![m] = e], e.home = o.name, o.msg = m,
         UNCHANGED << pending, inFlight >>
  PROVE  Places' /\ entry' \in [Messages -> Entries] /\ fate' \in [Messages -> Fates]
<1>1. Places /\ op \in [Threads -> Ops] /\ fate \in [Messages -> Fates] /\ entry \in [Messages -> Entries]
  BY DEF TypeInv, TypeOK
<1>2. /\ fate'[m] = "sent" /\ entry'[m] = e
      /\ \A x \in Messages \ {m} : fate'[x] = fate[x] /\ entry'[x] = entry[x]
  BY <1>1
<1>3. \A u \in Threads : op'[u] = IF u = t THEN o ELSE op[u]
  BY <1>1
<1>4. OnePlaceEach'
  <2>1. \A j \in Instances : Content(j)' = Content(j) /\ Content(j) \subseteq Messages
    BY LineElements DEF TypeInv, TypeOK, Content, ToSet
  <2>2. \A j \in Instances : \A x \in Content(j) : x # m
    BY <1>1 DEF Places, OnePlaceEach
  <2>3. \A j \in Instances : \A x \in Content(j)' : fate'[x] = "live"
    BY <1>1, <1>2, <2>1, <2>2 DEF Places, OnePlaceEach
  <2>4. \A x \in Messages : fate'[x] = "live" => entry'[x].home \in Names
    BY <1>1, <1>2 DEF Places, OnePlaceEach
  <2> QED BY <1>1, <2>1, <2>3, <2>4 DEF Places, OnePlaceEach
<1>5. \A u \in Threads : Joins(op[u]) => op[u].msg \in Messages \ {m}
  BY JoiningIsSent
<1>6. JoinsOnce'
  <2>1. ASSUME NEW u \in Threads, Joins(op'[u])
        PROVE  fate'[op'[u].msg] = "sent" /\ entry'[op'[u].msg].home = op'[u].name
    <3>1. CASE u = t
      BY <1>2, <1>3, <3>1
    <3>2. CASE u # t
      BY <1>1, <1>2, <1>3, <1>5, <2>1, <3>2 DEF Places, JoinsOnce
    <3> QED BY <3>1, <3>2
  <2>2. ASSUME NEW u \in Threads, NEW v \in Threads, u # v, Joins(op'[u]), Joins(op'[v])
        PROVE  op'[u].msg # op'[v].msg
    BY <1>1, <1>3, <1>5, <2>2 DEF Places, JoinsOnce
  <2> QED BY <2>1, <2>2 DEF JoinsOnce
<1>7. AnswersOver'
  <2> SUFFICES ASSUME NEW u \in Threads, NEW k \in DOMAIN op'[u].out, op'[u].out[k].response
               PROVE  fate'[op'[u].out[k].msg] \in OverByPush
    BY DEF AnswersOver
  <2>1. u # t /\ op'[u].out = op[u].out /\ op[u].out \in Seq(Handed)
    BY <1>1, <1>3 DEF Ops
  <2>2. op[u].out[k].msg \in Messages /\ fate[op[u].out[k].msg] \in OverByPush
    BY <1>1, <2>1, HandedElement DEF Places, AnswersOver
  <2> QED BY <1>2, <2>1, <2>2 DEF OverByPush
<1>8. entry' \in [Messages -> Entries] /\ fate' \in [Messages -> Fates]
  BY <1>1 DEF Fates
<1> QED BY <1>4, <1>6, <1>7, <1>8 DEF Places

\* What is handed over is pushed to somebody, or lost with its connection.
LEMMA HandOverType == ASSUME TypeInv, NEW t \in Threads, HandOver(t) PROVE TypeInv'
<1> DEFINE d == Head(op[t].out)
           q == Tail(op[t].out)
           o == [op[t] EXCEPT !.out = q]
<1>1. /\ op[t].pc = "hand" /\ op[t].out # <<>> /\ op' = [op EXCEPT ![t].out = Tail(@)]
      /\ \/ /\ d.response /\ UNCHANGED got
            /\ \E f \in {"answered", "answerLost"} : fate' = [fate EXCEPT ![d.msg] = f]
         \/ /\ ~d.response /\ UNCHANGED fate
            /\ got' = [got EXCEPT ![d.to] = IF cstate[d.to] = "closed" THEN @ ELSE d.msg]
      /\ UNCHANGED << queueVars, entry, dead, consumerVars, now, registry, options, gone >>
  BY DEF HandOver, Becomes
<1>2. /\ TypeOK /\ Places /\ op \in [Threads -> Ops] /\ op[t] \in Ops /\ op[t].out \in Seq(Handed) /\ Fits(t, op[t])
      /\ fate \in [Messages -> Fates]
  BY CallType DEF TypeInv, TypeOK
<1>3. d \in Handed /\ q \in Seq(Handed) /\ Len(op[t].out) \in Nat /\ Len(op[t].out) >= 1 /\ d = op[t].out[1]
      /\ DOMAIN q = 1 .. Len(op[t].out) - 1 /\ \A k \in 1 .. Len(op[t].out) - 1 : q[k] = op[t].out[k + 1]
  BY <1>1, <1>2, HeadTailProperties
<1>4. op' = [op EXCEPT ![t] = o]
  BY <1>1, <1>2
<1> HIDE DEF d, q
<1>5. o \in Ops
  BY <1>2, <1>3 DEF Ops
<1>6. o.out = q /\ o.pc = "hand" /\ o.kind = op[t].kind
  BY <1>1, <1>2 DEF Ops
<1> HIDE DEF o
<1>7. Fits(t, o) /\ ~Joins(o) /\ ~Joins(op[t])
  BY <1>1, <1>2, <1>6 DEF Fits, Joins, InQueue, ByConsumers
<1>8. \A u \in Threads : op'[u] = IF u = t THEN o ELSE op[u]
  BY <1>2, <1>4
<1>9. UNCHANGED << pending, inFlight, entry >>
  BY <1>1 DEF queueVars
<1>10. \A x \in Messages : \/ fate'[x] = fate[x]
                           \/ fate[x] \in OverByPush /\ fate'[x] \in OverByPush
  <2>1. CASE d.response
    <3>1. fate[d.msg] \in OverByPush
      <4>1. 1 \in DOMAIN op[t].out
        BY <1>2, <1>3
      <4> QED BY <1>2, <1>3, <2>1, <4>1 DEF Places, AnswersOver
    <3> QED BY <1>1, <1>2, <2>1, <3>1 DEF OverByPush
  <2>2. CASE ~d.response
    BY <1>1, <2>2
  <2> QED BY <2>1, <2>2
<1>11. OnePlaceEach'
  <2>1. \A j \in Instances : Content(j)' = Content(j) /\ Content(j) \subseteq Messages
    BY <1>2, <1>9, LineElements DEF TypeOK, Content, ToSet
  <2>2. \A x \in Messages : fate'[x] = "live" <=> fate[x] = "live"
    BY <1>10 DEF OverByPush
  <2> QED BY <1>2, <1>9, <2>1, <2>2 DEF Places, OnePlaceEach
<1>12. JoinsOnce'
  <2>1. \A u \in Threads : Joins(op'[u]) => op'[u] = op[u] /\ op[u].msg \in Messages /\ fate[op[u].msg] = "sent"
    BY <1>7, <1>8, JoiningIsSent
  <2> QED BY <1>2, <1>9, <1>10, <2>1 DEF Places, JoinsOnce, OverByPush
<1>13. AnswersOver'
  <2> SUFFICES ASSUME NEW u \in Threads, NEW k \in DOMAIN op'[u].out, op'[u].out[k].response
               PROVE  fate'[op'[u].out[k].msg] \in OverByPush
    BY DEF AnswersOver
  <2>1. PICK l \in DOMAIN op[u].out : op'[u].out[k] = op[u].out[l]
    <3>1. CASE u = t
      <4>1. k \in 1 .. Len(op[t].out) - 1 /\ op'[u].out[k] = op[t].out[k + 1]
        BY <1>3, <1>6, <1>8, <3>1
      <4>2. k + 1 \in DOMAIN op[t].out
        BY <1>2, <1>3, <4>1
      <4> QED BY <3>1, <4>1, <4>2
    <3>2. CASE u # t
      BY <1>8, <3>2
    <3> QED BY <3>1, <3>2
  <2>2. op[u].out \in Seq(Handed)
    BY <1>2 DEF Ops
  <2>3. op[u].out[l].msg \in Messages /\ fate[op[u].out[l].msg] \in OverByPush
    BY <1>2, <2>1, <2>2, HandedElement DEF Places, AnswersOver
  <2> QED BY <1>10, <2>1, <2>3
<1>14. op' \in [Threads -> Ops] /\ CallsFit'
  BY <1>4, <1>5, <1>7, CallGoesOn
<1>15. fate' \in [Messages -> Fates] /\ got' \in [Consumers -> Messages \union {None}]
  <2>1. d.msg \in Messages /\ d.to \in Consumers
    BY <1>3 DEF Handed
  <2>2. "answered" \in Fates /\ "answerLost" \in Fates
    BY DEF Fates
  <2>3. got \in [Consumers -> Messages \union {None}]
    BY <1>2 DEF TypeOK
  <2>4. fate' \in [Messages -> Fates]
    BY <1>1, <1>2, <2>2
  <2>5. got' \in [Consumers -> Messages \union {None}]
    BY <1>1, <2>1, <2>3
  <2> QED BY <2>4, <2>5
<1>16. TypeOK'
  BY <1>1, <1>2, <1>14, <1>15 DEF TypeOK, queueVars, consumerVars
<1> QED BY <1>11, <1>12, <1>13, <1>14, <1>16 DEF TypeInv, Places

\* A queue with nothing in it takes the place of an instance.
LEMMA PlacesOfNew ==
  ASSUME TypeInv, NEW t \in Threads, NEW o, op' = [op EXCEPT ![t] = o],
         NEW i \in Instances,
         pending' = [pending EXCEPT ![i] = <<>>], inFlight' = [inFlight EXCEPT ![i] = {}],
         UNCHANGED messageVars,
         Joins(o) => Joins(op[t]) /\ o.msg = op[t].msg /\ o.name = op[t].name,
         o.out = op[t].out
  PROVE  Places'
<1> DEFINE G == {}
<1>1. TypeOK /\ Places
  BY DEF TypeInv
<1>2. \A j \in Instances : /\ IsInjective(pending'[j])
                           /\ ToSet(pending'[j]) \intersect inFlight'[j] = {}
                           /\ ToSet(pending'[j]) \union inFlight'[j] \subseteq Content(j) \ G
  <2> SUFFICES ASSUME NEW j \in Instances
               PROVE  /\ IsInjective(pending'[j])
                      /\ ToSet(pending'[j]) \intersect inFlight'[j] = {}
                      /\ ToSet(pending'[j]) \union inFlight'[j] \subseteq Content(j)
    OBVIOUS
  <2>1. CASE j = i
    <3>1. pending'[j] = <<>> /\ inFlight'[j] = {}
      BY <1>1, <2>1 DEF TypeOK
    <3> QED BY <3>1 DEF IsInjective, ToSet
  <2>2. CASE j # i
    <3>1. pending'[j] = pending[j] /\ inFlight'[j] = inFlight[j]
      BY <1>1, <2>2 DEF TypeOK
    <3> QED BY <1>1, <3>1 DEF Places, OnePlaceEach, Content
  <2> QED BY <2>1, <2>2
<1>3. /\ G \in SUBSET Messages
      /\ \A m \in G : fate[m] = "live" /\ fate'[m] \notin {"live", "sent"}
      /\ \A m \in Messages \ G : fate'[m] = fate[m] /\ entry'[m].home = entry[m].home
  BY DEF messageVars
<1>4. \A k \in DOMAIN o.out : o.out[k].response => fate'[o.out[k].msg] \in OverByPush
  BY <1>1 DEF Places, AnswersOver, messageVars
<1> HIDE DEF G
<1> QED BY <1>2, <1>3, <1>4, PlacesKept

\* A call that publishes nothing: the messages of its queue move within it or end.
LEMMA PlacesOfOther ==
  ASSUME TypeInv, NEW t \in Threads, NEW o, op' = [op EXCEPT ![t] = o], ~Joins(o),
         \A k \in DOMAIN o.out : o.out[k].response => fate'[o.out[k].msg] \in OverByPush,
         NEW i \in Instances, NEW p, NEW f, NEW G \in SUBSET Content(i),
         pending' = [pending EXCEPT ![i] = p], inFlight' = [inFlight EXCEPT ![i] = f],
         IsInjective(p), ToSet(p) \intersect f = {}, ToSet(p) \union f \subseteq Content(i) \ G,
         \A m \in G : fate'[m] \notin {"live", "sent"},
         \A m \in Messages \ G : fate'[m] = fate[m] /\ entry'[m].home = entry[m].home
  PROVE  Places'
  BY PlacesOfOne

\* A queue is made on an instance nobody refers to; what that held is gone.
LEMMA AddQueueType == ASSUME TypeInv, NEW t \in Threads, AddQueue(t) PROVE TypeInv'
<1> DEFINE n == op[t].name
<1>1. /\ op[t].pc = "add"
      /\ UNCHANGED << messageVars, cstate, lastQueue, current, now, options, queues, got, gone, gate >>
  BY DEF AddQueue
<1>2. /\ TypeOK /\ Places /\ op[t] \in Ops /\ Fits(t, op[t]) /\ op \in [Threads -> Ops] /\ n \in Names
      /\ gate \in [Instances -> Threads \union {None}]
  BY <1>1, CallType DEF TypeInv, Fits
<1>3. ASSUME NEW i \in Instances
      PROVE  LET o == [op[t] EXCEPT !.inst = i, !.pc = "gate"]
             IN  /\ o \in Ops /\ Fits(t, o) /\ o.out = op[t].out
                 /\ Joins(o) => Joins(op[t]) /\ o.msg = op[t].msg /\ o.name = op[t].name
  <2> DEFINE o == [op[t] EXCEPT !.inst = i, !.pc = "gate"]
  <2>1. o \in Ops
    BY <1>2 DEF Ops, Steps
  <2>2. /\ o.pc = "gate" /\ o.inst = i /\ o.kind = op[t].kind /\ o.name = op[t].name /\ o.msg = op[t].msg
        /\ o.out = op[t].out
    BY <1>2 DEF Ops
  <2> HIDE DEF o
  <2>3. Fits(t, o) /\ (Joins(o) => Joins(op[t]))
    BY <1>1, <1>2, <2>2 DEF Fits, Joins, InQueue, ByConsumers
  <2> QED BY <2>1, <2>2, <2>3 DEF o
<1>4. CASE registry[n] # None
  <2> DEFINE i == registry[n]
             o == [op[t] EXCEPT !.inst = i, !.pc = "gate"]
  <2>1. i \in Instances
    BY <1>2, <1>4 DEF TypeOK
  <2>2. /\ op' = [op EXCEPT ![t].inst = i, ![t].pc = "gate"]
        /\ UNCHANGED << pending, inFlight, bound, nextConsumer, emptySince, removed, settings, registry >>
    BY <1>4 DEF AddQueue
  <2>3. op' = [op EXCEPT ![t] = o]
    BY <1>2, <2>2
  <2>4. UNCHANGED << bodyVars, stableVars >>
    BY <1>1, <2>2 DEF bodyVars, stableVars
  <2>5. /\ o \in Ops /\ Fits(t, o) /\ o.out = op[t].out
        /\ Joins(o) => Joins(op[t]) /\ o.msg = op[t].msg /\ o.name = op[t].name
    BY <1>3, <2>1
  <2> HIDE DEF o
  <2> QED BY <1>1, <1>2, <2>3, <2>4, <2>5, OnlyTheCall
<1>5. CASE registry[n] = None
  <2>1. PICK i \in Instances :
          /\ registry' = [registry EXCEPT ![n] = i]
          /\ pending' = [pending EXCEPT ![i] = <<>>]
          /\ inFlight' = [inFlight EXCEPT ![i] = {}]
          /\ bound' = [bound EXCEPT ![i] = <<>>]
          /\ nextConsumer' = [nextConsumer EXCEPT ![i] = 0]
          /\ emptySince' = [emptySince EXCEPT ![i] = Never]
          /\ removed' = [removed EXCEPT ![i] = FALSE]
          /\ settings' = [settings EXCEPT ![i] = op[t].arg]
          /\ op' = [op EXCEPT ![t].inst = i, ![t].pc = "gate"]
    BY <1>5 DEF AddQueue
  <2> DEFINE o == [op[t] EXCEPT !.inst = i, !.pc = "gate"]
  <2>2. op' = [op EXCEPT ![t] = o]
    BY <1>2, <2>1
  <2>3. /\ o \in Ops /\ Fits(t, o) /\ o.out = op[t].out
        /\ Joins(o) => Joins(op[t]) /\ o.msg = op[t].msg /\ o.name = op[t].name
    BY <1>3
  <2> HIDE DEF o
  <2>4. op' \in [Threads -> Ops] /\ CallsFit'
    BY <2>2, <2>3, CallGoesOn
  <2>5. i \in Instances /\ UNCHANGED messageVars
    BY <1>1
  <2>6. pending' = [pending EXCEPT ![i] = <<>>] /\ inFlight' = [inFlight EXCEPT ![i] = {}]
    BY <2>1
  <2>9. Places'
    BY <2>2, <2>3, <2>5, <2>6, PlacesOfNew
  <2>10. /\ pending' \in [Instances -> Seq(Messages)]
         /\ inFlight' \in [Instances -> SUBSET Messages]
         /\ bound' \in [Instances -> Seq(Consumers)]
         /\ nextConsumer' \in [Instances -> Nat]
    BY <1>2, <2>1 DEF TypeOK
  <2>11. \A j \in Instances : nextConsumer'[j] = 0 \/ nextConsumer'[j] < Len(bound'[j])
    BY <1>2, <2>1 DEF TypeOK
  <2>12. op[t].arg \in Settings
    BY <1>2 DEF Ops
  <2>13. /\ emptySince' \in [Instances -> Nat \union {Never}]
         /\ removed' \in [Instances -> BOOLEAN]
         /\ settings' \in [Instances -> Settings]
         /\ registry' \in [Names -> Instances \union {None}]
    BY <1>2, <2>1, <2>12 DEF TypeOK
  <2>14. TypeOK'
    BY <1>1, <1>2, <2>4, <2>10, <2>11, <2>13 DEF TypeOK, messageVars
  <2> QED BY <2>4, <2>9, <2>14 DEF TypeInv
<1> QED BY <1>4, <1>5

\* A purge ends every message of the line.
LEMMA PurgeType == ASSUME TypeInv, NEW t \in Threads, PurgeLocked(t) PROVE TypeInv'
<1> DEFINE i == op[t].inst
           p == <<>>
           f == inFlight[i]
           G == ToSet(pending[i])
<1>1. /\ op[t].pc = "gate" /\ UNCHANGED << gate, stableVars >> /\ op' = [op EXCEPT ![t] = Idle]
      /\ PurgeBody(i)
  BY DEF PurgeLocked, At, Unlocked, Return
<1>2. /\ i \in Instances /\ now \in Nat /\ BodyTypes /\ GateType'
      /\ pending[i] \in Seq(Messages) /\ f \subseteq Messages
      /\ ToSet(pending[i]) \intersect f = {}
  BY <1>1, InGate DEF GateType
<1>3. /\ pending' = [pending EXCEPT ![i] = p]
      /\ TrackEmptiness(i, p, f)
      /\ entry' = [m \in Messages |-> IF m \in G THEN Blank ELSE entry[m]]
      /\ fate' = [m \in Messages |-> IF m \in G THEN "purged" ELSE fate[m]]
      /\ UNCHANGED << inFlight, bound, nextConsumer, dead, cstate, lastQueue, current >>
  BY <1>1 DEF PurgeBody
<1>4. G \in SUBSET Content(i) /\ G \subseteq Messages
  BY <1>2, LineElements DEF Content, ToSet
<1>5. /\ Idle \in Ops /\ Fits(t, Idle) /\ ~Joins(Idle)
      /\ \A k \in DOMAIN Idle.out : Idle.out[k].response => fate'[Idle.out[k].msg] \in OverByPush
  BY IdleFits
<1>6. /\ p \in Seq(Messages) /\ IsInjective(p) /\ ToSet(p) \intersect f = {}
      /\ ToSet(p) \union f \subseteq Content(i) \ G
  BY <1>2 DEF IsInjective, ToSet, Content
<1> HIDE DEF p, f, G
<1>7. "purged" \in Fates
  BY DEF Fates
<1>8. entry' \in [Messages -> Entries] /\ fate' \in [Messages -> Fates]
  BY <1>2, <1>3, <1>7, BlankType DEF BodyTypes
<1>9. emptySince' \in [Instances -> Nat \union {Never}]
  BY <1>2, <1>3, TrackType
<1>10. BodyTypes'
  <2>1. pending' \in [Instances -> Seq(Messages)]
    BY <1>2, <1>3, <1>6 DEF BodyTypes
  <2> QED BY <1>2, <1>3, <1>8, <1>9, <2>1 DEF BodyTypes
<1>11. inFlight' = [inFlight EXCEPT ![i] = f]
  BY <1>2, <1>3 DEF BodyTypes, f
<1>12. /\ \A x \in G : fate'[x] \notin {"live", "sent"}
       /\ \A x \in Messages \ G : fate'[x] = fate[x] /\ entry'[x].home = entry[x].home
  BY <1>3, <1>4
<1> HIDE DEF i
<1> QED BY <1>1, <1>2, <1>3, <1>4, <1>5, <1>6, <1>10, <1>11, <1>12, QueueStep

\* The sweep of the dictionary ends some messages, and may retire the queue.
LEMMA SweepLeavesType == ASSUME TypeInv, NEW t \in Threads, SweepLeaves(t) PROVE TypeInv'
<1> DEFINE i == op[t].inst
           o == [op[t] EXCEPT !.scan = 0, !.pc = IF removed'[i] THEN "retire" ELSE "sweep"]
           p == pending[i]
           G == Outlived(i)
           f == inFlight[i] \ G
<1>1. /\ op[t].pc = "sweeping" /\ SweepInFlight(i) /\ Leave(i)
      /\ removed' = [removed EXCEPT ![i] = @ \/ MayRetire(i)]
      /\ op' = [op EXCEPT ![t].scan = 0, ![t].pc = IF removed'[i] THEN "retire" ELSE "sweep"]
      /\ UNCHANGED << now, registry, options, settings, queues, got, gone >>
  BY DEF SweepLeaves
<1>2. /\ i \in Instances /\ TypeOK /\ BodyTypes /\ GateType /\ Places /\ op[t] \in Ops /\ Fits(t, op[t])
      /\ op \in [Threads -> Ops]
  BY <1>1, CallType, BodyTypesHold DEF TypeInv, Fits, InQueue
<1>3. /\ inFlight' = [inFlight EXCEPT ![i] = f]
      /\ TrackEmptiness(i, p, f)
      /\ entry' = [m \in Messages |-> IF m \in G THEN Blank ELSE entry[m]]
      /\ fate' = [m \in Messages |-> IF m \in G THEN "dropped" ELSE fate[m]]
      /\ UNCHANGED << pending, bound, nextConsumer, dead, cstate, lastQueue, current >>
  BY <1>1 DEF SweepInFlight
<1>4. /\ p \in Seq(Messages) /\ inFlight[i] \subseteq Messages /\ IsInjective(p)
      /\ ToSet(p) \intersect inFlight[i] = {} /\ now \in Nat
  BY <1>2 DEF BodyTypes, Places, OnePlaceEach, TypeOK
<1>5. G \subseteq inFlight[i]
  BY DEF Outlived
<1> HIDE DEF G
<1>6. /\ G \in SUBSET Content(i) /\ G \subseteq Messages /\ f \subseteq Messages
      /\ ToSet(p) \intersect f = {} /\ ToSet(p) \union f \subseteq Content(i) \ G
  BY <1>4, <1>5 DEF Content
<1>7. op' = [op EXCEPT ![t] = o]
  BY <1>1, <1>2
<1>8. o \in Ops
  BY <1>2 DEF Ops, Steps
<1>9. o.pc \in {"retire", "sweep"} /\ o.kind = "sweep" /\ o.inst = i /\ o.out = op[t].out
  BY <1>1, <1>2 DEF Ops, Fits
<1> HIDE DEF o
<1>10. Fits(t, o) /\ ~Joins(o)
  BY <1>2, <1>9 DEF Fits, Joins, InQueue, ByConsumers
<1>11. op' \in [Threads -> Ops] /\ CallsFit'
  BY <1>7, <1>8, <1>10, CallGoesOn
<1>12. "dropped" \in Fates
  BY DEF Fates
<1>13. entry' \in [Messages -> Entries] /\ fate' \in [Messages -> Fates]
  BY <1>2, <1>3, <1>12, BlankType DEF BodyTypes
<1>14. emptySince' \in [Instances -> Nat \union {Never}]
  BY <1>2, <1>3, <1>4, TrackType
<1>15. /\ \A x \in G : fate[x] = "live" /\ fate'[x] = "dropped"
       /\ \A x \in Messages \ G : fate'[x] = fate[x] /\ entry'[x].home = entry[x].home
  BY <1>2, <1>3, <1>6 DEF Places, OnePlaceEach
<1>16. \A k \in DOMAIN o.out : o.out[k].response => fate'[o.out[k].msg] \in OverByPush
  <2> SUFFICES ASSUME NEW k \in DOMAIN o.out, o.out[k].response
               PROVE  fate'[o.out[k].msg] \in OverByPush
    OBVIOUS
  <2>1. o.out[k].msg \in Messages /\ fate[o.out[k].msg] \in OverByPush
    <3>1. op[t].out \in Seq(Handed)
      BY <1>2 DEF Ops
    <3> QED BY <1>2, <1>9, <3>1, HandedElement DEF Places, AnswersOver
  <2> QED BY <1>15, <2>1 DEF OverByPush
<1>17. pending' = [pending EXCEPT ![i] = p]
  BY <1>2, <1>3 DEF BodyTypes
<1>18. \A x \in G : fate'[x] \notin {"live", "sent"}
  BY <1>15
<1> HIDE DEF p, f
<1>19. Places'
  <2>1. i \in Instances /\ ~Joins(o) /\ IsInjective(p) /\ inFlight' = [inFlight EXCEPT ![i] = f]
    BY <1>2, <1>3, <1>4, <1>10
  <2>2. \A x \in Messages \ G : fate'[x] = fate[x] /\ entry'[x].home = entry[x].home
    BY <1>15
  <2> HIDE DEF i
  <2> QED BY <1>6, <1>7, <1>16, <1>17, <1>18, <2>1, <2>2, PlacesOfOther
<1>20. TypeOK'
  <2>1. removed' \in [Instances -> BOOLEAN]
    <3>1. MayRetire(i) \in BOOLEAN
      BY DEF MayRetire
    <3> QED BY <1>1, <1>2, <3>1 DEF TypeOK
  <2>2. inFlight' \in [Instances -> SUBSET Messages] /\ gate' \in [Instances -> Threads \union {None}]
    BY <1>1, <1>2, <1>3, <1>6 DEF TypeOK, Leave
  <2> QED BY <1>1, <1>2, <1>3, <1>11, <1>13, <1>14, <2>1, <2>2 DEF TypeOK
<1> QED BY <1>11, <1>19, <1>20 DEF TypeInv

-----------------------------------------------------------------------------
(* Requests, and steps that change what a method of a queue does not change *)

\* A message is born, and one call publishes it.
LEMMA PublishType ==
  ASSUME TypeInv, NEW t \in Threads, NEW n \in Names, NEW m \in Messages, NEW k \in Kinds, Publish(t, n, m, k)
  PROVE  TypeInv'
<1> DEFINE o == GetOrAdd("publish", n, m)
           e == [Blank EXCEPT !.home = n, !.rpc = k.rpc, !.ttl = k.ttl,
                              !.replyTo = IF k.rpc /\ t \in Consumers THEN t ELSE None]
<1>1. /\ fate[m] = "unborn" /\ fate' = [fate EXCEPT ![m] = "sent"] /\ entry' = [entry EXCEPT ![m] = e]
      /\ op' = [op EXCEPT ![t] = o]
      /\ UNCHANGED << queueVars, dead, consumerVars, now, registry, options, got, gone >>
  BY DEF Publish, Becomes
<1>2. k.rpc \in BOOLEAN /\ k.ttl \in Nat
  BY ValuesAssumption
<1>3. e \in Entries /\ e.home = n
  BY <1>2 DEF Entries, Blank
<1>4. "publish" \in Calls /\ m \in Messages \union {None}
  BY DEF Calls
<1>5. o \in Ops
  BY <1>4, GetOrAddFits
<1>6. Fits(t, o)
  BY <1>4, GetOrAddFits
<1>7. o.out = <<>> /\ o.msg = m /\ o.name = n
  BY <1>4, GetOrAddFits
<1> HIDE DEF o, e
<1>8. Places' /\ entry' \in [Messages -> Entries] /\ fate' \in [Messages -> Fates]
  <2>1. UNCHANGED << pending, inFlight >>
    BY <1>1 DEF queueVars
  <2> QED BY <1>1, <1>3, <1>7, <2>1, BornPlaces
<1>9. op' \in [Threads -> Ops] /\ CallsFit'
  BY <1>1, <1>5, <1>6, CallGoesOn
<1>10. TypeOK'
  BY <1>1, <1>8, <1>9 DEF TypeInv, TypeOK, queueVars, consumerVars
<1> QED BY <1>8, <1>9, <1>10 DEF TypeInv

\* A dead letter is published again, under an id of its own.
LEMMA RequeueType ==
  ASSUME TypeInv, NEW t \in Threads, NEW n \in Names, NEW m, NEW x \in Messages, Requeue(t, n, m, x)
  PROVE  TypeInv'
<1> DEFINE o == [Idle EXCEPT !.pc = "lookup", !.kind = "publish", !.name = n, !.msg = x]
           e == [Blank EXCEPT !.home = n, !.rpc = Letter(dead[n], m).rpc]
<1>1. /\ HasLetter(dead[n], m) /\ fate[x] = "unborn" /\ fate' = [fate EXCEPT ![x] = "sent"]
      /\ entry' = [entry EXCEPT ![x] = e] /\ op' = [op EXCEPT ![t] = o]
      /\ dead' = [dead EXCEPT ![n] = Without(@, m)]
      /\ UNCHANGED << queueVars, consumerVars, now, registry, options, got, gone >>
  BY DEF Requeue, Becomes
<1>2. dead[n] \in Seq(Letters) /\ dead \in [Names -> Seq(Letters)]
  BY DEF TypeInv, TypeOK
<1>3. e \in Entries /\ e.home = n
  <2>1. Letter(dead[n], m) \in Letters
    BY <1>1, <1>2, LetterType
  <2> QED BY <2>1 DEF Entries, Blank, Letters
<1>4. Idle \in Ops /\ "publish" \in Calls /\ "lookup" \in Steps
  BY IdleFits DEF Calls, Steps
<1>5. o \in Ops
  BY <1>4 DEF Ops
<1>6. o.out = <<>> /\ o.msg = x /\ o.name = n /\ o.pc = "lookup" /\ o.kind = "publish"
  BY DEF Idle
<1> HIDE DEF o, e
<1>7. Fits(t, o)
  BY <1>6 DEF Fits, Joins, InQueue, ByConsumers
<1>8. Places' /\ entry' \in [Messages -> Entries] /\ fate' \in [Messages -> Fates]
  <2>1. UNCHANGED << pending, inFlight >>
    BY <1>1 DEF queueVars
  <2> QED BY <1>1, <1>3, <1>6, <2>1, BornPlaces
<1>9. op' \in [Threads -> Ops] /\ CallsFit'
  BY <1>1, <1>5, <1>7, CallGoesOn
<1>10. dead' \in [Names -> Seq(Letters)]
  <2>1. Without(dead[n], m) \in Seq(Letters)
    BY <1>2, WithoutType
  <2> QED BY <1>1, <1>2, <2>1
<1>11. TypeOK'
  BY <1>1, <1>8, <1>9, <1>10 DEF TypeInv, TypeOK, queueVars, consumerVars
<1> QED BY <1>8, <1>9, <1>11 DEF TypeInv

\* Letters leave their store by hand.
LEMMA DiscardType ==
  ASSUME TypeInv, NEW t \in Threads, NEW n \in Names, NEW letters \in Seq(Letters), Discard(t, n, letters)
  PROVE  TypeInv'
<1>1. /\ dead' = [dead EXCEPT ![n] = letters]
      /\ UNCHANGED << queueVars, entry, fate, consumerVars, now, registry, options, op, got, gone >>
  BY DEF Discard
<1>2. op' = [op EXCEPT ![t] = op[t]] /\ op[t] \in Ops /\ Fits(t, op[t])
  BY <1>1, CallType
<1>3. op' \in [Threads -> Ops] /\ CallsFit' /\ Places'
  <2>1. UNCHANGED << pending, inFlight, fate >> /\ \A x \in Messages : entry'[x].home = entry[x].home
    BY <1>1 DEF queueVars
  <2> QED BY <1>2, <2>1, CallMoves
<1>4. TypeOK'
  BY <1>1, <1>3 DEF TypeInv, TypeOK, queueVars, consumerVars
<1> QED BY <1>3, <1>4 DEF TypeInv

\* One letter leaves, or all.
LEMMA DiscardsType ==
  ASSUME TypeInv, NEW t \in Threads, NEW n \in Names,
         DiscardDeadLetters(t, n) \/ \E m \in Messages : DiscardDeadLetter(t, n, m)
  PROVE  TypeInv'
<1>1. <<>> \in Seq(Letters) /\ \A m \in Messages : Without(dead[n], m) \in Seq(Letters)
  BY WithoutType DEF TypeInv, TypeOK
<1> QED BY <1>1, DiscardType DEF DiscardDeadLetters, DiscardDeadLetter

\* The sweeper prunes the letters and is done.
LEMMA SweepEndsType == ASSUME TypeInv, NEW t \in Threads, SweepEnds(t) PROVE TypeInv'
<1>1. /\ dead' = [n \in Names |-> Pruned(dead[n], Resolve(n).limit, Resolve(n).maxAge, now)]
      /\ op' = [op EXCEPT ![t] = Idle]
      /\ UNCHANGED << queueVars, entry, fate, consumerVars, now, registry, options, got, gone >>
  BY DEF SweepEnds, Return
<1>2. \A n \in Names : dead'[n] \in Seq(Letters)
  BY <1>1, PrunedType DEF TypeInv, TypeOK
<1>3. op' \in [Threads -> Ops] /\ CallsFit' /\ Places'
  <2>1. UNCHANGED << pending, inFlight, fate >> /\ \A x \in Messages : entry'[x].home = entry[x].home
    BY <1>1 DEF queueVars
  <2> QED BY <1>1, <2>1, IdleFits, CallMoves
<1>4. TypeOK'
  BY <1>1, <1>2, <1>3 DEF TypeInv, TypeOK, queueVars, consumerVars
<1> QED BY <1>3, <1>4 DEF TypeInv

\* A step that moves no message and changes one of the other variables.
LEMMA OtherStep ==
  ASSUME TypeInv, NEW t \in Threads, NEW o, op' = [op EXCEPT ![t] = o], o \in Ops, Fits(t, o),
         Joins(o) => Joins(op[t]) /\ o.msg = op[t].msg /\ o.name = op[t].name,
         o.out = <<>> \/ o.out = op[t].out,
         UNCHANGED << pending, inFlight, bound, nextConsumer, emptySince, removed, gate >>,
         UNCHANGED << entry, fate, dead, lastQueue, current, now >>,
         settings' \in [Instances -> Settings],
         cstate' \in [Consumers -> {"free", "busy", "closed"}],
         queues' \in [Consumers -> Seq(Names)],
         registry' \in [Names -> Instances \union {None}],
         options' \in [Names -> Settings \union {None}],
         got' \in [Consumers -> Messages \union {None}],
         gone' \subseteq Consumers
  PROVE  TypeInv'
<1>1. UNCHANGED << pending, inFlight, fate >> /\ \A x \in Messages : entry'[x].home = entry[x].home
  OBVIOUS
<1>2. op' \in [Threads -> Ops] /\ CallsFit' /\ Places'
  BY <1>1, CallMoves
<1>3. TypeOK'
  BY <1>2 DEF TypeInv, TypeOK
<1> QED BY <1>2, <1>3 DEF TypeInv

\* The variables these steps change, before.
OtherTypes ==
  /\ settings \in [Instances -> Settings]
  /\ cstate \in [Consumers -> {"free", "busy", "closed"}]
  /\ queues \in [Consumers -> Seq(Names)]
  /\ registry \in [Names -> Instances \union {None}]
  /\ options \in [Names -> Settings \union {None}]
  /\ got \in [Consumers -> Messages \union {None}]
  /\ gone \subseteq Consumers

\* These are parts of the invariant.
LEMMA OtherTypesHold == ASSUME TypeInv PROVE OtherTypes
  BY DEF TypeInv, TypeOK, OtherTypes

\* The name is let go of.
LEMMA LetGoType ==
  ASSUME OtherTypes, NEW n, NEW i, LetGo(n, i)
  PROVE  registry' \in [Names -> Instances \union {None}]
  BY DEF OtherTypes, LetGo

\* Publish and Bind go back to looking the queue up.
LEMMA UnregisterType == ASSUME TypeInv, NEW t \in Threads, Unregister(t) PROVE TypeInv'
<1> DEFINE o == [op[t] EXCEPT !.pc = "lookup", !.inst = None]
<1>1. /\ op[t].pc = "unregister" /\ op[t].kind \in {"publish", "bind"}
      /\ LetGo(op[t].name, op[t].inst)
      /\ op' = [op EXCEPT ![t].pc = "lookup", ![t].inst = None]
      /\ UNCHANGED << bodyVars, gate, now, options, settings, removed, queues, got, gone >>
  BY DEF Unregister, At
<1>2. op[t] \in Ops /\ Fits(t, op[t]) /\ op \in [Threads -> Ops] /\ OtherTypes
  BY CallType, OtherTypesHold
<1>3. op[t].name \in Names
  BY <1>1, <1>2 DEF Fits
<1>4. registry' \in [Names -> Instances \union {None}]
  BY <1>1, <1>2, <1>3, LetGoType
<1>5. op' = [op EXCEPT ![t] = o]
  BY <1>1, <1>2
<1>6. o \in Ops
  BY <1>2 DEF Ops, Steps
<1>7. /\ o.pc = "lookup" /\ o.kind = op[t].kind /\ o.name = op[t].name /\ o.msg = op[t].msg
      /\ o.out = op[t].out
  BY <1>2 DEF Ops
<1> HIDE DEF o
<1>8. Fits(t, o) /\ (Joins(o) => Joins(op[t]))
  BY <1>1, <1>2, <1>3, <1>7 DEF Fits, Joins, InQueue, ByConsumers
<1>9. /\ UNCHANGED << pending, inFlight, bound, nextConsumer, emptySince, removed, gate >>
      /\ UNCHANGED << entry, fate, dead, cstate, lastQueue, current, now >>
      /\ UNCHANGED << options, settings, queues, got, gone >>
  BY <1>1 DEF bodyVars, messageVars
<1> QED BY <1>2, <1>4, <1>5, <1>6, <1>7, <1>8, <1>9, OtherStep DEF OtherTypes

\* The sweeper lets go of a queue and goes on with its list.
LEMMA RetireType == ASSUME TypeInv, NEW t \in Threads, Retire(t) PROVE TypeInv'
<1> DEFINE o == [op[t] EXCEPT !.pc = "sweep"]
<1>1. /\ op[t].pc = "retire" /\ LetGo(op[t].name, op[t].inst) /\ op' = [op EXCEPT ![t] = o]
      /\ UNCHANGED << bodyVars, gate, now, options, settings, removed, queues, got, gone >>
  BY DEF Retire, Goto
<1>2. op[t] \in Ops /\ Fits(t, op[t]) /\ OtherTypes
  BY CallType, OtherTypesHold
<1>3. registry' \in [Names -> Instances \union {None}]
  BY <1>1, <1>2, LetGoType
<1>4. o \in Ops
  BY <1>2, OpGoes DEF Steps
<1>5. o.pc = "sweep" /\ o.kind = op[t].kind /\ o.out = op[t].out
  BY <1>2 DEF Ops
<1> HIDE DEF o
<1>6. Fits(t, o) /\ ~Joins(o)
  BY <1>1, <1>2, <1>5 DEF Fits, Joins, InQueue, ByConsumers
<1>7. /\ UNCHANGED << pending, inFlight, bound, nextConsumer, emptySince, removed, gate >>
      /\ UNCHANGED << entry, fate, dead, cstate, lastQueue, current, now >>
      /\ UNCHANGED << options, settings, queues, got, gone >>
  BY <1>1 DEF bodyVars, messageVars
<1> QED BY <1>1, <1>2, <1>3, <1>4, <1>5, <1>6, <1>7, OtherStep DEF OtherTypes

\* A connection asks: what it is bound to, or what its client is processing, changes at once.
LEMMA BindAsks == ASSUME TypeInv, NEW c \in Consumers, NEW n \in Names, Bind(c, n) \/ Unbind(c, n) PROVE TypeInv'
<1>1. /\ UNCHANGED << pending, inFlight, bound, nextConsumer, emptySince, removed, gate >>
      /\ UNCHANGED << entry, fate, dead, lastQueue, current, now >>
      /\ UNCHANGED << registry, options, settings, cstate, got, gone >>
  BY DEF Bind, Unbind, bodyVars, messageVars
<1>2. c \in Threads /\ OtherTypes /\ queues[c] \in Seq(Names)
  BY OtherTypesHold DEF Threads, OtherTypes
<1>3. None \in Messages \union {None} /\ "bind" \in Calls /\ "unbind" \in Calls
  BY DEF Calls
<1>4. CASE Bind(c, n)
  <2> DEFINE o == GetOrAdd("bind", n, None)
             q == IF Contains(queues[c], n) THEN queues[c] ELSE Append(queues[c], n)
  <2>1. op' = [op EXCEPT ![c] = o] /\ queues' = [queues EXCEPT ![c] = q]
    BY <1>4 DEF Bind
  <2>2. q \in Seq(Names)
    BY <1>2, AppendProperties
  <2>3. o \in Ops
    BY <1>3, GetOrAddFits
  <2>4. Fits(c, o)
    BY <1>3, GetOrAddFits
  <2>5. o.out = <<>> /\ o.kind = "bind"
    BY <1>3, GetOrAddFits
  <2>6. ~Joins(o)
    BY <2>5 DEF Joins
  <2> HIDE DEF o, q
  <2>7. queues' \in [Consumers -> Seq(Names)]
    BY <1>2, <2>1, <2>2 DEF OtherTypes
  <2> QED BY <1>1, <1>2, <2>1, <2>3, <2>4, <2>5, <2>6, <2>7, OtherStep DEF OtherTypes
<1>5. CASE Unbind(c, n)
  <2> DEFINE o == TryGet("unbind", n, None)
             q == RemoveFirst(queues[c], n)
  <2>1. op' = [op EXCEPT ![c] = o] /\ queues' = [queues EXCEPT ![c] = q]
    BY <1>5 DEF Unbind
  <2>2. q \in Seq(Names)
    BY <1>2, RemoveFirstElements
  <2>3. o \in Ops /\ Fits(c, o) /\ o.out = <<>> /\ ~Joins(o)
    BY <1>3, TryGetFits
  <2> HIDE DEF o, q
  <2>4. queues' \in [Consumers -> Seq(Names)]
    BY <1>2, <2>1, <2>2 DEF OtherTypes
  <2> QED BY <1>1, <1>2, <2>1, <2>3, <2>4, OtherStep DEF OtherTypes
<1> QED BY <1>4, <1>5

\* Confirm and Respond look the queue of their message up.
LEMMA SettleAsks ==
  ASSUME TypeInv, NEW c \in Consumers, NEW m \in Messages, Confirm(c, m) \/ Respond(c, m)
  PROVE  TypeInv'
<1>1. PICK kind \in {"confirm", "respond"} : Settle(c, m, kind)
  BY DEF Confirm, Respond
<1> DEFINE o == TryGet(kind, entry[m].home, m)
<1>2. /\ op' = [op EXCEPT ![c] = o] /\ fate[m] = "live"
      /\ got' = [got EXCEPT ![c] = IF @ = m THEN None ELSE @]
      /\ UNCHANGED << pending, inFlight, bound, nextConsumer, emptySince, removed, gate >>
      /\ UNCHANGED << entry, fate, dead, lastQueue, current, now >>
      /\ UNCHANGED << registry, options, settings, cstate, queues, gone >>
  BY <1>1 DEF Settle, MayName, bodyVars, messageVars
<1>3. c \in Threads /\ OtherTypes /\ entry[m].home \in Names /\ kind \in Calls /\ m \in Messages \union {None}
  BY <1>1, <1>2, OtherTypesHold, HomeOfLive DEF Threads, Calls
<1>4. o \in Ops /\ Fits(c, o) /\ o.out = <<>> /\ ~Joins(o)
  BY <1>1, <1>3, TryGetFits
<1> HIDE DEF o
<1>5. got' \in [Consumers -> Messages \union {None}]
  BY <1>2, <1>3 DEF OtherTypes
<1> QED BY <1>2, <1>3, <1>4, <1>5, OtherStep DEF OtherTypes

\* The names of the consumer are copied before they are cleared.
LEMMA DisconnectType == ASSUME TypeInv, NEW c \in Consumers, Disconnect(c) PROVE TypeInv'
<1> DEFINE o == [Idle EXCEPT !.pc = "leaving", !.kind = "disconnect", !.todo = queues[c]]
<1>1. /\ cstate' = [cstate EXCEPT ![c] = "closed"]
      /\ queues' = [queues EXCEPT ![c] = <<>>]
      /\ got' = [got EXCEPT ![c] = None]
      /\ op' = [op EXCEPT ![c] = o]
      /\ UNCHANGED << pending, inFlight, bound, nextConsumer, emptySince, removed, gate >>
      /\ UNCHANGED << entry, fate, dead, lastQueue, current, now >>
      /\ UNCHANGED << registry, options, settings, gone >>
  BY DEF Disconnect, queueVars, messageVars
<1>2. c \in Threads /\ OtherTypes /\ queues[c] \in Seq(Names) /\ <<>> \in Seq(Names) /\ "disconnect" \in Calls
  BY OtherTypesHold DEF Threads, OtherTypes, Calls
<1>3. o \in Ops
  BY <1>2, OpStarts DEF Steps
<1>4. o.out = <<>> /\ o.pc = "leaving" /\ o.kind = "disconnect"
  BY DEF Idle
<1> HIDE DEF o
<1>5. Fits(c, o) /\ ~Joins(o)
  BY <1>4 DEF Fits, Joins, InQueue, ByConsumers
<1>6. /\ cstate' \in [Consumers -> {"free", "busy", "closed"}]
      /\ queues' \in [Consumers -> Seq(Names)]
      /\ got' \in [Consumers -> Messages \union {None}]
  BY <1>1, <1>2 DEF OtherTypes
<1> QED BY <1>1, <1>2, <1>3, <1>4, <1>5, <1>6, OtherStep DEF OtherTypes

\* The consumer is free again, or its connection is over.
LEMMA ReleaseType == ASSUME TypeInv, NEW t \in Threads, Release(t) PROVE TypeInv'
<1> DEFINE o == [op[t] EXCEPT !.pc = "rotate"]
<1>1. /\ op[t].pc = "release" /\ op' = [op EXCEPT ![t] = o]
      /\ cstate' = [cstate EXCEPT ![t] = IF @ = "busy" THEN "free" ELSE @]
      /\ UNCHANGED << pending, inFlight, bound, nextConsumer, emptySince, removed, gate >>
      /\ UNCHANGED << entry, fate, dead, lastQueue, current, now >>
      /\ UNCHANGED << registry, options, settings, queues, got, gone >>
  BY DEF Release, Goto, queueVars, messageVars
<1>2. op[t] \in Ops /\ Fits(t, op[t]) /\ OtherTypes
  BY CallType, OtherTypesHold
<1>3. o \in Ops
  BY <1>2, OpGoes DEF Steps
<1>4. o.pc = "rotate" /\ o.kind = op[t].kind /\ o.out = op[t].out
  BY <1>2 DEF Ops
<1> HIDE DEF o
<1>5. Fits(t, o) /\ ~Joins(o)
  BY <1>1, <1>2, <1>4 DEF Fits, Joins, InQueue, ByConsumers
<1>6. cstate' \in [Consumers -> {"free", "busy", "closed"}]
  BY <1>1, <1>2 DEF OtherTypes
<1> QED BY <1>1, <1>2, <1>3, <1>4, <1>5, <1>6, OtherStep DEF OtherTypes

\* The outbox of a connection is completed.
LEMMA CompleteType == ASSUME TypeInv, NEW t \in Threads, Complete(t) PROVE TypeInv'
<1>1. /\ op[t].pc = "complete" /\ op' = [op EXCEPT ![t] = Idle] /\ gone' = gone \union {t}
      /\ UNCHANGED << pending, inFlight, bound, nextConsumer, emptySince, removed, gate >>
      /\ UNCHANGED << entry, fate, dead, lastQueue, current, now >>
      /\ UNCHANGED << registry, options, settings, cstate, queues, got >>
  BY DEF Complete, Return, queueVars, messageVars, consumerVars
<1>2. t \in Consumers /\ OtherTypes
  BY <1>1, CallType, OtherTypesHold DEF Fits, ByConsumers
<1>3. gone' \subseteq Consumers
  BY <1>1, <1>2 DEF OtherTypes
<1> QED BY <1>1, <1>2, <1>3, IdleFits, OtherStep DEF OtherTypes

\* An administrator's request: what it writes down are settings.
LEMMA WrittenType ==
  ASSUME TypeInv, NEW t \in Threads, NEW n \in Names, NEW s \in Settings \union {None}, Written(t, n, s)
  PROVE  /\ options' \in [Names -> Settings \union {None}]
         /\ \E o \in Ops : op' = [op EXCEPT ![t] = o] /\ Fits(t, o) /\ ~Joins(o) /\ o.out = <<>>
<1>1. options' \in [Names -> Settings \union {None}]
  BY OtherTypesHold DEF Written, OtherTypes
<1>2. CASE registry[n] = None
  BY <1>1, <1>2, IdleFits DEF Written
<1>3. CASE registry[n] # None
  <2> DEFINE r == TryGet("configure", n, None)
             o == [r EXCEPT !.pc = "reread"]
  <2>1. op' = [op EXCEPT ![t] = o]
    BY <1>3 DEF Written
  <2>2. r \in Ops
    BY TryGetFits DEF Calls
  <2>3. o \in Ops
    BY <2>2, OpGoes DEF Steps
  <2>4. registry[n] \in Instances
    BY <1>3, OtherTypesHold DEF OtherTypes
  <2>5. /\ o.pc = "reread" /\ o.kind = "configure" /\ o.name = n /\ o.inst = registry[n] /\ o.out = <<>>
    BY <1>3 DEF TryGet, Idle
  <2> HIDE DEF o
  <2>6. Fits(t, o) /\ ~Joins(o)
    BY <2>4, <2>5 DEF Fits, Joins, InQueue, ByConsumers
  <2> QED BY <1>1, <2>1, <2>3, <2>5, <2>6
<1> QED BY <1>2, <1>3

\* ConfigureQueue, asked for or at the end of SetPaused.
LEMMA ConfigureType ==
  ASSUME TypeInv, NEW t \in Threads,
         \/ PauseWrites(t)
         \/ \E n \in Names, s \in Options \union {None} : Configure(t, n, s)
  PROVE  TypeInv'
<1>1. PICK n \in Names, s \in Settings \union {None} : Written(t, n, s)
  <2>1. CASE PauseWrites(t)
    <3>1. op[t].name \in Names /\ op[t].arg \in Settings
      BY <2>1, CallType DEF PauseWrites, Fits
    <3> QED BY <2>1, <3>1 DEF PauseWrites
  <2>2. CASE \E n \in Names, s \in Options \union {None} : Configure(t, n, s)
    BY <2>2, ValuesAssumption DEF Configure
  <2> QED BY <2>1, <2>2
<1>2. /\ UNCHANGED << pending, inFlight, bound, nextConsumer, emptySince, removed, gate >>
      /\ UNCHANGED << entry, fate, dead, lastQueue, current, now >>
      /\ UNCHANGED << registry, settings, cstate, queues, got, gone >>
  BY DEF PauseWrites, Configure, bodyVars, messageVars
<1>3. options' \in [Names -> Settings \union {None}]
  BY <1>1, WrittenType
<1>4. PICK o \in Ops : op' = [op EXCEPT ![t] = o] /\ Fits(t, o) /\ ~Joins(o) /\ o.out = <<>>
  BY <1>1, WrittenType
<1> QED BY <1>2, <1>3, <1>4, OtherTypesHold, OtherStep DEF OtherTypes

\* The queue is given its settings outside its lock.
LEMMA AssignSettingsType == ASSUME TypeInv, NEW t \in Threads, AssignSettings(t) PROVE TypeInv'
<1> DEFINE o == [op[t] EXCEPT !.pc = "gate"]
<1>1. /\ op[t].pc = "assign" /\ op' = [op EXCEPT ![t] = o]
      /\ settings' = [settings EXCEPT ![op[t].inst] = op[t].arg]
      /\ UNCHANGED << pending, inFlight, bound, nextConsumer, emptySince, removed, gate >>
      /\ UNCHANGED << entry, fate, dead, lastQueue, current, now >>
      /\ UNCHANGED << registry, options, cstate, queues, got, gone >>
  BY DEF AssignSettings, Goto, bodyVars, messageVars
<1>2. op[t] \in Ops /\ Fits(t, op[t]) /\ OtherTypes /\ op[t].arg \in Settings
  BY CallType, OtherTypesHold
<1>3. o \in Ops
  BY <1>2, OpGoes DEF Steps
<1>4. o.pc = "gate" /\ o.kind = op[t].kind /\ o.inst = op[t].inst /\ o.out = op[t].out
  BY <1>2 DEF Ops
<1> HIDE DEF o
<1>5. Fits(t, o) /\ ~Joins(o)
  BY <1>1, <1>2, <1>4 DEF Fits, Joins, InQueue, ByConsumers
<1>6. settings' \in [Instances -> Settings]
  BY <1>1, <1>2 DEF OtherTypes
<1> QED BY <1>1, <1>2, <1>3, <1>4, <1>5, <1>6, OtherStep DEF OtherTypes

\* SetPaused starts from the settings of the name.
LEMMA SetPausedType ==
  ASSUME TypeInv, NEW t \in Threads, NEW n \in Names, NEW paused \in BOOLEAN, SetPaused(t, n, paused)
  PROVE  TypeInv'
<1> DEFINE s == [(IF options[n] = None THEN Defaults ELSE options[n]) EXCEPT !.paused = paused]
           o == [Idle EXCEPT !.pc = "pausing", !.kind = "pause", !.name = n, !.arg = s]
<1>1. op' = [op EXCEPT ![t] = o] /\ UNCHANGED << bodyVars, gate, stableVars >>
  BY DEF SetPaused
<1>2. s \in Settings
  <2>1. (IF options[n] = None THEN Defaults ELSE options[n]) \in Settings
    BY OtherTypesHold, ValuesAssumption DEF OtherTypes
  <2> QED BY <2>1 DEF Settings
<1> HIDE DEF s
<1>3. o \in Ops
  <2>1. Idle \in Ops /\ "pausing" \in Steps /\ "pause" \in Calls
    BY IdleFits DEF Steps, Calls
  <2> QED BY <1>2, <2>1 DEF Ops
<1>4. o.pc = "pausing" /\ o.kind = "pause" /\ o.name = n /\ o.out = <<>>
  BY DEF Idle
<1> HIDE DEF o
<1>5. Fits(t, o) /\ ~Joins(o)
  BY <1>4 DEF Fits, Joins, InQueue, ByConsumers
<1>6. gate' \in [Instances -> Threads \union {None}]
  BY <1>1, CallType
<1> QED BY <1>1, <1>3, <1>4, <1>5, <1>6, OnlyTheCall

\* The sweeper starts with a list of all the names.
LEMMA StartSweepType == ASSUME TypeInv, NEW t \in Threads, StartSweep(t) PROVE TypeInv'
<1>1. PICK order \in Orders :
        op' = [op EXCEPT ![t] = [Idle EXCEPT !.pc = "sweep", !.kind = "sweep", !.todo = order]]
  BY DEF StartSweep
<1> DEFINE o == [Idle EXCEPT !.pc = "sweep", !.kind = "sweep", !.todo = order]
<1>2. order \in Seq(Names)
  <2>1. Cardinality(Names) \in Nat
    BY ValuesAssumption, FS_CardinalityType
  <2>2. order \in [1 .. Cardinality(Names) -> Names]
    BY DEF Orders
  <2> QED BY <2>1, <2>2, SeqDef
<1>3. o \in Ops
  BY <1>2, OpStarts DEF Steps, Calls
<1>4. o.pc = "sweep" /\ o.kind = "sweep" /\ o.out = <<>>
  BY DEF Idle
<1>5. op' = [op EXCEPT ![t] = o]
  BY <1>1
<1> HIDE DEF o
<1>6. Fits(t, o) /\ ~Joins(o)
  BY <1>4 DEF Fits, Joins, InQueue, ByConsumers
<1>7. UNCHANGED << bodyVars, stableVars >> /\ gate' \in [Instances -> Threads \union {None}]
  BY CallType DEF StartSweep
<1> QED BY <1>3, <1>4, <1>5, <1>6, <1>7, OnlyTheCall

\* The clock goes on, or nothing does.
LEMMA TickType == ASSUME TypeInv, Tick \/ UNCHANGED vars PROVE TypeInv'
<1>1. now' \in Nat /\ UNCHANGED << queueVars, messageVars, consumerVars, registry, options, op, got, gone >>
  <2>1. now \in Nat
    BY DEF TypeInv, TypeOK
  <2> QED BY <2>1 DEF Tick, vars
<1>2. Sweeper \in Threads
  BY DEF Threads
<1>3. op' = [op EXCEPT ![Sweeper] = op[Sweeper]] /\ op[Sweeper] \in Ops /\ Fits(Sweeper, op[Sweeper])
  BY <1>1, <1>2, CallType
<1>4. op' \in [Threads -> Ops] /\ CallsFit' /\ Places'
  <2>1. UNCHANGED << pending, inFlight, fate >> /\ \A x \in Messages : entry'[x].home = entry[x].home
    BY <1>1 DEF queueVars, messageVars
  <2> QED BY <1>2, <1>3, <2>1, CallMoves
<1>5. TypeOK'
  BY <1>1, <1>4 DEF TypeInv, TypeOK, queueVars, messageVars, consumerVars
<1> QED BY <1>4, <1>5 DEF TypeInv

-----------------------------------------------------------------------------
(* Answered messages stay away from the line *)

\* No message becomes answered, and none enters the line that is.
LEMMA AwayKept ==
  ASSUME TypeInv, TypeInv', AnswersAway,
         \A m \in Messages : entry'[m].answered => /\ entry[m].answered
                                                   /\ entry'[m].owner \in {entry[m].owner, None}
                                                   /\ fate'[m] = fate[m],
         \A i \in Instances : \A m \in ToSet(pending'[i]) : m \in ToSet(pending[i]) \/ ~entry[m].answered
  PROVE  AnswersAway'
<1>1. \A i \in Instances : ToSet(pending'[i]) \subseteq Messages
  BY LineElements DEF TypeInv, TypeOK, ToSet
<1> QED BY <1>1 DEF AnswersAway

\* The same when nothing of all that changes.
LEMMA AwayUnchanged ==
  ASSUME TypeInv, AnswersAway, UNCHANGED << pending, entry, fate >>
  PROVE  AnswersAway'
  BY DEF AnswersAway

\* A message that is over is forgotten, and its answer with it.
LEMMA AwayFinished ==
  ASSUME TypeInv, TypeInv', AnswersAway, NEW m, NEW f,
         entry' = [entry EXCEPT ![m] = Blank], fate' = [fate EXCEPT ![m] = f],
         \A i \in Instances : ToSet(pending'[i]) \subseteq ToSet(pending[i])
  PROVE  AnswersAway'
<1>1. \A x \in Messages : entry'[x].answered => entry'[x] = entry[x] /\ fate'[x] = fate[x]
  <2>1. entry \in [Messages -> Entries] /\ fate \in [Messages -> Fates] /\ ~Blank.answered
    BY DEF TypeInv, TypeOK, Blank
  <2> QED BY <2>1
<1> QED BY <1>1, AwayKept

\* What a line holds when a message was taken out of it, or its head.
LEMMA LineShrinks ==
  ASSUME TypeInv, NEW i \in Instances,
         \/ \E m : pending' = [pending EXCEPT ![i] = RemoveFirst(pending[i], m)]
         \/ pending[i] # <<>> /\ pending' = [pending EXCEPT ![i] = Tail(pending[i])]
         \/ pending' = [pending EXCEPT ![i] = <<>>]
         \/ UNCHANGED pending
  PROVE  \A j \in Instances : ToSet(pending'[j]) \subseteq ToSet(pending[j])
<1>1. pending \in [Instances -> Seq(Messages)] /\ IsInjective(pending[i])
  BY DEF TypeInv, TypeOK, Places, OnePlaceEach
<1>2. \A m : ToSet(RemoveFirst(pending[i], m)) \subseteq ToSet(pending[i])
  BY <1>1, RemoveFirstElements
<1>3. pending[i] # <<>> => ToSet(Tail(pending[i])) \subseteq ToSet(pending[i])
  BY <1>1, TailElements
<1>4. ToSet(<<>>) = {}
  BY DEF ToSet
<1> QED BY <1>1, <1>2, <1>3, <1>4

\* A dead message takes its answer along.
LEMMA AwayBuried ==
  ASSUME TypeInv, TypeInv', AnswersAway, NEW i \in Instances, NEW m, BuryPending(i, m)
  PROVE  AnswersAway'
<1>1. /\ entry' = [entry EXCEPT ![m] = Blank] /\ fate' = [fate EXCEPT ![m] = DeathOf(m)]
      /\ pending' = [pending EXCEPT ![i] = RemoveFirst(pending[i], m)]
  BY DEF BuryPending, Bury, Forget, Becomes
<1>2. \A j \in Instances : ToSet(pending'[j]) \subseteq ToSet(pending[j])
  BY <1>1, LineShrinks
<1> QED BY <1>1, <1>2, AwayFinished

\* StoreResponse: the message is no longer in the line, and nobody owns it.
LEMMA AwayAnswered ==
  ASSUME TypeInv, AnswersAway, NEW i \in Instances, NEW m \in Content(i),
         entry' = [entry EXCEPT ![m] = Answered(m)], UNCHANGED fate,
         pending' = [pending EXCEPT ![i] = IF m \in inFlight[i] THEN @ ELSE RemoveFirst(@, m)]
  PROVE  AnswersAway'
<1>1. /\ pending \in [Instances -> Seq(Messages)] /\ inFlight[i] \subseteq Messages
      /\ entry \in [Messages -> Entries] /\ Places
  BY DEF TypeInv, TypeOK
<1>2. \A j \in Instances : ToSet(pending[j]) \subseteq Messages
  BY <1>1, LineElements DEF ToSet
<1>3. m \in Messages /\ fate[m] = "live"
  BY <1>1, <1>2 DEF Places, OnePlaceEach, Content
<1>4. \A x \in Messages : entry'[x] = IF x = m THEN Answered(m) ELSE entry[x]
  BY <1>1
<1>5. Answered(m).owner = None
  BY <1>1, <1>3 DEF Answered, Entries
<1>6. \A j \in Instances : ToSet(pending'[j]) \subseteq ToSet(pending[j]) \ {m}
  <2> SUFFICES ASSUME NEW j \in Instances PROVE ToSet(pending'[j]) \subseteq ToSet(pending[j]) \ {m}
    OBVIOUS
  <2>1. CASE j # i
    <3>1. pending'[j] = pending[j] /\ m \notin ToSet(pending[j])
      BY <1>1, <2>1 DEF Places, OnePlaceEach, Content
    <3> QED BY <3>1
  <2>2. CASE j = i /\ m \in inFlight[i]
    <3>1. pending'[i] = pending[i] /\ m \notin ToSet(pending[i])
      BY <1>1, <2>2 DEF Places, OnePlaceEach
    <3> QED BY <2>2, <3>1
  <2>3. CASE j = i /\ m \notin inFlight[i]
    <3>1. pending'[i] = RemoveFirst(pending[i], m) /\ IsInjective(pending[i])
      BY <1>1, <2>3 DEF Places, OnePlaceEach
    <3>2. ToSet(RemoveFirst(pending[i], m)) = ToSet(pending[i]) \ {m}
      BY <1>1, <3>1, RemoveFirstElements
    <3> QED BY <2>3, <3>1, <3>2
  <2> QED BY <2>1, <2>2, <2>3
<1> QED BY <1>2, <1>3, <1>4, <1>5, <1>6 DEF AnswersAway

\* So does one that is finished.
LEMMA AwayEnds ==
  ASSUME TypeInv, TypeInv', AnswersAway, NEW i \in Instances, NEW m, NEW f, Finish(i, m, f),
         \/ UNCHANGED pending
         \/ pending' = [pending EXCEPT ![i] = IF m \in inFlight[i] THEN @ ELSE RemoveFirst(@, m)]
  PROVE  AnswersAway'
<1>1. entry' = [entry EXCEPT ![m] = Blank] /\ fate' = [fate EXCEPT ![m] = f]
  BY DEF Finish, Forget, Becomes
<1>2. UNCHANGED pending \/ pending' = [pending EXCEPT ![i] = RemoveFirst(pending[i], m)]
  <2>1. pending \in [Instances -> Seq(Messages)]
    BY DEF TypeInv, TypeOK
  <2> QED BY <2>1
<1>3. \A j \in Instances : ToSet(pending'[j]) \subseteq ToSet(pending[j])
  BY <1>2, LineShrinks
<1> QED BY <1>1, <1>3, AwayFinished

\* A message that is born, or takes its place in the line, has no answer.
LEMMA AwayBorn ==
  ASSUME TypeInv, TypeInv', AnswersAway, NEW t \in Threads,
         \/ \E n \in Names, m \in Messages, k \in Kinds : Publish(t, n, m, k)
         \/ \E n \in Names, m, x \in Messages : Requeue(t, n, m, x)
  PROVE  AnswersAway'
<1>1. \E m \in Messages : \E e, f : /\ ~e.answered /\ entry' = [entry EXCEPT ![m] = e]
                                    /\ fate' = [fate EXCEPT ![m] = f] /\ UNCHANGED pending
  <2>1. CASE \E n \in Names, m \in Messages, k \in Kinds : Publish(t, n, m, k)
    <3> PICK n \in Names, m \in Messages, k \in Kinds : Publish(t, n, m, k)
      BY <2>1
    <3> DEFINE e == [Blank EXCEPT !.home = n, !.rpc = k.rpc, !.ttl = k.ttl,
                                  !.replyTo = IF k.rpc /\ t \in Consumers THEN t ELSE None]
    <3>1. entry' = [entry EXCEPT ![m] = e] /\ fate' = [fate EXCEPT ![m] = "sent"] /\ UNCHANGED pending
      BY DEF Publish, Becomes, queueVars
    <3>2. ~e.answered
      BY DEF Blank
    <3> HIDE DEF e
    <3> QED BY <3>1, <3>2
  <2>2. CASE \E n \in Names, m, x \in Messages : Requeue(t, n, m, x)
    <3> PICK n \in Names, m \in Messages, x \in Messages : Requeue(t, n, m, x)
      BY <2>2
    <3> DEFINE e == [Blank EXCEPT !.home = n, !.rpc = Letter(dead[n], m).rpc]
    <3>1. entry' = [entry EXCEPT ![x] = e] /\ fate' = [fate EXCEPT ![x] = "sent"] /\ UNCHANGED pending
      BY DEF Requeue, Becomes, queueVars
    <3>2. ~e.answered
      BY DEF Blank
    <3> HIDE DEF e
    <3> QED BY <3>1, <3>2
  <2> QED BY <2>1, <2>2
<1> PICK m \in Messages : \E e, f : /\ ~e.answered /\ entry' = [entry EXCEPT ![m] = e]
                                    /\ fate' = [fate EXCEPT ![m] = f] /\ UNCHANGED pending
  BY <1>1
<1>2. entry \in [Messages -> Entries] /\ fate \in [Messages -> Fates]
  BY DEF TypeInv, TypeOK
<1>3. \A x \in Messages : entry'[x].answered => entry'[x] = entry[x] /\ fate'[x] = fate[x]
  BY <1>1, <1>2
<1> QED BY <1>1, <1>3, AwayKept

\* What joins the line is only being sent.
LEMMA AwayAccepted ==
  ASSUME TypeInv, TypeInv', AnswersAway, NEW t \in Threads, TryPublish(t)
  PROVE  AnswersAway'
<1> DEFINE i == op[t].inst
           m == op[t].msg
<1>1. CASE UNCHANGED bodyVars
  BY <1>1, AwayUnchanged DEF bodyVars, messageVars
<1>2. CASE Accept(i, m)
  <2>1. i \in Instances /\ Joins(op[t]) /\ entry \in [Messages -> Entries] /\ fate \in [Messages -> Fates]
        /\ pending \in [Instances -> Seq(Messages)]
    BY CallType DEF TryPublish, At, Joins, Fits, InQueue, TypeInv, TypeOK
  <2>2. m \in Messages /\ fate[m] = "sent"
    BY <2>1, JoiningIsSent
  <2>3. /\ pending' = [pending EXCEPT ![i] = Append(pending[i], m)]
        /\ entry' = [entry EXCEPT ![m].born = now] /\ fate' = [fate EXCEPT ![m] = "live"]
    BY <1>2 DEF Accept, Becomes
  <2>4. ~entry[m].answered
    BY <2>2 DEF AnswersAway
  <2>5. entry'[m].answered = entry[m].answered
    BY <2>1, <2>2, <2>3 DEF Entries
  <2>6. \A x \in Messages : entry'[x].answered => entry'[x] = entry[x] /\ fate'[x] = fate[x]
    BY <2>1, <2>3, <2>4, <2>5
  <2>7. ToSet(Append(pending[i], m)) = ToSet(pending[i]) \union {m}
    BY <2>1, <2>2, AppendElements
  <2>8. \A j \in Instances : \A x \in ToSet(pending'[j]) : x \in ToSet(pending[j]) \/ ~entry[x].answered
    BY <2>1, <2>3, <2>4, <2>7
  <2> QED BY <2>6, <2>8, AwayKept
<1> QED BY <1>1, <1>2 DEF TryPublish

\* A head that goes to a consumer was in the line, so it has no answer; what goes back to
\* the line had an owner.
LEMMA AwayMoved ==
  ASSUME TypeInv, TypeInv', AnswersAway, NEW t \in Threads, ScanAcquires(t) \/ TakeReturns(t)
  PROVE  AnswersAway'
<1> DEFINE i == op[t].inst
           m == Head(pending[i])
<1>1. i \in Instances /\ entry \in [Messages -> Entries] /\ fate \in [Messages -> Fates]
      /\ pending \in [Instances -> Seq(Messages)]
  BY CallType DEF ScanAcquires, TakeReturns, Fits, InQueue, TypeInv, TypeOK
<1>2. CASE OnlyTracks(i)
  BY <1>2, AwayUnchanged DEF OnlyTracks, messageVars
<1>3. CASE ScanAcquires(t) \/ TakeHead(i)
  <2>1. pending[i] # <<>> /\ pending' = [pending EXCEPT ![i] = Tail(pending[i])]
    BY <1>3 DEF ScanAcquires, Assign, TakeHead, HeadIsDeliverable
  <2>2. m \in Messages /\ m \in ToSet(pending[i]) /\ ~entry[m].answered
    BY <1>1, <2>1, TailElements DEF AnswersAway
  <2>3. \A j \in Instances : ToSet(pending'[j]) \subseteq ToSet(pending[j])
    BY <1>1, <2>1, LineShrinks
  <2>4. PICK e, f : /\ ~e.answered /\ entry' = [entry EXCEPT ![m] = e] /\ fate' = [fate EXCEPT ![m] = f]
    <3>1. CASE ScanAcquires(t)
      <4>1. PICK c : entry' = [entry EXCEPT ![m].owner = c] /\ UNCHANGED fate
        BY <3>1 DEF ScanAcquires, Assign
      <4> DEFINE e == [entry[m] EXCEPT !.owner = c]
      <4>2. entry' = [entry EXCEPT ![m] = e] /\ fate' = [fate EXCEPT ![m] = fate[m]]
        BY <1>1, <4>1
      <4>3. ~e.answered
        BY <1>1, <2>2 DEF Entries
      <4> HIDE DEF e
      <4> QED BY <4>2, <4>3
    <3>2. CASE TakeHead(i) /\ entry[m].rpc
      <4>1. entry' = [entry EXCEPT ![m] = entry[m]] /\ fate' = [fate EXCEPT ![m] = fate[m]]
        BY <1>1, <3>2 DEF TakeHead
      <4> QED BY <2>2, <4>1
    <3>3. CASE TakeHead(i) /\ ~entry[m].rpc
      <4>1. entry' = [entry EXCEPT ![m] = Blank] /\ fate' = [fate EXCEPT ![m] = "taken"]
        BY <3>3 DEF TakeHead, Forget, Becomes
      <4>2. ~Blank.answered
        BY DEF Blank
      <4> QED BY <4>1, <4>2
    <3> QED BY <1>3, <3>1, <3>2, <3>3
  <2>5. \A x \in Messages : entry'[x].answered => entry'[x] = entry[x] /\ fate'[x] = fate[x]
    BY <1>1, <2>2, <2>4
  <2> QED BY <2>3, <2>5, AwayKept
<1> QED BY <1>2, <1>3 DEF TakeReturns

\* What goes back to the line had an owner, so it has no answer.
LEMMA AwayAbandoned ==
  ASSUME TypeInv, TypeInv', AnswersAway, NEW t \in Threads, AbandonLocked(t)
  PROVE  AnswersAway'
<1> DEFINE i == op[t].inst
           m == op[t].msg
<1>1. i \in Instances /\ m \in Messages /\ entry \in [Messages -> Entries] /\ fate \in [Messages -> Fates]
      /\ pending \in [Instances -> Seq(Messages)]
  BY CallType DEF AbandonLocked, At, Fits, InQueue, TypeInv, TypeOK
<1>2. CASE UNCHANGED bodyVars
  BY <1>2, AwayUnchanged DEF bodyVars, messageVars
<1>3. CASE DiesUnconfirmed(t, i, m)
  <2>1. /\ entry' = [entry EXCEPT ![m] = Blank] /\ fate' = [fate EXCEPT ![m] = "unconfirmed"]
        /\ UNCHANGED pending
    BY <1>3 DEF DiesUnconfirmed, Bury, Forget, Becomes
  <2> QED BY <2>1, AwayFinished
<1>4. CASE GoesBack(t, i, m)
  <2>1. /\ pending' = [pending EXCEPT ![i] = <<m>> \o pending[i]]
        /\ entry' = [entry EXCEPT ![m].owner = None] /\ UNCHANGED fate /\ entry[m].owner = t
    BY <1>4 DEF GoesBack, Owns
  <2>2. ~entry[m].answered
    BY <1>1, <2>1, ThreadsAssumption DEF AnswersAway
  <2>3. \A x \in Messages : entry'[x].answered => entry'[x] = entry[x]
    <3>1. entry'[m].answered = entry[m].answered
      BY <1>1, <2>1 DEF Entries
    <3> QED BY <1>1, <2>1, <2>2, <3>1
  <2>4. ToSet(<<m>> \o pending[i]) = ToSet(pending[i]) \union {m}
    BY <1>1, LineElements
  <2>5. \A j \in Instances : \A x \in ToSet(pending'[j]) : x \in ToSet(pending[j]) \/ ~entry[x].answered
    BY <1>1, <2>1, <2>2, <2>4
  <2> QED BY <2>1, <2>3, <2>5, AwayKept
<1> QED BY <1>2, <1>3, <1>4 DEF AbandonLocked

\* An answer is written to a message that is out of the line.
LEMMA AwaySettled ==
  ASSUME TypeInv, TypeInv', AnswersAway, NEW t \in Threads,
         ConfirmLocked(t) \/ RespondLocked(t) \/ CollectLocked(t) \/ RespondLateLocked(t)
  PROVE  AnswersAway'
<1> DEFINE i == op[t].inst
           m == op[t].msg
<1>1. i \in Instances
  BY CallType DEF ConfirmLocked, RespondLocked, CollectLocked, RespondLateLocked, At, Fits, InQueue
<1>2. CASE UNCHANGED bodyVars
  BY <1>2, AwayUnchanged DEF bodyVars, messageVars
<1>3. CASE ConfirmBody(t, i, m) \/ CollectBody(i, m)
  BY <1>1, <1>3, AwayEnds DEF ConfirmBody, CollectBody
<1>4. CASE RespondBody(t, i, m)
  <2>1. UNCHANGED pending /\ m \in inFlight[i]
    BY <1>4 DEF RespondBody, Owns
  <2>2. CASE KeepAnswer(i, m)
    <3>1. entry' = [entry EXCEPT ![m] = Answered(m)] /\ UNCHANGED fate
      BY <2>2 DEF KeepAnswer
    <3>2. pending' = [pending EXCEPT ![i] = IF m \in inFlight[i] THEN @ ELSE RemoveFirst(@, m)]
      BY <2>1 DEF TypeInv, TypeOK
    <3>3. m \in Content(i)
      BY <2>1 DEF Content
    <3> QED BY <1>1, <3>1, <3>2, <3>3, AwayAnswered
  <2>3. CASE Finish(i, m, "confirmed") \/ Finish(i, m, "pushed")
    BY <1>1, <2>1, <2>3, AwayEnds
  <2> QED BY <1>4, <2>2, <2>3 DEF RespondBody
<1>5. CASE LateRespondBody(i, m)
  <2>1. pending' = [pending EXCEPT ![i] = IF m \in inFlight[i] THEN @ ELSE RemoveFirst(@, m)]
    BY <1>5 DEF LateRespondBody
  <2>2. CASE UNCHANGED << entry, fate >>
    <3>1. UNCHANGED pending \/ pending' = [pending EXCEPT ![i] = RemoveFirst(pending[i], m)]
      <4>1. pending \in [Instances -> Seq(Messages)]
        BY DEF TypeInv, TypeOK
      <4> QED BY <2>1, <4>1
    <3>2. \A j \in Instances : ToSet(pending'[j]) \subseteq ToSet(pending[j])
      BY <1>1, <3>1, LineShrinks
    <3> QED BY <2>2, <3>2, AwayKept
  <2>3. CASE KeepAnswer(i, m)
    <3>1. entry' = [entry EXCEPT ![m] = Answered(m)] /\ UNCHANGED fate
      BY <2>3 DEF KeepAnswer
    <3>2. m \in Content(i)
      BY <1>1, <1>5 DEF LateRespondBody, Reachable, Contains, Content, ToSet, TypeInv, TypeOK
    <3> QED BY <1>1, <2>1, <3>1, <3>2, AwayAnswered
  <2>4. CASE Finish(i, m, "pushed")
    BY <1>1, <2>1, <2>4, AwayEnds
  <2> QED BY <1>5, <2>2, <2>3, <2>4 DEF LateRespondBody
<1> QED BY <1>2, <1>3, <1>4, <1>5 DEF ConfirmLocked, RespondLocked, CollectLocked, RespondLateLocked

\* Await hands an answer over, or writes down who waits.
LEMMA AwayAwaited ==
  ASSUME TypeInv, TypeInv', AnswersAway, NEW t \in Threads, AwaitLocked(t)
  PROVE  AnswersAway'
<1> DEFINE i == op[t].inst
           m == op[t].msg
<1>1. i \in Instances /\ m \in Messages /\ entry \in [Messages -> Entries]
  BY CallType DEF AwaitLocked, At, Fits, InQueue, TypeInv, TypeOK
<1>2. CASE OnlyTracks(i)
  BY <1>2, AwayUnchanged DEF OnlyTracks, messageVars
<1>3. CASE AwaitBody(t, i, m) /\ Finish(i, m, "pushed")
  BY <1>1, <1>3, AwayEnds DEF AwaitBody
<1>4. CASE entry' = [entry EXCEPT ![m].replyTo = t] /\ UNCHANGED << pending, fate >>
  <2>1. \A x \in Messages : entry'[x].answered = entry[x].answered /\ entry'[x].owner = entry[x].owner
    <3>1. entry[m] \in Entries
      BY <1>1
    <3>2. entry'[m].answered = entry[m].answered /\ entry'[m].owner = entry[m].owner
      BY <1>1, <1>4, <3>1 DEF Entries
    <3> QED BY <1>1, <1>4, <3>2
  <2> QED BY <1>4, <2>1, AwayKept
<1> QED BY <1>2, <1>3, <1>4 DEF AwaitLocked, AwaitBody

\* Purge and the sweep of the dictionary forget what they end.
LEMMA AwayEnded ==
  ASSUME TypeInv, TypeInv', AnswersAway, NEW t \in Threads, PurgeLocked(t) \/ SweepLeaves(t)
  PROVE  AnswersAway'
<1> DEFINE i == op[t].inst
<1>1. i \in Instances
  BY CallType DEF PurgeLocked, SweepLeaves, At, Fits, InQueue
<1>2. PICK G : /\ entry' = [m \in Messages |-> IF m \in G THEN Blank ELSE entry[m]]
               /\ \A m \in Messages \ G : fate'[m] = fate[m]
               /\ UNCHANGED pending \/ pending' = [pending EXCEPT ![i] = <<>>]
  <2>1. CASE PurgeLocked(t)
    BY <2>1 DEF PurgeLocked, PurgeBody
  <2>2. CASE SweepLeaves(t)
    BY <2>2 DEF SweepLeaves, SweepInFlight
  <2> QED BY <2>1, <2>2
<1>3. \A j \in Instances : ToSet(pending'[j]) \subseteq ToSet(pending[j])
  BY <1>1, <1>2, LineShrinks
<1>4. \A x \in Messages : entry'[x].answered => entry'[x] = entry[x] /\ fate'[x] = fate[x]
  BY <1>2 DEF Blank
<1> QED BY <1>3, <1>4, AwayKept

\* Dispatch, Take and the sweep bury dead messages.
LEMMA AwayBuries ==
  ASSUME TypeInv, TypeInv', AnswersAway, NEW t \in Threads,
         DispatchBuries(t) \/ TakeBuries(t) \/ SweepBuries(t)
  PROVE  AnswersAway'
<1>1. op[t].inst \in Instances
  BY CallType DEF DispatchBuries, Looking, TakeBuries, SweepBuries, Fits, InQueue
<1>2. \E m : BuryPending(op[t].inst, m)
  BY DEF DispatchBuries, TakeBuries, BuryHead, SweepBuries, SweepPending
<1> QED BY <1>1, <1>2, AwayBuried

\* What is handed over is about a message that is over.
LEMMA AwayHanded ==
  ASSUME TypeInv, TypeInv', AnswersAway, NEW t \in Threads, HandOver(t)
  PROVE  AnswersAway'
<1> DEFINE d == Head(op[t].out)
<1>1. UNCHANGED << pending, entry >>
  BY DEF HandOver, queueVars
<1>2. CASE d.response
  <2>1. op[t].out \in Seq(Handed) /\ op[t].out # <<>>
    BY CallType DEF HandOver
  <2>2. 1 \in DOMAIN op[t].out /\ d = op[t].out[1]
    BY <2>1, HeadTailProperties
  <2>3. fate[d.msg] \in OverByPush
    BY <1>2, <2>2 DEF TypeInv, Places, AnswersOver
  <2>4. \A x \in Messages : x # d.msg => fate'[x] = fate[x]
    BY <1>2 DEF HandOver, Becomes, TypeInv, TypeOK
  <2>5. \A x \in Messages : entry[x].answered => fate'[x] = fate[x]
    BY <2>3, <2>4 DEF AnswersAway, OverByPush
  <2> QED BY <1>1, <2>5, AwayKept
<1>3. CASE ~d.response
  BY <1>1, <1>3, AwayUnchanged DEF HandOver
<1> QED BY <1>2, <1>3

\* A new queue has an empty line.
LEMMA AwayAdded ==
  ASSUME TypeInv, TypeInv', AnswersAway, NEW t \in Threads, AddQueue(t)
  PROVE  AnswersAway'
<1>1. UNCHANGED << entry, fate >>
  BY DEF AddQueue, messageVars
<1>2. \/ UNCHANGED pending
      \/ \E i \in Instances : pending' = [pending EXCEPT ![i] = <<>>]
  <2>1. CASE registry[op[t].name] # None
    BY <2>1 DEF AddQueue
  <2>2. CASE registry[op[t].name] = None
    BY <2>2 DEF AddQueue
  <2> QED BY <2>1, <2>2
<1>3. \A j \in Instances : ToSet(pending'[j]) \subseteq ToSet(pending[j])
  <2>1. CASE UNCHANGED pending
    BY <2>1
  <2>2. CASE \E i \in Instances : pending' = [pending EXCEPT ![i] = <<>>]
    BY <2>2, LineShrinks
  <2> QED BY <1>2, <2>1, <2>2
<1> QED BY <1>1, <1>3, AwayKept

-----------------------------------------------------------------------------
(* All the steps *)

\* The invariant holds before anybody called.
LEMMA TypeInit == Init => TypeInv /\ AnswersAway
<1> SUFFICES ASSUME Init PROVE TypeInv /\ AnswersAway
  OBVIOUS
<1>1. /\ <<>> \in Seq(Messages) /\ <<>> \in Seq(Consumers) /\ <<>> \in Seq(Names) /\ <<>> \in Seq(Letters)
      /\ ToSet(<<>>) = {} /\ IsInjective(<<>>)
  BY DEF ToSet, IsInjective
<1>2. op = [t \in Threads |-> Idle] /\ Idle \in Ops /\ ~Joins(Idle) /\ Idle.out = <<>>
  BY IdleFits DEF Init
<1>3. CallsFit
  BY <1>2, IdleFits DEF CallsFit
<1>4. OnePlaceEach
  BY <1>1 DEF Init, OnePlaceEach, Content
<1>5. JoinsOnce /\ AnswersOver
  BY <1>2 DEF JoinsOnce, AnswersOver
<1>6. TypeOK
  <2>1. "unborn" \in Fates
    BY DEF Fates
  <2> QED BY <1>1, <1>2, <2>1, BlankType, ValuesAssumption DEF Init, TypeOK, Never
<1>7. AnswersAway
  BY <1>1 DEF Init, AnswersAway, Blank
<1> QED BY <1>3, <1>4, <1>5, <1>6, <1>7 DEF TypeInv, Places

\* Whatever is asked keeps the types.
LEMMA StartTypes == ASSUME TypeInv, Start PROVE TypeInv'
<1>1. CASE \E t \in Consumers \union Callers, n \in Names, m \in Messages, k \in Kinds : Publish(t, n, m, k)
  BY <1>1, PublishType DEF Threads
<1>2. CASE \E c \in Consumers, n \in Names : Bind(c, n) \/ Unbind(c, n)
  BY <1>2, BindAsks
<1>3. CASE \E c \in Consumers, m \in Messages : Confirm(c, m) \/ Respond(c, m) \/ Await(c, m)
  BY <1>3, SettleAsks, MessageAsked DEF Threads
<1>4. CASE \E c \in Consumers : Disconnect(c)
  BY <1>4, DisconnectType
<1>5. CASE \E t \in Callers, n \in Names, keep \in BOOLEAN : Take(t, n, keep)
  BY <1>5, TakeAsks
<1>6. CASE \E t \in Callers, m \in Messages : RespondLate(t, m) \/ Collect(t, m)
  BY <1>6, MessageAsked DEF Threads
<1>7. CASE \E t \in Callers, n \in Names, o \in Options \union {None} : Configure(t, n, o)
  BY <1>7, ConfigureType DEF Threads
<1>8. CASE \E t \in Callers, n \in Names, paused \in BOOLEAN : SetPaused(t, n, paused)
  BY <1>8, SetPausedType DEF Threads
<1>9. CASE \E t \in Callers, n \in Names : Purge(t, n) \/ DiscardDeadLetters(t, n)
  BY <1>9, PurgeAsks, DiscardsType DEF Threads
<1>10. CASE \E t \in Callers, n \in Names, m, x \in Messages : Requeue(t, n, m, x)
  BY <1>10, RequeueType DEF Threads
<1>11. CASE \E t \in Callers, n \in Names, m \in Messages : DiscardDeadLetter(t, n, m)
  BY <1>11, DiscardsType DEF Threads
<1>12. CASE StartSweep(Sweeper)
  BY <1>12, StartSweepType DEF Threads
<1> QED
  BY <1>1, <1>2, <1>3, <1>4, <1>5, <1>6, <1>7, <1>8, <1>9, <1>10, <1>11, <1>12 DEF Start

\* Whatever a call does next keeps the types.
LEMMA StepTypes == ASSUME TypeInv, AnswersAway, NEW t \in Threads, Step(t) PROVE TypeInv'
<1>1. CASE Lookup(t) \/ ReadSettings(t) \/ AddQueue(t) \/ Unregister(t)
  BY <1>1, LookingUp, ReadingSettings, AddQueueType, UnregisterType
<1>2. CASE TryPublish(t) \/ BindLocked(t) \/ UnbindLocked(t)
  BY <1>2, TryPublishType, BindType, UnbindType
<1>3. CASE DispatchFinds(t) \/ ScanBusy(t) \/ DispatchLocked(t)
  BY <1>3, DispatchGoesOn
<1>4. CASE DispatchEnds(t) \/ ScanEnds(t) \/ DispatchBuries(t) \/ ScanAcquires(t)
  BY <1>4, DispatchEndsType, DispatchBuriesType, ScanAcquiresType
<1>5. CASE HandOver(t) \/ HandDone(t)
  BY <1>5, HandOverType, HandingDone
<1>6. CASE TakeEnters(t) \/ TakeBuries(t) \/ TakeReturns(t)
  BY <1>6, TakeEntersType, TakeBuriesType, TakeReturnsType
<1>7. CASE RespondLateLocked(t) \/ CollectLocked(t)
  BY <1>7, RespondLateType, CollectType
<1>8. CASE ConfirmLocked(t) \/ RespondLocked(t) \/ AwaitLocked(t)
  BY <1>8, ConfirmType, RespondType, AwaitType
<1>9. CASE Release(t) \/ Rotate(t) \/ FreeNext(t) \/ FreeEnds(t)
  BY <1>9, ReleaseType, Walking
<1>10. CASE LeaveNext(t) \/ LeaveLast(t) \/ AbandonLocked(t) \/ Complete(t)
  BY <1>10, Walking, Leaving, AbandonType, CompleteType
<1>11. CASE Reread(t) \/ AssignSettings(t) \/ PauseWrites(t) \/ PurgeLocked(t)
  BY <1>11, Administering, AssignSettingsType, ConfigureType, PurgeType
<1>12. CASE SweepNext(t) \/ SweepEnters(t) \/ SweepSkips(t)
  BY <1>12, Administering
<1>13. CASE SweepBuries(t) \/ SweepLeaves(t) \/ Retire(t) \/ SweepEnds(t)
  BY <1>13, SweepBuriesType, SweepLeavesType, RetireType, SweepEndsType
<1> QED
  BY <1>1, <1>2, <1>3, <1>4, <1>5, <1>6, <1>7, <1>8, <1>9, <1>10, <1>11, <1>12, <1>13 DEF Step

\* Whatever a call does next keeps the answers away from the lines.
LEMMA StepKeepsAnswersAway ==
  ASSUME TypeInv, TypeInv', AnswersAway, NEW t \in Threads, Step(t)
  PROVE  AnswersAway'
<1>1. CASE UNCHANGED << pending, entry, fate >>
  BY <1>1, AwayUnchanged
<1>2. CASE Lookup(t) \/ ReadSettings(t) \/ Unregister(t) \/ UnbindLocked(t) \/ BindLocked(t)
  BY <1>1, <1>2 DEF Lookup, ReadSettings, Unregister, UnbindLocked, BindLocked, AddConsumer, RemoveConsumer,
     bodyVars, messageVars, contentVars
<1>3. CASE DispatchFinds(t) \/ ScanBusy(t) \/ DispatchLocked(t) \/ DispatchEnds(t) \/ ScanEnds(t)
  BY <1>1, <1>3 DEF DispatchFinds, ScanBusy, DispatchLocked, DispatchEnds, ScanEnds, FinishDispatch, OnlyTracks,
     bodyVars, messageVars
<1>4. CASE HandDone(t) \/ TakeEnters(t) \/ Release(t) \/ Rotate(t) \/ FreeNext(t) \/ FreeEnds(t)
  BY <1>1, <1>4 DEF HandDone, TakeEnters, OnlyTracks, Release, Rotate, FreeNext, FreeEnds,
     bodyVars, messageVars, queueVars
<1>5. CASE LeaveNext(t) \/ LeaveLast(t) \/ Complete(t) \/ Reread(t) \/ AssignSettings(t) \/ PauseWrites(t)
  BY <1>1, <1>5 DEF LeaveNext, LeaveLast, Complete, Reread, AssignSettings, PauseWrites,
     bodyVars, messageVars, queueVars
<1>6. CASE SweepNext(t) \/ SweepEnters(t) \/ SweepSkips(t) \/ Retire(t) \/ SweepEnds(t)
  BY <1>1, <1>6 DEF SweepNext, SweepEnters, SweepSkips, Retire, SweepEnds, bodyVars, messageVars, queueVars
<1>7. CASE AddQueue(t) \/ TryPublish(t) \/ HandOver(t)
  BY <1>7, AwayAdded, AwayAccepted, AwayHanded
<1>8. CASE DispatchBuries(t) \/ TakeBuries(t) \/ SweepBuries(t)
  BY <1>8, AwayBuries
<1>9. CASE ScanAcquires(t) \/ TakeReturns(t)
  BY <1>9, AwayMoved
<1>10. CASE RespondLateLocked(t) \/ CollectLocked(t) \/ ConfirmLocked(t) \/ RespondLocked(t)
  BY <1>10, AwaySettled
<1>11. CASE AwaitLocked(t) \/ AbandonLocked(t)
  BY <1>11, AwayAwaited, AwayAbandoned
<1>12. CASE PurgeLocked(t) \/ SweepLeaves(t)
  BY <1>12, AwayEnded
<1> QED
  BY <1>2, <1>3, <1>4, <1>5, <1>6, <1>7, <1>8, <1>9, <1>10, <1>11, <1>12 DEF Step

\* Whatever is asked keeps the answers away from the lines.
LEMMA StartKeepsAnswersAway ==
  ASSUME TypeInv, TypeInv', AnswersAway, Start
  PROVE  AnswersAway'
<1>1. CASE UNCHANGED << pending, entry, fate >>
  BY <1>1, AwayUnchanged
<1>2. CASE \E t \in Consumers \union Callers, n \in Names, m \in Messages, k \in Kinds : Publish(t, n, m, k)
  BY <1>2, AwayBorn DEF Threads
<1>3. CASE \E t \in Callers, n \in Names, m, x \in Messages : Requeue(t, n, m, x)
  BY <1>3, AwayBorn DEF Threads
<1>4. CASE ~ \E t \in Consumers \union Callers, n \in Names, m \in Messages, k \in Kinds : Publish(t, n, m, k)
  <2> SUFFICES ASSUME ~ \E t \in Callers, n \in Names, m, x \in Messages : Requeue(t, n, m, x)
               PROVE  UNCHANGED << pending, entry, fate >>
    BY <1>1, <1>3
  <2> QED BY <1>4 DEF Start, Bind, Unbind, Confirm, Respond, Settle, Await, Disconnect, Take, RespondLate, Collect,
          Configure, SetPaused, Purge, DiscardDeadLetters, DiscardDeadLetter, Discard, StartSweep,
          bodyVars, messageVars, queueVars
<1> QED BY <1>2, <1>4

\* The invariant is inductive.
LEMMA TypeStep == TypeInv /\ AnswersAway /\ [Next]_vars => TypeInv' /\ AnswersAway'
<1> SUFFICES ASSUME TypeInv, AnswersAway, [Next]_vars PROVE TypeInv' /\ AnswersAway'
  OBVIOUS
<1>1. CASE Tick \/ UNCHANGED vars
  <2>1. UNCHANGED << pending, entry, fate >>
    BY <1>1 DEF Tick, vars, queueVars, messageVars
  <2> QED BY <1>1, <2>1, TickType, AwayUnchanged
<1>2. CASE Start
  BY <1>2, StartTypes, StartKeepsAnswersAway
<1>3. CASE \E t \in Threads : Step(t)
  BY <1>3, StepTypes, StepKeepsAnswersAway
<1> QED BY <1>1, <1>2, <1>3 DEF Next

\* Broker.cs, MessageQueue.cs, Consumer.cs, DeadLetterStore.cs: every variable keeps its
\* type, whatever the threads do between two steps of a call; the turn of the round robin
\* is that of a consumer that is still bound.
THEOREM TypesHold == Spec => []TypeOK
<1>1. Init => TypeInv /\ AnswersAway
  BY TypeInit
<1>2. TypeInv /\ AnswersAway /\ [Next]_vars => TypeInv' /\ AnswersAway'
  BY TypeStep
<1>3. TypeInv /\ AnswersAway => TypeOK
  BY DEF TypeInv
<1> QED BY <1>1, <1>2, <1>3, PTL DEF Spec

\* MessageQueue.cs: a message is in one queue, and there once, in the line or in the
\* dictionary; one that is over is in none.
THEOREM OnePlaceHolds == Spec => []OnePlaceEach
<1>1. Init => TypeInv /\ AnswersAway
  BY TypeInit
<1>2. TypeInv /\ AnswersAway /\ [Next]_vars => TypeInv' /\ AnswersAway'
  BY TypeStep
<1>3. TypeInv /\ AnswersAway => OnePlaceEach
  BY DEF TypeInv, Places
<1> QED BY <1>1, <1>2, <1>3, PTL DEF Spec
===============================================================================
