----------------------------- MODULE HolderProofs -----------------------------
(* A consumer and the message it holds, an answer and whoever waits for it: each is *)
(* written down in two places, under the lock of a queue and outside every lock,    *)
(* and the two agree after every step.                                              *)
EXTENDS QueueProofs, FiniteSetTheorems

-----------------------------------------------------------------------------
(* One message, one consumer *)

\* A message stays as it was, is one of several that end, or is the one that moves.
Rests(m) == /\ entry'[m] = entry[m] /\ fate'[m] = fate[m]
            /\ Lines(m)' = Lines(m) /\ Flights(m)' = Flights(m)

Ends(m) == /\ fate[m] = "live" /\ entry[m].owner = None
           /\ Lines(m)' = {} /\ Flights(m)' = {}
           /\ entry'[m] = Blank /\ fate'[m] \in Ended

MoveOf(m) ==
  \/ Rests(m) \/ Ends(m) \/ Born(m) \/ GoesOut(m) \/ IsHanded(m)
  \/ \E i \in Instances : Queued(m, i) \/ PutAside(m, i) \/ IsKept(m, i) \/ \E c \in Consumers : Given(m, i, c)
  \/ \E c \in Consumers : LetsGo(c, m) \/ AskedFor(m, c)

\* What a move is for one message.
LEMMA MoveOfOne ==
  ASSUME Move, NEW m \in Messages
  PROVE  MoveOf(m)
<1>1. ASSUME NEW M, Elsewhere(M), m \notin M
      PROVE  MoveOf(m)
  BY <1>1 DEF Elsewhere, MoveOf, Rests
<1>2. CASE Stays \/ \E c \in Consumers : Freed(c) \/ Closes(c)
  BY <1>1, <1>2 DEF Stays, Freed, Closes
<1>3. ASSUME NEW x \in Messages, x # m, \E l, f, e, g : Goes(x, l, f, e, g)
      PROVE  MoveOf(m)
  BY <1>1, <1>3 DEF Goes
<1>4. CASE \E c \in Consumers, x \in Messages : LetsGo(c, x) \/ AskedFor(x, c)
  <2>1. PICK c \in Consumers, x \in Messages : LetsGo(c, x) \/ AskedFor(x, c)
    BY <1>4
  <2>2. CASE x = m
    BY <2>1, <2>2 DEF MoveOf
  <2>3. CASE x # m
    BY <1>3, <2>1, <2>3 DEF LetsGo, AskedFor
  <2> QED BY <2>2, <2>3
<1>5. CASE \E x \in Messages : Born(x) \/ GoesOut(x) \/ IsHanded(x)
  BY <1>3, <1>5 DEF Born, GoesOut, IsHanded, MoveOf
<1>6. CASE \E x \in Messages, i \in Instances :
             Queued(x, i) \/ PutAside(x, i) \/ IsKept(x, i) \/ \E c \in Consumers : Given(x, i, c)
  <2>1. PICK x \in Messages, i \in Instances :
             Queued(x, i) \/ PutAside(x, i) \/ IsKept(x, i) \/ \E c \in Consumers : Given(x, i, c)
    BY <1>6
  <2>2. CASE x = m
    BY <2>1, <2>2 DEF MoveOf
  <2>3. CASE x # m
    BY <1>3, <2>1, <2>3 DEF Queued, PutAside, IsKept, Given
  <2> QED BY <2>2, <2>3
<1>7. CASE \E M \in SUBSET Messages : End(M)
  BY <1>1, <1>7 DEF End, MoveOf, Ends
<1> QED BY <1>2, <1>4, <1>5, <1>6, <1>7 DEF Move

\* What a move is for one consumer.
LEMMA MoveOfConsumer ==
  ASSUME TypeInv, Move, NEW c \in Consumers
  PROVE  \/ /\ current'[c] = current[c]
            /\ \/ cstate'[c] \in {cstate[c], "closed"}
               \/ op[c].pc = "release" /\ op'[c].pc = "rotate" /\ cstate[c] = "busy" /\ cstate'[c] = "free"
         \/ \E m \in Messages : LetsGo(c, m)
         \/ \E m \in Messages, i \in Instances : Given(m, i, c)
<1>0. cstate \in [Consumers -> {"free", "busy", "closed"}] /\ current \in [Consumers -> [home : Names, msg : Messages] \union {None}]
  BY DEF TypeInv, TypeOK
<1>1. CASE SameConsumers
  BY <1>1 DEF SameConsumers
<1>2. ASSUME NEW d \in Consumers, Freed(d) \/ Closes(d)
      PROVE  /\ current'[c] = current[c]
             /\ \/ cstate'[c] \in {cstate[c], "closed"}
                \/ op[c].pc = "release" /\ op'[c].pc = "rotate" /\ cstate[c] = "busy" /\ cstate'[c] = "free"
  BY <1>0, <1>2 DEF Freed, Closes
<1>3. ASSUME NEW d \in Consumers, NEW m \in Messages, LetsGo(d, m), d # c
      PROVE  current'[c] = current[c] /\ cstate'[c] = cstate[c]
  BY <1>0, <1>3 DEF LetsGo
<1>4. ASSUME NEW d \in Consumers, NEW m \in Messages, NEW i \in Instances, Given(m, i, d), d # c
      PROVE  current'[c] = current[c] /\ cstate'[c] = cstate[c]
  BY <1>0, <1>4 DEF Given
<1> QED BY <1>1, <1>2, <1>3, <1>4 DEF Move, Stays, AskedFor, Born, GoesOut, IsHanded, Queued, PutAside, IsKept, End

-----------------------------------------------------------------------------
(* A live message is somewhere *)

LiveSomewhere == \A m \in Messages : fate[m] = "live" => Lines(m) \union Flights(m) # {}

\* No move loses a message.
LEMMA NothingIsLost ==
  ASSUME LiveSomewhere, Move
  PROVE  LiveSomewhere'
<1> SUFFICES ASSUME NEW m \in Messages, fate'[m] = "live"
             PROVE  Lines(m)' \union Flights(m)' # {}
  BY DEF LiveSomewhere
<1>1. MoveOf(m)
  BY MoveOfOne
<1>2. CASE Rests(m) \/ Ends(m) \/ Born(m) \/ GoesOut(m) \/ IsHanded(m)
  BY <1>2 DEF LiveSomewhere, Rests, Ends, Ended, Born, GoesOut, IsHanded, Goes
<1>3. CASE \E i \in Instances : Queued(m, i) \/ PutAside(m, i) \/ IsKept(m, i) \/ \E c \in Consumers : Given(m, i, c)
  BY <1>3 DEF Queued, PutAside, IsKept, Given, Goes
<1>4. CASE \E c \in Consumers : LetsGo(c, m) \/ AskedFor(m, c)
  BY <1>4 DEF LiveSomewhere, LetsGo, AskedFor, Goes
<1> QED BY <1>1, <1>2, <1>3, <1>4 DEF MoveOf

-----------------------------------------------------------------------------
(* Who holds a message *)

\* A message gets an owner when it is given, and loses it when the owner lets go.
LEMMA OwnerMoves ==
  ASSUME MessageInv, Move, NEW m \in Messages
  PROVE  \/ /\ entry'[m].owner = entry[m].owner
            /\ entry[m].owner # None => entry'[m].home = entry[m].home /\ Flights(m)' = Flights(m)
                                        /\ fate[m] = "live" /\ fate'[m] = "live"
         \/ \E i \in Instances, c \in Consumers : Given(m, i, c)
         \/ \E c \in Consumers : LetsGo(c, m)
<1>0. /\ entry[m] \in Entries /\ Blank.owner = None
      /\ (fate[m] # "live" \/ Flights(m) = {}) => entry[m].owner = None
  BY MessageTypes, NowhereUnlessLive DEF OwnedAway, Blank
<1>1. CASE Rests(m) \/ Ends(m) \/ Born(m) \/ GoesOut(m) \/ IsHanded(m)
  BY <1>0, <1>1 DEF Rests, Ends, Born, GoesOut, IsHanded, Goes, OverByPush
<1>2. ASSUME NEW i \in Instances, Queued(m, i) \/ PutAside(m, i) \/ IsKept(m, i)
      PROVE  entry'[m].owner = None /\ entry[m].owner = None
  <2>1. [entry[m] EXCEPT !.born = now].owner = entry[m].owner /\ Answered(m).owner = None
    BY <1>0 DEF Answered, Entries
  <2>2. Queued(m, i) => Lines(m) = {} /\ Flights(m) = {}
    BY MessageTypes, NowhereUnlessLive DEF Queued
  <2>3. PutAside(m, i) => entry[m].owner = None
    <3>1. Lines(m) = {i} => m \in ToSet(pending[i])
      BY DEF Lines, InLine
    <3> QED BY <3>1, OfLine DEF PutAside
  <2> QED BY <1>0, <1>2, <2>1, <2>2, <2>3 DEF Queued, PutAside, IsKept, Goes
<1>3. ASSUME NEW c \in Consumers, AskedFor(m, c)
      PROVE  /\ entry'[m].owner = entry[m].owner /\ entry'[m].home = entry[m].home
             /\ Flights(m)' = Flights(m) /\ fate[m] = "live" /\ fate'[m] = "live"
  BY <1>0, <1>3 DEF AskedFor, Goes, Entries
<1> QED BY MoveOfOne, <1>1, <1>2, <1>3 DEF MoveOf

\* What a consumer has not confirmed is what is assigned to it.
Holding(c) ==
  /\ \A m \in Messages : entry[m].owner = c => current[c] = [home |-> entry[m].home, msg |-> m]
  /\ current[c] # None => entry[current[c].msg].owner = c

\* A free consumer holds nothing; neither does one that is about to be free.
ToBeFreed(c) == \/ op[c].pc = "release"
                \/ op[c].pc = "hand" /\ op[c].kind = "respond"

FreeOfIt(c) ==
  /\ cstate[c] = "free" => current[c] = None
  /\ ToBeFreed(c) => current[c] = None /\ cstate[c] # "free"

HolderInv == \A c \in Consumers : Holding(c) /\ FreeOfIt(c)

\* A message that is owned is live, and has a name.
LEMMA OwnedHome ==
  ASSUME MessageInv, NEW m \in Messages, entry[m].owner # None
  PROVE  fate[m] = "live" /\ entry[m].home \in Names
  BY MessageTypes, NowhereUnlessLive, HomeOfLive DEF OwnedAway

\* Giving a message and letting go of one are seen in the owner and in Current at once.
LEMMA HoldingStep ==
  ASSUME MessageInv, HolderInv, Move, NEW c \in Consumers
  PROVE  Holding(c)'
<1>0. /\ entry \in [Messages -> Entries] /\ Blank.owner = None /\ c # None
      /\ current \in [Consumers -> [home : Names, msg : Messages] \union {None}]
      /\ cstate \in [Consumers -> {"free", "busy", "closed"}]
      /\ Holding(c) /\ FreeOfIt(c)
  BY MessageTypes, ThreadsAssumption DEF Blank, HolderInv, Threads
<1>1. ASSUME NEW m \in Messages, NEW i \in Instances, NEW d \in Consumers, Given(m, i, d)
      PROVE  /\ current'[d] = [home |-> entry[m].home, msg |-> m] /\ cstate[d] = "free"
             /\ entry'[m].owner = d /\ entry'[m].home = entry[m].home /\ entry[m].owner = None
             /\ \A x \in Messages \ {m} : entry'[x] = entry[x]
  <2>1. m \in ToSet(pending[i])
    BY <1>1 DEF Given, Lines, InLine
  <2> QED BY <1>0, <1>1, <2>1, OfLine DEF Given, Goes, Elsewhere, Entries
<1>2. ASSUME NEW m \in Messages, NEW d \in Consumers, LetsGo(d, m)
      PROVE  /\ current'[d] = None /\ entry[m].owner = d /\ entry'[m].owner = None
             /\ \A x \in Messages \ {m} : entry'[x] = entry[x]
  <2>1. Answered(m).owner = None /\ [entry[m] EXCEPT !.owner = None].owner = None
    BY <1>0 DEF Answered, Entries
  <2> QED BY <1>0, <1>2, <2>1 DEF LetsGo, Goes, Elsewhere
<1>3. CASE current'[c] = current[c]
  <2>1. \A m \in Messages : /\ entry'[m].owner = c <=> entry[m].owner = c
                            /\ entry[m].owner = c => entry'[m].home = entry[m].home
    <3> SUFFICES ASSUME NEW m \in Messages
                 PROVE  /\ entry'[m].owner = c <=> entry[m].owner = c
                        /\ entry[m].owner = c => entry'[m].home = entry[m].home
      OBVIOUS
    <3>1. CASE \E i \in Instances, d \in Consumers : Given(m, i, d)
      <4>1. PICK i \in Instances, d \in Consumers : Given(m, i, d)
        BY <3>1
      <4>2. entry[m].owner = None /\ entry'[m].owner = d /\ entry'[m].home = entry[m].home
        <5>1. m \in ToSet(pending[i])
          BY <4>1 DEF Given, Lines, InLine
        <5>2. entry'[m] = [entry[m] EXCEPT !.owner = d]
          BY <4>1 DEF Given, Goes
        <5> QED BY <1>0, <5>1, <5>2, OfLine DEF Entries
      <4>3. d # c
        <5>1. d = c => current[c] = None /\ current'[c] = [home |-> entry[m].home, msg |-> m]
          BY <1>0, <1>1, <4>1 DEF FreeOfIt
        <5>2. entry[m].home \in Names
          BY <4>1, HomeOfLive, MessageTypes DEF Given
        <5> QED BY <1>3, <5>1, <5>2, NoneAssumption
      <4> QED BY <1>0, <4>2, <4>3
    <3>2. CASE \E d \in Consumers : LetsGo(d, m)
      <4>1. PICK d \in Consumers : LetsGo(d, m)
        BY <3>2
      <4>2. entry[m].owner = d /\ entry'[m].owner = None /\ (d = c => current'[c] = None)
        BY <1>2, <4>1
      <4>3. d # c
        <5>1. d = c => current[c] = [home |-> entry[m].home, msg |-> m] /\ entry[m].home \in Names
          BY <1>0, <4>2, OwnedHome DEF Holding
        <5> QED BY <1>3, <4>2, <5>1, NoneAssumption
      <4> QED BY <1>0, <4>2, <4>3
    <3> QED BY <1>0, <3>1, <3>2, OwnerMoves
  <2>2. current[c] # None => current[c].msg \in Messages
    BY <1>0
  <2> QED BY <1>0, <1>3, <2>1, <2>2 DEF Holding
<1>4. ASSUME NEW m \in Messages, NEW i \in Instances, Given(m, i, c)
      PROVE  Holding(c)'
  <2>1. /\ current'[c] = [home |-> entry[m].home, msg |-> m] /\ current[c] = None
        /\ entry'[m].owner = c /\ entry'[m].home = entry[m].home
        /\ \A x \in Messages \ {m} : entry'[x] = entry[x]
    BY <1>0, <1>1, <1>4 DEF FreeOfIt
  <2>2. \A x \in Messages : entry[x].owner # c
    <3> SUFFICES ASSUME NEW x \in Messages, entry[x].owner = c
                 PROVE  FALSE
      OBVIOUS
    <3>1. current[c] = [home |-> entry[x].home, msg |-> x] /\ entry[x].home \in Names
      BY <1>0, OwnedHome DEF Holding
    <3> QED BY <2>1, <3>1, NoneAssumption
  <2> QED BY <2>1, <2>2 DEF Holding
<1>5. ASSUME NEW m \in Messages, LetsGo(c, m)
      PROVE  Holding(c)'
  BY <1>0, <1>2, <1>5 DEF Holding
<1> QED BY <1>3, <1>4, <1>5, MoveOfConsumer, MessageTypes


\* A call comes to free its consumer by confirming or answering what that consumer holds.
LEMMA FreedBy ==
  ASSUME TypeInv, NEW c \in Consumers, Step(c), Course(c), ToBeFreed(c)'
  PROVE  \/ ToBeFreed(c) /\ current' = current /\ cstate' = cstate
         \/ \E i \in Instances : /\ op[c].msg \in Messages /\ Owns(c, i, op[c].msg)
                                 /\ current'[c] = None /\ cstate' = cstate
<1>0. op \in [Threads -> Ops] /\ op[c] \in Ops /\ Fits(c, op[c]) /\ op[c].kind \in Calls /\ c \in Threads
      /\ current \in [Consumers -> [home : Names, msg : Messages] \union {None}]
  BY CallType DEF Threads, TypeInv, TypeOK
<1>1. op'[c].kind \in {"confirm", "respond"} /\ op[c].kind = op'[c].kind
  <2>1. Course(c)' /\ op'[c].kind \in Calls
    BY <1>0, StepCourse, KindKeeps DEF Calls
  <2>2. op'[c].kind \in {"confirm", "respond"}
    BY <2>1 DEF ToBeFreed, Course, Way, Dispatching, Calls
  <2> QED BY <2>2, KindKeeps, <1>0
<1>2. CASE HandOver(c) \/ HandDone(c)
  <2>1. op[c].pc = "hand" /\ current' = current /\ cstate' = cstate
    BY <1>2 DEF HandOver, HandDone, consumerVars, bodyVars
  <2> QED BY <1>1, <2>1 DEF ToBeFreed, Course, Way
<1>3. CASE ConfirmLocked(c) \/ RespondLocked(c)
  <2>0. PICK i, m : i = op[c].inst /\ m = op[c].msg
    OBVIOUS
  <2>1. op[c].pc = "gate" /\ op[c].kind \in {"confirm", "respond"} /\ i \in Instances /\ m \in Messages
    BY <1>0, <1>3, <2>0 DEF ConfirmLocked, RespondLocked, At, Fits, InQueue
  <2>2. CASE ConfirmBody(c, i, m) \/ RespondBody(c, i, m)
    BY <1>0, <2>0, <2>1, <2>2 DEF ConfirmBody, RespondBody
  <2>3. CASE Return(c)
    BY <1>0, <2>3 DEF Return, Idle, ToBeFreed
  <2> QED BY <1>3, <2>0, <2>2, <2>3 DEF ConfirmLocked, RespondLocked
<1>4. CASE Release(c) \/ Rotate(c)
  <2>1. Release(c) => op'[c].pc = "rotate"
    BY <1>0 DEF Release, Goto, Ops
  <2>2. Rotate(c) => op[c].pc = "rotate" /\ op'[c].kind = "free"
    <3>1. ASSUME Rotate(c) PROVE op'[c].kind = "free"
      <4>1. PICK q : op' = [op EXCEPT ![c] = [Idle EXCEPT !.pc = "freeing", !.kind = "free", !.todo = q]]
        BY <3>1 DEF Rotate
      <4> QED BY <1>0, <4>1 DEF Idle
    <3> QED BY <3>1 DEF Rotate
  <2> QED BY <1>1, <1>4, <2>1, <2>2 DEF ToBeFreed
<1>5. op[c].pc \in {"gate", "hand", "release", "rotate"}
  BY <1>1 DEF Course, Way
<1> QED BY <1>0, <1>1, <1>2, <1>3, <1>4, <1>5, StepByPlace

\* A consumer that is free, or about to be, is given nothing before it is free.
LEMMA FreeStep ==
  ASSUME MessageInv, HolderInv, \A t \in Threads : Course(t), [Next]_vars, NEW c \in Consumers
  PROVE  FreeOfIt(c)'
<1>0. /\ TypeInv /\ Move /\ Holding(c) /\ FreeOfIt(c) /\ c \in Threads /\ Course(c) /\ c # None
      /\ cstate \in [Consumers -> {"free", "busy", "closed"}]
  BY MoveStep, MessageTypes, ThreadsAssumption DEF HolderInv, Threads
<1>1. cstate'[c] = "free" => current'[c] = None
  <2>1. CASE \E m \in Messages : LetsGo(c, m)
    BY <1>0, <2>1, MessageTypes DEF LetsGo
  <2>2. CASE \E m \in Messages, i \in Instances : Given(m, i, c)
    BY <1>0, <2>2 DEF Given
  <2> QED BY <1>0, <2>1, <2>2, MoveOfConsumer DEF FreeOfIt, ToBeFreed
<1>2. ASSUME op'[c] = op[c], ToBeFreed(c)'
      PROVE  current'[c] = None /\ cstate'[c] # "free"
  <2>1. ToBeFreed(c) /\ current[c] = None /\ cstate[c] # "free"
    BY <1>0, <1>2 DEF ToBeFreed, FreeOfIt
  <2>2. ~ \E m \in Messages : LetsGo(c, m)
    BY <1>2 DEF LetsGo
  <2>3. ~ \E m \in Messages, i \in Instances : Given(m, i, c)
    BY <2>1 DEF Given
  <2> QED BY <1>0, <1>2, <2>1, <2>2, <2>3, MoveOfConsumer
<1>3. ASSUME Step(c), ToBeFreed(c)'
      PROVE  current'[c] = None /\ cstate'[c] # "free"
  <2>1. CASE ToBeFreed(c) /\ current' = current /\ cstate' = cstate
    BY <1>0, <2>1 DEF FreeOfIt
  <2>2. ASSUME NEW i \in Instances, op[c].msg \in Messages, Owns(c, i, op[c].msg), current'[c] = None, cstate' = cstate
        PROVE  cstate'[c] # "free"
    <3>1. current[c] = [home |-> entry[op[c].msg].home, msg |-> op[c].msg] /\ entry[op[c].msg].home \in Names
      BY <1>0, <2>2, OwnedHome DEF Holding, Owns
    <3> QED BY <1>0, <2>2, <3>1, NoneAssumption DEF FreeOfIt
  <2> QED BY <1>0, <1>3, <2>1, <2>2, FreedBy
<1>4. ASSUME ToBeFreed(c)'
      PROVE  op'[c] = op[c] \/ Step(c)
  <2>1. CASE Start
    <3>1. ASSUME NEW u \in Threads, Starts(u)
          PROVE  op'[c] = op[c]
      <4>1. u = c => ~ToBeFreed(c)'
        BY <3>1 DEF Starts, Begins, GoesTo, ToBeFreed, Idle
      <4> QED BY <1>0, <1>4, <3>1, <4>1 DEF Starts, OthersWait
    <3> QED BY <1>0, <2>1, <3>1, StartOfOne
  <2>2. CASE Tick \/ UNCHANGED vars
    BY <2>2 DEF Tick, vars
  <2>3. ASSUME NEW u \in Threads, Step(u)
        PROVE  op'[c] = op[c] \/ Step(c)
    BY <1>0, <2>3, StepOfOne DEF OthersWait
  <2> QED BY <2>1, <2>2, <2>3 DEF Next
<1> QED BY <1>1, <1>2, <1>3, <1>4 DEF FreeOfIt


-----------------------------------------------------------------------------
(* An answer and whoever waits for it *)

\* An answer that is kept is kept because nobody waits for it.
AnswersSettled == \A m \in Messages : entry[m].answered => ~SomebodyWaits(entry[m].replyTo)

\* A connection that is closed does not come back.
LEMMA NobodyComesBack ==
  ASSUME TypeInv, Move, NEW r \in Consumers \union {None}, SomebodyWaits(r)'
  PROVE  SomebodyWaits(r)
<1>1. r \in Consumers /\ cstate'[r] # "closed" /\ r # None
  BY DEF SomebodyWaits
<1>2. \A m \in Messages : LetsGo(r, m) => cstate'[r] = cstate[r]
  BY DEF LetsGo
<1>3. \A m \in Messages, i \in Instances : Given(m, i, r) => cstate[r] = "free"
  BY DEF Given
<1> QED BY <1>1, <1>2, <1>3, MoveOfConsumer DEF SomebodyWaits

\* Whatever a step does to a message, an answer that stays is one nobody waits for.
LEMMA SettledStep ==
  ASSUME MessageInv, AnswersSettled, Move
  PROVE  AnswersSettled'
<1> SUFFICES ASSUME NEW m \in Messages, entry'[m].answered
             PROVE  ~SomebodyWaits(entry[m].replyTo)'
  BY DEF AnswersSettled
<1>0. /\ entry[m] \in Entries /\ Blank.answered = FALSE /\ (entry[m].answered => ~SomebodyWaits(entry[m].replyTo))
  BY MessageTypes DEF AnswersSettled, Blank
<1>1. ASSUME NEW r \in Consumers \union {None}, ~SomebodyWaits(r), entry'[m].replyTo = r
      PROVE  ~SomebodyWaits(entry[m].replyTo)'
  <2>1. ~SomebodyWaits(r)'
    BY <1>1, NobodyComesBack, MessageTypes
  <2> QED BY <1>1, <2>1 DEF SomebodyWaits
<1>2. entry[m].replyTo \in Consumers \union {None}
  BY <1>0 DEF Entries
<1>3. /\ Answered(m).replyTo = entry[m].replyTo
      /\ [entry[m] EXCEPT !.born = now].replyTo = entry[m].replyTo
      /\ [entry[m] EXCEPT !.born = now].answered = entry[m].answered
      /\ [entry[m] EXCEPT !.owner = None].replyTo = entry[m].replyTo
      /\ [entry[m] EXCEPT !.owner = None].answered = entry[m].answered
      /\ \A c : /\ [entry[m] EXCEPT !.replyTo = c].replyTo = c
                /\ [entry[m] EXCEPT !.replyTo = c].answered = entry[m].answered
  BY <1>0 DEF Answered, Entries
<1>4. CASE Rests(m) \/ Ends(m) \/ Born(m) \/ GoesOut(m) \/ IsHanded(m)
  <2>1. entry'[m] = entry[m]
    BY <1>0, <1>4 DEF Rests, Ends, Born, GoesOut, IsHanded, Goes
  <2> QED BY <1>0, <1>1, <1>2, <2>1
<1>5. ASSUME NEW i \in Instances, Queued(m, i) \/ PutAside(m, i) \/ IsKept(m, i)
      PROVE  ~SomebodyWaits(entry[m].replyTo)'
  <2>1. entry'[m].replyTo = entry[m].replyTo /\ ~SomebodyWaits(entry[m].replyTo)
    <3>1. CASE Queued(m, i)
      BY <1>0, <1>3, <3>1 DEF Queued, Goes
    <3>2. CASE PutAside(m, i)
      BY <1>0, <1>3, <3>2 DEF PutAside, Goes
    <3>3. CASE IsKept(m, i)
      BY <1>3, <3>3 DEF IsKept, Goes
    <3> QED BY <1>5, <3>1, <3>2, <3>3
  <2> QED BY <1>1, <1>2, <2>1
<1>6. ASSUME NEW c \in Consumers, AskedFor(m, c) \/ (\E i \in Instances : Given(m, i, c)) \/ LetsGo(c, m)
      PROVE  ~SomebodyWaits(entry[m].replyTo)'
  <2>1. CASE AskedFor(m, c)
    <3>1. entry'[m].replyTo = c /\ entry'[m].answered = entry[m].answered
      BY <1>3, <2>1 DEF AskedFor, Goes
    <3> QED BY <1>1, <2>1, <3>1 DEF AskedFor
  <2>2. CASE \E i \in Instances : Given(m, i, c)
    <3>1. entry'[m] = [entry[m] EXCEPT !.owner = c]
      BY <2>2 DEF Given, Goes
    <3>2. entry'[m].replyTo = entry[m].replyTo /\ entry'[m].answered = entry[m].answered
      BY <1>0, <3>1 DEF Entries
    <3> QED BY <1>0, <1>1, <1>2, <3>2
  <2>3. CASE LetsGo(c, m)
    <3>1. entry'[m].replyTo = entry[m].replyTo /\ ~SomebodyWaits(entry[m].replyTo)
      <4>1. \/ entry'[m] = Blank
            \/ entry'[m] = Answered(m) /\ ~SomebodyWaits(entry[m].replyTo)
            \/ entry'[m] = [entry[m] EXCEPT !.owner = None]
        BY <2>3 DEF LetsGo, Goes
      <4> QED BY <1>0, <1>3, <4>1
    <3> QED BY <1>1, <1>2, <3>1
  <2> QED BY <1>6, <2>1, <2>2, <2>3
<1> QED BY MoveOfOne, <1>4, <1>5, <1>6 DEF MoveOf


-----------------------------------------------------------------------------
(* The invariant, and what it says of holders, answers and messages *)

HeldInv == /\ FoundInv /\ (\A t \in Threads : Course(t))
           /\ LiveSomewhere /\ HolderInv /\ AnswersSettled

\* The invariant holds before anybody called.
LEMMA HeldInit == Init => HeldInv
<1> SUFFICES ASSUME Init PROVE HeldInv
  OBVIOUS
<1>1. /\ \A m \in Messages : entry[m] = Blank /\ fate[m] = "unborn"
      /\ \A c \in Consumers : current[c] = None
      /\ \A t \in Threads : op[t] = Idle
  BY DEF Init
<1>2. \A t \in Threads : Course(t)
  BY <1>1 DEF Course, Idle, Way, Whose
<1>3. LiveSomewhere /\ AnswersSettled
  BY <1>1 DEF LiveSomewhere, AnswersSettled, Blank
<1>4. HolderInv
  <2> SUFFICES ASSUME NEW c \in Consumers PROVE Holding(c) /\ FreeOfIt(c)
    BY DEF HolderInv
  <2>1. c # None /\ c \in Threads
    BY ThreadsAssumption DEF Threads
  <2> QED BY <1>1, <2>1 DEF Holding, FreeOfIt, ToBeFreed, Blank, Idle
<1> QED BY <1>2, <1>3, <1>4, FoundInit DEF HeldInv

\* Every step keeps it.
LEMMA HeldStep == HeldInv /\ [Next]_vars => HeldInv'
<1> SUFFICES ASSUME HeldInv, [Next]_vars PROVE HeldInv'
  OBVIOUS
<1>1. FoundInv /\ MessageInv /\ TypeInv /\ Move
  BY MoveStep, MessageTypes DEF HeldInv, FoundInv
<1>2. FoundInv' /\ (\A t \in Threads : Course(t)')
  BY <1>1, FoundStep, CourseStep DEF HeldInv
<1>3. LiveSomewhere' /\ AnswersSettled'
  BY <1>1, NothingIsLost, SettledStep DEF HeldInv
<1>4. HolderInv'
  BY <1>1, HoldingStep, FreeStep DEF HeldInv, HolderInv
<1> QED BY <1>2, <1>3, <1>4 DEF HeldInv

\* What a consumer holds is the message it has not confirmed.
LEMMA HeldIsCurrent ==
  ASSUME HeldInv, NEW c \in Consumers
  PROVE  Held(c) = (IF current[c] = None THEN {} ELSE { current[c].msg })
<1>0. /\ MessageInv /\ Holding(c) /\ c # None /\ OwnedAway
      /\ current[c] \in [home : Names, msg : Messages] \union {None}
  BY MessageTypes, ThreadsAssumption DEF HeldInv, FoundInv, HolderInv, Threads
<1>1. \A m \in Messages : m \in Held(c) <=> entry[m].owner = c
  BY <1>0 DEF Held, OwnedAway, Flights, InAir
<1>2. ASSUME NEW m \in Held(c)
      PROVE  current[c] # None /\ current[c].msg = m
  <2>1. m \in Messages /\ entry[m].owner = c
    BY <1>1 DEF Held
  <2>2. current[c] = [home |-> entry[m].home, msg |-> m] /\ entry[m].home \in Names
    BY <1>0, <2>1, OwnedHome DEF Holding
  <2> QED BY <2>1, <2>2, NoneAssumption
<1>3. current[c] # None => current[c].msg \in Held(c)
  BY <1>0, <1>1 DEF Holding
<1> QED BY <1>2, <1>3

\* Consumer.cs: a consumer "holds at most one unconfirmed message at a time, whatever the
\* number of queues it is bound to", and Current says which.
THEOREM OneAtATime == Spec => []OneUnconfirmedMessage
<1>1. HeldInv => OneUnconfirmedMessage
  BY HeldIsCurrent DEF OneUnconfirmedMessage
<1> QED BY HeldInit, HeldStep, <1>1, PTL DEF Spec

\* MessageQueue.cs, PushResponse, Await and Respond: an answer stays in the queue only while
\* nobody waits for it on a live connection.
THEOREM AnswersReachWaiters == Spec => []NoAnswerIsKeptFromAWaiter
<1>1. HeldInv => NoAnswerIsKeptFromAWaiter
  <2> SUFFICES ASSUME HeldInv PROVE NoAnswerIsKeptFromAWaiter
    OBVIOUS
  <2>1. AnswersSettled /\ \A i \in Instances : inFlight[i] \subseteq Messages
    BY MessageTypes DEF HeldInv, FoundInv
  <2> QED BY <2>1 DEF NoAnswerIsKeptFromAWaiter, AnswersSettled
<1> QED BY HeldInit, HeldStep, <1>1, PTL DEF Spec

\* MessageQueue.cs: no sweep, no answer of a 1.x client, no purge and no other connection
\* takes a message away from the consumer that holds it.
THEOREM HoldersLetGo == Spec => OnlyTheHolderLetsGo
<1> DEFINE Step1 == \A c \in Consumers : \A m \in Held(c) :
                      m \notin Held(c)' => /\ op[c].msg = m
                                           /\ op[c].kind \in {"confirm", "respond", "abandon"}
                                           /\ op'[c] # op[c]
<1>1. HeldInv /\ [Next]_vars => Step1
  <2> SUFFICES ASSUME HeldInv, [Next]_vars, NEW c \in Consumers, NEW m \in Held(c), m \notin Held(c)'
               PROVE  /\ op[c].msg = m
                      /\ op[c].kind \in {"confirm", "respond", "abandon"}
                      /\ op'[c] # op[c]
    OBVIOUS
  <2>1. MessageInv /\ Move /\ m \in Messages /\ entry[m].owner = c /\ c # None /\ Flights(m) # {}
    BY MoveStep, ThreadsAssumption DEF HeldInv, FoundInv, Held, Threads, Flights, InAir
  <2>2. ~(entry'[m].owner = c /\ Flights(m)' # {})
    BY <2>1 DEF Held, Flights, InAir
  <2>3. ~ \E i \in Instances, d \in Consumers : Given(m, i, d)
    <3>1. ASSUME NEW i \in Instances, NEW d \in Consumers, Given(m, i, d)
          PROVE  entry[m].owner = None
      <4>1. m \in ToSet(pending[i])
        BY <3>1 DEF Given, Lines, InLine
      <4> QED BY <2>1, <4>1, OfLine
    <3> QED BY <2>1, <3>1
  <2>4. PICK d \in Consumers : LetsGo(d, m)
    BY <2>1, <2>2, <2>3, OwnerMoves
  <2> QED BY <2>1, <2>4 DEF LetsGo
<1>2. HeldInv /\ [Next]_vars => [Step1]_vars
  BY <1>1
<1> HIDE DEF Step1
<1>3. Spec => [][Step1]_vars
  BY HeldInit, HeldStep, <1>2, PTL DEF Spec
<1> QED BY <1>3 DEF Step1, OnlyTheHolderLetsGo


\* MessageQueue.cs: a message that is live is in one queue, there in the line once or in
\* the dictionary; one that is not yet, or no more, is in none.
THEOREM InOnePlaceAlways == Spec => []InOnePlace
<1>1. HeldInv => InOnePlace
  <2> SUFFICES ASSUME HeldInv PROVE InOnePlace
    OBVIOUS
  <2> DEFINE lines(m)   == UNION { {i} \X { k \in DOMAIN pending[i] : pending[i][k] = m } : i \in Instances }
             flights(m) == { i \in Instances : m \in inFlight[i] }
  <2>1. TypeInv /\ LiveSomewhere /\ \A i \in Instances : IsInjective(pending[i]) /\ pending[i] \in Seq(Messages)
    BY MessageTypes DEF HeldInv, FoundInv
  <2>2. ASSUME NEW m \in Messages
        PROVE  Cardinality(lines(m)) + Cardinality(flights(m)) = (IF fate[m] = "live" THEN 1 ELSE 0)
    <3>0. Cardinality({}) = 0 /\ \A x : Cardinality({x}) = 1
      BY FS_EmptySet, FS_Singleton
    <3>1. flights(m) = Flights(m) /\ (Lines(m) = {} => lines(m) = {})
      <4>1. \A i \in Instances : \A k \in DOMAIN pending[i] : pending[i][k] = m => i \in Lines(m)
        BY DEF Lines, InLine, ToSet
      <4> QED BY <4>1 DEF Flights, InAir
    <3>2. CASE fate[m] # "live"
      <4>1. lines(m) = {} /\ flights(m) = {}
        BY <2>1, <3>1, <3>2, NowhereUnlessLive
      <4>2. Cardinality(lines(m)) = 0 /\ Cardinality(flights(m)) = 0
        BY <3>0, <4>1
      <4> QED BY <3>2, <4>2
    <3>3. CASE fate[m] = "live"
      <4>1. PICK i \in Instances : i \in Lines(m) \union Flights(m)
        BY <2>1, <3>3 DEF LiveSomewhere, Lines, Flights, InLine, InAir
      <4>2. m \in Content(i)
        BY <4>1 DEF Content, Lines, Flights, InLine, InAir
      <4>3. CASE m \in inFlight[i]
        <5>1. Lines(m) = {} /\ Flights(m) = {i}
          BY <2>1, <4>2, <4>3, WhereItIs
        <5>2. Cardinality(lines(m)) = 0 /\ Cardinality(flights(m)) = 1
          BY <3>0, <3>1, <5>1
        <5> QED BY <3>3, <5>2
      <4>4. CASE m \notin inFlight[i]
        <5>1. Lines(m) = {i} /\ Flights(m) = {} /\ m \in ToSet(pending[i])
          BY <2>1, <4>2, <4>4, WhereItIs
        <5>2. PICK k \in DOMAIN pending[i] : pending[i][k] = m
          BY <5>1 DEF ToSet
        <5>3. \A j \in Instances : \A l \in DOMAIN pending[j] : pending[j][l] = m => j = i /\ l = k
          <6>1. ASSUME NEW j \in Instances, NEW l \in DOMAIN pending[j], pending[j][l] = m
                PROVE  j = i /\ l = k
            <7>1. j \in Lines(m)
              BY <6>1 DEF Lines, InLine, ToSet
            <7>2. j = i
              BY <5>1, <7>1
            <7> QED BY <2>1, <5>2, <6>1, <7>2 DEF IsInjective
          <6> QED BY <6>1
        <5>4. lines(m) = {<<i, k>>}
          BY <5>2, <5>3
        <5>5. Cardinality(lines(m)) = 1 /\ Cardinality(flights(m)) = 0
          BY <3>0, <3>1, <5>1, <5>4
        <5> QED BY <3>3, <5>5
      <4> QED BY <4>3, <4>4
    <3> QED BY <3>2, <3>3
  <2> QED BY <2>2 DEF InOnePlace
<1> QED BY HeldInit, HeldStep, <1>1, PTL DEF Spec


-----------------------------------------------------------------------------
(* The life of a message: the broker implements MessageLife *)

\* Some queue is set up to redeliver.
MayReturn == Defaults.redeliver \/ DisposableSettings.redeliver \/ \E o \in Options : o.redeliver

\* Settings come from the options the administration may give, or are defaults.
Known(s) == (s.redeliver => MayReturn) /\ \E given \in EverGiven : s.limit = given.limit

SettingsKnown ==
  /\ \A i \in Instances : Known(settings[i])
  /\ \A t \in Threads : Known(op[t].arg)
  /\ \A n \in Names : options[n] # None => Known(options[n])

\* The settings of a name are known.
LEMMA ResolvedKnown ==
  ASSUME SettingsKnown, NEW n \in Names
  PROVE  Known(Resolve(n))
  BY DEF SettingsKnown, Known, MayReturn, EverGiven, Resolve

\* A call takes along the settings it looked up, or the defaults.
LEMMA ArgKnown ==
  ASSUME TypeInv, SettingsKnown, NEW t \in Threads, Step(t)
  PROVE  Known(op'[t].arg)
<1>0. /\ op \in [Threads -> Ops] /\ op[t] \in Ops /\ Fits(t, op[t]) /\ Known(op[t].arg) /\ Known(Idle.arg)
  BY CallType DEF SettingsKnown, Known, MayReturn, EverGiven, Idle
<1>1. CASE op'[t].arg \in {op[t].arg, Idle.arg}
  BY <1>0, <1>1
<1>2. CASE ReadSettings(t) \/ Reread(t)
  <2>1. op[t].name \in Names /\ op'[t].arg = Resolve(op[t].name)
    BY <1>0, <1>2 DEF ReadSettings, Reread, Fits, Ops
  <2> QED BY <2>1, ResolvedKnown
<1>3. CASE Lookup(t) \/ AddQueue(t) \/ Unregister(t) \/ TryPublish(t) \/ BindLocked(t) \/ UnbindLocked(t) \/ DispatchLocked(t)
  <2>1. CASE AddQueue(t)
    <3>1. PICK i : op' = [op EXCEPT ![t].inst = i, ![t].pc = "gate"]
      BY <2>1 DEF AddQueue
    <3> QED BY <1>0, <1>1, <3>1 DEF Ops
  <2>2. CASE Lookup(t)
    <3>1. op'[t] = GetOrAdd(op[t].kind, op[t].name, op[t].msg)
      BY <1>0, <2>2 DEF Lookup
    <3> QED BY <1>1, <3>1 DEF GetOrAdd, Idle
  <2>3. CASE Unregister(t) \/ TryPublish(t) \/ BindLocked(t) \/ UnbindLocked(t) \/ DispatchLocked(t)
    BY <1>0, <1>1, <2>3 DEF Unregister, TryPublish, BindLocked, UnbindLocked, DispatchLocked, Goto, Ops
  <2> QED BY <1>3, <2>1, <2>2, <2>3
<1>4. CASE DispatchEnds(t) \/ DispatchBuries(t) \/ DispatchFinds(t) \/ ScanBusy(t) \/ ScanAcquires(t) \/ ScanEnds(t)
  BY <1>0, <1>1, <1>4 DEF DispatchEnds, DispatchBuries, DispatchFinds, ScanBusy, ScanAcquires, ScanEnds,
       FinishDispatch, Goto, Ops
<1>5. CASE HandOver(t) \/ TakeEnters(t) \/ TakeBuries(t) \/ TakeReturns(t) \/ RespondLateLocked(t) \/ CollectLocked(t)
           \/ ConfirmLocked(t) \/ RespondLocked(t) \/ AwaitLocked(t) \/ AbandonLocked(t) \/ PurgeLocked(t)
  BY <1>0, <1>1, <1>5 DEF HandOver, TakeEnters, TakeBuries, TakeReturns, RespondLateLocked, CollectLocked,
       ConfirmLocked, RespondLocked, AwaitLocked, AbandonLocked, PurgeLocked, Goto, Return, Ops
<1>6. CASE HandDone(t)
  BY <1>0, <1>1, <1>6 DEF HandDone, Ops, Idle
<1>7. CASE Release(t) \/ FreeNext(t) \/ FreeEnds(t) \/ LeaveNext(t) \/ Complete(t) \/ AssignSettings(t)
           \/ SweepNext(t) \/ SweepEnters(t) \/ SweepBuries(t) \/ SweepSkips(t) \/ SweepLeaves(t) \/ Retire(t) \/ SweepEnds(t)
  BY SMTT(30), <1>0, <1>1, <1>7 DEF Release, FreeNext, FreeEnds, LeaveNext, Complete, AssignSettings, SweepNext, SweepEnters,
       SweepBuries, SweepSkips, SweepLeaves, Retire, SweepEnds, Goto, Return, Ops
<1>8. CASE Rotate(t)
  <2>1. PICK q : op' = [op EXCEPT ![t] = [Idle EXCEPT !.pc = "freeing", !.kind = "free", !.todo = q]]
    BY <1>8 DEF Rotate
  <2> QED BY <1>0, <1>1, <2>1 DEF Idle
<1>9. CASE LeaveLast(t) \/ PauseWrites(t)
  <2>1. CASE LeaveLast(t)
    <3>1. op'[t] \in {[Idle EXCEPT !.pc = "complete"], TryGet("abandon", current[t].home, current[t].msg)}
      BY <1>0, <2>1 DEF LeaveLast
    <3> QED BY <1>1, <3>1 DEF TryGet, Idle
  <2>2. CASE PauseWrites(t)
    <3>1. op'[t] \in {Idle, [TryGet("configure", op[t].name, None) EXCEPT !.pc = "reread"]}
      BY <1>0, <2>2 DEF PauseWrites, Written
    <3> QED BY <1>1, <3>1 DEF TryGet, Idle
  <2> QED BY <1>9, <2>1, <2>2
<1> QED BY <1>2, <1>3, <1>4, <1>5, <1>6, <1>7, <1>8, <1>9 DEF Step

\* What is asked brings settings of the options, or changes the pause of known ones.
LEMMA StartKnown ==
  ASSUME TypeInv, SettingsKnown, Start
  PROVE  SettingsKnown'
<1>0. /\ op \in [Threads -> Ops] /\ Known(Idle.arg) /\ Known(Defaults) /\ options \in [Names -> Settings \union {None}]
  BY DEF TypeInv, TypeOK, Known, MayReturn, EverGiven, Idle
<1>1. UNCHANGED settings
  BY DEF Start, Publish, Bind, Unbind, Confirm, Respond, Settle, Await, Disconnect, Take, RespondLate, Collect,
         Configure, SetPaused, Purge, Requeue, DiscardDeadLetters, DiscardDeadLetter, Discard, StartSweep,
         stableVars, queueVars
<1>2. ASSUME NEW u, NEW o, op' = [op EXCEPT ![u] = o], Known(o.arg)
      PROVE  \A t \in Threads : Known(op'[t].arg)
  BY <1>0, <1>2 DEF SettingsKnown
<1>3. ASSUME \A t \in Threads : Known(op'[t].arg), UNCHANGED options
      PROVE  SettingsKnown'
  BY <1>1, <1>3 DEF SettingsKnown, Known
<1>4. \A k, n, m : Known(TryGet(k, n, m).arg) /\ Known(GetOrAdd(k, n, m).arg)
  BY <1>0 DEF TryGet, GetOrAdd, Idle
<1>5. ASSUME NEW u \in Consumers \union Callers, NEW n \in Names, NEW m \in Messages, NEW k \in Kinds, Publish(u, n, m, k)
      PROVE  SettingsKnown'
  BY <1>2, <1>3, <1>4, <1>5 DEF Publish
<1>6. ASSUME NEW c \in Consumers, \/ \E n \in Names : Bind(c, n) \/ Unbind(c, n)
                                  \/ \E m \in Messages : Confirm(c, m) \/ Respond(c, m) \/ Await(c, m)
      PROVE  SettingsKnown'
  <2>1. ASSUME NEW n \in Names, Bind(c, n)
        PROVE  SettingsKnown'
    <3>1. op' = [op EXCEPT ![c] = GetOrAdd("bind", n, None)] /\ UNCHANGED options
      BY <2>1 DEF Bind
    <3> QED BY <1>2, <1>3, <1>4, <3>1
  <2>2. ASSUME NEW n \in Names, Unbind(c, n)
        PROVE  SettingsKnown'
    <3>1. op' = [op EXCEPT ![c] = TryGet("unbind", n, None)] /\ UNCHANGED options
      BY <2>2 DEF Unbind
    <3> QED BY <1>2, <1>3, <1>4, <3>1
  <2>3. ASSUME NEW m \in Messages, NEW kind \in {"confirm", "respond"}, Settle(c, m, kind)
        PROVE  SettingsKnown'
    <3>1. op' = [op EXCEPT ![c] = TryGet(kind, entry[m].home, m)] /\ UNCHANGED options
      BY <2>3 DEF Settle
    <3> QED BY <1>2, <1>3, <1>4, <3>1
  <2>4. ASSUME NEW m \in Messages, Await(c, m)
        PROVE  SettingsKnown'
    <3>1. op' = [op EXCEPT ![c] = TryGet("await", entry[m].home, m)] /\ UNCHANGED options
      BY <2>4 DEF Await, stableVars
    <3> QED BY <1>2, <1>3, <1>4, <3>1
  <2> QED BY <1>6, <2>1, <2>2, <2>3, <2>4 DEF Confirm, Respond
<1>7. ASSUME NEW c \in Consumers, Disconnect(c)
      PROVE  SettingsKnown'
  <2>1. PICK q : op' = [op EXCEPT ![c] = [Idle EXCEPT !.pc = "leaving", !.kind = "disconnect", !.todo = q]]
    BY <1>7 DEF Disconnect
  <2>2. Known([Idle EXCEPT !.pc = "leaving", !.kind = "disconnect", !.todo = q].arg)
    BY <1>0 DEF Idle
  <2>3. UNCHANGED options
    BY <1>7 DEF Disconnect
  <2> QED BY <1>2, <1>3, <2>1, <2>2, <2>3
<1>8. ASSUME NEW u \in Callers, \/ \E n \in Names : Purge(u, n) \/ \E keep \in BOOLEAN : Take(u, n, keep)
                                \/ \E m \in Messages : RespondLate(u, m) \/ Collect(u, m)
      PROVE  SettingsKnown'
  BY <1>2, <1>3, <1>4, <1>8 DEF Take, RespondLate, Collect, Purge, stableVars
<1>9. ASSUME NEW u \in Callers, NEW n \in Names, NEW x \in Options \union {None}, Configure(u, n, x)
      PROVE  SettingsKnown'
  <2>1. \A k \in Names : options'[k] # None => Known(options'[k])
    <3>1. x # None => Known(x)
      BY DEF Known, MayReturn, EverGiven
    <3>2. options' = [options EXCEPT ![n] = x]
      BY <1>9 DEF Configure, Written
    <3> QED BY <1>0, <3>1, <3>2 DEF SettingsKnown
  <2>2. PICK o : op' = [op EXCEPT ![u] = o] /\ o.arg = Idle.arg
    <3>1. /\ Idle.arg = Idle.arg
          /\ [TryGet("configure", n, None) EXCEPT !.pc = "reread"].arg = Idle.arg
      BY DEF TryGet, Idle
    <3> QED BY <1>9, <3>1 DEF Configure, Written
  <2>3. \A t \in Threads : Known(op'[t].arg)
    BY <1>0, <1>2, <2>2
  <2> QED BY <1>1, <2>1, <2>3 DEF SettingsKnown, Known
<1>10. ASSUME NEW u \in Callers, NEW n \in Names, NEW paused \in BOOLEAN, SetPaused(u, n, paused)
       PROVE  SettingsKnown'
  <2> DEFINE s == IF options[n] = None THEN Defaults ELSE options[n]
             a == [s EXCEPT !.paused = paused]
  <2>1. s \in Settings /\ Known(s)
    BY <1>0, ValuesAssumption DEF SettingsKnown
  <2>2. Known(a)
    BY <2>1 DEF Known, Settings
  <2>3. op' = [op EXCEPT ![u] = [Idle EXCEPT !.pc = "pausing", !.kind = "pause", !.name = n, !.arg = a]] /\ UNCHANGED options
    BY <1>10 DEF SetPaused, stableVars
  <2> HIDE DEF a
  <2>4. Known([Idle EXCEPT !.pc = "pausing", !.kind = "pause", !.name = n, !.arg = a].arg)
    BY <2>2 DEF Idle
  <2> QED BY <1>2, <1>3, <2>3, <2>4
<1>11. ASSUME NEW u \in Callers, NEW n \in Names, NEW m \in Messages, NEW x \in Messages, Requeue(u, n, m, x)
       PROVE  SettingsKnown'
  <2>1. op' = [op EXCEPT ![u] = [Idle EXCEPT !.pc = "lookup", !.kind = "publish", !.name = n, !.msg = x]] /\ UNCHANGED options
    BY <1>11 DEF Requeue
  <2>2. Known([Idle EXCEPT !.pc = "lookup", !.kind = "publish", !.name = n, !.msg = x].arg)
    BY <1>0 DEF Idle
  <2> QED BY <1>2, <1>3, <2>1, <2>2
<1>12. ASSUME StartSweep(Sweeper)
       PROVE  SettingsKnown'
  <2>1. PICK q : op' = [op EXCEPT ![Sweeper] = [Idle EXCEPT !.pc = "sweep", !.kind = "sweep", !.todo = q]]
    BY <1>12 DEF StartSweep
  <2>2. Known([Idle EXCEPT !.pc = "sweep", !.kind = "sweep", !.todo = q].arg)
    BY <1>0 DEF Idle
  <2>3. UNCHANGED options
    BY <1>12 DEF StartSweep, stableVars
  <2> QED BY <1>2, <1>3, <2>1, <2>2, <2>3
<1>13. ASSUME NEW u \in Callers, NEW n \in Names,
              DiscardDeadLetters(u, n) \/ \E m \in Messages : DiscardDeadLetter(u, n, m)
       PROVE  SettingsKnown'
  BY <1>3, <1>13 DEF DiscardDeadLetters, DiscardDeadLetter, Discard, SettingsKnown
<1> QED BY <1>5, <1>6, <1>7, <1>8, <1>9, <1>10, <1>11, <1>12, <1>13 DEF Start

\* Every step keeps to settings that are known.
LEMMA KnownStep ==
  ASSUME TypeInv, SettingsKnown, [Next]_vars
  PROVE  SettingsKnown'
<1>0. /\ op \in [Threads -> Ops] /\ settings \in [Instances -> Settings] /\ options \in [Names -> Settings \union {None}]
  BY DEF TypeInv, TypeOK
<1>1. CASE Tick \/ UNCHANGED vars
  BY <1>1 DEF Tick, vars, queueVars, SettingsKnown, Known
<1>2. ASSUME NEW t \in Threads, Step(t)
      PROVE  SettingsKnown'
  <2>1. \A u \in Threads : Known(op'[u].arg)
    BY <1>2, StepOfOne, ArgKnown DEF OthersWait, SettingsKnown
  <2>2. Known(op[t].arg)
    BY DEF SettingsKnown
  <2>3. CASE AddQueue(t) \/ AssignSettings(t)
    <3>1. UNCHANGED options /\ \A i \in Instances : settings'[i] \in {settings[i], op[t].arg}
      BY <1>0, <2>3 DEF AddQueue, AssignSettings
    <3> QED BY <2>1, <2>2, <3>1 DEF SettingsKnown, Known
  <2>4. CASE PauseWrites(t)
    <3>1. settings' = settings /\ options' = [options EXCEPT ![op[t].name] = op[t].arg]
      BY <2>4 DEF PauseWrites, Written
    <3>2. \A n \in Names : options'[n] \in {options[n], op[t].arg}
      BY <1>0, <3>1
    <3> QED BY <2>1, <2>2, <3>1, <3>2 DEF SettingsKnown, Known
  <2>5. CASE ~(AddQueue(t) \/ AssignSettings(t) \/ PauseWrites(t))
    <3>1. UNCHANGED << settings, options >>
      BY <1>2, <2>5 DEF Step, Lookup, ReadSettings, Unregister, TryPublish, BindLocked, UnbindLocked, DispatchLocked,
           DispatchEnds, DispatchBuries, DispatchFinds, ScanBusy, ScanAcquires, ScanEnds, HandOver, HandDone, TakeEnters,
           TakeBuries, TakeReturns, RespondLateLocked, CollectLocked, ConfirmLocked, RespondLocked, AwaitLocked, Release,
           Rotate, FreeNext, FreeEnds, LeaveNext, LeaveLast, AbandonLocked, Complete, Reread, PurgeLocked, SweepNext,
           SweepEnters, SweepBuries, SweepSkips, SweepLeaves, SweepEnds, Retire, stableVars, queueVars
    <3> QED BY <2>1, <3>1 DEF SettingsKnown, Known
  <2> QED BY <2>3, <2>4, <2>5
<1> QED BY <1>1, <1>2, StartKnown DEF Next


\* The stage of a message, of what is known of it: what became of it, who owns it, whether
\* it was answered, and whether it is in a dictionary.
StageOf(f, owner, answered, away) ==
  IF f # "live" THEN IF f \in {"unborn", "sent", "pushed"} THEN f ELSE "over"
  ELSE IF owner # None THEN "held"
  ELSE IF answered THEN "answered"
  ELSE IF away THEN "awaited" ELSE "waiting"

\* It is no more than that.
LEMMA StageIs ==
  ASSUME MessageInv, MessageInv', NEW m \in Messages
  PROVE  /\ Stage(m) = StageOf(fate[m], entry[m].owner, entry[m].answered, Flights(m) # {})
         /\ Stage(m)' = StageOf(fate'[m], entry'[m].owner, entry'[m].answered, Flights(m)' # {})
<1>1. /\ entry[m].owner # None => ~entry[m].answered
      /\ entry'[m].owner # None => ~entry'[m].answered
  BY DEF MessageInv, AnswersAway
<1>2. /\ Flights(m) # {} <=> \E i \in Instances : m \in inFlight[i]
      /\ Flights(m)' # {} <=> \E i \in Instances : m \in inFlight'[i]
  BY DEF Flights, InAir
<1>3. Stage(m) = StageOf(fate[m], entry[m].owner, entry[m].answered, Flights(m) # {})
  <2>1. CASE fate[m] # "live"
    BY <2>1 DEF Stage, StageOf
  <2>2. CASE fate[m] = "live" /\ entry[m].owner # None
    BY <1>1, <2>2 DEF Stage, StageOf
  <2>3. CASE fate[m] = "live" /\ entry[m].owner = None /\ entry[m].answered
    BY <2>3 DEF Stage, StageOf
  <2>4. CASE fate[m] = "live" /\ entry[m].owner = None /\ ~entry[m].answered /\ Flights(m) # {}
    BY <1>2, <2>4 DEF Stage, StageOf
  <2>5. CASE fate[m] = "live" /\ entry[m].owner = None /\ ~entry[m].answered /\ Flights(m) = {}
    BY <1>2, <2>5 DEF Stage, StageOf
  <2> QED BY <2>1, <2>2, <2>3, <2>4, <2>5
<1>4. Stage(m)' = StageOf(fate'[m], entry'[m].owner, entry'[m].answered, Flights(m)' # {})
  <2>1. CASE fate'[m] # "live"
    BY <2>1 DEF Stage, StageOf
  <2>2. CASE fate'[m] = "live" /\ entry'[m].owner # None
    BY <1>1, <2>2 DEF Stage, StageOf
  <2>3. CASE fate'[m] = "live" /\ entry'[m].owner = None /\ entry'[m].answered
    BY <2>3 DEF Stage, StageOf
  <2>4. CASE fate'[m] = "live" /\ entry'[m].owner = None /\ ~entry'[m].answered /\ Flights(m)' # {}
    BY <1>2, <2>4 DEF Stage, StageOf
  <2>5. CASE fate'[m] = "live" /\ entry'[m].owner = None /\ ~entry'[m].answered /\ Flights(m)' = {}
    BY <1>2, <2>5 DEF Stage, StageOf
  <2> QED BY <2>1, <2>2, <2>3, <2>4, <2>5
<1> QED BY <1>3, <1>4

\* What the life of a message is made of does not change.
Lives(x) == Stage(x)' = Stage(x) /\ entry'[x].owner = entry[x].owner

\* What no move touches goes on living as it did.
LEMMA OthersLive ==
  ASSUME MessageInv, MessageInv', NEW M, Elsewhere(M)
  PROVE  \A x \in Messages \ M : Lives(x)
  BY StageIs DEF Elsewhere, Lives

\* One message moves from stage to stage.
LEMMA OneLives ==
  ASSUME NEW m \in Messages, NEW from, NEW to, Stage(m) = from, Stage(m)' = to, entry'[m].owner = None,
         \A x \in Messages \ {m} : Lives(x)
  PROVE  Life!Moves(m, from, to)
  BY DEF Life!Moves, Lives

\* Nothing moves.
LEMMA NothingLives ==
  ASSUME \A x \in Messages : Lives(x)
  PROVE  UNCHANGED Life!vars
  BY DEF Life!vars, Lives


\* What owns nothing and is not live holds nobody up: the stages there are.
LEMMA StagesAre ==
  /\ \A owner, answered, away :
       /\ StageOf("unborn", owner, answered, away) = "unborn"
       /\ StageOf("sent", owner, answered, away) = "sent"
       /\ StageOf("pushed", owner, answered, away) = "pushed"
       /\ \A f : f \notin {"unborn", "sent", "pushed", "live"} => StageOf(f, owner, answered, away) = "over"
       /\ owner # None => StageOf("live", owner, answered, away) = "held"
  /\ \A away : StageOf("live", None, TRUE, away) = "answered"
  /\ StageOf("live", None, FALSE, TRUE) = "awaited"
  /\ StageOf("live", None, FALSE, FALSE) = "waiting"
  /\ \A answered, away : StageOf("live", None, answered, away) \in {"waiting", "awaited", "answered"}
  BY DEF StageOf

\* A message in the line waits; one that is not live is owned by nobody.
LEMMA StageBefore ==
  ASSUME MessageInv, MessageInv', NEW m \in Messages
  PROVE  /\ fate[m] # "live" => entry[m].owner = None
         /\ \A i \in Instances : fate[m] = "live" /\ Lines(m) = {i} => Stage(m) = "waiting" /\ entry[m].owner = None
         /\ fate[m] = "live" /\ entry[m].owner = None => Stage(m) \in {"waiting", "awaited", "answered"}
         /\ fate[m] = "live" /\ entry[m].owner # None => Stage(m) = "held"
<1>1. Stage(m) = StageOf(fate[m], entry[m].owner, entry[m].answered, Flights(m) # {})
  BY StageIs
<1>2. fate[m] # "live" => entry[m].owner = None
  BY NowhereUnlessLive, MessageTypes DEF OwnedAway
<1>3. ASSUME NEW i \in Instances, fate[m] = "live", Lines(m) = {i}
      PROVE  Stage(m) = "waiting" /\ entry[m].owner = None
  <2>1. m \in ToSet(pending[i])
    BY <1>3 DEF Lines, InLine
  <2>2. entry[m].owner = None /\ ~entry[m].answered /\ Flights(m) = {}
    BY <2>1, OfLine
  <2> QED BY <1>1, <1>3, <2>2 DEF StageOf
<1> QED BY <1>1, <1>2, <1>3 DEF StageOf

\* What owns a message and what became of it, after a move that says so, is a stage of its life.
LEMMA StageAfter ==
  ASSUME MessageInv, MessageInv', NEW m, NEW l, NEW a, NEW e, NEW f, Goes(m, l, a, e, f)
  PROVE  /\ m \in Messages /\ entry'[m].owner = e.owner
         /\ \A x \in Messages \ {m} : Lives(x)
         /\ Stage(m)' = StageOf(f, e.owner, e.answered, a # {})
         /\ f = "live" /\ e.owner # None => Stage(m)' = "held"
         /\ f = "live" /\ e.owner = None /\ e.answered => Stage(m)' = "answered"
         /\ f = "live" /\ e.owner = None /\ ~e.answered /\ a # {} => Stage(m)' = "awaited"
         /\ f = "live" /\ e.owner = None /\ ~e.answered /\ a = {} => Stage(m)' = "waiting"
         /\ f \in {"unborn", "sent", "pushed"} => Stage(m)' = f
         /\ f \notin {"unborn", "sent", "pushed", "live"} => Stage(m)' = "over"
<1>1. m \in Messages /\ entry'[m] = e /\ fate'[m] = f /\ Flights(m)' = a /\ Elsewhere({m})
  BY DEF Goes
<1>2. Stage(m)' = StageOf(f, e.owner, e.answered, a # {})
  BY <1>1, StageIs
<1> QED BY <1>1, <1>2, OthersLive DEF StageOf


\* A message is published and put in its queue.
LEMMA LifeBegins ==
  ASSUME MessageInv, MessageInv', NEW m \in Messages, Born(m) \/ \E i \in Instances : Queued(m, i)
  PROVE  Life!Publish(m) \/ Life!Queue(m)
<1>0. entry \in [Messages -> Entries] /\ \A x \in Messages : entry[x].answered => fate[x] = "live"
  BY MessageTypes DEF AnswersAway
<1>1. CASE Born(m)
  <2>1. PICK e : Goes(m, Lines(m), Flights(m), e, "sent") /\ e.owner = None
    BY <1>1 DEF Born
  <2>2. Stage(m) = "unborn"
    BY <1>1, StageIs, StagesAre DEF Born
  <2>3. Stage(m)' = "sent" /\ entry'[m].owner = None /\ \A x \in Messages \ {m} : Lives(x)
    BY <2>1, StageAfter
  <2> QED BY <2>2, <2>3, OneLives DEF Life!Publish
<1>2. ASSUME NEW i \in Instances, Queued(m, i)
      PROVE  Life!Queue(m)
  <2>1. Goes(m, {i}, {}, [entry[m] EXCEPT !.born = now], "live") /\ fate[m] = "sent"
    BY <1>2 DEF Queued
  <2>2. entry[m].owner = None /\ ~entry[m].answered
    BY <1>0, <2>1, StageBefore
  <2>3. PICK e : e.owner = None /\ ~e.answered /\ Goes(m, {i}, {}, e, "live")
    <3>1. [entry[m] EXCEPT !.born = now].owner = None /\ ~[entry[m] EXCEPT !.born = now].answered
      BY <1>0, <2>2 DEF Entries
    <3> QED BY <2>1, <3>1
  <2>4. Stage(m) = "sent"
    BY <2>1, StageIs, StagesAre
  <2>5. Stage(m)' = "waiting" /\ entry'[m].owner = None /\ \A x \in Messages \ {m} : Lives(x)
    BY <2>3, StageAfter
  <2> QED BY <2>4, <2>5, OneLives DEF Life!Queue
<1> QED BY <1>1, <1>2

\* A message leaves the line for a consumer that holds nothing, or to be answered.
LEMMA LifeIsTaken ==
  ASSUME MessageInv, MessageInv', HolderInv, NEW m \in Messages, NEW i \in Instances,
         PutAside(m, i) \/ \E c \in Consumers : Given(m, i, c)
  PROVE  Life!Take(m) \/ \E c \in Consumers : Life!Deliver(m, c)
<1>0. entry \in [Messages -> Entries]
  BY MessageTypes
<1>1. Stage(m) = "waiting" /\ entry[m].owner = None /\ ~entry[m].answered
  <2>1. Lines(m) = {i} /\ fate[m] = "live"
    BY DEF PutAside, Given
  <2>2. m \in ToSet(pending[i])
    BY <2>1 DEF Lines, InLine
  <2> QED BY <2>1, <2>2, StageBefore, OfLine
<1>2. CASE PutAside(m, i)
  <2>1. Goes(m, {}, {i}, entry[m], "live")
    BY <1>2 DEF PutAside
  <2>2. entry[m].answered = FALSE
    BY <1>0, <1>1 DEF Entries
  <2>3. Stage(m)' = "awaited" /\ entry'[m].owner = None /\ \A x \in Messages \ {m} : Lives(x)
    BY <1>1, <2>1, <2>2, StageAfter
  <2> QED BY <1>1, <2>3, OneLives DEF Life!Take
<1>3. ASSUME NEW c \in Consumers, Given(m, i, c)
      PROVE  Life!Deliver(m, c)
  <2>1. Goes(m, {}, {i}, [entry[m] EXCEPT !.owner = c], "live") /\ cstate[c] = "free"
    BY <1>3 DEF Given
  <2>2. PICK e : e.owner = c /\ c # None /\ Goes(m, {}, {i}, e, "live")
    <3>1. [entry[m] EXCEPT !.owner = c].owner = c /\ c # None
      BY <1>0, ThreadsAssumption DEF Entries, Threads
    <3> QED BY <2>1, <3>1
  <2>3. Stage(m)' = "held" /\ entry'[m].owner = c /\ \A x \in Messages \ {m} : Lives(x)
    BY <2>2, StageAfter
  <2>4. \A x \in Messages : entry[x].owner # c
    <3> SUFFICES ASSUME NEW x \in Messages, entry[x].owner = c
                 PROVE  FALSE
      OBVIOUS
    <3>1. current[c] = [home |-> entry[x].home, msg |-> x] /\ entry[x].home \in Names
      BY <2>2, OwnedHome DEF HolderInv, Holding
    <3> QED BY <2>1, <3>1, NoneAssumption DEF HolderInv, FreeOfIt
  <2>5. /\ [x \in Messages |-> Stage(x)]' = [[x \in Messages |-> Stage(x)] EXCEPT ![m] = "held"]
        /\ [x \in Messages |-> entry[x].owner]' = [[x \in Messages |-> entry[x].owner] EXCEPT ![m] = c]
    BY <2>3 DEF Lives
  <2> QED BY <1>1, <2>4, <2>5 DEF Life!Deliver
<1> QED BY <1>2, <1>3

\* What nobody holds is answered.
LEMMA LifeIsAnswered ==
  ASSUME MessageInv, MessageInv', NEW m \in Messages, GoesOut(m) \/ \E i \in Instances : IsKept(m, i)
  PROVE  Life!Answer(m)
<1>0. entry \in [Messages -> Entries] /\ Blank.owner = None
  BY MessageTypes DEF Blank
<1>1. Stage(m) \in {"waiting", "awaited", "answered"}
  BY StageBefore DEF GoesOut, IsKept
<1>2. CASE GoesOut(m)
  <2>1. Goes(m, {}, {}, Blank, "pushed")
    BY <1>2 DEF GoesOut
  <2>2. Stage(m)' = "pushed" /\ entry'[m].owner = None /\ \A x \in Messages \ {m} : Lives(x)
    BY <1>0, <2>1, StageAfter
  <2> QED BY <1>1, <2>2, OneLives DEF Life!Answer
<1>3. ASSUME NEW i \in Instances, IsKept(m, i)
      PROVE  Life!Answer(m)
  <2>1. Goes(m, {}, {i}, Answered(m), "live")
    BY <1>3 DEF IsKept
  <2>2. Answered(m).owner = None /\ Answered(m).answered = TRUE
    BY <1>0 DEF Answered, Entries
  <2>3. Stage(m)' = "answered" /\ entry'[m].owner = None /\ \A x \in Messages \ {m} : Lives(x)
    BY <2>1, <2>2, StageAfter
  <2> QED BY <1>1, <2>3, OneLives DEF Life!Answer
<1> QED BY <1>2, <1>3

\* Its holder confirms it, answers it, or is gone.
LEMMA LifeIsLetGo ==
  ASSUME MessageInv, MessageInv', SettingsKnown, NEW m \in Messages, NEW c \in Consumers, LetsGo(c, m)
  PROVE  Life!Settle(m) \/ Life!Answer(m) \/ Life!Return(m)
<1>0. entry \in [Messages -> Entries] /\ Blank.owner = None /\ c # None
  BY MessageTypes, ThreadsAssumption DEF Blank, Threads
<1>1. Stage(m) = "held" /\ ~entry[m].answered
  BY <1>0, StageBefore, MessageTypes DEF LetsGo, AnswersAway
<1>2. ASSUME NEW f \in {"confirmed", "unconfirmed", "pushed"}, Goes(m, {}, {}, Blank, f)
      PROVE  Life!Settle(m) \/ Life!Answer(m)
  <2>1. Stage(m)' = (IF f = "pushed" THEN "pushed" ELSE "over")
    BY <1>2, StageAfter
  <2>2. entry'[m].owner = None /\ \A x \in Messages \ {m} : Lives(x)
    BY <1>0, <1>2, StageAfter
  <2> QED BY <1>1, <2>1, <2>2, OneLives DEF Life!Settle, Life!Answer
<1>3. ASSUME NEW i \in Instances, Goes(m, {}, {i}, Answered(m), "live")
      PROVE  Life!Answer(m)
  <2>1. Answered(m).owner = None /\ Answered(m).answered = TRUE
    BY <1>0 DEF Answered, Entries
  <2>2. Stage(m)' = "answered" /\ entry'[m].owner = None /\ \A x \in Messages \ {m} : Lives(x)
    BY <1>3, <2>1, StageAfter
  <2> QED BY <1>1, <2>2, OneLives DEF Life!Answer
<1>4. ASSUME NEW i \in Instances, settings[i].redeliver,
             Goes(m, {i}, {}, [entry[m] EXCEPT !.owner = None], "live")
      PROVE  Life!Return(m)
  <2>1. PICK e : e.owner = None /\ ~e.answered /\ Goes(m, {i}, {}, e, "live")
    <3>1. [entry[m] EXCEPT !.owner = None].owner = None /\ ~[entry[m] EXCEPT !.owner = None].answered
      BY <1>0, <1>1 DEF Entries
    <3> QED BY <1>4, <3>1
  <2>2. Stage(m)' = "waiting" /\ entry'[m].owner = None /\ \A x \in Messages \ {m} : Lives(x)
    BY <2>1, StageAfter
  <2>3. MayReturn
    BY <1>4 DEF SettingsKnown, Known
  <2> QED BY <1>1, <2>2, <2>3, OneLives DEF Life!Return, MayReturn
<1> QED BY <1>2, <1>3, <1>4 DEF LetsGo

\* Messages nobody holds end, several at once.
LEMMA LivesEnd ==
  ASSUME MessageInv, MessageInv', NEW M \in SUBSET Messages, End(M)
  PROVE  Life!Discard(M)
<1>1. \A m \in M : Stage(m) \in {"waiting", "awaited", "answered"}
  BY StageBefore DEF End
<1>2. \A m \in M : Stage(m)' = "over" /\ entry'[m].owner = entry[m].owner
  <2> SUFFICES ASSUME NEW m \in M
               PROVE  Stage(m)' = "over" /\ entry'[m].owner = entry[m].owner
    OBVIOUS
  <2>1. entry'[m] = Blank /\ fate'[m] \in Ended /\ entry[m].owner = None
    BY DEF End
  <2>2. Stage(m)' = StageOf(fate'[m], entry'[m].owner, entry'[m].answered, Flights(m)' # {})
    BY StageIs
  <2>3. fate'[m] \notin {"unborn", "sent", "pushed", "live"} /\ entry'[m].owner = None
    BY <2>1 DEF Ended, Blank
  <2> QED BY <2>1, <2>2, <2>3, StagesAre
<1>3. \A x \in Messages \ M : Lives(x)
  BY OthersLive DEF End
<1> QED BY <1>1, <1>2, <1>3 DEF Life!Discard, Lives


\* Whatever moves, a life goes on as it may.
LEMMA LifeGoesOn ==
  ASSUME HeldInv, HeldInv', SettingsKnown, Move
  PROVE  [Life!Next]_(Life!vars)
<1>0. MessageInv /\ MessageInv' /\ HolderInv
  BY DEF HeldInv, FoundInv
<1>1. CASE Stays \/ \E c \in Consumers : Freed(c) \/ Closes(c)
  <2>1. Elsewhere({})
    BY <1>1 DEF Stays, Freed, Closes
  <2> QED BY <1>0, <2>1, OthersLive, NothingLives
<1>2. ASSUME NEW m \in Messages, NEW c \in Consumers, AskedFor(m, c)
      PROVE  UNCHANGED Life!vars
  <2>1. Goes(m, Lines(m), Flights(m), [entry[m] EXCEPT !.replyTo = c], "live") /\ fate[m] = "live"
    BY <1>2 DEF AskedFor
  <2>2. PICK l, a, e : /\ Goes(m, l, a, e, "live") /\ a = Flights(m)
                       /\ e.owner = entry[m].owner /\ e.answered = entry[m].answered
    <3>1. /\ [entry[m] EXCEPT !.replyTo = c].owner = entry[m].owner
          /\ [entry[m] EXCEPT !.replyTo = c].answered = entry[m].answered
      BY <1>0, MessageTypes DEF Entries
    <3> QED BY <2>1, <3>1
  <2>3. /\ Stage(m)' = StageOf("live", entry[m].owner, entry[m].answered, Flights(m) # {})
        /\ entry'[m].owner = entry[m].owner /\ \A x \in Messages \ {m} : Lives(x)
    BY <1>0, <2>2, StageAfter
  <2>4. Lives(m)
    BY <1>0, <2>1, <2>3, StageIs DEF Lives
  <2> QED BY <2>3, <2>4, NothingLives
<1>3. ASSUME NEW m \in Messages, IsHanded(m)
      PROVE  Life!Hand(m) \/ UNCHANGED Life!vars
  <2>1. PICK f \in {"answered", "answerLost"} : Goes(m, Lines(m), Flights(m), entry[m], f)
    BY <1>3 DEF IsHanded
  <2>2. fate[m] \in OverByPush /\ entry[m].owner = None
    BY <1>0, <1>3, StageBefore DEF IsHanded, OverByPush
  <2>3. Stage(m) = (IF fate[m] = "pushed" THEN "pushed" ELSE "over")
    BY SMTT(30), <1>0, <2>2, StageIs, StagesAre DEF OverByPush
  <2>4. Stage(m)' = "over" /\ entry'[m].owner = None /\ \A x \in Messages \ {m} : Lives(x)
    BY <1>0, <2>1, <2>2, StageAfter
  <2>5. CASE fate[m] = "pushed"
    BY <2>3, <2>4, <2>5, OneLives DEF Life!Hand
  <2>6. CASE fate[m] # "pushed"
    <3>1. Lives(m)
      BY <2>2, <2>3, <2>4, <2>6 DEF Lives
    <3> QED BY <2>4, <3>1, NothingLives
  <2> QED BY <2>5, <2>6
<1>4. ASSUME NEW m \in Messages, NEW c \in Consumers, LetsGo(c, m)
      PROVE  Life!Next
  BY <1>0, <1>4, LifeIsLetGo DEF Life!Next
<1>5. ASSUME NEW m \in Messages, Born(m) \/ \E i \in Instances : Queued(m, i)
      PROVE  Life!Next
  BY <1>0, <1>5, LifeBegins DEF Life!Next
<1>6. ASSUME NEW m \in Messages, GoesOut(m) \/ \E i \in Instances : IsKept(m, i)
      PROVE  Life!Next
  BY <1>0, <1>6, LifeIsAnswered DEF Life!Next
<1>7. ASSUME NEW m \in Messages, NEW i \in Instances, PutAside(m, i) \/ \E c \in Consumers : Given(m, i, c)
      PROVE  Life!Next
  BY <1>0, <1>7, LifeIsTaken DEF Life!Next
<1>8. ASSUME NEW M \in SUBSET Messages, End(M)
      PROVE  Life!Next
  BY <1>0, <1>8, LivesEnd DEF Life!Next
<1>9. ASSUME NEW m \in Messages, IsHanded(m)
      PROVE  Life!Next \/ UNCHANGED Life!vars
  BY <1>3, <1>9 DEF Life!Next
<1> QED BY <1>1, <1>2, <1>4, <1>5, <1>6, <1>7, <1>8, <1>9 DEF Move

\* At first settings are defaults.
LEMMA KnownAtFirst == Init => SettingsKnown
<1> SUFFICES ASSUME Init PROVE SettingsKnown
  OBVIOUS
<1>1. Known(Defaults) /\ Known(Idle.arg)
  BY DEF Known, MayReturn, EverGiven, Idle
<1> QED BY <1>1 DEF Init, SettingsKnown

\* Broker.cs, MessageQueue.cs and Consumer.cs together: no interleaving of their threads
\* delivers a message twice, brings back one that is over, or gives a consumer a second one.
THEOREM KeepsTheLife == Spec => KeepsTheLifeOfAMessage
<1>1. Init => SettingsKnown
  BY KnownAtFirst
<1>2. Init => Life!Init
  <2> SUFFICES ASSUME Init PROVE Life!Init
    OBVIOUS
  <2>1. \A m \in Messages : fate[m] = "unborn" /\ entry[m].owner = None
    BY DEF Init, Blank
  <2>2. \A m \in Messages : Stage(m) = "unborn"
    BY <2>1 DEF Stage
  <2> QED BY <2>1, <2>2 DEF Life!Init
<1>3. HeldInv /\ SettingsKnown /\ [Next]_vars => HeldInv' /\ SettingsKnown' /\ [Life!Next]_(Life!vars)
  <2> SUFFICES ASSUME HeldInv, SettingsKnown, [Next]_vars
               PROVE  HeldInv' /\ SettingsKnown' /\ [Life!Next]_(Life!vars)
    OBVIOUS
  <2>1. TypeInv /\ Move
    BY MoveStep, MessageTypes DEF HeldInv, FoundInv
  <2>2. HeldInv' /\ SettingsKnown'
    BY <2>1, HeldStep, KnownStep
  <2> QED BY <2>1, <2>2, LifeGoesOn
<1> QED BY HeldInit, <1>1, <1>2, <1>3, PTL DEF Spec, KeepsTheLifeOfAMessage, Life!Spec
===============================================================================
