---------------------------- MODULE RequestLemmas ----------------------------
(* What the operators on the requests in flight do to them.  Plus is a fold of the   *)
(* library, a function by recursion over sets: no screen sends more than two requests *)
(* at a time, and for so many the fold is worked out here.                            *)
EXTENDS Browser, FiniteSetTheorems, WellFoundedInduction, TLAPS

FoldOf(t, r, it) ==
  [s \in SUBSET DOMAIN r |-> IF s = {} THEN t ELSE Placed(it[s \ {Max(s)}], r[Max(s)])]

\* What the fold of Plus is, once some function satisfies its recursive definition.
LEMMA PlusIsFolded ==
  ASSUME NEW t, NEW r, NEW it, it = FoldOf(t, r, it)
  PROVE  \E f : f = FoldOf(t, r, f) /\ Plus(t, r) = f[DOMAIN r]
<1> DEFINE f == CHOOSE g : g = FoldOf(t, r, g)
<1>1. f = FoldOf(t, r, f)
  OBVIOUS
<1>2. Plus(t, r) = f[DOMAIN r]
  BY DEF Plus, FoldLeft, MapThenFoldSet, FoldOf
<1> QED BY <1>1, <1>2

\* The greatest of one index.
LEMMA MaxOne ==
  ASSUME NEW n \in Nat
  PROVE  Max({n}) = n
BY DEF Max

\* The greatest of two.
LEMMA MaxTwo == Max({1, 2}) = 2
<1>1. \E m \in {1, 2} : \A y \in {1, 2} : m >= y
  OBVIOUS
<1> QED BY <1>1 DEF Max

\* Nothing is asked: the table stays (Send and Ends with no question).
LEMMA PlusNone ==
  ASSUME NEW t
  PROVE  Plus(t, <<>>) = t
<1>1. DOMAIN <<>> = {}
  OBVIOUS
<1>2. SUBSET {} = {{}}
  OBVIOUS
<1> DEFINE it == [s \in {{}} |-> t]
<1>3. it = FoldOf(t, <<>>, it)
  BY <1>1, <1>2 DEF FoldOf
<1>4. PICK f : f = FoldOf(t, <<>>, f) /\ Plus(t, <<>>) = f[DOMAIN <<>>]
  BY <1>3, PlusIsFolded
<1> QED BY <1>1, <1>2, <1>4 DEF FoldOf

\* One request takes a free slot.
LEMMA PlusOne ==
  ASSUME NEW t, NEW x
  PROVE  Plus(t, <<x>>) = Placed(t, x)
<1> DEFINE r == <<x>>
<1>1. DOMAIN r = {1} /\ r[1] = x
  OBVIOUS
<1>2. SUBSET {1} = {{}, {1}} /\ {1} \ {1} = {}
  OBVIOUS
<1> HIDE DEF r
<1> DEFINE it == [s \in SUBSET {1} |-> IF s = {} THEN t ELSE Placed(t, x)]
<1>3. \A s \in SUBSET {1} : s # {} => s = {1} /\ s \ {Max(s)} = {} /\ r[Max(s)] = x
  BY <1>1, <1>2, MaxOne
<1>4. it = FoldOf(t, r, it)
  BY <1>1, <1>2, <1>3 DEF FoldOf
<1>5. PICK f : f = FoldOf(t, r, f) /\ Plus(t, r) = f[DOMAIN r]
  BY <1>4, PlusIsFolded
<1>6. \A s \in SUBSET {1} : f[s] = IF s = {} THEN t ELSE Placed(f[s \ {Max(s)}], r[Max(s)])
  BY <1>1, <1>5 DEF FoldOf
<1>7. f[{}] = t /\ f[{1}] = Placed(f[{}], x)
  BY <1>2, <1>3, <1>6
<1> QED BY <1>1, <1>5, <1>7 DEF r

\* Two requests take their slots one after the other.
LEMMA PlusTwo ==
  ASSUME NEW t, NEW x, NEW y
  PROVE  Plus(t, <<x, y>>) = Placed(Placed(t, x), y)
<1> DEFINE r == <<x, y>>
<1>1. DOMAIN r = {1, 2} /\ r[1] = x /\ r[2] = y
  OBVIOUS
<1>2. SUBSET {1, 2} = {{}, {1}, {2}, {1, 2}} /\ {1} \ {1} = {} /\ {2} \ {2} = {} /\ {1, 2} \ {2} = {1}
  OBVIOUS
<1> HIDE DEF r
<1>3. Max({1}) = 1 /\ Max({2}) = 2 /\ Max({1, 2}) = 2
  BY MaxOne, MaxTwo
<1> DEFINE it == [s \in SUBSET {1, 2} |-> IF s = {} THEN t
                                          ELSE IF s = {1} THEN Placed(t, x)
                                          ELSE IF s = {2} THEN Placed(t, y)
                                          ELSE Placed(Placed(t, x), y)]
<1>4. \A s \in SUBSET {1, 2} : \/ s = {}
                               \/ s # {} /\ s = {1} /\ Max(s) = 1 /\ s \ {Max(s)} = {}
                               \/ s # {} /\ s # {1} /\ s = {2} /\ Max(s) = 2 /\ s \ {Max(s)} = {}
                               \/ s # {} /\ s # {1} /\ s # {2} /\ s = {1, 2} /\ Max(s) = 2 /\ s \ {Max(s)} = {1}
  BY <1>2, <1>3
<1>5. \A s \in SUBSET {1, 2} : it[s] = IF s = {} THEN t ELSE Placed(it[s \ {Max(s)}], r[Max(s)])
  <2>1. {} \in SUBSET {1, 2} /\ {1} \in SUBSET {1, 2}
    OBVIOUS
  <2>2. it[{}] = t
    BY <2>1
  <2>3. it[{1}] = Placed(t, x)
    BY <2>1
  <2>4. TAKE s \in SUBSET {1, 2}
  <2>5. it[s] = IF s = {} THEN t
                ELSE IF s = {1} THEN Placed(t, x)
                ELSE IF s = {2} THEN Placed(t, y)
                ELSE Placed(Placed(t, x), y)
    OBVIOUS
  <2> HIDE DEF it
  <2> QED BY <1>1, <1>4, <2>2, <2>3, <2>5
<1>6. it = FoldOf(t, r, it)
  <2>1. it = [s \in SUBSET {1, 2} |-> it[s]]
    OBVIOUS
  <2> HIDE DEF it
  <2> QED BY <1>1, <1>5, <2>1 DEF FoldOf
<1>7. PICK f : f = FoldOf(t, r, f) /\ Plus(t, r) = f[DOMAIN r]
  BY <1>6, PlusIsFolded
<1>8. \A s \in SUBSET {1, 2} : f[s] = IF s = {} THEN t ELSE Placed(f[s \ {Max(s)}], r[Max(s)])
  BY <1>1, <1>7 DEF FoldOf
<1>9. f[{}] = t /\ f[{1}] = Placed(f[{}], r[1]) /\ f[{1, 2}] = Placed(f[{1}], r[2])
  <2>1. {} \in SUBSET {1, 2} /\ {1} \in SUBSET {1, 2} /\ {1, 2} \in SUBSET {1, 2} /\ {1} # {} /\ {1, 2} # {}
    OBVIOUS
  <2>2. f[{}] = t
    BY <1>8, <2>1
  <2>3. f[{1}] = Placed(f[{1} \ {Max({1})}], r[Max({1})])
    BY <1>8, <2>1
  <2>4. f[{1, 2}] = Placed(f[{1, 2} \ {Max({1, 2})}], r[Max({1, 2})])
    BY <1>8, <2>1
  <2> QED BY <1>2, <1>3, <2>2, <2>3, <2>4
<1> QED BY <1>1, <1>7, <1>9 DEF r

\* A question that is asked with another one, or alone.
LEMMA Pairs ==
  ASSUME NEW x, NEW y
  PROVE  <<x>> \o <<>> = <<x>> /\ <<x>> \o <<y>> = <<x, y>>
<1> DEFINE w == <<x>> \o <<y>>
           v == <<x, y>>
<1>1. w \in Seq({x, y}) /\ Len(w) = 2 /\ w[1] = x /\ w[2] = y
  OBVIOUS
<1>2. v \in Seq({x, y}) /\ Len(v) = 2 /\ v[1] = x /\ v[2] = y
  OBVIOUS
<1>3. <<x>> \o <<>> = <<x>>
  <2>1. <<x>> \in Seq({x})
    OBVIOUS
  <2> QED BY <2>1
<1> HIDE DEF w, v
<1>4. w = [i \in 1..2 |-> w[i]] /\ v = [i \in 1..2 |-> v[i]] /\ \A i \in 1..2 : w[i] = v[i]
  BY <1>1, <1>2
<1>5. w = v
  BY <1>4
<1> QED BY <1>3, <1>5 DEF w, v

RequestFields == {"op", "at", "with", "stage", "answer"}
IsRequest(c) == c = [f \in RequestFields |-> c[f]]
CallTable == calls = [s \in Slots |-> calls[s]] /\ \A s \in Slots : calls[s] # None => IsRequest(calls[s])

Few(r) == r = <<>> \/ (\E x : r = <<x>>) \/ (\E x, y : r = <<x, y>>)
Put(table, after, r) ==
  /\ after = [s \in DOMAIN table |-> after[s]]
  /\ \A s \in DOMAIN table : after[s] = table[s] \/ \E i \in DOMAIN r : after[s] = r[i]

\* What the screens ask overwrites nothing else: every slot holds what it held or one of the
\* requests that are sent.
LEMMA PlusPuts ==
  ASSUME NEW t, t = [s \in DOMAIN t |-> t[s]], NEW r, Few(r)
  PROVE  Put(t, Plus(t, r), r)
<1>1. CASE r = <<>>
  BY <1>1, PlusNone DEF Put
<1>2. ASSUME NEW x, r = <<x>>
      PROVE  Put(t, Plus(t, r), r)
  <2>1. Plus(t, r) = Placed(t, x) /\ 1 \in DOMAIN r /\ r[1] = x
    BY <1>2, PlusOne
  <2>2. Placed(t, x) = [s \in DOMAIN t |-> Placed(t, x)[s]] /\ \A s \in DOMAIN t : Placed(t, x)[s] \in {t[s], x}
    BY DEF Placed
  <2> QED BY <2>1, <2>2 DEF Put
<1>3. ASSUME NEW x, NEW y, r = <<x, y>>
      PROVE  Put(t, Plus(t, r), r)
  <2>1. Plus(t, r) = Placed(Placed(t, x), y) /\ {1, 2} \subseteq DOMAIN r /\ r[1] = x /\ r[2] = y
    BY <1>3, PlusTwo
  <2> DEFINE u == Placed(t, x)
  <2>2. u = [s \in DOMAIN t |-> u[s]] /\ \A s \in DOMAIN t : u[s] \in {t[s], x}
    BY DEF Placed
  <2> HIDE DEF u
  <2>3. Placed(u, y) = [s \in DOMAIN t |-> Placed(u, y)[s]] /\ \A s \in DOMAIN t : Placed(u, y)[s] \in {u[s], y}
    BY <2>2 DEF Placed
  <2>4. \A s \in DOMAIN t : Placed(u, y)[s] \in {t[s], x, y}
    BY <2>2, <2>3
  <2> QED BY <2>1, <2>3, <2>4 DEF Put, u
<1> QED BY <1>1, <1>2, <1>3 DEF Few

Fresh(r) == Few(r) /\ \A i \in DOMAIN r : IsRequest(r[i])

\* A request as the screens make it is one of the records of the table.
LEMMA Requests ==
  /\ Fresh(<<>>)
  /\ \A op, at, with : IsRequest(Request(op, at, with)) /\ Fresh(<<Request(op, at, with)>>)
BY DEF Fresh, Few, IsRequest, Request, RequestFields

\* Two requests, sent together.
LEMMA TwoRequests ==
  ASSUME NEW x, NEW y, IsRequest(x), IsRequest(y)
  PROVE  Fresh(<<x, y>>)
<1>1. Few(<<x, y>>)
  BY DEF Few
<1>2. DOMAIN <<x, y>> = {1, 2} /\ <<x, y>>[1] = x /\ <<x, y>>[2] = y
  OBVIOUS
<1> QED BY <1>1, <1>2 DEF Fresh

\* A handler that sends keeps the table of the requests.
LEMMA Sending ==
  ASSUME CallTable, NEW r, Fresh(r), Send(r)
  PROVE  CallTable' /\ \A q \in Slots : calls'[q] = calls[q] \/ \E i \in DOMAIN r : calls'[q] = r[i]
<1>1. Put(calls, calls', r)
  BY PlusPuts DEF CallTable, Fresh, Send
<1> QED BY <1>1 DEF Put, CallTable, Fresh

\* A continuation ends its request, sends others, and keeps the table.
LEMMA Ending ==
  ASSUME CallTable, NEW r, Fresh(r), NEW s \in Slots, Ends(s, r)
  PROVE  CallTable' /\ \A q \in Slots : calls'[q] \in {calls[q], None} \/ \E i \in DOMAIN r : calls'[q] = r[i]
<1> DEFINE less == Less(calls, s)
<1>1. less = [q \in Slots |-> less[q]] /\ \A q \in Slots : less[q] \in {calls[q], None}
  BY DEF CallTable, Less
<1> HIDE DEF less
<1>2. Put(less, calls', r)
  BY <1>1, PlusPuts DEF Fresh, Ends, less
<1> QED BY <1>1, <1>2 DEF Put, CallTable, Fresh

\* What the answer or the refusal makes of a call.
ServedAs(d, c, stage, answer) ==
  IsRequest(d) /\ d.op = c.op /\ d.at = c.at /\ d.with = c.with /\ d.stage = stage /\ d.answer = answer

Serves(s, d) == CallTable' /\ calls'[s] = d /\ \A q \in Slots \ {s} : calls'[q] = calls[q]

\* The answer of the service changes the stage of one request and nothing of what it asked.
LEMMA Serving ==
  ASSUME CallTable, NEW s \in Slots, calls[s] # None
  PROVE  /\ \A answer, after : Serve(s, answer, after) =>
              /\ Serves(s, calls'[s]) /\ ServedAs(calls'[s], calls[s], "answered", answer)
              /\ stored' = after /\ UNCHANGED <<page, view>>
         /\ Refuse(s) =>
              /\ Serves(s, calls'[s]) /\ ServedAs(calls'[s], calls[s], "refused", calls[s].answer)
              /\ UNCHANGED <<page, view, stored>>
<1>1. IsRequest(calls[s])
  BY DEF CallTable
<1>2. ASSUME NEW c, IsRequest(c)
      PROVE  /\ \A answer : ServedAs([c EXCEPT !.stage = "answered", !.answer = answer], c, "answered", answer)
             /\ ServedAs([c EXCEPT !.stage = "refused"], c, "refused", c.answer)
  BY <1>2 DEF IsRequest, RequestFields, ServedAs
<1>3. ASSUME NEW d, calls' = [calls EXCEPT ![s] = d], IsRequest(d)
      PROVE  Serves(s, calls'[s]) /\ calls'[s] = d
  BY <1>3 DEF CallTable, Serves
<1>4. ASSUME NEW answer, NEW after, Serve(s, answer, after)
      PROVE  /\ Serves(s, calls'[s]) /\ ServedAs(calls'[s], calls[s], "answered", answer)
             /\ stored' = after /\ UNCHANGED <<page, view>>
  <2> DEFINE d == [calls[s] EXCEPT !.stage = "answered", !.answer = answer]
  <2>1. calls' = [calls EXCEPT ![s] = d]
    BY <1>4 DEF Serve
  <2>2. ServedAs(d, calls[s], "answered", answer)
    BY <1>1, <1>2
  <2> HIDE DEF d
  <2>3. Serves(s, calls'[s]) /\ calls'[s] = d
    BY <1>3, <2>1, <2>2 DEF ServedAs
  <2> QED BY <1>4, <2>2, <2>3 DEF Serve
<1>5. ASSUME Refuse(s)
      PROVE  /\ Serves(s, calls'[s]) /\ ServedAs(calls'[s], calls[s], "refused", calls[s].answer)
             /\ UNCHANGED <<page, view, stored>>
  <2> DEFINE d == [calls[s] EXCEPT !.stage = "refused"]
  <2>1. calls' = [calls EXCEPT ![s] = d]
    BY <1>5 DEF Refuse
  <2>2. ServedAs(d, calls[s], "refused", calls[s].answer)
    BY <1>1, <1>2
  <2> HIDE DEF d
  <2>3. Serves(s, calls'[s]) /\ calls'[s] = d
    BY <1>3, <2>1, <2>2 DEF ServedAs
  <2> QED BY <1>5, <2>2, <2>3 DEF Refuse
<1> QED BY <1>4, <1>5

\* A screen that is opened has asked for nothing but what it begins with.
LEMMA Opening ==
  ASSUME NEW o, NEW kept, Fresh(o.asks), Opened(o, kept)
  PROVE  CallTable /\ \A s \in Slots : calls[s] # None => \E i \in DOMAIN o.asks : calls[s] = o.asks[i]
<1> DEFINE none == [s \in Slots |-> None]
<1>1. none = [s \in DOMAIN none |-> none[s]] /\ DOMAIN none = Slots /\ \A s \in Slots : none[s] = None
  OBVIOUS
<1>2. calls = Plus(none, o.asks)
  BY DEF Opened
<1> HIDE DEF none
<1>3. Put(none, calls, o.asks)
  BY <1>1, <1>2, PlusPuts DEF Fresh
<1> QED BY <1>1, <1>3 DEF CallTable, Put, Fresh

-----------------------------------------------------------------------------
(* Which slots are taken and which are free, one by one *)

\* A set of naturals that is not empty has a least element.
LEMMA LeastSlot ==
  ASSUME NEW S \in SUBSET Nat, S # {}
  PROVE  Min(S) \in S /\ \A y \in S : Min(S) <= y
<1>1. PICK x \in S : \A y \in S : <<y, x>> \notin OpToRel(<, Nat)
  BY NatLessThanWellFounded, WFMin
<1>2. ASSUME NEW y \in S PROVE x <= y
  <2>1. ~(y < x)
    BY <1>1, Zenon DEF OpToRel
  <2> QED BY <2>1
<1> QED BY <1>2 DEF Min

IsTable(t) == t = [s \in Slots |-> t[s]]

\* With room for a request there is a free slot.
LEMMA RoomIsFree ==
  ASSUME CallTable, NEW n \in Nat \ {0}, Room(n)
  PROVE  FreeSlots(calls) # {}
<1>1. Cardinality({}) = 0
  BY FS_EmptySet
<1> QED BY <1>1 DEF Room

\* A request is put in a slot that is free, and the others are as they were.
LEMMA PlacedFree ==
  ASSUME NEW t, IsTable(t), FreeSlots(t) # {}, NEW x
  PROVE  \E k \in Slots : t[k] = None /\ Placed(t, x) = [t EXCEPT ![k] = x]
<1>1. FreeSlots(t) \in SUBSET Nat /\ \A s \in FreeSlots(t) : s \in Slots /\ t[s] = None
  BY SlotsAssumption DEF FreeSlots, IsTable
<1>2. Min(FreeSlots(t)) \in FreeSlots(t)
  BY <1>1, LeastSlot
<1> QED BY <1>1, <1>2 DEF Placed

\* A handler that sends one request (Send).
LEMMA SendsOne ==
  ASSUME CallTable, NEW x, Send(<<x>>)
  PROVE  \E k \in Slots : calls[k] = None /\ calls' = [calls EXCEPT ![k] = x]
<1>1. Room(1) /\ calls' = Placed(calls, x) /\ IsTable(calls)
  BY PlusOne DEF Send, CallTable, IsTable
<1> QED BY <1>1, RoomIsFree, PlacedFree

\* A continuation that sends one request (Ends).
LEMMA EndsOne ==
  ASSUME CallTable, NEW s \in Slots, NEW x, Ends(s, <<x>>)
  PROVE  \E k \in Slots : (k = s \/ calls[k] = None) /\ calls' = [calls EXCEPT ![s] = None, ![k] = x]
<1> DEFINE t == [calls EXCEPT ![s] = None]
<1>1. IsTable(t) /\ t[s] = None /\ \A k \in Slots : t[k] = None => k = s \/ calls[k] = None
  BY DEF CallTable, IsTable
<1>2. calls' = Placed(t, x)
  BY PlusOne DEF Ends, Less
<1> HIDE DEF t
<1>3. FreeSlots(t) # {}
  BY <1>1 DEF FreeSlots, IsTable
<1>4. PICK k \in Slots : t[k] = None /\ calls' = [t EXCEPT ![k] = x]
  BY <1>1, <1>2, <1>3, PlacedFree
<1> QED BY <1>1, <1>4 DEF t

\* A continuation that sends none.
LEMMA EndsNone ==
  ASSUME NEW s, Ends(s, <<>>)
  PROVE  calls' = [calls EXCEPT ![s] = None]
BY PlusNone DEF Ends, Less

\* The component is left: nothing it asked for is answered anymore (Elsewhere).
LEMMA LeavesNone ==
  ASSUME CallTable, NEW screen, Elsewhere(screen)
  PROVE  CallTable' /\ \A s \in Slots : calls'[s] = None
<1>1. calls' = [s \in Slots |-> None]
  BY DEF Elsewhere, CallTable
<1> QED BY <1>1 DEF CallTable

\* Null is none of the requests: a slot with a request is not a free one.
NoneIsNoRequest == \A c : IsRequest(c) => c # None

\* The slots with a request of one of these kinds.
InFlight(ops) == {s \in Slots : calls[s] # None /\ calls[s].op \in ops}

\* One request more is on its way.
LEMMA AskedMore ==
  ASSUME CallTable, NoneIsNoRequest, NEW x, IsRequest(x), Send(<<x>>)
  PROVE  /\ CallTable'
         /\ \E k \in Slots : /\ calls[k] = None /\ calls'[k] = x
                             /\ \A q \in Slots \ {k} : calls'[q] = calls[q]
                             /\ \A ops : InFlight(ops)' = InFlight(ops) \union (IF x.op \in ops THEN {k} ELSE {})
<1>1. PICK k \in Slots : calls[k] = None /\ calls' = [calls EXCEPT ![k] = x]
  BY SendsOne
<1>2. CallTable' /\ calls'[k] = x /\ \A q \in Slots \ {k} : calls'[q] = calls[q]
  BY <1>1 DEF CallTable
<1>3. ASSUME NEW ops
      PROVE  InFlight(ops)' = InFlight(ops) \union (IF x.op \in ops THEN {k} ELSE {})
  BY <1>1, <1>2 DEF InFlight, NoneIsNoRequest
<1> QED BY <1>1, <1>2, <1>3

\* One request less.
LEMMA AskedLess ==
  ASSUME CallTable, NEW s \in Slots, Ends(s, <<>>)
  PROVE  /\ CallTable' /\ calls'[s] = None /\ \A q \in Slots \ {s} : calls'[q] = calls[q]
         /\ \A ops : InFlight(ops)' = InFlight(ops) \ {s}
<1>1. calls' = [calls EXCEPT ![s] = None]
  BY EndsNone
<1>2. CallTable' /\ calls'[s] = None /\ \A q \in Slots \ {s} : calls'[q] = calls[q]
  BY <1>1 DEF CallTable
<1>3. ASSUME NEW ops
      PROVE  InFlight(ops)' = InFlight(ops) \ {s}
  BY <1>2 DEF InFlight
<1> QED BY <1>2, <1>3

\* One request instead of another, in its slot or in one that was free.
LEMMA AskedInstead ==
  ASSUME CallTable, NoneIsNoRequest, NEW s \in Slots, NEW x, IsRequest(x), Ends(s, <<x>>)
  PROVE  /\ CallTable'
         /\ \E k \in Slots : /\ k = s \/ calls[k] = None
                             /\ calls'[k] = x /\ (k # s => calls'[s] = None)
                             /\ \A q \in Slots \ {s, k} : calls'[q] = calls[q]
                             /\ \A ops : InFlight(ops)' = (InFlight(ops) \ {s}) \union (IF x.op \in ops THEN {k} ELSE {})
<1>1. PICK k \in Slots : (k = s \/ calls[k] = None) /\ calls' = [calls EXCEPT ![s] = None, ![k] = x]
  BY EndsOne
<1>2. /\ CallTable' /\ calls'[k] = x /\ (k # s => calls'[s] = None)
      /\ \A q \in Slots \ {s, k} : calls'[q] = calls[q]
  BY <1>1 DEF CallTable
<1>3. ASSUME NEW ops
      PROVE  InFlight(ops)' = (InFlight(ops) \ {s}) \union (IF x.op \in ops THEN {k} ELSE {})
  BY <1>1, <1>2 DEF InFlight, NoneIsNoRequest
<1> QED BY <1>1, <1>2, <1>3

\* The service answers or refuses: the same requests are on their way.
LEMMA AskedStill ==
  ASSUME CallTable, NoneIsNoRequest, NEW s \in Slots, calls[s] # None, Refuse(s) \/ \E answer, after : Serve(s, answer, after)
  PROVE  CallTable' /\ UNCHANGED <<page, view>> /\ \A ops : InFlight(ops)' = InFlight(ops)
<1>1. /\ Serves(s, calls'[s]) /\ IsRequest(calls'[s]) /\ calls'[s].op = calls[s].op /\ UNCHANGED <<page, view>>
  BY Serving DEF ServedAs
<1>2. calls'[s] # None
  BY <1>1 DEF NoneIsNoRequest
<1> QED BY <1>1, <1>2 DEF Serves, InFlight

\* With the table as it was.
LEMMA AskedSame ==
  ASSUME CallTable, calls' = calls
  PROVE  CallTable' /\ \A ops : InFlight(ops)' = InFlight(ops)
BY DEF CallTable, InFlight

\* Null is no record at all.
NoneIsNoRecord == None # [f \in DOMAIN None |-> None[f]]

\* So it is none of the requests, nor of any other records.
LEMMA NoneIsNoneOfThem ==
  ASSUME NoneIsNoRecord
  PROVE  NoneIsNoRequest /\ \A fields, c : c = [f \in fields |-> c[f]] => c # None
<1>1. ASSUME NEW fields, NEW c, c = [f \in fields |-> c[f]]
      PROVE  c # None
  <2>1. c = [f \in DOMAIN c |-> c[f]]
    BY <1>1
  <2> QED BY <2>1 DEF NoneIsNoRecord
<1>2. \A c : IsRequest(c) => c # None
  BY <1>1 DEF IsRequest
<1> QED BY <1>1, <1>2 DEF NoneIsNoRequest

\* With room for two there is a free slot besides any that is.
LEMMA RoomForTwo ==
  ASSUME NEW F, Cardinality(F) >= 2, NEW k \in F
  PROVE  F \ {k} # {}
<1>1. Cardinality({k}) = 1
  BY FS_Singleton
<1>2. F = {k} => Cardinality(F) = 1
  BY <1>1
<1> QED BY <1>2

\* The request that a continuation sends in place of its own, whatever else is free.
LEMMA PlacedEnds ==
  ASSUME CallTable, NEW s \in Slots, NEW x, calls' = Placed(Less(calls, s), x)
  PROVE  Ends(s, <<x>>)
<1>1. FreeSlots(calls) \subseteq Slots
  BY DEF FreeSlots, CallTable
<1>2. Cardinality(FreeSlots(calls)) \in Nat
  BY <1>1, SlotsAssumption, FS_Subset, FS_CardinalityType
<1>3. Len(<<x>>) - 1 = 0
  OBVIOUS
<1>4. Room(Len(<<x>>) - 1)
  BY <1>2, <1>3 DEF Room
<1> QED BY <1>4, PlusOne DEF Ends

-----------------------------------------------------------------------------
(* What a step leaves of the requests of some kinds *)

Outside(c, ops) == c = None \/ c.op \notin ops
Keeps(ops) == \A q \in Slots : calls'[q] = calls[q] \/ (Outside(calls[q], ops) /\ Outside(calls'[q], ops))

\* The requests of these kinds are the same, in the same slots.
LEMMA KeptAsked ==
  ASSUME NEW ops, Keeps(ops)
  PROVE  /\ InFlight(ops)' = InFlight(ops)
         /\ \A q \in InFlight(ops) : calls'[q] = calls[q]
BY DEF Keeps, Outside, InFlight

\* A request of another kind is sent.
LEMMA KeptSending ==
  ASSUME CallTable, NEW x, IsRequest(x), Send(<<x>>)
  PROVE  /\ CallTable' /\ \A q \in Slots : calls'[q] \in {calls[q], x}
         /\ \A ops : x.op \notin ops => Keeps(ops)
<1>1. PICK k \in Slots : calls[k] = None /\ calls' = [calls EXCEPT ![k] = x]
  BY SendsOne
<1>2. CallTable' /\ calls'[k] = x /\ \A q \in Slots \ {k} : calls'[q] = calls[q]
  BY <1>1 DEF CallTable
<1> QED BY <1>1, <1>2 DEF Keeps, Outside

\* A request of another kind ends, and nothing is sent, or one of another kind too.
LEMMA KeptEnding ==
  ASSUME CallTable, NEW s \in Slots, NEW x, IsRequest(x), Ends(s, <<>>) \/ Ends(s, <<x>>)
  PROVE  /\ CallTable' /\ \A q \in Slots : calls'[q] \in {calls[q], None, x}
         /\ Ends(s, <<>>) => \A q \in Slots : calls'[q] \in {calls[q], None}
         /\ \A ops : Outside(calls[s], ops) /\ (Ends(s, <<>>) \/ x.op \notin ops) => Keeps(ops)
<1>1. CASE Ends(s, <<>>)
  <2>1. CallTable' /\ calls'[s] = None /\ \A q \in Slots \ {s} : calls'[q] = calls[q]
    BY <1>1, AskedLess
  <2> QED BY <2>1 DEF Keeps, Outside
<1>2. CASE Ends(s, <<x>>) /\ ~Ends(s, <<>>)
  <2>1. PICK k \in Slots : (k = s \/ calls[k] = None) /\ calls' = [calls EXCEPT ![s] = None, ![k] = x]
    BY <1>2, EndsOne
  <2>2. /\ CallTable' /\ calls'[k] = x /\ (k # s => calls'[s] = None)
        /\ \A q \in Slots \ {s, k} : calls'[q] = calls[q]
    BY <2>1 DEF CallTable
  <2> QED BY <1>2, <2>1, <2>2 DEF Keeps, Outside
<1> QED BY <1>1, <1>2

\* The service answers or refuses a request of another kind.
LEMMA KeptServing ==
  ASSUME CallTable, NEW s \in Slots, calls[s] # None, Serves(s, calls'[s]), calls'[s].op = calls[s].op
  PROVE  \A ops : calls[s].op \notin ops => Keeps(ops)
BY DEF Serves, Keeps, Outside
==============================================================================
