------------------------------ MODULE Landscape ------------------------------
(* The drawing of the environment: what the broker, the Worker Control and the proxy said, *)
(* each at its own moment, put together into parts, and who of them talks to whom.         *)
(* Pure.  Where a part is drawn, its words, and the counts of requests are left out.       *)
EXTENDS Browser, Functions

CONSTANT Folded   \* a name or the name of a machine, in small letters

Same(one, other) == one # None /\ other # None /\ Folded[one] = Folded[other]
Told(reading, list) == IF reading = None THEN <<>> ELSE reading[list]

\* Several programs of one kind: the first that says something of it is believed.
Machine(r) == IF r.land # None /\ r.land.machine # None THEN r.land.machine
              ELSE IF r.status # None THEN r.status.machine ELSE None

-----------------------------------------------------------------------------
(* What runs on the machine *)

Part(kind, name, tone, processes) ==
  [id |-> <<kind, name>>, kind |-> kind, tone |-> tone, processes |-> processes]

WebParts(r) ==
  LET apps == Told(r.land, "frontends")
  IN  [n \in DOMAIN apps |-> Part("web", apps[n].name, IF apps[n].problem THEN "warn" ELSE "ok", {})]

\* The processes of the web server, and what they started from the folder of the application.
ApiParts(r) ==
  LET apis == Told(r.land, "apis")
      Tone(known, stopped) ==
        IF known = {} THEN "neutral"
        ELSE IF stopped = known THEN "danger" ELSE IF stopped = {} THEN "ok" ELSE "warn"
  IN  [n \in DOMAIN apis |->
         LET known == {site \in apis[n].sites : site.started # None}
         IN  Part("api", apis[n].name, Tone(known, {site \in known : ~site.started}),
                  apis[n].processes \union UNION {site.processes : site \in apis[n].sites})]

WorkerParts(r) ==
  LET groups == Told(r.status, "groups")
      Tone(group, up) ==
        IF ~group.enabled THEN "off"
        ELSE IF group.unstable \/ (group.desired > 0 /\ up = 0) THEN "danger"
        ELSE IF up < group.desired THEN "warn" ELSE "ok"
  IN  [n \in DOMAIN groups |->
         Part("worker", groups[n].name,
              Tone(groups[n], Cardinality({w \in groups[n].workers : w.up})),
              {w.process : w \in groups[n].workers})]

\* The proxy is a service like the others.  The Worker Control is not one of them.
ServiceParts(r) ==
  LET services == SelectSeq(Told(r.status, "services"), LAMBDA service : ~service.supervisor)
      Tone(service) == CASE service.state = "Running" -> IF service.answers THEN "ok" ELSE "warn"
                         [] service.state \in {"Stopped", "Missing"} -> "danger"
                         [] OTHER -> "warn"
  IN  [n \in DOMAIN services |->
         LET service == services[n]
         IN  Part(IF service.proxy THEN "proxy" ELSE "service", IF service.proxy THEN None ELSE service.name,
                  Tone(service), service.processes)]

\* One that is not a service is known by what it sends.
LoneProxy(r, parts) ==
  IF r.traffic # None /\ r.traffic /\ \A n \in DOMAIN parts : parts[n].kind # "proxy"
  THEN <<Part("proxy", None, "neutral", {})>> ELSE <<>>

Infrastructure(r) ==
  <<Part("broker", None, IF r.map = None THEN "danger" ELSE "ok", {}),
    Part("supervisor", None,
         IF r.status = None THEN "danger" ELSE IF r.status.healthy THEN "ok" ELSE "warn",
         IF r.status = None THEN {} ELSE {r.status.process})>>
  \o (IF r.land = None \/ r.land.database = None THEN <<>>
      ELSE <<Part("database", None,
                  CASE r.land.database.online = None -> "neutral"
                    [] r.land.database.online = TRUE -> "ok"
                    [] OTHER -> "danger", {})>>)

MachineParts(r) ==
  LET machine == WebParts(r) \o ApiParts(r) \o WorkerParts(r) \o ServiceParts(r)
  IN  machine \o LoneProxy(r, machine) \o Infrastructure(r)

\* A process that two parts name is of the last of them.
Owner(parts, process) ==
  LET named == {n \in DOMAIN parts : process \in parts[n].processes}
  IN  IF named = {} THEN None ELSE parts[Max(named)]

-----------------------------------------------------------------------------
(* Who talks through the broker *)

\* The numbers of processes of another machine say nothing of this one.
LocalOf(r, parts, application) ==
  LET here == SelectSeq(application.instances, LAMBDA one :
                /\ Machine(r) = None \/ one.host = None \/ Same(one.host, Machine(r))
                /\ Owner(parts, one.process) # None)
  IN  IF here = <<>> THEN None ELSE Owner(parts, Head(here).process)

\* Mutant: in the order they are told.
AsTold(r, parts) == Told(r.map, "applications")

\* The ones with a process of their own first: one heard of only in the past joins them.
InOrder(r, parts) ==
  LET Local(application) == LocalOf(r, parts, application) # None
  IN  SelectSeq(Told(r.map, "applications"), Local)
        \o SelectSeq(Told(r.map, "applications"), LAMBDA application : ~Local(application))

Client(application) ==
  Part("client", application.id, IF application.instances = <<>> THEN "off" ELSE "ok", {})

\* What the Worker Control says is its own business.  What was done in the other protocol by
\* a component of the same name counts on it, and that protocol does not.
Attributed(r, parts) ==
  LET Join(so, application) ==
        LET local == LocalOf(r, parts, application)
            name == Folded[application.name]
            found == IF local = None THEN Client(application) ELSE local
        IN  IF local # None /\ local.kind = "supervisor" THEN so
            ELSE IF local = None /\ application.instances = <<>> /\ name \in DOMAIN so.byName
            THEN [so EXCEPT !.partOf = (application.id :> so.byName[name]) @@ @]
            ELSE [partOf |-> (application.id :> found.id) @@ so.partOf,
                  byName |-> (name :> found.id) @@ so.byName,
                  clients |-> IF local = None THEN Append(so.clients, found) ELSE so.clients,
                  speaks |-> so.speaks \union {<<found.id, application.protocol>>}]
  IN  FoldLeft(Join, [partOf |-> <<>>, byName |-> <<>>, clients |-> <<>>, speaks |-> {}], InOrder(r, parts))

\* Each use of a queue by a part, of those the broker still has.
Uses(r, partOf) ==
  {[part |-> partOf[link.application], queue |-> link.queue, kind |-> link.kind, active |-> link.active] :
     link \in {l \in (IF r.map = None THEN {} ELSE r.map.links) :
                 l.application \in DOMAIN partOf /\ l.queue \in DOMAIN r.map.queues}}

UsersOf(uses, kind, queue) == {u.part : u \in {v \in uses : v.kind = kind /\ v.queue = queue}}

\* Who publishes in a queue is joined to who consumes it; moving when the publisher is.
MessageWires(uses) ==
  LET Between(from, to) ==
        {q \in {u.queue : u \in uses} : from \in UsersOf(uses, "publish", q) /\ to \in UsersOf(uses, "consume", q)}
      users == {u.part : u \in uses}
  IN  {[from |-> pair[1], to |-> pair[2], queues |-> Between(pair[1], pair[2]),
        active |-> \E u \in uses : /\ u.part = pair[1] /\ u.kind = "publish" /\ u.active
                                   /\ u.queue \in Between(pair[1], pair[2])] :
         pair \in {p \in users \X users : p[1] # p[2] /\ Between(p[1], p[2]) # {}}}

\* Letters and pauses in what it consumes ask for attention to who was well.
Troubled(r, uses, part) ==
  IF /\ part.tone = "ok"
     /\ \E u \in uses : /\ u.part = part.id /\ u.kind = "consume"
                        /\ r.map.queues[u.queue].dead > 0 \/ r.map.queues[u.queue].paused
  THEN [part EXCEPT !.tone = "warn"] ELSE part

-----------------------------------------------------------------------------
(* Who is connected to the database *)

\* A session without the number of a process, or of another machine, is of no part.
UserOf(r, parts, client) ==
  IF /\ Machine(r) = None \/ Same(client.host, Machine(r))
     /\ client.process > 0
  THEN Owner(parts, client.process) ELSE None

Sessions(r, parts) ==
  IF r.land = None \/ r.land.database = None THEN {}
  ELSE {[client |-> client, user |-> UserOf(r, parts, client)] : client \in r.land.database.clients}

DatabaseWires(sessions) == {[from |-> s.user.id, to |-> <<"database", None>>] : s \in {t \in sessions : t.user # None}}
Strangers(sessions) == {[host |-> s.client.host, program |-> s.client.program] : s \in {t \in sessions : t.user = None}}

-----------------------------------------------------------------------------

Assembled(r) ==
  LET machine == MachineParts(r)
      so == Attributed(r, machine)
      uses == Uses(r, so.partOf)
      parts == machine \o so.clients
      sessions == Sessions(r, machine)
  IN  [parts |-> [n \in DOMAIN parts |-> Troubled(r, uses, parts[n])],
       partOf |-> so.partOf, speaks |-> so.speaks, uses |-> uses,
       messages |-> MessageWires(uses), database |-> DatabaseWires(sessions), strangers |-> Strangers(sessions)]
=============================================================================
