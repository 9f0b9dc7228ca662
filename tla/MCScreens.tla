------------------------------ MODULE MCScreens ------------------------------
(* A small instance, for TLC, of the screens of the queues and the writing of a message,  *)
(* of the workers and the services, the settings, the users, the databases and the map:    *)
(* each behaviour is of one of them.                                                       *)
EXTENDS QueueScreens, ServiceScreens, ConfigScreens, SessionScreens, PublishScreen, DatabaseScreens, MapScreen

CONSTANTS TextLines, MaxLines   \* the lines that a text may have, and how many of them end

Scripts == {<<"a", "b", "A", "b", "a">>, <<"b", "a">>, None}
Words == {<<>>, <<"a">>, <<"a", "b">>, <<"B", "a">>, <<"a", "B", "a">>}
SmallLetters == [letter \in {"a", "b", "A", "B"} |-> CASE letter = "A" -> "a" [] letter = "B" -> "b" [] OTHER -> letter]

Texts == {Text(lines, rest) : lines \in BoundedSeq(TextLines, MaxLines), rest \in TextLines}
AnyScripts == [Things -> Scripts]
SavedBefore == [q \in Addressed |-> {}]

\* A component that runs here and was heard of in the other protocol, a program of another
\* machine whose process has the number of one of this, one that does not say its machine,
\* and the Worker Control.
Told2x(id, name, host, process) ==
  [id |-> id, name |-> name, protocol |-> "v2", instances |-> <<[host |-> host, process |-> process]>>]
Programs == {Told2x("now", "Erp", "here", 1), Told2x("far", "far", "there", 1),
             [id |-> "past", name |-> "ERP", protocol |-> "v1", instances |-> <<>>]}

Maps == {[of |-> None, applications |-> <<Told2x("wc", "wc", None, 9)>> \o programs,
          queues |-> [q \in {"q1", "q2"} |-> [dead |-> 1, paused |-> FALSE]],
          links |-> {[application |-> "past", queue |-> "q1", kind |-> "publish", active |-> TRUE],
                     [application |-> "far", queue |-> "q1", kind |-> "consume", active |-> TRUE],
                     [application |-> "now", queue |-> "q2", kind |-> "consume", active |-> FALSE],
                     [application |-> "far", queue |-> "gone", kind |-> "publish", active |-> TRUE],
                     [application |-> "wc", queue |-> "q2", kind |-> "publish", active |-> TRUE]}] :
           programs \in SetToSeqs(Programs)}

\* The Worker Control as it was with the erp and after it, which took its number for itself.
Statuses(machine) ==
  {[machine |-> machine, process |-> p, healthy |-> TRUE,
    groups |-> <<[name |-> "erp", enabled |-> TRUE, unstable |-> FALSE, desired |-> 1,
                  workers |-> {[process |-> 1, up |-> TRUE]}]>>,
    services |-> <<[name |-> "front", supervisor |-> FALSE, proxy |-> TRUE, state |-> "Running",
                    answers |-> TRUE, processes |-> {4}]>>] : p \in {9, 1}}
Land == [machine |-> "HERE", frontends |-> <<[name |-> "shop", problem |-> FALSE]>>,
         apis |-> <<[name |-> "api", processes |-> {5}, sites |-> {[started |-> TRUE, processes |-> {6}]}]>>,
         database |-> [online |-> TRUE,
                       clients |-> {[host |-> "there", process |-> 1, program |-> "erp"],
                                   [host |-> "here", process |-> 6, program |-> "api"],
                                   [host |-> "here", process |-> 0, program |-> "erp"]}]]
InSmall == [name \in {"Erp", "ERP", "far", "wc", "here", "HERE", "there"} |->
              CASE name \in {"Erp", "ERP"} -> "erp" [] name = "HERE" -> "here" [] OTHER -> name]

\* Nobody else changes the largest of the forms.
ConfigStoredFor(form) ==
  [ConfigStored EXCEPT !.elsewhere = IF form = "environment" THEN MaxElsewhere ELSE @]

Init ==
  \/ QueueInit
  \/ ServiceInit
  \/ \E group \in {None, "g1"} : Opened(GroupsOpening(group), ConfigStored)
  \/ \E form \in Forms : Opened(SettingsOpening(form), ConfigStoredFor(form))
  \/ SessionInit(None)
  \/ PublishInit(SavedBefore)
  \/ \E screen \in {"changes", "change"} : Opened(DatabaseOpening(screen), DatabaseStore(None, None))
  \/ \E old, new \in Texts : Opened(DatabaseOpening("change"), DatabaseStore([old |-> old, new |-> new], None))
  \/ \E o \in Things, find \in Finds, scripts \in AnyScripts :
       Opened(ObjectOpening(o, find), DatabaseStore(None, scripts))
  \/ \E minutes \in Windows, map \in Maps, status \in Statuses("here") \union Statuses(None) :
       Opened(MapOpening(minutes), MapStore(map, status, Land, TRUE))

Shown(screens) == page.name \in screens

Next ==
  \/ Shown({"queues", "queue", "dead", "watch"}) /\ QueueSteps
  \/ Shown({"workers", "services", "events"}) /\ ServiceSteps
  \/ Shown({"groups", "settings"}) /\ ConfigSteps
  \/ Shown({"starting", "login", "inside"}) /\ SessionSteps
  \/ Shown({"publish"}) /\ PublishSteps
  \/ Shown({"changes", "change", "object"}) /\ DatabaseSteps
  \/ Shown({"map"}) /\ MapSteps

\* Nothing tells two queues or two services apart.
Symmetry == Permutations(Queues) \union Permutations(Units)

Spec == Init /\ [][Next]_browser
=============================================================================
