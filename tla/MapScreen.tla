------------------------------ MODULE MapScreen ------------------------------
(* The screen of the map: four reads that are waited for together, again and again, for   *)
(* the period that is chosen, and the drawing of what they said.  Picking, searching and   *)
(* moving the drawing are left out.                                                        *)
EXTENDS Landscape

CONSTANTS Windows,    \* the periods that may be chosen
          MaxWindows  \* how many times one is

OnMap == page.name = "map"
Pieces == {"map", "status", "land", "traffic"}

-----------------------------------------------------------------------------
(* The four reads *)

\* Nothing is asked while the answers are waited for: a period chosen then is asked for later.
Reading(v) ==
  IF v.reading THEN <<>> ELSE <<Request("reading", v.minutes, <<>>)>>

\* Each is answered at its own moment, or fails by itself.
PieceTold(s, piece) ==
  /\ InStage(s, {"reading"}, "sent")
  /\ piece \in Pieces \ DOMAIN calls[s].with
  /\ LET told == IF piece = "map" THEN [stored.map EXCEPT !.of = calls[s].at] ELSE stored[piece]
     IN  calls' = [calls EXCEPT ![s].with = (piece :> told) @@ @]
  /\ UNCHANGED <<page, view, stored>>

PieceFails(s, piece) ==
  /\ InStage(s, {"reading"}, "sent")
  /\ piece \in Pieces \ DOMAIN calls[s].with
  /\ calls' = [calls EXCEPT ![s].with = (piece :> None) @@ @]
  /\ UNCHANGED <<page, view, stored>>

AllThere(s) == InStage(s, {"reading"}, "sent") /\ DOMAIN calls[s].with = Pieces

\* Mutant: without an answer of the broker nothing else is done.
MapReadOrGivenUp(s) ==
  /\ AllThere(s)
  /\ LET told == calls[s].with
     IN  view' = [view EXCEPT !.read = told, !.reading = told.map = None, !.problem = told.map = None,
                              !.partial = told.status # None /\ told.land = None]
  /\ Ends(s, <<>>)
  /\ UNCHANGED <<page, stored>>

\* The drawing is still worth seeing without some of them.  Signed out, no problem is told.
MapRead(s) ==
  /\ AllThere(s)
  /\ LET told == calls[s].with
     IN  \E problem \in IF told.map = None THEN {view.problem, TRUE} ELSE {FALSE} :
           view' = [view EXCEPT !.read = told, !.reading = FALSE, !.problem = problem,
                                !.partial = told.status # None /\ told.land = None]
  /\ Ends(s, <<>>)
  /\ UNCHANGED <<page, stored>>

\* The timer, and the button, which is not offered during a reading.
ReadMap ==
  /\ OnMap
  /\ ~view.reading
  /\ view' = [view EXCEPT !.reading = TRUE]
  /\ Send(Reading(view))
  /\ UNCHANGED <<page, stored>>

ChooseWindow(minutes) ==
  /\ OnMap
  /\ stored.windows < MaxWindows
  /\ minutes # view.minutes
  /\ LET next == [view EXCEPT !.minutes = minutes]
     IN  view' = [next EXCEPT !.reading = TRUE] /\ Send(Reading(next))
  /\ stored' = [stored EXCEPT !.windows = @ + 1]
  /\ UNCHANGED page

-----------------------------------------------------------------------------

MapOpening(minutes) ==
  [page |-> [name |-> "map"], asks |-> <<Request("reading", minutes, <<>>)>>,
   view |-> [minutes |-> minutes, reading |-> TRUE, read |-> None, problem |-> FALSE, partial |-> FALSE]]

MapStore(map, status, land, traffic) ==
  [map |-> map, status |-> status, land |-> land, traffic |-> traffic, windows |-> 0]

MapSteps ==
  \/ \E minutes \in Windows : ChooseWindow(minutes)
  \/ ReadMap
  \/ \E s \in Slots : \/ \E piece \in Pieces : PieceTold(s, piece) \/ PieceFails(s, piece)
                      \/ MapRead(s)

-----------------------------------------------------------------------------
(* What must hold *)

\* The period that was chosen, during a reading or not, is the one of what is drawn again
\* and again, whatever fails meanwhile.
WindowIsShown == []<>(OnMap => view.read # None /\ view.read.map # None /\ view.read.map.of = view.minutes)

\* What was done in another protocol counts on the component of that name that runs here, in
\* whatever order they are told.
PastIsJoined(r, drawing) ==
  \A past, now \in ToSet(Told(r.map, "applications")) :
    LET local == LocalOf(r, MachineParts(r), now)
    IN  past.instances = <<>> /\ local # None /\ local.kind # "supervisor" /\ Same(past.name, now.name)
          => /\ past.id \in DOMAIN drawing.partOf
             /\ <<"client", past.id>> \notin {drawing.parts[n].id : n \in DOMAIN drawing.parts}

\* No part of this machine is given what a program of another one does, though the numbers of
\* their processes be the same.
OnlyWhatRunsHere(r, drawing) ==
  LET away(host) == host # None /\ Machine(r) # None /\ ~Same(host, Machine(r))
      ofClients == {<<"client", a.id>> : a \in ToSet(Told(r.map, "applications"))}
  IN  /\ \A a \in ToSet(Told(r.map, "applications")) :
           a.instances # <<>> /\ (\A n \in DOMAIN a.instances : away(a.instances[n].host))
             => a.id \in DOMAIN drawing.partOf /\ drawing.partOf[a.id] \in ofClients
      /\ \A wire \in drawing.database : \E n \in DOMAIN drawing.parts, client \in r.land.database.clients :
           drawing.parts[n].id = wire.from /\ client.process \in drawing.parts[n].processes /\ ~away(client.host)

\* Who publishes in a queue that another consumes is joined to it in the drawing, except the
\* Worker Control, which is in it with nothing.
MessagesAreDrawn(r, drawing) ==
  LET Apart(id) == \E a \in ToSet(Told(r.map, "applications")) :
        a.id = id /\ LocalOf(r, MachineParts(r), a) # None /\ LocalOf(r, MachineParts(r), a).kind = "supervisor"
      Joined(out, in) ==
        /\ {out.application, in.application} \subseteq DOMAIN drawing.partOf
        /\ \/ drawing.partOf[out.application] = drawing.partOf[in.application]
           \/ \E wire \in drawing.messages : /\ wire.from = drawing.partOf[out.application]
                                             /\ wire.to = drawing.partOf[in.application]
                                             /\ out.queue \in wire.queues
  IN  r.map # None =>
        \A out, in \in r.map.links :
          /\ out.kind = "publish" /\ in.kind = "consume" /\ out.queue = in.queue
          /\ out.queue \in DOMAIN r.map.queues /\ ~Apart(out.application) /\ ~Apart(in.application)
          => Joined(out, in)

\* Whatever of the four reads failed, and of whatever moments they are, each program told is
\* drawn as what it is.
DrawnAsWhatItIs ==
  OnMap /\ view.read # None =>
    LET drawing == Assembled(view.read)
    IN  PastIsJoined(view.read, drawing) /\ OnlyWhatRunsHere(view.read, drawing) /\ MessagesAreDrawn(view.read, drawing)
=============================================================================
