------------------------------- MODULE Browser -------------------------------
(* What every screen of the panel runs on: the address, the component that is shown,  *)
(* and the requests in flight.  JavaScript runs to completion, so a click, a timer or *)
(* the answer to a request is one step; between two steps requests are served in any  *)
(* order, answered in any order, or lost.  An await ends a step.                      *)
EXTENDS Naturals, Sequences, FiniteSets, FiniteSetsExt, SequencesExt, TLC

CONSTANTS None,    \* null, undefined, nothing
          Slots    \* how many requests may be in flight: 1..n

ASSUME SlotsAssumption == Slots \subseteq Nat /\ IsFiniteSet(Slots)

VARIABLES page,    \* the address: the screen, its parameter, and its query
          view,    \* the signals and fields of the component of the screen
          calls,   \* the requests in flight, by slot
          stored   \* what the service keeps, as far as these screens read and write it

browser == <<page, view, calls, stored>>

-----------------------------------------------------------------------------
(* Requests *)

\* with: what the continuation captured, and the body of the request.
Request(op, at, with) ==
  [op |-> op, at |-> at, with |-> with, stage |-> "sent", answer |-> None]

FreeSlots(table) == {s \in DOMAIN table : table[s] = None}
Room(n) == Cardinality(FreeSlots(calls)) >= n

Placed(table, request) == [table EXCEPT ![Min(FreeSlots(table))] = request]
Plus(table, requests) == FoldLeft(Placed, table, requests)
Less(table, s) == [table EXCEPT ![s] = None]

\* A handler that is not a continuation sends these.
Send(requests) ==
  /\ Room(Len(requests))
  /\ calls' = Plus(calls, requests)

InStage(s, ops, stage) ==
  /\ calls[s] # None
  /\ calls[s].op \in ops
  /\ calls[s].stage = stage

\* The continuation of the request in s runs, on its answer or on its failure, and may
\* send others.  A request fails when it was lost, carried out or not, and when the service
\* refuses it.
Answer(s, op) == InStage(s, {op}, "answered")
Failure(s, op) == calls[s] # None /\ calls[s].op = op
Ends(s, requests) ==
  /\ Room(Len(requests) - 1)
  /\ calls' = Plus(Less(calls, s), requests)

-----------------------------------------------------------------------------
(* The service and the network *)

\* The service carries a request out; its answer is on the way.
Serve(s, answer, after) ==
  /\ calls' = [calls EXCEPT ![s].stage = "answered", ![s].answer = answer]
  /\ stored' = after
  /\ UNCHANGED <<page, view>>

Refuse(s) ==
  /\ calls' = [calls EXCEPT ![s].stage = "refused"]
  /\ UNCHANGED <<page, view, stored>>

-----------------------------------------------------------------------------
(* Going from one screen to another *)

\* The component of a screen is made, asks for what it shows, and the service has kept this.
Opened(o, kept) ==
  /\ page = o.page
  /\ view = o.view
  /\ calls = Plus([s \in Slots |-> None], o.asks)
  /\ stored = kept

\* The component is destroyed; what it asked for is answered to nobody.  Each behaviour is
\* of one screen, so that this is its end.
Elsewhere(screen) ==
  /\ page' = [name |-> "elsewhere", screen |-> screen]
  /\ view' = <<>>
  /\ calls' = [s \in DOMAIN calls |-> None]
=============================================================================
