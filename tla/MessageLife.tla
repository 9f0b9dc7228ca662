----------------------------- MODULE MessageLife -----------------------------
(***************************************************************************)
(* What the broker promises about a message, whatever queue it is in and   *)
(* whoever carries it: it lives one life, from unborn to over, is held by  *)
(* one consumer at most, and a consumer holds one message at most.  Only   *)
(* where redelivery is allowed does a held message go back to wait; what   *)
(* is answered is answered for one asker; what is over stays over.         *)
(*                                                                         *)
(*   unborn -> sent -> waiting -> held -> over          (push)             *)
(*                        |        | \--> answered -> pushed -> over       *)
(*                        |        \----> waiting       (redelivery)       *)
(*                        |-> awaited -> answered       (taken by asking)  *)
(*                        \-> over                      (taken or dead)    *)
(***************************************************************************)
CONSTANTS Messages, Consumers, None,
          MayReturn  (* some queue is set up to redeliver *)

VARIABLES
  life,    (* message -> the stage of its life                      *)
  holder   (* message -> the consumer it was pushed to, or None     *)

vars == << life, holder >>

Init ==
  /\ life = [m \in Messages |-> "unborn"]
  /\ holder = [m \in Messages |-> None]

Moves(m, from, to) ==
  /\ life[m] = from
  /\ life' = [life EXCEPT ![m] = to]
  /\ holder' = [holder EXCEPT ![m] = None]

Publish(m) == Moves(m, "unborn", "sent")
Queue(m)   == Moves(m, "sent", "waiting")

\* A consumer is given a message only when it holds no other.
Deliver(m, c) ==
  /\ life[m] = "waiting"
  /\ \A x \in Messages : holder[x] # c
  /\ life' = [life EXCEPT ![m] = "held"]
  /\ holder' = [holder EXCEPT ![m] = c]

\* The holder confirms it, or is gone.
Settle(m) == Moves(m, "held", "over")
Return(m) == MayReturn /\ Moves(m, "held", "waiting")

\* Asked for the 1.x way: a plain message is finished, an RPC one awaits its answer.
Take(m) == Moves(m, "waiting", "over") \/ Moves(m, "waiting", "awaited")

\* The answer is pushed to whoever waits for it, or kept.  A 1.x client may
\* answer what was never delivered.
Answer(m) == \E from \in {"held", "awaited", "waiting", "answered"}, to \in {"answered", "pushed"} :
               Moves(m, from, to)

Collect(m) == Moves(m, "answered", "over")
Hand(m)    == Moves(m, "pushed", "over")

\* Dead, purged, or not collected in time: several at once, and never one that is held.
Discard(ms) ==
  /\ \A m \in ms : life[m] \in {"waiting", "awaited", "answered"}
  /\ life' = [m \in Messages |-> IF m \in ms THEN "over" ELSE life[m]]
  /\ UNCHANGED holder

Next ==
  \/ \E m \in Messages :
       \/ Publish(m) \/ Queue(m) \/ (\E c \in Consumers : Deliver(m, c))
       \/ Settle(m) \/ Return(m) \/ Take(m) \/ Answer(m) \/ Collect(m) \/ Hand(m)
  \/ \E ms \in SUBSET Messages : Discard(ms)

Spec == Init /\ [][Next]_vars
==============================================================================
