------------------------------- MODULE MCBroker -------------------------------
(* Small instances of the broker for TLC. *)
EXTENDS BrokerProperties

Plain == [rpc |-> FALSE, ttl |-> 0]
Rpc   == [rpc |-> TRUE,  ttl |-> 0]
Short == [rpc |-> FALSE, ttl |-> 1]

Kept     == [retention |-> 2, limit |-> 1, maxAge |-> 1, redeliver |-> FALSE, paused |-> FALSE]
Returned == [Kept EXCEPT !.redeliver = TRUE]
Stopped  == [Kept EXCEPT !.paused = TRUE]
Thrown   == [Kept EXCEPT !.retention = 1, !.limit = 0, !.maxAge = 0]

TwoLetters == [Kept EXCEPT !.limit = 2, !.retention = 0]
Brief    == [Kept EXCEPT !.retention = 0]

OnlyPlain == {Plain}
OnlyRpc   == {Rpc}
PlainOrShort == {Plain, Short}
PauseOptions == {Stopped}
NarrowOptions == {Thrown}
NoOptions == {}

\* Nothing tells two consumers, messages, names, instances or callers apart.
Symmetry == Permutations(Consumers) \union Permutations(Messages) \union Permutations(Instances)
              \union Permutations(Names) \union Permutations(Callers)
=============================================================================
