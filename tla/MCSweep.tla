------------------------------- MODULE MCSweep -------------------------------
(* Model-checking instances of Sweep: a service whose name extends          *)
(* another's, and the ways a reading of the services can fail.              *)
EXTENDS Sweep

CONSTANTS d1, d2, signed, unsigned

Foo == [kind |-> "service", scope |-> <<"services", "foo">>, name |-> "foo"]
FooBar == [kind |-> "service", scope |-> <<"services", "foobar">>, name |-> "foobar"]

\* Unreadable::within one key, Unreadable::of the whole kind, and a gap of
\* another kind over the same places.
FooKey == [kinds |-> {"service"}, scopes |-> {<<"services", "foo">>}]
EveryService == [kinds |-> {"service"}, scopes |-> {}]
OtherKind == [kinds |-> {"run_key"}, scopes |-> {<<"services">>}]

TwoThings == {Foo, FooBar}
AllSources == {FooKey, EveryService, OtherKind}
=============================================================================
