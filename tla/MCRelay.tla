------------------------------- MODULE MCRelay -------------------------------
(* A small instance of Relay for TLC. *)
EXTENDS Relay, TLC

\* A refused method or request, an answer cut short.
SomeRefusals == {<<5, 255>>, <<5>>}

=============================================================================
