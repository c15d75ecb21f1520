----------------------------- MODULE MCNetTest -----------------------------
(* Two sites, two downloads, lookups with two addresses, and a pipe that     *)
(* fills up: every wait of the worker for the page happens.                  *)
EXTENDS NetTest

=============================================================================
