----------------------------- MODULE MCLifecycle -----------------------------
(* Small instances of Lifecycle for TLC. *)
EXTENDS Lifecycle, TLC

\* Forwarder incarnations and controllers are interchangeable.
ProcessSymmetry == Permutations(Daemon) \cup Permutations(Controller)

=============================================================================
