----------------------------- MODULE MCForwarder -----------------------------
(* Small instances of Forwarder for TLC. *)
EXTENDS Forwarder, TLC

\* Workers are interchangeable: no definition tells one pid from another.
PidSymmetry == Permutations(Pid)

=============================================================================
