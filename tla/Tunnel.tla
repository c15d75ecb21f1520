-------------------------------- MODULE Tunnel --------------------------------
(***************************************************************************)
(* What a proxied connection promises its two ends: two independent byte   *)
(* streams with half-close, or a connection that is broken.  Each end gets *)
(* a prefix of what the other end sent, in order, and unless the           *)
(* connection is broken it is told that the stream has ended only after    *)
(* the other end has closed it and after its last byte.  Module Relay      *)
(* implements it.                                                          *)
(***************************************************************************)
EXTENDS Integers, Sequences

CONSTANT Byte

VARIABLES
  sent,    \* sent[e]: the bytes end e has sent, in order
  got,     \* got[e]: the bytes end e has received
  closed,  \* closed[e]: e sends no more
  eof,     \* eof[e]: e was told that it receives no more
  broken   \* an end has reset the connection, or the relay has given it up

vars == <<sent, got, closed, eof, broken>>

End == {"client", "server"}
Other(e) == IF e = "client" THEN "server" ELSE "client"

Init ==
  /\ sent = [e \in End |-> <<>>] /\ got = [e \in End |-> <<>>]
  /\ closed = [e \in End |-> FALSE] /\ eof = [e \in End |-> FALSE]
  /\ broken = FALSE

Send(e) ==
  /\ ~closed[e]
  /\ \E b \in Byte : sent' = [sent EXCEPT ![e] = Append(@, b)]
  /\ UNCHANGED <<got, closed, eof, broken>>

Deliver(e) ==
  /\ ~eof[e] /\ Len(got[e]) < Len(sent[Other(e)])
  /\ got' = [got EXCEPT ![e] = Append(@, sent[Other(e)][Len(@) + 1])]
  /\ UNCHANGED <<sent, closed, eof, broken>>

Finish(e) ==
  /\ closed' = [closed EXCEPT ![e] = TRUE]
  /\ broken' \in {broken, TRUE}
  /\ UNCHANGED <<sent, got, eof>>

Break ==
  /\ broken' = TRUE
  /\ UNCHANGED <<sent, got, closed, eof>>

EndOfStream(e) ==
  /\ broken \/ (closed[Other(e)] /\ got[e] = sent[Other(e)])
  /\ eof' = [eof EXCEPT ![e] = TRUE]
  /\ UNCHANGED <<sent, got, closed, broken>>

Next ==
  \/ \E e \in End : Send(e) \/ Deliver(e) \/ Finish(e) \/ EndOfStream(e)
  \/ Break

Spec == Init /\ [][Next]_vars

=============================================================================
