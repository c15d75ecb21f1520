----------------------------- MODULE MCFirewall -----------------------------
(* Small instances of Firewall for TLC: addresses of three bits. *)
EXTENDS Firewall

\* The address with number n, and text that is none.
Bits(n) == IF n = Bad THEN Bad ELSE [i \in 1 .. Width |-> (n \div 2 ^ (Width - i)) % 2]
Single(a) == [addr |-> Bits(a), suffix |-> <<>>]
Slash(a, prefix) == [addr |-> Bits(a), suffix |-> <<prefix>>]

LoopbackNet == [net |-> Bits(6), prefix |-> 2]

\* Lists with no entry, host bits set, the same network address twice with another
\* prefix, duplicates at the limit, everything, and lists that must be refused.
SomeRequests ==
  [proxy : {Slash(1, 1)},
   list : {<<>>, <<Slash(3, 2)>>, <<Single(2), Slash(2, 2)>>,
           <<Slash(3, 2), Slash(2, 2), Single(5)>>, <<Slash(5, 0)>>,
           <<Single(2), Single(3), Single(4)>>, <<Single(2), Single(Bad)>>,
           <<Slash(2, 4)>>, <<Slash(2, Bad), Single(3)>>}]
  \cup [proxy : {Slash(4, 1), Slash(4, 0), Single(4), Slash(Bad, 1)},
        list : {<<Slash(2, 2)>>}]
OneRequest == [proxy : {Slash(1, 1)}, list : {<<Slash(2, 2)>>}]

=============================================================================
