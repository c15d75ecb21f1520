------------------------------ MODULE ConfigFile ------------------------------
(***************************************************************************)
(* The configuration and its file (src/src/config.c): how a SOCKS5 server  *)
(* and a list of direct destinations are parsed, saved and loaded.         *)
(*                                                                         *)
(* An address is its Width bits, the most significant one first.  Text is  *)
(* modelled by what the parsers find in it: an entry is an address, or Bad *)
(* when inet_pton refuses it, with what follows its separator (":" of a    *)
(* server, "/" of a network) as a sequence of at most one number, Bad when *)
(* strtol refuses it.                                                      *)
(***************************************************************************)
EXTENDS Integers, Sequences, SequencesExt

CONSTANTS
  Width,      \* bits of an address: 32
  MaxBypass,  \* FP_MAX_BYPASS
  MaxPort,    \* 65535
  Bad         \* text that is not a number or not an address

Address == [1 .. Width -> {0, 1}]

ASSUME ConfigAssumption ==
  /\ Width \in Nat \ {0} /\ MaxBypass \in Nat /\ MaxPort \in Nat
  /\ Bad \notin Int \cup Address

Network == [net : Address, prefix : 0 .. Width]
Entry == [addr : Address \cup {Bad}, suffix : {<<>>} \cup [{1} -> Int \cup {Bad}]]

\* struct fp_config: ok is FALSE once something did not parse, proxy is <<>> until a
\* server was read.
Empty == [ok |-> TRUE, proxy |-> <<>>, bypass |-> <<>>]
Usable(c) == c.ok /\ c.proxy # <<>>

-----------------------------------------------------------------------------
(* Parsing.                                                                  *)

\* An entry without a slash is one address.
Prefix(e) == IF e.suffix = <<>> THEN Width ELSE e.suffix[1]
Valid(e) == e.addr # Bad /\ Prefix(e) \in 0 .. Width

\* host_address & mask
Masked(a, prefix) == [i \in 1 .. Width |-> IF i <= prefix THEN a[i] ELSE 0]

\* A network is taken for a duplicate of any network with its address.
append_bypass_AnyPrefix(c, e) ==
  LET n == [net |-> Masked(e.addr, Prefix(e)), prefix |-> Prefix(e)]
  IN IF ~Valid(e) \/ Len(c.bypass) >= MaxBypass
     THEN [c EXCEPT !.ok = FALSE]
     ELSE [c EXCEPT !.bypass = IF \E i \in DOMAIN @ : @[i].net = n.net
                               THEN @ ELSE Append(@, n)]

\* Duplicates are dropped; a full list refuses them too.
append_bypass(c, e) ==
  LET n == [net |-> Masked(e.addr, Prefix(e)), prefix |-> Prefix(e)]
  IN IF ~Valid(e) \/ Len(c.bypass) >= MaxBypass
     THEN [c EXCEPT !.ok = FALSE]
     ELSE [c EXCEPT !.bypass = IF Contains(@, n) THEN @ ELSE Append(@, n)]

fp_parse_proxy(c, e) ==
  IF e.addr # Bad /\ e.suffix # <<>> /\ Prefix(e) \in 1 .. MaxPort
  THEN [c EXCEPT !.proxy = <<e.addr, Prefix(e)>>]
  ELSE [c EXCEPT !.ok = FALSE]

\* The first entry that is refused empties the list.
fp_parse_bypass_list(c, list) ==
  LET parsed == FoldLeft(append_bypass, [c EXCEPT !.bypass = <<>>], list)
  IN IF parsed.ok THEN parsed ELSE [parsed EXCEPT !.bypass = <<>>]

-----------------------------------------------------------------------------
(* The file.                                                                 *)

\* The prefix is not written.
Text_NoPrefix(n) == [addr |-> n.net, suffix |-> <<>>]

\* The text of struct fp_bypass: no prefix for a single address.
Text(n) == [addr |-> n.net, suffix |-> IF n.prefix = Width THEN <<>> ELSE <<n.prefix>>]

\* fp_config_save writes a temporary file and renames it: a reader sees the old
\* lines or these.
fp_config_save(c) ==
  <<[key |-> "proxy", value |-> [addr |-> c.proxy[1], suffix |-> <<c.proxy[2]>>]]>>
  \o [i \in DOMAIN c.bypass |-> [key |-> "bypass", value |-> Text(c.bypass[i])]]

LoadLine(c, line) ==
  CASE line.key = "proxy"  -> fp_parse_proxy(c, line.value)
    [] line.key = "bypass" -> append_bypass(c, line.value)
    [] line.key = "other"  -> c

\* A file with any line that does not parse is refused.
fp_config_load(lines) == FoldLeft(LoadLine, Empty, lines)

=============================================================================
