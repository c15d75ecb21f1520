------------------------------ MODULE Firewall ------------------------------
(***************************************************************************)
(* The FPROXY_OUT chain of the nat table and the programs of               *)
(* src/src/firewall.c that edit it, one iptables command at a time.        *)
(*                                                                         *)
(* A writer is a process that may be inside fp_firewall_enable,            *)
(* fp_firewall_disable or fp_firewall_is_enabled.  Controllers hold the    *)
(* lock while they do, but a forwarder started by systemd does not, so two *)
(* writers can interleave.  A command can fail without effect, its status  *)
(* can be taken by the forwarder's SIGCHLD handler, and a writer can be    *)
(* killed between any two commands.                                        *)
(*                                                                         *)
(* The configuration that a writer installs comes from a user's request    *)
(* through the parsers and the file of module ConfigFile, so that the      *)
(* properties compare the table with what was asked for.                   *)
(***************************************************************************)
EXTENDS ConfigFile

CONSTANTS
  Writer,     \* processes that edit the table
  Loopback,   \* 127.0.0.0/8
  Request,    \* what users ask for: [proxy |-> entry, list |-> entries]
  NoRequest,  \* nothing has been installed
  Redirect,   \* the rule -p tcp -j REDIRECT; a network n is -d n -j RETURN
  MaxFaults,  \* bound on commands that fail without effect
  MaxJumps    \* bound on the copies of the jump an enable starts from

ASSUME FirewallAssumption ==
  /\ Loopback \in Network
  /\ Request \subseteq [proxy : Entry, list : Seq(Entry)]
  /\ NoRequest \notin Request
  /\ Redirect \notin Network
  /\ MaxFaults \in Nat /\ MaxJumps \in Nat \ {0}

VARIABLES
  chain,      \* FPROXY_OUT exists
  rules,      \* its rules, in order
  jumps,      \* copies of the OUTPUT rule that jumps to it
  op,         \* what each writer was last asked to do
  at,         \* the command it is about to run, "idle" when it has returned
  asked,      \* history: the request behind its config argument
  cfg,        \* the config argument
  next,       \* position in the list of commands it is working through
  reaper,     \* reap_clients is the writer's SIGCHLD handler
  result,     \* "ok" or "fail" once it returned, "killed" if it did not
  faults,     \* commands that have failed without effect
  installed   \* history: request of the last enable to flush the chain

tableVars == <<chain, rules, jumps>>
callVars == <<op, asked, cfg, reaper>>
vars == <<chain, rules, jumps, op, at, asked, cfg, next, reaper, result, faults, installed>>

EnableSteps == {"exists", "create", "flush", "append", "checkjump", "addjump"}
DisableSteps == {"jump", "remove", "chain", "dflush", "delete"}
Steps == {"idle", "check"} \cup EnableSteps \cup DisableSteps

-----------------------------------------------------------------------------
(* The ways of a request to struct fp_config: parsed by the controller that  *)
(* uses it, saved and loaded by another process, or edited in the file.      *)

Way == {"parsed", "saved", "edited"}

Parsed(r) == fp_parse_bypass_list(fp_parse_proxy(Empty, r.proxy), r.list)

Edited(r) ==
  [i \in DOMAIN r.list |-> [key |-> "bypass", value |-> r.list[i]]]
  \o <<[key |-> "other", value |-> r.proxy], [key |-> "proxy", value |-> r.proxy]>>

Configured(r, way) ==
  CASE way = "parsed" -> Parsed(r)
    [] way = "saved"  -> IF Usable(Parsed(r)) THEN fp_config_load(fp_config_save(Parsed(r)))
                         ELSE Parsed(r)
    [] way = "edited" -> fp_config_load(Edited(r))

Host(a) == [net |-> a, prefix |-> Width]

-----------------------------------------------------------------------------
(* iptables.  A command is a record; run_iptables returns 0 iff ok.          *)

ListChain == [do |-> "-S", rule |-> Redirect]
NewChain == [do |-> "-N", rule |-> Redirect]
FlushChain == [do |-> "-F", rule |-> Redirect]
DeleteChain == [do |-> "-X", rule |-> Redirect]
AppendRule(r) == [do |-> "-A", rule |-> r]
CheckRule(r) == [do |-> "-C", rule |-> r]
CheckJump == [do |-> "-C OUTPUT", rule |-> Redirect]
InsertJump == [do |-> "-I OUTPUT", rule |-> Redirect]
DeleteJump == [do |-> "-D OUTPUT", rule |-> Redirect]

\* Does the kernel accept the command?
Accepts(c) ==
  CASE c.do = "-S" -> chain
    [] c.do = "-N" -> ~chain
    [] c.do = "-F" -> chain
    [] c.do = "-X" -> chain /\ rules = <<>> /\ jumps = 0
    [] c.do = "-A" -> chain
    [] c.do = "-C" -> chain /\ c.rule \in ToSet(rules)
    [] c.do = "-C OUTPUT" -> jumps > 0
    [] c.do = "-I OUTPUT" -> chain
    [] c.do = "-D OUTPUT" -> jumps > 0

Apply(c) ==
  /\ chain' = CASE c.do = "-N" -> TRUE [] c.do = "-X" -> FALSE [] OTHER -> chain
  /\ rules' = CASE c.do = "-F" -> <<>>
                [] c.do = "-A" -> Append(rules, c.rule)
                [] OTHER -> rules
  /\ jumps' = CASE c.do = "-I OUTPUT" -> jumps + 1
                [] c.do = "-D OUTPUT" -> jumps - 1
                [] OTHER -> jumps

(***************************************************************************)
(* run_iptables: the command runs and its exit status is returned; or      *)
(* fork, exec or iptables itself fails and the table is untouched; or it   *)
(* takes effect but reap_clients has already waited for the child, waitpid *)
(* says ECHILD and the caller is told that it failed.                      *)
(***************************************************************************)
run_iptables(w, c, ok) ==
  \/ /\ Accepts(c) /\ ok
     /\ Apply(c)
     /\ UNCHANGED faults
  \/ /\ ~Accepts(c) /\ ~ok
     /\ UNCHANGED <<tableVars, faults>>
  \/ /\ ~ok /\ faults < MaxFaults
     /\ faults' = faults + 1
     /\ UNCHANGED tableVars
  \/ /\ ~ok /\ reaper[w] /\ Accepts(c)
     /\ Apply(c)
     /\ UNCHANGED faults

Goto(w, step) ==
  /\ at' = [at EXCEPT ![w] = step]
  /\ UNCHANGED result

Return(w, value) ==
  /\ at' = [at EXCEPT ![w] = "idle"]
  /\ result' = [result EXCEPT ![w] = value]

-----------------------------------------------------------------------------
(* Faulty variants.                                                          *)

\* The rules counted from 0.
Flush_FromZero(w) ==
  /\ at[w] = "flush"
  /\ \E ok \in BOOLEAN :
       /\ run_iptables(w, FlushChain, ok)
       /\ Goto(w, IF ok THEN "append" ELSE "jump")
  /\ next' = [next EXCEPT ![w] = 0]
  /\ installed' = IF rules' = <<>> THEN asked[w] ELSE installed
  /\ UNCHANGED callVars

\* The jump is assumed to be there.
CheckOutput_Assumes(w) ==
  /\ at[w] = "checkjump"
  /\ \E ok \in BOOLEAN : run_iptables(w, CheckJump, ok)
  /\ Return(w, "ok")
  /\ UNCHANGED <<callVars, next, installed>>

\* The exit path keeps reap_clients installed.
StartDisable_ReaperStays(w) ==
  /\ at[w] = "idle"
  /\ at' = [at EXCEPT ![w] = "jump"]
  /\ op' = [op EXCEPT ![w] = "disable"]
  /\ UNCHANGED <<tableVars, asked, cfg, next, reaper, result, faults, installed>>

\* fp_firewall_is_enabled does not look for the jump.
Checks_NoJump(c) ==
  <<ListChain, CheckRule(Host(c.proxy[1])), CheckRule(Loopback), CheckRule(Redirect)>>
  \o [i \in DOMAIN c.bypass |-> CheckRule(c.bypass[i])]

-----------------------------------------------------------------------------
(* fp_firewall_enable                                                        *)

\* The rules, in the order in which they are appended.
Appends(c) == <<Host(c.proxy[1]), Loopback>> \o c.bypass \o <<Redirect>>

StartEnable(w, r, way, sigchld) ==
  /\ at[w] = "idle" /\ jumps < MaxJumps
  /\ Usable(Configured(r, way))
  /\ at' = [at EXCEPT ![w] = "exists"]
  /\ op' = [op EXCEPT ![w] = "enable"]
  /\ asked' = [asked EXCEPT ![w] = r]
  /\ cfg' = [cfg EXCEPT ![w] = Configured(r, way)]
  /\ reaper' = [reaper EXCEPT ![w] = sigchld]
  /\ UNCHANGED <<tableVars, next, result, faults, installed>>

\* !chain_exists()
ChainExists(w) ==
  /\ at[w] = "exists"
  /\ \E ok \in BOOLEAN :
       /\ run_iptables(w, ListChain, ok)
       /\ Goto(w, IF ok THEN "flush" ELSE "create")
  /\ UNCHANGED <<callVars, next, installed>>

\* A failure to create the chain returns without cleaning up.
Create(w) ==
  /\ at[w] = "create"
  /\ \E ok \in BOOLEAN :
       /\ run_iptables(w, NewChain, ok)
       /\ IF ok THEN Goto(w, "flush") ELSE Return(w, "fail")
  /\ UNCHANGED <<callVars, next, installed>>

\* From here on a failure calls fp_firewall_disable before it returns -1.
Flush(w) ==
  /\ at[w] = "flush"
  /\ \E ok \in BOOLEAN :
       /\ run_iptables(w, FlushChain, ok)
       /\ Goto(w, IF ok THEN "append" ELSE "jump")
  /\ next' = [next EXCEPT ![w] = 1]
  /\ installed' = IF rules' = <<>> THEN asked[w] ELSE installed
  /\ UNCHANGED callVars

AppendNext(w) ==
  /\ at[w] = "append"
  /\ \E ok \in BOOLEAN :
       /\ run_iptables(w, AppendRule(Appends(cfg[w])[next[w]]), ok)
       /\ Goto(w, IF ~ok THEN "jump"
                  ELSE IF next[w] = Len(Appends(cfg[w])) THEN "checkjump" ELSE "append")
  /\ next' = [next EXCEPT ![w] = IF at'[w] = "append" THEN @ + 1 ELSE 1]
  /\ UNCHANGED <<callVars, installed>>

CheckOutput(w) ==
  /\ at[w] = "checkjump"
  /\ \E ok \in BOOLEAN :
       /\ run_iptables(w, CheckJump, ok)
       /\ IF ok THEN Return(w, "ok") ELSE Goto(w, "addjump")
  /\ UNCHANGED <<callVars, next, installed>>

AddJump(w) ==
  /\ at[w] = "addjump"
  /\ \E ok \in BOOLEAN :
       /\ run_iptables(w, InsertJump, ok)
       /\ IF ok THEN Return(w, "ok") ELSE Goto(w, "jump")
  /\ UNCHANGED <<callVars, next, installed>>

-----------------------------------------------------------------------------
(* fp_firewall_disable, called on its own or from fp_firewall_enable's       *)
(* failure path, which returns -1 whatever it does.                          *)

\* On the exit path and in a controller SIGCHLD has its default action.
StartDisable(w) ==
  /\ at[w] = "idle"
  /\ at' = [at EXCEPT ![w] = "jump"]
  /\ op' = [op EXCEPT ![w] = "disable"]
  /\ reaper' = [reaper EXCEPT ![w] = FALSE]
  /\ UNCHANGED <<tableVars, asked, cfg, next, result, faults, installed>>

\* while (output_jump_exists())
JumpExists(w) ==
  /\ at[w] = "jump"
  /\ \E ok \in BOOLEAN :
       /\ run_iptables(w, CheckJump, ok)
       /\ Goto(w, IF ok THEN "remove" ELSE "chain")
  /\ UNCHANGED <<callVars, next, installed>>

RemoveJump(w) ==
  /\ at[w] = "remove"
  /\ \E ok \in BOOLEAN :
       /\ run_iptables(w, DeleteJump, ok)
       /\ IF ok THEN Goto(w, "jump") ELSE Return(w, "fail")
  /\ UNCHANGED <<callVars, next, installed>>

DisableResult(w, ok) == IF ok /\ op[w] = "disable" THEN "ok" ELSE "fail"

ChainLeft(w) ==
  /\ at[w] = "chain"
  /\ \E ok \in BOOLEAN :
       /\ run_iptables(w, ListChain, ok)
       /\ IF ok THEN Goto(w, "dflush") ELSE Return(w, DisableResult(w, TRUE))
  /\ UNCHANGED <<callVars, next, installed>>

FlushLeft(w) ==
  /\ at[w] = "dflush"
  /\ \E ok \in BOOLEAN :
       /\ run_iptables(w, FlushChain, ok)
       /\ IF ok THEN Goto(w, "delete") ELSE Return(w, "fail")
  /\ UNCHANGED <<callVars, next, installed>>

Delete(w) ==
  /\ at[w] = "delete"
  /\ \E ok \in BOOLEAN :
       /\ run_iptables(w, DeleteChain, ok)
       /\ Return(w, DisableResult(w, ok))
  /\ UNCHANGED <<callVars, next, installed>>

-----------------------------------------------------------------------------
(* fp_firewall_is_enabled                                                    *)

Checks(c) ==
  <<ListChain, CheckJump, CheckRule(Host(c.proxy[1])), CheckRule(Loopback),
    CheckRule(Redirect)>>
  \o [i \in DOMAIN c.bypass |-> CheckRule(c.bypass[i])]

StartCheck(w, r, way) ==
  /\ at[w] = "idle"
  /\ Usable(Configured(r, way))
  /\ at' = [at EXCEPT ![w] = "check"]
  /\ op' = [op EXCEPT ![w] = "check"]
  /\ asked' = [asked EXCEPT ![w] = r]
  /\ cfg' = [cfg EXCEPT ![w] = Configured(r, way)]
  /\ next' = [next EXCEPT ![w] = 1]
  /\ reaper' = [reaper EXCEPT ![w] = FALSE]
  /\ UNCHANGED <<tableVars, result, faults, installed>>

CheckNext(w) ==
  /\ at[w] = "check"
  /\ \E ok \in BOOLEAN :
       /\ run_iptables(w, Checks(cfg[w])[next[w]], ok)
       /\ IF ~ok THEN Return(w, "fail")
          ELSE IF next[w] = Len(Checks(cfg[w])) THEN Return(w, "ok") ELSE Goto(w, "check")
  /\ next' = [next EXCEPT ![w] = IF at'[w] = "check" THEN @ + 1 ELSE 1]
  /\ UNCHANGED <<callVars, installed>>

-----------------------------------------------------------------------------
\* SIGKILL between two commands: stop_process gives up waiting, or the user does.
Killed(w) ==
  /\ at[w] # "idle"
  /\ Return(w, "killed")
  /\ next' = [next EXCEPT ![w] = 1]
  /\ UNCHANGED <<tableVars, callVars, faults, installed>>

Init ==
  /\ chain = FALSE /\ rules = <<>> /\ jumps = 0
  /\ op = [w \in Writer |-> "none"]
  /\ at = [w \in Writer |-> "idle"]
  /\ asked = [w \in Writer |-> NoRequest]
  /\ cfg = [w \in Writer |-> Empty]
  /\ next = [w \in Writer |-> 1]
  /\ reaper = [w \in Writer |-> FALSE]
  /\ result = [w \in Writer |-> "ok"]
  /\ faults = 0
  /\ installed = NoRequest

Step(w) ==
  \/ ChainExists(w) \/ Create(w) \/ Flush(w) \/ AppendNext(w) \/ CheckOutput(w)
  \/ AddJump(w) \/ JumpExists(w) \/ RemoveJump(w) \/ ChainLeft(w) \/ FlushLeft(w)
  \/ Delete(w) \/ CheckNext(w)

Next ==
  \E w \in Writer :
    \/ \E r \in Request, way \in Way :
         StartCheck(w, r, way) \/ \E sigchld \in BOOLEAN : StartEnable(w, r, way, sigchld)
    \/ StartDisable(w)
    \/ Step(w)
    \/ Killed(w)

Spec == Init /\ [][Next]_vars

-----------------------------------------------------------------------------
(* Properties.                                                               *)

\* Two addresses with the same leading bits.
SameNetwork(a, b, prefix) == \A i \in 1 .. prefix : a[i] = b[i]

\* Is a connection to d sent to the forwarder?  The first matching rule decides.
Redirected(d) ==
  /\ jumps > 0
  /\ \E i \in DOMAIN rules :
       /\ rules[i] = Redirect
       /\ \A j \in 1 .. i - 1 :
            rules[j] # Redirect /\ ~SameNetwork(d, rules[j].net, rules[j].prefix)

\* Destinations that a request wants reached without the forwarder, read off its text.
Direct(r) ==
  {d \in Address : \/ d = r.proxy.addr
                   \/ SameNetwork(d, Loopback.net, Loopback.prefix)
                   \/ \E i \in DOMAIN r.list : SameNetwork(d, r.list[i].addr, Prefix(r.list[i]))}

Returned(w, name, value) == at[w] = "idle" /\ op[w] = name /\ result[w] = value

\* Every variable keeps its type.
TypeOK ==
  /\ chain \in BOOLEAN /\ rules \in Seq(Network \cup {Redirect}) /\ jumps \in Nat
  /\ op \in [Writer -> {"none", "enable", "disable", "check"}]
  /\ at \in [Writer -> Steps]
  /\ asked \in [Writer -> Request \cup {NoRequest}]
  /\ cfg \in [Writer -> [ok : BOOLEAN, proxy : {<<>>} \cup (Address \X (1 .. MaxPort)),
                        bypass : Seq(Network)]]
  /\ \A w \in Writer : Len(cfg[w].bypass) <= MaxBypass
  /\ next \in [Writer -> Nat \ {0}]
  /\ reaper \in [Writer -> BOOLEAN]
  /\ result \in [Writer -> {"ok", "fail", "killed"}]
  /\ faults \in 0 .. MaxFaults
  /\ installed \in Request \cup {NoRequest}

\* README: direct destinations do not use SOCKS5.  At no instant, whichever command
\* failed or was the last before a kill, is a connection to the SOCKS5 server, to
\* loopback or to an entry of the list being installed sent back into the forwarder,
\* however often the list was written and read; a list with an entry that is not
\* understood is never installed without it.
DirectStaysDirect ==
  installed # NoRequest =>
    /\ \A i \in DOMAIN installed.list : Valid(installed.list[i])
    /\ \A d \in Direct(installed) : ~Redirected(d)

\* fp_firewall_enable returns 0 only when every destination that was not asked to be
\* direct is redirected.
EnableComplete ==
  \A w \in Writer : Returned(w, "enable", "ok") =>
    \A d \in Address \ Direct(asked[w]) : Redirected(d)

\* fp_firewall_disable returns 0 only when nothing is redirected, even though it
\* cannot tell a failed test command from an absent rule.
DisableUnhooks ==
  \A w \in Writer : Returned(w, "disable", "ok") => jumps = 0

\* fp_firewall_is_enabled tests rules one by one: not their order, and not whether there
\* are others.  What a return of 1 does say is that all rules of the request being
\* installed are in place, so that exactly its destinations are direct, and that they
\* contain those of the request asked about.  Surplus ones go unnoticed: after a longer
\* list was installed, 1 is returned for a shorter one.
CheckSound ==
  \A w \in Writer : Returned(w, "check", "ok") =>
    /\ Direct(asked[w]) \subseteq Direct(installed)
    /\ \A d \in Address : Redirected(d) <=> d \notin Direct(installed)

\* It returns 0 only when the rules of the request are not in place (or a command
\* failed), whichever process installed them: the status page, which loads the file,
\* agrees with the controller that applied a list it had only parsed.
CheckComplete ==
  \A w \in Writer : Returned(w, "check", "fail") /\ faults = 0 =>
    ~(jumps > 0 /\ \E way \in Way : rules = Appends(Configured(asked[w], way)))

\* The README's limitation list: direct destinations are matched before redirection,
\* once the operations on the table have returned successfully.
MatchedBeforeRedirection ==
  (\A w \in Writer : at[w] = "idle" /\ result[w] = "ok") => DirectStaysDirect

=============================================================================
