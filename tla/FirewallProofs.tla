--------------------------- MODULE FirewallProofs ---------------------------
(***************************************************************************)
(* Proofs about modules ConfigFile and Firewall, for any number of bits,   *)
(* entries and requests: which configuration a request becomes, whichever  *)
(* way it takes, and what the table does with it.                          *)
(***************************************************************************)
EXTENDS Firewall, WellFoundedInduction, TLAPS

-----------------------------------------------------------------------------
(* Induction over numbers, and the largest of a set of them.                 *)

\* A set of numbers has a least element.
LEMMA Least ==
  ASSUME NEW T, T \subseteq Nat, T # {}
  PROVE  \E n \in T : \A m \in T : n <= m
<1> DEFINE R == OpToRel(<, Nat)
<1>1. IsWellFoundedOn(R, Nat)
  BY NatLessThanWellFounded
<1>2. R = {p \in Nat \X Nat : p[1] < p[2]}
  BY DEF OpToRel
<1> HIDE DEF R
<1>3. PICK n \in T : \A m \in T : ~(<<m, n>> \in R)
  BY <1>1, WFMin
<1>4. \A m \in T : m \in Nat /\ n \in Nat /\ (<<m, n>> \in R <=> m < n)
  BY <1>2
<1>5. ASSUME NEW m \in T PROVE n <= m
  <2>1. m \in Nat /\ n \in Nat /\ (<<m, n>> \in R <=> m < n)
    BY <1>4
  <2>2. <<m, n>> \notin R
    BY <1>3
  <2>3. ~(m < n)
    BY <2>1, <2>2
  <2> QED
    BY <2>1, <2>3
<1> QED
  BY <1>5

\* What holds of 0 and of m + 1 if of m holds up to n.
LEMMA Induct ==
  ASSUME NEW n \in Nat, NEW T, 0 \in T, \A m \in 0 .. n - 1 : m \in T => m + 1 \in T
  PROVE  \A m \in 0 .. n : m \in T
<1> SUFFICES ASSUME \E m \in 0 .. n : m \notin T PROVE FALSE
  OBVIOUS
<1>1. (0 .. n) \ T \subseteq Nat /\ (0 .. n) \ T # {}
  OBVIOUS
<1>2. PICK m \in (0 .. n) \ T : \A k \in (0 .. n) \ T : m <= k
  BY <1>1, Least, Zenon
<1>3. m # 0 /\ m \in Nat
  OBVIOUS
<1>4. m - 1 \in 0 .. n /\ m - 1 \in 0 .. n - 1 /\ m - 1 + 1 = m
  BY <1>3
<1>5. m - 1 \in T
  BY <1>2, <1>4
<1> QED
  BY <1>4, <1>5

\* Max yields the largest element.
LEMMA Largest ==
  ASSUME NEW n \in Nat, NEW S, S \subseteq 1 .. n, S # {}
  PROVE  Max(S) \in S /\ \A k \in S : Max(S) >= k
<1> DEFINE T == {n - k : k \in S}
<1>1. T \subseteq Nat /\ T # {}
  OBVIOUS
<1>2. PICK m \in T : \A k \in T : m <= k
  BY <1>1, Least, Zenon
<1>3. PICK x \in S : m = n - x
  OBVIOUS
<1>4. ASSUME NEW k \in S PROVE x >= k
  <2>1. n - k \in T /\ k \in Nat /\ x \in Nat
    OBVIOUS
  <2>2. n - x <= n - k
    BY <1>2, <1>3, <2>1
  <2> QED
    BY <2>1, <2>2
<1>5. \E y \in S : \A k \in S : y >= k
  BY <1>4
<1> QED
  BY <1>5 DEF Max

\* An element that no other exceeds is the largest.
LEMMA LargestIs ==
  ASSUME NEW n \in Nat, NEW S, S \subseteq 1 .. n, NEW k \in S, \A j \in S : j <= k
  PROVE  Max(S) = k
<1>1. PICK m \in S : m = Max(S) /\ m >= k
  BY Largest
<1>2. m \in Nat /\ k \in Nat /\ m <= k
  OBVIOUS
<1> QED
  BY <1>1, <1>2

\* What a concatenation consists of.
LEMMA Concat ==
  ASSUME NEW S, NEW s \in Seq(S), NEW t \in Seq(S)
  PROVE  /\ s \o t \in Seq(S) /\ Len(s \o t) = Len(s) + Len(t)
         /\ DOMAIN (s \o t) = 1 .. Len(s) + Len(t)
         /\ \A i \in 1 .. Len(s) : (s \o t)[i] = s[i]
         /\ \A i \in 1 .. Len(t) : (s \o t)[Len(s) + i] = t[i]
OBVIOUS

-----------------------------------------------------------------------------
(* Folds: FoldLeft(op, c, s) is the last of the values that op leads to from *)
(* c, one element of s after the other.                                      *)

ListFold(c, s) == FoldLeft(append_bypass, c, s)
ListRun(run, c, s, n) ==
  /\ run[0] = c /\ \A i \in 0 .. n - 1 : run[i + 1] = append_bypass(run[i], s[i + 1])
  /\ ListFold(c, s) = run[n]
FileFold(c, s) == FoldLeft(LoadLine, c, s)
FileRun(run, c, s, n) ==
  /\ run[0] = c /\ \A i \in 0 .. n - 1 : run[i + 1] = LoadLine(run[i], s[i + 1])
  /\ FileFold(c, s) = run[n]

\* The values that fp_parse_bypass_list goes through.
LEMMA ListRunExists ==
  ASSUME NEW c, NEW s, NEW n \in Nat, DOMAIN s = 1 .. n
  PROVE  \E run : ListRun(run, c, s, n)
<1> DEFINE Next1(f, S) == IF S = {} THEN c ELSE append_bypass(f[S \ {Max(S)}], s[Max(S)])
           Fold(f, m) == f = [S \in SUBSET (1 .. m) |-> Next1(f, S)]
           T == {m \in Nat : \E f : Fold(f, m)}
<1>1. 0 \in T
  <2> DEFINE f == [S \in SUBSET (1 .. 0) |-> c]
  <2>1. \A S \in SUBSET (1 .. 0) : S = {}
    OBVIOUS
  <2>2. Fold(f, 0)
    BY <2>1
  <2> QED
    BY <2>2
<1>2. ASSUME NEW m \in 0 .. n - 1, m \in T PROVE m + 1 \in T
  <2>1. PICK f : Fold(f, m)
    BY <1>2
  <2> DEFINE g == [S \in SUBSET (1 .. m + 1) |->
                     IF m + 1 \in S THEN append_bypass(f[S \ {m + 1}], s[m + 1]) ELSE f[S]]
  <2>2. ASSUME NEW S \in SUBSET (1 .. m + 1) PROVE g[S] = Next1(g, S)
    <3>1. CASE m + 1 \in S
      <4>1. Max(S) = m + 1
        BY <3>1, LargestIs, m + 1 \in Nat, \A k \in 1 .. m + 1 : k <= m + 1
      <4>2. S \ {m + 1} \in SUBSET (1 .. m + 1) /\ m + 1 \notin S \ {m + 1} /\ S # {}
        BY <3>1
      <4>3. g[S \ {m + 1}] = f[S \ {m + 1}]
        BY <4>2, Zenon
      <4> QED
        BY <3>1, <4>1, <4>2, <4>3, Zenon
    <3>2. CASE m + 1 \notin S
      <4>1. S \in SUBSET (1 .. m)
        BY <3>2
      <4>2. g[S] = f[S] /\ f[S] = Next1(f, S)
        BY <2>1, <3>2, <4>1, Zenon
      <4>3. S \ {Max(S)} \in SUBSET (1 .. m + 1) /\ m + 1 \notin S \ {Max(S)}
        BY <3>2, Zenon
      <4>4. g[S \ {Max(S)}] = f[S \ {Max(S)}]
        BY <4>3, Zenon
      <4> QED
        BY <4>2, <4>4, Zenon
    <3> QED
      BY <3>1, <3>2
  <2>3. Fold(g, m + 1)
    BY <2>2, Zenon
  <2>4. m + 1 \in Nat
    OBVIOUS
  <2> QED
    BY <2>3, <2>4, Zenon
<1> HIDE DEF T
<1>3. n \in T
  BY <1>1, <1>2, Induct, n \in 0 .. n
<1>4. \E f : Fold(f, n)
  BY <1>3 DEF T
<1> DEFINE fold == CHOOSE f : Fold(f, n)
<1>5. Fold(fold, n)
  BY <1>4, Zenon
<1>6. ListFold(c, s) = fold[1 .. n]
  BY DEF ListFold, FoldLeft, MapThenFoldSet
<1> HIDE DEF fold
<1> DEFINE run == [i \in 0 .. n |-> fold[1 .. i]]
<1>7. run[0] = c
  <2>1. 1 .. 0 = {} /\ 1 .. 0 \in SUBSET (1 .. n) /\ 0 \in 0 .. n
    OBVIOUS
  <2> QED
    BY <1>5, <2>1, Zenon
<1>8. ASSUME NEW i \in 0 .. n - 1 PROVE run[i + 1] = append_bypass(run[i], s[i + 1])
  <2>1. /\ 1 .. i + 1 \in SUBSET (1 .. n) /\ 1 .. i + 1 # {} /\ i + 1 \in 1 .. i + 1
        /\ (1 .. i + 1) \ {i + 1} = 1 .. i /\ i \in 0 .. n /\ i + 1 \in 0 .. n /\ i + 1 \in Nat
    OBVIOUS
  <2>2. Max(1 .. i + 1) = i + 1
    BY <2>1, LargestIs, \A k \in 1 .. i + 1 : k <= i + 1
  <2>3. fold[1 .. i + 1] = append_bypass(fold[1 .. i], s[i + 1])
    BY <1>5, <2>1, <2>2, Zenon
  <2> QED
    BY <2>1, <2>3, Zenon
<1>9. run[n] = fold[1 .. n]
  OBVIOUS
<1> HIDE DEF run
<1>10. ListRun(run, c, s, n)
  BY <1>6, <1>7, <1>8, <1>9, Zenon DEF ListRun
<1> QED
  BY <1>10

\* The values that fp_config_load goes through.
LEMMA FileRunExists ==
  ASSUME NEW c, NEW s, NEW n \in Nat, DOMAIN s = 1 .. n
  PROVE  \E run : FileRun(run, c, s, n)
<1> DEFINE Next1(f, S) == IF S = {} THEN c ELSE LoadLine(f[S \ {Max(S)}], s[Max(S)])
           Fold(f, m) == f = [S \in SUBSET (1 .. m) |-> Next1(f, S)]
           T == {m \in Nat : \E f : Fold(f, m)}
<1>1. 0 \in T
  <2> DEFINE f == [S \in SUBSET (1 .. 0) |-> c]
  <2>1. \A S \in SUBSET (1 .. 0) : S = {}
    OBVIOUS
  <2>2. Fold(f, 0)
    BY <2>1
  <2> QED
    BY <2>2
<1>2. ASSUME NEW m \in 0 .. n - 1, m \in T PROVE m + 1 \in T
  <2>1. PICK f : Fold(f, m)
    BY <1>2
  <2> DEFINE g == [S \in SUBSET (1 .. m + 1) |->
                     IF m + 1 \in S THEN LoadLine(f[S \ {m + 1}], s[m + 1]) ELSE f[S]]
  <2>2. ASSUME NEW S \in SUBSET (1 .. m + 1) PROVE g[S] = Next1(g, S)
    <3>1. CASE m + 1 \in S
      <4>1. Max(S) = m + 1
        BY <3>1, LargestIs, m + 1 \in Nat, \A k \in 1 .. m + 1 : k <= m + 1
      <4>2. S \ {m + 1} \in SUBSET (1 .. m + 1) /\ m + 1 \notin S \ {m + 1} /\ S # {}
        BY <3>1
      <4>3. g[S \ {m + 1}] = f[S \ {m + 1}]
        BY <4>2, Zenon
      <4> QED
        BY <3>1, <4>1, <4>2, <4>3, Zenon
    <3>2. CASE m + 1 \notin S
      <4>1. S \in SUBSET (1 .. m)
        BY <3>2
      <4>2. g[S] = f[S] /\ f[S] = Next1(f, S)
        BY <2>1, <3>2, <4>1, Zenon
      <4>3. S \ {Max(S)} \in SUBSET (1 .. m + 1) /\ m + 1 \notin S \ {Max(S)}
        BY <3>2, Zenon
      <4>4. g[S \ {Max(S)}] = f[S \ {Max(S)}]
        BY <4>3, Zenon
      <4> QED
        BY <4>2, <4>4, Zenon
    <3> QED
      BY <3>1, <3>2
  <2>3. Fold(g, m + 1)
    BY <2>2, Zenon
  <2>4. m + 1 \in Nat
    OBVIOUS
  <2> QED
    BY <2>3, <2>4, Zenon
<1> HIDE DEF T
<1>3. n \in T
  BY <1>1, <1>2, Induct, n \in 0 .. n
<1>4. \E f : Fold(f, n)
  BY <1>3 DEF T
<1> DEFINE fold == CHOOSE f : Fold(f, n)
<1>5. Fold(fold, n)
  BY <1>4, Zenon
<1>6. FileFold(c, s) = fold[1 .. n]
  BY DEF FileFold, FoldLeft, MapThenFoldSet
<1> HIDE DEF fold
<1> DEFINE run == [i \in 0 .. n |-> fold[1 .. i]]
<1>7. run[0] = c
  <2>1. 1 .. 0 = {} /\ 1 .. 0 \in SUBSET (1 .. n) /\ 0 \in 0 .. n
    OBVIOUS
  <2> QED
    BY <1>5, <2>1, Zenon
<1>8. ASSUME NEW i \in 0 .. n - 1 PROVE run[i + 1] = LoadLine(run[i], s[i + 1])
  <2>1. /\ 1 .. i + 1 \in SUBSET (1 .. n) /\ 1 .. i + 1 # {} /\ i + 1 \in 1 .. i + 1
        /\ (1 .. i + 1) \ {i + 1} = 1 .. i /\ i \in 0 .. n /\ i + 1 \in 0 .. n /\ i + 1 \in Nat
    OBVIOUS
  <2>2. Max(1 .. i + 1) = i + 1
    BY <2>1, LargestIs, \A k \in 1 .. i + 1 : k <= i + 1
  <2>3. fold[1 .. i + 1] = LoadLine(fold[1 .. i], s[i + 1])
    BY <1>5, <2>1, <2>2, Zenon
  <2> QED
    BY <2>1, <2>3, Zenon
<1>9. run[n] = fold[1 .. n]
  OBVIOUS
<1> HIDE DEF run
<1>10. FileRun(run, c, s, n)
  BY <1>6, <1>7, <1>8, <1>9, Zenon DEF FileRun
<1> QED
  BY <1>10

-----------------------------------------------------------------------------
(* What a request becomes.                                                   *)

\* The network of an entry, what the parsers admit, and a list with one more.
Net(e) == [net |-> Masked(e.addr, Prefix(e)), prefix |-> Prefix(e)]
Admits(b, e) == Valid(e) /\ Len(b) < MaxBypass
Added(b, e) == IF ~Admits(b, e) \/ Contains(b, Net(e)) THEN b ELSE Append(b, Net(e))
Server(e) == e.addr # Bad /\ e.suffix # <<>> /\ Prefix(e) \in 1 .. MaxPort

\* struct fp_config as the parsers leave it: at most MaxBypass networks, none of them
\* twice, their host bits cleared.
Conf == [ok : BOOLEAN, proxy : {<<>>} \cup (Address \X (1 .. MaxPort)), bypass : Seq(Network)]
Bounded(b) == b \in Seq(Network) /\ Len(b) <= MaxBypass
Cleared(b) == \A i \in 1 .. Len(b) : Masked(b[i].net, b[i].prefix) = b[i].net
Distinct(b) == \A i, j \in 1 .. Len(b) : b[i] = b[j] => i = j
Clean(c) == c \in Conf /\ Bounded(c.bypass) /\ Cleared(c.bypass) /\ Distinct(c.bypass)

\* An entry's network is one, without host bits.
LEMMA NetOf ==
  ASSUME NEW e, e.addr \in Address \cup {Bad}, Valid(e)
  PROVE  /\ Net(e) \in Network /\ Masked(Net(e).net, Net(e).prefix) = Net(e).net
         /\ e.addr \in Address /\ Prefix(e) \in 0 .. Width
<1>1. e.addr \in Address /\ Prefix(e) \in 0 .. Width
  BY DEF Valid
<1>2. Masked(e.addr, Prefix(e)) \in Address
  BY <1>1 DEF Masked, Address
<1>3. Net(e) \in Network
  BY <1>1, <1>2 DEF Net, Network
<1>4. Masked(Masked(e.addr, Prefix(e)), Prefix(e)) = Masked(e.addr, Prefix(e))
  BY <1>1 DEF Masked, Address
<1> QED
  BY <1>1, <1>3, <1>4 DEF Net

\* Setting a field.
LEMMA SetOk ==
  ASSUME NEW c \in Conf, NEW v
  PROVE  [c EXCEPT !.ok = v] = [ok |-> v, proxy |-> c.proxy, bypass |-> c.bypass]
BY DEF Conf

\* An entry that is refused leaves the rest of the configuration alone.
LEMMA Refused ==
  ASSUME NEW c \in Conf, NEW d, d = [c EXCEPT !.ok = FALSE]
  PROVE  d \in Conf /\ ~d.ok /\ d.proxy = c.proxy /\ d.bypass = c.bypass
<1>1. d = [ok |-> FALSE, proxy |-> c.proxy, bypass |-> c.bypass]
  BY SetOk, Zenon
<1>2. c.proxy \in {<<>>} \cup (Address \X (1 .. MaxPort)) /\ c.bypass \in Seq(Network)
  BY DEF Conf
<1> QED
  BY <1>1, <1>2 DEF Conf

\* What append_bypass does, field by field.
LEMMA Appended ==
  ASSUME NEW c \in Conf, NEW e, NEW d, d = append_bypass(c, e)
  PROVE  /\ d.proxy = c.proxy /\ d.bypass = Added(c.bypass, e)
         /\ d.ok <=> c.ok /\ Admits(c.bypass, e)
         /\ Added(c.bypass, e) \in Seq(Network) => d \in Conf
<1>1. c.ok \in BOOLEAN /\ Len(c.bypass) \in Nat
      /\ c.proxy \in {<<>>} \cup (Address \X (1 .. MaxPort))
  BY DEF Conf
<1>2. CASE Admits(c.bypass, e)
  <2> DEFINE a == IF Contains(c.bypass, Net(e)) THEN c.bypass ELSE Append(c.bypass, Net(e))
  <2>1. ~(~Valid(e) \/ Len(c.bypass) >= MaxBypass)
    BY <1>1, <1>2, ConfigAssumption DEF Admits
  <2>2. d = [c EXCEPT !.bypass = a]
    BY <2>1 DEF append_bypass, Net
  <2>3. Added(c.bypass, e) = a
    BY <1>2 DEF Added
  <2>4. d = [c EXCEPT !.bypass = Added(c.bypass, e)]
    BY <2>2, <2>3
  <2> HIDE DEF Added
  <2>5. d = [ok |-> c.ok, proxy |-> c.proxy, bypass |-> Added(c.bypass, e)]
    BY <2>4 DEF Conf
  <2> QED
    BY <1>1, <1>2, <2>5 DEF Conf
<1>3. CASE ~Admits(c.bypass, e)
  <2>1. ~Valid(e) \/ Len(c.bypass) >= MaxBypass
    BY <1>1, <1>3, ConfigAssumption DEF Admits
  <2>2. d = [c EXCEPT !.ok = FALSE]
    BY <2>1 DEF append_bypass
  <2>3. Added(c.bypass, e) = c.bypass
    BY <1>3 DEF Added
  <2> QED
    BY <1>3, <2>2, <2>3, Refused
<1> QED
  BY <1>2, <1>3

\* What fp_parse_proxy does, field by field.
LEMMA ServerParsed ==
  ASSUME NEW c \in Conf, NEW e, e.addr \in Address \cup {Bad}, NEW d, d = fp_parse_proxy(c, e)
  PROVE  /\ d \in Conf /\ d.bypass = c.bypass /\ (d.ok <=> c.ok /\ Server(e))
         /\ d.proxy = IF Server(e) THEN <<e.addr, Prefix(e)>> ELSE c.proxy
<1>1. c.ok \in BOOLEAN /\ c.bypass \in Seq(Network)
  BY DEF Conf
<1>2. CASE Server(e)
  <2>1. d = [c EXCEPT !.proxy = <<e.addr, Prefix(e)>>]
    BY <1>2 DEF fp_parse_proxy, Server
  <2>2. d = [ok |-> c.ok, proxy |-> <<e.addr, Prefix(e)>>, bypass |-> c.bypass]
    BY <2>1 DEF Conf
  <2>3. <<e.addr, Prefix(e)>> \in Address \X (1 .. MaxPort)
    BY <1>2 DEF Server
  <2> QED
    BY <1>1, <1>2, <2>2, <2>3 DEF Conf
<1>3. CASE ~Server(e)
  <2>1. d = [c EXCEPT !.ok = FALSE]
    BY <1>3 DEF fp_parse_proxy, Server
  <2> QED
    BY <1>3, <2>1, Refused
<1> QED
  BY <1>2, <1>3

\* A list with one more is as good as before, and has one network more.
LEMMA AddedClean ==
  ASSUME NEW b, Bounded(b), Cleared(b), Distinct(b), NEW e, e.addr \in Address \cup {Bad}
  PROVE  /\ Bounded(Added(b, e)) /\ Cleared(Added(b, e)) /\ Distinct(Added(b, e))
         /\ Admits(b, e) => \A n : n \in ToSet(Added(b, e)) <=> n \in ToSet(b) \/ n = Net(e)
<1>1. b \in Seq(Network) /\ Len(b) \in Nat /\ DOMAIN b = 1 .. Len(b)
  BY DEF Bounded
<1>2. CASE ~Admits(b, e)
  BY <1>2 DEF Added
<1>3. CASE Admits(b, e) /\ Contains(b, Net(e))
  BY <1>1, <1>3 DEF Added, Contains, ToSet
<1>4. CASE Admits(b, e) /\ ~Contains(b, Net(e))
  <2> DEFINE a == Append(b, Net(e))
  <2>1. Added(b, e) = a
    BY <1>4 DEF Added
  <2>2. Net(e) \in Network /\ Masked(Net(e).net, Net(e).prefix) = Net(e).net
    BY <1>4, NetOf DEF Admits
  <2>3. /\ a \in Seq(Network) /\ Len(a) = Len(b) + 1 /\ DOMAIN a = 1 .. Len(b) + 1
        /\ a[Len(b) + 1] = Net(e) /\ \A i \in 1 .. Len(b) : a[i] = b[i]
    BY <1>1, <2>2
  <2> HIDE DEF a
  <2>4. \A i \in 1 .. Len(b) : b[i] # Net(e)
    BY <1>4 DEF Contains
  <2>5. \A i \in 1 .. Len(a) : i = Len(b) + 1 \/ i \in 1 .. Len(b)
    BY <1>1, <2>3
  <2>6. Bounded(a)
    BY <1>1, <1>4, <2>3, ConfigAssumption DEF Bounded, Admits
  <2>7. Cleared(a)
    BY <2>2, <2>3, <2>5 DEF Cleared
  <2>8. Distinct(a)
    BY <2>3, <2>4, <2>5 DEF Distinct
  <2>9. \A n : n \in ToSet(a) <=> n \in ToSet(b) \/ n = Net(e)
    BY <1>1, <2>3, <2>5 DEF ToSet
  <2> QED
    BY <2>1, <2>6, <2>7, <2>8, <2>9
<1> QED
  BY <1>2, <1>3, <1>4

\* What fp_parse_bypass_list has made of c after i entries.
ListGood(d, c, list, i) ==
  /\ Clean(d) /\ d.proxy = c.proxy
  /\ d.ok =>
       /\ c.ok /\ \A k \in 1 .. i : Valid(list[k])
       /\ \A n : n \in ToSet(d.bypass) <=> \E k \in 1 .. i : n = Net(list[k])

\* Every value that fp_parse_bypass_list goes through is one of those.
LEMMA ListGoes ==
  ASSUME NEW c \in Conf, c.bypass = <<>>, NEW list \in Seq(Entry),
         NEW run, ListRun(run, c, list, Len(list))
  PROVE  \A i \in 0 .. Len(list) : ListGood(run[i], c, list, i)
<1>1. Len(list) \in Nat /\ DOMAIN list = 1 .. Len(list)
  OBVIOUS
<1>2. /\ run[0] = c
      /\ \A i \in 0 .. Len(list) - 1 : run[i + 1] = append_bypass(run[i], list[i + 1])
  BY DEF ListRun
<1> DEFINE Good(i) == ListGood(run[i], c, list, i)
           T == {i \in Nat : Good(i)}
<1>3. 0 \in T
  <2>1. Clean(c)
    BY ConfigAssumption DEF Clean, Bounded, Cleared, Distinct, Conf
  <2>2. ToSet(<<>>) = {} /\ 1 .. 0 = {} /\ 0 \in Nat
    BY DEF ToSet
  <2>3. Good(0)
    BY <1>2, <2>1, <2>2 DEF ListGood
  <2> QED
    BY <2>2, <2>3
<1>4. ASSUME NEW i \in 0 .. Len(list) - 1, i \in T PROVE i + 1 \in T
  <2> DEFINE d == run[i]  e == list[i + 1]
  <2>1. Good(i)
    BY <1>4
  <2>2. /\ i \in Nat /\ i + 1 \in Nat /\ i + 1 \in 1 .. Len(list)
        /\ \A k \in 1 .. i + 1 : k \in 1 .. i \/ k = i + 1
        /\ \A k \in 1 .. i : k \in 1 .. i + 1
    BY <1>1
  <2> HIDE DEF d
  <2>3. e \in Entry
    BY <2>2
  <2> HIDE DEF e
  <2>4. e.addr \in Address \cup {Bad}
    BY <2>3 DEF Entry
  <2>5. d \in Conf /\ Bounded(d.bypass) /\ Cleared(d.bypass) /\ Distinct(d.bypass)
    BY <2>1 DEF Clean, d, ListGood
  <2>6. run[i + 1] = append_bypass(d, e)
    BY <1>2 DEF d, e
  <2>7. /\ Bounded(Added(d.bypass, e)) /\ Cleared(Added(d.bypass, e))
        /\ Distinct(Added(d.bypass, e))
        /\ Admits(d.bypass, e) =>
             \A n : n \in ToSet(Added(d.bypass, e)) <=> n \in ToSet(d.bypass) \/ n = Net(e)
    BY <2>4, <2>5, AddedClean
  <2>8. d.proxy = c.proxy
    BY <2>1 DEF d, ListGood
  <2>9. PICK x : x = run[i + 1]
    OBVIOUS
  <2>10. x.proxy = d.proxy /\ x.bypass = Added(d.bypass, e)
        /\ (x.ok <=> d.ok /\ Admits(d.bypass, e))
    BY <2>5, <2>6, <2>9, Appended
  <2>11. run[i + 1].proxy = c.proxy /\ run[i + 1].bypass = Added(d.bypass, e)
        /\ (run[i + 1].ok <=> d.ok /\ Admits(d.bypass, e))
    BY <2>8, <2>9, <2>10
  <2>12. run[i + 1] \in Conf
    BY <2>5, <2>6, <2>7, Appended DEF Bounded
  <2>13. Clean(run[i + 1])
    BY <2>7, <2>11, <2>12 DEF Clean
  <2>14. ASSUME run[i + 1].ok
         PROVE  /\ c.ok /\ \A k \in 1 .. i + 1 : Valid(list[k])
                /\ \A n : n \in ToSet(run[i + 1].bypass)
                            <=> \E k \in 1 .. i + 1 : n = Net(list[k])
    <3>1. d.ok /\ Valid(e) /\ Admits(d.bypass, e)
      BY <2>11, <2>14 DEF Admits
    <3>2. c.ok /\ \A k \in 1 .. i : Valid(list[k])
      BY <2>1, <3>1 DEF d, ListGood
    <3>3. \A n : n \in ToSet(d.bypass) <=> \E k \in 1 .. i : n = Net(list[k])
      BY <2>1, <3>1 DEF d, ListGood
    <3>4. \A n : n \in ToSet(run[i + 1].bypass) <=> n \in ToSet(d.bypass) \/ n = Net(e)
      BY <2>7, <2>11, <3>1
    <3>5. \A k \in 1 .. i + 1 : Valid(list[k])
      BY <2>2, <3>1, <3>2 DEF e
    <3>6. ASSUME NEW n
          PROVE  n \in ToSet(run[i + 1].bypass) <=> \E k \in 1 .. i + 1 : n = Net(list[k])
      <4>1. i + 1 \in 1 .. i + 1
        BY <2>2
      <4>2. (\E k \in 1 .. i + 1 : n = Net(list[k]))
              <=> (\E k \in 1 .. i : n = Net(list[k])) \/ n = Net(list[i + 1])
        BY <2>2, <4>1, Zenon
      <4> QED
        BY <3>3, <3>4, <4>2, Zenon DEF e
    <3> QED
      BY <3>2, <3>5, <3>6
  <2>15. Good(i + 1)
    BY <2>11, <2>13, <2>14, Zenon DEF ListGood
  <2> QED
    BY <2>2, <2>15, Zenon
<1> HIDE DEF T
<1>5. \A i \in 0 .. Len(list) : i \in T
  BY <1>1, <1>3, <1>4, Induct
<1> QED
  BY <1>5 DEF T

\* What fp_parse_proxy makes of an empty configuration.
LEMMA ServerFirst ==
  ASSUME NEW r \in Request
  PROVE  /\ fp_parse_proxy(Empty, r.proxy) \in Conf
         /\ fp_parse_proxy(Empty, r.proxy).bypass = <<>>
         /\ fp_parse_proxy(Empty, r.proxy).ok <=> Server(r.proxy)
         /\ Server(r.proxy) =>
              /\ fp_parse_proxy(Empty, r.proxy).proxy = <<r.proxy.addr, Prefix(r.proxy)>>
              /\ r.proxy.addr \in Address /\ Prefix(r.proxy) \in 1 .. MaxPort
         /\ ~Server(r.proxy) => fp_parse_proxy(Empty, r.proxy).proxy = <<>>
         /\ r.list \in Seq(Entry)
<1>1. Empty \in Conf /\ Empty.ok = TRUE /\ Empty.proxy = <<>> /\ Empty.bypass = <<>>
  BY DEF Empty, Conf
<1>2. r.proxy \in Entry /\ r.list \in Seq(Entry)
  BY FirewallAssumption
<1>3. Server(r.proxy) => r.proxy.addr \in Address /\ Prefix(r.proxy) \in 1 .. MaxPort
  BY <1>2 DEF Server, Entry
<1>4. r.proxy.addr \in Address \cup {Bad}
  BY <1>2 DEF Entry
<1>5. PICK d : d = fp_parse_proxy(Empty, r.proxy)
  OBVIOUS
<1>6. /\ d \in Conf /\ d.bypass = <<>> /\ (d.ok <=> Server(r.proxy))
      /\ d.proxy = IF Server(r.proxy) THEN <<r.proxy.addr, Prefix(r.proxy)>> ELSE <<>>
  BY <1>1, <1>4, <1>5, ServerParsed
<1> QED
  BY <1>2, <1>3, <1>5, <1>6

\* fp_parse_bypass_list as a fold.
LEMMA ListParse ==
  ASSUME NEW c, NEW list
  PROVE  fp_parse_bypass_list(c, list) =
           LET parsed == ListFold([c EXCEPT !.bypass = <<>>], list)
           IN IF parsed.ok THEN parsed ELSE [parsed EXCEPT !.bypass = <<>>]
BY DEF fp_parse_bypass_list, ListFold, FoldLeft, MapThenFoldSet

\* The same of fp_config_load.
LEMMA FileLoad == ASSUME NEW lines PROVE fp_config_load(lines) = FileFold(Empty, lines)
BY DEF fp_config_load, FileFold, FoldLeft, MapThenFoldSet

\* What the parsers make of a request: a configuration that is usable only when every
\* part of the request was understood, with the networks of its entries and no others.
LEMMA ParsedIs ==
  ASSUME NEW r \in Request
  PROVE  /\ Clean(Parsed(r))
         /\ Parsed(r).ok =>
              /\ Server(r.proxy) /\ Parsed(r).proxy = <<r.proxy.addr, Prefix(r.proxy)>>
              /\ \A k \in 1 .. Len(r.list) : Valid(r.list[k])
              /\ \A n : n \in ToSet(Parsed(r).bypass)
                          <=> \E k \in 1 .. Len(r.list) : n = Net(r.list[k])
         /\ Usable(Parsed(r)) <=> Parsed(r).ok
<1> DEFINE c == fp_parse_proxy(Empty, r.proxy)
<1>1. /\ c \in Conf /\ c.bypass = <<>> /\ (c.ok <=> Server(r.proxy)) /\ r.list \in Seq(Entry)
      /\ Server(r.proxy) => c.proxy = <<r.proxy.addr, Prefix(r.proxy)>>
  BY ServerFirst, Zenon
<1>2. Parsed(r) = fp_parse_bypass_list(c, r.list)
  BY DEF Parsed
<1> HIDE DEF c
<1>3. [c EXCEPT !.bypass = <<>>] = c
  BY <1>1 DEF Conf
<1> DEFINE p == ListFold(c, r.list)
<1>4. Parsed(r) = IF p.ok THEN p ELSE [p EXCEPT !.bypass = <<>>]
  BY <1>2, <1>3, ListParse, Zenon
<1>5. Len(r.list) \in 0 .. Len(r.list) /\ Len(r.list) \in Nat /\ DOMAIN r.list = 1 .. Len(r.list)
  BY <1>1
<1>6. PICK run : ListRun(run, c, r.list, Len(r.list))
  BY <1>5, ListRunExists, Zenon
<1>7. ListGood(p, c, r.list, Len(r.list))
  <2>1. p = run[Len(r.list)]
    BY <1>6 DEF ListRun
  <2> QED
    BY <1>1, <1>5, <1>6, <2>1, ListGoes, Zenon
<1> HIDE DEF p
<1>8. CASE p.ok
  <2>1. Parsed(r) = p
    BY <1>4, <1>8
  <2>2. <<r.proxy.addr, Prefix(r.proxy)>> # <<>>
    OBVIOUS
  <2>3. c.ok /\ p.proxy = <<r.proxy.addr, Prefix(r.proxy)>>
    BY <1>1, <1>7, <1>8 DEF ListGood
  <2> QED
    BY <1>1, <1>7, <1>8, <2>1, <2>2, <2>3 DEF Usable, ListGood
<1>9. CASE ~p.ok
  <2>1. Parsed(r) = [p EXCEPT !.bypass = <<>>] /\ p \in Conf
    BY <1>4, <1>7, <1>9 DEF Clean, ListGood
  <2>2. Parsed(r) = [ok |-> p.ok, proxy |-> p.proxy, bypass |-> <<>>]
    BY <2>1 DEF Conf
  <2>3. p.ok \in BOOLEAN /\ p.proxy \in {<<>>} \cup (Address \X (1 .. MaxPort))
    BY <2>1 DEF Conf
  <2>4. Parsed(r) \in Conf /\ Parsed(r).bypass = <<>> /\ ~Parsed(r).ok
    BY <1>9, <2>2, <2>3 DEF Conf
  <2>5. Clean(Parsed(r))
    BY <2>4, ConfigAssumption DEF Clean, Bounded, Cleared, Distinct
  <2> QED
    BY <2>4, <2>5 DEF Usable
<1> QED
  BY <1>8, <1>9

\* One line of the file.
LEMMA LineLoaded ==
  ASSUME NEW c \in Conf, NEW line, line.value.addr \in Address \cup {Bad},
         NEW d, d = LoadLine(c, line)
  PROVE  /\ line.key = "bypass" => d = append_bypass(c, line.value)
         /\ line.key = "proxy" => d = fp_parse_proxy(c, line.value)
         /\ line.key = "other" => d = c
BY DEF LoadLine

\* Configurations with the same fields are the same.
LEMMA SameFields ==
  ASSUME NEW c \in Conf, NEW d \in Conf,
         c.ok = d.ok, c.proxy = d.proxy, c.bypass = d.bypass
  PROVE  c = d
BY DEF Conf

\* The lines of the file that a user has edited.
LEMMA EditedLines ==
  ASSUME NEW r \in Request, NEW n, n = Len(r.list), NEW lines, lines = Edited(r)
  PROVE  /\ DOMAIN lines = 1 .. n + 2
         /\ \A i \in 1 .. n : lines[i].key = "bypass" /\ lines[i].value = r.list[i]
         /\ lines[n + 1].key = "other" /\ lines[n + 1].value = r.proxy
         /\ lines[n + 2].key = "proxy" /\ lines[n + 2].value = r.proxy
<1> DEFINE Line == [key : {"bypass", "other", "proxy"}, value : Entry]
           s == [i \in 1 .. n |-> [key |-> "bypass", value |-> r.list[i]]]
           t == <<[key |-> "other", value |-> r.proxy], [key |-> "proxy", value |-> r.proxy]>>
<1>1. r.proxy \in Entry /\ r.list \in Seq(Entry) /\ n \in Nat /\ DOMAIN r.list = 1 .. n
  BY FirewallAssumption
<1>2. s \in Seq(Line) /\ Len(s) = n
  BY <1>1
<1>3. t \in Seq(Line) /\ Len(t) = 2 /\ t[1].key = "other" /\ t[1].value = r.proxy
      /\ t[2].key = "proxy" /\ t[2].value = r.proxy
  BY <1>1
<1>4. lines = s \o t
  BY <1>1 DEF Edited
<1>5. \A i \in 1 .. n : s[i].key = "bypass" /\ s[i].value = r.list[i]
  OBVIOUS
<1> HIDE DEF Line, s, t
<1>6. /\ DOMAIN lines = 1 .. n + 2 /\ (\A i \in 1 .. n : lines[i] = s[i])
      /\ lines[n + 1] = t[1] /\ lines[n + 2] = t[2]
  <2>1. PICK x \in Seq(Line) : x = s
    BY <1>2
  <2>2. PICK y \in Seq(Line) : y = t
    BY <1>3
  <2>3. /\ DOMAIN (x \o y) = 1 .. Len(x) + Len(y)
        /\ \A i \in 1 .. Len(x) : (x \o y)[i] = x[i]
        /\ \A i \in 1 .. Len(y) : (x \o y)[Len(x) + i] = y[i]
    BY Concat
  <2>4. Len(x) = n /\ Len(y) = 2 /\ n \in Nat /\ 1 \in 1 .. 2 /\ 2 \in 1 .. 2 /\ lines = x \o y
    BY <1>1, <1>2, <1>3, <1>4, <2>1, <2>2
  <2>5. DOMAIN lines = 1 .. n + 2
    BY <2>3, <2>4
  <2>6. \A i \in 1 .. n : lines[i] = s[i]
    BY <2>1, <2>3, <2>4
  <2>7. lines[n + 1] = t[1] /\ lines[n + 2] = t[2]
    BY <2>2, <2>3, <2>4
  <2> QED
    BY <2>5, <2>6, <2>7
<1> QED
  BY <1>3, <1>5, <1>6

\* An entry of the list has the same effect in the file.
LEMMA SameEntry ==
  ASSUME NEW a \in Conf, NEW b \in Conf, NEW line, line.key = "bypass",
         line.value.addr \in Address \cup {Bad}, Added(a.bypass, line.value) \in Seq(Network),
         b.bypass = a.bypass,
         NEW a2, a2 = append_bypass(a, line.value), NEW b2, b2 = LoadLine(b, line)
  PROVE  /\ b2 \in Conf /\ b2.bypass = a2.bypass /\ b2.proxy = b.proxy
         /\ a2.ok <=> a.ok /\ Admits(a.bypass, line.value)
         /\ b2.ok <=> b.ok /\ Admits(a.bypass, line.value)
<1>1. b2 = append_bypass(b, line.value)
  BY LineLoaded
<1>2. /\ a2.bypass = Added(a.bypass, line.value)
      /\ (a2.ok <=> a.ok /\ Admits(a.bypass, line.value))
  BY Appended
<1>3. /\ b2.proxy = b.proxy /\ b2.bypass = Added(a.bypass, line.value)
      /\ (b2.ok <=> b.ok /\ Admits(a.bypass, line.value)) /\ b2 \in Conf
  BY <1>1, Appended
<1> QED
  BY <1>2, <1>3

\* The request's first entries have been read the same way from the list and from
\* the file.
SameSoFar(a, b, r) ==
  b \in Conf /\ b.bypass = a.bypass /\ b.proxy = <<>> /\ (a.ok <=> Server(r.proxy) /\ b.ok)

\* The file a user has edited says what the request says.
LEMMA EditedSame ==
  ASSUME NEW r \in Request, NEW d, d = fp_config_load(Edited(r))
  PROVE  (Usable(d) <=> Usable(Parsed(r))) /\ (Usable(d) => d = Parsed(r))
<1>1. PICK c : c = fp_parse_proxy(Empty, r.proxy)
  OBVIOUS
<1>2. /\ c \in Conf /\ c.bypass = <<>> /\ (c.ok <=> Server(r.proxy)) /\ r.list \in Seq(Entry)
      /\ Server(r.proxy) => c.proxy = <<r.proxy.addr, Prefix(r.proxy)>>
  BY <1>1, ServerFirst, Zenon
<1>3. PICK n \in Nat : n = Len(r.list) /\ DOMAIN r.list = 1 .. n
  BY <1>2
<1>4. r.proxy.addr \in Address \cup {Bad}
  BY FirewallAssumption DEF Entry
<1>5. PICK lines : lines = Edited(r)
  OBVIOUS
<1>6. /\ DOMAIN lines = 1 .. n + 2
      /\ \A i \in 1 .. n : lines[i].key = "bypass" /\ lines[i].value = r.list[i]
      /\ lines[n + 1].key = "other" /\ lines[n + 1].value = r.proxy
      /\ lines[n + 2].key = "proxy" /\ lines[n + 2].value = r.proxy
  BY <1>3, <1>5, EditedLines
<1>7. PICK a : ListRun(a, c, r.list, n)
  BY <1>3, ListRunExists, Zenon
<1>8. PICK m \in Nat : m = n + 2
  OBVIOUS
<1>9. PICK b : FileRun(b, Empty, lines, m)
  BY <1>6, <1>8, FileRunExists, Zenon
<1>10. /\ a[0] = c /\ \A i \in 0 .. n - 1 : a[i + 1] = append_bypass(a[i], r.list[i + 1])
       /\ ListFold(c, r.list) = a[n]
  BY <1>7 DEF ListRun
<1>11. /\ b[0] = Empty /\ \A i \in 0 .. m - 1 : b[i + 1] = LoadLine(b[i], lines[i + 1])
       /\ d = b[m]
  BY <1>5, <1>9, FileLoad DEF FileRun
<1>12. \A i \in 0 .. n : ListGood(a[i], c, r.list, i)
  BY <1>2, <1>3, <1>7, ListGoes
<1> DEFINE T == {i \in Nat : SameSoFar(a[i], b[i], r)}
<1>13. 0 \in T
  <2>1. Empty \in Conf /\ Empty.ok = TRUE /\ Empty.proxy = <<>> /\ Empty.bypass = <<>>
    BY DEF Empty, Conf
  <2>2. SameSoFar(c, Empty, r)
    BY <1>2, <2>1 DEF SameSoFar
  <2> QED
    BY <1>10, <1>11, <2>2
<1>14. ASSUME NEW i \in 0 .. n - 1, i \in T PROVE i + 1 \in T
  <2>1. /\ i \in 0 .. n /\ i + 1 \in 1 .. n /\ i \in 0 .. m - 1 /\ i + 1 \in Nat
    BY <1>8
  <2>2. PICK x, y, e, line : x = a[i] /\ y = b[i] /\ e = r.list[i + 1] /\ line = lines[i + 1]
    OBVIOUS
  <2>3. PICK x2, y2 : x2 = a[i + 1] /\ y2 = b[i + 1]
    OBVIOUS
  <2>4. x2 = append_bypass(x, e) /\ y2 = LoadLine(y, line)
    BY <1>10, <1>11, <2>1, <2>2, <2>3
  <2>5. SameSoFar(x, y, r) /\ Clean(x)
    BY <1>12, <1>14, <2>1, <2>2 DEF ListGood
  <2>6. line.key = "bypass" /\ line.value = e /\ e \in Entry
    BY <1>2, <1>3, <1>6, <2>1, <2>2
  <2>7. e.addr \in Address \cup {Bad}
    BY <2>6 DEF Entry
  <2>8. Added(x.bypass, e) \in Seq(Network)
    BY <2>5, <2>7, AddedClean DEF Clean, Bounded
  <2>9. x \in Conf /\ y \in Conf /\ y.bypass = x.bypass
    BY <2>5 DEF Clean, SameSoFar
  <2>10. /\ y2 \in Conf /\ y2.bypass = x2.bypass /\ y2.proxy = y.proxy
         /\ x2.ok <=> x.ok /\ Admits(x.bypass, e)
         /\ y2.ok <=> y.ok /\ Admits(x.bypass, e)
    BY <2>4, <2>6, <2>7, <2>8, <2>9, SameEntry
  <2>11. SameSoFar(x2, y2, r)
    BY <2>5, <2>10 DEF SameSoFar
  <2> QED
    BY <2>1, <2>3, <2>11
<1> HIDE DEF T
<1>15. n \in T /\ n \in 0 .. n
  BY <1>13, <1>14, Induct
<1>16. PICK p : p = a[n]
  OBVIOUS
<1>17. Clean(p) /\ p.proxy = c.proxy /\ SameSoFar(p, b[n], r)
  BY <1>12, <1>15, <1>16 DEF T, ListGood
<1>18. /\ d \in Conf /\ d.bypass = p.bypass /\ (d.ok <=> p.ok)
       /\ Server(r.proxy) => d.proxy = c.proxy
  <2>1. n \in 0 .. m - 1 /\ n + 1 \in 0 .. m - 1 /\ n + 1 + 1 = n + 2
    BY <1>8
  <2>2. PICK x, y, e, f : x = b[n] /\ y = b[n + 1] /\ e = lines[n + 1] /\ f = lines[n + 2]
    OBVIOUS
  <2>3. y = LoadLine(x, e) /\ d = LoadLine(y, f)
    BY <1>8, <1>11, <2>1, <2>2
  <2>4. e.key = "other" /\ e.value = r.proxy /\ f.key = "proxy" /\ f.value = r.proxy
    BY <1>6, <2>2
  <2>5. x \in Conf /\ x.bypass = p.bypass /\ (p.ok <=> Server(r.proxy) /\ x.ok)
    BY <1>17, <2>2 DEF SameSoFar
  <2>6. y = x
    BY <1>4, <2>3, <2>4, <2>5, LineLoaded
  <2>7. d = fp_parse_proxy(x, r.proxy)
    BY <1>4, <2>3, <2>4, <2>5, <2>6, LineLoaded
  <2>8. /\ d \in Conf /\ d.bypass = x.bypass /\ (d.ok <=> x.ok /\ Server(r.proxy))
        /\ d.proxy = IF Server(r.proxy) THEN <<r.proxy.addr, Prefix(r.proxy)>> ELSE x.proxy
    BY <1>4, <2>5, <2>7, ServerParsed
  <2> QED
    BY <1>2, <2>5, <2>8
<1>19. Parsed(r) = IF p.ok THEN p ELSE [p EXCEPT !.bypass = <<>>]
  <2>1. [c EXCEPT !.bypass = <<>>] = c
    BY <1>2 DEF Conf
  <2>2. Parsed(r) = fp_parse_bypass_list(c, r.list)
    BY <1>1 DEF Parsed
  <2>3. ListFold(c, r.list) = p
    BY <1>10, <1>16
  <2> QED
    BY <2>1, <2>2, <2>3, ListParse, Zenon
<1>20. p.ok => Server(r.proxy)
  BY <1>17 DEF SameSoFar
<1>21. CASE p.ok
  <2>1. Parsed(r) = p /\ d = p
    BY <1>17, <1>18, <1>19, <1>20, <1>21, SameFields DEF Clean
  <2> QED
    BY <2>1
<1>22. CASE ~p.ok
  <2>1. ~Parsed(r).ok
    <3>1. p \in Conf /\ Parsed(r) = [p EXCEPT !.bypass = <<>>]
      BY <1>17, <1>19, <1>22 DEF Clean
    <3>2. Parsed(r).ok = p.ok
      BY <3>1 DEF Conf
    <3> QED
      BY <1>22, <3>2
  <2> QED
    BY <1>18, <1>22, <2>1 DEF Usable
<1> QED
  BY <1>21, <1>22

\* Sequences with the same elements are the same.
LEMMA SameElements ==
  ASSUME NEW S, NEW s \in Seq(S), NEW t \in Seq(S), Len(s) = Len(t),
         \A i \in 1 .. Len(s) : s[i] = t[i]
  PROVE  s = t
OBVIOUS

\* The lines of the file that fp_config_save writes.
LEMMA SavedLines ==
  ASSUME NEW c \in Conf, NEW n, n = Len(c.bypass), NEW lines, lines = fp_config_save(c)
  PROVE  /\ n \in Nat /\ DOMAIN lines = 1 .. n + 1
         /\ lines[1].key = "proxy"
         /\ lines[1].value = [addr |-> c.proxy[1], suffix |-> <<c.proxy[2]>>]
         /\ \A i \in 1 .. n : /\ lines[i + 1].key = "bypass"
                              /\ lines[i + 1].value = Text(c.bypass[i])
<1> DEFINE x == <<[key |-> "proxy", value |-> [addr |-> c.proxy[1], suffix |-> <<c.proxy[2]>>]]>>
           y == [i \in DOMAIN c.bypass |-> [key |-> "bypass", value |-> Text(c.bypass[i])]]
           S == {x[1]} \cup {y[i] : i \in 1 .. n}
<1>1. c.bypass \in Seq(Network) /\ n \in Nat /\ DOMAIN c.bypass = 1 .. n
  BY DEF Conf
<1>2. x \in Seq(S) /\ Len(x) = 1 /\ x[1].key = "proxy"
      /\ x[1].value = [addr |-> c.proxy[1], suffix |-> <<c.proxy[2]>>]
  OBVIOUS
<1>3. y \in Seq(S) /\ Len(y) = n
      /\ \A i \in 1 .. n : y[i].key = "bypass" /\ y[i].value = Text(c.bypass[i])
  BY <1>1
<1>4. lines = x \o y
  BY DEF fp_config_save
<1> HIDE DEF S, x, y
<1>5. PICK s \in Seq(S) : s = x
  BY <1>2
<1>6. PICK t \in Seq(S) : t = y
  BY <1>3
<1>7. /\ DOMAIN (s \o t) = 1 .. Len(s) + Len(t)
      /\ \A i \in 1 .. Len(s) : (s \o t)[i] = s[i]
      /\ \A i \in 1 .. Len(t) : (s \o t)[Len(s) + i] = t[i]
  BY Concat
<1>8. Len(s) = 1 /\ Len(t) = n /\ 1 \in 1 .. 1 /\ lines = s \o t /\ 1 + n = n + 1
      /\ \A i \in 1 .. n : 1 + i = i + 1
  BY <1>1, <1>2, <1>3, <1>4, <1>5, <1>6
<1>9. DOMAIN lines = 1 .. n + 1
  BY <1>7, <1>8
<1>10. lines[1] = x[1]
  BY <1>5, <1>7, <1>8
<1>11. \A i \in 1 .. n : lines[i + 1] = y[i]
  BY <1>6, <1>7, <1>8
<1> QED
  BY <1>1, <1>2, <1>3, <1>9, <1>10, <1>11

\* A saved network is read back as itself.
LEMMA ReadBack ==
  ASSUME NEW x \in Network, Masked(x.net, x.prefix) = x.net
  PROVE  /\ Text(x).addr \in Address \cup {Bad} /\ Valid(Text(x)) /\ Net(Text(x)) = x
<1>1. x.net \in Address /\ x.prefix \in 0 .. Width /\ x = [net |-> x.net, prefix |-> x.prefix]
  BY DEF Network
<1>2. x.net # Bad
  BY <1>1, ConfigAssumption
<1>3. Text(x).addr = x.net /\ Prefix(Text(x)) = x.prefix
  BY DEF Text, Prefix
<1> QED
  BY <1>1, <1>2, <1>3 DEF Valid, Net

\* c's first i networks have been read.
Stored(d, c, i) ==
  /\ d \in Conf /\ d.ok /\ d.proxy = c.proxy /\ Len(d.bypass) = i
  /\ \A k \in 1 .. i : d.bypass[k] = c.bypass[k]

\* fp_config_load reads back what fp_config_save wrote.
LEMMA SavedSame ==
  ASSUME NEW c, Clean(c), Usable(c), NEW d, d = fp_config_load(fp_config_save(c))
  PROVE  d = c
<1>1. c \in Conf /\ Len(c.bypass) <= MaxBypass /\ c.bypass \in Seq(Network)
      /\ c.ok = TRUE /\ c.proxy \in Address \X (1 .. MaxPort)
  BY DEF Clean, Bounded, Usable, Conf
<1>2. PICK n \in Nat : n = Len(c.bypass) /\ DOMAIN c.bypass = 1 .. n
  BY <1>1
<1>3. PICK lines : lines = fp_config_save(c)
  OBVIOUS
<1>4. /\ DOMAIN lines = 1 .. n + 1 /\ lines[1].key = "proxy"
      /\ lines[1].value = [addr |-> c.proxy[1], suffix |-> <<c.proxy[2]>>]
      /\ \A i \in 1 .. n : lines[i + 1].key = "bypass" /\ lines[i + 1].value = Text(c.bypass[i])
  BY <1>1, <1>2, <1>3, SavedLines
<1>5. PICK m \in Nat : m = n + 1
  OBVIOUS
<1>6. PICK b : FileRun(b, Empty, lines, m)
  BY <1>4, <1>5, FileRunExists, Zenon
<1>7. /\ b[0] = Empty /\ \A i \in 0 .. m - 1 : b[i + 1] = LoadLine(b[i], lines[i + 1])
      /\ d = b[m]
  BY <1>3, <1>6, FileLoad DEF FileRun
<1> DEFINE T == {i \in Nat : Stored(b[i + 1], c, i)}
<1>8. 0 \in T
  <2>1. PICK x, line, e : x = b[1] /\ line = lines[1] /\ e = line.value
    OBVIOUS
  <2>2. 0 \in 0 .. m - 1 /\ 0 + 1 = 1
    BY <1>5
  <2>3. x = LoadLine(Empty, line)
    BY <1>7, <2>1, <2>2
  <2>4. Empty \in Conf /\ Empty.ok = TRUE /\ Empty.bypass = <<>>
    BY DEF Empty, Conf
  <2>5. e = [addr |-> c.proxy[1], suffix |-> <<c.proxy[2]>>] /\ line.key = "proxy"
    BY <1>4, <2>1
  <2>6. e.addr = c.proxy[1] /\ c.proxy[1] \in Address /\ c.proxy[2] \in 1 .. MaxPort
        /\ c.proxy = <<c.proxy[1], c.proxy[2]>>
    BY <1>1, <2>5
  <2>7. Prefix(e) = c.proxy[2] /\ e.suffix # <<>>
    BY <2>5 DEF Prefix
  <2>8. Server(e)
    BY <2>6, <2>7, ConfigAssumption DEF Server
  <2>9. line.value.addr \in Address \cup {Bad} /\ e.addr \in Address \cup {Bad}
    BY <2>1, <2>6
  <2>10. x = fp_parse_proxy(Empty, e)
    <3>1. x = fp_parse_proxy(Empty, line.value)
      BY <2>3, <2>4, <2>5, <2>9, LineLoaded, Zenon
    <3> QED
      BY <2>1, <3>1, Zenon
  <2>11. x \in Conf /\ x.bypass = <<>> /\ x.ok /\ x.proxy = <<e.addr, Prefix(e)>>
    BY <2>4, <2>8, <2>9, <2>10, ServerParsed
  <2>12. Stored(x, c, 0)
    BY <2>6, <2>7, <2>11 DEF Stored
  <2> QED
    BY <2>1, <2>2, <2>12
<1>9. ASSUME NEW i \in 0 .. n - 1, i \in T PROVE i + 1 \in T
  <2>1. /\ i \in Nat /\ i + 1 \in 1 .. n /\ i + 1 \in 0 .. m - 1 /\ i + 1 \in Nat
        /\ i < n /\ \A k \in 1 .. i : k \in 1 .. n /\ k # i + 1
        /\ \A k \in 1 .. i + 1 : k \in 1 .. i \/ k = i + 1
    BY <1>5
  <2>2. PICK x, y, line, e : /\ x = b[i + 1] /\ y = b[i + 1 + 1] /\ line = lines[i + 1 + 1]
                             /\ e = line.value
    OBVIOUS
  <2>3. y = LoadLine(x, line) /\ Stored(x, c, i)
    BY <1>7, <1>9, <2>1, <2>2
  <2>4. PICK w \in Network : w = c.bypass[i + 1]
    BY <1>1, <1>2, <2>1
  <2>5. e = Text(w) /\ line.key = "bypass"
    BY <1>4, <2>1, <2>2, <2>4
  <2>6. Masked(w.net, w.prefix) = w.net
    BY <1>2, <2>1, <2>4 DEF Clean, Cleared
  <2>7. e.addr \in Address \cup {Bad} /\ Valid(e) /\ Net(e) = w
    BY <2>5, <2>6, ReadBack
  <2>8. /\ x \in Conf /\ x.ok /\ x.proxy = c.proxy /\ Len(x.bypass) = i
        /\ \A k \in 1 .. i : x.bypass[k] = c.bypass[k]
    BY <2>3 DEF Stored
  <2>9. x.bypass \in Seq(Network) /\ DOMAIN x.bypass = 1 .. i
    BY <2>8 DEF Conf
  <2>10. Admits(x.bypass, e)
    BY <1>1, <1>2, <2>1, <2>7, <2>8, ConfigAssumption DEF Admits
  <2>11. ~Contains(x.bypass, w)
    <3>1. \A k \in 1 .. i : c.bypass[k] # c.bypass[i + 1]
      BY <1>2, <2>1 DEF Clean, Distinct
    <3> QED
      BY <2>4, <2>8, <2>9, <3>1 DEF Contains
  <2>12. Added(x.bypass, e) = Append(x.bypass, w)
    BY <2>7, <2>10, <2>11 DEF Added
  <2>13. /\ Append(x.bypass, w) \in Seq(Network) /\ Len(Append(x.bypass, w)) = i + 1
         /\ Append(x.bypass, w)[i + 1] = w
         /\ \A k \in 1 .. i : Append(x.bypass, w)[k] = x.bypass[k]
    BY <2>8, <2>9
  <2>14. y = append_bypass(x, e)
    <3>1. line.value.addr \in Address \cup {Bad}
      BY <2>2, <2>7
    <3>2. y = append_bypass(x, line.value)
      BY <2>3, <2>5, <2>8, <3>1, LineLoaded
    <3> QED
      BY <2>2, <3>2
  <2>15. /\ y \in Conf /\ y.ok /\ y.proxy = x.proxy /\ y.bypass = Append(x.bypass, w)
    BY <2>8, <2>10, <2>12, <2>13, <2>14, Appended
  <2>16. \A k \in 1 .. i + 1 : y.bypass[k] = c.bypass[k]
    BY <2>1, <2>4, <2>8, <2>13, <2>15
  <2>17. Stored(y, c, i + 1)
    BY <2>8, <2>13, <2>15, <2>16 DEF Stored
  <2> QED
    BY <2>1, <2>2, <2>17
<1> HIDE DEF T
<1>10. n \in T /\ n \in 0 .. n
  BY <1>8, <1>9, Induct
<1>11. Stored(d, c, n)
  BY <1>5, <1>7, <1>10 DEF T
<1>12. d \in Conf /\ d.bypass \in Seq(Network)
  BY <1>11 DEF Stored, Conf
<1>13. d.bypass = c.bypass
  BY <1>1, <1>2, <1>11, <1>12, SameElements DEF Stored
<1> QED
  BY <1>1, <1>11, <1>12, <1>13, SameFields DEF Stored

\* Whichever way a request takes, through the parsers alone, through the file and
\* back, or through a file written by hand, it is usable or not, and if it is then it
\* is the same configuration.
THEOREM SameWay ==
  ASSUME NEW r \in Request, NEW way \in Way
  PROVE  /\ Usable(Configured(r, way)) <=> Usable(Parsed(r))
         /\ Usable(Configured(r, way)) => Configured(r, way) = Parsed(r)
<1>1. CASE way = "parsed"
  BY <1>1 DEF Configured
<1>2. CASE way = "saved"
  <2>1. CASE Usable(Parsed(r))
    <3>1. Configured(r, way) = fp_config_load(fp_config_save(Parsed(r)))
      BY <1>2, <2>1 DEF Configured
    <3>2. Clean(Parsed(r))
      BY ParsedIs
    <3>3. PICK c, d : c = Parsed(r) /\ d = fp_config_load(fp_config_save(c))
      OBVIOUS
    <3>4. d = c
      BY <2>1, <3>2, <3>3, SavedSame
    <3> QED
      BY <3>1, <3>3, <3>4
  <2>2. CASE ~Usable(Parsed(r))
    BY <1>2, <2>2 DEF Configured
  <2> QED
    BY <2>1, <2>2
<1>3. CASE way = "edited"
  <2>1. Configured(r, way) = fp_config_load(Edited(r))
    BY <1>3 DEF Configured
  <2> QED
    BY <2>1, EditedSame, Zenon
<1> QED
  BY <1>1, <1>2, <1>3 DEF Way

-----------------------------------------------------------------------------
(* The rules of a configuration and what they match.                         *)

Rule == Network \cup {Redirect}

\* t's first n elements follow s's first i.
Follows(s, i, t, n) == \A k \in 1 .. n : s[k + i] = t[k]

\* The rules that fp_firewall_enable appends: networks first, the redirection last.
LEMMA AppendsIs ==
  ASSUME NEW c \in Conf, c.proxy # <<>>, NEW a, a = Appends(c), NEW n, n = Len(c.bypass)
  PROVE  /\ n \in Nat /\ a \in Seq(Rule) /\ Len(a) = n + 3 /\ DOMAIN a = 1 .. n + 3
         /\ a[1] = Host(c.proxy[1]) /\ a[2] = Loopback /\ a[n + 3] = Redirect
         /\ Follows(a, 2, c.bypass, n)
         /\ \A j \in 1 .. n + 2 : a[j] \in Network
         /\ c.proxy[1] \in Address
<1>1. c.bypass \in Seq(Network) /\ n \in Nat /\ DOMAIN c.bypass = 1 .. n
      /\ c.proxy[1] \in Address
  BY DEF Conf
<1>2. Host(c.proxy[1]) \in Network /\ Loopback \in Network
  BY <1>1, FirewallAssumption, ConfigAssumption DEF Host, Network
<1>3. Host(c.proxy[1]) \in Rule /\ Loopback \in Rule /\ Redirect \in Rule
  BY <1>2 DEF Rule
<1>4. PICK x \in Seq(Rule) : x = <<Host(c.proxy[1]), Loopback>>
  <2>1. <<Host(c.proxy[1]), Loopback>> \in Seq(Rule)
    BY <1>3
  <2> QED
    BY <2>1, Zenon
<1>5. PICK z \in Seq(Rule) : z = <<Redirect>>
  <2>1. <<Redirect>> \in Seq(Rule)
    BY <1>3
  <2> QED
    BY <2>1, Zenon
<1>6. PICK b \in Seq(Rule) : b = c.bypass
  BY <1>1 DEF Rule
<1>7. PICK y \in Seq(Rule) : y = x \o b
  <2>1. x \o b \in Seq(Rule)
    BY Concat
  <2> QED
    BY <2>1, Zenon
<1>8. /\ Len(y) = n + 2 /\ y[1] = Host(c.proxy[1]) /\ y[2] = Loopback
      /\ (\A i \in 1 .. 2 : y[i] = x[i]) /\ \A i \in 1 .. n : y[2 + i] = b[i]
  <2>1. /\ x \o b \in Seq(Rule) /\ Len(x \o b) = Len(x) + Len(b)
        /\ \A i \in 1 .. Len(x) : (x \o b)[i] = x[i]
        /\ \A i \in 1 .. Len(b) : (x \o b)[Len(x) + i] = b[i]
    BY Concat
  <2>2. /\ Len(x) = 2 /\ x[1] = Host(c.proxy[1]) /\ x[2] = Loopback
        /\ 1 \in 1 .. 2 /\ 2 \in 1 .. 2 /\ Len(b) = n /\ 2 + n = n + 2
    BY <1>1, <1>4, <1>6
  <2> QED
    BY <1>7, <2>1, <2>2
<1>9. a = y \o z
  BY <1>4, <1>5, <1>6, <1>7 DEF Appends
<1>10. /\ a \in Seq(Rule) /\ Len(a) = n + 3 /\ DOMAIN a = 1 .. n + 3
       /\ (\A i \in 1 .. n + 2 : a[i] = y[i]) /\ a[n + 3] = Redirect
  <2>1. /\ y \o z \in Seq(Rule) /\ Len(y \o z) = Len(y) + Len(z)
        /\ DOMAIN (y \o z) = 1 .. Len(y) + Len(z)
        /\ \A i \in 1 .. Len(y) : (y \o z)[i] = y[i]
        /\ \A i \in 1 .. Len(z) : (y \o z)[Len(y) + i] = z[i]
    BY Concat
  <2>2. Len(y) + Len(z) = n + 3 /\ 1 \in 1 .. Len(z) /\ Len(y) + 1 = n + 3 /\ z[1] = Redirect
    BY <1>1, <1>5, <1>8
  <2> QED
    BY <1>8, <1>9, <2>1, <2>2
<1>11. a[1] = Host(c.proxy[1]) /\ a[2] = Loopback
  <2>1. 1 \in 1 .. n + 2 /\ 2 \in 1 .. n + 2
    BY <1>1
  <2> QED
    BY <1>8, <1>10, <2>1
<1>12. \A k \in 1 .. n : a[k + 2] = c.bypass[k]
  <2>1. \A k \in 1 .. n : k + 2 \in 1 .. n + 2 /\ k + 2 = 2 + k
    BY <1>1
  <2>2. \A k \in 1 .. n : a[k + 2] = y[k + 2] /\ y[k + 2] = b[k]
    BY <1>8, <1>10, <2>1
  <2> QED
    BY <1>6, <2>2
<1>13. ASSUME NEW j \in 1 .. n + 2 PROVE a[j] \in Network
  <2>1. j = 1 \/ j = 2 \/ (j - 2 \in 1 .. n /\ j - 2 + 2 = j)
    BY <1>1
  <2>2. CASE j - 2 \in 1 .. n /\ j - 2 + 2 = j
    <3>1. a[j] = c.bypass[j - 2]
      BY <1>12, <2>2
    <3> QED
      BY <1>1, <2>2, <3>1
  <2> QED
    BY <1>2, <1>11, <2>1, <2>2
<1> QED
  BY <1>1, <1>10, <1>11, <1>12, <1>13 DEF Follows

\* An address is in the network of an entry if its leading bits are the entry's.
LEMMA SameMasked ==
  ASSUME NEW d \in Address, NEW e, Prefix(e) \in 0 .. Width
  PROVE  SameNetwork(d, Net(e).net, Net(e).prefix) <=> SameNetwork(d, e.addr, Prefix(e))
<1>1. Net(e).net = Masked(e.addr, Prefix(e)) /\ Net(e).prefix = Prefix(e)
  BY DEF Net
<1>2. \A i \in 1 .. Prefix(e) : Masked(e.addr, Prefix(e))[i] = e.addr[i]
  BY ConfigAssumption DEF Masked
<1> QED
  BY <1>1, <1>2 DEF SameNetwork

\* One address is the network of that address.
LEMMA SameHost ==
  ASSUME NEW d \in Address, NEW a \in Address
  PROVE  SameNetwork(d, Host(a).net, Host(a).prefix) <=> d = a
<1>1. Host(a).net = a /\ Host(a).prefix = Width
  BY DEF Host
<1>2. (\A i \in 1 .. Width : d[i] = a[i]) <=> d = a
  <2>1. d = [i \in 1 .. Width |-> d[i]] /\ a = [i \in 1 .. Width |-> a[i]]
    BY DEF Address
  <2> QED
    BY <2>1
<1> QED
  BY <1>1, <1>2 DEF SameNetwork

\* Does the rule match d?
Matches(d, rule) == SameNetwork(d, rule.net, rule.prefix)

\* The networks that a usable request's configuration returns early match exactly
\* what the request's text says is direct.
LEMMA DirectIs ==
  ASSUME NEW r \in Request, Usable(Parsed(r)), NEW a, a = Appends(Parsed(r)),
         NEW d \in Address
  PROVE  d \in Direct(r) <=> \E j \in 1 .. Len(a) - 1 : Matches(d, a[j])
<1>1. PICK c : c = Parsed(r)
  OBVIOUS
<1>2. /\ c \in Conf /\ c.proxy = <<r.proxy.addr, Prefix(r.proxy)>> /\ c.proxy # <<>>
      /\ Server(r.proxy) /\ \A k \in 1 .. Len(r.list) : Valid(r.list[k])
      /\ \A x : x \in ToSet(c.bypass) <=> \E k \in 1 .. Len(r.list) : x = Net(r.list[k])
  BY <1>1, ParsedIs DEF Clean, Usable
<1>3. PICK n : n = Len(c.bypass) /\ a = Appends(c)
  BY <1>1
<1>4. /\ n \in Nat /\ Len(a) = n + 3 /\ a[1] = Host(c.proxy[1]) /\ a[2] = Loopback
      /\ Follows(a, 2, c.bypass, n) /\ c.proxy[1] \in Address
  BY <1>2, <1>3, AppendsIs
<1>5. r.list \in Seq(Entry) /\ DOMAIN r.list = 1 .. Len(r.list) /\ Len(r.list) \in Nat
  BY FirewallAssumption
<1>6. c.proxy[1] = r.proxy.addr
  BY <1>2
<1>7. Matches(d, a[1]) <=> d = r.proxy.addr
  BY <1>4, <1>6, SameHost DEF Matches
<1>8. Matches(d, a[2]) <=> SameNetwork(d, Loopback.net, Loopback.prefix)
  BY <1>4 DEF Matches
<1>9. \A k \in 1 .. Len(r.list) :
        Matches(d, Net(r.list[k])) <=> SameNetwork(d, r.list[k].addr, Prefix(r.list[k]))
  BY <1>2, SameMasked DEF Matches, Valid
<1>10. DOMAIN c.bypass = 1 .. n
  BY <1>2, <1>3 DEF Conf
<1>11. (\E k \in 1 .. n : Matches(d, c.bypass[k]))
         <=> \E k \in 1 .. Len(r.list) : SameNetwork(d, r.list[k].addr, Prefix(r.list[k]))
  <2>1. ASSUME NEW k \in 1 .. n, Matches(d, c.bypass[k])
        PROVE  \E l \in 1 .. Len(r.list) : SameNetwork(d, r.list[l].addr, Prefix(r.list[l]))
    <3>1. c.bypass[k] \in ToSet(c.bypass)
      BY <1>10 DEF ToSet
    <3>2. PICK l \in 1 .. Len(r.list) : c.bypass[k] = Net(r.list[l])
      BY <1>2, <3>1
    <3> QED
      BY <1>9, <2>1, <3>2, Zenon
  <2>2. ASSUME NEW l \in 1 .. Len(r.list), SameNetwork(d, r.list[l].addr, Prefix(r.list[l]))
        PROVE  \E k \in 1 .. n : Matches(d, c.bypass[k])
    <3>1. Net(r.list[l]) \in ToSet(c.bypass)
      BY <1>2, Zenon
    <3>2. PICK k \in 1 .. n : c.bypass[k] = Net(r.list[l])
      BY <1>10, <3>1 DEF ToSet
    <3> QED
      BY <1>9, <2>2, <3>2, Zenon
  <2> QED
    BY <2>1, <2>2
<1>12. (\E j \in 1 .. Len(a) - 1 : Matches(d, a[j]))
         <=> Matches(d, a[1]) \/ Matches(d, a[2]) \/ \E k \in 1 .. n : Matches(d, c.bypass[k])
  <2>1. ASSUME NEW j \in 1 .. Len(a) - 1
        PROVE  j = 1 \/ j = 2 \/ \E k \in 1 .. n : a[j] = c.bypass[k]
    <3>1. j = 1 \/ j = 2 \/ (j - 2 \in 1 .. n /\ j - 2 + 2 = j)
      BY <1>4
    <3>2. CASE j - 2 \in 1 .. n /\ j - 2 + 2 = j
      <4>1. a[j] = c.bypass[j - 2]
        BY <1>4, <3>2 DEF Follows
      <4> QED
        BY <3>2, <4>1
    <3> QED
      BY <3>1, <3>2
  <2>2. 1 \in 1 .. Len(a) - 1 /\ 2 \in 1 .. Len(a) - 1
        /\ \A k \in 1 .. n : k + 2 \in 1 .. Len(a) - 1
    BY <1>4
  <2>3. ASSUME NEW k \in 1 .. n, Matches(d, c.bypass[k])
        PROVE  \E j \in 1 .. Len(a) - 1 : Matches(d, a[j])
    <3>1. Matches(d, a[k + 2]) /\ k + 2 \in 1 .. Len(a) - 1
      BY <1>4, <2>2, <2>3 DEF Follows
    <3> QED
      BY <3>1
  <2> QED
    BY <2>1, <2>2, <2>3
<1>13. d \in Direct(r) <=>
         \/ d = r.proxy.addr
         \/ SameNetwork(d, Loopback.net, Loopback.prefix)
         \/ \E k \in 1 .. Len(r.list) : SameNetwork(d, r.list[k].addr, Prefix(r.list[k]))
  BY <1>5 DEF Direct
<1> QED
  BY <1>7, <1>8, <1>11, <1>12, <1>13

-----------------------------------------------------------------------------
(* The commands.                                                             *)

\* A command takes effect and its status may be lost to the SIGCHLD handler, or it is
\* refused, or it fails without effect.
LEMMA Ran ==
  ASSUME NEW w, NEW c, NEW ok \in BOOLEAN, run_iptables(w, c, ok), faults \in 0 .. MaxFaults
  PROVE  \/ Accepts(c) /\ Apply(c) /\ faults' = faults /\ (ok \/ reaper[w])
         \/ /\ ~ok /\ UNCHANGED tableVars
            /\ \/ faults' = faults /\ ~Accepts(c)
               \/ faults' = faults + 1 /\ faults' \in 0 .. MaxFaults
BY FirewallAssumption DEF run_iptables

\* Failures are only ever counted.
LEMMA FaultsGrow ==
  ASSUME NEW w, NEW c, NEW ok \in BOOLEAN, run_iptables(w, c, ok), faults \in 0 .. MaxFaults
  PROVE  faults' \in 0 .. MaxFaults /\ faults <= faults'
<1>1. faults' = faults \/ (faults' = faults + 1 /\ faults' \in 0 .. MaxFaults)
  BY Ran, Zenon
<1> QED
  BY <1>1

\* The commands that only look.
Looks(c) == c = ListChain \/ c = CheckJump \/ \E r \in Rule : c = CheckRule(r)

\* Their success says that the thing is there, their failure that it is not, or that
\* they failed.
LEMMA Looked ==
  ASSUME NEW w, NEW c, NEW ok \in BOOLEAN, run_iptables(w, c, ok), faults \in 0 .. MaxFaults,
         Looks(c)
  PROVE  /\ chain' = chain /\ rules' = rules /\ jumps' = jumps
         /\ faults' \in 0 .. MaxFaults /\ faults <= faults'
         /\ ok => Accepts(c)
         /\ ~ok /\ ~reaper[w] => ~Accepts(c) \/ faults' = faults + 1
<1>1. c.do \in {"-S", "-C OUTPUT", "-C"}
  <2>1. ListChain.do = "-S" /\ CheckJump.do = "-C OUTPUT" /\ \A r : CheckRule(r).do = "-C"
    BY DEF ListChain, CheckJump, CheckRule
  <2> QED
    BY <2>1 DEF Looks
<1>2. Apply(c) => UNCHANGED tableVars
  BY <1>1 DEF Apply, tableVars
<1>3. UNCHANGED tableVars
  BY <1>2, Ran
<1> QED
  BY <1>3, Ran DEF tableVars

\* What the tests accept.
LEMMA LooksFor ==
  /\ Looks(ListChain) /\ (Accepts(ListChain) <=> chain)
  /\ Looks(CheckJump) /\ (Accepts(CheckJump) <=> jumps > 0)
  /\ \A r \in Rule : /\ Looks(CheckRule(r))
                     /\ Accepts(CheckRule(r)) <=> chain /\ r \in ToSet(rules)
<1>1. Looks(ListChain) /\ Looks(CheckJump) /\ \A r \in Rule : Looks(CheckRule(r))
  BY DEF Looks
<1>2. Accepts(ListChain) <=> chain
  BY DEF Accepts, ListChain
<1>3. Accepts(CheckJump) <=> jumps > 0
  BY DEF Accepts, CheckJump
<1>4. \A r : Accepts(CheckRule(r)) <=> chain /\ r \in ToSet(rules)
  BY DEF Accepts, CheckRule
<1> QED
  BY <1>1, <1>2, <1>3, <1>4, Zenon

\* iptables -N
LEMMA ChainMade ==
  ASSUME NEW w, NEW ok \in BOOLEAN, run_iptables(w, NewChain, ok), faults \in 0 .. MaxFaults,
         chain \in BOOLEAN
  PROVE  /\ chain' \in BOOLEAN /\ (chain => chain') /\ rules' = rules /\ jumps' = jumps
         /\ faults' \in 0 .. MaxFaults /\ faults <= faults'
<1>1. Apply(NewChain) => chain' = TRUE /\ rules' = rules /\ jumps' = jumps
  BY DEF Apply, NewChain
<1>2. CASE Apply(NewChain) /\ faults' = faults
  BY <1>1, <1>2
<1>3. CASE UNCHANGED tableVars
           /\ (faults' = faults \/ (faults' = faults + 1 /\ faults' \in 0 .. MaxFaults))
  BY <1>3 DEF tableVars
<1> QED
  BY <1>2, <1>3, Ran

\* iptables -F
LEMMA Flushed ==
  ASSUME NEW w, NEW ok \in BOOLEAN, run_iptables(w, FlushChain, ok), faults \in 0 .. MaxFaults
  PROVE  /\ chain' = chain /\ rules' \in {<<>>, rules} /\ jumps' = jumps
         /\ ok => rules' = <<>>
         /\ faults' \in 0 .. MaxFaults /\ faults <= faults'
<1>1. Apply(FlushChain) => chain' = chain /\ rules' = <<>> /\ jumps' = jumps
  BY DEF Apply, FlushChain
<1>2. UNCHANGED tableVars => chain' = chain /\ rules' = rules /\ jumps' = jumps
  BY DEF tableVars
<1>3. chain' = chain /\ jumps' = jumps /\ rules' \in {<<>>, rules}
  BY <1>1, <1>2, Ran, Zenon
<1>4. ok => rules' = <<>>
  BY <1>1, Ran, Zenon
<1> QED
  BY <1>3, <1>4, FaultsGrow

\* iptables -A
LEMMA RuleAdded ==
  ASSUME NEW w, NEW ok \in BOOLEAN, NEW r, run_iptables(w, AppendRule(r), ok),
         faults \in 0 .. MaxFaults
  PROVE  /\ chain' = chain /\ jumps' = jumps
         /\ \/ chain /\ rules' = Append(rules, r)
            \/ ~ok /\ rules' = rules
         /\ faults' \in 0 .. MaxFaults /\ faults <= faults'
<1>1. Apply(AppendRule(r)) => chain' = chain /\ rules' = Append(rules, r) /\ jumps' = jumps
  BY DEF Apply, AppendRule
<1>2. Accepts(AppendRule(r)) => chain
  BY DEF Accepts, AppendRule
<1> QED
  BY <1>1, <1>2, Ran DEF tableVars

\* iptables -I OUTPUT
LEMMA JumpAdded ==
  ASSUME NEW w, NEW ok \in BOOLEAN, run_iptables(w, InsertJump, ok), faults \in 0 .. MaxFaults,
         jumps \in Nat
  PROVE  /\ chain' = chain /\ rules' = rules /\ jumps' \in Nat
         /\ (ok => jumps' > 0) /\ (jumps' # jumps => chain)
         /\ faults' \in 0 .. MaxFaults /\ faults <= faults'
<1>1. Apply(InsertJump) => chain' = chain /\ rules' = rules /\ jumps' = jumps + 1
  BY DEF Apply, InsertJump
<1>2. Accepts(InsertJump) => chain
  BY DEF Accepts, InsertJump
<1> QED
  BY <1>1, <1>2, Ran DEF tableVars

\* iptables -D OUTPUT
LEMMA JumpRemoved ==
  ASSUME NEW w, NEW ok \in BOOLEAN, run_iptables(w, DeleteJump, ok), faults \in 0 .. MaxFaults,
         jumps \in Nat
  PROVE  /\ chain' = chain /\ rules' = rules /\ jumps' \in 0 .. jumps
         /\ faults' \in 0 .. MaxFaults /\ faults <= faults'
<1>1. Apply(DeleteJump) => chain' = chain /\ rules' = rules /\ jumps' = jumps - 1
  BY DEF Apply, DeleteJump
<1>2. Accepts(DeleteJump) => jumps > 0
  BY DEF Accepts, DeleteJump
<1> QED
  BY <1>1, <1>2, Ran DEF tableVars

\* iptables -X
LEMMA ChainDeleted ==
  ASSUME NEW w, NEW ok \in BOOLEAN, run_iptables(w, DeleteChain, ok), faults \in 0 .. MaxFaults,
         chain \in BOOLEAN
  PROVE  /\ rules' = rules /\ jumps' = jumps /\ chain' \in BOOLEAN
         /\ ~chain' /\ chain => rules = <<>> /\ jumps = 0
         /\ ok => jumps = 0
         /\ faults' \in 0 .. MaxFaults /\ faults <= faults'
<1>1. Apply(DeleteChain) => chain' = FALSE /\ rules' = rules /\ jumps' = jumps
  BY DEF Apply, DeleteChain
<1>2. Accepts(DeleteChain) => rules = <<>> /\ jumps = 0
  BY DEF Accepts, DeleteChain
<1>3. UNCHANGED tableVars => chain' = chain /\ rules' = rules /\ jumps' = jumps
  BY DEF tableVars
<1>4. rules' = rules /\ jumps' = jumps
  BY <1>1, <1>3, Ran, Zenon
<1>5. chain' \in BOOLEAN
  <2>1. chain' = FALSE \/ chain' = chain
    BY <1>1, <1>3, Ran, Zenon
  <2> QED
    BY <2>1
<1>6. ~chain' /\ chain => rules = <<>> /\ jumps = 0
  <2>1. UNCHANGED tableVars \/ Accepts(DeleteChain)
    BY Ran, Zenon
  <2>2. UNCHANGED tableVars => chain' = chain
    BY <1>3
  <2> QED
    BY <1>2, <2>1, <2>2
<1>7. ok => jumps = 0
  BY <1>2, Ran, Zenon
<1> QED
  BY <1>4, <1>5, <1>6, <1>7, FaultsGrow

-----------------------------------------------------------------------------
(* Types, and where a writer is within its call.                             *)

\* A writer is in the function that was called, and its configuration is the one its
\* request parses to.
Place(o, s) ==
  /\ s \in EnableSteps => o = "enable"
  /\ s = "check" => o = "check"
  /\ s \in DisableSteps => o \in {"enable", "disable"}
Within(s, n, c) ==
  /\ s = "append" => n <= Len(Appends(c))
  /\ s = "check" => n <= Len(Checks(c))
Asked(r, c) == r # NoRequest => r \in Request /\ c = Parsed(r) /\ Usable(c)
Call(w) ==
  /\ Place(op[w], at[w]) /\ Within(at[w], next[w], cfg[w]) /\ Asked(asked[w], cfg[w])
  /\ op[w] \in {"enable", "check"} => asked[w] # NoRequest
  /\ op[w] # "enable" => ~reaper[w]
Calls == \A w \in Writer : Call(w)

\* The parts of TypeOK.
TableOK ==
  /\ chain \in BOOLEAN /\ rules \in Seq(Rule) /\ jumps \in Nat
  /\ faults \in 0 .. MaxFaults /\ installed \in Request \cup {NoRequest}
CallOK ==
  /\ op \in [Writer -> {"none", "enable", "disable", "check"}]
  /\ asked \in [Writer -> Request \cup {NoRequest}]
  /\ cfg \in [Writer -> Conf] /\ \A w \in Writer : Len(cfg[w].bypass) <= MaxBypass
  /\ reaper \in [Writer -> BOOLEAN]
ProgressOK ==
  /\ at \in [Writer -> Steps] /\ next \in [Writer -> Nat \ {0}]
  /\ result \in [Writer -> {"ok", "fail", "killed"}]

\* TypeOK in three parts: the table, the calls, and where they are.
LEMMA TypeParts == TypeOK <=> TableOK /\ CallOK /\ ProgressOK
BY DEF TypeOK, TableOK, CallOK, ProgressOK, Conf, Rule

\* The commands of fp_firewall_is_enabled.
LEMMA ChecksIs ==
  ASSUME NEW c \in Conf, c.proxy # <<>>, NEW h, h = Checks(c), NEW n, n = Len(c.bypass)
  PROVE  /\ n \in Nat /\ Len(h) = n + 5
         /\ h[1] = ListChain /\ h[2] = CheckJump /\ h[3] = CheckRule(Host(c.proxy[1]))
         /\ h[4] = CheckRule(Loopback) /\ h[5] = CheckRule(Redirect)
         /\ \A k \in 1 .. n : h[k + 5] = CheckRule(c.bypass[k])
         /\ \A j \in 1 .. n + 5 : Looks(h[j])
<1> DEFINE x == <<ListChain, CheckJump, CheckRule(Host(c.proxy[1])), CheckRule(Loopback),
                  CheckRule(Redirect)>>
           y == [i \in DOMAIN c.bypass |-> CheckRule(c.bypass[i])]
           S == {k : k \in {x[i] : i \in 1 .. 5} \cup {y[i] : i \in 1 .. n}}
<1>1. c.bypass \in Seq(Network) /\ n \in Nat /\ DOMAIN c.bypass = 1 .. n
      /\ c.proxy[1] \in Address
  BY DEF Conf
<1>2. x \in Seq(S) /\ Len(x) = 5
  OBVIOUS
<1>3. y \in Seq(S) /\ Len(y) = n /\ \A i \in 1 .. n : y[i] = CheckRule(c.bypass[i])
  BY <1>1
<1>4. /\ x[1] = ListChain /\ x[2] = CheckJump /\ x[3] = CheckRule(Host(c.proxy[1]))
      /\ x[4] = CheckRule(Loopback) /\ x[5] = CheckRule(Redirect)
  OBVIOUS
<1>5. h = x \o y
  BY DEF Checks
<1> HIDE DEF S, x, y
<1>6. PICK s \in Seq(S) : s = x
  BY <1>2
<1>7. PICK t \in Seq(S) : t = y
  BY <1>3
<1>8. /\ Len(s \o t) = Len(s) + Len(t)
      /\ \A i \in 1 .. Len(s) : (s \o t)[i] = s[i]
      /\ \A i \in 1 .. Len(t) : (s \o t)[Len(s) + i] = t[i]
  BY Concat
<1>9. Len(s) = 5 /\ Len(t) = n /\ h = s \o t /\ 5 + n = n + 5
      /\ \A i \in 1 .. n : 5 + i = i + 5
  BY <1>1, <1>2, <1>3, <1>5, <1>6, <1>7
<1>10. Len(h) = n + 5
  BY <1>8, <1>9
<1>11. \A i \in 1 .. 5 : h[i] = x[i]
  BY <1>6, <1>8, <1>9
<1>12. h[1] = x[1] /\ h[2] = x[2] /\ h[3] = x[3] /\ h[4] = x[4] /\ h[5] = x[5]
  BY <1>11
<1>13. \A i \in 1 .. n : h[i + 5] = CheckRule(c.bypass[i])
  BY <1>3, <1>7, <1>8, <1>9
<1>14. Host(c.proxy[1]) \in Rule /\ Loopback \in Rule /\ Redirect \in Rule
       /\ \A k \in 1 .. n : c.bypass[k] \in Rule
  <2>1. Host(c.proxy[1]) \in Network /\ Loopback \in Network
    BY <1>1, FirewallAssumption, ConfigAssumption DEF Host, Network
  <2>2. \A k \in 1 .. n : c.bypass[k] \in Network
    BY <1>1
  <2> QED
    BY <2>1, <2>2 DEF Rule
<1>15. ASSUME NEW j \in 1 .. n + 5 PROVE Looks(h[j])
  <2>1. CASE j \in 1 .. 5
    <3>1. /\ Looks(ListChain) /\ Looks(CheckJump) /\ Looks(CheckRule(Host(c.proxy[1])))
          /\ Looks(CheckRule(Loopback)) /\ Looks(CheckRule(Redirect))
      BY <1>14, LooksFor, Zenon
    <3>2. j = 1 \/ j = 2 \/ j = 3 \/ j = 4 \/ j = 5
      BY <2>1
    <3> QED
      BY <1>4, <1>12, <3>1, <3>2, Zenon
  <2>2. CASE j \notin 1 .. 5
    <3>1. j - 5 \in 1 .. n /\ j - 5 + 5 = j
      BY <1>1, <2>2
    <3>2. h[j] = CheckRule(c.bypass[j - 5]) /\ c.bypass[j - 5] \in Rule
      BY <1>13, <1>14, <3>1
    <3> QED
      BY <3>2, LooksFor, Zenon
  <2> QED
    BY <2>1, <2>2
<1> QED
  BY <1>1, <1>4, <1>10, <1>12, <1>13, <1>15

\* A request's configuration has its type.
LEMMA AskedConf ==
  ASSUME NEW r \in Request, Usable(Parsed(r))
  PROVE  /\ Parsed(r) \in Conf /\ Parsed(r).proxy # <<>> /\ Len(Parsed(r).bypass) <= MaxBypass
BY ParsedIs DEF Clean, Bounded, Usable

TInv == TypeOK /\ Calls

\* Initially.
LEMMA TypeInit == Init => TInv
<1> SUFFICES ASSUME Init PROVE TInv
  OBVIOUS
<1>1. Empty \in Conf /\ Len(Empty.bypass) <= MaxBypass
  BY ConfigAssumption DEF Empty, Conf
<1>2. TableOK
  <2>1. <<>> \in Seq(Rule) /\ 0 \in 0 .. MaxFaults /\ 0 \in Nat
    BY FirewallAssumption
  <2> QED
    BY <2>1 DEF Init, TableOK
<1>3. CallOK
  BY <1>1 DEF Init, CallOK
<1>4. ProgressOK
  BY DEF Init, ProgressOK, Steps
<1>5. ASSUME NEW w \in Writer PROVE Call(w)
  <2>1. op[w] = "none" /\ at[w] = "idle" /\ asked[w] = NoRequest /\ reaper[w] = FALSE
    BY DEF Init
  <2>2. Place("none", "idle") /\ Within("idle", next[w], cfg[w])
    BY DEF Place, Within, EnableSteps, DisableSteps
  <2> QED
    BY <2>1, <2>2 DEF Call, Asked
<1> QED
  BY <1>2, <1>3, <1>4, <1>5, TypeParts DEF TInv, Calls

\* One writer goes on in its call.
LEMMA Continues ==
  ASSUME TInv, NEW w \in Writer, UNCHANGED callVars, TableOK',
         NEW s \in Steps, NEW n \in Nat \ {0}, NEW v \in {"ok", "fail", "killed"},
         at' = [at EXCEPT ![w] = s], next' = [next EXCEPT ![w] = n],
         result' = [result EXCEPT ![w] = v],
         Place(op[w], s), Within(s, n, cfg[w])
  PROVE  TInv'
<1>1. TableOK /\ CallOK /\ ProgressOK /\ Calls
  BY TypeParts DEF TInv
<1>2. op' = op /\ asked' = asked /\ cfg' = cfg /\ reaper' = reaper
  BY DEF callVars
<1>3. CallOK'
  BY <1>1, <1>2 DEF CallOK
<1>4. ProgressOK'
  BY <1>1 DEF ProgressOK
<1>5. ASSUME NEW u \in Writer PROVE Call(u)'
  <2>1. Call(u)
    BY <1>1 DEF Calls
  <2>2. CASE u = w
    <3>1. at'[u] = s /\ next'[u] = n
      BY <1>1, <2>2 DEF ProgressOK
    <3> QED
      BY <1>2, <2>1, <2>2, <3>1 DEF Call
  <2>3. CASE u # w
    <3>1. at'[u] = at[u] /\ next'[u] = next[u]
      BY <1>1, <2>3 DEF ProgressOK
    <3> QED
      BY <1>2, <2>1, <3>1 DEF Call
  <2> QED
    BY <2>2, <2>3
<1>6. TypeOK'
  BY <1>3, <1>4, TypeParts, PTL
<1>7. Calls'
  BY <1>5 DEF Calls
<1> QED
  BY <1>6, <1>7 DEF TInv

\* The same, going to another command or returning.
LEMMA Moves ==
  ASSUME TInv, NEW w \in Writer, UNCHANGED callVars, TableOK', NEW s \in Steps,
         Goto(w, s), NEW n \in Nat \ {0}, next' = [next EXCEPT ![w] = n],
         Place(op[w], s), Within(s, n, cfg[w])
  PROVE  TInv'
<1>1. result' = [result EXCEPT ![w] = result[w]] /\ result[w] \in {"ok", "fail", "killed"}
  BY TypeParts DEF Goto, TInv, ProgressOK
<1>2. at' = [at EXCEPT ![w] = s]
  BY DEF Goto
<1> QED
  BY <1>1, <1>2, Continues

\* The same, returning.
LEMMA Returns ==
  ASSUME TInv, NEW w \in Writer, UNCHANGED callVars, TableOK',
         NEW v \in {"ok", "fail", "killed"}, Return(w, v), NEW n \in Nat \ {0},
         next' = [next EXCEPT ![w] = n]
  PROVE  TInv'
<1>1. at' = [at EXCEPT ![w] = "idle"] /\ result' = [result EXCEPT ![w] = v]
  BY DEF Return
<1>2. "idle" \in Steps /\ Place(op[w], "idle") /\ Within("idle", n, cfg[w])
  BY DEF Place, Within, EnableSteps, DisableSteps, Steps
<1> QED
  BY <1>1, <1>2, Continues

\* Most commands do not touch the writer's position in its list.
LEMMA Unmoved ==
  ASSUME TInv, NEW w \in Writer, next' = next
  PROVE  next[w] \in Nat \ {0} /\ next' = [next EXCEPT ![w] = next[w]]
BY TypeParts DEF TInv, ProgressOK

\* Steps outside the two lists.
LEMMA Elsewhere ==
  ASSUME NEW s, s \notin {"append", "check"}, NEW n, NEW c
  PROVE  Within(s, n, c)
BY DEF Within

\* The call that a writer is in.
LEMMA InCall ==
  ASSUME TInv, NEW w \in Writer
  PROVE  /\ at[w] \in EnableSteps => op[w] = "enable"
         /\ at[w] = "check" => op[w] = "check"
         /\ at[w] \in DisableSteps => op[w] \in {"enable", "disable"}
         /\ op[w] # "enable" => reaper[w] = FALSE
         /\ op[w] \in {"enable", "check"} =>
              /\ asked[w] \in Request /\ cfg[w] = Parsed(asked[w]) /\ Usable(cfg[w])
              /\ cfg[w] \in Conf /\ cfg[w].proxy # <<>>
<1>1. Call(w) /\ asked[w] \in Request \cup {NoRequest} /\ cfg[w] \in Conf
      /\ reaper[w] \in BOOLEAN
  BY TypeParts DEF TInv, CallOK, Calls
<1>2. op[w] \in {"enable", "check"} =>
        asked[w] \in Request /\ cfg[w] = Parsed(asked[w]) /\ Usable(cfg[w])
  BY <1>1 DEF Call, Asked
<1> QED
  BY <1>1, <1>2 DEF Call, Place, Usable

\* Each command keeps the types: -S before the chain is created.
LEMMA TypeExists ==
  ASSUME TInv, NEW w \in Writer, ChainExists(w) PROVE TInv'
<1>1. PICK ok \in BOOLEAN : /\ run_iptables(w, ListChain, ok)
                            /\ Goto(w, IF ok THEN "flush" ELSE "create")
  BY DEF ChainExists
<1>2. TableOK /\ UNCHANGED callVars /\ next' = next /\ installed' = installed
      /\ op[w] = "enable"
  BY TypeParts, InCall DEF ChainExists, TInv, EnableSteps
<1>3. TableOK'
  BY <1>1, <1>2, Looked, LooksFor DEF TableOK
<1>4. PICK s \in {"flush", "create"} : Goto(w, s)
  BY <1>1
<1>5. s \in Steps /\ Place(op[w], s) /\ Within(s, next[w], cfg[w])
  BY <1>2, Elsewhere DEF Steps, Place, EnableSteps, DisableSteps
<1> QED
  BY <1>2, <1>3, <1>4, <1>5, Unmoved, Moves

\* -N.
LEMMA TypeCreate ==
  ASSUME TInv, NEW w \in Writer, Create(w) PROVE TInv'
<1>1. PICK ok \in BOOLEAN : /\ run_iptables(w, NewChain, ok)
                            /\ IF ok THEN Goto(w, "flush") ELSE Return(w, "fail")
  BY DEF Create
<1>2. TableOK /\ UNCHANGED callVars /\ next' = next /\ installed' = installed
      /\ op[w] = "enable"
  BY TypeParts, InCall DEF Create, TInv, EnableSteps
<1>3. TableOK'
  BY <1>1, <1>2, ChainMade DEF TableOK
<1>4. "flush" \in Steps /\ Place(op[w], "flush") /\ Within("flush", next[w], cfg[w])
  BY <1>2, Elsewhere DEF Steps, Place, EnableSteps, DisableSteps
<1>5. Goto(w, "flush") \/ Return(w, "fail")
  BY <1>1
<1> QED
  BY <1>2, <1>3, <1>4, <1>5, Unmoved, Moves, Returns

\* -F, from where the rules are counted.
LEMMA TypeFlush ==
  ASSUME TInv, NEW w \in Writer, Flush(w) PROVE TInv'
<1>1. PICK ok \in BOOLEAN : /\ run_iptables(w, FlushChain, ok)
                            /\ Goto(w, IF ok THEN "append" ELSE "jump")
  BY DEF Flush
<1>2. /\ TableOK /\ UNCHANGED callVars /\ next' = [next EXCEPT ![w] = 1]
      /\ installed' = (IF rules' = <<>> THEN asked[w] ELSE installed)
      /\ op[w] = "enable" /\ asked[w] \in Request /\ cfg[w] \in Conf /\ cfg[w].proxy # <<>>
  BY TypeParts, InCall DEF Flush, TInv, EnableSteps
<1>3. TableOK'
  <2>1. /\ chain' = chain /\ rules' \in {<<>>, rules} /\ jumps' = jumps
        /\ faults' \in 0 .. MaxFaults
    BY <1>1, <1>2, Flushed DEF TableOK
  <2>2. <<>> \in Seq(Rule)
    OBVIOUS
  <2> QED
    BY <1>2, <2>1, <2>2 DEF TableOK
<1>4. PICK s \in {"append", "jump"} : Goto(w, s)
  BY <1>1
<1>5. 1 <= Len(Appends(cfg[w]))
  <2>1. PICK c, a, n : c = cfg[w] /\ a = Appends(c) /\ n = Len(c.bypass)
    OBVIOUS
  <2>2. c \in Conf /\ c.proxy # <<>>
    BY <1>2, <2>1
  <2>3. n \in Nat /\ Len(a) = n + 3
    BY <2>1, <2>2, AppendsIs
  <2> QED
    BY <2>1, <2>3
<1>6. s \in Steps /\ Place(op[w], s) /\ Within(s, 1, cfg[w])
  BY <1>2, <1>5 DEF Steps, Place, Within, EnableSteps, DisableSteps
<1> QED
  BY <1>2, <1>3, <1>4, <1>6, Moves, 1 \in Nat \ {0}

\* The rule that is appended is one of the configuration's.
LEMMA NextRule ==
  ASSUME TInv, NEW w \in Writer, at[w] = "append"
  PROVE  /\ next[w] \in 1 .. Len(Appends(cfg[w])) /\ Appends(cfg[w])[next[w]] \in Rule
         /\ Appends(cfg[w]) \in Seq(Rule) /\ Len(Appends(cfg[w])) \in Nat
<1>1. op[w] = "enable" /\ cfg[w] \in Conf /\ cfg[w].proxy # <<>>
  BY InCall DEF EnableSteps
<1>2. Appends(cfg[w]) \in Seq(Rule)
  BY <1>1, AppendsIs
<1>3. Within("append", next[w], cfg[w]) /\ next[w] \in Nat \ {0}
  BY TypeParts DEF TInv, Calls, Call, ProgressOK
<1>4. next[w] \in 1 .. Len(Appends(cfg[w]))
  BY <1>2, <1>3 DEF Within
<1> QED
  BY <1>2, <1>4

\* -A, until the last rule.
LEMMA TypeAppend ==
  ASSUME TInv, NEW w \in Writer, AppendNext(w) PROVE TInv'
<1> DEFINE a == Appends(cfg[w])
<1>1. PICK ok \in BOOLEAN : /\ run_iptables(w, AppendRule(a[next[w]]), ok)
                            /\ Goto(w, IF ~ok THEN "jump"
                                       ELSE IF next[w] = Len(a) THEN "checkjump" ELSE "append")
  BY DEF AppendNext
<1>2. /\ TableOK /\ UNCHANGED callVars /\ installed' = installed /\ at[w] = "append"
      /\ next' = [next EXCEPT ![w] = IF at'[w] = "append" THEN @ + 1 ELSE 1]
      /\ op[w] = "enable" /\ at \in [Writer -> Steps] /\ next[w] \in Nat \ {0}
      /\ next \in [Writer -> Nat \ {0}]
  BY TypeParts, InCall DEF AppendNext, TInv, EnableSteps, ProgressOK
<1>3. next[w] \in 1 .. Len(a) /\ a[next[w]] \in Rule /\ Len(a) \in Nat
  BY <1>2, NextRule
<1> HIDE DEF a
<1>4. TableOK'
  <2>1. /\ chain' = chain /\ jumps' = jumps
        /\ rules' = Append(rules, a[next[w]]) \/ rules' = rules
        /\ faults' \in 0 .. MaxFaults
    BY <1>1, <1>2, RuleAdded DEF TableOK
  <2>2. PICK r \in Rule : r = a[next[w]]
    BY <1>3
  <2>3. rules \in Seq(Rule) /\ Append(rules, r) \in Seq(Rule)
    BY <1>2 DEF TableOK
  <2> QED
    BY <1>2, <2>1, <2>2, <2>3 DEF TableOK
<1>5. PICK s \in {"jump", "checkjump", "append"} :
        Goto(w, s) /\ (s = "append" => next[w] # Len(a))
  BY <1>1
<1>6. PICK n : n = IF s = "append" THEN next[w] + 1 ELSE 1
  OBVIOUS
<1>7. at'[w] = s
  BY <1>2, <1>5 DEF Goto
<1>8. n \in Nat \ {0} /\ next' = [next EXCEPT ![w] = n]
  BY <1>2, <1>6, <1>7
<1>9. s = "append" => n <= Len(a)
  BY <1>3, <1>5, <1>6
<1>10. s \in Steps /\ Place(op[w], s) /\ Within(s, n, cfg[w])
  BY <1>2, <1>9 DEF Steps, Place, Within, EnableSteps, DisableSteps, a
<1> QED
  BY <1>2, <1>4, <1>5, <1>8, <1>10, Moves

\* -C OUTPUT after the rules.
LEMMA TypeOutput ==
  ASSUME TInv, NEW w \in Writer, CheckOutput(w) PROVE TInv'
<1>1. PICK ok \in BOOLEAN : /\ run_iptables(w, CheckJump, ok)
                            /\ IF ok THEN Return(w, "ok") ELSE Goto(w, "addjump")
  BY DEF CheckOutput
<1>2. TableOK /\ UNCHANGED callVars /\ next' = next /\ installed' = installed
      /\ op[w] = "enable"
  BY TypeParts, InCall DEF CheckOutput, TInv, EnableSteps
<1>3. TableOK'
  BY <1>1, <1>2, Looked, LooksFor DEF TableOK
<1>4. "addjump" \in Steps /\ Place(op[w], "addjump") /\ Within("addjump", next[w], cfg[w])
  BY <1>2, Elsewhere DEF Steps, Place, EnableSteps, DisableSteps
<1>5. Goto(w, "addjump") \/ Return(w, "ok")
  BY <1>1
<1> QED
  BY <1>2, <1>3, <1>4, <1>5, Unmoved, Moves, Returns

\* -I OUTPUT.
LEMMA TypeAddJump ==
  ASSUME TInv, NEW w \in Writer, AddJump(w) PROVE TInv'
<1>1. PICK ok \in BOOLEAN : /\ run_iptables(w, InsertJump, ok)
                            /\ IF ok THEN Return(w, "ok") ELSE Goto(w, "jump")
  BY DEF AddJump
<1>2. TableOK /\ UNCHANGED callVars /\ next' = next /\ installed' = installed
      /\ op[w] = "enable"
  BY TypeParts, InCall DEF AddJump, TInv, EnableSteps
<1>3. TableOK'
  BY <1>1, <1>2, JumpAdded DEF TableOK
<1>4. "jump" \in Steps /\ Place(op[w], "jump") /\ Within("jump", next[w], cfg[w])
  BY <1>2, Elsewhere DEF Steps, Place, EnableSteps, DisableSteps
<1>5. Goto(w, "jump") \/ Return(w, "ok")
  BY <1>1
<1> QED
  BY <1>2, <1>3, <1>4, <1>5, Unmoved, Moves, Returns

\* -C OUTPUT of fp_firewall_disable.
LEMMA TypeJump ==
  ASSUME TInv, NEW w \in Writer, JumpExists(w) PROVE TInv'
<1>1. PICK ok \in BOOLEAN : /\ run_iptables(w, CheckJump, ok)
                            /\ Goto(w, IF ok THEN "remove" ELSE "chain")
  BY DEF JumpExists
<1>2. TableOK /\ UNCHANGED callVars /\ next' = next /\ installed' = installed
      /\ op[w] \in {"enable", "disable"}
  BY TypeParts, InCall DEF JumpExists, TInv, DisableSteps
<1>3. TableOK'
  BY <1>1, <1>2, Looked, LooksFor DEF TableOK
<1>4. PICK s \in {"remove", "chain"} : Goto(w, s)
  BY <1>1
<1>5. s \in Steps /\ Place(op[w], s) /\ Within(s, next[w], cfg[w])
  BY <1>2, Elsewhere DEF Steps, Place, EnableSteps, DisableSteps
<1> QED
  BY <1>2, <1>3, <1>4, <1>5, Unmoved, Moves

\* -D OUTPUT.
LEMMA TypeRemove ==
  ASSUME TInv, NEW w \in Writer, RemoveJump(w) PROVE TInv'
<1>1. PICK ok \in BOOLEAN : /\ run_iptables(w, DeleteJump, ok)
                            /\ IF ok THEN Goto(w, "jump") ELSE Return(w, "fail")
  BY DEF RemoveJump
<1>2. TableOK /\ UNCHANGED callVars /\ next' = next /\ installed' = installed
      /\ op[w] \in {"enable", "disable"}
  BY TypeParts, InCall DEF RemoveJump, TInv, DisableSteps
<1>3. TableOK'
  BY <1>1, <1>2, JumpRemoved DEF TableOK
<1>4. "jump" \in Steps /\ Place(op[w], "jump") /\ Within("jump", next[w], cfg[w])
  BY <1>2, Elsewhere DEF Steps, Place, EnableSteps, DisableSteps
<1>5. Goto(w, "jump") \/ Return(w, "fail")
  BY <1>1
<1> QED
  BY <1>2, <1>3, <1>4, <1>5, Unmoved, Moves, Returns

\* -S of fp_firewall_disable.
LEMMA TypeChain ==
  ASSUME TInv, NEW w \in Writer, ChainLeft(w) PROVE TInv'
<1>1. PICK ok \in BOOLEAN :
        /\ run_iptables(w, ListChain, ok)
        /\ IF ok THEN Goto(w, "dflush") ELSE Return(w, DisableResult(w, TRUE))
  BY DEF ChainLeft
<1>2. TableOK /\ UNCHANGED callVars /\ next' = next /\ installed' = installed
      /\ op[w] \in {"enable", "disable"}
  BY TypeParts, InCall DEF ChainLeft, TInv, DisableSteps
<1>3. TableOK'
  BY <1>1, <1>2, Looked, LooksFor DEF TableOK
<1>4. "dflush" \in Steps /\ Place(op[w], "dflush") /\ Within("dflush", next[w], cfg[w])
  BY <1>2, Elsewhere DEF Steps, Place, EnableSteps, DisableSteps
<1>5. Goto(w, "dflush") \/ Return(w, "ok") \/ Return(w, "fail")
  BY <1>1 DEF DisableResult
<1> QED
  BY <1>2, <1>3, <1>4, <1>5, Unmoved, Moves, Returns

\* -F of fp_firewall_disable.
LEMMA TypeFlushLeft ==
  ASSUME TInv, NEW w \in Writer, FlushLeft(w) PROVE TInv'
<1>1. PICK ok \in BOOLEAN : /\ run_iptables(w, FlushChain, ok)
                            /\ IF ok THEN Goto(w, "delete") ELSE Return(w, "fail")
  BY DEF FlushLeft
<1>2. TableOK /\ UNCHANGED callVars /\ next' = next /\ installed' = installed
      /\ op[w] \in {"enable", "disable"}
  BY TypeParts, InCall DEF FlushLeft, TInv, DisableSteps
<1>3. TableOK'
  <2>1. /\ chain' = chain /\ rules' \in {<<>>, rules} /\ jumps' = jumps
        /\ faults' \in 0 .. MaxFaults
    BY <1>1, <1>2, Flushed DEF TableOK
  <2>2. <<>> \in Seq(Rule)
    OBVIOUS
  <2> QED
    BY <1>2, <2>1, <2>2 DEF TableOK
<1>4. "delete" \in Steps /\ Place(op[w], "delete") /\ Within("delete", next[w], cfg[w])
  BY <1>2, Elsewhere DEF Steps, Place, EnableSteps, DisableSteps
<1>5. Goto(w, "delete") \/ Return(w, "fail")
  BY <1>1
<1> QED
  BY <1>2, <1>3, <1>4, <1>5, Unmoved, Moves, Returns

\* -X.
LEMMA TypeDelete ==
  ASSUME TInv, NEW w \in Writer, Delete(w) PROVE TInv'
<1>1. PICK ok \in BOOLEAN : run_iptables(w, DeleteChain, ok) /\ Return(w, DisableResult(w, ok))
  BY DEF Delete
<1>2. TableOK /\ UNCHANGED callVars /\ next' = next /\ installed' = installed
  BY TypeParts DEF Delete, TInv
<1>3. TableOK'
  BY <1>1, <1>2, ChainDeleted DEF TableOK
<1>4. Return(w, "ok") \/ Return(w, "fail")
  BY <1>1 DEF DisableResult
<1> QED
  BY <1>2, <1>3, <1>4, Unmoved, Returns

\* The command that fp_firewall_is_enabled runs next is one of its tests.
LEMMA NextCheck ==
  ASSUME TInv, NEW w \in Writer, at[w] = "check"
  PROVE  /\ next[w] \in 1 .. Len(Checks(cfg[w])) /\ Looks(Checks(cfg[w])[next[w]])
         /\ Len(Checks(cfg[w])) \in Nat
<1>1. op[w] = "check" /\ cfg[w] \in Conf /\ cfg[w].proxy # <<>>
  BY InCall
<1>2. PICK n \in Nat : /\ Len(Checks(cfg[w])) = n + 5
                       /\ \A j \in 1 .. n + 5 : Looks(Checks(cfg[w])[j])
  BY <1>1, ChecksIs
<1>3. Within("check", next[w], cfg[w]) /\ next[w] \in Nat \ {0}
  BY TypeParts DEF TInv, Calls, Call, ProgressOK
<1>4. next[w] \in 1 .. n + 5
  BY <1>2, <1>3 DEF Within
<1> QED
  BY <1>2, <1>4

\* The tests of fp_firewall_is_enabled.
LEMMA TypeCheck ==
  ASSUME TInv, NEW w \in Writer, CheckNext(w) PROVE TInv'
<1> DEFINE h == Checks(cfg[w])
<1>1. PICK ok \in BOOLEAN :
        /\ run_iptables(w, h[next[w]], ok)
        /\ IF ~ok THEN Return(w, "fail")
           ELSE IF next[w] = Len(h) THEN Return(w, "ok") ELSE Goto(w, "check")
  BY DEF CheckNext
<1>2. /\ TableOK /\ UNCHANGED callVars /\ installed' = installed /\ at[w] = "check"
      /\ next' = [next EXCEPT ![w] = IF at'[w] = "check" THEN @ + 1 ELSE 1]
      /\ op[w] = "check" /\ at \in [Writer -> Steps] /\ next[w] \in Nat \ {0}
      /\ next \in [Writer -> Nat \ {0}]
  BY TypeParts, InCall DEF CheckNext, TInv, ProgressOK
<1>3. next[w] \in 1 .. Len(h) /\ Looks(h[next[w]]) /\ Len(h) \in Nat
  BY <1>2, NextCheck
<1> HIDE DEF h
<1>4. TableOK'
  BY <1>1, <1>2, <1>3, Looked DEF TableOK
<1>5. \/ Return(w, "fail") \/ Return(w, "ok")
      \/ Goto(w, "check") /\ next[w] # Len(h)
  BY <1>1
<1>6. CASE Return(w, "fail") \/ Return(w, "ok")
  <2>1. at'[w] = "idle"
    BY <1>2, <1>6 DEF Return
  <2>2. next' = [next EXCEPT ![w] = 1]
    BY <1>2, <2>1
  <2> QED
    BY <1>2, <1>4, <1>6, <2>2, Returns, 1 \in Nat \ {0}
<1>7. CASE Goto(w, "check") /\ next[w] # Len(h)
  <2>1. at'[w] = "check"
    BY <1>2, <1>7 DEF Goto
  <2>2. PICK n \in Nat \ {0} : n = next[w] + 1
    BY <1>2
  <2>3. next' = [next EXCEPT ![w] = n] /\ n <= Len(h)
    BY <1>2, <1>3, <1>7, <2>1, <2>2
  <2>4. "check" \in Steps /\ Place(op[w], "check") /\ Within("check", n, cfg[w])
    BY <1>2, <2>3 DEF Steps, Place, Within, EnableSteps, DisableSteps, h
  <2> QED
    BY <1>2, <1>4, <1>7, <2>3, <2>4, Moves
<1> QED
  BY <1>5, <1>6, <1>7

\* SIGKILL.
LEMMA TypeKilled ==
  ASSUME TInv, NEW w \in Writer, Killed(w) PROVE TInv'
<1>1. /\ TableOK /\ UNCHANGED <<tableVars, callVars, faults, installed>> /\ Return(w, "killed")
      /\ next' = [next EXCEPT ![w] = 1]
  BY TypeParts DEF Killed, TInv
<1>2. TableOK'
  BY <1>1 DEF TableOK, tableVars
<1> QED
  BY <1>1, <1>2, Returns, 1 \in Nat \ {0}

\* One writer starts a call.
LEMMA Starts ==
  ASSUME TInv, NEW w \in Writer, UNCHANGED <<tableVars, faults, installed, result>>,
         NEW o \in {"enable", "disable", "check"}, NEW s \in Steps, NEW n \in Nat \ {0},
         NEW r \in Request \cup {NoRequest}, NEW c \in Conf, Len(c.bypass) <= MaxBypass,
         NEW b \in BOOLEAN,
         op' = [op EXCEPT ![w] = o], at' = [at EXCEPT ![w] = s],
         next' = [next EXCEPT ![w] = n], asked' = [asked EXCEPT ![w] = r],
         cfg' = [cfg EXCEPT ![w] = c], reaper' = [reaper EXCEPT ![w] = b],
         Place(o, s), Within(s, n, c), Asked(r, c),
         o \in {"enable", "check"} => r # NoRequest, o # "enable" => ~b
  PROVE  TInv'
<1>1. TableOK /\ CallOK /\ ProgressOK /\ Calls
  BY TypeParts DEF TInv
<1>2. TableOK'
  BY <1>1 DEF TableOK, tableVars
<1>3. CallOK'
  <2>1. /\ op' \in [Writer -> {"none", "enable", "disable", "check"}]
        /\ asked' \in [Writer -> Request \cup {NoRequest}]
        /\ cfg' \in [Writer -> Conf] /\ reaper' \in [Writer -> BOOLEAN]
    BY <1>1 DEF CallOK
  <2>2. \A u \in Writer : Len(cfg'[u].bypass) <= MaxBypass
    BY <1>1 DEF CallOK
  <2> QED
    BY <2>1, <2>2 DEF CallOK
<1>4. ProgressOK'
  BY <1>1 DEF ProgressOK
<1>5. ASSUME NEW u \in Writer PROVE Call(u)'
  <2>1. Call(u)
    BY <1>1 DEF Calls
  <2>2. CASE u = w
    <3>1. /\ at'[u] = s /\ next'[u] = n /\ op'[u] = o /\ asked'[u] = r /\ cfg'[u] = c
          /\ reaper'[u] = b
      BY <1>1, <2>2 DEF ProgressOK, CallOK
    <3> QED
      BY <3>1 DEF Call
  <2>3. CASE u # w
    <3>1. /\ at'[u] = at[u] /\ next'[u] = next[u] /\ op'[u] = op[u] /\ asked'[u] = asked[u]
          /\ cfg'[u] = cfg[u] /\ reaper'[u] = reaper[u]
      BY <1>1, <2>3 DEF ProgressOK, CallOK
    <3> QED
      BY <2>1, <3>1 DEF Call
  <2> QED
    BY <2>2, <2>3
<1>6. TypeOK'
  BY <1>2, <1>3, <1>4, TypeParts, PTL
<1>7. Calls'
  BY <1>5 DEF Calls
<1> QED
  BY <1>6, <1>7 DEF TInv

\* The configuration that a call is given.
LEMMA Given ==
  ASSUME NEW r \in Request, NEW way \in Way, Usable(Configured(r, way)),
         NEW c, c = Configured(r, way)
  PROVE  /\ c = Parsed(r) /\ Usable(c) /\ c \in Conf /\ Len(c.bypass) <= MaxBypass
         /\ c.proxy # <<>> /\ r # NoRequest /\ Asked(r, c)
<1>1. c = Parsed(r) /\ Usable(Parsed(r))
  BY SameWay
<1> QED
  BY <1>1, AskedConf, FirewallAssumption DEF Asked

\* The three calls keep the types: fp_firewall_enable.
LEMMA TypeStartEnable ==
  ASSUME TInv, NEW w \in Writer, NEW r \in Request, NEW way \in Way, NEW sigchld \in BOOLEAN,
         StartEnable(w, r, way, sigchld)
  PROVE  TInv'
<1>1. PICK c : c = Configured(r, way)
  OBVIOUS
<1>2. /\ UNCHANGED <<tableVars, faults, installed, result>> /\ next' = next
      /\ op' = [op EXCEPT ![w] = "enable"] /\ at' = [at EXCEPT ![w] = "exists"]
      /\ asked' = [asked EXCEPT ![w] = r] /\ cfg' = [cfg EXCEPT ![w] = c]
      /\ reaper' = [reaper EXCEPT ![w] = sigchld] /\ Usable(c)
  BY <1>1 DEF StartEnable
<1>3. c \in Conf /\ Len(c.bypass) <= MaxBypass /\ r # NoRequest /\ Asked(r, c)
  BY <1>1, <1>2, Given
<1>4. "exists" \in Steps /\ Place("enable", "exists") /\ Within("exists", next[w], c)
  BY Elsewhere DEF Steps, Place, EnableSteps, DisableSteps
<1>5. next[w] \in Nat \ {0} /\ next' = [next EXCEPT ![w] = next[w]]
  BY <1>2, Unmoved
<1> QED
  BY <1>2, <1>3, <1>4, <1>5, Starts

\* fp_firewall_is_enabled.
LEMMA TypeStartCheck ==
  ASSUME TInv, NEW w \in Writer, NEW r \in Request, NEW way \in Way, StartCheck(w, r, way)
  PROVE  TInv'
<1>1. PICK c : c = Configured(r, way)
  OBVIOUS
<1>2. /\ UNCHANGED <<tableVars, faults, installed, result>> /\ next' = [next EXCEPT ![w] = 1]
      /\ op' = [op EXCEPT ![w] = "check"] /\ at' = [at EXCEPT ![w] = "check"]
      /\ asked' = [asked EXCEPT ![w] = r] /\ cfg' = [cfg EXCEPT ![w] = c]
      /\ reaper' = [reaper EXCEPT ![w] = FALSE] /\ Usable(c)
  BY <1>1 DEF StartCheck
<1>3. /\ c \in Conf /\ Len(c.bypass) <= MaxBypass /\ r # NoRequest /\ Asked(r, c)
      /\ c.proxy # <<>>
  BY <1>1, <1>2, Given
<1>4. PICK n \in Nat : Len(Checks(c)) = n + 5
  BY <1>3, ChecksIs
<1>5. "check" \in Steps /\ Place("check", "check") /\ Within("check", 1, c)
  BY <1>4 DEF Steps, Place, Within, EnableSteps, DisableSteps
<1> QED
  BY <1>2, <1>3, <1>5, Starts, 1 \in Nat \ {0}, FALSE \in BOOLEAN

\* fp_firewall_disable.
LEMMA TypeStartDisable ==
  ASSUME TInv, NEW w \in Writer, StartDisable(w) PROVE TInv'
<1>1. /\ CallOK /\ Call(w) /\ UNCHANGED <<tableVars, faults, installed, result>>
      /\ op' = [op EXCEPT ![w] = "disable"] /\ at' = [at EXCEPT ![w] = "jump"]
      /\ reaper' = [reaper EXCEPT ![w] = FALSE]
      /\ asked' = asked /\ cfg' = cfg /\ next' = next
  BY TypeParts DEF StartDisable, TInv, Calls
<1>2. PICK r \in Request \cup {NoRequest} : r = asked[w]
  BY <1>1 DEF CallOK
<1>3. PICK c \in Conf : c = cfg[w] /\ Len(c.bypass) <= MaxBypass
  BY <1>1 DEF CallOK
<1>4. asked' = [asked EXCEPT ![w] = r] /\ cfg' = [cfg EXCEPT ![w] = c] /\ Asked(r, c)
  BY <1>1, <1>2, <1>3 DEF CallOK, Call
<1>5. "jump" \in Steps /\ Place("disable", "jump") /\ Within("jump", next[w], c)
  BY Elsewhere DEF Steps, Place, EnableSteps, DisableSteps
<1>6. next[w] \in Nat \ {0} /\ next' = [next EXCEPT ![w] = next[w]]
  BY <1>1, Unmoved
<1> QED
  BY <1>1, <1>3, <1>4, <1>5, <1>6, Starts, FALSE \in BOOLEAN

\* Every step keeps the types.
LEMMA TypeNext == TInv /\ [Next]_vars => TInv'
<1> SUFFICES ASSUME TInv, [Next]_vars PROVE TInv'
  OBVIOUS
<1>1. CASE UNCHANGED vars
  BY <1>1 DEF vars, TInv, TypeOK, Calls, Call
<1>2. CASE Next
  <2>1. PICK w \in Writer :
          \/ \E r \in Request, way \in Way :
               \/ StartCheck(w, r, way)
               \/ \E sigchld \in BOOLEAN : StartEnable(w, r, way, sigchld)
          \/ StartDisable(w)
          \/ Step(w)
          \/ Killed(w)
    BY <1>2 DEF Next
  <2>2. ASSUME NEW r \in Request, NEW way \in Way, StartCheck(w, r, way) PROVE TInv'
    BY <2>2, TypeStartCheck
  <2>3. ASSUME NEW r \in Request, NEW way \in Way, NEW sigchld \in BOOLEAN,
               StartEnable(w, r, way, sigchld)
        PROVE  TInv'
    BY <2>3, TypeStartEnable
  <2>4. CASE StartDisable(w)
    BY <2>4, TypeStartDisable
  <2>5. CASE Killed(w)
    BY <2>5, TypeKilled
  <2>6. CASE Step(w)
    BY <2>6, TypeExists, TypeCreate, TypeFlush, TypeAppend, TypeOutput, TypeAddJump, TypeJump,
       TypeRemove, TypeChain, TypeFlushLeft, TypeDelete, TypeCheck, Zenon DEF Step
  <2> QED
    BY <2>1, <2>2, <2>3, <2>4, <2>5, <2>6
<1> QED
  BY <1>1, <1>2

\* Whatever the writers do, and however many there are, every variable keeps its type:
\* a position never leaves its list, and a command is never built from a server that
\* was not parsed.
THEOREM Typed == Spec => []TypeOK
<1>1. TInv => TypeOK
  BY DEF TInv
<1> QED
  BY <1>1, TypeInit, TypeNext, PTL DEF Spec

-----------------------------------------------------------------------------
(* One writer at a time: what is in the table at every instant.              *)

\* The lock, and the forwarder that is waited for, keep all writers but one idle; only a
\* forwarder that systemd starts edits the table without the lock.
Serial == \A u, v \in Writer : at[u] # "idle" /\ at[v] # "idle" => u = v

\* Without the chain there are no rules and no jump; the rules are the first of those
\* of the request being installed; the writer that appends has appended all before its
\* position.
Chained == ~chain => rules = <<>> /\ jumps = 0
Begins(r) ==
  /\ Usable(Parsed(r)) /\ Len(rules) <= Len(Appends(Parsed(r)))
  /\ \A i \in 1 .. Len(rules) : rules[i] = Appends(Parsed(r))[i]
Prefixed == IF installed = NoRequest THEN rules = <<>> ELSE Begins(installed)
Appending(w) == at[w] = "append" => installed = asked[w] /\ Len(rules) = next[w] - 1
DInv == TInv /\ Chained /\ Prefixed /\ \A w \in Writer : Appending(w)

\* A connection is redirected when the last rule is there and no network before it
\* matches.
LEMMA RedirectedIs ==
  ASSUME NEW r \in Request, Begins(r), rules \in Seq(Rule), jumps \in Nat, NEW d \in Address
  PROVE  Redirected(d) <=> jumps > 0 /\ rules = Appends(Parsed(r)) /\ d \notin Direct(r)
<1>1. PICK c, a : c = Parsed(r) /\ a = Appends(c)
  OBVIOUS
<1>2. c \in Conf /\ c.proxy # <<>> /\ Usable(Parsed(r))
  BY <1>1, AskedConf DEF Begins
<1>3. PICK n \in Nat : /\ Len(a) = n + 3 /\ DOMAIN a = 1 .. n + 3 /\ a[n + 3] = Redirect
                       /\ a \in Seq(Rule) /\ \A j \in 1 .. n + 2 : a[j] \in Network
  BY <1>1, <1>2, AppendsIs
<1>4. d \in Direct(r) <=> \E j \in 1 .. n + 2 : Matches(d, a[j])
  <2>1. d \in Direct(r) <=> \E j \in 1 .. Len(a) - 1 : Matches(d, a[j])
    BY <1>1, <1>2, DirectIs
  <2>2. Len(a) - 1 = n + 2
    BY <1>3
  <2> QED
    BY <2>1, <2>2
<1>5. Len(rules) \in 0 .. n + 3 /\ DOMAIN rules = 1 .. Len(rules)
      /\ \A i \in 1 .. Len(rules) : rules[i] = a[i]
  BY <1>1, <1>3 DEF Begins
<1>6. \A j \in 1 .. n + 2 : a[j] # Redirect
  BY <1>3, FirewallAssumption
<1>7. ASSUME Redirected(d)
      PROVE  jumps > 0 /\ rules = Appends(Parsed(r)) /\ d \notin Direct(r)
  <2>1. PICK i \in DOMAIN rules :
          /\ rules[i] = Redirect
          /\ \A j \in 1 .. i - 1 : rules[j] # Redirect /\ ~Matches(d, rules[j])
    BY <1>7 DEF Redirected, Matches
  <2>2. i = n + 3 /\ Len(rules) = n + 3
    <3>1. i \in 1 .. Len(rules) /\ Len(rules) \in 0 .. n + 3 /\ a[i] = Redirect
      BY <1>5, <2>1
    <3>2. i \notin 1 .. n + 2
      BY <1>6, <3>1
    <3> QED
      BY <3>1, <3>2
  <2>3. rules = a
    BY <1>3, <1>5, <2>2, SameElements
  <2>4. \A j \in 1 .. n + 2 : ~Matches(d, a[j])
    <3>1. ASSUME NEW j \in 1 .. n + 2 PROVE ~Matches(d, a[j])
      <4>1. j \in 1 .. i - 1
        BY <2>2
      <4> QED
        BY <2>1, <2>3, <4>1
    <3> QED
      BY <3>1
  <2>5. jumps > 0
    BY <1>7 DEF Redirected
  <2> QED
    BY <1>1, <1>4, <2>3, <2>4, <2>5
<1>8. ASSUME jumps > 0, rules = Appends(Parsed(r)), d \notin Direct(r)
      PROVE  Redirected(d)
  <2>1. rules = a /\ n + 3 \in DOMAIN rules /\ rules[n + 3] = Redirect
    BY <1>1, <1>3, <1>8
  <2>2. ASSUME NEW j \in 1 .. n + 3 - 1
        PROVE  rules[j] # Redirect /\ ~SameNetwork(d, rules[j].net, rules[j].prefix)
    <3>1. j \in 1 .. n + 2
      OBVIOUS
    <3>2. ~Matches(d, a[j])
      BY <1>4, <1>8, <3>1
    <3> QED
      BY <1>6, <2>1, <3>1, <3>2 DEF Matches
  <2> QED
    BY <1>8, <2>1, <2>2 DEF Redirected
<1> QED
  BY <1>7, <1>8

\* Under the invariant direct destinations are direct.
LEMMA DirectFollows == DInv => DirectStaysDirect
<1> SUFFICES ASSUME DInv, installed # NoRequest
             PROVE  /\ \A i \in DOMAIN installed.list : Valid(installed.list[i])
                    /\ \A d \in Direct(installed) : ~Redirected(d)
  BY DEF DirectStaysDirect
<1>1. TableOK /\ Begins(installed) /\ installed \in Request
  BY TypeParts DEF DInv, TInv, TableOK, Prefixed
<1>2. PICK r \in Request : r = installed
  BY <1>1
<1>3. Usable(Parsed(r)) /\ r.list \in Seq(Entry) /\ DOMAIN r.list = 1 .. Len(r.list)
  BY <1>1, <1>2, FirewallAssumption DEF Begins
<1>4. \A i \in 1 .. Len(r.list) : Valid(r.list[i])
  BY <1>3, ParsedIs
<1>5. ASSUME NEW d \in Direct(r) PROVE ~Redirected(d)
  <2>1. d \in Address
    BY DEF Direct
  <2> QED
    BY <1>1, <1>2, <2>1, RedirectedIs DEF TableOK
<1> QED
  BY <1>2, <1>3, <1>4, <1>5

\* Initially there is nothing in the table.
LEMMA DirectInit == Init => DInv
<1> SUFFICES ASSUME Init PROVE DInv
  OBVIOUS
<1>1. TInv
  BY TypeInit
<1>2. Chained /\ Prefixed
  BY DEF Init, Chained, Prefixed
<1>3. \A w \in Writer : Appending(w)
  BY DEF Init, Appending
<1> QED
  BY <1>1, <1>2, <1>3 DEF DInv

\* What a step of w leaves of the others: under the lock they are idle.
LEMMA OthersIdle ==
  ASSUME Serial, NEW w \in Writer, at[w] # "idle", NEW u \in Writer, u # w
  PROVE  at[u] = "idle"
BY DEF Serial

\* A step that touches neither the rules nor what is installed, and after which w is
\* not appending.
LEMMA RulesStay ==
  ASSUME DInv, TInv', Serial, NEW w \in Writer, at[w] # "idle",
         rules' = rules, installed' = installed, Chained',
         \A u \in Writer : u # w => at'[u] = at[u], at'[w] # "append"
  PROVE  DInv'
<1>1. Prefixed'
  BY DEF DInv, Prefixed, Begins
<1>2. ASSUME NEW u \in Writer PROVE Appending(u)'
  <2>1. CASE u = w
    BY <2>1 DEF Appending
  <2>2. CASE u # w
    BY <2>2, OthersIdle DEF Appending
  <2> QED
    BY <2>1, <2>2
<1> QED
  BY <1>1, <1>2 DEF DInv

\* Where the writers are after one of them has moved.
LEMMA Moved ==
  ASSUME TInv, NEW w \in Writer, NEW s, at' = [at EXCEPT ![w] = s]
  PROVE  at'[w] = s /\ \A u \in Writer : u # w => at'[u] = at[u]
BY TypeParts DEF TInv, ProgressOK

\* The commands after which nothing is appended and no rule has changed.
Quiet(w) ==
  \/ ChainExists(w) \/ Create(w) \/ CheckOutput(w) \/ AddJump(w) \/ JumpExists(w)
  \/ RemoveJump(w) \/ ChainLeft(w) \/ Delete(w) \/ CheckNext(w) \/ Killed(w)

\* They leave the rules and what is installed alone.
LEMMA QuietStep ==
  ASSUME TInv, Chained, NEW w \in Writer, Quiet(w)
  PROVE  /\ at[w] # "idle" /\ rules' = rules /\ installed' = installed /\ Chained'
         /\ at'[w] # "append" /\ \A u \in Writer : u # w => at'[u] = at[u]
<1>1. TableOK
  BY TypeParts DEF TInv
<1>2. ASSUME NEW s, at' = [at EXCEPT ![w] = s], s # "append"
      PROVE  at'[w] # "append" /\ \A u \in Writer : u # w => at'[u] = at[u]
  BY <1>2, Moved
<1>3. ASSUME NEW s, Goto(w, s) \/ \E v : Return(w, v), s # "append"
      PROVE  at'[w] # "append" /\ \A u \in Writer : u # w => at'[u] = at[u]
  <2>1. at' = [at EXCEPT ![w] = s] \/ at' = [at EXCEPT ![w] = "idle"]
    BY <1>3 DEF Goto, Return
  <2> QED
    BY <1>2, <1>3, <2>1
<1>4. CASE ChainExists(w)
  <2>1. PICK ok \in BOOLEAN : /\ run_iptables(w, ListChain, ok)
                              /\ Goto(w, IF ok THEN "flush" ELSE "create")
    BY <1>4 DEF ChainExists
  <2>2. chain' = chain /\ rules' = rules /\ jumps' = jumps
    BY <1>1, <2>1, Looked, LooksFor DEF TableOK
  <2>3. PICK s : Goto(w, s) /\ s # "append"
    BY <2>1
  <2> QED
    BY <1>3, <1>4, <2>2, <2>3 DEF ChainExists, Chained
<1>5. CASE Create(w)
  <2>1. PICK ok \in BOOLEAN : /\ run_iptables(w, NewChain, ok)
                              /\ IF ok THEN Goto(w, "flush") ELSE Return(w, "fail")
    BY <1>5 DEF Create
  <2>2. (chain => chain') /\ rules' = rules /\ jumps' = jumps
    BY <1>1, <2>1, ChainMade DEF TableOK
  <2> QED
    BY <1>3, <1>5, <2>1, <2>2 DEF Create, Chained
<1>6. CASE CheckOutput(w) \/ JumpExists(w)
  <2>1. PICK ok \in BOOLEAN : run_iptables(w, CheckJump, ok)
    BY <1>6 DEF CheckOutput, JumpExists
  <2>2. chain' = chain /\ rules' = rules /\ jumps' = jumps
    BY <1>1, <2>1, Looked, LooksFor DEF TableOK
  <2>3. PICK s : (Goto(w, s) \/ Return(w, "ok")) /\ s # "append"
    BY <1>6 DEF CheckOutput, JumpExists
  <2> QED
    BY <1>3, <1>6, <2>2, <2>3 DEF CheckOutput, JumpExists, Chained
<1>7. CASE AddJump(w)
  <2>1. PICK ok \in BOOLEAN : /\ run_iptables(w, InsertJump, ok)
                              /\ IF ok THEN Return(w, "ok") ELSE Goto(w, "jump")
    BY <1>7 DEF AddJump
  <2>2. chain' = chain /\ rules' = rules /\ (jumps' # jumps => chain)
    BY <1>1, <2>1, JumpAdded DEF TableOK
  <2> QED
    BY <1>3, <1>7, <2>1, <2>2 DEF AddJump, Chained
<1>8. CASE RemoveJump(w)
  <2>1. PICK ok \in BOOLEAN : /\ run_iptables(w, DeleteJump, ok)
                              /\ IF ok THEN Goto(w, "jump") ELSE Return(w, "fail")
    BY <1>8 DEF RemoveJump
  <2>2. chain' = chain /\ rules' = rules /\ jumps' \in 0 .. jumps
    BY <1>1, <2>1, JumpRemoved DEF TableOK
  <2>3. Chained'
    BY <2>2 DEF Chained
  <2>4. Goto(w, "jump") \/ Return(w, "fail")
    BY <2>1
  <2> QED
    BY <1>3, <1>8, <2>2, <2>3, <2>4 DEF RemoveJump
<1>9. CASE ChainLeft(w)
  <2>1. PICK ok \in BOOLEAN :
          /\ run_iptables(w, ListChain, ok)
          /\ IF ok THEN Goto(w, "dflush") ELSE Return(w, DisableResult(w, TRUE))
    BY <1>9 DEF ChainLeft
  <2>2. chain' = chain /\ rules' = rules /\ jumps' = jumps
    BY <1>1, <2>1, Looked, LooksFor DEF TableOK
  <2>3. Goto(w, "dflush") \/ \E v : Return(w, v)
    BY <2>1
  <2> QED
    BY <1>3, <1>9, <2>2, <2>3 DEF ChainLeft, Chained
<1>10. CASE Delete(w)
  <2>1. PICK ok \in BOOLEAN : run_iptables(w, DeleteChain, ok)
                              /\ Return(w, DisableResult(w, ok))
    BY <1>10 DEF Delete
  <2>2. /\ rules' = rules /\ jumps' = jumps /\ chain' \in BOOLEAN
        /\ ~chain' /\ chain => rules = <<>> /\ jumps = 0
    BY <1>1, <2>1, ChainDeleted DEF TableOK
  <2>3. Chained'
    BY <1>1, <2>2 DEF Chained, TableOK
  <2>4. Goto(w, "idle") \/ \E v : Return(w, v)
    BY <2>1
  <2> QED
    BY <1>3, <1>10, <2>2, <2>3, <2>4 DEF Delete
<1>11. CASE CheckNext(w)
  <2>1. PICK ok \in BOOLEAN :
          /\ run_iptables(w, Checks(cfg[w])[next[w]], ok)
          /\ IF ~ok THEN Return(w, "fail")
             ELSE IF next[w] = Len(Checks(cfg[w])) THEN Return(w, "ok") ELSE Goto(w, "check")
    BY <1>11 DEF CheckNext
  <2>2. Looks(Checks(cfg[w])[next[w]])
    BY <1>11, NextCheck DEF CheckNext
  <2>3. chain' = chain /\ rules' = rules /\ jumps' = jumps
    BY <1>1, <2>1, <2>2, Looked DEF TableOK
  <2>4. Goto(w, "check") \/ \E v : Return(w, v)
    BY <2>1
  <2> QED
    BY <1>3, <1>11, <2>3, <2>4 DEF CheckNext, Chained
<1>12. CASE Killed(w)
  <2>1. /\ chain' = chain /\ rules' = rules /\ jumps' = jumps /\ installed' = installed
        /\ Return(w, "killed") /\ at[w] # "idle"
    BY <1>12 DEF Killed, tableVars
  <2> QED
    BY <1>3, <2>1 DEF Chained
<1> QED
  BY <1>4, <1>5, <1>6, <1>7, <1>8, <1>9, <1>10, <1>11, <1>12 DEF Quiet

\* An empty chain begins every list.
LEMMA EmptyBegins ==
  ASSUME NEW r \in Request, Usable(Parsed(r)), rules' = <<>>
  PROVE  Begins(r)'
<1>1. PICK c, a, n : c = Parsed(r) /\ a = Appends(c) /\ n = Len(c.bypass)
  OBVIOUS
<1>2. c \in Conf /\ c.proxy # <<>>
  BY <1>1, AskedConf
<1>3. n \in Nat /\ Len(a) = n + 3
  BY <1>1, <1>2, AppendsIs
<1> QED
  BY <1>1, <1>3 DEF Begins

\* The parts of DInv' once the writers other than w are known to be idle.
LEMMA OneMoved ==
  ASSUME TInv', Serial, NEW w \in Writer, at[w] # "idle", Chained', Prefixed', Appending(w)',
         \A u \in Writer : u # w => at'[u] = at[u]
  PROVE  DInv'
<1>1. ASSUME NEW u \in Writer PROVE Appending(u)'
  <2>1. CASE u # w
    <3>1. at'[u] = "idle"
      BY <2>1, OthersIdle
    <3> QED
      BY <3>1 DEF Appending
  <2> QED
    BY <2>1
<1> QED
  BY <1>1 DEF DInv

\* The chain is emptied for a new list, or stays as it was.
LEMMA DirectFlush ==
  ASSUME DInv, TInv', Serial, NEW w \in Writer, Flush(w) PROVE DInv'
<1>1. PICK ok \in BOOLEAN : /\ run_iptables(w, FlushChain, ok)
                            /\ Goto(w, IF ok THEN "append" ELSE "jump")
  BY DEF Flush
<1>2. /\ TableOK /\ asked' = asked /\ at[w] = "flush" /\ next' = [next EXCEPT ![w] = 1]
      /\ next \in [Writer -> Nat \ {0}]
      /\ installed' = (IF rules' = <<>> THEN asked[w] ELSE installed)
      /\ Chained /\ Prefixed
  BY TypeParts DEF Flush, DInv, TInv, ProgressOK, callVars
<1>3. asked[w] \in Request /\ Usable(Parsed(asked[w])) /\ asked[w] # NoRequest
  BY <1>2, InCall, FirewallAssumption DEF DInv, EnableSteps
<1>4. chain' = chain /\ rules' \in {<<>>, rules} /\ jumps' = jumps /\ (ok => rules' = <<>>)
  BY <1>1, <1>2, Flushed DEF TableOK
<1>5. PICK s \in {"append", "jump"} : Goto(w, s) /\ (s = "append" => ok)
  BY <1>1
<1>6. at'[w] = s /\ \A u \in Writer : u # w => at'[u] = at[u]
  BY <1>5, Moved DEF DInv, Goto
<1>7. Chained'
  BY <1>2, <1>4 DEF Chained
<1>8. Prefixed'
  <2>1. CASE rules' = <<>>
    <3>1. PICK r \in Request : r = asked[w]
      BY <1>3
    <3>2. Begins(r)' /\ installed' = r /\ r # NoRequest
      BY <1>2, <1>3, <2>1, <3>1, EmptyBegins
    <3> QED
      BY <3>2 DEF Prefixed, Begins
  <2>2. CASE rules' # <<>>
    <3>1. rules' = rules /\ installed' = installed
      BY <1>2, <1>4, <2>2
    <3> QED
      BY <1>2, <3>1 DEF Prefixed, Begins
  <2> QED
    BY <2>1, <2>2
<1>9. Appending(w)'
  <2>1. next'[w] = 1
    BY <1>2
  <2>2. at'[w] = "append" => rules' = <<>> /\ installed' = asked[w]
    BY <1>2, <1>4, <1>5, <1>6
  <2> QED
    BY <1>2, <2>1, <2>2 DEF Appending
<1> QED
  BY <1>2, <1>6, <1>7, <1>8, <1>9, OneMoved

\* The rule that is appended is the next one.
LEMMA DirectAppend ==
  ASSUME DInv, TInv', Serial, NEW w \in Writer, AppendNext(w) PROVE DInv'
<1>1. /\ TInv /\ TableOK /\ asked' = asked /\ at[w] = "append" /\ installed' = installed
      /\ next' = [next EXCEPT ![w] = IF at'[w] = "append" THEN @ + 1 ELSE 1]
      /\ next \in [Writer -> Nat \ {0}] /\ Chained /\ Prefixed /\ Appending(w)
  BY TypeParts DEF AppendNext, DInv, TInv, ProgressOK, callVars
<1>2. /\ asked[w] \in Request /\ Usable(Parsed(asked[w])) /\ asked[w] # NoRequest
      /\ cfg[w] = Parsed(asked[w])
  BY <1>1, InCall, FirewallAssumption DEF EnableSteps
<1>3. PICK a, n, r : a = Appends(cfg[w]) /\ n = next[w] /\ r = a[n]
  OBVIOUS
<1>4. a \in Seq(Rule) /\ n \in 1 .. Len(a) /\ r \in Rule /\ Len(a) \in Nat
  BY <1>1, <1>3, NextRule
<1>5. installed = asked[w] /\ Len(rules) = n - 1 /\ rules \in Seq(Rule)
      /\ \A i \in 1 .. Len(rules) : rules[i] = a[i]
  BY <1>1, <1>2, <1>3 DEF Appending, Prefixed, Begins, TableOK
<1>6. PICK ok \in BOOLEAN : /\ run_iptables(w, AppendRule(r), ok)
                            /\ Goto(w, IF ~ok THEN "jump"
                                       ELSE IF n = Len(a) THEN "checkjump" ELSE "append")
  BY <1>3 DEF AppendNext
<1>7. /\ chain' = chain /\ jumps' = jumps
      /\ (chain /\ rules' = Append(rules, r)) \/ (~ok /\ rules' = rules)
  BY <1>1, <1>6, RuleAdded DEF TableOK
<1>8. PICK s \in {"jump", "checkjump", "append"} : Goto(w, s) /\ (s = "append" => ok)
  BY <1>6
<1>9. at'[w] = s /\ \A u \in Writer : u # w => at'[u] = at[u]
  BY <1>1, <1>8, Moved DEF Goto
<1>10. Chained'
  BY <1>1, <1>7 DEF Chained
<1>11. CASE rules' = rules
  <2>1. Prefixed'
    BY <1>1, <1>11 DEF Prefixed, Begins
  <2>2. Len(rules) # Len(Append(rules, r))
    BY <1>4, <1>5
  <2>3. ~ok
    BY <1>7, <1>11, <2>2
  <2>4. Appending(w)'
    BY <1>8, <1>9, <2>3 DEF Appending
  <2> QED
    BY <1>1, <1>9, <1>10, <2>1, <2>4, OneMoved
<1>12. CASE rules' = Append(rules, r)
  <2>1. /\ Len(rules') = n /\ \A i \in 1 .. n : rules'[i] = a[i]
    <3>1. /\ Len(Append(rules, r)) = n /\ Append(rules, r)[n] = r
          /\ \A i \in 1 .. n - 1 : Append(rules, r)[i] = rules[i]
      BY <1>4, <1>5
    <3>2. \A i \in 1 .. n : i = n \/ i \in 1 .. n - 1
      BY <1>4
    <3> QED
      BY <1>3, <1>5, <1>12, <3>1, <3>2
  <2>2. n <= Len(a)
    BY <1>4
  <2>3. Begins(asked[w])'
    BY <1>1, <1>2, <1>3, <2>1, <2>2 DEF Begins
  <2>4. Prefixed'
    BY <1>1, <1>2, <1>5, <2>3 DEF Prefixed, Begins
  <2>5. Appending(w)'
    <3>1. at'[w] = "append" => next'[w] = n + 1
      BY <1>1, <1>3
    <3>2. n + 1 - 1 = n
      BY <1>4
    <3> QED
      BY <1>1, <1>5, <2>1, <3>1, <3>2 DEF Appending
  <2> QED
    BY <1>1, <1>9, <1>10, <2>4, <2>5, OneMoved
<1> QED
  BY <1>7, <1>11, <1>12

\* The chain is emptied before it is deleted.
LEMMA DirectFlushLeft ==
  ASSUME DInv, TInv', Serial, NEW w \in Writer, FlushLeft(w) PROVE DInv'
<1>1. PICK ok \in BOOLEAN : /\ run_iptables(w, FlushChain, ok)
                            /\ IF ok THEN Goto(w, "delete") ELSE Return(w, "fail")
  BY DEF FlushLeft
<1>2. TableOK /\ at[w] = "dflush" /\ installed' = installed /\ Chained /\ Prefixed /\ TInv
  BY TypeParts DEF FlushLeft, DInv, TInv
<1>3. chain' = chain /\ rules' \in {<<>>, rules} /\ jumps' = jumps
  BY <1>1, <1>2, Flushed DEF TableOK
<1>4. at' = [at EXCEPT ![w] = "delete"] \/ at' = [at EXCEPT ![w] = "idle"]
  BY <1>1 DEF Goto, Return
<1>5. at'[w] # "append" /\ \A u \in Writer : u # w => at'[u] = at[u]
  BY <1>2, <1>4, Moved
<1>6. Chained'
  BY <1>2, <1>3 DEF Chained
<1>7. Prefixed'
  <2>1. CASE rules' = rules
    BY <1>2, <2>1 DEF Prefixed, Begins
  <2>2. CASE rules' = <<>> /\ installed = NoRequest
    BY <1>2, <2>2 DEF Prefixed
  <2>3. CASE rules' = <<>> /\ installed # NoRequest
    <3>1. PICK r \in Request : r = installed
      BY <1>2, <2>3 DEF TableOK
    <3>2. Usable(Parsed(r))
      BY <1>2, <2>3, <3>1 DEF Prefixed, Begins
    <3>3. Begins(r)'
      BY <2>3, <3>2, EmptyBegins
    <3> QED
      BY <1>2, <2>3, <3>1, <3>3 DEF Prefixed, Begins
  <2> QED
    BY <1>3, <2>1, <2>2, <2>3
<1>8. Appending(w)'
  BY <1>5 DEF Appending
<1> QED
  BY <1>2, <1>5, <1>6, <1>7, <1>8, OneMoved

\* A call that starts touches nothing.
LEMMA DirectStart ==
  ASSUME DInv, TInv', NEW w \in Writer,
         chain' = chain, rules' = rules, jumps' = jumps, installed' = installed,
         at'[w] # "append",
         \A u \in Writer : u # w => at'[u] = at[u] /\ asked'[u] = asked[u] /\ next'[u] = next[u]
  PROVE  DInv'
<1>1. Chained'
  BY DEF DInv, Chained
<1>2. Prefixed'
  BY DEF DInv, Prefixed, Begins
<1>3. ASSUME NEW u \in Writer PROVE Appending(u)'
  <2>1. CASE u = w
    BY <2>1 DEF Appending
  <2>2. CASE u # w
    BY <2>2 DEF DInv, Appending
  <2> QED
    BY <2>1, <2>2
<1> QED
  BY <1>1, <1>2, <1>3 DEF DInv

\* The calls that can start.
LEMMA StartIs ==
  ASSUME TInv, NEW w \in Writer,
         \/ \E r \in Request, way \in Way :
              \/ StartCheck(w, r, way)
              \/ \E sigchld \in BOOLEAN : StartEnable(w, r, way, sigchld)
         \/ StartDisable(w)
  PROVE  /\ chain' = chain /\ rules' = rules /\ jumps' = jumps /\ installed' = installed
         /\ faults' = faults /\ at[w] = "idle"
         /\ at'[w] \in {"exists", "check", "jump"}
         /\ at'[w] = "exists" => op'[w] = "enable"
         /\ at'[w] = "check" => op'[w] = "check" /\ next'[w] = 1
         /\ at'[w] = "jump" => op'[w] = "disable"
         /\ \A u \in Writer : u # w =>
              at'[u] = at[u] /\ asked'[u] = asked[u] /\ next'[u] = next[u]
<1>1. CallOK /\ ProgressOK
  BY TypeParts DEF TInv
<1>2. ASSUME NEW r \in Request, NEW way \in Way, NEW sigchld \in BOOLEAN,
             StartEnable(w, r, way, sigchld)
      PROVE  /\ UNCHANGED <<tableVars, installed, faults>> /\ at[w] = "idle"
             /\ at'[w] = "exists" /\ op'[w] = "enable"
             /\ \A u \in Writer : u # w =>
                  at'[u] = at[u] /\ asked'[u] = asked[u] /\ next'[u] = next[u]
  BY <1>1, <1>2 DEF StartEnable, CallOK, ProgressOK
<1>3. ASSUME NEW r \in Request, NEW way \in Way, StartCheck(w, r, way)
      PROVE  /\ UNCHANGED <<tableVars, installed, faults>> /\ at[w] = "idle"
             /\ at'[w] = "check" /\ op'[w] = "check" /\ next'[w] = 1
             /\ \A u \in Writer : u # w =>
                  at'[u] = at[u] /\ asked'[u] = asked[u] /\ next'[u] = next[u]
  BY <1>1, <1>3 DEF StartCheck, CallOK, ProgressOK
<1>4. ASSUME StartDisable(w)
      PROVE  /\ UNCHANGED <<tableVars, installed, faults>> /\ at[w] = "idle"
             /\ at'[w] = "jump" /\ op'[w] = "disable"
             /\ \A u \in Writer : u # w =>
                  at'[u] = at[u] /\ asked'[u] = asked[u] /\ next'[u] = next[u]
  BY <1>1, <1>4 DEF StartDisable, CallOK, ProgressOK
<1>5. CASE \E r \in Request, way \in Way, sigchld \in BOOLEAN : StartEnable(w, r, way, sigchld)
  BY <1>2, <1>5 DEF tableVars
<1>6. CASE \E r \in Request, way \in Way : StartCheck(w, r, way)
  BY <1>3, <1>6 DEF tableVars
<1>7. CASE StartDisable(w)
  BY <1>4, <1>7 DEF tableVars
<1> QED
  BY <1>5, <1>6, <1>7

\* Every step of a locked writer keeps the invariant.
LEMMA DirectNext == DInv /\ Serial /\ [Next]_vars => DInv'
<1> SUFFICES ASSUME DInv, Serial, [Next]_vars PROVE DInv'
  OBVIOUS
<1>1. TInv /\ TInv'
  BY TypeNext DEF DInv
<1>2. CASE UNCHANGED vars
  <2>1. /\ chain' = chain /\ rules' = rules /\ jumps' = jumps /\ installed' = installed
        /\ at' = at /\ asked' = asked /\ next' = next
    BY <1>2 DEF vars
  <2>2. Chained' /\ Prefixed'
    BY <2>1 DEF DInv, Chained, Prefixed, Begins
  <2>3. \A w \in Writer : Appending(w)'
    BY <2>1 DEF DInv, Appending
  <2> QED
    BY <1>1, <2>2, <2>3 DEF DInv
<1>3. CASE Next
  <2>1. PICK w \in Writer :
          \/ \/ \E r \in Request, way \in Way :
                  \/ StartCheck(w, r, way)
                  \/ \E sigchld \in BOOLEAN : StartEnable(w, r, way, sigchld)
             \/ StartDisable(w)
          \/ Step(w)
          \/ Killed(w)
    BY <1>3 DEF Next
  <2>2. CASE \/ \E r \in Request, way \in Way :
                  \/ StartCheck(w, r, way)
                  \/ \E sigchld \in BOOLEAN : StartEnable(w, r, way, sigchld)
             \/ StartDisable(w)
    <3>1. /\ chain' = chain /\ rules' = rules /\ jumps' = jumps /\ installed' = installed
          /\ at'[w] # "append"
          /\ \A u \in Writer : u # w =>
               at'[u] = at[u] /\ asked'[u] = asked[u] /\ next'[u] = next[u]
      BY <1>1, <2>2, StartIs
    <3> QED
      BY <1>1, <3>1, DirectStart
  <2>3. CASE Step(w) \/ Killed(w)
    <3>1. Quiet(w) \/ Flush(w) \/ AppendNext(w) \/ FlushLeft(w)
      BY <2>3 DEF Step, Quiet
    <3>2. CASE Quiet(w)
      BY <1>1, <3>2, QuietStep, RulesStay DEF DInv
    <3> QED
      BY <1>1, <3>1, <3>2, DirectFlush, DirectAppend, DirectFlushLeft
  <2> QED
    BY <2>1, <2>2, <2>3
<1> QED
  BY <1>2, <1>3

\* README: direct destinations do not use SOCKS5.  For any list, table and sequence of
\* calls, and at every instant, also between the commands of a call that fails or is
\* killed: as long as no two writers are inside a call together, no connection to a
\* destination that the installed request wants direct is sent into the forwarder.
THEOREM DirectAlways == Spec /\ []Serial => []DirectStaysDirect
BY DirectInit, DirectNext, DirectFollows, PTL DEF Spec

-----------------------------------------------------------------------------
(* What a call returns is true when it returns, if writers take turns, and   *)
(* as long as nobody else edits the table.                                   *)

\* Nobody edits the table between two calls.
Alone == \A u, v \in Writer : u = v

\* What a call has established so far: the rules are those of its configuration, the
\* tests before its position hold, there is no jump unless a test failed.  And what it
\* has established when it returns.
Completed(w) == at[w] \in {"checkjump", "addjump"} => rules = Appends(cfg[w])
Tested(w) == at[w] = "check" => \A k \in 1 .. next[w] - 1 : Accepts(Checks(cfg[w])[k])
Unhooking(w) == at[w] = "chain" /\ op[w] = "disable" => jumps = 0 \/ faults >= 1
Enabled(w) == Returned(w, "enable", "ok") => rules = Appends(cfg[w]) /\ jumps > 0
Confirmed(w) ==
  Returned(w, "check", "ok") =>
    \A k \in 1 .. Len(Checks(cfg[w])) : Accepts(Checks(cfg[w])[k])
Refuted(w) ==
  Returned(w, "check", "fail") /\ faults = 0 => ~(jumps > 0 /\ rules = Appends(cfg[w]))
Unhooked(w) == Returned(w, "disable", "ok") => jumps = 0 \/ faults >= 2
Established(w) == Completed(w) /\ Tested(w) /\ Unhooking(w)
Outcome(w) ==
  /\ Established(w)
  /\ Enabled(w) /\ Confirmed(w) /\ Refuted(w) /\ Unhooked(w)
EInv == DInv /\ \A w \in Writer : Established(w)
OInv == DInv /\ \A w \in Writer : Outcome(w)

\* In the middle of a call there is nothing to say, except at a few commands.
LEMMA Midway ==
  ASSUME NEW w, at'[w] \notin {"idle", "checkjump", "addjump", "check", "chain"}
  PROVE  Outcome(w)'
BY DEF Outcome, Established, Completed, Enabled, Tested, Confirmed, Refuted, Unhooking,
   Unhooked, Returned

\* Nor of a call that was killed, or of an edit that failed.
LEMMA Failed ==
  ASSUME NEW w, at'[w] = "idle",
         result'[w] = "killed" \/ (result'[w] = "fail" /\ op'[w] # "check")
  PROVE  Outcome(w)'
BY DEF Outcome, Established, Completed, Enabled, Tested, Confirmed, Refuted, Unhooking,
   Unhooked, Returned

\* Where a step leaves its writer.
LEMMA At ==
  ASSUME TInv, NEW w \in Writer
  PROVE  /\ \A s : Goto(w, s) => at'[w] = s
         /\ \A v : Return(w, v) => at'[w] = "idle" /\ result'[w] = v
         /\ callVars' = callVars => op' = op /\ cfg' = cfg /\ asked' = asked
<1>1. at \in [Writer -> Steps] /\ result \in [Writer -> {"ok", "fail", "killed"}]
  BY TypeParts DEF TInv, ProgressOK
<1>2. ASSUME NEW s, Goto(w, s) PROVE at'[w] = s
  BY <1>1, <1>2 DEF Goto
<1>3. ASSUME NEW v, Return(w, v) PROVE at'[w] = "idle" /\ result'[w] = v
  BY <1>1, <1>3 DEF Return
<1> QED
  BY <1>2, <1>3 DEF callVars

\* The tests of an unchanged table.
LEMMA SameTests ==
  ASSUME chain' = chain, rules' = rules, jumps' = jumps, NEW c, Accepts(c)
  PROVE  Accepts(c)'
BY DEF Accepts

\* With all its rules and the jump in place, a configuration passes every test.
LEMMA AllPass ==
  ASSUME Chained, NEW c \in Conf, c.proxy # <<>>, rules = Appends(c), jumps > 0,
         NEW j \in 1 .. Len(Checks(c))
  PROVE  Accepts(Checks(c)[j])
<1>1. PICK a, h, n : a = Appends(c) /\ h = Checks(c) /\ n = Len(c.bypass)
  OBVIOUS
<1>2. /\ n \in Nat /\ a \in Seq(Rule) /\ Len(a) = n + 3 /\ DOMAIN a = 1 .. n + 3
      /\ a[1] = Host(c.proxy[1]) /\ a[2] = Loopback /\ a[n + 3] = Redirect
      /\ Follows(a, 2, c.bypass, n)
  BY <1>1, AppendsIs
<1>3. /\ Len(h) = n + 5
      /\ h[1] = ListChain /\ h[2] = CheckJump /\ h[3] = CheckRule(Host(c.proxy[1]))
      /\ h[4] = CheckRule(Loopback) /\ h[5] = CheckRule(Redirect)
      /\ \A k \in 1 .. n : h[k + 5] = CheckRule(c.bypass[k])
  BY <1>1, ChecksIs
<1>4. chain
  <2>1. rules # <<>>
    BY <1>1, <1>2
  <2> QED
    BY <2>1 DEF Chained
<1>5. \A k \in 1 .. n + 3 : Accepts(CheckRule(a[k]))
  <2>1. ASSUME NEW k \in 1 .. n + 3 PROVE Accepts(CheckRule(a[k]))
    <3>1. a[k] \in ToSet(rules) /\ a[k] \in Rule
      BY <1>1, <1>2 DEF ToSet
    <3> QED
      BY <1>4, <3>1, LooksFor, Zenon
  <2> QED
    BY <2>1
<1>6. Accepts(ListChain) /\ Accepts(CheckJump)
  BY <1>4, LooksFor, Zenon
<1>7. 1 \in 1 .. n + 3 /\ 2 \in 1 .. n + 3 /\ n + 3 \in 1 .. n + 3
      /\ \A k \in 1 .. n : k + 2 \in 1 .. n + 3
  BY <1>2
<1>8. /\ Accepts(CheckRule(Host(c.proxy[1]))) /\ Accepts(CheckRule(Loopback))
      /\ Accepts(CheckRule(Redirect)) /\ \A k \in 1 .. n : Accepts(CheckRule(c.bypass[k]))
  BY <1>2, <1>5, <1>7, Zenon DEF Follows
<1>9. j = 1 \/ j = 2 \/ j = 3 \/ j = 4 \/ j = 5 \/ (j - 5 \in 1 .. n /\ j - 5 + 5 = j)
  BY <1>1, <1>2, <1>3
<1>10. CASE j - 5 \in 1 .. n /\ j - 5 + 5 = j
  <2>1. h[j] = CheckRule(c.bypass[j - 5])
    BY <1>3, <1>10
  <2> QED
    BY <1>1, <1>8, <1>10, <2>1
<1> QED
  BY <1>1, <1>3, <1>6, <1>8, <1>9, <1>10

\* What passing every test means: the jump and every rule are there, in some order.
LEMMA PassedAll ==
  ASSUME NEW c \in Conf, c.proxy # <<>>,
         \A k \in 1 .. Len(Checks(c)) : Accepts(Checks(c)[k])
  PROVE  jumps > 0 /\ \A j \in 1 .. Len(Appends(c)) : Appends(c)[j] \in ToSet(rules)
<1>1. PICK a, h, n : a = Appends(c) /\ h = Checks(c) /\ n = Len(c.bypass)
  OBVIOUS
<1>2. /\ n \in Nat /\ a \in Seq(Rule) /\ Len(a) = n + 3 /\ DOMAIN a = 1 .. n + 3
      /\ a[1] = Host(c.proxy[1]) /\ a[2] = Loopback /\ a[n + 3] = Redirect
      /\ Follows(a, 2, c.bypass, n)
  BY <1>1, AppendsIs
<1>3. /\ Len(h) = n + 5
      /\ h[1] = ListChain /\ h[2] = CheckJump /\ h[3] = CheckRule(Host(c.proxy[1]))
      /\ h[4] = CheckRule(Loopback) /\ h[5] = CheckRule(Redirect)
      /\ \A k \in 1 .. n : h[k + 5] = CheckRule(c.bypass[k])
  BY <1>1, ChecksIs
<1>4. \A k \in 1 .. n + 5 : Accepts(h[k])
  BY <1>1, <1>3
<1>5. \A r : Accepts(CheckRule(r)) => r \in ToSet(rules)
  BY DEF Accepts, CheckRule
<1>6. jumps > 0
  <2>1. 2 \in 1 .. n + 5
    BY <1>2
  <2>2. Accepts(CheckJump)
    BY <1>3, <1>4, <2>1
  <2> QED
    BY <2>2, LooksFor, Zenon
<1>7. ASSUME NEW j \in 1 .. n + 3 PROVE a[j] \in ToSet(rules)
  <2>1. PICK k \in 1 .. n + 5 : h[k] = CheckRule(a[j])
    <3>1. j = 1 \/ j = 2 \/ j = n + 3 \/ (j - 2 \in 1 .. n /\ j - 2 + 2 = j)
      BY <1>2
    <3>2. 3 \in 1 .. n + 5 /\ 4 \in 1 .. n + 5 /\ 5 \in 1 .. n + 5
      BY <1>2
    <3>3. CASE j - 2 \in 1 .. n /\ j - 2 + 2 = j
      <4>1. j - 2 + 5 \in 1 .. n + 5
        BY <1>2, <3>3
      <4>2. h[j - 2 + 5] = CheckRule(c.bypass[j - 2]) /\ a[j] = c.bypass[j - 2]
        BY <1>2, <1>3, <3>3 DEF Follows
      <4> QED
        BY <4>1, <4>2, Zenon
    <3> QED
      BY <1>2, <1>3, <3>1, <3>2, <3>3, Zenon
  <2> QED
    BY <1>4, <1>5, <2>1, Zenon
<1> QED
  BY <1>1, <1>2, <1>6, <1>7

\* What each command leaves its writer with: -S before the chain is created.
LEMMA OutExists ==
  ASSUME EInv, NEW w \in Writer, ChainExists(w) PROVE Outcome(w)'
<1>1. PICK s \in {"flush", "create"} : Goto(w, s)
  BY DEF ChainExists
<1>2. at'[w] = s
  BY <1>1, At DEF EInv, DInv
<1> QED
  BY <1>2, Midway

\* -N, whose failure is returned at once.
LEMMA OutCreate ==
  ASSUME EInv, NEW w \in Writer, Create(w) PROVE Outcome(w)'
<1>1. Goto(w, "flush") \/ Return(w, "fail")
  BY DEF Create
<1>2. at[w] = "create" /\ callVars' = callVars /\ TInv
  BY DEF Create, EInv, DInv
<1>3. op'[w] = "enable"
  BY <1>2, At, InCall DEF EnableSteps
<1>4. at'[w] = "flush" \/ (at'[w] = "idle" /\ result'[w] = "fail")
  BY <1>1, <1>2, At
<1> QED
  BY <1>3, <1>4, Midway, Failed

\* -F, from where the rules are counted.
LEMMA OutFlush ==
  ASSUME EInv, NEW w \in Writer, Flush(w) PROVE Outcome(w)'
<1>1. PICK s \in {"append", "jump"} : Goto(w, s)
  BY DEF Flush
<1>2. at'[w] = s
  BY <1>1, At DEF EInv, DInv
<1> QED
  BY <1>2, Midway

\* -A: after the last one the rules are those of the configuration.
LEMMA OutAppend ==
  ASSUME EInv, DInv', NEW w \in Writer, AppendNext(w) PROVE Outcome(w)'
<1>1. /\ TInv /\ TableOK /\ at[w] = "append" /\ installed' = installed
      /\ op' = op /\ cfg' = cfg /\ asked' = asked /\ Appending(w) /\ Prefixed'
  BY TypeParts DEF AppendNext, EInv, DInv, TInv, callVars
<1>2. /\ asked[w] \in Request /\ asked[w] # NoRequest /\ cfg[w] = Parsed(asked[w])
      /\ op[w] = "enable"
  BY <1>1, InCall, FirewallAssumption DEF EnableSteps
<1>3. PICK a, n, r : a = Appends(cfg[w]) /\ n = next[w] /\ r = a[n]
  OBVIOUS
<1>4. a \in Seq(Rule) /\ n \in 1 .. Len(a) /\ r \in Rule /\ Len(a) \in Nat
  BY <1>1, <1>3, NextRule
<1>5. installed = asked[w] /\ Len(rules) = n - 1 /\ rules \in Seq(Rule)
  BY <1>1, <1>3 DEF Appending, TableOK
<1>6. PICK ok \in BOOLEAN : /\ run_iptables(w, AppendRule(r), ok)
                            /\ Goto(w, IF ~ok THEN "jump"
                                       ELSE IF n = Len(a) THEN "checkjump" ELSE "append")
  BY <1>3 DEF AppendNext
<1>7. (chain /\ rules' = Append(rules, r)) \/ (~ok /\ rules' = rules)
  BY <1>1, <1>6, RuleAdded DEF TableOK
<1>8. PICK s \in {"jump", "checkjump", "append"} :
        Goto(w, s) /\ (s = "checkjump" => ok /\ n = Len(a))
  BY <1>6
<1>9. at'[w] = s
  BY <1>1, <1>8, At
<1>10. CASE s = "checkjump"
  <2>1. rules' = Append(rules, r) /\ n = Len(a)
    BY <1>7, <1>8, <1>10
  <2>2. Len(rules') = Len(a) /\ rules' \in Seq(Rule)
    BY <1>4, <1>5, <2>1
  <2>3. \A i \in 1 .. Len(rules') : rules'[i] = a[i]
    BY <1>1, <1>2, <1>3, <1>5, <2>2 DEF Prefixed, Begins
  <2>4. rules' = a
    BY <1>4, <2>2, <2>3, SameElements
  <2>5. rules' = Appends(cfg'[w])
    BY <1>1, <1>3, <2>4
  <2> QED
    BY <1>9, <1>10, <2>5 DEF Outcome, Established, Completed, Enabled, Tested, Confirmed, Refuted,
       Unhooking, Unhooked, Returned
<1>11. CASE s # "checkjump"
  BY <1>9, <1>11, Midway
<1> QED
  BY <1>10, <1>11

\* -C OUTPUT after the rules: the jump is there, or it is added.
LEMMA OutOutput ==
  ASSUME EInv, NEW w \in Writer, CheckOutput(w) PROVE Outcome(w)'
<1>1. PICK ok \in BOOLEAN : /\ run_iptables(w, CheckJump, ok)
                            /\ IF ok THEN Return(w, "ok") ELSE Goto(w, "addjump")
  BY DEF CheckOutput
<1>2. /\ TInv /\ TableOK /\ at[w] = "checkjump" /\ op' = op /\ cfg' = cfg
      /\ rules = Appends(cfg[w])
  BY TypeParts DEF CheckOutput, EInv, DInv, TInv, callVars, Established, Completed
<1>3. op[w] = "enable"
  BY <1>2, InCall DEF EnableSteps
<1>4. rules' = rules /\ jumps' = jumps /\ (ok => Accepts(CheckJump))
  BY <1>1, <1>2, Looked, LooksFor DEF TableOK
<1>5. ok => jumps' > 0
  BY <1>4, LooksFor
<1>6. \/ at'[w] = "idle" /\ result'[w] = "ok" /\ jumps' > 0
      \/ at'[w] = "addjump"
  BY <1>1, <1>2, <1>5, At
<1>7. rules' = Appends(cfg'[w]) /\ op'[w] = "enable"
  BY <1>2, <1>3, <1>4
<1> QED
  BY <1>6, <1>7 DEF Outcome, Established, Completed, Enabled, Tested, Confirmed, Refuted, Unhooking,
     Unhooked, Returned

\* -I OUTPUT.
LEMMA OutAddJump ==
  ASSUME EInv, NEW w \in Writer, AddJump(w) PROVE Outcome(w)'
<1>1. PICK ok \in BOOLEAN : /\ run_iptables(w, InsertJump, ok)
                            /\ IF ok THEN Return(w, "ok") ELSE Goto(w, "jump")
  BY DEF AddJump
<1>2. /\ TInv /\ TableOK /\ at[w] = "addjump" /\ op' = op /\ cfg' = cfg
      /\ rules = Appends(cfg[w])
  BY TypeParts DEF AddJump, EInv, DInv, TInv, callVars, Established, Completed
<1>3. op[w] = "enable"
  BY <1>2, InCall DEF EnableSteps
<1>4. rules' = rules /\ (ok => jumps' > 0)
  BY <1>1, <1>2, JumpAdded DEF TableOK
<1>5. \/ at'[w] = "idle" /\ result'[w] = "ok" /\ jumps' > 0
      \/ at'[w] = "jump"
  BY <1>1, <1>2, <1>4, At
<1>6. rules' = Appends(cfg'[w]) /\ op'[w] = "enable"
  BY <1>2, <1>3, <1>4
<1> QED
  BY <1>5, <1>6 DEF Outcome, Established, Completed, Enabled, Tested, Confirmed, Refuted, Unhooking,
     Unhooked, Returned

\* -C OUTPUT of fp_firewall_disable: a failed test passes for an absent jump.
LEMMA OutJump ==
  ASSUME EInv, NEW w \in Writer, JumpExists(w) PROVE Outcome(w)'
<1>1. PICK ok \in BOOLEAN : /\ run_iptables(w, CheckJump, ok)
                            /\ Goto(w, IF ok THEN "remove" ELSE "chain")
  BY DEF JumpExists
<1>2. TInv /\ TableOK /\ op' = op
  BY TypeParts DEF JumpExists, EInv, DInv, TInv, callVars
<1>3. \/ at'[w] = "remove"
      \/ at'[w] = "chain" /\ ~ok
  BY <1>1, <1>2, At
<1>4. CASE at'[w] = "remove"
  BY <1>4, Midway
<1>5. CASE at'[w] = "chain" /\ ~ok
  <2>1. op[w] = "disable" => ~reaper[w]
    BY <1>2, InCall
  <2>2. /\ jumps' = jumps /\ ~ok /\ faults <= faults' /\ faults \in Nat /\ faults' \in Nat
        /\ ~reaper[w] => ~Accepts(CheckJump) \/ faults' = faults + 1
    BY <1>1, <1>2, <1>5, Looked, LooksFor DEF TableOK
  <2>3. ~Accepts(CheckJump) => jumps = 0
    BY <1>2, LooksFor DEF TableOK
  <2>4. op'[w] = "disable" => jumps' = 0 \/ faults' >= 1
    BY <1>2, <2>1, <2>2, <2>3
  <2> QED
    BY <1>5, <2>4 DEF Outcome, Established, Completed, Enabled, Tested, Confirmed, Refuted,
       Unhooking, Unhooked, Returned
<1> QED
  BY <1>3, <1>4, <1>5

\* -D OUTPUT.
LEMMA OutRemove ==
  ASSUME EInv, NEW w \in Writer, RemoveJump(w) PROVE Outcome(w)'
<1>1. Goto(w, "jump") \/ Return(w, "fail")
  BY DEF RemoveJump
<1>2. at[w] = "remove" /\ callVars' = callVars /\ TInv
  BY DEF RemoveJump, EInv, DInv
<1>3. op'[w] # "check"
  BY <1>2, At, InCall DEF DisableSteps
<1>4. at'[w] = "jump" \/ (at'[w] = "idle" /\ result'[w] = "fail")
  BY <1>1, <1>2, At
<1> QED
  BY <1>3, <1>4, Midway, Failed

\* -F of fp_firewall_disable.
LEMMA OutFlushLeft ==
  ASSUME EInv, NEW w \in Writer, FlushLeft(w) PROVE Outcome(w)'
<1>1. Goto(w, "delete") \/ Return(w, "fail")
  BY DEF FlushLeft
<1>2. at[w] = "dflush" /\ callVars' = callVars /\ TInv
  BY DEF FlushLeft, EInv, DInv
<1>3. op'[w] # "check"
  BY <1>2, At, InCall DEF DisableSteps
<1>4. at'[w] = "delete" \/ (at'[w] = "idle" /\ result'[w] = "fail")
  BY <1>1, <1>2, At
<1> QED
  BY <1>3, <1>4, Midway, Failed

\* fp_firewall_disable's successful return, in a state without a jump or after two
\* failed commands.
LEMMA DisableOk ==
  ASSUME NEW w, at'[w] = "idle", op'[w] = "disable", jumps' = 0 \/ faults' >= 2,
         result'[w] \in {"ok", "fail"}
  PROVE  Outcome(w)'
BY DEF Outcome, Established, Completed, Enabled, Tested, Confirmed, Refuted, Unhooking,
   Unhooked, Returned

\* -S of fp_firewall_disable: without a chain there is no jump.
LEMMA OutChain ==
  ASSUME EInv, NEW w \in Writer, ChainLeft(w) PROVE Outcome(w)'
<1>1. PICK ok \in BOOLEAN :
        /\ run_iptables(w, ListChain, ok)
        /\ IF ok THEN Goto(w, "dflush") ELSE Return(w, DisableResult(w, TRUE))
  BY DEF ChainLeft
<1>2. TInv /\ TableOK /\ op' = op /\ at[w] = "chain" /\ Unhooking(w) /\ Chained
  BY TypeParts DEF ChainLeft, EInv, DInv, TInv, callVars, Established
<1>3. op[w] \in {"enable", "disable"} /\ (op[w] = "disable" => ~reaper[w])
  BY <1>2, InCall DEF DisableSteps
<1>4. CASE ok
  BY <1>1, <1>2, <1>4, At, Midway
<1>5. CASE ~ok /\ op[w] = "enable"
  <2>1. Return(w, "fail")
    BY <1>1, <1>5 DEF DisableResult
  <2> QED
    BY <1>2, <1>5, <2>1, At, Failed
<1>6. CASE ~ok /\ op[w] = "disable"
  <2>1. Return(w, "ok")
    BY <1>1, <1>6 DEF DisableResult
  <2>2. /\ jumps' = jumps /\ faults \in Nat
        /\ ~Accepts(ListChain) \/ faults' = faults + 1
    BY <1>1, <1>2, <1>3, <1>6, Looked, LooksFor DEF TableOK
  <2>3. ~Accepts(ListChain) => jumps = 0
    BY <1>2, LooksFor DEF Chained
  <2>4. jumps = 0 \/ faults >= 1
    BY <1>2, <1>6 DEF Unhooking
  <2>5. jumps' = 0 \/ faults' >= 2
    BY <2>2, <2>3, <2>4
  <2> QED
    BY <1>2, <1>6, <2>1, <2>5, At, DisableOk
<1> QED
  BY <1>3, <1>4, <1>5, <1>6

\* -X, which is refused while the jump is there.
LEMMA OutDelete ==
  ASSUME EInv, NEW w \in Writer, Delete(w) PROVE Outcome(w)'
<1>1. PICK ok \in BOOLEAN : run_iptables(w, DeleteChain, ok) /\ Return(w, DisableResult(w, ok))
  BY DEF Delete
<1>2. TInv /\ TableOK /\ op' = op /\ at[w] = "delete"
  BY TypeParts DEF Delete, EInv, DInv, TInv, callVars
<1>3. op[w] \in {"enable", "disable"}
  BY <1>2, InCall DEF DisableSteps
<1>4. jumps' = jumps /\ (ok => jumps = 0)
  BY <1>1, <1>2, ChainDeleted DEF TableOK
<1>5. CASE ok /\ op[w] = "disable"
  <2>1. Return(w, "ok")
    BY <1>1, <1>5 DEF DisableResult
  <2> QED
    BY <1>2, <1>4, <1>5, <2>1, At, DisableOk
<1>6. CASE ~(ok /\ op[w] = "disable")
  <2>1. Return(w, "fail")
    BY <1>1, <1>6 DEF DisableResult
  <2> QED
    BY <1>2, <1>3, <2>1, At, Failed
<1> QED
  BY <1>5, <1>6

\* SIGKILL.
LEMMA OutKilled ==
  ASSUME EInv, NEW w \in Writer, Killed(w) PROVE Outcome(w)'
<1>1. at'[w] = "idle" /\ result'[w] = "killed"
  BY At DEF Killed, EInv, DInv
<1> QED
  BY <1>1, Failed

\* The tests of fp_firewall_is_enabled, up to the first that fails.
LEMMA OutCheck ==
  ASSUME EInv, NEW w \in Writer, CheckNext(w) PROVE Outcome(w)'
<1>1. PICK h, n : h = Checks(cfg[w]) /\ n = next[w]
  OBVIOUS
<1>2. PICK ok \in BOOLEAN :
        /\ run_iptables(w, h[n], ok)
        /\ IF ~ok THEN Return(w, "fail")
           ELSE IF n = Len(h) THEN Return(w, "ok") ELSE Goto(w, "check")
  BY <1>1 DEF CheckNext
<1>3. /\ TInv /\ TableOK /\ op' = op /\ cfg' = cfg /\ at[w] = "check" /\ Chained
      /\ next' = [next EXCEPT ![w] = IF at'[w] = "check" THEN @ + 1 ELSE 1]
      /\ next \in [Writer -> Nat \ {0}]
      /\ \A k \in 1 .. n - 1 : Accepts(h[k])
  BY <1>1, TypeParts DEF CheckNext, EInv, DInv, TInv, callVars, Established, Tested, ProgressOK
<1>4. /\ op[w] = "check" /\ ~reaper[w] /\ cfg[w] \in Conf /\ cfg[w].proxy # <<>>
  BY <1>3, InCall
<1>5. n \in 1 .. Len(h) /\ Looks(h[n]) /\ Len(h) \in Nat
  BY <1>1, <1>3, NextCheck
<1>6. /\ chain' = chain /\ rules' = rules /\ jumps' = jumps
      /\ faults <= faults' /\ faults \in Nat /\ faults' \in Nat
      /\ ok => Accepts(h[n])
      /\ ~ok => ~Accepts(h[n]) \/ faults' = faults + 1
  BY <1>2, <1>3, <1>4, <1>5, Looked DEF TableOK
<1>7. ok => \A k \in 1 .. n : Accepts(h[k])'
  <2>1. \A k \in 1 .. n : k = n \/ k \in 1 .. n - 1
    BY <1>5
  <2>2. ok => \A k \in 1 .. n : Accepts(h[k])
    BY <1>3, <1>6, <2>1
  <2>3. ASSUME NEW k, Accepts(h[k]) PROVE Accepts(h[k])'
    BY <1>6, <2>3, SameTests
  <2> QED
    BY <2>2, <2>3
<1>8. h = Checks(cfg'[w]) /\ op'[w] = "check"
  BY <1>1, <1>3, <1>4
<1>9. CASE ok /\ n = Len(h)
  <2>1. at'[w] = "idle" /\ result'[w] = "ok"
    BY <1>2, <1>3, <1>9, At
  <2>2. Confirmed(w)'
    BY <1>7, <1>8, <1>9 DEF Confirmed
  <2> QED
    BY <1>8, <2>1, <2>2 DEF Outcome, Established, Completed, Enabled, Tested, Refuted, Unhooking,
       Unhooked, Returned
<1>10. CASE ok /\ n # Len(h)
  <2>1. at'[w] = "check"
    BY <1>2, <1>3, <1>10, At
  <2>2. next'[w] - 1 = n
    BY <1>1, <1>3, <1>5, <2>1
  <2>3. Tested(w)'
    <3>1. \A k \in 1 .. next'[w] - 1 : Accepts(h[k])'
      BY <1>7, <1>10, <2>2
    <3> QED
      BY <1>8, <3>1 DEF Tested
  <2> QED
    BY <1>8, <2>1, <2>3 DEF Outcome, Established, Completed, Enabled, Confirmed, Refuted, Unhooking,
       Unhooked, Returned
<1>11. CASE ~ok
  <2>1. at'[w] = "idle" /\ result'[w] = "fail"
    BY <1>2, <1>3, <1>11, At
  <2>2. faults' = 0 => ~Accepts(h[n])
    BY <1>6, <1>11
  <2>3. jumps > 0 /\ rules = Appends(cfg[w]) => Accepts(h[n])
    BY <1>1, <1>3, <1>4, <1>5, AllPass
  <2>4. faults' = 0 => ~(jumps' > 0 /\ rules' = Appends(cfg'[w]))
    BY <1>3, <1>6, <2>2, <2>3
  <2>5. Refuted(w)'
    BY <2>4 DEF Refuted
  <2> QED
    BY <1>8, <2>1, <2>5 DEF Outcome, Established, Completed, Enabled, Tested, Confirmed, Unhooking,
       Unhooked, Returned
<1> QED
  BY <1>9, <1>10, <1>11

\* Initially nothing has been returned.
LEMMA OutInit == Init => OInv
<1> SUFFICES ASSUME Init PROVE OInv
  OBVIOUS
<1>1. ASSUME NEW w \in Writer PROVE Outcome(w)
  <2>1. op[w] = "none" /\ at[w] = "idle"
    BY DEF Init
  <2> QED
    BY <2>1 DEF Outcome, Established, Completed, Enabled, Tested, Confirmed, Refuted,
       Unhooking, Unhooked, Returned
<1> QED
  BY <1>1, DirectInit DEF OInv

\* A call that starts.
Starting(w) ==
  \/ \E r \in Request, way \in Way :
       \/ StartCheck(w, r, way)
       \/ \E sigchld \in BOOLEAN : StartEnable(w, r, way, sigchld)
  \/ StartDisable(w)

\* What every step leaves its writer with.
LEMMA OutStep ==
  ASSUME EInv, DInv', NEW w \in Writer, Starting(w) \/ Step(w) \/ Killed(w)
  PROVE  Outcome(w)'
<1>1. CASE Starting(w)
  <2>1. /\ at'[w] \in {"exists", "check", "jump"}
        /\ at'[w] = "check" => next'[w] = 1
    BY <1>1, StartIs DEF Starting, EInv, DInv
  <2>2. CASE at'[w] # "check"
    BY <2>1, <2>2, Midway
  <2>3. CASE at'[w] = "check"
    <3>1. 1 .. next'[w] - 1 = {}
      BY <2>1, <2>3
    <3> QED
      BY <2>3, <3>1 DEF Outcome, Established, Completed, Enabled, Tested, Confirmed, Refuted,
         Unhooking, Unhooked, Returned
  <2> QED
    BY <2>2, <2>3
<1>2. CASE Step(w)
  BY <1>2, OutExists, OutCreate, OutFlush, OutAppend, OutOutput, OutAddJump, OutJump,
     OutRemove, OutChain, OutFlushLeft, OutDelete, OutCheck, Zenon DEF Step
<1>3. CASE Killed(w)
  BY <1>3, OutKilled
<1> QED
  BY <1>1, <1>2, <1>3

\* A step that changes nothing.
LEMMA OutStays ==
  ASSUME UNCHANGED vars, NEW w \in Writer
  PROVE  (Established(w) => Established(w)') /\ (Outcome(w) => Outcome(w)')
<1>1. /\ at' = at /\ op' = op /\ cfg' = cfg /\ next' = next /\ result' = result
      /\ rules' = rules /\ jumps' = jumps /\ faults' = faults /\ chain' = chain
  BY DEF vars
<1>2. \A o, s : Returned(w, o, s)' <=> Returned(w, o, s)
  BY <1>1 DEF Returned
<1>3. \A c : Accepts(c)' <=> Accepts(c)
  BY <1>1 DEF Accepts
<1>4. ASSUME Established(w) PROVE Established(w)'
  <2>1. Completed(w)' /\ Unhooking(w)'
    BY <1>1, <1>4 DEF Established, Completed, Unhooking
  <2>2. Tested(w)'
    BY <1>1, <1>3, <1>4 DEF Established, Tested
  <2> QED
    BY <2>1, <2>2 DEF Established
<1>5. ASSUME Outcome(w) PROVE Outcome(w)'
  <2>1. Enabled(w)' /\ Unhooked(w)'
    BY <1>1, <1>2, <1>5 DEF Outcome, Enabled, Unhooked
  <2>2. Confirmed(w)' /\ Refuted(w)'
    BY <1>1, <1>2, <1>3, <1>5 DEF Outcome, Confirmed, Refuted
  <2> QED
    BY <1>4, <1>5, <2>1, <2>2 DEF Outcome
<1> QED
  BY <1>4, <1>5

\* A writer that goes on leaves the others where they are.
LEMMA OneMoves ==
  ASSUME TInv, NEW w \in Writer, Starting(w) \/ Step(w) \/ Killed(w),
         NEW u \in Writer, u # w
  PROVE  at'[u] = at[u] /\ (at[w] # "idle" \/ at'[w] # "idle")
<1>1. CASE Starting(w)
  BY <1>1, StartIs DEF Starting
<1>2. CASE Step(w) \/ Killed(w)
  <2>1. at[w] # "idle"
    BY <1>2 DEF Step, Killed, ChainExists, Create, Flush, AppendNext, CheckOutput, AddJump,
       JumpExists, RemoveJump, ChainLeft, FlushLeft, Delete, CheckNext
  <2>2. \E s : Goto(w, s) \/ Return(w, s)
    BY <1>2 DEF Step, Killed, ChainExists, Create, Flush, AppendNext, CheckOutput, AddJump,
       JumpExists, RemoveJump, ChainLeft, FlushLeft, Delete, CheckNext
  <2>3. PICK s : at' = [at EXCEPT ![w] = s]
    BY <2>2 DEF Goto, Return
  <2> QED
    BY <2>1, <2>3, Moved
<1> QED
  BY <1>1, <1>2

\* The end of a call, returned or killed.
Ends(w) == at[w] # "idle" /\ at'[w] = "idle"

\* While writers take turns, a call keeps what it has established and ends with its
\* outcome.
LEMMA OutEnds ==
  ASSUME EInv, Serial, Serial', [Next]_vars
  PROVE  EInv' /\ \A w \in Writer : Ends(w) => Outcome(w)'
<1>1. DInv' /\ TInv
  BY DirectNext DEF EInv, DInv
<1>2. CASE UNCHANGED vars
  <2>1. \A w \in Writer : Established(w)' /\ ~Ends(w)
    BY <1>2, OutStays DEF EInv, Ends, vars
  <2> QED
    BY <1>1, <2>1 DEF EInv
<1>3. CASE Next
  <2>1. PICK w \in Writer : Starting(w) \/ Step(w) \/ Killed(w)
    BY <1>3 DEF Next, Starting
  <2>2. Outcome(w)'
    BY <1>1, <2>1, OutStep
  <2>3. ASSUME NEW u \in Writer, u # w PROVE Established(u)' /\ ~Ends(u)
    <3>1. at'[u] = at[u] /\ (at[w] # "idle" \/ at'[w] # "idle")
      BY <1>1, <2>1, <2>3, OneMoves
    <3>2. at[u] = "idle" /\ at'[u] = "idle"
      BY <2>3, <3>1 DEF Serial
    <3> QED
      BY <3>2 DEF Established, Completed, Tested, Unhooking, Ends
  <2>4. \A u \in Writer : Established(u)'
    BY <2>2, <2>3 DEF Outcome
  <2> QED
    BY <1>1, <2>2, <2>3, <2>4 DEF EInv
<1> QED
  BY <1>2, <1>3

\* Every step of the only writer keeps the outcome of its last call.
LEMMA OutNext == Alone /\ OInv /\ [Next]_vars => OInv'
<1> SUFFICES ASSUME Alone, OInv, [Next]_vars PROVE OInv'
  OBVIOUS
<1>1. DInv' /\ EInv
  BY DirectNext DEF OInv, EInv, Outcome, Alone, Serial
<1>2. CASE UNCHANGED vars
  BY <1>1, <1>2, OutStays DEF OInv
<1>3. CASE Next
  <2>1. PICK w \in Writer : Starting(w) \/ Step(w) \/ Killed(w)
    BY <1>3 DEF Next, Starting
  <2>2. Outcome(w)'
    BY <1>1, <2>1, OutStep
  <2> QED
    BY <1>1, <2>2 DEF OInv, Alone
<1> QED
  BY <1>2, <1>3

\* The invariant holds throughout.
LEMMA OutAlways == Alone => (Spec => []OInv)
<1> SUFFICES ASSUME Alone PROVE Spec => []OInv
  OBVIOUS
<1>1. OInv /\ [Next]_vars => OInv'
  BY OutNext
<1> QED
  BY <1>1, OutInit, PTL DEF Spec

\* A writer that has returned from an enable or a check knows its request.
LEMMA Knows ==
  ASSUME DInv, NEW w \in Writer, op[w] \in {"enable", "check"}
  PROVE  /\ asked[w] \in Request /\ cfg[w] = Parsed(asked[w]) /\ Usable(Parsed(asked[w]))
         /\ cfg[w] \in Conf /\ cfg[w].proxy # <<>>
         /\ rules \in Seq(Rule) /\ jumps \in Nat
<1>1. TInv /\ TableOK
  BY TypeParts DEF DInv, TInv
<1> QED
  BY <1>1, InCall DEF TableOK

\* All of a request's rules are the beginning of its rules.
LEMMA AllBegin ==
  ASSUME NEW r \in Request, Usable(Parsed(r)), rules = Appends(Parsed(r))
  PROVE  Begins(r)
<1>1. PICK c, a, n : c = Parsed(r) /\ a = Appends(c) /\ n = Len(c.bypass)
  OBVIOUS
<1>2. n \in Nat /\ Len(a) = n + 3
  BY <1>1, AskedConf, AppendsIs
<1> QED
  BY <1>1, <1>2 DEF Begins

\* The properties of the runs, of one writer's last call.
EnableTold(w) ==
  Returned(w, "enable", "ok") => \A d \in Address \ Direct(asked[w]) : Redirected(d)
DisableTold(w) == Returned(w, "disable", "ok") /\ faults <= 1 => jumps = 0
CheckTold(w) ==
  Returned(w, "check", "ok") =>
    /\ Direct(asked[w]) \subseteq Direct(installed)
    /\ \A d \in Address : Redirected(d) <=> d \notin Direct(installed)
RefusalTold(w) ==
  Returned(w, "check", "fail") /\ faults = 0 =>
    ~(jumps > 0 /\ \E way \in Way : rules = Appends(Configured(asked[w], way)))
Truthful(w) == EnableTold(w) /\ DisableTold(w) /\ CheckTold(w) /\ RefusalTold(w)

\* All rules and the jump redirect what is not direct.
LEMMA EnableTells == ASSUME DInv, NEW w \in Writer, Outcome(w) PROVE EnableTold(w)
<1> SUFFICES ASSUME Returned(w, "enable", "ok"), NEW d \in Address \ Direct(asked[w])
             PROVE  Redirected(d)
  BY DEF EnableTold
<1>1. op[w] = "enable" /\ rules = Appends(cfg[w]) /\ jumps > 0
  BY DEF Outcome, Enabled, Returned
<1>2. PICK r \in Request : /\ r = asked[w] /\ cfg[w] = Parsed(r) /\ Usable(Parsed(r))
                           /\ rules \in Seq(Rule) /\ jumps \in Nat
  BY <1>1, Knows
<1>3. rules = Appends(Parsed(r)) /\ Begins(r)
  BY <1>1, <1>2, AllBegin
<1> QED
  BY <1>1, <1>2, <1>3, RedirectedIs

\* The jump is gone, unless two commands failed.
LEMMA DisableTells == ASSUME DInv, NEW w \in Writer, Outcome(w) PROVE DisableTold(w)
<1>1. faults \in 0 .. MaxFaults /\ MaxFaults \in Nat
  BY TypeParts, FirewallAssumption DEF DInv, TInv, TableOK
<1> QED
  BY <1>1 DEF Outcome, Unhooked, DisableTold

\* Every rule of the request is in the table; as the redirection is there the rules of
\* the installed request are complete, and in their order.  A destination that matches
\* one of the former matches one of the latter.
LEMMA CheckTells == ASSUME DInv, NEW w \in Writer, Outcome(w) PROVE CheckTold(w)
<1> SUFFICES ASSUME Returned(w, "check", "ok")
             PROVE  /\ Direct(asked[w]) \subseteq Direct(installed)
                    /\ \A d \in Address : Redirected(d) <=> d \notin Direct(installed)
  BY DEF CheckTold
<1>1. op[w] = "check"
  BY DEF Returned
<1>2. PICK r \in Request : /\ r = asked[w] /\ cfg[w] = Parsed(r) /\ Usable(Parsed(r))
                           /\ rules \in Seq(Rule) /\ jumps \in Nat
                           /\ cfg[w] \in Conf /\ cfg[w].proxy # <<>>
  BY <1>1, Knows
<1>3. PICK c, a, n : c = Parsed(r) /\ a = Appends(c) /\ n = Len(c.bypass)
  OBVIOUS
<1>4. \A k \in 1 .. Len(Checks(c)) : Accepts(Checks(c)[k])
  BY <1>2, <1>3 DEF Outcome, Confirmed
<1>5. jumps > 0 /\ \A j \in 1 .. Len(a) : a[j] \in ToSet(rules)
  BY <1>2, <1>3, <1>4, PassedAll
<1>6. /\ n \in Nat /\ Len(a) = n + 3 /\ a[n + 3] = Redirect
      /\ \A j \in 1 .. n + 2 : a[j] \in Network
  BY <1>2, <1>3, AppendsIs
<1>7. Redirect \in ToSet(rules)
  <2>1. n + 3 \in 1 .. Len(a)
    BY <1>6
  <2> QED
    BY <1>5, <1>6, <2>1
<1>8. PICK q \in Request : q = installed /\ Begins(q)
  <2>1. rules # <<>>
    BY <1>7 DEF ToSet
  <2>2. installed \in Request \cup {NoRequest} /\ Prefixed
    BY TypeParts DEF DInv, TInv, TableOK
  <2> QED
    BY <2>1, <2>2 DEF Prefixed
<1>9. PICK b, m : b = Appends(Parsed(q)) /\ m = Len(Parsed(q).bypass)
  OBVIOUS
<1>10. /\ m \in Nat /\ Len(b) = m + 3 /\ DOMAIN b = 1 .. m + 3 /\ b[m + 3] = Redirect
       /\ b \in Seq(Rule) /\ \A j \in 1 .. m + 2 : b[j] \in Network
  <2>1. Usable(Parsed(q))
    BY <1>8 DEF Begins
  <2> QED
    BY <1>9, <2>1, AskedConf, AppendsIs
<1>11. Len(rules) \in 0 .. m + 3 /\ DOMAIN rules = 1 .. Len(rules)
       /\ \A i \in 1 .. Len(rules) : rules[i] = b[i]
  BY <1>2, <1>8, <1>9, <1>10 DEF Begins
<1>12. rules = b
  <2>1. PICK i \in 1 .. Len(rules) : b[i] = Redirect
    BY <1>7, <1>11 DEF ToSet
  <2>2. i \notin 1 .. m + 2
    BY <1>10, <2>1, FirewallAssumption
  <2>3. Len(rules) = Len(b)
    <3>1. Len(rules) \in 0 .. m + 3 /\ Len(b) = m + 3 /\ m \in Nat
      BY <1>10, <1>11
    <3> QED
      BY <2>2, <3>1
  <2> QED
    BY <1>2, <1>10, <1>11, <2>3, SameElements
<1>13. ASSUME NEW d \in Direct(r) PROVE d \in Direct(q)
  <2>1. d \in Address
    BY DEF Direct
  <2>2. PICK j \in 1 .. Len(a) - 1 : Matches(d, a[j])
    BY <1>2, <1>3, <2>1, DirectIs
  <2>3. a[j] \in ToSet(rules) /\ a[j] \in Network
    BY <1>5, <1>6
  <2>4. PICK i \in 1 .. m + 3 : b[i] = a[j]
    BY <1>10, <1>12, <2>3 DEF ToSet
  <2>5. i # m + 3
    BY <1>10, <2>3, <2>4, FirewallAssumption
  <2>6. i \in 1 .. Len(b) - 1 /\ Matches(d, b[i])
    BY <1>10, <2>2, <2>4, <2>5
  <2>7. Usable(Parsed(q))
    BY <1>8 DEF Begins
  <2> QED
    BY <1>9, <2>1, <2>6, <2>7, DirectIs
<1>14. ASSUME NEW d \in Address PROVE Redirected(d) <=> d \notin Direct(q)
  BY <1>2, <1>5, <1>8, <1>9, <1>12, RedirectedIs
<1> QED
  BY <1>2, <1>8, <1>13, <1>14

\* A test that fails finds something missing.
LEMMA RefusalTells == ASSUME DInv, NEW w \in Writer, Outcome(w) PROVE RefusalTold(w)
<1> SUFFICES ASSUME Returned(w, "check", "fail"), faults = 0, jumps > 0,
                    NEW way \in Way, rules = Appends(Configured(asked[w], way))
             PROVE  FALSE
  BY DEF RefusalTold
<1>1. op[w] = "check"
  BY DEF Returned
<1>2. /\ asked[w] \in Request /\ cfg[w] = Parsed(asked[w]) /\ Usable(Parsed(asked[w]))
  BY <1>1, Knows
<1>3. Configured(asked[w], way) = cfg[w]
  BY <1>2, SameWay
<1>4. ~(jumps > 0 /\ rules = Appends(cfg[w]))
  BY DEF Outcome, Refuted
<1> QED
  BY <1>3, <1>4

\* Any number of writers, one call at a time: what a call returns is true of the table
\* at the moment of its return.  Enable that returns 0 redirects whatever is not direct;
\* disable that returns 0 leaves no jump unless two commands failed; is_enabled returns
\* 1 only when a complete request is in place whose direct destinations contain those
\* asked about (it sees no surplus), and 0, if no command failed, only when the request
\* asked about is not in place.
THEOREM CallsTellTruth ==
  ASSUME NEW w \in Writer
  PROVE  Spec /\ []Serial => [][Ends(w) => Truthful(w)']_vars
<1>1. DInv /\ Outcome(w) => Truthful(w)
  BY EnableTells, DisableTells, CheckTells, RefusalTells DEF Truthful
<1>2. Init => EInv
  BY OutInit DEF OInv, EInv, Outcome
<1>3. EInv /\ Serial /\ Serial' /\ [Next]_vars => EInv' /\ (Ends(w) => Outcome(w)')
  BY OutEnds
<1>4. EInv => DInv
  BY DEF EInv
<1> QED
  BY <1>1, <1>2, <1>3, <1>4, PTL DEF Spec

\* fp_firewall_enable returns 0 only when every destination that was not asked to be
\* direct is redirected, whatever failed before, and as long as nobody else edits the
\* table.
THEOREM EnableIsComplete == Alone => (Spec => []EnableComplete)
<1> SUFFICES ASSUME Alone PROVE Spec => []EnableComplete
  OBVIOUS
<1>1. OInv => EnableComplete
  BY EnableTells DEF OInv, EnableComplete, EnableTold
<1> QED
  BY <1>1, OutAlways, PTL

\* fp_firewall_disable returns 0 only when nothing is redirected, when at most one
\* command fails without effect: it takes a failed test for an absent jump, and then
\* needs a second failure to believe that there is no chain either.
THEOREM DisableIsUnhooked == Alone /\ MaxFaults <= 1 => (Spec => []DisableUnhooks)
<1> SUFFICES ASSUME Alone, MaxFaults <= 1 PROVE Spec => []DisableUnhooks
  OBVIOUS
<1>1. OInv => DisableUnhooks
  <2> SUFFICES ASSUME OInv PROVE DisableUnhooks
    OBVIOUS
  <2>1. faults \in 0 .. MaxFaults /\ MaxFaults \in Nat
    BY TypeParts, FirewallAssumption DEF OInv, DInv, TInv, TableOK
  <2>2. \A w \in Writer : DisableTold(w)
    BY DisableTells DEF OInv
  <2> QED
    BY <2>1, <2>2 DEF DisableTold, DisableUnhooks
<1> QED
  BY <1>1, OutAlways, PTL

\* fp_firewall_is_enabled tests rules one by one, neither their order nor whether there
\* are others, yet returns 1 only when exactly the destinations of the request being
\* installed are direct, and they contain those of the request asked about.
THEOREM CheckIsSound == Alone => (Spec => []CheckSound)
<1> SUFFICES ASSUME Alone PROVE Spec => []CheckSound
  OBVIOUS
<1>1. OInv => CheckSound
  BY CheckTells DEF OInv, CheckSound, CheckTold
<1> QED
  BY <1>1, OutAlways, PTL

\* It returns 0 only when the rules of the request are not in place, or a command
\* failed, whichever way the configuration that was installed had taken.
THEOREM CheckIsComplete == Alone => (Spec => []CheckComplete)
<1> SUFFICES ASSUME Alone PROVE Spec => []CheckComplete
  OBVIOUS
<1>1. OInv => CheckComplete
  BY RefusalTells DEF OInv, CheckComplete, RefusalTold
<1> QED
  BY <1>1, OutAlways, PTL

=============================================================================
