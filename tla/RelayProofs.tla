----------------------------- MODULE RelayProofs -----------------------------
(***************************************************************************)
(* The relay implements the tunnel, for every buffer size, every answer of *)
(* the SOCKS5 server and streams of any length.                            *)
(*                                                                         *)
(* The invariant follows a byte of the payload through the worker by its   *)
(* place in the stream: the other end has the first ones, its socket holds *)
(* the next, then come those that write_all has left and those that have   *)
(* not been received.  During the handshake the server's stream begins     *)
(* with its answer, and what read_all has and wants says how far the       *)
(* worker has come in it.  The places are lost with a reset, so the        *)
(* traffic table has a second invariant, which only compares lengths and   *)
(* which nothing can break.                                                *)
(***************************************************************************)
EXTENDS Relay, TLAPS

\* t stands in s after its first n elements.
At(s, n, t) ==
  /\ n + Len(t) <= Len(s)
  /\ \A i \in 1 .. Len(t) : t[i] = s[n + i]

\* What the worker does once the SOCKS5 answer has been read, and before.
Relaying == {"poll", "turn", "write", "ended"}
Handshaking == Reading \cup {"connect"}

\* The buffer holds bytes of e.
Writing(e) == stage = "write" /\ e = Source

\* How many bytes of e the other end's socket has taken, and how many are in the buffer.
Base(e) == Len(got[Other(e)]) + Len(outq[Other(e)])
Held(e) == IF Writing(e) THEN Len(chunk) ELSE 0

\* What the other end has got or will read is what e sent, from the first byte on.
Delivered(e) ==
  /\ At(sent[e], 0, got[Other(e)])
  /\ At(sent[e], Len(got[Other(e)]), outq[Other(e)])

\* write_all goes on with the next byte.
Buffered(e) ==
  Writing(e) /\ closed[Other(e)] # "reset" => At(sent[e], Base(e), chunk)

\* recv() goes on with the byte after those, and up to the last unless e has reset the
\* connection.
Flowing(e) == stage \in Relaying \/ (e = "client" /\ stage \in Handshaking)
Arriving(e) ==
  Flowing(e) /\ closed[Other(e)] # "reset" =>
    /\ At(sent[e], Base(e) + Held(e), inq[e])
    /\ closed[e] # "reset" => Base(e) + Held(e) + Len(inq[e]) = Len(sent[e])

\* Only payload is received, even for an end that is gone.
Payload(e) == Flowing(e) => inq[e] \in Seq(Byte)

\* The end of a stream has been passed on exactly when its descriptor left the poll set,
\* and then, unless the connection is broken, e sends no more and all was taken.
Passed(e) ==
  /\ stage # "done" => (shut[Other(e)] <=> e \notin fds)
  /\ ~broken /\ shut[Other(e)] => closed[e] # "open" /\ Base(e) = Len(sent[e])
  /\ eof[Other(e)] => shut[Other(e)] /\ outq[Other(e)] = <<>>
  /\ closed[e] = "reset" => broken

\* An end in the for loop's set has something to receive or has ended.
Turns(e) ==
  /\ stage \in {"turn", "write"} /\ e \in ready =>
       /\ e \in fds
       /\ Writing(e) \/ inq[e] # <<>> \/ closed[e] # "open"
  /\ stage = "write" => ready # {}
  /\ stage = "ended" => fds = {}

\* fp_stats_add comes after write_all.
Counts(e) ==
  ~broken =>
    /\ counted[e] <= Base(e)
    /\ stage \in Relaying =>
         counted[e] + (IF Writing(e) THEN size ELSE 0) = Base(e) + Held(e)
    /\ stage = "done" => counted[e] = Len(sent[e]) /\ shut[Other(e)]

\* Before the relay nothing has been passed on.
Quiet(e) ==
  stage \in Handshaking =>
    /\ got[e] = <<>> /\ outq[e] = <<>> /\ ~shut[e] /\ counted[e] = 0 /\ e \in fds

\* What holds of the stream that e sends.
Stream(e) ==
  /\ Delivered(e) /\ Buffered(e) /\ Arriving(e) /\ Payload(e)
  /\ Passed(e) /\ Turns(e) /\ Counts(e) /\ Quiet(e)

\* The server's stream is the answer a and then its payload; the worker has taken n
\* bytes of it before those that read_all has.
Reached(a, n) ==
  /\ At(a \o sent["server"], n, read)
  /\ At(a \o sent["server"], n + Len(read), inq["server"])
  /\ closed["server"] # "reset" =>
       n + Len(read) + Len(inq["server"]) = Len(a) + Len(sent["server"])

Greeted ==
  stage = "greeting" =>
    /\ ~granted /\ Len(read) + need = 2
    /\ answers = 0 => read = <<>> /\ inq["server"] = <<>>
    /\ answers = 1 => Len(read) + Len(inq["server"]) <= 2
    /\ answers = 2 => \E a \in Refusal : Reached(a, 0)

Replied ==
  stage = "reply" =>
    /\ Len(read) + need = 2 /\ answers \in {1, 2}
    /\ answers = 1 => ~granted /\ read = <<>> /\ inq["server"] = <<>>
    /\ answers = 2 => \E a \in Grant \cup Refusal \cup Malformed :
                        (granted => a \in Grant) /\ (~granted => a \notin Grant) /\ Reached(a, 0)

Headed ==
  stage = "header" =>
    /\ Len(read) + need = 2 /\ answers = 2
    /\ \E a \in Grant \cup Malformed : (granted <=> a \in Grant) /\ Reached(a, 2)

Measured ==
  stage = "length" =>
    /\ granted /\ read = <<>> /\ need = 1
    /\ \E a \in Grant : a[4] = 3 /\ Reached(a, 4)

Addressed ==
  stage = "address" =>
    /\ granted /\ read = <<>>
    /\ \E a \in Grant : need <= Len(a) /\ Reached(a, Len(a) - need)

\* The handshake takes the answer from the server's stream, all of it and nothing else.
Answers ==
  /\ Greeted /\ Replied /\ Headed /\ Measured /\ Addressed
  /\ stage = "connect" => answers = 0 /\ read = <<>> /\ inq["server"] = <<>>
  /\ stage \in Relaying => granted
  /\ ~granted => sent["server"] = <<>>
  /\ granted => answers = 2

\* The inductive invariant.
RelayInv == TypeOK /\ (\A e \in End : Stream(e)) /\ Answers

-----------------------------------------------------------------------------
(* Sequences.                                                                *)

\* The stream grows: what stands in it stays where it is ...
LEMMA AtGrows ==
  ASSUME NEW s \in Seq(Int), NEW n \in Nat, NEW t \in Seq(Int), At(s, n, t), NEW b \in Int
  PROVE  At(Append(s, b), n, t)
BY DEF At

\* ... and what ends with it grows with it.
LEMMA AtSends ==
  ASSUME NEW s \in Seq(Int), NEW n \in Nat, NEW t \in Seq(Int), At(s, n, t), NEW b \in Int,
         n + Len(t) = Len(s)
  PROVE  At(Append(s, b), n, Append(t, b))
<1> DEFINE r == Append(s, b)
           u == Append(t, b)
<1>1. /\ Len(r) = Len(s) + 1 /\ Len(u) = Len(t) + 1
      /\ \A i \in 1 .. Len(s) : r[i] = s[i]
      /\ \A i \in 1 .. Len(t) : u[i] = t[i]
      /\ r[Len(s) + 1] = b /\ u[Len(t) + 1] = b
  OBVIOUS
<1> HIDE DEF r, u
<1>2. ASSUME NEW i \in 1 .. Len(u) PROVE u[i] = r[n + i]
  <2>1. CASE i = Len(t) + 1
    BY <1>1, <2>1
  <2>2. CASE i \in 1 .. Len(t)
    <3>1. t[i] = s[n + i]
      BY <2>2 DEF At
    <3>2. n + i \in 1 .. Len(s)
      BY <2>2
    <3> QED
      BY <1>1, <2>2, <3>1, <3>2
  <2>3. i \in 1 .. (Len(t) + 1)
    BY <1>1
  <2> QED
    BY <2>1, <2>2, <2>3
<1>3. n + Len(u) <= Len(r)
  BY <1>1
<1>4. At(r, n, u)
  BY <1>2, <1>3 DEF At
<1> QED
  BY <1>4 DEF r, u

\* A part of what stands in the stream stands there too.
LEMMA AtPrefix ==
  ASSUME NEW s \in Seq(Int), NEW n \in Nat, NEW t \in Seq(Int), At(s, n, t),
         NEW k \in 0 .. Len(t)
  PROVE  At(s, n, SubSeq(t, 1, k)) /\ Len(SubSeq(t, 1, k)) = k
BY DEF At

\* The rest of a sequence, element by element.
LEMMA SubSeqIs ==
  ASSUME NEW t \in Seq(Int), NEW k \in 0 .. Len(t)
  PROVE  /\ Len(SubSeq(t, k + 1, Len(t))) = Len(t) - k
         /\ \A i \in 1 .. Len(SubSeq(t, k + 1, Len(t))) : SubSeq(t, k + 1, Len(t))[i] = t[k + i]
BY SMTT(30)

\* The rest of what stands in the stream stands there too.
LEMMA AtSuffix ==
  ASSUME NEW s \in Seq(Int), NEW n \in Nat, NEW t \in Seq(Int), At(s, n, t),
         NEW k \in 0 .. Len(t)
  PROVE  /\ At(s, n + k, SubSeq(t, k + 1, Len(t)))
         /\ Len(SubSeq(t, k + 1, Len(t))) = Len(t) - k
<1> DEFINE u == SubSeq(t, k + 1, Len(t))
<1>1. Len(u) = Len(t) - k /\ \A i \in 1 .. Len(u) : u[i] = t[k + i]
  BY SubSeqIs, Zenon
<1> HIDE DEF u
<1>2. ASSUME NEW i \in 1 .. Len(u) PROVE u[i] = s[n + k + i]
  <2>1. k + i \in 1 .. Len(t)
    BY <1>1
  <2>2. t[k + i] = s[n + (k + i)]
    BY <2>1 DEF At
  <2> QED
    BY <1>1, <2>2
<1>3. n + k + Len(u) <= Len(s)
  BY <1>1 DEF At
<1>4. At(s, n + k, u)
  BY <1>2, <1>3 DEF At
<1> QED
  BY <1>1, <1>4 DEF u

\* The first element of what stands there moves to the end of what stands before it.
LEMMA AtMoves ==
  ASSUME NEW s \in Seq(Int), NEW n \in Nat, NEW t \in Seq(Int), NEW u \in Seq(Int),
         At(s, n, t), At(s, n + Len(t), u), u # <<>>
  PROVE  /\ At(s, n, Append(t, Head(u))) /\ At(s, n + Len(t) + 1, Tail(u))
         /\ Len(Append(t, Head(u))) = Len(t) + 1 /\ Len(Tail(u)) = Len(u) - 1
         /\ Head(u) = s[n + Len(t) + 1] /\ n + Len(t) < Len(s)
<1> DEFINE v == Append(t, Head(u))
           w == Tail(u)
<1>1. /\ Len(u) \in Nat \ {0} /\ Head(u) = u[1] /\ Len(w) = Len(u) - 1
      /\ \A i \in 1 .. Len(w) : w[i] = u[i + 1]
  OBVIOUS
<1>2. /\ Len(v) = Len(t) + 1 /\ v[Len(t) + 1] = Head(u)
      /\ \A i \in 1 .. Len(t) : v[i] = t[i]
  OBVIOUS
<1> HIDE DEF v, w
<1>3. Head(u) = s[n + Len(t) + 1] /\ n + Len(t) < Len(s)
  BY <1>1 DEF At
<1>4. At(s, n, v)
  <2>1. ASSUME NEW i \in 1 .. Len(v) PROVE v[i] = s[n + i]
    <3>1. CASE i = Len(t) + 1
      BY <1>2, <1>3, <3>1
    <3>2. CASE i \in 1 .. Len(t)
      BY <1>2, <3>2 DEF At
    <3> QED
      BY <1>2, <3>1, <3>2
  <2> QED
    BY <1>2, <1>3, <2>1 DEF At
<1>5. At(s, n + Len(t) + 1, w)
  <2>1. ASSUME NEW i \in 1 .. Len(w) PROVE w[i] = s[n + Len(t) + 1 + i]
    <3>1. i + 1 \in 1 .. Len(u)
      BY <1>1
    <3>2. u[i + 1] = s[n + Len(t) + (i + 1)]
      BY <3>1 DEF At
    <3> QED
      BY <1>1, <3>2
  <2> QED
    BY <1>1, <1>3, <2>1 DEF At
<1> QED
  BY <1>1, <1>2, <1>3, <1>4, <1>5 DEF v, w

\* Nothing stands anywhere.
LEMMA AtEmpty ==
  ASSUME NEW s \in Seq(Int), NEW n \in 0 .. Len(s)
  PROVE  At(s, n, << >>) /\ Len(<< >>) = 0
BY DEF At

\* Two neighbours are one.
LEMMA AtJoins ==
  ASSUME NEW s \in Seq(Int), NEW n \in Nat, NEW t \in Seq(Int), NEW u \in Seq(Int),
         At(s, n, t), At(s, n + Len(t), u)
  PROVE  At(s, n, t \o u) /\ Len(t \o u) = Len(t) + Len(u)
BY DEF At

\* What stands after the answer stands in the payload.
LEMMA AtPayload ==
  ASSUME NEW a \in Seq(Int), NEW s \in Seq(Int), NEW t \in Seq(Int), At(a \o s, Len(a), t)
  PROVE  At(s, 0, t)
BY SMTT(30) DEF At

\* What stands within the answer, or in a stream of which there is nothing else yet.
LEMMA AtAnswer ==
  ASSUME NEW a \in Seq(Int), NEW s \in Seq(Int), NEW n \in Nat, NEW t \in Seq(Int),
         At(a \o s, n, t), s = <<>> \/ n + Len(t) <= Len(a)
  PROVE  At(a, n, t)
<1>1. n + Len(t) <= Len(a)
  BY DEF At
<1>2. ASSUME NEW i \in 1 .. Len(t) PROVE t[i] = a[n + i]
  <2>1. n + i \in 1 .. Len(a) /\ t[i] = (a \o s)[n + i]
    BY <1>1 DEF At
  <2> QED
    BY <2>1
<1> QED
  BY <1>1, <1>2 DEF At

\* All of it is the stream.
LEMMA AtWhole ==
  ASSUME NEW s \in Seq(Int), NEW t \in Seq(Int), At(s, 0, t), Len(t) = Len(s)
  PROVE  t = s
<1>1. \A i \in 1 .. Len(s) : t[i] = s[i]
  BY DEF At
<1> QED
  BY <1>1

\* What stands in a sequence over a set is one over it.
LEMMA AtOver ==
  ASSUME NEW S, S \subseteq Int, NEW s \in Seq(S), NEW t \in Seq(Int), At(s, 0, t)
  PROVE  t \in Seq(S)
<1>1. Len(s) \in Nat /\ Len(t) \in Nat /\ t = [i \in 1 .. Len(t) |-> t[i]]
  OBVIOUS
<1>2. \A i \in 1 .. Len(t) : t[i] \in S
  <2> TAKE i \in 1 .. Len(t)
  <2>1. t[i] = s[0 + i] /\ 0 + i = i /\ i \in 1 .. Len(s)
    BY <1>1 DEF At
  <2> QED
    BY <2>1
<1> QED
  BY <1>1, <1>2

\* Append, element by element.
LEMMA AppendIs ==
  ASSUME NEW s \in Seq(Int), NEW b \in Int
  PROVE  /\ Append(s, b) \in Seq(Int) /\ Len(Append(s, b)) = Len(s) + 1
         /\ Append(s, b)[Len(s) + 1] = b /\ \A i \in 1 .. Len(s) : Append(s, b)[i] = s[i]
OBVIOUS

\* Two sequences joined, element by element.
LEMMA JoinedIs ==
  ASSUME NEW s \in Seq(Int), NEW t \in Seq(Int)
  PROVE  /\ s \o t \in Seq(Int) /\ Len(s \o t) = Len(s) + Len(t)
         /\ \A i \in 1 .. Len(s) : (s \o t)[i] = s[i]
         /\ \A i \in 1 .. Len(t) : (s \o t)[Len(s) + i] = t[i]
OBVIOUS

\* Joined sequences grow at the end of the second.
LEMMA AppendJoined ==
  ASSUME NEW a \in Seq(Int), NEW s \in Seq(Int), NEW b \in Int
  PROVE  a \o Append(s, b) = Append(a \o s, b)
<1> DEFINE r == Append(s, b)
           j == a \o s
           x == a \o r
           y == Append(j, b)
<1>1. /\ r \in Seq(Int) /\ Len(r) = Len(s) + 1 /\ r[Len(s) + 1] = b
      /\ \A i \in 1 .. Len(s) : r[i] = s[i]
  BY AppendIs, Zenon
<1>2. /\ j \in Seq(Int) /\ Len(j) = Len(a) + Len(s) /\ \A i \in 1 .. Len(a) : j[i] = a[i]
      /\ \A i \in 1 .. Len(s) : j[Len(a) + i] = s[i]
  BY JoinedIs, Zenon
<1> HIDE DEF r, j
<1>3. /\ x \in Seq(Int) /\ Len(x) = Len(a) + Len(r) /\ \A i \in 1 .. Len(a) : x[i] = a[i]
      /\ \A i \in 1 .. Len(r) : x[Len(a) + i] = r[i]
  BY <1>1, JoinedIs, Zenon
<1>4. /\ y \in Seq(Int) /\ Len(y) = Len(j) + 1 /\ y[Len(j) + 1] = b
      /\ \A i \in 1 .. Len(j) : y[i] = j[i]
  BY <1>2, AppendIs, Zenon
<1> HIDE DEF x, y
<1>0. Len(a) \in Nat /\ Len(s) \in Nat /\ Len(j) \in Nat /\ Len(r) \in Nat
  BY <1>1, <1>2
<1>5. ASSUME NEW i \in 1 .. Len(y) PROVE x[i] = y[i]
  <2>1. CASE i \in 1 .. Len(a)
    <3>1. i \in 1 .. Len(j)
      BY <1>0, <1>2, <2>1
    <3> QED
      BY <1>2, <1>3, <1>4, <2>1, <3>1, Zenon
  <2>2. CASE i = Len(j) + 1
    <3>1. i = Len(a) + Len(r) /\ Len(r) \in 1 .. Len(r) /\ Len(r) = Len(s) + 1
      BY <1>0, <1>1, <1>2, <2>2
    <3>2. x[Len(a) + Len(r)] = r[Len(r)]
      BY <1>3, <3>1, Zenon
    <3> QED
      BY <1>1, <1>4, <2>2, <3>1, <3>2, Zenon
  <2>3. CASE i \in (Len(a) + 1) .. Len(j)
    <3>1. i - Len(a) \in 1 .. Len(s) /\ i = Len(a) + (i - Len(a)) /\ i - Len(a) \in 1 .. Len(r)
      BY <1>0, <1>1, <1>2, <2>3
    <3>2. x[i] = r[i - Len(a)] /\ j[i] = s[i - Len(a)] /\ r[i - Len(a)] = s[i - Len(a)]
      BY <1>1, <1>2, <1>3, <3>1, Zenon
    <3>3. i \in 1 .. Len(j)
      BY <1>0, <1>2, <2>3
    <3> QED
      BY <1>4, <3>2, <3>3, Zenon
  <2>4. i \in 1 .. (Len(j) + 1)
    BY <1>4
  <2> QED
    BY <1>0, <2>1, <2>2, <2>3, <2>4
<1>6. Len(x) = Len(y)
  <2>1. Len(a) + (Len(s) + 1) = (Len(a) + Len(s)) + 1
    BY <1>0
  <2> QED
    BY <1>1, <1>2, <1>3, <1>4, <2>1, Zenon
<1>7. x \in Seq(Int) /\ y \in Seq(Int)
  BY <1>3, <1>4
<1>8. x = y
  <2>1. At(y, 0, x)
    BY <1>5, <1>6, <1>7 DEF At
  <2> QED
    BY <1>6, <1>7, <2>1, AtWhole, Zenon
<1> QED
  BY <1>8 DEF x, y, r, j


-----------------------------------------------------------------------------
(* Types.                                                                    *)

\* The other end of an end.
LEMMA OtherEnd ==
  ASSUME NEW e \in End
  PROVE  /\ Other(e) \in End /\ Other(e) # e /\ Other(Other(e)) = e
         /\ \A f \in End : f = e \/ f = Other(e)
BY DEF End, Other

\* A sequence over a set has its elements there.
LEMMA Element == ASSUME NEW S, NEW s \in Seq(S), NEW i \in 1 .. Len(s) PROVE s[i] \in S
OBVIOUS

\* The two parts of a sequence.
LEMMA Parts ==
  ASSUME NEW S, NEW s \in Seq(S), NEW k \in 0 .. Len(s)
  PROVE  /\ SubSeq(s, 1, k) \in Seq(S) /\ Len(SubSeq(s, 1, k)) = k
         /\ SubSeq(s, k + 1, Len(s)) \in Seq(S)
         /\ Len(SubSeq(s, k + 1, Len(s))) = Len(s) - k
OBVIOUS

\* Two sequences joined.
LEMMA Joined ==
  ASSUME NEW S, NEW s \in Seq(S), NEW t \in Seq(S)
  PROVE  s \o t \in Seq(S) /\ Len(s \o t) = Len(s) + Len(t)
OBVIOUS

\* A sequence over a set is one over a larger set.
LEMMA Widen ==
  ASSUME NEW S, NEW R, S \subseteq R, NEW s \in Seq(S)
  PROVE  s \in Seq(R)
<1>1. Len(s) \in Nat /\ s = [i \in 1 .. Len(s) |-> s[i]]
  OBVIOUS
<1>2. \A i \in 1 .. Len(s) : s[i] \in R
  BY Element, Zenon
<1> QED
  BY <1>1, <1>2

\* Bytes are numbers.
LEMMA ByteSeq == \A s : s \in Seq(Byte) \/ s \in Seq(0 .. 255) => s \in Seq(Int)
<1>1. Byte \subseteq Int /\ 0 .. 255 \subseteq Int
  BY RelayAssumption
<1> QED
  BY <1>1, Widen, Zenon

\* The answers are bytes; those that grant the request have one of three forms, and the
\* form says how long they are.
LEMMA GrantForms ==
  ASSUME NEW a \in Grant
  PROVE  /\ a \in Seq(0 .. 255) /\ Len(a) >= 5 /\ a[1] = 5 /\ a[2] = 0 /\ a[3] = 0
         /\ \/ a[4] = 1 /\ Len(a) = 10
            \/ a[4] = 4 /\ Len(a) = 22
            \/ a[4] = 3 /\ Len(a) = 7 + a[5]
<1>1. \A n \in Nat : Zeros(n) \in Seq(0 .. 255) /\ Len(Zeros(n)) = n
  BY DEF Zeros
<1>2. ASSUME NEW n \in DomainLength, a = <<5, 0, 0, 3, n>> \o Zeros(n + 2)
      PROVE  /\ a \in Seq(0 .. 255) /\ Len(a) >= 5 /\ a[1] = 5 /\ a[2] = 0 /\ a[3] = 0
             /\ a[4] = 3 /\ Len(a) = 7 + a[5]
  <2>1. n \in 0 .. 255 /\ n + 2 \in Nat
    BY RelayAssumption
  <2> QED
    BY <1>1, <1>2, <2>1
<1>3. CASE a = <<5, 0, 0, 1>> \o Zeros(6)
  BY <1>1, <1>3
<1>4. CASE a = <<5, 0, 0, 4>> \o Zeros(18)
  BY <1>1, <1>4
<1> QED
  BY <1>2, <1>3, <1>4 DEF Grant

\* Every sequence is one of numbers, every counter a number.
Flows ==
  /\ sent \in [End -> Seq(Int)] /\ got \in [End -> Seq(Int)]
  /\ outq \in [End -> Seq(Int)] /\ inq \in [End -> Seq(Int)]
  /\ chunk \in Seq(Int) /\ read \in Seq(Int)
  /\ counted \in [End -> Nat] /\ size \in Nat /\ need \in Nat

\* The types say so, before and after a step.
LEMMA TypesFlow == (TypeOK => Flows) /\ (TypeOK' => Flows')
<1>1. \A f : f \in [End -> Seq(Byte)] \/ f \in [End -> Seq(0 .. 255)] => f \in [End -> Seq(Int)]
  BY ByteSeq
<1>2. ASSUME TypeOK PROVE Flows
  <2>1. /\ sent \in [End -> Seq(Int)] /\ got \in [End -> Seq(Int)]
        /\ outq \in [End -> Seq(Int)] /\ inq \in [End -> Seq(Int)]
        /\ chunk \in Seq(Int) /\ read \in Seq(Int)
    BY <1>1, <1>2, ByteSeq, Zenon DEF TypeOK
  <2>2. counted \in [End -> Nat] /\ size \in Nat /\ need \in Nat
    BY <1>2, RelayAssumption DEF TypeOK
  <2> QED
    BY <2>1, <2>2, Zenon DEF Flows
<1>3. ASSUME TypeOK' PROVE Flows'
  <2>1. /\ sent' \in [End -> Seq(Int)] /\ got' \in [End -> Seq(Int)]
        /\ outq' \in [End -> Seq(Int)] /\ inq' \in [End -> Seq(Int)]
        /\ chunk' \in Seq(Int) /\ read' \in Seq(Int)
    BY <1>1, <1>3, ByteSeq, Zenon DEF TypeOK
  <2>2. counted' \in [End -> Nat] /\ size' \in Nat /\ need' \in Nat
    BY <1>3, RelayAssumption DEF TypeOK
  <2> QED
    BY <2>1, <2>2, Zenon DEF Flows
<1> QED
  BY <1>2, <1>3

\* What follows when read_all has what it wants, stage by stage.
LEMMA AfterReadIs ==
  ASSUME NEW s \in Reading, NEW bytes
  PROVE  LET next == AfterRead(s, bytes) IN
         \/ s = "greeting" /\ bytes = <<5, 0>> /\ next = [stage |-> "reply", need |-> 2]
         \/ s = "reply" /\ bytes = <<5, 0>> /\ next = [stage |-> "header", need |-> 2]
         \/ s = "header" /\ bytes = <<0, 1>> /\ next = [stage |-> "address", need |-> 6]
         \/ s = "header" /\ bytes = <<0, 4>> /\ next = [stage |-> "address", need |-> 18]
         \/ s = "header" /\ bytes = <<0, 3>> /\ next = [stage |-> "length", need |-> 1]
         \/ s = "length" /\ next = [stage |-> "address", need |-> bytes[1] + 2]
         \/ s = "address" /\ next = [stage |-> "poll", need |-> 0]
         \/ next = [stage |-> "failed", need |-> 0]
BY DEF AfterRead, Reading

\* What read_all wants next fits its buffer.
LEMMA AfterReadType ==
  ASSUME NEW s \in Reading, NEW bytes \in Seq(0 .. 255), Len(bytes) > 0
  PROVE  /\ AfterRead(s, bytes).stage \in Reading \cup {"poll", "failed"}
         /\ AfterRead(s, bytes).need \in 0 .. 257
         /\ AfterRead(s, bytes).stage \in Reading => AfterRead(s, bytes).need > 0
<1> DEFINE first == bytes[1]
           next == AfterRead(s, bytes)
<1>1. 1 \in 1 .. Len(bytes)
  OBVIOUS
<1>2. first \in 0 .. 255
  BY <1>1, Element, Zenon
<1>3. \/ next = [stage |-> "poll", need |-> 0] \/ next = [stage |-> "failed", need |-> 0]
      \/ \E t \in Reading, m \in {1, 2, 6, 18, first + 2} : next = [stage |-> t, need |-> m]
  BY AfterReadIs DEF Reading
<1> HIDE DEF first, next
<1>4. {1, 2, 6, 18, first + 2} \subseteq 1 .. 257
  BY <1>2
<1>5. next.stage \in Reading \cup {"poll", "failed"} /\ next.need \in 0 .. 257
  BY <1>3, <1>4
<1>6. next.stage \in Reading => next.need > 0
  <2>1. CASE \E t \in Reading, m \in {1, 2, 6, 18, first + 2} : next = [stage |-> t, need |-> m]
    <3>1. PICK t \in Reading, m \in {1, 2, 6, 18, first + 2} : next = [stage |-> t, need |-> m]
      BY <2>1
    <3>2. m > 0
      BY <1>2
    <3> QED
      BY <3>1, <3>2
  <2>2. CASE next.stage \notin Reading
    BY <2>2
  <2>3. "poll" \notin Reading /\ "failed" \notin Reading
    BY DEF Reading
  <2> QED
    BY <1>3, <2>1, <2>2, <2>3
<1> QED
  BY <1>5, <1>6 DEF next

\* Every step keeps the types: the sums that read_all is given fit 257 bytes, and only
\* payload is ever in the buffer.
LEMMA TypeNext == RelayInv /\ [Next]_vars => TypeOK'
<1> SUFFICES ASSUME RelayInv, [Next]_vars PROVE TypeOK'
  OBVIOUS
<1> USE DEF TypeOK, streamVars, serverVars, readVars, loopVars
<1>0. TypeOK /\ \A e \in End : Stream(e)
  BY DEF RelayInv
<1>1. CASE Connect
  BY <1>0, <1>1 DEF Connect, Stages, Reading
<1>2. CASE HandshakeFails
  BY <1>0, <1>2 DEF HandshakeFails, Stages, Reading
<1>3. ASSUME NEW k \in 1 .. need, Read(k) PROVE TypeOK'
  <2> DEFINE bytes == read \o SubSeq(inq["server"], 1, k)
             next == AfterRead(stage, bytes)
  <2>1. /\ SubSeq(inq["server"], 1, k) \in Seq(0 .. 255) /\ "server" \in End
        /\ SubSeq(inq["server"], k + 1, Len(inq["server"])) \in Seq(0 .. 255)
        /\ Len(SubSeq(inq["server"], 1, k)) = k /\ read \in Seq(0 .. 255) /\ k \in Nat \ {0}
    <3>1. inq["server"] \in Seq(0 .. 255) /\ "server" \in End /\ read \in Seq(0 .. 255)
      BY <1>0 DEF End
    <3>2. k \in 0 .. Len(inq["server"]) /\ k \in Nat \ {0}
      BY <1>0, <1>3, <3>1 DEF Read
    <3>3. /\ SubSeq(inq["server"], 1, k) \in Seq(0 .. 255)
          /\ SubSeq(inq["server"], k + 1, Len(inq["server"])) \in Seq(0 .. 255)
          /\ Len(SubSeq(inq["server"], 1, k)) = k
      <4> DEFINE q == inq["server"]
      <4>1. q \in Seq(0 .. 255) /\ k \in 0 .. Len(q)
        BY <3>1, <3>2, Zenon
      <4> HIDE DEF q
      <4>2. /\ SubSeq(q, 1, k) \in Seq(0 .. 255) /\ Len(SubSeq(q, 1, k)) = k
            /\ SubSeq(q, k + 1, Len(q)) \in Seq(0 .. 255)
        BY <4>1, Parts, ZenonT(30)
      <4> QED
        BY <4>2 DEF q
    <3> QED
      BY <3>1, <3>2, <3>3, Zenon
  <2>2. bytes \in Seq(0 .. 255) /\ Len(bytes) > 0 /\ stage \in Reading
    <3>1. bytes \in Seq(0 .. 255) /\ Len(bytes) = Len(read) + Len(SubSeq(inq["server"], 1, k))
      BY <2>1, Joined, ZenonT(30)
    <3> QED
      BY <1>3, <2>1, <3>1 DEF Read
  <2>3. /\ next.stage \in Reading \cup {"poll", "failed"} /\ next.need \in 0 .. 257
        /\ next.stage \in Reading => next.need > 0
    BY <2>2, AfterReadType, Zenon
  <2>4. inq' \in [End -> Seq(0 .. 255)]
    BY <1>0, <1>3, <2>1 DEF Read
  <2>5. /\ stage' \in Stages /\ need' \in 0 .. 257 /\ read' \in Seq(0 .. 255)
        /\ stage' \in Reading => need' > 0
    <3> HIDE DEF next, bytes
    <3>1. CASE k < need
      <4>1. /\ need' = need - k /\ stage' = stage
            /\ read' = IF stage = "address" THEN <<>> ELSE bytes
        BY <1>3, <3>1 DEF Read, next, bytes
      <4> QED
        BY <1>0, <2>1, <2>2, <3>1, <4>1 DEF Stages
    <3>2. CASE ~(k < need)
      <4>1. stage' = next.stage /\ need' = next.need /\ read' = <<>>
        BY <1>3, <3>2 DEF Read, next, bytes
      <4> QED
        BY <2>3, <4>1 DEF Stages
    <3> QED
      BY <3>1, <3>2
  <2> QED
    BY <1>0, <1>3, <2>4, <2>5 DEF Read
<1>4. CASE Poll
  BY <1>0, <1>4 DEF Poll, Stages, Reading
<1>5. CASE IdleTimeout
  BY <1>0, <1>5 DEF IdleTimeout, Stages, Reading
<1>6. ASSUME NEW k \in 1 .. BufferSize, Receive(k) PROVE TypeOK'
  <2>1. Source \in End /\ stage = "turn" /\ inq[Source] \in Seq(Byte)
    BY <1>0, <1>6 DEF Receive, Source, End, Stream, Payload, Flowing, Relaying
  <2>2. inq[Source] \in Seq(0 .. 255) /\ k \in 1 .. Len(inq[Source])
    BY <1>0, <1>6, <2>1 DEF Receive
  <2>3. /\ SubSeq(inq[Source], 1, k) \in Seq(Byte) /\ Len(SubSeq(inq[Source], 1, k)) = k
        /\ SubSeq(inq[Source], k + 1, Len(inq[Source])) \in Seq(0 .. 255)
    <3>1. k \in 0 .. Len(inq[Source])
      BY <2>2
    <3> QED
      BY <2>1, <2>2, <3>1, Parts, ZenonT(30)
  <2>4. inq' \in [End -> Seq(0 .. 255)] /\ chunk' \in Seq(Byte) /\ size' = k /\ Len(chunk') = k
    BY <1>0, <1>6, <2>1, <2>3 DEF Receive
  <2>5. size' \in 0 .. BufferSize /\ Len(chunk') <= size'
    BY <2>4, RelayAssumption
  <2> QED
    BY <1>0, <1>6, <2>4, <2>5 DEF Receive, Stages, Reading
<1>7. CASE ReceiveEnd
  BY <1>0, <1>7, OtherEnd DEF ReceiveEnd
<1>8. CASE Write
  <2>1. chunk' \in Seq(Byte) /\ Len(chunk') = Len(chunk) - 1 /\ Head(chunk) \in Byte
    BY <1>0, <1>8 DEF Write
  <2>2. \A e \in End : Append(outq[e], Head(chunk)) \in Seq(Byte)
    BY <1>0, <2>1
  <2>3. outq' \in [End -> Seq(Byte)]
    BY <1>0, <1>8, <2>2 DEF Write
  <2>4. Len(chunk') <= size'
    BY <1>0, <1>8, <2>1 DEF Write
  <2> QED
    BY <1>0, <1>8, <2>1, <2>3, <2>4 DEF Write
<1>9. CASE WriteFails
  BY <1>0, <1>9 DEF WriteFails, Stages, Reading
<1>10. CASE Count
  <2>1. \A e \in End : counted[e] + size \in Nat
    BY <1>0, RelayAssumption
  <2>2. counted' \in [End -> Nat]
    BY <1>0, <1>10, <2>1 DEF Count
  <2> QED
    BY <1>0, <1>10, <2>2, RelayAssumption DEF Count, Stages, Reading
<1>11. CASE EndTurn
  BY <1>0, <1>11 DEF EndTurn, Stages, Reading
<1>12. ASSUME NEW failed \in BOOLEAN, Hangup(failed) PROVE TypeOK'
  BY <1>0, <1>12 DEF Hangup, Stages, Reading
<1>13. CASE Answer
  <2>1. PICK a \in Grant \cup Refusal \cup Malformed \cup {<<5, 0>>}, c \in {1, 2}, g \in BOOLEAN :
          Answered(a, c, g)
    BY <1>13 DEF Answer
  <2>2. a \in Seq(0 .. 255)
    <3>1. \A m \in Malformed \cup {<<5, 0>>} : m \in Seq(0 .. 255)
      <4>1. /\ <<5, 0>> \in Seq(0 .. 255) /\ <<5, 0, 1, 1>> \in Seq(0 .. 255)
            /\ <<5, 0, 0, 9>> \in Seq(0 .. 255)
        OBVIOUS
      <4> QED
        BY <4>1, Zenon DEF Malformed
    <3> QED
      BY <2>1, <3>1, GrantForms, RelayAssumption, Zenon
  <2>3. inq["server"] \in Seq(0 .. 255)
    BY <1>0 DEF End
  <2>4. inq["server"] \o a \in Seq(0 .. 255)
    BY <2>2, <2>3, Joined, Zenon
  <2>5. inq' \in [End -> Seq(0 .. 255)]
    BY <1>0, <2>1, <2>4 DEF Answered
  <2>6. answers' \in 0 .. 2 /\ granted' \in BOOLEAN
    BY <2>1 DEF Answered
  <2> QED
    BY <1>0, <1>13, <2>5, <2>6 DEF Answer
<1>14. ASSUME NEW e \in End, Send(e) PROVE TypeOK'
  <2>1. PICK b \in Byte :
          /\ sent' = [sent EXCEPT ![e] = Append(@, b)]
          /\ inq' = IF stage = "done" THEN inq ELSE [inq EXCEPT ![e] = Append(@, b)]
    BY <1>14 DEF Send
  <2>2. Append(sent[e], b) \in Seq(Byte) /\ b \in 0 .. 255
    BY <1>0, RelayAssumption
  <2>3. Append(inq[e], b) \in Seq(0 .. 255)
    BY <1>0, <2>2
  <2>4. sent' \in [End -> Seq(Byte)] /\ inq' \in [End -> Seq(0 .. 255)]
    BY <1>0, <2>1, <2>2, <2>3
  <2> QED
    BY <1>0, <1>14, <2>4 DEF Send
<1>15. ASSUME NEW e \in End, Finish(e) PROVE TypeOK'
  BY <1>0, <1>15 DEF Finish
<1>16. ASSUME NEW e \in End, Reset(e) PROVE TypeOK'
  <2>1. PICK n \in 0 .. Len(inq[e]) : inq' = [inq EXCEPT ![e] = SubSeq(@, 1, n)]
    BY <1>16 DEF Reset
  <2>2. SubSeq(inq[e], 1, n) \in Seq(0 .. 255)
    <3>1. inq[e] \in Seq(0 .. 255)
      BY <1>0
    <3> QED
      BY <3>1, Parts, Zenon
  <2>3. inq' \in [End -> Seq(0 .. 255)] /\ outq' \in [End -> Seq(Byte)]
    BY <1>0, <1>16, <2>1, <2>2 DEF Reset
  <2> QED
    BY <1>0, <1>16, <2>3 DEF Reset
<1>17. ASSUME NEW e \in End, ReadByte(e) PROVE TypeOK'
  BY <1>0, <1>17 DEF ReadByte
<1>18. ASSUME NEW e \in End, ReadEnd(e) PROVE TypeOK'
  BY <1>0, <1>18 DEF ReadEnd
<1>19. CASE UNCHANGED vars
  BY <1>0, <1>19 DEF vars
<1> QED
  BY <1>1, <1>2, <1>3, <1>4, <1>5, <1>6, <1>7, <1>8, <1>9, <1>10, <1>11, <1>12, <1>13,
     <1>14, <1>15, <1>16, <1>17, <1>18, <1>19
  DEF Next, WorkerStep, EndStep, Close, Killed

-----------------------------------------------------------------------------
(* The two streams.                                                          *)

\* While the worker writes, it writes bytes of an end whose stream it has not passed on.
LEMMA SourceOpen ==
  ASSUME RelayInv, stage = "write"
  PROVE  Source \in End /\ Source \in ready /\ Source \in fds /\ ~shut[Other(Source)]
<1>1. ready # {} /\ ready \subseteq End
  BY DEF RelayInv, TypeOK, Stream, Turns, End
<1>2. Source \in End /\ Source \in ready
  BY <1>1 DEF Source, End
<1>3. Source \in fds /\ ~shut[Other(Source)]
  BY <1>2 DEF RelayInv, Stream, Turns, Passed
<1> QED
  BY <1>2, <1>3

\* Counts of bytes, and the sequences of the stream that e sends.
LEMMA Quantities ==
  ASSUME Flows, NEW e \in End
  PROVE  /\ Base(e) \in Nat /\ Held(e) \in Nat /\ counted[e] \in Nat /\ size \in Nat
         /\ sent[e] \in Seq(Int) /\ got[Other(e)] \in Seq(Int) /\ outq[Other(e)] \in Seq(Int)
         /\ inq[e] \in Seq(Int) /\ chunk \in Seq(Int) /\ Len(got[Other(e)]) \in Nat
         /\ Len(outq[Other(e)]) \in Nat /\ Len(inq[e]) \in Nat /\ Len(sent[e]) \in Nat
<1>1. Other(e) \in End
  BY OtherEnd
<1> QED
  BY <1>1 DEF Flows, Base, Held

\* send() moves one byte from the buffer to the other end's socket.
LEMMA WriteStep == ASSUME RelayInv, TypeOK', Write, NEW e \in End PROVE Stream(e)'
<1> DEFINE o == Other(e)
<1> USE DEF Flows
<1>1. /\ o \in End /\ o # e /\ Source \in End
      /\ \A f \in End : f # e => Other(f) # o
  BY OtherEnd, SourceOpen DEF Write
<1>2. Flows /\ Flows' /\ Stream(e)
  BY <1>1, TypesFlow DEF RelayInv
<1>3. /\ UNCHANGED <<sent, got, closed, eof, broken, inq, shut, stage, fds, ready, size,
                     counted>>
      /\ stage = "write" /\ chunk # <<>> /\ chunk' = Tail(chunk)
  BY DEF Write, streamVars
<1>4. (Writing(e)' <=> Writing(e)) /\ (Flowing(e)' <=> Flowing(e))
  BY <1>3 DEF Writing, Flowing, Source
<1>7. /\ sent[e] \in Seq(Int) /\ got[o] \in Seq(Int) /\ outq[o] \in Seq(Int)
      /\ inq[e] \in Seq(Int) /\ chunk \in Seq(Int) /\ Len(got[o]) \in Nat
      /\ Base(e) \in Nat /\ Held(e) \in Nat /\ counted[e] \in Nat /\ size \in Nat
  BY <1>2, Quantities
<1>5. CASE Writing(e)
  <2>1. outq'[o] = Append(outq[o], Head(chunk)) /\ closed[o] # "reset" /\ ~shut[o]
    BY <1>1, <1>5, SourceOpen DEF Write, Writing, RelayInv, TypeOK
  <2>2. At(sent[e], Len(got[o]), outq[o]) /\ At(sent[e], Len(got[o]) + Len(outq[o]), chunk)
    BY <1>2, <1>5, <2>1 DEF Stream, Delivered, Buffered, Base
  <2>3. /\ At(sent[e], Len(got[o]), outq'[o]) /\ At(sent[e], Len(got[o]) + Len(outq[o]) + 1, chunk')
        /\ Len(outq'[o]) = Len(outq[o]) + 1 /\ Len(chunk') = Len(chunk) - 1
    <3> DEFINE s == sent[e]
               n == Len(got[o])
               t == outq[o]
               u == chunk
    <3>1. /\ s \in Seq(Int) /\ n \in Nat /\ t \in Seq(Int) /\ u \in Seq(Int) /\ u # <<>>
          /\ At(s, n, t) /\ At(s, n + Len(t), u)
          /\ outq'[o] = Append(t, Head(u)) /\ chunk' = Tail(u)
      BY <1>3, <1>7, <2>1, <2>2
    <3> HIDE DEF s, n, t, u
    <3>2. /\ At(s, n, Append(t, Head(u))) /\ At(s, n + Len(t) + 1, Tail(u))
          /\ Len(Append(t, Head(u))) = Len(t) + 1 /\ Len(Tail(u)) = Len(u) - 1
      BY <3>1, AtMoves, SMT
    <3>3. /\ At(s, n, outq'[o]) /\ At(s, n + Len(t) + 1, chunk')
          /\ Len(outq'[o]) = Len(t) + 1 /\ Len(chunk') = Len(u) - 1
      BY <3>1, <3>2, Zenon
    <3> QED
      BY <3>3 DEF s, n, t, u
  <2>4. Base(e)' = Base(e) + 1 /\ Held(e)' = Held(e) - 1
    BY <1>1, <1>2, <1>3, <1>4, <1>5, <2>3 DEF Base, Held
  <2>5. Base(e)' + Held(e)' = Base(e) + Held(e)
    BY <1>7, <2>4
  <2>6. Delivered(e)' /\ Buffered(e)'
    BY <1>2, <1>3, <2>3, <2>4 DEF Stream, Delivered, Buffered, Base
  <2>7. Arriving(e)' /\ Payload(e)' /\ Turns(e)' /\ Quiet(e)'
    BY <1>2, <1>3, <1>4, <2>5 DEF Stream, Arriving, Payload, Turns, Quiet, Handshaking, Reading
  <2>8. Passed(e)'
    BY <1>2, <1>3, <2>1 DEF Stream, Passed
  <2>9. Counts(e)'
    <3>1. CASE broken
      BY <1>3, <3>1 DEF Counts
    <3>2. CASE ~broken
      <4>1. counted[e] <= Base(e) /\ counted[e] + size = Base(e) + Held(e)
        BY <1>2, <1>3, <1>5, <3>2 DEF Stream, Counts, Relaying
      <4> QED
        BY <1>3, <1>4, <1>5, <1>7, <2>4, <2>5, <4>1 DEF Counts
    <3> QED
      BY <3>1, <3>2
  <2> QED
    BY <2>6, <2>7, <2>8, <2>9 DEF Stream
<1>6. CASE ~Writing(e)
  <2>1. outq'[o] = outq[o]
    BY <1>1, <1>3, <1>6 DEF Write, Writing, RelayInv, TypeOK
  <2>2. Base(e)' = Base(e) /\ Held(e)' = 0 /\ Held(e) = 0
    BY <1>3, <1>4, <1>6, <2>1 DEF Base, Held
  <2> QED
    BY <1>2, <1>3, <1>4, <1>6, <2>1, <2>2
    DEF Stream, Delivered, Buffered, Arriving, Payload, Passed, Turns, Counts, Quiet,
        Handshaking, Reading
<1> QED
  BY <1>5, <1>6

\* Steps of the worker that move no byte: only the stage and the set of the for loop
\* change.
LEMMA StageStep ==
  ASSUME RelayInv, TypeOK', NEW e \in End,
         Connect \/ HandshakeFails \/ Poll \/ IdleTimeout \/ WriteFails \/ EndTurn \/ UNCHANGED vars
  PROVE  Stream(e)'
<1> DEFINE o == Other(e)
<1>1. Stream(e) /\ o \in End
  BY OtherEnd DEF RelayInv
<1>2. /\ UNCHANGED <<sent, got, closed, eof, broken, inq, outq, shut, fds, chunk, size, counted>>
      /\ \/ UNCHANGED <<stage, ready>>
         \/ stage = "connect" /\ stage' = "greeting" /\ UNCHANGED ready
         \/ stage # "done" /\ stage' = "failed" /\ UNCHANGED ready
         \/ stage = "poll" /\ stage' = "turn" /\ ready' = {f \in End : Readable(f)}
         \/ /\ stage = "turn" /\ ready = {} /\ UNCHANGED ready
            /\ stage' = IF fds = {} THEN "ended" ELSE "poll"
  BY DEF Connect, HandshakeFails, Poll, IdleTimeout, WriteFails, EndTurn, vars, streamVars,
         loopVars, Reading
<1>3. Writing(e)' => Writing(e) /\ UNCHANGED stage
  BY <1>2 DEF Writing, Source
<1>4. Base(e)' = Base(e)
  BY <1>2 DEF Base
<1>5. CASE stage # "done" /\ stage' = "failed"
  BY <1>1, <1>2, <1>3, <1>4, <1>5
  DEF Stream, Delivered, Buffered, Arriving, Payload, Passed, Turns, Counts, Quiet,
      Flowing, Handshaking, Reading, Relaying
<1>6. CASE UNCHANGED <<stage, ready>>
  BY <1>1, <1>2, <1>4, <1>6
  DEF Stream, Delivered, Buffered, Arriving, Payload, Passed, Turns, Counts, Quiet,
      Flowing, Writing, Source, Held
<1>7. CASE /\ stage' \in {"greeting", "turn", "poll", "ended"}
           /\ stage \in {"connect", "poll", "turn"}
  <2>1. Held(e) = 0 /\ Held(e)' = 0 /\ ~Writing(e) /\ ~Writing(e)'
    BY <1>7 DEF Held, Writing
  <2>2. (Flowing(e)' <=> Flowing(e)) /\ (stage' \in Relaying <=> stage \in Relaying)
    BY <1>2, <1>7 DEF Flowing, Relaying, Handshaking, Reading
  <2>3. Delivered(e)' /\ Buffered(e)' /\ Arriving(e)' /\ Payload(e)'
    BY <1>1, <1>2, <1>4, <2>1, <2>2 DEF Stream, Delivered, Buffered, Arriving, Payload
  <2>4. Passed(e)' /\ Counts(e)' 
    BY <1>1, <1>2, <1>4, <1>7, <2>1, <2>2 DEF Stream, Passed, Counts
  <2>5. Turns(e)' /\ Quiet(e)'
    BY <1>1, <1>2, <1>7, <2>1 DEF Stream, Turns, Quiet, Handshaking, Reading, Readable
  <2> QED
    BY <2>3, <2>4, <2>5 DEF Stream
<1> QED
  BY <1>2, <1>5, <1>6, <1>7

\* An end sends no more.
LEMMA FinishStep ==
  ASSUME RelayInv, TypeOK', NEW f \in End, Finish(f), NEW e \in End PROVE Stream(e)'
<1> DEFINE o == Other(e)
<1>1. Stream(e) /\ o \in End
  BY OtherEnd DEF RelayInv
<1>2. UNCHANGED <<sent, got, eof, broken, inq, outq, shut, stage, fds, ready, chunk, size, counted>>
  BY DEF Finish, loopVars
<1>3. /\ closed'[e] = "reset" <=> closed[e] = "reset"
      /\ closed'[o] = "reset" <=> closed[o] = "reset"
      /\ closed'[e] = "open" => closed[e] = "open"
  BY <1>1 DEF Finish, RelayInv, TypeOK
<1>4. Base(e)' = Base(e) /\ Held(e)' = Held(e) /\ (Writing(e)' <=> Writing(e))
  BY <1>2 DEF Base, Held, Writing, Source
<1> QED
  BY <1>1, <1>2, <1>3, <1>4
  DEF Stream, Delivered, Buffered, Arriving, Payload, Passed, Turns, Counts, Quiet, Flowing

\* An end is told that its stream has ended.
LEMMA ReadEndStep ==
  ASSUME RelayInv, TypeOK', NEW f \in End, ReadEnd(f), NEW e \in End PROVE Stream(e)'
<1> DEFINE o == Other(e)
<1>1. Stream(e) /\ o \in End
  BY OtherEnd DEF RelayInv
<1>2. UNCHANGED <<sent, got, closed, broken, inq, outq, shut, stage, fds, ready, chunk, size,
                  counted>>
  BY DEF ReadEnd, loopVars
<1>3. eof'[o] => eof[o] \/ (outq[o] = <<>> /\ shut[o])
  BY <1>1 DEF ReadEnd, RelayInv, TypeOK
<1>4. Base(e)' = Base(e) /\ Held(e)' = Held(e) /\ (Writing(e)' <=> Writing(e))
  BY <1>2 DEF Base, Held, Writing, Source
<1> QED
  BY <1>1, <1>2, <1>3, <1>4
  DEF Stream, Delivered, Buffered, Arriving, Payload, Passed, Turns, Counts, Quiet, Flowing

\* The server answers: its bytes are not payload.
LEMMA AnswerStep == ASSUME RelayInv, TypeOK', Answer, NEW e \in End PROVE Stream(e)'
<1> DEFINE o == Other(e)
<1>1. Stream(e) /\ o \in End
  BY OtherEnd DEF RelayInv
<1>2. /\ UNCHANGED <<sent, got, closed, eof, broken, outq, shut, stage, fds, ready, chunk,
                     size, counted>>
      /\ stage \in Reading
  BY DEF Answer, loopVars, streamVars, Reading
<1>3. e = "client" => inq'[e] = inq[e]
  BY ZenonT(30) DEF Answer, Answered, RelayInv, TypeOK
<1>4. /\ Base(e)' = Base(e) /\ Held(e)' = Held(e) /\ (Writing(e)' <=> Writing(e))
      /\ e # "client" => ~Flowing(e)
  BY <1>2 DEF Base, Held, Writing, Source, Flowing, Relaying, Reading
<1> QED
  BY <1>1, <1>2, <1>3, <1>4
  DEF Stream, Delivered, Buffered, Arriving, Payload, Passed, Turns, Counts, Quiet, Flowing,
      Reading

\* recv() moves bytes into the buffer, which was empty.
LEMMA ReceiveStep ==
  ASSUME RelayInv, TypeOK', NEW k \in 1 .. BufferSize, Receive(k), NEW e \in End
  PROVE  Stream(e)'
<1> DEFINE o == Other(e)
<1>1. Stream(e) /\ o \in End /\ Flows /\ Flows'
  BY OtherEnd, TypesFlow DEF RelayInv
<1>2. /\ UNCHANGED <<sent, got, closed, eof, broken, outq, shut, fds, ready, counted>>
      /\ stage = "turn" /\ stage' = "write" /\ ready # {} /\ size' = k
  BY DEF Receive, streamVars
<1>3. Source \in End /\ Source \in ready /\ Source' = Source /\ k \in 1 .. Len(inq[Source])
  <2>1. Source \in End /\ Source \in ready /\ Source' = Source
    BY <1>2 DEF Source, End, RelayInv, TypeOK
  <2>2. inq[Source] \in Seq(Int) /\ k <= Len(inq[Source])
    BY <1>1, <2>1 DEF Flows, Receive
  <2> QED
    BY <2>1, <2>2
<1>4. Base(e)' = Base(e) /\ ~Writing(e) /\ Held(e) = 0 /\ (Writing(e)' <=> e = Source)
  BY <1>2, <1>3 DEF Base, Held, Writing
<1>5. Base(e) \in Nat /\ counted[e] \in Nat
  BY <1>1, Quantities
<1>6. (Flowing(e)' <=> Flowing(e)) /\ Flowing(e) /\ stage \in Relaying /\ stage' \in Relaying
  BY <1>2 DEF Flowing, Relaying
<1>7. CASE e = Source
  <2> DEFINE s == sent[e]
             n == Base(e)
             t == inq[e]
  <2>1. /\ s \in Seq(Int) /\ n \in Nat /\ t \in Seq(Int) /\ k \in 0 .. Len(t) /\ Len(s) \in Nat
        /\ chunk' = SubSeq(t, 1, k) /\ inq'[e] = SubSeq(t, k + 1, Len(t))
    <3>1. s \in Seq(Int) /\ n \in Nat /\ t \in Seq(Int)
      BY <1>1, <1>5 DEF Flows
    <3>2. chunk' = SubSeq(t, 1, k) /\ inq'[e] = SubSeq(t, k + 1, Len(t))
      BY <1>1, <1>7 DEF Receive, Flows
    <3>3. k \in 0 .. Len(t)
      BY <1>3, <1>7
    <3> QED
      BY <3>1, <3>2, <3>3
  <2> HIDE DEF s, n, t
  <2>2. /\ SubSeq(t, 1, k) \in Seq(Int) /\ Len(SubSeq(t, 1, k)) = k
        /\ Len(SubSeq(t, k + 1, Len(t))) = Len(t) - k
    BY <2>1, Parts
  <2>3. Len(chunk') = k /\ Len(inq'[e]) = Len(t) - k /\ Held(e)' = k
    BY <1>4, <1>7, <2>1, <2>2 DEF Held
  <2>4. ASSUME At(s, n, t)
        PROVE  At(s, n, chunk') /\ At(s, n + k, inq'[e])
    <3>1. At(s, n, SubSeq(t, 1, k))
      BY <2>1, <2>4, AtPrefix
    <3>2. At(s, n + k, SubSeq(t, k + 1, Len(t)))
      BY <2>1, <2>4, AtSuffix
    <3> QED
      BY <2>1, <3>1, <3>2, Zenon
  <2>5. closed[o] # "reset" =>
          /\ At(s, n, chunk') /\ At(s, n + k, inq'[e])
          /\ closed[e] # "reset" => n + k + (Len(t) - k) = Len(s)
    <3>1. ASSUME closed[o] # "reset"
          PROVE  At(s, n, t) /\ (closed[e] # "reset" => n + Len(t) = Len(s))
      <4>1. Base(e) + Held(e) = Base(e)
        BY <1>4, <1>5
      <4> QED
        BY <1>1, <1>6, <3>1, <4>1 DEF Stream, Arriving, s, n, t
    <3>2. Len(t) \in Nat
      BY <2>1
    <3>3. n + k + (Len(t) - k) = n + Len(t)
      BY <2>1, <3>2
    <3> QED
      BY <2>4, <3>1, <3>3
  <2>6. Delivered(e)' /\ Passed(e)' /\ Turns(e)' /\ Quiet(e)'
    BY <1>1, <1>2, <1>3, <1>4, <1>7
    DEF Stream, Delivered, Passed, Turns, Quiet, Handshaking, Reading
  <2>7. Buffered(e)' /\ Arriving(e)'
    BY <1>2, <1>4, <2>3, <2>5 DEF Buffered, Arriving, s, n
  <2>8. Payload(e)'
    <3>1. t \in Seq(Byte)
      BY <1>1, <1>6 DEF Stream, Payload, t
    <3> QED
      BY <2>1, <3>1, Parts DEF Payload
  <2>9. Counts(e)'
    BY <1>1, <1>2, <1>4, <1>5, <1>6, <1>7, <2>1, <2>3 DEF Stream, Counts
  <2> QED
    BY <2>6, <2>7, <2>8, <2>9 DEF Stream
<1>8. CASE e # Source
  <2>1. inq'[e] = inq[e]
    BY <1>3, <1>8 DEF Receive, RelayInv, TypeOK
  <2>2. Held(e)' = 0 /\ ~Writing(e)'
    BY <1>4, <1>8 DEF Held
  <2> QED
    BY <1>1, <1>2, <1>3, <1>4, <1>6, <1>8, <2>1, <2>2
    DEF Stream, Delivered, Buffered, Arriving, Payload, Passed, Turns, Counts, Quiet,
        Handshaking, Reading
<1> QED
  BY <1>7, <1>8

\* recv() finds the end of the stream: all of it has been passed on.
LEMMA ReceiveEndStep ==
  ASSUME RelayInv, TypeOK', ReceiveEnd, NEW e \in End PROVE Stream(e)'
<1> DEFINE o == Other(e)
<1>1. Stream(e) /\ o \in End /\ o # e /\ Flows /\ Flows' /\ \A f \in End : f # e => Other(f) # o
  BY OtherEnd, TypesFlow DEF RelayInv
<1>2. /\ UNCHANGED <<sent, got, closed, eof, broken, inq, outq, stage, chunk, size, counted>>
      /\ stage = "turn" /\ ready # {} /\ inq[Source] = <<>>
      /\ fds' = fds \ {Source} /\ ready' = ready \ {Source}
  BY DEF ReceiveEnd, streamVars
<1>3. Source \in End /\ Source \in ready
  BY <1>2 DEF Source, End, RelayInv, TypeOK
<1>4. /\ Base(e)' = Base(e) /\ Held(e)' = 0 /\ Held(e) = 0 /\ ~Writing(e) /\ ~Writing(e)'
      /\ Base(e) \in Nat /\ Len(sent[e]) \in Nat
  BY <1>1, <1>2, Quantities DEF Base, Held, Writing
<1>5. CASE e = Source
  <2>1. shut'[o] = TRUE /\ e \notin fds'
    BY <1>1, <1>2, <1>5 DEF ReceiveEnd, RelayInv, TypeOK
  <2>2. ~broken => closed[e] # "open" /\ Base(e) = Len(sent[e])
    <3>1. ASSUME ~broken
          PROVE  closed[e] # "open" /\ closed[e] # "reset" /\ closed[o] # "reset"
      BY <1>1, <1>2, <1>3, <1>4, <1>5, <3>1 DEF Stream, Turns, Passed, RelayInv
    <3>2. ASSUME ~broken PROVE Base(e) + Held(e) + Len(inq[e]) = Len(sent[e])
      BY <1>1, <1>2, <3>1, <3>2 DEF Stream, Arriving, Flowing, Relaying
    <3>3. Len(inq[e]) = 0
      BY <1>2, <1>5
    <3> QED
      BY <1>4, <3>1, <3>2, <3>3
  <2> QED
    BY <1>1, <1>2, <1>3, <1>4, <1>5, <2>1, <2>2
    DEF Stream, Delivered, Buffered, Arriving, Payload, Flowing, Passed, Turns, Counts, Quiet,
        Handshaking, Reading
<1>6. CASE e # Source
  <2>1. shut'[o] = shut[o] /\ (e \in fds' <=> e \in fds) /\ (e \in ready' <=> e \in ready)
    BY <1>1, <1>2, <1>3, <1>6 DEF ReceiveEnd, RelayInv, TypeOK
  <2> QED
    BY <1>1, <1>2, <1>3, <1>4, <1>6, <2>1
    DEF Stream, Delivered, Buffered, Arriving, Payload, Flowing, Passed, Turns, Counts, Quiet,
        Handshaking, Reading
<1> QED
  BY <1>5, <1>6

\* fp_stats_add, once the buffer is empty.
LEMMA CountStep == ASSUME RelayInv, TypeOK', Count, NEW e \in End PROVE Stream(e)'
<1> DEFINE o == Other(e)
<1>1. Stream(e) /\ o \in End /\ Flows /\ Flows'
  BY OtherEnd, TypesFlow DEF RelayInv
<1>2. /\ UNCHANGED <<sent, got, closed, eof, broken, inq, outq, shut, fds, chunk>>
      /\ stage = "write" /\ stage' = "turn" /\ chunk = <<>> /\ ready' = ready \ {Source}
  BY DEF Count, streamVars
<1>3. Source \in End /\ Len(chunk) = 0
  BY <1>2, SourceOpen
<1>4. /\ Base(e)' = Base(e) /\ Held(e)' = 0 /\ Held(e) = 0 /\ ~Writing(e)'
      /\ (Writing(e) <=> e = Source)
      /\ Base(e) \in Nat /\ counted[e] \in Nat /\ size \in Nat
  BY <1>1, <1>2, <1>3, Quantities DEF Base, Held, Writing
<1>5. (Flowing(e)' <=> Flowing(e)) /\ stage \in Relaying /\ stage' \in Relaying
  BY <1>2 DEF Flowing, Relaying
<1>6. counted'[e] = counted[e] + (IF Writing(e) THEN size ELSE 0)
  <2>1. counted' = [counted EXCEPT ![Source] = @ + size] /\ counted \in [End -> Nat]
    BY <1>1 DEF Count, Flows
  <2>2. CASE e = Source
    BY <1>4, <2>1, <2>2
  <2>3. CASE e # Source
    BY <1>4, <2>1, <2>3
  <2> QED
    BY <2>2, <2>3
<1>7. Counts(e)'
  BY <1>1, <1>2, <1>4, <1>5, <1>6 DEF Stream, Counts
<1>8. Turns(e)' /\ Quiet(e)' /\ Passed(e)'
  BY <1>1, <1>2, <1>4 DEF Stream, Turns, Quiet, Passed, Handshaking, Reading
<1> QED
  BY <1>1, <1>2, <1>4, <1>5, <1>7, <1>8
  DEF Stream, Delivered, Buffered, Arriving, Payload

\* When both streams have ended and nothing broke, every byte was passed on and counted.
LEMMA EndedClean ==
  ASSUME RelayInv, stage = "ended", ~broken, NEW e \in End
  PROVE  /\ inq[e] = <<>> /\ shut[Other(e)] /\ closed[e] # "open"
         /\ Base(e) = Len(sent[e]) /\ counted[e] = Base(e)
<1>1. Stream(e) /\ Stream(Other(e)) /\ Flows /\ Other(e) \in End
  BY OtherEnd, TypesFlow DEF RelayInv
<1>2. shut[Other(e)] /\ closed[e] # "open" /\ Base(e) = Len(sent[e])
  BY <1>1 DEF Stream, Turns, Passed
<1>3. closed[e] # "reset" /\ closed[Other(e)] # "reset" /\ Held(e) = 0 /\ ~Writing(e)
  BY <1>1 DEF Stream, Passed, Held, Writing
<1>4. /\ Base(e) + Held(e) + Len(inq[e]) = Len(sent[e]) /\ counted[e] + 0 = Base(e) + Held(e)
      /\ Base(e) \in Nat /\ counted[e] \in Nat /\ Len(inq[e]) \in Nat /\ inq[e] \in Seq(Int)
  BY <1>1, <1>3, Quantities DEF Stream, Arriving, Counts, Flowing, Relaying
<1>5. Len(inq[e]) = 0
  BY <1>1, <1>2, <1>3, <1>4 DEF Flows
<1> QED
  BY <1>2, <1>3, <1>4, <1>5

\* The sockets are closed: by then all was passed on, or the connection is broken.
LEMMA HangupStep ==
  ASSUME RelayInv, TypeOK', NEW failed \in BOOLEAN, Hangup(failed), failed \/ stage = "ended",
         NEW e \in End
  PROVE  Stream(e)'
<1> DEFINE o == Other(e)
<1>1. Stream(e) /\ o \in End /\ Flows /\ Flows'
  BY OtherEnd, TypesFlow DEF RelayInv
<1>2. /\ UNCHANGED <<sent, got, closed, eof, fds, ready, counted>> /\ stage' = "done"
      /\ shut'[o] = TRUE /\ inq'[e] = <<>>
      /\ broken' = (broken \/ failed)
      /\ outq'[o] = IF inq[o] = <<>> THEN outq[o] ELSE <<>>
  BY <1>1 DEF Hangup, loopVars
<1>3. ~Writing(e)' /\ ~Flowing(e)' /\ stage' \notin Relaying \cup Handshaking
  BY <1>2 DEF Writing, Flowing, Relaying, Handshaking, Reading
<1>4. At(sent[e], 0, got[o]) /\ At(sent[e], Len(got[o]), outq[o])
  BY <1>1 DEF Stream, Delivered
<1>5. At(sent[e], Len(got[o]), <<>>)
  <2>1. sent[e] \in Seq(Int) /\ Len(got[o]) \in 0 .. Len(sent[e])
    BY <1>1, <1>4 DEF At, Flows
  <2> QED
    BY <2>1, AtEmpty
<1>6. Delivered(e)'
  BY <1>2, <1>4, <1>5 DEF Delivered
<1>7. ASSUME ~broken'
      PROVE  /\ ~broken /\ Base(e)' = Base(e) /\ closed[e] # "open"
             /\ Base(e) = Len(sent[e]) /\ counted[e] = Base(e)
  <2>1. ~broken /\ stage = "ended"
    BY <1>2, <1>7
  <2>2. inq[o] = <<>>
    BY <1>1, <2>1, EndedClean
  <2>3. Base(e)' = Base(e)
    BY <1>2, <2>2 DEF Base
  <2> QED
    BY <2>1, <2>3, EndedClean
<1>8. Base(e) \in Nat
  BY <1>1, Quantities
<1>9. Passed(e)' /\ Counts(e)'
  BY <1>1, <1>2, <1>3, <1>7, <1>8 DEF Stream, Passed, Counts
<1> QED
  BY <1>2, <1>3, <1>6, <1>9 DEF Stream, Buffered, Arriving, Payload, Turns, Quiet

\* An end sends a byte: it arrives behind those before it.
LEMMA SendStep ==
  ASSUME RelayInv, TypeOK', NEW f \in End, Send(f), NEW e \in End PROVE Stream(e)'
<1> DEFINE o == Other(e)
<1>1. Stream(e) /\ o \in End /\ Flows /\ Flows'
  BY OtherEnd, TypesFlow DEF RelayInv
<1>2. /\ UNCHANGED <<got, closed, eof, broken, outq, shut, stage, fds, ready, chunk, size, counted>>
      /\ closed[f] = "open"
  BY DEF Send, loopVars
<1>3. PICK b \in Byte :
        /\ sent' = [sent EXCEPT ![f] = Append(@, b)]
        /\ inq' = IF stage = "done" THEN inq ELSE [inq EXCEPT ![f] = Append(@, b)]
  BY DEF Send
<1>4. /\ Base(e)' = Base(e) /\ Held(e)' = Held(e) /\ (Writing(e)' <=> Writing(e))
      /\ (Flowing(e)' <=> Flowing(e))
  BY <1>2 DEF Base, Held, Writing, Source, Flowing
<1>5. CASE e = f
  <2> DEFINE s == sent[e]
             t == inq[e]
  <2>1. /\ s \in Seq(Int) /\ t \in Seq(Int) /\ b \in Int /\ sent'[e] = Append(s, b)
        /\ stage # "done" => inq'[e] = Append(t, b)
    <3>1. b \in Int
      BY RelayAssumption
    <3> QED
      BY <1>1, <1>3, <1>5, <3>1 DEF Flows
  <2>2. /\ Base(e) \in Nat /\ Held(e) \in Nat /\ got[o] \in Seq(Int) /\ outq[o] \in Seq(Int)
        /\ chunk \in Seq(Int) /\ Len(got[o]) \in Nat /\ Base(e) + Held(e) \in Nat
    BY <1>1, Quantities
  <2>3. closed[e] = "open" /\ (broken \/ ~shut[o])
    BY <1>1, <1>2, <1>5 DEF Stream, Passed
  <2>4. At(s, 0, got[o]) /\ At(s, Len(got[o]), outq[o])
    BY <1>1 DEF Stream, Delivered
  <2>5. Writing(e) /\ closed[o] # "reset" => At(s, Base(e), chunk)
    BY <1>1 DEF Stream, Buffered
  <2>6. Flowing(e) /\ closed[o] # "reset" =>
          /\ At(s, Base(e) + Held(e), t) /\ Base(e) + Held(e) + Len(t) = Len(s)
    BY <1>1, <2>3 DEF Stream, Arriving
  <2> HIDE DEF s, t
  <2>7. At(Append(s, b), 0, got[o]) /\ At(Append(s, b), Len(got[o]), outq[o])
    BY <2>1, <2>2, <2>4, AtGrows
  <2>8. Delivered(e)'
    BY <1>2, <2>1, <2>7 DEF Delivered
  <2>9. Writing(e) /\ closed[o] # "reset" => At(Append(s, b), Base(e), chunk)
    BY <2>1, <2>2, <2>5, AtGrows
  <2>10. Buffered(e)'
    BY <1>2, <1>4, <2>1, <2>9 DEF Buffered
  <2>11. Flowing(e) => stage # "done"
    BY DEF Flowing, Relaying, Handshaking, Reading
  <2>12. Flowing(e) /\ closed[o] # "reset" =>
           /\ At(Append(s, b), Base(e) + Held(e), Append(t, b))
           /\ Base(e) + Held(e) + Len(Append(t, b)) = Len(Append(s, b))
    <3>1. Len(Append(t, b)) = Len(t) + 1 /\ Len(Append(s, b)) = Len(s) + 1 /\ Len(t) \in Nat
      BY <2>1
    <3> QED
      BY <2>1, <2>2, <2>6, <3>1, AtSends
  <2>13. Arriving(e)'
    BY <1>2, <1>4, <2>1, <2>11, <2>12 DEF Arriving
  <2>14. Payload(e)'
    <3>1. Flowing(e) => t \in Seq(Byte)
      BY <1>1 DEF Stream, Payload, t
    <3>2. t \in Seq(Byte) => Append(t, b) \in Seq(Byte)
      OBVIOUS
    <3> QED
      BY <1>4, <2>1, <2>11, <3>1, <3>2 DEF Payload
  <2>15. Passed(e)' /\ Counts(e)' /\ Quiet(e)'
    BY <1>1, <1>2, <1>4, <2>3 DEF Stream, Passed, Counts, Quiet
  <2>16. Turns(e)'
    <3>1. stage # "done" => inq'[e] # <<>>
      BY <2>1
    <3> QED
      BY <1>1, <1>2, <1>4, <3>1 DEF Stream, Turns
  <2> QED
    BY <2>8, <2>10, <2>13, <2>14, <2>15, <2>16 DEF Stream
<1>6. CASE e # f
  <2>1. sent'[e] = sent[e] /\ inq'[e] = inq[e]
    BY <1>1, <1>3, <1>6 DEF Flows
  <2> QED
    BY <1>1, <1>2, <1>4, <2>1
    DEF Stream, Delivered, Buffered, Arriving, Payload, Passed, Turns, Counts, Quiet
<1> QED
  BY <1>5, <1>6

\* An end resets the connection: what it sent may be cut short, and what was on its way
\* to it is lost.
LEMMA ResetStep ==
  ASSUME RelayInv, TypeOK', NEW f \in End, Reset(f), NEW e \in End PROVE Stream(e)'
<1> DEFINE o == Other(e)
<1>1. Stream(e) /\ o \in End /\ o # e /\ (f = e \/ f = o) /\ Flows /\ Flows'
  BY OtherEnd, TypesFlow DEF RelayInv
<1>2. /\ UNCHANGED <<sent, got, eof, shut, stage, fds, ready, chunk, size, counted>>
      /\ broken' = TRUE /\ outq' = [outq EXCEPT ![f] = <<>>]
      /\ closed' = [closed EXCEPT ![f] = "reset"]
  BY DEF Reset, loopVars
<1>3. PICK n \in 0 .. Len(inq[f]) : inq' = [inq EXCEPT ![f] = SubSeq(@, 1, n)]
  BY DEF Reset
<1>4. (Writing(e)' <=> Writing(e)) /\ (Flowing(e)' <=> Flowing(e)) /\ Held(e)' = Held(e)
  BY <1>2 DEF Held, Writing, Source, Flowing
<1>5. closed \in [End -> {"open", "fin", "reset"}]
  BY DEF RelayInv, TypeOK
<1>6. Counts(e)'
  BY <1>2 DEF Counts
<1>7. CASE f = e
  <2> DEFINE s == sent[e]
             t == inq[e]
  <2>1. /\ outq'[o] = outq[o] /\ closed'[e] = "reset" /\ closed'[o] = closed[o]
        /\ inq'[e] = SubSeq(t, 1, n) /\ outq'[e] = <<>>
    BY <1>1, <1>2, <1>3, <1>5, <1>7 DEF Flows
  <2>2. Base(e)' = Base(e)
    BY <1>2, <2>1 DEF Base
  <2>3. s \in Seq(Int) /\ t \in Seq(Int) /\ Base(e) + Held(e) \in Nat /\ n \in 0 .. Len(t)
    BY <1>1, <1>3, <1>7, Quantities
  <2>4. Flowing(e) /\ closed[o] # "reset" => At(s, Base(e) + Held(e), t)
    BY <1>1 DEF Stream, Arriving
  <2>5. Flowing(e) => t \in Seq(Byte)
    BY <1>1 DEF Stream, Payload
  <2> HIDE DEF s, t
  <2>6. Flowing(e) /\ closed[o] # "reset" => At(s, Base(e) + Held(e), SubSeq(t, 1, n))
    BY <2>3, <2>4, AtPrefix
  <2>7. t \in Seq(Byte) => SubSeq(t, 1, n) \in Seq(Byte)
    BY <2>3, Parts
  <2>8. Arriving(e)' /\ Payload(e)'
    BY <1>2, <1>4, <2>1, <2>2, <2>5, <2>6, <2>7 DEF Arriving, Payload, s
  <2>9. Delivered(e)' /\ Buffered(e)' /\ Passed(e)' /\ Turns(e)' /\ Quiet(e)'
    BY <1>1, <1>2, <1>4, <2>1, <2>2 DEF Stream, Delivered, Buffered, Passed, Turns, Quiet
  <2> QED
    BY <1>6, <2>8, <2>9 DEF Stream
<1>8. CASE f = o
  <2>1. /\ outq'[o] = <<>> /\ closed'[o] = "reset" /\ closed'[e] = closed[e]
        /\ inq'[e] = inq[e] /\ outq'[e] = outq[e]
    BY <1>1, <1>2, <1>3, <1>5, <1>8 DEF Flows
  <2>2. At(sent[e], 0, got[o])
    BY <1>1 DEF Stream, Delivered
  <2>3. At(sent[e], Len(got[o]), <<>>)
    <3>1. sent[e] \in Seq(Int) /\ Len(got[o]) \in 0 .. Len(sent[e])
      BY <1>1, <2>2 DEF At, Flows
    <3> QED
      BY <3>1, AtEmpty
  <2>4. Delivered(e)' /\ Buffered(e)' /\ Arriving(e)'
    BY <1>2, <2>1, <2>2, <2>3 DEF Delivered, Buffered, Arriving
  <2>5. Payload(e)' /\ Passed(e)' /\ Turns(e)' /\ Quiet(e)'
    BY <1>1, <1>2, <1>4, <2>1 DEF Stream, Payload, Passed, Turns, Quiet
  <2> QED
    BY <1>6, <2>4, <2>5 DEF Stream
<1> QED
  BY <1>1, <1>7, <1>8

\* An end reads the next byte from its socket.
LEMMA ReadByteStep ==
  ASSUME RelayInv, TypeOK', NEW f \in End, ReadByte(f), NEW e \in End PROVE Stream(e)'
<1> DEFINE o == Other(e)
<1>1. Stream(e) /\ Stream(f) /\ o \in End /\ o # e /\ (f = e \/ f = o) /\ Flows /\ Flows'
  BY OtherEnd, TypesFlow DEF RelayInv
<1>2. /\ UNCHANGED <<sent, closed, eof, broken, inq, shut, stage, fds, ready, chunk, size, counted>>
      /\ outq[f] # <<>> /\ got' = [got EXCEPT ![f] = Append(@, Head(outq[f]))]
      /\ outq' = [outq EXCEPT ![f] = Tail(@)]
  BY DEF ReadByte, loopVars
<1>3. (Writing(e)' <=> Writing(e)) /\ (Flowing(e)' <=> Flowing(e)) /\ Held(e)' = Held(e)
  BY <1>2 DEF Held, Writing, Source, Flowing
<1>4. stage \notin Handshaking
  BY <1>1, <1>2 DEF Stream, Quiet
<1>5. Quiet(e)'
  BY <1>2, <1>4 DEF Quiet
<1>6. CASE f = e
  <2>1. got'[o] = got[o] /\ outq'[o] = outq[o]
    BY <1>1, <1>2, <1>6 DEF Flows
  <2>2. Base(e)' = Base(e)
    BY <2>1 DEF Base
  <2> QED
    BY <1>1, <1>2, <1>3, <1>5, <2>1, <2>2, ZenonT(30)
    DEF Stream, Delivered, Buffered, Arriving, Payload, Passed, Turns, Counts
<1>7. CASE f = o
  <2> DEFINE s == sent[e]
             t == got[o]
             u == outq[o]
  <2>1. /\ s \in Seq(Int) /\ t \in Seq(Int) /\ u \in Seq(Int) /\ u # <<>> /\ 0 \in Nat
        /\ got'[o] = Append(t, Head(u)) /\ outq'[o] = Tail(u)
    BY <1>1, <1>2, <1>7 DEF Flows
  <2>2. At(s, 0, t) /\ At(s, Len(t), u) /\ Base(e) = Len(t) + Len(u) /\ ~eof[o]
    BY <1>1, <1>2, <1>7 DEF Stream, Delivered, Base, Passed
  <2> HIDE DEF s, t, u
  <2>3. 0 + Len(t) = Len(t) /\ 0 + Len(t) + 1 = Len(t) + 1 /\ Len(t) \in Nat /\ Len(u) \in Nat
    BY <2>1
  <2>4. At(s, 0 + Len(t), u)
    BY <2>2, <2>3
  <2>5. /\ At(s, 0, Append(t, Head(u))) /\ At(s, 0 + Len(t) + 1, Tail(u))
        /\ Len(Append(t, Head(u))) = Len(t) + 1 /\ Len(Tail(u)) = Len(u) - 1
    BY <2>1, <2>2, <2>4, AtMoves, SMT
  <2>6. /\ At(s, 0, got'[o]) /\ At(s, Len(got'[o]), outq'[o])
        /\ Len(got'[o]) = Len(t) + 1 /\ Len(outq'[o]) = Len(u) - 1
    BY <2>1, <2>3, <2>5, Zenon
  <2>7. Base(e)' = Base(e)
    <3>1. Base(e)' = Len(got'[o]) + Len(outq'[o])
      BY DEF Base
    <3>2. (Len(t) + 1) + (Len(u) - 1) = Len(t) + Len(u)
      BY <2>3
    <3> QED
      BY <2>2, <2>6, <3>1, <3>2, Zenon
  <2>8. Delivered(e)'
    BY <1>2, <2>6 DEF Delivered, s
  <2> QED
    BY <1>1, <1>2, <1>3, <1>5, <2>2, <2>7, <2>8
    DEF Stream, Buffered, Arriving, Payload, Passed, Turns, Counts
<1> QED
  BY <1>1, <1>6, <1>7

\* recv() takes bytes of the answer; the last one of the bound address leaves the payload.
LEMMA ReadStep ==
  ASSUME RelayInv, TypeOK', NEW k \in 1 .. need, Read(k), NEW e \in End PROVE Stream(e)'
<1> DEFINE o == Other(e)
<1>1. Stream(e) /\ Stream(o) /\ o \in End /\ Flows /\ Flows' /\ Answers
  BY OtherEnd, TypesFlow DEF RelayInv
<1>2. /\ UNCHANGED <<sent, got, closed, eof, broken, outq, shut, fds, ready, chunk, size, counted>>
      /\ stage \in Reading /\ k <= Len(inq["server"]) /\ k <= need
      /\ inq' = [inq EXCEPT !["server"] = SubSeq(@, k + 1, Len(@))]
  BY DEF Read, loopVars, streamVars
<1>3. /\ stage' \in Reading \cup {"poll", "failed"}
      /\ stage' = "poll" => stage = "address" /\ k = need
  <2>1. CASE k < need
    BY <1>2, <2>1 DEF Read, Reading
  <2>2. CASE ~(k < need)
    <3>1. k = need
      BY <1>1, <1>2, <2>2 DEF Flows
    <3>2. PICK bytes : stage' = AfterRead(stage, bytes).stage
      BY <2>2 DEF Read
    <3> QED
      BY <1>2, <3>1, <3>2, AfterReadIs DEF Reading
  <2> QED
    BY <2>1, <2>2
<1>4. /\ Base(e)' = Base(e) /\ ~Writing(e) /\ ~Writing(e)' /\ Held(e) = 0 /\ Held(e)' = 0
  BY <1>2, <1>3 DEF Base, Writing, Held, Reading
<1>5. /\ got[o] = <<>> /\ outq[o] = <<>> /\ ~shut[o] /\ counted[e] = 0 /\ e \in fds
      /\ Base(e) = 0
  <2>1. /\ got[o] = <<>> /\ outq[o] = <<>> /\ ~shut[o] /\ counted[e] = 0 /\ e \in fds
    BY <1>1, <1>2 DEF Stream, Quiet, Handshaking
  <2>2. Base(e) = Len(<<>>) + Len(<<>>)
    BY <2>1 DEF Base
  <2> QED
    BY <2>1, <2>2
<1>6. Delivered(e)' /\ Buffered(e)' /\ Passed(e)' /\ Turns(e)'
  BY <1>1, <1>2, <1>3, <1>4, <1>5 DEF Stream, Delivered, Buffered, Passed, Turns, Reading
<1>7. Counts(e)' /\ Quiet(e)'
  BY <1>1, <1>2, <1>3, <1>4, <1>5 DEF Stream, Counts, Quiet, Reading, Handshaking
<1>8. Arriving(e)' /\ Payload(e)'
  <2>1. CASE e = "client"
    <3>1. inq'[e] = inq[e] /\ Flowing(e)
      BY <1>1, <1>2, <2>1 DEF Flows, Flowing, Handshaking
    <3> QED
      BY <1>1, <1>2, <1>4, <3>1 DEF Stream, Arriving, Payload
  <2>2. CASE e = "server" /\ stage' = "poll"
    <3>1. PICK a \in Grant : need <= Len(a) /\ Reached(a, Len(a) - need)
      BY <1>1, <1>3, <2>2 DEF Answers, Addressed
    <3> DEFINE s == sent["server"]
               q == inq["server"]
               n == Len(a) - need
    <3>2. /\ a \in Seq(Int) /\ s \in Seq(Int) /\ q \in Seq(Int) /\ s \in Seq(Byte)
          /\ inq'["server"] = SubSeq(q, k + 1, Len(q)) /\ k = need /\ read = <<>>
      <4>1. a \in Seq(Int)
        BY GrantForms, ByteSeq, Zenon
      <4>2. "server" \in End
        BY DEF End
      <4> QED
        BY <1>1, <1>2, <1>3, <2>2, <4>1, <4>2 DEF Flows, RelayInv, TypeOK, Answers, Addressed
    <3>3. /\ n \in Nat /\ k \in 0 .. Len(q) /\ n + k = Len(a) /\ Len(a) \in Nat
          /\ Len(s) \in Nat /\ Len(q) \in Nat
      <4>1. Len(a) \in Nat /\ Len(s) \in Nat /\ Len(q) \in Nat
        BY <3>2
      <4>2. k \in Nat /\ k <= Len(q)
        BY <1>1, <1>2 DEF Flows
      <4> QED
        BY <3>1, <3>2, <4>1, <4>2
    <3>4. /\ At(a \o s, n, q)
          /\ closed["server"] # "reset" => n + Len(q) = Len(a) + Len(s)
      <4>1. Len(read) = 0 /\ n + Len(read) = n
        BY <3>2, <3>3
      <4> QED
        BY <3>1, <4>1 DEF Reached
    <3> HIDE DEF s, q, n
    <3>5. a \o s \in Seq(Int)
      BY <3>2, Joined, Zenon
    <3> DEFINE r == a \o s
    <3>6. r \in Seq(Int) /\ At(r, n, q)
      BY <3>4, <3>5
    <3> HIDE DEF r
    <3>7. At(r, n + k, SubSeq(q, k + 1, Len(q))) /\ Len(SubSeq(q, k + 1, Len(q))) = Len(q) - k
      BY <3>2, <3>3, <3>6, AtSuffix
    <3> DEFINE t == SubSeq(q, k + 1, Len(q))
    <3>8. t \in Seq(Int)
      BY <3>2, <3>3, Parts, Zenon
    <3>9. At(a \o s, Len(a), t)
      BY <3>3, <3>7 DEF r
    <3>10. Len(t) = Len(q) - k
      BY <3>7
    <3> HIDE DEF t
    <3>11. At(s, 0, t)
      BY <3>2, <3>8, <3>9, AtPayload, Zenon
    <3>12. t \in Seq(Byte)
      <4>1. Byte \subseteq Int
        BY RelayAssumption
      <4> QED
        BY <3>2, <3>8, <3>11, <4>1, AtOver, Zenon
    <3>13. closed["server"] # "reset" => 0 + 0 + Len(t) = Len(s)
      BY <3>3, <3>4, <3>10
    <3>14. inq'["server"] = t /\ sent' = sent /\ closed' = closed
      BY <1>2, <3>2 DEF t
    <3>15. Base(e)' + Held(e)' = 0
      BY <1>4, <1>5
    <3>16. At(sent'["server"], Base(e)' + Held(e)', inq'["server"])
      BY <3>11, <3>14, <3>15, Zenon DEF s
    <3>17. closed["server"] # "reset" => Base(e)' + Held(e)' + Len(inq'["server"]) = Len(s)
      BY <1>4, <1>5, <3>13, <3>14
    <3> QED
      BY <2>2, <3>12, <3>14, <3>16, <3>17 DEF Arriving, Payload, s
  <2>3. CASE e = "server" /\ stage' # "poll"
    <3>1. ~Flowing(e)'
      BY <1>3, <2>3 DEF Flowing, Relaying, Reading
    <3> QED
      BY <3>1 DEF Arriving, Payload
  <2> QED
    BY <2>1, <2>2, <2>3 DEF End
<1> QED
  BY <1>6, <1>7, <1>8 DEF Stream

-----------------------------------------------------------------------------
(* The handshake.                                                            *)

\* What the server can answer, and that no refusal and no malformed answer reads as one
\* that grants the request.
LEMMA AnswerForms ==
  /\ \A a \in Grant \cup Refusal \cup Malformed : a \in Seq(Int)
  /\ \A a \in Refusal : ~(Len(a) >= 2 /\ a[1] = 5 /\ a[2] = 0) /\ a \notin Grant
  /\ \A a \in Malformed : /\ Len(a) = 4 /\ a \notin Grant
                          /\ ~(a[3] = 0 /\ a[4] \in {1, 3, 4})
<1>1. ASSUME NEW a \in Malformed
      PROVE  a \in Seq(Int) /\ Len(a) = 4 /\ ~(a[3] = 0 /\ a[4] \in {1, 3, 4})
  <2>1. CASE a = <<5, 0, 1, 1>>
    BY <2>1
  <2>2. CASE a = <<5, 0, 0, 9>>
    BY <2>2
  <2> QED
    BY <2>1, <2>2 DEF Malformed
<1>2. \A a \in Grant : /\ a \in Seq(0 .. 255) /\ Len(a) >= 5 /\ a[1] = 5 /\ a[2] = 0
                       /\ a[3] = 0 /\ a[4] \in {1, 3, 4}
  BY GrantForms
<1>3. \A a \in Malformed : a \notin Grant
  BY <1>1, <1>2, Zenon
<1>4. ASSUME NEW a \in Refusal
      PROVE  a \in Seq(0 .. 255) /\ ~(Len(a) >= 2 /\ a[1] = 5 /\ a[2] = 0)
  BY RelayAssumption
<1>5. ASSUME NEW a \in Refusal PROVE a \notin Grant
  <2>1. SUFFICES ASSUME a \in Grant PROVE FALSE
    OBVIOUS
  <2>2. Len(a) \in Nat /\ Len(a) >= 5 /\ a[1] = 5 /\ a[2] = 0
    BY <1>2, <2>1
  <2>3. Len(a) >= 2
    BY <2>2
  <2> QED
    BY <1>4, <2>2, <2>3, Zenon
<1>6. \A a \in Grant \cup Refusal \cup Malformed : a \in Seq(Int)
  BY <1>1, <1>2, <1>4, ByteSeq, Zenon
<1> QED
  BY <1>1, <1>3, <1>4, <1>5, <1>6, Zenon

\* The sequences of the handshake.
LEMMA ServerFlow ==
  ASSUME Flows, NEW a \in Seq(Int)
  PROVE  /\ "server" \in End /\ sent["server"] \in Seq(Int) /\ inq["server"] \in Seq(Int)
         /\ read \in Seq(Int) /\ Len(read) \in Nat /\ Len(inq["server"]) \in Nat
         /\ Len(a) \in Nat /\ Len(sent["server"]) \in Nat
         /\ a \o sent["server"] \in Seq(Int)
         /\ Len(a \o sent["server"]) = Len(a) + Len(sent["server"])
<1>1. /\ "server" \in End /\ sent["server"] \in Seq(Int) /\ inq["server"] \in Seq(Int)
      /\ read \in Seq(Int)
  BY DEF Flows, End
<1>2. /\ a \o sent["server"] \in Seq(Int)
      /\ Len(a \o sent["server"]) = Len(a) + Len(sent["server"])
  BY <1>1, Joined, Zenon
<1> QED
  BY <1>1, <1>2

\* The answer has just been sent: nothing of it was read.
LEMMA ReachedStart ==
  ASSUME Flows, NEW a \in Seq(Int), sent["server"] = <<>>, read = <<>>, inq["server"] = <<>>,
         UNCHANGED <<sent, read>>, inq'["server"] = inq["server"] \o a
  PROVE  Reached(a, 0)'
<1>1. inq'["server"] = a /\ a \o sent'["server"] = a /\ Len(read') = 0 /\ sent'["server"] = <<>>
  OBVIOUS
<1>2. At(a, 0, <<>>) /\ At(a, 0, a)
  BY DEF At
<1>3. 0 + Len(read') = 0 /\ read' = <<>> /\ 0 + Len(read') + Len(a) = Len(a) + Len(sent'["server"])
  BY <1>1
<1>4. At(a \o sent'["server"], 0, read') /\ At(a \o sent'["server"], 0 + Len(read'), inq'["server"])
  BY <1>1, <1>2, <1>3, Zenon
<1> QED
  BY <1>1, <1>3, <1>4 DEF Reached

\* recv() moves the worker on in the answer, whether read_all keeps the bytes or not.
LEMMA ReachedRead ==
  ASSUME Flows, NEW a \in Seq(Int), NEW n \in Nat, Reached(a, n), NEW k \in Nat, Read(k)
  PROVE  LET bytes == read \o SubSeq(inq["server"], 1, k) IN
         /\ bytes \in Seq(Int) /\ Len(bytes) = Len(read) + k /\ At(a \o sent["server"], n, bytes)
         /\ read' = bytes => Reached(a, n)'
         /\ read' = <<>> => \A i : i = n + Len(bytes) => Reached(a, i)'
<1> DEFINE s == a \o sent["server"]
           q == inq["server"]
           p == SubSeq(q, 1, k)
           r == SubSeq(q, k + 1, Len(q))
           bytes == read \o p
           l == Len(read)
           m == Len(a) + Len(sent["server"])
<1>1. /\ s \in Seq(Int) /\ q \in Seq(Int) /\ read \in Seq(Int) /\ l \in Nat /\ m \in Nat
      /\ At(s, n, read) /\ At(s, n + l, q) /\ Len(s) = m /\ Len(q) \in Nat
      /\ closed["server"] # "reset" => n + l + Len(q) = m
  BY ServerFlow DEF Reached
<1>2. k \in 0 .. Len(q)
  BY <1>1 DEF Read
<1>3. /\ inq'["server"] = r /\ sent' = sent /\ closed' = closed
  BY ServerFlow DEF Read, Flows, streamVars
<1>4. p \in Seq(Int) /\ r \in Seq(Int)
  BY <1>1, <1>2, Parts, Zenon
<1> HIDE DEF s, q, l, m
<1>5. At(s, n + l, p) /\ Len(p) = k
  BY <1>1, <1>2, AtPrefix
<1>6. At(s, n + l + k, r) /\ Len(r) = Len(q) - k
  BY <1>1, <1>2, AtSuffix
<1> HIDE DEF p, r
<1>7. bytes \in Seq(Int) /\ Len(bytes) = l + k
  <2>1. bytes \in Seq(Int) /\ Len(bytes) = l + Len(p)
    BY <1>1, <1>4, Joined, Zenon DEF l
  <2> QED
    BY <1>5, <2>1
<1>8. At(s, n, bytes)
  BY <1>1, <1>4, <1>5, AtJoins DEF l
<1> HIDE DEF bytes
<1>9. /\ n + Len(bytes) = n + l + k /\ (closed["server"] # "reset" => n + Len(bytes) + Len(r) = m)
      /\ n + Len(bytes) \in 0 .. Len(s)
  <2>1. n + l + Len(q) <= Len(s)
    BY <1>1 DEF At
  <2>2. n + Len(bytes) = n + l + k
    BY <1>1, <1>7
  <2>3. closed["server"] # "reset" => n + Len(bytes) + Len(r) = m
    <3>1. n + l + k + (Len(q) - k) = n + l + Len(q)
      BY <1>1
    <3> QED
      BY <1>1, <1>6, <2>2, <3>1, Zenon
  <2>4. n + Len(bytes) \in 0 .. Len(s)
    BY <1>1, <1>2, <2>1, <2>2
  <2> QED
    BY <2>2, <2>3, <2>4
<1>10. ASSUME read' = bytes PROVE Reached(a, n)'
  <2>1. At(s, n, read') /\ At(s, n + Len(read'), r)
    BY <1>6, <1>8, <1>9, <1>10, Zenon
  <2> QED
    BY <1>3, <1>9, <1>10, <2>1 DEF Reached, s, m
<1>11. ASSUME read' = <<>>, NEW i, i = n + Len(bytes) PROVE Reached(a, i)'
  <2>1. At(s, i, read') /\ Len(read') = 0 /\ i \in Nat
    BY <1>1, <1>9, <1>11, AtEmpty
  <2>2. i + Len(read') = i
    BY <2>1
  <2>3. At(s, i + Len(read'), r)
    BY <1>6, <1>9, <1>11, <2>2, Zenon
  <2>4. closed["server"] # "reset" => i + Len(read') + Len(r) = m
    BY <1>9, <1>11, <2>2, Zenon
  <2> QED
    BY <1>3, <2>1, <2>3, <2>4 DEF Reached, s, m
<1> QED
  BY <1>7, <1>8, <1>10, <1>11 DEF bytes, p, q, s, l

\* The server's payload follows the answer.
LEMMA ReachedSend ==
  ASSUME Flows, NEW a \in Seq(Int), NEW n \in Nat, Reached(a, n), Send("server"), stage # "done"
  PROVE  Reached(a, n)'
<1> DEFINE s == a \o sent["server"]
           q == inq["server"]
           l == Len(read)
           m == Len(a) + Len(sent["server"])
<1>1. /\ s \in Seq(Int) /\ q \in Seq(Int) /\ read \in Seq(Int) /\ l \in Nat /\ m \in Nat
      /\ At(s, n, read) /\ At(s, n + l, q) /\ Len(s) = m /\ Len(q) \in Nat
      /\ closed["server"] # "reset" => n + l + Len(q) = m
  BY ServerFlow DEF Reached
<1>2. closed["server"] = "open" /\ read' = read
  BY DEF Send, readVars
<1>3. PICK b \in Byte : /\ sent'["server"] = Append(sent["server"], b)
                        /\ inq'["server"] = Append(q, b)
  BY ServerFlow DEF Send, Flows
<1>4. b \in Int
  BY RelayAssumption
<1>5. a \o Append(sent["server"], b) = Append(s, b)
  <2>1. sent["server"] \in Seq(Int)
    BY ServerFlow
  <2> QED
    BY <1>4, <2>1, AppendJoined
<1>6. /\ Len(Append(sent["server"], b)) = Len(sent["server"]) + 1
      /\ Len(sent["server"]) \in Nat /\ Len(a) \in Nat
  BY <1>4, ServerFlow
<1> HIDE DEF s, q, l
<1>7. At(Append(s, b), n, read)
  BY <1>1, <1>4, AtGrows
<1>8. At(Append(s, b), n + l, Append(q, b)) /\ Len(Append(q, b)) = Len(q) + 1
  BY <1>1, <1>2, <1>4, AtSends, SMTT(30)
<1>9. n + l + Len(Append(q, b)) = Len(a) + Len(Append(sent["server"], b))
  BY <1>1, <1>2, <1>6, <1>8
<1> QED
  BY <1>2, <1>3, <1>5, <1>7, <1>8, <1>9 DEF Reached, l

\* A reset of the server may cut short what has arrived.
LEMMA ReachedReset ==
  ASSUME Flows, NEW a \in Seq(Int), NEW n \in Nat, Reached(a, n), Reset("server"),
         closed \in [End -> {"open", "fin", "reset"}]
  PROVE  Reached(a, n)'
<1> DEFINE s == a \o sent["server"]
           q == inq["server"]
           l == Len(read)
<1>1. /\ s \in Seq(Int) /\ q \in Seq(Int) /\ l \in Nat
      /\ At(s, n, read) /\ At(s, n + l, q)
  BY ServerFlow DEF Reached
<1>2. closed'["server"] = "reset" /\ read' = read /\ sent' = sent
  BY ServerFlow DEF Reset, readVars
<1>3. PICK i \in 0 .. Len(q) : inq'["server"] = SubSeq(q, 1, i)
  BY ServerFlow DEF Reset, Flows
<1> HIDE DEF s, q, l
<1>4. At(s, n + l, SubSeq(q, 1, i))
  BY <1>1, <1>3, AtPrefix
<1> QED
  BY <1>1, <1>2, <1>3, <1>4 DEF Reached, s, l

\* Past the handshake there is no answer to follow.
LEMMA AnswersLeft ==
  ASSUME Answers, stage' \notin Handshaking, stage' \in Relaying => stage \in Relaying,
         UNCHANGED <<granted, answers>>, ~granted => sent'["server"] = sent["server"]
  PROVE  Answers'
BY DEF Answers, Greeted, Replied, Headed, Measured, Addressed, Handshaking, Reading

\* A step of an end keeps the handshake in its place if it keeps the place in the answer.
LEMMA AnswersKept ==
  ASSUME RelayInv, Flows', UNCHANGED <<stage, granted, answers, read, need>>,
         ~granted => sent'["server"] = sent["server"],
         answers # 2 => /\ Len(inq'["server"]) <= Len(inq["server"])
                        /\ inq["server"] = <<>> => inq'["server"] = <<>>,
         stage \in Reading =>
           \A a \in Seq(Int), n \in Nat : Reached(a, n) => Reached(a, n)'
  PROVE  Answers'
<1>1. Flows /\ Answers
  BY TypesFlow DEF RelayInv
<1>2. \A a \in Grant \cup Refusal \cup Malformed : a \in Seq(Int)
  BY AnswerForms
<1>3. Greeted'
  <2>1. CASE stage = "greeting" /\ answers = 2
    <3>1. PICK a \in Refusal : Reached(a, 0)
      BY <1>1, <2>1 DEF Answers, Greeted
    <3>2. Reached(a, 0)'
      BY <1>2, <2>1, <3>1 DEF Reading
    <3> QED
      BY <1>1, <2>1, <3>1, <3>2 DEF Answers, Greeted
  <2>2. CASE stage = "greeting" /\ answers # 2
    <3>1. /\ ~granted /\ Len(read) + need = 2
          /\ answers = 0 => read = <<>> /\ inq["server"] = <<>>
          /\ answers = 1 => Len(read) + Len(inq["server"]) <= 2
      BY <1>1, <2>2 DEF Answers, Greeted
    <3>2. Len(read) \in Nat /\ Len(inq["server"]) \in Nat /\ Len(inq'["server"]) \in Nat
      <4>1. "server" \in End
        BY DEF End
      <4>2. read \in Seq(Int) /\ inq["server"] \in Seq(Int) /\ inq'["server"] \in Seq(Int)
        BY <1>1, <4>1 DEF Flows
      <4> QED
        BY <4>2
    <3>3. answers = 1 => Len(read) + Len(inq'["server"]) <= 2
      BY <2>2, <3>1, <3>2
    <3> QED
      BY <2>2, <3>1, <3>3 DEF Greeted
  <2> QED
    BY <2>1, <2>2 DEF Greeted
<1>4. Replied'
  <2>1. CASE stage = "reply" /\ answers = 2
    <3>1. PICK a \in Grant \cup Refusal \cup Malformed :
            (granted => a \in Grant) /\ (~granted => a \notin Grant) /\ Reached(a, 0)
      BY <1>1, <2>1 DEF Answers, Replied
    <3>2. Reached(a, 0)'
      BY <1>2, <2>1, <3>1 DEF Reading
    <3> QED
      BY <1>1, <2>1, <3>1, <3>2 DEF Answers, Replied
  <2>2. CASE stage = "reply" /\ answers # 2
    BY <1>1, <2>2 DEF Answers, Replied
  <2> QED
    BY <2>1, <2>2 DEF Replied
<1>5. Headed'
  <2>1. CASE stage = "header"
    <3>1. PICK a \in Grant \cup Malformed : (granted <=> a \in Grant) /\ Reached(a, 2)
      BY <1>1, <2>1 DEF Answers, Headed
    <3>2. Reached(a, 2)'
      BY <1>2, <2>1, <3>1 DEF Reading
    <3> QED
      BY <1>1, <2>1, <3>1, <3>2 DEF Answers, Headed
  <2> QED
    BY <2>1 DEF Headed
<1>6. Measured'
  <2>1. CASE stage = "length"
    <3>1. PICK a \in Grant : a[4] = 3 /\ Reached(a, 4)
      BY <1>1, <2>1 DEF Answers, Measured
    <3>2. Reached(a, 4)'
      BY <1>2, <2>1, <3>1 DEF Reading
    <3> QED
      BY <1>1, <2>1, <3>1, <3>2 DEF Answers, Measured
  <2> QED
    BY <2>1 DEF Measured
<1>7. Addressed'
  <2>1. CASE stage = "address"
    <3>1. PICK a \in Grant : need <= Len(a) /\ Reached(a, Len(a) - need)
      BY <1>1, <2>1 DEF Answers, Addressed
    <3> DEFINE n == Len(a) - need
    <3>2. a \in Seq(Int) /\ n \in Nat
      BY <1>1, <1>2, <3>1 DEF Flows
    <3> HIDE DEF n
    <3>3. \A i \in Nat : i = n => Reached(a, i)'
      BY <2>1, <3>1, <3>2, Zenon DEF Reading, n
    <3>4. Reached(a, Len(a) - need)'
      <4>1. \A i \in Nat : i = Len(a) - need' => Reached(a, i)'
        BY <3>3 DEF n
      <4>2. Len(a) - need' \in Nat
        BY <3>2 DEF n
      <4> QED
        BY <4>1, <4>2 DEF Reached
    <3> QED
      BY <1>1, <2>1, <3>1, <3>4 DEF Answers, Addressed
  <2> QED
    BY <2>1 DEF Addressed
<1>8. stage' = "connect" => answers' = 0 /\ read' = <<>> /\ inq'["server"] = <<>>
  BY <1>1 DEF Answers
<1> QED
  BY <1>1, <1>3, <1>4, <1>5, <1>6, <1>7, <1>8 DEF Answers

\* The server answers when it was asked, and nothing of an earlier answer is left.
LEMMA AnswersAnswer == ASSUME RelayInv, Answer PROVE Answers'
<1>1. Flows /\ Answers /\ UNCHANGED <<sent, closed, stage, need, read>>
  BY TypesFlow DEF RelayInv, Answer, streamVars, readVars
<1>2. /\ ~granted /\ sent["server"] = <<>> /\ read = <<>> /\ inq["server"] = <<>>
      /\ need = 2 /\ stage \in {"greeting", "reply"} /\ (answers = 0 <=> stage = "greeting")
  <2>1. /\ stage \in {"greeting", "reply"} /\ answers \in {0, 1}
        /\ (answers = 0 <=> stage = "greeting")
    <3>1. (answers = 0 /\ stage = "greeting") \/ (answers = 1 /\ stage = "reply")
      BY Zenon DEF Answer
    <3> QED
      BY <3>1
  <2>2. ~granted /\ read = <<>> /\ inq["server"] = <<>> /\ Len(read) + need = 2
    BY <1>1, <2>1 DEF Answers, Greeted, Replied
  <2>3. need = 2
    <3>1. Len(read) = 0 /\ need \in Nat
      BY <1>1, <2>2 DEF Flows
    <3> QED
      BY <2>2, <3>1
  <2> QED
    BY <1>1, <2>1, <2>2, <2>3 DEF Answers
<1>3. ASSUME NEW a, Answered(a, 1, FALSE), a = <<5, 0>>, stage = "greeting" PROVE Answers'
  <2>1. inq'["server"] = <<>> \o <<5, 0>>
    BY <1>1, <1>2, <1>3, ServerFlow DEF Answered, Flows, End
  <2>2. Len(inq'["server"]) = 2 /\ Len(<<>>) = 0
    BY <2>1
  <2> QED
    BY <1>1, <1>2, <1>3, <2>2
    DEF Answered, Answers, Greeted, Replied, Headed, Measured, Addressed, Relaying
<1>4. ASSUME NEW a \in Grant \cup Refusal \cup Malformed, NEW g \in BOOLEAN, Answered(a, 2, g),
             stage = "greeting" => a \in Refusal /\ ~g, g <=> a \in Grant
      PROVE  Answers'
  <2>1. a \in Seq(Int)
    BY AnswerForms
  <2>2. inq'["server"] = inq["server"] \o a
    BY <1>1, <1>4 DEF Answered, Flows, End
  <2>3. Reached(a, 0)'
    BY <1>1, <1>2, <2>1, <2>2, ReachedStart
  <2>4. answers' = 2 /\ granted' = g
    BY <1>4 DEF Answered
  <2>5. Greeted' /\ Replied'
    BY <1>1, <1>2, <1>4, <2>3, <2>4 DEF Greeted, Replied, Answers
  <2> QED
    BY <1>1, <1>2, <2>4, <2>5 DEF Answers, Headed, Measured, Addressed, Relaying
<1> QED
  BY <1>2, <1>3, <1>4, AnswerForms DEF Answer

\* No refusal reads as <<5, 0>>.
LEMMA RefusalRead ==
  ASSUME NEW a \in Refusal, NEW s \in Seq(Int), s = <<>>, At(a \o s, 0, <<5, 0>>)
  PROVE  FALSE
<1>1. a \in Seq(Int) /\ <<5, 0>> \in Seq(Int)
  BY AnswerForms
<1>2. At(a, 0, <<5, 0>>)
  BY <1>1, AtAnswer
<1>3. Len(a) >= 2 /\ a[1] = 5 /\ a[2] = 0
  BY <1>1, <1>2 DEF At
<1> QED
  BY <1>3, AnswerForms

\* recv() during the handshake: what the worker makes of the bytes is what the answer
\* says.
LEMMA AnswersRead == ASSUME RelayInv, TypeOK', NEW k \in 1 .. need, Read(k) PROVE Answers'
<1> DEFINE q == inq["server"]
           bytes == read \o SubSeq(q, 1, k)
           next == AfterRead(stage, bytes)
<1>1. /\ Flows /\ Flows' /\ Answers /\ "server" \in End
      /\ UNCHANGED <<sent, closed, granted, answers>> /\ stage \in Reading
  BY TypesFlow DEF RelayInv, Read, streamVars, serverVars, End
<1>2. /\ read \in Seq(Int) /\ q \in Seq(Int) /\ Len(read) \in Nat /\ Len(q) \in Nat
      /\ k \in Nat /\ k >= 1 /\ k <= Len(q) /\ k <= need /\ need \in Nat
      /\ sent["server"] \in Seq(Int)
  <2>1. read \in Seq(Int) /\ q \in Seq(Int) /\ need \in Nat /\ sent["server"] \in Seq(Int)
    BY <1>1 DEF Flows
  <2> QED
    BY <2>1 DEF Read
<1>3. q # <<>> /\ inq'["server"] = SubSeq(q, k + 1, Len(q))
  BY <1>1, <1>2 DEF Read, Flows
<1>4. ASSUME NEW a \in Seq(Int), NEW n \in Nat, Reached(a, n)
      PROVE  /\ bytes \in Seq(Int) /\ Len(bytes) = Len(read) + k
             /\ At(a \o sent["server"], n, bytes)
             /\ read' = bytes => Reached(a, n)'
             /\ read' = <<>> => \A i : i = n + Len(bytes) => Reached(a, i)'
  BY <1>1, <1>2, <1>4, ReachedRead
<1>5. Len(inq'["server"]) = Len(q) - k
  <2>1. k \in 0 .. Len(q)
    BY <1>2
  <2> QED
    BY <1>2, <1>3, <2>1, Parts
<1>6. \A a \in Grant \cup Refusal \cup Malformed : a \in Seq(Int)
  BY AnswerForms
<1>7. bytes \in Seq(Int) /\ Len(bytes) = Len(read) + k
  <2>1. k \in 0 .. Len(q)
    BY <1>2
  <2>2. SubSeq(q, 1, k) \in Seq(Int) /\ Len(SubSeq(q, 1, k)) = k
    BY <1>2, <2>1, Parts
  <2> QED
    BY <1>2, <2>2, Joined, Zenon
<1> HIDE DEF bytes, next
<1> USE DEF Reading, Relaying
<1>8. CASE k < need
  <2>1. /\ need' = need - k /\ stage' = stage
        /\ read' = IF stage = "address" THEN <<>> ELSE bytes
    BY <1>8 DEF Read, q, bytes
  <2>2. stage # "address" => Len(read') + need' = Len(read) + need
    <3>1. (Len(read) + k) + (need - k) = Len(read) + need
      BY <1>2
    <3> QED
      BY <1>7, <2>1, <3>1, Zenon
  <2>3. CASE stage = "greeting"
    <3>1. /\ ~granted /\ Len(read) + need = 2 /\ answers # 0
          /\ answers = 1 => Len(read) + Len(q) <= 2
      BY <1>1, <1>3, <2>3 DEF Answers, Greeted, q
    <3>2. answers = 1 => Len(read') + Len(inq'["server"]) <= 2
      BY <1>2, <1>5, <1>7, <2>1, <2>3, <3>1
    <3>3. ASSUME answers = 2 PROVE \E a \in Refusal : Reached(a, 0)'
      BY <1>1, <1>4, <1>6, <2>1, <2>3, <3>3 DEF Answers, Greeted
    <3>4. Greeted'
      BY <1>1, <2>1, <2>2, <2>3, <3>1, <3>2, <3>3 DEF Greeted
    <3> QED
      BY <1>1, <2>1, <2>3, <3>4 DEF Answers, Replied, Headed, Measured, Addressed
  <2>4. CASE stage = "reply"
    <3>1. Len(read) + need = 2 /\ answers = 2
      BY <1>1, <1>3, <2>4 DEF Answers, Replied, q
    <3>2. PICK a \in Grant \cup Refusal \cup Malformed :
            (granted => a \in Grant) /\ (~granted => a \notin Grant) /\ Reached(a, 0)
      BY <1>1, <2>4, <3>1 DEF Answers, Replied
    <3>3. Reached(a, 0)'
      BY <1>4, <1>6, <2>1, <2>4, <3>2
    <3>4. Replied'
      BY <1>1, <2>1, <2>2, <2>4, <3>1, <3>2, <3>3 DEF Replied
    <3> QED
      BY <1>1, <2>1, <2>4, <3>4 DEF Answers, Greeted, Headed, Measured, Addressed
  <2>5. CASE stage = "header"
    <3>1. PICK a \in Grant \cup Malformed : (granted <=> a \in Grant) /\ Reached(a, 2)
      BY <1>1, <2>5 DEF Answers, Headed
    <3>2. Reached(a, 2)'
      BY <1>4, <1>6, <2>1, <2>5, <3>1
    <3>3. Headed'
      BY <1>1, <2>1, <2>2, <2>5, <3>1, <3>2 DEF Headed, Answers
    <3> QED
      BY <1>1, <2>1, <2>5, <3>3 DEF Answers, Greeted, Replied, Measured, Addressed
  <2>6. CASE stage = "length"
    <3>1. need = 1
      BY <1>1, <2>6 DEF Answers, Measured
    <3> QED
      BY <1>2, <1>8, <3>1
  <2>7. CASE stage = "address"
    <3>1. PICK a \in Grant : need <= Len(a) /\ Reached(a, Len(a) - need)
      BY <1>1, <2>7 DEF Answers, Addressed
    <3> DEFINE n == Len(a) - need
    <3>2. a \in Seq(Int) /\ Len(a) \in Nat /\ n \in Nat
      <4>1. a \in Seq(Int)
        BY <1>6
      <4> QED
        BY <1>2, <3>1, <4>1
    <3>3. read = <<>> /\ granted /\ Len(read) = 0
      BY <1>1, <2>7 DEF Answers, Addressed
    <3>4. Len(a) - need' = n + Len(bytes) /\ need' <= Len(a)
      BY <1>2, <1>7, <1>8, <2>1, <3>1, <3>2, <3>3
    <3>5. \A i : i = n + Len(bytes) => Reached(a, i)'
      BY <1>4, <2>1, <2>7, <3>1, <3>2
    <3> HIDE DEF n
    <3>6. Reached(a, Len(a) - need)'
      BY <3>4, <3>5 DEF Reached
    <3>7. Addressed'
      BY <1>1, <2>1, <2>7, <3>3, <3>4, <3>6 DEF Addressed
    <3> QED
      BY <1>1, <2>1, <2>7, <3>7 DEF Answers, Greeted, Replied, Headed, Measured
  <2> QED
    BY <1>1, <2>3, <2>4, <2>5, <2>6, <2>7
<1>9. CASE ~(k < need)
  <2>1. stage' = next.stage /\ need' = next.need /\ read' = <<>> /\ k = need
    BY <1>2, <1>9 DEF Read, q, bytes, next
  <2>2. /\ \/ stage = "greeting" /\ bytes = <<5, 0>> /\ next = [stage |-> "reply", need |-> 2]
           \/ stage = "reply" /\ bytes = <<5, 0>> /\ next = [stage |-> "header", need |-> 2]
           \/ stage = "header" /\ bytes = <<0, 1>> /\ next = [stage |-> "address", need |-> 6]
           \/ stage = "header" /\ bytes = <<0, 4>> /\ next = [stage |-> "address", need |-> 18]
           \/ stage = "header" /\ bytes = <<0, 3>> /\ next = [stage |-> "length", need |-> 1]
           \/ stage = "length" /\ next = [stage |-> "address", need |-> bytes[1] + 2]
           \/ stage = "address" /\ next = [stage |-> "poll", need |-> 0]
           \/ next = [stage |-> "failed", need |-> 0]
    BY <1>1, AfterReadIs DEF next
  <2>3. CASE stage = "greeting" /\ bytes = <<5, 0>> /\ stage' = "reply" /\ need' = 2
    <3>1. /\ ~granted /\ Len(read) + need = 2 /\ answers # 0 /\ sent["server"] = <<>>
          /\ answers = 1 => Len(read) + Len(q) <= 2
      BY <1>1, <1>3, <2>3 DEF Answers, Greeted, q
    <3>2. answers # 2
      <4>1. SUFFICES ASSUME answers = 2 PROVE FALSE
        OBVIOUS
      <4>2. PICK a \in Refusal : Reached(a, 0)
        BY <1>1, <2>3, <4>1 DEF Answers, Greeted
      <4>3. a \in Seq(Int) /\ At(a \o sent["server"], 0, bytes)
        BY <1>4, <1>6, <4>2
      <4> QED
        BY <1>2, <1>7, <2>3, <3>1, <4>2, <4>3, RefusalRead
    <3>3. answers = 1
      BY <3>1, <3>2 DEF RelayInv, TypeOK
    <3>4. inq'["server"] = <<>>
      <4>1. inq'["server"] \in Seq(Int)
        BY <1>1 DEF Flows
      <4>2. Len(inq'["server"]) = 0
        BY <1>2, <1>5, <2>1, <3>1, <3>3, <4>1
      <4> QED
        BY <4>1, <4>2
    <3>5. Replied'
      BY <1>1, <2>1, <2>3, <3>1, <3>3, <3>4 DEF Replied
    <3> QED
      BY <1>1, <2>3, <3>5 DEF Answers, Greeted, Headed, Measured, Addressed
  <2>4. CASE stage = "reply" /\ bytes = <<5, 0>> /\ stage' = "header" /\ need' = 2
    <3>1. Len(read) + need = 2 /\ answers = 2
      BY <1>1, <1>3, <2>4 DEF Answers, Replied, q
    <3>2. PICK a \in Grant \cup Refusal \cup Malformed :
            (granted => a \in Grant) /\ (~granted => a \notin Grant) /\ Reached(a, 0)
      BY <1>1, <2>4, <3>1 DEF Answers, Replied
    <3>3. a \in Seq(Int) /\ At(a \o sent["server"], 0, bytes)
      BY <1>4, <1>6, <3>2
    <3>4. a \notin Refusal
      <4>1. SUFFICES ASSUME a \in Refusal PROVE FALSE
        OBVIOUS
      <4>2. sent["server"] = <<>>
        BY <1>1, <3>2, <4>1, AnswerForms DEF Answers
      <4> QED
        BY <1>2, <1>7, <2>4, <3>3, <4>1, <4>2, RefusalRead
    <3>5. Reached(a, 2)'
      <4>1. 2 = 0 + Len(bytes)
        BY <1>2, <1>7, <2>1, <3>1
      <4> QED
        BY <1>4, <2>1, <3>2, <3>3, <4>1
    <3>6. Headed'
      BY <1>1, <2>1, <2>4, <3>1, <3>2, <3>4, <3>5 DEF Headed
    <3> QED
      BY <1>1, <2>4, <3>6 DEF Answers, Greeted, Replied, Measured, Addressed
  <2>5. CASE /\ stage = "header" /\ bytes[1] = 0
             /\ \/ bytes[2] = 1 /\ stage' = "address" /\ need' = 6
                \/ bytes[2] = 4 /\ stage' = "address" /\ need' = 18
                \/ bytes[2] = 3 /\ stage' = "length" /\ need' = 1
    <3>1. PICK a \in Grant \cup Malformed : (granted <=> a \in Grant) /\ Reached(a, 2)
      BY <1>1, <2>5 DEF Answers, Headed
    <3>2. a \in Seq(Int) /\ At(a \o sent["server"], 2, bytes) /\ Len(bytes) = 2
      BY <1>1, <1>2, <1>4, <1>6, <1>7, <2>1, <2>5, <3>1 DEF Answers, Headed
    <3>3. At(a, 2, bytes)
      <4>1. CASE granted
        <5>1. a \in Grant /\ Len(a) >= 5 /\ Len(a) \in Nat
          BY <3>1, <3>2, <4>1, GrantForms
        <5>2. 2 + Len(bytes) <= Len(a)
          BY <3>2, <5>1
        <5> QED
          BY <1>2, <1>7, <3>2, <5>2, AtAnswer
      <4>2. CASE ~granted
        <5>1. sent["server"] = <<>>
          BY <1>1, <4>2 DEF Answers
        <5> QED
          BY <1>2, <1>7, <3>2, <5>1, AtAnswer
      <4> QED
        BY <4>1, <4>2
    <3>4. a[3] = bytes[1] /\ a[4] = bytes[2]
      BY <3>2, <3>3 DEF At
    <3>5. a \in Grant /\ granted
      BY <2>5, <3>1, <3>4, AnswerForms
    <3>6. /\ Len(a) >= 5 /\ Len(a) \in Nat /\ (bytes[2] = 1 => Len(a) = 10)
          /\ (bytes[2] = 4 => Len(a) = 22)
      BY <3>2, <3>4, <3>5, GrantForms
    <3>7. Reached(a, 4)'
      <4>1. 4 = 2 + Len(bytes)
        BY <3>2
      <4> QED
        BY <1>4, <2>1, <3>1, <3>2, <4>1
    <3>8. CASE stage' = "length"
      <4>1. Measured'
        BY <1>1, <2>1, <2>5, <3>4, <3>5, <3>7, <3>8 DEF Measured
      <4> QED
        BY <1>1, <3>5, <3>8, <4>1 DEF Answers, Greeted, Replied, Headed, Addressed
    <3>9. CASE stage' = "address"
      <4>1. Len(a) - need' = 4 /\ need' <= Len(a)
        <5>1. (need' = 6 /\ Len(a) = 10) \/ (need' = 18 /\ Len(a) = 22)
          BY <2>5, <3>6, <3>9, Zenon
        <5>2. 10 - 6 = 4 /\ 22 - 18 = 4 /\ 6 <= 10 /\ 18 <= 22
          OBVIOUS
        <5> QED
          BY <5>1, <5>2, Zenon
      <4>2. Reached(a, Len(a) - need)'
        BY <3>7, <4>1 DEF Reached
      <4>3. Addressed'
        BY <1>1, <2>1, <3>5, <4>1, <4>2 DEF Addressed
      <4> QED
        BY <1>1, <3>5, <3>9, <4>3 DEF Answers, Greeted, Replied, Headed, Measured
    <3> QED
      BY <2>5, <3>8, <3>9
  <2>6. CASE stage = "length" /\ stage' = "address" /\ need' = bytes[1] + 2
    <3>1. PICK a \in Grant : a[4] = 3 /\ Reached(a, 4)
      BY <1>1, <2>6 DEF Answers, Measured
    <3>2. need = 1 /\ read = <<>> /\ granted /\ Len(read) = 0
      BY <1>1, <2>6 DEF Answers, Measured
    <3>3. /\ a \in Seq(Int) /\ At(a \o sent["server"], 4, bytes) /\ Len(bytes) = 1
          /\ Len(a) = 7 + a[5] /\ Len(a) >= 5 /\ Len(a) \in Nat /\ a[5] \in Int
      <4>1. a \in Seq(Int) /\ At(a \o sent["server"], 4, bytes) /\ Len(bytes) = Len(read) + k
        BY <1>4, <1>6, <3>1
      <4>2. Len(a) = 7 + a[5] /\ Len(a) >= 5 /\ Len(a) \in Nat
        BY <3>1, <4>1, GrantForms, SMTT(30)
      <4> QED
        BY <1>2, <2>1, <3>2, <4>1, <4>2
    <3>4. At(a, 4, bytes)
      <4>1. 4 + Len(bytes) <= Len(a)
        BY <3>3
      <4> QED
        BY <1>2, <1>7, <3>3, <4>1, AtAnswer
    <3>5. a[5] = bytes[1]
      BY <3>3, <3>4 DEF At
    <3>6. Len(a) - need' = 5 /\ need' <= Len(a)
      BY <2>6, <3>3, <3>5
    <3>7. Reached(a, 5)'
      <4>1. 5 = 4 + Len(bytes)
        BY <3>3
      <4> QED
        BY <1>4, <2>1, <3>1, <3>3, <4>1
    <3>8. Reached(a, Len(a) - need)'
      BY <3>6, <3>7 DEF Reached
    <3>9. Addressed'
      BY <1>1, <2>1, <3>2, <3>6, <3>8 DEF Addressed
    <3> QED
      BY <1>1, <2>6, <3>2, <3>9 DEF Answers, Greeted, Replied, Headed, Measured
  <2>7. CASE stage = "address" /\ stage' = "poll"
    <3>1. granted
      BY <1>1, <2>7 DEF Answers, Addressed
    <3> QED
      BY <1>1, <2>7, <3>1 DEF Answers, Greeted, Replied, Headed, Measured, Addressed
  <2>8. CASE stage' = "failed"
    BY <1>1, <2>8 DEF Answers, Greeted, Replied, Headed, Measured, Addressed
  <2> QED
    BY <2>1, <2>2, <2>3, <2>4, <2>5, <2>6, <2>7, <2>8
<1> QED
  BY <1>8, <1>9

\* Every step keeps the handshake's place in the answer.
LEMMA AnswersNext == ASSUME RelayInv, TypeOK', [Next]_vars PROVE Answers'
<1> USE DEF streamVars, serverVars, readVars, loopVars
<1>1. Answers /\ Flows /\ Flows' /\ "server" \in End
  BY TypesFlow DEF RelayInv, End
<1>2. ASSUME UNCHANGED <<sent, granted, answers>>, stage' \notin Handshaking,
             stage' \in Relaying => stage \in Relaying
      PROVE  Answers'
  BY <1>1, <1>2, AnswersLeft
<1>3. ASSUME UNCHANGED <<stage, granted, answers, read, need>>,
             sent'["server"] = sent["server"], inq'["server"] = inq["server"],
             closed'["server"] # "reset" => closed["server"] # "reset"
      PROVE  Answers'
  <2>1. \A a \in Seq(Int), n \in Nat : Reached(a, n) => Reached(a, n)'
    BY <1>3 DEF Reached
  <2>2. Len(inq["server"]) \in Nat
    BY <1>1 DEF Flows
  <2>3. Len(inq'["server"]) <= Len(inq["server"])
    BY <1>3, <2>2
  <2> QED
    BY <1>1, <1>3, <2>1, <2>3, AnswersKept
<1>4. CASE Connect
  <2>1. stage = "connect" /\ stage' = "greeting" /\ need' = 2
        /\ UNCHANGED <<sent, inq, granted, answers, read>>
    BY <1>4 DEF Connect
  <2>2. ~granted /\ answers = 0 /\ read = <<>> /\ inq["server"] = <<>>
    BY <1>1, <2>1 DEF Answers
  <2>3. Greeted'
    BY <2>1, <2>2 DEF Greeted
  <2> QED
    BY <1>1, <2>1, <2>2, <2>3 DEF Answers, Replied, Headed, Measured, Addressed, Relaying
<1>5. CASE HandshakeFails \/ IdleTimeout \/ WriteFails
  BY <1>2, <1>5 DEF HandshakeFails, IdleTimeout, WriteFails, Handshaking, Reading, Relaying
<1>6. ASSUME NEW k \in 1 .. need, Read(k) PROVE Answers'
  BY <1>6, AnswersRead
<1>7. CASE Poll \/ EndTurn
  BY <1>2, <1>7 DEF Poll, EndTurn, Handshaking, Reading, Relaying
<1>8. ASSUME NEW k \in 1 .. BufferSize, Receive(k) PROVE Answers'
  BY <1>2, <1>8 DEF Receive, Handshaking, Reading, Relaying
<1>9. CASE ReceiveEnd \/ Write \/ Count
  BY <1>2, <1>9 DEF ReceiveEnd, Write, Count, Handshaking, Reading, Relaying
<1>10. ASSUME NEW failed \in BOOLEAN, Hangup(failed) PROVE Answers'
  BY <1>2, <1>10 DEF Hangup, Handshaking, Reading, Relaying
<1>11. CASE Answer
  BY <1>11, AnswersAnswer
<1>12. ASSUME NEW e \in End, ReadByte(e) \/ ReadEnd(e) PROVE Answers'
  BY <1>3, <1>12 DEF ReadByte, ReadEnd
<1>13. ASSUME NEW e \in End, Finish(e) PROVE Answers'
  <2>1. closed'["server"] # "reset" => closed["server"] # "reset"
    BY <1>1, <1>13 DEF Finish, RelayInv, TypeOK
  <2> QED
    BY <1>3, <1>13, <2>1 DEF Finish
<1>14. ASSUME NEW e \in End, e # "server", Send(e) \/ Reset(e) PROVE Answers'
  <2>1. /\ UNCHANGED <<stage, granted, answers, read, need>>
        /\ sent'["server"] = sent["server"] /\ inq'["server"] = inq["server"]
        /\ closed'["server"] = closed["server"]
    BY <1>1, <1>14, ZenonT(30) DEF Send, Reset, Flows, RelayInv, TypeOK
  <2> QED
    BY <1>3, <2>1
<1>15. CASE Send("server")
  <2>1. UNCHANGED <<stage, granted, answers, read, need>> /\ granted /\ answers = 2
    BY <1>1, <1>15 DEF Send, Answers
  <2>2. stage \in Reading => \A a \in Seq(Int), n \in Nat : Reached(a, n) => Reached(a, n)'
    BY <1>1, <1>15, ReachedSend DEF Reading
  <2> QED
    BY <1>1, <2>1, <2>2, AnswersKept
<1>16. CASE Reset("server")
  <2>1. UNCHANGED <<stage, granted, answers, read, need, sent>>
    BY <1>16 DEF Reset
  <2>2. \A a \in Seq(Int), n \in Nat : Reached(a, n) => Reached(a, n)'
    BY <1>1, <1>16, ReachedReset DEF RelayInv, TypeOK
  <2>3. PICK i \in 0 .. Len(inq["server"]) : inq'["server"] = SubSeq(inq["server"], 1, i)
    BY <1>1, <1>16 DEF Reset, Flows
  <2>4. /\ Len(inq'["server"]) <= Len(inq["server"])
        /\ inq["server"] = <<>> => inq'["server"] = <<>>
    <3>1. inq["server"] \in Seq(Int) /\ inq'["server"] \in Seq(Int)
      BY <1>1 DEF Flows
    <3>2. Len(inq'["server"]) = i
      <4>1. Len(SubSeq(inq["server"], 1, i)) = i
        BY <3>1, Parts, Zenon
      <4> QED
        BY <2>3, <4>1
    <3>3. Len(inq'["server"]) <= Len(inq["server"])
      BY <3>1, <3>2
    <3>4. inq["server"] = <<>> => Len(inq'["server"]) = 0
      BY <3>1, <3>2
    <3> QED
      BY <3>1, <3>3, <3>4
  <2> QED
    BY <1>1, <2>1, <2>2, <2>4, AnswersKept
<1>17. CASE UNCHANGED vars
  BY <1>3, <1>17 DEF vars
<1> QED
  BY <1>4, <1>5, <1>6, <1>7, <1>8, <1>9, <1>10, <1>11, <1>12, <1>13, <1>14, <1>15, <1>16,
     <1>17 DEF Next, WorkerStep, EndStep, Close, Killed

-----------------------------------------------------------------------------
(* The theorems.                                                             *)

\* The initial states: nothing was sent and the worker has not connected.
LEMMA RelayInit == Init => RelayInv
<1> SUFFICES ASSUME Init PROVE RelayInv
  OBVIOUS
<1> USE DEF Init
<1>1. TypeOK
  <2>1. <<>> \in Seq(Byte) /\ <<>> \in Seq(0 .. 255) /\ Len(<<>>) = 0
    OBVIOUS
  <2>2. size \in 0 .. BufferSize /\ need \in 0 .. 257 /\ Len(chunk) <= size /\ answers \in 0 .. 2
    BY <2>1, RelayAssumption
  <2>3. /\ stage \in Stages /\ stage \notin Reading /\ fds \in SUBSET End /\ ready \in SUBSET End
        /\ broken \in BOOLEAN /\ granted \in BOOLEAN
    BY DEF Stages, Reading
  <2>4. /\ sent \in [End -> Seq(Byte)] /\ got \in [End -> Seq(Byte)]
        /\ inq \in [End -> Seq(0 .. 255)] /\ outq \in [End -> Seq(Byte)]
        /\ read \in Seq(0 .. 255) /\ chunk \in Seq(Byte)
    BY <2>1
  <2>5. /\ closed \in [End -> {"open", "fin", "reset"}] /\ eof \in [End -> BOOLEAN]
        /\ shut \in [End -> BOOLEAN] /\ counted \in [End -> Nat]
    OBVIOUS
  <2> QED
    BY <2>2, <2>3, <2>4, <2>5, Zenon DEF TypeOK
<1>2. ASSUME NEW e \in End PROVE Stream(e)
  <2> DEFINE o == Other(e)
  <2>1. /\ o \in End /\ sent[e] = <<>> /\ got[o] = <<>> /\ outq[o] = <<>> /\ inq[e] = <<>>
        /\ got[e] = <<>> /\ outq[e] = <<>> /\ ~shut[e] /\ ~shut[o] /\ ~eof[o]
        /\ closed[e] = "open" /\ counted[e] = 0 /\ e \in fds /\ stage = "connect" /\ ~broken
        /\ stage \notin Relaying
    BY OtherEnd DEF Relaying
  <2>2. Len(<<>>) = 0 /\ At(<<>>, 0, <<>>) /\ <<>> \in Seq(Byte)
    BY DEF At
  <2>3. Base(e) = 0 /\ Held(e) = 0 /\ ~Writing(e)
    <3>1. Base(e) = Len(<<>>) + Len(<<>>)
      BY <2>1 DEF Base
    <3> QED
      BY <2>1, <2>2, <3>1 DEF Held, Writing
  <2>4. Base(e) + Held(e) = 0 /\ Base(e) + Held(e) + Len(inq[e]) = 0
    BY <2>1, <2>2, <2>3
  <2>5. Delivered(e) /\ Buffered(e) /\ Arriving(e) /\ Payload(e)
    BY <2>1, <2>2, <2>3, <2>4, Zenon DEF Delivered, Buffered, Arriving, Payload
  <2>6. Passed(e) /\ Turns(e) /\ Counts(e) /\ Quiet(e)
    BY <2>1, <2>2, <2>3 DEF Passed, Turns, Counts, Quiet
  <2> QED
    BY <2>5, <2>6 DEF Stream
<1>3. Answers
  BY DEF Answers, Greeted, Replied, Headed, Measured, Addressed, Relaying, End
<1> QED
  BY <1>1, <1>2, <1>3 DEF RelayInv

\* Every step of the worker and of the two ends keeps the invariant.
LEMMA RelayNext == RelayInv /\ [Next]_vars => RelayInv'
<1> SUFFICES ASSUME RelayInv, [Next]_vars PROVE RelayInv'
  OBVIOUS
<1>1. TypeOK'
  BY TypeNext
<1>2. Answers'
  BY <1>1, AnswersNext
<1>3. ASSUME NEW e \in End PROVE Stream(e)'
  <2>1. ASSUME NEW k \in 1 .. need, Read(k) PROVE Stream(e)'
    BY <1>1, <2>1, ReadStep
  <2>2. ASSUME NEW k \in 1 .. BufferSize, Receive(k) PROVE Stream(e)'
    BY <1>1, <2>2, ReceiveStep
  <2>3. CASE \/ Connect \/ HandshakeFails \/ Poll \/ IdleTimeout \/ WriteFails \/ EndTurn
             \/ UNCHANGED vars
    BY <1>1, <2>3, StageStep
  <2>4. CASE ReceiveEnd \/ Write \/ Count \/ Answer
    BY <1>1, <2>4, ReceiveEndStep, WriteStep, CountStep, AnswerStep
  <2>5. CASE Close \/ Killed
    BY <1>1, <2>5, HangupStep DEF Close, Killed
  <2>6. ASSUME NEW f \in End, EndStep(f) PROVE Stream(e)'
    BY <1>1, <2>6, SendStep, FinishStep, ResetStep, ReadByteStep, ReadEndStep DEF EndStep
  <2> QED
    BY <2>1, <2>2, <2>3, <2>4, <2>5, <2>6 DEF Next, WorkerStep
<1> QED
  BY <1>1, <1>2, <1>3 DEF RelayInv

\* The invariant holds of every behaviour.
THEOREM RelayInvHolds == Spec => []RelayInv
BY RelayInit, RelayNext, PTL DEF Spec

\* src/src/socks5.c reads the bound address into 257 bytes and src/src/proxy.c relays
\* through one buffer: for every answer of the server what is read fits.
THEOREM RelayTypes == Spec => []TypeOK
<1>1. RelayInv => TypeOK
  BY DEF RelayInv
<1> QED
  BY <1>1, RelayInvHolds, PTL

-----------------------------------------------------------------------------
(* The meter, also after resets, timeouts and kills.                         *)

\* What the worker has received from e and not counted yet.
Taken(e) == IF Writing(e) THEN size ELSE 0

\* The table counts bytes of e that were received, so never more than e has sent, and lags
\* behind the other end's socket only by what write_all has sent of the buffer.
Metered(e) ==
  /\ counted[e] <= Len(sent[e])
  /\ Base(e) <= counted[e] + BufferSize
  /\ Flowing(e) => counted[e] + Taken(e) + Len(inq[e]) <= Len(sent[e])
  /\ stage \in Relaying => Base(e) + Held(e) <= counted[e] + Taken(e)

\* The same counts after a step.
LEMMA QuantitiesNext ==
  ASSUME Flows', NEW e \in End
  PROVE  /\ Base(e)' \in Nat /\ Held(e)' \in Nat /\ counted'[e] \in Nat
         /\ got'[Other(e)] \in Seq(Int) /\ outq'[Other(e)] \in Seq(Int)
         /\ inq'[e] \in Seq(Int) /\ sent'[e] \in Seq(Int)
         /\ Len(inq'[e]) \in Nat /\ Len(sent'[e]) \in Nat
         /\ Base(e)' = Len(got'[Other(e)]) + Len(outq'[Other(e)])
<1>1. Other(e) \in End
  BY OtherEnd
<1> QED
  BY <1>1 DEF Flows, Base, Held

\* A step that leaves the counts of e alone, but for bytes that arrive or are lost, and
\* leads nowhere that the worker is not already.
LEMMA MeterKept ==
  ASSUME Flows, Flows', NEW e \in End, Metered(e), UNCHANGED <<counted, size>>,
         Len(sent[e]) <= Len(sent'[e]), Base(e)' <= Base(e), Held(e)' = Held(e),
         Writing(e)' <=> Writing(e),
         Flowing(e)' => Flowing(e), stage' \in Relaying => stage \in Relaying,
         Flowing(e)' => Len(inq'[e]) + Len(sent[e]) <= Len(inq[e]) + Len(sent'[e])
  PROVE  Metered(e)'
<1>1. /\ Base(e) \in Nat /\ Held(e) \in Nat /\ counted[e] \in Nat /\ size \in Nat
      /\ Len(inq[e]) \in Nat /\ Len(sent[e]) \in Nat
  BY Quantities
<1>2. /\ Base(e)' \in Nat /\ Len(inq'[e]) \in Nat /\ Len(sent'[e]) \in Nat
      /\ inq[e] \in Seq(Int) /\ sent[e] \in Seq(Int)
      /\ inq'[e] \in Seq(Int) /\ sent'[e] \in Seq(Int)
  BY Quantities, QuantitiesNext
<1>3. Taken(e)' = Taken(e) /\ Taken(e) \in Nat /\ BufferSize \in Nat
  BY <1>1, RelayAssumption DEF Taken
<1>4. counted'[e] = counted[e]
  OBVIOUS
<1>5. counted'[e] <= Len(sent'[e]) /\ Base(e)' <= counted'[e] + BufferSize
  BY <1>1, <1>2, <1>3, <1>4 DEF Metered
<1>6. Flowing(e)' => counted'[e] + Taken(e)' + Len(inq'[e]) <= Len(sent'[e])
  <2> DEFINE c == counted[e]
             t == Taken(e)
             q == Len(inq[e])
             s == Len(sent[e])
             r == Len(inq'[e])
             u == Len(sent'[e])
  <2>1. Flowing(e)' => c + t + q <= s /\ r + s <= q + u
    BY DEF Metered
  <2>2. c \in Nat /\ t \in Nat /\ q \in Nat /\ s \in Nat /\ r \in Nat /\ u \in Nat
    BY <1>1, <1>2, <1>3
  <2> HIDE DEF c, t, q, s, r, u
  <2>3. Flowing(e)' => c + t + r <= u
    BY <2>1, <2>2
  <2> QED
    BY <1>3, <1>4, <2>3 DEF c, t, r, u
<1>7. stage' \in Relaying => Base(e)' + Held(e)' <= counted'[e] + Taken(e)'
  BY <1>1, <1>2, <1>3, <1>4 DEF Metered
<1> QED
  BY <1>5, <1>6, <1>7 DEF Metered

\* The worker goes to another stage without touching a byte.
LEMMA MeterStage ==
  ASSUME RelayInv, TypeOK', NEW e \in End, Metered(e),
         \/ Connect \/ HandshakeFails \/ Poll \/ IdleTimeout \/ WriteFails \/ EndTurn
         \/ ReceiveEnd \/ Answer \/ UNCHANGED vars
  PROVE  Metered(e)'
<1>1. /\ Flows /\ Flows' /\ UNCHANGED <<sent, got, outq, chunk, size, counted>>
      /\ Len(inq[e]) \in Nat /\ Len(sent[e]) \in Nat
  BY TypesFlow, Quantities
  DEF RelayInv, Connect, HandshakeFails, Poll, IdleTimeout, WriteFails, EndTurn, ReceiveEnd,
      Answer, vars, streamVars, loopVars
<1>2. Base(e)' = Base(e) /\ Base(e) \in Nat
  BY <1>1, Quantities DEF Base
<1>3. CASE WriteFails
  <2>1. /\ stage = "write" /\ stage' = "failed" /\ inq' = inq
        /\ ~Flowing(e)' /\ stage' \notin Relaying /\ stage \in Relaying
    BY <1>3 DEF WriteFails, Flowing, Relaying, Handshaking, Reading
  <2> QED
    BY <1>1, <1>2, <2>1 DEF Metered
<1>4. CASE \/ Connect \/ HandshakeFails \/ Poll \/ IdleTimeout \/ EndTurn \/ ReceiveEnd
           \/ Answer \/ UNCHANGED vars
  <2>1. Held(e)' = Held(e) /\ (Writing(e)' <=> Writing(e))
    BY <1>1, <1>4
    DEF Connect, HandshakeFails, Poll, IdleTimeout, EndTurn, ReceiveEnd, Answer, vars, Held,
        Writing, Source, Reading, loopVars
  <2>2. (Flowing(e)' => Flowing(e)) /\ (stage' \in Relaying => stage \in Relaying)
    BY <1>4
    DEF Connect, HandshakeFails, Poll, IdleTimeout, EndTurn, ReceiveEnd, Answer, vars,
        Flowing, Relaying, Handshaking, Reading
  <2>3. Flowing(e)' => inq'[e] = inq[e]
    <3>1. CASE Answer
      <4>1. e = "client" => inq'[e] = inq[e]
        BY <3>1, ZenonT(30) DEF Answer, Answered, RelayInv, TypeOK
      <4> QED
        BY <3>1, <4>1 DEF Answer, Flowing, Relaying, Handshaking, Reading
    <3> QED
      BY <1>4, <3>1
      DEF Connect, HandshakeFails, Poll, IdleTimeout, EndTurn, ReceiveEnd, vars
  <2> QED
    BY <1>1, <1>2, <2>1, <2>2, <2>3, MeterKept
<1> QED
  BY <1>3, <1>4

\* The bytes that recv() takes from the queue of the handshake: what is left when the last
\* one of the answer has been read is payload.
LEMMA MeterRead ==
  ASSUME RelayInv, TypeOK', NEW k \in 1 .. need, Read(k), NEW e \in End, Metered(e)
  PROVE  Metered(e)'
<1>1. /\ Flows /\ Flows' /\ Stream(e) /\ Answers
      /\ Len(inq[e]) \in Nat /\ Len(sent[e]) \in Nat /\ counted[e] \in Nat
  BY TypesFlow, Quantities DEF RelayInv
<1>2. /\ UNCHANGED <<sent, got, closed, outq, ready, chunk, size, counted>>
      /\ stage \in Reading /\ k <= Len(inq["server"]) /\ k <= need
      /\ inq' = [inq EXCEPT !["server"] = SubSeq(@, k + 1, Len(@))]
  BY DEF Read, loopVars, streamVars
<1>3. /\ stage' \in Reading \cup {"poll", "failed"}
      /\ stage' = "poll" => stage = "address" /\ k = need
  <2>1. CASE k < need
    BY <1>2, <2>1 DEF Read, Reading
  <2>2. CASE ~(k < need)
    <3>1. k = need
      BY <1>1, <1>2, <2>2 DEF Flows
    <3>2. PICK bytes : stage' = AfterRead(stage, bytes).stage
      BY <2>2 DEF Read
    <3> QED
      BY <1>2, <3>1, <3>2, AfterReadIs DEF Reading
  <2> QED
    BY <2>1, <2>2
<1>4. /\ Held(e)' = 0 /\ ~Writing(e)' /\ ~Writing(e) /\ counted[e] = 0
      /\ got[Other(e)] = <<>> /\ outq[Other(e)] = <<>>
  <2>1. counted[e] = 0
    BY <1>1, <1>2 DEF Stream, Quiet, Handshaking
  <2>2. Stream(Other(e)) /\ Other(e) \in End
    BY OtherEnd DEF RelayInv
  <2>3. got[Other(e)] = <<>> /\ outq[Other(e)] = <<>>
    BY <1>2, <2>2 DEF Stream, Quiet, Handshaking
  <2> QED
    BY <1>2, <1>3, <2>1, <2>3 DEF Held, Writing, Reading
<1>5. Base(e)' = 0 /\ Taken(e)' = 0 /\ Taken(e) = 0 /\ counted'[e] = 0
  <2>1. Base(e)' = Len(<<>>) + Len(<<>>)
    BY <1>2, <1>4 DEF Base
  <2> QED
    BY <1>2, <1>4, <2>1 DEF Taken
<1>6. Flowing(e)' => Len(inq'[e]) <= Len(sent[e])
  <2>1. CASE e = "client"
    <3>1. inq'[e] = inq[e] /\ Flowing(e)
      BY <1>1, <1>2, <2>1 DEF Flows, Flowing, Handshaking
    <3> QED
      BY <1>1, <1>4, <1>5, <3>1 DEF Metered
  <2>2. CASE e = "server" /\ stage' = "poll"
    <3>1. PICK a \in Grant : need <= Len(a) /\ Reached(a, Len(a) - need)
      BY <1>1, <1>3, <2>2 DEF Answers, Addressed
    <3>2. a \in Seq(Int) /\ read = <<>> /\ k = need
      <4>1. a \in Seq(Int)
        BY GrantForms, ByteSeq, Zenon
      <4> QED
        BY <1>1, <1>3, <2>2, <4>1 DEF Answers, Addressed
    <3> DEFINE s == sent["server"]
               q == inq["server"]
               r == a \o s
    <3>3. /\ s \in Seq(Int) /\ q \in Seq(Int) /\ Len(s) \in Nat /\ Len(q) \in Nat
          /\ Len(a) \in Nat /\ Len(r) = Len(a) + Len(s) /\ k \in 0 .. Len(q)
      BY <1>1, <1>2, <3>2, ServerFlow
    <3>4. Len(inq'[e]) = Len(q) - k
      <4>1. inq'[e] = SubSeq(q, k + 1, Len(q))
        BY <1>1, <1>2, <2>2 DEF Flows
      <4> HIDE DEF q
      <4>2. Len(SubSeq(q, k + 1, Len(q))) = Len(q) - k
        BY <3>3, Parts, Zenon
      <4> QED
        BY <4>1, <4>2
    <3>5. Len(a) - need + Len(read) + Len(q) <= Len(r)
      BY <3>1 DEF Reached, At
    <3>6. Len(read) = 0
      BY <3>2
    <3>7. Len(q) - k <= Len(s)
      <4> HIDE DEF r, q, s
      <4> QED
        BY <3>2, <3>3, <3>5, <3>6
    <3> QED
      BY <2>2, <3>4, <3>7
  <2>3. CASE e = "server" /\ stage' # "poll"
    BY <1>3, <2>3 DEF Flowing, Relaying, Reading
  <2> QED
    BY <2>1, <2>2, <2>3 DEF End
<1>7. Len(inq'[e]) \in Nat /\ BufferSize \in Nat
  BY <1>1, RelayAssumption DEF Flows
<1> QED
  BY <1>1, <1>2, <1>4, <1>5, <1>6, <1>7 DEF Metered

\* recv() moves bytes of the queue into the buffer.
LEMMA MeterReceive ==
  ASSUME RelayInv, TypeOK', NEW k \in 1 .. BufferSize, Receive(k), NEW e \in End, Metered(e)
  PROVE  Metered(e)'
<1>1. Flows /\ Flows'
  BY TypesFlow DEF RelayInv
<1>2. /\ UNCHANGED <<sent, got, outq, ready, counted>>
      /\ stage = "turn" /\ stage' = "write" /\ ready # {} /\ size' = k
  BY DEF Receive, streamVars
<1>3. Source \in End /\ Source' = Source /\ k \in 1 .. Len(inq[Source])
  <2>1. Source \in End /\ Source' = Source
    BY <1>2 DEF Source, End, RelayInv, TypeOK
  <2>2. inq[Source] \in Seq(Int) /\ k <= Len(inq[Source])
    BY <1>1, <2>1 DEF Flows, Receive
  <2> QED
    BY <2>1, <2>2
<1>4. /\ Base(e)' = Base(e) /\ ~Writing(e) /\ Held(e) = 0 /\ (Writing(e)' <=> e = Source)
      /\ Flowing(e) /\ Flowing(e)' /\ stage \in Relaying /\ stage' \in Relaying
  BY <1>2, <1>3 DEF Base, Held, Writing, Flowing, Relaying
<1>5. /\ Base(e) \in Nat /\ counted[e] \in Nat /\ Len(inq[e]) \in Nat /\ Len(sent[e]) \in Nat
      /\ Taken(e) = 0
  BY <1>1, <1>4, Quantities DEF Taken
<1>6. CASE e = Source
  <2> DEFINE t == inq[e]
  <2>1. /\ t \in Seq(Int) /\ k \in 0 .. Len(t)
        /\ chunk' = SubSeq(t, 1, k) /\ inq'[e] = SubSeq(t, k + 1, Len(t))
    <3>1. t \in Seq(Int) /\ chunk' = SubSeq(t, 1, k) /\ inq'[e] = SubSeq(t, k + 1, Len(t))
      BY <1>1, <1>6 DEF Receive, Flows
    <3>2. k \in 0 .. Len(t)
      BY <1>3, <1>6
    <3> QED
      BY <3>1, <3>2
  <2> HIDE DEF t
  <2>2. Len(chunk') = k /\ Len(inq'[e]) = Len(t) - k
    BY <2>1, Parts
  <2>3. Held(e)' = k /\ Taken(e)' = k
    BY <1>2, <1>4, <1>6, <2>2 DEF Held, Taken
  <2>4. Len(inq'[e]) = Len(inq[e]) - k
    BY <2>2 DEF t
  <2> QED
    BY <1>2, <1>4, <1>5, <2>3, <2>4 DEF Metered
<1>7. CASE e # Source
  <2>1. inq'[e] = inq[e]
    BY <1>3, <1>7 DEF Receive, RelayInv, TypeOK
  <2>2. Held(e)' = 0 /\ Taken(e)' = 0
    BY <1>4, <1>7 DEF Held, Taken
  <2> QED
    BY <1>2, <1>4, <1>5, <2>1, <2>2 DEF Metered
<1> QED
  BY <1>6, <1>7

\* send() moves a byte of the buffer to the other end's socket.
LEMMA MeterWrite ==
  ASSUME RelayInv, TypeOK', Write, NEW e \in End, Metered(e) PROVE Metered(e)'
<1> DEFINE o == Other(e)
<1>1. /\ o \in End /\ Source \in End /\ Flows /\ Flows' /\ (\A f \in End : f # e => Other(f) # o)
      /\ BufferSize \in Nat
  BY OtherEnd, SourceOpen, TypesFlow, RelayAssumption DEF Write, RelayInv
<1>2. /\ UNCHANGED <<sent, got, inq, stage, ready, size, counted>>
      /\ stage = "write" /\ chunk # <<>> /\ chunk' = Tail(chunk)
  BY DEF Write, streamVars
<1>3. /\ (Writing(e)' <=> Writing(e)) /\ (Flowing(e)' <=> Flowing(e)) /\ Taken(e)' = Taken(e)
      /\ stage \in Relaying
  BY <1>2 DEF Writing, Flowing, Source, Taken, Relaying
<1>4. /\ Base(e) \in Nat /\ Held(e) \in Nat /\ counted[e] \in Nat /\ size \in Nat
      /\ outq[o] \in Seq(Int) /\ chunk \in Seq(Int) /\ Len(got[o]) \in Nat
  BY <1>1, Quantities
<1>5. CASE Writing(e)
  <2>1. outq'[o] = Append(outq[o], Head(chunk))
    BY <1>1, <1>5 DEF Write, Writing, Flows
  <2>2. Len(outq'[o]) = Len(outq[o]) + 1 /\ Len(chunk') = Len(chunk) - 1 /\ Len(outq[o]) \in Nat
        /\ Len(chunk) \in Nat
    BY <1>2, <1>4, <2>1
  <2>3. Base(e)' = Base(e) + 1 /\ Held(e)' = Held(e) - 1
    <3> DEFINE g == Len(got[o])
               u == Len(outq[o])
               v == Len(outq'[o])
    <3>1. Base(e) = g + u /\ Base(e)' = g + v
      BY <1>2 DEF Base
    <3>2. Held(e) = Len(chunk) /\ Held(e)' = Len(chunk')
      BY <1>3, <1>5 DEF Held
    <3>3. g \in Nat /\ u \in Nat /\ v = u + 1 /\ Len(chunk') = Len(chunk) - 1
      BY <1>4, <2>2
    <3> HIDE DEF g, u, v
    <3>4. Base(e)' = Base(e) + 1
      BY <3>1, <3>3
    <3> QED
      BY <3>2, <3>3, <3>4
  <2>4. Held(e)' \in Nat /\ Taken(e) <= BufferSize /\ Taken(e) \in Nat
    <3>1. size <= BufferSize
      BY DEF RelayInv, TypeOK
    <3>2. chunk' \in Seq(Int)
      BY <1>1 DEF Flows
    <3>3. Held(e)' = Len(chunk')
      BY <1>3, <1>5 DEF Held
    <3> QED
      BY <1>4, <1>5, <3>1, <3>2, <3>3 DEF Taken
  <2> DEFINE x == Base(e)
             y == Held(e)
             t == Taken(e)
             c == counted[e]
  <2>5. x + y <= c + t
    BY <1>3 DEF Metered
  <2>6. x \in Nat /\ y \in Nat /\ t \in Nat /\ c \in Nat /\ y - 1 \in Nat /\ t <= BufferSize
    BY <1>4, <2>3, <2>4
  <2> HIDE DEF x, y, t, c
  <2>7. x + 1 <= c + BufferSize /\ (x + 1) + (y - 1) <= c + t
    BY <1>1, <2>5, <2>6
  <2>8. Base(e)' <= counted'[e] + BufferSize /\ Base(e)' + Held(e)' <= counted'[e] + Taken(e)'
    BY <1>2, <1>3, <2>3, <2>7 DEF x, y, t, c
  <2> QED
    BY <1>2, <1>3, <2>8 DEF Metered
<1>6. CASE ~Writing(e)
  <2>1. outq'[o] = outq[o]
    BY <1>1, <1>2, <1>6 DEF Write, Writing, Flows
  <2>2. Base(e)' = Base(e) /\ Held(e)' = Held(e)
    BY <1>2, <1>3, <1>6, <2>1 DEF Base, Held
  <2> QED
    BY <1>2, <1>3, <2>2 DEF Metered
<1> QED
  BY <1>5, <1>6

\* fp_stats_add counts what was received, when write_all has sent it.
LEMMA MeterCount ==
  ASSUME RelayInv, TypeOK', Count, NEW e \in End, Metered(e) PROVE Metered(e)'
<1>1. Flows /\ Flows' /\ BufferSize \in Nat
  BY TypesFlow, RelayAssumption DEF RelayInv
<1>2. /\ UNCHANGED <<sent, got, inq, outq>> /\ chunk = <<>>
      /\ stage = "write" /\ stage' = "turn"
  BY DEF Count, streamVars
<1>3. Source \in End /\ Len(chunk) = 0
  BY <1>2, SourceOpen
<1>4. /\ Base(e)' = Base(e) /\ Held(e)' = 0 /\ Held(e) = 0 /\ Taken(e)' = 0
      /\ Flowing(e) /\ Flowing(e)' /\ stage \in Relaying /\ stage' \in Relaying
      /\ (Writing(e) <=> e = Source)
      /\ Base(e) \in Nat /\ counted[e] \in Nat /\ size \in Nat
      /\ Len(inq[e]) \in Nat /\ Len(sent[e]) \in Nat
  BY <1>1, <1>2, <1>3, Quantities DEF Base, Held, Writing, Taken, Flowing, Relaying
<1>5. counted'[e] = counted[e] + Taken(e) /\ Taken(e) \in Nat
  <2>1. counted' = [counted EXCEPT ![Source] = @ + size] /\ counted \in [End -> Nat]
    BY <1>1 DEF Count, Flows
  <2>2. CASE e = Source
    BY <1>4, <2>1, <2>2 DEF Taken
  <2>3. CASE e # Source
    BY <1>4, <2>1, <2>3 DEF Taken
  <2> QED
    BY <2>2, <2>3
<1> QED
  BY <1>1, <1>2, <1>4, <1>5 DEF Metered

\* The sockets are closed, after the end or anywhere by a signal.
LEMMA MeterHangup ==
  ASSUME RelayInv, TypeOK', NEW failed \in BOOLEAN, Hangup(failed), NEW e \in End, Metered(e)
  PROVE  Metered(e)'
<1> DEFINE o == Other(e)
<1>1. Flows /\ o \in End
  BY OtherEnd, TypesFlow DEF RelayInv
<1>2. /\ UNCHANGED <<sent, got, counted>> /\ stage' = "done"
      /\ outq'[o] = IF inq[o] = <<>> THEN outq[o] ELSE <<>>
  BY <1>1 DEF Hangup, loopVars
<1>3. ~Flowing(e)' /\ stage' \notin Relaying
  BY <1>2 DEF Flowing, Relaying, Handshaking, Reading
<1>4. Base(e)' <= Base(e) /\ Base(e)' \in Nat
  <2> DEFINE g == Len(got[o])
             u == Len(outq[o])
             v == Len(outq'[o])
  <2>1. Base(e)' = g + v /\ Base(e) = g + u
    BY <1>2 DEF Base
  <2>2. g \in Nat /\ u \in Nat /\ v \in {0, u}
    <3>1. Len(<<>>) = 0
      OBVIOUS
    <3> QED
      BY <1>1, <1>2, <3>1, Quantities
  <2> HIDE DEF g, u, v
  <2> QED
    BY <2>1, <2>2
<1>5. Base(e) \in Nat /\ counted[e] \in Nat /\ BufferSize \in Nat
  BY <1>1, Quantities, RelayAssumption
<1> QED
  BY <1>2, <1>3, <1>4, <1>5 DEF Metered

\* Steps of the two ends: what they send is still to be received, what a reset loses was
\* not counted, and what is lost on the way to an end makes the table no less true.
LEMMA MeterEnds ==
  ASSUME RelayInv, RelayInv', NEW f \in End, EndStep(f), NEW e \in End, Metered(e)
  PROVE  Metered(e)'
<1> DEFINE o == Other(e)
<1>1. Flows /\ Flows' /\ o \in End /\ o # e /\ (f = e \/ f = o)
  BY OtherEnd, TypesFlow DEF RelayInv
<1>2. UNCHANGED <<stage, ready, chunk, size, counted>>
  BY DEF EndStep, Send, Finish, Reset, ReadByte, ReadEnd, loopVars
<1>3. /\ Held(e)' = Held(e) /\ (Writing(e)' <=> Writing(e)) /\ (Flowing(e)' <=> Flowing(e))
  BY <1>2 DEF Held, Writing, Source, Flowing
<1>4. /\ Base(e) \in Nat /\ Len(inq[e]) \in Nat /\ Len(sent[e]) \in Nat
      /\ got[o] \in Seq(Int) /\ outq[o] \in Seq(Int)
  BY <1>1, Quantities
<1>5. CASE Send(f)
  <2>1. PICK b \in Byte :
          /\ sent' = [sent EXCEPT ![f] = Append(@, b)]
          /\ inq' = IF stage = "done" THEN inq ELSE [inq EXCEPT ![f] = Append(@, b)]
    BY <1>5 DEF Send
  <2>2. Base(e)' = Base(e)
    BY <1>5 DEF Send, Base
  <2>3. Flowing(e) => stage # "done"
    BY DEF Flowing, Relaying, Handshaking, Reading
  <2>4. CASE f = e
    <3>1. b \in Int /\ sent[e] \in Seq(Int) /\ inq[e] \in Seq(Int)
      BY <1>1, RelayAssumption DEF Flows
    <3>2. sent'[e] = Append(sent[e], b) /\ (Flowing(e) => inq'[e] = Append(inq[e], b))
      BY <1>1, <2>1, <2>3, <2>4 DEF Flows
    <3>3. /\ Len(sent'[e]) = Len(sent[e]) + 1
          /\ Flowing(e) => Len(inq'[e]) = Len(inq[e]) + 1
      BY <3>1, <3>2
    <3>4. /\ Len(sent[e]) <= Len(sent'[e]) /\ Base(e)' <= Base(e)
          /\ Flowing(e)' => Len(inq'[e]) + Len(sent[e]) <= Len(inq[e]) + Len(sent'[e])
      <4> DEFINE q == Len(inq[e])
                 s == Len(sent[e])
                 r == Len(inq'[e])
                 u == Len(sent'[e])
      <4>1. q \in Nat /\ s \in Nat /\ u = s + 1 /\ (Flowing(e)' => r = q + 1)
        BY <1>3, <1>4, <3>3
      <4> HIDE DEF q, s, r, u
      <4>2. s <= u /\ (Flowing(e)' => r + s <= q + u)
        BY <4>1
      <4>3. Base(e)' <= Base(e)
        BY <1>4, <2>2
      <4> QED
        BY <4>2, <4>3, Zenon DEF q, s, r, u
    <3> QED
      BY <1>1, <1>2, <1>3, <3>4, MeterKept
  <2>5. CASE f = o
    <3>1. sent'[e] = sent[e] /\ inq'[e] = inq[e]
      BY <1>1, <2>1, <2>5 DEF Flows
    <3>2. /\ Len(sent[e]) <= Len(sent'[e]) /\ Base(e)' <= Base(e)
          /\ Len(inq'[e]) + Len(sent[e]) <= Len(inq[e]) + Len(sent'[e])
      BY <1>4, <2>2, <3>1
    <3> QED
      BY <1>1, <1>2, <1>3, <3>2, MeterKept
  <2> QED
    BY <1>1, <2>4, <2>5
<1>6. CASE Finish(f) \/ ReadEnd(f)
  <2>1. UNCHANGED <<sent, got, inq, outq>> /\ Base(e)' = Base(e)
    BY <1>6 DEF Finish, ReadEnd, Base
  <2> QED
    BY <1>1, <1>2, <1>3, <1>4, <2>1, MeterKept
<1>7. CASE Reset(f)
  <2>1. /\ UNCHANGED <<sent, got>> /\ outq' = [outq EXCEPT ![f] = <<>>]
    BY <1>7 DEF Reset
  <2>2. PICK n \in 0 .. Len(inq[f]) : inq' = [inq EXCEPT ![f] = SubSeq(@, 1, n)]
    BY <1>7 DEF Reset
  <2>3. Len(inq'[e]) <= Len(inq[e])
    <3>1. CASE f = e
      <4> DEFINE t == inq[e]
      <4>1. inq'[e] = SubSeq(t, 1, n) /\ t \in Seq(Int) /\ n \in 0 .. Len(t)
        BY <1>1, <2>2, <3>1 DEF Flows
      <4> HIDE DEF t
      <4>2. Len(SubSeq(t, 1, n)) = n
        BY <4>1, Parts, Zenon
      <4>3. Len(inq'[e]) <= Len(t)
        BY <4>1, <4>2
      <4> QED
        BY <4>3 DEF t
    <3>2. CASE f = o
      BY <1>1, <1>4, <2>2, <3>2 DEF Flows
    <3> QED
      BY <1>1, <3>1, <3>2
  <2>4. Base(e)' <= Base(e)
    <3>1. outq'[o] = outq[o] \/ outq'[o] = <<>>
      BY <1>1, <2>1 DEF Flows
    <3>2. Len(outq[o]) \in Nat /\ Len(got[o]) \in Nat /\ Len(<<>>) = 0
      BY <1>4
    <3>3. Len(outq'[o]) <= Len(outq[o]) /\ Len(outq'[o]) \in Nat
      BY <3>1, <3>2
    <3> QED
      BY <2>1, <3>2, <3>3 DEF Base
  <2>5. Len(inq'[e]) \in Nat
    BY <1>1 DEF Flows
  <2> QED
    BY <1>1, <1>2, <1>3, <1>4, <2>1, <2>3, <2>4, <2>5, MeterKept
<1>8. CASE ReadByte(f)
  <2>1. /\ UNCHANGED <<sent, inq>> /\ outq[f] # <<>>
        /\ got' = [got EXCEPT ![f] = Append(@, Head(outq[f]))]
        /\ outq' = [outq EXCEPT ![f] = Tail(@)]
    BY <1>8 DEF ReadByte
  <2>2. Base(e)' = Base(e)
    <3>1. CASE f = e
      <4>1. got'[o] = got[o] /\ outq'[o] = outq[o]
        BY <1>1, <2>1, <3>1 DEF Flows
      <4> QED
        BY <4>1 DEF Base
    <3>2. CASE f = o
      <4> DEFINE t == got[o]
                 u == outq[o]
      <4>1. /\ t \in Seq(Int) /\ u \in Seq(Int) /\ u # <<>>
            /\ got'[o] = Append(t, Head(u)) /\ outq'[o] = Tail(u)
        BY <1>1, <1>4, <2>1, <3>2 DEF Flows
      <4> HIDE DEF t, u
      <4>2. Len(got'[o]) = Len(t) + 1 /\ Len(outq'[o]) = Len(u) - 1 /\ Len(t) \in Nat
            /\ Len(u) \in Nat
        BY <4>1
      <4>3. Len(got'[o]) + Len(outq'[o]) = Len(t) + Len(u)
        BY <4>2
      <4> QED
        BY <4>3 DEF Base, t, u
    <3> QED
      BY <1>1, <3>1, <3>2
  <2> QED
    BY <1>1, <1>2, <1>3, <1>4, <2>1, <2>2, MeterKept
<1> QED
  BY <1>5, <1>6, <1>7, <1>8 DEF EndStep

\* In the initial states nothing was sent, and every step keeps the meter.
LEMMA MeterAlways == Spec => [](\A e \in End : Metered(e))
<1>1. ASSUME Init, NEW e \in End PROVE Metered(e)
  <2>1. /\ sent[e] = <<>> /\ got[Other(e)] = <<>> /\ outq[Other(e)] = <<>> /\ inq[e] = <<>>
        /\ counted[e] = 0 /\ stage = "connect"
    BY <1>1, OtherEnd DEF Init
  <2>2. Len(<<>>) = 0 /\ BufferSize \in Nat /\ stage \notin Relaying
    BY <2>1, RelayAssumption DEF Relaying
  <2>3. Base(e) = 0 /\ Taken(e) = 0
    <3>1. Base(e) = Len(<<>>) + Len(<<>>)
      BY <2>1 DEF Base
    <3> QED
      BY <2>1, <2>2, <3>1 DEF Taken, Writing
  <2>4. Len(sent[e]) = 0 /\ Len(inq[e]) = 0
    BY <2>1, <2>2
  <2> QED
    BY <2>1, <2>2, <2>3, <2>4 DEF Metered
<1>2. ASSUME RelayInv, RelayInv', [Next]_vars, NEW e \in End, Metered(e) PROVE Metered(e)'
  <2> USE <1>2
  <2>0. TypeOK'
    BY DEF RelayInv
  <2>1. ASSUME NEW k \in 1 .. need, Read(k) PROVE Metered(e)'
    BY <2>0, <2>1, MeterRead
  <2>2. ASSUME NEW k \in 1 .. BufferSize, Receive(k) PROVE Metered(e)'
    BY <2>0, <2>2, MeterReceive
  <2>3. CASE \/ Connect \/ HandshakeFails \/ Poll \/ IdleTimeout \/ WriteFails \/ EndTurn
             \/ ReceiveEnd \/ Answer \/ UNCHANGED vars
    BY <2>0, <2>3, MeterStage
  <2>4. CASE Write \/ Count
    BY <2>0, <2>4, MeterWrite, MeterCount
  <2>5. CASE Close \/ Killed
    BY <2>0, <2>5, MeterHangup DEF Close, Killed
  <2>6. ASSUME NEW f \in End, EndStep(f) PROVE Metered(e)'
    BY <2>6, MeterEnds
  <2> QED
    BY <2>1, <2>2, <2>3, <2>4, <2>5, <2>6 DEF Next, WorkerStep
<1> DEFINE All == \A e \in End : Metered(e)
<1>3. Init => All
  BY <1>1
<1>4. RelayInv /\ RelayInv' /\ [Next]_vars /\ All => All'
  BY <1>2
<1> QED
  BY <1>3, <1>4, RelayInvHolds, PTL DEF Spec

\* The traffic table never counts more than an end has sent and lags behind what the other
\* end has by the buffer at most, through resets, timeouts and kills; undisturbed it never
\* runs ahead of what was passed on and has all of it in the end.  For every size of the
\* two buffers.
THEOREM RelayAccounts == Spec => []Accounted
<1> DEFINE All == \A e \in End : Metered(e)
<1>1. RelayInv /\ All => Accounted
  <2> SUFFICES ASSUME RelayInv, All, NEW e \in End
               PROVE  /\ counted[e] <= Len(sent[e])
                      /\ Len(got[Other(e)]) <= counted[e] + BufferSize
                      /\ ~broken =>
                           /\ counted[e] <= Len(got[Other(e)]) + Len(outq[Other(e)])
                           /\ stage = "done" => counted[e] = Len(sent[e])
    BY DEF Accounted
  <2> DEFINE g == Len(got[Other(e)])
             u == Len(outq[Other(e)])
             c == counted[e]
  <2>1. g \in Nat /\ u \in Nat /\ c \in Nat /\ BufferSize \in Nat /\ g + u <= c + BufferSize
    BY TypesFlow, Quantities, RelayAssumption DEF RelayInv, Metered, Base
  <2>2. g <= c + BufferSize
    <3> HIDE DEF g, u, c
    <3> QED
      BY <2>1
  <2> QED
    BY <2>2 DEF RelayInv, Stream, Counts, Base, Metered
<1> QED
  BY <1>1, RelayInvHolds, MeterAlways, PTL

-----------------------------------------------------------------------------
(* The tunnel.                                                               *)

\* The two modules mean the same ends.
LEMMA TunnelEnds == T!End = End /\ \A e \in End : T!Other(e) = Other(e)
BY DEF T!End, T!Other, End, Other

\* Steps that the two ends do not see.
LEMMA TunnelStutters ==
  ASSUME UNCHANGED <<sent, got, closed, eof, broken>>
  PROVE  UNCHANGED T!vars
BY DEF T!vars

\* The next byte in an end's socket is the next byte that the other end has sent.
LEMMA TunnelDelivers ==
  ASSUME RelayInv, NEW e \in End, ReadByte(e)
  PROVE  T!Deliver(e)
<1> DEFINE o == Other(e)
<1>1. o \in End /\ Other(o) = e /\ Stream(o) /\ Flows
  BY OtherEnd, TypesFlow DEF RelayInv
<1>2. /\ UNCHANGED <<sent, closed, eof, broken>> /\ outq[e] # <<>>
      /\ got' = [got EXCEPT ![e] = Append(@, Head(outq[e]))]
  BY DEF ReadByte
<1>3. ~eof[e] /\ At(sent[o], 0, got[e]) /\ At(sent[o], Len(got[e]), outq[e])
  BY <1>1, <1>2 DEF Stream, Delivered, Passed
<1>4. Head(outq[e]) = sent[o][Len(got[e]) + 1] /\ Len(got[e]) < Len(sent[o])
  <2> DEFINE s == sent[o]
             t == got[e]
             u == outq[e]
  <2>1. s \in Seq(Int) /\ t \in Seq(Int) /\ u \in Seq(Int) /\ u # <<>>
    BY <1>1, <1>2 DEF Flows
  <2>2. At(s, 0, t) /\ At(s, Len(t), u)
    BY <1>3
  <2> HIDE DEF s, t, u
  <2>3. 0 + Len(t) = Len(t)
    BY <2>1
  <2>4. 0 \in Nat /\ At(s, 0 + Len(t), u)
    BY <2>2, <2>3
  <2>5. Head(u) = s[0 + Len(t) + 1] /\ 0 + Len(t) < Len(s)
    BY <2>1, <2>2, <2>4, AtMoves
  <2>6. Head(u) = s[Len(t) + 1] /\ Len(t) < Len(s)
    BY <2>3, <2>5, Zenon
  <2> QED
    BY <2>6 DEF s, t, u
<1>5. got' = [got EXCEPT ![e] = Append(@, sent[o][Len(@) + 1])]
  BY <1>1, <1>2, <1>4 DEF Flows
<1> QED
  BY <1>2, <1>3, <1>4, <1>5, TunnelEnds DEF T!Deliver

\* An end is told that its stream has ended when it has all of it, or the connection is
\* broken.
LEMMA TunnelEndsStream ==
  ASSUME RelayInv, NEW e \in End, ReadEnd(e)
  PROVE  T!EndOfStream(e)
<1> DEFINE o == Other(e)
<1>1. o \in End /\ Other(o) = e /\ Stream(o) /\ Flows
  BY OtherEnd, TypesFlow DEF RelayInv
<1>2. /\ UNCHANGED <<sent, got, closed, broken>> /\ eof' = [eof EXCEPT ![e] = TRUE]
      /\ outq[e] = <<>> /\ shut[e]
  BY DEF ReadEnd
<1>3. ASSUME ~broken PROVE closed[o] # "open" /\ got[e] = sent[o]
  <2>1. closed[o] # "open" /\ Base(o) = Len(sent[o]) /\ At(sent[o], 0, got[e])
    BY <1>1, <1>2, <1>3 DEF Stream, Passed, Delivered
  <2>2. sent[o] \in Seq(Int) /\ got[e] \in Seq(Int) /\ Len(got[e]) \in Nat
    BY <1>1 DEF Flows
  <2>3. Len(got[e]) = Len(sent[o])
    <3>1. Base(o) = Len(got[e]) + Len(<<>>)
      BY <1>1, <1>2 DEF Base
    <3>2. Len(got[e]) + Len(<<>>) = Len(got[e])
      BY <2>2
    <3> QED
      BY <2>1, <3>1, <3>2, Zenon
  <2> QED
    BY <2>1, <2>2, <2>3, AtWhole, Zenon
<1>4. \A f \in End : closed'[f] # "open" <=> closed[f] # "open"
  BY <1>2
<1> QED
  BY <1>1, <1>2, <1>3, TunnelEnds DEF T!EndOfStream

\* Every step of the relay is a step of the tunnel or one that its ends do not see.
LEMMA TunnelStep == RelayInv /\ [Next]_vars => [T!Next]_(T!vars)
<1> SUFFICES ASSUME RelayInv, [Next]_vars PROVE [T!Next]_(T!vars)
  OBVIOUS
<1> USE DEF streamVars
<1>1. closed \in [End -> {"open", "fin", "reset"}] /\ broken \in BOOLEAN
  BY DEF RelayInv, TypeOK
<1>2. ASSUME NEW e \in End, Send(e) PROVE T!Next
  <2>1. T!Send(e)
    BY <1>2 DEF Send, T!Send
  <2> QED
    BY <2>1, TunnelEnds DEF T!Next
<1>3. ASSUME NEW e \in End, Finish(e) \/ Reset(e) PROVE T!Next
  <2>1. T!Finish(e)
    BY <1>1, <1>3 DEF Finish, Reset, T!Finish
  <2> QED
    BY <2>1, TunnelEnds DEF T!Next
<1>4. ASSUME NEW e \in End, ReadByte(e) \/ ReadEnd(e) PROVE T!Next
  BY <1>4, TunnelDelivers, TunnelEndsStream, TunnelEnds DEF T!Next
<1>5. ASSUME NEW failed \in BOOLEAN, Hangup(failed) PROVE [T!Next]_(T!vars)
  <2>1. CASE broken' = TRUE
    <3>1. T!Break
      BY <1>5, <2>1 DEF Hangup, T!Break
    <3> QED
      BY <3>1 DEF T!Next
  <2>2. CASE broken' = broken
    BY <1>5, <2>2, TunnelStutters DEF Hangup
  <2> QED
    BY <1>1, <1>5, <2>1, <2>2 DEF Hangup
<1>6. CASE Close \/ Killed
  BY <1>5, <1>6 DEF Close, Killed
<1>7. CASE UNCHANGED <<sent, got, closed, eof, broken>>
  BY <1>7, TunnelStutters
<1>8. CASE \/ Connect \/ HandshakeFails \/ (\E k \in 1 .. need : Read(k))
           \/ Poll \/ IdleTimeout \/ (\E k \in 1 .. BufferSize : Receive(k)) \/ ReceiveEnd
           \/ Write \/ WriteFails \/ Count \/ EndTurn \/ Answer \/ UNCHANGED vars
  BY <1>7, <1>8 DEF Connect, HandshakeFails, Read, Poll, IdleTimeout, Receive, ReceiveEnd,
                    Write, WriteFails, Count, EndTurn, Answer, vars
<1> QED
  BY <1>2, <1>3, <1>4, <1>6, <1>8 DEF Next, WorkerStep, EndStep

\* The relay implements the tunnel: for every size of the buffers, every answer of the
\* server and streams of any length no byte is lost, duplicated, reordered or invented,
\* whatever the ends do.
THEOREM RelayImplementsTunnel == Spec => RefinesTunnel
<1>1. Init => T!Init
  BY DEF Init, T!Init, T!End, End
<1> QED
  BY <1>1, RelayInvHolds, TunnelStep, PTL DEF Spec, RefinesTunnel, T!Spec
=============================================================================
