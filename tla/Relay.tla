-------------------------------- MODULE Relay --------------------------------
(***************************************************************************)
(* One worker of the forwarder from handle_client on (src/src/proxy.c): it *)
(* opens a connection to the SOCKS5 server, asks for the destination,      *)
(* discards the bound address of the answer (src/src/socks5.c) and then    *)
(* copies bytes both ways with one thread and blocking sends until both    *)
(* streams have ended, a send fails or a timeout strikes.                  *)
(*                                                                         *)
(* "client" is the redirected program, "server" the SOCKS5 server with the *)
(* destination behind it; both are external and may stall, half-close or   *)
(* reset at any moment.  A timeout is a step that is possible while the    *)
(* call it ends is blocked.                                                *)
(***************************************************************************)
EXTENDS Integers, Sequences

CONSTANTS
  Byte,          \* payload bytes
  DomainLength,  \* lengths of a bound address that is a domain name
  Refusal,       \* negative answers, whole or cut short
  MaxBytes,      \* bound on what one end sends
  BufferSize,    \* size of relay's buffer
  SendBuffer     \* what a socket takes before send() blocks

ASSUME RelayAssumption ==
  /\ DomainLength \subseteq 0 .. 255
  /\ Refusal \subseteq Seq(0 .. 255)
  /\ \A a \in Refusal : Len(a) < 2 \/ a[1] # 5 \/ a[2] # 0
  /\ Byte \subseteq 0 .. 255
  /\ MaxBytes \in Nat
  /\ BufferSize \in Nat \ {0} /\ SendBuffer \in Nat \ {0}

VARIABLES
  sent, got,   \* history: what each end has sent and received of the payload
  closed,      \* closed[e]: "open", "fin" (it sends no more) or "reset"
  eof,         \* eof[e]: e has seen the end of its stream or an error
  broken,      \* history: reset by an end or given up by the worker
  inq,         \* inq[e]: what has arrived from e and was not received
  outq,        \* outq[e]: what was sent to e and e has not read
  shut,        \* shut[e]: shutdown(SHUT_WR) or close() towards e
  granted,     \* the server has granted the request: its payload follows
  answers,     \* replies the server has sent
  stage,       \* what the worker does
  need,        \* bytes that read_all still wants
  read,        \* bytes that read_all has
  fds,         \* ends with a descriptor >= 0 in the poll set
  ready,       \* ends whose revents the for loop has not reached
  chunk,       \* the part of the buffer that write_all has not sent
  size,        \* received
  counted      \* counted[e]: bytes of e in the traffic table

streamVars == <<sent, got, closed, eof, broken>>
serverVars == <<granted, answers>>
readVars == <<need, read>>
loopVars == <<fds, ready, chunk, size>>
vars == <<sent, got, closed, eof, broken, inq, outq, shut, granted, answers, stage,
          need, read, fds, ready, chunk, size, counted>>

End == {"client", "server"}
Other(e) == IF e = "client" THEN "server" ELSE "client"

Zeros(n) == [i \in 1 .. n |-> 0]

\* Answers that grant the request: the three forms of a bound address.
Grant == {<<5, 0, 0, 1>> \o Zeros(6), <<5, 0, 0, 4>> \o Zeros(18)}
           \cup {<<5, 0, 0, 3, n>> \o Zeros(n + 2) : n \in DomainLength}

\* Positive answers that cannot be used: reserved byte, unknown address type.
Malformed == {<<5, 0, 1, 1>>, <<5, 0, 0, 9>>}

-----------------------------------------------------------------------------
(* The handshake: open_socks, connect_socks and fp_socks5_drain_bind.        *)

Reading == {"greeting", "reply", "header", "length", "address"}

(* Faulty variants come right before the definition they change.             *)

\* A domain name without the port after it.
AfterRead_NoPort(s, bytes) ==
  CASE s = "greeting" /\ bytes = <<5, 0>> -> [stage |-> "reply", need |-> 2]
    [] s = "reply" /\ bytes = <<5, 0>> -> [stage |-> "header", need |-> 2]
    [] s = "header" /\ bytes = <<0, 1>> -> [stage |-> "address", need |-> 6]
    [] s = "header" /\ bytes = <<0, 4>> -> [stage |-> "address", need |-> 18]
    [] s = "header" /\ bytes = <<0, 3>> -> [stage |-> "length", need |-> 1]
    [] s = "length" -> [stage |-> "address", need |-> bytes[1]]
    [] s = "address" -> [stage |-> "poll", need |-> 0]
    [] OTHER -> [stage |-> "failed", need |-> 0]

\* What follows when read_all has returned bytes in stage s, and how many bytes the
\* next read_all wants.
AfterRead(s, bytes) ==
  CASE s = "greeting" /\ bytes = <<5, 0>> -> [stage |-> "reply", need |-> 2]
    [] s = "reply" /\ bytes = <<5, 0>> -> [stage |-> "header", need |-> 2]
    [] s = "header" /\ bytes = <<0, 1>> -> [stage |-> "address", need |-> 6]
    [] s = "header" /\ bytes = <<0, 4>> -> [stage |-> "address", need |-> 18]
    [] s = "header" /\ bytes = <<0, 3>> -> [stage |-> "length", need |-> 1]
    [] s = "length" -> [stage |-> "address", need |-> bytes[1] + 2]
    [] s = "address" -> [stage |-> "poll", need |-> 0]
    [] OTHER -> [stage |-> "failed", need |-> 0]

\* connect_with_timeout, then the greeting is written.
Connect ==
  /\ stage = "connect"
  /\ stage' = "greeting" /\ need' = 2
  /\ UNCHANGED <<streamVars, inq, outq, shut, serverVars, read, loopVars, counted>>

\* One recv() of read_all; the last one completes it.
Read(k) ==
  /\ stage \in Reading
  /\ k <= need /\ k <= Len(inq["server"])
  /\ inq' = [inq EXCEPT !["server"] = SubSeq(@, k + 1, Len(@))]
  /\ LET bytes == read \o SubSeq(inq["server"], 1, k)
         next  == AfterRead(stage, bytes)
     IN IF k < need
        THEN /\ need' = need - k
             /\ read' = IF stage = "address" THEN <<>> ELSE bytes
             /\ UNCHANGED stage
        ELSE stage' = next.stage /\ need' = next.need /\ read' = <<>>
  /\ UNCHANGED <<streamVars, outq, shut, serverVars, loopVars, counted>>

\* connect() fails or FP_CONNECT_TIMEOUT_MS passes; recv() returns 0 or an error, or
\* FP_IO_TIMEOUT_MS passes; send() fails.
HandshakeFails ==
  /\ stage \in Reading \cup {"connect"}
  /\ stage \in Reading => inq["server"] = <<>> \/ closed["server"] = "reset"
  /\ stage' = "failed"
  /\ UNCHANGED <<streamVars, inq, outq, shut, serverVars, readVars, loopVars, counted>>

-----------------------------------------------------------------------------
(* relay.                                                                    *)

\* The end whose turn it is in the for loop.
Source == IF "client" \in ready THEN "client" ELSE "server"

Readable(e) == e \in fds /\ (inq[e] # <<>> \/ closed[e] # "open")

Poll ==
  /\ stage = "poll" /\ \E e \in End : Readable(e)
  /\ ready' = {e \in End : Readable(e)}
  /\ stage' = "turn"
  /\ UNCHANGED <<streamVars, inq, outq, shut, serverVars, readVars, fds, chunk, size,
                 counted>>

\* poll() returns 0 after FP_IDLE_TIMEOUT_MS.
IdleTimeout ==
  /\ stage = "poll" /\ \A e \in End : ~Readable(e)
  /\ stage' = "failed"
  /\ UNCHANGED <<streamVars, inq, outq, shut, serverVars, readVars, loopVars, counted>>

\* recv() returns k > 0 bytes; an error of a reset comes after what has arrived.
Receive(k) ==
  /\ stage = "turn" /\ ready # {}
  /\ k <= BufferSize /\ k <= Len(inq[Source])
  /\ chunk' = SubSeq(inq[Source], 1, k) /\ size' = k
  /\ inq' = [inq EXCEPT ![Source] = SubSeq(@, k + 1, Len(@))]
  /\ stage' = "write"
  /\ UNCHANGED <<streamVars, outq, shut, serverVars, readVars, fds, ready, counted>>

\* POLLHUP ends the stream, whatever has not been received.
ReceiveEnd_OnHangup ==
  /\ stage = "turn" /\ ready # {} /\ closed[Source] # "open"
  /\ shut' = [shut EXCEPT ![Other(Source)] = TRUE]
  /\ fds' = fds \ {Source} /\ ready' = ready \ {Source}
  /\ UNCHANGED <<streamVars, inq, outq, serverVars, readVars, stage, chunk, size,
                 counted>>

\* recv() returns 0 or an error: the end of this stream is passed on.
ReceiveEnd ==
  /\ stage = "turn" /\ ready # {} /\ inq[Source] = <<>>
  /\ shut' = [shut EXCEPT ![Other(Source)] = TRUE]
  /\ fds' = fds \ {Source} /\ ready' = ready \ {Source}
  /\ UNCHANGED <<streamVars, inq, outq, serverVars, readVars, stage, chunk, size,
                 counted>>

\* send() takes at least one byte; the loop of write_all goes on with the rest.
Write ==
  /\ stage = "write" /\ chunk # <<>>
  /\ closed[Other(Source)] # "reset" /\ Len(outq[Other(Source)]) < SendBuffer
  /\ outq' = [outq EXCEPT ![Other(Source)] = Append(@, Head(chunk))]
  /\ chunk' = Tail(chunk)
  /\ UNCHANGED <<streamVars, inq, shut, serverVars, stage, readVars, fds, ready, size,
                 counted>>

\* The socket has no SO_SNDTIMEO.
WriteFails_NoTimeout ==
  /\ stage = "write" /\ chunk # <<>>
  /\ closed[Other(Source)] = "reset"
  /\ stage' = "failed"
  /\ UNCHANGED <<streamVars, inq, outq, shut, serverVars, readVars, loopVars, counted>>

\* send() fails: the target is gone, or SO_SNDTIMEO passes while its buffer is full.
WriteFails ==
  /\ stage = "write" /\ chunk # <<>>
  /\ closed[Other(Source)] = "reset" \/ Len(outq[Other(Source)]) = SendBuffer
  /\ stage' = "failed"
  /\ UNCHANGED <<streamVars, inq, outq, shut, serverVars, readVars, loopVars, counted>>

\* fp_stats_add is given sizeof(buffer) instead of received.
Count_WholeBuffer ==
  /\ stage = "write" /\ chunk = <<>>
  /\ counted' = [counted EXCEPT ![Source] = @ + BufferSize]
  /\ ready' = ready \ {Source} /\ size' = 0
  /\ stage' = "turn"
  /\ UNCHANGED <<streamVars, inq, outq, shut, serverVars, readVars, fds, chunk>>

\* write_all has returned 0: fp_stats_add.
Count ==
  /\ stage = "write" /\ chunk = <<>>
  /\ counted' = [counted EXCEPT ![Source] = @ + size]
  /\ ready' = ready \ {Source} /\ size' = 0
  /\ stage' = "turn"
  /\ UNCHANGED <<streamVars, inq, outq, shut, serverVars, readVars, fds, chunk>>

\* The end of the for loop.
EndTurn ==
  /\ stage = "turn" /\ ready = {}
  /\ stage' = IF fds = {} THEN "ended" ELSE "poll"
  /\ UNCHANGED <<streamVars, inq, outq, shut, serverVars, readVars, loopVars, counted>>

\* Both sockets are closed.  The kernel answers unread bytes with a reset, which
\* discards what the end has not read.
Hangup(failed) ==
  /\ stage' = "done"
  /\ broken' = (broken \/ failed)
  /\ shut' = [e \in End |-> TRUE]
  /\ outq' = [e \in End |-> IF inq[e] = <<>> THEN outq[e] ELSE <<>>]
  /\ inq' = [e \in End |-> <<>>]
  /\ UNCHANGED <<sent, got, closed, eof, serverVars, readVars, loopVars, counted>>

\* The end of handle_client.
Close == stage \in {"failed", "ended"} /\ Hangup(stage = "failed")

\* SIGTERM has its default action in a worker: disable and PR_SET_PDEATHSIG end it
\* anywhere.
Killed == stage # "done" /\ Hangup(TRUE)

-----------------------------------------------------------------------------
(* The two ends.                                                             *)

\* The server sends a; after the last answer it is done with SOCKS5.
Answered(a, count, success) ==
  /\ inq' = [inq EXCEPT !["server"] = @ \o a]
  /\ answers' = count /\ granted' = success

\* The server answers the greeting, later the request.
Answer ==
  /\ closed["server"] = "open"
  /\ \/ /\ answers = 0 /\ stage = "greeting"
        /\ \/ Answered(<<5, 0>>, 1, FALSE)
           \/ \E a \in Refusal : Answered(a, 2, FALSE)
     \/ /\ answers = 1 /\ stage = "reply"
        /\ \/ \E a \in Grant : Answered(a, 2, TRUE)
           \/ \E a \in Refusal \cup Malformed : Answered(a, 2, FALSE)
  /\ UNCHANGED <<streamVars, outq, shut, stage, readVars, loopVars, counted>>

Send(e) ==
  /\ closed[e] = "open" /\ Len(sent[e]) < MaxBytes
  /\ e = "server" => granted
  /\ \E b \in Byte :
       /\ sent' = [sent EXCEPT ![e] = Append(@, b)]
       /\ inq' = IF stage = "done" THEN inq ELSE [inq EXCEPT ![e] = Append(@, b)]
  /\ UNCHANGED <<got, closed, eof, broken, outq, shut, serverVars, stage, readVars,
                 loopVars, counted>>

Finish(e) ==
  /\ closed[e] = "open"
  /\ closed' = [closed EXCEPT ![e] = "fin"]
  /\ UNCHANGED <<sent, got, eof, broken, inq, outq, shut, serverVars, stage, readVars,
                 loopVars, counted>>

\* What was under way from e may be lost, and e reads no more.
Reset(e) ==
  /\ closed[e] # "reset"
  /\ closed' = [closed EXCEPT ![e] = "reset"]
  /\ \E n \in 0 .. Len(inq[e]) : inq' = [inq EXCEPT ![e] = SubSeq(@, 1, n)]
  /\ outq' = [outq EXCEPT ![e] = <<>>]
  /\ broken' = TRUE
  /\ UNCHANGED <<sent, got, eof, shut, serverVars, stage, readVars, loopVars, counted>>

ReadByte(e) ==
  /\ closed[e] # "reset" /\ outq[e] # <<>>
  /\ got' = [got EXCEPT ![e] = Append(@, Head(outq[e]))]
  /\ outq' = [outq EXCEPT ![e] = Tail(@)]
  /\ UNCHANGED <<sent, closed, eof, broken, inq, shut, serverVars, stage, readVars,
                 loopVars, counted>>

ReadEnd(e) ==
  /\ closed[e] # "reset" /\ outq[e] = <<>> /\ shut[e] /\ ~eof[e]
  /\ eof' = [eof EXCEPT ![e] = TRUE]
  /\ UNCHANGED <<sent, got, closed, broken, inq, outq, shut, serverVars, stage,
                 readVars, loopVars, counted>>

-----------------------------------------------------------------------------
Init ==
  /\ sent = [e \in End |-> <<>>] /\ got = [e \in End |-> <<>>]
  /\ closed = [e \in End |-> "open"] /\ eof = [e \in End |-> FALSE]
  /\ broken = FALSE
  /\ inq = [e \in End |-> <<>>] /\ outq = [e \in End |-> <<>>]
  /\ shut = [e \in End |-> FALSE]
  /\ granted = FALSE /\ answers = 0
  /\ stage = "connect" /\ need = 0 /\ read = <<>>
  /\ fds = End /\ ready = {} /\ chunk = <<>> /\ size = 0
  /\ counted = [e \in End |-> 0]

WorkerStep ==
  \/ Connect \/ HandshakeFails \/ (\E k \in 1 .. need : Read(k))
  \/ Poll \/ IdleTimeout \/ (\E k \in 1 .. BufferSize : Receive(k)) \/ ReceiveEnd
  \/ Write \/ WriteFails \/ Count \/ EndTurn \/ Close

EndStep(e) == Send(e) \/ Finish(e) \/ Reset(e) \/ ReadByte(e) \/ ReadEnd(e)

Next == WorkerStep \/ Killed \/ Answer \/ \E e \in End : EndStep(e)

Spec == Init /\ [][Next]_vars

\* The kernel schedules the worker and its timeouts end every call that blocks;
\* nothing is assumed of the ends.
FairSpec == Spec /\ WF_vars(WorkerStep)

-----------------------------------------------------------------------------
(* Properties.                                                               *)

Stages == Reading \cup {"connect", "poll", "turn", "write", "failed", "ended", "done"}

\* Every variable keeps its type: what read_all wants fits the 257 bytes that
\* fp_socks5_drain_bind has for it, and write_all has at most the buffer to send.
TypeOK ==
  /\ sent \in [End -> Seq(Byte)] /\ got \in [End -> Seq(Byte)]
  /\ closed \in [End -> {"open", "fin", "reset"}] /\ eof \in [End -> BOOLEAN]
  /\ broken \in BOOLEAN
  /\ inq \in [End -> Seq(0 .. 255)] /\ outq \in [End -> Seq(Byte)]
  /\ shut \in [End -> BOOLEAN] /\ granted \in BOOLEAN /\ answers \in 0 .. 2
  /\ stage \in Stages /\ need \in 0 .. 257 /\ read \in Seq(0 .. 255)
  /\ stage \in Reading => need > 0
  /\ fds \in SUBSET End /\ ready \in SUBSET End
  /\ chunk \in Seq(Byte) /\ size \in 0 .. BufferSize /\ Len(chunk) <= size
  /\ counted \in [End -> Nat]

\* The worker implements the tunnel: no byte is lost, duplicated, reordered or
\* invented, no byte of the SOCKS5 answer reaches the client and none of the payload
\* is taken for it, and an end of stream is passed on only after the last byte.
T == INSTANCE Tunnel WITH closed <- [e \in End |-> closed[e] # "open"]
RefinesTunnel == T!Spec

\* README: the monitor shows per-connection byte counts.  Through resets, timeouts and
\* kills the table never counts more of an end than it has sent, and never falls behind
\* what the other end has by more than the buffer in hand.  As long as no end resets and
\* nothing is given up, no byte is counted before the other end's socket has taken it,
\* and when both streams have ended all of them are.
Accounted ==
  \A e \in End :
    /\ counted[e] <= Len(sent[e])
    /\ Len(got[Other(e)]) <= counted[e] + BufferSize
    /\ ~broken =>
         /\ counted[e] <= Len(got[Other(e)]) + Len(outq[Other(e)])
         /\ stage = "done" => counted[e] = Len(sent[e])

\* A worker never hangs: it leaves the relay whatever its two ends do or omit, once
\* they send no more.
WorkerEnds == <>(stage = "done")

=============================================================================
