-------------------------------- MODULE Ports --------------------------------
(***************************************************************************)
(* The two ports of a socket and the event loop                            *)
(* (src/scheme/ikarus.io.ss, src/src/ikarus-io.c).                         *)
(*                                                                         *)
(* A read or a write of a non-blocking socket that would block captures    *)
(* its continuation, registers it with the descriptor and enters           *)
(* process-events, which runs what select finds ready: continuations of    *)
(* blocked operations, and callbacks, which use ports and may block in     *)
(* turn.  A thread here is the program or a callback that has begun; one   *)
(* runs at a time, until it blocks.  A byte is its position in what is     *)
(* written, or in what is read.                                            *)
(***************************************************************************)
EXTENDS Integers, Sequences, FiniteSets, SequencesExt, Lists

CONSTANTS
  Callbacks,     \* procedures given to register-callback
  OutSize,       \* output-socket-buffer-size
  InSize,        \* input-socket-buffer-size
  Widths,        \* bytes in each UTF-8 character of the text at the other end
  TextLength,    \* how many of those bytes it sends; the last character may be cut
  PutSizes,      \* bytes of a put-u8 or put-bytevector
  MaxPut,        \* bytes written, at most
  MaxPortOps     \* operations begun, at most

ASSUME PortsAssumption ==
  /\ Callbacks \cap {"main", "loop", "raised"} = {}
  /\ OutSize \in Nat \ {0} /\ InSize \in Nat /\ InSize >= 4
  /\ Widths \in Seq(1 .. 4) /\ TextLength \in Nat
  /\ PutSizes \subseteq Nat

VARIABLES
  out,           \* the output port: its buffer, index, position, whether it is closed
  in,            \* the input port: the same, and size
  sock,          \* the descriptor: whether it is open, and closed-once?
  sink,          \* the bytes the socket took
  sent,          \* how many bytes of the text it gave
  accepted,      \* how many bytes the output port took
  got,           \* the characters read
  act,           \* the operation each thread is in
  running,       \* the thread that runs, Loop, or Raised
  pending, outQueue, inQueue,   \* those of the event loop
  portOps,
  mixed,         \* ports whose bytes were given up or left torn by an error, and those
                 \* used by a second thread while one was blocked on them
  removed        \* blocked threads taken from the event loop by rem-io-event

ovars == <<out, in, sock, sink, sent, accepted, got, act, running, pending, outQueue,
           inQueue, portOps, mixed, removed>>
loopVars == <<pending, outQueue, inQueue, removed>>
inVars == <<in, sent, got>>
outVars == <<out, sink, accepted>>

Main == "main"
Loop == "loop"
Raised == "raised"     \* an error of process-events, which no operation handles
Thread == {Main} \cup Callbacks
NoOperation == [op |-> "none", at |-> "none", n |-> 0, left |-> 0]
PortOf(op) == IF op = "get" THEN "in" ELSE "out"
Bad == 0               \* the replacement character

\* fh->input-port, fh->output-port and socket->ports; the input port has been given a
\* UTF-8 transcoder (transcoded-port), with which it has the same buffer, cookie and close
PortsInit ==
  /\ out = [buf |-> [i \in 1 .. OutSize |-> 0], index |-> 0, pos |-> 0, closed |-> FALSE]
  /\ in = [buf |-> [i \in 1 .. InSize |-> 0], index |-> 0, size |-> 0, pos |-> 0, closed |-> FALSE]
  /\ sock = [open |-> TRUE, closedOnce |-> FALSE]
  /\ sink = << >> /\ sent = 0 /\ accepted = 0 /\ got = << >>
  /\ act = [t \in Thread |-> NoOperation] /\ running = Main
  /\ pending = << >> /\ outQueue = << >> /\ inQueue = << >>
  /\ portOps = 0 /\ mixed = {} /\ removed = {}

-----------------------------------------------------------------------------
(* The event loop *)

Task(t, kind, dir) == [thread |-> t, kind |-> kind, dir |-> dir]
Tasks == pending \o outQueue \o inQueue
\* two threads meet on a port
Meet(port, t) == \E u \in Thread \ {t} : act[u].op # "none" /\ PortOf(act[u].op) = port

\* the operation of t is to go on at a, with n the bytes it has seen in the buffer
Goto(t, a, n) == act' = [act EXCEPT ![t].at = a, ![t].n = n]
\* it returns, or raises an error to its caller
Finish(t) == act' = [act EXCEPT ![t] = NoOperation]

\* EAGAIN: call/cc, add-io-event and process-events
Park(t, dir) ==
  /\ pending' = <<Task(t, "resume", dir)>> \o pending
  /\ act' = [act EXCEPT ![t].at = "blocked"]
  /\ running' = Loop
  /\ UNCHANGED <<outQueue, inQueue, removed>>

\* process-events: the next of out-queue
Dispatch ==
  /\ running = Loop /\ outQueue # << >>
  /\ LET k == Head(outQueue) IN
     /\ running' = k.thread
     /\ act' = IF k.kind = "call" THEN act
               ELSE [act EXCEPT ![k.thread].at = IF k.dir = "r" THEN "read" ELSE "write"]
  /\ outQueue' = Tail(outQueue)
  /\ UNCHANGED <<outVars, inVars, sock, pending, inQueue, portOps, mixed, removed>>

\* do-select, which never finds nothing ready; then in-queue becomes out-queue
PendingIn(dirs) == Only(pending, {k \in ToSet(pending) : k.dir \in dirs})
StillPendingKept(ready) ==      \* wrong: (set! pending '()) is left out
  Reverse(PendingIn({"r", "w"} \ ready)) \o pending
StillPending(ready) == Reverse(PendingIn({"r", "w"} \ ready))
Select ==
  /\ running = Loop /\ outQueue = << >> /\ inQueue = << >>
  /\ \/ \E ready \in SUBSET {"r", "w"} :
          /\ \E i \in DOMAIN pending : pending[i].dir \in ready
          /\ inQueue' = Reverse(PendingIn(ready))
          /\ pending' = StillPending(ready)
          /\ running' = Loop
     \/ \* "no more events", or an error of select
        running' = Raised /\ UNCHANGED <<pending, inQueue>>
  /\ UNCHANGED <<outVars, inVars, sock, act, outQueue, portOps, mixed, removed>>

NextBatch ==
  /\ running = Loop /\ outQueue = << >> /\ inQueue # << >>
  /\ outQueue' = Reverse(inQueue)
  /\ inQueue' = << >>
  /\ UNCHANGED <<outVars, inVars, sock, act, running, pending, portOps, mixed, removed>>

-----------------------------------------------------------------------------
(* Operations of the running thread *)

Free(t) == running = t /\ act[t].op = "none"
CountOp == portOps < MaxPortOps /\ portOps' = portOps + 1

BeginOperation(t, op, at, left) ==
  /\ Free(t) /\ CountOp
  /\ act' = [act EXCEPT ![t] = [op |-> op, at |-> at, n |-> 0, left |-> left]]
  /\ mixed' = IF Meet(PortOf(op), t) THEN mixed \cup {PortOf(op)} ELSE mixed
  /\ UNCHANGED <<outVars, inVars, sock, running, loopVars>>

PutBytes(t, c) == accepted + c <= MaxPut /\ BeginOperation(t, "put", "put", c)
Flush(t) == BeginOperation(t, "flush", "flush", 0)
CloseOut(t) == ~out.closed /\ BeginOperation(t, "close", "flush", 0)
GetChar(t) == BeginOperation(t, "get", "get", 0)

\* the close procedure the two ports share
CloseSocket ==
  sock' = IF sock.closedOnce THEN [sock EXCEPT !.open = FALSE]
          ELSE [sock EXCEPT !.closedOnce = TRUE]

\* close-port of the input port, which has nothing to flush
CloseIn(t) ==
  /\ Free(t) /\ CountOp /\ ~in.closed
  /\ in' = [in EXCEPT !.closed = TRUE]
  /\ CloseSocket
  /\ UNCHANGED <<outVars, sent, got, act, running, loopVars, mixed>>

RemoveSocketEvents ==
  /\ pending' = << >> /\ outQueue' = << >> /\ inQueue' = << >>
  /\ removed' = removed \cup {t \in Thread : act[t].at = "blocked"}

\* unregister-callback, with either port: rem-io-event of the descriptor
Unregister(t) ==
  /\ Free(t) /\ CountOp
  /\ RemoveSocketEvents
  /\ UNCHANGED <<outVars, inVars, sock, act, running, mixed>>

\* reset-output-port!, reset-input-port!
ResetOut(t) ==
  /\ Free(t) /\ CountOp
  /\ out' = [out EXCEPT !.index = 0]
  /\ mixed' = mixed \cup {"out"}
  /\ RemoveSocketEvents
  /\ UNCHANGED <<inVars, sink, accepted, sock, act, running>>
ResetIn(t) ==
  /\ Free(t) /\ CountOp
  /\ in' = [in EXCEPT !.index = in.size]
  /\ mixed' = mixed \cup {"in"}
  /\ RemoveSocketEvents
  /\ UNCHANGED <<outVars, sent, got, sock, act, running>>

\* register-callback, of a callback that is neither registered nor in a call
Register(t, c, dir) ==
  /\ Free(t) /\ CountOp
  /\ act[c] = NoOperation /\ running # c
  /\ ~ \E i \in DOMAIN Tasks : Tasks[i].thread = c
  /\ pending' = <<Task(c, "call", dir)>> \o pending
  /\ UNCHANGED <<outVars, inVars, sock, act, running, outQueue, inQueue, mixed, removed>>

\* a callback returns to process-events
CallbackReturns(c) ==
  /\ c # Main /\ Free(c)
  /\ running' = Loop
  /\ UNCHANGED <<outVars, inVars, sock, act, loopVars, portOps, mixed>>

-----------------------------------------------------------------------------
(* Writing *)

Numbers(n) == [i \in 1 .. n |-> i]
Doing(t, at) == running = t /\ act[t].at = at

\* put-u8 and $put-bytevector: what there is room for, and then a flush
PutStep(t) ==
  /\ Doing(t, "put")
  /\ LET room == OutSize - out.index
         c == IF room < act[t].left THEN room ELSE act[t].left
     IN \/ out.closed /\ Finish(t) /\ UNCHANGED <<out, accepted>>
        \/ /\ ~out.closed
           /\ out' = [out EXCEPT !.index = @ + c,
                        !.buf = [i \in 1 .. OutSize |->
                                   IF i > out.index /\ i <= out.index + c
                                   THEN accepted + i - out.index ELSE @[i]]]
           /\ accepted' = accepted + c
           /\ IF c = act[t].left THEN Finish(t)
              ELSE act' = [act EXCEPT ![t].left = @ - c, ![t].at = "flush"]
  /\ UNCHANGED <<inVars, sink, sock, running, loopVars, portOps, mixed>>

\* what an operation does when its flush is done
Flushed(t, o) ==
  CASE act[t].op = "put" -> out' = o /\ Goto(t, "put", 0) /\ UNCHANGED sock
    [] act[t].op = "flush" -> out' = o /\ Finish(t) /\ UNCHANGED sock
    [] act[t].op = "close" -> out' = [o EXCEPT !.closed = TRUE] /\ Finish(t) /\ CloseSocket

\* flush-output-port up to its call of write!
FlushStep(t) ==
  /\ Doing(t, "flush")
  /\ \/ out.closed /\ Finish(t) /\ UNCHANGED <<out, sock>>
     \/ ~out.closed /\ out.index = 0 /\ Flushed(t, out)
     \/ ~out.closed /\ out.index # 0 /\ Goto(t, "write", out.index) /\ UNCHANGED <<out, sock>>
  /\ UNCHANGED <<inVars, sink, accepted, running, loopVars, portOps, mixed>>

ShiftedNot(buf, n, k) == buf     \* wrong
\* what a short write leaves in the buffer
Shifted(buf, n, k) == [i \in DOMAIN buf |-> IF i <= n - k THEN buf[i + k] ELSE buf[i]]

\* ikrt_write_fd takes k bytes, and the rest of flush-output-port
WriteOut(t, k) ==
  /\ Doing(t, "write") /\ sock.open /\ k \in 0 .. act[t].n
  /\ sink' = sink \o SubSeq(out.buf, 1, k)
  /\ LET n == act[t].n
         o == [out EXCEPT !.pos = @ + k]
     IN \/ k = n /\ Flushed(t, [o EXCEPT !.index = 0])
        \/ k = 0 /\ out' = [o EXCEPT !.closed = TRUE] /\ Finish(t) /\ UNCHANGED sock
        \/ /\ 0 < k /\ k < n
           /\ out' = [o EXCEPT !.buf = Shifted(@, n, k), !.index = n - k]
           /\ Goto(t, "flush", 0) /\ UNCHANGED sock
  /\ UNCHANGED <<inVars, accepted, running, loopVars, portOps, mixed>>

\* ikrt_write_fd fails: EAGAIN, or an error the port raises
WriteFails(t) ==
  /\ Doing(t, "write")
  /\ \/ sock.open /\ Park(t, "w")
     \/ Finish(t) /\ UNCHANGED <<running, loopVars>>
  /\ UNCHANGED <<outVars, inVars, sock, portOps, mixed>>

-----------------------------------------------------------------------------
(* Reading *)

\* the first byte of character c, and the character a byte begins
First[c \in 1 .. Len(Widths)] == IF c = 1 THEN 1 ELSE First[c - 1] + Widths[c - 1]
Beginning(b) == {c \in DOMAIN Widths : First[c] = b}
WidthAt(b) == LET c == CHOOSE x \in Beginning(b) : TRUE IN Widths[c]

\* refill-bv-buffer up to its call of read!
Refill(t) ==
  LET c0 == in.size - in.index IN
  /\ in' = [in EXCEPT !.buf = [i \in 1 .. InSize |-> IF i <= c0 THEN @[i + in.index] ELSE @[i]],
                      !.pos = @ + in.index]
  /\ Goto(t, "read", c0)
  /\ UNCHANGED got

\* get-char (get-char-utf8-mode): a character that is in the buffer, or a refill
GetStep(t) ==
  /\ Doing(t, "get")
  /\ \/ in.closed /\ Finish(t) /\ UNCHANGED <<in, got>>
     \/ ~in.closed /\ in.index = in.size /\ Refill(t)
     \/ /\ ~in.closed /\ in.index < in.size
        /\ LET b == in.buf[in.index + 1] IN
           IF Beginning(b) = {}
           THEN /\ in' = [in EXCEPT !.index = @ + 1]
                /\ got' = Append(got, <<Bad>>) /\ Finish(t)
           ELSE IF in.index + WidthAt(b) <= in.size
           THEN /\ in' = [in EXCEPT !.index = @ + WidthAt(b)]
                /\ got' = Append(got, SubSeq(in.buf, in.index + 1, in.index + WidthAt(b)))
                /\ Finish(t)
           ELSE Refill(t)
  /\ UNCHANGED <<outVars, sent, sock, running, loopVars, portOps, mixed>>


\* ikrt_read_fd gives k bytes, 0 at the end of the text, and the rest of refill-bv-buffer
ReadIn(t, k) ==
  /\ Doing(t, "read") /\ sock.open
  /\ k \in 0 .. InSize - act[t].n /\ sent + k <= TextLength
  /\ k = 0 => sent = TextLength
  /\ LET c0 == act[t].n
         filled == [in EXCEPT !.index = 0, !.size = c0 + k,
                      !.buf = [i \in 1 .. InSize |->
                                 IF i > c0 /\ i <= c0 + k THEN sent + i - c0 ELSE @[i]]]
     IN IF k > 0 THEN in' = filled /\ Goto(t, "get", 0) /\ UNCHANGED got
        ELSE IF c0 = 0 THEN in' = filled /\ Finish(t) /\ UNCHANGED got     \* eof
        ELSE /\ in' = [filled EXCEPT !.index = 1]
             /\ got' = Append(got, <<Bad>>) /\ Finish(t)
  /\ sent' = sent + k
  /\ UNCHANGED <<outVars, sock, running, loopVars, portOps, mixed>>

\* ikrt_read_fd fails: EAGAIN, or an error the port raises.  What there was of a
\* character is shifted in the buffer already, under an index that is not.
ReadFails(t) ==
  /\ Doing(t, "read")
  /\ \/ sock.open /\ Park(t, "r") /\ UNCHANGED mixed
     \/ /\ Finish(t) /\ UNCHANGED <<running, loopVars>>
        /\ mixed' = IF act[t].n > 0 THEN mixed \cup {"in"} ELSE mixed
  /\ UNCHANGED <<outVars, inVars, sock, portOps>>

PortsNext ==
  \/ Dispatch \/ Select \/ NextBatch
  \/ \E t \in Thread :
       \/ \E c \in PutSizes : PutBytes(t, c)
       \/ Flush(t) \/ CloseOut(t) \/ GetChar(t) \/ CloseIn(t)
       \/ Unregister(t) \/ ResetOut(t) \/ ResetIn(t) \/ CallbackReturns(t)
       \/ \E c \in Callbacks, dir \in {"r", "w"} : Register(t, c, dir)
       \/ PutStep(t) \/ FlushStep(t) \/ WriteFails(t) \/ GetStep(t) \/ ReadFails(t)
       \/ \E k \in 0 .. OutSize : WriteOut(t, k)
       \/ \E k \in 0 .. InSize : ReadIn(t, k)

PortsSpec == PortsInit /\ [][PortsNext]_ovars

-----------------------------------------------------------------------------
(* Properties *)

\* What the socket took, followed by what is in the buffer, is what was put, each byte
\* once and in order, after short writes, errors and blocked flushes, and the position
\* of the port is their number; unless a second thread used the port while a flush of
\* it was blocked (flush-output-port writes what it saw before it blocked), or the
\* program gave the bytes up.
Written ==
  "out" \notin mixed =>
    /\ sink \o SubSeq(out.buf, 1, out.index) = Numbers(accepted)
    /\ out.pos + out.index = accepted

\* What get-char returned are the characters of the text, none torn, skipped or given
\* twice, wherever the reads cut it; but a last one that is cut is replaced byte by byte
Complete == {c \in DOMAIN Widths : First[c] + Widths[c] - 1 <= TextLength}
ReadBack ==
  "in" \notin mixed =>
    \A i \in DOMAIN got :
      got[i] = IF i \in Complete THEN [j \in 1 .. Widths[i] |-> First[i] + j - 1] ELSE <<Bad>>

BytesInOrder == Written /\ ReadBack

\* A blocked operation is waiting in the event loop, once and for its own direction, and
\* no other is: none is forgotten, and none goes on twice; unless it was unregistered
NoneForgotten ==
  \A t \in Thread :
    LET waiting == Only(Tasks, {k \in ToSet(Tasks) : k.thread = t /\ k.kind = "resume"}) IN
    IF act[t].at = "blocked" /\ t \notin removed
    THEN waiting = <<Task(t, "resume", IF PortOf(act[t].op) = "in" THEN "r" ELSE "w")>>
    ELSE waiting = << >>

=============================================================================
