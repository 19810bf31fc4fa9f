------------------------------ MODULE PortsProofs ------------------------------
(* Proofs about the ports of a socket and the event loop.                    *)
EXTENDS Ports, SequenceFacts, TLAPS

-----------------------------------------------------------------------------
(* The event loop *)

TaskSet == [thread : Thread, kind : {"call", "resume"}, dir : {"r", "w"}]
OutOps == {"put", "flush", "close"}
Acts == [op : {"none", "get"} \cup OutOps,
         at : {"none", "put", "flush", "write", "get", "read", "blocked"},
         n : Nat, left : Nat]

\* an operation is at a step of its own
AtOwnStep(a) ==
  /\ a.op = "none" <=> a.at = "none"
  /\ a.at \in {"put", "flush", "write"} => a.op \in OutOps
  /\ a.at \in {"get", "read"} => a.op = "get"

LoopTypes ==
  /\ act \in [Thread -> Acts]
  /\ \A t \in Thread : AtOwnStep(act[t])
  /\ running \in Thread \cup {Loop, Raised}
  /\ pending \in Seq(TaskSet) /\ outQueue \in Seq(TaskSet) /\ inQueue \in Seq(TaskSet)
  /\ removed \subseteq Thread

\* a thread that does not run is in no operation, or is blocked in one
OthersRest ==
  \A t \in Thread :
    /\ running = t => act[t].at # "blocked"
    /\ running # t => act[t].at \in {"none", "blocked"}
    /\ t \in removed => act[t].at = "blocked"

\* what a task of the event loop is for, if the threads do what a says, r runs and those
\* in gone were unregistered: a callback to call that is in no operation, or a blocked
\* operation to go on
Due(k, a, r, gone) ==
  /\ r # k.thread
  /\ k.kind = "call" => k.thread \in Callbacks /\ a[k.thread].op = "none"
  /\ k.kind = "resume" =>
       /\ a[k.thread].at = "blocked" /\ k.thread \notin gone
       /\ k.dir = IF PortOf(a[k.thread].op) = "in" THEN "r" ELSE "w"

Waiting(q) == {q[i].thread : i \in 1 .. Len(q)}
OncePerThread(q) == \A i, j \in 1 .. Len(q) : q[i].thread = q[j].thread => i = j
Orderly(q, a, r, gone) == OncePerThread(q) /\ \A i \in 1 .. Len(q) : Due(q[i], a, r, gone)

\* each thread waits in one place at most, and a blocked one does
OneTask ==
  /\ \A q \in {pending, outQueue, inQueue} : Orderly(q, act, running, removed)
  /\ Waiting(pending) \cap Waiting(outQueue) = {}
  /\ Waiting(pending) \cap Waiting(inQueue) = {}
  /\ Waiting(outQueue) \cap Waiting(inQueue) = {}
  /\ \A t \in Thread :
       act[t].at = "blocked" /\ t \notin removed =>
         t \in Waiting(pending) \cup Waiting(outQueue) \cup Waiting(inQueue)

LoopInv == LoopTypes /\ OthersRest /\ OneTask

-----------------------------------------------------------------------------
Writing(t) == act[t].op \in OutOps /\ act[t].at \in {"write", "blocked"}
OutRecord == [buf : [1 .. OutSize -> Nat], index : 0 .. OutSize, pos : Nat, closed : BOOLEAN]
OutRange == out \in OutRecord /\ sink \in Seq(Nat) /\ accepted \in Nat
OutTypes == OutRange /\ \A t \in Thread : Writing(t) => act[t].n <= OutSize

\* one operation at a time uses a port
Uses(t, port) == act[t].op # "none" /\ PortOf(act[t].op) = port
Alone(port) == port \notin mixed => \A t, u \in Thread : Uses(t, port) /\ Uses(u, port) => t = u

\* byte by byte: what was put is what the socket took and what is in the buffer
OutBytes ==
  /\ Len(sink) + out.index = accepted /\ out.pos + out.index = accepted
  /\ \A i \in 1 .. Len(sink) : sink[i] = i
  /\ \A i \in 1 .. out.index : out.buf[i] = Len(sink) + i
OutInOrder ==
  "out" \notin mixed => OutBytes /\ \A t \in Thread : Writing(t) => act[t].n = out.index

-----------------------------------------------------------------------------
InTypes ==
  /\ in \in [buf : [1 .. InSize -> Nat], index : 0 .. InSize, size : 0 .. InSize, pos : Nat,
            closed : BOOLEAN]
  /\ in.index <= in.size
  /\ sent \in 0 .. TextLength /\ got \in Seq(Seq(Nat))

Reading(t) == act[t].op = "get" /\ act[t].at \in {"read", "blocked"}
Unread == in.size - in.index
Consumed == sent - Unread
LastOf(c) == IF c = 0 THEN 0 ELSE First[c] + Widths[c] - 1

\* the characters so far are whole, and the next byte begins another
Whole == 1 .. Len(got) \subseteq Complete /\ Consumed = LastOf(Len(got))
\* the whole characters have been read
Past ==
  /\ Complete \subseteq 1 .. Len(got)
  /\ \A c \in DOMAIN Widths : First[c] <= Consumed \/ First[c] > TextLength

\* what a read that has seen n bytes finds at the start of the buffer: a part of the next
\* character
Ahead(n) ==
  /\ n = Unread
  /\ \A i \in 1 .. Unread : in.buf[i] = Consumed + i
  /\ Unread > 0 => /\ Whole /\ Len(got) + 1 \in DOMAIN Widths
                   /\ Unread < Widths[Len(got) + 1]
\* and without a read, what is from the index on
Buffered == \A i \in in.index + 1 .. in.size : in.buf[i] = Consumed + i - in.index

BufferedInOrder ==
  "in" \notin mixed =>
    /\ \A t \in Thread : Reading(t) => Ahead(act[t].n)
    /\ (\A t \in Thread : ~Reading(t)) => Buffered
    /\ Consumed >= 0
    /\ Whole \/ Past

PortsInv ==
  /\ LoopInv
  /\ OutTypes /\ InTypes /\ Alone("out") /\ Alone("in")
  /\ OutInOrder /\ BufferedInOrder /\ ReadBack

-----------------------------------------------------------------------------
\* Reverse(s) holds what s holds
LEMMA ReverseFacts ==
  ASSUME NEW X, NEW s \in Seq(X)
  PROVE  /\ Reverse(s) \in Seq(X) /\ Len(Reverse(s)) = Len(s)
         /\ \A i \in 1 .. Len(s) : Reverse(s)[i] = s[Len(s) - i + 1] /\ Len(s) - i + 1 \in 1 .. Len(s)
  <1>1. Len(s) \in Nat /\ \A i \in 1 .. Len(s) : s[i] \in X
    OBVIOUS
  <1>2. \A i \in 1 .. Len(s) : (Len(s) - i) + 1 \in 1 .. Len(s)
    BY <1>1
  <1>3. Reverse(s) = [i \in 1 .. Len(s) |-> s[(Len(s) - i) + 1]]
    BY DEF Reverse
  <1>4. Reverse(s) \in Seq(X)
    BY <1>1, <1>2, <1>3
  <1>5. QED BY <1>1, <1>2, <1>3, <1>4

\* each element of t is one of s, at a place of its own
Drawn(t, s) ==
  /\ \A i \in 1 .. Len(t) : \E j \in 1 .. Len(s) : t[i] = s[j]
  /\ OncePerThread(s) => OncePerThread(t)

\* Only and Reverse draw from a queue
LEMMA ReverseOnlyDrawn ==
  ASSUME NEW s \in Seq(TaskSet), NEW S
  PROVE  /\ Reverse(Only(s, S)) \in Seq(TaskSet)
         /\ Drawn(Reverse(Only(s, S)), s)
         /\ \A i \in 1 .. Len(Reverse(Only(s, S))) : Reverse(Only(s, S))[i] \in S
         /\ \A i \in 1 .. Len(s) : s[i] \in S =>
              \E j \in 1 .. Len(Reverse(Only(s, S))) : Reverse(Only(s, S))[j] = s[i]
  <1> DEFINE o == Only(s, S)
             r == Reverse(o)
  <1>1. o \in Seq(TaskSet)
    BY OnlyPicks
  <1>2. PICK f : PicksBy(o, s, S, f)
    BY OnlyPicks
  <1> HIDE DEF o
  <1>3. /\ r \in Seq(TaskSet) /\ Len(r) = Len(o)
        /\ \A i \in 1 .. Len(o) : r[i] = o[Len(o) - i + 1] /\ Len(o) - i + 1 \in 1 .. Len(o)
    BY <1>1, ReverseFacts
  <1> HIDE DEF r
  <1>4. Len(o) \in Nat /\ Len(s) \in Nat
    BY <1>1
  <1>5. \A k \in 1 .. Len(o) : f[k] \in 1 .. Len(s) /\ o[k] = s[f[k]] /\ o[k] \in S
    BY <1>2 DEF PicksBy
  <1>6. \A j, k \in 1 .. Len(o) : f[j] = f[k] => j = k
    <2>1. \A j, k \in 1 .. Len(o) : j < k => f[j] < f[k]
      BY <1>2 DEF PicksBy
    <2> SUFFICES ASSUME NEW j \in 1 .. Len(o), NEW k \in 1 .. Len(o), f[j] = f[k] PROVE j = k
      OBVIOUS
    <2>2. j \in Int /\ k \in Int /\ f[j] \in Int /\ f[k] \in Int
      BY <1>4, <1>5
    <2>3. QED BY <2>1, <2>2
  <1>7. ASSUME NEW i \in 1 .. Len(r) PROVE (\E j \in 1 .. Len(s) : r[i] = s[j]) /\ r[i] \in S
    <2>1. i \in 1 .. Len(o)
      BY <1>3
    <2> DEFINE k == Len(o) - i + 1
    <2>2. r[i] = o[k] /\ k \in 1 .. Len(o)
      BY <1>3, <2>1
    <2> HIDE DEF k
    <2>3. f[k] \in 1 .. Len(s) /\ o[k] = s[f[k]] /\ o[k] \in S
      BY <1>5, <2>2
    <2>4. QED BY <2>2, <2>3
  <1>8. ASSUME OncePerThread(s) PROVE OncePerThread(r)
    <2> SUFFICES ASSUME NEW i \in 1 .. Len(r), NEW j \in 1 .. Len(r), r[i].thread = r[j].thread
                 PROVE  i = j
      BY DEF OncePerThread
    <2> DEFINE a == Len(o) - i + 1
               b == Len(o) - j + 1
    <2>1. a \in 1 .. Len(o) /\ b \in 1 .. Len(o) /\ r[i] = o[a] /\ r[j] = o[b]
      BY <1>3
    <2>2. i \in Int /\ j \in Int
      BY <1>3, <1>4
    <2>3. a = b => i = j
      BY <2>2, <1>4
    <2> HIDE DEF a, b
    <2>4. f[a] \in 1 .. Len(s) /\ f[b] \in 1 .. Len(s) /\ s[f[a]].thread = s[f[b]].thread
      BY <2>1, <1>5
    <2>5. f[a] = f[b]
      BY <2>4, <1>8 DEF OncePerThread
    <2>6. QED BY <2>1, <2>3, <2>5, <1>6
  <1>9. ASSUME NEW i \in 1 .. Len(s), s[i] \in S PROVE \E j \in 1 .. Len(r) : r[j] = s[i]
    <2>1. PICK k \in 1 .. Len(o) : f[k] = i
      BY <1>2, <1>9 DEF PicksBy
    <2> DEFINE j == Len(o) - k + 1
    <2>2. j \in 1 .. Len(o) /\ Len(o) - j + 1 = k
      BY <1>4
    <2> HIDE DEF j
    <2>3. r[j] = o[k] /\ j \in 1 .. Len(r)
      BY <2>2, <1>3
    <2>4. QED BY <2>1, <2>3, <1>5
  <1>10. QED BY <1>3, <1>7, <1>8, <1>9 DEF Drawn, o, r

\* what is drawn from an orderly queue is orderly
LEMMA DrawnOrderly ==
  ASSUME NEW s \in Seq(TaskSet), NEW t \in Seq(TaskSet), Drawn(t, s)
  PROVE  /\ \A a, r, gone : Orderly(s, a, r, gone) => Orderly(t, a, r, gone)
         /\ Waiting(t) \subseteq Waiting(s)
  <1>1. ASSUME NEW a, NEW r, NEW gone, Orderly(s, a, r, gone) PROVE Orderly(t, a, r, gone)
    BY <1>1 DEF Orderly, Drawn
  <1>2. Waiting(t) \subseteq Waiting(s)
    BY DEF Waiting, Drawn
  <1>3. QED BY <1>1, <1>2

\* a task that is put before a queue
LEMMA ConsOrderly ==
  ASSUME NEW s \in Seq(TaskSet), NEW k \in TaskSet
  PROVE  /\ <<k>> \o s \in Seq(TaskSet)
         /\ Waiting(<<k>> \o s) = Waiting(s) \cup {k.thread}
         /\ OncePerThread(s) /\ k.thread \notin Waiting(s) => OncePerThread(<<k>> \o s)
         /\ \A i \in 1 .. Len(<<k>> \o s) : (<<k>> \o s)[i] = k \/ \E j \in 1 .. Len(s) : (<<k>> \o s)[i] = s[j]
  <1> DEFINE q == <<k>> \o s
  <1>1. /\ q \in Seq(TaskSet) /\ Len(q) = Len(s) + 1 /\ q[1] = k
        /\ \A i \in 1 .. Len(s) : q[i + 1] = s[i]
    BY ConsFacts
  <1>2. Len(s) \in Nat
    OBVIOUS
  <1> HIDE DEF q
  <1>3. \A i \in 1 .. Len(q) : i = 1 \/ (i - 1 \in 1 .. Len(s) /\ q[i] = s[i - 1])
    <2> SUFFICES ASSUME NEW i \in 1 .. Len(q), i # 1 PROVE i - 1 \in 1 .. Len(s) /\ q[i] = s[i - 1]
      OBVIOUS
    <2>1. i - 1 \in 1 .. Len(s) /\ (i - 1) + 1 = i
      BY <1>1, <1>2
    <2>2. q[(i - 1) + 1] = s[i - 1]
      BY <1>1, <2>1
    <2>3. QED BY <2>1, <2>2
  <1>4. 1 \in 1 .. Len(q) /\ \A i \in 1 .. Len(s) : i + 1 \in 1 .. Len(q)
    BY <1>1, <1>2
  <1>5. \A i \in 1 .. Len(q) : q[i] = k \/ \E j \in 1 .. Len(s) : q[i] = s[j]
    BY <1>1, <1>3
  <1>6. Waiting(q) = Waiting(s) \cup {k.thread}
    <2>1. \A x \in Waiting(q) : x \in Waiting(s) \cup {k.thread}
      BY <1>5 DEF Waiting
    <2>2. k.thread \in Waiting(q)
      BY <1>1, <1>4 DEF Waiting
    <2>3. ASSUME NEW i \in 1 .. Len(s) PROVE s[i].thread \in Waiting(q)
      <3>1. i + 1 \in 1 .. Len(q) /\ q[i + 1] = s[i]
        BY <1>1, <1>4
      <3>2. QED BY <3>1 DEF Waiting
    <2>4. \A x \in Waiting(s) : x \in Waiting(q)
      BY <2>3 DEF Waiting
    <2>5. QED BY <2>1, <2>2, <2>4
  <1>7. ASSUME OncePerThread(s), k.thread \notin Waiting(s) PROVE OncePerThread(q)
    <2> SUFFICES ASSUME NEW i \in 1 .. Len(q), NEW j \in 1 .. Len(q), q[i].thread = q[j].thread
                 PROVE  i = j
      BY DEF OncePerThread
    <2>0. i \in Int /\ j \in Int
      BY <1>1, <1>2
    <2>1. \A l \in 1 .. Len(s) : s[l].thread # k.thread
      BY <1>7 DEF Waiting
    <2>2. CASE i = 1 /\ j = 1
      BY <2>2
    <2>3. CASE i # 1 /\ j # 1
      <3>1. i - 1 \in 1 .. Len(s) /\ j - 1 \in 1 .. Len(s) /\ q[i] = s[i - 1] /\ q[j] = s[j - 1]
        BY <2>3, <1>3
      <3>2. i - 1 = j - 1
        BY <3>1, <1>7 DEF OncePerThread
      <3>3. QED BY <3>2, <2>0
    <2>4. CASE i = 1 /\ j # 1
      BY <2>4, <2>1, <1>1, <1>3
    <2>5. CASE i # 1 /\ j = 1
      BY <2>5, <2>1, <1>1, <1>3
    <2>6. QED BY <2>2, <2>3, <2>4, <2>5
  <1>8. QED BY <1>1, <1>5, <1>6, <1>7 DEF q

\* the first of a queue and the rest
LEMMA HeadOrderly ==
  ASSUME NEW s \in Seq(TaskSet), s # << >>
  PROVE  /\ Head(s) \in TaskSet /\ Tail(s) \in Seq(TaskSet)
         /\ Drawn(Tail(s), s)
         /\ Waiting(s) = Waiting(Tail(s)) \cup {Head(s).thread}
         /\ OncePerThread(s) => Head(s).thread \notin Waiting(Tail(s))
         /\ \E i \in 1 .. Len(s) : Head(s) = s[i]
  <1> DEFINE t == Tail(s)
             h == Head(s)
  <1>1. h \in TaskSet /\ t \in Seq(TaskSet) /\ Len(t) = Len(s) - 1 /\ Len(s) >= 1 /\ s = <<h>> \o t /\ h = s[1]
    BY HeadBeforeTail
  <1>2. Waiting(s) = Waiting(t) \cup {h.thread}
    <2> HIDE DEF t, h
    <2>1. QED BY <1>1, ConsOrderly
  <1>3. \A i \in 1 .. Len(t) : t[i] = s[i + 1] /\ i + 1 \in 1 .. Len(s)
    <2>1. Len(s) \in Nat
      OBVIOUS
    <2>2. \A i \in 1 .. Len(t) : i + 1 \in 1 .. Len(s)
      BY <1>1, <2>1
    <2>3. \A i \in 1 .. Len(t) : t[i] = (<<h>> \o t)[i + 1]
      <3> HIDE DEF t, h
      <3>1. QED BY <1>1, ConsFacts
    <2> HIDE DEF t, h
    <2>4. QED BY <1>1, <2>2, <2>3
  <1>4. 1 \in 1 .. Len(s) /\ Len(s) \in Nat
    BY <1>1
  <1> HIDE DEF t, h
  <1>5. ASSUME OncePerThread(s) PROVE OncePerThread(t) /\ h.thread \notin Waiting(t)
    <2>1. ASSUME NEW i \in 1 .. Len(t), NEW j \in 1 .. Len(t), t[i].thread = t[j].thread PROVE i = j
      <3>1. i + 1 = j + 1
        BY <1>3, <1>5, <2>1 DEF OncePerThread
      <3>2. i \in Int /\ j \in Int
        BY <1>1, <1>4
      <3>3. QED BY <3>1, <3>2
    <2>2. ASSUME NEW i \in 1 .. Len(t) PROVE t[i].thread # h.thread
      <3>1. i + 1 # 1
        BY <1>1, <1>4
      <3>2. QED BY <3>1, <1>1, <1>3, <1>4, <1>5 DEF OncePerThread
    <2>3. QED BY <2>1, <2>2 DEF OncePerThread, Waiting
  <1>6. Drawn(t, s)
    BY <1>3, <1>5 DEF Drawn
  <1>7. QED BY <1>1, <1>2, <1>4, <1>5, <1>6 DEF t, h

\* in the first state no operation has begun
LEMMA LoopInvInit ==
  PortsInit => LoopInv
  <1> SUFFICES ASSUME PortsInit PROVE LoopInv
    OBVIOUS
  <1> USE PortsAssumption
  <1>1. act = [t \in Thread |-> NoOperation] /\ running = Main /\ removed = {}
        /\ pending = << >> /\ outQueue = << >> /\ inQueue = << >>
    BY DEF PortsInit
  <1>2. NoOperation \in Acts
    BY DEF NoOperation, Acts
  <1>3. \A t \in Thread : act[t] = NoOperation
    BY <1>1
  <1>4. act \in [Thread -> Acts]
    BY <1>1, <1>2
  <1>5. AtOwnStep(NoOperation)
    BY DEF AtOwnStep, NoOperation, OutOps
  <1>6. running \in Thread
    BY <1>1 DEF Thread
  <1>7. << >> \in Seq(TaskSet)
    OBVIOUS
  <1>8. LoopTypes
    BY <1>1, <1>3, <1>4, <1>5, <1>6, <1>7 DEF LoopTypes
  <1>9. OthersRest
    BY <1>1, <1>3 DEF OthersRest, NoOperation
  <1>10. (\A a, r, gone : Orderly(<< >>, a, r, gone)) /\ Waiting(<< >>) = {}
    BY DEF Orderly, OncePerThread, Waiting
  <1>11. OneTask
    BY <1>1, <1>3, <1>10 DEF OneTask, NoOperation
  <1>12. QED BY <1>8, <1>9, <1>11 DEF LoopInv

\* threads are neither the loop nor an error
LEMMA ThreadsApart ==
  Loop \notin Thread /\ Raised \notin Thread /\ Main \in Thread /\ Main \notin Callbacks
  BY PortsAssumption DEF Loop, Raised, Thread, Main

\* a step of the running thread to a step of its operation, or to its end
LEMMA RunningSteps ==
  ASSUME LoopInv, NEW t \in Thread, running = t,
         NEW a \in Acts, act' = [act EXCEPT ![t] = a], AtOwnStep(a), a.at # "blocked",
         UNCHANGED <<running, loopVars>>
  PROVE  LoopInv'
  <1>1. LoopTypes /\ OthersRest /\ OneTask
    BY DEF LoopInv
  <1>2. act \in [Thread -> Acts]
    BY <1>1 DEF LoopTypes
  <1>3. act'[t] = a /\ \A u \in Thread : u # t => act'[u] = act[u]
    BY <1>2
  <1>4. act' \in [Thread -> Acts]
    BY <1>2
  <1>5. running' = running /\ pending' = pending /\ outQueue' = outQueue /\ inQueue' = inQueue
        /\ removed' = removed
    BY DEF loopVars
  <1>6. \A u \in Thread : AtOwnStep(act'[u])
    BY <1>1, <1>3 DEF LoopTypes
  <1>7. LoopTypes'
    BY <1>1, <1>4, <1>5, <1>6 DEF LoopTypes, AtOwnStep
  <1>8. t \notin removed /\ act[t].at # "blocked"
    BY <1>1 DEF OthersRest
  <1>9. OthersRest'
    BY <1>1, <1>3, <1>5, <1>8 DEF OthersRest
  <1>10. ASSUME NEW k \in TaskSet, Due(k, act, running, removed) PROVE Due(k, act', running', removed')
    <2>1. k.thread # t
      BY <1>10 DEF Due
    <2>2. k.thread \in Thread
      BY DEF TaskSet
    <2>3. act'[k.thread] = act[k.thread]
      BY <1>3, <2>1, <2>2
    <2>4. QED BY <1>5, <1>10, <2>3 DEF Due
  <1>11. ASSUME NEW q \in Seq(TaskSet), Orderly(q, act, running, removed)
         PROVE  Orderly(q, act', running', removed')
    <2>1. \A i \in 1 .. Len(q) : q[i] \in TaskSet
      OBVIOUS
    <2>2. QED BY <1>10, <1>11, <2>1 DEF Orderly
  <1>12. \A q \in {pending', outQueue', inQueue'} : Orderly(q, act', running', removed')
    <2>1. \A q \in {pending, outQueue, inQueue} : q \in Seq(TaskSet)
      BY <1>1 DEF LoopTypes
    <2>2. QED BY <1>1, <1>5, <1>11, <2>1 DEF OneTask
  <1>13. OneTask'
    BY <1>1, <1>3, <1>5, <1>8, <1>12 DEF OneTask
  <1>14. QED BY <1>7, <1>9, <1>13 DEF LoopInv

\* nothing of the event loop changes
LEMMA LoopStays ==
  ASSUME LoopInv, UNCHANGED <<act, running, loopVars>>
  PROVE  LoopInv'
  <1>1. act' = act /\ running' = running /\ pending' = pending /\ outQueue' = outQueue
        /\ inQueue' = inQueue /\ removed' = removed
    BY DEF loopVars
  <1>2. LoopTypes' /\ OthersRest'
    BY <1>1 DEF LoopInv, LoopTypes, OthersRest
  <1>3. OneTask'
    BY <1>1 DEF LoopInv, OneTask
  <1>4. QED BY <1>2, <1>3 DEF LoopInv

\* the running thread blocks
LEMMA Parks ==
  ASSUME LoopInv, NEW t \in Thread, running = t, NEW dir \in {"r", "w"},
         act[t].op # "none", dir = IF PortOf(act[t].op) = "in" THEN "r" ELSE "w",
         Park(t, dir)
  PROVE  LoopInv'
  <1> DEFINE k == Task(t, "resume", dir)
             a == [act[t] EXCEPT !.at = "blocked"]
  <1>1. LoopTypes /\ OthersRest /\ OneTask
    BY DEF LoopInv
  <1>2. act \in [Thread -> Acts] /\ pending \in Seq(TaskSet)
    BY <1>1 DEF LoopTypes
  <1>3. act' = [act EXCEPT ![t] = a] /\ pending' = <<k>> \o pending /\ running' = Loop
        /\ outQueue' = outQueue /\ inQueue' = inQueue /\ removed' = removed
    BY DEF Park
  <1>4. a \in Acts /\ a.at = "blocked" /\ a.op = act[t].op
    <2>1. act[t] \in Acts
      BY <1>2
    <2>2. QED BY <2>1 DEF Acts
  <1>5. k \in TaskSet /\ k.thread = t /\ k.kind = "resume" /\ k.dir = dir
    BY DEF Task, TaskSet
  <1> HIDE DEF k, a
  <1>6. act'[t] = a /\ \A u \in Thread : u # t => act'[u] = act[u]
    BY <1>2, <1>3
  <1>7. pending' \in Seq(TaskSet) /\ act' \in [Thread -> Acts]
    BY <1>2, <1>3, <1>4, <1>5, ConsOrderly
  <1>8. AtOwnStep(a)
    BY <1>4 DEF AtOwnStep
  <1>9. LoopTypes'
    BY <1>1, <1>3, <1>6, <1>7, <1>8 DEF LoopTypes, AtOwnStep
  <1>10. t \notin removed /\ act[t].at # "blocked" /\ t # Loop
    BY <1>1, ThreadsApart DEF OthersRest
  <1>11. OthersRest'
    BY <1>1, <1>3, <1>4, <1>6, <1>10, ThreadsApart DEF OthersRest
  <1>12. ASSUME NEW j \in TaskSet, Due(j, act, running, removed) PROVE Due(j, act', running', removed')
    <2>1. j.thread # t /\ j.thread \in Thread
      BY <1>12 DEF Due, TaskSet
    <2>2. act'[j.thread] = act[j.thread] /\ j.thread # Loop
      BY <1>6, <2>1, ThreadsApart
    <2>3. QED BY <1>3, <1>12, <2>2 DEF Due
  <1>13. Due(k, act', running', removed')
    BY <1>3, <1>4, <1>5, <1>6, <1>10 DEF Due
  <1>14. t \notin Waiting(pending) /\ t \notin Waiting(outQueue) /\ t \notin Waiting(inQueue)
    BY <1>1 DEF OneTask, Orderly, Waiting, Due
  <1>15. Waiting(pending') = Waiting(pending) \cup {t}
    BY <1>2, <1>3, <1>5, ConsOrderly
  <1>16. Orderly(pending', act', running', removed')
    <2>0. Orderly(pending, act, running, removed)
      BY <1>1 DEF OneTask
    <2>1. OncePerThread(pending')
      BY <1>2, <1>3, <1>5, <1>14, <2>0, ConsOrderly DEF Orderly
    <2>2. \A i \in 1 .. Len(pending') : pending'[i] = k \/ \E j \in 1 .. Len(pending) : pending'[i] = pending[j]
      BY <1>2, <1>3, <1>5, ConsOrderly
    <2>3. \A j \in 1 .. Len(pending) : Due(pending[j], act, running, removed) /\ pending[j] \in TaskSet
      BY <1>2, <2>0 DEF Orderly
    <2>4. \A i \in 1 .. Len(pending') : Due(pending'[i], act', running', removed')
      BY <1>12, <1>13, <2>2, <2>3
    <2>5. QED BY <2>1, <2>4 DEF Orderly
  <1>17. Orderly(outQueue', act', running', removed') /\ Orderly(inQueue', act', running', removed')
    <2>1. outQueue \in Seq(TaskSet) /\ inQueue \in Seq(TaskSet)
      BY <1>1 DEF LoopTypes
    <2>2. ASSUME NEW q \in Seq(TaskSet), Orderly(q, act, running, removed)
          PROVE  Orderly(q, act', running', removed')
      <3>1. \A i \in 1 .. Len(q) : q[i] \in TaskSet
        OBVIOUS
      <3>2. QED BY <1>12, <2>2, <3>1 DEF Orderly
    <2>3. Orderly(outQueue, act, running, removed) /\ Orderly(inQueue, act, running, removed)
      BY <1>1 DEF OneTask
    <2>4. QED BY <1>3, <2>1, <2>2, <2>3
  <1>19. OneTask'
    <2>1. \A q \in {pending', outQueue', inQueue'} : Orderly(q, act', running', removed')
      BY <1>16, <1>17
    <2>2. QED BY <1>1, <1>3, <1>6, <1>14, <1>15, <2>1 DEF OneTask
  <1>20. QED BY <1>9, <1>11, <1>19 DEF LoopInv

\* process-events goes on with a task
LEMMA Dispatches ==
  ASSUME LoopInv, Dispatch
  PROVE  LoopInv'
  <1> DEFINE k == Head(outQueue)
             t == k.thread
             a == [act[t] EXCEPT !.at = IF k.dir = "r" THEN "read" ELSE "write"]
  <1>1. LoopTypes /\ OthersRest /\ OneTask
    BY DEF LoopInv
  <1>2. act \in [Thread -> Acts] /\ outQueue \in Seq(TaskSet) /\ outQueue # << >>
    BY <1>1 DEF LoopTypes, Dispatch
  <1>3. k \in TaskSet /\ \E i \in 1 .. Len(outQueue) : k = outQueue[i]
    BY <1>2, HeadOrderly
  <1>4. Orderly(outQueue, act, running, removed)
    BY <1>1 DEF OneTask
  <1>5. Due(k, act, running, removed)
    BY <1>3, <1>4 DEF Orderly
  <1>6. /\ running = Loop /\ running' = t
        /\ act' = IF k.kind = "call" THEN act ELSE [act EXCEPT ![t] = a]
        /\ outQueue' = Tail(outQueue)
        /\ pending' = pending /\ inQueue' = inQueue /\ removed' = removed
    BY DEF Dispatch
  <1>7. t \in Thread /\ k.kind \in {"call", "resume"} /\ k.dir \in {"r", "w"}
    BY <1>3 DEF TaskSet
  <1>8. k.kind = "call" => act[t].at = "none"
    BY <1>1, <1>5, <1>7 DEF Due, LoopTypes, AtOwnStep
  <1>9. act[t] \in Acts /\ AtOwnStep(act[t])
    BY <1>1, <1>2, <1>7 DEF LoopTypes
  <1>10. k.kind = "resume" => /\ a \in Acts /\ AtOwnStep(a) /\ a.at # "blocked"
                              /\ act[t].at = "blocked" /\ t \notin removed
    <2>1. ASSUME k.kind = "resume"
          PROVE  act[t].at = "blocked" /\ t \notin removed /\ k.dir = IF PortOf(act[t].op) = "in" THEN "r" ELSE "w"
      BY <1>5, <2>1 DEF Due
    <2>2. ASSUME k.kind = "resume" PROVE act[t].op # "none" /\ act[t].op \in {"get"} \cup OutOps
      BY <1>9, <2>1, <2>2 DEF AtOwnStep, Acts
    <2>3. a.op = act[t].op /\ a.at = (IF k.dir = "r" THEN "read" ELSE "write") /\ a \in Acts
      BY <1>9 DEF Acts
    <2> HIDE DEF a, k
    <2>4. QED BY <2>1, <2>2, <2>3 DEF AtOwnStep, PortOf, OutOps
  <1>11. t \notin removed
    BY <1>1, <1>7, <1>8, <1>10 DEF OthersRest
  <1> HIDE DEF a
  <1>12. /\ act' \in [Thread -> Acts]
         /\ \A u \in Thread : u # t => act'[u] = act[u]
         /\ act'[t].at # "blocked" /\ AtOwnStep(act'[t])
    <2>1. CASE k.kind = "call"
      <3>1. act' = act
        BY <2>1, <1>6
      <3>2. QED BY <3>1, <2>1, <1>2, <1>8, <1>9
    <2>2. CASE k.kind = "resume"
      <3>1. act' = [act EXCEPT ![t] = a]
        BY <2>2, <1>6
      <3> HIDE DEF k
      <3>2. QED BY <3>1, <2>2, <1>2, <1>7, <1>10
    <2>3. QED BY <2>1, <2>2, <1>7
  <1>13. /\ Tail(outQueue) \in Seq(TaskSet)
         /\ Drawn(Tail(outQueue), outQueue)
         /\ Waiting(outQueue) = Waiting(Tail(outQueue)) \cup {t}
         /\ t \notin Waiting(Tail(outQueue))
    BY <1>2, <1>4, HeadOrderly DEF Orderly
  <1>14. t \notin Waiting(pending) /\ t \notin Waiting(inQueue)
    BY <1>1, <1>13 DEF OneTask
  <1> HIDE DEF k, t
  <1>15. LoopTypes'
    BY <1>1, <1>6, <1>7, <1>12, <1>13 DEF LoopTypes
  <1>16. OthersRest'
    BY <1>1, <1>6, <1>7, <1>11, <1>12, ThreadsApart DEF OthersRest
  <1>17. ASSUME NEW q \in Seq(TaskSet), Orderly(q, act, running, removed), t \notin Waiting(q)
         PROVE  Orderly(q, act', running', removed')
    <2>1. ASSUME NEW i \in 1 .. Len(q) PROVE Due(q[i], act', running', removed')
      <3>0. q[i] \in TaskSet
        OBVIOUS
      <3>1. q[i].thread \in Thread /\ Due(q[i], act, running, removed)
        BY <1>17, <3>0 DEF TaskSet, Orderly
      <3>2. q[i].thread # t
        BY <1>17 DEF Waiting
      <3>3. act'[q[i].thread] = act[q[i].thread]
        BY <1>12, <3>1, <3>2
      <3>4. QED BY <3>1, <3>2, <3>3, <1>6 DEF Due
    <2>2. QED BY <1>17, <2>1 DEF Orderly
  <1>18. Orderly(Tail(outQueue), act, running, removed)
    BY <1>2, <1>4, <1>13, DrawnOrderly
  <1>19. \A q \in {pending', outQueue', inQueue'} : Orderly(q, act', running', removed')
    BY <1>1, <1>6, <1>13, <1>14, <1>17, <1>18 DEF OneTask, LoopTypes
  <1>20. OneTask'
    BY <1>1, <1>6, <1>12, <1>13, <1>14, <1>19 DEF OneTask
  <1>21. QED BY <1>15, <1>16, <1>20 DEF LoopInv

\* only the queues change, and no thread's task is lost or made twice
LEMMA QueuesChange ==
  ASSUME LoopInv, UNCHANGED <<act, removed>>, running \notin Thread,
         running' \in {Loop, Raised},
         pending' \in Seq(TaskSet), outQueue' \in Seq(TaskSet), inQueue' \in Seq(TaskSet),
         \A q \in {pending', outQueue', inQueue'} : Orderly(q, act, running, removed),
         Waiting(pending') \cap Waiting(outQueue') = {},
         Waiting(pending') \cap Waiting(inQueue') = {},
         Waiting(outQueue') \cap Waiting(inQueue') = {},
         Waiting(pending) \cup Waiting(outQueue) \cup Waiting(inQueue)
           \subseteq Waiting(pending') \cup Waiting(outQueue') \cup Waiting(inQueue')
  PROVE  LoopInv'
  <1>1. LoopTypes /\ OthersRest /\ OneTask
    BY DEF LoopInv
  <1>2. running' \notin Thread
    BY ThreadsApart
  <1>3. LoopTypes' /\ OthersRest'
    BY <1>1, <1>2 DEF LoopTypes, OthersRest
  <1>4. ASSUME NEW q \in Seq(TaskSet), Orderly(q, act, running, removed)
        PROVE  Orderly(q, act', running', removed')
    <2>1. ASSUME NEW i \in 1 .. Len(q) PROVE q[i].thread \in Thread
      <3>1. q[i] \in TaskSet
        OBVIOUS
      <3>2. QED BY <3>1 DEF TaskSet
    <2>2. QED BY <1>2, <1>4, <2>1 DEF Orderly, Due
  <1>5. \A q \in {pending', outQueue', inQueue'} : Orderly(q, act', running', removed')
    BY <1>4
  <1>6. OneTask'
    BY <1>1, <1>5 DEF OneTask
  <1>7. QED BY <1>3, <1>6 DEF LoopInv

\* the queue of what select finds ready is turned over
LEMMA NextBatches ==
  ASSUME LoopInv, NextBatch
  PROVE  LoopInv'
  <1>1. LoopTypes /\ OneTask
    BY DEF LoopInv
  <1>2. /\ running = Loop /\ running' = Loop /\ outQueue = << >> /\ inQueue' = << >>
        /\ outQueue' = Reverse(inQueue) /\ UNCHANGED <<act, removed, pending>>
    BY DEF NextBatch
  <1>3. inQueue \in Seq(TaskSet)
    BY <1>1 DEF LoopTypes
  <1>4. /\ Reverse(inQueue) \in Seq(TaskSet) /\ Len(Reverse(inQueue)) = Len(inQueue)
        /\ \A i \in 1 .. Len(inQueue) : Reverse(inQueue)[i] = inQueue[Len(inQueue) - i + 1] /\ Len(inQueue) - i + 1 \in 1 .. Len(inQueue)
    BY <1>3, ReverseFacts
  <1>5. Waiting(<< >>) = {} /\ Orderly(<< >>, act, running, removed)
    BY DEF Waiting, Orderly, OncePerThread
  <1> DEFINE r == Reverse(inQueue)
  <1>6. Drawn(r, inQueue)
    <2> HIDE DEF r
    <2>1. ASSUME OncePerThread(inQueue) PROVE OncePerThread(r)
      <3> SUFFICES ASSUME NEW i \in 1 .. Len(r), NEW j \in 1 .. Len(r), r[i].thread = r[j].thread PROVE i = j
        BY DEF OncePerThread
      <3> DEFINE a == Len(inQueue) - i + 1
                 b == Len(inQueue) - j + 1
      <3>0. /\ i \in 1 .. Len(inQueue) /\ j \in 1 .. Len(inQueue)
            /\ r[i] = inQueue[a] /\ r[j] = inQueue[b]
            /\ a \in 1 .. Len(inQueue) /\ b \in 1 .. Len(inQueue)
        BY <1>4 DEF r
      <3> HIDE DEF a, b
      <3>1. a = b
        BY <3>0, <2>1 DEF OncePerThread
      <3> USE DEF a, b
      <3>2. i \in Int /\ j \in Int /\ Len(inQueue) \in Nat
        BY <1>3, <1>4 DEF r
      <3>3. QED BY <3>1, <3>2
    <2>2. QED BY <1>4, <2>1 DEF Drawn, r
  <1>7. Waiting(r) = Waiting(inQueue)
    <2>1. ASSUME NEW i \in 1 .. Len(inQueue) PROVE inQueue[i].thread \in Waiting(r)
      <3> DEFINE j == Len(inQueue) - i + 1
      <3>1. Len(inQueue) \in Nat
        BY <1>3
      <3>2. j \in 1 .. Len(inQueue) /\ Len(inQueue) - j + 1 = i
        BY <3>1
      <3> HIDE DEF j, r
      <3>3. r[j] = inQueue[i] /\ j \in 1 .. Len(r)
        BY <1>4, <3>2 DEF r
      <3>4. QED BY <3>3 DEF Waiting
    <2>2. Waiting(inQueue) \subseteq Waiting(r)
      <3> HIDE DEF r
      <3>1. QED BY <2>1 DEF Waiting
    <2>3. Waiting(r) \subseteq Waiting(inQueue)
      BY <1>3, <1>4, <1>6, DrawnOrderly
    <2>4. QED BY <2>2, <2>3
  <1>8. Orderly(r, act, running, removed)
    BY <1>1, <1>3, <1>4, <1>6, DrawnOrderly DEF OneTask
  <1> HIDE DEF r
  <1>9. running \notin Thread
    BY <1>2, ThreadsApart
  <1>10. outQueue' = r
    BY <1>2 DEF r
  <1>11. r \in Seq(TaskSet) /\ pending \in Seq(TaskSet) /\ << >> \in Seq(TaskSet)
    BY <1>1, <1>4 DEF r, LoopTypes
  <1>12. \A q \in {pending', outQueue', inQueue'} : Orderly(q, act, running, removed)
    BY <1>1, <1>2, <1>5, <1>8, <1>10 DEF OneTask
  <1>13. QED BY <1>1, <1>2, <1>5, <1>7, <1>9, <1>10, <1>11, <1>12, QueuesChange DEF OneTask

\* select
LEMMA Selects ==
  ASSUME LoopInv, Select
  PROVE  LoopInv'
  <1>1. LoopTypes /\ OneTask
    BY DEF LoopInv
  <1>2. /\ running = Loop /\ outQueue = << >> /\ inQueue = << >>
        /\ UNCHANGED <<act, outQueue, removed>>
    BY DEF Select
  <1>3. running \notin Thread
    BY <1>2, ThreadsApart
  <1>4. pending \in Seq(TaskSet) /\ outQueue \in Seq(TaskSet) /\ inQueue \in Seq(TaskSet)
    BY <1>1 DEF LoopTypes
  <1>5. Waiting(<< >>) = {}
    BY DEF Waiting
  <1>6. CASE running' = Raised /\ UNCHANGED <<pending, inQueue>>
    BY <1>1, <1>2, <1>3, <1>4, <1>6, QueuesChange DEF OneTask
  <1>7. ASSUME NEW ready \in SUBSET {"r", "w"}, inQueue' = Reverse(PendingIn(ready)),
               pending' = StillPending(ready), running' = Loop
        PROVE  LoopInv'
    <2> DEFINE R == {k \in ToSet(pending) : k.dir \in ready}
               N == {k \in ToSet(pending) : k.dir \in {"r", "w"} \ ready}
    <2>1. inQueue' = Reverse(Only(pending, R)) /\ pending' = Reverse(Only(pending, N))
      BY <1>7 DEF PendingIn, StillPending
    <2>2. /\ inQueue' \in Seq(TaskSet) /\ Drawn(inQueue', pending)
          /\ \A i \in 1 .. Len(inQueue') : inQueue'[i] \in R
          /\ \A i \in 1 .. Len(pending) : pending[i] \in R => \E j \in 1 .. Len(inQueue') : inQueue'[j] = pending[i]
      <3> HIDE DEF R
      <3>1. QED BY <1>4, <2>1, ReverseOnlyDrawn
    <2>3. /\ pending' \in Seq(TaskSet) /\ Drawn(pending', pending)
          /\ \A i \in 1 .. Len(pending') : pending'[i] \in N
          /\ \A i \in 1 .. Len(pending) : pending[i] \in N => \E j \in 1 .. Len(pending') : pending'[j] = pending[i]
      <3> HIDE DEF N
      <3>1. QED BY <1>4, <2>1, ReverseOnlyDrawn
    <2>4. \A i \in 1 .. Len(pending) : pending[i] \in R \cup N
      <3>1. ASSUME NEW i \in 1 .. Len(pending) PROVE pending[i] \in ToSet(pending) /\ pending[i].dir \in {"r", "w"}
        <4>1. pending[i] \in TaskSet
          BY <1>4
        <4>2. pending[i] \in ToSet(pending)
          BY <1>4 DEF ToSet
        <4>3. QED BY <4>1, <4>2 DEF TaskSet
      <3>2. QED BY <3>1
    <2>5. OncePerThread(pending)
      BY <1>1 DEF OneTask, Orderly
    <2>6. \A k, l \in ToSet(pending) : k.thread = l.thread => k = l
      <3>1. ASSUME NEW k \in ToSet(pending) PROVE \E i \in 1 .. Len(pending) : k = pending[i]
        BY <1>4 DEF ToSet
      <3>2. QED BY <2>5, <3>1 DEF OncePerThread
    <2>7. \A k \in R, l \in N : k.thread # l.thread
      BY <2>6
    <2> HIDE DEF R, N
    <2>8. Waiting(pending') \cap Waiting(inQueue') = {}
      BY <2>2, <2>3, <2>7 DEF Waiting
    <2>9. Waiting(pending) \subseteq Waiting(pending') \cup Waiting(inQueue')
      <3>1. ASSUME NEW i \in 1 .. Len(pending) PROVE pending[i].thread \in Waiting(pending') \cup Waiting(inQueue')
        <4>1. CASE pending[i] \in R
          BY <2>2, <4>1 DEF Waiting
        <4>2. CASE pending[i] \in N
          BY <2>3, <4>2 DEF Waiting
        <4>3. QED BY <2>4, <4>1, <4>2
      <3>2. QED BY <3>1 DEF Waiting
    <2>10. Orderly(pending', act, running, removed) /\ Orderly(inQueue', act, running, removed)
      <3>1. Orderly(pending, act, running, removed)
        BY <1>1 DEF OneTask
      <3>2. QED BY <1>4, <2>2, <2>3, <3>1, DrawnOrderly
    <2>11. \A q \in {pending', outQueue', inQueue'} : Orderly(q, act, running, removed)
      BY <1>1, <1>2, <2>10 DEF OneTask
    <2>12. QED BY <1>2, <1>3, <1>4, <1>5, <1>7, <2>2, <2>3, <2>8, <2>9, <2>11, QueuesChange
  <1>8. QED BY <1>6, <1>7 DEF Select

\* a callback is registered
LEMMA Registers ==
  ASSUME LoopInv, NEW t \in Thread, NEW c \in Callbacks, NEW dir \in {"r", "w"}, Register(t, c, dir)
  PROVE  LoopInv'
  <1> DEFINE k == Task(c, "call", dir)
  <1>1. LoopTypes /\ OthersRest /\ OneTask
    BY DEF LoopInv
  <1>2. /\ act' = act /\ running' = running /\ outQueue' = outQueue /\ inQueue' = inQueue
        /\ removed' = removed /\ pending' = <<k>> \o pending
        /\ act[c] = NoOperation /\ running # c
        /\ ~ \E i \in DOMAIN Tasks : Tasks[i].thread = c
    BY DEF Register
  <1>3. k \in TaskSet /\ k.thread = c /\ k.kind = "call"
    BY DEF Task, TaskSet, Thread
  <1> HIDE DEF k
  <1>4. pending \in Seq(TaskSet) /\ outQueue \in Seq(TaskSet) /\ inQueue \in Seq(TaskSet)
    BY <1>1 DEF LoopTypes
  <1>5. c \notin Waiting(pending) /\ c \notin Waiting(outQueue) /\ c \notin Waiting(inQueue)
    <2>1. Len(pending) \in Nat /\ Len(outQueue) \in Nat /\ Len(inQueue) \in Nat
      BY <1>4
    <2>2. /\ DOMAIN Tasks = 1 .. Len(pending) + Len(outQueue) + Len(inQueue)
          /\ \A i \in 1 .. Len(pending) : Tasks[i] = pending[i]
          /\ \A i \in 1 .. Len(outQueue) : Tasks[Len(pending) + i] = outQueue[i]
          /\ \A i \in 1 .. Len(inQueue) : Tasks[Len(pending) + Len(outQueue) + i] = inQueue[i]
      BY <1>4 DEF Tasks
    <2>3. /\ \A i \in 1 .. Len(pending) : i \in DOMAIN Tasks
          /\ \A i \in 1 .. Len(outQueue) : Len(pending) + i \in DOMAIN Tasks
          /\ \A i \in 1 .. Len(inQueue) : Len(pending) + Len(outQueue) + i \in DOMAIN Tasks
      BY <2>1, <2>2
    <2>4. \A i \in DOMAIN Tasks : Tasks[i].thread # c
      BY <1>2
    <2>5. QED BY <2>2, <2>3, <2>4 DEF Waiting
  <1>6. Due(k, act, running, removed)
    BY <1>2, <1>3 DEF Due, NoOperation
  <1>7. Orderly(pending, act, running, removed)
    BY <1>1 DEF OneTask
  <1>8. Waiting(pending') = Waiting(pending) \cup {c} /\ pending' \in Seq(TaskSet)
    BY <1>2, <1>3, <1>4, ConsOrderly
  <1>9. Orderly(pending', act, running, removed)
    <2>1. OncePerThread(pending')
      BY <1>2, <1>3, <1>4, <1>5, <1>7, ConsOrderly DEF Orderly
    <2>2. \A i \in 1 .. Len(pending') : pending'[i] = k \/ \E j \in 1 .. Len(pending) : pending'[i] = pending[j]
      BY <1>2, <1>3, <1>4, ConsOrderly
    <2>3. QED BY <1>6, <1>7, <2>1, <2>2 DEF Orderly
  <1>10. OneTask'
    BY <1>1, <1>2, <1>5, <1>8, <1>9 DEF OneTask
  <1>11. LoopTypes' /\ OthersRest'
    BY <1>1, <1>2, <1>8 DEF LoopTypes, OthersRest
  <1>12. QED BY <1>10, <1>11 DEF LoopInv

\* the events of the descriptor are removed
LEMMA Removes ==
  ASSUME LoopInv, RemoveSocketEvents, UNCHANGED <<act, running>>
  PROVE  LoopInv'
  <1>1. LoopTypes /\ OthersRest /\ OneTask
    BY DEF LoopInv
  <1>2. /\ pending' = << >> /\ outQueue' = << >> /\ inQueue' = << >>
        /\ removed' = removed \cup {t \in Thread : act[t].at = "blocked"}
        /\ act' = act /\ running' = running
    BY DEF RemoveSocketEvents
  <1>3. << >> \in Seq(TaskSet) /\ Waiting(<< >>) = {}
    BY DEF Waiting
  <1>4. Orderly(<< >>, act', running', removed')
    BY DEF Orderly, OncePerThread
  <1>5. LoopTypes' /\ OthersRest'
    BY <1>1, <1>2, <1>3 DEF LoopTypes, OthersRest
  <1>6. OneTask'
    BY <1>1, <1>2, <1>3, <1>4 DEF OneTask
  <1>7. QED BY <1>5, <1>6 DEF LoopInv

\* a callback returns to process-events
LEMMA Returns ==
  ASSUME LoopInv, NEW c \in Thread, CallbackReturns(c)
  PROVE  LoopInv'
  <1>1. LoopTypes /\ OthersRest /\ OneTask
    BY DEF LoopInv
  <1>2. /\ running = c /\ act[c].op = "none" /\ running' = Loop /\ act' = act
        /\ pending' = pending /\ outQueue' = outQueue /\ inQueue' = inQueue /\ removed' = removed
    BY DEF CallbackReturns, Free, loopVars
  <1>3. act[c].at = "none"
    BY <1>1, <1>2 DEF LoopTypes, AtOwnStep
  <1>4. LoopTypes'
    BY <1>1, <1>2 DEF LoopTypes
  <1>5. OthersRest'
    BY <1>1, <1>2, <1>3, ThreadsApart DEF OthersRest
  <1>6. ASSUME NEW q \in Seq(TaskSet), Orderly(q, act, running, removed)
        PROVE  Orderly(q, act', running', removed')
    <2>1. ASSUME NEW i \in 1 .. Len(q) PROVE q[i].thread \in Thread
      <3>1. q[i] \in TaskSet
        OBVIOUS
      <3>2. QED BY <3>1 DEF TaskSet
    <2>2. QED BY <1>2, <1>6, <2>1, ThreadsApart DEF Orderly, Due
  <1>7. OneTask'
    BY <1>1, <1>2, <1>6 DEF OneTask, LoopTypes
  <1>8. QED BY <1>4, <1>5, <1>7 DEF LoopInv

\* of a sequence in which a thread has one task at most, only that one is left
LEMMA OneIsLeft ==
  ASSUME NEW s \in Seq(TaskSet), OncePerThread(s), NEW S, NEW t,
         \A k \in S : k.thread = t
  PROVE  /\ \A k \in S : (\E i \in 1 .. Len(s) : s[i] = k) => Only(s, S) = <<k>>
         /\ (\A i \in 1 .. Len(s) : s[i] \notin S) => Only(s, S) = << >>
  <1> DEFINE o == Only(s, S)
  <1>1. o \in Seq(TaskSet)
    BY OnlyPicks
  <1>2. PICK f : PicksBy(o, s, S, f)
    BY OnlyPicks
  <1> HIDE DEF o
  <1>3. /\ \A k \in 1 .. Len(o) : f[k] \in 1 .. Len(s) /\ o[k] = s[f[k]] /\ o[k] \in S
        /\ \A j, k \in 1 .. Len(o) : j < k => f[j] < f[k]
        /\ \A j \in 1 .. Len(s) : s[j] \in S => \E k \in 1 .. Len(o) : f[k] = j
    BY <1>2 DEF PicksBy
  <1>4. Len(o) \in Nat /\ Len(s) \in Nat
    BY <1>1
  <1>5. Len(o) <= 1
    <2>1. ASSUME Len(o) > 1 PROVE FALSE
      <3>1. 1 \in 1 .. Len(o) /\ 2 \in 1 .. Len(o)
        BY <2>1, <1>4
      <3>2. f[1] < f[2] /\ f[1] \in 1 .. Len(s) /\ f[2] \in 1 .. Len(s)
        BY <3>1, <1>3
      <3>3. s[f[1]].thread = s[f[2]].thread
        BY <3>1, <1>3
      <3>4. f[1] = f[2]
        BY <3>2, <3>3 DEF OncePerThread
      <3>5. QED BY <3>2, <3>4, <1>4
    <2>2. QED BY <2>1, <1>4
  <1>6. ASSUME NEW k \in S, NEW i \in 1 .. Len(s), s[i] = k PROVE o = <<k>>
    <2>1. PICK j \in 1 .. Len(o) : f[j] = i
      BY <1>3, <1>6
    <2>2. j = 1 /\ Len(o) = 1
      <3>1. j \in Int /\ 1 <= j /\ j <= Len(o)
        BY <1>4
      <3>2. \A l \in Nat : 1 <= j /\ j <= l /\ l <= 1 => j = 1 /\ l = 1
        BY <3>1
      <3>3. QED BY <3>1, <3>2, <1>4, <1>5
    <2>3. o[1] = k
      BY <2>1, <2>2, <1>3, <1>6
    <2>4. QED BY <1>1, <2>2, <2>3
  <1>7. ASSUME \A i \in 1 .. Len(s) : s[i] \notin S PROVE o = << >>
    <2>1. \A k \in 1 .. Len(o) : FALSE
      BY <1>3, <1>7
    <2>2. Len(o) = 0
      BY <2>1, <1>4
    <2>3. QED BY <1>1, <2>2
  <1>8. QED BY <1>6, <1>7 DEF o

\* so it is with the tasks of the event loop
LEMMA LoopForgetsNone ==
  ASSUME LoopInv
  PROVE  NoneForgotten
  <1>1. LoopTypes /\ OthersRest /\ OneTask
    BY DEF LoopInv
  <1>2. pending \in Seq(TaskSet) /\ outQueue \in Seq(TaskSet) /\ inQueue \in Seq(TaskSet)
    BY <1>1 DEF LoopTypes
  <1> DEFINE p == Len(pending)
             o == Len(outQueue)
             n == Len(inQueue)
  <1>3. p \in Nat /\ o \in Nat /\ n \in Nat
    BY <1>2
  <1>4. /\ Tasks \in Seq(TaskSet) /\ Len(Tasks) = p + o + n
        /\ \A i \in 1 .. p : Tasks[i] = pending[i]
        /\ \A i \in 1 .. o : Tasks[p + i] = outQueue[i]
        /\ \A i \in 1 .. n : Tasks[p + o + i] = inQueue[i]
    BY <1>2 DEF Tasks
  <1> HIDE DEF p, o, n
  <1>5. \A i \in 1 .. Len(Tasks) :
           \/ i \in 1 .. p /\ Tasks[i] = pending[i]
           \/ i - p \in 1 .. o /\ Tasks[i] = outQueue[i - p]
           \/ i - p - o \in 1 .. n /\ Tasks[i] = inQueue[i - p - o]
    <2> SUFFICES ASSUME NEW i \in 1 .. Len(Tasks)
                 PROVE  \/ i \in 1 .. p /\ Tasks[i] = pending[i]
                        \/ i - p \in 1 .. o /\ Tasks[i] = outQueue[i - p]
                        \/ i - p - o \in 1 .. n /\ Tasks[i] = inQueue[i - p - o]
      OBVIOUS
    <2>1. i \in Int /\ 1 <= i /\ i <= p + o + n
      BY <1>3, <1>4
    <2>2. CASE i <= p
      BY <1>3, <1>4, <2>1, <2>2
    <2>3. CASE p < i /\ i <= p + o
      <3>1. i - p \in 1 .. o /\ p + (i - p) = i
        BY <1>3, <2>1, <2>3
      <3>2. Tasks[p + (i - p)] = outQueue[i - p]
        BY <1>4, <3>1
      <3>3. QED BY <3>1, <3>2
    <2>4. CASE p + o < i
      <3>1. i - p - o \in 1 .. n /\ p + o + (i - p - o) = i
        BY <1>3, <2>1, <2>4
      <3>2. Tasks[p + o + (i - p - o)] = inQueue[i - p - o]
        BY <1>4, <3>1
      <3>3. QED BY <3>1, <3>2
    <2>5. QED BY <2>1, <2>2, <2>3, <2>4, <1>3
  <1>6. /\ \A i, j \in 1 .. p : pending[i].thread = pending[j].thread => i = j
        /\ \A i, j \in 1 .. o : outQueue[i].thread = outQueue[j].thread => i = j
        /\ \A i, j \in 1 .. n : inQueue[i].thread = inQueue[j].thread => i = j
        /\ \A i \in 1 .. p : Due(pending[i], act, running, removed)
        /\ \A i \in 1 .. o : Due(outQueue[i], act, running, removed)
        /\ \A i \in 1 .. n : Due(inQueue[i], act, running, removed)
    BY <1>1 DEF OneTask, Orderly, OncePerThread, p, o, n
  <1>7. /\ \A i \in 1 .. p, j \in 1 .. o : pending[i].thread # outQueue[j].thread
        /\ \A i \in 1 .. p, j \in 1 .. n : pending[i].thread # inQueue[j].thread
        /\ \A i \in 1 .. o, j \in 1 .. n : outQueue[i].thread # inQueue[j].thread
    BY <1>1 DEF OneTask, Waiting, p, o, n
  <1>8. OncePerThread(Tasks)
    <2> SUFFICES ASSUME NEW i \in 1 .. Len(Tasks), NEW j \in 1 .. Len(Tasks), Tasks[i].thread = Tasks[j].thread
                 PROVE  i = j
      BY DEF OncePerThread
    <2>1. i \in Int /\ j \in Int
      BY <1>3, <1>4
    <2>2. CASE i \in 1 .. p /\ Tasks[i] = pending[i]
      <3>1. CASE j \in 1 .. p /\ Tasks[j] = pending[j]
        BY <2>2, <3>1, <1>6
      <3>2. CASE j - p \in 1 .. o /\ Tasks[j] = outQueue[j - p]
        BY <2>2, <3>2, <1>7
      <3>3. CASE j - p - o \in 1 .. n /\ Tasks[j] = inQueue[j - p - o]
        BY <2>2, <3>3, <1>7
      <3>4. QED BY <3>1, <3>2, <3>3, <1>5
    <2>3. CASE i - p \in 1 .. o /\ Tasks[i] = outQueue[i - p]
      <3>1. CASE j \in 1 .. p /\ Tasks[j] = pending[j]
        BY <2>3, <3>1, <1>7
      <3>2. CASE j - p \in 1 .. o /\ Tasks[j] = outQueue[j - p]
        <4>1. i - p = j - p
          BY <2>3, <3>2, <1>6
        <4>2. QED BY <4>1, <2>1, <1>3
      <3>3. CASE j - p - o \in 1 .. n /\ Tasks[j] = inQueue[j - p - o]
        BY <2>3, <3>3, <1>7
      <3>4. QED BY <3>1, <3>2, <3>3, <1>5
    <2>4. CASE i - p - o \in 1 .. n /\ Tasks[i] = inQueue[i - p - o]
      <3>1. CASE j \in 1 .. p /\ Tasks[j] = pending[j]
        BY <2>4, <3>1, <1>7
      <3>2. CASE j - p \in 1 .. o /\ Tasks[j] = outQueue[j - p]
        BY <2>4, <3>2, <1>7
      <3>3. CASE j - p - o \in 1 .. n /\ Tasks[j] = inQueue[j - p - o]
        <4>1. i - p - o = j - p - o
          BY <2>4, <3>3, <1>6
        <4>2. QED BY <4>1, <2>1, <1>3
      <3>4. QED BY <3>1, <3>2, <3>3, <1>5
    <2>5. QED BY <2>2, <2>3, <2>4, <1>5
  <1>9. \A i \in 1 .. Len(Tasks) : Due(Tasks[i], act, running, removed)
    BY <1>5, <1>6
  <1>10. \A i \in 1 .. Len(Tasks) : Tasks[i] \in TaskSet
    BY <1>4
  <1> DEFINE Blocked(t) == act[t].at = "blocked" /\ t \notin removed
             S(t) == {k \in ToSet(Tasks) : k.thread = t /\ k.kind = "resume"}
             due(t) == Task(t, "resume", IF PortOf(act[t].op) = "in" THEN "r" ELSE "w")
  <1>11. \A i \in 1 .. Len(Tasks) : Tasks[i] \in ToSet(Tasks)
    BY <1>4 DEF ToSet
  <1>12. ASSUME NEW t \in Thread, Blocked(t)
         PROVE  Only(Tasks, S(t)) = <<due(t)>>
    <2>1. \E i \in 1 .. Len(Tasks) : Tasks[i].thread = t
      <3>1. t \in Waiting(pending) \cup Waiting(outQueue) \cup Waiting(inQueue)
        BY <1>1, <1>12 DEF OneTask
      <3>2. CASE t \in Waiting(pending)
        <4>1. PICK i \in 1 .. p : pending[i].thread = t
          BY <3>2 DEF Waiting, p
        <4>2. i \in 1 .. Len(Tasks) /\ Tasks[i] = pending[i]
          BY <1>3, <1>4
        <4>3. QED BY <4>1, <4>2
      <3>3. CASE t \in Waiting(outQueue)
        <4>1. PICK i \in 1 .. o : outQueue[i].thread = t
          BY <3>3 DEF Waiting, o
        <4>2. p + i \in 1 .. Len(Tasks) /\ Tasks[p + i] = outQueue[i]
          BY <1>3, <1>4
        <4>3. QED BY <4>1, <4>2
      <3>4. CASE t \in Waiting(inQueue)
        <4>1. PICK i \in 1 .. n : inQueue[i].thread = t
          BY <3>4 DEF Waiting, n
        <4>2. p + o + i \in 1 .. Len(Tasks) /\ Tasks[p + o + i] = inQueue[i]
          BY <1>3, <1>4
        <4>3. QED BY <4>1, <4>2
      <3>5. QED BY <3>1, <3>2, <3>3, <3>4
    <2>2. PICK i \in 1 .. Len(Tasks) : Tasks[i].thread = t
      BY <2>1
    <2> DEFINE k == Tasks[i]
    <2>3. k \in TaskSet /\ Due(k, act, running, removed) /\ k.thread = t
      BY <1>9, <1>10, <2>2
    <2>4. act[t].op # "none"
      BY <1>1, <1>12 DEF LoopTypes, AtOwnStep
    <2> HIDE DEF k
    <2>5. k.kind = "resume" /\ k.dir = IF PortOf(act[t].op) = "in" THEN "r" ELSE "w"
      BY <2>3, <2>4 DEF TaskSet, Due
    <2>6. k = due(t)
      BY <2>3, <2>5 DEF TaskSet, Task
    <2>7. k \in S(t)
      BY <2>2, <2>3, <2>5, <1>11 DEF k
    <2> HIDE DEF S, due
    <2>8. \A x \in S(t) : x.thread = t
      BY DEF S
    <2>9. Only(Tasks, S(t)) = <<k>>
      BY <1>4, <1>8, <2>2, <2>7, <2>8, OneIsLeft DEF k
    <2>10. QED BY <2>6, <2>9
  <1>13. ASSUME NEW t \in Thread, ~Blocked(t)
         PROVE  Only(Tasks, S(t)) = << >>
    <2>1. \A i \in 1 .. Len(Tasks) : Tasks[i] \notin S(t)
      BY <1>9, <1>13 DEF Due
    <2>2. \A x \in S(t) : x.thread = t
      OBVIOUS
    <2> HIDE DEF S
    <2>3. QED BY <1>4, <1>8, <2>1, <2>2, OneIsLeft
  <1>14. QED BY <1>12, <1>13 DEF NoneForgotten

\* the output port is left as it is, and no thread begins to write
LEMMA OutStays ==
  ASSUME OutTypes, OutInOrder, UNCHANGED outVars, mixed \subseteq mixed',
         \A t \in Thread : Writing(t)' => Writing(t) /\ act'[t].n = act[t].n
  PROVE  OutTypes' /\ OutInOrder'
  <1>1. out' = out /\ sink' = sink /\ accepted' = accepted
    BY DEF outVars
  <1>2. OutTypes'
    BY <1>1 DEF OutTypes, OutRange
  <1>3. ASSUME "out" \notin mixed' PROVE "out" \notin mixed
    BY <1>3
  <1>4. OutInOrder'
    BY <1>1, <1>3 DEF OutInOrder, OutBytes
  <1>5. QED BY <1>2, <1>4

\* the bytes of the input port are left as they are, and no thread begins or ends to read
LEMMA InStays ==
  ASSUME InTypes, BufferedInOrder, ReadBack, InTypes',
         in'.buf = in.buf, in'.index = in.index, in'.size = in.size,
         sent' = sent, got' = got, mixed \subseteq mixed',
         \A t \in Thread : (Reading(t)' <=> Reading(t)) /\ (Reading(t) => act'[t].n = act[t].n)
  PROVE  BufferedInOrder' /\ ReadBack'
  <1>1. ASSUME "in" \notin mixed' PROVE "in" \notin mixed
    BY <1>1
  <1>2. Unread' = Unread /\ Consumed' = Consumed
    BY DEF Unread, Consumed
  <1>3. (Whole' <=> Whole) /\ (Past' <=> Past)
    BY <1>2 DEF Whole, Past
  <1>4. BufferedInOrder'
    BY <1>1, <1>2, <1>3 DEF BufferedInOrder, Ahead, Buffered
  <1>5. ReadBack'
    BY <1>1 DEF ReadBack
  <1>6. QED BY <1>4, <1>5

\* no thread comes to use a port
LEMMA AloneStays ==
  ASSUME NEW port, Alone(port), mixed \subseteq mixed',
         \A t \in Thread : Uses(t, port)' => Uses(t, port)
  PROVE  Alone(port)'
  BY DEF Alone

\* a thread goes on to another step of its operation, or ends it, and nothing else changes
\* of the others
LEMMA OneMoves ==
  ASSUME LoopTypes, NEW t \in Thread, NEW a, act' = [act EXCEPT ![t] = a],
         NEW u \in Thread, NEW port
  PROVE  /\ act'[t] = a
         /\ u # t => /\ act'[u] = act[u]
                     /\ Writing(u)' <=> Writing(u)
                     /\ Reading(u)' <=> Reading(u)
                     /\ Uses(u, port)' <=> Uses(u, port)
  <1>1. act'[t] = a /\ (u # t => act'[u] = act[u])
    BY DEF LoopTypes
  <1>2. QED BY <1>1 DEF Writing, Reading, Uses

\* the first state
LEMMA PortsInvInit ==
  PortsInit => PortsInv
  <1> SUFFICES ASSUME PortsInit PROVE PortsInv
    OBVIOUS
  <1> USE PortsAssumption
  <1>1. /\ out = [buf |-> [i \in 1 .. OutSize |-> 0], index |-> 0, pos |-> 0, closed |-> FALSE]
        /\ in = [buf |-> [i \in 1 .. InSize |-> 0], index |-> 0, size |-> 0, pos |-> 0, closed |-> FALSE]
        /\ sink = << >> /\ sent = 0 /\ accepted = 0 /\ got = << >>
        /\ \A t \in Thread : act[t] = NoOperation
    BY DEF PortsInit
  <1>2. OutTypes
    BY <1>1 DEF OutTypes, OutRange, OutRecord, Writing, NoOperation, OutOps
  <1>3. InTypes
    BY <1>1 DEF InTypes
  <1>4. Alone("out") /\ Alone("in")
    BY <1>1 DEF Alone, Uses, NoOperation
  <1>5. OutInOrder
    BY <1>1 DEF OutInOrder, OutBytes, Writing, NoOperation, OutOps
  <1>6. Unread = 0 /\ Consumed = 0 /\ Whole
    <2>1. Unread = 0 /\ Consumed = 0
      BY <1>1 DEF Unread, Consumed
    <2>2. LastOf(Len(got)) = 0 /\ 1 .. Len(got) = {}
      BY <1>1 DEF LastOf
    <2>3. QED BY <2>1, <2>2 DEF Whole
  <1>7. BufferedInOrder
    BY <1>1, <1>6 DEF BufferedInOrder, Buffered, Reading, NoOperation
  <1>8. ReadBack
    BY <1>1 DEF ReadBack
  <1>9. QED BY <1>2, <1>3, <1>4, <1>5, <1>7, <1>8, LoopInvInit DEF PortsInv

\* an operation begins
LEMMA Begins ==
  ASSUME PortsInv, NEW t \in Thread, NEW op \in {"get"} \cup OutOps, NEW at, NEW left \in Nat,
         at \in IF op = "get" THEN {"get"} ELSE {"put", "flush"},
         BeginOperation(t, op, at, left)
  PROVE  PortsInv'
  <1> DEFINE a == [op |-> op, at |-> at, n |-> 0, left |-> left]
  <1>1. /\ running = t /\ act[t].op = "none" /\ act' = [act EXCEPT ![t] = a]
        /\ mixed' = IF Meet(PortOf(op), t) THEN mixed \cup {PortOf(op)} ELSE mixed
        /\ UNCHANGED outVars /\ in' = in /\ sent' = sent /\ got' = got
        /\ UNCHANGED <<running, loopVars>>
    BY DEF BeginOperation, Free, inVars
  <1>2. a \in Acts /\ AtOwnStep(a) /\ a.at # "blocked"
    BY DEF Acts, AtOwnStep, OutOps
  <1>3. ~Writing(t)' /\ ~Reading(t)' /\ ~Reading(t) /\ ~Writing(t)
        /\ Uses(t, PortOf(op))' /\ \A port : Uses(t, port)' => port = PortOf(op)
    <2>1. act'[t] = a
      BY <1>1 DEF PortsInv, LoopInv, LoopTypes
    <2>2. QED BY <1>1, <2>1 DEF Writing, Reading, Uses, OutOps
  <1> HIDE DEF a
  <1>4. LoopInv'
    BY <1>1, <1>2, RunningSteps DEF PortsInv
  <1>5. LoopTypes
    BY DEF PortsInv, LoopInv
  <1>6. mixed \subseteq mixed'
    BY <1>1
  <1>7. OutTypes' /\ OutInOrder'
    BY <1>1, <1>3, <1>5, <1>6, OutStays, OneMoves DEF PortsInv
  <1>8. InTypes'
    BY <1>1 DEF PortsInv, InTypes
  <1>9. BufferedInOrder' /\ ReadBack'
    BY <1>1, <1>3, <1>5, <1>6, <1>8, InStays, OneMoves DEF PortsInv
  <1>10. ASSUME NEW port \in {"in", "out"} PROVE Alone(port)'
    <2>1. CASE port = PortOf(op)
      <3> SUFFICES ASSUME port \notin mixed', NEW u \in Thread, Uses(u, port)' PROVE u = t
        BY DEF Alone
      <3>1. ASSUME u # t PROVE FALSE
        <4>1. Uses(u, port)
          BY <1>1, <1>5, <3>1, OneMoves
        <4>2. Meet(port, t)
          BY <4>1, <3>1 DEF Meet, Uses
        <4>3. QED BY <4>2, <2>1, <1>1
      <3>2. QED BY <3>1
    <2>2. CASE port # PortOf(op)
      <3>1. ~Uses(t, port)'
        BY <2>2, <1>3
      <3>2. \A u \in Thread : Uses(u, port)' => Uses(u, port)
        BY <3>1, <1>1, <1>5, OneMoves
      <3>3. Alone(port)
        BY DEF PortsInv
      <3>4. QED BY <3>2, <3>3, <1>6, AloneStays
    <2>3. QED BY <2>1, <2>2
  <1>11. QED BY <1>4, <1>7, <1>8, <1>9, <1>10 DEF PortsInv

\* a step of the event loop leaves the bytes alone
LEMMA BytesStay ==
  ASSUME PortsInv, LoopInv', UNCHANGED outVars, UNCHANGED inVars, mixed \subseteq mixed',
         \A t \in Thread : /\ Writing(t)' => Writing(t)
                           /\ Reading(t)' <=> Reading(t)
                           /\ act'[t].op = act[t].op /\ act'[t].n = act[t].n
  PROVE  PortsInv'
  <1>1. in' = in /\ sent' = sent /\ got' = got
    BY DEF inVars
  <1>2. InTypes'
    BY <1>1 DEF PortsInv, InTypes
  <1>3. OutTypes' /\ OutInOrder'
    BY OutStays DEF PortsInv
  <1>4. BufferedInOrder' /\ ReadBack'
    BY <1>1, <1>2, InStays DEF PortsInv
  <1>5. \A port : \A t \in Thread : Uses(t, port)' => Uses(t, port)
    BY DEF Uses
  <1>6. Alone("in")' /\ Alone("out")'
    BY <1>5, AloneStays DEF PortsInv
  <1>7. QED BY <1>2, <1>3, <1>4, <1>6 DEF PortsInv

\* what the event loop does when no operation of a thread changes
LEMMA LoopSteps ==
  ASSUME PortsInv, LoopInv', act' = act, UNCHANGED outVars, UNCHANGED inVars, mixed \subseteq mixed'
  PROVE  PortsInv'
  BY BytesStay DEF Writing, Reading

\* process-events goes on with a task
LEMMA DispatchKeeps ==
  ASSUME PortsInv, Dispatch
  PROVE  PortsInv'
  <1> DEFINE k == Head(outQueue)
             th == k.thread
             e == [act[th] EXCEPT !.at = IF k.dir = "r" THEN "read" ELSE "write"]
  <1>1. LoopInv /\ LoopTypes /\ OneTask
    BY DEF PortsInv, LoopInv
  <1>2. LoopInv'
    BY <1>1, Dispatches
  <1>3. /\ act' = IF k.kind = "call" THEN act ELSE [act EXCEPT ![th] = e]
        /\ mixed' = mixed /\ UNCHANGED outVars /\ UNCHANGED inVars
    BY DEF Dispatch
  <1>4. outQueue \in Seq(TaskSet) /\ outQueue # << >>
    BY <1>1 DEF LoopTypes, Dispatch
  <1>5. k \in TaskSet /\ \E i \in 1 .. Len(outQueue) : k = outQueue[i]
    BY <1>4, HeadOrderly
  <1>6. Due(k, act, running, removed)
    BY <1>1, <1>5 DEF OneTask, Orderly
  <1>70. th \in Thread /\ k.kind \in {"call", "resume"}
    BY <1>5 DEF TaskSet
  <1>71. PICK t, a : t = th /\ a = e
    BY <1>70
  <1>7. t \in Thread
    BY <1>70, <1>71
  <1>8. act[t] \in Acts
    BY <1>1, <1>7 DEF LoopTypes
  <1>9. a.op = act[t].op /\ a.n = act[t].n /\ a.at = IF k.dir = "r" THEN "read" ELSE "write"
    BY <1>8, <1>71 DEF Acts
  <1>10. k.kind = "resume" => /\ act[t].at = "blocked"
                              /\ k.dir = IF PortOf(act[t].op) = "in" THEN "r" ELSE "w"
    BY <1>6, <1>71 DEF Due
  <1>11. act[t].op \in {"none", "get"} \cup OutOps
    BY <1>8 DEF Acts
  <1> HIDE DEF e, k, th
  <1>12. CASE k.kind = "call"
    <2>1. act' = act
      BY <1>3, <1>12
    <2>2. QED BY <1>2, <1>3, <2>1, LoopSteps
  <1>13. CASE k.kind = "resume"
    <2>1. act' = [act EXCEPT ![t] = a]
      BY <1>3, <1>13, <1>71
    <2>2. act'[t] = a
      BY <1>1, <1>7, <2>1, OneMoves
    <2>3. act[t].op # "none"
      <3>1. AtOwnStep(act[t])
        BY <1>1, <1>7 DEF LoopTypes
      <3>2. QED BY <3>1, <1>10, <1>13 DEF AtOwnStep
    <2>4. /\ Writing(t)' => Writing(t)
          /\ Reading(t)' <=> Reading(t)
          /\ act'[t].op = act[t].op /\ act'[t].n = act[t].n
      <3>1. CASE act[t].op = "get"
        <4>1. a.op = "get" /\ a.at = "read" /\ a.n = act[t].n /\ act[t].at = "blocked"
          BY <3>1, <1>9, <1>10, <1>13 DEF PortOf
        <4>2. QED BY <4>1, <2>2, <3>1 DEF Writing, Reading, OutOps
      <3>2. CASE act[t].op # "get"
        <4>1. a.op = act[t].op /\ a.at = "write" /\ a.n = act[t].n /\ act[t].at = "blocked"
          BY <3>2, <1>9, <1>10, <1>13 DEF PortOf
        <4>2. QED BY <4>1, <2>2, <3>2 DEF Writing, Reading, OutOps
      <3>3. QED BY <3>1, <3>2
    <2>5. \A u \in Thread : u # t => act'[u] = act[u]
      BY <1>1, <1>7, <2>1, OneMoves
    <2>6. \A u \in Thread : u # t => /\ Writing(u)' => Writing(u)
                                     /\ Reading(u)' <=> Reading(u)
                                     /\ act'[u].op = act[u].op /\ act'[u].n = act[u].n
      BY <2>5 DEF Writing, Reading
    <2>7. \A u \in Thread : /\ Writing(u)' => Writing(u)
                            /\ Reading(u)' <=> Reading(u)
                            /\ act'[u].op = act[u].op /\ act'[u].n = act[u].n
      BY <2>4, <2>6
    <2>8. mixed \subseteq mixed'
      BY <1>3
    <2>9. QED BY <1>2, <1>3, <2>7, <2>8, BytesStay
  <1>14. QED BY <1>70, <1>12, <1>13

\* close-port of the input port
LEMMA CloseInKeeps ==
  ASSUME PortsInv, NEW t \in Thread, CloseIn(t)
  PROVE  PortsInv'
  <1>1. in' = [in EXCEPT !.closed = TRUE] /\ sent' = sent /\ got' = got /\ act' = act /\ mixed' = mixed
        /\ UNCHANGED outVars /\ UNCHANGED <<running, loopVars>>
    BY DEF CloseIn
  <1>2. LoopInv'
    BY <1>1, LoopStays DEF PortsInv
  <1>3. InTypes /\ in'.buf = in.buf /\ in'.index = in.index /\ in'.size = in.size /\ InTypes'
    BY <1>1 DEF PortsInv, InTypes
  <1>4. \A u \in Thread : (Reading(u)' <=> Reading(u)) /\ (Writing(u)' <=> Writing(u)) /\ act'[u] = act[u]
    BY <1>1 DEF Reading, Writing
  <1>5. BufferedInOrder' /\ ReadBack'
    BY <1>1, <1>3, <1>4, InStays DEF PortsInv
  <1>6. OutTypes' /\ OutInOrder'
    BY <1>1, <1>4, OutStays DEF PortsInv
  <1>7. \A port : \A u \in Thread : Uses(u, port)' => Uses(u, port)
    BY <1>1 DEF Uses
  <1>8. Alone("in")' /\ Alone("out")'
    BY <1>1, <1>7, AloneStays DEF PortsInv
  <1>9. QED BY <1>2, <1>3, <1>5, <1>6, <1>8 DEF PortsInv

\* the bytes of the output port are given up
LEMMA ResetOutKeeps ==
  ASSUME PortsInv, NEW t \in Thread, ResetOut(t)
  PROVE  PortsInv'
  <1> USE PortsAssumption
  <1>1. /\ out' = [out EXCEPT !.index = 0] /\ mixed' = mixed \cup {"out"} /\ sink' = sink /\ accepted' = accepted
        /\ act' = act /\ in' = in /\ sent' = sent /\ got' = got
    BY DEF ResetOut, inVars
  <1>2. LoopInv'
    BY Removes DEF PortsInv, ResetOut
  <1>3. OutTypes' /\ InTypes'
    <2>1. 0 \in 0 .. OutSize
      OBVIOUS
    <2>2. OutTypes'
      BY <1>1, <2>1 DEF PortsInv, OutTypes, OutRange, OutRecord, Writing
    <2>3. InTypes'
      BY <1>1 DEF PortsInv, InTypes
    <2>4. QED BY <2>2, <2>3
  <1>4. OutInOrder'
    BY <1>1 DEF OutInOrder
  <1>5. \A u \in Thread : Reading(u)' <=> Reading(u)
    BY <1>1 DEF Reading
  <1>6. BufferedInOrder' /\ ReadBack'
    BY <1>1, <1>3, <1>5, InStays DEF PortsInv
  <1>7. \A port : \A u \in Thread : Uses(u, port)' => Uses(u, port)
    BY <1>1 DEF Uses
  <1>8. Alone("in")' /\ Alone("out")'
    BY <1>1, <1>7, AloneStays DEF PortsInv
  <1>9. QED BY <1>2, <1>3, <1>4, <1>6, <1>8 DEF PortsInv

\* the bytes of the input port are given up
LEMMA ResetInKeeps ==
  ASSUME PortsInv, NEW t \in Thread, ResetIn(t)
  PROVE  PortsInv'
  <1>1. /\ in' = [in EXCEPT !.index = in.size] /\ mixed' = mixed \cup {"in"}
        /\ act' = act /\ sent' = sent /\ got' = got /\ UNCHANGED outVars
    BY DEF ResetIn
  <1>2. LoopInv'
    BY Removes DEF PortsInv, ResetIn
  <1>3. InTypes'
    <2>1. in.size \in 0 .. InSize /\ in.size \in Int
      BY PortsAssumption DEF PortsInv, InTypes
    <2>2. QED BY <1>1, <2>1 DEF PortsInv, InTypes
  <1>4. OutTypes' /\ OutInOrder'
    <2>1. \A u \in Thread : Writing(u)' <=> Writing(u)
      BY <1>1 DEF Writing
    <2>2. QED BY <1>1, <2>1, OutStays DEF PortsInv
  <1>5. BufferedInOrder' /\ ReadBack'
    BY <1>1 DEF BufferedInOrder, ReadBack
  <1>6. \A port : \A u \in Thread : Uses(u, port)' => Uses(u, port)
    BY <1>1 DEF Uses
  <1>7. Alone("in")' /\ Alone("out")'
    BY <1>1, <1>6, AloneStays DEF PortsInv
  <1>8. QED BY <1>2, <1>3, <1>4, <1>5, <1>7 DEF PortsInv

\* an operation of the running thread ends, or blocks
LEMMA WriteFailsKeeps ==
  ASSUME PortsInv, NEW t \in Thread, WriteFails(t)
  PROVE  PortsInv'
  <1>1. /\ running = t /\ act[t].at = "write" /\ mixed' = mixed
        /\ UNCHANGED outVars /\ in' = in /\ sent' = sent /\ got' = got
    BY DEF WriteFails, Doing, inVars
  <1>2. LoopInv /\ LoopTypes
    BY DEF PortsInv, LoopInv
  <1>3. act[t] \in Acts /\ act[t].op \in OutOps
    BY <1>1, <1>2 DEF LoopTypes, AtOwnStep
  <1>4. InTypes'
    BY <1>1 DEF PortsInv, InTypes
  <1>5. ASSUME NEW a \in Acts, act' = [act EXCEPT ![t] = a], LoopInv',
               a.op \in {"none", act[t].op},
               (a.op \in OutOps /\ a.at \in {"write", "blocked"}) => a.n = act[t].n
        PROVE  PortsInv'
    <2>1. act'[t] = a /\ \A u \in Thread : u # t => act'[u] = act[u]
      BY <1>2, <1>5, OneMoves
    <2>2. \A u \in Thread : /\ Writing(u)' => Writing(u) /\ act'[u].n = act[u].n
                            /\ Reading(u)' <=> Reading(u)
                            /\ Reading(u) => act'[u].n = act[u].n
      BY <2>1, <1>1, <1>3, <1>5 DEF Writing, Reading, OutOps
    <2>3. OutTypes' /\ OutInOrder'
      BY <1>1, <2>2, OutStays DEF PortsInv
    <2>4. BufferedInOrder' /\ ReadBack'
      BY <1>1, <1>4, <2>2, InStays DEF PortsInv
    <2>5. \A port : \A u \in Thread : Uses(u, port)' => Uses(u, port)
      BY <2>1, <1>3, <1>5 DEF Uses
    <2>6. Alone("in")' /\ Alone("out")'
      BY <1>1, <2>5, AloneStays DEF PortsInv
    <2>7. QED BY <1>4, <1>5, <2>3, <2>4, <2>6 DEF PortsInv
  <1>6. CASE Park(t, "w")
    <2> DEFINE a == [act[t] EXCEPT !.at = "blocked"]
    <2>1. act' = [act EXCEPT ![t] = a]
      BY <1>6 DEF Park
    <2>2. a \in Acts /\ a.op = act[t].op /\ a.n = act[t].n
      BY <1>3 DEF Acts
    <2>3. act[t].op # "none" /\ PortOf(act[t].op) # "in"
      BY <1>3 DEF OutOps, PortOf
    <2>4. LoopInv'
      BY <1>1, <1>2, <1>6, <2>3, Parks
    <2> HIDE DEF a
    <2>5. QED BY <2>1, <2>2, <2>4, <1>5
  <1>7. CASE Finish(t) /\ UNCHANGED <<running, loopVars>>
    <2>1. act' = [act EXCEPT ![t] = NoOperation]
      BY <1>7 DEF Finish
    <2>2. NoOperation \in Acts /\ AtOwnStep(NoOperation) /\ NoOperation.at # "blocked"
          /\ NoOperation.op = "none" /\ NoOperation.op \notin OutOps
      BY DEF NoOperation, Acts, AtOwnStep, OutOps
    <2>3. LoopInv'
      BY <1>1, <1>2, <1>7, <2>1, <2>2, RunningSteps
    <2>4. QED BY <2>1, <2>2, <2>3, <1>5
  <1>8. QED BY <1>6, <1>7 DEF WriteFails

\* a step of an operation on the output port
LEMMA OutStep ==
  ASSUME PortsInv, NEW t \in Thread, running = t, act[t].op \in OutOps,
         NEW a \in Acts, act' = [act EXCEPT ![t] = a], AtOwnStep(a), a.at # "blocked",
         a.op \in {"none", act[t].op},
         UNCHANGED <<running, loopVars>>, UNCHANGED inVars, mixed' = mixed,
         OutRange', a.op \in OutOps /\ a.at = "write" => a.n <= OutSize,
         "out" \notin mixed => OutBytes' /\ (a.op \in OutOps /\ a.at = "write" => a.n = out'.index)
  PROVE  PortsInv'
  <1>1. LoopInv /\ LoopTypes
    BY DEF PortsInv, LoopInv
  <1>2. LoopInv'
    BY <1>1, RunningSteps
  <1>3. act'[t] = a /\ \A u \in Thread : u # t => act'[u] = act[u]
    BY <1>1, OneMoves
  <1>4. \A u \in Thread : (Reading(u)' <=> Reading(u)) /\ (Reading(u) => act'[u].n = act[u].n)
    BY <1>3 DEF Reading, OutOps
  <1>5. in' = in /\ sent' = sent /\ got' = got
    BY DEF inVars
  <1>6. InTypes'
    BY <1>5 DEF PortsInv, InTypes
  <1>7. BufferedInOrder' /\ ReadBack'
    BY <1>4, <1>5, <1>6, InStays DEF PortsInv
  <1>8. \A port : \A u \in Thread : Uses(u, port)' => Uses(u, port)
    BY <1>3 DEF Uses, OutOps
  <1>9. Alone("in")' /\ Alone("out")'
    BY <1>8, AloneStays DEF PortsInv
  <1>10. OutInOrder'
    <2> SUFFICES ASSUME "out" \notin mixed, NEW u \in Thread, Writing(u)' PROVE act'[u].n = out'.index
      BY DEF OutInOrder
    <2>1. Uses(u, "out")' /\ Uses(t, "out")
      BY DEF Writing, Uses, PortOf, OutOps
    <2>2. u = t
      BY <2>1, <1>8 DEF PortsInv, Alone
    <2>3. QED BY <1>3, <2>2 DEF Writing
  <1>11. OutTypes'
    <2>1. \A u \in Thread : Writing(u)' => act'[u].n <= OutSize
      BY <1>3 DEF Writing, PortsInv, OutTypes
    <2>2. QED BY <2>1 DEF OutTypes
  <1>12. QED BY <1>2, <1>6, <1>7, <1>9, <1>10, <1>11 DEF PortsInv

\* put-u8 and $put-bytevector put what there is room for
LEMMA PutStepKeeps ==
  ASSUME PortsInv, NEW t \in Thread, PutStep(t)
  PROVE  PortsInv'
  <1> USE PortsAssumption
  <1>1. LoopTypes /\ OutTypes /\ OutInOrder
    BY DEF PortsInv, LoopInv
  <1>2. running = t /\ act[t].at = "put" /\ act[t] \in Acts /\ act[t].op \in OutOps
    BY <1>1 DEF PutStep, Doing, LoopTypes, AtOwnStep
  <1>3. UNCHANGED <<running, loopVars>> /\ UNCHANGED inVars /\ mixed' = mixed /\ sink' = sink
    BY DEF PutStep
  <1>4. NoOperation \in Acts /\ AtOwnStep(NoOperation) /\ NoOperation.at = "none" /\ NoOperation.op = "none"
    BY DEF NoOperation, Acts, AtOwnStep, OutOps
  <1>5. ASSUME out' = out, accepted' = accepted, Finish(t) PROVE PortsInv'
    <2>1. OutRange' /\ ("out" \notin mixed => OutBytes')
      BY <1>1, <1>3, <1>5 DEF OutTypes, OutRange, OutInOrder, OutBytes
    <2>2. QED BY <2>1, <1>2, <1>3, <1>4, <1>5, OutStep DEF Finish
  <1> DEFINE rm == OutSize - out.index
             cc == IF rm < act[t].left THEN rm ELSE act[t].left
  <1>6. ASSUME NEW room, room = rm, NEW c, c = cc,
               out' = [out EXCEPT !.index = @ + c,
                        !.buf = [i \in 1 .. OutSize |->
                                   IF i > out.index /\ i <= out.index + c
                                   THEN accepted + i - out.index ELSE @[i]]],
               accepted' = accepted + c,
               IF c = act[t].left THEN Finish(t)
               ELSE act' = [act EXCEPT ![t].left = @ - c, ![t].at = "flush"]
        PROVE  PortsInv'
    <2>1. /\ out.index \in Nat /\ out.index <= OutSize /\ out.pos \in Nat /\ accepted \in Nat
          /\ act[t].left \in Nat /\ OutSize \in Nat
          /\ out.buf \in [1 .. OutSize -> Nat] /\ sink \in Seq(Nat)
      BY <1>1, <1>2 DEF OutTypes, OutRange, OutRecord, Acts
    <2>2. c \in Nat /\ out.index + c <= OutSize /\ act[t].left - c \in Nat
      <3>1. PICK v \in Nat, l \in Nat : v = out.index /\ l = act[t].left /\ v <= OutSize
        BY <2>1
      <3>2. c = IF OutSize - v < l THEN OutSize - v ELSE l
        BY <1>6, <3>1
      <3>3. PICK o \in Nat, w \in Nat : o = OutSize /\ w = o - v
        BY <2>1, <3>1
      <3>4. c = IF w < l THEN w ELSE l
        BY <3>2, <3>3
      <3>5. c \in Nat /\ c <= w /\ c <= l
        BY <3>4
      <3>6. v + c <= o
        BY <3>3, <3>5
      <3>7. l - c \in Nat
        BY <3>5
      <3>8. out.index + c <= OutSize
        BY <3>1, <3>3, <3>6
      <3>9. act[t].left - c \in Nat
        BY <3>1, <3>7
      <3>10. QED BY <3>5, <3>8, <3>9
    <2>3. /\ out'.index = out.index + c /\ out'.pos = out.pos /\ out'.closed = out.closed
          /\ \A i \in 1 .. OutSize : out'.buf[i] = IF i > out.index /\ i <= out.index + c
                                                   THEN accepted + i - out.index ELSE out.buf[i]
          /\ DOMAIN out' = DOMAIN out
      BY <1>1, <1>6 DEF OutTypes, OutRange, OutRecord
    <2>4. \A i \in 1 .. OutSize : i > out.index => accepted + i - out.index \in Nat
      BY <2>1
    <2>5. [i \in 1 .. OutSize |-> IF i > out.index /\ i <= out.index + c
                                  THEN accepted + i - out.index ELSE out.buf[i]] \in [1 .. OutSize -> Nat]
      BY <2>1, <2>4
    <2>6. OutRange'
      <3>1. out.index + c \in 0 .. OutSize /\ accepted + c \in Nat
        BY <2>1, <2>2
      <3>2. QED BY <1>1, <1>3, <1>6, <2>5, <3>1 DEF OutTypes, OutRange, OutRecord
    <2>7. ASSUME "out" \notin mixed PROVE OutBytes'
      <3>1. OutBytes
        BY <1>1, <2>7 DEF OutInOrder
      <3>2. Len(sink) \in Nat
        BY <2>1
      <3>3. Len(sink') + out'.index = accepted' /\ out'.pos + out'.index = accepted'
        <4>1. sink' = sink /\ accepted' = accepted + c /\ out'.index = out.index + c /\ out'.pos = out.pos
          BY <1>3, <1>6, <2>3
        <4>2. Len(sink) + out.index = accepted /\ out.pos + out.index = accepted
          BY <3>1 DEF OutBytes
        <4>3. out.pos + (out.index + c) = (out.pos + out.index) + c
              /\ Len(sink) + (out.index + c) = (Len(sink) + out.index) + c
          BY <2>1, <2>2, <3>2
        <4>4. QED BY <4>1, <4>2, <4>3
      <3>4. ASSUME NEW i \in 1 .. out'.index PROVE out'.buf[i] = Len(sink) + i
        <4>1. i \in 1 .. OutSize /\ i \in Int /\ i <= out.index + c
          BY <2>1, <2>2, <2>3
        <4>2. CASE i > out.index
          <5>1. out'.buf[i] = accepted + i - out.index
            BY <2>3, <4>1, <4>2
          <5>2. QED BY <5>1, <2>1, <3>1, <3>2, <4>1 DEF OutBytes
        <4>3. CASE ~(i > out.index)
          <5>1. out'.buf[i] = out.buf[i] /\ i \in 1 .. out.index
            BY <2>1, <2>3, <4>1, <4>3
          <5>2. QED BY <5>1, <3>1 DEF OutBytes
        <4>4. QED BY <4>2, <4>3
      <3>5. QED BY <1>3, <3>1, <3>3, <3>4 DEF OutBytes
    <2>8. CASE c = act[t].left
      BY <1>2, <1>3, <1>4, <1>6, <2>6, <2>7, <2>8, OutStep DEF Finish
    <2>9. CASE c # act[t].left
      <3> DEFINE a == [act[t] EXCEPT !.left = @ - c, !.at = "flush"]
      <3>1. act' = [act EXCEPT ![t] = a]
        BY <1>1, <1>6, <2>9 DEF LoopTypes
      <3>2. a \in Acts /\ a.op = act[t].op /\ a.at = "flush"
        BY <1>2, <2>2 DEF Acts
      <3> HIDE DEF a
      <3>3. AtOwnStep(a)
        BY <1>2, <3>2 DEF AtOwnStep, OutOps
      <3>4. QED BY <1>2, <1>3, <2>6, <2>7, <3>1, <3>2, <3>3, OutStep
    <2>10. QED BY <2>8, <2>9
  <1>7. QED BY <1>5, <1>6 DEF PutStep

\* what an operation does when its flush is done, with o the port
LEMMA FlushedKeeps ==
  ASSUME PortsInv, NEW t \in Thread, running = t, act[t].op \in OutOps,
         NEW o, Flushed(t, o), OutTypes,
         o \in OutRecord,
         sink' \in Seq(Nat), accepted' \in Nat,
         UNCHANGED <<running, loopVars>>, UNCHANGED inVars, mixed' = mixed,
         "out" \notin mixed =>
           /\ Len(sink') + o.index = accepted' /\ o.pos + o.index = accepted'
           /\ \A i \in 1 .. Len(sink') : sink'[i] = i
           /\ \A i \in 1 .. o.index : o.buf[i] = Len(sink') + i
  PROVE  PortsInv'
  <1>1. LoopTypes
    BY DEF PortsInv, LoopInv
  <1>2. act[t] \in Acts /\ act \in [Thread -> Acts]
    BY <1>1 DEF LoopTypes
  <1>3. NoOperation \in Acts /\ AtOwnStep(NoOperation) /\ NoOperation.at = "none" /\ NoOperation.op = "none"
    BY DEF NoOperation, Acts, AtOwnStep, OutOps
  <1>4. \/ act[t].op = "put" /\ out' = o /\ Goto(t, "put", 0)
        \/ act[t].op = "flush" /\ out' = o /\ Finish(t)
        \/ act[t].op = "close" /\ out' = [o EXCEPT !.closed = TRUE] /\ Finish(t)
    BY DEF Flushed, OutOps
  <1>5. /\ out' \in OutRecord
        /\ out'.index = o.index /\ out'.pos = o.pos /\ out'.buf = o.buf
    BY <1>4 DEF OutRecord
  <1>6. OutRange' /\ ("out" \notin mixed => OutBytes')
    BY <1>5 DEF OutRange, OutBytes
  <1>7. CASE Finish(t)
    BY <1>3, <1>6, <1>7, OutStep DEF Finish
  <1>8. CASE act[t].op = "put" /\ Goto(t, "put", 0)
    <2> DEFINE a == [act[t] EXCEPT !.at = "put", !.n = 0]
    <2>1. act' = [act EXCEPT ![t] = a]
      BY <1>2, <1>8 DEF Goto
    <2>2. a \in Acts /\ a.op = act[t].op /\ a.at = "put"
      BY <1>2 DEF Acts
    <2> HIDE DEF a
    <2>3. AtOwnStep(a)
      BY <2>2 DEF AtOwnStep, OutOps
    <2>4. QED BY <1>6, <2>1, <2>2, <2>3, OutStep
  <1>9. QED BY <1>4, <1>7, <1>8

\* flush-output-port up to its call of write!
LEMMA FlushStepKeeps ==
  ASSUME PortsInv, NEW t \in Thread, FlushStep(t)
  PROVE  PortsInv'
  <1>1. LoopTypes /\ OutTypes /\ OutInOrder
    BY DEF PortsInv, LoopInv
  <1>2. running = t /\ act[t].at = "flush" /\ act[t] \in Acts /\ act[t].op \in OutOps
    BY <1>1 DEF FlushStep, Doing, LoopTypes, AtOwnStep
  <1>3. UNCHANGED <<running, loopVars>> /\ UNCHANGED inVars /\ mixed' = mixed /\ sink' = sink /\ accepted' = accepted
    BY DEF FlushStep
  <1>4. NoOperation \in Acts /\ AtOwnStep(NoOperation) /\ NoOperation.at = "none" /\ NoOperation.op = "none"
    BY DEF NoOperation, Acts, AtOwnStep, OutOps
  <1>5. out' = out => OutRange' /\ ("out" \notin mixed => OutBytes')
    BY <1>1, <1>3 DEF OutTypes, OutRange, OutInOrder, OutBytes
  <1>6. CASE Finish(t) /\ out' = out
    BY <1>2, <1>3, <1>4, <1>5, <1>6, OutStep DEF Finish
  <1>7. CASE Flushed(t, out)
    <2> DEFINE o == out
    <2>1. o \in OutRecord
      BY <1>1 DEF OutTypes, OutRange
    <2>2. "out" \notin mixed =>
           /\ Len(sink') + o.index = accepted' /\ o.pos + o.index = accepted'
           /\ \A i \in 1 .. Len(sink') : sink'[i] = i
           /\ \A i \in 1 .. o.index : o.buf[i] = Len(sink') + i
      BY <1>1, <1>3 DEF OutInOrder, OutBytes
    <2>3. sink' \in Seq(Nat) /\ accepted' \in Nat
      BY <1>1, <1>3 DEF OutTypes, OutRange
    <2>4. Flushed(t, o)
      BY <1>7
    <2> HIDE DEF o
    <2>5. QED BY <1>1, <1>2, <1>3, <2>1, <2>2, <2>3, <2>4, FlushedKeeps
  <1>8. CASE Goto(t, "write", out.index) /\ out' = out
    <2> DEFINE a == [act[t] EXCEPT !.at = "write", !.n = out.index]
    <2>1. act' = [act EXCEPT ![t] = a]
      BY <1>1, <1>8 DEF Goto, LoopTypes
    <2>2. out.index \in Nat /\ out.index <= OutSize
      BY <1>1, PortsAssumption DEF OutTypes, OutRange, OutRecord
    <2>3. a \in Acts /\ a.op = act[t].op /\ a.at = "write" /\ a.n = out.index
      BY <1>2, <2>2 DEF Acts
    <2> HIDE DEF a
    <2>4. AtOwnStep(a)
      BY <1>2, <2>3 DEF AtOwnStep, OutOps
    <2>5. QED BY <1>2, <1>3, <1>5, <1>8, <2>1, <2>2, <2>3, <2>4, OutStep
  <1>9. QED BY <1>6, <1>7, <1>8 DEF FlushStep

\* the socket takes k bytes
LEMMA WriteOutKeeps ==
  ASSUME PortsInv, NEW t \in Thread, NEW k \in 0 .. OutSize, WriteOut(t, k)
  PROVE  PortsInv'
  <1> USE PortsAssumption
  <1>1. LoopTypes /\ OutTypes /\ OutInOrder
    BY DEF PortsInv, LoopInv
  <1>2. running = t /\ act[t].at = "write" /\ act[t] \in Acts /\ act[t].op \in OutOps
    BY <1>1 DEF WriteOut, Doing, LoopTypes, AtOwnStep
  <1>3. UNCHANGED <<running, loopVars>> /\ UNCHANGED inVars /\ mixed' = mixed /\ accepted' = accepted
        /\ sink' = sink \o SubSeq(out.buf, 1, k) /\ k <= act[t].n /\ k \in Nat /\ k <= OutSize
    BY DEF WriteOut
  <1>4. NoOperation \in Acts /\ AtOwnStep(NoOperation) /\ NoOperation.at = "none" /\ NoOperation.op = "none"
    BY DEF NoOperation, Acts, AtOwnStep, OutOps
  <1>5. /\ out.index \in Nat /\ out.index <= OutSize /\ out.pos \in Nat /\ accepted \in Nat
        /\ act[t].n \in Nat /\ act[t].n <= OutSize /\ OutSize \in Nat
        /\ out.buf \in [1 .. OutSize -> Nat] /\ sink \in Seq(Nat) /\ Len(sink) \in Nat
    BY <1>1, <1>2 DEF OutTypes, OutRange, OutRecord, Acts, Writing
  <1>6. /\ sink' \in Seq(Nat) /\ Len(sink') = Len(sink) + k
        /\ \A i \in 1 .. Len(sink) : sink'[i] = sink[i]
        /\ \A i \in 1 .. k : sink'[Len(sink) + i] = out.buf[i]
    <2>1. out.buf \in Seq(Nat) /\ Len(out.buf) = OutSize
      BY <1>5
    <2> DEFINE s == SubSeq(out.buf, 1, k)
    <2>2. s \in Seq(Nat) /\ Len(s) = k /\ \A i \in 1 .. k : s[i] = out.buf[i]
      BY <2>1, <1>3
    <2> HIDE DEF s
    <2>3. sink' = sink \o s
      BY <1>3 DEF s
    <2>4. sink' \in Seq(Nat) /\ Len(sink') = Len(sink) + k
      <3> DEFINE V == Nat
      <3>1. s \in Seq(V) /\ sink \in Seq(V)
        BY <2>2, <1>5
      <3> HIDE DEF V
      <3>2. sink \o s \in Seq(V) /\ Len(sink \o s) = Len(sink) + Len(s)
        BY <3>1, ConcatProperties
      <3>3. sink' \in Seq(V) /\ Len(sink') = Len(sink) + k
        BY <3>2, <2>2, <2>3
      <3>4. QED BY <3>3 DEF V
    <2>5. \A i \in 1 .. Len(sink) + Len(s) :
            (sink \o s)[i] = IF i <= Len(sink) THEN sink[i] ELSE s[i - Len(sink)]
      BY <2>2, <1>5
    <2>6. ASSUME NEW i \in 1 .. Len(sink) PROVE sink'[i] = sink[i]
      BY <2>2, <2>3, <2>5, <1>3, <1>5
    <2>7. ASSUME NEW i \in 1 .. k PROVE sink'[Len(sink) + i] = out.buf[i]
      <3>1. Len(sink) + i \in 1 .. Len(sink) + Len(s) /\ ~(Len(sink) + i <= Len(sink))
            /\ (Len(sink) + i) - Len(sink) = i
        BY <2>2, <1>3, <1>5
      <3>2. QED BY <2>2, <2>3, <2>5, <3>1
    <2>8. QED BY <2>4, <2>6, <2>7
  <1>7. ASSUME "out" \notin mixed
        PROVE  /\ act[t].n = out.index /\ Len(sink') + out.index - k = accepted
               /\ out.pos + k + out.index - k = accepted
               /\ \A i \in 1 .. Len(sink') : sink'[i] = i
               /\ \A i \in 1 .. out.index : out.buf[i] = Len(sink) + i
    <2>1. act[t].n = out.index
      BY <1>1, <1>2, <1>7 DEF OutInOrder, Writing
    <2>2. /\ Len(sink) + out.index = accepted /\ out.pos + out.index = accepted
          /\ \A i \in 1 .. Len(sink) : sink[i] = i
          /\ \A i \in 1 .. out.index : out.buf[i] = Len(sink) + i
      BY <1>1, <1>7 DEF OutInOrder, OutBytes
    <2>3. ASSUME NEW i \in 1 .. Len(sink') PROVE sink'[i] = i
      <3>1. i \in Int /\ i <= Len(sink) + k /\ 1 <= i
        BY <1>3, <1>5, <1>6
      <3>2. CASE i <= Len(sink)
        <4>1. i \in 1 .. Len(sink)
          BY <3>1, <3>2, <1>5
        <4>2. QED BY <4>1, <1>6, <2>2
      <3>3. CASE i > Len(sink)
        <4> DEFINE j == i - Len(sink)
        <4>1. j \in 1 .. k /\ Len(sink) + j = i /\ j \in 1 .. out.index
          BY <3>1, <3>3, <1>3, <1>5, <2>1
        <4> HIDE DEF j
        <4>2. sink'[Len(sink) + j] = out.buf[j] /\ out.buf[j] = Len(sink) + j
          BY <4>1, <1>6, <2>2
        <4>3. QED BY <4>1, <4>2
      <3>4. QED BY <3>1, <3>2, <3>3, <1>5
    <2>4. Len(sink') + out.index - k = accepted /\ out.pos + k + out.index - k = accepted
      BY <2>2, <1>3, <1>5, <1>6
    <2>5. QED BY <2>1, <2>2, <2>3, <2>4
  <1> DEFINE ox == [out EXCEPT !.pos = @ + k]
  <1>8. /\ ox \in OutRecord /\ ox.index = out.index /\ ox.buf = out.buf /\ ox.pos = out.pos + k
    <2>1. out.pos + k \in Nat
      BY <1>3, <1>5
    <2>2. QED BY <1>1, <2>1 DEF OutTypes, OutRange, OutRecord
  <1>9. CASE k = act[t].n /\ Flushed(t, [ox EXCEPT !.index = 0])
    <2> DEFINE o == [ox EXCEPT !.index = 0]
    <2>1. o \in OutRecord /\ o.index = 0 /\ o.buf = out.buf /\ o.pos = out.pos + k
      <3> HIDE DEF ox
      <3>1. 0 \in 0 .. OutSize
        OBVIOUS
      <3>2. QED BY <1>8, <3>1 DEF OutRecord
    <2>2. Flushed(t, o)
      BY <1>9
    <2> HIDE DEF o, ox
    <2>3. ASSUME "out" \notin mixed
          PROVE  /\ Len(sink') + o.index = accepted' /\ o.pos + o.index = accepted'
                 /\ \A i \in 1 .. Len(sink') : sink'[i] = i
                 /\ \A i \in 1 .. o.index : o.buf[i] = Len(sink') + i
      <3>1. out.index = k
        BY <1>7, <1>9, <2>3
      <3>2. Len(sink') + 0 = accepted' /\ out.pos + k + 0 = accepted'
        BY <1>3, <1>5, <1>6, <1>7, <2>3, <3>1
      <3>3. QED BY <1>7, <2>1, <2>3, <3>2
    <2>4. sink' \in Seq(Nat) /\ accepted' \in Nat
      BY <1>3, <1>5, <1>6
    <2>5. QED BY <1>1, <1>2, <1>3, <2>1, <2>2, <2>3, <2>4, FlushedKeeps
  <1>10. CASE k = 0 /\ out' = [ox EXCEPT !.closed = TRUE] /\ Finish(t)
    <2>1. /\ out' \in OutRecord /\ out'.index = out.index /\ out'.buf = out.buf /\ out'.pos = out.pos + k
      <3> HIDE DEF ox
      <3>1. QED BY <1>8, <1>10 DEF OutRecord
    <2>2. OutRange'
      BY <1>3, <1>5, <1>6, <2>1 DEF OutRange
    <2>3. ASSUME "out" \notin mixed PROVE OutBytes'
      <3>1. k = 0 /\ Len(sink') = Len(sink)
        BY <1>5, <1>6, <1>10
      <3>2. Len(sink') + out'.index = accepted' /\ out'.pos + out'.index = accepted'
        BY <1>3, <1>5, <1>6, <1>7, <2>1, <2>3, <3>1
      <3>3. QED BY <1>7, <2>1, <2>3, <3>1, <3>2 DEF OutBytes
    <2>4. QED BY <1>2, <1>3, <1>4, <1>10, <2>2, <2>3, OutStep DEF Finish
  <1>11. CASE /\ 0 < k /\ k < act[t].n
              /\ out' = [ox EXCEPT !.buf = Shifted(@, act[t].n, k), !.index = act[t].n - k]
              /\ Goto(t, "flush", 0)
    <2> DEFINE n == act[t].n
               b == Shifted(out.buf, n, k)
               a == [act[t] EXCEPT !.at = "flush", !.n = 0]
    <2>1. out' = [buf |-> b, index |-> n - k, pos |-> out.pos + k, closed |-> out.closed]
      <3>1. out = [buf |-> out.buf, index |-> out.index, pos |-> out.pos, closed |-> out.closed]
        BY <1>1 DEF OutTypes, OutRange, OutRecord
      <3>2. ox = [buf |-> out.buf, index |-> out.index, pos |-> out.pos + k, closed |-> out.closed]
        BY <3>1
      <3> HIDE DEF ox
      <3>3. QED BY <1>11, <3>2
    <2>2. n - k \in 0 .. OutSize /\ n \in Nat /\ out.closed \in BOOLEAN
      <3>1. out.closed \in BOOLEAN
        BY <1>1 DEF OutTypes, OutRange, OutRecord
      <3>2. k < n
        BY <1>11
      <3> HIDE DEF n
      <3>3. n \in Nat /\ n <= OutSize
        BY <1>5 DEF n
      <3>4. QED BY <3>1, <3>2, <3>3, <1>3, <1>5
    <2>3. b \in [1 .. OutSize -> Nat] /\ \A i \in 1 .. OutSize : i <= n - k => b[i] = out.buf[i + k]
      <3>1. \A i \in 1 .. OutSize : i <= n - k => i + k \in 1 .. OutSize
        BY <1>3, <1>5, <2>2
      <3>2. DOMAIN out.buf = 1 .. OutSize
        BY <1>5
      <3> HIDE DEF n
      <3>3. \A i \in 1 .. OutSize : (IF i <= n - k THEN out.buf[i + k] ELSE out.buf[i]) \in Nat
        BY <1>5, <3>1
      <3>4. QED BY <3>2, <3>3 DEF Shifted
    <2> HIDE DEF b
    <2>4. OutRange'
      <3>1. out.pos + k \in Nat
        BY <1>3, <1>5
      <3> HIDE DEF n
      <3>2. out' \in OutRecord
        BY <2>1, <2>2, <2>3, <3>1 DEF OutRecord
      <3>3. QED BY <1>3, <1>5, <1>6, <3>2 DEF OutRange
    <2>5. ASSUME "out" \notin mixed PROVE OutBytes'
      <3>1. n = out.index /\ out'.index = n - k /\ out'.pos = out.pos + k /\ out'.buf = b
        BY <1>7, <2>1, <2>5
      <3> HIDE DEF n
      <3>2. Len(sink') + out'.index = accepted' /\ out'.pos + out'.index = accepted'
        <4>1. Len(sink') + (n - k) = Len(sink') + n - k /\ out.pos + k + (n - k) = out.pos + k + n - k
          BY <1>3, <1>5, <1>6, <2>2
        <4>2. QED BY <4>1, <3>1, <1>3, <1>7, <2>5
      <3>3. ASSUME NEW i \in 1 .. n - k PROVE b[i] = Len(sink') + i
        <4>1. i \in 1 .. OutSize /\ i <= n - k /\ i + k \in 1 .. out.index /\ i \in Int
          <5>1. PICK v \in Nat, y \in Nat : v = n /\ y = k /\ y <= v /\ v <= OutSize
            BY <1>3, <1>5, <2>2, <3>1
          <5>2. i \in 1 .. v - y /\ OutSize \in Nat
            BY <1>5, <5>1
          <5>3. i \in 1 .. OutSize /\ i <= v - y /\ i + y \in 1 .. v /\ i \in Int
            BY <5>1, <5>2
          <5>4. QED BY <3>1, <5>1, <5>3
        <4>2. b[i] = out.buf[i + k] /\ out.buf[i + k] = Len(sink) + (i + k)
          BY <4>1, <2>3, <1>7, <2>5
        <4>3. QED BY <4>1, <4>2, <1>3, <1>5, <1>6
      <3>4. QED BY <1>7, <2>5, <3>1, <3>2, <3>3 DEF OutBytes
    <2>6. act' = [act EXCEPT ![t] = a]
      BY <1>1, <1>11 DEF Goto, LoopTypes
    <2>7. a \in Acts /\ a.op = act[t].op /\ a.at = "flush"
      BY <1>2 DEF Acts
    <2> HIDE DEF a
    <2>8. AtOwnStep(a)
      BY <1>2, <2>7 DEF AtOwnStep, OutOps
    <2>9. QED BY <1>2, <1>3, <2>4, <2>5, <2>6, <2>7, <2>8, OutStep
  <1>12. QED
    <2> HIDE DEF ox
    <2>1. QED BY <1>9, <1>10, <1>11 DEF WriteOut, ox

\* where the characters begin
LEMMA FirstUnfolds ==
  /\ \A c \in DOMAIN Widths : First[c] \in Nat /\ Widths[c] \in 1 .. 4
  /\ 1 \in DOMAIN Widths => First[1] = 1
  /\ \A c \in DOMAIN Widths : c + 1 \in DOMAIN Widths => First[c + 1] = First[c] + Widths[c]
  <1> DEFINE n == Len(Widths)
             F(g) == [c \in 1 .. n |-> IF c = 1 THEN 1 ELSE g[c - 1] + Widths[c - 1]]
  <1>1. Widths \in Seq(1 .. 4) /\ n \in Nat /\ DOMAIN Widths = 1 .. n
        /\ \A c \in 1 .. n : Widths[c] \in 1 .. 4
    BY PortsAssumption
  <1> DEFINE step == [i \in 1 .. n |-> [o \in Nat |-> IF i = 1 THEN 1 ELSE o + Widths[i - 1]]]
  <1>2. step \in [1 .. n -> [Nat -> Nat]]
    <2>1. ASSUME NEW i \in 1 .. n, NEW o \in Nat
          PROVE  (IF i = 1 THEN 1 ELSE o + Widths[i - 1]) \in Nat
      <3>1. CASE i = 1
        BY <3>1
      <3>2. CASE i # 1
        <4>1. i - 1 \in 1 .. n
          BY <3>2, <1>1
        <4>2. Widths[i - 1] \in Nat
          BY <4>1, <1>1
        <4>3. QED BY <3>2, <4>2
      <3>3. QED BY <3>1, <3>2
    <2>2. QED BY <2>1
  <1> DEFINE V == Nat
             zero == 0
  <1>3. PICK g : CountsUp(n, V, zero, step, g)
    <2> HIDE DEF step
    <2>1. zero \in V /\ step \in [1 .. n -> [V -> V]]
      BY <1>2
    <2> HIDE DEF n, V, zero
    <2>2. QED BY <1>1, <2>1, CountedUp
  <1>4. g \in [0 .. n -> Nat] /\ \A i \in 1 .. n : g[i] = IF i = 1 THEN 1 ELSE g[i - 1] + Widths[i - 1]
    <2>1. g \in [0 .. n -> Nat] /\ \A i \in 1 .. n : g[i] = step[i][g[i - 1]]
      BY <1>3 DEF CountsUp
    <2>2. ASSUME NEW i \in 1 .. n PROVE g[i] = IF i = 1 THEN 1 ELSE g[i - 1] + Widths[i - 1]
      <3>1. i - 1 \in 0 .. n
        BY <1>1
      <3>2. g[i - 1] \in Nat /\ g[i] = step[i][g[i - 1]]
        BY <2>1, <3>1
      <3>3. QED BY <3>2
    <2>3. QED BY <2>1, <2>2
  <1> DEFINE h == [c \in 1 .. n |-> g[c]]
  <1>5. h = F(h)
    <2>1. ASSUME NEW c \in 1 .. n
          PROVE  g[c] = IF c = 1 THEN 1 ELSE h[c - 1] + Widths[c - 1]
      <3>1. CASE c = 1
        BY <3>1, <1>4
      <3>2. CASE c # 1
        <4>1. c - 1 \in 1 .. n
          BY <3>2, <1>1
        <4>2. h[c - 1] = g[c - 1]
          BY <4>1
        <4>3. QED BY <3>2, <4>2, <1>4
      <3>3. QED BY <3>1, <3>2
    <2>2. QED BY <2>1
  <1>6. First = F(First)
    <2>1. First = CHOOSE f : f = F(f)
      BY DEF First
    <2> HIDE DEF F, h
    <2>2. QED BY <1>5, <2>1
  <1>7. \A c \in 1 .. n : First[c] = IF c = 1 THEN 1 ELSE First[c - 1] + Widths[c - 1]
    BY <1>6
  <1> HIDE DEF n, F, h
  <1>8. ASSUME NEW c \in 1 .. n, First[c] \notin Nat PROVE FALSE
    <2> DEFINE S == {d \in 1 .. n : First[d] \notin Nat}
    <2>1. S \subseteq Nat /\ S # {}
      BY <1>8
    <2>2. PICK d \in S : \A e \in S : d <= e
      <3> HIDE DEF S
      <3>1. QED BY <2>1, LeastNumber
    <2>3. d \in 1 .. n /\ First[d] \notin Nat
      OBVIOUS
    <2>4. CASE d = 1
      BY <2>3, <2>4, <1>7
    <2>5. CASE d # 1
      <3>1. d - 1 \in 1 .. n /\ ~(d <= d - 1)
        BY <2>3, <2>5, <1>1
      <3>2. d - 1 \notin S
        BY <2>2, <3>1
      <3>3. First[d - 1] \in Nat /\ Widths[d - 1] \in Nat
        BY <3>1, <3>2, <1>1
      <3>4. QED BY <2>3, <2>5, <3>3, <1>7
    <2>6. QED BY <2>4, <2>5
  <1>9. ASSUME 1 \in DOMAIN Widths PROVE First[1] = 1
    BY <1>1, <1>7, <1>9
  <1>10. ASSUME NEW c \in DOMAIN Widths, c + 1 \in DOMAIN Widths
         PROVE  First[c + 1] = First[c] + Widths[c]
    <2>1. c \in 1 .. n /\ c + 1 \in 1 .. n /\ c + 1 # 1 /\ (c + 1) - 1 = c
      BY <1>1, <1>10
    <2>2. QED BY <2>1, <1>7
  <1>11. QED BY <1>1, <1>8, <1>9, <1>10

\* the characters follow one another
LEMMA FirstAfter ==
  ASSUME NEW c \in DOMAIN Widths, NEW d \in DOMAIN Widths, c < d
  PROVE  First[c] + Widths[c] <= First[d]
  <1>1. DOMAIN Widths \subseteq Nat
    BY PortsAssumption
  <1> DEFINE S == {x \in DOMAIN Widths : c < x /\ ~(First[c] + Widths[c] <= First[x])}
  <1>2. CASE S = {}
    BY <1>2
  <1>3. CASE S # {}
    <2>1. PICK x \in S : \A e \in S : x <= e
      <3>1. S \subseteq Nat
        BY <1>1
      <3> HIDE DEF S
      <3>2. QED BY <3>1, <1>3, LeastNumber
    <2>2. x \in DOMAIN Widths /\ c < x /\ ~(First[c] + Widths[c] <= First[x])
      OBVIOUS
    <2>3. x - 1 \in DOMAIN Widths /\ (x - 1) + 1 = x /\ ~(x <= x - 1) /\ (c = x - 1 \/ c < x - 1)
      BY <2>2, PortsAssumption
    <2>4. First[x] = First[x - 1] + Widths[x - 1]
      BY <2>2, <2>3, FirstUnfolds
    <2>5. /\ First[x - 1] \in Nat /\ Widths[x - 1] \in Nat
          /\ First[c] \in Nat /\ Widths[c] \in Nat
      BY <2>3, FirstUnfolds
    <2>6. c # x - 1
      <3>1. First[c] + Widths[c] \in Nat /\ ~(First[c] + Widths[c] <= First[x])
        BY <2>2, <2>5
      <3>2. QED BY <3>1, <2>4
    <2>7. First[c] + Widths[c] <= First[x - 1]
      <3>1. x - 1 \notin S
        BY <2>1, <2>3
      <3>2. QED BY <3>1, <2>3, <2>6
    <2>8. QED BY <2>2, <2>4, <2>5, <2>7
  <1>4. QED BY <1>2, <1>3

\* the byte after character c is the first of the next, if there is one
LEMMA NextBegins ==
  ASSUME NEW c \in Nat, c \in DOMAIN Widths \/ c = 0, c + 1 \in DOMAIN Widths
  PROVE  First[c + 1] = LastOf(c) + 1
  <1>1. CASE c = 0
    BY <1>1, FirstUnfolds DEF LastOf
  <1>2. CASE c # 0
    <2>1. First[c + 1] = First[c] + Widths[c] /\ First[c] \in Nat /\ Widths[c] \in Nat
      BY <1>2, FirstUnfolds
    <2>2. QED BY <1>2, <2>1 DEF LastOf
  <1>3. QED BY <1>1, <1>2

\* only one character begins at a byte, and none before the last byte of the last
LEMMA OneBegins ==
  ASSUME NEW c \in DOMAIN Widths, NEW m \in Nat, m \in DOMAIN Widths \/ m = 0,
         First[c] = LastOf(m) + 1
  PROVE  c = m + 1
  <1>1. c \in Nat /\ c >= 1 /\ DOMAIN Widths = 1 .. Len(Widths) /\ Len(Widths) \in Nat
    BY PortsAssumption
  <1>2. First[c] \in Nat /\ Widths[c] \in 1 .. 4
    BY FirstUnfolds
  <1>3. ASSUME c <= m PROVE FALSE
    <2>1. m \in DOMAIN Widths /\ m # 0
      BY <1>1, <1>3
    <2>2. First[m] \in Nat /\ Widths[m] \in 1 .. 4 /\ First[c] = First[m] + Widths[m] - 1 + 1
      BY <2>1, FirstUnfolds DEF LastOf
    <2>3. c < m \/ c = m
      BY <1>1, <1>3
    <2>4. c < m => First[c] + Widths[c] <= First[m]
      BY <2>1, FirstAfter
    <2>5. QED BY <2>2, <2>3, <2>4, <1>2
  <1>4. m + 1 \in DOMAIN Widths
    BY <1>1, <1>3
  <1>5. First[m + 1] = LastOf(m) + 1
    BY <1>4, NextBegins
  <1>6. ASSUME m + 1 < c PROVE FALSE
    <2>1. First[m + 1] + Widths[m + 1] <= First[c]
      BY <1>4, <1>6, FirstAfter
    <2>2. First[m + 1] \in Nat /\ Widths[m + 1] \in 1 .. 4
      BY <1>4, FirstUnfolds
    <2>3. QED BY <1>2, <1>5, <2>1, <2>2
  <1>7. QED BY <1>1, <1>3, <1>6

\* a step of an operation on the input port
LEMMA InStep ==
  ASSUME PortsInv, NEW t \in Thread, act[t].op = "get",
         NEW a, act' = [act EXCEPT ![t] = a], a.op \in {"none", "get"}, LoopInv',
         UNCHANGED outVars, mixed \subseteq mixed', InTypes', ReadBack',
         "in" \notin mixed' =>
           /\ a.op = "get" /\ a.at \in {"read", "blocked"} => Ahead(a.n)'
           /\ ~(a.op = "get" /\ a.at \in {"read", "blocked"}) => Buffered'
           /\ Consumed' >= 0 /\ (Whole' \/ Past')
  PROVE  PortsInv'
  <1>1. LoopInv /\ LoopTypes
    BY DEF PortsInv, LoopInv
  <1>2. act'[t] = a /\ \A u \in Thread : u # t => act'[u] = act[u]
    BY <1>1, OneMoves
  <1>3. \A u \in Thread : Writing(u)' => Writing(u) /\ act'[u].n = act[u].n
    BY <1>2 DEF Writing, OutOps
  <1>4. OutTypes' /\ OutInOrder'
    BY <1>3, OutStays DEF PortsInv
  <1>5. \A port : \A u \in Thread : Uses(u, port)' => Uses(u, port)
    BY <1>2 DEF Uses
  <1>6. Alone("in")' /\ Alone("out")'
    BY <1>5, AloneStays DEF PortsInv
  <1>7. BufferedInOrder'
    <2> SUFFICES ASSUME "in" \notin mixed'
                 PROVE  /\ \A u \in Thread : Reading(u)' => Ahead(act[u].n)'
                        /\ (\A u \in Thread : ~Reading(u)') => Buffered'
                        /\ Consumed' >= 0
                        /\ Whole' \/ Past'
      BY DEF BufferedInOrder
    <2>1. Reading(t)' <=> a.op = "get" /\ a.at \in {"read", "blocked"}
      BY <1>2 DEF Reading
    <2>2. ASSUME NEW u \in Thread, Reading(u)' PROVE u = t
      <3>1. Uses(u, "in")' /\ Uses(t, "in") /\ "in" \notin mixed
        BY <2>2 DEF Reading, Uses, PortOf
      <3>2. QED BY <3>1, <1>5 DEF PortsInv, Alone
    <2>3. ASSUME NEW u \in Thread, Reading(u)' PROVE Ahead(act[u].n)'
      <3>1. u = t /\ Ahead(a.n)'
        BY <2>1, <2>2, <2>3
      <3>2. act'[u].n = a.n
        BY <3>1, <1>2
      <3>3. QED BY <3>1, <3>2 DEF Ahead
    <2>4. QED BY <2>1, <2>3
  <1>8. QED BY <1>4, <1>6, <1>7 DEF PortsInv

\* what the thread that reads knows of the buffer
LEMMA ReaderSees ==
  ASSUME PortsInv, "in" \notin mixed, NEW t \in Thread, act[t].op = "get"
  PROVE  /\ IF act[t].at \in {"read", "blocked"} THEN Ahead(act[t].n) ELSE Buffered
         /\ Consumed >= 0 /\ (Whole \/ Past)
  <1>1. CASE act[t].at \in {"read", "blocked"}
    BY <1>1 DEF PortsInv, BufferedInOrder, Reading
  <1>2. CASE act[t].at \notin {"read", "blocked"}
    <2>1. \A u \in Thread : Reading(u) => Uses(u, "in")
      BY DEF Reading, Uses, PortOf
    <2>2. Uses(t, "in") /\ ~Reading(t)
      BY <1>2 DEF Reading, Uses, PortOf
    <2>3. \A u \in Thread : ~Reading(u)
      BY <2>1, <2>2 DEF PortsInv, Alone
    <2>4. QED BY <1>2, <2>3 DEF PortsInv, BufferedInOrder
  <1>3. QED BY <1>1, <1>2

\* the types of the input port, one by one
LEMMA InParts ==
  ASSUME InTypes
  PROVE  /\ in.buf \in [1 .. InSize -> Nat] /\ in.index \in Nat /\ in.size \in Nat /\ in.pos \in Nat
         /\ in.closed \in BOOLEAN /\ in.index <= in.size /\ in.size <= InSize /\ InSize \in Nat
         /\ sent \in Nat /\ sent <= TextLength /\ TextLength \in Nat
         /\ got \in Seq(Seq(Nat)) /\ Len(got) \in Nat /\ DOMAIN got = 1 .. Len(got)
         /\ in = [buf |-> in.buf, index |-> in.index, size |-> in.size, pos |-> in.pos,
                  closed |-> in.closed]
  <1>1. in \in [buf : [1 .. InSize -> Nat], index : 0 .. InSize, size : 0 .. InSize, pos : Nat,
                closed : BOOLEAN]
        /\ in.index <= in.size /\ sent \in 0 .. TextLength /\ got \in Seq(Seq(Nat))
    BY DEF InTypes
  <1>2. InSize \in Nat /\ TextLength \in Nat
    BY PortsAssumption
  <1>3. in.index \in 0 .. InSize /\ in.size \in 0 .. InSize /\ in.pos \in Nat
        /\ in.closed \in BOOLEAN /\ in.buf \in [1 .. InSize -> Nat]
    BY <1>1
  <1>4. got \in Seq(Seq(Nat)) /\ Len(got) \in Nat /\ DOMAIN got = 1 .. Len(got)
    BY <1>1
  <1>5. in = [buf |-> in.buf, index |-> in.index, size |-> in.size, pos |-> in.pos,
              closed |-> in.closed]
    BY <1>1
  <1>6. QED BY <1>1, <1>2, <1>3, <1>4, <1>5

\* in a whole text so far, the next byte begins the next character, if any
LEMMA WholeBegins ==
  ASSUME InTypes, Whole
  PROVE  /\ Len(got) + 1 \in DOMAIN Widths => First[Len(got) + 1] = Consumed + 1
         /\ \A c \in DOMAIN Widths : First[c] = Consumed + 1 => c = Len(got) + 1
         /\ Len(got) + 1 \notin DOMAIN Widths =>
              \A c \in DOMAIN Widths : c <= Len(got) /\ First[c] <= Consumed
  <1> DEFINE m == Len(got)
  <1>1. m \in Nat /\ DOMAIN Widths = 1 .. Len(Widths) /\ Len(Widths) \in Nat
    BY InParts, PortsAssumption
  <1>2. m \in DOMAIN Widths \/ m = 0
    <2>1. 1 .. m \subseteq DOMAIN Widths
      BY DEF Whole, Complete
    <2>2. m # 0 => m \in 1 .. m
      BY <1>1
    <2>3. QED BY <2>1, <2>2
  <1>3. Consumed = LastOf(m)
    BY DEF Whole
  <1> HIDE DEF m
  <1>4. m + 1 \in DOMAIN Widths => First[m + 1] = Consumed + 1
    BY <1>1, <1>2, <1>3, NextBegins
  <1>5. \A c \in DOMAIN Widths : First[c] = Consumed + 1 => c = m + 1
    BY <1>1, <1>2, <1>3, OneBegins
  <1>6. ASSUME m + 1 \notin DOMAIN Widths, NEW c \in DOMAIN Widths
        PROVE  c <= m /\ First[c] <= Consumed
    <2>1. c <= m /\ m # 0 /\ c \in Nat /\ 1 <= c
      BY <1>1, <1>2, <1>6
    <2>2. m \in DOMAIN Widths /\ Consumed = First[m] + Widths[m] - 1
      BY <2>1, <1>1, <1>2, <1>3 DEF LastOf
    <2>3. First[m] \in Nat /\ Widths[m] \in 1 .. 4 /\ First[c] \in Nat /\ Widths[c] \in 1 .. 4
      BY <2>2, FirstUnfolds
    <2>4. c < m => First[c] + Widths[c] <= First[m]
      BY <2>2, FirstAfter
    <2>5. c < m \/ c = m
      BY <2>1, <1>1
    <2>6. QED BY <2>1, <2>2, <2>3, <2>4, <2>5
  <1>7. QED BY <1>4, <1>5, <1>6 DEF m

\* one character more has been read
LEMMA GotOne ==
  ASSUME InTypes, ReadBack, mixed \subseteq mixed', NEW x \in Seq(Nat), got' = Append(got, x),
         "in" \notin mixed' =>
           x = IF Len(got) + 1 \in Complete
               THEN [j \in 1 .. Widths[Len(got) + 1] |-> First[Len(got) + 1] + j - 1]
               ELSE <<Bad>>
  PROVE  ReadBack' /\ got' \in Seq(Seq(Nat)) /\ Len(got') = Len(got) + 1
  <1>1. got \in Seq(Seq(Nat)) /\ Len(got) \in Nat
    BY InParts
  <1> DEFINE V == Seq(Nat)
  <1>2. x \in V /\ got \in Seq(V)
    BY <1>1
  <1> HIDE DEF V
  <1>3. /\ got' \in Seq(V) /\ Len(got') = Len(got) + 1
        /\ \A i \in 1 .. Len(got) : got'[i] = got[i]
        /\ got'[Len(got) + 1] = x
    BY <1>1, <1>2
  <1>4. ASSUME "in" \notin mixed', NEW i \in 1 .. Len(got')
        PROVE  got'[i] = IF i \in Complete THEN [j \in 1 .. Widths[i] |-> First[i] + j - 1] ELSE <<Bad>>
    <2>1. CASE i \in 1 .. Len(got)
      <3>1. "in" \notin mixed /\ got'[i] = got[i] /\ i \in DOMAIN got
        BY <1>1, <1>3, <1>4, <2>1
      <3>2. QED BY <3>1 DEF ReadBack
    <2>2. CASE i \notin 1 .. Len(got)
      <3>1. i = Len(got) + 1
        BY <1>1, <1>3, <2>2
      <3>2. QED BY <3>1, <1>3, <1>4
    <2>3. QED BY <2>1, <2>2
  <1>5. DOMAIN got' = 1 .. Len(got')
    BY <1>3
  <1>6. ReadBack'
    BY <1>4, <1>5 DEF ReadBack
  <1>7. QED BY <1>3, <1>6 DEF V

\* a read of the descriptor blocks, or fails
LEMMA ReadFailsKeeps ==
  ASSUME PortsInv, NEW t \in Thread, ReadFails(t)
  PROVE  PortsInv'
  <1>1. /\ running = t /\ act[t].at = "read" /\ mixed \subseteq mixed'
        /\ UNCHANGED outVars /\ in' = in /\ sent' = sent /\ got' = got
    BY DEF ReadFails, Doing, inVars
  <1>2. LoopInv /\ LoopTypes
    BY DEF PortsInv, LoopInv
  <1>3. act[t] \in Acts /\ act[t].op = "get" /\ act[t].n \in Nat
    BY <1>1, <1>2 DEF LoopTypes, AtOwnStep, Acts
  <1>4. InTypes /\ InTypes' /\ ReadBack'
    BY <1>1 DEF PortsInv, InTypes, ReadBack
  <1>5. Unread' = Unread /\ Consumed' = Consumed /\ (Whole' <=> Whole) /\ (Past' <=> Past)
    <2>1. Unread' = Unread /\ Consumed' = Consumed
      BY <1>1 DEF Unread, Consumed
    <2>2. QED BY <1>1, <2>1 DEF Whole, Past
  <1>6. "in" \notin mixed' => Ahead(act[t].n) /\ Consumed' >= 0 /\ (Whole' \/ Past')
    BY <1>1, <1>3, <1>5, ReaderSees
  <1>7. CASE Park(t, "r")
    <2>0. PICK a : a = [act[t] EXCEPT !.at = "blocked"]
      OBVIOUS
    <2>1. act' = [act EXCEPT ![t] = a]
      BY <1>7, <2>0 DEF Park
    <2>2. a.op = "get" /\ a.n = act[t].n /\ a.at = "blocked"
      BY <1>3, <2>0 DEF Acts
    <2>3. act[t].op # "none" /\ PortOf(act[t].op) = "in"
      BY <1>3 DEF PortOf
    <2>4. LoopInv'
      BY <1>1, <1>2, <1>7, <2>3, Parks
    <2>5. "in" \notin mixed' => Ahead(a.n)'
      <3>1. "in" \notin mixed' => Ahead(a.n)
        BY <2>2, <1>6
      <3>2. QED BY <3>1, <1>1, <1>5 DEF Ahead
    <2>6. QED BY <2>1, <2>2, <2>4, <2>5, <1>1, <1>3, <1>4, <1>6, InStep
  <1>8. CASE Finish(t) /\ UNCHANGED <<running, loopVars>>
             /\ mixed' = IF act[t].n > 0 THEN mixed \cup {"in"} ELSE mixed
    <2>1. act' = [act EXCEPT ![t] = NoOperation]
      BY <1>8 DEF Finish
    <2>2. NoOperation \in Acts /\ AtOwnStep(NoOperation) /\ NoOperation.at = "none"
          /\ NoOperation.op = "none"
      BY DEF NoOperation, Acts, AtOwnStep, OutOps
    <2>3. LoopInv'
      BY <1>1, <1>2, <1>8, <2>1, <2>2, RunningSteps
    <2>4. ASSUME "in" \notin mixed' PROVE Buffered'
      <3>1. act[t].n = 0
        BY <1>3, <1>8, <2>4
      <3>2. Unread = 0
        BY <1>6, <2>4, <3>1 DEF Ahead
      <3>3. in.index + 1 .. in.size = {}
        BY <3>2, <1>4, InParts DEF Unread
      <3>4. QED BY <3>3, <1>1 DEF Buffered
    <2>5. QED BY <2>1, <2>2, <2>3, <2>4, <1>1, <1>3, <1>4, <1>6, InStep
  <1>9. QED BY <1>7, <1>8 DEF ReadFails

\* refill-bv-buffer up to its call of read!
LEMMA RefillKeeps ==
  ASSUME PortsInv, NEW t \in Thread, running = t, act[t].at = "get", Refill(t),
         UNCHANGED outVars, sent' = sent, mixed' = mixed, UNCHANGED <<running, loopVars>>,
         "in" \notin mixed /\ Unread > 0 =>
           Whole /\ Len(got) + 1 \in DOMAIN Widths /\ Unread < Widths[Len(got) + 1]
  PROVE  PortsInv'
  <1>1. LoopInv /\ LoopTypes /\ InTypes /\ ReadBack
    BY DEF PortsInv, LoopInv
  <1>2. act[t] \in Acts /\ act[t].op = "get"
    BY <1>1 DEF LoopTypes, AtOwnStep
  <1> DEFINE b == [i \in 1 .. InSize |-> IF i <= Unread THEN in.buf[i + in.index] ELSE in.buf[i]]
  <1>3. /\ in' = [in EXCEPT !.buf = b, !.pos = @ + in.index]
        /\ Goto(t, "read", Unread) /\ got' = got
    BY DEF Refill, Unread
  <1>4. /\ in.buf \in [1 .. InSize -> Nat] /\ in.index \in Nat /\ in.size \in Nat /\ in.pos \in Nat
        /\ in.closed \in BOOLEAN /\ in.index <= in.size /\ in.size <= InSize /\ InSize \in Nat
        /\ sent \in Nat
        /\ in = [buf |-> in.buf, index |-> in.index, size |-> in.size, pos |-> in.pos,
                  closed |-> in.closed]
    BY <1>1, InParts
  <1>5. Unread \in Nat /\ Unread + in.index = in.size /\ Unread = in.size - in.index
    BY <1>4 DEF Unread
  <1>6. b \in [1 .. InSize -> Nat] /\ \A i \in 1 .. Unread : b[i] = in.buf[i + in.index]
    <2> DEFINE u == Unread
    <2>1. u \in Nat /\ u <= InSize /\ \A i \in 1 .. u : i + in.index \in 1 .. InSize /\ i \in 1 .. InSize /\ i <= u
      BY <1>4, <1>5
    <2> HIDE DEF u
    <2>2. ASSUME NEW i \in 1 .. InSize
          PROVE  (IF i <= u THEN in.buf[i + in.index] ELSE in.buf[i]) \in Nat
      <3>1. CASE i <= u
        <4>1. i + in.index \in 1 .. InSize
          BY <2>1, <3>1
        <4>2. QED BY <4>1, <3>1, <1>4
      <3>2. CASE ~(i <= u)
        BY <3>2, <1>4
      <3>3. QED BY <3>1, <3>2
    <2>3. b = [i \in 1 .. InSize |-> IF i <= u THEN in.buf[i + in.index] ELSE in.buf[i]]
      BY DEF u
    <2> HIDE DEF b
    <2>4. QED BY <2>1, <2>2, <2>3 DEF u
  <1> HIDE DEF b
  <1>7. in' = [buf |-> b, index |-> in.index, size |-> in.size, pos |-> in.pos + in.index,
               closed |-> in.closed]
    BY <1>3, <1>4
  <1>8. InTypes'
    <2>1. in.pos + in.index \in Nat /\ in.index \in 0 .. InSize /\ in.size \in 0 .. InSize
      BY <1>4
    <2>2. QED BY <1>1, <1>3, <1>4, <1>6, <1>7, <2>1 DEF InTypes
  <1>9. ReadBack'
    BY <1>1, <1>3 DEF ReadBack
  <1>10. Unread' = Unread /\ Consumed' = Consumed /\ (Whole' <=> Whole) /\ (Past' <=> Past)
    <2>1. Unread' = Unread /\ Consumed' = Consumed
      BY <1>7 DEF Unread, Consumed
    <2>2. QED BY <1>3, <2>1 DEF Whole, Past
  <1>11. PICK a : a = [act[t] EXCEPT !.at = "read", !.n = Unread]
    OBVIOUS
  <1>12. act' = [act EXCEPT ![t] = a] /\ a \in Acts /\ a.op = "get" /\ a.at = "read" /\ a.n = Unread
    <2>1. act' = [act EXCEPT ![t] = a]
      BY <1>1, <1>3, <1>11 DEF Goto, LoopTypes
    <2>2. QED BY <1>2, <1>5, <1>11, <2>1 DEF Acts
  <1>13. LoopInv'
    <2>1. AtOwnStep(a) /\ a.at # "blocked"
      BY <1>12 DEF AtOwnStep, OutOps
    <2>2. QED BY <2>1, <1>1, <1>12, RunningSteps
  <1>14. ASSUME "in" \notin mixed' PROVE Ahead(a.n)' /\ Consumed' >= 0 /\ (Whole' \/ Past')
    <2>1. Buffered /\ Consumed >= 0 /\ (Whole \/ Past)
      BY <1>2, <1>14, ReaderSees
    <2>2. ASSUME NEW i \in 1 .. Unread PROVE in'.buf[i] = Consumed + i
      <3>1. i + in.index \in in.index + 1 .. in.size /\ i \in Int
        BY <1>4, <1>5
      <3>2. in.buf[i + in.index] = Consumed + (i + in.index) - in.index
        BY <2>1, <3>1 DEF Buffered
      <3>3. Consumed + (i + in.index) - in.index = Consumed + i
        <4>1. Consumed \in Int
          BY <1>4, <1>5 DEF Consumed
        <4>2. QED BY <4>1, <3>1, <1>4
      <3>4. QED BY <3>2, <3>3, <1>6, <1>7
    <2>3. Ahead(a.n)'
      BY <1>3, <1>10, <1>12, <1>14, <2>2 DEF Ahead
    <2>4. QED BY <2>1, <2>3, <1>10
  <1>15. QED BY <1>2, <1>8, <1>9, <1>12, <1>13, <1>14, InStep

\* get-char takes k bytes of the buffer as a character x
LEMMA TakeKeeps ==
  ASSUME PortsInv, NEW t \in Thread, running = t, act[t].at = "get", Finish(t),
         NEW k \in Nat, in.index + k <= in.size, in' = [in EXCEPT !.index = @ + k],
         UNCHANGED outVars, sent' = sent, mixed' = mixed, UNCHANGED <<running, loopVars>>,
         got' \in Seq(Seq(Nat)), ReadBack',
         "in" \notin mixed /\ Consumed' = Consumed + k => Whole' \/ Past'
  PROVE  PortsInv'
  <1>1. LoopInv /\ LoopTypes /\ InTypes
    BY DEF PortsInv, LoopInv
  <1>2. act[t] \in Acts /\ act[t].op = "get"
    BY <1>1 DEF LoopTypes, AtOwnStep
  <1>3. /\ in.buf \in [1 .. InSize -> Nat] /\ in.index \in Nat /\ in.size \in Nat /\ in.pos \in Nat
        /\ in.closed \in BOOLEAN /\ in.index <= in.size /\ in.size <= InSize /\ InSize \in Nat
        /\ sent \in Nat
        /\ in = [buf |-> in.buf, index |-> in.index, size |-> in.size, pos |-> in.pos,
                  closed |-> in.closed]
    BY <1>1, InParts
  <1>4. in' = [buf |-> in.buf, index |-> in.index + k, size |-> in.size, pos |-> in.pos,
               closed |-> in.closed]
    BY <1>3
  <1>5. InTypes'
    <2>1. in.index + k \in 0 .. InSize /\ in.size \in 0 .. InSize
      BY <1>3
    <2>2. QED BY <1>1, <1>3, <1>4, <2>1 DEF InTypes
  <1>6. Consumed' = Consumed + k /\ Consumed \in Int
    BY <1>3, <1>4 DEF Consumed, Unread
  <1>7. act' = [act EXCEPT ![t] = NoOperation]
    BY DEF Finish
  <1>8. NoOperation \in Acts /\ AtOwnStep(NoOperation) /\ NoOperation.at = "none"
        /\ NoOperation.op = "none"
    BY DEF NoOperation, Acts, AtOwnStep, OutOps
  <1>9. LoopInv'
    BY <1>1, <1>7, <1>8, RunningSteps
  <1>10. ASSUME "in" \notin mixed' PROVE Buffered' /\ Consumed' >= 0 /\ (Whole' \/ Past')
    <2>1. Buffered /\ Consumed >= 0
      BY <1>2, <1>10, ReaderSees
    <2>2. ASSUME NEW i \in in.index + k + 1 .. in.size
          PROVE  in.buf[i] = Consumed + k + i - (in.index + k)
      <3>1. i \in in.index + 1 .. in.size /\ i \in Int
        BY <1>3
      <3>2. in.buf[i] = Consumed + i - in.index
        BY <3>1, <2>1 DEF Buffered
      <3>3. QED BY <3>1, <3>2, <1>3, <1>6
    <2>3. Buffered'
      BY <2>2, <1>4, <1>6 DEF Buffered
    <2>4. QED BY <2>1, <2>3, <1>6, <1>10
  <1>11. QED BY <1>2, <1>5, <1>7, <1>8, <1>9, <1>10, InStep

\* which character begins at a byte
LEMMA WidthThere ==
  ASSUME NEW b, NEW c \in DOMAIN Widths, First[c] = b, \A d \in DOMAIN Widths : First[d] = b => d = c
  PROVE  WidthAt(b) = Widths[c]
  <1>1. Beginning(b) = {c}
    BY DEF Beginning
  <1>2. QED BY <1>1 DEF WidthAt

\* no character begins at two bytes
LEMMA FirstApart ==
  ASSUME NEW c \in DOMAIN Widths, NEW d \in DOMAIN Widths, First[c] = First[d]
  PROVE  c = d
  <1>1. /\ First[c] \in Nat /\ Widths[c] \in 1 .. 4 /\ Widths[d] \in 1 .. 4 /\ c \in Int /\ d \in Int
    BY FirstUnfolds, PortsAssumption
  <1>2. c < d => First[c] + Widths[c] <= First[d]
    BY FirstAfter
  <1>3. d < c => First[d] + Widths[d] <= First[c]
    BY FirstAfter
  <1>4. QED BY <1>1, <1>2, <1>3

\* what SubSeq takes of a sequence
IsPart(X, s, m, w, x) == x \in [1 .. w -> X] /\ x \in Seq(X) /\ \A j \in 1 .. w : x[j] = s[m + j]
LEMMA Taken ==
  ASSUME NEW X, NEW s \in Seq(X), NEW m \in Nat, NEW w \in Nat, m + w <= Len(s),
         NEW x, x = SubSeq(s, m + 1, m + w)
  PROVE  IsPart(X, s, m, w, x)
  <1>1. x = [j \in 1 .. (1 + (m + w) - (m + 1)) |-> s[j + (m + 1) - 1]]
    BY SMT
  <1>2. 1 + (m + w) - (m + 1) = w /\ \A j \in 1 .. w : j + (m + 1) - 1 = m + j /\ m + j \in 1 .. Len(s)
    OBVIOUS
  <1>3. x = [j \in 1 .. w |-> s[j + (m + 1) - 1]]
    BY <1>1, <1>2
  <1>4. \A j \in 1 .. w : x[j] = s[m + j] /\ s[m + j] \in X
    BY <1>2, <1>3
  <1>5. x \in [1 .. w -> X]
    BY <1>3, <1>4
  <1>6. x \in Seq(X)
    BY <1>5
  <1>7. QED BY <1>4, <1>5, <1>6 DEF IsPart

\* get-char
LEMMA GetStepKeeps ==
  ASSUME PortsInv, NEW t \in Thread, GetStep(t)
  PROVE  PortsInv'
  <1>1. LoopInv /\ LoopTypes /\ InTypes /\ ReadBack
    BY DEF PortsInv, LoopInv
  <1>2. running = t /\ act[t].at = "get"
        /\ UNCHANGED outVars /\ sent' = sent /\ mixed' = mixed /\ UNCHANGED <<running, loopVars>>
    BY DEF GetStep, Doing
  <1>3. act[t].op = "get"
    BY <1>1, <1>2 DEF LoopTypes, AtOwnStep
  <1>4. /\ in.buf \in [1 .. InSize -> Nat] /\ in.index \in Nat /\ in.size \in Nat
        /\ in.index <= in.size /\ in.size <= InSize /\ InSize \in Nat
        /\ sent \in Nat /\ sent <= TextLength /\ TextLength \in Nat
        /\ got \in Seq(Seq(Nat)) /\ Len(got) \in Nat
    BY <1>1, InParts
  <1>5. Unread = in.size - in.index /\ Unread \in Nat /\ Consumed = sent - Unread /\ Consumed \in Int
    BY <1>4 DEF Unread, Consumed
  <1>6. "in" \notin mixed => Buffered /\ Consumed >= 0 /\ (Whole \/ Past)
    BY <1>2, <1>3, ReaderSees
  <1>7. CASE Finish(t) /\ in' = in /\ got' = got
    <2> DEFINE k == 0
    <2>1. k \in Nat /\ in.index + k <= in.size /\ in' = [in EXCEPT !.index = @ + k]
          /\ got' \in Seq(Seq(Nat)) /\ Consumed' = Consumed + k
      <3>1. in = [in EXCEPT !.index = @ + 0]
        <4>1. in = [buf |-> in.buf, index |-> in.index, size |-> in.size, pos |-> in.pos,
                  closed |-> in.closed] /\ in.index + 0 = in.index
          BY <1>1, <1>4, InParts
        <4>2. QED BY <4>1
      <3>2. Consumed' = Consumed
        BY <1>2, <1>7 DEF Consumed, Unread
      <3>3. QED BY <3>1, <3>2, <1>4, <1>5, <1>7
    <2>2. ReadBack'
      BY <1>1, <1>2, <1>7 DEF ReadBack
    <2>3. "in" \notin mixed => Whole' \/ Past'
      <3>1. Consumed' = Consumed /\ got' = got
        BY <2>1, <1>5, <1>7
      <3>2. QED BY <3>1, <1>6 DEF Whole, Past
    <2> HIDE DEF k
    <2>4. QED BY <1>2, <1>7, <2>1, <2>2, <2>3, TakeKeeps
  <1>8. CASE in.index = in.size /\ Refill(t)
    <2>1. Unread = 0
      BY <1>4, <1>5, <1>8
    <2>2. QED BY <2>1, <1>2, <1>8, RefillKeeps
  <1> DEFINE b == in.buf[in.index + 1]
  <1>9. ASSUME "in" \notin mixed, in.index < in.size
        PROVE  b = Consumed + 1 /\ Consumed + 1 <= TextLength /\ Consumed + 1 \in Nat
    <2>1. in.index + 1 \in in.index + 1 .. in.size
      BY <1>4, <1>9
    <2>2. b = Consumed + (in.index + 1) - in.index
      BY <2>1, <1>6, <1>9 DEF Buffered
    <2>3. Consumed >= 0
      BY <1>6, <1>9
    <2>4. Consumed + (in.index + 1) - in.index = Consumed + 1
      BY <1>4, <1>5
    <2>5. Consumed + 1 <= TextLength /\ Consumed + 1 \in Nat
      BY <2>3, <1>4, <1>5, <1>9
    <2>6. QED BY <2>2, <2>4, <2>5
  \* a byte at which a character begins
  <1>10. ASSUME "in" \notin mixed, in.index < in.size, Beginning(b) # {}
         PROVE  Whole /\ Len(got) + 1 \in DOMAIN Widths /\ WidthAt(b) = Widths[Len(got) + 1]
                /\ First[Len(got) + 1] = Consumed + 1
    <2>1. PICK c \in DOMAIN Widths : First[c] = b
      BY <1>10 DEF Beginning
    <2>2. First[c] = Consumed + 1 /\ Consumed + 1 <= TextLength
      BY <2>1, <1>9, <1>10
    <2>3. Whole
      <3>1. ~(First[c] <= Consumed \/ First[c] > TextLength)
        BY <2>2, <1>4, <1>5
      <3>2. QED BY <3>1, <1>6, <1>10 DEF Past
    <2>4. c = Len(got) + 1
      BY <2>2, <2>3, <1>1, WholeBegins
    <2>5. WidthAt(b) = Widths[c]
      <3> HIDE DEF b
      <3>1. \A d \in DOMAIN Widths : First[d] = b => d = c
        BY <2>1, FirstApart
      <3>2. QED BY <2>1, <3>1, WidthThere
    <2>6. QED BY <2>2, <2>3, <2>4, <2>5
  <1>11. CASE in.index < in.size /\ Beginning(b) = {} /\ Finish(t)
              /\ in' = [in EXCEPT !.index = @ + 1] /\ got' = Append(got, <<Bad>>)
    <2>1. ASSUME "in" \notin mixed PROVE Len(got) + 1 \notin Complete
      <3> SUFFICES ASSUME Len(got) + 1 \in DOMAIN Widths, Len(got) + 1 \in Complete PROVE FALSE
        BY DEF Complete
      <3>1. CASE Whole
        <4>1. First[Len(got) + 1] = b
          BY <3>1, <1>1, <1>9, <1>11, <2>1, WholeBegins
        <4>2. QED BY <4>1, <1>11 DEF Beginning
      <3>2. CASE Past
        <4>1. Len(got) + 1 \in 1 .. Len(got)
          BY <3>2 DEF Past
        <4>2. QED BY <4>1, <1>4
      <3>3. QED BY <3>1, <3>2, <1>6, <2>1
    <2> DEFINE x == <<Bad>>
    <2>2. x \in Seq(Nat)
      BY DEF Bad
    <2>3. /\ got' = Append(got, x)
          /\ "in" \notin mixed' =>
               x = IF Len(got) + 1 \in Complete
                   THEN [j \in 1 .. Widths[Len(got) + 1] |-> First[Len(got) + 1] + j - 1]
                   ELSE <<Bad>>
      BY <2>1, <1>2, <1>11
    <2>4. mixed \subseteq mixed'
      BY <1>2
    <2>5. ReadBack' /\ got' \in Seq(Seq(Nat)) /\ Len(got') = Len(got) + 1
      <3> HIDE DEF x
      <3>1. QED BY <2>2, <2>3, <2>4, <1>1, GotOne
    <2>6. ASSUME "in" \notin mixed, Consumed' = Consumed + 1 PROVE Past'
      <3>1. Complete \subseteq DOMAIN Widths /\ \A c \in DOMAIN Widths : c \in Int /\ c >= 1 /\ First[c] \in Nat
        BY FirstUnfolds, PortsAssumption DEF Complete
      <3>2. CASE Past
        <4>1. ASSUME NEW c \in Complete PROVE c \in 1 .. Len(got')
          <5>1. c \in 1 .. Len(got)
            BY <3>2 DEF Past
          <5>2. QED BY <5>1, <2>5, <1>4
        <4>2. ASSUME NEW c \in DOMAIN Widths PROVE First[c] <= Consumed' \/ First[c] > TextLength
          <5>1. First[c] <= Consumed \/ First[c] > TextLength
            BY <3>2 DEF Past
          <5>2. QED BY <5>1, <3>1, <2>6, <1>5
        <4>3. QED BY <4>1, <4>2 DEF Past
      <3>3. CASE Whole
        <4>1. Len(got) + 1 \notin DOMAIN Widths
          <5>1. Len(got) + 1 \in DOMAIN Widths => First[Len(got) + 1] = b
            BY <3>3, <1>1, <1>9, <1>11, <2>6, WholeBegins
          <5>2. QED BY <5>1, <1>11 DEF Beginning
        <4>2. \A c \in DOMAIN Widths : c <= Len(got) /\ First[c] <= Consumed
          BY <3>3, <4>1, <1>1, WholeBegins
        <4>3. ASSUME NEW c \in Complete PROVE c \in 1 .. Len(got')
          BY <3>1, <4>2, <2>5, <1>4
        <4>4. ASSUME NEW c \in DOMAIN Widths PROVE First[c] <= Consumed'
          BY <3>1, <4>2, <2>6, <1>5
        <4>5. QED BY <4>3, <4>4 DEF Past
      <3>4. QED BY <3>2, <3>3, <1>6, <2>6
    <2> DEFINE k == 1
    <2>7. k \in Nat /\ in.index + k <= in.size /\ in' = [in EXCEPT !.index = @ + k]
          /\ ("in" \notin mixed /\ Consumed' = Consumed + k => Whole' \/ Past')
      BY <1>4, <1>11, <2>6
    <2> HIDE DEF k
    <2>8. QED BY <1>2, <1>11, <2>5, <2>7, TakeKeeps
  <1>12. CASE in.index < in.size /\ Beginning(b) # {} /\ in.index + WidthAt(b) <= in.size /\ Finish(t)
              /\ in' = [in EXCEPT !.index = @ + WidthAt(b)]
              /\ got' = Append(got, SubSeq(in.buf, in.index + 1, in.index + WidthAt(b)))
    <2>1. PICK w : w = WidthAt(b)
      OBVIOUS
    <2>2. w \in 1 .. 4
      <3>1. \A c \in Beginning(b) : Widths[c] \in 1 .. 4
        BY FirstUnfolds DEF Beginning
      <3>2. \E c \in Beginning(b) : WidthAt(b) = Widths[c]
        BY <1>12 DEF WidthAt
      <3>3. QED BY <2>1, <3>1, <3>2
    <2> DEFINE x == SubSeq(in.buf, in.index + 1, in.index + w)
    <2>3. in.index + w <= in.size /\ in' = [in EXCEPT !.index = @ + w] /\ got' = Append(got, x)
      BY <2>1, <1>12
    <2>4. x \in [1 .. w -> Nat] /\ x \in Seq(Nat) /\ \A j \in 1 .. w : x[j] = in.buf[in.index + j]
      <3>1. in.buf \in Seq(Nat) /\ Len(in.buf) = InSize
        BY <1>4
      <3>2. w \in Nat /\ in.index + w <= Len(in.buf)
        <4>1. in.index + w <= InSize
          BY <2>2, <2>3, <1>4
        <4>2. QED BY <2>2, <3>1, <4>1
      <3>3. x = SubSeq(in.buf, in.index + 1, in.index + w)
        OBVIOUS
      <3> DEFINE V == Nat
                 s == in.buf
                 m == in.index
      <3>4. s \in Seq(V) /\ m \in Nat /\ w \in Nat /\ m + w <= Len(s) /\ x = SubSeq(s, m + 1, m + w)
        BY <3>1, <3>2, <3>3, <1>4
      <3> HIDE DEF V, s, m, x
      <3>5. IsPart(V, s, m, w, x)
        BY <3>4, Taken
      <3>6. QED BY <3>5 DEF V, s, m, IsPart
    <2> HIDE DEF x
    <2> DEFINE i == Len(got) + 1
    <2>5. ASSUME "in" \notin mixed
          PROVE  /\ Whole /\ i \in Complete /\ Widths[i] = w /\ First[i] = Consumed + 1
                 /\ x = [j \in 1 .. Widths[i] |-> First[i] + j - 1]
      <3>1. Whole /\ i \in DOMAIN Widths /\ w = Widths[i] /\ First[i] = Consumed + 1
        BY <1>10, <1>12, <2>1, <2>5
      <3>2. Consumed + 1 + w - 1 <= TextLength
        <4>1. w \in Int /\ in.index + w <= in.size
          BY <2>2, <2>3
        <4>2. PICK x1 \in Int, x2 \in Int, u \in Int, e \in Int :
                 x1 = in.index /\ x2 = in.size /\ u = Consumed /\ e = sent
          BY <1>4, <1>5
        <4>3. PICK y \in Int, z \in Int : y = w /\ z = TextLength
          BY <4>1, <1>4
        <4>4. u = e - (x2 - x1)
          BY <4>2, <1>5
        <4>5. x1 + y <= x2 /\ e <= z
          BY <4>1, <4>2, <4>3, <1>4
        <4>6. u + 1 + y - 1 <= z
          BY <4>4, <4>5
        <4>7. QED BY <4>2, <4>3, <4>6
      <3> HIDE DEF i
      <3>3. i \in Complete
        BY <3>1, <3>2 DEF Complete
      <3>4. ASSUME NEW j \in 1 .. w PROVE x[j] = (Consumed + 1) + j - 1
        <4>1. in.index + j \in in.index + 1 .. in.size /\ j \in Int
          <5>1. PICK x1 \in Int, x2 \in Int : x1 = in.index /\ x2 = in.size /\ x1 + w <= x2
            BY <1>4, <2>3
          <5>2. x1 + j \in x1 + 1 .. x2 /\ j \in Int
            BY <2>2, <5>1
          <5>3. QED BY <5>1, <5>2
        <4>2. in.buf[in.index + j] = Consumed + (in.index + j) - in.index
          BY <4>1, <1>6, <2>5 DEF Buffered
        <4>3. Consumed + (in.index + j) - in.index = (Consumed + 1) + j - 1
          <5>1. in.index \in Int /\ j \in Int /\ Consumed \in Int
            BY <4>1, <1>4, <1>5
          <5>2. QED BY <5>1
        <4>4. QED BY <2>4, <4>2, <4>3
      <3>5. QED BY <3>1, <3>3, <3>4, <2>4
    <2>6. ReadBack' /\ got' \in Seq(Seq(Nat)) /\ Len(got') = i
      <3>1. mixed \subseteq mixed'
        BY <1>2
      <3>2. "in" \notin mixed' =>
               x = IF Len(got) + 1 \in Complete
                   THEN [j \in 1 .. Widths[Len(got) + 1] |-> First[Len(got) + 1] + j - 1]
                   ELSE <<Bad>>
        BY <2>5, <1>2
      <3>3. QED BY <3>1, <3>2, <2>3, <2>4, <1>1, GotOne
    <2>7. ASSUME "in" \notin mixed, Consumed' = Consumed + w PROVE Whole'
      <3>1. 1 .. Len(got) \subseteq Complete
        BY <2>5, <2>7 DEF Whole
      <3>2. 1 .. Len(got') \subseteq Complete
        <4>1. ASSUME NEW c \in 1 .. Len(got') PROVE c \in Complete
          <5>1. c \in 1 .. Len(got) \/ c = i
            BY <2>6, <1>4
          <5>2. QED BY <5>1, <3>1, <2>5, <2>7
        <4>2. QED BY <4>1
      <3>3. Consumed' = First[i] + Widths[i] - 1
        BY <2>2, <2>5, <2>7, <1>5
      <3>4. Len(got') # 0
        BY <2>6, <1>4
      <3>5. QED BY <3>2, <3>3, <3>4, <2>6 DEF Whole, LastOf
    <2>8. w \in Nat
      BY <2>2
    <2>9. QED BY <1>2, <1>12, <2>3, <2>6, <2>7, <2>8, TakeKeeps
  <1>13. CASE in.index < in.size /\ Beginning(b) # {} /\ ~(in.index + WidthAt(b) <= in.size) /\ Refill(t)
    <2>1. ASSUME "in" \notin mixed
          PROVE  Whole /\ Len(got) + 1 \in DOMAIN Widths /\ Unread < Widths[Len(got) + 1]
      <3>1. Whole /\ Len(got) + 1 \in DOMAIN Widths /\ WidthAt(b) = Widths[Len(got) + 1]
        BY <2>1, <1>10, <1>13
      <3>2. Widths[Len(got) + 1] \in 1 .. 4 /\ ~(in.index + Widths[Len(got) + 1] <= in.size)
        BY <3>1, <1>13, FirstUnfolds
      <3>3. PICK x1 \in Int, x2 \in Int, y \in Int :
               x1 = in.index /\ x2 = in.size /\ y = Widths[Len(got) + 1] /\ ~(x1 + y <= x2)
        BY <3>2, <1>4
      <3>4. x2 - x1 < y
        BY <3>3
      <3>5. Unread < Widths[Len(got) + 1]
        BY <3>3, <3>4, <1>5
      <3>6. QED BY <3>1, <3>5
    <2>2. QED BY <2>1, <1>2, <1>13, RefillKeeps
  <1>14. QED
    <2>1. \/ in.closed /\ Finish(t) /\ UNCHANGED <<in, got>>
          \/ ~in.closed /\ in.index = in.size /\ Refill(t)
          \/ /\ ~in.closed /\ in.index < in.size
             /\ IF Beginning(b) = {}
                THEN /\ in' = [in EXCEPT !.index = @ + 1]
                     /\ got' = Append(got, <<Bad>>) /\ Finish(t)
                ELSE IF in.index + WidthAt(b) <= in.size
                THEN /\ in' = [in EXCEPT !.index = @ + WidthAt(b)]
                     /\ got' = Append(got, SubSeq(in.buf, in.index + 1, in.index + WidthAt(b)))
                     /\ Finish(t)
                ELSE Refill(t)
      BY DEF GetStep
    <2> HIDE DEF b
    <2>2. QED BY <2>1, <1>7, <1>8, <1>11, <1>12, <1>13

\* the descriptor gives k bytes
LEMMA ReadInKeeps ==
  ASSUME PortsInv, NEW t \in Thread, NEW k \in 0 .. InSize, ReadIn(t, k)
  PROVE  PortsInv'
  <1>1. LoopInv /\ LoopTypes /\ InTypes /\ ReadBack
    BY DEF PortsInv, LoopInv
  <1>2. running = t /\ act[t].at = "read" /\ mixed' = mixed
        /\ UNCHANGED outVars /\ sent' = sent + k /\ UNCHANGED <<running, loopVars>>
        /\ k \in 0 .. InSize - act[t].n /\ sent + k <= TextLength /\ (k = 0 => sent = TextLength)
    BY DEF ReadIn, Doing
  <1>3. act[t] \in Acts /\ act[t].op = "get" /\ act[t].n \in Nat
    BY <1>1, <1>2 DEF LoopTypes, AtOwnStep, Acts
  <1>4. /\ in.buf \in [1 .. InSize -> Nat] /\ in.index \in Nat /\ in.size \in Nat /\ in.pos \in Nat
        /\ in.closed \in BOOLEAN /\ in.index <= in.size /\ in.size <= InSize /\ InSize \in Nat
        /\ sent \in Nat /\ sent <= TextLength /\ TextLength \in Nat
        /\ got \in Seq(Seq(Nat)) /\ Len(got) \in Nat
        /\ in = [buf |-> in.buf, index |-> in.index, size |-> in.size, pos |-> in.pos,
                  closed |-> in.closed]
    BY <1>1, InParts
  <1> DEFINE n == act[t].n
             b == [i \in 1 .. InSize |-> IF i > n /\ i <= n + k THEN sent + i - n ELSE in.buf[i]]
  <1>5. \E ix \in {0, 1} :
          /\ in' = [in EXCEPT !.index = ix, !.size = n + k, !.buf = b]
          /\ IF ix = 0
             THEN got' = got /\ IF k > 0 THEN Goto(t, "get", 0) ELSE n = 0 /\ Finish(t)
             ELSE k = 0 /\ n # 0 /\ got' = Append(got, <<Bad>>) /\ Finish(t)
    <2> DEFINE filled == [in EXCEPT !.index = 0, !.size = n + k, !.buf = b]
    <2>1. IF k > 0 THEN in' = filled /\ Goto(t, "get", 0) /\ got' = got
          ELSE IF n = 0 THEN in' = filled /\ Finish(t) /\ got' = got
          ELSE in' = [filled EXCEPT !.index = 1] /\ got' = Append(got, <<Bad>>) /\ Finish(t)
      BY DEF ReadIn
    <2>2. [filled EXCEPT !.index = 1] = [in EXCEPT !.index = 1, !.size = n + k, !.buf = b]
      <3> HIDE DEF b, n
      <3>1. QED BY <1>4
    <2> HIDE DEF b, n, filled
    <2>3. k > 0 \/ k = 0
      BY <1>2
    <2>4. filled = [in EXCEPT !.index = 0, !.size = n + k, !.buf = b]
      BY DEF filled
    <2>5. QED BY <2>1, <2>2, <2>3, <2>4
  <1>6. n \in Nat /\ k \in Nat /\ n + k <= InSize
    BY <1>2, <1>3, <1>4
  <1>7. b \in [1 .. InSize -> Nat]
        /\ \A i \in 1 .. n + k : b[i] = IF i > n THEN sent + i - n ELSE in.buf[i]
    <2> HIDE DEF n
    <2>1. ASSUME NEW i \in 1 .. InSize
          PROVE  (IF i > n /\ i <= n + k THEN sent + i - n ELSE in.buf[i]) \in Nat
      <3>1. CASE i > n /\ i <= n + k
        <4>1. sent + i - n \in Nat
          BY <3>1, <1>4, <1>6
        <4>2. QED BY <3>1, <4>1
      <3>2. CASE ~(i > n /\ i <= n + k)
        BY <3>2, <1>4
      <3>3. QED BY <3>1, <3>2
    <2>2. ASSUME NEW i \in 1 .. n + k
          PROVE  i \in 1 .. InSize /\ i <= n + k
      BY <1>4, <1>6
    <2>3. QED BY <2>1, <2>2
  <1> HIDE DEF b, n
  <1>8. PICK ix \in {0, 1} :
          /\ in' = [in EXCEPT !.index = ix, !.size = n + k, !.buf = b]
          /\ IF ix = 0
             THEN got' = got /\ IF k > 0 THEN Goto(t, "get", 0) ELSE n = 0 /\ Finish(t)
             ELSE k = 0 /\ n # 0 /\ got' = Append(got, <<Bad>>) /\ Finish(t)
    BY <1>5
  <1>9. in' = [buf |-> b, index |-> ix, size |-> n + k, pos |-> in.pos, closed |-> in.closed]
    BY <1>4, <1>8
  <1>10. \E a : act' = [act EXCEPT ![t] = a] /\ a \in Acts /\ AtOwnStep(a)
                /\ a.at \in {"none", "get"} /\ a.op \in {"none", "get"}
    <2>1. CASE Goto(t, "get", 0)
      <3> DEFINE a == [act[t] EXCEPT !.at = "get", !.n = 0]
      <3>1. act' = [act EXCEPT ![t] = a]
        BY <1>1, <2>1 DEF Goto, LoopTypes
      <3>2. a \in Acts /\ a.op = "get" /\ a.at = "get"
        BY <1>3 DEF Acts
      <3> HIDE DEF a
      <3>3. QED BY <3>1, <3>2 DEF AtOwnStep, OutOps
    <2>2. CASE Finish(t)
      <3>1. act' = [act EXCEPT ![t] = NoOperation]
        BY <2>2 DEF Finish
      <3>2. NoOperation \in Acts /\ AtOwnStep(NoOperation) /\ NoOperation.at = "none"
            /\ NoOperation.op = "none"
        BY DEF NoOperation, Acts, AtOwnStep, OutOps
      <3>3. QED BY <3>1, <3>2
    <2>3. QED BY <2>1, <2>2, <1>8
  <1>11. PICK a : act' = [act EXCEPT ![t] = a] /\ a \in Acts /\ AtOwnStep(a)
                /\ a.at \in {"none", "get"} /\ a.op \in {"none", "get"}
    BY <1>10
  <1>12. LoopInv'
    BY <1>1, <1>2, <1>11, RunningSteps
  <1>13. "in" \notin mixed => Ahead(n) /\ Consumed >= 0 /\ (Whole \/ Past)
    BY <1>2, <1>3, ReaderSees DEF n
  <1>14. got' \in Seq(Seq(Nat)) /\ ReadBack' /\ Len(got') = Len(got) + ix
    <2>1. CASE ix = 0
      BY <2>1, <1>1, <1>2, <1>4, <1>8 DEF ReadBack
    <2>2. CASE ix = 1
      <3> DEFINE x == <<Bad>>
                 m == Len(got) + 1
      <3>1. x \in Seq(Nat)
        BY DEF Bad
      <3>2. ASSUME "in" \notin mixed PROVE m \notin Complete
        <4>1. k = 0 /\ n # 0 /\ sent = TextLength /\ n = Unread
          BY <2>2, <1>2, <1>8, <1>13, <3>2 DEF Ahead
        <4>2. Whole /\ m \in DOMAIN Widths /\ Unread < Widths[m]
          BY <4>1, <1>6, <1>13, <3>2 DEF Ahead
        <4>3. First[m] = Consumed + 1 /\ Widths[m] \in Nat
          BY <4>2, <1>1, WholeBegins, FirstUnfolds
        <4> HIDE DEF m
        <4>4. First[m] + Widths[m] - 1 > TextLength
          <5>1. Consumed = sent - Unread /\ Unread \in Nat
            BY <4>1, <1>6 DEF Consumed
          <5>2. QED BY <5>1, <4>1, <4>2, <4>3, <1>4
        <4>5. First[m] + Widths[m] - 1 \in Int
          BY <4>2, FirstUnfolds
        <4>6. QED BY <4>4, <4>5, <1>4 DEF Complete
      <3>3. got' = Append(got, x) /\ mixed \subseteq mixed'
            /\ ("in" \notin mixed' =>
                 x = IF Len(got) + 1 \in Complete
                     THEN [j \in 1 .. Widths[Len(got) + 1] |-> First[Len(got) + 1] + j - 1]
                     ELSE <<Bad>>)
        BY <3>2, <2>2, <1>2, <1>8
      <3> HIDE DEF x, m
      <3>4. QED BY <3>1, <3>3, <2>2, <1>1, GotOne
    <2>3. QED BY <2>1, <2>2
  <1>15. ix \in 0 .. n + k
    BY <1>6, <1>8
  <1>16. InTypes'
    <2>1. ix \in 0 .. InSize /\ n + k \in 0 .. InSize /\ ix <= n + k
      BY <1>6, <1>15, <1>4
    <2>2. sent + k \in 0 .. TextLength
      BY <1>2, <1>4, <1>6
    <2>3. QED BY <2>1, <2>2, <1>2, <1>4, <1>7, <1>9, <1>14 DEF InTypes
  <1>17. ASSUME "in" \notin mixed PROVE Consumed' = Consumed + ix /\ Consumed = sent - n
    <2>1. Consumed = sent - n
      BY <1>13, <1>17 DEF Ahead, Consumed
    <2>2. Consumed' = (sent + k) - ((n + k) - ix)
      BY <1>2, <1>9 DEF Consumed, Unread
    <2>3. QED BY <2>1, <2>2, <1>4, <1>6, <1>8
  <1>18. ASSUME "in" \notin mixed PROVE Buffered'
    <2>1. ASSUME NEW i \in ix + 1 .. n + k PROVE b[i] = Consumed + ix + i - ix
      <3>1. i \in 1 .. n + k /\ i \in Int
        BY <1>6, <1>8
      <3>2. CASE i > n
        <4>1. b[i] = sent + i - n
          BY <1>7, <3>1, <3>2
        <4>2. QED BY <4>1, <3>1, <1>4, <1>6, <1>8, <1>17, <1>18
      <3>3. CASE ~(i > n)
        <4>1. b[i] = in.buf[i] /\ i \in 1 .. n
          BY <1>6, <1>7, <3>1, <3>3
        <4>2. in.buf[i] = Consumed + i
          BY <4>1, <1>13, <1>18 DEF Ahead
        <4>3. QED BY <4>1, <4>2, <3>1, <1>4, <1>6, <1>8, <1>17, <1>18
      <3>4. QED BY <3>2, <3>3
    <2>2. QED BY <2>1, <1>9, <1>17, <1>18 DEF Buffered
  <1>19. ASSUME "in" \notin mixed PROVE Consumed' >= 0 /\ (Whole' \/ Past')
    <2>1. Consumed' >= 0
      BY <1>4, <1>6, <1>8, <1>13, <1>17, <1>19
    <2>2. CASE ix = 0
      <3>1. Consumed' = Consumed /\ got' = got
        BY <2>2, <1>4, <1>6, <1>8, <1>17, <1>19
      <3>2. QED BY <2>1, <3>1, <1>13, <1>19 DEF Whole, Past
    <2>3. CASE ix = 1
      <3> DEFINE m == Len(got) + 1
      <3>1. k = 0 /\ n # 0 /\ sent = TextLength /\ n = Unread
        BY <2>3, <1>2, <1>8, <1>13, <1>19 DEF Ahead
      <3>2. Whole /\ m \in DOMAIN Widths /\ Unread < Widths[m]
        BY <3>1, <1>6, <1>13, <1>19 DEF Ahead
      <3>3. First[m] = Consumed + 1 /\ Widths[m] \in Nat
        BY <3>2, <1>1, WholeBegins, FirstUnfolds
      <3>4. First[m] + Widths[m] - 1 > TextLength /\ Consumed' = First[m] /\ First[m] \in Nat /\ m \in Nat /\ Len(got') = m
        <4>1. Consumed = sent - n /\ Consumed' = Consumed + 1
          BY <2>3, <1>17, <1>19
        <4> HIDE DEF m
        <4>2. First[m] + Widths[m] - 1 > TextLength
          BY <4>1, <3>1, <3>2, <3>3, <1>4, <1>6
        <4>3. First[m] \in Nat
          BY <3>2, FirstUnfolds
        <4>4. m \in Nat /\ Len(got') = m
          BY <2>3, <1>4, <1>14 DEF m
        <4>5. QED BY <4>1, <4>2, <4>3, <4>4, <3>3
      <3> HIDE DEF m
      <3>5. ASSUME NEW c \in DOMAIN Widths, c > m PROVE First[c] > TextLength /\ c \notin Complete
        <4>1. First[m] + Widths[m] <= First[c]
          BY <3>2, <3>4, <3>5, FirstAfter, PortsAssumption
        <4>2. First[c] \in Nat /\ Widths[c] \in 1 .. 4
          BY FirstUnfolds
        <4>3. First[c] > TextLength /\ ~(First[c] + Widths[c] - 1 <= TextLength)
          <5>1. PICK u \in Nat, y \in Nat, v \in Nat, z \in Nat :
                   u = First[m] /\ y = Widths[m] /\ v = First[c] /\ z = Widths[c]
            BY <4>2, <3>3, <3>4
          <5>2. PICK q \in Nat : q = TextLength
            BY <1>4
          <5>3. u + y - 1 > q
            BY <5>1, <5>2, <3>4
          <5>4. u + y <= v
            BY <4>1, <5>1
          <5>5. z >= 1
            BY <4>2, <5>1
          <5>6. v > q /\ ~(v + z - 1 <= q)
            BY <5>3, <5>4, <5>5
          <5>7. QED BY <5>1, <5>2, <5>6
        <4>4. QED BY <4>3 DEF Complete
      <3>6. \A c \in DOMAIN Widths : c \in Int /\ c >= 1
        BY PortsAssumption
      <3>7. ASSUME NEW c \in Complete PROVE c \in 1 .. Len(got')
        <4>1. c \in DOMAIN Widths
          BY DEF Complete
        <4>2. c <= m
          BY <4>1, <3>4, <3>5, <3>6
        <4>3. QED BY <4>1, <4>2, <3>4, <3>6
      <3>8. ASSUME NEW c \in DOMAIN Widths PROVE First[c] <= Consumed' \/ First[c] > TextLength
        <4>1. CASE c > m
          BY <4>1, <3>5
        <4>2. CASE c = m
          BY <4>2, <3>4
        <4>3. CASE c < m
          <5>1. First[c] + Widths[c] <= First[m] /\ First[c] \in Nat /\ Widths[c] \in 1 .. 4
            BY <4>3, <3>2, FirstAfter, FirstUnfolds
          <5>2. QED BY <5>1, <3>4
        <4>4. QED BY <4>1, <4>2, <4>3, <3>4, <3>6
      <3>9. Past'
        BY <3>7, <3>8 DEF Past
      <3>10. QED BY <2>1, <3>9
    <2>4. QED BY <2>2, <2>3
  <1>20. QED
    <2>1. ~(a.op = "get" /\ a.at \in {"read", "blocked"})
      BY <1>11
    <2>2. QED BY <2>1, <1>2, <1>3, <1>11, <1>12, <1>14, <1>16, <1>18, <1>19, InStep

\* what get-char and put-u8 promise, of a state of the invariant
LEMMA PortsInvShows ==
  ASSUME PortsInv
  PROVE  BytesInOrder /\ NoneForgotten
  <1>1. NoneForgotten
    BY LoopForgetsNone DEF PortsInv
  <1>2. ASSUME "out" \notin mixed
        PROVE  /\ sink \o SubSeq(out.buf, 1, out.index) = Numbers(accepted)
               /\ out.pos + out.index = accepted
    <2> DEFINE n == out.index
               s == SubSeq(out.buf, 1, n)
    <2>1. /\ n \in Nat /\ n <= OutSize /\ accepted \in Nat /\ OutSize \in Nat
          /\ out.buf \in [1 .. OutSize -> Nat] /\ sink \in Seq(Nat) /\ Len(sink) \in Nat
      BY PortsAssumption DEF PortsInv, OutTypes, OutRange, OutRecord
    <2>2. /\ Len(sink) + n = accepted /\ out.pos + n = accepted
          /\ \A i \in 1 .. Len(sink) : sink[i] = i
          /\ \A i \in 1 .. n : out.buf[i] = Len(sink) + i
      BY <1>2 DEF PortsInv, OutInOrder, OutBytes
    <2>3. s \in Seq(Nat) /\ Len(s) = n /\ \A i \in 1 .. n : s[i] = out.buf[i]
      <3>1. out.buf \in Seq(Nat) /\ Len(out.buf) = OutSize
        BY <2>1
      <3> HIDE DEF n
      <3>2. QED BY <3>1, <2>1
    <2> HIDE DEF s, n
    <2> DEFINE w == sink \o s
    <2>4. w \in Seq(Nat) /\ Len(w) = accepted
      BY <2>1, <2>2, <2>3
    <2>5. \A i \in 1 .. Len(sink) + Len(s) : w[i] = IF i <= Len(sink) THEN sink[i] ELSE s[i - Len(sink)]
      BY <2>1, <2>3
    <2>6. ASSUME NEW i \in 1 .. accepted PROVE w[i] = i
      <3>1. CASE i <= Len(sink)
        <4>1. i \in 1 .. Len(sink) /\ i \in 1 .. Len(sink) + Len(s)
          BY <3>1, <2>1, <2>2, <2>3
        <4> HIDE DEF w
        <4>2. QED BY <4>1, <3>1, <2>2, <2>5
      <3>2. CASE ~(i <= Len(sink))
        <4>1. i - Len(sink) \in 1 .. n /\ i \in 1 .. Len(sink) + Len(s) /\ Len(sink) + (i - Len(sink)) = i
          BY <3>2, <2>1, <2>2, <2>3
        <4> HIDE DEF w
        <4>2. w[i] = s[i - Len(sink)]
          BY <4>1, <3>2, <2>5
        <4>3. QED BY <4>1, <4>2, <2>2, <2>3
      <3>3. QED BY <3>1, <3>2
    <2> HIDE DEF w
    <2>7. w = [i \in 1 .. accepted |-> i]
      <3>1. DOMAIN w = 1 .. accepted /\ w = [i \in DOMAIN w |-> w[i]]
        BY <2>1, <2>4
      <3>2. QED BY <3>1, <2>6
    <2>8. QED BY <2>2, <2>7 DEF w, s, n, Numbers
  <1>3. Written
    BY <1>2 DEF Written
  <1>4. QED BY <1>1, <1>3 DEF BytesInOrder, PortsInv

\* every step of the ports
LEMMA PortsSteps ==
  PortsInv /\ [PortsNext]_ovars => PortsInv'
  <1> SUFFICES ASSUME PortsInv, [PortsNext]_ovars PROVE PortsInv'
    OBVIOUS
  <1>0. LoopInv
    BY DEF PortsInv
  <1>1. CASE Dispatch
    BY <1>1, DispatchKeeps
  <1>2. CASE Select
    <2>1. LoopInv' /\ act' = act /\ UNCHANGED outVars /\ UNCHANGED inVars /\ mixed \subseteq mixed'
      BY <1>0, <1>2, Selects DEF Select
    <2>2. QED BY <2>1, LoopSteps
  <1>3. CASE NextBatch
    <2>1. LoopInv' /\ act' = act /\ UNCHANGED outVars /\ UNCHANGED inVars /\ mixed \subseteq mixed'
      BY <1>0, <1>3, NextBatches DEF NextBatch
    <2>2. QED BY <2>1, LoopSteps
  <1>4. ASSUME NEW t \in Thread, NEW c \in PutSizes, PutBytes(t, c) PROVE PortsInv'
    <2>1. c \in Nat /\ BeginOperation(t, "put", "put", c) /\ "put" \in {"get"} \cup OutOps
      BY <1>4, PortsAssumption DEF PutBytes, OutOps
    <2>2. QED BY <2>1, Begins
  <1>5. ASSUME NEW t \in Thread, Flush(t) \/ CloseOut(t) \/ GetChar(t) PROVE PortsInv'
    <2>1. PICK op \in {"flush", "close", "get"} :
            BeginOperation(t, op, IF op = "get" THEN "get" ELSE "flush", 0)
      BY <1>5 DEF Flush, CloseOut, GetChar
    <2>2. op \in {"get"} \cup OutOps
      BY DEF OutOps
    <2> DEFINE at == IF op = "get" THEN "get" ELSE "flush"
               left == 0
    <2>3. at \in (IF op = "get" THEN {"get"} ELSE {"put", "flush"}) /\ left \in Nat
          /\ BeginOperation(t, op, at, left)
      BY <2>1
    <2> HIDE DEF at, left
    <2>4. QED BY <2>2, <2>3, Begins
  <1>6. ASSUME NEW t \in Thread, Unregister(t) \/ CallbackReturns(t) PROVE PortsInv'
    <2>1. act' = act /\ UNCHANGED outVars /\ UNCHANGED inVars /\ mixed \subseteq mixed'
      BY <1>6 DEF Unregister, CallbackReturns
    <2>2. CASE Unregister(t)
      <3>1. LoopInv'
        BY <1>0, <2>2, Removes DEF Unregister
      <3>2. QED BY <2>1, <3>1, LoopSteps
    <2>3. CASE CallbackReturns(t)
      <3>1. LoopInv'
        BY <1>0, <2>3, Returns
      <3>2. QED BY <2>1, <3>1, LoopSteps
    <2>4. QED BY <1>6, <2>2, <2>3
  <1>7. ASSUME NEW t \in Thread, NEW c \in Callbacks, NEW dir \in {"r", "w"}, Register(t, c, dir)
        PROVE  PortsInv'
    <2>1. LoopInv' /\ act' = act /\ UNCHANGED outVars /\ UNCHANGED inVars /\ mixed \subseteq mixed'
      BY <1>0, <1>7, Registers DEF Register
    <2>2. QED BY <2>1, LoopSteps
  <1>8. CASE UNCHANGED ovars
    <2>1. act' = act /\ UNCHANGED outVars /\ UNCHANGED inVars /\ mixed' = mixed
          /\ UNCHANGED <<running, loopVars>>
      BY <1>8 DEF ovars, outVars, inVars, loopVars
    <2>2. LoopInv'
      BY <1>0, <2>1, LoopStays
    <2>3. QED BY <2>1, <2>2, LoopSteps
  <1>9. CASE PortsNext
    <2>1. \/ Dispatch \/ Select \/ NextBatch
          \/ \E t \in Thread :
               \/ \E c \in PutSizes : PutBytes(t, c)
               \/ Flush(t) \/ CloseOut(t) \/ GetChar(t)
               \/ CloseIn(t) \/ ResetOut(t) \/ ResetIn(t)
               \/ Unregister(t) \/ CallbackReturns(t)
               \/ \E c \in Callbacks, dir \in {"r", "w"} : Register(t, c, dir)
               \/ PutStep(t) \/ FlushStep(t) \/ WriteFails(t) \/ GetStep(t) \/ ReadFails(t)
               \/ \E k \in 0 .. OutSize : WriteOut(t, k)
               \/ \E k \in 0 .. InSize : ReadIn(t, k)
      BY <1>9 DEF PortsNext
    <2>2. CASE Dispatch \/ Select \/ NextBatch
      BY <2>2, <1>1, <1>2, <1>3
    <2>3. ASSUME NEW t \in Thread,
                 \/ \E c \in PutSizes : PutBytes(t, c)
                 \/ Flush(t) \/ CloseOut(t) \/ GetChar(t)
                 \/ CloseIn(t) \/ ResetOut(t) \/ ResetIn(t)
                 \/ Unregister(t) \/ CallbackReturns(t)
                 \/ \E c \in Callbacks, dir \in {"r", "w"} : Register(t, c, dir)
                 \/ PutStep(t) \/ FlushStep(t) \/ WriteFails(t) \/ GetStep(t) \/ ReadFails(t)
                 \/ \E k \in 0 .. OutSize : WriteOut(t, k)
                 \/ \E k \in 0 .. InSize : ReadIn(t, k)
          PROVE  PortsInv'
      <3>1. CASE \E c \in PutSizes : PutBytes(t, c)
        BY <3>1, <1>4
      <3>2. CASE Flush(t) \/ CloseOut(t) \/ GetChar(t)
        BY <3>2, <1>5
      <3>3. CASE CloseIn(t) \/ ResetOut(t) \/ ResetIn(t)
        BY <3>3, CloseInKeeps, ResetOutKeeps, ResetInKeeps
      <3>4. CASE Unregister(t) \/ CallbackReturns(t)
        BY <3>4, <1>6
      <3>5. CASE \E c \in Callbacks, dir \in {"r", "w"} : Register(t, c, dir)
        BY <3>5, <1>7
      <3>6. CASE PutStep(t) \/ FlushStep(t) \/ WriteFails(t)
        BY <3>6, PutStepKeeps, FlushStepKeeps, WriteFailsKeeps
      <3>7. CASE GetStep(t) \/ ReadFails(t)
        BY <3>7, GetStepKeeps, ReadFailsKeeps
      <3>8. CASE \E k \in 0 .. OutSize : WriteOut(t, k)
        BY <3>8, WriteOutKeeps
      <3>9. CASE \E k \in 0 .. InSize : ReadIn(t, k)
        BY <3>9, ReadInKeeps
      <3>10. QED BY <2>3, <3>1, <3>2, <3>3, <3>4, <3>5, <3>6, <3>7, <3>8, <3>9
    <2>4. QED BY <2>1, <2>2, <2>3
  <1>10. QED BY <1>8, <1>9

\* The sockets and the event loop keep the invariant: the types, that each blocked thread
\* waits in one place of the event loop, for its own direction, and that the buffers hold
\* what the indices and the positions say they do.
THEOREM PortsSafe == PortsSpec => []PortsInv
  <1>1. PortsInit => PortsInv
    BY PortsInvInit
  <1>2. PortsInv /\ [PortsNext]_ovars => PortsInv'
    BY PortsSteps
  <1>3. QED BY <1>1, <1>2, PTL DEF PortsSpec

\* Every byte a socket took was put, once and in order, and every character get-char gave
\* is one of the text, whatever the short writes and reads, the errors and the operations
\* that block, for any buffers, any text and any number of callbacks (put-u8, $put-bytevector,
\* flush-output-port, get-char, refill-bv-buffer).
THEOREM BytesKept == PortsSpec => []BytesInOrder
  BY PortsSafe, PortsInvShows, PTL

\* A blocked operation is in one queue of the event loop, once, until process-events goes on
\* with it or rem-io-event takes it out.
THEOREM NoneLeftOut == PortsSpec => []NoneForgotten
  BY PortsSafe, PortsInvShows, PTL

================================================================================
