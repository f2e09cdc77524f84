---------------------------- MODULE ChannelProofs ----------------------------
(***************************************************************************)
(* Proofs about Channel, for every set of webhook requests, any number of  *)
(* messages and callbacks, every page, queue and retry limit.              *)
(***************************************************************************)
EXTENDS Channel, SequenceTheorems, FiniteSetTheorems, TLAPS

Under(s, n) == \A i \in DOMAIN s : s[i] < n
From(s, n) == \A i \in DOMAIN s : n <= s[i]
Before(s, t) == \A i \in DOMAIN s, j \in DOMAIN t : s[i] < t[j]
Increasing(s) == \A m, n \in DOMAIN s : m < n => s[m] < s[n]

Waits == {"off", "idle", "wait"}
Delivers == {"tx", "limiter", "send", "room"}
Task == [at : Waits \cup Delivers, batch : Seq(Nat)]
Callback == [n : Nat, of : Tasks, at : {"called", "asking", "got"}, offset : Nat, batch : Seq(Nat), awaited : BOOLEAN]
Phases == {"new", "starting", "running", "refused", "closing", "clearing", "closed"}

Connections ==
    [at : {"off", "check", "connect", "pause", "open", "ended"}, attempt : Nat,
     sent : BOOLEAN, ready : BOOLEAN, done : BOOLEAN, missed : Nat]

\* A connection within its limits, whose handshake is complete when it may be.
Fine(c) ==
    /\ c \in Connections /\ c.attempt <= MaxRetries /\ c.missed <= MaxMissed
    /\ c.at \in {"off", "check", "connect", "pause"} => ~c.ready
    /\ faults = {} /\ (IF kind = "gateway" THEN c.ready ELSE c.sent) => c.done

\* There is one once a channel with a broker has started.
ConnOK ==
    /\ Fine(conn)
    /\ ~HasBroker \/ phase \in {"new", "starting"} => conn.at = "off"

ShapeOK ==
    /\ kind \in {"poll", "web", "gateway", "socket"} /\ phase \in Phases /\ stop \in BOOLEAN
    /\ tx \in {"none", "open", "gone"}
    /\ inbox \in Seq(Nat) /\ taken \in Seq(Nat) /\ queue \in Seq(Nat)
    /\ Len(inbox) <= InboxSize /\ Len(queue) <= QueueSize
    /\ task \in [Tasks -> Task]
    /\ request \in [Requests -> [ids : Seq(Nat), status : {"new", "asked", "ok", "error"}]]
    /\ calls \subseteq Callback
    /\ offset \in Nat /\ confirmed \in Nat /\ called \in Nat /\ posted \in Nat

\* The locks: one task sends at a time, and only while there is a sender.
LockInv ==
    /\ \A e, f \in Tasks : task[e].at \in {"send", "room"} /\ task[f].at \in {"send", "room"} => e = f
    /\ \A e \in Tasks : Reading(e) => tx # "none"

\* A task has a batch only while it delivers, and waits for one callback, its own.
CallInv ==
    /\ \A e \in Tasks : /\ task[e].at \in Waits => task[e].batch = <<>>
                        /\ task[e].at = "room" => task[e].batch # <<>>
    /\ \A c \in calls : c.awaited => task[c.of].at = "wait"
    /\ \A c, d \in calls : c.awaited /\ d.awaited /\ c.of = d.of => c = d
    /\ kind # "web" => /\ \A r \in Requests : task[r].at = "off"
                       /\ \A c \in calls : c.of = "loop"
    /\ kind # "poll" => \A c \in calls : c.at = "got"
    /\ phase \in {"new", "starting"} => task["loop"].at = "off"

\* Where the messages of a webhook request are.
Reached == ToSet(taken) \cup ToSet(inbox)
Due(r) == ToSet(Prefix(request[r].ids, MaxEmits))
Proper(r) ==
    /\ task[r].at # "idle"
    /\ task[r].at # "off" => request[r].status = "asked"
    /\ request[r].status # "new" => request[r].ids # <<>>
    /\ task[r].at \in Delivers => Due(r) \subseteq Reached \cup ToSet(task[r].batch)
    /\ \A c \in calls : c.of = r /\ c.awaited => c.batch = request[r].ids
    /\ request[r].status = "ok" => Due(r) \subseteq Reached \/ "nosender" \in faults
RequestInv == \A r \in Requests : Proper(r)

\* Nobody knows of messages that the platform does not have.
BoundInv ==
    /\ offset <= posted + 1 /\ confirmed <= posted + 1
    /\ Under(queue, posted + 1)
    /\ \A c \in calls : c.offset <= posted + 1 /\ Under(c.batch, posted + 1)
    /\ \A r \in Requests : Under(request[r].ids, posted + 1)

\* A poll works above the saved offset, all that has arrived lies below it.
PollOrder ==
    /\ Increasing(Arrived) /\ Under(Arrived, offset)
    /\ \A c \in calls : /\ c.awaited
                        /\ IF c.at = "called" THEN c.batch = <<>> ELSE c.offset = offset
                        /\ Increasing(c.batch) /\ From(c.batch, offset)

\* What has arrived, what a callback works on and what is queued follow each other.
QueueOrder ==
    /\ Increasing(Arrived) /\ Increasing(queue)
    /\ Before(Arrived, queue) /\ Under(Arrived, posted + 1)
    /\ \A c \in calls : c.awaited => Increasing(c.batch) /\ Before(Arrived, c.batch) /\ Before(c.batch, queue)

OrderInv ==
    /\ kind = "poll" /\ "timeout" \notin faults => PollOrder
    /\ HasBroker => QueueOrder

\* Without a fault a poll has a page that starts at the saved offset, or nothing,
\* and a dispatch has one event.
First == IF offset = 0 THEN 1 ELSE offset
GapInv ==
    faults = {} /\ kind # "web" =>
        /\ kind = "poll" => confirmed <= offset
        /\ \A c \in calls : /\ c.awaited
                            /\ Len(c.batch) <= MaxEmits
                            /\ kind = "poll" => \A i \in DOMAIN c.batch : c.batch[i] = First + i - 1
        /\ NoGaps

IInv == ShapeOK /\ ConnOK /\ LockInv /\ CallInv /\ RequestInv /\ BoundInv /\ OrderInv /\ GapInv

-----------------------------------------------------------------------------
(* Sequences of message numbers.                                           *)

\* A concatenation, position by position.
LEMMA Joined ==
    ASSUME NEW s \in Seq(Nat), NEW t \in Seq(Nat)
    PROVE  /\ s \o t \in Seq(Nat) /\ Len(s \o t) = Len(s) + Len(t)
           /\ DOMAIN s = 1 .. Len(s) /\ DOMAIN t = 1 .. Len(t) /\ DOMAIN (s \o t) = 1 .. Len(s) + Len(t)
           /\ Len(s) \in Nat /\ Len(t) \in Nat
           /\ \A i \in DOMAIN s : (s \o t)[i] = s[i] /\ s[i] \in Nat
           /\ \A j \in DOMAIN t : (s \o t)[Len(s) + j] = t[j] /\ t[j] \in Nat
           /\ \A k \in DOMAIN (s \o t) : k \in DOMAIN s \/ (k - Len(s) \in DOMAIN t /\ k = Len(s) + (k - Len(s)))
  BY ConcatProperties, LenProperties

\* What has the same elements at the same places is the same.
LEMMA SameSeq ==
    ASSUME NEW s \in Seq(Nat), NEW t \in Seq(Nat), Len(s) = Len(t), \A i \in 1 .. Len(s) : s[i] = t[i]
    PROVE  s = t
  BY SeqEqual

\* Concatenation is associative.
LEMMA Regroup == \A s, t, u \in Seq(Nat) : (s \o t) \o u = s \o (t \o u)
  BY ConcatAssociative, SMTT(30), ZenonT(30)

\* Of an order that holds for a whole, a part keeps its own.
LEMMA PartKeepsOrder ==
    ASSUME NEW s \in Seq(Nat), NEW t \in Seq(Nat)
    PROVE  /\ Increasing(s \o t) => Increasing(s)
           /\ \A n \in Nat : Under(s \o t, n) => Under(s, n)
           /\ \A u : Before(s \o t, u) => Before(s, u)
<1> DEFINE w == s \o t
<1>1. \A i \in DOMAIN s : i \in DOMAIN w /\ w[i] = s[i] /\ i \in Nat
  BY Joined
<1> HIDE DEF w
<1>2. /\ Increasing(w) => Increasing(s)
      /\ \A n \in Nat : Under(w, n) => Under(s, n)
      /\ \A u : Before(w, u) => Before(s, u)
  BY <1>1 DEF Increasing, Under, Before
<1> QED BY <1>2 DEF w

\* Two parts that follow each other make an ordered whole.
LEMMA WholeIsOrdered ==
    ASSUME NEW s \in Seq(Nat), NEW t \in Seq(Nat)
    PROVE  /\ Increasing(s) /\ Increasing(t) /\ Before(s, t) => Increasing(s \o t)
           /\ \A n \in Nat : Under(s, n) /\ Under(t, n) => Under(s \o t, n)
           /\ \A u : Before(s, u) /\ Before(t, u) => Before(s \o t, u)
<1> DEFINE w == s \o t
<1>1. \A k \in DOMAIN w : \/ k \in DOMAIN s /\ w[k] = s[k]
                          \/ k - Len(s) \in DOMAIN t /\ w[k] = t[k - Len(s)]
  BY Joined
<1>2. DOMAIN s = 1 .. Len(s) /\ DOMAIN t = 1 .. Len(t) /\ Len(s) \in Nat /\ DOMAIN w \subseteq Nat
      /\ DOMAIN t \subseteq Nat
  BY Joined
<1> HIDE DEF w
<1>3. ASSUME Increasing(s), Increasing(t), Before(s, t) PROVE Increasing(w)
  <2> SUFFICES ASSUME NEW m \in DOMAIN w, NEW n \in DOMAIN w, m < n PROVE w[m] < w[n]
    BY DEF Increasing
  <2>1. CASE m \in DOMAIN s /\ w[m] = s[m] /\ n \in DOMAIN s /\ w[n] = s[n]
    BY <1>3, <2>1 DEF Increasing
  <2>2. CASE m \in DOMAIN s /\ w[m] = s[m] /\ n - Len(s) \in DOMAIN t /\ w[n] = t[n - Len(s)]
    BY <1>3, <2>2 DEF Before
  <2>3. CASE m - Len(s) \in DOMAIN t /\ w[m] = t[m - Len(s)] /\ n - Len(s) \in DOMAIN t /\ w[n] = t[n - Len(s)]
    <3>1. m - Len(s) < n - Len(s)
      BY <1>2
    <3> QED BY <1>3, <2>3, <3>1 DEF Increasing
  <2>4. CASE m - Len(s) \in DOMAIN t /\ n \in DOMAIN s
    BY <1>2, <2>4
  <2> QED BY <1>1, <2>1, <2>2, <2>3, <2>4
<1>4. \A n \in Nat : Under(s, n) /\ Under(t, n) => Under(w, n)
  BY <1>1 DEF Under
<1>5. \A u : Before(s, u) /\ Before(t, u) => Before(w, u)
  BY <1>1 DEF Before
<1> QED BY <1>3, <1>4, <1>5 DEF w

\* Moving the head of the second sequence to the end of the first.
LEMMA HeadMoves ==
    ASSUME NEW s \in Seq(Nat), NEW t \in Seq(Nat), t # <<>>
    PROVE  /\ Append(s, Head(t)) \in Seq(Nat) /\ Tail(t) \in Seq(Nat)
           /\ Append(s, Head(t)) \o Tail(t) = s \o t
<1>1. Append(s, Head(t)) \in Seq(Nat) /\ Tail(t) \in Seq(Nat) /\ Len(t) >= 1
  OBVIOUS
<1> DEFINE a == Append(s, Head(t))
           b == Tail(t)
<1>2. Len(a) = Len(s) + 1 /\ Len(b) = Len(t) - 1
      /\ (\A i \in 1 .. Len(s) : a[i] = s[i]) /\ a[Len(s) + 1] = t[1] /\ \A j \in 1 .. Len(t) - 1 : b[j] = t[j + 1]
  BY <1>1
<1>3. Len(a \o b) = Len(s \o t) /\ Len(s) \in Nat /\ Len(t) \in Nat
  BY <1>1, <1>2, Joined
<1>4. ASSUME NEW i \in 1 .. Len(s \o t) PROVE (a \o b)[i] = (s \o t)[i]
  <2>1. CASE i \in 1 .. Len(s)
    BY <1>1, <1>2, <2>1
  <2>2. CASE i = Len(s) + 1
    BY <1>1, <1>2, <2>2
  <2>3. CASE i > Len(s) + 1
    BY <1>1, <1>2, <2>3
  <2> QED BY <1>3, <2>1, <2>2, <2>3
<1> HIDE DEF a, b
<1>5. a \o b = s \o t
  BY <1>1, <1>3, <1>4, SameSeq, ConcatProperties DEF a, b
<1> QED BY <1>1, <1>5 DEF a, b

\* The elements of a concatenation, of a longer and of a shorter sequence.
LEMMA Elements ==
    ASSUME NEW s \in Seq(Nat), NEW t \in Seq(Nat)
    PROVE  /\ ToSet(s \o t) = ToSet(s) \cup ToSet(t)
           /\ ToSet(<<>>) = {}
           /\ \A x \in Nat : ToSet(Append(s, x)) = ToSet(s) \cup {x}
           /\ t # <<>> => ToSet(t) = {Head(t)} \cup ToSet(Tail(t))
<1>0. DOMAIN s = 1 .. Len(s) /\ DOMAIN t = 1 .. Len(t) /\ Len(s) \in Nat /\ Len(t) \in Nat
  BY LenProperties
<1>1. ToSet(s \o t) = ToSet(s) \cup ToSet(t)
  <2> DEFINE w == s \o t
  <2>1. /\ \A i \in DOMAIN s : i \in DOMAIN w /\ w[i] = s[i]
        /\ \A j \in DOMAIN t : Len(s) + j \in DOMAIN w /\ w[Len(s) + j] = t[j]
        /\ \A k \in DOMAIN w : (k \in DOMAIN s /\ w[k] = s[k]) \/ (k - Len(s) \in DOMAIN t /\ w[k] = t[k - Len(s)])
    BY <1>0, Joined
  <2> HIDE DEF w
  <2>2. ToSet(w) = ToSet(s) \cup ToSet(t)
    BY <2>1 DEF ToSet
  <2> QED BY <2>2 DEF w
<1>2. ToSet(<<>>) = {}
  BY DEF ToSet
<1>3. ASSUME NEW x \in Nat PROVE ToSet(Append(s, x)) = ToSet(s) \cup {x}
  <2> DEFINE w == Append(s, x)
  <2>1. DOMAIN w = 1 .. Len(s) + 1 /\ w[Len(s) + 1] = x /\ \A i \in DOMAIN s : w[i] = s[i]
    BY <1>0
  <2> HIDE DEF w
  <2>2. \A i \in DOMAIN w : i \in DOMAIN s \/ i = Len(s) + 1
    BY <1>0, <2>1
  <2>3. \A i \in DOMAIN s : i \in DOMAIN w /\ w[i] = s[i]
    BY <1>0, <2>1
  <2>4. ToSet(s) \cup {x} \subseteq ToSet(w)
    <3>1. Len(s) + 1 \in DOMAIN w /\ w[Len(s) + 1] = x
      BY <1>0, <2>1
    <3> QED BY <3>1, <2>3 DEF ToSet
  <2>5. ToSet(w) \subseteq ToSet(s) \cup {x}
    BY <2>1, <2>2, <2>3 DEF ToSet
  <2>6. ToSet(w) = ToSet(s) \cup {x}
    BY <2>4, <2>5
  <2> QED BY <2>6 DEF w
<1>4. ASSUME t # <<>> PROVE ToSet(t) = {Head(t)} \cup ToSet(Tail(t))
  <2> DEFINE w == Tail(t)
  <2>1. w \in Seq(Nat) /\ Len(w) = Len(t) - 1 /\ Len(t) >= 1 /\ Head(t) = t[1] /\ DOMAIN w = 1 .. Len(t) - 1
    BY <1>4
  <2>2. \A j \in 1 .. Len(t) - 1 : w[j] = t[j + 1]
    BY <1>4
  <2> HIDE DEF w
  <2>3. /\ \A i \in DOMAIN t : i = 1 \/ (i - 1 \in DOMAIN w /\ t[i] = w[i - 1])
        /\ \A j \in DOMAIN w : j + 1 \in DOMAIN t /\ t[j + 1] = w[j]
        /\ 1 \in DOMAIN t
    BY <1>0, <2>1, <2>2, SMTT(30), ZenonT(30)
  <2>4. /\ \A i \in DOMAIN t : t[i] = t[1] \/ \E j \in DOMAIN w : t[i] = w[j]
        /\ \A j \in DOMAIN w : \E i \in DOMAIN t : t[i] = w[j]
    BY <2>3
  <2>5. ToSet(t) = {t[1]} \cup ToSet(w)
    <3>1. ASSUME NEW x PROVE x \in ToSet(t) <=> x = t[1] \/ x \in ToSet(w)
      <4>1. (x \in ToSet(t) <=> \E i \in DOMAIN t : x = t[i]) /\ (x \in ToSet(w) <=> \E j \in DOMAIN w : x = w[j])
        BY DEF ToSet
      <4> QED BY <2>3, <2>4, <4>1
    <3> QED BY <3>1
  <2> QED BY <2>1, <2>5 DEF w
<1> QED BY <1>1, <1>2, <1>3, <1>4

\* A prefix, and an order of the whole that it keeps.
LEMMA PrefixFacts ==
    ASSUME NEW s \in Seq(Nat), NEW n \in Nat
    PROVE  /\ Prefix(s, n) \in Seq(Nat) /\ Len(Prefix(s, n)) <= n /\ Len(Prefix(s, n)) <= Len(s)
           /\ DOMAIN Prefix(s, n) \subseteq DOMAIN s
           /\ \A i \in DOMAIN Prefix(s, n) : Prefix(s, n)[i] = s[i]
           /\ Len(s) <= n => Prefix(s, n) = s
           /\ Increasing(s) => Increasing(Prefix(s, n))
           /\ \A k \in Nat : Under(s, k) => Under(Prefix(s, n), k)
           /\ \A u : (Before(s, u) => Before(Prefix(s, n), u)) /\ (Before(u, s) => Before(u, Prefix(s, n)))
<1> DEFINE m == IF Len(s) < n THEN Len(s) ELSE n
           p == Prefix(s, n)
<1>1. m \in Nat /\ m <= n /\ m <= Len(s) /\ (Len(s) <= n => m = Len(s)) /\ p = SubSeq(s, 1, m)
  BY DEF Prefix
<1>2. p \in Seq(Nat) /\ Len(p) = m /\ DOMAIN p = 1 .. m /\ DOMAIN s = 1 .. Len(s) /\ \A i \in 1 .. m : p[i] = s[i]
  BY <1>1
<1> HIDE DEF p, m
<1>3. Len(s) <= n => p = s
  BY <1>1, <1>2, SameSeq
<1>4. Len(p) <= n /\ Len(p) <= Len(s) /\ DOMAIN p \subseteq DOMAIN s /\ \A i \in DOMAIN p : p[i] = s[i]
  <2>1. Len(s) \in Nat /\ \A i \in 1 .. m : i \in 1 .. Len(s)
    BY <1>1, LenProperties
  <2> QED BY <1>1, <1>2, <2>1
<1>5. /\ Increasing(s) => Increasing(p)
      /\ \A k \in Nat : Under(s, k) => Under(p, k)
      /\ \A u : (Before(s, u) => Before(p, u)) /\ (Before(u, s) => Before(u, p))
  BY <1>4 DEF Increasing, Under, Before
<1> QED BY <1>2, <1>3, <1>4, <1>5 DEF p

-----------------------------------------------------------------------------
(* Steps, and what they leave alone.                                       *)

\* Everything but the life of the channel and the state of the connection.
Traffic == <<kind, taken, inbox, task, request, guest, posted, queue, faults>>

Quiet ==
    \/ Start \/ StartFails \/ AgentLeaves \/ Shutdown \/ ShutdownQueues \/ ShutdownClears
    \/ ConnCheck \/ Connect \/ Pause \/ ConnStops \/ Closed \/ Ack \/ Hello \/ Heartbeat

\* The quiet steps change nothing of the traffic.
LEMMA QuietFacts == Quiet => UNCHANGED Traffic
<1>1. Start \/ StartFails \/ AgentLeaves \/ Shutdown \/ ShutdownQueues \/ ShutdownClears => UNCHANGED Traffic
  BY DEF Start, StartFails, AgentLeaves, Shutdown, ShutdownQueues, ShutdownClears, Traffic, delivery, guest, broker
<1>2. \A c : ConnStep(c) => UNCHANGED Traffic
  BY DEF ConnStep, Traffic, channel, delivery, guest
<1>3. ConnCheck \/ Connect \/ Pause \/ ConnStops \/ Closed \/ Ack \/ Hello \/ Heartbeat => \E c : ConnStep(c)
  BY Zenon DEF ConnCheck, Connect, Pause, ConnStops, Closed, Ack, Hello, Heartbeat
<1> QED BY <1>1, <1>2, <1>3 DEF Quiet

\* The other steps, one by one.
Busy ==
    \/ StartEnds \/ AgentTakes \/ Post \/ PollTick \/ PollStops
    \/ (\E r \in Requests : Request(r))
    \/ (\E c \in calls : GuestReads(c) \/ GuestFetches(c) \/ Returns(c) \/ Traps(c) \/ TimesOut(c))
    \/ (\E e \in Tasks : ReadTx(e) \/ LockLimiter(e) \/ Limited(e) \/ Admitted(e) \/ Sends(e) \/ Dispatched(e))
    \/ TakeEvent \/ DispatchStops \/ DispatchAborted \/ Ready \/ Event

\* Every step is one of the two.
LEMMA StepKinds == Next => Quiet \/ Busy
  BY Zenon DEF Next, Lifecycle, Guest, Deliver, Connection, Server, Quiet, Busy

\* The kind of a channel is fixed, and what has gone wrong is not forgotten.
LEMMA KindStays == [Next]_vars => kind' = kind /\ faults \subseteq faults'
<1>1. Quiet \/ UNCHANGED vars => kind' = kind /\ faults \subseteq faults'
  BY QuietFacts DEF Traffic, vars, channel
<1>2. ASSUME NEW c, GuestReads(c) \/ GuestFetches(c) \/ Returns(c) \/ Traps(c) \/ TimesOut(c)
      PROVE  kind' = kind /\ faults \subseteq faults'
  BY <1>2 DEF GuestReads, GuestFetches, Returns, Traps, TimesOut, Fault, channel
<1>3. ASSUME NEW e, ReadTx(e) \/ LockLimiter(e) \/ Limited(e) \/ Admitted(e) \/ Sends(e) \/ Dispatched(e)
      PROVE  kind' = kind /\ faults \subseteq faults'
  BY <1>3 DEF ReadTx, LockLimiter, Limited, Admitted, Sends, Dispatched, Fault, channel
<1>4. ASSUME StartEnds \/ AgentTakes \/ Post \/ PollTick \/ PollStops \/ \E r \in Requests : Request(r)
      PROVE  kind' = kind /\ faults \subseteq faults'
  BY <1>4 DEF StartEnds, AgentTakes, Post, PollTick, PollStops, Request, channel
<1>5. ASSUME TakeEvent \/ DispatchStops \/ DispatchAborted \/ Ready \/ Event
      PROVE  kind' = kind /\ faults \subseteq faults'
  BY <1>5 DEF TakeEvent, DispatchStops, DispatchAborted, Ready, Event, ConnStep, Fault, channel
<1> QED BY <1>1, <1>2, <1>3, <1>4, <1>5, StepKinds DEF Busy

-----------------------------------------------------------------------------
(* The connection.                                                         *)

\* What becomes of a connection that failed.
LEMMA FineRetry ==
    ASSUME NEW c, Fine(c)
    PROVE  Fine(Retry(c))
<1>1. MaxRetries \in Nat /\ MaxMissed \in Nat /\ c.attempt \in Nat
  BY ChannelAssumption DEF Fine, Connections
<1>2. CASE c.attempt + 1 > MaxRetries
  <2>1. Retry(c) = [at |-> "ended", attempt |-> 0, sent |-> FALSE, ready |-> FALSE, done |-> FALSE, missed |-> 0]
    BY <1>2 DEF Retry, NoConn
  <2> QED BY <1>1, <2>1 DEF Fine, Connections
<1>3. CASE ~(c.attempt + 1 > MaxRetries)
  <2>1. Retry(c) = [at |-> "pause", attempt |-> c.attempt + 1, sent |-> FALSE, ready |-> FALSE, done |-> FALSE, missed |-> 0]
    BY <1>3 DEF Retry, NoConn
  <2> QED BY <1>1, <1>3, <2>1 DEF Fine, Connections
<1> QED BY <1>2, <1>3

\* The connection keeps its limits, through every retry.
LEMMA ConnStepOK == ConnOK /\ CallInv /\ ShapeOK /\ [Next]_vars => ConnOK'
<1> SUFFICES ASSUME ConnOK, CallInv, ShapeOK, [Next]_vars PROVE ConnOK'
  OBVIOUS
<1>0. Fine(conn) /\ kind \in {"poll", "web", "gateway", "socket"}
  BY DEF ConnOK, ShapeOK
<1>1. kind' = kind /\ (faults' = {} => faults = {})
  BY KindStays
<1>2. ASSUME NEW c, Fine(c), conn' = c, (conn.at # "off" /\ phase' = phase) \/ (HasBroker /\ phase' = "running")
      PROVE  ConnOK'
  <2>1. Fine(conn)'
    BY <1>1, <1>2 DEF Fine, Connections
  <2> QED BY <1>1, <1>2, <2>1 DEF ConnOK, HasBroker
<1>3. CASE conn' = conn /\ (phase' = phase \/ phase = "new" \/ phase' \notin {"new", "starting"})
  BY <1>0, <1>1, <1>3 DEF Fine, Connections, ConnOK, HasBroker
<1>4. \A c : ConnStep(c) => conn' = c /\ phase' = phase
  BY DEF ConnStep, channel
<1>5. CASE ConnCheck
  BY <1>0, <1>2, <1>4, <1>5 DEF ConnCheck, Fine, Connections
<1>6. CASE Connect
  <2> DEFINE open == [conn EXCEPT !.at = "open", !.attempt = 0, !.sent = kind = "socket", !.done = kind = "socket"]
  <2>1. conn.at # "off"
    BY <1>6 DEF Connect
  <2>2. Fine(Retry(conn))
    BY <1>0, FineRetry
  <2>3. CASE ConnStep(Retry(conn))
    BY <1>2, <1>4, <2>1, <2>2, <2>3
  <2>6. Fine(open)
    <3>1. /\ open \in Connections /\ open.at = "open" /\ open.attempt = 0 /\ open.missed = conn.missed
      BY <1>0 DEF Fine, Connections
    <3>2. /\ open.sent = (kind = "socket") /\ open.done = (kind = "socket") /\ open.ready = conn.ready
      BY <1>0 DEF Fine, Connections
    <3>3. conn.missed <= MaxMissed /\ 0 <= MaxRetries /\ ~conn.ready
      BY <1>0, <1>6, ChannelAssumption DEF Fine, Connect
    <3> HIDE DEF open
    <3> QED BY <3>1, <3>2, <3>3 DEF Fine
  <2>4. CASE ConnStep(open)
    BY <1>2, <1>4, <2>1, <2>4, <2>6
  <2>5. CASE kind = "socket" /\ ConnStep(Retry(open))
    <3>2. Fine(Retry(open))
      BY <2>6, FineRetry
    <3> HIDE DEF open
    <3> QED BY <1>2, <1>4, <2>1, <2>5, <3>2
  <2> QED BY <1>6, <2>3, <2>4, <2>5 DEF Connect
<1>7. CASE Pause \/ ConnStops
  BY <1>0, <1>2, <1>4, <1>7 DEF Pause, ConnStops, Fine, Connections
<1>8. CASE Closed
  BY <1>0, <1>2, <1>4, <1>8, FineRetry DEF Closed
<1>9. CASE Ack
  BY <1>0, <1>2, <1>4, <1>9, ChannelAssumption DEF Ack, Fine, Connections
<1>10. CASE Heartbeat
  <2>1. CASE conn.missed + 1 > MaxMissed
    BY <1>0, <1>2, <1>4, <1>10, <2>1, FineRetry DEF Heartbeat
  <2>2. CASE ~(conn.missed + 1 > MaxMissed)
    BY <1>0, <1>2, <1>4, <1>10, <2>2, ChannelAssumption DEF Heartbeat, Fine, Connections
  <2> QED BY <2>1, <2>2
<1>11. CASE Hello
  <2>1. CASE ConnStep(Retry(conn))
    BY <1>0, <1>2, <1>4, <1>11, <2>1, FineRetry DEF Hello
  <2>2. CASE ConnStep([conn EXCEPT !.sent = TRUE])
    <3> DEFINE sent == [conn EXCEPT !.sent = TRUE]
    <3>1. sent \in Connections /\ sent.at = conn.at /\ sent.attempt = conn.attempt /\ sent.missed = conn.missed
          /\ sent.ready = conn.ready /\ sent.done = conn.done
      BY <1>0 DEF Fine, Connections
    <3>2. conn' = sent /\ phase' = phase /\ conn.at = "open" /\ kind = "gateway"
      BY <1>4, <1>11, <2>2 DEF Hello
    <3> HIDE DEF sent
    <3>3. Fine(sent)
      BY <1>0, <3>1, <3>2 DEF Fine
    <3> QED BY <1>2, <3>2, <3>3
  <2> QED BY <1>11, <2>1, <2>2 DEF Hello
<1>12. CASE Ready
  <2>1. CASE ConnStep([conn EXCEPT !.ready = TRUE, !.done = TRUE])
    <3> DEFINE ready == [conn EXCEPT !.ready = TRUE, !.done = TRUE]
    <3>1. ready \in Connections /\ ready.at = conn.at /\ ready.attempt = conn.attempt /\ ready.missed = conn.missed
      BY <1>0 DEF Fine, Connections
    <3>2. ready.done
      BY <1>0 DEF Fine, Connections
    <3>3. conn' = ready /\ phase' = phase /\ conn.at = "open"
      BY <1>4, <1>12, <2>1 DEF Ready
    <3> HIDE DEF ready
    <3>4. Fine(ready)
      BY <1>0, <3>1, <3>2, <3>3 DEF Fine
    <3> QED BY <1>2, <3>3, <3>4
  <2>2. CASE conn' = [conn EXCEPT !.ready = TRUE] /\ Fault("size")
    <3> DEFINE ready == [conn EXCEPT !.ready = TRUE]
    <3>1. ready \in Connections /\ ready.at = conn.at /\ ready.attempt = conn.attempt /\ ready.missed = conn.missed
      BY <1>0 DEF Fine, Connections
    <3>2. conn' = ready /\ conn.at = "open" /\ kind = "gateway" /\ faults' # {}
      BY <1>12, <2>2 DEF Ready, Fault
    <3>3. phase' = phase
      BY <1>4, <1>12 DEF Ready, channel
    <3> HIDE DEF ready
    <3>4. Fine(conn)'
      BY <1>0, <3>1, <3>2 DEF Fine, Connections
    <3> QED BY <1>1, <3>1, <3>2, <3>3, <3>4 DEF ConnOK, HasBroker
  <2> QED BY <1>12, <2>1, <2>2 DEF Ready
<1>13. CASE Event
  <2>1. CASE conn' = [conn EXCEPT !.done = TRUE]
    <3> DEFINE done == [conn EXCEPT !.done = TRUE]
    <3>1. done \in Connections /\ done.at = conn.at /\ done.attempt = conn.attempt /\ done.missed = conn.missed
          /\ done.ready = conn.ready
      BY <1>0 DEF Fine, Connections
    <3>2. done.done
      BY <1>0 DEF Fine, Connections
    <3>3. conn' = done /\ phase' = phase /\ conn.at = "open"
      BY <1>13, <2>1 DEF Event, channel
    <3> HIDE DEF done
    <3>4. Fine(done)
      BY <1>0, <3>1, <3>2, <3>3 DEF Fine
    <3> QED BY <1>2, <3>3, <3>4
  <2>2. conn' = conn \/ conn' = [conn EXCEPT !.done = TRUE]
    BY <1>13 DEF Event
  <2>3. phase' = phase
    BY <1>13 DEF Event, channel
  <2> QED BY <1>3, <2>1, <2>2, <2>3
<1>14. CASE StartEnds
  <2>1. CASE ~HasBroker
    BY <1>3, <1>14, <2>1 DEF StartEnds
  <2>2. CASE HasBroker
    <3>1. conn.at = "off" /\ phase' = "running" /\ conn' = [conn EXCEPT !.at = "check"]
      BY <1>14, <2>2 DEF StartEnds, ConnOK
    <3>2. Fine([conn EXCEPT !.at = "check"])
      BY <1>0, <3>1 DEF Fine, Connections
    <3> QED BY <1>2, <2>2, <3>1, <3>2
  <2> QED BY <2>1, <2>2
<1>15. CASE DispatchStops
  <2>1. Fine([conn EXCEPT !.at = "ended"])
    BY <1>0 DEF Fine, Connections
  <2>2. phase' = phase /\ HasBroker /\ phase \notin {"new", "starting"} /\ conn' = [conn EXCEPT !.at = "ended"]
    BY <1>15 DEF DispatchStops, CallInv, channel
  <2>3. Fine(conn)'
    BY <1>1, <2>1, <2>2 DEF Fine, Connections
  <2> QED BY <1>1, <2>2, <2>3 DEF ConnOK, HasBroker
<1>16. CASE UNCHANGED vars \/ Start \/ StartFails \/ AgentLeaves \/ Shutdown \/ ShutdownQueues \/ ShutdownClears
  BY <1>3, <1>16 DEF vars, channel, broker, Start, StartFails, AgentLeaves, Shutdown, ShutdownQueues, ShutdownClears
<1>17. CASE AgentTakes \/ Post \/ PollTick \/ PollStops \/ TakeEvent \/ DispatchAborted \/ \E r \in Requests : Request(r)
  BY <1>3, <1>17 DEF channel, broker, AgentTakes, Post, PollTick, PollStops, TakeEvent, DispatchAborted, Request
<1>18. ASSUME NEW c, GuestReads(c) \/ GuestFetches(c) \/ Returns(c) \/ Traps(c) \/ TimesOut(c) PROVE ConnOK'
  BY <1>3, <1>18 DEF channel, broker, GuestReads, GuestFetches, Returns, Traps, TimesOut
<1>19. ASSUME NEW e, ReadTx(e) \/ LockLimiter(e) \/ Limited(e) \/ Admitted(e) \/ Sends(e) \/ Dispatched(e) PROVE ConnOK'
  BY <1>3, <1>19 DEF channel, broker, ReadTx, LockLimiter, Limited, Admitted, Sends, Dispatched
<1> QED BY <1>5, <1>6, <1>7, <1>8, <1>9, <1>10, <1>11, <1>12, <1>13, <1>14, <1>15, <1>16, <1>17, <1>18, <1>19,
           StepKinds DEF Quiet, Busy

-----------------------------------------------------------------------------
(* Types and capacities.                                                   *)

\* Numbers in a row.
LEMMA IdsFacts ==
    ASSUME NEW a \in Nat, NEW b \in Nat, a <= b + 1, a >= 1
    PROVE  /\ Ids(a, b) \in Seq(Nat) /\ Len(Ids(a, b)) = (b + 1) - a
           /\ DOMAIN Ids(a, b) = 1 .. (b + 1) - a
           /\ \A i \in 1 .. (b + 1) - a : Ids(a, b)[i] = a + i - 1
<1>1. (b + 1) - a \in Nat /\ \A i \in 1 .. (b + 1) - a : a + i - 1 \in Nat
  OBVIOUS
<1>2. Ids(a, b) \in [1 .. (b + 1) - a -> Nat]
  BY <1>1 DEF Ids
<1>3. Ids(a, b) \in Seq(Nat)
  BY <1>1, <1>2, SeqDef
<1>4. DOMAIN Ids(a, b) = 1 .. (b + 1) - a /\ \A i \in 1 .. (b + 1) - a : Ids(a, b)[i] = a + i - 1
  BY DEF Ids
<1>5. Len(Ids(a, b)) = (b + 1) - a
  BY <1>1, <1>3, <1>4
<1> QED BY <1>3, <1>4, <1>5

\* The larger of numbers.
LEMMA MaxFacts ==
    ASSUME NEW a \in Nat, NEW b \in Nat
    PROVE  /\ Max({a, b}) \in {a, b} /\ a <= Max({a, b}) /\ b <= Max({a, b})
           /\ \A c \in Nat : Max({c, a, b}) \in {a, b, c} /\ a <= Max({c, a, b}) /\ b <= Max({c, a, b}) /\ c <= Max({c, a, b})
<1>1. \E x \in {a, b} : \A y \in {a, b} : x >= y
  <2>1. CASE a >= b
    BY <2>1
  <2>2. CASE b >= a
    BY <2>2
  <2> QED BY <2>1, <2>2
<1>2. Max({a, b}) \in {a, b} /\ \A y \in {a, b} : Max({a, b}) >= y
  BY <1>1 DEF Max
<1>3. ASSUME NEW c \in Nat PROVE Max({c, a, b}) \in {a, b, c} /\ \A y \in {c, a, b} : Max({c, a, b}) >= y
  <2>1. \E x \in {c, a, b} : \A y \in {c, a, b} : x >= y
    <3>1. CASE a >= b /\ a >= c
      BY <3>1
    <3>2. CASE b >= a /\ b >= c
      BY <3>2
    <3>3. CASE c >= a /\ c >= b
      BY <3>3
    <3> QED BY <3>1, <3>2, <3>3
  <2> QED BY <2>1 DEF Max
<1> QED BY <1>2, <1>3

\* One task of many changes.
LEMMA TaskSet ==
    ASSUME ShapeOK, NEW e \in Tasks, NEW x \in Task
    PROVE  /\ [task EXCEPT ![e] = x] \in [Tasks -> Task]
           /\ [task EXCEPT ![e] = x][e] = x
           /\ \A f \in Tasks : f # e => [task EXCEPT ![e] = x][f] = task[f]
  BY DEF ShapeOK

\* A task moves on with the batch it has.
LEMMA TaskMoves ==
    ASSUME ShapeOK, NEW e \in Tasks, NEW p \in Waits \cup Delivers
    PROVE  /\ [task EXCEPT ![e].at = p] \in [Tasks -> Task]
           /\ [task EXCEPT ![e].at = p][e] = [at |-> p, batch |-> task[e].batch]
           /\ \A f \in Tasks : f # e => [task EXCEPT ![e].at = p][f] = task[f]
  BY DEF ShapeOK, Task

\* Tasks that end.
LEMMA EndFacts ==
    ASSUME ShapeOK, NEW e \in Tasks, NEW st \in {"ok", "error"}, EndsWith(e, st)
    PROVE  /\ task' \in [Tasks -> Task]
           /\ task'[e] = IF e = "loop" THEN Idle ELSE Off
           /\ \A f \in Tasks : f # e => task'[f] = task[f]
           /\ request' \in [Requests -> [ids : Seq(Nat), status : {"new", "asked", "ok", "error"}]]
           /\ \A r \in Requests : request'[r].ids = request[r].ids
           /\ \A r \in Requests : request'[r] = IF r = e THEN [ids |-> request[r].ids, status |-> st] ELSE request[r]
<1>1. Idle \in Task /\ Off \in Task
  BY DEF Idle, Off, Task, Waits
<1>2. /\ task' \in [Tasks -> Task]
      /\ task'[e] = IF e = "loop" THEN Idle ELSE Off
      /\ \A f \in Tasks : f # e => task'[f] = task[f]
  BY <1>1, TaskSet DEF EndsWith
<1>3. CASE e = "loop"
  BY <1>2, <1>3, ChannelAssumption DEF EndsWith, ShapeOK
<1>4. CASE e # "loop"
  <2>1. e \in Requests /\ request' = [request EXCEPT ![e].status = st]
    BY <1>4 DEF EndsWith, Tasks
  <2> QED BY <1>2, <2>1 DEF ShapeOK
<1> QED BY <1>3, <1>4

\* A callback is called.
LEMMA CallFacts ==
    ASSUME ShapeOK, NEW e \in Tasks, NEW p \in {"called", "got"}, NEW b \in Seq(Nat), Call(e, p, b)
    PROVE  /\ task' \in [Tasks -> Task] /\ called' \in Nat /\ calls' \subseteq Callback
           /\ task'[e] = [at |-> "wait", batch |-> task[e].batch]
           /\ \A f \in Tasks : f # e => task'[f] = task[f]
           /\ \E c \in Callback : /\ calls' = calls \cup {c}
                                  /\ c.of = e /\ c.at = p /\ c.batch = b /\ c.awaited /\ c.offset = 0
<1>1. task' = [task EXCEPT ![e].at = "wait"] /\ "wait" \in Waits
  BY DEF Call, Waits
<1>2. /\ task' \in [Tasks -> Task]
      /\ task'[e] = [at |-> "wait", batch |-> task[e].batch]
      /\ \A f \in Tasks : f # e => task'[f] = task[f]
  BY <1>1, TaskMoves
<1> DEFINE c == [n |-> called + 1, of |-> e, at |-> p, offset |-> 0, batch |-> b, awaited |-> TRUE]
<1>3. c \in Callback /\ called + 1 \in Nat /\ c.of = e /\ c.at = p /\ c.batch = b /\ c.offset = 0
  BY DEF Callback, ShapeOK
<1>4. c.awaited
  OBVIOUS
<1>5. calls' = calls \cup {c} /\ called' = called + 1
  BY DEF Call
<1> HIDE DEF c
<1>6. calls' \subseteq Callback
  BY <1>3, <1>5 DEF ShapeOK
<1> QED BY <1>2, <1>3, <1>4, <1>5, <1>6

\* A callback in progress goes on, or is no longer waited for.
LEMMA CallbackSet ==
    ASSUME NEW c \in Callback
    PROVE  /\ LET d == [c EXCEPT !.at = "got"]
              IN  d \in Callback /\ d.at = "got" /\ d.offset = c.offset /\ d.of = c.of /\ d.batch = c.batch /\ d.awaited = c.awaited
           /\ LET d == [c EXCEPT !.awaited = FALSE]
              IN  d \in Callback /\ d.at = c.at /\ d.offset = c.offset /\ d.of = c.of /\ d.batch = c.batch /\ ~d.awaited
  BY DEF Callback

\* The same, in one formula.
Called(e, p, b) ==
    /\ task'[e] = [at |-> "wait", batch |-> task[e].batch]
    /\ \A f \in Tasks : f # e => task'[f] = task[f]
    /\ \E c \in Callback : /\ calls' = calls \cup {c}
                           /\ c.of = e /\ c.at = p /\ c.batch = b /\ c.awaited /\ c.offset = 0

\* Each caller calls so.
LEMMA Calls ==
    ASSUME ShapeOK
    PROVE  /\ PollTick => Called("loop", "called", <<>>)
           /\ TakeEvent => Called("loop", "got", <<Head(queue)>>)
           /\ \A r \in Requests, b \in Seq(Nat) : Call(r, "got", b) => Called(r, "got", b)
<1>0. "loop" \in Tasks /\ Requests \subseteq Tasks /\ <<>> \in Seq(Nat)
  BY DEF Tasks
<1>1. PollTick => Called("loop", "called", <<>>)
  <2> HAVE PollTick
  <2>1. Call("loop", "called", <<>>)
    BY DEF PollTick
  <2>2. ASSUME NEW b \in Seq(Nat), Call("loop", "called", b) PROVE Called("loop", "called", b)
    BY <1>0, <2>2, CallFacts DEF Called
  <2> QED BY <1>0, <2>1, <2>2
<1>2. TakeEvent => Called("loop", "got", <<Head(queue)>>)
  <2> HAVE TakeEvent
  <2> DEFINE b == <<Head(queue)>>
  <2>1. Call("loop", "got", b) /\ b \in Seq(Nat)
    BY DEF TakeEvent, ShapeOK
  <2> HIDE DEF b
  <2>2. Called("loop", "got", b)
    BY <1>0, <2>1, CallFacts DEF Called
  <2> QED BY <2>2 DEF b
<1>3. ASSUME NEW r \in Requests, NEW b \in Seq(Nat), Call(r, "got", b) PROVE Called(r, "got", b)
  BY <1>0, <1>3, CallFacts DEF Called
<1> QED BY <1>1, <1>2, <1>3

\* Callback c becomes d.
Becomes(c, d) == calls' = (calls \ {c}) \cup {d} /\ d \in Callback /\ d.of = c.of

\* The steps of a guest that leave it running.
LEMMA GuestFacts ==
    ASSUME ShapeOK, BoundInv, NEW c \in calls
    PROVE  /\ GuestReads(c) =>
                 \E d : /\ Becomes(c, d) /\ d.at = "asking" /\ d.offset = offset
                        /\ d.batch = c.batch /\ d.awaited = c.awaited
           /\ GuestFetches(c) =>
                 \E d : /\ Becomes(c, d) /\ d.at = "got" /\ d.offset = c.offset /\ d.awaited = c.awaited
                        /\ confirmed' \in {confirmed, c.offset}
                        /\ \/ d.batch = c.batch /\ confirmed' = confirmed
                           \/ \E a \in Nat : /\ a \in {1, confirmed, c.offset} /\ a >= 1 /\ a >= c.offset /\ a >= confirmed
                                             /\ d.batch = Prefix(Ids(a, posted), Page)
           /\ TimesOut(c) =>
                 \E d : /\ Becomes(c, d) /\ d.at = c.at /\ d.offset = c.offset /\ d.batch = c.batch
                        /\ ~d.awaited
<1>0. c \in Callback /\ offset \in Nat /\ c.offset \in Nat /\ confirmed \in Nat /\ posted \in Nat
  BY DEF ShapeOK, Callback
<1>1. ASSUME GuestReads(c)
      PROVE  \E d : /\ Becomes(c, d) /\ d.at = "asking" /\ d.offset = offset
                    /\ d.batch = c.batch /\ d.awaited = c.awaited
  <2> DEFINE d == [c EXCEPT !.at = "asking", !.offset = offset]
  <2>1. d \in Callback /\ d.at = "asking" /\ d.offset = offset /\ d.of = c.of /\ d.batch = c.batch
    BY <1>0 DEF Callback
  <2>3. d.awaited = c.awaited
    BY <1>0 DEF Callback
  <2>2. calls' = (calls \ {c}) \cup {d}
    BY <1>1 DEF GuestReads
  <2> HIDE DEF d
  <2> QED BY <2>1, <2>2, <2>3 DEF Becomes
<1>2. ASSUME TimesOut(c)
      PROVE  \E d : /\ Becomes(c, d) /\ d.at = c.at /\ d.offset = c.offset /\ d.batch = c.batch
                    /\ ~d.awaited
  <2> DEFINE d == [c EXCEPT !.awaited = FALSE]
  <2>1. d \in Callback /\ d.at = c.at /\ d.offset = c.offset /\ d.of = c.of /\ d.batch = c.batch /\ ~d.awaited
    BY <1>0, CallbackSet
  <2>2. calls' = (calls \ {c}) \cup {d}
    BY <1>2 DEF TimesOut
  <2> HIDE DEF d
  <2> QED BY <2>1, <2>2 DEF Becomes
<1>3. ASSUME GuestFetches(c)
      PROVE  \E d : /\ Becomes(c, d) /\ d.at = "got" /\ d.offset = c.offset /\ d.awaited = c.awaited
                    /\ confirmed' \in {confirmed, c.offset}
                    /\ \/ d.batch = c.batch /\ confirmed' = confirmed
                       \/ \E a \in Nat : /\ a \in {1, confirmed, c.offset} /\ a >= 1 /\ a >= c.offset /\ a >= confirmed
                                         /\ d.batch = Prefix(Ids(a, posted), Page)
  <2>1. CASE calls' = (calls \ {c}) \cup {[c EXCEPT !.at = "got"]} /\ confirmed' = confirmed
    <3> DEFINE d == [c EXCEPT !.at = "got"]
    <3>1. d \in Callback /\ d.at = "got" /\ d.offset = c.offset /\ d.of = c.of /\ d.batch = c.batch /\ d.awaited = c.awaited
      BY <1>0, CallbackSet
    <3>2. calls' = (calls \ {c}) \cup {d}
      BY <2>1
    <3> HIDE DEF d
    <3> QED BY <2>1, <3>1, <3>2 DEF Becomes
  <2>2. CASE /\ confirmed' = Max({confirmed, c.offset})
             /\ calls' = (calls \ {c}) \cup
                  {[c EXCEPT !.at = "got", !.batch = Prefix(Ids(Max({1, confirmed', c.offset}), posted), Page)]}
    <3> DEFINE a == Max({1, confirmed', c.offset})
               b == Prefix(Ids(a, posted), Page)
               d == [c EXCEPT !.at = "got", !.batch = b]
    <3>1. confirmed' \in {confirmed, c.offset} /\ confirmed' >= confirmed /\ confirmed' >= c.offset /\ confirmed' \in Nat
      BY <1>0, <2>2, MaxFacts
    <3>2. a \in {1, confirmed', c.offset} /\ a >= 1 /\ a >= confirmed' /\ a >= c.offset
      BY <1>0, <3>1, MaxFacts
    <3>3. a \in {1, confirmed, c.offset} /\ a >= confirmed /\ a \in Nat
      BY <1>0, <3>1, <3>2
    <3>4. calls' = (calls \ {c}) \cup {d}
      BY <2>2
    <3> HIDE DEF a
    <3>5. a <= posted + 1
      BY <1>0, <3>3 DEF BoundInv
    <3>6. b \in Seq(Nat)
      BY <1>0, <3>2, <3>3, <3>5, IdsFacts, PrefixFacts, ChannelAssumption
    <3> HIDE DEF b
    <3>7. d \in Callback /\ d.at = "got" /\ d.offset = c.offset /\ d.of = c.of /\ d.batch = b
      BY <1>0, <3>6 DEF Callback
    <3>8. d.awaited = c.awaited
      BY <1>0 DEF Callback
    <3> HIDE DEF d
    <3> QED BY <3>1, <3>2, <3>3, <3>4, <3>7, <3>8 DEF Becomes, b
  <2> QED BY <1>3, <2>1, <2>2 DEF GuestFetches
<1> QED BY <1>1, <1>2, <1>3

\* A page of the platform's messages.
LEMMA PageFacts ==
    ASSUME ShapeOK, NEW a \in Nat, a >= 1, a <= posted + 1
    PROVE  LET b == Prefix(Ids(a, posted), Page)
           IN  /\ b \in Seq(Nat) /\ Len(b) <= Page /\ Len(b) \in Nat /\ DOMAIN b = 1 .. Len(b)
               /\ \A i \in DOMAIN b : b[i] = a + i - 1
               /\ Under(b, posted + 1) /\ From(b, a) /\ Increasing(b)
<1> DEFINE w == Ids(a, posted)
           b == Prefix(w, Page)
<1>1. Page \in Nat /\ posted \in Nat
  BY ChannelAssumption DEF ShapeOK
<1>2. w \in Seq(Nat) /\ DOMAIN w = 1 .. (posted + 1) - a /\ \A i \in 1 .. (posted + 1) - a : w[i] = a + i - 1
  BY <1>1, IdsFacts
<1> HIDE DEF w
<1>3. b \in Seq(Nat) /\ Len(b) <= Page /\ DOMAIN b \subseteq DOMAIN w /\ \A i \in DOMAIN b : b[i] = w[i]
  BY <1>1, <1>2, PrefixFacts
<1> HIDE DEF b
<1>4. Len(b) \in Nat /\ DOMAIN b = 1 .. Len(b)
  BY <1>3, LenProperties
<1>5. \A i \in DOMAIN b : b[i] = a + i - 1 /\ i \in 1 .. (posted + 1) - a /\ i \in Nat
  BY <1>2, <1>3
<1>6. Under(b, posted + 1) /\ From(b, a) /\ Increasing(b)
  BY <1>1, <1>5 DEF Under, From, Increasing
<1> QED BY <1>3, <1>4, <1>5, <1>6 DEF b, w

\* What a request hands over: new messages, or those of a request to be repeated.
LEMMA RequestFacts ==
    ASSUME ShapeOK, NEW r \in Requests, Request(r)
    PROVE  \E b \in Seq(Nat) :
              /\ Call(r, "got", b) /\ task[r].at = "off" /\ kind = "web"
              /\ request' \in [Requests -> [ids : Seq(Nat), status : {"new", "asked", "ok", "error"}]]
              /\ request'[r] = [ids |-> b, status |-> "asked"]
              /\ \A q \in Requests : q # r => request'[q] = request[q]
              /\ \/ /\ \E k \in 1 .. MaxPosts : posted' = posted + k /\ Len(b) = k
                    /\ Under(b, posted' + 1)
                 \/ posted' = posted /\ request[r].status = "error" /\ b = request[r].ids
<1>0. posted \in Nat /\ MaxPosts \in Nat /\ request[r].ids \in Seq(Nat)
  BY ChannelAssumption DEF ShapeOK
<1>1. kind = "web" /\ task[r].at = "off"
  BY DEF Request
<1>2. ASSUME NEW k \in 1 .. MaxPosts, posted' = posted + k, Call(r, "got", Ids(posted + 1, posted + k)),
             request' = [request EXCEPT ![r] = [ids |-> Ids(posted + 1, posted + k), status |-> "asked"]]
      PROVE  \E b \in Seq(Nat) :
              /\ Call(r, "got", b) /\ request' \in [Requests -> [ids : Seq(Nat), status : {"new", "asked", "ok", "error"}]]
              /\ request'[r] = [ids |-> b, status |-> "asked"]
              /\ \A q \in Requests : q # r => request'[q] = request[q]
              /\ Len(b) = k /\ Under(b, posted' + 1)
  <2> DEFINE b == Ids(posted + 1, posted + k)
  <2>1. b \in Seq(Nat) /\ Len(b) = k /\ DOMAIN b = 1 .. k /\ \A i \in 1 .. k : b[i] = posted + i
    <3>1. posted + 1 \in Nat /\ posted + k \in Nat /\ posted + 1 <= (posted + k) + 1 /\ posted + 1 >= 1
      BY <1>0
    <3>2. /\ b \in Seq(Nat) /\ Len(b) = ((posted + k) + 1) - (posted + 1)
          /\ DOMAIN b = 1 .. ((posted + k) + 1) - (posted + 1)
          /\ \A i \in 1 .. ((posted + k) + 1) - (posted + 1) : b[i] = (posted + 1) + i - 1
      BY <3>1, IdsFacts
    <3> HIDE DEF b
    <3> QED BY <1>0, <3>2
  <2>2. Call(r, "got", b) /\ request' = [request EXCEPT ![r] = [ids |-> b, status |-> "asked"]]
    BY <1>2
  <2> HIDE DEF b
  <2>3. Under(b, posted' + 1)
    BY <1>0, <1>2, <2>1 DEF Under
  <2>4. /\ request' \in [Requests -> [ids : Seq(Nat), status : {"new", "asked", "ok", "error"}]]
        /\ request'[r] = [ids |-> b, status |-> "asked"]
        /\ \A q \in Requests : q # r => request'[q] = request[q]
    BY <2>1, <2>2 DEF ShapeOK
  <2> QED BY <2>1, <2>2, <2>3, <2>4
<1>3. ASSUME request[r].status = "error", Call(r, "got", request[r].ids), posted' = posted,
             request' = [request EXCEPT ![r].status = "asked"]
      PROVE  /\ request' \in [Requests -> [ids : Seq(Nat), status : {"new", "asked", "ok", "error"}]]
             /\ request'[r] = [ids |-> request[r].ids, status |-> "asked"]
             /\ \A q \in Requests : q # r => request'[q] = request[q]
  BY <1>3 DEF ShapeOK
<1>4. \/ \E k \in 1 .. MaxPosts : /\ posted' = posted + k /\ Call(r, "got", Ids(posted + 1, posted + k))
                              /\ request' = [request EXCEPT ![r] = [ids |-> Ids(posted + 1, posted + k), status |-> "asked"]]
      \/ /\ request[r].status = "error" /\ Call(r, "got", request[r].ids) /\ posted' = posted
         /\ request' = [request EXCEPT ![r].status = "asked"]
  BY DEF Request
<1>5. CASE \E k \in 1 .. MaxPosts : /\ posted' = posted + k /\ Call(r, "got", Ids(posted + 1, posted + k))
                                /\ request' = [request EXCEPT ![r] = [ids |-> Ids(posted + 1, posted + k), status |-> "asked"]]
  BY <1>1, <1>2, <1>5
<1>6. CASE /\ request[r].status = "error" /\ Call(r, "got", request[r].ids) /\ posted' = posted
           /\ request' = [request EXCEPT ![r].status = "asked"]
  BY <1>0, <1>1, <1>3, <1>6
<1> QED BY <1>4, <1>5, <1>6

\* The batch of a task is the one it delivers next, or a rest of it.
LEMMA SendFacts ==
    ASSUME ShapeOK, NEW e \in Tasks, Sends(e)
    PROVE  \/ /\ tx = "open" /\ Len(inbox) < InboxSize /\ inbox' = Append(inbox, Head(task[e].batch))
              /\ task' = [task EXCEPT ![e] = [at |-> "send", batch |-> Tail(task[e].batch)]]
              /\ UNCHANGED <<request, faults>>
           \/ /\ tx = "gone" /\ EndsWith(e, "ok") /\ faults' = faults \cup {"nosender"}
              /\ UNCHANGED inbox
  BY DEF Sends, Fault

\* Nobody waits any more.
LEMMA AbortFacts ==
    ASSUME ShapeOK, calls' = {[c EXCEPT !.awaited = FALSE] : c \in calls}
    PROVE  /\ calls' \subseteq Callback
           /\ \A d \in calls' : ~d.awaited /\ \E c \in calls : /\ d.of = c.of /\ d.at = c.at
                                                             /\ d.offset = c.offset /\ d.batch = c.batch
<1> SUFFICES ASSUME NEW d \in calls'
             PROVE  /\ d \in Callback /\ ~d.awaited
                    /\ \E c \in calls : d.of = c.of /\ d.at = c.at /\ d.offset = c.offset /\ d.batch = c.batch
  OBVIOUS
<1>1. PICK c \in calls : d = [c EXCEPT !.awaited = FALSE]
  OBVIOUS
<1>2. c \in Callback
  BY DEF ShapeOK
<1>3. d \in Callback /\ d.of = c.of /\ d.at = c.at /\ d.offset = c.offset /\ d.batch = c.batch /\ ~d.awaited
  BY <1>1, <1>2, CallbackSet
<1> QED BY <1>3

\* Every variable keeps its type, and the queues their capacity.
LEMMA ShapeStep == ShapeOK /\ BoundInv /\ CallInv /\ [Next]_vars => ShapeOK'
<1> SUFFICES ASSUME ShapeOK, BoundInv, CallInv, [Next]_vars PROVE ShapeOK'
  OBVIOUS
<1>0. kind' = kind
  BY KindStays
<1>1. CASE UNCHANGED vars \/ Quiet
  <2>1. UNCHANGED Traffic
    BY <1>1, QuietFacts DEF vars, channel, delivery, guest, broker, Traffic
  <2>2. phase' \in Phases /\ stop' \in BOOLEAN /\ tx' \in {"none", "open", "gone"}
    <3>1. CASE UNCHANGED <<phase, stop, tx>>
      BY <3>1 DEF ShapeOK
    <3>2. CASE Start \/ StartFails \/ AgentLeaves \/ Shutdown \/ ShutdownQueues \/ ShutdownClears
      BY <3>2 DEF Start, StartFails, AgentLeaves, Shutdown, ShutdownQueues, ShutdownClears, ShapeOK, Phases, delivery
    <3>3. \A c : ConnStep(c) => UNCHANGED <<phase, stop, tx>>
      BY DEF ConnStep, channel, delivery
    <3>4. ConnCheck \/ Connect \/ Pause \/ ConnStops \/ Closed \/ Ack \/ Hello \/ Heartbeat => \E c : ConnStep(c)
      BY Zenon DEF ConnCheck, Connect, Pause, ConnStops, Closed, Ack, Hello, Heartbeat
    <3>5. UNCHANGED vars => UNCHANGED <<phase, stop, tx>>
      BY DEF vars, channel, delivery
    <3> QED BY <1>1, <3>1, <3>2, <3>3, <3>4, <3>5 DEF Quiet
  <2> QED BY <2>1, <2>2 DEF ShapeOK, Traffic, guest
<1>2. CASE StartEnds
  <2>1. task' \in [Tasks -> Task]
    <3>1. "loop" \in Tasks /\ Idle \in Task
      BY DEF Tasks, Idle, Task, Waits
    <3> QED BY <1>2, <3>1, TaskSet DEF StartEnds, ShapeOK
  <2> QED BY <1>2, <2>1 DEF StartEnds, ShapeOK, Phases, guest
<1>3. CASE AgentTakes
  <2>1. inbox' \in Seq(Nat) /\ taken' \in Seq(Nat) /\ Len(inbox') <= InboxSize
    BY <1>3, ChannelAssumption DEF AgentTakes, ShapeOK
  <2> QED BY <1>3, <2>1 DEF AgentTakes, ShapeOK, channel, guest, broker
<1>4. CASE Post \/ Ready
  BY <1>4 DEF Post, Ready, ConnStep, ShapeOK, channel, delivery, guest, broker
<1>5. CASE PollTick
  <2>1. "loop" \in Tasks /\ <<>> \in Seq(Nat) /\ Call("loop", "called", <<>>)
    BY <1>5 DEF Tasks, PollTick
  <2>2. task' \in [Tasks -> Task] /\ called' \in Nat /\ calls' \subseteq Callback
    BY <2>1, CallFacts
  <2> QED BY <1>5, <2>2 DEF PollTick, ShapeOK, channel, broker
<1>6. ASSUME NEW r \in Requests, Request(r) PROVE ShapeOK'
  <2>1. r \in Tasks /\ posted \in Nat /\ MaxPosts \in Nat
    BY ChannelAssumption DEF Tasks, ShapeOK
  <2>2. PICK b \in Seq(Nat) : /\ Call(r, "got", b)
                              /\ request' \in [Requests -> [ids : Seq(Nat), status : {"new", "asked", "ok", "error"}]]
                              /\ posted' = posted \/ \E k \in 1 .. MaxPosts : posted' = posted + k
    BY <1>6, RequestFacts
  <2>3. task' \in [Tasks -> Task] /\ called' \in Nat /\ calls' \subseteq Callback
    BY <2>1, <2>2, CallFacts
  <2>4. posted' \in Nat
    BY <2>1, <2>2
  <2> QED BY <1>6, <2>2, <2>3, <2>4 DEF Request, ShapeOK, channel, broker
<1>7. CASE TakeEvent
  <2>1. queue' = Tail(queue) /\ queue # <<>> /\ queue \in Seq(Nat) /\ Len(queue) <= QueueSize /\ QueueSize \in Nat
    BY <1>7, ChannelAssumption DEF TakeEvent, ShapeOK
  <2>2. queue' \in Seq(Nat) /\ Len(queue') <= QueueSize /\ <<Head(queue)>> \in Seq(Nat)
    BY <2>1
  <2>3. "loop" \in Tasks /\ Call("loop", "got", <<Head(queue)>>)
    BY <1>7 DEF Tasks, TakeEvent
  <2>4. task' \in [Tasks -> Task] /\ called' \in Nat /\ calls' \subseteq Callback
    BY <2>2, <2>3, CallFacts
  <2> QED BY <1>7, <2>2, <2>4 DEF TakeEvent, ShapeOK, channel
<1>8. ASSUME NEW c \in calls, GuestReads(c) \/ GuestFetches(c) PROVE ShapeOK'
  <2>1. calls' \subseteq Callback
    BY <1>8, GuestFacts DEF Becomes, ShapeOK
  <2>2. confirmed' \in Nat
    BY <1>8, GuestFacts DEF GuestReads, ShapeOK, Callback
  <2> QED BY <1>8, <2>1, <2>2 DEF GuestReads, GuestFetches, ShapeOK, channel, delivery, broker
<1>9. ASSUME NEW c \in calls, Returns(c) PROVE ShapeOK'
  <2>1. c \in Callback /\ c.batch \in Seq(Nat) /\ c.of \in Tasks /\ MaxEmits \in Nat /\ offset \in Nat /\ c.offset \in Nat
    BY ChannelAssumption DEF ShapeOK, Callback
  <2>2. Emitted(c.batch) \in Seq(Nat)
    BY <2>1, PrefixFacts DEF Emitted
  <2>3. task' \in [Tasks -> Task]
    <3>1. Idle \in Task /\ [at |-> "tx", batch |-> Emitted(c.batch)] \in Task
      BY <2>2 DEF Idle, Task, Waits, Delivers
    <3> QED BY <1>9, <2>1, <3>1, TaskSet DEF Returns, ShapeOK
  <2>4. offset' \in Nat
    <3>1. NextOffset(c) \in Nat
      BY <2>1 DEF NextOffset, Last
    <3> QED BY <1>9, <2>1, <3>1 DEF Returns
  <2>5. calls' \subseteq Callback
    BY <1>9 DEF Returns, ShapeOK
  <2> QED BY <1>9, <2>3, <2>4, <2>5 DEF Returns, ShapeOK, channel, broker
<1>10. ASSUME NEW c \in calls, Traps(c) \/ TimesOut(c) PROVE ShapeOK'
  <2>1. c \in Callback /\ c.of \in Tasks
    BY DEF ShapeOK, Callback
  <2>2. CASE c.awaited
    <3>1. EndsWith(c.of, "error")
      BY <1>10, <2>2 DEF Traps, TimesOut
    <3>2. /\ task' \in [Tasks -> Task]
          /\ request' \in [Requests -> [ids : Seq(Nat), status : {"new", "asked", "ok", "error"}]]
      BY <2>1, <3>1, EndFacts
    <3>3. calls' \subseteq Callback
      BY <1>10, GuestFacts DEF Traps, ShapeOK, Becomes
    <3> QED BY <1>10, <3>2, <3>3 DEF Traps, TimesOut, ShapeOK, channel, broker
  <2>3. CASE ~c.awaited
    BY <1>10, <2>3 DEF Traps, TimesOut, ShapeOK, channel, broker
  <2> QED BY <2>2, <2>3
<1>11. ASSUME NEW e \in Tasks, LockLimiter(e) \/ Admitted(e) PROVE ShapeOK'
  <2>1. task' \in [Tasks -> Task]
    <3>1. PICK p \in {"send", "room"} : task' = [task EXCEPT ![e].at = p]
      BY <1>11 DEF LockLimiter, Admitted
    <3>2. p \in Waits \cup Delivers
      BY DEF Delivers
    <3> QED BY <3>1, <3>2, TaskMoves
  <2> QED BY <1>11, <2>1 DEF LockLimiter, Admitted, ShapeOK, channel, guest, broker
<1>12. ASSUME NEW e \in Tasks, ReadTx(e) \/ Limited(e) \/ Dispatched(e) PROVE ShapeOK'
  <2>1. CASE task' = [task EXCEPT ![e].at = "limiter"] /\ request' = request
    <3>1. task' \in [Tasks -> Task]
      BY <2>1, TaskMoves DEF Delivers
    <3> QED BY <1>12, <2>1, <3>1 DEF ReadTx, Limited, Dispatched, ShapeOK, channel, guest, broker
  <2>2. CASE \E st \in {"ok", "error"} : EndsWith(e, st)
    <3>1. /\ task' \in [Tasks -> Task]
          /\ request' \in [Requests -> [ids : Seq(Nat), status : {"new", "asked", "ok", "error"}]]
      BY <2>2, EndFacts
    <3> QED BY <1>12, <3>1 DEF ReadTx, Limited, Dispatched, ShapeOK, channel, guest, broker
  <2> QED BY <1>12, <2>1, <2>2 DEF ReadTx, Limited, Dispatched
<1>13. ASSUME NEW e \in Tasks, Sends(e) PROVE ShapeOK'
  <2>0. task[e].batch \in Seq(Nat) /\ task[e].batch # <<>> /\ inbox \in Seq(Nat) /\ Len(inbox) <= InboxSize /\ InboxSize \in Nat
    BY <1>13, ChannelAssumption DEF Sends, CallInv, ShapeOK, Task
  <2>1. CASE /\ Len(inbox) < InboxSize /\ inbox' = Append(inbox, Head(task[e].batch))
             /\ task' = [task EXCEPT ![e] = [at |-> "send", batch |-> Tail(task[e].batch)]]
             /\ UNCHANGED <<request, faults>>
    <3>1. inbox' \in Seq(Nat) /\ Len(inbox') <= InboxSize /\ Tail(task[e].batch) \in Seq(Nat)
      BY <2>0, <2>1, SMTT(30), ZenonT(30)
    <3>2. [at |-> "send", batch |-> Tail(task[e].batch)] \in Task
      BY <3>1 DEF Task, Delivers
    <3>3. task' \in [Tasks -> Task]
      BY <2>1, <3>2, TaskSet
    <3> QED BY <1>13, <2>1, <3>1, <3>3 DEF Sends, ShapeOK, channel, guest, broker
  <2>2. CASE EndsWith(e, "ok") /\ inbox' = inbox
    <3>1. /\ task' \in [Tasks -> Task]
          /\ request' \in [Requests -> [ids : Seq(Nat), status : {"new", "asked", "ok", "error"}]]
      BY <2>2, EndFacts
    <3> QED BY <1>13, <2>2, <3>1 DEF Sends, ShapeOK, channel, guest, broker
  <2> QED BY <1>13, <2>1, <2>2, SendFacts
<1>14. CASE PollStops \/ DispatchStops \/ DispatchAborted
  <2>1. task' \in [Tasks -> Task]
    <3>1. "loop" \in Tasks /\ Off \in Task
      BY DEF Tasks, Off, Task, Waits
    <3> QED BY <1>14, <3>1, TaskSet DEF PollStops, DispatchStops, DispatchAborted
  <2>2. calls' \subseteq Callback
    <3>1. CASE calls' = calls
      BY <3>1 DEF ShapeOK
    <3>2. CASE calls' = {[c EXCEPT !.awaited = FALSE] : c \in calls}
      BY <3>2, AbortFacts
    <3> QED BY <1>14, <3>1, <3>2 DEF PollStops, DispatchStops, DispatchAborted, guest
  <2>3. queue' \in Seq(Nat) /\ Len(queue') <= QueueSize
    <3>1. queue' = queue \/ queue' = <<>>
      BY <1>14 DEF PollStops, DispatchStops, DispatchAborted, broker
    <3>2. <<>> \in Seq(Nat) /\ Len(<<>>) <= QueueSize
      BY ChannelAssumption
    <3> QED BY <3>1, <3>2 DEF ShapeOK
  <2> QED BY <1>14, <2>1, <2>2, <2>3 DEF PollStops, DispatchStops, DispatchAborted, ShapeOK, channel, guest, broker
<1>15. CASE Event
  <2>1. queue' \in Seq(Nat) /\ Len(queue') <= QueueSize
    <3>1. queue \in Seq(Nat) /\ Len(queue) <= QueueSize /\ QueueSize \in Nat /\ posted + 1 \in Nat
      BY ChannelAssumption DEF ShapeOK
    <3>2. queue' = queue \/ (Len(queue) < QueueSize /\ queue' = Append(queue, posted + 1))
      BY <1>15 DEF Event, QueueTakes
    <3> QED BY <3>1, <3>2
  <2>2. posted' \in Nat
    BY <1>15 DEF Event, ShapeOK
  <2> QED BY <1>15, <2>1, <2>2 DEF Event, ShapeOK, channel, delivery, guest
<1> QED BY <1>1, <1>2, <1>3, <1>4, <1>5, <1>6, <1>7, <1>8, <1>9, <1>10, <1>11, <1>12, <1>13, <1>14, <1>15,
           StepKinds DEF Busy

-----------------------------------------------------------------------------
(* Tasks, locks and callbacks.                                             *)

\* The ways of one task from place to place.
TaskChange(e) ==
    /\ \A f \in Tasks : f # e => task'[f] = task[f]
    /\ \/ /\ task[e].at # "off" \/ phase' = "running"
          /\ task'[e] = (IF e = "loop" THEN Idle ELSE Off)
       \/ e = "loop" /\ task'[e] = Off
       \/ /\ IF e = "loop" THEN task[e].at = "idle" ELSE task[e].at = "off" /\ kind = "web"
          /\ task'[e] = [at |-> "wait", batch |-> task[e].batch]
       \/ task[e].at = "wait" /\ task'[e].at = "tx"
       \/ task[e].at = "tx" /\ tx # "none" /\ task'[e].at = "limiter"
       \/ /\ task[e].at = "limiter" /\ task'[e].at = "send"
          /\ \A f \in Tasks : task[f].at \notin {"send", "room"}
       \/ task[e].at = "send" /\ task[e].batch # <<>> /\ task'[e] = [at |-> "room", batch |-> task[e].batch]
       \/ task[e].at = "room" /\ task'[e].at = "send"

\* Every step takes one task one step further at most.
LEMMA TaskSteps ==
    ASSUME ShapeOK, BoundInv, CallInv, RequestInv, [Next]_vars
    PROVE  \/ task' = task
           \/ UNCHANGED tx /\ phase' \in {phase, "running"} /\ \E e \in Tasks : TaskChange(e)
<1>1. CASE UNCHANGED vars \/ Quiet
  BY <1>1, QuietFacts DEF vars, delivery, Traffic
<1>2. CASE StartEnds
  <2>1. "loop" \in Tasks /\ Idle \in Task
    BY DEF Tasks, Idle, Task, Waits
  <2>2. CASE task' = [task EXCEPT !["loop"] = Idle]
    <3>1. task'["loop"] = Idle /\ \A f \in Tasks : f # "loop" => task'[f] = task[f]
      BY <2>1, <2>2, TaskSet
    <3> QED BY <1>2, <2>1, <3>1 DEF TaskChange, StartEnds
  <2> QED BY <1>2, <2>2 DEF StartEnds
<1>3. CASE AgentTakes \/ Post \/ Ready \/ Event
  BY <1>3 DEF AgentTakes, Post, Ready, Event, ConnStep, delivery
<1>4. CASE PollTick
  <2>1. "loop" \in Tasks /\ <<>> \in Seq(Nat) /\ Call("loop", "called", <<>>) /\ task["loop"].at = "idle"
    BY <1>4 DEF Tasks, PollTick
  <2> QED BY <1>4, <2>1, CallFacts, SMTT(30), ZenonT(30) DEF TaskChange, PollTick, channel
<1>5. ASSUME NEW r \in Requests, Request(r)
      PROVE  UNCHANGED tx /\ phase' = phase /\ \E e \in Tasks : TaskChange(e)
  <2>1. r \in Tasks /\ r # "loop" /\ task[r].at = "off" /\ kind = "web" /\ \E b \in Seq(Nat) : Call(r, "got", b)
    BY <1>5, RequestFacts, ChannelAssumption DEF Tasks
  <2> QED BY <1>5, <2>1, CallFacts DEF TaskChange, Request, channel
<1>6. CASE TakeEvent
  <2>1. "loop" \in Tasks /\ Call("loop", "got", <<Head(queue)>>) /\ task["loop"].at = "idle"
    BY <1>6 DEF Tasks, TakeEvent
  <2>2. <<Head(queue)>> \in Seq(Nat)
    BY <1>6 DEF TakeEvent, ShapeOK
  <2>3. /\ task'["loop"] = [at |-> "wait", batch |-> task["loop"].batch]
        /\ \A f \in Tasks : f # "loop" => task'[f] = task[f]
    BY <2>1, <2>2, CallFacts
  <2> QED BY <1>6, <2>1, <2>3 DEF TaskChange, TakeEvent, channel
<1>7. ASSUME NEW c \in calls, GuestReads(c) \/ GuestFetches(c) PROVE task' = task
  BY <1>7 DEF GuestReads, GuestFetches, delivery
<1>8. ASSUME NEW c \in calls, Returns(c)
      PROVE  \/ task' = task
             \/ UNCHANGED tx /\ phase' = phase /\ \E e \in Tasks : TaskChange(e)
  <2>1. c.batch \in Seq(Nat) /\ c.of \in Tasks /\ MaxEmits \in Nat
    BY ChannelAssumption DEF ShapeOK, Callback
  <2>2. Emitted(c.batch) \in Seq(Nat)
    BY <2>1, PrefixFacts DEF Emitted
  <2> DEFINE x == IF c.batch = <<>> THEN Idle ELSE [at |-> "tx", batch |-> Emitted(c.batch)]
  <2>3. x \in Task /\ (x = Idle \/ x.at = "tx")
    BY <2>2 DEF Idle, Task, Waits, Delivers
  <2>4. c.of # "loop" /\ c.awaited => x.at = "tx"
    <3>1. ASSUME c.of # "loop", c.awaited PROVE c.batch # <<>>
      <4>1. c.of \in Requests /\ task[c.of].at = "wait"
        BY <2>1, <3>1 DEF Tasks, CallInv
      <4> QED BY <3>1, <4>1 DEF RequestInv, Proper
    <3> QED BY <3>1
  <2>5. CASE c.awaited
    <3>1. task' = [task EXCEPT ![c.of] = x] /\ task[c.of].at = "wait"
      BY <1>8, <2>5 DEF Returns, CallInv
    <3> HIDE DEF x
    <3>2. task'[c.of] = x /\ \A f \in Tasks : f # c.of => task'[f] = task[f]
      BY <2>1, <2>3, <3>1, TaskSet
    <3> QED BY <1>8, <2>1, <2>3, <2>4, <2>5, <3>1, <3>2 DEF TaskChange, Returns, channel
  <2> QED BY <1>8, <2>5 DEF Returns
<1>9. ASSUME NEW c \in calls, Traps(c) \/ TimesOut(c)
      PROVE  \/ task' = task
             \/ UNCHANGED tx /\ phase' = phase /\ \E e \in Tasks : TaskChange(e)
  <2>1. c.of \in Tasks
    BY DEF ShapeOK, Callback
  <2>2. CASE c.awaited
    <3>1. EndsWith(c.of, "error") /\ task[c.of].at = "wait"
      BY <1>9, <2>2 DEF Traps, TimesOut, CallInv
    <3> QED BY <1>9, <2>1, <3>1, EndFacts DEF Traps, TimesOut, TaskChange, channel
  <2> QED BY <1>9, <2>2 DEF Traps, TimesOut
<1>10. ASSUME NEW e \in Tasks, LockLimiter(e) \/ Admitted(e)
       PROVE  UNCHANGED tx /\ phase' = phase /\ TaskChange(e)
  <2>1. PICK p \in {"send", "room"} : /\ task' = [task EXCEPT ![e].at = p]
                                      /\ IF p = "send" THEN LockLimiter(e) ELSE Admitted(e)
    BY <1>10 DEF LockLimiter, Admitted
  <2>2. p \in Waits \cup Delivers
    BY DEF Delivers
  <2>3. task'[e] = [at |-> p, batch |-> task[e].batch] /\ \A f \in Tasks : f # e => task'[f] = task[f]
    BY <2>1, <2>2, TaskMoves
  <2> QED BY <1>10, <2>1, <2>3 DEF LockLimiter, Admitted, TaskChange, channel
<1>11. ASSUME NEW e \in Tasks, ReadTx(e) \/ Limited(e) \/ Dispatched(e)
       PROVE  UNCHANGED tx /\ phase' = phase /\ TaskChange(e)
  <2>1. CASE task' = [task EXCEPT ![e].at = "limiter"] /\ tx # "none" /\ task[e].at = "tx"
    <3>1. task'[e] = [at |-> "limiter", batch |-> task[e].batch] /\ \A f \in Tasks : f # e => task'[f] = task[f]
      BY <2>1, TaskMoves DEF Delivers
    <3> QED BY <1>11, <2>1, <3>1 DEF ReadTx, Limited, Dispatched, TaskChange, channel
  <2>2. CASE \E st \in {"ok", "error"} : EndsWith(e, st)
    BY <1>11, <2>2, EndFacts DEF ReadTx, Limited, Dispatched, TaskChange, channel
  <2> QED BY <1>11, <2>1, <2>2 DEF ReadTx, Limited, Dispatched
<1>12. ASSUME NEW e \in Tasks, Sends(e)
       PROVE  UNCHANGED tx /\ phase' = phase /\ TaskChange(e)
  <2>0. task[e].batch \in Seq(Nat) /\ task[e].batch # <<>> /\ task[e].at = "room"
    BY <1>12 DEF Sends, CallInv, ShapeOK, Task
  <2>1. CASE task' = [task EXCEPT ![e] = [at |-> "send", batch |-> Tail(task[e].batch)]]
    <3>1. [at |-> "send", batch |-> Tail(task[e].batch)] \in Task
      BY <2>0 DEF Task, Delivers
    <3> QED BY <1>12, <2>0, <2>1, <3>1, TaskSet DEF TaskChange, Sends, channel
  <2>2. CASE EndsWith(e, "ok")
    BY <1>12, <2>2, EndFacts DEF TaskChange, Sends, channel
  <2> QED BY <1>12, <2>1, <2>2, SendFacts
<1>13. CASE PollStops \/ DispatchStops \/ DispatchAborted
  <2>1. "loop" \in Tasks /\ Off \in Task /\ task' = [task EXCEPT !["loop"] = Off]
    BY <1>13 DEF Tasks, Off, Task, Waits, PollStops, DispatchStops, DispatchAborted
  <2> QED BY <1>13, <2>1, TaskSet DEF TaskChange, PollStops, DispatchStops, DispatchAborted, channel
<1> QED BY <1>1, <1>2, <1>3, <1>4, <1>5, <1>6, <1>7, <1>8, <1>9, <1>10, <1>11, <1>12, <1>13, StepKinds DEF Busy

\* The locks stay locks.
LEMMA LockStep == ShapeOK /\ BoundInv /\ CallInv /\ RequestInv /\ LockInv /\ [Next]_vars => LockInv'
<1> SUFFICES ASSUME ShapeOK, BoundInv, CallInv, RequestInv, LockInv, [Next]_vars PROVE LockInv'
  OBVIOUS
<1>1. CASE task' = task
  <2>1. tx' # "none" \/ tx' = tx \/ ShutdownClears
    <3>1. CASE Busy
      BY <3>1 DEF Busy, StartEnds, AgentTakes, Post, PollTick, PollStops, Request, GuestReads, GuestFetches, Returns,
                  Traps, TimesOut, ReadTx, LockLimiter, Limited, Admitted, Sends, Dispatched, TakeEvent,
                  DispatchStops, DispatchAborted, Ready, Event, ConnStep, delivery
    <3>2. CASE UNCHANGED vars \/ Start \/ StartFails \/ AgentLeaves \/ Shutdown \/ ShutdownQueues
      BY <3>2 DEF vars, Start, StartFails, AgentLeaves, Shutdown, ShutdownQueues, delivery
    <3>3. \A c : ConnStep(c) => UNCHANGED tx
      BY DEF ConnStep, delivery
    <3>4. ConnCheck \/ Connect \/ Pause \/ ConnStops \/ Closed \/ Ack \/ Hello \/ Heartbeat => \E c : ConnStep(c)
      BY Zenon DEF ConnCheck, Connect, Pause, ConnStops, Closed, Ack, Hello, Heartbeat
    <3> QED BY <3>1, <3>2, <3>3, <3>4, StepKinds DEF Quiet
  <2> QED BY <1>1, <2>1 DEF LockInv, Reading, ShutdownClears
<1>2. ASSUME NEW e \in Tasks, TaskChange(e), UNCHANGED tx PROVE LockInv'
  <2>1. Idle.at = "idle" /\ Off.at = "off"
    BY DEF Idle, Off
  <2>2. task'[e].at \in {"send", "room"} =>
          task[e].at \in {"send", "room"} \/ \A f \in Tasks : task[f].at \notin {"send", "room"}
    BY <1>2, <2>1 DEF TaskChange
  <2>3. task'[e].at \in {"limiter", "send", "room"} => Reading(e) \/ tx # "none"
    BY <1>2, <2>1 DEF TaskChange, Reading
  <2> QED BY <1>2, <2>2, <2>3 DEF LockInv, Reading, TaskChange
<1> QED BY <1>1, <1>2, TaskSteps

\* What CallInv says of the tasks and of the callbacks.
TaskPart ==
    /\ \A e \in Tasks : /\ task[e].at \in Waits => task[e].batch = <<>>
                        /\ task[e].at = "room" => task[e].batch # <<>>
    /\ kind # "web" => \A r \in Requests : task[r].at = "off"
    /\ phase \in {"new", "starting"} => task["loop"].at = "off"
CallPart ==
    /\ \A c \in calls : c.awaited => task[c.of].at = "wait"
    /\ \A c, d \in calls : c.awaited /\ d.awaited /\ c.of = d.of => c = d
    /\ \A c \in calls : (kind # "web" => c.of = "loop") /\ (kind # "poll" => c.at = "got")

\* The part about the tasks follows from the ways they take.
LEMMA TaskPartStep == ShapeOK /\ BoundInv /\ CallInv /\ RequestInv /\ [Next]_vars => TaskPart'
<1> SUFFICES ASSUME ShapeOK, BoundInv, CallInv, RequestInv, [Next]_vars PROVE TaskPart'
  OBVIOUS
<1>1. kind' = kind /\ "loop" \in Tasks /\ Requests \subseteq Tasks /\ "loop" \notin Requests
  BY KindStays, ChannelAssumption DEF Tasks
<1>2. phase' \in {"new", "starting"} => phase \in {"new", "starting"}
  <2>1. CASE Busy
    BY <2>1 DEF Busy, StartEnds, AgentTakes, Post, PollTick, PollStops, Request, GuestReads, GuestFetches, Returns,
                Traps, TimesOut, ReadTx, LockLimiter, Limited, Admitted, Sends, Dispatched, TakeEvent,
                DispatchStops, DispatchAborted, Ready, Event, ConnStep, channel
  <2>2. CASE UNCHANGED vars \/ Start \/ StartFails \/ AgentLeaves \/ Shutdown \/ ShutdownQueues \/ ShutdownClears
    BY <2>2 DEF vars, Start, StartFails, AgentLeaves, Shutdown, ShutdownQueues, ShutdownClears, channel
  <2>3. \A c : ConnStep(c) => UNCHANGED phase
    BY DEF ConnStep, channel
  <2>4. ConnCheck \/ Connect \/ Pause \/ ConnStops \/ Closed \/ Ack \/ Hello \/ Heartbeat => \E c : ConnStep(c)
    BY Zenon DEF ConnCheck, Connect, Pause, ConnStops, Closed, Ack, Hello, Heartbeat
  <2> QED BY <2>1, <2>2, <2>3, <2>4, StepKinds DEF Quiet
<1>3. CASE task' = task
  BY <1>1, <1>2, <1>3 DEF CallInv, TaskPart
<1>4. ASSUME NEW e \in Tasks, TaskChange(e) PROVE TaskPart'
  <2>1. Idle.at = "idle" /\ Off.at = "off" /\ Idle.batch = <<>> /\ Off.batch = <<>>
    BY DEF Idle, Off
  <2>2. (task'[e].at \in Waits => task'[e].batch = <<>>) /\ (task'[e].at = "room" => task'[e].batch # <<>>)
    BY <1>4, <2>1 DEF TaskChange, CallInv, Waits
  <2>3. kind # "web" /\ e \in Requests => task'[e].at = "off"
    BY <1>1, <1>4, <2>1 DEF TaskChange, CallInv
  <2>4. phase' \in {"new", "starting"} /\ e = "loop" => task'[e].at = "off"
    BY <1>1, <1>2, <1>4, <2>1 DEF TaskChange, CallInv
  <2> QED BY <1>1, <1>2, <1>4, <2>2, <2>3, <2>4 DEF TaskChange, CallInv, TaskPart
<1> QED BY <1>3, <1>4, TaskSteps

\* Callbacks that go on as they were, one of them changed or gone.
LEMMA CallPartStep == ShapeOK /\ BoundInv /\ CallInv /\ RequestInv /\ [Next]_vars => CallPart'
<1> SUFFICES ASSUME ShapeOK, BoundInv, CallInv, RequestInv, [Next]_vars PROVE CallPart'
  OBVIOUS
<1>0. kind' = kind /\ "loop" \in Tasks /\ Requests \subseteq Tasks /\ "loop" \notin Requests
  BY KindStays, ChannelAssumption DEF Tasks
<1>c. \A c \in calls : c \in Callback /\ c.of \in Tasks
  BY DEF ShapeOK, Callback
<1>1. CASE calls' = calls /\ \A e \in Tasks : task[e].at = "wait" => task'[e].at = "wait"
  BY <1>0, <1>c, <1>1 DEF CallInv, CallPart
<1>2. ASSUME NEW e \in Tasks, task[e].at # "wait", task'[e].at = "wait", \A f \in Tasks : f # e => task'[f] = task[f],
             NEW c \in Callback, calls' = calls \cup {c}, c.of = e,
             kind # "web" => e = "loop", kind # "poll" => c.at = "got"
      PROVE  CallPart'
  <2>1. \A d \in calls : d.awaited => d.of # e
    BY <1>2 DEF CallInv
  <2> QED BY <1>0, <1>c, <1>2, <2>1 DEF CallInv, CallPart
<1>3. ASSUME NEW c \in calls, calls' = calls \ {c},
             IF c.awaited THEN \A f \in Tasks : f # c.of => task'[f] = task[f] ELSE task' = task
      PROVE  CallPart'
  <2>1. \A d \in calls' : d.awaited => task'[d.of] = task[d.of]
    <3> SUFFICES ASSUME NEW d \in calls', d.awaited PROVE task'[d.of] = task[d.of]
      OBVIOUS
    <3>1. d \in calls /\ d # c
      BY <1>3
    <3>2. CASE c.awaited
      <4>1. d.of # c.of
        BY <3>1, <3>2 DEF CallInv
      <4> QED BY <1>3, <1>c, <3>1, <3>2, <4>1
    <3> QED BY <1>3, <3>2
  <2> QED BY <1>0, <1>3, <2>1 DEF CallInv, CallPart
<1>4. ASSUME NEW c \in calls, NEW d, Becomes(c, d), d.awaited => c.awaited, kind # "poll" => d.at = "got",
             IF c.awaited /\ ~d.awaited THEN \A f \in Tasks : f # c.of => task'[f] = task[f] ELSE task' = task
      PROVE  CallPart'
  <2>1. \A x \in calls' : x = d \/ (x \in calls /\ x # c)
    BY <1>4 DEF Becomes
  <2>2. d.of = c.of
    BY <1>4 DEF Becomes
  <2>3. \A x \in calls' : x.awaited => task'[x.of].at = "wait"
    <3> SUFFICES ASSUME NEW x \in calls', x.awaited PROVE task'[x.of].at = "wait"
      OBVIOUS
    <3>1. CASE x = d
      BY <1>4, <2>2, <3>1 DEF CallInv
    <3>2. CASE x \in calls /\ x # c
      <4>1. c.awaited => x.of # c.of
        BY <3>2 DEF CallInv
      <4> QED BY <1>4, <1>c, <3>2, <4>1 DEF CallInv
    <3> QED BY <2>1, <3>1, <3>2
  <2>4. \A x, y \in calls' : x.awaited /\ y.awaited /\ x.of = y.of => x = y
    BY <1>4, <2>1, <2>2 DEF CallInv
  <2>5. \A x \in calls' : (kind # "web" => x.of = "loop") /\ (kind # "poll" => x.at = "got")
    BY <1>4, <2>1, <2>2 DEF CallInv
  <2> QED BY <1>0, <2>3, <2>4, <2>5 DEF CallPart
<1>5. CASE UNCHANGED vars \/ Quiet \/ AgentTakes \/ Post \/ Ready \/ Event
  <2>1. task' = task /\ calls' = calls
    BY <1>5, QuietFacts DEF vars, Traffic, AgentTakes, Post, Ready, Event, ConnStep, delivery, guest
  <2> QED BY <1>1, <2>1
<1>6. CASE StartEnds \/ PollStops \/ DispatchStops
  <2>1. calls' = calls /\ task["loop"].at # "wait"
    BY <1>6 DEF StartEnds, PollStops, DispatchStops, CallInv, guest
  <2>2. \A f \in Tasks : f # "loop" => task'[f] = task[f]
    BY <1>6 DEF StartEnds, PollStops, DispatchStops, ShapeOK
  <2> QED BY <1>1, <2>1, <2>2
<1>7. CASE PollTick
  <2>1. Called("loop", "called", <<>>) /\ task["loop"].at = "idle" /\ kind = "poll"
    BY <1>7, Calls DEF PollTick
  <2>2. PICK c \in Callback : calls' = calls \cup {c} /\ c.of = "loop"
    BY <2>1 DEF Called
  <2>3. task'["loop"].at = "wait" /\ \A f \in Tasks : f # "loop" => task'[f] = task[f]
    BY <2>1 DEF Called
  <2> QED BY <1>0, <1>2, <2>1, <2>2, <2>3
<1>8. CASE TakeEvent
  <2>1. Called("loop", "got", <<Head(queue)>>) /\ task["loop"].at = "idle"
    BY <1>8, Calls DEF TakeEvent
  <2>2. PICK c \in Callback : calls' = calls \cup {c} /\ c.of = "loop" /\ c.at = "got"
    BY <2>1 DEF Called
  <2>3. task'["loop"].at = "wait" /\ \A f \in Tasks : f # "loop" => task'[f] = task[f]
    BY <2>1 DEF Called
  <2> QED BY <1>0, <1>2, <2>1, <2>2, <2>3
<1>9. ASSUME NEW r \in Requests, Request(r) PROVE CallPart'
  <2>1. PICK b \in Seq(Nat) : Called(r, "got", b) /\ task[r].at = "off" /\ kind = "web"
    BY <1>9, RequestFacts, Calls
  <2>2. PICK c \in Callback : calls' = calls \cup {c} /\ c.of = r /\ c.at = "got"
    BY <2>1 DEF Called
  <2>3. task'[r].at = "wait" /\ \A f \in Tasks : f # r => task'[f] = task[f]
    BY <2>1 DEF Called
  <2> QED BY <1>0, <1>2, <2>1, <2>2, <2>3
<1>10. ASSUME NEW c \in calls, GuestReads(c) \/ GuestFetches(c) PROVE CallPart'
  <2>1. task' = task
    BY <1>10 DEF GuestReads, GuestFetches, delivery
  <2>2. PICK d : Becomes(c, d) /\ d.awaited = c.awaited /\ (d.at = "got" \/ GuestReads(c))
    BY <1>10, GuestFacts
  <2>3. kind # "poll" => d.at = "got"
    BY <2>2 DEF GuestReads, CallInv
  <2> QED BY <1>4, <2>1, <2>2, <2>3
<1>11. ASSUME NEW c \in calls, Returns(c) \/ Traps(c) PROVE CallPart'
  <2>1. calls' = calls \ {c}
    BY <1>11 DEF Returns, Traps
  <2>2. IF c.awaited THEN \A f \in Tasks : f # c.of => task'[f] = task[f] ELSE task' = task
    <3>1. CASE Returns(c)
      BY <3>1 DEF Returns, ShapeOK
    <3>2. CASE Traps(c)
      BY <3>2, <1>c, EndFacts DEF Traps
    <3> QED BY <1>11, <3>1, <3>2
  <2> QED BY <1>3, <2>1, <2>2
<1>12. ASSUME NEW c \in calls, TimesOut(c) PROVE CallPart'
  <2>1. PICK d : Becomes(c, d) /\ ~d.awaited /\ d.at = c.at
    BY <1>12, GuestFacts
  <2>2. c.awaited /\ \A f \in Tasks : f # c.of => task'[f] = task[f]
    BY <1>12, <1>c, EndFacts DEF TimesOut
  <2>3. kind # "poll" => d.at = "got"
    BY <2>1 DEF CallInv
  <2> QED BY <1>4, <2>1, <2>2, <2>3
<1>13. ASSUME NEW e \in Tasks, ReadTx(e) \/ LockLimiter(e) \/ Limited(e) \/ Admitted(e) \/ Sends(e) \/ Dispatched(e)
       PROVE  CallPart'
  <2>1. calls' = calls /\ task[e].at # "wait"
    BY <1>13 DEF ReadTx, LockLimiter, Limited, Admitted, Sends, Dispatched, guest
  <2>2. \A f \in Tasks : f # e => task'[f] = task[f]
    <3>1. CASE \E st \in {"ok", "error"} : EndsWith(e, st)
      BY <3>1, EndFacts
    <3>2. CASE (\E p : task' = [task EXCEPT ![e].at = p]) \/ \E x : task' = [task EXCEPT ![e] = x]
      BY <3>2 DEF ShapeOK
    <3>3. (\E st \in {"ok", "error"} : EndsWith(e, st)) \/ (\E p : task' = [task EXCEPT ![e].at = p])
          \/ \E x : task' = [task EXCEPT ![e] = x]
      BY <1>13, SendFacts DEF ReadTx, LockLimiter, Limited, Admitted, Dispatched
    <3> QED BY <3>1, <3>2, <3>3
  <2> QED BY <1>1, <2>1, <2>2
<1>14. CASE DispatchAborted
  <2>1. \A d \in calls' : ~d.awaited /\ \E c \in calls : d.of = c.of /\ d.at = c.at
    BY <1>14, AbortFacts DEF DispatchAborted
  <2> QED BY <1>0, <2>1 DEF CallInv, CallPart
<1> QED BY <1>5, <1>6, <1>7, <1>8, <1>9, <1>10, <1>11, <1>12, <1>13, <1>14, StepKinds DEF Busy

\* A task waits for its own callback, and has a batch only while it delivers.
LEMMA CallStep == ShapeOK /\ BoundInv /\ CallInv /\ RequestInv /\ [Next]_vars => CallInv'
<1>1. TaskPart' /\ CallPart' => CallInv'
  BY DEF TaskPart, CallPart, CallInv
<1> QED BY <1>1, TaskPartStep, CallPartStep

-----------------------------------------------------------------------------
(* Numbers of messages.                                                    *)

\* A bound may grow.
LEMMA UnderMore ==
    ASSUME NEW s \in Seq(Nat), NEW m \in Nat, NEW n \in Nat, m <= n, Under(s, m)
    PROVE  Under(s, n)
  BY DEF Under

\* The rest of a queue, and a queue with one more.
LEMMA TailFacts ==
    ASSUME NEW s \in Seq(Nat), s # <<>>
    PROVE  /\ Head(s) \in Nat /\ Tail(s) \in Seq(Nat) /\ <<Head(s)>> \in Seq(Nat)
           /\ \A n \in Nat : Under(s, n) => Under(Tail(s), n) /\ Under(<<Head(s)>>, n) /\ Head(s) < n
           /\ \A u : Before(u, s) => Before(u, Tail(s)) /\ Before(u, <<Head(s)>>)
           /\ Increasing(s) => Increasing(Tail(s)) /\ Before(<<Head(s)>>, Tail(s))
           /\ Increasing(<<Head(s)>>) /\ Len(<<Head(s)>>) = 1
<1> DEFINE t == Tail(s)
           h == <<Head(s)>>
<1>1. t \in Seq(Nat) /\ DOMAIN t = 1 .. Len(s) - 1 /\ Len(s) >= 1 /\ DOMAIN s = 1 .. Len(s) /\ Len(s) \in Nat
  OBVIOUS
<1>2. \A j \in 1 .. Len(s) - 1 : t[j] = s[j + 1]
  OBVIOUS
<1>3. h \in Seq(Nat) /\ DOMAIN h = {1} /\ h[1] = s[1] /\ Head(s) = s[1] /\ Head(s) \in Nat /\ Len(h) = 1
  OBVIOUS
<1> HIDE DEF t, h
<1>4. (\A j \in DOMAIN t : j \in Nat /\ j + 1 \in DOMAIN s /\ 1 < j + 1 /\ t[j] = s[j + 1]) /\ 1 \in DOMAIN s
  BY <1>1, <1>2
<1>5. \A n \in Nat : Under(s, n) => Under(t, n) /\ Under(h, n) /\ s[1] < n
  BY <1>3, <1>4 DEF Under
<1>6. \A u : Before(u, s) => Before(u, t) /\ Before(u, h)
  BY <1>3, <1>4 DEF Before
<1>7. Increasing(s) => Increasing(t) /\ Before(h, t)
  <2>1. Increasing(s) => Increasing(t)
    BY <1>4 DEF Increasing
  <2>2. Increasing(s) => Before(h, t)
    BY <1>3, <1>4 DEF Increasing, Before
  <2> QED BY <2>1, <2>2
<1>8. Increasing(h)
  BY <1>3 DEF Increasing
<1> QED BY <1>1, <1>3, <1>5, <1>6, <1>7, <1>8 DEF t, h

\* A queue with one more.
LEMMA AppendFacts ==
    ASSUME NEW s \in Seq(Nat), NEW x \in Nat
    PROVE  /\ Append(s, x) \in Seq(Nat)
           /\ \A n \in Nat : Under(s, n) /\ x < n => Under(Append(s, x), n)
           /\ Increasing(s) /\ Under(s, x) => Increasing(Append(s, x))
           /\ \A u \in Seq(Nat) : Before(u, s) /\ Under(u, x) => Before(u, Append(s, x))
<1> DEFINE t == Append(s, x)
<1>1. t \in Seq(Nat) /\ DOMAIN t = 1 .. Len(s) + 1 /\ DOMAIN s = 1 .. Len(s) /\ Len(s) \in Nat /\ t[Len(s) + 1] = x
      /\ \A i \in DOMAIN s : t[i] = s[i]
  OBVIOUS
<1> HIDE DEF t
<1>2. \A i \in DOMAIN t : \/ i \in DOMAIN s /\ t[i] = s[i] /\ i < Len(s) + 1
                          \/ i = Len(s) + 1 /\ t[i] = x
  BY <1>1
<1>3. \A n \in Nat : Under(s, n) /\ x < n => Under(t, n)
  BY <1>2 DEF Under
<1>4. Increasing(s) /\ Under(s, x) => Increasing(t)
  BY <1>1, <1>2 DEF Increasing, Under
<1>5. \A u \in Seq(Nat) : Before(u, s) /\ Under(u, x) => Before(u, t)
  BY <1>2 DEF Before, Under
<1> QED BY <1>1, <1>3, <1>4, <1>5 DEF t

\* Nobody learns of a message before it is there.
LEMMA BoundStep == ShapeOK /\ BoundInv /\ CallInv /\ RequestInv /\ [Next]_vars => BoundInv'
<1> SUFFICES ASSUME ShapeOK, BoundInv, CallInv, RequestInv, [Next]_vars PROVE BoundInv'
  OBVIOUS
<1>0. /\ posted \in Nat /\ offset \in Nat /\ confirmed \in Nat /\ queue \in Seq(Nat)
      /\ \A c \in calls : c \in Callback /\ c.of \in Tasks /\ c.batch \in Seq(Nat) /\ c.offset \in Nat
      /\ \A r \in Requests : request[r].ids \in Seq(Nat)
  BY DEF ShapeOK, Callback
<1> DEFINE Known(c) == c.offset <= posted' + 1 /\ Under(c.batch, posted' + 1)
           SameIds == \A r \in Requests : request'[r].ids = request[r].ids
<1>1. ASSUME posted' \in Nat, posted' >= posted
      PROVE  /\ offset <= posted' + 1 /\ confirmed <= posted' + 1 /\ Under(queue, posted' + 1)
             /\ \A c \in calls : Known(c)
             /\ \A r \in Requests : Under(request[r].ids, posted' + 1)
  <2>0. posted \in Nat
    BY <1>0
  <2>1. posted + 1 \in Nat /\ posted' + 1 \in Nat /\ posted + 1 <= posted' + 1
    <3>1. \A m, n \in Nat : m >= n => n + 1 \in Nat /\ m + 1 \in Nat /\ n + 1 <= m + 1
      OBVIOUS
    <3> QED BY <1>1, <2>0, <3>1
  <2>2. \A s \in Seq(Nat) : Under(s, posted + 1) => Under(s, posted' + 1)
    BY <2>1, UnderMore
  <2>3. \A n \in Nat : n <= posted + 1 => n <= posted' + 1
    BY <2>1
  <2> QED BY <1>0, <2>2, <2>3 DEF BoundInv
<1>2. CASE /\ posted' = posted /\ UNCHANGED <<offset, confirmed>> /\ queue' \in {queue, <<>>} /\ SameIds
           /\ \A d \in calls' : \E c \in calls : d.offset = c.offset /\ d.batch = c.batch
  <2>1. posted' \in Nat /\ posted' >= posted
    BY <1>0, <1>2
  <2>2. Under(<<>>, posted' + 1)
    BY DEF Under
  <2> QED BY <1>1, <1>2, <2>1, <2>2 DEF BoundInv
<1> HIDE DEF Known
<1>3. CASE UNCHANGED vars \/ Quiet \/ AgentTakes \/ Ready \/ StartEnds \/ PollStops
  <2>1. UNCHANGED <<posted, offset, confirmed, queue, request, calls>>
    BY <1>3, QuietFacts DEF vars, Traffic, AgentTakes, Ready, StartEnds, PollStops, ConnStep, delivery, guest, broker
  <2> QED BY <1>2, <2>1
<1>13. CASE DispatchStops
  <2>1. UNCHANGED <<posted, offset, confirmed, request, calls>> /\ queue' = <<>>
    BY <1>13 DEF DispatchStops, guest
  <2> QED BY <1>2, <2>1
<1>4. CASE Post \/ Event
  <2>1. UNCHANGED <<offset, confirmed, request, calls>> /\ posted' = posted + 1
        /\ (queue' = queue \/ queue' = Append(queue, posted + 1))
    BY <1>4 DEF Post, Event, delivery, guest, broker
  <2>2. posted' \in Nat /\ posted' >= posted /\ posted + 1 < posted' + 1 /\ posted + 1 \in Nat /\ posted' + 1 \in Nat
    BY <1>0, <2>1
  <2>3. Under(queue', posted' + 1)
    BY <1>0, <1>1, <2>1, <2>2, AppendFacts
  <2> QED BY <1>1, <2>1, <2>2, <2>3 DEF BoundInv, Known
<1>5. CASE PollTick
  <2>1. UNCHANGED <<posted, offset, confirmed, queue, request>> /\ Called("loop", "called", <<>>)
    BY <1>5, Calls DEF PollTick, broker
  <2>2. \A d \in calls' : d \in calls \/ (d.offset = 0 /\ d.batch = <<>>)
    BY <2>1 DEF Called
  <2>3. posted' \in Nat /\ posted' >= posted /\ 0 <= posted' + 1 /\ Under(<<>>, posted' + 1)
    BY <1>0, <2>1 DEF Under
  <2> QED BY <1>1, <2>1, <2>2, <2>3 DEF BoundInv, Known
<1>6. CASE TakeEvent
  <2>1. UNCHANGED <<posted, offset, confirmed, request>> /\ Called("loop", "got", <<Head(queue)>>)
        /\ queue # <<>> /\ queue' = Tail(queue)
    BY <1>6, Calls DEF TakeEvent
  <2>2. \A d \in calls' : d \in calls \/ (d.offset = 0 /\ d.batch = <<Head(queue)>>)
    BY <2>1 DEF Called
  <2>3. posted' \in Nat /\ posted' >= posted /\ 0 <= posted' + 1 /\ posted' + 1 \in Nat
    BY <1>0, <2>1
  <2>4. Under(queue', posted' + 1) /\ Under(<<Head(queue)>>, posted' + 1)
    BY <1>0, <1>1, <2>1, <2>3, TailFacts
  <2> QED BY <1>1, <2>1, <2>2, <2>3, <2>4 DEF BoundInv, Known
<1>7. ASSUME NEW r \in Requests, Request(r) PROVE BoundInv'
  <2>1. PICK b \in Seq(Nat) :
          /\ Call(r, "got", b) /\ request'[r] = [ids |-> b, status |-> "asked"]
          /\ \A q \in Requests : q # r => request'[q] = request[q]
          /\ \/ (\E k \in 1 .. MaxPosts : posted' = posted + k) /\ Under(b, posted' + 1)
             \/ posted' = posted /\ b = request[r].ids
    BY <1>7, RequestFacts
  <2>2. \A d \in calls' : d \in calls \/ (d.offset = 0 /\ d.batch = b)
    <3>1. Called(r, "got", b)
      BY <2>1, Calls
    <3> QED BY <3>1 DEF Called
  <2>3. posted' \in Nat /\ posted' >= posted /\ 0 <= posted' + 1
    BY <1>0, <2>1, ChannelAssumption
  <2>4. Under(b, posted' + 1)
    BY <1>1, <2>1, <2>3
  <2>5. \A q \in Requests : Under(request'[q].ids, posted' + 1)
    BY <1>1, <2>1, <2>3, <2>4
  <2>6. UNCHANGED <<offset, confirmed, queue>>
    BY <1>7 DEF Request, broker
  <2> QED BY <1>1, <2>2, <2>3, <2>4, <2>5, <2>6 DEF BoundInv, Known
<1>8. ASSUME NEW c \in calls, GuestReads(c) \/ GuestFetches(c) PROVE BoundInv'
  <2>1. UNCHANGED <<posted, offset, queue, request>>
    BY <1>8 DEF GuestReads, GuestFetches, delivery, broker
  <2>2. posted' \in Nat /\ posted' >= posted
    BY <1>0, <2>1
  <2>3. PICK d : /\ Becomes(c, d) /\ d.offset \in {offset, c.offset}
                 /\ confirmed' \in {confirmed, c.offset}
                 /\ \/ d.batch = c.batch
                    \/ \E a \in Nat : /\ a \in {1, confirmed, c.offset} /\ a >= 1
                                      /\ d.batch = Prefix(Ids(a, posted), Page)
    <3>1. CASE GuestReads(c)
      BY <3>1, GuestFacts, SMTT(30), ZenonT(30) DEF GuestReads
    <3>2. CASE GuestFetches(c)
      BY <3>2, GuestFacts
    <3> QED BY <1>8, <3>1, <3>2
  <2>4. Under(d.batch, posted' + 1)
    <3>1. ASSUME NEW a \in Nat, a \in {1, confirmed, c.offset}, a >= 1, d.batch = Prefix(Ids(a, posted), Page)
          PROVE  Under(d.batch, posted' + 1)
      <4>1. a <= posted + 1
        BY <1>0, <3>1 DEF BoundInv
      <4> QED BY <2>1, <3>1, <4>1, PageFacts
    <3> QED BY <1>1, <2>2, <2>3, <3>1 DEF Known
  <2>5. \A x \in calls' : x \in calls \/ x = d
    BY <2>3 DEF Becomes
  <2>6. Known(d) /\ confirmed' <= posted' + 1
    BY <1>1, <2>2, <2>3, <2>4 DEF Known
  <2> QED BY <1>1, <2>1, <2>2, <2>5, <2>6 DEF BoundInv, Known
<1>9. ASSUME NEW c \in calls, Returns(c) PROVE BoundInv'
  <2>1. UNCHANGED <<posted, confirmed, queue, request>> /\ calls' = calls \ {c} /\ offset' \in {offset, NextOffset(c)}
    BY <1>9 DEF Returns, broker
  <2>2. NextOffset(c) <= posted + 1
    <3>1. CASE c.batch = <<>>
      BY <3>1 DEF NextOffset, BoundInv
    <3>2. CASE c.batch # <<>>
      <4>1. Len(c.batch) \in DOMAIN c.batch /\ c.batch[Len(c.batch)] \in Nat
        BY <1>0, <3>2
      <4>2. c.batch[Len(c.batch)] < posted + 1
        BY <4>1 DEF BoundInv, Under
      <4> QED BY <1>0, <3>2, <4>1, <4>2 DEF NextOffset, Last
    <3> QED BY <3>1, <3>2
  <2>3. posted' \in Nat /\ posted' >= posted
    BY <1>0, <2>1
  <2> QED BY <1>1, <2>1, <2>2, <2>3 DEF BoundInv, Known
<1>10. ASSUME NEW c \in calls, Traps(c) \/ TimesOut(c) PROVE BoundInv'
  <2>1. UNCHANGED <<posted, offset, confirmed, queue>>
    BY <1>10 DEF Traps, TimesOut, broker
  <2>2. SameIds
    <3>1. request' = request \/ EndsWith(c.of, "error")
      BY <1>10 DEF Traps, TimesOut
    <3> QED BY <1>0, <3>1, EndFacts
  <2>3. \A d \in calls' : \E x \in calls : d.offset = x.offset /\ d.batch = x.batch
    <3>1. CASE Traps(c)
      BY <3>1 DEF Traps
    <3>2. CASE TimesOut(c)
      BY <3>2, GuestFacts DEF Becomes
    <3> QED BY <1>10, <3>1, <3>2
  <2> QED BY <1>2, <2>1, <2>2, <2>3
<1>11. ASSUME NEW e \in Tasks, ReadTx(e) \/ LockLimiter(e) \/ Limited(e) \/ Admitted(e) \/ Sends(e) \/ Dispatched(e)
       PROVE  BoundInv'
  <2>1. UNCHANGED <<posted, offset, confirmed, queue, calls>>
    BY <1>11 DEF ReadTx, LockLimiter, Limited, Admitted, Sends, Dispatched, guest, broker
  <2>2. request' = request \/ \E st \in {"ok", "error"} : EndsWith(e, st)
    BY <1>11 DEF ReadTx, LockLimiter, Limited, Admitted, Sends, Dispatched
  <2>3. SameIds
    BY <2>2, EndFacts
  <2> QED BY <1>2, <2>1, <2>3
<1>12. CASE DispatchAborted
  <2>1. UNCHANGED <<posted, offset, confirmed, request>> /\ queue' = <<>>
    BY <1>12 DEF DispatchAborted
  <2>2. \A d \in calls' : \E c \in calls : d.offset = c.offset /\ d.batch = c.batch
    BY <1>12, AbortFacts DEF DispatchAborted
  <2> QED BY <1>2, <2>1, <2>2
<1> QED BY <1>3, <1>4, <1>5, <1>6, <1>7, <1>8, <1>9, <1>10, <1>11, <1>12, <1>13, StepKinds DEF Busy

-----------------------------------------------------------------------------
(* Webhook requests.                                                       *)

\* What has reached the queue of the agent stays there, or is taken.
LEMMA ReachedGrows == ShapeOK /\ CallInv /\ [Next]_vars => Reached \subseteq Reached'
<1> SUFFICES ASSUME ShapeOK, CallInv, [Next]_vars PROVE Reached \subseteq Reached'
  OBVIOUS
<1>0. inbox \in Seq(Nat) /\ taken \in Seq(Nat)
  BY DEF ShapeOK
<1>1. CASE UNCHANGED <<inbox, taken>>
  BY <1>1 DEF Reached
<1>2. CASE AgentTakes
  <2>1. inbox # <<>> /\ taken' = Append(taken, Head(inbox)) /\ inbox' = Tail(inbox) /\ Head(inbox) \in Nat
    BY <1>0, <1>2 DEF AgentTakes
  <2>2. ToSet(taken') = ToSet(taken) \cup {Head(inbox)} /\ ToSet(inbox) = {Head(inbox)} \cup ToSet(inbox')
    BY <1>0, <2>1, Elements
  <2> QED BY <2>2 DEF Reached
<1>3. ASSUME NEW e \in Tasks, Sends(e) PROVE Reached \subseteq Reached'
  <2>0. task[e].batch \in Seq(Nat) /\ task[e].batch # <<>> /\ Head(task[e].batch) \in Nat
    BY <1>3 DEF Sends, CallInv, ShapeOK, Task
  <2>1. taken' = taken /\ (inbox' = inbox \/ inbox' = Append(inbox, Head(task[e].batch)))
    BY <1>3 DEF Sends
  <2>2. ToSet(Append(inbox, Head(task[e].batch))) = ToSet(inbox) \cup {Head(task[e].batch)}
    BY <1>0, <2>0, Elements
  <2> QED BY <2>1, <2>2 DEF Reached
<1>4. CASE UNCHANGED vars \/ Quiet \/ StartEnds \/ Post \/ PollTick \/ PollStops \/ TakeEvent \/ DispatchStops \/ DispatchAborted
           \/ Ready \/ Event \/ \E r \in Requests : Request(r)
  <2>1. UNCHANGED <<inbox, taken>>
    BY <1>4, QuietFacts DEF vars, Traffic, StartEnds, Post, PollTick, PollStops, TakeEvent, DispatchStops, DispatchAborted,
       Ready, Event, ConnStep, Request, delivery
  <2> QED BY <1>1, <2>1
<1>5. ASSUME NEW c, GuestReads(c) \/ GuestFetches(c) \/ Returns(c) \/ Traps(c) \/ TimesOut(c) PROVE UNCHANGED <<inbox, taken>>
  BY <1>5 DEF GuestReads, GuestFetches, Returns, Traps, TimesOut, delivery
<1>6. ASSUME NEW e, ReadTx(e) \/ LockLimiter(e) \/ Limited(e) \/ Admitted(e) \/ Dispatched(e) PROVE UNCHANGED <<inbox, taken>>
  BY <1>6 DEF ReadTx, LockLimiter, Limited, Admitted, Dispatched
<1> QED BY <1>1, <1>2, <1>3, <1>4, <1>5, <1>6, StepKinds DEF Busy

\* A request is acknowledged only when its messages have reached the queue.
LEMMA RequestStep == ShapeOK /\ BoundInv /\ CallInv /\ RequestInv /\ [Next]_vars => RequestInv'
<1> SUFFICES ASSUME ShapeOK, BoundInv, CallInv, RequestInv, [Next]_vars, NEW r \in Requests PROVE Proper(r)'
  BY DEF RequestInv
<1>0. /\ kind' = kind /\ faults \subseteq faults' /\ Reached \subseteq Reached'
      /\ r \in Tasks /\ r # "loop" /\ Requests \subseteq Tasks /\ Proper(r)
      /\ task[r] \in Task /\ request[r] \in [ids : Seq(Nat), status : {"new", "asked", "ok", "error"}]
  BY KindStays, ReachedGrows, ChannelAssumption DEF Tasks, RequestInv, ShapeOK
<1>c. \A c \in calls : c \in Callback /\ c.of \in Tasks
  BY DEF ShapeOK, Callback
<1>d. CallInv'
  BY CallStep
<1> DEFINE Owned == \A d \in calls' : d.of = r /\ d.awaited => \E c \in calls : c.of = r /\ c.awaited /\ c.batch = d.batch
<1>1. ASSUME request'[r] = request[r], task'[r] = task[r], Owned PROVE Proper(r)'
  BY <1>0, <1>1 DEF Proper, Due
<1>2. ASSUME request'[r] = request[r], task'[r] = [at |-> task'[r].at, batch |-> task[r].batch],
             task[r].at \in Delivers, task'[r].at \in Delivers, Owned
      PROVE  Proper(r)'
  <2>1. task'[r].batch = task[r].batch /\ task'[r].at \notin {"idle", "off"} /\ task[r].at # "off"
    BY <1>2 DEF Delivers
  <2> QED BY <1>0, <1>2, <2>1 DEF Proper, Due
<1>3. ASSUME NEW st \in {"ok", "error"}, EndsWith(r, st), task[r].at # "off",
             st = "ok" => Due(r) \subseteq Reached \/ "nosender" \in faults'
      PROVE  Proper(r)'
  <2>1. task'[r] = Off /\ request'[r] = [ids |-> request[r].ids, status |-> st]
    BY <1>0, <1>3, EndFacts
  <2>2. task'[r].at = "off" /\ request'[r].ids = request[r].ids /\ request'[r].status = st
    BY <2>1 DEF Off
  <2>3. \A d \in calls' : ~(d.of = r /\ d.awaited)
    BY <1>d, <2>2 DEF CallInv
  <2>4. request[r].ids # <<>>
    BY <1>0, <1>3 DEF Proper
  <2> QED BY <1>0, <1>3, <2>2, <2>3, <2>4 DEF Proper, Delivers, Due
<1>4. CASE UNCHANGED vars \/ Quiet \/ AgentTakes \/ Post \/ Ready \/ Event
  <2>1. UNCHANGED <<task, request, calls>>
    BY <1>4, QuietFacts DEF vars, Traffic, AgentTakes, Post, Ready, Event, ConnStep, delivery, guest
  <2> QED BY <1>1, <2>1
<1>5. CASE StartEnds \/ PollStops \/ DispatchStops
  <2>1. UNCHANGED <<request, calls>>
    BY <1>5 DEF StartEnds, PollStops, DispatchStops, guest
  <2>2. task'[r] = task[r]
    BY <1>0, <1>5 DEF StartEnds, PollStops, DispatchStops, ShapeOK
  <2> QED BY <1>1, <2>1, <2>2
<1>6. CASE PollTick \/ TakeEvent
  <2>1. request' = request /\ \E p, b : Called("loop", p, b)
    BY <1>6, Calls DEF PollTick, TakeEvent
  <2>2. task'[r] = task[r] /\ \A d \in calls' : d.of = r => d \in calls
    BY <1>0, <2>1 DEF Called
  <2> QED BY <1>1, <2>1, <2>2
<1>7. ASSUME NEW q \in Requests, Request(q) PROVE Proper(r)'
  <2>1. PICK b \in Seq(Nat) :
          /\ Call(q, "got", b) /\ task[q].at = "off" /\ request'[q] = [ids |-> b, status |-> "asked"]
          /\ \A p \in Requests : p # q => request'[p] = request[p]
          /\ \/ \E k \in 1 .. MaxPosts : Len(b) = k
             \/ request[q].status = "error" /\ b = request[q].ids
    BY <1>7, RequestFacts
  <2>2. Called(q, "got", b)
    BY <2>1, Calls
  <2>3. CASE q # r
    <3>1. task'[r] = task[r] /\ request'[r] = request[r] /\ \A d \in calls' : d.of = r => d \in calls
      BY <1>0, <2>1, <2>2, <2>3 DEF Called
    <3> QED BY <1>1, <3>1
  <2>4. CASE q = r
    <3>1. b # <<>>
      <4>1. CASE \E k \in 1 .. MaxPosts : Len(b) = k
        BY <4>1, ChannelAssumption
      <4>2. CASE request[q].status = "error" /\ b = request[q].ids
        BY <1>0, <2>4, <4>2 DEF Proper
      <4> QED BY <2>1, <4>1, <4>2
    <3>2. task'[r].at = "wait" /\ request'[r].ids = b /\ request'[r].status = "asked"
      BY <2>1, <2>2, <2>4 DEF Called
    <3>3. \A d \in calls' : d.of = r /\ d.awaited => d.batch = b
      <4>1. \A d \in calls : ~(d.of = r /\ d.awaited)
        BY <2>1, <2>4 DEF CallInv
      <4> QED BY <2>2, <4>1 DEF Called
    <3> QED BY <3>1, <3>2, <3>3 DEF Proper, Delivers
  <2> QED BY <2>3, <2>4
<1>8. ASSUME NEW c \in calls, GuestReads(c) \/ GuestFetches(c) PROVE Proper(r)'
  <2>1. UNCHANGED <<task, request>>
    BY <1>8 DEF GuestReads, GuestFetches, delivery
  <2>2. PICK d : Becomes(c, d) /\ d.awaited = c.awaited /\ (d.batch = c.batch \/ GuestFetches(c))
    BY <1>8, GuestFacts
  <2>3. kind = "poll" \/ c.at = "got"
    BY DEF CallInv
  <2>4. kind = "poll" /\ d.of = "loop"
    BY <1>8, <2>2, <2>3 DEF GuestReads, GuestFetches, CallInv, Becomes
  <2>5. \A x \in calls' : x.of = r => x \in calls
    BY <1>0, <2>2, <2>4 DEF Becomes
  <2> QED BY <1>1, <2>1, <2>5
<1>9. ASSUME NEW c \in calls, Returns(c) PROVE Proper(r)'
  <2>1. request' = request /\ calls' = calls \ {c}
    BY <1>9 DEF Returns
  <2>2. CASE c.of = r /\ c.awaited
    <3>1. c.batch = request[r].ids /\ task[r].at = "wait"
      BY <2>2, <1>0 DEF Proper, CallInv
    <3>2. request[r].status = "asked" /\ c.batch # <<>>
      BY <1>0, <3>1 DEF Proper
    <3>3. task'[r] = [at |-> "tx", batch |-> Emitted(c.batch)]
      BY <1>0, <1>9, <2>2, <3>2 DEF Returns, ShapeOK
    <3>5. task'[r].at = "tx" /\ ToSet(task'[r].batch) = Due(r)
      BY <3>1, <3>3 DEF Emitted, Due
    <3>4. Due(r)' = Due(r)
      BY <2>1 DEF Due
    <3>6. \A d \in calls' : ~(d.of = r /\ d.awaited)
      BY <1>d, <3>5 DEF CallInv
    <3> QED BY <1>0, <2>1, <3>2, <3>4, <3>5, <3>6 DEF Proper
  <2>3. CASE ~(c.of = r /\ c.awaited)
    <3>1. task'[r] = task[r]
      BY <1>0, <1>9, <2>3 DEF Returns, ShapeOK
    <3> QED BY <1>1, <2>1, <3>1
  <2> QED BY <2>2, <2>3
<1>10. ASSUME NEW c \in calls, Traps(c) \/ TimesOut(c) PROVE Proper(r)'
  <2>1. CASE c.of = r /\ c.awaited
    <3>1. EndsWith(r, "error") /\ task[r].at = "wait"
      BY <1>10, <2>1 DEF Traps, TimesOut, CallInv
    <3> QED BY <1>3, <3>1
  <2>2. CASE ~(c.of = r /\ c.awaited)
    <3>1. task'[r] = task[r] /\ request'[r] = request[r]
      <4>1. CASE c.awaited
        <5>1. EndsWith(c.of, "error") /\ c.of # r
          BY <1>10, <2>2, <4>1 DEF Traps, TimesOut
        <5> QED BY <1>0, <1>c, <5>1, EndFacts, SMTT(30), ZenonT(30)
      <4> QED BY <1>10, <4>1 DEF Traps, TimesOut
    <3>2. Owned
      <4>1. CASE Traps(c)
        BY <4>1 DEF Traps
      <4>2. CASE TimesOut(c)
        BY <4>2, GuestFacts DEF Becomes
      <4> QED BY <1>10, <4>1, <4>2
    <3> QED BY <1>1, <3>1, <3>2
  <2> QED BY <2>1, <2>2
<1>11. CASE DispatchAborted
  <2>1. request' = request /\ task'[r] = task[r]
    BY <1>0, <1>11 DEF DispatchAborted, ShapeOK
  <2>2. Owned
    BY <1>11, AbortFacts DEF DispatchAborted
  <2> QED BY <1>1, <2>1, <2>2
<1>12. ASSUME NEW e \in Tasks, ReadTx(e) \/ LockLimiter(e) \/ Limited(e) \/ Admitted(e) \/ Sends(e) \/ Dispatched(e), e # r
       PROVE  Proper(r)'
  <2>1. calls' = calls
    BY <1>12 DEF ReadTx, LockLimiter, Limited, Admitted, Sends, Dispatched, guest
  <2>2. task'[r] = task[r] /\ request'[r] = request[r]
    <3>1. CASE \E st \in {"ok", "error"} : EndsWith(e, st)
      BY <1>0, <1>12, <3>1, EndFacts, SMTT(30), ZenonT(30)
    <3>2. CASE request' = request /\ ((\E p : task' = [task EXCEPT ![e].at = p]) \/ \E x : task' = [task EXCEPT ![e] = x])
      BY <1>0, <1>12, <3>2 DEF ShapeOK
    <3> QED BY <1>12, <3>1, <3>2, SendFacts DEF ReadTx, LockLimiter, Limited, Admitted, Dispatched
  <2> QED BY <1>1, <2>1, <2>2
<1>13. CASE LockLimiter(r) \/ Admitted(r) \/ (ReadTx(r) /\ tx # "none")
  <2>1. PICK p \in {"limiter", "send", "room"} : task' = [task EXCEPT ![r].at = p]
    BY <1>13 DEF LockLimiter, Admitted, ReadTx
  <2>2. p \in Waits \cup Delivers /\ p \in Delivers
    BY DEF Delivers
  <2>3. task'[r] = [at |-> p, batch |-> task[r].batch]
    BY <1>0, <2>1, <2>2, TaskMoves
  <2>4. task[r].at \in Delivers /\ request' = request /\ calls' = calls
    BY <1>13 DEF LockLimiter, Admitted, ReadTx, Delivers, guest
  <2> QED BY <1>2, <2>2, <2>3, <2>4
<1>14. CASE Limited(r)
  BY <1>3, <1>14 DEF Limited
<1>15. CASE ReadTx(r) /\ tx = "none"
  <2>1. EndsWith(r, "ok") /\ "nosender" \in faults' /\ task[r].at # "off"
    BY <1>15 DEF ReadTx, Fault
  <2> QED BY <1>3, <2>1
<1>16. CASE Dispatched(r)
  <2>1. EndsWith(r, "ok") /\ task[r].at = "send" /\ task[r].batch = <<>>
    BY <1>16 DEF Dispatched
  <2>2. ToSet(task[r].batch) = {}
    BY <2>1 DEF ToSet
  <2>3. Due(r) \subseteq Reached
    BY <1>0, <2>1, <2>2 DEF Proper, Delivers
  <2> QED BY <1>3, <2>1, <2>3
<1>17. CASE Sends(r)
  <2>0. task[r].at = "room" /\ task[r].batch # <<>> /\ task[r].batch \in Seq(Nat) /\ inbox \in Seq(Nat) /\ taken' = taken /\ calls' = calls
    BY <1>0, <1>17 DEF Sends, CallInv, ShapeOK, Task, guest
  <2>1. CASE EndsWith(r, "ok") /\ faults' = faults \cup {"nosender"}
    BY <1>3, <2>0, <2>1
  <2>2. CASE /\ inbox' = Append(inbox, Head(task[r].batch)) /\ request' = request
             /\ task' = [task EXCEPT ![r] = [at |-> "send", batch |-> Tail(task[r].batch)]]
    <3> DEFINE b == task[r].batch
    <3>1. ToSet(inbox') = ToSet(inbox) \cup {Head(b)} /\ ToSet(b) = {Head(b)} \cup ToSet(Tail(b))
      <4>1. Head(b) \in Nat
        BY <2>0
      <4> QED BY <2>0, <2>2, <4>1, Elements
    <3>2. Reached' = Reached \cup {Head(b)}
      BY <2>0, <3>1 DEF Reached
    <3>3. task'[r].at = "send" /\ task'[r].batch = Tail(b)
      BY <1>0, <2>2 DEF ShapeOK
    <3>4. Due(r) \subseteq Reached \cup ToSet(b)
      BY <1>0, <2>0 DEF Proper, Delivers
    <3>5. Due(r)' \subseteq Reached' \cup ToSet(task'[r].batch)
      BY <2>2, <3>1, <3>2, <3>3, <3>4 DEF Due
    <3> QED BY <1>0, <2>0, <2>2, <3>3, <3>5 DEF Proper
  <2> QED BY <1>0, <1>17, <2>1, <2>2, SendFacts
<1> QED BY <1>4, <1>5, <1>6, <1>7, <1>8, <1>9, <1>10, <1>11, <1>12, <1>13, <1>14, <1>15, <1>16, <1>17, StepKinds DEF Busy

-----------------------------------------------------------------------------
(* What has arrived.                                                       *)

\* The batch of the loop comes last.
LEMMA ArrivedFacts ==
    ASSUME ShapeOK
    PROVE  /\ taken \in Seq(Nat) /\ inbox \in Seq(Nat) /\ task["loop"].batch \in Seq(Nat)
           /\ taken \o inbox \in Seq(Nat) /\ Arrived \in Seq(Nat)
           /\ Arrived = (taken \o inbox) \o task["loop"].batch
           /\ task["loop"].batch = <<>> => Arrived = taken \o inbox
<1>1. taken \in Seq(Nat) /\ inbox \in Seq(Nat) /\ task["loop"].batch \in Seq(Nat)
  BY DEF ShapeOK, Task, Tasks
<1>2. taken \o inbox \in Seq(Nat) /\ Arrived \in Seq(Nat) /\ Arrived = (taken \o inbox) \o task["loop"].batch
  BY <1>1, ConcatProperties DEF Arrived
<1>3. task["loop"].batch = <<>> => Arrived = taken \o inbox
  BY <1>1, <1>2, ConcatEmptySeq
<1> QED BY <1>1, <1>2, <1>3

\* The steps that touch neither callbacks, offset nor platform move messages on, or
\* drop what is left of a batch or what is queued.
Passing ==
    /\ UNCHANGED <<calls, offset, confirmed, posted>>
    /\ queue' = queue \/ (queue' = <<>> /\ faults' # {})
    /\ Arrived' = Arrived \/ (Arrived' = taken \o inbox /\ faults' # {})

Moves(e) == ReadTx(e) \/ LockLimiter(e) \/ Limited(e) \/ Admitted(e) \/ Sends(e) \/ Dispatched(e)

\* Sending moves the head of the batch to the queue, taking the head of the queue.
LEMMA DeliveryFacts ==
    ASSUME ShapeOK, CallInv, kind # "web", NEW e \in Tasks, Moves(e)
    PROVE  Passing
<1>0. e = "loop" /\ UNCHANGED <<calls, offset, confirmed, queue, posted, taken>>
  BY DEF Moves, ReadTx, LockLimiter, Limited, Admitted, Sends, Dispatched, CallInv, Tasks, guest, broker
<1>1. CASE task'["loop"].batch = task["loop"].batch /\ inbox' = inbox
  BY <1>0, <1>1 DEF Arrived, Passing
<1>2. CASE inbox' = inbox /\ (\E st \in {"ok", "error"} : EndsWith(e, st)) /\ (faults' # {} \/ task["loop"].batch = <<>>)
  <2>1. task'["loop"].batch = <<>>
    BY <1>0, <1>2, EndFacts DEF Idle
  <2>2. CASE task["loop"].batch = <<>>
    BY <1>1, <1>2, <2>1, <2>2
  <2>3. CASE faults' # {}
    <3>1. Arrived' = (taken \o inbox) \o <<>>
      BY <1>0, <1>2, <2>1 DEF Arrived
    <3> QED BY <1>0, <2>3, <3>1, ArrivedFacts, ConcatEmptySeq DEF Passing
  <2> QED BY <1>2, <2>2, <2>3
<1>3. CASE LockLimiter(e) \/ Admitted(e) \/ (ReadTx(e) /\ tx # "none")
  <2>1. inbox' = inbox /\ \E p : task' = [task EXCEPT !["loop"].at = p]
    BY <1>0, <1>3 DEF LockLimiter, Admitted, ReadTx
  <2>2. task'["loop"].batch = task["loop"].batch
    BY <2>1 DEF ShapeOK, Task, Tasks
  <2> QED BY <1>1, <2>1, <2>2
<1>4. CASE Limited(e) \/ Dispatched(e) \/ (ReadTx(e) /\ tx = "none")
  BY <1>0, <1>2, <1>4 DEF Limited, Dispatched, ReadTx, Fault
<1>5. CASE Sends(e)
  <2>0. task["loop"].batch # <<>>
    BY <1>0, <1>5 DEF Sends, CallInv
  <2>1. CASE /\ inbox' = Append(inbox, Head(task[e].batch))
             /\ task' = [task EXCEPT ![e] = [at |-> "send", batch |-> Tail(task[e].batch)]]
    <3> DEFINE b == task["loop"].batch
    <3>1. task'["loop"].batch = Tail(b) /\ inbox' = Append(inbox, Head(b)) /\ b # <<>>
      BY <1>0, <2>0, <2>1 DEF ShapeOK, Tasks
    <3>2. taken \in Seq(Nat) /\ inbox \in Seq(Nat) /\ b \in Seq(Nat)
      BY ArrivedFacts
    <3> HIDE DEF b
    <3>3. inbox' \in Seq(Nat) /\ Tail(b) \in Seq(Nat) /\ inbox' \o Tail(b) = inbox \o b
      BY <3>1, <3>2, HeadMoves
    <3>4. (taken \o inbox') \o Tail(b) = (taken \o inbox) \o b
      <4>0. taken \in Seq(Nat) /\ inbox' \in Seq(Nat) /\ Tail(b) \in Seq(Nat)
        BY <3>2, <3>3
      <4>1. (taken \o inbox') \o Tail(b) = taken \o (inbox' \o Tail(b))
        BY <4>0, Regroup, Zenon
      <4>2. (taken \o inbox) \o b = taken \o (inbox \o b)
        BY <3>2, Regroup, Zenon
      <4> QED BY <3>3, <4>1, <4>2, Zenon
    <3>5. Arrived' = Arrived
      BY <1>0, <3>1, <3>4 DEF Arrived, b
    <3> QED BY <1>0, <3>5 DEF Passing
  <2>2. CASE EndsWith(e, "ok") /\ faults' = faults \cup {"nosender"} /\ inbox' = inbox
    BY <1>2, <2>2
  <2> QED BY <1>5, <2>1, <2>2, SendFacts
<1> QED BY <1>3, <1>4, <1>5 DEF Moves

\* So do the agent that takes a message and everything that is quiet.
LEMMA PassingSteps ==
    ASSUME ShapeOK, CallInv, kind # "web",
           UNCHANGED vars \/ Quiet \/ AgentTakes \/ Ready \/ StartEnds \/ PollStops \/ DispatchStops \/ \E e \in Tasks : Moves(e)
    PROVE  Passing
<1>1. CASE UNCHANGED vars \/ Quiet \/ Ready
  BY <1>1, QuietFacts DEF vars, Traffic, Ready, ConnStep, delivery, guest, broker, Arrived, Passing
<1>2. CASE AgentTakes
  <2>1. /\ inbox # <<>> /\ taken' = Append(taken, Head(inbox)) /\ inbox' = Tail(inbox) /\ task' = task
        /\ UNCHANGED <<calls, offset, confirmed, queue, posted>>
    BY <1>2 DEF AgentTakes, guest, broker
  <2>2. taken' \o inbox' = taken \o inbox
    BY <2>1, ArrivedFacts, HeadMoves
  <2> QED BY <2>1, <2>2 DEF Arrived, Passing
<1>3. CASE StartEnds \/ PollStops \/ DispatchStops
  <2>1. /\ UNCHANGED <<calls, offset, confirmed, posted, taken, inbox>>
        /\ queue' = queue \/ (queue' = <<>> /\ faults' # {})
    BY <1>3 DEF StartEnds, PollStops, DispatchStops, guest, broker
  <2>2. task["loop"].at \in Waits /\ "loop" \in Tasks
    BY <1>3 DEF StartEnds, PollStops, DispatchStops, CallInv, Waits, Tasks
  <2>3. task["loop"].batch = <<>> /\ task'["loop"].batch = <<>>
    BY <1>3, <2>2 DEF StartEnds, PollStops, DispatchStops, CallInv, ShapeOK, Idle, Off
  <2> QED BY <2>1, <2>3 DEF Arrived, Passing
<1>4. CASE \E e \in Tasks : Moves(e)
  BY <1>4, DeliveryFacts
<1> QED BY <1>1, <1>2, <1>3, <1>4

\* The steps of a callback: what it emits arrives behind the rest.
LEMMA CallbackSteps ==
    ASSUME ShapeOK, BoundInv, CallInv, kind # "web"
    PROVE  /\ Post \/ PollTick \/ TakeEvent \/ Event => Arrived' = Arrived
           /\ \A c \in calls : GuestReads(c) \/ GuestFetches(c) \/ Traps(c) \/ TimesOut(c) => Arrived' = Arrived
           /\ \A c \in calls : Returns(c) =>
                 /\ ~c.awaited => Arrived' = Arrived
                 /\ c.awaited => Arrived = taken \o inbox /\ Arrived' = Arrived \o Emitted(c.batch)
           /\ DispatchAborted => Arrived' = taken \o inbox /\ faults' # {}
<1>0. "loop" \in Tasks /\ \A c \in calls : c.of = "loop" /\ c.batch \in Seq(Nat)
  BY DEF Tasks, CallInv, ShapeOK, Callback
<1>1. ASSUME Post \/ PollTick \/ TakeEvent \/ Event PROVE Arrived' = Arrived
  <2>1. UNCHANGED <<taken, inbox>>
    BY <1>1 DEF Post, PollTick, TakeEvent, Event, delivery
  <2>2. task'["loop"].batch = task["loop"].batch
    <3>1. CASE Post \/ Event
      BY <3>1 DEF Post, Event, delivery
    <3>2. CASE PollTick \/ TakeEvent
      BY <3>2, Calls DEF Called
    <3> QED BY <1>1, <3>1, <3>2
  <2> QED BY <2>1, <2>2 DEF Arrived
<1>2. ASSUME NEW c \in calls, GuestReads(c) \/ GuestFetches(c) \/ Traps(c) \/ TimesOut(c) PROVE Arrived' = Arrived
  <2>1. UNCHANGED <<taken, inbox>>
    BY <1>2 DEF GuestReads, GuestFetches, Traps, TimesOut, delivery
  <2>2. task'["loop"].batch = task["loop"].batch
    <3>1. CASE task' = task
      BY <3>1
    <3>2. CASE c.awaited /\ EndsWith(c.of, "error")
      <4>1. task["loop"].at = "wait" /\ EndsWith("loop", "error")
        BY <1>0, <3>2 DEF CallInv
      <4>2. task["loop"].batch = <<>> /\ task'["loop"] = Idle
        BY <1>0, <4>1, EndFacts DEF CallInv, Waits
      <4> QED BY <4>2 DEF Idle
    <3> QED BY <1>2, <3>1, <3>2 DEF GuestReads, GuestFetches, Traps, TimesOut, delivery
  <2> QED BY <2>1, <2>2 DEF Arrived
<1>3. ASSUME NEW c \in calls, Returns(c)
      PROVE  /\ ~c.awaited => Arrived' = Arrived
             /\ c.awaited => Arrived = taken \o inbox /\ Arrived' = Arrived \o Emitted(c.batch)
  <2>1. UNCHANGED <<taken, inbox>>
    BY <1>3 DEF Returns
  <2>2. ~c.awaited => Arrived' = Arrived
    BY <1>3, <2>1 DEF Returns, Arrived
  <2>3. ASSUME c.awaited PROVE Arrived = taken \o inbox /\ Arrived' = Arrived \o Emitted(c.batch)
    <3>1. task["loop"].batch = <<>>
      BY <1>0, <2>3 DEF CallInv, Waits
    <3>2. Arrived = taken \o inbox
      BY <3>1, ArrivedFacts
    <3>3. MaxEmits \in Nat /\ <<>> \in Seq(Nat) /\ Len(<<>>) <= MaxEmits
      BY ChannelAssumption
    <3>4. c.batch = <<>> => Emitted(c.batch) = <<>>
      BY <3>3, PrefixFacts DEF Emitted
    <3>5. task'["loop"].batch = Emitted(c.batch)
      BY <1>0, <1>3, <2>3, <3>4 DEF Returns, ShapeOK, Idle
    <3> QED BY <2>1, <3>2, <3>5 DEF Arrived
  <2> QED BY <2>2, <2>3
<1>4. ASSUME DispatchAborted PROVE Arrived' = taken \o inbox /\ faults' # {}
  <2>1. UNCHANGED <<taken, inbox>> /\ task'["loop"].batch = <<>> /\ faults' # {}
    BY <1>0, <1>4 DEF DispatchAborted, ShapeOK, Off, Fault
  <2>2. Arrived' = (taken \o inbox) \o <<>>
    BY <2>1 DEF Arrived
  <2> QED BY <2>1, <2>2, ArrivedFacts, ConcatEmptySeq
<1> QED BY <1>1, <1>2, <1>3, <1>4

-----------------------------------------------------------------------------
(* The order of what arrives.                                              *)

\* A batch above all that has arrived arrives in order.
LEMMA PollReturns ==
    ASSUME NEW s \in Seq(Nat), NEW b \in Seq(Nat), NEW p \in Seq(Nat), NEW n \in Nat,
           Increasing(s), Under(s, n), Increasing(b), From(b, n), b # <<>>,
           Increasing(p), DOMAIN p \subseteq DOMAIN b, \A i \in DOMAIN p : p[i] = b[i]
    PROVE  Increasing(s \o p) /\ Under(s \o p, Last(b) + 1)
<1> DEFINE l == Last(b)
<1>1. Len(b) \in DOMAIN b /\ l = b[Len(b)] /\ l \in Nat /\ DOMAIN b = 1 .. Len(b)
      /\ \A i \in DOMAIN b : b[i] \in Nat /\ i <= Len(b) /\ i \in Nat
  BY DEF Last
<1> HIDE DEF l
<1>2. n <= l /\ \A i \in DOMAIN b : b[i] <= l
  <2>1. n <= l
    BY <1>1 DEF From
  <2>2. ASSUME NEW i \in DOMAIN b PROVE b[i] <= l
    <3>1. CASE i = Len(b)
      BY <1>1, <3>1
    <3>2. CASE i # Len(b)
      <4>1. i < Len(b) /\ Len(b) \in DOMAIN b
        BY <1>1, <3>2
      <4>2. b[i] < b[Len(b)]
        BY <4>1 DEF Increasing
      <4> QED BY <1>1, <4>2
    <3> QED BY <3>1, <3>2
  <2> QED BY <2>1, <2>2
<1>3. \A i \in DOMAIN s : s[i] \in Nat /\ s[i] < n
  BY DEF Under
<1>4. Before(s, p)
  BY <1>1, <1>3 DEF Before, From
<1>5. Under(s, l + 1) /\ Under(p, l + 1) /\ l + 1 \in Nat
  BY <1>1, <1>2, <1>3 DEF Under
<1>6. Increasing(s \o p) /\ Under(s \o p, l + 1)
  BY <1>4, <1>5, WholeIsOrdered
<1> QED BY <1>6 DEF l

\* Polling keeps the order as long as no callback outlives its timeout.
LEMMA PollOrderStep ==
    ASSUME ShapeOK, ConnOK, BoundInv, CallInv, PollOrder, [Next]_vars, kind = "poll", "timeout" \notin faults'
    PROVE  PollOrder'
<1>0. /\ Arrived \in Seq(Nat) /\ taken \o inbox \in Seq(Nat) /\ task["loop"].batch \in Seq(Nat)
      /\ Arrived = (taken \o inbox) \o task["loop"].batch /\ offset \in Nat
      /\ \A c \in calls : c \in Callback /\ c.batch \in Seq(Nat) /\ c.offset \in Nat
  BY ArrivedFacts DEF ShapeOK, Callback
<1> DEFINE Good(c) == /\ c.awaited
                      /\ IF c.at = "called" THEN c.batch = <<>> ELSE c.offset = offset
                      /\ Increasing(c.batch) /\ From(c.batch, offset)
<1>1. ASSUME Arrived' = Arrived, offset' = offset, \A d \in calls' : d \in calls \/ Good(d) PROVE PollOrder'
  BY <1>1 DEF PollOrder
<1>2. CASE Passing
  <2>1. CASE Arrived' = Arrived
    BY <1>1, <1>2, <2>1 DEF Passing
  <2>2. CASE Arrived' = taken \o inbox
    <3>1. Increasing(taken \o inbox) /\ Under(taken \o inbox, offset)
      BY <1>0, PartKeepsOrder DEF PollOrder
    <3>2. calls' = calls /\ offset' = offset
      BY <1>2 DEF Passing
    <3> QED BY <2>2, <3>1, <3>2 DEF PollOrder
  <2> QED BY <1>2, <2>1, <2>2 DEF Passing
<1>3. CASE UNCHANGED vars \/ Quiet \/ AgentTakes \/ Ready \/ StartEnds \/ PollStops \/ DispatchStops \/ \E e \in Tasks : Moves(e)
  BY <1>2, <1>3, PassingSteps
<1>4. ~(\E r \in Requests : Request(r)) /\ ~TakeEvent /\ ~Event /\ ~DispatchAborted
  BY DEF Request, TakeEvent, Event, DispatchAborted, HasBroker, ConnOK
<1>5. CASE Post
  <2>1. UNCHANGED <<calls, offset>>
    BY <1>5 DEF Post, guest
  <2> QED BY <1>1, <1>5, <2>1, CallbackSteps
<1>6. CASE PollTick
  <2>1. offset' = offset /\ Called("loop", "called", <<>>)
    BY <1>6, Calls DEF PollTick
  <2>2. Increasing(<<>>) /\ From(<<>>, offset)
    BY DEF Increasing, From
  <2>3. \A d \in calls' : d \in calls \/ (d.at = "called" /\ d.batch = <<>> /\ d.awaited)
    BY <2>1 DEF Called
  <2>4. \A d \in calls' : d \in calls \/ Good(d)
    BY <2>2, <2>3
  <2> QED BY <1>1, <1>6, <2>1, <2>4, CallbackSteps
<1>7. ASSUME NEW c \in calls, GuestReads(c) PROVE PollOrder'
  <2>1. PICK d : /\ Becomes(c, d) /\ d.at = "asking" /\ d.offset = offset /\ d.batch = c.batch /\ d.awaited = c.awaited
    BY <1>7, GuestFacts
  <2>2. Good(d)
    BY <2>1 DEF PollOrder
  <2>3. offset' = offset /\ \A x \in calls' : x \in calls \/ x = d
    BY <1>7, <2>1 DEF GuestReads, Becomes
  <2> QED BY <1>1, <1>7, <2>2, <2>3, CallbackSteps
<1>8. ASSUME NEW c \in calls, GuestFetches(c) PROVE PollOrder'
  <2>0. c.at = "asking" /\ c.offset = offset /\ c.awaited /\ confirmed \in Nat
    BY <1>8 DEF GuestFetches, PollOrder, ShapeOK
  <2>1. PICK d : /\ Becomes(c, d) /\ d.at = "got" /\ d.offset = c.offset /\ d.awaited = c.awaited
                 /\ \/ d.batch = c.batch
                    \/ \E a \in Nat : /\ a \in {1, confirmed, c.offset} /\ a >= 1 /\ a >= c.offset
                                      /\ d.batch = Prefix(Ids(a, posted), Page)
    BY <1>8, GuestFacts
  <2>2. Increasing(d.batch) /\ From(d.batch, offset)
    <3>1. ASSUME NEW a \in Nat, a \in {1, confirmed, c.offset}, a >= 1, a >= c.offset, d.batch = Prefix(Ids(a, posted), Page)
          PROVE  Increasing(d.batch) /\ From(d.batch, offset)
      <4>1. a <= posted + 1 /\ offset <= a
        BY <1>0, <2>0, <3>1 DEF BoundInv, ShapeOK
      <4>2. Increasing(d.batch) /\ From(d.batch, a) /\ d.batch \in Seq(Nat)
        BY <3>1, <4>1, PageFacts
      <4>3. \A i \in DOMAIN d.batch : d.batch[i] \in Nat
        BY <4>2
      <4> QED BY <1>0, <4>1, <4>2, <4>3 DEF From
    <3> QED BY <2>1, <3>1 DEF PollOrder
  <2>3. Good(d)
    BY <2>0, <2>1, <2>2
  <2>4. offset' = offset /\ \A x \in calls' : x \in calls \/ x = d
    BY <1>8, <2>1 DEF GuestFetches, Becomes
  <2> QED BY <1>1, <1>8, <2>3, <2>4, CallbackSteps
<1>9. ASSUME NEW c \in calls, Returns(c) PROVE PollOrder'
  <2>0. c.at = "got" /\ c.offset = offset /\ c.awaited /\ Increasing(c.batch) /\ From(c.batch, offset) /\ c.batch \in Seq(Nat)
    BY <1>0, <1>9 DEF Returns, PollOrder
  <2>1. calls' = {}
    <3>1. \A d \in calls : d = c
      BY <2>0 DEF PollOrder, CallInv
    <3> QED BY <1>9, <3>1 DEF Returns
  <2> DEFINE p == Emitted(c.batch)
  <2>2. Arrived' = Arrived \o p /\ MaxEmits \in Nat
    BY <1>9, <2>0, CallbackSteps, ChannelAssumption
  <2>3. p \in Seq(Nat) /\ Increasing(p) /\ DOMAIN p \subseteq DOMAIN c.batch /\ \A i \in DOMAIN p : p[i] = c.batch[i]
    BY <2>0, <2>2, PrefixFacts DEF Emitted
  <2>4. CASE c.batch = <<>>
    <3>0. Len(c.batch) <= MaxEmits
      BY <2>2, <2>4
    <3>1. p = <<>>
      BY <2>0, <2>2, <2>4, <3>0, PrefixFacts DEF Emitted
    <3>2. Arrived' = Arrived
      BY <1>0, <2>2, <3>1, ConcatEmptySeq
    <3>3. offset' = offset
      BY <1>9, <2>0, <2>4 DEF Returns, NextOffset
    <3> QED BY <1>1, <2>1, <3>2, <3>3
  <2>5. CASE c.batch # <<>>
    <3>1. Increasing(Arrived) /\ Under(Arrived, offset)
      BY DEF PollOrder
    <3> HIDE DEF p
    <3>2. Increasing(Arrived \o p) /\ Under(Arrived \o p, Last(c.batch) + 1)
      BY <1>0, <2>0, <2>3, <2>5, <3>1, PollReturns
    <3>3. offset' = Last(c.batch) + 1
      <4>1. Len(c.batch) \in DOMAIN c.batch /\ c.batch[Len(c.batch)] \in Nat
        BY <2>0, <2>5
      <4>2. offset <= Last(c.batch) /\ Last(c.batch) \in Nat
        BY <2>0, <4>1 DEF From, Last
      <4>3. NextOffset(c) = Last(c.batch) + 1
        BY <2>5 DEF NextOffset
      <4> QED BY <1>0, <1>9, <2>0, <4>2, <4>3 DEF Returns
    <3> QED BY <2>1, <2>2, <3>2, <3>3 DEF PollOrder
  <2> QED BY <2>4, <2>5
<1>10. ASSUME NEW c \in calls, Traps(c) PROVE PollOrder'
  <2>1. offset' = offset /\ calls' = calls \ {c}
    BY <1>10 DEF Traps
  <2> QED BY <1>1, <1>10, <2>1, CallbackSteps
<1>11. ~(\E c \in calls : TimesOut(c))
  BY DEF TimesOut, Fault
<1> QED BY <1>3, <1>4, <1>5, <1>6, <1>7, <1>8, <1>9, <1>10, <1>11, StepKinds DEF Busy, Moves

\* A connection keeps the order, whatever is dropped, lost or aborted.
LEMMA QueueOrderStep ==
    ASSUME ShapeOK, BoundInv, CallInv, QueueOrder, [Next]_vars, HasBroker
    PROVE  QueueOrder'
<1>0. /\ Arrived \in Seq(Nat) /\ taken \o inbox \in Seq(Nat) /\ task["loop"].batch \in Seq(Nat) /\ queue \in Seq(Nat)
      /\ Arrived = (taken \o inbox) \o task["loop"].batch /\ posted \in Nat /\ posted + 1 \in Nat
      /\ \A c \in calls : c \in Callback /\ c.batch \in Seq(Nat)
      /\ kind # "web" /\ kind # "poll"
  <2>1. /\ Arrived \in Seq(Nat) /\ taken \o inbox \in Seq(Nat) /\ task["loop"].batch \in Seq(Nat)
        /\ Arrived = (taken \o inbox) \o task["loop"].batch
    BY ArrivedFacts
  <2>2. posted \in Nat /\ queue \in Seq(Nat) /\ \A c \in calls : c \in Callback
    BY DEF ShapeOK
  <2>3. \A c \in calls : c.batch \in Seq(Nat)
    BY <2>2 DEF Callback
  <2>4. kind # "web" /\ kind # "poll"
    BY DEF HasBroker
  <2> QED BY <2>1, <2>2, <2>3, <2>4
<1>a. \A c, d \in calls : c.awaited /\ d.awaited => c = d
  BY <1>0, SMTT(30), ZenonT(30) DEF CallInv
<1>b. Increasing(<<>>) /\ \A s : Before(s, <<>>)
  BY DEF Increasing, Before
<1>1. ASSUME Arrived' = Arrived, queue' \in {queue, <<>>}, posted' = posted, \A d \in calls' : d.awaited => d \in calls
      PROVE  QueueOrder'
  BY <1>1, <1>b DEF QueueOrder
<1>2. ASSUME Arrived' = taken \o inbox, queue' \in {queue, <<>>}, posted' = posted, \A d \in calls' : d.awaited => d \in calls
      PROVE  QueueOrder'
  <2>1. /\ Increasing(taken \o inbox) /\ Under(taken \o inbox, posted + 1) /\ Before(taken \o inbox, queue)
        /\ \A u : Before(Arrived, u) => Before(taken \o inbox, u)
    BY <1>0, PartKeepsOrder DEF QueueOrder
  <2> QED BY <1>2, <1>b, <2>1 DEF QueueOrder
<1>3. CASE UNCHANGED vars \/ Quiet \/ AgentTakes \/ Ready \/ StartEnds \/ PollStops \/ DispatchStops \/ \E e \in Tasks : Moves(e)
  <2>1. Passing
    BY <1>0, <1>3, PassingSteps
  <2> QED BY <1>1, <1>2, <2>1 DEF Passing
<1>4. ~(\E r \in Requests : Request(r)) /\ ~PollTick /\ ~Post
  BY <1>0 DEF Request, PollTick, Post
<1>5. ~(\E c \in calls : GuestReads(c) \/ GuestFetches(c))
  BY <1>0 DEF GuestReads, GuestFetches, CallInv
<1>6. CASE Event
  <2>1. posted' = posted + 1 /\ calls' = calls /\ Arrived' = Arrived
        /\ (queue' = queue \/ queue' = Append(queue, posted + 1))
    BY <1>0, <1>6, CallbackSteps DEF Event, guest
  <2>2. Under(Arrived, posted' + 1)
    <3>1. posted' + 1 \in Nat /\ posted + 1 <= posted' + 1
      BY <1>0, <2>1
    <3> QED BY <1>0, <3>1, UnderMore DEF QueueOrder
  <2>3. CASE queue' = queue
    BY <2>1, <2>2, <2>3 DEF QueueOrder
  <2>4. CASE queue' = Append(queue, posted + 1)
    <3>1. Increasing(queue')
      BY <1>0, <2>4, AppendFacts DEF QueueOrder, BoundInv
    <3>2. Before(Arrived, queue')
      BY <1>0, <2>4, AppendFacts DEF QueueOrder
    <3>3. \A c \in calls : c.awaited => Before(c.batch, queue')
      BY <1>0, <2>4, AppendFacts DEF QueueOrder, BoundInv
    <3> QED BY <2>1, <2>2, <3>1, <3>2, <3>3 DEF QueueOrder
  <2> QED BY <2>1, <2>3, <2>4
<1>7. CASE TakeEvent
  <2>1. /\ posted' = posted /\ queue # <<>> /\ queue' = Tail(queue) /\ Arrived' = Arrived
        /\ Called("loop", "got", <<Head(queue)>>) /\ task["loop"].at = "idle"
    BY <1>0, <1>7, CallbackSteps, Calls DEF TakeEvent
  <2>2. \A c \in calls : ~c.awaited
    BY <1>0, <2>1 DEF CallInv
  <2>3. \A d \in calls' : d.awaited => d.batch = <<Head(queue)>>
    BY <2>1, <2>2 DEF Called
  <2>4. /\ Increasing(queue') /\ Before(Arrived, queue') /\ Before(Arrived, <<Head(queue)>>)
        /\ Increasing(<<Head(queue)>>) /\ Before(<<Head(queue)>>, queue')
    BY <1>0, <2>1, TailFacts DEF QueueOrder
  <2> QED BY <2>1, <2>3, <2>4 DEF QueueOrder
<1>8. ASSUME NEW c \in calls, Returns(c) PROVE QueueOrder'
  <2>1. posted' = posted /\ queue' = queue /\ calls' = calls \ {c}
    BY <1>8 DEF Returns, broker
  <2>2. CASE ~c.awaited
    BY <1>0, <1>1, <1>8, <2>1, <2>2, CallbackSteps
  <2>3. CASE c.awaited
    <3> DEFINE p == Emitted(c.batch)
    <3>1. Arrived' = Arrived \o p /\ MaxEmits \in Nat /\ c.batch \in Seq(Nat)
      BY <1>0, <1>8, <2>3, CallbackSteps, ChannelAssumption
    <3>2. \A d \in calls' : ~d.awaited
      BY <1>a, <2>1, <2>3
    <3>3. Increasing(c.batch) /\ Before(Arrived, c.batch) /\ Before(c.batch, queue) /\ Under(c.batch, posted + 1)
      BY <2>3 DEF QueueOrder, BoundInv
    <3>4. p \in Seq(Nat) /\ Increasing(p) /\ Before(Arrived, p) /\ Before(p, queue) /\ Under(p, posted + 1)
      BY <1>0, <3>1, <3>3, PrefixFacts DEF Emitted
    <3> HIDE DEF p
    <3>5. Increasing(Arrived \o p) /\ Before(Arrived \o p, queue) /\ Under(Arrived \o p, posted + 1)
      BY <1>0, <3>4, WholeIsOrdered DEF QueueOrder
    <3> QED BY <2>1, <3>1, <3>2, <3>5 DEF QueueOrder
  <2> QED BY <2>2, <2>3
<1>9. ASSUME NEW c \in calls, Traps(c) \/ TimesOut(c) PROVE QueueOrder'
  <2>1. posted' = posted /\ queue' = queue
    BY <1>9 DEF Traps, TimesOut, broker
  <2>2. \A d \in calls' : d.awaited => d \in calls
    <3>1. CASE Traps(c)
      BY <3>1 DEF Traps
    <3>2. CASE TimesOut(c)
      BY <3>2, GuestFacts DEF Becomes
    <3> QED BY <1>9, <3>1, <3>2
  <2> QED BY <1>0, <1>1, <1>9, <2>1, <2>2, CallbackSteps
<1>10. CASE DispatchAborted
  <2>1. posted' = posted /\ queue' = <<>>
    BY <1>10 DEF DispatchAborted
  <2>2. \A d \in calls' : ~d.awaited
    BY <1>10, AbortFacts DEF DispatchAborted
  <2> QED BY <1>0, <1>2, <1>10, <2>1, <2>2, CallbackSteps
<1> QED BY <1>3, <1>4, <1>5, <1>6, <1>7, <1>8, <1>9, <1>10, StepKinds DEF Busy, Moves

\* The order of what arrives.
LEMMA OrderStep == ShapeOK /\ ConnOK /\ BoundInv /\ CallInv /\ OrderInv /\ [Next]_vars => OrderInv'
<1> SUFFICES ASSUME ShapeOK, ConnOK, BoundInv, CallInv, OrderInv, [Next]_vars PROVE OrderInv'
  OBVIOUS
<1>1. kind' = kind /\ faults \subseteq faults'
  BY KindStays
<1>2. kind = "poll" /\ "timeout" \notin faults' => PollOrder'
  BY <1>1, PollOrderStep DEF OrderInv
<1>3. HasBroker => QueueOrder'
  BY QueueOrderStep DEF OrderInv
<1> QED BY <1>1, <1>2, <1>3 DEF OrderInv, HasBroker


-----------------------------------------------------------------------------
(* Nothing goes missing.                                                   *)

\* The numbers up to n, followed by the next ones.
LEMMA IdsGrow ==
    ASSUME NEW n \in Nat, NEW b \in Seq(Nat), \A i \in DOMAIN b : b[i] = n + i
    PROVE  Ids(1, n) \in Seq(Nat) /\ Ids(1, n) \o b = Ids(1, n + Len(b))
<1> DEFINE s == Ids(1, n)
           t == Ids(1, n + Len(b))
<1>1. n + Len(b) \in Nat /\ Len(b) \in Nat /\ DOMAIN b = 1 .. Len(b)
  BY LenProperties
<1>a. ASSUME NEW m \in Nat
      PROVE  Ids(1, m) \in Seq(Nat) /\ Len(Ids(1, m)) = m /\ DOMAIN Ids(1, m) = 1 .. m /\ \A i \in 1 .. m : Ids(1, m)[i] = i
  <2>1. 1 \in Nat /\ 1 >= 1 /\ 1 <= m + 1 /\ (m + 1) - 1 = m /\ \A i \in 1 .. m : 1 + i - 1 = i
    OBVIOUS
  <2>2. /\ Ids(1, m) \in Seq(Nat) /\ Len(Ids(1, m)) = (m + 1) - 1 /\ DOMAIN Ids(1, m) = 1 .. (m + 1) - 1
        /\ \A i \in 1 .. (m + 1) - 1 : Ids(1, m)[i] = 1 + i - 1
    BY <2>1, IdsFacts, Zenon
  <2> QED BY <2>1, <2>2
<1>2. s \in Seq(Nat) /\ Len(s) = n /\ DOMAIN s = 1 .. n /\ \A i \in 1 .. n : s[i] = i
  BY <1>a
<1>3. t \in Seq(Nat) /\ Len(t) = n + Len(b) /\ \A i \in 1 .. n + Len(b) : t[i] = i
  BY <1>1, <1>a
<1> HIDE DEF s, t
<1>4. s \o b \in Seq(Nat) /\ Len(s \o b) = n + Len(b)
  BY <1>2, Joined
<1>5. ASSUME NEW i \in 1 .. n + Len(b) PROVE (s \o b)[i] = i
  <2>1. CASE i \in 1 .. n
    BY <1>2, <2>1, Joined
  <2>2. CASE i \notin 1 .. n
    <3>1. i - n \in DOMAIN b /\ n + (i - n) = i
      BY <1>1, <2>2
    <3>2. (s \o b)[n + (i - n)] = b[i - n]
      BY <1>2, <3>1, Joined
    <3> QED BY <3>1, <3>2
  <2> QED BY <2>1, <2>2
<1>6. s \o b = t
  BY <1>3, <1>4, <1>5, SameSeq
<1> QED BY <1>2, <1>6 DEF s, t

\* What is in hand when there is no callback, and when there is one.
LEMMA Hand == (calls = {} => InHand = <<>>) /\ \A c : calls = {c} => InHand = c.batch
<1>1. calls = {} => InHand = <<>>
  BY DEF InHand
<1>2. ASSUME NEW c, calls = {c} PROVE InHand = c.batch
  <2>1. (CHOOSE d \in calls : TRUE) \in calls
    BY <1>2
  <2>2. (CHOOSE d \in calls : TRUE) = c
    BY <1>2, <2>1
  <2> QED BY <1>2, <2>2 DEF InHand
<1> QED BY <1>1, <1>2

\* The last message below the saved offset.
Saved == IF offset = 0 THEN 0 ELSE offset - 1

\* Without a fault polling hands over every message below the offset, once.
LEMMA PollGapStep ==
    ASSUME ShapeOK, ConnOK, BoundInv, CallInv, PollOrder, GapInv, [Next]_vars, kind = "poll", faults' = {}
    PROVE  GapInv'
<1>0. /\ kind' = kind /\ faults = {} /\ offset \in Nat /\ confirmed \in Nat /\ Saved \in Nat /\ First = Saved + 1
      /\ confirmed <= offset /\ Arrived = Ids(1, Saved)
  <2>1. kind' = kind /\ faults = {}
    BY KindStays
  <2>2. offset \in Nat /\ confirmed \in Nat
    BY DEF ShapeOK
  <2>3. Saved \in Nat /\ First = Saved + 1
    BY <2>2 DEF Saved, First
  <2>4. confirmed <= offset /\ NoGaps
    BY <2>1 DEF GapInv
  <2>5. Arrived = Ids(1, Saved)
    BY <2>1, <2>4 DEF NoGaps, Saved
  <2> QED BY <2>1, <2>2, <2>3, <2>4, <2>5
<1>a. Arrived \in Seq(Nat) /\ \A c \in calls : c \in Callback /\ c.batch \in Seq(Nat) /\ c.offset \in Nat
  BY ArrivedFacts DEF ShapeOK, Callback
<1>b. Page \in Nat /\ MaxEmits \in Nat /\ Page <= MaxEmits /\ 0 <= MaxEmits
  BY ChannelAssumption
<1> DEFINE Good(c) == /\ c.awaited /\ Len(c.batch) <= MaxEmits
                      /\ \A i \in DOMAIN c.batch : c.batch[i] = First + i - 1
<1>c. \A c \in calls : Good(c)
  BY <1>0 DEF GapInv
<1>1. ASSUME Arrived' = Arrived, offset' = offset, confirmed' <= offset, \A d \in calls' : Good(d) PROVE GapInv'
  <2>1. First' = First
    BY <1>1 DEF First
  <2>2. NoGaps'
    BY <1>0, <1>1 DEF NoGaps, Saved
  <2> QED BY <1>0, <1>1, <2>1, <2>2 DEF GapInv
<1>2. CASE UNCHANGED vars \/ Quiet \/ AgentTakes \/ Ready \/ StartEnds \/ PollStops \/ DispatchStops \/ \E e \in Tasks : Moves(e)
  <2>1. Passing
    BY <1>2, PassingSteps
  <2>2. Arrived' = Arrived /\ UNCHANGED <<calls, offset, confirmed>>
    BY <2>1 DEF Passing
  <2> QED BY <1>0, <1>1, <1>c, <2>2
<1>3. ~(\E r \in Requests : Request(r)) /\ ~TakeEvent /\ ~Event /\ ~DispatchAborted
  BY DEF Request, TakeEvent, Event, DispatchAborted, HasBroker, ConnOK
<1>4. CASE Post
  <2>1. UNCHANGED <<calls, offset, confirmed>>
    BY <1>4 DEF Post, guest
  <2> QED BY <1>0, <1>1, <1>4, <1>c, <2>1, CallbackSteps
<1>5. CASE PollTick
  <2>1. offset' = offset /\ confirmed' = confirmed /\ Called("loop", "called", <<>>)
    BY <1>5, Calls DEF PollTick
  <2>2. Len(<<>>) <= MaxEmits /\ \A i \in DOMAIN <<>> : <<>>[i] = First + i - 1
    BY <1>b
  <2>3. \A d \in calls' : d \in calls \/ (d.batch = <<>> /\ d.awaited)
    BY <2>1 DEF Called
  <2>4. ASSUME NEW d \in calls' PROVE Good(d)
    BY <1>c, <2>2, <2>3
  <2> QED BY <1>0, <1>1, <1>5, <2>1, <2>4, CallbackSteps
<1>6. ASSUME NEW c \in calls, GuestReads(c) PROVE GapInv'
  <2>1. PICK d : /\ Becomes(c, d) /\ d.batch = c.batch /\ d.awaited = c.awaited
    BY <1>6, GuestFacts
  <2>2. Good(d)
    BY <1>c, <2>1
  <2>3. offset' = offset /\ confirmed' = confirmed /\ \A x \in calls' : x \in calls \/ x = d
    BY <1>6, <2>1 DEF GuestReads, Becomes
  <2> QED BY <1>0, <1>1, <1>6, <1>c, <2>2, <2>3, CallbackSteps
<1>7. ASSUME NEW c \in calls, GuestFetches(c) PROVE GapInv'
  <2>0. c.at = "asking" /\ c.offset = offset
    BY <1>7 DEF GuestFetches, PollOrder
  <2>1. PICK d : /\ Becomes(c, d) /\ d.awaited = c.awaited /\ confirmed' \in {confirmed, c.offset}
                 /\ \/ d.batch = c.batch
                    \/ \E a \in Nat : /\ a \in {1, confirmed, c.offset} /\ a >= 1 /\ a >= c.offset /\ a >= confirmed
                                      /\ d.batch = Prefix(Ids(a, posted), Page)
    BY <1>7, GuestFacts
  <2>2. ASSUME NEW a \in Nat, a \in {1, confirmed, c.offset}, a >= 1, a >= c.offset, a >= confirmed,
               d.batch = Prefix(Ids(a, posted), Page)
        PROVE  Len(d.batch) <= MaxEmits /\ \A i \in DOMAIN d.batch : d.batch[i] = First + i - 1
    <3>1. a <= posted + 1 /\ a = First
      BY <1>0, <2>0, <2>2 DEF BoundInv, ShapeOK, First
    <3>2. Len(d.batch) <= Page /\ Len(d.batch) \in Nat /\ \A i \in DOMAIN d.batch : d.batch[i] = a + i - 1
      BY <2>2, <3>1, PageFacts
    <3> QED BY <1>b, <3>1, <3>2
  <2>3. Good(d)
    BY <1>c, <2>1, <2>2
  <2>4. offset' = offset /\ confirmed' <= offset /\ \A x \in calls' : x \in calls \/ x = d
    BY <1>0, <1>7, <2>0, <2>1 DEF GuestFetches, Becomes
  <2> QED BY <1>1, <1>7, <1>c, <2>3, <2>4, CallbackSteps
<1>8. ASSUME NEW c \in calls, Returns(c) PROVE GapInv'
  <2>0. c.at = "got" /\ c.offset = offset /\ c.awaited /\ c.batch \in Seq(Nat) /\ Good(c)
    BY <1>8, <1>a, <1>c DEF Returns, PollOrder
  <2>1. calls' = {}
    <3>1. \A d \in calls : d = c
      BY <1>c, <2>0 DEF CallInv
    <3> QED BY <1>8, <3>1 DEF Returns
  <2>2. Arrived' = Arrived \o c.batch /\ confirmed' = confirmed
    <3>1. Emitted(c.batch) = c.batch
      BY <1>b, <2>0, PrefixFacts DEF Emitted
    <3> QED BY <1>8, <2>0, <3>1, CallbackSteps DEF Returns
  <2>3. CASE c.batch = <<>>
    <3>1. Arrived' = Arrived
      BY <1>a, <2>2, <2>3, ConcatEmptySeq
    <3>2. offset' = offset
      BY <1>8, <2>0, <2>3 DEF Returns, NextOffset
    <3> QED BY <1>0, <1>1, <2>1, <2>2, <3>1, <3>2
  <2>4. CASE c.batch # <<>>
    <3> DEFINE b == c.batch
               l == Saved + Len(c.batch)
    <3>0. \A i \in DOMAIN b : b[i] = Saved + i
      <4>1. \A i \in DOMAIN b : i \in Nat
        BY <2>0
      <4> QED BY <1>0, <2>0, <4>1
    <3>1. Len(b) \in DOMAIN b /\ Len(b) \in Nat /\ Len(b) >= 1
      BY <2>0, <2>4
    <3>2. Last(b) = l /\ l \in Nat /\ l >= 1
      BY <1>0, <3>0, <3>1 DEF Last
    <3>3. Arrived' = Ids(1, l)
      BY <1>0, <2>0, <2>2, <3>0, IdsGrow
    <3>4. offset <= Saved + 1
      BY <1>0 DEF Saved
    <3>5. offset' = l + 1
      <4>1. NextOffset(c) = l + 1
        BY <2>4, <3>2 DEF NextOffset
      <4>2. l + 1 # offset
        BY <1>0, <3>1, <3>4
      <4> QED BY <1>8, <2>0, <4>1, <4>2 DEF Returns
    <3>6. confirmed' <= offset'
      BY <1>0, <2>2, <3>1, <3>4, <3>5
    <3>7. NoGaps'
      <4>1. offset' # 0 /\ offset' - 1 = l
        BY <3>2, <3>5
      <4> QED BY <1>0, <3>3, <4>1 DEF NoGaps
    <3> QED BY <1>0, <2>1, <3>6, <3>7 DEF GapInv
  <2> QED BY <2>3, <2>4
<1>9. ASSUME NEW c \in calls, Traps(c) PROVE GapInv'
  <2>1. offset' = offset /\ confirmed' = confirmed /\ calls' = calls \ {c}
    BY <1>9 DEF Traps
  <2> QED BY <1>0, <1>1, <1>9, <1>c, <2>1, CallbackSteps
<1>10. ~(\E c \in calls : TimesOut(c))
  BY DEF TimesOut, Fault
<1> QED BY <1>2, <1>3, <1>4, <1>5, <1>6, <1>7, <1>8, <1>9, <1>10, StepKinds DEF Busy, Moves

\* Without a fault everything a connection brought is in line: what has arrived,
\* the event in hand, the queue.
LEMMA QueueGapStep ==
    ASSUME ShapeOK, ConnOK, BoundInv, CallInv, GapInv, [Next]_vars, HasBroker, faults' = {}
    PROVE  GapInv'
<1>0. /\ kind' = kind /\ faults = {} /\ kind # "poll" /\ kind # "web"
  BY KindStays DEF HasBroker
<1>a. Arrived \in Seq(Nat) /\ queue \in Seq(Nat) /\ posted \in Nat /\ \A c \in calls : c \in Callback /\ c.batch \in Seq(Nat)
  BY ArrivedFacts DEF ShapeOK, Callback
<1>b. MaxEmits \in Nat /\ 1 <= MaxEmits
  BY ChannelAssumption
<1>c. /\ Arrived \o InHand \o queue = Ids(1, posted)
      /\ \A c \in calls : c.awaited /\ Len(c.batch) <= MaxEmits
  BY <1>0 DEF GapInv, NoGaps
<1>d. \A c, d \in calls : c = d
  BY <1>0, <1>c DEF CallInv
<1>e. InHand \in Seq(Nat)
  <2>1. CASE calls = {}
    BY <2>1, Hand
  <2>2. ASSUME NEW c \in calls PROVE InHand \in Seq(Nat)
    <3>1. calls = {c}
      BY <1>d
    <3> QED BY <1>a, <3>1, Hand
  <2> QED BY <2>1, <2>2
<1>1. ASSUME Arrived' \o InHand' \o queue' = Ids(1, posted'), \A d \in calls' : d.awaited /\ Len(d.batch) <= MaxEmits
      PROVE  GapInv'
  BY <1>0, <1>1 DEF GapInv, NoGaps
<1>2. CASE UNCHANGED vars \/ Quiet \/ AgentTakes \/ Ready \/ StartEnds \/ PollStops \/ DispatchStops \/ \E e \in Tasks : Moves(e)
  <2>1. Passing
    BY <1>0, <1>2, PassingSteps
  <2>2. Arrived' = Arrived /\ UNCHANGED <<calls, queue, posted>>
    BY <2>1 DEF Passing
  <2>3. InHand' = InHand
    BY <2>2 DEF InHand
  <2> QED BY <1>1, <1>c, <2>2, <2>3
<1>3. ~(\E r \in Requests : Request(r)) /\ ~PollTick /\ ~Post
  BY <1>0 DEF Request, PollTick, Post
<1>4. ~(\E c \in calls : GuestReads(c) \/ GuestFetches(c))
  BY <1>0 DEF GuestReads, GuestFetches, CallInv
<1>5. ~DispatchAborted /\ ~(\E c \in calls : Traps(c) \/ TimesOut(c))
  BY <1>0 DEF DispatchAborted, Traps, TimesOut, Fault
<1>6. CASE Event
  <2>1. conn.done
    BY <1>0, <1>6 DEF ConnOK, Fine, Event
  <2>2. posted' = posted + 1 /\ calls' = calls /\ queue' = Append(queue, posted + 1) /\ Arrived' = Arrived
    BY <1>0, <1>6, <2>1, CallbackSteps DEF Event, Fault, guest
  <2>3. InHand' = InHand
    BY <2>2 DEF InHand
  <2> DEFINE b == <<posted + 1>>
             s == Arrived \o InHand
  <2>4. b \in Seq(Nat) /\ Len(b) = 1 /\ s \in Seq(Nat) /\ \A i \in DOMAIN b : b[i] = posted + i
    BY <1>a, <1>e, Joined
  <2>5. Append(queue, posted + 1) = queue \o b
    BY <1>a, AppendIsConcat
  <2> HIDE DEF b, s
  <2>6. Ids(1, posted) \o b = Ids(1, posted + 1)
    BY <1>a, <2>4, IdsGrow
  <2>7. (s \o queue) \o b = s \o (queue \o b)
    BY <1>a, <2>4, Regroup, Zenon
  <2>8. s \o queue = Ids(1, posted)
    BY <1>c DEF s
  <2>9. s \o Append(queue, posted + 1) = Ids(1, posted + 1)
    BY <2>5, <2>6, <2>7, <2>8, Zenon
  <2> QED BY <1>1, <1>c, <2>2, <2>3, <2>9 DEF s
<1>7. CASE TakeEvent
  <2>1. /\ posted' = posted /\ queue # <<>> /\ queue' = Tail(queue) /\ Arrived' = Arrived
        /\ Called("loop", "got", <<Head(queue)>>) /\ task["loop"].at = "idle"
    BY <1>0, <1>7, CallbackSteps, Calls DEF TakeEvent
  <2>2. calls = {}
    BY <1>0, <1>c, <2>1 DEF CallInv
  <2>3. PICK c : calls' = {c} /\ c.batch = <<Head(queue)>> /\ c.awaited
    BY <2>1, <2>2 DEF Called
  <2>4. InHand = <<>>
    BY <2>2, Hand
  <2>5. InHand' = <<Head(queue)>>
    <3>1. (CHOOSE d \in calls' : TRUE) \in calls'
      BY <2>3
    <3>2. (CHOOSE d \in calls' : TRUE) = c
      BY <2>3, <3>1
    <3> QED BY <2>3, <3>2 DEF InHand
  <2>6. Arrived \o queue = Ids(1, posted)
    BY <1>a, <1>c, <2>4, ConcatEmptySeq
  <2>7. Head(queue) \in Nat /\ Arrived \o <<Head(queue)>> = Append(Arrived, Head(queue))
    BY <1>a, <2>1, AppendIsConcat
  <2>8. Append(Arrived, Head(queue)) \o Tail(queue) = Arrived \o queue
    BY <1>a, <2>1, HeadMoves
  <2>9. Arrived' \o InHand' \o queue' = Ids(1, posted')
    BY <2>1, <2>5, <2>6, <2>7, <2>8
  <2>10. \A d \in calls' : d.awaited /\ Len(d.batch) <= MaxEmits
    <3>1. Len(<<Head(queue)>>) = 1
      OBVIOUS
    <3> QED BY <1>b, <2>3, <3>1
  <2> QED BY <1>1, <2>9, <2>10
<1>8. ASSUME NEW c \in calls, Returns(c) PROVE GapInv'
  <2>1. posted' = posted /\ queue' = queue /\ calls' = {} /\ calls = {c} /\ c.awaited /\ c.batch \in Seq(Nat)
    BY <1>8, <1>a, <1>c, <1>d DEF Returns, broker
  <2>2. Emitted(c.batch) = c.batch
    BY <1>b, <1>c, <2>1, PrefixFacts DEF Emitted
  <2>3. Arrived' = Arrived \o c.batch
    BY <1>0, <1>8, <2>1, <2>2, CallbackSteps
  <2>4. InHand = c.batch /\ InHand' = <<>>
    BY <2>1, Hand DEF InHand
  <2>5. Arrived' \in Seq(Nat)
    BY <1>a, <2>1, <2>3, Joined
  <2>6. Arrived' \o InHand' = Arrived \o InHand
    BY <2>3, <2>4, <2>5, ConcatEmptySeq
  <2> QED BY <1>1, <1>c, <2>1, <2>6
<1> QED BY <1>2, <1>3, <1>4, <1>5, <1>6, <1>7, <1>8, StepKinds DEF Busy, Moves

\* What neither polling nor a connection loses.
LEMMA GapStep == ShapeOK /\ ConnOK /\ BoundInv /\ CallInv /\ OrderInv /\ GapInv /\ [Next]_vars => GapInv'
<1> SUFFICES ASSUME ShapeOK, ConnOK, BoundInv, CallInv, OrderInv, GapInv, [Next]_vars, faults' = {}, kind' # "web" PROVE GapInv'
  BY DEF GapInv
<1>1. kind' = kind /\ faults = {} /\ kind \in {"poll", "web", "gateway", "socket"}
  BY KindStays DEF ShapeOK
<1>2. CASE kind = "poll"
  BY <1>1, <1>2, PollGapStep DEF OrderInv
<1>3. CASE HasBroker
  BY <1>3, QueueGapStep
<1> QED BY <1>1, <1>2, <1>3 DEF HasBroker

-----------------------------------------------------------------------------
(* The theorems.                                                           *)

\* A channel starts within the invariant.
LEMMA InitOK == Init => IInv
<1> SUFFICES ASSUME Init PROVE IInv
  OBVIOUS
<1>0. /\ kind \in {"poll", "web", "gateway", "socket"} /\ faults = {} /\ calls = {} /\ offset = 0 /\ confirmed = 0
      /\ called = 0 /\ posted = 0 /\ queue = <<>> /\ taken = <<>> /\ inbox = <<>> /\ conn = NoConn /\ phase = "new"
      /\ tx = "none" /\ stop = FALSE
  BY ChannelAssumption DEF Init
<1>1. \A e \in Tasks : task[e] = Off /\ task[e].at = "off" /\ task[e].batch = <<>>
  BY DEF Init, Off
<1>2. \A r \in Requests : request[r].ids = <<>> /\ request[r].status = "new"
  BY DEF Init
<1>3. "loop" \in Tasks /\ Requests \subseteq Tasks
  BY DEF Tasks
<1>4. ShapeOK
  <2>1. Off \in Task /\ <<>> \in Seq(Nat) /\ Len(<<>>) = 0
    BY DEF Off, Task, Waits
  <2>2. task \in [Tasks -> Task]
    BY <2>1 DEF Init
  <2>3. request \in [Requests -> [ids : Seq(Nat), status : {"new", "asked", "ok", "error"}]]
    BY <2>1 DEF Init
  <2>4. 0 <= InboxSize /\ 0 <= QueueSize
    BY ChannelAssumption
  <2> QED BY <1>0, <2>1, <2>2, <2>3, <2>4 DEF ShapeOK, Phases
<1>5. ConnOK
  <2>1. 0 <= MaxRetries /\ 0 <= MaxMissed
    BY ChannelAssumption
  <2> QED BY <1>0, <2>1 DEF ConnOK, Fine, Connections, NoConn
<1>6. LockInv
  BY <1>1 DEF LockInv, Reading
<1>7. CallInv
  BY <1>0, <1>1, <1>3 DEF CallInv
<1>8. RequestInv
  <2>1. ASSUME NEW r \in Requests PROVE Proper(r)
    <3>1. task[r].at = "off" /\ request[r].ids = <<>> /\ request[r].status = "new" /\ calls = {}
      BY <1>0, <1>1, <1>2, <1>3
    <3> QED BY <3>1 DEF Proper, Delivers
  <2> QED BY <2>1 DEF RequestInv
<1>9. BoundInv
  <2>1. Under(<<>>, posted + 1)
    BY DEF Under
  <2> QED BY <1>0, <1>2, <2>1 DEF BoundInv
<1>10. Arrived = <<>>
  <2>1. <<>> \in Seq(Nat) /\ task["loop"].batch = <<>>
    BY <1>1, <1>3
  <2>2. <<>> \o <<>> = <<>>
    BY <2>1, ConcatEmptySeq
  <2> QED BY <1>0, <2>1, <2>2 DEF Arrived
<1>11. OrderInv
  <2>1. Increasing(<<>>) /\ Under(<<>>, offset) /\ Under(<<>>, posted + 1) /\ Before(<<>>, <<>>)
    BY DEF Increasing, Under, Before
  <2> QED BY <1>0, <1>10, <2>1 DEF OrderInv, PollOrder, QueueOrder
<1>12. GapInv
  <2>1. Ids(1, 0) = <<>>
    <3>1. Ids(1, 0) \in Seq(Nat) /\ Len(Ids(1, 0)) = 0
      BY IdsFacts
    <3> QED BY <3>1
  <2>2. InHand = <<>>
    BY <1>0, Hand
  <2>3. Arrived \o InHand \o queue = <<>>
    <3>1. <<>> \in Seq(Nat)
      OBVIOUS
    <3>2. <<>> \o <<>> = <<>>
      BY <3>1, ConcatEmptySeq
    <3> QED BY <1>0, <1>10, <2>2, <3>2
  <2> QED BY <1>0, <1>10, <2>1, <2>3 DEF GapInv, NoGaps
<1> QED BY <1>4, <1>5, <1>6, <1>7, <1>8, <1>9, <1>11, <1>12 DEF IInv

\* The parts of the invariant hold in every state of a channel, whatever the
\* platform sends, the guest does and the timers decide.
THEOREM Invariance == Spec => []IInv
<1>1. IInv /\ [Next]_vars => IInv'
  BY ShapeStep, ConnStepOK, LockStep, CallStep, RequestStep, BoundStep, OrderStep, GapStep DEF IInv
<1> QED BY <1>1, InitOK, PTL DEF Spec

\* The queues keep their capacities and the connection its limits; at most one
\* task sends to the agent at a time, never without the sender, and a loop
\* waits for one callback at most.
THEOREM TypeCorrect == Spec => []TypeOK
<1>1. IInv => TypeOK
  <2> SUFFICES ASSUME IInv PROVE TypeOK
    OBVIOUS
  <2>0. ShapeOK /\ ConnOK /\ LockInv /\ CallInv
    BY DEF IInv
  <2>a. ASSUME NEW S, \A x, y \in S : x = y PROVE Cardinality(S) <= 1
    <3>1. CASE S = {}
      BY <3>1, FS_EmptySet
    <3>2. ASSUME NEW x \in S PROVE Cardinality(S) <= 1
      <4>1. S = {x}
        BY <2>a
      <4>2. Cardinality({x}) = 1
        BY FS_Singleton, Zenon
      <4> QED BY <4>1, <4>2
    <3> QED BY <3>1, <3>2
  <2>1. Cardinality({e \in Tasks : task[e].at \in {"send", "room"}}) <= 1
    <3> DEFINE S == {e \in Tasks : task[e].at \in {"send", "room"}}
    <3>1. \A x, y \in S : x = y
      BY <2>0 DEF LockInv
    <3> HIDE DEF S
    <3>2. Cardinality(S) <= 1
      BY <2>a, <3>1
    <3> QED BY <3>2 DEF S
  <2>2. Cardinality({c \in calls : c.awaited /\ c.of = "loop"}) <= 1
    <3> DEFINE S == {c \in calls : c.awaited /\ c.of = "loop"}
    <3>1. \A x, y \in S : x = y
      BY <2>0 DEF CallInv
    <3> HIDE DEF S
    <3>2. Cardinality(S) <= 1
      BY <2>a, <3>1
    <3> QED BY <3>2 DEF S
  <2>3. (\E e \in Tasks : Reading(e)) => tx # "none"
    BY <2>0 DEF LockInv
  <2>4. \A e \in Tasks : task[e].at \in {"off", "idle", "wait", "tx", "limiter", "send", "room"}
    BY <2>0 DEF ShapeOK, Task, Waits, Delivers
  <2>5. conn.attempt <= MaxRetries /\ conn.missed <= MaxMissed
    BY <2>0 DEF ConnOK, Fine
  <2> QED BY <2>0, <2>1, <2>2, <2>3, <2>4, <2>5 DEF TypeOK, ShapeOK, Phases
<1> QED BY <1>1, Invariance, PTL

\* What a polled channel or a connection hands to the agent is in the order of
\* the platform and comes once, whatever is dropped, retried or aborted.
THEOREM MessagesInOrder == Spec => []InOrder
<1>1. IInv => InOrder
  <2> SUFFICES ASSUME IInv, kind # "web", ~(kind = "poll" /\ "timeout" \in faults) PROVE Increasing(Arrived)
    BY DEF InOrder, Increasing
  <2>1. OrderInv /\ kind \in {"poll", "web", "gateway", "socket"}
    BY DEF IInv, ShapeOK
  <2> QED BY <2>1 DEF OrderInv, PollOrder, QueueOrder, HasBroker
<1> QED BY <1>1, Invariance, PTL

\* As long as nothing fails, all below the saved offset has arrived, and all a
\* connection brought has arrived or is in line.
THEOREM NothingLost == Spec => []NoGaps
<1>1. IInv => NoGaps
  <2>1. GapInv => NoGaps
    <3> SUFFICES ASSUME GapInv, faults = {} /\ kind # "web" PROVE NoGaps
      BY DEF NoGaps
    <3> QED BY DEF GapInv
  <2> QED BY <2>1 DEF IInv
<1> QED BY <1>1, Invariance, PTL

\* A webhook request is answered with success only when the agent's queue has
\* taken all that one callback may emit of it, or the channel has no one to send
\* to.
THEOREM AcknowledgedArrives == Spec => []AcknowledgedIsDelivered
<1>1. IInv => AcknowledgedIsDelivered
  <2> SUFFICES ASSUME IInv PROVE AcknowledgedIsDelivered
    OBVIOUS
  <2>1. ToSet(taken \o inbox) = Reached
    <3>1. taken \in Seq(Nat) /\ inbox \in Seq(Nat)
      BY DEF IInv, ShapeOK
    <3> QED BY <3>1, Elements DEF Reached
  <2>2. \A r \in Requests : Proper(r)
    BY DEF IInv, RequestInv
  <2> QED BY <2>1, <2>2 DEF AcknowledgedIsDelivered, Proper, Due
<1> QED BY <1>1, Invariance, PTL
=============================================================================
