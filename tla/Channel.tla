------------------------------ MODULE Channel ------------------------------
(***************************************************************************)
(* One WASM channel and its host: start and shutdown, the poll loop, the   *)
(* connection broker with its connection task and its dispatch loop, the   *)
(* webhook requests, the guest callbacks on blocking threads with their    *)
(* timeouts, and the delivery of what they emit to the agent through one   *)
(* bounded queue, under the locks of message_tx and of the rate limiter.   *)
(*                                                                         *)
(* A message is its number: the platform numbers them from 1.  The kind of *)
(* channel is its configuration: "poll" (Telegram without a tunnel), "web" *)
(* (a webhook), "gateway" (a WebSocket whose server speaks first, then     *)
(* answers the handshake, like Discord's) and "socket" (a WebSocket with a *)
(* handshake sent at once and no answer to it).                            *)
(***************************************************************************)
EXTENDS Naturals, Sequences, FiniteSets, FiniteSetsExt, SequencesExt

CONSTANTS
    Kinds,         \* the kinds of channel to look at
    Requests,      \* webhook requests
    MaxPosts,      \* bound: messages of the platform
    MaxCalls,      \* bound: callbacks called
    Page,          \* messages getUpdates hands over at once
    MaxEmits,      \* MAX_EMITS_PER_EXECUTION
    InboxSize,     \* the capacity of the queue to the agent
    QueueSize,     \* event_queue_size
    Keepalive,     \* the keepalive of each WebSocket; json_opcode with its payload
    MaxRetries,    \* reconnect.max_retries
    MaxMissed      \* MAX_MISSED_HEARTBEATS

ASSUME ChannelAssumption ==
    /\ Kinds \subseteq {"poll", "web", "gateway", "socket"}
    /\ {MaxPosts, MaxCalls, MaxRetries, MaxMissed} \subseteq Nat
    /\ {Page, MaxEmits, InboxSize, QueueSize} \subseteq Nat \ {0}
    /\ Page <= MaxEmits
    /\ Keepalive \in [{"gateway", "socket"} -> {"json_opcode", "ping_pong", "none"}]
    /\ "loop" \notin Requests

VARIABLES
    kind,      \* the configuration of the channel, fixed
    phase,     \* where start and shutdown of the channel are
    agent,     \* whether the message loop still reads its stream
    tx,        \* message_tx: none, or a sender whose receiver is open or gone
    inbox,     \* the queue between the channel and the agent
    taken,     \* history: messages the agent has received
    task,      \* the poll or dispatch loop, and the webhook requests
    request,   \* the messages of each webhook request, and its answer
    calls,     \* guest callbacks on blocking threads
    offset,    \* the offset in channel_state
    confirmed, \* the platform has forgotten the messages below this one
    posted,    \* messages of the platform so far
    called,    \* callbacks called so far
    stop,      \* the shutdown signals: broker watch and poll oneshot
    conn,      \* the connection task
    queue,     \* events on their way to the dispatch loop
    faults     \* history: what has gone wrong so far

channel == <<kind, phase, agent, stop>>
delivery == <<tx, inbox, taken, task, request>>
guest == <<calls, offset, confirmed, called>>
broker == <<conn, queue>>
vars == <<channel, delivery, guest, broker, posted, faults>>

Tasks == {"loop"} \cup Requests
HasBroker == kind \in {"gateway", "socket"}
Off == [at |-> "off", batch |-> <<>>]
Idle == [at |-> "idle", batch |-> <<>>]
NoConn == [at |-> "off", attempt |-> 0, sent |-> FALSE, ready |-> FALSE, done |-> FALSE, missed |-> 0]

Fault(f) == faults' = faults \cup {f}
Ids(first, last) == [n \in 1 .. (last + 1) - first |-> first + n - 1]
Prefix(s, n) == SubSeq(s, 1, IF Len(s) < n THEN Len(s) ELSE n)

-----------------------------------------------------------------------------
(* Start and shutdown.                                                     *)

Start ==
    /\ phase = "new"
    /\ tx' = "open"
    /\ phase' = "starting"
    /\ UNCHANGED <<kind, agent, stop, inbox, taken, task, request, guest, broker, posted, faults>>

\* on_start failed, trapped or timed out: the receiver is dropped, the sender stays.
StartFails ==
    /\ phase = "starting"
    /\ phase' = "refused"
    /\ tx' = "gone"
    /\ UNCHANGED <<kind, agent, stop, inbox, taken, task, request, guest, broker, posted, faults>>

StartEnds ==
    /\ phase = "starting"
    /\ phase' = "running"
    /\ task' = IF kind = "web" THEN task ELSE [task EXCEPT !["loop"] = Idle]
    /\ conn' = IF HasBroker THEN [conn EXCEPT !.at = "check"] ELSE conn
    /\ UNCHANGED <<kind, agent, stop, tx, inbox, taken, request, guest, queue, posted, faults>>

AgentTakes ==
    /\ agent = "serving" /\ inbox # <<>>
    /\ taken' = Append(taken, Head(inbox)) /\ inbox' = Tail(inbox)
    /\ UNCHANGED <<channel, tx, task, request, guest, broker, posted, faults>>

\* The message loop ends; its stream, and so the receiver, lives on until the
\* channels are shut down.
AgentLeaves ==
    /\ agent = "serving" /\ phase \in {"running", "refused"}
    /\ agent' = "left"
    /\ UNCHANGED <<kind, phase, stop, delivery, guest, broker, posted, faults>>

\* shutdown: the signals, then the lock of message_tx.
Shutdown ==
    /\ agent = "left" /\ phase \in {"running", "refused"}
    /\ phase' = "closing"
    /\ stop' = TRUE
    /\ UNCHANGED <<kind, agent, delivery, guest, broker, posted, faults>>

ShutdownQueues ==
    /\ phase = "closing"
    /\ phase' = "clearing"
    /\ UNCHANGED <<kind, agent, stop, delivery, guest, broker, posted, faults>>

Reading(e) == task[e].at \in {"limiter", "send", "room"}

ShutdownClears ==
    /\ phase = "clearing"
    /\ \A e \in Tasks : ~Reading(e)
    /\ tx' = "none"
    /\ phase' = "closed"
    /\ UNCHANGED <<kind, agent, stop, inbox, taken, task, request, guest, broker, posted, faults>>

-----------------------------------------------------------------------------
(* Callbacks.  Each runs on a blocking thread with a fresh instance; what  *)
(* it wrote is flushed when it returns, also when nobody waits any more.   *)

Call(e, at, batch) ==
    /\ called < MaxCalls
    /\ called' = called + 1
    /\ calls' = calls \cup {[n |-> called + 1, of |-> e, at |-> at, offset |-> 0,
                             batch |-> batch, awaited |-> TRUE]}
    /\ task' = [task EXCEPT ![e].at = "wait"]

\* A tick of the poll timer; nothing keeps an earlier callback from running still.
PollTick ==
    /\ kind = "poll" /\ task["loop"].at = "idle"
    /\ Call("loop", "called", <<>>)
    /\ UNCHANGED <<channel, tx, inbox, taken, request, offset, confirmed, broker, posted, faults>>

\* on_poll reads its offset.
GuestReads(c) ==
    /\ c.at = "called"
    /\ calls' = (calls \ {c}) \cup {[c EXCEPT !.at = "asking", !.offset = offset]}
    /\ UNCHANGED <<channel, delivery, offset, confirmed, called, broker, posted, faults>>

\* Mutant: the limit takes one message less.
EmittedOneLess(batch) == Prefix(batch, MaxEmits - 1)

\* What emit_message lets one callback emit; the rest is dropped without a word.
Emitted(batch) == Prefix(batch, MaxEmits)

\* getUpdates: the platform forgets what lies below the offset and answers with
\* a page of what it has; a request that fails answers nothing.
GuestFetches(c) ==
    /\ c.at = "asking"
    /\ \/ /\ confirmed' = Max({confirmed, c.offset})
          /\ calls' = (calls \ {c}) \cup
                {[c EXCEPT !.at = "got", !.batch = Prefix(Ids(Max({1, confirmed', c.offset}), posted), Page)]}
       \/ /\ calls' = (calls \ {c}) \cup {[c EXCEPT !.at = "got"]}
          /\ UNCHANGED confirmed
    /\ UNCHANGED <<channel, delivery, offset, called, broker, posted, faults>>

\* Mutant: the offset of the last message, not of the one after it.
NextOffsetStays(c) == IF c.batch = <<>> THEN c.offset ELSE Last(c.batch)

NextOffset(c) == IF c.batch = <<>> THEN c.offset ELSE Last(c.batch) + 1

\* The callback returns: its writes are flushed, and its caller, if it still
\* waits, goes on to dispatch what was emitted.
Returns(c) ==
    /\ c.at = "got"
    /\ calls' = calls \ {c}
    /\ offset' = IF kind = "poll" /\ NextOffset(c) # c.offset THEN NextOffset(c) ELSE offset
    /\ task' = IF ~c.awaited THEN task
               ELSE [task EXCEPT ![c.of] = IF c.batch = <<>> THEN Idle
                                           ELSE [at |-> "tx", batch |-> Emitted(c.batch)]]
    /\ UNCHANGED <<channel, tx, inbox, taken, request, confirmed, called, broker, posted, faults>>

\* The end of task e: a loop goes on, a request is answered.
EndsWith(e, status) ==
    /\ task' = [task EXCEPT ![e] = IF e = "loop" THEN Idle ELSE Off]
    /\ request' = IF e = "loop" THEN request ELSE [request EXCEPT ![e].status = status]

\* A trap, or fuel that is used up: nothing is flushed and nothing emitted.
Traps(c) ==
    /\ calls' = calls \ {c}
    /\ IF c.awaited THEN EndsWith(c.of, "error") ELSE UNCHANGED <<task, request>>
    /\ faults' = IF kind = "poll" THEN faults ELSE faults \cup {"trap"}
    /\ UNCHANGED <<channel, tx, inbox, taken, offset, confirmed, called, broker, posted>>

\* callback_timeout: the caller gives up, the thread goes on.
TimesOut(c) ==
    /\ c.awaited
    /\ calls' = (calls \ {c}) \cup {[c EXCEPT !.awaited = FALSE]}
    /\ EndsWith(c.of, "error")
    /\ Fault("timeout")
    /\ UNCHANGED <<channel, tx, inbox, taken, offset, confirmed, called, broker, posted>>

-----------------------------------------------------------------------------
(* dispatch_emitted_messages and process_emitted_messages.                 *)

\* The read lock is fair: behind a shutdown that waits for it readers queue up.
ReadTx(e) ==
    /\ task[e].at = "tx" /\ phase # "clearing"
    /\ IF tx # "none" THEN task' = [task EXCEPT ![e].at = "limiter"] /\ UNCHANGED <<request, faults>>
       ELSE EndsWith(e, "ok") /\ Fault("nosender")
    /\ UNCHANGED <<channel, tx, inbox, taken, guest, broker, posted>>

LockLimiter(e) ==
    /\ task[e].at = "limiter"
    /\ \A f \in Tasks : task[f].at \notin {"send", "room"}
    /\ task' = [task EXCEPT ![e].at = "send"]
    /\ UNCHANGED <<channel, tx, inbox, taken, request, guest, broker, posted, faults>>

\* Mutant: the refusal is not reported.
LimitedQuietly(e) ==
    /\ task[e].at = "send" /\ task[e].batch # <<>>
    /\ EndsWith(e, "ok")
    /\ Fault("limited")
    /\ UNCHANGED <<channel, tx, inbox, taken, guest, broker, posted>>

\* Whether check_and_record admits a message is a matter of the clock.
Limited(e) ==
    /\ task[e].at = "send" /\ task[e].batch # <<>>
    /\ EndsWith(e, "error")
    /\ Fault("limited")
    /\ UNCHANGED <<channel, tx, inbox, taken, guest, broker, posted>>

Admitted(e) ==
    /\ task[e].at = "send" /\ task[e].batch # <<>>
    /\ task' = [task EXCEPT ![e].at = "room"]
    /\ UNCHANGED <<channel, tx, inbox, taken, request, guest, broker, posted, faults>>

\* tx.send: waits for room; fails when the receiver is gone, which is not an error.
Sends(e) ==
    /\ task[e].at = "room"
    /\ \/ /\ tx = "open" /\ Len(inbox) < InboxSize
          /\ inbox' = Append(inbox, Head(task[e].batch))
          /\ task' = [task EXCEPT ![e] = [at |-> "send", batch |-> Tail(@.batch)]]
          /\ UNCHANGED <<request, faults>>
       \/ /\ tx = "gone"
          /\ EndsWith(e, "ok") /\ Fault("nosender")
          /\ UNCHANGED inbox
    /\ UNCHANGED <<channel, tx, taken, guest, broker, posted>>

Dispatched(e) ==
    /\ task[e].at = "send" /\ task[e].batch = <<>>
    /\ EndsWith(e, "ok")
    /\ UNCHANGED <<channel, tx, inbox, taken, guest, broker, posted, faults>>

-----------------------------------------------------------------------------
(* The sources: webhook requests, the platform, the loops.                 *)

\* A request brings any number of new messages, or those of one that was answered
\* with an error.
Request(r) ==
    /\ kind = "web" /\ task[r].at = "off"
    /\ \/ /\ request[r].status = "new"
          /\ \E k \in 1 .. MaxPosts :
                /\ posted + k <= MaxPosts
                /\ posted' = posted + k
                /\ Call(r, "got", Ids(posted + 1, posted + k))
                /\ request' = [request EXCEPT ![r] =
                                  [ids |-> Ids(posted + 1, posted + k), status |-> "asked"]]
       \/ /\ request[r].status = "error"
          /\ Call(r, "got", request[r].ids)
          /\ request' = [request EXCEPT ![r].status = "asked"]
          /\ UNCHANGED posted
    /\ UNCHANGED <<channel, tx, inbox, taken, offset, confirmed, broker, faults>>

\* Somebody writes to the bot.
Post ==
    /\ kind = "poll" /\ posted < MaxPosts
    /\ posted' = posted + 1
    /\ UNCHANGED <<channel, delivery, guest, broker, faults>>

PollStops ==
    /\ kind = "poll" /\ stop /\ task["loop"].at = "idle"
    /\ task' = [task EXCEPT !["loop"] = Off]
    /\ UNCHANGED <<channel, tx, inbox, taken, request, guest, broker, posted, faults>>

\* The dispatch loop takes the next event.
TakeEvent ==
    /\ HasBroker /\ task["loop"].at = "idle" /\ queue # <<>>
    /\ Call("loop", "got", <<Head(queue)>>)
    /\ queue' = Tail(queue)
    /\ UNCHANGED <<channel, tx, inbox, taken, request, offset, confirmed, conn, posted, faults>>

\* It sees the signal, or the end of the connection task behind the last event,
\* drops the events that still wait and ends the connection task.
DispatchStops ==
    /\ HasBroker /\ task["loop"].at = "idle"
    /\ stop \/ (conn.at = "ended" /\ queue = <<>>)
    /\ task' = [task EXCEPT !["loop"] = Off]
    /\ conn' = [conn EXCEPT !.at = "ended"]
    /\ queue' = <<>>
    /\ faults' = IF queue = <<>> THEN faults ELSE faults \cup {"stop"}
    /\ UNCHANGED <<channel, tx, inbox, taken, request, guest, posted>>

\* Mutant: the abort waits until the batch in hand is delivered.
AbortWaitsForBatch ==
    /\ HasBroker /\ stop /\ task["loop"].at \in {"idle", "wait"}
    /\ task' = [task EXCEPT !["loop"] = Off]
    /\ calls' = {[c EXCEPT !.awaited = FALSE] : c \in calls}
    /\ queue' = <<>>
    /\ Fault("stop")
    /\ UNCHANGED <<channel, tx, inbox, taken, request, offset, confirmed, called, conn, posted>>

\* shutdown aborts it wherever it waits, which drops the events; a callback it
\* waited for runs on, the connection task is left to the signal.
DispatchAborted ==
    /\ HasBroker /\ stop /\ task["loop"].at # "off"
    /\ task' = [task EXCEPT !["loop"] = Off]
    /\ calls' = {[c EXCEPT !.awaited = FALSE] : c \in calls}
    /\ queue' = <<>>
    /\ Fault("stop")
    /\ UNCHANGED <<channel, tx, inbox, taken, request, offset, confirmed, called, conn, posted>>

-----------------------------------------------------------------------------
(* The connection task.                                                    *)

\* What becomes of a connection, or of an attempt at one, that failed.
Retry(c) ==
    IF c.attempt + 1 > MaxRetries THEN [NoConn EXCEPT !.at = "ended"]
    ELSE [NoConn EXCEPT !.at = "pause", !.attempt = c.attempt + 1]

ConnStep(c) == conn' = c /\ UNCHANGED <<channel, delivery, guest, queue, posted, faults>>

ConnCheck ==
    /\ conn.at = "check"
    /\ ConnStep([conn EXCEPT !.at = IF stop THEN "ended" ELSE "connect"])

\* A connection resets the attempts before its handshake is sent; the messages
\* that complete the handshake are those of a gateway.  An attempt has no timeout
\* and does not look at the signal.
Connect ==
    /\ conn.at = "connect"
    /\ LET open == [conn EXCEPT !.at = "open", !.attempt = 0,
                                !.sent = kind = "socket", !.done = kind = "socket"]
       IN  \/ ConnStep(open)
           \/ ConnStep(Retry(conn))
           \/ kind = "socket" /\ ConnStep(Retry(open))

Pause ==
    /\ conn.at = "pause"
    /\ \/ ConnStep([conn EXCEPT !.at = "check"])
       \/ stop /\ ConnStep([conn EXCEPT !.at = "ended"])

ConnStops ==
    /\ conn.at = "open" /\ stop
    /\ ConnStep([conn EXCEPT !.at = "ended"])

\* The server closes, the connection breaks, or a heartbeat or ping cannot be sent.
Closed == conn.at = "open" /\ ConnStep(Retry(conn))

\* Heartbeats are counted and acknowledged with a json_opcode keepalive only: a
\* ping that is sent changes nothing, and without a keepalive there is no timer.
Counted == HasBroker /\ Keepalive[kind] = "json_opcode"

Ack == conn.at = "open" /\ Counted /\ ConnStep([conn EXCEPT !.missed = 0])

\* Mutant: too many unanswered heartbeats are no reason to leave.
HeartbeatStays ==
    /\ conn.at = "open" /\ Counted
    /\ ConnStep(IF conn.missed + 1 > MaxMissed THEN conn ELSE [conn EXCEPT !.missed = @ + 1])

\* The heartbeat timer.
Heartbeat ==
    /\ conn.at = "open" /\ Counted
    /\ ConnStep(IF conn.missed + 1 > MaxMissed THEN Retry(conn) ELSE [conn EXCEPT !.missed = @ + 1])

\* The gateway's first message triggers the handshake, which may fail.
Hello ==
    /\ conn.at = "open" /\ kind = "gateway" /\ ~conn.sent
    /\ ConnStep([conn EXCEPT !.sent = TRUE]) \/ ConnStep(Retry(conn))

\* The gateway's answer to the handshake; above max_event_size it is dropped.
Ready ==
    /\ conn.at = "open" /\ kind = "gateway" /\ conn.sent /\ ~conn.ready
    /\ \/ ConnStep([conn EXCEPT !.ready = TRUE, !.done = TRUE])
       \/ /\ conn' = [conn EXCEPT !.ready = TRUE]
          /\ Fault("size")
          /\ UNCHANGED <<channel, delivery, guest, queue, posted>>

\* try_send: the dispatch loop still receives and there is room.
QueueTakes == task["loop"].at # "off" /\ Len(queue) < QueueSize

\* An event has the op of the handshake's answer: the first one is taken for it
\* when the answer itself was dropped.  A full queue drops the new event.
Event ==
    /\ conn.at = "open" /\ (IF kind = "gateway" THEN conn.ready ELSE conn.sent)
    /\ posted < MaxPosts
    /\ posted' = posted + 1
    /\ \/ ~conn.done /\ conn' = [conn EXCEPT !.done = TRUE] /\ UNCHANGED <<queue, faults>>
       \/ conn.done /\ QueueTakes /\ queue' = Append(queue, posted + 1) /\ UNCHANGED <<conn, faults>>
       \/ conn.done /\ ~QueueTakes /\ Fault("full") /\ UNCHANGED <<conn, queue>>
       \/ Fault("size") /\ UNCHANGED <<conn, queue>>
    /\ UNCHANGED <<channel, delivery, guest>>

-----------------------------------------------------------------------------
Init ==
    /\ kind \in Kinds /\ phase = "new" /\ agent = "serving" /\ stop = FALSE
    /\ tx = "none" /\ inbox = <<>> /\ taken = <<>>
    /\ task = [e \in Tasks |-> Off]
    /\ request = [r \in Requests |-> [ids |-> <<>>, status |-> "new"]]
    /\ calls = {} /\ offset = 0 /\ confirmed = 0 /\ called = 0
    /\ conn = NoConn /\ queue = <<>>
    /\ posted = 0 /\ faults = {}

Lifecycle == Start \/ StartFails \/ StartEnds \/ AgentLeaves \/ Shutdown \/ ShutdownQueues \/ ShutdownClears
Guest(c) == GuestReads(c) \/ GuestFetches(c) \/ Returns(c) \/ Traps(c)
Deliver(e) == ReadTx(e) \/ LockLimiter(e) \/ Limited(e) \/ Admitted(e) \/ Sends(e) \/ Dispatched(e)
Connection == ConnCheck \/ Connect \/ Pause \/ ConnStops
Server == Closed \/ Ack \/ Hello \/ Ready \/ Event

Next ==
    \/ Lifecycle \/ AgentTakes \/ Post
    \/ PollTick \/ PollStops
    \/ \E r \in Requests : Request(r)
    \/ \E c \in calls : Guest(c) \/ TimesOut(c)
    \/ \E e \in Tasks : Deliver(e)
    \/ TakeEvent \/ DispatchStops \/ DispatchAborted
    \/ Connection \/ Server \/ Heartbeat

\* The loops and the shutdown are scheduled, every wait for a callback ends at its
\* timeout, the heartbeat timer ticks where there is one.  Nothing is assumed of the
\* platform, the guest, the agent, or the connection task, which may wait for its
\* server for ever.
Fairness ==
    /\ WF_vars(ShutdownQueues) /\ WF_vars(ShutdownClears) /\ WF_vars(PollStops)
    /\ WF_vars(DispatchStops) /\ WF_vars(DispatchAborted)
    /\ WF_vars(\E c \in calls : TimesOut(c))
    /\ \A e \in Tasks : WF_vars(Deliver(e))
    /\ WF_vars(Heartbeat)

Spec == Init /\ [][Next]_vars /\ Fairness

-----------------------------------------------------------------------------
(* Properties.                                                             *)

\* Queues keep their capacity, the connection its limits, and nobody sends
\* without the sender.
TypeOK ==
    /\ phase \in {"new", "starting", "running", "refused", "closing", "clearing", "closed"}
    /\ Len(inbox) <= InboxSize /\ Len(queue) <= QueueSize
    /\ \A e \in Tasks : task[e].at \in {"off", "idle", "wait", "tx", "limiter", "send", "room"}
    /\ Cardinality({e \in Tasks : task[e].at \in {"send", "room"}}) <= 1
    /\ (\E e \in Tasks : Reading(e)) => tx # "none"
    /\ Cardinality({c \in calls : c.awaited /\ c.of = "loop"}) <= 1
    /\ conn.attempt <= MaxRetries /\ conn.missed <= MaxMissed

Arrived == taken \o inbox \o task["loop"].batch

\* The messages of a polled channel or of a connection reach the agent in the
\* order of the platform and at most once, whatever is dropped, times out or is
\* retried; for polling only as long as no callback outlives its timeout, since
\* its late flush may take the offset back.
InOrder ==
    \/ kind = "web" \/ (kind = "poll" /\ "timeout" \in faults)
    \/ \A m, n \in DOMAIN Arrived : m < n => Arrived[m] < Arrived[n]

\* What the callback in progress works on; without a fault there is at most one.
InHand == IF calls = {} THEN <<>> ELSE (CHOOSE c \in calls : TRUE).batch

\* Nothing goes missing without a fault: what lies below the saved offset, or
\* came over the connection, has arrived or is on its way, also when a page has
\* as many messages as one callback may emit and when a callback traps.  A
\* shutdown that finds events in the queue is such a fault, as is a timeout, a
\* full queue or an event above the size limit.
NoGaps ==
    (faults = {} /\ kind # "web") =>
        IF kind = "poll" THEN Arrived = Ids(1, IF offset = 0 THEN 0 ELSE offset - 1)
        ELSE Arrived \o InHand \o queue = Ids(1, posted)

\* A webhook request is answered with success only when all that one callback may
\* emit of it is in the queue to the agent, so that the platform repeats the
\* others; a channel without a sender or a receiver is the one exception.  What a
\* request brings beyond the limit is acknowledged and lost.
AcknowledgedIsDelivered ==
    \A r \in Requests :
        request[r].status = "ok" =>
            \/ ToSet(Prefix(request[r].ids, MaxEmits)) \subseteq ToSet(taken \o inbox)
            \/ "nosender" \in faults

\* With a json_opcode keepalive a server that neither answers heartbeats nor closes
\* is left: a connection that stays open for ever is acknowledged again and again.
SilentServerIsLeft ==
    <>[](conn.at = "open" /\ Counted) => []<>(conn.missed = 0)

\* A batch of a poll or of a request that waits for room in the queue of an agent
\* that has left holds the lock that shutdown waits for.
Jammed ==
    \E e \in Tasks : /\ task[e].at = "room" /\ Len(inbox) = InboxSize
                     /\ e \in Requests \/ kind = "poll"

\* The shutdown of a channel with a broker always returns and its dispatch loop
\* ends, also when that loop waits for room in a queue nobody empties and holds the
\* lock shutdown needs: it is aborted.  Without a broker the same holds unless a
\* batch is jammed, which nothing resolves.
ShutdownEnds ==
    phase = "closing" ~>
        \/ phase = "closed" /\ task["loop"].at = "off"
        \/ ~HasBroker /\ Jammed

=============================================================================
