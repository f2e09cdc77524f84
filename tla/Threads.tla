------------------------------ MODULE Threads ------------------------------
(***************************************************************************)
(* Conversations: the sessions, threads and turns of one user, the message *)
(* loop that hydrates, resolves and dispatches each message, the agentic   *)
(* loop with its approvals and its auth mode, undo and redo, the pruning   *)
(* of idle sessions, the web handlers that touch a session directly, the   *)
(* spawned writes of finished turns, and restarts of the process.          *)
(*                                                                         *)
(* A text is the number of the user input it belongs to: a turn holds its  *)
(* input and the input its response answers.  Every message comes from the *)
(* gateway; its key is the thread id it carries, or none.  An action is a  *)
(* stretch of one task between two awaits at which another task could make *)
(* a difference.                                                           *)
(***************************************************************************)
EXTENDS Naturals, Sequences, SequencesExt

CONSTANTS
    Kinds,            \* the submissions the messages parse to
    Batches,          \* the batches of tool calls the LLM may answer with
    MaxMessages,      \* bound: messages received
    MaxIterations,    \* MAX_TOOL_ITERATIONS
    MaxCheckpoints,   \* UndoManager.max_checkpoints
    KeepRecent,       \* turns that a compaction keeps
    MaxEvents         \* bound: threads made by the web, prunings and restarts

Tools == {"plain", "activate", "auth", "shell", "rm"}

ASSUME ThreadsAssumption ==
    /\ Batches \subseteq Seq(Tools) \ {<<>>}
    /\ MaxIterations \in Nat /\ MaxCheckpoints \in Nat \ {0}
    /\ KeepRecent \in Nat \ {0} /\ {MaxMessages, MaxEvents} \subseteq Nat

VARIABLES
    sess,       \* every session object made since the process started
    live,       \* the one SessionManager.sessions holds, 0 for none
    map,        \* SessionManager.thread_map: key -> thread id, 0 for none
    undo,       \* SessionManager.undo_managers, by thread id
    db,         \* conversation_messages, by thread id; ids are dealt in order
    writes,     \* spawned persist_turn tasks that have not ended
    loop,       \* where the message loop is
    prune,      \* where prune_stale_sessions is
    inputs,     \* user inputs that became turns
    ran,        \* history: executions of each approval request
    void,       \* history: requests that stopped waiting without being run
    restored,   \* history: threads that were made again from their rows
    moved,      \* history: keys whose messages asked for another thread, by /new or /thread
    budget      \* what the bounds still allow

vars == <<sess, live, map, undo, db, writes, loop, prune, inputs, ran, void, restored,
          moved, budget>>

NoId == 0
NoRequest == [id |-> 0, tool |-> "plain", input |-> 0]
Idle == [at |-> "idle"]
NewThread == [state |-> "Idle", turns |-> <<>>, req |-> NoRequest, auth |-> FALSE]
NewSession == [threads |-> <<>>, active |-> NoId, auto |-> {}]
NewUndo == [undo |-> <<>>, redo |-> <<>>]

ThreadIds == DOMAIN db
Requests == DOMAIN ran
Threads == {st \in (DOMAIN sess) \X ThreadIds : st[2] \in DOMAIN sess[st[1]].threads}
Thread(s, t) == sess[s].threads[t]

-----------------------------------------------------------------------------
(* Turns and messages.                                                     *)

Turn(i) == [input |-> i, resp |-> 0, state |-> "Processing"]
StartTurn(th, i) == [th EXCEPT !.turns = Append(@, Turn(i)), !.state = "Processing"]

\* Replace the last turn, if there is one.
SetLast(turns, turn) == IF turns = <<>> THEN turns ELSE Append(Front(turns), turn)

CompleteTurn(th, i) ==
    [th EXCEPT !.state = "Idle",
               !.turns = SetLast(@, [Last(@) EXCEPT !.resp = i, !.state = "Completed"])]
\* Mutant: the thread stays Processing.
FailTurnKeepsState(th) ==
    [th EXCEPT !.turns = SetLast(@, [Last(@) EXCEPT !.state = "Failed"])]

FailTurn(th) ==
    [th EXCEPT !.state = "Idle", !.turns = SetLast(@, [Last(@) EXCEPT !.state = "Failed"])]
Interrupt(th) ==
    [th EXCEPT !.state = "Interrupted",
               !.turns = SetLast(@, [Last(@) EXCEPT !.state = "Interrupted"])]
AwaitApproval(th, req) == [th EXCEPT !.state = "AwaitingApproval", !.req = req]

User(i) == [role |-> "user", of |-> i]
Assistant(i) == [role |-> "assistant", of |-> i]

Messages(turns) ==
    FlattenSeq([n \in DOMAIN turns |->
        IF turns[n].resp = 0 THEN <<User(turns[n].input)>>
        ELSE <<User(turns[n].input), Assistant(turns[n].resp)>>])

\* A user message opens a turn; an assistant message right after it answers it.
RestoreFromMessages(th, msgs) ==
    LET Step(done, msg) ==
            IF msg.role = "user" THEN Append(done, Turn(msg.of))
            ELSE IF done # <<>> /\ Last(done).resp = 0
            THEN SetLast(done, [Last(done) EXCEPT !.resp = msg.of, !.state = "Completed"])
            ELSE done
        turns[n \in 0 .. Len(msgs)] == IF n = 0 THEN <<>> ELSE Step(turns[n - 1], msgs[n])
    IN  [th EXCEPT !.turns = turns[Len(msgs)], !.state = "Idle"]

Truncate(turns) ==
    IF Len(turns) > KeepRecent THEN SubSeq(turns, Len(turns) - KeepRecent + 1, Len(turns)) ELSE turns

\* Mutant: the redo stack outlives the new branch.
CheckpointKeepsRedo(u, msgs) ==
    LET stack == Append(u.undo, msgs)
    IN  [undo |-> IF Len(stack) > MaxCheckpoints THEN Tail(stack) ELSE stack, redo |-> u.redo]

Checkpoint(u, msgs) ==
    LET stack == Append(u.undo, msgs)
    IN  [undo |-> IF Len(stack) > MaxCheckpoints THEN Tail(stack) ELSE stack, redo |-> <<>>]

-----------------------------------------------------------------------------
(* The session manager.                                                    *)

LiveSession == IF live = 0 THEN Len(sess) + 1 ELSE live
SessionsWithLive == IF live = 0 THEN Append(sess, NewSession) ELSE sess

\* Put thread t into a session's map and make it the active one.
WithThread(session, t, th) ==
    [session EXCEPT !.threads = [u \in DOMAIN @ \cup {t} |-> IF u = t THEN th ELSE @[u]],
                    !.active = t]

FreshId == Len(db) + 1
AddId == db' = Append(db, <<>>) /\ undo' = Append(undo, NewUndo)

Put(s, t, th) == sess' = [sess EXCEPT ![s].threads[t] = th]

Spend(what) == budget[what] > 0 /\ budget' = [budget EXCEPT ![what] = @ - 1]
Spare == UNCHANGED budget

-----------------------------------------------------------------------------
(* Web handlers that reach into the session.                               *)

WebNewThread ==
    /\ Spend("events")
    /\ live' = LiveSession
    /\ sess' = [SessionsWithLive EXCEPT ![LiveSession] = WithThread(@, FreshId, NewThread)]
    /\ AddId
    /\ UNCHANGED <<map, writes, loop, prune, inputs, ran, moved>>

\* chat_auth_cancel_handler, and chat_auth_token_handler when the token is right.
WebClearAuth ==
    /\ \E s \in DOMAIN sess : \E t \in DOMAIN sess[s].threads : Thread(s, t).auth
    /\ live' = LiveSession
    /\ LET active == SessionsWithLive[LiveSession].active
       IN  sess' = IF active = NoId THEN SessionsWithLive
                   ELSE [SessionsWithLive EXCEPT ![LiveSession].threads[active].auth = FALSE]
    /\ Spare
    /\ UNCHANGED <<map, undo, db, writes, loop, prune, inputs, ran, moved>>

-----------------------------------------------------------------------------
(* handle_message, up to the dispatch.                                     *)

\* The stream holds whatever the channels put into it: any message may be the
\* next one, but the loop only looks when it has handled the one before.  Rows
\* of the thread that cannot be read are taken for none.
Receive ==
    /\ loop.at = "idle"
    /\ Spend("messages")
    /\ \E key \in {NoId} \cup ThreadIds :
        IF key = NoId
        THEN loop' = [at |-> "resolve", key |-> key] /\ UNCHANGED <<sess, live>>
        ELSE /\ live' = LiveSession
             /\ sess' = SessionsWithLive
             /\ IF key \in DOMAIN SessionsWithLive[LiveSession].threads
                THEN loop' = [at |-> "resolve", key |-> key]
                ELSE \E msgs \in {db[key], <<>>} :
                        loop' = [at |-> "hydrate", key |-> key, s |-> LiveSession, msgs |-> msgs]
    /\ UNCHANGED <<map, undo, db, writes, prune, inputs, ran, moved>>

\* The rest of maybe_hydrate_thread, with register_thread.
Hydrate ==
    /\ loop.at = "hydrate"
    /\ sess' = [sess EXCEPT ![loop.s] =
                    WithThread(@, loop.key, RestoreFromMessages(NewThread, loop.msgs))]
    /\ map' = [k \in DOMAIN map \cup {loop.key} |-> IF k = loop.key THEN k ELSE map[k]]
    /\ live' = IF live = 0 THEN loop.s ELSE live
    /\ loop' = [at |-> "resolve", key |-> loop.key]
    /\ Spare
    /\ UNCHANGED <<undo, db, writes, prune, inputs, ran, moved>>

\* Mutant: the thread is not looked for in the session.
KnownAnywhere(key) == key \in DOMAIN map
\* Mutant: only the active thread is looked for.
KnownWhenActive(key) ==
    key \in DOMAIN map /\ map[key] = SessionsWithLive[LiveSession].active

\* A key is known when its thread is in the session that was just looked up.
Known(key) == key \in DOMAIN map /\ map[key] \in DOMAIN SessionsWithLive[LiveSession].threads

Resolve ==
    /\ loop.at = "resolve"
    /\ live' = LiveSession
    /\ sess' = SessionsWithLive
    /\ loop' = IF Known(loop.key)
               THEN [at |-> "dispatch", key |-> loop.key, s |-> LiveSession, t |-> map[loop.key]]
               ELSE [at |-> "mint", key |-> loop.key, s |-> LiveSession]
    /\ Spare
    /\ UNCHANGED <<map, undo, db, writes, prune, inputs, ran, moved>>

Mint ==
    /\ loop.at = "mint"
    /\ sess' = [sess EXCEPT ![loop.s] = WithThread(@, FreshId, NewThread)]
    /\ map' = [k \in DOMAIN map \cup {loop.key} |-> IF k = loop.key THEN FreshId ELSE map[k]]
    /\ AddId
    /\ loop' = [at |-> "dispatch", key |-> loop.key, s |-> loop.s, t |-> FreshId]
    /\ Spare
    /\ UNCHANGED <<live, writes, prune, inputs, ran, moved>>

-----------------------------------------------------------------------------
(* The handlers, one for each kind of submission the message may parse to. *)
(* Any but user input ends the auth mode of the thread.                    *)

Handling(kind) == loop.at = "dispatch" /\ kind \in Kinds
Here == [Thread(loop.s, loop.t) EXCEPT !.auth = FALSE]
PutHere(th) == Put(loop.s, loop.t, th)
Done == loop' = Idle

\* Leave thread th behind and take the next message; a session that was pruned
\* meanwhile is freed with the message.
Reply(th) ==
    /\ sess' = IF loop.s = live THEN [sess EXCEPT ![loop.s].threads[loop.t] = th]
               ELSE [sess EXCEPT ![loop.s] = NewSession]
    /\ Done

\* The agentic loop of the turn that works on input i.
Turning(i, via) ==
    [at |-> "llm", s |-> loop.s, t |-> loop.t, i |-> i, via |-> via, iteration |-> 0,
     batch |-> <<>>, result |-> "none"]

MayStart(th) == th.state \in {"Idle", "Interrupted"}

\* Refused, rejected by the safety layer, or routed as a job command.
RefuseInput ==
    /\ Handling("input") /\ ~Thread(loop.s, loop.t).auth
    /\ Reply(Here)
    /\ UNCHANGED <<undo, inputs>>

ProcessUserInput ==
    /\ Handling("input") /\ ~Thread(loop.s, loop.t).auth
    /\ MayStart(Here)
    /\ \E compacted \in {Here.turns, Truncate(Here.turns)} :
        /\ undo' = [undo EXCEPT ![loop.t] = Checkpoint(@, Messages(compacted))]
        /\ PutHere(StartTurn([Here EXCEPT !.turns = compacted], inputs + 1))
    /\ inputs' = inputs + 1
    /\ loop' = Turning(inputs + 1, "input")

\* The current checkpoint stays on the stack.
ProcessUndo ==
    /\ Handling("undo")
    /\ LET u == undo[loop.t]
       IN  IF u.undo = <<>> THEN Reply(Here) /\ UNCHANGED undo
           ELSE /\ undo' = [undo EXCEPT ![loop.t].redo = Append(@, Messages(Here.turns))]
                /\ Reply(RestoreFromMessages(Here, Last(u.undo)))
    /\ UNCHANGED inputs

ProcessRedo ==
    /\ Handling("redo")
    /\ LET u == undo[loop.t]
       IN  IF u.redo = <<>> THEN Reply(Here) /\ UNCHANGED undo
           ELSE /\ undo' = [undo EXCEPT ![loop.t].redo = Front(@)]
                /\ Reply(RestoreFromMessages(Here, Last(u.redo)))
    /\ UNCHANGED inputs

\* The checkpoint is named by its id: any on the undo stack, or none.
ProcessResume ==
    /\ Handling("resume")
    /\ \/ \E n \in DOMAIN undo[loop.t].undo :
            /\ undo' = [undo EXCEPT ![loop.t] = [undo |-> SubSeq(@.undo, 1, n - 1), redo |-> <<>>]]
            /\ Reply(RestoreFromMessages(Here, undo[loop.t].undo[n]))
       \/ Reply(Here) /\ UNCHANGED undo
    /\ UNCHANGED inputs

ProcessInterrupt ==
    /\ Handling("interrupt")
    /\ Reply(IF Here.state \in {"Processing", "AwaitingApproval"} THEN Interrupt(Here) ELSE Here)
    /\ UNCHANGED <<undo, inputs>>

\* A failed summary leaves the turns alone.
ProcessCompact ==
    /\ Handling("compact")
    /\ \E turns \in {Here.turns, Truncate(Here.turns)} : Reply([Here EXCEPT !.turns = turns])
    /\ UNCHANGED <<undo, inputs>>

ProcessClear ==
    /\ Handling("clear")
    /\ Reply([Here EXCEPT !.turns = <<>>, !.state = "Idle"])
    /\ undo' = [undo EXCEPT ![loop.t] = NewUndo]
    /\ UNCHANGED inputs

\* /thread <uuid>, in whatever session the user has now.
ProcessSwitchThread ==
    /\ Handling("switch")
    /\ LET cleared == [SessionsWithLive EXCEPT ![loop.s].threads[loop.t] = Here]
       IN  \/ sess' = cleared /\ UNCHANGED moved
           \/ \E t \in DOMAIN cleared[LiveSession].threads :
                /\ sess' = [cleared EXCEPT ![LiveSession].active = t]
                /\ moved' = moved \cup {loop.key}
    /\ live' = LiveSession
    /\ Done
    /\ UNCHANGED <<undo, inputs>>

ProcessNewThread ==
    /\ Handling("new")
    /\ LET cleared == [SessionsWithLive EXCEPT ![loop.s].threads[loop.t] = Here]
       IN  sess' = [cleared EXCEPT ![LiveSession] = WithThread(@, FreshId, NewThread)]
    /\ live' = LiveSession
    /\ moved' = moved \cup {loop.key}
    /\ AddId
    /\ Done
    /\ UNCHANGED inputs

\* Status, summary, suggestion, heartbeat: nothing of a thread changes.
ProcessOther ==
    /\ Handling("other")
    /\ Reply(Here)
    /\ UNCHANGED <<undo, inputs>>

-----------------------------------------------------------------------------
(* Approvals and auth tokens.                                              *)

\* Mutant: the state of the thread is not looked at.
ApprovalRefusedByRequest(th, arg) == th.req = NoRequest \/ arg \notin {0, th.req.id}

\* arg is the request the answer names; a plain "yes" or "no" names none (0).
ApprovalRefused(th, arg) ==
    th.state # "AwaitingApproval" \/ th.req = NoRequest \/ arg \notin {0, th.req.id}

RefuseApproval ==
    /\ Handling("approval")
    /\ \E arg \in {0} \cup Requests : ApprovalRefused(Here, arg)
    /\ Reply(Here)
    /\ UNCHANGED ran

\* Destructive shell commands are the tool "shell".
ToolName(tool) == IF tool = "rm" THEN "shell" ELSE tool

Approve ==
    /\ Handling("approval")
    /\ \E arg \in {0} \cup Requests, always \in BOOLEAN :
        /\ ~ApprovalRefused(Here, arg)
        /\ sess' = [sess EXCEPT
                ![loop.s].auto = IF always THEN @ \cup {ToolName(Here.req.tool)} ELSE @,
                ![loop.s].threads[loop.t] = [Here EXCEPT !.req = NoRequest, !.state = "Processing"]]
        /\ loop' = [Turning(Here.req.input, "approval") EXCEPT !.at = "run", !.batch = <<Here.req.tool>>]
    /\ ran' = [ran EXCEPT ![Here.req.id] = @ + 1]

Deny ==
    /\ Handling("approval")
    /\ \E arg \in {0} \cup Requests : ~ApprovalRefused(Here, arg)
    /\ Reply([Here EXCEPT !.req = NoRequest, !.state = "Idle"])
    /\ UNCHANGED ran

\* User input in auth mode is the token; auth mode ends before it is tried.
ReadToken ==
    /\ Handling("input") /\ Thread(loop.s, loop.t).auth
    /\ PutHere(Here)
    /\ loop' = [loop EXCEPT !.at = "token"]

\* A token the extension does not take puts the thread back into auth mode.
TryToken ==
    /\ loop.at = "token"
    /\ \E again \in BOOLEAN : Reply([Thread(loop.s, loop.t) EXCEPT !.auth = @ \/ again])

-----------------------------------------------------------------------------
(* run_agentic_loop and what its callers do with the result.               *)

End(result) == loop' = [loop EXCEPT !.at = "end", !.batch = <<>>, !.result = result]

\* Mutant: the iterations are not counted.
CallLlmUncounted ==
    /\ loop.at = "llm"
    /\ IF loop.iteration >= MaxIterations \/ Thread(loop.s, loop.t).state = "Interrupted"
       THEN End("error")
       ELSE \/ \E result \in {"error", "response"} : End(result)
            \/ \E batch \in Batches : loop' = [loop EXCEPT !.at = "tools", !.batch = batch]

CallLlm ==
    /\ loop.at = "llm"
    /\ IF loop.iteration >= MaxIterations \/ Thread(loop.s, loop.t).state = "Interrupted"
       THEN End("error")
       ELSE \/ \E result \in {"error", "response"} : End(result)
            \/ \E batch \in Batches :
                 loop' = [loop EXCEPT !.at = "tools", !.batch = batch, !.iteration = @ + 1]

NeedsApproval(tool) ==
    tool = "rm" \/ (tool \in {"auth", "shell"} /\ tool \notin sess[loop.s].auto)

\* The calls after one that needs approval are given up.
RequestApproval ==
    /\ loop.at = "tools" /\ NeedsApproval(Head(loop.batch))
    /\ ran' = Append(ran, 0)
    /\ loop' = [loop EXCEPT !.at = "end", !.result = "approval"]
    /\ UNCHANGED sess

AdmitTool ==
    /\ loop.at = "tools" /\ ~NeedsApproval(Head(loop.batch))
    /\ loop' = [loop EXCEPT !.at = "run"]
    /\ UNCHANGED <<sess, ran>>

\* A tool that awaits a token ends the turn with its instructions.
RunTool ==
    /\ loop.at = "run"
    /\ \/ /\ loop' = IF Tail(loop.batch) = <<>>
                     THEN [loop EXCEPT !.at = "llm", !.batch = <<>>]
                     ELSE [loop EXCEPT !.at = "tools", !.batch = Tail(@)]
          /\ UNCHANGED sess
       \/ /\ Head(loop.batch) \in {"auth", "activate"}
          /\ Put(loop.s, loop.t, [Thread(loop.s, loop.t) EXCEPT !.auth = TRUE])
          /\ End("response")
    /\ UNCHANGED ran

\* persist_turn is called for turns that ended in process_user_input only.
Finish ==
    /\ loop.at = "end"
    /\ LET th == Thread(loop.s, loop.t)
           interrupted == loop.via = "input" /\ th.state = "Interrupted"
           Persist(resp) ==
               writes' = IF loop.via = "input"
                         THEN writes \cup {[t |-> loop.t, input |-> loop.i, resp |-> resp, user |-> FALSE]}
                         ELSE writes
       IN  \/ interrupted /\ Reply(th) /\ UNCHANGED writes
           \/ ~interrupted /\ loop.result = "response"
                /\ Reply(CompleteTurn(th, loop.i)) /\ Persist(TRUE)
           \/ ~interrupted /\ loop.result = "error"
                /\ Reply(FailTurn(th)) /\ Persist(FALSE)
           \/ ~interrupted /\ loop.result = "approval" /\ UNCHANGED writes
                /\ Reply(AwaitApproval(th,
                       [id |-> Len(ran), tool |-> Head(loop.batch), input |-> loop.i]))

-----------------------------------------------------------------------------
(* Spawned writes, pruning, restarts.                                      *)

\* Mutant: the task goes on when the user message was not written.
PersistTurnCarriesOn(w) ==
    /\ \/ /\ ~w.user
          /\ \E msgs \in {db[w.t], Append(db[w.t], User(w.input))} : db' = [db EXCEPT ![w.t] = msgs]
          /\ writes' = (writes \ {w}) \cup (IF w.resp THEN {[w EXCEPT !.user = TRUE]} ELSE {})
       \/ /\ w.user
          /\ db' = [db EXCEPT ![w.t] = Append(@, Assistant(w.input))]
          /\ writes' = writes \ {w}
    /\ Spare
    /\ UNCHANGED <<sess, live, map, undo, loop, prune, inputs, ran, moved>>

\* The user message, then the assistant message; a failure ends the task.
PersistTurn(w) ==
    /\ \/ /\ ~w.user
          /\ db' = [db EXCEPT ![w.t] = Append(@, User(w.input))]
          /\ writes' = (writes \ {w}) \cup (IF w.resp THEN {[w EXCEPT !.user = TRUE]} ELSE {})
       \/ /\ w.user
          /\ db' = [db EXCEPT ![w.t] = Append(@, Assistant(w.input))]
          /\ writes' = writes \ {w}
       \/ writes' = writes \ {w} /\ UNCHANGED db
    /\ Spare
    /\ UNCHANGED <<sess, live, map, undo, loop, prune, inputs, ran, moved>>

\* The user was found stale at some earlier moment, any time may have passed,
\* and a turn does not set last_active_at: whatever session the user has by now
\* is removed, without another look, and freed unless the loop still holds it.
\* The ids were collected a moment before, and not at all from a locked session.
PruneRemove ==
    /\ prune.at = "idle" /\ live # 0
    /\ Spend("events")
    /\ \E ids \in {{}, DOMAIN sess[live].threads} : prune' = [at |-> "clean", ids |-> ids]
    /\ live' = 0
    /\ sess' = IF "s" \in DOMAIN loop /\ loop.s = live THEN sess
               ELSE [sess EXCEPT ![live] = NewSession]
    /\ UNCHANGED <<map, undo, db, writes, loop, inputs, ran, moved>>

PruneClean ==
    /\ prune.at = "clean"
    /\ map' = <<>> /\ moved' = {}
    /\ undo' = [t \in DOMAIN undo |-> IF t \in prune.ids THEN NewUndo ELSE undo[t]]
    /\ prune' = Idle
    /\ Spare
    /\ UNCHANGED <<sess, live, db, writes, loop, inputs, ran>>

Restart ==
    /\ Spend("events")
    /\ sess' = <<>> /\ live' = 0 /\ map' = <<>> /\ moved' = {}
    /\ undo' = [t \in DOMAIN undo |-> NewUndo]
    /\ writes' = {}
    /\ loop' = Idle /\ prune' = Idle
    /\ UNCHANGED <<db, inputs, ran>>

-----------------------------------------------------------------------------
Init ==
    /\ sess = <<>> /\ live = 0 /\ map = <<>>
    /\ undo = <<>> /\ db = <<>> /\ writes = {}
    /\ loop = Idle /\ prune = Idle
    /\ inputs = 0 /\ ran = <<>> /\ void = {} /\ restored = {} /\ moved = {}
    /\ budget = [messages |-> MaxMessages, events |-> MaxEvents]

Handlers ==
    \/ /\ \/ RefuseInput \/ ProcessUserInput \/ ProcessUndo \/ ProcessRedo \/ ProcessResume
          \/ ProcessInterrupt \/ ProcessCompact \/ ProcessClear \/ ProcessOther
       /\ UNCHANGED <<live, db, ran, writes, moved>>
    \/ ProcessSwitchThread /\ UNCHANGED <<db, ran, writes>>
    \/ ProcessNewThread /\ UNCHANGED <<ran, writes>>
    \/ /\ RefuseApproval \/ Approve \/ Deny
       /\ UNCHANGED <<live, undo, db, inputs, writes, moved>>
    \/ /\ ReadToken \/ TryToken
       /\ UNCHANGED <<live, undo, db, inputs, ran, writes, moved>>

AgenticLoop ==
    /\ \/ CallLlm /\ UNCHANGED <<sess, ran, writes>>
       \/ (RequestApproval \/ AdmitTool \/ RunTool) /\ UNCHANGED writes
       \/ Finish /\ UNCHANGED ran
    /\ UNCHANGED <<live, undo, db, inputs, moved>>

MessageLoop ==
    \/ Receive \/ Hydrate \/ Resolve \/ Mint
    \/ (Handlers \/ AgenticLoop) /\ Spare /\ UNCHANGED <<map, prune>>

\* The requests that wait in some thread; one that stops waiting and was not
\* run is void.  Every step observes this, and which threads are hydrated.
WaitingIn(sessions) ==
    {r \in Requests :
        \E s \in DOMAIN sessions : \E t \in DOMAIN sessions[s].threads :
            LET th == sessions[s].threads[t]
            IN  th.state = "AwaitingApproval" /\ th.req.id = r}

Observe ==
    /\ void' = void \cup {r \in WaitingIn(sess) \ WaitingIn(sess') : ran'[r] = ran[r]}
    /\ restored' = IF loop.at = "hydrate" /\ loop'.at = "resolve" THEN restored \cup {loop.key}
                   ELSE restored

Next ==
    /\ \/ WebNewThread \/ WebClearAuth
       \/ MessageLoop
       \/ \E w \in writes : PersistTurn(w)
       \/ PruneRemove \/ PruneClean \/ Restart
    /\ Observe

\* The loop runs on: tools, connections and the database answer or time out.
\* Nothing limits the time of an LLM call, neither in the agentic loop nor in a
\* handler that has turns summarised, so nothing is assumed of those.
AwaitsLlm == loop.at \in {"llm", "dispatch"}

Spec == Init /\ [][Next]_vars /\ WF_vars(~AwaitsLlm /\ MessageLoop /\ Observe)

-----------------------------------------------------------------------------
(* Properties.                                                             *)

\* Sessions hold threads with dealt ids, the loop works in sessions and
\* threads that were made, and the bounds are kept.
TypeOK ==
    /\ live \in 0 .. Len(sess) /\ Len(undo) = Len(db)
    /\ DOMAIN map \subseteq {NoId} \cup ThreadIds
    /\ \A k \in DOMAIN map : map[k] \in ThreadIds
    /\ \A s \in DOMAIN sess :
        /\ DOMAIN sess[s].threads \subseteq ThreadIds
        /\ sess[s].active \in {NoId} \cup DOMAIN sess[s].threads
        /\ sess[s].auto \subseteq {"auth", "shell"}
    /\ \A st \in Threads :
        Thread(st[1], st[2]).state \in {"Idle", "Processing", "AwaitingApproval", "Interrupted"}
    /\ \A t \in ThreadIds : Len(undo[t].undo) <= MaxCheckpoints
    /\ inputs <= MaxMessages /\ void \subseteq Requests

\* A tool call that needs approval is executed at most once, and not at all
\* once its request was denied, interrupted, undone, cleared or lost with its
\* process: thread.pending_approval outlives most of these, so only the state
\* check of process_approval stands between a late "yes" and the tool.
ApprovedOnce ==
    \A r \in Requests : ran[r] <= 1 /\ (r \in void => ran[r] = 0)

\* Between two messages no thread is left Processing, and every thread that
\* awaits approval has the request to answer: a thread in any other state of
\* the two would refuse input until it is interrupted by hand.
NoThreadLeftBusy ==
    loop.at = "idle" =>
        \A st \in Threads :
            LET th == Thread(st[1], st[2])
            IN  /\ th.state # "Processing"
                /\ th.state = "AwaitingApproval" => th.req # NoRequest

\* The thread a message was resolved to is in the session it was resolved to,
\* also when the session is pruned while the message is handled: an entry of
\* thread_map may name a thread of a session that is gone.
ResolvedThreadExists ==
    "t" \in DOMAIN loop => loop.t \in DOMAIN sess[loop.s].threads

\* A conversation keeps its thread: once messages without an id, or with the id
\* of a thread, reach a thread of the live session (their own, for an id), only
\* pruning and a restart take it away from them: not another conversation of
\* the session, nor a thread made by the web, nor hydration.  Conversations that
\* asked for another thread themselves are left out: see MovesWhenAsked.
ConversationSticks ==
    [][\A k \in {k \in DOMAIN map : k = NoId \/ map[k] = k} :
        /\ live # 0 /\ map[k] \in DOMAIN sess[live].threads
        /\ prune.at = "idle" /\ sess' # <<>> /\ k \notin moved'
        => k \in DOMAIN map' /\ map'[k] = map[k]]_vars

\* /redo never revives a branch of the conversation that a newer turn has
\* replaced, and never takes the thread back: what it brings back ends no
\* earlier than the thread does, after any mix of inputs, undo, redo, resume,
\* compaction, interrupts, approvals and prunings.  Threads that were hydrated
\* from their rows are left out: their undo manager may be one that a pruning
\* did not clean, and rows are lost and reordered.
RedoKeepsTheBranch ==
    \A st \in Threads :
        LET turns == Thread(st[1], st[2]).turns
            redo == undo[st[2]].redo
        IN  st[2] \notin restored =>
                \A n \in DOMAIN redo : \A k \in DOMAIN turns :
                    redo[n] # <<>> /\ Last(redo[n]).of >= turns[k].input

\* In the database an answer comes after the question it belongs to, whatever
\* order the spawned writes of several turns run in and whichever of them fail.
AnswersFollowQuestions ==
    \A t \in ThreadIds : \A n \in DOMAIN db[t] :
        db[t][n].role = "assistant" =>
            \E q \in 1 .. n - 1 : db[t][q] = User(db[t][n].of)

\* The loop comes back for the next message unless one call of the LLM never
\* returns: no sequence of answers, tool calls, approvals and failures keeps it
\* in a turn, and while it is in one nobody is served, on any channel.
LoopReturns == []<>(loop.at = "idle") \/ <>[]AwaitsLlm

\* "Use `/new` to start a fresh context, or `/thread <uuid>` to switch between
\* existing threads": the messages that follow reach the thread asked for.  TLC
\* refutes this: resolve_thread looks into thread_map, and the two commands only
\* set the active thread of the session.
MovesWhenAsked ==
    [][ProcessNewThread => map'[loop.key] = FreshId]_vars

\* A message that carries the id of a thread is handled in that thread.
MessageReachesItsThread ==
    loop.at = "dispatch" /\ loop.key # NoId => loop.t = loop.key

=============================================================================
