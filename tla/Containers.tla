----------------------------- MODULE Containers -----------------------------
(***************************************************************************)
(* Sandboxed jobs: the ContainerJobManager and its TokenStore, the tool    *)
(* and web handlers that create, wait for, cancel and restart jobs, the    *)
(* worker process in each container, the completion handler it calls, the  *)
(* sandbox rows of the database, and crashes of the orchestrating process. *)
(*                                                                         *)
(* Every action is a stretch of one task between two awaits.  The task     *)
(* text, the mounts, the limits, the messages and the times are left out;  *)
(* so are requests that are refused before they change anything (unknown   *)
(* id, another user's job, a job that is not in a state to be restarted).  *)
(* Jobs share no state, only the process they live in.                     *)
(***************************************************************************)
EXTENDS Naturals

CONSTANTS
    Jobs,         \* ids Uuid::new_v4 may draw
    Earlier,      \* jobs of earlier processes, whose rows say "interrupted"
    MaxCrashes,   \* bound: crashes of the process
    Reliable      \* Docker and the database never fail, no caller goes away

ASSUME ContainersAssumption ==
    Earlier \subseteq Jobs /\ MaxCrashes \in Nat /\ Reliable \in BOOLEAN

VARIABLES
    handle,      \* ContainerJobManager.containers
    tokens,      \* jobs with an entry in the TokenStore
    kind,        \* who creates the job: the tool, waiting or not, or a web restart
    creator,     \* where that caller is
    told,        \* what the tool call has answered
    docker,      \* the container, as the Docker daemon sees it
    reported,    \* the completion report the worker has sent
    complete,    \* where the handler of that report is
    stopAt,      \* where each of the two callers of stop_job is
    cancelled,   \* history: jobs a web cancel has been asked for
    db,          \* agent_jobs.status, source = 'sandbox'
    writes,      \* spawned database writes that have not run yet
    proc,        \* the process: up or down
    crashes,     \* crashes so far
    old,         \* history: jobs created before the last crash
    swept        \* the sweep of stale rows at the last start succeeded

memVars == <<handle, tokens, kind, creator, told, complete, stopAt>>
histVars == <<cancelled, old>>
procVars == <<proc, crashes, swept>>
vars == <<memVars, docker, reported, db, writes, histVars, procVars>>

Absent == "Absent"
NoHandle == [cid |-> FALSE, state |-> "None", result |-> "none"]   \* no entry in the map
Stoppers == {"web", "waiter"}
Results == {"ok", "fail"}

\* A container is running once its id is known.
Handle ==
    {h \in [cid : BOOLEAN, state : {"Creating", "Running", "Stopped"}, result : Results \cup {"none"}] :
        /\ h.state = "Creating" => ~h.cid
        /\ h.state = "Running" => h.cid}
Statuses == {"creating", "running", "completed", "failed", "interrupted"}
Write == [job : Jobs, op : {"save", "update"}, status : Statuses]

Up == proc = "up"

-----------------------------------------------------------------------------
(* The database. *)

\* persist_job and update_status of the tool: spawned and forgotten.
Persist(j, op, s) == writes' = writes \cup {[job |-> j, op |-> op, status |-> s]}

\* update_sandbox_job_status changes the row if there is one.
Updated(j, s) == IF db[j] = Absent THEN db ELSE [db EXCEPT ![j] = s]

\* save_sandbox_job upserts.
ApplyWrite(w) ==
    /\ Up
    /\ w \in writes
    /\ writes' = writes \ {w}
    /\ db' = IF w.op = "save" THEN [db EXCEPT ![w.job] = w.status] ELSE Updated(w.job, w.status)
    /\ UNCHANGED <<memVars, docker, reported, histVars, procVars>>

FailWrite(w) ==
    /\ Up /\ ~Reliable
    /\ w \in writes
    /\ writes' = writes \ {w}
    /\ UNCHANGED <<memVars, docker, reported, db, histVars, procVars>>

\* A write a web handler waits for: it may fail, and the handler then answers 500.
SyncUpdate(j, s) == db' \in {Updated(j, s)} \cup (IF Reliable THEN {} ELSE {db})

-----------------------------------------------------------------------------
(* Creation. *)

\* create_job up to the Docker calls: the token, then the handle.
CreateJob(j, k) ==
    /\ Up
    /\ creator[j] = "none"
    /\ creator' = [creator EXCEPT ![j] = "create"]
    /\ kind' = [kind EXCEPT ![j] = k]
    /\ tokens' = tokens \cup {j}
    /\ handle' = [handle EXCEPT ![j] = [cid |-> FALSE, state |-> "Creating", result |-> "none"]]
    /\ UNCHANGED <<told, complete, stopAt, docker, reported, histVars, procVars>>

\* CreateJobTool::execute_sandbox: the row is written behind the caller's back.
ToolCreate(j) ==
    /\ \E k \in {"wait", "nowait"} : CreateJob(j, k)
    /\ Persist(j, "save", "creating")
    /\ UNCHANGED db

\* jobs_restart_handler: a new job for a failed or interrupted one, row first.
WebRestart(j) ==
    /\ \E o \in Jobs : db[o] \in {"interrupted", "failed"}
    /\ CreateJob(j, "restart")
    /\ db' = [db EXCEPT ![j] = "creating"]
    /\ UNCHANGED writes

CreatorGoto(j, at) == creator' = [creator EXCEPT ![j] = at]

\* create_container, after everything that can fail before it.
DockerCreate(j) ==
    /\ Up
    /\ creator[j] = "create"
    /\ \/ docker' = [docker EXCEPT ![j] = "created"] /\ CreatorGoto(j, "start")
       \/ ~Reliable /\ CreatorGoto(j, "undo") /\ UNCHANGED docker
    /\ UNCHANGED <<handle, tokens, kind, told, complete, stopAt, reported, db, writes, histVars, procVars>>

\* start_container: the worker process runs from here on.
DockerStart(j) ==
    /\ Up
    /\ creator[j] = "start"
    /\ \/ docker' = [docker EXCEPT ![j] = "up"] /\ CreatorGoto(j, "record")
       \/ ~Reliable /\ CreatorGoto(j, "undo") /\ UNCHANGED docker
    /\ UNCHANGED <<handle, tokens, kind, told, complete, stopAt, reported, db, writes, histVars, procVars>>

\* The handle gets the container id and the state Running, whatever it says
\* by now.  The tool spawns the write of "running"; a web restart waits for it.
Record(j) ==
    /\ Up
    /\ creator[j] = "record"
    /\ handle' = IF handle[j] = NoHandle THEN handle
                 ELSE [handle EXCEPT ![j].cid = TRUE, ![j].state = "Running"]
    /\ CASE kind[j] = "restart" -> CreatorGoto(j, "mark") /\ UNCHANGED <<told, writes>>
         [] kind[j] = "nowait"  -> /\ CreatorGoto(j, "done")
                                   /\ told' = [told EXCEPT ![j] = "started"]
                                   /\ Persist(j, "update", "running")
         [] kind[j] = "wait"    -> /\ CreatorGoto(j, "wait")
                                   /\ Persist(j, "update", "running")
                                   /\ UNCHANGED told
    /\ UNCHANGED <<tokens, kind, complete, stopAt, docker, reported, db, histVars, procVars>>

WebMarkRunning(j) ==
    /\ Up
    /\ creator[j] = "mark"
    /\ SyncUpdate(j, "running")
    /\ CreatorGoto(j, "done")
    /\ UNCHANGED <<handle, tokens, kind, told, complete, stopAt, docker, reported, writes, histVars, procVars>>

\* create_job's error path.  The tool persists the failure; the restart
\* handler only answers 500.
Undo(j) ==
    /\ Up
    /\ creator[j] = "undo"
    /\ tokens' = tokens \ {j}
    /\ handle' = [handle EXCEPT ![j] = NoHandle]
    /\ IF kind[j] = "restart" THEN UNCHANGED <<told, writes>>
       ELSE Persist(j, "update", "failed") /\ told' = [told EXCEPT ![j] = "failed"]
    /\ CreatorGoto(j, "done")
    /\ UNCHANGED <<kind, complete, stopAt, docker, reported, db, histVars, procVars>>

-----------------------------------------------------------------------------
(* The worker process and complete_job. *)

\* The worker ends without an accepted report: it failed before its loop, was
\* killed, or its token was refused or the orchestrator did not answer.
WorkerExits(j) ==
    /\ docker[j] = "up"
    /\ reported[j] = "none" \/ complete[j] \in {"none", "done"}
    /\ docker' = [docker EXCEPT ![j] = "exited"]
    /\ UNCHANGED <<memVars, reported, db, writes, histVars, procVars>>

\* Mutant: the bearer token is not looked at.
TokenValidAlways(j) == TRUE

\* worker_auth_middleware for the path and the token of job j.
TokenValid(j) == j \in tokens

\* report_complete, once, with a token the TokenStore knows.
WorkerReports(j) ==
    /\ Up
    /\ docker[j] = "up"
    /\ reported[j] = "none"
    /\ TokenValid(j)
    /\ \E r \in Results : reported' = [reported EXCEPT ![j] = r]
    /\ complete' = [complete EXCEPT ![j] = "store"]
    /\ UNCHANGED <<handle, tokens, kind, creator, told, stopAt, docker, db, writes, histVars, procVars>>

CompleteGoto(j, at) == complete' = [complete EXCEPT ![j] = at]

\* complete_job: the result is stored in the handle, if it is still there ...
CompleteStore(j) ==
    /\ Up
    /\ complete[j] = "store"
    /\ handle' = IF handle[j] = NoHandle THEN handle
                 ELSE [handle EXCEPT ![j].result = reported[j], ![j].state = "Stopped"]
    /\ CompleteGoto(j, "stop")
    /\ UNCHANGED <<tokens, kind, creator, told, stopAt, docker, reported, db, writes, histVars, procVars>>

\* The outcomes of stop_container and remove_container, which only log errors.
AfterStop(j) ==
    {"removed"} \cup
    IF Reliable THEN {} ELSE {docker[j], IF docker[j] = "up" THEN "exited" ELSE docker[j]}

\* ... the container is stopped if the handle has its id ...
CompleteStop(j) ==
    /\ Up
    /\ complete[j] = "stop"
    /\ IF handle[j] # NoHandle /\ handle[j].cid
       THEN \E d \in AfterStop(j) : docker' = [docker EXCEPT ![j] = d]
       ELSE UNCHANGED docker
    /\ CompleteGoto(j, "revoke")
    /\ UNCHANGED <<handle, tokens, kind, creator, told, stopAt, reported, db, writes, histVars, procVars>>

\* ... and the token is revoked.
CompleteRevoke(j) ==
    /\ Up
    /\ complete[j] = "revoke"
    /\ tokens' = tokens \ {j}
    /\ CompleteGoto(j, "done")
    /\ UNCHANGED <<handle, kind, creator, told, stopAt, docker, reported, db, writes, histVars, procVars>>

-----------------------------------------------------------------------------
(* stop_job, called by the web cancel handler and by a waiter that gives up. *)

StopGoto(j, s, at) == stopAt' = [stopAt EXCEPT ![j][s] = at]

\* An unknown job, or one whose container has no id yet, is refused.
StopFirst(j) == IF handle[j] # NoHandle /\ handle[j].cid THEN "docker" ELSE "over"

\* stop_container and remove_container; no connection to Docker is an error.
StopDocker(j, s) ==
    /\ Up
    /\ stopAt[j][s] = "docker"
    /\ \/ \E d \in AfterStop(j) : docker' = [docker EXCEPT ![j] = d] /\ StopGoto(j, s, "mark")
       \/ ~Reliable /\ StopGoto(j, s, "over") /\ UNCHANGED docker
    /\ UNCHANGED <<handle, tokens, kind, creator, told, complete, reported, db, writes, histVars, procVars>>

\* Mutant: the handle is put back if it has been cleaned up.
StopMarkInserts(j, s) ==
    /\ Up
    /\ stopAt[j][s] = "mark"
    /\ handle' = [handle EXCEPT ![j] = [cid |-> TRUE, state |-> "Stopped", result |-> "none"]]
    /\ StopGoto(j, s, "revoke")
    /\ UNCHANGED <<tokens, kind, creator, told, complete, docker, reported, db, writes, histVars, procVars>>

StopMark(j, s) ==
    /\ Up
    /\ stopAt[j][s] = "mark"
    /\ handle' = IF handle[j] = NoHandle THEN handle ELSE [handle EXCEPT ![j].state = "Stopped"]
    /\ StopGoto(j, s, "revoke")
    /\ UNCHANGED <<tokens, kind, creator, told, complete, docker, reported, db, writes, histVars, procVars>>

StopRevoke(j, s) ==
    /\ Up
    /\ stopAt[j][s] = "revoke"
    /\ tokens' = tokens \ {j}
    /\ StopGoto(j, s, "over")
    /\ UNCHANGED <<handle, kind, creator, told, complete, docker, reported, db, writes, histVars, procVars>>

StopJob(j, s) == StopDocker(j, s) \/ StopMark(j, s) \/ StopRevoke(j, s)

\* jobs_cancel_handler: the row says the job runs, stop_job is called ...
WebCancel(j) ==
    /\ Up
    /\ db[j] \in {"running", "creating"}
    /\ stopAt[j]["web"] = "idle"
    /\ StopGoto(j, "web", StopFirst(j))
    /\ cancelled' = cancelled \cup {j}
    /\ UNCHANGED <<handle, tokens, kind, creator, told, complete, docker, reported, db, writes, old, procVars>>

\* ... and, whatever it returned, the row becomes "failed".
WebCancelEnd(j) ==
    /\ Up
    /\ stopAt[j]["web"] = "over"
    /\ SyncUpdate(j, "failed")
    /\ StopGoto(j, "web", "idle")
    /\ UNCHANGED <<handle, tokens, kind, creator, told, complete, docker, reported, writes, histVars, procVars>>

-----------------------------------------------------------------------------
(* The waiting tool call. *)

\* The tool answers s, persists it and forgets the handle.
Answer(j, s) ==
    /\ handle' = [handle EXCEPT ![j] = NoHandle]
    /\ told' = [told EXCEPT ![j] = s]
    /\ Persist(j, "update", s)
    /\ CreatorGoto(j, "done")

\* Mutant: a handle that is not running any more means success.
WaiterPollOptimist(j) ==
    /\ Up
    /\ creator[j] = "wait"
    /\ handle[j] = NoHandle \/ handle[j].state = "Stopped"
    /\ Answer(j, "completed")
    /\ UNCHANGED <<tokens, kind, complete, stopAt, docker, reported, db, histVars, procVars>>

\* A poll that finds the job stopped, or its handle gone.  Without a stored
\* result the job counts as completed.
WaiterPoll(j) ==
    /\ Up
    /\ creator[j] = "wait"
    /\ handle[j] = NoHandle \/ handle[j].state = "Stopped"
    /\ Answer(j, IF handle[j] # NoHandle /\ handle[j].result = "fail" THEN "failed" ELSE "completed")
    /\ UNCHANGED <<tokens, kind, complete, stopAt, docker, reported, db, histVars, procVars>>

\* Mutant: the deadline is not looked at.
WaiterExpireNever(j) == FALSE

\* The deadline of ten minutes: stop_job ...
WaiterExpire(j) ==
    /\ Up
    /\ creator[j] = "wait"
    /\ CreatorGoto(j, "expired")
    /\ StopGoto(j, "waiter", StopFirst(j))
    /\ UNCHANGED <<handle, tokens, kind, told, complete, docker, reported, db, writes, histVars, procVars>>

\* ... and then, whatever it returned, the job has failed.
WaiterExpired(j) ==
    /\ Up
    /\ creator[j] = "expired"
    /\ stopAt[j]["waiter"] = "over"
    /\ StopGoto(j, "waiter", "idle")
    /\ Answer(j, "failed")
    /\ UNCHANGED <<tokens, kind, complete, docker, reported, db, histVars, procVars>>

\* A future is dropped: that of the tool call when the agent job that made it
\* is aborted or times out, that of a web handler when its client disconnects,
\* that of the completion handler when the worker it would answer is gone.
Dropped(j) ==
    /\ Up /\ ~Reliable
    /\ creator[j] \in {"create", "start", "record", "mark", "wait", "expired"}
    /\ CreatorGoto(j, "done")
    /\ StopGoto(j, "waiter", "idle")
    /\ UNCHANGED <<handle, tokens, kind, told, complete, docker, reported, db, writes, histVars, procVars>>

CancelDropped(j) ==
    /\ Up /\ ~Reliable
    /\ stopAt[j]["web"] # "idle"
    /\ StopGoto(j, "web", "idle")
    /\ UNCHANGED <<handle, tokens, kind, creator, told, complete, docker, reported, db, writes, histVars, procVars>>

CompleteDropped(j) ==
    /\ Up /\ ~Reliable
    /\ complete[j] \in {"store", "stop", "revoke"}
    /\ docker[j] # "up"
    /\ CompleteGoto(j, "done")
    /\ UNCHANGED <<handle, tokens, kind, creator, told, stopAt, docker, reported, db, writes, histVars, procVars>>

-----------------------------------------------------------------------------
(* The process. *)

Created == {j \in Jobs : creator[j] # "none"}

\* Everything in memory is lost, spawned writes included; containers stay.
Crash ==
    /\ Up
    /\ crashes < MaxCrashes
    /\ crashes' = crashes + 1
    /\ proc' = "down"
    /\ handle' = [j \in Jobs |-> NoHandle]
    /\ tokens' = {}
    /\ creator' = [j \in Jobs |-> IF j \in Created THEN "done" ELSE "none"]
    /\ complete' = [j \in Jobs |-> "none"]
    /\ stopAt' = [j \in Jobs |-> [s \in Stoppers |-> "idle"]]
    /\ writes' = {}
    /\ old' = Created
    /\ UNCHANGED <<kind, told, docker, reported, cancelled, db, swept>>

\* Mutant: only the running rows are swept.
StaleStatusesRunning == {"running"}

StaleStatuses == {"running", "creating"}

\* main() runs cleanup_stale_sandbox_jobs before anything else; its failure is logged.
Boot ==
    /\ ~Up
    /\ proc' = "up"
    /\ \/ /\ db' = [j \in Jobs |-> IF db[j] \in StaleStatuses THEN "interrupted" ELSE db[j]]
          /\ swept' = TRUE
       \/ ~Reliable /\ swept' = FALSE /\ UNCHANGED db
    /\ UNCHANGED <<memVars, docker, reported, writes, histVars, crashes>>

-----------------------------------------------------------------------------

Init ==
    /\ handle = [j \in Jobs |-> NoHandle]
    /\ tokens = {}
    /\ kind = [j \in Jobs |-> "none"]
    /\ creator = [j \in Jobs |-> IF j \in Earlier THEN "done" ELSE "none"]
    /\ told = [j \in Jobs |-> "none"]
    /\ docker = [j \in Jobs |-> "none"]
    /\ reported = [j \in Jobs |-> "none"]
    /\ complete = [j \in Jobs |-> "none"]
    /\ stopAt = [j \in Jobs |-> [s \in Stoppers |-> "idle"]]
    /\ cancelled = {} /\ old = Earlier
    /\ db = [j \in Jobs |-> IF j \in Earlier THEN "interrupted" ELSE Absent]
    /\ writes = {}
    /\ proc = "up" /\ crashes = 0 /\ swept = TRUE

Creating(j) == DockerCreate(j) \/ DockerStart(j) \/ Record(j) \/ WebMarkRunning(j) \/ Undo(j)
Completing(j) == CompleteStore(j) \/ CompleteStop(j) \/ CompleteRevoke(j)
Waiting(j) == WaiterPoll(j) \/ WaiterExpire(j) \/ WaiterExpired(j)

Next ==
    \/ \E j \in Jobs :
          \/ ToolCreate(j) \/ WebRestart(j) \/ Creating(j)
          \/ WorkerExits(j) \/ WorkerReports(j) \/ Completing(j)
          \/ WebCancel(j) \/ WebCancelEnd(j)
          \/ Waiting(j) \/ Dropped(j) \/ CancelDropped(j) \/ CompleteDropped(j)
          \/ \E s \in Stoppers : StopJob(j, s)
    \/ \E w \in writes : ApplyWrite(w) \/ FailWrite(w)
    \/ Crash \/ Boot

Spec == Init /\ [][Next]_vars

\* The tasks of the process are polled, Docker calls return, the process is
\* started again.  Nothing is assumed of users and workers.
Fairness ==
    /\ WF_vars(Boot)
    /\ \A j \in Jobs :
          /\ WF_vars(Creating(j))
          /\ WF_vars(Completing(j))
          /\ WF_vars(Waiting(j))
          /\ \A s \in Stoppers : WF_vars(StopJob(j, s))

FairSpec == Spec /\ Fairness

-----------------------------------------------------------------------------
(* Properties. *)

\* Every variable has its type.
TypeOK ==
    /\ handle \in [Jobs -> Handle \cup {NoHandle}]
    /\ tokens \subseteq Jobs
    /\ kind \in [Jobs -> {"none", "wait", "nowait", "restart"}]
    /\ creator \in [Jobs -> {"none", "create", "start", "record", "mark", "undo",
                             "wait", "expired", "done"}]
    /\ told \in [Jobs -> {"none", "started", "completed", "failed"}]
    /\ docker \in [Jobs -> {"none", "created", "up", "exited", "removed"}]
    /\ reported \in [Jobs -> Results \cup {"none"}]
    /\ complete \in [Jobs -> {"none", "store", "stop", "revoke", "done"}]
    /\ stopAt \in [Jobs -> [Stoppers -> {"idle", "docker", "mark", "revoke", "over"}]]
    /\ cancelled \subseteq Jobs /\ old \subseteq Jobs
    /\ db \in [Jobs -> Statuses \cup {Absent}]
    /\ writes \subseteq Write
    /\ proc \in {"up", "down"} /\ crashes \in Nat /\ swept \in BOOLEAN

\* Unless the user cancels it, a job that the tool call reports, or the
\* database holds or is about to hold, as completed is one whose worker
\* reported success, whatever handlers, timeouts, crashes and writes race.
CompletedIsReported ==
    \A j \in Jobs \ cancelled :
       \/ told[j] = "completed" \/ db[j] = "completed"
       \/ [job |-> j, op |-> "update", status |-> "completed"] \in writes
       => reported[j] = "ok"

\* Once the tool has answered for a job no handler that is still at work brings
\* its handle back.
AnsweredIsForgotten ==
    \A j \in Jobs : told[j] \in {"completed", "failed"} => handle[j] = NoHandle

\* No container of an earlier process reports to this one: its token is gone.
OldWorkersShutOut == \A j \in old : complete[j] = "none" /\ j \notin tokens

\* After a start whose sweep worked, no row claims that a job of an earlier
\* process is being created or running, wherever the crash happened.
StaleRowsSwept == Up /\ swept => \A j \in old : db[j] \notin {"running", "creating"}

\* The waiting tool call answers, or is dropped, whatever the worker does.
WaiterReturns == \A j \in Jobs : creator[j] = "wait" ~> creator[j] = "done"

\* jobs_cancel_handler answers "cancelled" and records "Cancelled by user": a
\* job that is cancelled before its worker has reported anything does not turn
\* out completed.
CancelledIsNotCompleted ==
    \A j \in cancelled :
       stopAt[j]["web"] = "idle" /\ reported[j] = "none" => db[j] # "completed"

=============================================================================
