-------------------------------- MODULE Jobs --------------------------------
(***************************************************************************)
(* Local (in-process) jobs of the agent: the ContextManager that holds the *)
(* job contexts, the Scheduler and its workers, the per-job reaper that    *)
(* frees scheduler slots, the self-repair task, the serial message loop    *)
(* that issues the commands, and the fire-and-forget status writes.        *)
(*                                                                         *)
(* Every action is a stretch of one task between two awaits at which       *)
(* another task may observe or change the shared state.  Scheduler.jobs is *)
(* behind a write lock that only Scheduler::stop keeps across an await     *)
(* (the 100 ms grace period), so the lock is held exactly while the        *)
(* message loop is at "stop".  Commands that only answer the user          *)
(* (status, list, help on a job that is not stuck, a command on another    *)
(* user's job) change nothing and are stuttering steps.                    *)
(***************************************************************************)
EXTENDS Naturals, FiniteSets, JobState

CONSTANTS
    Jobs,                \* ids Uuid::new_v4 may draw
    MaxParallelJobs,     \* AgentConfig.max_parallel_jobs, both caps
    MaxRepairAttempts,   \* AgentConfig.max_repair_attempts
    MaxIterations,       \* bound: max_iterations of execution_loop (50 in the code)
    MaxPlan,             \* bound: number of actions in a plan
    UsePlanning,         \* AgentConfig.use_planning
    HasStore             \* a database is configured (store is an Option)

ASSUME JobsAssumption ==
    /\ IsFiniteSet(Jobs)
    /\ MaxParallelJobs \in Nat
    /\ MaxRepairAttempts \in Nat
    /\ MaxIterations \in Nat
    /\ MaxPlan \in Nat
    /\ UsePlanning \in BOOLEAN
    /\ HasStore \in BOOLEAN

NoJob == "NoJob"

ASSUME NoJobAssumption == NoJob \notin Jobs

VARIABLES
    ctx,        \* ContextManager.contexts: state of each job
    attempts,   \* JobContext.repair_attempts
    running,    \* keys of Scheduler.jobs
    pc,         \* where the worker task of each job is
    left,       \* iterations (direct loop) or actions (plan) the worker has left
    stopq,      \* a WorkerMessage::Stop waits in the worker's channel
    reaper,     \* the cleanup task schedule() spawned for each job
    mainAt,     \* where the message loop is
    mainJob,    \* the job its current command is about
    todo,       \* jobs stop_all has still to stop
    repairQ,    \* the repair task's list of detected stuck jobs
    db,         \* agent_jobs.status of each job
    writes      \* spawned database writes that have not run yet

schedVars == <<running, pc, left, stopq, reaper>>
mainVars  == <<mainAt, mainJob, todo>>
dbVars    == <<db, writes>>
vars == <<ctx, attempts, schedVars, mainVars, repairQ, dbVars>>

-----------------------------------------------------------------------------
(* Helpers. *)

\* The worker task exists and its JoinHandle is not finished.
Live(j) == pc[j] \notin {"none", "done"}

ActiveJobs == {j \in Jobs : ctx[j] \in Active}

\* The process has not exited.
Up == mainAt # "exited"

\* The jobs write lock is free.
LockFree == mainAt # "stop"

\* save_job upserts the row; update_job_status changes it only if it exists.
SaveJob(j)        == [job |-> j, op |-> "save", status |-> "Pending"]
UpdateStatus(j, s) == [job |-> j, op |-> "update", status |-> s]
Write == [job : Jobs, op : {"save", "update"}, status : JobStates]

\* A write is spawned and forgotten.
Persist(w) == writes' = IF HasStore THEN writes \cup {w} ELSE writes

\* JobContext::transition_to for a transition the table allows.
TransitionTo(j, s) ==
    /\ CanTransition(ctx[j], s)
    /\ ctx' = [ctx EXCEPT ![j] = s]

\* Mutant: the attempt is counted and the job stays stuck.
AttemptRecoveryCountsOnly(j) ==
    /\ ctx[j] = "Stuck"
    /\ attempts' = [attempts EXCEPT ![j] = @ + 1]
    /\ UNCHANGED ctx

\* JobContext::attempt_recovery on a stuck job.
AttemptRecovery(j) ==
    /\ ctx[j] = "Stuck"
    /\ TransitionTo(j, "InProgress")
    /\ attempts' = [attempts EXCEPT ![j] = @ + 1]

\* Mutant: off by one.
HasSlotOffByOne == Cardinality(ActiveJobs) <= MaxParallelJobs

HasSlot == Cardinality(ActiveJobs) < MaxParallelJobs

\* ContextManager::create_job_for_user: check and insert under the write lock.
CreateContext(j) ==
    /\ HasSlot
    /\ ctx[j] = Absent
    /\ ctx' = [ctx EXCEPT ![j] = "Pending"]

-----------------------------------------------------------------------------
(* The message loop: one command at a time. *)

Goto(at, j) == mainAt' = at /\ mainJob' = j /\ UNCHANGED todo

\* handle_create_job up to schedule(): create the context, spawn save_job.
CreateJob(j) ==
    /\ mainAt = "idle"
    /\ CreateContext(j)
    /\ Persist(SaveJob(j))
    /\ Goto("schedule", j)
    /\ UNCHANGED <<attempts, schedVars, repairQ, db>>

\* CreateJobTool::execute_local, called by the message loop's chat turn or by
\* a worker: the context is created and nothing schedules it.
ToolCreateJob(j) ==
    /\ mainAt = "idle" \/ (Up /\ \E k \in Jobs : Live(k))
    /\ CreateContext(j)
    /\ UNCHANGED <<attempts, schedVars, mainVars, repairQ, dbVars>>

\* Scheduler::schedule past its early returns: the job becomes InProgress,
\* its worker and its reaper are spawned and Start is in the channel.
Spawn(j) ==
    /\ j \notin running
    /\ Cardinality(running) < MaxParallelJobs
    /\ TransitionTo(j, "InProgress")
    /\ running' = running \cup {j}
    /\ pc' = [pc EXCEPT ![j] = "wait_start"]
    /\ left' = [left EXCEPT ![j] = 0]
    /\ stopq' = [stopq EXCEPT ![j] = FALSE]
    /\ reaper' = [reaper EXCEPT ![j] = "poll"]

\* Scheduler::schedule, called at the end of handle_create_job and of
\* handle_help_job.  Every early return leaves the state alone: already in
\* the map (Ok), no slot (MaxJobsExceeded), transition refused (ContextError).
Schedule ==
    /\ mainAt = "schedule"
    /\ \/ Spawn(mainJob)
       \/ /\ \/ mainJob \in running
             \/ Cardinality(running) >= MaxParallelJobs
             \/ ~CanTransition(ctx[mainJob], "InProgress")
          /\ UNCHANGED <<ctx, schedVars>>
    /\ Goto("idle", NoJob)
    /\ UNCHANGED <<attempts, repairQ, dbVars>>

\* handle_help_job reads the context: only a stuck job is recovered.
HelpJob(j) ==
    /\ mainAt = "idle"
    /\ ctx[j] = "Stuck"
    /\ Goto("recover", j)
    /\ UNCHANGED <<ctx, attempts, schedVars, repairQ, dbVars>>

\* ... then calls attempt_recovery, which fails if the job is no longer stuck.
HelpRecover ==
    /\ mainAt = "recover"
    /\ \/ AttemptRecovery(mainJob) /\ Goto("schedule", mainJob)
       \/ /\ ctx[mainJob] # "Stuck"
          /\ Goto("idle", NoJob)
          /\ UNCHANGED <<ctx, attempts>>
    /\ UNCHANGED <<schedVars, repairQ, dbVars>>

\* CancelJobTool::execute: the context only, neither the worker nor the database.
ToolCancelJob(j) ==
    /\ mainAt = "idle"
    /\ TransitionTo(j, "Cancelled")
    /\ UNCHANGED <<attempts, schedVars, mainVars, repairQ, dbVars>>

\* Scheduler::stop on a scheduled job, up to the grace period: the entry is
\* removed and Stop is sent.  On any other job stop() does nothing.
StopBegin(j) ==
    /\ j \in running
    /\ running' = running \ {j}
    /\ stopq' = [stopq EXCEPT ![j] = Live(j)]
    /\ mainAt' = "stop" /\ mainJob' = j
    /\ UNCHANGED <<ctx, attempts, pc, left, reaper, repairQ, dbVars>>

\* Scheduler::stop after the grace period: abort, cancel if the table allows
\* it, and persist the cancellation in either case.
StopFinish ==
    /\ mainAt = "stop"
    /\ pc' = [pc EXCEPT ![mainJob] = "done"]
    /\ stopq' = [stopq EXCEPT ![mainJob] = FALSE]
    /\ \/ TransitionTo(mainJob, "Cancelled")
       \/ ~CanTransition(ctx[mainJob], "Cancelled") /\ UNCHANGED ctx
    /\ Persist(UpdateStatus(mainJob, "Cancelled"))
    /\ mainAt' = IF todo = {} THEN "idle" ELSE "quit"   \* stop_all goes on
    /\ mainJob' = NoJob
    /\ todo' = todo \ {mainJob}
    /\ UNCHANGED <<attempts, running, left, reaper, repairQ, db>>

\* handle_cancel_job.
CancelJob(j) == mainAt = "idle" /\ StopBegin(j) /\ UNCHANGED todo

\* Mutant: stop_all is left out of the shutdown.
QuitWithoutStopAll ==
    /\ mainAt = "idle"
    /\ mainAt' = "quit"
    /\ repairQ' = {}
    /\ UNCHANGED <<ctx, attempts, schedVars, mainJob, todo, dbVars>>

\* The loop ends (Ctrl+C, /quit, all channels closed): the repair task is
\* aborted and stop_all copies the keys of the map.
Quit ==
    /\ mainAt = "idle"
    /\ mainAt' = "quit"
    /\ todo' = running
    /\ repairQ' = {}
    /\ UNCHANGED <<ctx, attempts, schedVars, mainJob, dbVars>>

\* stop_all's loop: stop() finds the copied key in the map, or it was reaped.
QuitStop(j) ==
    /\ mainAt = "quit"
    /\ j \in todo
    /\ StopBegin(j)
    /\ UNCHANGED todo

\* Mutant: stop_all waits for a job that has been reaped.
QuitSkipNever(j) == FALSE

QuitSkip(j) ==
    /\ mainAt = "quit"
    /\ j \in todo \ running
    /\ todo' = todo \ {j}
    /\ UNCHANGED <<ctx, attempts, schedVars, mainAt, mainJob, repairQ, dbVars>>

\* run() returns and the process ends: spawned writes that have not run are lost.
Exit ==
    /\ mainAt = "quit"
    /\ todo = {}
    /\ mainAt' = "exited"
    /\ writes' = {}
    /\ UNCHANGED <<ctx, attempts, schedVars, mainJob, todo, repairQ, db>>

Exited == mainAt = "exited" /\ UNCHANGED vars

-----------------------------------------------------------------------------
(* The worker task of a job. *)

WorkerAt(j, at) == Up /\ pc[j] = at

\* The worker goes on at `at` with n iterations or actions left.
WorkerGoto(j, at, n) ==
    /\ pc' = [pc EXCEPT ![j] = at]
    /\ left' = [left EXCEPT ![j] = n]
    /\ UNCHANGED <<ctx, writes>>

\* Mutant: the status is persisted also when the transition is refused.
MarkStatePersistsAnyway(j, s) ==
    /\ ctx' = [ctx EXCEPT ![j] = IF CanTransition(@, s) THEN s ELSE @]
    /\ Persist(UpdateStatus(j, s))

\* mark_completed, mark_failed and mark_stuck: the context moves to `s` and
\* the status is persisted, or nothing happens and an error is returned.
MarkState(j, s) ==
    IF CanTransition(ctx[j], s)
    THEN /\ ctx' = [ctx EXCEPT ![j] = s]
         /\ Persist(UpdateStatus(j, s))
    ELSE UNCHANGED <<ctx, writes>>

\* execution_loop ends with mark(s): on its error, run() calls mark_failed.
Conclude(j, s) ==
    /\ MarkState(j, IF CanTransition(ctx[j], s) THEN s ELSE "Failed")
    /\ pc' = [pc EXCEPT ![j] = "done"]
    /\ UNCHANGED left

\* The worker returns without touching the context.
GiveUp(j) == WorkerGoto(j, "done", left[j])

\* run(): Start is received, execution_loop is entered.
WorkerStart(j) ==
    /\ WorkerAt(j, "wait_start")
    /\ IF UsePlanning THEN WorkerGoto(j, "plan", 0)
                      ELSE WorkerGoto(j, "loop", MaxIterations)

\* Planning succeeds with n actions, or fails and the direct loop is used.
WorkerPlan(j) ==
    /\ WorkerAt(j, "plan")
    /\ \/ \E n \in 0..MaxPlan : WorkerGoto(j, "act", n)
       \/ WorkerGoto(j, "loop", MaxIterations)

\* execute_plan: before each action the stop signal is looked at; the tool's
\* result, an error included, does not end the plan.
WorkerAct(j) ==
    /\ WorkerAt(j, "act")
    /\ IF left[j] = 0 THEN WorkerGoto(j, "ask", 0)
       ELSE IF stopq[j] THEN GiveUp(j)
       ELSE WorkerGoto(j, "act", left[j] - 1)

\* execute_plan asks the LLM whether the job is complete.
WorkerAsk(j) ==
    /\ WorkerAt(j, "ask")
    /\ \E s \in {"Completed", "Stuck", "Failed"} : Conclude(j, s)

\* The head of the direct loop: stop signal, cancellation, iteration limit.
WorkerLoop(j) ==
    /\ WorkerAt(j, "loop")
    /\ IF stopq[j] \/ ctx[j] = "Cancelled" THEN GiveUp(j)
       ELSE IF left[j] = 0 THEN Conclude(j, "Stuck")
       ELSE WorkerGoto(j, "think", left[j] - 1)

\* The body: an LLM error ends it, a completion phrase completes the job,
\* tools and other text lead to the next iteration.
WorkerThink(j) ==
    /\ WorkerAt(j, "think")
    /\ \/ \E s \in {"Completed", "Failed"} : Conclude(j, s)
       \/ WorkerGoto(j, "loop", left[j])

\* Mutant: the worker goes on after the timeout.
WorkerTimeoutGoesOn(j) ==
    /\ Up
    /\ pc[j] \in {"plan", "act", "ask", "loop", "think"}
    /\ MarkState(j, "Stuck")
    /\ UNCHANGED <<pc, left>>

\* job_timeout around execution_loop: mark_stuck, without a fallback.
WorkerTimeout(j) ==
    /\ Up
    /\ pc[j] \in {"plan", "act", "ask", "loop", "think"}
    /\ MarkState(j, "Stuck")
    /\ pc' = [pc EXCEPT ![j] = "done"]
    /\ UNCHANGED left

Worker(j) ==
    /\ \/ WorkerStart(j) \/ WorkerPlan(j) \/ WorkerAct(j) \/ WorkerAsk(j)
       \/ WorkerLoop(j) \/ WorkerThink(j) \/ WorkerTimeout(j)
    /\ UNCHANGED <<attempts, running, stopq, reaper, mainVars, repairQ, db>>

-----------------------------------------------------------------------------
(* The reaper of a job, the repair task, the database. *)

\* Mutants: the entry is removed whether or not the worker is finished; the
\* cleanup task looks once and does not come back.
ReaperPollHasty(j) ==
    /\ Up /\ LockFree
    /\ reaper[j] = "poll"
    /\ reaper' = [reaper EXCEPT ![j] = "remove"]
    /\ UNCHANGED <<ctx, attempts, running, pc, left, stopq, mainVars, repairQ, dbVars>>
ReaperPollOnce(j) ==
    /\ Up /\ LockFree
    /\ reaper[j] = "poll"
    /\ reaper' = [reaper EXCEPT ![j] = IF j \in running /\ Live(j) THEN "over" ELSE "remove"]
    /\ UNCHANGED <<ctx, attempts, running, pc, left, stopq, mainVars, repairQ, dbVars>>

\* The cleanup task sees, under the read lock, that the worker is finished
\* or that the entry is gone ...
ReaperPoll(j) ==
    /\ Up /\ LockFree
    /\ reaper[j] = "poll"
    /\ j \in running => ~Live(j)
    /\ reaper' = [reaper EXCEPT ![j] = "remove"]
    /\ UNCHANGED <<ctx, attempts, running, pc, left, stopq, mainVars, repairQ, dbVars>>

\* ... and later removes the entry under the write lock, without looking again.
ReaperRemove(j) ==
    /\ Up /\ LockFree
    /\ reaper[j] = "remove"
    /\ running' = running \ {j}
    /\ reaper' = [reaper EXCEPT ![j] = "over"]
    /\ UNCHANGED <<ctx, attempts, pc, left, stopq, mainVars, repairQ, dbVars>>

\* The message loop has ended; todo holds the job stop_all is stopping.
Leaving == mainAt \in {"quit", "exited"} \/ todo # {}

\* detect_stuck_jobs: the stuck jobs with the attempts they have had.
RepairDetect ==
    /\ ~Leaving
    /\ repairQ = {}
    /\ repairQ' = {<<j, attempts[j]>> : j \in {k \in Jobs : ctx[k] = "Stuck"}}
    /\ UNCHANGED <<ctx, attempts, schedVars, mainVars, dbVars>>

\* Mutant: off by one.
MayRepairOffByOne(n) == n + 1 < MaxRepairAttempts

MayRepair(n) == n < MaxRepairAttempts

\* repair_stuck_job on one element of the list: manual intervention needed,
\* recovered, or (no longer stuck) recovery refused.
RepairStuckJob(j, n) ==
    /\ ~Leaving
    /\ <<j, n>> \in repairQ
    /\ IF MayRepair(n) /\ ctx[j] = "Stuck"
       THEN AttemptRecovery(j)
       ELSE UNCHANGED <<ctx, attempts>>
    /\ repairQ' = repairQ \ {<<j, n>>}
    /\ UNCHANGED <<schedVars, mainVars, dbVars>>

\* A spawned write runs, in no particular order.
ApplyWrite(w) ==
    /\ Up
    /\ w \in writes
    /\ writes' = writes \ {w}
    /\ IF w.op = "save" \/ db[w.job] # Absent
       THEN db' = [db EXCEPT ![w.job] = w.status]
       ELSE UNCHANGED db
    /\ UNCHANGED <<ctx, attempts, schedVars, mainVars, repairQ>>

\* A write fails: the error is logged and the write is dropped.
FailWrite(w) ==
    /\ Up
    /\ w \in writes
    /\ writes' = writes \ {w}
    /\ UNCHANGED <<ctx, attempts, schedVars, mainVars, repairQ, db>>

-----------------------------------------------------------------------------

Init ==
    /\ ctx = [j \in Jobs |-> Absent]
    /\ attempts = [j \in Jobs |-> 0]
    /\ running = {}
    /\ pc = [j \in Jobs |-> "none"]
    /\ left = [j \in Jobs |-> 0]
    /\ stopq = [j \in Jobs |-> FALSE]
    /\ reaper = [j \in Jobs |-> "none"]
    /\ mainAt = "idle" /\ mainJob = NoJob /\ todo = {}
    /\ repairQ = {}
    /\ db = [j \in Jobs |-> Absent]
    /\ writes = {}

Next ==
    \/ \E j \in Jobs :
          \/ CreateJob(j) \/ ToolCreateJob(j) \/ HelpJob(j) \/ ToolCancelJob(j)
          \/ CancelJob(j) \/ QuitStop(j) \/ QuitSkip(j)
          \/ Worker(j) \/ ReaperPoll(j) \/ ReaperRemove(j)
    \/ Schedule \/ HelpRecover \/ StopFinish
    \/ Quit \/ Exit \/ Exited
    \/ RepairDetect
    \/ \E e \in repairQ : RepairStuckJob(e[1], e[2])
    \/ \E w \in writes : ApplyWrite(w) \/ FailWrite(w)

Spec == Init /\ [][Next]_vars

\* What runs by itself: tokio polls every ready task, every LLM call is under
\* job_timeout, the message loop finishes the command it has begun.  Nothing
\* is assumed of the user.
Fairness ==
    /\ WF_vars(Schedule \/ HelpRecover \/ StopFinish \/ Exit)
    /\ WF_vars(RepairDetect)
    /\ WF_vars(\E e \in repairQ : RepairStuckJob(e[1], e[2]))
    /\ \A j \in Jobs :
          /\ WF_vars(QuitStop(j) \/ QuitSkip(j))
          /\ WF_vars(Worker(j))
          /\ WF_vars(ReaperPoll(j) \/ ReaperRemove(j))

FairSpec == Spec /\ Fairness

-----------------------------------------------------------------------------
(* Properties. *)

WorkerPlaces == {"none", "wait_start", "plan", "act", "ask", "loop", "think", "done"}

\* Every variable has its type.
TypeOK ==
    /\ ctx \in [Jobs -> JobStates \cup {Absent}]
    /\ attempts \in [Jobs -> Nat]
    /\ running \subseteq Jobs
    /\ pc \in [Jobs -> WorkerPlaces]
    /\ left \in [Jobs -> Nat]
    /\ stopq \in [Jobs -> BOOLEAN]
    /\ reaper \in [Jobs -> {"none", "poll", "remove", "over"}]
    /\ mainAt \in {"idle", "schedule", "recover", "stop", "quit", "exited"}
    /\ mainJob \in Jobs \cup {NoJob}
    /\ mainAt \in {"schedule", "recover", "stop"} <=> mainJob \in Jobs
    /\ todo \subseteq Jobs
    /\ repairQ \subseteq Jobs \X Nat
    /\ db \in [Jobs -> JobStates \cup {Absent}]
    /\ writes \subseteq Write

\* The two limits hold whatever the tools, the commands and the recoveries
\* do: a recovered job never overruns the context limit, a stopped or reaped
\* worker never overruns the scheduler's.
Capacity ==
    /\ Cardinality(ActiveJobs) <= MaxParallelJobs
    /\ Cardinality(running) <= MaxParallelJobs

\* No worker is lost: a live worker is in Scheduler.jobs, or stop() holds its
\* handle and is about to abort it.  Violated if the reaper removed the entry
\* of a later worker, or if stop() forgot the handle.
LiveTracked ==
    \A j \in Jobs : Live(j) => j \in running \/ (mainAt = "stop" /\ mainJob = j)

\* While a worker lives its job is in progress or cancelled: self-repair and
\* the help command never recover, and nothing else ends, a job whose worker
\* still runs; so every outcome comes from the job's own worker.
LiveState == \A j \in Jobs : Live(j) => ctx[j] \in {"InProgress", "Cancelled"}

\* A job whose outcome is decided keeps it: late completions, timeouts,
\* recoveries queued by self-repair and stops of a finished job change nothing.
FinalStays ==
    [][\A j \in Jobs :
          ctx[j] \in Terminal \cup {"Completed"} => ctx'[j] = ctx[j]]_vars

\* An outcome that is, or is going to be, in the database is the outcome in
\* memory, however the spawned writes are reordered or lost.  (Cancelled is
\* not listed: see PersistedCancelIsReal.)
DbNeverAhead ==
    \A j \in Jobs, s \in {"Completed", "Failed"} :
       db[j] = s \/ UpdateStatus(j, s) \in writes => ctx[j] = s

\* When the process ends no worker is left behind, and no scheduler entry.
ShutdownStopsWorkers ==
    mainAt = "exited" => running = {} /\ \A j \in Jobs : ~Live(j)

\* Self-repair and the help command may race for a stuck job: it is recovered
\* once, and never beyond what a first detection allows.
RecoveredOnce == \A j \in Jobs : attempts[j] <= 1

\* Every scheduler slot is freed: the job's worker ends and its entry goes.
SlotReclaimed == \A j \in Jobs : j \in running ~> j \notin running

\* Self-repair takes every stuck job out of Stuck unless the process ends.
StuckIsRepaired ==
    \A j \in Jobs : ctx[j] = "Stuck" ~> ctx[j] # "Stuck" \/ Leaving

\* Shutdown ends, whatever the workers are doing.
ShutdownEnds == mainAt = "quit" ~> mainAt = "exited"

\* repair_stuck_job reports that the job "recovered and will be retried": a
\* recovered job is worked on again.  TLC refutes this: nothing schedules it.
RecoveredIsRetried ==
    \A j \in Jobs :
       attempts[j] > 0 /\ ctx[j] = "InProgress"
          ~> Live(j) \/ ctx[j] # "InProgress" \/ Leaving

\* stop() persists a cancellation: the job it names is cancelled.
PersistedCancelIsReal == \A j \in Jobs : db[j] = "Cancelled" => ctx[j] = "Cancelled"

\* The limit on jobs is a limit on concurrent jobs: a job is refused only if
\* that many are waiting, worked on or stuck.  TLC refutes this: a completed job
\* counts for ever.
LimitIsOnConcurrentJobs ==
    Cardinality(ActiveJobs) >= MaxParallelJobs =>
       Cardinality({j \in Jobs : ctx[j] \in {"Pending", "InProgress", "Stuck"}})
          >= MaxParallelJobs

-----------------------------------------------------------------------------
(* The job board this implements. *)

Card(j) ==
    CASE ctx[j] = Absent -> "none"
      [] ctx[j] = "Pending" -> "queued"
      [] ctx[j] = "InProgress" /\ Live(j) -> "working"
      [] ctx[j] = "InProgress" /\ ~Live(j) -> "halted"
      [] ctx[j] = "Stuck" -> "halted"
      [] ctx[j] = "Failed" -> "failed"
      [] ctx[j] = "Cancelled" /\ Live(j) -> "stopping"
      [] ctx[j] = "Cancelled" /\ ~Live(j) -> "cancelled"
      [] ctx[j] \in {"Completed", "Submitted"} -> "completed"
      [] ctx[j] = "Accepted" -> "accepted"

board == [j \in Jobs |-> Card(j)]

JB == INSTANCE JobBoard WITH card <- board

\* The job subsystem implements the job board: work on a job is started once,
\* and each step of a task is one step of the board or none.
ImplementsBoard == JB!Board

=============================================================================
