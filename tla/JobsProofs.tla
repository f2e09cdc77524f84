----------------------------- MODULE JobsProofs -----------------------------
(***************************************************************************)
(* Proofs about Jobs, for every set of jobs and every value of the limits. *)
(***************************************************************************)
EXTENDS Jobs, TLAPS, FiniteSetTheorems

\* A job that has not been scheduled has no worker, no entry and no reaper.
NotScheduledInv ==
    \A j \in Jobs : ctx[j] \in {Absent, "Pending"} =>
       pc[j] = "none" /\ j \notin running /\ reaper[j] = "none" /\ attempts[j] = 0

\* schedule() is called on a new job, or on a recovered one without a worker.
ScheduleInv ==
    mainAt = "schedule" => \/ ctx[mainJob] = "Pending"
                           \/ ctx[mainJob] = "InProgress" /\ ~Live(mainJob)

\* The reaper is past its check only when the worker is finished.
ReaperInv == \A j \in Jobs : reaper[j] = "remove" => ~Live(j)

\* A recovered job has no worker and can only be cancelled.
AttemptsInv ==
    \A j \in Jobs : attempts[j] # 0 =>
       attempts[j] = 1 /\ ~Live(j) /\ ctx[j] \in {"InProgress", "Cancelled"}

\* save_job always writes the new job.
SaveInv == \A w \in writes : w.op = "save" => w.status = "Pending"

\* What stop_all has left to do covers the map.
QuitInv ==
    /\ mainAt = "stop" => mainJob \notin running /\ ctx[mainJob] \notin {Absent, "Pending"}
    /\ mainAt = "stop" /\ todo # {} => mainJob \in todo
    /\ Leaving => running \subseteq todo
    /\ todo # {} => mainAt \in {"quit", "stop"}

\* The parts about tasks and contexts, and the parts about the database.
TaskInv ==
    /\ LiveTracked /\ LiveState
    /\ NotScheduledInv /\ ScheduleInv /\ ReaperInv /\ AttemptsInv /\ QuitInv
StoreInv == SaveInv /\ DbNeverAhead

IInv == TypeOK /\ TaskInv /\ StoreInv

-----------------------------------------------------------------------------
(* What the actions do, once and for all. *)

\* A step of a worker: its own worker was live, and either the context and the
\* writes stay, or the job was in progress, gets an outcome and the worker ends.
WorkerEffect(j) ==
    /\ Live(j)
    /\ pc' = [pc EXCEPT ![j] = pc'[j]]
    /\ pc'[j] \in WorkerPlaces \ {"none"}
    /\ left' \in [Jobs -> Nat]
    /\ \/ UNCHANGED <<ctx, writes>>
       \/ /\ ctx[j] = "InProgress"
          /\ pc'[j] = "done"
          /\ \E s \in {"Completed", "Failed", "Stuck"} :
                ctx' = [ctx EXCEPT ![j] = s] /\ Persist(UpdateStatus(j, s))
    /\ UNCHANGED <<attempts, running, stopq, reaper, mainVars, repairQ, db>>

\* Every step of worker.rs has that effect.
LEMMA WorkerSteps ==
    ASSUME TypeOK, LiveState, NEW j \in Jobs, Worker(j)
    PROVE  WorkerEffect(j)
<1> USE JobsAssumption DEF TypeOK, WorkerPlaces, WorkerAt
<1>1. UNCHANGED <<attempts, running, stopq, reaper, mainVars, repairQ, db>>
  BY DEF Worker
<1>2. ASSUME NEW at \in WorkerPlaces \ {"none"}, NEW n \in Nat, WorkerGoto(j, at, n), Live(j)
      PROVE  WorkerEffect(j)
  BY <1>1, <1>2 DEF WorkerGoto, WorkerEffect
<1>3. ASSUME NEW s \in {"Completed", "Failed", "Stuck"}, MarkState(j, s), Live(j),
             pc' = [pc EXCEPT ![j] = "done"], UNCHANGED left
      PROVE  WorkerEffect(j)
  <2>1. CASE CanTransition(ctx[j], s)
    <3>1. ctx[j] # "Cancelled"
      BY <2>1 DEF CanTransition, Transitions
    <3>2. ctx[j] = "InProgress"
      BY <3>1, <1>3 DEF LiveState
    <3> QED
      BY <1>1, <1>3, <2>1, <3>2 DEF MarkState, WorkerEffect
  <2>2. CASE ~CanTransition(ctx[j], s)
    BY <1>1, <1>3, <2>2 DEF MarkState, WorkerEffect
  <2> QED BY <2>1, <2>2
<1>4. ASSUME NEW s \in {"Completed", "Failed", "Stuck"}, Conclude(j, s), Live(j)
      PROVE  WorkerEffect(j)
  BY <1>3, <1>4 DEF Conclude
<1>5. CASE WorkerStart(j)
  BY <1>2, <1>5 DEF WorkerStart, Live
<1>6. CASE WorkerPlan(j)
  BY <1>2, <1>6 DEF WorkerPlan, Live
<1>7. CASE WorkerAct(j)
  BY <1>2, <1>7 DEF WorkerAct, Live, GiveUp
<1>8. CASE WorkerAsk(j)
  BY <1>4, <1>8 DEF WorkerAsk, Live
<1>9. CASE WorkerLoop(j)
  BY <1>2, <1>4, <1>9 DEF WorkerLoop, Live, GiveUp
<1>10. CASE WorkerThink(j)
  BY <1>2, <1>4, <1>10 DEF WorkerThink, Live
<1>11. CASE WorkerTimeout(j)
  BY <1>3, <1>11 DEF WorkerTimeout, Live
<1> QED
  BY <1>5, <1>6, <1>7, <1>8, <1>9, <1>10, <1>11 DEF Worker

-----------------------------------------------------------------------------
(* The inductive invariant. *)

\* Every step keeps the types; LiveState makes a worker's outcome one of a job
\* that is in progress (WorkerSteps).
LEMMA TypeStep == TypeOK /\ LiveState /\ [Next]_vars => TypeOK'
<1> SUFFICES ASSUME TypeOK, LiveState, [Next]_vars PROVE TypeOK'
  OBVIOUS
<1> USE NoJobAssumption DEF TypeOK, schedVars, mainVars, dbVars, WorkerPlaces, Write, JobStates
<1>1. ASSUME NEW j \in Jobs, CreateJob(j) PROVE TypeOK'
  BY <1>1 DEF CreateJob, CreateContext, Persist, SaveJob, Goto
<1>2. ASSUME NEW j \in Jobs, ToolCreateJob(j) PROVE TypeOK'
  BY <1>2 DEF ToolCreateJob, CreateContext
<1>3. ASSUME NEW j \in Jobs, HelpJob(j) PROVE TypeOK'
  BY <1>3 DEF HelpJob, Goto
<1>4. ASSUME NEW j \in Jobs, ToolCancelJob(j) PROVE TypeOK'
  BY <1>4 DEF ToolCancelJob, TransitionTo
<1>5. ASSUME NEW j \in Jobs, CancelJob(j) PROVE TypeOK'
  BY <1>5 DEF CancelJob, StopBegin, Live
<1>6. ASSUME NEW j \in Jobs, QuitStop(j) PROVE TypeOK'
  BY <1>6 DEF QuitStop, StopBegin, Live
<1>7. ASSUME NEW j \in Jobs, QuitSkip(j) PROVE TypeOK'
  BY <1>7 DEF QuitSkip
<1>8. ASSUME NEW j \in Jobs, Worker(j) PROVE TypeOK'
  BY <1>8, WorkerSteps DEF WorkerEffect, Persist, UpdateStatus
<1>9. ASSUME NEW j \in Jobs, ReaperPoll(j) PROVE TypeOK'
  BY <1>9 DEF ReaperPoll
<1>10. ASSUME NEW j \in Jobs, ReaperRemove(j) PROVE TypeOK'
  BY <1>10 DEF ReaperRemove
<1>11. CASE Schedule
  <2>1. CASE Spawn(mainJob)
    BY <1>11, <2>1 DEF Schedule, Spawn, TransitionTo, Goto
  <2>2. CASE UNCHANGED <<ctx, schedVars>>
    BY <1>11, <2>2 DEF Schedule, Goto
  <2> QED BY <1>11, <2>1, <2>2 DEF Schedule
<1>12. CASE HelpRecover
  BY <1>12 DEF HelpRecover, AttemptRecovery, TransitionTo, Goto
<1>13. CASE StopFinish
  BY <1>13 DEF StopFinish, TransitionTo, Persist, UpdateStatus
<1>14. CASE Quit
  BY <1>14 DEF Quit
<1>15. CASE Exit
  BY <1>15 DEF Exit
<1>16. CASE RepairDetect
  BY <1>16 DEF RepairDetect
<1>17. ASSUME NEW e \in repairQ, RepairStuckJob(e[1], e[2]) PROVE TypeOK'
  BY <1>17 DEF RepairStuckJob, AttemptRecovery, TransitionTo
<1>18. ASSUME NEW w \in writes, ApplyWrite(w) PROVE TypeOK'
  BY <1>18 DEF ApplyWrite
<1>19. ASSUME NEW w \in writes, FailWrite(w) PROVE TypeOK'
  BY <1>19 DEF FailWrite
<1>20. CASE UNCHANGED vars
  BY <1>20 DEF vars
<1> QED
  BY <1>1, <1>2, <1>3, <1>4, <1>5, <1>6, <1>7, <1>8, <1>9, <1>10, <1>11, <1>12, <1>13,
     <1>14, <1>15, <1>16, <1>17, <1>18, <1>19, <1>20 DEF Next, Exited

\* The tasks keep their agreement: the reaper's stale check, stop()'s removal
\* before the abort, and the two recoverers included.
LEMMA TaskStep == TypeOK /\ TaskInv /\ [Next]_vars => TaskInv'
<1> SUFFICES ASSUME TypeOK, TaskInv, [Next]_vars PROVE TaskInv'
  OBVIOUS
<1> USE NoJobAssumption
    DEF TypeOK, TaskInv, LiveTracked, LiveState, NotScheduledInv, ScheduleInv, ReaperInv,
        AttemptsInv, QuitInv, Live, Leaving, Absent, WorkerPlaces, schedVars, mainVars, dbVars
<1>1. ASSUME NEW j \in Jobs, CreateJob(j) PROVE TaskInv'
  BY <1>1 DEF CreateJob, CreateContext, Goto
<1>2. ASSUME NEW j \in Jobs, ToolCreateJob(j) PROVE TaskInv'
  BY <1>2 DEF ToolCreateJob, CreateContext
<1>3. ASSUME NEW j \in Jobs, HelpJob(j) PROVE TaskInv'
  BY <1>3 DEF HelpJob, Goto
<1>4. ASSUME NEW j \in Jobs, ToolCancelJob(j) PROVE TaskInv'
  BY <1>4 DEF ToolCancelJob, TransitionTo, CanTransition, Transitions
<1>5. ASSUME NEW j \in Jobs, CancelJob(j) PROVE TaskInv'
  BY <1>5 DEF CancelJob, StopBegin
<1>6. ASSUME NEW j \in Jobs, QuitStop(j) PROVE TaskInv'
  BY <1>6 DEF QuitStop, StopBegin
<1>7. ASSUME NEW j \in Jobs, QuitSkip(j) PROVE TaskInv'
  BY <1>7 DEF QuitSkip
<1>8. ASSUME NEW j \in Jobs, Worker(j) PROVE TaskInv'
  BY <1>8, WorkerSteps DEF WorkerEffect
<1>9. ASSUME NEW j \in Jobs, ReaperPoll(j) PROVE TaskInv'
  BY <1>9 DEF ReaperPoll, LockFree
<1>10. ASSUME NEW j \in Jobs, ReaperRemove(j) PROVE TaskInv'
  BY <1>10 DEF ReaperRemove
<1>11. CASE Schedule
  <2>1. CASE Spawn(mainJob)
    <3>1. ctx[mainJob] = "Pending"
      BY <1>11, <2>1 DEF Schedule, Spawn, TransitionTo, CanTransition, Transitions
    <3> QED
      BY <1>11, <2>1, <3>1 DEF Schedule, Spawn, TransitionTo, Goto
  <2>2. CASE UNCHANGED <<ctx, schedVars>>
    BY <1>11, <2>2 DEF Schedule, Goto
  <2> QED BY <1>11, <2>1, <2>2 DEF Schedule
<1>12. CASE HelpRecover
  BY <1>12 DEF HelpRecover, AttemptRecovery, TransitionTo, Goto
<1>13. CASE StopFinish
  BY <1>13 DEF StopFinish, TransitionTo, CanTransition, Transitions
<1>14. CASE Quit
  BY <1>14 DEF Quit
<1>15. CASE Exit
  BY <1>15 DEF Exit
<1>16. CASE RepairDetect
  BY <1>16 DEF RepairDetect
<1>17. ASSUME NEW e \in repairQ, RepairStuckJob(e[1], e[2]) PROVE TaskInv'
  BY <1>17 DEF RepairStuckJob, AttemptRecovery, TransitionTo
<1>18. ASSUME NEW w \in writes, ApplyWrite(w) PROVE TaskInv'
  BY <1>18 DEF ApplyWrite
<1>19. ASSUME NEW w \in writes, FailWrite(w) PROVE TaskInv'
  BY <1>19 DEF FailWrite
<1>20. CASE UNCHANGED vars
  BY <1>20 DEF vars
<1> QED
  BY <1>1, <1>2, <1>3, <1>4, <1>5, <1>6, <1>7, <1>8, <1>9, <1>10, <1>11, <1>12, <1>13,
     <1>14, <1>15, <1>16, <1>17, <1>18, <1>19, <1>20 DEF Next, Exited

-----------------------------------------------------------------------------
(* How contexts change; outcomes are final, in memory and then in the database. *)

\* A step creates a context, or changes contexts along the table, none of them
\* completed.
CtxEffect ==
    \/ \E k \in Jobs : CreateContext(k)
    \/ \A k \in Jobs :
          ctx'[k] # ctx[k] => CanTransition(ctx[k], ctx'[k]) /\ ctx[k] # "Completed"


\* The table allows Completed to Failed, but only a live worker could ask for
\* it, and the job of a live worker is not completed.
LEMMA ContextStep == TypeOK /\ LiveState /\ [Next]_vars => CtxEffect
<1> SUFFICES ASSUME TypeOK, LiveState, [Next]_vars PROVE CtxEffect
  OBVIOUS
<1> USE DEF CtxEffect, TypeOK, CanTransition, Transitions, schedVars, mainVars, dbVars
<1>1. ASSUME NEW j \in Jobs, CreateJob(j) PROVE CtxEffect
  BY <1>1 DEF CreateJob
<1>2. ASSUME NEW j \in Jobs, ToolCreateJob(j) PROVE CtxEffect
  BY <1>2 DEF ToolCreateJob
<1>3. ASSUME NEW j \in Jobs, HelpJob(j) PROVE CtxEffect
  BY <1>3 DEF HelpJob
<1>4. ASSUME NEW j \in Jobs, ToolCancelJob(j) PROVE CtxEffect
  BY <1>4 DEF ToolCancelJob, TransitionTo
<1>5. ASSUME NEW j \in Jobs, CancelJob(j) PROVE CtxEffect
  BY <1>5 DEF CancelJob, StopBegin
<1>6. ASSUME NEW j \in Jobs, QuitStop(j) PROVE CtxEffect
  BY <1>6 DEF QuitStop, StopBegin
<1>7. ASSUME NEW j \in Jobs, QuitSkip(j) PROVE CtxEffect
  BY <1>7 DEF QuitSkip
<1>8. ASSUME NEW j \in Jobs, Worker(j) PROVE CtxEffect
  BY <1>8, WorkerSteps DEF WorkerEffect
<1>9. ASSUME NEW j \in Jobs, ReaperPoll(j) PROVE CtxEffect
  BY <1>9 DEF ReaperPoll
<1>10. ASSUME NEW j \in Jobs, ReaperRemove(j) PROVE CtxEffect
  BY <1>10 DEF ReaperRemove
<1>11. CASE Schedule
  BY <1>11 DEF Schedule, Spawn, TransitionTo
<1>12. CASE HelpRecover
  BY <1>12 DEF HelpRecover, AttemptRecovery, TransitionTo
<1>13. CASE StopFinish
  BY <1>13 DEF StopFinish, TransitionTo
<1>14. CASE Quit
  BY <1>14 DEF Quit
<1>15. CASE Exit
  BY <1>15 DEF Exit
<1>16. CASE RepairDetect
  BY <1>16 DEF RepairDetect
<1>17. ASSUME NEW e \in repairQ, RepairStuckJob(e[1], e[2]) PROVE CtxEffect
  BY <1>17 DEF RepairStuckJob, AttemptRecovery, TransitionTo
<1>18. ASSUME NEW w \in writes, ApplyWrite(w) PROVE CtxEffect
  BY <1>18 DEF ApplyWrite
<1>19. ASSUME NEW w \in writes, FailWrite(w) PROVE CtxEffect
  BY <1>19 DEF FailWrite
<1>20. CASE UNCHANGED vars
  BY <1>20 DEF vars
<1> QED
  BY <1>1, <1>2, <1>3, <1>4, <1>5, <1>6, <1>7, <1>8, <1>9, <1>10, <1>11, <1>12, <1>13,
     <1>14, <1>15, <1>16, <1>17, <1>18, <1>19, <1>20 DEF Next, Exited

\* No step changes a decided outcome.
OutcomeKept == \A k \in Jobs : ctx[k] \in Terminal \cup {"Completed"} => ctx'[k] = ctx[k]

\* From the table: the terminal states have no successor.
LEMMA OutcomeStep == TypeOK /\ LiveState /\ [Next]_vars => OutcomeKept
<1> SUFFICES ASSUME TypeOK, CtxEffect PROVE OutcomeKept
  BY ContextStep
<1> QED
  BY DEF TypeOK, CtxEffect, OutcomeKept, CreateContext, CanTransition, Transitions, Terminal, Absent

\* A spawned write of an outcome is made after the context has it, and the
\* context keeps it.
LEMMA StoreStep == TypeOK /\ LiveState /\ StoreInv /\ [Next]_vars => StoreInv'
<1> SUFFICES ASSUME TypeOK, LiveState, StoreInv, [Next]_vars PROVE StoreInv'
  OBVIOUS
<1> USE DEF OutcomeKept, TypeOK, Terminal, Absent, StoreInv, SaveInv, DbNeverAhead, UpdateStatus,
        Write, schedVars, mainVars, dbVars
<1>0. OutcomeKept
  BY OutcomeStep
<1>1. ASSUME NEW j \in Jobs, CreateJob(j) PROVE StoreInv'
  BY <1>0, <1>1 DEF CreateJob, CreateContext, Persist, SaveJob
<1>2. ASSUME NEW j \in Jobs, ToolCreateJob(j) PROVE StoreInv'
  BY <1>0, <1>2 DEF ToolCreateJob
<1>3. ASSUME NEW j \in Jobs, HelpJob(j) PROVE StoreInv'
  BY <1>0, <1>3 DEF HelpJob
<1>4. ASSUME NEW j \in Jobs, ToolCancelJob(j) PROVE StoreInv'
  BY <1>0, <1>4 DEF ToolCancelJob
<1>5. ASSUME NEW j \in Jobs, CancelJob(j) PROVE StoreInv'
  BY <1>0, <1>5 DEF CancelJob, StopBegin
<1>6. ASSUME NEW j \in Jobs, QuitStop(j) PROVE StoreInv'
  BY <1>0, <1>6 DEF QuitStop, StopBegin
<1>7. ASSUME NEW j \in Jobs, QuitSkip(j) PROVE StoreInv'
  BY <1>0, <1>7 DEF QuitSkip
<1>8. ASSUME NEW j \in Jobs, Worker(j) PROVE StoreInv'
  BY <1>0, <1>8, WorkerSteps DEF WorkerEffect, Persist
<1>9. ASSUME NEW j \in Jobs, ReaperPoll(j) PROVE StoreInv'
  BY <1>0, <1>9 DEF ReaperPoll
<1>10. ASSUME NEW j \in Jobs, ReaperRemove(j) PROVE StoreInv'
  BY <1>0, <1>10 DEF ReaperRemove
<1>11. CASE Schedule
  BY <1>0, <1>11 DEF Schedule
<1>12. CASE HelpRecover
  BY <1>0, <1>12 DEF HelpRecover
<1>13. CASE StopFinish
  BY <1>0, <1>13 DEF StopFinish, Persist
<1>14. CASE Quit
  BY <1>0, <1>14 DEF Quit
<1>15. CASE Exit
  BY <1>0, <1>15 DEF Exit
<1>16. CASE RepairDetect
  BY <1>0, <1>16 DEF RepairDetect
<1>17. ASSUME NEW e \in repairQ, RepairStuckJob(e[1], e[2]) PROVE StoreInv'
  BY <1>0, <1>17 DEF RepairStuckJob
<1>18. ASSUME NEW w \in writes, ApplyWrite(w) PROVE StoreInv'
  BY <1>0, <1>18 DEF ApplyWrite
<1>19. ASSUME NEW w \in writes, FailWrite(w) PROVE StoreInv'
  BY <1>0, <1>19 DEF FailWrite
<1>20. CASE UNCHANGED vars
  BY <1>0, <1>20 DEF vars
<1> QED
  BY <1>1, <1>2, <1>3, <1>4, <1>5, <1>6, <1>7, <1>8, <1>9, <1>10, <1>11, <1>12, <1>13,
     <1>14, <1>15, <1>16, <1>17, <1>18, <1>19, <1>20 DEF Next, Exited

-----------------------------------------------------------------------------
(* The limits. *)

\* A set under a limit stays under it when it gains an element below the limit.
LEMMA LimitKept ==
    ASSUME NEW S, NEW T, IsFiniteSet(S), Cardinality(S) <= MaxParallelJobs,
           \/ T \subseteq S
           \/ Cardinality(S) < MaxParallelJobs /\ \E x : T = S \cup {x}
    PROVE  Cardinality(T) <= MaxParallelJobs
<1> USE JobsAssumption
<1>1. Cardinality(S) \in Nat
  BY FS_CardinalityType
<1>2. CASE T \subseteq S
  <2>1. Cardinality(T) \in Nat /\ Cardinality(T) <= Cardinality(S)
    BY <1>2, FS_Subset, FS_CardinalityType
  <2> QED BY <1>1, <2>1
<1>3. CASE Cardinality(S) < MaxParallelJobs /\ \E x : T = S \cup {x}
  <2>1. PICK x : T = S \cup {x}
    BY <1>3
  <2>2. Cardinality(T) = Cardinality(S) \/ Cardinality(T) = Cardinality(S) + 1
    BY <2>1, FS_AddElement
  <2> QED BY <1>1, <1>3, <2>2
<1> QED BY <1>2, <1>3

\* Only create_job_for_user adds an active job, only schedule() an entry.
LEMMA CapacityStep == TypeOK /\ LiveState /\ Capacity /\ [Next]_vars => Capacity'
<1> SUFFICES ASSUME TypeOK, LiveState, Capacity, [Next]_vars PROVE Capacity'
  OBVIOUS
<1>1. IsFiniteSet(ActiveJobs) /\ IsFiniteSet(running)
  <2>1. ActiveJobs \subseteq Jobs /\ running \subseteq Jobs
    BY DEF ActiveJobs, TypeOK
  <2> QED BY <2>1, JobsAssumption, FS_Subset
<1>2. Cardinality(ActiveJobs') <= MaxParallelJobs
  <2>1. CASE \E k \in Jobs : CreateContext(k)
    <3>1. PICK k \in Jobs : CreateContext(k)
      BY <2>1
    <3>2. ActiveJobs' = ActiveJobs \cup {k}
      BY <3>1 DEF CreateContext, ActiveJobs, Active, JobStates, Terminal, TypeOK
    <3>3. Cardinality(ActiveJobs) < MaxParallelJobs
      BY <3>1 DEF CreateContext, HasSlot
    <3> QED BY <1>1, <3>2, <3>3, LimitKept DEF Capacity
  <2>2. CASE ~\E k \in Jobs : CreateContext(k)
    <3>1. ActiveJobs' \subseteq ActiveJobs
      BY <2>2, ContextStep
         DEF CtxEffect, CanTransition, Transitions, ActiveJobs, Active, JobStates, Terminal, TypeOK
    <3> QED BY <1>1, <3>1, LimitKept DEF Capacity
  <2> QED BY <2>1, <2>2
<1>3. Cardinality(running') <= MaxParallelJobs
  <2>1. CASE Schedule
    <3>1. \/ running' = running
          \/ Cardinality(running) < MaxParallelJobs /\ running' = running \cup {mainJob}
      BY <2>1 DEF Schedule, Spawn, schedVars
    <3> QED BY <1>1, <3>1, LimitKept DEF Capacity
  <2>2. CASE ~Schedule
    <3>1. running' \subseteq running
      BY <2>2 DEF Next, vars, schedVars, CreateJob, ToolCreateJob, HelpJob, ToolCancelJob, CancelJob,
         StopBegin, QuitStop, QuitSkip, Worker, ReaperPoll, ReaperRemove, HelpRecover, StopFinish,
         Quit, Exit, Exited, RepairDetect, RepairStuckJob, ApplyWrite, FailWrite
    <3> QED BY <1>1, <3>1, LimitKept DEF Capacity
  <2> QED BY <2>1, <2>2
<1> QED BY <1>2, <1>3 DEF Capacity

-----------------------------------------------------------------------------
(* The safety theorems. *)

\* The invariant holds when the process starts: no job, no task, no row.
LEMMA InitInv == Init => IInv
BY NoJobAssumption
   DEF Init, IInv, TypeOK, TaskInv, StoreInv, LiveTracked, LiveState, NotScheduledInv, ScheduleInv,
       ReaperInv, AttemptsInv, QuitInv, SaveInv, DbNeverAhead, Live, Leaving, WorkerPlaces, Absent,
       JobStates

\* The inductive invariant is an invariant.
THEOREM Invariance == Spec => []IInv
<1>1. Init => IInv
  BY InitInv
<1>2. IInv /\ [Next]_vars => IInv'
  BY TypeStep, TaskStep, StoreStep DEF IInv, TaskInv
<1> QED BY <1>1, <1>2, PTL DEF Spec

\* Every variable keeps its type.
THEOREM TypeCorrect == Spec => []TypeOK
<1>1. IInv => TypeOK
  BY DEF IInv
<1> QED BY <1>1, Invariance, PTL

\* No live worker is ever lost by the scheduler (stop, reaper, reschedule).
THEOREM WorkersTracked == Spec => []LiveTracked
<1>1. IInv => LiveTracked
  BY DEF IInv, TaskInv
<1> QED BY <1>1, Invariance, PTL

\* The job of a live worker is in progress or cancelled, whatever self-repair,
\* the help command and the cancel tool do meanwhile.
THEOREM WorkerOwnsJob == Spec => []LiveState
<1>1. IInv => LiveState
  BY DEF IInv, TaskInv
<1> QED BY <1>1, Invariance, PTL

\* No reordering or loss of status writes puts an outcome in the database that
\* the job does not have.
THEOREM DatabaseNeverAhead == Spec => []DbNeverAhead
<1>1. IInv => DbNeverAhead
  BY DEF IInv, StoreInv
<1> QED BY <1>1, Invariance, PTL

\* stop_all leaves no worker and no entry behind.
THEOREM ShutdownClean == Spec => []ShutdownStopsWorkers
<1>1. IInv => ShutdownStopsWorkers
  BY DEF IInv, TaskInv, QuitInv, LiveTracked, Leaving, ShutdownStopsWorkers
<1> QED BY <1>1, Invariance, PTL

\* Self-repair and the help command together recover a job at most once.
THEOREM OneRecovery == Spec => []RecoveredOnce
<1>1. IInv => RecoveredOnce
  BY DEF IInv, TaskInv, TypeOK, AttemptsInv, RecoveredOnce
<1> QED BY <1>1, Invariance, PTL

\* A decided outcome never changes.
THEOREM OutcomesAreFinal == Spec => FinalStays
<1>1. IInv /\ [Next]_vars => OutcomeKept
  BY OutcomeStep DEF IInv, TaskInv
<1>2. IInv /\ [Next]_vars
        => [\A j \in Jobs : ctx[j] \in Terminal \cup {"Completed"} => ctx'[j] = ctx[j]]_vars
  BY <1>1 DEF OutcomeKept
<1> QED BY <1>2, Invariance, PTL DEF Spec, FinalStays

\* Both limits hold always.
THEOREM LimitsHold == Spec => []Capacity
<1>1. Init => Capacity
  <2>1. ASSUME Init PROVE ActiveJobs = {} /\ running = {}
    BY <2>1 DEF Init, ActiveJobs, Active, JobStates, Absent
  <2> QED BY <2>1, FS_EmptySet, JobsAssumption DEF Capacity
<1>2. IInv /\ Capacity /\ [Next]_vars => Capacity'
  BY CapacityStep DEF IInv, TaskInv
<1> QED BY <1>1, <1>2, Invariance, PTL DEF Spec

-----------------------------------------------------------------------------
(* The job board. *)

\* A step that touches the context and the worker of one job moves one card.
LEMMA OneCard ==
    ASSUME NEW j \in Jobs,
           \A k \in Jobs \ {j} : ctx'[k] = ctx[k] /\ (Live(k)' <=> Live(k))
    PROVE  board' = [board EXCEPT ![j] = Card(j)']
<1>1. \A k \in Jobs \ {j} : Card(k)' = Card(k)
  BY DEF Card
<1> QED BY <1>1 DEF board

\* A step that touches neither moves none.
LEMMA NoCard ==
    ASSUME UNCHANGED <<ctx, pc>>
    PROVE  UNCHANGED board
BY DEF board, Card, Live

\* The open cards are the active jobs.
LEMMA OpenIsActive == TypeOK => JB!OpenCards = ActiveJobs
<1> SUFFICES ASSUME TypeOK PROVE JB!OpenCards = ActiveJobs
  OBVIOUS
<1>1. ASSUME NEW k \in Jobs
      PROVE  Card(k) \in {"queued", "working", "halted", "completed"} <=> ctx[k] \in Active
  <2>1. CASE ctx[k] = Absent \/ ctx[k] \in Terminal
    BY <2>1 DEF Active, JobStates, Terminal, Absent, Card
  <2>2. CASE ctx[k] \in {"Pending", "InProgress", "Stuck"}
    BY <2>2 DEF Active, JobStates, Terminal, Absent, Card
  <2>3. CASE ctx[k] \in {"Completed", "Submitted"}
    BY <2>3 DEF Active, JobStates, Terminal, Absent, Card
  <2> QED BY <2>1, <2>2, <2>3 DEF TypeOK, JobStates, Terminal
<1> QED BY <1>1 DEF JB!OpenCards, ActiveJobs, board

\* Every step of the tasks is a step of the board, or none.
LEMMA BoardStep ==
    IInv /\ [Next]_vars => [JB!BoardNext]_board
<1> SUFFICES ASSUME IInv, [Next]_vars PROVE JB!BoardNext \/ board' = board
  OBVIOUS
<1>a. TypeOK /\ TaskInv
  BY DEF IInv
<1> USE <1>a DEF schedVars, mainVars, dbVars
<1>m. ASSUME NEW j \in Jobs, NEW from, NEW to,
             \A k \in Jobs \ {j} : ctx'[k] = ctx[k] /\ (Live(k)' <=> Live(k)),
             Card(j) \in from, Card(j)' = to
      PROVE  JB!Move(j, from, to)
  BY <1>m, OneCard DEF JB!Move, board
<1>c. ASSUME NEW j \in Jobs, CreateContext(j), UNCHANGED pc PROVE JB!BoardNext
  <2>1. JB!Move(j, {"none"}, "queued")
    BY <1>c, <1>m DEF CreateContext, Card, Live, TypeOK, Absent
  <2>2. Cardinality(JB!OpenCards) < MaxParallelJobs
    BY <1>c, OpenIsActive DEF CreateContext, HasSlot
  <2>3. JB!Add(j)
    BY <2>1, <2>2 DEF JB!Add, JB!Cardinality, JB!IsFiniteSet, Cardinality, IsFiniteSet
  <2> QED BY <2>3 DEF JB!BoardNext
<1>n. ASSUME UNCHANGED <<ctx, pc>> PROVE board' = board
  BY <1>n, NoCard
\* Recovery: Stuck and recovered are both halted.
<1>r. ASSUME NEW j \in Jobs, AttemptRecovery(j), UNCHANGED pc PROVE board' = board
  <2>1. ~Live(j)
    BY <1>r DEF AttemptRecovery, TaskInv, LiveState
  <2>2. Card(j)' = Card(j)
    BY <1>r, <2>1 DEF AttemptRecovery, TransitionTo, Card, Live, TypeOK, Absent
  <2>3. \A k \in Jobs \ {j} : ctx'[k] = ctx[k] /\ (Live(k)' <=> Live(k))
    BY <1>r DEF AttemptRecovery, TransitionTo, Live, TypeOK
  <2> QED BY <2>2, <2>3, OneCard DEF board
<1>1. ASSUME NEW j \in Jobs, CreateJob(j) PROVE JB!BoardNext
  BY <1>1, <1>c DEF CreateJob
<1>2. ASSUME NEW j \in Jobs, ToolCreateJob(j) PROVE JB!BoardNext
  BY <1>2, <1>c DEF ToolCreateJob
<1>3. ASSUME NEW j \in Jobs, HelpJob(j) PROVE board' = board
  BY <1>3, <1>n DEF HelpJob
<1>4. ASSUME NEW j \in Jobs, ToolCancelJob(j) PROVE JB!BoardNext
  <2>1. ctx[j] \in {"Pending", "InProgress", "Stuck"} /\ ctx'[j] = "Cancelled"
    BY <1>4 DEF ToolCancelJob, TransitionTo, CanTransition, Transitions, TypeOK
  <2>2. \A k \in Jobs \ {j} : ctx'[k] = ctx[k] /\ (Live(k)' <=> Live(k))
    BY <1>4 DEF ToolCancelJob, TransitionTo, Live, TypeOK
  <2>3. Live(j)' <=> Live(j)
    BY <1>4 DEF ToolCancelJob, Live
  <2>4. CASE Live(j)
    <3>1. Card(j) = "working" /\ Card(j)' = "stopping"
      BY <2>1, <2>3, <2>4 DEF Card, Absent, TaskInv, LiveState
    <3> QED BY <3>1, <2>2, <1>m DEF JB!BoardNext, JB!AskToStop
  <2>5. CASE ~Live(j)
    <3>1. Card(j) \in {"queued", "working", "halted"} /\ Card(j)' = "cancelled"
      BY <2>1, <2>3, <2>5 DEF Card, Absent
    <3> QED BY <3>1, <2>2, <1>m DEF JB!BoardNext, JB!Cancel
  <2> QED BY <2>4, <2>5
<1>5. ASSUME NEW j \in Jobs, CancelJob(j) PROVE board' = board
  BY <1>5, <1>n DEF CancelJob, StopBegin
<1>6. ASSUME NEW j \in Jobs, QuitStop(j) PROVE board' = board
  BY <1>6, <1>n DEF QuitStop, StopBegin
<1>7. ASSUME NEW j \in Jobs, QuitSkip(j) PROVE board' = board
  BY <1>7, <1>n DEF QuitSkip
<1>8. ASSUME NEW j \in Jobs, Worker(j) PROVE JB!BoardNext \/ board' = board
  <2>1. WorkerEffect(j) /\ Live(j) /\ ctx[j] \in {"InProgress", "Cancelled"}
    BY <1>8, WorkerSteps DEF TaskInv, LiveState, WorkerEffect
  <2>2. \A k \in Jobs \ {j} : ctx'[k] = ctx[k] /\ (Live(k)' <=> Live(k))
    BY <2>1 DEF WorkerEffect, Live, TypeOK
  <2>3. CASE Live(j)'
    <3>1. UNCHANGED ctx
      BY <2>1, <2>3 DEF WorkerEffect, Live
    <3>2. Card(j)' = Card(j)
      BY <2>1, <2>3, <3>1 DEF Card, Absent
    <3> QED BY <2>2, <3>2, OneCard DEF board
  <2>4. CASE ~Live(j)' /\ ctx[j] = "InProgress"
    <3>1. ctx'[j] \in {"InProgress", "Completed", "Failed", "Stuck"}
      BY <2>1, <2>4 DEF WorkerEffect, TypeOK
    <3>2. Card(j) = "working" /\ Card(j)' \in {"completed", "failed", "halted"}
      BY <2>1, <2>4, <3>1 DEF Card, Absent
    <3> QED BY <2>2, <3>2, <1>m DEF JB!BoardNext, JB!Finish
  <2>5. CASE ~Live(j)' /\ ctx[j] = "Cancelled"
    <3>1. ctx'[j] = "Cancelled"
      BY <2>1, <2>5 DEF WorkerEffect
    <3>2. Card(j) = "stopping" /\ Card(j)' = "cancelled"
      BY <2>1, <2>5, <3>1 DEF Card, Absent
    <3> QED BY <2>2, <3>2, <1>m DEF JB!BoardNext, JB!Stopped
  <2> QED BY <2>1, <2>3, <2>4, <2>5
<1>9. ASSUME NEW j \in Jobs, ReaperPoll(j) PROVE board' = board
  BY <1>9, <1>n DEF ReaperPoll
<1>10. ASSUME NEW j \in Jobs, ReaperRemove(j) PROVE board' = board
  BY <1>10, <1>n DEF ReaperRemove
<1>11. CASE Schedule
  <2>1. ASSUME NEW j \in Jobs, j = mainJob, Spawn(j) PROVE JB!BoardNext
    <3>1. ctx[j] = "Pending"
      BY <1>11, <2>1
         DEF Schedule, Spawn, TransitionTo, CanTransition, Transitions, TaskInv, ScheduleInv
    <3>2. ctx'[j] = "InProgress" /\ Live(j)'
      BY <2>1 DEF Spawn, TransitionTo, Live, TypeOK
    <3>3. \A k \in Jobs \ {j} : ctx'[k] = ctx[k] /\ (Live(k)' <=> Live(k))
      BY <2>1 DEF Spawn, TransitionTo, Live, TypeOK
    <3>4. Card(j) = "queued" /\ Card(j)' = "working"
      BY <3>1, <3>2 DEF Card, Absent
    <3> QED BY <3>3, <3>4, <1>m DEF JB!BoardNext, JB!Start
  <2>2. CASE UNCHANGED <<ctx, schedVars>>
    BY <2>2, <1>n
  <2> QED BY <1>11, <2>1, <2>2 DEF Schedule, TypeOK
<1>12. CASE HelpRecover
  BY <1>12, <1>n, <1>r DEF HelpRecover, TypeOK
<1>13. CASE StopFinish
  <2>1. PICK j \in Jobs : j = mainJob
    BY <1>13 DEF StopFinish, TypeOK
  <2>2. ~Live(j)' /\ \A k \in Jobs \ {j} : ctx'[k] = ctx[k] /\ (Live(k)' <=> Live(k))
    BY <1>13, <2>1 DEF StopFinish, TransitionTo, Live, TypeOK
  <2>3. CASE CanTransition(ctx[j], "Cancelled")
    <3>1. ctx[j] \in {"Pending", "InProgress", "Stuck"} /\ ctx'[j] = "Cancelled"
      BY <1>13, <2>1, <2>3 DEF StopFinish, TransitionTo, CanTransition, Transitions, TypeOK
    <3>2. Card(j) \in {"queued", "working", "halted"} /\ Card(j)' = "cancelled"
      BY <2>2, <3>1 DEF Card, Absent
    <3> QED BY <2>2, <3>2, <1>m DEF JB!BoardNext, JB!Cancel
  <2>4. CASE ~CanTransition(ctx[j], "Cancelled")
    <3>1. ctx[j] \notin {"Pending", "InProgress", "Stuck"} /\ UNCHANGED ctx
      BY <1>13, <2>1, <2>4 DEF StopFinish, TransitionTo, CanTransition, Transitions
    <3>2. CASE Live(j)
      <4>1. Card(j) = "stopping" /\ Card(j)' = "cancelled"
        BY <2>2, <3>1, <3>2 DEF Card, Absent, TaskInv, LiveState
      <4> QED BY <2>2, <4>1, <1>m DEF JB!BoardNext, JB!Stopped
    <3>3. CASE ~Live(j)
      <4>1. Card(j)' = Card(j)
        BY <2>2, <3>1, <3>3 DEF Card
      <4> QED BY <2>2, <4>1, OneCard DEF board
    <3> QED BY <3>2, <3>3
  <2> QED BY <2>3, <2>4
<1>14. CASE Quit
  BY <1>14, <1>n DEF Quit
<1>15. CASE Exit
  BY <1>15, <1>n DEF Exit
<1>16. CASE RepairDetect
  BY <1>16, <1>n DEF RepairDetect
<1>17. ASSUME NEW e \in repairQ, RepairStuckJob(e[1], e[2]) PROVE board' = board
  BY <1>17, <1>n, <1>r DEF RepairStuckJob, TypeOK
<1>18. ASSUME NEW w \in writes, ApplyWrite(w) PROVE board' = board
  BY <1>18, <1>n DEF ApplyWrite
<1>19. ASSUME NEW w \in writes, FailWrite(w) PROVE board' = board
  BY <1>19, <1>n DEF FailWrite
<1>20. CASE UNCHANGED vars
  BY <1>20, <1>n DEF vars
<1> QED
  BY <1>1, <1>2, <1>3, <1>4, <1>5, <1>6, <1>7, <1>8, <1>9, <1>10, <1>11, <1>12, <1>13,
     <1>14, <1>15, <1>16, <1>17, <1>18, <1>19, <1>20 DEF Next, Exited

\* The tasks implement the job board: work on a job starts once, at most
\* MaxParallelJobs cards are open, outcomes are final.
THEOREM BoardImplemented == Spec => ImplementsBoard
<1>1. Init => JB!BoardInit
  BY DEF Init, JB!BoardInit, board, Card, Absent
<1>2. IInv /\ [Next]_vars => [JB!BoardNext]_board
  BY BoardStep
<1> QED BY <1>1, <1>2, Invariance, PTL DEF Spec, ImplementsBoard, JB!Board

=============================================================================
