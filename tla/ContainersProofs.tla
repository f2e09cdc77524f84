-------------------------- MODULE ContainersProofs --------------------------
(***************************************************************************)
(* Proofs about Containers, for every set of jobs, any number of crashes,  *)
(* and Docker, database and callers that fail or do not.                   *)
(***************************************************************************)
EXTENDS Containers, TLAPS

\* The places of a caller that is creating a job or waiting for it.
Busy == {"create", "start", "record", "mark", "undo", "wait", "expired"}

\* A job nobody has created was answered for by nobody; while its caller is
\* busy with it, it has a handle and a kind.
CreatorInv ==
    \A j \in Jobs :
       /\ creator[j] = "none" => told[j] = "none"
       /\ creator[j] \in Busy =>
             handle[j] # NoHandle /\ kind[j] # "none" /\ told[j] \notin {"completed", "failed"}

\* Nothing of this process is at work on a job of an earlier one.
OldInv ==
    \A j \in old :
       creator[j] = "done" /\ complete[j] = "none" /\ j \notin tokens /\ \A w \in writes : w.job # j

\* While the process is down there is nothing in memory.
DownInv == ~Up => writes = {} /\ \A j \in Jobs : creator[j] \in {"none", "done"}

\* stop_job is at work only for a cancel, or for a waiter that gave up.
StopInv ==
    \A j \in Jobs :
       /\ stopAt[j]["web"] # "idle" => j \in cancelled
       /\ stopAt[j]["waiter"] # "idle" => creator[j] = "expired"

\* A result in a handle is the one reported, a handler has something to store,
\* and while nobody has stopped the job only a result stops its handle.
ResultInv ==
    \A j \in Jobs :
       /\ handle[j].result \in {"none", reported[j]}
       /\ complete[j] # "none" => reported[j] # "none"
       /\ handle[j].state = "Stopped" =>
             handle[j].result # "none" \/ j \in cancelled \/ creator[j] \in {"expired", "done"}

\* save_sandbox_job writes a new job.
SaveInv == \A w \in writes : w.op = "save" => w.status = "creating"

-----------------------------------------------------------------------------
(* The inductive step, part by part. *)

\* What the handlers make of an entry of the map is an entry again.
LEMMA HandleFacts ==
    ASSUME TypeOK, NEW j \in Jobs, handle[j] # NoHandle, NEW r \in Results \cup {"none"}
    PROVE  /\ handle[j] \in Handle
           /\ [handle[j] EXCEPT !.state = "Stopped"] \in Handle
           /\ [handle[j] EXCEPT !.result = r, !.state = "Stopped"] \in Handle
           /\ [handle[j] EXCEPT !.cid = TRUE, !.state = "Running"] \in Handle
<1>1. handle[j] \in Handle
  BY DEF TypeOK
<1> QED BY <1>1 DEF Handle, Results

\* An entry is not the missing one.
LEMMA HandleThere == \A h \in Handle : h # NoHandle
  BY DEF Handle, NoHandle

\* Every step keeps the types; a caller that records its container has a kind.
LEMMA TypeStep == TypeOK /\ CreatorInv /\ [Next]_vars => TypeOK'
<1> SUFFICES ASSUME TypeOK, CreatorInv, [Next]_vars PROVE TypeOK'
  OBVIOUS
<1> USE ContainersAssumption
    DEF TypeOK, CreatorInv, Busy, Handle, NoHandle, Stoppers, Results, Statuses, Write, Absent, Up, memVars, histVars, procVars
<1>1. ASSUME NEW j \in Jobs, ToolCreate(j) PROVE TypeOK'
  BY <1>1 DEF ToolCreate, CreateJob, Persist
<1>2. ASSUME NEW j \in Jobs, WebRestart(j) PROVE TypeOK'
  BY <1>2 DEF WebRestart, CreateJob
<1>3. ASSUME NEW j \in Jobs, DockerCreate(j) PROVE TypeOK'
  <2>1. creator' \in [Jobs -> {"none"} \cup Busy \cup {"done"}]
    BY <1>3 DEF DockerCreate, CreatorGoto
  <2>2. docker' = docker \/ docker' = [docker EXCEPT ![j] = "created"]
    BY <1>3 DEF DockerCreate
  <2>3. UNCHANGED <<handle, tokens, kind, told, complete, stopAt, reported, db, writes, histVars, procVars>>
    BY <1>3 DEF DockerCreate
  <2> HIDE DEF Handle, NoHandle, Write, Statuses
  <2> QED BY <2>1, <2>2, <2>3
<1>4. ASSUME NEW j \in Jobs, DockerStart(j) PROVE TypeOK'
  BY <1>4 DEF DockerStart, CreatorGoto
<1>5. ASSUME NEW j \in Jobs, Record(j) PROVE TypeOK'
  <2>1. handle' \in [Jobs -> Handle \cup {NoHandle}]
    <3>1. CASE handle[j] = NoHandle
      BY <1>5, <3>1 DEF Record
    <3>2. CASE handle[j] # NoHandle
      <4>1. handle' = [handle EXCEPT ![j] = [handle[j] EXCEPT !.cid = TRUE, !.state = "Running"]]
        BY <1>5, <3>2 DEF Record
      <4>2. [handle[j] EXCEPT !.cid = TRUE, !.state = "Running"] \in Handle
        BY <3>2, HandleFacts
      <4> HIDE DEF Handle, NoHandle
      <4> QED BY <4>1, <4>2
    <3> QED BY <3>1, <3>2
  <2>2. kind[j] \in {"restart", "nowait", "wait"}
    BY <1>5 DEF Record
  <2>3. /\ told' \in [Jobs -> {"none", "started", "completed", "failed"}]
        /\ writes' \subseteq Write
        /\ creator' \in [Jobs -> {"none"} \cup Busy \cup {"done"}]
    <3> HIDE DEF Handle, NoHandle
    <3>1. CASE kind[j] = "restart"
      BY <1>5, <3>1 DEF Record, CreatorGoto
    <3>2. CASE kind[j] = "nowait"
      BY <1>5, <3>2, SMTT(30), ZenonT(30) DEF Record, CreatorGoto, Persist
    <3>3. CASE kind[j] = "wait"
      <4>1. CreatorGoto(j, "wait") /\ Persist(j, "update", "running") /\ UNCHANGED told
        BY <1>5, <3>3 DEF Record
      <4> QED BY <4>1 DEF CreatorGoto, Persist
    <3> QED BY <2>2, <3>1, <3>2, <3>3
  <2>4. UNCHANGED <<tokens, kind, complete, stopAt, docker, reported, db, histVars, procVars>>
    BY <1>5 DEF Record
  <2> QED BY <2>1, <2>3, <2>4
<1>6. ASSUME NEW j \in Jobs, WebMarkRunning(j) PROVE TypeOK'
  BY <1>6, SMTT(30), ZenonT(30) DEF WebMarkRunning, SyncUpdate, Updated, CreatorGoto
<1>7. ASSUME NEW j \in Jobs, Undo(j) PROVE TypeOK'
  BY <1>7 DEF Undo, Persist, CreatorGoto
<1>8. ASSUME NEW j \in Jobs, WorkerExits(j) PROVE TypeOK'
  BY <1>8 DEF WorkerExits
<1>9. ASSUME NEW j \in Jobs, WorkerReports(j) PROVE TypeOK'
  BY <1>9 DEF WorkerReports, TokenValid
<1>10. ASSUME NEW j \in Jobs, CompleteStore(j) PROVE TypeOK'
  <2>1. handle' \in [Jobs -> Handle \cup {NoHandle}]
    <3>1. CASE handle[j] = NoHandle
      BY <1>10, <3>1 DEF CompleteStore
    <3>2. CASE handle[j] # NoHandle
      <4>1. handle' = [handle EXCEPT ![j] = [handle[j] EXCEPT !.result = reported[j], !.state = "Stopped"]]
        BY <1>10, <3>2 DEF CompleteStore
      <4>2. [handle[j] EXCEPT !.result = reported[j], !.state = "Stopped"] \in Handle
        <5>1. reported[j] \in Results \cup {"none"}
          OBVIOUS
        <5> HIDE DEF Handle, NoHandle, Results
        <5> QED BY <3>2, <5>1, HandleFacts
      <4> HIDE DEF Handle, NoHandle
      <4> QED BY <4>1, <4>2
    <3> QED BY <3>1, <3>2
  <2> HIDE DEF Handle, NoHandle
  <2> QED BY <1>10, <2>1 DEF CompleteStore, CompleteGoto
<1>11. ASSUME NEW j \in Jobs, CompleteStop(j) PROVE TypeOK'
  BY <1>11 DEF CompleteStop, AfterStop, CompleteGoto
<1>12. ASSUME NEW j \in Jobs, CompleteRevoke(j) PROVE TypeOK'
  BY <1>12 DEF CompleteRevoke, CompleteGoto
<1>13. ASSUME NEW j \in Jobs, WebCancel(j) PROVE TypeOK'
  BY <1>13 DEF WebCancel, StopGoto, StopFirst
<1>14. ASSUME NEW j \in Jobs, WebCancelEnd(j) PROVE TypeOK'
  BY <1>14 DEF WebCancelEnd, SyncUpdate, Updated, StopGoto
<1>15. ASSUME NEW j \in Jobs, WaiterPoll(j) PROVE TypeOK'
  BY <1>15 DEF WaiterPoll, Answer, Persist, CreatorGoto
<1>16. ASSUME NEW j \in Jobs, WaiterExpire(j) PROVE TypeOK'
  BY <1>16 DEF WaiterExpire, CreatorGoto, StopGoto, StopFirst
<1>17. ASSUME NEW j \in Jobs, WaiterExpired(j) PROVE TypeOK'
  BY <1>17 DEF WaiterExpired, StopGoto, Answer, Persist, CreatorGoto
<1>18. ASSUME NEW j \in Jobs, Dropped(j) PROVE TypeOK'
  BY <1>18 DEF Dropped, CreatorGoto, StopGoto
<1>19. ASSUME NEW j \in Jobs, CancelDropped(j) PROVE TypeOK'
  BY <1>19 DEF CancelDropped, StopGoto
<1>20. ASSUME NEW j \in Jobs, CompleteDropped(j) PROVE TypeOK'
  BY <1>20 DEF CompleteDropped, CompleteGoto
<1>21. ASSUME NEW j \in Jobs, NEW s \in Stoppers, StopDocker(j, s) PROVE TypeOK'
  <2>1. docker' \in [Jobs -> {"none", "created", "up", "exited", "removed"}]
    BY <1>21 DEF StopDocker, AfterStop
  <2>2. stopAt' \in [Jobs -> [Stoppers -> {"idle", "docker", "mark", "revoke", "over"}]]
    <3>1. PICK at \in {"mark", "over"} : StopGoto(j, s, at)
      BY <1>21 DEF StopDocker
    <3> QED BY <3>1 DEF StopGoto
  <2> HIDE DEF Handle
  <2> QED BY <1>21, <2>1, <2>2 DEF StopDocker
<1>22. ASSUME NEW j \in Jobs, NEW s \in Stoppers, StopMark(j, s) PROVE TypeOK'
  <2>1. handle' \in [Jobs -> Handle \cup {NoHandle}]
    <3>1. CASE handle[j] = NoHandle
      BY <1>22, <3>1 DEF StopMark
    <3>2. CASE handle[j] # NoHandle
      <4>1. handle' = [handle EXCEPT ![j] = [handle[j] EXCEPT !.state = "Stopped"]]
        BY <1>22, <3>2 DEF StopMark
      <4>2. [handle[j] EXCEPT !.state = "Stopped"] \in Handle
        BY <3>2, HandleFacts
      <4> HIDE DEF Handle, NoHandle
      <4> QED BY <4>1, <4>2
    <3> QED BY <3>1, <3>2
  <2> HIDE DEF Handle, NoHandle
  <2> QED BY <1>22, <2>1 DEF StopMark, StopGoto
<1>23. ASSUME NEW j \in Jobs, NEW s \in Stoppers, StopRevoke(j, s) PROVE TypeOK'
  BY <1>23 DEF StopRevoke, StopGoto
<1>24. ASSUME NEW w \in writes, ApplyWrite(w) PROVE TypeOK'
  BY <1>24 DEF ApplyWrite, Updated
<1>25. ASSUME NEW w \in writes, FailWrite(w) PROVE TypeOK'
  BY <1>25 DEF FailWrite
<1>26. CASE Crash
  BY <1>26 DEF Crash, Created
<1>27. CASE Boot
  <2>1. db' \in [Jobs -> Statuses \cup {Absent}]
    BY <1>27 DEF Boot
  <2>2. swept' \in BOOLEAN
    BY <1>27 DEF Boot
  <2> HIDE DEF Handle
  <2> QED BY <1>27, <2>1, <2>2 DEF Boot
<1>28. CASE UNCHANGED vars
  BY <1>28 DEF vars
<1> HIDE DEF TypeOK
<1> QED
  BY <1>1, <1>2, <1>3, <1>4, <1>5, <1>6, <1>7, <1>8, <1>9, <1>10, <1>11, <1>12, <1>13, <1>14,
     <1>15, <1>16, <1>17, <1>18, <1>19, <1>20, <1>21, <1>22, <1>23, <1>24, <1>25, <1>26, <1>27, <1>28
     DEF Next, Creating, Completing, Waiting, StopJob

\* Recording the container, storing a result and stopping change entries of the
\* map, and neither add nor remove one.
LEMMA EntriesStay ==
    ASSUME TypeOK, NEW j \in Jobs, Record(j) \/ CompleteStore(j) \/ \E s \in Stoppers : StopMark(j, s)
    PROVE  \A k \in Jobs : handle'[k] = NoHandle <=> handle[k] = NoHandle
<1>1. CASE handle[j] = NoHandle
  BY <1>1 DEF Record, CompleteStore, StopMark
<1>2. CASE handle[j] # NoHandle
  <2>1. reported[j] \in Results \cup {"none"}
    BY DEF TypeOK
  <2>2. \E h \in Handle : handle' = [handle EXCEPT ![j] = h]
    <3>1. CASE Record(j)
      <4>1. handle' = [handle EXCEPT ![j] = [handle[j] EXCEPT !.cid = TRUE, !.state = "Running"]]
        BY <1>2, <3>1 DEF Record, TypeOK
      <4> QED BY <1>2, <4>1, HandleFacts
    <3>2. CASE CompleteStore(j)
      <4>1. handle' = [handle EXCEPT ![j] = [handle[j] EXCEPT !.result = reported[j], !.state = "Stopped"]]
        BY <1>2, <3>2 DEF CompleteStore, TypeOK
      <4> QED BY <1>2, <2>1, <4>1, HandleFacts
    <3>3. CASE \E s \in Stoppers : StopMark(j, s)
      <4>1. handle' = [handle EXCEPT ![j] = [handle[j] EXCEPT !.state = "Stopped"]]
        BY <1>2, <3>3 DEF StopMark, TypeOK
      <4> QED BY <1>2, <4>1, HandleFacts
    <3> QED BY <3>1, <3>2, <3>3
  <2> QED BY <1>2, <2>2, HandleThere DEF TypeOK
<1> QED BY <1>1, <1>2

\* What recording a container does beside the map, for each kind of caller.
LEMMA RecordOutcome ==
    ASSUME TypeOK, CreatorInv, NEW j \in Jobs, Record(j)
    PROVE  /\ Up /\ creator[j] = "record"
           /\ UNCHANGED <<tokens, kind, complete, stopAt, docker, reported, db, histVars, procVars>>
           /\ \E at \in {"mark", "wait", "done"} : creator' = [creator EXCEPT ![j] = at]
           /\ \/ told' = told
              \/ told' = [told EXCEPT ![j] = "started"]
           /\ \/ writes' = writes
              \/ writes' = writes \cup {[job |-> j, op |-> "update", status |-> "running"]}
<1>1. /\ Up /\ creator[j] = "record"
      /\ UNCHANGED <<tokens, kind, complete, stopAt, docker, reported, db, histVars, procVars>>
  BY DEF Record
<1>2. kind[j] \in {"restart", "nowait", "wait"}
  BY <1>1 DEF TypeOK, CreatorInv, Busy
<1>3. CASE kind[j] = "restart"
  BY <1>1, <1>3 DEF Record, CreatorGoto
<1>4. CASE kind[j] = "nowait"
  BY <1>1, <1>4 DEF Record, CreatorGoto, Persist
<1>5. CASE kind[j] = "wait"
  BY <1>1, <1>5 DEF Record, CreatorGoto, Persist
<1> QED BY <1>2, <1>3, <1>4, <1>5

\* The entry a job starts with is one.
LEMMA EntryOfNewJob == [cid |-> FALSE, state |-> "Creating", result |-> "none"] # NoHandle
  BY DEF NoHandle

\* What callers, stop_job and the process say about each other.
TaskInv == CreatorInv /\ OldInv /\ DownInv /\ StopInv /\ AnsweredIsForgotten

\* Handles come with their callers and go with their answers; a crash takes
\* everything of the jobs it makes old.
LEMMA TaskStep == TypeOK /\ TaskInv /\ [Next]_vars => TaskInv'
<1> SUFFICES ASSUME TypeOK, TaskInv, [Next]_vars PROVE TaskInv'
  OBVIOUS
<1> USE DEF TypeOK, TaskInv, CreatorInv, OldInv, DownInv, StopInv, AnsweredIsForgotten, Busy,
        Stoppers, Write, Up, memVars, histVars, procVars
<1>1. ASSUME NEW j \in Jobs, ToolCreate(j) PROVE TaskInv'
  BY <1>1, EntryOfNewJob DEF ToolCreate, CreateJob, Persist
<1>2. ASSUME NEW j \in Jobs, WebRestart(j) PROVE TaskInv'
  BY <1>2, EntryOfNewJob DEF WebRestart, CreateJob
<1>3. ASSUME NEW j \in Jobs, DockerCreate(j) PROVE TaskInv'
  BY <1>3 DEF DockerCreate, CreatorGoto
<1>4. ASSUME NEW j \in Jobs, DockerStart(j) PROVE TaskInv'
  BY <1>4 DEF DockerStart, CreatorGoto
<1>5. ASSUME NEW j \in Jobs, Record(j) PROVE TaskInv'
  <2>1. \A k \in Jobs : handle'[k] = NoHandle <=> handle[k] = NoHandle
    BY <1>5, EntriesStay
  <2> QED BY <1>5, <2>1, RecordOutcome
<1>6. ASSUME NEW j \in Jobs, WebMarkRunning(j) PROVE TaskInv'
  BY <1>6 DEF WebMarkRunning, SyncUpdate, Updated, CreatorGoto
<1>7. ASSUME NEW j \in Jobs, Undo(j) PROVE TaskInv'
  BY <1>7 DEF Undo, Persist, CreatorGoto
<1>8. ASSUME NEW j \in Jobs, WorkerExits(j) PROVE TaskInv'
  BY <1>8 DEF WorkerExits
<1>9. ASSUME NEW j \in Jobs, WorkerReports(j) PROVE TaskInv'
  BY <1>9 DEF WorkerReports, TokenValid
<1>10. ASSUME NEW j \in Jobs, CompleteStore(j) PROVE TaskInv'
  <2>1. \A k \in Jobs : handle'[k] = NoHandle <=> handle[k] = NoHandle
    BY <1>10, EntriesStay
  <2> QED BY <1>10, <2>1 DEF CompleteStore, CompleteGoto
<1>11. ASSUME NEW j \in Jobs, CompleteStop(j) PROVE TaskInv'
  BY <1>11 DEF CompleteStop, AfterStop, CompleteGoto
<1>12. ASSUME NEW j \in Jobs, CompleteRevoke(j) PROVE TaskInv'
  BY <1>12 DEF CompleteRevoke, CompleteGoto
<1>13. ASSUME NEW j \in Jobs, WebCancel(j) PROVE TaskInv'
  BY <1>13 DEF WebCancel, StopGoto, StopFirst
<1>14. ASSUME NEW j \in Jobs, WebCancelEnd(j) PROVE TaskInv'
  BY <1>14 DEF WebCancelEnd, SyncUpdate, Updated, StopGoto
<1>15. ASSUME NEW j \in Jobs, WaiterPoll(j) PROVE TaskInv'
  BY <1>15 DEF WaiterPoll, Answer, Persist, CreatorGoto
<1>16. ASSUME NEW j \in Jobs, WaiterExpire(j) PROVE TaskInv'
  BY <1>16 DEF WaiterExpire, CreatorGoto, StopGoto, StopFirst
<1>17. ASSUME NEW j \in Jobs, WaiterExpired(j) PROVE TaskInv'
  BY <1>17 DEF WaiterExpired, StopGoto, Answer, Persist, CreatorGoto
<1>18. ASSUME NEW j \in Jobs, Dropped(j) PROVE TaskInv'
  BY <1>18 DEF Dropped, CreatorGoto, StopGoto
<1>19. ASSUME NEW j \in Jobs, CancelDropped(j) PROVE TaskInv'
  BY <1>19 DEF CancelDropped, StopGoto
<1>20. ASSUME NEW j \in Jobs, CompleteDropped(j) PROVE TaskInv'
  BY <1>20 DEF CompleteDropped, CompleteGoto
<1>21. ASSUME NEW j \in Jobs, NEW s \in Stoppers, StopDocker(j, s) PROVE TaskInv'
  <2>1. PICK at \in {"mark", "over"} : StopGoto(j, s, at)
    BY <1>21 DEF StopDocker
  <2> QED BY <1>21, <2>1 DEF StopDocker, StopGoto
<1>22. ASSUME NEW j \in Jobs, NEW s \in Stoppers, StopMark(j, s) PROVE TaskInv'
  <2>1. \A k \in Jobs : handle'[k] = NoHandle <=> handle[k] = NoHandle
    BY <1>22, EntriesStay
  <2> QED BY <1>22, <2>1 DEF StopMark, StopGoto
<1>23. ASSUME NEW j \in Jobs, NEW s \in Stoppers, StopRevoke(j, s) PROVE TaskInv'
  BY <1>23 DEF StopRevoke, StopGoto
<1>24. ASSUME NEW w \in writes, ApplyWrite(w) PROVE TaskInv'
  BY <1>24 DEF ApplyWrite, Updated
<1>25. ASSUME NEW w \in writes, FailWrite(w) PROVE TaskInv'
  BY <1>25 DEF FailWrite
<1>26. CASE Crash
  BY <1>26 DEF Crash, Created
<1>27. CASE Boot
  BY <1>27 DEF Boot, StaleStatuses
<1>28. CASE UNCHANGED vars
  BY <1>28 DEF vars
<1> HIDE DEF TaskInv
<1> QED
  BY <1>1, <1>2, <1>3, <1>4, <1>5, <1>6, <1>7, <1>8, <1>9, <1>10, <1>11, <1>12, <1>13, <1>14,
     <1>15, <1>16, <1>17, <1>18, <1>19, <1>20, <1>21, <1>22, <1>23, <1>24, <1>25, <1>26, <1>27, <1>28
     DEF Next, Creating, Completing, Waiting, StopJob

\* What results, reports and spawned writes say about each other.
OutcomeInv == ResultInv /\ SaveInv /\ CompletedIsReported

\* A result travels from the report through the handle, the answer and the
\* write into the row; only a cancel makes a stopped handle without a result.
LEMMA OutcomeStep == TypeOK /\ TaskInv /\ OutcomeInv /\ [Next]_vars => OutcomeInv'
<1> SUFFICES ASSUME TypeOK, TaskInv, OutcomeInv, [Next]_vars PROVE OutcomeInv'
  OBVIOUS
<1> USE DEF TypeOK, TaskInv, CreatorInv, StopInv, OutcomeInv, ResultInv, SaveInv, CompletedIsReported,
        Busy, Handle, NoHandle, Stoppers, Results, Statuses, Write, Absent, Up, memVars, histVars, procVars
<1>1. ASSUME NEW j \in Jobs, ToolCreate(j) PROVE OutcomeInv'
  BY <1>1 DEF ToolCreate, CreateJob, Persist
<1>2. ASSUME NEW j \in Jobs, WebRestart(j) PROVE OutcomeInv'
  BY <1>2 DEF WebRestart, CreateJob
<1>3. ASSUME NEW j \in Jobs, DockerCreate(j) PROVE OutcomeInv'
  <2>1. PICK at \in {"start", "undo"} : CreatorGoto(j, at)
    BY <1>3 DEF DockerCreate
  <2> HIDE DEF Handle, NoHandle
  <2> QED BY <1>3, <2>1 DEF DockerCreate, CreatorGoto
<1>4. ASSUME NEW j \in Jobs, DockerStart(j) PROVE OutcomeInv'
  <2>1. PICK at \in {"record", "undo"} : CreatorGoto(j, at)
    BY <1>4 DEF DockerStart
  <2> HIDE DEF Handle, NoHandle
  <2> QED BY <1>4, <2>1 DEF DockerStart, CreatorGoto
<1>5. ASSUME NEW j \in Jobs, Record(j) PROVE OutcomeInv'
  <2>1. \A k \in Jobs :
           /\ handle'[k].result = handle[k].result
           /\ handle'[k].state = "Stopped" => handle[k].state = "Stopped"
    BY <1>5 DEF Record
  <2> HIDE DEF Handle, NoHandle
  <2>2. ResultInv'
    <3>1. PICK at \in {"mark", "wait", "done"} : creator' = [creator EXCEPT ![j] = at]
      BY <1>5, RecordOutcome
    <3>2. creator[j] = "record" /\ UNCHANGED <<reported, complete, cancelled>>
      BY <1>5, RecordOutcome
    <3> QED BY <2>1, <3>1, <3>2
  <2>3. (SaveInv /\ CompletedIsReported)'
    BY <1>5, RecordOutcome, SMTT(30), ZenonT(30)
  <2> QED BY <2>2, <2>3
<1>6. ASSUME NEW j \in Jobs, WebMarkRunning(j) PROVE OutcomeInv'
  BY <1>6 DEF WebMarkRunning, SyncUpdate, Updated, CreatorGoto
<1>7. ASSUME NEW j \in Jobs, Undo(j) PROVE OutcomeInv'
  BY <1>7 DEF Undo, Persist, CreatorGoto
<1>8. ASSUME NEW j \in Jobs, WorkerExits(j) PROVE OutcomeInv'
  BY <1>8 DEF WorkerExits
<1>9. ASSUME NEW j \in Jobs, WorkerReports(j) PROVE OutcomeInv'
  BY <1>9 DEF WorkerReports, TokenValid
<1>10. ASSUME NEW j \in Jobs, CompleteStore(j) PROVE OutcomeInv'
  BY <1>10 DEF CompleteStore, CompleteGoto
<1>11. ASSUME NEW j \in Jobs, CompleteStop(j) PROVE OutcomeInv'
  BY <1>11 DEF CompleteStop, AfterStop, CompleteGoto
<1>12. ASSUME NEW j \in Jobs, CompleteRevoke(j) PROVE OutcomeInv'
  BY <1>12 DEF CompleteRevoke, CompleteGoto
<1>13. ASSUME NEW j \in Jobs, WebCancel(j) PROVE OutcomeInv'
  BY <1>13 DEF WebCancel, StopGoto, StopFirst
<1>14. ASSUME NEW j \in Jobs, WebCancelEnd(j) PROVE OutcomeInv'
  BY <1>14 DEF WebCancelEnd, SyncUpdate, Updated, StopGoto
<1>15. ASSUME NEW j \in Jobs, WaiterPoll(j) PROVE OutcomeInv'
  BY <1>15 DEF WaiterPoll, Answer, Persist, CreatorGoto
<1>16. ASSUME NEW j \in Jobs, WaiterExpire(j) PROVE OutcomeInv'
  BY <1>16 DEF WaiterExpire, CreatorGoto, StopGoto, StopFirst
<1>17. ASSUME NEW j \in Jobs, WaiterExpired(j) PROVE OutcomeInv'
  BY <1>17 DEF WaiterExpired, StopGoto, Answer, Persist, CreatorGoto
<1>18. ASSUME NEW j \in Jobs, Dropped(j) PROVE OutcomeInv'
  BY <1>18 DEF Dropped, CreatorGoto, StopGoto
<1>19. ASSUME NEW j \in Jobs, CancelDropped(j) PROVE OutcomeInv'
  BY <1>19 DEF CancelDropped, StopGoto
<1>20. ASSUME NEW j \in Jobs, CompleteDropped(j) PROVE OutcomeInv'
  BY <1>20 DEF CompleteDropped, CompleteGoto
<1>21. ASSUME NEW j \in Jobs, NEW s \in Stoppers, StopDocker(j, s) PROVE OutcomeInv'
  BY <1>21 DEF StopDocker, AfterStop, StopGoto
<1>22. ASSUME NEW j \in Jobs, NEW s \in Stoppers, StopMark(j, s) PROVE OutcomeInv'
  BY <1>22 DEF StopMark, StopGoto
<1>23. ASSUME NEW j \in Jobs, NEW s \in Stoppers, StopRevoke(j, s) PROVE OutcomeInv'
  BY <1>23 DEF StopRevoke, StopGoto
<1>24. ASSUME NEW w \in writes, ApplyWrite(w) PROVE OutcomeInv'
  BY <1>24 DEF ApplyWrite, Updated
<1>25. ASSUME NEW w \in writes, FailWrite(w) PROVE OutcomeInv'
  BY <1>25 DEF FailWrite
<1>26. CASE Crash
  BY <1>26 DEF Crash, Created
<1>27. CASE Boot
  BY <1>27 DEF Boot, StaleStatuses
<1>28. CASE UNCHANGED vars
  BY <1>28 DEF vars
<1> HIDE DEF OutcomeInv
<1> QED
  BY <1>1, <1>2, <1>3, <1>4, <1>5, <1>6, <1>7, <1>8, <1>9, <1>10, <1>11, <1>12, <1>13, <1>14,
     <1>15, <1>16, <1>17, <1>18, <1>19, <1>20, <1>21, <1>22, <1>23, <1>24, <1>25, <1>26, <1>27, <1>28
     DEF Next, Creating, Completing, Waiting, StopJob

\* No step after a sweep writes the row of an old job but to call it failed.
LEMMA SweepStep == TypeOK /\ TaskInv /\ StaleRowsSwept /\ [Next]_vars => StaleRowsSwept'
<1> SUFFICES ASSUME TypeOK, TaskInv, StaleRowsSwept, [Next]_vars PROVE StaleRowsSwept'
  OBVIOUS
<1> USE DEF TypeOK, TaskInv, OldInv, DownInv, StaleRowsSwept, Statuses, Write, Absent, Up, memVars, histVars, procVars
<1>1. ASSUME NEW j \in Jobs, ToolCreate(j) PROVE StaleRowsSwept'
  BY <1>1 DEF ToolCreate, CreateJob, Persist
<1>2. ASSUME NEW j \in Jobs, WebRestart(j) PROVE StaleRowsSwept'
  BY <1>2 DEF WebRestart, CreateJob
<1>3. ASSUME NEW j \in Jobs, DockerCreate(j) PROVE StaleRowsSwept'
  BY <1>3 DEF DockerCreate, CreatorGoto
<1>4. ASSUME NEW j \in Jobs, DockerStart(j) PROVE StaleRowsSwept'
  BY <1>4 DEF DockerStart, CreatorGoto
<1>5. ASSUME NEW j \in Jobs, Record(j) PROVE StaleRowsSwept'
  BY <1>5 DEF Record, CreatorGoto, Persist
<1>6. ASSUME NEW j \in Jobs, WebMarkRunning(j) PROVE StaleRowsSwept'
  BY <1>6 DEF WebMarkRunning, SyncUpdate, Updated, CreatorGoto
<1>7. ASSUME NEW j \in Jobs, Undo(j) PROVE StaleRowsSwept'
  BY <1>7 DEF Undo, Persist, CreatorGoto
<1>8. ASSUME NEW j \in Jobs, WorkerExits(j) PROVE StaleRowsSwept'
  BY <1>8 DEF WorkerExits
<1>9. ASSUME NEW j \in Jobs, WorkerReports(j) PROVE StaleRowsSwept'
  BY <1>9 DEF WorkerReports, TokenValid
<1>10. ASSUME NEW j \in Jobs, CompleteStore(j) PROVE StaleRowsSwept'
  BY <1>10 DEF CompleteStore, CompleteGoto
<1>11. ASSUME NEW j \in Jobs, CompleteStop(j) PROVE StaleRowsSwept'
  BY <1>11 DEF CompleteStop, AfterStop, CompleteGoto
<1>12. ASSUME NEW j \in Jobs, CompleteRevoke(j) PROVE StaleRowsSwept'
  BY <1>12 DEF CompleteRevoke, CompleteGoto
<1>13. ASSUME NEW j \in Jobs, WebCancel(j) PROVE StaleRowsSwept'
  BY <1>13 DEF WebCancel, StopGoto, StopFirst
<1>14. ASSUME NEW j \in Jobs, WebCancelEnd(j) PROVE StaleRowsSwept'
  BY <1>14 DEF WebCancelEnd, SyncUpdate, Updated, StopGoto
<1>15. ASSUME NEW j \in Jobs, WaiterPoll(j) PROVE StaleRowsSwept'
  BY <1>15 DEF WaiterPoll, Answer, Persist, CreatorGoto
<1>16. ASSUME NEW j \in Jobs, WaiterExpire(j) PROVE StaleRowsSwept'
  BY <1>16 DEF WaiterExpire, CreatorGoto, StopGoto, StopFirst
<1>17. ASSUME NEW j \in Jobs, WaiterExpired(j) PROVE StaleRowsSwept'
  BY <1>17 DEF WaiterExpired, StopGoto, Answer, Persist, CreatorGoto
<1>18. ASSUME NEW j \in Jobs, Dropped(j) PROVE StaleRowsSwept'
  BY <1>18 DEF Dropped, CreatorGoto, StopGoto
<1>19. ASSUME NEW j \in Jobs, CancelDropped(j) PROVE StaleRowsSwept'
  BY <1>19 DEF CancelDropped, StopGoto
<1>20. ASSUME NEW j \in Jobs, CompleteDropped(j) PROVE StaleRowsSwept'
  BY <1>20 DEF CompleteDropped, CompleteGoto
<1>21. ASSUME NEW j \in Jobs, NEW s \in Stoppers, StopDocker(j, s) PROVE StaleRowsSwept'
  BY <1>21 DEF StopDocker, AfterStop, StopGoto
<1>22. ASSUME NEW j \in Jobs, NEW s \in Stoppers, StopMark(j, s) PROVE StaleRowsSwept'
  BY <1>22 DEF StopMark, StopGoto
<1>23. ASSUME NEW j \in Jobs, NEW s \in Stoppers, StopRevoke(j, s) PROVE StaleRowsSwept'
  BY <1>23 DEF StopRevoke, StopGoto
<1>24. ASSUME NEW w \in writes, ApplyWrite(w) PROVE StaleRowsSwept'
  BY <1>24 DEF ApplyWrite, Updated
<1>25. ASSUME NEW w \in writes, FailWrite(w) PROVE StaleRowsSwept'
  BY <1>25 DEF FailWrite
<1>26. CASE Crash
  BY <1>26 DEF Crash, Created
<1>27. CASE Boot
  BY <1>27 DEF Boot, StaleStatuses
<1>28. CASE UNCHANGED vars
  BY <1>28 DEF vars
<1> HIDE DEF StaleRowsSwept
<1> QED
  BY <1>1, <1>2, <1>3, <1>4, <1>5, <1>6, <1>7, <1>8, <1>9, <1>10, <1>11, <1>12, <1>13, <1>14,
     <1>15, <1>16, <1>17, <1>18, <1>19, <1>20, <1>21, <1>22, <1>23, <1>24, <1>25, <1>26, <1>27, <1>28
     DEF Next, Creating, Completing, Waiting, StopJob

-----------------------------------------------------------------------------
(* The theorems. *)

\* The inductive invariant of the sandboxed jobs.
IInv == TypeOK /\ TaskInv /\ OutcomeInv /\ StaleRowsSwept

\* It holds in every reachable state.
THEOREM Invariance == Spec => []IInv
<1>1. Init => IInv
  <2> SUFFICES ASSUME Init PROVE IInv
    OBVIOUS
  <2> USE ContainersAssumption DEF Init
  <2>1. TypeOK
    BY DEF TypeOK, Handle, NoHandle, Stoppers, Results, Statuses, Write, Absent
  <2>2. TaskInv
    BY DEF TaskInv, CreatorInv, OldInv, DownInv, StopInv, AnsweredIsForgotten, Busy, Stoppers, Up
  <2>3. OutcomeInv
    BY DEF OutcomeInv, ResultInv, SaveInv, CompletedIsReported, NoHandle, Absent
  <2>4. StaleRowsSwept
    BY DEF StaleRowsSwept
  <2> QED BY <2>1, <2>2, <2>3, <2>4 DEF IInv
<1>2. IInv /\ [Next]_vars => IInv'
  BY TypeStep, TaskStep, OutcomeStep, SweepStep DEF IInv, TaskInv
<1> QED BY <1>1, <1>2, PTL DEF Spec

\* Every variable keeps its type.
THEOREM TypeCorrect == Spec => []TypeOK
<1>1. IInv => TypeOK
  BY DEF IInv
<1> QED BY <1>1, Invariance, PTL

\* Nothing is called completed whose worker did not report success, unless the
\* user cancelled it.
THEOREM CompletionIsGenuine == Spec => []CompletedIsReported
<1>1. IInv => CompletedIsReported
  BY DEF IInv, OutcomeInv
<1> QED BY <1>1, Invariance, PTL

\* No handler that is still at work brings back the handle of a job that the
\* tool has answered for.
THEOREM HandlesStayGone == Spec => []AnsweredIsForgotten
<1>1. IInv => AnsweredIsForgotten
  BY DEF IInv, TaskInv
<1> QED BY <1>1, Invariance, PTL

\* No container of an earlier process gets a report through to this one.
THEOREM OldContainersShutOut == Spec => []OldWorkersShutOut
<1>1. IInv => OldWorkersShutOut
  BY DEF IInv, TaskInv, OldInv, OldWorkersShutOut
<1> QED BY <1>1, Invariance, PTL

\* After a successful sweep no row of an earlier process says that it runs.
THEOREM SweepIsComplete == Spec => []StaleRowsSwept
<1>1. IInv => StaleRowsSwept
  BY DEF IInv
<1> QED BY <1>1, Invariance, PTL

=============================================================================
