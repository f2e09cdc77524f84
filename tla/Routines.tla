------------------------------ MODULE Routines ------------------------------
(***************************************************************************)
(* The routine engine: the cron ticker, the check of incoming messages     *)
(* against the cached event routines, the runs the two fire, the tools and *)
(* web handlers that change routines behind their backs, and crashes.      *)
(*                                                                         *)
(* Every action is a stretch of one task between two awaits.  A time of    *)
(* the code is a distance from now that Tick moves: how long ago a run     *)
(* ended, up to Cooldown (which also stands for "never"), and how long     *)
(* until the next fire, down to 0.  What a run does is left out, and with  *)
(* it its result, its notification and the counters nothing reads.         *)
(***************************************************************************)
EXTENDS Integers, FiniteSets

CONSTANTS
    RoutineIds,               \* ids Uuid::new_v4 may draw for routines
    Runs,                     \* bound: run ids in use at a time
    MaxConcurrentRoutines,    \* RoutineConfig.max_concurrent_routines
    MaxConcurrent,            \* guardrails.max_concurrent, 1 for every routine
    Cooldown,                 \* guardrails.cooldown, in ticks
    Period,                   \* bound: ticks from now to the next fire of a schedule
    MaxChanges,               \* bound: requests that change a routine
    MaxCrashes,               \* bound: crashes of the process
    Reliable                  \* no database error, no panic

ASSUME RoutinesAssumption ==
    /\ "none" \notin RoutineIds /\ IsFiniteSet(Runs)
    /\ {MaxConcurrentRoutines, MaxConcurrent, Cooldown, Period} \subseteq Nat \ {0}
    /\ {MaxChanges, MaxCrashes} \subseteq Nat
    /\ Reliable \in BOOLEAN

VARIABLES
    db,          \* the routines table
    rows,        \* routine_runs: the routine of each row with status 'running'
    cache,       \* RoutineEngine.event_cache: how long ago the cached last_run_at is
    running,     \* RoutineEngine.running_count
    task,        \* the spawned task of each run
    evTodo,      \* matching entries check_event_triggers has not come to
    evAt,        \* the entry whose running rows it has counted
    cronTodo,    \* due routines check_cron_triggers has not come to, as read
    cronAt,      \* the routine whose running rows it is about to count
    cronSaw,     \* history: routines with a live run since that list was read
    admin,       \* the tool call and the web request that change a routine
    changes,     \* such requests so far
    panicked,    \* runs of this process that panicked
    crashes      \* crashes so far

passVars == <<evTodo, evAt, cronTodo, cronAt, cronSaw>>
memVars == <<cache, running, task, panicked>>
vars == <<db, rows, memVars, passVars, admin, changes, crashes>>

None == "none"                     \* no routine
NoTask == [at |-> None]
Unused == [life |-> "unused"]      \* an id not drawn yet
Deleted == [life |-> "deleted"]    \* a routine that is gone
Never == -1                        \* next_fire_at IS NULL
Out == -1                          \* not in a cache or list

Ages == 0..Cooldown
Nexts == 0..Period
Fires == 1..Period \cup {Never}    \* next_cron_fire: strictly after now, or no more
Triggers == {"cron", "event"}
Admins == {"tool", "web"}

Routine == [enabled : BOOLEAN, trigger : Triggers, age : Ages, next : Nexts \cup {Never}]
Exists(r) == db[r] \notin {Unused, Deleted}

\* Regex and channel are part of which entries a message matches.
Task == [routine : RoutineIds, trigger : Triggers, at : {"spawned", "executing", "finishing", "closing"}]
At(x, where) == task[x].at = where
Executing == {x \in Runs : At(x, "executing")}
LiveRoutines == {task[x].routine : x \in {y \in Runs : task[y] # NoTask}}

\* The requests: what was read, and for the tool the list it will install.
NoRequest == [at |-> None]
Request ==
    [at : {"write"}, op : {"update", "delete"}, routine : RoutineIds, copy : Routine]
        \cup [at : {"list"}] \cup [at : {"install"}, list : [RoutineIds -> Ages \cup {Out}]]
        \cup {NoRequest}

EvIdle == evTodo = {} /\ evAt = None
CronIdle == cronAt = None /\ \A r \in RoutineIds : cronTodo[r] = Out

-----------------------------------------------------------------------------
(* What is read and what is checked. *)

ListEventRoutines ==
    [r \in RoutineIds |-> IF Exists(r) /\ db[r].enabled /\ db[r].trigger = "event"
                          THEN db[r].age ELSE Out]

ListDueCronRoutines ==
    [r \in RoutineIds |-> IF Exists(r) /\ db[r].enabled /\ db[r].trigger = "cron" /\ db[r].next = 0
                          THEN db[r].age ELSE Out]

CheckCooldown(age) == age = Cooldown

CountRunning(r) == Cardinality({x \in Runs : rows[x] = r})

CheckConcurrent(r) == CountRunning(r) < MaxConcurrent

AtCapacity == running >= MaxConcurrentRoutines

\* spawn_fire: the task that will record the run and execute it.
SpawnFire(r, trigger) ==
    \E x \in Runs \ panicked :
        /\ task[x] = NoTask /\ rows[x] = None
        /\ task' = [task EXCEPT ![x] = [routine |-> r, trigger |-> trigger, at |-> "spawned"]]

-----------------------------------------------------------------------------
(* check_event_triggers, at the end of each turn of the message loop. *)

EventMessage ==
    /\ EvIdle
    /\ \E M \in SUBSET {r \in RoutineIds : cache[r] # Out} : M # {} /\ evTodo' = M
    /\ UNCHANGED <<db, rows, memVars, evAt, cronTodo, cronAt, cronSaw, admin, changes, crashes>>

\* The cooldown of the cached entry, then the count; a failed count is a no.
EventCheck(r) ==
    /\ evAt = None /\ r \in evTodo
    /\ evTodo' = evTodo \ {r}
    /\ \/ CheckCooldown(cache[r]) /\ CheckConcurrent(r) /\ evAt' = r
       \/ ~(CheckCooldown(cache[r]) /\ CheckConcurrent(r) /\ Reliable) /\ evAt' = None
    /\ UNCHANGED <<db, rows, memVars, cronTodo, cronAt, cronSaw, admin, changes, crashes>>

EventFire ==
    /\ evAt # None
    /\ evAt' = None
    /\ \/ AtCapacity /\ UNCHANGED task
       \/ ~AtCapacity /\ SpawnFire(evAt, "event")
    /\ cronSaw' = IF CronIdle THEN {} ELSE cronSaw \cup {evAt}
    /\ UNCHANGED <<db, rows, cache, running, panicked, evTodo, cronTodo, cronAt, admin, changes, crashes>>

-----------------------------------------------------------------------------
(* check_cron_triggers, at each tick of the cron ticker. *)

\* Mutant: the next fire is set when the list is read.
CronTickClaims ==
    /\ CronIdle
    /\ cronTodo' = ListDueCronRoutines
    /\ cronTodo' # cronTodo
    /\ \E n \in Fires :
           db' = [r \in RoutineIds |-> IF ListDueCronRoutines[r] # Out THEN [db[r] EXCEPT !.next = n] ELSE db[r]]
    /\ cronSaw' = LiveRoutines
    /\ UNCHANGED <<rows, memVars, evTodo, evAt, cronAt, admin, changes, crashes>>

CronTick ==
    /\ CronIdle
    /\ cronTodo' = ListDueCronRoutines
    /\ cronTodo' # cronTodo
    /\ cronSaw' = LiveRoutines
    /\ UNCHANGED <<db, rows, memVars, evTodo, evAt, cronAt, admin, changes, crashes>>

\* Mutant: the cooldown is not looked at.
CronAdmitHot(r) ==
    /\ cronAt = None /\ cronTodo[r] # Out
    /\ IF AtCapacity
       THEN cronTodo' = [s \in RoutineIds |-> Out] /\ UNCHANGED cronAt
       ELSE cronTodo' = [cronTodo EXCEPT ![r] = Out] /\ cronAt' = r
    /\ cronSaw' = IF CronIdle' THEN {} ELSE cronSaw
    /\ UNCHANGED <<db, rows, memVars, evTodo, evAt, admin, changes, crashes>>

\* At capacity the rest of the list is dropped.
CronAdmit(r) ==
    /\ cronAt = None /\ cronTodo[r] # Out
    /\ IF AtCapacity
       THEN cronTodo' = [s \in RoutineIds |-> Out] /\ UNCHANGED cronAt
       ELSE /\ cronTodo' = [cronTodo EXCEPT ![r] = Out]
            /\ cronAt' = IF CheckCooldown(cronTodo[r]) THEN r ELSE None
    /\ cronSaw' = IF CronIdle' THEN {} ELSE cronSaw
    /\ UNCHANGED <<db, rows, memVars, evTodo, evAt, admin, changes, crashes>>

CronFire ==
    /\ cronAt # None
    /\ cronAt' = None
    /\ \/ CheckConcurrent(cronAt) /\ SpawnFire(cronAt, "cron")
       \/ ~(CheckConcurrent(cronAt) /\ Reliable) /\ UNCHANGED task
    /\ UNCHANGED <<db, rows, cache, running, panicked, evTodo, evAt, cronTodo, admin, changes, crashes>>
    /\ cronSaw' = IF CronIdle' THEN {} ELSE cronSaw

-----------------------------------------------------------------------------
(* A run: the task spawn_fire starts, and execute_routine. *)

\* create_routine_run, which the foreign key refuses for a deleted routine,
\* and the increment after it.
RunStart(x) ==
    /\ At(x, "spawned")
    /\ \/ /\ Exists(task[x].routine)
          /\ rows' = [rows EXCEPT ![x] = task[x].routine]
          /\ running' = running + 1
          /\ task' = [task EXCEPT ![x].at = "executing"]
       \/ /\ ~(Exists(task[x].routine) /\ Reliable)
          /\ task' = [task EXCEPT ![x] = NoTask]
          /\ UNCHANGED <<rows, running>>
    /\ UNCHANGED <<db, cache, panicked, passVars, admin, changes, crashes>>

\* Mutant: an early return on an error skips the decrement.
RunFinishKeepsCount(x) ==
    /\ At(x, "executing")
    /\ task' = [task EXCEPT ![x].at = "finishing"]
    /\ \/ running' = running - 1
       \/ UNCHANGED running
    /\ UNCHANGED <<db, rows, cache, panicked, passVars, admin, changes, crashes>>

\* execute_lightweight or execute_full_job returns, with a result or an error.
RunFinish(x) ==
    /\ At(x, "executing")
    /\ running' = running - 1
    /\ task' = [task EXCEPT ![x].at = "finishing"]
    /\ UNCHANGED <<db, rows, cache, panicked, passVars, admin, changes, crashes>>

\* A panic in it unwinds the task past the decrement and past everything else.
RunPanic(x) ==
    /\ ~Reliable
    /\ At(x, "executing")
    /\ task' = [task EXCEPT ![x] = NoTask]
    /\ panicked' = panicked \cup {x}
    /\ UNCHANGED <<db, rows, cache, running, passVars, admin, changes, crashes>>

\* complete_routine_run; its failure is logged and the row stays 'running'.
RunComplete(x) ==
    /\ At(x, "finishing")
    /\ \/ rows' = [rows EXCEPT ![x] = None]
       \/ ~Reliable /\ UNCHANGED rows
    /\ task' = [task EXCEPT ![x].at = "closing"]
    /\ UNCHANGED <<db, cache, running, panicked, passVars, admin, changes, crashes>>

\* update_routine_runtime: the next fire follows from the trigger the run was
\* fired with, if its schedule has one.  A deleted routine has no row to change.
RunClose(x) ==
    /\ At(x, "closing")
    /\ LET r == task[x].routine
       IN  \/ /\ Exists(r)
              /\ \E n \in IF task[x].trigger = "cron" THEN Fires ELSE {Never} :
                     db' = [db EXCEPT ![r].age = 0, ![r].next = n]
           \/ ~(Exists(r) /\ Reliable) /\ UNCHANGED db
    /\ task' = [task EXCEPT ![x] = NoTask]
    /\ UNCHANGED <<rows, cache, running, panicked, passVars, admin, changes, crashes>>

-----------------------------------------------------------------------------
(* The tools and the web handlers that change routines. *)

Goto(a, request) == admin' = [admin EXCEPT ![a] = request]

Requested(a) ==
    /\ admin[a] = NoRequest
    /\ changes < MaxChanges
    /\ changes' = changes + 1

\* RoutineCreateTool; only an event routine has the cache refreshed.
ToolCreate(r) ==
    /\ Requested("tool")
    /\ db[r] = Unused
    /\ \E t \in Triggers, n \in Fires :
           /\ db' = [db EXCEPT ![r] = [enabled |-> TRUE, trigger |-> t, age |-> Cooldown,
                                       next |-> IF t = "cron" THEN n ELSE Never]]
           /\ Goto("tool", IF t = "event" THEN [at |-> "list"] ELSE NoRequest)
    /\ UNCHANGED <<rows, memVars, passVars, crashes>>

\* The copy an update changes and writes back whole: enabled or not, and for
\* the tool a new schedule, which makes any routine a cron routine.
Edits(a, copy) ==
    {[copy EXCEPT !.enabled = e] : e \in BOOLEAN}
        \cup IF a = "tool" THEN {[copy EXCEPT !.trigger = "cron", !.next = n] : n \in Fires} ELSE {}

\* The first read of RoutineUpdateTool, RoutineDeleteTool and
\* routines_toggle_handler.
AdminRead(a, r) ==
    /\ Requested(a)
    /\ Exists(r)
    /\ \/ \E c \in Edits(a, db[r]) :
              Goto(a, [at |-> "write", op |-> "update", routine |-> r, copy |-> c])
       \/ a = "tool" /\ Goto(a, [at |-> "write", op |-> "delete", routine |-> r, copy |-> db[r]])
    /\ UNCHANGED <<db, rows, memVars, passVars, crashes>>

\* delete_routine: the rows of its runs go with it.
DeleteRoutine(r) ==
    /\ db' = [db EXCEPT ![r] = IF Exists(r) THEN Deleted ELSE @]
    /\ rows' = [x \in Runs |-> IF rows[x] = r THEN None ELSE rows[x]]

\* update_routine: every column of the copy but last_run_at and the counters.
UpdateRoutine(r, copy) ==
    /\ db' = [db EXCEPT ![r] = IF Exists(r) THEN [copy EXCEPT !.age = db[r].age] ELSE @]
    /\ UNCHANGED rows

\* The write.  A tool call goes on to refresh the cache, a web request does
\* not; one whose write fails gives up.
AdminWrite(a) ==
    /\ admin[a].at = "write"
    /\ \/ /\ IF admin[a].op = "delete" THEN DeleteRoutine(admin[a].routine)
             ELSE UpdateRoutine(admin[a].routine, admin[a].copy)
          /\ Goto(a, IF a = "tool" THEN [at |-> "list"] ELSE NoRequest)
       \/ /\ ~Reliable
          /\ Goto(a, NoRequest)
          /\ UNCHANGED <<db, rows>>
    /\ UNCHANGED <<memVars, passVars, changes, crashes>>

\* routines_delete_handler.
WebDelete(r) ==
    /\ Requested("web")
    /\ Exists(r)
    /\ DeleteRoutine(r)
    /\ UNCHANGED <<memVars, passVars, admin, crashes>>

\* refresh_event_cache: the list first, ...
RefreshList ==
    /\ admin["tool"].at = "list"
    /\ \/ Goto("tool", [at |-> "install", list |-> ListEventRoutines])
       \/ ~Reliable /\ Goto("tool", NoRequest)
    /\ UNCHANGED <<db, rows, memVars, passVars, changes, crashes>>

\* ... then the cache, which a check of a message in progress has locked.
RefreshInstall ==
    /\ admin["tool"].at = "install"
    /\ EvIdle
    /\ cache' = admin["tool"].list
    /\ Goto("tool", NoRequest)
    /\ UNCHANGED <<db, rows, running, task, panicked, passVars, changes, crashes>>

-----------------------------------------------------------------------------
(* Time and crashes. *)

Older(age) == IF age \in 0..Cooldown - 1 THEN age + 1 ELSE age
Nearer(next) == IF next \in 1..Period THEN next - 1 ELSE next
Aged(list) == [r \in RoutineIds |-> Older(list[r])]

\* Time passes for every copy of a time.
Tick ==
    /\ db' = [r \in RoutineIds |->
                IF Exists(r) THEN [db[r] EXCEPT !.age = Older(@), !.next = Nearer(@)] ELSE db[r]]
    /\ cache' = Aged(cache)
    /\ cronTodo' = Aged(cronTodo)
    /\ admin' = [a \in Admins |->
                   CASE admin[a].at = "write" ->
                            [admin[a] EXCEPT !.copy.age = Older(@), !.copy.next = Nearer(@)]
                     [] admin[a].at = "install" -> [admin[a] EXCEPT !.list = Aged(@)]
                     [] OTHER -> admin[a]]
    /\ UNCHANGED <<rows, running, task, panicked, evTodo, evAt, cronAt, cronSaw, changes, crashes>>

\* The process goes down and up again: the tables stay, the cache is loaded,
\* and nobody looks for rows that still say 'running'.
Crash ==
    /\ crashes < MaxCrashes
    /\ crashes' = crashes + 1
    /\ task' = [x \in Runs |-> NoTask]
    /\ running' = 0
    /\ panicked' = {}
    /\ cache' \in {ListEventRoutines} \cup (IF Reliable THEN {} ELSE {[r \in RoutineIds |-> Out]})
    /\ evTodo' = {} /\ evAt' = None
    /\ cronTodo' = [r \in RoutineIds |-> Out] /\ cronAt' = None /\ cronSaw' = {}
    /\ admin' = [a \in Admins |-> NoRequest]
    /\ UNCHANGED <<db, rows, changes>>

-----------------------------------------------------------------------------
\* The agent starts over routines of earlier processes.
Init ==
    /\ db \in [RoutineIds ->
                {Unused} \cup {[enabled |-> TRUE, trigger |-> "event", age |-> Cooldown, next |-> Never]}
                    \cup {[enabled |-> TRUE, trigger |-> "cron", age |-> Cooldown, next |-> n] : n \in Nexts \cup {Never}}]
    /\ rows = [x \in Runs |-> None]
    /\ cache = ListEventRoutines
    /\ running = 0
    /\ task = [x \in Runs |-> NoTask]
    /\ evTodo = {} /\ evAt = None
    /\ cronTodo = [r \in RoutineIds |-> Out] /\ cronAt = None /\ cronSaw = {}
    /\ admin = [a \in Admins |-> NoRequest]
    /\ changes = 0 /\ panicked = {} /\ crashes = 0

RunStep(x) == RunStart(x) \/ RunFinish(x) \/ RunComplete(x) \/ RunClose(x)

Next ==
    \/ EventMessage \/ EventFire \/ CronTick \/ CronFire
    \/ RefreshList \/ RefreshInstall \/ Tick \/ Crash
    \/ \E r \in RoutineIds : EventCheck(r) \/ CronAdmit(r) \/ ToolCreate(r) \/ WebDelete(r)
    \/ \E a \in Admins : AdminWrite(a) \/ \E r \in RoutineIds : AdminRead(a, r)
    \/ \E x \in Runs : RunStep(x) \/ RunPanic(x)

Spec == Init /\ [][Next]_vars

\* A spawned task goes on whenever it can, the ticker ticks and its pass goes
\* on, time passes, and the database does not fail the ticker for ever.
\* That an execution ends is not assumed: nothing limits the time of its LLM
\* calls.
FairSpec ==
    /\ Spec
    /\ WF_vars(CronTick) /\ WF_vars(\E r \in RoutineIds : CronAdmit(r)) /\ WF_vars(CronFire)
    /\ SF_vars(CronFire /\ task' # task)
    /\ WF_vars(Tick)
    /\ \A x \in Runs : WF_vars(RunStart(x) \/ RunComplete(x) \/ RunClose(x))

-----------------------------------------------------------------------------
(* Properties. *)

\* The types.  The lists hold ages of routines, the count is that of at most
\* all runs, and a run whose row is there runs a routine that is there.
TypeOK ==
    /\ db \in [RoutineIds -> Routine \cup {Unused, Deleted}]
    /\ rows \in [Runs -> RoutineIds \cup {None}]
    /\ cache \in [RoutineIds -> Ages \cup {Out}]
    /\ running \in 0..Cardinality(Runs)
    /\ task \in [Runs -> Task \cup {NoTask}]
    /\ evTodo \subseteq RoutineIds /\ evAt \in RoutineIds \cup {None}
    /\ cronTodo \in [RoutineIds -> Ages \cup {Out}] /\ cronAt \in RoutineIds \cup {None}
    /\ cronSaw \subseteq RoutineIds
    /\ admin \in [Admins -> Request]
    /\ panicked \subseteq Runs
    /\ changes \in 0..MaxChanges /\ crashes \in 0..MaxCrashes

\* running_count, which both triggers compare with the global limit, never
\* forgets a run that executes, whatever errors end the others, and until a run
\* panics it counts nothing else: no failed write, deleted routine or refused
\* row leaves a run behind in it.
RunningCountExact ==
    /\ Cardinality(Executing) <= running
    /\ panicked = {} => running = Cardinality(Executing)

\* The cron ticker keeps to the cooldown: it fires a routine only a cooldown
\* after its last run, unless a run of it was under way when the list of due
\* routines was read, or was fired since.  A request that writes an old
\* next_fire_at back makes the routine due again, but last_run_at is not its
\* to write.
CronCooldown ==
    [][\A r \in RoutineIds :
        CronFire /\ cronAt = r /\ task' # task /\ r \notin cronSaw =>
            ~Exists(r) \/ db[r].age = Cooldown]_vars

\* A due cron routine is not forgotten: a pass that skips it, for its cooldown,
\* for a count that failed or because the process went down, leaves its
\* next_fire_at alone, so that a later pass finds it again, until a run of it is
\* spawned.  What may keep it from running is the limits (those of the engine
\* and of the routine, which a row left 'running' reaches for good), and a
\* request that changes or deletes it.
DueIsFired ==
    \A r \in RoutineIds :
        ListDueCronRoutines[r] # Out ~>
            \/ r \in LiveRoutines
            \/ AtCapacity \/ ~CheckConcurrent(r)
            \/ ~Exists(r) \/ \E a \in Admins : admin[a].at = "write" /\ admin[a].routine = r

\* RoutineGuardrails.cooldown, "Minimum time between fires", of the event
\* routines: one is fired only a cooldown after its last run.
EventCooldown ==
    [][\A r \in RoutineIds :
        evAt = r /\ task' # task /\ EventFire => ~Exists(r) \/ db[r].age = Cooldown]_vars

\* RoutineEngine.running_count, "Currently running routine count (across all
\* routines)".  TLC refutes this: a panic unwinds past the decrement, and the
\* run is counted for the rest of the process's life.
RunningCountIsLive == running = Cardinality(Executing)

\* RoutineGuardrails.max_concurrent, "Max simultaneous runs of this routine".
\* TLC refutes this: the row that check_concurrent counts is written by the
\* spawned task, and the next message, or the next tick, may come before it.
AtMostMaxConcurrent ==
    \A r \in RoutineIds :
        Cardinality({x \in Runs : At(x, "executing") /\ task[x].routine = r}) <= MaxConcurrent

\* ROUTINES_MAX_CONCURRENT, "Max routines running simultaneously": both
\* triggers compare running_count with it before they fire a routine.  TLC
\* refutes this: a tick admits all its routines against the same count.
RoutinesAreLimited == Cardinality(Executing) <= MaxConcurrentRoutines

\* A routine that was disabled, by whichever way, fires no more: when no request
\* of a tool is under way, which would still have to refresh the cache, a
\* message is matched with no disabled routine.  (One that was deleted may be
\* matched: its run cannot be recorded and is not executed.)  TLC refutes this:
\* the web handlers do not refresh the cache.
DisabledIsNotMatched ==
    [][EventMessage /\ admin["tool"] = NoRequest =>
        \A r \in evTodo' : Exists(r) => db[r].enabled]_vars

=============================================================================
