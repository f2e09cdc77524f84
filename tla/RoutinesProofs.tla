--------------------------- MODULE RoutinesProofs ---------------------------
(***************************************************************************)
(* Proofs about Routines, for every number of routines and runs, every     *)
(* limit and cooldown, and any number of requests and crashes.             *)
(***************************************************************************)
EXTENDS Routines, FiniteSetTheorems, TLAPS

\* TypeOK but for the bound on running, which takes counting.
ShapeOK ==
    /\ db \in [RoutineIds -> Routine \cup {Unused, Deleted}]
    /\ rows \in [Runs -> RoutineIds \cup {None}]
    /\ cache \in [RoutineIds -> Ages \cup {Out}]
    /\ task \in [Runs -> Task \cup {NoTask}]
    /\ evTodo \subseteq RoutineIds /\ evAt \in RoutineIds \cup {None}
    /\ cronTodo \in [RoutineIds -> Ages \cup {Out}] /\ cronAt \in RoutineIds \cup {None}
    /\ cronSaw \subseteq RoutineIds
    /\ admin \in [Admins -> Request]
    /\ panicked \subseteq Runs
    /\ changes \in 0..MaxChanges /\ crashes \in 0..MaxCrashes

\* The count goes up and down with the runs that execute and those that
\* panicked: one that panicked has no task, and its id is not drawn again.
CountInv == running = Cardinality(Executing \cup panicked) /\ \A x \in panicked : task[x] = NoTask

\* What a pass is about to fire is no longer on its list.
PassInv == \A r \in RoutineIds : cronAt = r => cronTodo[r] = Out

\* For a routine that no run touches while the ticker has it on its list, the
\* age it was read with is not above that of the row.
AgeInv ==
    \A r \in RoutineIds :
        /\ cronTodo[r] # Out /\ r \notin cronSaw => ~Exists(r) \/ db[r].age >= cronTodo[r]
        /\ cronAt = r /\ r \notin cronSaw => ~Exists(r) \/ db[r].age = Cooldown
        /\ (cronTodo[r] # Out \/ cronAt = r) /\ r \notin cronSaw =>
              \A x \in Runs : task[x] # NoTask => task[x].routine # r

-----------------------------------------------------------------------------
(* The records and lists the engine is made of. *)

\* A routine is none of the two that are not there.
LEMMA RoutineThere == Unused # Deleted /\ \A q \in Routine : q \notin {Unused, Deleted}
<1>1. Unused # Deleted
  BY DEF Unused, Deleted
<1>2. ASSUME NEW q \in Routine PROVE q \notin {Unused, Deleted}
  <2>1. "age" \in DOMAIN q
    BY DEF Routine
  <2>2. "age" \notin DOMAIN Unused /\ "age" \notin DOMAIN Deleted
    BY DEF Unused, Deleted
  <2> QED BY <2>1, <2>2
<1> QED BY <1>1, <1>2

\* A task is somewhere.
LEMMA TaskThere ==
    /\ NoTask.at = None
    /\ \A k \in Task : /\ k # NoTask /\ k.routine \in RoutineIds /\ k.trigger \in Triggers
                       /\ k.at \in {"spawned", "executing", "finishing", "closing"}
  BY DEF Task, NoTask, None

\* What a request holds at each of its stages.
LEMMA RequestFacts ==
    /\ NoRequest \in Request /\ NoRequest.at = None
    /\ [at |-> "list"] \in Request
    /\ \A q \in Request :
          /\ q.at = "write" => /\ q.op \in {"update", "delete"} /\ q.routine \in RoutineIds
                               /\ q.copy \in Routine
                               /\ q = [at |-> "write", op |-> q.op, routine |-> q.routine, copy |-> q.copy]
          /\ q.at = "install" => /\ q.list \in [RoutineIds -> Ages \cup {Out}]
                                 /\ q = [at |-> "install", list |-> q.list]
    /\ \A l \in [RoutineIds -> Ages \cup {Out}] : [at |-> "install", list |-> l] \in Request
    /\ \A o \in {"update", "delete"}, r \in RoutineIds, c \in Routine :
          [at |-> "write", op |-> o, routine |-> r, copy |-> c] \in Request
  BY DEF Request, NoRequest, None

\* The lists read from the table hold ages.
LEMMA ListTypes ==
    ASSUME ShapeOK
    PROVE  /\ ListEventRoutines \in [RoutineIds -> Ages \cup {Out}]
           /\ ListDueCronRoutines \in [RoutineIds -> Ages \cup {Out}]
<1>1. \A r \in RoutineIds : Exists(r) => db[r] \in Routine
  BY DEF ShapeOK, Exists
<1>2. \A q \in Routine : q.age \in Ages
  BY DEF Routine
<1> QED BY <1>1, <1>2 DEF ListEventRoutines, ListDueCronRoutines

\* Time leaves ages ages and fires fires, does not take a fire away, and does
\* not turn two ages around.
LEMMA AgeFacts ==
    /\ Cooldown \in Ages /\ 0 \in Ages /\ Out \notin Ages /\ Fires \subseteq Nexts \cup {Never}
    /\ \A a \in Ages : Older(a) \in Ages /\ a <= Cooldown /\ Older(Cooldown) = Cooldown
    /\ Older(Out) = Out
    /\ \A a, b \in Ages : a <= b => Older(a) <= Older(b)
    /\ \A n \in Nexts : Nearer(n) \in Nexts
    /\ Nearer(Never) = Never
  BY RoutinesAssumption DEF Ages, Out, Older, Nearer, Nexts, Never, Fires

\* So does it leave lists lists.
LEMMA AgedFacts ==
    ASSUME NEW l \in [RoutineIds -> Ages \cup {Out}]
    PROVE  /\ Aged(l) \in [RoutineIds -> Ages \cup {Out}]
           /\ \A r \in RoutineIds : (Aged(l)[r] = Out <=> l[r] = Out) /\ Aged(l)[r] = Older(l[r])
  BY AgeFacts DEF Aged

\* What may be written into a routine.
LEMMA RoutineFacts ==
    ASSUME NEW q \in Routine
    PROVE  /\ q.age \in Ages /\ q.next \in Nexts \cup {Never} /\ q.trigger \in Triggers
           /\ \A n \in Nexts \cup {Never} : [q EXCEPT !.age = 0, !.next = n] \in Routine
           /\ \A a \in Ages : [q EXCEPT !.age = a] \in Routine
           /\ \A a \in Admins : Edits(a, q) \subseteq Routine
           /\ [q EXCEPT !.age = Older(@), !.next = Nearer(@)] \in Routine
           /\ [q EXCEPT !.age = Older(@), !.next = Nearer(@)].age = Older(q.age)
           /\ [q EXCEPT !.age = Older(@), !.next = Nearer(@)].next = Nearer(q.next)
           /\ [q EXCEPT !.age = Older(@), !.next = Nearer(@)].trigger = q.trigger
<1>1. /\ q.age \in Ages /\ q.next \in Nexts \cup {Never} /\ q.trigger \in Triggers /\ q.enabled \in BOOLEAN
      /\ q = [enabled |-> q.enabled, trigger |-> q.trigger, age |-> q.age, next |-> q.next]
  BY DEF Routine
<1>2. Older(q.age) \in Ages /\ Nearer(q.next) \in Nexts \cup {Never} /\ 0 \in Ages
  BY <1>1, AgeFacts
<1>3. \A n \in Fires : [q EXCEPT !.trigger = "cron", !.next = n] \in Routine
  BY <1>1, AgeFacts DEF Routine, Triggers
<1>4. \A e \in BOOLEAN : [q EXCEPT !.enabled = e] \in Routine
  BY <1>1 DEF Routine
<1>5. \A a \in Admins : Edits(a, q) \subseteq Routine
  BY <1>3, <1>4 DEF Edits
<1> QED BY <1>1, <1>2, <1>5 DEF Routine

\* What happens to the table: time passes, or one routine is changed.
LEMMA TickTable ==
    ASSUME ShapeOK, Tick
    PROVE  /\ db' \in [RoutineIds -> Routine \cup {Unused, Deleted}]
           /\ \A r \in RoutineIds :
                 /\ ~Exists(r) => db'[r] = db[r]
                 /\ Exists(r) => /\ db[r] \in Routine /\ db'[r] \in Routine
                                 /\ db'[r].age = Older(db[r].age) /\ db'[r].next = Nearer(db[r].next)
                                 /\ db'[r].trigger = db[r].trigger
<1>1. \A r \in RoutineIds : db'[r] = IF Exists(r) THEN [db[r] EXCEPT !.age = Older(@), !.next = Nearer(@)] ELSE db[r]
  BY DEF Tick
<1>2. \A r \in RoutineIds : Exists(r) => db[r] \in Routine
  BY DEF ShapeOK, Exists
<1>3. \A r \in RoutineIds : ~Exists(r) => db[r] \in {Unused, Deleted}
  BY DEF Exists
<1>4. \A r \in RoutineIds : Exists(r) => /\ db[r] \in Routine /\ db'[r] \in Routine
                                 /\ db'[r].age = Older(db[r].age) /\ db'[r].next = Nearer(db[r].next)
                                 /\ db'[r].trigger = db[r].trigger
  BY <1>1, <1>2, RoutineFacts
<1>5. db' = [r \in RoutineIds |-> db'[r]]
  BY DEF Tick
<1> QED BY <1>1, <1>3, <1>4, <1>5

\* The requests age with it.
LEMMA TickRequests ==
    ASSUME ShapeOK, Tick
    PROVE  /\ admin' \in [Admins -> Request]
           /\ \A a \in Admins :
                 /\ admin'[a].at = admin[a].at
                 /\ admin[a].at = "write" => /\ admin'[a].routine = admin[a].routine
                                             /\ admin'[a].copy.trigger = admin[a].copy.trigger
                                             /\ admin'[a].copy.next = Nearer(admin[a].copy.next)
<1>1. ASSUME NEW a \in Admins
      PROVE  /\ admin'[a] \in Request
             /\ admin'[a].at = admin[a].at
             /\ admin[a].at = "write" => /\ admin'[a].routine = admin[a].routine
                                         /\ admin'[a].copy.trigger = admin[a].copy.trigger
                                         /\ admin'[a].copy.next = Nearer(admin[a].copy.next)
  <2> DEFINE q == admin[a]
  <2>1. q \in Request
    BY DEF ShapeOK
  <2>2. admin'[a] = CASE q.at = "write" -> [q EXCEPT !.copy.age = Older(@), !.copy.next = Nearer(@)]
                      [] q.at = "install" -> [q EXCEPT !.list = Aged(@)]
                      [] OTHER -> q
    BY DEF Tick
  <2> HIDE DEF q
  <2>3. CASE q.at = "write"
    <3> DEFINE c == [q.copy EXCEPT !.age = Older(@), !.next = Nearer(@)]
    <3>1. /\ q.op \in {"update", "delete"} /\ q.routine \in RoutineIds /\ q.copy \in Routine
          /\ q = [at |-> "write", op |-> q.op, routine |-> q.routine, copy |-> q.copy]
      BY <2>1, <2>3, RequestFacts
    <3>2. admin'[a] = [q EXCEPT !.copy.age = Older(@), !.copy.next = Nearer(@)]
      BY <2>2, <2>3
    <3>3. admin'[a] = [at |-> "write", op |-> q.op, routine |-> q.routine, copy |-> c]
      <4>1. q.copy = [enabled |-> q.copy.enabled, trigger |-> q.copy.trigger,
                      age |-> q.copy.age, next |-> q.copy.next]
        BY <3>1 DEF Routine
      <4>2. admin'[a] = [q EXCEPT !.copy = [[q.copy EXCEPT !.age = Older(q.copy.age)]
                                                   EXCEPT !.next = Nearer(q.copy.next)]]
        BY <3>1, <3>2, <4>1
      <4>3. c = [[q.copy EXCEPT !.age = Older(q.copy.age)] EXCEPT !.next = Nearer(q.copy.next)]
        BY <4>1
      <4> HIDE DEF c
      <4> QED BY <3>1, <4>2, <4>3
    <3>4. c \in Routine /\ c.next = Nearer(q.copy.next) /\ c.trigger = q.copy.trigger
      BY <3>1, RoutineFacts
    <3> HIDE DEF c
    <3> QED BY <2>3, <3>1, <3>3, <3>4, RequestFacts DEF q
  <2>4. CASE q.at = "install"
    <3>1. q.list \in [RoutineIds -> Ages \cup {Out}] /\ q = [at |-> "install", list |-> q.list]
      BY <2>1, <2>4, RequestFacts
    <3>2. admin'[a] = [at |-> "install", list |-> Aged(q.list)]
      BY <2>2, <2>4, <3>1
    <3> QED BY <2>4, <3>1, <3>2, AgedFacts, RequestFacts DEF q
  <2>5. CASE q.at \notin {"write", "install"}
    BY <2>1, <2>2, <2>5 DEF q
  <2> QED BY <2>3, <2>4, <2>5
<1>2. admin' = [a \in Admins |-> admin'[a]]
  BY DEF Tick
<1> QED BY <1>1, <1>2

\* The end of a run sets the row of its routine back, if there is one.
LEMMA CloseTable ==
    ASSUME ShapeOK, NEW x \in Runs, RunClose(x), task[x].routine \in RoutineIds
    PROVE  /\ db' \in [RoutineIds -> Routine \cup {Unused, Deleted}]
           /\ \A r \in RoutineIds : \/ db'[r] = db[r]
                                  \/ /\ r = task[x].routine /\ db[r] \in Routine /\ db'[r] \in Routine
<1> DEFINE s == task[x].routine
<1>1. CASE UNCHANGED db
  BY <1>1 DEF ShapeOK
<1>2. CASE Exists(s) /\ db' # db
  <2>1. db[s] \in Routine
    BY <1>2 DEF ShapeOK, Exists
  <2>2. PICK n \in IF task[x].trigger = "cron" THEN Fires ELSE {Never} :
           db' = [db EXCEPT ![s].age = 0, ![s].next = n]
    BY <1>2 DEF RunClose
  <2>3. n \in Nexts \cup {Never}
    BY AgeFacts
  <2> DEFINE q == [db[s] EXCEPT !.age = 0, !.next = n]
  <2>4. db' = [db EXCEPT ![s] = q]
    <3> HIDE DEF s
    <3> QED BY <2>2 DEF ShapeOK
  <2>5. q \in Routine
    BY <2>1, <2>3, RoutineFacts
  <2> HIDE DEF q, s
  <2> QED BY <2>1, <2>3, <2>4, <2>5 DEF ShapeOK, s
<1> QED BY <1>1, <1>2 DEF RunClose

\* Tasks are tasks wherever they get to.
LEMMA NewTask ==
    /\ \A r \in RoutineIds, t \in Triggers : [routine |-> r, trigger |-> t, at |-> "spawned"] \in Task
    /\ \A k \in Task, p \in {"executing", "finishing", "closing"} : [k EXCEPT !.at = p] \in Task
  BY DEF Task

\* A task that goes on stays the task it is.
LEMMA Goes ==
    ASSUME ShapeOK, NEW x \in Runs, task[x] # NoTask, NEW p \in {"executing", "finishing", "closing"},
           task' = [task EXCEPT ![x].at = p]
    PROVE  /\ task' \in [Runs -> Task \cup {NoTask}]
           /\ \A y \in Runs \ {x} : task'[y] = task[y]
           /\ task[x] \in Task /\ task'[x] \in Task /\ task'[x].at = p
           /\ task'[x].routine = task[x].routine /\ task'[x].trigger = task[x].trigger
<1>1. task[x] \in Task
  BY DEF ShapeOK
<1>2. task' = [task EXCEPT ![x] = [task[x] EXCEPT !.at = p]]
  BY DEF ShapeOK
<1>3. /\ [task[x] EXCEPT !.at = p] \in Task /\ [task[x] EXCEPT !.at = p].at = p
      /\ [task[x] EXCEPT !.at = p].routine = task[x].routine
      /\ [task[x] EXCEPT !.at = p].trigger = task[x].trigger
  BY <1>1 DEF Task
<1> QED BY <1>1, <1>2, <1>3 DEF ShapeOK

\* A run is somewhere only if it has a task.
LEMMA Somewhere ==
    \A x \in Runs : At(x, "spawned") \/ At(x, "executing") \/ At(x, "finishing") \/ At(x, "closing")
        => task[x] # NoTask
  BY TaskThere DEF At, None

\* Every step keeps the types.
LEMMA ShapeStep == ShapeOK /\ [Next]_vars => ShapeOK'
<1> SUFFICES ASSUME ShapeOK, [Next]_vars PROVE ShapeOK'
  OBVIOUS
<1> USE RoutinesAssumption DEF ShapeOK, passVars, memVars
<1>1. CASE EventMessage
  BY <1>1 DEF EventMessage, EvIdle
<1>2. CASE EventFire
  <2>1. task' \in [Runs -> Task \cup {NoTask}]
    BY <1>2, NewTask DEF EventFire, SpawnFire, Triggers
  <2> QED BY <1>2, <2>1 DEF EventFire
<1>3. CASE CronTick
  BY <1>3, ListTypes, TaskThere DEF CronTick, LiveRoutines
<1>4. CASE CronFire
  <2>1. task' \in [Runs -> Task \cup {NoTask}]
    BY <1>4, NewTask DEF CronFire, SpawnFire, Triggers
  <2> QED BY <1>4, <2>1 DEF CronFire
<1>5. CASE RefreshList
  BY <1>5, ListTypes, RequestFacts DEF RefreshList, Goto, Admins
<1>6. CASE RefreshInstall
  BY <1>6, RequestFacts DEF RefreshInstall, Goto, Admins
<1>7. CASE Tick
  BY <1>7, TickTable, TickRequests, AgedFacts DEF Tick
<1>8. CASE Crash
  <2>1. cache' \in [RoutineIds -> Ages \cup {Out}]
    BY <1>8, ListTypes DEF Crash
  <2> QED BY <1>8, <2>1, RequestFacts, RoutinesAssumption DEF Crash
<1>9. ASSUME NEW r \in RoutineIds, EventCheck(r) PROVE ShapeOK'
  BY <1>9 DEF EventCheck
<1>10. ASSUME NEW r \in RoutineIds, CronAdmit(r) PROVE ShapeOK'
  BY <1>10 DEF CronAdmit, CronIdle
<1>11. ASSUME NEW r \in RoutineIds, ToolCreate(r) PROVE ShapeOK'
  <2>1. PICK t \in Triggers, n \in Fires :
           /\ db' = [db EXCEPT ![r] = [enabled |-> TRUE, trigger |-> t, age |-> Cooldown,
                                       next |-> IF t = "cron" THEN n ELSE Never]]
           /\ Goto("tool", IF t = "event" THEN [at |-> "list"] ELSE NoRequest)
    BY <1>11 DEF ToolCreate
  <2>2. [enabled |-> TRUE, trigger |-> t, age |-> Cooldown, next |-> IF t = "cron" THEN n ELSE Never] \in Routine
    BY AgeFacts DEF Routine
  <2>3. db' \in [RoutineIds -> Routine \cup {Unused, Deleted}]
    BY <2>1, <2>2
  <2>4. admin' \in [Admins -> Request]
    BY <2>1, RequestFacts DEF Goto
  <2> QED BY <1>11, <2>3, <2>4 DEF ToolCreate, Requested
<1>12. ASSUME NEW r \in RoutineIds, WebDelete(r) PROVE ShapeOK'
  BY <1>12 DEF WebDelete, Requested, DeleteRoutine
<1>13. ASSUME NEW a \in Admins, AdminWrite(a) PROVE ShapeOK'
  <2>1. /\ admin[a].routine \in RoutineIds /\ admin[a].copy \in Routine
    BY <1>13, RequestFacts DEF AdminWrite
  <2>2. admin' \in [Admins -> Request]
    BY <1>13, RequestFacts DEF AdminWrite, Goto
  <2>3. rows' \in [Runs -> RoutineIds \cup {None}]
    BY <1>13 DEF AdminWrite, DeleteRoutine, UpdateRoutine
  <2>4. db' \in [RoutineIds -> Routine \cup {Unused, Deleted}]
    <3>1. Exists(admin[a].routine) => [admin[a].copy EXCEPT !.age = db[admin[a].routine].age] \in Routine
      BY <2>1, RoutineFacts DEF Exists
    <3> QED BY <1>13, <2>1, <3>1 DEF AdminWrite, DeleteRoutine, UpdateRoutine
  <2> QED BY <1>13, <2>2, <2>3, <2>4 DEF AdminWrite
<1>14. ASSUME NEW a \in Admins, NEW r \in RoutineIds, AdminRead(a, r) PROVE ShapeOK'
  <2>1. db[r] \in Routine
    BY <1>14 DEF AdminRead, Exists
  <2>2. PICK o \in {"update", "delete"}, c \in Edits(a, db[r]) \cup {db[r]} :
           admin' = [admin EXCEPT ![a] = [at |-> "write", op |-> o, routine |-> r, copy |-> c]]
    BY <1>14 DEF AdminRead, Goto
  <2>3. c \in Routine
    BY <2>1, RoutineFacts
  <2>4. admin' \in [Admins -> Request]
    BY <2>2, <2>3, RequestFacts
  <2> QED BY <1>14, <2>4 DEF AdminRead, Requested
<1>15. ASSUME NEW x \in Runs, RunStart(x) PROVE ShapeOK'
  <2>1. task[x] \in Task
    BY <1>15, Somewhere DEF RunStart
  <2>2. task[x].routine \in RoutineIds
    BY <2>1, TaskThere
  <2>3. task' \in [Runs -> Task \cup {NoTask}] /\ rows' \in [Runs -> RoutineIds \cup {None}]
    BY <1>15, <2>1, <2>2, Goes, Somewhere DEF RunStart
  <2> QED BY <1>15, <2>3 DEF RunStart
<1>16. ASSUME NEW x \in Runs, RunFinish(x) PROVE ShapeOK'
  BY <1>16, Goes, Somewhere DEF RunFinish
<1>17. ASSUME NEW x \in Runs, RunComplete(x) PROVE ShapeOK'
  BY <1>17, Goes, Somewhere DEF RunComplete
<1>18. ASSUME NEW x \in Runs, RunClose(x) PROVE ShapeOK'
  <2>1. task[x] \in Task
    BY <1>18, Somewhere DEF RunClose
  <2>2. task[x].routine \in RoutineIds
    BY <2>1, TaskThere
  <2>3. db' \in [RoutineIds -> Routine \cup {Unused, Deleted}]
    BY <1>18, <2>2, CloseTable
  <2> QED BY <1>18, <2>3 DEF RunClose
<1>19. ASSUME NEW x \in Runs, RunPanic(x) PROVE ShapeOK'
  BY <1>19 DEF RunPanic
<1>20. CASE UNCHANGED vars
  BY <1>20 DEF vars
<1> HIDE DEF ShapeOK
<1> QED
  BY <1>1, <1>2, <1>3, <1>4, <1>5, <1>6, <1>7, <1>8, <1>9, <1>10, <1>11, <1>12, <1>13, <1>14,
     <1>15, <1>16, <1>17, <1>18, <1>19, <1>20
     DEF Next, RunStep

-----------------------------------------------------------------------------
(* The inductive step, part by part. *)

\* spawn_fire gives an unused run a task, and nothing else.
LEMMA SpawnEffect ==
    ASSUME ShapeOK, NEW r \in RoutineIds, NEW t \in Triggers, SpawnFire(r, t)
    PROVE  \E x \in Runs \ panicked :
              /\ task[x] = NoTask /\ rows[x] = None
              /\ task' = [task EXCEPT ![x] = [routine |-> r, trigger |-> t, at |-> "spawned"]]
              /\ task'[x] \in Task /\ task'[x].at = "spawned"
              /\ task'[x].routine = r /\ task'[x].trigger = t
              /\ \A y \in Runs \ {x} : task'[y] = task[y]
<1>1. PICK x \in Runs \ panicked :
         /\ task[x] = NoTask /\ rows[x] = None
         /\ task' = [task EXCEPT ![x] = [routine |-> r, trigger |-> t, at |-> "spawned"]]
  BY DEF SpawnFire
<1>2. task'[x] = [routine |-> r, trigger |-> t, at |-> "spawned"]
  BY <1>1 DEF ShapeOK
<1>3. task'[x] \in Task
  BY <1>2, NewTask
<1> QED BY <1>1, <1>2, <1>3 DEF ShapeOK

\* A message, or a tick, leaves the tasks alone or spawns one.
LEMMA FireEffect ==
    ASSUME ShapeOK, EventFire \/ CronFire
    PROVE  \/ UNCHANGED task
           \/ EventFire /\ evAt \in RoutineIds /\ SpawnFire(evAt, "event")
           \/ CronFire /\ cronAt \in RoutineIds /\ SpawnFire(cronAt, "cron") /\ CheckConcurrent(cronAt)
  BY DEF EventFire, CronFire, ShapeOK

\* The runs that count are finite in number.
LEMMA CountedFinite ==
    ASSUME ShapeOK
    PROVE  /\ IsFiniteSet(Executing \cup panicked)
           /\ Cardinality(Executing \cup panicked) \in 0..Cardinality(Runs)
<1>1. (Executing \cup panicked) \in SUBSET Runs
  BY DEF Executing, ShapeOK
<1> QED BY <1>1, FS_Subset, FS_CardinalityType, RoutinesAssumption

\* Only a start adds a run to those that execute or panicked, only a finish
\* takes one away; a panic moves one from the first to the second.
LEMMA CountStep == ShapeOK /\ CountInv /\ [Next]_vars => CountInv'
<1> SUFFICES ASSUME ShapeOK, CountInv, [Next]_vars PROVE CountInv'
  OBVIOUS
<1> USE DEF CountInv, ShapeOK, passVars, memVars
<1>same. ASSUME Executing' = Executing, UNCHANGED <<running, panicked>>, \A x \in panicked : task'[x] = NoTask
      PROVE  CountInv'
  BY <1>same
<1>spawn. ASSUME NEW r \in RoutineIds, NEW t \in Triggers, SpawnFire(r, t)
          PROVE  Executing' = Executing /\ \A y \in panicked : task'[y] = NoTask
  <2>1. PICK x \in Runs \ panicked :
           /\ task[x] = NoTask /\ task'[x].at = "spawned" /\ \A y \in Runs \ {x} : task'[y] = task[y]
    BY <1>spawn, SpawnEffect
  <2> QED BY <2>1, TaskThere DEF Executing, At, None
<1>1. CASE EventMessage
  BY <1>1, <1>same DEF EventMessage, Executing, At
<1>2. CASE EventFire
  BY <1>2, <1>same, <1>spawn, FireEffect DEF EventFire, Executing, At, Triggers
<1>3. CASE CronTick
  BY <1>3, <1>same DEF CronTick, Executing, At
<1>4. CASE CronFire
  BY <1>4, <1>same, <1>spawn, FireEffect DEF CronFire, Executing, At, Triggers
<1>5. CASE RefreshList
  BY <1>5, <1>same DEF RefreshList, Executing, At
<1>6. CASE RefreshInstall
  BY <1>6, <1>same DEF RefreshInstall, Executing, At
<1>7. CASE Tick
  BY <1>7, <1>same DEF Tick, Executing, At
<1>8. CASE Crash
  <2>1. Executing' \cup panicked' = {}
    BY <1>8, TaskThere DEF Crash, Executing, At, None
  <2> QED BY <1>8, <2>1, FS_EmptySet DEF Crash
<1>9. ASSUME NEW r \in RoutineIds, EventCheck(r) PROVE CountInv'
  BY <1>9, <1>same DEF EventCheck, Executing, At
<1>10. ASSUME NEW r \in RoutineIds, CronAdmit(r) PROVE CountInv'
  BY <1>10, <1>same DEF CronAdmit, Executing, At
<1>11. ASSUME NEW r \in RoutineIds, ToolCreate(r) PROVE CountInv'
  BY <1>11, <1>same DEF ToolCreate, Executing, At
<1>12. ASSUME NEW r \in RoutineIds, WebDelete(r) PROVE CountInv'
  BY <1>12, <1>same DEF WebDelete, Executing, At
<1>13. ASSUME NEW a \in Admins, AdminWrite(a) PROVE CountInv'
  BY <1>13, <1>same DEF AdminWrite, Executing, At
<1>14. ASSUME NEW a \in Admins, NEW r \in RoutineIds, AdminRead(a, r) PROVE CountInv'
  BY <1>14, <1>same DEF AdminRead, Executing, At
<1>15. ASSUME NEW x \in Runs, RunStart(x) PROVE CountInv'
  <2>1. CASE running' = running + 1
    <3>1. task' = [task EXCEPT ![x].at = "executing"] /\ UNCHANGED panicked
      BY <1>15, <2>1, CountedFinite DEF RunStart
    <3>2. task[x].at = "spawned" /\ task[x] # NoTask
      BY <1>15, Somewhere DEF RunStart, At
    <3>3. x \notin Executing \cup panicked
      BY <3>2 DEF Executing, At
    <3>4. (Executing \cup panicked)' = (Executing \cup panicked) \cup {x}
      BY <3>1, <3>2, Goes DEF Executing, At
    <3>5. \A y \in panicked' : task'[y] = NoTask
      BY <3>1, <3>2, Goes
    <3> QED BY <2>1, <3>3, <3>4, <3>5, CountedFinite, FS_AddElement
  <2>2. CASE UNCHANGED running /\ task' = [task EXCEPT ![x] = NoTask]
    BY <1>15, <2>2, <1>same, TaskThere DEF RunStart, Executing, At, None
  <2> QED BY <1>15, <2>1, <2>2 DEF RunStart
<1>16. ASSUME NEW x \in Runs, RunFinish(x) PROVE CountInv'
  <2>1. task[x].at = "executing" /\ task[x] # NoTask
    BY <1>16, Somewhere DEF RunFinish, At
  <2>2. x \in Executing \cup panicked /\ x \notin panicked
    BY <2>1 DEF Executing, At
  <2>3. task' = [task EXCEPT ![x].at = "finishing"] /\ UNCHANGED panicked /\ running' = running - 1
    BY <1>16 DEF RunFinish
  <2>4. (Executing \cup panicked)' = (Executing \cup panicked) \ {x}
    BY <2>1, <2>2, <2>3, Goes DEF Executing, At
  <2>5. \A y \in panicked' : task'[y] = NoTask
    BY <2>1, <2>3, Goes
  <2>6. Cardinality((Executing \cup panicked) \ {x}) = Cardinality(Executing \cup panicked) - 1
    BY <2>2, CountedFinite, FS_RemoveElement
  <2> QED BY <2>3, <2>4, <2>5, <2>6
<1>17. ASSUME NEW x \in Runs, RunComplete(x) PROVE CountInv'
  BY <1>17, <1>same, Goes, Somewhere DEF RunComplete, Executing, At
<1>18. ASSUME NEW x \in Runs, RunClose(x) PROVE CountInv'
  BY <1>18, <1>same, Somewhere, TaskThere DEF RunClose, Executing, At, None
<1>19. ASSUME NEW x \in Runs, RunPanic(x) PROVE CountInv'
  <2>1. (Executing \cup panicked)' = Executing \cup panicked
    BY <1>19, TaskThere DEF RunPanic, Executing, At, None
  <2> QED BY <1>19, <2>1 DEF RunPanic
<1>20. CASE UNCHANGED vars
  BY <1>20, <1>same DEF vars, Executing, At
<1> HIDE DEF CountInv
<1> QED
  BY <1>1, <1>2, <1>3, <1>4, <1>5, <1>6, <1>7, <1>8, <1>9, <1>10, <1>11, <1>12, <1>13, <1>14,
     <1>15, <1>16, <1>17, <1>18, <1>19, <1>20
     DEF Next, RunStep

\* A pass takes a routine off its list before it fires it.
LEMMA PassStep == ShapeOK /\ PassInv /\ [Next]_vars => PassInv'
<1> SUFFICES ASSUME ShapeOK, PassInv, [Next]_vars PROVE PassInv'
  OBVIOUS
<1> USE DEF PassInv, passVars, memVars
<1>none. \A r \in RoutineIds : r # None
  BY RoutinesAssumption DEF None
<1>1. CASE CronTick \/ CronFire \/ Crash
  BY <1>1, <1>none DEF CronTick, CronIdle, CronFire, Crash
<1>2. CASE Tick
  <2>1. \A r \in RoutineIds : cronTodo'[r] = Out <=> cronTodo[r] = Out
    BY <1>2, AgedFacts DEF Tick, ShapeOK
  <2> QED BY <1>2, <2>1 DEF Tick
<1>3. ASSUME NEW r \in RoutineIds, CronAdmit(r) PROVE PassInv'
  <2>1. CASE AtCapacity
    BY <1>3, <2>1, <1>none DEF CronAdmit
  <2>2. CASE ~AtCapacity
    <3>1. cronTodo' = [cronTodo EXCEPT ![r] = Out] /\ cronAt' \in {r, None}
      BY <1>3, <2>2 DEF CronAdmit
    <3> QED BY <3>1, <1>none DEF ShapeOK
  <2> QED BY <2>1, <2>2
<1>4. CASE UNCHANGED <<cronTodo, cronAt>>
  BY <1>4
<1>5. ASSUME NEW x \in Runs, RunStep(x) \/ RunPanic(x) PROVE UNCHANGED <<cronTodo, cronAt>>
  BY <1>5 DEF RunStep, RunStart, RunFinish, RunComplete, RunClose, RunPanic
<1>6. ASSUME NEW r \in RoutineIds, EventCheck(r) \/ ToolCreate(r) \/ WebDelete(r)
      PROVE  UNCHANGED <<cronTodo, cronAt>>
  BY <1>6 DEF EventCheck, ToolCreate, WebDelete
<1>7. ASSUME NEW a \in Admins, AdminWrite(a) \/ \E r \in RoutineIds : AdminRead(a, r)
      PROVE  UNCHANGED <<cronTodo, cronAt>>
  BY <1>7 DEF AdminWrite, AdminRead
<1>8. CASE EventMessage \/ EventFire \/ RefreshList \/ RefreshInstall \/ UNCHANGED vars
  BY <1>8, <1>4 DEF EventMessage, EventFire, RefreshList, RefreshInstall, vars
<1> HIDE DEF PassInv
<1> QED BY <1>1, <1>2, <1>3, <1>4, <1>5, <1>6, <1>7, <1>8 DEF Next

\* Only the end of a run makes a routine younger, and cronSaw has the routine
\* of every run that can end while the ticker has it on its list.
LEMMA AgeStep == ShapeOK /\ PassInv /\ AgeInv /\ [Next]_vars => AgeInv'
<1> SUFFICES ASSUME ShapeOK, PassInv, AgeInv, [Next]_vars PROVE AgeInv'
  OBVIOUS
<1> USE DEF passVars, memVars
<1>none. \A r \in RoutineIds : r # None
  BY RoutinesAssumption DEF None
<1>ages. \A r \in RoutineIds : cronTodo[r] # Out => cronTodo[r] \in Ages /\ cronTodo[r] <= Cooldown
  BY AgeFacts DEF ShapeOK
<1>there. \A r \in RoutineIds : Exists(r) => db[r] \in Routine /\ db[r].age \in Ages
  BY RoutineFacts DEF ShapeOK, Exists
<1>same. ASSUME UNCHANGED <<cronTodo, cronAt, cronSaw>>,
                \A x \in Runs : task'[x] # NoTask => task[x] # NoTask /\ task'[x].routine = task[x].routine,
                \A r \in RoutineIds : Exists(r)' =>
                    \/ db'[r].age = Cooldown
                    \/ Exists(r) /\ db'[r].age = db[r].age
         PROVE  AgeInv'
  BY <1>same, <1>ages DEF AgeInv
<1>table. ASSUME UNCHANGED <<cronTodo, cronAt, cronSaw, task>>,
                 \A r \in RoutineIds : Exists(r)' =>
                    \/ db'[r].age = Cooldown
                    \/ Exists(r) /\ db'[r].age = db[r].age
          PROVE  AgeInv'
  BY <1>same, <1>table
<1>idle. ASSUME CronIdle' PROVE AgeInv'
  BY <1>idle, <1>none DEF CronIdle, AgeInv
<1>still. ASSUME UNCHANGED db PROVE \A r \in RoutineIds : Exists(r)' => Exists(r) /\ db'[r].age = db[r].age
  BY <1>still DEF Exists
<1>gone. ASSUME NEW r \in RoutineIds, DeleteRoutine(r)
         PROVE  \A s \in RoutineIds : Exists(s)' => Exists(s) /\ db'[s].age = db[s].age
  BY <1>gone DEF DeleteRoutine, Exists, ShapeOK
<1>1. CASE EventMessage
  BY <1>1, <1>table, <1>still DEF EventMessage
<1>2. CASE EventFire
  <2>1. CASE CronIdle
    BY <1>2, <2>1, <1>idle DEF EventFire, CronIdle
  <2>2. CASE ~CronIdle
    <3>1. cronSaw' = cronSaw \cup {evAt} /\ UNCHANGED <<db, cronTodo, cronAt>>
      BY <1>2, <2>2 DEF EventFire
    <3>2. \A x \in Runs : task'[x] = task[x] \/ task'[x].routine = evAt
      <4>1. CASE UNCHANGED task
        BY <4>1
      <4>2. CASE evAt \in RoutineIds /\ SpawnFire(evAt, "event")
        BY <4>2, SpawnEffect DEF Triggers
      <4> QED BY <1>2, <4>1, <4>2 DEF EventFire, ShapeOK
    <3> QED BY <1>still, <3>1, <3>2 DEF AgeInv, Exists
  <2> QED BY <2>1, <2>2
<1>3. CASE CronTick
  <2>1. /\ cronSaw' = LiveRoutines /\ UNCHANGED <<db, task, cronAt>> /\ cronAt = None
        /\ cronTodo' = ListDueCronRoutines
    BY <1>3 DEF CronTick, CronIdle
  <2>2. \A r \in RoutineIds : cronTodo'[r] # Out => Exists(r) /\ cronTodo'[r] = db[r].age
    BY <2>1 DEF ListDueCronRoutines
  <2>3. \A r \in RoutineIds \ LiveRoutines, x \in Runs : task[x] # NoTask => task[x].routine # r
    BY DEF LiveRoutines
  <2>4. \A a \in Ages : a >= a
    BY DEF Ages
  <2> QED BY <1>none, <1>there, <2>1, <2>2, <2>3, <2>4 DEF AgeInv, Exists
<1>4. CASE CronFire
  <2>1. CASE CronIdle'
    BY <2>1, <1>idle
  <2>2. CASE ~CronIdle'
    <3>1. UNCHANGED <<cronSaw, db, cronTodo>> /\ cronAt' = None /\ cronAt \in RoutineIds
      BY <1>4, <2>2 DEF CronFire, ShapeOK
    <3>2. \A x \in Runs : task'[x] = task[x] \/ task'[x].routine = cronAt
      <4>1. CASE UNCHANGED task
        BY <4>1
      <4>2. CASE SpawnFire(cronAt, "cron")
        BY <3>1, <4>2, SpawnEffect DEF Triggers
      <4> QED BY <1>4, <4>1, <4>2 DEF CronFire
    <3>3. cronTodo[cronAt] = Out
      BY <3>1 DEF PassInv
    <3> QED BY <1>none, <3>1, <3>2, <3>3 DEF AgeInv, Exists
  <2> QED BY <2>1, <2>2
<1>5. CASE RefreshList
  BY <1>5, <1>table, <1>still DEF RefreshList
<1>6. CASE RefreshInstall
  BY <1>6, <1>table, <1>still DEF RefreshInstall
<1>7. CASE Tick
  <2>1. \A r \in RoutineIds : /\ cronTodo'[r] = Out <=> cronTodo[r] = Out
                              /\ cronTodo'[r] = Older(cronTodo[r])
    BY <1>7, AgedFacts DEF Tick, ShapeOK
  <2>2. \A r \in RoutineIds : Exists(r)' => Exists(r) /\ db'[r].age = Older(db[r].age)
    BY <1>7, TickTable, RoutineThere DEF Exists
  <2>3. UNCHANGED <<cronAt, cronSaw, task>>
    BY <1>7 DEF Tick
  <2>4. Cooldown \in Ages /\ Older(Cooldown) = Cooldown
    BY AgeFacts
  <2>5. \A a, b \in Ages : a >= b => Older(a) >= Older(b)
    BY AgeFacts DEF Ages
  <2> QED BY <1>ages, <1>there, <2>1, <2>2, <2>3, <2>4, <2>5 DEF AgeInv
<1>8. CASE Crash
  BY <1>8, <1>idle DEF Crash, CronIdle
<1>9. ASSUME NEW r \in RoutineIds, EventCheck(r) PROVE AgeInv'
  BY <1>9, <1>table, <1>still DEF EventCheck
<1>10. ASSUME NEW r \in RoutineIds, CronAdmit(r) PROVE AgeInv'
  <2>1. CASE CronIdle'
    BY <2>1, <1>idle
  <2>2. CASE ~CronIdle'
    <3>1. ~AtCapacity
      BY <1>10, <2>2 DEF CronAdmit, CronIdle
    <3>2. /\ UNCHANGED <<cronSaw, db, task>> /\ cronTodo' = [cronTodo EXCEPT ![r] = Out]
          /\ cronAt' = None \/ (cronAt' = r /\ cronTodo[r] = Cooldown)
          /\ cronTodo[r] # Out
      BY <1>10, <2>2, <3>1 DEF CronAdmit, CheckCooldown
    <3>3. \A a \in Ages : a >= Cooldown => a = Cooldown
      BY RoutinesAssumption DEF Ages
    <3> QED BY <1>none, <1>there, <3>2, <3>3 DEF AgeInv, Exists, ShapeOK
  <2> QED BY <2>1, <2>2
<1>11. ASSUME NEW r \in RoutineIds, ToolCreate(r) PROVE AgeInv'
  <2>1. PICK q : db' = [db EXCEPT ![r] = q] /\ q.age = Cooldown
    <3>1. PICK t \in Triggers, n \in Fires :
              db' = [db EXCEPT ![r] = [enabled |-> TRUE, trigger |-> t, age |-> Cooldown,
                                       next |-> IF t = "cron" THEN n ELSE Never]]
      BY <1>11 DEF ToolCreate
    <3> DEFINE q == [enabled |-> TRUE, trigger |-> t, age |-> Cooldown,
                     next |-> IF t = "cron" THEN n ELSE Never]
    <3>2. db' = [db EXCEPT ![r] = q] /\ q.age = Cooldown
      BY <3>1
    <3> HIDE DEF q
    <3> QED BY <3>2
  <2>2. \A s \in RoutineIds : Exists(s)' => db'[s].age = Cooldown \/ (Exists(s) /\ db'[s].age = db[s].age)
    BY <2>1 DEF Exists, ShapeOK
  <2> QED BY <1>11, <2>2, <1>table DEF ToolCreate
<1>12. ASSUME NEW r \in RoutineIds, WebDelete(r) PROVE AgeInv'
  BY <1>12, <1>table, <1>gone DEF WebDelete
<1>13. ASSUME NEW a \in Admins, AdminWrite(a) PROVE AgeInv'
  <2>1. admin[a].routine \in RoutineIds /\ admin[a].copy \in Routine
    BY <1>13, RequestFacts DEF AdminWrite, ShapeOK
  <2>2. ASSUME UpdateRoutine(admin[a].routine, admin[a].copy)
        PROVE  \A s \in RoutineIds : Exists(s)' => Exists(s) /\ db'[s].age = db[s].age
    <3> DEFINE r == admin[a].routine
               c == [admin[a].copy EXCEPT !.age = db[r].age]
    <3>1. c.age = db[r].age
      BY <2>1 DEF Routine
    <3>2. db' = [db EXCEPT ![r] = IF Exists(r) THEN c ELSE @]
      BY <2>2 DEF UpdateRoutine
    <3> HIDE DEF r, c
    <3> QED BY <3>1, <3>2 DEF Exists, ShapeOK
  <2> QED BY <1>13, <2>1, <2>2, <1>table, <1>gone, <1>still DEF AdminWrite
<1>14. ASSUME NEW a \in Admins, NEW r \in RoutineIds, AdminRead(a, r) PROVE AgeInv'
  BY <1>14, <1>table, <1>still DEF AdminRead
<1>15. ASSUME NEW x \in Runs, RunStart(x) PROVE AgeInv'
  <2>1. task[x] # NoTask
    BY <1>15, Somewhere DEF RunStart
  <2>2. \A y \in Runs : task'[y] # NoTask => task[y] # NoTask /\ task'[y].routine = task[y].routine
    BY <1>15, <2>1, Goes DEF RunStart, ShapeOK
  <2> QED BY <1>15, <2>2, <1>same, <1>still DEF RunStart
<1>16. ASSUME NEW x \in Runs, RunFinish(x) PROVE AgeInv'
  <2>1. task[x] # NoTask
    BY <1>16, Somewhere DEF RunFinish
  <2>2. \A y \in Runs : task'[y] # NoTask => task[y] # NoTask /\ task'[y].routine = task[y].routine
    BY <1>16, <2>1, Goes DEF RunFinish
  <2> QED BY <1>16, <2>2, <1>same, <1>still DEF RunFinish
<1>17. ASSUME NEW x \in Runs, RunComplete(x) PROVE AgeInv'
  <2>1. task[x] # NoTask
    BY <1>17, Somewhere DEF RunComplete
  <2>2. \A y \in Runs : task'[y] # NoTask => task[y] # NoTask /\ task'[y].routine = task[y].routine
    BY <1>17, <2>1, Goes DEF RunComplete
  <2> QED BY <1>17, <2>2, <1>same, <1>still DEF RunComplete
<1>18. ASSUME NEW x \in Runs, RunClose(x) PROVE AgeInv'
  <2>1. task[x] # NoTask /\ task[x].routine \in RoutineIds
    BY <1>18, Somewhere, TaskThere DEF RunClose, ShapeOK
  <2>2. \A r \in RoutineIds : r = task[x].routine \/ db'[r] = db[r]
    BY <1>18, <2>1, CloseTable
  <2>3. UNCHANGED <<cronTodo, cronAt, cronSaw>> /\ \A y \in Runs : task'[y] # NoTask => task'[y] = task[y]
    BY <1>18 DEF RunClose, ShapeOK
  <2> QED BY <2>1, <2>2, <2>3 DEF AgeInv, Exists
<1>19. ASSUME NEW x \in Runs, RunPanic(x) PROVE AgeInv'
  <2>1. \A y \in Runs : task'[y] # NoTask => task'[y] = task[y]
    BY <1>19 DEF RunPanic, ShapeOK
  <2> QED BY <1>19, <2>1, <1>same, <1>still DEF RunPanic
<1>20. CASE UNCHANGED vars
  BY <1>20, <1>table, <1>still DEF vars
<1> HIDE DEF AgeInv
<1> QED
  BY <1>1, <1>2, <1>3, <1>4, <1>5, <1>6, <1>7, <1>8, <1>9, <1>10, <1>11, <1>12, <1>13, <1>14,
     <1>15, <1>16, <1>17, <1>18, <1>19, <1>20
     DEF Next, RunStep

-----------------------------------------------------------------------------
(* The theorems. *)

\* The inductive invariant of the routine engine.
IInv == ShapeOK /\ CountInv /\ PassInv /\ AgeInv

\* It holds in every reachable state.
THEOREM Invariance == Spec => []IInv
<1>1. Init => IInv
  <2> SUFFICES ASSUME Init PROVE IInv
    OBVIOUS
  <2>1. ShapeOK
    <3>1. db \in [RoutineIds -> Routine \cup {Unused, Deleted}]
      <4>1. [enabled |-> TRUE, trigger |-> "event", age |-> Cooldown, next |-> Never] \in Routine
        BY AgeFacts DEF Routine, Triggers
      <4>2. \A n \in Nexts \cup {Never} : [enabled |-> TRUE, trigger |-> "cron", age |-> Cooldown, next |-> n] \in Routine
        BY AgeFacts DEF Routine, Triggers
      <4> DEFINE first == {Unused} \cup {[enabled |-> TRUE, trigger |-> "event", age |-> Cooldown, next |-> Never]}
                       \cup {[enabled |-> TRUE, trigger |-> "cron", age |-> Cooldown, next |-> n] : n \in Nexts \cup {Never}}
      <4>3. first \subseteq Routine \cup {Unused, Deleted}
        BY <4>1, <4>2
      <4>4. db \in [RoutineIds -> first]
        BY DEF Init
      <4> HIDE DEF first
      <4> QED BY <4>3, <4>4
    <3>2. cache \in [RoutineIds -> Ages \cup {Out}]
      <4>1. \A r \in RoutineIds : Exists(r) => db[r].age \in Ages
        BY <3>1, RoutineFacts DEF Exists
      <4> QED BY <4>1 DEF Init, ListEventRoutines
    <3> QED BY <3>1, <3>2, RequestFacts, RoutinesAssumption DEF Init, ShapeOK
  <2>2. CountInv
    <3>1. Executing \cup panicked = {}
      BY TaskThere DEF Init, Executing, At, None
    <3> QED BY <3>1, FS_EmptySet DEF Init, CountInv
  <2>3. PassInv
    BY RoutinesAssumption DEF Init, PassInv, None
  <2>4. AgeInv
    BY RoutinesAssumption DEF Init, AgeInv, None
  <2> QED BY <2>1, <2>2, <2>3, <2>4 DEF IInv
<1>2. IInv /\ [Next]_vars => IInv'
  BY ShapeStep, CountStep, PassStep, AgeStep DEF IInv
<1> QED BY <1>1, <1>2, PTL DEF Spec

\* Every variable keeps its type, and running_count is never negative nor above
\* the number of runs.
THEOREM TypeCorrect == Spec => []TypeOK
<1>1. IInv => TypeOK
  <2> SUFFICES ASSUME IInv PROVE TypeOK
    OBVIOUS
  <2>1. running \in 0..Cardinality(Runs)
    BY CountedFinite DEF IInv, CountInv
  <2> QED BY <2>1 DEF IInv, ShapeOK, TypeOK
<1> QED BY <1>1, Invariance, PTL

\* running_count is never below the number of runs that execute, and equals it
\* until a run panics.
THEOREM CountIsExact == Spec => []RunningCountExact
<1>1. IInv => RunningCountExact
  <2> SUFFICES ASSUME IInv PROVE RunningCountExact
    OBVIOUS
  <2>1. IsFiniteSet(Executing \cup panicked) /\ running = Cardinality(Executing \cup panicked)
    BY CountedFinite DEF IInv, CountInv
  <2>2. Executing \in SUBSET (Executing \cup panicked)
    OBVIOUS
  <2>3. Cardinality(Executing) <= running
    BY <2>1, <2>2, FS_Subset
  <2>4. panicked = {} => Executing \cup panicked = Executing
    OBVIOUS
  <2> QED BY <2>1, <2>3, <2>4 DEF RunningCountExact
<1> QED BY <1>1, Invariance, PTL

\* The ticker keeps to the cooldown of what no run has touched since it read it.
THEOREM CronKeepsCooldown == Spec => CronCooldown
<1>1. IInv /\ [Next]_vars =>
        [\A r \in RoutineIds :
            CronFire /\ cronAt = r /\ task' # task /\ r \notin cronSaw =>
                ~Exists(r) \/ db[r].age = Cooldown]_vars
  BY DEF IInv, AgeInv
<1> QED BY <1>1, Invariance, PTL DEF Spec, CronCooldown

=============================================================================
