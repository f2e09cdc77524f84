------------------------------ MODULE JobBoard ------------------------------
(***************************************************************************)
(* What the job subsystem promises, without its tasks, locks, queues and   *)
(* database: a board of jobs.  At most MaxParallelJobs cards are open.  A  *)
(* card is worked on once: work starts only on a queued card, and whatever *)
(* ends it (an outcome, a halt, a cancellation) it is never started again. *)
(* An outcome is final.  This module is an abstraction made for the        *)
(* project; it translates no code of its own.                              *)
(***************************************************************************)
EXTENDS Naturals, FiniteSets

CONSTANTS Jobs, MaxParallelJobs

VARIABLE card

\* Every card but a failed, cancelled or stopping one keeps its place.
OpenCards == {j \in Jobs : card[j] \in {"queued", "working", "halted", "completed"}}

Move(j, from, to) == card[j] \in from /\ card' = [card EXCEPT ![j] = to]

Add(j) == Cardinality(OpenCards) < MaxParallelJobs /\ Move(j, {"none"}, "queued")

Start(j) == Move(j, {"queued"}, "working")

\* The worker ends, with an outcome or without one.
Finish(j) == \E s \in {"completed", "failed", "halted"} : Move(j, {"working"}, s)

\* A cancelled card is put away at once, or after its worker has noticed.
Cancel(j) == Move(j, {"queued", "working", "halted"}, "cancelled")
AskToStop(j) == Move(j, {"working"}, "stopping")
Stopped(j) == Move(j, {"stopping"}, "cancelled")

BoardInit == card = [j \in Jobs |-> "none"]

BoardNext ==
    \E j \in Jobs :
       Add(j) \/ Start(j) \/ Finish(j) \/ Cancel(j) \/ AskToStop(j) \/ Stopped(j)

Board == BoardInit /\ [][BoardNext]_card

=============================================================================
