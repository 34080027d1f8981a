--------------------------- MODULE SimpleExecutor ---------------------------
(***************************************************************************)
(* The SimpleExecutor of src/task/simple_executor.rs: a queue of tasks     *)
(* that run polls in turn, with a waker that does nothing, until all are   *)
(* done.  A future may stay pending for up to MaxPolls polls.              *)
(***************************************************************************)
EXTENDS Naturals, Sequences, SequencesExt

CONSTANTS
  Tasks,
  MaxPolls  \* bound: polls a future needs at most

ASSUME SimpleExecutorAssumption == MaxPolls \in Nat \ {0}

VARIABLES
  simple_queue,  \* SimpleExecutor::task_queue
  running,   \* run has been called and has not returned
  polls,     \* history: how often a task was polled, 0 if it is not spawned
  spawned,   \* history: tasks given to spawn
  finished   \* history: tasks whose poll returned Ready

simpleVars == <<simple_queue, running, polls, spawned, finished>>

(* SimpleExecutor::new.                                                    *)
SimpleInit ==
  /\ simple_queue = << >> /\ running = FALSE
  /\ polls = [t \in Tasks |-> 0] /\ spawned = {} /\ finished = {}

SimpleSpawn(t) ==
  /\ ~running /\ t \notin spawned
  /\ simple_queue' = Append(simple_queue, t)
  /\ spawned' = spawned \union {t}
  /\ UNCHANGED <<running, polls, finished>>

SimpleRun ==
  /\ ~running
  /\ running' = TRUE
  /\ UNCHANGED <<simple_queue, polls, spawned, finished>>

(* Mutant of Requeue: a pending task goes to the front.                    *)
RequeueFront(queue, t) == Cons(t, queue)

Requeue(queue, t) == Append(queue, t)

(* One turn of the loop in run.                                            *)
PollFront ==
  LET t == Head(simple_queue)
  IN /\ running /\ simple_queue # << >>
     /\ polls' = [polls EXCEPT ![t] = @ + 1]
     /\ \/ simple_queue' = Tail(simple_queue) /\ finished' = finished \union {t}
        \/ /\ polls[t] + 1 < MaxPolls
           /\ simple_queue' = Requeue(Tail(simple_queue), t)
           /\ UNCHANGED finished
     /\ UNCHANGED <<running, spawned>>

RunReturns ==
  /\ running /\ simple_queue = << >>
  /\ running' = FALSE
  /\ UNCHANGED <<simple_queue, polls, spawned, finished>>

SimpleNext ==
  \/ \E t \in Tasks : SimpleSpawn(t)
  \/ SimpleRun \/ PollFront \/ RunReturns

SimpleSpec == SimpleInit /\ [][SimpleNext]_simpleVars

-----------------------------------------------------------------------------
(* Tasks whose poll has not returned Ready.                                *)
Unfinished == spawned \ finished

(***************************************************************************)
(* run is fair: of the tasks it was started with, none is polled twice     *)
(* while another unfinished one waits, and none is forgotten, as no waker  *)
(* would bring it back.                                                    *)
(***************************************************************************)
RoundRobin ==
  /\ \A t, u \in Unfinished : polls[t] <= polls[u] + 1
  /\ Unfinished = ToSet(simple_queue)
=============================================================================
