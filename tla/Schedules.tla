------------------------------ MODULE Schedules ------------------------------
(***************************************************************************)
(* The repeatable jobs in Redis (onApplicationBootstrap of                 *)
(* queue.service.ts): every process that starts removes what it finds in a *)
(* queue and adds the job anew, one queue after the other.                 *)
(*                                                                         *)
(* A job's key has its cron in it, so that adding it twice with the same   *)
(* cron leaves one; a new release may bring another cron.                  *)
(***************************************************************************)
EXTENDS Integers, FiniteSets

CONSTANTS
  Process,   \* processes of the application
  Queue,     \* number of queues, in the order they are set up
  Cron,      \* a queue's cron, by release
  MaxStarts  \* bound: starts

ASSUME SchedulesAssumption ==
  /\ IsFiniteSet(Process) /\ IsFiniteSet(Cron)
  /\ Queue \in Nat \ {0} /\ MaxStarts \in Nat

VARIABLES
  repeatable, \* the crons each queue has a repeatable job for
  starting,   \* what each process is doing: its cron, the queue, the keys it still has to remove
  starts,     \* starts so far, for the bound
  complete,   \* history: the crons of the last complete start, by queue
  together,   \* history: two processes were starting at once
  halted      \* history: a process died while it was starting

scheduleVars == <<repeatable, starting, starts, complete, together, halted>>

QueueNo == 1..Queue
Down == [at |-> "down", cron |-> {}, queue |-> 1, keys |-> {}]

SchedulesInit ==
  /\ repeatable = [q \in QueueNo |-> {}]
  /\ starting = [p \in Process |-> Down] /\ starts = 0
  /\ complete = [q \in QueueNo |-> {}]
  /\ together = FALSE /\ halted = FALSE

Busy(p) == starting[p].at \notin {"down", "up"}

Start(p, cron) ==
  /\ starting[p].at = "down"
  /\ starts < MaxStarts /\ starts' = starts + 1
  /\ starting' = [starting EXCEPT ![p] = [Down EXCEPT !.at = "list", !.cron = {cron}]]
  /\ together' = (together \/ \E x \in Process : Busy(x))
  /\ UNCHANGED <<repeatable, complete, halted>>

\* getRepeatableJobs
ListJobs(p) ==
  /\ starting[p].at = "list"
  /\ starting' = [starting EXCEPT ![p].at = "remove", ![p].keys = repeatable[starting[p].queue]]
  /\ UNCHANGED <<repeatable, starts, complete, together, halted>>

Removed(jobs, key) == jobs \ {key}

RemoveJob(p) ==
  /\ starting[p].at = "remove"
  /\ \E key \in starting[p].keys :
       /\ repeatable' = [repeatable EXCEPT ![starting[p].queue] = Removed(@, key)]
       /\ starting' = [starting EXCEPT ![p].keys = @ \ {key}]
  /\ UNCHANGED <<starts, complete, together, halted>>

Added(q, cron) == cron

AddJob(p) ==
  /\ starting[p].at = "remove" /\ starting[p].keys = {}
  /\ LET q == starting[p].queue
     IN  /\ repeatable' = [repeatable EXCEPT ![q] = @ \union Added(q, starting[p].cron)]
         /\ complete' = [complete EXCEPT ![q] = starting[p].cron]
         /\ starting' = [starting EXCEPT ![p] =
              IF q = Queue THEN [Down EXCEPT !.at = "up"]
              ELSE [@ EXCEPT !.at = "list", !.queue = q + 1]]
  /\ UNCHANGED <<starts, together, halted>>

\* A process stops, perhaps before it has set up every queue.
Stop(p) ==
  /\ starting[p].at # "down"
  /\ starting' = [starting EXCEPT ![p] = Down]
  /\ halted' = (halted \/ Busy(p))
  /\ UNCHANGED <<repeatable, starts, complete, together>>

SchedulesNext ==
  \E p \in Process :
    \/ \E cron \in Cron : Start(p, cron)
    \/ ListJobs(p) \/ RemoveJob(p) \/ AddJob(p) \/ Stop(p)
-----------------------------------------------------------------------------
(* Every queue has the job of the release that was started last, and no other,
   unless two processes started together or one died in between. *)
OneSchedulePerQueue ==
  \A q \in QueueNo :
    /\ ~halted /\ ~together
    /\ \A p \in Process : Busy(p) => starting[p].queue # q
    => repeatable[q] = complete[q]

(* Even then no queue is left without its job once a start has gone through:
   a job is missing only while a process is at its queue, or because one died there. *)
NoQueueForgotten ==
  \A q \in QueueNo :
    repeatable[q] = {} => \/ complete[q] = {} \/ halted
                          \/ \E p \in Process : Busy(p) /\ starting[p].queue = q
=============================================================================
