------------------------------ MODULE TaskLog ------------------------------
(***************************************************************************)
(* The rows of the task table and the threads that write them: background   *)
(* jobs (core/job_queue.py), request handlers that bracket an operation     *)
(* with start_task and finish_task (core/tasks.py), and operators who mark  *)
(* a row failed (main.py, task_kill).  A step is one committed transaction, *)
(* or one call that does the work.  The threads are daemon threads of one   *)
(* process; nothing looks at the table when the process starts again.       *)
(***************************************************************************)
CONSTANTS
    Jobs,         \* enqueue_task: clones, backups, restores, ZFS exports
    LogFirst,     \* handlers that log the event, then finish the task
    FinishFirst,  \* vm_action's delete and console: finish, then log
    Powers,       \* vm_action's other actions
    Faults        \* what may go wrong: "crash" of the process, "db" errors

Requests == LogFirst \cup FinishFirst \cup Powers
Tasks    == Jobs \cup Requests

ASSUME ConstantsAssumption ==
    /\ Jobs \cap Requests = {}
    /\ LogFirst \cap (FinishFirst \cup Powers) = {}
    /\ FinishFirst \cap Powers = {}
    /\ Faults \subseteq {"crash", "db"}

VARIABLES
    row,     \* status of the task's row
    pc,      \* where the task's thread is
    effect,  \* whether its operation has returned normally or has raised
    killing  \* rows a task_kill request has found running

vars == <<row, pc, effect, killing>>

Terminal == {"success", "failed"}

(* Every row has a status of the table, every thread a place in its code.   *)
TypeOK ==
    /\ row \in [Tasks -> {"absent", "queued", "running"} \cup Terminal]
    /\ pc \in [Tasks -> {"none", "start", "work", "store", "event", "fail",
                         "done", "dead"}]
    /\ effect \in [Tasks -> {"none", "returned", "raised"}]
    /\ killing \subseteq Tasks

Init ==
    /\ row = [i \in Tasks |-> "absent"]
    /\ pc = [i \in Tasks |-> "none"]
    /\ effect = [i \in Tasks |-> "none"]
    /\ killing = {}

At(i, p)   == pc[i] = p
Goto(i, p) == pc' = [pc EXCEPT ![i] = p]
Write(i, s) == row' = [row EXCEPT ![i] = s]

(* A transaction that fails leaves the row alone and the session unusable;  *)
(* a read that fails only raises, into the exception handler if there is    *)
(* one above.                                                               *)
DbError(i, handler) ==
    /\ "db" \in Faults
    /\ Goto(i, "dead") \/ Goto(i, handler)
    /\ UNCHANGED row

-----------------------------------------------------------------------------
(* enqueue_task: the row is committed, then the thread starts.              *)
Enqueue(i) ==
    /\ i \in Jobs /\ At(i, "none")
    /\ Write(i, "queued")
    /\ Goto(i, "start")
    /\ UNCHANGED <<effect, killing>>

(* start_task *)
StartTask(i) ==
    /\ i \in Requests /\ At(i, "none")
    /\ Write(i, "running")
    /\ Goto(i, "work")
    /\ UNCHANGED <<effect, killing>>

(* _run_task up to the call of the worker.                                  *)
Run(i) ==
    /\ At(i, "start")
    /\ \/ Write(i, "running") /\ Goto(i, "work")
       \/ DbError(i, "fail")
    /\ UNCHANGED <<effect, killing>>

(* Where a handler goes on when its operation has returned.                 *)
AfterWork(i) == IF i \in LogFirst THEN "event"
                ELSE IF i \in Powers THEN "done"
                ELSE "store"

(* A mutant of Work: a raised exception is taken for a result.              *)
WorkUnchecked(i) ==
    /\ At(i, "work")
    /\ \E e \in {"returned", "raised"} : effect' = [effect EXCEPT ![i] = e]
    /\ Goto(i, AfterWork(i))
    /\ UNCHANGED <<row, killing>>

(* The worker, or the operation of the request.                             *)
Work(i) ==
    /\ At(i, "work")
    /\ \/ /\ effect' = [effect EXCEPT ![i] = "returned"]
          /\ Goto(i, AfterWork(i))
       \/ /\ effect' = [effect EXCEPT ![i] = "raised"]
          /\ Goto(i, "fail")
    /\ UNCHANGED <<row, killing>>

(* finish_task('success'), and the same transaction in _run_task.           *)
Store(i) ==
    /\ At(i, "store")
    /\ \/ /\ Write(i, "success")
          /\ Goto(i, IF i \in LogFirst THEN "done" ELSE "event")
       \/ DbError(i, "fail")
    /\ UNCHANGED <<effect, killing>>

(* log_event: an error here sends a stored success to the handler as well.  *)
Event(i) ==
    /\ At(i, "event")
    /\ \/ Goto(i, IF i \in LogFirst THEN "store" ELSE "done") /\ UNCHANGED row
       \/ DbError(i, "fail")
    /\ UNCHANGED <<effect, killing>>

(* A mutant of Fail: the handler does not store the failure.                *)
FailUnstored(i) ==
    /\ At(i, "fail")
    /\ Goto(i, "done")
    /\ UNCHANGED <<row, effect, killing>>

(* A mutant of Fail: a job that failed is queued again.                     *)
FailRetried(i) ==
    /\ At(i, "fail")
    /\ Write(i, "queued") /\ Goto(i, "start")
    /\ UNCHANGED <<effect, killing>>

(* The exception handler: finish_task('failed').                            *)
Fail(i) ==
    /\ At(i, "fail")
    /\ \/ Write(i, "failed") /\ Goto(i, "done")
       \/ DbError(i, "dead")
    /\ UNCHANGED <<effect, killing>>

-----------------------------------------------------------------------------
(* task_kill reads the row, and then updates it if it is still running.     *)

KillCheck(i) ==
    /\ row[i] = "running"
    /\ killing' = killing \cup {i}
    /\ UNCHANGED <<row, pc, effect>>

(* A mutant of KillUpdate: the update has no condition.                     *)
KillUpdateAny(i) ==
    /\ i \in killing
    /\ killing' = killing \ {i}
    /\ Write(i, "failed")
    /\ UNCHANGED <<pc, effect>>

(* A mutant of KillUpdate: a status the table does not have.                *)
KillUpdateKilled(i) ==
    /\ i \in killing
    /\ killing' = killing \ {i}
    /\ IF row[i] = "running" THEN Write(i, "killed") ELSE UNCHANGED row
    /\ UNCHANGED <<pc, effect>>

KillUpdate(i) ==
    /\ i \in killing
    /\ killing' = killing \ {i}
    /\ IF row[i] = "running" THEN Write(i, "failed") ELSE UNCHANGED row
    /\ UNCHANGED <<pc, effect>>

(* The process dies and systemd starts it again: startup() creates missing  *)
(* tables and the first administrator, and leaves the rows as they are.     *)
Crash ==
    /\ "crash" \in Faults
    /\ pc' = [i \in Tasks |-> IF pc[i] \in {"none", "done"} THEN pc[i] ELSE "dead"]
    /\ killing' = {}
    /\ UNCHANGED <<row, effect>>

-----------------------------------------------------------------------------
Thread(i) == Run(i) \/ Work(i) \/ Store(i) \/ Event(i) \/ Fail(i)

Next ==
    \/ \E i \in Tasks : \/ Enqueue(i) \/ StartTask(i) \/ Thread(i)
                        \/ KillCheck(i) \/ KillUpdate(i)
    \/ Crash

Spec == Init /\ [][Next]_vars

(* Threads run, and the operations they call return or raise.               *)
FairSpec == Spec /\ \A i \in Tasks : WF_vars(Thread(i))

-----------------------------------------------------------------------------
(* Where a thread is tells what it has done: the inductive form of the      *)
(* properties below.                                                        *)
Progress(i) ==
    /\ At(i, "none") => row[i] = "absent"
    /\ At(i, "start") => row[i] = "queued"
    /\ At(i, "work") => row[i] \in {"running", "failed"}
    /\ pc[i] \in {"store", "event"} => effect[i] = "returned"

(* A row that says success belongs to an operation that returned normally,  *)
(* whoever else wrote the row before and wherever the process died.         *)
TruthfulSuccess == \A i \in Tasks : row[i] = "success" => effect[i] = "returned"

(* A row that has been given a result never goes back to queued or running: *)
(* neither a kill that came before the thread's own write nor a database    *)
(* error revives it.                                                        *)
NoResurrection ==
    [][\A i \in Tasks : row[i] \in Terminal => row'[i] \in Terminal]_vars

(* A stored success is only taken back by the thread that stored it: a kill *)
(* that found the row running before the success was stored comes to        *)
(* nothing.                                                                 *)
OnlyOwnerRevokes ==
    [][\A i \in Tasks :
          row[i] = "success" /\ row'[i] # "success" => pc[i] # pc'[i]]_vars

(* Every job that is queued, and every bracketed request, ends with a       *)
(* result in its row for good, killed or not, unless its thread has died,   *)
(* with the process or of a database error nobody catches.                  *)
ResultsArrive ==
    \A i \in Tasks \ Powers :
       row[i] \in {"queued", "running"} ~> [](row[i] \in Terminal \/ At(i, "dead"))

=============================================================================
