----------------------------- MODULE TaskManager ----------------------------
(***************************************************************************)
(* The task queue: a singleton made by the first call that wants it, with  *)
(* a detached worker thread.  The event loop adds tasks and stops the      *)
(* manager; the worker takes them one by one and deletes the manager when  *)
(* it leaves its loop.  What is done inside the mutex is one step; stop()   *)
(* and the head of the worker's loop take no mutex.                        *)
(***************************************************************************)
EXTENDS Integers, SequencesExt

VARIABLES tm,       \* the object tm points to: "none", "live" or "freed"
          stopFlg,
          tasks,    \* the ids of the queued tasks
          grown,    \* tasks has had an element: its vector has storage
          worker    \* where the worker thread is

taskVars == <<tm, stopFlg, tasks, grown, worker>>

TaskInit ==
    /\ tm = "none" /\ stopFlg = FALSE /\ tasks = <<>> /\ grown = FALSE
    /\ worker = "none"

\* getTaskManager makes the manager, whose constructor starts the worker.
WorkerAfterGet == IF tm = "none" THEN "check" ELSE worker

\* A worker that waits for the condition is woken and tests it again.
Notified(w) == IF w = "asleep" THEN "awake" ELSE w

\* Mutant of AddTask: the worker is not notified.
AddTaskSilently(id) ==
    /\ tm # "freed"
    /\ tm' = "live" /\ worker' = WorkerAfterGet
    /\ tasks' = IF id \in ToSet(tasks) THEN tasks ELSE Append(tasks, id)
    /\ grown' = TRUE
    /\ UNCHANGED stopFlg

\* addTask refuses (and leaks) a task whose id is queued already.
AddTask(id) ==
    /\ tm # "freed"
    /\ tm' = "live"
    /\ IF id \in ToSet(tasks)
       THEN tasks' = tasks /\ worker' = WorkerAfterGet
       ELSE tasks' = Append(tasks, id) /\ worker' = Notified(WorkerAfterGet)
    /\ grown' = TRUE
    /\ UNCHANGED stopFlg

\* stop() sets the flag ...
StopFlag ==
    /\ tm # "freed"
    /\ tm' = "live" /\ stopFlg' = TRUE
    /\ worker' = WorkerAfterGet
    /\ UNCHANGED <<tasks, grown>>

\* ... and then notifies whoever waits, if the worker has not deleted the manager
\* meanwhile.
NotifyAll ==
    /\ tm # "freed"
    /\ worker' = Notified(worker)
    /\ UNCHANGED <<tm, stopFlg, tasks, grown>>
-----------------------------------------------------------------------------
\* The head of the loop.
WorkerGoesOn ==
    /\ worker = "check" /\ ~stopFlg
    /\ worker' = "awake"
    /\ UNCHANGED <<tm, stopFlg, tasks, grown>>

\* The predicate of the wait, evaluated with the mutex held.
WorkerSleeps ==
    /\ worker = "awake" /\ tasks = <<>>
    /\ worker' = "asleep"
    /\ UNCHANGED <<tm, stopFlg, tasks, grown>>

WorkerTakes ==
    /\ worker = "awake" /\ tasks # <<>>
    /\ tasks' = Tail(tasks)
    /\ worker' = "run"
    /\ UNCHANGED <<tm, stopFlg, grown>>

\* The loop ends and the worker deletes the manager with the tasks left in it;
\* tm keeps pointing to it.
WorkerExits ==
    /\ worker = "check" /\ stopFlg /\ grown
    /\ tm' = "freed" /\ worker' = "gone" /\ tasks' = <<>>
    /\ UNCHANGED <<stopFlg, grown>>

\* The destructor walks the vector backwards from end() - 1.  A vector that
\* never had storage begins at the null pointer, before which nothing lies: the
\* walk deletes what it finds below.
WorkerExitFaults == worker = "check" /\ stopFlg /\ ~grown
=============================================================================
