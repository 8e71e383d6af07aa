-------------------------- MODULE ManagedProcesses --------------------------
(***************************************************************************)
(* The long-running child processes of the service (process_runtime.py and *)
(* service.py): their slots, the registry, the reader and watcher threads  *)
(* of each, and the steps of a thread that starts or stops one.            *)
(*                                                                         *)
(* A process is named by the run it serves.  Of its output the model has   *)
(* whether some is unread, and its exit code is left out.  A kill ends a   *)
(* process before the call that made it returns.  The module that extends  *)
(* this one has the threads' calls: At is a thread's step, Go moves on.    *)
(***************************************************************************)
EXTENDS Integers, FiniteSets

CONSTANTS
  Callers,   \* threads that run the tools
  Runs,      \* bound: runs started; the watcher of a run's process has its name
  Slots,     \* MAX_MANAGED_PROCESSES
  Nobody     \* holds a free lock

Threads == Callers \cup Runs

ASSUME SlotsAssumption ==
  Slots \in Nat /\ Callers \cap Runs = {} /\ Nobody \notin Threads

VARIABLES
  proc,      \* per run: the process, its record and its slot
  service,   \* the flags of shutdown()
  thread     \* per thread: its step, the run in hand and where it goes on

Process == [os : {"none", "alive", "dead"}, slot : BOOLEAN,
            known : {"no", "yes", "history"},
            stop : BOOLEAN, timeout : BOOLEAN, clean : BOOLEAN, ended : BOOLEAN,
            finished : BOOLEAN, callback : BOOLEAN, unread : BOOLEAN]

NoProcess == [os |-> "none", slot |-> FALSE, known |-> "no",
              stop |-> FALSE, timeout |-> FALSE, clean |-> FALSE, ended |-> FALSE,
              finished |-> FALSE, callback |-> FALSE, unread |-> FALSE]

ProcessInit ==
  /\ proc = [r \in Runs |-> NoProcess]
  /\ service = [slotsClosed |-> FALSE, closing |-> FALSE, down |-> FALSE]

At(t, step) == thread[t].at = step
NoCall(t) == [at |-> "idle", run |-> t, back |-> "idle", after |-> "idle", seen |-> "running", todo |-> {}]
(* A step that goes through runs, or ends, has none in hand.               *)
Moved(call, t, step) ==
  [call EXCEPT !.at = step, !.seen = IF step = "decide" THEN @ ELSE "running",
               !.run = IF step \in {"each", "sweep", "revoke", "survey", "reap", "stopall", "unlock"} THEN t ELSE @]
Go(t, step) == thread' = [thread EXCEPT ![t] = IF step = "idle" THEN NoCall(t) ELSE Moved(@, t, step)]
(* The end of a refresh and of a stop.                                     *)
Returns(t) == IF thread[t].back = "idle" THEN Go(t, "idle")
              ELSE thread' = [thread EXCEPT ![t] = Moved([@ EXCEPT !.back = "idle"], t, thread[t].back)]
Stopped(t) == thread' = [thread EXCEPT ![t] = Moved([@ EXCEPT !.after = "idle"], t, thread[t].after)]
Hand(t) == thread[t].run

Alive(r) == proc[r].os = "alive"
Taken == {r \in Runs : proc[r].slot}
-----------------------------------------------------------------------------
(* The child process and the threads that read its pipes. *)

Exit(r) ==
  /\ Alive(r) /\ proc' = [proc EXCEPT ![r].os = "dead"]
  /\ UNCHANGED <<service, thread>>

(* A reader thread takes the next chunk: the pipe may hold some after the  *)
(* process is gone.                                                        *)
Read(r) ==
  /\ proc[r].known = "yes" /\ ~proc[r].clean
  /\ proc' = [proc EXCEPT ![r].unread = TRUE]
  /\ UNCHANGED <<service, thread>>

Child(r) == Exit(r) \/ Read(r)
-----------------------------------------------------------------------------
(* _watch_managed_process(), up to the completion callback. *)

WatchTimeout(r) ==
  /\ At(r, "wait") /\ Alive(r)
  /\ proc' = [proc EXCEPT ![r].timeout = TRUE, ![r].os = "dead"]
  /\ UNCHANGED <<service, thread>>

(* The readers end, the handles are closed and the slot is freed.          *)
CleanUp(r) ==
  /\ At(r, "wait") /\ proc[r].os = "dead" /\ Go(r, "end")
  /\ proc' = [proc EXCEPT ![r].clean = TRUE, ![r].slot = FALSE]
  /\ UNCHANGED service

(* record.lock is held from here to the end of Finished.                   *)
End(r) ==
  /\ At(r, "end") /\ Go(r, "finish")
  /\ proc' = [proc EXCEPT ![r].ended = TRUE]
  /\ UNCHANGED service

Finished(r) ==
  /\ At(r, "finish")
  /\ Go(r, IF proc[r].callback THEN "lock" ELSE "idle")
  /\ proc' = [proc EXCEPT ![r].finished = TRUE, ![r].callback = FALSE]
  /\ UNCHANGED service

Watch(r) == WatchTimeout(r) \/ CleanUp(r) \/ End(r) \/ Finished(r)

StatusOf(p) == IF ~p.ended THEN "running" ELSE IF p.timeout THEN "timed_out"
               ELSE IF p.stop THEN "stopped" ELSE "exited"
Status(r) == StatusOf(proc[r])
-----------------------------------------------------------------------------
(* _start_managed_process_prepared() of a thread that holds a new run.     *)

Reserve(t, r, next, refused) ==
  IF service.slotsClosed \/ Cardinality(Taken) >= Slots
    THEN Go(t, refused) /\ UNCHANGED proc
    ELSE /\ thread' = [thread EXCEPT ![t].at = next, ![t].run = r]
         /\ proc' = [proc EXCEPT ![r].slot = TRUE]

Spawn(t, next, refused) == LET r == Hand(t) IN
  \/ Go(t, next) /\ proc' = [proc EXCEPT ![r].os = "alive"]
  \/ Go(t, refused) /\ proc' = [proc EXCEPT ![r].slot = FALSE]

RegisterAlways(t, next, refused) == LET r == Hand(t) IN   \* fault: no look at _process_closing
  /\ thread' = [thread EXCEPT ![t].at = next, ![r].at = "wait"]
  /\ proc' = [proc EXCEPT ![r].known = "yes"]

(* The record is entered and its threads start; or the service is closing, *)
(* or a thread cannot be started, and the process is killed.               *)
Register(t, next, refused) == LET r == Hand(t) IN
  \/ /\ ~service.closing
     /\ thread' = [thread EXCEPT ![t].at = next, ![r].at = "wait"]
     /\ proc' = [proc EXCEPT ![r].known = "yes"]
  \/ /\ Go(t, refused)
     /\ proc' = [proc EXCEPT ![r] = NoProcess]
-----------------------------------------------------------------------------
(* _stop_process().  resource_lock is held from the look at the process to *)
(* its end, so that the record is not cleaned up in between: one step.     *)
Stop(t) == LET r == Hand(t) IN
  /\ At(t, "stop") /\ Stopped(t)
  /\ proc' = IF Alive(r) THEN [proc EXCEPT ![r].stop = TRUE, ![r].os = "dead"] ELSE proc
  /\ UNCHANGED service
-----------------------------------------------------------------------------
(* A live process holds a slot, and there are never more than Slots.       *)
SlotsOK ==
  /\ proc \in [Runs -> Process]
  /\ \A r \in Runs : Alive(r) => proc[r].slot
  /\ Cardinality(Taken) <= Slots
=============================================================================
