------------------------------ MODULE AgentRuns ------------------------------
(***************************************************************************)
(* One agent session (service.py): the runs it starts on managed           *)
(* processes, the calls that look at a run, cancel it, close or revoke the *)
(* session, the completion callback of the watcher, and shutdown().        *)
(*                                                                         *)
(* Every call brings a run up to date with _refresh_agent_run, which reads *)
(* the output that is left, decides the run's state and, once the process  *)
(* is finished, keeps its last status.  What the output says is left out,  *)
(* but for a protocol that fails and a success that its parser refuses.    *)
(* Definitions marked "fault" are mutants and no part of the system.       *)
(***************************************************************************)
EXTENDS ManagedProcesses

CONSTANT MaxCalls   \* bound: calls made, shutdown() being one

VARIABLES
  calls,     \* the calls made
  run,       \* per run: the AgentRunState
  session    \* the session's flag and its lock

vars == <<proc, service, thread, run, session, calls>>

Active == {"queued", "running"}
Terminal == {"succeeded", "failed", "timed_out", "cancelled", "aborted"}

(* told: its id has been returned by agent_run_start.                      *)
RunState == [in : BOOLEAN, told : BOOLEAN, state : Active \cup Terminal,
             override : {"none", "failed", "cancelled", "aborted"},
             final : BOOLEAN, lock : Threads \cup {Nobody}]

Started == {r \in Runs : run[r].in}
IsActive(r) == run[r].state \in Active

Init ==
  /\ ProcessInit
  /\ thread = [t \in Threads |-> NoCall(t)]
  /\ run = [r \in Runs |-> [in |-> FALSE, told |-> FALSE, state |-> "queued", override |-> "none",
                            final |-> FALSE, lock |-> Nobody]]
  /\ session = [closed |-> FALSE, lock |-> Nobody]
  /\ calls = 0

(* Thread t brings run r up to date and then goes on at back.              *)
Refreshing(t, r, back) == [thread[t] EXCEPT !.at = "lock", !.run = r, !.back = back]
Stopping(t, r, after) == [thread[t] EXCEPT !.at = "stop", !.run = r, !.after = after]
Becomes(t, rec) == thread' = [thread EXCEPT ![t] = rec]
-----------------------------------------------------------------------------
(* _refresh_agent_run(), under the run's lock. *)

(* A turn of the drain loop: the status, then all the output there is; or  *)
(* the output breaks the protocol, and the process is stopped.             *)
Drain(t, r) ==
  /\ proc' = [proc EXCEPT ![r].unread = FALSE]
  /\ \/ /\ Becomes(t, [thread[t] EXCEPT !.at = "again", !.seen = Status(r)])
        /\ run' = [run EXCEPT ![r].lock = t]
     \/ /\ proc[r].unread
        /\ Becomes(t, [Stopping(t, r, "decide") EXCEPT !.seen = Status(r)])
        /\ run' = [run EXCEPT ![r].lock = t, ![r].override = "failed"]

Lock(t) == LET r == Hand(t) IN
  /\ At(t, "lock") /\ run[r].lock = Nobody
  /\ IF run[r].final THEN Returns(t) /\ UNCHANGED <<proc, run>> ELSE Drain(t, r)
  /\ UNCHANGED <<service, session>>

DrainOnce(t) ==   \* fault: the second status alone decides
  /\ At(t, "again") /\ Becomes(t, [thread[t] EXCEPT !.at = "decide", !.seen = Status(Hand(t))])
  /\ UNCHANGED <<proc, service, run, session>>

(* The loop ends on a running process, or on one that was over before the  *)
(* last of its output was read.                                            *)
DrainAgain(t) == LET r == Hand(t) IN
  /\ At(t, "again")
  /\ IF Status(r) = "running" \/ thread[t].seen # "running"
       THEN Becomes(t, [thread[t] EXCEPT !.at = "decide", !.seen = Status(r)]) /\ UNCHANGED <<proc, run>>
       ELSE Drain(t, r)
  /\ UNCHANGED <<service, session>>

StateFrom(status) ==
  CASE status = "running" -> {"running"}
    [] status = "timed_out" -> {"timed_out"}
    [] status = "stopped" -> {"cancelled"}
    [] status = "exited" -> {"succeeded", "failed"}

(* The record of a final run leaves the registry.                          *)
Dropped(r) == [NoProcess EXCEPT !.os = "dead", !.known = "history", !.clean = TRUE, !.ended = TRUE,
                                !.finished = TRUE, !.unread = proc[r].unread]

(* The state is decided and, if it is terminal and the process finished,   *)
(* kept with the last status.                                              *)
Decide(t) == LET r == Hand(t) IN
  /\ At(t, "decide") /\ Returns(t)
  /\ \E state \in IF run[r].override # "none" THEN {run[r].override} ELSE StateFrom(thread[t].seen) :
       LET last == state \in Terminal /\ proc[r].finished IN
       /\ run' = [run EXCEPT ![r].state = state, ![r].final = last, ![r].lock = Nobody]
       /\ proc' = IF last THEN [proc EXCEPT ![r] = Dropped(r)] ELSE proc
  /\ UNCHANGED <<service, session>>

Refresh(t) == Lock(t) \/ DrainAgain(t) \/ Decide(t)
-----------------------------------------------------------------------------
(* agent_run_start(), under the session's lock. *)

Unlock(t) ==
  /\ At(t, "unlock") /\ Go(t, "idle") /\ session' = [session EXCEPT !.lock = Nobody]
  /\ UNCHANGED <<proc, service, run>>

BeginStart(t) ==
  /\ At(t, "idle") /\ ~service.closing /\ session.lock = Nobody
  /\ session' = [session EXCEPT !.lock = t]
  /\ Becomes(t, [thread[t] EXCEPT !.at = IF session.closed THEN "unlock" ELSE "sweep", !.todo = Started])
  /\ UNCHANGED <<proc, service, run>>

Sweep(t) ==
  /\ At(t, "sweep") /\ thread[t].todo # {}
  /\ \E r \in thread[t].todo :
       LET rest == [thread[t] EXCEPT !.todo = @ \ {r}]
       IN  Becomes(t, IF IsActive(r) THEN [rest EXCEPT !.at = "lock", !.run = r, !.back = "sweep"] ELSE rest)
  /\ UNCHANGED <<proc, service, run, session>>

(* new_run_id(): any name that is not in use.                              *)
NewRun == CHOOSE r \in Runs : proc[r] = NoProcess
CanName == \E r \in Runs : proc[r] = NoProcess   \* a bound

StartAnyway(t) ==   \* fault: no look at the runs
  /\ At(t, "sweep")
  /\ CanName /\ Reserve(t, NewRun, "spawn", "unlock")
  /\ UNCHANGED <<service, run, session>>

(* "Only one active run is allowed per agent session."                     *)
Admit(t) ==
  /\ At(t, "sweep") /\ thread[t].todo = {}
  /\ IF \E r \in Started : IsActive(r)
       THEN Go(t, "unlock") /\ UNCHANGED proc
       ELSE \/ CanName /\ Reserve(t, NewRun, "spawn", "unlock")
            \/ Go(t, "unlock") /\ UNCHANGED proc   \* any other check refuses
  /\ UNCHANGED <<service, run, session>>

Launch(t) ==
  /\ At(t, "spawn") /\ Spawn(t, "register", "unlock")
  /\ UNCHANGED <<service, run, session>>

Enter(t) ==
  /\ At(t, "register") /\ Register(t, "insert", "unlock")
  /\ UNCHANGED <<service, run, session>>

(* The run is listed with the status the launch returned; a run whose      *)
(* first message cannot be delivered is stopped, and its start raises.     *)
Insert(t) == LET r == Hand(t) IN
  /\ At(t, "insert") /\ run' = [run EXCEPT ![r].in = TRUE]
  /\ \/ Becomes(t, [thread[t] EXCEPT !.at = "publish", !.seen = Status(r)])
     \/ Becomes(t, Stopping(t, r, "unlock"))
  /\ UNCHANGED <<proc, service, session>>

(* No lock of the run is held here.                                        *)
PublishState(t) ==
  /\ At(t, "publish") /\ Go(t, "hook")
  /\ \E state \in IF thread[t].seen = "running" THEN {"running"} ELSE {"succeeded", "failed"} :
       run' = [run EXCEPT ![Hand(t)].state = state]
  /\ UNCHANGED <<proc, service, session>>

HookAlways(t) == LET r == Hand(t) IN   \* fault: does not look whether it is finished
  /\ At(t, "hook")
  /\ proc' = [proc EXCEPT ![r].callback = TRUE]
  /\ run' = [run EXCEPT ![r].told = TRUE]
  /\ Go(t, "unlock")
  /\ UNCHANGED <<service, session>>

(* The completion callback is set before the process is finished, or the   *)
(* run is brought up to date at once.  The record may be gone: it raises.  *)
Hook(t) == LET r == Hand(t) IN
  /\ At(t, "hook") /\ ~At(r, "finish")   \* record.lock
  /\ \/ /\ proc[r].known = "history" /\ Go(t, "unlock")
        /\ UNCHANGED <<proc, run>>
     \/ /\ proc[r].known = "yes" /\ proc[r].finished
        /\ run' = [run EXCEPT ![r].told = TRUE]
        /\ Becomes(t, Refreshing(t, r, "unlock")) /\ UNCHANGED proc
     \/ /\ proc[r].known = "yes" /\ ~proc[r].finished
        /\ proc' = [proc EXCEPT ![r].callback = TRUE]
        /\ run' = [run EXCEPT ![r].told = TRUE]
        /\ Go(t, "unlock")
  /\ UNCHANGED <<service, session>>

StartRun(t) == \/ Sweep(t) \/ Admit(t) \/ Launch(t) \/ Enter(t) \/ Insert(t)
               \/ PublishState(t) \/ Hook(t) \/ Unlock(t)
-----------------------------------------------------------------------------
(* The calls that look at a run, cancel it, close or revoke the session.   *)

Inspect(t) ==
  /\ At(t, "idle") /\ ~service.closing
  /\ \E r \in Runs : run[r].told /\ Becomes(t, Refreshing(t, r, "idle"))
  /\ UNCHANGED <<proc, service, run, session>>

BeginCancel(t) ==
  /\ At(t, "idle") /\ ~service.closing
  /\ \E r \in Runs : run[r].told /\ Becomes(t, [thread[t] EXCEPT !.at = "each", !.todo = {r}])
  /\ UNCHANGED <<proc, service, run, session>>

CloseUnlocked(t) ==   \* fault: without the session's lock
  /\ At(t, "idle") /\ ~service.closing
  /\ session' = [session EXCEPT !.closed = TRUE]
  /\ Becomes(t, [thread[t] EXCEPT !.at = "each", !.todo = Started])
  /\ UNCHANGED <<proc, service, run>>

BeginClose(t) ==
  /\ At(t, "idle") /\ ~service.closing /\ session.lock = Nobody
  /\ session' = [session EXCEPT !.closed = TRUE]
  /\ Becomes(t, [thread[t] EXCEPT !.at = "each", !.todo = Started])
  /\ UNCHANGED <<proc, service, run>>

(* Each run is brought up to date and, if it is still active, marked,      *)
(* stopped and brought up to date again; none of it under the run's lock.  *)
Each(t) ==
  /\ At(t, "each")
  /\ IF thread[t].todo = {} THEN Go(t, "idle")
     ELSE \E r \in thread[t].todo :
            Becomes(t, [Refreshing(t, r, "active?") EXCEPT !.todo = @ \ {r}])
  /\ UNCHANGED <<proc, service, run, session>>

CheckActive(t) ==
  /\ At(t, "active?") /\ Go(t, IF IsActive(Hand(t)) THEN "mark" ELSE "each")
  /\ UNCHANGED <<proc, service, run, session>>

Mark(t) == LET r == Hand(t) IN
  /\ At(t, "mark") /\ run' = [run EXCEPT ![r].override = "cancelled"]
  /\ Becomes(t, [Stopping(t, r, "lock") EXCEPT !.back = "each"])
  /\ UNCHANGED <<proc, service, session>>

(* _stop_revoked_claude_command_runs(), for a session that lost its right. *)
BeginRevoke(t) ==
  /\ At(t, "idle") /\ ~service.closing /\ session.lock = Nobody
  /\ session' = [session EXCEPT !.lock = t]
  /\ Becomes(t, [thread[t] EXCEPT !.at = "revoke", !.todo = Started])
  /\ UNCHANGED <<proc, service, run>>

Revoke(t) ==
  /\ At(t, "revoke")
  /\ \/ thread[t].todo = {} /\ Go(t, "unlock") /\ UNCHANGED run
     \/ \E r \in thread[t].todo :
          /\ run[r].lock = Nobody
          /\ IF IsActive(r)
               THEN /\ run' = [run EXCEPT ![r].override = "cancelled", ![r].state = "cancelled"]
                    /\ Becomes(t, [Stopping(t, r, "revoke") EXCEPT !.todo = @ \ {r}])
               ELSE Becomes(t, [thread[t] EXCEPT !.todo = @ \ {r}]) /\ UNCHANGED run
  /\ UNCHANGED <<proc, service, session>>

Calls(t) == \/ Inspect(t) \/ BeginStart(t) \/ BeginCancel(t) \/ BeginClose(t) \/ BeginRevoke(t)
Cancelling(t) == Each(t) \/ CheckActive(t) \/ Mark(t) \/ Revoke(t)
-----------------------------------------------------------------------------
(* shutdown(). *)

BeginShutdown(t) ==
  /\ At(t, "idle") /\ ~service.slotsClosed /\ Go(t, "closing")
  /\ service' = [service EXCEPT !.slotsClosed = TRUE]
  /\ UNCHANGED <<proc, run, session>>

Closing(t) ==
  /\ At(t, "closing") /\ service' = [service EXCEPT !.closing = TRUE]
  /\ Becomes(t, [thread[t] EXCEPT !.at = "survey", !.todo = Started])
  /\ UNCHANGED <<proc, run, session>>

Survey(t) ==
  /\ At(t, "survey")
  /\ \/ /\ thread[t].todo = {}
        /\ LET still == {r \in Started : IsActive(r)} IN
             /\ run' = [r \in Runs |-> IF r \in still THEN [run[r] EXCEPT !.override = "aborted"] ELSE run[r]]
             /\ Becomes(t, [thread[t] EXCEPT !.at = "reap", !.todo = still])
        /\ session' = [session EXCEPT !.closed = TRUE]
     \/ /\ \E r \in thread[t].todo : Becomes(t, [Refreshing(t, r, "survey") EXCEPT !.todo = @ \ {r}])
        /\ UNCHANGED <<run, session>>
  /\ UNCHANGED <<proc, service>>

Reap(t) ==
  /\ At(t, "reap")
  /\ \/ /\ thread[t].todo = {}
        /\ Becomes(t, [thread[t] EXCEPT !.at = "stopall",
                         !.todo = {r \in Runs : proc[r].known = "yes" /\ ~proc[r].ended}])
     \/ \E r \in thread[t].todo : Becomes(t, [Stopping(t, r, "lock") EXCEPT !.back = "reap", !.todo = @ \ {r}])
  /\ UNCHANGED <<proc, service, run, session>>

StopAll(t) ==
  /\ At(t, "stopall")
  /\ \/ /\ thread[t].todo = {} /\ Go(t, "down")
        /\ service' = [service EXCEPT !.down = TRUE]
     \/ /\ \E r \in thread[t].todo : Becomes(t, [Stopping(t, r, "stopall") EXCEPT !.todo = @ \ {r}])
        /\ UNCHANGED service
  /\ UNCHANGED <<proc, run, session>>

Shutdown(t) == Closing(t) \/ Survey(t) \/ Reap(t) \/ StopAll(t)
-----------------------------------------------------------------------------
(* What a thread does by itself once its call has begun.                   *)
Work(t) ==
  \/ Stop(t) /\ UNCHANGED <<run, session>>
  \/ Refresh(t) \/ StartRun(t) \/ Cancelling(t) \/ Shutdown(t)

Watching(r) == Watch(r) /\ UNCHANGED <<run, session>>

Idle == (\A t \in Threads : thread[t].at \in {"idle", "down"}) /\ UNCHANGED vars

Next ==
  \/ /\ \/ \E r \in Runs : (Child(r) /\ UNCHANGED <<run, session>>) \/ Watching(r)
        \/ \E t \in Threads : Work(t)
     /\ UNCHANGED calls
  \/ /\ calls < MaxCalls /\ calls' = calls + 1
     /\ \E t \in Callers : Calls(t) \/ BeginShutdown(t)
  \/ Idle

Spec == Init /\ [][Next]_vars

-----------------------------------------------------------------------------
(* Properties. *)

(* Types; a live process holds one of the Slots slots.                     *)
TypeOK ==
  /\ SlotsOK /\ run \in [Runs -> RunState]
  /\ session \in [closed : BOOLEAN, lock : Threads \cup {Nobody}]

Live(r) == run[r].in /\ Alive(r)

(* service.py: "Only one active run is allowed per agent session".         *)
OneLiveRun == \A q, r \in Runs : Live(q) /\ Live(r) => q = r

(* What the code keeps of it: of two processes alive in a session, at      *)
(* least one belongs to a run that has been told to end.                   *)
OneWantedRun == \A q, r \in Runs : Live(q) /\ Live(r) /\ q # r =>
                  run[q].override # "none" \/ run[r].override # "none"

(* Once the last status of a run is kept, its state is what every later    *)
(* call answers; until shutdown(), which looks at runs that are being      *)
(* started.                                                                *)
FinalIsFinal == [][\A r \in Runs : run[r].final /\ ~service.closing => run'[r].state = run[r].state]_vars

(* CHANGELOG: the end of the output is read before a run is final.         *)
DrainedAtEnd == \A r \in Runs : run[r].final /\ run[r].override = "none" => ~proc[r].unread

(* A run whose process is finished becomes final though nobody asks: as    *)
(* long as it is not, its watcher or the call that started it is at work.  *)
CompletionIsSeen == \A r \in Runs :
  run[r].told /\ proc[r].finished /\ ~run[r].final =>
    \/ ~At(r, "idle")
    \/ \E t \in Callers : Hand(t) = r /\ thread[t].back = "unlock"

(* Shutdown leaves no process behind, but for one that a start in progress *)
(* has launched and will find it may not register.                         *)
NothingSurvives == service.down =>
  \A r \in Runs : Alive(r) => \E t \in Callers : Hand(t) = r /\ At(t, "register")
=============================================================================
