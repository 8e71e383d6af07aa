-------------------------- MODULE TunnelSupervisor --------------------------
(***************************************************************************)
(* The supervisor of a tunnel profile (tunnel_supervisor.py): the loop of  *)
(* the launch that holds the profile's lock, its tunnel-client child, the  *)
(* _tee threads that read the child's output, the records its observer     *)
(* keeps (execution_supervisor.py), and the owner who stops it (tc.ps1).   *)
(*                                                                         *)
(* Time is abstracted: a period that may have passed has passed in some    *)
(* behaviour.  Definitions marked "fault" are mutants, no part of the      *)
(* system.                                                                 *)
(***************************************************************************)
EXTENDS ProfileLock

CONSTANTS
  Streams,         \* the child's stdout and stderr
  Threshold,       \* upstreamErrorThreshold
  MaxAttempts,     \* restartBudget.maxAttempts
  MaxGenerations,  \* bound: children of one launch
  MaxLines         \* bound: failure lines read by one launch

ASSUME SettingsAssumption == Threshold \in Nat \ {0} /\ MaxAttempts \in Nat \ {0}
ASSUME BoundAssumption == MaxGenerations \in Nat \ {0} /\ MaxLines \in Nat

Generations == 1 .. MaxGenerations

VARIABLES
  sup,      \* the memory of the supervisor that holds the lock
  live,     \* its children that run
  orphans,  \* launches that died and left a child running
  stopFile, \* the stop request of tc.ps1
  file      \* the state in the state file

worldVars == <<live, orphans, stopFile, file>>
vars == <<lockVars, sup, worldVars>>

(* pc, generation: the loop; process: the generation of self.process, or 0; *)
(* guarded: a job object holds the child; exited: the exit code was seen;   *)
(* warm: the startup grace is over; ready: ready_since is set, stable: for  *)
(* stable_reset_seconds; written: healthy_written; attempts, window: the    *)
(* budget and the failure window; readers: the last generation with readers,  *)
(* inFlight: failure lines they carry; record: the observer's, of the child.  *)
(* History: paid, respawns the budget allowed.                              *)
Fresh ==
  [pc |-> "spawn", generation |-> 0, process |-> 0, guarded |-> FALSE, exited |-> FALSE,
   stop |-> FALSE, recover |-> FALSE, attempts |-> 0, window |-> 0,
   warm |-> FALSE, ready |-> FALSE, stable |-> FALSE, written |-> FALSE,
   inFlight |-> {}, locked |-> FALSE, readers |-> 0,
   lines |-> 0, record |-> "closed",
   paid |-> 0]

Init ==
  /\ LockInit
  /\ sup = Fresh /\ live = {} /\ orphans = {} /\ stopFile = FALSE /\ file = "none"

-----------------------------------------------------------------------------
(* The children and the observer's record of each. *)

Alive == sup.process \in live
SeesStopFile == stopFile   \* fault: the event is never looked at
StopRequested == sup.stop \/ stopFile

Recorded(s) == [s EXCEPT !.record = "closed"]

(* _stop_child(): kill the tree and complete the record. *)
ChildGone(s) == [s EXCEPT !.process = 0, !.guarded = FALSE, !.exited = FALSE, !.warm = FALSE]
ChildStopped(s) == Recorded(ChildGone(s))

(* RestartBudget.allow(): any number of the oldest attempts may be old.    *)
Allow(kept) == kept < MaxAttempts

(* Backoff after a paid attempt, or give up. *)
Retry(s, next) ==
  \E kept \in 0 .. s.attempts :
    IF Allow(kept)
    THEN /\ sup' = [s EXCEPT !.attempts = kept + 1, !.paid = @ + 1, !.pc = next]
         /\ file' = IF next = "kill" THEN "recovering" ELSE "backoff"
    ELSE /\ sup' = [s EXCEPT !.pc = IF next = "backoff" /\ StopRequested THEN "stopping" ELSE "failed"]
         /\ file' = "failed"

-----------------------------------------------------------------------------
(* _spawn_with_recovery() and _spawn(). *)

Spawn ==
  /\ sup.pc = "spawn"
  /\ \/ /\ StopRequested
        /\ sup' = [sup EXCEPT !.stop = TRUE, !.pc = "stopping"]
     \/ /\ ~StopRequested /\ sup.generation < MaxGenerations
        /\ sup' = [sup EXCEPT !.generation = @ + 1, !.pc = "clear"]
  /\ UNCHANGED worldVars

(* The readers of the last child may run between the two. *)
ClearSignals ==
  /\ sup.pc = "clear"
  /\ sup' = [sup EXCEPT !.window = 0, !.recover = FALSE, !.pc = "popen"]
  /\ file' = "starting"
  /\ UNCHANGED <<live, orphans, stopFile>>

PopenRetries ==   \* fault: a failed spawn costs nothing
  /\ sup.pc = "popen"
  /\ sup' = [sup EXCEPT !.pc = "backoff"] /\ file' = "backoff"
  /\ UNCHANGED <<live, orphans, stopFile>>

PopenFails ==
  /\ sup.pc = "popen"
  /\ Retry(sup, "backoff")
  /\ UNCHANGED <<live, orphans, stopFile>>

Popen ==
  /\ sup.pc = "popen"
  /\ live' = live \cup {sup.generation}
  /\ sup' = [sup EXCEPT !.process = sup.generation, !.record = "open",
                        !.pc = "guard"]
  /\ UNCHANGED <<orphans, stopFile, file>>

(* The job object; without one, on Windows, the child may not live. *)
Guard ==
  /\ sup.pc = "guard"
  /\ sup' = [sup EXCEPT !.guarded = ~Posix, !.readers = sup.generation, !.pc = "poll"]
  /\ UNCHANGED worldVars

GuardFails ==
  /\ sup.pc = "guard" /\ ~Posix
  /\ live' = live \ {sup.process}
  /\ Retry(ChildStopped(sup), "backoff")
  /\ UNCHANGED <<orphans, stopFile>>

-----------------------------------------------------------------------------
(* The loop of _run(), at its reads of what other threads write. *)

Probe(ready) ==
  /\ sup.pc = "poll" /\ ~StopRequested /\ Alive /\ sup.warm
  /\ sup' = [sup EXCEPT !.exited = FALSE, !.ready = ready, !.stable = @ /\ ready,
                        !.written = ready, !.pc = "reset"]
  /\ file' = IF ~ready THEN "degraded" ELSE IF sup.written THEN file ELSE "healthy"
  /\ UNCHANGED <<live, orphans, stopFile>>

PollWithoutProbe ==
  /\ sup.pc = "poll" /\ ~StopRequested
  /\ Alive => ~sup.warm
  /\ sup' = LET s == IF Alive THEN sup ELSE Recorded(sup)
            IN  [s EXCEPT !.exited = ~Alive, !.ready = FALSE, !.stable = FALSE, !.pc = "reset"]
  /\ UNCHANGED worldVars

Steady == ~sup.exited /\ sup.ready /\ sup.stable /\ sup.attempts > 0 /\ ~sup.recover

ResetForgetsSignal ==   \* fault: good health clears the failure as well
  /\ sup.pc = "reset"
  /\ sup' = [sup EXCEPT !.attempts = IF Steady THEN 0 ELSE @, !.pc = "decide",
                        !.recover = IF sup.ready /\ sup.stable THEN FALSE ELSE @]
  /\ file' = IF Steady THEN "healthy" ELSE file
  /\ UNCHANGED <<live, orphans, stopFile>>

ResetBudget ==
  /\ sup.pc = "reset"
  /\ sup' = [sup EXCEPT !.attempts = IF Steady THEN 0 ELSE @, !.pc = "decide"]
  /\ file' = IF Steady THEN "healthy" ELSE file
  /\ UNCHANGED <<live, orphans, stopFile>>

Decide ==
  /\ sup.pc = "decide"
  /\ IF sup.exited \/ sup.recover
     THEN Retry(sup, "kill")
     ELSE sup' = [sup EXCEPT !.pc = "poll"] /\ UNCHANGED file
  /\ UNCHANGED <<live, orphans, stopFile>>

KillChild ==
  /\ sup.pc = "kill"
  /\ live' = live \ {sup.process}
  /\ sup' = [ChildStopped(sup) EXCEPT !.pc = "backoff"]
  /\ file' = "backoff"
  /\ UNCHANGED <<orphans, stopFile>>

(* _backoff() notices a stop; else the clocks of the last child are reset. *)
Backoff ==
  /\ sup.pc = "backoff"
  /\ sup' = IF StopRequested THEN [sup EXCEPT !.stop = TRUE, !.pc = "stopping"]
            ELSE [sup EXCEPT !.written = FALSE, !.ready = FALSE, !.stable = FALSE, !.pc = "spawn"]
  /\ UNCHANGED worldVars

LoopStopped ==
  /\ sup.pc = "poll" /\ StopRequested
  /\ sup' = [sup EXCEPT !.stop = TRUE, !.pc = "stopping"]
  /\ UNCHANGED worldVars

(* The finally block: a failure nobody stopped stays "failed". *)
Finally ==
  /\ sup.pc \in {"stopping", "failed"}
  /\ live' = live \ {sup.process} /\ stopFile' = FALSE
  /\ file' = IF sup.pc = "failed" THEN file ELSE "stopped"
  /\ sup' = [ChildStopped(sup) EXCEPT !.pc = "ended"]
  /\ UNCHANGED orphans

-----------------------------------------------------------------------------
(* _tee(), one thread per stream and child.  A failure line of an older    *)
(* child is dropped; the generation is checked again under failure_lock.   *)

Carry(line, next) == (sup.inFlight \ {line}) \cup next

ReadLine(s, kind) ==
  /\ sup.generation > 0 /\ sup.readers = sup.generation /\ sup.lines < MaxLines
  /\ \A line \in sup.inFlight : <<line[1], line[2]>> # <<sup.generation, s>>
  /\ sup' = [sup EXCEPT !.inFlight = @ \cup {<<sup.generation, s, kind>>}, !.lines = @ + 1]
  /\ UNCHANGED worldVars

CountLine(line) ==
  /\ line \in sup.inFlight /\ line[3] # "raise" /\ ~sup.locked
  /\ \E kept \in 0 .. sup.window :
       LET counted == IF line[3] = "hard" THEN sup.window ELSE kept + 1
           raise == (line[3] = "hard" \/ counted >= Threshold) /\ line[1] = sup.generation
       IN  sup' = [sup EXCEPT !.window = counted, !.locked = raise,
                              !.inFlight = Carry(line, IF raise THEN {<<line[1], line[2], "raise">>}
                                                       ELSE {})]
  /\ UNCHANGED worldVars

Raise(line) ==
  /\ line \in sup.inFlight /\ line[3] = "raise"
  /\ sup' = [sup EXCEPT !.recover = TRUE, !.locked = FALSE, !.inFlight = Carry(line, {})]
  /\ UNCHANGED worldVars

-----------------------------------------------------------------------------
(* Time, the child and the owner. *)

TimePasses ==
  /\ \/ sup.process # 0 /\ sup.pc # "guard" /\ ~sup.warm /\ sup' = [sup EXCEPT !.warm = TRUE]
     \/ sup.ready /\ ~sup.stable /\ sup' = [sup EXCEPT !.stable = TRUE]
  /\ UNCHANGED worldVars

ChildExits == \E g \in live : live' = live \ {g} /\ UNCHANGED <<sup, orphans, stopFile, file>>

OrphanExits == \E l \in orphans : orphans' = orphans \ {l} /\ UNCHANGED <<sup, live, stopFile, file>>

Signal == ~sup.stop /\ sup' = [sup EXCEPT !.stop = TRUE] /\ UNCHANGED worldVars

WriteStopFile == ~stopFile /\ stopFile' = TRUE /\ UNCHANGED <<sup, live, orphans, file>>

Main ==
  \/ Spawn \/ ClearSignals \/ Popen \/ PopenFails \/ Guard \/ GuardFails
  \/ \E ready \in BOOLEAN : Probe(ready)
  \/ PollWithoutProbe \/ ResetBudget \/ Decide \/ KillChild \/ Backoff
  \/ LoopStopped \/ Finally

Readers ==
  \/ \E s \in Streams, kind \in {"soft", "hard"} : ReadLine(s, kind)
  \/ \E line \in sup.inFlight : CountLine(line) \/ Raise(line)

Inside == {l \in Launches : stage[l] = "supervise"}

(* The threads of the supervisor, and what acts on it. *)
Supervise == Cardinality(Inside) = 1 /\ UNCHANGED lockVars
             /\ (Main \/ Readers \/ TimePasses \/ ChildExits \/ Signal \/ WriteStopFile)

-----------------------------------------------------------------------------
(* main() around it. *)

Launch(l) == Start(l) /\ stopFile' = FALSE /\ UNCHANGED <<sup, live, orphans, file>>

Enter(l) == (OpenLockFile(l) \/ TakeLock(l) \/ Refused(l)) /\ UNCHANGED <<sup, worldVars>>

Exit(l) ==
  \/ sup.pc = "ended" /\ Leave(l) /\ sup' = Fresh /\ UNCHANGED worldVars
  \/ (Unlock(l) \/ Unlink(l)) /\ UNCHANGED <<sup, worldVars>>

(* taskkill or the like: a job object takes the child along. *)
Crash(l) ==
  /\ Die(l)
  /\ IF stage[l] # "supervise" THEN UNCHANGED <<sup, live, orphans>>
     ELSE /\ sup' = Fresh /\ live' = {}
          /\ orphans' = IF live = {} \/ sup.guarded THEN orphans ELSE orphans \cup {l}
  /\ UNCHANGED <<stopFile, file>>

CleanUp == RemoveLockFile /\ stopFile' = FALSE /\ UNCHANGED <<sup, live, orphans, file>>

AllOver == (\A l \in Launches : stage[l] = "over") /\ UNCHANGED vars

Next ==
  \/ Supervise
  \/ OrphanExits /\ UNCHANGED lockVars
  \/ CleanUp
  \/ \E l \in Launches : Launch(l) \/ Enter(l) \/ Exit(l) \/ Crash(l)
  \/ AllOver

Spec == Init /\ [][Next]_vars

(* The main thread is scheduled; nothing is asked of readers or children.  *)
FairSpec == Spec /\ WF_vars(Supervise /\ Main)
-----------------------------------------------------------------------------
(* Properties. *)

(* Types; no more respawns than the budget allows are counted.             *)
TypeOK ==
  /\ LockTypeOK
  /\ sup.pc \in {"spawn", "clear", "popen", "guard", "poll", "reset", "decide", "kill",
                 "backoff", "stopping", "failed", "ended"}
  /\ {sup.generation, sup.process, sup.readers} \subseteq 0 .. MaxGenerations
  /\ sup.attempts \in 0 .. MaxAttempts /\ sup.window \in 0 .. MaxLines
  /\ live \subseteq Generations /\ orphans \subseteq Launches
  /\ sup.lines \in 0 .. MaxLines

(* Each respawn is paid for from the budget, a failed spawn included, and  *)
(* only the first child is free.                                           *)
EveryRespawnIsPaid == sup.generation - 1 <= sup.paid

(* A recovery signal is answered: the child is replaced or the supervisor  *)
(* ends, however healthy the child looks meanwhile.                        *)
SignalIsAnswered ==
  \A g \in 1 .. MaxGenerations - 1 :
    (sup.recover /\ sup.readers = g) ~> (sup.readers # g \/ sup.pc \in {"spawn", "ended"})

(* A supervisor that was told to stop ends, and its child with it.         *)
StopIsObeyed == sup.stop ~> (live = {} /\ (sup.pc = "ended" \/ Inside = {}))
=============================================================================
