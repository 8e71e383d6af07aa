----------------------- MODULE TunnelSupervisorProofs -----------------------
(***************************************************************************)
(* Where a file that is open cannot be unlinked, one launch at a time      *)
(* holds the lock of a profile, for any number of launches; and a          *)
(* supervisor pays for every child but its first, for any budget.          *)
(***************************************************************************)
EXTENDS TunnelSupervisor, TLAPS

(* A launch has the lock file open from open() to its unlock.              *)
OpenByStage ==
  \A l \in Launches : opened[l] # Nobody <=> stage[l] \in {"lock", "supervise", "unlock"}

LockInv == LockTypeOK /\ OpenByStage /\ OpenIsOnPath /\ SingleInstance

LEMMA LockInitial == LockInit => LockInv
  BY NobodyAssumption
     DEF LockInit, LockInv, LockTypeOK, OpenByStage, OpenIsOnPath, SingleInstance, Holders

(* ProfileLock keeps its invariant on a platform that does not unlink open *)
(* files.                                                                  *)
LEMMA LockStep == ~Posix /\ LockInv /\ [LockNext]_lockVars => LockInv'
<1> SUFFICES ASSUME ~Posix, LockInv, [LockNext]_lockVars PROVE LockInv'
  OBVIOUS
<1> USE NobodyAssumption DEF LockInv, LockTypeOK, OpenByStage, OpenIsOnPath, SingleInstance,
                             Holders, MoveTo, Close
<1>1. CASE UNCHANGED lockVars
  BY <1>1 DEF lockVars
<1>2. CASE RemoveLockFile
  BY <1>2 DEF RemoveLockFile, Removable
<1>3. ASSUME NEW l \in Launches, Start(l) PROVE LockInv'
  BY <1>3 DEF Start
<1>4. ASSUME NEW l \in Launches, OpenLockFile(l) PROVE LockInv'
  <2>1. path' # Nobody /\ opened'[l] = path' /\ stage'[l] = "lock" /\ opened[l] = Nobody
    BY <1>4 DEF OpenLockFile
  <2>2. \A m \in Launches \ {l} : opened'[m] = opened[m] /\ stage'[m] = stage[m]
    BY <1>4 DEF OpenLockFile
  <2>3. path # Nobody => path' = path
    BY <1>4 DEF OpenLockFile
  <2>4. LockTypeOK'
    BY <1>4 DEF OpenLockFile
  <2>5. OpenIsOnPath'
    BY <2>1, <2>2, <2>3
  <2> QED
    BY <2>1, <2>2, <2>4, <2>5
<1>5. ASSUME NEW l \in Launches, TakeLock(l) PROVE LockInv'
  <2>1. Holders = {}
    BY <1>5 DEF TakeLock, Locked
  <2> QED
    BY <1>5, <2>1 DEF TakeLock
<1>6. ASSUME NEW l \in Launches, Refused(l) PROVE LockInv'
  BY <1>6 DEF Refused
<1>7. ASSUME NEW l \in Launches, Leave(l) PROVE LockInv'
  BY <1>7 DEF Leave
<1>8. ASSUME NEW l \in Launches, Unlock(l) PROVE LockInv'
  BY <1>8 DEF Unlock
<1>9. ASSUME NEW l \in Launches, Unlink(l) PROVE LockInv'
  BY <1>9 DEF Unlink, Removable
<1>10. ASSUME NEW l \in Launches, Die(l) PROVE LockInv'
  BY <1>10 DEF Die
<1> QED
  BY <1>1, <1>2, <1>3, <1>4, <1>5, <1>6, <1>7, <1>8, <1>9, <1>10 DEF LockNext

(* Whatever the supervisor of a launch does, the lock sees one of its own  *)
(* steps or none.                                                          *)
LEMMA TunnelStep == Next => [LockNext]_lockVars
  BY DEF Next, Supervise, OrphanExits, CleanUp, Launch, Enter, Exit, Crash, AllOver, vars,
         LockNext, lockVars

(* ProfileLock: where an open file stays linked, no two launches hold it.   *)
THEOREM LockedOnce == ASSUME ~Posix PROVE LockSpec => []SingleInstance
<1>1. LockInv /\ [LockNext]_lockVars => LockInv'
  BY LockStep
<1>2. LockSpec => []LockInv
  BY LockInitial, <1>1, PTL DEF LockSpec
<1> QED
  BY <1>2, PTL DEF LockInv

(* The system of TunnelSupervisor follows the lock's specification, on any *)
(* platform.                                                               *)
THEOREM TunnelFollowsLock == Spec => LockSpec
<1>1. Init => LockInit
  BY DEF Init
<1>2. [Next]_vars => [LockNext]_lockVars
  BY TunnelStep DEF vars, lockVars
<1> QED
  BY <1>1, <1>2, PTL DEF Spec, LockSpec

(* CHANGELOG: one supervisor per profile; on Windows.                      *)
THEOREM OneSupervisor == ASSUME ~Posix PROVE Spec => []SingleInstance
  BY LockedOnce, TunnelFollowsLock
-----------------------------------------------------------------------------
(* The restart budget.  A child that is about to be replaced has been paid *)
(* for: from the loop's decision, or the failed spawn, to the next spawn   *)
(* there are at least as many payments as children.                        *)

Kinds == {"soft", "hard", "raise"}

Memory ==
  [pc : {"spawn", "clear", "popen", "guard", "poll", "reset", "decide", "kill", "backoff",
         "stopping", "failed", "ended"},
   generation : Nat, process : Nat, guarded : BOOLEAN, exited : BOOLEAN,
   stop : BOOLEAN, recover : BOOLEAN, attempts : 0 .. MaxAttempts, window : Nat,
   warm : BOOLEAN, ready : BOOLEAN, stable : BOOLEAN, written : BOOLEAN,
   inFlight : SUBSET (Nat \X Streams \X Kinds), locked : BOOLEAN, readers : Nat,
   lines : Nat, record : {"open", "closed"}, paid : Nat]

Settled(s) ==
  /\ s \in Memory
  /\ s.generation <= s.paid + 1
  /\ s.pc \in {"spawn", "kill", "backoff"} => s.generation <= s.paid

LEMMA FreshSettled == Settled(Fresh)
  BY SettingsAssumption DEF Settled, Fresh, Memory

(* Nothing but the place of the loop and the payment matters. *)
LEMMA SettledStep ==
  ASSUME Settled(sup), sup' \in Memory, sup'.generation = sup.generation, sup'.paid = sup.paid,
         sup'.pc \in {"spawn", "kill", "backoff"} => sup.pc \in {"spawn", "kill", "backoff"}
  PROVE  Settled(sup)'
BY DEF Settled, Memory

(* What _stop_child() leaves. *)
LEMMA StoppedMemory ==
  ASSUME NEW s \in Memory
  PROVE  /\ ChildStopped(s) \in Memory /\ ChildStopped(s).pc = s.pc
         /\ ChildStopped(s).generation = s.generation /\ ChildStopped(s).paid = s.paid
         /\ ChildStopped(s).attempts = s.attempts
BY DEF ChildStopped, ChildGone, Recorded, Memory

(* One payment, and the way to the next spawn is free; or none, and the    *)
(* supervisor gives up.                                                    *)
LEMMA RetryStep ==
  ASSUME Settled(sup), NEW s \in Memory, s.generation = sup.generation, s.paid = sup.paid,
         NEW next \in {"kill", "backoff"}, Retry(s, next)
  PROVE  Settled(sup)'
<1>1. PICK kept \in 0 .. s.attempts :
        IF Allow(kept)
        THEN sup' = [s EXCEPT !.attempts = kept + 1, !.paid = @ + 1, !.pc = next]
        ELSE \E pc \in {"stopping", "failed"} : sup' = [s EXCEPT !.pc = pc]
  BY DEF Retry
<1>2. CASE Allow(kept)
  <2> DEFINE tried == kept + 1
             paid == s.paid + 1
  <2>1. sup' = [s EXCEPT !.attempts = tried, !.paid = paid, !.pc = next]
    BY <1>1, <1>2
  <2>2. tried \in 0 .. MaxAttempts
    BY <1>2, SettingsAssumption DEF Allow, Memory
  <2>3. paid \in Nat /\ paid = s.paid + 1
    BY DEF Memory
  <2> HIDE DEF tried, paid
  <2>4. sup' \in Memory /\ sup'.generation = s.generation /\ sup'.paid = s.paid + 1
    BY <2>1, <2>2, <2>3 DEF Memory
  <2> QED
    BY <2>4 DEF Settled, Memory
<1>3. CASE ~Allow(kept)
  BY <1>1, <1>3 DEF Settled, Memory
<1> QED
  BY <1>2, <1>3

LEMMA MainSettled == ASSUME Settled(sup), Main PROVE Settled(sup)'
<1>0. sup \in Memory
  BY DEF Settled
<1>1. CASE Spawn
  <2>1. CASE sup' = [sup EXCEPT !.stop = TRUE, !.pc = "stopping"]
    BY <1>0, <2>1, SettledStep DEF Memory
  <2>2. CASE sup.pc = "spawn" /\ sup' = [sup EXCEPT !.generation = @ + 1, !.pc = "clear"]
    <3> DEFINE next == sup.generation + 1
    <3>1. sup' = [sup EXCEPT !.generation = next, !.pc = "clear"] /\ next \in Nat /\ next <= sup.paid + 1
      BY <2>2 DEF Settled, Memory
    <3> HIDE DEF next
    <3>2. sup' \in Memory /\ sup'.generation = next /\ sup'.paid = sup.paid /\ sup'.pc = "clear"
      BY <1>0, <3>1 DEF Memory
    <3> QED
      BY <3>1, <3>2 DEF Settled
  <2> QED
    BY <1>1, <2>1, <2>2 DEF Spawn
<1>2. CASE ClearSignals
  BY <1>0, <1>2, SettledStep DEF ClearSignals, Memory
<1>3. CASE Popen
  BY <1>0, <1>3, SettledStep DEF Popen, Memory
<1>4. CASE PopenFails
  BY <1>0, <1>4, RetryStep DEF PopenFails
<1>5. CASE Guard
  BY <1>0, <1>5, SettledStep DEF Guard, Memory
<1>6. CASE GuardFails
  BY <1>0, <1>6, StoppedMemory, RetryStep DEF GuardFails
<1>7. ASSUME NEW ready \in BOOLEAN, Probe(ready) PROVE Settled(sup)'
  <2>1. PICK stable \in BOOLEAN :
          sup' = [[sup EXCEPT !.exited = FALSE, !.ready = ready]
                    EXCEPT !.stable = stable, !.written = ready, !.pc = "reset"]
    BY <1>0, <1>7 DEF Probe, Memory
  <2> DEFINE probed == [sup EXCEPT !.exited = FALSE, !.ready = ready]
  <2>2. probed \in Memory /\ probed.generation = sup.generation /\ probed.paid = sup.paid
    BY <1>0 DEF Memory
  <2>3. sup' = [probed EXCEPT !.stable = stable, !.written = ready, !.pc = "reset"]
    BY <2>1
  <2> HIDE DEF probed
  <2>4. sup' \in Memory /\ sup'.generation = sup.generation /\ sup'.paid = sup.paid /\ sup'.pc = "reset"
    BY <2>2, <2>3 DEF Memory
  <2> QED
    BY <2>4, SettledStep
<1>8. CASE PollWithoutProbe
  <2>1. Recorded(sup) \in Memory /\ Recorded(sup).generation = sup.generation /\ Recorded(sup).paid = sup.paid
    BY <1>0 DEF Recorded, Memory
  <2>2. PICK s \in {sup, Recorded(sup)}, b \in BOOLEAN :
          sup' = [s EXCEPT !.exited = b, !.ready = FALSE, !.stable = FALSE, !.pc = "reset"]
    BY <1>8 DEF PollWithoutProbe
  <2>3. s \in Memory /\ s.generation = sup.generation /\ s.paid = sup.paid
    BY <1>0, <2>1
  <2>4. sup' \in Memory /\ sup'.generation = s.generation /\ sup'.paid = s.paid /\ sup'.pc = "reset"
    BY <2>2, <2>3 DEF Memory
  <2> QED
    BY <2>3, <2>4, SettledStep
<1>9. CASE ResetBudget
  <2>1. PICK tried \in 0 .. MaxAttempts : sup' = [sup EXCEPT !.attempts = tried, !.pc = "decide"]
    <3> DEFINE tried == IF Steady THEN 0 ELSE sup.attempts
    <3>1. sup' = [sup EXCEPT !.attempts = tried, !.pc = "decide"]
      BY <1>9 DEF ResetBudget
    <3>2. tried \in 0 .. MaxAttempts
      BY <1>0, SettingsAssumption DEF Memory
    <3> QED
      BY <3>1, <3>2
  <2>2. sup' \in Memory /\ sup'.generation = sup.generation /\ sup'.paid = sup.paid /\ sup'.pc = "decide"
    BY <1>0, <2>1 DEF Memory
  <2> QED
    BY <2>2, SettledStep
<1>10. CASE Decide
  <2>1. CASE Retry(sup, "kill")
    BY <1>0, <2>1, RetryStep
  <2>2. CASE sup' = [sup EXCEPT !.pc = "poll"]
    BY <1>0, <2>2, SettledStep DEF Memory
  <2> QED
    BY <1>10, <2>1, <2>2 DEF Decide
<1>11. CASE KillChild
  BY <1>0, <1>11, StoppedMemory, SettledStep DEF KillChild, Memory
<1>12. CASE Backoff
  <2>1. sup' \in Memory /\ sup'.generation = sup.generation /\ sup'.paid = sup.paid /\ sup.pc = "backoff"
    <3>1. \/ sup' = [sup EXCEPT !.stop = TRUE, !.pc = "stopping"]
          \/ sup' = [sup EXCEPT !.written = FALSE, !.ready = FALSE, !.stable = FALSE, !.pc = "spawn"]
      BY <1>12 DEF Backoff
    <3>2. sup.pc = "backoff"
      BY <1>12 DEF Backoff
    <3>3. CASE sup' = [sup EXCEPT !.stop = TRUE, !.pc = "stopping"]
      BY <1>0, <3>2, <3>3 DEF Memory
    <3>4. CASE sup' = [sup EXCEPT !.written = FALSE, !.ready = FALSE, !.stable = FALSE, !.pc = "spawn"]
      BY <1>0, <3>2, <3>4 DEF Memory
    <3> QED
      BY <3>1, <3>2, <3>3, <3>4
  <2> QED
    BY <2>1, SettledStep
<1>13. CASE LoopStopped
  BY <1>0, <1>13, SettledStep DEF LoopStopped, Memory
<1>14. CASE Finally
  BY <1>0, <1>14, StoppedMemory, SettledStep DEF Finally, Memory
<1> QED
  BY <1>1, <1>2, <1>3, <1>4, <1>5, <1>6, <1>7, <1>8, <1>9, <1>10, <1>11, <1>12, <1>13, <1>14 DEF Main

LEMMA ReadersSettled == ASSUME Settled(sup), Readers PROVE Settled(sup)'
<1>0. sup \in Memory
  BY DEF Settled
<1>1. ASSUME NEW s \in Streams, NEW kind \in {"soft", "hard"}, ReadLine(s, kind) PROVE Settled(sup)'
  <2>1. <<sup.generation, s, kind>> \in Nat \X Streams \X Kinds
    BY <1>0 DEF Kinds, Memory
  <2> DEFINE carry == sup.inFlight \cup {<<sup.generation, s, kind>>}
             lines == sup.lines + 1
  <2>2. /\ sup' = [sup EXCEPT !.inFlight = carry, !.lines = lines]
        /\ carry \in SUBSET (Nat \X Streams \X Kinds) /\ lines \in Nat
    BY <1>0, <1>1, <2>1 DEF ReadLine, Memory
  <2> HIDE DEF carry, lines
  <2>3. /\ sup' \in Memory /\ sup'.generation = sup.generation /\ sup'.paid = sup.paid
        /\ sup'.pc = sup.pc
    BY <1>0, <2>2 DEF Memory
  <2> QED
    BY <2>3, SettledStep
<1>2. ASSUME NEW line \in sup.inFlight, CountLine(line) PROVE Settled(sup)'
  <2>1. PICK kept \in 0 .. sup.window :
          LET counted == IF line[3] = "hard" THEN sup.window ELSE kept + 1
              raise == (line[3] = "hard" \/ counted >= Threshold) /\ line[1] = sup.generation
          IN  sup' = [sup EXCEPT !.window = counted, !.locked = raise,
                                 !.inFlight = Carry(line, IF raise THEN {<<line[1], line[2], "raise">>}
                                                          ELSE {})]
    BY <1>2 DEF CountLine
  <2>2. line \in Nat \X Streams \X Kinds
    BY <1>0 DEF Memory
  <2>3. <<line[1], line[2], "raise">> \in Nat \X Streams \X Kinds
    BY <2>2 DEF Kinds
  <2>4. ASSUME NEW next, next \in {{}, {<<line[1], line[2], "raise">>}}
        PROVE  Carry(line, next) \in SUBSET (Nat \X Streams \X Kinds)
    BY <1>0, <2>3, <2>4 DEF Carry, Memory
  <2>5. PICK counted \in Nat, raise \in BOOLEAN, carry \in SUBSET (Nat \X Streams \X Kinds) :
          sup' = [sup EXCEPT !.window = counted, !.locked = raise, !.inFlight = carry]
    <3> DEFINE counted == IF line[3] = "hard" THEN sup.window ELSE kept + 1
               raise == (line[3] = "hard" \/ counted >= Threshold) /\ line[1] = sup.generation
               next == IF raise THEN {<<line[1], line[2], "raise">>} ELSE {}
    <3>1. sup' = [sup EXCEPT !.window = counted, !.locked = raise, !.inFlight = Carry(line, next)]
      BY <2>1 DEF Carry
    <3>2. counted \in Nat
      BY <1>0 DEF Memory
    <3>3. raise \in BOOLEAN
      OBVIOUS
    <3>4. next \in {{}, {<<line[1], line[2], "raise">>}}
      OBVIOUS
    <3> HIDE DEF counted, raise, next
    <3>5. Carry(line, next) \in SUBSET (Nat \X Streams \X Kinds)
      BY <2>4, <3>4
    <3> QED
      BY <3>1, <3>2, <3>3, <3>5
  <2> QED
    BY <1>0, <2>5, SettledStep DEF Memory
<1>3. ASSUME NEW line \in sup.inFlight, Raise(line) PROVE Settled(sup)'
  BY <1>0, <1>3, SettledStep DEF Raise, Carry, Memory
<1> QED
  BY <1>1, <1>2, <1>3 DEF Readers

LEMMA NextSettled == Settled(sup) /\ [Next]_vars => Settled(sup)'
<1> SUFFICES ASSUME Settled(sup), [Next]_vars PROVE Settled(sup)'
  OBVIOUS
<1>1. CASE UNCHANGED sup
  BY <1>1
<1>2. CASE sup' = Fresh
  BY <1>2, FreshSettled
<1>3. CASE TimePasses \/ Signal
  <2>1. sup \in Memory
    BY DEF Settled
  <2>2. \/ sup' = [sup EXCEPT !.warm = TRUE] \/ sup' = [sup EXCEPT !.stable = TRUE]
        \/ sup' = [sup EXCEPT !.stop = TRUE]
    BY <1>3 DEF TimePasses, Signal
  <2>3. CASE sup' = [sup EXCEPT !.warm = TRUE]
    BY <2>1, <2>3, SettledStep DEF Memory
  <2>4. CASE sup' = [sup EXCEPT !.stable = TRUE]
    BY <2>1, <2>4, SettledStep DEF Memory
  <2>5. CASE sup' = [sup EXCEPT !.stop = TRUE]
    BY <2>1, <2>5, SettledStep DEF Memory
  <2> QED
    BY <2>2, <2>3, <2>4, <2>5
<1> QED
  BY <1>1, <1>2, <1>3, MainSettled, ReadersSettled
     DEF Next, Supervise, ChildExits, OrphanExits, WriteStopFile, CleanUp, Launch, Enter, Exit,
         Crash, AllOver, vars

(* tunnel_supervisor.py, RestartBudget: whatever fails, in whatever order, *)
(* a supervisor starts no second child without a payment from the budget.  *)
THEOREM RespawnsArePaid == Spec => []EveryRespawnIsPaid
<1>1. Init => Settled(sup)
  BY FreshSettled DEF Init
<1>2. Settled(sup) => EveryRespawnIsPaid
  BY DEF Settled, Memory, EveryRespawnIsPaid
<1> QED
  BY <1>1, <1>2, NextSettled, PTL DEF Spec
=============================================================================
