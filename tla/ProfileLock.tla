---------------------------- MODULE ProfileLock ----------------------------
(***************************************************************************)
(* The lock file that admits one supervisor per tunnel profile: ProfileLock *)
(* of tunnel_supervisor.py, used by main().  The launches are processes, so *)
(* every system call is a step of its own.                                 *)
(* Definitions marked "fault" are mutants and no part of the system.       *)
(***************************************************************************)
EXTENDS Integers, FiniteSets

CONSTANTS
  Launches,  \* processes that run main() for the profile
  Nobody,
  Posix      \* a file that somebody has open can be unlinked

ASSUME NobodyAssumption == Nobody \notin Launches
ASSUME PlatformAssumption == Posix \in BOOLEAN

VARIABLES
  stage,   \* where each launch is in main()
  opened,  \* the lock file it has open; a file is named after its creator
  path     \* the lock file the path leads to

lockVars == <<stage, opened, path>>

LockInit ==
  /\ stage = [l \in Launches |-> "idle"] /\ opened = [l \in Launches |-> Nobody]
  /\ path = Nobody

MoveTo(l, from, to) == stage[l] = from /\ stage' = [stage EXCEPT ![l] = to]

Close(l) == opened' = [opened EXCEPT ![l] = Nobody]

Start(l) == MoveTo(l, "idle", "open") /\ UNCHANGED <<opened, path>>

OpenLockFile(l) ==
  /\ MoveTo(l, "open", "lock")
  /\ path' = IF path = Nobody THEN l ELSE path
  /\ opened' = [opened EXCEPT ![l] = path']

(* The lock is on the open file, not on the path; it is not waited for.    *)
Holders == {l \in Launches : stage[l] \in {"supervise", "unlock"}}
Locked(l) == \E m \in Holders : opened[m] = opened[l]

TakeLock(l) == MoveTo(l, "lock", "supervise") /\ ~Locked(l) /\ UNCHANGED <<opened, path>>

Refused(l) == MoveTo(l, "lock", "over") /\ Locked(l) /\ Close(l) /\ UNCHANGED path

(* __exit__ *)
Leave(l) == MoveTo(l, "supervise", "unlock") /\ UNCHANGED <<opened, path>>

Unlock(l) == MoveTo(l, "unlock", "unlink") /\ Close(l) /\ UNCHANGED path

RemovableAnyway == TRUE   \* fault: deletion shared on every platform
Removable == Posix \/ \A m \in Launches : opened[m] = Nobody

Unlink(l) ==
  /\ MoveTo(l, "unlink", "over")
  /\ path' = IF Removable THEN Nobody ELSE path
  /\ UNCHANGED opened

(* The process dies; the system closes its file, which stays on disk.      *)
Die(l) ==
  /\ stage[l] \notin {"idle", "over"}
  /\ stage' = [stage EXCEPT ![l] = "over"] /\ Close(l)
  /\ UNCHANGED path

(* tc.ps1, on Windows, tidies up after a stop without looking who starts.  *)
RemoveLockFile == ~Posix /\ path # Nobody /\ Removable /\ path' = Nobody /\ UNCHANGED <<stage, opened>>

LockNext ==
  \/ RemoveLockFile
  \/ \E l \in Launches : \/ Start(l) \/ OpenLockFile(l) \/ TakeLock(l) \/ Refused(l)
                            \/ Leave(l) \/ Unlock(l) \/ Unlink(l) \/ Die(l)

LockSpec == LockInit /\ [][LockNext]_lockVars
-----------------------------------------------------------------------------
LockTypeOK ==
  /\ stage \in [Launches -> {"idle", "open", "lock", "supervise", "unlock", "unlink", "over"}]
  /\ opened \in [Launches -> Launches \cup {Nobody}] /\ path \in Launches \cup {Nobody}

(* CHANGELOG: one supervisor per profile.                                  *)
SingleInstance == \A l, m \in Holders : l = m

(* What makes it so on Windows: every open lock file is the one the path   *)
(* leads to.                                                               *)
OpenIsOnPath == \A l \in Launches : opened[l] # Nobody => opened[l] = path
=============================================================================
