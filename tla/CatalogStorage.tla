--------------------------- MODULE CatalogStorage ---------------------------
(***************************************************************************)
(* The files of the conversation catalog: the maintenance lock of threads  *)
(* and processes, the use of the database, its set-aside when it is        *)
(* corrupt, and its rebuild by the owner (catalog_storage.py, agent_admin  *)
(* rebuild_catalog, agent_catalog _connect).  A process may end between    *)
(* any two steps; nothing repairs what it leaves but the next user.        *)
(*                                                                         *)
(* A database is a number, and so are the files of its group.  SQLite is   *)
(* external: a connection makes the database and its two side files, and   *)
(* discards a log it finds without a database; the last one to close       *)
(* removes the side files.  Backup names are unique: a backup is its file. *)
(***************************************************************************)
EXTENDS Integers, FiniteSets, SequencesExt

CONSTANTS
  Users,        \* threads
  ProcessOf,    \* the process of a thread
  NoUser,       \* holds a free lock
  MaxDatabases  \* bound: databases made

Processes == {ProcessOf[t] : t \in Users}

ASSUME UserAssumption == DOMAIN ProcessOf = Users /\ NoUser \notin Users \cup Processes

VARIABLES
  group,     \* the database files by part: the database they belong to, or 0
  backups,   \* the files set aside: pairs of a part and a database
  corrupt,   \* the databases that cannot be read
  made,      \* databases made so far
  served,    \* history: the databases that were ever in place
  torn,      \* history: those whose files were moved, or put back, in part
  mutex,     \* per process: the thread that holds the RLock
  depth,     \* per process: _CatalogLock.depth
  locked,    \* the process that holds the file lock
  user       \* per thread: its step, its errand, what it prepared and moved

groupVars == <<group, backups, corrupt, made, served, torn>>
lockVars == <<mutex, depth, locked>>
storageVars == <<groupVars, lockVars, user>>

Parts == <<"main", "wal", "shm">>
NoErrand == [at |-> "idle", errand |-> "none", staged |-> 0, moved |-> <<>>]
Mine(t) == ProcessOf[t]
Is(t, step) == user[t].at = step
Then(t, step) == user' = [user EXCEPT ![t].at = step]

(* No catalog yet, or one that is there with the log of a process killed.  *)
StorageInit ==
  /\ made \in {0, 1} /\ served = 1 .. made
  /\ group = [part \in ToSet(Parts) |-> made]
  /\ backups = {} /\ corrupt = {} /\ torn = {}
  /\ mutex = [p \in Processes |-> NoUser] /\ depth = [p \in Processes |-> 0] /\ locked = NoUser
  /\ user = [t \in Users |-> NoErrand]
-----------------------------------------------------------------------------
(* The lock: a re-entrant mutex of the process, then a lock of the file    *)
(* that is polled for five seconds.                                        *)

Want(t, errand) ==
  /\ Is(t, "idle")
  /\ user' = [user EXCEPT ![t].at = "mutex", ![t].errand = errand]
  /\ UNCHANGED <<groupVars, lockVars>>

TakeMutex(t) ==
  /\ Is(t, "mutex") /\ mutex[Mine(t)] = NoUser
  /\ mutex' = [mutex EXCEPT ![Mine(t)] = t]
  /\ Then(t, "file")
  /\ UNCHANGED <<groupVars, depth, locked>>

TakeFileLock(t) ==
  /\ Is(t, "file") /\ locked = NoUser
  /\ locked' = Mine(t) /\ depth' = [depth EXCEPT ![Mine(t)] = 1]
  /\ Then(t, "in")
  /\ UNCHANGED <<groupVars, mutex>>

LockTimesOut(t) ==
  /\ Is(t, "file")
  /\ mutex' = [mutex EXCEPT ![Mine(t)] = NoUser]
  /\ user' = [user EXCEPT ![t] = NoErrand]
  /\ UNCHANGED <<groupVars, depth, locked>>

(* A refresh holds the lock, and takes it again for each connection.       *)
NestIn(t) ==
  /\ Is(t, "in") /\ user[t].errand = "use"
  /\ depth' = [depth EXCEPT ![Mine(t)] = @ + 1]
  /\ Then(t, "nested")
  /\ UNCHANGED <<groupVars, mutex, locked>>

ExitLock(t, from, to) ==
  /\ Is(t, from)
  /\ depth' = [depth EXCEPT ![Mine(t)] = @ - 1]
  /\ locked' = IF depth[Mine(t)] > 1 THEN locked ELSE NoUser
  /\ mutex' = IF depth[Mine(t)] > 1 THEN mutex ELSE [mutex EXCEPT ![Mine(t)] = NoUser]
  /\ user' = [user EXCEPT ![t] = IF to = "idle" THEN NoErrand ELSE [@ EXCEPT !.at = to]]
  /\ UNCHANGED groupVars

NestOut(t) == ExitLock(t, "nested", "in")
LeaveLock(t) == user[t].errand = "use" /\ ExitLock(t, "in", "idle")
LeaveRebuild(t) == ExitLock(t, "leave", "idle")
-----------------------------------------------------------------------------
(* A connection, which sets a corrupt database aside and makes a new one.  *)

Create(t, step) ==
  /\ made < MaxDatabases /\ made' = made + 1
  /\ group' = [part \in ToSet(Parts) |-> made + 1] /\ served' = served \cup {made + 1}
  /\ user' = [user EXCEPT ![t].at = step, ![t].moved = <<>>]
  /\ UNCHANGED <<backups, corrupt, torn, lockVars>>

ConnectNew(t) == Is(t, "nested") /\ group["main"] = 0 /\ Create(t, "open")

Connect(t) ==
  /\ Is(t, "nested") /\ group["main"] \notin corrupt \cup {0}
  /\ group' = [group EXCEPT !["wal"] = IF @ = 0 THEN group["main"] ELSE @,
                            !["shm"] = IF @ = 0 THEN group["main"] ELSE @]
  /\ Then(t, "open")
  /\ UNCHANGED <<backups, corrupt, made, served, torn, lockVars>>

FindCorrupt(t) ==
  /\ Is(t, "nested") /\ group["main"] \in corrupt
  /\ Then(t, "moving")
  /\ UNCHANGED <<groupVars, lockVars>>

Recreate(t) == Is(t, "moved") /\ user[t].errand = "use" /\ Create(t, "open")

Disconnect(t) ==
  /\ Is(t, "open")
  /\ group' = [group EXCEPT !["wal"] = 0, !["shm"] = 0]
  /\ Then(t, "nested")
  /\ UNCHANGED <<backups, corrupt, made, served, torn, lockVars>>
-----------------------------------------------------------------------------
(* rebuild_catalog: a new database is prepared beside the old one, whose   *)
(* log is emptied; then the old group is moved and the new one put there.  *)

Prepare(t) ==
  /\ Is(t, "in") /\ user[t].errand = "rebuild" /\ made < MaxDatabases
  /\ made' = made + 1
  /\ user' = [user EXCEPT ![t].at = "prepared", ![t].staged = made + 1]
  /\ UNCHANGED <<group, backups, corrupt, served, torn, lockVars>>

PrepareFails(t) ==
  /\ user[t].at \in {"in", "prepared"} /\ user[t].errand = "rebuild"
  /\ Then(t, "clean")
  /\ UNCHANGED <<groupVars, lockVars>>

Quiesce(t) ==
  /\ Is(t, "prepared")
  /\ group' = IF group["main"] \in corrupt \cup {0} THEN group
              ELSE [group EXCEPT !["wal"] = 0, !["shm"] = 0]
  /\ Then(t, "moving")
  /\ UNCHANGED <<backups, corrupt, made, served, torn, lockVars>>

SwapIn(t) ==
  /\ Is(t, "moved") /\ user[t].errand = "rebuild"
  /\ group' = [group EXCEPT !["main"] = user[t].staged]
  /\ served' = served \cup {user[t].staged}
  /\ Then(t, "clean")
  /\ UNCHANGED <<backups, corrupt, made, torn, lockVars>>

CleanPrepared(t) ==
  /\ Is(t, "clean")
  /\ Then(t, "leave")
  /\ UNCHANGED <<groupVars, lockVars>>
-----------------------------------------------------------------------------
(* move_database_group, file by file, and restore_group when it fails.     *)

LeftWithoutLogs == {i \in {1} : group[Parts[i]] # 0}   \* fault
Left == {i \in DOMAIN Parts : group[Parts[i]] # 0}

MoveFile(t) ==
  /\ Is(t, "moving")
  /\ \E i \in Left :
       LET part == Parts[i]
       IN  /\ \A j \in Left : i <= j
           /\ group' = [group EXCEPT ![part] = 0]
           /\ backups' = backups \cup {<<part, group[part]>>}
           /\ user' = [user EXCEPT ![t].moved = Append(@, <<part, group[part]>>)]
  /\ UNCHANGED <<corrupt, made, served, torn, lockVars>>

GroupMoved(t) ==
  /\ Is(t, "moving") /\ Left = {}
  /\ Then(t, "moved")
  /\ UNCHANGED <<groupVars, lockVars>>

(* A file cannot be moved, or the prepared one cannot be put in place.     *)
MoveFails(t) ==
  /\ Is(t, "moving") \/ (Is(t, "moved") /\ user[t].errand = "rebuild")
  /\ Then(t, "restoring")
  /\ UNCHANGED <<groupVars, lockVars>>

Vacant(part) == group[part] = 0

PutFileBack(file) ==
  /\ Vacant(file[1])
  /\ group' = [group EXCEPT ![file[1]] = file[2]] /\ backups' = backups \ {file}

(* A place that is taken, or a file that cannot be moved, leaves a backup. *)
RestoreFile(t) ==
  /\ Is(t, "restoring") /\ user[t].moved # <<>>
  /\ \/ PutFileBack(Last(user[t].moved)) /\ UNCHANGED torn
     \/ torn' = torn \cup {Last(user[t].moved)[2]} /\ UNCHANGED <<group, backups>>
  /\ user' = [user EXCEPT ![t].moved = Front(@)]
  /\ UNCHANGED <<corrupt, made, served, lockVars>>

Restored(t) ==
  /\ Is(t, "restoring") /\ user[t].moved = <<>>
  /\ Then(t, IF user[t].errand = "use" THEN "nested" ELSE "clean")
  /\ UNCHANGED <<groupVars, lockVars>>
-----------------------------------------------------------------------------
(* A process ends, and the system unlocks its file; a database decays.     *)

AmidMove(t) == user[t].at \in {"moving", "restoring"}
HalfMoved(t) == {file[2] : file \in ToSet(user[t].moved)}

ProcessEnds(p) ==
  /\ user' = [t \in Users |-> IF Mine(t) = p THEN NoErrand ELSE user[t]]
  /\ mutex' = [mutex EXCEPT ![p] = NoUser] /\ depth' = [depth EXCEPT ![p] = 0]
  /\ locked' = IF locked = p THEN NoUser ELSE locked
  /\ torn' = torn \cup UNION {HalfMoved(t) : t \in {u \in Users : Mine(u) = p /\ AmidMove(u)}}
  /\ UNCHANGED <<group, backups, corrupt, made, served>>

Decay ==
  /\ group["main"] # 0 /\ \A t \in Users : ~Is(t, "open")
  /\ corrupt' = corrupt \cup {group["main"]}
  /\ UNCHANGED <<group, backups, made, served, torn, lockVars, user>>

UserStep(t) ==
  \/ \E errand \in {"use", "rebuild"} : Want(t, errand)
  \/ TakeMutex(t) \/ TakeFileLock(t) \/ LockTimesOut(t) \/ NestIn(t)
  \/ NestOut(t) \/ LeaveLock(t) \/ LeaveRebuild(t)
  \/ ConnectNew(t) \/ Connect(t) \/ FindCorrupt(t) \/ Recreate(t) \/ Disconnect(t)
  \/ Prepare(t) \/ PrepareFails(t) \/ Quiesce(t) \/ SwapIn(t) \/ CleanPrepared(t)
  \/ MoveFile(t) \/ GroupMoved(t) \/ MoveFails(t) \/ RestoreFile(t) \/ Restored(t)

StorageNext == Decay \/ (\E p \in Processes : ProcessEnds(p)) \/ \E t \in Users : UserStep(t)
StorageSpec == StorageInit /\ [][StorageNext]_storageVars
-----------------------------------------------------------------------------
(* Whatever is interrupted: one thread of one process works on the catalog *)
(* at a time; a log is never beside the database of another one, so that   *)
(* nothing is replayed into it; and the file of every database that was    *)
(* ever in place is there still or is among the backups.  Its log is left  *)
(* behind, where the next connection discards it, only while it is being   *)
(* moved, or when a process ended or a file could not be put back halfway: *)
(* move_database_group keeps the group together in a process that goes on, *)
(* and nothing does so across the end of one.                              *)
Working == {t \in Users : user[t].at \notin {"idle", "mutex", "file"}}
LogAlone == group["main"] = 0 /\ group["wal"] # 0

StorageIsWhole ==
  /\ Cardinality(Working) <= 1
  /\ group["main"] # 0 => {group["wal"], group["shm"]} \subseteq {0, group["main"]}
  /\ \A db \in served : group["main"] = db \/ <<"main", db>> \in backups
  /\ LogAlone => group["wal"] \in torn \/ \E t \in Users : AmidMove(t)
=============================================================================
