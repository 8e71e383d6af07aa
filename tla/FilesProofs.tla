----------------------------- MODULE FilesProofs -----------------------------
(***************************************************************************)
(* Proofs about what outlives a call: the results kept behind handles, the *)
(* files of the catalog's database, the workspace and its trash, and the   *)
(* catalog's rows, for any number of readers, handles, threads, processes, *)
(* paths, files and refreshes.                                             *)
(***************************************************************************)
EXTENDS WorkspaceFiles, CatalogRefresh, CatalogStorage, ResultHandles, FiniteSetTheorems,
        SequenceTheorems, NaturalsInduction, WellFoundedInduction, TLAPS

-----------------------------------------------------------------------------
(* ResultHandles.  What a reader read, it read while the path was allowed  *)
(* or it is told so by the next word of the policy; a handle keeps its     *)
(* version from when it is entered.                                        *)

ReaderSteps ==
  {"idle", "taking", "confirm", "enter", "found", "reading", "verify", "last", "shown"}
EntryType == [is : {"new", "in", "gone"}, late : BOOLEAN, version : Nat]
ReaderType == [at : ReaderSteps, handle : Handles \cup {NoHandle}, version : Nat, right : BOOLEAN]

HandleTypes ==
  /\ content \in Nat /\ allowed \in BOOLEAN
  /\ entry \in [Handles -> EntryType] /\ reader \in [Readers -> ReaderType]

TableBounded == IsFiniteSet(LiveHandles) /\ Cardinality(LiveHandles) <= MaxHandles

(* What is known of a reader at its step.                                  *)
Covers(r) ==
  /\ r.at \in {"confirm", "verify"} /\ allowed => r.right
  /\ r.at \in {"enter", "last", "shown"} => r.right
  /\ r.at \in {"found", "reading", "verify", "last", "shown"} =>
       r.handle \in Handles /\ entry[r.handle].is # "new"
  /\ r.at \in {"verify", "last", "shown"} => r.version = entry[r.handle].version
Covered(t) == Covers(reader[t])

HandleInv == HandleTypes /\ TableBounded /\ \A t \in Readers : Covered(t)

(* A table that only loses live handles, or gains one while there is room, *)
(* keeps its bound.                                                        *)
LEMMA TableKeepsBound ==
  ASSUME TableBounded, \/ LiveHandles' \subseteq LiveHandles
                       \/ /\ Cardinality(LiveHandles) < MaxHandles
                          /\ \E h \in Handles : LiveHandles' \subseteq LiveHandles \cup {h}
  PROVE  TableBounded'
<1>0. MaxHandles \in Nat
  BY HandleAssumption
<1>1. IsFiniteSet(LiveHandles) /\ Cardinality(LiveHandles) \in Nat /\ Cardinality(LiveHandles) <= MaxHandles
  BY FS_CardinalityType DEF TableBounded
<1>2. CASE LiveHandles' \subseteq LiveHandles
  <2>1. IsFiniteSet(LiveHandles') /\ Cardinality(LiveHandles') \in Nat
        /\ Cardinality(LiveHandles') <= Cardinality(LiveHandles)
    BY <1>1, <1>2, FS_Subset, FS_CardinalityType
  <2> QED
    BY <1>0, <1>1, <2>1 DEF TableBounded
<1>3. ASSUME NEW h \in Handles, LiveHandles' \subseteq LiveHandles \cup {h},
             Cardinality(LiveHandles) < MaxHandles
      PROVE  TableBounded'
  <2>1. /\ IsFiniteSet(LiveHandles \cup {h})
        /\ Cardinality(LiveHandles \cup {h}) \in {Cardinality(LiveHandles), Cardinality(LiveHandles) + 1}
    BY <1>1, FS_AddElement
  <2>2. IsFiniteSet(LiveHandles') /\ Cardinality(LiveHandles') \in Nat
        /\ Cardinality(LiveHandles') <= Cardinality(LiveHandles \cup {h})
    BY <1>3, <2>1, FS_Subset, FS_CardinalityType
  <2> QED
    BY <1>0, <1>1, <1>3, <2>1, <2>2 DEF TableBounded
<1> QED
  BY <1>2, <1>3

(* A step of one reader that leaves the entries alone.                     *)
LEMMA ReaderMoves ==
  ASSUME HandleInv, NEW t \in Readers, UNCHANGED <<content, allowed, entry>>,
         NEW r \in ReaderType, reader' = [reader EXCEPT ![t] = r], Covers(r)
  PROVE  HandleInv'
<1>1. \A u \in Readers : reader'[u] = IF u = t THEN r ELSE reader[u]
  BY DEF HandleInv, HandleTypes
<1>2. HandleTypes'
  BY DEF HandleInv, HandleTypes
<1>3. LiveHandles' = LiveHandles
  BY DEF LiveHandles
<1>4. TableBounded'
  BY <1>3 DEF HandleInv, TableBounded
<1>5. \A u \in Readers : Covered(u)'
  BY <1>1 DEF HandleInv, Covered, Covers
<1> QED
  BY <1>2, <1>4, <1>5 DEF HandleInv

(* A change of the table: an entry that is not new stays so with its       *)
(* version.                                                                *)
LEMMA TableMoves ==
  ASSUME HandleInv, UNCHANGED <<content, allowed>>, entry' \in [Handles -> EntryType],
         \A h \in Handles : entry[h].is # "new" => entry'[h].is # "new" /\ entry'[h].version = entry[h].version,
         reader' = reader \/ \E t \in Readers : reader' = [reader EXCEPT ![t] = NoReader],
         \/ LiveHandles' \subseteq LiveHandles
         \/ /\ Cardinality(LiveHandles) < MaxHandles
            /\ \E h \in Handles : LiveHandles' \subseteq LiveHandles \cup {h}
  PROVE  HandleInv'
<1>0. NoReader \in ReaderType /\ NoReader.at = "idle"
  BY DEF NoReader, ReaderType, ReaderSteps
<1>1. \A u \in Readers : reader'[u] \in {NoReader, reader[u]}
  BY DEF HandleInv, HandleTypes
<1>2. HandleTypes'
  BY <1>0 DEF HandleInv, HandleTypes
<1>3. TableBounded'
  BY TableKeepsBound DEF HandleInv
<1>4. \A u \in Readers : Covered(u)'
  BY <1>0, <1>1 DEF HandleInv, Covered, Covers
<1> QED
  BY <1>2, <1>3, <1>4 DEF HandleInv

LEMMA HandleStep == HandleInv /\ [HandleNext]_handleVars => HandleInv'
<1> SUFFICES ASSUME HandleInv, [HandleNext]_handleVars PROVE HandleInv'
  OBVIOUS
<1>0. /\ HandleTypes /\ \A t \in Readers : reader[t] \in ReaderType /\ Covered(t)
      /\ \A h \in Handles : entry[h] \in EntryType
      /\ NoReader \in ReaderType /\ NoReader.at = "idle"
  BY DEF HandleInv, HandleTypes, NoReader, ReaderType, ReaderSteps
<1>1. CASE Disturb
  <2>a. \/ content' = content + 1 /\ allowed' = allowed
        \/ allowed' = ~allowed /\ content' = content
    BY <1>1 DEF Disturb
  <2>b. entry' = entry /\ reader' = [t \in Readers |-> [reader[t] EXCEPT !.right = @ \/ allowed']]
    BY <1>1 DEF Disturb
  <2>c. content \in Nat /\ allowed \in BOOLEAN
    BY <1>0 DEF HandleTypes
  <2>d. content' \in Nat
    BY <2>a, <2>c
  <2>e. allowed' \in BOOLEAN
    BY <2>a, <2>c
  <2>1. /\ content' \in Nat /\ allowed' \in BOOLEAN /\ entry' = entry
        /\ reader' = [t \in Readers |-> [reader[t] EXCEPT !.right = @ \/ allowed']]
    BY <2>b, <2>d, <2>e
  <2>2. \A t \in Readers :
          /\ reader'[t] \in ReaderType /\ reader'[t].right = (reader[t].right \/ allowed')
          /\ reader'[t].at = reader[t].at /\ reader'[t].handle = reader[t].handle
          /\ reader'[t].version = reader[t].version
    BY <1>0, <2>1 DEF ReaderType
  <2>3. HandleTypes'
    BY <1>0, <2>1, <2>2 DEF HandleTypes
  <2>4. TableBounded'
    BY <2>1 DEF HandleInv, TableBounded, LiveHandles
  <2>5. ASSUME NEW t \in Readers PROVE Covered(t)'
    <3>1. /\ reader'[t].at = reader[t].at /\ reader'[t].handle = reader[t].handle
          /\ reader'[t].version = reader[t].version /\ entry' = entry
      BY <2>1, <2>2
    <3>2. allowed' => reader'[t].right
      BY <2>2
    <3>3. reader[t].right => reader'[t].right
      BY <2>2
    <3> QED
      BY <1>0, <3>1, <3>2, <3>3 DEF Covered, Covers
  <2> QED
    BY <2>3, <2>4, <2>5 DEF HandleInv
<1>2. CASE ClearHandles
  <2>1. entry' = [h \in Handles |-> IF entry[h].is = "in" THEN Gone(h) ELSE entry[h]]
    BY <1>2 DEF ClearHandles
  <2>2. \A h \in Handles :
          /\ entry'[h] \in EntryType /\ entry'[h].is # "in"
          /\ entry[h].is # "new" => entry'[h].is # "new" /\ entry'[h].version = entry[h].version
    BY <1>0, <2>1 DEF Gone, EntryType
  <2>3. LiveHandles' \subseteq LiveHandles
    BY <2>2 DEF LiveHandles
  <2>4. entry' \in [Handles -> EntryType]
    BY <2>1, <2>2
  <2> QED
    BY <1>2, <2>2, <2>3, <2>4, TableMoves DEF ClearHandles
<1>3. ASSUME NEW h \in Handles, HandleExpires(h) PROVE HandleInv'
  <2>1. entry' = [entry EXCEPT ![h].late = TRUE]
    BY <1>3 DEF HandleExpires
  <2>2. \A k \in Handles :
          /\ entry'[k] \in EntryType
          /\ entry'[k].is = entry[k].is /\ entry'[k].version = entry[k].version
          /\ entry'[k].late = (entry[k].late \/ k = h)
    BY <1>0, <2>1 DEF HandleTypes, EntryType
  <2>3. LiveHandles' \subseteq LiveHandles
    BY <2>2 DEF LiveHandles
  <2>4. entry' \in [Handles -> EntryType]
    BY <1>0, <2>1, <2>2 DEF HandleTypes
  <2> QED
    BY <1>3, <2>2, <2>3, <2>4, TableMoves DEF HandleExpires
<1>4. ASSUME NEW t \in Readers,
             Export(t) \/ TakeContent(t) \/ ConfirmExport(t) \/ AuthorizeRead(t) \/ ReadContent(t)
               \/ VerifyRight(t) \/ Show(t) \/ GiveText(t) \/ \E h \in Handles : Find(t, h)
      PROVE  HandleInv'
  <2>0. UNCHANGED <<content, allowed, entry>>
    BY <1>4 DEF Export, TakeContent, ConfirmExport, AuthorizeRead, ReadContent, VerifyRight, Show,
                GiveText, Find, Authorize, Undisturbed
  <2>1. CASE Export(t)
    <3> DEFINE r == [reader[t] EXCEPT !.at = "taking"]
    <3>1. r \in ReaderType /\ r.at = "taking" /\ reader' = [reader EXCEPT ![t] = r]
      BY <1>0, <2>1 DEF Export, Authorize, Proceed, ReaderType, ReaderSteps
    <3> HIDE DEF r
    <3>2. Covers(r)
      BY <1>0, <3>1 DEF Covered, Covers, HandleTypes
    <3> QED
      BY <1>0, <2>0, <3>1, <3>2, ReaderMoves
  <2>2. CASE TakeContent(t)
    <3> DEFINE r == [reader[t] EXCEPT !.at = "confirm", !.version = content, !.right = allowed]
    <3>1. r \in ReaderType /\ r.at = "confirm" /\ r.right = allowed /\ reader' = [reader EXCEPT ![t] = r]
      BY <1>0, <2>2 DEF TakeContent, ReaderType, ReaderSteps, HandleTypes
    <3> HIDE DEF r
    <3>2. Covers(r)
      BY <1>0, <3>1 DEF Covered, Covers, HandleTypes
    <3> QED
      BY <1>0, <2>0, <3>1, <3>2, ReaderMoves
  <2>3. CASE ConfirmExport(t)
    <3> DEFINE r == [reader[t] EXCEPT !.at = "enter"]
    <3>1. /\ r \in ReaderType /\ r.at = "enter" /\ r.right = reader[t].right /\ reader' = [reader EXCEPT ![t] = r]
          /\ reader[t].at = "confirm" /\ allowed
      BY <1>0, <2>3 DEF ConfirmExport, Authorize, Proceed, ReaderType, ReaderSteps
    <3> HIDE DEF r
    <3>2. Covers(r)
      BY <1>0, <3>1 DEF Covered, Covers, HandleTypes
    <3> QED
      BY <1>0, <2>0, <3>1, <3>2, ReaderMoves
  <2>4. CASE AuthorizeRead(t)
    <3> DEFINE r == [reader[t] EXCEPT !.at = "reading"]
    <3>1. /\ r \in ReaderType /\ r.at = "reading" /\ r.handle = reader[t].handle
          /\ reader' = [reader EXCEPT ![t] = r] /\ reader[t].at = "found"
      BY <1>0, <2>4 DEF AuthorizeRead, Authorize, Proceed, ReaderType, ReaderSteps
    <3> HIDE DEF r
    <3>2. Covers(r)
      BY <1>0, <3>1 DEF Covered, Covers, HandleTypes
    <3> QED
      BY <1>0, <2>0, <3>1, <3>2, ReaderMoves
  <2>5. CASE ReadContent(t)
    <3> DEFINE r == [reader[t] EXCEPT !.at = "verify", !.version = content, !.right = allowed]
    <3>1. /\ r \in ReaderType /\ r.at = "verify" /\ r.handle = reader[t].handle /\ r.right = allowed
          /\ r.version = content /\ reader' = [reader EXCEPT ![t] = r] /\ reader[t].at = "reading"
          /\ content = entry[reader[t].handle].version
      BY <1>0, <2>5 DEF ReadContent, ReaderType, ReaderSteps, HandleTypes
    <3> HIDE DEF r
    <3>2. Covers(r)
      BY <1>0, <3>1 DEF Covered, Covers, HandleTypes
    <3> QED
      BY <1>0, <2>0, <3>1, <3>2, ReaderMoves
  <2>6. CASE VerifyRight(t)
    <3> DEFINE r == [reader[t] EXCEPT !.at = "last"]
    <3>1. /\ r \in ReaderType /\ r.at = "last" /\ r.handle = reader[t].handle /\ r.right = reader[t].right
          /\ r.version = reader[t].version /\ reader' = [reader EXCEPT ![t] = r] /\ reader[t].at = "verify"
          /\ allowed
      BY <1>0, <2>6 DEF VerifyRight, Authorize, Proceed, ReaderType, ReaderSteps
    <3> HIDE DEF r
    <3>2. Covers(r)
      BY <1>0, <3>1 DEF Covered, Covers, HandleTypes
    <3> QED
      BY <1>0, <2>0, <3>1, <3>2, ReaderMoves
  <2>7. CASE Show(t)
    <3> DEFINE r == [reader[t] EXCEPT !.at = "shown"]
    <3>1. /\ r \in ReaderType /\ r.at = "shown" /\ r.handle = reader[t].handle /\ r.right = reader[t].right
          /\ r.version = reader[t].version /\ reader' = [reader EXCEPT ![t] = r] /\ reader[t].at = "last"
      BY <1>0, <2>7 DEF Show, ReaderType, ReaderSteps
    <3> HIDE DEF r
    <3>2. Covers(r)
      BY <1>0, <3>1 DEF Covered, Covers, HandleTypes
    <3> QED
      BY <1>0, <2>0, <3>1, <3>2, ReaderMoves
  <2>8. CASE GiveText(t)
    <3>1. reader' = [reader EXCEPT ![t] = NoReader]
      BY <2>8 DEF GiveText, ReaderEnds
    <3> QED
      BY <1>0, <2>0, <3>1, ReaderMoves DEF Covered, Covers, HandleTypes
  <2>9. ASSUME NEW h \in Handles, Find(t, h) PROVE HandleInv'
    <3> DEFINE r == [reader[t] EXCEPT !.at = "found", !.handle = h]
    <3>1. /\ r \in ReaderType /\ r.at = "found" /\ r.handle = h /\ reader' = [reader EXCEPT ![t] = r]
          /\ entry[h].is = "in"
      BY <1>0, <2>9 DEF Find, ReaderType, ReaderSteps, LiveHandles
    <3> HIDE DEF r
    <3>2. Covers(r)
      BY <1>0, <3>1 DEF Covered, Covers, HandleTypes
    <3> QED
      BY <1>0, <2>0, <3>1, <3>2, ReaderMoves
  <2> QED
    BY <1>4, <2>1, <2>2, <2>3, <2>4, <2>5, <2>6, <2>7, <2>8, <2>9
<1>5. Purged \in [Handles -> EntryType]
      /\ \A h \in Handles :
           /\ Purged[h].version = entry[h].version /\ (entry[h].is = "new" <=> Purged[h].is = "new")
           /\ Purged[h].is = "in" => h \in LiveHandles
  BY <1>0 DEF Purged, Gone, EntryType, LiveHandles, HandleTypes
<1>6. ASSUME NEW t \in Readers, NEW h \in Handles, Enter(t, h) PROVE HandleInv'
  <2> DEFINE e == [is |-> "in", late |-> FALSE, version |-> reader[t].version]
  <2>1. /\ entry' = [Purged EXCEPT ![h] = e] /\ entry[h].is = "new" /\ Cardinality(LiveHandles) < MaxHandles
        /\ reader' = [reader EXCEPT ![t] = NoReader] /\ UNCHANGED <<content, allowed>>
    BY <1>6 DEF Enter, ReaderEnds, Undisturbed
  <2>2. e \in EntryType
    BY <1>0 DEF EntryType, ReaderType
  <2> HIDE DEF e
  <2>3. \A k \in Handles : entry'[k] = IF k = h THEN e ELSE Purged[k]
    BY <1>5, <2>1
  <2>4. entry' \in [Handles -> EntryType]
    BY <1>5, <2>1, <2>2
  <2>5. LiveHandles' \subseteq LiveHandles \cup {h}
    BY <1>5, <2>3 DEF LiveHandles
  <2>6. \A k \in Handles : entry[k].is # "new" => entry'[k].is # "new" /\ entry'[k].version = entry[k].version
    BY <1>5, <2>1, <2>3
  <2> QED
    BY <2>1, <2>4, <2>5, <2>6, TableMoves
<1>7. ASSUME NEW t \in Readers, ExportFails(t) PROVE HandleInv'
  <2>1. entry' \in {Purged, entry} /\ reader' = [reader EXCEPT ![t] = NoReader] /\ UNCHANGED <<content, allowed>>
    BY <1>7 DEF ExportFails, ReaderEnds, Undisturbed
  <2>2. entry' \in [Handles -> EntryType]
    BY <1>0, <1>5, <2>1 DEF HandleTypes
  <2>3. LiveHandles' \subseteq LiveHandles
    BY <1>5, <2>1 DEF LiveHandles
  <2>4. \A k \in Handles : entry[k].is # "new" => entry'[k].is # "new" /\ entry'[k].version = entry[k].version
    BY <1>5, <2>1
  <2> QED
    BY <2>1, <2>2, <2>3, <2>4, TableMoves
<1>8. ASSUME NEW t \in Readers, ReadFails(t) PROVE HandleInv'
  <2> DEFINE h == reader[t].handle
  <2>1. /\ entry' = entry \/ entry' = [entry EXCEPT ![h] = Gone(h)]
        /\ reader' = [reader EXCEPT ![t] = NoReader] /\ UNCHANGED <<content, allowed>>
    BY <1>8 DEF ReadFails, ReaderEnds, Undisturbed
  <2>2. h \in Handles
    BY <1>0, <1>8 DEF ReadFails, Covered, Covers
  <2> HIDE DEF h
  <2>3. \A k \in Handles :
          /\ entry'[k] \in EntryType /\ entry'[k].version = entry[k].version
          /\ entry[k].is # "new" => entry'[k].is # "new"
          /\ entry'[k].is = "in" => entry'[k] = entry[k]
    BY <1>0, <2>1, <2>2 DEF Gone, EntryType, HandleTypes
  <2>4. entry' \in [Handles -> EntryType]
    BY <1>0, <2>1, <2>3 DEF HandleTypes
  <2>5. LiveHandles' \subseteq LiveHandles
    BY <2>3 DEF LiveHandles
  <2> QED
    BY <2>1, <2>3, <2>4, <2>5, TableMoves
<1>9. CASE UNCHANGED handleVars
  BY <1>9 DEF handleVars, HandleInv, HandleTypes, TableBounded, LiveHandles, Covered, Covers
<1> QED
  BY <1>1, <1>2, <1>3, <1>4, <1>6, <1>7, <1>8, <1>9 DEF HandleNext

(* artifacts.py, media_results.py: what a handle shows is the export's     *)
(* content, and its path was allowed after it was read; the table never    *)
(* holds more than its limit.                                              *)
THEOREM HandlesAreAuthorized == HandleSpec => []HandlesShowWhatMayBeRead
<1>1. HandleInit => HandleInv
  <2> SUFFICES ASSUME HandleInit PROVE HandleInv
    OBVIOUS
  <2>1. HandleTypes /\ \A t \in Readers : Covered(t)
    BY DEF HandleInit, HandleTypes, Covered, Covers, NewEntry, NoReader, EntryType, ReaderType, ReaderSteps
  <2>2. LiveHandles = {}
    BY DEF HandleInit, LiveHandles, NewEntry
  <2>3. TableBounded
    BY <2>2, FS_EmptySet, HandleAssumption DEF TableBounded
  <2> QED
    BY <2>1, <2>3 DEF HandleInv
<1>2. HandleInv => HandlesShowWhatMayBeRead
  BY DEF HandleInv, TableBounded, Covered, Covers, HandlesShowWhatMayBeRead
<1> QED
  BY HandleStep, <1>1, <1>2, PTL DEF HandleSpec
-----------------------------------------------------------------------------
(* CatalogStorage.  The mutex, the depth and the file lock agree with the  *)
(* step of the one thread that works; and the files it has moved are those *)
(* that are missing from the group, the database first.  A log that is     *)
(* moved or left alone is its database's, or one that was torn from it.    *)

WorkSteps ==
  {"in", "nested", "open", "moving", "moved", "restoring", "prepared", "clean", "leave"}
PartNames == {"main", "wal", "shm"}
UserType ==
  [at : {"idle", "mutex", "file"} \cup WorkSteps, errand : {"none", "use", "rebuild"},
   staged : Nat, moved : Seq(PartNames \X Nat)]

Nesting(r) ==
  IF r.at \in {"nested", "open"} \/ (r.at \in {"moving", "moved", "restoring"} /\ r.errand = "use")
  THEN 2 ELSE 1

Fits(r) ==
  /\ r.at \in {"nested", "open"} => r.errand = "use"
  /\ r.at \in {"prepared", "clean", "leave"} => r.errand = "rebuild"
  /\ r.at # "idle" => r.errand # "none"
  /\ r.at \in {"prepared", "moving", "moved"} /\ r.errand = "rebuild" => r.staged # 0

Holds(t) ==
  /\ user[t].at \notin {"idle", "mutex"} => mutex[Mine(t)] = t
  /\ user[t].at \in WorkSteps => locked = Mine(t) /\ depth[Mine(t)] = Nesting(user[t])
  /\ Fits(user[t])

LocksAgree ==
  /\ mutex \in [Processes -> Users \cup {NoUser}] /\ depth \in [Processes -> Nat]
  /\ locked \in Processes \cup {NoUser}
  /\ user \in [Users -> UserType]
  /\ \A t \in Users : Holds(t)

(* The files that were moved so far, and not put back yet.                 *)
Order(g, m) ==
  /\ m # <<>> => g["main"] = 0
  /\ \A i \in 2..Len(m) : m[i][1] # "main"
  /\ m # <<>> /\ m[1][1] = "main" =>
       /\ {g["wal"], g["shm"]} \subseteq {0, m[1][2]}
       /\ \A i \in 2..Len(m) : m[i][2] = m[1][2]

InOrderMoved(m) == Order(group, m)

Follows(m, db) == m # <<>> /\ m[1] = <<"main", db>>
LogsFollow(m, lost) ==
  \A i \in 1..Len(m) : m[i][1] = "wal" => m[i][2] \in lost \/ Follows(m, m[i][2])

Moves(t) ==
  /\ user[t].at \in {"moving", "moved", "restoring"} =>
       InOrderMoved(user[t].moved) /\ LogsFollow(user[t].moved, torn)
  /\ user[t].at = "moved" => \A part \in PartNames : group[part] = 0
  /\ user[t].at \in {"idle", "mutex", "file", "in", "nested", "open", "prepared"} => user[t].moved = <<>>

GroupWhole == group["main"] # 0 => {group["wal"], group["shm"]} \subseteq {0, group["main"]}
NothingReplaced == 0 \notin served /\ \A db \in served : group["main"] = db \/ <<"main", db>> \in backups

LogsKnown ==
  LogAlone =>
    \/ group["wal"] \in torn
    \/ \E t \in Users : AmidMove(t) /\ Follows(user[t].moved, group["wal"])

FilesAgree ==
  /\ group \in [PartNames -> Nat] /\ made \in Nat
  /\ GroupWhole /\ NothingReplaced /\ LogsKnown /\ \A t \in Users : Moves(t)

StorageInv == LocksAgree /\ FilesAgree

LEMMA ProcessesAre ==
  NoUser \notin Users /\ NoUser \notin Processes /\ \A t \in Users : Mine(t) \in Processes
BY UserAssumption DEF Processes, Mine

(* One thread works at a time.                                             *)
LEMMA WorksAlone ==
  ASSUME LocksAgree, NEW t \in Users, NEW u \in Users, user[t].at \in WorkSteps, user[u].at \in WorkSteps
  PROVE  t = u
BY DEF LocksAgree, Holds, WorkSteps

(* So a log without its database is torn, or the thread that works moves.  *)
LEMMA LogFollows ==
  ASSUME StorageInv, NEW t \in Users, user[t].at \in WorkSteps, LogAlone
  PROVE  group["wal"] \in torn \/ (AmidMove(t) /\ Follows(user[t].moved, group["wal"]))
<1>1. \A u \in Users : AmidMove(u) => u = t
  BY WorksAlone DEF StorageInv, AmidMove, WorkSteps
<1> QED
  BY <1>1 DEF StorageInv, FilesAgree, LogsKnown

(* A step of the thread that works, within the lock.                       *)
LEMMA WorkerStep ==
  ASSUME StorageInv, NEW t \in Users, user[t].at \in WorkSteps, NEW r \in UserType,
         user' = [user EXCEPT ![t] = r], UNCHANGED lockVars,
         r.at \in WorkSteps, Nesting(r) = Nesting(user[t]), Fits(r),
         group' \in [PartNames -> Nat], made' \in Nat, GroupWhole', NothingReplaced', Moves(t)',
         LogAlone' =>
           \/ group'["wal"] \in torn'
           \/ r.at \in {"moving", "restoring"} /\ Follows(r.moved, group'["wal"])
  PROVE  StorageInv'
<1>1. \A u \in Users : user'[u] = IF u = t THEN r ELSE user[u]
  BY DEF StorageInv, LocksAgree
<1>2. user' \in [Users -> UserType]
  BY DEF StorageInv, LocksAgree
<1>3. UNCHANGED <<mutex, depth, locked>>
  BY DEF lockVars
<1>4. ASSUME NEW u \in Users PROVE Holds(u)' /\ Moves(u)'
  <2>1. CASE u = t
    <3>1. user[t].at \notin {"idle", "mutex"} /\ Holds(t)
      BY DEF WorkSteps, StorageInv, LocksAgree
    <3>2. Holds(t)'
      BY <1>1, <1>3, <3>1 DEF Holds
    <3> QED
      BY <2>1, <3>2
  <2>2. CASE u # t
    <3>1. user'[u] = user[u] /\ user[u] \in UserType /\ user[u].at \notin WorkSteps
      BY <1>1, <2>2, WorksAlone DEF StorageInv, LocksAgree
    <3>2. Holds(u)'
      BY <1>3, <3>1 DEF Holds, StorageInv, LocksAgree
    <3>3. Moves(u)'
      BY <3>1 DEF Moves, StorageInv, FilesAgree, WorkSteps
    <3> QED
      BY <3>2, <3>3
  <2> QED
    BY <2>1, <2>2
<1>5. LogsKnown'
  BY <1>1 DEF LogsKnown, AmidMove
<1> QED
  BY <1>2, <1>3, <1>4, <1>5 DEF StorageInv, LocksAgree, FilesAgree

(* A thread, or all of a process, whose step changes the locks and nothing *)
(* of the files.                                                           *)
LEMMA LockStep ==
  ASSUME StorageInv, UNCHANGED groupVars, LocksAgree',
         \A t \in Users : /\ user'[t].at \in {"idle", "mutex", "file", "in", "nested"} \/ user'[t] = user[t]
                          /\ user'[t].moved = <<>> \/ user'[t] = user[t]
                          /\ ~AmidMove(t) \/ user'[t] = user[t]
  PROVE  StorageInv'
<1>1. LogsKnown'
  BY DEF StorageInv, FilesAgree, LogsKnown, LogAlone, AmidMove, groupVars
<1>2. \A t \in Users : Moves(t)'
  BY SMTT(30) DEF StorageInv, FilesAgree, Moves, InOrderMoved, Order, LogsFollow, Follows, groupVars
<1> QED
  BY <1>1, <1>2 DEF StorageInv, FilesAgree, GroupWhole, NothingReplaced, groupVars

(* Waiting for the lock, taking it, nesting in it and leaving it.           *)
LEMMA LockActions ==
  ASSUME StorageInv, NEW t \in Users,
         \/ \E errand \in {"use", "rebuild"} : Want(t, errand)
         \/ TakeMutex(t) \/ TakeFileLock(t) \/ LockTimesOut(t) \/ NestIn(t)
         \/ NestOut(t) \/ LeaveLock(t) \/ LeaveRebuild(t)
  PROVE  StorageInv'
<1>0. /\ \A u \in Users : user[u] \in UserType /\ Holds(u)
      /\ user \in [Users -> UserType] /\ mutex \in [Processes -> Users \cup {NoUser}]
      /\ depth \in [Processes -> Nat] /\ locked \in Processes \cup {NoUser}
      /\ Mine(t) \in Processes /\ NoErrand \in UserType /\ NoErrand.at = "idle" /\ NoErrand.moved = <<>>
      /\ Fits(NoErrand) /\ NoUser \notin Processes /\ Moves(t)
  BY ProcessesAre DEF StorageInv, LocksAgree, FilesAgree, NoErrand, UserType, Fits
<1>1. ASSUME NEW r \in UserType, user' = [user EXCEPT ![t] = r]
      PROVE  user' \in [Users -> UserType] /\ \A u \in Users : user'[u] = IF u = t THEN r ELSE user[u]
  BY <1>0, <1>1
<1>2. ASSUME NEW errand \in {"use", "rebuild"}, Want(t, errand) PROVE StorageInv'
  <2> DEFINE r == [user[t] EXCEPT !.at = "mutex", !.errand = errand]
  <2>1. /\ r \in UserType /\ r.at = "mutex" /\ r.moved = user[t].moved /\ r.errand = errand /\ user' = [user EXCEPT ![t] = r]
        /\ user[t].at = "idle" /\ UNCHANGED <<groupVars, mutex, depth, locked>>
    BY <1>0, <1>2 DEF Want, Is, UserType, lockVars
  <2> HIDE DEF r
  <2>2. user' \in [Users -> UserType] /\ \A u \in Users : user'[u] = IF u = t THEN r ELSE user[u]
    BY <1>1, <2>1
  <2>3. LocksAgree'
    BY <1>0, <2>1, <2>2 DEF LocksAgree, Holds, Fits, WorkSteps
  <2> QED
    BY <1>0, <2>1, <2>2, <2>3, LockStep DEF Moves, AmidMove
<1>3. CASE TakeMutex(t)
  <2> DEFINE r == [user[t] EXCEPT !.at = "file"]
  <2>1. /\ r \in UserType /\ r.at = "file" /\ r.moved = user[t].moved /\ r.errand = user[t].errand
        /\ user' = [user EXCEPT ![t] = r]
        /\ user[t].at = "mutex" /\ UNCHANGED <<groupVars, depth, locked>>
        /\ mutex[Mine(t)] = NoUser /\ mutex' = [mutex EXCEPT ![Mine(t)] = t]
    BY <1>0, <1>3 DEF TakeMutex, Then, Is, UserType
  <2> HIDE DEF r
  <2>2. user' \in [Users -> UserType] /\ \A u \in Users : user'[u] = IF u = t THEN r ELSE user[u]
    BY <1>1, <2>1
  <2>3. LocksAgree'
    BY <1>0, <2>1, <2>2, ProcessesAre DEF LocksAgree, Holds, Fits, WorkSteps
  <2> QED
    BY <1>0, <2>1, <2>2, <2>3, LockStep DEF Moves, AmidMove
<1>4. CASE TakeFileLock(t)
  <2> DEFINE r == [user[t] EXCEPT !.at = "in"]
  <2>1. /\ r \in UserType /\ r.at = "in" /\ r.moved = user[t].moved /\ r.errand = user[t].errand
        /\ user' = [user EXCEPT ![t] = r]
        /\ user[t].at = "file" /\ UNCHANGED <<groupVars, mutex>> /\ locked = NoUser
        /\ locked' = Mine(t) /\ depth' = [depth EXCEPT ![Mine(t)] = 1]
    BY <1>0, <1>4 DEF TakeFileLock, Then, Is, UserType, WorkSteps
  <2> HIDE DEF r
  <2>2. user' \in [Users -> UserType] /\ \A u \in Users : user'[u] = IF u = t THEN r ELSE user[u]
    BY <1>1, <2>1
  <2>3. \A u \in Users : user[u].at \notin WorkSteps
    BY <1>0, <2>1, ProcessesAre DEF Holds
  <2>4. LocksAgree'
    BY <1>0, <2>1, <2>2, <2>3 DEF LocksAgree, Holds, Fits, WorkSteps, Nesting
  <2> QED
    BY <1>0, <2>1, <2>2, <2>4, LockStep DEF Moves, AmidMove
<1>5. CASE LockTimesOut(t)
  <2>1. /\ user' = [user EXCEPT ![t] = NoErrand] /\ user[t].at = "file"
        /\ UNCHANGED <<groupVars, depth, locked>> /\ mutex' = [mutex EXCEPT ![Mine(t)] = NoUser]
    BY <1>5 DEF LockTimesOut, Is
  <2>2. user' \in [Users -> UserType] /\ \A u \in Users : user'[u] = IF u = t THEN NoErrand ELSE user[u]
    BY <1>0, <1>1, <2>1
  <2>3. mutex[Mine(t)] = t
    BY <1>0, <2>1 DEF Holds
  <2>4. LocksAgree'
    BY <1>0, <2>1, <2>2, <2>3 DEF LocksAgree, Holds, WorkSteps
  <2> QED
    BY <1>0, <2>1, <2>2, <2>4, LockStep DEF AmidMove
<1>6. CASE NestIn(t)
  <2> DEFINE r == [user[t] EXCEPT !.at = "nested"]
  <2>1. /\ r \in UserType /\ r.at = "nested" /\ r.moved = user[t].moved /\ r.errand = "use"
        /\ user' = [user EXCEPT ![t] = r] /\ user[t].at = "in"
        /\ UNCHANGED <<groupVars, mutex, locked>> /\ depth' = [depth EXCEPT ![Mine(t)] = @ + 1]
    BY <1>0, <1>6 DEF NestIn, Then, Is, UserType, WorkSteps
  <2> HIDE DEF r
  <2>2. user' \in [Users -> UserType] /\ \A u \in Users : user'[u] = IF u = t THEN r ELSE user[u]
    BY <1>1, <2>1
  <2>3. \A u \in Users : user[u].at \in WorkSteps => u = t
    BY <2>1, WorksAlone DEF StorageInv, WorkSteps
  <2>4. depth[Mine(t)] = 1 /\ locked = Mine(t) /\ mutex[Mine(t)] = t
    BY <1>0, <2>1 DEF Holds, Nesting, WorkSteps
  <2>5. LocksAgree'
    BY <1>0, <2>1, <2>2, <2>3, <2>4 DEF LocksAgree, Holds, Fits, WorkSteps, Nesting
  <2> QED
    BY <1>0, <2>1, <2>2, <2>5, LockStep DEF Moves, AmidMove
<1>7. CASE NestOut(t)
  <2> DEFINE r == [user[t] EXCEPT !.at = "in"]
  <2>1. user[t].at = "nested"
    BY <1>7 DEF NestOut, ExitLock, Is
  <2>2. depth[Mine(t)] = 2 /\ locked = Mine(t) /\ mutex[Mine(t)] = t
    BY <1>0, <2>1 DEF Holds, Nesting, WorkSteps
  <2>a. /\ r \in UserType /\ r.at = "in" /\ r.moved = user[t].moved /\ r.errand = user[t].errand
        /\ r.staged = user[t].staged
    BY <1>0 DEF UserType, WorkSteps
  <2>b. user' = [user EXCEPT ![t] = r]
    BY <1>0, <1>7 DEF NestOut, ExitLock
  <2>3. /\ r \in UserType /\ r.at = "in" /\ r.moved = user[t].moved /\ r.errand = user[t].errand
        /\ user' = [user EXCEPT ![t] = r]
        /\ UNCHANGED <<groupVars, mutex, locked>> /\ depth' = [depth EXCEPT ![Mine(t)] = @ - 1]
    BY <1>7, <2>2, <2>a, <2>b DEF NestOut, ExitLock
  <2> HIDE DEF r
  <2>4. user' \in [Users -> UserType] /\ \A u \in Users : user'[u] = IF u = t THEN r ELSE user[u]
    BY <1>1, <2>3
  <2>5. \A u \in Users : user[u].at \in WorkSteps => u = t
    BY <2>1, WorksAlone DEF StorageInv, WorkSteps
  <2>6. depth' \in [Processes -> Nat] /\ depth'[Mine(t)] = 1
    BY <1>0, <2>2, <2>3
  <2>7. user[t].errand = "use" /\ Fits(r) /\ Nesting(r) = 1
    BY <1>0, <2>1, <2>3 DEF Holds, Fits, Nesting
  <2>8. Holds(t)'
    BY <2>2, <2>3, <2>4, <2>6, <2>7 DEF Holds
  <2>9. ASSUME NEW u \in Users, u # t PROVE Holds(u)'
    BY <1>0, <2>3, <2>4, <2>5, <2>9 DEF Holds
  <2>10. LocksAgree'
    BY <1>0, <2>3, <2>4, <2>6, <2>8, <2>9 DEF LocksAgree
  <2> QED
    BY <1>0, <2>1, <2>3, <2>4, <2>10, LockStep DEF Moves, AmidMove
<1>8. CASE LeaveLock(t) \/ LeaveRebuild(t)
  <2>1. user[t].at \in {"in", "leave"}
    BY <1>8 DEF LeaveLock, LeaveRebuild, ExitLock, Is
  <2>2. depth[Mine(t)] = 1 /\ locked = Mine(t) /\ mutex[Mine(t)] = t
    BY <1>0, <2>1 DEF Holds, Nesting, WorkSteps
  <2>3. /\ user' = [user EXCEPT ![t] = NoErrand] /\ UNCHANGED groupVars /\ locked' = NoUser
        /\ depth' = [depth EXCEPT ![Mine(t)] = @ - 1] /\ mutex' = [mutex EXCEPT ![Mine(t)] = NoUser]
    BY <1>8, <2>2 DEF LeaveLock, LeaveRebuild, ExitLock
  <2>4. user' \in [Users -> UserType] /\ \A u \in Users : user'[u] = IF u = t THEN NoErrand ELSE user[u]
    BY <1>0, <1>1, <2>3
  <2>5. \A u \in Users : user[u].at \in WorkSteps => u = t
    BY <2>1, WorksAlone DEF StorageInv, WorkSteps
  <2>6. depth' \in [Processes -> Nat]
    BY <1>0, <2>2, <2>3
  <2>7. LocksAgree'
    BY <1>0, <2>2, <2>3, <2>4, <2>5, <2>6 DEF LocksAgree, Holds, WorkSteps
  <2> QED
    BY <1>0, <2>3, <2>4, <2>1, <2>7, LockStep DEF AmidMove
<1> QED
  BY <1>2, <1>3, <1>4, <1>5, <1>6, <1>7, <1>8

(* A step of the thread that works that leaves the files and what it moved *)
(* alone.                                                                  *)
LEMMA QuietWork ==
  ASSUME StorageInv, NEW t \in Users, user[t].at \in WorkSteps, NEW step \in WorkSteps,
         Then(t, step), UNCHANGED <<group, backups, served, torn, lockVars>>, made' = made,
         Nesting([user[t] EXCEPT !.at = step]) = Nesting(user[t]), Fits([user[t] EXCEPT !.at = step]),
         step \in {"moving", "moved", "restoring"} =>
           InOrderMoved(user[t].moved) /\ LogsFollow(user[t].moved, torn),
         AmidMove(t) /\ user[t].moved # <<>> /\ LogAlone => step \in {"moving", "restoring"},
         step = "moved" => \A part \in PartNames : group[part] = 0,
         step \in {"in", "nested", "open", "prepared"} => user[t].moved = <<>>
  PROVE  StorageInv'
<1> DEFINE r == [user[t] EXCEPT !.at = step]
<1>1. user[t] \in UserType /\ user \in [Users -> UserType]
  BY DEF StorageInv, LocksAgree
<1>2. r \in UserType /\ r.at = step /\ r.moved = user[t].moved
  BY <1>1 DEF UserType
<1>3. user' = [user EXCEPT ![t] = r]
  BY <1>1 DEF Then
<1>4. Nesting(r) = Nesting(user[t]) /\ Fits(r)
  OBVIOUS
<1> HIDE DEF r
<1>5. user'[t] = r
  BY <1>1, <1>3
<1>6. Moves(t)'
  BY <1>2, <1>5 DEF Moves, InOrderMoved, Order, LogsFollow, Follows, WorkSteps
<1>7. /\ group' \in [PartNames -> Nat] /\ made' \in Nat /\ GroupWhole' /\ NothingReplaced'
  BY DEF StorageInv, FilesAgree, GroupWhole, NothingReplaced
<1>8. LogAlone' =>
        \/ group'["wal"] \in torn'
        \/ r.at \in {"moving", "restoring"} /\ Follows(r.moved, group'["wal"])
  BY <1>2, LogFollows DEF LogAlone, Follows
<1> QED
  BY <1>2, <1>3, <1>4, <1>6, <1>7, <1>8, WorkerStep

LEMMA NothingMoved == InOrderMoved(<<>>) /\ LogsFollow(<<>>, torn)
<1>1. Len(<<>>) = 0 /\ 2..0 = {} /\ 1..0 = {}
  OBVIOUS
<1> QED
  BY <1>1 DEF InOrderMoved, Order, LogsFollow

LEMMA QuietActions ==
  ASSUME StorageInv, NEW t \in Users,
         FindCorrupt(t) \/ PrepareFails(t) \/ CleanPrepared(t) \/ GroupMoved(t) \/ MoveFails(t) \/ Restored(t)
  PROVE  StorageInv'
<1>0. user[t] \in UserType /\ Holds(t) /\ Fits(user[t]) /\ Moves(t)
  BY DEF StorageInv, LocksAgree, FilesAgree, Holds
<1>1. ASSUME NEW step
      PROVE  /\ [user[t] EXCEPT !.at = step].at = step
             /\ [user[t] EXCEPT !.at = step].errand = user[t].errand
             /\ [user[t] EXCEPT !.at = step].staged = user[t].staged
  BY <1>0 DEF UserType
<1>2. CASE FindCorrupt(t)
  <2>1. user[t].at = "nested" /\ user[t].moved = <<>> /\ user[t].errand = "use"
    BY <1>0, <1>2 DEF FindCorrupt, Is, Fits, Moves
  <2> QED
    BY <1>1, <1>2, <2>1, NothingMoved, QuietWork DEF FindCorrupt, groupVars, AmidMove, Nesting, Fits, WorkSteps
<1>3. CASE PrepareFails(t)
  <2>1. user[t].at \in {"in", "prepared"} /\ user[t].errand = "rebuild"
    BY <1>3 DEF PrepareFails
  <2> QED
    BY <1>1, <1>3, <2>1, QuietWork DEF PrepareFails, groupVars, AmidMove, Nesting, Fits, WorkSteps
<1>4. CASE CleanPrepared(t)
  <2>1. user[t].at = "clean" /\ user[t].errand = "rebuild"
    BY <1>0, <1>4 DEF CleanPrepared, Is, Fits
  <2> QED
    BY <1>1, <1>4, <2>1, QuietWork DEF CleanPrepared, groupVars, AmidMove, Nesting, Fits, WorkSteps
<1>5. CASE GroupMoved(t)
  <2>1. /\ user[t].at = "moving" /\ Left = {}
        /\ InOrderMoved(user[t].moved) /\ LogsFollow(user[t].moved, torn)
    BY <1>0, <1>5 DEF GroupMoved, Is, Moves
  <2>2. \A part \in PartNames : group[part] = 0
    <3>1. DOMAIN Parts = {1, 2, 3} /\ Parts[1] = "main" /\ Parts[2] = "wal" /\ Parts[3] = "shm"
      BY DEF Parts
    <3> QED
      BY <2>1, <3>1 DEF Left, PartNames
  <2>3. ~LogAlone
    BY <2>2 DEF LogAlone, PartNames
  <2> QED
    BY <1>0, <1>1, <1>5, <2>1, <2>2, <2>3, QuietWork DEF GroupMoved, groupVars, AmidMove, Nesting, Fits, WorkSteps
<1>6. CASE MoveFails(t)
  <2>1. /\ user[t].at \in {"moving", "moved"}
        /\ InOrderMoved(user[t].moved) /\ LogsFollow(user[t].moved, torn)
    BY <1>0, <1>6 DEF MoveFails, Is, Moves
  <2> QED
    BY <1>0, <1>1, <1>6, <2>1, QuietWork DEF MoveFails, groupVars, AmidMove, Nesting, Fits, WorkSteps
<1>7. CASE Restored(t)
  <2>1. user[t].at = "restoring" /\ user[t].moved = <<>>
    BY <1>7 DEF Restored, Is
  <2>2. CASE user[t].errand = "use"
    <3>1. Then(t, "nested")
      BY <1>7, <2>2 DEF Restored
    <3> QED
      BY <1>1, <1>7, <2>1, <2>2, <3>1, QuietWork DEF Restored, groupVars, AmidMove, Nesting, Fits, WorkSteps
  <2>3. CASE user[t].errand = "rebuild"
    <3>1. Then(t, "clean")
      BY <1>7, <2>3 DEF Restored
    <3> QED
      BY <1>1, <1>7, <2>1, <2>3, <3>1, QuietWork DEF Restored, groupVars, AmidMove, Nesting, Fits, WorkSteps
  <2>4. user[t].errand \in {"use", "rebuild"}
    BY <1>0, <2>1 DEF Fits, UserType
  <2> QED
    BY <2>2, <2>3, <2>4
<1> QED
  BY <1>2, <1>3, <1>4, <1>5, <1>6, <1>7

(* A connection that makes a database, where there is none.                *)
LEMMA CreateKeeps ==
  ASSUME StorageInv, NEW t \in Users, user[t].at \in {"nested", "moved"}, user[t].errand = "use",
         group["main"] = 0, Create(t, "open")
  PROVE  StorageInv'
<1> DEFINE r == [user[t] EXCEPT !.at = "open", !.moved = <<>>]
<1>1. user[t] \in UserType /\ user \in [Users -> UserType] /\ made \in Nat /\ NothingReplaced
  BY DEF StorageInv, LocksAgree, FilesAgree
<1>2. r \in UserType /\ r.at = "open" /\ r.moved = <<>> /\ r.errand = "use"
  <2>1. <<>> \in Seq(PartNames \X Nat)
    OBVIOUS
  <2>2. r \in UserType
    BY <1>1, <2>1 DEF UserType, WorkSteps
  <2> QED
    BY <1>1, <2>2 DEF UserType
<1>3. user' = [user EXCEPT ![t] = r]
  BY <1>1 DEF Create
<1> HIDE DEF r
<1>4. /\ made' = made + 1 /\ group' = [part \in PartNames |-> made + 1] /\ served' = served \cup {made + 1}
      /\ backups' = backups /\ torn' = torn /\ UNCHANGED lockVars
  <2>1. ToSet(Parts) = PartNames
    <3>1. DOMAIN Parts = {1, 2, 3} /\ Parts[1] = "main" /\ Parts[2] = "wal" /\ Parts[3] = "shm"
      BY DEF Parts
    <3> QED
      BY <3>1 DEF ToSet, PartNames
  <2> QED
    BY <2>1 DEF Create
<1>5. made' \in Nat /\ made + 1 # 0
  BY <1>1, <1>4
<1>6. group' \in [PartNames -> Nat] /\ GroupWhole'
  BY <1>4, <1>5 DEF GroupWhole, PartNames
<1>7. NothingReplaced'
  BY <1>1, <1>4, <1>5 DEF NothingReplaced, PartNames
<1>8. Moves(t)'
  BY <1>1, <1>2, <1>3 DEF Moves
<1>9. Fits(r) /\ Nesting(r) = Nesting(user[t]) /\ r.at \in WorkSteps /\ user[t].at \in WorkSteps
  BY <1>2 DEF Fits, Nesting, WorkSteps
<1>10. ~LogAlone'
  BY <1>4, <1>5 DEF LogAlone, PartNames
<1> QED
  BY <1>2, <1>3, <1>4, <1>5, <1>6, <1>7, <1>8, <1>9, <1>10, WorkerStep

(* The connections, and the preparation of a rebuild and its end.          *)
LEMMA DatabaseActions ==
  ASSUME StorageInv, NEW t \in Users,
         \/ ConnectNew(t) \/ Connect(t) \/ Recreate(t) \/ Disconnect(t)
         \/ Prepare(t) \/ Quiesce(t) \/ SwapIn(t)
  PROVE  StorageInv'
<1>0. /\ user[t] \in UserType /\ user \in [Users -> UserType] /\ Fits(user[t]) /\ Moves(t)
      /\ group \in [PartNames -> Nat] /\ made \in Nat /\ GroupWhole /\ NothingReplaced
  BY DEF StorageInv, LocksAgree, FilesAgree, Holds
<1>1. ASSUME NEW step \in WorkSteps
      PROVE  /\ [user[t] EXCEPT !.at = step] \in UserType
             /\ [user[t] EXCEPT !.at = step].at = step
             /\ [user[t] EXCEPT !.at = step].errand = user[t].errand
             /\ [user[t] EXCEPT !.at = step].staged = user[t].staged
             /\ [user[t] EXCEPT !.at = step].moved = user[t].moved
             /\ Then(t, step) => user' = [user EXCEPT ![t] = [user[t] EXCEPT !.at = step]]
  BY <1>0 DEF UserType, Then
<1>2. CASE ConnectNew(t)
  BY <1>0, <1>2, CreateKeeps DEF ConnectNew, Is, Fits
<1>3. CASE Recreate(t)
  BY <1>0, <1>3, CreateKeeps DEF Recreate, Is, Moves, PartNames
<1>4. CASE Connect(t) \/ Disconnect(t)
  <2>1. PICK step \in {"nested", "open"} : Then(t, step) /\ UNCHANGED <<backups, made, served, torn, lockVars>>
    BY <1>4 DEF Connect, Disconnect
  <2>2. user[t].at \in {"nested", "open"} /\ user[t].errand = "use" /\ user[t].moved = <<>>
    BY <1>0, <1>4 DEF Connect, Disconnect, Is, Fits, Moves
  <2> DEFINE r == [user[t] EXCEPT !.at = step]
  <2>3. r \in UserType /\ r.at = step /\ r.moved = <<>> /\ r.errand = "use" /\ user' = [user EXCEPT ![t] = r]
    BY <1>1, <2>1, <2>2 DEF WorkSteps
  <2> HIDE DEF r
  <2>4. group' \in [PartNames -> Nat] /\ group'["main"] = group["main"] /\ GroupWhole'
    <3>1. CASE Connect(t)
      BY <1>0, <3>1 DEF Connect, GroupWhole, PartNames
    <3>2. CASE Disconnect(t)
      BY <1>0, <3>2 DEF Disconnect, GroupWhole, PartNames
    <3> QED
      BY <1>4, <3>1, <3>2
  <2>5. NothingReplaced' /\ made' \in Nat
    BY <1>0, <2>1, <2>4 DEF NothingReplaced
  <2>6. Moves(t)'
    BY <1>0, <2>3 DEF Moves
  <2>7. Fits(r) /\ Nesting(r) = Nesting(user[t]) /\ r.at \in WorkSteps /\ user[t].at \in WorkSteps
    BY <2>2, <2>3 DEF Fits, Nesting, WorkSteps
  <2>8. ~LogAlone'
    <3>1. CASE Connect(t)
      BY <2>4, <3>1 DEF Connect, LogAlone
    <3>2. CASE Disconnect(t)
      BY <1>0, <3>2 DEF Disconnect, LogAlone, PartNames
    <3> QED
      BY <1>4, <3>1, <3>2
  <2> QED
    BY <2>1, <2>3, <2>4, <2>5, <2>6, <2>7, <2>8, WorkerStep
<1>5. CASE Prepare(t)
  <2>1. /\ user[t].at = "in" /\ user[t].errand = "rebuild" /\ made' = made + 1
        /\ user' = [user EXCEPT ![t].at = "prepared", ![t].staged = made + 1]
        /\ UNCHANGED <<group, backups, served, torn, lockVars>>
    BY <1>5 DEF Prepare, Is
  <2> DEFINE r == [user[t] EXCEPT !.at = "prepared", !.staged = made + 1]
  <2>2. made' \in Nat /\ made + 1 # 0
    BY <1>0, <2>1
  <2>3. r \in UserType /\ r.at = "prepared" /\ r.moved = user[t].moved /\ r.errand = "rebuild" /\ r.staged = made + 1
    <3>1. made + 1 \in Nat
      BY <1>0
    <3>2. r \in UserType
      BY <1>0, <3>1 DEF UserType, WorkSteps
    <3> QED
      BY <1>0, <2>1, <3>2 DEF UserType
  <2>4. user' = [user EXCEPT ![t] = r]
    BY <1>0, <2>1
  <2> HIDE DEF r
  <2>5. Moves(t)'
    BY <1>0, <2>1, <2>3, <2>4 DEF Moves
  <2>6. Fits(r) /\ Nesting(r) = Nesting(user[t]) /\ r.at \in WorkSteps /\ user[t].at \in WorkSteps
    BY <2>1, <2>2, <2>3 DEF Fits, Nesting, WorkSteps
  <2>7. GroupWhole' /\ NothingReplaced' /\ group' \in [PartNames -> Nat]
    BY <1>0, <2>1 DEF GroupWhole, NothingReplaced
  <2>8. LogAlone' => group'["wal"] \in torn'
    BY <2>1, <2>6, LogFollows DEF LogAlone, AmidMove
  <2> QED
    BY <2>1, <2>2, <2>3, <2>4, <2>5, <2>6, <2>7, <2>8, WorkerStep
<1>6. CASE Quiesce(t)
  <2>1. /\ user[t].at = "prepared" /\ user[t].errand = "rebuild" /\ user[t].moved = <<>> /\ user[t].staged # 0
        /\ Then(t, "moving") /\ UNCHANGED <<backups, made, served, torn, lockVars>>
    BY <1>0, <1>6 DEF Quiesce, Is, Fits, Moves
  <2> DEFINE r == [user[t] EXCEPT !.at = "moving"]
  <2>2. /\ r \in UserType /\ r.at = "moving" /\ r.moved = <<>> /\ r.errand = "rebuild" /\ r.staged # 0
        /\ user' = [user EXCEPT ![t] = r]
    BY <1>1, <2>1 DEF WorkSteps
  <2> HIDE DEF r
  <2>3. group' \in [PartNames -> Nat] /\ group'["main"] = group["main"] /\ GroupWhole'
    BY <1>0, <1>6 DEF Quiesce, GroupWhole, PartNames
  <2>4. NothingReplaced' /\ made' \in Nat
    BY <1>0, <2>1, <2>3 DEF NothingReplaced
  <2>5. InOrderMoved(<<>>)' /\ LogsFollow(<<>>, torn)'
    <3>1. Len(<<>>) = 0 /\ 1..0 = {}
      OBVIOUS
    <3> QED
      BY <3>1 DEF InOrderMoved, Order, LogsFollow
  <2>6. Moves(t)'
    BY <1>0, <2>2, <2>5 DEF Moves
  <2>7. Fits(r) /\ Nesting(r) = Nesting(user[t]) /\ r.at \in WorkSteps /\ user[t].at \in WorkSteps
    BY <2>1, <2>2 DEF Fits, Nesting, WorkSteps
  <2>8. LogAlone' => LogAlone /\ group'["wal"] = group["wal"]
    BY <1>0, <1>6, <2>3 DEF Quiesce, LogAlone, PartNames
  <2>9. LogAlone' => group'["wal"] \in torn'
    BY <2>1, <2>7, <2>8, LogFollows DEF AmidMove
  <2> QED
    BY <2>1, <2>2, <2>3, <2>4, <2>6, <2>7, <2>9, WorkerStep
<1>7. CASE SwapIn(t)
  <2>1. /\ user[t].at = "moved" /\ user[t].errand = "rebuild" /\ user[t].staged # 0
        /\ \A part \in PartNames : group[part] = 0
        /\ group' = [group EXCEPT !["main"] = user[t].staged] /\ served' = served \cup {user[t].staged}
        /\ Then(t, "clean") /\ UNCHANGED <<backups, made, torn, lockVars>>
    BY <1>0, <1>7 DEF SwapIn, Is, Fits, Moves
  <2> DEFINE r == [user[t] EXCEPT !.at = "clean"]
  <2>2. r \in UserType /\ r.at = "clean" /\ r.errand = "rebuild" /\ user' = [user EXCEPT ![t] = r]
    BY <1>1, <2>1 DEF WorkSteps
  <2> HIDE DEF r
  <2>3. user[t].staged \in Nat
    BY <1>0 DEF UserType
  <2>4. group' \in [PartNames -> Nat] /\ GroupWhole'
    BY <1>0, <2>1, <2>3 DEF GroupWhole, PartNames
  <2>5. NothingReplaced'
    BY <1>0, <2>1 DEF NothingReplaced, PartNames
  <2>6. Moves(t)'
    BY <1>0, <2>2 DEF Moves
  <2>7. Fits(r) /\ Nesting(r) = Nesting(user[t]) /\ r.at \in WorkSteps /\ user[t].at \in WorkSteps
    BY <2>1, <2>2 DEF Fits, Nesting, WorkSteps
  <2>8. ~LogAlone'
    BY <1>0, <2>1 DEF LogAlone, PartNames
  <2> QED
    BY <1>0, <2>1, <2>2, <2>4, <2>5, <2>6, <2>7, <2>8, WorkerStep
<1> QED
  BY <1>2, <1>3, <1>4, <1>5, <1>6, <1>7

(* The next file of the group is moved.                                    *)
LEMMA MoveKeeps == ASSUME StorageInv, NEW t \in Users, MoveFile(t) PROVE StorageInv'
<1> DEFINE m == user[t].moved
<1>0. /\ user[t] \in UserType /\ user \in [Users -> UserType] /\ Fits(user[t]) /\ Moves(t)
      /\ group \in [PartNames -> Nat] /\ made \in Nat /\ GroupWhole /\ NothingReplaced
  BY DEF StorageInv, LocksAgree, FilesAgree, Holds
<1>1. /\ user[t].at = "moving" /\ InOrderMoved(m) /\ m \in Seq(PartNames \X Nat)
      /\ LogsFollow(m, torn) /\ UNCHANGED <<made, served, torn, lockVars>>
  BY <1>0 DEF MoveFile, Is, Moves, UserType
<1>2. DOMAIN Parts = {1, 2, 3} /\ Parts[1] = "main" /\ Parts[2] = "wal" /\ Parts[3] = "shm"
  BY DEF Parts
<1>3. PICK i \in Left :
        /\ \A j \in Left : i <= j
        /\ group' = [group EXCEPT ![Parts[i]] = 0]
        /\ backups' = backups \cup {<<Parts[i], group[Parts[i]]>>}
        /\ user' = [user EXCEPT ![t].moved = Append(@, <<Parts[i], group[Parts[i]]>>)]
  BY DEF MoveFile
<1> DEFINE part == Parts[i]
           v == group[part]
           f == <<part, v>>
           q == Append(m, f)
           r == [user[t] EXCEPT !.moved = q]
<1>4. part \in PartNames /\ v # 0 /\ v \in Nat
  BY <1>0, <1>2 DEF Left, PartNames
<1>5. part # "main" => group["main"] = 0
  <2> SUFFICES ASSUME part # "main", group["main"] # 0 PROVE FALSE
    OBVIOUS
  <2>1. 1 \in Left
    BY <1>2 DEF Left
  <2>2. i \in {2, 3}
    BY <1>2 DEF Left
  <2> QED
    BY <1>3, <2>1, <2>2
<1>6. f \in PartNames \X Nat /\ f[1] = part /\ f[2] = v
  BY <1>4
<1>7. user' = [user EXCEPT ![t] = r] /\ group' = [group EXCEPT ![part] = 0] /\ backups' = backups \cup {f}
  BY <1>0, <1>3
<1> HIDE DEF part, v, f, m
<1>8. /\ q \in Seq(PartNames \X Nat) /\ Len(q) = Len(m) + 1 /\ q # <<>> /\ q[Len(m) + 1] = f
      /\ \A j \in 1..Len(m) : q[j] = m[j]
  <2> DEFINE S == PartNames \X Nat
  <2> SUFFICES /\ q \in Seq(S) /\ Len(q) = Len(m) + 1 /\ q # <<>> /\ q[Len(m) + 1] = f
               /\ \A j \in 1..Len(m) : q[j] = m[j]
    OBVIOUS
  <2>1. m \in Seq(S) /\ f \in S
    BY <1>1, <1>6
  <2> HIDE DEF S
  <2>2. q \in Seq(S) /\ Len(q) = Len(m) + 1
    BY <2>1
  <2>3. q[Len(m) + 1] = f /\ \A j \in 1..Len(m) : q[j] = m[j]
    BY <2>1
  <2>4. q # <<>>
    BY <2>1, <2>2
  <2> QED
    BY <2>2, <2>3, <2>4
<1> HIDE DEF q
<1>9. r \in UserType /\ r.at = "moving" /\ r.moved = q /\ r.errand = user[t].errand /\ r.staged = user[t].staged
  BY <1>0, <1>1, <1>8 DEF UserType
<1> HIDE DEF r
<1>v. v = group[part]
  BY DEF v
<1>10. /\ group' \in [PartNames -> Nat] /\ group'["main"] = 0
       /\ group'["wal"] \in {0, group["wal"]} /\ group'["shm"] \in {0, group["shm"]}
  BY <1>0, <1>4, <1>5, <1>7 DEF PartNames
<1>11. Order(group', q)
  <2>0. Len(m) \in Nat
    BY <1>1
  <2>1. CASE m = <<>>
    <3>1. Len(m) = 0 /\ Len(q) = 1 /\ q[1] = f
      BY <1>8, <2>1
    <3>2. part = "main" => {group["wal"], group["shm"]} \subseteq {0, v}
      BY <1>0, <1>4, <1>v DEF GroupWhole
    <3>3. 2..Len(q) = {}
      BY <3>1
    <3>4. q[1][1] = part /\ q[1][2] = v
      BY <1>6, <3>1
    <3> QED
      BY <1>10, <3>2, <3>3, <3>4 DEF Order
  <2>2. CASE m # <<>>
    <3>1. Len(m) >= 1 /\ q[1] = m[1] /\ group["main"] = 0
      BY <1>1, <1>8, <2>2 DEF InOrderMoved, Order
    <3>2. part # "main"
      BY <1>4, <1>v, <3>1
    <3>3. q[1][1] = "main" => {group["wal"], group["shm"]} \subseteq {0, q[1][2]} /\ v = q[1][2]
      BY <1>1, <1>4, <1>v, <2>2, <3>1, <3>2 DEF InOrderMoved, Order, PartNames
    <3>4. ASSUME NEW j \in 2..Len(q)
          PROVE  q[j][1] # "main" /\ (q[1][1] = "main" => q[j][2] = q[1][2])
      <4>1. CASE j = Len(m) + 1
        BY <1>6, <1>8, <3>2, <3>3, <4>1
      <4>2. CASE j # Len(m) + 1
        <5>1. j \in 2..Len(m) /\ q[j] = m[j]
          BY <1>8, <2>0, <4>2
        <5> QED
          BY <1>1, <2>2, <3>1, <5>1 DEF InOrderMoved, Order
      <4> QED
        BY <4>1, <4>2
    <3>5. q[1][1] = "main" => {group'["wal"], group'["shm"]} \subseteq {0, q[1][2]}
      BY <1>10, <3>3
    <3> QED
      BY <1>10, <3>4, <3>5 DEF InOrderMoved, Order
  <2> QED
    BY <2>1, <2>2
<1>w. LogAlone => group["wal"] \in torn \/ Follows(m, group["wal"])
  BY <1>1, LogFollows DEF WorkSteps, m
<1>u. ASSUME NEW db, Follows(m, db) PROVE Follows(q, db)
  <2>1. Len(m) \in Nat /\ Len(m) # 0
    BY <1>1, <1>u DEF Follows
  <2> QED
    BY <1>8, <1>u, <2>1 DEF Follows
<1>12. Moves(t)'
  <2>1. ASSUME NEW j \in 1..Len(q), q[j][1] = "wal" PROVE q[j][2] \in torn \/ Follows(q, q[j][2])
    <3>1. CASE j = Len(m) + 1
      <4>1. part = "wal" /\ q[j][2] = v /\ LogAlone /\ group["wal"] = v
        BY <1>4, <1>5, <1>6, <1>8, <1>v, <2>1, <3>1 DEF LogAlone
      <4> QED
        BY <1>w, <1>u, <4>1
    <3>2. CASE j # Len(m) + 1
      <4>1. j \in 1..Len(m) /\ q[j] = m[j]
        BY <1>1, <1>8, <2>1, <3>2
      <4> QED
        BY <1>1, <1>u, <2>1, <4>1 DEF LogsFollow
    <3> QED
      BY <3>1, <3>2
  <2> QED
    BY <1>0, <1>1, <1>7, <1>9, <1>11, <2>1 DEF Moves, InOrderMoved, LogsFollow, Follows
<1>x. LogAlone' => group'["wal"] \in torn' \/ Follows(q, group'["wal"])
  <2> SUFFICES ASSUME LogAlone' PROVE group'["wal"] \in torn' \/ Follows(q, group'["wal"])
    OBVIOUS
  <2>1. group'["wal"] = group["wal"] /\ group["wal"] # 0
    BY <1>10 DEF LogAlone
  <2>2. CASE group["main"] = 0
    BY <1>1, <1>w, <1>u, <2>1, <2>2 DEF LogAlone
  <2>3. CASE group["main"] # 0
    <3>1. part = "main" /\ v = group["main"] /\ group["wal"] = v
      BY <1>0, <1>5, <1>v, <2>1, <2>3 DEF GroupWhole
    <3>2. m = <<>>
      BY <1>1, <2>3 DEF InOrderMoved, Order
    <3>3. q # <<>> /\ q[1] = <<"main", v>>
      BY <1>6, <1>8, <3>1, <3>2 DEF f
    <3> QED
      BY <2>1, <3>1, <3>3 DEF Follows
  <2> QED
    BY <2>2, <2>3
<1>13. GroupWhole' /\ made' \in Nat
  BY <1>0, <1>1, <1>10 DEF GroupWhole
<1>14. NothingReplaced'
  <2>1. f = <<part, v>>
    BY DEF f
  <2>2. CASE part = "main"
    BY <1>0, <1>1, <1>7, <1>v, <2>1, <2>2 DEF NothingReplaced
  <2>3. CASE part # "main"
    BY <1>0, <1>1, <1>5, <1>7, <1>10, <2>3 DEF NothingReplaced
  <2> QED
    BY <2>2, <2>3
<1>15. Fits(r) /\ Nesting(r) = Nesting(user[t]) /\ r.at \in WorkSteps /\ user[t].at \in WorkSteps
  BY <1>0, <1>1, <1>9 DEF Fits, Nesting, WorkSteps
<1> QED
  BY <1>1, <1>7, <1>9, <1>10, <1>12, <1>13, <1>14, <1>15, <1>x, WorkerStep

(* The last file that was moved is put back, or left among the backups.    *)
LEMMA RestoreKeeps == ASSUME StorageInv, NEW t \in Users, RestoreFile(t) PROVE StorageInv'
<1> DEFINE m == user[t].moved
           f == Last(m)
           q == Front(m)
           r == [user[t] EXCEPT !.moved = q]
<1>0. /\ user[t] \in UserType /\ user \in [Users -> UserType] /\ Fits(user[t]) /\ Moves(t)
      /\ group \in [PartNames -> Nat] /\ made \in Nat /\ GroupWhole /\ NothingReplaced
  BY DEF StorageInv, LocksAgree, FilesAgree, Holds
<1>1. /\ user[t].at = "restoring" /\ m # <<>> /\ InOrderMoved(m) /\ m \in Seq(PartNames \X Nat)
      /\ UNCHANGED <<made, served, lockVars>> /\ user' = [user EXCEPT ![t] = r]
      /\ LogsFollow(m, torn)
      /\ \/ PutFileBack(f) /\ torn' = torn
         \/ torn' = torn \cup {f[2]} /\ UNCHANGED <<group, backups>>
  BY <1>0 DEF RestoreFile, Is, Moves, UserType
<1> HIDE DEF m
<1>2. /\ Len(m) \in Nat /\ Len(m) >= 1 /\ f = m[Len(m)] /\ f \in PartNames \X Nat
      /\ q \in Seq(PartNames \X Nat) /\ Len(q) = Len(m) - 1 /\ \A j \in 1..Len(q) : q[j] = m[j]
  <2> DEFINE S == PartNames \X Nat
  <2>1. m \in Seq(S) /\ m # <<>>
    BY <1>1
  <2> SUFFICES /\ Len(m) \in Nat /\ Len(m) >= 1 /\ f = m[Len(m)] /\ f \in S
               /\ q \in Seq(S) /\ Len(q) = Len(m) - 1 /\ \A j \in 1..Len(q) : q[j] = m[j]
    OBVIOUS
  <2> HIDE DEF S
  <2>2. Len(m) \in Nat /\ Len(m) >= 1
    BY <2>1
  <2>3. f = m[Len(m)] /\ q = SubSeq(m, 1, Len(m) - 1)
    BY DEF Last, Front
  <2> HIDE DEF f, q
  <2>4. f \in S
    BY <2>1, <2>2, <2>3
  <2>5. q \in Seq(S) /\ Len(q) = Len(m) - 1 /\ \A j \in 1..Len(q) : q[j] = m[j]
    <3> DEFINE n == Len(m) - 1
    <3>1. n \in Int /\ 1 \in Int /\ n >= 0 /\ \A j \in 1..n : m[j] \in S
      BY <2>1, <2>2
    <3>2. q = SubSeq(m, 1, n)
      BY <2>3
    <3> HIDE DEF n
    <3>3. /\ q \in Seq(S) /\ Len(q) = IF 1 <= n THEN n - 1 + 1 ELSE 0
          /\ \A j \in 1..(n - 1 + 1) : q[j] = m[1 + j - 1]
      BY <3>1, <3>2, SubSeqProperties
    <3>4. Len(q) = n
      BY <3>1, <3>3
    <3>5. \A j \in 1..n : j \in 1..(n - 1 + 1) /\ 1 + j - 1 = j
      BY <3>1
    <3>6. \A j \in 1..Len(q) : q[j] = m[j]
      BY <3>3, <3>4, <3>5
    <3> QED
      BY <3>3, <3>4, <3>6 DEF n
  <2> QED
    BY <2>2, <2>3, <2>4, <2>5
<1> HIDE DEF f, q
<1>3. r \in UserType /\ r.at = "restoring" /\ r.moved = q /\ r.errand = user[t].errand /\ r.staged = user[t].staged
  BY <1>0, <1>1, <1>2 DEF UserType
<1> HIDE DEF r
<1>4. group["main"] = 0
  BY <1>1 DEF InOrderMoved, Order
<1>5. f[1] \in PartNames /\ f[2] \in Nat /\ f = <<f[1], f[2]>>
  BY <1>2
<1>6. /\ group' \in [PartNames -> Nat]
      /\ \/ group' = group /\ backups' = backups
         \/ group' = [group EXCEPT ![f[1]] = f[2]] /\ backups' = backups \ {f}
  <2>1. \/ group' = group /\ backups' = backups
        \/ group' = [group EXCEPT ![f[1]] = f[2]] /\ backups' = backups \ {f}
    BY <1>1 DEF PutFileBack
  <2>2. group' \in [PartNames -> Nat]
    BY <1>0, <1>5, <2>1
  <2> QED
    BY <2>1, <2>2
<1>7. Order(group', q) /\ GroupWhole'
  <2>1. CASE Len(m) = 1
    <3>1. q = <<>> /\ 2..Len(q) = {} /\ f = m[1]
      BY <1>2, <2>1
    <3>2. Order(group', q)
      BY <3>1 DEF InOrderMoved, Order
    <3>3. GroupWhole'
      <4>1. CASE f[1] = "main"
        BY <1>0, <1>1, <1>4, <1>6, <3>1, <4>1 DEF InOrderMoved, Order, GroupWhole, PartNames
      <4>2. CASE f[1] # "main"
        BY <1>0, <1>4, <1>6, <4>2 DEF GroupWhole, PartNames
      <4> QED
        BY <4>1, <4>2
    <3> QED
      BY <3>2, <3>3
  <2>2. CASE Len(m) # 1
    <3>1. Len(m) \in 2..Len(m) /\ q[1] = m[1] /\ q # <<>> /\ 2..Len(q) \subseteq 2..Len(m)
      BY <1>2, <2>2
    <3>2. f[1] # "main" /\ (m[1][1] = "main" => f[2] = m[1][2])
      BY <1>1, <1>2, <3>1 DEF InOrderMoved, Order
    <3>3. group'["main"] = 0
      BY <1>0, <1>4, <1>6, <3>2 DEF PartNames
    <3>4. q[1][1] = "main" => {group'["wal"], group'["shm"]} \subseteq {0, q[1][2]}
      BY <1>0, <1>1, <1>5, <1>6, <3>1, <3>2 DEF InOrderMoved, Order, PartNames
    <3>5. ASSUME NEW j \in 2..Len(q)
          PROVE  q[j][1] # "main" /\ (q[1][1] = "main" => q[j][2] = q[1][2])
      <4>1. Len(q) \in Int /\ \A k \in 1..Len(q) : q[k] = m[k]
        <5>1. \A k \in 1..Len(q) : q[k] = m[k]
          BY <1>2, Zenon
        <5>2. Len(q) \in Int
          BY <1>2
        <5> QED
          BY <5>1, <5>2
      <4>2. j \in 1..Len(q) /\ j \in 2..Len(m)
        BY <3>1, <4>1
      <4>3. q[j] = m[j]
        BY <4>1, <4>2
      <4> QED
        BY <1>1, <3>1, <4>2, <4>3 DEF InOrderMoved, Order
    <3> QED
      BY <3>3, <3>4, <3>5 DEF InOrderMoved, Order, GroupWhole
  <2> QED
    BY <2>1, <2>2
<1>t. torn \subseteq torn'
  BY <1>1
<1>w. LogAlone => group["wal"] \in torn \/ Follows(m, group["wal"])
  BY <1>1, LogFollows DEF WorkSteps, m
<1>u. ASSUME NEW db, Follows(m, db), Len(m) # 1 PROVE Follows(q, db)
  <2>1. Len(q) \in Nat /\ 1 \in 1..Len(q)
    BY <1>2, <1>u
  <2> QED
    BY <1>2, <1>u, <2>1 DEF Follows
<1>8. Moves(t)'
  <2>1. ASSUME NEW j \in 1..Len(q), q[j][1] = "wal" PROVE q[j][2] \in torn' \/ Follows(q, q[j][2])
    <3>1. j \in 1..Len(m) /\ q[j] = m[j] /\ Len(m) # 1
      <4> DEFINE n == Len(m)
                 k == Len(q)
      <4>1. n \in Nat /\ k = n - 1 /\ j \in 1..k
        BY <1>2, <2>1
      <4>2. q[j] = m[j]
        BY <1>2, <2>1
      <4> HIDE DEF n, k
      <4>3. j \in 1..n /\ n # 1
        BY <4>1
      <4> QED
        BY <4>2, <4>3 DEF n
    <3> QED
      BY <1>1, <1>t, <1>u, <2>1, <3>1 DEF LogsFollow
  <2> QED
    BY <1>0, <1>1, <1>3, <1>7, <2>1 DEF Moves, InOrderMoved, LogsFollow, Follows
<1>x. LogAlone' => group'["wal"] \in torn' \/ Follows(q, group'["wal"])
  <2> SUFFICES ASSUME LogAlone' PROVE group'["wal"] \in torn' \/ Follows(q, group'["wal"])
    OBVIOUS
  <2>1. CASE group'["wal"] = group["wal"] /\ Len(m) # 1
    BY <1>4, <1>t, <1>u, <1>w, <2>1 DEF LogAlone
  <2>2. CASE group'["wal"] = group["wal"] /\ Len(m) = 1
    <3>1. f = m[1]
      BY <1>2, <2>2
    <3>2. CASE group["wal"] \in torn
      BY <1>t, <2>2, <3>2
    <3>3. CASE Follows(m, group["wal"])
      <4>1. f = <<"main", group["wal"]>> /\ group["wal"] # 0
        BY <2>2, <3>1, <3>3 DEF Follows, LogAlone
      <4>2. ~PutFileBack(f)
        BY <1>0, <4>1 DEF PutFileBack, LogAlone, PartNames
      <4> QED
        BY <1>1, <2>2, <4>1, <4>2
    <3> QED
      BY <1>4, <1>w, <2>2, <3>2, <3>3 DEF LogAlone
  <2>3. CASE group'["wal"] # group["wal"]
    <3>1. f[1] = "wal" /\ group'["wal"] = f[2]
      BY <1>0, <1>5, <1>6, <2>3 DEF PartNames
    <3>2. f[2] \in torn \/ Follows(m, f[2])
      <4>1. Len(m) \in 1..Len(m)
        BY <1>2
      <4> QED
        BY <1>1, <1>2, <3>1, <4>1 DEF LogsFollow
    <3>3. Follows(m, f[2]) => Len(m) # 1
      BY <1>2, <3>1, SMTT(30) DEF Follows
    <3> QED
      BY <1>t, <1>u, <3>1, <3>2, <3>3
  <2> QED
    BY <2>1, <2>2, <2>3
<1>9. NothingReplaced'
  <2>1. CASE group' = group /\ backups' = backups
    BY <1>0, <1>1, <2>1 DEF NothingReplaced
  <2>2. CASE group' = [group EXCEPT ![f[1]] = f[2]] /\ backups' = backups \ {f}
    <3>1. CASE f[1] = "main"
      BY <1>0, <1>1, <1>4, <1>5, <2>2, <3>1 DEF NothingReplaced, PartNames
    <3>2. CASE f[1] # "main"
      BY <1>0, <1>1, <1>4, <1>5, <2>2, <3>2 DEF NothingReplaced, PartNames
    <3> QED
      BY <3>1, <3>2
  <2> QED
    BY <1>6, <2>1, <2>2
<1>10. Fits(r) /\ Nesting(r) = Nesting(user[t]) /\ r.at \in WorkSteps /\ user[t].at \in WorkSteps /\ made' \in Nat
  BY <1>0, <1>1, <1>3 DEF Fits, Nesting, WorkSteps
<1> QED
  BY <1>1, <1>3, <1>6, <1>7, <1>8, <1>9, <1>10, <1>t, <1>x, WorkerStep

LEMMA ProcessEndKeeps == ASSUME StorageInv, NEW p \in Processes, ProcessEnds(p) PROVE StorageInv'
<1>0. /\ user \in [Users -> UserType] /\ mutex \in [Processes -> Users \cup {NoUser}]
      /\ depth \in [Processes -> Nat] /\ locked \in Processes \cup {NoUser}
      /\ NoErrand \in UserType /\ NoErrand.at = "idle" /\ NoErrand.moved = <<>> /\ Fits(NoErrand)
      /\ \A t \in Users : Holds(t)
  BY DEF StorageInv, LocksAgree, NoErrand, UserType, Fits
<1>1. /\ UNCHANGED <<group, backups, made, served>>
      /\ user' = [t \in Users |-> IF Mine(t) = p THEN NoErrand ELSE user[t]]
      /\ torn' = torn \cup UNION {HalfMoved(t) : t \in {u \in Users : Mine(u) = p /\ AmidMove(u)}}
      /\ mutex' = [mutex EXCEPT ![p] = NoUser] /\ depth' = [depth EXCEPT ![p] = 0]
      /\ locked' = IF locked = p THEN NoUser ELSE locked
  BY DEF ProcessEnds
<1>2. user' \in [Users -> UserType] /\ \A t \in Users : user'[t] = IF Mine(t) = p THEN NoErrand ELSE user[t]
  BY <1>0, <1>1
<1>3. ASSUME NEW t \in Users PROVE Holds(t)'
  <2>1. CASE Mine(t) = p
    BY <1>0, <1>2, <2>1 DEF Holds, WorkSteps
  <2>2. CASE Mine(t) # p
    BY <1>0, <1>1, <1>2, <2>2, ProcessesAre DEF Holds, WorkSteps
  <2> QED
    BY <2>1, <2>2
<1>4. LocksAgree'
  BY <1>0, <1>1, <1>2, <1>3 DEF LocksAgree
<1>5. torn \subseteq torn' /\ \A t \in Users : Moves(t)
  BY <1>1 DEF StorageInv, FilesAgree
<1>6. \A t \in Users : Moves(t)'
  BY <1>0, <1>1, <1>2, <1>5 DEF Moves, InOrderMoved, Order, LogsFollow, Follows
<1>7. ASSUME NEW t \in Users, AmidMove(t), Mine(t) = p, NEW db, Follows(user[t].moved, db)
      PROVE  db \in torn'
  <2>1. user[t].moved \in Seq(PartNames \X Nat)
    BY <1>0 DEF UserType
  <2>2. 1 \in DOMAIN user[t].moved /\ user[t].moved[1] = <<"main", db>>
    BY <1>7, <2>1 DEF Follows
  <2>3. <<"main", db>> \in ToSet(user[t].moved)
    BY <2>2 DEF ToSet
  <2>4. db \in HalfMoved(t)
    BY <2>3 DEF HalfMoved
  <2> QED
    BY <1>1, <1>7, <2>4
<1>8. LogsKnown'
  <2> SUFFICES ASSUME LogAlone'
               PROVE  \/ group'["wal"] \in torn'
                      \/ \E t \in Users : AmidMove(t)' /\ Follows(user'[t].moved, group'["wal"])
    BY DEF LogsKnown
  <2>1. LogAlone /\ group' = group
    BY <1>1 DEF LogAlone
  <2>2. CASE group["wal"] \in torn
    BY <1>5, <2>1, <2>2
  <2>3. ASSUME NEW t \in Users, AmidMove(t), Follows(user[t].moved, group["wal"]), Mine(t) = p
        PROVE  group'["wal"] \in torn'
    BY <1>7, <2>1, <2>3
  <2>4. ASSUME NEW t \in Users, AmidMove(t), Follows(user[t].moved, group["wal"]), Mine(t) # p
        PROVE  AmidMove(t)' /\ Follows(user'[t].moved, group'["wal"])
    BY <1>2, <2>1, <2>4 DEF AmidMove
  <2> QED
    BY <2>1, <2>2, <2>3, <2>4 DEF StorageInv, FilesAgree, LogsKnown
<1> QED
  BY <1>1, <1>4, <1>6, <1>8 DEF StorageInv, FilesAgree, GroupWhole, NothingReplaced

LEMMA StorageStep == StorageInv /\ [StorageNext]_storageVars => StorageInv'
<1> SUFFICES ASSUME StorageInv, [StorageNext]_storageVars PROVE StorageInv'
  OBVIOUS
<1>1. CASE Decay
  BY <1>1 DEF Decay, StorageInv, LocksAgree, Holds, FilesAgree, Moves, InOrderMoved, Order, GroupWhole,
              NothingReplaced, LogsKnown, LogAlone, AmidMove, LogsFollow, Follows, lockVars, Nesting
<1>2. CASE UNCHANGED storageVars
  BY <1>2 DEF storageVars, StorageInv, LocksAgree, Holds, FilesAgree, Moves, InOrderMoved, Order, GroupWhole,
              NothingReplaced, LogsKnown, LogAlone, AmidMove, LogsFollow, Follows, lockVars, groupVars, Nesting
<1>3. ASSUME NEW t \in Users, UserStep(t) PROVE StorageInv'
  BY <1>3, LockActions, QuietActions, DatabaseActions, MoveKeeps, RestoreKeeps DEF UserStep
<1> QED
  BY <1>1, <1>2, <1>3, ProcessEndKeeps DEF StorageNext

(* catalog_storage.py, agent_admin.py: whatever process ends between any   *)
(* two steps, one thread works on the catalog at a time, no log is beside  *)
(* another database's file, no database file is lost, and a log is left    *)
(* without its database only while it is moved or after a move cut short.  *)
THEOREM CatalogStaysWhole == StorageSpec => []StorageIsWhole
<1>1. StorageInit => StorageInv
  <2> SUFFICES ASSUME StorageInit PROVE StorageInv
    OBVIOUS
  <2>1. ToSet(Parts) = PartNames
    <3>1. DOMAIN Parts = {1, 2, 3} /\ Parts[1] = "main" /\ Parts[2] = "wal" /\ Parts[3] = "shm"
      BY DEF Parts
    <3> QED
      BY <3>1 DEF ToSet, PartNames
  <2>2. NoErrand \in UserType /\ NoErrand.at = "idle" /\ NoErrand.moved = <<>>
    BY DEF NoErrand, UserType
  <2>3. LocksAgree
    BY <2>2 DEF StorageInit, LocksAgree, Holds, Fits, WorkSteps
  <2>4. FilesAgree
    BY <2>1, <2>2 DEF StorageInit, FilesAgree, GroupWhole, NothingReplaced, LogsKnown, LogAlone, Moves, PartNames
  <2> QED
    BY <2>3, <2>4 DEF StorageInv
<1>2. StorageInv => StorageIsWhole
  <2> SUFFICES ASSUME StorageInv PROVE StorageIsWhole
    OBVIOUS
  <2>1. Cardinality(Working) <= 1
    <3>1. CASE Working = {}
      BY <3>1, FS_EmptySet
    <3>2. ASSUME NEW t \in Working PROVE Cardinality(Working) <= 1
      <4>1. \A u \in Users : u \in Working => user[u].at \in WorkSteps
        BY DEF Working, StorageInv, LocksAgree, UserType
      <4>2. Working = {t}
        BY <4>1, WorksAlone DEF StorageInv, Working
      <4>3. Cardinality(Working) = 1
        BY <4>2, FS_Singleton
      <4> QED
        BY <4>3
    <3> QED
      BY <3>1, <3>2
  <2> QED
    BY <2>1 DEF StorageInv, FilesAgree, GroupWhole, NothingReplaced, LogsKnown, StorageIsWhole
<1> QED
  BY StorageStep, <1>1, <1>2, PTL DEF StorageSpec

-----------------------------------------------------------------------------
(* WorkspaceFiles.  What a thread has checked under its reservation stays  *)
(* so: no other thread may come near the same folders meanwhile.           *)

Hashes == {<<>>} \cup {<<c>> : c \in SUBSET Texts}
Maybe(S) == S \cup {Nothing}
CallType ==
  [op : Single \cup Double \cup Whole, at : {"asked", "held", "read", "intended", "clear", "done"},
   from : Maybe(Paths), to : Maybe(Paths), slot : Maybe(Slots), text : Maybe(Texts), new : Maybe(Texts),
   wanted : Hashes, seen : Hashes]

DiskOK ==
  /\ files = [p \in DOMAIN files |-> files[p]] /\ DOMAIN files \subseteq Paths
  /\ \A p \in DOMAIN files : files[p] \subseteq Texts
  /\ payload = [s \in DOMAIN payload |-> payload[s]] /\ minted \subseteq Slots
  /\ \A s \in DOMAIN payload : payload[s] \subseteq Texts
  /\ intent = [s \in DOMAIN intent |-> intent[s]]
  /\ DOMAIN payload \subseteq DOMAIN intent /\ DOMAIN intent \subseteq minted
  /\ \A s \in DOMAIN intent : intent[s] \in Paths

(* The arguments of a call suit its tool.                                  *)
Suits(r) ==
  \/ r = NoTool
  \/ /\ r \in CallType
     /\ r.op \in Single => r.to \in Paths /\ {r.text, r.new} \subseteq Texts
     /\ r.op = "import" => r.wanted = <<>>
     /\ r.op \in Double => r.from \in Paths /\ r.to \in Paths
     /\ r.op = "delete" => r.from \in Paths
     /\ r.op \in {"restore", "purge"} => r.slot \in Slots
     /\ r.at \in {"intended", "clear"} => r.op \in Whole /\ r.slot \in Slots

(* What a thread has found and may rely on.                                *)
Found(r) ==
  /\ r.at = "read" /\ r.op \in Single =>
       /\ r.seen = Workspace!Hash(files, r.to) /\ r.wanted \in {<<>>, r.seen}
       /\ r.op = "edit" => r.seen # <<>> /\ r.text \in r.seen[1]
       /\ r.op = "import" => r.seen = <<>>
  /\ r.at = "read" /\ r.op \notin Single => r.op \in Double /\ r.from \in DOMAIN files /\ r.to \notin DOMAIN files
  /\ r.at = "intended" =>
       /\ r.op = "delete" /\ r.from \in DOMAIN files
       /\ r.slot \in DOMAIN intent \ DOMAIN payload /\ intent[r.slot] = r.from
  /\ r.at = "clear" => r.op \in {"restore", "purge"} /\ r.slot \notin DOMAIN payload

Apart ==
  /\ reserved \in [Clients -> SUBSET Folders]
  /\ \A t, u \in Clients : t # u => \A d \in reserved[t], e \in reserved[u] : ~Overlap(d, e)

Fine(t) ==
  /\ Suits(tool[t]) /\ Found(tool[t])
  /\ tool[t].at \in {"held", "read", "intended", "clear"} => reserved[t] = Keys(t)

FileInv ==
  /\ DiskOK /\ Apart /\ tool = [t \in Clients |-> tool[t]]
  /\ \A t \in Clients : Fine(t)

LEMMA FileInitially == FileInit => FileInv
<1> SUFFICES ASSUME FileInit PROVE FileInv
  OBVIOUS
<1>1. DiskOK
  BY PresentAssumption DEF FileInit, DiskOK
<1>2. Apart
  BY DEF FileInit, Apart
<1>3. \A t \in Clients : tool[t] = NoTool /\ NoTool.at = "idle"
  BY DEF FileInit, NoTool
<1>4. \A t \in Clients : Fine(t)
  BY <1>3 DEF Fine, Suits, Found
<1>5. QED
  BY <1>1, <1>2, <1>4 DEF FileInv, FileInit

(* What one thread may come near, another's reservation does not cover.    *)
Near(t, p) == FolderOf[p] \in reserved[t] \/ Root \in reserved[t]

LEMMA ApartIsFar ==
  ASSUME Apart, NEW t \in Clients, NEW u \in Clients, t # u, NEW p \in Paths, Near(t, p)
  PROVE  ~Near(u, p)
<1>1. FolderOf[p] \in Folders /\ Root \in Folders /\ \A d \in Folders \ {Root} : Root \in Above[d]
  BY TreeAssumption
<1>2. \A d \in reserved[t], e \in reserved[u] : ~Overlap(d, e)
  BY DEF Apart
<1>3. QED
  BY <1>1, <1>2 DEF Near, Overlap

LEMMA RootIsAlone ==
  ASSUME Apart, NEW t \in Clients, NEW u \in Clients, t # u, Root \in reserved[t]
  PROVE  reserved[u] = {}
<1>1. \A d \in reserved[u] : Overlap(Root, d)
  BY TreeAssumption DEF Apart, Overlap
<1>2. QED
  BY <1>1 DEF Apart

(* The arguments of a call that is under way.                              *)
LEMMA UnderWay ==
  ASSUME FileInv, NEW t \in Clients, tool[t].at # "idle"
  PROVE  /\ tool[t] \in CallType
         /\ Op(t) \in Single => tool[t].to \in Paths /\ {tool[t].text, tool[t].new} \subseteq Texts
         /\ Op(t) = "import" => tool[t].wanted = <<>>
         /\ Op(t) \in Double => tool[t].from \in Paths /\ tool[t].to \in Paths
         /\ Op(t) = "delete" => tool[t].from \in Paths
         /\ Op(t) \in {"restore", "purge"} => tool[t].slot \in Slots
         /\ tool[t].at \in {"intended", "clear"} => Op(t) \in Whole /\ tool[t].slot \in Slots
BY DEF FileInv, Fine, Suits, NoTool, Op

(* The folders that a thread at work has.                                  *)
LEMMA Reserves ==
  ASSUME FileInv, NEW t \in Clients, tool[t].at \in {"held", "read", "intended", "clear"}
  PROVE  /\ Op(t) \in Single => Near(t, tool[t].to)
         /\ Op(t) \in Double => Near(t, tool[t].from) /\ Near(t, tool[t].to)
         /\ Op(t) \in Whole => Root \in reserved[t]
BY DEF FileInv, Fine, Keys, Near, Single, Double, Whole

Same(p) == (p \in DOMAIN files' <=> p \in DOMAIN files) /\ (p \in DOMAIN files => files'[p] = files[p])

(* A step of one thread within its reservation. *)
LEMMA StepKeeps ==
  ASSUME FileInv, NEW t \in Clients, UNCHANGED reserved, DiskOK', Fine(t)',
         tool' = [u \in Clients |-> tool'[u]], \A u \in Clients \ {t} : tool'[u] = tool[u],
         \A p \in Paths : Near(t, p) \/ Same(p),
         Root \in reserved[t] \/ UNCHANGED <<payload, intent>>
  PROVE  FileInv'
<1>1. Apart'
  BY DEF FileInv, Apart
<1>2. ASSUME NEW u \in Clients, u # t PROVE Fine(u)'
  <2>1. tool'[u] = tool[u] /\ Fine(u)
    BY <1>2 DEF FileInv
  <2>2. Suits(tool[u])' /\ (Keys(u)' = Keys(u))
    BY <2>1 DEF Fine, Suits, Keys, Op
  <2>3. Found(tool[u])'
    <3>1. CASE tool[u].at = "read" /\ Op(u) \in Single
      <4>1. Same(tool[u].to)
        BY <1>2, <3>1, UnderWay, Reserves, ApartIsFar DEF FileInv
      <4>2. Workspace!Hash(files, tool[u].to)' = Workspace!Hash(files, tool[u].to)
        BY <2>1, <4>1 DEF Same, Workspace!Hash
      <4>3. QED
        BY <2>1, <3>1, <4>2 DEF Fine, Found, Op
    <3>2. CASE tool[u].at = "read" /\ Op(u) \notin Single
      <4>1. Op(u) \in Double
        BY <2>1, <3>2 DEF Fine, Found, Op
      <4>2. Same(tool[u].from) /\ Same(tool[u].to)
        BY <1>2, <3>2, <4>1, UnderWay, Reserves, ApartIsFar DEF FileInv
      <4>3. QED
        BY <2>1, <3>2, <4>2 DEF Fine, Found, Op, Same
    <3>3. CASE tool[u].at \in {"intended", "clear"}
      <4>1. Root \in reserved[u]
        BY <3>3, UnderWay, Reserves
      <4>2. UNCHANGED <<payload, intent>>
        BY <1>2, <4>1, RootIsAlone DEF FileInv
      <4>3. tool[u].at = "intended" => Same(tool[u].from)
        <5>1. ASSUME tool[u].at = "intended" PROVE Same(tool[u].from)
          <6>1. tool[u].from \in Paths
            BY <2>1, <5>1, UnderWay DEF Fine, Found, Op
          <6>2. QED
            BY <1>2, <4>1, <6>1, RootIsAlone DEF FileInv, Near
        <5>2. QED
          BY <5>1
      <4>4. QED
        BY <2>1, <3>3, <4>2, <4>3 DEF Fine, Found, Same
    <3>4. CASE tool[u].at \notin {"read", "intended", "clear"}
      BY <2>1, <3>4 DEF Found
    <3>5. QED
      BY <3>1, <3>2, <3>3, <3>4
  <2>4. QED
    BY <2>1, <2>2, <2>3 DEF Fine
<1>3. QED
  BY <1>1, <1>2 DEF FileInv

(* A step that leaves the disk and the reservations alone.                 *)
LEMMA QuietKeeps ==
  ASSUME FileInv, NEW t \in Clients, UNCHANGED <<diskVars, reserved>>, Fine(t)',
         tool' = [u \in Clients |-> tool'[u]], \A u \in Clients \ {t} : tool'[u] = tool[u]
  PROVE  FileInv'
<1>1. UNCHANGED <<files, payload, intent, minted>>
  BY DEF diskVars
<1>2. DiskOK' /\ \A p \in Paths : Same(p)
  BY <1>1 DEF FileInv, DiskOK, Same
<1>3. QED
  BY <1>1, <1>2, StepKeeps

LEMMA ToIs ==
  ASSUME FileInv, NEW t \in Clients, tool[t].at # "idle", NEW step \in {"held", "read", "clear", "done"}, To(t, step)
  PROVE  /\ tool' = [u \in Clients |-> tool'[u]] /\ \A u \in Clients \ {t} : tool'[u] = tool[u]
         /\ tool'[t] = [tool[t] EXCEPT !.at = step]
         /\ tool'[t] \in CallType /\ tool'[t].at = step /\ tool'[t].op = tool[t].op
         /\ tool'[t].from = tool[t].from /\ tool'[t].to = tool[t].to /\ tool'[t].slot = tool[t].slot
         /\ tool'[t].wanted = tool[t].wanted /\ tool'[t].seen = tool[t].seen
         /\ Keys(t)' = Keys(t)
         /\ step # "clear" \/ Op(t) \in {"restore", "purge"} => Suits(tool[t])'
<1>1. tool[t] \in CallType
  BY UnderWay
<1>2. /\ tool' = [u \in Clients |-> tool'[u]] /\ \A u \in Clients \ {t} : tool'[u] = tool[u]
      /\ tool'[t] = [tool[t] EXCEPT !.at = step]
  BY DEF To, FileInv
<1>3. /\ tool'[t] \in CallType /\ tool'[t].at = step /\ tool'[t].op = tool[t].op
      /\ tool'[t].from = tool[t].from /\ tool'[t].to = tool[t].to /\ tool'[t].slot = tool[t].slot
      /\ tool'[t].text = tool[t].text /\ tool'[t].new = tool[t].new
      /\ tool'[t].wanted = tool[t].wanted /\ tool'[t].seen = tool[t].seen
  BY <1>1, <1>2 DEF CallType
<1>4. Keys(t)' = Keys(t)
  BY <1>3 DEF Keys, Op
<1>5. ASSUME step # "clear" \/ Op(t) \in {"restore", "purge"} PROVE Suits(tool[t])'
  BY <1>3, <1>5, UnderWay DEF Suits, Op, Whole
<1>6. QED
  BY <1>2, <1>3, <1>4, <1>5

LEMMA CallKeeps ==
  ASSUME FileInv, NEW t \in Clients, CallSingle(t) \/ CallDouble(t) \/ CallTrash(t)
  PROVE  FileInv' /\ UNCHANGED diskVars
<1>1. PICK op \in Single \cup Double \cup Whole, p, q \in Maybe(Paths), s \in Maybe(Slots), x, y \in Maybe(Texts),
           wanted \in Hashes :
        /\ Call(t, op, p, q, s, x, y, wanted)
        /\ op \in Single => q \in Paths /\ {x, y} \subseteq Texts
        /\ op = "import" => wanted = <<>>
        /\ op \in Double => p \in Paths /\ q \in Paths
        /\ op = "delete" => p \in Paths
        /\ op \in {"restore", "purge"} => s \in Slots
  <2>1. CASE CallSingle(t)
    <3>1. PICK op \in Single, p \in Paths, x, y \in Texts :
            \E wanted \in IF op = "import" THEN {<<>>} ELSE {<<>>, Workspace!Hash(files, p)} :
              Call(t, op, p, p, Nothing, x, y, wanted)
      BY <2>1 DEF CallSingle
    <3>2. Workspace!Hash(files, p) \in Hashes
      BY DEF FileInv, DiskOK, Workspace!Hash, Hashes
    <3>3. PICK wanted \in IF op = "import" THEN {<<>>} ELSE {<<>>, Workspace!Hash(files, p)} :
            Call(t, op, p, p, Nothing, x, y, wanted)
      BY <3>1
    <3>4. wanted \in Hashes /\ (op = "import" => wanted = <<>>)
      BY <3>2, <3>3 DEF Hashes
    <3>5. op \notin Double \cup Whole
      BY DEF Single, Double, Whole
    <3>6. QED
      BY <3>3, <3>4, <3>5 DEF Maybe, Single, Double, Whole
  <2>2. CASE CallDouble(t)
    BY <2>2 DEF CallDouble, Maybe, Single, Double, Whole, Hashes
  <2>3. CASE CallTrash(t)
    <3>1. /\ {"delete", "restore", "purge"} \subseteq Whole
          /\ \A op \in {"delete", "restore", "purge"} : op \notin Single /\ op \notin Double /\ op # "import"
          /\ <<>> \in Hashes /\ Nothing \in Maybe(Paths) /\ Nothing \in Maybe(Slots) /\ Nothing \in Maybe(Texts)
          /\ Paths \subseteq Maybe(Paths) /\ Slots \subseteq Maybe(Slots)
      BY DEF Whole, Single, Double, Hashes, Maybe
    <3>2. CASE \E p \in Paths : Call(t, "delete", p, p, Nothing, Nothing, Nothing, <<>>)
      BY <3>1, <3>2
    <3>3. CASE \E s \in Slots : Call(t, "purge", Nothing, Nothing, s, Nothing, Nothing, <<>>)
      BY <3>1, <3>3
    <3>4. CASE \E s \in Slots, q \in Maybe(Paths) : Call(t, "restore", Nothing, q, s, Nothing, Nothing, <<>>)
      BY <3>1, <3>4
    <3>5. QED
      BY <2>3, <3>2, <3>3, <3>4 DEF CallTrash, Maybe
  <2>4. QED
    BY <2>1, <2>2, <2>3
<1>2. UNCHANGED <<diskVars, reserved>> /\ tool[t].at = "idle"
  BY <1>1 DEF Call, On
<1>3. /\ tool' = [u \in Clients |-> tool'[u]] /\ \A u \in Clients \ {t} : tool'[u] = tool[u]
      /\ tool'[t] = [op |-> op, at |-> "asked", from |-> p, to |-> q, slot |-> s,
                     text |-> x, new |-> y, wanted |-> wanted, seen |-> <<>>]
  BY <1>1 DEF Call, FileInv
<1>4. tool'[t] \in CallType /\ tool'[t].at = "asked"
  BY <1>3 DEF CallType, Hashes
<1>5. Suits(tool[t])'
  BY <1>1, <1>3, <1>4 DEF Suits
<1>6. Fine(t)'
  BY <1>4, <1>5 DEF Fine, Found
<1>7. QED
  BY <1>2, <1>3, <1>6, QuietKeeps

LEMMA FailKeeps ==
  ASSUME FileInv, NEW t \in Clients, Fail(t)
  PROVE  FileInv' /\ UNCHANGED diskVars
<1>1. To(t, "done") /\ tool[t].at # "idle" /\ UNCHANGED <<diskVars, reserved>>
  BY DEF Fail, holdVars
<1>2. Fine(t)'
  BY <1>1, ToIs DEF Fine, Found
<1>3. QED
  BY <1>1, <1>2, ToIs, QuietKeeps

LEMMA CheckKeeps ==
  ASSUME FileInv, NEW t \in Clients, CheckDouble(t)
  PROVE  FileInv' /\ UNCHANGED diskVars
<1>1. /\ To(t, "read") /\ tool[t].at = "held" /\ UNCHANGED <<diskVars, reserved>> /\ Op(t) \in Double
      /\ tool[t].from \in DOMAIN files /\ tool[t].to \notin DOMAIN files /\ UNCHANGED files
  BY DEF CheckDouble, holdVars, diskVars, On
<1>2. Fine(t)'
  <2>1. Op(t) \notin Single /\ reserved[t] = Keys(t)
    BY <1>1 DEF Single, Double, FileInv, Fine
  <2>2. QED
    BY <1>1, <2>1, ToIs DEF Fine, Found, Op
<1>3. QED
  BY <1>1, <1>2, ToIs, QuietKeeps

LEMMA ReadKeeps ==
  ASSUME FileInv, NEW t \in Clients, Read(t)
  PROVE  FileInv' /\ UNCHANGED diskVars
<1> DEFINE before == Workspace!Hash(files, tool[t].to)
<1>1. /\ tool[t].at = "held" /\ Op(t) \in Single /\ UNCHANGED <<diskVars, reserved>> /\ UNCHANGED files
      /\ tool[t].wanted # <<>> => before = tool[t].wanted
      /\ Op(t) = "edit" => before # <<>> /\ tool[t].text \in before[1]
      /\ Op(t) = "import" => before = <<>>
      /\ tool' = [tool EXCEPT ![t].at = "read", ![t].seen = before]
  BY DEF Read, holdVars, diskVars, On
<1>2. before \in Hashes /\ Workspace!Hash(files, tool[t].to)' = Workspace!Hash(files, tool'[t].to)
  BY <1>1 DEF FileInv, DiskOK, Workspace!Hash, Hashes
<1>3. /\ tool' = [u \in Clients |-> tool'[u]] /\ \A u \in Clients \ {t} : tool'[u] = tool[u]
      /\ tool'[t] = [tool[t] EXCEPT !.at = "read", !.seen = before]
  BY <1>1 DEF FileInv
<1> HIDE DEF before
<1>4. /\ tool'[t] \in CallType /\ tool'[t].at = "read" /\ tool'[t].op = tool[t].op
      /\ tool'[t].from = tool[t].from /\ tool'[t].to = tool[t].to /\ tool'[t].slot = tool[t].slot
      /\ tool'[t].text = tool[t].text /\ tool'[t].new = tool[t].new
      /\ tool'[t].wanted = tool[t].wanted /\ tool'[t].seen = before
  BY <1>1, <1>2, <1>3, UnderWay DEF CallType
<1>5. Suits(tool[t])' /\ Keys(t)' = Keys(t) /\ reserved[t] = Keys(t)
  <2>1. Suits(tool[t])'
    BY <1>1, <1>4, UnderWay DEF Suits, Op
  <2>2. QED
    BY <1>1, <1>4, <2>1 DEF Keys, Op, FileInv, Fine
<1>6. Found(tool[t])'
  BY <1>1, <1>2, <1>4 DEF Found, Op, before
<1>7. QED
  BY <1>1, <1>3, <1>4, <1>5, <1>6, QuietKeeps DEF Fine

(* Taking a reservation, giving it back, and the stop of the server.       *)
LEMMA HoldKeeps ==
  ASSUME FileInv, NEW t \in Clients, Hold(t) \/ Release(t)
  PROVE  FileInv' /\ UNCHANGED diskVars
<1>1. /\ tool[t].at # "idle" /\ UNCHANGED diskVars /\ UNCHANGED <<files, payload, intent, minted>>
      /\ \A u \in Clients \ {t} : tool'[u] = tool[u] /\ reserved'[u] = reserved[u]
      /\ reserved' = [u \in Clients |-> reserved'[u]] /\ tool' = [u \in Clients |-> tool'[u]]
  BY DEF Hold, Release, On, diskVars, FileInv, Apart, To
<1>2. \A u \in Clients \ {t} : Fine(u)'
  <2> SUFFICES ASSUME NEW u \in Clients \ {t} PROVE Fine(u)'
    OBVIOUS
  <2>1. tool'[u] = tool[u] /\ reserved'[u] = reserved[u] /\ Fine(u)
    BY <1>1 DEF FileInv
  <2>2. Suits(tool[u])' /\ Keys(u)' = Keys(u)
    BY <2>1 DEF Fine, Suits, Keys, Op
  <2>3. Found(tool[u])'
    BY <1>1, <2>1 DEF Fine, Found, Workspace!Hash
  <2>4. QED
    BY <2>1, <2>2, <2>3 DEF Fine
<1>3. DiskOK'
  BY <1>1 DEF FileInv, DiskOK
<1>4. CASE Hold(t)
  <2>1. /\ reserved'[t] = Keys(t) /\ To(t, "held")
        /\ \A u \in Clients \ {t} : \A d \in Keys(t), e \in reserved[u] : ~Overlap(d, e)
    BY <1>4 DEF Hold, FileInv, Apart
  <2>2. Keys(t) \subseteq Folders
    BY <1>1, UnderWay, TreeAssumption DEF Keys, Single, Double
  <2>3. Apart'
    BY <1>1, <2>1, <2>2 DEF FileInv, Apart, Overlap
  <2>4. Fine(t)'
    BY <1>1, <2>1, ToIs DEF Fine, Found
  <2>5. QED
    BY <1>1, <1>2, <1>3, <2>3, <2>4 DEF FileInv
<1>5. CASE Release(t)
  <2>1. reserved'[t] = {} /\ tool'[t] = NoTool
    BY <1>5 DEF Release, FileInv, Apart
  <2>2. Apart'
    BY <1>1, <2>1 DEF FileInv, Apart
  <2>3. Fine(t)'
    BY <2>1 DEF Fine, Suits, Found, NoTool
  <2>4. QED
    BY <1>1, <1>2, <1>3, <2>2, <2>3 DEF FileInv
<1>6. QED
  BY <1>1, <1>4, <1>5

LEMMA StopKeeps ==
  ASSUME FileInv, Stop
  PROVE  FileInv' /\ UNCHANGED diskVars
<1>1. UNCHANGED diskVars /\ UNCHANGED <<files, payload, intent, minted>>
  BY DEF Stop, diskVars
<1>2. Apart'
  BY DEF Stop, Apart
<1>3. \A t \in Clients : tool'[t] = NoTool
  BY DEF Stop
<1>4. \A t \in Clients : Fine(t)'
  BY <1>3 DEF Fine, Suits, Found, NoTool
<1>5. DiskOK'
  BY <1>1 DEF FileInv, DiskOK
<1>6. tool' = [t \in Clients |-> tool'[t]]
  BY DEF Stop
<1>7. QED
  BY <1>1, <1>2, <1>4, <1>5, <1>6 DEF FileInv

-----------------------------------------------------------------------------
(* What a step of the tools is to the promise.                             *)
PromiseStep == Workspace!PromiseNext \/ UNCHANGED Workspace!promiseVars

LEMMA TrashStays ==
  ASSUME UNCHANGED payload,
         \A s \in DOMAIN payload :
           (s \in DOMAIN intent' <=> s \in DOMAIN intent) /\ (s \in DOMAIN intent => intent'[s] = intent[s])
  PROVE  UNCHANGED Trash
BY DEF Trash

(* An update is made to the content that was read, and says so.            *)
LEMMA UpdateKeeps ==
  ASSUME FileInv, NEW t \in Clients, On(t, "read"), Op(t) \in Single, Update(t),
         Op(t) = "import" => tool[t].to \notin DOMAIN files
  PROVE  FileInv' /\ PromiseStep
<1> DEFINE p == tool[t].to
           c == NewContent(t)
<1>1. /\ tool[t].at = "read" /\ To(t, "done") /\ files' = Put(files, p, c)
      /\ receipt' = [path |-> p, wanted |-> tool[t].wanted, before |-> tool[t].seen, after |-> <<c>>]
      /\ UNCHANGED <<payload, intent, minted, reserved>>
  BY DEF Update, On, holdVars
<1>2. /\ p \in Paths /\ tool[t].text \in Texts /\ tool[t].new \in Texts
      /\ tool[t].seen = Workspace!Hash(files, p) /\ tool[t].wanted \in {<<>>, tool[t].seen}
      /\ Op(t) = "edit" => tool[t].seen # <<>> /\ tool[t].text \in tool[t].seen[1]
      /\ Op(t) = "import" => tool[t].wanted = <<>>
  BY <1>1, UnderWay DEF FileInv, Fine, Found, Op
<1>3. Workspace!TextOf(tool[t].seen) \subseteq Texts
  BY <1>2 DEF Workspace!TextOf, Workspace!Hash, FileInv, DiskOK
<1>4. c \subseteq Texts
  BY <1>2, <1>3 DEF NewContent
<1>5. Workspace!Put(p, tool[t].wanted, c)
  <2>1. UNCHANGED Trash
    BY <1>1, TrashStays
  <2>2. QED
    BY <1>1, <1>2, <2>1 DEF Workspace!Put, Put
<1>6. PromiseStep
  <2>1. tool[t].wanted \in {<<>>, receipt'.wanted}
    BY <1>1
  <2>2. \/ Workspace!Write(p, tool[t].wanted, tool[t].text)
        \/ Workspace!Append(p, tool[t].wanted, tool[t].text)
        \/ Workspace!Edit(p, tool[t].wanted, tool[t].text, tool[t].new)
        \/ Workspace!Import(p, tool[t].text)
    <3>1. CASE Op(t) = "write"
      BY <1>5, <3>1 DEF Workspace!Write, NewContent
    <3>2. CASE Op(t) = "append"
      BY <1>2, <1>5, <3>2 DEF Workspace!Append, NewContent
    <3>3. CASE Op(t) = "edit"
      <4>1. tool[t].seen = <<files[p]>>
        BY <1>2, <3>3 DEF Workspace!Hash
      <4>2. Workspace!TextOf(tool[t].seen) = files[p] /\ tool[t].text \in files[p]
        BY <1>2, <3>3, <4>1 DEF Workspace!TextOf
      <4>3. QED
        BY <1>2, <1>5, <3>3, <4>2 DEF Workspace!Edit, NewContent
    <3>4. CASE Op(t) = "import"
      BY <1>2, <1>5, <3>4 DEF Workspace!Import, NewContent
    <3>5. QED
      BY <3>1, <3>2, <3>3, <3>4 DEF Single
  <2> HIDE DEF p
  <2>3. QED
    BY <1>2, <2>1, <2>2 DEF PromiseStep, Workspace!PromiseNext
<1> HIDE DEF p, c
<1>12. /\ files' = [y \in DOMAIN files' |-> files'[y]] /\ files'[p] = c
       /\ DOMAIN files' = DOMAIN files \cup {p} /\ \A y \in DOMAIN files \ {p} : files'[y] = files[y]
  BY <1>1 DEF Put, Workspace!With
<1>7. DiskOK'
  BY <1>1, <1>2, <1>4, <1>12 DEF FileInv, DiskOK
<1>8. Near(t, p) /\ \A q \in Paths : q = p \/ Same(q)
  <2>1. Near(t, p)
    BY <1>1, Reserves DEF p
  <2>2. QED
    BY <1>12, <2>1 DEF Same
<1>9. Fine(t)'
  BY <1>1, ToIs DEF Fine, Found
<1>10. FileInv'
  BY <1>1, <1>7, <1>8, <1>9, ToIs, StepKeeps
<1>11. QED
  BY <1>6, <1>10

(* One rename, or one copy, whole or in part.                              *)
LEMMA RenameKeeps ==
  ASSUME FileInv, NEW t \in Clients, MoveOrCopy(t) \/ CopyBreaksOff(t)
  PROVE  FileInv' /\ PromiseStep
<1> DEFINE p == tool[t].from
           q == tool[t].to
<1>1. /\ tool[t].at = "read" /\ To(t, "done") /\ Op(t) \in Double
      /\ UNCHANGED <<payload, intent, minted, receipt, reserved>> /\ UNCHANGED Trash
  <2>1. /\ tool[t].at = "read" /\ To(t, "done") /\ Op(t) \in Double
        /\ UNCHANGED <<payload, intent, minted, receipt, reserved>>
    BY DEF MoveOrCopy, CopyBreaksOff, On, Double, holdVars
  <2>2. QED
    BY <2>1, TrashStays
<1>2. p \in Paths /\ q \in Paths /\ p \in DOMAIN files /\ q \notin DOMAIN files
  BY <1>1, UnderWay DEF FileInv, Fine, Found, Op, Double, Single
<1>3. PICK c \in SUBSET Texts :
        \/ files' = Put(files, q, c) /\ c \subseteq files[p]
        \/ files' = Put(Drop(files, p), q, c) /\ c = files[p]
  BY <1>2 DEF MoveOrCopy, CopyBreaksOff, FileInv, DiskOK
<1>4. PromiseStep
  <2>1. Workspace!Copy(p, q, c) \/ Workspace!Move(p, q)
    BY <1>1, <1>2, <1>3 DEF Workspace!Copy, Workspace!Move, Put, Drop
  <2> HIDE DEF p, q
  <2>2. QED
    BY <1>2, <2>1 DEF PromiseStep, Workspace!PromiseNext
<1>5. Near(t, p) /\ Near(t, q)
  BY <1>1, Reserves
<1>6. Fine(t)'
  BY <1>1, ToIs DEF Fine, Found
<1> HIDE DEF p, q
<1>7. /\ files' = [y \in DOMAIN files' |-> files'[y]] /\ files'[q] = c
      /\ DOMAIN files' \subseteq DOMAIN files \cup {q} /\ DOMAIN files \cup {q} \subseteq DOMAIN files' \cup {p}
      /\ \A y \in DOMAIN files' \ {q} : files'[y] = files[y]
  <2>1. CASE files' = Put(files, q, c)
    <3>1. /\ files' = [y \in DOMAIN files' |-> files'[y]] /\ files'[q] = c
          /\ DOMAIN files' = DOMAIN files \cup {q} /\ \A y \in DOMAIN files \ {q} : files'[y] = files[y]
      BY <2>1 DEF Put, Workspace!With
    <3>2. QED
      BY <3>1
  <2>2. CASE files' = Put(Drop(files, p), q, c)
    <3>1. DOMAIN Drop(files, p) = DOMAIN files \ {p} /\ \A y \in DOMAIN files \ {p} : Drop(files, p)[y] = files[y]
      BY DEF Drop, Workspace!Without, Workspace!Restrict
    <3>2. /\ files' = [y \in DOMAIN files' |-> files'[y]] /\ files'[q] = c
          /\ DOMAIN files' = DOMAIN Drop(files, p) \cup {q}
          /\ \A y \in DOMAIN Drop(files, p) \ {q} : files'[y] = Drop(files, p)[y]
      BY <2>2 DEF Put, Workspace!With
    <3>3. QED
      BY <3>1, <3>2
  <2>3. QED
    BY <1>3, <2>1, <2>2
<1>8. DiskOK'
  BY <1>1, <1>2, <1>7 DEF FileInv, DiskOK
<1>9. \A y \in Paths : Near(t, y) \/ Same(y)
  BY <1>2, <1>5, <1>7 DEF Same
<1>10. FileInv'
  BY <1>1, <1>6, <1>8, <1>9, ToIs, StepKeeps
<1>11. QED
  BY <1>4, <1>10

(* delete.  The intent is written for an item that was never named before. *)
LEMMA IntendKeeps ==
  ASSUME FileInv, NEW t \in Clients, NEW s \in Slots, Intend(t, s)
  PROVE  FileInv' /\ PromiseStep
<1>1. /\ tool[t].at = "held" /\ Op(t) = "delete" /\ s \notin minted /\ tool[t].from \in DOMAIN files
      /\ minted' = minted \cup {s} /\ intent' = Put(intent, s, tool[t].from)
      /\ tool' = [tool EXCEPT ![t].at = "intended", ![t].slot = s]
      /\ UNCHANGED <<files, payload, receipt, reserved>>
  BY DEF Intend, On, holdVars
<1>2. /\ intent' = [y \in DOMAIN intent' |-> intent'[y]] /\ intent'[s] = tool[t].from
      /\ DOMAIN intent' = DOMAIN intent \cup {s} /\ \A y \in DOMAIN intent \ {s} : intent'[y] = intent[y]
  BY <1>1 DEF Put, Workspace!With
<1>3. s \notin DOMAIN intent /\ s \notin DOMAIN payload
  BY <1>1 DEF FileInv, DiskOK
<1>4. /\ tool' = [u \in Clients |-> tool'[u]] /\ \A u \in Clients \ {t} : tool'[u] = tool[u]
      /\ tool'[t] = [tool[t] EXCEPT !.at = "intended", !.slot = s]
  BY <1>1 DEF FileInv
<1>5. /\ tool'[t] \in CallType /\ tool'[t].at = "intended" /\ tool'[t].op = "delete"
      /\ tool'[t].from = tool[t].from /\ tool'[t].to = tool[t].to /\ tool'[t].slot = s
  BY <1>1, <1>4, UnderWay DEF CallType, Maybe, Op
<1>6. tool[t].from \in Paths
  BY <1>1, UnderWay
<1>7. DiskOK'
  BY <1>1, <1>2, <1>6 DEF FileInv, DiskOK
<1>8. Suits(tool[t])'
  BY <1>5, <1>6 DEF Suits, Single, Double, Whole
<1>9. Fine(t)'
  <2>1. reserved[t] = Keys(t) /\ Keys(t) = Keys(t)'
    BY <1>1, <1>5 DEF FileInv, Fine, Keys, Op
  <2>2. Found(tool[t])'
    BY <1>1, <1>2, <1>3, <1>5 DEF Found
  <2>3. QED
    BY <1>1, <1>8, <2>1, <2>2 DEF Fine
<1>10. Root \in reserved[t] /\ \A p \in Paths : Same(p)
  BY <1>1, Reserves DEF Whole, Same
<1>11. FileInv'
  BY <1>1, <1>4, <1>7, <1>9, <1>10, StepKeeps
<1>12. UNCHANGED Trash
  BY <1>1, <1>2, <1>3, TrashStays
<1>13. QED
  BY <1>1, <1>11, <1>12 DEF PromiseStep, Workspace!promiseVars

(* The intent of an item without payload is taken back, or is not.         *)
LEMMA ClearKeeps ==
  ASSUME FileInv, NEW t \in Clients, Unintend(t) \/ ClearIntent(t)
  PROVE  FileInv' /\ PromiseStep
<1>1. /\ tool[t].at \in {"intended", "clear"} /\ To(t, "done")
      /\ intent' \in {intent, Drop(intent, tool[t].slot)}
      /\ UNCHANGED <<files, payload, minted, receipt, reserved>>
  BY DEF Unintend, ClearIntent, On, holdVars
<1>2. tool[t].slot \notin DOMAIN payload
  BY <1>1 DEF FileInv, Fine, Found
<1>3. /\ intent' = [y \in DOMAIN intent' |-> intent'[y]]
      /\ DOMAIN intent' \subseteq DOMAIN intent /\ DOMAIN intent \subseteq DOMAIN intent' \cup {tool[t].slot}
      /\ \A y \in DOMAIN intent' : intent'[y] = intent[y]
  <2>1. CASE intent' = intent
    BY <2>1 DEF FileInv, DiskOK
  <2>2. CASE intent' = Drop(intent, tool[t].slot)
    BY <2>2 DEF Drop, Workspace!Without, Workspace!Restrict
  <2>3. QED
    BY <1>1, <2>1, <2>2
<1>4. DiskOK'
  BY <1>1, <1>2, <1>3 DEF FileInv, DiskOK
<1>5. Root \in reserved[t] /\ \A p \in Paths : Same(p)
  BY <1>1, UnderWay, Reserves DEF Same
<1>6. Fine(t)'
  BY <1>1, ToIs DEF Fine, Found
<1>7. FileInv'
  BY <1>1, <1>4, <1>5, <1>6, ToIs, StepKeeps
<1>8. UNCHANGED Trash
  BY <1>1, <1>2, <1>3, TrashStays
<1>9. QED
  BY <1>1, <1>7, <1>8 DEF PromiseStep, Workspace!promiseVars

LEMMA DeleteKeeps ==
  ASSUME FileInv, NEW t \in Clients, MoveToTrash(t)
  PROVE  FileInv' /\ PromiseStep
<1> DEFINE p == tool[t].from
           s == tool[t].slot
<1>1. /\ tool[t].at = "intended" /\ To(t, "done") /\ files' = Drop(files, p)
      /\ payload' = Put(payload, s, files[p]) /\ UNCHANGED <<intent, minted, receipt, reserved>>
  BY DEF MoveToTrash, On, holdVars
<1>2. /\ p \in DOMAIN files /\ p \in Paths /\ s \in Slots /\ s \in DOMAIN intent /\ s \notin DOMAIN payload
      /\ intent[s] = p
  BY <1>1, UnderWay DEF FileInv, DiskOK, Fine, Found
<1>3. Root \in reserved[t]
  BY <1>1, UnderWay, Reserves
<1>4. Fine(t)'
  BY <1>1, ToIs DEF Fine, Found
<1> HIDE DEF p, s
<1>5. /\ files' = [y \in DOMAIN files' |-> files'[y]]
      /\ DOMAIN files' = DOMAIN files \ {p} /\ \A y \in DOMAIN files' : files'[y] = files[y]
  BY <1>1 DEF Drop, Workspace!Without, Workspace!Restrict
<1>6. /\ payload' = [y \in DOMAIN payload' |-> payload'[y]] /\ payload'[s] = files[p]
      /\ DOMAIN payload' = DOMAIN payload \cup {s} /\ \A y \in DOMAIN payload : payload'[y] = payload[y]
  BY <1>1, <1>2 DEF Put, Workspace!With
<1>7. DiskOK'
  BY <1>1, <1>2, <1>5, <1>6 DEF FileInv, DiskOK
<1>8. FileInv'
  BY <1>1, <1>3, <1>4, <1>7, ToIs, StepKeeps DEF Near
<1>9. Workspace!Delete(p, s)
  <2>1. DOMAIN Trash = DOMAIN payload
    BY DEF Trash
  <2>2. Trash' = Workspace!With(Trash, s, [content |-> files[p], original |-> p])
    BY <1>1, <1>2, <1>6, <2>1 DEF Trash, Workspace!With
  <2>3. QED
    BY <1>1, <1>2, <2>1, <2>2 DEF Workspace!Delete, Drop
<1>10. PromiseStep
  BY <1>2, <1>9 DEF PromiseStep, Workspace!PromiseNext
<1>11. QED
  BY <1>8, <1>10

(* trash_restore: the payload is a file again, where the name is free.     *)
LEMMA TakeBackKeeps ==
  ASSUME FileInv, NEW t \in Clients, PutBack(t)
  PROVE  FileInv' /\ PromiseStep
<1> DEFINE s == tool[t].slot
<1>1. /\ tool[t].at = "held" /\ Op(t) = "restore" /\ To(t, "clear") /\ s \in DOMAIN payload
      /\ payload' = Drop(payload, s) /\ UNCHANGED <<intent, minted, receipt, reserved>>
  BY DEF PutBack, On, holdVars
<1>2. PICK q \in RestoreTarget(t) : q \notin DOMAIN files /\ files' = Put(files, q, payload[s])
  BY DEF PutBack
<1>3. q \in Paths /\ s \in Slots
  BY <1>1, UnderWay DEF RestoreTarget, FileInv, DiskOK, CallType, Maybe
<1>4. Root \in reserved[t]
  BY <1>1, Reserves DEF Whole
<1>5. Suits(tool[t])' /\ tool'[t].slot = s /\ Op(t)' = "restore" /\ tool'[t].at = "clear" /\ Keys(t)' = Keys(t)
  BY <1>1, ToIs DEF Op
<1>6. reserved[t] = Keys(t)
  BY <1>1 DEF FileInv, Fine
<1> HIDE DEF s
<1>7. /\ files' = [y \in DOMAIN files' |-> files'[y]] /\ files'[q] = payload[s]
      /\ DOMAIN files' = DOMAIN files \cup {q} /\ \A y \in DOMAIN files \ {q} : files'[y] = files[y]
  BY <1>2 DEF Put, Workspace!With
<1>8. /\ payload' = [y \in DOMAIN payload' |-> payload'[y]]
      /\ DOMAIN payload' = DOMAIN payload \ {s} /\ \A y \in DOMAIN payload' : payload'[y] = payload[y]
  BY <1>1 DEF Drop, Workspace!Without, Workspace!Restrict
<1>9. DiskOK'
  BY <1>1, <1>3, <1>7, <1>8 DEF FileInv, DiskOK
<1>10. Fine(t)'
  <2>1. Found(tool[t])'
    BY <1>5, <1>8 DEF Found, Op
  <2>2. QED
    BY <1>1, <1>5, <1>6, <2>1 DEF Fine
<1>11. FileInv'
  BY <1>1, <1>4, <1>9, <1>10, ToIs, StepKeeps DEF Near
<1>12. Workspace!Restore(s, q)
  <2>1. DOMAIN Trash = DOMAIN payload /\ Trash[s].content = payload[s]
    BY <1>1 DEF Trash
  <2>2. Trash' = Workspace!Without(Trash, s)
    BY <1>1, <1>8, <2>1 DEF Trash, Workspace!Without, Workspace!Restrict
  <2>3. QED
    BY <1>1, <1>2, <2>1, <2>2 DEF Workspace!Restore, Put
<1>13. PromiseStep
  BY <1>3, <1>12 DEF PromiseStep, Workspace!PromiseNext
<1>14. QED
  BY <1>11, <1>13

(* trash_purge, to the end or not. *)
LEMMA PurgeKeeps ==
  ASSUME FileInv, NEW t \in Clients, Destroy(t) \/ DestroyBreaksOff(t)
  PROVE  FileInv' /\ PromiseStep
<1> DEFINE s == tool[t].slot
<1>1. /\ tool[t].at = "held" /\ Op(t) = "purge" /\ s \in DOMAIN payload
      /\ UNCHANGED <<files, intent, minted, receipt, reserved>>
  BY DEF Destroy, DestroyBreaksOff, On, holdVars
<1>2. s \in Slots /\ Root \in reserved[t] /\ reserved[t] = Keys(t) /\ payload[s] \subseteq Texts
  BY <1>1, UnderWay, Reserves DEF FileInv, DiskOK, Fine, Whole
<1>3. \A p \in Paths : Same(p)
  BY <1>1 DEF Same
<1>4. DOMAIN Trash = DOMAIN payload /\ Trash[s].content = payload[s]
  BY <1>1 DEF Trash
<1>5. CASE Destroy(t)
  <2>1. To(t, "clear") /\ payload' = Drop(payload, s)
    BY <1>5 DEF Destroy
  <2>2. Suits(tool[t])' /\ tool'[t].slot = s /\ Op(t)' = "purge" /\ tool'[t].at = "clear" /\ Keys(t)' = Keys(t)
    BY <1>1, <2>1, ToIs DEF Op
  <2> HIDE DEF s
  <2>3. /\ payload' = [y \in DOMAIN payload' |-> payload'[y]]
        /\ DOMAIN payload' = DOMAIN payload \ {s} /\ \A y \in DOMAIN payload' : payload'[y] = payload[y]
    BY <2>1 DEF Drop, Workspace!Without, Workspace!Restrict
  <2>4. DiskOK'
    BY <1>1, <2>3 DEF FileInv, DiskOK
  <2>5. Fine(t)'
    <3>1. Found(tool[t])'
      BY <2>2, <2>3 DEF Found, Op
    <3>2. QED
      BY <1>1, <1>2, <2>2, <3>1 DEF Fine
  <2>6. FileInv'
    BY <1>1, <1>2, <1>3, <2>1, <2>4, <2>5, ToIs, StepKeeps
  <2>7. Trash' = Workspace!Without(Trash, s)
    BY <1>1, <1>4, <2>3 DEF Trash, Workspace!Without, Workspace!Restrict
  <2>8. Workspace!Purge(s)
    BY <1>1, <1>4, <2>7 DEF Workspace!Purge
  <2>9. QED
    BY <1>2, <2>6, <2>8 DEF PromiseStep, Workspace!PromiseNext
<1>6. CASE DestroyBreaksOff(t)
  <2>1. PICK part \in SUBSET payload[s] : payload' = Put(payload, s, part)
    BY <1>6 DEF DestroyBreaksOff
  <2>2. To(t, "done")
    BY <1>6 DEF DestroyBreaksOff
  <2>3. Fine(t)'
    BY <1>1, <2>2, ToIs DEF Fine, Found
  <2> HIDE DEF s
  <2>4. /\ payload' = [y \in DOMAIN payload' |-> payload'[y]] /\ payload'[s] = part
        /\ DOMAIN payload' = DOMAIN payload /\ \A y \in DOMAIN payload \ {s} : payload'[y] = payload[y]
    BY <1>1, <2>1 DEF Put, Workspace!With
  <2>5. DiskOK'
    BY <1>1, <1>2, <2>1, <2>4 DEF FileInv, DiskOK
  <2>6. FileInv'
    BY <1>1, <1>2, <1>3, <2>2, <2>3, <2>5, ToIs, StepKeeps
  <2>7. Trash' = [Trash EXCEPT ![s].content = part]
    BY <1>1, <1>4, <2>4 DEF Trash
  <2>8. Workspace!Purge(s)
    BY <1>1, <1>4, <2>1, <2>7 DEF Workspace!Purge
  <2>9. QED
    BY <1>2, <2>6, <2>8 DEF PromiseStep, Workspace!PromiseNext
<1>7. QED
  BY <1>5, <1>6

(* The invariant holds, and every step is one of the promise or none.      *)
LEMMA DiskUnmoved ==
  ASSUME UNCHANGED diskVars PROVE PromiseStep
<1>1. UNCHANGED <<files, payload, intent, receipt>> /\ UNCHANGED Trash
  BY TrashStays DEF diskVars
<1>2. QED
  BY <1>1 DEF PromiseStep, Workspace!promiseVars

LEMMA FileStepKeeps == FileInv /\ [FileNext]_fileVars => FileInv' /\ PromiseStep
<1> SUFFICES ASSUME FileInv, [FileNext]_fileVars PROVE FileInv' /\ PromiseStep
  OBVIOUS
<1>1. CASE UNCHANGED fileVars
  <2>1. UNCHANGED <<diskVars, files, payload, intent, minted, reserved, tool>>
    BY <1>1 DEF fileVars, diskVars, holdVars
  <2>2. FileInv'
    BY <2>1 DEF FileInv, DiskOK, Apart, Fine, Suits, Found, Keys, Op, Workspace!Hash
  <2>3. QED
    BY <2>1, <2>2, DiskUnmoved
<1>2. CASE Stop
  BY <1>2, StopKeeps, DiskUnmoved
<1>3. ASSUME NEW t \in Clients, FileStep(t) PROVE FileInv' /\ PromiseStep
  <2>1. CASE \/ CallSingle(t) \/ CallDouble(t) \/ CallTrash(t) \/ Fail(t) \/ CheckDouble(t) \/ Read(t)
             \/ Hold(t) \/ Release(t)
    BY <2>1, CallKeeps, FailKeeps, CheckKeeps, ReadKeeps, HoldKeeps, DiskUnmoved
  <2>2. CASE Replace(t) \/ Link(t)
    BY <2>2, UpdateKeeps DEF Replace, Link, Single
  <2>3. CASE \/ MoveOrCopy(t) \/ CopyBreaksOff(t) \/ (\E s \in Slots : Intend(t, s)) \/ MoveToTrash(t)
             \/ Unintend(t) \/ PutBack(t) \/ Destroy(t) \/ DestroyBreaksOff(t) \/ ClearIntent(t)
    BY <2>3, RenameKeeps, IntendKeeps, DeleteKeeps, ClearKeeps, TakeBackKeeps, PurgeKeeps
  <2>4. QED
    BY <1>3, <2>1, <2>2, <2>3 DEF FileStep
<1>4. QED
  BY <1>1, <1>2, <1>3 DEF FileNext

(* The tools, with their reservations, staged replacements, durable        *)
(* intents and stops of the server, implement WorkspacePromise.            *)
THEOREM ToolsKeepWorkspace == FileSpec => KeepsWorkspace
<1>1. FileInit => Workspace!PromiseInit
  BY DEF FileInit, Workspace!PromiseInit, Trash
<1>2. PromiseStep => [Workspace!PromiseNext]_(Workspace!promiseVars)
  BY DEF PromiseStep
<1>3. QED
  BY <1>1, <1>2, FileInitially, FileStepKeeps, PTL DEF FileSpec, KeepsWorkspace, Workspace!PromiseSpec

-----------------------------------------------------------------------------
(* CatalogRefresh.  The rows that carry the generation of a cycle are those *)
(* of the files it has reached; a file that nothing changed meanwhile was  *)
(* reached if it exists and the walk is past it.                           *)

RowStatuses == Retryable \cup {"settled"}

RefreshTypes ==
  /\ disk \in [Files -> Nat] /\ limits \in Nat /\ changes \in Nat /\ refreshes \in Nat /\ steady \subseteq Files
  /\ DOMAIN rows \subseteq Files
  /\ \A f \in DOMAIN rows : rows[f].generation \in 0 .. refreshes /\ rows[f].status \in RowStatuses
  /\ scan.generation \in 0 .. refreshes /\ scan.cursor \in Nat /\ scan.limits \in 0 .. limits
  /\ scan.incomplete \in BOOLEAN

InCycle(f, generation) == f \in DOMAIN rows /\ rows[f].generation = generation

(* What the refreshes so far leave to one that continues their cycle.      *)
CycleOK ==
  Resume => \A f \in steady :
    /\ disk[f] # 0 /\ f <= scan.cursor /\ ~scan.incomplete => InCycle(f, scan.generation)
    /\ InCycle(f, scan.generation) => disk[f] # 0 /\ rows[f].version = disk[f]

Reached(f) == f \in walk.seen \/ InCycle(f, walk.generation)

WalkTypes ==
  /\ walk = [at |-> walk.at, todo |-> walk.todo, next |-> walk.next, generation |-> walk.generation,
             limits |-> walk.limits, existing |-> walk.existing, incomplete |-> walk.incomplete,
             partial |-> walk.partial, seen |-> walk.seen, news |-> walk.news,
             scanned |-> walk.scanned, count |-> walk.count, stat |-> walk.stat]
  /\ walk.at \in {"walk", "read", "commit"} /\ walk.todo \subseteq Files /\ walk.next \in Nat
  /\ walk.generation \in 0 .. refreshes /\ walk.limits \in 0 .. limits
  /\ {walk.incomplete, walk.partial} \subseteq BOOLEAN
  /\ walk.seen \subseteq Files /\ DOMAIN walk.news \subseteq walk.seen
  /\ walk.news \in [DOMAIN walk.news -> [version : Nat, status : RowStatuses]]
  /\ walk.at = "read" => walk.stat \in DOMAIN walk.news

WalkOK ==
  /\ walk.existing = rows /\ \A f \in walk.todo : walk.next < f
  /\ walk.at = "commit" /\ ~walk.partial => walk.todo = {}
  /\ \A f \in steady :
       /\ disk[f] # 0 /\ ~walk.incomplete /\ f \notin walk.todo => Reached(f)
       /\ Reached(f) => disk[f] # 0
       /\ InCycle(f, walk.generation) => rows[f].version = disk[f]
       /\ f \in DOMAIN walk.news => walk.news[f].version = disk[f]
       /\ f \in walk.seen \ DOMAIN walk.news => f \in DOMAIN rows /\ rows[f].version = disk[f]

RefreshInv ==
  RefreshTypes /\ CycleOK /\ (walk = NoWalk \/ (WalkTypes /\ WalkOK))

LEMMA LeastExists ==
  ASSUME NEW S, S \subseteq Nat, S # {}
  PROVE  \E x \in S : \A y \in S : x <= y
<1> DEFINE R == {ss \in Nat \X Nat : ss[1] < ss[2]}
<1>1. IsWellFoundedOn(R, Nat)
  BY NatLessThanWellFounded DEF OpToRel
<1>2. PICK x \in S : \A y \in S : ~(<<y, x>> \in R)
  BY <1>1, WFMin
<1>3. ASSUME NEW y \in S PROVE x <= y
  <2>1. x \in Nat /\ y \in Nat /\ <<y, x>> \in Nat \X Nat
    OBVIOUS
  <2>2. ~(y < x)
    BY <1>2, <2>1
  <2>3. QED
    BY <2>1, <2>2
<1>4. QED
  BY <1>3

LEMMA NextFile ==
  ASSUME RefreshInv, Visiting
  PROVE  /\ walk # NoWalk /\ WalkTypes /\ WalkOK
         /\ Here \in walk.todo /\ Here \in Files /\ Here \in Nat /\ walk.next < Here
         /\ \A g \in walk.todo \ {Here} : Here < g
<1>1. walk # NoWalk /\ WalkTypes /\ WalkOK
  BY DEF RefreshInv, Visiting, NoWalk
<1>2. walk.todo \subseteq Files /\ Files \subseteq Nat
  BY <1>1, WalkAssumption DEF WalkTypes, Files
<1>3. \E f \in walk.todo : \A g \in walk.todo : f <= g
  BY <1>2, LeastExists DEF Visiting
<1>4. Here \in walk.todo /\ \A g \in walk.todo : Here <= g
  BY <1>3 DEF Here
<1>5. ASSUME NEW g \in walk.todo \ {Here} PROVE Here < g
  <2>1. g \in Nat /\ Here \in Nat /\ Here <= g /\ Here # g
    BY <1>2, <1>4
  <2>2. QED
    BY <2>1
<1>6. QED
  BY <1>1, <1>2, <1>4, <1>5 DEF WalkOK

LEMMA RefreshInitially == RefreshInit => RefreshInv
<1> SUFFICES ASSUME RefreshInit PROVE RefreshInv
  OBVIOUS
<1>1. RefreshTypes
  BY DEF RefreshInit, RefreshTypes
<1>2. ~Resume /\ walk = NoWalk
  BY DEF RefreshInit, Resume
<1>3. QED
  BY <1>1, <1>2 DEF RefreshInv, CycleOK

(* A file changes, and is no longer one that nothing changed; a limit      *)
(* changes, and the cycle cannot be continued.                             *)
LEMMA SourceKeeps ==
  ASSUME RefreshInv, \/ \E f \in Files, version \in {0, changes + 2} : Change(f, version)
                     \/ ChangeLimits
  PROVE  RefreshInv'
<1>1. UNCHANGED <<rows, scan, walk, refreshes>>
  BY DEF Change, ChangeLimits, catalogVars
<1>2. /\ steady' \subseteq steady /\ \A f \in steady' : disk'[f] = disk[f]
      /\ limits' \in Nat /\ limits <= limits' /\ (Resume' => Resume) /\ RefreshTypes'
  <2>1. CASE \E f \in Files, version \in {0, changes + 2} : Change(f, version)
    <3>1. PICK f \in Files, version \in {0, changes + 2} : Change(f, version)
      BY <2>1
    <3>2. version \in Nat
      BY <3>1 DEF RefreshInv, RefreshTypes
    <3>3. /\ disk' = [disk EXCEPT ![f] = version] /\ steady' = steady \ {f} /\ changes' = changes + 1
          /\ limits' = limits
      BY <3>1 DEF Change
    <3>4. QED
      BY <1>1, <3>2, <3>3 DEF RefreshInv, RefreshTypes, Resume
  <2>2. CASE ChangeLimits
    <3>1. limits' = limits + 1 /\ changes' = changes + 1 /\ UNCHANGED <<disk, steady>>
      BY <2>2 DEF ChangeLimits
    <3>2. QED
      BY <1>1, <3>1 DEF RefreshInv, RefreshTypes, Resume
  <2>3. QED
    BY <2>1, <2>2
<1>3. CycleOK'
  BY <1>1, <1>2 DEF RefreshInv, CycleOK, InCycle
<1>4. ASSUME WalkTypes, WalkOK PROVE WalkTypes' /\ WalkOK'
  <2>1. WalkTypes'
    BY <1>1, <1>2, <1>4 DEF WalkTypes, RefreshInv, RefreshTypes
  <2>2. WalkOK'
    BY <1>1, <1>2, <1>4 DEF WalkOK, Reached, InCycle
  <2>3. QED
    BY <2>1, <2>2
<1>5. QED
  BY <1>1, <1>2, <1>3, <1>4 DEF RefreshInv

(* A refresh continues the cycle of the one before it, or begins a cycle   *)
(* with a generation that no row has.                                      *)
LEMMA BeginKeeps ==
  ASSUME RefreshInv, Begin
  PROVE  RefreshInv'
<1>1. PICK listed \in {{f \in Files : disk[f] # 0}, {}} :
        walk' = [at |-> "walk", todo |-> {f \in listed : ~Resume \/ f > scan.cursor},
                 next |-> IF Resume THEN scan.cursor ELSE 0,
                 generation |-> IF Resume THEN scan.generation ELSE refreshes + 1,
                 limits |-> limits, existing |-> rows,
                 incomplete |-> (Resume /\ scan.incomplete) \/ listed # {f \in Files : disk[f] # 0},
                 partial |-> listed # {f \in Files : disk[f] # 0},
                 seen |-> {}, news |-> <<>>, scanned |-> 0, count |-> 0, stat |-> 0]
  BY DEF Begin
<1>2. /\ UNCHANGED <<rows, scan, disk, limits, changes>> /\ refreshes' = refreshes + 1
      /\ steady' = IF Resume THEN steady ELSE Files
  BY DEF Begin, catalogVars
<1>3. RefreshTypes' /\ (Resume' <=> Resume)
  BY <1>2 DEF RefreshInv, RefreshTypes, Resume
<1>4. CycleOK'
  BY <1>2, <1>3 DEF RefreshInv, CycleOK, InCycle
<1>5. Files \subseteq Nat \ {0} /\ listed \subseteq Files
  BY WalkAssumption DEF Files
<1>6. /\ walk'.at = "walk" /\ walk'.todo = {f \in listed : ~Resume \/ f > scan.cursor}
      /\ walk'.next = (IF Resume THEN scan.cursor ELSE 0)
      /\ walk'.generation = (IF Resume THEN scan.generation ELSE refreshes + 1)
      /\ walk'.limits = limits /\ walk'.existing = rows /\ walk'.seen = {} /\ walk'.news = <<>>
      /\ walk'.incomplete = ((Resume /\ scan.incomplete) \/ listed # {f \in Files : disk[f] # 0})
      /\ walk'.partial = (listed # {f \in Files : disk[f] # 0})
      /\ walk' = [at |-> walk'.at, todo |-> walk'.todo, next |-> walk'.next, generation |-> walk'.generation,
                  limits |-> walk'.limits, existing |-> walk'.existing, incomplete |-> walk'.incomplete,
                  partial |-> walk'.partial, seen |-> walk'.seen, news |-> walk'.news,
                  scanned |-> walk'.scanned, count |-> walk'.count, stat |-> walk'.stat]
  BY <1>1
<1>7. WalkTypes'
  <2>1. walk'.generation \in 0 .. refreshes' /\ walk'.next \in Nat /\ walk'.limits \in 0 .. limits'
    BY <1>2, <1>6 DEF RefreshInv, RefreshTypes
  <2>2. walk'.todo \subseteq Files /\ {walk'.incomplete, walk'.partial} \subseteq BOOLEAN
    BY <1>5, <1>6 DEF RefreshInv, RefreshTypes
  <2>3. DOMAIN walk'.news = {} /\ walk'.news \in [DOMAIN walk'.news -> [version : Nat, status : RowStatuses]]
    BY <1>6
  <2>4. QED
    BY <1>6, <2>1, <2>2, <2>3 DEF WalkTypes
<1>8. WalkOK'
  <2>1. \A f \in walk'.todo : walk'.next < f
    BY <1>5, <1>6 DEF RefreshInv, RefreshTypes
  <2>2. ASSUME NEW f \in steady'
        PROVE  /\ disk[f] # 0 /\ ~walk'.incomplete /\ f \notin walk'.todo => InCycle(f, walk'.generation)
               /\ InCycle(f, walk'.generation) => disk[f] # 0 /\ rows[f].version = disk[f]
    <3>1. f \in Files /\ f \in Nat
      BY <1>2, <1>5 DEF RefreshInv, RefreshTypes
    <3>2. CASE Resume
      <4>1. /\ walk'.generation = scan.generation /\ f \in steady
            /\ walk'.todo = {g \in listed : g > scan.cursor}
            /\ ~walk'.incomplete => ~scan.incomplete /\ listed = {g \in Files : disk[g] # 0}
        BY <1>2, <1>6, <3>2
      <4>2. /\ disk[f] # 0 /\ f <= scan.cursor /\ ~scan.incomplete => InCycle(f, scan.generation)
            /\ InCycle(f, scan.generation) => disk[f] # 0 /\ rows[f].version = disk[f]
        BY <3>2, <4>1 DEF RefreshInv, CycleOK
      <4>3. ASSUME disk[f] # 0, ~walk'.incomplete, f \notin walk'.todo PROVE f <= scan.cursor
        BY <3>1, <4>1, <4>3 DEF RefreshInv, RefreshTypes
      <4>4. QED
        BY <4>1, <4>2, <4>3
    <3>3. CASE ~Resume
      <4>1. walk'.generation = refreshes + 1 /\ ~InCycle(f, walk'.generation)
        BY <1>6, <3>3 DEF InCycle, RefreshInv, RefreshTypes
      <4>2. QED
        BY <1>6, <3>1, <3>3, <4>1
    <3>4. QED
      BY <3>2, <3>3
  <2>3. DOMAIN walk'.news = {}
    BY <1>6
  <2>4. QED
    BY <1>2, <1>6, <2>1, <2>2, <2>3 DEF WalkOK, Reached, InCycle
<1>9. QED
  BY <1>3, <1>4, <1>7, <1>8 DEF RefreshInv

(* The steps of the walk.                                                  *)
Eta(w) ==
  w = [at |-> w.at, todo |-> w.todo, next |-> w.next, generation |-> w.generation, limits |-> w.limits,
       existing |-> w.existing, incomplete |-> w.incomplete, partial |-> w.partial, seen |-> w.seen,
       news |-> w.news, scanned |-> w.scanned, count |-> w.count, stat |-> w.stat]

LEMMA UnmovedKeeps ==
  ASSUME RefreshInv, Unmoved, walk' = NoWalk \/ (WalkTypes' /\ WalkOK')
  PROVE  RefreshInv'
<1>1. UNCHANGED <<rows, scan, disk, limits, changes, steady, refreshes>>
  BY DEF Unmoved, catalogVars, sourceVars
<1>2. RefreshTypes' /\ CycleOK'
  BY <1>1 DEF RefreshInv, RefreshTypes, CycleOK, Resume, InCycle
<1>3. QED
  BY <1>2 DEF RefreshInv

(* A file is reached: its row is right, or is written from what is there.  *)
LEMMA VisitKeeps ==
  ASSUME RefreshInv, Visiting, Unmoved, disk[Here] # 0, Eta(walk'),
         walk'.at \in {"walk", "read", "commit"}, walk'.todo = walk.todo \ {Here},
         walk'.next \in {walk.next, Here}, walk'.generation = walk.generation, walk'.limits = walk.limits,
         walk'.existing = walk.existing, walk'.incomplete = walk.incomplete, walk'.partial \in BOOLEAN,
         walk'.at = "commit" => walk'.partial, walk'.seen = walk.seen \cup {Here},
         \/ walk'.at # "read" /\ walk'.news = walk.news /\ Known(Here)
         \/ /\ \E status \in RowStatuses : walk'.news = Record(Here, disk[Here], status)
            /\ walk'.at = "read" => walk'.stat = Here
  PROVE  RefreshInv'
<1>1. UNCHANGED <<rows, disk, limits, steady, refreshes>>
  BY DEF Unmoved, catalogVars, sourceVars
<1>2. /\ walk # NoWalk /\ WalkTypes /\ WalkOK /\ Here \in walk.todo /\ Here \in Files /\ Here \in Nat
      /\ walk.next < Here /\ (\A g \in walk.todo \ {Here} : Here < g) /\ disk[Here] \in Nat
  BY NextFile DEF RefreshInv, RefreshTypes
<1> DEFINE h == Here
           n == walk'.news
<1>3. /\ DOMAIN n \subseteq walk.seen \cup {h} /\ n \in [DOMAIN n -> [version : Nat, status : RowStatuses]]
      /\ \A f \in DOMAIN n \ {h} : f \in DOMAIN walk.news /\ n[f].version = walk.news[f].version
      /\ DOMAIN walk.news \subseteq DOMAIN n
      /\ h \in DOMAIN n => n[h].version = disk[h] \/ (n = walk.news /\ Known(h))
      /\ h \notin DOMAIN n => Known(h)
  <2>1. CASE n = walk.news /\ Known(h)
    BY <1>2, <2>1 DEF WalkTypes
  <2>2. CASE \E status \in RowStatuses : n = Record(h, disk[h], status)
    <3>1. PICK status \in RowStatuses : n = Record(h, disk[h], status)
      BY <2>2
    <3>2. /\ DOMAIN n = DOMAIN walk.news \cup {h} /\ n[h] = [version |-> disk[h], status |-> status]
          /\ \A f \in DOMAIN walk.news \ {h} : n[f] = walk.news[f]
          /\ n = [f \in DOMAIN n |-> n[f]]
      BY <3>1 DEF Record
    <3>3. QED
      BY <1>2, <3>2, SMTT(30) DEF WalkTypes
  <2>3. QED
    BY <2>1, <2>2
<1>4. Known(h) => h \in DOMAIN rows /\ rows[h].version = disk[h]
  BY <1>2 DEF Known, WalkOK
<1>5. walk'.at = "read" => walk'.stat \in DOMAIN n
  BY DEF Record
<1> HIDE DEF h, n
<1>6. WalkTypes'
  <2>1. walk'.next \in Nat /\ walk'.todo \subseteq Files /\ walk'.seen \subseteq Files /\ DOMAIN walk'.news \subseteq walk'.seen
    BY <1>2, <1>3 DEF WalkTypes, h, n
  <2>2. walk'.generation \in 0 .. refreshes' /\ walk'.limits \in 0 .. limits' /\ {walk'.incomplete, walk'.partial} \subseteq BOOLEAN
    BY <1>1, <1>2 DEF WalkTypes
  <2>3. QED
    BY <1>3, <1>5, <2>1, <2>2 DEF WalkTypes, Eta, n
<1>7. WalkOK'
  <2>1. \A f \in walk'.todo : walk'.next < f
    <3>1. SUFFICES ASSUME NEW f \in walk.todo \ {Here} PROVE walk.next < f /\ Here < f
      OBVIOUS
    <3>2. QED
      BY <1>2 DEF WalkOK
  <2>2. ~(walk'.at = "commit" /\ ~walk'.partial)
    OBVIOUS
  <2>3. ASSUME NEW f \in steady
        PROVE  /\ disk[f] # 0 /\ ~walk'.incomplete /\ f \notin walk'.todo => Reached(f)'
               /\ Reached(f)' => disk[f] # 0
               /\ InCycle(f, walk'.generation) => rows[f].version = disk[f]
               /\ f \in DOMAIN walk'.news => walk'.news[f].version = disk[f]
               /\ f \in walk'.seen \ DOMAIN walk'.news => f \in DOMAIN rows /\ rows[f].version = disk[f]
    <3>1. /\ disk[f] # 0 /\ ~walk.incomplete /\ f \notin walk.todo => Reached(f)
          /\ Reached(f) => disk[f] # 0
          /\ InCycle(f, walk.generation) => rows[f].version = disk[f]
          /\ f \in DOMAIN walk.news => walk.news[f].version = disk[f]
          /\ f \in walk.seen \ DOMAIN walk.news => f \in DOMAIN rows /\ rows[f].version = disk[f]
      BY <1>2, <2>3 DEF WalkOK
    <3>2. Reached(f)' <=> Reached(f) \/ f = h
      BY <1>1 DEF Reached, InCycle, h
    <3>3. /\ disk[f] # 0 /\ ~walk'.incomplete /\ f \notin walk'.todo => Reached(f)'
          /\ Reached(f)' => disk[f] # 0
      BY <3>1, <3>2 DEF h
    <3>4. f \in DOMAIN n => n[f].version = disk[f]
      BY <1>3, <1>4, <3>1
    <3>5. f \in walk'.seen \ DOMAIN n => f \in DOMAIN rows /\ rows[f].version = disk[f]
      BY <1>3, <1>4, <3>1 DEF h
    <3>6. QED
      BY <3>1, <3>3, <3>4, <3>5 DEF n
  <2>4. walk'.existing = rows'
    BY <1>1, <1>2 DEF WalkOK
  <2>5. QED
    BY <1>1, <2>1, <2>2, <2>3, <2>4 DEF WalkOK, InCycle
<1>8. QED
  BY <1>6, <1>7, UnmovedKeeps

LEMMA ReachingKeeps ==
  ASSUME RefreshInv, Unchanged \/ Oversized \/ Defer \/ Open
  PROVE  RefreshInv'
<1>1. Visiting /\ disk[Here] # 0 /\ Unmoved
  BY DEF Unchanged, Oversized, Defer, Open, Stat
<1>2. Eta(walk) /\ walk.at = "walk" /\ walk.partial \in BOOLEAN
  BY <1>1, NextFile DEF WalkTypes, Eta, Visiting
<1>3. {"settled", "deferred", "active-writing"} \subseteq RowStatuses
  BY DEF RowStatuses, Retryable
<1> DEFINE h == Here
<1>4. CASE Unchanged
  <2>1. walk' = [walk EXCEPT !.todo = walk.todo \ {h}, !.next = h, !.count = walk.count + 1, !.seen = walk.seen \cup {h}]
    BY <1>4 DEF Unchanged, Visit
  <2>2. Known(Here)
    BY <1>4 DEF Unchanged
  <2> HIDE DEF h
  <2>3. /\ Eta(walk') /\ walk'.at = "walk" /\ walk'.todo = walk.todo \ {h} /\ walk'.next = h
        /\ walk'.generation = walk.generation /\ walk'.limits = walk.limits /\ walk'.existing = walk.existing
        /\ walk'.incomplete = walk.incomplete /\ walk'.partial = walk.partial
        /\ walk'.seen = walk.seen \cup {h} /\ walk'.news = walk.news
    BY <1>2, <2>1 DEF Eta
  <2>4. QED
    BY <1>1, <1>2, <2>2, <2>3, VisitKeeps DEF h
<1>5. CASE Oversized
  <2>1. walk' = [walk EXCEPT !.todo = walk.todo \ {h}, !.next = h, !.count = walk.count + 1, !.seen = walk.seen \cup {h},
                             !.news = Record(Here, disk[Here], "settled")]
    BY <1>2, <1>5 DEF Oversized, Visit, Eta
  <2> HIDE DEF h
  <2>2. /\ Eta(walk') /\ walk'.at = "walk" /\ walk'.todo = walk.todo \ {h} /\ walk'.next = h
        /\ walk'.generation = walk.generation /\ walk'.limits = walk.limits /\ walk'.existing = walk.existing
        /\ walk'.incomplete = walk.incomplete /\ walk'.partial = walk.partial
        /\ walk'.seen = walk.seen \cup {h} /\ walk'.news = Record(Here, disk[Here], "settled")
    BY <1>2, <2>1 DEF Eta
  <2>3. QED
    BY <1>1, <1>2, <1>3, <2>2, VisitKeeps DEF h
<1>6. CASE Defer
  <2>1. walk' = [walk EXCEPT !.todo = walk.todo \ {h}, !.next = walk.next, !.count = walk.count + 1,
                             !.seen = walk.seen \cup {h}, !.news = Record(Here, disk[Here], "deferred"),
                             !.partial = TRUE, !.at = "commit"]
    BY <1>2, <1>6 DEF Defer, Visit, Eta
  <2> HIDE DEF h
  <2>2. /\ Eta(walk') /\ walk'.at = "commit" /\ walk'.todo = walk.todo \ {h} /\ walk'.next = walk.next
        /\ walk'.generation = walk.generation /\ walk'.limits = walk.limits /\ walk'.existing = walk.existing
        /\ walk'.incomplete = walk.incomplete /\ walk'.partial = TRUE
        /\ walk'.seen = walk.seen \cup {h} /\ walk'.news = Record(Here, disk[Here], "deferred")
    BY <1>2, <2>1 DEF Eta
  <2>3. QED
    BY <1>1, <1>2, <1>3, <2>2, VisitKeeps DEF h
<1>7. CASE Open
  <2>1. walk' = [walk EXCEPT !.todo = walk.todo \ {h}, !.next = h, !.count = walk.count + 1,
                             !.seen = walk.seen \cup {h}, !.at = "read", !.stat = h,
                             !.scanned = walk.scanned + Size[h],
                             !.news = Record(Here, disk[Here], "active-writing")]
    BY <1>2, <1>7 DEF Open, Visit, Eta
  <2> HIDE DEF h
  <2>2. /\ Eta(walk') /\ walk'.at = "read" /\ walk'.todo = walk.todo \ {h} /\ walk'.next = h
        /\ walk'.generation = walk.generation /\ walk'.limits = walk.limits /\ walk'.existing = walk.existing
        /\ walk'.incomplete = walk.incomplete /\ walk'.partial = walk.partial /\ walk'.stat = h
        /\ walk'.seen = walk.seen \cup {h} /\ walk'.news = Record(Here, disk[Here], "active-writing")
    BY <1>2, <2>1 DEF Eta
  <2>3. QED
    BY <1>1, <1>2, <1>3, <2>2, VisitKeeps DEF h
<1>8. QED
  BY <1>4, <1>5, <1>6, <1>7

(* The steps that reach no file: the walk is broken off or ends, a file    *)
(* cannot be examined, what was read is judged.                            *)
LEMMA PassingKeeps ==
  ASSUME RefreshInv, BreakOff \/ CannotStat \/ WalkEnds \/ Close \/ Abandon
  PROVE  RefreshInv'
<1>1. Unmoved /\ UNCHANGED <<rows, disk, limits, steady, refreshes>>
  BY DEF BreakOff, CannotStat, WalkEnds, Close, Abandon, Unmoved, catalogVars, sourceVars
<1>2. CASE Abandon
  BY <1>1, <1>2, UnmovedKeeps DEF Abandon
<1>3. CASE BreakOff \/ CannotStat \/ WalkEnds \/ Close
  <2>0. walk # NoWalk
    <3>1. CASE BreakOff \/ CannotStat \/ WalkEnds
      <4>1. walk.at = "walk"
        BY <3>1 DEF BreakOff, CannotStat, WalkEnds, Visiting
      <4>2. QED
        BY <4>1 DEF NoWalk
    <3>2. CASE Close
      <4>1. walk.at = "read"
        BY <3>2 DEF Close
      <4>2. QED
        BY <4>1 DEF NoWalk
    <3>3. QED
      BY <1>3, <3>1, <3>2
  <2>1. WalkTypes /\ WalkOK /\ Eta(walk)
    <3>1. WalkTypes /\ WalkOK
      BY <2>0 DEF RefreshInv
    <3>2. Eta(walk)
      BY <3>1 DEF WalkTypes, Eta
    <3>3. QED
      BY <3>1, <3>2
  <2>2. CASE BreakOff \/ WalkEnds
    <3>1. walk' = [walk EXCEPT !.at = "commit", !.partial = TRUE] \/ (walk' = [walk EXCEPT !.at = "commit"] /\ walk.todo = {})
      BY <2>2 DEF BreakOff, WalkEnds
    <3>2. /\ Eta(walk') /\ walk'.at = "commit" /\ walk'.todo = walk.todo /\ walk'.next = walk.next
          /\ walk'.generation = walk.generation /\ walk'.limits = walk.limits /\ walk'.existing = walk.existing
          /\ walk'.incomplete = walk.incomplete /\ walk'.partial \in {TRUE, walk.partial}
          /\ walk'.seen = walk.seen /\ walk'.news = walk.news /\ (walk'.partial \/ walk'.todo = {})
      BY <2>1, <3>1 DEF Eta
    <3>3. WalkTypes'
      BY <1>1, <2>1, <3>2 DEF WalkTypes, Eta
    <3>4. WalkOK'
      BY <1>1, <2>1, <3>2 DEF WalkOK, Reached, InCycle
    <3>5. QED
      BY <1>1, <3>3, <3>4, UnmovedKeeps
  <2>3. CASE CannotStat
    <3> DEFINE h == Here
    <3>1. walk' = [walk EXCEPT !.todo = walk.todo \ {h}, !.incomplete = TRUE, !.next = h] /\ walk.at = "walk" /\ Visiting
      BY <2>3 DEF CannotStat, Visiting
    <3>2. h \in Nat /\ walk.next < h /\ \A g \in walk.todo \ {h} : h < g
      BY <3>1, NextFile
    <3> HIDE DEF h
    <3>3. /\ Eta(walk') /\ walk'.at = "walk" /\ walk'.todo = walk.todo \ {h} /\ walk'.next = h
          /\ walk'.generation = walk.generation /\ walk'.limits = walk.limits /\ walk'.existing = walk.existing
          /\ walk'.incomplete = TRUE /\ walk'.partial = walk.partial
          /\ walk'.seen = walk.seen /\ walk'.news = walk.news
      BY <2>1, <3>1 DEF Eta
    <3>4. WalkTypes'
      BY <1>1, <2>1, <3>2, <3>3 DEF WalkTypes, Eta
    <3>5. WalkOK'
      BY <1>1, <2>1, <3>2, <3>3 DEF WalkOK, Reached, InCycle
    <3>6. QED
      BY <1>1, <3>4, <3>5, UnmovedKeeps
  <2>4. CASE Close
    <3>1. PICK status \in ReadResult(walk.stat) : walk' = [walk EXCEPT !.at = "walk", !.news[walk.stat].status = status]
      BY <2>4 DEF Close
    <3>2. walk.at = "read" /\ walk.stat \in DOMAIN walk.news /\ status \in RowStatuses
      BY <2>1, <2>4, <3>1 DEF Close, WalkTypes, ReadResult, RowStatuses, Retryable
    <3> DEFINE n == [walk.news EXCEPT ![walk.stat].status = status]
    <3>3. /\ Eta(walk') /\ walk'.at = "walk" /\ walk'.todo = walk.todo /\ walk'.next = walk.next
          /\ walk'.generation = walk.generation /\ walk'.limits = walk.limits /\ walk'.existing = walk.existing
          /\ walk'.incomplete = walk.incomplete /\ walk'.partial = walk.partial
          /\ walk'.seen = walk.seen /\ walk'.news = n
      BY <2>1, <3>1 DEF Eta
    <3>4. /\ DOMAIN n = DOMAIN walk.news /\ n \in [DOMAIN n -> [version : Nat, status : RowStatuses]]
          /\ \A f \in DOMAIN n : n[f].version = walk.news[f].version
      BY <2>1, <3>2 DEF WalkTypes
    <3> HIDE DEF n
    <3>5. WalkTypes'
      BY <1>1, <2>1, <3>3, <3>4 DEF WalkTypes, Eta
    <3>6. WalkOK'
      BY <1>1, <2>1, <3>3, <3>4 DEF WalkOK, Reached, InCycle
    <3>7. QED
      BY <1>1, <3>5, <3>6, UnmovedKeeps
  <2>5. QED
    BY <1>3, <2>2, <2>3, <2>4
<1>4. QED
  BY <1>2, <1>3


(* What the transaction leaves of each row.                                *)
LEMMA MergedRows ==
  ASSUME RefreshInv, walk # NoWalk
  PROVE  /\ WalkTypes /\ WalkOK
         /\ DOMAIN Merged = DOMAIN rows \cup DOMAIN walk.news /\ DOMAIN Merged \subseteq Files
         /\ \A f \in DOMAIN Merged : Merged[f].generation \in 0 .. refreshes /\ Merged[f].status \in RowStatuses
         /\ \A f \in steady :
              /\ f \in DOMAIN Merged /\ Merged[f].generation = walk.generation <=> Reached(f)
              /\ Reached(f) => Merged[f].version = disk[f] /\ disk[f] # 0
<1>1. WalkTypes /\ WalkOK /\ RefreshTypes
  BY DEF RefreshInv
<1>2. DOMAIN Merged = DOMAIN rows \cup DOMAIN walk.news
  BY DEF Merged
<1>3. ASSUME NEW f \in DOMAIN Merged
      PROVE  /\ Merged[f].version = IF f \in DOMAIN walk.news THEN walk.news[f].version ELSE rows[f].version
             /\ Merged[f].status = IF f \in DOMAIN walk.news THEN walk.news[f].status ELSE rows[f].status
             /\ Merged[f].generation = IF f \in walk.seen THEN walk.generation ELSE rows[f].generation
  BY DEF Merged
<1>4. DOMAIN walk.news \subseteq walk.seen /\ walk.seen \subseteq Files /\ DOMAIN rows \subseteq Files
  BY <1>1 DEF WalkTypes, RefreshTypes
<1>5. ASSUME NEW f \in DOMAIN Merged
      PROVE  Merged[f].generation \in 0 .. refreshes /\ Merged[f].status \in RowStatuses
  <2>1. CASE f \in DOMAIN walk.news
    <3>1. walk.news[f].status \in RowStatuses /\ f \in walk.seen /\ walk.generation \in 0 .. refreshes
      BY <1>1, <1>4, <2>1 DEF WalkTypes
    <3>2. QED
      BY <1>3, <2>1, <3>1
  <2>2. CASE f \notin DOMAIN walk.news
    <3>1. /\ f \in DOMAIN rows /\ rows[f].status \in RowStatuses /\ rows[f].generation \in 0 .. refreshes
          /\ walk.generation \in 0 .. refreshes
      BY <1>1, <1>2, <2>2 DEF WalkTypes, RefreshTypes
    <3>2. QED
      BY <1>3, <2>2, <3>1
  <2>3. QED
    BY <2>1, <2>2
<1>6. ASSUME NEW f \in steady
      PROVE  /\ f \in DOMAIN Merged /\ Merged[f].generation = walk.generation <=> Reached(f)
             /\ Reached(f) => Merged[f].version = disk[f] /\ disk[f] # 0
  <2>1. /\ Reached(f) => disk[f] # 0
        /\ InCycle(f, walk.generation) => rows[f].version = disk[f]
        /\ f \in DOMAIN walk.news => walk.news[f].version = disk[f]
        /\ f \in walk.seen \ DOMAIN walk.news => f \in DOMAIN rows /\ rows[f].version = disk[f]
    BY <1>1 DEF WalkOK
  <2>2. CASE f \in walk.seen
    <3>1. f \in DOMAIN Merged /\ Reached(f)
      BY <1>2, <2>1, <2>2 DEF Reached
    <3>2. QED
      BY <1>3, <2>1, <2>2, <3>1
  <2>3. CASE f \notin walk.seen
    <3>1. f \notin DOMAIN walk.news /\ (Reached(f) <=> InCycle(f, walk.generation))
      BY <1>4, <2>3 DEF Reached
    <3>2. QED
      BY <1>2, <1>3, <2>1, <2>3, <3>1 DEF InCycle
  <2>4. QED
    BY <2>2, <2>3
<1>7. QED
  BY <1>1, <1>2, <1>4, <1>5, <1>6 DEF WalkTypes

(* The transaction: the next refresh finds what CycleOK says, and the      *)
(* rows are what CatalogIsTrue says.                                       *)
LEMMA CommitKeeps ==
  ASSUME RefreshInv, Commit
  PROVE  RefreshInv'
<1>1. walk # NoWalk /\ walk.at = "commit"
  BY DEF Commit, NoWalk
<1>2. /\ rows' = Restrict(Merged, Kept) /\ walk' = NoWalk
      /\ scan'.generation = walk.generation /\ scan'.cursor = (IF walk.partial THEN walk.next ELSE 0)
      /\ scan'.limits = walk.limits /\ scan'.incomplete = walk.incomplete
      /\ UNCHANGED <<disk, limits, changes, steady, refreshes>>
  BY DEF Commit, sourceVars
<1>3. Kept \subseteq DOMAIN Merged /\ (walk.partial => Kept = DOMAIN Merged)
  BY DEF Kept, RemoveGone
<1>4. DOMAIN rows' = Kept /\ \A f \in Kept : rows'[f] = Merged[f]
  BY <1>2 DEF Restrict
<1>5. RefreshTypes'
  <2>1. walk.generation \in 0 .. refreshes /\ walk.next \in Nat /\ walk.limits \in 0 .. limits /\ walk.incomplete \in BOOLEAN
    BY <1>1, MergedRows DEF WalkTypes
  <2>2. DOMAIN rows' \subseteq Files
    BY <1>1, <1>3, <1>4, MergedRows
  <2>3. \A f \in DOMAIN rows' : rows'[f].generation \in 0 .. refreshes /\ rows'[f].status \in RowStatuses
    BY <1>1, <1>3, <1>4, MergedRows
  <2>4. scan'.cursor \in Nat
    BY <1>2, <2>1
  <2>5. QED
    BY <1>2, <2>1, <2>2, <2>3, <2>4 DEF RefreshInv, RefreshTypes
<1>6. CycleOK'
  <2> SUFFICES ASSUME Resume', NEW f \in steady
               PROVE  /\ disk[f] # 0 /\ f <= scan'.cursor /\ ~scan'.incomplete => InCycle(f, scan.generation)'
                      /\ InCycle(f, scan.generation)' => disk[f] # 0 /\ rows'[f].version = disk[f]
    BY <1>2 DEF CycleOK, InCycle
  <2>1. scan'.cursor = walk.next /\ Kept = DOMAIN Merged
    BY <1>2, <1>3 DEF Resume
  <2>2. InCycle(f, scan.generation)' <=> Reached(f)
    BY <1>1, <1>2, <1>4, <2>1, MergedRows DEF InCycle
  <2>3. Reached(f) => rows'[f].version = disk[f] /\ disk[f] # 0
    BY <1>1, <1>4, <2>1, MergedRows
  <2>4. f \in Nat /\ walk.next \in Nat /\ walk.todo \subseteq Nat
    BY <1>1, MergedRows, WalkAssumption, SMTT(30) DEF RefreshInv, RefreshTypes, WalkTypes, Files
  <2>5. ASSUME disk[f] # 0, f <= scan'.cursor, ~scan'.incomplete PROVE Reached(f)
    <3>1. WalkOK
      BY <1>1, MergedRows
    <3>2. f \notin walk.todo
      BY <2>1, <2>4, <2>5, <3>1 DEF WalkOK
    <3>3. QED
      BY <1>2, <2>5, <3>1, <3>2 DEF WalkOK
  <2>6. QED
    BY <2>2, <2>3, <2>5
<1>7. QED
  BY <1>2, <1>5, <1>6 DEF RefreshInv

LEMMA RefreshStepKeeps ==
  RefreshInv /\ [RefreshNext]_refreshVars => RefreshInv'
<1> SUFFICES ASSUME RefreshInv, [RefreshNext]_refreshVars PROVE RefreshInv'
  OBVIOUS
<1>1. CASE (\E f \in Files, version \in {0, changes + 2} : Change(f, version)) \/ ChangeLimits
  BY <1>1, SourceKeeps
<1>2. CASE Begin
  BY <1>2, BeginKeeps
<1>3. CASE Unchanged \/ Oversized \/ Defer \/ Open
  BY <1>3, ReachingKeeps
<1>4. CASE BreakOff \/ CannotStat \/ WalkEnds \/ Close \/ Abandon
  BY <1>4, PassingKeeps
<1>5. CASE Commit
  BY <1>5, CommitKeeps
<1>6. CASE UNCHANGED refreshVars
  <2>1. UNCHANGED <<rows, scan, disk, limits, changes, steady, walk, refreshes>>
    BY <1>6 DEF refreshVars, catalogVars, sourceVars
  <2>2. RefreshTypes' /\ CycleOK'
    BY <2>1 DEF RefreshInv, RefreshTypes, CycleOK, Resume, InCycle
  <2>3. WalkTypes /\ WalkOK => WalkTypes' /\ WalkOK'
    BY <2>1 DEF WalkTypes, WalkOK, Reached, InCycle
  <2>4. QED
    BY <2>1, <2>2, <2>3 DEF RefreshInv, NoWalk
<1>7. QED
  BY <1>1, <1>2, <1>3, <1>4, <1>5, <1>6 DEF RefreshNext, WalkStep

(* Only the transaction changes the rows or what a refresh has left.       *)
LEMMA OnlyCommitWrites ==
  ASSUME [RefreshNext]_refreshVars, ~Commit
  PROVE  UNCHANGED catalogVars
BY DEF RefreshNext, WalkStep, Change, ChangeLimits, Begin, BreakOff, CannotStat, Unchanged, Oversized,
       Defer, Open, Close, WalkEnds, Abandon, Unmoved, refreshVars

(* CatalogIsTrue, for any number of files, sizes, limits and refreshes: a  *)
(* refresh that reports "complete" leaves the catalog right about every    *)
(* file that nothing changed during its cycle (store_scan), and no refresh *)
(* removes the row of a file that was there all along.                     *)
THEOREM CatalogStaysTrue == RefreshSpec => CatalogIsTrue
<1> DEFINE Right ==
      /\ scan' # scan /\ ~scan'.partial =>
           \A f \in steady :
             /\ f \in DOMAIN rows' <=> disk[f] # 0
             /\ f \in DOMAIN rows' => rows'[f].version = disk[f] /\ rows'[f].status = "settled"
      /\ \A f \in DOMAIN rows \ DOMAIN rows' : f \notin steady \/ disk[f] = 0
<1>1. ASSUME RefreshInv, Commit PROVE Right
  <2>1. walk # NoWalk /\ walk.at = "commit"
    BY <1>1 DEF Commit, NoWalk
  <2>2. /\ rows' = Restrict(Merged, Kept)
        /\ scan'.partial = (walk.partial \/ walk.incomplete \/ \E f \in Kept : Merged[f].status \in Retryable)
    BY <1>1 DEF Commit
  <2>3. DOMAIN rows' = Kept /\ \A f \in Kept : rows'[f] = Merged[f]
    BY <2>2 DEF Restrict
  <2>4. DOMAIN Merged = DOMAIN rows \cup DOMAIN walk.news
    BY <1>1, <2>1, MergedRows
  <2>5. ASSUME RemoveGone, NEW f \in steady
        PROVE  /\ f \in Kept <=> Reached(f)
               /\ Reached(f) <=> disk[f] # 0
               /\ Reached(f) => Merged[f].version = disk[f]
    <3>1. f \in Kept <=> f \in DOMAIN Merged /\ Merged[f].generation = walk.generation
      BY <2>5 DEF Kept
    <3>2. WalkOK /\ walk.todo = {} /\ ~walk.incomplete
      BY <1>1, <2>1, <2>5, MergedRows DEF WalkOK, RemoveGone
    <3>3. disk[f] # 0 => Reached(f)
      BY <3>2 DEF WalkOK
    <3>4. QED
      BY <1>1, <2>1, <3>1, <3>3, MergedRows
  <2>6. ASSUME ~scan'.partial, NEW f \in steady
        PROVE  /\ f \in DOMAIN rows' <=> disk[f] # 0
               /\ f \in DOMAIN rows' => rows'[f].version = disk[f] /\ rows'[f].status = "settled"
    <3>1. RemoveGone /\ \A g \in Kept : Merged[g].status \notin Retryable
      BY <2>2, <2>6 DEF RemoveGone
    <3>2. ASSUME f \in Kept PROVE Merged[f].status = "settled"
      <4>1. f \in DOMAIN Merged
        BY <3>2 DEF Kept
      <4>2. QED
        BY <1>1, <2>1, <3>1, <3>2, <4>1, MergedRows DEF RowStatuses
    <3>3. QED
      BY <2>3, <2>5, <3>1, <3>2
  <2>7. ASSUME NEW f \in DOMAIN rows \ DOMAIN rows' PROVE f \notin steady \/ disk[f] = 0
    <3>1. RemoveGone
      BY <2>3, <2>4, <2>7 DEF Kept
    <3>2. QED
      BY <2>3, <2>5, <2>7, <3>1
  <2>8. QED
    BY <2>6, <2>7
<1>2. RefreshInv /\ [RefreshNext]_refreshVars => Right
  <2>1. ASSUME [RefreshNext]_refreshVars, ~Commit PROVE Right
    BY <2>1, OnlyCommitWrites DEF catalogVars
  <2>2. QED
    BY <1>1, <2>1
<1>3. RefreshInv /\ RefreshInv' /\ [RefreshNext]_refreshVars => [Right]_refreshVars
  BY <1>2
<1>4. QED
  BY <1>3, RefreshInitially, RefreshStepKeeps, PTL DEF RefreshSpec, CatalogIsTrue
==============================================================================
