--------------------------- MODULE CatalogRefresh ---------------------------
(***************************************************************************)
(* The index of one conversation source (agent_catalog.py).  A refresh     *)
(* walks the source in order, within limits, and commits what it saw in    *)
(* one transaction; a walk that stops early is continued by the next       *)
(* refresh from a cursor.  The refreshes that continue one another are a   *)
(* cycle, and have its generation.  The agents go on writing the files.    *)
(*                                                                         *)
(* A file is its place in the walk, and its identity, size and time are    *)
(* one version number, 0 if it is absent.  All files are in one folder,    *)
(* which a refresh lists once.  What the parser finds in a file is left    *)
(* out: a row is settled, or is to be read again by a later refresh.  The  *)
(* maintenance lock (CatalogStorage) admits one refresh at a time.         *)
(***************************************************************************)
EXTENDS Integers, FiniteSets, Functions

CONSTANTS
  FileCount,
  Size,           \* the size of each file
  MaxFiles,       \* max_files
  MaxScan,        \* max_scan_bytes
  MaxRefreshes, MaxChanges   \* bounds: refreshes begun, changes of files and limits

Files == 1 .. FileCount

ASSUME WalkAssumption ==
  FileCount \in Nat /\ Size \in [Files -> Nat] /\ MaxFiles \in Nat \ {0} /\ MaxScan \in Nat \ {0}

VARIABLES
  disk,      \* the version of each file
  limits,    \* the fingerprint of the source's limits
  rows,      \* catalog_files: version, status and scan_generation of each row
  scan,      \* catalog_refreshes: what the last refresh left
  walk,      \* the refresh in progress
  changes, refreshes,   \* counts for the bounds
  steady     \* history: files that nothing has changed since the cycle began

catalogVars == <<rows, scan>>
sourceVars == <<disk, limits, changes, steady>>
refreshVars == <<catalogVars, sourceVars, walk, refreshes>>

NoWalk == [at |-> "idle"]
Retryable == {"deferred", "active-writing", "read-failed"}

RefreshInit ==
  /\ disk \in [Files -> {0, 1}] /\ limits = 1
  /\ rows = <<>>
  /\ scan = [generation |-> 0, cursor |-> 0, limits |-> 0, incomplete |-> FALSE, partial |-> TRUE]
  /\ walk = NoWalk /\ changes = 0 /\ refreshes = 0 /\ steady = Files
-----------------------------------------------------------------------------
(* The agents create, extend and delete files; the owner changes a limit.  *)

Change(f, version) ==
  /\ changes < MaxChanges /\ version # disk[f]
  /\ disk' = [disk EXCEPT ![f] = version]
  /\ steady' = steady \ {f} /\ changes' = changes + 1
  /\ UNCHANGED <<catalogVars, limits, walk, refreshes>>

ChangeLimits ==
  /\ changes < MaxChanges
  /\ limits' = limits + 1 /\ changes' = changes + 1
  /\ UNCHANGED <<catalogVars, disk, steady, walk, refreshes>>
-----------------------------------------------------------------------------
(* The walk.  "seen" are the files whose rows get the generation, "news"   *)
(* the rows to write, "next" the cursor to leave, "stat" a file in hand.   *)

Resume == scan.cursor # 0 /\ scan.limits = limits

Begin ==
  /\ walk.at = "idle" /\ refreshes < MaxRefreshes
  /\ \E listed \in {{f \in Files : disk[f] # 0}, {}} :
       walk' = [at |-> "walk", todo |-> {f \in listed : ~Resume \/ f > scan.cursor},
                next |-> IF Resume THEN scan.cursor ELSE 0,
                generation |-> IF Resume THEN scan.generation ELSE refreshes + 1,
                limits |-> limits, existing |-> rows,
                incomplete |-> (Resume /\ scan.incomplete) \/ listed # {f \in Files : disk[f] # 0},
                partial |-> listed # {f \in Files : disk[f] # 0},
                seen |-> {}, news |-> <<>>, scanned |-> 0, count |-> 0, stat |-> 0]
  /\ refreshes' = refreshes + 1
  /\ steady' = IF Resume THEN steady ELSE Files
  /\ UNCHANGED <<catalogVars, disk, limits, changes>>

Here == CHOOSE f \in walk.todo : \A g \in walk.todo : f <= g
Visiting == walk.at = "walk" /\ walk.todo # {}
Record(f, version, status) ==
  [g \in DOMAIN walk.news \cup {f} |->
     IF g = f THEN [version |-> version, status |-> status] ELSE walk.news[g]]

Unmoved == UNCHANGED <<catalogVars, sourceVars, refreshes>>

(* The deadline, the entry limit, or max_files.                            *)
BreakOff ==
  /\ Visiting
  /\ walk' = [walk EXCEPT !.at = "commit", !.partial = TRUE]
  /\ Unmoved

(* The file cannot be examined, for instance because it is gone.           *)
CannotStat ==
  /\ Visiting /\ walk.count < MaxFiles
  /\ walk' = [walk EXCEPT !.todo = @ \ {Here}, !.incomplete = TRUE, !.next = Here]
  /\ Unmoved

Known(f) ==
  /\ f \in DOMAIN walk.existing
  /\ walk.existing[f].version = disk[f] /\ walk.existing[f].status = "settled"

Visit(f) == [walk EXCEPT !.todo = @ \ {f}, !.next = f, !.count = @ + 1, !.seen = @ \cup {f}]
Stat == Visiting /\ walk.count < MaxFiles /\ disk[Here] # 0

Unchanged ==
  /\ Stat /\ Known(Here)
  /\ walk' = Visit(Here)
  /\ Unmoved

(* Larger than a whole refresh may read, or than a file may be.            *)
Oversized ==
  /\ Stat /\ ~Known(Here) /\ Size[Here] > MaxScan
  /\ walk' = [Visit(Here) EXCEPT !.news = Record(Here, disk[Here], "settled")]
  /\ Unmoved

Defer ==
  /\ Stat /\ ~Known(Here) /\ Size[Here] <= MaxScan /\ walk.scanned + Size[Here] > MaxScan
  /\ walk' = [Visit(Here) EXCEPT !.news = Record(Here, disk[Here], "deferred"),
                                 !.next = walk.next, !.partial = TRUE, !.at = "commit"]
  /\ Unmoved

Open ==
  /\ Stat /\ ~Known(Here) /\ walk.scanned + Size[Here] <= MaxScan
  /\ walk' = [Visit(Here) EXCEPT !.at = "read", !.stat = Here, !.scanned = @ + Size[Here],
                                 !.news = Record(Here, disk[Here], "active-writing")]
  /\ Unmoved

(* The file is examined once more when it has been read.                   *)
ReadResult(f) ==
  {"read-failed"} \cup
  (IF disk[f] = walk.news[f].version THEN {"settled"}
   ELSE IF disk[f] # 0 THEN {"active-writing"} ELSE {})

Close ==
  /\ walk.at = "read"
  /\ \E status \in ReadResult(walk.stat) :
       walk' = [walk EXCEPT !.at = "walk", !.news[walk.stat].status = status]
  /\ Unmoved

WalkEnds ==
  /\ walk.at = "walk" /\ walk.todo = {}
  /\ walk' = [walk EXCEPT !.at = "commit"]
  /\ Unmoved
-----------------------------------------------------------------------------
(* The transaction, and its abandonment: a cancelled job, an error, or the *)
(* end of the process leave the catalog as it was.                         *)

Merged ==
  [f \in DOMAIN rows \cup DOMAIN walk.news |->
     [version    |-> IF f \in DOMAIN walk.news THEN walk.news[f].version ELSE rows[f].version,
      status     |-> IF f \in DOMAIN walk.news THEN walk.news[f].status ELSE rows[f].status,
      generation |-> IF f \in walk.seen THEN walk.generation ELSE rows[f].generation]]

RemoveUnseen == ~walk.partial   \* fault: files that could not be examined count as gone
RemoveGone == ~walk.partial /\ ~walk.incomplete

Kept == IF RemoveGone THEN {f \in DOMAIN Merged : Merged[f].generation = walk.generation} ELSE DOMAIN Merged

Commit ==
  /\ walk.at = "commit"
  /\ rows' = Restrict(Merged, Kept)
  /\ scan' = [generation |-> walk.generation, cursor |-> IF walk.partial THEN walk.next ELSE 0,
              limits |-> walk.limits, incomplete |-> walk.incomplete,
              partial |-> walk.partial \/ walk.incomplete
                          \/ \E f \in Kept : Merged[f].status \in Retryable]
  /\ walk' = NoWalk
  /\ UNCHANGED <<sourceVars, refreshes>>

Abandon ==
  /\ walk.at # "idle"
  /\ walk' = NoWalk
  /\ Unmoved

WalkStep == \/ Begin \/ BreakOff \/ CannotStat \/ Unchanged \/ Oversized \/ Defer \/ Open \/ Close
            \/ WalkEnds \/ Commit \/ Abandon

RefreshNext ==
  \/ (\E f \in Files, version \in {0, changes + 2} : Change(f, version))
  \/ ChangeLimits \/ WalkStep

RefreshSpec == RefreshInit /\ [][RefreshNext]_refreshVars
-----------------------------------------------------------------------------
(* A refresh that reports "complete" ends a cycle after which the catalog  *)
(* is right about every file that nothing changed while the cycle lasted,  *)
(* however many refreshes it took: it is in the catalog, read at its       *)
(* present version, if and only if it exists.  And no refresh, complete or *)
(* not, removes the row of a file that existed all through the cycle.      *)
CatalogIsTrue ==
  [][/\ scan' # scan /\ ~scan'.partial =>
          \A f \in steady :
            /\ f \in DOMAIN rows' <=> disk[f] # 0
            /\ f \in DOMAIN rows' => rows'[f].version = disk[f] /\ rows'[f].status = "settled"
     /\ \A f \in DOMAIN rows \ DOMAIN rows' : f \notin steady \/ disk[f] = 0]_refreshVars
=============================================================================
