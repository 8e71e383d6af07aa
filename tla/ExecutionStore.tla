--------------------------- MODULE ExecutionStore ---------------------------
(***************************************************************************)
(* One producer of execution records (execution_store.py): the threads     *)
(* that publish events into two bounded queues, the writer thread that     *)
(* drains them into segment files, the accounting of what is lost, and the *)
(* calls that close the store.                                             *)
(*                                                                         *)
(* An event is its sequence number and its kind; sizes, retention and the  *)
(* budget shared with other producers are reasons for a write to fail; the *)
(* eviction of old segments, which retention.json reports, is left out.    *)
(* The range of sequence numbers that a loss event also names is left out. *)
(* Definitions marked "fault" are mutants and no part of the system.       *)
(***************************************************************************)
EXTENDS Integers, FiniteSets, Sequences

CONSTANTS
  Closers,        \* threads that call close()
  NormalItems, CriticalItems,  \* limits of the two queues
  MaxSeq,         \* bound: events numbered before the ones of close()
  MaxDrops        \* bound: drops beyond which no producer drops another

ASSUME LimitAssumption ==
  NormalItems \in Nat /\ CriticalItems \in Nat /\ MaxSeq \in Nat /\ MaxDrops \in Nat

Seqs == 1 .. MaxSeq + Cardinality(Closers)
Channels == {"summary", "detail"}
Published == {"progress", "output", "completed"}
Terminal == {"completed", "closed"}
Channel(kind) == IF kind = "output" THEN "detail" ELSE "summary"
Critical(kind) == kind \in Terminal \cup {"loss"}

VARIABLES
  seq, normal, critical,        \* the queues
  dropped, pending,             \* dropped_summary + dropped_detail, _loss_pending
  stopping, available, closed,
  writer, item, hand,           \* the writer's place, its event, the losses it reports
  written, synced,              \* watermarks
  handle, inFile, loose,        \* per channel: the handle, what its file holds; not yet fsynced
  onDisk, manifest,
  closer,
  refused, failed, reported     \* history: numbers refused, writes failed, losses in loss events

queueVars == <<seq, normal, critical>>
lossVars == <<dropped, pending, reported, refused, failed>>
stateVars == <<stopping, available, closed>>
writerVars == <<writer, item, hand>>
diskVars == <<written, synced, handle, inFile, loose, onDisk>>
vars == <<queueVars, lossVars, stateVars, writerVars, diskVars, manifest, closer>>

NoEvent == [seq |-> 0, kind |-> "progress"]

Init ==
  /\ seq = 0 /\ normal = <<>> /\ critical = <<>>
  /\ dropped = 0 /\ pending = 0 /\ reported = 0 /\ refused = {} /\ failed = {}
  /\ stopping = FALSE /\ available = TRUE /\ closed = FALSE
  /\ writer = "take" /\ item = NoEvent /\ hand = 0
  /\ written = 0 /\ synced = 0
  /\ handle = [c \in Channels |-> "none"] /\ inFile = [c \in Channels |-> {}]
  /\ loose = {} /\ onDisk = {}
  /\ manifest = [closed |-> FALSE, dropped |-> 0]
  /\ closer = [c \in Closers |-> "idle"]

-----------------------------------------------------------------------------
(* publish(), by any thread. *)

Full(kind) ==
  IF Critical(kind) THEN Len(critical) >= CriticalItems ELSE Len(normal) >= NormalItems

Enqueue(kind) ==
  LET event == [seq |-> seq + 1, kind |-> kind]
  IN  IF Critical(kind) THEN critical' = Append(critical, event) /\ UNCHANGED normal
                        ELSE normal' = Append(normal, event) /\ UNCHANGED critical

MayNumber(kind) == seq < MaxSeq \/ kind = "closed"   \* a bound

Accepted(kind) ==
  /\ ~stopping /\ available /\ ~Full(kind) /\ MayNumber(kind)
  /\ seq' = seq + 1 /\ Enqueue(kind)
  /\ UNCHANGED <<dropped, refused>>

(* Too big, or no room: the number is used up. *)
NumberedDrop(kind) ==
  /\ ~stopping /\ available /\ MayNumber(kind)
  /\ seq' = seq + 1 /\ refused' = refused \cup {seq + 1} /\ dropped' = dropped + 1
  /\ UNCHANGED <<normal, critical>>

(* Not an event, or the store is closing: no number is used. *)
PlainDrop ==
  /\ dropped' = dropped + 1
  /\ UNCHANGED <<queueVars, refused>>

Publish(kind) ==
  /\ \/ Accepted(kind) /\ UNCHANGED pending
     \/ /\ NumberedDrop(kind) \/ PlainDrop
        /\ dropped < MaxDrops \/ kind = "closed"   \* a bound
        /\ pending' = pending + 1
  /\ UNCHANGED <<reported, failed, stateVars, writerVars, diskVars, manifest>>

-----------------------------------------------------------------------------
(* The writer thread. *)

Earlier(p, q) == p # <<>> /\ (q # <<>> => Head(p).seq < Head(q).seq)

PopNormal == normal # <<>> /\ item' = Head(normal) /\ normal' = Tail(normal) /\ UNCHANGED critical
PopCritical == critical # <<>> /\ item' = Head(critical) /\ critical' = Tail(critical) /\ UNCHANGED normal
NothingQueued == normal = <<>> /\ critical = <<>>
Taken(pop) ==
  /\ writer = "take" /\ writer' = "write" /\ pop
  /\ UNCHANGED <<seq, lossVars, stateVars, hand, diskVars, manifest, closer>>

TakeAnyway == Taken(   \* fault: goes on without a look at the flag
  \/ Earlier(normal, critical) /\ PopNormal
  \/ Earlier(critical, normal) /\ PopCritical
  \/ NothingQueued /\ item' = NoEvent /\ UNCHANGED <<normal, critical>>)

(* The event with the smaller number, or none after a wait.                *)
Take == Taken(
  \/ Earlier(normal, critical) /\ PopNormal
  \/ Earlier(critical, normal) /\ PopCritical
  \/ NothingQueued /\ ~stopping /\ item' = NoEvent /\ UNCHANGED <<normal, critical>>)

(* An append to a usable handle. *)
Append1(c, file, rest) ==
  /\ handle' = [handle EXCEPT ![c] = "open"]
  /\ inFile' = [inFile EXCEPT ![c] = file \cup {item.seq}]
  /\ loose' = rest \cup {item.seq} /\ onDisk' = onDisk \cup {item.seq}
  /\ written' = item.seq /\ UNCHANGED synced

WriteAppends == LET c == Channel(item.kind)
                IN  handle[c] = "open" /\ Append1(c, inFile[c], loose)

RotateWithoutSync == LET c == Channel(item.kind)   \* fault: the old segment is only closed
                     IN  handle[c] # "stuck" /\ Append1(c, {}, loose)

(* The old segment is synced and closed before a new one is reserved.      *)
WriteRotates == LET c == Channel(item.kind)
                IN  handle[c] # "stuck" /\ Append1(c, {}, loose \ inFile[c])

(* Nothing written: with the segment as it was, or, after the old one was  *)
(* synced and closed, with a new one, with none, or with the closed handle *)
(* still in place, which fails every later write and sync.                 *)
WriteFails ==
  LET c == Channel(item.kind)
  IN  /\ \/ UNCHANGED <<handle, inFile, loose>>
         \/ /\ handle[c] # "stuck"
            /\ \E h \in {"none", "open"} \cup (IF handle[c] = "open" THEN {"stuck"} ELSE {}) :
                 handle' = [handle EXCEPT ![c] = h]
            /\ inFile' = [inFile EXCEPT ![c] = {}] /\ loose' = loose \ inFile[c]
      /\ failed' = failed \cup {item.seq}
      /\ dropped' = dropped + 1 /\ pending' = pending + 1
      /\ UNCHANGED <<written, synced, onDisk>>

Write ==
  /\ writer = "write"
  /\ \/ /\ item = NoEvent /\ writer' = "sync"
        /\ UNCHANGED <<item, diskVars, failed, dropped, pending>>
     \/ /\ item # NoEvent /\ (WriteAppends \/ WriteRotates) /\ writer' = "sync"
        /\ UNCHANGED <<item, failed, dropped, pending>>
     \/ item # NoEvent /\ WriteFails /\ writer' = "report" /\ item' = NoEvent
  /\ UNCHANGED <<queueVars, reported, refused, stateVars, hand, manifest, closer>>

(* fsync() of every open file; a stuck handle makes it fail.               *)
Synced ==
  /\ \A c \in Channels : handle[c] # "stuck"
  /\ loose' = loose \ UNION {inFile[c] : c \in Channels}
  /\ synced' = written
  /\ UNCHANGED <<written, handle, inFile, onDisk>>

Snapshot(last) == [closed |-> last, dropped |-> dropped]

(* When it is due, or after a terminal event; then the manifest, if its    *)
(* lock is free.                                                           *)
Sync ==
  /\ writer = "sync" /\ writer' = "report" /\ item' = NoEvent
  /\ \/ item.kind \notin Terminal /\ UNCHANGED <<diskVars, manifest>>   \* not due
     \/ UNCHANGED <<diskVars, manifest>>                             \* fails
     \/ Synced /\ UNCHANGED manifest
     \/ Synced /\ ~stopping /\ manifest' = Snapshot(FALSE)
  /\ UNCHANGED <<queueVars, lossVars, stateVars, hand, closer>>

(* The losses are taken in one critical section, reported in another.      *)
ClearLater ==   \* fault: the count is cleared after the report
  /\ writer = "report" /\ writer' = IF pending > 0 /\ ~stopping THEN "publish" ELSE "take"
  /\ hand' = IF stopping THEN 0 ELSE pending
  /\ UNCHANGED <<pending, queueVars, dropped, reported, refused, failed, stateVars, item, diskVars, manifest, closer>>

TakeLosses ==
  /\ writer = "report"
  /\ IF pending > 0 /\ ~stopping THEN hand' = pending /\ pending' = 0 /\ writer' = "publish"
                                 ELSE writer' = "take" /\ UNCHANGED <<hand, pending>>
  /\ UNCHANGED <<queueVars, dropped, reported, refused, failed, stateVars, item, diskVars, manifest, closer>>

ReportLosses ==
  /\ writer = "publish"
  /\ \/ /\ Accepted("loss") /\ writer' = "take" /\ hand' = 0 /\ reported' = reported + hand
        /\ UNCHANGED pending
     \/ /\ NumberedDrop("loss") \/ (PlainDrop /\ (stopping \/ ~available))
        /\ writer' = "restore" /\ pending' = pending + 1 /\ UNCHANGED <<reported, hand>>
  /\ UNCHANGED <<failed, stateVars, item, diskVars, manifest, closer>>

RestoreLosses ==
  /\ writer = "restore" /\ writer' = "take" /\ pending' = pending + hand /\ hand' = 0
  /\ UNCHANGED <<queueVars, dropped, reported, refused, failed, stateVars, item, diskVars, manifest, closer>>

(* Shutdown: a last sync, the closed manifest if its lock is free in time. *)
LastSync ==
  /\ writer = "take" /\ stopping
  /\ \/ Synced /\ writer' = "manifest"
     \/ UNCHANGED diskVars /\ writer' = "leave"
  /\ UNCHANGED <<queueVars, lossVars, stateVars, item, hand, manifest, closer>>

LeaveEarly == LastSync   \* fault: stops with events in the queues

LeaveLoop == NothingQueued /\ LastSync

CloseManifest ==
  /\ writer = "manifest"
  /\ \/ manifest' = Snapshot(TRUE) /\ writer' = "close"
     \/ UNCHANGED manifest /\ writer' = "leave"
  /\ UNCHANGED <<queueVars, lossVars, stateVars, item, hand, diskVars, closer>>

SetClosed ==
  /\ writer = "close" /\ writer' = "leave" /\ closed' = TRUE
  /\ UNCHANGED <<queueVars, lossVars, stopping, available, item, hand, diskVars, manifest, closer>>

Leave ==
  /\ writer = "leave" /\ writer' = "done" /\ available' = FALSE
  /\ handle' = [c \in Channels |-> "none"] /\ inFile' = [c \in Channels |-> {}]
  /\ UNCHANGED <<queueVars, lossVars, stopping, closed, item, hand, written, synced, loose,
                 onDisk, manifest, closer>>

Writer == \/ Take \/ Write \/ Sync \/ TakeLosses \/ ReportLosses \/ RestoreLosses
          \/ LeaveLoop \/ CloseManifest \/ SetClosed \/ Leave

-----------------------------------------------------------------------------
(* close(), by several threads. *)

At(c, from, to) == closer[c] = from /\ closer' = [closer EXCEPT ![c] = to]

BeginClose(c) ==
  /\ At(c, "idle", IF stopping THEN "stop" ELSE "publish")
  /\ UNCHANGED <<queueVars, lossVars, stateVars, writerVars, diskVars, manifest>>

PublishClosed(c) == At(c, "publish", "stop") /\ Publish("closed")

Stop(c) ==
  /\ At(c, "stop", "join") /\ stopping' = TRUE
  /\ UNCHANGED <<queueVars, lossVars, available, closed, writerVars, diskVars, manifest>>

Join(c) ==
  /\ At(c, "join", IF closed THEN "drained" ELSE "incomplete")
  /\ UNCHANGED <<queueVars, lossVars, stateVars, writerVars, diskVars, manifest>>

Idle == writer = "done" /\ UNCHANGED vars

Next ==
  \/ \E kind \in Published : Publish(kind) /\ UNCHANGED closer
  \/ Writer
  \/ \E c \in Closers : BeginClose(c) \/ PublishClosed(c) \/ Stop(c) \/ Join(c)
  \/ Idle

Spec == Init /\ [][Next]_vars

(* The writer thread is scheduled, and its system calls return. *)
FairSpec == Spec /\ WF_vars(Writer)
-----------------------------------------------------------------------------
(* Properties. *)

(* Types; the queues keep their limits.                                    *)
TypeOK ==
  /\ seq \in Seqs \cup {0} /\ written \in Seqs \cup {0} /\ synced \in 0 .. written
  /\ {dropped, pending, hand, reported} \subseteq Nat /\ refused \cup failed \subseteq Seqs
  /\ Len(normal) <= NormalItems /\ Len(critical) <= CriticalItems
  /\ {stopping, available, closed} \subseteq BOOLEAN
  /\ writer \in {"take", "write", "sync", "report", "publish", "restore", "manifest", "close", "leave", "done"}
  /\ handle \in [Channels -> {"none", "open", "stuck"}]
  /\ loose \subseteq onDisk /\ onDisk \subseteq Seqs
  /\ closer \in [Closers -> {"idle", "publish", "stop", "join", "drained", "incomplete"}]

(* synced_seq: every event up to it survives a power cut, except the ones  *)
(* that were counted as lost.  It needs the two queues to be drained in    *)
(* one order and a segment to be synced before it is left.                 *)
SyncedIsDurable == 1 .. synced \subseteq (onDisk \ loose) \cup refused \cup failed

(* execution-records.md: a loss is not hidden.  In a record that says it   *)
(* is closed, and so whenever close() answers "drained", every number is   *)
(* on disk for good or is counted in the manifest.                         *)
LossIsCounted ==
  /\ manifest.closed => Cardinality((1 .. seq) \ (onDisk \ loose)) <= manifest.dropped
  /\ (\E c \in Closers : closer[c] = "drained") => manifest.closed

(* Every loss is in a loss event that was accepted, in the writer's hand   *)
(* or still to be reported, however many threads drop at the same time.    *)
LossIsReported == dropped = reported + hand + pending

(* A store that is told to close ends, whatever its files do.              *)
StoppingEnds == stopping ~> writer = "done"
=============================================================================
