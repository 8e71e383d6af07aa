------------------------ MODULE ExecutionStoreProofs ------------------------
(***************************************************************************)
(* Proofs about the execution records: one producer, for any limits of its *)
(* queues and any number of threads that publish or close; and the export  *)
(* of records while any number of producers write them.                    *)
(***************************************************************************)
EXTENDS ExecutionStore, RecordQuery, FiniteSetTheorems, SequenceTheorems,
  NaturalsInduction, WellFoundedInduction, TLAPS

(* The writer has losses in its hand only while it reports them. *)
LossInv ==
  /\ dropped \in Nat /\ pending \in Nat /\ hand \in Nat /\ reported \in Nat
  /\ writer \notin {"publish", "restore"} => hand = 0
  /\ LossIsReported

LEMMA LossInitial == Init => LossInv
  BY DEF Init, LossInv, LossIsReported

(* A drop counts once and is owed once; nothing else touches the count. *)
LEMMA PublishLosses ==
  ASSUME LossInv, NEW kind, Publish(kind)
  PROVE  LossInv'
BY DEF LossInv, LossIsReported, Publish, Accepted, NumberedDrop, PlainDrop, writerVars

LEMMA LossStep == LossInv /\ [Next]_vars => LossInv'
<1> SUFFICES ASSUME LossInv, [Next]_vars PROVE LossInv'
  OBVIOUS
<1> USE DEF LossInv, LossIsReported
<1>1. CASE UNCHANGED vars
  BY <1>1 DEF vars, lossVars, writerVars
<1>2. ASSUME NEW kind \in Published, Publish(kind) PROVE LossInv'
  BY <1>2, PublishLosses
<1>3. CASE Writer
  <2>1. CASE Take
    BY <2>1 DEF Take, Taken, lossVars
  <2>2. CASE Write
    BY <2>2 DEF Write, WriteFails
  <2>3. CASE Sync
    BY <2>3 DEF Sync, lossVars
  <2>4. CASE TakeLosses
    BY <2>4 DEF TakeLosses
  <2>5. CASE ReportLosses
    BY <2>5 DEF ReportLosses, Accepted, NumberedDrop, PlainDrop
  <2>6. CASE RestoreLosses
    BY <2>6 DEF RestoreLosses
  <2>7. CASE LeaveLoop
    BY <2>7 DEF LeaveLoop, LastSync, lossVars
  <2>8. CASE CloseManifest \/ SetClosed \/ Leave
    BY <2>8 DEF CloseManifest, SetClosed, Leave, lossVars
  <2> QED
    BY <1>3, <2>1, <2>2, <2>3, <2>4, <2>5, <2>6, <2>7, <2>8 DEF Writer
<1>4. ASSUME NEW c \in Closers, BeginClose(c) \/ Stop(c) \/ Join(c) PROVE LossInv'
  BY <1>4 DEF BeginClose, Stop, Join, At, lossVars, writerVars
<1>5. ASSUME NEW c \in Closers, PublishClosed(c) PROVE LossInv'
  BY <1>5, PublishLosses DEF PublishClosed
<1> QED
  BY <1>1, <1>2, <1>3, <1>4, <1>5 DEF Next, Idle

(* execution_store.py, _writer and _drop: every loss is in an accepted     *)
(* loss event, in the writer's hand or still to be reported, whichever     *)
(* threads drop events between the steps of a report.                      *)
THEOREM EveryLossReported == Spec => []LossIsReported
<1>1. LossInv => LossIsReported
  BY DEF LossInv
<1> QED
  BY LossInitial, LossStep, <1>1, PTL DEF Spec
-----------------------------------------------------------------------------
(* Durability.  An event that is queued or in the writer's hand is younger *)
(* than all that were written; so what is at most as old as synced_seq has *)
(* been through the writer, and lies in a file that the sync reached.      *)

Event == [seq : Nat, kind : Published \cup {"loss", "closed"}]

Younger(q, n, top) == \A i \in 1 .. Len(q) : q[i].seq > n /\ q[i].seq <= top
Sorted(q) == \A i, j \in 1 .. Len(q) : i < j => q[i].seq < q[j].seq
InQueue(q, n) == \E i \in 1 .. Len(q) : q[i].seq = n
InHand(n) == writer = "write" /\ item # NoEvent /\ item.seq = n

QueuesInOrder ==
  /\ normal \in Seq(Event) /\ critical \in Seq(Event) /\ Sorted(normal) /\ Sorted(critical)
  /\ Younger(normal, written, seq) /\ Younger(critical, written, seq)

HandInOrder == writer = "write" /\ item # NoEvent =>
  /\ item \in Event /\ item.seq > written /\ item.seq <= seq
  /\ Younger(normal, item.seq, seq) /\ Younger(critical, item.seq, seq)

AllAccounted == \A n \in 1 .. seq :
  \/ n \in onDisk \cup refused \cup failed
  \/ InQueue(normal, n) \/ InQueue(critical, n) \/ InHand(n)

LooseIsOpen ==
  /\ inFile \in [Channels -> SUBSET Nat]
  /\ writer # "done" => loose \subseteq UNION {inFile[c] : c \in Channels}

DurableInv ==
  /\ seq \in Nat /\ written \in 0 .. seq /\ synced \in 0 .. written
  /\ QueuesInOrder /\ HandInOrder /\ AllAccounted /\ LooseIsOpen /\ SyncedIsDurable

LEMMA QueueNumbers ==
  ASSUME NEW q \in Seq(Event)
  PROVE  Len(q) \in Nat /\ \A i \in 1 .. Len(q) : q[i] \in Event /\ q[i].seq \in Nat
<1>1. Len(q) \in Nat /\ \A i \in 1 .. Len(q) : q[i] \in Event
  OBVIOUS
<1>2. \A e \in Event : e.seq \in Nat
  BY DEF Event
<1> QED
  BY <1>1, <1>2

LEMMA TailKeeps ==
  ASSUME NEW q \in Seq(Event), q # <<>>, Sorted(q), NEW n, NEW top, Younger(q, n, top)
  PROVE  /\ Tail(q) \in Seq(Event) /\ Sorted(Tail(q))
         /\ Younger(Tail(q), n, top) /\ Younger(Tail(q), q[1].seq, top)
         /\ \A m : InQueue(q, m) => m = q[1].seq \/ InQueue(Tail(q), m)
<1>1. /\ Len(q) \in Nat \ {0} /\ Tail(q) \in Seq(Event) /\ Len(Tail(q)) = Len(q) - 1
      /\ \A i \in 1 .. Len(q) - 1 : Tail(q)[i] = q[i + 1]
  OBVIOUS
<1>2. \A i \in 1 .. Len(q) : q[i].seq \in Nat
  BY QueueNumbers
<1>3. Sorted(Tail(q))
  BY <1>1 DEF Sorted
<1>4. Younger(Tail(q), n, top)
  BY <1>1 DEF Younger
<1>5. Younger(Tail(q), q[1].seq, top)
  BY <1>1, <1>2 DEF Younger, Sorted
<1>6. ASSUME NEW m, InQueue(q, m), m # q[1].seq PROVE InQueue(Tail(q), m)
  <2>1. PICK i \in 1 .. Len(q) : q[i].seq = m
    BY <1>6 DEF InQueue
  <2>2. i - 1 \in 1 .. Len(Tail(q)) /\ Tail(q)[i - 1] = q[i]
    BY <1>1, <1>6, <2>1
  <2> QED
    BY <2>1, <2>2 DEF InQueue
<1> QED
  BY <1>1, <1>3, <1>4, <1>5, <1>6

LEMMA AppendKeeps ==
  ASSUME NEW q \in Seq(Event), Sorted(q), NEW n \in Nat, NEW top \in Nat, n <= top,
         Younger(q, n, top), NEW e \in Event, e.seq = top + 1
  PROVE  /\ Append(q, e) \in Seq(Event) /\ Sorted(Append(q, e))
         /\ Younger(Append(q, e), n, top + 1) /\ Younger(q, n, top + 1)
         /\ InQueue(Append(q, e), top + 1)
         /\ \A m : InQueue(q, m) => InQueue(Append(q, e), m)
<1>1. /\ Len(q) \in Nat /\ Append(q, e) \in Seq(Event) /\ Len(Append(q, e)) = Len(q) + 1
      /\ Append(q, e)[Len(q) + 1] = e /\ \A i \in 1 .. Len(q) : Append(q, e)[i] = q[i]
  OBVIOUS
<1>2. \A i \in 1 .. Len(q) : q[i].seq \in Nat
  BY QueueNumbers
<1>3. Sorted(Append(q, e))
  <2>1. ASSUME NEW i \in 1 .. Len(q) + 1, NEW j \in 1 .. Len(q) + 1, i < j
        PROVE  Append(q, e)[i].seq < Append(q, e)[j].seq
    <3>1. i \in 1 .. Len(q) /\ Append(q, e)[i] = q[i]
      BY <1>1, <2>1
    <3>2. CASE j = Len(q) + 1
      BY <1>1, <1>2, <3>1, <3>2 DEF Younger
    <3>3. CASE j \in 1 .. Len(q)
      BY <1>1, <2>1, <3>1, <3>3 DEF Sorted
    <3> QED
      BY <1>1, <3>2, <3>3
  <2> QED
    BY <1>1, <2>1 DEF Sorted
<1>4. Younger(q, n, top + 1) /\ Younger(Append(q, e), n, top + 1)
  BY <1>1, <1>2 DEF Younger
<1>5. InQueue(Append(q, e), top + 1)
  BY <1>1 DEF InQueue
<1>6. \A m : InQueue(q, m) => InQueue(Append(q, e), m)
  BY <1>1 DEF InQueue
<1> QED
  BY <1>1, <1>3, <1>4, <1>5, <1>6

LEMMA DurableInitial == Init => DurableInv
  BY DEF Init, DurableInv, QueuesInOrder, HandInOrder, AllAccounted, LooseIsOpen, SyncedIsDurable,
         Younger, Sorted, InQueue, InHand

(* A number is given to an event that joins a queue, or is refused. *)
LEMMA NumberStep ==
  ASSUME DurableInv, NEW kind \in Published \cup {"loss", "closed"},
         Accepted(kind) \/ NumberedDrop(kind) \/ PlainDrop,
         UNCHANGED <<item, written, synced, inFile, loose, onDisk, failed>>,
         writer' = writer \/ (writer = "publish" /\ writer' \in {"take", "restore"})
  PROVE  DurableInv'
<1> USE DEF DurableInv
<1>1. CASE PlainDrop
  BY <1>1 DEF PlainDrop, queueVars, QueuesInOrder, HandInOrder, AllAccounted, LooseIsOpen,
     SyncedIsDurable, Younger, Sorted, InQueue, InHand
<1>2. CASE NumberedDrop(kind)
  <2>1. /\ seq' = seq + 1 /\ refused' = refused \cup {seq + 1}
        /\ UNCHANGED <<normal, critical>>
    BY <1>2 DEF NumberedDrop
  <2>2. ASSUME NEW q \in Seq(Event), NEW n, Younger(q, n, seq) PROVE Younger(q, n, seq + 1)
    BY <2>2, QueueNumbers DEF Younger
  <2>3. QueuesInOrder'
    BY <2>1, <2>2 DEF QueuesInOrder, Sorted
  <2>4. HandInOrder'
    <3> SUFFICES ASSUME writer = "write", item # NoEvent PROVE HandInOrder'
      BY DEF HandInOrder
    <3>1. /\ item \in Event /\ item.seq \in Nat /\ item.seq > written /\ item.seq <= seq
          /\ Younger(normal, item.seq, seq) /\ Younger(critical, item.seq, seq)
      BY DEF HandInOrder, Event
    <3>2. Younger(normal, item.seq, seq + 1) /\ Younger(critical, item.seq, seq + 1)
      BY <2>2, <3>1 DEF QueuesInOrder
    <3>3. item.seq <= seq + 1
      BY <3>1
    <3> QED
      BY <2>1, <3>1, <3>2, <3>3 DEF HandInOrder
  <2>5. AllAccounted'
    BY <2>1 DEF AllAccounted, InQueue, InHand
  <2> QED
    BY <2>1, <2>3, <2>4, <2>5 DEF LooseIsOpen, SyncedIsDurable
<1>3. CASE Accepted(kind)
  <2> DEFINE event == [seq |-> seq + 1, kind |-> kind]
  <2>1. seq' = seq + 1 /\ UNCHANGED refused /\ event \in Event
    BY <1>3 DEF Accepted, Event
  <2>2. \/ critical' = Append(critical, event) /\ normal' = normal
        \/ normal' = Append(normal, event) /\ critical' = critical
    BY <1>3 DEF Accepted, Enqueue
  <2> HIDE DEF event
  <2>3. event.seq = seq + 1
    BY DEF event
  <2>4. /\ normal \in Seq(Event) /\ critical \in Seq(Event) /\ Sorted(normal) /\ Sorted(critical)
        /\ Younger(normal, written, seq) /\ Younger(critical, written, seq)
    BY DEF QueuesInOrder
  <2>5. QueuesInOrder'
    <3>1. ASSUME NEW q \in Seq(Event), Sorted(q), Younger(q, written, seq)
          PROVE  /\ Append(q, event) \in Seq(Event) /\ Sorted(Append(q, event))
                 /\ Younger(q, written, seq + 1) /\ Younger(Append(q, event), written, seq + 1)
      BY <2>1, <2>3, <3>1, AppendKeeps
    <3> QED
      BY <2>1, <2>2, <2>4, <3>1 DEF QueuesInOrder
  <2>6. HandInOrder'
    <3> SUFFICES ASSUME writer = "write", item # NoEvent PROVE HandInOrder'
      BY DEF HandInOrder
    <3>1. /\ item \in Event /\ item.seq \in Nat /\ item.seq > written /\ item.seq <= seq
          /\ Younger(normal, item.seq, seq) /\ Younger(critical, item.seq, seq)
      BY DEF HandInOrder, Event
    <3>2. ASSUME NEW q \in Seq(Event), Sorted(q), Younger(q, item.seq, seq)
          PROVE  Younger(q, item.seq, seq + 1) /\ Younger(Append(q, event), item.seq, seq + 1)
      BY <2>1, <2>3, <3>1, <3>2, AppendKeeps
    <3>3. Younger(normal', item.seq, seq + 1) /\ Younger(critical', item.seq, seq + 1)
      BY <2>2, <2>4, <3>1, <3>2
    <3>4. item.seq <= seq + 1
      BY <3>1
    <3> QED
      BY <2>1, <3>1, <3>3, <3>4 DEF HandInOrder
  <2>7. AllAccounted'
    <3>1. ASSUME NEW q \in Seq(Event), Sorted(q), Younger(q, written, seq)
          PROVE  /\ InQueue(Append(q, event), seq + 1)
                 /\ \A m : InQueue(q, m) => InQueue(Append(q, event), m)
      BY <2>1, <2>3, <3>1, AppendKeeps
    <3>2. /\ \A m : InQueue(normal, m) => InQueue(normal', m)
          /\ \A m : InQueue(critical, m) => InQueue(critical', m)
          /\ InQueue(normal', seq + 1) \/ InQueue(critical', seq + 1)
      BY <2>2, <2>4, <3>1
    <3>3. \A m : InHand(m) => InHand(m)'
      BY DEF InHand
    <3> QED
      BY <2>1, <3>2, <3>3 DEF AllAccounted
  <2> QED
    BY <2>1, <2>5, <2>6, <2>7 DEF LooseIsOpen, SyncedIsDurable
<1> QED
  BY <1>1, <1>2, <1>3

(* The writer takes the event with the smaller number. *)
LEMMA TakeStep == ASSUME DurableInv, Take PROVE DurableInv'
<1> USE DEF DurableInv
<1>1. /\ writer = "take" /\ writer' = "write"
      /\ UNCHANGED <<seq, refused, failed, written, synced, inFile, loose, onDisk>>
  BY DEF Take, Taken, lossVars, diskVars
<1>2. CASE Earlier(normal, critical) /\ PopNormal
  <2>1. /\ normal # <<>> /\ item' = normal[1] /\ normal' = Tail(normal) /\ critical' = critical
        /\ normal \in Seq(Event) /\ critical \in Seq(Event) /\ Sorted(normal) /\ Sorted(critical)
        /\ Younger(normal, written, seq) /\ Younger(critical, written, seq)
    BY <1>2 DEF PopNormal, QueuesInOrder
  <2>2. 1 \in 1 .. Len(normal) /\ item' \in Event /\ item'.seq \in Nat
    BY <2>1, QueueNumbers
  <2>3. item'.seq > written /\ item'.seq <= seq
    BY <2>1, <2>2 DEF Younger
  <2>4. /\ normal' \in Seq(Event) /\ Sorted(normal') /\ Younger(normal', written, seq)
        /\ Younger(normal', item'.seq, seq)
        /\ \A m : InQueue(normal, m) => m = item'.seq \/ InQueue(normal', m)
    BY <2>1, TailKeeps
  <2>5. Younger(critical, item'.seq, seq)
    <3>1. critical # <<>> => item'.seq < critical[1].seq
      BY <1>2, <2>1 DEF Earlier
    <3>2. \A i \in 1 .. Len(critical) : 1 \in 1 .. Len(critical) /\ critical[1].seq <= critical[i].seq /\ critical[i].seq \in Nat
      BY <2>1, QueueNumbers DEF Sorted
    <3>3. \A i \in 1 .. Len(critical) : critical # <<>> /\ critical[i].seq > item'.seq
      BY <2>1, <2>2, <3>1, <3>2
    <3>4. \A i \in 1 .. Len(critical) : critical[i].seq <= seq
      BY <2>1 DEF Younger
    <3> QED
      BY <3>3, <3>4 DEF Younger
  <2>6. QueuesInOrder'
    BY <1>1, <2>1, <2>4 DEF QueuesInOrder
  <2>7. HandInOrder'
    BY <1>1, <2>1, <2>2, <2>3, <2>4, <2>5 DEF HandInOrder
  <2>8. item' # NoEvent
    BY <2>2, <2>3 DEF NoEvent
  <2>9. AllAccounted'
    BY <1>1, <2>1, <2>4, <2>8 DEF AllAccounted, InHand
  <2> QED
    BY <1>1, <2>6, <2>7, <2>9 DEF LooseIsOpen, SyncedIsDurable
<1>3. CASE Earlier(critical, normal) /\ PopCritical
  <2>1. /\ critical # <<>> /\ item' = critical[1] /\ critical' = Tail(critical) /\ normal' = normal
        /\ critical \in Seq(Event) /\ normal \in Seq(Event) /\ Sorted(critical) /\ Sorted(normal)
        /\ Younger(critical, written, seq) /\ Younger(normal, written, seq)
    BY <1>3 DEF PopCritical, QueuesInOrder
  <2>2. 1 \in 1 .. Len(critical) /\ item' \in Event /\ item'.seq \in Nat
    BY <2>1, QueueNumbers
  <2>3. item'.seq > written /\ item'.seq <= seq
    BY <2>1, <2>2 DEF Younger
  <2>4. /\ critical' \in Seq(Event) /\ Sorted(critical') /\ Younger(critical', written, seq)
        /\ Younger(critical', item'.seq, seq)
        /\ \A m : InQueue(critical, m) => m = item'.seq \/ InQueue(critical', m)
    BY <2>1, TailKeeps
  <2>5. Younger(normal, item'.seq, seq)
    <3>1. normal # <<>> => item'.seq < normal[1].seq
      BY <1>3, <2>1 DEF Earlier
    <3>2. \A i \in 1 .. Len(normal) : 1 \in 1 .. Len(normal) /\ normal[1].seq <= normal[i].seq /\ normal[i].seq \in Nat
      BY <2>1, QueueNumbers DEF Sorted
    <3>3. \A i \in 1 .. Len(normal) : normal # <<>> /\ normal[i].seq > item'.seq
      BY <2>1, <2>2, <3>1, <3>2
    <3>4. \A i \in 1 .. Len(normal) : normal[i].seq <= seq
      BY <2>1 DEF Younger
    <3> QED
      BY <3>3, <3>4 DEF Younger
  <2>6. QueuesInOrder'
    BY <1>1, <2>1, <2>4 DEF QueuesInOrder
  <2>7. HandInOrder'
    BY <1>1, <2>1, <2>2, <2>3, <2>4, <2>5 DEF HandInOrder
  <2>8. item' # NoEvent
    BY <2>2, <2>3 DEF NoEvent
  <2>9. AllAccounted'
    BY <1>1, <2>1, <2>4, <2>8 DEF AllAccounted, InHand
  <2> QED
    BY <1>1, <2>6, <2>7, <2>9 DEF LooseIsOpen, SyncedIsDurable
<1>4. CASE item' = NoEvent /\ UNCHANGED <<normal, critical>>
  BY <1>1, <1>4 DEF QueuesInOrder, HandInOrder, AllAccounted, LooseIsOpen, SyncedIsDurable,
     Younger, Sorted, InQueue, InHand
<1> QED
  BY <1>2, <1>3, <1>4 DEF Take, Taken

(* What a write leaves: the event is on disk, or counted as failed; its    *)
(* channel's old segment was synced before the file was left.              *)
LEMMA WriteStep == ASSUME DurableInv, Write PROVE DurableInv'
<1> USE DEF DurableInv
<1>1. /\ writer = "write" /\ writer' \in {"sync", "report"}
      /\ UNCHANGED <<seq, normal, critical, refused>>
  BY DEF Write, queueVars
<1> DEFINE c == Channel(item.kind)
<1>2. c \in Channels
  BY DEF Channel, Channels
<1> HIDE DEF c
<1>3. CASE item = NoEvent /\ UNCHANGED <<diskVars, failed>>
  BY <1>1, <1>3 DEF diskVars, QueuesInOrder, HandInOrder, AllAccounted, LooseIsOpen, SyncedIsDurable,
     Younger, Sorted, InQueue, InHand
<1>4. CASE item # NoEvent /\ (WriteAppends \/ WriteRotates) /\ UNCHANGED failed
  <2>1. /\ \/ inFile' = [inFile EXCEPT ![c] = inFile[c] \cup {item.seq}] /\ loose' = loose \cup {item.seq}
           \/ inFile' = [inFile EXCEPT ![c] = {item.seq}] /\ loose' = (loose \ inFile[c]) \cup {item.seq}
        /\ onDisk' = onDisk \cup {item.seq} /\ written' = item.seq /\ UNCHANGED synced
    BY <1>4 DEF WriteAppends, WriteRotates, Append1, c
  <2>2. /\ item.seq \in Nat /\ item.seq > written /\ item.seq <= seq
        /\ Younger(normal, item.seq, seq) /\ Younger(critical, item.seq, seq)
    BY <1>1, <1>4 DEF HandInOrder, Event
  <2>3. QueuesInOrder' /\ HandInOrder'
    BY <1>1, <2>1, <2>2 DEF QueuesInOrder, HandInOrder, Younger, Sorted
  <2>4. AllAccounted'
    BY <1>1, <1>4, <2>1 DEF AllAccounted, InQueue, InHand
  <2>5. LooseIsOpen'
    BY <1>1, <1>2, <2>1, <2>2 DEF LooseIsOpen
  <2>6. SyncedIsDurable'
    BY <1>1, <1>4, <2>1, <2>2 DEF SyncedIsDurable
  <2> QED
    BY <1>1, <2>1, <2>2, <2>3, <2>4, <2>5, <2>6
<1>5. CASE item # NoEvent /\ WriteFails
  <2>1. /\ \/ UNCHANGED <<inFile, loose>>
           \/ inFile' = [inFile EXCEPT ![c] = {}] /\ loose' = loose \ inFile[c]
        /\ failed' = failed \cup {item.seq} /\ UNCHANGED <<written, synced, onDisk>>
    BY <1>5 DEF WriteFails, c
  <2>2. QueuesInOrder' /\ HandInOrder'
    BY <1>1, <2>1 DEF QueuesInOrder, HandInOrder, Younger, Sorted
  <2>3. AllAccounted'
    BY <1>1, <1>5, <2>1 DEF AllAccounted, InQueue, InHand
  <2>4. LooseIsOpen'
    BY <1>1, <1>2, <2>1 DEF LooseIsOpen
  <2>5. SyncedIsDurable'
    BY <1>1, <2>1 DEF SyncedIsDurable
  <2> QED
    BY <1>1, <2>1, <2>2, <2>3, <2>4, <2>5
<1> QED
  BY <1>3, <1>4, <1>5 DEF Write

(* A sync reaches every file with something loose in it. *)
LEMMA SyncedStep ==
  ASSUME DurableInv, Synced, writer # "done", writer # "write", writer' # "write",
         UNCHANGED <<queueVars, refused, failed>>
  PROVE  DurableInv'
<1> USE DEF DurableInv
<1>1. /\ loose' = loose \ UNION {inFile[c] : c \in Channels} /\ synced' = written
      /\ UNCHANGED <<seq, normal, critical, written, inFile, onDisk>>
  BY DEF Synced, queueVars
<1>2. loose' = {}
  BY <1>1 DEF LooseIsOpen
<1>3. QueuesInOrder' /\ HandInOrder'
  BY <1>1 DEF QueuesInOrder, HandInOrder, Younger, Sorted
<1>4. AllAccounted'
  BY <1>1 DEF AllAccounted, InQueue, InHand
<1>5. ASSUME NEW n \in 1 .. written PROVE n \in onDisk \cup refused \cup failed
  <2>1. n \in 1 .. seq /\ n \in Nat /\ written \in Nat /\ n <= written
    BY DEF QueuesInOrder
  <2>2. ~InQueue(normal, n) /\ ~InQueue(critical, n)
    BY <2>1 DEF QueuesInOrder, Younger, InQueue
  <2>3. ~InHand(n)
    BY DEF InHand
  <2> QED
    BY <2>1, <2>2, <2>3 DEF AllAccounted
<1>6. SyncedIsDurable'
  BY <1>1, <1>2, <1>5 DEF SyncedIsDurable
<1> QED
  BY <1>1, <1>2, <1>3, <1>4, <1>6 DEF LooseIsOpen

LEMMA DurableStutter ==
  ASSUME DurableInv, UNCHANGED <<queueVars, refused, failed, written, synced, inFile, loose, onDisk>>,
         (writer' = writer /\ item' = item) \/ (writer # "write" /\ writer # "done" /\ writer' # "write")
  PROVE  DurableInv'
BY DEF DurableInv, queueVars, QueuesInOrder, HandInOrder, AllAccounted, LooseIsOpen, SyncedIsDurable,
       Younger, Sorted, InQueue, InHand

LEMMA DurableStep == DurableInv /\ [Next]_vars => DurableInv'
<1> SUFFICES ASSUME DurableInv, [Next]_vars PROVE DurableInv'
  OBVIOUS
<1>1. ASSUME NEW kind \in Published \cup {"closed"}, Publish(kind) PROVE DurableInv'
  <2>1. Accepted(kind) \/ NumberedDrop(kind) \/ PlainDrop
    BY <1>1 DEF Publish
  <2>2. /\ UNCHANGED <<item, written, synced, inFile, loose, onDisk, failed>>
        /\ writer' = writer
    BY <1>1 DEF Publish, writerVars, diskVars
  <2> QED
    BY <2>1, <2>2, NumberStep
<1>2. ASSUME Sync PROVE DurableInv'
  <2>1. /\ writer = "sync" /\ writer' = "report" /\ UNCHANGED <<queueVars, refused, failed>>
        /\ Synced \/ UNCHANGED diskVars
    BY <1>2 DEF Sync, lossVars
  <2> QED
    BY <2>1, SyncedStep, DurableStutter DEF diskVars
<1>3. ASSUME TakeLosses PROVE DurableInv'
  <2>1. /\ writer = "report" /\ writer' \in {"publish", "take"}
        /\ UNCHANGED <<queueVars, refused, failed, diskVars>>
    BY <1>3 DEF TakeLosses
  <2> QED
    BY <2>1, DurableStutter DEF diskVars
<1>4. ASSUME ReportLosses PROVE DurableInv'
  <2>1. /\ Accepted("loss") \/ NumberedDrop("loss") \/ PlainDrop
        /\ UNCHANGED <<item, written, synced, inFile, loose, onDisk, failed>>
        /\ writer = "publish" /\ writer' \in {"take", "restore"}
    BY <1>4 DEF ReportLosses, diskVars
  <2> QED
    BY <2>1, NumberStep
<1>5. ASSUME RestoreLosses \/ CloseManifest \/ SetClosed PROVE DurableInv'
  <2>1. /\ writer \in {"restore", "manifest", "close"} /\ writer' \in {"take", "close", "leave"}
        /\ UNCHANGED <<queueVars, refused, failed, diskVars>>
    BY <1>5 DEF RestoreLosses, CloseManifest, SetClosed, lossVars
  <2> QED
    BY <2>1, DurableStutter DEF diskVars
<1>6. ASSUME LeaveLoop PROVE DurableInv'
  <2>1. /\ writer = "take" /\ writer' \in {"manifest", "leave"}
        /\ UNCHANGED <<queueVars, refused, failed>>
        /\ Synced \/ UNCHANGED diskVars
    BY <1>6 DEF LeaveLoop, LastSync, lossVars
  <2> QED
    BY <2>1, SyncedStep, DurableStutter DEF diskVars
<1>7. ASSUME Leave PROVE DurableInv'
  <2>1. /\ writer = "leave" /\ writer' = "done" /\ inFile' = [c \in Channels |-> {}]
        /\ UNCHANGED <<seq, normal, critical, refused, failed, item, written, synced, loose, onDisk>>
    BY <1>7 DEF Leave, queueVars, lossVars
  <2> QED
    BY <2>1 DEF DurableInv, QueuesInOrder, HandInOrder, AllAccounted, LooseIsOpen, SyncedIsDurable,
       Younger, Sorted, InQueue, InHand
<1>8. ASSUME NEW c \in Closers, BeginClose(c) \/ Stop(c) \/ Join(c) PROVE DurableInv'
  <2>1. UNCHANGED <<queueVars, refused, failed, diskVars, writer, item>>
    BY <1>8 DEF BeginClose, Stop, Join, lossVars, writerVars
  <2> QED
    BY <2>1, DurableStutter DEF diskVars
<1>9. ASSUME UNCHANGED vars PROVE DurableInv'
  BY <1>9, DurableStutter DEF vars, lossVars, diskVars, writerVars
<1>10. ASSUME NEW c \in Closers, PublishClosed(c) PROVE DurableInv'
  BY <1>10, <1>1 DEF PublishClosed
<1> QED
  BY <1>1, <1>2, <1>3, <1>4, <1>5, <1>6, <1>7, <1>8, <1>9, <1>10, TakeStep, WriteStep
     DEF Next, Writer, Idle

(* synced_seq, with any limits of the queues and any number of closers:    *)
(* every event up to it is in a synced file, or was refused, or was        *)
(* counted as a failed write.                                              *)
THEOREM SyncIsDurable == Spec => []SyncedIsDurable
<1>1. DurableInv => SyncedIsDurable
  BY DEF DurableInv
<1> QED
  BY DurableInitial, DurableStep, <1>1, PTL DEF Spec
-----------------------------------------------------------------------------
(* The closed manifest.  It is written after a last sync has reached every *)
(* file, with the queues empty and the store stopping: from then on no     *)
(* number is given and no file changes, so that what is not on disk was    *)
(* refused or failed, and the manifest has counted as many at least.       *)

Drained == stopping /\ loose = {} /\ NothingQueued

LossesCounted == IsFiniteSet(refused \cup failed) /\ Cardinality(refused \cup failed) <= dropped

Missing == (1 .. seq) \ (onDisk \ loose)

CloserType ==
  closer \in [Closers -> {"idle", "publish", "stop", "join", "drained", "incomplete"}]

ManifestInv ==
  /\ LossesCounted /\ CloserType
  /\ writer = "manifest" => Drained
  /\ writer = "close" => manifest.closed
  /\ manifest.closed =>
       /\ writer \in {"close", "leave", "done"} /\ stopping
       /\ Cardinality(Missing) <= manifest.dropped
  /\ closed => manifest.closed
  /\ \A c \in Closers : closer[c] = "drained" => closed

LEMMA ManifestInitial == Init => ManifestInv
<1> SUFFICES ASSUME Init PROVE ManifestInv
  OBVIOUS
<1>1. refused \cup failed = {} /\ dropped = 0 /\ ~manifest.closed
  BY DEF Init
<1> QED
  BY <1>1, FS_EmptySet DEF Init, ManifestInv, LossesCounted, CloserType

(* A set that grows by one element at most has one element more at most. *)
LEMMA OneMore ==
  ASSUME NEW S, IsFiniteSet(S), NEW n \in Nat, Cardinality(S) <= n, NEW x
  PROVE  IsFiniteSet(S \cup {x}) /\ Cardinality(S \cup {x}) <= n + 1
<1>1. /\ IsFiniteSet(S \cup {x})
      /\ Cardinality(S \cup {x}) = IF x \in S THEN Cardinality(S) ELSE Cardinality(S) + 1
  BY FS_AddElement
<1>2. Cardinality(S) \in Nat
  BY FS_CardinalityType
<1> QED
  BY <1>1, <1>2

(* The steps in which a number is given or a loss is counted: none of them *)
(* gives a number once the store is stopping.                              *)
LEMMA NumberManifest ==
  ASSUME ManifestInv, LossInv, CloserType', NEW kind, Accepted(kind) \/ NumberedDrop(kind) \/ PlainDrop,
         UNCHANGED <<failed, stopping, closed, loose, onDisk, manifest>>,
         writer' = writer \/ (writer = "publish" /\ writer' \in {"take", "restore"}),
         \A c \in Closers : closer'[c] = "drained" => closer[c] = "drained"
  PROVE  ManifestInv'
<1>1. dropped \in Nat
  BY DEF LossInv
<1>2. LossesCounted'
  <2>1. CASE UNCHANGED <<dropped, refused>>
    BY <2>1 DEF ManifestInv, LossesCounted
  <2>2. CASE dropped' = dropped + 1 /\ UNCHANGED refused
    BY <1>1, <2>2, FS_CardinalityType DEF ManifestInv, LossesCounted
  <2>3. CASE dropped' = dropped + 1 /\ refused' = refused \cup {seq + 1}
    <3>1. (refused \cup failed)' = (refused \cup failed) \cup {seq + 1}
      BY <2>3
    <3> QED
      BY <1>1, <2>3, <3>1, OneMore DEF ManifestInv, LossesCounted
  <2> QED
    BY <2>1, <2>2, <2>3 DEF Accepted, NumberedDrop, PlainDrop
<1>3. stopping => UNCHANGED <<seq, normal, critical>>
  BY DEF Accepted, NumberedDrop, PlainDrop, queueVars
<1> QED
  BY <1>2, <1>3 DEF ManifestInv, Drained, NothingQueued, Missing

(* The steps of the other threads, and of the writer outside its last      *)
(* three places.                                                           *)
LEMMA ManifestStutter ==
  ASSUME ManifestInv, LossesCounted', CloserType', ~manifest.closed \/ UNCHANGED <<seq, loose, onDisk>>,
         writer = "manifest" => UNCHANGED <<normal, critical, loose>>,
         stopping => stopping', closed' = closed,
         manifest' = manifest \/ (writer = "sync" /\ ~manifest'.closed),
         \/ writer' = writer
         \/ /\ writer \notin {"close", "leave", "done", "manifest"}
            /\ writer' \notin {"close", "leave", "done", "manifest"},
         \A c \in Closers : closer'[c] = "drained" => closer[c] = "drained" \/ closed
  PROVE  ManifestInv'
BY DEF ManifestInv, Drained, NothingQueued, Missing

(* At the last sync nothing is queued and nothing is in the writer's hand: *)
(* every number is on disk or was refused or failed.                       *)
LEMMA DrainedIsCounted ==
  ASSUME ManifestInv, DurableInv, LossInv, writer = "manifest"
  PROVE  Cardinality(Missing) <= dropped
<1>1. Missing \subseteq refused \cup failed
  BY DEF DurableInv, AllAccounted, ManifestInv, Drained, NothingQueued, InQueue, InHand, Missing
<1>2. /\ IsFiniteSet(refused \cup failed) /\ Cardinality(refused \cup failed) <= dropped
      /\ dropped \in Nat
  BY DEF ManifestInv, LossesCounted, LossInv
<1>3. IsFiniteSet(Missing) /\ Cardinality(Missing) <= Cardinality(refused \cup failed)
  BY <1>1, <1>2, FS_Subset
<1> QED
  BY <1>2, <1>3, FS_CardinalityType

LEMMA ManifestStep == ManifestInv /\ DurableInv /\ LossInv /\ [Next]_vars => ManifestInv'
<1> SUFFICES ASSUME ManifestInv, DurableInv, LossInv, [Next]_vars PROVE ManifestInv'
  OBVIOUS
<1> USE DEF lossVars, stateVars
<1>1. UNCHANGED <<dropped, refused, failed>> => LossesCounted'
  BY DEF ManifestInv, LossesCounted
<1>0. CloserType'
  <2>1. closer' = closer \/ \E c \in Closers : \E from, to \in
          {"idle", "publish", "stop", "join", "drained", "incomplete"} : At(c, from, to)
    <3>1. ASSUME Writer PROVE closer' = closer
      BY <3>1 DEF Writer, Take, Taken, Write, Sync, TakeLosses, ReportLosses, RestoreLosses,
         LeaveLoop, LastSync, CloseManifest, SetClosed, Leave
    <3> QED
      BY <3>1 DEF Next, Idle, vars, BeginClose, PublishClosed, Stop, Join
  <2> QED
    BY <2>1 DEF ManifestInv, CloserType, At
<1>2. ASSUME NEW kind, Publish(kind),
             \A c \in Closers : closer'[c] = "drained" => closer[c] = "drained"
      PROVE  ManifestInv'
  <2>1. Accepted(kind) \/ NumberedDrop(kind) \/ PlainDrop
    BY <1>2 DEF Publish
  <2>2. UNCHANGED <<failed, stopping, closed, loose, onDisk, manifest, writer>>
    BY <1>2 DEF Publish, writerVars, diskVars
  <2> QED
    BY <1>2, <2>1, <2>2, <1>0, NumberManifest
<1>3. CASE Take
  BY <1>1, <1>3, <1>0, ManifestStutter DEF Take, Taken, diskVars
<1>4. CASE Write
  <2>1. /\ writer = "write" /\ writer' \in {"sync", "report"}
        /\ UNCHANGED <<refused, stopping, closed, manifest, closer>>
    BY <1>4 DEF Write
  <2>2. LossesCounted'
    <3>1. CASE UNCHANGED <<dropped, failed>>
      BY <1>1, <2>1, <3>1
    <3>2. CASE dropped' = dropped + 1 /\ failed' = failed \cup {item.seq}
      <4>1. (refused \cup failed)' = (refused \cup failed) \cup {item.seq}
        BY <2>1, <3>2
      <4> QED
        BY <3>2, <4>1, OneMore DEF ManifestInv, LossesCounted, LossInv
    <3> QED
      BY <1>4, <3>1, <3>2 DEF Write, WriteFails
  <2>3. ~manifest.closed
    BY <2>1 DEF ManifestInv
  <2> QED
    BY <2>1, <2>2, <2>3, <1>0, ManifestStutter
<1>5. CASE Sync
  <2>1. /\ writer = "sync" /\ writer' = "report"
        /\ UNCHANGED <<refused, failed, dropped, stopping, closed, closer>>
        /\ manifest' = manifest \/ manifest' = Snapshot(FALSE)
    BY <1>5 DEF Sync
  <2>2. ~manifest.closed /\ ~Snapshot(FALSE).closed
    BY <2>1 DEF ManifestInv, Snapshot
  <2> QED
    BY <1>1, <2>1, <2>2, <1>0, ManifestStutter
<1>6. CASE TakeLosses \/ RestoreLosses
  BY <1>1, <1>6, <1>0, ManifestStutter DEF TakeLosses, RestoreLosses, queueVars, diskVars
<1>7. CASE ReportLosses
  <2>1. /\ Accepted("loss") \/ NumberedDrop("loss") \/ PlainDrop
        /\ UNCHANGED <<failed, stopping, closed, loose, onDisk, manifest, closer>>
        /\ writer = "publish" /\ writer' \in {"take", "restore"}
    BY <1>7 DEF ReportLosses, diskVars
  <2> QED
    BY <2>1, <1>0, NumberManifest
<1>8. CASE LeaveLoop
  <2>1. /\ NothingQueued /\ writer = "take" /\ stopping
        /\ (Synced /\ writer' = "manifest") \/ writer' = "leave"
        /\ UNCHANGED <<normal, critical, refused, failed, dropped, stopping, closed, manifest, closer>>
    BY <1>8 DEF LeaveLoop, LastSync, queueVars
  <2>2. Synced => loose' = {}
    BY <2>1 DEF Synced, DurableInv, LooseIsOpen
  <2>3. ~manifest.closed
    BY <2>1 DEF ManifestInv
  <2> QED
    BY <1>1, <2>1, <2>2, <2>3, <1>0 DEF ManifestInv, Drained, NothingQueued
<1>9. CASE CloseManifest
  <2>1. /\ writer = "manifest" /\ UNCHANGED <<seq, onDisk, loose, refused, failed, dropped, stopping, closed, closer>>
        /\ \/ manifest' = Snapshot(TRUE) /\ writer' = "close"
           \/ manifest' = manifest /\ writer' = "leave"
    BY <1>9 DEF CloseManifest, queueVars, diskVars
  <2>2. stopping /\ ~manifest.closed
    BY <2>1 DEF ManifestInv, Drained
  <2>3. Snapshot(TRUE).closed = TRUE /\ Snapshot(TRUE).dropped = dropped
    BY DEF Snapshot
  <2>4. Cardinality(Missing) <= dropped /\ Missing' = Missing
    BY <2>1, DrainedIsCounted DEF Missing
  <2> QED
    BY <1>1, <2>1, <2>2, <2>3, <2>4, <1>0 DEF ManifestInv
<1>10. CASE SetClosed \/ Leave
  <2>1. /\ UNCHANGED <<seq, onDisk, loose, refused, failed, dropped, stopping, manifest, closer>>
        /\ \/ writer = "close" /\ writer' = "leave" /\ closed' = TRUE
           \/ writer = "leave" /\ writer' = "done" /\ closed' = closed
    BY <1>10 DEF SetClosed, Leave, queueVars, diskVars
  <2> QED
    BY <1>0, <1>1, <2>1 DEF ManifestInv, Missing
<1>11. ASSUME NEW c \in Closers, BeginClose(c) \/ Stop(c) \/ Join(c) PROVE ManifestInv'
  <2>1. UNCHANGED <<queueVars, refused, failed, dropped, closed, writer, diskVars, manifest>>
    BY <1>11 DEF BeginClose, Stop, Join, writerVars
  <2>2. stopping => stopping'
    BY <1>11 DEF BeginClose, Stop, Join
  <2>3. \A d \in Closers : closer'[d] = "drained" => closer[d] = "drained" \/ closed
    BY <1>11 DEF BeginClose, Stop, Join, At, ManifestInv, CloserType
  <2> QED
    BY <1>1, <2>1, <2>2, <2>3, <1>0, ManifestStutter DEF queueVars, diskVars
<1>12. CASE UNCHANGED vars
  BY <1>1, <1>12, <1>0, ManifestStutter DEF vars, queueVars, writerVars, diskVars
<1>13. ASSUME NEW c \in Closers, PublishClosed(c) PROVE ManifestInv'
  BY <1>2, <1>13 DEF PublishClosed, At, ManifestInv, CloserType
<1> QED
  BY <1>2, <1>3, <1>4, <1>5, <1>6, <1>7, <1>8, <1>9, <1>10, <1>11, <1>12, <1>13
     DEF Next, Writer, Idle

(* A loss is not hidden: in a record that says it is closed, and so        *)
(* whenever close() answers "drained", every number is on disk for good or *)
(* is counted in the manifest.                                             *)
THEOREM NoHiddenLoss == Spec => []LossIsCounted
<1>1. ManifestInv => LossIsCounted
  BY DEF ManifestInv, LossIsCounted, Missing
<1> QED
  BY LossInitial, LossStep, DurableInitial, DurableStep, ManifestInitial, ManifestStep, <1>1, PTL
     DEF Spec

-----------------------------------------------------------------------------
(* Exports.  The least element of a set of numbers, which the viewer goes  *)
(* to next.                                                                *)
LEMMA LeastNumber ==
  ASSUME NEW S, S \subseteq Nat, S # {}
  PROVE  Min(S) \in S /\ \A x \in S : Min(S) <= x
<1> DEFINE R == {ss \in Nat \X Nat : ss[1] < ss[2]}
<1>1. IsWellFoundedOn(R, Nat)
  BY NatLessThanWellFounded DEF OpToRel
<1>2. PICK x \in S : \A y \in S : ~(<<y, x>> \in R)
  BY <1>1, WFMin
<1>3. ASSUME NEW y \in S PROVE x <= y
  <2>1. x \in Nat /\ y \in Nat /\ <<y, x>> \in Nat \X Nat
    OBVIOUS
  <2>2. ~(y < x)
    BY <1>2, <2>1
  <2>3. QED
    BY <2>1, <2>2
<1>4. \E z \in S : \A y \in S : z =< y
  BY <1>3
<1>5. QED
  BY <1>4 DEF Min

(* Where the viewer is: on a page, among the producers, among the segments *)
(* of one, at a line of one.                                               *)
Moving == page.at \in {"walking", "segments", "reading", "tail"}
Inside == page.at \in {"segments", "reading", "tail"}
AtLine == page.at \in {"reading", "tail"}
OnPage == Moving \/ page.at = "listing"
Ended == page.at \in {"exported", "refused"}

Places == {"idle", "listing", "walking", "segments", "reading", "tail", "refused", "exported"}
Position == Nat \ {0}
LineIds == Producers \X Position \X Position
File == [lines : Nat, tail : BOOLEAN, there : BOOLEAN]

QueryTypes ==
  /\ producer \in [Producers -> {"none", "made", "alive", "dead"}]
  /\ segment \in [Producers -> Seq(File)]
  /\ retention \in Nat
  /\ page \in [at : Places, generation : Nat, todo : SUBSET Producers, segs : SUBSET Position, line : Nat]
  /\ cursor \in [in : Nat, seg : Nat, line : Nat, generation : Nat]
  /\ export \in [items : SUBSET LineIds, twice : BOOLEAN, told : BOOLEAN]
  /\ began \subseteq LineIds
  /\ \A p \in Producers : producer[p] = "none" => Newest(p) = 0

(* The lines that the cursor has left behind, those that the page has      *)
(* passed too, and, more narrowly, those that come before its place.       *)
Before(p, s, n) ==
  \/ p < cursor.in
  \/ p = cursor.in /\ (s < cursor.seg \/ (s = cursor.seg /\ n <= cursor.line))

InFile(p, s, n) == AtLine /\ p = Here /\ s = Min(page.segs) /\ n <= page.line

Passed(p, s, n) ==
  \/ Before(p, s, n) \/ InFile(p, s, n)
  \/ Moving /\ p \notin page.todo
  \/ Inside /\ p = Here /\ s \notin page.segs

ReadBefore(p, s, n) ==
  \/ Before(p, s, n) \/ InFile(p, s, n)
  \/ Moving /\ \A q \in page.todo : p < q
  \/ Inside /\ p = Here /\ \A t \in page.segs : s < t

InPlace ==
  /\ Moving => \A p \in page.todo : p >= cursor.in
  /\ Inside => /\ page.todo # {} /\ page.segs # {}
               /\ \A s \in page.segs : s <= Newest(Here) /\ s >= Resumed(Here).seg
  /\ AtLine => page.line >= FirstLine(Here, Min(page.segs))
  /\ page.at = "tail" =>
       \A n \in Position : <<Here, Min(page.segs), n>> \in began => n <= page.line

(* What is gone of the lines that were there at the beginning is in R.     *)
Gone(R) ==
  \A p \in Producers, s, n \in Position :
    <<p, s, n>> \in began /\ ~segment[p][s].there => <<p, s, n>> \in R

(* While retention.json has not changed, all that is gone is in removed,   *)
(* and the next page will not be told of it by its generation.             *)
Generations ==
  /\ page.generation <= retention /\ cursor.generation <= retention
  /\ page.at = "idle" /\ Resuming /\ cursor.generation = retention =>
       Gone(removed) /\ missed \subseteq removed
  /\ OnPage /\ page.generation = retention => Gone(removed) /\ missed \subseteq removed
  /\ OnPage => Gone(missed)

BeganIsWritten ==
  \A p \in Producers, s, n \in Position :
    <<p, s, n>> \in began => s <= Newest(p) /\ n <= segment[p][s].lines

PassedIsRead ==
  ~Ended => \A p \in Producers, s, n \in Position :
    <<p, s, n>> \in began \ missed /\ Passed(p, s, n) => <<p, s, n>> \in export.items

ReadIsEarlier ==
  ~Ended => \A p \in Producers, s, n \in Position :
    <<p, s, n>> \in export.items => ReadBefore(p, s, n)

WholeAtEnd == page.at = "exported" => began \ missed \subseteq export.items

Untold == InPlace /\ Generations /\ BeganIsWritten /\ PassedIsRead /\ ReadIsEarlier /\ WholeAtEnd

ExportInv == QueryTypes /\ ~export.twice /\ (~export.told => Untold)

LEMMA HereIsLeast ==
  ASSUME QueryTypes, page.todo # {}
  PROVE  Here \in page.todo /\ Here \in Position /\ \A q \in page.todo : q \in Position /\ Here <= q
<1>1. page.todo \subseteq Producers /\ page.todo \subseteq Nat /\ Producers \subseteq Position
  BY QueryAssumption DEF QueryTypes, Position
<1>2. QED
  BY <1>1, LeastNumber DEF Here

LEMMA FirstIsLeast ==
  ASSUME QueryTypes, page.segs # {}
  PROVE  /\ Min(page.segs) \in page.segs /\ Min(page.segs) \in Position
         /\ \A s \in page.segs : s \in Position /\ Min(page.segs) <= s
<1>1. page.segs \subseteq Position /\ page.segs \subseteq Nat
  BY DEF QueryTypes, Position
<1>2. QED
  BY <1>1, LeastNumber

LEMMA FileTypes ==
  ASSUME NEW q \in Seq(File)
  PROVE  Len(q) \in Nat /\ \A s \in 1 .. Len(q) : q[s] \in File /\ q[s].lines \in Nat
<1>1. Len(q) \in Nat /\ \A s \in 1 .. Len(q) : q[s] \in File
  OBVIOUS
<1>2. \A r \in File : r.lines \in Nat
  BY DEF File
<1>3. QED
  BY <1>1, <1>2

LEMMA ExportInitial == QueryInit => ExportInv
<1> SUFFICES ASSUME QueryInit PROVE ExportInv
  OBVIOUS
<1>1. QueryTypes
  BY DEF QueryInit, QueryTypes, NoPage, NoCursor, Newest, Places, Position, LineIds
<1>2. InPlace /\ Generations /\ BeganIsWritten /\ WholeAtEnd
  BY DEF QueryInit, NoPage, NoCursor, InPlace, Generations, BeganIsWritten, WholeAtEnd,
         Moving, Inside, AtLine, OnPage, Resuming
<1>3. PassedIsRead /\ ReadIsEarlier
  BY DEF QueryInit, PassedIsRead, ReadIsEarlier
<1>4. QED
  BY <1>1, <1>2, <1>3 DEF ExportInv, Untold, QueryInit

-----------------------------------------------------------------------------
(* Producers and retention. *)

(* A segment only grows, and its file stays or goes. *)
Grows ==
  \A p \in Producers : Newest(p)' >= Newest(p) /\
    \A s \in 1 .. Newest(p) :
      segment'[p][s].lines >= segment[p][s].lines /\ segment'[p][s].there = segment[p][s].there

LEMMA GrowStep ==
  ASSUME ExportInv, ~export.told, QueryTypes', Grows, Unread
  PROVE  ExportInv'
<1> USE DEF Unread
<1>1. InPlace'
  <2>1. ASSUME Inside PROVE Here \in Producers /\ Newest(Here)' >= Newest(Here)
                            /\ Newest(Here) \in Nat /\ Newest(Here)' \in Nat
    <3>1. Here \in Producers
      BY <2>1, HereIsLeast DEF ExportInv, Untold, InPlace, QueryTypes
    <3>2. QED
      BY <3>1 DEF Grows, ExportInv, QueryTypes, Newest, Here
  <2>2. QED
    BY <2>1 DEF ExportInv, Untold, InPlace, Moving, Inside, AtLine, Here, Resumed, FirstLine, QueryTypes, Position
<1>2. \A p \in Producers, s, n \in Position : <<p, s, n>> \in began =>
        /\ s \in 1 .. Newest(p) /\ n <= segment[p][s].lines
        /\ segment'[p][s].there = segment[p][s].there
        /\ segment'[p][s].lines >= segment[p][s].lines
  BY DEF ExportInv, Untold, BeganIsWritten, Grows, QueryTypes, Position, Newest
<1>3. BeganIsWritten'
  <2>1. \A p \in Producers :
          /\ Newest(p) \in Nat /\ Newest(p)' \in Nat /\ Newest(p)' >= Newest(p)
          /\ \A s \in 1 .. Newest(p) : segment[p][s].lines \in Nat
          /\ \A s \in 1 .. Newest(p)' : segment'[p][s].lines \in Nat
    BY FileTypes DEF ExportInv, QueryTypes, Grows, Newest
  <2>2. ASSUME NEW p \in Producers, NEW s \in Position, NEW n \in Position, <<p, s, n>> \in began
        PROVE  s <= Newest(p)' /\ n <= segment'[p][s].lines
    <3>1. s \in 1 .. Newest(p)'
      BY <1>2, <2>1, <2>2
    <3>2. segment[p][s].lines \in Nat /\ segment'[p][s].lines \in Nat
      BY <1>2, <2>1, <2>2, <3>1
    <3>3. n <= segment[p][s].lines /\ segment'[p][s].lines >= segment[p][s].lines
      BY <1>2, <2>2
    <3>4. QED
      BY <2>1, <3>1, <3>2, <3>3 DEF Position
  <2>3. QED
    BY <2>2 DEF BeganIsWritten
<1>5. Generations'
  <2>1. (Gone(removed) => Gone(removed)') /\ (Gone(missed) => Gone(missed)')
    BY <1>2 DEF Gone
  <2>2. QED
    BY <2>1 DEF ExportInv, Untold, Generations, OnPage, Moving, Resuming
<1>6. PassedIsRead' /\ ReadIsEarlier' /\ WholeAtEnd'
  BY DEF ExportInv, Untold, PassedIsRead, ReadIsEarlier, WholeAtEnd, Passed, ReadBefore, Before, InFile,
         Moving, Inside, AtLine, Ended, Here
<1>7. QED
  BY <1>1, <1>3, <1>5, <1>6 DEF ExportInv, Untold

LEMMA ProducerStep ==
  ASSUME ExportInv, ~export.told, NEW p \in Producers,
         StartProducer(p) \/ NewSegment(p) \/ WriteLine(p) \/ ProducerDies(p)
  PROVE  ExportInv'
<1>1. /\ segment[p] \in Seq(File) /\ producer[p] \in {"none", "made", "alive", "dead"}
      /\ \A q \in Producers : segment[q] \in Seq(File)
  BY DEF ExportInv, QueryTypes
<1>2. CASE StartProducer(p) \/ ProducerDies(p)
  <2>1. QueryTypes' /\ Unread
    BY <1>2 DEF StartProducer, ProducerDies, ExportInv, QueryTypes, Unread, Newest
  <2>2. Grows
    <3>1. /\ UNCHANGED segment
          /\ \A q \in Producers : Newest(q) \in Nat /\ \A s \in 1 .. Newest(q) : segment[q][s].lines \in Nat
      BY <1>1, <1>2, FileTypes DEF StartProducer, ProducerDies, Newest
    <3>2. QED
      BY <3>1 DEF Grows, Newest
  <2>3. QED
    BY <2>1, <2>2, GrowStep
<1>3. ASSUME NEW new \in Seq(File), segment' = [segment EXCEPT ![p] = new], Unread, UNCHANGED producer,
             producer[p] = "alive", Len(new) >= Newest(p),
             \A s \in 1 .. Newest(p) : new[s].lines >= segment[p][s].lines /\ new[s].there = segment[p][s].there
      PROVE  ExportInv'
  <2>1. /\ segment'[p] = new /\ \A q \in Producers : q # p => segment'[q] = segment[q]
        /\ segment' \in [Producers -> Seq(File)]
    BY <1>3 DEF ExportInv, QueryTypes
  <2>2. QueryTypes'
    BY <1>3, <2>1 DEF ExportInv, QueryTypes, Unread, Newest
  <2>3. Grows
    <3>1. /\ \A q \in Producers : Newest(q) \in Nat /\ \A s \in 1 .. Newest(q) : segment[q][s].lines \in Nat
          /\ Newest(p)' = Len(new) /\ Len(new) \in Nat
          /\ \A q \in Producers : q # p => Newest(q)' = Newest(q)
      BY <1>1, <1>3, <2>1, FileTypes DEF Newest
    <3>2. QED
      BY <1>3, <2>1, <3>1 DEF Grows
  <2>4. QED
    BY <1>3, <2>2, <2>3, GrowStep
<1>4. CASE NewSegment(p)
  <2> DEFINE e == [lines |-> 0, tail |-> FALSE, there |-> TRUE]
             new == Append(segment[p], e)
  <2>1. segment' = [segment EXCEPT ![p] = new] /\ Unread /\ UNCHANGED producer /\ producer[p] = "alive"
    BY <1>4 DEF NewSegment
  <2>2. e \in File
    BY DEF File
  <2>3. /\ new \in Seq(File) /\ Len(new) >= Newest(p)
        /\ \A s \in 1 .. Newest(p) : new[s] = segment[p][s] /\ segment[p][s].lines \in Nat
    BY <1>1, <2>2, FileTypes DEF Newest
  <2> HIDE DEF new
  <2>4. \A s \in 1 .. Newest(p) : new[s].lines >= segment[p][s].lines /\ new[s].there = segment[p][s].there
    BY <2>3
  <2>5. QED
    BY <1>3, <2>1, <2>3, <2>4
<1>5. CASE WriteLine(p)
  <2>1. PICK i \in 1 .. Len(segment[p]) : i = Newest(p)
    BY <1>1, <1>5 DEF WriteLine, Newest
  <2> DEFINE old == segment[p][i]
             grown == old.lines + 1
             e == IF old.tail THEN [old EXCEPT !.tail = FALSE, !.lines = grown] ELSE [old EXCEPT !.tail = TRUE]
             new == [segment[p] EXCEPT ![i] = e]
  <2>2. segment' = [segment EXCEPT ![p] = new] /\ Unread /\ UNCHANGED producer /\ producer[p] = "alive"
    <3>1. CASE old.tail
      BY <1>5, <2>1, <3>1 DEF WriteLine, ExportInv, QueryTypes
    <3>2. CASE ~old.tail
      BY <1>5, <2>1, <3>2 DEF WriteLine, ExportInv, QueryTypes
    <3>3. QED
      BY <3>1, <3>2
  <2>3. old \in File
    BY <1>1
  <2>4. grown \in Nat /\ grown >= old.lines
    BY <2>3 DEF File
  <2> HIDE DEF old, grown
  <2>5. e \in File /\ e.there = old.there /\ e.lines >= old.lines
    <3>1. CASE old.tail
      <4>1. e = [old EXCEPT !.tail = FALSE, !.lines = grown]
        BY <3>1
      <4> HIDE DEF e
      <4>2. QED
        <5>1. e \in File
          BY <2>3, <2>4, <4>1 DEF File
        <5>2. e.there = old.there
          BY <2>3, <4>1 DEF File
        <5>3. e.lines = grown
          BY <2>3, <4>1 DEF File
        <5>4. QED
          BY <2>4, <5>1, <5>2, <5>3
    <3>2. CASE ~old.tail
      <4>1. e = [old EXCEPT !.tail = TRUE]
        BY <3>2
      <4> HIDE DEF e
      <4>2. QED
        <5>1. e \in File
          BY <2>3, <4>1 DEF File
        <5>2. e.there = old.there
          BY <2>3, <4>1 DEF File
        <5>3. e.lines = old.lines
          BY <2>3, <4>1 DEF File
        <5>4. QED
          BY <2>3, <5>1, <5>2, <5>3 DEF File
    <3>3. QED
      BY <3>1, <3>2
  <2> HIDE DEF e
  <2>6. /\ new \in Seq(File) /\ Len(new) = Len(segment[p])
        /\ \A s \in 1 .. Len(segment[p]) : new[s] = IF s = i THEN e ELSE segment[p][s]
    BY <1>1, <2>5, ExceptSeq
  <2> HIDE DEF new
  <2>7. \A s \in 1 .. Newest(p) : new[s].lines >= segment[p][s].lines /\ new[s].there = segment[p][s].there
    BY <1>1, <2>5, <2>6, FileTypes DEF Newest, old
  <2>8. Len(new) >= Newest(p)
    BY <1>1, <2>6 DEF Newest
  <2>9. QED
    BY <1>3, <2>2, <2>6, <2>7, <2>8
<1>6. QED
  BY <1>2, <1>4, <1>5

LEMMA RemoveStep ==
  ASSUME ExportInv, ~export.told, NEW p \in Producers, NEW s \in 1 .. MaxSegments, RemoveSegment(p, s)
  PROVE  ExportInv'
<1>1. /\ segment[p] \in Seq(File) /\ s \in 1 .. Len(segment[p]) /\ s \in Position
      /\ removed' = removed \cup Lines(p, s) /\ missed' = missed \cup Lines(p, s)
      /\ UNCHANGED <<producer, retention, page, cursor, export, began>>
  BY DEF RemoveSegment, Listed, Newest, ExportInv, QueryTypes, Position
<1> DEFINE old == segment[p][s]
           e == [old EXCEPT !.there = FALSE]
           new == [segment[p] EXCEPT ![s] = e]
<1>2. segment' = [segment EXCEPT ![p] = new]
  BY DEF RemoveSegment, ExportInv, QueryTypes
<1>3. old \in File
  BY <1>1
<1> HIDE DEF old
<1>4. e \in File /\ e.lines = old.lines
  BY <1>3 DEF File
<1> HIDE DEF e
<1>5. /\ new \in Seq(File) /\ Len(new) = Len(segment[p])
      /\ \A t \in 1 .. Len(segment[p]) : new[t] = IF t = s THEN e ELSE segment[p][t]
  BY <1>1, <1>4, ExceptSeq
<1> HIDE DEF new
<1>6. /\ segment' \in [Producers -> Seq(File)] /\ segment'[p] = new
      /\ \A q \in Producers : q # p => segment'[q] = segment[q]
  BY <1>2, <1>5 DEF ExportInv, QueryTypes
<1>7. \A q \in Producers : Newest(q)' = Newest(q)
  BY <1>5, <1>6 DEF Newest
<1>8. QueryTypes'
  BY <1>1, <1>6, <1>7 DEF ExportInv, QueryTypes
<1>9. InPlace'
  <2>1. ASSUME Inside PROVE Newest(Here)' = Newest(Here)
    <3>1. Here \in Producers
      BY <2>1, HereIsLeast DEF ExportInv, Untold, InPlace, QueryTypes
    <3>2. QED
      BY <1>1, <1>7, <3>1 DEF Here
  <2>2. QED
    BY <1>1, <2>1 DEF ExportInv, Untold, InPlace, Moving, Inside, AtLine, Here, Resumed, FirstLine
<1>10. ASSUME NEW q \in Producers, NEW t \in Position, NEW n \in Position, <<q, t, n>> \in began
       PROVE  /\ t <= Newest(q) /\ n <= segment'[q][t].lines
              /\ segment'[q][t].there = segment[q][t].there \/ <<q, t, n>> \in Lines(p, s)
  <2>1. t \in 1 .. Newest(q) /\ n <= segment[q][t].lines
    <3>1. t <= Newest(q) /\ n <= segment[q][t].lines
      BY <1>10 DEF ExportInv, Untold, BeganIsWritten
    <3>2. Newest(q) \in Nat /\ t \in Nat /\ t >= 1
      BY DEF ExportInv, QueryTypes, Newest, Position
    <3>3. QED
      BY <3>1, <3>2
  <2>2. CASE q = p /\ t = s
    BY <1>1, <1>4, <1>5, <1>6, <2>1, <2>2 DEF Lines, Position, old, Newest
  <2>3. CASE ~(q = p /\ t = s)
    BY <1>1, <1>5, <1>6, <2>1, <2>3 DEF Newest
  <2>4. QED
    BY <2>1, <2>2, <2>3
<1>11. BeganIsWritten'
  BY <1>1, <1>7, <1>10 DEF BeganIsWritten
<1>12. (Gone(removed) => Gone(removed)') /\ (Gone(missed) => Gone(missed)')
  BY <1>1, <1>10 DEF Gone
<1>13. Generations'
  BY <1>1, <1>12 DEF ExportInv, Untold, Generations, OnPage, Moving, Resuming
<1>14. PassedIsRead' /\ ReadIsEarlier' /\ WholeAtEnd'
  BY <1>1 DEF ExportInv, Untold, PassedIsRead, ReadIsEarlier, WholeAtEnd, Passed, ReadBefore, Before, InFile,
         Moving, Inside, AtLine, Ended, Here
<1>15. QED
  BY <1>1, <1>8, <1>9, <1>11, <1>13, <1>14 DEF ExportInv, Untold

LEMMA TellStep ==
  ASSUME ExportInv, ~export.told, TellRemoval
  PROVE  ExportInv'
<1>1. /\ retention \in Nat /\ retention' = retention + 1
      /\ UNCHANGED <<producer, segment, page, cursor, export, began, missed>>
      /\ page.generation \in Nat /\ cursor.generation \in Nat
  BY DEF TellRemoval, ExportInv, QueryTypes
<1>2. QueryTypes'
  BY <1>1 DEF ExportInv, QueryTypes, Newest
<1>3. InPlace' /\ BeganIsWritten' /\ PassedIsRead' /\ ReadIsEarlier' /\ WholeAtEnd'
  BY <1>1 DEF ExportInv, Untold, InPlace, BeganIsWritten, PassedIsRead, ReadIsEarlier, WholeAtEnd,
         Passed, ReadBefore, Before, InFile, Moving, Inside, AtLine, Ended, Here, Resumed, FirstLine, Newest
<1>4. Generations'
  BY <1>1 DEF ExportInv, Untold, Generations, OnPage, Moving, Resuming, Gone
<1>5. QED
  BY <1>1, <1>2, <1>3, <1>4 DEF ExportInv, Untold
-----------------------------------------------------------------------------
(* The viewer.  What a step of it leaves alone. *)

LEMMA BeginStep ==
  ASSUME ExportInv, ~export.told, BeginPage
  PROVE  ExportInv'
<1>1. /\ page.at = "idle" /\ UNCHANGED <<producer, segment, retention, removed, cursor>>
      /\ page' = [NoPage EXCEPT !.at = "listing", !.generation = retention]
      /\ export' = [export EXCEPT !.told = @ \/ Stale] /\ missed' = removed
      /\ began' = IF Resuming THEN began ELSE AllLines
  BY DEF BeginPage, Told, recordVars
<1>2. /\ page'.at = "listing" /\ page'.generation = retention
      /\ page' \in [at : Places, generation : Nat, todo : SUBSET Producers, segs : SUBSET Position, line : Nat]
  BY <1>1 DEF NoPage, Places, ExportInv, QueryTypes
<1>3. /\ export' \in [items : SUBSET LineIds, twice : BOOLEAN, told : BOOLEAN]
      /\ export'.items = export.items /\ ~export'.twice
      /\ ~export'.told => ~Stale
  BY <1>1 DEF ExportInv, QueryTypes, Stale, Resuming
<1>4. ASSUME NEW p \in Producers, NEW s \in Position, NEW n \in Position, <<p, s, n>> \in AllLines
      PROVE  s <= Newest(p) /\ n <= segment[p][s].lines /\ segment[p][s].there
  BY <1>4 DEF AllLines, Listed, Lines, Position
<1>5. AllLines \subseteq LineIds
  <2>1. ASSUME NEW p \in Producers, NEW s \in Listed(p), NEW n \in 1 .. segment[p][s].lines
        PROVE  <<p, s, n>> \in LineIds
    BY DEF Listed, LineIds, Position
  <2>2. QED
    BY <2>1 DEF AllLines, Lines
<1>6. QueryTypes'
  BY <1>1, <1>2, <1>3, <1>5 DEF ExportInv, QueryTypes, Newest
<1>7. ASSUME ~Stale PROVE Untold'
  <2>1. InPlace' /\ WholeAtEnd'
    BY <1>2 DEF InPlace, WholeAtEnd, Moving, Inside, AtLine
  <2>2. BeganIsWritten'
    BY <1>1, <1>4 DEF ExportInv, Untold, BeganIsWritten, Newest
  <2>3. Gone(removed)'
    <3>1. CASE Resuming
      BY <1>1, <1>7, <3>1 DEF ExportInv, Untold, Generations, Stale, Gone
    <3>2. CASE ~Resuming
      BY <1>1, <1>4, <3>2 DEF Gone
    <3>3. QED
      BY <3>1, <3>2
  <2>4. Gone(missed)'
    BY <1>1, <2>3 DEF Gone
  <2>5. Generations'
    <3>1. retention \in Nat /\ cursor.generation <= retention
      BY DEF ExportInv, Untold, Generations, QueryTypes
    <3>2. QED
      BY <1>1, <1>2, <2>3, <2>4, <3>1 DEF Generations, OnPage, Moving
  <2>6. ASSUME NEW p \in Producers, NEW s \in Position, NEW n \in Position
        PROVE  /\ Passed(p, s, n)' <=> Before(p, s, n)
               /\ ReadBefore(p, s, n)' <=> Before(p, s, n)
               /\ Passed(p, s, n) <=> Before(p, s, n)
               /\ ReadBefore(p, s, n) <=> Before(p, s, n)
    BY <1>1, <1>2 DEF Passed, ReadBefore, Before, InFile, Moving, Inside, AtLine
  <2>7. ASSUME ~Resuming, NEW p \in Producers, NEW s \in Position, NEW n \in Position
        PROVE  ~Before(p, s, n)
    BY <2>7, QueryAssumption DEF Resuming, NoCursor, Before
  <2>8. PassedIsRead'
    <3>1. ASSUME NEW p \in Producers, NEW s \in Position, NEW n \in Position,
                 <<p, s, n>> \in began' \ missed', Before(p, s, n)
          PROVE  <<p, s, n>> \in export.items
      <4>1. Resuming /\ <<p, s, n>> \in began
        BY <1>1, <2>7, <3>1
      <4>2. missed \subseteq removed
        BY <1>1, <1>7, <4>1 DEF ExportInv, Untold, Generations, Stale
      <4>3. QED
        BY <1>1, <2>6, <3>1, <4>1, <4>2 DEF ExportInv, Untold, PassedIsRead, Ended
    <3>2. QED
      BY <1>3, <2>6, <3>1 DEF PassedIsRead
  <2>9. ReadIsEarlier'
    BY <1>1, <1>3, <2>6 DEF ExportInv, Untold, ReadIsEarlier, Ended
  <2>10. QED
    BY <2>1, <2>2, <2>5, <2>8, <2>9 DEF Untold
<1>8. QED
  BY <1>3, <1>6, <1>7 DEF ExportInv

LEMMA ListStep ==
  ASSUME ExportInv, ~export.told, ListProducers
  PROVE  ExportInv'
<1> DEFINE listed == {p \in Producers : producer[p] # "none" /\ p >= cursor.in}
<1>1. /\ page.at = "listing" /\ UNCHANGED <<recordVars, cursor, export, began, missed>>
      /\ page' = [page EXCEPT !.at = "walking", !.todo = listed]
  BY DEF ListProducers
<1>2. /\ page'.at = "walking" /\ page'.todo = listed /\ page'.generation = page.generation
      /\ page' \in [at : Places, generation : Nat, todo : SUBSET Producers, segs : SUBSET Position, line : Nat]
  BY <1>1 DEF Places, ExportInv, QueryTypes
<1>3. UNCHANGED <<producer, segment, retention, removed, cursor, export, began, missed>>
  BY <1>1 DEF recordVars
<1>4. QueryTypes'
  BY <1>2, <1>3 DEF ExportInv, QueryTypes, Newest
<1>5. InPlace' /\ WholeAtEnd' /\ BeganIsWritten'
  BY <1>2, <1>3 DEF ExportInv, Untold, InPlace, WholeAtEnd, BeganIsWritten, Moving, Inside, AtLine, Newest
<1>6. Generations'
  BY <1>1, <1>2, <1>3 DEF ExportInv, Untold, Generations, OnPage, Moving, Gone, Resuming
<1>7. ASSUME NEW p \in Producers, NEW s \in Position, NEW n \in Position
      PROVE  /\ Passed(p, s, n)' => Before(p, s, n) \/ p \notin listed
             /\ Before(p, s, n) => ReadBefore(p, s, n)'
             /\ Passed(p, s, n) <=> Before(p, s, n)
             /\ ReadBefore(p, s, n) <=> Before(p, s, n)
  BY <1>1, <1>2, <1>3 DEF Passed, ReadBefore, Before, InFile, Moving, Inside, AtLine
<1>8. ASSUME NEW p \in Producers, NEW s \in Position, NEW n \in Position,
             <<p, s, n>> \in began, p \notin listed
      PROVE  Before(p, s, n)
  <2>1. producer[p] # "none"
    BY <1>8 DEF ExportInv, Untold, BeganIsWritten, QueryTypes, Position
  <2>2. p < cursor.in
    BY <1>8, <2>1, QueryAssumption DEF ExportInv, QueryTypes
  <2>3. QED
    BY <2>2 DEF Before
<1>9. PassedIsRead' /\ ReadIsEarlier'
  BY <1>1, <1>2, <1>3, <1>7, <1>8 DEF ExportInv, Untold, PassedIsRead, ReadIsEarlier, Ended
<1>10. QED
  BY <1>3, <1>4, <1>5, <1>6, <1>9 DEF ExportInv, Untold

(* Of the lines of the producer that the viewer is at, those that the      *)
(* cursor has left behind are those before the line where it resumes.      *)
LEMMA ResumesThere ==
  ASSUME QueryTypes, NEW p \in Producers, cursor.in <= p, NEW s \in Position, NEW n \in Position
  PROVE  /\ Before(p, s, n) <=> s < Resumed(p).seg \/ (s = Resumed(p).seg /\ n <= Resumed(p).line)
         /\ Resumed(p).seg \in Nat /\ Resumed(p).line \in Nat /\ FirstLine(p, s) \in Nat
         /\ s >= Resumed(p).seg => (Before(p, s, n) <=> n <= FirstLine(p, s))
<1>1. /\ cursor.in \in Nat /\ cursor.seg \in Nat /\ cursor.line \in Nat
      /\ p \in Position
  BY QueryAssumption DEF QueryTypes, Position
<1>2. CASE p = cursor.in
  BY <1>1, <1>2 DEF Before, Resumed, FirstLine, Position
<1>3. CASE p # cursor.in
  BY <1>1, <1>3 DEF Before, Resumed, FirstLine, NoCursor, Position
<1>4. QED
  BY <1>2, <1>3

(* A page may stop where all before has been passed and all that has been  *)
(* read lies before.                                                       *)
LEMMA StopStep ==
  ASSUME ExportInv, ~export.told, Moving, page.todo # {}, NEW p \in Producers, p = Here,
         NEW s \in Nat, NEW line \in Nat, StopPage(p, s, line),
         \A t, n \in Position : t < s \/ (t = s /\ n <= line) => Passed(p, t, n),
         \A t, n \in Position : <<p, t, n>> \in export.items => t < s \/ (t = s /\ n <= line)
  PROVE  ExportInv'
<1> DEFINE next == [in |-> p, seg |-> s, line |-> line, generation |-> page.generation]
<1>1. /\ UNCHANGED <<producer, segment, retention, removed, export, began, missed>> /\ cursor' = next
      /\ page'.at \in {"refused", "idle"} /\ page'.generation = 0 /\ page'.todo = {} /\ page'.segs = {}
      /\ page' \in [at : Places, generation : Nat, todo : SUBSET Producers, segs : SUBSET Position, line : Nat]
  BY DEF StopPage, recordVars, NoPage, Places
<1>2. p \in page.todo /\ p \in Position /\ \A q \in page.todo : q \in Position /\ p <= q
  BY HereIsLeast DEF ExportInv
<1>3. page.generation \in Nat /\ retention \in Nat /\ page.generation <= retention
  BY DEF ExportInv, QueryTypes, Untold, Generations
<1>4. QueryTypes'
  BY <1>1, <1>2, <1>3 DEF ExportInv, QueryTypes, Newest, Position
<1>5. InPlace' /\ WholeAtEnd' /\ BeganIsWritten'
  BY <1>1 DEF ExportInv, Untold, InPlace, WholeAtEnd, BeganIsWritten, Moving, Inside, AtLine, Newest
<1>6. Generations'
  BY <1>1, <1>3 DEF ExportInv, Untold, Generations, OnPage, Moving, Gone
<1>7. ASSUME NEW q \in Producers, NEW t \in Position, NEW n \in Position
      PROVE  /\ Passed(q, t, n)' <=> Before(q, t, n)'
             /\ ReadBefore(q, t, n)' <=> Before(q, t, n)'
             /\ Before(q, t, n)' <=> q < p \/ (q = p /\ (t < s \/ (t = s /\ n <= line)))
  BY <1>1 DEF Passed, ReadBefore, Before, InFile, Moving, Inside, AtLine
<1>8. ASSUME NEW q \in Producers, NEW t \in Position, NEW n \in Position, Before(q, t, n)'
      PROVE  Passed(q, t, n)
  <2>1. CASE q = p
    BY <1>2, <1>7, <1>8, <2>1 DEF Position
  <2>2. CASE q < p
    <3>1. q \notin page.todo
      BY <1>2, <2>2, QueryAssumption
    <3>2. QED
      BY <3>1 DEF Passed
  <2>3. QED
    BY <1>7, <1>8, <2>1, <2>2
<1>9. ASSUME NEW q \in Producers, NEW t \in Position, NEW n \in Position, <<q, t, n>> \in export.items
      PROVE  Before(q, t, n)'
  <2>1. CASE q = p
    BY <1>7, <1>9, <2>1
  <2>2. CASE q # p
    <3>1. ReadBefore(q, t, n) /\ p >= cursor.in /\ cursor.in \in Nat /\ q \in Nat /\ p \in Nat
      BY <1>2, <1>9, QueryAssumption DEF ExportInv, Untold, ReadIsEarlier, Ended, Moving, InPlace, QueryTypes
    <3>2. q < p
      BY <1>2, <2>2, <3>1 DEF ReadBefore, Before, InFile
    <3>3. QED
      BY <1>7, <3>2
  <2>3. QED
    BY <2>1, <2>2
<1>10. PassedIsRead'
  BY <1>1, <1>7, <1>8 DEF ExportInv, Untold, PassedIsRead, Ended, Moving
<1>11. ReadIsEarlier'
  BY <1>1, <1>7, <1>9 DEF ReadIsEarlier
<1>12. QED
  BY <1>1, <1>4, <1>5, <1>6, <1>10, <1>11 DEF ExportInv, Untold

(* The segments that are dropped from the list hold nothing that must      *)
(* still be read, and those that stay are not begun.                       *)
LEMMA VisitStep ==
  ASSUME ExportInv, ~export.told, Moving, page.todo # {}, NEW p \in Producers, p = Here,
         NEW segs, segs \subseteq Position, VisitNext(segs),
         UNCHANGED <<recordVars, cursor, began, missed>>,
         export' \in [items : SUBSET LineIds, twice : BOOLEAN, told : BOOLEAN],
         export'.items = export.items, export'.twice = export.twice,
         \A s \in segs : s <= Newest(p) /\ s >= Resumed(p).seg,
         \A t, n \in Position :
           t \notin segs /\ <<p, t, n>> \in began \ missed => Passed(p, t, n),
         \A t, n \in Position : 
           <<p, t, n>> \in export.items => Before(p, t, n) \/ \A s \in segs : t < s
  PROVE  ExportInv'
<1>1. UNCHANGED <<producer, segment, retention, removed, cursor, began, missed>>
  BY DEF recordVars
<1>2. p \in page.todo /\ p \in Position /\ \A q \in page.todo : q \in Position /\ p <= q
  BY HereIsLeast DEF ExportInv
<1>3. /\ page'.segs = segs /\ page'.generation = page.generation
      /\ segs = {} => page'.at = "walking" /\ page'.todo = page.todo \ {p}
      /\ segs # {} => page'.at = "segments" /\ page'.todo = page.todo
      /\ page' \in [at : Places, generation : Nat, todo : SUBSET Producers, segs : SUBSET Position, line : Nat]
  BY DEF VisitNext, Places, ExportInv, QueryTypes
<1>4. QueryTypes'
  BY <1>1, <1>3 DEF ExportInv, QueryTypes, Newest
<1>5. segs # {} => Here' = p
  BY <1>3 DEF Here
<1>6. InPlace'
  <2>1. CASE segs = {}
    BY <1>1, <1>3, <2>1 DEF ExportInv, Untold, InPlace, Moving, Inside, AtLine
  <2>2. CASE segs # {}
    BY <1>1, <1>3, <1>5, <2>2 DEF ExportInv, Untold, InPlace, Moving, Inside, AtLine, Newest, Resumed
  <2>3. QED
    BY <2>1, <2>2
<1>7. WholeAtEnd' /\ BeganIsWritten' /\ Generations'
  BY <1>1, <1>3 DEF ExportInv, Untold, WholeAtEnd, BeganIsWritten, Generations, Moving, OnPage, Newest, Gone, Resuming
<1>8. ASSUME NEW q \in Producers, NEW t \in Position, NEW n \in Position,
             <<q, t, n>> \in began \ missed, Passed(q, t, n)'
      PROVE  Passed(q, t, n)
  <2>1. Before(q, t, n)' <=> Before(q, t, n)
    BY <1>1 DEF Before
  <2>2. CASE segs = {}
    BY <1>3, <1>8, <2>1, <2>2 DEF Passed, InFile, AtLine, Moving, Inside
  <2>3. CASE segs # {}
    BY <1>3, <1>5, <1>8, <2>1, <2>3 DEF Passed, InFile, AtLine, Moving, Inside
  <2>4. QED
    BY <2>2, <2>3
<1>9. ASSUME NEW q \in Producers, NEW t \in Position, NEW n \in Position, <<q, t, n>> \in export.items
      PROVE  ReadBefore(q, t, n)'
  <2>1. Before(q, t, n)' <=> Before(q, t, n)
    BY <1>1 DEF Before
  <2>2. ReadBefore(q, t, n)
    BY <1>9 DEF ExportInv, Untold, ReadIsEarlier, Ended, Moving
  <2>3. CASE q = p /\ segs = {}
    <3>1. \A r \in page'.todo : q < r
      BY <1>2, <1>3, <2>3 DEF Position
    <3>2. QED
      BY <1>3, <2>3, <3>1 DEF ReadBefore, Moving
  <2>4. CASE q = p /\ segs # {}
    BY <1>3, <1>5, <1>9, <2>1, <2>4 DEF ReadBefore, Inside
  <2>5. CASE q # p
    <3>1. Before(q, t, n) \/ \A r \in page.todo : q < r
      BY <2>2, <2>5 DEF ReadBefore, InFile
    <3>2. page'.todo \subseteq page.todo /\ page'.at \in {"walking", "segments"}
      BY <1>3
    <3>3. QED
      BY <2>1, <3>1, <3>2 DEF ReadBefore, Moving
  <2>6. QED
    BY <2>3, <2>4, <2>5
<1>10. PassedIsRead' /\ ReadIsEarlier'
  BY <1>1, <1>3, <1>8, <1>9 DEF ExportInv, Untold, PassedIsRead, ReadIsEarlier, Ended, Moving
<1>11. QED
  BY <1>4, <1>6, <1>7, <1>10 DEF ExportInv, Untold

(* Once a gap is noted nothing more is promised. *)
LEMMA ToldStep ==
  ASSUME ExportInv, UNCHANGED <<recordVars, cursor, began, missed>>, Told(TRUE),
         page' \in [at : Places, generation : Nat, todo : SUBSET Producers, segs : SUBSET Position, line : Nat]
  PROVE  ExportInv' /\ export'.told
<1>1. export' = [export EXCEPT !.told = TRUE]
  BY DEF Told, ExportInv, QueryTypes
<1>2. /\ export' \in [items : SUBSET LineIds, twice : BOOLEAN, told : BOOLEAN]
      /\ export'.told /\ export'.twice = export.twice
  BY <1>1 DEF ExportInv, QueryTypes
<1>3. QED
  BY <1>2 DEF ExportInv, QueryTypes, recordVars, Newest

LEMMA EnterStep ==
  ASSUME ExportInv, ~export.told, EnterProducer
  PROVE  ExportInv'
<1>1. /\ page.at = "walking" /\ page.todo # {} /\ Moving
      /\ page \in [at : Places, generation : Nat, todo : SUBSET Producers, segs : SUBSET Position, line : Nat]
  BY DEF EnterProducer, Moving, ExportInv, QueryTypes
<1>2. PICK p \in Producers : p = Here
  BY <1>1, HereIsLeast DEF ExportInv, QueryTypes
<1>3. p \in page.todo /\ p \in Position /\ cursor.in <= p
  BY <1>1, <1>2, HereIsLeast DEF ExportInv, QueryTypes, Untold, InPlace
<1>4. \A t, n \in Position : <<p, t, n>> \in export.items => Before(p, t, n)
  <2> SUFFICES ASSUME NEW t \in Position, NEW n \in Position, <<p, t, n>> \in export.items
               PROVE  Before(p, t, n)
    OBVIOUS
  <2>1. ReadBefore(p, t, n)
    BY <1>1 DEF ExportInv, Untold, ReadIsEarlier, Ended
  <2>2. QED
    BY <1>1, <1>3, <2>1 DEF ReadBefore, InFile, AtLine, Inside, Position
<1>5. CASE StopPage(p, Resumed(p).seg, Resumed(p).line)
  <2>1. PICK s \in Nat, line \in Nat : s = Resumed(p).seg /\ line = Resumed(p).line
    BY <1>3, ResumesThere DEF ExportInv, Position
  <2>2. \A t, n \in Position : Before(p, t, n) <=> t < s \/ (t = s /\ n <= line)
    BY <1>3, <2>1, ResumesThere DEF ExportInv
  <2>3. \A t, n \in Position : t < s \/ (t = s /\ n <= line) => Passed(p, t, n)
    BY <2>2 DEF Passed
  <2>4. \A t, n \in Position : <<p, t, n>> \in export.items => t < s \/ (t = s /\ n <= line)
    BY <1>4, <2>2
  <2>5. StopPage(p, s, line)
    BY <1>5, <2>1
  <2> HIDE <1>5
  <2>6. QED
    BY <1>1, <1>2, <2>3, <2>4, <2>5, StopStep
<1>6. CASE SkipProducer /\ Told(TRUE) /\ UNCHANGED <<recordVars, cursor, began, missed>>
  <2>1. page' \in [at : Places, generation : Nat, todo : SUBSET Producers, segs : SUBSET Position, line : Nat]
    BY <1>1, <1>6 DEF SkipProducer
  <2>2. QED
    BY <1>6, <2>1, ToldStep
<1>7. CASE /\ VisitNext(Ahead(p)) /\ Told(Resumed(p).seg \notin Listed(p) \cup {0})
           /\ UNCHANGED <<recordVars, cursor, began, missed>>
  <2>1. /\ export' \in [items : SUBSET LineIds, twice : BOOLEAN, told : BOOLEAN]
        /\ export'.items = export.items /\ export'.twice = export.twice
    BY <1>7 DEF Told, ExportInv, QueryTypes
  <2>2. /\ Ahead(p) \subseteq Position
        /\ \A s \in Ahead(p) : s <= Newest(p) /\ s >= Resumed(p).seg
    BY DEF Ahead, Listed, Position
  <2>3. ASSUME NEW t \in Position, NEW n \in Position, t \notin Ahead(p), <<p, t, n>> \in began \ missed
        PROVE  Passed(p, t, n)
    <3>1. segment[p][t].there /\ t <= Newest(p)
      BY <1>1, <2>3 DEF ExportInv, Untold, Generations, OnPage, Gone, BeganIsWritten
    <3>2. t \in Listed(p)
      BY <3>1 DEF Listed, Position, Newest, ExportInv, QueryTypes
    <3>3. t < Resumed(p).seg
      BY <1>3, <2>3, <3>2, ResumesThere DEF Ahead, Position, ExportInv
    <3>4. QED
      BY <1>3, <3>3, ResumesThere DEF Passed, ExportInv
  <2>4. QED
    BY <1>1, <1>2, <1>4, <1>7, <2>1, <2>2, <2>3, VisitStep
<1>8. QED
  BY <1>2, <1>5, <1>6, <1>7 DEF EnterProducer

LEMMA OpenStep ==
  ASSUME ExportInv, ~export.told, OpenSegment
  PROVE  ExportInv'
<1>1. /\ page.at = "segments" /\ page.todo # {} /\ page.segs # {} /\ Moving
      /\ page \in [at : Places, generation : Nat, todo : SUBSET Producers, segs : SUBSET Position, line : Nat]
  BY DEF OpenSegment, Moving, Inside, ExportInv, QueryTypes, Untold, InPlace
<1>2. PICK p \in Producers : p = Here
  BY <1>1, HereIsLeast DEF ExportInv, QueryTypes
<1>3. PICK s \in Position : s = Min(page.segs)
  BY <1>1, FirstIsLeast DEF ExportInv
<1>4. /\ p \in page.todo /\ p \in Position /\ cursor.in <= p
      /\ s \in page.segs /\ \A t \in page.segs : t \in Position /\ s <= t
      /\ s >= Resumed(p).seg
  BY <1>1, <1>2, <1>3, HereIsLeast, FirstIsLeast DEF ExportInv, QueryTypes, Untold, InPlace, Moving, Inside
<1>5. PICK line \in Nat : line = FirstLine(p, s)
  BY <1>3, <1>4, ResumesThere DEF ExportInv
<1>6. ASSUME NEW t \in Position, NEW n \in Position
      PROVE  /\ Before(p, t, n) => t < s \/ (t = s /\ n <= line)
             /\ t = s /\ n <= line => Before(p, t, n)
             /\ t < s => t \notin page.segs
  <2>1. /\ Before(p, t, n) <=> t < Resumed(p).seg \/ (t = Resumed(p).seg /\ n <= Resumed(p).line)
        /\ Resumed(p).seg \in Nat
        /\ Before(p, s, n) <=> n <= FirstLine(p, s)
    BY <1>3, <1>4, ResumesThere DEF ExportInv
  <2>2. QED
    BY <1>3, <1>4, <1>5, <2>1 DEF Position
<1>7. CASE StopPage(p, s, line)
  <2>1. \A t, n \in Position : t < s \/ (t = s /\ n <= line) => Passed(p, t, n)
    BY <1>1, <1>2, <1>6 DEF Passed, Inside
  <2>2. ASSUME NEW t \in Position, NEW n \in Position, <<p, t, n>> \in export.items
        PROVE  t < s \/ (t = s /\ n <= line)
    <3>1. ReadBefore(p, t, n)
      BY <1>1, <2>2 DEF ExportInv, Untold, ReadIsEarlier, Ended
    <3>2. QED
      BY <1>1, <1>4, <1>6, <3>1 DEF ReadBefore, InFile, AtLine, Position
  <2>3. s \in Nat
    BY DEF Position
  <2> HIDE <1>7
  <2>4. QED
    BY <1>1, <1>2, <1>7, <2>1, <2>2, <2>3, StopStep
<1>8. CASE /\ segment[p][s].there /\ page' = [page EXCEPT !.at = "reading", !.line = line]
           /\ Told(FALSE) /\ UNCHANGED <<recordVars, cursor, began, missed>>
  <2>1. /\ page'.at = "reading" /\ page'.line = line /\ page'.todo = page.todo /\ page'.segs = page.segs
        /\ page'.generation = page.generation
        /\ page' \in [at : Places, generation : Nat, todo : SUBSET Producers, segs : SUBSET Position, line : Nat]
    BY <1>1, <1>8 DEF Places
  <2>2. UNCHANGED <<producer, segment, retention, removed, cursor, began, missed, export>>
    BY <1>8 DEF recordVars, Told, ExportInv, QueryTypes
  <2>3. QueryTypes'
    BY <2>1, <2>2 DEF ExportInv, QueryTypes, Newest
  <2>4. Here' = p /\ Min(page'.segs) = s
    BY <1>2, <1>3, <2>1 DEF Here
  <2>5. InPlace'
    BY <1>1, <1>2, <1>3, <1>5, <2>1, <2>2, <2>4
       DEF ExportInv, Untold, InPlace, Moving, Inside, AtLine, Newest, Resumed, FirstLine, Position
  <2>6. WholeAtEnd' /\ BeganIsWritten' /\ Generations'
    BY <1>1, <2>1, <2>2 DEF ExportInv, Untold, WholeAtEnd, BeganIsWritten, Generations, Moving, OnPage, Newest, Gone, Resuming
  <2>7. ASSUME NEW q \in Producers, NEW t \in Position, NEW n \in Position
        PROVE  (Passed(q, t, n)' => Passed(q, t, n)) /\ (ReadBefore(q, t, n) => ReadBefore(q, t, n)')
    <3>1. (Before(q, t, n)' <=> Before(q, t, n)) /\ ~InFile(q, t, n)
      BY <1>1, <2>2 DEF Before, InFile, AtLine
    <3>2. InFile(q, t, n)' => Before(q, t, n)
      BY <1>6, <2>1, <2>4 DEF InFile
    <3>3. QED
      BY <1>1, <1>2, <2>1, <2>4, <3>1, <3>2 DEF Passed, ReadBefore, Moving, Inside
  <2>8. PassedIsRead' /\ ReadIsEarlier'
    BY <1>1, <2>1, <2>2, <2>7 DEF ExportInv, Untold, PassedIsRead, ReadIsEarlier, Ended
  <2>9. QED
    BY <2>2, <2>3, <2>5, <2>6, <2>8 DEF ExportInv, Untold
<1>9. CASE LeaveSegment /\ Told(TRUE) /\ UNCHANGED <<recordVars, cursor, began, missed>>
  <2>1. page' \in [at : Places, generation : Nat, todo : SUBSET Producers, segs : SUBSET Position, line : Nat]
    BY <1>1, <1>9 DEF LeaveSegment, VisitNext, Places
  <2>2. QED
    BY <1>9, <2>1, ToldStep
<1>10. QED
  BY <1>2, <1>3, <1>5, <1>7, <1>8, <1>9 DEF OpenSegment

(* Leaving a segment with nothing more to be read in it. *)
LEMMA LeaveStep ==
  ASSUME ExportInv, ~export.told, AtLine, LeaveSegment,
         UNCHANGED <<recordVars, cursor, export, began, missed>>,
         \A n \in Position : <<Here, Min(page.segs), n>> \in began => n <= page.line
  PROVE  ExportInv'
<1>1. page.todo # {} /\ page.segs # {} /\ Moving /\ Inside
  BY DEF Moving, Inside, AtLine, ExportInv, QueryTypes, Untold, InPlace
<1>2. PICK p \in Producers : p = Here
  BY <1>1, HereIsLeast DEF ExportInv, QueryTypes
<1>3. PICK s \in Position : s = Min(page.segs)
  BY <1>1, FirstIsLeast DEF ExportInv
<1>4. PICK segs : segs = page.segs \ {s}
  OBVIOUS
<1>5. /\ segs \subseteq Position /\ VisitNext(segs)
      /\ \A t \in segs : t <= Newest(p) /\ t >= Resumed(p).seg
      /\ \A t \in page.segs : t \in Position /\ s <= t
      /\ p \in page.todo /\ p \in Position
  BY <1>1, <1>2, <1>3, <1>4, HereIsLeast, FirstIsLeast DEF LeaveSegment, ExportInv, QueryTypes, Untold, InPlace
<1>6. ASSUME NEW t \in Position, NEW n \in Position, t \notin segs, <<p, t, n>> \in began \ missed
      PROVE  Passed(p, t, n)
  <2>1. CASE t = s
    BY <1>2, <1>3, <1>6, <2>1 DEF Passed, InFile
  <2>2. CASE t # s
    BY <1>1, <1>2, <1>4, <1>6, <2>2 DEF Passed
  <2>3. QED
    BY <2>1, <2>2
<1>7. ASSUME NEW t \in Position, NEW n \in Position, <<p, t, n>> \in export.items
      PROVE  Before(p, t, n) \/ \A u \in segs : t < u
  <2>1. ReadBefore(p, t, n)
    BY <1>1, <1>7 DEF ExportInv, Untold, ReadIsEarlier, Ended, Moving
  <2>2. InFile(p, t, n) => \A u \in segs : t < u
    BY <1>3, <1>4, <1>5 DEF InFile, Position
  <2>3. QED
    BY <1>2, <1>4, <1>5, <2>1, <2>2 DEF ReadBefore, Position
<1>8. export' = export /\ export \in [items : SUBSET LineIds, twice : BOOLEAN, told : BOOLEAN]
  BY DEF ExportInv, QueryTypes
<1>9. QED
  BY <1>1, <1>2, <1>5, <1>6, <1>7, <1>8, VisitStep

LEMMA ReadStep ==
  ASSUME ExportInv, ~export.told, ReadLine
  PROVE  ExportInv'
<1>1. /\ page.at = "reading" /\ page.todo # {} /\ page.segs # {} /\ Moving /\ Inside /\ AtLine
      /\ page \in [at : Places, generation : Nat, todo : SUBSET Producers, segs : SUBSET Position, line : Nat]
  BY DEF ReadLine, Moving, Inside, AtLine, ExportInv, QueryTypes, Untold, InPlace
<1>2. PICK p \in Producers : p = Here
  BY <1>1, HereIsLeast DEF ExportInv, QueryTypes
<1>3. PICK s \in Position : s = Min(page.segs)
  BY <1>1, FirstIsLeast DEF ExportInv
<1>4. /\ p \in page.todo /\ p \in Position /\ cursor.in <= p
      /\ s \in page.segs /\ \A t \in page.segs : t \in Position /\ s <= t
      /\ s >= Resumed(p).seg /\ page.line \in Nat /\ page.line >= FirstLine(p, s)
      /\ s <= Newest(p)
  BY <1>1, <1>2, <1>3, HereIsLeast, FirstIsLeast DEF ExportInv, QueryTypes, Untold, InPlace, Moving
<1>5. ASSUME NEW t \in Position, NEW n \in Position, ReadBefore(p, t, n)
      PROVE  t < s \/ (t = s /\ n <= page.line)
  <2>1. CASE Before(p, t, n)
    <3>1. /\ t < Resumed(p).seg \/ (t = Resumed(p).seg /\ n <= Resumed(p).line)
          /\ Resumed(p).seg \in Nat /\ FirstLine(p, s) \in Nat
          /\ Before(p, s, n) <=> n <= FirstLine(p, s)
      BY <1>3, <1>4, <2>1, ResumesThere DEF ExportInv
    <3>2. QED
      BY <1>3, <1>4, <2>1, <3>1 DEF Position
  <2>2. CASE ~Before(p, t, n)
    BY <1>2, <1>3, <1>4, <1>5, <2>2 DEF ReadBefore, InFile, Position
  <2>3. QED
    BY <2>1, <2>2
<1>6. CASE StopPage(p, s, page.line)
  <2>1. \A t, n \in Position : t < s \/ (t = s /\ n <= page.line) => Passed(p, t, n)
    <3>1. \A t \in Position : t < s => t \notin page.segs
      BY <1>3, <1>4 DEF Position
    <3>2. QED
      BY <1>1, <1>2, <1>3, <3>1 DEF Passed, InFile
  <2>2. \A t, n \in Position : <<p, t, n>> \in export.items => t < s \/ (t = s /\ n <= page.line)
    BY <1>1, <1>5 DEF ExportInv, Untold, ReadIsEarlier, Ended
  <2>3. s \in Nat /\ page.line \in Nat
    BY <1>4 DEF Position
  <2> HIDE <1>6
  <2>4. QED
    BY <1>1, <1>2, <1>6, <2>1, <2>2, <2>3, StopStep
<1> DEFINE line == page.line + 1
           entry == <<p, s, line>>
<1>7. CASE /\ page.line < segment[p][s].lines /\ page' = [page EXCEPT !.line = line]
           /\ export' = [export EXCEPT !.items = @ \cup {entry}, !.twice = @ \/ entry \in export.items]
           /\ UNCHANGED <<recordVars, cursor, began, missed>>
  <2>1. line \in Position /\ line \in Nat /\ entry \in LineIds /\ line > page.line
    BY <1>4 DEF Position, LineIds
  <2>2. entry \notin export.items
    <3>1. ~ReadBefore(p, s, line)
      BY <1>3, <1>4, <1>5, <2>1 DEF Position
    <3>2. QED
      BY <1>1, <2>1, <3>1 DEF ExportInv, Untold, ReadIsEarlier, Ended
  <2> HIDE DEF entry
  <2>3. /\ export' \in [items : SUBSET LineIds, twice : BOOLEAN, told : BOOLEAN]
        /\ export'.items = export.items \cup {entry} /\ ~export'.twice /\ export'.told = export.told
    BY <1>7, <2>1, <2>2 DEF ExportInv, QueryTypes
  <2>4. \A t, n \in Position : n <= line => n <= page.line \/ n = line
    BY <1>4 DEF Position
  <2> HIDE DEF line
  <2>5. /\ page'.at = "reading" /\ page'.line = line /\ page'.todo = page.todo /\ page'.segs = page.segs
        /\ page'.generation = page.generation
        /\ page' \in [at : Places, generation : Nat, todo : SUBSET Producers, segs : SUBSET Position, line : Nat]
    BY <1>1, <1>7, <2>1 DEF Places
  <2>6. UNCHANGED <<producer, segment, retention, removed, cursor, began, missed>>
    BY <1>7 DEF recordVars
  <2>7. QueryTypes'
    BY <2>3, <2>5, <2>6 DEF ExportInv, QueryTypes, Newest
  <2>8. Here' = p /\ Min(page'.segs) = s
    BY <1>2, <1>3, <2>5 DEF Here
  <2>9. InPlace'
    <3>1. line >= FirstLine(p, s) /\ FirstLine(p, s)' = FirstLine(p, s)
      BY <1>3, <1>4, <2>1, <2>6, ResumesThere DEF ExportInv, FirstLine, Resumed
    <3>2. FirstLine(Here, Min(page.segs))' = FirstLine(p, s)
      BY <2>6, <2>8 DEF FirstLine, Resumed
    <3>3. QED
      BY <1>1, <1>2, <1>3, <2>5, <2>6, <2>8, <3>1, <3>2
         DEF ExportInv, Untold, InPlace, Moving, Inside, AtLine, Newest, Resumed
  <2>10. WholeAtEnd' /\ BeganIsWritten' /\ Generations'
    BY <1>1, <2>5, <2>6 DEF ExportInv, Untold, WholeAtEnd, BeganIsWritten, Generations, Moving, OnPage, Newest, Gone, Resuming
  <2>11. ASSUME NEW q \in Producers, NEW t \in Position, NEW n \in Position
         PROVE  /\ Passed(q, t, n)' => Passed(q, t, n) \/ <<q, t, n>> = entry
                /\ ReadBefore(q, t, n) \/ <<q, t, n>> = entry => ReadBefore(q, t, n)'
    <3>1. Before(q, t, n)' <=> Before(q, t, n)
      BY <2>6 DEF Before
    <3>2. InFile(q, t, n)' <=> InFile(q, t, n) \/ <<q, t, n>> = entry
      BY <1>1, <1>2, <1>3, <1>4, <2>1, <2>4, <2>5, <2>8 DEF InFile, AtLine, entry, Position
    <3>3. QED
      BY <1>1, <1>2, <2>5, <2>8, <3>1, <3>2 DEF Passed, ReadBefore, Moving, Inside
  <2>12. PassedIsRead' /\ ReadIsEarlier'
    BY <1>1, <2>3, <2>5, <2>6, <2>11 DEF ExportInv, Untold, PassedIsRead, ReadIsEarlier, Ended
  <2>13. QED
    BY <2>3, <2>7, <2>9, <2>10, <2>12 DEF ExportInv, Untold
<1>8. ASSUME page.line = segment[p][s].lines
      PROVE  \A n \in Position : <<Here, Min(page.segs), n>> \in began => n <= page.line
  BY <1>2, <1>3, <1>8 DEF ExportInv, Untold, BeganIsWritten
<1>9. CASE /\ page.line = segment[p][s].lines /\ page' = [page EXCEPT !.at = "tail"]
           /\ UNCHANGED <<recordVars, cursor, export, began, missed>>
  <2>1. /\ page'.at = "tail" /\ page'.line = page.line /\ page'.todo = page.todo /\ page'.segs = page.segs
        /\ page'.generation = page.generation
        /\ page' \in [at : Places, generation : Nat, todo : SUBSET Producers, segs : SUBSET Position, line : Nat]
    BY <1>1, <1>9 DEF Places
  <2>2. UNCHANGED <<producer, segment, retention, removed, cursor, export, began, missed>>
    BY <1>9 DEF recordVars
  <2>3. QueryTypes'
    BY <2>1, <2>2 DEF ExportInv, QueryTypes, Newest
  <2>4. InPlace'
    BY <1>1, <1>8, <1>9, <2>1, <2>2
       DEF ExportInv, Untold, InPlace, Moving, Inside, AtLine, Newest, Resumed, FirstLine, Here
  <2>5. WholeAtEnd' /\ BeganIsWritten' /\ Generations'
    BY <1>1, <2>1, <2>2 DEF ExportInv, Untold, WholeAtEnd, BeganIsWritten, Generations, Moving, OnPage, Newest, Gone, Resuming
  <2>6. PassedIsRead' /\ ReadIsEarlier'
    BY <1>1, <2>1, <2>2 DEF ExportInv, Untold, PassedIsRead, ReadIsEarlier, Ended, Passed, ReadBefore, Before,
       InFile, Moving, Inside, AtLine, Here
  <2>7. QED
    BY <2>2, <2>3, <2>4, <2>5, <2>6 DEF ExportInv, Untold
<1>10. CASE /\ page.line = segment[p][s].lines /\ LeaveSegment
            /\ UNCHANGED <<recordVars, cursor, export, began, missed>>
  BY <1>1, <1>8, <1>10, LeaveStep
<1>11. QED
  BY <1>2, <1>3, <1>6, <1>7, <1>9, <1>10 DEF ReadLine

(* The export that ends, or is refused. *)
LEMMA EndStep ==
  ASSUME ExportInv, ~export.told, NEW place \in {"refused", "exported"},
         page' = [NoPage EXCEPT !.at = place],
         UNCHANGED <<recordVars, cursor, export, began, missed>>,
         place = "exported" => page.at = "walking" /\ page.todo = {}
  PROVE  ExportInv'
<1>1. /\ page'.at = place /\ page'.generation = 0
      /\ page' \in [at : Places, generation : Nat, todo : SUBSET Producers, segs : SUBSET Position, line : Nat]
  BY DEF NoPage, Places
<1>2. UNCHANGED <<producer, segment, retention, removed, cursor, export, began, missed>>
  BY DEF recordVars
<1>3. QueryTypes'
  BY <1>1, <1>2 DEF ExportInv, QueryTypes, Newest
<1>4. InPlace' /\ BeganIsWritten' /\ PassedIsRead' /\ ReadIsEarlier'
  BY <1>1, <1>2 DEF ExportInv, Untold, InPlace, BeganIsWritten, PassedIsRead, ReadIsEarlier, Ended,
                    Moving, Inside, AtLine, Newest
<1>5. Generations'
  BY <1>1, <1>2 DEF ExportInv, Untold, QueryTypes, Generations, OnPage, Moving
<1>6. WholeAtEnd'
  <2>1. CASE place = "refused"
    BY <1>1, <2>1 DEF WholeAtEnd
  <2>2. CASE place = "exported"
    <3>1. \A p \in Producers, s, n \in Position : <<p, s, n>> \in began \ missed => <<p, s, n>> \in export.items
      BY <2>2 DEF ExportInv, Untold, PassedIsRead, Passed, Moving, Ended
    <3>2. began \subseteq LineIds
      BY DEF ExportInv, QueryTypes
    <3>3. QED
      BY <1>2, <3>1, <3>2 DEF WholeAtEnd, LineIds
  <2>3. QED
    BY <2>1, <2>2
<1>7. QED
  BY <1>2, <1>3, <1>4, <1>5, <1>6 DEF ExportInv, Untold

LEMMA ExportStep == ExportInv /\ [QueryNext]_queryVars => ExportInv'
<1> SUFFICES ASSUME ExportInv, [QueryNext]_queryVars PROVE ExportInv'
  OBVIOUS
<1>1. CASE UNCHANGED queryVars
  <2>1. UNCHANGED <<producer, segment, retention, removed, page, cursor, export, began, missed>>
    BY <1>1 DEF queryVars, recordVars
  <2>2. QED
    BY <2>1 DEF ExportInv, QueryTypes, Untold, InPlace, Generations, BeganIsWritten, PassedIsRead,
      ReadIsEarlier, WholeAtEnd, Moving, Inside, AtLine, OnPage, Ended, Newest, Here, Resumed, FirstLine,
      Gone, Resuming, Passed, ReadBefore, Before, InFile
<1>2. ASSUME QueryNext, NEW p \in Producers,
             \/ StartProducer(p) \/ NewSegment(p) \/ WriteLine(p) \/ ProducerDies(p)
             \/ \E s \in 1..MaxSegments : RemoveSegment(p, s)
      PROVE  ExportInv'
  BY <1>2, ProducerStep, RemoveStep DEF QueryNext
<1>3. CASE JudgeTail /\ ~export.told
  <2>1. CASE page' = [NoPage EXCEPT !.at = "refused"]
    BY <1>3, <2>1, EndStep DEF JudgeTail
  <2>2. CASE LeaveSegment
    <3>1. AtLine /\ \A n \in Position : <<Here, Min(page.segs), n>> \in began => n <= page.line
      BY <1>3 DEF JudgeTail, AtLine, ExportInv, Untold, InPlace
    <3>2. QED
      BY <1>3, <2>2, <3>1, LeaveStep DEF JudgeTail
  <2>3. QED
    BY <1>3, <2>1, <2>2 DEF JudgeTail
<1>4. CASE FinishExport /\ ~export.told
  BY <1>4, EndStep DEF FinishExport
<1>5. QED
  BY <1>1, <1>2, <1>3, <1>4, TellStep, BeginStep, ListStep, EnterStep, OpenStep, ReadStep DEF QueryNext

(* Whoever writes, rotates, dies or removes meanwhile: an export that      *)
(* notes no gap is whole but for what was removed too late to be told of,  *)
(* and no line comes twice, for any producers, segments and pages.         *)
THEOREM ExportsAreWhole == QuerySpec => []ExportIsWhole
<1>1. ExportInv => ExportIsWhole
  BY DEF ExportInv, Untold, WholeAtEnd, ExportIsWhole
<1>2. QED
  BY <1>1, ExportInitial, ExportStep, PTL DEF QuerySpec
=============================================================================
