----------------------------- MODULE RecordQuery -----------------------------
(***************************************************************************)
(* Exporting an operation's records while others write them               *)
(* (execution_query.py, and what it meets of execution_store.py): the      *)
(* viewer walks producers in the order of their names and their segments   *)
(* in order of age, page after page, without any lock.  Meanwhile          *)
(* producers start, append, rotate and end, and the retention removes old  *)
(* segments and only afterwards says so in retention.json.                 *)
(*                                                                         *)
(* A segment is its number of whole lines, all of the operation asked for; *)
(* one channel; the budgets of bytes and events stop a page where the      *)
(* deadline, checked before every step, may stop it too.                   *)
(* Definitions marked "fault" are mutants and no part of the system.       *)
(***************************************************************************)
EXTENDS Integers, FiniteSets, Sequences, FiniteSetsExt

CONSTANTS
  Producers,     \* a set of numbers: the producers in the order of their names
  MaxSegments,   \* bound: segments of all producers
  MaxLines,      \* bound: lines of one segment
  MaxEvictions   \* bound: segments removed

ASSUME QueryAssumption ==
  Producers \subseteq Nat \ {0} /\ {MaxSegments, MaxLines, MaxEvictions} \subseteq Nat

VARIABLES
  producer,    \* per producer: "none", its directory is "made", it is "alive" or "dead"
  segment,     \* per producer: its segments, oldest first: whole lines, whether
               \* a line is half written, whether the file is still there
  retention,   \* the generation in retention.json
  removed,     \* the lines removed since retention.json was written
  page,        \* the page the viewer is at
  cursor,      \* next_cursor of the page before
  export,      \* the lines so far, whether one came twice, and whether a gap
               \* or a part that could not be read was noted
  began,       \* history: the lines there when the first page began
  missed       \* history: lines removed that this page's generation does not tell of

recordVars == <<producer, segment, retention, removed>>
queryVars == <<recordVars, page, cursor, export, began, missed>>

NoCursor == [in |-> 0, seg |-> 0, line |-> 0, generation |-> 0]
NoPage == [at |-> "idle", generation |-> 0, todo |-> {}, segs |-> {}, line |-> 0]

Newest(p) == Len(segment[p])
Lines(p, s) == {<<p, s, n>> : n \in 1..segment[p][s].lines}
Listed(p) == {s \in 1..Newest(p) : segment[p][s].there}
AllLines == UNION {UNION {Lines(p, s) : s \in Listed(p)} : p \in Producers}

QueryInit ==
  /\ producer = [p \in Producers |-> "none"] /\ segment = [p \in Producers |-> <<>>]
  /\ retention = 0 /\ removed = {}
  /\ page = NoPage /\ cursor = NoCursor
  /\ export = [items |-> {}, twice |-> FALSE, told |-> FALSE]
  /\ began = {} /\ missed = {}

--------------------------------------------------------------------------------
(* The producers and the retention.                                        *)

Unread == UNCHANGED <<retention, removed, page, cursor, export, began, missed>>

\* The directory first, then the manifest in it.
StartProducer(p) ==
  /\ \/ producer[p] = "none" /\ producer' = [producer EXCEPT ![p] = "made"]
     \/ producer[p] = "made" /\ producer' = [producer EXCEPT ![p] = "alive"]
  /\ UNCHANGED segment /\ Unread

Made == FoldSet(LAMBDA p, n : n + Newest(p), 0, Producers)

NewSegment(p) ==
  /\ producer[p] = "alive" /\ Made < MaxSegments
  /\ Newest(p) > 0 => ~segment[p][Newest(p)].tail
  /\ segment' = [segment EXCEPT ![p] = Append(@, [lines |-> 0, tail |-> FALSE, there |-> TRUE])]
  /\ UNCHANGED producer /\ Unread

\* A reader may see the first part of a line before the rest of it.
WriteLine(p) ==
  /\ producer[p] = "alive" /\ Newest(p) > 0
  /\ LET last == segment[p][Newest(p)] IN
     /\ last.tail \/ last.lines < MaxLines
     /\ segment' = [segment EXCEPT ![p][Newest(p)] =
          IF last.tail THEN [last EXCEPT !.tail = FALSE, !.lines = last.lines + 1]
          ELSE [last EXCEPT !.tail = TRUE]]
  /\ UNCHANGED producer /\ Unread

ProducerDies(p) ==
  /\ producer[p] = "alive"
  /\ producer' = [producer EXCEPT ![p] = "dead"]
  /\ UNCHANGED segment /\ Unread

Active(p, s) == producer[p] # "dead" /\ s = Newest(p)

\* producer_live: whether somebody holds the lock in its directory.
LiveProducer(p) == producer[p] = "alive"

Evictions == FoldSet(LAMBDA p, n : n + Newest(p) - Cardinality(Listed(p)), 0, Producers)

\* _collect, by a producer that is about to open a segment of its own.
Collecting == \E q \in Producers : producer[q] = "alive"

RemoveSegment(p, s) ==
  /\ Collecting
  /\ s \in Listed(p) /\ ~Active(p, s) /\ Evictions < MaxEvictions
  /\ segment' = [segment EXCEPT ![p][s].there = FALSE]
  /\ removed' = removed \cup Lines(p, s) /\ missed' = missed \cup Lines(p, s)
  /\ UNCHANGED <<producer, retention, page, cursor, export, began>>

\* ... which tells of it afterwards, or never if it ends in between.
TellRemoval ==
  /\ Collecting /\ removed # {} /\ retention' = retention + 1 /\ removed' = {}
  /\ UNCHANGED <<producer, segment, page, cursor, export, began, missed>>

--------------------------------------------------------------------------------
(* The viewer.                                                             *)

Resuming == cursor # NoCursor
Told(gap) == export' = [export EXCEPT !.told = @ \/ gap]

\* fault: the generation of the cursor is not compared.
NeverStale == FALSE
\* A cursor belongs to the generation its page read.
Stale == Resuming /\ cursor.generation # retention

BeginPage ==
  /\ page.at = "idle"
  /\ page' = [NoPage EXCEPT !.at = "listing", !.generation = retention]
  /\ Told(Stale) /\ missed' = removed
  /\ began' = IF Resuming THEN began ELSE AllLines
  /\ UNCHANGED <<recordVars, cursor>>

ListProducers ==
  /\ page.at = "listing"
  /\ page' = [page EXCEPT !.at = "walking",
                !.todo = {p \in Producers : producer[p] # "none" /\ p >= cursor.in}]
  /\ UNCHANGED <<recordVars, cursor, export, began, missed>>

Here == Min(page.todo)
Resumed(p) == IF p = cursor.in THEN cursor ELSE NoCursor
FirstLine(p, s) == IF s = Resumed(p).seg THEN Resumed(p).line ELSE 0

\* The page stops before p, a segment of it or one of its lines.
StopPage(p, s, line) ==
  LET next == [in |-> p, seg |-> s, line |-> line, generation |-> page.generation]
  IN /\ page' = [NoPage EXCEPT !.at = IF next = cursor THEN "refused" ELSE "idle"]
     /\ cursor' = next /\ UNCHANGED <<recordVars, export, began, missed>>

SkipProducer == page' = [page EXCEPT !.todo = @ \ {Here}]

\* Segments listed and not yet read; after the last one, the next producer.
VisitNext(segs) ==
  page' = [page EXCEPT !.at = IF segs = {} THEN "walking" ELSE "segments", !.segs = segs,
                       !.todo = IF segs = {} THEN @ \ {Here} ELSE @]
LeaveSegment == VisitNext(page.segs \ {Min(page.segs)})

\* The segments of a producer that a page still has to visit.
Ahead(p) == {s \in Listed(p) : s >= Resumed(p).seg}

EnterProducer ==
  /\ page.at = "walking" /\ page.todo # {}
  /\ \/ StopPage(Here, Resumed(Here).seg, Resumed(Here).line)
     \/ /\ producer[Here] = "made"          \* no manifest yet: metadata_evicted
        /\ SkipProducer /\ Told(TRUE) /\ UNCHANGED <<recordVars, cursor, began, missed>>
     \/ /\ producer[Here] # "made"
        /\ \/ SkipProducer /\ Told(TRUE)    \* metadata_unavailable
           \/ /\ VisitNext(Ahead(Here))
              /\ Told(Resumed(Here).seg \notin Listed(Here) \cup {0})
        /\ UNCHANGED <<recordVars, cursor, began, missed>>

OpenSegment ==
  /\ page.at = "segments"
  /\ LET s == Min(page.segs) IN
     \/ StopPage(Here, s, FirstLine(Here, s))
     \/ /\ IF segment[Here][s].there
           THEN page' = [page EXCEPT !.at = "reading", !.line = FirstLine(Here, s)]
           ELSE LeaveSegment          \* segment_evicted
        /\ Told(~segment[Here][s].there)
        /\ UNCHANGED <<recordVars, cursor, began, missed>>

\* An open file is read to its end, removed or not.
ReadLine ==
  /\ page.at = "reading"
  /\ LET s == Min(page.segs)
         file == segment[Here][s]
         item == <<Here, s, page.line + 1>>
     IN \/ StopPage(Here, s, page.line)
        \/ /\ \/ /\ page.line < file.lines
                 /\ page' = [page EXCEPT !.line = @ + 1]
                 /\ export' = [export EXCEPT !.items = @ \cup {item},
                                             !.twice = @ \/ item \in export.items]
              \/ /\ page.line = file.lines
                 /\ IF file.tail THEN page' = [page EXCEPT !.at = "tail"] ELSE LeaveSegment
                 /\ UNCHANGED export
           /\ UNCHANGED <<recordVars, cursor, began, missed>>

\* A line without an end: an export of what is still being written is refused.
JudgeTail ==
  /\ page.at = "tail"
  /\ IF LiveProducer(Here) THEN page' = [NoPage EXCEPT !.at = "refused"] ELSE LeaveSegment
  /\ UNCHANGED <<recordVars, cursor, export, began, missed>>

FinishExport ==
  /\ page.at = "walking" /\ page.todo = {}
  /\ page' = [NoPage EXCEPT !.at = "exported"]
  /\ UNCHANGED <<recordVars, cursor, export, began, missed>>

--------------------------------------------------------------------------------
\* Bound: what happens after the export's end, or after it noted a gap and
\* so promises nothing more, is not followed.
QueryNext ==
  /\ page.at \notin {"exported", "refused"} /\ ~export.told
  /\ \/ \E p \in Producers :
          \/ StartProducer(p) \/ NewSegment(p) \/ WriteLine(p) \/ ProducerDies(p)
          \/ \E s \in 1..MaxSegments : RemoveSegment(p, s)
     \/ TellRemoval \/ BeginPage \/ ListProducers \/ EnterProducer \/ OpenSegment
     \/ ReadLine \/ JudgeTail \/ FinishExport

QuerySpec == QueryInit /\ [][QueryNext]_queryVars

(* No line comes twice, and an export that notes no gap has every line     *)
(* that was there when its first page began, however pages, writers and    *)
(* the retention interleave, but those whose removal the generation that   *)
(* the last page read does not tell of: a resumed page never builds on a   *)
(* page that an earlier retention has made partial.                        *)
ExportIsWhole ==
  /\ page.at = "exported" /\ ~export.told => began \ missed \subseteq export.items
  /\ ~export.twice

(* The same, claimed without exception (execution_query.py: the complete   *)
(* export "never silently exports a partial operation as complete").       *)
NeverSilentlyPartial ==
  page.at = "exported" /\ ~export.told => began \subseteq export.items
=============================================================================
