--------------------------- MODULE ResultHandles ---------------------------
(***************************************************************************)
(* Handles to what a call has read (artifacts.py, media_results.py): the   *)
(* export of a file keeps its hash, the reading of an image its pixels,    *)
(* both with the question that authorized the path.  A later call shows a  *)
(* handle only if the question is still answered with the same path, the   *)
(* file is what it was and the handle lives, all of them read without a    *)
(* lock while rights, files and handles change.                            *)
(***************************************************************************)
EXTENDS Integers, FiniteSets

CONSTANTS
  Readers,     \* threads
  Handles,     \* handles that may be made
  NoHandle,
  MaxHandles,  \* max_items
  MaxWrites    \* bound: changes of the file and of the right to read it

ASSUME HandleAssumption == NoHandle \notin Handles /\ MaxHandles \in Nat \ {0}

VARIABLES
  content,   \* the version of the file
  allowed,   \* the path may be read
  writes,    \* count for the bound
  entry,     \* per handle: new, in the table or gone; expired; and its version
  closed,    \* clear() was called
  reader     \* per thread: its step, its handle, what it read, what it saw since

handleVars == <<content, allowed, writes, entry, closed, reader>>

NewEntry == [is |-> "new", late |-> FALSE, version |-> 0]
Gone(h) == [entry[h] EXCEPT !.is = "gone"]
LiveHandles == {h \in Handles : entry[h].is = "in" /\ ~entry[h].late}
Purged == [h \in Handles |-> IF entry[h].is = "in" /\ entry[h].late THEN Gone(h) ELSE entry[h]]
NoReader == [at |-> "idle", handle |-> NoHandle, version |-> 0, right |-> FALSE]
Proceed(t, from, to) == reader[t].at = from /\ reader' = [reader EXCEPT ![t].at = to]
ReaderEnds(t) == reader' = [reader EXCEPT ![t] = NoReader]

HandleInit ==
  /\ content = 1 /\ allowed = TRUE /\ writes = 0
  /\ entry = [h \in Handles |-> NewEntry] /\ closed = FALSE
  /\ reader = [t \in Readers |-> NoReader]
-----------------------------------------------------------------------------
(* The file is written, rights end and come back, handles expire, and the  *)
(* service shuts down.                                                     *)

Disturb ==
  /\ writes < MaxWrites /\ writes' = writes + 1
  /\ \/ content' = content + 1 /\ UNCHANGED allowed
     \/ allowed' = ~allowed /\ UNCHANGED content
  /\ reader' = [t \in Readers |-> [reader[t] EXCEPT !.right = @ \/ allowed']]
  /\ UNCHANGED <<entry, closed>>

HandleExpires(h) ==
  /\ h \in LiveHandles
  /\ entry' = [entry EXCEPT ![h].late = TRUE]
  /\ UNCHANGED <<content, allowed, writes, closed, reader>>

ClearHandles ==
  /\ ~closed /\ closed' = TRUE
  /\ entry' = [h \in Handles |-> IF entry[h].is = "in" THEN Gone(h) ELSE entry[h]]
  /\ UNCHANGED <<content, allowed, writes, reader>>

Undisturbed == UNCHANGED <<content, allowed, writes, closed>>
-----------------------------------------------------------------------------
(* export() and read_image(): authorized, read, authorized, and entered.   *)

Authorize(t, from, to) == allowed /\ Proceed(t, from, to) /\ Undisturbed /\ UNCHANGED entry

Export(t) == Authorize(t, "idle", "taking")

TakeContent(t) ==
  /\ reader[t].at = "taking"
  /\ reader' = [reader EXCEPT ![t].at = "confirm", ![t].version = content, ![t].right = allowed]
  /\ Undisturbed /\ UNCHANGED entry

ConfirmExport(t) == Authorize(t, "confirm", "enter")

Enter(t, h) ==
  /\ reader[t].at = "enter" /\ ~closed /\ Cardinality(LiveHandles) < MaxHandles /\ entry[h].is = "new"
  /\ entry' = [Purged EXCEPT ![h] = [is |-> "in", late |-> FALSE, version |-> reader[t].version]]
  /\ ReaderEnds(t) /\ Undisturbed

(* No right, another path, a closed or a full table: an error.             *)
ExportFails(t) ==
  /\ \/ reader[t].at \in {"taking", "confirm"}
     \/ reader[t].at = "enter" /\ (closed \/ Cardinality(LiveHandles) >= MaxHandles)
  /\ entry' = IF reader[t].at = "enter" /\ ~closed THEN Purged ELSE entry
  /\ ReaderEnds(t) /\ Undisturbed
-----------------------------------------------------------------------------
(* read() and response().                                                  *)

Find(t, h) ==
  /\ reader[t].at = "idle" /\ h \in LiveHandles
  /\ reader' = [reader EXCEPT ![t].at = "found", ![t].handle = h]
  /\ Undisturbed /\ UNCHANGED entry

AuthorizeRead(t) == Authorize(t, "found", "reading")

ReadContent(t) ==
  /\ reader[t].at = "reading" /\ content = entry[reader[t].handle].version
  /\ reader' = [reader EXCEPT ![t].at = "verify", ![t].version = content, ![t].right = allowed]
  /\ Undisturbed /\ UNCHANGED entry

VerifyBlindly(t) == Proceed(t, "verify", "last") /\ Undisturbed /\ UNCHANGED entry   \* fault
VerifyRight(t) == Authorize(t, "verify", "last")

(* The handle is looked up once more, and what was found is shown.         *)
Show(t) ==
  /\ reader[t].at = "last" /\ reader[t].handle \in LiveHandles
  /\ reader' = [reader EXCEPT ![t].at = "shown"]
  /\ Undisturbed /\ UNCHANGED entry

ReadFails(t) ==
  /\ reader[t].at \in {"found", "reading", "verify", "last"}
  /\ entry' = IF reader[t].handle \in LiveHandles THEN entry ELSE [entry EXCEPT ![reader[t].handle] = Gone(reader[t].handle)]
  /\ ReaderEnds(t) /\ Undisturbed

GiveText(t) == reader[t].at = "shown" /\ ReaderEnds(t) /\ Undisturbed /\ UNCHANGED entry

HandleNext ==
  \/ Disturb \/ ClearHandles \/ \E h \in Handles : HandleExpires(h)
  \/ \E t \in Readers :
       \/ Export(t) \/ TakeContent(t) \/ ConfirmExport(t) \/ ExportFails(t)
       \/ AuthorizeRead(t) \/ ReadContent(t) \/ VerifyRight(t) \/ Show(t) \/ ReadFails(t) \/ GiveText(t)
       \/ \E h \in Handles : Enter(t, h) \/ Find(t, h)

HandleSpec == HandleInit /\ [][HandleNext]_handleVars
-----------------------------------------------------------------------------
(* What a handle shows was read when nobody could know yet that it would   *)
(* be refused: the path was allowed at some moment after the bytes were    *)
(* read, and they are those of the export.  The table keeps its bound.     *)
HandlesShowWhatMayBeRead ==
  /\ Cardinality(LiveHandles) <= MaxHandles
  /\ \A t \in Readers :
       /\ reader[t].at = "enter" => reader[t].right
       /\ reader[t].at = "shown" => reader[t].right /\ reader[t].version = entry[reader[t].handle].version
=============================================================================
