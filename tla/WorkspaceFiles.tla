--------------------------- MODULE WorkspaceFiles ---------------------------
(***************************************************************************)
(* The tools that change files of a workspace (service.py), the path       *)
(* reservations they take (file_operations.py) and the trash with its      *)
(* durable intents.  The threads of one server run the tools; the server   *)
(* may stop between any two steps, and what is on the disk remains.        *)
(*                                                                         *)
(* A file, or a tree that moves as one, is a place and a content, and a    *)
(* content is a set of texts; a hash is the content.  Folders made on the  *)
(* way, encodings and size limits are left out: a refusal for their sake   *)
(* is one of the failures of Fail.  Programs outside the tools that write  *)
(* to the same files are left out too: the reservations do not bind them.  *)
(***************************************************************************)
EXTENDS Integers, FiniteSets

CONSTANTS
  Clients,        \* the threads that run the tools
  Paths, Texts, Nothing,
  Present,        \* the files there are at first, and their contents
  MaxAsked,       \* bound: calls of tools
  Slots,          \* the unique names of trash items
  Folders, Root,
  FolderOf,       \* the folder of a path
  Above           \* the ancestors of a folder

ASSUME TreeAssumption ==
  /\ Root \in Folders /\ FolderOf \in [Paths -> Folders] /\ Above \in [Folders -> SUBSET Folders]
  /\ \A d \in Folders \ {Root} : Root \in Above[d]

ASSUME PresentAssumption ==
  Present \in [DOMAIN Present -> SUBSET Texts] /\ DOMAIN Present \subseteq Paths

VARIABLES
  files,     \* the existing files and their contents
  payload,   \* .tiancheng-trash: the items and their contents
  intent,    \* .tiancheng-trash/.metadata: the items and their original paths
  minted,    \* the unique names given so far
  receipt,   \* what the last update reported
  reserved,  \* _active of the coordinator: the folders each thread holds
  asked,     \* calls made
  tool       \* per thread: the tool, its arguments, its step and what it read

Trash == [s \in DOMAIN payload |->
            [content |-> payload[s], original |-> IF s \in DOMAIN intent THEN intent[s] ELSE Nothing]]

Workspace == INSTANCE WorkspacePromise WITH trash <- Trash

diskVars == <<files, payload, intent, minted, receipt>>
holdVars == <<reserved, asked>>
fileVars == <<diskVars, holdVars, tool>>

NoTool == [op |-> "none", at |-> "idle"]
On(t, step) == tool[t].at = step
To(t, step) == tool' = [tool EXCEPT ![t].at = step]
Op(t) == tool[t].op
Put(f, x, v) == Workspace!With(f, x, v)
Drop(f, x) == Workspace!Without(f, x)

Single == {"write", "edit", "append", "import"}
Double == {"move", "copy"}
Whole == {"delete", "restore", "purge"}

FileInit ==
  /\ files = Present /\ payload = <<>> /\ intent = <<>> /\ minted = {}
  /\ receipt = Workspace!NoReceipt
  /\ reserved = [t \in Clients |-> {}]
  /\ asked = 0 /\ tool = [t \in Clients |-> NoTool]
-----------------------------------------------------------------------------
(* A call, and its reservation: all its folders at once, waiting for the   *)
(* others to leave.  The keys of a path are the folder it is in; the tools *)
(* of the trash take the whole workspace.                                  *)

Call(t, op, p, q, s, x, y, wanted) ==
  /\ On(t, "idle") /\ asked < MaxAsked /\ asked' = asked + 1
  /\ tool' = [tool EXCEPT ![t] = [op |-> op, at |-> "asked", from |-> p, to |-> q, slot |-> s,
                                  text |-> x, new |-> y, wanted |-> wanted, seen |-> <<>>]]
  /\ UNCHANGED <<diskVars, reserved>>

(* The expected hash, if any, is that of a content the caller has read.    *)
CallSingle(t) ==
  \E op \in Single, p \in Paths, x, y \in Texts :
    /\ (op = "edit") = (x # y)
    /\ op = "import" => p \notin DOMAIN files
    /\ \E wanted \in IF op = "import" THEN {<<>>} ELSE {<<>>, Workspace!Hash(files, p)} :
         Call(t, op, p, p, Nothing, x, y, wanted)

CallDouble(t) ==
  \E op \in Double, p, q \in Paths : Call(t, op, p, q, Nothing, Nothing, Nothing, <<>>)

CallTrash(t) ==
  \/ \E p \in Paths : Call(t, "delete", p, p, Nothing, Nothing, Nothing, <<>>)
  \/ \E s \in Slots : Call(t, "purge", Nothing, Nothing, s, Nothing, Nothing, <<>>)
  \/ \E s \in Slots, q \in Paths \cup {Nothing} :
       Call(t, "restore", Nothing, q, s, Nothing, Nothing, <<>>)

Keys(t) ==
  CASE Op(t) \in Single -> {FolderOf[tool[t].to]}
    [] Op(t) \in Double -> {FolderOf[tool[t].from], FolderOf[tool[t].to]}
    [] OTHER -> {Root}

EqualOnly(d, e) == d = e   \* fault: a folder below a reserved one is free
Overlap(d, e) == d = e \/ d \in Above[e] \/ e \in Above[d]

Hold(t) ==
  /\ On(t, "asked")
  /\ \A u \in Clients \ {t} : \A d \in Keys(t), e \in reserved[u] : ~Overlap(d, e)
  /\ reserved' = [reserved EXCEPT ![t] = Keys(t)]
  /\ To(t, "held")
  /\ UNCHANGED <<diskVars, asked>>

Release(t) ==
  /\ On(t, "done")
  /\ reserved' = [reserved EXCEPT ![t] = {}] /\ tool' = [tool EXCEPT ![t] = NoTool]
  /\ UNCHANGED <<diskVars, asked>>

(* A check fails, the job is cancelled, or the system refuses: before the  *)
(* replacement or the rename, at any point.  A staged file is unlinked.    *)
Fail(t) ==
  /\ tool[t].at \in {"asked", "held", "read"}
  /\ To(t, "done")
  /\ UNCHANGED <<diskVars, holdVars>>
-----------------------------------------------------------------------------
(* write_text, edit_text, append_text and the commit of an attachment. *)

Read(t) ==
  LET before == Workspace!Hash(files, tool[t].to)
  IN  /\ On(t, "held") /\ Op(t) \in Single
      /\ tool[t].wanted # <<>> => before = tool[t].wanted
      /\ Op(t) = "edit" => before # <<>> /\ tool[t].text \in before[1]
      /\ Op(t) = "import" => before = <<>>
      /\ tool' = [tool EXCEPT ![t].at = "read", ![t].seen = before]
      /\ UNCHANGED <<diskVars, holdVars>>

NewContent(t) ==
  LET old == Workspace!TextOf(tool[t].seen)
  IN  CASE Op(t) = "append" -> old \cup {tool[t].text}
        [] Op(t) = "edit"   -> (old \ {tool[t].text}) \cup {tool[t].new}
        [] OTHER            -> {tool[t].text}

Update(t) ==
  /\ files' = Put(files, tool[t].to, NewContent(t))
  /\ receipt' = [path |-> tool[t].to, wanted |-> tool[t].wanted,
                 before |-> tool[t].seen, after |-> <<NewContent(t)>>]
  /\ To(t, "done")
  /\ UNCHANGED <<payload, intent, minted, holdVars>>

(* The new bytes are written and synced under another name, which then     *)
(* replaces the file, or for an attachment is linked if the name is free.  *)
Replace(t) == On(t, "read") /\ Op(t) \in Single \ {"import"} /\ Update(t)
Link(t) == On(t, "read") /\ Op(t) = "import" /\ tool[t].to \notin DOMAIN files /\ Update(t)
-----------------------------------------------------------------------------
(* move and copy: the checks, the scan of the tree, then one rename or copy. *)

CheckDouble(t) ==
  /\ On(t, "held") /\ Op(t) \in Double
  /\ tool[t].from \in DOMAIN files /\ tool[t].to \notin DOMAIN files
  /\ To(t, "read")
  /\ UNCHANGED <<diskVars, holdVars>>

MoveOrCopy(t) ==
  /\ On(t, "read") /\ Op(t) \in Double
  /\ files' = Put(IF Op(t) = "move" THEN Drop(files, tool[t].from) ELSE files,
                  tool[t].to, files[tool[t].from])
  /\ To(t, "done")
  /\ UNCHANGED <<payload, intent, minted, receipt, holdVars>>

CopyBreaksOff(t) ==
  /\ On(t, "read") /\ Op(t) = "copy"
  /\ \E part \in SUBSET files[tool[t].from] : files' = Put(files, tool[t].to, part)
  /\ To(t, "done")
  /\ UNCHANGED <<payload, intent, minted, receipt, holdVars>>
-----------------------------------------------------------------------------
(* delete: the intent is on the disk before the payload moves, and it is   *)
(* taken back, if it can be, when the payload does not.                    *)

Intend(t, s) ==
  /\ On(t, "held") /\ Op(t) = "delete"
  /\ tool[t].from \in DOMAIN files /\ s \notin minted
  /\ minted' = minted \cup {s}
  /\ intent' = Put(intent, s, tool[t].from)
  /\ tool' = [tool EXCEPT ![t].at = "intended", ![t].slot = s]
  /\ UNCHANGED <<files, payload, receipt, holdVars>>

MoveToTrash(t) ==
  /\ On(t, "intended")
  /\ files' = Drop(files, tool[t].from)
  /\ payload' = Put(payload, tool[t].slot, files[tool[t].from])
  /\ To(t, "done")
  /\ UNCHANGED <<intent, minted, receipt, holdVars>>

Unintend(t) ==
  /\ On(t, "intended")
  /\ intent' \in {intent, Drop(intent, tool[t].slot)}
  /\ To(t, "done")
  /\ UNCHANGED <<files, payload, minted, receipt, holdVars>>
-----------------------------------------------------------------------------
(* trash_restore and trash_purge: the payload goes first, then its intent. *)

RestoreTarget(t) == IF tool[t].to # Nothing THEN {tool[t].to}
                    ELSE {intent[s] : s \in DOMAIN intent \cap {tool[t].slot}}

PutBack(t) ==
  /\ On(t, "held") /\ Op(t) = "restore" /\ tool[t].slot \in DOMAIN payload
  /\ \E q \in RestoreTarget(t) :
       /\ q \notin DOMAIN files
       /\ files' = Put(files, q, payload[tool[t].slot])
  /\ payload' = Drop(payload, tool[t].slot)
  /\ To(t, "clear")
  /\ UNCHANGED <<intent, minted, receipt, holdVars>>

Destroy(t) ==
  /\ On(t, "held") /\ Op(t) = "purge" /\ tool[t].slot \in DOMAIN payload
  /\ payload' = Drop(payload, tool[t].slot)
  /\ To(t, "clear")
  /\ UNCHANGED <<files, intent, minted, receipt, holdVars>>

DestroyBreaksOff(t) ==
  /\ On(t, "held") /\ Op(t) = "purge" /\ tool[t].slot \in DOMAIN payload
  /\ \E part \in SUBSET payload[tool[t].slot] : payload' = Put(payload, tool[t].slot, part)
  /\ To(t, "done")
  /\ UNCHANGED <<files, intent, minted, receipt, holdVars>>

ClearIntent(t) ==
  /\ On(t, "clear")
  /\ intent' \in {intent, Drop(intent, tool[t].slot)}
  /\ To(t, "done")
  /\ UNCHANGED <<files, payload, minted, receipt, holdVars>>
-----------------------------------------------------------------------------
(* The server stops.  The next one starts with no thread and no reservation. *)
Stop ==
  /\ reserved' = [t \in Clients |-> {}] /\ tool' = [t \in Clients |-> NoTool]
  /\ UNCHANGED <<diskVars, asked>>

FileStep(t) ==
  \/ CallSingle(t) \/ CallDouble(t) \/ CallTrash(t)
  \/ Hold(t) \/ Release(t) \/ Fail(t)
  \/ Read(t) \/ Replace(t) \/ Link(t)
  \/ CheckDouble(t) \/ MoveOrCopy(t) \/ CopyBreaksOff(t)
  \/ (\E s \in Slots : Intend(t, s)) \/ MoveToTrash(t) \/ Unintend(t)
  \/ PutBack(t) \/ Destroy(t) \/ DestroyBreaksOff(t) \/ ClearIntent(t)

FileNext == Stop \/ \E t \in Clients : FileStep(t)
FileSpec == FileInit /\ [][FileNext]_fileVars
-----------------------------------------------------------------------------
(* The tools keep the promise of WorkspacePromise: in every interleaving,  *)
(* and wherever the server stops, each of them is one step on the files    *)
(* and the trash, its receipt names the content it replaced, and an item   *)
(* of the trash has its original path until it is restored or purged.      *)
KeepsWorkspace == Workspace!PromiseSpec
=============================================================================
