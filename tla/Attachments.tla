---------------------------- MODULE Attachments ----------------------------
(***************************************************************************)
(* The import of an attachment (service.py import_attachment and           *)
(* _commit_attachment, attachment_io.py): a download in a worker process   *)
(* that its caller watches, for one of a few slots, and the creation of a  *)
(* file that must not exist.  Servers, DNS and the network are external:   *)
(* they answer anything, late or never.                                    *)
(***************************************************************************)
EXTENDS Integers, FiniteSets

CONSTANTS
  Imports,        \* the calls
  Hosts, Listed,  \* hosts named in URLs, and those of the local settings
  MaxSlots,       \* _SLOTS
  MaxHops         \* redirects

ASSUME AttachmentAssumption == Listed \subseteq Hosts /\ MaxSlots \in Nat \ {0} /\ MaxHops \in Nat

VARIABLES
  slots,     \* free slots
  import,    \* per call: its step, its URL's host, cancelled, past its deadline
  worker,    \* per call: its worker process
  target     \* whether the destination exists

attachmentVars == <<slots, import, worker, target>>

NoImport == [at |-> "idle", host |-> "none", cancelled |-> FALSE, late |-> FALSE]
NoWorker == [at |-> "none", host |-> "none", hop |-> 0]
ImportAt(i, step) == import[i].at = step
ImportGoes(i, step) == import' = [import EXCEPT ![i].at = step]
ImportEnds(i) == import' = [import EXCEPT ![i] = NoImport]

AttachmentInit ==
  /\ slots = MaxSlots /\ target = FALSE
  /\ import = [i \in Imports |-> NoImport] /\ worker = [i \in Imports |-> NoWorker]
-----------------------------------------------------------------------------
(* The call. *)

BeginImport(i) ==
  /\ ImportAt(i, "idle") /\ ~target
  /\ \E host \in Listed : import' = [import EXCEPT ![i].at = "wait", ![i].host = host]
  /\ UNCHANGED <<slots, worker, target>>

CancelImport(i) ==
  /\ ~ImportAt(i, "idle") /\ ~import[i].cancelled
  /\ import' = [import EXCEPT ![i].cancelled = TRUE]
  /\ UNCHANGED <<slots, worker, target>>

DeadlineOf(i) ==
  /\ import[i].at \in {"wait", "start", "loop"} /\ ~import[i].late
  /\ import' = [import EXCEPT ![i].late = TRUE]
  /\ UNCHANGED <<slots, worker, target>>

CancelledOnly(i) == import[i].cancelled   \* fault: the deadline is not looked at
MustStop(i) == import[i].cancelled \/ import[i].late

TakeSlot(i) ==
  /\ ImportAt(i, "wait") /\ slots > 0
  /\ slots' = slots - 1
  /\ ImportGoes(i, "start")
  /\ UNCHANGED <<worker, target>>

WaitStops(i) ==
  /\ ImportAt(i, "wait") /\ slots = 0 /\ MustStop(i)
  /\ ImportEnds(i)
  /\ UNCHANGED <<slots, worker, target>>

StartWorker(i) ==
  /\ ImportAt(i, "start") /\ ~MustStop(i)
  /\ worker' = [worker EXCEPT ![i] = [at |-> "resolve", host |-> import[i].host, hop |-> 0]]
  /\ ImportGoes(i, "loop")
  /\ UNCHANGED <<slots, target>>

LeaveWorker(i) ==   \* fault: the slot is given back, the worker goes on
  /\ import[i].at \in {"start", "loop"} /\ MustStop(i)
  /\ slots' = slots + 1
  /\ ImportEnds(i)
  /\ UNCHANGED <<worker, target>>

(* Cancelled, or too late: the worker is killed, and the slot given back.  *)
StopWorker(i) ==
  /\ import[i].at \in {"start", "loop"} /\ MustStop(i)
  /\ worker' = [worker EXCEPT ![i] = NoWorker] /\ slots' = slots + 1
  /\ ImportEnds(i)
  /\ UNCHANGED target

StartFails(i) ==
  /\ ImportAt(i, "start") /\ slots' = slots + 1
  /\ ImportEnds(i)
  /\ UNCHANGED <<worker, target>>

Downloaded(i) ==
  /\ ImportAt(i, "loop") /\ worker[i].at \in {"done", "failed"} /\ ~MustStop(i)
  /\ worker' = [worker EXCEPT ![i] = NoWorker] /\ slots' = slots + 1
  /\ IF worker[i].at = "done" THEN ImportGoes(i, "commit") ELSE ImportEnds(i)
  /\ UNCHANGED target

(* The mutation of the destination is exclusive.                           *)
BeginCommit(i) ==
  /\ ImportAt(i, "commit") /\ \A o \in Imports : ~ImportAt(o, "link")
  /\ IF import[i].cancelled \/ target THEN ImportEnds(i) ELSE ImportGoes(i, "link")
  /\ UNCHANGED <<slots, worker, target>>

(* The link fails if the file exists, or by itself.                        *)
Link(i) ==
  /\ ImportAt(i, "link")
  /\ target' \in IF import[i].cancelled THEN {target} ELSE {target, TRUE}
  /\ ImportEnds(i)
  /\ UNCHANGED <<slots, worker>>

Import(i) == \/ TakeSlot(i) \/ WaitStops(i) \/ StartWorker(i) \/ StopWorker(i) \/ StartFails(i)
             \/ Downloaded(i) \/ BeginCommit(i) \/ Link(i)
-----------------------------------------------------------------------------
(* The worker: each hop checks the URL and all addresses of its host, and  *)
(* connects to an address it checked.                                      *)

WorkerGoes(i, step) == worker' = [worker EXCEPT ![i].at = step] /\ UNCHANGED <<slots, import, target>>

HostAllowed(i) == worker[i].host \in Listed

Resolve(i, public) ==
  /\ worker[i].at = "resolve"
  /\ WorkerGoes(i, IF HostAllowed(i) /\ public THEN "connected" ELSE "failed")

Redirected(i, host) ==
  /\ worker[i].at = "connected"
  /\ IF worker[i].hop = MaxHops
     THEN WorkerGoes(i, "failed")
     ELSE /\ worker' = [worker EXCEPT ![i] = [at |-> "resolve", host |-> host, hop |-> @.hop + 1]]
          /\ UNCHANGED <<slots, import, target>>

Transferred(i, complete) ==
  /\ worker[i].at = "connected"
  /\ WorkerGoes(i, IF complete THEN "done" ELSE "failed")

WorkerStep(i) ==
  \/ \E public \in BOOLEAN : Resolve(i, public) \/ Transferred(i, public)
  \/ \E host \in Hosts : Redirected(i, host)

(* Somebody else creates or removes the file.                              *)
TargetChanges == target' = ~target /\ UNCHANGED <<slots, import, worker>>

AttachmentNext ==
  \/ TargetChanges
  \/ \E i \in Imports : BeginImport(i) \/ CancelImport(i) \/ DeadlineOf(i) \/ Import(i) \/ WorkerStep(i)

AttachmentSpec == AttachmentInit /\ [][AttachmentNext]_attachmentVars
-----------------------------------------------------------------------------
(* A worker runs only while its caller holds one of the slots, and none of *)
(* them is lost; whatever it is redirected to, it is connected to hosts of *)
(* the settings alone.                                                     *)
Holders == {i \in Imports : import[i].at \in {"start", "loop"}}

WorkersAreContained ==
  /\ slots + Cardinality(Holders) = MaxSlots
  /\ \A i \in Imports :
       /\ worker[i].at # "none" => i \in Holders
       /\ worker[i].at = "connected" => worker[i].host \in Listed

(* Every download ends, though servers and workers hang and the slots are  *)
(* taken.                                                                  *)
Downloading(i) == import[i].at \in {"wait", "start", "loop"}
EveryDownloadEnds == \A i \in Imports : Downloading(i) ~> ~Downloading(i)
=============================================================================
