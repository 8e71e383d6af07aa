---------------------------- MODULE PolicyReload ----------------------------
(***************************************************************************)
(* The access policy while the server runs: changes approved in the        *)
(* conversation (policy_change_* of tiancheng_mcp/service.py), reloads of  *)
(* the policy file, the owner's editor in tc.ps1, and restarts.            *)
(*                                                                         *)
(* A policy is reduced to one rule per directory.  Every reader and writer *)
(* of a policy is a thread with a private draft, because none of them      *)
(* holds a lock from the policy it reads to the one it writes.             *)
(* Definitions marked "fault" are mutants and no part of the system.       *)
(***************************************************************************)
EXTENDS Integers, FiniteSets

CONSTANTS
  Dirs,
  Changes,      \* change requests, each approved by a thread of its own
  Reloaders,    \* threads that call access_policy_reload
  Owner,        \* the policy editor of tc.ps1, another process
  Nobody,
  MaxPending,   \* 3 pending changes
  MaxAttempts,  \* 5 approval attempts
  MaxEdits      \* bound: edits of the owner

ASSUME PolicyAssumption == MaxPending \in Nat /\ MaxAttempts \in Nat /\ MaxEdits \in Nat
ASSUME ThreadAssumption ==
  /\ Nobody \notin Changes \cup Reloaders \cup {Owner}
  /\ Changes \cap Reloaders = {} /\ Owner \notin Changes \cup Reloaders

Threads == Changes \cup Reloaders \cup {Owner}
Rule == {"none", "allow", "deny"}
Policy == [Dirs -> Rule]

VARIABLES
  change, target, attempts, lapsed,  \* _policy_changes, and what became of each
  file, backup,       \* access-policy.json and its .bak
  memory, managers,   \* service.access_policy, external_grants.access_policy
  installer,          \* who is in policy_update()
  pc, draft,          \* each thread's place, and the policy it carries
  edits, editing,     \* the owner's edits, and the directory of the last one
  lastSaid,           \* history: the rule last saved for a directory
  told,               \* history: directories the owner ever allowed
  alone               \* history: approvals that no other thread has overlapped

changeVars == <<change, target, attempts, lapsed>>
policyVars == <<file, backup, memory, managers, installer>>
ownerVars == <<edits, editing, lastSaid, told>>
vars == <<changeVars, policyVars, pc, draft, ownerVars, alone>>

Init ==
  /\ change = [c \in Changes |-> "none"] /\ target \in [Changes -> Dirs]
  /\ attempts = [c \in Changes |-> 0] /\ lapsed = {}
  /\ file = [d \in Dirs |-> "none"] /\ backup = file /\ memory = file /\ managers = file
  /\ installer = Nobody
  /\ pc = [t \in Threads |-> "idle"] /\ draft = [t \in Threads |-> file]
  /\ edits = 0 /\ editing \in Dirs /\ lastSaid = file /\ told = {} /\ alone = {}

-----------------------------------------------------------------------------
(* Pending changes, under _policy_change_lock. *)

Waiting == {c \in Changes : change[c] = "pending" /\ c \notin lapsed}
ChangeRoom == Cardinality(Waiting) < MaxPending

Become(c, what) == [change EXCEPT ![c] = what]

(* The lapsed requests are dropped even if the new one is then refused.    *)
Staged(c, what) ==
  [x \in Changes |-> IF x = c THEN what
                     ELSE IF change[x] = "pending" /\ x \in lapsed THEN "gone" ELSE change[x]]

Request(c) ==
  /\ change[c] = "none" /\ memory[target[c]] # "deny"
  /\ change' = Staged(c, IF ChangeRoom THEN "pending" ELSE "none")
  /\ UNCHANGED <<target, attempts, lapsed, policyVars, pc, draft, ownerVars>>

CancelChange(c) ==
  /\ change[c] = "pending"
  /\ change' = Become(c, "gone")
  /\ UNCHANGED <<target, attempts, lapsed, policyVars, pc, draft, ownerVars>>

Lapse(c) ==
  /\ change[c] = "pending" /\ c \notin lapsed
  /\ lapsed' = lapsed \cup {c}
  /\ UNCHANGED <<change, target, attempts, policyVars, pc, draft, ownerVars>>

(* Too late, too often, or with the wrong challenge. *)
ApproveFails(c) ==
  /\ change[c] = "pending"
  /\ IF c \in lapsed \/ attempts[c] = MaxAttempts
     THEN change' = Become(c, "gone") /\ UNCHANGED attempts
     ELSE attempts' = [attempts EXCEPT ![c] = @ + 1] /\ UNCHANGED change
  /\ UNCHANGED <<target, lapsed, policyVars, pc, draft, ownerVars>>

ApproveClaims(c) ==
  /\ c \in Waiting /\ attempts[c] < MaxAttempts
  /\ change' = Become(c, "claimed") /\ pc' = [pc EXCEPT ![c] = "validate"]
  /\ UNCHANGED <<target, attempts, lapsed, policyVars, draft, ownerVars>>

-----------------------------------------------------------------------------
(* The rest of an approval runs without that lock. *)

Goto(t, from, to) == pc[t] = from /\ pc' = [pc EXCEPT ![t] = to]

Validate(c) ==
  /\ IF memory[target[c]] = "deny"
     THEN Goto(c, "validate", "idle") /\ change' = Become(c, "refused")
     ELSE Goto(c, "validate", "merge") /\ UNCHANGED change
  /\ UNCHANGED <<target, attempts, lapsed, policyVars, draft, ownerVars>>

MergeStaged(c) ==   \* fault: merges what is only staged
  /\ Goto(c, "merge", "backup")
  /\ draft' = [draft EXCEPT ![c] = [d \in Dirs |-> IF \E x \in Waiting \cup {c} : target[x] = d
                                                   THEN "allow" ELSE memory[d]]]
  /\ UNCHANGED <<changeVars, policyVars, ownerVars>>

(* with_rules() starts from the policy in memory, not from the file. *)
Merge(c) ==
  /\ Goto(c, "merge", "backup")
  /\ draft' = [draft EXCEPT ![c] = [memory EXCEPT ![target[c]] = "allow"]]
  /\ UNCHANGED <<changeVars, policyVars, ownerVars>>

(* The owner edits what the file says when the editor opens it. *)
OwnerEdits(d, rule) ==
  /\ edits < MaxEdits
  /\ Goto(Owner, "idle", "backup")
  /\ draft' = [draft EXCEPT ![Owner] = [file EXCEPT ![d] = rule]]
  /\ edits' = edits + 1 /\ editing' = d
  /\ told' = IF rule = "allow" THEN told \cup {d} ELSE told
  /\ UNCHANGED <<changeVars, policyVars, lastSaid>>

(* save_atomic(), and Save-AccessPolicyData: two atomic replacements. *)
SaveBackup(t) ==
  /\ Goto(t, "backup", "save")
  /\ backup' = file
  /\ UNCHANGED <<changeVars, file, memory, managers, installer, draft, ownerVars>>

SaveFile(t) ==
  /\ Goto(t, "save", IF t = Owner THEN "idle" ELSE "load")
  /\ file' = draft[t]
  /\ LET d == IF t = Owner THEN editing ELSE target[t]
     IN  lastSaid' = [lastSaid EXCEPT ![d] = draft[t][d]]
  /\ UNCHANGED <<changeVars, backup, memory, managers, installer, draft, edits, editing, told>>

(* reload_access_policy(): read the file, then install what was read. *)
LoadBackup(t) ==   \* fault: reads the other file
  /\ \/ t \in Changes /\ Goto(t, "load", "install")
     \/ t \in Reloaders /\ Goto(t, "idle", "install")
  /\ draft' = [draft EXCEPT ![t] = backup]
  /\ UNCHANGED <<changeVars, policyVars, ownerVars>>

Load(t) ==
  /\ \/ t \in Changes /\ Goto(t, "load", "install")
     \/ t \in Reloaders /\ Goto(t, "idle", "install")
  /\ draft' = [draft EXCEPT ![t] = file]
  /\ UNCHANGED <<changeVars, policyVars, ownerVars>>

Install(t) ==
  /\ installer = Nobody
  /\ Goto(t, "install", "hand over")
  /\ memory' = draft[t] /\ installer' = t
  /\ UNCHANGED <<changeVars, file, backup, managers, draft, ownerVars>>

HandOver(t) ==
  /\ Goto(t, "hand over", "idle")
  /\ managers' = draft[t] /\ installer' = Nobody
  /\ change' = IF t \in Changes THEN Become(t, "applied") ELSE change
  /\ UNCHANGED <<target, attempts, lapsed, file, backup, memory, draft, ownerVars>>

(* The server starts again from the file; the owner's editor lives on. *)
Restart ==
  /\ memory' = file /\ managers' = file /\ installer' = Nobody
  /\ change' = [c \in Changes |-> CASE change[c] = "pending" -> "gone"
                                    [] change[c] = "claimed" -> "interrupted"
                                    [] OTHER -> change[c]]
  /\ pc' = [t \in Threads |-> IF t = Owner THEN pc[t] ELSE "idle"]
  /\ UNCHANGED <<target, attempts, lapsed, file, backup, draft, ownerVars>>

-----------------------------------------------------------------------------
Busy == {t \in Threads : pc[t] # "idle"}

Step ==
  \/ \E c \in Changes :
       \/ Request(c) \/ CancelChange(c) \/ Lapse(c) \/ ApproveFails(c) \/ ApproveClaims(c)
       \/ Validate(c) \/ Merge(c)
  \/ \E d \in Dirs, rule \in Rule : OwnerEdits(d, rule)
  \/ \E t \in Threads : SaveBackup(t) \/ SaveFile(t) \/ Load(t) \/ Install(t) \/ HandOver(t)
  \/ Restart

Next == Step /\ alone' = {c \in Changes : Busy' = {c} /\ (c \in alone \/ Busy = {})}

Spec == Init /\ [][Next]_vars
-----------------------------------------------------------------------------
(* Properties. *)

(* Types, and at most MaxPending changes wait for an approval. *)
TypeOK ==
  /\ change \in [Changes -> {"none", "pending", "gone", "claimed", "refused", "applied", "interrupted"}]
  /\ target \in [Changes -> Dirs] /\ attempts \in [Changes -> 0 .. MaxAttempts]
  /\ lapsed \subseteq Changes /\ alone \subseteq Changes
  /\ edits \in 0 .. MaxEdits /\ editing \in Dirs /\ told \subseteq Dirs
  /\ \A P \in {file, backup, memory, managers, lastSaid} : P \in Policy
  /\ draft \in [Threads -> Policy]
  /\ pc \in [Threads -> {"idle", "validate", "merge", "backup", "save", "load", "install", "hand over"}]
  /\ installer \in Threads \cup {Nobody}
  /\ Cardinality(Waiting) <= MaxPending

(* Staging grants nothing: whatever is allowed in memory or on disk, the   *)
(* owner wrote or an approval claimed in time with its challenge, whoever  *)
(* was interrupted or overwritten by whom.                                 *)
NothingUnasked ==
  \A d \in Dirs :
    (\E P \in {file, backup, memory, managers} : P[d] = "allow") =>
      \/ d \in told
      \/ \E c \in Changes : target[c] = d /\ change[c] \in {"claimed", "applied", "interrupted"}

(* An approval that no other thread has overlapped is in force everywhere  *)
(* when it reports so.                                                     *)
EffectiveAlone ==
  [][\A c \in Changes \cap alone :
       change'[c] = "applied" /\ change[c] = "claimed" =>
         \A P \in {file', memory', managers'} : P[target[c]] = "allow"]_vars

(* tc.ps1: a rule the editor saved is in force after the next start, as is *)
(* an approved change; so the file keeps the rule last saved for each      *)
(* directory.                                                              *)
SavedRuleSurvives == file = lastSaid
=============================================================================
