---------------------------- MODULE AccessProofs ----------------------------
(***************************************************************************)
(* Proofs about the access policy while it changes: what an approval may   *)
(* bring into force, what a session may still do and what a call may       *)
(* reach, for any number of directories, requests, threads, sessions'      *)
(* kinds, policies and paths.                                              *)
(***************************************************************************)
EXTENDS PolicyReload, AgentSessions, ScopedCalls, SequenceTheorems, NaturalsInduction,
        WellFoundedInduction, TLAPS

-----------------------------------------------------------------------------
(* PolicyReload.  A claimed change is refused only before it is merged;    *)
(* from then on its directory counts as asked for.  Every copy of a policy *)
(* and every draft allows only what was asked for.                         *)

Statuses == {"none", "pending", "gone", "claimed", "refused", "applied", "interrupted"}
Places == {"idle", "validate", "merge", "backup", "save", "load", "install", "hand over"}

PolicyTypes ==
  /\ change \in [Changes -> Statuses] /\ target \in [Changes -> Dirs]
  /\ file \in Policy /\ backup \in Policy /\ memory \in Policy /\ managers \in Policy
  /\ pc \in [Threads -> Places] /\ draft \in [Threads -> Policy]

Asked(d) ==
  \/ d \in told
  \/ \E c \in Changes : /\ target[c] = d
                        /\ \/ change[c] \in {"applied", "interrupted"}
                           \/ change[c] = "claimed" /\ pc[c] # "validate"

OnlyAsked(P) == \A d \in Dirs : P[d] = "allow" => Asked(d)

ClaimsHeld == \A c \in Changes : pc[c] # "idle" => change[c] = "claimed"

AskedInv ==
  /\ PolicyTypes /\ ClaimsHeld
  /\ OnlyAsked(file) /\ OnlyAsked(backup) /\ OnlyAsked(memory) /\ OnlyAsked(managers)
  /\ \A t \in Threads : OnlyAsked(draft[t])

(* An approval that nobody overlapped, from its merge on.                  *)
InForce(c) ==
  /\ pc[c] \in {"backup", "save", "install", "hand over"} => draft[c][target[c]] = "allow"
  /\ pc[c] \in {"load", "install", "hand over"} => file[target[c]] = "allow"
  /\ pc[c] = "hand over" => memory[target[c]] = "allow"

AloneInv == \A c \in Changes \cap alone : Busy = {c} /\ InForce(c)

PolicyInv == AskedInv /\ AloneInv

LEMMA ThreadsAre ==
  /\ Owner \in Threads /\ Changes \subseteq Threads /\ Reloaders \subseteq Threads
  /\ \A c \in Changes : c \notin Reloaders /\ c # Owner
BY ThreadAssumption DEF Threads

(* What was asked for stays so, unless a claim is refused before its merge.*)
LEMMA AskedStays ==
  ASSUME PolicyTypes, target' = target, told \subseteq told',
         \A c \in Changes :
           /\ change[c] \in {"applied", "interrupted"} => change'[c] \in {"applied", "interrupted"}
           /\ change[c] = "claimed" /\ pc[c] # "validate" =>
                \/ change'[c] \in {"applied", "interrupted"}
                \/ change'[c] = "claimed" /\ pc'[c] # "validate"
  PROVE  \A d \in Dirs : Asked(d) => Asked(d)'
BY DEF Asked

(* A step that keeps the types and what was asked for, and copies policies *)
(* from one place to another.                                              *)
LEMMA CopyStep ==
  ASSUME AskedInv, PolicyTypes', ClaimsHeld', \A d \in Dirs : Asked(d) => Asked(d)',
         \A P \in {file', backup', memory', managers'} : P \in {file, backup, memory, managers} \/ \E t \in Threads : P = draft[t],
         \A t \in Threads : draft'[t] \in {draft[t], file} \/ \A d \in Dirs : draft'[t][d] = "allow" => Asked(d)'
  PROVE  AskedInv'
<1>1. \A P \in {file', backup', memory', managers'} : \A d \in Dirs : P[d] = "allow" => Asked(d)'
  BY DEF AskedInv, OnlyAsked
<1>2. \A t \in Threads : \A d \in Dirs : draft'[t][d] = "allow" => Asked(d)'
  BY DEF AskedInv, OnlyAsked
<1>3. OnlyAsked(file)' /\ OnlyAsked(backup)' /\ OnlyAsked(memory)' /\ OnlyAsked(managers)'
  BY <1>1 DEF OnlyAsked
<1>4. \A t \in Threads : OnlyAsked(draft[t])'
  BY <1>2 DEF OnlyAsked
<1> QED
  BY <1>3, <1>4 DEF AskedInv

(* Steps on the pending changes alone.                                     *)
LEMMA ChangeStep ==
  ASSUME AskedInv, UNCHANGED <<target, policyVars, draft, ownerVars>>, change' \in [Changes -> Statuses],
         \A c \in Changes : change[c] \in {"claimed", "applied", "interrupted"} => change'[c] = change[c],
         \/ pc' = pc
         \/ \E c \in Changes : /\ change[c] = "pending" /\ change'[c] = "claimed"
                               /\ pc' = [pc EXCEPT ![c] = "validate"]
  PROVE  AskedInv'
<1>0. PolicyTypes /\ ClaimsHeld /\ UNCHANGED <<file, backup, memory, managers, told>>
  BY DEF AskedInv, policyVars, ownerVars
<1>1. pc' \in [Threads -> Places] /\ \A c \in Changes : pc'[c] = pc[c] \/ (change[c] = "pending" /\ change'[c] = "claimed")
  BY <1>0, ThreadsAre DEF PolicyTypes, Places
<1>2. PolicyTypes'
  BY <1>0, <1>1 DEF PolicyTypes
<1>3. ClaimsHeld'
  BY <1>0, <1>1 DEF ClaimsHeld
<1>4. \A d \in Dirs : Asked(d) => Asked(d)'
  BY <1>0, <1>1, AskedStays
<1> QED
  BY <1>0, <1>2, <1>3, <1>4, CopyStep

LEMMA AskedRequests ==
  ASSUME AskedInv, NEW c \in Changes,
         Request(c) \/ CancelChange(c) \/ Lapse(c) \/ ApproveFails(c) \/ ApproveClaims(c)
  PROVE  AskedInv'
<1>0. change \in [Changes -> Statuses]
  BY DEF AskedInv, PolicyTypes
<1>1. UNCHANGED <<target, policyVars, draft, ownerVars>>
  BY DEF Request, CancelChange, Lapse, ApproveFails, ApproveClaims
<1>2. CASE Request(c)
  <2>1. change[c] = "none" /\ pc' = pc /\ \E what \in {"pending", "none"} : change' = Staged(c, what)
    BY <1>2 DEF Request
  <2> QED
    BY <1>0, <1>1, <2>1, ChangeStep DEF Staged, Statuses
<1>3. CASE CancelChange(c) \/ ApproveFails(c) \/ Lapse(c)
  <2>1. pc' = pc /\ (change' = change \/ change' = Become(c, "gone")) /\ change[c] = "pending"
    BY <1>3 DEF CancelChange, ApproveFails, Lapse
  <2> QED
    BY <1>0, <1>1, <2>1, ChangeStep DEF Become, Statuses
<1>4. CASE ApproveClaims(c)
  <2>1. change[c] = "pending" /\ change' = Become(c, "claimed") /\ pc' = [pc EXCEPT ![c] = "validate"]
    BY <1>4 DEF ApproveClaims, Waiting
  <2> QED
    BY <1>0, <1>1, <2>1, ChangeStep DEF Become, Statuses
<1> QED
  BY <1>2, <1>3, <1>4

(* The steps of an approval, of a reload, of the owner's editor and of a   *)
(* restart.                                                                *)
LEMMA AskedThreads ==
  ASSUME AskedInv,
         \/ \E c \in Changes : Validate(c) \/ Merge(c)
         \/ \E d \in Dirs, rule \in Rule : OwnerEdits(d, rule)
         \/ \E t \in Threads : SaveBackup(t) \/ SaveFile(t) \/ Load(t) \/ Install(t) \/ HandOver(t)
         \/ Restart
  PROVE  AskedInv'
<1>0. PolicyTypes /\ ClaimsHeld
  BY DEF AskedInv
<1>t. /\ change \in [Changes -> Statuses] /\ target \in [Changes -> Dirs]
      /\ file \in Policy /\ backup \in Policy /\ memory \in Policy /\ managers \in Policy
      /\ pc \in [Threads -> Places] /\ draft \in [Threads -> Policy] /\ \A t \in Threads : draft[t] \in Policy
  BY <1>0 DEF PolicyTypes
<1>1. ASSUME NEW c \in Changes, Validate(c) PROVE AskedInv'
  <2>1. /\ UNCHANGED <<target, policyVars, draft, ownerVars>> /\ pc[c] = "validate"
        /\ \/ pc' = [pc EXCEPT ![c] = "idle"] /\ change' = Become(c, "refused")
           \/ pc' = [pc EXCEPT ![c] = "merge"] /\ change' = change
    BY <1>1 DEF Validate, Goto
  <2>2. UNCHANGED <<file, backup, memory, managers, told>>
    BY <2>1 DEF policyVars, ownerVars
  <2>3. PolicyTypes'
    BY <1>t, <2>1, <2>2, ThreadsAre DEF PolicyTypes, Places, Become, Statuses
  <2>4. ClaimsHeld'
    BY <1>0, <1>t, <2>1, ThreadsAre DEF ClaimsHeld, Become
  <2>5. \A d \in Dirs : Asked(d) => Asked(d)'
    <3>1. \A x \in Changes : /\ change[x] \in {"applied", "interrupted"} => change'[x] = change[x]
                             /\ change[x] = "claimed" /\ pc[x] # "validate" =>
                                  change'[x] = "claimed" /\ pc'[x] # "validate"
      <4>1. \A x \in Changes : x # c => change'[x] = change[x] /\ pc'[x] = pc[x]
        BY <1>t, <2>1, ThreadsAre DEF Become
      <4>2. change[c] = "claimed"
        BY <1>0, <2>1 DEF ClaimsHeld
      <4> QED
        BY <2>1, <4>1, <4>2
    <3> QED
      BY <1>0, <2>1, <2>2, <3>1, AskedStays
  <2> QED
    BY <2>1, <2>2, <2>3, <2>4, <2>5, CopyStep
<1>2. ASSUME NEW c \in Changes, Merge(c) PROVE AskedInv'
  <2> DEFINE P == [memory EXCEPT ![target[c]] = "allow"]
  <2>1. /\ UNCHANGED <<change, target, file, backup, memory, managers, told>> /\ pc[c] = "merge"
        /\ pc' = [pc EXCEPT ![c] = "backup"] /\ draft' = [draft EXCEPT ![c] = P]
    BY <1>2 DEF Merge, Goto, changeVars, policyVars, ownerVars
  <2>2. P \in Policy /\ \A d \in Dirs : P[d] = IF d = target[c] THEN "allow" ELSE memory[d]
    BY <1>t DEF Policy, Rule
  <2> HIDE DEF P
  <2>3. PolicyTypes'
    BY <1>t, <2>1, <2>2, ThreadsAre DEF PolicyTypes, Places
  <2>4. ClaimsHeld' /\ change[c] = "claimed"
    BY <1>0, <1>t, <2>1, ThreadsAre DEF ClaimsHeld
  <2>5. \A d \in Dirs : Asked(d) => Asked(d)'
    BY <1>0, <1>t, <2>1, ThreadsAre, AskedStays
  <2>6. \A d \in Dirs : d = target[c] => Asked(d)'
    BY <1>t, <2>1, <2>4, ThreadsAre DEF Asked
  <2>7. \A d \in Dirs : P[d] = "allow" => Asked(d)'
    BY <2>2, <2>5, <2>6 DEF AskedInv, OnlyAsked
  <2> QED
    BY <1>t, <2>1, <2>3, <2>4, <2>5, <2>7, ThreadsAre, CopyStep
<1>3. ASSUME NEW d \in Dirs, NEW rule \in Rule, OwnerEdits(d, rule) PROVE AskedInv'
  <2> DEFINE P == [file EXCEPT ![d] = rule]
  <2>1. /\ UNCHANGED <<change, target, file, backup, memory, managers>> /\ pc[Owner] = "idle"
        /\ pc' = [pc EXCEPT ![Owner] = "backup"] /\ draft' = [draft EXCEPT ![Owner] = P]
        /\ told \subseteq told' /\ (rule = "allow" => d \in told')
    BY <1>3 DEF OwnerEdits, Goto, changeVars, policyVars
  <2>2. P \in Policy /\ \A x \in Dirs : P[x] = IF x = d THEN rule ELSE file[x]
    BY <1>t DEF Policy
  <2> HIDE DEF P
  <2>3. PolicyTypes'
    BY <1>t, <2>1, <2>2, ThreadsAre DEF PolicyTypes, Places
  <2>4. ClaimsHeld'
    BY <1>0, <1>t, <2>1, ThreadsAre DEF ClaimsHeld
  <2>5. \A x \in Dirs : Asked(x) => Asked(x)'
    BY <1>0, <1>t, <2>1, ThreadsAre, AskedStays
  <2>6. \A x \in Dirs : P[x] = "allow" => Asked(x)'
    BY <2>1, <2>2, <2>5 DEF AskedInv, OnlyAsked, Asked
  <2> QED
    BY <1>t, <2>1, <2>3, <2>4, <2>5, <2>6, ThreadsAre, CopyStep
<1>4. ASSUME NEW t \in Threads, SaveBackup(t) \/ SaveFile(t) \/ Load(t) \/ Install(t) PROVE AskedInv'
  <2>1. /\ UNCHANGED <<change, target, managers, told>>
        /\ backup' \in {backup, file} /\ file' \in {file, draft[t]} /\ memory' \in {memory, draft[t]}
        /\ draft' = draft \/ draft' = [draft EXCEPT ![t] = file]
    BY <1>4 DEF SaveBackup, SaveFile, Load, Install, changeVars, policyVars, ownerVars
  <2>2. PICK to \in Places \ {"validate"} : pc' = [pc EXCEPT ![t] = to]
    BY <1>4 DEF SaveBackup, SaveFile, Load, Install, Goto, Places
  <2>3. \A c \in Changes : c = t => pc[c] # "idle" /\ pc[c] # "validate"
    BY <1>4, ThreadsAre DEF SaveBackup, SaveFile, Load, Install, Goto
  <2>4. PolicyTypes'
    BY <1>t, <2>1, <2>2, ThreadsAre DEF PolicyTypes
  <2>5. ClaimsHeld'
    BY <1>0, <1>t, <2>1, <2>2, <2>3, ThreadsAre DEF ClaimsHeld
  <2>6. \A d \in Dirs : Asked(d) => Asked(d)'
    BY <1>0, <1>t, <2>1, <2>2, ThreadsAre, AskedStays
  <2>7. \A x \in Threads : draft'[x] \in {draft[x], file}
    BY <1>t, <2>1
  <2> QED
    BY <2>1, <2>4, <2>5, <2>6, <2>7, CopyStep
<1>5. ASSUME NEW t \in Threads, HandOver(t) PROVE AskedInv'
  <2>1. /\ UNCHANGED <<target, file, backup, memory, draft, told>> /\ managers' = draft[t]
        /\ pc[t] = "hand over" /\ pc' = [pc EXCEPT ![t] = "idle"]
        /\ change' = IF t \in Changes THEN Become(t, "applied") ELSE change
    BY <1>5 DEF HandOver, Goto, ownerVars
  <2>2. PolicyTypes'
    BY <1>t, <2>1 DEF PolicyTypes, Places, Become, Statuses
  <2>3. ClaimsHeld'
    BY <1>0, <1>t, <2>1, ThreadsAre DEF ClaimsHeld, Become
  <2>4. \A d \in Dirs : Asked(d) => Asked(d)'
    BY <1>0, <1>t, <2>1, ThreadsAre, AskedStays DEF Become
  <2> QED
    BY <2>1, <2>2, <2>3, <2>4, CopyStep
<1>6. CASE Restart
  <2>1. /\ UNCHANGED <<target, file, backup, draft, told>> /\ memory' = file /\ managers' = file
        /\ pc' = [t \in Threads |-> IF t = Owner THEN pc[t] ELSE "idle"]
        /\ change' = [c \in Changes |-> CASE change[c] = "pending" -> "gone"
                                          [] change[c] = "claimed" -> "interrupted"
                                          [] OTHER -> change[c]]
    BY <1>6 DEF Restart, ownerVars
  <2>2. PolicyTypes'
    BY <1>t, <2>1 DEF PolicyTypes, Places, Statuses
  <2>3. ClaimsHeld'
    BY <1>t, <2>1, ThreadsAre DEF ClaimsHeld
  <2>4. \A d \in Dirs : Asked(d) => Asked(d)'
    BY <1>0, <1>t, <2>1, AskedStays
  <2> QED
    BY <2>1, <2>2, <2>3, <2>4, CopyStep
<1> QED
  BY <1>1, <1>2, <1>3, <1>4, <1>5, <1>6

LEMMA AskedStep == AskedInv /\ [Next]_vars => AskedInv'
<1> SUFFICES ASSUME AskedInv, [Next]_vars PROVE AskedInv'
  OBVIOUS
<1>1. CASE UNCHANGED vars
  BY <1>1 DEF vars, changeVars, policyVars, ownerVars, AskedInv, PolicyTypes, ClaimsHeld, OnlyAsked, Asked
<1>2. CASE Step
  BY <1>2, AskedRequests, AskedThreads DEF Step
<1> QED
  BY <1>1, <1>2 DEF Next

LEMMA AskedInitially == Init => AskedInv
BY DEF Init, AskedInv, PolicyTypes, ClaimsHeld, OnlyAsked, Asked, Policy, Rule, Statuses, Places,
       Threads, changeVars

(* service.py: staging a change grants nothing; whatever any copy of the   *)
(* policy allows, the owner wrote or an approval claimed.                  *)
THEOREM OnlyAskedIsAllowed == Spec => []NothingUnasked
<1>1. AskedInv => NothingUnasked
  BY DEF AskedInv, OnlyAsked, Asked, NothingUnasked
<1> QED
  BY AskedInitially, AskedStep, <1>1, PTL DEF Spec

(* A step that leaves one approval alone at work is its own, or none's.    *)
LEMMA AloneStep ==
  ASSUME PolicyInv, [Next]_vars PROVE AloneInv'
<1>0. PolicyTypes /\ ClaimsHeld /\ AloneInv
  BY DEF PolicyInv, AskedInv
<1>t. /\ target \in [Changes -> Dirs] /\ file \in Policy /\ memory \in Policy
      /\ pc \in [Threads -> Places] /\ draft \in [Threads -> Policy]
  BY <1>0 DEF PolicyTypes
<1>1. CASE UNCHANGED vars
  BY <1>0, <1>1 DEF vars, changeVars, policyVars, ownerVars, AloneInv, InForce, Busy
<1>2. ASSUME Next, NEW c \in Changes \cap alone' PROVE Busy' = {c} /\ InForce(c)'
  <2>1. Step /\ Busy' = {c} /\ (c \in alone \/ Busy = {})
    BY <1>2 DEF Next
  <2>2. c \in Threads /\ pc'[c] # "idle" /\ \A t \in Threads : t # c => pc'[t] = "idle"
    BY <2>1, ThreadsAre DEF Busy
  <2>3. \A t \in Threads : t # c => pc[t] = "idle"
    BY <1>0, <2>1 DEF Busy, AloneInv
  <2>4. c \in alone => InForce(c)
    BY <1>0 DEF AloneInv
  <2>5. pc[c] # "idle" => c \in alone
    BY <2>1, <2>2 DEF Busy
  <2>6. c \notin Reloaders /\ c # Owner
    BY ThreadsAre
  <2>7. target' = target
    BY <2>1 DEF Step, Request, CancelChange, Lapse, ApproveFails, ApproveClaims, Validate, Merge,
                OwnerEdits, SaveBackup, SaveFile, Load, Install, HandOver, Restart, changeVars
  <2>8. CASE UNCHANGED <<file, memory, draft, pc>>
    BY <2>1, <2>2, <2>4, <2>5, <2>7, <2>8 DEF InForce
  <2>9. ASSUME NEW t \in Threads, NEW to \in Places, pc' = [pc EXCEPT ![t] = to], to # "idle"
        PROVE  t = c
    BY <1>t, <2>2, <2>9
  <2>10. ASSUME NEW t \in Threads, NEW to \in Places, pc' = [pc EXCEPT ![t] = to], pc[t] # "idle"
         PROVE  t = c
    BY <2>3, <2>10
  <2>11. ASSUME NEW x \in Changes,
                Request(x) \/ CancelChange(x) \/ Lapse(x) \/ ApproveFails(x) \/ ApproveClaims(x)
         PROVE  InForce(c)'
    <3>1. CASE ApproveClaims(x)
      <4>1. pc' = [pc EXCEPT ![x] = "validate"]
        BY <3>1 DEF ApproveClaims
      <4>2. pc'[c] = "validate"
        BY <1>t, <2>9, <4>1, ThreadsAre DEF Places
      <4> QED
        BY <4>2 DEF InForce
    <3>2. CASE ~ApproveClaims(x)
      BY <2>8, <2>11, <3>2 DEF Request, CancelChange, Lapse, ApproveFails, policyVars
    <3> QED
      BY <3>1, <3>2
  <2>12. ASSUME NEW x \in Changes, Validate(x) PROVE InForce(c)'
    <3>1. pc[x] = "validate" /\ \E to \in {"idle", "merge"} : pc' = [pc EXCEPT ![x] = to]
      BY <2>12 DEF Validate, Goto
    <3>2. x = c
      BY <2>3, <3>1, ThreadsAre
    <3> QED
      BY <1>t, <2>2, <3>1, <3>2 DEF InForce
  <2>13. ASSUME NEW x \in Changes, Merge(x) PROVE InForce(c)'
    <3>1. /\ pc[x] = "merge" /\ pc' = [pc EXCEPT ![x] = "backup"]
          /\ draft' = [draft EXCEPT ![x] = [memory EXCEPT ![target[x]] = "allow"]]
      BY <2>13 DEF Merge, Goto
    <3>2. x = c
      BY <2>3, <3>1, ThreadsAre
    <3>3. draft'[c][target[c]] = "allow" /\ pc'[c] = "backup"
      BY <1>t, <2>2, <3>1, <3>2 DEF Policy
    <3> QED
      BY <2>7, <3>3 DEF InForce
  <2>14. ASSUME NEW d \in Dirs, NEW rule \in Rule, OwnerEdits(d, rule) PROVE InForce(c)'
    BY <2>6, <2>9, <2>14, ThreadsAre DEF OwnerEdits, Goto, Places
  <2>15. ASSUME NEW t \in Threads, SaveBackup(t) PROVE InForce(c)'
    <3>1. pc[t] = "backup" /\ pc' = [pc EXCEPT ![t] = "save"] /\ UNCHANGED <<file, memory, draft>>
      BY <2>15 DEF SaveBackup, Goto
    <3>2. t = c
      BY <2>3, <3>1
    <3> QED
      BY <1>t, <2>2, <2>4, <2>5, <2>7, <3>1, <3>2 DEF InForce
  <2>16. ASSUME NEW t \in Threads, SaveFile(t) PROVE InForce(c)'
    <3>1. pc[t] = "save" /\ file' = draft[t] /\ UNCHANGED <<memory, draft>>
      BY <2>16 DEF SaveFile, Goto
    <3>2. t = c
      BY <2>3, <3>1
    <3>3. pc' = [pc EXCEPT ![c] = "load"]
      BY <2>6, <2>16, <3>2 DEF SaveFile, Goto
    <3> QED
      BY <1>t, <2>2, <2>4, <2>5, <2>7, <3>1, <3>2, <3>3 DEF InForce
  <2>17. ASSUME NEW t \in Threads, Load(t) PROVE InForce(c)'
    <3>1. /\ pc' = [pc EXCEPT ![t] = "install"] /\ draft' = [draft EXCEPT ![t] = file]
          /\ UNCHANGED <<file, memory>> /\ (t \in Reloaders \/ pc[t] = "load")
      BY <2>17 DEF Load, Goto, policyVars
    <3>2. t = c
      BY <2>9, <3>1 DEF Places
    <3> QED
      BY <1>t, <2>2, <2>4, <2>5, <2>6, <2>7, <3>1, <3>2 DEF InForce
  <2>18. ASSUME NEW t \in Threads, Install(t) PROVE InForce(c)'
    <3>1. /\ pc[t] = "install" /\ pc' = [pc EXCEPT ![t] = "hand over"]
          /\ memory' = draft[t] /\ UNCHANGED <<file, draft>>
      BY <2>18 DEF Install, Goto
    <3>2. t = c
      BY <2>3, <3>1
    <3> QED
      BY <1>t, <2>2, <2>4, <2>5, <2>7, <3>1, <3>2 DEF InForce
  <2>19. ASSUME NEW t \in Threads, HandOver(t) PROVE InForce(c)'
    <3>1. pc[t] = "hand over" /\ pc' = [pc EXCEPT ![t] = "idle"]
      BY <2>19 DEF HandOver, Goto
    <3>2. t = c
      BY <2>3, <3>1
    <3> QED
      BY <1>t, <2>2, <3>1, <3>2
  <2>20. CASE Restart
    BY <2>2, <2>6, <2>20 DEF Restart
  <2>21. InForce(c)'
    BY <2>1, <2>11, <2>12, <2>13, <2>14, <2>15, <2>16, <2>17, <2>18, <2>19, <2>20 DEF Step
  <2> QED
    BY <2>1, <2>21
<1> QED
  BY <1>1, <1>2 DEF AloneInv

(* policy_update(): an approval that ran alone is in force in the file, in *)
(* memory and with the grants' manager when it reports that it is applied. *)
THEOREM AloneIsEffective == Spec => EffectiveAlone
<1>1. Init => PolicyInv
  BY AskedInitially DEF Init, PolicyInv, AloneInv
<1>2. PolicyInv /\ [Next]_vars => PolicyInv'
  BY AskedStep, AloneStep DEF PolicyInv
<1>3. PolicyInv /\ [Next]_vars =>
        [\A c \in Changes \cap alone :
           change'[c] = "applied" /\ change[c] = "claimed" =>
             \A P \in {file', memory', managers'} : P[target[c]] = "allow"]_vars
  <2> SUFFICES ASSUME PolicyInv, Next, NEW c \in Changes \cap alone,
                      change'[c] = "applied", change[c] = "claimed"
               PROVE  \A P \in {file', memory', managers'} : P[target[c]] = "allow"
    OBVIOUS
  <2>1. PICK t \in Threads : HandOver(t) /\ t = c
    <3>1. change \in [Changes -> Statuses]
      BY DEF PolicyInv, AskedInv, PolicyTypes
    <3>2. ASSUME NEW x \in Changes, Request(x) \/ CancelChange(x) \/ ApproveFails(x) \/ ApproveClaims(x)
                                      \/ Validate(x)
          PROVE  FALSE
      BY <3>1, <3>2 DEF Request, CancelChange, ApproveFails, ApproveClaims, Validate, Staged, Become, Waiting
    <3>3. ASSUME change' = change PROVE FALSE
      BY <3>3
    <3>4. ~Restart
      BY DEF Restart
    <3>5. PICK t \in Threads : HandOver(t)
      BY <3>2, <3>3, <3>4 DEF Next, Step, Lapse, Merge, OwnerEdits, SaveBackup, SaveFile, Load, Install, changeVars
    <3>6. t = c
      BY <3>1, <3>3, <3>5 DEF HandOver, Become
    <3> QED
      BY <3>5, <3>6
  <2>2. /\ pc[c] = "hand over" /\ managers' = draft[c] /\ UNCHANGED <<file, memory>>
    BY <2>1 DEF HandOver, Goto
  <2>3. InForce(c)
    BY DEF PolicyInv, AloneInv
  <2> QED
    BY <2>2, <2>3 DEF InForce
<1> QED
  BY <1>1, <1>2, <1>3, PTL DEF Spec, EffectiveAlone
-----------------------------------------------------------------------------
(* AgentSessions.  A start has the session's lock from its first check to  *)
(* its launch; a policy that is installed meanwhile leaves a sweep, which  *)
(* needs that lock.  A session that is still attached has the record's     *)
(* conversation, or that of a run that is about to detach it.              *)

StartSteps == {"idle", "active", "record", "binding", "directory", "shell", "options", "launch"}
Roots == {p.root : p \in SessionPolicies}
ConvType ==
  [kind : Kinds, root : Roots, native : Conversations \cup {NoId}, ref : BOOLEAN, closed : BOOLEAN,
   lock : Starters \cup {"free"}]
TurnType ==
  [in : BOOLEAN, binds : {"nothing", "follows", "takes"}, says : Conversations \cup {NoId},
   os : {"none", "live", "over"}, active : BOOLEAN, override : {"none", "failed", "cancelled"},
   final : BOOLEAN, unref : BOOLEAN]
StartType == [at : StartSteps, action : Actions, found : {"no", "same", "elsewhere"}]

SessionTypes ==
  /\ rules \in SessionPolicies /\ conv \in ConvType
  /\ history \in {"same", "elsewhere", "other"} /\ row \in {"same", "elsewhere", "other"}
  /\ turn \in [Turns -> TurnType] /\ start \in [Starters -> StartType]
  /\ reload \in [Reloads -> {"idle", "sweep", "done"}]

Swept == \A l \in Reloads : reload[l] # "sweep"

(* A start that is under way. *)
Guarded(t) ==
  /\ start[t].at # "idle" => conv.lock = t
  /\ start[t].at \in {"options", "launch"} /\ Swept => ShellHolds
  /\ start[t].at \in {"directory", "shell", "options", "launch"} /\ conv.ref => start[t].found = "same"

(* A run that is listed. *)
Listing(r) ==
  /\ turn[r].in /\ turn[r].os = "live" /\ turn[r].override = "none" => turn[r].active
  /\ turn[r].unref => turn[r].in /\ turn[r].says # NoId

ShellsHold ==
  Swept /\ conv.kind.shell =>
    \A r \in Turns : turn[r].in /\ turn[r].os = "live" /\ turn[r].override = "none" => ShellHolds

KnowsItsOwn ==
  conv.ref => conv.native = Own \/ \E r \in Turns : turn[r].unref /\ turn[r].says = conv.native

SessionInv ==
  /\ SessionTypes /\ (\A t \in Starters : Guarded(t)) /\ (\A r \in Turns : Listing(r))
  /\ ShellsHold /\ KnowsItsOwn

LEMMA ShellKept ==
  ASSUME UNCHANGED rules, conv'.kind = conv.kind, conv'.root = conv.root
  PROVE  ShellHolds' <=> ShellHolds
BY DEF ShellHolds, DirectoryHolds, Allows

(* A step of the starter that has the lock, or takes it, or gives it back. *)
LEMMA StarterMoves ==
  ASSUME SessionInv, NEW t \in Starters, UNCHANGED <<rules, history, row, turn, reload>>,
         NEW s \in StartType, start' = [start EXCEPT ![t] = s],
         NEW lock \in Starters \cup {"free"}, conv' = [conv EXCEPT !.lock = lock],
         conv.lock \in {"free", t}, lock \in {"free", t}, lock = "free" => s.at = "idle",
         s.at \in {"options", "launch"} /\ Swept => ShellHolds,
         s.at \in {"directory", "shell", "options", "launch"} /\ conv.ref => s.found = "same"
  PROVE  SessionInv'
<1>0. SessionTypes /\ "free" \notin Starters
  BY SessionAssumption DEF SessionInv
<1>1. /\ conv' \in ConvType /\ conv'.kind = conv.kind /\ conv'.root = conv.root /\ conv'.ref = conv.ref
      /\ conv'.native = conv.native /\ conv'.lock = lock
  BY <1>0 DEF SessionTypes, ConvType
<1>2. ShellHolds' <=> ShellHolds
  BY <1>1, ShellKept
<1>3. start' \in [Starters -> StartType] /\ \A u \in Starters : start'[u] = IF u = t THEN s ELSE start[u]
  BY <1>0 DEF SessionTypes
<1>4. SessionTypes'
  BY <1>0, <1>1, <1>3 DEF SessionTypes
<1>5. Swept' <=> Swept
  BY DEF Swept
<1>6. ASSUME NEW u \in Starters PROVE Guarded(u)'
  <2>1. CASE u = t
    BY <1>1, <1>2, <1>3, <1>5, <2>1 DEF Guarded, StartType, StartSteps
  <2>2. CASE u # t
    <3>1. start'[u] = start[u] /\ start[u].at = "idle"
      BY <1>0, <1>3, <2>2 DEF SessionInv, Guarded
    <3> QED
      BY <3>1 DEF Guarded
  <2> QED
    BY <2>1, <2>2
<1>7. (\A r \in Turns : Listing(r)') /\ KnowsItsOwn' /\ ShellsHold'
  BY <1>1, <1>2, <1>5 DEF SessionInv, Listing, KnowsItsOwn, ShellsHold
<1> QED
  BY <1>4, <1>6, <1>7 DEF SessionInv

(* A step on the runs that starts none.                                    *)
LEMMA TurnsMove ==
  ASSUME SessionInv, UNCHANGED <<rules, history, row, start>>,
         turn' \in [Turns -> TurnType], \A r \in Turns : Listing(r)',
         conv' \in ConvType, conv'.kind = conv.kind, conv'.root = conv.root, conv'.lock = conv.lock,
         conv'.ref => conv.ref, KnowsItsOwn',
         reload' \in [Reloads -> {"idle", "sweep", "done"}],
         Swept' => Swept \/ (conv.lock = "free" /\ ShellsHold'),
         \A r \in Turns : turn'[r].in /\ turn'[r].os = "live" /\ turn'[r].override = "none" =>
                            turn[r].in /\ turn[r].os = "live" /\ turn[r].override = "none"
  PROVE  SessionInv'
<1>0. SessionTypes /\ "free" \notin Starters
  BY SessionAssumption DEF SessionInv
<1>1. ShellHolds' <=> ShellHolds
  BY ShellKept
<1>2. SessionTypes'
  BY <1>0 DEF SessionTypes
<1>3. ASSUME NEW t \in Starters PROVE Guarded(t)'
  BY <1>0, <1>1 DEF SessionInv, Guarded
<1>4. ShellsHold'
  BY <1>1 DEF SessionInv, ShellsHold
<1> QED
  BY <1>2, <1>3, <1>4 DEF SessionInv

LEMMA StartKeeps == ASSUME SessionInv, NEW t \in Starters, StartTurn(t) PROVE SessionInv'
<1>0. /\ SessionTypes /\ start[t] \in StartType /\ start \in [Starters -> StartType] /\ conv \in ConvType
      /\ Guarded(t) /\ "free" \notin Starters /\ NoStart \in StartType /\ NoStart.at = "idle"
  BY SessionAssumption DEF SessionInv, SessionTypes, NoStart, StartType, StartSteps, Actions
<1>1. ASSUME UNCHANGED <<rules, history, row, turn, reload>>, Raises(t), conv.lock = t PROVE SessionInv'
  <2>1. start' = [start EXCEPT ![t] = NoStart] /\ conv' = [conv EXCEPT !.lock = "free"]
    BY <1>1 DEF Raises
  <2> QED
    BY <1>0, <1>1, <2>1, StarterMoves
<1>2. ASSUME UNCHANGED <<rules, history, row, turn, reload>>, NEW at \in StartSteps,
             NEW found \in {"no", "same", "elsewhere"},
             start' = [start EXCEPT ![t].at = at, ![t].found = found],
             UNCHANGED conv, conv.lock = t,
             at \in {"options", "launch"} /\ Swept => ShellHolds,
             at \in {"directory", "shell", "options", "launch"} /\ conv.ref => found = "same"
      PROVE  SessionInv'
  <2> DEFINE s == [start[t] EXCEPT !.at = at, !.found = found]
  <2>1. s \in StartType /\ s.at = at /\ s.found = found /\ start' = [start EXCEPT ![t] = s]
    BY <1>0, <1>2 DEF StartType
  <2> HIDE DEF s
  <2>2. conv' = [conv EXCEPT !.lock = t]
    BY <1>0, <1>2 DEF ConvType
  <2> QED
    BY <1>0, <1>2, <2>1, <2>2, StarterMoves
<1>3. ASSUME NEW at \in StartSteps, Moves(t, at), start[t].at # "idle",
             UNCHANGED <<rules, history, row, turn, reload, conv>>,
             at \in {"options", "launch"} /\ Swept => ShellHolds,
             at \in {"directory", "shell", "options", "launch"} /\ conv.ref => start[t].found = "same"
      PROVE  SessionInv'
  <2>1. start' = [start EXCEPT ![t].at = at, ![t].found = start[t].found]
    BY <1>0, <1>3 DEF Moves, StartType
  <2>2. start[t].found \in {"no", "same", "elsewhere"} /\ conv.lock = t
    BY <1>0, <1>3 DEF StartType, Guarded
  <2> QED
    BY <1>2, <1>3, <2>1, <2>2
<1>4. CASE BeginTurn(t)
  <2>1. PICK action \in Actions : start' = [start EXCEPT ![t] = [NoStart EXCEPT !.at = "active", !.action = action]]
    BY <1>4 DEF BeginTurn
  <2> DEFINE s == [NoStart EXCEPT !.at = "active", !.action = action]
  <2>2. s \in StartType /\ s.at = "active"
    BY <1>0 DEF StartType, StartSteps
  <2>3. start' = [start EXCEPT ![t] = s] /\ conv' = [conv EXCEPT !.lock = t] /\ conv.lock = "free"
        /\ UNCHANGED <<rules, history, row, turn, reload>>
    BY <1>4, <2>1 DEF BeginTurn
  <2> HIDE DEF s
  <2> QED
    BY <1>0, <2>2, <2>3, StarterMoves
<1>5. CASE OneAtATime(t)
  <2>1. start[t].at = "active" /\ UNCHANGED <<rules, history, row, turn, reload>>
        /\ (Raises(t) \/ (UNCHANGED conv /\ Moves(t, IF conv.ref THEN "record" ELSE "directory")))
    BY <1>5 DEF OneAtATime, Passes
  <2> QED
    BY <1>0, <1>1, <1>3, <2>1 DEF Guarded, StartSteps
<1>6. CASE Reauthorize(t)
  <2>1. start[t].at = "record" /\ UNCHANGED <<rules, history, row, turn, reload>>
        /\ (Raises(t) \/ (/\ UNCHANGED conv /\ row # "other"
                          /\ start' = [start EXCEPT ![t].at = "binding", ![t].found = row]))
    BY <1>6 DEF Reauthorize
  <2>2. row # "other" => row \in {"no", "same", "elsewhere"}
    BY <1>0 DEF SessionTypes
  <2> QED
    BY <1>0, <1>1, <1>2, <2>1, <2>2 DEF Guarded, StartSteps
<1>7. CASE SamePlace(t)
  <2>1. start[t].at = "binding" /\ UNCHANGED <<rules, history, row, turn, reload>>
        /\ (Raises(t) \/ (UNCHANGED conv /\ start[t].found = "same" /\ Moves(t, "directory")))
    BY <1>7 DEF SamePlace, Passes
  <2> QED
    BY <1>0, <1>1, <1>3, <2>1 DEF Guarded, StartSteps
<1>8. CASE CheckDirectory(t)
  <2>1. start[t].at = "directory" /\ UNCHANGED <<rules, history, row, turn, reload>>
        /\ (Raises(t) \/ (UNCHANGED conv /\ Moves(t, "shell")))
    BY <1>8 DEF CheckDirectory, Passes
  <2> QED
    BY <1>0, <1>1, <1>3, <2>1 DEF Guarded, StartSteps
<1>9. CASE CheckShell(t)
  <2>1. start[t].at = "shell" /\ UNCHANGED <<rules, history, row, turn, reload>>
        /\ (Raises(t) \/ (UNCHANGED conv /\ ShellHolds /\ Moves(t, "options")))
    BY <1>9 DEF CheckShell, Passes
  <2> QED
    BY <1>0, <1>1, <1>3, <2>1 DEF Guarded, StartSteps
<1>10. CASE CheckOptions(t)
  <2>1. start[t].at = "options" /\ UNCHANGED <<rules, history, row, turn, reload>>
        /\ (Raises(t) \/ (UNCHANGED conv /\ Moves(t, "launch")))
    BY <1>10 DEF CheckOptions, Passes
  <2> QED
    BY <1>0, <1>1, <1>3, <2>1 DEF Guarded, StartSteps
<1>11. CASE LaunchTurn(t)
  <2>1. /\ start[t].at = "launch" /\ conv.lock = t /\ UNCHANGED <<rules, history, row, reload>>
        /\ start' = [start EXCEPT ![t] = NoStart] /\ conv' = [conv EXCEPT !.lock = "free"]
    BY <1>0, <1>11 DEF LaunchTurn, Raises, Guarded
  <2>2. CASE turn' = turn
    BY <1>0, <2>1, <2>2, StarterMoves
  <2>3. ASSUME NEW r \in Turns, NEW how \in {"nothing", "follows", "takes"}, ~turn[r].in,
               turn' = [turn EXCEPT ![r] = [NoTurn EXCEPT !.in = TRUE, !.os = "live", !.active = TRUE, !.binds = how]]
        PROVE  SessionInv'
    <3> DEFINE new == [NoTurn EXCEPT !.in = TRUE, !.os = "live", !.active = TRUE, !.binds = how]
    <3>1. new \in TurnType /\ new.active /\ ~new.unref
      BY DEF NoTurn, TurnType
    <3>2. turn' = [turn EXCEPT ![r] = new]
      BY <2>3
    <3> HIDE DEF new
    <3>3. turn' \in [Turns -> TurnType] /\ \A x \in Turns : turn'[x] = IF x = r THEN new ELSE turn[x]
      BY <1>0, <3>1, <3>2 DEF SessionTypes
    <3>4. /\ conv' \in ConvType /\ conv'.kind = conv.kind /\ conv'.root = conv.root /\ conv'.ref = conv.ref
          /\ conv'.native = conv.native /\ conv'.lock = "free"
      BY <1>0, <2>1 DEF ConvType
    <3>5. (ShellHolds' <=> ShellHolds) /\ (Swept' <=> Swept)
      BY <2>1, <3>4, ShellKept DEF Swept
    <3>6. start' \in [Starters -> StartType] /\ \A u \in Starters : start'[u].at = "idle"
      BY <1>0, <2>1 DEF SessionInv, SessionTypes, Guarded
    <3>7. SessionTypes'
      BY <1>0, <2>1, <3>3, <3>4, <3>6 DEF SessionTypes
    <3>8. \A u \in Starters : Guarded(u)'
      BY <3>6 DEF Guarded
    <3>9. \A x \in Turns : Listing(x)'
      BY <3>1, <3>3 DEF SessionInv, Listing
    <3>10. ShellsHold'
      BY <1>0, <2>1, <3>3, <3>4, <3>5 DEF SessionInv, ShellsHold, Guarded
    <3>11. KnowsItsOwn'
      <4>1. \A x \in Turns : turn[x].unref => turn'[x] = turn[x]
        BY <2>3, <3>3 DEF SessionInv, Listing
      <4> QED
        BY <3>4, <4>1 DEF SessionInv, KnowsItsOwn
    <3> QED
      BY <3>7, <3>8, <3>9, <3>10, <3>11 DEF SessionInv
  <2> QED
    BY <1>11, <2>2, <2>3 DEF LaunchTurn, Binds
<1> QED
  BY <1>4, <1>5, <1>6, <1>7, <1>8, <1>9, <1>10, <1>11 DEF StartTurn

(* What a refresh makes of a run: it is live and wanted only if it was.    *)
LEMMA SettledIs ==
  ASSUME NEW rec \in TurnType
  PROVE  /\ Settled(rec) \in TurnType
         /\ ~rec.unref => ~Settled(rec).unref
         /\ Settled(rec).os = "live" /\ Settled(rec).override = "none" =>
              /\ Settled(rec).active /\ Settled(rec).in = rec.in
              /\ rec.os = "live" /\ rec.override = "none"
<1>1. CASE rec.os = "live"
  <2> DEFINE s == [rec EXCEPT !.active = rec.override = "none"]
  <2>1. Settled(rec) = s
    BY <1>1 DEF Settled
  <2>2. (rec.override = "none") \in BOOLEAN
    OBVIOUS
  <2>3. s \in TurnType
    BY <2>2 DEF TurnType
  <2>4. /\ s.in = rec.in /\ s.os = rec.os /\ s.override = rec.override /\ s.unref = rec.unref
        /\ s.active = (rec.override = "none")
    BY DEF TurnType
  <2> HIDE DEF s
  <2>5. rec.override = "none" => s.active
    BY <2>4
  <2> QED
    BY <1>1, <2>1, <2>3, <2>4, <2>5
<1>2. CASE rec.os # "live"
  BY <1>2 DEF Settled, NoTurn, TurnType
<1> QED
  BY <1>1, <1>2

(* One run changes.                                                        *)
SameSession == conv' \in ConvType /\ conv'.kind = conv.kind /\ conv'.root = conv.root /\ conv'.lock = conv.lock
StillWanted(new, old) ==
  new.in /\ new.os = "live" /\ new.override = "none" =>
    old.in /\ old.os = "live" /\ old.override = "none" /\ new.active
MayDetach(new) == new.unref => new.in /\ new.says # NoId

LEMMA TurnMoves ==
  ASSUME SessionInv, NEW r \in Turns, NEW new \in TurnType, turn' = [turn EXCEPT ![r] = new],
         UNCHANGED <<rules, history, row, start, reload>>,
         SameSession, conv'.ref => conv.ref, KnowsItsOwn', StillWanted(new, turn[r]), MayDetach(new)
  PROVE  SessionInv'
<1>0. SessionTypes
  BY DEF SessionInv
<1>1. \A x \in Turns : turn'[x] = IF x = r THEN new ELSE turn[x]
  BY <1>0 DEF SessionTypes
<1>2. turn' \in [Turns -> TurnType]
  BY <1>0 DEF SessionTypes
<1>3. \A x \in Turns : Listing(x)'
  BY <1>1 DEF SessionInv, Listing, StillWanted, MayDetach
<1>4. Swept' => Swept
  BY DEF Swept
<1>5. reload' \in [Reloads -> {"idle", "sweep", "done"}]
  BY <1>0 DEF SessionTypes
<1>6. \A x \in Turns : turn'[x].in /\ turn'[x].os = "live" /\ turn'[x].override = "none" =>
                         turn[x].in /\ turn[x].os = "live" /\ turn[x].override = "none"
  BY <1>1 DEF StillWanted
<1> QED
  BY <1>2, <1>3, <1>4, <1>5, <1>6, TurnsMove DEF SameSession

LEMMA RefreshKeeps ==
  ASSUME SessionInv, NEW r \in Turns,
         RefreshTurn(r) \/ CancelTurn(r) \/ AgentSays(r) \/ AgentEnds(r)
  PROVE  SessionInv'
<1>0. /\ turn \in [Turns -> TurnType] /\ turn[r] \in TurnType /\ conv \in ConvType /\ Listing(r) /\ KnowsItsOwn
      /\ NoId \notin Conversations
  BY SessionAssumption DEF SessionInv, SessionTypes
<1>1. ASSUME UNCHANGED conv PROVE SameSession /\ (conv'.ref => conv.ref)
  BY <1>0, <1>1 DEF SameSession
<1>2. \A new : turn' = [turn EXCEPT ![r] = new] => turn'[r] = new /\ \A x \in Turns : x # r => turn'[x] = turn[x]
  BY <1>0
<1>3. ASSUME NEW new \in TurnType, turn' = [turn EXCEPT ![r] = new], new.unref = turn[r].unref, new.says = turn[r].says,
             conv' = conv
      PROVE  KnowsItsOwn'
  BY <1>0, <1>2, <1>3 DEF KnowsItsOwn
<1>4. ASSUME NEW new, turn' = [turn EXCEPT ![r] = new], ~turn[r].unref, conv' = conv PROVE KnowsItsOwn'
  BY <1>0, <1>2, <1>4 DEF KnowsItsOwn
<1>5. CASE Bind(r)
  <2>1. turn[r].in /\ ~turn[r].unref /\ turn[r].says \in Conversations /\ UNCHANGED <<rules, history, row, start, reload>>
    BY <1>0, <1>5 DEF Bind, InHand, Names, TurnType
  <2>2. CASE conv.ref /\ conv.native # turn[r].says
    <3> DEFINE rec == [turn[r] EXCEPT !.override = "failed"]
               new == Settled(rec)
    <3>1. rec \in TurnType /\ ~rec.unref /\ rec.override = "failed"
      BY <1>0, <2>1 DEF TurnType
    <3>2. turn' = [turn EXCEPT ![r] = new] /\ conv' = conv
      BY <1>5, <2>2 DEF Bind
    <3> HIDE DEF rec
    <3>3. new \in TurnType /\ StillWanted(new, turn[r]) /\ MayDetach(new)
      BY <3>1, SettledIs DEF StillWanted, MayDetach
    <3> HIDE DEF new
    <3>4. KnowsItsOwn'
      BY <1>4, <2>1, <3>2
    <3> QED
      BY <1>1, <2>1, <3>2, <3>3, <3>4, TurnMoves
  <2>3. CASE ~(conv.ref /\ conv.native # turn[r].says)
    <3> DEFINE new == Settled(turn[r])
    <3>1. turn' = [turn EXCEPT ![r] = new] /\ conv' = [conv EXCEPT !.native = turn[r].says]
      BY <1>5, <2>3 DEF Bind
    <3>2. new \in TurnType /\ StillWanted(new, turn[r]) /\ MayDetach(new)
      BY <1>0, <2>1, SettledIs DEF StillWanted, MayDetach
    <3> HIDE DEF new
    <3>3. SameSession /\ conv'.ref = conv.ref
      BY <1>0, <2>1, <3>1 DEF SameSession, ConvType
    <3>4. conv.ref => conv' = conv
      BY <1>0, <2>3, <3>1 DEF ConvType
    <3>5. KnowsItsOwn'
      <4>1. CASE conv.ref
        BY <1>4, <2>1, <3>1, <3>4, <4>1
      <4>2. CASE ~conv.ref
        BY <3>3, <4>2 DEF KnowsItsOwn
      <4> QED
        BY <4>1, <4>2
    <3> QED
      BY <2>1, <3>1, <3>2, <3>3, <3>5, TurnMoves
  <2> QED
    BY <2>2, <2>3
<1>6. CASE Rebind(r)
  <2> DEFINE new == [turn[r] EXCEPT !.unref = TRUE]
  <2>1. /\ turn[r].in /\ turn[r].says \in Conversations /\ UNCHANGED <<rules, history, row, start, reload>>
        /\ turn' = [turn EXCEPT ![r] = new] /\ conv' = [conv EXCEPT !.native = turn[r].says]
    BY <1>0, <1>6 DEF Rebind, InHand, Names, TurnType
  <2>2. /\ new \in TurnType /\ new.unref /\ new.in = turn[r].in /\ new.os = turn[r].os /\ new.override = turn[r].override
        /\ new.active = turn[r].active /\ new.says = turn[r].says
    BY <1>0 DEF TurnType
  <2> HIDE DEF new
  <2>3. SameSession /\ conv'.ref = conv.ref /\ conv'.native = turn[r].says
    BY <1>0, <2>1 DEF SameSession, ConvType
  <2>4. KnowsItsOwn'
    BY <1>2, <2>1, <2>2, <2>3 DEF KnowsItsOwn
  <2>5. StillWanted(new, turn[r]) /\ MayDetach(new)
    BY <1>0, <2>1, <2>2 DEF StillWanted, MayDetach, Listing
  <2> QED
    BY <2>1, <2>2, <2>3, <2>4, <2>5, TurnMoves
<1>7. CASE Detach(r)
  <2> DEFINE rec == [turn[r] EXCEPT !.unref = FALSE]
             new == Settled(rec)
  <2>1. /\ UNCHANGED <<rules, history, row, start, reload>>
        /\ turn' = [turn EXCEPT ![r] = new] /\ conv' = [conv EXCEPT !.ref = FALSE]
    BY <1>7 DEF Detach
  <2>2. /\ rec \in TurnType /\ ~rec.unref /\ rec.in = turn[r].in /\ rec.os = turn[r].os /\ rec.override = turn[r].override
    BY <1>0 DEF TurnType
  <2> HIDE DEF rec
  <2>3. new \in TurnType /\ StillWanted(new, turn[r]) /\ MayDetach(new)
    BY <2>2, SettledIs DEF StillWanted, MayDetach
  <2> HIDE DEF new
  <2>4. SameSession /\ ~conv'.ref
    BY <1>0, <2>1 DEF SameSession, ConvType
  <2> QED
    BY <2>1, <2>3, <2>4, TurnMoves DEF KnowsItsOwn
<1>8. CASE Observe(r)
  <2> DEFINE new == Settled(turn[r])
  <2>1. /\ UNCHANGED <<rules, history, row, conv, start, reload>> /\ turn' = [turn EXCEPT ![r] = new]
        /\ turn[r].in /\ ~turn[r].unref
    BY <1>8 DEF Observe, InHand
  <2>2. new \in TurnType /\ StillWanted(new, turn[r]) /\ MayDetach(new)
    BY <1>0, <2>1, SettledIs DEF StillWanted, MayDetach
  <2> HIDE DEF new
  <2>3. KnowsItsOwn'
    BY <1>4, <2>1
  <2> QED
    BY <1>1, <2>1, <2>2, <2>3, TurnMoves
<1>9. CASE CancelTurn(r)
  <2> DEFINE new == [turn[r] EXCEPT !.override = "cancelled"]
  <2>1. UNCHANGED <<rules, history, row, conv, start, reload>> /\ turn' = [turn EXCEPT ![r] = new]
    BY <1>9 DEF CancelTurn
  <2>2. /\ new \in TurnType /\ new.unref = turn[r].unref /\ new.in = turn[r].in
        /\ new.override = "cancelled" /\ new.says = turn[r].says
    BY <1>0 DEF TurnType
  <2> HIDE DEF new
  <2>3. KnowsItsOwn'
    BY <1>3, <2>1, <2>2
  <2>4. StillWanted(new, turn[r]) /\ MayDetach(new)
    BY <1>0, <2>2 DEF StillWanted, MayDetach, Listing
  <2> QED
    BY <1>1, <2>1, <2>2, <2>3, <2>4, TurnMoves
<1>10. CASE AgentSays(r)
  <2>1. PICK id \in Conversations : turn' = [turn EXCEPT ![r].says = id]
    BY <1>10 DEF AgentSays
  <2> DEFINE new == [turn[r] EXCEPT !.says = id]
  <2>2. UNCHANGED <<rules, history, row, conv, start, reload>> /\ turn' = [turn EXCEPT ![r] = new] /\ turn[r].says = NoId
    BY <1>10, <2>1 DEF AgentSays
  <2>3. /\ new \in TurnType /\ new.unref = turn[r].unref /\ new.in = turn[r].in /\ new.override = turn[r].override
        /\ new.os = turn[r].os /\ new.active = turn[r].active /\ new.says = id
    BY <1>0 DEF TurnType
  <2> HIDE DEF new
  <2>4. KnowsItsOwn'
    BY <1>0, <1>4, <2>2 DEF Listing
  <2>5. StillWanted(new, turn[r]) /\ MayDetach(new)
    BY <1>0, <2>2, <2>3 DEF StillWanted, MayDetach, Listing
  <2> QED
    BY <1>1, <2>2, <2>3, <2>4, <2>5, TurnMoves
<1>11. CASE AgentEnds(r)
  <2> DEFINE new == [turn[r] EXCEPT !.os = "over"]
  <2>1. UNCHANGED <<rules, history, row, conv, start, reload>> /\ turn' = [turn EXCEPT ![r] = new]
    BY <1>11 DEF AgentEnds
  <2>2. /\ new \in TurnType /\ new.unref = turn[r].unref /\ new.in = turn[r].in
        /\ new.os = "over" /\ new.says = turn[r].says
    BY <1>0 DEF TurnType
  <2> HIDE DEF new
  <2>3. KnowsItsOwn'
    BY <1>3, <2>1, <2>2
  <2>4. StillWanted(new, turn[r]) /\ MayDetach(new)
    BY <1>0, <2>2 DEF StillWanted, MayDetach, Listing
  <2> QED
    BY <1>1, <2>1, <2>2, <2>3, <2>4, TurnMoves
<1> QED
  BY <1>5, <1>6, <1>7, <1>8, <1>9, <1>10, <1>11 DEF RefreshTurn

(* Many runs are told to end, and none to go on.                           *)
LEMMA TurnsEnd ==
  ASSUME SessionInv, NEW new \in [Turns -> TurnType], turn' = new,
         UNCHANGED <<rules, history, row, start>>, SameSession, conv'.ref = conv.ref, conv'.native = conv.native,
         \A r \in Turns : \/ new[r] = turn[r]
                          \/ /\ new[r].override = "cancelled" /\ new[r].in = turn[r].in
                             /\ new[r].unref = turn[r].unref /\ new[r].says = turn[r].says,
         reload' \in [Reloads -> {"idle", "sweep", "done"}],
         Swept' => Swept \/ (conv.lock = "free" /\ ShellsHold')
  PROVE  SessionInv'
<1>0. \A r \in Turns : new[r].unref = turn[r].unref /\ new[r].says = turn[r].says
  OBVIOUS
<1>1. \A r \in Turns : Listing(r)'
  BY DEF SessionInv, Listing
<1>2. KnowsItsOwn'
  BY <1>0 DEF SessionInv, KnowsItsOwn
<1>3. \A r \in Turns : turn'[r].in /\ turn'[r].os = "live" /\ turn'[r].override = "none" =>
                         turn[r].in /\ turn[r].os = "live" /\ turn[r].override = "none"
  OBVIOUS
<1> QED
  BY <1>1, <1>2, <1>3, TurnsMove DEF SameSession

LEMMA CloseKeeps == ASSUME SessionInv, CloseSession PROVE SessionInv'
<1>0. SessionTypes
  BY DEF SessionInv
<1> DEFINE new == [r \in Turns |-> IF turn[r].active THEN [turn[r] EXCEPT !.override = "cancelled"] ELSE turn[r]]
<1>1. /\ turn' = new /\ UNCHANGED <<rules, history, row, start, reload>>
      /\ conv' = [conv EXCEPT !.closed = TRUE]
  BY DEF CloseSession
<1>2. new \in [Turns -> TurnType]
  BY <1>0 DEF SessionTypes, TurnType
<1>3. \A r \in Turns : \/ new[r] = turn[r]
                       \/ /\ new[r].override = "cancelled" /\ new[r].in = turn[r].in
                          /\ new[r].unref = turn[r].unref /\ new[r].says = turn[r].says
  BY <1>0 DEF SessionTypes, TurnType
<1> HIDE DEF new
<1>4. SameSession /\ conv'.ref = conv.ref /\ conv'.native = conv.native
  BY <1>0, <1>1 DEF SessionTypes, SameSession, ConvType
<1>5. reload' \in [Reloads -> {"idle", "sweep", "done"}] /\ (Swept' => Swept)
  BY <1>0, <1>1 DEF SessionTypes, Swept
<1> QED
  BY <1>1, <1>2, <1>3, <1>4, <1>5, TurnsEnd

LEMMA CancelledTurn ==
  ASSUME NEW x \in TurnType
  PROVE  [x EXCEPT !.override = "cancelled", !.active = FALSE] \in TurnType
BY DEF TurnType

LEMMA SweepKeeps == ASSUME SessionInv, NEW l \in Reloads, SweepShells(l) PROVE SessionInv'
<1>0. SessionTypes
  BY DEF SessionInv
<1> DEFINE new == [r \in Turns |-> IF turn[r].in /\ turn[r].active /\ ~ShellHolds
                                     THEN [turn[r] EXCEPT !.override = "cancelled", !.active = FALSE] ELSE turn[r]]
<1>1. /\ turn' = new /\ UNCHANGED <<rules, history, row, conv, start>> /\ conv.lock = "free"
      /\ reload' = [reload EXCEPT ![l] = "done"]
  BY DEF SweepShells
<1>2. new \in [Turns -> TurnType]
  <2> SUFFICES ASSUME NEW r \in Turns
               PROVE  (IF turn[r].in /\ turn[r].active /\ ~ShellHolds
                        THEN [turn[r] EXCEPT !.override = "cancelled", !.active = FALSE] ELSE turn[r]) \in TurnType
    OBVIOUS
  <2>1. turn[r] \in TurnType
    BY <1>0 DEF SessionTypes
  <2> QED
    BY <2>1, CancelledTurn
<1>3. ASSUME NEW r \in Turns
      PROVE  \/ new[r] = turn[r] /\ ~(turn[r].in /\ turn[r].active /\ ~ShellHolds)
             \/ /\ new[r].override = "cancelled" /\ new[r].in = turn[r].in
                /\ new[r].unref = turn[r].unref /\ new[r].says = turn[r].says
  <2>1. CASE turn[r].in /\ turn[r].active /\ ~ShellHolds
    <3>1. new[r] = [turn[r] EXCEPT !.override = "cancelled", !.active = FALSE] /\ turn[r] \in TurnType
      BY <1>0, <2>1 DEF SessionTypes
    <3> QED
      BY <3>1 DEF TurnType
  <2>2. CASE ~(turn[r].in /\ turn[r].active /\ ~ShellHolds)
    BY <2>2
  <2> QED
    BY <2>1, <2>2
<1> HIDE DEF new
<1>4. SameSession /\ conv'.ref = conv.ref /\ conv'.native = conv.native
  BY <1>0, <1>1 DEF SessionTypes, SameSession
<1>5. reload' \in [Reloads -> {"idle", "sweep", "done"}]
  BY <1>0, <1>1 DEF SessionTypes
<1>6. ShellHolds' <=> ShellHolds
  BY <1>1, ShellKept
<1>7. ShellsHold'
  <2> SUFFICES ASSUME NEW r \in Turns, turn'[r].in, turn'[r].os = "live", turn'[r].override = "none"
               PROVE  ShellHolds
    BY <1>6 DEF ShellsHold
  <2>1. new[r] = turn[r] /\ ~(turn[r].in /\ turn[r].active /\ ~ShellHolds)
    BY <1>1, <1>3
  <2>2. turn[r].active
    BY <1>1, <2>1 DEF SessionInv, Listing
  <2> QED
    BY <1>1, <2>1, <2>2
<1> QED
  BY <1>1, <1>2, <1>3, <1>4, <1>5, <1>7, TurnsEnd

(* A policy that may take a shell away has a sweep to come.                *)
LEMMA InstallKeeps == ASSUME SessionInv, NEW l \in Reloads, InstallRules(l) PROVE SessionInv'
<1>0. SessionTypes
  BY DEF SessionInv
<1>1. /\ rules' \in SessionPolicies /\ UNCHANGED <<history, row, conv, turn, start>>
      /\ reload' = [reload EXCEPT ![l] = IF conv.kind.shell THEN "sweep" ELSE "done"]
  BY DEF InstallRules
<1>2. SessionTypes'
  BY <1>0, <1>1 DEF SessionTypes
<1>3. Swept' => ~conv.kind.shell
  BY <1>0, <1>1 DEF SessionTypes, Swept
<1>4. Swept' => ShellHolds'
  BY <1>1, <1>3 DEF ShellHolds
<1>5. (\A t \in Starters : Guarded(t)') /\ (\A r \in Turns : Listing(r)')
  BY <1>1, <1>4 DEF SessionInv, Guarded, Listing
<1>6. ShellsHold' /\ KnowsItsOwn'
  BY <1>1, <1>4 DEF SessionInv, ShellsHold, KnowsItsOwn
<1> QED
  BY <1>2, <1>5, <1>6 DEF SessionInv

LEMMA OthersKeep ==
  ASSUME SessionInv, HistoryChanges \/ CatalogRefreshes \/ UNCHANGED sessionVars PROVE SessionInv'
<1>0. SessionTypes
  BY DEF SessionInv
<1>1. UNCHANGED <<rules, conv, turn, start, reload>>
  BY DEF HistoryChanges, CatalogRefreshes, sessionVars
<1>2. history' \in {"same", "elsewhere", "other"} /\ row' \in {"same", "elsewhere", "other"}
  BY <1>0 DEF SessionTypes, HistoryChanges, CatalogRefreshes, sessionVars
<1>3. SessionTypes'
  BY <1>0, <1>1, <1>2 DEF SessionTypes
<1>4. (ShellHolds' <=> ShellHolds) /\ (Swept' <=> Swept)
  BY <1>1, ShellKept DEF Swept
<1>5. (\A t \in Starters : Guarded(t)') /\ (\A r \in Turns : Listing(r)')
  BY <1>1, <1>4 DEF SessionInv, Guarded, Listing
<1>6. ShellsHold' /\ KnowsItsOwn'
  BY <1>1, <1>4 DEF SessionInv, ShellsHold, KnowsItsOwn
<1> QED
  BY <1>3, <1>5, <1>6 DEF SessionInv

LEMMA SessionInitially == SessionInit => SessionInv
<1> SUFFICES ASSUME SessionInit PROVE SessionInv
  OBVIOUS
<1>1. PICK k \in Kinds :
        conv = [kind |-> k, root |-> rules.root, native |-> IF k.attached THEN Own ELSE NoId, ref |-> k.attached,
                closed |-> FALSE, lock |-> "free"]
  BY DEF SessionInit
<1>2. /\ rules \in SessionPolicies /\ turn = [r \in Turns |-> NoTurn] /\ start = [t \in Starters |-> NoStart]
      /\ reload = [l \in Reloads |-> "idle"] /\ history = "same" /\ row = "same"
  BY DEF SessionInit
<1>3. NoTurn \in TurnType /\ NoStart \in StartType /\ ~NoTurn.in /\ ~NoTurn.unref /\ NoStart.at = "idle"
  BY DEF NoTurn, TurnType, NoStart, StartType, StartSteps, Actions
<1>4. k.attached \in BOOLEAN
  BY SessionAssumption
<1>5. conv \in ConvType /\ (conv.ref => conv.native = Own)
  BY <1>1, <1>2, <1>4, SessionAssumption DEF ConvType, Roots
<1>6. SessionTypes
  BY <1>2, <1>3, <1>5 DEF SessionTypes
<1>7. (\A t \in Starters : Guarded(t)) /\ (\A r \in Turns : Listing(r))
  BY <1>2, <1>3 DEF Guarded, Listing
<1>8. ShellsHold /\ KnowsItsOwn
  BY <1>2, <1>3, <1>5 DEF ShellsHold, KnowsItsOwn
<1> QED
  BY <1>6, <1>7, <1>8 DEF SessionInv

LEMMA SessionStep == SessionInv /\ [SessionNext]_sessionVars => SessionInv'
<1> SUFFICES ASSUME SessionInv, [SessionNext]_sessionVars PROVE SessionInv'
  OBVIOUS
<1>1. ASSUME NEW t \in Starters, StartTurn(t) PROVE SessionInv'
  BY <1>1, StartKeeps
<1>2. ASSUME NEW r \in Turns, RefreshTurn(r) \/ CancelTurn(r) \/ AgentSays(r) \/ AgentEnds(r) PROVE SessionInv'
  BY <1>2, RefreshKeeps
<1>3. ASSUME NEW l \in Reloads, InstallRules(l) \/ SweepShells(l) PROVE SessionInv'
  BY <1>3, InstallKeeps, SweepKeeps
<1>4. CASE CloseSession
  BY <1>4, CloseKeeps
<1>5. CASE HistoryChanges \/ CatalogRefreshes \/ UNCHANGED sessionVars
  BY <1>5, OthersKeep
<1> QED
  BY <1>1, <1>2, <1>3, <1>4, <1>5 DEF SessionNext

(* _stop_revoked_claude_command_runs(): when the reloads have returned, a  *)
(* trusted shell that nobody told to end runs where the policy permits it. *)
THEOREM RevokedShellsEnd == SessionSpec => []RevokedShellEnds
<1>1. SessionInv => RevokedShellEnds
  BY DEF SessionInv, ShellsHold, Swept, RevokedShellEnds
<1> QED
  BY <1>1, SessionInitially, SessionStep, PTL DEF SessionSpec

(* _reauthorize_attached_session(): what an attached session launches was  *)
(* found again by this very start, and resumes the record's conversation   *)
(* or one that a fork or a review of this session has reported.            *)
THEOREM OwnIsResumed == SessionSpec => ResumesItsOwn
<1>1. SessionInv /\ [SessionNext]_sessionVars =>
        [Launched /\ conv.ref => \A t \in Resuming :
           /\ start[t].found = "same"
           /\ \/ ResumedBy(t) = Own
              \/ \E r \in Turns : turn[r].unref /\ turn[r].says = ResumedBy(t)]_sessionVars
  BY DEF SessionInv, Guarded, KnowsItsOwn, Resuming, ResumedBy
<1> QED
  BY <1>1, SessionInitially, SessionStep, PTL DEF SessionSpec, ResumesItsOwn

-----------------------------------------------------------------------------
(* ScopedCalls.  The rule that is consulted is the one that governs the    *)
(* path, so what the context permits an authority gives; and an entry that *)
(* was scanned was permitted at a moment of the call.                      *)

Ops == {"list", "read", "write", "delete", "exec"}
CallSteps == {"explain", "admit", "source", "target", "scan", "walk", "act", "done"}
Moment == [policy |-> policy, lease |-> lease]
EntryWas(e) ==
  WasEntitledTo(e, Tools[scope.tool].source) /\ (Paired => WasEntitledTo(Projected(e), "write"))
ParentWas(e) == WasEntitledTo(Front(e), Tools[scope.tool].op)
CheckedWas(e) == e \notin Links /\ ParentWas(e) /\ WasEntitledTo(e, Tools[scope.tool].op)
Sources == IF Tools[scope.tool].walks = "one" THEN {scope.source} ELSE Inside(scope.source)

CallOK ==
  /\ scope = [at |-> scope.at, by |-> scope.by, tool |-> scope.tool, deep |-> scope.deep,
              source |-> scope.source, target |-> scope.target, todo |-> scope.todo,
              checked |-> scope.checked, shown |-> scope.shown, touched |-> scope.touched]
  /\ Moment \in moments /\ scope.tool \in DOMAIN Tools /\ scope.at \in CallSteps
  /\ scope.source \in Tree /\ scope.target \in Targets \cup Tree
  /\ scope.todo \subseteq Tree /\ scope.checked \subseteq Tree
  /\ scope.at # "walk" => scope.checked = {}
  /\ scope.at = "scan" => \A e \in Sources \ scope.todo : EntryWas(e)
  /\ scope.at = "act" => \A e \in Sources : EntryWas(e)
  /\ scope.at = "walk" => (\A e \in scope.todo : ParentWas(e)) /\ (\A e \in scope.checked : CheckedWas(e))

ScopeInv ==
  policy \in Policies /\ lease \in BOOLEAN /\ (scope = NoScope \/ CallOK)

LEMMA ShortestOf ==
  ASSUME NEW S, S \subseteq Nat, S # {}
  PROVE  \E x \in S : \A y \in S : x <= y
<1> DEFINE R == {ss \in Nat \X Nat : ss[1] < ss[2]}
<1>1. IsWellFoundedOn(R, Nat)
  BY NatLessThanWellFounded DEF OpToRel
<1>2. PICK x \in S : \A y \in S : ~(<<y, x>> \in R)
  BY <1>1, WFMin
<1>3. ASSUME NEW y \in S PROVE x <= y
  <2>1. x \in Nat /\ y \in Nat /\ <<y, x>> \in Nat \X Nat
    OBVIOUS
  <2>2. ~(y < x)
    BY <1>2, <2>1
  <2>3. QED
    BY <2>1, <2>2
<1>4. QED
  BY <1>3

(* Of two prefixes of a path the shorter is a prefix of the longer.        *)
LEMMA PrefixesNest ==
  ASSUME NEW S, NEW r \in Seq(S), NEW s \in Seq(S), NEW path \in Seq(S),
         IsPrefix(r, path), IsPrefix(s, path), Len(r) <= Len(s)
  PROVE  IsPrefix(r, s)
<1>1. Len(r) \in Nat /\ Len(s) \in Nat /\ Len(path) \in Nat /\ Len(s) <= Len(path) /\ Len(r) <= Len(path)
  BY DEF IsPrefix
<1>2. SubSeq(r, 1, Len(r)) = SubSeq(path, 1, Len(r)) /\ SubSeq(s, 1, Len(s)) = SubSeq(path, 1, Len(s))
  BY DEF IsPrefix
<1>3. s = SubSeq(path, 1, Len(s))
  BY <1>2, SubSeqFull
<1>4. SubSeq(s, 1, Len(r)) = SubSeq(path, 1, Len(r))
  <2>1. CASE Len(r) = 0
    <3>1. SubSeq(s, 1, 0) = <<>> /\ SubSeq(path, 1, 0) = <<>>
      BY SubSeqEmpty
    <3>2. QED
      BY <2>1, <3>1
  <2>2. CASE Len(r) # 0
    <3>1. 1 \in 1 .. Len(path) /\ Len(s) \in 1 .. Len(path) /\ 1 \in 1 .. Len(s) - 1 + 1 /\ Len(r) \in 1 .. Len(s) - 1 + 1
      BY <1>1, <2>2
    <3>2. SubSeq(SubSeq(path, 1, Len(s)), 1, Len(r)) = SubSeq(path, 1 + 1 - 1, 1 + Len(r) - 1)
      BY <3>1, SubSeqOfSubSeq
    <3>3. 1 + 1 - 1 = 1 /\ 1 + Len(r) - 1 = Len(r)
      BY <1>1
    <3>4. QED
      BY <1>3, <3>2, <3>3
  <2>3. QED
    BY <2>1, <2>2
<1>5. QED
  BY <1>1, <1>2, <1>4 DEF IsPrefix

LEMMA PoliciesAre ==
  ASSUME policy \in Policies
  PROVE  /\ DOMAIN policy \subseteq Seq(STRING)
         /\ \A r \in DOMAIN policy : /\ policy[r].mode \in {"deny", "browse", "read", "write", "full"}
                                     /\ policy[r].exec \in BOOLEAN
BY ScopeAssumption

(* RuleFor is the longest rule that matches, and the only one that no      *)
(* matching rule extends.                                                  *)
LEMMA RuleForGoverns ==
  ASSUME policy \in Policies, NEW path \in Seq(STRING), Matches(path) # {}
  PROVE  /\ RuleFor(path) \in DOMAIN policy /\ Governs(policy, RuleFor(path), path)
         /\ \A r \in DOMAIN policy : Governs(policy, r, path) => r = RuleFor(path)
<1>1. DOMAIN policy \subseteq Seq(STRING) /\ Matches(path) \subseteq Seq(STRING)
  BY PoliciesAre DEF Matches
<1>2. \A r \in Matches(path) : Len(r) \in Nat /\ Len(r) <= Len(path) /\ Len(path) \in Nat
  BY <1>1 DEF Matches, IsPrefix
<1>3. \E r \in Matches(path) : \A o \in Matches(path) : Len(o) <= Len(r)
  <2> DEFINE S == {Len(path) - Len(r) : r \in Matches(path)}
  <2>1. S \subseteq Nat /\ S # {}
    BY <1>2
  <2>2. PICK x \in S : \A y \in S : x <= y
    BY <2>1, ShortestOf
  <2>3. PICK r \in Matches(path) : x = Len(path) - Len(r)
    OBVIOUS
  <2>4. ASSUME NEW o \in Matches(path) PROVE Len(o) <= Len(r)
    <3>1. Len(path) - Len(r) <= Len(path) - Len(o)
      BY <2>2, <2>3
    <3>2. QED
      BY <1>2, <3>1
  <2>5. QED
    BY <2>4
<1>4. RuleFor(path) \in Matches(path) /\ \A o \in Matches(path) : Len(o) <= Len(RuleFor(path))
  BY <1>3 DEF RuleFor
<1>5. ASSUME NEW r \in Matches(path) PROVE IsPrefix(r, RuleFor(path))
  BY <1>1, <1>4, PrefixesNest DEF Matches
<1>6. ASSUME NEW s \in DOMAIN policy, IsStrictPrefix(RuleFor(path), s), IsPrefix(s, path) PROVE FALSE
  <2>1. s \in Matches(path)
    BY <1>6 DEF Matches
  <2>2. IsPrefix(s, RuleFor(path)) /\ IsPrefix(RuleFor(path), s) /\ s # RuleFor(path)
    BY <1>5, <1>6, <2>1 DEF IsStrictPrefix
  <2>3. s \in Seq(STRING) /\ RuleFor(path) \in Seq(STRING)
    BY <1>1, <1>4, <2>1
  <2>4. Len(s) = Len(RuleFor(path)) /\ SubSeq(s, 1, Len(s)) = SubSeq(RuleFor(path), 1, Len(s))
    BY <2>2, <2>3 DEF IsPrefix
  <2>5. s = RuleFor(path)
    BY <2>3, <2>4, SubSeqFull
  <2>6. QED
    BY <2>2, <2>5
<1>7. ASSUME NEW r \in DOMAIN policy, Governs(policy, r, path) PROVE r = RuleFor(path)
  <2>1. r \in Matches(path)
    BY <1>7 DEF Governs, Matches
  <2>2. RuleFor(path) \in DOMAIN policy /\ IsPrefix(RuleFor(path), path)
    BY <1>4 DEF Matches
  <2>3. ~IsStrictPrefix(r, RuleFor(path))
    BY <1>7, <2>2 DEF Governs
  <2>4. QED
    BY <1>5, <2>1, <2>3 DEF IsStrictPrefix
<1>8. QED
  BY <1>4, <1>6, <1>7 DEF Governs, Matches

(* What the context permits, an authority gives at that moment.            *)
LEMMA PermittedIsEntitled ==
  ASSUME policy \in Policies, NEW path \in Seq(STRING), NEW op \in Ops, ContextPermits(path, op)
  PROVE  Entitled(Moment, path, op)
<1>1. ~IsPrefix(Reserved, path)
  BY DEF ContextPermits
<1>2. CASE scope.by = "grant"
  <2>1. /\ lease /\ GrantMode \in ModesFor(op) /\ IsPrefix(GrantRoot, path) /\ ~DeniedAt(path)
    BY <1>2 DEF ContextPermits, GrantPermits
  <2>2. ASSUME NEW r \in DOMAIN policy, Governs(policy, r, path) PROVE policy[r].mode # "deny"
    <3>1. Matches(path) # {}
      BY <2>2 DEF Governs, Matches
    <3>2. r = RuleFor(path)
      BY <2>2, <3>1, RuleForGoverns
    <3>3. QED
      BY <2>1, <3>1, <3>2 DEF DeniedAt
  <2>3. QED
    BY <1>1, <1>2, <2>1, <2>2 DEF Entitled, Moment
<1>3. CASE scope.by # "grant"
  <2> DEFINE rule == policy[RuleFor(path)]
  <2>1. Matches(path) # {} /\ RuleAllows(rule, op) /\ ~rule.approval
    BY <1>3 DEF ContextPermits, PolicyPermits
  <2>2. RuleFor(path) \in DOMAIN policy /\ Governs(policy, RuleFor(path), path)
    BY <2>1, RuleForGoverns
  <2>3. rule.mode \in {"deny", "browse", "read", "write", "full"}
    BY <2>2, PoliciesAre
  <2> HIDE DEF rule
  <2>4. op \in Rights(rule)
    <3>1. rule.mode # "deny"
      BY <2>1 DEF RuleAllows
    <3>2. CASE op = "exec"
      BY <2>1, <3>1, <3>2 DEF RuleAllows, Rights
    <3>3. CASE op \in {"list", "read", "write", "delete"}
      <4>1. CASE rule.mode = "browse"
        BY <2>1, <3>3, <4>1 DEF RuleAllows, Rights
      <4>2. CASE rule.mode = "read"
        BY <2>1, <3>3, <4>2 DEF RuleAllows, Rights
      <4>3. CASE rule.mode \in {"write", "full"}
        BY <3>3, <4>3 DEF Rights
      <4>4. QED
        BY <2>3, <3>1, <4>1, <4>2, <4>3
    <3>4. QED
      BY <3>2, <3>3 DEF Ops
  <2>5. QED
    BY <1>1, <1>3, <2>1, <2>2, <2>4 DEF Entitled, Moment, rule
<1>4. QED
  BY <1>2, <1>3

LEMMA ScopeInitially == ScopeInit => ScopeInv
BY DEF ScopeInit, ScopeInv

LEMMA ToolsAre ==
  ASSUME NEW tool \in DOMAIN Tools
  PROVE  /\ Tools[tool].op \in Ops /\ Tools[tool].source \in Ops
         /\ Tools[tool].walks \in {"walk", "one", "tree", "pair"}
         /\ Tools[tool].walks = "walk" => Tools[tool].op = Tools[tool].source
<1>1. tool \in {"list", "search", "read", "write", "exec", "delete", "move", "copy"}
  BY DEF Tools
<1>2. QED
  BY <1>1 DEF Tools, Tool, Ops

LEMMA PathsAre ==
  /\ Tree \subseteq Seq(STRING) /\ Targets \subseteq Seq(STRING)
  /\ \A path : Inside(path) \subseteq Tree /\ Children(path) \subseteq Tree
BY ScopeAssumption DEF Inside, Children

LEMMA ParentOfChild ==
  ASSUME NEW path \in Seq(STRING), NEW e \in Children(path)
  PROVE  Front(e) = path
<1>1. e \in Seq(STRING) /\ IsPrefix(path, e) /\ Len(e) = Len(path) + 1 /\ Len(path) \in Nat
  BY PathsAre DEF Children
<1>2. SubSeq(path, 1, Len(path)) = SubSeq(e, 1, Len(path)) /\ Len(e) - 1 = Len(path)
  BY <1>1 DEF IsPrefix
<1>3. path = SubSeq(path, 1, Len(path))
  BY SubSeqFull
<1>4. QED
  BY <1>2, <1>3 DEF Front

(* Where an entry of the tree will be, is a path.                          *)
LEMMA ProjectedIsPath ==
  ASSUME CallOK, NEW e \in Sources
  PROVE  e \in Seq(STRING) /\ Projected(e) \in Seq(STRING)
<1>1. e \in Seq(STRING) /\ scope.source \in Seq(STRING) /\ scope.target \in Seq(STRING)
  BY PathsAre DEF CallOK, Sources
<1>2. Len(e) \in Nat /\ Len(scope.source) \in Nat
  BY <1>1
<1>3. \A i \in Len(scope.source) + 1 .. Len(e) : e[i] \in STRING
  BY <1>1, <1>2
<1>4. SubSeq(e, Len(scope.source) + 1, Len(e)) \in Seq(STRING)
  BY <1>2, <1>3, SubSeqProperties
<1>5. QED
  BY <1>1, <1>4, ConcatProperties DEF Projected

(* An entry that is permitted now was entitled at a moment of the call.    *)
LEMMA PermittedWas ==
  ASSUME ScopeInv, CallOK, NEW path \in Seq(STRING), NEW op \in Ops, ContextPermits(path, op)
  PROVE  WasEntitledTo(path, op)
BY PermittedIsEntitled DEF ScopeInv, CallOK, WasEntitledTo

(* The moments of a call are kept while it lasts, so what it was entitled  *)
(* to it stays entitled to.                                                *)
LEMMA EntitledStays ==
  ASSUME moments \subseteq moments', scope'.by = scope.by, scope'.tool = scope.tool,
         scope'.source = scope.source, scope'.target = scope.target
  PROVE  /\ Sources' = Sources
         /\ \A e : /\ EntryWas(e) => EntryWas(e)'
                   /\ ParentWas(e) => ParentWas(e)'
                   /\ CheckedWas(e) => CheckedWas(e)'
<1>1. \A path, op : WasEntitledTo(path, op) => WasEntitledTo(path, op)'
  BY DEF WasEntitledTo, Entitled
<1>2. Sources' = Sources /\ (Paired' <=> Paired) /\ \A e : Projected(e)' = Projected(e)
  BY DEF Paired, Projected, Sources, Inside
<1>3. \A path : WasEntitledTo(path, Tools[scope.tool].op) => WasEntitledTo(path, Tools[scope.tool].op)'
  BY <1>1
<1>4. \A path : WasEntitledTo(path, Tools[scope.tool].source) => WasEntitledTo(path, Tools[scope.tool].source)'
  BY <1>1
<1>5. \A e : WasEntitledTo(Projected(e), "write") => WasEntitledTo(Projected(e), "write")'
  BY <1>1, <1>2
<1>6. QED
  BY <1>2, <1>3, <1>4, <1>5 DEF EntryWas, ParentWas, CheckedWas

(* The world changes: the call's moments grow by the new one.              *)
LEMMA WorldKeeps ==
  ASSUME ScopeInv, Reload \/ RevokeGrant
  PROVE  ScopeInv'
<1>1. /\ policy' \in Policies /\ lease' \in BOOLEAN /\ scope' = scope
      /\ moments' = IF scope.at = "idle" THEN {} ELSE moments \cup {Moment'}
  BY DEF Reload, RevokeGrant, Remember, ScopeInv, Moment
<1>2. CASE scope = NoScope
  BY <1>1, <1>2 DEF ScopeInv, NoScope
<1>3. CASE scope # NoScope /\ scope.at # "idle"
  <2>1. CallOK /\ moments \subseteq moments' /\ Moment' \in moments'
    BY <1>1, <1>3 DEF ScopeInv
  <2>2. /\ Sources' = Sources
        /\ \A e : /\ EntryWas(e) => EntryWas(e)'
                  /\ ParentWas(e) => ParentWas(e)'
                  /\ CheckedWas(e) => CheckedWas(e)'
    BY <1>1, <2>1, EntitledStays
  <2>3. CallOK'
    BY <1>1, <2>1, <2>2 DEF CallOK
  <2>4. QED
    BY <1>1, <2>3 DEF ScopeInv
<1>4. scope # NoScope => scope.at # "idle"
  BY DEF ScopeInv, CallOK, CallSteps
<1>5. QED
  BY <1>2, <1>3, <1>4

(* The steps of the call itself.                                           *)
LEMMA CallMoves ==
  ASSUME ScopeInv, CallOK, UNCHANGED <<policy, lease, moments>>,
         NEW at \in CallSteps, NEW deep, NEW todo \in SUBSET Tree, NEW checked \in SUBSET Tree, NEW shown, NEW touched,
         scope' = [scope EXCEPT !.at = at, !.deep = deep, !.todo = todo, !.checked = checked, !.shown = shown,
                                !.touched = touched],
         at = "scan" => \A e \in Sources \ todo : EntryWas(e),
         at = "act" => \A e \in Sources : EntryWas(e),
         at # "walk" => checked = {},
         at = "walk" => (\A e \in todo : ParentWas(e)) /\ (\A e \in checked : CheckedWas(e))
  PROVE  ScopeInv'
<1>1. scope = [at |-> scope.at, by |-> scope.by, tool |-> scope.tool, deep |-> scope.deep,
               source |-> scope.source, target |-> scope.target, todo |-> scope.todo,
               checked |-> scope.checked, shown |-> scope.shown, touched |-> scope.touched]
  BY DEF CallOK
<1>2. scope' = [at |-> at, by |-> scope.by, tool |-> scope.tool, deep |-> deep,
                source |-> scope.source, target |-> scope.target, todo |-> todo,
                checked |-> checked, shown |-> shown, touched |-> touched]
  BY <1>1
<1>3. /\ scope' = [at |-> scope'.at, by |-> scope'.by, tool |-> scope'.tool, deep |-> scope'.deep,
                   source |-> scope'.source, target |-> scope'.target, todo |-> scope'.todo,
                   checked |-> scope'.checked, shown |-> scope'.shown, touched |-> scope'.touched]
      /\ scope'.at = at /\ scope'.todo = todo /\ scope'.checked = checked /\ scope'.by = scope.by /\ scope'.tool = scope.tool
      /\ scope'.source = scope.source /\ scope'.target = scope.target
  BY <1>2
<1>4. /\ Sources' = Sources
      /\ \A e : /\ EntryWas(e) => EntryWas(e)'
                /\ ParentWas(e) => ParentWas(e)'
                /\ CheckedWas(e) => CheckedWas(e)'
  BY <1>3, EntitledStays
<1>5. Moment' = Moment
  BY DEF Moment
<1>6. CallOK'
  BY <1>3, <1>4, <1>5 DEF CallOK
<1>7. QED
  BY <1>6 DEF ScopeInv

LEMMA BeginKeepsScope ==
  ASSUME ScopeInv, NEW by \in {"policy", "grant"}, NEW tool \in DOMAIN Tools, NEW source \in Tree, NEW deep,
         NEW goal \in Targets \cup {source}, BeginScope(by, tool, source, goal, deep)
  PROVE  ScopeInv' /\ scope'.shown = {} /\ scope'.touched = {}
<1> DEFINE at == IF tool = "list" /\ by = "policy" THEN "explain" ELSE "admit"
<1>1. /\ scope' = [NoScope EXCEPT !.by = by, !.tool = tool, !.source = source, !.target = goal, !.deep = deep,
                                  !.at = at]
      /\ moments' = {Moment} /\ UNCHANGED <<policy, lease>>
  BY DEF BeginScope, Moment
<1>2. scope' = [at |-> at, by |-> by, tool |-> tool, deep |-> deep, source |-> source, target |-> goal,
                todo |-> {}, checked |-> {}, shown |-> {}, touched |-> {}]
  BY <1>1 DEF NoScope
<1>3. at \in {"explain", "admit"}
  OBVIOUS
<1> HIDE DEF at
<1>4. /\ scope' = [at |-> scope'.at, by |-> scope'.by, tool |-> scope'.tool, deep |-> scope'.deep,
                   source |-> scope'.source, target |-> scope'.target, todo |-> scope'.todo,
                   checked |-> scope'.checked, shown |-> scope'.shown, touched |-> scope'.touched]
      /\ scope'.at = at /\ scope'.todo = {} /\ scope'.tool = tool
      /\ scope'.checked = {} /\ scope'.shown = {} /\ scope'.touched = {}
      /\ scope'.source = source /\ scope'.target = goal
  BY <1>2
<1>5. Moment' = Moment
  BY <1>1 DEF Moment
<1>6. CallOK'
  BY <1>1, <1>3, <1>4, <1>5 DEF CallOK, CallSteps
<1>7. QED
  BY <1>1, <1>4, <1>6 DEF ScopeInv

(* From the opening of the scope to the entries to scan.                   *)
LEMMA ResolvingKeeps ==
  ASSUME ScopeInv, CallOK, Explain \/ Admit \/ ResolveSource \/ ResolveTarget
  PROVE  ScopeInv' /\ scope'.shown = scope.shown /\ scope'.touched = scope.touched
<1> DEFINE walks == Tools[scope.tool].walks
           source == scope.source
           Same(at, deep, todo) ==
             scope' = [scope EXCEPT !.at = at, !.deep = deep, !.todo = todo, !.checked = scope.checked, !.shown = scope.shown,
                                    !.touched = scope.touched]
<1>1. /\ scope = [at |-> scope.at, by |-> scope.by, tool |-> scope.tool, deep |-> scope.deep,
                  source |-> source, target |-> scope.target, todo |-> scope.todo,
                  checked |-> scope.checked, shown |-> scope.shown, touched |-> scope.touched]
      /\ scope.todo \in SUBSET Tree /\ scope.source \in Tree /\ scope.tool \in DOMAIN Tools
      /\ scope.checked = {}
  BY DEF CallOK, Explain, Admit, ResolveSource, ResolveTarget
<1>2. Inside(source) \in SUBSET Tree /\ Children(source) \in SUBSET Tree /\ source \in Inside(source)
  BY <1>1, PathsAre DEF Inside, Children, IsPrefix
<1>3. UNCHANGED <<policy, lease, moments>>
  BY DEF Explain, Admit, ResolveSource, ResolveTarget, Goes
<1>4. \E at \in CallSteps, deep \in {scope.deep, scope'.deep}, todo \in SUBSET Tree :
        /\ Same(at, deep, todo)
        /\ at = "scan" => \A e \in Sources \ todo : EntryWas(e)
        /\ at = "act" => \A e \in Sources : EntryWas(e)
        /\ at = "walk" => \A e \in todo : ParentWas(e)
  <2>1. CASE Explain
    <3>1. Same("admit", scope'.deep, scope.todo)
      BY <1>1, <2>1 DEF Explain
    <3>2. QED
      BY <1>1, <3>1 DEF CallSteps
  <2>2. CASE Admit
    <3>1. Same("source", scope.deep, scope.todo)
      BY <1>1, <2>2 DEF Admit, Goes
    <3>2. QED
      BY <1>1, <3>1 DEF CallSteps
  <2>3. CASE ResolveTarget
    <3>1. Same("scan", scope.deep, Inside(source))
      BY <1>1, <2>3 DEF ResolveTarget
    <3>2. Sources \subseteq Inside(source)
      BY <1>2 DEF Sources
    <3>3. QED
      BY <1>2, <3>1, <3>2 DEF CallSteps
  <2>4. CASE ResolveSource
    <3>1. walks \in {"walk", "one", "tree", "pair"} /\ ContextPermits(source, Tools[scope.tool].source)
      BY <1>1, <2>4, ToolsAre DEF ResolveSource, Resolves
    <3>2. CASE walks = "one"
      <4>1. Same("act", scope.deep, scope.todo)
        BY <1>1, <2>4, <3>2 DEF ResolveSource, Goes
      <4>2. Sources = {source} /\ ~Paired /\ source \in Seq(STRING) /\ Tools[scope.tool].source \in Ops
        BY <1>1, <3>2, ToolsAre, PathsAre DEF Sources, Paired
      <4>3. EntryWas(source)
        BY <3>1, <4>2, PermittedWas DEF EntryWas
      <4>4. \A e \in Sources : EntryWas(e)
        BY <4>2, <4>3
      <4>5. QED
        BY <1>1, <4>1, <4>4 DEF CallSteps
    <3>3. CASE walks = "pair"
      <4>1. Same("target", scope.deep, scope.todo)
        BY <1>1, <2>4, <3>3 DEF ResolveSource, Goes
      <4>2. QED
        BY <1>1, <4>1 DEF CallSteps
    <3>4. CASE walks = "tree"
      <4>1. Same("scan", scope.deep, Inside(source))
        BY <1>1, <2>4, <3>4 DEF ResolveSource
      <4>2. Sources = Inside(source)
        BY <3>4 DEF Sources
      <4>3. QED
        BY <1>2, <4>1, <4>2 DEF CallSteps
    <3>5. CASE walks = "walk"
      <4>1. Same("walk", scope.deep, Children(source))
        BY <1>1, <2>4, <3>5 DEF ResolveSource
      <4>2. Tools[scope.tool].op = Tools[scope.tool].source /\ Tools[scope.tool].source \in Ops /\ source \in Seq(STRING)
        BY <1>1, <3>5, ToolsAre, PathsAre
      <4>3. WasEntitledTo(source, Tools[scope.tool].op)
        BY <3>1, <4>2, PermittedWas
      <4>4. \A e \in Children(source) : ParentWas(e)
        BY <4>2, <4>3, ParentOfChild DEF ParentWas
      <4>5. QED
        BY <1>2, <4>1, <4>4 DEF CallSteps
    <3>6. QED
      BY <3>1, <3>2, <3>3, <3>4, <3>5
  <2>5. QED
    BY <2>1, <2>2, <2>3, <2>4
<1>5. PICK at \in CallSteps, deep \in {scope.deep, scope'.deep}, todo \in SUBSET Tree :
        /\ Same(at, deep, todo)
        /\ at = "scan" => \A e \in Sources \ todo : EntryWas(e)
        /\ at = "act" => \A e \in Sources : EntryWas(e)
        /\ at = "walk" => \A e \in todo : ParentWas(e)
  BY <1>4
<1>6. ScopeInv'
  <2>1. scope.checked \in SUBSET Tree /\ \A e \in scope.checked : CheckedWas(e)
    BY <1>1
  <2>2. QED
    BY <1>1, <1>3, <1>5, <2>1, CallMoves, ZenonT(60)
<1>7. scope'.shown = scope.shown /\ scope'.touched = scope.touched
  BY <1>1, <1>5
<1>8. QED
  BY <1>6, <1>7

(* An entry of the tree is scanned.                                        *)
LEMMA ScanKeeps ==
  ASSUME ScopeInv, CallOK, NEW e \in scope.todo, Scan(e)
  PROVE  ScopeInv' /\ scope'.shown = scope.shown /\ scope'.touched = scope.touched
<1> DEFINE at == IF scope.todo = {e} THEN "act" ELSE "scan"
<1>1. /\ scope = [at |-> scope.at, by |-> scope.by, tool |-> scope.tool, deep |-> scope.deep,
                  source |-> scope.source, target |-> scope.target, todo |-> scope.todo,
                  checked |-> scope.checked, shown |-> scope.shown, touched |-> scope.touched]
      /\ scope.todo \in SUBSET Tree /\ scope.tool \in DOMAIN Tools /\ e \in Seq(STRING)
      /\ scope.at = "scan" /\ scope.checked = {}
  BY PathsAre DEF CallOK, Scan
<1>2. UNCHANGED <<policy, lease, moments>> /\ Tools[scope.tool].source \in Ops
  BY <1>1, ToolsAre DEF Scan
<1>3. scope' = [scope EXCEPT !.at = at, !.deep = scope.deep, !.todo = scope.todo \ {e}, !.checked = {},
                             !.shown = scope.shown, !.touched = scope.touched]
  BY <1>1 DEF Scan
<1>4. EntryPermitted(e) /\ \A f \in Sources \ scope.todo : EntryWas(f)
  BY <1>1 DEF Scan, CallOK
<1>5. e \in Sources => EntryWas(e)
  <2>1. ASSUME e \in Sources, Paired PROVE WasEntitledTo(Projected(e), "write")
    <3>1. Projected(e) \in Seq(STRING) /\ ContextPermits(Projected(e), "write") /\ "write" \in Ops
      BY <1>4, <2>1, ProjectedIsPath DEF EntryPermitted, Ops
    <3>2. QED
      BY <3>1, PermittedWas
  <2>2. WasEntitledTo(e, Tools[scope.tool].source)
    BY <1>1, <1>2, <1>4, PermittedWas DEF EntryPermitted
  <2>3. QED
    BY <2>1, <2>2 DEF EntryWas
<1>6. at \in {"act", "scan"} /\ (at = "act" => scope.todo = {e})
  OBVIOUS
<1> HIDE DEF at
<1>7. scope.todo \ {e} \in SUBSET Tree /\ {} \in SUBSET Tree /\ at \in CallSteps
  BY <1>1, <1>6 DEF CallSteps
<1>8. /\ at = "scan" => \A f \in Sources \ (scope.todo \ {e}) : EntryWas(f)
      /\ at = "act" => \A f \in Sources : EntryWas(f)
      /\ at # "walk"
  BY <1>4, <1>5, <1>6
<1>9. ScopeInv'
  BY <1>2, <1>3, <1>7, <1>8, CallMoves
<1>10. QED
  BY <1>1, <1>3, <1>9

(* An entry is checked, shown, or passed over: what is left to look at is  *)
(* below a directory, and what is left to show was itself, permitted.      *)
LEMMA WalkKeeps ==
  ASSUME ScopeInv, CallOK, NEW e,
         (e \in scope.todo /\ CheckEntry(e)) \/ (e \in scope.checked /\ (ShowEntry(e) \/ PassOver(e)))
  PROVE  ScopeInv' /\ ShowsWhatWasAllowed /\ scope'.touched = scope.touched
<1> DEFINE op == Tools[scope.tool].op
<1>1. /\ scope = [at |-> scope.at, by |-> scope.by, tool |-> scope.tool, deep |-> scope.deep,
                  source |-> scope.source, target |-> scope.target, todo |-> scope.todo,
                  checked |-> scope.checked, shown |-> scope.shown, touched |-> scope.touched]
      /\ scope.todo \in SUBSET Tree /\ scope.checked \in SUBSET Tree /\ scope.tool \in DOMAIN Tools
      /\ e \in Tree /\ e \in Seq(STRING) /\ scope.at = "walk"
  BY PathsAre DEF CallOK, CheckEntry, ShowEntry, PassOver
<1>2. UNCHANGED <<policy, lease, moments>> /\ op \in Ops /\ "walk" \in CallSteps
  BY <1>1, ToolsAre DEF CheckEntry, ShowEntry, PassOver, CallSteps
<1>3. (\A f \in scope.todo : ParentWas(f)) /\ (\A f \in scope.checked : CheckedWas(f))
  BY <1>1 DEF CallOK
<1>4. ASSUME NEW todo \in SUBSET Tree, NEW checked \in SUBSET Tree, NEW shown,
             scope' = [scope EXCEPT !.at = "walk", !.deep = scope.deep, !.todo = todo, !.checked = checked,
                                    !.shown = shown, !.touched = scope.touched],
             \A f \in todo : ParentWas(f), \A f \in checked : CheckedWas(f),
             \A f \in shown \ scope.shown :
               ParentWas(f) /\ IF f \in Links THEN scope.tool = "list" ELSE WasEntitledTo(f, op)
      PROVE  ScopeInv' /\ ShowsWhatWasAllowed /\ scope'.touched = scope.touched
  <2>1. ScopeInv'
    BY <1>2, <1>4, CallMoves
  <2>2. scope'.shown = shown /\ scope'.touched = scope.touched
    BY <1>1, <1>4
  <2>3. QED
    BY <1>4, <2>1, <2>2 DEF ShowsWhatWasAllowed, ParentWas
<1>5. CASE e \in scope.todo /\ CheckEntry(e)
  <2> DEFINE checked == IF Resolves(e, op) THEN scope.checked \cup {e} ELSE scope.checked
             shown == IF scope.tool = "list" /\ e \in Links THEN scope.shown \cup {e} ELSE scope.shown
  <2>1. scope' = [scope EXCEPT !.at = "walk", !.deep = scope.deep, !.todo = scope.todo \ {e}, !.checked = checked,
                               !.shown = shown, !.touched = scope.touched]
    BY <1>1, <1>5 DEF CheckEntry
  <2>2. ParentWas(e)
    BY <1>3, <1>5
  <2>3. Resolves(e, op) => CheckedWas(e)
    <3>1. IsPrefix(e, e)
      BY <1>1 DEF IsPrefix
    <3>2. QED
      BY <1>1, <1>2, <2>2, <3>1, PermittedWas DEF Resolves, CheckedWas
  <2>4. checked \in SUBSET Tree /\ \A f \in checked : CheckedWas(f)
    BY <1>1, <1>3, <2>3
  <2>5. \A f \in shown \ scope.shown : f = e /\ f \in Links /\ scope.tool = "list"
    OBVIOUS
  <2>6. scope.todo \ {e} \in SUBSET Tree
    BY <1>1
  <2> HIDE DEF checked, shown
  <2>7. QED
    BY <1>3, <1>4, <2>1, <2>2, <2>4, <2>5, <2>6
<1>6. CASE e \in scope.checked /\ (ShowEntry(e) \/ PassOver(e))
  <2>1. CheckedWas(e) /\ \A f \in Children(e) : ParentWas(f)
    <3>1. CheckedWas(e)
      BY <1>3, <1>6
    <3>2. QED
      BY <1>1, <3>1, ParentOfChild DEF CheckedWas, ParentWas
  <2>2. PICK below \in SUBSET Children(e), shown \in {scope.shown, scope.shown \cup {e}} :
          scope' = [scope EXCEPT !.at = "walk", !.deep = scope.deep, !.todo = scope.todo \cup below,
                                 !.checked = scope.checked \ {e}, !.shown = shown, !.touched = scope.touched]
    <3>1. CASE ShowEntry(e)
      <4> DEFINE below == IF scope.deep THEN Children(e) ELSE {}
      <4>1. scope' = [scope EXCEPT !.at = "walk", !.deep = scope.deep, !.todo = scope.todo \cup below,
                                   !.checked = scope.checked \ {e}, !.shown = scope.shown \cup {e},
                                   !.touched = scope.touched]
        BY <1>1, <3>1 DEF ShowEntry
      <4>2. below \in SUBSET Children(e)
        OBVIOUS
      <4> HIDE DEF below
      <4>3. QED
        BY <4>1, <4>2
    <3>2. CASE PassOver(e)
      <4>1. scope' = [scope EXCEPT !.at = "walk", !.deep = scope.deep, !.todo = scope.todo \cup Children(e),
                                   !.checked = scope.checked \ {e}, !.shown = scope.shown,
                                   !.touched = scope.touched]
        BY <1>1, <3>2 DEF PassOver
      <4>2. QED
        BY <4>1
    <3>3. QED
      BY <1>6, <3>1, <3>2
  <2>3. scope.todo \cup below \in SUBSET Tree /\ scope.checked \ {e} \in SUBSET Tree
    BY <1>1, <2>2, PathsAre
  <2>4. /\ \A f \in scope.todo \cup below : ParentWas(f)
        /\ \A f \in scope.checked \ {e} : CheckedWas(f)
    BY <1>3, <2>1
  <2>5. \A f \in shown \ scope.shown : ParentWas(f) /\ IF f \in Links THEN scope.tool = "list" ELSE WasEntitledTo(f, op)
    BY <2>1, <2>2 DEF CheckedWas
  <2>6. QED
    BY <1>4, <2>2, <2>3, <2>4, <2>5
<1>7. QED
  BY <1>5, <1>6

(* All of the tree at once: every entry of it was scanned.                 *)
LEMMA ActKeeps ==
  ASSUME ScopeInv, CallOK, Act
  PROVE  ScopeInv' /\ scope'.shown = scope.shown /\ TouchesWhatWasAllowed
<1> DEFINE touched == (Sources \X {Tools[scope.tool].source})
                      \cup (IF Paired THEN {<<Projected(e), "write">> : e \in Sources} ELSE {})
<1>1. /\ scope = [at |-> scope.at, by |-> scope.by, tool |-> scope.tool, deep |-> scope.deep,
                  source |-> scope.source, target |-> scope.target, todo |-> scope.todo,
                  checked |-> scope.checked, shown |-> scope.shown, touched |-> scope.touched]
      /\ scope.todo \in SUBSET Tree /\ {} \in SUBSET Tree /\ scope.checked = {}
  BY DEF CallOK, Act
<1>2. /\ scope' = [scope EXCEPT !.at = "done", !.deep = scope.deep, !.todo = scope.todo, !.checked = {},
                                !.shown = scope.shown, !.touched = touched]
      /\ UNCHANGED <<policy, lease, moments>>
  BY <1>1 DEF Act, Sources
<1>3. \A e \in Sources : EntryWas(e)
  BY DEF CallOK, Act
<1>4. \A t \in touched : WasEntitledTo(t[1], t[2])
  <2>1. ASSUME NEW e \in Sources PROVE WasEntitledTo(e, Tools[scope.tool].source)
    BY <1>3 DEF EntryWas
  <2>2. ASSUME NEW e \in Sources, Paired PROVE WasEntitledTo(Projected(e), "write")
    BY <1>3, <2>2 DEF EntryWas
  <2>3. ASSUME NEW t \in Sources \X {Tools[scope.tool].source} PROVE WasEntitledTo(t[1], t[2])
    BY <2>1
  <2>4. ASSUME Paired, NEW t \in {<<Projected(e), "write">> : e \in Sources} PROVE WasEntitledTo(t[1], t[2])
    BY <2>2, <2>4
  <2>5. QED
    BY <2>3, <2>4
<1> HIDE DEF touched
<1>5. ScopeInv'
  BY <1>1, <1>2, CallMoves DEF CallSteps
<1>6. scope'.shown = scope.shown /\ scope'.touched = touched
  BY <1>1, <1>2
<1>7. QED
  BY <1>4, <1>5, <1>6 DEF TouchesWhatWasAllowed

LEMMA ScopeStepKeeps ==
  ScopeInv /\ [ScopeNext]_scopeVars => ScopeInv' /\ ShowsWhatWasAllowed /\ TouchesWhatWasAllowed
<1> SUFFICES ASSUME ScopeInv, [ScopeNext]_scopeVars
             PROVE  ScopeInv' /\ ShowsWhatWasAllowed /\ TouchesWhatWasAllowed
  OBVIOUS
<1>1. scope.at # "idle" => CallOK
  BY DEF ScopeInv, NoScope
<1>2. CASE Reload \/ RevokeGrant
  <2>1. scope' = scope
    BY <1>2 DEF Reload, RevokeGrant
  <2>2. QED
    BY <1>2, <2>1, WorldKeeps DEF ShowsWhatWasAllowed, TouchesWhatWasAllowed
<1>3. CASE /\ scope.at = "idle"
           /\ \E by \in {"policy", "grant"}, tool \in DOMAIN Tools, source \in Tree, deep \in BOOLEAN :
                \E goal \in Targets \cup {source} : BeginScope(by, tool, source, goal, deep)
  BY <1>3, BeginKeepsScope DEF ShowsWhatWasAllowed, TouchesWhatWasAllowed
<1>4. CASE Explain \/ Admit \/ ResolveSource \/ ResolveTarget
  <2>1. CallOK
    BY <1>1, <1>4 DEF Explain, Admit, ResolveSource, ResolveTarget
  <2>2. QED
    BY <1>4, <2>1, ResolvingKeeps DEF ShowsWhatWasAllowed, TouchesWhatWasAllowed
<1>5. CASE \/ \E e \in scope.todo : Scan(e) \/ CheckEntry(e)
           \/ \E e \in scope.checked : ShowEntry(e) \/ PassOver(e)
  <2>1. CallOK
    BY <1>1, <1>5 DEF Scan, CheckEntry, ShowEntry, PassOver
  <2>2. CASE \E e \in scope.todo : Scan(e)
    BY <2>1, <2>2, ScanKeeps DEF ShowsWhatWasAllowed, TouchesWhatWasAllowed
  <2>3. CASE \/ \E e \in scope.todo : CheckEntry(e)
             \/ \E e \in scope.checked : ShowEntry(e) \/ PassOver(e)
    <3>1. PICK e : \/ (e \in scope.todo /\ CheckEntry(e))
                   \/ (e \in scope.checked /\ (ShowEntry(e) \/ PassOver(e)))
      BY <2>3
    <3>2. QED
      BY <2>1, <3>1, WalkKeeps DEF TouchesWhatWasAllowed
  <2>4. QED
    BY <1>5, <2>2, <2>3
<1>6. CASE Act
  <2>1. CallOK
    BY <1>1, <1>6 DEF Act
  <2>2. QED
    BY <1>6, <2>1, ActKeeps DEF ShowsWhatWasAllowed
<1>7. CASE EndScope
  <2>1. scope' = NoScope /\ UNCHANGED <<policy, lease>>
    BY <1>7 DEF EndScope, CallEnds
  <2>2. scope'.shown = {} /\ scope'.touched = {}
    BY <2>1 DEF NoScope
  <2>3. ScopeInv'
    BY <2>1 DEF ScopeInv, NoScope
  <2>4. QED
    BY <2>2, <2>3 DEF ShowsWhatWasAllowed, TouchesWhatWasAllowed
<1>8. CASE UNCHANGED scopeVars
  <2>1. UNCHANGED <<policy, lease, scope, moments>>
    BY <1>8 DEF scopeVars
  <2>2. ScopeInv'
    <3>1. CASE scope = NoScope
      BY <2>1, <3>1 DEF ScopeInv, NoScope
    <3>2. CASE CallOK
      <4>1. /\ Sources' = Sources
            /\ \A e : /\ EntryWas(e) => EntryWas(e)'
                      /\ ParentWas(e) => ParentWas(e)'
                      /\ CheckedWas(e) => CheckedWas(e)'
        BY <2>1, EntitledStays
      <4>2. CallOK'
        BY <2>1, <3>2, <4>1 DEF CallOK, Moment
      <4>3. QED
        BY <2>1, <4>2 DEF ScopeInv
    <3>3. QED
      BY <3>1, <3>2 DEF ScopeInv
  <2>3. QED
    BY <2>1, <2>2 DEF ShowsWhatWasAllowed, TouchesWhatWasAllowed
<1>9. QED
  BY <1>2, <1>3, <1>4, <1>5, <1>6, <1>7, <1>8 DEF ScopeNext

(* CallsKeepTheirScope, for any tree, destinations, grant and policies     *)
(* (ContextJail, AccessContext.authorize): what a call shows or touches it *)
(* was entitled to at a moment of its life, and so it was to the directory *)
(* of all it shows, whatever is reloaded or revoked between its checks and *)
(* its other steps; a link is named by listings alone.                     *)
THEOREM ScopesAreKept == ScopeSpec => CallsKeepTheirScope
<1>1. ScopeInit => ScopeInv
  BY ScopeInitially
<1>2. ScopeInv /\ [ScopeNext]_scopeVars => ScopeInv' /\ ShowsWhatWasAllowed /\ TouchesWhatWasAllowed
  BY ScopeStepKeeps
<1>3. QED
  BY <1>1, <1>2, PTL DEF ScopeSpec, CallsKeepTheirScope
==============================================================================
