----------------------------- MODULE CallsProofs -----------------------------
(***************************************************************************)
(* Proofs about the calls that wait for somebody else: the grants of the   *)
(* owner and the jobs submitted under them, the imports of attachments,    *)
(* the manual approvals of an agent's run, and the start of runs, for any  *)
(* number of grants, jobs, calls, requests, hosts and limits.              *)
(***************************************************************************)
EXTENDS GrantJobs, Approvals, Attachments, AgentLaunch, FiniteSetTheorems, TLAPS

-----------------------------------------------------------------------------
(* Grants alone.  Every grant that is over is collected, owed or swept. *)

(* The part of GrantTypes that needs no counting. *)
Shape ==
  /\ stage \in [GrantIds -> {"none", "pending", "active", "closed", "ended"}]
  /\ aged \subseteq GrantIds /\ expired \subseteq GrantIds
  /\ owed \subseteq GrantIds /\ swept \subseteq GrantIds
  /\ rpc \in [Callers -> {"idle", "examining", "resolved", "refused"}]
  /\ rfor \in [Callers -> GrantIds \cup {NoGrantId}]

AccountInv == Shape /\ EndedIsAccounted

(* A purge moves the invalid grants to _expired_ids, and ends those only. *)
LEMMA PurgeAccounts ==
  ASSUME AccountInv
  PROVE  /\ PurgedStage \in [GrantIds -> {"none", "pending", "active", "closed", "ended"}]
         /\ Invalid \subseteq GrantIds /\ Invalid \cap (expired \cup owed \cup swept) = {}
         /\ {g \in GrantIds : PurgedStage[g] = "ended"} = expired \cup Invalid \cup owed \cup swept
         /\ \A g \in GrantIds : stage[g] = "none" \/ g \in Waiting => PurgedStage[g] = stage[g]
BY DEF AccountInv, Shape, EndedIsAccounted, PurgedStage, Invalid, Active, Pending, Waiting

LEMMA MoveAccounts ==
  ASSUME AccountInv, NEW g \in GrantIds, stage[g] = "none" \/ g \in Waiting,
         NEW to \in {"pending", "active", "closed"}, NEW used, PurgeAndMove(g, to, used)
  PROVE  AccountInv'
<1>1. /\ stage' = [PurgedStage EXCEPT ![g] = to] /\ expired' = expired \cup Invalid
      /\ UNCHANGED <<aged, owed, swept, rpc, rfor>>
  BY DEF PurgeAndMove, callerVars
<1>2. PurgedStage[g] # "ended"
  BY PurgeAccounts DEF Waiting, Pending
<1> DEFINE P == PurgedStage
           I == Invalid
<1>3. /\ P \in [GrantIds -> {"none", "pending", "active", "closed", "ended"}] /\ P[g] # "ended"
      /\ I \subseteq GrantIds /\ I \cap (expired \cup owed \cup swept) = {}
      /\ {h \in GrantIds : P[h] = "ended"} = expired \cup I \cup owed \cup swept
      /\ stage' = [P EXCEPT ![g] = to] /\ expired' = expired \cup I
  BY <1>1, <1>2, PurgeAccounts
<1> HIDE DEF P, I
<1>4. {h \in GrantIds : stage'[h] = "ended"} = {h \in GrantIds : P[h] = "ended"}
  BY <1>3
<1>5. Shape'
  <2>1. stage' \in [GrantIds -> {"none", "pending", "active", "closed", "ended"}]
    BY <1>3
  <2>2. /\ aged' \subseteq GrantIds /\ expired' \subseteq GrantIds
        /\ owed' \subseteq GrantIds /\ swept' \subseteq GrantIds
    BY <1>1, <1>3 DEF AccountInv, Shape
  <2>3. /\ rpc' \in [Callers -> {"idle", "examining", "resolved", "refused"}]
        /\ rfor' \in [Callers -> GrantIds \cup {NoGrantId}]
    BY <1>1 DEF AccountInv, Shape
  <2>4. QED
    BY <2>1, <2>2, <2>3 DEF Shape
<1>6. EndedIsAccounted'
  BY <1>1, <1>3, <1>4 DEF AccountInv, EndedIsAccounted
<1>7. QED
  BY <1>5, <1>6 DEF AccountInv

LEMMA ResolvingAccounts ==
  ASSUME AccountInv, NEW c \in Callers, NEW place \in {"examining", "resolved", "refused"},
         Resolving(c, place), rfor' \in [Callers -> GrantIds \cup {NoGrantId}]
  PROVE  AccountInv'
<1>1. /\ stage' = PurgedStage /\ expired' = expired \cup Invalid
      /\ rpc' \in [Callers -> {"idle", "examining", "resolved", "refused"}]
      /\ UNCHANGED <<aged, owed, swept>>
  BY DEF Resolving, AccountInv, Shape
<1>2. Shape'
  BY <1>1, PurgeAccounts DEF AccountInv, Shape
<1>3. EndedIsAccounted'
  BY <1>1, PurgeAccounts DEF AccountInv, EndedIsAccounted
<1>4. QED
  BY <1>2, <1>3 DEF AccountInv

LEMMA AdminAccounts ==
  ASSUME AccountInv, Admin
  PROVE  AccountInv'
<1>1. CASE Purge
  <2>1. Shape'
    BY <1>1, PurgeAccounts DEF Purge, AccountInv, Shape, callerVars
  <2>2. EndedIsAccounted'
    BY <1>1, PurgeAccounts DEF Purge, AccountInv, EndedIsAccounted
  <2>3. QED
    BY <2>1, <2>2 DEF AccountInv
<1>2. CASE Expire
  <2>1. Shape'
    BY <1>2, PurgeAccounts DEF Expire, AccountInv, Shape, callerVars
  <2>2. EndedIsAccounted'
    BY <1>2, PurgeAccounts DEF Expire, AccountInv, EndedIsAccounted
  <2>3. QED
    BY <2>1, <2>2 DEF AccountInv
<1>3. ASSUME NEW g \in GrantIds, RequestAllowed(g) \/ RequestApproval(g)
      PROVE  AccountInv'
  BY <1>3, MoveAccounts DEF RequestAllowed, RequestApproval
<1>4. ASSUME NEW g \in GrantIds, ApproveRefused(g) \/ ApproveExhausted(g) \/ ApproveGranted(g)
      PROVE  AccountInv'
  BY <1>4, MoveAccounts DEF ApproveRefused, ApproveExhausted, ApproveGranted
<1>5. ASSUME NEW g \in GrantIds, CancelRequest(g) \/ Revoke(g) \/ Age(g)
      PROVE  AccountInv'
  BY <1>5 DEF CancelRequest, Revoke, Age, AccountInv, Shape, EndedIsAccounted, callerVars
<1>6. ASSUME NEW D \in SUBSET GrantIds, InstallPolicy(D)
      PROVE  AccountInv'
  BY <1>6 DEF InstallPolicy, AccountInv, Shape, EndedIsAccounted, callerVars
<1>7. QED
  BY <1>1, <1>2, <1>3, <1>4, <1>5, <1>6 DEF Admin

LEMMA SweepAccounts ==
  ASSUME AccountInv, NEW g \in GrantIds, Sweep(g)
  PROVE  AccountInv'
BY DEF Sweep, AccountInv, Shape, EndedIsAccounted, callerVars

LEMMA LookupAccounts ==
  ASSUME AccountInv, NEW c \in Callers, NEW g \in GrantIds \cup {NoGrantId},
         Lookup(c, g) \/ Refuse(c) \/ Confirm(c)
  PROVE  AccountInv'
<1>1. CASE Lookup(c, g)
  BY <1>1, ResolvingAccounts DEF Lookup, AccountInv, Shape
<1>2. CASE Refuse(c)
  BY <1>2 DEF Refuse, grantVars, AccountInv, Shape, EndedIsAccounted
<1>3. CASE Confirm(c)
  BY <1>3, ResolvingAccounts DEF Confirm, AccountInv, Shape
<1>4. QED
  BY <1>1, <1>2, <1>3

LEMMA StutterAccounts ==
  ASSUME AccountInv, UNCHANGED allGrantVars
  PROVE  AccountInv'
BY DEF allGrantVars, grantVars, callerVars, AccountInv, Shape, EndedIsAccounted

LEMMA InitAccounts == GrantInit => AccountInv
BY GrantAssumption DEF GrantInit, AccountInv, Shape, EndedIsAccounted

(* No grant that is over is forgotten, and none is swept twice. *)
THEOREM GrantsAccounted == GrantSpec => []EndedIsAccounted
<1>1. AccountInv /\ [GrantNext]_allGrantVars => AccountInv'
  BY AdminAccounts, SweepAccounts, LookupAccounts, StutterAccounts DEF GrantNext
<1>2. AccountInv => EndedIsAccounted
  BY DEF AccountInv
<1>3. QED
  BY InitAccounts, <1>1, <1>2, PTL DEF GrantSpec

-----------------------------------------------------------------------------
(* GrantIds and jobs together.  What makes a sweep final: a job whose runner *)
(* still holds a resolved path was either submitted under a grant that is  *)
(* not swept, or the sweep has found the job and hidden it.                *)

PromiseShape ==
  /\ promise \in [Callers -> {"none", "pending", "value", "novalue", "forgotten"}]
  /\ owner \in [Callers -> GrantIds \cup {NoGrantId}]
  /\ hidden \in [Callers -> BOOLEAN]
  /\ \A j \in Callers : promise[j] # "none" => owner[j] \in GrantIds

RunnerLocal ==
  \A j \in Callers :
    /\ promise[j] = "none" => rpc[j] = "idle"
    /\ rpc[j] \in {"examining", "resolved"} => rfor[j] = owner[j]

SweepFoundIt ==
  \A j \in Callers :
    (rpc[j] = "resolved" /\ owner[j] \in swept)
      => (hidden[j] = TRUE \/ promise[j] \in {"novalue", "forgotten"})

SweepInv == AccountInv /\ PromiseShape /\ RunnerLocal /\ SweepFoundIt /\ SweptIsUnreadable

LEMMA PromisesAlone ==
  ASSUME SweepInv, UNCHANGED allGrantVars, PromiseShape',
         \A j \in Callers :
           \/ promise'[j] = promise[j] /\ owner'[j] = owner[j] /\ hidden'[j] = hidden[j]
           \/ promise[j] = "none" /\ promise'[j] = "pending" /\ hidden'[j] = hidden[j]
           \/ promise[j] # "none" /\ promise'[j] \in {"novalue", "forgotten"} /\ owner'[j] = owner[j]
           \/ /\ promise[j] = "pending" /\ rpc[j] = "resolved" /\ hidden[j] # TRUE
              /\ promise'[j] = "value" /\ owner'[j] = owner[j] /\ hidden'[j] = hidden[j]
  PROVE  SweepInv'
<1>1. AccountInv' /\ UNCHANGED <<rpc, rfor, swept>>
  BY StutterAccounts DEF SweepInv, allGrantVars, grantVars, callerVars
<1>2. RunnerLocal'
  BY <1>1 DEF SweepInv, RunnerLocal
<1>3. SweepFoundIt'
  BY <1>1 DEF SweepInv, SweepFoundIt, RunnerLocal
<1>4. SweptIsUnreadable'
  BY <1>1 DEF SweepInv, SweptIsUnreadable, SweepFoundIt
<1>5. QED
  BY <1>1, <1>2, <1>3, <1>4 DEF SweepInv

LEMMA SubmitStep ==
  ASSUME SweepInv, NEW j \in Callers, NEW g \in GrantIds, NEW S \in SUBSET JobsPromise!Settled,
         SubmitExternal(j, g, S)
  PROVE  SweepInv'
<1>1. /\ promise[j] = "none" /\ UNCHANGED allGrantVars /\ hidden' = hidden
      /\ promise' = [i \in Callers |-> IF i = j THEN "pending"
                                       ELSE IF i \in S THEN "forgotten" ELSE promise[i]]
      /\ owner' = [owner EXCEPT ![j] = g]
  BY DEF SubmitExternal, JobsPromise!Submit
<1>2. \A i \in S : promise[i] # "none"
  BY DEF JobsPromise!Settled
<1>3. PromiseShape'
  <2>1. /\ promise' \in [Callers -> {"none", "pending", "value", "novalue", "forgotten"}]
        /\ owner' \in [Callers -> GrantIds \cup {NoGrantId}] /\ hidden' \in [Callers -> BOOLEAN]
    BY <1>1 DEF SweepInv, PromiseShape
  <2>2. ASSUME NEW i \in Callers, promise'[i] # "none" PROVE owner'[i] \in GrantIds
    <3>1. CASE i = j
      BY <1>1, <3>1 DEF SweepInv, PromiseShape
    <3>2. CASE i # j
      BY <1>1, <1>2, <2>2, <3>2 DEF SweepInv, PromiseShape
    <3>3. QED
      BY <3>1, <3>2
  <2>3. QED
    BY <2>1, <2>2 DEF PromiseShape
<1>4. ASSUME NEW i \in Callers
      PROVE  \/ promise'[i] = promise[i] /\ owner'[i] = owner[i] /\ hidden'[i] = hidden[i]
             \/ promise[i] = "none" /\ promise'[i] = "pending" /\ hidden'[i] = hidden[i]
             \/ promise[i] # "none" /\ promise'[i] \in {"novalue", "forgotten"} /\ owner'[i] = owner[i]
  BY <1>1, <1>2 DEF SweepInv, PromiseShape
<1>5. QED
  BY <1>1, <1>3, <1>4, PromisesAlone

LEMMA ForgetStep ==
  ASSUME SweepInv, NEW S \in SUBSET JobsPromise!Settled, ForgetJobs(S)
  PROVE  SweepInv'
<1>1. /\ UNCHANGED allGrantVars /\ hidden' = hidden /\ owner' = owner
      /\ promise' = [i \in Callers |-> IF i \in S THEN "forgotten" ELSE promise[i]]
  BY DEF ForgetJobs, JobsPromise!Forget
<1>2. \A i \in S : promise[i] # "none"
  BY DEF JobsPromise!Settled
<1>3. PromiseShape'
  BY <1>1, <1>2 DEF SweepInv, PromiseShape
<1>4. QED
  BY <1>1, <1>2, <1>3, PromisesAlone

LEMMA EndStep ==
  ASSUME SweepInv, NEW j \in Callers, NEW outcome \in {"value", "novalue"}, RunnerEnds(j, outcome)
  PROVE  SweepInv'
<1>1. /\ UNCHANGED allGrantVars /\ hidden' = hidden /\ owner' = owner
      /\ promise[j] = "pending" /\ promise' = [promise EXCEPT ![j] = outcome]
      /\ outcome = "value" => (rpc[j] = "resolved" /\ hidden[j] # TRUE)
  BY DEF RunnerEnds, JobsPromise!Settle
<1>2. PromiseShape'
  <2>1. promise' \in [Callers -> {"none", "pending", "value", "novalue", "forgotten"}]
    BY <1>1 DEF SweepInv, PromiseShape
  <2>2. \A i \in Callers : promise'[i] # "none" => promise[i] # "none"
    BY <1>1 DEF SweepInv, PromiseShape
  <2>3. QED
    BY <1>1, <2>1, <2>2 DEF SweepInv, PromiseShape
<1>3. ASSUME NEW i \in Callers
      PROVE  \/ promise'[i] = promise[i]
             \/ promise[i] # "none" /\ promise'[i] = "novalue"
             \/ promise[i] = "pending" /\ rpc[i] = "resolved" /\ hidden[i] # TRUE /\ promise'[i] = "value"
  BY <1>1 DEF SweepInv, PromiseShape
<1>4. QED
  BY <1>1, <1>2, <1>3, PromisesAlone

LEMMA SweepStep ==
  ASSUME SweepInv, NEW g \in GrantIds, SweepJobs(g)
  PROVE  SweepInv'
<1>1. AccountInv'
  BY SweepAccounts DEF SweepJobs, SweepInv
<1>2. swept' = swept \cup {g} /\ UNCHANGED <<rpc, rfor>>
  BY DEF SweepJobs, Sweep, callerVars
<1> DEFINE Mine == {j \in Callers : owner[j] = g /\ promise[j] # "forgotten"}
<1>3. /\ hidden' = [j \in Callers |-> hidden[j] \/ j \in Mine] /\ owner' = owner
      /\ promise' \in [Callers -> {"none", "pending", "value", "novalue", "forgotten"}]
      /\ \A j \in Callers \ Mine : promise'[j] = promise[j]
      /\ \A j \in Mine : promise'[j] = "novalue" \/ (promise[j] = "pending" /\ promise'[j] = "pending")
  BY DEF SweepJobs, JobsPromise!Withdraw
<1>4. PromiseShape'
  BY <1>3 DEF SweepInv, PromiseShape
<1>5. \A j \in Mine : hidden'[j] = TRUE /\ promise'[j] # "value"
  BY <1>3
<1>6. \A j \in Callers \ Mine : hidden[j] = TRUE => hidden'[j] = TRUE
  BY <1>3
<1>7. \A j \in Callers \ Mine : owner[j] = g => promise'[j] = "forgotten"
  BY <1>3
<1>8. \A j \in Callers : promise'[j] = "none" => promise[j] = "none"
  BY <1>3
<1> HIDE DEF Mine
<1>9. RunnerLocal'
  BY <1>2, <1>3, <1>8 DEF SweepInv, RunnerLocal
<1>10. SweepFoundIt'
  BY <1>2, <1>3, <1>5, <1>6, <1>7 DEF SweepInv, SweepFoundIt
<1>11. SweptIsUnreadable'
  BY <1>2, <1>3, <1>5, <1>7 DEF SweepInv, SweptIsUnreadable
<1>12. QED
  BY <1>1, <1>4, <1>9, <1>10, <1>11 DEF SweepInv

LEMMA RunnerResolves ==
  ASSUME SweepInv, NEW j \in Callers, RunnerStep(j)
  PROVE  SweepInv'
<1>1. /\ Lookup(j, owner[j]) \/ Refuse(j) \/ Confirm(j)
      /\ promise[j] = "pending" /\ UNCHANGED <<promise, owner, hidden>>
  BY DEF RunnerStep, promiseVars
<1>2. owner[j] \in GrantIds \cup {NoGrantId}
  BY DEF SweepInv, PromiseShape
<1>3. AccountInv'
  BY <1>1, <1>2, LookupAccounts DEF SweepInv
<1>4. swept' = swept /\ \A i \in Callers \ {j} : rpc'[i] = rpc[i] /\ rfor'[i] = rfor[i]
  BY <1>1 DEF Lookup, Refuse, Confirm, Resolving, grantVars, SweepInv, AccountInv, Shape
<1>5. rpc'[j] \in {"examining", "resolved"} => rfor'[j] = owner[j]
  BY <1>1 DEF Lookup, Refuse, Confirm, Resolving, SweepInv, AccountInv, Shape, RunnerLocal
<1>6. rpc'[j] = "resolved" => owner[j] \notin swept
  BY <1>1 DEF Lookup, Refuse, Confirm, Resolving, Live, Active, SweepInv, AccountInv, Shape,
              EndedIsAccounted, RunnerLocal
<1>7. PromiseShape'
  BY <1>1 DEF SweepInv, PromiseShape
<1>8. RunnerLocal'
  BY <1>1, <1>4, <1>5 DEF SweepInv, RunnerLocal
<1>9. SweepFoundIt'
  BY <1>1, <1>4, <1>6 DEF SweepInv, SweepFoundIt
<1>10. SweptIsUnreadable'
  BY <1>1, <1>4 DEF SweepInv, SweptIsUnreadable
<1>11. QED
  BY <1>3, <1>7, <1>8, <1>9, <1>10 DEF SweepInv

LEMMA AdminStep ==
  ASSUME SweepInv, Admin, UNCHANGED promiseVars
  PROVE  SweepInv'
<1>1. AccountInv' /\ UNCHANGED <<promise, owner, hidden>>
  BY AdminAccounts DEF SweepInv, promiseVars
<1>2. UNCHANGED <<swept, rpc, rfor>>
  BY DEF Admin, Purge, Expire, RequestAllowed, RequestApproval, ApproveRefused, ApproveExhausted,
         ApproveGranted, PurgeAndMove, CancelRequest, Revoke, Age, InstallPolicy, callerVars
<1>3. QED
  BY <1>1, <1>2 DEF SweepInv, PromiseShape, RunnerLocal, SweepFoundIt, SweptIsUnreadable

LEMMA SweepInvariant == GJSpec => []SweepInv
<1>1. GJInit => SweepInv
  <2>1. ASSUME GJInit PROVE SweepInv
    <3>1. AccountInv /\ PromiseShape
      BY <2>1, InitAccounts DEF GJInit, JobsPromise!Init, PromiseShape
    <3>2. RunnerLocal /\ SweepFoundIt /\ SweptIsUnreadable
      BY <2>1 DEF GJInit, GrantInit, JobsPromise!Init, RunnerLocal, SweepFoundIt, SweptIsUnreadable
    <3>3. QED
      BY <3>1, <3>2 DEF SweepInv
  <2>2. QED
    BY <2>1
<1>2. SweepInv /\ [GJNext]_allVars => SweepInv'
  <2> SUFFICES ASSUME SweepInv, [GJNext]_allVars PROVE SweepInv'
    OBVIOUS
  <2>1. CASE GJNext
    BY <2>1, AdminStep, SweepStep, RunnerResolves, EndStep, ForgetStep, SubmitStep DEF GJNext
  <2>2. CASE UNCHANGED allVars
    <3>1. AccountInv' /\ UNCHANGED <<promise, owner, hidden, rpc, rfor, swept>>
      BY <2>2, StutterAccounts DEF allVars, promiseVars, allGrantVars, callerVars, grantVars, SweepInv
    <3>2. QED
      BY <3>1 DEF SweepInv, PromiseShape, RunnerLocal, SweepFoundIt, SweptIsUnreadable
  <2>3. QED
    BY <2>1, <2>2
<1>3. QED
  BY <1>1, <1>2, PTL DEF GJSpec

(* Once the jobs of a grant have been swept, none of them has a readable   *)
(* result, in any order of submissions, resolutions, expiry and sweeps.    *)
THEOREM SweepIsFinal == GJSpec => []SweptIsUnreadable
<1>1. SweepInv => SweptIsUnreadable
  BY DEF SweepInv
<1>2. QED
  BY SweepInvariant, <1>1, PTL

(* What holds of the grants alone holds of them with their jobs: composing *)
(* adds no behaviour to the grants.                                        *)
THEOREM ComposedGrants == GJSpec => GrantSpec
<1>1. GJInit => GrantInit
  BY DEF GJInit
<1>2. ASSUME SweepInv, [GJNext]_allVars PROVE [GrantNext]_allGrantVars
  <2>1. CASE UNCHANGED allVars
    BY <2>1 DEF allVars
  <2>2. CASE Admin \/ \E g \in GrantIds : SweepJobs(g)
    BY <2>2 DEF GrantNext, SweepJobs
  <2>3. ASSUME NEW j \in Callers, RunnerStep(j) PROVE [GrantNext]_allGrantVars
    <3>1. owner[j] \in GrantIds
      BY <2>3, <1>2 DEF RunnerStep, SweepInv, PromiseShape
    <3>2. QED
      BY <2>3, <3>1 DEF RunnerStep, GrantNext
  <2>4. ASSUME NEW j \in Callers, NEW o \in {"value", "novalue"}, RunnerEnds(j, o)
        PROVE  UNCHANGED allGrantVars
    BY <2>4 DEF RunnerEnds
  <2>5. ASSUME NEW S \in SUBSET JobsPromise!Settled, ForgetJobs(S)
        PROVE  UNCHANGED allGrantVars
    BY <2>5 DEF ForgetJobs
  <2>6. ASSUME NEW S \in SUBSET JobsPromise!Settled, NEW j \in Callers, NEW g \in GrantIds,
               SubmitExternal(j, g, S)
        PROVE  UNCHANGED allGrantVars
    BY <2>6 DEF SubmitExternal
  <2>7. QED
    BY <1>2, <2>1, <2>2, <2>3, <2>4, <2>5, <2>6 DEF GJNext
<1>3. QED
  BY SweepInvariant, <1>1, <1>2, PTL DEF GJSpec, GrantSpec

-----------------------------------------------------------------------------
(* Attachments.  A worker exists only while its call is in its loop, which *)
(* it enters with the slot that it took; and a host is connected to only   *)
(* after the hop that checked it.                                          *)

ImportSteps == {"idle", "wait", "start", "loop", "commit", "link"}
WorkerSteps == {"none", "resolve", "connected", "done", "failed"}

AttachmentTypes ==
  /\ slots \in Nat
  /\ import \in [Imports -> [at : ImportSteps, host : Hosts \cup {"none"}, cancelled : BOOLEAN, late : BOOLEAN]]
  /\ worker \in [Imports -> [at : WorkerSteps, host : Hosts \cup {"none"}, hop : Nat]]

SlotsCounted == IsFiniteSet(Holders) /\ slots + Cardinality(Holders) = MaxSlots

WorkersHeld ==
  \A i \in Imports :
    /\ worker[i].at # "none" => import[i].at = "loop"
    /\ worker[i].at = "connected" => worker[i].host \in Listed

ContainedInv == AttachmentTypes /\ SlotsCounted /\ WorkersHeld

(* A slot is taken by a call that held none, and given back by one that    *)
(* held it.                                                                *)
LEMMA SlotTaken ==
  ASSUME NEW i \in Imports, i \notin Holders, Holders' = Holders \cup {i}, slots \in Nat, slots > 0,
         slots' = slots - 1, SlotsCounted
  PROVE  SlotsCounted' /\ slots' \in Nat
<1>1. IsFiniteSet(Holders') /\ Cardinality(Holders') = Cardinality(Holders) + 1
  BY FS_AddElement DEF SlotsCounted
<1>2. Cardinality(Holders) \in Nat
  BY FS_CardinalityType DEF SlotsCounted
<1> QED
  BY <1>1, <1>2, AttachmentAssumption DEF SlotsCounted

LEMMA SlotGivenBack ==
  ASSUME NEW i \in Holders, Holders' = Holders \ {i}, slots \in Nat, slots' = slots + 1, SlotsCounted
  PROVE  SlotsCounted' /\ slots' \in Nat
<1>1. IsFiniteSet(Holders') /\ Cardinality(Holders') = Cardinality(Holders) - 1
  BY FS_RemoveElement DEF SlotsCounted
<1>2. Cardinality(Holders) \in Nat
  BY FS_CardinalityType DEF SlotsCounted
<1> QED
  BY <1>1, <1>2, AttachmentAssumption DEF SlotsCounted

LEMMA ContainedInitial == AttachmentInit => ContainedInv
<1> SUFFICES ASSUME AttachmentInit PROVE ContainedInv
  OBVIOUS
<1>1. Holders = {}
  BY DEF AttachmentInit, Holders, NoImport
<1>2. SlotsCounted
  BY <1>1, FS_EmptySet, AttachmentAssumption DEF SlotsCounted, AttachmentInit
<1> QED
  BY <1>2, AttachmentAssumption DEF AttachmentInit, ContainedInv, AttachmentTypes, WorkersHeld, NoImport,
     NoWorker, ImportSteps, WorkerSteps

(* The steps that move a call without a slot, or keep it on its slot.      *)
LEMMA ImportMoves ==
  ASSUME ContainedInv, NEW i \in Imports,
         NEW r \in [at : ImportSteps, host : Hosts \cup {"none"}, cancelled : BOOLEAN, late : BOOLEAN],
         import' = [import EXCEPT ![i] = r],
         r.at = import[i].at \/ (i \notin Holders /\ r.at \notin {"start", "loop"}),
         UNCHANGED <<slots, worker>>
  PROVE  ContainedInv'
<1>1. AttachmentTypes'
  BY DEF ContainedInv, AttachmentTypes
<1>2. Holders' = Holders
  BY DEF ContainedInv, AttachmentTypes, Holders
<1>3. WorkersHeld'
  BY DEF ContainedInv, AttachmentTypes, WorkersHeld, Holders
<1> QED
  BY <1>1, <1>2, <1>3 DEF ContainedInv, SlotsCounted

LEMMA CallContained ==
  ASSUME ContainedInv, NEW i \in Imports,
         BeginImport(i) \/ CancelImport(i) \/ DeadlineOf(i) \/ WaitStops(i) \/ BeginCommit(i) \/ Link(i)
  PROVE  ContainedInv'
<1> DEFINE Calls == [at : ImportSteps, host : Hosts \cup {"none"}, cancelled : BOOLEAN, late : BOOLEAN]
<1>1. import[i] \in Calls /\ import \in [Imports -> Calls] /\ NoImport \in Calls /\ NoImport.at = "idle"
  BY DEF ContainedInv, AttachmentTypes, NoImport, ImportSteps
<1>2. ASSUME NEW step \in ImportSteps PROVE [import[i] EXCEPT !.at = step] \in Calls
                                            /\ [import[i] EXCEPT !.at = step].at = step
  BY <1>1
<1>3. CASE BeginImport(i)
  <2>1. PICK host \in Listed : import' = [import EXCEPT ![i].at = "wait", ![i].host = host]
    BY <1>3 DEF BeginImport
  <2> DEFINE r == [import[i] EXCEPT !.at = "wait", !.host = host]
  <2>2. r \in Calls /\ r.at = "wait"
    BY <1>1, AttachmentAssumption DEF ImportSteps
  <2>3. import' = [import EXCEPT ![i] = r] /\ i \notin Holders /\ UNCHANGED <<slots, worker>>
    BY <1>1, <1>3, <2>1 DEF BeginImport, ImportAt, Holders
  <2> HIDE DEF r
  <2> QED
    BY <2>2, <2>3, ImportMoves
<1>4. CASE CancelImport(i) \/ DeadlineOf(i)
  <2>1. PICK r \in Calls : import' = [import EXCEPT ![i] = r] /\ r.at = import[i].at
    <3>1. CASE CancelImport(i)
      <4> DEFINE r == [import[i] EXCEPT !.cancelled = TRUE]
      <4>1. import' = [import EXCEPT ![i] = r]
        BY <1>1, <3>1 DEF CancelImport
      <4>2. r \in Calls /\ r.at = import[i].at
        BY <1>1
      <4> HIDE DEF r
      <4> QED
        BY <4>1, <4>2
    <3>2. CASE DeadlineOf(i)
      <4> DEFINE r == [import[i] EXCEPT !.late = TRUE]
      <4>1. import' = [import EXCEPT ![i] = r]
        BY <1>1, <3>2 DEF DeadlineOf
      <4>2. r \in Calls /\ r.at = import[i].at
        BY <1>1
      <4> HIDE DEF r
      <4> QED
        BY <4>1, <4>2
    <3> QED
      BY <1>4, <3>1, <3>2
  <2> QED
    BY <1>4, <2>1, ImportMoves DEF CancelImport, DeadlineOf
<1>5. CASE WaitStops(i) \/ BeginCommit(i) \/ Link(i)
  <2>1. i \notin Holders /\ UNCHANGED <<slots, worker>>
    BY <1>5 DEF WaitStops, BeginCommit, Link, Holders, ImportAt
  <2>2. ImportEnds(i) \/ ImportGoes(i, "link")
    BY <1>5 DEF WaitStops, BeginCommit, Link
  <2>3. PICK r \in Calls : import' = [import EXCEPT ![i] = r] /\ r.at \in {"idle", "link"}
    BY <1>1, <1>2, <2>2 DEF ImportEnds, ImportGoes, ImportSteps
  <2> QED
    BY <2>1, <2>3, ImportMoves
<1> QED
  BY <1>3, <1>4, <1>5

LEMMA SlotsContained ==
  ASSUME ContainedInv, NEW i \in Imports,
         TakeSlot(i) \/ StartWorker(i) \/ StopWorker(i) \/ StartFails(i) \/ Downloaded(i)
  PROVE  ContainedInv'
<1> DEFINE Calls == [at : ImportSteps, host : Hosts \cup {"none"}, cancelled : BOOLEAN, late : BOOLEAN]
           Workers == [at : WorkerSteps, host : Hosts \cup {"none"}, hop : Nat]
<1>1. /\ import[i] \in Calls /\ import \in [Imports -> Calls] /\ NoImport \in Calls /\ NoImport.at = "idle"
      /\ worker \in [Imports -> Workers] /\ NoWorker \in Workers /\ NoWorker.at = "none" /\ slots \in Nat
  BY DEF ContainedInv, AttachmentTypes, NoImport, NoWorker, ImportSteps, WorkerSteps
<1>2. ASSUME NEW step \in ImportSteps, ImportGoes(i, step)
      PROVE  import' \in [Imports -> Calls] /\ import'[i].at = step /\ import'[i].host = import[i].host
             /\ \A j \in Imports : j # i => import'[j] = import[j]
  BY <1>1, <1>2 DEF ImportGoes
<1>3. ASSUME ImportEnds(i)
      PROVE  import' \in [Imports -> Calls] /\ import'[i].at = "idle"
             /\ \A j \in Imports : j # i => import'[j] = import[j]
  BY <1>1, <1>3 DEF ImportEnds
<1>4. CASE TakeSlot(i)
  <2>1. /\ import' \in [Imports -> Calls] /\ import'[i].at = "start" /\ import[i].at = "wait"
        /\ \A j \in Imports : j # i => import'[j] = import[j]
        /\ slots > 0 /\ slots' = slots - 1 /\ worker' = worker
    BY <1>2, <1>4 DEF TakeSlot, ImportAt, ImportSteps
  <2>2. i \notin Holders /\ Holders' = Holders \cup {i}
    BY <2>1 DEF Holders
  <2>3. SlotsCounted' /\ slots' \in Nat
    BY <1>1, <2>1, <2>2, SlotTaken DEF ContainedInv
  <2> QED
    BY <2>1, <2>3 DEF ContainedInv, AttachmentTypes, WorkersHeld
<1>5. CASE StartWorker(i)
  <2> DEFINE new == [at |-> "resolve", host |-> import[i].host, hop |-> 0]
  <2>1. /\ import' \in [Imports -> Calls] /\ import'[i].at = "loop" /\ import[i].at = "start"
        /\ \A j \in Imports : j # i => import'[j] = import[j]
        /\ slots' = slots /\ worker' = [worker EXCEPT ![i] = new] /\ new \in Workers /\ new.at = "resolve"
    BY <1>1, <1>2, <1>5 DEF StartWorker, ImportAt, ImportSteps, WorkerSteps
  <2> HIDE DEF new
  <2>2. Holders' = Holders
    BY <2>1 DEF Holders
  <2> QED
    BY <1>1, <2>1, <2>2 DEF ContainedInv, AttachmentTypes, WorkersHeld, SlotsCounted
<1>6. CASE StopWorker(i) \/ StartFails(i) \/ Downloaded(i)
  <2>1. /\ import' \in [Imports -> Calls] /\ import'[i].at \in {"idle", "commit"}
        /\ \A j \in Imports : j # i => import'[j] = import[j]
    BY <1>2, <1>3, <1>6 DEF StopWorker, StartFails, Downloaded, ImportSteps
  <2>2. i \in Holders /\ slots' = slots + 1
    BY <1>6 DEF StopWorker, StartFails, Downloaded, ImportAt, Holders
  <2>3. Holders' = Holders \ {i}
    BY <2>1 DEF Holders
  <2>4. worker' = [worker EXCEPT ![i] = NoWorker] \/ (worker' = worker /\ worker[i].at = "none")
    BY <1>6 DEF StopWorker, StartFails, Downloaded, ImportAt, ContainedInv, WorkersHeld
  <2>5. SlotsCounted' /\ slots' \in Nat
    BY <1>1, <2>2, <2>3, SlotGivenBack DEF ContainedInv
  <2>6. worker' \in [Imports -> Workers] /\ worker'[i].at = "none"
        /\ \A j \in Imports : j # i => worker'[j] = worker[j]
    BY <1>1, <2>4
  <2>7. AttachmentTypes'
    BY <2>1, <2>5, <2>6 DEF AttachmentTypes
  <2>8. WorkersHeld'
    BY <2>1, <2>6 DEF ContainedInv, WorkersHeld
  <2> QED
    BY <2>5, <2>7, <2>8 DEF ContainedInv
<1> QED
  BY <1>4, <1>5, <1>6

LEMMA WorkerContained ==
  ASSUME ContainedInv, NEW i \in Imports, WorkerStep(i)
  PROVE  ContainedInv'
<1> DEFINE Workers == [at : WorkerSteps, host : Hosts \cup {"none"}, hop : Nat]
<1>1. worker \in [Imports -> Workers] /\ worker[i].at \in {"resolve", "connected"}
  BY DEF ContainedInv, AttachmentTypes, WorkerStep, Resolve, Transferred, Redirected
<1>2. ASSUME NEW r \in Workers, worker' = [worker EXCEPT ![i] = r], UNCHANGED <<slots, import>>,
             r.at = "connected" => r.host \in Listed
      PROVE  ContainedInv'
  BY <1>1, <1>2 DEF ContainedInv, AttachmentTypes, SlotsCounted, WorkersHeld, Holders
<1>3. ASSUME NEW step \in WorkerSteps, WorkerGoes(i, step), step = "connected" => worker[i].host \in Listed
      PROVE  ContainedInv'
  <2> DEFINE r == [worker[i] EXCEPT !.at = step]
  <2>1. r \in Workers /\ r.at = step /\ r.host = worker[i].host
    BY <1>1
  <2>2. worker' = [worker EXCEPT ![i] = r] /\ UNCHANGED <<slots, import>>
    BY <1>3 DEF WorkerGoes
  <2> HIDE DEF r
  <2> QED
    BY <1>2, <1>3, <2>1, <2>2
<1>4. ASSUME NEW public \in BOOLEAN, Resolve(i, public) \/ Transferred(i, public) PROVE ContainedInv'
  BY <1>3, <1>4 DEF Resolve, Transferred, HostAllowed, WorkerSteps
<1>5. ASSUME NEW host \in Hosts, Redirected(i, host) PROVE ContainedInv'
  <2>1. CASE WorkerGoes(i, "failed")
    BY <1>3, <2>1 DEF WorkerSteps
  <2> DEFINE hop == worker[i].hop + 1
             r == [at |-> "resolve", host |-> host, hop |-> hop]
  <2>2. CASE worker' = [worker EXCEPT ![i] = r] /\ UNCHANGED <<slots, import>>
    <3>1. r \in Workers /\ r.at = "resolve"
      BY <1>1 DEF WorkerSteps
    <3> HIDE DEF r
    <3> QED
      BY <1>2, <2>2, <3>1
  <2> QED
    BY <1>5, <2>1, <2>2 DEF Redirected
<1> QED
  BY <1>4, <1>5 DEF WorkerStep

LEMMA ContainedStep == ContainedInv /\ [AttachmentNext]_attachmentVars => ContainedInv'
<1> SUFFICES ASSUME ContainedInv, [AttachmentNext]_attachmentVars PROVE ContainedInv'
  OBVIOUS
<1>1. CASE UNCHANGED attachmentVars \/ TargetChanges
  BY <1>1 DEF attachmentVars, TargetChanges, ContainedInv, AttachmentTypes, SlotsCounted, WorkersHeld, Holders
<1> QED
  BY <1>1, CallContained, SlotsContained, WorkerContained DEF AttachmentNext, Import

(* attachment_io.py: whatever servers and callers do, a worker runs only   *)
(* while its caller holds a slot, no slot is lost or given back twice, and *)
(* only hosts of the local settings are ever connected to.                 *)
THEOREM ContainedWorkers == AttachmentSpec => []WorkersAreContained
<1>1. ContainedInv => WorkersAreContained
  BY DEF ContainedInv, SlotsCounted, WorkersHeld, WorkersAreContained, Holders
<1> QED
  BY ContainedInitial, ContainedStep, <1>1, PTL DEF AttachmentSpec
-----------------------------------------------------------------------------
(* Approvals.  A request is pending, or has one reply on its way, or was   *)
(* told one decision, or was dropped; it is taken up once, since the       *)
(* parser remembers what it has seen.  A reply says what the client chose  *)
(* or cancels.                                                             *)

Replies == [id : ApprovalIds, decision : Decisions \cup {"cancel"}]
Parsers == [pending : SUBSET ApprovalIds, seen : SUBSET ApprovalIds, outgoing : SUBSET Replies,
            done : {"no", "failed", "succeeded"}, over : BOOLEAN]
Lines == [is : {"request"}, id : ApprovalIds, kind : {"fit", "unsafe", "unbound"}]
         \cup [is : {"resolved"}, id : ApprovalIds] \cup [is : {"completed"}]

Replied(p, r) == \E y \in p.outgoing : y.id = r

(* The books of a parser agree with what was told and chosen.              *)
InOrder(p) ==
  /\ p \in Parsers
  /\ \A r \in ApprovalIds :
       /\ r \in p.pending => r \in p.seen /\ told[r] = <<>> /\ ~Replied(p, r)
       /\ told[r] # <<>> => r \in p.seen /\ ~Replied(p, r)
       /\ Replied(p, r) => r \in p.seen
  /\ \A y, z \in p.outgoing : y.id = z.id => y = z
  /\ \A y \in p.outgoing : y.decision \in {"cancel", chose[y.id].decision}

Answering == client.at = "sending" /\ client.about # "list"

BooksKept ==
  /\ inbox \in Seq(Lines)
  /\ told \in [ApprovalIds -> {<<>>} \cup {<<d>> : d \in Decisions \cup {"cancel"}}]
  /\ chose \in [ApprovalIds -> [decision : Decisions \cup {"cancel", "none"}, submitted : BOOLEAN]]
  /\ client \in [at : {"idle", "feed", "flush", "answer", "sending"}, about : ApprovalIds \cup {"list"},
                 decision : Decisions \cup {"cancel"}, alive : BOOLEAN]
  /\ InOrder(parser)
  /\ \A r \in ApprovalIds :
       /\ told[r] \in {<<>>, <<"cancel">>, <<chose[r].decision>>}
       /\ chose[r].submitted => told[r] = <<chose[r].decision>>
  /\ Answering =>
       \/ Reply(client.about, chose[client.about].decision) \in parser.outgoing
       \/ told[client.about] = <<chose[client.about].decision>>

RunningAgents == [running : BOOLEAN, asked : SUBSET ApprovalIds, withdrew : SUBSET ApprovalIds, ended : BOOLEAN]

DecisionsInv == agent \in RunningAgents /\ BooksKept

LEMMA FailInOrder ==
  ASSUME NEW p, InOrder(p) PROVE InOrder(Fail(p)) /\ Fail(p).outgoing = p.outgoing
<1> DEFINE q == Fail(p)
<1>1. q \in Parsers /\ q.pending = {} /\ q.seen = p.seen /\ q.outgoing = p.outgoing
  BY DEF Fail, InOrder, Parsers
<1> HIDE DEF q
<1>2. InOrder(q)
  BY <1>1 DEF InOrder, Replied
<1> QED
  BY <1>1, <1>2 DEF q

(* What leaves a request pending or cancels it, once it has been seen.     *)
LEMMA CancelsInOrder ==
  ASSUME NEW p, InOrder(p), NEW q \in Parsers, NEW due \in SUBSET ApprovalIds,
         \A r \in due : r \in p.pending \/ r \notin p.seen,
         q.outgoing = p.outgoing \cup {Reply(r, "cancel") : r \in due},
         q.seen \in {p.seen, p.seen \cup due}, due \subseteq q.seen,
         q.pending \subseteq p.pending \ due
  PROVE  InOrder(q)
<1>1. \A r \in due : told[r] = <<>> /\ ~Replied(p, r)
  BY DEF InOrder
<1>2. \A r \in ApprovalIds : Replied(q, r) <=> Replied(p, r) \/ r \in due
  <2> SUFFICES ASSUME NEW r \in ApprovalIds PROVE Replied(q, r) <=> Replied(p, r) \/ r \in due
    OBVIOUS
  <2>1. \A x : Reply(x, "cancel").id = x
    BY DEF Reply
  <2>2. Replied(q, r) => Replied(p, r) \/ r \in due
    BY <2>1 DEF Replied
  <2>3. Replied(p, r) => Replied(q, r)
    BY DEF Replied
  <2>4. r \in due => Replied(q, r)
    <3>1. r \in due => Reply(r, "cancel") \in q.outgoing
      OBVIOUS
    <3> QED
      BY <2>1, <3>1 DEF Replied
  <2> QED
    BY <2>2, <2>3, <2>4
<1>3. \A y, z \in q.outgoing : y.id = z.id => y = z
  BY <1>1 DEF InOrder, Replied, Reply
<1>4. \A y \in q.outgoing : y.decision \in {"cancel", chose[y.id].decision}
  BY DEF InOrder, Reply
<1>5. p.seen \subseteq q.seen
  OBVIOUS
<1> QED
  BY <1>1, <1>2, <1>3, <1>4, <1>5 DEF InOrder

LEMMA ExpiredInOrder ==
  ASSUME NEW p, InOrder(p), NEW due \in SUBSET p.pending
  PROVE  InOrder(Expired(p, due)) /\ p.outgoing \subseteq Expired(p, due).outgoing
<1> DEFINE q == Expired(p, due)
<1>1. p \in Parsers /\ due \in SUBSET ApprovalIds /\ due \subseteq p.seen
  BY DEF InOrder, Parsers
<1>2. {Reply(r, "cancel") : r \in due} \subseteq Replies
  BY <1>1 DEF Reply, Replies
<1>3. q \in Parsers /\ q.seen = p.seen /\ q.pending = p.pending \ due
      /\ q.outgoing = p.outgoing \cup {Reply(r, "cancel") : r \in due}
  BY <1>1, <1>2 DEF Expired, Parsers
<1> HIDE DEF q
<1>4. InOrder(q)
  BY <1>1, <1>3, CancelsInOrder
<1> QED
  BY <1>3, <1>4 DEF q

LEMMA FedInOrder ==
  ASSUME NEW p, InOrder(p), NEW line \in Lines
  PROVE  InOrder(Fed(p, line))
<1>0. p \in Parsers
  BY DEF InOrder
<1>1. CASE p.done # "no"
  BY <1>1 DEF Fed
<1>2. CASE p.done = "no" /\ line.is = "request"
  <2> DEFINE r == line.id
             q == [p EXCEPT !.seen = @ \cup {r}]
  <2>1. r \in ApprovalIds
    BY <1>2 DEF Lines
  <2> HIDE DEF r
  <2>2. q \in Parsers /\ q.seen = p.seen \cup {r} /\ q.pending = p.pending /\ q.outgoing = p.outgoing
    BY <1>0, <2>1 DEF Parsers
  <2> HIDE DEF q
  <2>3. Fed(p, line) = Take(p, line)
    BY <1>2 DEF Fed
  <2>4. CASE r \in p.seen \/ Cardinality(p.seen) >= MaxSeen
    BY <2>3, <2>4, FailInOrder DEF Take, r
  <2>5. CASE ~(r \in p.seen \/ Cardinality(p.seen) >= MaxSeen)
    <3>1. Take(p, line) \in {Fail(q), Replying(q, r, "cancel"), [q EXCEPT !.pending = @ \cup {r}]}
      BY <2>5 DEF Take, r, q
    <3>2. InOrder(q)
      BY <2>2 DEF InOrder, Replied
    <3>3. InOrder(Replying(q, r, "cancel"))
      <4> DEFINE s == Replying(q, r, "cancel")
      <4>1. Reply(r, "cancel") \in Replies
        BY <2>1 DEF Reply, Replies
      <4>2. /\ s \in Parsers /\ s.seen = p.seen \cup {r} /\ s.pending = p.pending
            /\ s.outgoing = p.outgoing \cup {Reply(x, "cancel") : x \in {r}}
        BY <2>2, <4>1 DEF Replying, Parsers
      <4> HIDE DEF s
      <4>3. r \notin p.pending
        BY <2>1, <2>5 DEF InOrder
      <4> DEFINE due == {r}
      <4>4. /\ due \in SUBSET ApprovalIds /\ \A x \in due : x \in p.pending \/ x \notin p.seen
            /\ s.outgoing = p.outgoing \cup {Reply(x, "cancel") : x \in due}
            /\ s.seen = p.seen \cup due /\ s.pending \subseteq p.pending \ due
        BY <2>1, <2>5, <4>2, <4>3
      <4> HIDE DEF due
      <4>5. InOrder(s)
        BY <4>2, <4>4, CancelsInOrder
      <4> QED
        BY <4>5 DEF s
    <3>4. InOrder([q EXCEPT !.pending = @ \cup {r}])
      <4> DEFINE s == [q EXCEPT !.pending = @ \cup {r}]
      <4>1. s \in Parsers /\ s.seen = p.seen \cup {r} /\ s.outgoing = p.outgoing
            /\ s.pending = p.pending \cup {r}
        BY <2>1, <2>2 DEF Parsers
      <4> HIDE DEF s
      <4>2. told[r] = <<>> /\ ~Replied(p, r)
        BY <2>1, <2>5 DEF InOrder
      <4>3. InOrder(s)
        BY <4>1, <4>2 DEF InOrder, Replied
      <4> QED
        BY <4>3 DEF s
    <3> QED
      BY <2>3, <3>1, <3>2, <3>3, <3>4, FailInOrder
  <2> QED
    BY <2>4, <2>5
<1>3. CASE p.done = "no" /\ line.is \in {"resolved", "completed"}
  <2>1. PICK q \in Parsers : /\ q = Fed(p, line) /\ q.seen = p.seen /\ q.outgoing = p.outgoing
                             /\ q.pending \subseteq p.pending
    <3>1. CASE line.is = "resolved"
      <4>1. Fed(p, line) = [p EXCEPT !.pending = @ \ {line.id}]
        BY <1>3, <3>1 DEF Fed
      <4> QED
        BY <1>0, <4>1 DEF Parsers
    <3>2. CASE line.is = "completed"
      <4>1. Fed(p, line) = [p EXCEPT !.done = "succeeded", !.pending = {}]
        BY <1>3, <3>2 DEF Fed
      <4> QED
        BY <1>0, <4>1 DEF Parsers
    <3> QED
      BY <1>3, <3>1, <3>2
  <2> QED
    BY <2>1 DEF InOrder, Replied
<1>4. line.is \in {"request", "resolved", "completed"}
  BY DEF Lines
<1> QED
  BY <1>1, <1>2, <1>3, <1>4

LEMMA DecisionsInitial == ApprovalInit => DecisionsInv
  BY DEF ApprovalInit, DecisionsInv, RunningAgents, BooksKept, InOrder, Parsers, Replied, Answering, NoClient

(* The agent's lines, the clock and the grant.                             *)
LEMMA AgentDecides ==
  ASSUME BooksKept,
         \/ \E r \in ApprovalIds :
              \/ \E kind \in {"fit", "unsafe", "unbound"} : AgentAsks(r, kind)
              \/ AgentWithdraws(r) \/ DeadlinePasses(r)
         \/ AgentEnds \/ AgentExits \/ GrantEnds
  PROVE  BooksKept'
<1>1. UNCHANGED <<told, parser, client, chose>>
  BY DEF AgentAsks, AgentWithdraws, DeadlinePasses, AgentEnds, AgentExits, GrantEnds
<1>2. inbox' = inbox \/ \E line \in Lines : Writes(line)
  BY DEF AgentAsks, AgentWithdraws, DeadlinePasses, AgentEnds, AgentExits, GrantEnds, Lines
<1>3. inbox' \in Seq(Lines)
  BY <1>2 DEF Writes, BooksKept
<1> QED
  BY <1>1, <1>3 DEF BooksKept, InOrder, Answering

(* The steps that only move the call in progress.                          *)
LEMMA ClientMoves ==
  ASSUME BooksKept, UNCHANGED <<inbox, told, parser, chose>>, ~Answering',
         client' \in [at : {"idle", "feed", "flush", "answer", "sending"}, about : ApprovalIds \cup {"list"},
                      decision : Decisions \cup {"cancel"}, alive : BOOLEAN]
  PROVE  BooksKept'
BY DEF BooksKept, InOrder

LEMMA ServeDecides == ASSUME DecisionsInv, Serve PROVE BooksKept'
<1>t. \A d : <<d>> # <<>>
  OBVIOUS
<1> BooksKept /\ agent.running \in BOOLEAN
  BY DEF DecisionsInv, RunningAgents
<1> HIDE DEF DecisionsInv
<1> DEFINE Clients == [at : {"idle", "feed", "flush", "answer", "sending"}, about : ApprovalIds \cup {"list"},
                       decision : Decisions \cup {"cancel"}, alive : BOOLEAN]
<1>0. client \in Clients /\ parser \in Parsers /\ InOrder(parser) /\ NoClient \in Clients
      /\ NoClient.at = "idle" /\ NoClient.about = "list"
  BY DEF BooksKept, InOrder, NoClient
<1>1. CASE Feed
  <2>1. inbox' = Tail(inbox) /\ Head(inbox) \in Lines /\ inbox' \in Seq(Lines)
    BY <1>1 DEF Feed, BooksKept
  <2>2. parser' = Fed(parser, Head(inbox)) /\ UNCHANGED <<told, client, chose>> /\ ~Answering'
    BY <1>1 DEF Feed, Answering
  <2>3. InOrder(parser')
    BY <1>0, <2>1, <2>2, FedInOrder
  <2> HIDE DEF InOrder
  <2>4. InOrder(parser)'
    BY <2>2, <2>3 DEF InOrder
  <2> QED
    BY <2>1, <2>2, <2>4 DEF BooksKept
<1>2. CASE FeedEnds
  <2>1. client' = [client EXCEPT !.at = "flush", !.alive = agent.running] /\ UNCHANGED <<inbox, told, parser, chose>>
    BY <1>2 DEF FeedEnds
  <2>2. client' \in Clients /\ client'.at = "flush"
    BY <1>0, <2>1 DEF BooksKept
  <2> QED
    BY <2>1, <2>2, ClientMoves DEF Answering
<1>3. CASE ExpireRequests
  <2>1. parser' = Expired(parser, Due) /\ Due \in SUBSET parser.pending /\ UNCHANGED <<inbox, told, client, chose>>
    BY <1>3 DEF ExpireRequests, Due
  <2>2. InOrder(parser') /\ parser.outgoing \subseteq parser'.outgoing
    BY <1>0, <2>1, ExpiredInOrder
  <2> QED
    BY <2>1, <2>2 DEF BooksKept, InOrder, Answering
<1>4. CASE Flush
  <2>1. PICK reply \in parser.outgoing :
          /\ told' = [told EXCEPT ![reply.id] = Append(@, reply.decision)]
          /\ parser' = [parser EXCEPT !.outgoing = @ \ {reply}]
          /\ UNCHANGED <<inbox, client, chose>>
    BY <1>4 DEF Flush
  <2>2. /\ reply.id \in ApprovalIds /\ reply.decision \in Decisions \cup {"cancel"}
        /\ reply = Reply(reply.id, reply.decision)
    BY <1>0 DEF Parsers, Replies, Reply
  <2>3. told[reply.id] = <<>> /\ reply.decision \in {"cancel", chose[reply.id].decision}
    BY <1>0, <2>2 DEF InOrder, Replied
  <2>4. told'[reply.id] = <<reply.decision>> /\ \A r \in ApprovalIds : r # reply.id => told'[r] = told[r]
    BY <2>1, <2>2, <2>3 DEF BooksKept
  <2>5. told' \in [ApprovalIds -> {<<>>} \cup {<<d>> : d \in Decisions \cup {"cancel"}}]
    BY <2>1, <2>2, <2>4 DEF BooksKept
  <2>6. /\ parser' \in Parsers /\ parser'.pending = parser.pending /\ parser'.seen = parser.seen
        /\ parser'.outgoing = parser.outgoing \ {reply}
    BY <1>0, <2>1 DEF Parsers
  <2>7. \A r \in ApprovalIds : Replied(parser', r) => Replied(parser, r) /\ r # reply.id
    BY <1>0, <2>6 DEF Replied, InOrder
  <2>8. Replied(parser, reply.id)
    BY DEF Replied
  <2>9. InOrder(parser)'
    BY <1>0, <2>1, <2>2, <2>4, <2>6, <2>7, <2>8 DEF InOrder, Replied
  <2>10. ASSUME Answering'
         PROVE  \/ Reply(client.about, chose[client.about].decision) \in parser'.outgoing
                \/ told'[client.about] = <<chose[client.about].decision>>
    <3>1. client.about \in ApprovalIds /\ Answering
      BY <1>0, <2>1, <2>10 DEF Answering
    <3>2. CASE client.about = reply.id
      <4>1. Reply(client.about, chose[client.about].decision) \in parser.outgoing
        BY <1>t, <2>3, <3>1, <3>2 DEF BooksKept
      <4>2. reply = Reply(client.about, chose[client.about].decision)
        BY <1>0, <3>2, <4>1 DEF InOrder, Reply
      <4> QED
        BY <2>4, <3>2, <4>2 DEF Reply
    <3>3. CASE client.about # reply.id
      BY <2>4, <2>6, <3>1, <3>3 DEF BooksKept, Reply
    <3> QED
      BY <3>2, <3>3
  <2>11. ~chose[reply.id].submitted
    <3> SUFFICES ASSUME chose[reply.id].submitted PROVE FALSE
      OBVIOUS
    <3>1. told[reply.id] = <<chose[reply.id].decision>>
      BY <2>2 DEF BooksKept
    <3> QED
      BY <1>t, <2>3, <3>1
  <2> QED
    BY <2>1, <2>2, <2>3, <2>4, <2>5, <2>9, <2>10, <2>11 DEF BooksKept, Answering
<1>5. CASE FlushEnds
  <2>1. PICK over \in BOOLEAN, pending \in {parser.pending, {}} :
          parser' = [parser EXCEPT !.outgoing = {}, !.over = over, !.pending = pending]
    BY <1>0, <1>5 DEF FlushEnds, Parsers
  <2>2. /\ parser' \in Parsers /\ parser'.pending \subseteq parser.pending /\ parser'.seen = parser.seen
        /\ parser'.outgoing = {}
    BY <1>0, <2>1 DEF Parsers
  <2>3. /\ client' \in Clients /\ client'.at \in {"idle", "answer"} /\ UNCHANGED <<inbox, told, chose>>
    BY <1>0, <1>5 DEF FlushEnds
  <2>4. InOrder(parser)'
    BY <1>0, <2>2, <2>3 DEF InOrder, Replied
  <2> QED
    BY <2>3, <2>4 DEF BooksKept, Answering
<1>6. CASE List
  BY <1>0, <1>6, ClientMoves DEF List, Answering
<1>7. CASE RefuseAnswer
  BY <1>0, <1>7, ClientMoves DEF RefuseAnswer, Answering
<1>8. CASE Respond
  <2> DEFINE r == client.about
             d == client.decision
  <2>1. /\ parser' = Chosen(parser, r, d) /\ client' = [client EXCEPT !.at = "sending"]
        /\ chose' = [chose EXCEPT ![r].decision = d]
        /\ UNCHANGED <<inbox, told>> /\ r \in parser.pending
    BY <1>8 DEF Respond
  <2>2. r \in ApprovalIds
    BY <1>0, <2>1 DEF Parsers
  <2>3. told[r] = <<>> /\ ~Replied(parser, r) /\ r \in parser.seen /\ ~chose[r].submitted
    BY <1>0, <1>t, <2>1, <2>2 DEF InOrder, BooksKept
  <2>4. d \in Decisions \cup {"cancel"}
    BY <1>0
  <2>5. client' \in Clients /\ client'.about = r
    BY <1>0, <2>1
  <2> HIDE DEF r, d
  <2>6. /\ chose' \in [ApprovalIds -> [decision : Decisions \cup {"cancel", "none"}, submitted : BOOLEAN]]
        /\ chose'[r].decision = d /\ chose'[r].submitted = chose[r].submitted
        /\ \A x \in ApprovalIds : x # r => chose'[x] = chose[x]
    BY <2>1, <2>2, <2>4 DEF BooksKept
  <2>7. Reply(r, d) \in Replies /\ Reply(r, d).id = r /\ Reply(r, d).decision = d
    BY <2>2, <2>4 DEF Reply, Replies
  <2>8. /\ parser' \in Parsers /\ parser'.pending = parser.pending \ {r} /\ parser'.seen = parser.seen
        /\ parser'.outgoing = parser.outgoing \cup {Reply(r, d)}
    BY <1>0, <2>1, <2>7 DEF Chosen, Replying, Parsers
  <2>9. \A x \in ApprovalIds : Replied(parser', x) <=> Replied(parser, x) \/ x = r
    BY <2>7, <2>8 DEF Replied
  <2>10. \A y, z \in parser'.outgoing : y.id = z.id => y = z
    BY <1>0, <2>3, <2>7, <2>8 DEF InOrder, Replied
  <2>11. \A y \in parser'.outgoing : y.decision \in {"cancel", chose'[y.id].decision}
    <3> SUFFICES ASSUME NEW y \in parser'.outgoing PROVE y.decision \in {"cancel", chose'[y.id].decision}
      OBVIOUS
    <3>1. CASE y = Reply(r, d)
      BY <2>6, <2>7, <3>1
    <3>2. CASE y \in parser.outgoing
      <4>1. y.id \in ApprovalIds /\ y.id # r
        BY <1>0, <2>3, <3>2 DEF Parsers, Replies, Replied
      <4> QED
        BY <1>0, <2>6, <3>2, <4>1 DEF InOrder
    <3> QED
      BY <2>8, <3>1, <3>2
  <2>12. InOrder(parser)'
    BY <1>0, <2>1, <2>3, <2>8, <2>9, <2>10, <2>11 DEF InOrder
  <2>13. \A x \in ApprovalIds :
           /\ told'[x] \in {<<>>, <<"cancel">>, <<chose'[x].decision>>}
           /\ chose'[x].submitted => told'[x] = <<chose'[x].decision>>
    BY <2>1, <2>3, <2>6 DEF BooksKept
  <2> QED
    BY <1>8, <2>1, <2>5, <2>6, <2>8, <2>12, <2>13 DEF BooksKept, Respond
<1>9. CASE SendEnds
  <2>1. /\ client' = NoClient /\ UNCHANGED <<inbox, told, parser>> /\ parser.outgoing = {}
        /\ client.at = "sending"
        /\ chose' = IF client.about = "list" THEN chose
                    ELSE [chose EXCEPT ![client.about].submitted = TRUE]
    BY <1>9 DEF SendEnds
  <2>2. Answering => told[client.about] = <<chose[client.about].decision>>
    BY <2>1 DEF BooksKept
  <2>3. /\ chose' \in [ApprovalIds -> [decision : Decisions \cup {"cancel", "none"}, submitted : BOOLEAN]]
        /\ \A x \in ApprovalIds :
             /\ chose'[x].decision = chose[x].decision
             /\ chose'[x].submitted = chose[x].submitted \/ (Answering /\ x = client.about)
    <3>1. CASE client.about = "list"
      BY <2>1, <3>1 DEF BooksKept
    <3>2. CASE client.about # "list"
      <4>1. client.about \in ApprovalIds /\ Answering
        BY <1>0, <2>1, <3>2 DEF Answering
      <4> DEFINE r == client.about
                 c == [chose[r] EXCEPT !.submitted = TRUE]
      <4>2. chose[r] \in [decision : Decisions \cup {"cancel", "none"}, submitted : BOOLEAN]
        BY <4>1 DEF BooksKept
      <4>3. /\ c \in [decision : Decisions \cup {"cancel", "none"}, submitted : BOOLEAN]
            /\ c.decision = chose[r].decision
        BY <4>2
      <4>4. chose' = [chose EXCEPT ![r] = c]
        BY <2>1, <3>2
      <4> HIDE DEF c
      <4> QED
        BY <4>1, <4>3, <4>4 DEF BooksKept
    <3> QED
      BY <3>1, <3>2
  <2> QED
    BY <1>0, <1>9, <2>1, <2>2, <2>3 DEF BooksKept, InOrder, Answering, SendEnds
<1>10. CASE SendFails
  <2>1. parser' \in {parser, Fail(parser)} /\ client' = NoClient /\ UNCHANGED <<inbox, told, chose>>
    BY <1>10 DEF SendFails
  <2>2. InOrder(parser')
    BY <1>0, <2>1, FailInOrder
  <2> QED
    BY <1>0, <2>1, <2>2 DEF BooksKept, InOrder, Answering
<1> QED
  BY <1>1, <1>2, <1>3, <1>4, <1>5, <1>6, <1>7, <1>8, <1>9, <1>10 DEF Serve

LEMMA DecisionsStep == DecisionsInv /\ [ApprovalNext]_approvalVars => DecisionsInv'
<1> SUFFICES ASSUME DecisionsInv, [ApprovalNext]_approvalVars PROVE DecisionsInv'
  OBVIOUS
<1>0. BooksKept /\ agent \in RunningAgents
  BY DEF DecisionsInv
<1>1. ASSUME NEW about \in ApprovalIds \cup {"list"}, NEW decision \in Decisions \cup {"cancel"},
             BeginApproval(about, decision)
      PROVE  BooksKept'
  <2>1. /\ client' = [NoClient EXCEPT !.at = "feed", !.about = about, !.decision = decision]
        /\ UNCHANGED <<inbox, told, parser, chose>>
    BY <1>1 DEF BeginApproval
  <2> QED
    BY <1>0, <2>1, ClientMoves DEF NoClient, Answering
<1>2. ASSUME UNCHANGED approvalVars PROVE BooksKept'
  <2>1. UNCHANGED <<inbox, told, parser, client, chose>>
    BY <1>2 DEF approvalVars
  <2> QED
    BY <1>0, <2>1 DEF BooksKept, InOrder, Answering
<1>3. ASSUME ApprovalNext PROVE BooksKept'
  <2>1. CASE Look
    BY <1>1, <2>1 DEF Look
  <2>2. CASE Serve
    BY <2>2, ServeDecides
  <2>3. CASE \E r \in ApprovalIds, decision \in Decisions : BeginApproval(r, decision)
    BY <1>1, <2>3
  <2>4. CASE \/ \E r \in ApprovalIds :
                  \/ \E kind \in {"fit", "unsafe", "unbound"} : AgentAsks(r, kind)
                  \/ AgentWithdraws(r) \/ DeadlinePasses(r)
             \/ AgentEnds \/ AgentExits \/ GrantEnds
    BY <1>0, <2>4, AgentDecides
  <2> QED
    BY <1>3, <2>1, <2>2, <2>3, <2>4 DEF ApprovalNext
<1>4. \/ UNCHANGED agent
      \/ \E r \in ApprovalIds : agent' = [agent EXCEPT !.asked = @ \cup {r}]
      \/ \E r \in ApprovalIds : agent' = [agent EXCEPT !.withdrew = @ \cup {r}]
      \/ agent' = [agent EXCEPT !.ended = TRUE]
      \/ agent' = [agent EXCEPT !.running = FALSE]
      \/ agent' = [agent EXCEPT !.running = @ /\ parser.done # "failed"]
  BY DEF ApprovalNext, AgentAsks, AgentWithdraws, DeadlinePasses, AgentEnds, AgentExits, GrantEnds,
         BeginApproval, Look, Serve, Feed, FeedEnds, ExpireRequests, Flush, FlushEnds, List,
         RefuseAnswer, Respond, SendEnds, SendFails, approvalVars
<1>5. agent' \in RunningAgents
  <2>1. CASE \/ UNCHANGED agent
             \/ agent' = [agent EXCEPT !.ended = TRUE] \/ agent' = [agent EXCEPT !.running = FALSE]
    BY <1>0, <2>1 DEF RunningAgents
  <2>2. CASE agent' = [agent EXCEPT !.running = @ /\ parser.done # "failed"]
    BY <1>0, <2>2 DEF RunningAgents
  <2>3. ASSUME NEW r \in ApprovalIds, agent' = [agent EXCEPT !.asked = @ \cup {r}] PROVE agent' \in RunningAgents
    BY <1>0, <2>3 DEF RunningAgents
  <2>4. ASSUME NEW r \in ApprovalIds, agent' = [agent EXCEPT !.withdrew = @ \cup {r}] PROVE agent' \in RunningAgents
    BY <1>0, <2>4 DEF RunningAgents
  <2> QED
    BY <1>4, <2>1, <2>2, <2>3, <2>4
<1> QED
  BY <1>2, <1>3, <1>5 DEF DecisionsInv

(* agent_approvals.py: whatever expires, is withdrawn, breaks or is        *)
(* answered twice, the agent is told one decision for each request, one of *)
(* a client or "cancel", and "submitted" means it was told the client's.   *)
THEOREM ClientsDecide == ApprovalSpec => []DecisionsAreTheClients
<1>1. DecisionsInv => DecisionsAreTheClients
  <2>1. Len(<<>>) = 0 /\ \A d : Len(<<d>>) = 1
    OBVIOUS
  <2> SUFFICES ASSUME DecisionsInv, NEW r \in ApprovalIds
               PROVE  /\ Len(told[r]) <= 1
                      /\ told[r] # <<>> /\ told[r] # <<"cancel">> => told[r] = <<chose[r].decision>>
                      /\ chose[r].submitted => told[r] = <<chose[r].decision>>
    BY DEF DecisionsAreTheClients
  <2>2. /\ told[r] \in {<<>>, <<"cancel">>, <<chose[r].decision>>}
        /\ chose[r].submitted => told[r] = <<chose[r].decision>>
    BY DEF DecisionsInv, BooksKept
  <2>3. Len(told[r]) = 0 \/ Len(told[r]) = 1
    BY <2>1, <2>2
  <2>4. \A n : n = 0 \/ n = 1 => n <= 1
    OBVIOUS
  <2> QED
    BY <2>2, <2>3, <2>4
<1> QED
  BY DecisionsInitial, DecisionsStep, <1>1, PTL DEF ApprovalSpec
-----------------------------------------------------------------------------
(* The start of a run.  The rule does not change while a run goes on, and  *)
(* the session only becomes bound; what the session's defaults and a run's *)
(* overrides make together was as open as each of them.                    *)

AgentHeld ==
  \/ session = NoAgent /\ launch = NoLaunch
  \/ session \in Agents /\ ProfileAllows(session) /\ Normal(session.defaults)

LaunchInv == AgentHeld /\ LaunchKeepsAuthority

(* A session's defaults set nothing to null.                               *)
LEMMA DefaultsAreSet ==
  ASSUME NEW d \in Some({}), Has(d, "config") PROVE d.config # Null
<1>1. d # NoOptions
  BY DEF NoOptions, Has
<1>2. PICK k \in Options : d \in [{k} -> ValuesOf[k]]
  BY <1>1 DEF Some
<1>3. k = "config" /\ d.config \in ValuesOf["config"]
  BY <1>2 DEF Has
<1>4. ValuesOf["config"] = DOMAIN Segments
  BY DEF ValuesOf, Options, Switches, Readable, Writable
<1>5. Null \notin DOMAIN Segments
  BY DEF Null, Segments
<1> QED
  BY <1>3, <1>4, <1>5

(* What is normal stays normal when it is merged.                          *)
LEMMA MergedIsNormal ==
  ASSUME NEW d \in Some({}), NEW o, Normal(d), Normal(o), NEW m, m = Merged(d, o)
  PROVE  /\ Has(m, "config") => KeyIsOpen(m.config)
         /\ \A k \in DOMAIN m \cap {"enable", "disable"} : m[k] \notin ProtectedFeatures
<1>1. \A k \in DOMAIN m : \/ Has(o, k) /\ m[k] = o[k] /\ o[k] # Null
                          \/ Has(d, k) /\ m[k] = d[k]
  BY DEF Merged, Has
<1>2. ASSUME Has(m, "config") PROVE KeyIsOpen(m.config)
  <2>1. CASE Has(o, "config") /\ m.config = o.config /\ o.config # Null
    BY <2>1 DEF Normal
  <2>2. CASE Has(d, "config") /\ m.config = d.config
    BY <2>2, DefaultsAreSet DEF Normal
  <2> QED
    BY <1>1, <1>2, <2>1, <2>2 DEF Has
<1>3. \A k \in DOMAIN m \cap {"enable", "disable"} : m[k] \notin ProtectedFeatures
  BY <1>1 DEF Normal, Has
<1> QED
  BY <1>2, <1>3

(* The command that is started keeps to what was authorized just now.      *)
LEMMA StartKeepsAuthority ==
  ASSUME AgentHeld, NEW o \in Some({Null}), NEW action \in {"continue", "fork", "review"},
         StartRun(o, action)
  PROVE  LaunchKeepsAuthority'
<1> DEFINE m == Merged(session.defaults, o)
<1>1. /\ session \in Agents /\ session.defaults \in Some({}) /\ ProfileAllows(session)
      /\ Normal(session.defaults)
  BY DEF StartRun, AgentHeld, Agents
<1>2. /\ DirectoryAuthorized(session) /\ ShellAuthorized(session) /\ Normal(o) /\ PathsHold(m)
      /\ LaunchWith(m, action)
  BY DEF StartRun, Prepared
<1>3. /\ Has(m, "config") => KeyIsOpen(m.config)
      /\ \A k \in DOMAIN m \cap {"enable", "disable"} : m[k] \notin ProtectedFeatures
  BY <1>1, <1>2, MergedIsNormal
<1> HIDE DEF m
<1>4. UNCHANGED <<rule, session>>
  BY <1>2 DEF LaunchWith
<1>5. DirectoryAuthorized(session)' /\ (ShellAuthorized(session) <=> ShellAuthorized(session)')
  BY <1>2, <1>4 DEF DirectoryAuthorized, ShellAuthorized, Reaches
<1>6. CASE session.provider = "codex" /\ ~On(m, "manual_approval")
  <2>1. ExecAccepts(m, action) /\ launch' = ExecCommand(m, action)
    BY <1>2, <1>6 DEF LaunchWith
  <2>2. /\ launch'.config = {m[k] : k \in DOMAIN m \cap {"config"}}
        /\ launch'.features = {m[k] : k \in DOMAIN m \cap {"enable", "disable"}}
        /\ launch'.places = {<<k, m[k]>> : k \in DOMAIN m \cap (Readable \cup Writable)}
        /\ launch'.mode = Mode(action) /\ ~launch'.shell
        /\ launch'.sandbox = IF On(m, "approve_for_me") THEN "none" ELSE session.sandbox
        /\ launch'.review = IF On(m, "approve_for_me") THEN "auto" ELSE "user"
        /\ launch'.approval = IF Has(m, "ask_for_approval") THEN m.ask_for_approval ELSE "native"
    BY <2>1 DEF ExecCommand
  <2>3. SandboxInEffect' = session'.sandbox
    BY <1>4, <2>1, <2>2 DEF SandboxInEffect, ExecAccepts
  <2>4. ~(launch'.review = "auto" /\ launch'.approval = "never")
    BY <2>1, <2>2 DEF ExecAccepts, Is
  <2>5. \A k \in launch'.config : KeyIsOpen(k)
    BY <1>3, <2>2 DEF Has
  <2>6. launch'.features \cap ProtectedFeatures = {}
    BY <1>3, <2>2
  <2>7. \A p \in launch'.places : Reaches(p[2], IF p[1] \in Writable THEN "write" ELSE "read")'
    BY <1>2, <1>4, <2>2 DEF PathsHold, Reaches, Readable, Writable
  <2>8. launch'.mode \in {"resume", "fork"} => session'.bound
    BY <1>4, <2>1, <2>2 DEF ExecAccepts, Mode
  <2> QED
    BY <1>5, <2>2, <2>3, <2>4, <2>5, <2>6, <2>7, <2>8 DEF LaunchKeepsAuthority
<1>7. CASE session.provider = "codex" /\ On(m, "manual_approval")
  <2>1. ManualAccepts(m, action) /\ launch' = ManualCommand
    BY <1>2, <1>7 DEF LaunchWith
  <2> QED
    BY <1>4, <1>5, <2>1 DEF ManualCommand, Mode, LaunchKeepsAuthority, SandboxInEffect
<1>8. CASE session.provider = "claude"
  <2>1. launch' = ClaudeCommand
    BY <1>2, <1>8 DEF LaunchWith
  <2> QED
    BY <1>2, <1>4, <1>5, <2>1 DEF ClaudeCommand, Mode, LaunchKeepsAuthority, SandboxInEffect, ShellAuthorized
<1>9. CASE session.provider = "pi"
  <2>1. launch' = PiCommand
    BY <1>2, <1>9 DEF LaunchWith
  <2> QED
    BY <1>1, <1>4, <1>5, <1>9, <2>1 DEF PiCommand, ProfileAllows, LaunchKeepsAuthority, SandboxInEffect
<1> QED
  BY <1>1, <1>6, <1>7, <1>8, <1>9 DEF Agents

LEMMA LaunchStep == LaunchInv /\ [LaunchNext]_launchVars => LaunchInv'
<1> SUFFICES ASSUME LaunchInv, [LaunchNext]_launchVars PROVE LaunchInv'
  OBVIOUS
<1>1. ASSUME NEW a \in Agents, CreateSession(a) PROVE LaunchInv'
  BY <1>1 DEF CreateSession, LaunchInv, AgentHeld, LaunchKeepsAuthority, NoLaunch, Agents, NoAgent
<1>2. ASSUME NEW r \in Rules, ChangeRule(r) PROVE LaunchInv'
  BY <1>2 DEF ChangeRule, LaunchInv, AgentHeld, LaunchKeepsAuthority
<1>3. CASE EndRun
  <2>1. session' = session \/ session' = [session EXCEPT !.bound = TRUE]
    BY <1>3 DEF EndRun
  <2>2. launch # NoLaunch /\ launch' = NoLaunch
    BY <1>3 DEF EndRun
  <2>3. session \in Agents /\ ProfileAllows(session) /\ Normal(session.defaults)
    BY <2>2 DEF LaunchInv, AgentHeld
  <2>4. /\ session' \in Agents /\ session'.provider = session.provider /\ session'.shell = session.shell
        /\ session'.sandbox = session.sandbox /\ session'.defaults = session.defaults
    BY <2>1, <2>3 DEF Agents
  <2> QED
    BY <2>2, <2>3, <2>4 DEF LaunchInv, AgentHeld, ProfileAllows, LaunchKeepsAuthority
<1>4. ASSUME NEW o \in Some({Null}), NEW action \in {"continue", "fork", "review"}, StartRun(o, action)
      PROVE  LaunchInv'
  <2>1. LaunchKeepsAuthority'
    BY <1>4, StartKeepsAuthority DEF LaunchInv
  <2>2. session # NoAgent /\ session' = session
    BY <1>4 DEF StartRun, LaunchWith
  <2> QED
    BY <2>1, <2>2 DEF LaunchInv, AgentHeld
<1>5. CASE UNCHANGED launchVars
  BY <1>5 DEF launchVars, LaunchInv, AgentHeld, LaunchKeepsAuthority, SandboxInEffect, DirectoryAuthorized, Reaches
<1> QED
  BY <1>1, <1>2, <1>3, <1>4, <1>5 DEF LaunchNext

(* agent_adapters.py, service.py: whatever a session's defaults, a run's   *)
(* overrides and the policy of the moment are, the command of a run stays  *)
(* in the session's sandbox and in what the policy permits.                *)
THEOREM LaunchesKeepAuthority == LaunchSpec => []LaunchKeepsAuthority
<1>1. LaunchInit => LaunchInv
  BY DEF LaunchInit, LaunchInv, AgentHeld, LaunchKeepsAuthority
<1>2. LaunchInv => LaunchKeepsAuthority
  BY DEF LaunchInv
<1> QED
  BY LaunchStep, <1>1, <1>2, PTL DEF LaunchSpec
=============================================================================
