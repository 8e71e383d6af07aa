------------------------------- MODULE Grants -------------------------------
(***************************************************************************)
(* The in-memory external grants of tiancheng_mcp/grants.py with the two   *)
(* callers in service.py that end one: an explicit revocation, and the     *)
(* reaper (or a policy reload) that collects the grants a purge has ended. *)
(* Whoever ends a grant owes a sweep of its jobs.                          *)
(*                                                                         *)
(* A member of GrantIds is a request and the capability it may become. Time*)
(* and paths are reduced to two sets: the grants whose deadline has passed *)
(* and the grants whose root the current static policy denies.             *)
(* Definitions marked "fault" are mutants and no part of the system.       *)
(***************************************************************************)
EXTENDS Integers, FiniteSets

CONSTANTS
  GrantIds,
  Callers,      \* threads that resolve a path under a grant
  NoGrantId,
  MaxActive,    \* MAX_ACTIVE_GRANTS
  MaxPending,   \* MAX_PENDING_GRANTS
  MaxAttempts   \* approvals a request may consume

ASSUME LimitsAssumption == MaxActive \in Nat /\ MaxPending \in Nat /\ MaxAttempts \in Nat
ASSUME GrantAssumption  == NoGrantId \notin GrantIds /\ IsFiniteSet(GrantIds)

VARIABLES
  stage,     \* none, pending, active; closed: a request given up; ended: a grant over
  attempts,  \* _attempts
  aged,      \* deadlines that have passed
  denied,    \* roots the current policy denies
  expired,   \* _expired_ids: ended by a purge, collected by nobody yet
  owed,      \* handed to a caller that is about to sweep the jobs
  swept,     \* cancel_for_grant has run
  rpc, rfor  \* each caller's place in resolve(), and its grant

callerVars == <<rpc, rfor>>
grantVars == <<stage, attempts, aged, denied, expired, owed, swept>>
allGrantVars == <<grantVars, callerVars>>

GrantInit ==
  /\ stage = [g \in GrantIds |-> "none"] /\ attempts = [g \in GrantIds |-> 0]
  /\ aged = {} /\ denied = {} /\ expired = {} /\ owed = {} /\ swept = {}
  /\ rpc = [c \in Callers |-> "idle"] /\ rfor = [c \in Callers |-> NoGrantId]

-----------------------------------------------------------------------------
(* _purge_expired_locked: what it leaves, and what it ends. *)

Active == {g \in GrantIds : stage[g] = "active"}
Pending == {g \in GrantIds : stage[g] = "pending"}
InvalidByPolicy == {g \in Active : g \in denied}   \* fault: deadlines forgotten
Invalid == {g \in Active : g \in aged \/ g \in denied}
Live == Active \ Invalid
Waiting == Pending \ aged

(* An approval activates one more grant. *)
ActiveRoom == Cardinality(Live) < MaxActive

PurgedStage == [g \in GrantIds |-> IF g \in Invalid THEN "ended"
                                 ELSE IF g \in Pending \cap aged THEN "closed" ELSE stage[g]]

PurgedAttempts == [g \in GrantIds |-> IF g \in Pending \cap aged THEN 0 ELSE attempts[g]]

(* status(), and every call that purges and is then refused. *)
Purge ==
  /\ stage' = PurgedStage /\ attempts' = PurgedAttempts /\ expired' = expired \cup Invalid
  /\ UNCHANGED <<aged, denied, owed, swept, callerVars>>

(* A purge followed by g's move to a new stage, with so many attempts used. *)
PurgeAndMove(g, to, used) ==
  /\ stage' = [PurgedStage EXCEPT ![g] = to]
  /\ attempts' = [PurgedAttempts EXCEPT ![g] = used]
  /\ expired' = expired \cup Invalid
  /\ UNCHANGED <<aged, denied, owed, swept, callerVars>>

(* request(): the policy allows the root without approval, or asks for it. *)
RequestAllowed(g) ==
  /\ stage[g] = "none" /\ g \notin denied
  /\ ActiveRoom
  /\ PurgeAndMove(g, "active", 0)

RequestApproval(g) ==
  /\ stage[g] = "none" /\ g \notin denied
  /\ ActiveRoom /\ Cardinality(Waiting) < MaxPending
  /\ PurgeAndMove(g, "pending", 0)

(* approve(): every call on a waiting request costs an attempt, also one   *)
(* that fails on the challenge, the directory, the policy or the capacity. *)
ApproveRefused(g) ==
  /\ g \in Waiting /\ attempts[g] < MaxAttempts
  /\ PurgeAndMove(g, "pending", attempts[g] + 1)

ApproveExhausted(g) ==
  /\ g \in Waiting /\ attempts[g] >= MaxAttempts
  /\ PurgeAndMove(g, "closed", 0)

ApproveGranted(g) ==
  /\ g \in Waiting /\ attempts[g] < MaxAttempts
  /\ g \notin denied
  /\ ActiveRoom
  /\ PurgeAndMove(g, "active", 0)

CancelRequest(g) ==
  /\ stage[g] = "pending"
  /\ stage' = [stage EXCEPT ![g] = "closed"] /\ attempts' = [attempts EXCEPT ![g] = 0]
  /\ UNCHANGED <<aged, denied, expired, owed, swept, callerVars>>

-----------------------------------------------------------------------------
(* Ending a grant, in two critical sections of two locks: first it leaves  *)
(* _active, later its jobs are swept.                                      *)

RevokeLater(g) ==   \* fault: the jobs are swept while the grant is still active
  /\ stage[g] = "active"
  /\ owed' = owed \cup {g}
  /\ UNCHANGED <<stage, attempts, aged, denied, expired, swept, callerVars>>

Revoke(g) ==
  /\ stage[g] = "active"
  /\ stage' = [stage EXCEPT ![g] = "ended"]
  /\ owed' = owed \cup {g}
  /\ UNCHANGED <<attempts, aged, denied, expired, swept, callerVars>>

(* expire(), called by the reaper and by a policy reload. *)
ExpireTwice ==   \* fault: _expired_ids is not cleared
  /\ stage' = PurgedStage /\ attempts' = PurgedAttempts
  /\ owed' = owed \cup expired \cup Invalid
  /\ expired' = expired \cup Invalid
  /\ UNCHANGED <<aged, denied, swept, callerVars>>

Expire ==
  /\ stage' = PurgedStage /\ attempts' = PurgedAttempts
  /\ owed' = owed \cup expired \cup Invalid
  /\ expired' = {}
  /\ UNCHANGED <<aged, denied, swept, callerVars>>

Sweep(g) ==
  /\ g \in owed
  /\ owed' = owed \ {g} /\ swept' = swept \cup {g}
  /\ UNCHANGED <<stage, attempts, aged, denied, expired, callerVars>>

(* The deadline of a request or of a grant passes.  An approval starts a   *)
(* new deadline, so a waiting request has none that has passed.            *)
Age(g) ==
  /\ stage[g] \in {"pending", "active"} /\ g \notin aged
  /\ aged' = aged \cup {g}
  /\ UNCHANGED <<stage, attempts, denied, expired, owed, swept, callerVars>>

(* policy_update(): a reloaded policy denies other roots. *)
InstallPolicy(D) ==
  /\ D # denied
  /\ denied' = D
  /\ UNCHANGED <<stage, attempts, aged, expired, owed, swept, callerVars>>

-----------------------------------------------------------------------------
(* resolve(): look the grant up, examine the path without the lock, then   *)
(* check again that the grant is still the live one.                       *)

Resolving(c, place) ==
  /\ stage' = PurgedStage /\ attempts' = PurgedAttempts /\ expired' = expired \cup Invalid
  /\ rpc' = [rpc EXCEPT ![c] = place]
  /\ UNCHANGED <<aged, denied, owed, swept>>

Lookup(c, g) ==
  /\ rpc[c] \in {"idle", "resolved"}
  /\ Resolving(c, IF g \in Live THEN "examining" ELSE "refused")
  /\ rfor' = [rfor EXCEPT ![c] = g]

(* The mode, the path, or the policy for that path may refuse it.          *)
Refuse(c) ==
  /\ rpc[c] = "examining"
  /\ rpc' = [rpc EXCEPT ![c] = "refused"]
  /\ UNCHANGED <<grantVars, rfor>>

Confirm(c) ==
  /\ rpc[c] = "examining"
  /\ Resolving(c, IF rfor[c] \in Live THEN "resolved" ELSE "refused")
  /\ UNCHANGED rfor

-----------------------------------------------------------------------------
Admin ==
  \/ Purge \/ Expire
  \/ \E g \in GrantIds :
       \/ RequestAllowed(g) \/ RequestApproval(g)
       \/ ApproveRefused(g) \/ ApproveExhausted(g) \/ ApproveGranted(g)
       \/ CancelRequest(g) \/ Revoke(g) \/ Age(g)
  \/ \E D \in SUBSET GrantIds : InstallPolicy(D)

GrantNext ==
  \/ Admin
  \/ \E g \in GrantIds : Sweep(g)
  \/ \E c \in Callers : Refuse(c) \/ Confirm(c) \/ \E g \in GrantIds : Lookup(c, g)

GrantSpec == GrantInit /\ [][GrantNext]_allGrantVars

(* The reaper wakes every quarter of a second, and whoever owes a sweep is *)
(* a running thread.                                                       *)
Fairness == WF_allGrantVars(Expire) /\ \A g \in GrantIds : WF_allGrantVars(Sweep(g))

GrantFairSpec == GrantSpec /\ Fairness
-----------------------------------------------------------------------------
(* Properties. *)

(* Types, and the two limits the manual gives: at most MaxActive active    *)
(* grants and MaxPending waiting requests, whatever is approved or lapses. *)
GrantTypes ==
  /\ stage \in [GrantIds -> {"none", "pending", "active", "closed", "ended"}]
  /\ attempts \in [GrantIds -> 0 .. MaxAttempts]
  /\ \A S \in {aged, denied, expired, owed, swept} : S \subseteq GrantIds
  /\ rpc \in [Callers -> {"idle", "examining", "resolved", "refused"}]
  /\ rfor \in [Callers -> GrantIds \cup {NoGrantId}]
  /\ Cardinality(Active) <= MaxActive
  /\ Cardinality(Pending) <= MaxPending

(* A grant that is over is on exactly one account: collected by nobody     *)
(* yet, owed by the one thread that took it, or swept.  No grant is        *)
(* forgotten and none is swept twice, by revocation, reaper and reload in  *)
(* any order.                                                              *)
EndedIsAccounted ==
  /\ {g \in GrantIds : stage[g] = "ended"} = expired \cup owed \cup swept
  /\ expired \cap owed = {} /\ expired \cap swept = {} /\ owed \cap swept = {}

(* manual/permissions.md: a lapsed grant, like one whose root a policy     *)
(* keeps denying, loses its jobs.                                          *)
LapsedIsSwept ==
  \A g \in GrantIds :
    /\ stage[g] = "active" /\ g \in aged ~> g \in swept
    /\ stage[g] = "active" /\ g \in denied ~> g \in swept \/ g \notin denied
=============================================================================
