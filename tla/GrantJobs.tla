------------------------------ MODULE GrantJobs -----------------------------
(***************************************************************************)
(* External calls as background jobs: the grants of Grants together with   *)
(* the promise the job queue keeps (JobPromise, which JobManager is proved *)
(* to implement).  Every caller that resolves paths is the runner of one   *)
(* job, and that job carries the grant's id in its metadata.               *)
(***************************************************************************)
EXTENDS Grants

CONSTANT NoRequestKey

VARIABLES promise, key, owner, hidden

JobsPromise == INSTANCE JobPromise WITH Jobs <- Callers, Keys <- {},
  Grants <- GrantIds, NoGrant <- NoGrantId, NoKey <- NoRequestKey

promiseVars == <<promise, key, owner, hidden>>
allVars == <<allGrantVars, promiseVars>>

GJInit == GrantInit /\ JobsPromise!Init

(* server.py external_call: the job is queued with whatever grant_id the   *)
(* client sent; only its runner looks the grant up.                        *)
SubmitExternal(j, g, S) == JobsPromise!Submit(j, NoRequestKey, g, S) /\ UNCHANGED allGrantVars

(* The runner resolves as often as the operation touches a path. *)
RunnerStep(j) ==
  /\ promise[j] = "pending"
  /\ Lookup(j, owner[j]) \/ Refuse(j) \/ Confirm(j)
  /\ UNCHANGED promiseVars

(* It returns a value after its last check, or raises at any point. *)
RunnerEnds(j, outcome) ==
  /\ outcome = "value" => rpc[j] = "resolved"
  /\ JobsPromise!Settle(j, outcome)
  /\ UNCHANGED allGrantVars

ForgetJobs(S) == JobsPromise!Forget(S) /\ UNCHANGED allGrantVars

SweepJobs(g) == Sweep(g) /\ JobsPromise!Withdraw(g)

GJNext ==
  \/ Admin /\ UNCHANGED promiseVars
  \/ \E g \in GrantIds : SweepJobs(g)
  \/ \E j \in Callers : RunnerStep(j) \/ \E outcome \in {"value", "novalue"} : RunnerEnds(j, outcome)
  \/ \E S \in SUBSET JobsPromise!Settled :
       ForgetJobs(S) \/ \E j \in Callers, g \in GrantIds : SubmitExternal(j, g, S)

GJSpec == GJInit /\ [][GJNext]_allVars

(* CHANGELOG "revoked result": once the jobs of a grant have been swept,   *)
(* no job of that grant has a readable result, whether it was queued,      *)
(* running or finished at the sweep, or submitted after it.                *)
SweptIsUnreadable ==
  \A j \in Callers : owner[j] \in swept => promise[j] # "value"
=============================================================================
