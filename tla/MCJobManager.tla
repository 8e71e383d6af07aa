---------------------------- MODULE MCJobManager ----------------------------
(* Two settings of one queue, chosen in the first state: "keys" has three  *)
(* jobs, one worker and idempotency keys, "grants" has two jobs, two       *)
(* workers and grants.  Together they are beyond a run's reach; for the    *)
(* same reason the three jobs of "keys" are not all there at a shutdown.   *)
EXTENDS JobManager, TLC

JobSymmetry == Permutations(Jobs) \cup Permutations(Workers)

VARIABLE setting

OneWorkerNoGrants ==
  /\ Cardinality({w \in Workers : wpc[w] # "test"}) <= 1
  /\ gone = {} /\ \A j \in Jobs : job[j].grant = NoGrant
  /\ stopping => Cardinality({j \in Jobs : Born(j)}) <= 2

TwoJobsNoKeys ==
  /\ Cardinality({j \in Jobs : Born(j)}) <= 2
  /\ \A j \in Jobs : job[j].key = NoKey

QueueInit == Init /\ setting \in {"keys", "grants"}

QueueNext ==
  /\ Next /\ setting' = setting
  /\ IF setting = "keys" THEN OneWorkerNoGrants' ELSE TwoJobsNoKeys'

QueueSpec == QueueInit /\ [][QueueNext]_<<vars, setting>>
=============================================================================
