-------------------------- MODULE JobManagerProofs --------------------------
(***************************************************************************)
(* Machine-checked proofs about JobManager, for any number of jobs,        *)
(* workers, keys and grants and any capacity.                              *)
(*                                                                         *)
(* The safety properties are not inductive: that a revoked record stays    *)
(* hidden depends on no worker being about to begin it, which depends on   *)
(* who holds which record.  IInv adds what is needed: who owns a record    *)
(* (Ownership), how its fields depend on each other (Lifecycle), that the  *)
(* table and the key index agree (TableConsistent), and what shutdown's    *)
(* walk has already done to the record in its hand (WalkConsistent).       *)
(***************************************************************************)
EXTENDS JobManager, FiniteSetTheorems, TLAPS

(* A record is in the queue once or in one worker's hands, and it is       *)
(* unstarted exactly until that worker begins it.                          *)
Ownership ==
  /\ \A i \in DOMAIN queue : Born(queue[i]) /\ ~job[queue[i]].started
  /\ \A i, k \in DOMAIN queue : queue[i] = queue[k] => i = k
  /\ \A w \in Workers : Holding(w) =>
       /\ Born(wjob[w])
       /\ job[wjob[w]].started <=> Executing(w)
       /\ \A i \in DOMAIN queue : queue[i] # wjob[w]
       /\ \A v \in Workers : Holding(v) /\ wjob[v] = wjob[w] => v = w

Lifecycle ==
  \A j \in Jobs :
    /\ ~Born(j) => job[j] = Unborn
    /\ job[j].started => job[j].state # "queued"
    /\ job[j].outcome = "value" => job[j].state = "succeeded" /\ job[j].started
    /\ job[j].revoked /\ ~job[j].started => job[j].done
    /\ job[j].revoked => job[j].state = "expired" /\ job[j].outcome = "exception"

TableConsistent ==
  /\ \A j \in records : Born(j) /\ (job[j].key # NoKey => idem[job[j].key] = j)
  /\ \A j \in Jobs : Born(j) /\ ~job[j].done => j \in records
  /\ \A k \in Keys : idem[k] # NoJob => idem[k] \in records /\ job[idem[k]].key = k

WalkConsistent ==
  /\ spc # "off" => stopping
  /\ sTodo \subseteq {j \in Jobs : Born(j)}
  /\ spc \in {"test", "expire", "signal"} => Born(sJob) /\ job[sJob].cancelRequested
  /\ spc = "expire" => job[sJob].outcome # "value"
  /\ \A w \in Workers : wpc[w] = "running" =>
       /\ job[wjob[w]].outcome # "value"
       /\ job[wjob[w]].done => job[wjob[w]].cancelRequested

IInv == TypeOK /\ Ownership /\ Lifecycle /\ TableConsistent /\ WalkConsistent /\ DoneMeansStopped

-----------------------------------------------------------------------------
(* The sets that purging and reclaiming leave behind. *)

(* What may be left of the table: a part of it that keeps every unfinished *)
(* record.                                                                 *)
Leftover(R) == R \subseteq records /\ \A j \in records \ R : job[j].done

LEMMA RetainedIsLeftover ==
  ASSUME NEW cutoff
  PROVE  Leftover(Retained(cutoff))
BY DEF Leftover, Retained, Finished

LEMMA ReclaimedIsLeftover ==
  ASSUME NEW R, Leftover(R), NEW live \in Reclaimed(R)
  PROVE  Leftover(live)
BY DEF Leftover, Reclaimed, Finished

LEMMA LeftoverTable ==
  ASSUME IInv, NEW R, Leftover(R), records' = R, idem' = KeysOf(R), UNCHANGED job
  PROVE  TableConsistent'
BY DEF IInv, TypeOK, TableConsistent, Leftover, KeysOf, Born, JobRecord

LEMMA LeftoverCardinality ==
  ASSUME IInv, NEW R, Leftover(R)
  PROVE  IsFiniteSet(R) /\ Cardinality(R) \in Nat /\ Cardinality(R) <= MaxRecords
<1>1. IsFiniteSet(records) /\ Cardinality(records) \in Nat /\ Cardinality(records) <= MaxRecords
  BY FiniteAssumption, FS_Subset, FS_CardinalityType DEF IInv, TypeOK
<1>2. QED
  BY <1>1, FS_Subset, FS_CardinalityType, RecordsAssumption DEF Leftover

(* Dropping records disturbs nothing but the table. *)
LEMMA DropStep ==
  ASSUME IInv, NEW R, Leftover(R), records' = R, idem' = KeysOf(R),
         UNCHANGED <<job, queue, gone, clock, workerVars, stopping, shutdownVars>>
  PROVE  IInv'
<1> USE DEF workerVars, shutdownVars
<1>1. TableConsistent'
  BY LeftoverTable
<1>2. TypeOK'
  BY LeftoverCardinality DEF IInv, TypeOK, Leftover, KeysOf, Holding, Executing
<1>3. Ownership' /\ Lifecycle' /\ WalkConsistent' /\ DoneMeansStopped'
  BY DEF IInv, Ownership, Lifecycle, WalkConsistent, DoneMeansStopped, Born, Holding, Executing
<1>4. QED
  BY <1>1, <1>2, <1>3 DEF IInv

LEMMA SubmitAcceptedStep ==
  ASSUME IInv, NEW j \in Jobs, NEW k \in Keys \cup {NoKey}, NEW g \in Grants \cup {NoGrant},
         NEW cutoff, SubmitAccepted(j, k, g, cutoff)
  PROVE  IInv'
<1>1. PICK live \in Reclaimed(Retained(cutoff)) :
         /\ HasRoom(live)
         /\ records' = live \cup {j}
         /\ idem' = [i \in Keys |-> IF i = k THEN j ELSE KeysOf(live)[i]]
  BY DEF SubmitAccepted
<1>2. Leftover(live)
  BY RetainedIsLeftover, ReclaimedIsLeftover
<1>3. /\ job' = [job EXCEPT ![j] = NewRecord(k, g)]
      /\ ~Born(j) /\ job[j] = Unborn
      /\ j \notin records
      /\ queue' = Append(queue, j) /\ Len(queue) < MaxQueue
      /\ UNCHANGED <<gone, clock, wpc, wjob, stopping, spc, sTodo, sJob>>
  BY DEF SubmitAccepted, IInv, TableConsistent, Lifecycle, workerVars, shutdownVars
<1>4. /\ NewRecord(k, g) \in JobRecord
      /\ NewRecord(k, g).state = "queued" /\ NewRecord(k, g).key = k
      /\ NewRecord(k, g).outcome = "none"
      /\ ~NewRecord(k, g).started /\ ~NewRecord(k, g).done /\ ~NewRecord(k, g).revoked
  BY DEF NewRecord, Unborn, JobRecord, State, Outcome
<1>5. queue \in Seq(Jobs)
  BY DEF IInv, TypeOK
<1>6. TypeOK'
  <2>1. Cardinality(records') <= MaxRecords
    <3>1. IsFiniteSet(live) /\ Cardinality(live) \in Nat
      BY <1>2, LeftoverCardinality
    <3>2. Cardinality(live \cup {j}) = Cardinality(live) + 1 \/ Cardinality(live \cup {j}) = Cardinality(live)
      BY <3>1, FS_AddElement
    <3>3. QED
      BY <1>1, <3>1, <3>2, RecordsAssumption DEF HasRoom
  <2>2. job' \in [Jobs -> JobRecord]
    BY <1>3, <1>4 DEF IInv, TypeOK
  <2>3. queue' \in Seq(Jobs) /\ Len(queue') <= MaxQueue
    BY <1>3, <1>5, QueueAssumption
  <2>4. idem' \in [Keys -> Jobs \cup {NoJob}] /\ records' \in SUBSET Jobs
    BY <1>1, <1>2 DEF IInv, TypeOK, KeysOf, Leftover
  <2>5. QED
    BY <1>3, <2>1, <2>2, <2>3, <2>4 DEF IInv, TypeOK, Holding, Executing
<1>7. Ownership'
  <2>1. /\ DOMAIN queue' = DOMAIN queue \cup {Len(queue) + 1}
        /\ Len(queue) + 1 \notin DOMAIN queue
        /\ \A i \in DOMAIN queue : queue'[i] = queue[i] /\ queue[i] # j
        /\ queue'[Len(queue) + 1] = j
    BY <1>3, <1>5 DEF IInv, Ownership
  <2>2. \A w \in Workers : Holding(w) => wjob[w] # j
    BY <1>3 DEF IInv, Ownership
  <2>3. QED
    BY <1>3, <1>4, <2>1, <2>2 DEF IInv, TypeOK, Ownership, Holding, Executing, Born
<1>8. Lifecycle'
  <2>1. /\ job \in [Jobs -> JobRecord] /\ Lifecycle
        /\ \A i \in Jobs : job'[i] = IF i = j THEN NewRecord(k, g) ELSE job[i]
    BY <1>3 DEF IInv, TypeOK
  <2>2. Born(j)'
    BY <1>4, <2>1 DEF Born
  <2>3. \A i \in Jobs \ {j} : job'[i] = job[i] /\ (Born(i)' <=> Born(i))
    BY <2>1 DEF Born
  <2> QED
    BY <1>4, <2>1, <2>2, <2>3 DEF Lifecycle
<1>9. TableConsistent'
  <2>1. k # NoKey => k \in Keys /\ idem[k] \notin live
    <3>1. live \subseteq Retained(cutoff) /\ NoJob \notin live
      BY <1>2, AbsentAssumption DEF Reclaimed, Leftover, IInv, TypeOK
    <3>2. QED
      BY <3>1, AbsentAssumption DEF SubmitAccepted, Known, KeysOf
  <2>2. \A i \in records' : Born(i)' /\ (job'[i].key # NoKey => idem'[job'[i].key] = i)
    <3>1. \A i \in live : i \in Jobs /\ job'[i] = job[i] /\ job[i].key \in Keys \cup {NoKey}
      BY <1>2, <1>3 DEF IInv, TypeOK, Leftover, JobRecord
    <3>2. QED
      BY <1>1, <1>2, <1>3, <1>4, <2>1, <3>1 DEF IInv, TypeOK, TableConsistent, Born, Leftover, KeysOf
  <2>3. \A i \in Jobs : Born(i)' /\ ~job'[i].done => i \in records'
    BY <1>1, <1>2, <1>3 DEF IInv, TypeOK, TableConsistent, Born, Leftover
  <2>4. \A i \in Keys : idem'[i] # NoJob => idem'[i] \in records' /\ job'[idem'[i]].key = i
    BY <1>1, <1>2, <1>3, <1>4 DEF IInv, TypeOK, TableConsistent, Leftover, KeysOf
  <2>5. QED
    BY <2>2, <2>3, <2>4 DEF TableConsistent
<1>10. WalkConsistent' /\ DoneMeansStopped'
  BY <1>3, <1>4 DEF IInv, TypeOK, WalkConsistent, DoneMeansStopped, Ownership, Born, Holding, Executing
<1>11. QED
  BY <1>6, <1>7, <1>8, <1>9, <1>10 DEF IInv

-----------------------------------------------------------------------------
(* Steps that rewrite a record.  Each lemma first reads off the fields of  *)
(* the new record, and then argues from those.                             *)

LEMMA AnnounceStep ==
  ASSUME IInv, NEW j \in Jobs, Announce(j)
  PROVE  IInv'
<1> DEFINE new == [job[j] EXCEPT !.announced = TRUE]
<1>1. /\ job \in [Jobs -> JobRecord]
      /\ job' = [job EXCEPT ![j] = new]
      /\ UNCHANGED <<records, idem, queue, gone, clock, wpc, wjob, stopping, spc, sTodo, sJob>>
      /\ Born(j)
  BY DEF IInv, TypeOK, Announce, tableVars, workerVars, shutdownVars
<1>2. /\ new \in JobRecord
      /\ new.state = job[j].state /\ new.outcome = job[j].outcome /\ new.key = job[j].key
      /\ new.started = job[j].started /\ new.done = job[j].done /\ new.revoked = job[j].revoked
      /\ new.cancelRequested = job[j].cancelRequested
  BY <1>1 DEF JobRecord
<1> HIDE DEF new
<1>3. TypeOK'
  BY <1>1, <1>2 DEF IInv, TypeOK, Holding, Executing
<1>4. Ownership' /\ TableConsistent'
  BY <1>1, <1>2 DEF IInv, TypeOK, Ownership, TableConsistent, Born, Holding, Executing
<1>5. Lifecycle' /\ WalkConsistent' /\ DoneMeansStopped'
  BY <1>1, <1>2 DEF IInv, TypeOK, Lifecycle, WalkConsistent, DoneMeansStopped, Born, Holding, Executing
<1>6. QED
  BY <1>3, <1>4, <1>5 DEF IInv

LEMMA CancelStep ==
  ASSUME IInv, NEW j \in Jobs, Cancel(j)
  PROVE  IInv'
<1> DEFINE new == job'[j]
<1>1. /\ job \in [Jobs -> JobRecord] /\ job[j] \in JobRecord
      /\ UNCHANGED <<records, idem, queue, gone, wpc, wjob, stopping, spc, sTodo, sJob>>
      /\ Born(j) /\ ~job[j].done /\ clock \in Nat
  BY DEF IInv, TypeOK, TableConsistent, Cancel, tableVars, workerVars, shutdownVars
<1>2. /\ job' = [job EXCEPT ![j] = new] /\ clock' \in Nat
      /\ new \in JobRecord
      /\ new.outcome = job[j].outcome /\ new.key = job[j].key
      /\ new.started = job[j].started /\ new.revoked = job[j].revoked
      /\ new.cancelRequested
      /\ \/ new.state = job[j].state /\ new.done = job[j].done /\ job[j].state # "queued"
         \/ new.state = "cancelled" /\ new.done /\ job[j].state = "queued"
  <2>1. CASE job[j].state = "queued"
    <3> DEFINE now == clock + 1
               r == [job[j] EXCEPT !.cancelRequested = TRUE, !.done = TRUE,
                                   !.state = "cancelled", !.finishedAt = now]
    <3>1. job' = [job EXCEPT ![j] = r] /\ clock' = now /\ now \in Nat
      BY <1>1, <2>1 DEF Cancel
    <3> HIDE DEF now
    <3>2. /\ r \in JobRecord /\ r.outcome = job[j].outcome /\ r.key = job[j].key
          /\ r.started = job[j].started /\ r.revoked = job[j].revoked
          /\ r.cancelRequested = TRUE /\ r.state = "cancelled" /\ r.done = TRUE
      BY <1>1, <3>1 DEF JobRecord, State
    <3> HIDE DEF r
    <3>3. QED
      BY <1>1, <2>1, <3>1, <3>2
  <2>2. CASE job[j].state # "queued"
    <3> DEFINE r == [job[j] EXCEPT !.cancelRequested = TRUE]
    <3>1. job' = [job EXCEPT ![j] = r] /\ clock' = clock
      BY <2>2 DEF Cancel
    <3>2. /\ r \in JobRecord /\ r.outcome = job[j].outcome /\ r.key = job[j].key
          /\ r.started = job[j].started /\ r.revoked = job[j].revoked
          /\ r.cancelRequested = TRUE /\ r.state = job[j].state /\ r.done = job[j].done
      BY <1>1 DEF JobRecord
    <3> HIDE DEF r
    <3>3. QED
      BY <1>1, <2>2, <3>1, <3>2
  <2>3. QED
    BY <2>1, <2>2
<1> HIDE DEF new
<1>3. TypeOK'
  BY <1>1, <1>2 DEF IInv, TypeOK, Holding, Executing
<1>4. Ownership' /\ TableConsistent'
  BY <1>1, <1>2 DEF IInv, TypeOK, Ownership, TableConsistent, Born, Holding, Executing
<1>5. Lifecycle' /\ WalkConsistent' /\ DoneMeansStopped'
  BY <1>1, <1>2 DEF IInv, TypeOK, Ownership, Lifecycle, WalkConsistent, DoneMeansStopped, Born, Holding, Executing
<1>6. QED
  BY <1>3, <1>4, <1>5 DEF IInv

LEMMA CancelForGrantStep ==
  ASSUME IInv, NEW g \in Grants, CancelForGrant(g)
  PROVE  IInv'
<1>1. /\ job \in [Jobs -> JobRecord]
      /\ \A j \in Jobs : job'[j] = IF j \in records /\ job[j].grant = g THEN Revoked(job[j]) ELSE job[j]
      /\ job' = [j \in Jobs |-> job'[j]] /\ gone' \in SUBSET Grants
      /\ clock \in Nat /\ clock' \in Nat
      /\ UNCHANGED <<records, idem, queue, wpc, wjob, stopping, spc, sTodo, sJob>>
  BY DEF IInv, TypeOK, CancelForGrant, tableVars, workerVars, shutdownVars
<1>2. ASSUME NEW r \in JobRecord
      PROVE  /\ Revoked(r) \in JobRecord
             /\ Revoked(r).state = "expired" /\ Revoked(r).outcome = "exception"
             /\ Revoked(r).cancelRequested /\ Revoked(r).revoked
             /\ Revoked(r).started = r.started /\ Revoked(r).key = r.key
             /\ Revoked(r).done = IF r.started THEN r.done ELSE TRUE
  <2> DEFINE hidden == [r EXCEPT !.revoked = TRUE, !.cancelRequested = TRUE,
                                 !.state = "expired", !.outcome = "exception"]
  <2>1. /\ hidden \in JobRecord
        /\ hidden.state = "expired" /\ hidden.outcome = "exception"
        /\ hidden.cancelRequested = TRUE /\ hidden.revoked = TRUE
        /\ hidden.started = r.started /\ hidden.key = r.key /\ hidden.done = r.done
    BY <1>2 DEF JobRecord, State, Outcome
  <2> DEFINE now == clock + 1
  <2>2. Revoked(r) = IF r.started THEN hidden ELSE [hidden EXCEPT !.finishedAt = now, !.done = TRUE]
    BY Zenon DEF Revoked
  <2>6. now \in Nat
    BY <1>1
  <2> HIDE DEF hidden, now
  <2>3. CASE r.started
    BY <2>1, <2>2, <2>3
  <2>4. CASE ~r.started
    <3>1. Revoked(r) = [hidden EXCEPT !.finishedAt = now, !.done = TRUE]
      BY <2>2, <2>4
    <3>2. QED
      BY <2>1, <2>6, <2>4, <3>1 DEF JobRecord
  <2>5. QED
    BY <2>3, <2>4
<1>3. \A j \in Jobs :
        /\ job'[j] \in JobRecord
        /\ \/ job'[j] = job[j]
           \/ /\ j \in records
              /\ job'[j].state = "expired" /\ job'[j].outcome = "exception"
              /\ job'[j].cancelRequested /\ job'[j].revoked
              /\ job'[j].started = job[j].started /\ job'[j].key = job[j].key
              /\ job'[j].done = IF job[j].started THEN job[j].done ELSE TRUE
  <2> TAKE j \in Jobs
  <2>1. job[j] \in JobRecord
    BY <1>1
  <2>2. CASE j \in records /\ job[j].grant = g
    <3>1. job'[j] = Revoked(job[j])
      BY <1>1, <2>2
    <3> DEFINE r == Revoked(job[j])
    <3>2. /\ r \in JobRecord
          /\ r.state = "expired" /\ r.outcome = "exception"
          /\ r.cancelRequested /\ r.revoked
          /\ r.started = job[j].started /\ r.key = job[j].key
          /\ r.done = IF job[j].started THEN job[j].done ELSE TRUE
      BY <1>2, <2>1
    <3> HIDE DEF r
    <3>3. QED
      BY <2>2, <3>1, <3>2 DEF r
  <2>3. CASE ~(j \in records /\ job[j].grant = g)
    BY <1>1, <2>1, <2>3
  <2>4. QED
    BY <2>2, <2>3
<1>4. /\ job' \in [Jobs -> JobRecord]
      /\ \A j \in Jobs :
           /\ job'[j].started <=> job[j].started
           /\ job'[j].key = job[j].key
           /\ Born(j)' <=> Born(j)
           /\ job[j].done => job'[j].done
           /\ job'[j].done /\ job[j].started => job[j].done
           /\ job[j].cancelRequested => job'[j].cancelRequested
           /\ job'[j].outcome = "value" => job[j].outcome = "value"
           /\ job'[j].done => job[j].done \/ job'[j].cancelRequested
  <2>1. job' \in [Jobs -> JobRecord]
    BY <1>1, <1>3
  <2>2. ASSUME NEW j \in Jobs
        PROVE  /\ job'[j].started <=> job[j].started
               /\ job'[j].key = job[j].key
               /\ Born(j)' <=> Born(j)
               /\ job[j].done => job'[j].done
               /\ job'[j].done /\ job[j].started => job[j].done
               /\ job[j].cancelRequested => job'[j].cancelRequested
               /\ job'[j].outcome = "value" => job[j].outcome = "value"
               /\ job'[j].done => job[j].done \/ job'[j].cancelRequested
    <3>1. CASE job'[j] = job[j]
      BY <3>1 DEF Born
    <3>2. CASE job'[j] # job[j]
      BY <1>3, <3>2 DEF IInv, TableConsistent, Born
    <3>3. QED
      BY <3>1, <3>2
  <2>3. QED
    BY <2>1, <2>2
<1>5. TypeOK'
  BY <1>1, <1>4 DEF IInv, TypeOK, Holding, Executing
<1>6. Ownership'
  BY <1>1, <1>4 DEF IInv, TypeOK, Ownership, Holding, Executing
<1>7. TableConsistent'
  BY <1>1, <1>4 DEF IInv, TypeOK, TableConsistent
<1>8. Lifecycle'
  <2> SUFFICES ASSUME NEW j \in Jobs
               PROVE  /\ ~Born(j)' => job'[j] = Unborn
                      /\ job'[j].started => job'[j].state # "queued"
                      /\ job'[j].outcome = "value" => job'[j].state = "succeeded" /\ job'[j].started
                      /\ job'[j].revoked /\ ~job'[j].started => job'[j].done
                      /\ job'[j].revoked => job'[j].state = "expired" /\ job'[j].outcome = "exception"
    BY DEF Lifecycle
  <2>1. CASE job'[j] = job[j]
    BY <1>4, <2>1 DEF IInv, Lifecycle
  <2>2. CASE job'[j] # job[j]
    BY <1>3, <2>2 DEF Born
  <2>3. QED
    BY <2>1, <2>2
<1>9. WalkConsistent'
  BY <1>1, <1>4 DEF IInv, TypeOK, WalkConsistent, Holding, Executing
<1>10. DoneMeansStopped'
  BY <1>1, <1>4 DEF IInv, TypeOK, Ownership, DoneMeansStopped, Holding, Executing
<1>11. QED
  BY <1>5, <1>6, <1>7, <1>8, <1>9, <1>10 DEF IInv

-----------------------------------------------------------------------------
(* Steps of a worker. *)

LEMMA DequeueStep ==
  ASSUME IInv, NEW w \in Workers, Dequeue(w)
  PROVE  IInv'
<1>1. /\ queue \in Seq(Jobs) /\ queue # <<>> /\ queue' = Tail(queue)
      /\ wpc[w] = "get"
      /\ wpc' = [wpc EXCEPT ![w] = "held"] /\ wjob' = [wjob EXCEPT ![w] = Head(queue)]
      /\ UNCHANGED <<job, records, idem, gone, clock, stopping, spc, sTodo, sJob>>
  BY DEF IInv, TypeOK, Dequeue, shutdownVars
<1>2. /\ Len(queue) \in Nat \ {0} /\ Len(queue') = Len(queue) - 1
      /\ queue' \in Seq(Jobs) /\ Head(queue) = queue[1] /\ Head(queue) \in Jobs
      /\ DOMAIN queue = 1 .. Len(queue) /\ DOMAIN queue' = 1 .. Len(queue')
      /\ \A i \in DOMAIN queue' : i + 1 \in DOMAIN queue /\ queue'[i] = queue[i + 1] /\ i + 1 # 1
  BY <1>1
<1>3. TypeOK'
  BY <1>1, <1>2, QueueAssumption DEF IInv, TypeOK, Holding, Executing
<1>4. Ownership'
  <2>1. \A i \in DOMAIN queue' : Born(queue[i])' /\ ~job'[queue'[i]].started
    BY <1>1, <1>2 DEF IInv, Ownership, Born
  <2>0. ASSUME NEW i \in DOMAIN queue', NEW k \in DOMAIN queue', queue'[i] = queue'[k]
        PROVE  i = k
    <3>1. i + 1 = k + 1
      BY <1>2, <2>0 DEF IInv, Ownership
    <3>2. QED
      BY <1>2, <3>1
  <2>2. ~Holding(w) /\ (\A v \in Workers : Holding(v) => wjob[v] # Head(queue))
    BY <1>1, <1>2 DEF IInv, Ownership, Holding, Executing
  <2>3. \A v \in Workers : v # w => (Holding(v)' <=> Holding(v)) /\ (Executing(v)' <=> Executing(v)) /\ wjob'[v] = wjob[v]
    BY <1>1 DEF IInv, TypeOK, Holding, Executing
  <2>4. Holding(w)' /\ ~Executing(w)' /\ wjob'[w] = Head(queue)
    BY <1>1 DEF IInv, TypeOK, Holding, Executing
  <2>5. \A i \in DOMAIN queue' : queue'[i] # Head(queue)
    BY <1>1, <1>2 DEF IInv, Ownership
  <2>6. ASSUME NEW v \in Workers, Holding(v)'
        PROVE  /\ Born(wjob[v])'
               /\ job'[wjob'[v]].started <=> Executing(v)'
               /\ \A i \in DOMAIN queue' : queue'[i] # wjob'[v]
               /\ \A u \in Workers : Holding(u)' /\ wjob'[u] = wjob'[v] => u = v
    <3>1. CASE v = w
      BY <1>1, <1>2, <2>2, <2>3, <2>4, <2>5, <2>6, <3>1 DEF IInv, Ownership, Born
    <3>2. CASE v # w
      BY <1>1, <1>2, <2>2, <2>3, <2>4, <2>6, <3>2 DEF IInv, Ownership, Born
    <3>3. QED
      BY <3>1, <3>2
  <2>7. QED
    BY <2>0, <2>1, <2>6 DEF Ownership
<1>5. Lifecycle' /\ TableConsistent'
  BY <1>1 DEF IInv, Lifecycle, TableConsistent, Born
<1>6. WalkConsistent' /\ DoneMeansStopped'
  BY <1>1 DEF IInv, TypeOK, WalkConsistent, DoneMeansStopped, Born, Executing
<1>7. QED
  BY <1>3, <1>4, <1>5, <1>6 DEF IInv

(* A worker at the top of its loop, at an empty queue, or with a record    *)
(* that is done already.                                                   *)
LEMMA IdleStep ==
  ASSUME IInv, NEW w \in Workers, TestStopping(w) \/ GetTimesOut(w) \/ Skip(w)
  PROVE  IInv'
<1>1. /\ \E pc \in {"test", "get", "exited"} : wpc' = [wpc EXCEPT ![w] = pc]
      /\ \E j \in Jobs \cup {NoJob} : wjob' = [wjob EXCEPT ![w] = j]
      /\ UNCHANGED <<job, records, idem, queue, gone, clock, stopping, spc, sTodo, sJob>>
  BY DEF IInv, TypeOK, TestStopping, GetTimesOut, Skip, NextRound, tableVars, shutdownVars
<1>2. ~Holding(w)' /\ ~Executing(w)'
  BY <1>1 DEF IInv, TypeOK, Holding, Executing
<1>3. \A v \in Workers : v # w => (Holding(v)' <=> Holding(v)) /\ (Executing(v)' <=> Executing(v))
                                  /\ wjob'[v] = wjob[v] /\ wpc'[v] = wpc[v]
  BY <1>1 DEF IInv, TypeOK, Holding, Executing
<1>4. wpc'[w] # "running"
  BY <1>1 DEF IInv, TypeOK
<1>5. TypeOK'
  BY <1>1, <1>2, <1>3 DEF IInv, TypeOK
<1>6. Ownership' /\ Lifecycle' /\ TableConsistent'
  BY <1>1, <1>2, <1>3 DEF IInv, Ownership, Lifecycle, TableConsistent, Born
<1>7. WalkConsistent' /\ DoneMeansStopped'
  BY <1>1, <1>2, <1>3, <1>4 DEF IInv, WalkConsistent, DoneMeansStopped, Born
<1>8. QED
  BY <1>5, <1>6, <1>7 DEF IInv

(* Begin, Commit and Stamp rewrite the record in the worker's hands and    *)
(* leave the worker executing it.                                          *)
LEMMA ExecutionStep ==
  ASSUME IInv, NEW w \in Workers, Holding(w), NEW new \in JobRecord,
         NEW pc \in {"running", "committed", "stamped"},
         job' = [job EXCEPT ![wjob[w]] = new], wpc' = [wpc EXCEPT ![w] = pc], clock' \in Nat,
         UNCHANGED <<records, idem, queue, gone, wjob, stopping, spc, sTodo, sJob>>,
         new.started, new.state \notin {"unborn", "queued"}, new.key = job[wjob[w]].key,
         new.done <=> job[wjob[w]].done, new.cancelRequested <=> job[wjob[w]].cancelRequested,
         new.outcome = "value" =>
           new.state = "succeeded" /\ pc # "running"
           /\ (new.cancelRequested => job[wjob[w]].outcome = "value"),
         new.revoked => new.state = "expired" /\ new.outcome = "exception",
         pc = "running" => ~new.done,
         wpc[w] = "held" => ~new.done
  PROVE  IInv'
<1> DEFINE j == wjob[w]
<1>1. j \in Jobs /\ Born(j)
  BY DEF IInv, TypeOK, Ownership
<1>2. Holding(w)' /\ Executing(w)' /\ wpc'[w] = pc
  BY DEF IInv, TypeOK, Holding, Executing
<1>3. \A v \in Workers : v # w => (Holding(v)' <=> Holding(v)) /\ (Executing(v)' <=> Executing(v))
                                  /\ wpc'[v] = wpc[v] /\ (Holding(v) => wjob[v] # j)
  BY DEF IInv, TypeOK, Ownership, Holding, Executing
<1>4. \A i \in DOMAIN queue : queue[i] # j
  BY DEF IInv, Ownership
<1>5. job'[j] = new /\ Born(j)' /\ (\A i \in Jobs : i # j => job'[i] = job[i])
  BY <1>1 DEF IInv, TypeOK, Born
<1> HIDE DEF j
<1>6. TypeOK'
  BY <1>1, <1>2, <1>3 DEF IInv, TypeOK, j
<1>7. Ownership'
  <2>1. queue \in Seq(Jobs) /\ \A i \in DOMAIN queue : queue[i] \in Jobs
    BY DEF IInv, TypeOK
  <2>2. \A v \in Workers : Holding(v)' => wjob[v] \in Jobs
    BY <1>6 DEF TypeOK
  <2>3. QED
    BY <1>2, <1>3, <1>4, <1>5, <2>1, <2>2 DEF IInv, Ownership, Born, j
<1>8. Lifecycle' /\ TableConsistent'
  BY <1>1, <1>5 DEF IInv, TypeOK, Lifecycle, TableConsistent, Born, j
<1>9. WalkConsistent'
  BY <1>1, <1>2, <1>3, <1>5 DEF IInv, TypeOK, WalkConsistent, Born, Holding, Executing, j
<1>10. DoneMeansStopped'
  BY <1>1, <1>2, <1>3, <1>5 DEF IInv, TypeOK, DoneMeansStopped, Holding, Executing, j
<1>11. QED
  BY <1>6, <1>7, <1>8, <1>9, <1>10 DEF IInv

LEMMA BeginStep ==
  ASSUME IInv, NEW w \in Workers, Begin(w)
  PROVE  IInv'
<1> DEFINE r == job[wjob[w]]
           new == [r EXCEPT !.state = "running", !.started = TRUE]
<1>1. /\ r \in JobRecord /\ ~r.done /\ ~r.started /\ clock \in Nat /\ wpc[w] = "held" /\ Holding(w)
      /\ job' = [job EXCEPT ![wjob[w]] = new] /\ wpc' = [wpc EXCEPT ![w] = "running"]
      /\ UNCHANGED <<records, idem, queue, gone, clock, wjob, stopping, spc, sTodo, sJob>>
  BY DEF IInv, TypeOK, Ownership, Begin, Holding, Executing, tableVars, shutdownVars
<1>2. r.outcome # "value" /\ ~r.revoked
  BY <1>1 DEF IInv, TypeOK, Lifecycle
<1> HIDE DEF r
<1>3. /\ new \in JobRecord /\ new.started = TRUE /\ new.state = "running"
      /\ new.key = r.key /\ new.done = r.done /\ new.cancelRequested = r.cancelRequested
      /\ new.outcome = r.outcome /\ new.revoked = r.revoked
  BY <1>1 DEF JobRecord, State
<1> HIDE DEF new
<1>4. QED
  BY <1>1, <1>2, <1>3, ExecutionStep DEF r

LEMMA VerdictFields ==
  ASSUME NEW r \in JobRecord, NEW how \in {"returns", "raises", "cancels"},
         how = "cancels" => r.cancelRequested
  PROVE  /\ Verdict(r, how) \in JobRecord
         /\ Verdict(r, how).started = r.started /\ Verdict(r, how).key = r.key
         /\ Verdict(r, how).done = r.done /\ Verdict(r, how).revoked = r.revoked
         /\ Verdict(r, how).cancelRequested = r.cancelRequested
         /\ Verdict(r, how).state \in {"succeeded", "failed", "cancelled", "expired"}
         /\ Verdict(r, how).outcome = "value" =>
              Verdict(r, how).state = "succeeded" /\ ~r.cancelRequested
         /\ Verdict(r, how).outcome # "none"
         /\ Verdict(r, how).outcome = "error" => r.cancelRequested
         /\ r.revoked => Verdict(r, how).state = "expired" /\ Verdict(r, how).outcome = "exception"
<1> DEFINE v(s, o) == [r EXCEPT !.state = s, !.outcome = o]
<1>1. \E s \in {"succeeded", "failed", "cancelled", "expired"}, o \in {"value", "exception", "error"} :
        /\ Verdict(r, how) = v(s, o)
        /\ o = "value" => s = "succeeded" /\ ~r.cancelRequested
        /\ o = "error" => r.cancelRequested
        /\ r.revoked => s = "expired" /\ o = "exception"
  <2>1. CASE r.revoked
    BY <2>1 DEF Verdict
  <2>2. CASE ~r.revoked /\ how = "returns" /\ r.cancelRequested
    BY <2>2 DEF Verdict
  <2>3. CASE ~r.revoked /\ how = "returns" /\ ~r.cancelRequested
    BY <2>3 DEF Verdict
  <2>4. CASE ~r.revoked /\ how = "raises"
    BY <2>4 DEF Verdict
  <2>5. CASE ~r.revoked /\ how = "cancels"
    BY <2>5 DEF Verdict
  <2>6. QED
    BY <2>1, <2>2, <2>3, <2>4, <2>5
<1>2. ASSUME NEW s \in {"succeeded", "failed", "cancelled", "expired"},
             NEW o \in {"value", "exception", "error"}
      PROVE  /\ v(s, o) \in JobRecord /\ v(s, o).state = s /\ v(s, o).outcome = o
             /\ v(s, o).started = r.started /\ v(s, o).key = r.key /\ v(s, o).done = r.done
             /\ v(s, o).revoked = r.revoked /\ v(s, o).cancelRequested = r.cancelRequested
  BY DEF JobRecord, State, Outcome
<1> HIDE DEF v
<1>3. QED
  BY <1>1, <1>2

LEMMA CommitStep ==
  ASSUME IInv, NEW w \in Workers, NEW how \in {"returns", "raises", "cancels"}, Commit(w, how)
  PROVE  IInv'
<1> DEFINE r == job[wjob[w]]
           new == Verdict(r, how)
<1>1. /\ r \in JobRecord /\ r.started /\ clock \in Nat /\ wpc[w] = "running" /\ Holding(w)
      /\ job' = [job EXCEPT ![wjob[w]] = new] /\ wpc' = [wpc EXCEPT ![w] = "committed"]
      /\ how = "cancels" => r.cancelRequested
      /\ UNCHANGED <<records, idem, queue, gone, clock, wjob, stopping, spc, sTodo, sJob>>
  BY DEF IInv, TypeOK, Ownership, Commit, Holding, Executing, tableVars, shutdownVars
<1> HIDE DEF r
<1>2. /\ new \in JobRecord /\ new.started = r.started /\ new.key = r.key /\ new.done = r.done
      /\ new.revoked = r.revoked /\ new.cancelRequested = r.cancelRequested
      /\ new.state \notin {"unborn", "queued"}
      /\ new.outcome = "value" => new.state = "succeeded" /\ ~r.cancelRequested
      /\ r.revoked => new.state = "expired" /\ new.outcome = "exception"
  BY <1>1, VerdictFields
<1> HIDE DEF new
<1>3. QED
  BY <1>1, <1>2, ExecutionStep DEF r

LEMMA StampStep ==
  ASSUME IInv, NEW w \in Workers, Stamp(w)
  PROVE  IInv'
<1> DEFINE r == job[wjob[w]]
           now == clock + 1
           new == [r EXCEPT !.finishedAt = now]
<1>1. /\ r \in JobRecord /\ r.started /\ now \in Nat /\ wpc[w] = "committed" /\ Holding(w)
      /\ job' = [job EXCEPT ![wjob[w]] = new] /\ clock' = now /\ wpc' = [wpc EXCEPT ![w] = "stamped"]
      /\ UNCHANGED <<records, idem, queue, gone, wjob, stopping, spc, sTodo, sJob>>
  BY DEF IInv, TypeOK, Ownership, Stamp, Holding, Executing, tableVars, shutdownVars
<1>2. /\ r.state \notin {"unborn", "queued"}
      /\ r.outcome = "value" => r.state = "succeeded"
      /\ r.revoked => r.state = "expired" /\ r.outcome = "exception"
  BY <1>1 DEF IInv, TypeOK, Ownership, Lifecycle, Born
<1> HIDE DEF r, now
<1>3. /\ new \in JobRecord /\ new.started = r.started /\ new.key = r.key /\ new.done = r.done
      /\ new.revoked = r.revoked /\ new.cancelRequested = r.cancelRequested
      /\ new.state = r.state /\ new.outcome = r.outcome
  BY <1>1 DEF JobRecord
<1> HIDE DEF new
<1>4. QED
  BY <1>1, <1>2, <1>3, ExecutionStep DEF r

LEMMA SignalStep ==
  ASSUME IInv, NEW w \in Workers, Signal(w)
  PROVE  IInv'
<1> DEFINE j == wjob[w]
           new == [job[j] EXCEPT !.done = TRUE]
<1>1. /\ j \in Jobs /\ job[j] \in JobRecord /\ Born(j) /\ Holding(w)
      /\ job' = [job EXCEPT ![j] = new] /\ wpc[w] = "stamped"
      /\ \E pc \in {"test", "get", "exited"} : wpc' = [wpc EXCEPT ![w] = pc]
      /\ wjob' = [wjob EXCEPT ![w] = NoJob]
      /\ UNCHANGED <<records, idem, queue, gone, clock, stopping, spc, sTodo, sJob>>
  BY DEF IInv, TypeOK, Ownership, Signal, NextRound, Holding, Executing, tableVars, shutdownVars
<1>2. ~Holding(w)' /\ ~Executing(w)' /\ wpc'[w] # "running"
  BY <1>1 DEF IInv, TypeOK, Holding, Executing
<1>3. \A v \in Workers : v # w => (Holding(v)' <=> Holding(v)) /\ (Executing(v)' <=> Executing(v))
                                  /\ wjob'[v] = wjob[v] /\ wpc'[v] = wpc[v] /\ (Holding(v) => wjob[v] # j)
  BY <1>1 DEF IInv, TypeOK, Ownership, Holding, Executing
<1> HIDE DEF j
<1>4. /\ new \in JobRecord /\ new.state = job[j].state /\ new.outcome = job[j].outcome
      /\ new.key = job[j].key /\ new.started = job[j].started /\ new.revoked = job[j].revoked
      /\ new.cancelRequested = job[j].cancelRequested /\ new.done = TRUE
  BY <1>1 DEF JobRecord
<1> HIDE DEF new
<1>5. job'[j] = new /\ new.state # "unborn" /\ (\A i \in Jobs : i # j => job'[i] = job[i])
  BY <1>1, <1>4 DEF IInv, TypeOK, Born
<1>6. TypeOK'
  BY <1>1, <1>2, <1>3, <1>4 DEF IInv, TypeOK
<1>7. Ownership'
  BY <1>1, <1>2, <1>3, <1>4, <1>5 DEF IInv, TypeOK, Ownership, Born, Holding, Executing
<1>8. Lifecycle' /\ TableConsistent'
  BY <1>1, <1>4, <1>5 DEF IInv, TypeOK, Lifecycle, TableConsistent, Born
<1>9. WalkConsistent'
  BY <1>1, <1>2, <1>3, <1>4, <1>5 DEF IInv, TypeOK, WalkConsistent, Born, Holding, Executing
<1>10. DoneMeansStopped'
  BY <1>1, <1>2, <1>3, <1>5 DEF IInv, TypeOK, DoneMeansStopped, Holding, Executing
<1>11. QED
  BY <1>6, <1>7, <1>8, <1>9, <1>10 DEF IInv

-----------------------------------------------------------------------------
(* Steps of shutdown(). *)

(* The steps that only move the walk on. *)
LEMMA WalkStep ==
  ASSUME IInv, BeginShutdown \/ Snapshot \/ SdTest \/ SdEnd
  PROVE  IInv'
<1>1. UNCHANGED <<job, records, idem, queue, gone, clock, wpc, wjob, sJob>>
  BY DEF BeginShutdown, Snapshot, SdTest, SdEnd, tableVars, workerVars
<1>2. TypeOK'
  BY <1>1 DEF IInv, TypeOK, Holding, Executing, BeginShutdown, Snapshot, SdTest, SdEnd
<1>3. Ownership' /\ Lifecycle' /\ TableConsistent'
  BY <1>1 DEF IInv, Ownership, Lifecycle, TableConsistent, Born, Holding, Executing
<1>4. WalkConsistent'
  BY <1>1 DEF IInv, TypeOK, WalkConsistent, Lifecycle, TableConsistent, Born, Executing,
              BeginShutdown, Snapshot, SdTest, SdEnd
<1>5. DoneMeansStopped'
  BY <1>1 DEF IInv, DoneMeansStopped, Executing, BeginShutdown, Snapshot, SdTest, SdEnd
<1>6. QED
  BY <1>2, <1>3, <1>4, <1>5 DEF IInv

(* The steps that rewrite the record in the walk's hand. *)
LEMMA WalkRewriteStep ==
  ASSUME IInv, NEW j \in Jobs, Born(j), stopping, NEW new \in JobRecord,
         job' = [job EXCEPT ![j] = new], clock' \in Nat,
         spc' \in {"loop", "test", "signal"}, sTodo' \subseteq sTodo,
         sJob' \in Jobs \cup {NoJob}, spc' \in {"test", "signal"} => sJob' = j,
         UNCHANGED <<records, idem, queue, gone, wpc, wjob, stopping>>,
         new.started <=> job[j].started, new.key = job[j].key,
         new.cancelRequested, job[j].done => new.done, new.revoked <=> job[j].revoked,
         new.state = job[j].state \/ (new.state = "expired" /\ job[j].outcome # "value"),
         new.outcome = job[j].outcome \/ (new.outcome = "error" /\ job[j].outcome # "exception" /\ job[j].outcome # "value")
  PROVE  IInv'
<1>1. job'[j] = new /\ new.state # "unborn" /\ (\A i \in Jobs : i # j => job'[i] = job[i])
  BY DEF IInv, TypeOK, Born
<1>2. TypeOK'
  BY DEF IInv, TypeOK, Holding, Executing
<1>3. Ownership'
  BY <1>1 DEF IInv, TypeOK, Ownership, Born, Holding, Executing
<1>4. Lifecycle'
  BY <1>1 DEF IInv, TypeOK, Lifecycle, Born
<1>5. TableConsistent'
  BY <1>1 DEF IInv, TypeOK, TableConsistent, Born
<1>6. WalkConsistent'
  BY <1>1 DEF IInv, TypeOK, WalkConsistent, Born, Holding, Executing
<1>7. DoneMeansStopped'
  BY DEF DoneMeansStopped
<1>8. QED
  BY <1>2, <1>3, <1>4, <1>5, <1>6, <1>7 DEF IInv

LEMMA SdPickStep ==
  ASSUME IInv, NEW j \in Jobs, SdPick(j)
  PROVE  IInv'
<1>1. /\ job \in [Jobs -> JobRecord] /\ spc = "loop" /\ Born(j) /\ stopping /\ clock \in Nat
      /\ sTodo' = sTodo \ {j}
      /\ UNCHANGED <<records, idem, queue, gone, clock, wpc, wjob, stopping>>
  BY DEF IInv, TypeOK, WalkConsistent, SdPick, tableVars, workerVars
<1>2. CASE job[j].done
  <2>1. UNCHANGED <<job, spc, sJob>>
    BY <1>2 DEF SdPick
  <2>2. TypeOK' /\ WalkConsistent'
    BY <1>1, <2>1 DEF IInv, TypeOK, WalkConsistent, Born, Holding, Executing
  <2>3. Ownership' /\ Lifecycle' /\ TableConsistent' /\ DoneMeansStopped'
    BY <1>1, <2>1 DEF IInv, Ownership, Lifecycle, TableConsistent, DoneMeansStopped, Born, Holding, Executing
  <2>4. QED
    BY <2>2, <2>3 DEF IInv
<1>3. CASE ~job[j].done
  <2> DEFINE new == [job[j] EXCEPT !.cancelRequested = TRUE]
  <2>1. /\ job' = [job EXCEPT ![j] = new] /\ spc' = "test" /\ sJob' = j
        /\ job[j] \in JobRecord
    BY <1>1, <1>3 DEF SdPick
  <2>2. /\ new \in JobRecord /\ new.state = job[j].state /\ new.outcome = job[j].outcome
        /\ new.key = job[j].key /\ new.started = job[j].started /\ new.revoked = job[j].revoked
        /\ new.done = job[j].done /\ new.cancelRequested = TRUE
    BY <2>1 DEF JobRecord
  <2> HIDE DEF new
  <2>3. QED
    BY <1>1, <2>1, <2>2, WalkRewriteStep
<1>4. QED
  BY <1>2, <1>3

LEMMA SdExpireStep ==
  ASSUME IInv, SdExpire
  PROVE  IInv'
<1> DEFINE r == job[sJob]
           now == clock + 1
           o == IF r.outcome = "exception" THEN "exception" ELSE "error"
           new == [r EXCEPT !.state = "expired", !.finishedAt = now, !.outcome = o]
<1>1. /\ r \in JobRecord /\ sJob \in Jobs /\ now \in Nat /\ stopping /\ Born(sJob)
      /\ r.cancelRequested /\ r.outcome # "value"
      /\ clock' = now /\ spc' = "signal"
      /\ UNCHANGED <<records, idem, queue, gone, wpc, wjob, stopping, sTodo, sJob>>
  BY DEF IInv, TypeOK, WalkConsistent, SdExpire, tableVars, workerVars
<1>2. job' = [job EXCEPT ![sJob] = new]
  BY DEF SdExpire
<1>3. o \in Outcome /\ (r.outcome # "exception" => o = "error") /\ (r.outcome = "exception" => o = "exception")
  BY DEF Outcome
<1> HIDE DEF r, now, o
<1>4. /\ new \in JobRecord /\ new.state = "expired" /\ new.outcome = o
      /\ new.key = r.key /\ new.started = r.started /\ new.revoked = r.revoked
      /\ new.done = r.done /\ new.cancelRequested = r.cancelRequested
  BY <1>1, <1>3 DEF JobRecord, State
<1> HIDE DEF new
<1>5. QED
  BY <1>1, <1>2, <1>3, <1>4, WalkRewriteStep DEF r

LEMMA SdSignalStep ==
  ASSUME IInv, SdSignal
  PROVE  IInv'
<1> DEFINE r == job[sJob]
           new == [r EXCEPT !.done = TRUE]
<1>1. /\ r \in JobRecord /\ sJob \in Jobs /\ clock \in Nat /\ stopping /\ Born(sJob)
      /\ r.cancelRequested /\ spc' = "loop"
      /\ job' = [job EXCEPT ![sJob] = new]
      /\ UNCHANGED <<records, idem, queue, gone, clock, wpc, wjob, stopping, sTodo, sJob>>
  BY DEF IInv, TypeOK, WalkConsistent, SdSignal, tableVars, workerVars
<1> HIDE DEF r
<1>2. /\ new \in JobRecord /\ new.state = r.state /\ new.outcome = r.outcome
      /\ new.key = r.key /\ new.started = r.started /\ new.revoked = r.revoked
      /\ new.done = TRUE /\ new.cancelRequested = r.cancelRequested
  BY <1>1 DEF JobRecord
<1> HIDE DEF new
<1>3. QED
  BY <1>1, <1>2, WalkRewriteStep DEF r

-----------------------------------------------------------------------------
LEMMA InitIInv == Init => IInv
<1> SUFFICES ASSUME Init PROVE IInv
  OBVIOUS
<1> USE DEF Init
<1>1. Unborn \in JobRecord
  BY DEF Unborn, JobRecord, State, Outcome
<1>2. Unborn.state = "unborn" /\ Unborn.outcome = "none" /\ ~Unborn.started /\ ~Unborn.revoked
  BY DEF Unborn
<1>3. TypeOK
  <2>1. Cardinality(records) <= MaxRecords
    BY FS_EmptySet, RecordsAssumption
  <2>2. queue \in Seq(Jobs) /\ Len(queue) <= MaxQueue
    BY QueueAssumption
  <2>3. QED
    BY <1>1, <2>1, <2>2 DEF TypeOK, Holding, Executing
<1>4. Ownership /\ Lifecycle /\ TableConsistent /\ WalkConsistent /\ DoneMeansStopped
  BY <1>2 DEF Ownership, Lifecycle, TableConsistent, WalkConsistent, DoneMeansStopped, Born, Holding, Executing
<1>5. QED
  BY <1>3, <1>4 DEF IInv

LEMMA CallerStep == IInv /\ Caller => IInv'
<1> SUFFICES ASSUME IInv, Caller PROVE IInv'
  OBVIOUS
<1>1. ASSUME NEW cutoff \in 0 .. clock, Query(cutoff) PROVE IInv'
  BY <1>1, RetainedIsLeftover, DropStep DEF Query
<1>2. ASSUME NEW k \in Keys \cup {NoKey}, NEW cutoff \in 0 .. clock,
             SubmitReused(k, cutoff) \/ SubmitTableFull(k, cutoff) \/ SubmitQueueFull(k, cutoff)
      PROVE  IInv'
  <2>1. CASE SubmitReused(k, cutoff)
    BY <2>1, RetainedIsLeftover, DropStep DEF SubmitReused
  <2>2. CASE SubmitTableFull(k, cutoff) \/ SubmitQueueFull(k, cutoff)
    BY <2>2, RetainedIsLeftover, ReclaimedIsLeftover, DropStep DEF SubmitTableFull, SubmitQueueFull
  <2>3. QED
    BY <1>2, <2>1, <2>2
<1>3. QED
  BY <1>1, <1>2, SubmitAcceptedStep, AnnounceStep, CancelStep, CancelForGrantStep DEF Caller

LEMMA NextStep == IInv /\ [Next]_vars => IInv'
<1> SUFFICES ASSUME IInv, [Next]_vars PROVE IInv'
  OBVIOUS
<1>1. CASE Caller
  BY <1>1, CallerStep
<1>2. ASSUME NEW w \in Workers, Worker(w) PROVE IInv'
  BY <1>2, DequeueStep, IdleStep, BeginStep, CommitStep, StampStep, SignalStep DEF Worker
<1>3. CASE BeginShutdown \/ Shutdown
  BY <1>3, WalkStep, SdPickStep, SdExpireStep, SdSignalStep DEF Shutdown
<1>4. CASE UNCHANGED vars
  <2>1. UNCHANGED <<job, records, idem, queue, gone, clock, wpc, wjob, stopping, spc, sTodo, sJob>>
    BY <1>4 DEF vars, tableVars, workerVars, shutdownVars
  <2>2. TypeOK' /\ Ownership' /\ Lifecycle'
    BY <2>1 DEF IInv, TypeOK, Ownership, Lifecycle, Born, Holding, Executing
  <2>3. TableConsistent' /\ WalkConsistent' /\ DoneMeansStopped'
    BY <2>1 DEF IInv, TableConsistent, WalkConsistent, DoneMeansStopped, Born, Holding, Executing
  <2>4. QED
    BY <2>2, <2>3 DEF IInv
<1>5. QED
  BY <1>1, <1>2, <1>3, <1>4 DEF Next

(* The inductive invariant holds in every reachable state of the queue. *)
THEOREM Invariance == Spec => []IInv
<1>1. QED
  BY InitIInv, NextStep, PTL DEF Spec

(* Types and bounds: for any capacity the queue and the table never exceed *)
(* max_queue and max_records, whatever is submitted, evicted or rolled back.*)
THEOREM TypeCorrect == Spec => []TypeOK
<1>1. IInv => TypeOK
  BY DEF IInv
<1>2. QED
  BY <1>1, Invariance, PTL

(* A retried submission finds the first job as long as it is unfinished:   *)
(* at most one unfinished job per idempotency key.                         *)
THEOREM KeyedOnce == Spec => []OneJobPerKey
<1>1. IInv => OneJobPerKey
  BY DEF IInv, TypeOK, TableConsistent, OneJobPerKey, Born
<1>2. QED
  BY <1>1, Invariance, PTL

(* A result is never readable again once its grant has been revoked. *)
THEOREM RevocationIsFinal == Spec => []RevokedStaysHidden
<1>1. IInv => RevokedStaysHidden
  BY DEF IInv, Lifecycle, RevokedStaysHidden
<1>2. QED
  BY <1>1, Invariance, PTL

(* No record is executed by two workers or twice. *)
THEOREM ExecutedOnce == Spec => []RunsOnce
<1>1. IInv => RunsOnce
  BY DEF IInv, Ownership, RunsOnce, Holding, Executing
<1>2. QED
  BY <1>1, Invariance, PTL

(* As long as shutdown has not begun, "done" means the runner has ended. *)
THEOREM DoneIsHonest == Spec => []DoneMeansStopped
<1>1. IInv => DoneMeansStopped
  BY DEF IInv
<1>2. QED
  BY <1>1, Invariance, PTL
-----------------------------------------------------------------------------
(* No job is lost.  An unfinished job is queued or held; only a started    *)
(* one has left the state "queued", but for the instant in which shutdown  *)
(* has expired it and not yet signalled; and from the snapshot on, one     *)
(* that the walk has passed has been started.                              *)

Held(j) == \E w \in Workers : Holding(w) /\ wjob[w] = j
InHand(j) == spc \in {"test", "expire", "signal"} /\ sJob = j
Outstanding(j) == Born(j) /\ ~job[j].done

Accounted(j) ==
  /\ Queued(j) \/ Held(j)
  /\ job[j].state = "queued" \/ job[j].started \/ (spc = "signal" /\ sJob = j)
  /\ spc \in {"off", "snapshot"} \/ (j \in sTodo /\ spc # "over") \/ job[j].started \/ InHand(j)

AllAccounted == \A j \in Jobs : Outstanding(j) => Accounted(j)

(* A started job that is not finished has its worker. *)
LEMMA StartedIsExecuted ==
  ASSUME IInv, NEW j \in Jobs, Queued(j) \/ Held(j), job[j].started
  PROVE  \E w \in Workers : Executing(w) /\ wjob[w] = j
BY DEF IInv, Ownership, Queued, Held

(* The steps outside the queue and the walk: they may finish jobs, or start *)
(* them, and a worker lets go of none but a finished one.                  *)
LEMMA QuietStep ==
  ASSUME AllAccounted, UNCHANGED <<queue, spc, sTodo, sJob>>,
         \A j \in Jobs : Outstanding(j)' =>
           /\ Outstanding(j)
           /\ job'[j].started \/ job'[j].state = job[j].state
           /\ job[j].started => job'[j].started,
         \A w \in Workers, j \in Jobs :
           Holding(w) /\ wjob[w] = j /\ Outstanding(j)' => Holding(w)' /\ wjob'[w] = j
  PROVE  AllAccounted'
<1> SUFFICES ASSUME NEW j \in Jobs, Outstanding(j)' PROVE Accounted(j)'
  BY DEF AllAccounted
<1>1. Accounted(j)
  BY DEF AllAccounted
<1>2. Queued(j)' \/ Held(j)'
  BY <1>1 DEF Accounted, Queued, Held
<1>3. QED
  BY <1>1, <1>2 DEF Accounted, InHand

(* The steps of callers and workers that rewrite one record. *)
LEMMA RecordStep ==
  ASSUME IInv, AllAccounted, NEW j \in Jobs, Outstanding(j), NEW new,
         job' = [job EXCEPT ![j] = new], UNCHANGED <<queue, spc, sTodo, sJob>>,
         new.done \/ ((new.started \/ new.state = job[j].state) /\ (job[j].started => new.started)),
         \A w \in Workers : Holding(w) => wjob[w] = j \/ (Holding(w)' /\ wjob'[w] = wjob[w]),
         new.done \/ \A w \in Workers : Holding(w) => Holding(w)' /\ wjob'[w] = wjob[w]
  PROVE  AllAccounted'
<1>1. /\ job'[j] = new /\ \A i \in Jobs : i # j => job'[i] = job[i]
      /\ \A w \in Workers : Holding(w) => wjob[w] \in Jobs
  BY DEF IInv, TypeOK
<1>2. \A i \in Jobs : Outstanding(i)' =>
        /\ Outstanding(i)
        /\ job'[i].started \/ job'[i].state = job[i].state
        /\ job[i].started => job'[i].started
  BY <1>1 DEF Outstanding, Born
<1>3. \A w \in Workers, i \in Jobs :
        Holding(w) /\ wjob[w] = i /\ Outstanding(i)' => Holding(w)' /\ wjob'[w] = i
  BY <1>1 DEF Outstanding
<1>4. QED
  BY <1>2, <1>3, QuietStep

LEMMA CallerAccounts ==
  ASSUME IInv, AllAccounted, Caller
  PROVE  AllAccounted'
<1> USE DEF workerVars, shutdownVars, tableVars
<1>1. ASSUME UNCHANGED <<job, queue, workerVars, shutdownVars>> PROVE AllAccounted'
  BY <1>1, QuietStep DEF Outstanding, Born, Holding, Executing
<1>2. ASSUME NEW j \in Jobs, NEW k \in Keys \cup {NoKey}, NEW g \in Grants \cup {NoGrant},
             NEW cutoff, SubmitAccepted(j, k, g, cutoff)
      PROVE  AllAccounted'
  <2>1. /\ job' = [job EXCEPT ![j] = NewRecord(k, g)] /\ job \in [Jobs -> JobRecord]
        /\ queue' = Append(queue, j) /\ queue \in Seq(Jobs) /\ ~stopping
        /\ UNCHANGED <<wpc, wjob, spc, sTodo, sJob>> /\ ~Born(j)
    BY <1>2 DEF SubmitAccepted, IInv, TypeOK
  <2>2. spc = "off"
    BY <2>1 DEF IInv, WalkConsistent
  <2>3. Queued(j)' /\ \A i \in Jobs : Queued(i) => Queued(i)'
    <3>1. /\ Len(queue) + 1 \in DOMAIN queue' /\ queue'[Len(queue) + 1] = j
          /\ \A i \in DOMAIN queue : i \in DOMAIN queue' /\ queue'[i] = queue[i]
      BY <2>1
    <3>2. QED
      BY <3>1 DEF Queued
  <2>4. \A i \in Jobs : Held(i) => Held(i)'
    BY <2>1 DEF Held, Holding, Executing
  <2>5. job'[j].state = "queued" /\ \A i \in Jobs : i # j => job'[i] = job[i]
    BY <2>1 DEF NewRecord, Unborn
  <2>6. QED
    BY <2>1, <2>2, <2>3, <2>4, <2>5 DEF AllAccounted, Accounted, Outstanding, Born
<1>3. ASSUME NEW j \in Jobs, Announce(j) PROVE AllAccounted'
  <2> DEFINE new == [job[j] EXCEPT !.announced = TRUE]
  <2>1. /\ job' = [job EXCEPT ![j] = new] /\ job \in [Jobs -> JobRecord]
        /\ UNCHANGED <<queue, wpc, wjob, spc, sTodo, sJob>>
    BY <1>3 DEF Announce, IInv, TypeOK
  <2>2. new.state = job[j].state /\ new.started = job[j].started /\ new.done = job[j].done
    BY <2>1 DEF JobRecord
  <2>3. \A i \in Jobs : job'[i].state = job[i].state /\ job'[i].started = job[i].started
                        /\ job'[i].done = job[i].done
    BY <2>1, <2>2
  <2>4. QED
    BY <2>1, <2>3, QuietStep DEF Outstanding, Born, Holding, Executing
<1>4. ASSUME NEW j \in Jobs, Cancel(j) PROVE AllAccounted'
  <2> DEFINE new == job'[j]
  <2>1. /\ job \in [Jobs -> JobRecord] /\ Outstanding(j)
        /\ UNCHANGED <<queue, wpc, wjob, spc, sTodo, sJob>>
    BY <1>4 DEF Cancel, IInv, TypeOK, TableConsistent, Outstanding
  <2>2. /\ job' = [job EXCEPT ![j] = new]
        /\ new.done \/ (new.state = job[j].state /\ new.started = job[j].started)
    <3>1. CASE job[j].state = "queued"
      BY <1>4, <2>1, <3>1 DEF Cancel, JobRecord
    <3>2. CASE job[j].state # "queued"
      BY <1>4, <2>1, <3>2 DEF Cancel, JobRecord
    <3>3. QED
      BY <3>1, <3>2
  <2> HIDE DEF new
  <2>3. QED
    BY <2>1, <2>2, RecordStep DEF Holding, Executing
<1>5. ASSUME NEW g \in Grants, CancelForGrant(g) PROVE AllAccounted'
  <2>1. /\ job \in [Jobs -> JobRecord] /\ UNCHANGED <<queue, wpc, wjob, spc, sTodo, sJob>>
        /\ \A j \in Jobs : job'[j] = job[j] \/ (job'[j] = Revoked(job[j]) /\ j \in records)
    BY <1>5 DEF CancelForGrant, IInv, TypeOK
  <2>2. ASSUME NEW r \in JobRecord
        PROVE  Revoked(r).done \/ (r.started /\ Revoked(r).started /\ Revoked(r).done = r.done)
    BY DEF Revoked, JobRecord
  <2>3. \A j \in Jobs : j \in records => Born(j)
    BY DEF IInv, TableConsistent
  <2>4. \A j \in Jobs : Outstanding(j)' =>
          /\ Outstanding(j)
          /\ job'[j].started \/ job'[j].state = job[j].state
          /\ job[j].started => job'[j].started
    BY <2>1, <2>2, <2>3 DEF Outstanding, Born
  <2>5. QED
    BY <2>1, <2>4, QuietStep DEF Holding, Executing
<1>6. QED
  BY <1>1, <1>2, <1>3, <1>4, <1>5
     DEF Caller, Query, SubmitReused, SubmitTableFull, SubmitQueueFull

LEMMA WorkerAccounts ==
  ASSUME IInv, AllAccounted, NEW w \in Workers, Worker(w)
  PROVE  AllAccounted'
<1> USE DEF shutdownVars, tableVars
<1>1. CASE Dequeue(w)
  <2>1. /\ queue \in Seq(Jobs) /\ queue # <<>> /\ queue' = Tail(queue) /\ wpc[w] = "get"
        /\ wpc' = [wpc EXCEPT ![w] = "held"] /\ wjob' = [wjob EXCEPT ![w] = Head(queue)]
        /\ UNCHANGED <<job, spc, sTodo, sJob>>
    BY <1>1 DEF Dequeue, IInv, TypeOK
  <2>2. \A i \in DOMAIN queue : queue[i] = Head(queue)
                                \/ (i - 1 \in DOMAIN queue' /\ queue'[i - 1] = queue[i])
    BY <2>1
  <2>3. wpc'[w] = "held" /\ wjob'[w] = Head(queue)
        /\ \A v \in Workers : v # w => wpc'[v] = wpc[v] /\ wjob'[v] = wjob[v]
    BY <2>1 DEF IInv, TypeOK
  <2>4. \A j \in Jobs : (Held(j) => Held(j)') /\ (j = Head(queue) => Held(j)')
    BY <2>1, <2>3 DEF Held, Holding, Executing
  <2>5. \A j \in Jobs : Queued(j) => Queued(j)' \/ Held(j)'
    <3> SUFFICES ASSUME NEW j \in Jobs, NEW i \in DOMAIN queue, queue[i] = j
                 PROVE  Queued(j)' \/ Held(j)'
      BY DEF Queued
    <3>1. CASE queue[i] = Head(queue)
      BY <2>4, <3>1
    <3>2. CASE i - 1 \in DOMAIN queue' /\ queue'[i - 1] = queue[i]
      BY <3>2 DEF Queued
    <3>3. QED
      BY <2>2, <3>1, <3>2
  <2>6. QED
    BY <2>1, <2>4, <2>5 DEF AllAccounted, Accounted, Outstanding, Born, InHand
<1>2. CASE TestStopping(w) \/ GetTimesOut(w) \/ Skip(w)
  <2>1. /\ UNCHANGED <<job, queue, spc, sTodo, sJob>>
        /\ Holding(w) => job[wjob[w]].done
        /\ \A v \in Workers : v # w => wpc'[v] = wpc[v] /\ wjob'[v] = wjob[v]
    BY <1>2 DEF TestStopping, GetTimesOut, Skip, NextRound, IInv, TypeOK, Holding, Executing
  <2>2. QED
    BY <2>1, QuietStep DEF Outstanding, Born, Holding, Executing
<1>3. CASE Begin(w)
  <2> DEFINE j == wjob[w]
             new == [job[j] EXCEPT !.state = "running", !.started = TRUE]
  <2>1. /\ job' = [job EXCEPT ![j] = new] /\ job[j] \in JobRecord /\ j \in Jobs /\ Outstanding(j)
        /\ wpc' = [wpc EXCEPT ![w] = "running"] /\ UNCHANGED <<queue, wjob, spc, sTodo, sJob>>
    BY <1>3 DEF Begin, IInv, TypeOK, Ownership, Holding, Outstanding
  <2>2. new.started = TRUE
    BY <2>1 DEF JobRecord
  <2>3. \A v \in Workers : Holding(v) => Holding(v)'
    BY <2>1 DEF Holding, Executing, IInv, TypeOK
  <2> HIDE DEF new, j
  <2>4. QED
    BY <2>1, <2>2, <2>3, RecordStep
<1>4. ASSUME NEW how \in {"returns", "raises", "cancels"}, Commit(w, how) PROVE AllAccounted'
  <2> DEFINE j == wjob[w]
             new == Verdict(job[j], how)
  <2>1. /\ job' = [job EXCEPT ![j] = new] /\ job[j] \in JobRecord /\ j \in Jobs
        /\ wpc' = [wpc EXCEPT ![w] = "committed"] /\ UNCHANGED <<queue, wjob, spc, sTodo, sJob>>
        /\ how = "cancels" => job[j].cancelRequested
        /\ job[j].started /\ Born(j)
    BY <1>4 DEF Commit, IInv, TypeOK, Ownership, Holding, Executing
  <2>2. new.started = job[j].started /\ new.done = job[j].done
    BY <2>1, VerdictFields
  <2>3. \A v \in Workers : Holding(v) => Holding(v)'
    BY <2>1 DEF Holding, Executing, IInv, TypeOK
  <2> HIDE DEF new, j
  <2>4. \A i \in Jobs : Outstanding(i)' =>
          /\ Outstanding(i)
          /\ job'[i].started \/ job'[i].state = job[i].state
          /\ job[i].started => job'[i].started
    BY <2>1, <2>2 DEF Outstanding, Born, IInv, TypeOK
  <2>5. QED
    BY <2>1, <2>3, <2>4, QuietStep
<1>5. CASE Stamp(w)
  <2> DEFINE j == wjob[w]
             now == clock + 1
             new == [job[j] EXCEPT !.finishedAt = now]
  <2>1. /\ job' = [job EXCEPT ![j] = new] /\ job[j] \in JobRecord /\ j \in Jobs
        /\ wpc' = [wpc EXCEPT ![w] = "stamped"] /\ UNCHANGED <<queue, wjob, spc, sTodo, sJob>>
        /\ job[j].started /\ Born(j)
    BY <1>5 DEF Stamp, IInv, TypeOK, Ownership, Holding, Executing
  <2> HIDE DEF now
  <2>2. new.started = job[j].started /\ new.done = job[j].done
    BY <2>1 DEF JobRecord
  <2>3. \A v \in Workers : Holding(v) => Holding(v)'
    BY <2>1 DEF Holding, Executing, IInv, TypeOK
  <2> HIDE DEF new, j
  <2>4. \A i \in Jobs : Outstanding(i)' =>
          /\ Outstanding(i)
          /\ job'[i].started \/ job'[i].state = job[i].state
          /\ job[i].started => job'[i].started
    BY <2>1, <2>2 DEF Outstanding, Born, IInv, TypeOK
  <2>5. QED
    BY <2>1, <2>3, <2>4, QuietStep
<1>6. CASE Signal(w)
  <2> DEFINE j == wjob[w]
             new == [job[j] EXCEPT !.done = TRUE]
  <2>1. /\ job' = [job EXCEPT ![j] = new] /\ job[j] \in JobRecord /\ j \in Jobs
        /\ \A v \in Workers : v # w => wpc'[v] = wpc[v] /\ wjob'[v] = wjob[v]
        /\ UNCHANGED <<queue, spc, sTodo, sJob>>
    BY <1>6 DEF Signal, NextRound, IInv, TypeOK, Holding, Executing
  <2>2. new.done = TRUE
    BY <2>1 DEF JobRecord
  <2> HIDE DEF new, j
  <2>3. \A i \in Jobs : Outstanding(i)' => Outstanding(i) /\ job'[i] = job[i] /\ i # j
    BY <2>1, <2>2 DEF Outstanding, Born, IInv, TypeOK
  <2>4. QED
    BY <2>1, <2>3, QuietStep DEF Holding, Executing, j
<1>7. QED
  BY <1>1, <1>2, <1>3, <1>4, <1>5, <1>6 DEF Worker

LEMMA ShutdownAccounts ==
  ASSUME IInv, AllAccounted, BeginShutdown \/ Shutdown
  PROVE  AllAccounted'
<1> USE DEF workerVars, tableVars
<1>1. UNCHANGED <<queue, wpc, wjob>> /\ job \in [Jobs -> JobRecord]
  BY DEF IInv, TypeOK, BeginShutdown, Shutdown, Snapshot, SdPick, SdTest, SdExpire, SdSignal, SdEnd
<1>2. \A j \in Jobs : (Queued(j)' <=> Queued(j)) /\ (Held(j)' <=> Held(j))
  BY <1>1 DEF Queued, Held, Holding, Executing
<1>3. CASE BeginShutdown
  BY <1>2, <1>3 DEF BeginShutdown, IInv, WalkConsistent, AllAccounted, Accounted, Outstanding, Born
<1>4. CASE Snapshot
  BY <1>2, <1>4 DEF Snapshot, IInv, TableConsistent, AllAccounted, Accounted, Outstanding, Born
<1>5. ASSUME NEW j \in Jobs, SdPick(j) PROVE AllAccounted'
  <2>1. CASE job[j].done
    BY <1>2, <1>5, <2>1 DEF SdPick, AllAccounted, Accounted, Outstanding, Born, InHand
  <2>2. CASE ~job[j].done
    <3> DEFINE new == [job[j] EXCEPT !.cancelRequested = TRUE]
    <3>1. /\ job' = [job EXCEPT ![j] = new] /\ spc = "loop" /\ spc' = "test" /\ sJob' = j
          /\ sTodo' = sTodo \ {j}
      BY <1>5, <2>2 DEF SdPick
    <3>2. new.state = job[j].state /\ new.started = job[j].started /\ new.done = job[j].done
      BY <1>1 DEF JobRecord
    <3>3. \A i \in Jobs : job'[i].state = job[i].state /\ job'[i].started = job[i].started
                          /\ job'[i].done = job[i].done
      BY <1>1, <3>1, <3>2
    <3>4. QED
      BY <1>2, <3>1, <3>3 DEF AllAccounted, Accounted, Outstanding, Born, InHand
  <2>3. QED
    BY <2>1, <2>2
<1>6. CASE SdTest
  BY <1>2, <1>6 DEF SdTest, AllAccounted, Accounted, Outstanding, Born, InHand
<1>7. CASE SdExpire
  <2> DEFINE new == job'[sJob]
  <2>1. /\ sJob \in Jobs /\ spc = "expire" /\ spc' = "signal" /\ UNCHANGED <<sTodo, sJob>>
        /\ \A i \in Jobs : i # sJob => job'[i] = job[i]
        /\ new.started = job[sJob].started /\ new.done = job[sJob].done
        /\ Born(sJob)
    BY <1>1, <1>7 DEF SdExpire, IInv, TypeOK, WalkConsistent, JobRecord
  <2> HIDE DEF new
  <2>2. QED
    BY <1>2, <2>1 DEF AllAccounted, Accounted, Outstanding, Born, InHand, new
<1>8. CASE SdSignal
  <2>1. /\ sJob \in Jobs /\ spc = "signal" /\ spc' = "loop" /\ UNCHANGED <<sTodo, sJob>>
        /\ \A i \in Jobs : i # sJob => job'[i] = job[i]
        /\ job'[sJob].done = TRUE
    BY <1>1, <1>8 DEF SdSignal, IInv, TypeOK, JobRecord
  <2>2. QED
    BY <1>2, <2>1 DEF AllAccounted, Accounted, Outstanding, Born, InHand
<1>9. CASE SdEnd
  BY <1>2, <1>9 DEF SdEnd, AllAccounted, Accounted, Outstanding, Born, InHand
<1>10. QED
  BY <1>3, <1>4, <1>5, <1>6, <1>7, <1>8, <1>9 DEF Shutdown

LEMMA NextAccounts == IInv /\ AllAccounted /\ [Next]_vars => AllAccounted'
<1> SUFFICES ASSUME IInv, AllAccounted, [Next]_vars PROVE AllAccounted'
  OBVIOUS
<1>1. CASE UNCHANGED vars
  BY <1>1, QuietStep
     DEF vars, tableVars, workerVars, shutdownVars, Outstanding, Born, Holding, Executing
<1>2. QED
  BY <1>1, CallerAccounts, WorkerAccounts, ShutdownAccounts DEF Next

(* Every unfinished job stays in the table and in the queue or a worker's  *)
(* hands, and after shutdown's walk only executing jobs are unfinished.    *)
THEOREM NothingIsLost == Spec => []NoLostJob
<1>1. Init => AllAccounted
  BY DEF Init, AllAccounted, Outstanding, Born, Unborn
<1>2. ASSUME IInv, AllAccounted PROVE NoLostJob
  <2> SUFFICES ASSUME NEW j \in Jobs, Outstanding(j)
               PROVE  /\ j \in records
                      /\ Queued(j) \/ \E w \in Workers : Holding(w) /\ wjob[w] = j
                      /\ spc = "over" => \E w \in Workers : Executing(w) /\ wjob[w] = j
    BY DEF NoLostJob, Outstanding
  <2>1. j \in records
    BY <1>2 DEF IInv, TableConsistent, Outstanding
  <2>2. Queued(j) \/ Held(j)
    BY <1>2 DEF AllAccounted, Accounted
  <2>3. spc = "over" => job[j].started
    BY <1>2 DEF AllAccounted, Accounted, InHand
  <2>4. QED
    BY <1>2, <2>1, <2>2, <2>3, StartedIsExecuted DEF Held
<1>3. QED
  BY <1>1, <1>2, NextAccounts, Invariance, PTL DEF Spec
=============================================================================
