-------------------------- MODULE JobPromiseProofs --------------------------
(***************************************************************************)
(* Proof that the job queue implements JobPromise: every step of the       *)
(* queue, its workers and its shutdown is a step of the promise or leaves  *)
(* it alone.                                                               *)
(*                                                                         *)
(* And what the calls that stand on the queue owe to the promise: they     *)
(* read a record field by field without the lock, and their answers were   *)
(* true of the job all the same.                                           *)
(***************************************************************************)
EXTENDS JobManagerProofs, JobCalls

LEMMA PromiseValues ==
  ASSUME IInv, NEW j \in Jobs
  PROVE  /\ ~Born(j) => PromiseOf(j) = "none"
         /\ Born(j) /\ j \notin records => PromiseOf(j) = "forgotten"
         /\ j \in records /\ ~job[j].done => PromiseOf(j) = "pending"
         /\ j \in records /\ job[j].done /\ job[j].outcome = "value" => PromiseOf(j) = "value"
         /\ j \in records /\ job[j].done /\ job[j].outcome # "value" => PromiseOf(j) = "novalue"
<1>1. j \in records => Born(j)
  BY DEF IInv, TableConsistent
<1>2. CASE ~Born(j)
  BY <1>1, <1>2 DEF PromiseOf
<1>3. CASE Born(j) /\ j \notin records
  BY <1>3 DEF PromiseOf
<1>4. CASE j \in records /\ ~job[j].done
  BY <1>1, <1>4 DEF PromiseOf
<1>5. CASE j \in records /\ job[j].done /\ job[j].outcome = "value"
  BY <1>1, <1>5 DEF PromiseOf
<1>6. CASE j \in records /\ job[j].done /\ job[j].outcome # "value"
  BY <1>1, <1>6 DEF PromiseOf
<1>7. QED
  BY <1>2, <1>3, <1>4, <1>5, <1>6

(* The same in the next state. *)
LEMMA PromiseValuesNext ==
  ASSUME IInv', NEW j \in Jobs
  PROVE  /\ ~Born(j)' => PromiseOf(j)' = "none"
         /\ Born(j)' /\ j \notin records' => PromiseOf(j)' = "forgotten"
         /\ j \in records' /\ ~job'[j].done => PromiseOf(j)' = "pending"
         /\ j \in records' /\ job'[j].done /\ job'[j].outcome = "value" => PromiseOf(j)' = "value"
         /\ j \in records' /\ job'[j].done /\ job'[j].outcome # "value" => PromiseOf(j)' = "novalue"
<1>1. j \in records' => Born(j)'
  BY DEF IInv, TableConsistent
<1>2. CASE ~Born(j)'
  BY <1>1, <1>2 DEF PromiseOf
<1>3. CASE Born(j)' /\ j \notin records'
  BY <1>3 DEF PromiseOf
<1>4. CASE j \in records' /\ ~job'[j].done
  BY <1>1, <1>4 DEF PromiseOf
<1>5. CASE j \in records' /\ job'[j].done /\ job'[j].outcome = "value"
  BY <1>1, <1>5 DEF PromiseOf
<1>6. CASE j \in records' /\ job'[j].done /\ job'[j].outcome # "value"
  BY <1>1, <1>6 DEF PromiseOf
<1>7. QED
  BY <1>2, <1>3, <1>4, <1>5, <1>6

(* Dropping records forgets settled promises. *)
LEMMA DropMaps ==
  ASSUME IInv, IInv', NEW R, Leftover(R), records' = R, UNCHANGED job
  PROVE  Promise!Next
<1> DEFINE S == records \ R
<1>1. /\ S \in SUBSET Jobs /\ \A j \in S : job[j].done /\ j \notin R
      /\ \A j \in Jobs : Born(j)' <=> Born(j)
      /\ \A j \in records : Born(j)
  BY DEF IInv, TypeOK, Leftover, TableConsistent, Born
<1>2. S \in SUBSET Promise!Settled
  BY <1>1, PromiseValues DEF Promise!Settled
<1>3. \A j \in Jobs : PromiseOf(j)' = IF j \in S THEN "forgotten" ELSE PromiseOf(j)
  BY <1>1, PromiseValues, PromiseValuesNext DEF Leftover
<1> HIDE DEF S
<1>4. Promise!Forget(S)
  BY <1>3 DEF Promise!Forget
<1>5. QED
  BY <1>2, <1>4 DEF Promise!Next

LEMMA SubmitMaps ==
  ASSUME IInv, IInv', NEW j \in Jobs, NEW k \in Keys \cup {NoKey}, NEW g \in Grants \cup {NoGrant},
         NEW cutoff, SubmitAccepted(j, k, g, cutoff)
  PROVE  Promise!Next
<1>1. PICK live \in Reclaimed(Retained(cutoff)) : records' = live \cup {j}
  BY DEF SubmitAccepted
<1>0. PICK S : S = records \ live
  OBVIOUS
<1>2. /\ Leftover(live) /\ live \subseteq Retained(cutoff)
      /\ S \in SUBSET Jobs /\ \A i \in S : job[i].done /\ i \notin live
  BY <1>0, RetainedIsLeftover, ReclaimedIsLeftover DEF Reclaimed, Leftover, IInv, TypeOK
<1>3. /\ ~Born(j) /\ j \notin records /\ job' = [job EXCEPT ![j] = NewRecord(k, g)]
      /\ \A i \in records : Born(i) /\ i # j
  BY DEF SubmitAccepted, IInv, TableConsistent
<1>4. /\ NewRecord(k, g).state = "queued" /\ NewRecord(k, g).key = k /\ NewRecord(k, g).grant = g
      /\ NewRecord(k, g).done = FALSE /\ NewRecord(k, g).revoked = FALSE /\ job[j].revoked = FALSE
  BY <1>3 DEF NewRecord, Unborn, IInv, Lifecycle
<1>5. /\ Born(j)' /\ job'[j] = NewRecord(k, g) /\ j \in records'
      /\ \A i \in Jobs \ {j} : job'[i] = job[i] /\ (Born(i)' <=> Born(i)) /\ (i \in records' <=> i \in live)
  BY <1>1, <1>3, <1>4 DEF IInv, TypeOK, Born
<1>6. S \in SUBSET Promise!Settled
  BY <1>0, <1>2, PromiseValues DEF Promise!Settled
<1>7. PromiseOf(j) = "none" /\ PromiseOf(j)' = "pending"
  BY <1>3, <1>4, <1>5, PromiseValues, PromiseValuesNext
<1>8. ASSUME NEW i \in Jobs, i # j
      PROVE  PromiseOf(i)' = IF i \in S THEN "forgotten" ELSE PromiseOf(i)
  <2>1. CASE i \in live
    BY <1>0, <1>2, <1>5, <1>8, <2>1, PromiseValues, PromiseValuesNext DEF Leftover
  <2>2. CASE i \in records /\ i \notin live
    BY <1>0, <1>3, <1>5, <1>8, <2>2, PromiseValuesNext
  <2>3. CASE i \notin records
    BY <1>0, <1>2, <1>5, <1>8, <2>3, PromiseValues, PromiseValuesNext DEF Leftover
  <2>4. QED
    BY <2>1, <2>2, <2>3
<1>9. ASSUME k # NoKey, NEW i \in Jobs \ S, job[i].key = k
      PROVE  PromiseOf(i) = "forgotten"
  <2>1. idem[k] \notin Retained(cutoff)
    BY <1>9, AbsentAssumption DEF SubmitAccepted, Known, KeysOf, IInv, TypeOK, Retained
  <2>2. i \notin records
    BY <1>0, <1>2, <1>9, <2>1 DEF IInv, TableConsistent
  <2>3. Born(i)
    BY <1>9 DEF IInv, Lifecycle, Unborn
  <2>4. QED
    BY <2>2, <2>3, PromiseValues
<1>10. Promise!Submit(j, k, g, S)
  <2>1. [i \in Jobs |-> PromiseOf(i)'] =
          [i \in Jobs |-> IF i = j THEN "pending" ELSE IF i \in S THEN "forgotten" ELSE PromiseOf(i)]
    BY <1>7, <1>8
  <2>2. /\ [i \in Jobs |-> job'[i].key] = [[i \in Jobs |-> job[i].key] EXCEPT ![j] = k]
        /\ [i \in Jobs |-> job'[i].grant] = [[i \in Jobs |-> job[i].grant] EXCEPT ![j] = g]
        /\ [i \in Jobs |-> job'[i].revoked] = [i \in Jobs |-> job[i].revoked]
    BY <1>4, <1>5
  <2>3. QED
    BY <1>7, <1>9, <2>1, <2>2 DEF Promise!Submit
<1>11. \E i \in Jobs, l \in Keys \cup {NoKey}, h \in Grants \cup {NoGrant} : Promise!Submit(i, l, h, S)
  BY <1>10, Zenon
<1>12. QED
  <2>1. Promise!Forget(S) \/ \E i \in Jobs, l \in Keys \cup {NoKey}, h \in Grants \cup {NoGrant} : Promise!Submit(i, l, h, S)
    BY <1>11, Zenon
  <2>2. \E T \in SUBSET Promise!Settled :
          Promise!Forget(T) \/ \E i \in Jobs, l \in Keys \cup {NoKey}, h \in Grants \cup {NoGrant} : Promise!Submit(i, l, h, T)
    BY <1>6, <2>1, Zenon
  <2>3. QED
    BY <2>2, Zenon DEF Promise!Next

(* Rewriting a record settles its promise at most: a settled one keeps or  *)
(* lacks its value as before.                                              *)
LEMMA RewriteMaps ==
  ASSUME IInv, IInv', NEW j \in Jobs, Born(j), NEW new,
         job' = [job EXCEPT ![j] = new], UNCHANGED records,
         new.key = job[j].key, new.grant = job[j].grant, new.revoked = job[j].revoked,
         job[j].done => new.done /\ (new.outcome = "value" <=> job[j].outcome = "value"),
         new.state # "unborn"
  PROVE  [Promise!Next]_(Promise!vars)
<1>1. /\ job'[j] = new /\ Born(j)'
      /\ \A i \in Jobs \ {j} : job'[i] = job[i] /\ (Born(i)' <=> Born(i))
  BY DEF IInv, TypeOK, Born
<1>2. \A i \in Jobs \ {j} : PromiseOf(i)' = PromiseOf(i)
  BY <1>1, PromiseValues, PromiseValuesNext
<1>3. /\ [i \in Jobs |-> job'[i].key] = [i \in Jobs |-> job[i].key]
      /\ [i \in Jobs |-> job'[i].grant] = [i \in Jobs |-> job[i].grant]
      /\ [i \in Jobs |-> job'[i].revoked] = [i \in Jobs |-> job[i].revoked]
  BY <1>1
<1>4. CASE j \in records /\ ~job[j].done /\ new.done
  <2> DEFINE v == PromiseOf(j)'
  <2>1. PromiseOf(j) = "pending" /\ v \in {"value", "novalue"}
    BY <1>1, <1>4, PromiseValues, PromiseValuesNext
  <2>2. v = "value" => ~job[j].revoked
    BY <1>1, <1>4, PromiseValuesNext DEF IInv, Lifecycle
  <2>3. [i \in Jobs |-> PromiseOf(i)'] = [[i \in Jobs |-> PromiseOf(i)] EXCEPT ![j] = v]
    BY <1>2
  <2> HIDE DEF v
  <2>4. Promise!Settle(j, v)
    BY <1>3, <2>1, <2>2, <2>3 DEF Promise!Settle
  <2>5. QED
    BY <2>1, <2>4 DEF Promise!Next
<1>5. CASE ~(j \in records /\ ~job[j].done /\ new.done)
  <2>1. PromiseOf(j)' = PromiseOf(j)
    BY <1>1, <1>5, PromiseValues, PromiseValuesNext
  <2>2. UNCHANGED Promise!vars
    BY <1>2, <1>3, <2>1 DEF Promise!vars
  <2>3. QED
    BY <2>2
<1>6. QED
  BY <1>4, <1>5

-----------------------------------------------------------------------------
(* A step that leaves the records, and the table but for them, alone.      *)
LEMMA StutterMaps ==
  ASSUME UNCHANGED <<job, records>>
  PROVE  UNCHANGED Promise!vars
BY DEF Promise!vars, PromiseOf, Born

LEMMA GrantMaps ==
  ASSUME IInv, IInv', NEW g \in Grants, CancelForGrant(g)
  PROVE  Promise!Next
<1> DEFINE Hit(j) == j \in records /\ job[j].grant = g
<1>1. /\ job \in [Jobs -> JobRecord] /\ UNCHANGED records
      /\ \A j \in Jobs : job'[j] = IF Hit(j) THEN Revoked(job[j]) ELSE job[j]
  BY DEF IInv, TypeOK, CancelForGrant, tableVars
<1>2. ASSUME NEW r \in JobRecord
      PROVE  /\ Revoked(r).revoked = TRUE /\ Revoked(r).outcome = "exception"
             /\ Revoked(r).key = r.key /\ Revoked(r).grant = r.grant
             /\ r.done => Revoked(r).done
  <2> DEFINE hidden == [r EXCEPT !.revoked = TRUE, !.cancelRequested = TRUE,
                                 !.state = "expired", !.outcome = "exception"]
             now == clock + 1
  <2>1. hidden \in JobRecord /\ hidden.revoked = TRUE /\ hidden.outcome = "exception"
        /\ hidden.key = r.key /\ hidden.grant = r.grant /\ hidden.done = r.done
    BY DEF JobRecord, State, Outcome
  <2>2. Revoked(r) = IF r.started THEN hidden ELSE [hidden EXCEPT !.finishedAt = now, !.done = TRUE]
    BY Zenon DEF Revoked
  <2> HIDE DEF hidden, now
  <2>3. CASE r.started
    BY <2>1, <2>2, <2>3
  <2>4. CASE ~r.started
    <3>1. Revoked(r) = [hidden EXCEPT !.finishedAt = now, !.done = TRUE]
      BY <2>2, <2>4
    <3>2. QED
      BY <2>1, <3>1 DEF JobRecord
  <2>5. QED
    BY <2>3, <2>4
<1>3. \A j \in Jobs :
        /\ Hit(j) => job'[j].revoked = TRUE /\ job'[j].outcome = "exception"
                     /\ (job[j].done => job'[j].done)
        /\ ~Hit(j) => job'[j] = job[j]
        /\ job'[j].key = job[j].key /\ job'[j].grant = job[j].grant
  <2> TAKE j \in Jobs
  <2>1. CASE Hit(j)
    <3> DEFINE r == Revoked(job[j])
    <3>1. job'[j] = r
      BY <1>1, <2>1
    <3>2. /\ r.revoked = TRUE /\ r.outcome = "exception"
          /\ r.key = job[j].key /\ r.grant = job[j].grant
          /\ job[j].done => r.done
      BY <1>1, <1>2
    <3> HIDE DEF r
    <3>3. QED
      BY <2>1, <3>1, <3>2
  <2>2. CASE ~Hit(j)
    BY <1>1, <2>2
  <2>3. QED
    BY <2>1, <2>2
<1>4. \A j \in Jobs : Hit(j) =>
        PromiseOf(j)' = "novalue" \/ (PromiseOf(j) = "pending" /\ PromiseOf(j)' = "pending")
  BY <1>1, <1>3, PromiseValues, PromiseValuesNext
<1>5. \A j \in Jobs : ~Hit(j) => PromiseOf(j)' = PromiseOf(j)
  BY <1>1, <1>3 DEF PromiseOf, Born
<1>6. \A j \in Jobs : job[j].grant = g => (PromiseOf(j) # "forgotten" <=> Hit(j))
  <2> TAKE j \in Jobs
  <2>1. g # NoGrant
    BY AbsentAssumption
  <2>2. job[j].grant = g => Born(j)
    BY <2>1 DEF IInv, Lifecycle, Unborn
  <2>3. QED
    BY <2>2, PromiseValues DEF IInv, TableConsistent
<1> DEFINE Mine == {j \in Jobs : job[j].grant = g /\ PromiseOf(j) # "forgotten"}
<1>7. \A j \in Jobs : j \in Mine <=> Hit(j)
  BY <1>6
<1> HIDE DEF Hit
<1>8. /\ [j \in Jobs |-> job'[j].key] = [j \in Jobs |-> job[j].key]
      /\ [j \in Jobs |-> job'[j].grant] = [j \in Jobs |-> job[j].grant]
  BY <1>3
<1>9. [j \in Jobs |-> job'[j].revoked] = [j \in Jobs |-> job[j].revoked \/ j \in Mine]
  <2>1. ASSUME NEW j \in Jobs PROVE job'[j].revoked = (job[j].revoked \/ j \in Mine)
    <3>1. job[j].revoked \in BOOLEAN
      BY <1>1 DEF JobRecord
    <3>2. CASE Hit(j)
      BY <1>3, <1>7, <3>2
    <3>3. CASE ~Hit(j)
      BY <1>3, <1>7, <3>1, <3>3
    <3>4. QED
      BY <3>2, <3>3
  <2>2. QED
    BY <2>1
<1>10. \A j \in Jobs : PromiseOf(j)' \in {"none", "pending", "value", "novalue", "forgotten"}
  BY PromiseValuesNext
<1>11. Promise!Withdraw(g)
  <2>1. [j \in Jobs |-> PromiseOf(j)'] \in [Jobs -> {"none", "pending", "value", "novalue", "forgotten"}]
    BY <1>10
  <2>2. Mine = {j \in Jobs : [i \in Jobs |-> job[i].grant][j] = g /\ [i \in Jobs |-> PromiseOf(i)][j] # "forgotten"}
    OBVIOUS
  <2>3. \A j \in Jobs \ Mine : PromiseOf(j)' = PromiseOf(j)
    BY <1>5, <1>7
  <2>4. \A j \in Mine : PromiseOf(j)' = "novalue" \/ (PromiseOf(j) = "pending" /\ PromiseOf(j)' = "pending")
    BY <1>4, <1>7
  <2>5. Mine \subseteq Jobs
    OBVIOUS
  <2> HIDE DEF Mine
  <2>6. QED
    BY <1>8, <1>9, <2>1, <2>2, <2>3, <2>4, <2>5 DEF Promise!Withdraw
<1>12. QED
  BY <1>11 DEF Promise!Next

LEMMA CallerMaps ==
  ASSUME IInv, IInv', Caller
  PROVE  [Promise!Next]_(Promise!vars)
<1>1. ASSUME NEW cutoff \in 0 .. clock, Query(cutoff) PROVE Promise!Next
  BY <1>1, RetainedIsLeftover, DropMaps DEF Query
<1>2. ASSUME NEW k \in Keys \cup {NoKey}, NEW cutoff \in 0 .. clock,
             SubmitReused(k, cutoff) \/ SubmitTableFull(k, cutoff) \/ SubmitQueueFull(k, cutoff)
      PROVE  Promise!Next
  <2>1. CASE SubmitReused(k, cutoff)
    BY <2>1, RetainedIsLeftover, DropMaps DEF SubmitReused
  <2>2. CASE SubmitTableFull(k, cutoff) \/ SubmitQueueFull(k, cutoff)
    BY <2>2, RetainedIsLeftover, ReclaimedIsLeftover, DropMaps DEF SubmitTableFull, SubmitQueueFull
  <2>3. QED
    BY <1>2, <2>1, <2>2
<1>3. ASSUME NEW j \in Jobs, Announce(j) PROVE [Promise!Next]_(Promise!vars)
  <2> DEFINE new == [job[j] EXCEPT !.announced = TRUE]
  <2>1. Born(j) /\ job' = [job EXCEPT ![j] = new] /\ UNCHANGED records /\ job[j] \in JobRecord
    BY <1>3 DEF Announce, tableVars, IInv, TypeOK
  <2>2. /\ new.key = job[j].key /\ new.grant = job[j].grant /\ new.revoked = job[j].revoked
        /\ new.done = job[j].done /\ new.outcome = job[j].outcome /\ new.state = job[j].state
    BY <2>1 DEF JobRecord
  <2> HIDE DEF new
  <2>3. QED
    BY <2>1, <2>2, RewriteMaps DEF Born
<1>4. ASSUME NEW j \in Jobs, Cancel(j) PROVE [Promise!Next]_(Promise!vars)
  <2> DEFINE now == clock + 1
             ended == [job[j] EXCEPT !.cancelRequested = TRUE, !.done = TRUE,
                                     !.state = "cancelled", !.finishedAt = now]
             asked == [job[j] EXCEPT !.cancelRequested = TRUE]
  <2>1. /\ Born(j) /\ UNCHANGED records /\ job[j] \in JobRecord /\ ~job[j].done
        /\ job' = [job EXCEPT ![j] = ended] \/ job' = [job EXCEPT ![j] = asked]
    BY <1>4 DEF Cancel, tableVars, IInv, TypeOK, TableConsistent
  <2> HIDE DEF now
  <2>2. /\ ended.key = job[j].key /\ ended.grant = job[j].grant /\ ended.revoked = job[j].revoked
        /\ ended.state = "cancelled"
        /\ asked.key = job[j].key /\ asked.grant = job[j].grant /\ asked.revoked = job[j].revoked
        /\ asked.state = job[j].state
    BY <2>1 DEF JobRecord
  <2> HIDE DEF ended, asked
  <2>3. QED
    BY <2>1, <2>2, RewriteMaps DEF Born
<1>5. QED
  BY <1>1, <1>2, <1>3, <1>4, SubmitMaps, GrantMaps DEF Caller

LEMMA WorkerMaps ==
  ASSUME IInv, IInv', NEW w \in Workers, Worker(w)
  PROVE  [Promise!Next]_(Promise!vars)
<1> DEFINE j == wjob[w]
<1>1. CASE Dequeue(w) \/ TestStopping(w) \/ GetTimesOut(w) \/ Skip(w)
  <2>1. UNCHANGED <<job, records>>
    BY <1>1 DEF Dequeue, TestStopping, GetTimesOut, Skip, tableVars
  <2>2. QED
    BY <2>1, StutterMaps
<1>2. CASE Begin(w)
  <2> DEFINE new == [job[j] EXCEPT !.state = "running", !.started = TRUE]
  <2>1. /\ j \in Jobs /\ Born(j) /\ job' = [job EXCEPT ![j] = new] /\ UNCHANGED records
        /\ job[j] \in JobRecord /\ ~job[j].done
    BY <1>2 DEF Begin, tableVars, IInv, TypeOK, Ownership, Holding
  <2> HIDE DEF j
  <2>2. /\ new.key = job[j].key /\ new.grant = job[j].grant /\ new.revoked = job[j].revoked
        /\ new.state = "running"
    BY <2>1 DEF JobRecord
  <2> HIDE DEF new
  <2>3. QED
    BY <2>1, <2>2, RewriteMaps
<1>3. ASSUME NEW how \in {"returns", "raises", "cancels"}, Commit(w, how)
      PROVE  [Promise!Next]_(Promise!vars)
  <2> DEFINE new == Verdict(job[j], how)
  <2>1. /\ j \in Jobs /\ Born(j) /\ job' = [job EXCEPT ![j] = new] /\ UNCHANGED records
        /\ job[j] \in JobRecord /\ (how = "cancels" => job[j].cancelRequested)
    BY <1>3 DEF Commit, tableVars, IInv, TypeOK, Ownership, Holding, Executing
  <2>2. job[j].outcome # "value" /\ (job[j].done => job[j].cancelRequested)
    BY <1>3 DEF Commit, IInv, WalkConsistent
  <2> HIDE DEF j
  <2>3. /\ new.key = job[j].key /\ new.revoked = job[j].revoked /\ new.done = job[j].done
        /\ new.state # "unborn" /\ (new.outcome = "value" => ~job[j].cancelRequested)
    BY <2>1, VerdictFields
  <2>4. new.grant = job[j].grant
    <3> DEFINE v(s, o) == [job[j] EXCEPT !.state = s, !.outcome = o]
    <3>1. \E s \in State, o \in Outcome : new = v(s, o)
      <4>1. CASE job[j].revoked
        BY <4>1 DEF Verdict, State, Outcome
      <4>2. CASE ~job[j].revoked /\ how = "returns" /\ job[j].cancelRequested
        BY <4>2 DEF Verdict, State, Outcome
      <4>3. CASE ~job[j].revoked /\ how = "returns" /\ ~job[j].cancelRequested
        BY <4>3 DEF Verdict, State, Outcome
      <4>4. CASE ~job[j].revoked /\ how = "raises"
        BY <4>4 DEF Verdict, State, Outcome
      <4>5. CASE ~job[j].revoked /\ how = "cancels"
        BY <4>5 DEF Verdict, State, Outcome
      <4>6. QED
        BY <4>1, <4>2, <4>3, <4>4, <4>5
    <3>2. \A s \in State, o \in Outcome : v(s, o).grant = job[j].grant
      BY <2>1 DEF JobRecord
    <3> HIDE DEF v, new
    <3>3. QED
      BY <3>1, <3>2
  <2> HIDE DEF new
  <2>5. QED
    BY <2>1, <2>2, <2>3, <2>4, RewriteMaps
<1>4. CASE Stamp(w)
  <2> DEFINE now == clock + 1
             new == [job[j] EXCEPT !.finishedAt = now]
  <2>1. /\ j \in Jobs /\ Born(j) /\ job' = [job EXCEPT ![j] = new] /\ UNCHANGED records
        /\ job[j] \in JobRecord
    BY <1>4 DEF Stamp, tableVars, IInv, TypeOK, Ownership, Holding, Executing
  <2> HIDE DEF j, now
  <2>2. /\ new.key = job[j].key /\ new.grant = job[j].grant /\ new.revoked = job[j].revoked
        /\ new.done = job[j].done /\ new.outcome = job[j].outcome /\ new.state = job[j].state
    BY <2>1 DEF JobRecord
  <2> HIDE DEF new
  <2>3. QED
    BY <2>1, <2>2, RewriteMaps DEF Born
<1>5. CASE Signal(w)
  <2>0. PICK i \in Jobs : i = j
    BY <1>5 DEF Signal, IInv, TypeOK, Holding, Executing
  <2> DEFINE new == [job[i] EXCEPT !.done = TRUE]
  <2>1. /\ Born(i) /\ job' = [job EXCEPT ![i] = new] /\ UNCHANGED records
        /\ job[i] \in JobRecord
    BY <1>5, <2>0 DEF Signal, tableVars, IInv, TypeOK, Ownership, Holding, Executing
  <2>2. /\ new.key = job[i].key /\ new.grant = job[i].grant /\ new.revoked = job[i].revoked
        /\ new.done = TRUE /\ new.outcome = job[i].outcome /\ new.state = job[i].state
    BY <2>1 DEF JobRecord
  <2> HIDE DEF new
  <2>3. QED
    BY <2>1, <2>2, RewriteMaps DEF Born
<1>6. QED
  BY <1>1, <1>2, <1>3, <1>4, <1>5 DEF Worker

LEMMA ShutdownMaps ==
  ASSUME IInv, IInv', BeginShutdown \/ Shutdown
  PROVE  [Promise!Next]_(Promise!vars)
<1>1. CASE BeginShutdown \/ Snapshot \/ SdTest \/ SdEnd
  <2>1. UNCHANGED <<job, records>>
    BY <1>1 DEF BeginShutdown, Snapshot, SdTest, SdEnd, tableVars
  <2>2. QED
    BY <2>1, StutterMaps
<1>2. ASSUME NEW j \in Jobs, SdPick(j) PROVE [Promise!Next]_(Promise!vars)
  <2> DEFINE new == [job[j] EXCEPT !.cancelRequested = TRUE]
  <2>1. /\ Born(j) /\ UNCHANGED records /\ job[j] \in JobRecord
        /\ UNCHANGED job \/ job' = [job EXCEPT ![j] = new]
    BY <1>2 DEF SdPick, tableVars, IInv, TypeOK, WalkConsistent
  <2>2. /\ new.key = job[j].key /\ new.grant = job[j].grant /\ new.revoked = job[j].revoked
        /\ new.done = job[j].done /\ new.outcome = job[j].outcome /\ new.state = job[j].state
    BY <2>1 DEF JobRecord
  <2> HIDE DEF new
  <2>3. QED
    BY <2>1, <2>2, StutterMaps, RewriteMaps DEF Born
<1>3. CASE SdExpire
  <2> DEFINE now == clock + 1
             o == IF job[sJob].outcome = "exception" THEN "exception" ELSE "error"
             new == [job[sJob] EXCEPT !.state = "expired", !.finishedAt = now, !.outcome = o]
  <2>1. /\ sJob \in Jobs /\ Born(sJob) /\ job' = [job EXCEPT ![sJob] = new] /\ UNCHANGED records
        /\ job[sJob] \in JobRecord /\ job[sJob].outcome # "value" /\ o # "value"
    BY <1>3 DEF SdExpire, tableVars, IInv, TypeOK, WalkConsistent
  <2> HIDE DEF now, o
  <2>2. /\ new.key = job[sJob].key /\ new.grant = job[sJob].grant /\ new.revoked = job[sJob].revoked
        /\ new.done = job[sJob].done /\ new.outcome = o /\ new.state = "expired"
    BY <2>1 DEF JobRecord
  <2> HIDE DEF new
  <2>3. QED
    BY <2>1, <2>2, RewriteMaps
<1>4. CASE SdSignal
  <2> DEFINE new == [job[sJob] EXCEPT !.done = TRUE]
  <2>1. /\ sJob \in Jobs /\ Born(sJob) /\ job' = [job EXCEPT ![sJob] = new] /\ UNCHANGED records
        /\ job[sJob] \in JobRecord
    BY <1>4 DEF SdSignal, tableVars, IInv, TypeOK, WalkConsistent
  <2>2. /\ new.key = job[sJob].key /\ new.grant = job[sJob].grant /\ new.revoked = job[sJob].revoked
        /\ new.done = TRUE /\ new.outcome = job[sJob].outcome /\ new.state = job[sJob].state
    BY <2>1 DEF JobRecord
  <2> HIDE DEF new
  <2>3. QED
    BY <2>1, <2>2, RewriteMaps DEF Born
<1>5. QED
  BY <1>1, <1>2, <1>3, <1>4 DEF Shutdown

LEMMA StepMaps == IInv /\ IInv' /\ [Next]_vars => [Promise!Next]_(Promise!vars)
<1> SUFFICES ASSUME IInv, IInv', [Next]_vars PROVE [Promise!Next]_(Promise!vars)
  OBVIOUS
<1>1. CASE UNCHANGED vars
  BY <1>1, StutterMaps DEF vars, tableVars
<1>2. QED
  BY <1>1, CallerMaps, WorkerMaps, ShutdownMaps DEF Next

LEMMA InitMaps == Init => Promise!Init
<1> SUFFICES ASSUME Init PROVE Promise!Init
  OBVIOUS
<1>1. /\ Unborn.state = "unborn" /\ Unborn.key = NoKey /\ Unborn.grant = NoGrant
      /\ Unborn.revoked = FALSE
  BY DEF Unborn
<1>2. records = {} /\ \A j \in Jobs : job[j] = Unborn
  BY DEF Init
<1>3. \A j \in Jobs : PromiseOf(j) = "none"
  BY <1>1, <1>2 DEF PromiseOf, Born
<1>4. QED
  BY <1>1, <1>2, <1>3 DEF Promise!Init

(* The job queue, with its threads, eviction, rollback, revocation and     *)
(* unlocked shutdown, implements JobPromise.                               *)
THEOREM ImplementsPromise == Spec => KeepsPromise
<1>1. QED
  BY InitMaps, StepMaps, Invariance, PTL DEF Spec, KeepsPromise, Promise!Spec
-----------------------------------------------------------------------------
(* The calls.  Every step of theirs is a step of the queue or leaves it    *)
(* alone.                                                                  *)
LEMMA CallStepRuns ==
  ASSUME clock \in Nat, CallNext, \A c \in Calls : call[c].at = "announcing" => call[c].job \in Jobs
  PROVE  [Next]_vars
<1>1. \A cutoff \in Cutoffs : cutoff \in 0 .. clock
  BY DEF Cutoffs
<1>2. CASE OtherCalls
  BY <1>1, <1>2 DEF OtherCalls, Next, Caller
<1>3. ASSUME NEW c \in Calls, Client(c) PROVE [Next]_vars
  BY <1>1, <1>3
     DEF Client, CallAnnounces, WaitEnds, WaitTimesOut, Raise, ReturnResult, Ask, LookReady,
         LookError, At, Subject, Next, Caller
<1>4. ASSUME NEW c \in Calls, NextCall(c) PROVE [Next]_vars
  BY <1>4 DEF NextCall
<1>5. ASSUME NEW c \in Calls, NEW request \in JobRequests, NEW cutoff \in Cutoffs,
             \/ CallReused(c, request[1], cutoff) \/ CallRefused(c, request[1], cutoff)
             \/ \E j \in Jobs : CallNew(c, j, request[1], request[2], cutoff)
      PROVE  [Next]_vars
  <2>1. request[1] \in Keys \cup {NoKey} /\ request[2] \in Grants \cup {NoGrant}
    BY RequestsAssumption
  <2>2. QED
    BY <1>1, <1>5, <2>1 DEF CallReused, CallRefused, CallNew, Next, Caller
<1>6. QED
  BY <1>2, <1>3, <1>4, <1>5 DEF CallNext

(* What a step may do to a record that somebody reads without the lock: a  *)
(* finished one stays finished and gains no value; it loses its value, and *)
(* it ends without one or with an error text alone, only if it was asked   *)
(* to stop.                                                                *)
Follows(r, s) ==
  /\ r.done => s.done
  /\ r.cancelRequested => s.cancelRequested
  /\ r.state # "unborn" => s.state # "unborn"
  /\ r.done /\ s.outcome = "value" => r.outcome = "value"
  /\ r.done /\ r.outcome = "value" => s.outcome = "value" \/ s.cancelRequested
  /\ s.outcome = "error" => r.outcome = "error" \/ s.cancelRequested
  /\ s.outcome = "none" => r.outcome = "none"
  /\ s.done => r.done \/ s.outcome # "none" \/ s.cancelRequested

Steady(j) ==
  /\ Follows(job[j], job'[j])
  /\ job'[j].done /\ ~job[j].done => j \in records'

(* What that rests on: a worker that has committed left an outcome, and an *)
(* end without value or exception was asked for.                           *)
Explained ==
  /\ \A j \in Jobs : job[j].outcome = "error" => job[j].cancelRequested
  /\ \A j \in Jobs : job[j].done /\ job[j].outcome = "none" => job[j].cancelRequested
  /\ \A w \in Workers : wpc[w] \in {"committed", "stamped"} => job[wjob[w]].outcome # "none"

LEMMA RewriteSteady ==
  ASSUME IInv, NEW j \in Jobs, Born(j), NEW new, job' = [job EXCEPT ![j] = new],
         UNCHANGED records, Follows(job[j], new)
  PROVE  \A i \in Jobs : Steady(i)
<1>1. job'[j] = new /\ \A i \in Jobs : i # j => job'[i] = job[i]
  BY DEF IInv, TypeOK
<1>2. ~job[j].done => j \in records
  BY DEF IInv, TableConsistent
<1>3. \A i \in Jobs : Follows(job[i], job[i])
  BY DEF Follows
<1>4. QED
  BY <1>1, <1>2, <1>3 DEF Steady

LEMMA CallerSteady ==
  ASSUME IInv, Caller
  PROVE  \A j \in Jobs : Steady(j)
<1>1. ASSUME UNCHANGED job PROVE \A j \in Jobs : Steady(j)
  BY <1>1 DEF Steady, Follows
<1>2. ASSUME NEW j \in Jobs, NEW k \in Keys \cup {NoKey}, NEW g \in Grants \cup {NoGrant},
             NEW cutoff, SubmitAccepted(j, k, g, cutoff)
      PROVE  \A i \in Jobs : Steady(i)
  <2>1. /\ job' = [job EXCEPT ![j] = NewRecord(k, g)] /\ job \in [Jobs -> JobRecord]
        /\ job[j] = Unborn
    BY <1>2 DEF SubmitAccepted, IInv, TypeOK, Lifecycle
  <2>2. /\ NewRecord(k, g).state = "queued" /\ NewRecord(k, g).outcome = "none"
        /\ ~NewRecord(k, g).done
    BY DEF NewRecord, Unborn
  <2>3. Unborn.outcome = "none" /\ ~Unborn.done /\ ~Unborn.cancelRequested /\ Unborn.state = "unborn"
    BY DEF Unborn
  <2>4. QED
    BY <2>1, <2>2, <2>3 DEF Steady, Follows
<1>3. ASSUME NEW j \in Jobs, Announce(j) PROVE \A i \in Jobs : Steady(i)
  <2> DEFINE new == [job[j] EXCEPT !.announced = TRUE]
  <2>1. Born(j) /\ job' = [job EXCEPT ![j] = new] /\ UNCHANGED records /\ job[j] \in JobRecord
    BY <1>3 DEF Announce, tableVars, IInv, TypeOK
  <2>2. Follows(job[j], new)
    BY <2>1 DEF JobRecord, Follows
  <2> HIDE DEF new
  <2>3. QED
    BY <2>1, <2>2, RewriteSteady
<1>4. ASSUME NEW j \in Jobs, Cancel(j) PROVE \A i \in Jobs : Steady(i)
  <2> DEFINE now == clock + 1
             ended == [job[j] EXCEPT !.cancelRequested = TRUE, !.done = TRUE,
                                     !.state = "cancelled", !.finishedAt = now]
             asked == [job[j] EXCEPT !.cancelRequested = TRUE]
  <2>1. /\ Born(j) /\ UNCHANGED records /\ job[j] \in JobRecord /\ ~job[j].done
        /\ job' = [job EXCEPT ![j] = ended] \/ job' = [job EXCEPT ![j] = asked]
    BY <1>4 DEF Cancel, tableVars, IInv, TypeOK, TableConsistent
  <2> HIDE DEF now
  <2>2. Follows(job[j], ended) /\ Follows(job[j], asked)
    BY <2>1 DEF JobRecord, Follows
  <2> HIDE DEF ended, asked
  <2>3. QED
    BY <2>1, <2>2, RewriteSteady
<1>5. ASSUME NEW g \in Grants, CancelForGrant(g) PROVE \A j \in Jobs : Steady(j)
  <2>1. /\ job \in [Jobs -> JobRecord] /\ UNCHANGED records
        /\ \A j \in Jobs : job'[j] = job[j] \/ (job'[j] = Revoked(job[j]) /\ j \in records)
    BY <1>5 DEF CancelForGrant, IInv, TypeOK, tableVars
  <2>2. ASSUME NEW r \in JobRecord PROVE Follows(r, Revoked(r))
    <3>1. /\ Revoked(r).cancelRequested /\ Revoked(r).state = "expired"
          /\ Revoked(r).outcome = "exception" /\ (r.done => Revoked(r).done)
      BY DEF Revoked, JobRecord
    <3>2. QED
      BY <3>1 DEF Follows
  <2>3. QED
    BY <2>1, <2>2 DEF Steady, Follows
<1>6. QED
  BY <1>1, <1>2, <1>3, <1>4, <1>5 DEF Caller, Query, SubmitReused, SubmitTableFull, SubmitQueueFull

LEMMA WorkerSteady ==
  ASSUME IInv, Explained, NEW w \in Workers, Worker(w)
  PROVE  \A j \in Jobs : Steady(j)
<1> DEFINE j == wjob[w]
<1>1. CASE Dequeue(w) \/ TestStopping(w) \/ GetTimesOut(w) \/ Skip(w)
  BY <1>1 DEF Dequeue, TestStopping, GetTimesOut, Skip, Steady, Follows
<1>2. CASE Begin(w)
  <2> DEFINE new == [job[j] EXCEPT !.state = "running", !.started = TRUE]
  <2>1. /\ j \in Jobs /\ Born(j) /\ job' = [job EXCEPT ![j] = new] /\ UNCHANGED records
        /\ job[j] \in JobRecord
    BY <1>2 DEF Begin, tableVars, IInv, TypeOK, Ownership, Holding
  <2> HIDE DEF j
  <2>2. Follows(job[j], new)
    BY <2>1 DEF JobRecord, Follows
  <2> HIDE DEF new
  <2>3. QED
    BY <2>1, <2>2, RewriteSteady
<1>3. ASSUME NEW how \in {"returns", "raises", "cancels"}, Commit(w, how)
      PROVE  \A i \in Jobs : Steady(i)
  <2> DEFINE new == Verdict(job[j], how)
  <2>1. /\ j \in Jobs /\ Born(j) /\ job' = [job EXCEPT ![j] = new] /\ UNCHANGED records
        /\ job[j] \in JobRecord /\ (how = "cancels" => job[j].cancelRequested)
    BY <1>3 DEF Commit, tableVars, IInv, TypeOK, Ownership, Holding, Executing
  <2>2. job[j].outcome # "value" /\ (job[j].done => job[j].cancelRequested)
    BY <1>3 DEF Commit, IInv, WalkConsistent
  <2> HIDE DEF j
  <2>3. /\ new.cancelRequested = job[j].cancelRequested /\ new.done = job[j].done
        /\ new.state # "unborn" /\ (new.outcome = "value" => ~job[j].cancelRequested)
        /\ new.outcome # "none" /\ (new.outcome = "error" => job[j].cancelRequested)
    BY <2>1, VerdictFields
  <2> HIDE DEF new
  <2>4. Follows(job[j], new)
    BY <2>2, <2>3 DEF Follows
  <2>5. QED
    BY <2>1, <2>4, RewriteSteady
<1>4. CASE Stamp(w)
  <2> DEFINE now == clock + 1
             new == [job[j] EXCEPT !.finishedAt = now]
  <2>1. /\ j \in Jobs /\ Born(j) /\ job' = [job EXCEPT ![j] = new] /\ UNCHANGED records
        /\ job[j] \in JobRecord
    BY <1>4 DEF Stamp, tableVars, IInv, TypeOK, Ownership, Holding, Executing
  <2> HIDE DEF j, now
  <2>2. Follows(job[j], new)
    BY <2>1 DEF JobRecord, Follows
  <2> HIDE DEF new
  <2>3. QED
    BY <2>1, <2>2, RewriteSteady
<1>5. CASE Signal(w)
  <2>0. PICK i \in Jobs : i = j
    BY <1>5 DEF Signal, IInv, TypeOK, Holding, Executing
  <2> DEFINE new == [job[i] EXCEPT !.done = TRUE]
  <2>1. /\ Born(i) /\ job' = [job EXCEPT ![i] = new] /\ UNCHANGED records
        /\ job[i] \in JobRecord /\ job[i].outcome # "none"
    BY <1>5, <2>0 DEF Signal, tableVars, IInv, TypeOK, Ownership, Holding, Executing, Explained
  <2>2. Follows(job[i], new)
    BY <2>1 DEF JobRecord, Follows
  <2> HIDE DEF new
  <2>3. QED
    BY <2>1, <2>2, RewriteSteady
<1>6. QED
  BY <1>1, <1>2, <1>3, <1>4, <1>5 DEF Worker

LEMMA ShutdownSteady ==
  ASSUME IInv, BeginShutdown \/ Shutdown
  PROVE  \A j \in Jobs : Steady(j)
<1>1. CASE BeginShutdown \/ Snapshot \/ SdTest \/ SdEnd
  BY <1>1 DEF BeginShutdown, Snapshot, SdTest, SdEnd, Steady, Follows
<1>2. ASSUME NEW j \in Jobs, SdPick(j) PROVE \A i \in Jobs : Steady(i)
  <2> DEFINE new == [job[j] EXCEPT !.cancelRequested = TRUE]
  <2>1. /\ Born(j) /\ UNCHANGED records /\ job[j] \in JobRecord
        /\ UNCHANGED job \/ job' = [job EXCEPT ![j] = new]
    BY <1>2 DEF SdPick, tableVars, IInv, TypeOK, WalkConsistent
  <2>2. Follows(job[j], new)
    BY <2>1 DEF JobRecord, Follows
  <2>3. CASE UNCHANGED job
    BY <2>3 DEF Steady, Follows
  <2> HIDE DEF new
  <2>4. QED
    BY <2>1, <2>2, <2>3, RewriteSteady
<1>3. CASE SdExpire
  <2> DEFINE now == clock + 1
             o == IF job[sJob].outcome = "exception" THEN "exception" ELSE "error"
             new == [job[sJob] EXCEPT !.state = "expired", !.finishedAt = now, !.outcome = o]
  <2>1. /\ sJob \in Jobs /\ Born(sJob) /\ job' = [job EXCEPT ![sJob] = new] /\ UNCHANGED records
        /\ job[sJob] \in JobRecord /\ job[sJob].outcome # "value" /\ job[sJob].cancelRequested
        /\ o \in {"exception", "error"}
    BY <1>3 DEF SdExpire, tableVars, IInv, TypeOK, WalkConsistent
  <2> HIDE DEF now, o
  <2>2. Follows(job[sJob], new)
    BY <2>1 DEF JobRecord, Follows
  <2> HIDE DEF new
  <2>3. QED
    BY <2>1, <2>2, RewriteSteady
<1>4. CASE SdSignal
  <2> DEFINE new == [job[sJob] EXCEPT !.done = TRUE]
  <2>1. /\ sJob \in Jobs /\ Born(sJob) /\ job' = [job EXCEPT ![sJob] = new] /\ UNCHANGED records
        /\ job[sJob] \in JobRecord /\ job[sJob].cancelRequested
    BY <1>4 DEF SdSignal, tableVars, IInv, TypeOK, WalkConsistent
  <2>2. Follows(job[sJob], new)
    BY <2>1 DEF JobRecord, Follows
  <2> HIDE DEF new
  <2>3. QED
    BY <2>1, <2>2, RewriteSteady
<1>5. QED
  BY <1>1, <1>2, <1>3, <1>4 DEF Shutdown

LEMMA AllSteady ==
  ASSUME IInv, Explained, [Next]_vars
  PROVE  \A j \in Jobs : Steady(j)
<1>1. CASE UNCHANGED vars
  BY <1>1 DEF vars, Steady, Follows
<1>2. QED
  BY <1>1, CallerSteady, WorkerSteady, ShutdownSteady DEF Next
-----------------------------------------------------------------------------
(* What a call knows of the job it looks at.  History has every truth of   *)
(* the job since the call began; so a value that is still in a record was  *)
(* a truth, though the record may have left the table since.               *)
Asked(c, j) ==
  /\ Born(j)
  /\ PromiseOf(j) \in since[c]
  /\ job[j].done /\ job[j].outcome = "value" => "value" \in since[c]

(* A call that reads has found the job finished; one that no longer looks  *)
(* for an error finds a value, or a job that was asked to stop.            *)
Reads(c, j) ==
  /\ call[c].at \in {"raise?", "error?", "return"} => job[j].done
  /\ call[c].at = "return" => job[j].outcome = "value" \/ job[j].cancelRequested

Tells(c, j) ==
  call[c].at = "answered" =>
    /\ call[c].answer \in {"value", "error", "null", "unknown"}
    /\ call[c].answer = "value" => "value" \in since[c]
    /\ call[c].answer \in {"error", "null"} => since[c] \cap {"novalue", "forgotten"} # {}
    /\ call[c].answer = "null" => job[j].cancelRequested
    /\ call[c].answer = "unknown" => "forgotten" \in since[c]

CallOK(c, j) == Asked(c, j) /\ Reads(c, j) /\ Tells(c, j)

CallRecord ==
  [at : {"idle", "announcing", "waiting", "raise?", "return", "handle", "ready?", "error?", "answered"},
   job : Jobs \cup {NoJob}, answer : {"none", "value", "error", "null", "unknown"}]

CallInv ==
  /\ call \in [Calls -> CallRecord]
  /\ \A c \in Calls : call[c].at # "idle" => call[c].job \in Jobs
  /\ \A c \in Calls, j \in Jobs : call[c].job = j => CallOK(c, j)

LEMMA Noting ==
  ASSUME Noted, NEW c \in Calls, NEW j \in Jobs, call'[c].job = j
  PROVE  since'[c] = since[c] \cup {PromiseOf(j)'}
BY AbsentAssumption DEF Noted, Truth

(* What a call knew it knows after every step of the queue. *)
LEMMA StillAsked ==
  ASSUME IInv', Noted, NEW c \in Calls, NEW j \in Jobs, call'[c].job = j,
         Asked(c, j), Steady(j)
  PROVE  Asked(c, j)' /\ since[c] \subseteq since'[c]
<1>1. since'[c] = since[c] \cup {PromiseOf(j)'}
  BY Noting
<1>2. Born(j)'
  BY DEF Asked, Steady, Follows, Born
<1>3. job'[j].done /\ job'[j].outcome = "value" => "value" \in since'[c]
  <2>1. CASE job[j].done
    BY <1>1, <2>1 DEF Asked, Steady, Follows
  <2>2. CASE ~job[j].done /\ job'[j].done
    BY <1>1, <2>2, PromiseValuesNext DEF Steady
  <2>3. QED
    BY <2>1, <2>2
<1>4. QED
  BY <1>1, <1>2, <1>3 DEF Asked

LEMMA StillOK ==
  ASSUME IInv', Noted, NEW c \in Calls, NEW j \in Jobs, call'[c].job = j,
         CallOK(c, j), Steady(j), call'[c] = call[c]
  PROVE  CallOK(c, j)'
<1>1. Asked(c, j)' /\ since[c] \subseteq since'[c]
  BY StillAsked DEF CallOK
<1>2. Reads(c, j)'
  BY DEF CallOK, Reads, Steady, Follows
<1>3. Tells(c, j)'
  BY <1>1 DEF CallOK, Tells, Steady, Follows
<1>4. QED
  BY <1>1, <1>2, <1>3 DEF CallOK

(* One call moves, and the others keep what they had. *)
LEMMA OneMoves ==
  ASSUME IInv', CallInv, Noted, \A j \in Jobs : Steady(j),
         NEW c \in Calls, NEW new \in CallRecord, call' = [call EXCEPT ![c] = new],
         new.at # "idle" => new.job \in Jobs,
         \A j \in Jobs : new.job = j => CallOK(c, j)'
  PROVE  CallInv'
<1>1. call'[c] = new /\ \A d \in Calls : d # c => call'[d] = call[d]
  BY DEF CallInv
<1>2. ASSUME NEW d \in Calls, NEW j \in Jobs, call'[d].job = j PROVE CallOK(d, j)'
  <2>1. CASE d = c
    BY <1>1, <1>2, <2>1
  <2>2. CASE d # c
    <3>1. CallOK(d, j) /\ call'[d] = call[d]
      BY <1>1, <1>2, <2>2 DEF CallInv
    <3>2. QED
      BY <1>2, <3>1, StillOK
  <2>3. QED
    BY <2>1, <2>2
<1>3. QED
  BY <1>1, <1>2 DEF CallInv

LEMMA NoneMoves ==
  ASSUME IInv', CallInv, Noted, \A j \in Jobs : Steady(j), UNCHANGED call
  PROVE  CallInv'
<1>1. ASSUME NEW d \in Calls, NEW j \in Jobs, call'[d].job = j PROVE CallOK(d, j)'
  BY <1>1, StillOK DEF CallInv
<1>2. QED
  BY <1>1 DEF CallInv

(* The steps in which a call takes up a job. *)
LEMMA TakesUp ==
  ASSUME IInv', CallInv, Noted, \A j \in Jobs : Steady(j), NEW c \in Calls, NEW j \in Jobs,
         NEW step \in {"announcing", "waiting"},
         call' = [call EXCEPT ![c] = [at |-> step, job |-> j, answer |-> "none"]],
         j \in records'
  PROVE  CallInv'
<1> DEFINE new == [at |-> step, job |-> j, answer |-> "none"]
<1>1. new \in CallRecord /\ new.job = j /\ new.at = step
  BY DEF CallRecord
<1>2. call'[c] = new
  BY DEF CallInv
<1>3. since'[c] = since[c] \cup {PromiseOf(j)'}
  BY <1>1, <1>2, Noting
<1>4. Born(j)'
  BY DEF IInv, TableConsistent
<1>5. Asked(c, j)'
  BY <1>3, <1>4, PromiseValuesNext DEF Asked
<1>6. Reads(c, j)' /\ Tells(c, j)'
  BY <1>1, <1>2 DEF Reads, Tells
<1> HIDE DEF new
<1>7. QED
  BY <1>1, <1>5, <1>6, OneMoves DEF CallOK, new

(* The steps of a call that goes on with its job. *)
LEMMA GoesOn ==
  ASSUME IInv', CallInv, Noted, \A j \in Jobs : Steady(j), NEW c \in Calls, NEW j \in Jobs,
         call[c].job = j, NEW new \in CallRecord, call' = [call EXCEPT ![c] = new], new.job = j,
         Asked(c, j)' /\ since[c] \subseteq since'[c] => Reads(c, j)' /\ Tells(c, j)'
  PROVE  CallInv'
<1>1. call'[c] = new /\ CallOK(c, j)
  BY DEF CallInv
<1>2. Asked(c, j)' /\ since[c] \subseteq since'[c]
  BY <1>1, StillAsked DEF CallOK
<1>3. QED
  BY <1>2, OneMoves DEF CallOK

LEMMA ClientStep ==
  ASSUME IInv, IInv', Explained, CallInv, Noted, \A j \in Jobs : Steady(j),
         NEW c \in Calls, Client(c)
  PROVE  CallInv'
<1>1. PICK j \in Jobs : call[c].job = j
  BY DEF CallInv, Client, CallAnnounces, WaitEnds, WaitTimesOut, Raise, ReturnResult, Ask,
         LookReady, LookError, At
<1>2. /\ call \in [Calls -> CallRecord] /\ call[c] \in CallRecord /\ CallOK(c, j)
  BY <1>1 DEF CallInv
<1> DEFINE goes(step) == [call[c] EXCEPT !.at = step]
           answers(answer) == [call[c] EXCEPT !.at = "answered", !.answer = answer]
<1>3. ASSUME NEW step \in {"announcing", "waiting", "raise?", "return", "handle", "ready?", "error?"}
      PROVE  /\ goes(step) \in CallRecord /\ goes(step).job = j
             /\ Goes(c, step) => call' = [call EXCEPT ![c] = goes(step)] /\ call'[c].at = step
  BY <1>1, <1>2 DEF CallRecord, Goes
<1>4. ASSUME NEW answer \in {"value", "error", "null", "unknown"}
      PROVE  /\ answers(answer) \in CallRecord /\ answers(answer).job = j
             /\ Answered(c, answer) =>
                  /\ call' = [call EXCEPT ![c] = answers(answer)]
                  /\ call'[c].at = "answered" /\ call'[c].answer = answer
  BY <1>1, <1>2 DEF CallRecord, Answered
<1> HIDE DEF goes, answers
<1>5. ASSUME NEW step \in {"announcing", "waiting", "raise?", "return", "handle", "ready?", "error?"},
             Goes(c, step),
             step \in {"raise?", "error?", "return"} => job'[j].done,
             step = "return" => job'[j].outcome = "value" \/ job'[j].cancelRequested
      PROVE  CallInv'
  <2>1. Reads(c, j)' /\ Tells(c, j)'
    BY <1>3, <1>5 DEF Reads, Tells
  <2>2. QED
    BY <1>1, <1>3, <1>5, <2>1, GoesOn
<1>6. ASSUME NEW answer \in {"value", "error", "null", "unknown"}, Answered(c, answer),
             Asked(c, j)' /\ since[c] \subseteq since'[c] =>
               /\ answer = "value" => "value" \in since'[c]
               /\ answer \in {"error", "null"} => since'[c] \cap {"novalue", "forgotten"} # {}
               /\ answer = "null" => job'[j].cancelRequested
               /\ answer = "unknown" => "forgotten" \in since'[c]
      PROVE  CallInv'
  <2>1. Asked(c, j)' /\ since[c] \subseteq since'[c] => Reads(c, j)' /\ Tells(c, j)'
    BY <1>4, <1>6 DEF Reads, Tells
  <2>2. QED
    BY <1>1, <1>4, <1>6, <2>1, GoesOn
<1>7. CASE CallAnnounces(c) \/ WaitTimesOut(c)
  BY <1>5, <1>7 DEF CallAnnounces, WaitTimesOut
<1>8. CASE WaitEnds(c)
  <2>1. Goes(c, "raise?") /\ job'[j].done
    BY <1>1, <1>8 DEF WaitEnds, Subject, vars
  <2>2. QED
    BY <1>5, <2>1
<1>9. ASSUME job[j].done, job[j].outcome # "value", UNCHANGED vars
      PROVE  PromiseOf(j)' \in {"novalue", "forgotten"}
  BY <1>2, <1>9, PromiseValuesNext DEF CallOK, Asked, vars, tableVars, Born
<1>10. CASE Raise(c)
  <2>1. job[j].done /\ UNCHANGED vars /\ UNCHANGED job
    BY <1>1, <1>2, <1>10 DEF Raise, At, CallOK, Reads, vars
  <2>2. CASE job[j].outcome = "exception"
    <3>1. Answered(c, "error")
      BY <1>1, <1>10, <2>2 DEF Raise, Subject
    <3>2. PromiseOf(j)' \in {"novalue", "forgotten"}
      BY <1>9, <2>1, <2>2
    <3>3. QED
      BY <1>6, <3>1, <3>2 DEF Asked
  <2>3. CASE job[j].outcome # "exception"
    <3>1. Goes(c, "return")
      BY <1>1, <1>10, <2>3 DEF Raise, Subject
    <3>2. job[j].outcome = "value" \/ job[j].cancelRequested
      BY <2>1, <2>3 DEF Explained, IInv, TypeOK, JobRecord, Outcome
    <3>3. QED
      BY <1>5, <2>1, <3>1, <3>2
  <2>4. QED
    BY <2>2, <2>3
<1>11. CASE ReturnResult(c)
  <2>1. /\ job[j].done /\ UNCHANGED vars /\ UNCHANGED job
        /\ job[j].outcome = "value" \/ job[j].cancelRequested
        /\ Answered(c, ValueOf(j))
    BY <1>1, <1>2, <1>11 DEF ReturnResult, At, Subject, CallOK, Reads, vars
  <2>2. CASE job[j].outcome = "value"
    <3>1. Answered(c, "value")
      BY <2>1, <2>2 DEF ValueOf
    <3>2. QED
      BY <1>6, <2>1, <2>2, <3>1 DEF Asked
  <2>3. CASE job[j].outcome # "value"
    <3>1. Answered(c, "null")
      BY <2>1, <2>3 DEF ValueOf
    <3>2. PromiseOf(j)' \in {"novalue", "forgotten"}
      BY <1>9, <2>1, <2>3
    <3>3. QED
      BY <1>6, <2>1, <2>3, <3>1, <3>2 DEF Asked
  <2>4. QED
    BY <2>2, <2>3
<1>12. ASSUME NEW cutoff \in Cutoffs, Ask(c, cutoff) PROVE CallInv'
  <2>1. records' = Retained(cutoff) /\ UNCHANGED job
    BY <1>12 DEF Ask, Query
  <2>2. CASE j \in Retained(cutoff)
    <3>1. Goes(c, "ready?")
      BY <1>1, <1>12, <2>2 DEF Ask, Subject
    <3>2. QED
      BY <1>5, <3>1
  <2>3. CASE j \notin Retained(cutoff)
    <3>1. Answered(c, "unknown")
      BY <1>1, <1>12, <2>3 DEF Ask, Subject
    <3>2. PromiseOf(j)' = "forgotten"
      BY <1>2, <2>1, <2>3, PromiseValuesNext DEF CallOK, Asked, Born
    <3>3. QED
      BY <1>6, <3>1, <3>2 DEF Asked
  <2>4. QED
    BY <2>2, <2>3
<1>13. CASE LookReady(c)
  <2>1. /\ UNCHANGED job
        /\ (job[j].done /\ Goes(c, "error?")) \/ Goes(c, "handle")
    BY <1>1, <1>13 DEF LookReady, Ready, Subject, vars
  <2>2. QED
    BY <1>5, <2>1
<1>14. CASE LookError(c)
  <2>1. job[j].done /\ UNCHANGED vars /\ UNCHANGED job
    BY <1>1, <1>2, <1>14 DEF LookError, At, CallOK, Reads, vars
  <2>2. CASE job[j].outcome \in {"exception", "error"}
    <3>1. Answered(c, "error")
      BY <1>1, <1>14, <2>2 DEF LookError, Subject
    <3>2. PromiseOf(j)' \in {"novalue", "forgotten"}
      BY <1>9, <2>1, <2>2
    <3>3. QED
      BY <1>6, <3>1, <3>2 DEF Asked
  <2>3. CASE job[j].outcome \notin {"exception", "error"}
    <3>1. Goes(c, "return")
      BY <1>1, <1>14, <2>3 DEF LookError, Subject
    <3>2. job[j].outcome = "value" \/ job[j].cancelRequested
      BY <2>1, <2>3 DEF Explained, IInv, TypeOK, JobRecord, Outcome
    <3>3. QED
      BY <1>5, <2>1, <3>1, <3>2
  <2>4. QED
    BY <2>2, <2>3
<1>15. QED
  BY <1>7, <1>8, <1>10, <1>11, <1>12, <1>13, <1>14 DEF Client

LEMMA CallStep ==
  ASSUME IInv, IInv', Explained, CallInv, CallNext, \A j \in Jobs : Steady(j)
  PROVE  CallInv'
<1>0. Noted
  BY DEF CallNext
<1>1. CASE OtherCalls
  BY <1>0, <1>1, NoneMoves DEF OtherCalls
<1>2. ASSUME NEW c \in Calls, Client(c) PROVE CallInv'
  BY <1>0, <1>2, ClientStep
<1>3. ASSUME NEW c \in Calls, NextCall(c) PROVE CallInv'
  <2>1. /\ NoCall \in CallRecord /\ NoCall.at = "idle" /\ NoCall.job = NoJob
        /\ call' = [call EXCEPT ![c] = NoCall]
    BY <1>3 DEF NextCall, NoCall, CallRecord
  <2> HIDE DEF NoCall
  <2>2. QED
    BY <1>0, <2>1, OneMoves, AbsentAssumption
<1>4. ASSUME NEW c \in Calls, NEW request \in JobRequests, NEW cutoff \in Cutoffs PROVE
        /\ CallReused(c, request[1], cutoff) => CallInv'
        /\ CallRefused(c, request[1], cutoff) => CallInv'
        /\ \A j \in Jobs : CallNew(c, j, request[1], request[2], cutoff) => CallInv'
  <2>1. PICK k \in Keys \cup {NoKey} : k = request[1]
    BY RequestsAssumption
  <2>2. ASSUME CallReused(c, k, cutoff) PROVE CallInv'
    <3>1. PICK j \in Jobs : j = idem[k] /\ j \in records'
      BY <2>2 DEF CallReused, SubmitReused, Known, KeysOf, Retained, IInv, TypeOK
    <3>2. call' = [call EXCEPT ![c] = [at |-> "waiting", job |-> j, answer |-> "none"]]
      BY <2>2, <3>1 DEF CallReused
    <3>3. QED
      BY <1>0, <3>1, <3>2, TakesUp
  <2>3. ASSUME CallRefused(c, k, cutoff) PROVE CallInv'
    BY <1>0, <2>3, NoneMoves DEF CallRefused
  <2>4. ASSUME NEW j \in Jobs, CallNew(c, j, k, request[2], cutoff) PROVE CallInv'
    <3>1. /\ j \in records'
          /\ call' = [call EXCEPT ![c] = [at |-> "announcing", job |-> j, answer |-> "none"]]
      BY <2>4 DEF CallNew, SubmitAccepted
    <3>2. QED
      BY <1>0, <3>1, TakesUp
  <2>5. QED
    BY <2>1, <2>2, <2>3, <2>4
<1>5. QED
  BY <1>1, <1>2, <1>3, <1>4 DEF CallNext

LEMMA ExplainedStep ==
  ASSUME IInv, Explained, [Next]_vars, \A j \in Jobs : Steady(j)
  PROVE  Explained'
<1>1. \A j \in Jobs : job'[j].outcome = "error" => job'[j].cancelRequested
  BY DEF Explained, Steady, Follows
<1>2. \A j \in Jobs : job'[j].done /\ job'[j].outcome = "none" => job'[j].cancelRequested
  BY DEF Explained, Steady, Follows
<1>3. ASSUME NEW w \in Workers, wpc'[w] \in {"committed", "stamped"}
      PROVE  job'[wjob'[w]].outcome # "none"
  <2>1. /\ \A v \in Workers : Holding(v) => wjob[v] \in Jobs
        /\ wpc \in [Workers -> {"test", "get", "held", "running", "committed", "stamped", "exited"}]
        /\ job \in [Jobs -> JobRecord]
    BY DEF IInv, TypeOK
  <2>2. ASSUME UNCHANGED <<wpc, wjob>> PROVE job'[wjob'[w]].outcome # "none"
    BY <1>3, <2>1, <2>2 DEF Explained, Steady, Follows, Holding, Executing
  <2>3. ASSUME NEW v \in Workers, Worker(v) PROVE job'[wjob'[w]].outcome # "none"
    <3>1. ASSUME NEW how \in {"returns", "raises", "cancels"}, Commit(v, how), v = w
          PROVE  job'[wjob'[w]].outcome # "none"
      <4> DEFINE new == Verdict(job[wjob[w]], how)
      <4>1. /\ wjob[w] \in Jobs /\ wjob' = wjob /\ job' = [job EXCEPT ![wjob[w]] = new]
            /\ job[wjob[w]] \in JobRecord /\ (how = "cancels" => job[wjob[w]].cancelRequested)
        BY <2>1, <3>1 DEF Commit, Holding, Executing
      <4>2. new.outcome # "none"
        BY <4>1, VerdictFields
      <4> HIDE DEF new
      <4>3. QED
        BY <2>1, <4>1, <4>2
    <3>2. ASSUME wpc[w] \in {"committed", "stamped"}, wjob'[w] = wjob[w]
          PROVE  job'[wjob'[w]].outcome # "none"
      BY <2>1, <3>2 DEF Explained, Steady, Follows, Holding, Executing
    <3>3. \/ \E how \in {"returns", "raises", "cancels"} : Commit(v, how) /\ v = w
          \/ wpc[w] \in {"committed", "stamped"} /\ wjob'[w] = wjob[w]
      <4>1. CASE Dequeue(v) \/ TestStopping(v) \/ GetTimesOut(v) \/ Skip(v) \/ Signal(v)
        BY <1>3, <2>1, <4>1 DEF Dequeue, TestStopping, GetTimesOut, Skip, Signal, NextRound, IInv, TypeOK
      <4>2. CASE Begin(v) \/ Stamp(v)
        BY <1>3, <2>1, <4>2 DEF Begin, Stamp
      <4>3. ASSUME NEW how \in {"returns", "raises", "cancels"}, Commit(v, how), v # w
            PROVE  wpc[w] \in {"committed", "stamped"} /\ wjob'[w] = wjob[w]
        BY <1>3, <2>1, <4>3 DEF Commit
      <4>4. QED
        BY <2>3, <4>1, <4>2, <4>3 DEF Worker
    <3>4. QED
      BY <3>1, <3>2, <3>3
  <2>4. CASE Caller \/ BeginShutdown \/ Shutdown
    <3>1. UNCHANGED <<wpc, wjob>>
      BY <2>4 DEF Caller, Query, SubmitReused, SubmitTableFull, SubmitQueueFull, SubmitAccepted,
                  Announce, Cancel, CancelForGrant, BeginShutdown, Shutdown, Snapshot, SdPick,
                  SdTest, SdExpire, SdSignal, SdEnd, workerVars
    <3>2. QED
      BY <2>2, <3>1
  <2>5. CASE UNCHANGED vars
    BY <2>2, <2>5 DEF vars, workerVars
  <2>6. QED
    BY <2>3, <2>4, <2>5 DEF Next
<1>4. QED
  BY <1>1, <1>2, <1>3 DEF Explained

(* A step of the calls, and what it preserves. *)
CallsInv == IInv /\ Explained /\ CallInv

LEMMA CallsStep == CallsInv /\ [CallNext]_jobCallVars => CallsInv' /\ [Next]_vars
<1> SUFFICES ASSUME CallsInv, [CallNext]_jobCallVars PROVE CallsInv' /\ [Next]_vars
  OBVIOUS
<1>1. CASE CallNext
  <2>1. clock \in Nat /\ \A c \in Calls : call[c].at = "announcing" => call[c].job \in Jobs
    BY DEF CallsInv, CallInv, IInv, TypeOK
  <2>2. [Next]_vars
    BY <1>1, <2>1, CallStepRuns
  <2>3. IInv' /\ \A j \in Jobs : Steady(j)
    BY <2>2, NextStep, AllSteady DEF CallsInv
  <2>4. QED
    BY <1>1, <2>2, <2>3, ExplainedStep, CallStep DEF CallsInv
<1>2. CASE UNCHANGED jobCallVars
  <2>1. UNCHANGED vars /\ UNCHANGED <<call, since>>
    BY <1>2 DEF jobCallVars, callVars
  <2>2. UNCHANGED <<job, records, wpc, wjob>>
    BY <2>1 DEF vars, tableVars, workerVars
  <2>3. IInv'
    BY <2>1, NextStep DEF CallsInv
  <2>4. Explained'
    BY <2>2 DEF CallsInv, Explained
  <2>5. CallInv'
    BY <2>1, <2>2 DEF CallsInv, CallInv, CallOK, Asked, Reads, Tells, Born, PromiseOf
  <2>6. QED
    BY <2>1, <2>3, <2>4, <2>5 DEF CallsInv
<1>3. QED
  BY <1>1, <1>2

LEMMA CallsInit == CallInit => CallsInv
<1> SUFFICES ASSUME CallInit PROVE CallsInv
  OBVIOUS
<1>1. IInv
  BY InitIInv DEF CallInit
<1>2. Explained
  BY DEF CallInit, Init, Explained, Unborn
<1>3. CallInv
  BY AbsentAssumption DEF CallInit, NoCall, CallInv, CallRecord
<1>4. QED
  BY <1>1, <1>2, <1>3 DEF CallsInv

(* The calls run the queue: whatever is proved of the queue, its promise   *)
(* included, holds while calls stand on it.                                *)
THEOREM CallsRunTheQueue == CallSpec => Spec
<1>1. CallInit => Init
  BY DEF CallInit
<1>2. QED
  BY <1>1, CallsInit, CallsStep, PTL DEF CallSpec, Spec

(* The same for the refinement: the promise of the queue is kept whatever  *)
(* the calls that stand on it do.                                          *)
THEOREM CallsKeepPromise == CallSpec => KeepsPromise
BY CallsRunTheQueue, ImplementsPromise, PTL

(* What a call is answered was true of its job at some moment of the call, *)
(* though it reads the record field by field and without the lock; and a   *)
(* call comes back empty only for a job that was asked to stop.            *)
THEOREM AnswersAreTrue == CallSpec => []AnswerWasTrue
<1>1. CallsInv => AnswerWasTrue
  <2> SUFFICES ASSUME CallsInv, NEW c \in Calls, At(c, "answered"), NEW j \in Jobs, call[c].job = j
               PROVE  CASE call[c].answer = "value" -> "value" \in since[c]
                        [] call[c].answer \in {"error", "null"} ->
                             /\ since[c] \cap {"novalue", "forgotten"} # {}
                             /\ call[c].answer = "null" => job[Subject(c)].cancelRequested
                        [] call[c].answer = "unknown" -> "forgotten" \in since[c]
    BY DEF AnswerWasTrue, CallsInv, CallInv, At
  <2>1. Tells(c, j)
    BY DEF CallsInv, CallInv, CallOK
  <2>2. QED
    BY <2>1 DEF Tells, At, Subject
<1>2. QED
  BY <1>1, CallsInit, CallsStep, PTL DEF CallSpec
=============================================================================
