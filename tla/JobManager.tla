----------------------------- MODULE JobManager -----------------------------
(***************************************************************************)
(* The background job queue of tiancheng_mcp/jobs.py: a bounded FIFO of    *)
(* job records served by daemon worker threads, a table of retained        *)
(* records with idempotency keys, cancellation by callers and by grant     *)
(* revocation, and a shutdown that walks the records without the lock.     *)
(*                                                                         *)
(* One action is one critical section of JobManager._lock, or one step of  *)
(* code that runs outside it.  Wall-clock times are ranks of a logical     *)
(* clock: only their order decides which record is purged or reclaimed.    *)
(*                                                                         *)
(* A definition marked "fault" stands in front of the one it replaces in a *)
(* mutation run; the specification does not use it.                        *)
(***************************************************************************)
EXTENDS Integers, FiniteSets, Sequences

CONSTANTS
  Jobs,        \* the records that submit() may create in one behaviour
  Workers,     \* the worker threads
  Keys, NoKey,       \* idempotency keys, and the absence of one
  Grants, NoGrant,   \* metadata["grant_id"], and the absence of one
  NoJob,
  MaxQueue,    \* max_queue
  MaxRecords   \* max_records

ASSUME QueueAssumption   == MaxQueue \in Nat \ {0}
ASSUME RecordsAssumption == MaxRecords \in Nat \ {0}
ASSUME AbsentAssumption  == NoJob \notin Jobs /\ NoKey \notin Keys /\ NoGrant \notin Grants
ASSUME FiniteAssumption  == IsFiniteSet(Jobs)

VARIABLES
  job,       \* the JobRecord objects
  records,   \* _records: the jobs still in the table
  idem,      \* _idempotency
  queue,     \* _queue
  gone,      \* grants whose jobs cancel_for_grant has swept
  clock,     \* time.time() as a rank
  wpc, wjob, \* each worker's place in _worker_loop and the record it holds
  stopping,  \* _stopping
  spc, sTodo, sJob  \* shutdown(): its place, the records left, the one in hand

tableVars == <<records, idem, queue>>
workerVars == <<wpc, wjob>>
shutdownVars == <<spc, sTodo, sJob>>
vars == <<job, tableVars, gone, clock, workerVars, stopping, shutdownVars>>

(* What is readable in a record: nothing, a result, an exception (with its *)
(* error text), or an error text alone.                                    *)
Outcome == {"none", "value", "exception", "error"}
State == {"unborn", "queued", "running", "succeeded", "failed", "cancelled", "expired"}

JobRecord == [state : State, outcome : Outcome, started : BOOLEAN, finishedAt : Nat,
              cancelRequested : BOOLEAN, revoked : BOOLEAN, done : BOOLEAN,
              announced : BOOLEAN, key : Keys \cup {NoKey}, grant : Grants \cup {NoGrant}]

Unborn == [state |-> "unborn", outcome |-> "none", started |-> FALSE, finishedAt |-> 0,
           cancelRequested |-> FALSE, revoked |-> FALSE, done |-> FALSE,
           announced |-> FALSE, key |-> NoKey, grant |-> NoGrant]

NewRecord(k, g) == [Unborn EXCEPT !.state = "queued", !.key = k, !.grant = g]

Init ==
  /\ job = [j \in Jobs |-> Unborn]
  /\ records = {} /\ idem = [k \in Keys |-> NoJob] /\ queue = <<>>
  /\ gone = {} /\ clock = 0
  /\ wpc = [w \in Workers |-> "test"] /\ wjob = [w \in Workers |-> NoJob]
  /\ stopping = FALSE
  /\ spc = "off" /\ sTodo = {} /\ sJob = NoJob

-----------------------------------------------------------------------------
(* Retention: a purge drops the finished records older than a cutoff, and  *)
(* reclaiming drops the oldest finished ones of a full table.              *)

Born(j) == job[j].state # "unborn"
StampedAtAll(j) == job[j].finishedAt > 0   \* fault: does not wait for done
Finished(j) == job[j].done /\ job[j].finishedAt > 0
Retained(cutoff) == {j \in records : ~(Finished(j) /\ job[j].finishedAt <= cutoff)}

OldestFirst(E, F) == \A e \in E, f \in F \ E : job[e].finishedAt <= job[f].finishedAt

Reclaimed(R) ==
  LET F == {j \in R : Finished(j)}
      overflow == Cardinality(R) - MaxRecords + 1
      n == IF overflow <= 0 THEN 0
           ELSE IF overflow < Cardinality(F) THEN overflow ELSE Cardinality(F)
  IN  {R \ E : E \in {X \in SUBSET F : Cardinality(X) = n /\ OldestFirst(X, F)}}

(* _drop_locked also forgets the keys of a record it drops. *)
KeysKept(R) == idem   \* fault: the dropped record keeps its key
KeysOf(R) == [k \in Keys |-> IF idem[k] \in R THEN idem[k] ELSE NoJob]

Known(k, R) == k # NoKey /\ KeysOf(R)[k] # NoJob

(* submit() puts one more record into the table. *)
HasRoom(R) == Cardinality(R) < MaxRecords

-----------------------------------------------------------------------------
(* submit(): its critical section ends in one of four ways. *)

SubmitReused(k, cutoff) ==
  /\ ~stopping
  /\ Known(k, Retained(cutoff))
  /\ records' = Retained(cutoff) /\ idem' = KeysOf(Retained(cutoff))
  /\ UNCHANGED <<job, queue, gone, clock, workerVars, stopping, shutdownVars>>

SubmitTableFull(k, cutoff) ==
  /\ ~stopping
  /\ ~Known(k, Retained(cutoff))
  /\ \E live \in Reclaimed(Retained(cutoff)) :
       /\ ~HasRoom(live)
       /\ records' = live /\ idem' = KeysOf(live)
  /\ UNCHANGED <<job, queue, gone, clock, workerVars, stopping, shutdownVars>>

SubmitQueueFull(k, cutoff) ==
  /\ ~stopping
  /\ ~Known(k, Retained(cutoff))
  /\ Len(queue) = MaxQueue
  /\ \E live \in Reclaimed(Retained(cutoff)) :
       /\ HasRoom(live)
       /\ records' = live /\ idem' = KeysOf(live)
  /\ UNCHANGED <<job, queue, gone, clock, workerVars, stopping, shutdownVars>>

SubmitAccepted(j, k, g, cutoff) ==
  /\ ~stopping
  /\ ~Born(j)
  /\ ~Known(k, Retained(cutoff))
  /\ Len(queue) < MaxQueue
  /\ \E live \in Reclaimed(Retained(cutoff)) :
       /\ HasRoom(live)
       /\ records' = live \cup {j}
       /\ idem' = [i \in Keys |-> IF i = k THEN j ELSE KeysOf(live)[i]]
  /\ job' = [job EXCEPT ![j] = NewRecord(k, g)]
  /\ queue' = Append(queue, j)
  /\ UNCHANGED <<gone, clock, workerVars, stopping, shutdownVars>>

(* After the critical section: observe('queued'), observation_ready.set(). *)
Announce(j) ==
  /\ Born(j) /\ ~job[j].announced
  /\ job' = [job EXCEPT ![j].announced = TRUE]
  /\ UNCHANGED <<tableVars, gone, clock, workerVars, stopping, shutdownVars>>

(* get(), and so status() and result(), and list(): they only purge. *)
Query(cutoff) ==
  /\ records' = Retained(cutoff) /\ idem' = KeysOf(Retained(cutoff))
  /\ UNCHANGED <<job, queue, gone, clock, workerVars, stopping, shutdownVars>>

-----------------------------------------------------------------------------
(* Cancellation. *)

Cancel(j) ==
  /\ j \in records /\ ~job[j].done
  /\ IF job[j].state = "queued"
     THEN /\ job' = [job EXCEPT ![j] = [@ EXCEPT !.cancelRequested = TRUE, !.done = TRUE,
                                                 !.state = "cancelled", !.finishedAt = clock + 1]]
          /\ clock' = clock + 1
     ELSE /\ job' = [job EXCEPT ![j].cancelRequested = TRUE]
          /\ UNCHANGED clock
  /\ UNCHANGED <<tableVars, gone, workerVars, stopping, shutdownVars>>

RevokedAtOnce(r) ==   \* fault: done under a running runner
  [r EXCEPT !.revoked = TRUE, !.cancelRequested = TRUE, !.state = "expired",
            !.outcome = "exception", !.finishedAt = clock + 1, !.done = TRUE]

Revoked(r) ==
  LET hidden == [r EXCEPT !.revoked = TRUE, !.cancelRequested = TRUE,
                          !.state = "expired", !.outcome = "exception"]
  IN  IF r.started THEN hidden
      ELSE [hidden EXCEPT !.finishedAt = clock + 1, !.done = TRUE]

(* Every caller retires its grant first, so one grant is swept once. *)
CancelForGrant(g) ==
  /\ g \notin gone
  /\ gone' = gone \cup {g}
  /\ job' = [j \in Jobs |-> IF j \in records /\ job[j].grant = g THEN Revoked(job[j]) ELSE job[j]]
  /\ clock' = IF job' = job THEN clock ELSE clock + 1
  /\ UNCHANGED <<tableVars, workerVars, stopping, shutdownVars>>

-----------------------------------------------------------------------------
(* _worker_loop(). *)

DequeueKept(w) ==   \* fault: the record stays at the head
  /\ wpc[w] = "get" /\ queue # <<>>
  /\ wpc' = [wpc EXCEPT ![w] = "held"] /\ wjob' = [wjob EXCEPT ![w] = Head(queue)]
  /\ UNCHANGED <<job, tableVars, gone, clock, stopping, shutdownVars>>

Dequeue(w) ==
  /\ wpc[w] = "get" /\ queue # <<>>
  /\ wpc' = [wpc EXCEPT ![w] = "held"] /\ wjob' = [wjob EXCEPT ![w] = Head(queue)]
  /\ queue' = Tail(queue)
  /\ UNCHANGED <<job, records, idem, gone, clock, stopping, shutdownVars>>

(* get() times out on an empty queue: the record that comes before the     *)
(* loop has looked at _stopping is left where it is.                       *)
GetTimesOut(w) ==
  /\ wpc[w] = "get" /\ queue = <<>>
  /\ wpc' = [wpc EXCEPT ![w] = "test"]
  /\ UNCHANGED <<job, tableVars, gone, clock, wjob, stopping, shutdownVars>>

(* The top of the loop, where a worker leaves. *)
TestStopping(w) ==
  /\ wpc[w] = "test"
  /\ wpc' = [wpc EXCEPT ![w] = IF stopping THEN "exited" ELSE "get"]
  /\ UNCHANGED <<job, tableVars, gone, clock, wjob, stopping, shutdownVars>>

(* It is reached again with a record just finished or skipped. *)
NextRound(w) ==
  /\ wpc' = [wpc EXCEPT ![w] = "test"]
  /\ wjob' = [wjob EXCEPT ![w] = NoJob]

Skip(w) ==
  /\ wpc[w] = "held" /\ job[wjob[w]].announced /\ job[wjob[w]].done
  /\ NextRound(w)
  /\ UNCHANGED <<job, tableVars, gone, clock, stopping, shutdownVars>>

Begin(w) ==
  /\ wpc[w] = "held" /\ job[wjob[w]].announced /\ ~job[wjob[w]].done
  /\ job' = [job EXCEPT ![wjob[w]] = [@ EXCEPT !.state = "running", !.started = TRUE]]
  /\ wpc' = [wpc EXCEPT ![w] = "running"]
  /\ UNCHANGED <<tableVars, gone, clock, wjob, stopping, shutdownVars>>

(* How the runner ends: it returns, it raises, or it notices cancel_event. *)
VerdictOfRunner(r, how) ==   \* fault: a commit that does not look at the revocation
  CASE how = "returns" /\ r.cancelRequested -> [r EXCEPT !.state = "cancelled", !.outcome = "error"]
    [] how = "returns" /\ ~r.cancelRequested -> [r EXCEPT !.state = "succeeded", !.outcome = "value"]
    [] how = "raises" -> [r EXCEPT !.state = "failed", !.outcome = "exception"]
    [] how = "cancels" -> [r EXCEPT !.state = "cancelled", !.outcome = "exception"]

Verdict(r, how) ==
  IF r.revoked THEN [r EXCEPT !.state = "expired", !.outcome = "exception"]
  ELSE CASE how = "returns" /\ r.cancelRequested -> [r EXCEPT !.state = "cancelled", !.outcome = "error"]
         [] how = "returns" /\ ~r.cancelRequested -> [r EXCEPT !.state = "succeeded", !.outcome = "value"]
         [] how = "raises" -> [r EXCEPT !.state = IF r.cancelRequested THEN "cancelled" ELSE "failed",
                                        !.outcome = "exception"]
         [] how = "cancels" -> [r EXCEPT !.state = "cancelled", !.outcome = "exception"]

Commit(w, how) ==
  /\ wpc[w] = "running"
  /\ how = "cancels" => job[wjob[w]].cancelRequested
  /\ job' = [job EXCEPT ![wjob[w]] = Verdict(@, how)]
  /\ wpc' = [wpc EXCEPT ![w] = "committed"]
  /\ UNCHANGED <<tableVars, gone, clock, wjob, stopping, shutdownVars>>

Stamp(w) ==
  /\ wpc[w] = "committed"
  /\ job' = [job EXCEPT ![wjob[w]].finishedAt = clock + 1]
  /\ clock' = clock + 1
  /\ wpc' = [wpc EXCEPT ![w] = "stamped"]
  /\ UNCHANGED <<tableVars, gone, wjob, stopping, shutdownVars>>

Signal(w) ==
  /\ wpc[w] = "stamped"
  /\ job' = [job EXCEPT ![wjob[w]].done = TRUE]
  /\ NextRound(w)
  /\ UNCHANGED <<tableVars, gone, clock, stopping, shutdownVars>>

-----------------------------------------------------------------------------
(* shutdown(): the lock is held for the snapshot only. *)

BeginShutdown ==
  /\ ~stopping
  /\ stopping' = TRUE /\ spc' = "snapshot"
  /\ UNCHANGED <<job, tableVars, gone, clock, workerVars, sTodo, sJob>>

Snapshot ==
  /\ spc = "snapshot"
  /\ sTodo' = records /\ spc' = "loop"
  /\ UNCHANGED <<job, tableVars, gone, clock, workerVars, stopping, sJob>>

SdPick(j) ==
  /\ spc = "loop" /\ j \in sTodo
  /\ sTodo' = sTodo \ {j}
  /\ IF job[j].done
     THEN UNCHANGED <<job, spc, sJob>>
     ELSE /\ job' = [job EXCEPT ![j].cancelRequested = TRUE]
          /\ spc' = "test" /\ sJob' = j
  /\ UNCHANGED <<tableVars, gone, clock, workerVars, stopping>>

SdTestLate ==   \* fault: the workers are trusted with what is still queued
  /\ spc = "test" /\ spc' = "loop"
  /\ UNCHANGED <<job, tableVars, gone, clock, workerVars, stopping, sTodo, sJob>>

SdTest ==
  /\ spc = "test"
  /\ spc' = IF job[sJob].state = "queued" THEN "expire" ELSE "loop"
  /\ UNCHANGED <<job, tableVars, gone, clock, workerVars, stopping, sTodo, sJob>>

SdExpire ==
  /\ spc = "expire"
  /\ job' = [job EXCEPT ![sJob] = [@ EXCEPT !.state = "expired", !.finishedAt = clock + 1,
                                            !.outcome = IF job[sJob].outcome = "exception"
                                                        THEN "exception" ELSE "error"]]
  /\ clock' = clock + 1
  /\ spc' = "signal"
  /\ UNCHANGED <<tableVars, gone, workerVars, stopping, sTodo, sJob>>

SdSilent ==   \* fault: nobody learns that the queued job is over
  /\ spc = "signal" /\ spc' = "loop"
  /\ UNCHANGED <<job, tableVars, gone, clock, workerVars, stopping, sTodo, sJob>>

SdSignal ==
  /\ spc = "signal"
  /\ job' = [job EXCEPT ![sJob].done = TRUE]
  /\ spc' = "loop"
  /\ UNCHANGED <<tableVars, gone, clock, workerVars, stopping, sTodo, sJob>>

SdEnd ==
  /\ spc = "loop" /\ sTodo = {}
  /\ spc' = "over"
  /\ UNCHANGED <<job, tableVars, gone, clock, workerVars, stopping, sTodo, sJob>>

-----------------------------------------------------------------------------
Caller ==
  \/ \E cutoff \in 0 .. clock : Query(cutoff)
  \/ \E k \in Keys \cup {NoKey}, cutoff \in 0 .. clock :
       \/ SubmitReused(k, cutoff) \/ SubmitTableFull(k, cutoff) \/ SubmitQueueFull(k, cutoff)
       \/ \E j \in Jobs, g \in Grants \cup {NoGrant} : SubmitAccepted(j, k, g, cutoff)
  \/ \E j \in Jobs : Announce(j) \/ Cancel(j)
  \/ \E g \in Grants : CancelForGrant(g)

Worker(w) ==
  \/ TestStopping(w) \/ Dequeue(w) \/ GetTimesOut(w) \/ Skip(w) \/ Begin(w) \/ Stamp(w) \/ Signal(w)
  \/ \E how \in {"returns", "raises", "cancels"} : Commit(w, how)

Shutdown ==
  \/ Snapshot \/ SdTest \/ SdExpire \/ SdSignal \/ SdEnd
  \/ \E j \in Jobs : SdPick(j)

Next == Caller \/ (\E w \in Workers : Worker(w)) \/ BeginShutdown \/ Shutdown

Spec == Init /\ [][Next]_vars
-----------------------------------------------------------------------------
(* Properties. *)

Executing(w) == wpc[w] \in {"running", "committed", "stamped"}
Holding(w) == wpc[w] = "held" \/ Executing(w)
Queued(j) == \E i \in DOMAIN queue : queue[i] = j

(* Every variable has its type, and the two bounds of the constructor      *)
(* hold: the queue and the table never exceed max_queue and max_records.   *)
TypeOK ==
  /\ job \in [Jobs -> JobRecord]
  /\ records \in SUBSET Jobs /\ Cardinality(records) <= MaxRecords
  /\ idem \in [Keys -> Jobs \cup {NoJob}]
  /\ queue \in Seq(Jobs) /\ Len(queue) <= MaxQueue
  /\ gone \in SUBSET Grants /\ clock \in Nat
  /\ wpc \in [Workers -> {"test", "get", "held", "running", "committed", "stamped", "exited"}]
  /\ wjob \in [Workers -> Jobs \cup {NoJob}]
  /\ \A w \in Workers : Holding(w) => wjob[w] \in Jobs
  /\ stopping \in BOOLEAN
  /\ spc \in {"off", "snapshot", "loop", "test", "expire", "signal", "over"}
  /\ sTodo \in SUBSET Jobs /\ sJob \in Jobs \cup {NoJob}
  /\ spc \in {"test", "expire", "signal"} => sJob \in Jobs

(* A key names a retained record of that key, and two submissions with one *)
(* key never both have work outstanding: a retry finds the first job as    *)
(* long as it is unfinished, whatever was purged or reclaimed meanwhile.   *)
OneJobPerKey ==
  /\ \A k \in Keys : idem[k] # NoJob => idem[k] \in records /\ job[idem[k]].key = k
  /\ \A i, j \in Jobs :
       Born(i) /\ Born(j) /\ job[i].key = job[j].key /\ job[i].key # NoKey => 
         i = j \/ job[i].done \/ job[j].done

(* CHANGELOG "revoked result": once a grant's sweep has reached a record,  *)
(* no later commit of its worker, cancellation or shutdown shows a result. *)
RevokedStaysHidden ==
  \A j \in Jobs : job[j].revoked => job[j].state = "expired" /\ job[j].outcome = "exception"

(* An unfinished job is never dropped: it stays in the table, and it waits *)
(* in the queue or is in a worker's hands.  Once shutdown's walk is over,  *)
(* only jobs that a worker still executes are unfinished.                  *)
NoLostJob ==
  \A j \in Jobs : Born(j) /\ ~job[j].done =>
    /\ j \in records
    /\ Queued(j) \/ \E w \in Workers : Holding(w) /\ wjob[w] = j
    /\ spc = "over" => \E w \in Workers : Executing(w) /\ wjob[w] = j

(* A job is executed by one worker at most, and is never executed again.   *)
RunsOnce ==
  \A w \in Workers : wpc[w] = "held" =>
    /\ ~job[wjob[w]].started
    /\ \A v \in Workers \ {w} : Holding(v) => wjob[v] # wjob[w]

(* Until shutdown begins, a finished job has no thread left in its runner: *)
(* "done" is never set under a runner by a cancellation or a revocation.   *)
DoneMeansStopped ==
  ~stopping => \A w \in Workers : Executing(w) => ~job[wjob[w]].done

(* The same, claimed without exception (manual/jobs-and-processes.md: the  *)
(* service keeps the state of a thread that cannot be stopped and does not *)
(* fabricate "stopped").                                                   *)
NoFabricatedStop ==
  \A w \in Workers : Executing(w) => ~job[wjob[w]].done

(* Callers see a promise per job: pending until done, and forgotten once   *)
(* its record is dropped.                                                  *)
PromiseOf(j) ==
  CASE ~Born(j) -> "none"
    [] Born(j) /\ j \notin records -> "forgotten"
    [] j \in records /\ ~job[j].done -> "pending"
    [] j \in records /\ job[j].done /\ job[j].outcome = "value" -> "value"
    [] j \in records /\ job[j].done /\ job[j].outcome # "value" -> "novalue"

Promise == INSTANCE JobPromise WITH
  promise <- [j \in Jobs |-> PromiseOf(j)],
  key <- [j \in Jobs |-> job[j].key],
  owner <- [j \in Jobs |-> job[j].grant],
  hidden <- [j \in Jobs |-> job[j].revoked]

(* The queue implements that promise, shutdown's unlocked walk included:   *)
(* one unforgotten job per key, no value without a finished job, no value  *)
(* once the grant is swept, and no settled job that changes otherwise.     *)
KeepsPromise == Promise!Spec
=============================================================================
