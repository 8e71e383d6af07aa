------------------------------ MODULE JobCalls ------------------------------
(***************************************************************************)
(* The tool calls that stand on the job queue (service.py run_with_fallback *)
(* and job_result, jobs.py submit_and_wait and result).  A call submits a  *)
(* job, waits for it for the interactive budget, and reads its record      *)
(* without the lock, one field after the other; a call that overran is     *)
(* answered with a handle, which its client polls with job_result.         *)
(***************************************************************************)
EXTENDS JobManager

CONSTANTS
  Calls,         \* the clients, with one call each at a time
  JobRequests   \* the pairs of a key and a grant that calls come with

ASSUME RequestsAssumption == JobRequests \subseteq (Keys \cup {NoKey}) \X (Grants \cup {NoGrant})

VARIABLES
  call,    \* what a client does, for which job, and the answer it has
  since    \* history: what has been true of that job since it was submitted

callVars == <<call, since>>
jobCallVars == <<vars, callVars>>

NoCall == [at |-> "idle", job |-> NoJob, answer |-> "none"]
At(c, step) == call[c].at = step
Subject(c) == call[c].job
Goes(c, step) == call' = [call EXCEPT ![c].at = step]
Answered(c, answer) == call' = [call EXCEPT ![c].at = "answered", ![c].answer = answer]

CallInit == Init /\ call = [c \in Calls |-> NoCall] /\ since = [c \in Calls |-> {}]

(* The purges between "nothing yet" and "everything finished" are left to   *)
(* the runs of JobManager.                                                 *)
Cutoffs == {0, clock}

Truth == [j \in Jobs |-> PromiseOf(j)]

(* The truths of a job that a step makes are noted for the calls on it.    *)
Noted ==
  since' = [c \in Calls |->
              IF call'[c].job = NoJob THEN {} ELSE since[c] \cup {Truth'[call'[c].job]}]
-----------------------------------------------------------------------------
(* submit(), and the announcement the submitting thread makes before it    *)
(* waits; a key that is known gives the record it had before.              *)

CallNew(c, j, k, g, cutoff) ==
  /\ At(c, "idle")
  /\ SubmitAccepted(j, k, g, cutoff)
  /\ call' = [call EXCEPT ![c] = [at |-> "announcing", job |-> j, answer |-> "none"]]

CallReused(c, k, cutoff) ==
  /\ At(c, "idle")
  /\ SubmitReused(k, cutoff)
  /\ call' = [call EXCEPT ![c] = [at |-> "waiting", job |-> idem[k], answer |-> "none"]]

CallRefused(c, k, cutoff) ==
  /\ At(c, "idle")
  /\ SubmitTableFull(k, cutoff) \/ SubmitQueueFull(k, cutoff)
  /\ UNCHANGED call

CallAnnounces(c) ==
  /\ At(c, "announcing")
  /\ Announce(Subject(c))
  /\ Goes(c, "waiting")
-----------------------------------------------------------------------------
(* The wait: done, then exception, then result.                            *)

WaitEnds(c) ==
  /\ At(c, "waiting") /\ job[Subject(c)].done
  /\ Goes(c, "raise?")
  /\ UNCHANGED vars

WaitTimesOut(c) ==
  /\ At(c, "waiting") /\ ~job[Subject(c)].done
  /\ Goes(c, "handle")
  /\ UNCHANGED vars

Raise(c) ==
  /\ At(c, "raise?")
  /\ IF job[Subject(c)].outcome = "exception" THEN Answered(c, "error") ELSE Goes(c, "return")
  /\ UNCHANGED vars

ValueOf(j) == IF job[j].outcome = "value" THEN "value" ELSE "null"

ReturnResult(c) ==
  /\ At(c, "return")
  /\ Answered(c, ValueOf(Subject(c)))
  /\ UNCHANGED vars
-----------------------------------------------------------------------------
(* job_result: the record from the table, then done, error, and result.    *)

Ask(c, cutoff) ==
  /\ At(c, "handle")
  /\ Query(cutoff)
  /\ IF Subject(c) \in Retained(cutoff) THEN Goes(c, "ready?") ELSE Answered(c, "unknown")

ReadyByState(j) == job[j].state \notin {"queued", "running"}   \* fault: the state, not done
Ready(j) == job[j].done

LookReady(c) ==
  /\ At(c, "ready?")
  /\ Goes(c, IF Ready(Subject(c)) THEN "error?" ELSE "handle")
  /\ UNCHANGED vars

LookError(c) ==
  /\ At(c, "error?")
  /\ IF job[Subject(c)].outcome \in {"exception", "error"}
     THEN Answered(c, "error") ELSE Goes(c, "return")
  /\ UNCHANGED vars

(* The next call of a client that has its answer, or has lost patience.    *)
NextCall(c) ==
  /\ At(c, "answered") \/ At(c, "handle")
  /\ call' = [call EXCEPT ![c] = NoCall]
  /\ UNCHANGED vars

(* job_status and job_list purge, job_cancel cancels; both are immediate.  *)
OtherCalls ==
  /\ \/ \E cutoff \in Cutoffs : Query(cutoff)
     \/ \E j \in Jobs : Cancel(j)
     \/ \E g \in Grants : CancelForGrant(g)
     \/ (\E w \in Workers : Worker(w)) \/ BeginShutdown \/ Shutdown
  /\ UNCHANGED call

Client(c) ==
  \/ CallAnnounces(c) \/ WaitEnds(c) \/ WaitTimesOut(c) \/ Raise(c) \/ ReturnResult(c)
  \/ (\E cutoff \in Cutoffs : Ask(c, cutoff)) \/ LookReady(c) \/ LookError(c)

CallNext ==
  /\ \/ OtherCalls
     \/ \E c \in Calls :
          \/ Client(c) \/ NextCall(c)
          \/ \E request \in JobRequests, cutoff \in Cutoffs :
               \/ CallReused(c, request[1], cutoff) \/ CallRefused(c, request[1], cutoff)
               \/ \E j \in Jobs : CallNew(c, j, request[1], request[2], cutoff)
  /\ Noted

CallSpec == CallInit /\ [][CallNext]_jobCallVars

(* Threads run, waits time out, a client that has a handle asks, and every *)
(* runner returns or raises: that is what the operations promise by        *)
(* polling cancel_event.                                                   *)
CallFairSpec ==
  /\ CallSpec
  /\ \A c \in Calls : WF_jobCallVars(Client(c) /\ Noted)
  /\ \A w \in Workers : WF_jobCallVars(Worker(w) /\ UNCHANGED call /\ Noted)
  /\ WF_jobCallVars(Shutdown /\ UNCHANGED call /\ Noted)
-----------------------------------------------------------------------------
(* The fields of a record are read one by one while it is revoked, dropped *)
(* or shut down; still an answer says something that was true of the job   *)
(* at some moment of the call: a value only if the job was finished with a *)
(* value, an error or nothing only if it was finished without one, and an  *)
(* unknown job only if the table had let it go.  A call comes back empty,  *)
(* as if its operation had returned nothing, only for a job that somebody  *)
(* cancelled, revoked or shut down.                                        *)
AnswerWasTrue ==
  \A c \in Calls : At(c, "answered") =>
    CASE call[c].answer = "value" -> "value" \in since[c]
      [] call[c].answer \in {"error", "null"} ->
           /\ since[c] \cap {"novalue", "forgotten"} # {}
           /\ call[c].answer = "null" => job[Subject(c)].cancelRequested
      [] call[c].answer = "unknown" -> "forgotten" \in since[c]

(* Every call is answered, at once or to its client's questions, unless    *)
(* the client gives it up: no job is forgotten unfinished, whatever is     *)
(* cancelled, revoked or shut down.                                        *)
EveryCallIsAnswered ==
  \A c \in Calls : call[c].job # NoJob ~> At(c, "answered") \/ call[c].job = NoJob
=============================================================================
