--------------------------- MODULE AgentRunsProofs ---------------------------
(***************************************************************************)
(* Proofs about the runs of an agent session, for any number of threads,   *)
(* runs, calls and slots.                                                  *)
(*                                                                         *)
(* Who may change a run is decided by three things: the session's lock,    *)
(* held by the start, the revocation and whatever they call; the run's     *)
(* lock, held by the refresh that decides its state; and the watcher's     *)
(* steps, which no other thread takes.                                     *)
(***************************************************************************)
EXTENDS AgentRuns, TLAPS

-----------------------------------------------------------------------------
(* The inductive invariant. *)

Statuses == {"running", "timed_out", "stopped", "exited"}
Steps == {"idle", "lock", "again", "decide", "stop", "unlock", "sweep", "spawn", "register", "insert",
          "publish", "hook", "each", "active?", "mark", "revoke", "closing", "survey", "reap", "stopall",
          "down", "wait", "end", "finish"}
Call == [at : Steps, run : Threads, seen : Statuses, todo : SUBSET Runs,
         back : {"idle", "sweep", "unlock", "active?", "each", "survey", "reap"},
         after : {"idle", "decide", "unlock", "lock", "revoke", "stopall"}]

RunTypes ==
  /\ proc \in [Runs -> Process] /\ run \in [Runs -> RunState] /\ thread \in [Threads -> Call]
  /\ service \in [slotsClosed : BOOLEAN, closing : BOOLEAN, down : BOOLEAN]
  /\ session \in [closed : BOOLEAN, lock : Threads \cup {Nobody}]

(* What a thread is at. *)
Entering(t) == thread[t].at \in {"spawn", "register", "insert"}
StoppingAll(t) == thread[t].at = "stopall" \/ thread[t].after = "stopall"
Draining(t) == thread[t].at \in {"again", "decide"} \/ thread[t].after = "decide"
HoldsSession(t) ==
  \/ Entering(t) \/ thread[t].at \in {"sweep", "publish", "hook", "unlock", "revoke"}
  \/ thread[t].back \in {"sweep", "unlock"} \/ thread[t].after \in {"unlock", "revoke"}
InShutdown(t) ==
  StoppingAll(t) \/ thread[t].at \in {"survey", "reap"} \/ thread[t].back \in {"survey", "reap"}

(* The fields of a call that mean nothing at its step are cleared.         *)
Tidy(t) ==
  /\ thread[t].back # "idle" => thread[t].at \in {"lock", "again", "decide", "stop"}
  /\ thread[t].after # "idle" <=> thread[t].at = "stop"
  /\ thread[t].after \in {"unlock", "revoke", "stopall"} => thread[t].back = "idle"
  /\ thread[t].at \in {"lock", "again", "decide", "stop", "active?", "mark", "publish", "hook"} \/ Entering(t) =>
       Hand(t) \in Runs
  /\ thread[t].seen # "running" => thread[t].at \in {"again", "publish"} \/ Draining(t)

(* A watcher, by its step: how far its process is.                         *)
WatcherOK(r) ==
  /\ thread[r].at \in {"idle", "wait", "end", "finish", "lock", "again", "decide", "stop"}
  /\ Hand(r) = r /\ thread[r].back = "idle" /\ thread[r].todo = {} /\ thread[r].after \in {"idle", "decide"}
  /\ thread[r].at = "wait" => proc[r].known = "yes" /\ ~proc[r].clean
  /\ thread[r].at = "end" => proc[r].known = "yes" /\ proc[r].clean /\ ~proc[r].ended
  /\ thread[r].at = "finish" => proc[r].known = "yes" /\ proc[r].ended /\ ~proc[r].finished
  /\ thread[r].at \in {"lock", "again", "decide", "stop"} => proc[r].finished /\ run[r].told
  /\ proc[r].known = "yes" /\ ~proc[r].finished => thread[r].at \in {"wait", "end", "finish"}
  /\ proc[r].known = "no" => thread[r].at = "idle"

(* A process's record goes one way.                                        *)
RecordOK(r) ==
  /\ proc[r].finished => proc[r].ended
  /\ proc[r].ended => proc[r].clean
  /\ proc[r].clean => proc[r].os = "dead"
  /\ proc[r].known = "no" => ~proc[r].clean /\ ~proc[r].unread /\ ~run[r].in
  /\ proc[r].known = "history" <=> run[r].final
  /\ run[r].final => run[r].in /\ proc[r].finished
  /\ proc[r].callback => run[r].told
  /\ run[r].told => run[r].in
  /\ ~run[r].in => run[r].state = "queued" /\ run[r].override = "none"

(* The run of a process, and who knows of its end.                         *)
RunOK(r) ==
  /\ run[r].in /\ ~IsActive(r) /\ run[r].override = "none" => ~Alive(r)
  /\ run[r].final /\ run[r].override = "none" => ~proc[r].unread
  /\ run[r].final /\ ~service.closing => ~IsActive(r)
  /\ run[r].told /\ ~proc[r].finished => proc[r].callback
  /\ run[r].told /\ proc[r].finished /\ ~run[r].final =>
       \/ thread[r].at \in {"lock", "again", "decide", "stop"}
       \/ \E t \in Callers : Hand(t) = r /\ thread[t].back = "unlock"
  /\ Alive(r) /\ proc[r].known = "no" => \E t \in Callers : Hand(t) = r /\ thread[t].at = "register"

(* A refresh has its run's lock, and knows no more than there was.         *)
DrainOK(t) ==
  /\ Draining(t) => run[Hand(t)].lock = t /\ ~run[Hand(t)].final
  /\ thread[t].after = "decide" => run[Hand(t)].override # "none"
  /\ thread[t].seen # "running" => proc[Hand(t)].ended
  /\ thread[t].at \in {"again", "decide"} /\ thread[t].seen # "running" /\ run[Hand(t)].override = "none" =>
       ~proc[Hand(t)].unread
  /\ thread[t].back = "unlock" => proc[Hand(t)].finished
  /\ Draining(t) /\ (t \in Runs \/ thread[t].back = "unlock") => thread[t].seen # "running"

(* A start, a sweep and shutdown's list.                                   *)
StartOK(t) ==
  /\ HoldsSession(t) => session.lock = t
  /\ thread[t].at = "spawn" => proc[Hand(t)].os = "none" /\ proc[Hand(t)].known = "no"
  /\ thread[t].at = "register" => proc[Hand(t)].known = "no"
  /\ thread[t].at = "insert" => proc[Hand(t)].known = "yes" /\ ~run[Hand(t)].in
  /\ thread[t].at \in {"publish", "hook"} => ~run[Hand(t)].told
  /\ Entering(t) => \A q \in Runs : run[q].in => ~Alive(q) \/ run[q].override # "none"

ListOK(t) ==
  /\ InShutdown(t) => service.closing
  /\ \A r \in thread[t].todo : IF StoppingAll(t) THEN proc[r].known # "no" ELSE run[r].in
  /\ t \in Callers /\ Hand(t) \in Runs /\ ~Entering(t) =>
       IF thread[t].after = "stopall" THEN proc[Hand(t)].known # "no" ELSE run[Hand(t)].in
  /\ StoppingAll(t) => \A r \in Runs : Alive(r) /\ proc[r].known = "yes" =>
       r \in thread[t].todo \/ (thread[t].after = "stopall" /\ Hand(t) = r)

(* Nobody else has the run that is being published in hand.                *)
Alone(t) ==
  thread[t].at = "publish" /\ ~service.closing =>
    /\ ~run[Hand(t)].final
    /\ \A u \in Callers \ {t} : Hand(u) # Hand(t) /\ Hand(t) \notin thread[u].todo

DownOK == service.down => service.closing /\ \A r \in Runs : Alive(r) => proc[r].known = "no"

RunsInv ==
  /\ RunTypes /\ DownOK /\ OneWantedRun
  /\ \A r \in Runs : WatcherOK(r) /\ RecordOK(r) /\ RunOK(r)
  /\ \A t \in Threads : Tidy(t) /\ DrainOK(t) /\ StartOK(t) /\ ListOK(t)
  /\ \A t \in Callers : Alone(t)
-----------------------------------------------------------------------------
(* What a step has to show: that the threads T it moves and the runs R it  *)
(* changes are as they should, and that it leaves the others' alone.       *)

Refreshes == {"lock", "again", "decide", "stop"}
Own(t) == Tidy(t) /\ DrainOK(t) /\ StartOK(t) /\ ListOK(t)
Known(r) == WatcherOK(r) /\ RecordOK(r) /\ RunOK(r)

(* What a step of others may do to run q under thread u. *)
Steady(q, u) ==
  /\ run[q].lock = u => run'[q].lock = u /\ run'[q].final = run[q].final
  /\ run[q].override # "none" => run'[q].override # "none"
  /\ proc[q].ended => proc'[q].ended /\ (proc'[q].unread => proc[q].unread)
  /\ proc[q].finished => proc'[q].finished
  /\ proc[q].known # "no" => proc'[q].known # "no"
  /\ run[q].in => run'[q].in
  /\ service.closing /\ Alive(q)' /\ proc'[q].known = "yes" => Alive(q) /\ proc[q].known = "yes"
  /\ session.lock = u =>
       /\ run'[q].in = run[q].in /\ run'[q].told = run[q].told
       /\ ~run[q].in => proc'[q].known = proc[q].known
       /\ proc[q].known = "no" /\ proc[q].os = "none" => proc'[q].os = "none"
       /\ run[q].in /\ Alive(q)' => Alive(q)

(* Who knows of the end of q still does. *)
Witnessed(q, t) ==
  /\ thread[t].back = "unlock" /\ Hand(t) = q => thread'[t].back = "unlock" /\ Hand(t)' = q
  /\ thread[t].at = "register" /\ Hand(t) = q => thread'[t].at = "register" /\ Hand(t)' = q
  /\ t = q /\ thread[t].at \in Refreshes => thread'[t].at \in Refreshes

(* A thread takes in hand what it had, what is told, or what it may. *)
Follows(t) ==
  \/ service'.closing \/ session.lock \in {Nobody, t}
  \/ /\ \A r \in thread'[t].todo : r \in thread[t].todo \/ run[r].told
     /\ Hand(t)' \in {t, Hand(t)} \cup thread[t].todo \/ run[Hand(t)'].told

LEMMA Frame ==
  ASSUME RunsInv, RunTypes', NEW T, NEW R,
         \A u \in Threads \ T : thread'[u] = thread[u] /\ (session.lock = u => session'.lock = u),
         \A q \in Runs \ R : proc'[q] = proc[q] /\ run'[q] = run[q],
         service.closing => service'.closing, DownOK', OneWantedRun',
         \A t \in Threads \cap T : Own(t)',
         \A t \in Callers \cap T : Alone(t)' /\ Follows(t),
         \A r \in Runs \cap T : WatcherOK(r)',
         \A r \in Runs \cap R : Known(r)',
         \A r \in Runs \cap R : run'[r].final =>
           run[r].final \/ run[r].told \/ (\E t \in Callers \cap T : Hand(t) = r),
         \A q \in Runs \ R, t \in Threads \cap T : Witnessed(q, t),
         \A q \in Runs \cap R, u \in Threads \ T : Steady(q, u)
  PROVE  RunsInv'
<1>0. RunTypes /\ RunTypes' /\ Nobody \notin Threads /\ Callers \cap Runs = {} /\ Threads = Callers \cup Runs
  BY SlotsAssumption DEF RunsInv, Threads
<1>1. ASSUME NEW u \in Threads \ T PROVE Own(u)'
  <2> DEFINE h == Hand(u)
  <2>1. thread'[u] = thread[u] /\ (session.lock = u => session'.lock = u) /\ Own(u)
    BY <1>1 DEF RunsInv, Own
  <2>2. \A q \in Runs : Steady(q, u)
    <3>1. \A q \in Runs \ R : Steady(q, u)
      BY DEF Steady, Alive
    <3> QED
      BY <1>1, <3>1
  <2>3. Tidy(u)'
    BY <2>1 DEF Own, Tidy, Draining, Entering, Hand
  <2>4. DrainOK(u)'
    BY <2>1, <2>2 DEF Own, Tidy, DrainOK, Draining, Entering, Hand, Steady
  <2>5. StartOK(u)'
    <3>1. StartOK(u) /\ Tidy(u) /\ Hand(u)' = Hand(u) /\ (Entering(u)' <=> Entering(u))
      BY <2>1 DEF Own, Entering, Hand
    <3>2. (HoldsSession(u)' <=> HoldsSession(u)) /\ (HoldsSession(u)' => session'.lock = u)
      BY <2>1, <3>1 DEF StartOK, HoldsSession, Entering
    <3>3. CASE ~HoldsSession(u)
      BY <2>1, <3>1, <3>2, <3>3 DEF StartOK, HoldsSession, Entering
    <3>4. CASE HoldsSession(u)
      <4>1. session.lock = u
        BY <3>1, <3>4 DEF StartOK
      <4>2. Entering(u)' => \A q \in Runs : run'[q].in => ~Alive(q)' \/ run'[q].override # "none"
        BY <2>2, <3>1, <4>1 DEF StartOK, Steady
      <4>3. Entering(u) \/ thread[u].at \in {"publish", "hook"} => Hand(u) \in Runs
        BY <3>1 DEF Tidy
      <4>4. Hand(u) \in Runs /\ proc[Hand(u)].known = "no" => ~run[Hand(u)].in
        BY DEF RunsInv, RecordOK
      <4> QED
        BY <2>1, <2>2, <3>1, <3>2, <4>1, <4>2, <4>3, <4>4 DEF StartOK, Entering, Steady
    <3> QED
      BY <3>3, <3>4
  <2>6. ListOK(u)'
    <3>1. /\ ListOK(u) /\ Hand(u)' = Hand(u) /\ thread[u].todo \subseteq Runs /\ (InShutdown(u)' <=> InShutdown(u))
          /\ (StoppingAll(u)' <=> StoppingAll(u)) /\ (Entering(u)' <=> Entering(u))
      BY <1>0, <1>1, <2>1 DEF Own, Hand, InShutdown, StoppingAll, Entering, RunTypes, Call
    <3>2. StoppingAll(u) => service.closing
      BY <3>1 DEF ListOK, InShutdown
    <3>3. \A q \in Runs : (proc[q].known # "no" => proc'[q].known # "no") /\ (run[q].in => run'[q].in)
      BY <2>2 DEF Steady
    <3>4. \A q \in Runs : service.closing /\ Alive(q)' /\ proc'[q].known = "yes" => Alive(q) /\ proc[q].known = "yes"
      BY <2>2 DEF Steady
    <3>5. (InShutdown(u) => service.closing)'
      BY <3>1 DEF ListOK
    <3>6. (\A r \in thread[u].todo : IF StoppingAll(u) THEN proc[r].known # "no" ELSE run[r].in)'
      BY <2>1, <3>1, <3>3 DEF ListOK
    <3>7. (u \in Callers /\ Hand(u) \in Runs /\ ~Entering(u) =>
             IF thread[u].after = "stopall" THEN proc[Hand(u)].known # "no" ELSE run[Hand(u)].in)'
      BY <2>1, <3>1, <3>3 DEF ListOK
    <3>8. (StoppingAll(u) => \A r \in Runs : Alive(r) /\ proc[r].known = "yes" =>
             r \in thread[u].todo \/ (thread[u].after = "stopall" /\ Hand(u) = r))'
      BY <2>1, <3>1, <3>2, <3>4 DEF ListOK
    <3> QED
      BY <3>5, <3>6, <3>7, <3>8 DEF ListOK
  <2> QED
    BY <2>3, <2>4, <2>5, <2>6 DEF Own
<1>2. ASSUME NEW u \in Callers \ T PROVE Alone(u)'
  <2> SUFFICES ASSUME thread'[u].at = "publish", ~service'.closing PROVE
        /\ ~run'[Hand(u)'].final
        /\ \A v \in Callers \ {u} : Hand(v)' # Hand(u)' /\ Hand(u)' \notin thread'[v].todo
    BY DEF Alone
  <2>1. /\ thread'[u] = thread[u] /\ Hand(u)' = Hand(u) /\ Hand(u) \in Runs /\ ~run[Hand(u)].told
        /\ session.lock = u /\ ~run[Hand(u)].final
    BY <1>0, <1>2 DEF RunsInv, Hand, Tidy, StartOK, HoldsSession, Alone
  <2>2. \A v \in Callers \ {u} : Hand(v) # Hand(u) /\ Hand(u) \notin thread[v].todo
    BY <1>2, <2>1 DEF RunsInv, Alone
  <2>3. ~run'[Hand(u)].final
    BY <1>2, <2>1, <2>2
  <2>4. ASSUME NEW v \in Callers \ {u} PROVE Hand(v)' # Hand(u) /\ Hand(u) \notin thread'[v].todo
    <3>1. CASE v \in T
      <4>1. Follows(v) /\ ~service'.closing /\ session.lock \notin {Nobody, v} /\ v # Hand(u)
        BY <1>0, <1>2, <2>1, <3>1
      <4> QED
        BY <2>1, <2>2, <4>1 DEF Follows
    <3>2. CASE v \notin T
      BY <1>0, <2>2, <3>2 DEF Hand
    <3> QED
      BY <3>1, <3>2
  <2> QED
    BY <2>1, <2>3, <2>4
<1>3. ASSUME NEW r \in Runs \ R PROVE Known(r)'
  <2>1. proc'[r] = proc[r] /\ run'[r] = run[r] /\ Known(r) /\ r \in Threads
    BY <1>0 DEF RunsInv, Known
  <2>2. WatcherOK(r)'
    <3>1. CASE r \notin T
      BY <2>1, <3>1 DEF Known, WatcherOK, Hand
    <3> QED
      BY <3>1
  <2>3. RecordOK(r)'
    BY <2>1 DEF Known, RecordOK
  <2>4. ASSUME NEW t \in Threads PROVE Witnessed(r, t)
    BY <1>3, <2>4 DEF Witnessed, Hand
  <2>5. RunOK(r)'
    <3>1. (IsActive(r)' <=> IsActive(r)) /\ (Alive(r)' <=> Alive(r))
      BY <2>1 DEF IsActive, Alive
    <3>2. thread[r].at \in Refreshes => thread'[r].at \in Refreshes
      BY <2>1, <2>4 DEF Witnessed
    <3>3. (\E t \in Callers : Hand(t) = r /\ thread[t].back = "unlock") =>
             \E t \in Callers : Hand(t)' = r /\ thread'[t].back = "unlock"
      BY <1>0, <2>4 DEF Witnessed
    <3>4. (\E t \in Callers : Hand(t) = r /\ thread[t].at = "register") =>
             \E t \in Callers : Hand(t)' = r /\ thread'[t].at = "register"
      BY <1>0, <2>4 DEF Witnessed
    <3> QED
      BY <2>1, <3>1, <3>2, <3>3, <3>4 DEF Known, RunOK, Refreshes
  <2> QED
    BY <2>2, <2>3, <2>5 DEF Known
<1> QED
  BY <1>0, <1>1, <1>2, <1>3 DEF RunsInv, Own, Known
-----------------------------------------------------------------------------
(* What a thread's step makes of its call. *)

NoneInHand == {"each", "sweep", "revoke", "survey", "reap", "stopall", "unlock"}

Goes(t, at, r, back, after, seen, todo) ==
  /\ thread' \in [Threads -> Call] /\ \A u \in Threads \ {t} : thread'[u] = thread[u]
  /\ thread'[t].at = at /\ Hand(t)' = r /\ thread'[t].back = back /\ thread'[t].after = after
  /\ thread'[t].seen = seen /\ thread'[t].todo = todo

LEMMA BecomesIs ==
  ASSUME RunTypes, NEW t \in Threads, NEW c \in Call, Becomes(t, c)
  PROVE  Goes(t, c.at, c.run, c.back, c.after, c.seen, c.todo)
BY DEF RunTypes, Becomes, Goes, Hand

LEMMA MovedIs ==
  ASSUME NEW c \in Call, NEW t \in Threads, NEW step \in Steps
  PROVE  /\ Moved(c, t, step) \in Call /\ Moved(c, t, step).at = step
         /\ Moved(c, t, step).run = IF step \in NoneInHand THEN t ELSE c.run
         /\ Moved(c, t, step).seen = IF step = "decide" THEN c.seen ELSE "running"
         /\ Moved(c, t, step).back = c.back /\ Moved(c, t, step).after = c.after /\ Moved(c, t, step).todo = c.todo
<1> DEFINE seen == IF step = "decide" THEN c.seen ELSE "running"
           r == IF step \in NoneInHand THEN t ELSE c.run
<1>1. Moved(c, t, step) = [c EXCEPT !.at = step, !.seen = seen, !.run = r]
  BY DEF Moved, NoneInHand
<1>2. seen \in Statuses /\ r \in Threads
  BY DEF Call, Statuses
<1>3. (seen = IF step = "decide" THEN c.seen ELSE "running") /\ (r = IF step \in NoneInHand THEN t ELSE c.run)
  OBVIOUS
<1> HIDE DEF seen, r
<1> QED
  BY <1>1, <1>2, <1>3 DEF Call

LEMMA NoCallIs ==
  ASSUME NEW t \in Threads
  PROVE  NoCall(t) \in Call /\ NoCall(t) = [at |-> "idle", run |-> t, back |-> "idle", after |-> "idle",
                                          seen |-> "running", todo |-> {}]
BY DEF NoCall, Call, Steps, Statuses

LEMMA IdleIs ==
  ASSUME RunTypes, NEW t \in Threads, Go(t, "idle")
  PROVE  Goes(t, "idle", t, "idle", "idle", "running", {})
BY NoCallIs DEF RunTypes, Go, Goes, Hand

LEMMA GoIs ==
  ASSUME RunTypes, NEW t \in Threads, NEW step \in Steps \ {"idle"}, Go(t, step)
  PROVE  Goes(t, step, IF step \in NoneInHand THEN t ELSE Hand(t), thread[t].back, thread[t].after,
              IF step = "decide" THEN thread[t].seen ELSE "running", thread[t].todo)
<1> DEFINE c == Moved(thread[t], t, step)
<1>1. thread' = [thread EXCEPT ![t] = c] /\ thread[t] \in Call
  BY DEF RunTypes, Go
<1>2. /\ c \in Call /\ c.at = step /\ (c.run = IF step \in NoneInHand THEN t ELSE Hand(t))
      /\ (c.seen = IF step = "decide" THEN thread[t].seen ELSE "running")
      /\ c.back = thread[t].back /\ c.after = thread[t].after /\ c.todo = thread[t].todo
  BY <1>1, MovedIs DEF Hand
<1> HIDE DEF c
<1> QED
  BY <1>1, <1>2 DEF RunTypes, Goes, Hand

LEMMA ReturnsIs ==
  ASSUME RunTypes, NEW t \in Threads, Returns(t)
  PROVE  IF thread[t].back = "idle" THEN Goes(t, "idle", t, "idle", "idle", "running", {})
         ELSE Goes(t, thread[t].back, IF thread[t].back \in NoneInHand THEN t ELSE Hand(t), "idle", thread[t].after,
                   "running", thread[t].todo)
<1>1. CASE thread[t].back = "idle"
  BY <1>1, IdleIs DEF Returns
<1>2. CASE thread[t].back # "idle"
  <2> DEFINE b == thread[t].back
             old == [thread[t] EXCEPT !.back = "idle"]
             c == Moved(old, t, b)
  <2>1. thread' = [thread EXCEPT ![t] = c] /\ thread[t] \in Call /\ b \in Steps \ {"idle", "decide"}
    BY <1>2 DEF RunTypes, Returns, Call, Steps
  <2>2. /\ old \in Call /\ old.run = Hand(t) /\ old.back = "idle" /\ old.after = thread[t].after
        /\ old.todo = thread[t].todo
    BY <2>1 DEF Call, Hand
  <2> HIDE DEF old
  <2>3. /\ c \in Call /\ c.at = b /\ (c.run = IF b \in NoneInHand THEN t ELSE Hand(t)) /\ c.seen = "running"
        /\ c.back = "idle" /\ c.after = thread[t].after /\ c.todo = thread[t].todo
    BY <2>1, <2>2, MovedIs
  <2> HIDE DEF c
  <2> QED
    BY <1>2, <2>1, <2>3 DEF RunTypes, Goes, Hand
<1> QED
  BY <1>1, <1>2

LEMMA StoppedIs ==
  ASSUME RunTypes, NEW t \in Threads, Stopped(t)
  PROVE  Goes(t, thread[t].after, IF thread[t].after \in NoneInHand THEN t ELSE Hand(t), thread[t].back, "idle",
              IF thread[t].after = "decide" THEN thread[t].seen ELSE "running", thread[t].todo)
<1> DEFINE a == thread[t].after
           old == [thread[t] EXCEPT !.after = "idle"]
           c == Moved(old, t, a)
<1>1. thread' = [thread EXCEPT ![t] = c] /\ thread[t] \in Call /\ a \in Steps
  BY DEF RunTypes, Stopped, Call, Steps
<1>2. /\ old \in Call /\ old.run = Hand(t) /\ old.after = "idle" /\ old.back = thread[t].back
      /\ old.todo = thread[t].todo /\ old.seen = thread[t].seen
  BY <1>1 DEF Call, Hand
<1> HIDE DEF old
<1>3. /\ c \in Call /\ c.at = a /\ (c.run = IF a \in NoneInHand THEN t ELSE Hand(t))
      /\ (c.seen = IF a = "decide" THEN thread[t].seen ELSE "running")
      /\ c.back = thread[t].back /\ c.after = "idle" /\ c.todo = thread[t].todo
  BY <1>1, <1>2, MovedIs
<1> HIDE DEF c
<1> QED
  BY <1>1, <1>3 DEF RunTypes, Goes, Hand

(* A step of a caller that changes no process and no run. *)
LEMMA CallMoves ==
  ASSUME RunsInv, NEW t \in Callers, NEW at \in Steps, NEW r, NEW back, NEW after, NEW seen, NEW todo,
         Goes(t, at, r, back, after, seen, todo), UNCHANGED <<proc, run>>, at # "publish",
         service' \in [slotsClosed : BOOLEAN, closing : BOOLEAN, down : BOOLEAN],
         service.closing => service'.closing, service'.down => service.down \/ DownOK',
         session' \in [closed : BOOLEAN, lock : Threads \cup {Nobody}],
         session'.lock = session.lock \/ session.lock \in {Nobody, t},
         thread[t].back = "unlock" => back = "unlock" /\ r = Hand(t), thread[t].at # "register",
         Own(t)', Follows(t)
  PROVE  RunsInv'
<1>0. RunTypes /\ RunTypes' /\ Nobody \notin Threads /\ t \in Threads /\ t \notin Runs
  BY SlotsAssumption DEF RunsInv, RunTypes, Goes, Threads
<1>1. \A u \in Threads \ {t} : thread'[u] = thread[u] /\ (session.lock = u => session'.lock = u)
  BY <1>0 DEF Goes
<1>2. DownOK' /\ OneWantedRun'
  BY DEF RunsInv, DownOK, OneWantedRun, Live, Alive
<1>3. Alone(t)'
  BY DEF Goes, Alone
<1>4. \A q \in Runs \ {}, u \in Threads \cap {t} : Witnessed(q, u)
  BY <1>0 DEF Witnessed, Goes
<1>5. \A q \in Runs \ {} : proc'[q] = proc[q] /\ run'[q] = run[q]
  OBVIOUS
<1>6. \A u \in Threads \cap {t} : Own(u)'
  OBVIOUS
<1>7. \A u \in Callers \cap {t} : Alone(u)' /\ Follows(u)
  BY <1>3
<1>8. \A q \in Runs \cap {t} : WatcherOK(q)'
  BY <1>0
<1>9. Runs \cap {} = {}
  OBVIOUS
<1> QED
  BY <1>0, <1>1, <1>2, <1>4, <1>5, <1>6, <1>7, <1>8, <1>9, Frame

LEMMA UnlockKeeps == ASSUME RunsInv, NEW t \in Callers, Unlock(t) PROVE RunsInv'
<1>0. RunTypes /\ t \in Threads /\ Own(t)
  BY DEF RunsInv, Threads, Own
<1>1. /\ thread[t].at = "unlock" /\ UNCHANGED <<proc, service, run>> /\ session' = [session EXCEPT !.lock = Nobody]
      /\ session.lock = t
  BY <1>0 DEF Unlock, At, Own, StartOK, HoldsSession
<1>2. Goes(t, "idle", t, "idle", "idle", "running", {})
  BY <1>0, IdleIs DEF Unlock
<1>3. Own(t)'
  BY <1>0, <1>2, SlotsAssumption DEF Goes, Own, Tidy, DrainOK, StartOK, ListOK, Entering, Draining, StoppingAll, InShutdown, HoldsSession, Threads
<1>4. thread[t].back = "idle"
  BY <1>0, <1>1 DEF Own, Tidy
<1>5. session' \in [closed : BOOLEAN, lock : Threads \cup {Nobody}]
  BY <1>0, <1>1 DEF RunTypes
<1> QED
  BY <1>0, <1>1, <1>2, <1>3, <1>4, <1>5, CallMoves DEF Follows, RunTypes, Steps

LEMMA BeginStartKeeps == ASSUME RunsInv, NEW t \in Callers, BeginStart(t) PROVE RunsInv'
<1>0. RunTypes /\ t \in Threads /\ Own(t) /\ thread[t] \in Call
  BY DEF RunsInv, Threads, Own, RunTypes
<1> DEFINE at == IF session.closed THEN "unlock" ELSE "sweep"
           c == [thread[t] EXCEPT !.at = at, !.todo = Started]
<1>1. /\ thread[t].at = "idle" /\ UNCHANGED <<proc, service, run>> /\ session' = [session EXCEPT !.lock = t]
      /\ session.lock = Nobody /\ Becomes(t, c)
  BY DEF BeginStart, At
<1>2. thread[t].back = "idle" /\ thread[t].after = "idle" /\ thread[t].seen = "running"
  BY <1>0, <1>1 DEF Own, Tidy, Draining
<1>3. /\ c \in Call /\ c.at = at /\ c.run = Hand(t) /\ c.back = "idle" /\ c.after = "idle" /\ c.seen = "running"
      /\ c.todo = Started
  BY <1>0, <1>2 DEF Call, Steps, Started, Hand
<1> HIDE DEF c
<1>4. Goes(t, at, Hand(t), "idle", "idle", "running", Started)
  BY <1>0, <1>1, <1>3, BecomesIs
<1>5. session' \in [closed : BOOLEAN, lock : Threads \cup {Nobody}] /\ session'.lock = t
  BY <1>0, <1>1 DEF RunTypes
<1>6. Own(t)'
  BY <1>0, <1>1, <1>4, <1>5 DEF Goes, Own, Tidy, DrainOK, StartOK, ListOK, Entering, Draining, StoppingAll, InShutdown, HoldsSession, Started
<1> QED
  BY <1>0, <1>1, <1>2, <1>4, <1>5, <1>6, CallMoves DEF Follows, RunTypes, Steps

LEMMA SweepPicks ==
  ASSUME RunsInv, NEW t \in Callers, Sweep(t) PROVE RunsInv'
<1>0. RunTypes /\ t \in Threads /\ Own(t) /\ thread[t] \in Call
  BY DEF RunsInv, Threads, Own, RunTypes
<1>1. PICK r \in thread[t].todo :
        Becomes(t, IF IsActive(r)
                     THEN [[thread[t] EXCEPT !.todo = @ \ {r}] EXCEPT !.at = "lock", !.run = r, !.back = "sweep"]
                     ELSE [thread[t] EXCEPT !.todo = @ \ {r}])
  BY DEF Sweep
<1>2. thread[t].at = "sweep" /\ UNCHANGED <<proc, service, run, session>>
  BY DEF Sweep, At
<1>3. /\ thread[t].back = "idle" /\ thread[t].after = "idle" /\ thread[t].seen = "running" /\ session.lock = t
      /\ thread[t].todo \in SUBSET Runs /\ run[r].in /\ r \in Threads /\ r \in Runs
  BY <1>0, <1>2 DEF Own, Tidy, Draining, StartOK, HoldsSession, Call, ListOK, StoppingAll, Threads
<1> DEFINE rest == thread[t].todo \ {r}
<1>4. Goes(t, "lock", r, "sweep", "idle", "running", rest) \/ Goes(t, "sweep", Hand(t), "idle", "idle", "running", rest)
  <2> DEFINE c == [[thread[t] EXCEPT !.todo = rest] EXCEPT !.at = "lock", !.run = r, !.back = "sweep"]
             d == [thread[t] EXCEPT !.todo = rest]
  <2>1. /\ c \in Call /\ c.at = "lock" /\ c.run = r /\ c.back = "sweep" /\ c.after = "idle" /\ c.seen = "running"
        /\ c.todo = rest
    <3>1. rest \in SUBSET Runs /\ r \in Threads /\ "lock" \in Steps
      BY <1>3 DEF Steps
    <3> HIDE DEF rest
    <3>2. c \in Call
      BY <1>0, <3>1 DEF Call
    <3>3. c.at = "lock" /\ c.run = r /\ c.back = "sweep" /\ c.after = "idle" /\ c.seen = "running" /\ c.todo = rest
      BY <1>0, <1>3 DEF Call
    <3> QED
      BY <3>2, <3>3
  <2>2. /\ d \in Call /\ d.at = "sweep" /\ d.run = Hand(t) /\ d.back = "idle" /\ d.after = "idle" /\ d.seen = "running"
        /\ d.todo = rest
    BY <1>0, <1>2, <1>3 DEF Call, Steps, Hand
  <2>3. Becomes(t, c) \/ Becomes(t, d)
    BY <1>1
  <2> HIDE DEF c, d
  <2> QED
    BY <1>0, <2>1, <2>2, <2>3, BecomesIs
<1> HIDE DEF rest
<1>5. Own(t)'
  <2>1. rest \subseteq thread[t].todo
    BY DEF rest
  <2>2. Tidy(t)' /\ DrainOK(t)'
    BY <1>0, <1>2, <1>3, <1>4 DEF Goes, Own, Tidy, DrainOK, Entering, Draining, Hand, Threads
  <2>3. StartOK(t)'
    BY <1>0, <1>2, <1>3, <1>4 DEF Goes, Own, StartOK, Entering, HoldsSession, Hand, Threads
  <2>4. ListOK(t)'
    BY <1>0, <1>2, <1>3, <1>4, <2>1 DEF Goes, Own, ListOK, Entering, StoppingAll, InShutdown, Hand, Threads
  <2> QED
    BY <2>2, <2>3, <2>4 DEF Own
<1> QED
  BY <1>0, <1>2, <1>3, <1>4, <1>5, CallMoves DEF Follows, RunTypes, Steps, rest

LEMMA InspectKeeps == ASSUME RunsInv, NEW t \in Callers, Inspect(t) PROVE RunsInv'
<1>0. RunTypes /\ t \in Threads /\ Own(t) /\ thread[t] \in Call
  BY DEF RunsInv, Threads, Own, RunTypes
<1>1. PICK r \in Runs : run[r].told /\ Becomes(t, Refreshing(t, r, "idle"))
  BY DEF Inspect
<1>2. thread[t].at = "idle" /\ UNCHANGED <<proc, service, run, session>>
  BY DEF Inspect, At
<1>3. /\ thread[t].back = "idle" /\ thread[t].after = "idle" /\ thread[t].seen = "running"
      /\ run[r].in /\ r \in Threads
  BY <1>0, <1>1, <1>2 DEF RunsInv, Own, Tidy, Draining, RecordOK, Threads
<1> DEFINE c == Refreshing(t, r, "idle")
<1>4. /\ c \in Call /\ c.at = "lock" /\ c.run = r /\ c.back = "idle" /\ c.after = "idle" /\ c.seen = "running"
      /\ c.todo = thread[t].todo
  BY <1>0, <1>3 DEF Refreshing, Call, Steps
<1> HIDE DEF c
<1>5. Goes(t, "lock", r, "idle", "idle", "running", thread[t].todo)
  BY <1>0, <1>1, <1>4, BecomesIs DEF c
<1>6. Own(t)'
  BY <1>0, <1>2, <1>3, <1>5 DEF Goes, Own, Tidy, DrainOK, StartOK, ListOK, Entering, Draining, StoppingAll, InShutdown, HoldsSession, Hand, Threads
<1>7. Follows(t)
  BY <1>1, <1>5 DEF Follows, Goes
<1> QED
  BY <1>0, <1>2, <1>3, <1>5, <1>6, <1>7, CallMoves DEF RunTypes, Steps

LEMMA BeginCancelKeeps == ASSUME RunsInv, NEW t \in Callers, BeginCancel(t) PROVE RunsInv'
<1>0. RunTypes /\ t \in Threads /\ Own(t) /\ thread[t] \in Call
  BY DEF RunsInv, Threads, Own, RunTypes
<1>1. PICK r \in Runs : run[r].told /\ Becomes(t, [thread[t] EXCEPT !.at = "each", !.todo = {r}])
  BY DEF BeginCancel
<1>2. thread[t].at = "idle" /\ UNCHANGED <<proc, service, run, session>>
  BY DEF BeginCancel, At
<1>3. thread[t].back = "idle" /\ thread[t].after = "idle" /\ thread[t].seen = "running" /\ run[r].in
  BY <1>0, <1>1, <1>2 DEF RunsInv, Own, Tidy, Draining, RecordOK
<1> DEFINE c == [thread[t] EXCEPT !.at = "each", !.todo = {r}]
<1>4. /\ c \in Call /\ c.at = "each" /\ c.run = Hand(t) /\ c.back = "idle" /\ c.after = "idle" /\ c.seen = "running"
      /\ c.todo = {r}
  BY <1>0, <1>3 DEF Call, Steps, Hand
<1> HIDE DEF c
<1>5. Goes(t, "each", Hand(t), "idle", "idle", "running", {r})
  BY <1>0, <1>1, <1>4, BecomesIs DEF c
<1>6. Own(t)'
  BY <1>0, <1>2, <1>3, <1>5 DEF Goes, Own, Tidy, DrainOK, StartOK, ListOK, Entering, Draining, StoppingAll, InShutdown, HoldsSession, Hand, Threads
<1>7. Follows(t)
  BY <1>1, <1>5 DEF Follows, Goes
<1> QED
  BY <1>0, <1>2, <1>3, <1>5, <1>6, <1>7, CallMoves DEF RunTypes, Steps

(* A close and a revocation begin as the session's lock is free. *)
LEMMA BeginEndKeeps == ASSUME RunsInv, NEW t \in Callers, BeginClose(t) \/ BeginRevoke(t) PROVE RunsInv'
<1>0. RunTypes /\ t \in Threads /\ Own(t) /\ thread[t] \in Call
  BY DEF RunsInv, Threads, Own, RunTypes
<1>1. PICK at \in {"each", "revoke"} :
        /\ Becomes(t, [thread[t] EXCEPT !.at = at, !.todo = Started])
        /\ session' = IF at = "each" THEN [session EXCEPT !.closed = TRUE] ELSE [session EXCEPT !.lock = t]
  BY DEF BeginClose, BeginRevoke
<1>2. thread[t].at = "idle" /\ session.lock = Nobody /\ UNCHANGED <<proc, service, run>>
  BY DEF BeginClose, BeginRevoke, At
<1>3. thread[t].back = "idle" /\ thread[t].after = "idle" /\ thread[t].seen = "running"
  BY <1>0, <1>2 DEF Own, Tidy, Draining
<1> DEFINE c == [thread[t] EXCEPT !.at = at, !.todo = Started]
<1>4. /\ c \in Call /\ c.at = at /\ c.run = Hand(t) /\ c.back = "idle" /\ c.after = "idle" /\ c.seen = "running"
      /\ c.todo = Started
  BY <1>0, <1>3 DEF Call, Steps, Hand, Started
<1> HIDE DEF c
<1>5. Goes(t, at, Hand(t), "idle", "idle", "running", Started)
  BY <1>0, <1>1, <1>4, BecomesIs DEF c
<1>6. session' \in [closed : BOOLEAN, lock : Threads \cup {Nobody}] /\ (at = "revoke" => session'.lock = t)
  BY <1>0, <1>1 DEF RunTypes
<1>7. Own(t)'
  BY <1>0, <1>2, <1>3, <1>5, <1>6 DEF Goes, Own, Tidy, DrainOK, StartOK, ListOK, Entering, Draining, StoppingAll, InShutdown, HoldsSession, Hand, Threads, Started
<1> QED
  BY <1>0, <1>2, <1>3, <1>5, <1>6, <1>7, CallMoves DEF RunTypes, Steps, Follows

LEMMA EachKeeps == ASSUME RunsInv, NEW t \in Callers, Each(t) PROVE RunsInv'
<1>0. RunTypes /\ t \in Threads /\ Own(t) /\ thread[t] \in Call
  BY DEF RunsInv, Threads, Own, RunTypes
<1>1. thread[t].at = "each" /\ UNCHANGED <<proc, service, run, session>>
  BY DEF Each, At
<1>2. thread[t].back = "idle" /\ thread[t].after = "idle" /\ thread[t].seen = "running" /\ thread[t].todo \in SUBSET Runs
      /\ \A r \in thread[t].todo : run[r].in /\ r \in Threads
  BY <1>0, <1>1 DEF Own, Tidy, Draining, ListOK, StoppingAll, Call, Threads
<1>3. CASE Go(t, "idle")
  <2>1. Goes(t, "idle", t, "idle", "idle", "running", {})
    BY <1>0, <1>3, IdleIs
  <2>2. Own(t)'
    BY <1>0, <1>1, <2>1, SlotsAssumption DEF Goes, Own, Tidy, DrainOK, StartOK, ListOK, Entering, Draining, StoppingAll, InShutdown, HoldsSession, Hand, Threads
  <2>3. Follows(t)
    BY <2>1 DEF Follows, Goes
  <2> QED
    BY <1>0, <1>1, <1>2, <2>1, <2>2, <2>3, CallMoves DEF RunTypes, Steps
<1>4. ASSUME NEW r \in thread[t].todo, Becomes(t, [Refreshing(t, r, "active?") EXCEPT !.todo = @ \ {r}])
      PROVE  RunsInv'
  <2> DEFINE rest == thread[t].todo \ {r}
             c == [Refreshing(t, r, "active?") EXCEPT !.todo = @ \ {r}]
  <2>1. /\ c \in Call /\ c.at = "lock" /\ c.run = r /\ c.back = "active?" /\ c.after = "idle" /\ c.seen = "running"
        /\ c.todo = rest
    BY <1>0, <1>2 DEF Refreshing, Call, Steps
  <2> HIDE DEF c
  <2>2. Goes(t, "lock", r, "active?", "idle", "running", rest)
    BY <1>0, <1>4, <2>1, BecomesIs DEF c
  <2>3. Own(t)'
    BY <1>0, <1>1, <1>2, <2>2 DEF Goes, Own, Tidy, DrainOK, StartOK, ListOK, Entering, Draining, StoppingAll, InShutdown, HoldsSession, Hand, Threads
  <2>4. Follows(t)
    BY <2>2 DEF Follows, Goes
  <2> QED
    BY <1>0, <1>1, <1>2, <2>2, <2>3, <2>4, CallMoves DEF RunTypes, Steps
<1> QED
  BY <1>3, <1>4 DEF Each

LEMMA CheckKeeps == ASSUME RunsInv, NEW t \in Callers, CheckActive(t) PROVE RunsInv'
<1>0. RunTypes /\ t \in Threads /\ Own(t) /\ thread[t] \in Call
  BY DEF RunsInv, Threads, Own, RunTypes
<1>1. thread[t].at = "active?" /\ UNCHANGED <<proc, service, run, session>>
  BY DEF CheckActive, At
<1>2. thread[t].back = "idle" /\ thread[t].after = "idle" /\ thread[t].seen = "running" /\ Hand(t) \in Runs
  BY <1>0, <1>1 DEF Own, Tidy, Draining
<1>3. PICK at \in {"mark", "each"} : Go(t, at)
  BY DEF CheckActive
<1>4. Goes(t, at, IF at = "each" THEN t ELSE Hand(t), "idle", "idle", "running", thread[t].todo)
  BY <1>0, <1>2, <1>3, GoIs DEF Steps, NoneInHand
<1>5. Own(t)'
  BY <1>0, <1>1, <1>2, <1>4, SlotsAssumption DEF Goes, Own, Tidy, DrainOK, StartOK, ListOK, Entering, Draining, StoppingAll, InShutdown, HoldsSession, Hand, Threads
<1>6. Follows(t)
  BY <1>4 DEF Follows, Goes
<1> QED
  BY <1>0, <1>1, <1>2, <1>4, <1>5, <1>6, CallMoves DEF RunTypes, Steps

LEMMA ClosingKeeps == ASSUME RunsInv, NEW t \in Callers, BeginShutdown(t) \/ Closing(t) PROVE RunsInv'
<1>0. RunTypes /\ t \in Threads /\ Own(t) /\ thread[t] \in Call
  BY DEF RunsInv, Threads, Own, RunTypes
<1>1. thread[t].at \in {"idle", "closing"} /\ UNCHANGED <<proc, run, session>>
  BY DEF BeginShutdown, Closing, At
<1>2. thread[t].back = "idle" /\ thread[t].after = "idle" /\ thread[t].seen = "running"
  BY <1>0, <1>1 DEF Own, Tidy, Draining
<1>3. CASE BeginShutdown(t)
  <2>1. thread[t].at = "idle" /\ Go(t, "closing") /\ service' = [service EXCEPT !.slotsClosed = TRUE]
    BY <1>3 DEF BeginShutdown, At
  <2>2. Goes(t, "closing", Hand(t), "idle", "idle", "running", thread[t].todo)
    BY <1>0, <1>2, <2>1, GoIs DEF Steps, NoneInHand
  <2>3. /\ service' \in [slotsClosed : BOOLEAN, closing : BOOLEAN, down : BOOLEAN]
        /\ service'.closing = service.closing /\ service'.down = service.down
    BY <1>0, <2>1 DEF RunTypes
  <2>4. Own(t)'
    BY <1>0, <1>1, <1>2, <2>1, <2>2, <2>3 DEF Goes, Own, Tidy, DrainOK, StartOK, ListOK, Entering, Draining, StoppingAll, InShutdown, HoldsSession, Hand, Threads
  <2>5. Follows(t)
    BY <2>2 DEF Follows, Goes
  <2> QED
    BY <1>0, <1>1, <1>2, <2>1, <2>2, <2>3, <2>4, <2>5, CallMoves DEF RunTypes, Steps
<1>4. CASE Closing(t)
  <2> DEFINE c == [thread[t] EXCEPT !.at = "survey", !.todo = Started]
  <2>1. Becomes(t, c) /\ service' = [service EXCEPT !.closing = TRUE]
    BY <1>4 DEF Closing
  <2>2. /\ c \in Call /\ c.at = "survey" /\ c.run = Hand(t) /\ c.back = "idle" /\ c.after = "idle" /\ c.seen = "running"
        /\ c.todo = Started
    BY <1>0, <1>2 DEF Call, Steps, Hand, Started
  <2> HIDE DEF c
  <2>3. Goes(t, "survey", Hand(t), "idle", "idle", "running", Started)
    BY <1>0, <2>1, <2>2, BecomesIs
  <2>4. /\ service' \in [slotsClosed : BOOLEAN, closing : BOOLEAN, down : BOOLEAN]
        /\ service'.closing /\ service'.down = service.down
    BY <1>0, <2>1 DEF RunTypes
  <2>5. Own(t)'
    BY <1>0, <1>1, <1>2, <2>3, <2>4 DEF Goes, Own, Tidy, DrainOK, StartOK, ListOK, Entering, Draining, StoppingAll, InShutdown, HoldsSession, Hand, Threads, Started
  <2>6. thread[t].at # "register"
    BY <1>1
  <2> QED
    BY <1>0, <1>1, <1>2, <2>3, <2>4, <2>5, <2>6, CallMoves DEF RunTypes, Steps, Follows
<1> QED
  BY <1>3, <1>4

(* Shutdown goes through the runs, through those it has marked, and        *)
(* through the processes that are left.                                    *)
LEMMA SurveyPicks ==
  ASSUME RunsInv, NEW t \in Callers, NEW r \in thread[t].todo, thread[t].at \in {"survey", "reap"},
         UNCHANGED <<proc, service, run, session>>,
         \/ thread[t].at = "survey" /\ Becomes(t, [Refreshing(t, r, "survey") EXCEPT !.todo = @ \ {r}])
         \/ thread[t].at = "reap" /\ Becomes(t, [Stopping(t, r, "lock") EXCEPT !.back = "reap", !.todo = @ \ {r}])
  PROVE  RunsInv'
<1>0. RunTypes /\ t \in Threads /\ Own(t) /\ thread[t] \in Call
  BY DEF RunsInv, Threads, Own, RunTypes
<1>1. thread[t].back = "idle" /\ thread[t].after = "idle" /\ thread[t].seen = "running" /\ thread[t].todo \in SUBSET Runs /\ service.closing
      /\ run[r].in /\ r \in Threads
  BY <1>0 DEF Own, Tidy, Draining, ListOK, StoppingAll, InShutdown, Call, Threads
<1> DEFINE rest == thread[t].todo \ {r}
           c == [Refreshing(t, r, "survey") EXCEPT !.todo = @ \ {r}]
           d == [Stopping(t, r, "lock") EXCEPT !.back = "reap", !.todo = @ \ {r}]
<1>2. /\ c \in Call /\ c.at = "lock" /\ c.run = r /\ c.back = "survey" /\ c.after = "idle" /\ c.seen = "running"
      /\ c.todo = rest
  BY <1>0, <1>1 DEF Refreshing, Call, Steps
<1>3. /\ d \in Call /\ d.at = "stop" /\ d.run = r /\ d.back = "reap" /\ d.after = "lock" /\ d.seen = "running"
      /\ d.todo = rest
  BY <1>0, <1>1 DEF Stopping, Call, Steps
<1>4. Becomes(t, c) \/ Becomes(t, d)
  OBVIOUS
<1> HIDE DEF c, d
<1>5. Goes(t, "lock", r, "survey", "idle", "running", rest) \/ Goes(t, "stop", r, "reap", "lock", "running", rest)
  BY <1>0, <1>2, <1>3, <1>4, BecomesIs
<1>6. Own(t)'
  BY <1>0, <1>1, <1>5 DEF Goes, Own, Tidy, DrainOK, StartOK, ListOK, Entering, Draining, StoppingAll, InShutdown, HoldsSession, Hand, Threads
<1>7. Follows(t)
  BY <1>1, <1>5 DEF Follows
<1> QED
  BY <1>0, <1>1, <1>5, <1>6, <1>7, CallMoves DEF RunTypes, Steps

LEMMA ReapKeeps == ASSUME RunsInv, NEW t \in Callers, Reap(t) PROVE RunsInv'
<1>0. RunTypes /\ t \in Threads /\ Own(t) /\ thread[t] \in Call
  BY DEF RunsInv, Threads, Own, RunTypes
<1>1. thread[t].at = "reap" /\ UNCHANGED <<proc, service, run, session>>
  BY DEF Reap, At
<1>2. thread[t].back = "idle" /\ thread[t].after = "idle" /\ thread[t].seen = "running" /\ service.closing
  BY <1>0, <1>1 DEF Own, Tidy, Draining, ListOK, InShutdown
<1>3. CASE thread[t].todo # {}
  BY <1>1, <1>3, SurveyPicks DEF Reap
<1>4. CASE thread[t].todo = {}
  <2> DEFINE all == {r \in Runs : proc[r].known = "yes" /\ ~proc[r].ended}
             c == [thread[t] EXCEPT !.at = "stopall", !.todo = all]
  <2>1. Becomes(t, c)
    BY <1>4 DEF Reap
  <2>2. /\ c \in Call /\ c.at = "stopall" /\ c.run = Hand(t) /\ c.back = "idle" /\ c.after = "idle" /\ c.seen = "running"
        /\ c.todo = all
    BY <1>0, <1>2 DEF Call, Steps, Hand
  <2> HIDE DEF c
  <2>3. Goes(t, "stopall", Hand(t), "idle", "idle", "running", all)
    BY <1>0, <2>1, <2>2, BecomesIs
  <2>4. \A r \in Runs : Alive(r) /\ proc[r].known = "yes" => r \in all
    BY DEF RunsInv, RecordOK, Alive
  <2>5. \A r \in all : proc[r].known # "no"
    OBVIOUS
  <2> HIDE DEF all
  <2>6. Own(t)'
    BY <1>0, <1>1, <1>2, <2>3, <2>4, <2>5 DEF Goes, Own, Tidy, DrainOK, StartOK, ListOK, Entering, Draining, StoppingAll, InShutdown, HoldsSession, Hand, Threads, Alive
  <2>7. Follows(t)
    BY <1>1, <1>2 DEF Follows
  <2> QED
    BY <1>0, <1>1, <1>2, <2>3, <2>6, <2>7, CallMoves DEF RunTypes, Steps
<1> QED
  BY <1>3, <1>4

LEMMA StopAllKeeps == ASSUME RunsInv, NEW t \in Callers, StopAll(t) PROVE RunsInv'
<1>0. RunTypes /\ t \in Threads /\ Own(t) /\ thread[t] \in Call
  BY DEF RunsInv, Threads, Own, RunTypes
<1>1. thread[t].at = "stopall" /\ UNCHANGED <<proc, run, session>>
  BY DEF StopAll, At
<1>2. thread[t].back = "idle" /\ thread[t].after = "idle" /\ thread[t].seen = "running" /\ service.closing /\ thread[t].todo \in SUBSET Runs
      /\ \A r \in Runs : Alive(r) /\ proc[r].known = "yes" => r \in thread[t].todo
  BY <1>0, <1>1 DEF Own, Tidy, Draining, ListOK, InShutdown, StoppingAll, Call
<1>3. CASE thread[t].todo = {}
  <2>1. Go(t, "down") /\ service' = [service EXCEPT !.down = TRUE]
    BY <1>3 DEF StopAll
  <2>2. Goes(t, "down", Hand(t), "idle", "idle", "running", {})
    BY <1>0, <1>2, <1>3, <2>1, GoIs DEF Steps, NoneInHand
  <2>3. service' \in [slotsClosed : BOOLEAN, closing : BOOLEAN, down : BOOLEAN] /\ service'.closing
    BY <1>0, <1>2, <2>1 DEF RunTypes
  <2>4. DownOK'
    <3>1. ASSUME NEW r \in Runs, Alive(r) PROVE proc[r].known = "no"
      <4>1. proc[r].known # "yes"
        BY <1>2, <1>3, <3>1
      <4>2. proc[r].known # "history"
        BY <3>1 DEF RunsInv, RecordOK, Alive
      <4>3. proc[r].known \in {"no", "yes", "history"}
        BY <1>0 DEF RunTypes, Process
      <4> QED
        BY <4>1, <4>2, <4>3
    <3> QED
      BY <1>1, <2>3, <3>1 DEF DownOK, Alive
  <2>5. Own(t)'
    BY <1>0, <1>1, <1>2, <2>2, <2>3 DEF Goes, Own, Tidy, DrainOK, StartOK, ListOK, Entering, Draining, StoppingAll, InShutdown, HoldsSession, Hand, Threads
  <2>6. Follows(t)
    BY <2>3 DEF Follows
  <2> QED
    BY <1>0, <1>1, <1>2, <2>2, <2>3, <2>4, <2>5, <2>6, CallMoves DEF RunTypes, Steps
<1>4. ASSUME NEW r \in thread[t].todo, Becomes(t, [Stopping(t, r, "stopall") EXCEPT !.todo = @ \ {r}]), UNCHANGED service
      PROVE  RunsInv'
  <2> DEFINE rest == thread[t].todo \ {r}
             c == [Stopping(t, r, "stopall") EXCEPT !.todo = @ \ {r}]
  <2>1. /\ c \in Call /\ c.at = "stop" /\ c.run = r /\ c.back = "idle" /\ c.after = "stopall" /\ c.seen = "running"
        /\ c.todo = rest
    BY <1>0, <1>2 DEF Stopping, Call, Steps, Threads
  <2> HIDE DEF c
  <2>2. Goes(t, "stop", r, "idle", "stopall", "running", rest)
    BY <1>0, <1>4, <2>1, BecomesIs DEF c
  <2>3. \A q \in thread[t].todo : proc[q].known # "no" /\ q \in Runs
    BY <1>0, <1>1, <1>2 DEF Own, ListOK, StoppingAll
  <2>4. \A q \in Runs : Alive(q) /\ proc[q].known = "yes" => q \in rest \/ q = r
    BY <1>2
  <2>5. \A q \in rest : proc[q].known # "no"
    BY <2>3
  <2> HIDE DEF rest
  <2>6. Own(t)'
    BY <1>0, <1>1, <1>2, <1>4, <2>2, <2>3, <2>4, <2>5 DEF Goes, Own, Tidy, DrainOK, StartOK, ListOK, Entering, Draining, StoppingAll, InShutdown, HoldsSession, Hand, Threads, Alive
  <2>7. Follows(t)
    BY <1>2, <1>4 DEF Follows
  <2> QED
    BY <1>0, <1>1, <1>2, <1>4, <2>2, <2>6, <2>7, CallMoves DEF RunTypes, Steps
<1> QED
  BY <1>3, <1>4 DEF StopAll

-----------------------------------------------------------------------------
(* Steps on a run. *)

LEMMA Quiet ==
  ASSUME RunsInv, UNCHANGED service,
         \A q \in Runs : Alive(q)' /\ proc'[q].known # "no" => Alive(q) /\ proc[q].known # "no",
         \A q \in Runs : run'[q].in /\ Alive(q)' /\ run'[q].override = "none" =>
                         run[q].in /\ Alive(q) /\ run[q].override = "none"
  PROVE  DownOK' /\ OneWantedRun'
BY DEF RunsInv, DownOK, OneWantedRun, Live

LEMMA StepMoves ==
  ASSUME RunsInv, RunTypes', NEW t \in Threads, NEW r \in Runs,
         \A u \in Threads \ {t} : thread'[u] = thread[u] /\ (session.lock = u => session'.lock = u),
         \A q \in Runs \ {r} : proc'[q] = proc[q] /\ run'[q] = run[q],
         service.closing => service'.closing, DownOK', OneWantedRun',
         Own(t)', t \in Callers => Alone(t)' /\ Follows(t), t \in Runs => WatcherOK(t)', Known(r)',
         run'[r].final => run[r].final \/ run[r].told \/ (t \in Callers /\ Hand(t) = r),
         \A q \in Runs \ {r} : Witnessed(q, t),
         \A u \in Threads \ {t} : Steady(r, u)
  PROVE  RunsInv'
<1>1. \A u \in Threads \cap {t} : Own(u)'
  OBVIOUS
<1>2. \A u \in Callers \cap {t} : Alone(u)' /\ Follows(u)
  OBVIOUS
<1>3. \A q \in Runs \cap {t} : WatcherOK(q)'
  OBVIOUS
<1>4. \A q \in Runs \cap {r} : Known(q)'
  OBVIOUS
<1>5. \A q \in Runs \ {r}, u \in Threads \cap {t} : Witnessed(q, u)
  OBVIOUS
<1>6. \A q \in Runs \cap {r}, u \in Threads \ {t} : Steady(q, u)
  OBVIOUS
<1>7. \A q \in Runs \cap {r} : run'[q].final => run[q].final \/ run[q].told \/ (\E u \in Callers \cap {t} : Hand(u) = q)
  OBVIOUS
<1> QED
  BY <1>1, <1>2, <1>3, <1>4, <1>5, <1>6, <1>7, Frame

(* A process ends, or writes something, by itself. *)
LEMMA ChildMoves ==
  ASSUME RunsInv, NEW r \in Runs, NEW p \in Process, proc' = [proc EXCEPT ![r] = p],
         UNCHANGED <<service, thread, run, session>>,
         p.os = proc[r].os \/ p.os = "dead", p.unread => proc[r].unread \/ (~proc[r].clean /\ proc[r].known = "yes"),
         p.known = proc[r].known, p.clean = proc[r].clean, p.ended = proc[r].ended, p.finished = proc[r].finished,
         p.callback = proc[r].callback, proc[r].os = "none" => p.os = "none"
  PROVE  RunsInv'
<1>0. RunTypes /\ Known(r) /\ r \in Threads
  BY DEF RunsInv, Known, Threads
<1>1. proc' \in [Runs -> Process] /\ \A q \in Runs : proc'[q] = IF q = r THEN p ELSE proc[q]
  BY <1>0 DEF RunTypes
<1>2. RunTypes'
  BY <1>0, <1>1 DEF RunTypes
<1>3. \A q \in Runs : Alive(q)' => Alive(q)
  BY <1>1 DEF Alive
<1>4. DownOK' /\ OneWantedRun'
  BY <1>1, <1>3, Quiet
<1>5. WatcherOK(r)' /\ RecordOK(r)'
  BY <1>0, <1>1 DEF Known, WatcherOK, RecordOK, Hand
<1>6. RunOK(r)'
  <2>1. run[r].final => ~p.unread \/ proc[r].unread
    BY <1>0 DEF Known, RecordOK
  <2> QED
    BY <1>0, <1>1, <1>3, <2>1 DEF Known, RunOK, IsActive, Hand
<1>7. \A u \in Threads : Steady(r, u)
  <2>1. proc[r].ended => proc[r].clean
    BY <1>0 DEF Known, RecordOK
  <2> QED
    BY <1>1, <1>3, <2>1 DEF Steady
<1>8. /\ \A u \in Threads \ {} : thread'[u] = thread[u] /\ (session.lock = u => session'.lock = u)
      /\ \A q \in Runs \ {r} : proc'[q] = proc[q] /\ run'[q] = run[q]
      /\ \A q \in Runs \cap {r} : Known(q)' /\ (run'[q].final => run[q].final)
      /\ \A q \in Runs \cap {r}, u \in Threads \ {} : Steady(q, u)
  BY <1>1, <1>5, <1>6, <1>7 DEF Known
<1>9. Threads \cap {} = {} /\ Callers \cap {} = {} /\ Runs \cap {} = {}
  OBVIOUS
<1>10. service.closing => service'.closing
  OBVIOUS
<1>11. \A q \in Runs \cap {r} : run'[q].final => run[q].final \/ run[q].told \/ (\E t \in Callers \cap {} : Hand(t) = q)
  BY <1>8
<1>12. \A q \in Runs \cap {r} : Known(q)'
  BY <1>8
<1>13. \A q \in Runs \ {r}, t \in Threads \cap {} : Witnessed(q, t)
  BY <1>9
<1> QED
  BY <1>2, <1>4, <1>8, <1>9, <1>10, <1>11, <1>12, <1>13, Frame

LEMMA ChildKeeps ==
  ASSUME RunsInv, NEW r \in Runs, UNCHANGED <<run, session>>, Child(r) \/ WatchTimeout(r) PROVE RunsInv'
<1>0. RunTypes /\ proc[r] \in Process
  BY DEF RunsInv, RunTypes
<1>1. UNCHANGED <<service, thread>>
  BY DEF Child, Exit, Read, WatchTimeout
<1>2. CASE Exit(r)
  <2> DEFINE p == [proc[r] EXCEPT !.os = "dead"]
  <2>1. proc' = [proc EXCEPT ![r] = p] /\ proc[r].os = "alive"
    BY <1>2 DEF Exit, Alive
  <2>2. /\ p \in Process /\ p.os = "dead" /\ p.unread = proc[r].unread /\ p.known = proc[r].known
        /\ p.clean = proc[r].clean /\ p.ended = proc[r].ended /\ p.finished = proc[r].finished /\ p.callback = proc[r].callback
    BY <1>0 DEF Process
  <2> HIDE DEF p
  <2> QED
    BY <1>1, <2>1, <2>2, ChildMoves
<1>3. CASE Read(r)
  <2> DEFINE p == [proc[r] EXCEPT !.unread = TRUE]
  <2>1. proc' = [proc EXCEPT ![r] = p] /\ proc[r].known = "yes" /\ ~proc[r].clean
    BY <1>3 DEF Read
  <2>2. /\ p \in Process /\ p.os = proc[r].os /\ p.known = proc[r].known
        /\ p.clean = proc[r].clean /\ p.ended = proc[r].ended /\ p.finished = proc[r].finished /\ p.callback = proc[r].callback
    BY <1>0 DEF Process
  <2> HIDE DEF p
  <2> QED
    BY <1>1, <2>1, <2>2, ChildMoves
<1>4. CASE WatchTimeout(r)
  <2> DEFINE p == [proc[r] EXCEPT !.timeout = TRUE, !.os = "dead"]
  <2>1. proc' = [proc EXCEPT ![r] = p] /\ proc[r].os = "alive"
    BY <1>4 DEF WatchTimeout, Alive
  <2>2. /\ p \in Process /\ p.os = "dead" /\ p.unread = proc[r].unread /\ p.known = proc[r].known
        /\ p.clean = proc[r].clean /\ p.ended = proc[r].ended /\ p.finished = proc[r].finished /\ p.callback = proc[r].callback
    BY <1>0 DEF Process
  <2> HIDE DEF p
  <2> QED
    BY <1>1, <2>1, <2>2, ChildMoves
<1> QED
  BY <1>2, <1>3, <1>4 DEF Child

(* A watcher ends its process. *)
LEMMA WatcherMoves ==
  ASSUME RunsInv, NEW r \in Runs, thread[r].at \in {"wait", "end", "finish"},
         NEW at \in {"end", "finish", "lock", "idle"}, Goes(r, at, r, "idle", "idle", "running", {}),
         NEW p \in Process, proc' = [proc EXCEPT ![r] = p], UNCHANGED <<service, run, session>>,
         p.os = proc[r].os, p.known = proc[r].known, p.unread = proc[r].unread,
         proc[r].ended => p.ended, proc[r].finished => p.finished,
         WatcherOK(r)', RecordOK(r)', RunOK(r)'
  PROVE  RunsInv'
<1>0. RunTypes /\ Known(r) /\ r \in Threads /\ Nobody \notin Threads /\ r \notin Callers /\ Own(r)
  BY SlotsAssumption DEF RunsInv, Known, Threads, Own
<1>1. proc' \in [Runs -> Process] /\ \A q \in Runs : proc'[q] = IF q = r THEN p ELSE proc[q]
  BY <1>0 DEF RunTypes
<1>2. RunTypes'
  BY <1>0, <1>1 DEF RunTypes, Goes
<1>3. DownOK' /\ OneWantedRun'
  BY <1>1, Quiet DEF Alive
<1>4. Own(r)'
  BY <1>0 DEF Goes, Own, Tidy, DrainOK, StartOK, ListOK, Entering, Draining, StoppingAll, InShutdown, HoldsSession, Hand
<1>5. \A q \in Runs \ {r} : Witnessed(q, r)
  BY <1>0 DEF Witnessed, Known, WatcherOK
<1>6. \A u \in Threads \ {r} : Steady(r, u)
  BY <1>1 DEF Steady, Alive
<1>7. \A u \in Threads \ {r} : thread'[u] = thread[u] /\ (session.lock = u => session'.lock = u)
  BY DEF Goes
<1>8. (\A q \in Runs \ {r} : proc'[q] = proc[q] /\ run'[q] = run[q]) /\ Known(r)' /\ (run'[r].final => run[r].final)
  BY <1>1 DEF Known
<1> QED
  BY <1>0, <1>2, <1>3, <1>4, <1>5, <1>6, <1>7, <1>8, StepMoves

LEMMA WatchKeeps ==
  ASSUME RunsInv, NEW r \in Runs, UNCHANGED <<run, session>>, CleanUp(r) \/ End(r) \/ Finished(r) PROVE RunsInv'
<1>0. /\ RunTypes /\ proc[r] \in Process /\ r \in Threads /\ Known(r) /\ Own(r) /\ UNCHANGED service
      /\ proc \in [Runs -> Process]
  BY DEF RunsInv, RunTypes, Threads, Known, Own, CleanUp, End, Finished
<1>1. thread[r].at \in {"wait", "end", "finish"} /\ Hand(r) = r /\ thread[r].back = "idle" /\ thread[r].after = "idle"
      /\ thread[r].todo = {}
  BY <1>0 DEF CleanUp, End, Finished, At, Known, WatcherOK, Own, Tidy
<1>2. CASE CleanUp(r)
  <2> DEFINE p == [proc[r] EXCEPT !.clean = TRUE, !.slot = FALSE]
  <2>1. thread[r].at = "wait" /\ proc[r].os = "dead" /\ proc' = [proc EXCEPT ![r] = p] /\ Go(r, "end")
    BY <1>2 DEF CleanUp, At
  <2>2. /\ p \in Process /\ p.os = proc[r].os /\ p.unread = proc[r].unread /\ p.known = proc[r].known
        /\ p.clean /\ p.ended = proc[r].ended /\ p.finished = proc[r].finished /\ p.callback = proc[r].callback
    BY <1>0 DEF Process
  <2> HIDE DEF p
  <2>3. Goes(r, "end", r, "idle", "idle", "running", {})
    BY <1>0, <1>1, <2>1, GoIs DEF Steps, NoneInHand
  <2>4. WatcherOK(r)' /\ RecordOK(r)' /\ RunOK(r)'
    BY <1>0, <2>1, <2>2, <2>3 DEF Known, WatcherOK, RecordOK, RunOK, Goes, Alive, IsActive
  <2> QED
    BY <1>0, <1>1, <2>1, <2>2, <2>3, <2>4, WatcherMoves
<1>3. CASE End(r)
  <2> DEFINE p == [proc[r] EXCEPT !.ended = TRUE]
  <2>1. thread[r].at = "end" /\ proc' = [proc EXCEPT ![r] = p] /\ Go(r, "finish")
    BY <1>3 DEF End, At
  <2>2. /\ p \in Process /\ p.os = proc[r].os /\ p.unread = proc[r].unread /\ p.known = proc[r].known
        /\ p.ended /\ p.clean = proc[r].clean /\ p.finished = proc[r].finished /\ p.callback = proc[r].callback
    BY <1>0 DEF Process
  <2> HIDE DEF p
  <2>3. Goes(r, "finish", r, "idle", "idle", "running", {})
    BY <1>0, <1>1, <2>1, GoIs DEF Steps, NoneInHand
  <2>4. WatcherOK(r)' /\ RecordOK(r)' /\ RunOK(r)'
    BY <1>0, <2>1, <2>2, <2>3 DEF Known, WatcherOK, RecordOK, RunOK, Goes, Alive, IsActive
  <2> QED
    BY <1>0, <1>1, <2>1, <2>2, <2>3, <2>4, WatcherMoves
<1>4. CASE Finished(r)
  <2> DEFINE p == [proc[r] EXCEPT !.finished = TRUE, !.callback = FALSE]
             at == IF proc[r].callback THEN "lock" ELSE "idle"
  <2>1. thread[r].at = "finish" /\ proc' = [proc EXCEPT ![r] = p] /\ Go(r, at)
    BY <1>4 DEF Finished, At
  <2>2. /\ p \in Process /\ p.os = proc[r].os /\ p.unread = proc[r].unread /\ p.known = proc[r].known
        /\ p.ended = proc[r].ended /\ p.clean = proc[r].clean /\ p.finished /\ ~p.callback
    BY <1>0 DEF Process
  <2> HIDE DEF p
  <2>3. Goes(r, at, r, "idle", "idle", "running", {})
    BY <1>0, <1>1, <2>1, GoIs, IdleIs DEF Steps, NoneInHand
  <2>4. proc[r].callback \in BOOLEAN
    BY <1>0 DEF Process
  <2>5. WatcherOK(r)' /\ RecordOK(r)'
    BY <1>0, <2>1, <2>2, <2>3, <2>4 DEF Known, WatcherOK, RecordOK, Goes, Alive, IsActive
  <2>6. RunOK(r)'
    BY <1>0, <2>1, <2>2, <2>3, <2>4 DEF Known, WatcherOK, RecordOK, RunOK, Goes, Alive, IsActive
  <2> QED
    BY <1>0, <1>1, <2>1, <2>2, <2>3, <2>5, <2>6, WatcherMoves
<1> QED
  BY <1>2, <1>3, <1>4

LEMMA StopKeeps == ASSUME RunsInv, NEW t \in Threads, Stop(t), UNCHANGED <<run, session>> PROVE RunsInv'
<1> DEFINE a == thread[t].after
<1>0. /\ RunTypes /\ Own(t) /\ thread[t] \in Call /\ thread[t].at = "stop" /\ Stopped(t) /\ UNCHANGED service
      /\ t \notin Callers => t \in Runs /\ WatcherOK(t)
  BY DEF RunsInv, RunTypes, Own, Stop, At, Threads
<1>r. PICK r \in Runs : Hand(t) = r
  BY <1>0 DEF Own, Tidy
<1>1. /\ Hand(t) = r /\ r \in Runs /\ Known(r) /\ proc[r] \in Process /\ a \in {"decide", "unlock", "lock", "revoke", "stopall"}
      /\ proc \in [Runs -> Process] /\ (thread[t].back # "idle" => a \in {"decide", "lock"})
  BY <1>0, <1>r DEF RunsInv, RunTypes, Own, Tidy, Known, Call
<1>2. Goes(t, a, IF a \in NoneInHand THEN t ELSE r, thread[t].back, "idle", IF a = "decide" THEN thread[t].seen ELSE "running",
           thread[t].todo)
  BY <1>0, <1>1, StoppedIs
<1>3. PICK p \in Process :
        /\ proc' = [proc EXCEPT ![r] = p] /\ p.os # "alive" /\ (p.os = proc[r].os \/ (p.os = "dead" /\ proc[r].os = "alive"))
        /\ p.unread = proc[r].unread /\ p.known = proc[r].known /\ p.clean = proc[r].clean /\ p.ended = proc[r].ended
        /\ p.finished = proc[r].finished /\ p.callback = proc[r].callback
  <2>1. CASE Alive(r)
    <3> DEFINE p == [proc[r] EXCEPT !.stop = TRUE, !.os = "dead"]
    <3>1. /\ p \in Process /\ p.os = "dead" /\ p.unread = proc[r].unread /\ p.known = proc[r].known
          /\ p.clean = proc[r].clean /\ p.ended = proc[r].ended /\ p.finished = proc[r].finished /\ p.callback = proc[r].callback
      BY <1>1 DEF Process
    <3>2. proc' = [proc EXCEPT ![r] = p]
      BY <1>1, <2>1 DEF Stop
    <3> HIDE DEF p
    <3> QED
      BY <2>1, <3>1, <3>2 DEF Alive
  <2>2. CASE ~Alive(r)
    <3>1. proc' = [proc EXCEPT ![r] = proc[r]]
      BY <1>1, <2>2 DEF Stop
    <3> QED
      BY <1>1, <2>2, <3>1 DEF Alive
  <2> QED
    BY <2>1, <2>2
<1>4. \A q \in Runs : proc'[q] = IF q = r THEN p ELSE proc[q]
  BY <1>1, <1>3
<1>5. RunTypes'
  BY <1>0, <1>1, <1>2, <1>3 DEF RunTypes, Goes
<1>6. DownOK' /\ OneWantedRun'
  BY <1>0, <1>3, <1>4, Quiet DEF Alive
<1>7. Own(t)'
  <2>1. Tidy(t)'
    BY <1>0, <1>1, <1>2 DEF Goes, Own, Tidy, Entering, Draining, Hand, NoneInHand
  <2>2. DrainOK(t)'
    BY <1>0, <1>1, <1>2, <1>3, <1>4 DEF Goes, Own, Tidy, DrainOK, Draining, Hand, NoneInHand
  <2>3. StartOK(t)'
    BY <1>0, <1>1, <1>2 DEF Goes, Own, Tidy, StartOK, HoldsSession, Entering, Hand, NoneInHand
  <2>4. ListOK(t)'
    BY <1>0, <1>1, <1>2, <1>3, <1>4, SlotsAssumption
       DEF Goes, Own, Tidy, ListOK, InShutdown, StoppingAll, Entering, Hand, NoneInHand, Alive, Call
  <2> QED
    BY <2>1, <2>2, <2>3, <2>4 DEF Own
<1>8. t \in Callers => Alone(t)' /\ Follows(t)
  BY <1>1, <1>2 DEF Alone, Goes, Follows
<1>9. t \in Runs => WatcherOK(t)'
  BY <1>0, <1>1, <1>2, <1>3, <1>4, SlotsAssumption DEF RunsInv, WatcherOK, Goes, Hand, NoneInHand
<1>10. WatcherOK(r)' /\ RecordOK(r)' /\ RunOK(r)'
  <2>1. WatcherOK(r)'
    <3>1. CASE r # t
      BY <1>1, <1>2, <1>3, <1>4, <3>1 DEF Known, WatcherOK, Goes, Hand, Threads
    <3> QED
      BY <1>1, <1>9, <3>1
  <2>2. RecordOK(r)'
    BY <1>1, <1>3, <1>4 DEF Known, RecordOK
  <2>3. (\E u \in Callers : Hand(u) = r /\ thread[u].back = "unlock") =>
          \E u \in Callers : Hand(u)' = r /\ thread'[u].back = "unlock"
    BY <1>1, <1>2 DEF Goes, Hand, NoneInHand, Threads
  <2>4. thread[r].at \in Refreshes => thread'[r].at \in Refreshes
    BY <1>0, <1>1, <1>2, SlotsAssumption DEF Goes, Refreshes, WatcherOK, Threads
  <2>5. RunOK(r)'
    BY <1>0, <1>1, <1>3, <1>4, <2>3, <2>4 DEF Known, RunOK, Alive, IsActive, Refreshes
  <2> QED
    BY <2>1, <2>2, <2>5
<1>11. \A q \in Runs \ {r} : Witnessed(q, t)
  BY <1>0, <1>1, SlotsAssumption DEF Witnessed, WatcherOK
<1>12. \A u \in Threads \ {t} : Steady(r, u)
  BY <1>3, <1>4 DEF Steady, Alive
<1>13. /\ \A u \in Threads \ {t} : thread'[u] = thread[u] /\ (session.lock = u => session'.lock = u)
       /\ \A q \in Runs \ {r} : proc'[q] = proc[q] /\ run'[q] = run[q]
       /\ Known(r)' /\ (run'[r].final => run[r].final)
  BY <1>2, <1>4, <1>10 DEF Known, Goes
<1> QED
  BY <1>0, <1>1, <1>5, <1>6, <1>7, <1>8, <1>9, <1>11, <1>12, <1>13, StepMoves

LEMMA StatusIs ==
  ASSUME RunTypes, NEW r \in Runs
  PROVE  Status(r) \in Statuses /\ (Status(r) # "running" <=> proc[r].ended)
BY DEF RunTypes, Process, Status, StatusOf, Statuses

(* What holds of a thread that refreshes a run. *)
LEMMA InHandIs ==
  ASSUME RunsInv, NEW t \in Threads, thread[t].at \in {"lock", "again", "decide"}
  PROVE  /\ Hand(t) \in Runs /\ run[Hand(t)].in /\ thread[t].after = "idle"
         /\ t \in Runs => Hand(t) = t /\ run[t].told /\ thread[t].back = "idle" /\ thread[t].todo = {}
         /\ t \in Runs \/ thread[t].back = "unlock" => proc[Hand(t)].finished /\ proc[Hand(t)].ended
<1>1. Hand(t) \in Runs /\ thread[t].after = "idle"
  BY DEF RunsInv, Tidy
<1>2. t \in Runs => Hand(t) = t /\ run[t].told /\ thread[t].back = "idle" /\ thread[t].todo = {} /\ proc[t].finished
  BY DEF RunsInv, WatcherOK
<1>3. t \in Callers => run[Hand(t)].in
  BY <1>1 DEF RunsInv, ListOK, Entering
<1>4. thread[t].back = "unlock" => proc[Hand(t)].finished
  BY DEF RunsInv, DrainOK
<1> QED
  BY <1>1, <1>2, <1>3, <1>4 DEF RunsInv, RecordOK, Threads

LEMMA ReturnsOwn ==
  ASSUME RunsInv, NEW t \in Threads, thread[t].at \in {"lock", "decide"}, Returns(t), UNCHANGED <<service, session>>,
         \A q \in Runs : (run[q].in => run'[q].in)
  PROVE  /\ Own(t)' /\ (t \in Callers => Alone(t)' /\ Follows(t))
         /\ t \in Runs => Goes(t, "idle", t, "idle", "idle", "running", {})
         /\ thread' \in [Threads -> Call] /\ \A u \in Threads \ {t} : thread'[u] = thread[u]
<1>0. /\ RunTypes /\ Own(t) /\ thread[t] \in Call /\ thread[t].after = "idle" /\ Hand(t) \in Runs /\ run[Hand(t)].in
  BY InHandIs DEF RunsInv, RunTypes, Own
<1>1. CASE thread[t].back = "idle"
  <2>1. Goes(t, "idle", t, "idle", "idle", "running", {})
    BY <1>0, <1>1, ReturnsIs
  <2> QED
    BY <1>0, <2>1, SlotsAssumption DEF Goes, Own, Tidy, DrainOK, StartOK, ListOK, Entering, Draining, StoppingAll, InShutdown, HoldsSession, Hand, Alone, Follows, Threads
<1>2. CASE thread[t].back # "idle"
  <2> DEFINE b == thread[t].back
  <2>1. /\ Goes(t, b, IF b \in NoneInHand THEN t ELSE Hand(t), "idle", "idle", "running", thread[t].todo)
        /\ b \in {"sweep", "unlock", "active?", "each", "survey", "reap"} /\ t \in Callers
        /\ b \in {"sweep", "unlock"} => session.lock = t
        /\ b \in {"survey", "reap"} => service.closing
        /\ \A q \in thread[t].todo : q \in Runs /\ run[q].in
    BY <1>0, <1>2, ReturnsIs, InHandIs DEF Call, Own, StartOK, HoldsSession, ListOK, InShutdown, StoppingAll, Threads
  <2>2. Own(t)'
    BY <1>0, <2>1, SlotsAssumption DEF Goes, Own, Tidy, DrainOK, StartOK, ListOK, Entering, Draining, StoppingAll, InShutdown, HoldsSession, Hand, NoneInHand, Threads
  <2>3. Alone(t)' /\ Follows(t)
    BY <2>1 DEF Goes, Alone, Follows
  <2> QED
    BY <1>2, <2>1, <2>2, <2>3, SlotsAssumption DEF Goes
<1> QED
  BY <1>1, <1>2

LEMMA DrainKeeps ==
  ASSUME RunsInv, NEW t \in Threads, NEW r \in Runs, Hand(t) = r, thread[t].at \in {"lock", "again"},
         run[r].lock \in {Nobody, t}, ~run[r].final, Drain(t, r), UNCHANGED <<service, session>>
  PROVE  RunsInv'
<1>0. /\ RunTypes /\ Own(t) /\ thread[t] \in Call /\ run[r].in /\ thread[t].after = "idle" /\ Known(r) /\ Nobody \notin Threads
      /\ proc[r] \in Process /\ run[r] \in RunState /\ Callers \cap Runs = {} /\ Threads = Callers \cup Runs
      /\ t \in Runs => t = r /\ WatcherOK(t)
      /\ t \in Runs \/ thread[t].back = "unlock" => Status(r) # "running" /\ proc[r].finished
  BY InHandIs, StatusIs, SlotsAssumption DEF RunsInv, RunTypes, Own, Known, Threads
<1> DEFINE p == [proc[r] EXCEPT !.unread = FALSE]
<1>1. /\ p \in Process /\ p.os = proc[r].os /\ p.known = proc[r].known /\ p.clean = proc[r].clean /\ ~p.unread
      /\ p.ended = proc[r].ended /\ p.finished = proc[r].finished /\ p.callback = proc[r].callback
  BY <1>0 DEF Process
<1>2. proc' = [proc EXCEPT ![r] = p]
  BY DEF Drain
<1> HIDE DEF p
<1>3. PICK at \in {"again", "stop"}, after \in {"idle", "decide"}, x \in RunState :
        /\ Goes(t, at, r, thread[t].back, after, Status(r), thread[t].todo) /\ (at = "stop" <=> after = "decide")
        /\ run' = [run EXCEPT ![r] = x] /\ x.lock = t /\ (x.override = run[r].override \/ x.override = "failed")
        /\ at = "stop" => x.override = "failed"
        /\ x.in = run[r].in /\ x.told = run[r].told /\ x.state = run[r].state /\ x.final = run[r].final
  <2>1. CASE /\ Becomes(t, [thread[t] EXCEPT !.at = "again", !.seen = Status(r)])
             /\ run' = [run EXCEPT ![r].lock = t]
    <3> DEFINE c == [thread[t] EXCEPT !.at = "again", !.seen = Status(r)]
               x == [run[r] EXCEPT !.lock = t]
    <3>1. /\ c \in Call /\ c.at = "again" /\ c.run = r /\ c.back = thread[t].back /\ c.after = "idle" /\ c.seen = Status(r)
          /\ c.todo = thread[t].todo
      BY <1>0, StatusIs DEF Call, Steps, Hand
    <3>2. /\ x \in RunState /\ x.lock = t /\ x.override = run[r].override /\ x.in = run[r].in /\ x.told = run[r].told
          /\ x.state = run[r].state /\ x.final = run[r].final
      BY <1>0 DEF RunState
    <3>3. run' = [run EXCEPT ![r] = x] /\ Becomes(t, c)
      BY <2>1
    <3> HIDE DEF c, x
    <3>4. Goes(t, "again", r, thread[t].back, "idle", Status(r), thread[t].todo)
      BY <1>0, <3>1, <3>3, BecomesIs
    <3> QED
      BY <3>2, <3>3, <3>4
  <2>2. CASE /\ Becomes(t, [Stopping(t, r, "decide") EXCEPT !.seen = Status(r)])
             /\ run' = [run EXCEPT ![r].lock = t, ![r].override = "failed"]
    <3> DEFINE c == [Stopping(t, r, "decide") EXCEPT !.seen = Status(r)]
               x == [run[r] EXCEPT !.lock = t, !.override = "failed"]
    <3>1. /\ c \in Call /\ c.at = "stop" /\ c.run = r /\ c.back = thread[t].back /\ c.after = "decide" /\ c.seen = Status(r)
          /\ c.todo = thread[t].todo
      BY <1>0, StatusIs DEF Stopping, Call, Steps
    <3>2. /\ x \in RunState /\ x.lock = t /\ x.override = "failed" /\ x.in = run[r].in /\ x.told = run[r].told
          /\ x.state = run[r].state /\ x.final = run[r].final
      BY <1>0 DEF RunState
    <3>3. run' = [run EXCEPT ![r] = x] /\ Becomes(t, c)
      BY <1>0, <2>2 DEF RunTypes
    <3> HIDE DEF c, x
    <3>4. Goes(t, "stop", r, thread[t].back, "decide", Status(r), thread[t].todo)
      BY <1>0, <3>1, <3>3, BecomesIs
    <3> QED
      BY <3>2, <3>3, <3>4
  <2> QED
    BY <2>1, <2>2 DEF Drain
<1>4. \A q \in Runs : proc'[q] = (IF q = r THEN p ELSE proc[q]) /\ run'[q] = (IF q = r THEN x ELSE run[q])
  BY <1>0, <1>2, <1>3 DEF RunTypes
<1>5. RunTypes'
  BY <1>0, <1>1, <1>2, <1>3 DEF RunTypes, Goes
<1>6. x.override = "none" => run[r].override = "none"
  BY <1>3
<1>7. DownOK' /\ OneWantedRun'
  BY <1>1, <1>3, <1>4, <1>6, Quiet DEF Alive
<1>8. Own(t)'
  <2>1. Tidy(t)'
    BY <1>0, <1>3 DEF Goes, Own, Tidy, Entering, Draining, Hand
  <2>2. DrainOK(t)'
    BY <1>0, <1>1, <1>3, <1>4, StatusIs DEF Goes, Own, DrainOK, Draining, Hand
  <2>3. StartOK(t)'
    BY <1>0, <1>3 DEF Goes, Own, StartOK, HoldsSession, Entering, Hand
  <2>4. ListOK(t)'
    <3>1. /\ \A q \in thread[t].todo : run'[q].in
          /\ thread'[t].todo = thread[t].todo /\ thread'[t].at \in {"again", "stop"} /\ thread'[t].after \in {"idle", "decide"}
          /\ thread'[t].back = thread[t].back /\ Hand(t)' = r /\ run'[r].in
      <4>1. \A q \in thread[t].todo : q \in Runs /\ run[q].in
        BY <1>0 DEF Own, ListOK, StoppingAll, Call
      <4>2. \A q \in Runs : run[q].in => run'[q].in
        BY <1>3, <1>4
      <4> QED
        BY <1>0, <1>3, <4>1, <4>2 DEF Goes
    <3>2. thread[t].back \in {"survey", "reap"} => service.closing
      BY <1>0 DEF Own, ListOK, InShutdown
    <3> QED
      BY <3>1, <3>2 DEF ListOK, InShutdown, StoppingAll, Entering
  <2> QED
    BY <2>1, <2>2, <2>3, <2>4 DEF Own
<1>9. t \in Callers => Alone(t)' /\ Follows(t)
  BY <1>3 DEF Alone, Goes, Follows
<1>10. WatcherOK(r)'
  BY <1>0, <1>1, <1>3, <1>4 DEF Known, WatcherOK, Goes, Hand
<1>11. RecordOK(r)' /\ RunOK(r)'
  <2>1. (\E u \in Callers : Hand(u) = r /\ thread[u].back = "unlock") =>
          \E u \in Callers : Hand(u)' = r /\ thread'[u].back = "unlock"
    BY <1>0, <1>3 DEF Goes, Hand
  <2>2. thread[r].at \in Refreshes => thread'[r].at \in Refreshes
    BY <1>0, <1>3 DEF Goes, Refreshes
  <2>3. Alive(r)' <=> Alive(r)
    BY <1>1, <1>4 DEF Alive
  <2>4. proc[r].known # "no"
    BY <1>0 DEF Known, RecordOK
  <2>5. RecordOK(r)'
    <3>1. RecordOK(r) /\ run[r].in /\ proc'[r] = p /\ run'[r] = x
      BY <1>0, <1>4 DEF Known
    <3>2. x.in /\ x.told = run[r].told /\ x.final = run[r].final
      BY <1>0, <1>3
    <3> QED
      BY <1>1, <3>1, <3>2 DEF RecordOK
  <2>6. RunOK(r)'
    BY <1>0, <1>1, <1>3, <1>4, <1>6, <2>1, <2>2, <2>3, <2>4 DEF Known, RunOK, IsActive, Refreshes
  <2> QED
    BY <2>5, <2>6
<1>12. \A q \in Runs \ {r} : Witnessed(q, t)
  BY <1>0 DEF Witnessed
<1>13. \A u \in Threads \ {t} : Steady(r, u)
  <2>1. \A u \in Threads \ {t} : run[r].lock # u
    BY <1>0
  <2>2. proc'[r] = p /\ run'[r] = x
    BY <1>4
  <2>3. x.in = run[r].in /\ x.told = run[r].told /\ (run[r].override # "none" => x.override # "none")
    BY <1>3
  <2> QED
    BY <1>1, <2>1, <2>2, <2>3 DEF Steady, Alive
<1>14. /\ \A u \in Threads \ {t} : thread'[u] = thread[u] /\ (session.lock = u => session'.lock = u)
       /\ \A q \in Runs \ {r} : proc'[q] = proc[q] /\ run'[q] = run[q]
       /\ Known(r)' /\ (run'[r].final => run[r].final)
       /\ t \in Runs => WatcherOK(t)'
  BY <1>0, <1>3, <1>4, <1>10, <1>11 DEF Known, Goes
<1> QED
  BY <1>5, <1>7, <1>8, <1>9, <1>12, <1>13, <1>14, StepMoves

LEMMA LockKeeps == ASSUME RunsInv, NEW t \in Threads, Lock(t) PROVE RunsInv'
<1>0. RunTypes /\ thread[t].at = "lock" /\ UNCHANGED <<service, session>>
  BY DEF RunsInv, Lock, At
<1>r. PICK r \in Runs : Hand(t) = r
  BY <1>0, InHandIs
<1>1. run[r].lock = Nobody /\ Known(r)
  BY <1>r DEF Lock, RunsInv, Known
<1>2. CASE run[r].final
  <2>1. Returns(t) /\ UNCHANGED <<proc, run>>
    BY <1>r, <1>2 DEF Lock
  <2>2. /\ Own(t)' /\ (t \in Callers => Alone(t)' /\ Follows(t))
        /\ t \in Runs => t = r /\ Goes(t, "idle", t, "idle", "idle", "running", {})
        /\ thread' \in [Threads -> Call] /\ \A u \in Threads \ {t} : thread'[u] = thread[u]
    BY <1>0, <1>r, <2>1, ReturnsOwn, InHandIs
  <2>3. RunTypes'
    BY <1>0, <2>1, <2>2 DEF RunTypes
  <2>4. DownOK' /\ OneWantedRun'
    BY <1>0, <2>1, Quiet DEF Alive
  <2>5. RecordOK(r)' /\ RunOK(r)'
    BY <1>0, <1>1, <1>2, <2>1 DEF Known, RecordOK, RunOK, Alive, IsActive
  <2>6. WatcherOK(r)'
    <3>1. CASE r = t
      BY <1>1, <1>2, <2>1, <2>2, <3>1 DEF Known, WatcherOK, RecordOK, Goes
    <3>2. CASE r # t
      BY <1>1, <2>1, <2>2, <3>2 DEF Known, WatcherOK, Hand, Threads
    <3> QED
      BY <3>1, <3>2
  <2>7. \A q \in Runs \ {r} : Witnessed(q, t)
    BY <1>0, <1>r, <2>2, SlotsAssumption DEF Witnessed
  <2>8. \A u \in Threads \ {t} : Steady(r, u)
    BY <1>0, <2>1 DEF Steady, Alive
  <2>9. /\ \A u \in Threads \ {t} : thread'[u] = thread[u] /\ (session.lock = u => session'.lock = u)
        /\ \A q \in Runs \ {r} : proc'[q] = proc[q] /\ run'[q] = run[q]
        /\ Known(r)' /\ (run'[r].final => run[r].final) /\ (t \in Runs => WatcherOK(t)')
    BY <1>0, <2>1, <2>2, <2>5, <2>6 DEF Known
  <2> QED
    BY <1>0, <2>2, <2>3, <2>4, <2>7, <2>8, <2>9, StepMoves
<1>3. CASE ~run[r].final
  BY <1>0, <1>r, <1>1, <1>3, DrainKeeps DEF Lock
<1> QED
  BY <1>2, <1>3

LEMMA DrainAgainKeeps == ASSUME RunsInv, NEW t \in Threads, DrainAgain(t) PROVE RunsInv'
<1>0. /\ RunTypes /\ Own(t) /\ thread[t] \in Call /\ thread[t].at = "again" /\ UNCHANGED <<service, session>>
      /\ Callers \cap Runs = {} /\ Threads = Callers \cup Runs
  BY SlotsAssumption DEF RunsInv, RunTypes, Own, DrainAgain, At, Threads
<1>r. PICK r \in Runs : Hand(t) = r
  BY <1>0, InHandIs
<1>1. /\ run[r].lock = t /\ ~run[r].final /\ Known(r) /\ thread[t].after = "idle" /\ (t \in Runs => t = r /\ WatcherOK(t))
      /\ t \in Runs \/ thread[t].back = "unlock" => Status(r) # "running"
  BY <1>0, <1>r, InHandIs, StatusIs DEF RunsInv, Own, DrainOK, Draining, Known
<1>2. CASE Drain(t, r)
  BY <1>0, <1>r, <1>1, <1>2, DrainKeeps
<1>3. CASE /\ Status(r) = "running" \/ thread[t].seen # "running"
           /\ Becomes(t, [thread[t] EXCEPT !.at = "decide", !.seen = Status(r)]) /\ UNCHANGED <<proc, run>>
  <2> DEFINE c == [thread[t] EXCEPT !.at = "decide", !.seen = Status(r)]
  <2>1. /\ c \in Call /\ c.at = "decide" /\ c.run = r /\ c.back = thread[t].back /\ c.after = "idle" /\ c.seen = Status(r)
        /\ c.todo = thread[t].todo
    BY <1>0, <1>r, <1>1, StatusIs DEF Call, Steps, Hand
  <2>2. Becomes(t, c)
    BY <1>3
  <2> HIDE DEF c
  <2>3. Goes(t, "decide", r, thread[t].back, "idle", Status(r), thread[t].todo)
    BY <1>0, <2>1, <2>2, BecomesIs
  <2>4. RunTypes'
    BY <1>0, <1>3, <2>3 DEF RunTypes, Goes
  <2>5. DownOK' /\ OneWantedRun'
    BY <1>0, <1>3, Quiet DEF Alive
  <2>6. Own(t)'
    <3>1. Tidy(t)' /\ StartOK(t)' /\ ListOK(t)'
      BY <1>0, <1>r, <1>1, <1>3, <2>3
         DEF Goes, Own, Tidy, StartOK, ListOK, HoldsSession, InShutdown, StoppingAll, Entering, Draining, Hand
    <3>2. DrainOK(t)'
      BY <1>0, <1>r, <1>1, <1>3, <2>3, StatusIs DEF Goes, Own, DrainOK, Draining, Hand
    <3> QED
      BY <3>1, <3>2 DEF Own
  <2>7. t \in Callers => Alone(t)' /\ Follows(t)
    BY <1>r, <2>3 DEF Alone, Goes, Follows
  <2>8. WatcherOK(r)' /\ RecordOK(r)'
    BY <1>0, <1>1, <1>3, <2>3 DEF Known, WatcherOK, RecordOK, Goes, Hand
  <2>9. RunOK(r)'
    <3>1. (\E u \in Callers : Hand(u) = r /\ thread[u].back = "unlock") =>
            \E u \in Callers : Hand(u)' = r /\ thread'[u].back = "unlock"
      BY <1>0, <1>r, <2>3 DEF Goes, Hand
    <3>2. (\E u \in Callers : Hand(u) = r /\ thread[u].at = "register") =>
            \E u \in Callers : Hand(u)' = r /\ thread'[u].at = "register"
      BY <1>0, <2>3 DEF Goes, Hand
    <3>3. thread[r].at \in Refreshes => thread'[r].at \in Refreshes
      BY <1>0, <2>3 DEF Goes, Refreshes
    <3> QED
      BY <1>0, <1>1, <1>3, <3>1, <3>2, <3>3 DEF Known, RunOK, Refreshes, Alive, IsActive
  <2>10. \A q \in Runs \ {r} : Witnessed(q, t)
    BY <1>0, <1>r, <1>1 DEF Witnessed
  <2>11. \A u \in Threads \ {t} : Steady(r, u)
    BY <1>0, <1>3 DEF Steady, Alive
  <2>12. /\ \A u \in Threads \ {t} : thread'[u] = thread[u] /\ (session.lock = u => session'.lock = u)
         /\ \A q \in Runs \ {r} : proc'[q] = proc[q] /\ run'[q] = run[q]
         /\ Known(r)' /\ (run'[r].final => run[r].final) /\ (t \in Runs => WatcherOK(t)')
    BY <1>0, <1>1, <1>3, <2>3, <2>8, <2>9 DEF Known, Goes
  <2> QED
    BY <1>0, <2>4, <2>5, <2>6, <2>7, <2>10, <2>11, <2>12, StepMoves
<1> QED
  BY <1>0, <1>r, <1>2, <1>3 DEF DrainAgain

(* What the state of a run is decided to be: over, and then so is its      *)
(* process, unless the run was told to end.                                *)
LEMMA DecidedIs ==
  ASSUME RunTypes, NEW r \in Runs, NEW seen \in Statuses,
         NEW state \in IF run[r].override # "none" THEN {run[r].override} ELSE StateFrom(seen)
  PROVE  /\ state \in Active \cup Terminal
         /\ state \notin Active => state \in Terminal
         /\ state \in Terminal => state \notin Active
         /\ state \in Terminal /\ run[r].override = "none" => seen # "running"
         /\ seen # "running" => state \in Terminal
<1>1. run[r].override \in {"none", "failed", "cancelled", "aborted"}
  BY DEF RunTypes, RunState
<1>2. CASE run[r].override # "none"
  BY <1>1, <1>2 DEF Active, Terminal
<1>3. CASE run[r].override = "none"
  <2>1. state \in StateFrom(seen)
    BY <1>3
  <2>2. \/ seen = "running" /\ state = "running"
        \/ seen # "running" /\ state \in {"timed_out", "cancelled", "succeeded", "failed"}
    BY <2>1 DEF StateFrom, Statuses
  <2> QED
    BY <1>3, <2>2 DEF Active, Terminal
<1> QED
  BY <1>2, <1>3

LEMMA DecideKeeps == ASSUME RunsInv, NEW t \in Threads, Decide(t) PROVE RunsInv'
<1>0. /\ RunTypes /\ Own(t) /\ thread[t] \in Call /\ thread[t].at = "decide" /\ UNCHANGED <<service, session>>
      /\ Callers \cap Runs = {} /\ Threads = Callers \cup Runs /\ Returns(t)
  BY SlotsAssumption DEF RunsInv, RunTypes, Own, Decide, At, Threads
<1>r. PICK r \in Runs : Hand(t) = r
  BY <1>0, InHandIs
<1>1. /\ run[r].lock = t /\ ~run[r].final /\ Known(r) /\ thread[t].after = "idle" /\ run[r].in
      /\ t \in Runs => t = r /\ run[r].told
      /\ t \in Runs \/ thread[t].back = "unlock" => proc[r].finished /\ thread[t].seen # "running"
      /\ thread[t].seen # "running" => proc[r].ended /\ (run[r].override = "none" => ~proc[r].unread)
      /\ run[r] \in RunState /\ proc[r] \in Process
  BY <1>0, <1>r, InHandIs DEF RunsInv, Own, DrainOK, Draining, Known, RunTypes
<1>2. PICK state \in IF run[r].override # "none" THEN {run[r].override} ELSE StateFrom(thread[t].seen) :
        LET last == state \in Terminal /\ proc[r].finished IN
        /\ run' = [run EXCEPT ![r].state = state, ![r].final = last, ![r].lock = Nobody]
        /\ proc' = IF last THEN [proc EXCEPT ![r] = Dropped(r)] ELSE proc
  BY <1>r DEF Decide
<1> DEFINE last == state \in Terminal /\ proc[r].finished
           x == [run[r] EXCEPT !.state = state, !.final = last, !.lock = Nobody]
           p == IF last THEN Dropped(r) ELSE proc[r]
<1>3. /\ state \in Active \cup Terminal /\ (state \notin Active => state \in Terminal)
      /\ (state \in Terminal => state \notin Active)
      /\ (state \in Terminal /\ run[r].override = "none" => thread[t].seen # "running")
      /\ (thread[t].seen # "running" => state \in Terminal)
  BY <1>0, DecidedIs DEF Call
<1>4. last \in BOOLEAN /\ (last <=> state \in Terminal /\ proc[r].finished)
  BY <1>1 DEF Process
<1>5. run' = [run EXCEPT ![r] = x] /\ proc' = [proc EXCEPT ![r] = p]
  BY <1>0, <1>2 DEF RunTypes
<1>6. /\ last => /\ p.os = "dead" /\ p.known = "history" /\ p.clean /\ p.ended /\ p.finished /\ ~p.callback
                /\ p.unread = proc[r].unread
      /\ ~last => p = proc[r]
      /\ p \in Process
  <2>1. /\ Dropped(r) \in Process /\ Dropped(r).os = "dead" /\ Dropped(r).known = "history" /\ Dropped(r).clean
        /\ Dropped(r).ended /\ Dropped(r).finished /\ ~Dropped(r).callback /\ Dropped(r).unread = proc[r].unread
    BY <1>1, ZenonT(60) DEF Dropped, NoProcess, Process
  <2> QED
    BY <1>1, <2>1
<1> HIDE DEF last
<1>7. /\ x \in RunState /\ x.state = state /\ x.final = last /\ x.lock = Nobody /\ x.in = run[r].in
      /\ x.told = run[r].told /\ x.override = run[r].override
  BY <1>1, <1>3, <1>4 DEF RunState
<1> HIDE DEF x, p
<1>8. \A q \in Runs : proc'[q] = (IF q = r THEN p ELSE proc[q]) /\ run'[q] = (IF q = r THEN x ELSE run[q])
  BY <1>0, <1>5 DEF RunTypes
<1>9. /\ Own(t)' /\ (t \in Callers => Alone(t)' /\ Follows(t))
      /\ t \in Runs => Goes(t, "idle", t, "idle", "idle", "running", {})
      /\ thread' \in [Threads -> Call] /\ \A u \in Threads \ {t} : thread'[u] = thread[u]
  BY <1>0, <1>7, <1>8, ReturnsOwn
<1>10. RunTypes'
  BY <1>0, <1>5, <1>6, <1>7, <1>9 DEF RunTypes
<1>11. p.os = "alive" => proc[r].os = "alive" /\ p.known = proc[r].known
  BY <1>6
<1>12. DownOK' /\ OneWantedRun'
  BY <1>0, <1>7, <1>8, <1>11, Quiet DEF Alive
<1>13. RecordOK(r)'
  <2>1. proc'[r] = p /\ run'[r] = x /\ RecordOK(r) /\ proc[r].known # "history"
    BY <1>1, <1>8 DEF Known, RecordOK
  <2> QED
    BY <1>1, <1>4, <1>6, <1>7, <2>1 DEF RecordOK
<1>14. WatcherOK(r)'
  <2>1. proc'[r] = p /\ run'[r] = x /\ WatcherOK(r) /\ run[r].in /\ (last => proc[r].finished)
    BY <1>1, <1>4, <1>8 DEF Known
  <2>2. CASE r = t
    <3>1. proc[r].finished /\ proc[r].known # "no" /\ p.finished /\ p.known # "no"
      BY <1>1, <1>6, <2>2 DEF Known, RecordOK
    <3> QED
      BY <1>9, <2>1, <2>2, <3>1 DEF WatcherOK, Goes
  <2>3. CASE r # t
    <3>1. thread'[r] = thread[r]
      BY <1>0, <1>9, <2>3
    <3> QED
      BY <1>1, <1>6, <1>7, <2>1, <3>1 DEF Known, RecordOK, WatcherOK, Hand
  <2> QED
    BY <2>2, <2>3
<1>15. RunOK(r)'
  <2>1. proc'[r] = p /\ run'[r] = x /\ RunOK(r) /\ RecordOK(r)
    BY <1>1, <1>8 DEF Known
  <2>2. thread[t].seen # "running" => proc[r].os = "dead"
    BY <1>1, <2>1 DEF RecordOK
  <2>3. (IsActive(r)' <=> state \in Active) /\ (Alive(r)' <=> p.os = "alive")
    BY <1>7, <2>1 DEF IsActive, Alive
  <2>4. run'[r].in /\ ~IsActive(r)' /\ run'[r].override = "none" => ~Alive(r)'
    BY <1>3, <1>6, <1>7, <2>1, <2>2, <2>3
  <2>5. run'[r].final /\ run'[r].override = "none" => ~proc'[r].unread
    BY <1>1, <1>3, <1>4, <1>6, <1>7, <2>1
  <2>6. run'[r].final => ~IsActive(r)'
    BY <1>3, <1>4, <1>7, <2>1, <2>3
  <2>7. run'[r].told /\ ~proc'[r].finished => proc'[r].callback
    BY <1>6, <1>7, <2>1 DEF RunOK
  <2>8. ASSUME run'[r].told, proc'[r].finished, ~run'[r].final
        PROVE  \/ thread'[r].at \in {"lock", "again", "decide", "stop"}
               \/ \E u \in Callers : Hand(u)' = r /\ thread'[u].back = "unlock"
    <3>1. ~last /\ p = proc[r] /\ proc[r].finished /\ run[r].told
      BY <1>6, <1>7, <2>1, <2>8
    <3>2. t \notin Runs /\ thread[t].back # "unlock"
      BY <1>1, <1>3, <1>4, <3>1
    <3>3. \/ thread[r].at \in {"lock", "again", "decide", "stop"}
          \/ \E u \in Callers : Hand(u) = r /\ thread[u].back = "unlock"
      BY <1>1, <2>1, <3>1 DEF RunOK
    <3> QED
      BY <1>0, <1>9, <3>2, <3>3 DEF Hand
  <2>9. Alive(r)' => proc'[r].known # "no"
    BY <1>1, <1>6, <2>1, <2>3 DEF RecordOK
  <2> QED
    BY <2>4, <2>5, <2>6, <2>7, <2>8, <2>9 DEF RunOK
<1>16. \A q \in Runs \ {r} : Witnessed(q, t)
  BY <1>0, <1>r, <1>1 DEF Witnessed
<1>17. \A u \in Threads \ {t} : Steady(r, u)
  <2>1. proc'[r] = p /\ run'[r] = x /\ run[r].lock = t /\ run[r].in /\ x.in
    BY <1>1, <1>7, <1>8
  <2>2. proc[r].known # "no" /\ p.known # "no"
    BY <1>1, <1>6 DEF Known, RecordOK
  <2>3. (proc[r].ended => p.ended) /\ (proc[r].finished => p.finished) /\ p.unread = proc[r].unread
    BY <1>6
  <2>4. x.told = run[r].told /\ x.override = run[r].override
    BY <1>7
  <2>5. \A u \in Threads \ {t} : run[r].lock # u
    BY <2>1
  <2> QED
    BY <1>11, <2>1, <2>2, <2>3, <2>4, <2>5 DEF Steady, Alive
<1>18. /\ \A u \in Threads \ {t} : thread'[u] = thread[u] /\ (session.lock = u => session'.lock = u)
       /\ \A q \in Runs \ {r} : proc'[q] = proc[q] /\ run'[q] = run[q]
       /\ Known(r)' /\ (t \in Runs => WatcherOK(t)')
       /\ run'[r].final => run[r].final \/ run[r].told \/ (t \in Callers /\ Hand(t) = r)
  BY <1>0, <1>r, <1>1, <1>8, <1>9, <1>13, <1>14, <1>15 DEF Known
<1> QED
  BY <1>0, <1>9, <1>10, <1>12, <1>16, <1>17, <1>18, StepMoves

(* A step of a caller on one run. *)
LEMMA CallerActs ==
  ASSUME RunsInv, NEW t \in Callers, NEW r \in Runs, NEW p \in Process, NEW x \in RunState,
         proc' = [proc EXCEPT ![r] = p], run' = [run EXCEPT ![r] = x], UNCHANGED <<service, session>>,
         NEW at, NEW hand, NEW back, NEW after, NEW seen, NEW todo, Goes(t, at, hand, back, after, seen, todo),
         Hand(t) = r \/ (thread[t].back = "idle" /\ thread[t].at # "register"),
         Own(t)', Alone(t)', Follows(t), WatcherOK(r)', RecordOK(r)', RunOK(r)', x.final = run[r].final,
         p.os = "alive" /\ p.known # "no" => proc[r].os = "alive" /\ proc[r].known # "no", OneWantedRun',
         \A u \in Threads \ {t} : Steady(r, u)
  PROVE  RunsInv'
<1>0. /\ RunTypes /\ t \in Threads /\ Own(t) /\ thread[t] \in Call /\ Nobody \notin Threads
      /\ Callers \cap Runs = {} /\ Threads = Callers \cup Runs /\ t \notin Runs
  BY SlotsAssumption DEF RunsInv, Threads, Own, RunTypes
<1>1. \A q \in Runs : proc'[q] = (IF q = r THEN p ELSE proc[q]) /\ run'[q] = (IF q = r THEN x ELSE run[q])
  BY <1>0 DEF RunTypes
<1>2. RunTypes'
  BY <1>0 DEF RunTypes, Goes
<1>3. DownOK'
  BY <1>1 DEF RunsInv, DownOK, Alive
<1>4. \A q \in Runs \ {r} : Witnessed(q, t)
  BY <1>0 DEF Witnessed
<1>5. /\ \A u \in Threads \ {t} : thread'[u] = thread[u] /\ (session.lock = u => session'.lock = u)
      /\ \A q \in Runs \ {r} : proc'[q] = proc[q] /\ run'[q] = run[q]
      /\ Known(r)' /\ (run'[r].final => run[r].final) /\ (service.closing => service'.closing)
  BY <1>1 DEF Known, Goes
<1> QED
  BY <1>0, <1>2, <1>3, <1>4, <1>5, StepMoves

(* A start that is refused, or is over. *)
LEMMA RefusedKeeps ==
  ASSUME RunsInv, NEW t \in Callers, Go(t, "unlock"), UNCHANGED <<proc, run, service, session>>,
         thread[t].at \in {"sweep", "revoke", "hook"}
  PROVE  RunsInv'
<1>0. /\ RunTypes /\ t \in Threads /\ Own(t) /\ thread[t] \in Call /\ Nobody \notin Threads
      /\ Callers \cap Runs = {} /\ Threads = Callers \cup Runs /\ t \notin Runs
  BY SlotsAssumption DEF RunsInv, Threads, Own, RunTypes
<1>1. thread[t].back = "idle" /\ thread[t].after = "idle" /\ session.lock = t
  BY <1>0 DEF Own, Tidy, StartOK, HoldsSession
<1>2. Goes(t, "unlock", t, "idle", "idle", "running", thread[t].todo)
  BY <1>0, <1>1, GoIs DEF Steps, NoneInHand
<1>3. Own(t)'
  BY <1>0, <1>1, <1>2 DEF Goes, Own, Tidy, DrainOK, StartOK, ListOK, Entering, Draining, StoppingAll, InShutdown, HoldsSession, Hand
<1> QED
  BY <1>0, <1>1, <1>2, <1>3, CallMoves DEF RunTypes, Steps, Follows

LEMMA AdmitKeeps == ASSUME RunsInv, NEW t \in Callers, Admit(t) PROVE RunsInv'
<1>0. /\ RunTypes /\ t \in Threads /\ Own(t) /\ thread[t] \in Call /\ Nobody \notin Threads
      /\ Callers \cap Runs = {} /\ Threads = Callers \cup Runs /\ t \notin Runs
  BY SlotsAssumption DEF RunsInv, Threads, Own, RunTypes
<1>1. thread[t].at = "sweep" /\ thread[t].todo = {} /\ UNCHANGED <<run, service, session>>
  BY DEF Admit, At
<1>2. thread[t].back = "idle" /\ thread[t].after = "idle" /\ thread[t].seen = "running" /\ session.lock = t
  BY <1>0, <1>1 DEF Own, Tidy, Draining, StartOK, HoldsSession
<1>3. CASE Go(t, "unlock") /\ UNCHANGED proc
  BY <1>1, <1>3, RefusedKeeps
<1>4. CASE /\ CanName /\ ~\E r \in Started : IsActive(r)
           /\ thread' = [thread EXCEPT ![t].at = "spawn", ![t].run = NewRun]
           /\ proc' = [proc EXCEPT ![NewRun].slot = TRUE]
  <2>r. PICK r : r = NewRun
    OBVIOUS
  <2>1. r \in Runs /\ proc[r] = NoProcess
    BY <1>4, <2>r DEF CanName, NewRun
  <2> DEFINE p == [proc[r] EXCEPT !.slot = TRUE]
             c == [thread[t] EXCEPT !.at = "spawn", !.run = r]
  <2>2. /\ p \in Process /\ p.os = "none" /\ p.known = "no" /\ p.clean = proc[r].clean /\ p.ended = proc[r].ended
        /\ p.finished = proc[r].finished /\ p.callback = proc[r].callback /\ p.unread = proc[r].unread
        /\ proc[r].os = "none" /\ proc[r].known = "no"
    <3>1. proc[r] \in Process /\ proc[r].os = "none" /\ proc[r].known = "no"
      <4>1. proc[r] \in Process
        BY <1>0, <2>1 DEF RunTypes
      <4> QED
        BY <2>1, <4>1 DEF NoProcess
    <3> QED
      BY <3>1 DEF Process
  <2>3. /\ c \in Call /\ c.at = "spawn" /\ c.run = r /\ c.back = "idle" /\ c.after = "idle" /\ c.seen = "running" /\ c.todo = {}
    BY <1>0, <1>1, <1>2, <2>1 DEF Call, Steps
  <2>4. proc' = [proc EXCEPT ![r] = p] /\ Becomes(t, c)
    BY <1>0, <1>4, <2>r DEF RunTypes, Becomes
  <2> HIDE DEF p, c
  <2>5. Goes(t, "spawn", r, "idle", "idle", "running", {})
    BY <1>0, <2>3, <2>4, BecomesIs
  <2>6. \A q \in Runs : proc'[q] = IF q = r THEN p ELSE proc[q]
    BY <1>0, <2>4 DEF RunTypes
  <2>7. run' = [run EXCEPT ![r] = run[r]] /\ run[r] \in RunState
    BY <1>0, <1>1, <2>1 DEF RunTypes
  <2>8. \A q \in Runs : run[q].in => ~Alive(q)' \/ run[q].override # "none"
    BY <1>4, <2>2, <2>6 DEF RunsInv, RunOK, Started, Alive
  <2>9. Own(t)'
    BY <1>0, <1>1, <1>2, <2>1, <2>2, <2>5, <2>6, <2>8 DEF Goes, Own, Tidy, DrainOK, StartOK, ListOK, Entering, Draining, StoppingAll, InShutdown, HoldsSession, Hand
  <2>10. Alone(t)' /\ Follows(t)
    BY <1>2, <2>5 DEF Goes, Alone, Follows
  <2>11. WatcherOK(r)' /\ RecordOK(r)' /\ RunOK(r)'
    <3>1. Known(r) /\ thread'[r] = thread[r] /\ proc'[r] = p /\ ~run[r].told /\ ~run[r].final /\ ~run[r].in
      BY <1>0, <2>1, <2>2, <2>5, <2>6 DEF RunsInv, Known, RecordOK, Goes
    <3> QED
      BY <1>1, <2>1, <2>2, <3>1 DEF Known, WatcherOK, RecordOK, RunOK, Alive, Hand
  <2>12. OneWantedRun'
    BY <1>1, <2>2, <2>6, Quiet DEF Alive
  <2>13. \A u \in Threads \ {t} : Steady(r, u)
    BY <1>1, <2>1, <2>2, <2>6 DEF Steady, Alive
  <2> QED
    BY <1>1, <1>2, <2>1, <2>2, <2>4, <2>5, <2>7, <2>9, <2>10, <2>11, <2>12, <2>13, CallerActs
<1> QED
  BY <1>1, <1>3, <1>4 DEF Admit, Reserve

(* What holds of a start that has a new run in hand. *)
LEMMA EnteringIs ==
  ASSUME RunsInv, NEW t \in Callers, Entering(t)
  PROVE  /\ Hand(t) \in Runs /\ ~run[Hand(t)].in /\ ~run[Hand(t)].told /\ ~run[Hand(t)].final /\ ~proc[Hand(t)].callback
         /\ run[Hand(t)].state = "queued" /\ run[Hand(t)].override = "none" /\ run[Hand(t)] \in RunState
         /\ thread[t].back = "idle" /\ thread[t].after = "idle" /\ thread[t].seen = "running" /\ session.lock = t
         /\ \A u \in Threads \ {t} : session.lock # u
<1>0. t \in Threads /\ Hand(t) \in Runs
  BY DEF Threads, RunsInv, Tidy
<1>1. ~run[Hand(t)].in
  BY <1>0 DEF RunsInv, StartOK, RecordOK, Entering
<1> QED
  BY <1>0, <1>1 DEF RunsInv, RunTypes, Tidy, Draining, Entering, StartOK, HoldsSession, RecordOK

LEMMA LaunchKeeps == ASSUME RunsInv, NEW t \in Callers, Launch(t) PROVE RunsInv'
<1>0. /\ RunTypes /\ t \in Threads /\ Own(t) /\ thread[t] \in Call /\ Nobody \notin Threads
      /\ Callers \cap Runs = {} /\ Threads = Callers \cup Runs /\ t \notin Runs
  BY SlotsAssumption DEF RunsInv, Threads, Own, RunTypes
<1>1. thread[t].at = "spawn" /\ UNCHANGED <<run, service, session>>
  BY DEF Launch, At
<1>r. PICK r \in Runs : Hand(t) = r
  BY <1>1, EnteringIs DEF Entering
<1>2. /\ thread[t].back = "idle" /\ thread[t].after = "idle" /\ thread[t].seen = "running" /\ session.lock = t
      /\ \A u \in Threads \ {t} : session.lock # u
      /\ ~run[r].in /\ ~run[r].told /\ ~run[r].final /\ run[r] \in RunState /\ Known(r) /\ proc[r] \in Process
      /\ run[r].override = "none" /\ run[r].state = "queued"
      /\ proc[r].os = "none" /\ proc[r].known = "no" /\ proc \in [Runs -> Process]
  BY <1>0, <1>r, <1>1, EnteringIs DEF Entering, Own, StartOK, RunsInv, Known, RunTypes
<1>3. PICK at \in {"register", "unlock"}, p \in Process :
        /\ Go(t, at) /\ proc' = [proc EXCEPT ![r] = p] /\ p.os = IF at = "register" THEN "alive" ELSE "none"
        /\ p.known = proc[r].known /\ p.clean = proc[r].clean /\ p.ended = proc[r].ended /\ p.finished = proc[r].finished
        /\ p.callback = proc[r].callback /\ p.unread = proc[r].unread
  <2>1. CASE Go(t, "register") /\ proc' = [proc EXCEPT ![r].os = "alive"]
    <3> DEFINE p == [proc[r] EXCEPT !.os = "alive"]
    <3>1. /\ p \in Process /\ p.os = "alive" /\ p.unread = proc[r].unread /\ p.known = proc[r].known
          /\ p.clean = proc[r].clean /\ p.ended = proc[r].ended /\ p.finished = proc[r].finished /\ p.callback = proc[r].callback
      BY <1>2 DEF Process
    <3>2. proc' = [proc EXCEPT ![r] = p]
      BY <2>1
    <3> HIDE DEF p
    <3> QED
      BY <2>1, <3>1, <3>2
  <2>2. CASE Go(t, "unlock") /\ proc' = [proc EXCEPT ![r].slot = FALSE]
    <3> DEFINE p == [proc[r] EXCEPT !.slot = FALSE]
    <3>1. /\ p \in Process /\ p.os = proc[r].os /\ p.unread = proc[r].unread /\ p.known = proc[r].known
          /\ p.clean = proc[r].clean /\ p.ended = proc[r].ended /\ p.finished = proc[r].finished /\ p.callback = proc[r].callback
      BY <1>2 DEF Process
    <3>2. proc' = [proc EXCEPT ![r] = p]
      BY <2>2
    <3> HIDE DEF p
    <3> QED
      BY <1>2, <2>2, <3>1, <3>2
  <2> QED
    BY <1>r, <2>1, <2>2 DEF Launch, Spawn
<1>4. Goes(t, at, IF at = "unlock" THEN t ELSE r, "idle", "idle", "running", thread[t].todo)
  BY <1>0, <1>r, <1>2, <1>3, GoIs DEF Steps, NoneInHand
<1>5. \A q \in Runs : proc'[q] = IF q = r THEN p ELSE proc[q]
  BY <1>2, <1>3
<1>6. run' = [run EXCEPT ![r] = run[r]]
  BY <1>0, <1>1 DEF RunTypes
<1>7. \A q \in Runs : run[q].in => ~Alive(q)' \/ run[q].override # "none"
  BY <1>0, <1>1, <1>2, <1>5 DEF Own, StartOK, Entering, Alive
<1>8. Own(t)'
  <2>1. \A q \in thread[t].todo : q \in Runs /\ run[q].in
    BY <1>0, <1>1, <1>2 DEF Own, ListOK, StoppingAll, Call
  <2> QED
    BY <1>0, <1>1, <1>2, <1>3, <1>4, <1>5, <1>7, <2>1 DEF Goes, Own, Tidy, DrainOK, StartOK, ListOK, Entering, Draining, StoppingAll, InShutdown, HoldsSession, Hand
<1>9. Alone(t)' /\ Follows(t)
  BY <1>2, <1>4 DEF Goes, Alone, Follows
<1>10. WatcherOK(r)' /\ RecordOK(r)'
  <2>1. thread'[r] = thread[r] /\ proc'[r] = p /\ run'[r] = run[r] /\ ~proc[r].clean
    BY <1>0, <1>1, <1>2, <1>4, <1>5 DEF Goes, Known, RecordOK
  <2> QED
    BY <1>2, <1>3, <2>1 DEF Known, WatcherOK, RecordOK, Hand
<1>11. RunOK(r)'
  <2>1. Alive(r)' => Hand(t)' = r /\ thread'[t].at = "register"
    BY <1>3, <1>4, <1>5 DEF Goes, Alive
  <2> QED
    BY <1>1, <1>2, <2>1 DEF RunOK
<1>12. OneWantedRun'
  BY <1>1, <1>2, <1>3, <1>5, Quiet DEF Alive
<1>13. \A u \in Threads \ {t} : Steady(r, u)
  BY <1>1, <1>2, <1>3, <1>5 DEF Steady, Alive
<1>14. p.os = "alive" /\ p.known # "no" => proc[r].os = "alive" /\ proc[r].known # "no"
  BY <1>2, <1>3
<1> QED
  BY <1>1, <1>r, <1>2, <1>3, <1>4, <1>6, <1>8, <1>9, <1>10, <1>11, <1>12, <1>13, <1>14, CallerActs, ZenonT(40)

(* The record is entered, and its watcher begins to wait. *)
LEMMA EnterKeeps == ASSUME RunsInv, NEW t \in Callers, Enter(t) PROVE RunsInv'
<1>0. /\ RunTypes /\ t \in Threads /\ Own(t) /\ thread[t] \in Call /\ Nobody \notin Threads
      /\ Callers \cap Runs = {} /\ Threads = Callers \cup Runs /\ t \notin Runs
  BY SlotsAssumption DEF RunsInv, Threads, Own, RunTypes
<1>1. thread[t].at = "register" /\ UNCHANGED <<run, service, session>>
  BY DEF Enter, At
<1>r. PICK r \in Runs : Hand(t) = r
  BY <1>1, EnteringIs DEF Entering
<1>2. /\ thread[t].back = "idle" /\ thread[t].after = "idle" /\ thread[t].seen = "running" /\ session.lock = t
      /\ \A u \in Threads \ {t} : session.lock # u
      /\ ~run[r].in /\ ~run[r].told /\ ~run[r].final /\ run[r] \in RunState /\ Known(r) /\ proc[r] \in Process
      /\ run[r].override = "none" /\ run[r].state = "queued"
      /\ proc[r].known = "no" /\ proc \in [Runs -> Process]
  BY <1>0, <1>r, <1>1, EnteringIs DEF Entering, Own, StartOK, RunsInv, Known, RunTypes
<1>3. \A q \in thread[t].todo : q \in Runs /\ run[q].in
  BY <1>0, <1>1, <1>2 DEF Own, ListOK, StoppingAll, Call
<1>4. run' = [run EXCEPT ![r] = run[r]]
  BY <1>0, <1>1 DEF RunTypes
<1>5. CASE /\ ~service.closing
           /\ thread' = [thread EXCEPT ![t].at = "insert", ![r].at = "wait"]
           /\ proc' = [proc EXCEPT ![r].known = "yes"]
  <2> DEFINE p == [proc[r] EXCEPT !.known = "yes"]
             c == [thread[t] EXCEPT !.at = "insert"]
             w == [thread[r] EXCEPT !.at = "wait"]
  <2>1. /\ p \in Process /\ p.os = proc[r].os /\ p.unread = proc[r].unread /\ p.known = "yes"
        /\ p.clean = proc[r].clean /\ p.ended = proc[r].ended /\ p.finished = proc[r].finished /\ p.callback = proc[r].callback
    BY <1>2 DEF Process
  <2>2. /\ c \in Call /\ c.at = "insert" /\ c.run = r /\ c.back = "idle" /\ c.after = "idle" /\ c.seen = "running"
        /\ c.todo = thread[t].todo
    BY <1>0, <1>r, <1>2 DEF Call, Steps, Hand
  <2>3. /\ thread[r] \in Call /\ thread[r].at = "idle" /\ Hand(r) = r /\ thread[r].back = "idle" /\ thread[r].todo = {}
        /\ thread[r].after = "idle" /\ thread[r].seen = "running" /\ ~proc[r].clean /\ ~proc[r].ended /\ ~proc[r].finished
    BY <1>0, <1>2 DEF RunTypes, RunsInv, Known, WatcherOK, RecordOK, Tidy, Draining
  <2>4. /\ w \in Call /\ w.at = "wait" /\ w.run = r /\ w.back = "idle" /\ w.after = "idle" /\ w.seen = "running"
        /\ w.todo = {}
    BY <2>3 DEF Call, Steps, Hand
  <2>5. thread' = [thread EXCEPT ![t] = c, ![r] = w] /\ proc' = [proc EXCEPT ![r] = p]
    BY <1>0, <1>5 DEF RunTypes
  <2> HIDE DEF p, c, w
  <2>6. /\ thread' \in [Threads -> Call] /\ thread'[t] = c /\ thread'[r] = w
        /\ \A u \in Threads \ {t, r} : thread'[u] = thread[u]
        /\ proc' \in [Runs -> Process] /\ proc'[r] = p /\ \A q \in Runs \ {r} : proc'[q] = proc[q]
    BY <1>0, <1>2, <2>1, <2>2, <2>4, <2>5 DEF RunTypes
  <2>7. RunTypes'
    BY <1>0, <1>1, <2>6 DEF RunTypes
  <2>8. DownOK' /\ OneWantedRun'
    <3>1. ~service.down
      BY <1>5 DEF RunsInv, DownOK
    <3>2. \A q \in Runs : Alive(q)' <=> Alive(q)
      BY <2>1, <2>6 DEF Alive
    <3> QED
      BY <1>1, <3>1, <3>2 DEF RunsInv, DownOK, OneWantedRun, Live
  <2>9. \A q \in Runs : run[q].in => ~Alive(q)' \/ run[q].override # "none"
    BY <1>0, <1>1, <2>1, <2>6 DEF Own, StartOK, Entering, Alive
  <2>10. Own(t)'
    BY <1>0, <1>1, <1>2, <1>3, <2>1, <2>2, <2>6, <2>9 DEF Goes, Own, Tidy, DrainOK, StartOK, ListOK, Entering, Draining, StoppingAll, InShutdown, HoldsSession, Hand
  <2>11. Own(r)'
    BY <1>0, <2>1, <2>4, <2>6 DEF Goes, Own, Tidy, DrainOK, StartOK, ListOK, Entering, Draining, StoppingAll, InShutdown, HoldsSession, Hand
  <2>12. Alone(t)' /\ Follows(t)
    BY <1>2, <2>2, <2>6 DEF Alone, Follows
  <2>13. WatcherOK(r)' /\ RecordOK(r)' /\ RunOK(r)'
    BY <1>1, <1>2, <2>1, <2>3, <2>4, <2>6 DEF Known, WatcherOK, RecordOK, RunOK, IsActive, Hand
  <2>14. \A q \in Runs \ {r}, u \in Threads \cap {t, r} : Witnessed(q, u)
    BY <1>0, <1>1, <1>r, <1>2, <2>3 DEF Witnessed
  <2>15. \A q \in Runs \cap {r}, u \in Threads \ {t, r} : Steady(q, u)
    BY <1>1, <1>2, <1>5, <2>1, <2>6 DEF Steady, Alive
  <2>16. /\ \A u \in Threads \ {t, r} : thread'[u] = thread[u] /\ (session.lock = u => session'.lock = u)
         /\ \A q \in Runs \ {r} : proc'[q] = proc[q] /\ run'[q] = run[q]
         /\ service.closing => service'.closing
    BY <1>1, <2>6
  <2>17. \A u \in Threads \cap {t, r} : Own(u)'
    BY <2>10, <2>11
  <2>18. \A u \in Callers \cap {t, r} : Alone(u)' /\ Follows(u)
    BY <1>0, <2>12
  <2>19. \A q \in Runs \cap {t, r} : WatcherOK(q)'
    BY <1>0, <2>13
  <2>20. \A q \in Runs \cap {r} : Known(q)'
    BY <2>13 DEF Known
  <2>21. \A q \in Runs \cap {r} : run'[q].final =>
           run[q].final \/ run[q].told \/ (\E u \in Callers \cap {t, r} : Hand(u) = q)
    BY <1>1
  <2> QED
    BY <2>7, <2>8, <2>14, <2>15, <2>16, <2>17, <2>18, <2>19, <2>20, <2>21, Frame
<1>6. CASE Go(t, "unlock") /\ proc' = [proc EXCEPT ![r] = NoProcess]
  <2>1. NoProcess \in Process /\ NoProcess.os = "none" /\ NoProcess.known = "no" /\ ~NoProcess.clean /\ ~NoProcess.ended
        /\ ~NoProcess.finished /\ ~NoProcess.callback /\ ~NoProcess.unread
    BY DEF NoProcess, Process
  <2>2. Goes(t, "unlock", t, "idle", "idle", "running", thread[t].todo)
    BY <1>0, <1>2, <1>6, GoIs DEF Steps, NoneInHand
  <2>3. \A q \in Runs : proc'[q] = IF q = r THEN NoProcess ELSE proc[q]
    BY <1>2, <1>6
  <2>4. Own(t)'
    BY <1>0, <1>1, <1>2, <1>3, <2>2 DEF Goes, Own, Tidy, DrainOK, StartOK, ListOK, Entering, Draining, StoppingAll, InShutdown, HoldsSession, Hand
  <2>5. Alone(t)' /\ Follows(t)
    BY <1>2, <2>2 DEF Goes, Alone, Follows
  <2>6. WatcherOK(r)' /\ RecordOK(r)' /\ RunOK(r)'
    <3>1. thread'[r] = thread[r] /\ proc'[r] = NoProcess /\ run'[r] = run[r]
      BY <1>0, <1>1, <2>2, <2>3 DEF Goes
    <3>2. ~proc[r].finished /\ ~proc[r].ended /\ ~proc[r].clean
      BY <1>2 DEF Known, RecordOK
    <3> QED
      BY <1>2, <2>1, <3>1, <3>2 DEF Known, WatcherOK, RecordOK, RunOK, Hand, Alive
  <2>7. OneWantedRun'
    BY <1>1, <2>1, <2>3, Quiet DEF Alive
  <2>8. \A u \in Threads \ {t} : Steady(r, u)
    <3>1. ~proc[r].finished /\ ~proc[r].ended /\ run'[r] = run[r] /\ proc'[r] = NoProcess
      BY <1>1, <1>2, <2>3 DEF Known, RecordOK
    <3> QED
      BY <1>1, <1>2, <2>1, <3>1 DEF Steady, Alive
  <2> QED
    BY <1>1, <1>r, <1>2, <1>4, <1>6, <2>1, <2>2, <2>4, <2>5, <2>6, <2>7, <2>8, CallerActs
<1> QED
  BY <1>r, <1>5, <1>6 DEF Enter, Register

(* The run is listed; it is known to nobody but the start that lists it. *)
LEMMA InsertKeeps == ASSUME RunsInv, NEW t \in Callers, Insert(t) PROVE RunsInv'
<1>0. /\ RunTypes /\ t \in Threads /\ Own(t) /\ thread[t] \in Call /\ Nobody \notin Threads
      /\ Callers \cap Runs = {} /\ Threads = Callers \cup Runs /\ t \notin Runs
  BY SlotsAssumption DEF RunsInv, Threads, Own, RunTypes
<1>1. thread[t].at = "insert" /\ UNCHANGED <<proc, service, session>>
  BY DEF Insert, At
<1>r. PICK r \in Runs : Hand(t) = r
  BY <1>1, EnteringIs DEF Entering
<1>2. /\ thread[t].back = "idle" /\ thread[t].after = "idle" /\ thread[t].seen = "running" /\ session.lock = t
      /\ \A u \in Threads \ {t} : session.lock # u
      /\ ~run[r].in /\ ~run[r].told /\ ~run[r].final /\ run[r] \in RunState /\ Known(r) /\ proc[r] \in Process
      /\ run[r].override = "none" /\ run[r].state = "queued" /\ proc[r].known = "yes"
  BY <1>0, <1>r, <1>1, EnteringIs DEF Entering, Own, StartOK, RunsInv, Known, RunTypes
<1>3. \A q \in thread[t].todo : q \in Runs /\ run[q].in
  BY <1>0, <1>1, <1>2 DEF Own, ListOK, StoppingAll, Call
<1> DEFINE x == [run[r] EXCEPT !.in = TRUE]
<1>4. /\ x \in RunState /\ x.in /\ x.told = run[r].told /\ x.state = "queued" /\ x.override = "none"
      /\ x.final = run[r].final /\ x.lock = run[r].lock
  BY <1>2 DEF RunState
<1>5. run' = [run EXCEPT ![r] = x]
  BY <1>r DEF Insert
<1> HIDE DEF x
<1>6. \A q \in Runs : run'[q] = IF q = r THEN x ELSE run[q]
  BY <1>0, <1>5 DEF RunTypes
<1>7. PICK at \in {"publish", "stop"}, after \in {"idle", "unlock"}, seen \in Statuses :
        /\ Goes(t, at, r, "idle", after, seen, thread[t].todo) /\ (at = "stop" <=> after = "unlock")
        /\ seen = IF at = "publish" THEN Status(r) ELSE "running"
  <2> DEFINE c == [thread[t] EXCEPT !.at = "publish", !.seen = Status(r)]
             d == Stopping(t, r, "unlock")
  <2>1. /\ c \in Call /\ c.at = "publish" /\ c.run = r /\ c.back = "idle" /\ c.after = "idle" /\ c.seen = Status(r)
        /\ c.todo = thread[t].todo
    <3>1. PICK status \in Statuses : status = Status(r)
      BY <1>0, StatusIs
    <3>2. c = [thread[t] EXCEPT !.at = "publish", !.seen = status] /\ thread[t].run = r
      BY <1>r, <3>1 DEF Hand
    <3>3. c \in Call
      BY <1>0, <3>1, <3>2 DEF Call, Steps
    <3>4. c.at = "publish" /\ c.run = r /\ c.seen = Status(r)
      BY <1>0, <3>1, <3>2 DEF Call
    <3>5. c.back = "idle" /\ c.after = "idle" /\ c.todo = thread[t].todo
      BY <1>0, <1>2, <3>2 DEF Call
    <3> QED
      BY <3>3, <3>4, <3>5
  <2>2. /\ d \in Call /\ d.at = "stop" /\ d.run = r /\ d.back = "idle" /\ d.after = "unlock" /\ d.seen = "running"
        /\ d.todo = thread[t].todo
    BY <1>0, <1>r, <1>2, ZenonT(60) DEF Stopping, Call, Steps, Hand
  <2>3. Becomes(t, c) \/ Becomes(t, d)
    BY <1>r DEF Insert
  <2> HIDE DEF c, d
  <2>4. CASE Becomes(t, c)
    <3>1. Goes(t, "publish", r, "idle", "idle", Status(r), thread[t].todo)
      BY <1>0, <2>1, <2>4, BecomesIs
    <3> QED
      BY <1>0, <3>1, StatusIs
  <2>5. CASE Becomes(t, d)
    <3>1. Goes(t, "stop", r, "idle", "unlock", "running", thread[t].todo)
      BY <1>0, <2>2, <2>5, BecomesIs
    <3> QED
      BY <3>1 DEF Statuses
  <2> QED
    BY <2>3, <2>4, <2>5
<1>8. \A q \in thread[t].todo : run'[q].in
  BY <1>3, <1>4, <1>6
<1>9. Own(t)'
  <2>1. seen # "running" => at = "publish" /\ proc[r].ended
    BY <1>0, <1>7, StatusIs
  <2>2. run'[r].in /\ ~run'[r].told
    BY <1>2, <1>4, <1>6
  <2> QED
    BY <1>0, <1>1, <1>2, <1>7, <1>8, <2>1, <2>2 DEF Goes, Own, Tidy, DrainOK, StartOK, ListOK, Entering, Draining, StoppingAll, InShutdown, HoldsSession, Hand
<1>10. ASSUME NEW u \in Callers \ {t}, ~service.closing PROVE Hand(u) # r /\ r \notin thread[u].todo
  <2>1. u \in Threads /\ Own(u) /\ ~Entering(u) /\ ~StoppingAll(u)
    BY <1>0, <1>2, <1>10 DEF RunsInv, Own, StartOK, HoldsSession, ListOK, InShutdown
  <2> QED
    BY <1>2, <2>1 DEF Own, ListOK, StoppingAll
<1>11. Alone(t)' /\ Follows(t)
  <2>1. \A u \in Callers \ {t} : Hand(u)' = Hand(u) /\ thread'[u] = thread[u]
    BY <1>0, <1>7 DEF Goes, Hand
  <2>2. ~run'[r].final
    BY <1>2, <1>4, <1>6
  <2>3. Alone(t)'
    BY <1>1, <1>7, <1>10, <2>1, <2>2 DEF Alone, Goes
  <2> QED
    BY <1>r, <1>7, <2>3 DEF Follows, Goes
<1>12. WatcherOK(r)' /\ RecordOK(r)' /\ RunOK(r)'
  <2>1. thread'[r] = thread[r] /\ proc'[r] = proc[r] /\ run'[r] = x
    BY <1>0, <1>1, <1>6, <1>7 DEF Goes
  <2> QED
    BY <1>2, <1>4, <2>1 DEF Known, WatcherOK, RecordOK, RunOK, IsActive, Active, Hand
<1>13. OneWantedRun'
  <2>1. \A q \in Runs \ {r} : run'[q].in => ~Alive(q)' \/ run'[q].override # "none"
    BY <1>0, <1>1, <1>6 DEF Own, StartOK, Entering, Alive
  <2> QED
    BY <2>1 DEF OneWantedRun, Live
<1>14. \A u \in Threads \ {t} : Steady(r, u)
  BY <1>1, <1>2, <1>4, <1>6 DEF Steady, Alive
<1>15. PICK p \in Process : p = proc[r]
  BY <1>2
<1>16. /\ proc' = [proc EXCEPT ![r] = p]
       /\ p.os = "alive" /\ p.known # "no" => proc[r].os = "alive" /\ proc[r].known # "no"
  BY <1>0, <1>1, <1>15 DEF RunTypes
<1>17. run' = [run EXCEPT ![r] = x] /\ UNCHANGED <<service, session>> /\ x \in RunState /\ p \in Process
  BY <1>1, <1>4, <1>5
<1>18. x.final = run[r].final /\ Goes(t, at, r, "idle", after, seen, thread[t].todo)
  BY <1>4, <1>7
<1> QED
  BY <1>r, <1>9, <1>11, <1>12, <1>13, <1>14, <1>16, <1>17, <1>18, CallerActs

LEMMA PublishKeeps == ASSUME RunsInv, NEW t \in Callers, PublishState(t) PROVE RunsInv'
<1>0. /\ RunTypes /\ t \in Threads /\ Own(t) /\ thread[t] \in Call /\ Nobody \notin Threads
      /\ Callers \cap Runs = {} /\ Threads = Callers \cup Runs /\ t \notin Runs
  BY SlotsAssumption DEF RunsInv, Threads, Own, RunTypes
<1>1. thread[t].at = "publish" /\ UNCHANGED <<proc, service, session>> /\ Go(t, "hook")
  BY DEF PublishState, At
<1>r. PICK r \in Runs : Hand(t) = r
  BY <1>0, <1>1 DEF Own, Tidy
<1>2. /\ thread[t].back = "idle" /\ thread[t].after = "idle" /\ session.lock = t
      /\ \A u \in Threads \ {t} : session.lock # u
      /\ run[r].in /\ ~run[r].told /\ run[r] \in RunState /\ Known(r) /\ proc[r] \in Process
      /\ thread[t].seen # "running" => proc[r].ended
      /\ ~service.closing => ~run[r].final
  BY <1>0, <1>r, <1>1 DEF Own, Tidy, DrainOK, StartOK, ListOK, Entering, HoldsSession, RunsInv, Known, RunTypes, Alone
<1>3. \A q \in thread[t].todo : q \in Runs /\ run[q].in
  BY <1>0, <1>1, <1>2 DEF Own, ListOK, StoppingAll, Call
<1>4. PICK state \in IF thread[t].seen = "running" THEN {"running"} ELSE {"succeeded", "failed"} :
        run' = [run EXCEPT ![r].state = state]
  BY <1>r DEF PublishState
<1> DEFINE x == [run[r] EXCEPT !.state = state]
<1>5. /\ x \in RunState /\ x.in /\ x.told = run[r].told /\ x.state = state /\ x.override = run[r].override
      /\ x.final = run[r].final /\ x.lock = run[r].lock
  BY <1>2 DEF RunState, Active, Terminal
<1>6. run' = [run EXCEPT ![r] = x]
  BY <1>4
<1> HIDE DEF x
<1>7. \A q \in Runs : run'[q] = IF q = r THEN x ELSE run[q]
  BY <1>0, <1>6 DEF RunTypes
<1>8. Goes(t, "hook", r, "idle", "idle", "running", thread[t].todo)
  BY <1>0, <1>r, <1>1, <1>2, GoIs DEF Steps, NoneInHand
<1>9. Own(t)'
  <2>1. \A q \in thread[t].todo : run'[q].in
    BY <1>2, <1>3, <1>5, <1>7
  <2>2. run'[r].in /\ ~run'[r].told
    BY <1>2, <1>5, <1>7
  <2> QED
    BY <1>0, <1>1, <1>2, <1>8, <2>1, <2>2 DEF Goes, Own, Tidy, DrainOK, StartOK, ListOK, Entering, Draining, StoppingAll, InShutdown, HoldsSession, Hand
<1>10. Alone(t)' /\ Follows(t)
  BY <1>r, <1>8 DEF Alone, Goes, Follows
<1>11. WatcherOK(r)' /\ RecordOK(r)'
  <2>1. thread'[r] = thread[r] /\ proc'[r] = proc[r] /\ run'[r] = x
    BY <1>0, <1>1, <1>7, <1>8 DEF Goes
  <2> QED
    BY <1>2, <1>5, <2>1 DEF Known, WatcherOK, RecordOK, Hand
<1>12. RunOK(r)'
  <2>1. proc'[r] = proc[r] /\ run'[r] = x /\ RunOK(r) /\ RecordOK(r)
    BY <1>1, <1>2, <1>7 DEF Known
  <2>2. IsActive(r)' => state \in Active
    BY <1>5, <2>1 DEF IsActive
  <2>3. ~IsActive(r)' => ~Alive(r)
    <3>1. ~IsActive(r)' => thread[t].seen # "running"
      BY <1>5, <2>1 DEF IsActive, Active
    <3> QED
      BY <1>2, <2>1, <3>1 DEF RecordOK, Alive
  <2>4. Alive(r)' => Alive(r) /\ proc[r].known # "no"
    BY <1>2, <2>1 DEF Alive, RecordOK
  <2>5. run'[r].final => service'.closing
    BY <1>1, <1>2, <1>5, <2>1
  <2>6. run'[r].final /\ run'[r].override = "none" => ~proc'[r].unread
    BY <1>5, <2>1 DEF RunOK
  <2> QED
    BY <1>2, <1>5, <2>1, <2>3, <2>4, <2>5, <2>6 DEF RunOK
<1>13. OneWantedRun'
  BY <1>1, <1>2, <1>5, <1>7, Quiet DEF Alive
<1>14. \A u \in Threads \ {t} : Steady(r, u)
  BY <1>1, <1>2, <1>5, <1>7 DEF Steady, Alive
<1>15. PICK p \in Process : p = proc[r]
  BY <1>2
<1>16. /\ proc' = [proc EXCEPT ![r] = p]
       /\ p.os = "alive" /\ p.known # "no" => proc[r].os = "alive" /\ proc[r].known # "no"
  BY <1>0, <1>1, <1>15 DEF RunTypes
<1>17. run' = [run EXCEPT ![r] = x] /\ UNCHANGED <<service, session>> /\ x \in RunState /\ p \in Process
  BY <1>1, <1>5, <1>6
<1>18. x.final = run[r].final
  BY <1>5
<1> QED
  BY <1>r, <1>8, <1>9, <1>10, <1>11, <1>12, <1>13, <1>14, <1>16, <1>17, <1>18, CallerActs

(* The completion callback is set, or the run is refreshed at once. *)
LEMMA HookKeeps == ASSUME RunsInv, NEW t \in Callers, Hook(t) PROVE RunsInv'
<1>0. /\ RunTypes /\ t \in Threads /\ Own(t) /\ thread[t] \in Call /\ Nobody \notin Threads
      /\ Callers \cap Runs = {} /\ Threads = Callers \cup Runs /\ t \notin Runs
  BY SlotsAssumption DEF RunsInv, Threads, Own, RunTypes
<1>1. thread[t].at = "hook" /\ UNCHANGED <<service, session>>
  BY DEF Hook, At
<1>r. PICK r \in Runs : Hand(t) = r
  BY <1>0, <1>1 DEF Own, Tidy
<1>2. /\ thread[t].back = "idle" /\ thread[t].after = "idle" /\ thread[t].seen = "running" /\ session.lock = t
      /\ \A u \in Threads \ {t} : session.lock # u
      /\ run[r].in /\ ~run[r].told /\ run[r] \in RunState /\ Known(r) /\ proc[r] \in Process
  BY <1>0, <1>r, <1>1 DEF Own, Tidy, StartOK, ListOK, Entering, Draining, HoldsSession, RunsInv, Known, RunTypes
<1>3. \A q \in thread[t].todo : q \in Runs /\ run[q].in
  BY <1>0, <1>1, <1>2 DEF Own, ListOK, StoppingAll, Call
<1>4. CASE proc[r].known = "history" /\ Go(t, "unlock") /\ UNCHANGED <<proc, run>>
  BY <1>1, <1>4, RefusedKeeps
<1> DEFINE x == [run[r] EXCEPT !.told = TRUE]
<1>5. ASSUME proc[r].known = "yes", run' = [run EXCEPT ![r].told = TRUE], ~At(r, "finish"),
             \/ proc[r].finished /\ Becomes(t, Refreshing(t, r, "unlock")) /\ UNCHANGED proc
             \/ ~proc[r].finished /\ proc' = [proc EXCEPT ![r].callback = TRUE] /\ Go(t, "unlock")
      PROVE  RunsInv'
  <2>1. /\ x \in RunState /\ x.in /\ x.told /\ x.state = run[r].state /\ x.override = run[r].override
        /\ x.final = run[r].final /\ x.lock = run[r].lock
    BY <1>2 DEF RunState
  <2>2. run' = [run EXCEPT ![r] = x]
    BY <1>5
  <2> HIDE DEF x
  <2>3. \A q \in Runs : run'[q] = IF q = r THEN x ELSE run[q]
    BY <1>0, <2>2 DEF RunTypes
  <2>4. PICK at \in {"lock", "unlock"}, back \in {"idle", "unlock"}, p \in Process :
          /\ Goes(t, at, IF at = "lock" THEN r ELSE t, back, "idle", "running", thread[t].todo)
          /\ (at = "lock" <=> back = "unlock") /\ (at = "lock" <=> proc[r].finished)
          /\ proc' = [proc EXCEPT ![r] = p] /\ (at = "unlock" => p.callback)
          /\ p.os = proc[r].os /\ p.known = "yes" /\ p.clean = proc[r].clean /\ p.ended = proc[r].ended
          /\ p.finished = proc[r].finished /\ p.unread = proc[r].unread
    <3>1. CASE proc[r].finished /\ Becomes(t, Refreshing(t, r, "unlock")) /\ UNCHANGED proc
      <4> DEFINE c == Refreshing(t, r, "unlock")
      <4>1. /\ c \in Call /\ c.at = "lock" /\ c.run = r /\ c.back = "unlock" /\ c.after = "idle" /\ c.seen = "running"
            /\ c.todo = thread[t].todo
        BY <1>0, <1>2, ZenonT(60) DEF Refreshing, Call, Steps
      <4>2. Becomes(t, c)
        BY <3>1
      <4> HIDE DEF c
      <4>3. Goes(t, "lock", r, "unlock", "idle", "running", thread[t].todo)
        BY <1>0, <4>1, <4>2, BecomesIs
      <4>4. proc' = [proc EXCEPT ![r] = proc[r]]
        BY <1>0, <3>1 DEF RunTypes
      <4> QED
        BY <1>2, <1>5, <3>1, <4>3, <4>4
    <3>2. CASE ~proc[r].finished /\ proc' = [proc EXCEPT ![r].callback = TRUE] /\ Go(t, "unlock")
      <4> DEFINE p == [proc[r] EXCEPT !.callback = TRUE]
      <4>1. /\ p \in Process /\ p.callback /\ p.os = proc[r].os /\ p.known = "yes" /\ p.clean = proc[r].clean
            /\ p.ended = proc[r].ended /\ p.finished = proc[r].finished /\ p.unread = proc[r].unread
        BY <1>2, <1>5 DEF Process
      <4>2. proc' = [proc EXCEPT ![r] = p]
        BY <3>2
      <4> HIDE DEF p
      <4>3. Goes(t, "unlock", t, "idle", "idle", "running", thread[t].todo)
        BY <1>0, <1>2, <3>2, GoIs DEF Steps, NoneInHand
      <4> QED
        BY <3>2, <4>1, <4>2, <4>3
    <3> QED
      BY <1>5, <3>1, <3>2
  <2>5. \A q \in Runs : proc'[q] = IF q = r THEN p ELSE proc[q]
    BY <1>0, <2>4 DEF RunTypes
  <2>6. Own(t)'
    <3>1. \A q \in thread[t].todo : run'[q].in
      BY <1>2, <1>3, <2>1, <2>3
    <3>2. run'[r].in /\ (at = "lock" => proc'[r].finished)
      BY <2>1, <2>3, <2>4, <2>5
    <3> QED
      BY <1>0, <1>1, <1>2, <2>4, <3>1, <3>2 DEF Goes, Own, Tidy, DrainOK, StartOK, ListOK, Entering, Draining, StoppingAll, InShutdown, HoldsSession, Hand
  <2>7. Alone(t)' /\ Follows(t)
    BY <1>r, <2>4 DEF Alone, Goes, Follows
  <2>8. WatcherOK(r)' /\ RecordOK(r)'
    <3>1. thread'[r] = thread[r] /\ proc'[r] = p /\ run'[r] = x
      BY <1>0, <2>3, <2>4, <2>5 DEF Goes
    <3> QED
      BY <1>2, <1>5, <2>1, <2>4, <3>1 DEF Known, WatcherOK, RecordOK, Hand
  <2>9. RunOK(r)'
    <3>1. proc'[r] = p /\ run'[r] = x /\ RunOK(r) /\ (IsActive(r)' <=> IsActive(r)) /\ (Alive(r)' <=> Alive(r))
      BY <1>2, <2>1, <2>3, <2>4, <2>5 DEF Known, IsActive, Alive
    <3>2. p.finished => Hand(t)' = r /\ thread'[t].back = "unlock"
      BY <2>4 DEF Goes
    <3>3. ~p.finished => p.callback
      BY <2>4
    <3> QED
      BY <1>1, <1>2, <2>1, <2>4, <3>1, <3>2, <3>3 DEF RunOK
  <2>10. OneWantedRun'
    BY <1>1, <1>2, <1>5, <2>1, <2>3, <2>4, <2>5, Quiet DEF Alive
  <2>11. \A u \in Threads \ {t} : Steady(r, u)
    <3>1. proc'[r] = p /\ run'[r] = x
      BY <2>3, <2>5
    <3>2. p.os = proc[r].os /\ p.known = proc[r].known /\ p.ended = proc[r].ended /\ p.finished = proc[r].finished
          /\ p.unread = proc[r].unread
      BY <1>5, <2>4
    <3> QED
      BY <1>2, <2>1, <3>1, <3>2 DEF Steady, Alive
  <2>12. p.os = "alive" /\ p.known # "no" => proc[r].os = "alive" /\ proc[r].known # "no"
    BY <1>5, <2>4
  <2>13. PICK hand : hand = IF at = "lock" THEN r ELSE t
    OBVIOUS
  <2>14. Goes(t, at, hand, back, "idle", "running", thread[t].todo) /\ proc' = [proc EXCEPT ![r] = p]
    BY <2>4, <2>13
  <2>15. run' = [run EXCEPT ![r] = x] /\ UNCHANGED <<service, session>> /\ x \in RunState /\ x.final = run[r].final
    BY <1>1, <2>1, <2>2
  <2> QED
    BY <1>r, <2>6, <2>7, <2>8, <2>9, <2>10, <2>11, <2>12, <2>14, <2>15, CallerActs
<1> QED
  BY <1>r, <1>4, <1>5 DEF Hook

LEMMA MarkKeeps == ASSUME RunsInv, NEW t \in Callers, Mark(t) PROVE RunsInv'
<1>0. /\ RunTypes /\ t \in Threads /\ Own(t) /\ thread[t] \in Call /\ Nobody \notin Threads
      /\ Callers \cap Runs = {} /\ Threads = Callers \cup Runs /\ t \notin Runs
  BY SlotsAssumption DEF RunsInv, Threads, Own, RunTypes
<1>1. thread[t].at = "mark" /\ UNCHANGED <<proc, service, session>>
  BY DEF Mark, At
<1>r. PICK r \in Runs : Hand(t) = r
  BY <1>0, <1>1 DEF Own, Tidy
<1>2. /\ thread[t].back = "idle" /\ thread[t].after = "idle" /\ thread[t].seen = "running"
      /\ run[r].in /\ run[r] \in RunState /\ Known(r) /\ proc[r] \in Process
  BY <1>0, <1>r, <1>1 DEF Own, Tidy, ListOK, Entering, Draining, RunsInv, Known, RunTypes
<1>3. \A q \in thread[t].todo : q \in Runs /\ run[q].in
  BY <1>0, <1>1, <1>2 DEF Own, ListOK, StoppingAll, Call
<1> DEFINE x == [run[r] EXCEPT !.override = "cancelled"]
           c == [Stopping(t, r, "lock") EXCEPT !.back = "each"]
<1>4. /\ x \in RunState /\ x.in /\ x.told = run[r].told /\ x.state = run[r].state /\ x.override = "cancelled"
      /\ x.final = run[r].final /\ x.lock = run[r].lock
  BY <1>2 DEF RunState
<1>5. /\ c \in Call /\ c.at = "stop" /\ c.run = r /\ c.back = "each" /\ c.after = "lock" /\ c.seen = "running"
      /\ c.todo = thread[t].todo
  BY <1>0, <1>2 DEF Stopping, Call, Steps
<1>6. run' = [run EXCEPT ![r] = x] /\ Becomes(t, c)
  BY <1>r DEF Mark
<1> HIDE DEF x, c
<1>7. \A q \in Runs : run'[q] = IF q = r THEN x ELSE run[q]
  BY <1>0, <1>6 DEF RunTypes
<1>8. Goes(t, "stop", r, "each", "lock", "running", thread[t].todo)
  BY <1>0, <1>5, <1>6, BecomesIs
<1>9. Own(t)'
  <2>1. (\A q \in thread[t].todo : run'[q].in) /\ run'[r].in
    BY <1>3, <1>4, <1>7
  <2> QED
    BY <1>0, <1>1, <1>2, <1>8, <2>1 DEF Goes, Own, Tidy, DrainOK, StartOK, ListOK, Entering, Draining, StoppingAll, InShutdown, HoldsSession, Hand
<1>10. Alone(t)' /\ Follows(t)
  BY <1>r, <1>8 DEF Alone, Goes, Follows
<1>11. WatcherOK(r)' /\ RecordOK(r)' /\ RunOK(r)'
  <2>1. thread'[r] = thread[r] /\ proc'[r] = proc[r] /\ run'[r] = x
    BY <1>0, <1>1, <1>7, <1>8 DEF Goes
  <2>2. WatcherOK(r)' /\ RecordOK(r)'
    BY <1>2, <1>4, <2>1 DEF Known, WatcherOK, RecordOK, Hand
  <2>3. (IsActive(r)' <=> IsActive(r)) /\ (Alive(r)' <=> Alive(r)) /\ proc[r].known # "no" /\ RunOK(r)
    BY <1>2, <1>4, <2>1 DEF Known, RecordOK, IsActive, Alive
  <2>4. (\E u \in Callers : Hand(u) = r /\ thread[u].back = "unlock") =>
          \E u \in Callers : Hand(u)' = r /\ thread'[u].back = "unlock"
    BY <1>0, <1>2, <1>8 DEF Goes, Hand
  <2> QED
    BY <1>1, <1>4, <2>1, <2>2, <2>3, <2>4 DEF RunOK
<1>12. OneWantedRun'
  BY <1>1, <1>2, <1>4, <1>7, Quiet DEF Alive
<1>13. \A u \in Threads \ {t} : Steady(r, u)
  BY <1>1, <1>2, <1>4, <1>7 DEF Steady, Alive
<1>14. proc' = [proc EXCEPT ![r] = proc[r]]
  BY <1>0, <1>1 DEF RunTypes
<1>15. proc[r].os = "alive" /\ proc[r].known # "no" => proc[r].os = "alive" /\ proc[r].known # "no"
  OBVIOUS
<1> QED
  BY <1>1, <1>r, <1>2, <1>4, <1>6, <1>8, <1>9, <1>10, <1>11, <1>12, <1>13, <1>14, <1>15, CallerActs

LEMMA RevokeKeeps == ASSUME RunsInv, NEW t \in Callers, Revoke(t) PROVE RunsInv'
<1>0. /\ RunTypes /\ t \in Threads /\ Own(t) /\ thread[t] \in Call /\ Nobody \notin Threads
      /\ Callers \cap Runs = {} /\ Threads = Callers \cup Runs /\ t \notin Runs
  BY SlotsAssumption DEF RunsInv, Threads, Own, RunTypes
<1>1. thread[t].at = "revoke" /\ UNCHANGED <<proc, service, session>>
  BY DEF Revoke, At
<1>2. /\ thread[t].back = "idle" /\ thread[t].after = "idle" /\ thread[t].seen = "running" /\ session.lock = t
      /\ \A u \in Threads \ {t} : session.lock # u
  BY <1>0, <1>1 DEF Own, Tidy, StartOK, HoldsSession, Draining
<1>3. \A q \in thread[t].todo : q \in Runs /\ run[q].in
  BY <1>0, <1>1, <1>2 DEF Own, ListOK, StoppingAll, Call
<1>4. CASE thread[t].todo = {} /\ Go(t, "unlock") /\ UNCHANGED run
  BY <1>1, <1>4, RefusedKeeps
<1>5. ASSUME NEW r \in thread[t].todo, Becomes(t, [thread[t] EXCEPT !.todo = @ \ {r}]), UNCHANGED run
      PROVE  RunsInv'
  <2> DEFINE rest == thread[t].todo \ {r}
             c == [thread[t] EXCEPT !.todo = rest]
  <2>1. /\ c \in Call /\ c.at = "revoke" /\ c.run = Hand(t) /\ c.back = "idle" /\ c.after = "idle" /\ c.seen = "running"
        /\ c.todo = rest
    BY <1>0, <1>1, <1>2 DEF Call, Hand
  <2>2. Becomes(t, c)
    BY <1>5
  <2> HIDE DEF c
  <2>3. Goes(t, "revoke", Hand(t), "idle", "idle", "running", rest)
    BY <1>0, <2>1, <2>2, BecomesIs
  <2>4. Own(t)'
    BY <1>0, <1>1, <1>2, <1>3, <1>5, <2>3 DEF Goes, Own, Tidy, DrainOK, StartOK, ListOK, Entering, Draining, StoppingAll, InShutdown, HoldsSession, Hand
  <2> QED
    BY <1>0, <1>1, <1>2, <1>5, <2>3, <2>4, CallMoves DEF Follows, RunTypes, Steps
<1>6. ASSUME NEW r \in thread[t].todo,
             run' = [run EXCEPT ![r].override = "cancelled", ![r].state = "cancelled"],
             Becomes(t, [Stopping(t, r, "revoke") EXCEPT !.todo = @ \ {r}])
      PROVE  RunsInv'
  <2> DEFINE x == [run[r] EXCEPT !.override = "cancelled", !.state = "cancelled"]
             rest == thread[t].todo \ {r}
             c == [Stopping(t, r, "revoke") EXCEPT !.todo = rest]
  <2>1. /\ r \in Runs /\ run[r].in /\ run[r] \in RunState /\ Known(r) /\ proc[r] \in Process /\ r \in Threads
    BY <1>0, <1>3 DEF RunsInv, Known, RunTypes
  <2>2. /\ x \in RunState /\ x.in /\ x.told = run[r].told /\ x.state = "cancelled" /\ x.override = "cancelled"
        /\ x.final = run[r].final /\ x.lock = run[r].lock
    BY <2>1 DEF RunState, Terminal
  <2>3. /\ c \in Call /\ c.at = "stop" /\ c.run = r /\ c.back = "idle" /\ c.after = "revoke" /\ c.seen = "running"
        /\ c.todo = rest
    BY <1>0, <1>2, <2>1, ZenonT(60) DEF Stopping, Call, Steps
  <2>4. run' = [run EXCEPT ![r] = x] /\ Becomes(t, c)
    <3>1. run' = [run EXCEPT ![r] = x]
      BY <1>0, <1>6, <2>1 DEF RunTypes
    <3>2. c = [Stopping(t, r, "revoke") EXCEPT !.todo = @ \ {r}]
      BY <1>0, <2>1 DEF Stopping, Call
    <3> QED
      BY <1>6, <3>1, <3>2
  <2> HIDE DEF x, c
  <2>5. \A q \in Runs : run'[q] = IF q = r THEN x ELSE run[q]
    BY <1>0, <2>4 DEF RunTypes
  <2>6. Goes(t, "stop", r, "idle", "revoke", "running", rest)
    BY <1>0, <2>3, <2>4, BecomesIs
  <2>7. Own(t)'
    <3>1. (\A q \in rest : run'[q].in) /\ run'[r].in
      BY <1>3, <2>1, <2>2, <2>5
    <3> HIDE DEF rest
    <3> QED
      BY <1>0, <1>1, <1>2, <2>1, <2>6, <3>1 DEF Goes, Own, Tidy, DrainOK, StartOK, ListOK, Entering, Draining, StoppingAll, InShutdown, HoldsSession, Hand
  <2>8. Alone(t)' /\ Follows(t)
    BY <1>2, <2>6 DEF Alone, Goes, Follows
  <2>9. WatcherOK(r)' /\ RecordOK(r)' /\ RunOK(r)'
    <3>1. thread'[r] = thread[r] /\ proc'[r] = proc[r] /\ run'[r] = x
      BY <1>0, <1>1, <2>1, <2>5, <2>6 DEF Goes
    <3>2. WatcherOK(r)' /\ RecordOK(r)'
      BY <2>1, <2>2, <3>1 DEF Known, WatcherOK, RecordOK, Hand
    <3>3. ~IsActive(r)' /\ (Alive(r)' <=> Alive(r)) /\ proc[r].known # "no" /\ RunOK(r)
      BY <2>1, <2>2, <3>1 DEF Known, RecordOK, IsActive, Active, Alive
    <3>4. (\E u \in Callers : Hand(u) = r /\ thread[u].back = "unlock") =>
            \E u \in Callers : Hand(u)' = r /\ thread'[u].back = "unlock"
      BY <1>0, <1>2, <2>6 DEF Goes, Hand
    <3> QED
      BY <1>1, <2>2, <3>1, <3>2, <3>3, <3>4 DEF RunOK
  <2>10. OneWantedRun'
    BY <1>1, <2>1, <2>2, <2>5, Quiet DEF Alive
  <2>11. \A u \in Threads \ {t} : Steady(r, u)
    BY <1>1, <2>1, <2>2, <2>5 DEF Steady, Alive
  <2>12. proc' = [proc EXCEPT ![r] = proc[r]]
    BY <1>0, <1>1 DEF RunTypes
  <2>13. proc[r].os = "alive" /\ proc[r].known # "no" => proc[r].os = "alive" /\ proc[r].known # "no"
    OBVIOUS
  <2> QED
    BY <1>1, <1>2, <2>1, <2>2, <2>4, <2>6, <2>7, <2>8, <2>9, <2>10, <2>11, <2>12, <2>13, CallerActs
<1> QED
  BY <1>4, <1>5, <1>6 DEF Revoke

(* Shutdown marks the runs that are still active. *)
LEMMA SurveyKeeps == ASSUME RunsInv, NEW t \in Callers, Survey(t) PROVE RunsInv'
<1>0. /\ RunTypes /\ t \in Threads /\ Own(t) /\ thread[t] \in Call /\ Nobody \notin Threads
      /\ Callers \cap Runs = {} /\ Threads = Callers \cup Runs /\ t \notin Runs
  BY SlotsAssumption DEF RunsInv, Threads, Own, RunTypes
<1>1. thread[t].at = "survey" /\ UNCHANGED <<proc, service>>
  BY DEF Survey, At
<1>2. thread[t].back = "idle" /\ thread[t].after = "idle" /\ thread[t].seen = "running" /\ service.closing
  BY <1>0, <1>1 DEF Own, Tidy, Draining, ListOK, InShutdown
<1>3. ASSUME NEW r \in thread[t].todo, Becomes(t, [Refreshing(t, r, "survey") EXCEPT !.todo = @ \ {r}]),
             UNCHANGED <<run, session>>
      PROVE  RunsInv'
  BY <1>1, <1>3, SurveyPicks
<1> DEFINE still == {r \in Started : IsActive(r)}
           c == [thread[t] EXCEPT !.at = "reap", !.todo = still]
<1>4. CASE /\ run' = [r \in Runs |-> IF r \in still THEN [run[r] EXCEPT !.override = "aborted"] ELSE run[r]]
           /\ Becomes(t, c) /\ session' = [session EXCEPT !.closed = TRUE]
  <2>1. still \in SUBSET Runs /\ \A r \in still : run[r].in
    BY DEF Started
  <2>2. /\ c \in Call /\ c.at = "reap" /\ c.run = Hand(t) /\ c.back = "idle" /\ c.after = "idle" /\ c.seen = "running"
        /\ c.todo = still
    BY <1>0, <1>2, <2>1 DEF Call, Steps, Hand
  <2> HIDE DEF c, still
  <2>3. Goes(t, "reap", Hand(t), "idle", "idle", "running", still)
    BY <1>0, <1>4, <2>2, BecomesIs
  <2>4. \A q \in Runs : /\ run'[q] \in RunState /\ run'[q].in = run[q].in /\ run'[q].told = run[q].told
                        /\ run'[q].state = run[q].state /\ run'[q].final = run[q].final /\ run'[q].lock = run[q].lock
                        /\ run'[q].override = IF q \in still THEN "aborted" ELSE run[q].override
    <3> SUFFICES ASSUME NEW q \in Runs
                 PROVE  /\ run'[q] \in RunState /\ run'[q].in = run[q].in /\ run'[q].told = run[q].told
                        /\ run'[q].state = run[q].state /\ run'[q].final = run[q].final /\ run'[q].lock = run[q].lock
                        /\ run'[q].override = IF q \in still THEN "aborted" ELSE run[q].override
      OBVIOUS
    <3>1. run[q] \in RunState
      BY <1>0 DEF RunTypes
    <3>2. run'[q] = IF q \in still THEN [run[q] EXCEPT !.override = "aborted"] ELSE run[q]
      BY <1>4
    <3> QED
      BY <3>1, <3>2 DEF RunState
  <2>5. \A q \in Runs \ still : run'[q] = run[q] /\ proc'[q] = proc[q]
    BY <1>1, <1>4
  <2>6. session' \in [closed : BOOLEAN, lock : Threads \cup {Nobody}] /\ session'.lock = session.lock
    BY <1>0, <1>4 DEF RunTypes
  <2>7. RunTypes'
    <3>1. run' \in [Runs -> RunState]
      BY <1>4, <2>4
    <3> QED
      BY <1>0, <1>1, <2>3, <2>6, <3>1 DEF RunTypes, Goes
  <2>8. DownOK' /\ OneWantedRun'
    BY <1>1, <2>4, Quiet DEF Alive
  <2>9. Own(t)'
    <3>1. \A q \in still : run'[q].in
      BY <2>1, <2>4
    <3>2. t \in Callers /\ Hand(t) \in Runs => run'[Hand(t)].in
      BY <1>0, <1>1, <1>2, <2>4 DEF Own, ListOK, Entering
    <3> QED
      BY <1>0, <1>1, <1>2, <2>3, <2>6, <3>1, <3>2 DEF Goes, Own, Tidy, DrainOK, StartOK, ListOK, Entering, Draining, StoppingAll, InShutdown, HoldsSession, Hand
  <2>10. Alone(t)' /\ Follows(t)
    BY <1>1, <1>2, <2>3 DEF Alone, Goes, Follows
  <2>11. ASSUME NEW r \in Runs \cap still PROVE Known(r)'
    <3>1. thread'[r] = thread[r] /\ proc'[r] = proc[r] /\ Known(r) /\ run[r].in /\ run'[r].override = "aborted"
      BY <1>0, <1>1, <2>1, <2>3, <2>4 DEF Goes, RunsInv, Known
    <3>2. WatcherOK(r)' /\ RecordOK(r)'
      BY <2>4, <3>1 DEF Known, WatcherOK, RecordOK, Hand
    <3>3. (IsActive(r)' <=> IsActive(r)) /\ (Alive(r)' <=> Alive(r)) /\ proc[r].known # "no" /\ RunOK(r)
      BY <2>4, <3>1 DEF Known, RecordOK, IsActive, Alive
    <3>4. (\E u \in Callers : Hand(u) = r /\ thread[u].back = "unlock") =>
            \E u \in Callers : Hand(u)' = r /\ thread'[u].back = "unlock"
      BY <1>0, <1>2, <2>3 DEF Goes, Hand
    <3> QED
      BY <1>1, <1>2, <2>4, <3>1, <3>2, <3>3, <3>4 DEF RunOK, Known
  <2>12. \A q \in Runs \ still, u \in Threads \cap {t} : Witnessed(q, u)
    BY <1>0, <1>1, <1>2 DEF Witnessed
  <2>13. \A q \in Runs \cap still, u \in Threads \ {t} : Steady(q, u)
    BY <1>1, <2>1, <2>4 DEF Steady, Alive
  <2>14. \A u \in Threads \ {t} : thread'[u] = thread[u] /\ (session.lock = u => session'.lock = u)
    BY <2>3, <2>6 DEF Goes
  <2>15. \A u \in Threads \cap {t} : Own(u)'
    BY <2>9
  <2>16. \A u \in Callers \cap {t} : Alone(u)' /\ Follows(u)
    BY <2>10
  <2>17. \A q \in Runs \cap {t} : WatcherOK(q)'
    BY <1>0
  <2>18. \A q \in Runs \cap still : run'[q].final =>
           run[q].final \/ run[q].told \/ (\E u \in Callers \cap {t} : Hand(u) = q)
    BY <2>4
  <2> QED
    BY <1>1, <2>5, <2>7, <2>8, <2>11, <2>12, <2>13, <2>14, <2>15, <2>16, <2>17, <2>18, Frame, ZenonT(60)
<1> QED
  BY <1>3, <1>4 DEF Survey
-----------------------------------------------------------------------------
(* The invariant holds. *)

LEMMA RunsInitially == Init => RunsInv
<1> SUFFICES ASSUME Init PROVE RunsInv
  OBVIOUS
<1>0. Nobody \notin Threads /\ Callers \cap Runs = {} /\ Threads = Callers \cup Runs
  BY SlotsAssumption DEF Threads
<1>1. /\ NoProcess \in Process /\ NoProcess.os = "none" /\ NoProcess.known = "no" /\ ~NoProcess.clean /\ ~NoProcess.ended
      /\ ~NoProcess.finished /\ ~NoProcess.callback /\ ~NoProcess.unread
  BY DEF NoProcess, Process
<1>2. \A r \in Runs : proc[r] = NoProcess
  BY DEF Init, ProcessInit
<1>3. \A r \in Runs : /\ run[r] \in RunState /\ ~run[r].in /\ ~run[r].told /\ run[r].state = "queued"
                      /\ run[r].override = "none" /\ ~run[r].final /\ run[r].lock = Nobody
  BY DEF Init, RunState, Active
<1>4. \A t \in Threads : /\ thread[t] \in Call /\ thread[t].at = "idle" /\ Hand(t) = t /\ thread[t].back = "idle"
                         /\ thread[t].after = "idle" /\ thread[t].seen = "running" /\ thread[t].todo = {}
  BY NoCallIs DEF Init, Hand
<1>5. ~service.down /\ session.lock = Nobody
  BY DEF Init, ProcessInit
<1>6. RunTypes
  <2>1. proc \in [Runs -> Process] /\ run \in [Runs -> RunState] /\ thread \in [Threads -> Call]
    BY <1>1, <1>2, <1>3, <1>4 DEF Init, ProcessInit
  <2> QED
    BY <2>1 DEF RunTypes, Init, ProcessInit
<1>7. DownOK /\ OneWantedRun
  BY <1>3, <1>5 DEF DownOK, OneWantedRun, Live
<1>8. \A r \in Runs : WatcherOK(r) /\ RecordOK(r) /\ RunOK(r)
  BY <1>0, <1>1, <1>2, <1>3, <1>4 DEF WatcherOK, RecordOK, RunOK, Alive
<1>9. \A t \in Threads : Tidy(t) /\ DrainOK(t) /\ StartOK(t) /\ ListOK(t)
  BY <1>0, <1>4 DEF Tidy, DrainOK, StartOK, ListOK, Entering, Draining, StoppingAll, InShutdown, HoldsSession
<1>10. \A t \in Callers : Alone(t)
  BY <1>0, <1>4 DEF Alone
<1> QED
  BY <1>6, <1>7, <1>8, <1>9, <1>10 DEF RunsInv

(* What a thread does by itself: a watcher only refreshes and stops. *)
LEMMA WorkKeeps == ASSUME RunsInv, NEW t \in Threads, Work(t) PROVE RunsInv'
<1>1. CASE Stop(t) /\ UNCHANGED <<run, session>>
  BY <1>1, StopKeeps
<1>2. CASE Refresh(t)
  BY <1>2, LockKeeps, DrainAgainKeeps, DecideKeeps DEF Refresh
<1>3. CASE t \in Callers /\ StartRun(t)
  BY <1>3, SweepPicks, AdmitKeeps, LaunchKeeps, EnterKeeps, InsertKeeps, PublishKeeps, HookKeeps, UnlockKeeps DEF StartRun
<1>4. CASE t \in Callers /\ Cancelling(t)
  BY <1>4, EachKeeps, CheckKeeps, MarkKeeps, RevokeKeeps DEF Cancelling
<1>5. CASE t \in Callers /\ Shutdown(t)
  BY <1>5, ClosingKeeps, SurveyKeeps, ReapKeeps, StopAllKeeps DEF Shutdown
<1>6. ASSUME t \notin Callers PROVE ~StartRun(t) /\ ~Cancelling(t) /\ ~Shutdown(t)
  <2>1. thread[t].at \in {"idle", "wait", "end", "finish", "lock", "again", "decide", "stop"}
    BY <1>6 DEF RunsInv, WatcherOK, Threads
  <2>2. ~StartRun(t)
    BY <2>1 DEF StartRun, Sweep, Admit, Launch, Enter, Insert, PublishState, Hook, Unlock, At
  <2>3. ~Cancelling(t)
    BY <2>1 DEF Cancelling, Each, CheckActive, Mark, Revoke, At
  <2>4. ~Shutdown(t)
    BY <2>1 DEF Shutdown, Closing, Survey, Reap, StopAll, At
  <2> QED
    BY <2>2, <2>3, <2>4
<1> QED
  BY <1>1, <1>2, <1>3, <1>4, <1>5, <1>6 DEF Work

LEMMA RunsStep == RunsInv /\ [Next]_vars => RunsInv'
<1> SUFFICES ASSUME RunsInv, [Next]_vars PROVE RunsInv'
  OBVIOUS
<1>1. ASSUME NEW r \in Runs, Child(r), UNCHANGED <<run, session>> PROVE RunsInv'
  BY <1>1, ChildKeeps
<1>2. ASSUME NEW r \in Runs, Watching(r) PROVE RunsInv'
  BY <1>2, ChildKeeps, WatchKeeps DEF Watching, Watch
<1>3. ASSUME NEW t \in Threads, Work(t) PROVE RunsInv'
  BY <1>3, WorkKeeps
<1>4. ASSUME NEW t \in Callers, Calls(t) PROVE RunsInv'
  BY <1>4, InspectKeeps, BeginStartKeeps, BeginCancelKeeps, BeginEndKeeps DEF Calls
<1>5. ASSUME NEW t \in Callers, BeginShutdown(t) PROVE RunsInv'
  BY <1>5, ClosingKeeps
<1>6. CASE UNCHANGED vars
  BY <1>6, SMTT(30) DEF RunsInv, vars, RunTypes, DownOK, OneWantedRun, WatcherOK, RecordOK, RunOK, Tidy, DrainOK, StartOK, ListOK,
              Alone, Entering, StoppingAll, Draining, HoldsSession, InShutdown, Live, Alive, IsActive, Hand
<1> QED
  BY <1>1, <1>2, <1>3, <1>4, <1>5, <1>6 DEF Next, Idle

LEMMA RunsHold == Spec => []RunsInv
BY RunsInitially, RunsStep, PTL DEF Spec
-----------------------------------------------------------------------------
(* What follows of it. *)

(* Of two processes alive in a session, at least one belongs to a run that *)
(* has been told to end: agent_run_start() looks at every run under the    *)
(* session's lock, and a run that is over without having been told has no  *)
(* process any more.                                                       *)
THEOREM OneIsWanted == Spec => []OneWantedRun
BY RunsHold, PTL DEF RunsInv

(* A run that is final and was not told to end has no output left: the     *)
(* loop of _refresh_agent_run() reads after it saw the process end.        *)
THEOREM FinalIsDrained == Spec => []DrainedAtEnd
<1>1. RunsInv => DrainedAtEnd
  BY DEF RunsInv, RunOK, DrainedAtEnd
<1> QED
  BY <1>1, RunsHold, PTL

(* A run whose process is finished is final, or its watcher or the start   *)
(* that returned it is bringing it up to date: the completion callback is  *)
(* set, under record.lock, before the process is finished, or the start    *)
(* refreshes the run itself.                                               *)
THEOREM CompletionIsNoticed == Spec => []CompletionIsSeen
<1>1. RunsInv => CompletionIsSeen
  BY DEF RunsInv, RunOK, CompletionIsSeen, At
<1> QED
  BY <1>1, RunsHold, PTL

(* When shutdown() is over, the only processes alive are those of starts   *)
(* that have yet to look at _process_closing, and will kill them.          *)
THEOREM ShutdownStopsAll == Spec => []NothingSurvives
<1>1. RunsInv => NothingSurvives
  <2> SUFFICES ASSUME RunsInv, service.down, NEW r \in Runs, Alive(r)
               PROVE  \E t \in Callers : Hand(t) = r /\ At(t, "register")
    BY DEF NothingSurvives
  <2>1. proc[r].known = "no"
    BY DEF RunsInv, DownOK
  <2> QED
    BY <2>1 DEF RunsInv, RunOK, At
<1> QED
  BY <1>1, RunsHold, PTL

(* What a step may do to the state of a run. *)
StatesStay == \A r \in Runs : run[r].final /\ ~service.closing => run'[r].state = run[r].state

LEMMA WorkKeepsStates == ASSUME RunsInv, NEW t \in Threads, Work(t) PROVE StatesStay
<1>0. run \in [Runs -> RunState]
  BY DEF RunsInv, RunTypes
<1>1. CASE UNCHANGED run
  BY <1>1 DEF StatesStay
<1>2. ASSUME NEW r, Drain(t, r) PROVE StatesStay
  BY <1>0, <1>2 DEF Drain, StatesStay, RunState
<1>3. CASE Decide(t)
  <2>1. ~run[Hand(t)].final
    BY <1>3 DEF RunsInv, DrainOK, Draining, Decide, At
  <2>2. \A q \in Runs \ {Hand(t)} : run'[q] = run[q]
    BY <1>0, <1>3 DEF Decide
  <2> QED
    BY <2>1, <2>2 DEF StatesStay
<1>4. CASE PublishState(t)
  <2>1. t \in Callers
    BY <1>4 DEF RunsInv, WatcherOK, Threads, PublishState, At
  <2>2. ~service.closing => ~run[Hand(t)].final
    BY <1>4, <2>1 DEF RunsInv, Alone, PublishState, At
  <2>3. \A q \in Runs \ {Hand(t)} : run'[q] = run[q]
    BY <1>0, <1>4 DEF PublishState
  <2> QED
    BY <2>2, <2>3 DEF StatesStay
<1>5. CASE Revoke(t) /\ ~UNCHANGED run
  <2>1. PICK r \in thread[t].todo :
          IsActive(r) /\ run' = [run EXCEPT ![r].override = "cancelled", ![r].state = "cancelled"]
    BY <1>5 DEF Revoke
  <2>2. run[r].final /\ r \in Runs => service.closing
    BY <2>1 DEF RunsInv, RunOK
  <2>3. \A q \in Runs \ {r} : run'[q] = run[q]
    BY <1>0, <2>1
  <2> QED
    BY <2>2, <2>3 DEF StatesStay
<1>6. CASE Insert(t) \/ Hook(t) \/ Mark(t) \/ Survey(t)
  BY <1>0, <1>6 DEF Insert, Hook, Mark, Survey, StatesStay, RunState
<1>7. CASE Refresh(t)
  BY <1>1, <1>2, <1>3, <1>7 DEF Refresh, Lock, DrainAgain
<1>8. CASE StartRun(t)
  BY <1>1, <1>4, <1>6, <1>8 DEF StartRun, Sweep, Admit, Launch, Enter, Unlock
<1>9. CASE Cancelling(t)
  BY <1>1, <1>5, <1>6, <1>9 DEF Cancelling, Each, CheckActive
<1>10. CASE Shutdown(t)
  BY <1>1, <1>6, <1>10 DEF Shutdown, Closing, Reap, StopAll
<1> QED
  BY <1>1, <1>7, <1>8, <1>9, <1>10 DEF Work

(* Until shutdown() begins, the state of a run whose last status is kept   *)
(* never changes: a refresh that decides has the lock of a run that is not *)
(* final, a start publishes the state of a run nobody else knows, and a    *)
(* revocation changes active runs only.                                    *)
THEOREM FinalStays == Spec => FinalIsFinal
<1>1. RunsInv /\ [Next]_vars => [StatesStay]_vars
  <2> SUFFICES ASSUME RunsInv, Next PROVE StatesStay \/ UNCHANGED vars
    OBVIOUS
  <2>1. ASSUME NEW t \in Threads, Work(t) PROVE StatesStay
    BY <2>1, WorkKeepsStates
  <2>2. CASE UNCHANGED run
    BY <2>2 DEF StatesStay
  <2>3. ASSUME NEW t \in Callers, Calls(t) \/ BeginShutdown(t) PROVE UNCHANGED run
    BY <2>3 DEF Calls, Inspect, BeginStart, BeginCancel, BeginClose, BeginRevoke, BeginShutdown
  <2> QED
    BY <2>1, <2>2, <2>3 DEF Next, Watching, Idle
<1> QED
  BY <1>1, RunsHold, PTL DEF Spec, FinalIsFinal, StatesStay

=============================================================================
