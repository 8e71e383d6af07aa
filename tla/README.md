# TianCheng MCP: verification project

TianCheng MCP is a Python server that gives a language-model client tools on the
owner's machine: files, commands, long-running processes, coding agents, and
directories outside the workspace under short-lived grants. A separate process
supervises the tunnel through which remote clients reach it. This directory
holds TLA+ modules for its concurrent core, TLC configurations that check them on
small instances, and TLAPS proofs for every size of instance.

Paths such as `jobs.py:313` are relative to `src/src/tiancheng_mcp/`. PROJECT.json
names, for every definition that models code, the lines it models.

Contents: 1 the system, 2 the plan, 3 the modules, 4 the runs, 5 fairness,
6 the proofs, 7 disagreements between code and documents, 8 what is not covered.

## 1. The system

### Components

| component | state it keeps | operations | status |
|---|---|---|---|
| Background jobs (`jobs.py`) | a table of records, idempotency keys, a bounded FIFO, worker threads, `_stopping` | submit, status, result, list, cancel, cancel_for_grant, the worker loop, shutdown | modelled |
| External grants (`grants.py`, three callers in `service.py`) | pending requests with attempts, active capabilities with deadlines, ids that a purge has ended | request, approve, cancel_request, revoke, status, resolve, expire, policy_update | modelled |
| Access policy changes (`policy.py`, `service.py`, `tc.ps1`) | the policy file and its backup, the policy in the service and in the grant manager, staged changes | stage, approve, cancel, save, load, install, the owner's editor | partly |
| Tunnel supervisor (`tunnel_supervisor.py`, `execution_supervisor.py`, `tc.ps1`) | lock file, state file, stop file, child, job object, restart budget, failure window, observer's record | acquire, spawn, probe, recover, back off, stop; output readers | modelled |
| Execution records store (`execution_store.py`) | two bounded queues, segment files, watermarks, loss counters, manifest | publish, the writer thread, close | partly |
| Managed processes (`process_runtime.py`, `service.py`) | slots, registry, child, readers, watcher | reserve, launch, register, read, stop, finish | partly |
| Agent sessions and runs (`service.py`) | one lock per session and per run, states, overrides, kept statuses | start, inspect, cancel, close, revoke, completion callback, shutdown | partly |
| Tool call path (`service.py`, `access_context.py`) | none of its own: a call waits for its job, or opens a scope | wait, hand over to the background, poll; admit, resolve, scan, act | partly |
| Workspace files and trash (`service.py`, `file_operations.py`) | path reservations, trash items with durable intents | write, edit, append, move, copy, delete, restore, purge; a stop of the server | partly |
| Manual approvals (`agent_approvals.py`, `service.py`) | a turn, its pending approvals, deadlines and undelivered answers | parse, list, respond, expire, flush | partly |
| Conversation catalog (`agent_catalog.py`, `catalog_storage.py`, `agent_admin.py`) | a database with its logs, a maintenance lock, a cursor per source | refresh, open, set aside, rebuild | partly |
| Execution record queries (`execution_query.py`) | a cursor between pages | export of one operation over files that are written and evicted | partly |
| Media and artifact caches (`artifacts.py`, `media_results.py`) | bounded maps with deadlines under one lock | put, read | partly |
| Agent adapters (`agent_adapters.py`, `pi_adapter.py`, `agents.py`) | a session's defaults | normalise, merge, authorize, build a command | partly |
| Attachments and proxies (`attachment_io.py`, `proxy*.py`) | download slots, a worker process per download | import, cancel, worker's hops | partly: proxies are not |
| Guards (`security.py`, `access_context.py`, `command_policy*.py`, `environment_admin.py`, ...) | the scope of a call; JSON files the owner edits | admit and resolve; validate | partly: the scope, not the validators |
| Execution observers (`execution_lifecycle.py`) | none beyond the events they emit | emit | not modelled: the once-only events follow the modelled watcher and refresh |
| Search (`search_runtime.py`) | none | walk, match | not modelled: sequential, stateless |
| MCP registration, CLI, launchers, menus | none | start | not modelled: declarative; what the owner's menus do to shared files is in PolicyReload and TunnelSupervisor |

### How they interact

- Every tool runs on a worker thread of the MCP framework. It calls the service,
  which runs most operations through `_run_with_fallback`: a job is submitted to
  the queue and the caller waits a while, then gets a job id. So the same job is
  touched by its worker, by its waiter, by callers that poll or cancel it, by a
  revocation and by shutdown.
- A grant is resolved by the *runner of a job*. When the grant ends, by
  revocation, deadline or policy, whoever ended it sweeps the jobs that
  carry its id. The two happen under two locks.
- A policy reload installs a policy in the service and in the grant manager and
  then ends the grants the new policy denies.
- An agent run is a managed process plus a parser of its output. The watcher
  thread of the process calls back into the run; so do the callers that look at
  it, and shutdown.
- A file tool inside the workspace holds reservations of folders while it works,
  not the service's lock. A call outside it works in a scope whose jail
  asks the policy or the grant again for each path.
- A start of an agent turn passes a chain of checks under the session's lock, the
  policy is reloaded under another one, and the shells it no longer permits are
  swept after that. A turn with manual approvals moves only while a client's call
  feeds its parser and flushes its answers.
- The owner rebuilds the catalog from a process of his own, against the same
  files and file lock as the service.
- The tunnel supervisor is a process of its own. It shares files with the other
  launches and with the owner's PowerShell menu, and it keeps a record of every
  child in an execution store. The service keeps its own producer of the store.

### Hard behaviours, and the properties that make each component correct

*Jobs.* Submission, purge, reclaim, cancellation, revocation and commit are
separate critical sections, a commit is three of them, and shutdown walks the
records without the lock. Correct means: no accepted job is lost or run twice; a
key never has two unfinished jobs; records are dropped oldest first, never an
unfinished one; a finished job no longer runs and does not change; a revoked
result is never readable; and a call, which reads the record field by field
without the lock, gets an answer in the end, one that was true while it waited.

*Grants.* Lapsing is noticed by any call, but the sweep is owed by the reaper;
resolution examines the file system between two critical sections. Correct
means: limits hold whatever is approved in which order; a path is handed out
only under a grant that is live; each ended grant is swept exactly once; and
after the sweep no job of it is readable.

*Policy.* Nobody holds a lock from the policy read to the policy written, and
writing is two replacements. Correct means: nothing is allowed that the owner or
an approval did not ask for; an approval that reports success is in force; no
saved rule disappears; and a call under way touches nothing it was never entitled to.

*Tunnel.* Processes race on a lock file, die anywhere, and are stopped at any
time; reader threads of an old child report late. Correct means: one supervisor
per profile; each respawn is paid from the budget; a failure signal is acted on
and a stop is obeyed.

*Execution store.* A single watermark over two queues and two files, writes and
rotations that fail half-way, losses reported through the queue that
lost them. Correct means: what is called synced survives a power cut; losses are
counted and reported once; a store that is told to close ends; an export over
files that are written and removed meanwhile is whole or says that it is not.

*Processes and runs.* A watcher, several callers and shutdown work on the same
process, with four kinds of lock. Correct means: slots are neither leaked nor
overrun; one active run per session; a final run is drained and never changes;
a finished process makes its run final though nobody asks; shutdown leaves no
process behind.

*Agent turns.* A turn's authority (directory, shell, options, conversation) is
examined in a chain of steps while all of it may be withdrawn. Correct means: a
launched command keeps to what holds at its start; an attached session takes up
no conversation but its own or one it made; a shell whose permission is gone
ends; an agent is told what a client decided, once, and every request ends.

*Files, trash, catalog, handles.* Tools interleave over overlapping trees, and
the server may stop between an intent and a move. A walk of a source that changes
is continued across refreshes; a rebuild may stop between the moves of a
database and its logs. Correct means: every tool is one step on the files; a
deleted item is restorable until it is purged; the catalog is right about what
did not change; a log never meets another database; a handle shows what may be read.

*Downloads.* A worker process hangs, is redirected, is cancelled. Correct means:
slots are not lost, no worker outlives its call, listed hosts only, and an end.

## 2. The plan

Done, in this order:

1. `JobManager` and the abstract `JobPromise`, with refinement and proofs.
2. `Grants`, and `GrantJobs`, which composes it with `JobPromise`, with proofs.
3. `PolicyReload`.
4. `ProfileLock` and `TunnelSupervisor`, which composes it with the loop, with proofs.
5. `ExecutionStore`, with proofs.
6. `ManagedProcesses` and `AgentRuns`, which composes it with one session.
7. `JobCalls` on top of `JobManager`: the readers of a job and the waiting call.
8. `WorkspaceFiles` and the abstract `WorkspacePromise`, with refinement.
9. `Approvals`, `Attachments`, `CatalogStorage`, `CatalogRefresh`, `ResultHandles`.
10. `ScopedCalls`, `AgentSessions`, `AgentLaunch`, `RecordQuery`.
11. The runs of small components put together (`MCCalls`, `MCFilesAccess`, `MCRecords`).
12. Proofs of every safety and action property the passing runs check, and of both refinements.

Left:

1. **Retention between producers** as part of ExecutionStore: the shared budget and
   its lock (RecordQuery has the removal of segments only as the reader meets it).
2. **The agents' output parsers**: what `CodexJsonlParser` and its siblings
   decide from a sequence of events that breaks off.

Every module takes its sizes as CONSTANTS with named assumptions, has one action
per critical section (or per step outside one), and uses no RECURSIVE operator.

## 3. The modules

The operators marked "fault" in the modules are plausible bugs: each is swapped
in for the definition below it to see that a property notices. They are no part
of a specification.

### JobManager

`job` holds every JobRecord ever made and `records` the ids that are still in the
table; `idem` and `queue` are the dictionaries and the FIFO of the same names.
`wpc`/`wjob` are the place and the record of each worker in `_worker_loop`, and
`spc`/`sTodo`/`sJob` those of `shutdown`.

| code | actions |
|---|---|
| `submit`, with the purge and reclaim it begins with | SubmitReused, SubmitTableFull, SubmitQueueFull, SubmitAccepted; then Announce (the observer, outside the lock) |
| `get`, `status`, `result`, `list` (they purge) | Query |
| `cancel`, `cancel_for_grant` | Cancel, CancelForGrant |
| `_worker_loop` | TestStopping (the top of the loop, where a worker leaves), Dequeue or GetTimesOut, Skip, Begin, Commit, Stamp, Signal; the end of a job is three critical sections (Commit, Stamp, Signal) |
| `shutdown` | BeginShutdown, Snapshot, then SdPick, SdTest, SdExpire, SdSignal per record, without the lock, and SdEnd |

Times are ranks of a logical clock; a purge takes any cutoff up to now, so a run
covers every retention setting. A runner may return, raise, or raise the
cancellation; it is the code of a tool. A worker whose `get` timed out looks at `_stopping`
a step later and leaves whatever has been queued since; only shutdown's walk ends such a record.

### JobPromise

What callers are promised: per job a value that goes none, pending, value or no
value, forgotten; `Withdraw` takes the values of a grant's jobs, of the pending
ones for good. `JobManager!KeepsPromise` is the refinement, with the mapping
`PromiseOf`.

### Grants and GrantJobs

One member of `Grants` is a request and the capability it becomes. `aged` and
`denied` stand for clocks and paths. `expired` is `_expired_ids`. `owed` are the
ids that some thread has taken out of the manager and has not swept yet: the gap
between the two locks at service.py:1540 and service.py:752. Every call begins
with the purge of `_purge_expired_locked`, and so does its action.
`resolve` is Lookup, then Refuse or Confirm.

GrantJobs conjoins these with JobPromise: the thread that resolves is the runner
of a job, the job carries a grant id that the *client* sent, and the sweep is
`Sweep /\ Withdraw`. It uses the promise and not the queue because the queue has
been shown to keep the promise.

### PolicyReload

A policy is one rule per directory. A change, a reloader and the owner's editor
are threads, each with a place and a private draft; every file replacement, read
and assignment is a step. `installer` is the lock of `policy_update()`. Restart
drops what is in memory, wherever the threads are. `lastSaid`, `told` and
`alone` are history: what was last saved for a directory, what the owner ever
allowed, which approvals nobody overlapped.

### ProfileLock and TunnelSupervisor

ProfileLock has the system calls of `ProfileLock.__enter__`/`__exit__` as separate steps of any number
of launches. A file is named after its creator, so "the path leads to another
file now" can be said. `Posix` says whether an open file can be unlinked.

TunnelSupervisor adds the memory of the launch that holds the lock (`sup`), its
children, the orphans of crashed launches, and the stop and state files. The
loop of `_run` is cut at its reads of what other threads write (Spawn,
ClearSignals, Popen, Guard, Probe/PollWithoutProbe, ResetBudget, Decide,
KillChild, Backoff, LoopStopped, Finally); `_tee` is ReadLine, CountLine, Raise.
Time is the step TimePasses, and a budget or window entry may be old at any time.

### ExecutionStore

An event is a number and a kind. `publish` is one critical section with three
outcomes: accepted, numbered and dropped, dropped without a number. The writer
thread takes by number, writes (with or without a rotation, or fails after any
step of one), syncs, and reports losses in two critical sections with `hand`
between them. `loose` are the events in files that are not fsynced; a power cut
would lose them. `handle = "stuck"` is the closed handle that stays in `_files`
when the removal of a reservation raises (execution_store.py:295).

### ManagedProcesses and AgentRuns

A process is named by the run it serves, and its watcher by the same name. A
thread is a record: its step, the run in hand, and where it goes on. Slots,
launch, registration, watcher and stop are in ManagedProcesses. AgentRuns adds
`run` (the AgentRunState with its lock) and `session`. `_refresh_agent_run` is
Lock, DrainAgain, Decide; `agent_run_start` is BeginStart to Unlock under the
session's lock, with the publication of the state and the callback (PublishState,
Hook) outside the run's lock, as in the code; cancel, close, revoke and shutdown
mark, stop and refresh in the code's order.

### JobCalls

`call` is what a client does: `_run_with_fallback` submits (CallNew, CallReused,
CallRefused), waits for the job's `done` (WaitEnds) or runs out of patience
(WaitTimesOut), then reads the record it holds *without the lock*: first
`error`/`exception` (Raise), then `result` (ReturnResult). A client with a handle
polls: Ask (`get`), LookReady, LookError, ReturnResult, one field at a time.
`since` is history: every truth of the job, in JobPromise's terms, since the call
began to look at it.

### WorkspaceFiles and WorkspacePromise

A file is a place and a content (a set of texts, its own hash). Every tool is
Call, Hold (the reservation of `coordinate_mutation`, which overlaps with
ancestors and descendants), the tool's own steps and Release. A deletion is
Intend, MoveToTrash, Unintend if the move fails; restore and purge likewise; Stop
ends the server between any two of them, and what is on the disk remains. In
WorkspacePromise each tool is one step; a tree that is copied or purged may be
left in part, because `shutil.copytree` and `rmtree` may break off.

### CatalogRefresh and CatalogStorage

CatalogRefresh is one source: Begin, one step per file (Unchanged, Oversized,
Defer, Open and Close, CannotStat), WalkEnds or BreakOff, Commit or Abandon. The
agents change files throughout, the owner changes the limits. `steady` is history:
what nothing changed since the cycle began.

CatalogStorage is the group of three files with the lock of threads and
processes: the errands are use, with its set-aside of a corrupt database,
and rebuild. A rebuild moves one file per step; ProcessEnds ends a process between
any two, and nothing repairs what it leaves except the next user, who makes a new
database or continues with what is there. It begins without a catalog, or with one and the log of
a process that was killed. `torn` is history: the databases whose group a process ended, or a
failed restoration, left in part; their log is what the next connection discards.

### ResultHandles, RecordQuery

ResultHandles has the put and the read of both caches with their checks before
and after the read. RecordQuery is the viewer: BeginPage, ListProducers, then
producers and segments in order (EnterProducer, OpenSegment, ReadLine, JudgeTail),
StopPage at any line, while producers write, rotate, die, and the retention
removes a segment (RemoveSegment) and says so afterwards (TellRemoval), both only while a producer is
alive to do it (Collecting). Once the
export has noted a gap it is not explored further.

### ScopedCalls

A policy is a function from paths to rules; RuleFor is the most specific one, and
a call is Explain, AdmittedByPolicy or AdmittedByGrant, ResolveSource,
ResolveTarget, Scan of each entry of the tree, Act. `moments` are the policies and leases the
call has lived under. Parents of a target that are missing are created unchecked, as in
the code. A listing resolves an entry (CheckEntry) and shows it, with what is below it to follow,
a step later (ShowEntry); glob asks a second time for a directory and goes below it even if
the answer has changed (PassOver). `Links` are links and junctions: the jail refuses one before anybody
is asked (Resolves), search and glob leave it out, and list_dir names it nevertheless, with
its time but without following it (service.py:1883). CallsKeepTheirScope therefore asks a right
to the *directory* of all that is shown, and a right to the entry itself of all but the links.

### AgentSessions and AgentLaunch

AgentSessions is one session, new or attached: a start is a chain of checks
under the session's lock, each a step (OneAtATime, Reauthorize, SamePlace,
CheckDirectory, CheckShell, CheckOptions, LaunchTurn); a reload installs a policy and
then sweeps the shells under the session's lock. The refresh of a fork writes
the session's id first and drops its reference afterwards, under the run's lock
only. AgentRuns has the processes of these turns and abstracts from their
authority; AgentSessions has the authority and reduces a process to live or over.

AgentLaunch is a pure computation around a policy that changes: defaults and
overrides, normalised, merged and resolved, become a command of one of four
transports or are refused. One option of the session meets one of the run, which
is enough for any pair to meet; summaries and prompts are left out.

### Approvals and Attachments

An approval moves only while a client's call holds the locks: it feeds the parser
line by line, flushes, and answers. `told` is what the agent was sent, `chose`
what a client decided and whether it was told "submitted". In Attachments a call
takes a slot, watches a worker process that may hang at every hop, kills it when it is
cancelled or late, and commits by linking a file that must not exist.

## 4. The runs

| run | instance | distinct states | shows |
|---|---|---|---|
| job_queue | 3 jobs (2 if a shutdown begins) with 1 worker and 1 key, or 2 jobs with 2 workers and 1 grant; queue 1, table 2 | 1,480,775 | OneJobPerKey, NoLostJob, RevokedStaysHidden, RunsOnce, DoneMeansStopped |
| job_calls | 2 clients, 1 job, 1 worker, queue 1, table 1, with a key and a grant or neither, fair | 196,136 | AnswerWasTrue, EveryCallIsAnswered, and the refinement KeepsPromise |
| calls | grants: 2 for 1 place, 1 job; approvals: 2 requests, 1 pending at a time, 2 seen; imports: 2 for 1 slot, 1 redirect; launches: every option against every other; fair | 164,100 | EndedIsAccounted, SweptIsUnreadable, LapsedIsSwept; DecisionsAreTheClients, EveryRequestEnds; WorkersAreContained, EveryDownloadEnds; LaunchKeepsAuthority |
| files_access | workspace: 2 clients, 2 paths, 3 calls, 1 trash name; rows: 3 files, 2 refreshes, 2 changes; database: 3 users in 2 processes, 2 databases; results: 2 readers, 2 handles for 1 place, 3 writes; policy: 2 directories, 2 changes for 1 place, 1 reloader, 1 edit; calls: 7 paths, one a link, rules above and inside, 1 reload; sessions: 2 turns, 1 starter, 1 reload of a shell's, 2 changes | 1,454,590 | the refinement KeepsWorkspace; CatalogIsTrue; StorageIsWhole; HandlesShowWhatMayBeRead; NothingUnasked, EffectiveAlone; CallsKeepTheirScope; RevokedShellEnds, ResumesItsOwn |
| records | store: both queues 1, 3 numbers and close()'s, 1 drop, 1 closer, fair; query: 2 producers, 2 segments of 2 lines, 1 removal | 1,206,045 | SyncedIsDurable, LossIsCounted, LossIsReported, StoppingEnds; ExportIsWhole |
| tunnel_supervisor | 2 launches, Windows, threshold 2, budget 1, 2 children, 2 failure lines, fair | 383,684 | SingleInstance, EveryRespawnIsPaid, SignalIsAnswered, StopIsObeyed |
| agent_runs | 2 threads, 2 runs, 2 slots, 3 calls | 2,692,313 | OneWantedRun, DrainedAtEnd, CompletionIsSeen, NothingSurvives, FinalIsFinal |
| job_fabricated_stop, policy_lost_rule, tunnel_posix_lock, agent_second_run, record_silent_gap | | | a claim of the documents that the code does not keep (section 7) |

Three runs hold several components that share *no* state: `calls`, `files_access`
and `records`. Their MC modules choose one part in the first state (`part`) and
leave the others as they began, so that what is explored is the sum of the
parts' state spaces and not their product, and a property of one part says nothing about another.
Compositions whose parts do interact are modules of their own (GrantJobs,
JobCalls, AgentRuns, TunnelSupervisor). `job_queue` chooses one of two settings
of the same queue for the same reason: keys and reclaim need three jobs, double execution two
workers, and both together are too many states. `records` and `calls` carry the fairness of a part
into the union.

Why these bounds are enough for the cases of interest:

- *job_queue*: three submissions against a table of two make every outcome of
  reclaim happen (nothing, one, not enough); two equal keys need two submissions, the third forces
  the first out. Two workers are needed for a double execution, one grant for a
  sweep that meets a job in each of its states. The
  table limit must not exceed the jobs, or it never bites. Shutdown is possible throughout, but with one
  worker it meets two of the three jobs, born before or after it: one in the worker's hand and
  one behind it in the queue is what its walk tells apart.
- *job_calls*: two clients share one job through its key, so that one reads what the other
  cancels; one place in table and queue makes refusals and early drops happen. One job and one worker are
  enough for a record that is queued after the worker's last look at the queue and left there, which
  only shutdown answers.
- *grants*: one place for two grants makes capacity bite at request and at
  approval; one attempt is enough for the refused, the exhausted and the granted approval.
- *approvals*: one pending request of two makes the limit refuse; a
  repeated request is a protocol error. The limit of requests seen (256) fails in the
  same way and is not reached by two.
- *imports*: two calls for one slot wait for each other; one redirect leads to
  a listed and to an unlisted host.
- *launches*: what a check tells apart is at most two options at once, and one
  of them may be the session's and the other the run's.
- *policy*: which of the two directories the editor and the first change are about is a matter of names,
  so it is fixed. Two changes and a reload are the three threads that the lost
  update and the stale installation need. More edits add
  nothing, because an edit starts from the file.
- *scoped calls*: a tree with a directory inside a directory, a reserved one, and
  targets in and out of the grant; one reload and one revocation fall between any two steps. One link lies in
  the inner directory, so that a listing can meet it after the right to that directory is gone.
- *sessions*: two turns are the one that detaches and the one that continues; two changes are
  a history and its record. A session begins under the wide policy, and the policy is reloaded
  only under a shell: of an attached session ResumesItsOwn speaks, which a reload can only keep from
  starting. The theorems cover both kinds under any policies.
- *workspace*: two clients and two paths are every overlap there is between a parent and
  a child, or a source and a target; three calls delete, restore and meet a writer.
- *catalog*: three files against two per refresh need two refreshes, with a cursor between;
  sizes 1, 2 and 3 with a limit of 2 defer one and exceed with another. Two databases
  are the first, which may be there from the start, and the one a rebuild prepares or that is made after an interruption.
- *tunnel_supervisor*: two children are the last one and the next one; two
  failure lines reach the threshold, and one may be carried over from the old
  child; a budget of one is used up by the first respawn and refuses the second. The lock races need
  two launches, or three where unlinking helps (tunnel_posix_lock).
- *records*: queues of one are full after one event, so that a drop, an
  accepted loss event and a refused one all occur; three numbers and the closing
  one give a rotation something to lose. Two segments of two producers or of one,
  and one removal, put the removal before, at and after the reader.
- *agent_runs*: three calls allow start, start and any third (cancel, close,
  revoke, shutdown, inspect), on two threads that overlap in every way. With two
  slots the slot limit itself is not reached by two runs; what launches and
  failures can break here is that a live process holds a slot.

Named bounds of the models (not of the code): `Jobs`, `MaxSeq`, `MaxDrops`,
`MaxEdits`, `MaxGenerations`, `MaxLines`, `Runs`, `MaxCalls`, `MaxUnread`,
`MaxAsked`, `MaxRefreshes`, `MaxChanges`, `MaxHistoryChanges`, `MaxDatabases`, `MaxWrites`,
`MaxReloads`, `MaxSegments`, `MaxEvictions`, and `Cutoffs` in JobCalls. Symmetry is used
for jobs, workers, changes, callers, readers and clients, only in runs without
liveness. Deadlock is checked in every run of one component; each model that may end
has an explicit step for it (Idle, AllOver) or one that never stops being
possible (Query, Restart). In the three union runs and in record_silent_gap it is not: a finished walk, a
workspace after its last call or a launched command has nothing left to do.

## 5. Fairness

| specification | assumed | why |
|---|---|---|
| JobCalls!CallFairSpec | each worker, the announcement of a submission, shutdown's walk and the calls' own steps keep going; a client with a handle goes on asking or gives up | running threads; a runner returns or raises because operations poll `cancel_event` and have timeouts. No submission, cancellation, new call or shutdown is forced |
| MCCalls!CallsSpec, grants | Expire, and each owed sweep | the reaper thread calls `expire()` every 0.25 s; whoever owes a sweep is a running thread |
| MCCalls!CallsSpec, approvals | the steps of a call, its end, the clock, and that some client looks again | nothing in the server feeds a parser by itself while its process runs: without a client that looks, a request is never decided, and EveryRequestEnds says no more than that |
| MCCalls!CallsSpec, imports | the watching call, and its deadline | a running thread whose every wait has a timeout. Nothing is asked of workers, hosts or the network |
| TunnelSupervisor!FairSpec | the main loop | one thread that always has something to do; every wait in it has a timeout. Nothing is asked of the readers, the child or the owner |
| MCRecords!RecordsSpec | the writer thread | as above; its system calls return, with or without an error |

All are weak, and those of a union run bind only the part they are named after. The other specifications assume nothing.

## 6. The proofs

TLAPS checks these for every value of the constants.

| theorem | says | argument |
|---|---|---|
| JobManagerProofs: TypeCorrect, KeyedOnce, RevocationIsFinal, ExecutedOnce, DoneIsHonest | TypeOK, OneJobPerKey, RevokedStaysHidden, RunsOnce, DoneMeansStopped | one inductive invariant `IInv` |
| JobManagerProofs: NothingIsLost | NoLostJob | `AllAccounted`, under `IInv` |
| JobPromiseProofs: ImplementsPromise | KeepsPromise | each step of the queue, under `IInv`, is one of the promise or a stutter |
| JobPromiseProofs: CallsRunTheQueue, CallsKeepPromise | the calls implement the queue; KeepsPromise under them | each step of a call is one of the queue or leaves it alone |
| JobPromiseProofs: AnswersAreTrue | AnswerWasTrue | `CallsInv` |
| CallsProofs: ComposedGrants | the composition implements Grants | conjunct by conjunct |
| CallsProofs: GrantsAccounted | EndedIsAccounted | `AccountInv`, proved of Grants, carried over by ComposedGrants |
| CallsProofs: SweepIsFinal | SweptIsUnreadable | `SweepInv` |
| CallsProofs: ContainedWorkers | WorkersAreContained | `ContainedInv` |
| CallsProofs: ClientsDecide | DecisionsAreTheClients | `DecisionsInv` |
| CallsProofs: LaunchesKeepAuthority | LaunchKeepsAuthority | `LaunchInv` |
| TunnelSupervisorProofs: LockedOnce, TunnelFollowsLock, OneSupervisor | SingleInstance if `~Posix` | `LockInv`, proved of the lock alone; the supervisor implements the lock |
| TunnelSupervisorProofs: RespawnsArePaid | EveryRespawnIsPaid | `Settled` |
| ExecutionStoreProofs: EveryLossReported | LossIsReported | `LossInv` |
| ExecutionStoreProofs: SyncIsDurable | SyncedIsDurable | `DurableInv` |
| ExecutionStoreProofs: NoHiddenLoss | LossIsCounted | `ManifestInv`, under `LossInv` and `DurableInv` |
| ExecutionStoreProofs: ExportsAreWhole | ExportIsWhole | `ExportInv` |
| FilesProofs: HandlesAreAuthorized | HandlesShowWhatMayBeRead | `HandleInv` |
| FilesProofs: CatalogStaysWhole | StorageIsWhole | `StorageInv` |
| FilesProofs: ToolsKeepWorkspace | KeepsWorkspace | each step, under `FileInv`, is one of the promise or a stutter |
| FilesProofs: CatalogStaysTrue | CatalogIsTrue | `RefreshInv` |
| AccessProofs: OnlyAskedIsAllowed | NothingUnasked | `AskedInv` |
| AccessProofs: AloneIsEffective | EffectiveAlone | `PolicyInv` |
| AccessProofs: RevokedShellsEnd, OwnIsResumed | RevokedShellEnds, ResumesItsOwn | `SessionInv` |
| AccessProofs: ScopesAreKept | CallsKeepTheirScope | `ScopeInv` |
| AgentRunsProofs: OneIsWanted, FinalIsDrained, CompletionIsNoticed, ShutdownStopsAll, FinalStays | OneWantedRun, DrainedAtEnd, CompletionIsSeen, NothingSurvives, FinalIsFinal | one inductive invariant `RunsInv` |

*Assumptions*: only the named ones of the modules: the limits are natural
numbers, the queue and table limits not zero, an absent value is not a member,
`Jobs` and `Grants` finite, a request names a key and a grant or their absence
(JobCalls), approvals, reloads and the owner's editor are different threads
(PolicyReload), nobody is called "free" (AgentSessions), the files present at first are
paths with contents (WorkspaceFiles), a rule has a path and one of the five modes that the
loader of the policy accepts (ScopedCalls). `Posix = FALSE` is a
hypothesis of LockedOnce and OneSupervisor; with `Posix` the property is false
(section 7).

### The arguments

None of the properties is inductive by itself, but EndedIsAccounted. TLC checked each
invariant below on the instances of section 4 before it was proved.

*The queue*: `IInv` adds four parts. Ownership: a
job waits in the queue at most once, or is held by at most one worker, never
both, and it has been started exactly if that worker executes it. Lifecycle: which
state goes with which flags; a value means a started job that succeeded, and a revoked
job that never started is done. TableConsistent: the table holds every unfinished
job, and key map and records agree. WalkConsistent: what shutdown may expect of the record
in its hand although it holds no lock. OneJobPerKey then follows because an unfinished
job is never dropped and its key leaves the map only with it. `AllAccounted` adds where an
unfinished job is: in the queue, in a worker's hand, or before shutdown's walk.

*The calls on the queue*: a waiter and a poller read `state`, `exception`, `error` and
`result` one after the other without the lock, while a revocation, a cancel or
shutdown rewrites the record and a purge drops it. `Steady` is what any step of the queue may do to
such a record: a finished one stays finished and gains no value; it loses a value, and it ends
without one, only if it was asked to stop. With it `CallInv` holds: every truth of
the job since the call began is in `since`, a value still in a record included,
and what the call has read so far agrees with one of them.

*The grants*: "ended = expired + owed + swept, disjoint" is inductive with the
types. SweptIsUnreadable is not: a job submitted after the sweep with the id of a
swept grant is not hidden. What protects it is that its runner can resolve
nothing. `SweepInv` says so: if a runner has
resolved a path under a grant that is now swept, the sweep found its job and hid
it, or the job is already over without a value.

*Imports*: a worker exists only while its call is in its loop, the calls past the
semaphore and the free slots add up to `MaxSlots`, and the host of a hop in progress was
checked by that hop.

*Approvals*: a request is unseen, or pending, or has one reply on its way, or was
told once, or was dropped; `seen` keeps it from starting over. The reply of a client whose call
has not returned is still on its way or was delivered as chosen, which is what "submitted" claims.

*Launches*: a session's defaults are normal and within its profile; merging a
normal override into them stays as open as each of them, and the policy is asked
again, of the merged options, by the call that builds the command.

*The lock*: the invariant is that every open lock file is the one the path leads
to; it needs that a file which somebody has open is never unlinked, and so it fails
exactly on POSIX.

*The restart budget*: the generation is at most one more than the payments, and no more
than they while the loop is on its way to a spawn.

*The store*: `LossInv` adds that `hand` is not zero only between the two critical
sections. `DurableInv` is the argument for one watermark over two queues: both
queues are sorted, everything in them and in the writer's hand is younger than
`written`, every number is on disk, refused, failed, queued or in hand, and what
is loose lies in an open file. Then everything up to `written` has been through
the writer, and a sync that reaches the open files reaches all that is loose.
`ManifestInv`: nobody is accepted any more when the writer leaves its loop drained; so what
is missing then is what was counted, and stays so after the manifest says closed.

*Exports*: the place of the viewer cuts the lines in two. What is before it and was
there when the snapshot was taken is exported, unless it was removed too late to be told
(`missed`); what is exported is before it. While `retention.json` has not changed, what is gone of
the snapshot is in `removed`, and a page that finds another generation says so. One step
needs more than the order of places: at a tail the viewer judges a line that its writer may complete
before the verdict, and it leaves the file only because no line of the snapshot is past the tail.
That the viewer goes to the *least* producer and segment left is proved once, from the
well-foundedness of the numbers (LeastNumber). The exception is real: without it the claim is false
(record_silent_gap, section 7). What is proved is that nothing *else* is ever missing: in particular a resumed
page never builds on one that an eviction has made partial.

*Handles*: a reader that is past its check of the policy either has a right that was
confirmed after it read, or will be told by the next check; a version does not
change once an entry is in the table.

*The catalog's files*: `LocksAgree` ties the mutex, the depth and the file lock to
the step of the one thread that works. `FilesAgree` ties what that thread has moved to what
is missing from the group, the database first: so a stop at any point, or a restoration in
reverse order, leaves no log beside another database. A log stays behind without its database only while
the thread that moves the group is at it, or if the database is `torn`; so a set-aside that was neither
stopped nor failed in its restoration has every file of the group.

*The workspace*: a tool reads, then checks, then writes, and what it found must still be so when
it writes. `FileInv` says that the folders two threads have reserved never overlap, and that a thread
holds the folders of its paths from its first look to its last write; so what it found (`Found`) no
other thread can disturb (ApartIsFar). A trash tool has reserved the root and is alone (RootIsAlone).
An item's durable intent is there before its payload and after it (`DiskOK`), which leaves
a stop of the server nothing to lose.

*The catalog's rows*: a cycle that several refreshes continue carries one generation. `RefreshInv` has,
for each file that nothing changed since the cycle began, that it was reached if it exists and the
walk is past it, and that a row with the cycle's generation shows the file as it is. `CycleOK` is what
the last refresh leaves of that: up to its cursor. So a walk that ends with nothing left
has reached them all, and the rows with another generation are not of such files.
The walk goes to the least file left, which again is there by well-foundedness (LeastExists).

*The policy*: every copy and every draft allows only what was asked for, where a claimed
change counts as asked for from its merge on, since it can no longer be refused. For
EffectiveAlone `PolicyInv` adds what an approval that nobody overlapped finds in the file and
in memory, step by step.

*Sessions*: a start that is under way has the session's lock; past its check of the
shell the policy still permits it, unless a reload is yet to sweep, and the
sweep needs that lock. A session that is attached has its own conversation, or the
one of a listed run that is about to detach it.

*Calls outside the workspace*: that the rule consulted is the longest that matches, and that
this is the one no matching rule extends, needs that of two prefixes of a path one is a prefix
of the other (PrefixesNest, RuleForGoverns). Then what the context permits, an authority
gives at that moment (PermittedIsEntitled), and `ScopeInv` keeps for every entry
already scanned or checked a moment at which the call was entitled to it, and to where it will be. For
what is yet to be checked it keeps such a moment of the *directory*: the children of an entry are
queued only when that entry has been shown or passed over, so it was permitted once. This is what a link,
which nobody is asked about, is named by, and why nothing appears below a directory that was
never allowed.

*Runs*: three things decide who may change a run: the session's lock (start, sweep),
the run's lock (the refresh that decides its state) and the steps that only the watcher takes.
`RunsInv` has the records in the order they end (`RecordOK`), a watcher's
place beside its process (`WatcherOK`), what a refresh under the run's lock has seen (`DrainOK`), what
a start knows before it launches (`StartOK`: every listed run is dead or told to end), and what is
left on shutdown's list (`ListOK`). Lemma Frame reduces each step to the one thread and the one run it
moves: of all others it shows only that the step is `Steady`, which is what the locks and the
one-way flags guarantee.

### What is only model-checked

- Liveness (EveryCallIsAnswered, LapsedIsSwept,
  EveryRequestEnds, EveryDownloadEnds, SignalIsAnswered, StopIsObeyed,
  StoppingEnds): the prover has no fairness or ENABLED.

Every other property of a passing run is a theorem.

TypeOK of JobManager is proved and used by the other proofs. The type
invariants of the other modules document their variables and are not checked by a run; the proofs
state the types they need as the first part of their invariants.
Nothing here depends on a recursive definition, whose values the
prover could not establish by induction.

## 7. Disagreements between the code and its documents

Each is a run that ends in a counterexample.

1. **job_fabricated_stop** (jobs.py:313). Shutdown tests `state == "queued"` and
   writes the record without the lock. A worker that takes the lock in between is
   then executing a job that is reported expired and done; manual/jobs-and-processes.md
   says that the service never fabricates "stopped". NoLostJob,
   EveryCallIsAnswered and KeepsPromise hold nevertheless, so the harm is confined to what is reported
   during shutdown.
2. **policy_lost_rule** (service.py:1492). An approval merges its rule into the policy
   *in memory* and saves that. A rule saved to the file since by the owner's
   editor, or by another approval, disappears, a deny rule included.
3. **tunnel_posix_lock** (tunnel_supervisor.py:290). The lock file is unlinked
   after it was unlocked and closed. On POSIX another launch may have locked that very
   file; a third then creates and locks a new one. Windows, which refuses to
   delete an open file, is proved safe.
4. **agent_second_run** (service.py:5269). Cancel marks the run before its process
   is gone and outside every lock. A start that refreshes the run in between finds no
   active one and launches a second. What the code does keep is OneWantedRun: at most one of
   them has not been told to end.
5. **record_silent_gap** (execution_query.py:238). A page reads the generation of the
   retention once, before it lists the producers' directories; the retention unlinks segments first and
   writes the new generation afterwards (execution_store.py:274, 285). A segment that goes after the
   last page's look, or whose removal is not told yet, is missing from an export that notes no gap,
   although execution_query.py:352-353 says that the export never silently exports a partial
   operation as complete. In the trace one page suffices. What the code does keep is ExportIsWhole, of the
   `records` run and proved: every *earlier* removal is noticed.

## 8. What is not covered

*Not modelled*: the execution observers, search, registration and start-up, the
owner's menus (section 1 says why); of the modelled components: Git, reading and
encodings, programs that change workspace files beside the tools; command presets,
arguments and environments (pure validation of text); proxies; the agents' output
beyond what it decides; catalog search and the settings of sources; the retention
budget between producers; image decoding.

Limits of properties, where the model or the statement stops short of the code:

- AgentLaunch!StartRun examines the policy and launches in one step; a reload that falls between the last check
  of service.py:4661 and the start of the process is not seen by LaunchKeepsAuthority. AgentSessions has that
  gap for the shell: its chain of checks is one step each, and RevokedShellEnds says what closes it.
- RevokedShellEnds is about sessions whose shell a policy rule permits. A session in the workspace
  (`policy_root` None, service.py:4290 and service.py:4317) is asked for no rule and swept by no reload.
- EffectiveAlone speaks of approvals that no other thread overlaps. An overlapped one may be reported effective
  and be replaced by an older reading (service.py:1298), although service.py:1446 tells the approver that
  the directories take effect immediately. The model has these steps; no property claims that they do not
  happen. (policy_lost_rule shows the other half of that sentence, the write, to fail.)
- StorageIsWhole lets the *log* of a torn database be lost: after a process ends between the moves of a corrupt
  database and of its log, the next connection discards that log. catalog_storage.py:122 says that a
  corrupt database can still be moved intact for recovery; that holds of a move that is finished or rolled
  back, and nothing in the code extends it over the end of a process.
- list_dir names links and junctions without asking the policy or the grant (service.py:1883), whereas
  manual/permissions.md:154 says that listings leave out what cannot be accessed
  (“搜索、列目录和 glob 省略不可访问节点”). A link named so shows its path and time, never what it
  leads to. CallsKeepTheirScope says exactly what is kept: its directory was allowed.

Exposures seen while modelling, where the model stops or where no document promises anything that
the code could break:

- jobs.py:205: `submit_and_wait` holds the record itself, so a record dropped
  before a revocation is out of the sweep's reach: its waiter may still get the
  value, which was true of the job (AnswerWasTrue allows it).
- service.py:990: a job that is cancelled while it is queued answers its waiter like an operation
  that returned nothing; AnswerWasTrue says that this happens to cancelled jobs only.
- catalog_storage.py:156: a rebuild that stops between the moves is not rolled
  back by the next start. The next user makes a database or goes on with what
  is there; the rows are lost with the move, the backups are not.
- service.py:4872: the refresh of a fork that ended or was cancelled may come late
  and set the session's id back to its own; ResumesItsOwn allows an id that a turn of the
  session reported.
- agent_approvals.py:127: a decision that reaches the agent's input may still come after
  the agent withdrew the request; what the agent then does is its own.
- service.py:1480: the deny check and the merge read the policy twice; a deny rule
  installed between them is replaced.
- tunnel_supervisor.py:504: a late line of the old child can cause one spurious
  recovery of the new one; the model has the step.
- tunnel_supervisor.py:783: a launch deletes the stop file before it asks for
  the lock, and so swallows the stop request of the running supervisor; the
  model has the step, the owner's menu falls back to `taskkill`, and StopIsObeyed counts
  from the moment the request is noticed.
- execution_store.py:295: a rotation can leave a closed handle that fails every
  later write of its channel; the model has it and the properties hold with it.
- execution_store.py:397: the *range* of lost numbers can shrink when a loss event is
  refused; only the counts are modelled.
- execution_store.py:252: the last segment of an idle producer is never evicted;
  RecordQuery has which segments may go, not when the budget asks for it.
- service.py:5261, service.py:4973, service.py:5352: a cancel or a shutdown that overlaps the end of a
  run decides its recorded state; the model has the steps.
- service.py:4777: a run whose first message cannot be delivered stays listed
  until the next start of the session; the model has it.
- service.py:4652: runs and sessions count against limits and are never removed.

Abstractions that hold everywhere: time is an order or a period that may have passed; text,
paths and payloads are model values or left out; observers' callbacks inside a critical
section are part of its action and have no effect on the state modelled.
