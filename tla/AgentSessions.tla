---------------------------- MODULE AgentSessions ----------------------------
(***************************************************************************)
(* What one agent session may be used for (service.py, agent_catalog.py):  *)
(* a session is new or attached to a conversation of the catalog, and      *)
(* every turn it starts has to find its directory, its shell, its options  *)
(* and, when it is attached, its conversation still allowed.  Meanwhile    *)
(* the access policy is reloaded, the catalog refreshed, the histories     *)
(* change on disk, the agents say which conversation they are in, and any  *)
(* call brings a turn up to date.                                          *)
(*                                                                         *)
(* How a turn's process is started, drained and stopped is in AgentRuns.   *)
(* Definitions marked "fault" are mutants and no part of the system.       *)
(***************************************************************************)
EXTENDS Naturals, FiniteSets

CONSTANTS
  Kinds,       \* what sessions there are: [provider, needs, shell, attached]
  Starters,    \* threads that start turns
  Reloads,     \* reloads of the access policy
  Turns,       \* runs of the session
  Conversations, Own,   \* native ids; Own is the id the catalog's record has
  NoId,        \* no native id
  SessionPolicies,   \* what a policy says: of the session's directory, [may, root,
               \* asks], and of those its options name, [adds]
  MaxHistoryChanges   \* bound: histories changed and catalogs refreshed

ASSUME SessionAssumption ==
  /\ Own \in Conversations /\ NoId \notin Conversations
  /\ \A k \in Kinds : k.attached \in BOOLEAN
  /\ \A k \in Kinds : k.shell => k.provider = "claude-code" /\ k.needs = "write"
  /\ \A k \in Kinds : k.attached => k.provider # "pi"
  /\ "free" \notin Starters
  /\ MaxHistoryChanges \in Nat

VARIABLES
  rules,    \* self.access_policy
  history,  \* the native file: as when it was recorded, of a conversation
            \* somewhere else, of another conversation (or none at all)
  row,      \* the catalog's record under the session's conversation_ref
  conv,     \* the AgentSessionState
  turn,     \* per run: the AgentRunState, its parser and its process
  start,    \* per starter: where agent_run_start is
  reload,   \* per reload: where reload_access_policy is
  changed   \* changes so far

sessionVars == <<rules, history, row, conv, turn, start, reload, changed>>

Actions == {"continue", "fork", "review"}
(* binds: what the run does to the session's native id, an ephemeral one   *)
(* nothing; unref: it is about to detach the session.                      *)
NoTurn == [in |-> FALSE, binds |-> "nothing", says |-> NoId, os |-> "none", active |-> FALSE,
           override |-> "none", final |-> FALSE, unref |-> FALSE]
NoStart == [at |-> "idle", action |-> "continue", found |-> "no"]

(* A new session, or one attached to the conversation of the record.       *)
SessionInit ==
  /\ rules \in SessionPolicies
  /\ history = "same" /\ row = "same"
  /\ \E k \in Kinds :
       /\ ({k.needs} \cup IF k.shell THEN {"exec"} ELSE {}) \subseteq rules.may /\ ~rules.asks
       /\ conv = [kind |-> k, root |-> rules.root,
                  native |-> IF k.attached THEN Own ELSE NoId, ref |-> k.attached,
                  closed |-> FALSE, lock |-> "free"]
  /\ turn = [r \in Turns |-> NoTurn]
  /\ start = [t \in Starters |-> NoStart]
  /\ reload = [l \in Reloads |-> "idle"]
  /\ changed = 0
-----------------------------------------------------------------------------
(* What the policy says now. *)

(* access_policy.authorize(): an enabled rule permits it without asking.   *)
Allows(op) == op \in rules.may /\ ~rules.asks

(* _agent_working_directory(): by the rule the session was opened under.   *)
DirectoryHolds == Allows(conv.kind.needs) /\ rules.root = conv.root

(* _authorize_claude_command_session().                                    *)
ShellHolds == conv.kind.shell => DirectoryHolds /\ Allows("exec")
-----------------------------------------------------------------------------
(* agent_run_start(), under the session's lock: each check reads what it   *)
(* needs at its own time, and any of them raises.                          *)

Moves(t, at) == start' = [start EXCEPT ![t].at = at]
Raises(t) == /\ start' = [start EXCEPT ![t] = NoStart]
             /\ conv' = [conv EXCEPT !.lock = "free"]

Passes(t, holds, next) ==
  IF holds THEN Moves(t, next) /\ UNCHANGED conv ELSE Raises(t)

Listed == {r \in Turns : turn[r].in}

BeginTurn(t) ==
  /\ start[t].at = "idle" /\ conv.lock = "free" /\ ~conv.closed
  /\ conv' = [conv EXCEPT !.lock = t]
  /\ conv.kind.provider = "pi" => Listed = {}
  /\ \E action \in Actions :
       /\ conv.kind.provider # "codex" => action = "continue"
       /\ start' = [start EXCEPT ![t] = [NoStart EXCEPT !.at = "active", !.action = action]]
  /\ UNCHANGED <<rules, history, row, turn, reload, changed>>

(* The active runs have been brought up to date (Refresh below).           *)
OneAtATime(t) ==
  /\ start[t].at = "active"
  /\ Passes(t, \A r \in Listed : ~turn[r].active, IF conv.ref THEN "record" ELSE "directory")
  /\ UNCHANGED <<rules, history, row, turn, reload, changed>>

SkipRecord(t) ==   \* fault: an attached session is trusted once attached
  /\ start[t].at = "record" /\ Moves(t, "directory")
  /\ UNCHANGED <<rules, history, row, conv, turn, reload, changed>>

(* authorize_attachment(): the record is there, its file is, and says the  *)
(* same id and directory; _reauthorize_attached_session(): it is still the *)
(* conversation of this session.                                           *)
Reauthorize(t) ==
  /\ start[t].at = "record"
  /\ IF row # "other" /\ history = row /\ conv.native = Own /\ conv.ref
       THEN /\ start' = [start EXCEPT ![t].at = "binding", ![t].found = row]
            /\ UNCHANGED conv
       ELSE Raises(t)
  /\ UNCHANGED <<rules, history, row, turn, reload, changed>>

(* The directory of the record leads to the same place by the same rule.   *)
SamePlace(t) ==
  /\ start[t].at = "binding"
  /\ Passes(t, start[t].found = "same" /\ DirectoryHolds, "directory")
  /\ UNCHANGED <<rules, history, row, turn, reload, changed>>

CheckDirectory(t) ==
  /\ start[t].at = "directory" /\ Passes(t, DirectoryHolds, "shell")
  /\ UNCHANGED <<rules, history, row, turn, reload, changed>>

CheckShell(t) ==
  /\ start[t].at = "shell" /\ Passes(t, ShellHolds, "options")
  /\ UNCHANGED <<rules, history, row, turn, reload, changed>>

(* _prepare_codex_options(): without a path among the options, or with a   *)
(* directory that is added for writing.                                    *)
CheckOptions(t) ==
  /\ start[t].at = "options"
  /\ \/ Passes(t, TRUE, "launch")
     \/ conv.kind.provider = "codex" /\ Passes(t, rules.adds, "launch")
  /\ UNCHANGED <<rules, history, row, turn, reload, changed>>

(* build_command(): a fork needs an id, a review takes none, and a run     *)
(* that resumes may not be ephemeral.  The process starts, and its run is  *)
(* listed before the lock is given back.                                   *)
ResumedBy(t) == IF start[t].action = "review" THEN NoId ELSE conv.native
Binds(action) == IF action = "continue" THEN "follows" ELSE "takes"

LaunchTurn(t) ==
  /\ start[t].at = "launch"
  /\ \/ /\ start[t].action = "fork" => ResumedBy(t) # NoId
        /\ \E r \in Turns, ephemeral \in BOOLEAN :
             /\ ~turn[r].in
             /\ ephemeral => /\ conv.kind.provider = "codex"
                             /\ start[t].action = "continue" => ResumedBy(t) = NoId
             /\ turn' = [turn EXCEPT ![r] =
                  [NoTurn EXCEPT !.in = TRUE, !.os = "live", !.active = TRUE,
                                 !.binds = IF ephemeral THEN "nothing" ELSE Binds(start[t].action)]]
     \/ UNCHANGED turn   \* it cannot be started
  /\ Raises(t)
  /\ UNCHANGED <<rules, history, row, reload, changed>>

StartTurn(t) == \/ BeginTurn(t) \/ OneAtATime(t) \/ Reauthorize(t) \/ SamePlace(t) \/ CheckDirectory(t)
                \/ CheckShell(t) \/ CheckOptions(t) \/ LaunchTurn(t)
-----------------------------------------------------------------------------
(* _refresh_agent_run(), under the run's lock and not the session's. *)

InHand(r) == turn[r].in /\ ~turn[r].final /\ ~turn[r].unref
Names(r, how) == turn[r].says # NoId /\ turn[r].binds = how

(* The run's state is what it was told to become, or its process's; the    *)
(* last refresh is the one that finds the process finished.  Nothing reads *)
(* the parser of a run after that.                                         *)
Settled(rec) ==
  IF rec.os = "live" THEN [rec EXCEPT !.active = rec.override = "none"]
  ELSE [NoTurn EXCEPT !.in = TRUE, !.os = "over", !.final = TRUE]

(* A run that continues may name the session's conversation, not change    *)
(* that of an attached one: it is told to fail, and stopped.               *)
Bind(r) ==
  /\ InHand(r) /\ Names(r, "follows")
  /\ IF conv.ref /\ conv.native # turn[r].says
       THEN /\ turn' = [turn EXCEPT ![r] = Settled([@ EXCEPT !.override = "failed"])]
            /\ UNCHANGED conv
       ELSE /\ conv' = [conv EXCEPT !.native = turn[r].says]
            /\ turn' = [turn EXCEPT ![r] = Settled(@)]
  /\ UNCHANGED <<rules, history, row, start, reload, changed>>

(* A fork or a review takes the session with it: first the id, and then    *)
(* the session is no longer an attached one.                               *)
Rebind(r) ==
  /\ InHand(r) /\ Names(r, "takes")
  /\ conv' = [conv EXCEPT !.native = turn[r].says]
  /\ turn' = [turn EXCEPT ![r].unref = TRUE]
  /\ UNCHANGED <<rules, history, row, start, reload, changed>>

Detach(r) ==
  /\ turn[r].unref
  /\ conv' = [conv EXCEPT !.ref = FALSE]
  /\ turn' = [turn EXCEPT ![r] = Settled([@ EXCEPT !.unref = FALSE])]
  /\ UNCHANGED <<rules, history, row, start, reload, changed>>

(* Nothing said of the conversation, or nothing that is kept.              *)
Observe(r) ==
  /\ InHand(r) /\ ~Names(r, "follows") /\ ~Names(r, "takes")
  /\ turn' = [turn EXCEPT ![r] = Settled(@)]
  /\ UNCHANGED <<rules, history, row, conv, start, reload, changed>>

RefreshTurn(r) == Bind(r) \/ Rebind(r) \/ Detach(r) \/ Observe(r)

(* agent_run_cancel(), of a run that is active.                            *)
CancelTurn(r) ==
  /\ turn[r].in /\ turn[r].active
  /\ turn' = [turn EXCEPT ![r].override = "cancelled"]
  /\ UNCHANGED <<rules, history, row, conv, start, reload, changed>>

(* agent_session_close().                                                  *)
CloseSession ==
  /\ conv.lock = "free" /\ ~conv.closed
  /\ conv' = [conv EXCEPT !.closed = TRUE]
  /\ turn' = [r \in Turns |-> IF turn[r].active THEN [turn[r] EXCEPT !.override = "cancelled"] ELSE turn[r]]
  /\ UNCHANGED <<rules, history, row, start, reload, changed>>
-----------------------------------------------------------------------------
(* reload_access_policy() and _stop_revoked_claude_command_runs(). *)

InstallRules(l) ==
  /\ reload[l] = "idle" /\ rules' \in SessionPolicies
  /\ reload' = [reload EXCEPT ![l] = IF conv.kind.shell THEN "sweep" ELSE "done"]
  /\ UNCHANGED <<history, row, conv, turn, start, changed>>

SweepUnlocked(l) ==   \* fault: without the session's lock
  /\ reload[l] = "sweep" /\ reload' = [reload EXCEPT ![l] = "done"]
  /\ turn' = [r \in Turns |-> IF turn[r].in /\ turn[r].active /\ ~ShellHolds
                                THEN [turn[r] EXCEPT !.override = "cancelled", !.active = FALSE] ELSE turn[r]]
  /\ UNCHANGED <<rules, history, row, conv, start, changed>>

(* With the session's lock, and each run's: no run is between its checks   *)
(* and its listing.                                                        *)
SweepShells(l) ==
  /\ reload[l] = "sweep" /\ conv.lock = "free"
  /\ \A r \in Turns : ~turn[r].unref
  /\ reload' = [reload EXCEPT ![l] = "done"]
  /\ turn' = [r \in Turns |-> IF turn[r].in /\ turn[r].active /\ ~ShellHolds
                                THEN [turn[r] EXCEPT !.override = "cancelled", !.active = FALSE] ELSE turn[r]]
  /\ UNCHANGED <<rules, history, row, conv, start, changed>>
-----------------------------------------------------------------------------
(* The agents and the catalog. *)

(* The agent names a conversation: one it was given, a new one, any.  What *)
(* an ephemeral run says is not kept, and left out.                        *)
AgentSays(r) ==
  /\ turn[r].os = "live" /\ turn[r].says = NoId /\ turn[r].binds # "nothing"
  /\ \E id \in Conversations : turn' = [turn EXCEPT ![r].says = id]
  /\ UNCHANGED <<rules, history, row, conv, start, reload, changed>>

AgentEnds(r) ==
  /\ turn[r].os = "live" /\ turn' = [turn EXCEPT ![r].os = "over"]
  /\ UNCHANGED <<rules, history, row, conv, start, reload, changed>>

(* A provider rewrites, moves or removes the history.                      *)
HistoryChanges ==
  /\ changed < MaxHistoryChanges /\ changed' = changed + 1 /\ conv.ref
  /\ history' \in {"same", "elsewhere", "other"} \ {history}
  /\ UNCHANGED <<rules, row, conv, turn, start, reload>>

(* agent_catalog_refresh(): the conversation_ref is derived from the id,   *)
(* so a history with another id is a record of another name.               *)
CatalogRefreshes ==
  /\ changed < MaxHistoryChanges /\ changed' = changed + 1 /\ conv.ref
  /\ row # history /\ row' = history
  /\ UNCHANGED <<rules, history, conv, turn, start, reload>>
-----------------------------------------------------------------------------
SessionNext ==
  \/ \E t \in Starters : StartTurn(t)
  \/ \E r \in Turns : RefreshTurn(r) \/ CancelTurn(r) \/ AgentSays(r) \/ AgentEnds(r)
  \/ \E l \in Reloads : InstallRules(l) \/ SweepShells(l)
  \/ CloseSession \/ HistoryChanges \/ CatalogRefreshes

SessionSpec == SessionInit /\ [][SessionNext]_sessionVars
-----------------------------------------------------------------------------
(* Properties. *)

Launched == \E r \in Turns : ~turn[r].in /\ turn'[r].in
Resuming == {t \in Starters : start[t].at = "launch" /\ start[t].action # "review"}

(* agent_catalog.py: identity and metadata "must still match the indexed   *)
(* record on every run".  What an attached session launches was found      *)
(* again by this very start, and it takes up the conversation of its       *)
(* record or one that a fork or review of this session has reported since  *)
(* (the refresh of a fork that was cancelled may come late).  A run that   *)
(* continues never changes it.                                             *)
ResumesItsOwn ==
  [][Launched /\ conv.ref => \A t \in Resuming :
       /\ start[t].found = "same"
       /\ \/ ResumedBy(t) = Own
          \/ \E r \in Turns : turn[r].unref /\ turn[r].says = ResumedBy(t)]_sessionVars

(* Once the reloads have returned, a trusted shell that nobody told to end *)
(* runs where the policy permits it, by the rule it was opened under       *)
(* ("Claude command permission revoked"): a start that was past its checks *)
(* when the policy changed is not missed.                                  *)
RevokedShellEnds ==
  (\A l \in Reloads : reload[l] # "sweep") /\ conv.kind.shell =>
    \A r \in Turns : turn[r].in /\ turn[r].os = "live" /\ turn[r].override = "none" =>
      ShellHolds
=============================================================================
