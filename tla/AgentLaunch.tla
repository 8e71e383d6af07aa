----------------------------- MODULE AgentLaunch -----------------------------
(***************************************************************************)
(* From an agent session and a run's options to the command that starts    *)
(* the agent (agent_adapters.py, pi_adapter.py, agent_approvals.py and     *)
(* service.py): the session's defaults and the run's overrides are merged, *)
(* their paths asked of the policy as it is now, and one of four           *)
(* transports either refuses them or turns them into a command.            *)
(*                                                                         *)
(* An option has one of a few values that the checks tell apart; the       *)
(* switches and texts that no check looks at are "model".  The two         *)
(* dangerously_* switches are "bypass", the two ignore_* ones "ignore".    *)
(* Definitions marked "fault" are mutants and no part of the system.       *)
(***************************************************************************)
EXTENDS Naturals, Sequences, Functions

CONSTANTS
  AllowExec,     \* whether the server may run commands on the host
  Rules          \* what the policy may say of the directory outside the workspace

VARIABLES
  rule,          \* what it says now
  session,       \* the session
  started,       \* whether it has had a run
  launch         \* the command of its run

launchVars == <<rule, session, started, launch>>

(* AccessRule: its mode, whether it allows commands and whether each use   *)
(* has to be approved.                                                     *)
Permits(r, op) ==
  /\ ~r.ask
  /\ CASE op = "read" -> r.mode \in {"read", "write"}
       [] op = "write" -> r.mode = "write"
       [] op = "exec" -> r.exec

Reaches(place, op) == place = "workspace" \/ Permits(rule, op)

Switches == {"approve_for_me", "manual_approval", "bypass", "ignore", "ephemeral"}
Readable == {"images", "output_schema"}
Writable == {"add_dirs", "output_last_message"}

\* Keys of config entries, by their segments.
Segments ==
  [tui |-> <<"tui">>, sandbox |-> <<"sandbox_mode">>, table |-> <<"features">>,
   web |-> <<"features", "web">>, hooks |-> <<"features", "hooks">>, token |-> <<"provider", "token">>]
ProtectedRoots == {"approval_policy", "approvals_reviewer", "permissions", "hooks", "sandbox_mode"}
ProtectedFeatures == {"hooks", "guardian_approval"}
SecretSegments == {"token", "password"}

\* Every option, with its values; "review" is how many targets are named.
Options ==
  Switches \cup Readable \cup Writable
    \cup {"enable", "disable", "ask_for_approval", "config", "review", "model"}
ValuesOf ==
  [k \in Options |->
     CASE k \in Switches -> {"on", "off"}
       [] k \in Readable \cup Writable -> {"workspace", "outside"}
       [] k \in {"enable", "disable"} -> {"web", "hooks"}
       [] k = "ask_for_approval" -> {"on-request", "never"}
       [] k = "config" -> DOMAIN Segments
       [] k = "review" -> {"one", "two"}
       [] k = "model" -> {"m"}]

\* The options of a session or of a run: none, or one of them.  Whatever two
\* options meet, one may be the session's and the other the run's.
NoOptions == <<>>
Some(extra) == {NoOptions} \cup UNION {[{k} -> ValuesOf[k] \cup extra] : k \in Options}
Null == "null"

Has(o, k) == k \in DOMAIN o
Is(o, k, v) == Has(o, k) /\ o[k] = v
On(o, k) == Is(o, k, "on")

(* _validate_codex_config_key: not what the server decides, not a table    *)
(* that could hold it, and nothing secret.                                 *)
KeyIsOpen(key) ==
  LET segments == Segments[key] IN
  /\ segments[1] \notin ProtectedRoots
  /\ segments[1] = "features" => Len(segments) > 1 /\ segments[2] \notin ProtectedFeatures
  /\ Range(segments) \cap SecretSegments = {}

Normal(o) ==
  /\ ~On(o, "ignore")
  /\ Has(o, "config") /\ o.config # Null => KeyIsOpen(o.config)
  /\ \A k \in DOMAIN o \cap {"enable", "disable"} : o[k] \notin ProtectedFeatures

Merged(defaults, o) ==
  LET dropped == {k \in DOMAIN o : o[k] = Null}
  IN [k \in (DOMAIN defaults \cup DOMAIN o) \ dropped |-> IF Has(o, k) THEN o[k] ELSE defaults[k]]

PathsHold(o) ==
  \A k \in DOMAIN o :
    /\ k \in Readable => Reaches(o[k], "read")
    /\ k \in Writable => Reaches(o[k], "write")

NoAgent == [provider |-> "none", sandbox |-> "read-only", shell |-> FALSE, cwd |-> "workspace",
            bound |-> FALSE, defaults |-> NoOptions]
NoLaunch == [transport |-> "none"]

\* fault: the paths were asked for when the session was made.
PreparedOnce(o) == session # NoAgent \/ PathsHold(o)
Prepared(o) == PathsHold(o)

(* _authorize_claude_command_session: the host's shell is for sessions     *)
(* that may write, where the policy still allows commands.                 *)
ShellAuthorized(a) ==
  a.shell => /\ a.provider = "claude" /\ a.sandbox = "workspace-write"
             /\ AllowExec /\ Reaches(a.cwd, "exec")

DirectoryAuthorized(a) ==
  Reaches(a.cwd, IF a.sandbox = "read-only" THEN "read" ELSE "write")

\* AgentProfile: Pi's are read-only, a shell is for Claude Code.
ProfileAllows(a) ==
  /\ a.provider = "pi" => a.sandbox = "read-only"
  /\ a.shell => a.provider = "claude"

LaunchInit ==
  rule \in Rules /\ session = NoAgent /\ started = FALSE /\ launch = NoLaunch

(* agent_session_create and agent_session_attach (bound), which Pi lacks.  *)
CreateSession(a) ==
  /\ session = NoAgent
  /\ ProfileAllows(a) /\ ~(a.provider = "pi" /\ a.bound)
  /\ DirectoryAuthorized(a)
  /\ Normal(a.defaults) /\ ~Has(a.defaults, "review")
  /\ a.provider # "codex" => a.defaults = NoOptions
  /\ Prepared(a.defaults) /\ ShellAuthorized(a)
  /\ session' = a /\ UNCHANGED <<rule, started, launch>>

\* The policy is reloaded.  While a run goes on it makes no difference to it.
ChangeRule(r) ==
  /\ session # NoAgent /\ launch = NoLaunch /\ r # rule
  /\ rule' = r /\ UNCHANGED <<session, started, launch>>

\* A run ends, and by then has reported its conversation or not.
EndRun ==
  /\ launch # NoLaunch /\ launch' = NoLaunch
  /\ \/ UNCHANGED session
     \/ session.provider # "pi" /\ session' = [session EXCEPT !.bound = TRUE]
  /\ UNCHANGED <<rule, started>>

-----------------------------------------------------------------------------
(* The transports.                                                         *)

Mode(action) ==
  IF action # "continue" THEN action ELSE IF session.bound THEN "resume" ELSE "new"

\* require_capability: what a provider's adapter can do.
Capable(mode) ==
  mode \in CASE session.provider = "codex" -> {"new", "resume", "fork", "review"}
              [] session.provider = "claude" -> {"new", "resume"}
              [] session.provider = "pi" -> {"new"}

\* CodexAdapter.build_command, its refusals
ExecAccepts(o, action) ==
  /\ Has(o, "review") => action = "review" /\ o.review = "one"
  /\ action = "fork" => session.bound
  /\ ~On(o, "bypass")
  /\ On(o, "approve_for_me") => session.sandbox = "workspace-write"
  /\ ~(On(o, "approve_for_me") /\ Is(o, "ask_for_approval", "never"))
  /\ ~(On(o, "ephemeral") /\ session.bound /\ action = "continue")
  /\ Has(o, "enable") /\ Has(o, "disable") => o.enable # o.disable

\* ... and the command: -s, --approve-for-me, -c, --add-dir, -i and the mode.
ExecCommand(o, action) ==
  [transport |-> "exec", mode |-> Mode(action), shell |-> FALSE,
   sandbox |-> IF On(o, "approve_for_me") THEN "none" ELSE session.sandbox,
   review |-> IF On(o, "approve_for_me") THEN "auto" ELSE "user",
   approval |-> IF Has(o, "ask_for_approval") THEN o.ask_for_approval ELSE "native",
   config |-> {o[k] : k \in DOMAIN o \cap {"config"}},
   features |-> {o[k] : k \in DOMAIN o \cap {"enable", "disable"}},
   places |-> {<<k, o[k]>> : k \in DOMAIN o \cap (Readable \cup Writable)}]

\* ManualApprovalParser: what it cannot carry out it refuses.
ManualAccepts(o, action) ==
  /\ action = "continue"
  /\ DOMAIN o \subseteq {"manual_approval", "ask_for_approval", "approve_for_me", "model"}
  /\ ~On(o, "approve_for_me")
  /\ ~Is(o, "ask_for_approval", "never")

ManualCommand ==
  [transport |-> "app-server", mode |-> Mode("continue"), shell |-> FALSE, sandbox |-> session.sandbox,
   review |-> "user", approval |-> "on-request", config |-> {}, features |-> {}, places |-> {}]

\* The tools of Claude Code's two sandboxes, with a shell or without.
ClaudeCommand ==
  [transport |-> "claude", mode |-> Mode("continue"), shell |-> session.shell,
   sandbox |-> session.sandbox, review |-> "user", approval |-> "native",
   config |-> {}, features |-> {}, places |-> {}]

\* No tools, and no conversation to continue.
PiCommand ==
  [transport |-> "pi", mode |-> "new", shell |-> FALSE, sandbox |-> "read-only",
   review |-> "user", approval |-> "native", config |-> {}, features |-> {}, places |-> {}]

LaunchWith(o, action) ==
  /\ IF session.provider # "codex" THEN
       /\ o = NoOptions /\ Capable(Mode(action))
       /\ session.provider = "pi" => ~started
       /\ launch' = IF session.provider = "pi" THEN PiCommand ELSE ClaudeCommand
     ELSE IF On(o, "manual_approval") THEN ManualAccepts(o, action) /\ launch' = ManualCommand
     ELSE ExecAccepts(o, action) /\ launch' = ExecCommand(o, action)
  /\ started' = TRUE /\ UNCHANGED <<rule, session>>

\* agent_run(start), one run at a time: everything is asked anew, with the
\* policy of now.
StartRun(o, action) ==
  /\ session # NoAgent /\ launch = NoLaunch
  /\ DirectoryAuthorized(session) /\ ShellAuthorized(session)
  /\ Normal(o) /\ Prepared(Merged(session.defaults, o))
  /\ LaunchWith(Merged(session.defaults, o), action)

Places == {"workspace", "outside"}
Agents ==
  [provider : {"codex", "claude", "pi"}, sandbox : {"read-only", "workspace-write"}, shell : BOOLEAN,
   cwd : Places, bound : BOOLEAN, defaults : Some({})]

LaunchNext ==
  \/ \E a \in Agents : CreateSession(a)
  \/ \E r \in Rules : ChangeRule(r)
  \/ EndRun
  \/ \E o \in Some({Null}), action \in {"continue", "fork", "review"} : StartRun(o, action)

LaunchSpec == LaunchInit /\ [][LaunchNext]_launchVars

-----------------------------------------------------------------------------
(* What Codex makes of a command: --approve-for-me selects workspace-write.*)
SandboxInEffect == IF launch.review = "auto" THEN "workspace-write" ELSE launch.sandbox

(* However a session's defaults, a run's overrides and the changes of the  *)
(* policy come together, a command that is started stays in the session's  *)
(* sandbox, leaves to the server the settings that are the server's, puts  *)
(* nobody in the owner's place who never asks, uses only the places the    *)
(* policy allows now, and continues only a conversation the server bound   *)
(* (CHANGELOG.md:271-276 and 347).                                         *)
LaunchKeepsAuthority ==
  launch # NoLaunch =>
    /\ SandboxInEffect = session.sandbox
    /\ ~(launch.review = "auto" /\ launch.approval = "never")
    /\ \A key \in launch.config : KeyIsOpen(key)
    /\ launch.features \cap ProtectedFeatures = {}
    /\ \A p \in launch.places : Reaches(p[2], IF p[1] \in Writable THEN "write" ELSE "read")
    /\ launch.shell => session.sandbox = "workspace-write" /\ AllowExec /\ Reaches(session.cwd, "exec")
    /\ DirectoryAuthorized(session)
    /\ launch.mode \in {"resume", "fork"} => session.bound
=============================================================================
