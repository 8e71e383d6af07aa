----------------------------- MODULE Approvals -----------------------------
(***************************************************************************)
(* The manual approvals of one agent run (agent_approvals.py, and the      *)
(* calls of service.py that feed its parser and flush its replies).  The   *)
(* agent writes requests to its output and reads the decisions from its    *)
(* input; nothing is read or written but by a call of a client, which      *)
(* holds the locks of the session and of the run until it returns.         *)
(***************************************************************************)
EXTENDS Integers, FiniteSets, Sequences

CONSTANTS
  ApprovalIds,     \* the ids of the agent's requests
  Decisions,    \* of accept, decline and cancel
  MaxApprovals,   \* 16
  MaxSeen,      \* 256
  MaxUnread     \* bound: lines the agent writes ahead

ASSUME ApprovalAssumption == IsFiniteSet(ApprovalIds) /\ MaxApprovals \in Nat /\ MaxSeen \in Nat

VARIABLES
  agent,     \* the agent: running, and what it asked and withdrew
  inbox,     \* the lines of its output that are not read yet
  told,      \* per request: the decisions it was sent
  parser,    \* the ManualApprovalParser
  late,      \* the pending requests whose deadline has passed
  granted,   \* the session may still work in its directory
  client,    \* the call in progress
  chose      \* history, per request: a client's decision, and whether it was told "submitted"

approvalVars == <<agent, inbox, told, parser, late, granted, client, chose>>

NoClient == [at |-> "idle", about |-> "list", decision |-> "cancel", alive |-> TRUE]
Over == parser.over

ApprovalInit ==
  /\ agent = [running |-> TRUE, asked |-> {}, withdrew |-> {}, ended |-> FALSE]
  /\ inbox = <<>> /\ told = [r \in ApprovalIds |-> <<>>]
  /\ parser = [pending |-> {}, seen |-> {}, outgoing |-> {}, done |-> "no", over |-> FALSE]
  /\ late = {} /\ granted = TRUE
  /\ client = NoClient /\ chose = [r \in ApprovalIds |-> [decision |-> "none", submitted |-> FALSE]]
-----------------------------------------------------------------------------
(* The agent asks, once or again, withdraws a request, ends its turn or    *)
(* ends altogether; time passes; the workspace grant is revoked.           *)

Writes(line) == inbox' = Append(inbox, line)

AgentAsks(r, kind) ==
  /\ agent.running /\ ~agent.ended /\ Len(inbox) < MaxUnread
  /\ agent' = [agent EXCEPT !.asked = @ \cup {r}]
  /\ Writes([is |-> "request", id |-> r, kind |-> kind])
  /\ UNCHANGED <<told, parser, late, granted, client, chose>>

AgentWithdraws(r) ==
  /\ agent.running /\ ~agent.ended /\ r \in agent.asked \ agent.withdrew /\ Len(inbox) < MaxUnread
  /\ agent' = [agent EXCEPT !.withdrew = @ \cup {r}]
  /\ Writes([is |-> "resolved", id |-> r])
  /\ UNCHANGED <<told, parser, late, granted, client, chose>>

AgentEnds ==
  /\ agent.running /\ ~agent.ended
  /\ agent' = [agent EXCEPT !.ended = TRUE]
  /\ Writes([is |-> "completed"])
  /\ UNCHANGED <<told, parser, late, granted, client, chose>>

AgentExits ==
  /\ agent.running
  /\ agent' = [agent EXCEPT !.running = FALSE]
  /\ UNCHANGED <<inbox, told, parser, late, granted, client, chose>>

DeadlinePasses(r) ==
  /\ r \in parser.pending \ late
  /\ late' = late \cup {r}
  /\ UNCHANGED <<agent, inbox, told, parser, granted, client, chose>>

GrantEnds ==
  /\ granted /\ granted' = FALSE
  /\ UNCHANGED <<agent, inbox, told, parser, late, client, chose>>
-----------------------------------------------------------------------------
(* The parser. *)

Reply(r, decision) == [id |-> r, decision |-> decision]
Replying(p, r, decision) == [p EXCEPT !.outgoing = @ \cup {Reply(r, decision)}]
Fail(p) == [p EXCEPT !.done = "failed", !.pending = {}]

NotExpired(p, due) == p   \* fault: a pending request is never cancelled
Expired(p, due) ==
  [p EXCEPT !.pending = @ \ due, !.outgoing = @ \cup {Reply(r, "cancel") : r \in due}]

(* _approval(): a request that is new, bound to the turn, and fit to show. *)
Take(p, line) ==
  IF line.id \in p.seen \/ Cardinality(p.seen) >= MaxSeen THEN Fail(p)
  ELSE LET q == [p EXCEPT !.seen = @ \cup {line.id}] IN
       CASE line.kind = "unbound" -> Fail(q)
         [] line.kind = "unsafe" \/ (line.kind = "fit" /\ Cardinality(p.pending) >= MaxApprovals) ->
              Replying(q, line.id, "cancel")
         [] OTHER -> [q EXCEPT !.pending = @ \cup {line.id}]

(* feed_line(). *)
Fed(p, line) ==
  CASE p.done # "no" -> p
    [] p.done = "no" /\ line.is = "request" -> Take(p, line)
    [] p.done = "no" /\ line.is = "resolved" -> [p EXCEPT !.pending = @ \ {line.id}]
    [] p.done = "no" /\ line.is = "completed" -> [p EXCEPT !.done = "succeeded", !.pending = {}]

BeginApproval(about, decision) ==
  /\ client.at = "idle" /\ ~Over
  /\ client' = [NoClient EXCEPT !.at = "feed", !.about = about, !.decision = decision]
  /\ UNCHANGED <<agent, inbox, told, parser, late, granted, chose>>

Feed ==
  /\ client.at = "feed" /\ inbox # <<>>
  /\ parser' = Fed(parser, Head(inbox)) /\ inbox' = Tail(inbox)
  /\ late' = late \cap parser'.pending
  /\ UNCHANGED <<agent, told, granted, client, chose>>

(* The drain of a process that runs stops anywhere, that of one that ended *)
(* at the end of its output.                                               *)
FeedEnds ==
  /\ client.at = "feed" /\ (agent.running \/ inbox = <<>>)
  /\ client' = [client EXCEPT !.at = "flush", !.alive = agent.running]
  /\ UNCHANGED <<agent, inbox, told, parser, late, granted, chose>>
-----------------------------------------------------------------------------
(* _flush_manual_protocol: what is due is cancelled, then one message      *)
(* after the other is written, unless the parser failed.                   *)

Due == parser.pending \cap late

ExpireRequests ==
  /\ client.at \in {"flush", "answer", "sending"} /\ Due # {}
  /\ parser' = Expired(parser, Due) /\ late' = {}
  /\ UNCHANGED <<agent, inbox, told, granted, client, chose>>

Flush ==
  /\ client.at \in {"flush", "sending"} /\ Due = {}
  /\ agent.running /\ parser.done # "failed"
  /\ \E reply \in parser.outgoing :
       /\ told' = [told EXCEPT ![reply.id] = Append(@, reply.decision)]
       /\ parser' = [parser EXCEPT !.outgoing = @ \ {reply}]
  /\ UNCHANGED <<agent, inbox, late, granted, client, chose>>

(* The refresh ends.  Of a process that has ended, or that it stops since  *)
(* the protocol failed, nothing more is expected; what a process that has  *)
(* just ended was to be sent is dropped.                                   *)
FlushEnds ==
  /\ client.at = "flush" /\ Due = {}
  /\ ~agent.running \/ parser.done = "failed" \/ parser.outgoing = {}
  /\ parser' = [parser EXCEPT !.outgoing = {},
                               !.over = ~client.alive \/ parser.done = "failed",
                               !.pending = IF client.alive THEN @ ELSE {}]
  /\ agent' = [agent EXCEPT !.running = @ /\ parser.done # "failed"]
  /\ client' = IF parser'.over THEN NoClient ELSE [client EXCEPT !.at = "answer"]
  /\ UNCHANGED <<inbox, told, late, granted, chose>>
-----------------------------------------------------------------------------
(* agent_approval_list and agent_approval_respond, after the refresh.      *)

List ==
  /\ client.at = "answer" /\ client.about = "list" /\ Due = {}
  /\ client' = [client EXCEPT !.at = "sending"]
  /\ UNCHANGED <<agent, inbox, told, parser, late, granted, chose>>

(* The run's directory is authorized again, then the request is looked up. *)
RefuseAnswer ==
  /\ client.at = "answer" /\ client.about # "list" /\ Due = {}
  /\ ~granted \/ parser.done # "no" \/ client.about \notin parser.pending
  /\ client' = NoClient
  /\ UNCHANGED <<agent, inbox, told, parser, late, granted, chose>>

AnsweredKept(p, r, decision) == Replying(p, r, decision)   \* fault: the request stays pending
Chosen(p, r, decision) == [Replying(p, r, decision) EXCEPT !.pending = @ \ {r}]

Respond ==
  /\ client.at = "answer" /\ client.about # "list" /\ Due = {}
  /\ granted /\ parser.done = "no" /\ client.about \in parser.pending
  /\ parser' = Chosen(parser, client.about, client.decision)
  /\ client' = [client EXCEPT !.at = "sending"]
  /\ chose' = [chose EXCEPT ![client.about].decision = client.decision]
  /\ UNCHANGED <<agent, inbox, told, late, granted>>

SendEnds ==
  /\ client.at = "sending" /\ Due = {} /\ parser.outgoing = {}
  /\ chose' = IF client.about = "list" THEN chose ELSE [chose EXCEPT ![client.about].submitted = TRUE]
  /\ client' = NoClient
  /\ UNCHANGED <<agent, inbox, told, parser, late, granted>>

(* A write fails: a response fails the parser and stops the process.       *)
SendFails ==
  /\ client.at = "sending" /\ ~agent.running /\ parser.outgoing # {}
  /\ parser' = IF client.about = "list" THEN parser ELSE Fail(parser)
  /\ client' = NoClient
  /\ UNCHANGED <<agent, inbox, told, late, granted, chose>>

Serve == \/ Feed \/ FeedEnds \/ ExpireRequests \/ Flush \/ FlushEnds \/ List \/ RefuseAnswer \/ Respond
         \/ SendEnds \/ SendFails

Look == BeginApproval("list", "cancel")

ApprovalNext ==
  \/ \E r \in ApprovalIds :
       \/ \E kind \in {"fit", "unsafe", "unbound"} : AgentAsks(r, kind)
       \/ AgentWithdraws(r) \/ DeadlinePasses(r)
       \/ \E decision \in Decisions : BeginApproval(r, decision)
  \/ AgentEnds \/ AgentExits \/ GrantEnds \/ Look \/ Serve

ApprovalSpec == ApprovalInit /\ [][ApprovalNext]_approvalVars
-----------------------------------------------------------------------------
(* The agent is told one decision per request, and goes ahead only if a    *)
(* client accepted that request; a client that is told "submitted" can     *)
(* rely on the agent having been told just that, whatever expired, was     *)
(* withdrawn or broke meanwhile.                                           *)
DecisionsAreTheClients ==
  \A r \in ApprovalIds :
    /\ Len(told[r]) <= 1
    /\ told[r] # <<>> /\ told[r] # <<"cancel">> => told[r] = <<chose[r].decision>>
    /\ chose[r].submitted => told[r] = <<chose[r].decision>>

(* A request the agent waits for is decided, withdrawn or ended with its   *)
(* turn, as long as deadlines pass and some client keeps looking.          *)
EveryRequestEnds == \A r \in ApprovalIds : r \in parser.pending ~> r \notin parser.pending
=============================================================================
