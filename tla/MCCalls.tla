------------------------------- MODULE MCCalls -------------------------------
(* The calls that wait for somebody else, in one run: for the owner's word *)
(* (GrantJobs), for a decision (Approvals) and for a download              *)
(* (Attachments), with the start of the runs whose decisions they are      *)
(* (AgentLaunch).  The four share no state: a behaviour is one of theirs,  *)
(* chosen in its first state.                                              *)
EXTENDS GrantJobs, Approvals, Attachments, AgentLaunch

Says(mode, exec, ask) == [mode |-> mode, exec |-> exec, ask |-> ask]
MCRules ==
  {Says("none", FALSE, FALSE), Says("read", FALSE, FALSE), Says("write", FALSE, FALSE),
   Says("write", TRUE, FALSE), Says("write", TRUE, TRUE)}

VARIABLE part

callsVars == <<allVars, approvalVars, attachmentVars, launchVars, part>>

InGrants(A) == part = "grants" /\ A /\ UNCHANGED <<approvalVars, attachmentVars, launchVars, part>>
InApprovals(A) == part = "approvals" /\ A /\ UNCHANGED <<allVars, attachmentVars, launchVars, part>>
InAttachments(A) == part = "attachments" /\ A /\ UNCHANGED <<allVars, approvalVars, launchVars, part>>
InLaunch(A) == part = "launch" /\ A /\ UNCHANGED <<allVars, approvalVars, attachmentVars, part>>

CallsInit ==
  /\ part \in {"grants", "approvals", "attachments", "launch"}
  /\ GJInit /\ ApprovalInit /\ AttachmentInit /\ LaunchInit
  /\ part # "launch" => rule = Says("none", FALSE, FALSE)

CallsNext ==
  InGrants(GJNext) \/ InApprovals(ApprovalNext) \/ InAttachments(AttachmentNext) \/ InLaunch(LaunchNext)

(* Each part's fairness: grants expire and are swept; an approval's calls   *)
(* run, the clock moves, and somebody looks; a download is worked on and   *)
(* its deadline comes.                                                     *)
CallsSpec ==
  /\ CallsInit /\ [][CallsNext]_callsVars
  /\ WF_callsVars(InGrants(Expire /\ UNCHANGED promiseVars))
  /\ \A g \in GrantIds : WF_callsVars(InGrants(SweepJobs(g)))
  /\ WF_callsVars(InApprovals(Look)) /\ WF_callsVars(InApprovals(Serve))
  /\ \A r \in ApprovalIds : WF_callsVars(InApprovals(DeadlinePasses(r)))
  /\ \A i \in Imports : WF_callsVars(InAttachments(Import(i))) /\ WF_callsVars(InAttachments(DeadlineOf(i)))
=============================================================================
