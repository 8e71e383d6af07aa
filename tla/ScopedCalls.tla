---------------------------- MODULE ScopedCalls -----------------------------
(***************************************************************************)
(* A file or command call outside the workspace (service.py, the external  *)
(* tools): admitted once under a grant or a static rule, then              *)
(* run by a scoped service whose jail asks again, with the policy of that  *)
(* moment, for every path it resolves and every entry of a tree it is      *)
(* about to move, copy or delete (policy.py, access_context.py).  The      *)
(* policy is reloaded and the grant revoked between any two of its steps.  *)
(*                                                                         *)
(* A path is a sequence of names; a policy is a function from the paths of *)
(* its enabled rules to the rules.                                         *)
(***************************************************************************)
EXTENDS Integers, Sequences, SequencesExt

CONSTANTS
  CallWorkspace,   \* the root of the workspace
  Tree,        \* the paths that exist
  Links,       \* those of them that are links or junctions: leaves, as no walk follows one
  Targets,     \* destinations of moves and copies
  Reserved,    \* the execution records, which no scope reaches
  GrantRoot, GrantMode,
  Policies,
  MaxReloads   \* bound: policy changes

ASSUME ScopeAssumption ==
  /\ Tree \subseteq Seq(STRING) /\ Targets \subseteq Seq(STRING)
  /\ Links \subseteq Tree /\ \A l \in Links, e \in Tree : ~IsStrictPrefix(l, e)
  /\ \A p \in Policies :
       /\ DOMAIN p \subseteq Seq(STRING)
       /\ \A r \in DOMAIN p : /\ p[r].mode \in {"deny", "browse", "read", "write", "full"}
                            /\ {p[r].approval, p[r].exec} \subseteq BOOLEAN
  /\ GrantMode \in {"read", "write", "delete", "exec"} /\ MaxReloads \in Nat

VARIABLES
  policy,    \* access_policy
  lease,     \* whether the grant is active
  reloads,
  scope,     \* the call
  moments    \* history: the policies and leases it has lived under

scopeVars == <<policy, lease, reloads, scope, moments>>

(* Per tool: the operation its scope is opened for, the one its source is  *)
(* checked for, and how it goes through the files.                         *)
Tool(op, source, walks) == [op |-> op, source |-> source, walks |-> walks]
Tools ==
  [list   |-> Tool("list", "list", "walk"),    search |-> Tool("read", "read", "walk"),
   read   |-> Tool("read", "read", "one"),     write  |-> Tool("write", "write", "one"),
   exec   |-> Tool("exec", "exec", "one"),     delete |-> Tool("delete", "delete", "tree"),
   move   |-> Tool("write", "write", "pair"),  copy   |-> Tool("write", "read", "pair")]

NoScope == [at |-> "idle", by |-> "none", tool |-> "list", deep |-> TRUE, source |-> <<>>, target |-> <<>>,
            todo |-> {}, checked |-> {}, shown |-> {}, touched |-> {}]
-----------------------------------------------------------------------------
(* The static policy. *)

(* AccessRule.allows *)
RuleAllows(rule, op) ==
  /\ rule.mode # "deny"
  /\ CASE op = "list"         -> rule.mode \in {"browse", "read", "write", "full"}
       [] op = "exec"         -> rule.exec
       [] op = "purge"        -> rule.mode = "full"
       [] op \in {"write", "delete"} -> rule.mode \in {"write", "full"}
       [] OTHER               -> rule.mode \in {"read", "write", "full"}

Matches(path) == {r \in DOMAIN policy : IsPrefix(r, path)}

(* fault: the rule nearest the root *)
LeastSpecific(path) == CHOOSE r \in Matches(path) : \A o \in Matches(path) : Len(r) <= Len(o)
RuleFor(path) == CHOOSE r \in Matches(path) : \A o \in Matches(path) : Len(o) <= Len(r)

(* authorize(), and no approval asked for. *)
PolicyPermits(path, op) ==
  Matches(path) # {} /\ LET rule == policy[RuleFor(path)] IN RuleAllows(rule, op) /\ ~rule.approval

DeniedAt(path) == Matches(path) # {} /\ policy[RuleFor(path)].mode = "deny"

(* ExternalGrantManager.resolve: the mode, the root, and an explicit deny. *)
ModesFor(op) == CASE op \in {"list", "read"} -> {"read", "write", "delete", "exec"}
                  [] op = "write"  -> {"write", "delete", "exec"}
                  [] op = "delete" -> {"delete", "exec"}
                  [] op = "exec"   -> {"exec"}

GrantPermits(path, op) ==
  /\ lease /\ GrantMode \in ModesFor(op)
  /\ IsPrefix(GrantRoot, path)
  /\ ~DeniedAt(GrantRoot) /\ ~DeniedAt(path)

(* AccessContext.authorize *)
ContextPermits(path, op) ==
  /\ ~IsPrefix(Reserved, path) /\ ~IsPrefix(path, Reserved)
  /\ IF scope.by = "grant" THEN GrantPermits(path, op) ELSE PolicyPermits(path, op)

(* ContextJail.resolve: a link on the way is refused before anyone asks.   *)
Resolves(path, op) == (\A l \in Links : ~IsPrefix(l, path)) /\ ContextPermits(path, op)
-----------------------------------------------------------------------------
ScopeInit ==
  /\ policy \in Policies /\ lease = TRUE /\ reloads = 0
  /\ scope = NoScope /\ moments = {}

Remember(p, live) == moments' = IF scope.at = "idle" THEN {} ELSE moments \cup {[policy |-> p, lease |-> live]}

(* A reload, which ends the grants whose root the new policy denies.       *)
Reload ==
  /\ reloads < MaxReloads
  /\ policy' \in Policies \ {policy}
  /\ lease' = (lease /\ ~DeniedAt(GrantRoot)')
  /\ Remember(policy', lease')
  /\ reloads' = reloads + 1
  /\ UNCHANGED scope

RevokeGrant ==
  /\ lease /\ lease' = FALSE
  /\ Remember(policy, FALSE)
  /\ UNCHANGED <<policy, reloads, scope>>

Goes(to) == scope' = [scope EXCEPT !.at = to] /\ UNCHANGED <<policy, lease, reloads, moments>>
CallEnds == scope' = NoScope /\ moments' = {} /\ UNCHANGED <<policy, lease, reloads>>
Paired == Tools[scope.tool].walks = "pair"

BeginScope(by, tool, source, target, deep) ==
  /\ scope.at = "idle"
  /\ deep \/ tool = "list"
  /\ (target = source) <=> Tools[tool].walks # "pair"
  /\ scope' = [NoScope EXCEPT !.by = by, !.tool = tool, !.source = source, !.target = target, !.deep = deep,
                              !.at = IF tool = "list" /\ by = "policy" THEN "explain" ELSE "admit"]
  /\ moments' = {[policy |-> policy, lease |-> lease]}
  /\ UNCHANGED <<policy, lease, reloads>>

(* policy_external_list_dir looks at the rule first: browse is one level.  *)
Explain ==
  /\ scope.at = "explain"
  /\ scope' = [scope EXCEPT !.at = "admit", !.deep = @ /\ ~(Matches(scope.source) # {} /\ policy[RuleFor(scope.source)].mode = "browse")]
  /\ UNCHANGED <<policy, lease, reloads, moments>>

(* The scope is opened: a static rule outside the workspace, the same one  *)
(* for both ends, or the grant.                                            *)
AdmittedByPolicy ==
  /\ PolicyPermits(scope.source, Tools[scope.tool].source)
  /\ RuleFor(scope.source) # CallWorkspace
  /\ Paired => /\ PolicyPermits(scope.target, "write")
               /\ RuleFor(scope.target) = RuleFor(scope.source)

AdmittedByGrant ==
  /\ GrantPermits(scope.source, Tools[scope.tool].source)
  /\ GrantPermits(GrantRoot, Tools[scope.tool].op)
  /\ Paired => GrantPermits(scope.target, "write")

Admit ==
  /\ scope.at = "admit"
  /\ IF scope.by = "grant" THEN AdmittedByGrant ELSE AdmittedByPolicy
  /\ Goes("source")

Inside(path) == {e \in Tree : IsPrefix(path, e)}
Children(path) == {e \in Tree : IsPrefix(path, e) /\ Len(e) = Len(path) + 1}
Projected(e) == scope.target \o SubSeq(e, Len(scope.source) + 1, Len(e))

(* The scoped jail resolves the source, and the destination.               *)
ResolveSource ==
  /\ scope.at = "source"
  /\ Resolves(scope.source, Tools[scope.tool].source)
  /\ CASE Tools[scope.tool].walks = "one"  -> Goes("act")
       [] Tools[scope.tool].walks = "pair" -> Goes("target")
       [] Tools[scope.tool].walks = "tree" ->
            scope' = [scope EXCEPT !.at = "scan", !.todo = Inside(scope.source)] /\ UNCHANGED <<policy, lease, reloads, moments>>
       [] OTHER ->
            scope' = [scope EXCEPT !.at = "walk", !.todo = Children(scope.source)] /\ UNCHANGED <<policy, lease, reloads, moments>>

ResolveTarget ==
  /\ scope.at = "target"
  /\ Resolves(scope.target, "write")
  /\ ~IsPrefix(scope.source, scope.target) /\ scope.target \notin Tree
  /\ scope' = [scope EXCEPT !.at = "scan", !.todo = Inside(scope.source)]
  /\ UNCHANGED <<policy, lease, reloads, moments>>

(* ContextJail.reject_reparse_tree: no link among them, and every entry,   *)
(* and where it will be, asked for; the root once more as the scope's.     *)
EntryPermitted(e) ==
  /\ e \notin Links
  /\ e = scope.source => ContextPermits(e, Tools[scope.tool].op)
  /\ ContextPermits(e, Tools[scope.tool].source)
  /\ Paired => ContextPermits(Projected(e), "write")

Scan(e) ==
  /\ scope.at = "scan" /\ e \in scope.todo
  /\ EntryPermitted(e)
  /\ scope' = [scope EXCEPT !.todo = @ \ {e}, !.at = IF scope.todo = {e} THEN "act" ELSE "scan"]
  /\ UNCHANGED <<policy, lease, reloads, moments>>

(* list_dir, glob, search: an entry is resolved, and shown with what is    *)
(* below it a step later.  What is refused is passed over, and all below   *)
(* it, but a link that list_dir finds is named there unasked for.          *)
CheckEntry(e) ==
  /\ scope.at = "walk" /\ e \in scope.todo
  /\ scope.tool = "list" => scope.checked = {}
  /\ scope' = [scope EXCEPT !.todo = @ \ {e},
       !.checked = IF Resolves(e, Tools[scope.tool].op) THEN @ \cup {e} ELSE @,
       !.shown = IF scope.tool = "list" /\ e \in Links THEN @ \cup {e} ELSE @]
  /\ UNCHANGED <<policy, lease, reloads, moments>>

ShowEntry(e) ==
  /\ scope.at = "walk" /\ e \in scope.checked
  /\ scope' = [scope EXCEPT !.checked = @ \ {e}, !.shown = @ \cup {e},
       !.todo = @ \cup IF scope.deep THEN Children(e) ELSE {}]
  /\ UNCHANGED <<policy, lease, reloads, moments>>

(* glob asks again for a directory before it shows it, and goes below it   *)
(* whatever the answer.                                                    *)
PassOver(e) ==
  /\ scope.at = "walk" /\ e \in scope.checked /\ scope.tool = "search"
  /\ Children(e) # {} /\ ~Resolves(e, "read")
  /\ scope' = [scope EXCEPT !.checked = @ \ {e}, !.todo = @ \cup Children(e)]
  /\ UNCHANGED <<policy, lease, reloads, moments>>

(* The mutation, the read or the process: all of the tree at once.         *)
Act ==
  /\ scope.at = "act"
  /\ Paired => Resolves(Front(scope.target), "write")
  /\ Tools[scope.tool].op = "exec" => ContextPermits(scope.source, "exec")
  /\ scope' = [scope EXCEPT !.at = "done", !.touched =
       LET sources == IF Tools[scope.tool].walks = "one" THEN {scope.source} ELSE Inside(scope.source)
       IN (sources \X {Tools[scope.tool].source})
          \cup IF Paired THEN {<<Projected(e), "write">> : e \in sources} ELSE {}]
  /\ UNCHANGED <<policy, lease, reloads, moments>>

(* It returns, is refused, truncated, cancelled, or fails.                 *)
EndScope == scope.at # "idle" /\ CallEnds

ScopeNext ==
  \/ Reload \/ RevokeGrant
  \/ /\ scope.at = "idle"
     /\ \E by \in {"policy", "grant"}, tool \in DOMAIN Tools, source \in Tree, deep \in BOOLEAN :
          \E target \in Targets \cup {source} : BeginScope(by, tool, source, target, deep)
  \/ Explain \/ Admit \/ ResolveSource \/ ResolveTarget
  \/ \E e \in scope.todo : Scan(e) \/ CheckEntry(e)
  \/ \E e \in scope.checked : ShowEntry(e) \/ PassOver(e)
  \/ Act \/ EndScope

ScopeSpec == ScopeInit /\ [][ScopeNext]_scopeVars
-----------------------------------------------------------------------------
(* What an authority gives, said from the rule to the operations.          *)
Rights(rule) ==
  (CASE rule.mode \in {"deny"} -> {}
     [] rule.mode = "browse" -> {"list"}
     [] rule.mode = "read"   -> {"list", "read"}
     [] rule.mode \in {"write", "full"} -> {"list", "read", "write", "delete"})
  \cup IF rule.exec /\ rule.mode # "deny" THEN {"exec"} ELSE {}

Governs(p, r, path) ==
  r \in DOMAIN p /\ IsPrefix(r, path) /\ \A s \in DOMAIN p : IsStrictPrefix(r, s) => ~IsPrefix(s, path)

Entitled(moment, path, op) ==
  /\ ~IsPrefix(Reserved, path)
  /\ IF scope.by = "grant"
     THEN /\ moment.lease /\ IsPrefix(GrantRoot, path) /\ GrantMode \in ModesFor(op)
          /\ \A r \in DOMAIN moment.policy : Governs(moment.policy, r, path) => moment.policy[r].mode # "deny"
     ELSE \E r \in DOMAIN moment.policy :
            /\ Governs(moment.policy, r, path)
            /\ op \in Rights(moment.policy[r]) /\ ~moment.policy[r].approval

(* What a call shows, reads, moves, copies, creates or deletes, down to    *)
(* the last entry of a tree, it was entitled to at some moment since it    *)
(* began, however the policy was reloaded and the grant revoked between    *)
(* its checks and what it does next; the execution records it never        *)
(* reaches.  Nothing is shown below a directory it was never entitled to,  *)
(* and a link, which nobody is asked about, is named by listings alone.    *)
WasEntitledTo(path, op) == \E m \in moments : Entitled(m, path, op)

ShowsWhatWasAllowed ==
  \A e \in scope'.shown \ scope.shown :
    /\ WasEntitledTo(Front(e), Tools[scope.tool].op)
    /\ IF e \in Links THEN scope.tool = "list" ELSE WasEntitledTo(e, Tools[scope.tool].op)

TouchesWhatWasAllowed ==
  \A t \in scope'.touched \ scope.touched : WasEntitledTo(t[1], t[2])

CallsKeepTheirScope == [][ShowsWhatWasAllowed /\ TouchesWhatWasAllowed]_scopeVars
=============================================================================
