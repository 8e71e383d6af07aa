---------------------------- MODULE MCFilesAccess ----------------------------
(* Files and who may reach them, in one run.  What outlives a call: the    *)
(* workspace and its trash (WorkspaceFiles), the catalog's rows            *)
(* (CatalogRefresh) and database (CatalogStorage), the results kept for a  *)
(* while (ResultHandles).  What an access policy that changes permits: how *)
(* it changes (PolicyReload), the paths of a call (ScopedCalls), an agent  *)
(* session (AgentSessions).  The seven share no state: a behaviour is one  *)
(* of theirs, chosen in its first state.  Their threads have the same      *)
(* names so that one symmetry serves all.                                  *)
EXTENDS WorkspaceFiles, CatalogRefresh, CatalogStorage, ResultHandles,
        PolicyReload, ScopedCalls, AgentSessions, TLC

CONSTANTS
  t1, t2, t3,          \* threads
  x1, p1, p2, f1, f2,  \* a text, two paths, their folders
  P, Q                 \* processes

ThreadSymmetry == Permutations(Clients)

MCPresent == p1 :> {x1}
MCFolderOf == (p1 :> f1) @@ (p2 :> f2)
MCAbove == (f1 :> {Root}) @@ (f2 :> {Root}) @@ (Root :> {})

MCSize == <<1, 2, 3>>
MCProcessOf == (t1 :> P) @@ (t2 :> P) @@ (t3 :> Q)

(* A workspace, a directory with a grant, and rules for it and what is     *)
(* inside it.                                                              *)
Permits(mode, approval, exec) == [mode |-> mode, approval |-> approval, exec |-> exec]
MCWorkspace == <<"w">>
MCGrantRoot == <<"x">>
MCReserved == <<"x", "r", "e">>
MCTree == {<<"x">>, <<"x", "a">>, <<"x", "a", "b">>, <<"x", "a", "b", "f">>, <<"x", "c">>, <<"x", "r">>, <<"x", "a", "l">>}
MCLinks == {<<"x", "a", "l">>}
MCTargets == {<<"x", "c", "d">>, <<"x", "d">>}
Outer == {Permits("write", FALSE, TRUE), Permits("browse", FALSE, FALSE), Permits("read", TRUE, FALSE)}
Inner == {Permits("deny", FALSE, TRUE), Permits("full", TRUE, TRUE)}
Outside(a) == [root \in {<<"w">>, <<"x">>} |-> IF root = <<"w">> THEN Permits("full", FALSE, TRUE) ELSE a]
And(policy0, root, b) == [r \in DOMAIN policy0 \cup {root} |-> IF r = root THEN b ELSE policy0[r]]
MCPolicies ==
  {Outside(a) : a \in Outer}
  \cup {And(Outside(a), <<"x", "a", "b">>, b) : a \in Outer, b \in Inner}
  \cup {And(Outside(Permits("write", FALSE, TRUE)), <<"x", "c", "d", "b">>, b) : b \in Inner}

(* For a session, a policy says what its directory may be used for,        *)
(* whether a rule there asks the owner, and which root the longest has.    *)
Says(may, root) == [may |-> may, root |-> root, asks |-> FALSE, adds |-> root = "near"]
Wide == Says({"read", "write", "exec"}, "near")
MCSessionPolicies == {Wide, Says({"read", "write"}, "far")}

Attached == [provider |-> "codex", needs |-> "write", shell |-> FALSE, attached |-> TRUE]
Shell == [provider |-> "claude-code", needs |-> "write", shell |-> TRUE, attached |-> FALSE]
MCKinds == {Attached, Shell}

(* Which of the two directories a change is about is a matter of names.    *)
AnyDir == CHOOSE d \in Dirs : TRUE

VARIABLE part

fileParts == <<fileVars, refreshVars, storageVars, handleVars>>
accessParts == <<vars, scopeVars, sessionVars>>

FilesAccessInit ==
  /\ part \in {"workspace", "rows", "database", "results", "policy", "calls", "sessions"}
  /\ FileInit /\ RefreshInit /\ StorageInit /\ HandleInit
  /\ Init /\ ScopeInit /\ SessionInit
  /\ part # "database" => made = 0
  /\ part # "rows" => disk = [f \in Files |-> 0]
  /\ editing = AnyDir /\ \E c \in Changes : target[c] = AnyDir
  /\ part # "policy" => target = [c \in Changes |-> AnyDir]
  /\ part # "calls" => policy = Outside(Permits("write", FALSE, TRUE))
  /\ rules = Wide /\ (part # "sessions" => conv.kind = Attached)

FilesStep ==
  \/ part = "workspace" /\ FileNext /\ UNCHANGED <<refreshVars, storageVars, handleVars>>
  \/ part = "rows" /\ RefreshNext /\ UNCHANGED <<fileVars, storageVars, handleVars>>
  \/ part = "database" /\ StorageNext /\ UNCHANGED <<fileVars, refreshVars, handleVars>>
  \/ part = "results" /\ HandleNext /\ UNCHANGED <<fileVars, refreshVars, storageVars>>

AccessStep ==
  \/ part = "policy" /\ Next /\ UNCHANGED <<scopeVars, sessionVars>>
  \/ part = "calls" /\ ScopeNext /\ UNCHANGED <<vars, sessionVars>>
  \/ part = "sessions" /\ SessionNext /\ (conv.kind.attached => UNCHANGED reload)
                       /\ UNCHANGED <<vars, scopeVars>>

FilesAccessNext ==
  /\ part' = part
  /\ \/ FilesStep /\ UNCHANGED accessParts
     \/ AccessStep /\ UNCHANGED fileParts

FilesAccessSpec == FilesAccessInit /\ [][FilesAccessNext]_<<fileParts, accessParts, part>>
=============================================================================
