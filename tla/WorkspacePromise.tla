-------------------------- MODULE WorkspacePromise --------------------------
(***************************************************************************)
(* What the file tools promise to the clients of one workspace, whatever   *)
(* they interleave and wherever the server stops: every tool is one step,  *)
(* an update is made to the content it reports to have replaced and to the *)
(* content the caller wanted replaced, only an update replaces a file, and *)
(* what was deleted can be restored to where it was until it is purged.    *)
(* A tree that is being copied or purged may be left in part.              *)
(***************************************************************************)
EXTENDS Functions

CONSTANTS Paths, Slots, Texts, Nothing, Present

VARIABLES
  files,    \* the existing files: a function from paths to contents
  trash,    \* a function from trash items to what was deleted, and where
  receipt   \* the last update: its path, the hashes wanted, before and after

promiseVars == <<files, trash, receipt>>

Hash(F, p) == IF p \in DOMAIN F THEN <<F[p]>> ELSE <<>>
TextOf(hash) == IF hash = <<>> THEN {} ELSE hash[1]
With(F, p, c) == [q \in DOMAIN F \cup {p} |-> IF q = p THEN c ELSE F[q]]
Without(F, p) == Restrict(F, DOMAIN F \ {p})
NoReceipt == [path |-> Nothing, wanted |-> <<>>, before |-> <<>>, after |-> <<>>]

PromiseInit == files = Present /\ trash = <<>> /\ receipt = NoReceipt

Put(p, wanted, c) ==
  /\ wanted \in {<<>>, Hash(files, p)}
  /\ files' = With(files, p, c)
  /\ receipt' = [path |-> p, wanted |-> wanted, before |-> Hash(files, p), after |-> <<c>>]
  /\ UNCHANGED trash

Write(p, w, x) == Put(p, w, {x})
Append(p, w, x) == Put(p, w, TextOf(Hash(files, p)) \cup {x})
Edit(p, w, x, y) ==
  /\ x \in TextOf(Hash(files, p))
  /\ Put(p, w, (files[p] \ {x}) \cup {y})
Import(p, x) == p \notin DOMAIN files /\ Put(p, <<>>, {x})

Copy(p, q, part) ==
  /\ p \in DOMAIN files /\ q \notin DOMAIN files /\ part \subseteq files[p]
  /\ files' = With(files, q, part)
  /\ UNCHANGED <<trash, receipt>>

Move(p, q) ==
  /\ p \in DOMAIN files /\ q \notin DOMAIN files
  /\ files' = With(Without(files, p), q, files[p])
  /\ UNCHANGED <<trash, receipt>>

Delete(p, s) ==
  /\ p \in DOMAIN files /\ s \notin DOMAIN trash
  /\ files' = Without(files, p)
  /\ trash' = With(trash, s, [content |-> files[p], original |-> p])
  /\ UNCHANGED receipt

Restore(s, q) ==
  /\ s \in DOMAIN trash /\ q \notin DOMAIN files
  /\ files' = With(files, q, trash[s].content)
  /\ trash' = Without(trash, s)
  /\ UNCHANGED receipt

Purge(s) ==
  /\ s \in DOMAIN trash
  /\ \/ trash' = Without(trash, s)
     \/ \E part \in SUBSET trash[s].content : trash' = [trash EXCEPT ![s].content = part]
  /\ UNCHANGED <<files, receipt>>

PromiseNext ==
  /\ promiseVars' # promiseVars
  /\ \/ \E p \in Paths, x, y \in Texts, w \in {<<>>, receipt'.wanted} :
          Write(p, w, x) \/ Append(p, w, x) \/ Edit(p, w, x, y) \/ Import(p, x)
     \/ \E p, q \in Paths : Move(p, q) \/ \E part \in SUBSET Texts : Copy(p, q, part)
     \/ \E s \in Slots : Purge(s) \/ \E p \in Paths : Delete(p, s) \/ Restore(s, p)

PromiseSpec == PromiseInit /\ [][PromiseNext]_promiseVars
=============================================================================
