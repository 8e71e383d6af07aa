----------------------------- MODULE JobPromise -----------------------------
(***************************************************************************)
(* What the job queue promises its callers, without threads, queue, locks  *)
(* or capacity.  A submission makes a promise that stays pending until it  *)
(* settles with or without a value.  Settled promises may be forgotten.    *)
(* Withdrawing a grant takes the value of every promise made under it: of  *)
(* the settled ones at once, and of the pending ones for good.             *)
(***************************************************************************)
CONSTANTS Jobs, Keys, NoKey, Grants, NoGrant

VARIABLES promise, key, owner, hidden

vars == <<promise, key, owner, hidden>>

Settled == {j \in Jobs : promise[j] \in {"value", "novalue"}}

Init ==
  /\ promise = [j \in Jobs |-> "none"]
  /\ key = [j \in Jobs |-> NoKey]
  /\ owner = [j \in Jobs |-> NoGrant]
  /\ hidden = [j \in Jobs |-> FALSE]

Forget(S) ==
  /\ promise' = [j \in Jobs |-> IF j \in S THEN "forgotten" ELSE promise[j]]
  /\ UNCHANGED <<key, owner, hidden>>

(* A key has at most one promise that is not forgotten. *)
Submit(j, k, g, S) ==
  /\ promise[j] = "none"
  /\ k # NoKey => \A i \in Jobs \ S : key[i] = k => promise[i] = "forgotten"
  /\ promise' = [i \in Jobs |-> IF i = j THEN "pending"
                                ELSE IF i \in S THEN "forgotten" ELSE promise[i]]
  /\ key' = [key EXCEPT ![j] = k]
  /\ owner' = [owner EXCEPT ![j] = g]
  /\ UNCHANGED hidden

Settle(j, outcome) ==
  /\ promise[j] = "pending"
  /\ outcome = "value" => ~hidden[j]
  /\ promise' = [promise EXCEPT ![j] = outcome]
  /\ UNCHANGED <<key, owner, hidden>>

Withdraw(g) ==
  LET Mine == {j \in Jobs : owner[j] = g /\ promise[j] # "forgotten"}
  IN  /\ hidden' = [j \in Jobs |-> hidden[j] \/ j \in Mine]
      /\ promise' \in [Jobs -> {"none", "pending", "value", "novalue", "forgotten"}]
      /\ \A j \in Jobs \ Mine : promise'[j] = promise[j]
      /\ \A j \in Mine : promise'[j] = "novalue" \/ (promise[j] = "pending" /\ promise'[j] = "pending")
      /\ UNCHANGED <<key, owner>>

Next ==
  \/ \E S \in SUBSET Settled :
       \/ Forget(S)
       \/ \E j \in Jobs, k \in Keys \cup {NoKey}, g \in Grants \cup {NoGrant} : Submit(j, k, g, S)
  \/ \E j \in Jobs, outcome \in {"value", "novalue"} : Settle(j, outcome)
  \/ \E g \in Grants : Withdraw(g)

Spec == Init /\ [][Next]_vars
=============================================================================
