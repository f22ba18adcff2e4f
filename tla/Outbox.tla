------------------------------- MODULE Outbox -------------------------------
(***************************************************************************)
(* What the incremental outbox promises to the producers of vacancy        *)
(* revisions and to the users who wait for an analysis, without leases,    *)
(* batches, workers or retries in time (docs/architecture/adr/             *)
(* 015-personal-assistant-ai-telegram.md).  A published revision is owed   *)
(* until it is settled; it is settled when no user waits for it any more,  *)
(* when a newer revision replaced it or when it failed too often, and      *)
(* never comes back.  WorkItems implements this specification.             *)
(***************************************************************************)
EXTENDS Naturals

CONSTANTS Vacancy, MaxRevision, AttemptLimit

VARIABLES
    head,      \* [Vacancy -> Nat]: newest published revision
    state,     \* [Item -> {"absent", "owed", "settled"}]
    tries,     \* [Item -> Nat]: failed attempts
    cleared    \* set of items for which no user waits

vars == <<head, state, tries, cleared>>

Item == Vacancy \X (1..MaxRevision)

Init ==
    /\ head = [v \in Vacancy |-> 0]
    /\ state = [i \in Item |-> "absent"]
    /\ tries = [i \in Item |-> 0]
    /\ cleared = {}

Publish(v) ==
    /\ head[v] < MaxRevision
    /\ head' = [head EXCEPT ![v] = @ + 1]
    /\ state' = [state EXCEPT ![<<v, head[v] + 1>>] = "owed"]
    /\ UNCHANGED <<tries, cleared>>

\* The last user who waited got a result, or turned out not to wait.
Clear(i) ==
    /\ state[i] # "absent"
    /\ cleared' = cleared \cup {i}
    /\ UNCHANGED <<head, state, tries>>

\* An attempt failed; the last one settles the item.
Fail(i) ==
    /\ state[i] = "owed"
    /\ tries' = [tries EXCEPT ![i] = @ + 1]
    /\ state' = [state EXCEPT ![i] = IF tries[i] + 1 >= AttemptLimit THEN "settled" ELSE @]
    /\ UNCHANGED <<head, cleared>>

Settle(S) ==
    /\ \A i \in S : state[i] = "owed" /\ (i \in cleared \/ i[2] < head[i[1]])
    /\ state' = [i \in Item |-> IF i \in S THEN "settled" ELSE state[i]]
    /\ UNCHANGED <<head, tries, cleared>>

Next ==
    \/ \E v \in Vacancy : Publish(v)
    \/ \E i \in Item : Clear(i) \/ Fail(i)
    \/ \E S \in SUBSET Item : Settle(S)

Spec == Init /\ [][Next]_vars
=============================================================================
