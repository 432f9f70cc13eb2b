----------------------------- MODULE Governance -----------------------------
(***************************************************************************)
(* PUT /governance/strategy/{type}: the parameters of one strategy are     *)
(* overwritten in strategy_configs and a numbered record is appended to    *)
(* audit_log, in one transaction.  The transactions of concurrent calls    *)
(* run at READ COMMITTED: each SELECT sees what is committed when it runs, *)
(* the UPDATE of the row waits for the transaction that holds it, and      *)
(* created_at is the time the transaction began.                           *)
(***************************************************************************)
EXTENDS Sequences, Integers

CONSTANT Changes    \* calls of set_params, each with parameters of its own

VARIABLES
    config,     \* the change whose parameters strategy_configs holds
    audit,      \* audit_log, in the order of the commits
    rowLock,    \* the change whose transaction holds the row
    pc, old, version, began,   \* of each call; began is its created_at
    clock

vars == <<config, audit, rowLock, pc, old, version, began, clock>>

Original == "original"    \* the seeded parameters
Nobody   == "nobody"

Init ==
    /\ config = Original /\ audit = <<>> /\ rowLock = Nobody
    /\ pc = [c \in Changes |-> "new"]
    /\ old = [c \in Changes |-> Original]
    /\ version = [c \in Changes |-> 0] /\ began = [c \in Changes |-> 0]
    /\ clock = 1

\* ORDER BY created_at DESC LIMIT 1
Latest == CHOOSE i \in DOMAIN audit : \A j \in DOMAIN audit : audit[j].began <= audit[i].began

LatestVersion == IF audit = <<>> THEN 0 ELSE audit[Latest].version

At(c, from, to) == pc[c] = from /\ pc' = [pc EXCEPT ![c] = to]

\* _current_params: the first statement begins the transaction.
ReadParams(c) ==
    /\ At(c, "new", "read")
    /\ old' = [old EXCEPT ![c] = config]
    /\ began' = [began EXCEPT ![c] = clock] /\ clock' = clock + 1
    /\ UNCHANGED <<config, audit, rowLock, version>>

ReadVersion(c) ==
    /\ At(c, "read", "numbered")
    /\ version' = [version EXCEPT ![c] = LatestVersion + 1]
    /\ UNCHANGED <<config, audit, rowLock, old, began, clock>>

Update(c) ==
    /\ rowLock = Nobody /\ rowLock' = c
    /\ At(c, "numbered", "updated")
    /\ UNCHANGED <<config, audit, old, version, began, clock>>

\* The INSERT and the commit on leaving the session.
Commit(c) ==
    /\ At(c, "updated", "done")
    /\ config' = c /\ rowLock' = Nobody
    /\ audit' = Append(audit, [change |-> c, version |-> version[c],
                               old |-> old[c], began |-> began[c], committed |-> clock])
    /\ clock' = clock + 1
    /\ UNCHANGED <<old, version, began>>

\* A variant of Fail that leaves the UPDATE committed.
FailHalfway(c) ==
    /\ pc[c] \in {"read", "numbered", "updated"}
    /\ pc' = [pc EXCEPT ![c] = "failed"]
    /\ rowLock' = IF rowLock = c THEN Nobody ELSE rowLock
    /\ config' = IF rowLock = c THEN c ELSE config
    /\ UNCHANGED <<audit, old, version, began, clock>>

\* Any statement raises: rollback.
Fail(c) ==
    /\ pc[c] \in {"read", "numbered", "updated"}
    /\ pc' = [pc EXCEPT ![c] = "failed"]
    /\ rowLock' = IF rowLock = c THEN Nobody ELSE rowLock
    /\ UNCHANGED <<config, audit, old, version, began, clock>>

Next == \E c \in Changes : ReadParams(c) \/ ReadVersion(c) \/ Update(c) \/ Commit(c) \/ Fail(c)

Spec == Init /\ [][Next]_vars

-----------------------------------------------------------------------------
\* What was in force when the i-th change was committed.
Before(i) == IF i = 1 THEN Original ELSE audit[i - 1].change

\* Everything recorded before the i-th was committed before it began.
Undisturbed(i) == \A j \in 1 .. i - 1 : audit[j].committed < audit[i].began

(* The history explains the configuration: its last record is what is in   *)
(* force, the diff of a record starts from the record before it unless     *)
(* another call committed in between, and the version numbers have no gap  *)
(* (set_params, get_history, next_version).                                *)
HistoryExplains ==
    /\ config = Before(Len(audit) + 1)
    /\ \A i \in DOMAIN audit :
          /\ Undisturbed(i) => audit[i].old = Before(i)
          /\ audit[i].version = 1 \/ \E j \in 1 .. i - 1 : audit[j].version = audit[i].version - 1

(* "Monotonic version bump" (next_version): a change made while no other   *)
(* was under way gets a version above every version recorded before it.    *)
UndisturbedVersionGrows ==
    \A i \in DOMAIN audit :
        Undisturbed(i) => \A j \in 1 .. i - 1 : audit[j].version < audit[i].version
=============================================================================
