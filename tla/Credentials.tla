---------------------------- MODULE Credentials -----------------------------
(***************************************************************************)
(* One credential in the gateway's store: the row of the credentials       *)
(* table, the memory cache of the process, which has no expiry, and the    *)
(* environment variable used when the database has no active row.  The     *)
(* routes write the row, then an audit record, then publish a reload       *)
(* signal; get fills the cache.  A commit takes effect before the await on *)
(* it returns, so other calls run between the row and the cache.           *)
(***************************************************************************)
EXTENDS Integers, FiniteSets

CONSTANTS
    Sets, Deletes, Gets,   \* calls of /set, /delete and of store.get
    EnvValue,              \* the environment variable, or Nothing
    Nothing

Writes == Sets \cup Deletes
Calls  == Writes \cup Gets

VARIABLES
    row,          \* [value, active], or Nothing
    cache,        \* the cached value, or Nothing
    pc, found,    \* of each call; found is what a get read from the database
    audited, signalled,
    disturbed     \* two calls overlapped, or a read failed, since the cache was last cleared

vars == <<row, cache, pc, found, audited, signalled, disturbed>>

Init ==
    /\ row = Nothing /\ cache = Nothing
    /\ pc = [c \in Calls |-> "new"] /\ found = [c \in Calls |-> Nothing]
    /\ audited = {} /\ signalled = {} /\ disturbed = FALSE

Stored == IF row # Nothing /\ row.active THEN row.value ELSE Nothing

Step(c, from, to) == pc[c] = from /\ pc' = [pc EXCEPT ![c] = to]

Running == { c \in Calls : pc[c] \notin {"new", "done", "failed"} }

\* The value of /set is named after the call.
SetRow(c) ==
    /\ Step(c, "new", "cache")
    /\ row' = [value |-> c, active |-> TRUE]
    /\ disturbed' = (disturbed \/ Running # {})
    /\ UNCHANGED <<cache, found, audited, signalled>>

DeleteRow(c) ==
    /\ Step(c, "new", "cache")
    /\ row' = IF row = Nothing THEN row ELSE [row EXCEPT !.active = FALSE]
    /\ disturbed' = (disturbed \/ Running # {})
    /\ UNCHANGED <<cache, found, audited, signalled>>

SetCache(c) ==
    /\ Step(c, "cache", "audit")
    /\ cache' = c
    /\ UNCHANGED <<row, found, audited, signalled, disturbed>>

\* A variant of DeleteCache that leaves the cache to the next restart.
DeleteCacheLater(c) ==
    /\ Step(c, "cache", "audit")
    /\ UNCHANGED <<row, cache, found, audited, signalled, disturbed>>

DeleteCache(c) ==
    /\ Step(c, "cache", "audit")
    /\ cache' = Nothing
    /\ UNCHANGED <<row, found, audited, signalled, disturbed>>

Audit(c) ==
    /\ Step(c, "audit", "signal")
    /\ audited' = audited \cup {c}
    /\ UNCHANGED <<row, cache, found, signalled, disturbed>>

Signal(c) ==
    /\ Step(c, "signal", "done")
    /\ signalled' = signalled \cup {c}
    /\ UNCHANGED <<row, cache, found, audited, disturbed>>

\* A statement raises: the call ends where it is.  A commit whose reply is lost
\* leaves the row without the cache.
WriteFails(c) ==
    /\ pc[c] \in {"new", "cache", "audit", "signal"}
    /\ pc' = [pc EXCEPT ![c] = "failed"]
    /\ disturbed' = (disturbed \/ pc[c] = "cache")
    /\ UNCHANGED <<row, cache, found, audited, signalled>>

GetCached(c) ==
    /\ cache # Nothing /\ Step(c, "new", "done")
    /\ UNCHANGED <<row, cache, found, audited, signalled, disturbed>>

\* _get_from_db: an error is taken for "no row".
GetRow(c) ==
    /\ cache = Nothing /\ Step(c, "new", "fill")
    /\ \/ /\ found' = [found EXCEPT ![c] = Stored]
          /\ disturbed' = (disturbed \/ Running # {})
       \/ found' = found /\ disturbed' = TRUE
    /\ UNCHANGED <<row, cache, audited, signalled>>

GetFill(c) ==
    /\ Step(c, "fill", "done")
    /\ cache' = IF found[c] # Nothing THEN found[c] ELSE IF EnvValue # Nothing THEN EnvValue ELSE cache
    /\ UNCHANGED <<row, found, audited, signalled, disturbed>>

\* The process restarts: calls in hand die, load_all reads the active rows.
Restart ==
    /\ Running # {}
    /\ pc' = [c \in Calls |-> IF c \in Running THEN "failed" ELSE pc[c]]
    /\ cache' = Stored /\ disturbed' = FALSE
    /\ UNCHANGED <<row, found, audited, signalled>>

Next ==
    \/ \E c \in Sets : SetRow(c) \/ SetCache(c)
    \/ \E c \in Deletes : DeleteRow(c) \/ DeleteCache(c)
    \/ \E c \in Writes : Audit(c) \/ Signal(c) \/ WriteFails(c)
    \/ \E c \in Gets : GetCached(c) \/ GetRow(c) \/ GetFill(c)
    \/ Restart

Spec == Init /\ [][Next]_vars

-----------------------------------------------------------------------------
(* The cache never expires, so it has to be right: as long as no two calls *)
(* overlapped and no read failed since the process started, a cached value *)
(* is the stored one, or the environment's when none is stored             *)
(* (CredentialStore.get, set, delete).                                     *)
CacheTrueUndisturbed ==
    (~disturbed /\ \A c \in Writes : pc[c] # "cache") =>
        cache \in {Nothing, IF Stored # Nothing THEN Stored ELSE EnvValue}
=============================================================================
