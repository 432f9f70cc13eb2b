------------------------------ MODULE Sessions ------------------------------
(***************************************************************************)
(* Signed sessions and their revocation.  A token says who it was issued   *)
(* to and when; revoke-sessions stores an epoch, for everyone or for one   *)
(* operator, before which tokens no longer count.  The gateway compares    *)
(* each token with the epochs in Redis; the dashboard asks the gateway for *)
(* them and keeps the answer for Ttl.  Time is in whole seconds, the unit  *)
(* of iat and of the epochs, and both sides read one clock.                *)
(***************************************************************************)
EXTENDS Integers

CONSTANTS
    Users, Requests,   \* operators; requests on their way through the dashboard
    Ttl,               \* REVOCATION_TTL_MS, in seconds
    MaxTime            \* bound of the clock

Nobody == "nobody"

VARIABLES
    now,
    issued,       \* issued[u]: iat of the token u presents
    all, user,    \* the revocation epochs, 0 when none is set
    cache,        \* the dashboard's cache: [at, data]; at < 0 when it has none
    asked,        \* of each request: [stage, who, at, reply] while load() fetches
    verdict       \* the decision this step made: [who, kind]

vars == <<now, issued, all, user, cache, asked, verdict>>
epochs == <<all, user>>

NoEpochs == [all |-> 0, user |-> [u \in Users |-> 0]]
Epochs   == [all |-> all, user |-> user]
Idle     == [stage |-> "idle", who |-> Nobody, at |-> 0, reply |-> NoEpochs]
NoVerdict == [who |-> Nobody, kind |-> "none"]

Init ==
    /\ now = 1 /\ issued = [u \in Users |-> 1]
    /\ all = 0 /\ user = [u \in Users |-> 0]
    /\ cache = [at |-> -1, data |-> NoEpochs]
    /\ asked = [r \in Requests |-> Idle]
    /\ verdict = NoVerdict

\* A variant of IsRevoked that knows the epoch of everyone only.
IsRevokedForAll(u, e) == issued[u] < e.all

\* isRevoked and _is_revoked: the same comparison on both sides.
IsRevoked(u, e) == issued[u] < e.all \/ issued[u] < e.user[u]

Decide(u, data, kind) ==
    verdict' = [who |-> u, kind |-> IF IsRevoked(u, data) THEN "refused" ELSE kind]

Quiet == verdict' = NoVerdict

Tick ==
    /\ now < MaxTime /\ now' = now + 1 /\ Quiet
    /\ UNCHANGED <<issued, epochs, cache, asked>>

\* A new login replaces the cookie of the requests still to come.
Login(u) ==
    /\ \A r \in Requests : asked[r].who # u
    /\ issued[u] # now /\ issued' = [issued EXCEPT ![u] = now] /\ Quiet
    /\ UNCHANGED <<now, epochs, cache, asked>>

RevokeAll ==
    /\ all # now /\ all' = now /\ Quiet
    /\ UNCHANGED <<now, issued, user, cache, asked>>

RevokeUser(u) ==
    /\ user[u] # now /\ user' = [user EXCEPT ![u] = now] /\ Quiet
    /\ UNCHANGED <<now, issued, all, cache, asked>>

CacheFresh == cache.at >= 0 /\ now - cache.at < Ttl

\* load() with a fresh cache answers at once.
UseCache(u) ==
    /\ CacheFresh /\ Decide(u, cache.data, "checked")
    /\ UNCHANGED <<now, issued, epochs, cache, asked>>

\* Otherwise it notes the time and asks the gateway.
Ask(r, u) ==
    /\ ~CacheFresh /\ asked[r].stage = "idle"
    /\ asked' = [asked EXCEPT ![r] = [stage |-> "asked", who |-> u, at |-> now, reply |-> NoEpochs]] /\ Quiet
    /\ UNCHANGED <<now, issued, epochs, cache>>

\* GET /control/revocations reads the epochs.
Answer(r) ==
    /\ asked[r].stage = "asked"
    /\ asked' = [asked EXCEPT ![r].stage = "answered", ![r].reply = Epochs] /\ Quiet
    /\ UNCHANGED <<now, issued, epochs, cache>>

Receive(r) ==
    /\ asked[r].stage = "answered"
    /\ cache' = [at |-> asked[r].at, data |-> asked[r].reply]
    /\ Decide(asked[r].who, asked[r].reply, "checked")
    /\ asked' = [asked EXCEPT ![r] = Idle]
    /\ UNCHANGED <<now, issued, epochs>>

\* The fetch fails: the stale cache, or nothing revoked.
FailOpen(r) ==
    /\ asked[r].stage # "idle"
    /\ Decide(asked[r].who, cache.data, "open")
    /\ asked' = [asked EXCEPT ![r] = Idle]
    /\ UNCHANGED <<now, issued, epochs, cache>>

\* The gateway compares the forwarded token with the epochs themselves; what
\* raises there counts as not revoked too.
Resolve(u) ==
    /\ Decide(u, Epochs, "verified") \/ Decide(u, NoEpochs, "open")
    /\ UNCHANGED <<now, issued, epochs, cache, asked>>

Next ==
    \/ Tick \/ RevokeAll
    \/ \E u \in Users : Login(u) \/ RevokeUser(u) \/ UseCache(u) \/ Resolve(u)
    \/ \E r \in Requests, u \in Users : Ask(r, u)
    \/ \E r \in Requests : Answer(r) \/ Receive(r) \/ FailOpen(r)

Spec == Init /\ [][Next]_vars

-----------------------------------------------------------------------------
\* The epochs that revoke the token of u.
Revoking(u) == { e \in {all, user[u]} : issued[u] < e }

(* A revocation bites: at the gateway at once, at the dashboard within Ttl *)
(* of it when the cache answers, however late and in whatever order the    *)
(* answers that filled the cache came back (lib/revocation.ts load,        *)
(* resolve_identity).  Only an unanswered question lets a revoked token    *)
(* through for longer.                                                     *)
RevocationBites ==
    /\ verdict.kind = "verified" => Revoking(verdict.who) = {}
    /\ verdict.kind = "checked" /\ CacheFresh => \A e \in Revoking(verdict.who) : now - e < Ttl

(* What the dashboard caches is no older than it says: an epoch set before *)
(* the entry's time is in the entry.                                       *)
CacheHasPast ==
    cache.at >= 0 =>
        /\ all < cache.at => cache.data.all = all
        /\ \A u \in Users : user[u] < cache.at => cache.data.user[u] = user[u]

(* A revocation takes effect in time on both sides, and the dashboard's    *)
(* cache is as old as it says.                                             *)
RevokedInTime == RevocationBites /\ CacheHasPast
=============================================================================
