----------------------------- MODULE RateLimit ------------------------------
(***************************************************************************)
(* The gateway's fixed-window limiter for one client.  A request computes  *)
(* its bucket, increments the bucket's counter and, when it was the first, *)
(* gives the counter an expiry of one window; whatever raises lets the     *)
(* request through.  A request may wait between computing its bucket and   *)
(* either command.                                                         *)
(***************************************************************************)
EXTENDS Integers, FiniteSets

CONSTANTS Requests, Limit, Window, MaxTime

Buckets == 0 .. MaxTime \div Window

VARIABLES
    now,
    count, expiry,    \* of each bucket's key; expiry 0: no expiry set
    pc, bucket,       \* of each request: where it is, and its bucket
    admitted          \* when each request was let through by its count, or -1

vars == <<now, count, expiry, pc, bucket, admitted>>

Init ==
    /\ now = 0
    /\ count = [b \in Buckets |-> 0] /\ expiry = [b \in Buckets |-> 0]
    /\ pc = [r \in Requests |-> "new"]
    /\ bucket = [r \in Requests |-> 0]
    /\ admitted = [r \in Requests |-> -1]

Step(r, from, to) == pc[r] = from /\ pc' = [pc EXCEPT ![r] = to]

\* Time passes; Redis drops the keys that have expired.
Tick ==
    /\ now < MaxTime /\ now' = now + 1
    /\ LET gone(b) == expiry[b] # 0 /\ expiry[b] <= now'
       IN  /\ count' = [b \in Buckets |-> IF gone(b) THEN 0 ELSE count[b]]
           /\ expiry' = [b \in Buckets |-> IF gone(b) THEN 0 ELSE expiry[b]]
    /\ UNCHANGED <<pc, bucket, admitted>>

Arrive(r) ==
    /\ Step(r, "new", "incr")
    /\ bucket' = [bucket EXCEPT ![r] = now \div Window]
    /\ UNCHANGED <<now, count, expiry, admitted>>

Decide(r, n) ==
    /\ pc' = [pc EXCEPT ![r] = IF n > Limit THEN "refused" ELSE "admitted"]
    /\ admitted' = IF n > Limit THEN admitted ELSE [admitted EXCEPT ![r] = now]

Incr(r) ==
    /\ pc[r] = "incr"
    /\ LET n == count[bucket[r]] + 1
       IN  /\ count' = [count EXCEPT ![bucket[r]] = n]
           /\ IF n = 1 THEN pc' = [pc EXCEPT ![r] = "expire"] /\ UNCHANGED admitted
                       ELSE Decide(r, n)
    /\ UNCHANGED <<now, expiry, bucket>>

\* A variant of Expire whose counter ends with its window at the latest.
ExpireEarly(r) ==
    /\ pc[r] = "expire"
    /\ expiry' = [expiry EXCEPT ![bucket[r]] = IF count[bucket[r]] > 0 THEN now + Window - 1 ELSE @]
    /\ Decide(r, 1)
    /\ UNCHANGED <<now, count, bucket>>

Expire(r) ==
    /\ pc[r] = "expire"
    /\ expiry' = [expiry EXCEPT ![bucket[r]] = IF count[bucket[r]] > 0 THEN now + Window ELSE @]
    /\ Decide(r, 1)
    /\ UNCHANGED <<now, count, bucket>>

\* Either command raises, perhaps after its effect: fail open.
FailOpen(r) ==
    /\ \/ pc[r] = "incr" /\ count' \in {count, [count EXCEPT ![bucket[r]] = @ + 1]} /\ UNCHANGED expiry
       \/ pc[r] = "expire" /\ UNCHANGED <<count, expiry>>
    /\ pc' = [pc EXCEPT ![r] = "open"]
    /\ UNCHANGED <<now, bucket, admitted>>

Next == Tick \/ \E r \in Requests : Arrive(r) \/ Incr(r) \/ Expire(r) \/ FailOpen(r)

Spec == Init /\ [][Next]_vars

-----------------------------------------------------------------------------
(* A bucket admits at most Limit requests by their count, wherever its     *)
(* requests stop between the two commands: the counter outlives its        *)
(* window, whether or not the EXPIRE was reached (RateLimitMiddleware).    *)
(* A request that waits for more than a window before its INCR may find    *)
(* the counter expired.                                                    *)
AdmittedPerBucket ==
    \A b \in Buckets :
        Cardinality({ r \in Requests : pc[r] = "admitted" /\ bucket[r] = b
                                        /\ admitted[r] \div Window = b }) <= Limit
=============================================================================
