--------------------------------- MODULE Bars ---------------------------------
(***************************************************************************)
(* From ticks to stored candles: a watcher stamps and publishes the ticks  *)
(* of one symbol, of which Redis keeps the newest; the bar writer groups   *)
(* what it reads into buckets and upserts those that have elapsed; an      *)
(* operator's backfill upserts the exchange's own candles page by page.    *)
(* Whoever writes a bucket last has it.                                    *)
(*                                                                         *)
(* A bar stands for the ticks it was made of: its open is the price of the *)
(* first, its close that of the last, its volume their number.  A candle   *)
(* of the exchange is whole when its bucket has elapsed.                   *)
(***************************************************************************)
EXTENDS Integers, Sequences, FiniteSets, FiniteSetsExt

CONSTANTS
    BarSeconds, CacheMax,      \* BAR_WRITER_BAR_SECONDS, TICK_CACHE_MAX_SIZE
    FetchLimit, Days,          \* _FETCH_LIMIT; buckets a backfill goes back
    MaxTime, MaxTicks, MaxFills, MaxErrors   \* bounds on time, ticks, backfills, failing upserts

VARIABLES
    now,
    stamped,                   \* time of the tick about to be published
    ticks,                     \* ticks published so far: [at, published]
    stored,                    \* ohlcv_bars
    held,                      \* what the writer is about to upsert
    fill,                      \* the backfill: [pc, since, until, cursor, rows, broken]
    fills, errors

vars == <<now, stamped, ticks, stored, held, fill, fills, errors>>

Buckets == 0 .. MaxTime \div BarSeconds
Bucket(t) == t \div BarSeconds
NoBar == [source |-> "none", from |-> 0, to |-> 0]
Idle  == [pc |-> "idle", since |-> 0, until |-> 0, cursor |-> 0, rows |-> {}, broken |-> FALSE]

Init ==
    /\ now = 0 /\ stamped = -1 /\ ticks = <<>>
    /\ stored = [b \in Buckets |-> NoBar]
    /\ held = {} /\ fill = Idle /\ fills = 0 /\ errors = 0

Time ==
    /\ now < MaxTime /\ now' = now + 1
    /\ UNCHANGED <<stamped, ticks, stored, held, fill, fills, errors>>

\* The watcher: the time is taken first, the pipeline runs then.
Stamp ==
    /\ stamped = -1 /\ Len(ticks) < MaxTicks /\ stamped' = now
    /\ UNCHANGED <<now, ticks, stored, held, fill, fills, errors>>

Publish ==
    /\ stamped # -1 /\ stamped' = -1
    /\ ticks' = Append(ticks, [at |-> stamped, published |-> now])
    /\ UNCHANGED <<now, stored, held, fill, fills, errors>>

-----------------------------------------------------------------------------
(* The bar writer.                                                         *)

Cached == { i \in DOMAIN ticks : i > Len(ticks) - CacheMax }

InBucket(b, known) == { i \in known : Bucket(ticks[i].at) = b }

\* ticks_to_ohlcv
Resample ==
    { [bucket |-> b, bar |-> [source |-> "live_ticks", from |-> Min(InBucket(b, Cached)), to |-> Max(InBucket(b, Cached))]] :
          b \in { c \in Buckets : InBucket(c, Cached) # {} } }

Completed == { r \in Resample : (r.bucket + 1) * BarSeconds <= now }

\* _flush_once reads the clock and the cache, ...
ReadTicks ==
    /\ held = {} /\ Completed # {} /\ held' = Completed
    /\ UNCHANGED <<now, stamped, ticks, stored, fill, fills, errors>>

BarOf(rows, b) == (CHOOSE r \in rows : r.bucket = b).bar

\* upsert_bars: all rows, or none and the error is swallowed.
Upserted(rows) == [b \in Buckets |-> IF \E r \in rows : r.bucket = b THEN BarOf(rows, b) ELSE stored[b]]

\* ... and upserts what is complete.
WriteBars ==
    /\ held # {} /\ held' = {}
    /\ \/ stored' = Upserted(held) /\ UNCHANGED errors
       \/ errors < MaxErrors /\ errors' = errors + 1 /\ UNCHANGED stored
    /\ UNCHANGED <<now, stamped, ticks, fill, fills>>

-----------------------------------------------------------------------------
(* backfill_symbol.                                                        *)

Known == { b \in Buckets : stored[b] # NoBar }

\* Days back, or from behind the newest bucket there is.
BeginFill(incremental) ==
    /\ fill.pc = "idle" /\ fills < MaxFills /\ fills' = fills + 1
    /\ LET back  == Max({0, Bucket(now) - Days})
           since == IF incremental /\ Known # {} THEN Max({back, Max(Known) + 1}) ELSE back
       IN  fill' = [Idle EXCEPT !.pc = "fetch", !.since = since, !.until = Bucket(now), !.cursor = since]
    /\ UNCHANGED <<now, stamped, ticks, stored, held, errors>>

\* The candles from the cursor on, the forming one among them.
Page ==
    { [bucket |-> b, bar |-> [source |-> IF (b + 1) * BarSeconds <= now THEN "exchange_rest" ELSE "exchange_rest, forming",
                              from |-> 0, to |-> 0]] :
          b \in { c \in Buckets : fill.cursor <= c /\ c <= Bucket(now) /\ c < fill.cursor + FetchLimit } }

FetchPage ==
    /\ fill.pc = "fetch"
    /\ fill' = IF fill.cursor > fill.until \/ Page = {} THEN [fill EXCEPT !.pc = "done"]
               ELSE [fill EXCEPT !.pc = "upsert", !.rows = Page]
    /\ UNCHANGED <<now, stamped, ticks, stored, held, fills, errors>>

\* A variant of NextCursor that skips a candle.
NextCursorSkips(rows) == Max({ r.bucket : r \in rows }) + 2

NextCursor(rows) == Max({ r.bucket : r \in rows }) + 1

\* The cursor moves on whether or not the page could be stored.
UpsertPage ==
    /\ fill.pc = "upsert"
    /\ \/ stored' = Upserted(fill.rows) /\ UNCHANGED errors
          /\ fill' = [fill EXCEPT !.pc = IF Cardinality(fill.rows) < FetchLimit THEN "done" ELSE "fetch",
                                  !.cursor = NextCursor(fill.rows), !.rows = {}]
       \/ errors < MaxErrors /\ errors' = errors + 1 /\ UNCHANGED stored
          /\ fill' = [fill EXCEPT !.pc = IF Cardinality(fill.rows) < FetchLimit THEN "done" ELSE "fetch",
                                  !.cursor = NextCursor(fill.rows), !.rows = {}, !.broken = TRUE]
    /\ UNCHANGED <<now, stamped, ticks, held, fills>>

FillDone ==
    /\ fill.pc = "done" /\ fill' = Idle
    /\ UNCHANGED <<now, stamped, ticks, stored, held, fills, errors>>

Next ==
    \/ Time \/ Stamp \/ Publish \/ ReadTicks \/ WriteBars
    \/ (\E incremental \in BOOLEAN : BeginFill(incremental)) \/ FetchPage \/ UpsertPage \/ FillDone

Spec == Init /\ [][Next]_vars

-----------------------------------------------------------------------------
(* "A bar is never persisted half-built" (bar_writer.py): a stored live    *)
(* bar has consecutive ticks of its own bucket; what it lacks at the end   *)
(* was published after the bucket had elapsed, and what it lacks at the    *)
(* beginning had been pushed out of the cache.                             *)
LiveBarsWhole ==
    \A b \in Buckets : stored[b].source = "live_ticks" =>
        LET all == InBucket(b, DOMAIN ticks)
        IN  /\ stored[b].from .. stored[b].to \subseteq all
            /\ \A i \in all : i > stored[b].to => ticks[i].published >= (b + 1) * BarSeconds
            /\ \A i \in all : i < stored[b].from => Len(ticks) >= i + CacheMax

(* A backfill leaves no hole behind its cursor: every candle from its      *)
(* first to there is stored, unless a page of it could not be              *)
(* (backfill_symbol's cursor).                                             *)
BackfillUnbroken ==
    fill.pc # "idle" /\ ~fill.broken => fill.since .. fill.cursor - 1 \subseteq Known

(* "Re-persisting an already complete bucket on a later cycle is           *)
(* idempotent (... the same ticks resample to the same bar)"               *)
(* (bar_writer.py): the writer does not take ticks away from a bar.        *)
RewriteIsIdempotent ==
    [][\A b \in Buckets :
          stored[b].source = "live_ticks" /\ stored'[b].source = "live_ticks" => stored'[b].from <= stored[b].from]_vars

(* "Resumes from the newest stored bucket so re-runs only fetch the gap"   *)
(* (backfill.py): when an incremental backfill is done and no page of it   *)
(* was lost, there is no hole before the newest bar.                       *)
ResumeFillsGap ==
    fill.pc = "done" /\ ~fill.broken /\ Known # {} =>
        \A b \in Max({0, fill.until - Days}) .. Max(Known) : b \in Known

(* No candle is stored with less than there was: neither the live          *)
(* writer's nor the backfill's (bar_writer.py, backfill.py).               *)
BarsWhole == LiveBarsWhole /\ BackfillUnbroken
=============================================================================
