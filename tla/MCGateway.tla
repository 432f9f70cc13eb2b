----------------------------- MODULE MCGateway ------------------------------
(***************************************************************************)
(* The gateway's components and the journal it asks, side by side for TLC: *)
(* they share no state, so the run picks one of them at the start and then *)
(* takes its steps only.  HaltControl is extended, not instantiated, so    *)
(* that TLC evaluates its assumption.                                      *)
(***************************************************************************)
EXTENDS HaltControl

CONSTANTS
    Changes,
    Sets, Deletes, Gets, EnvValue, Nothing,
    Users, Asks, Ttl, SessionTime,
    Arrivals, Limit, RateWindow, RateTime,
    PaperTraders, LiveTraders, Gains, Losses, Costs, DayLength, Days, MinDays, MinTrades, Events, JournalTime, MaxTrades, MaxEvents

\* The instances' constants: calls are told apart by what they are, Nothing is
\* not a row, and limits and times are whole numbers.
ASSUME GatewayAssumption ==
    /\ Sets \cap Deletes = {} /\ Nothing \notin [value : Sets, active : BOOLEAN]
    /\ Ttl \in Int
    /\ IsFiniteSet(PaperTraders \cup LiveTraders) /\ Gains \cup Losses \cup Costs \subseteq Int
    /\ DayLength \in Nat \ {0} /\ {Days, MinDays, MinTrades} \subseteq Nat
    /\ IsFiniteSet(Arrivals) /\ Limit \in Nat /\ RateWindow \in Nat \ {0} /\ RateTime \in Nat

VARIABLES
    part,                                                  \* the component at work
    config, audit, rowLock, changePc, old, version, began, clock,
    row, store, callPc, found, audited, signalled, spoiled,
    time, issued, all, user, epochs, asked, verdict,
    now, count, expiry, callerPc, bucket, admitted,
    day, trades, positions, events, summary

halt        == vars
governance  == <<config, audit, rowLock, changePc, old, version, began, clock>>
credentials == <<row, store, callPc, found, audited, signalled, spoiled>>
sessions    == <<time, issued, all, user, epochs, asked, verdict>>
rateLimit   == <<now, count, expiry, callerPc, bucket, admitted>>
journal     == <<day, trades, positions, events, summary>>
allVars     == <<part, halt, governance, credentials, sessions, rateLimit, journal>>

Gov  == INSTANCE Governance WITH pc <- changePc
Cred == INSTANCE Credentials WITH cache <- store, pc <- callPc, disturbed <- spoiled
Sess == INSTANCE Sessions WITH now <- time, cache <- epochs, Requests <- Asks, MaxTime <- SessionTime
Rate == INSTANCE RateLimit WITH pc <- callerPc, Requests <- Arrivals, Window <- RateWindow, MaxTime <- RateTime
Jour == INSTANCE Journal WITH
            clock <- day, audit <- events, MaxClock <- JournalTime, Realized <- Gains \cup {-x : x \in Losses},
            Accounts <- [strategy : PaperTraders, paper : {TRUE}] \cup [strategy : LiveTraders, paper : {FALSE}]

AllInit ==
    /\ part \in {"halt", "governance", "credentials", "sessions", "rate limit", "journal"}
    /\ Init /\ Gov!Init /\ Cred!Init /\ Sess!Init /\ Rate!Init /\ Jour!Init
    /\ part # "halt" => fresh

AllNext ==
    /\ part' = part
    /\ \/ part = "halt" /\ Next /\ UNCHANGED <<governance, credentials, sessions, rateLimit, journal>>
       \/ part = "governance" /\ Gov!Next /\ UNCHANGED <<halt, credentials, sessions, rateLimit, journal>>
       \/ part = "credentials" /\ Cred!Next /\ UNCHANGED <<halt, governance, sessions, rateLimit, journal>>
       \/ part = "sessions" /\ Sess!Next /\ UNCHANGED <<halt, governance, credentials, rateLimit, journal>>
       \/ part = "rate limit" /\ Rate!Next /\ UNCHANGED <<halt, governance, credentials, sessions, journal>>
       \/ part = "journal" /\ Jour!Next /\ UNCHANGED <<halt, governance, credentials, sessions, rateLimit>>

AllSpec == AllInit /\ [][AllNext]_allVars

\* The gate's events and the summary are independent of each other: they are
\* not explored together.
Apart == ~summary.busy \/ events = <<>>

\* See Governance: the history explains the configuration.
HistoryExplains == part = "governance" => Gov!HistoryExplains

\* See Credentials: undisturbed, the cache tells the truth.
CacheTrueUndisturbed == part = "credentials" => Cred!CacheTrueUndisturbed

\* See Sessions: a revoked session ends in time.
RevokedInTime == part = "sessions" => Sess!RevokedInTime

\* See RateLimit: a bucket admits no more than its limit.
AdmittedPerBucket == part = "rate limit" => Rate!AdmittedPerBucket

\* See Journal: all figures are figures of the same trades.
FiguresAgree == part = "journal" => Jour!FiguresAgree

\* See Journal: two answers differ by what happened between them.
AnswersExplained == Jour!AnswersExplained
=============================================================================
