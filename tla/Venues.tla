------------------------------- MODULE Venues -------------------------------
(***************************************************************************)
(* Orders on their way through the adapter registry to the venues, and     *)
(* what the adapters make of the answers.  The executor sends one order at *)
(* a time.  A venue executes all, some or none of an order, may leave the  *)
(* rest open, and answers in its own way or not at all; the adapter turns  *)
(* the answer into a status, a quantity and perhaps a price, and a filled  *)
(* and priced result moves the position in the books.                      *)
(***************************************************************************)
EXTENDS Integers

CONSTANTS
    Orders,      \* orders the executor sends, in any order
    Units,       \* quantity of each
    Setups       \* sets of venues whose keys or URL may be set

Ccxt    == {"binance", "bybit", "okx", "kraken"}
Venues  == Ccxt \cup {"oanda", "mt5"}
Symbols == {"spot", "perp"}
Sides   == {"buy", "sell"}

VARIABLES
    live, configured,    \* TRADING_MODE; the setup
    order,               \* [venue, symbol, side] of each order
    pc,                  \* new, sent, done
    filling,             \* the MT5 bridge's filling mode being tried
    answer,              \* the venue's answer: [kind, qty]
    executed, open,      \* what the venue has executed of each order, and may still
    report,              \* the OrderResult of each: [status, qty, priced]
    booked               \* units the order has moved its position by

vars == <<live, configured, order, pc, filling, answer, executed, open, report, booked>>

NoReport == [status |-> "none", qty |-> 0, priced |-> FALSE]
NoAnswer == [kind |-> "none", qty |-> 0]

Init ==
    /\ live \in BOOLEAN /\ configured \in Setups
    /\ order \in [Orders -> [venue : Venues, symbol : Symbols, side : Sides]]
    /\ pc = [o \in Orders |-> "new"] /\ filling = [o \in Orders |-> 1]
    /\ answer = [o \in Orders |-> NoAnswer]
    /\ executed = [o \in Orders |-> 0] /\ open = [o \in Orders |-> 0]
    /\ report = [o \in Orders |-> NoReport] /\ booked = [o \in Orders |-> 0]

\* The market an order ends in: Bybit and OKX trade the linear perpetual whatever
\* the symbol; Kraken has no perpetual, the brokers have one market per name.
Instrument(o) ==
    CASE order[o].venue \in {"bybit", "okx"} -> "perp"
      [] order[o].venue = "kraken" /\ order[o].symbol = "perp" -> "none"
      [] order[o].venue \in {"oanda", "mt5"} -> "spot"
      [] OTHER -> order[o].symbol

Idle == \A o \in Orders : pc[o] \in {"new", "done"}

-----------------------------------------------------------------------------
(* AdapterRegistry: paper mode sends every venue to the paper adapter and  *)
(* opens no client but that of the MT5 bridge.                             *)

Clients == IF live THEN configured ELSE configured \cap {"mt5"}

Resolve(o) == IF live THEN order[o].venue ELSE "paper"

IsFill(r) == r.status = "filled" /\ r.qty > 0 /\ r.priced

Signed(o, n) == IF order[o].side = "buy" THEN n ELSE -n

\* The result is recorded and the trade persisted.
Finish(o, r) ==
    /\ pc' = [pc EXCEPT ![o] = "done"]
    /\ report' = [report EXCEPT ![o] = r]
    /\ booked' = [booked EXCEPT ![o] = IF IsFill(r) THEN Signed(o, r.qty) ELSE 0]

Result(status, qty, priced) == [status |-> status, qty |-> qty, priced |-> priced]

\* paper.execute: filled at the tick, or rejected without one.
Paper(o) ==
    /\ Idle /\ pc[o] = "new" /\ Resolve(o) = "paper"
    /\ \E r \in {Result("filled", Units, TRUE), Result("rejected", 0, FALSE), Result("error", 0, FALSE)} :
          Finish(o, r)
    /\ UNCHANGED <<live, configured, order, filling, answer, executed, open>>

\* No client was opened: the adapter raises.
NoClient(o) ==
    /\ Idle /\ pc[o] = "new" /\ Resolve(o) # "paper" /\ Resolve(o) \notin Clients
    /\ Finish(o, Result("error", 0, FALSE))
    /\ UNCHANGED <<live, configured, order, filling, answer, executed, open>>

Submit(o) ==
    /\ Idle /\ pc[o] = "new" /\ Resolve(o) \in Clients
    /\ pc' = [pc EXCEPT ![o] = "sent"]
    /\ UNCHANGED <<live, configured, order, filling, answer, executed, open, report, booked>>

-----------------------------------------------------------------------------
(* The venues.                                                             *)

\* The venue executes n units, leaves rest open and answers, or is not heard.
Answers(o, kind, n, rest) ==
    /\ pc[o] = "sent" /\ answer[o] = NoAnswer
    /\ executed' = [executed EXCEPT ![o] = n]
    /\ open' = [open EXCEPT ![o] = rest]
    /\ answer' = [answer EXCEPT ![o] = [kind |-> kind, qty |-> n]]
    /\ UNCHANGED <<live, configured, order, pc, filling, report, booked>>

\* A market order: filled at once in whole or in part, accepted to be filled
\* later, acknowledged without numbers, or turned down.
CcxtVenue(o) ==
    /\ order[o].venue \in Ccxt
    /\ \/ Instrument(o) # "none" /\ \E n \in 1 .. Units : Answers(o, "fill", n, Units - n)
       \/ Instrument(o) # "none" /\ Answers(o, "accepted", 0, Units)
       \/ Instrument(o) # "none" /\ \E n \in 0 .. Units : Answers(o, "bare", n, Units - n)
       \/ \E kind \in {"funds", "refused"} : Answers(o, kind, 0, 0)

\* Fill or kill: a killed order is answered without a fill.
OandaVenue(o) ==
    /\ order[o].venue = "oanda"
    /\ Answers(o, "fill", Units, 0) \/ Answers(o, "accepted", 0, 0) \/ Answers(o, "refused", 0, 0)

\* _sync_place_order: three filling modes in turn while the broker does not
\* support one, or gives no result; only a complete execution counts.
Mt5Venue(o) ==
    /\ order[o].venue = "mt5" /\ pc[o] = "sent" /\ answer[o] = NoAnswer
    /\ \/ Answers(o, "fill", Units, 0)
       \/ \E n \in 0 .. Units - 1 : Answers(o, "partial", n, IF filling[o] = 2 THEN Units - n ELSE 0)
       \/ Answers(o, "refused", 0, 0) \/ Answers(o, "no tick", 0, 0)
       \/ /\ filling[o] < 3
          /\ filling' = [filling EXCEPT ![o] = @ + 1]
          /\ UNCHANGED <<live, configured, order, pc, answer, executed, open, report, booked>>

\* The request or its answer is lost, or late.
Lost(o) == \E n \in 0 .. Units : Answers(o, "lost", n, Units - n)

\* What was left open is executed in the end, or cancelled.
Later(o) ==
    /\ open[o] > 0
    /\ \E n \in 0 .. open[o] :
          executed' = [executed EXCEPT ![o] = @ + n]
    /\ open' = [open EXCEPT ![o] = 0]
    /\ UNCHANGED <<live, configured, order, pc, filling, answer, report, booked>>

-----------------------------------------------------------------------------
(* The adapters' reading of the answers.                                   *)

\* A variant of ReadBinance that takes the amount of the order for what was filled.
ReadBinanceAmount(a) ==
    CASE a.kind \in {"fill", "accepted"} -> Result("filled", Units, TRUE)
      [] a.kind = "funds" -> Result("rejected", 0, FALSE)
      [] OTHER -> Result("error", 0, FALSE)

\* "filled, or else the amount": an accepted order counts as filled, unpriced;
\* a bare acknowledgement cannot be read and raises.
ReadBinance(a) ==
    CASE a.kind = "fill" -> Result("filled", a.qty, TRUE)
      [] a.kind = "accepted" -> Result("filled", Units, FALSE)
      [] a.kind = "funds" -> Result("rejected", 0, FALSE)
      [] OTHER -> Result("error", 0, FALSE)

\* The other three adapters repeat it, handler by handler.
ReadBybit(a)  == ReadBinance(a)
ReadOkx(a)    == ReadBinance(a)
ReadKraken(a) == ReadBinance(a)

\* A killed order has no fill transaction: its units count as filled, unpriced.
ReadOanda(a) ==
    CASE a.kind = "fill" -> Result("filled", a.qty, TRUE)
      [] a.kind = "accepted" -> Result("filled", Units, FALSE)
      [] a.kind = "refused" -> Result("rejected", 0, FALSE)
      [] OTHER -> Result("error", 0, FALSE)

ReadMt5(a) ==
    CASE a.kind = "fill" -> Result("filled", a.qty, TRUE)
      [] a.kind \in {"partial", "refused"} -> Result("rejected", 0, FALSE)
      [] OTHER -> Result("error", 0, FALSE)

Read(o) ==
    /\ pc[o] = "sent" /\ answer[o] # NoAnswer
    /\ Finish(o, CASE order[o].venue = "binance" -> ReadBinance(answer[o])
                   [] order[o].venue = "bybit" -> ReadBybit(answer[o])
                   [] order[o].venue = "okx" -> ReadOkx(answer[o])
                   [] order[o].venue = "kraken" -> ReadKraken(answer[o])
                   [] order[o].venue = "oanda" -> ReadOanda(answer[o])
                   [] order[o].venue = "mt5" -> ReadMt5(answer[o]))
    /\ UNCHANGED <<live, configured, order, filling, answer, executed, open>>

Next ==
    \E o \in Orders :
        \/ Paper(o) \/ NoClient(o) \/ Submit(o)
        \/ CcxtVenue(o) \/ OandaVenue(o) \/ Mt5Venue(o) \/ Lost(o) \/ Later(o)
        \/ Read(o)

Spec == Init /\ [][Next]_vars

-----------------------------------------------------------------------------
\* Orders whose result does not say what became of them: an error, a "filled"
\* without a price, a part, or a rejection by the bridge, which also stands for
\* an incomplete execution.
Doubtful(o) ==
    /\ pc[o] = "done"
    /\ \/ report[o].status = "error"
       \/ report[o].status = "filled" /\ (~report[o].priced \/ report[o].qty < Units)
       \/ report[o].status = "rejected" /\ order[o].venue = "mt5"

(* Whatever was answered, the venue has executed of an order what the      *)
(* books moved its position by, unless its result is in doubt: a complete  *)
(* fill and a rejection are what they say (the adapters' execute,          *)
(* persist_trade).  So in every market the account holds what the books    *)
(* say, but for the orders in doubt.                                       *)
BooksFollowVenue ==
    live /\ Idle => \A o \in Orders : ~Doubtful(o) => booked[o] = Signed(o, executed[o])

(* "Paper mode opens none" (AdapterRegistry): in paper mode nothing is     *)
(* ever sent to a venue, though the bridge's client is there, and live     *)
(* nothing is filled by the simulation.                                    *)
PaperStaysPaper ==
    \A o \in Orders :
        /\ ~live => executed[o] = 0 /\ answer[o] = NoAnswer
        /\ live /\ booked[o] # 0 => executed[o] # 0 /\ order[o].venue \in configured

(* "Raises MT5OrderError on rejection" (_sync_place_order): an order that  *)
(* is reported as rejected has not been executed.                          *)
RejectedIsUnexecuted == \A o \in Orders : report[o].status = "rejected" => executed[o] = 0

(* Every order is accounted for: at its venue, or in the simulation and    *)
(* nowhere else (AdapterRegistry and the adapters).                        *)
OrdersAccounted == BooksFollowVenue /\ PaperStaysPaper
=============================================================================
