------------------------------- MODULE Sizing -------------------------------
(***************************************************************************)
(* From a strategy's record to the orders of one opportunity: the Kelly    *)
(* fraction, the notional of a leg, the volatility multiplier, the         *)
(* quantity for the venue and, behind the MT5 bridge, the lots, then the   *)
(* fill as it is booked.  Money is in cents, fractions in basis points,    *)
(* multipliers in percent, quantities in parts of Precision, lots in       *)
(* volume steps.                                                           *)
(***************************************************************************)
EXTENDS Integers, Sequences, FiniteSets

CONSTANTS
    Fixed,                    \* settings.position_usd
    Equities,                 \* ACCOUNT_EQUITY_USD; 0 is "unknown"
    WinRates, Amounts,        \* percent; average win and loss, Missing when unset
    Missing,
    MaxPct,                   \* KELLY_MAX_POSITION_PCT
    Multipliers,              \* what _relative_sizing_multiplier may return
    VolMin, VolMax,
    Venues, Prices,
    Precision,
    Contract, MinLot, MaxLot, LotsPerUnit   \* contract size; the bridge's limits in volume steps

VARIABLES
    settings,    \* [kelly, vol, equity, paper]
    record,      \* [rate, win, loss]: the strategy's keys in Redis
    venue, price,
    fraction, notional,     \* Unset until computed
    legs         \* the legs placed: [intended, quantity, lots, worth, booked]

vars == <<settings, record, venue, price, fraction, notional, legs>>

Unset == -1

Init ==
    /\ settings \in [kelly : BOOLEAN, vol : BOOLEAN, equity : Equities, paper : BOOLEAN]
    /\ record \in [rate : WinRates, win : Amounts, loss : Amounts]
    /\ venue \in Venues /\ price \in Prices
    /\ fraction = Unset /\ notional = Unset /\ legs = <<>>

Least(a, b) == IF a < b THEN a ELSE b
Most(a, b)  == IF a > b THEN a ELSE b
Round(n, d) == (2 * n + d) \div (2 * d)

-----------------------------------------------------------------------------
(* kelly.py.                                                               *)

KellyMin == 50
KellyMax == 2500
Fallback == 100

Known == record.rate # Missing /\ record.win # Missing /\ record.loss # Missing

\* Half of win rate - loss rate / (average win / average loss).
HalfKelly ==
    (50 * (record.rate * record.win - (100 - record.rate) * record.loss)) \div record.win

\* compute_kelly_fraction
Fraction ==
    IF record.rate \notin 1 .. 99 \/ record.win <= 0 \/ record.loss <= 0 \/ HalfKelly <= 0 THEN 0
    ELSE Least(Most(HalfKelly, KellyMin), KellyMax)

\* get_strategy_kelly_fraction: no record and no edge both get the fallback.
KellyFraction ==
    /\ fraction = Unset /\ settings.kelly /\ settings.equity > 0
    /\ \/ fraction' = IF Known /\ Fraction > 0 THEN Fraction ELSE Fallback
       \/ fraction' = Fallback      \* a read fails
    /\ UNCHANGED <<settings, record, venue, price, notional, legs>>

\* A variant of KellyPosition that trusts the fraction.
KellyPositionUncapped(f) ==
    LET size == ((settings.equity \div 100) * f) \div 100
    IN  IF size >= 1000 THEN size ELSE 0

\* kelly_position_usd; ten dollars are the least worth a trade.
KellyPosition(f) ==
    LET size == Least(((settings.equity \div 100) * f) \div 100, (settings.equity * MaxPct) \div 100)
    IN  IF size >= 1000 THEN size ELSE 0

\* _resolve_position_usd
PositionUsd ==
    /\ notional = Unset
    /\ \/ /\ ~(settings.kelly /\ settings.equity > 0)
          /\ notional' = Fixed
       \/ /\ fraction # Unset
          /\ notional' = IF KellyPosition(fraction) > 0 THEN KellyPosition(fraction) ELSE Fixed
    /\ UNCHANGED <<settings, record, venue, price, fraction, legs>>

-----------------------------------------------------------------------------
(* vol_sizing, _calc_quantity and the venue's own rounding.                *)

\* Whole units at Oanda, at least one; fractions elsewhere; dollars for MT5.
Quantity(usd) ==
    CASE venue = "oanda" -> Precision * Most(1, Round(usd, price))
      [] venue = "mt5" -> usd
      [] OTHER -> Round(usd * Precision, price)

\* _sync_calculate_lots
Lots(usd) == Most(MinLot, Least(MaxLot, Round(usd * LotsPerUnit, price * Contract)))

\* The paper adapter fills every venue from the ticks, which no feed writes for
\* MT5; live, the bridge answers in lots.
Fill(usd) ==
    LET q == Quantity(usd)
        direct == [intended |-> usd, lots |-> 0, worth |-> (q * price) \div Precision,
                   booked |-> (q * price) \div Precision]
        bridged == [intended |-> usd, lots |-> Lots(q),
                    worth |-> (Lots(q) * Contract * price) \div LotsPerUnit,
                    booked |-> (Lots(q) * price) \div LotsPerUnit]
        nothing == [intended |-> usd, lots |-> 0, worth |-> 0, booked |-> 0]
    IN  IF venue # "mt5" THEN direct ELSE IF settings.paper THEN nothing ELSE bridged

\* One leg of the plan; each leg is given the multiplier of its own symbol.
Leg ==
    /\ notional # Unset /\ Len(legs) < 2
    /\ \E m \in IF settings.vol THEN Multipliers ELSE {100} :
          legs' = Append(legs, Fill((notional * m) \div 100))
    /\ UNCHANGED <<settings, record, venue, price, fraction, notional>>

Next == KellyFraction \/ PositionUsd \/ Leg

Spec == Init /\ [][Next]_vars

-----------------------------------------------------------------------------
Budget == Most(Fixed, (settings.equity * MaxPct) \div 100)

\* What a venue's smallest order or step may add.
Grain ==
    CASE venue = "oanda" -> price
      [] venue = "mt5" -> (MinLot * Contract * price) \div LotsPerUnit + (Contract * price) \div (2 * LotsPerUnit)
      [] OTHER -> price \div (2 * Precision)

(* No chain of clamps, fallbacks and roundings spends more than the larger *)
(* of the fixed size and the configured share of the equity, times the     *)
(* volatility cap, and one smallest order of the venue; the two legs of a  *)
(* spread differ by no more than the range of the multiplier               *)
(* (_resolve_position_usd, vol_sizing.multiplier, _calc_quantity,          *)
(* _sync_calculate_lots).                                                  *)
SpentAsBudgeted ==
    \A i \in DOMAIN legs :
        /\ legs[i].worth <= (Budget * VolMax) \div 100 + Grain
        /\ \A j \in DOMAIN legs : legs[i].intended * VolMin <= legs[j].intended * VolMax + VolMax

(* "If Kelly yields 0 (no edge yet, or below the minimum position floor)   *)
(* fall back to the fixed size" (_resolve_position_usd).                   *)
NoEdgeFixedSize ==
    notional # Unset /\ settings.kelly /\ settings.equity > 0 /\ Known /\ Fraction = 0 => notional = Fixed

(* "Current OPEN notional exposure from the positions table"               *)
(* (get_open_exposure): what a fill adds to the books is what was spent.   *)
BookedIsSpent == \A i \in DOMAIN legs : legs[i].booked = legs[i].worth
=============================================================================
