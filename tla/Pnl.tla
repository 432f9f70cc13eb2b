--------------------------------- MODULE Pnl ---------------------------------
(***************************************************************************)
(* apply_fill: the average-cost accounting of one position, fill by fill.  *)
(* Money is in whole units, and a division leaves its remainder out; cash, *)
(* fees paid, the prices of the open position and what rounding its        *)
(* average has left out are history.                                       *)
(***************************************************************************)
EXTENDS Integers

CONSTANTS
    Quantities, Prices, Fees,   \* of the fills; zero stands for "unusable"
    MaxFills

VARIABLES
    net, avg, openFees,   \* PositionState
    realized,             \* sum of realized_pnl
    cash,                 \* what the account has received and paid, fees included
    paid,                 \* fees paid
    low, high,            \* lowest and highest price that went into the open position
    lost,                 \* remainders of the averages, as the account would have got them
    fills                 \* fills so far

vars == <<net, avg, openFees, realized, cash, paid, low, high, lost, fills>>

Init ==
    /\ net = 0 /\ avg = 0 /\ openFees = 0 /\ realized = 0
    /\ cash = 0 /\ paid = 0 /\ low = 0 /\ high = 0 /\ lost = 0 /\ fills = 0

Abs(x)    == IF x < 0 THEN -x ELSE x
Least(a, b) == IF a < b THEN a ELSE b
Sign(x)   == IF x > 0 THEN 1 ELSE IF x < 0 THEN -1 ELSE 0
Direction(side) == IF side = "buy" THEN 1 ELSE -1

Pays(side, a, p, f) ==
    /\ fills < MaxFills /\ fills' = fills + 1
    /\ cash' = cash - Direction(side) * a * p - f
    /\ paid' = paid + f

\* No quantity or no price: nothing changes.
Ignore(a, p) ==
    /\ a = 0 \/ p = 0
    /\ UNCHANGED vars

\* The first fill, or one more in the same direction.
Add(side, a, p, f) ==
    /\ a > 0 /\ p > 0 /\ Sign(net) \in {0, Direction(side)}
    /\ net' = net + Direction(side) * a
    /\ avg' = (avg * Abs(net) + p * a) \div (Abs(net) + a)
    /\ lost' = lost - Direction(side) * ((avg * Abs(net) + p * a) % (Abs(net) + a))
    /\ openFees' = openFees + f
    /\ low' = IF net = 0 THEN p ELSE Least(low, p)
    /\ high' = IF net = 0 THEN p ELSE -Least(-high, -p)
    /\ UNCHANGED realized /\ Pays(side, a, p, f)

\* What a closing fill leaves: a position the other way, none, or a part.
Remainder(a, p, newFees, entryFee) ==
    CASE a > Abs(net) -> avg' = p /\ openFees' = newFees /\ low' = p /\ high' = p
      [] a = Abs(net) -> avg' = 0 /\ openFees' = 0 /\ low' = 0 /\ high' = 0
      [] a < Abs(net) -> openFees' = openFees - entryFee /\ UNCHANGED <<avg, low, high>>

\* A variant of CloseFee that leaves the closing part to the entry's fees.
CloseFeeForgotten(a, f) == 0

\* The share of a fill's fee that falls on what it closes.
CloseFee(a, f) == (f * Least(a, Abs(net))) \div a

\* The opposite direction: close what is open, open the rest the other way.
Oppose(side, a, p, f) ==
    LET closed   == Least(a, Abs(net))
        entryFee == (openFees * closed) \div Abs(net)
    IN  /\ a > 0 /\ p > 0 /\ Sign(net) = -Direction(side)
        /\ realized' = realized + Sign(net) * (p - avg) * closed - CloseFee(a, f) - entryFee
        /\ net' = net + Direction(side) * a
        /\ Remainder(a, p, f - CloseFee(a, f), entryFee)
        /\ UNCHANGED lost
        /\ Pays(side, a, p, f)

Next ==
    \E side \in {"buy", "sell"}, a \in Quantities, p \in Prices, f \in Fees :
        Ignore(a, p) \/ Add(side, a, p, f) \/ Oppose(side, a, p, f)

Spec == Init /\ [][Next]_vars

-----------------------------------------------------------------------------
(* "Summing realized_pnl across all fills of a fully-closed round trip     *)
(* equals its true net cash P&L" (pnl.py), and in between cash explains    *)
(* the books: the cash is what was realised, less what the open position   *)
(* cost, the fees it carries and what rounding its average has left out;   *)
(* flips and partial closes neither lose a fee nor count one twice.        *)
CashExplained == cash = realized - net * avg - openFees + lost

(* The average price lies between the prices that built the open position, *)
(* the carried fees are no more than was paid, and a flat position has     *)
(* neither: nothing of a closed position leaks into the next one.          *)
AverageOfItsFills ==
    /\ low <= avg /\ avg <= high
    /\ 0 <= openFees /\ openFees <= paid
    /\ net = 0 => avg = 0 /\ openFees = 0 /\ cash = realized + lost

(* The accounts of a position add up (apply_fill).                         *)
AccountsAddUp == CashExplained /\ AverageOfItsFills
=============================================================================
