------------------------------- MODULE Sizing -------------------------------
(***************************************************************************)
(* size_position (risk/commander.py): how many lots a trade may have.      *)
(* Volumes count the finest unit a broker quotes, money the smallest coin, *)
(* fractions of equity are in ten-thousandths; all are integers, so that   *)
(* the code's division and rounding down of floats is exact here.          *)
(***************************************************************************)
EXTENDS Integers

CONSTANTS
    RiskPerTrade,    \* risk_per_trade, in ten-thousandths of equity
    MaxRiskPerTrade, \* max_risk_per_trade
    MinMarginLevel   \* min_margin_level_pct

\* RiskConfig's fields and its validator.
ASSUME RiskConfig ==
    /\ RiskPerTrade \in Nat \ {0} /\ MaxRiskPerTrade \in Nat
    /\ RiskPerTrade <= MaxRiskPerTrade /\ MaxRiskPerTrade <= 200
    /\ MinMarginLevel \in Nat /\ MinMarginLevel > 100

NoQuote == -1 \* order_calc_profit or order_calc_margin gave None
Whole   == 10000

\* What is asked: a symbol's specification, the distance of the stop in ticks
\* and the broker's answers for one unit of volume.
Requests == [step : Nat \ {0}, min : Nat \ {0}, max : Nat \ {0}, tickLoss : Nat, ticks : Nat,
             profit : Nat \cup {NoQuote}, margin : Nat \cup {NoQuote}]

FloorToStep(volume, step) == (volume \div step) * step

LossPerUnit(r) == r.ticks * r.tickLoss

\* The largest volume whose loss at the stop is at most that share of equity.
Affordable(r, equity, share) ==
    FloorToStep((equity * share) \div (Whole * LossPerUnit(r)), r.step)

TooRisky(r, volume, equity) == volume * LossPerUnit(r) * Whole > equity * MaxRiskPerTrade

Wanted(r, equity, canary) ==
    LET lots == IF canary THEN r.min ELSE Affordable(r, equity, RiskPerTrade)
    IN  IF lots > r.max THEN r.max ELSE lots

\* Capped by max_risk_per_trade, rounding down.
Lots(r, equity, canary) ==
    LET lots == Wanted(r, equity, canary)
    IN  IF TooRisky(r, lots, equity) THEN Affordable(r, equity, MaxRiskPerTrade) ELSE lots

HasStop(r, equity) == equity > 0 /\ r.ticks > 0 /\ LossPerUnit(r) > 0

\* A canary trades the minimal lot, if that risks at most 1.5 times the target.
MinimumFits(r, equity, canary) ==
    IF canary
    THEN 2 * r.min * LossPerUnit(r) * Whole <= 3 * equity * RiskPerTrade
    ELSE Affordable(r, equity, RiskPerTrade) >= r.min

CapFits(r, equity, canary) ==
    TooRisky(r, Wanted(r, equity, canary), equity) => Lots(r, equity, canary) >= r.min

\* Tick arithmetic and the broker's own figure agree to 2%.
MethodsAgree(r, lots) ==
    LET tick == lots * LossPerUnit(r)
        broker == lots * r.profit
        gap == IF broker > tick THEN broker - tick ELSE tick - broker
    IN  r.profit # NoQuote /\ broker > 0 /\ 50 * gap <= broker

MarginHolds(r, lots, equity, used) ==
    /\ r.margin # NoQuote
    /\ LET projected == used + lots * r.margin
       IN  projected > 0 => equity * 100 >= MinMarginLevel * projected

Accepted(r, equity, canary, used) ==
    /\ HasStop(r, equity)
    /\ MinimumFits(r, equity, canary)
    /\ CapFits(r, equity, canary)
    /\ MethodsAgree(r, Lots(r, equity, canary))
    /\ MarginHolds(r, Lots(r, equity, canary), equity, used)

\* SizingResult; the wording of a refusal is left out.
size_position(r, equity, canary, used) ==
    IF Accepted(r, equity, canary, used)
    THEN [ok |-> TRUE, lots |-> Lots(r, equity, canary), canary |-> canary,
          risk |-> Lots(r, equity, canary) * LossPerUnit(r)]
    ELSE [ok |-> FALSE, lots |-> 0, canary |-> canary, risk |-> 0]

-----------------------------------------------------------------------------
(* What an accepted size promises, whichever branch it came from: a volume   *)
(* the broker takes, and a loss at the stop within max_risk_per_trade.       *)
SizeIsSound(r, equity, size) ==
    size.ok =>
        /\ size.lots <= r.max
        /\ r.min <= r.max => size.lots >= r.min
        /\ size.risk * Whole <= equity * MaxRiskPerTrade
=============================================================================
