------------------------------- MODULE MCRisk -------------------------------
(***************************************************************************)
(* Small caps, so that they are reached.  A behaviour follows one of the   *)
(* bounds at the end: caps, kills, losses, halts, the ceremonies ...       *)
(***************************************************************************)
EXTENDS RiskDesk

CONSTANTS s1, s2, a1, p1

Symmetry == Permutations(Slots)

MCWeight == [y \in Symbols |-> [z \in Symbols |-> IF y = z THEN 100 ELSE 60]]

MCLimits ==
    [hour |-> 1, rateDay |-> 3, day |-> 1, week |-> 2, minute |-> 1,
     hardHalt |-> 2000, weeklyHalt |-> 1500, dailyHalt |-> 1000,
     maxPositions |-> 2, maxPerSymbol |-> 1, maxOpenRisk |-> 100, maxWeightedRisk |-> 100,
     hourCap |-> 1, symbolHourCap |-> 1, dayCap |-> 3,
     lossWindow |-> 2, lossLimit |-> 2, pause |-> 2,
     streakLimit |-> 2, cooldown |-> 3, antiChurn |-> 3,
     fuseCap |-> 2, slipWindow |-> 2, slipBound |-> 4,
     verdictAge |-> 1, accountTtl |-> 1]

\* A lot of one unit loses 20 at the stop; the second broker disagrees with it.
MCQuotes ==
    {[step |-> 2, min |-> 1, max |-> 4, tickLoss |-> 2, ticks |-> 10, profit |-> p, margin |-> 1] :
       p \in {20, 25}}

Small == [time |-> 0, busy |-> 2, fills |-> 1, sends |-> 1, crashes |-> 0, equity |-> {10000}, slips |-> {0},
          results |-> {}, modes |-> {"DEMO"}, denials |-> FALSE, arming |-> FALSE, watch |-> {},
          symbols |-> {"EURUSD"}]

CapsBound    == [Small EXCEPT !.time = 1, !.fills = 3, !.results = {"win"}]
KillBound    == [Small EXCEPT !.fills = 3, !.crashes = 1, !.results = {"win"}]
PairBound    == [Small EXCEPT !.fills = 3, !.results = {"win"}, !.symbols = Symbols,
                              !.watch = {"HOURLY_CAP", "MAX_POSITIONS"}]
LiveBound    == [Small EXCEPT !.fills = 2, !.modes = {"SHADOW", "LIVE_CANARY", "LIVE"}, !.crashes = 1]
LossBound    == [Small EXCEPT !.busy = 1, !.time = 2, !.fills = 2, !.crashes = 1, !.results = {"stop"},
                              !.watch = {"LOSS_VELOCITY_HALT", "MICRO_COOLDOWN", "ANTI_CHURN"}]
SlipBound    == [Small EXCEPT !.time = 2, !.fills = 2, !.slips = {0, 9},
                              !.watch = {"SLIPPAGE_BREAKER", "HOURLY_CAP"}]
SendBound    == [Small EXCEPT !.time = 2, !.sends = 2, !.watch = {"ORDER_STORM", "MAX_POSITIONS"}]
HaltBound    == [Small EXCEPT !.busy = 1, !.time = 2, !.equity = {10000, 8400}, !.crashes = 1,
                              !.watch = {"HARD_DRAWDOWN", "WEEKLY_LOSS_HALT", "DAILY_LOSS_HALT"}]
CanaryBound  == [Small EXCEPT !.fills = 3, !.modes = {"LIVE_CANARY"}, !.crashes = 1]
ArmingBound  == [Small EXCEPT !.fills = 2, !.modes = {"LIVE_CANARY"}, !.arming = TRUE]
AccountBound == [Small EXCEPT !.time = 2, !.denials = TRUE, !.watch = {"TRADE_NOT_ALLOWED"}]

MCBounds == {CapsBound, KillBound, PairBound, LossBound, SlipBound, SendBound, HaltBound, CanaryBound,
             ArmingBound, LiveBound, AccountBound}
=============================================================================
