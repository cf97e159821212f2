-------------------------------- MODULE Desk --------------------------------
(***************************************************************************)
(* A scan of the desk (runtime.py: _scan_loop, Desk.stop) and a backtest   *)
(* of what it recorded (backtest_cli, run_strategy_over_ticks).  In a      *)
(* simulation the main thread delivers every tick itself; at a terminal a  *)
(* pump thread does, while the main thread waits for its deadline, sums up *)
(* and stops.  One symbol; a strategy's signals are any of a small set.    *)
(***************************************************************************)
EXTENDS Council, Backtest

CONSTANTS
    Strategies,          \* the enabled ones, a sequence
    Cooldown,            \* cooldown_s of each
    MinWindow,           \* 70 ticks; more than 200 are dropped, which no bound reaches
    Pair,                \* symbol_currencies of the symbol
    Calendar,            \* NewsCalendar, as imported
    Start,               \* the time of the week of the first tick, in minutes
    Signals,             \* signals a strategy may give
    Window, Stride,      \* run_strategy_over_ticks: window, step
    MinRecorded,         \* 500 recorded ticks
    Latencies,
    Bounds               \* by name: ticks, quotes, ideas (lists of signals), faults, sims, scans, tests

ASSUME DeskConfig ==
    /\ Signals \subseteq Signal /\ Latencies \subseteq Nat /\ Pair \subseteq STRING
    /\ Strategies \in Seq(STRING)
    /\ Window \in Nat \ {0} /\ Stride \in Nat \ {0}
    /\ \A b \in DOMAIN Bounds :
          /\ Bounds[b].quotes \subseteq Tick /\ Bounds[b].ideas \subseteq Seq(Signals)
          /\ Bounds[b].sims \subseteq BOOLEAN /\ Bounds[b].scans \in BOOLEAN

VARIABLES
    isSim,
    ticks,    \* delivered and recorded, in order
    window,   \* how many of them are in the strategies' window
    spreads,  \* SpreadHistory
    cooling,  \* cooldown_until
    counts,   \* signals_seen and decisions
    pump,     \* where on_tick is
    main,     \* where _scan_loop and Desk.stop are
    summary,  \* what the main thread has read of counts
    rows,     \* the ledger's rows of this scan
    lost,     \* appends that raised
    test,     \* the backtest
    bound

scanVars == <<isSim, ticks, window, spreads, cooling, counts, pump, main, summary, rows, lost>>
vars     == <<scanVars, test, bound>>

\* What this behaviour may do.
May == Bounds[bound]

Waiting == [pc |-> "idle"]
Now     == ticks[Len(ticks)].msc
TimeOf(t) == Start + t.msc

-----------------------------------------------------------------------------
(* on_tick *)

\* A simulation delivers while it scans.  The pump looks at the gateway's stop
\* before it asks for a tick: one it asked for is handled after all.
Delivers == IF isSim THEN main = "scanning" ELSE main # "killed"

\* The pump does not deliver the same tick twice.
New(t) == IF ticks = <<>> THEN TRUE
          ELSE t.msc >= Now /\ (isSim \/ t # ticks[Len(ticks)])

\* TickRecorder.on_tick: the line goes to a buffer, and to the day's file in time.
on_tick(t) == Append(ticks, t)

\* The tick is recorded; a simulation records its spread first.  Without the
\* symbol's specification that is all, and with a thin window nearly all.
Deliver(t) ==
    /\ pump.pc = "idle" /\ Delivers /\ New(t) /\ Len(ticks) < May.ticks
    /\ ticks' = on_tick(t)
    /\ spreads' = IF isSim THEN Append(spreads, [at |-> TimeOf(t), spread |-> 10 * (t.ask - t.bid)])
                           ELSE spreads
    /\ window' \in {window, window + 1}
    /\ pump' = IF window' > window /\ window' >= MinWindow
               THEN [pc |-> "strategies", left |-> Strategies] ELSE Waiting
    /\ UNCHANGED <<isSim, cooling, counts, main, summary, rows, lost, test, bound>>

\* The next strategy, unless it cools down, gives its signals.
Ready(s) == cooling[s] <= Now
RunStrategy ==
    /\ pump.pc = "strategies"
    /\ IF pump.left = <<>> THEN pump' = Waiting
       ELSE \E sigs \in IF Ready(Head(pump.left)) THEN May.ideas ELSE {<<>>} :
              pump' = IF sigs = <<>> THEN [pump EXCEPT !.left = Tail(@)]
                      ELSE [pc |-> "seen", left |-> pump.left, sigs |-> sigs]
    /\ UNCHANGED <<isSim, ticks, window, spreads, cooling, counts, main, summary, rows, lost, test, bound>>

SeeSignal ==
    /\ pump.pc = "seen"
    /\ counts' = [counts EXCEPT !.signals = @ + 1]
    /\ cooling' = [cooling EXCEPT ![Head(pump.left)] = Now + Cooldown]
    /\ pump' = [pump EXCEPT !.pc = "signal"]
    /\ UNCHANGED <<isSim, ticks, window, spreads, main, summary, rows, lost, test, bound>>

\* A signal and its decision share the signal's id.
AppendSignal ==
    /\ pump.pc = "signal" /\ main # "closed"
    /\ rows' = Append(rows, [kind |-> "signal", id |-> counts.signals])
    /\ pump' = [pump EXCEPT !.pc = "decide"]
    /\ UNCHANGED <<isSim, ticks, window, spreads, cooling, counts, main, summary, lost, test, bound>>

Idea(sig, t) == [sl |-> 10 * sig.sl, tp |-> 10 * sig.tp, spread |-> 10 * (t.ask - t.bid), symbol |-> Pair]
MaxAge(sig)  == IF sig.type = "" THEN 2000 ELSE 30000

\* council.decide, which reads the spreads, and the count of decisions.
Decide ==
    LET t == ticks[Len(ticks)]
        sig == Head(pump.sigs) IN
    /\ pump.pc = "decide"
    /\ counts' = [counts EXCEPT !.decisions = @ + 1]
    /\ pump' = [pc |-> "decision", left |-> pump.left, sigs |-> pump.sigs,
                verdict |-> decide(Idea(sig, t), ScanInputs(MaxAge(sig)), spreads, Calendar, TimeOf(t))]
    /\ UNCHANGED <<isSim, ticks, window, spreads, cooling, main, summary, rows, lost, test, bound>>

AfterSignal ==
    IF Len(pump.sigs) > 1
    THEN [pc |-> "seen", left |-> pump.left, sigs |-> Tail(pump.sigs)]
    ELSE [pc |-> "strategies", left |-> Tail(pump.left)]

AppendDecision ==
    /\ pump.pc = "decision" /\ main # "closed"
    /\ rows' = Append(rows, [kind |-> "decision", id |-> counts.signals, verdict |-> pump.verdict])
    /\ pump' = AfterSignal
    /\ UNCHANGED <<isSim, ticks, window, spreads, cooling, counts, main, summary, lost, test, bound>>

MutantAppendRaises ==
    /\ pump.pc \in {"signal", "decision"}
    /\ main = "closed" \/ lost < May.faults
    /\ lost' = lost + 1
    /\ pump' = IF pump.pc = "signal" THEN [pump EXCEPT !.pc = "decide"] ELSE AfterSignal
    /\ main' = main
    /\ UNCHANGED <<isSim, ticks, window, spreads, cooling, counts, summary, rows, test, bound>>

\* An append fails, as it must once the ledger is closed.  The rest of the tick is
\* lost; the pump logs it, a simulated scan ends without its summary.
AppendRaises ==
    /\ pump.pc \in {"signal", "decision"}
    /\ main = "closed" \/ lost < May.faults
    /\ lost' = lost + 1
    /\ pump' = Waiting
    /\ main' = IF isSim THEN "stopping" ELSE main
    /\ UNCHANGED <<isSim, ticks, window, spreads, cooling, counts, summary, rows, test, bound>>

-----------------------------------------------------------------------------
(* The main thread *)

\* The deadline, or the end of the script; one count is read, then the other.
ReadSignals ==
    /\ main = "scanning" /\ (isSim => pump.pc = "idle")
    /\ main' = "reading"
    /\ summary' = [summary EXCEPT !.signals = counts.signals]
    /\ UNCHANGED <<isSim, ticks, window, spreads, cooling, counts, pump, rows, lost, test, bound>>

ReadDecisions ==
    /\ main = "reading"
    /\ main' = "summing"
    /\ summary' = [summary EXCEPT !.decisions = counts.decisions]
    /\ UNCHANGED <<isSim, ticks, window, spreads, cooling, counts, pump, rows, lost, test, bound>>

SumUp ==
    /\ main = "summing"
    /\ main' = "stopping"
    /\ \/ rows' = Append(rows, [kind |-> "summary", id |-> 0, counts |-> summary]) /\ lost' = lost
       \/ lost < May.faults /\ lost' = lost + 1 /\ rows' = rows
    /\ UNCHANGED <<isSim, ticks, window, spreads, cooling, counts, pump, summary, test, bound>>

\* Desk.stop: the pump is told to stop, not waited for, and the ledger is closed.
StopGateway ==
    /\ main = "stopping"
    /\ main' = "stopped"
    /\ UNCHANGED <<isSim, ticks, window, spreads, cooling, counts, pump, summary, rows, lost, test, bound>>
CloseLedger ==
    /\ main = "stopped"
    /\ main' = "closed"
    /\ UNCHANGED <<isSim, ticks, window, spreads, cooling, counts, pump, summary, rows, lost, test, bound>>

\* The process is killed, with whatever its threads were doing.
Kill ==
    /\ main # "killed"
    /\ main' = "killed" /\ pump' = Waiting
    /\ UNCHANGED <<isSim, ticks, window, spreads, cooling, counts, summary, rows, lost, test, bound>>

-----------------------------------------------------------------------------
(* The backtest, a process of its own *)

\* load_recorded_ticks: a tick not flushed is as one not recorded yet; a line cut
\* off by a kill makes it raise, and nothing is loaded.
Loads == {ticks, <<>>}

\* With too few ticks there is no backtest.
Begun(ts) == IF Len(ts) >= MinRecorded THEN [test EXCEPT !.ts = ts, !.pc = "walk"]
                                       ELSE [test EXCEPT !.pc = "over"]

Load ==
    /\ May.tests /\ test.pc = "idle"
    /\ test' \in {Begun(ts) : ts \in Loads}
    /\ UNCHANGED <<scanVars, bound>>

\* The first signal of the list that fills, if any does.
Taken(sigs, fillOf) == LET filled == {i \in DOMAIN sigs : fillOf[i] # NoFill}
                       IN  IF filled = {} THEN 0 ELSE First(filled)

Look(sigs, latency) ==
    LET decided == test.ts[test.end].msc
        fillOf == [i \in DOMAIN sigs |-> run_signal(test.ts, sigs[i], decided, latency)]
        i == Taken(sigs, fillOf)
    IN  IF i = 0
        THEN [test EXCEPT !.end = @ + Stride, !.seen = @ + Len(sigs), !.untriggered = @ + Len(sigs)]
        ELSE [test EXCEPT !.end = @ + Stride, !.seen = @ + i, !.untriggered = @ + i - 1,
                          !.fills = Append(@, [sig |-> sigs[i], fill |-> fillOf[i]]),
                          !.openUntil = test.ts[fillOf[i].exit].msc]

MutantWalk ==
    /\ test.pc = "walk"
    /\ test' \in IF test.end >= Len(test.ts) THEN {[test EXCEPT !.pc = "over"]}
                 ELSE {Look(sigs, latency) : sigs \in May.ideas, latency \in Latencies}
    /\ UNCHANGED <<scanVars, bound>>

\* One step of the walk: a window is looked at when no position is open at its end.
Walk ==
    /\ test.pc = "walk"
    /\ test' \in IF test.end >= Len(test.ts) THEN {[test EXCEPT !.pc = "over"]}
                 ELSE IF test.ts[test.end].msc < test.openUntil THEN {[test EXCEPT !.end = @ + Stride]}
                 ELSE {Look(sigs, latency) : sigs \in May.ideas, latency \in Latencies}
    /\ UNCHANGED <<scanVars, bound>>

-----------------------------------------------------------------------------
DeskInit ==
    /\ bound \in DOMAIN Bounds
    /\ isSim \in May.sims
    /\ ticks = <<>> /\ window = 0 /\ spreads = <<>>
    /\ cooling = [i \in {Strategies[j] : j \in DOMAIN Strategies} |-> 0]
    /\ counts = [signals |-> 0, decisions |-> 0]
    /\ pump = Waiting /\ main = "scanning"
    /\ summary = [signals |-> 0, decisions |-> 0]
    /\ rows = <<>> /\ lost = 0
    /\ test = [pc |-> "idle", ts |-> <<>>, end |-> Window, openUntil |-> 0,
               fills |-> <<>>, seen |-> 0, untriggered |-> 0]

\* Ticks that come after the load cannot reach the backtest.
Scan ==
    \/ test.pc = "idle" /\ \E t \in May.quotes : Deliver(t)
    \/ May.scans /\ RunStrategy
    \/ SeeSignal \/ AppendSignal \/ Decide \/ AppendDecision \/ AppendRaises
    \/ May.scans /\ (ReadSignals \/ ReadDecisions \/ SumUp \/ StopGateway \/ CloseLedger \/ Kill)

DeskNext == Scan \/ Load \/ Walk
DeskSpec == DeskInit /\ [][DeskNext]_vars
-----------------------------------------------------------------------------
(* The scan *)

RowsOf(kind)       == {i \in DOMAIN rows : rows[i].kind = kind}
Before(kind, n)    == Cardinality({i \in RowsOf(kind) : i < n})

\* The ledger tells the scan: every decision follows its signal and there is one
\* for every signal but those an append lost and the one in hand; a summary is
\* exact in a simulation, and at a terminal, where the pump goes on counting while
\* it is read, claims at most one signal and one decision more than were kept.
LedgerTellsTheScan ==
    /\ \A i \in RowsOf("decision") :
          Cardinality({j \in RowsOf("signal") : j < i /\ rows[j].id = rows[i].id}) = 1
    /\ \A i, j \in RowsOf("decision") : rows[i].id = rows[j].id => i = j
    /\ Cardinality(RowsOf("signal")) <= Cardinality(RowsOf("decision")) + lost + 1
    /\ \A n \in RowsOf("summary") :
          LET slack == IF isSim THEN 0 ELSE lost + 1 IN
          /\ rows[n].counts.signals <= Before("signal", n) + slack
          /\ rows[n].counts.decisions <= Before("decision", n) + slack
          /\ isSim => /\ rows[n].counts.signals = Before("signal", n)
                      /\ rows[n].counts.decisions = Before("decision", n)

\* With the reliability and the integrity the scan gives, a gate that passes is an
\* approval: no verdict lies between.  Only a simulation approves: nothing else
\* fills the history of spreads, and without it the liquidity window is shut.
ScanVerdicts ==
    \A i \in RowsOf("decision") :
        /\ rows[i].verdict \in {"APPROVE", "REJECT"}
        /\ rows[i].verdict = "APPROVE" => isSim

(* The backtest *)

\* A position that has ended by its stop, its target or its time stays as it is
\* whatever ticks follow: its entry and exit use no later tick ("No look-ahead").
NoLookAhead ==
    [][ticks' # ticks =>
         \A sig \in Signals, d \in DOMAIN ticks, latency \in Latencies :
            LET before == run_signal(ticks, sig, ticks[d].msc, latency) IN
            Settled(before) => run_signal(ticks', sig, ticks[d].msc, latency) = before]_ticks

\* One position at a time, by the clock; no loss exceeds the stop but that of a
\* position entered at the last tick; every signal looked at is accounted for.
FillsAreApart ==
    LET msc(i) == test.ts[i].msc IN
    /\ \A k \in 1..(Len(test.fills) - 1) :
          msc(test.fills[k + 1].fill.entry) >= msc(test.fills[k].fill.exit)
    /\ \A k \in DOMAIN test.fills :
          LET f == test.fills[k].fill IN
          GrossPoints(test.fills[k].sig, f) < -Quarter(test.fills[k].sig.sl)
            => f.entry = Len(test.ts)
    /\ test.seen = Len(test.fills) + test.untriggered
=============================================================================
