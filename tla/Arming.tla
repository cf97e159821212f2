------------------------------- MODULE Arming -------------------------------
(***************************************************************************)
(* The arming token on disk (arming.py) and the commands that write it:    *)
(* activate-live, promote-live-full and emergency-stop (runtime.py).  Each *)
(* command is a process of its own; the file has no lock.  The account,    *)
(* the server and the configuration hash a token is bound to are one value *)
(* here, the setup.                                                        *)
(***************************************************************************)
EXTENDS Integers

CONSTANTS
    Activations, Promotions, \* processes of the two commands, each run once
    Setups,                  \* account, server and configuration
    CanaryFills,             \* RiskConfig.canary_fills
    NoToken, Stub            \* no file; what disarm leaves

ASSUME ArmingConfig ==
    /\ CanaryFills \in Nat \ {0}
    /\ Setups # {} /\ NoToken # Stub
    /\ \A m \in {"LIVE_CANARY", "LIVE"}, u \in Setups : [mode |-> m, setup |-> u] \notin {NoToken, Stub}

VARIABLES
    token,       \* data/arming.json
    setup,       \* what .env and configs/ say now
    act, prom,   \* where the processes of the two commands are
    canaryFills, \* the counter of that name in data/counters.json
    clean        \* an emergency stop hit no ceremony past its check, and none began since

armVars == <<token, setup, act, prom, clean>>

Live == [mode : {"LIVE_CANARY", "LIVE"}, setup : Setups]

ArmingTypeOK ==
    /\ token \in Live \cup {NoToken, Stub}
    /\ setup \in Setups
    /\ act \in [Activations -> [pc : {"idle", "typing", "done"}, setup : Setups]]
    /\ prom \in [Promotions -> [pc : {"idle", "counted", "valid", "done"}, setup : Setups]]
    /\ canaryFills \in Nat
    /\ clean \in BOOLEAN

ArmingInit ==
    /\ token = NoToken
    /\ setup = CHOOSE u \in Setups : TRUE
    /\ act = [a \in Activations |-> [pc |-> "idle", setup |-> setup]]
    /\ prom = [p \in Promotions |-> [pc |-> "idle", setup |-> setup]]
    /\ canaryFills = 0
    /\ clean = FALSE

\* Somebody edits the configuration or the environment.
Edit ==
    /\ setup' \in Setups \ {setup}
    /\ UNCHANGED <<token, act, prom, clean, canaryFills>>

\* activate_live_cli up to the phrase: the terminal's account is allowlisted,
\* hedging and may trade, and the ledger verifies; any of these may refuse.
Activate(a) ==
    /\ act[a].pc = "idle"
    /\ \E pc \in {"typing", "done"} : act' = [act EXCEPT ![a] = [pc |-> pc, setup |-> setup]]
    /\ clean' = FALSE
    /\ UNCHANGED <<token, setup, prom, canaryFills>>

\* The phrase is typed, or not: write_token replaces whatever is there.
Type(a) ==
    /\ act[a].pc = "typing"
    /\ act' = [act EXCEPT ![a].pc = "done"]
    /\ token' \in {token, [mode |-> "LIVE_CANARY", setup |-> act[a].setup]}
    /\ UNCHANGED <<setup, prom, clean, canaryFills>>

\* promote_live_full_cli reads the counter and the configuration.
Promote(p) ==
    /\ prom[p].pc = "idle"
    /\ prom' = [prom EXCEPT ![p] = [pc |-> IF canaryFills < CanaryFills THEN "done" ELSE "counted",
                                    setup |-> setup]]
    /\ UNCHANGED <<token, setup, act, clean, canaryFills>>

MutantValidate(p) ==
    /\ prom[p].pc = "counted"
    /\ prom' = [prom EXCEPT ![p].pc = "valid"]
    /\ UNCHANGED <<token, setup, act, clean, canaryFills>>

\* validate_token: any mismatch disarms, no token is no arming.
Validate(p) ==
    /\ prom[p].pc = "counted"
    /\ LET valid == token \in Live /\ token.setup = prom[p].setup IN
       /\ token' = IF token \in Live /\ ~valid THEN Stub ELSE token
       /\ prom' = [prom EXCEPT ![p].pc = IF valid THEN "valid" ELSE "done"]
    /\ UNCHANGED <<setup, act, clean, canaryFills>>

\* The token may have been disarmed since it was validated.
WriteLive(p) ==
    /\ prom[p].pc = "valid"
    /\ token' = [mode |-> "LIVE", setup |-> prom[p].setup]
    /\ prom' = [prom EXCEPT ![p].pc = "done"]
    /\ UNCHANGED <<setup, act, clean, canaryFills>>

\* emergency_stop_cli: disarm leaves a stub where there was a file.
EmergencyStop ==
    /\ token' = IF token = NoToken THEN NoToken ELSE Stub
    /\ clean' = /\ \A a \in Activations : act[a].pc # "typing"
                /\ \A p \in Promotions : prom[p].pc # "valid"
    /\ UNCHANGED <<setup, act, prom, canaryFills>>

Ceremony ==
    \/ Edit \/ EmergencyStop
    \/ \E a \in Activations : Activate(a) \/ Type(a)
    \/ \E p \in Promotions : Promote(p) \/ Validate(p) \/ WriteLive(p)

-----------------------------------------------------------------------------
\* After an emergency stop that caught no ceremony past its check, the desk
\* stays disarmed until a human starts a new activation; a promotion that had
\* passed validate_token when the stop came re-arms it.
ReArmNeedsHuman == clean => token \notin Live
=============================================================================
