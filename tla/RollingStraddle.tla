-------------------------- MODULE RollingStraddle --------------------------
(***************************************************************************)
(* execution/rolling_straddle.py over rolling_straddle_store.py: one       *)
(* state file holds what the algo believes of its call and its put leg,    *)
(* the broker holds the positions.  The scheduler ticks and the API        *)
(* handlers run in threads of their own: each reads the file, talks to     *)
(* the broker for seconds, and saves whole legs back.                      *)
(*                                                                         *)
(* A "case" is the stored configuration together with the faults and the   *)
(* requests of one behaviour.  place_leg_to_target is one step here        *)
(* (module OrderExecution is about its inside), an accepted order fills.   *)
(***************************************************************************)
EXTENDS Integers, FiniteSets

CONSTANTS
    Scheduler, Api,   \* the two threads
    Strikes,          \* strikes near the money
    Signals,          \* what the newest bar can say of a leg
    Cases             \* configurations, see CaseFields

Legs == {"ce", "pe"}
Phases == {"early", "window", "force"}   \* "window": entry_start is reached
Threads == {Scheduler, Api}
None == 0             \* no strike, no bar, no session date
Ops == {"start", "stop", "status", "close", "unlink", "dismiss", "ship", "adopt"}

CaseFields == {"live", "confirm", "dual", "mode", "maxRe",      \* the configuration
               "readsFail", "crash", "hand",                    \* what may happen
               "ops",                                           \* API requests
               "calls", "days", "bars"}                         \* bounds

ASSUME ThreadsAssumption == Scheduler # Api
ASSUME StrikesAssumption == Strikes \subseteq Nat \ {None}
ASSUME SignalsAssumption == Signals \subseteq {"none", "long", "short", "exit"}
ASSUME CasesAssumption == \A c \in Cases :
    /\ DOMAIN c = CaseFields
    /\ {c.live, c.confirm, c.dual, c.readsFail, c.crash, c.hand} \subseteq BOOLEAN
    /\ c.mode \in {"Both", "LongOnly", "ShortOnly", "ShortSignalsOnly"}
    /\ {c.maxRe, c.calls} \subseteq Nat /\ {c.days, c.bars} \subseteq Nat \ {0} /\ c.ops \subseteq Ops

VARIABLES
    case,     \* the case of this behaviour
    clock,    \* [day, phase, bar]: the session date, see Phases, the last closed bar
    pos,      \* net quantity the broker holds per leg and strike, in lots
    tagged,   \* symbols with a completed 3ST entry order today
    state,    \* rolling_straddle_state.json
    run,      \* what each thread is in the middle of
    calls,    \* API requests, crashes and hand trades so far
    hist      \* orders the broker accepted today: entries, and the bars they are for

vars == <<case, clock, pos, tagged, state, run, calls, hist>>
broker == <<pos, tagged, hist>>

Other(l) == IF l = "ce" THEN "pe" ELSE "ce"

-----------------------------------------------------------------------------
(* DEFAULT_LEG: open stands for status "open" and managed_by "algo", which
   every writer sets together; ready for the four entry flags. *)
DefaultLeg == [open |-> FALSE, strike |-> None, entries |-> 0, blocked |-> FALSE, ready |-> "none",
               signal_bar |-> None, action_bar |-> None, exit_bar |-> None]

DefaultState == [runner |-> FALSE, session |-> None, morning |-> FALSE, atm |-> None,
                 leg |-> [l \in Legs |-> DefaultLeg]]

(* The two flat patches of _exit_leg. *)
Flattened(leg) == [leg EXCEPT !.open = FALSE, !.strike = None,
                              !.action_bar = leg.signal_bar, !.exit_bar = leg.signal_bar]

(* Mutant of SyncedFlat: the symbol stays on the flat leg. *)
SyncedFlatKeepsSymbol(leg) == [leg EXCEPT !.open = FALSE]

(* _flat_leg_from_broker_sync. *)
SyncedFlat(leg) == [leg EXCEPT !.open = FALSE, !.strike = None]

(* _leg_patch_from_broker. *)
FromBroker(leg, s) == [leg EXCEPT !.open = TRUE, !.strike = s]

(* The leg_patch _enter_leg merges into the leg it finds in the file. *)
Entered(leg, s) == [leg EXCEPT !.open = TRUE, !.strike = s, !.entries = @ + 1,
                               !.action_bar = leg.signal_bar, !.exit_bar = None]

(* reset_daily_state_if_needed: a new session date keeps the runner, the
   morning flag and the open algo legs with fresh counters. *)
DailyReset(st, today) ==
    CASE st.session = today -> st
      [] st.session = None  -> [st EXCEPT !.session = today]
      [] OTHER -> [DefaultState EXCEPT !.session = today, !.runner = st.runner, !.morning = st.morning,
                     !.leg = [l \in Legs |-> IF st.leg[l].open THEN [st.leg[l] EXCEPT !.entries = 0]
                                                               ELSE DefaultLeg]]

(* Mutant of CanEnter: max_reentries counts one too many. *)
CanEnterOnceMore(l, leg, signal, bar) ==
    /\ ~leg.blocked /\ ~leg.open
    /\ leg.action_bar = None \/ leg.action_bar # bar
    /\ leg.exit_bar = None \/ bar > leg.exit_bar
    /\ case.mode # (IF l = "ce" THEN "ShortOnly" ELSE "LongOnly")
    /\ leg.entries <= case.maxRe + 1
    /\ \/ signal = "short"
       \/ signal = "long" /\ case.mode # "ShortSignalsOnly"

(* _can_enter_ce, _can_enter_pe.  ship_leg_entry passes no bar. *)
CanEnter(l, leg, signal, bar) ==
    /\ ~leg.blocked /\ ~leg.open
    /\ leg.action_bar = None \/ leg.action_bar # bar
    /\ leg.exit_bar = None \/ bar > leg.exit_bar
    /\ case.mode # (IF l = "ce" THEN "ShortOnly" ELSE "LongOnly")
    /\ leg.entries < case.maxRe + 1
    /\ \/ signal = "short"
       \/ signal = "long" /\ case.mode # "ShortSignalsOnly"

(* _entry_txn_from_reason and target_qty. *)
Quantity(signal) == IF signal = "short" THEN -1 ELSE 1

-----------------------------------------------------------------------------
(* The local variables of a request: the state dict it read, the broker rows
   and order tags it was given, the signals and strike of the tick, the leg it
   is at and the copy of that leg _exit_leg read. *)
Idle == [pc |-> "idle", op |-> "none", leg |-> "ce", legs |-> DefaultState.leg,
         rows |-> [l \in Legs |-> [s \in Strikes |-> 0]], read |-> "ok", tags |-> {},
         signal |-> [l \in Legs |-> "none"], bar |-> None, atm |-> None, force |-> FALSE,
         held |-> DefaultLeg]

Become(t, r) == run' = [run EXCEPT ![t] = r]
Goto(t, label) == Become(t, [run[t] EXCEPT !.pc = label])
SaveLeg(l, leg) == state' = [state EXCEPT !.leg[l] = leg]

Init ==
    /\ case \in Cases
    /\ clock = [day |-> 1, phase |-> "early", bar |-> 1]
    /\ pos = [l \in Legs |-> [s \in Strikes |-> 0]]
    /\ tagged = {} /\ calls = 0
    /\ state \in {DefaultState, [DefaultState EXCEPT !.runner = TRUE]}
    /\ run = [t \in Threads |-> Idle]
    /\ hist = [entries |-> [l \in Legs |-> 0], entryBar |-> [l \in Legs |-> None],
               exitBar |-> [l \in Legs |-> None]]

(* A request of the API thread; the scheduler's own are the ticks. *)
Asked(t, op) ==
    /\ run[t].pc = "idle"
    /\ t = Api /\ op \in case.ops /\ calls < case.calls
    /\ calls' = calls + 1

(* tick, up to its first broker request, as the scheduler's loop calls it. *)
TickBegin(t) ==
    /\ t = Scheduler /\ run[t].pc = "idle" /\ state.runner
    /\ state' = DailyReset(state, clock.day)
    /\ Become(t, [Idle EXCEPT !.pc = "positions", !.op = "tick", !.legs = state'.leg])
    /\ UNCHANGED <<case, clock, broker, calls>>

(* start_runner, and status_bundle with sync_broker, up to the same request. *)
Start(t) ==
    /\ Asked(t, "start")
    /\ state' = [DailyReset(state, clock.day) EXCEPT !.runner = TRUE]
    /\ IF case.live THEN Become(t, [Idle EXCEPT !.pc = "positions", !.op = "start", !.legs = state'.leg])
                    ELSE UNCHANGED run
    /\ UNCHANGED <<case, clock, broker>>

Status(t) ==
    /\ Asked(t, "status")
    /\ Become(t, [Idle EXCEPT !.pc = "positions", !.op = "status", !.legs = state.leg])
    /\ UNCHANGED <<case, clock, broker, state>>

(* _broker_positions_detail and broker.orders.  A failed first read leaves
   detail None, and _resolve_live_broker_leg asks a second time ("late"). *)
ReadPositions(t) ==
    /\ run[t].pc = "positions"
    /\ LET faulty == case.live /\ case.readsFail
       IN  \E r \in {"ok"} \cup (IF faulty THEN {"late", "failed"} ELSE {}),
              tags \in {tagged} \cup (IF faulty THEN {{}} ELSE {}) :
             Become(t, [run[t] EXCEPT !.pc = "reconcile", !.read = r, !.tags = tags,
                          !.rows = IF r = "failed" THEN Idle.rows ELSE pos])
    /\ UNCHANGED <<case, clock, broker, state, calls>>

Held(r, l) == {s \in Strikes : r.rows[l][s] # 0}

(* Mutant of LivePatches: a flat leg is not looked for at the broker. *)
LivePatchesOpenOnly(r, l) ==
    LET leg == r.legs[l]
    IN  IF ~leg.open THEN {{}}
        ELSE IF leg.strike \in Held(r, l) THEN {{leg}}
        ELSE IF r.read = "ok" THEN {{SyncedFlat(leg)}} ELSE {{}}

(* Mutant of LivePatches: an open leg the broker has closed stays open. *)
LivePatchesKeepOpen(r, l) ==
    LET leg == r.legs[l]
    IN  IF leg.open THEN {{leg}}
        ELSE IF Held(r, l) = {} THEN {{}}
        ELSE {IF <<l, s>> \in r.tags THEN {FromBroker(leg, s)} ELSE {} : s \in Held(r, l)}

(* The patches _reconcile_broker_legs can make for one leg; {} is no patch.
   An open leg is matched by its symbol.  A flat leg takes the first row of
   its underlying and side, if today's orders hold a 3ST entry for it; which
   row is first is up to the broker. *)
LivePatches(r, l) ==
    LET leg == r.legs[l]
    IN  IF leg.open
        THEN IF leg.strike \in Held(r, l) THEN {{leg}}
             ELSE IF r.read = "ok" THEN {{SyncedFlat(leg)}} ELSE {{}}
        ELSE IF Held(r, l) = {} THEN {{}}
        ELSE {IF <<l, s>> \in r.tags THEN {FromBroker(leg, s)} ELSE {} : s \in Held(r, l)}

(* _paper_broker_qty_patches: an open leg is written back when the quantity
   shown differs, which is left open here. *)
PaperPatches(r, l) ==
    LET leg == r.legs[l]
    IN  IF ~leg.open THEN {{}}
        ELSE IF leg.strike \in Held(r, l) THEN {{}, {leg}} ELSE {{SyncedFlat(leg)}}

Patches(r, l) == IF case.live THEN LivePatches(r, l) ELSE PaperPatches(r, l)

(* A leg under its patch, or as the file has it. *)
Patched(leg, patch) == IF patch = {} THEN leg ELSE CHOOSE p \in patch : TRUE

(* The patched legs are saved whole and the file is read again, or neither. *)
Reconcile(t) ==
    /\ run[t].pc = "reconcile"
    /\ \E patch \in {f \in [Legs -> UNION {Patches(run[t], l) : l \in Legs}] :
                        \A l \in Legs : f[l] \in Patches(run[t], l)} :
         LET saved == [l \in Legs |-> Patched(state.leg[l], patch[l])]
         IN  /\ state' = [state EXCEPT !.leg = saved]
             /\ Become(t, IF run[t].op # "tick" THEN Idle
                          ELSE [Idle EXCEPT !.pc = "signals", !.op = "tick",
                                  !.legs = IF \A l \in Legs : patch[l] = {} THEN run[t].legs ELSE saved])
    /\ UNCHANGED <<case, clock, broker, calls>>

(* Outside the session, no spot, no candles; with too few of them the strike
   is saved all the same. *)
TickAborts(t) ==
    /\ run[t].pc = "signals"
    /\ \E atm \in {state.atm} \cup Strikes : state' = [state EXCEPT !.atm = atm]
    /\ Become(t, Idle)
    /\ UNCHANGED <<case, clock, broker, calls>>

(* The times from now on at which a tick of this day can look at the clock. *)
Later == [day : {clock.day}, bar : clock.bar..case.bars,
          phase : CASE clock.phase = "early" -> Phases
                    [] clock.phase = "window" -> Phases \ {"early"}
                    [] OTHER -> {"force"}]

(* Spot, strike and candles arrive; before the morning bar the tick ends.
   Nothing else reads the clock, so it moves here. *)
Candles(t) ==
    /\ run[t].pc = "signals"
    /\ clock' \in Later
    /\ LET morning == state.morning \/ clock'.phase # "early"
       IN  \E atm \in Strikes, signal \in [Legs -> Signals] :
             /\ \A l \in Legs : signal[l] = "none" \/ run[t].legs[l].open = (signal[l] = "exit")
             /\ state' = [state EXCEPT !.morning = morning, !.atm = IF morning THEN @ ELSE atm]
             /\ Become(t, IF morning
                          THEN [run[t] EXCEPT !.pc = "publish", !.atm = atm, !.signal = signal,
                                  !.bar = clock'.bar, !.force = clock'.phase = "force"]
                          ELSE Idle)
    /\ UNCHANGED <<case, broker, calls>>

(* Both legs go back to the file whole, as they were read before the broker
   and the candles were asked; the tick goes on with the file's state. *)
Publish(t) ==
    /\ run[t].pc = "publish"
    /\ LET leg == [l \in Legs |-> [run[t].legs[l] EXCEPT !.signal_bar = run[t].bar,
                    !.ready = IF run[t].signal[l] = "exit" THEN "none" ELSE run[t].signal[l]]]
       IN  /\ state' = [state EXCEPT !.leg = leg, !.atm = run[t].atm]
           /\ Become(t, [run[t] EXCEPT !.pc = "exit", !.leg = "ce", !.legs = leg])
    /\ UNCHANGED <<case, clock, broker, calls>>

(* After the exit of one leg: the next leg, on the state dict given, then the
   entries on a fresh one, unless the exits were forced. *)
AfterExit(t, legs) ==
    LET leg == run[t].leg
    IN  IF run[t].op # "tick" \/ (leg = "pe" /\ run[t].force) THEN Idle
        ELSE [run[t] EXCEPT !.pc = IF leg = "ce" THEN "exit" ELSE "entry", !.leg = Other(leg),
                            !.legs = IF leg = "ce" THEN legs ELSE state'.leg, !.held = DefaultLeg]

(* _should_exit_leg. *)
ShouldExit(r) ==
    LET leg == r.legs[r.leg]
    IN  /\ leg.open
        /\ leg.action_bar = None \/ leg.action_bar # r.bar
        /\ r.force \/ r.signal[r.leg] = "exit"

(* Not to be closed, or live and disarmed, which the signal cannot tell. *)
ExitSkip(t) ==
    /\ run[t].pc = "exit"
    /\ ~ShouldExit(run[t]) \/ case.live
    /\ UNCHANGED state /\ Become(t, AfterExit(t, run[t].legs))
    /\ UNCHANGED <<case, clock, broker, calls>>

(* _exit_leg reads the leg anew and refuses one that is not open. *)
ExitBegin(t) ==
    /\ run[t].pc = "exit" /\ ShouldExit(run[t])
    /\ UNCHANGED state
    /\ LET leg == state.leg[run[t].leg]
       IN  Become(t, IF leg.open THEN [run[t] EXCEPT !.pc = "exitorder", !.held = leg]
                                 ELSE AfterExit(t, run[t].legs))
    /\ UNCHANGED <<case, clock, broker, calls>>

(* close_leg; close_all is one for each leg. *)
Close(t, l) ==
    /\ Asked(t, "close") /\ state.leg[l].open
    /\ Become(t, [Idle EXCEPT !.pc = "exitorder", !.op = "close", !.leg = l, !.held = state.leg[l]])
    /\ UNCHANGED <<case, clock, broker, state>>

(* No position for the leg's symbol, or a read that failed: the leg is saved
   as flat, without an order. *)
ExitFindsNone(t) ==
    /\ run[t].pc = "exitorder"
    /\ LET l == run[t].leg
       IN  /\ pos[l][run[t].held.strike] = 0 \/ (case.live /\ case.readsFail)
           /\ SaveLeg(l, Flattened(run[t].held))
           /\ Become(t, AfterExit(t, state'.leg))
    /\ UNCHANGED <<case, clock, broker, calls>>

(* place_leg_to_target with target 0. *)
ExitAccepted(t) ==
    /\ run[t].pc = "exitorder"
    /\ LET l == run[t].leg
           s == run[t].held.strike
       IN  /\ pos[l][s] # 0
           /\ pos' = [pos EXCEPT ![l][s] = 0]
           /\ hist' = [hist EXCEPT !.exitBar[l] = run[t].held.signal_bar]
    /\ Goto(t, "exitsave")
    /\ UNCHANGED <<case, clock, tagged, state, calls>>

(* Mutant of ExitSave: only the status goes to the file. *)
ExitSaveStatus(t) ==
    /\ run[t].pc = "exitsave"
    /\ SaveLeg(run[t].leg, SyncedFlat(run[t].held))
    /\ Become(t, AfterExit(t, state'.leg))
    /\ UNCHANGED <<case, clock, broker, calls>>

ExitSave(t) ==
    /\ run[t].pc = "exitsave"
    /\ SaveLeg(run[t].leg, Flattened(run[t].held))
    /\ Become(t, AfterExit(t, state'.leg))
    /\ UNCHANGED <<case, clock, broker, calls>>

(* The order is refused by the risk gate, the ARM gate or the broker. *)
ExitRefused(t) ==
    /\ run[t].pc = "exitorder" /\ pos[run[t].leg][run[t].held.strike] # 0
    /\ UNCHANGED state /\ Become(t, AfterExit(t, run[t].legs))
    /\ UNCHANGED <<case, clock, broker, calls>>

AfterEntry(t) == IF run[t].op = "tick" /\ run[t].leg = "ce" THEN [run[t] EXCEPT !.pc = "entry", !.leg = "pe"]
                                                            ELSE Idle

(* What the entry loop tests, on the state dict read before the first entry;
   ship_leg_entry has made its own tests. *)
MayEnter(r) ==
    \/ r.op = "ship"
    \/ /\ ~case.confirm
       /\ case.dual \/ ~r.legs[Other(r.leg)].open
       /\ CanEnter(r.leg, r.legs[r.leg], r.signal[r.leg], r.bar)

(* No entry, or a refused one. *)
EntrySkip(t) ==
    /\ run[t].pc = "entry"
    /\ Become(t, AfterEntry(t))
    /\ UNCHANGED <<case, clock, broker, state, calls>>

(* _enter_leg: place_leg_to_target, which sends nothing at the target. *)
EntryAccepted(t) ==
    /\ run[t].pc = "entry" /\ MayEnter(run[t])
    /\ LET l == run[t].leg
           s == run[t].atm
           q == Quantity(run[t].signal[l])
       IN  IF pos[l][s] = q THEN UNCHANGED broker
           ELSE /\ pos' = [pos EXCEPT ![l][s] = q]
                /\ tagged' = tagged \cup {<<l, s>>}
                /\ hist' = [hist EXCEPT !.entries[l] = @ + 1, !.entryBar[l] = run[t].bar]
    /\ Goto(t, "entrysave")
    /\ UNCHANGED <<case, clock, state, calls>>

(* The leg is read again and saved as open; the loop keeps its old dict. *)
EntrySave(t) ==
    /\ run[t].pc = "entrysave"
    /\ SaveLeg(run[t].leg, Entered(state.leg[run[t].leg], run[t].atm))
    /\ Become(t, AfterEntry(t))
    /\ UNCHANGED <<case, clock, broker, calls>>

(* ship_leg_entry: its signals have no bar time. *)
Ship(t, l) ==
    /\ Asked(t, "ship")
    /\ CanEnter(l, state.leg[l], state.leg[l].ready, None) /\ state.atm # None
    /\ Become(t, [Idle EXCEPT !.pc = "entry", !.op = "ship", !.leg = l, !.atm = state.atm,
                    !.signal = [Idle.signal EXCEPT ![l] = state.leg[l].ready]])
    /\ UNCHANGED <<case, clock, broker, state>>

Stop(t) ==
    /\ Asked(t, "stop")
    /\ state' = [state EXCEPT !.runner = FALSE]
    /\ UNCHANGED <<case, clock, broker, run>>

(* unlink_leg: the position is the operator's from here on. *)
Unlink(t, l) ==
    /\ Asked(t, "unlink") /\ state.leg[l].open
    /\ SaveLeg(l, SyncedFlat(state.leg[l]))
    /\ UNCHANGED <<case, clock, broker, run>>

Dismiss(t, l) ==
    /\ Asked(t, "dismiss")
    /\ SaveLeg(l, [state.leg[l] EXCEPT !.blocked = TRUE, !.ready = "none"])
    /\ UNCHANGED <<case, clock, broker, run>>

(* adopt_leg: any position on the leg's side will do. *)
Adopt(t, l) ==
    /\ Asked(t, "adopt") /\ case.live /\ ~state.leg[l].open
    /\ Become(t, [Idle EXCEPT !.pc = "adopt", !.op = "adopt", !.leg = l, !.held = state.leg[l], !.rows = pos])
    /\ UNCHANGED <<case, clock, broker, state>>

AdoptSave(t) ==
    /\ run[t].pc = "adopt"
    /\ LET l == run[t].leg
       IN  \/ Held(run[t], l) = {} /\ UNCHANGED state
           \/ \E s \in Held(run[t], l) : SaveLeg(l, FromBroker(run[t].held, s))
    /\ Become(t, Idle)
    /\ UNCHANGED <<case, clock, broker, calls>>

-----------------------------------------------------------------------------
(* The broker lists today's orders only; MIS positions are squared off over
   night, NRML ones are carried. *)
NewDay ==
    /\ clock.day < case.days /\ \A t \in Threads : run[t].pc = "idle"
    /\ clock' = [clock EXCEPT !.day = @ + 1, !.phase = "early"]
    /\ pos' \in {pos, [l \in Legs |-> [s \in Strikes |-> 0]]}
    /\ tagged' = {}
    /\ hist' = [entries |-> [l \in Legs |-> 0], entryBar |-> [l \in Legs |-> None],
                exitBar |-> [l \in Legs |-> None]]
    /\ UNCHANGED <<case, state, run, calls>>

(* The operator trades by hand in the broker's own terminal. *)
TradeByHand ==
    /\ case.hand /\ calls < case.calls /\ calls' = calls + 1
    /\ \E l \in Legs, s \in Strikes : pos' = [pos EXCEPT ![l][s] = IF @ = 0 THEN 1 ELSE 0]
    /\ UNCHANGED <<case, clock, tagged, hist, state, run>>

(* The process dies and is started again: the files are what is left. *)
Crash ==
    /\ case.crash /\ calls < case.calls /\ calls' = calls + 1
    /\ run' = [t \in Threads |-> Idle]
    /\ UNCHANGED <<case, clock, broker, state>>

Request(t) ==
    \/ Start(t) \/ Status(t) \/ Stop(t)
    \/ \E l \in Legs : Close(t, l) \/ Ship(t, l) \/ Unlink(t, l) \/ Dismiss(t, l) \/ Adopt(t, l)

Continue(t) ==
    \/ ReadPositions(t) \/ Reconcile(t) \/ TickAborts(t) \/ Candles(t) \/ Publish(t)
    \/ ExitSkip(t) \/ ExitBegin(t) \/ ExitFindsNone(t) \/ ExitAccepted(t) \/ ExitSave(t) \/ ExitRefused(t)
    \/ EntrySkip(t) \/ EntryAccepted(t) \/ EntrySave(t) \/ AdoptSave(t)

Next ==
    \/ \E t \in Threads : TickBegin(t) \/ Request(t) \/ Continue(t)
    \/ NewDay \/ TradeByHand \/ Crash

Spec == Init /\ [][Next]_vars

(* The scheduler thread keeps ticking, and a request once begun goes on:
   every wait on the broker has a timeout. *)
FairSpec == /\ Spec
            /\ WF_vars(TickBegin(Scheduler))
            /\ \A t \in Threads : WF_vars(Continue(t))

-----------------------------------------------------------------------------
LegType == [open : BOOLEAN, strike : Strikes \cup {None}, entries : Nat, blocked : BOOLEAN,
            ready : Signals \cup {"none"}, signal_bar : 0..case.bars, action_bar : 0..case.bars,
            exit_bar : 0..case.bars]

(* The types; a leg of the file is open exactly when it names a symbol, which
   each way of flattening a leg must keep. *)
TypeOK ==
    /\ case \in Cases
    /\ clock \in [day : 1..case.days, phase : Phases, bar : 0..case.bars]
    /\ pos \in [Legs -> [Strikes -> -1..1]]
    /\ tagged \subseteq Legs \X Strikes
    /\ state.leg \in [Legs -> LegType] /\ state.atm \in Strikes \cup {None}
    /\ state.runner \in BOOLEAN /\ state.morning \in BOOLEAN /\ state.session \in 0..case.days
    /\ calls \in 0..case.calls
    /\ \A l \in Legs : state.leg[l].open <=> state.leg[l].strike # None

(* The algo's own ticks, with no request, crash or hand beside them. *)
Alone == case.ops = {} /\ ~case.crash /\ ~case.hand

(* A leg that was exited on a bar is not entered again on that bar or an
   earlier one (the anti-churn rule of _reentry_allowed_after_exit and
   _same_bar_action_blocked), failing broker reads included. *)
Cooldown ==
    [][Alone => \A l \in Legs : hist'.entries[l] > hist.entries[l] /\ clock' = clock
                   => hist.exitBar[l] = None \/ hist'.entryBar[l] > hist.exitBar[l]]_vars

(* A day's entry orders of a leg are no more than max_reentries + 1, whatever
   reads fail and however often a leg is forgotten and found again. *)
EntriesCapped == Alone => \A l \in Legs : hist.entries[l] <= case.maxRe + 1

(* As long as the broker can be read, the algo holds one strike of a leg, also
   when the process dies between an order and the save, when the at-the-money
   strike rolls and when the operator closes or stops beside a tick. *)
OneStrikePerLeg ==
    case.live /\ ~case.readsFail /\ ~case.hand /\ case.days = 1 /\ case.ops \subseteq {"close", "stop"}
        => \A l \in Legs : Cardinality({s \in Strikes : pos[l][s] # 0}) <= 1

Lost(l) == case.live /\ ~state.leg[l].open /\ \E s \in Strikes : pos[l][s] # 0 /\ <<l, s>> \in tagged

(* A position the algo opened today and lost track of (a crash before the
   save, a stale copy saved over it) is found again while the runner runs. *)
LostIsFound == \A l \in Legs : []<>~(~case.readsFail /\ state.runner /\ Lost(l))

Phantom(l) == state.leg[l].open /\ pos[l][state.leg[l].strike] = 0

(* A leg that is open in the file with nothing behind it is noticed. *)
PhantomIsDropped == \A l \in Legs : []<>~(~case.readsFail /\ state.runner /\ Phantom(l))
=============================================================================
