------------------------ MODULE RollingStraddle_proofs ------------------------
(***************************************************************************)
(* Theorems about RollingStraddle for every set of strikes, signals and    *)
(* cases: its types; the cap on a day's entries and the cooldown after an  *)
(* exit, for the algo's own ticks; and that the algo holds one strike of a *)
(* leg, beside closes, stops and crashes.                                  *)
(***************************************************************************)
EXTENDS RollingStraddle, FiniteSetTheorems, TLAPS

(* Types.  A leg is open when it names a strike; a request that trades has a
   strike, and one that closes has an open leg. *)
GoodLegs(bars) ==
    {leg \in [open : BOOLEAN, strike : Strikes \cup {None}, entries : Nat, blocked : BOOLEAN,
              ready : Signals \cup {"none"}, signal_bar : 0..bars, action_bar : 0..bars, exit_bar : 0..bars] :
        leg.open <=> leg.strike # None}

StateType(days, bars) ==
    [runner : BOOLEAN, session : 0..days, morning : BOOLEAN, atm : Strikes \cup {None},
     leg : [Legs -> GoodLegs(bars)]]

Labels == {"idle", "positions", "reconcile", "signals", "publish", "exit", "exitorder", "exitsave",
           "entry", "entrysave", "adopt"}

Fits(r) ==
    /\ r.pc \in {"publish", "exit", "entry", "entrysave"} \/ (r.pc \in {"exitorder", "exitsave"} /\ r.op = "tick")
          => r.atm \in Strikes
    /\ r.pc \in {"exitorder", "exitsave"} => r.held.open

Rows == [Legs -> [Strikes -> -1..1]]

Fields(bars) ==
    [pc : Labels, op : {"none", "tick"} \cup Ops, leg : Legs, legs : [Legs -> GoodLegs(bars)],
     rows : Rows, read : {"ok", "late", "failed"}, tags : SUBSET (Legs \X Strikes),
     signal : [Legs -> Signals \cup {"none"}], bar : 0..bars, atm : Strikes \cup {None},
     force : BOOLEAN, held : GoodLegs(bars)]

RunType(bars) == {r \in Fields(bars) : Fits(r)}

HistType(bars) == [entries : [Legs -> Nat], entryBar : [Legs -> 0..bars], exitBar : [Legs -> 0..bars]]

ClockType(days, bars) == [day : 1..days, phase : Phases, bar : 1..bars]

TypeInv ==
    /\ case \in Cases
    /\ clock \in ClockType(case.days, case.bars)
    /\ pos \in Rows /\ tagged \subseteq Legs \X Strikes
    /\ state \in StateType(case.days, case.bars)
    /\ run \in [Threads -> RunType(case.bars)]
    /\ calls \in 0..case.calls
    /\ hist \in HistType(case.bars)

-----------------------------------------------------------------------------
LEMMA CaseTyped ==
  ASSUME case \in Cases
  PROVE  /\ case.maxRe \in Nat /\ case.calls \in Nat /\ case.days \in Nat \ {0} /\ case.bars \in Nat \ {0}
         /\ case.live \in BOOLEAN /\ case.readsFail \in BOOLEAN /\ case.hand \in BOOLEAN /\ case.crash \in BOOLEAN
BY CasesAssumption

LEMMA TypeCorrectly == TypeInv => TypeOK
<1> SUFFICES ASSUME TypeInv PROVE TypeOK
  OBVIOUS
<1>1. clock \in [day : 1..case.days, phase : Phases, bar : 0..case.bars]
  BY CaseTyped DEF TypeInv, ClockType
<1>2. state.leg \in [Legs -> LegType] /\ \A l \in Legs : state.leg[l].open <=> state.leg[l].strike # None
  BY DEF TypeInv, StateType, GoodLegs, LegType
<1> QED BY <1>1, <1>2 DEF TypeInv, TypeOK, StateType, Rows

(* What the writers make of a leg is a leg. *)
LEMMA DefaultGood == ASSUME NEW bars \in Nat PROVE DefaultLeg \in GoodLegs(bars)
BY DEF DefaultLeg, GoodLegs, None

LEMMA WritersGood ==
  ASSUME NEW bars \in Nat, NEW leg \in GoodLegs(bars)
  PROVE  /\ Flattened(leg) \in GoodLegs(bars) /\ SyncedFlat(leg) \in GoodLegs(bars)
         /\ \A s \in Strikes : FromBroker(leg, s) \in GoodLegs(bars) /\ Entered(leg, s) \in GoodLegs(bars)
<1>1. Flattened(leg) \in GoodLegs(bars)
  BY DEF GoodLegs, Flattened, None
<1>2. SyncedFlat(leg) \in GoodLegs(bars)
  BY DEF GoodLegs, SyncedFlat, None
<1>3. ASSUME NEW s \in Strikes PROVE FromBroker(leg, s) \in GoodLegs(bars) /\ Entered(leg, s) \in GoodLegs(bars)
  <2>1. s # None /\ s \in Strikes \cup {None}
    BY StrikesAssumption
  <2>2. FromBroker(leg, s) \in GoodLegs(bars)
    BY <2>1 DEF GoodLegs, FromBroker
  <2>3. Entered(leg, s) \in GoodLegs(bars)
    <3>1. PICK n \in Nat : n = leg.entries + 1
      BY DEF GoodLegs
    <3>2. PICK none \in 0..bars : none = None
      BY DEF None
    <3>3. Entered(leg, s) = [leg EXCEPT !.open = TRUE, !.strike = s, !.entries = n, !.action_bar = leg.signal_bar, !.exit_bar = none]
      BY <3>1, <3>2 DEF Entered
    <3> QED BY <2>1, <3>3 DEF GoodLegs
  <2> QED BY <2>2, <2>3
<1> QED BY <1>1, <1>2, <1>3

LEMMA ResetGood ==
  ASSUME NEW days \in Nat, NEW bars \in Nat, NEW st \in StateType(days, bars), NEW today \in 1..days
  PROVE  DailyReset(st, today) \in StateType(days, bars)
<1>1. CASE st.session = today
  BY <1>1 DEF DailyReset, None
<1>2. CASE st.session # today /\ st.session = None
  BY <1>2 DEF DailyReset, StateType
<1>3. CASE st.session # today /\ st.session # None
  <2> DEFINE fresh == [l \in Legs |-> IF st.leg[l].open THEN [st.leg[l] EXCEPT !.entries = 0] ELSE DefaultLeg]
  <2>1. ASSUME NEW l \in Legs PROVE fresh[l] \in GoodLegs(bars)
    <3>1. st.leg[l] \in GoodLegs(bars)
      BY DEF StateType
    <3>2. [st.leg[l] EXCEPT !.entries = 0] \in GoodLegs(bars)
      BY <3>1 DEF GoodLegs
    <3> QED BY <3>2, DefaultGood
  <2>2. DailyReset(st, today) = [DefaultState EXCEPT !.session = today, !.runner = st.runner, !.morning = st.morning, !.leg = fresh]
    BY <1>3 DEF DailyReset
  <2>3. fresh \in [Legs -> GoodLegs(bars)]
    BY <2>1
  <2> HIDE DEF fresh
  <2>4. DailyReset(st, today) = [runner |-> st.runner, session |-> today, morning |-> st.morning, atm |-> 0, leg |-> fresh]
    BY <2>2 DEF DefaultState, None
  <2> QED BY <2>3, <2>4 DEF StateType, None
<1> QED BY <1>1, <1>2, <1>3

LEMMA IdleTyped == ASSUME NEW bars \in Nat PROVE Idle \in RunType(bars) /\ DefaultState.leg \in [Legs -> GoodLegs(bars)]
<1>1. DefaultState.leg \in [Legs -> GoodLegs(bars)]
  BY DefaultGood DEF DefaultState
<1>2. Idle.rows \in Rows
  BY DEF Idle, Rows
<1>3. Idle \in Fields(bars)
  BY <1>1, <1>2, DefaultGood DEF Idle, Fields, Legs, Labels, Rows, None
<1>4. Fits(Idle)
  BY DEF Fits, Idle
<1> QED BY <1>1, <1>3, <1>4 DEF RunType

(* A leg under a patch is the leg of the file, or one of the four rewritten. *)
LEMMA PatchedIs ==
  ASSUME NEW leg, NEW patch
  PROVE  (patch = {} => Patched(leg, patch) = leg) /\ (patch # {} => Patched(leg, patch) \in patch)
<1>1. patch # {} => (CHOOSE p \in patch : TRUE) \in patch
  OBVIOUS
<1> QED BY <1>1 DEF Patched

LEMMA PatchGood ==
  ASSUME NEW bars \in Nat, NEW r \in RunType(bars), NEW l \in Legs, NEW patch \in Patches(r, l), NEW p \in patch
  PROVE  p \in GoodLegs(bars)
<1>1. r.legs[l] \in GoodLegs(bars)
  BY DEF RunType, Fields
<1>2. /\ SyncedFlat(r.legs[l]) \in GoodLegs(bars)
      /\ \A s \in Held(r, l) : FromBroker(r.legs[l], s) \in GoodLegs(bars)
  BY <1>1, WritersGood DEF Held
<1>3. CASE case.live
  <2>1. /\ patch \in LivePatches(r, l)
        /\ \/ patch = {} \/ patch = {r.legs[l]} \/ patch = {SyncedFlat(r.legs[l])}
           \/ \E s \in Held(r, l) : patch = {FromBroker(r.legs[l], s)}
    BY <1>3 DEF Patches, LivePatches
  <2> QED BY <1>1, <1>2, <2>1
<1>4. CASE ~case.live
  <2>1. patch = {} \/ patch = {r.legs[l]} \/ patch = {SyncedFlat(r.legs[l])}
    BY <1>4 DEF Patches, PaperPatches
  <2> QED BY <1>1, <1>2, <2>1
<1> QED BY <1>3, <1>4

(* A local variable that is assigned a value of its type. *)
LEMMA FieldsKept ==
  ASSUME NEW bars \in Nat, NEW q \in Fields(bars), NEW pc \in Labels
  PROVE  /\ \A read \in {"ok", "late", "failed"}, tags \in SUBSET (Legs \X Strikes), rows \in Rows :
              [q EXCEPT !.pc = pc, !.read = read, !.tags = tags, !.rows = rows] \in Fields(bars)
         /\ \A atm \in Strikes, signal \in [Legs -> Signals \cup {"none"}], bar \in 0..bars, force \in BOOLEAN :
              [q EXCEPT !.pc = pc, !.atm = atm, !.signal = signal, !.bar = bar, !.force = force] \in Fields(bars)
         /\ \A l \in Legs, legs \in [Legs -> GoodLegs(bars)] :
              [q EXCEPT !.pc = pc, !.leg = l, !.legs = legs] \in Fields(bars)
         /\ \A l \in Legs, legs \in [Legs -> GoodLegs(bars)], held \in GoodLegs(bars) :
              [q EXCEPT !.pc = pc, !.leg = l, !.legs = legs, !.held = held] \in Fields(bars)
         /\ \A held \in GoodLegs(bars) : [q EXCEPT !.pc = pc, !.held = held] \in Fields(bars)
         /\ \A l \in Legs : [q EXCEPT !.pc = pc, !.leg = l] \in Fields(bars)
         /\ [q EXCEPT !.pc = pc] \in Fields(bars)
<1>1. ASSUME NEW read \in {"ok", "late", "failed"}, NEW tags \in SUBSET (Legs \X Strikes), NEW rows \in Rows
      PROVE  [q EXCEPT !.pc = pc, !.read = read, !.tags = tags, !.rows = rows] \in Fields(bars)
  BY DEF Fields
<1>2. ASSUME NEW atm \in Strikes, NEW signal \in [Legs -> Signals \cup {"none"}], NEW bar \in 0..bars, NEW force \in BOOLEAN
      PROVE  [q EXCEPT !.pc = pc, !.atm = atm, !.signal = signal, !.bar = bar, !.force = force] \in Fields(bars)
  BY DEF Fields
<1>3. ASSUME NEW l \in Legs, NEW legs \in [Legs -> GoodLegs(bars)]
      PROVE  [q EXCEPT !.pc = pc, !.leg = l, !.legs = legs] \in Fields(bars)
  BY DEF Fields
<1>4. ASSUME NEW l \in Legs, NEW legs \in [Legs -> GoodLegs(bars)], NEW held \in GoodLegs(bars)
      PROVE  [q EXCEPT !.pc = pc, !.leg = l, !.legs = legs, !.held = held] \in Fields(bars)
  BY DEF Fields
<1>5. ASSUME NEW held \in GoodLegs(bars) PROVE [q EXCEPT !.pc = pc, !.held = held] \in Fields(bars)
  BY DEF Fields
<1>6. ASSUME NEW l \in Legs PROVE [q EXCEPT !.pc = pc, !.leg = l] \in Fields(bars)
  BY DEF Fields
<1>7. [q EXCEPT !.pc = pc] \in Fields(bars)
  BY DEF Fields
<1> QED BY <1>1, <1>2, <1>3, <1>4, <1>5, <1>6, <1>7

LEMMA TypedAgain ==
  ASSUME TypeInv, case' = case, clock' \in ClockType(case.days, case.bars), pos' \in Rows, tagged' \subseteq Legs \X Strikes,
         state' \in StateType(case.days, case.bars), run' \in [Threads -> RunType(case.bars)],
         calls' \in 0..case.calls, hist' \in HistType(case.bars)
  PROVE  TypeInv'
BY DEF TypeInv, ClockType, Rows, StateType, GoodLegs, RunType, Fields, Fits, HistType

LEMMA Becomes ==
  ASSUME TypeInv, NEW t \in Threads, NEW r \in RunType(case.bars), Become(t, r)
  PROVE  run' \in [Threads -> RunType(case.bars)]
BY DEF TypeInv, Become

(* A step that leaves clock and broker alone. *)
LEMMA RunMoves ==
  ASSUME TypeInv, NEW t \in Threads, NEW r \in RunType(case.bars), Become(t, r), UNCHANGED <<case, clock, broker>>,
         state' \in StateType(case.days, case.bars), calls' \in 0..case.calls
  PROVE  TypeInv'
<1>1. run' \in [Threads -> RunType(case.bars)]
  BY Becomes
<1> QED BY <1>1, TypedAgain DEF TypeInv, broker

LEMMA RunTyped ==
  ASSUME TypeInv, NEW t \in Threads
  PROVE  /\ run[t] \in RunType(case.bars) /\ run[t] \in Fields(case.bars) /\ Fits(run[t])
         /\ state \in StateType(case.days, case.bars) /\ calls \in 0..case.calls
         /\ \A l \in Legs : state.leg[l] \in GoodLegs(case.bars) /\ run[t].legs[l] \in GoodLegs(case.bars)
         /\ run[t].held \in GoodLegs(case.bars) /\ case.bars \in Nat /\ case.days \in Nat
BY CaseTyped DEF TypeInv, RunType, StateType, Fields

LEMMA LegSaved ==
  ASSUME TypeInv, NEW l \in Legs, NEW leg \in GoodLegs(case.bars), SaveLeg(l, leg)
  PROVE  state' \in StateType(case.days, case.bars) /\ state'.leg \in [Legs -> GoodLegs(case.bars)]
<1>1. state \in StateType(case.days, case.bars)
  BY DEF TypeInv
<1>2. state.leg \in [Legs -> GoodLegs(case.bars)] /\ state' = [state EXCEPT !.leg = [state.leg EXCEPT ![l] = leg]]
  BY <1>1 DEF StateType, SaveLeg
<1>3. [state.leg EXCEPT ![l] = leg] \in [Legs -> GoodLegs(case.bars)]
  BY <1>2
<1> QED BY <1>1, <1>2, <1>3 DEF StateType

(* A request that starts with the legs of the file. *)
LEMMA StartsTyped ==
  ASSUME NEW bars \in Nat, NEW legs \in [Legs -> GoodLegs(bars)], NEW op \in {"tick", "start", "status"}
  PROVE  [Idle EXCEPT !.pc = "positions", !.op = op, !.legs = legs] \in RunType(bars)
<1> DEFINE r == [Idle EXCEPT !.pc = "positions", !.op = op, !.legs = legs]
<1>1. r \in Fields(bars) /\ r.pc = "positions"
  BY IdleTyped DEF RunType, Fields, Labels, Ops
<1> QED BY <1>1 DEF RunType, Fits

LEMMA TickBeginTypes == ASSUME TypeInv, NEW t \in Threads, TickBegin(t) PROVE TypeInv'
<1>1. state' \in StateType(case.days, case.bars)
  BY RunTyped, ResetGood DEF TickBegin, TypeInv, ClockType
<1>2. state'.leg \in [Legs -> GoodLegs(case.bars)]
  BY <1>1 DEF StateType
<1> QED BY <1>1, <1>2, RunTyped, StartsTyped, RunMoves DEF TickBegin

LEMMA AskedTypes == ASSUME TypeInv, NEW t \in Threads, NEW op, Asked(t, op) PROVE calls' \in 0..case.calls /\ run[t].pc = "idle"
BY CaseTyped DEF TypeInv, Asked

LEMMA StartTypes == ASSUME TypeInv, NEW t \in Threads, Start(t) PROVE TypeInv'
<1>1. state' \in StateType(case.days, case.bars)
  <2>1. DailyReset(state, clock.day) \in StateType(case.days, case.bars)
    BY RunTyped, ResetGood DEF TypeInv, ClockType
  <2> QED BY <2>1 DEF Start, StateType
<1>2. state'.leg \in [Legs -> GoodLegs(case.bars)] /\ calls' \in 0..case.calls
  BY <1>1, AskedTypes DEF StateType, Start
<1>3. [Idle EXCEPT !.pc = "positions", !.op = "start", !.legs = state'.leg] \in RunType(case.bars)
  BY <1>2, RunTyped, StartsTyped
<1>4. UNCHANGED <<case, clock, broker>>
  BY DEF Start
<1>5. Become(t, [Idle EXCEPT !.pc = "positions", !.op = "start", !.legs = state'.leg]) \/ UNCHANGED run
  BY DEF Start
<1>6. CASE UNCHANGED run
  BY <1>1, <1>2, <1>4, <1>6, TypedAgain DEF TypeInv, broker
<1> QED BY <1>1, <1>2, <1>3, <1>4, <1>5, <1>6, RunMoves

LEMMA StatusTypes == ASSUME TypeInv, NEW t \in Threads, Status(t) PROVE TypeInv'
<1>1. state.leg \in [Legs -> GoodLegs(case.bars)] /\ calls' \in 0..case.calls
  BY RunTyped, AskedTypes DEF StateType, Status
<1> QED BY <1>1, RunTyped, StartsTyped, RunMoves DEF Status

LEMMA ReadPositionsTypes == ASSUME TypeInv, NEW t \in Threads, ReadPositions(t) PROVE TypeInv'
<1> DEFINE faulty == case.live /\ case.readsFail
<1>1. \E read \in {"ok"} \cup (IF faulty THEN {"late", "failed"} ELSE {}), tags \in {tagged} \cup (IF faulty THEN {{}} ELSE {}) :
         Become(t, [run[t] EXCEPT !.pc = "reconcile", !.read = read, !.tags = tags,
                      !.rows = IF read = "failed" THEN Idle.rows ELSE pos])
  BY DEF ReadPositions
<1> HIDE DEF faulty
<1>2. PICK read \in {"ok"} \cup (IF faulty THEN {"late", "failed"} ELSE {}), tags \in {tagged} \cup (IF faulty THEN {{}} ELSE {}) :
         Become(t, [run[t] EXCEPT !.pc = "reconcile", !.read = read, !.tags = tags,
                      !.rows = IF read = "failed" THEN Idle.rows ELSE pos])
  BY <1>1
<1>3. read \in {"ok", "late", "failed"} /\ (tags = tagged \/ tags = {})
  BY <1>2
<1>4. tags \in SUBSET (Legs \X Strikes)
  BY <1>3 DEF TypeInv
<1> DEFINE rows == IF read = "failed" THEN Idle.rows ELSE pos
           r == [run[t] EXCEPT !.pc = "reconcile", !.read = read, !.tags = tags, !.rows = rows]
<1>5. Idle.rows \in Rows /\ pos \in Rows
  BY IdleTyped, RunTyped DEF RunType, Fields, TypeInv
<1>6. rows \in Rows
  BY <1>5
<1>7. Become(t, r)
  BY <1>2
<1> HIDE DEF rows
<1>8. r \in Fields(case.bars) /\ r.pc = "reconcile"
  <2>1. run[t] \in Fields(case.bars) /\ "reconcile" \in Labels /\ case.bars \in Nat
    BY RunTyped DEF Labels
  <2>2. r \in Fields(case.bars)
    BY <1>3, <1>4, <1>6, <2>1, FieldsKept
  <2>3. r.pc = "reconcile"
    BY <2>1 DEF Fields
  <2> QED BY <2>2, <2>3
<1>9. r \in RunType(case.bars)
  BY <1>8 DEF RunType, Fits
<1> HIDE DEF r
<1>10. UNCHANGED <<case, clock, broker>> /\ state' = state /\ calls' = calls
  BY DEF ReadPositions
<1> QED BY <1>7, <1>9, <1>10, RunTyped, RunMoves

LEMMA ReconcileTypes == ASSUME TypeInv, NEW t \in Threads, Reconcile(t) PROVE TypeInv'
<1>1. PICK patch : /\ \A l \in Legs : patch[l] \in Patches(run[t], l)
                   /\ state' = [state EXCEPT !.leg = [l \in Legs |-> Patched(state.leg[l], patch[l])]]
                   /\ \/ Become(t, Idle)
                      \/ Become(t, [Idle EXCEPT !.pc = "signals", !.op = "tick", !.legs = run[t].legs])
                      \/ Become(t, [Idle EXCEPT !.pc = "signals", !.op = "tick", !.legs = state'.leg])
  <2>1. PICK patch \in {f \in [Legs -> UNION {Patches(run[t], l) : l \in Legs}] : \A l \in Legs : f[l] \in Patches(run[t], l)} :
         LET saved == [l \in Legs |-> Patched(state.leg[l], patch[l])]
         IN  /\ state' = [state EXCEPT !.leg = saved]
             /\ Become(t, IF run[t].op # "tick" THEN Idle
                          ELSE [Idle EXCEPT !.pc = "signals", !.op = "tick",
                                  !.legs = IF \A l \in Legs : patch[l] = {} THEN run[t].legs ELSE saved])
    BY DEF Reconcile
  <2> DEFINE saved == [l \in Legs |-> Patched(state.leg[l], patch[l])]
  <2>2. state' = [state EXCEPT !.leg = saved]
    BY <2>1
  <2>3. state'.leg = saved
    BY <2>2, RunTyped DEF StateType
  <2>4. \/ Become(t, Idle)
        \/ Become(t, [Idle EXCEPT !.pc = "signals", !.op = "tick", !.legs = run[t].legs])
        \/ Become(t, [Idle EXCEPT !.pc = "signals", !.op = "tick", !.legs = saved])
    BY <2>1
  <2>5. \A l \in Legs : patch[l] \in Patches(run[t], l)
    BY <2>1
  <2> QED BY <2>2, <2>3, <2>4, <2>5
<1>2. ASSUME NEW l \in Legs PROVE Patched(state.leg[l], patch[l]) \in GoodLegs(case.bars)
  BY <1>1, RunTyped, PatchedIs, PatchGood
<1>3. state' \in StateType(case.days, case.bars) /\ state'.leg \in [Legs -> GoodLegs(case.bars)]
  <2> DEFINE saved == [l \in Legs |-> Patched(state.leg[l], patch[l])]
  <2>1. saved \in [Legs -> GoodLegs(case.bars)] /\ state' = [state EXCEPT !.leg = saved]
    BY <1>1, <1>2
  <2> HIDE DEF saved
  <2> QED BY <2>1, RunTyped DEF StateType
<1>4. ASSUME NEW legs \in [Legs -> GoodLegs(case.bars)]
      PROVE  [Idle EXCEPT !.pc = "signals", !.op = "tick", !.legs = legs] \in RunType(case.bars)
  <2> DEFINE r == [Idle EXCEPT !.pc = "signals", !.op = "tick", !.legs = legs]
  <2>1. r \in Fields(case.bars) /\ r.pc = "signals"
    BY IdleTyped, RunTyped DEF RunType, Fields, Labels
  <2> QED BY <2>1 DEF RunType, Fits
<1>5. run[t].legs \in [Legs -> GoodLegs(case.bars)] /\ calls' = calls /\ UNCHANGED <<case, clock, broker>>
  BY RunTyped DEF Fields, Reconcile
<1> QED BY <1>1, <1>3, <1>4, <1>5, RunTyped, IdleTyped, RunMoves

(* The ticks after their reads. *)
LEMMA TickAbortsTypes == ASSUME TypeInv, NEW t \in Threads, TickAborts(t) PROVE TypeInv'
<1>1. PICK atm \in {state.atm} \cup Strikes : state' = [state EXCEPT !.atm = atm]
  BY DEF TickAborts
<1>2. state' \in StateType(case.days, case.bars)
  BY <1>1, RunTyped DEF StateType
<1> QED BY <1>2, RunTyped, IdleTyped, RunMoves DEF TickAborts

LEMMA LaterTyped == ASSUME TypeInv, clock' \in Later PROVE clock' \in ClockType(case.days, case.bars) /\ clock'.bar >= clock.bar
BY CaseTyped DEF TypeInv, ClockType, Later, Phases

LEMMA CandlesTypes == ASSUME TypeInv, NEW t \in Threads, Candles(t) PROVE TypeInv'
<1> DEFINE morning == state.morning \/ clock'.phase # "early"
<1>1. clock' \in ClockType(case.days, case.bars)
  BY LaterTyped DEF Candles
<1>2. PICK m \in BOOLEAN : m = morning
  BY RunTyped DEF StateType
<1>3. \E atm \in Strikes, signal \in [Legs -> Signals] :
         /\ state' = [state EXCEPT !.morning = morning, !.atm = IF morning THEN @ ELSE atm]
         /\ Become(t, IF morning THEN [run[t] EXCEPT !.pc = "publish", !.atm = atm, !.signal = signal,
                                         !.bar = clock'.bar, !.force = clock'.phase = "force"]
                      ELSE Idle)
  BY DEF Candles
<1> HIDE DEF morning
<1>4. PICK atm \in Strikes, signal \in [Legs -> Signals] :
         /\ state' = [state EXCEPT !.morning = m, !.atm = IF m THEN @ ELSE atm]
         /\ Become(t, IF m THEN [run[t] EXCEPT !.pc = "publish", !.atm = atm, !.signal = signal,
                                   !.bar = clock'.bar, !.force = clock'.phase = "force"]
                      ELSE Idle)
  BY <1>2, <1>3
<1>5. state' \in StateType(case.days, case.bars)
  <2>1. PICK strike \in Strikes \cup {None} : strike = IF m THEN state.atm ELSE atm
    BY RunTyped DEF StateType
  <2>2. state' = [state EXCEPT !.morning = m, !.atm = strike]
    BY <1>4, <2>1
  <2> QED BY <2>2, RunTyped DEF StateType
<1>6. run' \in [Threads -> RunType(case.bars)]
  <2>1. CASE ~m
    BY <1>4, <2>1, Becomes, IdleTyped, RunTyped
  <2>2. CASE m
    <3>1. PICK force \in BOOLEAN : force = (clock'.phase = "force")
      OBVIOUS
    <3>2. PICK bar \in 0..case.bars : bar = clock'.bar
      BY <1>1, RunTyped DEF ClockType
    <3> DEFINE r == [run[t] EXCEPT !.pc = "publish", !.atm = atm, !.signal = signal, !.bar = bar, !.force = force]
    <3>3. Become(t, r)
      BY <1>4, <2>2, <3>1, <3>2
    <3>4. r \in Fields(case.bars) /\ r.pc = "publish" /\ r.atm = atm
      <4>1. run[t] \in Fields(case.bars) /\ "publish" \in Labels /\ case.bars \in Nat /\ signal \in [Legs -> Signals \cup {"none"}]
        BY RunTyped DEF Labels
      <4>2. r \in Fields(case.bars)
        BY <4>1, FieldsKept
      <4>3. r.pc = "publish" /\ r.atm = atm
        BY <4>1 DEF Fields
      <4> QED BY <4>2, <4>3
    <3>5. r \in RunType(case.bars)
      BY <3>4 DEF RunType, Fits
    <3> HIDE DEF r
    <3> QED BY <3>3, <3>5, Becomes
  <2> QED BY <2>1, <2>2
<1> QED BY <1>1, <1>5, <1>6, TypedAgain DEF Candles, TypeInv, broker

LEMMA PublishTypes == ASSUME TypeInv, NEW t \in Threads, Publish(t) PROVE TypeInv'
<1> DEFINE ready(l) == IF run[t].signal[l] = "exit" THEN "none" ELSE run[t].signal[l]
           leg == [l \in Legs |-> [run[t].legs[l] EXCEPT !.signal_bar = run[t].bar, !.ready = ready(l)]]
           r == [run[t] EXCEPT !.pc = "exit", !.leg = "ce", !.legs = leg]
<1>1. /\ state' = [state EXCEPT !.leg = leg, !.atm = run[t].atm] /\ Become(t, r)
      /\ run[t].pc = "publish"
  BY DEF Publish
<1>2. ASSUME NEW l \in Legs PROVE [run[t].legs[l] EXCEPT !.signal_bar = run[t].bar, !.ready = ready(l)] \in GoodLegs(case.bars)
  <2>1. ready(l) \in Signals \cup {"none"} /\ run[t].bar \in 0..case.bars
    BY RunTyped DEF Fields
  <2>2. run[t].legs[l] \in GoodLegs(case.bars)
    BY RunTyped
  <2> HIDE DEF ready
  <2> QED BY <2>1, <2>2 DEF GoodLegs
<1>3. leg \in [Legs -> GoodLegs(case.bars)] /\ run[t].atm \in Strikes
  BY <1>1, <1>2, RunTyped DEF Fits
<1> HIDE DEF leg
<1>4. state' \in StateType(case.days, case.bars)
  BY <1>1, <1>3, RunTyped DEF StateType
<1>5. r \in Fields(case.bars) /\ r.pc = "exit" /\ r.atm = run[t].atm
  <2>1. run[t] \in Fields(case.bars) /\ "exit" \in Labels /\ case.bars \in Nat /\ "ce" \in Legs
    BY RunTyped DEF Labels, Legs
  <2>2. r \in Fields(case.bars)
    BY <1>3, <2>1, FieldsKept
  <2>3. r.pc = "exit" /\ r.atm = run[t].atm
    BY <2>1 DEF Fields
  <2> QED BY <2>2, <2>3
<1>6. r \in RunType(case.bars)
  BY <1>3, <1>5 DEF RunType, Fits
<1> HIDE DEF r
<1>7. UNCHANGED <<case, clock, broker, calls>>
  BY DEF Publish
<1> QED BY <1>1, <1>4, <1>6, <1>7, RunTyped, RunMoves

(* Where a thread goes when the exit of a leg is over. *)
LEMMA AfterExitTyped ==
  ASSUME TypeInv, NEW t \in Threads, run[t].pc \in {"exit", "exitorder", "exitsave"}, run[t].op = "tick" => run[t].atm \in Strikes,
         NEW legs \in [Legs -> GoodLegs(case.bars)], state'.leg \in [Legs -> GoodLegs(case.bars)]
  PROVE  AfterExit(t, legs) \in RunType(case.bars)
<1>1. CASE run[t].op # "tick" \/ (run[t].leg = "pe" /\ run[t].force)
  BY <1>1, IdleTyped, RunTyped DEF AfterExit
<1>2. CASE ~(run[t].op # "tick" \/ (run[t].leg = "pe" /\ run[t].force))
  <2>1. PICK pc \in {"exit", "entry"} : pc = IF run[t].leg = "ce" THEN "exit" ELSE "entry"
    OBVIOUS
  <2>2. PICK next \in [Legs -> GoodLegs(case.bars)] : next = IF run[t].leg = "ce" THEN legs ELSE state'.leg
    OBVIOUS
  <2> DEFINE r == [run[t] EXCEPT !.pc = pc, !.leg = Other(run[t].leg), !.legs = next, !.held = DefaultLeg]
  <2>3. AfterExit(t, legs) = r
    BY <1>2, <2>1, <2>2 DEF AfterExit
  <2>4. Other(run[t].leg) \in Legs /\ DefaultLeg \in GoodLegs(case.bars)
    BY DefaultGood, RunTyped DEF Other, Legs
  <2>5. r \in Fields(case.bars) /\ r.pc = pc /\ r.atm = run[t].atm
    <3>1. run[t] \in Fields(case.bars) /\ pc \in Labels /\ case.bars \in Nat
      BY RunTyped DEF Labels
    <3>2. r \in Fields(case.bars)
      BY <2>4, <3>1, FieldsKept
    <3>3. r.pc = pc /\ r.atm = run[t].atm
      BY <3>1 DEF Fields
    <3> QED BY <3>2, <3>3
  <2>6. r \in RunType(case.bars)
    BY <1>2, <2>5 DEF RunType, Fits
  <2> QED BY <2>3, <2>6
<1> QED BY <1>1, <1>2

LEMMA ExitSkipTypes == ASSUME TypeInv, NEW t \in Threads, ExitSkip(t) PROVE TypeInv'
<1>1. run[t].legs \in [Legs -> GoodLegs(case.bars)] /\ state'.leg \in [Legs -> GoodLegs(case.bars)]
  BY RunTyped DEF Fields, ExitSkip, StateType
<1>2. AfterExit(t, run[t].legs) \in RunType(case.bars)
  BY <1>1, RunTyped, AfterExitTyped DEF ExitSkip, Fits
<1> QED BY <1>2, RunTyped, RunMoves DEF ExitSkip

LEMMA ExitBeginTypes == ASSUME TypeInv, NEW t \in Threads, ExitBegin(t) PROVE TypeInv'
<1> DEFINE leg == state.leg[run[t].leg]
           r == [run[t] EXCEPT !.pc = "exitorder", !.held = leg]
<1>1. run[t].legs \in [Legs -> GoodLegs(case.bars)] /\ state'.leg \in [Legs -> GoodLegs(case.bars)]
  BY RunTyped DEF Fields, ExitBegin, StateType
<1>2. AfterExit(t, run[t].legs) \in RunType(case.bars)
  BY <1>1, RunTyped, AfterExitTyped DEF ExitBegin, Fits
<1>3. leg \in GoodLegs(case.bars)
  BY RunTyped DEF Fields
<1> HIDE DEF leg
<1>4. r \in Fields(case.bars) /\ r.pc = "exitorder" /\ r.held = leg /\ r.atm = run[t].atm
  BY <1>3, RunTyped DEF Fields, Labels
<1>5. leg.open => r \in RunType(case.bars)
  BY <1>4, RunTyped DEF RunType, Fits, ExitBegin
<1> HIDE DEF r
<1>6. (leg.open /\ Become(t, r)) \/ Become(t, AfterExit(t, run[t].legs))
  BY DEF ExitBegin, leg, r
<1>7. UNCHANGED <<case, clock, broker, state, calls>>
  BY DEF ExitBegin
<1> QED BY <1>2, <1>5, <1>6, <1>7, RunTyped, RunMoves

LEMMA CloseTypes == ASSUME TypeInv, NEW t \in Threads, NEW l \in Legs, Close(t, l) PROVE TypeInv'
<1> DEFINE r == [Idle EXCEPT !.pc = "exitorder", !.op = "close", !.leg = l, !.held = state.leg[l]]
<1>1. r \in Fields(case.bars) /\ r.pc = "exitorder" /\ r.op = "close" /\ r.held = state.leg[l]
  BY IdleTyped, RunTyped DEF RunType, Fields, Labels, Ops
<1>2. r \in RunType(case.bars)
  BY <1>1 DEF RunType, Fits, Close
<1> HIDE DEF r
<1>3. calls' \in 0..case.calls
  BY AskedTypes DEF Close
<1>4. Become(t, r) /\ UNCHANGED <<case, clock, broker, state>>
  BY DEF Close, r
<1> QED BY <1>2, <1>3, <1>4, RunTyped, RunMoves

(* The leg that is saved as flat. *)
LEMMA ExitSaves ==
  ASSUME TypeInv, NEW t \in Threads, run[t].pc \in {"exitorder", "exitsave"}, SaveLeg(run[t].leg, Flattened(run[t].held)),
         Become(t, AfterExit(t, state'.leg)), UNCHANGED <<case, clock, broker, calls>>
  PROVE  TypeInv'
<1>1. Flattened(run[t].held) \in GoodLegs(case.bars) /\ run[t].leg \in Legs
  BY RunTyped, WritersGood DEF Fields
<1>2. state' \in StateType(case.days, case.bars) /\ state'.leg \in [Legs -> GoodLegs(case.bars)]
  BY <1>1, LegSaved
<1>3. AfterExit(t, state'.leg) \in RunType(case.bars)
  BY <1>2, RunTyped, AfterExitTyped DEF Fits
<1> QED BY <1>2, <1>3, RunTyped, RunMoves

LEMMA ExitFindsNoneTypes == ASSUME TypeInv, NEW t \in Threads, ExitFindsNone(t) PROVE TypeInv'
BY ExitSaves DEF ExitFindsNone

LEMMA ExitSaveTypes == ASSUME TypeInv, NEW t \in Threads, ExitSave(t) PROVE TypeInv'
BY ExitSaves DEF ExitSave

LEMMA ExitRefusedTypes == ASSUME TypeInv, NEW t \in Threads, ExitRefused(t) PROVE TypeInv'
<1>1. run[t].legs \in [Legs -> GoodLegs(case.bars)] /\ state'.leg \in [Legs -> GoodLegs(case.bars)]
  BY RunTyped DEF Fields, ExitRefused, StateType
<1>2. AfterExit(t, run[t].legs) \in RunType(case.bars)
  BY <1>1, RunTyped, AfterExitTyped DEF ExitRefused, Fits
<1> QED BY <1>2, RunTyped, RunMoves DEF ExitRefused

LEMMA ExitAcceptedTypes == ASSUME TypeInv, NEW t \in Threads, ExitAccepted(t) PROVE TypeInv'
<1> DEFINE l == run[t].leg
           s == run[t].held.strike
           r == [run[t] EXCEPT !.pc = "exitsave"]
<1>1. pos' = [pos EXCEPT ![l][s] = 0] /\ hist' = [hist EXCEPT !.exitBar[l] = run[t].held.signal_bar]
  BY DEF ExitAccepted
<1>2. pos' \in Rows
  <2>1. l \in Legs /\ s \in Strikes
    BY RunTyped DEF Fields, GoodLegs, Fits, ExitAccepted
  <2> HIDE DEF l, s
  <2> QED BY <1>1, <2>1 DEF TypeInv, Rows
<1>3. hist' \in HistType(case.bars)
  <2>1. run[t].held.signal_bar \in 0..case.bars
    BY RunTyped DEF GoodLegs
  <2> QED BY <1>1, <2>1 DEF TypeInv, HistType
<1>4. r \in RunType(case.bars)
  <2>1. run[t] \in Fields(case.bars) /\ "exitsave" \in Labels /\ case.bars \in Nat
    BY RunTyped DEF Labels
  <2>2. r \in Fields(case.bars)
    BY <2>1, FieldsKept
  <2>3. r.pc = "exitsave" /\ r.op = run[t].op /\ r.atm = run[t].atm /\ r.held = run[t].held
    BY <2>1 DEF Fields
  <2> QED BY <2>2, <2>3, RunTyped DEF RunType, Fits, ExitAccepted
<1>5. Become(t, r)
  BY DEF ExitAccepted, Goto
<1> HIDE DEF r
<1>6. run' \in [Threads -> RunType(case.bars)]
  BY <1>4, <1>5, Becomes
<1> QED BY <1>2, <1>3, <1>6, TypedAgain DEF ExitAccepted, TypeInv

LEMMA AfterEntryTyped ==
  ASSUME TypeInv, NEW t \in Threads, run[t].pc \in {"entry", "entrysave"}
  PROVE  AfterEntry(t) \in RunType(case.bars)
<1> DEFINE r == [run[t] EXCEPT !.pc = "entry", !.leg = "pe"]
<1>1. run[t] \in Fields(case.bars) /\ "entry" \in Labels /\ "pe" \in Legs /\ case.bars \in Nat
  BY RunTyped DEF Labels, Legs
<1>2. r \in Fields(case.bars)
  BY <1>1, FieldsKept
<1>3. r.pc = "entry" /\ r.atm = run[t].atm
  BY <1>1 DEF Fields
<1>4. r \in RunType(case.bars)
  BY <1>2, <1>3, RunTyped DEF RunType, Fits
<1> QED BY <1>4, IdleTyped, RunTyped DEF AfterEntry

LEMMA EntrySkipTypes == ASSUME TypeInv, NEW t \in Threads, EntrySkip(t) PROVE TypeInv'
BY AfterEntryTyped, RunTyped, RunMoves DEF EntrySkip

LEMMA EntryAcceptedTypes == ASSUME TypeInv, NEW t \in Threads, EntryAccepted(t) PROVE TypeInv'
<1> DEFINE l == run[t].leg
           s == run[t].atm
           q == Quantity(run[t].signal[l])
           r == [run[t] EXCEPT !.pc = "entrysave"]
<1>1. l \in Legs /\ s \in Strikes /\ q \in -1..1 /\ run[t].bar \in 0..case.bars
  BY RunTyped DEF Fields, Fits, EntryAccepted, Quantity
<1>2. \/ UNCHANGED broker
      \/ /\ pos' = [pos EXCEPT ![l][s] = q] /\ tagged' = tagged \cup {<<l, s>>}
         /\ hist' = [hist EXCEPT !.entries[l] = @ + 1, !.entryBar[l] = run[t].bar]
  BY DEF EntryAccepted
<1> HIDE DEF l, s, q
<1>3. pos' \in Rows /\ tagged' \subseteq Legs \X Strikes
  BY <1>1, <1>2 DEF TypeInv, Rows, broker
<1>4. hist' \in HistType(case.bars)
  <2>1. PICK n \in Nat : n = hist.entries[l] + 1
    BY <1>1 DEF TypeInv, HistType
  <2>2. CASE UNCHANGED broker
    BY <2>2 DEF TypeInv, broker
  <2>3. CASE hist' = [hist EXCEPT !.entries[l] = n, !.entryBar[l] = run[t].bar]
    BY <1>1, <2>3 DEF TypeInv, HistType
  <2> QED BY <1>2, <2>1, <2>2, <2>3
<1>5. r \in RunType(case.bars)
  <2>1. run[t] \in Fields(case.bars) /\ "entrysave" \in Labels /\ case.bars \in Nat
    BY RunTyped DEF Labels
  <2>2. r \in Fields(case.bars)
    BY <2>1, FieldsKept
  <2>3. r.pc = "entrysave" /\ r.atm = run[t].atm
    BY <2>1 DEF Fields
  <2> QED BY <2>2, <2>3, RunTyped DEF RunType, Fits, EntryAccepted
<1>6. Become(t, r)
  BY DEF EntryAccepted, Goto
<1> HIDE DEF r
<1>7. run' \in [Threads -> RunType(case.bars)]
  BY <1>5, <1>6, Becomes
<1> QED BY <1>3, <1>4, <1>7, TypedAgain DEF EntryAccepted, TypeInv

LEMMA EntrySaveTypes == ASSUME TypeInv, NEW t \in Threads, EntrySave(t) PROVE TypeInv'
<1>1. Entered(state.leg[run[t].leg], run[t].atm) \in GoodLegs(case.bars) /\ run[t].leg \in Legs
  BY RunTyped, WritersGood DEF EntrySave, Fields, Fits
<1>2. state' \in StateType(case.days, case.bars)
  BY <1>1, LegSaved DEF EntrySave
<1> QED BY <1>2, AfterEntryTyped, RunTyped, RunMoves DEF EntrySave

(* The requests that only write, and those that begin. *)
LEMMA ShipTypes == ASSUME TypeInv, NEW t \in Threads, NEW l \in Legs, Ship(t, l) PROVE TypeInv'
<1> DEFINE signal == [Idle.signal EXCEPT ![l] = state.leg[l].ready]
           r == [Idle EXCEPT !.pc = "entry", !.op = "ship", !.leg = l, !.atm = state.atm, !.signal = signal]
<1>1. signal \in [Legs -> Signals \cup {"none"}]
  <2>1. state.leg[l].ready \in Signals \cup {"none"}
    BY RunTyped DEF GoodLegs
  <2> QED BY <2>1 DEF Idle
<1>2. Become(t, r) /\ UNCHANGED <<case, clock, broker, state>> /\ state.atm # None
  BY DEF Ship
<1> HIDE DEF signal
<1>3. state.atm \in Strikes
  BY <1>2, RunTyped DEF StateType
<1>4. r \in Fields(case.bars)
  BY <1>1, <1>3, IdleTyped, RunTyped DEF RunType, Fields, Labels, Ops
<1>5. r \in RunType(case.bars)
  <2>1. r.pc = "entry" /\ r.atm = state.atm
    BY DEF Idle
  <2> QED BY <1>3, <1>4, <2>1 DEF RunType, Fits
<1> HIDE DEF r
<1>6. calls' \in 0..case.calls
  BY AskedTypes DEF Ship
<1> QED BY <1>2, <1>5, <1>6, RunTyped, RunMoves

LEMMA RequestWrites ==
  ASSUME TypeInv, UNCHANGED <<case, clock, broker, run>>, calls' \in 0..case.calls, state' \in StateType(case.days, case.bars)
  PROVE  TypeInv'
BY TypedAgain DEF TypeInv, broker

LEMMA StopTypes == ASSUME TypeInv, NEW t \in Threads, Stop(t) PROVE TypeInv'
<1>1. state' \in StateType(case.days, case.bars)
  BY RunTyped DEF Stop, StateType
<1> QED BY <1>1, AskedTypes, RequestWrites DEF Stop

LEMMA UnlinkTypes == ASSUME TypeInv, NEW t \in Threads, NEW l \in Legs, Unlink(t, l) PROVE TypeInv'
<1>1. state' \in StateType(case.days, case.bars)
  BY RunTyped, WritersGood, LegSaved DEF Unlink
<1> QED BY <1>1, AskedTypes, RequestWrites DEF Unlink

LEMMA DismissTypes == ASSUME TypeInv, NEW t \in Threads, NEW l \in Legs, Dismiss(t, l) PROVE TypeInv'
<1>1. state.leg[l] \in GoodLegs(case.bars)
  BY RunTyped
<1>2. [state.leg[l] EXCEPT !.blocked = TRUE, !.ready = "none"] \in GoodLegs(case.bars)
  BY <1>1 DEF GoodLegs
<1>3. state' \in StateType(case.days, case.bars)
  BY <1>2, LegSaved DEF Dismiss
<1> QED BY <1>3, AskedTypes, RequestWrites DEF Dismiss

LEMMA AdoptTypes == ASSUME TypeInv, NEW t \in Threads, NEW l \in Legs, Adopt(t, l) PROVE TypeInv'
<1> DEFINE r == [Idle EXCEPT !.pc = "adopt", !.op = "adopt", !.leg = l, !.held = state.leg[l], !.rows = pos]
<1>1. state.leg[l] \in GoodLegs(case.bars) /\ pos \in Rows
  BY RunTyped DEF TypeInv
<1>2. r \in Fields(case.bars) /\ r.pc = "adopt"
  BY <1>1, IdleTyped, RunTyped DEF RunType, Fields, Labels, Ops
<1>3. r \in RunType(case.bars)
  BY <1>2 DEF RunType, Fits
<1>4. Become(t, r) /\ UNCHANGED <<case, clock, broker, state>> /\ calls' \in 0..case.calls
  BY AskedTypes DEF Adopt
<1> HIDE DEF r
<1> QED BY <1>3, <1>4, RunTyped, RunMoves

LEMMA AdoptSaveTypes == ASSUME TypeInv, NEW t \in Threads, AdoptSave(t) PROVE TypeInv'
<1>1. state' \in StateType(case.days, case.bars)
  <2>1. \/ UNCHANGED state
        \/ \E s \in Held(run[t], run[t].leg) : SaveLeg(run[t].leg, FromBroker(run[t].held, s))
    BY DEF AdoptSave
  <2>2. run[t].leg \in Legs /\ \A s \in Held(run[t], run[t].leg) : FromBroker(run[t].held, s) \in GoodLegs(case.bars)
    BY RunTyped, WritersGood DEF Fields, Held
  <2> QED BY <2>1, <2>2, RunTyped, LegSaved
<1> QED BY <1>1, IdleTyped, RunTyped, RunMoves DEF AdoptSave

(* The day, the hand and the crash. *)
LEMMA OutsideTypes == ASSUME TypeInv, NewDay \/ TradeByHand \/ Crash PROVE TypeInv'
<1>1. CASE NewDay
  <2>1. clock' \in ClockType(case.days, case.bars)
    <3>1. PICK d \in 1..case.days : d = clock.day + 1
      BY <1>1, CaseTyped DEF TypeInv, ClockType, NewDay
    <3>2. clock' = [clock EXCEPT !.day = d, !.phase = "early"]
      BY <1>1, <3>1 DEF NewDay
    <3> QED BY <3>2 DEF TypeInv, ClockType, Phases
  <2>2. pos' \in Rows
    BY <1>1 DEF TypeInv, NewDay, Rows
  <2>3. hist' \in HistType(case.bars)
    BY <1>1, CaseTyped DEF TypeInv, NewDay, HistType, None
  <2>4. tagged' \subseteq Legs \X Strikes
    BY <1>1 DEF NewDay
  <2> QED BY <1>1, <2>1, <2>2, <2>3, <2>4, TypedAgain DEF NewDay, TypeInv
<1>2. CASE TradeByHand
  <2>1. PICK l \in Legs, s \in Strikes : pos' = [pos EXCEPT ![l][s] = IF @ = 0 THEN 1 ELSE 0]
    BY <1>2 DEF TradeByHand
  <2>2. PICK q \in {0, 1} : q = IF pos[l][s] = 0 THEN 1 ELSE 0
    OBVIOUS
  <2>3. pos' \in Rows
    <3>1. pos' = [pos EXCEPT ![l][s] = q]
      BY <2>1, <2>2
    <3> QED BY <3>1 DEF TypeInv, Rows
  <2>4. calls' \in 0..case.calls
    BY <1>2, CaseTyped DEF TradeByHand, TypeInv
  <2> QED BY <1>2, <2>3, <2>4, TypedAgain DEF TradeByHand, TypeInv
<1>3. CASE Crash
  <2>1. run' \in [Threads -> RunType(case.bars)]
    BY <1>3, IdleTyped, CaseTyped DEF Crash, TypeInv
  <2>2. calls' \in 0..case.calls
    BY <1>3, CaseTyped DEF Crash, TypeInv
  <2> QED BY <1>3, <2>1, <2>2, TypedAgain DEF Crash, TypeInv, broker
<1> QED BY <1>1, <1>2, <1>3

LEMMA InitTypes == Init => TypeInv
<1> SUFFICES ASSUME Init PROVE TypeInv
  OBVIOUS
<1>1. case \in Cases /\ case.bars \in Nat \ {0} /\ case.days \in Nat \ {0} /\ case.calls \in Nat
  BY CaseTyped DEF Init
<1>2. clock \in ClockType(case.days, case.bars)
  BY <1>1 DEF Init, ClockType, Phases
<1>3. pos \in Rows /\ tagged \subseteq Legs \X Strikes /\ calls \in 0..case.calls
  BY <1>1 DEF Init, Rows
<1>4. run \in [Threads -> RunType(case.bars)]
  BY <1>1, IdleTyped DEF Init
<1>5. hist \in HistType(case.bars)
  BY <1>1 DEF Init, HistType, None
<1>6. state \in StateType(case.days, case.bars)
  <2>1. DefaultState.leg \in [Legs -> GoodLegs(case.bars)]
    BY <1>1, IdleTyped
  <2>2. DefaultState \in StateType(case.days, case.bars)
    BY <1>1, <2>1 DEF DefaultState, StateType, None
  <2>3. [DefaultState EXCEPT !.runner = TRUE] \in StateType(case.days, case.bars)
    BY <2>2 DEF StateType
  <2> QED BY <2>2, <2>3 DEF Init
<1> QED BY <1>1, <1>2, <1>3, <1>4, <1>5, <1>6 DEF TypeInv

LEMMA StepTypes == ASSUME TypeInv, [Next]_vars PROVE TypeInv'
<1>1. CASE UNCHANGED vars
  BY <1>1, TypedAgain DEF vars, TypeInv
<1>2. ASSUME NEW t \in Threads, TickBegin(t) PROVE TypeInv'
  BY <1>2, TickBeginTypes
<1>3. ASSUME NEW t \in Threads, Request(t) PROVE TypeInv'
  BY <1>3, StartTypes, StatusTypes, StopTypes, CloseTypes, ShipTypes, UnlinkTypes, DismissTypes, AdoptTypes DEF Request
<1>4. ASSUME NEW t \in Threads, Continue(t) PROVE TypeInv'
  BY <1>4, ReadPositionsTypes, ReconcileTypes, TickAbortsTypes, CandlesTypes, PublishTypes, ExitSkipTypes, ExitBeginTypes,
     ExitFindsNoneTypes, ExitAcceptedTypes, ExitSaveTypes, ExitRefusedTypes, EntrySkipTypes, EntryAcceptedTypes,
     EntrySaveTypes, AdoptSaveTypes DEF Continue
<1> QED BY <1>1, <1>2, <1>3, <1>4, OutsideTypes DEF Next

(* The types hold in every behaviour, and a leg of the file is open exactly
   when it names a symbol: each of the six ways a leg is written keeps that
   (DEFAULT_LEG, _exit_leg, _flat_leg_from_broker_sync, _leg_patch_from_broker,
   _enter_leg, reset_daily_state_if_needed). *)
THEOREM TypeCorrect == Spec => []TypeOK
<1>1. Init => TypeInv
  BY InitTypes
<1>2. TypeInv /\ [Next]_vars => TypeInv'
  BY StepTypes
<1> QED BY <1>1, <1>2, TypeCorrectly, PTL DEF Spec

-----------------------------------------------------------------------------
(* The algo's own ticks.  From the first broker request of a tick to its end
   the copies the tick holds are what the file says, except of the call leg
   when the put leg is at its entry: the loop keeps its old dict.  The file
   counts every entry the broker accepted today and remembers the bar of the
   last exit, but for the time between an accepted order and its save. *)
Marked == {"exit", "exitorder", "exitsave", "entry", "entrysave"}

Ticking(r) ==
    /\ r.pc # "adopt"
    /\ r.pc # "idle" => r.op = "tick" /\ state.session = clock.day
    /\ r.pc \in Marked \cup {"publish"} => r.bar = clock.bar
    /\ r.pc \in {"exitorder", "exitsave"} => r.held = state.leg[r.leg]

Fresh == \/ state.session = clock.day
         \/ \A l \in Legs : hist.entries[l] = 0 /\ hist.exitBar[l] = None

InSync(r, l) == r.pc = "idle" \/ r.legs[l] = state.leg[l]
                \/ (r.pc \in {"entry", "entrysave"} /\ r.leg = "pe" /\ l = "ce")

Counted(r, l) ==
    /\ hist.entries[l] <= case.maxRe + 1
    /\ \/ hist.entries[l] <= state.leg[l].entries
       \/ r.pc = "entrysave" /\ r.leg = l /\ hist.entries[l] <= state.leg[l].entries + 1

Remembered(r, l) ==
    \/ hist.exitBar[l] < clock.bar /\ ~(r.pc = "exitsave" /\ r.leg = l)
    \/ hist.exitBar[l] = clock.bar /\ hist.exitBar[l] <= state.leg[l].exit_bar /\ ~(r.pc = "entrysave" /\ r.leg = l)
    \/ hist.exitBar[l] = clock.bar /\ r.pc = "exitsave" /\ r.leg = l

AloneAt(r, l) ==
    /\ InSync(r, l) /\ Counted(r, l) /\ Remembered(r, l)
    /\ r.pc \in Marked => state.leg[l].signal_bar = clock.bar

AloneInv == Alone =>
    /\ run[Api].pc = "idle" /\ Ticking(run[Scheduler]) /\ Fresh
    /\ \A l \in Legs : AloneAt(run[Scheduler], l)

LEMMA AloneAgain ==
  ASSUME case' = case, run'[Api].pc = "idle", Ticking(run[Scheduler])', Fresh', \A l \in Legs : AloneAt(run[Scheduler], l)'
  PROVE  AloneInv'
BY DEF AloneInv

LEMMA AloneHas ==
  ASSUME TypeInv, Alone, AloneInv
  PROVE  /\ run[Api].pc = "idle" /\ Ticking(run[Scheduler]) /\ Fresh
         /\ \A l \in Legs : AloneAt(run[Scheduler], l)
         /\ \A t \in Threads : run[t].pc # "idle" => t = Scheduler
         /\ Scheduler \in Threads /\ clock.bar \in Nat /\ clock.bar > None
BY CaseTyped DEF AloneInv, Threads, TypeInv, ClockType, None

LEMMA SchedulerBecomes ==
  ASSUME TypeInv, NEW q, Become(Scheduler, q)
  PROVE  run'[Scheduler] = q /\ run'[Api] = run[Api]
BY ThreadsAssumption DEF TypeInv, Become, Threads

(* A step of a tick with no order in it: the counts stay. *)
LEMMA AloneMoves ==
  ASSUME TypeInv, TypeInv', Alone, AloneInv, UNCHANGED <<case, clock, hist>>, state'.session = state.session,
         run[Scheduler].pc \notin {"exitsave", "entrysave"},
         NEW q, Become(Scheduler, q), q.pc \notin {"exitsave", "entrysave", "adopt"},
         q.pc # "idle" => q.op = "tick" /\ state.session = clock.day,
         q.pc \in Marked \cup {"publish"} => q.bar = clock.bar,
         q.pc = "exitorder" => q.held = state'.leg[q.leg],
         \A l \in Legs : /\ state'.leg[l].entries = state.leg[l].entries
                         /\ state'.leg[l].exit_bar >= state.leg[l].exit_bar \/ state'.leg[l].exit_bar = clock.bar
                         /\ \/ q.pc = "idle" \/ q.legs[l] = state'.leg[l]
                            \/ (q.pc = "entry" /\ q.leg = "pe" /\ l = "ce")
                         /\ q.pc \in Marked => state'.leg[l].signal_bar = clock.bar
  PROVE  AloneInv'
<1>1. run'[Scheduler] = q /\ run'[Api].pc = "idle"
  BY SchedulerBecomes, AloneHas
<1>2. Ticking(run[Scheduler])'
  BY <1>1 DEF Ticking
<1>3. Fresh'
  BY AloneHas DEF Fresh
<1>4. ASSUME NEW l \in Legs PROVE AloneAt(run[Scheduler], l)'
  <2>1. AloneAt(run[Scheduler], l)
    BY AloneHas
  <2>2. InSync(run[Scheduler], l)'
    BY <1>1 DEF InSync
  <2>3. Counted(run[Scheduler], l)'
    BY <1>1, <2>1 DEF AloneAt, Counted
  <2>4. Remembered(run[Scheduler], l)'
    <3>1. hist.exitBar[l] \in Nat /\ state.leg[l].exit_bar \in Nat /\ state'.leg[l].exit_bar \in Nat /\ clock.bar \in Nat
      BY CaseTyped DEF TypeInv, HistType, StateType, GoodLegs, ClockType
    <3> QED BY <1>1, <2>1, <3>1 DEF AloneAt, Remembered
  <2>5. run'[Scheduler].pc \in Marked => state'.leg[l].signal_bar = clock'.bar
    BY <1>1
  <2> QED BY <2>2, <2>3, <2>4, <2>5 DEF AloneAt
<1> QED BY <1>1, <1>2, <1>3, <1>4, AloneAgain

(* What a tick is after the exit and after the entry of a leg. *)
LEMMA AfterExitIs ==
  ASSUME TypeInv, NEW t \in Threads, run[t].op = "tick", NEW legs, NEW q, q = AfterExit(t, legs)
  PROVE  \/ q = Idle
         \/ /\ q.pc = "exit" /\ q.leg = "pe" /\ q.legs = legs
            /\ q.op = "tick" /\ q.bar = run[t].bar /\ q.signal = run[t].signal
         \/ /\ q.pc = "entry" /\ q.leg = "ce" /\ q.legs = state'.leg
            /\ q.op = "tick" /\ q.bar = run[t].bar /\ q.signal = run[t].signal
<1>1. run[t] \in Fields(case.bars) /\ run[t].leg \in {"ce", "pe"}
  BY RunTyped DEF Fields, Legs
<1> DEFINE next == [run[t] EXCEPT !.pc = IF run[t].leg = "ce" THEN "exit" ELSE "entry", !.leg = Other(run[t].leg),
                            !.legs = IF run[t].leg = "ce" THEN legs ELSE state'.leg, !.held = DefaultLeg]
<1>2. q = Idle \/ q = next
  BY DEF AfterExit
<1>3. /\ next.op = "tick" /\ next.bar = run[t].bar /\ next.signal = run[t].signal
      /\ next.pc = (IF run[t].leg = "ce" THEN "exit" ELSE "entry") /\ next.leg = Other(run[t].leg)
      /\ next.legs = IF run[t].leg = "ce" THEN legs ELSE state'.leg
  BY <1>1 DEF Fields
<1> HIDE DEF next
<1> QED BY <1>1, <1>2, <1>3 DEF Other

LEMMA AfterEntryIs ==
  ASSUME TypeInv, NEW t \in Threads, NEW q, q = AfterEntry(t)
  PROVE  \/ q = Idle
         \/ /\ q.pc = "entry" /\ q.leg = "pe" /\ run[t].leg = "ce" /\ q.legs = run[t].legs
            /\ q.op = "tick" /\ q.bar = run[t].bar /\ q.signal = run[t].signal
<1>1. run[t] \in Fields(case.bars)
  BY RunTyped
<1> DEFINE next == [run[t] EXCEPT !.pc = "entry", !.leg = "pe"]
<1>2. next.pc = "entry" /\ next.leg = "pe" /\ next.legs = run[t].legs /\ next.op = run[t].op /\ next.bar = run[t].bar
      /\ next.signal = run[t].signal
  BY <1>1 DEF Fields
<1> QED BY <1>2 DEF AfterEntry

LEMMA IdleIs == Idle.pc = "idle"
BY DEF Idle

LEMMA AloneTickBegin == ASSUME TypeInv, TypeInv', Alone, AloneInv, NEW t \in Threads, TickBegin(t) PROVE AloneInv'
<1> DEFINE q == [Idle EXCEPT !.pc = "positions", !.op = "tick", !.legs = state'.leg]
<1>1. /\ state' = DailyReset(state, clock.day) /\ Become(Scheduler, q) /\ run[Scheduler].pc = "idle"
      /\ UNCHANGED <<case, clock, hist>>
  BY DEF TickBegin, broker
<1>2. q.pc = "positions" /\ q.op = "tick" /\ q.legs = state'.leg
  BY DEF Idle
<1> HIDE DEF q
<1>3. run'[Scheduler] = q /\ run'[Api].pc = "idle"
  BY <1>1, SchedulerBecomes, AloneHas
<1>4. /\ state'.session = clock.day
      /\ state.session = clock.day => state' = state
  <2>1. state \in StateType(case.days, case.bars)
    BY DEF TypeInv
  <2> QED BY <1>1, <2>1 DEF DailyReset, StateType, DefaultState
<1>5. Ticking(run[Scheduler])' /\ Fresh'
  BY <1>1, <1>2, <1>3, <1>4 DEF Ticking, Fresh, Marked
<1>6. ASSUME NEW l \in Legs PROVE AloneAt(run[Scheduler], l)'
  <2>1. AloneAt(run[Scheduler], l) /\ Fresh
    BY AloneHas
  <2>2. InSync(run[Scheduler], l)'
    BY <1>2, <1>3 DEF InSync
  <2>3. Counted(run[Scheduler], l)'
    <3>1. state'.leg[l].entries >= 0 /\ case.maxRe + 1 >= 0
      BY CaseTyped DEF TypeInv, StateType, GoodLegs
    <3> QED BY <1>1, <1>2, <1>3, <1>4, <2>1, <3>1 DEF AloneAt, Counted, Fresh
  <2>4. Remembered(run[Scheduler], l)'
    <3>1. clock.bar > None /\ clock' = clock
      BY <1>1, AloneHas
    <3> QED BY <1>1, <1>2, <1>3, <1>4, <2>1, <3>1 DEF AloneAt, Remembered, Fresh
  <2> QED BY <1>2, <1>3, <2>2, <2>3, <2>4 DEF AloneAt, Marked
<1> QED BY <1>1, <1>3, <1>5, <1>6, AloneAgain

(* A thread that goes on with a tick is the scheduler, and its copies are in
   step with the file. *)
LEMMA AloneTick ==
  ASSUME TypeInv, Alone, AloneInv, NEW t \in Threads, run[t].pc # "idle"
  PROVE  /\ t = Scheduler /\ run[t].op = "tick" /\ state.session = clock.day
         /\ run[t].pc \in Marked \cup {"publish"} => run[t].bar = clock.bar
         /\ run[t].pc \in {"exitorder", "exitsave"} => run[t].held = state.leg[run[t].leg]
         /\ \A l \in Legs : /\ run[t].pc \notin {"entry", "entrysave"} => run[t].legs[l] = state.leg[l]
                            /\ run[t].leg = l => run[t].legs[l] = state.leg[l]
                            /\ (run[t].leg = "ce") => run[t].legs[l] = state.leg[l]
                            /\ run[t].pc \in Marked => state.leg[l].signal_bar = clock.bar
<1>1. t = Scheduler /\ Ticking(run[t]) /\ \A l \in Legs : AloneAt(run[t], l)
  BY AloneHas
<1>2. /\ run[t].op = "tick" /\ state.session = clock.day
      /\ run[t].pc \in Marked \cup {"publish"} => run[t].bar = clock.bar
      /\ run[t].pc \in {"exitorder", "exitsave"} => run[t].held = state.leg[run[t].leg]
  BY <1>1 DEF Ticking
<1>3. ASSUME NEW l \in Legs
      PROVE  /\ run[t].pc \notin {"entry", "entrysave"} => run[t].legs[l] = state.leg[l]
             /\ run[t].leg = l => run[t].legs[l] = state.leg[l]
             /\ (run[t].leg = "ce") => run[t].legs[l] = state.leg[l]
             /\ run[t].pc \in Marked => state.leg[l].signal_bar = clock.bar
  BY <1>1 DEF AloneAt, InSync
<1> QED BY <1>1, <1>2, <1>3

LEMMA BarsTyped ==
  ASSUME TypeInv, NEW l \in Legs
  PROVE  state.leg[l].exit_bar \in Nat /\ state.leg[l].entries \in Nat /\ state.leg[l].signal_bar \in Nat
BY CaseTyped DEF TypeInv, StateType, GoodLegs

LEMMA AloneReadPositions == ASSUME TypeInv, TypeInv', Alone, AloneInv, NEW t \in Threads, ReadPositions(t) PROVE AloneInv'
<1>1. t = Scheduler /\ run[t].op = "tick" /\ state.session = clock.day /\ \A l \in Legs : run[t].legs[l] = state.leg[l]
  BY AloneTick DEF ReadPositions
<1>2. PICK read, tags, rows :
         Become(t, [run[t] EXCEPT !.pc = "reconcile", !.read = read, !.tags = tags, !.rows = rows])
  BY DEF ReadPositions
<1> DEFINE q == [run[t] EXCEPT !.pc = "reconcile", !.read = read, !.tags = tags, !.rows = rows]
<1>3. q.pc = "reconcile" /\ q.op = run[t].op /\ q.legs = run[t].legs
  <2>1. run[t] \in Fields(case.bars)
    BY RunTyped
  <2> QED BY <2>1 DEF Fields
<1>4. Become(Scheduler, q)
  BY <1>1, <1>2
<1> HIDE DEF q
<1>5. UNCHANGED <<case, clock, hist>> /\ state' = state /\ run[t].pc = "positions"
  BY DEF ReadPositions, broker
<1>6. \A l \in Legs : state'.leg[l].exit_bar >= state.leg[l].exit_bar
  BY <1>5, BarsTyped
<1> QED BY <1>1, <1>3, <1>4, <1>5, <1>6, AloneMoves DEF Marked

LEMMA PatchKeeps ==
  ASSUME NEW r, NEW l, NEW patch \in Patches(r, l), NEW p \in patch, NEW bars \in Nat, r.legs[l] \in GoodLegs(bars)
  PROVE  p.entries = r.legs[l].entries /\ p.exit_bar = r.legs[l].exit_bar
<1>1. \/ p = r.legs[l] \/ p = SyncedFlat(r.legs[l]) \/ \E s \in Held(r, l) : p = FromBroker(r.legs[l], s)
  <2>1. CASE case.live
    <3>1. \/ patch = {} \/ patch = {r.legs[l]} \/ patch = {SyncedFlat(r.legs[l])}
          \/ \E s \in Held(r, l) : patch = {FromBroker(r.legs[l], s)}
      BY <2>1 DEF Patches, LivePatches
    <3> QED BY <3>1
  <2>2. CASE ~case.live
    <3>1. patch = {} \/ patch = {r.legs[l]} \/ patch = {SyncedFlat(r.legs[l])}
      BY <2>2 DEF Patches, PaperPatches
    <3> QED BY <3>1
  <2> QED BY <2>1, <2>2
<1> QED BY <1>1 DEF SyncedFlat, FromBroker, GoodLegs

(* What Reconcile does, without its enumeration of the patches. *)
LEMMA ReconcileIs ==
  ASSUME TypeInv, NEW t \in Threads, Reconcile(t)
  PROVE  \E patch : /\ \A l \in Legs : patch[l] \in Patches(run[t], l) /\ state'.leg[l] = Patched(state.leg[l], patch[l])
                    /\ run[t].op # "tick" => Become(t, Idle)
                    /\ run[t].op = "tick" => \E q : /\ Become(t, q) /\ q.pc = "signals" /\ q.op = "tick"
                                                    /\ \/ q.legs = run[t].legs /\ \A l \in Legs : patch[l] = {}
                                                       \/ \A l \in Legs : q.legs[l] = state'.leg[l]
<1>1. PICK patch \in {f \in [Legs -> UNION {Patches(run[t], l) : l \in Legs}] : \A l \in Legs : f[l] \in Patches(run[t], l)} :
       LET saved == [l \in Legs |-> Patched(state.leg[l], patch[l])]
       IN  /\ state' = [state EXCEPT !.leg = saved]
           /\ Become(t, IF run[t].op # "tick" THEN Idle
                        ELSE [Idle EXCEPT !.pc = "signals", !.op = "tick",
                                !.legs = IF \A l \in Legs : patch[l] = {} THEN run[t].legs ELSE saved])
  BY DEF Reconcile
<1> DEFINE saved == [l \in Legs |-> Patched(state.leg[l], patch[l])]
           legs == IF \A l \in Legs : patch[l] = {} THEN run[t].legs ELSE saved
           q == [Idle EXCEPT !.pc = "signals", !.op = "tick", !.legs = legs]
<1>2. \A l \in Legs : patch[l] \in Patches(run[t], l)
  BY <1>1
<1>3. state'.leg = saved
  <2>1. state' = [state EXCEPT !.leg = saved]
    BY <1>1
  <2> QED BY <2>1, RunTyped DEF StateType
<1>4. (run[t].op # "tick" => Become(t, Idle)) /\ (run[t].op = "tick" => Become(t, q))
  BY <1>1
<1>5. \/ legs = run[t].legs /\ \A l \in Legs : patch[l] = {}
      \/ \A l \in Legs : legs[l] = state'.leg[l]
  BY <1>3
<1>6. \A l \in Legs : state'.leg[l] = Patched(state.leg[l], patch[l])
  BY <1>3
<1> HIDE DEF legs, saved
<1>7. q.pc = "signals" /\ q.op = "tick" /\ q.legs = legs
  BY DEF Idle
<1> HIDE DEF q
<1> QED BY <1>2, <1>4, <1>5, <1>6, <1>7

LEMMA AloneReconcile == ASSUME TypeInv, TypeInv', Alone, AloneInv, NEW t \in Threads, Reconcile(t) PROVE AloneInv'
<1>1. /\ t = Scheduler /\ run[t].op = "tick" /\ run[t].pc = "reconcile" /\ state.session = clock.day
      /\ \A l \in Legs : run[t].legs[l] = state.leg[l]
  BY AloneTick DEF Reconcile
<1>2. PICK patch, q : /\ \A l \in Legs : patch[l] \in Patches(run[t], l) /\ state'.leg[l] = Patched(state.leg[l], patch[l])
                      /\ Become(t, q) /\ q.pc = "signals" /\ q.op = "tick"
                      /\ \/ q.legs = run[t].legs /\ \A l \in Legs : patch[l] = {}
                         \/ \A l \in Legs : q.legs[l] = state'.leg[l]
  BY <1>1, ReconcileIs
<1>3. UNCHANGED <<case, clock, hist>> /\ state'.session = state.session
  BY RunTyped DEF Reconcile, broker, StateType
<1>4. ASSUME NEW l \in Legs
      PROVE  state'.leg[l].entries = state.leg[l].entries /\ state'.leg[l].exit_bar >= state.leg[l].exit_bar /\ q.legs[l] = state'.leg[l]
  <2>1. run[t].legs[l] \in GoodLegs(case.bars) /\ case.bars \in Nat
    BY RunTyped
  <2>2. CASE patch[l] = {}
    BY <1>1, <1>2, <2>2, PatchedIs, BarsTyped
  <2>3. CASE patch[l] # {}
    <3>1. Patched(state.leg[l], patch[l]) \in patch[l]
      BY <2>3, PatchedIs
    <3>2. state'.leg[l].entries = state.leg[l].entries /\ state'.leg[l].exit_bar = state.leg[l].exit_bar
      BY <1>1, <1>2, <2>1, <3>1, PatchKeeps
    <3> QED BY <1>2, <2>3, <3>2, BarsTyped
  <2> QED BY <2>2, <2>3
<1>5. Become(Scheduler, q)
  BY <1>1, <1>2
<1> QED BY <1>1, <1>2, <1>3, <1>4, <1>5, AloneMoves DEF Marked

LEMMA AloneTickAborts == ASSUME TypeInv, TypeInv', Alone, AloneInv, NEW t \in Threads, TickAborts(t) PROVE AloneInv'
<1>1. t = Scheduler /\ run[t].pc = "signals" /\ Become(t, Idle) /\ UNCHANGED <<case, clock, hist>>
  BY AloneTick DEF TickAborts, broker
<1>2. state'.session = state.session /\ state'.leg = state.leg
  BY RunTyped DEF TickAborts, StateType
<1>3. Become(Scheduler, Idle)
  BY <1>1
<1> QED BY <1>1, <1>2, <1>3, IdleIs, BarsTyped, AloneMoves DEF Marked

(* What Candles leaves of a tick: it ends, or its signals fit its legs. *)
LEMMA CandlesAre ==
  ASSUME TypeInv, NEW t \in Threads, Candles(t)
  PROVE  \E q : /\ Become(t, q)
               /\ \/ q = Idle
                  \/ /\ q.pc = "publish" /\ q.op = run[t].op /\ q.bar = clock'.bar /\ q.legs = run[t].legs
                     /\ \A l \in Legs : q.signal[l] \in {"long", "short"} => ~run[t].legs[l].open
<1> DEFINE next(atm, signal) == [run[t] EXCEPT !.pc = "publish", !.atm = atm, !.signal = signal,
                                   !.bar = clock'.bar, !.force = clock'.phase = "force"]
<1>1. \E atm, signal : /\ \A l \in Legs : signal[l] = "none" \/ run[t].legs[l].open = (signal[l] = "exit")
                       /\ Become(t, Idle) \/ Become(t, next(atm, signal))
  BY DEF Candles
<1>2. ASSUME NEW atm, NEW signal
      PROVE  LET q == next(atm, signal)
             IN  q.pc = "publish" /\ q.op = run[t].op /\ q.bar = clock'.bar /\ q.legs = run[t].legs /\ q.signal = signal
  <2>1. run[t] \in Fields(case.bars)
    BY RunTyped
  <2>2. PICK force : force = (clock'.phase = "force")
    OBVIOUS
  <2> DEFINE q == [run[t] EXCEPT !.pc = "publish", !.atm = atm, !.signal = signal, !.bar = clock'.bar, !.force = force]
  <2>3. q = next(atm, signal)
    BY <2>2
  <2>4. q.pc = "publish" /\ q.op = run[t].op /\ q.bar = clock'.bar /\ q.legs = run[t].legs /\ q.signal = signal
    BY <2>1 DEF Fields
  <2> QED BY <2>3, <2>4
<1> HIDE DEF next
<1>3. PICK atm, signal : /\ \A l \in Legs : signal[l] = "none" \/ run[t].legs[l].open = (signal[l] = "exit")
                         /\ Become(t, Idle) \/ Become(t, next(atm, signal))
  BY <1>1
<1>4. ASSUME NEW l \in Legs, signal[l] \in {"long", "short"} PROVE ~run[t].legs[l].open
  <2>1. run[t].legs[l].open = (signal[l] = "exit")
    BY <1>3, <1>4
  <2> QED BY <1>4, <2>1
<1> QED BY <1>2, <1>3, <1>4

LEMMA AloneCandles == ASSUME TypeInv, TypeInv', Alone, AloneInv, NEW t \in Threads, Candles(t) PROVE AloneInv'
<1>1. t = Scheduler /\ run[t].pc = "signals" /\ run[t].op = "tick" /\ state.session = clock.day
      /\ \A l \in Legs : run[t].legs[l] = state.leg[l]
  BY AloneTick DEF Candles
<1>2. clock'.bar >= clock.bar /\ clock'.day = clock.day /\ clock'.bar \in Nat /\ clock.bar \in Nat
  BY CaseTyped DEF Candles, Later, TypeInv, ClockType
<1>3. state'.leg = state.leg /\ state'.session = state.session /\ UNCHANGED <<case, hist>>
  BY RunTyped DEF Candles, StateType, broker
<1>4. \E q : /\ Become(t, q)
             /\ \/ q = Idle
                \/ q.pc = "publish" /\ q.op = "tick" /\ q.bar = clock'.bar /\ q.legs = run[t].legs
  BY <1>1, CandlesAre
<1>5. PICK q : /\ Become(Scheduler, q)
               /\ \/ q = Idle
                  \/ q.pc = "publish" /\ q.op = "tick" /\ q.bar = clock'.bar /\ q.legs = run[t].legs
  BY <1>1, <1>4
<1>6. run'[Scheduler] = q /\ run'[Api].pc = "idle"
  BY <1>5, SchedulerBecomes, AloneHas
<1>7. Ticking(run[Scheduler])' /\ Fresh'
  BY <1>1, <1>2, <1>3, <1>5, <1>6, IdleIs DEF Ticking, Fresh, Marked
<1>8. ASSUME NEW l \in Legs PROVE AloneAt(run[Scheduler], l)'
  <2>1. AloneAt(run[Scheduler], l)
    BY AloneHas
  <2>2. InSync(run[Scheduler], l)'
    BY <1>1, <1>3, <1>5, <1>6, IdleIs DEF InSync
  <2>3. Counted(run[Scheduler], l)'
    BY <1>1, <1>3, <2>1 DEF AloneAt, Counted
  <2>4. Remembered(run[Scheduler], l)'
    <3>1. hist.exitBar[l] \in Nat /\ state.leg[l].exit_bar \in Nat
      BY CaseTyped DEF TypeInv, HistType, StateType, GoodLegs
    <3> QED BY <1>1, <1>2, <1>3, <1>5, <1>6, <2>1, <3>1, IdleIs DEF AloneAt, Remembered
  <2> QED BY <1>5, <1>6, <2>2, <2>3, <2>4, IdleIs DEF AloneAt, Marked
<1> QED BY <1>3, <1>6, <1>7, <1>8, AloneAgain

LEMMA ClockHas == ASSUME TypeInv PROVE clock.bar \in Nat /\ clock.bar > 0
BY CaseTyped DEF TypeInv, ClockType

LEMMA AlonePublish == ASSUME TypeInv, TypeInv', Alone, AloneInv, NEW t \in Threads, Publish(t) PROVE AloneInv'
<1>1. t = Scheduler /\ run[t].pc = "publish" /\ run[t].op = "tick" /\ state.session = clock.day /\ run[t].bar = clock.bar
      /\ \A l \in Legs : run[t].legs[l] = state.leg[l]
  BY AloneTick DEF Publish
<1> DEFINE ready(l) == IF run[t].signal[l] = "exit" THEN "none" ELSE run[t].signal[l]
           leg == [l \in Legs |-> [run[t].legs[l] EXCEPT !.signal_bar = run[t].bar, !.ready = ready(l)]]
           q == [run[t] EXCEPT !.pc = "exit", !.leg = "ce", !.legs = leg]
<1>2. /\ state' = [state EXCEPT !.leg = leg, !.atm = run[t].atm] /\ Become(t, q)
      /\ UNCHANGED <<case, clock, hist>>
  BY DEF Publish, broker
<1>3. ASSUME NEW l \in Legs
      PROVE  /\ leg[l].entries = state.leg[l].entries /\ leg[l].exit_bar = state.leg[l].exit_bar
             /\ leg[l].signal_bar = clock.bar
  <2>1. state.leg[l] \in GoodLegs(case.bars)
    BY RunTyped
  <2> HIDE DEF ready
  <2> QED BY <1>1, <2>1 DEF GoodLegs
<1> HIDE DEF leg
<1>4. state'.leg = leg /\ state'.session = state.session
  BY <1>2, RunTyped DEF StateType
<1>5. q.pc = "exit" /\ q.legs = leg /\ q.op = run[t].op /\ q.bar = run[t].bar
  <2>1. run[t] \in Fields(case.bars)
    BY RunTyped
  <2> QED BY <2>1 DEF Fields
<1> HIDE DEF q
<1>6. Become(Scheduler, q)
  BY <1>1, <1>2
<1> QED BY <1>1, <1>2, <1>3, <1>4, <1>5, <1>6, BarsTyped, AloneMoves

(* The exit of a leg that changes no count: the legs are kept, or the leg is
   saved flat under the bar of its signal. *)
LEMMA FlatSaved ==
  ASSUME TypeInv, NEW l \in Legs, SaveLeg(l, Flattened(state.leg[l]))
  PROVE  /\ state'.session = state.session
         /\ \A m \in Legs : /\ state'.leg[m].entries = state.leg[m].entries /\ state'.leg[m].signal_bar = state.leg[m].signal_bar
                            /\ m = l => state'.leg[m].exit_bar = state.leg[m].signal_bar
                            /\ m # l => state'.leg[m] = state.leg[m]
<1> DEFINE flat == Flattened(state.leg[l])
<1>1. /\ flat.entries = state.leg[l].entries /\ flat.signal_bar = state.leg[l].signal_bar
      /\ flat.exit_bar = state.leg[l].signal_bar
  <2>1. state.leg[l] \in GoodLegs(case.bars)
    BY DEF TypeInv, StateType
  <2> QED BY <2>1 DEF GoodLegs, Flattened
<1> HIDE DEF flat
<1>2. state' = [state EXCEPT !.leg = [state.leg EXCEPT ![l] = flat]]
  BY DEF TypeInv, SaveLeg, StateType, flat
<1>3. state'.session = state.session /\ \A m \in Legs : state'.leg[m] = IF m = l THEN flat ELSE state.leg[m]
  BY <1>2 DEF TypeInv, StateType
<1> QED BY <1>1, <1>3

LEMMA AloneAfterExit ==
  ASSUME TypeInv, TypeInv', Alone, AloneInv, NEW t \in Threads, run[t].pc \in {"exit", "exitorder"},
         UNCHANGED <<case, clock, broker, calls>>, NEW legs, Become(t, AfterExit(t, legs)),
         \/ UNCHANGED state /\ legs = run[t].legs
         \/ SaveLeg(run[t].leg, Flattened(state.leg[run[t].leg])) /\ legs = state'.leg
  PROVE  AloneInv'
<1>1. t = Scheduler /\ run[t].op = "tick" /\ state.session = clock.day /\ run[t].bar = clock.bar
      /\ \A l \in Legs : run[t].legs[l] = state.leg[l] /\ state.leg[l].signal_bar = clock.bar
  BY AloneTick DEF Marked
<1>2. /\ state'.session = state.session
      /\ \A l \in Legs : /\ state'.leg[l].entries = state.leg[l].entries
                         /\ state'.leg[l].exit_bar >= state.leg[l].exit_bar \/ state'.leg[l].exit_bar = clock.bar
                         /\ state'.leg[l].signal_bar = clock.bar /\ legs[l] = state'.leg[l]
  <2>1. CASE UNCHANGED state /\ legs = run[t].legs
    BY <1>1, <2>1, BarsTyped
  <2>2. CASE SaveLeg(run[t].leg, Flattened(state.leg[run[t].leg])) /\ legs = state'.leg
    <3>1. run[t].leg \in Legs
      BY RunTyped DEF Fields
    <3> QED BY <1>1, <2>2, <3>1, FlatSaved, BarsTyped
  <2> QED BY <2>1, <2>2
<1>3. PICK q : q = AfterExit(t, legs)
  OBVIOUS
<1>4. \/ q = Idle
      \/ q.pc \in {"exit", "entry"} /\ q.op = "tick" /\ q.bar = clock.bar /\ (q.legs = legs \/ q.legs = state'.leg)
  BY <1>1, <1>3, AfterExitIs
<1>5. Become(Scheduler, q) /\ UNCHANGED <<case, clock, hist>> /\ run[Scheduler].pc \in {"exit", "exitorder"}
  BY <1>1, <1>3 DEF broker
<1>6. /\ q.pc \notin {"exitsave", "entrysave", "adopt", "exitorder"} /\ (q.pc # "idle" => q.op = "tick" /\ state.session = clock.day)
      /\ q.pc \in Marked \cup {"publish"} => q.bar = clock.bar
      /\ \A l \in Legs : q.pc = "idle" \/ q.legs[l] = state'.leg[l]
  BY <1>1, <1>2, <1>4, IdleIs DEF Marked
<1> QED BY <1>2, <1>5, <1>6, AloneMoves

LEMMA AloneExitSkip == ASSUME TypeInv, TypeInv', Alone, AloneInv, NEW t \in Threads, ExitSkip(t) \/ ExitRefused(t) PROVE AloneInv'
BY AloneAfterExit DEF ExitSkip, ExitRefused

LEMMA AloneExitBegin == ASSUME TypeInv, TypeInv', Alone, AloneInv, NEW t \in Threads, ExitBegin(t) PROVE AloneInv'
<1>1. t = Scheduler /\ run[t].pc = "exit" /\ run[t].op = "tick" /\ state.session = clock.day /\ run[t].bar = clock.bar
      /\ \A l \in Legs : run[t].legs[l] = state.leg[l] /\ state.leg[l].signal_bar = clock.bar
  BY AloneTick DEF ExitBegin, Marked
<1> DEFINE leg == state.leg[run[t].leg]
           q == [run[t] EXCEPT !.pc = "exitorder", !.held = leg]
<1>2. Become(t, q) \/ Become(t, AfterExit(t, run[t].legs))
  BY DEF ExitBegin
<1>3. UNCHANGED <<case, clock, broker, state, calls>> /\ UNCHANGED <<case, clock, hist>>
  BY DEF ExitBegin, broker
<1>4. CASE Become(t, AfterExit(t, run[t].legs))
  BY <1>1, <1>3, <1>4, AloneAfterExit
<1>5. CASE Become(t, q)
  <2> HIDE DEF leg
  <2>1. q.pc = "exitorder" /\ q.op = run[t].op /\ q.bar = run[t].bar /\ q.legs = run[t].legs /\ q.held = leg /\ q.leg = run[t].leg
    <3>1. run[t] \in Fields(case.bars)
      BY RunTyped
    <3> QED BY <3>1 DEF Fields
  <2>2. q.held = state.leg[q.leg]
    BY <2>1 DEF leg
  <2> HIDE DEF q
  <2>3. Become(Scheduler, q)
    BY <1>1, <1>5
  <2> QED BY <1>1, <1>3, <2>1, <2>2, <2>3, BarsTyped, AloneMoves
<1> QED BY <1>2, <1>4, <1>5

LEMMA AloneExitFindsNone == ASSUME TypeInv, TypeInv', Alone, AloneInv, NEW t \in Threads, ExitFindsNone(t) PROVE AloneInv'
<1>1. run[t].pc = "exitorder" /\ run[t].held = state.leg[run[t].leg]
  BY AloneTick DEF ExitFindsNone
<1>2. /\ SaveLeg(run[t].leg, Flattened(run[t].held)) /\ Become(t, AfterExit(t, state'.leg))
      /\ UNCHANGED <<case, clock, broker, calls>>
  BY DEF ExitFindsNone
<1> QED BY <1>1, <1>2, AloneAfterExit

LEMMA AloneExitAccepted == ASSUME TypeInv, TypeInv', Alone, AloneInv, NEW t \in Threads, ExitAccepted(t) PROVE AloneInv'
<1>1. /\ t = Scheduler /\ run[t].pc = "exitorder" /\ run[t].op = "tick" /\ state.session = clock.day /\ run[t].bar = clock.bar
      /\ run[t].held = state.leg[run[t].leg]
      /\ \A l \in Legs : run[t].legs[l] = state.leg[l] /\ state.leg[l].signal_bar = clock.bar
  BY AloneTick DEF ExitAccepted, Marked
<1> DEFINE q == [run[t] EXCEPT !.pc = "exitsave"]
<1>2. q.pc = "exitsave" /\ q.op = run[t].op /\ q.bar = run[t].bar /\ q.legs = run[t].legs /\ q.held = run[t].held /\ q.leg = run[t].leg
  <2>1. run[t] \in Fields(case.bars)
    BY RunTyped
  <2> QED BY <2>1 DEF Fields
<1>3. Become(Scheduler, q) /\ UNCHANGED <<case, clock, state>>
  BY <1>1 DEF ExitAccepted, Goto
<1> HIDE DEF q
<1>4. run'[Scheduler] = q /\ run'[Api].pc = "idle"
  BY <1>3, SchedulerBecomes, AloneHas
<1>5. Ticking(run[Scheduler])' /\ Fresh'
  BY <1>1, <1>2, <1>3, <1>4 DEF Ticking, Fresh
<1>6. hist'.entries = hist.entries /\ \A l \in Legs : hist'.exitBar[l] = IF l = run[t].leg THEN clock.bar ELSE hist.exitBar[l]
  <2>1. hist' = [hist EXCEPT !.exitBar[run[t].leg] = run[t].held.signal_bar] /\ run[t].leg \in Legs
    BY RunTyped DEF ExitAccepted, Fields
  <2>2. run[t].held.signal_bar = clock.bar
    BY <1>1, <2>1
  <2>3. hist' = [hist EXCEPT !.exitBar = [hist.exitBar EXCEPT ![run[t].leg] = clock.bar]]
    BY <2>1, <2>2 DEF TypeInv, HistType
  <2> QED BY <2>1, <2>3 DEF TypeInv, HistType
<1>7. ASSUME NEW l \in Legs PROVE AloneAt(run[Scheduler], l)'
  <2>1. AloneAt(run[Scheduler], l)
    BY AloneHas
  <2>2. InSync(run[Scheduler], l)' /\ Counted(run[Scheduler], l)'
    BY <1>1, <1>2, <1>3, <1>4, <1>6, <2>1 DEF AloneAt, InSync, Counted
  <2>3. Remembered(run[Scheduler], l)'
    BY <1>1, <1>2, <1>3, <1>4, <1>6, <2>1 DEF AloneAt, Remembered
  <2> QED BY <1>1, <1>3, <2>2, <2>3 DEF AloneAt
<1> QED BY <1>3, <1>4, <1>5, <1>7, AloneAgain

LEMMA AloneExitSave == ASSUME TypeInv, TypeInv', Alone, AloneInv, NEW t \in Threads, ExitSave(t) PROVE AloneInv'
<1>1. /\ t = Scheduler /\ run[t].pc = "exitsave" /\ run[t].op = "tick" /\ state.session = clock.day /\ run[t].bar = clock.bar
      /\ run[t].held = state.leg[run[t].leg] /\ run[t].leg \in Legs
      /\ \A l \in Legs : state.leg[l].signal_bar = clock.bar
  BY AloneTick, RunTyped DEF ExitSave, Marked, Fields
<1>2. /\ SaveLeg(run[t].leg, Flattened(state.leg[run[t].leg])) /\ Become(t, AfterExit(t, state'.leg))
      /\ UNCHANGED <<case, clock, hist>>
  BY <1>1 DEF ExitSave, broker
<1>3. /\ state'.session = state.session
      /\ \A l \in Legs : /\ state'.leg[l].entries = state.leg[l].entries /\ state'.leg[l].signal_bar = clock.bar
                         /\ l = run[t].leg => state'.leg[l].exit_bar = clock.bar
                         /\ l # run[t].leg => state'.leg[l] = state.leg[l]
  BY <1>1, <1>2, FlatSaved
<1>4. PICK q : q = AfterExit(t, state'.leg)
  OBVIOUS
<1>5. q = Idle \/ (q.pc \in {"exit", "entry"} /\ q.op = "tick" /\ q.bar = clock.bar /\ q.legs = state'.leg)
  BY <1>1, <1>4, AfterExitIs
<1>6. q.pc \in {"idle", "exit", "entry"} /\ (q.pc # "idle" => q.op = "tick" /\ q.bar = clock.bar /\ q.legs = state'.leg)
  BY <1>5, IdleIs
<1>7. run'[Scheduler] = q /\ run'[Api].pc = "idle"
  BY <1>1, <1>2, <1>4, SchedulerBecomes, AloneHas
<1>8. Ticking(run[Scheduler])' /\ Fresh'
  BY <1>1, <1>2, <1>3, <1>6, <1>7 DEF Ticking, Fresh, Marked
<1>9. ASSUME NEW l \in Legs PROVE AloneAt(run[Scheduler], l)'
  <2>1. AloneAt(run[Scheduler], l)
    BY AloneHas
  <2>2. InSync(run[Scheduler], l)' /\ Counted(run[Scheduler], l)'
    BY <1>1, <1>2, <1>3, <1>6, <1>7, <2>1 DEF AloneAt, InSync, Counted
  <2>3. Remembered(run[Scheduler], l)'
    <3>1. CASE l = run[t].leg
      <4>1. hist.exitBar[l] = clock.bar
        BY <1>1, <2>1, <3>1 DEF AloneAt, Remembered
      <4> QED BY <1>2, <1>3, <1>6, <1>7, <3>1, <4>1, ClockHas DEF Remembered
    <3>2. CASE l # run[t].leg
      BY <1>1, <1>2, <1>3, <1>6, <1>7, <2>1, <3>2 DEF AloneAt, Remembered
    <3> QED BY <3>1, <3>2
  <2> QED BY <1>2, <1>3, <2>2, <2>3 DEF AloneAt
<1> QED BY <1>2, <1>7, <1>8, <1>9, AloneAgain

LEMMA AloneEntrySkip == ASSUME TypeInv, TypeInv', Alone, AloneInv, NEW t \in Threads, EntrySkip(t) PROVE AloneInv'
<1>1. /\ t = Scheduler /\ run[t].pc = "entry" /\ run[t].op = "tick" /\ state.session = clock.day /\ run[t].bar = clock.bar
      /\ \A l \in Legs : (run[t].leg = "ce" => run[t].legs[l] = state.leg[l]) /\ state.leg[l].signal_bar = clock.bar
  BY AloneTick DEF EntrySkip, Marked
<1>2. PICK q : q = AfterEntry(t)
  OBVIOUS
<1>3. \/ q = Idle
      \/ q.pc = "entry" /\ q.leg = "pe" /\ run[t].leg = "ce" /\ q.legs = run[t].legs /\ q.op = "tick" /\ q.bar = clock.bar
  BY <1>1, <1>2, AfterEntryIs
<1>4. /\ q.pc \in {"idle", "entry"} /\ (q.pc # "idle" => q.op = "tick" /\ q.bar = clock.bar)
      /\ \A l \in Legs : q.pc = "idle" \/ q.legs[l] = state.leg[l]
  BY <1>1, <1>3, IdleIs
<1>5. Become(Scheduler, q) /\ UNCHANGED <<case, clock, hist>> /\ state' = state
  BY <1>1, <1>2 DEF EntrySkip, broker
<1>6. \A l \in Legs : state'.leg[l].entries = state.leg[l].entries /\ state'.leg[l].exit_bar >= state.leg[l].exit_bar
  BY <1>5, BarsTyped
<1>7. q.pc \notin {"exitsave", "entrysave", "adopt", "exitorder"} /\ (q.pc \in Marked \cup {"publish"} => q.bar = clock.bar)
  BY <1>4 DEF Marked
<1> QED BY <1>1, <1>4, <1>5, <1>6, <1>7, AloneMoves

(* What an accepted entry had before it. *)
LEMMA AloneEnters ==
  ASSUME TypeInv, Alone, AloneInv, NEW t \in Threads, EntryAccepted(t)
  PROVE  /\ t = Scheduler /\ run[t].pc = "entry" /\ run[t].leg \in Legs /\ run[t].bar = clock.bar
         /\ hist.entries[run[t].leg] <= state.leg[run[t].leg].entries
         /\ state.leg[run[t].leg].entries < case.maxRe + 1
         /\ hist.exitBar[run[t].leg] < clock.bar
<1> DEFINE l == run[t].leg
<1>1. /\ t = Scheduler /\ run[t].pc = "entry" /\ run[t].op = "tick" /\ run[t].bar = clock.bar /\ l \in Legs
      /\ run[t].legs[l] = state.leg[l]
  BY AloneTick, RunTyped DEF EntryAccepted, Marked, Fields
<1>2. CanEnter(l, state.leg[l], run[t].signal[l], clock.bar)
  BY <1>1 DEF EntryAccepted, MayEnter
<1>3. AloneAt(run[t], l)
  BY <1>1, AloneHas
<1> HIDE DEF l
<1>4. hist.entries[l] <= state.leg[l].entries
  BY <1>1, <1>3 DEF AloneAt, Counted
<1>5. state.leg[l].entries < case.maxRe + 1 /\ (state.leg[l].exit_bar = None \/ clock.bar > state.leg[l].exit_bar)
  BY <1>2 DEF CanEnter
<1>6. hist.exitBar[l] < clock.bar
  <2>1. hist.exitBar[l] \in Nat /\ state.leg[l].exit_bar \in Nat
    BY <1>1, CaseTyped DEF TypeInv, HistType, StateType, GoodLegs
  <2> QED BY <1>1, <1>3, <1>5, <2>1, ClockHas DEF AloneAt, Remembered, None
<1> QED BY <1>1, <1>4, <1>5, <1>6 DEF l

LEMMA EntryCounts ==
  ASSUME TypeInv, NEW t \in Threads, EntryAccepted(t)
  PROVE  /\ hist'.exitBar = hist.exitBar
         /\ \/ UNCHANGED hist
            \/ /\ \A l \in Legs : hist'.entries[l] = IF l = run[t].leg THEN hist.entries[l] + 1 ELSE hist.entries[l]
               /\ hist'.entryBar[run[t].leg] = run[t].bar
<1>1. \/ UNCHANGED hist
      \/ hist' = [hist EXCEPT !.entries[run[t].leg] = @ + 1, !.entryBar[run[t].leg] = run[t].bar]
  BY DEF EntryAccepted, broker
<1>2. CASE UNCHANGED hist
  BY <1>2
<1>3. CASE hist' = [hist EXCEPT !.entries[run[t].leg] = @ + 1, !.entryBar[run[t].leg] = run[t].bar]
  <2>1. run[t].leg \in Legs /\ hist \in HistType(case.bars)
    BY RunTyped DEF Fields, TypeInv
  <2>2. PICK n : n = hist.entries[run[t].leg] + 1
    OBVIOUS
  <2>3. hist' = [hist EXCEPT !.entries = [hist.entries EXCEPT ![run[t].leg] = n],
                             !.entryBar = [hist.entryBar EXCEPT ![run[t].leg] = run[t].bar]]
    BY <1>3, <2>1, <2>2 DEF HistType
  <2> QED BY <2>1, <2>2, <2>3 DEF HistType
<1> QED BY <1>1, <1>2, <1>3

LEMMA AloneEntryAccepted == ASSUME TypeInv, TypeInv', Alone, AloneInv, NEW t \in Threads, EntryAccepted(t) PROVE AloneInv'
<1>1. /\ t = Scheduler /\ run[t].pc = "entry" /\ run[t].op = "tick" /\ state.session = clock.day /\ run[t].bar = clock.bar
      /\ \A l \in Legs : state.leg[l].signal_bar = clock.bar
  BY AloneTick DEF EntryAccepted, Marked
<1> DEFINE q == [run[t] EXCEPT !.pc = "entrysave"]
<1>2. q.pc = "entrysave" /\ q.op = run[t].op /\ q.bar = run[t].bar /\ q.legs = run[t].legs /\ q.leg = run[t].leg
  <2>1. run[t] \in Fields(case.bars)
    BY RunTyped
  <2> QED BY <2>1 DEF Fields
<1>3. Become(Scheduler, q) /\ UNCHANGED <<case, clock, state>>
  BY <1>1 DEF EntryAccepted, Goto
<1> HIDE DEF q
<1>4. run'[Scheduler] = q /\ run'[Api].pc = "idle"
  BY <1>3, SchedulerBecomes, AloneHas
<1>5. Ticking(run[Scheduler])' /\ Fresh'
  BY <1>1, <1>2, <1>3, <1>4 DEF Ticking, Fresh
<1>6. ASSUME NEW l \in Legs PROVE AloneAt(run[Scheduler], l)'
  <2>1. AloneAt(run[Scheduler], l)
    BY AloneHas
  <2>2. InSync(run[Scheduler], l)'
    BY <1>1, <1>2, <1>3, <1>4, <2>1 DEF AloneAt, InSync
  <2>3. /\ hist.entries[l] \in Nat /\ state.leg[l].entries \in Nat /\ case.maxRe \in Nat
        /\ hist'.entries[l] = hist.entries[l] \/ (l = run[t].leg /\ hist'.entries[l] = hist.entries[l] + 1)
    BY CaseTyped, EntryCounts DEF TypeInv, HistType, StateType, GoodLegs
  <2>4. Counted(run[Scheduler], l)'
    <3>1. CASE l = run[t].leg
      BY <1>1, <1>2, <1>3, <1>4, <2>3, <3>1, AloneEnters DEF Counted
    <3>2. CASE l # run[t].leg
      BY <1>1, <1>2, <1>3, <1>4, <2>1, <2>3, <3>2 DEF AloneAt, Counted
    <3> QED BY <3>1, <3>2
  <2>5. Remembered(run[Scheduler], l)'
    BY <1>1, <1>2, <1>3, <1>4, <2>1, AloneEnters, EntryCounts DEF AloneAt, Remembered
  <2> QED BY <1>1, <1>3, <2>2, <2>4, <2>5 DEF AloneAt
<1> QED BY <1>3, <1>4, <1>5, <1>6, AloneAgain

LEMMA EntrySaves ==
  ASSUME TypeInv, NEW t \in Threads, EntrySave(t)
  PROVE  /\ state'.session = state.session /\ run[t].leg \in Legs
         /\ \A l \in Legs : /\ l # run[t].leg => state'.leg[l] = state.leg[l]
                            /\ l = run[t].leg => /\ state'.leg[l].entries = state.leg[l].entries + 1
                                                 /\ state'.leg[l].signal_bar = state.leg[l].signal_bar
                                                 /\ state'.leg[l].open /\ state'.leg[l].strike = run[t].atm
<1> DEFINE m == run[t].leg
           entered == Entered(state.leg[m], run[t].atm)
<1>1. m \in Legs /\ state \in StateType(case.days, case.bars)
  BY RunTyped DEF Fields
<1>2. state' = [state EXCEPT !.leg = [state.leg EXCEPT ![m] = entered]]
  BY <1>1 DEF EntrySave, SaveLeg, StateType
<1>3. /\ entered.entries = state.leg[m].entries + 1 /\ entered.signal_bar = state.leg[m].signal_bar
      /\ entered.open /\ entered.strike = run[t].atm
  <2>1. state.leg[m] \in GoodLegs(case.bars)
    BY <1>1, RunTyped
  <2> QED BY <2>1 DEF Entered, GoodLegs
<1> HIDE DEF entered, m
<1>4. state'.session = state.session /\ \A l \in Legs : state'.leg[l] = IF l = m THEN entered ELSE state.leg[l]
  BY <1>1, <1>2 DEF StateType
<1>5. \A l \in Legs : /\ l # m => state'.leg[l] = state.leg[l]
                     /\ l = m => /\ state'.leg[l].entries = state.leg[l].entries + 1
                                 /\ state'.leg[l].signal_bar = state.leg[l].signal_bar
                                 /\ state'.leg[l].open /\ state'.leg[l].strike = run[t].atm
  BY <1>3, <1>4
<1> QED BY <1>1, <1>4, <1>5 DEF m

LEMMA AloneEntrySave == ASSUME TypeInv, TypeInv', Alone, AloneInv, NEW t \in Threads, EntrySave(t) PROVE AloneInv'
<1>1. /\ t = Scheduler /\ run[t].pc = "entrysave" /\ run[t].op = "tick" /\ state.session = clock.day /\ run[t].bar = clock.bar
      /\ \A l \in Legs : (run[t].leg = "ce" => run[t].legs[l] = state.leg[l]) /\ state.leg[l].signal_bar = clock.bar
  BY AloneTick DEF EntrySave, Marked
<1>2. PICK q : q = AfterEntry(t)
  OBVIOUS
<1>3. \/ q = Idle
      \/ q.pc = "entry" /\ q.leg = "pe" /\ run[t].leg = "ce" /\ q.legs = run[t].legs /\ q.op = "tick" /\ q.bar = clock.bar
  BY <1>1, <1>2, AfterEntryIs
<1>4. /\ q.pc \in {"idle", "entry"} /\ (q.pc # "idle" => q.op = "tick" /\ q.bar = clock.bar /\ q.leg = "pe")
      /\ \A l \in Legs : q.pc = "idle" \/ (run[t].leg = "ce" /\ q.legs[l] = state.leg[l])
  BY <1>1, <1>3, IdleIs
<1>5. UNCHANGED <<case, clock, hist>>
  BY DEF EntrySave, broker
<1>6. run'[Scheduler] = q /\ run'[Api].pc = "idle"
  BY <1>1, <1>2, SchedulerBecomes, AloneHas DEF EntrySave
<1>7. Ticking(run[Scheduler])' /\ Fresh'
  BY <1>1, <1>4, <1>5, <1>6, EntrySaves DEF Ticking, Fresh, Marked
<1>8. ASSUME NEW l \in Legs PROVE AloneAt(run[Scheduler], l)'
  <2>1. AloneAt(run[Scheduler], l)
    BY AloneHas
  <2>2. /\ l # run[t].leg => state'.leg[l] = state.leg[l]
        /\ l = run[t].leg => state'.leg[l].entries = state.leg[l].entries + 1 /\ state'.leg[l].signal_bar = state.leg[l].signal_bar
    BY EntrySaves
  <2>3. InSync(run[Scheduler], l)'
    <3>1. l = "ce" \/ l = "pe"
      BY DEF Legs
    <3> QED BY <1>1, <1>4, <1>6, <2>2, <3>1 DEF InSync
  <2>4. Counted(run[Scheduler], l)'
    <3>1. hist.entries[l] \in Nat /\ state.leg[l].entries \in Nat
      BY DEF TypeInv, HistType, StateType, GoodLegs
    <3> QED BY <1>1, <1>5, <1>6, <2>1, <2>2, <3>1 DEF AloneAt, Counted
  <2>5. Remembered(run[Scheduler], l)'
    BY <1>1, <1>4, <1>5, <1>6, <2>1, <2>2 DEF AloneAt, Remembered
  <2> QED BY <1>1, <1>5, <2>2, <2>3, <2>4, <2>5 DEF AloneAt
<1> QED BY <1>5, <1>6, <1>7, <1>8, AloneAgain

LEMMA AloneNewDay == ASSUME TypeInv, TypeInv', Alone, AloneInv, NewDay PROVE AloneInv'
<1>1. /\ run' = run /\ state' = state /\ case' = case /\ run[Scheduler].pc = "idle" /\ run[Api].pc = "idle"
      /\ clock' = [clock EXCEPT !.day = @ + 1, !.phase = "early"]
      /\ hist' = [entries |-> [l \in Legs |-> 0], entryBar |-> [l \in Legs |-> None], exitBar |-> [l \in Legs |-> None]]
  BY DEF NewDay, Threads
<1>2. clock'.bar = clock.bar /\ clock.bar > 0 /\ clock.bar \in Nat
  BY <1>1, ClockHas DEF TypeInv, ClockType
<1>3. \A l \in Legs : hist'.entries[l] = 0 /\ hist'.exitBar[l] = 0
  BY <1>1 DEF None
<1>4. Ticking(run[Scheduler])' /\ Fresh'
  BY <1>1, <1>3 DEF Ticking, Fresh, Marked, None
<1>5. ASSUME NEW l \in Legs PROVE AloneAt(run[Scheduler], l)'
  <2>1. state.leg[l].entries \in Nat /\ case.maxRe \in Nat
    BY CaseTyped DEF TypeInv, StateType, GoodLegs
  <2> QED BY <1>1, <1>2, <1>3, <2>1 DEF AloneAt, InSync, Counted, Remembered, Marked
<1> QED BY <1>1, <1>4, <1>5, AloneAgain

LEMMA AloneInit == Init => AloneInv
<1> SUFFICES ASSUME Init, Alone PROVE AloneInv
  BY DEF AloneInv
<1>1. /\ run[Scheduler].pc = "idle" /\ run[Api].pc = "idle" /\ clock.bar = 1
      /\ \A l \in Legs : hist.entries[l] = 0 /\ hist.exitBar[l] = 0 /\ state.leg[l].entries = 0
  BY IdleIs DEF Init, Threads, None, DefaultState, DefaultLeg
<1>2. case.maxRe \in Nat
  BY CaseTyped DEF Init
<1>3. Ticking(run[Scheduler]) /\ Fresh
  BY <1>1 DEF Ticking, Fresh, Marked, None
<1>4. \A l \in Legs : AloneAt(run[Scheduler], l)
  BY <1>1, <1>2 DEF AloneAt, InSync, Counted, Remembered, Marked
<1> QED BY <1>1, <1>3, <1>4 DEF AloneInv

LEMMA AloneAsks == ASSUME Alone, NEW t \in Threads, Request(t) \/ AdoptSave(t), TypeInv, AloneInv PROVE FALSE
<1>1. ASSUME NEW op PROVE ~Asked(t, op)
  BY DEF Alone, Asked
<1>2. ~AdoptSave(t)
  BY AloneHas DEF AdoptSave, Ticking
<1> QED BY <1>1, <1>2 DEF Request, Start, Status, Stop, Close, Ship, Unlink, Dismiss, Adopt

LEMMA AloneStep == ASSUME TypeInv, TypeInv', AloneInv, [Next]_vars PROVE AloneInv'
<1>1. case' = case
  BY DEF Next, vars, TickBegin, Request, Continue, NewDay, TradeByHand, Crash, Start, Status, Stop, Close, Ship, Unlink,
     Dismiss, Adopt, ReadPositions, Reconcile, TickAborts, Candles, Publish, ExitSkip, ExitBegin, ExitFindsNone,
     ExitAccepted, ExitSave, ExitRefused, EntrySkip, EntryAccepted, EntrySave, AdoptSave
<1> SUFFICES ASSUME Alone PROVE AloneInv'
  BY <1>1 DEF AloneInv, Alone
<1>2. CASE UNCHANGED vars
  BY <1>2 DEF vars, AloneInv, Alone, Ticking, Fresh, AloneAt, InSync, Counted, Remembered
<1>3. ASSUME NEW t \in Threads, TickBegin(t) PROVE AloneInv'
  BY <1>3, AloneTickBegin
<1>4. ASSUME NEW t \in Threads, Continue(t) PROVE AloneInv'
  BY <1>4, AloneReadPositions, AloneReconcile, AloneTickAborts, AloneCandles, AlonePublish, AloneExitSkip, AloneExitBegin,
     AloneExitFindsNone, AloneExitAccepted, AloneExitSave, AloneEntrySkip, AloneEntryAccepted, AloneEntrySave, AloneAsks
     DEF Continue
<1>5. ASSUME NEW t \in Threads, Request(t) PROVE AloneInv'
  BY <1>5, AloneAsks
<1>6. CASE NewDay
  BY <1>6, AloneNewDay
<1>7. ~TradeByHand /\ ~Crash
  BY DEF Alone, TradeByHand, Crash
<1> QED BY <1>2, <1>3, <1>4, <1>5, <1>6, <1>7 DEF Next

(* The cap: with no request, crash or hand beside them the algo's ticks send
   no more than max_reentries + 1 entry orders of a leg in a day
   (_can_enter_ce, _can_enter_pe, _enter_leg, reset_daily_state_if_needed,
   _reconcile_broker_legs), whatever broker reads fail. *)
THEOREM EntriesAreCapped == Spec => []EntriesCapped
<1>1. Init => TypeInv /\ AloneInv
  BY InitTypes, AloneInit
<1>2. TypeInv /\ AloneInv /\ [Next]_vars => TypeInv' /\ AloneInv'
  BY StepTypes, AloneStep
<1>3. TypeInv /\ AloneInv => EntriesCapped
  BY DEF EntriesCapped, AloneInv, AloneAt, Counted
<1> QED BY <1>1, <1>2, <1>3, PTL DEF Spec

(* Only an accepted entry adds to a day's entries. *)
LEMMA OnlyEntriesCount ==
  ASSUME TypeInv, [Next]_vars, ~(\E t \in Threads : EntryAccepted(t)), NEW l \in Legs
  PROVE  ~(hist'.entries[l] > hist.entries[l])
<1>1. hist.entries[l] \in Nat /\ ~(hist.entries[l] > hist.entries[l])
  BY DEF TypeInv, HistType
<1>2. CASE NewDay
  BY <1>1, <1>2 DEF NewDay
<1>3. ASSUME NEW t \in Threads, ExitAccepted(t) PROVE hist'.entries = hist.entries
  BY <1>3 DEF ExitAccepted, TypeInv, HistType
<1>4. hist' = hist \/ NewDay \/ \E t \in Threads : ExitAccepted(t)
  BY DEF Next, vars, broker, TickBegin, Request, Continue, TradeByHand, Crash, Start, Status, Stop, Close, Ship, Unlink,
     Dismiss, Adopt, ReadPositions, Reconcile, TickAborts, Candles, Publish, ExitSkip, ExitBegin, ExitFindsNone,
     ExitSave, ExitRefused, EntrySkip, EntrySave, AdoptSave
<1> QED BY <1>1, <1>2, <1>3, <1>4

(* The cooldown: an entry order of a leg is for a later bar than the leg's
   last exit of the day (_reentry_allowed_after_exit, _same_bar_action_blocked
   over what _exit_leg saves), whatever broker reads fail. *)
THEOREM CoolsDown == Spec => Cooldown
<1> DEFINE Cools == Alone => \A l \in Legs : hist'.entries[l] > hist.entries[l] /\ clock' = clock
                                => hist.exitBar[l] = None \/ hist'.entryBar[l] > hist.exitBar[l]
<1>1. Init => TypeInv /\ AloneInv
  BY InitTypes, AloneInit
<1>2. TypeInv /\ AloneInv /\ [Next]_vars => TypeInv' /\ AloneInv'
  BY StepTypes, AloneStep
<1>3. TypeInv /\ AloneInv /\ [Next]_vars => Cools
  <2> SUFFICES ASSUME TypeInv, AloneInv, [Next]_vars, Alone, NEW l \in Legs, hist'.entries[l] > hist.entries[l]
               PROVE  hist'.entryBar[l] > hist.exitBar[l]
    OBVIOUS
  <2>1. PICK t \in Threads : EntryAccepted(t)
    BY OnlyEntriesCount
  <2>2. ~(hist.entries[l] > hist.entries[l])
    BY DEF TypeInv, HistType
  <2>3. l = run[t].leg /\ hist'.entryBar[l] = run[t].bar
    BY <2>1, <2>2, EntryCounts
  <2>4. run[t].bar = clock.bar /\ hist.exitBar[l] < clock.bar /\ clock.bar \in Nat
    BY <2>1, <2>3, AloneEnters, ClockHas
  <2>5. hist.exitBar[l] \in Nat
    BY CaseTyped DEF TypeInv, HistType
  <2> QED BY <2>3, <2>4, <2>5
<1>4. TypeInv /\ AloneInv /\ [Next]_vars => [Cools]_vars
  BY <1>3
<1> QED BY <1>1, <1>2, <1>4, PTL DEF Spec, Cooldown

-----------------------------------------------------------------------------
(* One strike of a leg.  What the broker holds was entered by an order that
   is tagged, and the file, when it says open, names it; a tick knows it from
   its reconcile on; a leg the tick may still enter is flat in both. *)
Single == /\ case.live /\ ~case.readsFail /\ ~case.hand /\ case.days = 1
          /\ case.ops \subseteq {"close", "stop"}

Names(leg, l) == leg.open => \A s \in Strikes : (pos[l][s] # 0 => s = leg.strike)

Flat(l) == \A s \in Strikes : pos[l][s] = 0

Rowed(r, l) ==
    \A s \in Strikes :
        /\ pos[l][s] # 0 => r.rows[l][s] # 0
        /\ r.rows[l][s] # 0 => /\ <<l, s>> \in r.tags
                               /\ (r.legs[l].open => s = r.legs[l].strike)
                               /\ \A other \in Strikes : (r.rows[l][other] # 0 => other = s)

Ahead(r, l) == \/ r.pc \in {"exit", "exitorder", "exitsave"}
               \/ r.pc = "entry" /\ (r.leg = "ce" \/ l = "pe")
               \/ r.pc = "entrysave" /\ r.leg = "ce" /\ l = "pe"

Anchored(l) ==
    /\ \A s \in Strikes :
           pos[l][s] # 0 => <<l, s>> \in tagged /\ \A other \in Strikes : (pos[l][other] # 0 => other = s)
    /\ Names(state.leg[l], l)

Informed(r, l) ==
    /\ r.pc \in {"positions", "reconcile"} => Names(r.legs[l], l)
    /\ r.pc = "reconcile" => Rowed(r, l)
    /\ r.pc \in {"signals", "publish"} => Names(r.legs[l], l) /\ (r.legs[l].open \/ Flat(l))
    /\ r.pc = "publish" /\ r.signal[l] \in {"long", "short"} => ~r.legs[l].open
    /\ Ahead(r, l) /\ r.signal[l] \in {"long", "short"} => Flat(l) /\ ~state.leg[l].open
    /\ r.pc = "entrysave" /\ r.leg = l =>
           ~state.leg[l].open /\ \A s \in Strikes : (pos[l][s] # 0 => s = r.atm)

SingleInv == Single =>
    /\ run[Api].pc \in {"idle", "exitorder", "exitsave"} /\ (run[Api].pc # "idle" => run[Api].op = "close")
    /\ run[Scheduler].pc # "adopt" /\ (run[Scheduler].pc # "idle" => run[Scheduler].op = "tick")
    /\ run[Scheduler].pc = "reconcile" => run[Scheduler].read = "ok"
    /\ \A l \in Legs : Anchored(l) /\ Informed(run[Scheduler], l)

LEMMA SingleHas ==
  ASSUME TypeInv, Single, SingleInv
  PROVE  /\ run[Api].pc \in {"idle", "exitorder", "exitsave"} /\ (run[Api].pc # "idle" => run[Api].op = "close")
         /\ run[Scheduler].pc # "adopt" /\ (run[Scheduler].pc # "idle" => run[Scheduler].op = "tick")
         /\ run[Scheduler].pc = "reconcile" => run[Scheduler].read = "ok"
         /\ \A l \in Legs : Anchored(l) /\ Informed(run[Scheduler], l)
         /\ Scheduler \in Threads /\ Api \in Threads /\ Scheduler # Api
BY ThreadsAssumption DEF SingleInv, Threads

(* The thread that is neither idle nor in an exit is the scheduler's. *)
LEMMA SingleTick ==
  ASSUME TypeInv, Single, SingleInv, NEW t \in Threads, run[t].pc \notin {"idle", "exitorder", "exitsave"}
  PROVE  /\ t = Scheduler /\ run[t].op = "tick" /\ run[t].pc # "adopt" /\ (run[t].pc = "reconcile" => run[t].read = "ok")
         /\ \A l \in Legs : Anchored(l) /\ Informed(run[t], l)
BY SingleHas DEF Threads

LEMMA SingleAgain ==
  ASSUME case' = case, run'[Api].pc \in {"idle", "exitorder", "exitsave"}, run'[Api].pc # "idle" => run'[Api].op = "close",
         run'[Scheduler].pc # "adopt", run'[Scheduler].pc # "idle" => run'[Scheduler].op = "tick",
         run'[Scheduler].pc = "reconcile" => run'[Scheduler].read = "ok",
         \A l \in Legs : Anchored(l)' /\ Informed(run[Scheduler], l)'
  PROVE  SingleInv'
BY DEF SingleInv

(* A step that sells at most, and saves a leg at most as flat. *)
LEMMA AnchoredStill ==
  ASSUME NEW l \in Legs, Anchored(l), tagged' = tagged, \A s \in Strikes : pos'[l][s] # 0 => pos[l][s] # 0,
         state'.leg[l] = state.leg[l] \/ ~state'.leg[l].open
  PROVE  Anchored(l)'
BY DEF Anchored, Names

LEMMA InformedStill ==
  ASSUME NEW l \in Legs, NEW q, Informed(q, l), \A s \in Strikes : pos'[l][s] # 0 => pos[l][s] # 0,
         state'.leg[l] = state.leg[l] \/ ~state'.leg[l].open,
         run'[Scheduler] = q
  PROVE  Informed(run[Scheduler], l)'
<1>1. Flat(l) => Flat(l)'
  BY DEF Flat
<1>2. q.pc \in {"positions", "reconcile", "signals", "publish"} => (Names(q.legs[l], l) => Names(run[Scheduler].legs[l], l)')
  BY DEF Names
<1>3. Rowed(q, l) => Rowed(run[Scheduler], l)'
  BY DEF Rowed
<1>4. Ahead(run[Scheduler], l)' <=> Ahead(q, l)
  BY DEF Ahead
<1> QED BY <1>1, <1>2, <1>3, <1>4 DEF Informed

LEMMA SingleShrinks ==
  ASSUME TypeInv, Single, SingleInv, case' = case, tagged' = tagged,
         run'[Api].pc \in {"idle", "exitorder", "exitsave"}, run'[Api].pc # "idle" => run'[Api].op = "close",
         \A l \in Legs : /\ \A s \in Strikes : pos'[l][s] # 0 => pos[l][s] # 0
                         /\ state'.leg[l] = state.leg[l] \/ ~state'.leg[l].open,
         NEW q, run'[Scheduler] = q,
         \/ q = run[Scheduler] \/ q.pc = "idle"
         \/ /\ q.pc \in {"exit", "exitorder", "exitsave", "entry"} /\ q.op = "tick" /\ q.signal = run[Scheduler].signal
            /\ \A l \in Legs : Ahead(q, l) => Ahead(run[Scheduler], l)
  PROVE  SingleInv'
<1>1. \A l \in Legs : Anchored(l)'
  BY SingleHas, AnchoredStill
<1>2. ASSUME NEW l \in Legs PROVE Informed(run[Scheduler], l)'
  <2>1. CASE q = run[Scheduler]
    BY <2>1, SingleHas, InformedStill
  <2>2. CASE q.pc = "idle"
    BY <2>2 DEF Informed, Ahead
  <2>3. CASE /\ q.pc \in {"exit", "exitorder", "exitsave", "entry"} /\ q.op = "tick" /\ q.signal = run[Scheduler].signal
             /\ Ahead(q, l) => Ahead(run[Scheduler], l)
    <3>1. Informed(q, l)
      BY <2>3, SingleHas DEF Informed
    <3> QED BY <3>1, InformedStill
  <2> QED BY <2>1, <2>2, <2>3
<1>3. q.pc # "adopt" /\ (q.pc # "idle" => q.op = "tick") /\ (q.pc = "reconcile" => q.read = "ok")
  BY SingleHas
<1> QED BY <1>1, <1>2, <1>3, SingleAgain

LEMMA ThreadBecomes ==
  ASSUME TypeInv, NEW t \in Threads, NEW q, Become(t, q)
  PROVE  run'[t] = q /\ \A u \in Threads : u # t => run'[u] = run[u]
BY DEF TypeInv, Become

(* The steps of an exit, of the tick's or of an operator's close. *)
LEMMA SingleExits ==
  ASSUME TypeInv, Single, SingleInv, NEW t \in Threads, run[t].pc \in {"exit", "exitorder", "exitsave"},
         UNCHANGED <<case, tagged>>,
         \A l \in Legs : /\ \A s \in Strikes : pos'[l][s] # 0 => pos[l][s] # 0
                         /\ state'.leg[l] = state.leg[l] \/ ~state'.leg[l].open,
         NEW q, Become(t, q),
         \/ \E legs : q = AfterExit(t, legs)
         \/ q.pc \in {"exitorder", "exitsave"} /\ q.op = run[t].op /\ q.signal = run[t].signal
  PROVE  SingleInv'
<1>1. run'[t] = q /\ \A u \in Threads : u # t => run'[u] = run[u]
  BY ThreadBecomes
<1>2. CASE t = Scheduler
  <2>1. run[t].op = "tick" /\ run'[Api] = run[Api]
    BY <1>1, <1>2, SingleHas
  <2>2. \/ q.pc = "idle"
        \/ q.pc \in {"exit", "exitorder", "exitsave", "entry"} /\ q.op = "tick" /\ q.signal = run[t].signal
    BY <2>1, AfterExitIs, IdleIs
  <2>3. \A l \in Legs : Ahead(run[Scheduler], l)
    BY <1>2 DEF Ahead
  <2> QED BY <1>1, <1>2, <2>1, <2>2, <2>3, SingleHas, SingleShrinks
<1>3. CASE t = Api
  <2>1. run[t].op = "close" /\ run'[Scheduler] = run[Scheduler]
    BY <1>1, <1>3, SingleHas
  <2>2. q.pc = "idle" \/ (q.pc \in {"exitorder", "exitsave"} /\ q.op = "close")
    BY <2>1, IdleIs DEF AfterExit
  <2> QED BY <1>1, <1>3, <2>1, <2>2, SingleShrinks
<1> QED BY <1>2, <1>3 DEF Threads

LEMMA SingleExitSkip == ASSUME TypeInv, Single, SingleInv, NEW t \in Threads, ExitSkip(t) \/ ExitRefused(t) PROVE SingleInv'
<1>1. PICK q : q = AfterExit(t, run[t].legs)
  OBVIOUS
<1>2. /\ Become(t, q) /\ UNCHANGED <<case, tagged>> /\ pos' = pos /\ state' = state
      /\ run[t].pc \in {"exit", "exitorder", "exitsave"}
  BY <1>1 DEF ExitSkip, ExitRefused, broker
<1> QED BY <1>1, <1>2, SingleExits

LEMMA SingleExitBegin == ASSUME TypeInv, Single, SingleInv, NEW t \in Threads, ExitBegin(t) PROVE SingleInv'
<1> DEFINE leg == state.leg[run[t].leg]
           next == [run[t] EXCEPT !.pc = "exitorder", !.held = leg]
<1>1. /\ Become(t, next) \/ Become(t, AfterExit(t, run[t].legs))
      /\ UNCHANGED <<case, tagged>> /\ pos' = pos /\ state' = state /\ run[t].pc = "exit"
  BY DEF ExitBegin, broker
<1> HIDE DEF leg
<1>2. next.pc = "exitorder" /\ next.op = run[t].op /\ next.signal = run[t].signal
  <2>1. run[t] \in Fields(case.bars)
    BY RunTyped
  <2> QED BY <2>1 DEF Fields
<1> HIDE DEF next
<1>3. PICK q : q = AfterExit(t, run[t].legs)
  OBVIOUS
<1> QED BY <1>1, <1>2, <1>3, SingleExits

LEMMA FlatIsSaved ==
  ASSUME TypeInv, NEW l \in Legs, NEW leg, SaveLeg(l, Flattened(leg)), leg \in GoodLegs(case.bars)
  PROVE  \A m \in Legs : state'.leg[m] = state.leg[m] \/ ~state'.leg[m].open
<1>1. ~Flattened(leg).open
  BY DEF Flattened, GoodLegs
<1>2. \A m \in Legs : state'.leg[m] = IF m = l THEN Flattened(leg) ELSE state.leg[m]
  BY DEF SaveLeg, TypeInv, StateType
<1> QED BY <1>1, <1>2

LEMMA SingleExitSaves == ASSUME TypeInv, Single, SingleInv, NEW t \in Threads, ExitFindsNone(t) \/ ExitSave(t) PROVE SingleInv'
<1>1. PICK q : q = AfterExit(t, state'.leg)
  OBVIOUS
<1>2. /\ Become(t, q) /\ UNCHANGED <<case, tagged>> /\ pos' = pos
      /\ run[t].pc \in {"exit", "exitorder", "exitsave"} /\ SaveLeg(run[t].leg, Flattened(run[t].held))
  BY <1>1 DEF ExitFindsNone, ExitSave, broker
<1>3. \A l \in Legs : state'.leg[l] = state.leg[l] \/ ~state'.leg[l].open
  BY <1>2, RunTyped, FlatIsSaved DEF Fields
<1> QED BY <1>1, <1>2, <1>3, SingleExits

LEMMA SingleExitAccepted == ASSUME TypeInv, Single, SingleInv, NEW t \in Threads, ExitAccepted(t) PROVE SingleInv'
<1> DEFINE q == [run[t] EXCEPT !.pc = "exitsave"]
<1>1. /\ Become(t, q) /\ UNCHANGED <<case, tagged>> /\ state' = state /\ run[t].pc = "exitorder"
      /\ pos' = [pos EXCEPT ![run[t].leg][run[t].held.strike] = 0]
  BY DEF ExitAccepted, Goto
<1>2. q.pc = "exitsave" /\ q.op = run[t].op /\ q.signal = run[t].signal
  <2>1. run[t] \in Fields(case.bars)
    BY RunTyped
  <2> QED BY <2>1 DEF Fields
<1> HIDE DEF q
<1>3. \A l \in Legs, s \in Strikes : pos'[l][s] # 0 => pos[l][s] # 0
  BY <1>1 DEF TypeInv, Rows
<1> QED BY <1>1, <1>2, <1>3, SingleExits

LEMMA SingleCloseStop ==
  ASSUME TypeInv, Single, SingleInv, NEW t \in Threads, Stop(t) \/ (\E l \in Legs : Close(t, l))
  PROVE  SingleInv'
<1>1. t = Api /\ UNCHANGED <<case, pos, tagged>> /\ state'.leg = state.leg /\ run[t].pc = "idle"
  BY DEF Stop, Close, Asked, broker, TypeInv, StateType
<1>2. run'[Api] = run[Api] \/ (run'[Api].pc = "exitorder" /\ run'[Api].op = "close")
  <2>1. CASE Stop(t)
    BY <2>1 DEF Stop
  <2>2. ASSUME NEW l \in Legs, Close(t, l) PROVE run'[Api].pc = "exitorder" /\ run'[Api].op = "close"
    <3> DEFINE q == [Idle EXCEPT !.pc = "exitorder", !.op = "close", !.leg = l, !.held = state.leg[l]]
    <3>1. Become(t, q)
      BY <2>2 DEF Close
    <3>2. q.pc = "exitorder" /\ q.op = "close"
      BY DEF Idle
    <3> HIDE DEF q
    <3> QED BY <1>1, <3>1, <3>2, ThreadBecomes
  <2> QED BY <2>1, <2>2
<1>3. run'[Scheduler] = run[Scheduler]
  <2>1. UNCHANGED run \/ \E q : Become(t, q)
    BY DEF Stop, Close
  <2> QED BY <1>1, <2>1, ThreadBecomes, SingleHas
<1> QED BY <1>1, <1>2, <1>3, SingleHas, SingleShrinks

LEMMA SingleCrash == ASSUME TypeInv, Single, SingleInv, Crash PROVE SingleInv'
<1>1. UNCHANGED <<case, pos, tagged, state>> /\ run'[Scheduler] = Idle /\ run'[Api] = Idle
  BY SingleHas DEF Crash, broker
<1> QED BY <1>1, IdleIs, SingleShrinks

LEMMA SingleTickBegin == ASSUME TypeInv, Single, SingleInv, NEW t \in Threads, TickBegin(t) PROVE SingleInv'
<1> DEFINE q == [Idle EXCEPT !.pc = "positions", !.op = "tick", !.legs = state'.leg]
<1>1. t = Scheduler /\ state' = DailyReset(state, clock.day) /\ Become(t, q) /\ UNCHANGED <<case, pos, tagged>>
  BY DEF TickBegin, broker
<1>2. q.pc = "positions" /\ q.op = "tick" /\ q.legs = state'.leg
  BY DEF Idle
<1> HIDE DEF q
<1>3. state'.leg = state.leg
  <2>1. clock.day = 1 /\ (state.session = 0 \/ state.session = 1) /\ state \in StateType(case.days, case.bars)
    BY DEF Single, TypeInv, ClockType, StateType
  <2> QED BY <1>1, <2>1 DEF DailyReset, StateType, None
<1>4. run'[Scheduler] = q /\ run'[Api] = run[Api]
  BY <1>1, ThreadBecomes, SingleHas
<1>5. ASSUME NEW l \in Legs PROVE Anchored(l)' /\ Informed(run[Scheduler], l)'
  <2>1. Anchored(l)'
    BY <1>1, <1>3, SingleHas, AnchoredStill
  <2>2. Names(run[Scheduler].legs[l], l)'
    BY <1>2, <1>4, <2>1 DEF Anchored, Names
  <2> QED BY <1>2, <1>4, <2>1, <2>2 DEF Informed, Ahead
<1> QED BY <1>1, <1>2, <1>4, <1>5, SingleHas, SingleAgain

LEMMA SingleReadPositions == ASSUME TypeInv, Single, SingleInv, NEW t \in Threads, ReadPositions(t) PROVE SingleInv'
<1>1. /\ t = Scheduler /\ run[t].pc = "positions" /\ run[t].op = "tick" /\ UNCHANGED <<case, pos, tagged, state>>
      /\ \A l \in Legs : Anchored(l) /\ Informed(run[t], l)
  BY SingleTick DEF ReadPositions, broker
<1> DEFINE faulty == case.live /\ case.readsFail
<1>2. \E read \in {"ok"} \cup (IF faulty THEN {"late", "failed"} ELSE {}), tags \in {tagged} \cup (IF faulty THEN {{}} ELSE {}) :
         Become(t, [run[t] EXCEPT !.pc = "reconcile", !.read = read, !.tags = tags,
                      !.rows = IF read = "failed" THEN Idle.rows ELSE pos])
  BY DEF ReadPositions
<1>3. ~faulty
  BY DEF Single
<1> HIDE DEF faulty
<1> DEFINE q == [run[t] EXCEPT !.pc = "reconcile", !.read = "ok", !.tags = tagged, !.rows = pos]
<1>4. Become(t, q)
  BY <1>2, <1>3
<1>5. q.pc = "reconcile" /\ q.read = "ok" /\ q.tags = tagged /\ q.rows = pos /\ q.op = run[t].op /\ q.legs = run[t].legs
  <2>1. run[t] \in Fields(case.bars)
    BY RunTyped
  <2> QED BY <2>1 DEF Fields
<1> HIDE DEF q
<1>6. run'[Scheduler] = q /\ run'[Api] = run[Api]
  BY <1>1, <1>4, ThreadBecomes, SingleHas
<1>7. ASSUME NEW l \in Legs PROVE Anchored(l)' /\ Informed(run[Scheduler], l)'
  <2>1. Anchored(l)'
    BY <1>1, AnchoredStill
  <2>2. Names(run[t].legs[l], l)
    BY <1>1 DEF Informed
  <2>3. Names(run[Scheduler].legs[l], l)'
    BY <1>1, <1>5, <1>6, <2>2 DEF Names
  <2>4. Rowed(run[Scheduler], l)'
    BY <1>1, <1>5, <1>6, <2>2 DEF Rowed, Names, Anchored
  <2> QED BY <1>5, <1>6, <2>1, <2>3, <2>4 DEF Informed, Ahead
<1> QED BY <1>1, <1>5, <1>6, <1>7, SingleHas, SingleAgain

(* After the reconcile a leg the broker holds is open under its strike. *)
LEMMA PatchNames ==
  ASSUME TypeInv, Single, NEW t \in Threads, run[t].pc = "reconcile", run[t].read = "ok", NEW l \in Legs,
         Anchored(l), Informed(run[t], l), NEW patch \in Patches(run[t], l),
         NEW saved, saved = Patched(state.leg[l], patch)
  PROVE  /\ Names(saved, l) /\ (saved.open \/ Flat(l))
         /\ patch = {} => ~run[t].legs[l].open /\ Flat(l)
<1> DEFINE leg == run[t].legs[l]
<1>1. /\ Names(leg, l) /\ Rowed(run[t], l) /\ leg \in GoodLegs(case.bars)
      /\ patch \in LivePatches(run[t], l)
  BY RunTyped DEF Informed, Patches, Single
<1>2. Held(run[t], l) = {} => Flat(l)
  BY <1>1 DEF Held, Rowed, Flat
<1>3. CASE leg.open /\ leg.strike \in Held(run[t], l)
  <2>1. patch = {leg}
    BY <1>1, <1>3 DEF LivePatches
  <2>2. saved = leg
    BY <2>1, PatchedIs
  <2> QED BY <1>1, <1>3, <2>1, <2>2
<1>4. CASE leg.open /\ leg.strike \notin Held(run[t], l)
  <2>1. patch = {SyncedFlat(leg)}
    BY <1>1, <1>4 DEF LivePatches
  <2>2. saved = SyncedFlat(leg)
    BY <2>1, PatchedIs
  <2>3. ~saved.open
    BY <1>1, <2>2 DEF SyncedFlat, GoodLegs
  <2>4. Held(run[t], l) = {}
    BY <1>1, <1>4 DEF Held, Rowed
  <2> QED BY <1>2, <2>1, <2>3, <2>4 DEF Names
<1>5. CASE ~leg.open /\ Held(run[t], l) = {}
  <2>1. patch = {}
    BY <1>1, <1>5 DEF LivePatches
  <2>2. saved = state.leg[l]
    BY <2>1, PatchedIs
  <2> QED BY <1>2, <1>5, <2>1, <2>2 DEF Anchored
<1>6. CASE ~leg.open /\ Held(run[t], l) # {}
  <2>1. PICK s \in Held(run[t], l) : patch = {FromBroker(leg, s)}
    BY <1>1, <1>6 DEF LivePatches, Held, Rowed
  <2>2. saved = FromBroker(leg, s)
    BY <2>1, PatchedIs
  <2>3. saved.open /\ saved.strike = s
    BY <1>1, <2>2 DEF FromBroker, GoodLegs
  <2> QED BY <1>1, <2>1, <2>3 DEF Held, Rowed, Names
<1> QED BY <1>3, <1>4, <1>5, <1>6

LEMMA SingleReconcile == ASSUME TypeInv, Single, SingleInv, NEW t \in Threads, Reconcile(t) PROVE SingleInv'
<1>1. /\ t = Scheduler /\ run[t].pc = "reconcile" /\ run[t].op = "tick" /\ run[t].read = "ok" /\ UNCHANGED <<case, pos, tagged>>
      /\ \A l \in Legs : Anchored(l) /\ Informed(run[t], l)
  BY SingleTick DEF Reconcile, broker
<1>2. PICK patch, q : /\ \A l \in Legs : patch[l] \in Patches(run[t], l) /\ state'.leg[l] = Patched(state.leg[l], patch[l])
                      /\ Become(t, q) /\ q.pc = "signals" /\ q.op = "tick"
                      /\ \/ q.legs = run[t].legs /\ \A l \in Legs : patch[l] = {}
                         \/ \A l \in Legs : q.legs[l] = state'.leg[l]
  BY <1>1, ReconcileIs
<1>3. run'[Scheduler] = q /\ run'[Api] = run[Api]
  BY <1>1, <1>2, ThreadBecomes, SingleHas
<1>4. ASSUME NEW l \in Legs PROVE Anchored(l)' /\ Informed(run[Scheduler], l)'
  <2>1. PICK saved : saved = state'.leg[l]
    OBVIOUS
  <2>2. Names(saved, l) /\ (saved.open \/ Flat(l)) /\ (patch[l] = {} => ~run[t].legs[l].open /\ Flat(l))
    BY <1>1, <1>2, <2>1, PatchNames
  <2>3. Anchored(l)'
    BY <1>1, <2>1, <2>2 DEF Anchored, Names
  <2>4. Names(q.legs[l], l) /\ (q.legs[l].open \/ Flat(l))
    BY <1>2, <2>1, <2>2 DEF Names
  <2>5. Names(run[Scheduler].legs[l], l)' /\ (run[Scheduler].legs[l].open \/ Flat(l))'
    BY <1>1, <1>3, <2>4 DEF Names, Flat
  <2> QED BY <1>2, <1>3, <2>3, <2>5 DEF Informed, Ahead
<1> QED BY <1>1, <1>2, <1>3, <1>4, SingleHas, SingleAgain

LEMMA SingleTickAborts == ASSUME TypeInv, Single, SingleInv, NEW t \in Threads, TickAborts(t) PROVE SingleInv'
<1>1. t = Scheduler /\ Become(t, Idle) /\ UNCHANGED <<case, pos, tagged>> /\ state'.leg = state.leg
  BY SingleTick, RunTyped DEF TickAborts, broker, StateType
<1>2. run'[Scheduler] = Idle /\ run'[Api] = run[Api]
  BY <1>1, ThreadBecomes, SingleHas
<1> QED BY <1>1, <1>2, IdleIs, SingleHas, SingleShrinks

LEMMA SingleCandles == ASSUME TypeInv, Single, SingleInv, NEW t \in Threads, Candles(t) PROVE SingleInv'
<1>1. /\ t = Scheduler /\ run[t].pc = "signals" /\ run[t].op = "tick" /\ UNCHANGED <<case, pos, tagged>> /\ state'.leg = state.leg
      /\ \A l \in Legs : Anchored(l) /\ Informed(run[t], l)
  BY SingleTick, RunTyped DEF Candles, broker, StateType
<1>2. PICK q : /\ Become(t, q)
               /\ \/ q = Idle
                  \/ /\ q.pc = "publish" /\ q.op = run[t].op /\ q.legs = run[t].legs
                     /\ \A l \in Legs : q.signal[l] \in {"long", "short"} => ~run[t].legs[l].open
  BY CandlesAre
<1>3. run'[Scheduler] = q /\ run'[Api] = run[Api]
  BY <1>1, <1>2, ThreadBecomes, SingleHas
<1>4. CASE q.pc = "idle"
  BY <1>1, <1>3, <1>4, SingleHas, SingleShrinks
<1>5. CASE /\ q.pc = "publish" /\ q.op = run[t].op /\ q.legs = run[t].legs
           /\ \A l \in Legs : q.signal[l] \in {"long", "short"} => ~run[t].legs[l].open
  <2>1. ASSUME NEW l \in Legs PROVE Anchored(l)' /\ Informed(run[Scheduler], l)'
    <3>1. Anchored(l)'
      BY <1>1, AnchoredStill
    <3>2. Names(run[t].legs[l], l) /\ (run[t].legs[l].open \/ Flat(l))
      BY <1>1 DEF Informed
    <3>3. Names(run[Scheduler].legs[l], l)' /\ (run[Scheduler].legs[l].open \/ Flat(l))'
      BY <1>1, <1>3, <1>5, <3>2 DEF Names, Flat
    <3> QED BY <1>3, <1>5, <3>1, <3>3 DEF Informed, Ahead
  <2> QED BY <1>1, <1>3, <1>5, <2>1, SingleHas, SingleAgain
<1> QED BY <1>2, <1>4, <1>5, IdleIs

LEMMA SinglePublish == ASSUME TypeInv, Single, SingleInv, NEW t \in Threads, Publish(t) PROVE SingleInv'
<1> DEFINE ready(l) == IF run[t].signal[l] = "exit" THEN "none" ELSE run[t].signal[l]
           leg == [l \in Legs |-> [run[t].legs[l] EXCEPT !.signal_bar = run[t].bar, !.ready = ready(l)]]
           q == [run[t] EXCEPT !.pc = "exit", !.leg = "ce", !.legs = leg]
<1>1. /\ t = Scheduler /\ run[t].pc = "publish" /\ run[t].op = "tick" /\ UNCHANGED <<case, pos, tagged>>
      /\ \A l \in Legs : Anchored(l) /\ Informed(run[t], l)
  BY SingleTick DEF Publish, broker
<1>2. state' = [state EXCEPT !.leg = leg, !.atm = run[t].atm] /\ Become(t, q)
  BY DEF Publish
<1>3. ASSUME NEW l \in Legs PROVE leg[l].open = run[t].legs[l].open /\ leg[l].strike = run[t].legs[l].strike
  <2>1. run[t].legs[l] \in GoodLegs(case.bars)
    BY RunTyped
  <2> HIDE DEF ready
  <2> QED BY <2>1 DEF GoodLegs
<1> HIDE DEF leg
<1>4. state'.leg = leg
  BY <1>2, RunTyped DEF StateType
<1>5. q.pc = "exit" /\ q.op = run[t].op /\ q.signal = run[t].signal
  <2>1. run[t] \in Fields(case.bars)
    BY RunTyped
  <2> QED BY <2>1 DEF Fields
<1> HIDE DEF q
<1>6. run'[Scheduler] = q /\ run'[Api] = run[Api]
  BY <1>1, <1>2, ThreadBecomes, SingleHas
<1>7. ASSUME NEW l \in Legs PROVE Anchored(l)' /\ Informed(run[Scheduler], l)'
  <2>1. /\ Names(run[t].legs[l], l) /\ (run[t].legs[l].open \/ Flat(l))
        /\ run[t].signal[l] \in {"long", "short"} => ~run[t].legs[l].open
    BY <1>1 DEF Informed
  <2>2. Anchored(l)'
    BY <1>1, <1>3, <1>4, <2>1 DEF Anchored, Names
  <2>3. run[t].signal[l] \in {"long", "short"} => Flat(l)' /\ ~state'.leg[l].open
    BY <1>1, <1>3, <1>4, <2>1 DEF Flat
  <2> QED BY <1>5, <1>6, <2>2, <2>3 DEF Informed
<1> QED BY <1>1, <1>5, <1>6, <1>7, SingleHas, SingleAgain

LEMMA SingleEntrySkip == ASSUME TypeInv, Single, SingleInv, NEW t \in Threads, EntrySkip(t) PROVE SingleInv'
<1>1. t = Scheduler /\ run[t].pc = "entry" /\ UNCHANGED <<case, pos, tagged, state>> /\ Become(t, AfterEntry(t))
  BY SingleTick DEF EntrySkip, broker
<1>2. PICK q : q = AfterEntry(t)
  OBVIOUS
<1>3. q.pc = "idle" \/ (q.pc = "entry" /\ q.op = "tick" /\ q.signal = run[t].signal /\ q.leg = "pe" /\ run[t].leg = "ce")
  BY <1>1, <1>2, AfterEntryIs, IdleIs
<1>4. run'[Scheduler] = q /\ run'[Api] = run[Api]
  BY <1>1, <1>2, ThreadBecomes, SingleHas
<1>5. \A l \in Legs : q.pc = "entry" /\ Ahead(q, l) => Ahead(run[Scheduler], l)
  BY <1>1, <1>3 DEF Ahead
<1> QED BY <1>1, <1>3, <1>4, <1>5, SingleHas, SingleShrinks

LEMMA SingleEntryAccepted == ASSUME TypeInv, Single, SingleInv, NEW t \in Threads, EntryAccepted(t) PROVE SingleInv'
<1> DEFINE m == run[t].leg
           q == [run[t] EXCEPT !.pc = "entrysave"]
<1>1. /\ t = Scheduler /\ run[t].pc = "entry" /\ run[t].op = "tick" /\ UNCHANGED <<case, state>>
      /\ m \in {"ce", "pe"} /\ run[t].atm \in Strikes
      /\ \A l \in Legs : Anchored(l) /\ Informed(run[t], l)
  BY SingleTick, RunTyped DEF EntryAccepted, Fields, Legs, Fits
<1>2. run[t].signal[m] \in {"long", "short"}
  BY <1>1 DEF EntryAccepted, MayEnter, CanEnter
<1>3. q.pc = "entrysave" /\ q.op = run[t].op /\ q.signal = run[t].signal /\ q.leg = m /\ q.atm = run[t].atm
  <2>1. run[t] \in Fields(case.bars)
    BY RunTyped
  <2> QED BY <2>1 DEF Fields
<1>4. Become(t, q)
  BY DEF EntryAccepted, Goto
<1> HIDE DEF q
<1>5. run'[Scheduler] = q /\ run'[Api] = run[Api]
  BY <1>1, <1>4, ThreadBecomes, SingleHas
<1>6. /\ m \in Legs /\ Flat(m) /\ ~state.leg[m].open
  <2>1. m \in Legs /\ Ahead(run[t], m)
    BY <1>1 DEF Ahead, Legs
  <2> QED BY <1>1, <1>2, <2>1 DEF Informed
<1>7. \/ pos' = pos /\ tagged' = tagged
      \/ \E quantity : pos' = [pos EXCEPT ![m] = [pos[m] EXCEPT ![run[t].atm] = quantity]] /\ tagged' = tagged \cup {<<m, run[t].atm>>}
  BY <1>6 DEF EntryAccepted, broker, TypeInv, Rows
<1> HIDE DEF m
<1>8. /\ \A l \in Legs : l # m => pos'[l] = pos[l]
      /\ \A s \in Strikes : pos'[m][s] # 0 => s = run[t].atm /\ <<m, s>> \in tagged'
      /\ tagged \subseteq tagged'
  <2>1. CASE pos' = pos /\ tagged' = tagged
    BY <1>6, <2>1 DEF Flat
  <2>2. ASSUME NEW quantity, pos' = [pos EXCEPT ![m] = [pos[m] EXCEPT ![run[t].atm] = quantity]],
               tagged' = tagged \cup {<<m, run[t].atm>>}
        PROVE  /\ \A l \in Legs : l # m => pos'[l] = pos[l]
               /\ \A s \in Strikes : pos'[m][s] # 0 => s = run[t].atm /\ <<m, s>> \in tagged'
               /\ tagged \subseteq tagged'
    BY <1>6, <2>2 DEF Flat, TypeInv, Rows
  <2> QED BY <1>7, <2>1, <2>2
<1>9. ASSUME NEW l \in Legs PROVE Anchored(l)' /\ Informed(run[Scheduler], l)'
  <2>1. CASE l = m
    <3>1. Anchored(l)'
      BY <1>1, <1>6, <1>8, <2>1 DEF Anchored, Names
    <3>2. ~Ahead(run[Scheduler], l)'
      BY <1>3, <1>5, <2>1 DEF Ahead
    <3> QED BY <1>1, <1>3, <1>5, <1>6, <1>8, <2>1, <3>1, <3>2 DEF Informed
  <2>2. CASE l # m
    <3>1. Anchored(l)'
      BY <1>1, <1>8, <2>2 DEF Anchored, Names
    <3>2. Ahead(q, l) => Ahead(run[t], l)
      BY <1>1, <1>3 DEF Ahead
    <3>3. Ahead(q, l) /\ q.signal[l] \in {"long", "short"} => Flat(l)' /\ ~state'.leg[l].open
      BY <1>1, <1>3, <1>8, <2>2, <3>2 DEF Informed, Flat
    <3>4. Ahead(run[Scheduler], l)' <=> Ahead(q, l)
      BY <1>5 DEF Ahead
    <3> QED BY <1>3, <1>5, <2>2, <3>1, <3>3, <3>4 DEF Informed
  <2> QED BY <2>1, <2>2
<1> QED BY <1>1, <1>3, <1>5, <1>9, SingleHas, SingleAgain

LEMMA SingleEntrySave == ASSUME TypeInv, Single, SingleInv, NEW t \in Threads, EntrySave(t) PROVE SingleInv'
<1>1. /\ t = Scheduler /\ run[t].pc = "entrysave" /\ UNCHANGED <<case, pos, tagged>> /\ Become(t, AfterEntry(t))
      /\ \A l \in Legs : Anchored(l) /\ Informed(run[t], l)
  BY SingleTick DEF EntrySave, broker
<1>2. PICK q : q = AfterEntry(t)
  OBVIOUS
<1>3. q.pc = "idle" \/ (q.pc = "entry" /\ q.op = "tick" /\ q.signal = run[t].signal /\ q.leg = "pe" /\ run[t].leg = "ce")
  BY <1>1, <1>2, AfterEntryIs, IdleIs
<1>4. run'[Scheduler] = q /\ run'[Api] = run[Api]
  BY <1>1, <1>2, ThreadBecomes, SingleHas
<1>5. ASSUME NEW l \in Legs PROVE Anchored(l)'
  <2>1. CASE l # run[t].leg
    BY <1>1, <2>1, EntrySaves, AnchoredStill
  <2>2. CASE l = run[t].leg
    <3>1. \A s \in Strikes : pos[l][s] # 0 => s = run[t].atm
      BY <1>1, <2>2 DEF Informed
    <3>2. state'.leg[l].strike = run[t].atm
      BY <2>2, EntrySaves
    <3> QED BY <1>1, <3>1, <3>2 DEF Anchored, Names
  <2> QED BY <2>1, <2>2
<1>6. ASSUME NEW l \in Legs PROVE Informed(run[Scheduler], l)'
  <2>1. CASE q.pc = "idle"
    BY <1>4, <2>1 DEF Informed, Ahead
  <2>2. CASE q.pc = "entry" /\ q.signal = run[t].signal /\ q.leg = "pe" /\ run[t].leg = "ce"
    <3>1. Ahead(q, l) => l = "pe"
      BY <2>2 DEF Ahead
    <3>2. l = "pe" => Ahead(run[t], l) /\ state'.leg[l] = state.leg[l]
      BY <1>1, <2>2, EntrySaves DEF Ahead
    <3>3. Ahead(q, l) /\ q.signal[l] \in {"long", "short"} => Flat(l)' /\ ~state'.leg[l].open
      BY <1>1, <2>2, <3>1, <3>2 DEF Informed, Flat
    <3>4. Ahead(run[Scheduler], l)' <=> Ahead(q, l)
      BY <1>4 DEF Ahead
    <3> QED BY <1>4, <2>2, <3>3, <3>4 DEF Informed
  <2> QED BY <1>3, <2>1, <2>2
<1> QED BY <1>1, <1>3, <1>4, <1>5, <1>6, SingleHas, SingleAgain

LEMMA SingleInit == Init => SingleInv
<1> SUFFICES ASSUME Init, Single PROVE SingleInv
  BY DEF SingleInv
<1>1. run[Scheduler].pc = "idle" /\ run[Api].pc = "idle" /\ \A l \in Legs, s \in Strikes : pos[l][s] = 0
  BY IdleIs DEF Init, Threads
<1>2. \A l \in Legs : Anchored(l) /\ Informed(run[Scheduler], l)
  BY <1>1 DEF Anchored, Names, Informed, Ahead
<1> QED BY <1>1, <1>2 DEF SingleInv

LEMMA SingleAsks == ASSUME TypeInv, Single, SingleInv, NEW t \in Threads, Request(t) PROVE SingleInv'
<1>1. \A op \in {"start", "status", "ship", "unlink", "dismiss", "adopt"} : ~Asked(t, op)
  BY DEF Asked, Single
<1>2. ~Start(t) /\ ~Status(t) /\ \A l \in Legs : ~Ship(t, l) /\ ~Unlink(t, l) /\ ~Dismiss(t, l) /\ ~Adopt(t, l)
  BY <1>1 DEF Start, Status, Ship, Unlink, Dismiss, Adopt
<1> QED BY <1>2, SingleCloseStop DEF Request

LEMMA SingleStep == ASSUME TypeInv, SingleInv, [Next]_vars PROVE SingleInv'
<1>1. case' = case
  BY DEF Next, vars, TickBegin, Request, Continue, NewDay, TradeByHand, Crash, Start, Status, Stop, Close, Ship, Unlink,
     Dismiss, Adopt, ReadPositions, Reconcile, TickAborts, Candles, Publish, ExitSkip, ExitBegin, ExitFindsNone,
     ExitAccepted, ExitSave, ExitRefused, EntrySkip, EntryAccepted, EntrySave, AdoptSave
<1> SUFFICES ASSUME Single PROVE SingleInv'
  BY <1>1 DEF SingleInv, Single
<1>2. CASE UNCHANGED vars
  BY <1>2, SingleHas, SingleShrinks DEF vars
<1>3. ASSUME NEW t \in Threads, TickBegin(t) PROVE SingleInv'
  BY <1>3, SingleTickBegin
<1>4. ASSUME NEW t \in Threads, Continue(t) PROVE SingleInv'
  <2>1. ~AdoptSave(t)
    BY SingleTick DEF AdoptSave
  <2> QED BY <1>4, <2>1, SingleReadPositions, SingleReconcile, SingleTickAborts, SingleCandles, SinglePublish, SingleExitSkip,
          SingleExitBegin, SingleExitSaves, SingleExitAccepted, SingleEntrySkip, SingleEntryAccepted, SingleEntrySave DEF Continue
<1>5. ASSUME NEW t \in Threads, Request(t) PROVE SingleInv'
  BY <1>5, SingleAsks
<1>6. ~NewDay /\ ~TradeByHand
  BY DEF Single, NewDay, TradeByHand, TypeInv, ClockType
<1> QED BY <1>2, <1>3, <1>4, <1>5, <1>6, SingleCrash DEF Next

(* One strike: while the broker can be read, the algo holds one strike of a
   leg however the at-the-money strike rolls (tick, _enter_leg, _exit_leg,
   _reconcile_broker_legs), also when the process dies between an order and
   its save and when close_leg or stop_runner runs beside a tick. *)
THEOREM OneStrikeIsHeld == Spec => []OneStrikePerLeg
<1>1. Init => TypeInv /\ SingleInv
  BY InitTypes, SingleInit
<1>2. TypeInv /\ SingleInv /\ [Next]_vars => TypeInv' /\ SingleInv'
  BY StepTypes, SingleStep
<1>3. TypeInv /\ SingleInv => OneStrikePerLeg
  <2> SUFFICES ASSUME TypeInv, Single, SingleInv, NEW l \in Legs
               PROVE  Cardinality({s \in Strikes : pos[l][s] # 0}) <= 1
    BY DEF OneStrikePerLeg, Single
  <2> DEFINE held == {s \in Strikes : pos[l][s] # 0}
  <2>1. held = {} \/ \E s : held = {s}
    <3>1. \A s, other \in held : other = s
      BY SingleHas DEF Anchored
    <3> HIDE DEF held
    <3> QED BY <3>1
  <2> HIDE DEF held
  <2>2. Cardinality(held) = 0 \/ Cardinality(held) = 1
    BY <2>1, FS_EmptySet, FS_Singleton
  <2>3. Cardinality(held) <= 1
    BY <2>2
  <2> QED BY <2>3 DEF held
<1> QED BY <1>1, <1>2, <1>3, PTL DEF Spec
=============================================================================
