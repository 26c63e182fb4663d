----------------------------- MODULE PremiumBook -----------------------------
(***************************************************************************)
(* execution/premium_book_runner.py over premium_book_store.py: a book of  *)
(* at most one package of option legs, opened and closed leg by leg on the *)
(* zone of the underlying.  The scheduler's tick reads the state file,     *)
(* asks the broker for prices and saves what it read; API handlers close   *)
(* the package beside it.  place_leg_to_target is one step here, as in     *)
(* RollingStraddle: it moves a symbol to a net quantity, or is refused.    *)
(* Single legs (ce, pe) are left out: no code opens one any more.          *)
(***************************************************************************)
EXTENDS Integers, Sequences

CONSTANTS
    Ticker, Handler,  \* the two threads
    Atms,             \* strikes at the money, in strike steps
    BookCases         \* configurations, see BookFields

Zones == {"above", "below", "flat"}   \* of the underlying and ST1, ST2
Desks == {Ticker, Handler}
BookOps == {"start", "stop", "close", "revoke"}

BookFields == {"buy", "refuse", "blind", "atr", "disarm", "flatten", "atms", "crashes", "ops", "calls", "days", "bars"}

ASSUME DesksAssumption == Ticker # Handler
ASSUME AtmsAssumption == Atms \subseteq Nat /\ \A a \in Atms : a >= 2
ASSUME BookCasesAssumption == \A c \in BookCases :
    /\ DOMAIN c = BookFields
    /\ {c.buy, c.blind, c.atr, c.disarm, c.flatten} \subseteq BOOLEAN
    /\ c.refuse \subseteq {"open", "close"} /\ c.atms \subseteq Atms /\ c.ops \subseteq BookOps
    /\ {c.crashes, c.calls, c.days, c.bars} \subseteq Nat

VARIABLES
    book,      \* the case of this behaviour
    wall,      \* [day, phase, bar, armed, buy]: the time, the ARM gate, trade_bias
    holdings,  \* net lots the broker holds of each option
    pstate,    \* premium_book_state.json
    desk,      \* what each thread is in the middle of
    uses,      \* requests, crashes so far
    acts       \* history: the bars of the last entry and of the last exit,
               \* whether an opening was cut short and whether a close put
               \* an older stamp over a newer one

bookVars == <<book, wall, holdings, pstate, desk, uses, acts>>

Options == {"CE", "PE"} \X UNION {a - 2 .. a + 2 : a \in Atms}

(* build_legs with width_steps 1 and otm_offset 0, in the order of the
   orders: what is bought (1) or sold (-1). *)
PackageLegs(structure, a) ==
    CASE structure = "bull_put"      -> << <<"PE", a - 1, -1>>, <<"PE", a - 2, 1>> >>
      [] structure = "bear_call"     -> << <<"CE", a + 1, -1>>, <<"CE", a + 2, 1>> >>
      [] structure = "bull_call"     -> << <<"CE", a, 1>>, <<"CE", a + 1, -1>> >>
      [] structure = "bear_put"      -> << <<"PE", a, 1>>, <<"PE", a - 1, -1>> >>
      [] structure = "long_strangle" -> << <<"CE", a + 1, 1>>, <<"PE", a - 1, 1>> >>
      [] OTHER                       -> << >>

OptionOf(leg) == <<leg[1], leg[2]>>
OptionsOf(legs) == {OptionOf(legs[i]) : i \in 1 .. Len(legs)}

(* pick_auto_structure. *)
Picked(zone, buy) ==
    CASE zone = "above" -> IF buy THEN "bull_call" ELSE "bull_put"
      [] zone = "below" -> IF buy THEN "bear_put" ELSE "bear_call"
      [] OTHER          -> IF buy THEN "long_strangle" ELSE "none"

IsBuyStructure(structure) == structure \in {"bull_call", "bear_put", "long_strangle"}

(* _st1_hit_package.  A price above ST1 raises short_zone_exit and, with a
   strong ADX, long_ready; below it is the other way round. *)
St1Hit(structure, zone) ==
    CASE structure = "bull_call" -> zone = "below"
      [] structure = "bear_put"  -> zone = "above"
      [] OTHER                   -> zone # "flat"

-----------------------------------------------------------------------------
FlatPackage == [open |-> FALSE, structure |-> "none", legs |-> << >>, bar |-> 0, action |-> 0, exit |-> 0]

PInit == [runner |-> FALSE, session |-> 0, seen |-> FALSE, action |-> 0, exit |-> 0, package |-> FlatPackage]

(* reset_daily_state_if_needed: the package goes, the desk's stamps stay. *)
DailyWipe(st, today) ==
    IF st.session = today THEN st
    ELSE [st EXCEPT !.session = today, !.seen = FALSE, !.package = FlatPackage]

(* _desk_bar_guard: the later of the desk's and the package's stamps. *)
Later2(a, b) == IF a > b THEN a ELSE b
Guard(st) == [action |-> Later2(st.action, st.package.action), exit |-> Later2(st.exit, st.package.exit)]

(* Mutant of MayOpen: the bar of the exit counts as a new bar. *)
MayOpenAtOnce(st, bar) ==
    ~st.package.open /\ (Guard(st).action # bar \/ Guard(st).exit = bar)

(* The entry gates of tick: no action on this bar, a newer one than that of
   the last exit, and no package. *)
MayOpen(st, bar) ==
    /\ ~st.package.open
    /\ Guard(st).action # bar
    /\ Guard(st).exit = 0 \/ bar > Guard(st).exit

(* The two patches with _stamp_bar_action. *)
Opened(st, structure, legs, bar) ==
    [st EXCEPT !.action = bar, !.exit = 0,
               !.package = [open |-> TRUE, structure |-> structure, legs |-> legs, bar |-> bar,
                            action |-> bar, exit |-> 0]]

ClosedAt(st, bar) ==
    [st EXCEPT !.action = bar, !.exit = bar,
               !.package = [FlatPackage EXCEPT !.bar = bar, !.action = bar, !.exit = bar]]

-----------------------------------------------------------------------------
(* Local variables: the package and the guard a thread read, the signals of
   the tick, the bias it started with, the legs it still has to trade. *)
AtRest == [pc |-> "idle", op |-> "tick", package |-> FlatPackage, guard |-> [action |-> 0, exit |-> 0],
           zone |-> "flat", atr |-> FALSE, bar |-> 0, atm |-> 0, force |-> FALSE, seen |-> FALSE,
           buy |-> FALSE, structure |-> "none", legs |-> << >>, todo |-> << >>, late |-> FALSE]

Turn(t, d) == desk' = [desk EXCEPT ![t] = d]
Rest(t) == Turn(t, AtRest)

BookInit ==
    /\ book \in BookCases
    /\ wall = [day |-> 1, phase |-> "morning", bar |-> 1, armed |-> TRUE, buy |-> book.buy]
    /\ holdings = [o \in Options |-> 0]
    /\ pstate = [PInit EXCEPT !.runner = TRUE]
    /\ desk = [t \in Desks |-> AtRest]
    /\ uses = [calls |-> 0, crashes |-> 0]
    /\ acts = [entry |-> 0, exit |-> 0, cut |-> FALSE, back |-> FALSE]

(* tick, up to the spot price and the candles it asks for.  The pause between
   two ticks is longer than an API request: one that met a tick is over before
   the next. *)
BookTick(t) ==
    /\ t = Ticker /\ desk[t].pc = "idle" /\ ~desk[Handler].late
    /\ pstate' = DailyWipe(pstate, wall.day)
    /\ IF pstate.runner /\ wall.phase # "closed"
         THEN desk' = [desk EXCEPT ![t] = [AtRest EXCEPT !.pc = "candles", !.seen = pstate'.seen,
                                             !.buy = wall.buy, !.force = wall.phase = "force"],
                                   ![Handler].late = desk[Handler].pc # "idle"]
         ELSE UNCHANGED desk
    /\ UNCHANGED <<book, wall, holdings, uses, acts>>

CandlesFail(t) ==
    /\ desk[t].pc = "candles" /\ book.blind
    /\ Rest(t)
    /\ UNCHANGED <<book, wall, holdings, pstate, uses, acts>>

(* The morning bar opens the entries of the day; a force exit needs none. *)
Candles(t) ==
    /\ desk[t].pc = "candles"
    /\ LET ready == wall.phase # "morning"
       IN  /\ pstate' = [pstate EXCEPT !.seen = @ \/ ready]
           /\ IF desk[t].seen \/ ready \/ desk[t].force
                THEN \E zone \in Zones, atr \in (IF book.atr THEN BOOLEAN ELSE {FALSE}), a \in book.atms :
                       Turn(t, [desk[t] EXCEPT !.pc = "judge", !.package = pstate'.package,
                                  !.guard = Guard(pstate'), !.bar = wall.bar, !.zone = zone,
                                  !.atr = atr, !.atm = a])
                ELSE Rest(t)
    /\ UNCHANGED <<book, wall, holdings, uses, acts>>

(* Mutant of ExitHit: the same-bar guard also stops a force exit. *)
ExitHitGuarded(d) == d.guard.action # d.bar /\ (d.force \/ d.atr \/ St1Hit(d.package.structure, d.zone))

(* _evaluate_package_exit with exit_on_bar_close_only. *)
ExitHit(d) == d.force \/ d.atr \/ (d.guard.action # d.bar /\ St1Hit(d.package.structure, d.zone))

(* Where a thread goes on when its close ends, or raises. *)
AfterClose(d) == IF d.op = "tick" /\ ~d.force THEN [d EXCEPT !.pc = "gates"]
                 ELSE IF d.op = "revoke" THEN [d EXCEPT !.pc = "config"] ELSE AtRest

(* What _close_package starts with; a refused ARM gate makes it look. *)
Closing(d, package) ==
    [d EXCEPT !.pc = IF wall.armed THEN "close" ELSE "look", !.package = package, !.todo = package.legs]

(* The prices have been read: the package as it was before is saved, then
   it is closed, or the entries follow. *)
Judge(t) ==
    /\ desk[t].pc = "judge"
    /\ LET d == desk[t]
           p == [d.package EXCEPT !.bar = d.bar]
       IN  /\ pstate' = IF d.package.open THEN [pstate EXCEPT !.package = p] ELSE pstate
           /\ Turn(t, IF d.package.open /\ ExitHit(d) THEN Closing(d, p) ELSE AfterClose(d))
    /\ UNCHANGED <<book, wall, holdings, uses, acts>>

(* What _close_package ends with: the bar is that of the tick's signals, or
   for a request the one the package had when the request read it. *)
CloseBar(t) == IF desk[t].op = "tick" THEN desk[t].bar ELSE desk[t].package.bar
Backwards(t) == CloseBar(t) < Guard(pstate).action
CloseNoted(t) == pstate' = ClosedAt(pstate, CloseBar(t)) /\ Turn(t, AfterClose(desk[t]))

(* Disarmed: _broker_symbols_flat decides whether the close is only noted. *)
LookFlat(t) ==
    /\ desk[t].pc = "look" /\ \A o \in OptionsOf(desk[t].package.legs) : holdings[o] = 0
    /\ CloseNoted(t) /\ acts' = [acts EXCEPT !.back = @ \/ Backwards(t)]
    /\ UNCHANGED <<book, wall, holdings, uses>>

LookHeld(t) ==
    /\ desk[t].pc = "look"
    /\ book.blind \/ \E o \in OptionsOf(desk[t].package.legs) : holdings[o] # 0
    /\ Turn(t, IF desk[t].op = "tick" THEN AfterClose(desk[t]) ELSE AtRest)
    /\ UNCHANGED <<book, wall, holdings, pstate, uses, acts>>

CloseLeg(t) ==
    /\ desk[t].pc = "close" /\ desk[t].todo # << >>
    /\ LET o == OptionOf(Head(desk[t].todo))
       IN  /\ wall.armed \/ holdings[o] = 0
           /\ holdings' = [holdings EXCEPT ![o] = 0]
    /\ Turn(t, [desk[t] EXCEPT !.todo = Tail(@)])
    /\ UNCHANGED <<book, wall, pstate, uses, acts>>

(* Mutant of CloseRefused: the exception of a leg is swallowed. *)
CloseRefusedGoesOn(t) ==
    /\ desk[t].pc = "close" /\ desk[t].todo # << >>
    /\ "close" \in book.refuse \/ ~wall.armed
    /\ holdings[OptionOf(Head(desk[t].todo))] # 0
    /\ Turn(t, [desk[t] EXCEPT !.todo = Tail(@)])
    /\ UNCHANGED <<book, wall, holdings, pstate, uses, acts>>

(* The first refused leg ends the close; the package stays open. *)
CloseRefused(t) ==
    /\ desk[t].pc = "close" /\ desk[t].todo # << >>
    /\ "close" \in book.refuse \/ ~wall.armed
    /\ holdings[OptionOf(Head(desk[t].todo))] # 0
    /\ Turn(t, IF desk[t].op = "tick" THEN AfterClose(desk[t]) ELSE AtRest)
    /\ UNCHANGED <<book, wall, holdings, pstate, uses, acts>>

CloseSave(t) ==
    /\ desk[t].pc = "close" /\ desk[t].todo = << >>
    /\ CloseNoted(t)
    /\ acts' = [acts EXCEPT !.exit = Later2(@, CloseBar(t)), !.back = @ \/ Backwards(t)]
    /\ UNCHANGED <<book, wall, holdings, uses>>

(* The entry half of tick, on the state as it is now. *)
Skip(t) ==
    /\ desk[t].pc = "gates"
    /\ \/ ~MayOpen(pstate, desk[t].bar)
       \/ Picked(desk[t].zone, desk[t].buy) = "none"
       \/ ~wall.armed
    /\ Rest(t)
    /\ UNCHANGED <<book, wall, holdings, pstate, uses, acts>>

BeginOpen(t) ==
    /\ desk[t].pc = "gates" /\ MayOpen(pstate, desk[t].bar) /\ wall.armed
    /\ LET structure == Picked(desk[t].zone, desk[t].buy)
           legs == PackageLegs(structure, desk[t].atm)
       IN  /\ legs # << >>
           /\ Turn(t, [desk[t] EXCEPT !.pc = "open", !.structure = structure, !.legs = legs, !.todo = legs])
    /\ UNCHANGED <<book, wall, holdings, pstate, uses, acts>>

OpenLeg(t) ==
    /\ desk[t].pc = "open" /\ desk[t].todo # << >> /\ wall.armed
    /\ LET leg == Head(desk[t].todo)
       IN  holdings' = [holdings EXCEPT ![OptionOf(leg)] = leg[3]]
    /\ acts' = [acts EXCEPT !.entry = desk[t].bar]
    /\ Turn(t, [desk[t] EXCEPT !.todo = Tail(@)])
    /\ UNCHANGED <<book, wall, pstate, uses>>

HalfOpen(t) == desk[t].pc = "open" /\ desk[t].todo # desk[t].legs

(* Nothing is saved and nothing is undone. *)
OpenRefused(t) ==
    /\ desk[t].pc = "open" /\ desk[t].todo # << >>
    /\ "open" \in book.refuse \/ ~wall.armed
    /\ Rest(t)
    /\ acts' = [acts EXCEPT !.cut = @ \/ HalfOpen(t)]
    /\ UNCHANGED <<book, wall, holdings, pstate, uses>>

OpenSave(t) ==
    /\ desk[t].pc = "open" /\ desk[t].todo = << >>
    /\ pstate' = Opened(pstate, desk[t].structure, desk[t].legs, desk[t].bar)
    /\ Rest(t)
    /\ UNCHANGED <<book, wall, holdings, uses, acts>>

-----------------------------------------------------------------------------
Requested(t, op) ==
    /\ t = Handler /\ desk[t].pc = "idle" /\ op \in book.ops /\ uses.calls < book.calls
    /\ uses' = [uses EXCEPT !.calls = @ + 1]

(* start_runner and stop_runner. *)
SetRunner(t) ==
    /\ \E op \in {"start", "stop"} : Requested(t, op) /\ pstate' = [pstate EXCEPT !.runner = op = "start"]
    /\ UNCHANGED <<book, wall, holdings, desk, acts>>

(* close_all, and revoke_buy_hold, which spares the packages it did not buy
   unless the configured structure is a buy one. *)
CloseAll(t) ==
    /\ \E op \in {"close", "revoke"} :
         /\ Requested(t, op)
         /\ LET d == [AtRest EXCEPT !.op = op, !.late = desk[Ticker].pc # "idle"]
                p == pstate.package
            IN  Turn(t, IF p.open /\ (op = "revoke" => IsBuyStructure(p.structure) \/ wall.buy)
                        THEN Closing(d, p) ELSE AfterClose(d))
    /\ UNCHANGED <<book, wall, holdings, pstate, acts>>

(* The rest of revoke_buy_hold: trade_bias is sell_premium. *)
Revoke(t) ==
    /\ desk[t].pc = "config"
    /\ wall' = [wall EXCEPT !.buy = FALSE]
    /\ Rest(t)
    /\ UNCHANGED <<book, holdings, pstate, uses, acts>>

(* Time. *)
NextBar ==
    /\ wall.bar < book.bars
    /\ wall' = [wall EXCEPT !.bar = @ + 1]
    /\ UNCHANGED <<book, holdings, pstate, desk, uses, acts>>

NextPhase ==
    /\ wall.phase \in {"morning", "open"} \/ (wall.phase = "force" /\ book.days > 1)
    /\ wall' = [wall EXCEPT !.phase = CASE @ = "morning" -> "open" [] @ = "open" -> "force" [] OTHER -> "closed"]
    /\ UNCHANGED <<book, holdings, pstate, desk, uses, acts>>

(* MIS positions are squared off over night. *)
Overnight ==
    /\ wall.phase = "closed" /\ wall.day < book.days /\ wall.bar < book.bars
    /\ \A t \in Desks : desk[t].pc = "idle"
    /\ wall' = [wall EXCEPT !.day = @ + 1, !.phase = "morning", !.bar = @ + 1]
    /\ holdings' = [o \in Options |-> 0]
    /\ UNCHANGED <<book, pstate, desk, uses, acts>>

Arming ==
    /\ book.disarm
    /\ wall' = [wall EXCEPT !.armed = ~@]
    /\ UNCHANGED <<book, holdings, pstate, desk, uses, acts>>

(* The operator closes a position in Kite. *)
Flatten(o) ==
    /\ book.flatten /\ holdings[o] # 0
    /\ holdings' = [holdings EXCEPT ![o] = 0]
    /\ UNCHANGED <<book, wall, pstate, desk, uses, acts>>

BookCrash ==
    /\ uses.crashes < book.crashes
    /\ uses' = [uses EXCEPT !.crashes = @ + 1]
    /\ desk' = [t \in Desks |-> AtRest]
    /\ acts' = [acts EXCEPT !.cut = @ \/ \E t \in Desks : HalfOpen(t)]
    /\ UNCHANGED <<book, wall, holdings, pstate>>

Closes(t) == LookFlat(t) \/ LookHeld(t) \/ CloseLeg(t) \/ CloseRefused(t) \/ CloseSave(t)
Opens(t) == Skip(t) \/ BeginOpen(t) \/ OpenLeg(t) \/ OpenRefused(t) \/ OpenSave(t)
Works(t) == BookTick(t) \/ CandlesFail(t) \/ Candles(t) \/ Judge(t) \/ Closes(t) \/ Opens(t) \/ Revoke(t)

BookNext ==
    \/ \E t \in Desks : Works(t) \/ SetRunner(t) \/ CloseAll(t)
    \/ NextBar \/ NextPhase \/ Overnight \/ Arming \/ BookCrash
    \/ \E o \in Options : Flatten(o)

(* The loop ticks for ever and requests end; candles that keep failing and
   orders that keep being refused are not the runner's to overcome. *)
CloseFills(t) == CloseLeg(t) /\ holdings' # holdings
BookFairness == /\ \A t \in Desks : WF_bookVars(Works(t))
                /\ SF_bookVars(Candles(Ticker)) /\ SF_bookVars(CloseFills(Ticker))

BookSpec == BookInit /\ [][BookNext]_bookVars /\ BookFairness

-----------------------------------------------------------------------------
(* The types; a package in the file is open with all the legs of its
   structure or has none, and no stamp is newer than the newest bar. *)
PremiumTypeOK ==
    /\ holdings \in [Options -> -1 .. 1]
    /\ LET p == pstate.package
       IN  /\ p.open => \E a \in Atms : p.legs = PackageLegs(p.structure, a) /\ p.legs # << >>
           /\ ~p.open => p.legs = << >>
           /\ {p.bar, p.action, p.exit, pstate.action, pstate.exit} \subseteq 0 .. wall.bar

(* What the broker holds is in the package of the file, or in the hands of
   the tick that is opening it: a refused leg of a close, a disarmed gate, a
   hand-made exit, a crash or a save that comes late never make the book
   forget a position.  Only an opening cut short half-way does. *)
NothingUntracked == \A o \in Options : holdings[o] # 0 =>
    \/ acts.cut
    \/ pstate.package.open /\ o \in OptionsOf(pstate.package.legs)
    \/ \E t \in Desks : desk[t].pc = "open" /\ o \in OptionsOf(desk[t].legs)

(* "After exit, wait until a newer bar timestamp before re-entry" and "Block
   a second entry/exit on the same candle timestamp" (premium_book_runner.py:
   102, 113), as they are said: the first order of a package is for a bar
   after those of the last entry and of the last exit; an opening that was
   cut short leaves no stamp. *)
FirstOrder(t) == desk[t].pc = "open" /\ desk[t].todo = desk[t].legs /\ desk'[t].todo # desk[t].todo
                 /\ desk'[t].pc = "open"
NewBar(t) == desk[t].bar > acts.entry /\ desk[t].bar > acts.exit
ReentryWaits == [][\A t \in Desks : FirstOrder(t) /\ ~acts.cut => NewBar(t)]_bookVars

(* As the code has it: so it is, whatever closed the package, until a request
   beside the tick stamps its close with the older bar it had read. *)
EntriesWaitForABar == [][\A t \in Desks : FirstOrder(t) /\ ~acts.cut /\ ~acts.back => NewBar(t)]_bookVars

(* In the force-exit window an open package is closed, through refused legs
   and failed reads, and also when a late save opened it again. *)
Forced == wall.phase = "force" /\ wall.armed /\ pstate.runner
ForceFlattens == []<>~(Forced /\ pstate.package.open)
=============================================================================
