---------------------------- MODULE WatchlistExit ----------------------------
(***************************************************************************)
(* execution/watchlist_exit_runner.py: the scan of the active rows for one *)
(* of them.  The scan moves the trailing stop and the best price with the  *)
(* price of the tick cache, saves both, and closes the trade when a price  *)
(* from the broker's REST interface confirms the exit.  Prices are small   *)
(* integers.  What the store and close_watchlist_trade do is the subject   *)
(* of Watchlist: here a close fills or fails.                              *)
(***************************************************************************)
EXTENDS Integers

CONSTANTS
    Lowest, Highest, \* prices
    EntryPrice,
    ExitCases        \* rows and faults, see ExitCaseType

Prices == Lowest .. Highest
NoPrice == 0         \* no stop, no quote, no band

(* The Row's settings, whether the cache may be wrong or the broker may not
   answer, whether the session ends, and how many bars there are. *)
ExitCaseType == [side : {"long", "short"}, tsl : {"Off", "ATR", "Pts"}, sl : {"Off", "Pts"}, tgt : {"Off", "Pts"},
                 stale : BOOLEAN, faults : BOOLEAN, force : BOOLEAN, bars : Nat]

ASSUME PricesAssumption ==
    Lowest \in Nat /\ Highest \in Nat /\ EntryPrice \in Prices /\ Lowest > 2
ASSUME ExitCasesAssumption == \A c \in ExitCases :
    /\ DOMAIN c = {"side", "tsl", "sl", "tgt", "stale", "faults", "force", "bars"}
    /\ c.side \in {"long", "short"} /\ c.tsl \in {"Off", "ATR", "Pts"} /\ {c.sl, c.tgt} \subseteq {"Off", "Pts"}
    /\ {c.stale, c.faults, c.force} \subseteq BOOLEAN /\ c.bars \in Nat

VARIABLES
    watch,    \* the case of this behaviour
    row,      \* the row in watchlist.json
    market,   \* [price, bar, high, low, band, zone, due]: the last closed bar's high,
              \* low, SuperTrend band and close beyond ST1, the force exit
    scan,     \* what the scan is in the middle of
    seen      \* history: lowest and highest price the broker gave since the entry

exitVars == <<watch, row, market, scan, seen>>

Least(a, b) == IF a < b THEN a ELSE b
Most(a, b) == IF a > b THEN a ELSE b
Long == watch.side = "long"
(* Of two stops or prices, the better for the trade; reached: p is at level
   v or beyond it, against the trade. *)
Better(a, b) == IF Long THEN Most(a, b) ELSE Least(a, b)
Against(p, v) == IF Long THEN p <= v ELSE p >= v
InFavour(p, v) == IF Long THEN p >= v ELSE p <= v
Behind(p, distance) == IF Long THEN p - distance ELSE p + distance

-----------------------------------------------------------------------------
(* _latest_signals: the closed bar, which closed at its high, and its zone;
   atr1 * tsl_value is 1. *)
SignalsNow == [high |-> market.high, low |-> market.low, band |-> market.band, zone |-> market.zone, bar |-> market.bar]

(* Mutant of TrailOf: the stop follows the price both ways. *)
TrailOfBothWays(r, s, ref) ==
    LET first == IF r.trail # NoPrice THEN r.trail
                 ELSE IF watch.sl = "Pts" THEN Behind(EntryPrice, 1) ELSE NoPrice
        candidate == Behind(IF watch.tsl = "ATR" THEN ref ELSE IF Long THEN s.high ELSE s.low, 1)
    IN  IF watch.tsl = "Off" THEN first ELSE candidate

(* _update_trail_stop: the stored stop, or the stop loss at first, only ever
   replaced by a better one: behind the best price or, without a quote, the
   last close for an ATR stop, behind the last bar for one in points. *)
TrailOf(r, s, ref) ==
    LET first == IF r.trail # NoPrice THEN r.trail
                 ELSE IF watch.sl = "Pts" THEN Behind(EntryPrice, 1) ELSE NoPrice
        candidate == Behind(IF watch.tsl = "ATR" THEN ref ELSE IF Long THEN s.high ELSE s.low, 1)
    IN  IF watch.tsl = "Off" THEN first
        ELSE IF first = NoPrice THEN candidate ELSE Better(first, candidate)

(* _risk_exit_reason: stop loss, trailing stop or target. *)
RiskHit(p, trail) ==
    \/ trail # NoPrice /\ (watch.tsl # "Off" \/ watch.sl # "Off") /\ Against(p, trail)
    \/ watch.tgt = "Pts" /\ InFavour(p, Behind(EntryPrice, -2))

(* _st_zone_levels_live: the SuperTrend band against the live price. *)
ZoneHit(p, s) == s.band # NoPrice /\ Against(p, s.band)

(* The zone by the price or by the closed bar, then the force exit. *)
ZoneKind(s, p) ==
    IF p # NoPrice /\ ZoneHit(p, s) THEN "zone_ltp"
    ELSE IF s.zone THEN "zone_bar" ELSE IF market.due THEN "force" ELSE "none"

(* Mutant of ExitKind: on the bar of the entry nothing exits. *)
ExitKindGraceFirst(r, s, p, trail) ==
    IF s.bar <= r.entry_bar THEN "none"
    ELSE IF p # NoPrice /\ RiskHit(p, trail) THEN "risk" ELSE ZoneKind(s, p)

(* _should_exit: risk first, and no other exit on the bar of the entry. *)
ExitKind(r, s, p, trail) ==
    IF p # NoPrice /\ RiskHit(p, trail) THEN "risk"
    ELSE IF s.bar <= r.entry_bar THEN "none" ELSE ZoneKind(s, p)

AtEase == [pc |-> "idle", item |-> [status |-> "closed", trail |-> NoPrice, extreme |-> NoPrice, entry_bar |-> 0],
           ltp |-> NoPrice, signals |-> [high |-> NoPrice, low |-> NoPrice, band |-> NoPrice, zone |-> FALSE, bar |-> 0],
           trail |-> NoPrice, extreme |-> NoPrice, kind |-> "none"]

ExitInit ==
    /\ watch \in ExitCases
    /\ row = [status |-> "active", trail |-> NoPrice, extreme |-> EntryPrice, entry_bar |-> 1]
    /\ market = [price |-> EntryPrice, bar |-> 1, high |-> EntryPrice, low |-> EntryPrice, band |-> NoPrice,
                 zone |-> FALSE, due |-> FALSE]
    /\ scan = AtEase
    /\ seen = [low |-> EntryPrice, high |-> EntryPrice]

(* list_items("active") and the prices of the cache: the price now or, of a
   wrong tick, any; or none. *)
ScanBegin ==
    /\ scan.pc = "idle" /\ row.status = "active"
    /\ \E p \in {market.price} \cup (IF watch.stale THEN Prices ELSE {}) \cup (IF watch.faults THEN {NoPrice} ELSE {}) :
         scan' = [AtEase EXCEPT !.pc = "signals", !.item = row, !.ltp = p]
    /\ UNCHANGED <<watch, row, market, seen>>

(* The candles, and _should_exit on them. *)
Evaluate ==
    /\ scan.pc = "signals"
    /\ LET r == scan.item
           extreme == IF scan.ltp = NoPrice THEN r.extreme ELSE Better(r.extreme, scan.ltp)
           trail == TrailOf(r, SignalsNow, IF scan.ltp = NoPrice THEN market.high ELSE extreme)
       IN  scan' = [scan EXCEPT !.pc = "save", !.signals = SignalsNow, !.trail = trail, !.extreme = extreme,
                                !.kind = ExitKind(r, SignalsNow, scan.ltp, trail)]
    /\ UNCHANGED <<watch, row, market, seen>>

CandlesMissing ==
    /\ scan.pc = "signals" /\ watch.faults
    /\ scan' = AtEase
    /\ UNCHANGED <<watch, row, market, seen>>

(* The patch with trail_stop and trail_extreme. *)
Trailed(r) == [r EXCEPT !.trail = IF scan.trail = NoPrice THEN @ ELSE scan.trail, !.extreme = scan.extreme]

(* It is saved before anything is confirmed. *)
SaveTrail ==
    /\ scan.pc = "save"
    /\ row' = Trailed(row)
    /\ scan' = CASE scan.kind = "none"                    -> AtEase
                 [] scan.kind \in {"risk", "zone_ltp"}    -> [scan EXCEPT !.pc = "confirm"]
                 [] OTHER                                 -> [scan EXCEPT !.pc = "close"]
    /\ UNCHANGED <<watch, market, seen>>

(* Mutant of Reconfirm: an answer of the broker is not compared. *)
ReconfirmAny ==
    /\ scan.pc = "confirm"
    /\ scan' = [scan EXCEPT !.pc = "close", !.ltp = market.price]
    /\ UNCHANGED <<watch, row, market, seen>>

(* rest_prices: the exit has to hold for this price too, with the stop of
   this scan and the best price of the row it read. *)
Reconfirm ==
    /\ scan.pc = "confirm"
    /\ LET p == market.price
           r == [scan.item EXCEPT !.trail = scan.trail]
           trail == TrailOf(r, scan.signals, Better(scan.item.extreme, p))
           kind == ExitKind(r, scan.signals, p, trail)
       IN  scan' = IF kind \in {"risk", "zone_ltp"}
                   THEN [scan EXCEPT !.pc = "close", !.ltp = p, !.kind = kind] ELSE AtEase
    /\ UNCHANGED <<watch, row, market, seen>>

ReconfirmFails ==
    /\ scan.pc = "confirm" /\ watch.faults
    /\ scan' = AtEase
    /\ UNCHANGED <<watch, row, market, seen>>

(* close_watchlist_trade; its orders may be refused. *)
CloseTrade ==
    /\ scan.pc = "close"
    /\ row' = [row EXCEPT !.status = "closed"]
    /\ scan' = AtEase
    /\ UNCHANGED <<watch, market, seen>>

CloseFails ==
    /\ scan.pc = "close" /\ watch.faults
    /\ scan' = AtEase
    /\ UNCHANGED <<watch, row, market, seen>>

(* The price moves by one; a bar closes, with a new band or none. *)
Move ==
    /\ \E p \in Prices :
         /\ p - market.price \in {-1, 1}
         /\ market' = [market EXCEPT !.price = p]
         /\ seen' = [low |-> Least(seen.low, p), high |-> Most(seen.high, p)]
    /\ UNCHANGED <<watch, row, scan>>

BarCloses ==
    /\ market.bar < watch.bars
    /\ \E band \in {NoPrice, market.price - 1, market.price + 1}, zone \in BOOLEAN :
         market' = [market EXCEPT !.bar = @ + 1, !.high = market.price, !.low = market.price - 1,
                                  !.band = band, !.zone = zone]
    /\ UNCHANGED <<watch, row, scan, seen>>

ForceDue ==
    /\ watch.force /\ ~market.due
    /\ market' = [market EXCEPT !.due = TRUE]
    /\ UNCHANGED <<watch, row, scan, seen>>

Scanning == ScanBegin \/ Evaluate \/ CandlesMissing \/ SaveTrail \/ Reconfirm \/ ReconfirmFails \/ CloseTrade \/ CloseFails
ExitNext == Scanning \/ Move \/ BarCloses \/ ForceDue

(* The scheduler scans for ever; now and then the cache is right and the
   candles come, and neither REST nor the orders fail for ever. *)
FreshScan == ScanBegin /\ scan'.ltp = market.price
FreshEvaluate == Evaluate /\ scan.ltp = market.price
ExitFairness == /\ WF_exitVars(Scanning) /\ SF_exitVars(FreshScan) /\ SF_exitVars(FreshEvaluate)
                /\ SF_exitVars(Reconfirm) /\ SF_exitVars(CloseTrade)
ExitSpec == ExitInit /\ [][ExitNext]_exitVars /\ ExitFairness

-----------------------------------------------------------------------------
(* The types; the best price is none before the entry's, and while quotes
   come an ATR stop is never nearer than one band behind the best price. *)
ExitTypeOK ==
    /\ row.status \in {"active", "closed"} /\ row.trail \in {NoPrice} \cup (Lowest - 1 .. Highest + 1)
    /\ row.extreme \in Prices /\ InFavour(row.extreme, EntryPrice)
    /\ watch.tsl = "ATR" /\ ~watch.faults /\ row.trail # NoPrice => InFavour(Behind(row.extreme, 1), row.trail)

(* While a trade is open its stop and its best price never move against it,
   whatever the cache says and however the saves of the scan interleave with
   the market. *)
StopOnlyTightens == [][
    row.status = "active" => /\ row.trail # NoPrice => row'.trail # NoPrice /\ InFavour(row'.trail, row.trail)
                             /\ InFavour(row'.extreme, row.extreme)]_exitVars

(* "otherwise defer this tick rather than act on a stale/borderline price":
   whatever the cache said, a trade closes on its stop or its target only at
   a price the broker gave, and at the stop that is in the file. *)
ClosesAtABrokerPrice == [][
    row.status = "active" /\ row'.status = "closed" /\ scan.kind = "risk"
        => seen.low <= scan.ltp /\ scan.ltp <= seen.high /\ RiskHit(scan.ltp, row.trail)]_exitVars

(* A trade whose price stays at its stop or beyond is closed, also on the bar
   of its entry and through failing reads, answers and orders. *)
Stopped == row.status = "active" /\ row.trail # NoPrice /\ RiskHit(market.price, row.trail)
StoppedTradeCloses == []<>~Stopped
=============================================================================
