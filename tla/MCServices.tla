----------------------------- MODULE MCServices -----------------------------
(***************************************************************************)
(* Instances for TLC of the services that share no state with each other:  *)
(* the router over its ledger, the premium book, the exit scan of the      *)
(* watchlist, the risk limits, the ARM gate, the report desk, the archive  *)
(* of samples, the gamma desk's history and, for the cap on open           *)
(* positions, the executor.  Every behaviour runs one of them, which; the  *)
(* rest stay as they begin.                                                *)
(***************************************************************************)
EXTENDS OrderExecution, OrderRouter, PremiumBook, WatchlistExit, RiskWindow, ArmGate, ReportDesk,
    SkewArchive, GammaHistory, TLC

CONSTANTS s1, s2, tick, hand, c1, c2, u1, q1, o1, r1, v1, t1, x1, x2, p1, p2, p3

VARIABLE which

(* Types of the state of each service (the TypeOK of its module). *)
TypesOK ==
    /\ RouterTypeOK /\ PremiumTypeOK /\ ExitTypeOK /\ RiskTypeOK
    /\ ReportTypeOK /\ SkewTypeOK /\ GammaTypeOK

-----------------------------------------------------------------------------
(* One thread reverses and re-enters two symbols under a cap of one position. *)
LongShortFlat == {-1, 0, 1}

(* One thread trades two legs of one key and reconciles, or two threads trade
   one leg each to a target. *)
OneThread == [trades |-> (s1 :> {<<"rs", "ce">>, <<"pb", "ce">>} @@ s2 :> {}), books |-> {s1}, target |-> FALSE,
              exitsFail |-> FALSE, repliesLost |-> FALSE, crashes |-> 1, intents |-> 4]
Each == [OneThread EXCEPT !.trades = (s1 :> {<<"rs", "ce">>} @@ s2 :> {<<"pb", "ce">>}), !.books = {}, !.target = TRUE]
TwoLegs == {<<"rs", "ce">>, <<"pb", "ce">>}
Routings == {OneThread, Each}

(* The tick alone; then with refusals, a gate that closes, requests beside
   it, over three bars too, a bias taken back and two days. *)
TickOnly == [buy |-> FALSE, refuse |-> {}, blind |-> FALSE, atr |-> FALSE, disarm |-> FALSE, flatten |-> FALSE,
             atms |-> {3}, crashes |-> 0, ops |-> {}, calls |-> 0, days |-> 1, bars |-> 2]
Refusing == [TickOnly EXCEPT !.refuse = {"open", "close"}, !.atms = {3, 4}]
Disarming == [TickOnly EXCEPT !.disarm = TRUE, !.flatten = TRUE, !.blind = TRUE]
Besides == [TickOnly EXCEPT !.ops = {"close", "stop", "start"}, !.calls = 2, !.refuse = {"close"}]
Longer == [TickOnly EXCEPT !.ops = {"close"}, !.calls = 1, !.bars = 3]
Revoking == [TickOnly EXCEPT !.buy = TRUE, !.atr = TRUE, !.ops = {"revoke"}, !.calls = 1]
Overnights == [TickOnly EXCEPT !.days = 2, !.bars = 3, !.crashes = 1]
Books == {Refusing, Disarming, Besides, Longer, Revoking, Overnights}

(* Every kind of stop and exit, with failing reads. *)
LongAtr == [side |-> "long", tsl |-> "ATR", sl |-> "Off", tgt |-> "Off", stale |-> FALSE, faults |-> TRUE,
            force |-> FALSE, bars |-> 1]
ShortAtr == [LongAtr EXCEPT !.side = "short", !.sl = "Pts"]
StalePoints == [LongAtr EXCEPT !.tsl = "Pts", !.tgt = "Pts", !.stale = TRUE, !.bars = 2]
ForcedOut == [LongAtr EXCEPT !.tsl = "Off", !.sl = "Pts", !.force = TRUE]
Misled == [LongAtr EXCEPT !.stale = TRUE, !.faults = FALSE]
Exits == {LongAtr, ShortAtr, StalePoints, ForcedOut, Misled}

(* A thread that trades alone, two that cross, a restart. *)
Alone == [callers |-> {c1}, last |-> 4, orders |-> 4, updates |-> 1, crashes |-> 0]
Crossing == [callers |-> {c1, c2}, last |-> 3, orders |-> 3, updates |-> 0, crashes |-> 0]
Restarting == [callers |-> {c1}, last |-> 2, orders |-> 2, updates |-> 2, crashes |-> 1]
Limits == {Alone, Crossing, Restarting}

(* Two jobs with a crash, three in a list of two, and a cap with an orderly
   stop. *)
OneCrash == [keep |-> 3, cap |-> 0, shutdown |-> FALSE, created |-> 2, withdrawn |-> 1, crashes |-> 1]
Full == [OneCrash EXCEPT !.keep = 2, !.created = 3, !.withdrawn = 0, !.crashes = 0]
Capped == [OneCrash EXCEPT !.cap = 1, !.shutdown = TRUE, !.crashes = 0]
Newsrooms == {OneCrash, Full, Capped}

(* Two samples a day, a request beside the sampler, three days; each with one
   crash. *)
Sampled == [viewers |-> {}, days |-> 2, samples |-> 2, crashes |-> 1]
Viewed == [Sampled EXCEPT !.viewers = {v1}, !.samples = 1]
ThreeDays == [Sampled EXCEPT !.days = 3, !.samples = 1]
Archives == {Sampled, Viewed, ThreeDays}
Read == {<<"clean", "degraded">>, <<"degraded", "none">>, <<"none", "none">>}

(* A request and the recorder, with a file that is spoiled or a crash; two
   swings of one side; one swing, with the file or the crash; two requests at
   once. *)
Swing(t, way) == [ts |-> t, side |-> way]
Trail == [live |-> {p1, p3}, swings |-> {}, spoils |-> 1]
Swings == [live |-> {p1}, swings |-> {Swing(0, "bullish"), Swing(1, "bullish")}, spoils |-> 0]
Spoiled == [live |-> {p1}, swings |-> {Swing(0, "bearish")}, spoils |-> 1]
Two == [Spoiled EXCEPT !.live = {p1, p2}, !.spoils = 0]
Sessions == {Trail, Swings, Spoiled, Two}

-----------------------------------------------------------------------------
InRouter(A) == which = "router" /\ A /\ UNCHANGED <<which, bookVars, exitVars, riskVars, gateVars, reportVars, skewVars, gammaVars, execVars>>
InBook(A) == which = "book" /\ A /\ UNCHANGED <<which, routerVars, exitVars, riskVars, gateVars, reportVars, skewVars, gammaVars, execVars>>
InExits(A) == which = "exits" /\ A /\ UNCHANGED <<which, routerVars, bookVars, riskVars, gateVars, reportVars, skewVars, gammaVars, execVars>>
InRisk(A) == which = "risk" /\ A /\ UNCHANGED <<which, routerVars, bookVars, exitVars, gateVars, reportVars, skewVars, gammaVars, execVars>>
InGate(A) == which = "gate" /\ A /\ UNCHANGED <<which, routerVars, bookVars, exitVars, riskVars, reportVars, skewVars, gammaVars, execVars>>
InReports(A) == which = "reports" /\ A /\ UNCHANGED <<which, routerVars, bookVars, exitVars, riskVars, gateVars, skewVars, gammaVars, execVars>>
InSkew(A) == which = "skew" /\ A /\ UNCHANGED <<which, routerVars, bookVars, exitVars, riskVars, gateVars, reportVars, gammaVars, execVars>>
InGamma(A) == which = "gamma" /\ A /\ UNCHANGED <<which, routerVars, bookVars, exitVars, riskVars, gateVars, reportVars, skewVars, execVars>>
InCap(A) == which = "cap" /\ A /\ UNCHANGED <<which, routerVars, bookVars, exitVars, riskVars, gateVars, reportVars, skewVars, gammaVars>>

Init ==
    /\ which \in {"router", "book", "exits", "risk", "gate", "reports", "skew", "gamma", "cap"}
    /\ RouterInit /\ (which # "router" => routing = Each)
    /\ BookInit /\ (which # "book" => book = Revoking)
    /\ ExitInit /\ (which # "exits" => watch = LongAtr)
    /\ RiskInit /\ (which # "risk" => limits = Alone)
    /\ GateInit /\ (which # "gate" => disk = Fresh)
    /\ ReportInit /\ (which # "reports" => reports = OneCrash)
    /\ SkewInit /\ (which # "skew" => skew = Sampled)
    /\ GammaInit /\ (which # "gamma" => session = Trail)
    /\ ExecInit

Next ==
    \/ InRouter(RouterNext) \/ InBook(BookNext) \/ InExits(ExitNext) \/ InRisk(RiskNext)
    \/ InGate(GateNext) \/ InReports(ReportNext) \/ InSkew(SkewNext) \/ InGamma(GammaNext) \/ InCap(ExecNext)

all == <<which, routerVars, bookVars, exitVars, riskVars, gateVars, reportVars, skewVars, gammaVars, execVars>>

(* The fairness of the services that have any, joined into one formula
   per rank: only one of them ever steps. *)
Fairness ==
    /\ WF_all(InRouter(Answer(s1)) \/ InBook(Works(tick)) \/ InExits(Scanning) \/ InReports(WorkerSteps) \/ InSkew(SamplerSteps))
    /\ WF_all(InRouter(Answer(s2)) \/ InBook(Works(hand)) \/ InReports(ShutdownEnds))
    /\ WF_all(InRouter(Book(s1)) \/ InReports(RequestSteps(r1))) /\ WF_all(InRouter(Book(s2)))
    /\ SF_all(InBook(Candles(tick)) \/ InExits(FreshScan))
    /\ SF_all(InBook(CloseFills(tick)) \/ InExits(FreshEvaluate))
    /\ SF_all(InExits(Reconfirm)) /\ SF_all(InExits(CloseTrade))

Spec == Init /\ [][Next]_all /\ Fairness
=============================================================================
