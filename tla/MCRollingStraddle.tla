-------------------------- MODULE MCRollingStraddle --------------------------
(* Cases of RollingStraddle for TLC: each one is a configuration with the     *)
(* faults and requests that meet in it.                                       *)
EXTENDS RollingStraddle

CONSTANTS sched, api

Base == [live |-> TRUE, confirm |-> FALSE, dual |-> TRUE, mode |-> "LongOnly", maxRe |-> 1,
         readsFail |-> FALSE, crash |-> FALSE, hand |-> FALSE, days |-> 1, bars |-> 2, ops |-> {}, calls |-> 0]

Forgetful == [Base EXCEPT !.readsFail = TRUE, !.maxRe = 0, !.bars = 3]
OneAtATime == [Base EXCEPT !.dual = FALSE, !.mode = "Both", !.maxRe = 0]
Dying == [Base EXCEPT !.crash = TRUE, !.calls = 1]
Beside == [Base EXCEPT !.ops = {"close", "stop"}, !.calls = 2, !.maxRe = 0]
TwoDays == [Base EXCEPT !.days = 2, !.maxRe = 0]
Confirmed == [Base EXCEPT !.confirm = TRUE, !.ops = {"ship", "dismiss", "unlink"}, !.calls = 2, !.maxRe = 0]
Paper == [Base EXCEPT !.live = FALSE, !.ops = {"close"}, !.calls = 1]
Polled == [Base EXCEPT !.ops = {"status", "start"}, !.calls = 1, !.maxRe = 0]
ByHand == [Base EXCEPT !.hand = TRUE, !.ops = {"adopt"}, !.calls = 2, !.maxRe = 0, !.bars = 1]

AllCases == {Forgetful, OneAtATime, Dying, Beside, TwoDays, Confirmed, Paper, Polled, ByHand}
ShortBars == {"none", "short", "exit"}
=============================================================================
