---------------------------- MODULE MCPremiumBook ----------------------------
(* The premium book for TLC, with one request that closes beside the tick and *)
(* two bars: the fewest in which a close can put an older stamp over a newer.  *)
EXTENDS PremiumBook

CONSTANTS tick, hand

Beside == [buy |-> FALSE, refuse |-> {}, blind |-> FALSE, atr |-> FALSE, disarm |-> FALSE, flatten |-> FALSE,
           atms |-> {3}, crashes |-> 0, ops |-> {"close"}, calls |-> 1, days |-> 1, bars |-> 2]
OneRequest == {Beside}
=============================================================================
