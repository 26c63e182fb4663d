----------------------------- MODULE MCWatchlist -----------------------------
(* Instances of Watchlist: a row entered by hand, one that waits for a signal, *)
(* and a spread whose own symbol, the spot, is none of its legs.               *)
EXTENDS Watchlist, TLC

CONSTANTS api, api2, sched, i1, i2, s1, s2, s3

OwnKey == (i1 :> s1 @@ i2 :> s2)
OwnLeg == (i1 :> {s1} @@ i2 :> {s2})
SpreadKey == (i1 :> s1)
SpreadLegs == (i1 :> {s2, s3})
Everything == Singles \cup Loops
AnyOp == (api :> Everything)
OneKey == (i1 :> s1)
OneLeg == (i1 :> {s1})
SpreadOps == (api :> {"add", "activate", "reconcile"})
TwoHandlers == (api :> Singles @@ api2 :> Singles)
DeskOps == (api :> Everything @@ sched :> {"exits", "reconcile"})
=============================================================================
