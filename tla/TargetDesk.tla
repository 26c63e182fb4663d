------------------------------ MODULE TargetDesk ------------------------------
(***************************************************************************)
(* What place_leg_to_target promises its callers: a call moves the net     *)
(* position of its symbol to its goal in one step, at most once, between   *)
(* its begin and its end - or leaves every position alone.                 *)
(***************************************************************************)
EXTENDS Integers

CONSTANTS Threads, Symbols, Targets, NoGoal

VARIABLES
    position,  \* net position of each symbol
    asked,     \* the call each thread is in: a symbol and a goal, or NoGoal
    done       \* the call has had its one chance to move the position

vars == <<position, asked, done>>

Goals == [sym : Symbols, goal : Targets]

Init ==
    /\ position = [s \in Symbols |-> 0]
    /\ asked = [t \in Threads |-> NoGoal]
    /\ done = [t \in Threads |-> FALSE]

Ask(t) ==
    /\ asked[t] = NoGoal
    /\ \E g \in Goals : asked' = [asked EXCEPT ![t] = g]
    /\ UNCHANGED <<position, done>>

Move(t) ==
    /\ asked[t] # NoGoal
    /\ ~done[t]
    /\ done' = [done EXCEPT ![t] = TRUE]
    /\ \/ position' = [position EXCEPT ![asked[t].sym] = asked[t].goal]
       \/ UNCHANGED position
    /\ UNCHANGED asked

Return(t) ==
    /\ asked[t] # NoGoal
    /\ asked' = [asked EXCEPT ![t] = NoGoal]
    /\ done' = [done EXCEPT ![t] = FALSE]
    /\ UNCHANGED position

Next == \E t \in Threads : Ask(t) \/ Move(t) \/ Return(t)

Spec == Init /\ [][Next]_vars
=============================================================================
