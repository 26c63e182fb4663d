----------------------------- MODULE RiskWindow -----------------------------
(***************************************************************************)
(* risk/limits.py: the rate limit of check_order, a list of time stamps in *)
(* a global name that each check binds to a new list, and update_limits,   *)
(* which saves the limits in risk_limits.json.  Nothing here is locked;    *)
(* callers hold locks of different symbols.  Quantity, product, exchange   *)
(* and open positions are one outcome: a check passes them or does not.    *)
(* The loss limit is left out: no code calls record_pnl.                   *)
(***************************************************************************)
EXTENDS Integers, FiniteSets, Sequences

CONSTANTS
    Callers,      \* threads that place orders
    Updaters,     \* API requests that change the limit
    Minute,       \* 60 seconds, in ticks of the clock
    Rates,        \* values of max_orders_per_minute
    DefaultRate,
    RiskCases     \* configurations, see RiskCaseType

(* callers: the threads that trade; the bounds: the clock's last tick, orders
   that pass, update requests, crashes. *)
RiskCaseType == [callers : SUBSET Callers, last : Nat, orders : Nat, updates : Nat, crashes : Nat]

ASSUME CallersAssumption == IsFiniteSet(Callers) /\ IsFiniteSet(Updaters)
ASSUME RatesAssumption == /\ Rates \subseteq Nat /\ DefaultRate \in Rates
                          /\ Minute \in Nat \ {0}
ASSUME RiskCasesAssumption == \A k \in RiskCases :
    /\ DOMAIN k = {"callers", "last", "orders", "updates", "crashes"}
    /\ k.callers \subseteq Callers /\ {k.last, k.orders, k.updates, k.crashes} \subseteq Nat

VARIABLES
    limits,    \* the case of this behaviour
    clock,     \* time.time()
    rate,      \* _LIMITS.max_orders_per_minute
    saved,     \* risk_limits.json; Torn while it is being written
    stamps,    \* _orders_this_minute, as the orders that stamped it
    passed,    \* history: every order that passed, with its time and its limit
    check,     \* the check each caller is in
    update,    \* the update each request is in
    tally      \* updates and crashes so far

riskVars == <<limits, clock, rate, saved, stamps, passed, check, update, tally>>
Torn == -1
NoFile == -2

(* The stamps are the orders' numbers in passed: two orders of one instant
   leave two equal stamps. *)
Orders == DOMAIN passed
Within(orders, now) == {i \in orders : now - passed[i].at < Minute}

NoCheck == [pc |-> "idle", now |-> 0, kept |-> {}, limit |-> 0, answer |-> "none"]
NoUpdate == [pc |-> "idle", payload |-> DefaultRate]

RiskInit ==
    /\ limits \in RiskCases
    /\ clock = 0 /\ rate = DefaultRate /\ saved = NoFile
    /\ stamps = {} /\ passed = << >>
    /\ check = [c \in Callers |-> NoCheck]
    /\ update = [u \in Updaters |-> NoUpdate]
    /\ tally = [updates |-> 0, crashes |-> 0]

(* The list comprehension: the stamps of the last minute, read from the list
   the name is bound to. *)
Rebuild(c) ==
    /\ c \in limits.callers /\ check[c].pc = "idle" /\ Len(passed) < limits.orders
    /\ check' = [check EXCEPT ![c] = [NoCheck EXCEPT !.pc = "bind", !.now = clock, !.kept = Within(stamps, clock)]]
    /\ UNCHANGED <<limits, clock, rate, saved, stamps, passed, update, tally>>

(* Mutant of Rebind: the name keeps the old list. *)
RebindKeeps(c) ==
    /\ check[c].pc = "bind"
    /\ check' = [check EXCEPT ![c].pc = "test"]
    /\ UNCHANGED <<limits, clock, rate, saved, stamps, passed, update, tally>>

(* The name is bound to the new list: what another thread appended to the
   old one meanwhile is lost. *)
Rebind(c) ==
    /\ check[c].pc = "bind"
    /\ stamps' = check[c].kept
    /\ check' = [check EXCEPT ![c].pc = "test"]
    /\ UNCHANGED <<limits, clock, rate, saved, passed, update, tally>>

(* Mutant of HasRoom: one order too many. *)
HasRoomAtLimit == Cardinality(stamps) <= rate

HasRoom == Cardinality(stamps) < rate

(* The rate is tested first, for exits too. *)
RateRefuses(c) ==
    /\ check[c].pc = "test" /\ ~HasRoom
    /\ check' = [check EXCEPT ![c] = [@ EXCEPT !.pc = "idle", !.kept = {}, !.limit = rate, !.answer = "rate"]]
    /\ UNCHANGED <<limits, clock, rate, saved, stamps, passed, update, tally>>

OtherwiseRefuses(c) ==
    /\ check[c].pc = "test" /\ HasRoom
    /\ check' = [check EXCEPT ![c] = NoCheck]
    /\ UNCHANGED <<limits, clock, rate, saved, stamps, passed, update, tally>>

Passes(c) ==
    /\ check[c].pc = "test" /\ HasRoom
    /\ check' = [check EXCEPT ![c].pc = "stamp", ![c].limit = rate]
    /\ UNCHANGED <<limits, clock, rate, saved, stamps, passed, update, tally>>

(* Only an order that passed everything leaves a stamp: the time the check
   began. *)
Stamp(c) ==
    /\ check[c].pc = "stamp"
    /\ passed' = Append(passed, [at |-> check[c].now, limit |-> check[c].limit])
    /\ stamps' = stamps \cup {Len(passed) + 1}
    /\ check' = [check EXCEPT ![c] = NoCheck]
    /\ UNCHANGED <<limits, clock, rate, saved, update, tally>>

(* Mutant of Update: the limit only changes in memory. *)
UpdateUnsaved(u, r) ==
    /\ update[u].pc = "idle" /\ tally.updates < limits.updates
    /\ rate' = r
    /\ tally' = [tally EXCEPT !.updates = @ + 1]
    /\ UNCHANGED <<limits, clock, saved, stamps, passed, check, update>>

(* update_limits: memory first, then the values of memory to the file. *)
Update(u, r) ==
    /\ update[u].pc = "idle" /\ tally.updates < limits.updates
    /\ rate' = r
    /\ update' = [update EXCEPT ![u].pc = "payload"]
    /\ tally' = [tally EXCEPT !.updates = @ + 1]
    /\ UNCHANGED <<limits, clock, saved, stamps, passed, check>>

Payload(u) ==
    /\ update[u].pc = "payload"
    /\ update' = [update EXCEPT ![u] = [pc |-> "open", payload |-> rate]]
    /\ UNCHANGED <<limits, clock, rate, saved, stamps, passed, check, tally>>

Open(u) ==
    /\ update[u].pc = "open"
    /\ saved' = Torn
    /\ update' = [update EXCEPT ![u].pc = "write"]
    /\ UNCHANGED <<limits, clock, rate, stamps, passed, check, tally>>

Write(u) ==
    /\ update[u].pc = "write"
    /\ saved' = update[u].payload
    /\ update' = [update EXCEPT ![u].pc = "idle"]
    /\ UNCHANGED <<limits, clock, rate, stamps, passed, check, tally>>

(* load_persisted_limits: a file that is not there or cannot be parsed
   leaves the defaults. *)
Loaded(f) == IF f \in Rates THEN f ELSE DefaultRate

(* A crash forgets the stamps; the limits come back from the file. *)
RiskCrash ==
    /\ tally.crashes < limits.crashes
    /\ tally' = [tally EXCEPT !.crashes = @ + 1]
    /\ rate' = Loaded(saved) /\ stamps' = {}
    /\ check' = [c \in Callers |-> NoCheck] /\ update' = [u \in Updaters |-> NoUpdate]
    /\ UNCHANGED <<limits, clock, saved, passed>>

(* Assumption: a check, which asks nobody anything, sees the clock tick once
   at most. *)
Tick ==
    /\ clock < limits.last /\ \A c \in Callers : check[c].pc = "idle" \/ check[c].now = clock
    /\ clock' = clock + 1
    /\ UNCHANGED <<limits, rate, saved, stamps, passed, check, update, tally>>

RiskNext ==
    \/ \E c \in Callers : Rebuild(c) \/ Rebind(c) \/ RateRefuses(c) \/ OtherwiseRefuses(c) \/ Passes(c) \/ Stamp(c)
    \/ \E u \in Updaters : Payload(u) \/ Open(u) \/ Write(u) \/ \E r \in Rates : Update(u, r)
    \/ RiskCrash \/ Tick

RiskSpec == RiskInit /\ [][RiskNext]_riskVars

-----------------------------------------------------------------------------
RiskTypeOK ==
    /\ limits \in RiskCases /\ clock \in Nat /\ rate \in Rates /\ saved \in Rates \cup {Torn, NoFile}
    /\ passed \in Seq([at : Nat, limit : Rates]) /\ stamps \subseteq Orders
    /\ check \in [Callers -> [pc : {"idle", "bind", "test", "stamp"}, now : Nat, kept : SUBSET Orders,
                              limit : Nat, answer : {"none", "rate"}]]
    /\ update \in [Updaters -> [pc : {"idle", "payload", "open", "write"}, payload : Rates]]
    /\ tally \in [updates : Nat, crashes : Nat]

(* A thread that trades alone never gets more orders past the check within
   any sixty seconds than the limit its last one was tested against, as long
   as the process lives and however its refused orders fall between. *)
RateLimited ==
    Cardinality(limits.callers) = 1 /\ tally.crashes = 0 =>
        \A i \in Orders : Cardinality({j \in 1 .. i : passed[i].at - passed[j].at < Minute}) <= passed[i].limit

(* The rate refuses no order without cause: however many threads lose each
   other's stamps, so many orders did pass within the minute or the tick
   before it. *)
Recent(c) == {i \in Orders : check[c].now - passed[i].at <= Minute}
RefusedForCause == \A c \in Callers : check[c].answer = "rate" => Cardinality(Recent(c)) >= check[c].limit

(* Once no update is under way, the limit in force is the one a restart
   would bring back, also after a crash inside the write of the file. *)
LimitSurvives ==
    Cardinality(Updaters) = 1 /\ (\A u \in Updaters : update[u].pc = "idle") => rate = Loaded(saved)
=============================================================================
