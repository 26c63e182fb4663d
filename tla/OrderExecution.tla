--------------------------- MODULE OrderExecution ---------------------------
(***************************************************************************)
(* execution/order_executor.py over broker/execution_support.py and        *)
(* broker/kite_broker.py: threads of the desk (scheduler ticks, API        *)
(* handlers) place orders under a lock per symbol, reading the net         *)
(* position through a cache that every thread of the process shares.       *)
(*                                                                         *)
(* A call is either "target" (place_leg_to_target: move the signed net     *)
(* position to a goal) or "fixed" (place_leg_order: send a signed          *)
(* quantity).  Readers are the threads that only look at positions (the    *)
(* positions view, the status bundle): they take no symbol lock but fill   *)
(* the same cache.                                                         *)
(***************************************************************************)
EXTENDS Integers, FiniteSets

CONSTANTS
    Threads,    \* threads that place orders
    Readers,    \* threads that only read positions
    Symbols,    \* exchange:tradingsymbol:product keys
    Targets,    \* goals of "target" calls, in lots, signed
    Fixed,      \* quantities of "fixed" calls, in lots, signed
    MaxOpen,    \* risk limit max_open_positions
    MaxQty,     \* risk limit max_qty, in lots
    FillLag,    \* TRUE: an accepted order fills after its reply (Kite)
    Fallback,   \* TRUE: KITE_ORDER_DIRECT_FALLBACK lets a lost order be resent
    ReadsFail,  \* TRUE: broker.positions() may raise
    MaxSends,   \* bound: no call begins after this many accepted orders
    NoThread,   \* the owner of a free lock
    Empty       \* no usable entry in the position cache

Rows == [Symbols -> Int]

ASSUME ThreadsAssumption == Threads \cap Readers = {} /\ NoThread \notin Threads
ASSUME SymbolsAssumption == IsFiniteSet(Symbols) /\ Empty \notin Rows
ASSUME QuantitiesAssumption ==
    /\ Targets \subseteq Int
    /\ Fixed \subseteq Int \ {0}
    /\ MaxOpen \in Nat /\ MaxQty \in Nat /\ MaxSends \in Nat
ASSUME SwitchesAssumption == {FillLag, Fallback, ReadsFail} \subseteq BOOLEAN

VARIABLES
    position,   \* net positions the broker reports
    working,    \* accepted orders that have not filled
    sends,      \* orders the broker has accepted so far
    cache,      \* _position_cache entry of this broker, Empty once expired
    lock,       \* owner of each symbol lock
    stage,         \* where each thread is
    call,       \* arguments of the call a thread is in
    local,      \* what the call has read and been told, see Blank
    view        \* rows a reader has loaded and not yet stored

exchange == <<position, working, sends>>
execVars == <<position, working, sends, cache, lock, stage, call, local, view>>

ReadPoints == {"read", "count", "closing"}
Locked == ReadPoints \cup {"store", "check", "send", "resend", "finish"}

Abs(n) == IF n < 0 THEN -n ELSE n

(* Mutant of Plan: orders the goal instead of the difference to it. *)
PlanIgnoresPosition(from, goal) ==
    [noop     |-> goal = from,
     side     |-> IF goal > from THEN "BUY" ELSE "SELL",
     quantity |-> Abs(goal)]

(* plan_order_to_target: the one order that moves cur to goal. *)
Plan(from, goal) ==
    [noop     |-> goal = from,
     side     |-> IF goal > from THEN "BUY" ELSE "SELL",
     quantity |-> Abs(goal - from)]

FixedPlan(qty) ==
    [noop |-> FALSE, side |-> IF qty > 0 THEN "BUY" ELSE "SELL", quantity |-> Abs(qty)]

(* _is_reducing_toward_target. *)
IsReducing(from, goal) ==
    /\ from # 0
    /\ \/ goal = 0
       \/ from > 0 /\ goal < from
       \/ from < 0 /\ goal > from
       \/ Abs(goal) < Abs(from)

(* _is_closing_leg, on the rows it read. *)
ClosesLeg(rs, s, side) == \/ rs[s] > 0 /\ side = "SELL"
                          \/ rs[s] < 0 /\ side = "BUY"

OpenCount(rs) == Cardinality({s \in Symbols : rs[s] # 0})

PlanOf(t) == IF call[t].kind = "target" THEN Plan(local[t].cur, call[t].goal)
                                        ELSE FixedPlan(call[t].goal)

Signed(plan) == IF plan.side = "BUY" THEN plan.quantity ELSE -plan.quantity

-----------------------------------------------------------------------------
Calls == [kind : {"target"}, sym : Symbols, goal : Targets]
           \cup [kind : {"fixed"}, sym : Symbols, goal : Fixed]

Unasked == [kind |-> "idle"]

(* Local variables of a call: current_qty, the open_positions and is_closing
   arguments of check_order, the rows loader() returned and the read they are
   for, result.ok. *)
Blank == [cur |-> 0, count |-> 0, closing |-> FALSE,
          rows |-> [s \in Symbols |-> 0], at |-> "read", ok |-> FALSE]

ExecInit ==
    /\ position = [s \in Symbols |-> 0]
    /\ working = {}
    /\ sends = 0
    /\ cache = Empty
    /\ lock = [s \in Symbols |-> NoThread]
    /\ stage = [t \in Threads \cup Readers |-> "idle"]
    /\ call = [t \in Threads |-> Unasked]
    /\ local = [t \in Threads |-> Blank]
    /\ view = [r \in Readers |-> [s \in Symbols |-> 0]]

MoveTo(t, label) == stage' = [stage EXCEPT ![t] = label]

(* Leaving the "with lock" block, by a return or by an exception. *)
Release(t) ==
    /\ MoveTo(t, "idle")
    /\ lock' = [lock EXCEPT ![call[t].sym] = NoThread]
    /\ call' = [call EXCEPT ![t] = Unasked]
    /\ local' = [local EXCEPT ![t] = Blank]

Begin(t) ==
    /\ stage[t] = "idle"
    /\ sends < MaxSends
    /\ \E c \in Calls : call' = [call EXCEPT ![t] = c]
    /\ MoveTo(t, "lock")
    /\ UNCHANGED <<exchange, cache, lock, local, view>>

(* Mutant of Acquire: the symbol lock is taken without waiting for it. *)
AcquireNoWait(t) ==
    /\ stage[t] = "lock"
    /\ lock' = [lock EXCEPT ![call[t].sym] = t]
    /\ MoveTo(t, IF call[t].kind = "target" THEN "read" ELSE "count")
    /\ UNCHANGED <<exchange, cache, call, local, view>>

Acquire(t) ==
    /\ stage[t] = "lock"
    /\ lock[call[t].sym] = NoThread
    /\ lock' = [lock EXCEPT ![call[t].sym] = t]
    /\ MoveTo(t, IF call[t].kind = "target" THEN "read" ELSE "count")
    /\ UNCHANGED <<exchange, cache, call, local, view>>

(* The net quantity is read; a position at its goal needs no order. *)
NetQtyRead(t, qty) ==
    \/ /\ Plan(qty, call[t].goal).noop
       /\ Release(t)
    \/ /\ ~Plan(qty, call[t].goal).noop
       /\ local' = [local EXCEPT ![t].cur = qty]
       /\ MoveTo(t, "count")
       /\ UNCHANGED <<lock, call>>

(* The open positions are counted; a "target" call then knows is_closing. *)
OpenCountRead(t, n) ==
    /\ \/ /\ call[t].kind = "target"
          /\ local' = [local EXCEPT ![t].count = n,
                                   ![t].closing = IsReducing(local[t].cur, call[t].goal)]
          /\ MoveTo(t, "check")
       \/ /\ call[t].kind = "fixed"
          /\ local' = [local EXCEPT ![t].count = n]
          /\ MoveTo(t, "closing")
    /\ UNCHANGED <<lock, call>>

ClosingRead(t, answer) ==
    /\ local' = [local EXCEPT ![t].closing = answer]
    /\ MoveTo(t, "check")
    /\ UNCHANGED <<lock, call>>

(* What thread t does with the rows returned by the read at the given point. *)
UseRows(t, at, rows) ==
    \/ at = "read"    /\ NetQtyRead(t, rows[call[t].sym])
    \/ at = "count"   /\ OpenCountRead(t, OpenCount(rows))
    \/ at = "closing" /\ ClosingRead(t, ClosesLeg(rows, call[t].sym, PlanOf(t).side))

(* get_cached_positions: a fresh entry answers at once ... *)
CacheHit(t) ==
    /\ stage[t] \in ReadPoints
    /\ cache # Empty
    /\ UseRows(t, stage[t], cache)
    /\ UNCHANGED <<exchange, cache, view>>

(* ... otherwise loader() runs outside the guard ... *)
LoadRows(t) ==
    /\ stage[t] \in ReadPoints
    /\ cache = Empty
    /\ local' = [local EXCEPT ![t].rows = position, ![t].at = stage[t]]
    /\ MoveTo(t, "store")
    /\ UNCHANGED <<exchange, cache, lock, call, view>>

(* ... and its rows overwrite whatever the cache holds by then. *)
StoreRows(t) ==
    /\ stage[t] = "store"
    /\ cache' = local[t].rows
    /\ UseRows(t, local[t].at, local[t].rows)
    /\ UNCHANGED <<exchange, view>>

(* Mutant of ReadRaises: the exception leaves the "with lock" block without
   releasing it. *)
ReadRaisesHolding(t) ==
    /\ ReadsFail
    /\ cache = Empty
    /\ \/ /\ stage[t] = "read"
          /\ MoveTo(t, "idle")
          /\ call' = [call EXCEPT ![t] = Unasked]
          /\ UNCHANGED <<lock, local>>
       \/ stage[t] = "count" /\ OpenCountRead(t, 0)
       \/ stage[t] = "closing" /\ ClosingRead(t, FALSE)
    /\ UNCHANGED <<exchange, cache, view>>

(* loader() raises: _read_net_qty lets it out, the two risk inputs swallow it. *)
ReadRaises(t) ==
    /\ ReadsFail
    /\ cache = Empty
    /\ \/ stage[t] = "read" /\ Release(t)
       \/ stage[t] = "count" /\ OpenCountRead(t, 0)
       \/ stage[t] = "closing" /\ ClosingRead(t, FALSE)
    /\ UNCHANGED <<exchange, cache, view>>

(* Mutant of CheckPasses: one more open position than the cap. *)
CheckPassesAtCap(t) ==
    /\ stage[t] = "check"
    /\ PlanOf(t).quantity <= MaxQty
    /\ local[t].closing \/ local[t].count <= MaxOpen
    /\ MoveTo(t, "send")
    /\ UNCHANGED <<exchange, cache, lock, call, local, view>>

(* risk.limits.check_order: the open-position cap spares closing orders. *)
CheckPasses(t) ==
    /\ stage[t] = "check"
    /\ PlanOf(t).quantity <= MaxQty
    /\ local[t].closing \/ local[t].count < MaxOpen
    /\ MoveTo(t, "send")
    /\ UNCHANGED <<exchange, cache, lock, call, local, view>>

(* check_order raises (cap, quantity, rate, product, exchange, daily loss),
   or require_armed_for_live does, before anything is sent. *)
Refused(t) ==
    /\ stage[t] \in {"check", "send"}
    /\ Release(t)
    /\ UNCHANGED <<exchange, cache, view>>

(* The broker accepts the order of thread t. *)
Accept(t) ==
    LET s == call[t].sym
        q == Signed(PlanOf(t))
    IN  /\ sends' = sends + 1
        /\ \/ /\ FillLag
              /\ working' = working \cup {[id |-> sends, sym |-> s, qty |-> q]}
              /\ UNCHANGED position
           \/ /\ ~FillLag
              /\ position' = [position EXCEPT ![s] = @ + q]
              /\ UNCHANGED working

(* place_order got its order id. *)
SendAcked(t) ==
    /\ stage[t] \in {"send", "resend"}
    /\ Accept(t)
    /\ local' = [local EXCEPT ![t].ok = TRUE]
    /\ MoveTo(t, "finish")
    /\ UNCHANGED <<cache, lock, call, view>>

(* Mutant of SendRaised: a lost reply is always followed by a resend. *)
SendRaisedRetries(t) ==
    /\ stage[t] \in {"send", "resend"}
    /\ Accept(t) \/ UNCHANGED exchange
    /\ MoveTo(t, IF stage[t] = "send" THEN "resend" ELSE "finish")
    /\ UNCHANGED <<cache, lock, call, local, view>>

(* place_order raised: the broker may or may not have accepted the order.  A
   transport error of the bound client is retried on the direct client. *)
SendRaised(t) ==
    /\ stage[t] \in {"send", "resend"}
    /\ Accept(t) \/ UNCHANGED exchange
    /\ \/ stage[t] = "send" /\ Fallback /\ MoveTo(t, "resend")
       \/ MoveTo(t, "finish")
    /\ UNCHANGED <<cache, lock, call, local, view>>

(* Mutant of Finish: the cached rows survive the order. *)
FinishKeepsCache(t) ==
    /\ stage[t] = "finish"
    /\ Release(t)
    /\ UNCHANGED <<exchange, cache, view>>

(* invalidate_position_cache: by the broker after an acknowledged order, by
   place_leg_to_target after any reply; then the lock is released. *)
Finish(t) ==
    /\ stage[t] = "finish"
    /\ cache' = IF local[t].ok \/ call[t].kind = "target" THEN Empty ELSE cache
    /\ Release(t)
    /\ UNCHANGED <<exchange, view>>

(* positions() of a thread that places no order. *)
ViewLoad(r) ==
    /\ stage[r] = "idle"
    /\ cache = Empty
    /\ view' = [view EXCEPT ![r] = position]
    /\ MoveTo(r, "store")
    /\ UNCHANGED <<exchange, cache, lock, call, local>>

ViewStore(r) ==
    /\ stage[r] = "store"
    /\ cache' = view[r]
    /\ view' = [view EXCEPT ![r] = [s \in Symbols |-> 0]]
    /\ MoveTo(r, "idle")
    /\ UNCHANGED <<exchange, lock, call, local>>

(* _POSITION_CACHE_TTL_SEC elapses. *)
CacheExpires ==
    /\ cache # Empty
    /\ cache' = Empty
    /\ UNCHANGED <<exchange, lock, stage, call, local, view>>

(* The exchange fills, or rejects, an order the broker accepted. *)
Settle(o) ==
    /\ working' = working \ {o}
    /\ \/ position' = [position EXCEPT ![o.sym] = @ + o.qty]
       \/ UNCHANGED position
    /\ UNCHANGED <<sends, cache, lock, stage, call, local, view>>

Step(t) ==
    \/ Acquire(t)
    \/ CacheHit(t) \/ LoadRows(t) \/ StoreRows(t) \/ ReadRaises(t)
    \/ CheckPasses(t) \/ Refused(t)
    \/ SendAcked(t) \/ SendRaised(t) \/ Finish(t)

ExecNext ==
    \/ \E t \in Threads : Begin(t) \/ Step(t)
    \/ \E r \in Readers : ViewLoad(r) \/ ViewStore(r)
    \/ CacheExpires
    \/ \E o \in working : Settle(o)

ExecSpec == ExecInit /\ [][ExecNext]_execVars

(* Threads are scheduled by the OS and every HTTP call has a timeout, so a
   thread inside a call keeps taking steps; nobody has to begin a call. *)
ExecFairSpec == ExecSpec /\ \A t \in Threads : WF_execVars(Step(t))

-----------------------------------------------------------------------------
Locals == [cur : Int, count : Nat, closing : BOOLEAN, rows : Rows,
           at : ReadPoints, ok : BOOLEAN]

ExecTypeOK ==
    /\ position \in Rows
    /\ working \subseteq [id : Nat, sym : Symbols, qty : Int]
    /\ sends \in Nat
    /\ cache \in Rows \cup {Empty}
    /\ lock \in [Symbols -> Threads \cup {NoThread}]
    /\ stage \in [Threads \cup Readers -> {"idle", "lock"} \cup Locked]
    /\ call \in [Threads -> Calls \cup {Unasked}]
    /\ local \in [Threads -> Locals]
    /\ view \in [Readers -> Rows]

(* references/order-path.md:60: the lock is held "across the risk check and
   the broker call - so two runners cannot interleave check risk and place on
   the same symbol": between reading the net quantity and dropping the cached
   rows, a leg belongs to one thread. *)
SymbolMutex ==
    \A t, u \in Threads :
        stage[t] \in Locked /\ stage[u] \in Locked /\ call[t].sym = call[u].sym => t = u

(* The desk never holds a quantity that no "target" call asked for: two calls
   for one leg never add up, whatever is refused, lost or interleaved between
   reading the net quantity and sending the difference.  CallsAreAtomic, below,
   says more. *)
PositionWasRequested == \A s \in Symbols : position[s] \in Targets \cup {0}

(* place_leg_to_target, order_executor.py:181: "move signed net position to
   target_qty using broker truth".  A call that returns ok has moved the
   position to its goal. *)
ReachesTarget ==
    [][\A t \in Threads :
         Finish(t) /\ local[t].ok /\ call[t].kind = "target"
            => position[call[t].sym] = call[t].goal]_execVars

(* references/order-path.md:40, of place_leg_to_target: "It cannot double-fire
   when re-run against a broker already at target." *)
NeverFiresAtTarget ==
    [][\A t \in Threads :
         SendAcked(t) /\ call[t].kind = "target"
            => position[call[t].sym] # call[t].goal]_execVars

(* references/order-path.md:84: "An exit can always be attempted even at the
   position cap".  The cap never holds back an order against the position the
   broker holds. *)
ExitsSkipTheCap ==
    \A t \in Threads :
        stage[t] = "check" /\ ClosesLeg(position, call[t].sym, PlanOf(t).side)
            => local[t].closing \/ local[t].count < MaxOpen

(* The cap of risk.limits.check_order: never more open symbols than
   max_open_positions. *)
OpenPositionsCapped == OpenCount(position) <= MaxOpen

(* Both: an order that opens a position is refused at the cap, counted over
   all symbols, and one that reduces a position never is (order_executor.py:206,
   limits.py:107).  It is for a broker that can be read: a failed read of the
   count is taken for none open (order_executor.py:42). *)
CapIsKept == OpenPositionsCapped /\ ExitsSkipTheCap

(* What a "target" call shows its callers: it is over once it has no call, and
   has had its chance to move the position once the broker was asked. *)
Asked == [t \in Threads |-> IF call[t] = Unasked THEN Unasked
                                              ELSE [sym |-> call[t].sym, goal |-> call[t].goal]]
Done == [t \in Threads |-> stage[t] = "finish"]

Desk == INSTANCE TargetDesk WITH asked <- Asked, done <- Done, NoGoal <- Unasked

(* order_executor.py:181, "move signed net position to target_qty": cache,
   plan, checks, lost replies and other threads together look to the callers
   like one assignment of the goal per call, at most. *)
CallsAreAtomic == Desk!Spec

(* Every path out of the executor - noop, refusal, failed read, lost reply -
   gives the symbol lock back, so a leg can always be exited later. *)
LocksAreReleased == \A s \in Symbols : []<>(lock[s] = NoThread)
=============================================================================
