------------------------ MODULE OrderExecution_proofs ------------------------
(***************************************************************************)
(* Theorems about OrderExecution for every set of threads, readers and     *)
(* symbols: types, the symbol lock, and - on a desk with one leg, fills    *)
(* that precede replies and no transport resend - that a "target" call     *)
(* leaves exactly the position it was asked for.                           *)
(***************************************************************************)
EXTENDS OrderExecution, FiniteSetTheorems, TLAPS

(* A thread between begin and return has a call; inside the "with lock"
   block it owns the lock of its leg. *)
CallInv ==
    \A t \in Threads :
        /\ stage[t] # "idle" => call[t] \in Calls
        /\ stage[t] \in Locked => lock[call[t].sym] = t

Inv == ExecTypeOK /\ CallInv

USE DEF exchange, MoveTo

(* The fields of a call. *)
LEMMA CallFields ==
  ASSUME NEW c \in Calls
  PROVE  c.sym \in Symbols /\ c.goal \in Int /\ c.kind \in {"target", "fixed"}
BY QuantitiesAssumption DEF Calls

(* A returned call has forgotten everything. *)
LEMMA BlankType == Blank \in Locals
BY DEF Blank, Locals, Rows, ReadPoints

(* Counting open positions of a finite desk yields a natural number. *)
LEMMA OpenCountType ==
  ASSUME NEW rs \in Rows
  PROVE  OpenCount(rs) \in Nat
BY SymbolsAssumption, FS_Subset, FS_CardinalityType DEF OpenCount

(* The order planned for a call is a signed integer quantity. *)
LEMMA SignedType ==
  ASSUME ExecTypeOK, NEW t \in Threads, call[t] \in Calls
  PROVE  Signed(PlanOf(t)) \in Int
<1>1. call[t].goal \in Int /\ local[t].cur \in Int
  BY CallFields DEF ExecTypeOK, Locals
<1> QED BY <1>1 DEF Signed, PlanOf, Plan, FixedPlan, Abs

LEMMA InitInv == ExecInit => Inv
BY SymbolsAssumption
   DEF ExecInit, Inv, ExecTypeOK, CallInv, Blank, Locals, Unasked, Rows, ReadPoints, Locked

(* Leaving the critical section keeps the invariant. *)
LEMMA ReleaseInv ==
  ASSUME Inv, NEW t \in Threads, stage[t] \in Locked, Release(t),
         UNCHANGED <<exchange, view>>, cache' \in Rows \cup {Empty}
  PROVE  Inv'
<1>0. call[t].sym \in Symbols
  BY CallFields DEF Inv, CallInv, Locked, ReadPoints
<1>1. lock' \in [Symbols -> Threads \cup {NoThread}]
  BY DEF Inv, ExecTypeOK, Release
<1>2. /\ stage' \in [Threads \cup Readers -> {"idle", "lock"} \cup Locked]
      /\ call' \in [Threads -> Calls \cup {Unasked}]
      /\ local' \in [Threads -> Locals]
  BY BlankType DEF Inv, ExecTypeOK, Release
<1>3. ExecTypeOK'
  BY <1>1, <1>2 DEF Inv, ExecTypeOK
<1>4. ASSUME NEW u \in Threads
      PROVE  /\ stage'[u] # "idle" => call'[u] \in Calls
             /\ stage'[u] \in Locked => lock'[call'[u].sym] = u
  <2>1. CASE u = t
    BY <2>1 DEF Inv, ExecTypeOK, Release, Locked, ReadPoints
  <2>2. CASE u # t
    <3>1. stage'[u] = stage[u] /\ call'[u] = call[u]
      BY <2>2 DEF Inv, ExecTypeOK, Release
    <3>2. stage[u] \in Locked => call[u].sym # call[t].sym /\ call[u].sym \in Symbols
      BY <2>2, CallFields DEF Inv, CallInv, Locked, ReadPoints
    <3>3. stage[u] \in Locked => lock'[call[u].sym] = lock[call[u].sym]
      BY <1>0, <3>2 DEF Inv, ExecTypeOK, Release
    <3> QED BY <3>1, <3>3 DEF Inv, CallInv
  <2> QED BY <2>1, <2>2
<1>5. CallInv'
  BY <1>4 DEF CallInv
<1> QED BY <1>3, <1>5 DEF Inv

(* A step that keeps thread t inside its call and its critical section, or
   moves it there, and touches no lock keeps the invariant. *)
LEMMA StayInv ==
  ASSUME Inv, NEW t \in Threads, stage[t] \in Locked, NEW label \in Locked,
         MoveTo(t, label), UNCHANGED <<lock, call, view>>,
         local' \in [Threads -> Locals],
         position' \in Rows, sends' \in Nat, cache' \in Rows \cup {Empty},
         working' \subseteq [id : Nat, sym : Symbols, qty : Int]
  PROVE  Inv'
<1>1. ExecTypeOK'
  BY DEF Inv, ExecTypeOK
<1>2. CallInv'
  BY DEF Inv, ExecTypeOK, CallInv, Locked, ReadPoints
<1> QED BY <1>1, <1>2 DEF Inv

(* So does each of the three uses a call makes of the rows it reads. *)
LEMMA NetQtyReadInv ==
  ASSUME Inv, NEW t \in Threads, stage[t] \in Locked, NEW qty \in Int, NetQtyRead(t, qty),
         UNCHANGED <<exchange, view>>, cache' \in Rows \cup {Empty}
  PROVE  Inv'
<1>1. CASE Release(t)
  BY <1>1, ReleaseInv
<1>2. CASE /\ local' = [local EXCEPT ![t].cur = qty]
           /\ MoveTo(t, "count")
           /\ UNCHANGED <<lock, call>>
  <2>1. local' \in [Threads -> Locals]
    BY <1>2 DEF Inv, ExecTypeOK, Locals
  <2>2. "count" \in Locked
    BY DEF Locked, ReadPoints
  <2> QED BY <1>2, <2>1, <2>2, StayInv DEF Inv, ExecTypeOK
<1> QED BY <1>1, <1>2 DEF NetQtyRead

LEMMA OpenCountReadInv ==
  ASSUME Inv, NEW t \in Threads, stage[t] \in Locked, NEW n \in Nat, OpenCountRead(t, n),
         UNCHANGED <<exchange, view>>, cache' \in Rows \cup {Empty}
  PROVE  Inv'
<1>1. local' \in [Threads -> Locals]
  BY DEF Inv, ExecTypeOK, Locals, OpenCountRead, IsReducing
<1>2. \E label \in Locked : MoveTo(t, label)
  BY DEF OpenCountRead, Locked, ReadPoints
<1> QED BY <1>1, <1>2, StayInv DEF Inv, ExecTypeOK, OpenCountRead

LEMMA ClosingReadInv ==
  ASSUME Inv, NEW t \in Threads, stage[t] \in Locked, NEW answer \in BOOLEAN,
         ClosingRead(t, answer),
         UNCHANGED <<exchange, view>>, cache' \in Rows \cup {Empty}
  PROVE  Inv'
<1>1. local' \in [Threads -> Locals]
  BY DEF Inv, ExecTypeOK, Locals, ClosingRead
<1>2. "check" \in Locked
  BY DEF Locked
<1> QED BY <1>1, <1>2, StayInv DEF Inv, ExecTypeOK, ClosingRead

LEMMA UseRowsInv ==
  ASSUME Inv, NEW t \in Threads, stage[t] \in Locked, NEW at, NEW rs \in Rows,
         UseRows(t, at, rs), UNCHANGED <<exchange, view>>, cache' \in Rows \cup {Empty}
  PROVE  Inv'
<1>1. call[t].sym \in Symbols
  BY CallFields DEF Inv, CallInv, Locked, ReadPoints
<1>2. CASE NetQtyRead(t, rs[call[t].sym])
  BY <1>1, <1>2, NetQtyReadInv DEF Rows
<1>3. CASE OpenCountRead(t, OpenCount(rs))
  BY <1>3, OpenCountType, OpenCountReadInv
<1>4. CASE ClosingRead(t, ClosesLeg(rs, call[t].sym, PlanOf(t).side))
  BY <1>4, ClosingReadInv DEF ClosesLeg
<1> QED BY <1>2, <1>3, <1>4 DEF UseRows

(* Sending an order, accepted or not, keeps the types of the exchange. *)
LEMMA AcceptType ==
  ASSUME Inv, NEW t \in Threads, stage[t] \in Locked,
         Accept(t) \/ UNCHANGED exchange
  PROVE  /\ position' \in Rows /\ sends' \in Nat
         /\ working' \subseteq [id : Nat, sym : Symbols, qty : Int]
<1>1. CASE Accept(t)
  <2>1. call[t] \in Calls /\ call[t].sym \in Symbols
    BY CallFields DEF Inv, CallInv, Locked, ReadPoints
  <2>2. Signed(PlanOf(t)) \in Int
    BY <2>1, SignedType DEF Inv
  <2> DEFINE q == Signed(PlanOf(t))
  <2> HIDE DEF q
  <2>3. position' \in Rows
    <3>1. CASE UNCHANGED position
      BY <3>1 DEF Inv, ExecTypeOK
    <3>2. CASE position' = [position EXCEPT ![call[t].sym] = @ + q]
      BY <2>1, <2>2, <3>2 DEF Inv, ExecTypeOK, Rows, q
    <3> QED BY <1>1, <3>1, <3>2 DEF Accept, q
  <2>4. [id |-> sends, sym |-> call[t].sym, qty |-> q] \in [id : Nat, sym : Symbols, qty : Int]
    BY <2>1, <2>2 DEF Inv, ExecTypeOK, q
  <2>5. working' \subseteq working \cup {[id |-> sends, sym |-> call[t].sym, qty |-> q]}
    BY <1>1 DEF Accept, q
  <2> QED BY <1>1, <2>3, <2>4, <2>5 DEF Accept, Inv, ExecTypeOK
<1>2. CASE UNCHANGED exchange
  BY <1>2 DEF Inv, ExecTypeOK
<1> QED BY <1>1, <1>2

(* Every step of the desk keeps the invariant. *)
LEMMA NextInv == Inv /\ [ExecNext]_execVars => Inv'
<1> SUFFICES ASSUME Inv, [ExecNext]_execVars PROVE Inv'
  OBVIOUS
<1>1. ASSUME NEW t \in Threads, Begin(t) PROVE Inv'
  <2>1. ExecTypeOK'
    BY <1>1 DEF Begin, Inv, ExecTypeOK
  <2>2. CallInv'
    BY <1>1, ThreadsAssumption DEF Begin, Inv, ExecTypeOK, CallInv, Locked, ReadPoints
  <2> QED BY <2>1, <2>2 DEF Inv
<1>2. ASSUME NEW t \in Threads, Acquire(t) PROVE Inv'
  <2>1. call[t].sym \in Symbols
    BY <1>2, CallFields DEF Acquire, Inv, CallInv
  <2>2. \E label \in Locked : MoveTo(t, label)
    BY <1>2 DEF Acquire, Locked, ReadPoints
  <2>3. ExecTypeOK'
    BY <1>2, <2>1, <2>2 DEF Acquire, Inv, ExecTypeOK
  <2>4. ASSUME NEW u \in Threads
        PROVE  /\ stage'[u] # "idle" => call'[u] \in Calls
               /\ stage'[u] \in Locked => lock'[call'[u].sym] = u
    <3>1. CASE u = t
      BY <1>2, <2>1, <2>2, <3>1 DEF Acquire, Inv, ExecTypeOK, CallInv
    <3>2. CASE u # t
      <4>1. stage'[u] = stage[u] /\ call'[u] = call[u]
        BY <1>2, <3>2 DEF Acquire, Inv, ExecTypeOK
      <4>2. stage[u] \in Locked => call[u].sym # call[t].sym
        BY <1>2, ThreadsAssumption DEF Acquire, Inv, CallInv
      <4>3. stage[u] \in Locked => lock'[call[u].sym] = lock[call[u].sym]
        <5>1. stage[u] \in Locked => call[u].sym \in Symbols
          BY CallFields DEF Inv, CallInv, Locked, ReadPoints
        <5> QED BY <1>2, <2>1, <4>2, <5>1 DEF Acquire, Inv, ExecTypeOK
      <4> QED BY <4>1, <4>3 DEF Inv, CallInv
    <3> QED BY <3>1, <3>2
  <2> QED BY <2>3, <2>4 DEF Inv, CallInv
<1>3. ASSUME NEW t \in Threads, CacheHit(t) PROVE Inv'
  <2>1. stage[t] \in Locked /\ cache \in Rows
    BY <1>3 DEF CacheHit, Locked, Inv, ExecTypeOK
  <2> QED BY <1>3, <2>1, UseRowsInv DEF CacheHit, Inv, ExecTypeOK
<1>4. ASSUME NEW t \in Threads, LoadRows(t) PROVE Inv'
  <2>1. local' \in [Threads -> Locals]
    BY <1>4 DEF LoadRows, Inv, ExecTypeOK, Locals
  <2>2. stage[t] \in Locked /\ "store" \in Locked
    BY <1>4 DEF LoadRows, Locked
  <2> QED BY <1>4, <2>1, <2>2, StayInv DEF LoadRows, Inv, ExecTypeOK
<1>5. ASSUME NEW t \in Threads, StoreRows(t) PROVE Inv'
  <2>1. stage[t] \in Locked /\ local[t].rows \in Rows
    BY <1>5 DEF StoreRows, Locked, Inv, ExecTypeOK, Locals
  <2> QED BY <1>5, <2>1, UseRowsInv DEF StoreRows
<1>6. ASSUME NEW t \in Threads, ReadRaises(t) PROVE Inv'
  <2>1. cache' \in Rows \cup {Empty} /\ UNCHANGED <<exchange, view>>
    BY <1>6 DEF ReadRaises, Inv, ExecTypeOK
  <2>2. CASE stage[t] = "read" /\ Release(t)
    BY <2>1, <2>2, ReleaseInv DEF Locked, ReadPoints
  <2>3. CASE stage[t] = "count" /\ OpenCountRead(t, 0)
    BY <2>1, <2>3, OpenCountReadInv DEF Locked, ReadPoints
  <2>4. CASE stage[t] = "closing" /\ ClosingRead(t, FALSE)
    BY <2>1, <2>4, ClosingReadInv DEF Locked, ReadPoints
  <2> QED BY <1>6, <2>2, <2>3, <2>4 DEF ReadRaises
<1>7. ASSUME NEW t \in Threads, CheckPasses(t) PROVE Inv'
  BY <1>7, StayInv DEF CheckPasses, Inv, ExecTypeOK, Locked
<1>8. ASSUME NEW t \in Threads, Refused(t) PROVE Inv'
  BY <1>8, ReleaseInv DEF Refused, Inv, ExecTypeOK, Locked
<1>9. ASSUME NEW t \in Threads, SendAcked(t) PROVE Inv'
  <2>1. local' \in [Threads -> Locals]
    BY <1>9 DEF SendAcked, Inv, ExecTypeOK, Locals
  <2>2. stage[t] \in Locked /\ "finish" \in Locked
    BY <1>9 DEF SendAcked, Locked
  <2> QED BY <1>9, <2>1, <2>2, AcceptType, StayInv DEF SendAcked, Inv, ExecTypeOK
<1>10. ASSUME NEW t \in Threads, SendRaised(t) PROVE Inv'
  <2>1. stage[t] \in Locked /\ \E label \in Locked : MoveTo(t, label)
    BY <1>10 DEF SendRaised, Locked
  <2>2. Accept(t) \/ UNCHANGED exchange
    BY <1>10 DEF SendRaised
  <2> QED BY <1>10, <2>1, <2>2, AcceptType, StayInv DEF SendRaised, Inv, ExecTypeOK
<1>11. ASSUME NEW t \in Threads, Finish(t) PROVE Inv'
  BY <1>11, ReleaseInv DEF Finish, Inv, ExecTypeOK, Locked
<1>12. ASSUME NEW r \in Readers, ViewLoad(r) PROVE Inv'
  <2>1. ExecTypeOK'
    BY <1>12 DEF ViewLoad, Inv, ExecTypeOK, Locked
  <2> QED BY <1>12, <2>1, ThreadsAssumption DEF ViewLoad, Inv, ExecTypeOK, CallInv
<1>13. ASSUME NEW r \in Readers, ViewStore(r) PROVE Inv'
  <2>1. ExecTypeOK'
    BY <1>13 DEF ViewStore, Inv, ExecTypeOK, Rows
  <2> QED BY <1>13, <2>1, ThreadsAssumption DEF ViewStore, Inv, ExecTypeOK, CallInv
<1>14. CASE CacheExpires
  BY <1>14 DEF CacheExpires, Inv, ExecTypeOK, CallInv
<1>15. ASSUME NEW o \in working, Settle(o) PROVE Inv'
  <2>1. o.sym \in Symbols /\ o.qty \in Int
    BY DEF Inv, ExecTypeOK
  <2>2. ExecTypeOK'
    BY <1>15, <2>1 DEF Settle, Inv, ExecTypeOK, Rows
  <2> QED BY <1>15, <2>2 DEF Settle, Inv, CallInv
<1>16. CASE UNCHANGED execVars
  BY <1>16 DEF execVars, Inv, ExecTypeOK, CallInv
<1> QED BY <1>1, <1>2, <1>3, <1>4, <1>5, <1>6, <1>7, <1>8, <1>9, <1>10, <1>11,
           <1>12, <1>13, <1>14, <1>15, <1>16 DEF ExecNext, Step

LEMMA InvHolds == ExecSpec => []Inv
BY InitInv, NextInv, PTL DEF ExecSpec

(* Types of the executor's state, for every desk. *)
THEOREM TypeCorrect == ExecSpec => []ExecTypeOK
<1>1. Inv => ExecTypeOK
  BY DEF Inv
<1> QED BY <1>1, InvHolds, PTL

(* The critical section of a leg - net quantity read, risk check, broker call,
   invalidation - belongs to one thread at a time, for every desk. *)
THEOREM LegMutex == ExecSpec => []SymbolMutex
<1>1. Inv => SymbolMutex
  BY DEF Inv, CallInv, SymbolMutex
<1> QED BY <1>1, InvHolds, PTL

-----------------------------------------------------------------------------
(* One leg, no thread that only reads, replies that come after the fill and no
   resend of an order whose reply was lost: a desk that trades one leg and whose
   marketable orders fill before Kite answers. *)
Quiet ==
    /\ Readers = {} /\ Fixed = {} /\ ~FillLag /\ ~Fallback
    /\ \A s, u \in Symbols : s = u

Planned(t) == \/ stage[t] \in {"count", "closing", "check", "send"}
              \/ stage[t] = "store" /\ local[t].at # "read"

(* Rows in the cache or in flight show the real position, except between the
   broker accepting an order and the invalidation that follows; a planned
   order starts from the real position and has somewhere to go. *)
CacheTrue == cache # Empty => cache = position \/ \E t \in Threads : stage[t] = "finish"

ThreadTrue(t) ==
    /\ stage[t] = "idle" => call[t] = Unasked
    /\ stage[t] # "resend"
    /\ stage[t] = "store" => local[t].rows = position
    /\ Planned(t) => /\ local[t].cur = position[call[t].sym]
                     /\ local[t].cur # call[t].goal
    /\ local[t].ok => stage[t] = "finish" /\ position[call[t].sym] = call[t].goal

LegInv == CacheTrue /\ (\A t \in Threads : ThreadTrue(t)) /\ PositionWasRequested

(* The planned order moves the position to the goal, exactly. *)
LEMMA PlanReachesGoal ==
  ASSUME NEW from \in Int, NEW goal \in Int
  PROVE  /\ from + Signed(Plan(from, goal)) = goal
         /\ Plan(from, goal).noop = (goal = from)
<1>1. CASE goal > from
  BY <1>1 DEF Signed, Plan, Abs
<1>2. CASE ~(goal > from)
  BY <1>2 DEF Signed, Plan, Abs
<1> QED BY <1>1, <1>2

(* On a quiet desk at most one thread is in a critical section. *)
LEMMA Alone ==
  ASSUME Inv, Quiet, NEW t \in Threads, NEW u \in Threads,
         stage[t] \in Locked, stage[u] \in Locked
  PROVE  t = u
<1>1. call[t].sym \in Symbols /\ call[u].sym \in Symbols
  BY CallFields DEF Inv, CallInv, Locked, ReadPoints
<1> QED BY <1>1 DEF Inv, CallInv, Quiet

(* Its calls are all "target" calls, with goals among Targets. *)
LEMMA QuietCalls ==
  ASSUME Inv, Quiet, NEW t \in Threads, stage[t] # "idle"
  PROVE  /\ call[t].kind = "target" /\ call[t].goal \in Targets
         /\ call[t].sym \in Symbols /\ call[t].goal \in Int
<1>1. call[t] \in Calls
  BY DEF Inv, CallInv
<1> QED BY <1>1, QuantitiesAssumption DEF Calls, Quiet

(* The threads outside the critical section have nothing to keep true. *)
LEMMA OthersTrue ==
  ASSUME Inv, Quiet, LegInv, NEW t \in Threads, stage[t] \in Locked,
         NEW u \in Threads, u # t,
         stage'[u] = stage[u], local'[u] = local[u], call'[u] = call[u]
  PROVE  ThreadTrue(u)'
<1>1. stage[u] \notin Locked
  BY Alone
<1> QED BY <1>1 DEF LegInv, ThreadTrue, Planned, Locked, ReadPoints

(* While t is in the critical section and no order is out, the cache is true. *)
LEMMA CacheIsPosition ==
  ASSUME Inv, Quiet, LegInv, NEW t \in Threads, stage[t] \in Locked, stage[t] # "finish",
         cache # Empty
  PROVE  cache = position
BY Alone DEF LegInv, CacheTrue, Locked

LEMMA ReleaseLeg ==
  ASSUME Inv, Quiet, LegInv, NEW t \in Threads, stage[t] \in Locked, Release(t),
         position' = position, cache' # Empty => cache' = position
  PROVE  LegInv'
<1>1. ThreadTrue(t)'
  BY DEF Inv, ExecTypeOK, Release, ThreadTrue, Planned, Blank
<1>2. ASSUME NEW u \in Threads, u # t PROVE ThreadTrue(u)'
  <2>1. stage'[u] = stage[u] /\ local'[u] = local[u] /\ call'[u] = call[u]
    BY <1>2 DEF Inv, ExecTypeOK, Release
  <2> QED BY <1>2, <2>1, OthersTrue
<1> QED BY <1>1, <1>2 DEF LegInv, CacheTrue, PositionWasRequested

LEMMA StayLeg ==
  ASSUME Inv, Quiet, LegInv, NEW t \in Threads, stage[t] \in Locked, NEW label,
         MoveTo(t, label), UNCHANGED call, NEW l, local' = [local EXCEPT ![t] = l],
         ThreadTrue(t)', CacheTrue', PositionWasRequested'
  PROVE  LegInv'
<1>1. ASSUME NEW u \in Threads, u # t PROVE ThreadTrue(u)'
  <2>1. stage'[u] = stage[u] /\ local'[u] = local[u] /\ call'[u] = call[u]
    BY <1>1 DEF Inv, ExecTypeOK
  <2> QED BY <1>1, <2>1, OthersTrue
<1> QED BY <1>1 DEF LegInv

(* Reading the real position: the three uses of the rows. *)
LEMMA UseRowsLeg ==
  ASSUME Inv, Quiet, LegInv, NEW t \in Threads, NEW at \in ReadPoints,
         \/ stage[t] = at
         \/ stage[t] = "store" /\ at = local[t].at,
         UseRows(t, at, position), position' = position,
         cache' # Empty => cache' = position
  PROVE  LegInv'
<1>1. stage[t] \in Locked /\ stage[t] # "finish" /\ stage[t] # "idle" /\ stage[t] \in ReadPoints \cup {"store"}
  BY DEF Locked, ReadPoints
<1>2. CacheTrue' /\ PositionWasRequested'
  BY DEF CacheTrue, LegInv, PositionWasRequested
<1>3. position[call[t].sym] \in Int /\ call[t].kind = "target" /\ call[t].goal \in Int
  BY <1>1, QuietCalls DEF Inv, ExecTypeOK, Rows
<1>4. local[t] \in Locals /\ local[t].ok = FALSE
  BY <1>1 DEF Inv, ExecTypeOK, LegInv, ThreadTrue, Locals
<1>5. CASE at = "read" /\ Release(t)
  BY <1>1, <1>5, ReleaseLeg
<1>6. CASE at = "read" /\ ~Release(t)
  <2> DEFINE l == [local[t] EXCEPT !.cur = position[call[t].sym]]
  <2>1. /\ position[call[t].sym] # call[t].goal
        /\ local' = [local EXCEPT ![t] = l] /\ MoveTo(t, "count") /\ UNCHANGED call
    BY <1>3, <1>6, PlanReachesGoal DEF UseRows, NetQtyRead
  <2>2. ThreadTrue(t)'
    BY <1>3, <1>4, <2>1 DEF ThreadTrue, Planned, Inv, ExecTypeOK, Locals
  <2> QED BY <1>1, <1>2, <2>1, <2>2, StayLeg
<1>7. CASE at = "count"
  <2> DEFINE l == [local[t] EXCEPT !.count = OpenCount(position),
                                   !.closing = IsReducing(local[t].cur, call[t].goal)]
  <2>1. local' = [local EXCEPT ![t] = l] /\ MoveTo(t, "check") /\ UNCHANGED call
    BY <1>3, <1>7 DEF UseRows, OpenCountRead
  <2>2. local[t].cur = position[call[t].sym] /\ local[t].cur # call[t].goal
    BY <1>7 DEF LegInv, ThreadTrue, Planned
  <2>3. ThreadTrue(t)'
    BY <1>3, <1>4, <2>1, <2>2 DEF ThreadTrue, Planned, Inv, ExecTypeOK, Locals
  <2> QED BY <1>1, <1>2, <2>1, <2>3, StayLeg
<1>8. CASE at = "closing"
  <2> DEFINE l == [local[t] EXCEPT !.closing =
                     ClosesLeg(position, call[t].sym, PlanOf(t).side)]
  <2>1. local' = [local EXCEPT ![t] = l] /\ MoveTo(t, "check") /\ UNCHANGED call
    BY <1>8 DEF UseRows, ClosingRead
  <2>2. local[t].cur = position[call[t].sym] /\ local[t].cur # call[t].goal
    BY <1>8 DEF LegInv, ThreadTrue, Planned
  <2>3. ThreadTrue(t)'
    BY <1>3, <1>4, <2>1, <2>2 DEF ThreadTrue, Planned, Inv, ExecTypeOK, Locals
  <2> QED BY <1>1, <1>2, <2>1, <2>3, StayLeg
<1> QED BY <1>5, <1>6, <1>7, <1>8 DEF ReadPoints

(* The broker accepts the order of t: the position becomes the goal. *)
LEMMA AcceptLeg ==
  ASSUME Inv, Quiet, LegInv, NEW t \in Threads, stage[t] = "send", Accept(t)
  PROVE  position'[call[t].sym] = call[t].goal /\ PositionWasRequested'
<1>1. /\ call[t].kind = "target" /\ call[t].goal \in Targets /\ call[t].goal \in Int
      /\ call[t].sym \in Symbols
  BY QuietCalls
<1>2. local[t].cur = position[call[t].sym] /\ local[t].cur \in Int
  BY DEF LegInv, ThreadTrue, Planned, Inv, ExecTypeOK, Locals
<1>3. PlanOf(t) = Plan(local[t].cur, call[t].goal)
  BY <1>1 DEF PlanOf
<1>4. position' = [position EXCEPT ![call[t].sym] = @ + Signed(PlanOf(t))]
  BY DEF Accept, Quiet
<1>5. position'[call[t].sym] = call[t].goal
  BY <1>1, <1>2, <1>3, <1>4, PlanReachesGoal DEF Inv, ExecTypeOK, Rows
<1>6. \A s \in Symbols : s = call[t].sym
  BY <1>1 DEF Quiet
<1> QED BY <1>1, <1>5, <1>6 DEF PositionWasRequested

(* Without fill lag no order is ever left working. *)
LEMMA NothingWorks == Quiet /\ working = {} /\ [ExecNext]_execVars => working' = {}
<1> SUFFICES ASSUME Quiet, working = {}, [ExecNext]_execVars PROVE working' = {}
  OBVIOUS
<1>1. ASSUME NEW t \in Threads, Begin(t) \/ Step(t) PROVE working' = {}
  BY <1>1 DEF Quiet, Begin, Step, Acquire, CacheHit, LoadRows, StoreRows, ReadRaises,
              CheckPasses, Refused, SendAcked, SendRaised, Accept, Finish
<1>2. ASSUME NEW r \in Readers, ViewLoad(r) \/ ViewStore(r) PROVE working' = {}
  BY <1>2 DEF Quiet
<1> QED BY <1>1, <1>2 DEF ExecNext, CacheExpires, execVars

(* Every step of a quiet desk keeps the leg invariant; a send, whatever its
   outcome, leads to "finish". *)
LEMMA NextLeg == Inv /\ Quiet /\ working = {} /\ LegInv /\ [ExecNext]_execVars => LegInv'
<1> SUFFICES ASSUME Inv, Quiet, working = {}, LegInv, [ExecNext]_execVars PROVE LegInv'
  OBVIOUS
<1>1. ASSUME NEW t \in Threads, Begin(t) PROVE LegInv'
  BY <1>1 DEF Begin, Inv, ExecTypeOK, LegInv, CacheTrue, ThreadTrue, Planned, PositionWasRequested
<1>2. ASSUME NEW t \in Threads, Acquire(t) PROVE LegInv'
  <2>1. call[t].kind = "target"
    BY <1>2, QuietCalls DEF Acquire
  <2> QED BY <1>2, <2>1 DEF Acquire, Inv, ExecTypeOK, LegInv, CacheTrue, ThreadTrue, Planned,
                            PositionWasRequested
<1>3. ASSUME NEW t \in Threads, CacheHit(t) PROVE LegInv'
  <2>1. cache = position
    BY <1>3, CacheIsPosition DEF CacheHit, Locked, ReadPoints
  <2> QED BY <1>3, <2>1, UseRowsLeg DEF CacheHit
<1>4. ASSUME NEW t \in Threads, LoadRows(t) PROVE LegInv'
  <2> DEFINE l == [local[t] EXCEPT !.rows = position, !.at = stage[t]]
  <2>1. local' = [local EXCEPT ![t] = l] /\ stage[t] \in Locked
    BY <1>4 DEF LoadRows, Locked
  <2>2. ThreadTrue(t)'
    BY <1>4 DEF LoadRows, ThreadTrue, Planned, LegInv, Inv, ExecTypeOK, Locals, ReadPoints
  <2>3. CacheTrue' /\ PositionWasRequested'
    BY <1>4 DEF LoadRows, CacheTrue, PositionWasRequested, LegInv
  <2> QED BY <1>4, <2>1, <2>2, <2>3, StayLeg DEF LoadRows
<1>5. ASSUME NEW t \in Threads, StoreRows(t) PROVE LegInv'
  <2>1. local[t].rows = position /\ local[t].at \in ReadPoints
    BY <1>5 DEF StoreRows, LegInv, ThreadTrue, Inv, ExecTypeOK, Locals
  <2> QED BY <1>5, <2>1, UseRowsLeg DEF StoreRows
<1>6. ASSUME NEW t \in Threads, ReadRaises(t) PROVE LegInv'
  <2>0. cache' = Empty /\ position' = position /\ stage[t] \in Locked /\ stage[t] # "idle"
    BY <1>6 DEF ReadRaises, Locked, ReadPoints
  <2>1. CASE stage[t] = "read" /\ Release(t)
    BY <2>0, <2>1, ReleaseLeg
  <2>2. CacheTrue' /\ PositionWasRequested'
    BY <2>0 DEF CacheTrue, PositionWasRequested, LegInv
  <2>3. CASE stage[t] = "count" /\ OpenCountRead(t, 0)
    <3> DEFINE l == [local[t] EXCEPT !.count = 0,
                                     !.closing = IsReducing(local[t].cur, call[t].goal)]
    <3>1. local' = [local EXCEPT ![t] = l] /\ MoveTo(t, "check") /\ UNCHANGED call
      BY <2>0, <2>3, QuietCalls DEF OpenCountRead
    <3>2. ThreadTrue(t)'
      BY <2>0, <2>3, <3>1 DEF ThreadTrue, Planned, LegInv, Inv, ExecTypeOK, Locals
    <3> QED BY <2>0, <2>2, <3>1, <3>2, StayLeg
  <2>4. CASE stage[t] = "closing" /\ ClosingRead(t, FALSE)
    <3> DEFINE l == [local[t] EXCEPT !.closing = FALSE]
    <3>1. local' = [local EXCEPT ![t] = l] /\ MoveTo(t, "check") /\ UNCHANGED call
      BY <2>4 DEF ClosingRead
    <3>2. ThreadTrue(t)'
      BY <2>0, <2>4, <3>1 DEF ThreadTrue, Planned, LegInv, Inv, ExecTypeOK, Locals
    <3> QED BY <2>0, <2>2, <3>1, <3>2, StayLeg
  <2> QED BY <1>6, <2>1, <2>3, <2>4 DEF ReadRaises
<1>7. ASSUME NEW t \in Threads, CheckPasses(t) PROVE LegInv'
  BY <1>7 DEF CheckPasses, Inv, ExecTypeOK, LegInv, CacheTrue, ThreadTrue, Planned,
              PositionWasRequested
<1>8. ASSUME NEW t \in Threads, Refused(t) PROVE LegInv'
  <2>1. stage[t] \in Locked /\ (cache # Empty => cache = position)
    BY <1>8, CacheIsPosition DEF Refused, Locked
  <2> QED BY <1>8, <2>1, ReleaseLeg DEF Refused
<1>9. ASSUME NEW t \in Threads, SendAcked(t) PROVE LegInv'
  <2> DEFINE l == [local[t] EXCEPT !.ok = TRUE]
  <2>1. stage[t] = "send" /\ stage[t] \in Locked
    BY <1>9 DEF SendAcked, LegInv, ThreadTrue, Locked
  <2>2. position'[call[t].sym] = call[t].goal /\ PositionWasRequested'
    BY <1>9, <2>1, AcceptLeg DEF SendAcked
  <2>3. stage'[t] = "finish" /\ local' = [local EXCEPT ![t] = l]
    BY <1>9 DEF SendAcked, Inv, ExecTypeOK
  <2>4. ThreadTrue(t)' /\ CacheTrue'
    BY <1>9, <2>2, <2>3 DEF SendAcked, ThreadTrue, CacheTrue, Planned
  <2> QED BY <1>9, <2>1, <2>2, <2>3, <2>4, StayLeg DEF SendAcked
<1>10. ASSUME NEW t \in Threads, SendRaised(t) PROVE LegInv'
  <2>1. stage[t] = "send" /\ stage[t] \in Locked
    BY <1>10 DEF SendRaised, LegInv, ThreadTrue, Locked
  <2>2. PositionWasRequested'
    BY <1>10, <2>1, AcceptLeg DEF SendRaised, PositionWasRequested, LegInv
  <2>3. stage'[t] = "finish" /\ MoveTo(t, "finish") /\ local' = [local EXCEPT ![t] = local[t]]
    BY <1>10 DEF SendRaised, Inv, ExecTypeOK, Quiet
  <2>4. local[t].ok = FALSE
    BY <2>1 DEF Inv, ExecTypeOK, Locals, LegInv, ThreadTrue
  <2>5. ThreadTrue(t)' /\ CacheTrue'
    BY <1>10, <2>3, <2>4 DEF SendRaised, ThreadTrue, CacheTrue, Planned
  <2> QED BY <1>10, <2>1, <2>2, <2>3, <2>5, StayLeg DEF SendRaised
<1>11. ASSUME NEW t \in Threads, Finish(t) PROVE LegInv'
  <2>1. stage[t] \in Locked /\ cache' = Empty
    BY <1>11, QuietCalls DEF Finish, Locked
  <2> QED BY <1>11, <2>1, ReleaseLeg DEF Finish
<1>12. ASSUME NEW r \in Readers, ViewLoad(r) \/ ViewStore(r) PROVE LegInv'
  BY <1>12 DEF Quiet
<1>13. CASE CacheExpires
  BY <1>13 DEF CacheExpires, LegInv, CacheTrue, ThreadTrue, Planned, PositionWasRequested
<1>14. ASSUME NEW o \in working, Settle(o) PROVE LegInv'
  BY <1>14
<1>15. CASE UNCHANGED execVars
  BY <1>15 DEF execVars, LegInv, CacheTrue, ThreadTrue, Planned, PositionWasRequested
<1> QED BY <1>1, <1>2, <1>3, <1>4, <1>5, <1>6, <1>7, <1>8, <1>9, <1>10, <1>11,
           <1>12, <1>13, <1>14, <1>15 DEF ExecNext, Step

LEMMA InitLeg == ExecInit => working = {} /\ LegInv
BY DEF ExecInit, LegInv, CacheTrue, ThreadTrue, Planned, PositionWasRequested, Blank

LEMMA LegInvHolds ==
  ASSUME Quiet
  PROVE  ExecSpec => [](Inv /\ working = {} /\ LegInv)
<1> DEFINE IInv == Inv /\ working = {} /\ LegInv
<1>1. ExecInit => IInv
  BY InitInv, InitLeg
<1>2. IInv /\ [ExecNext]_execVars => IInv'
  BY NextInv, NothingWorks, NextLeg
<1> QED BY <1>1, <1>2, PTL DEF ExecSpec

(* On a quiet desk the position of the leg is always one that some call asked
   for: orders for it never add up, for any number of threads and any goals. *)
THEOREM QuietPosition ==
  ASSUME Quiet
  PROVE  ExecSpec => []PositionWasRequested
<1>1. LegInv => PositionWasRequested
  BY DEF LegInv
<1> QED BY <1>1, LegInvHolds, PTL

(* On a quiet desk an acknowledged "target" call leaves the position at its
   goal when it returns. *)
THEOREM QuietReachesTarget ==
  ASSUME Quiet
  PROVE  ExecSpec => ReachesTarget
<1>1. Inv /\ working = {} /\ LegInv /\ [ExecNext]_execVars =>
        [\A t \in Threads :
           Finish(t) /\ local[t].ok /\ call[t].kind = "target"
             => position[call[t].sym] = call[t].goal]_execVars
  BY DEF LegInv, ThreadTrue
<1> QED BY <1>1, LegInvHolds, PTL DEF ExecSpec, ReachesTarget

(* On a quiet desk no order is sent for a leg already at its goal. *)
THEOREM QuietNeverFiresAtTarget ==
  ASSUME Quiet
  PROVE  ExecSpec => NeverFiresAtTarget
<1>1. ASSUME LegInv, NEW t \in Threads, SendAcked(t), call[t].kind = "target"
      PROVE  position[call[t].sym] # call[t].goal
  <2>1. stage[t] = "send"
    BY <1>1 DEF SendAcked, LegInv, ThreadTrue
  <2> QED BY <1>1, <2>1 DEF LegInv, ThreadTrue, Planned
<1>2. Inv /\ working = {} /\ LegInv /\ [ExecNext]_execVars =>
        [\A t \in Threads :
           SendAcked(t) /\ call[t].kind = "target"
             => position[call[t].sym] # call[t].goal]_execVars
  BY <1>1
<1> QED BY <1>2, LegInvHolds, PTL DEF ExecSpec, NeverFiresAtTarget

-----------------------------------------------------------------------------
(* A call is never the value that stands for no call. *)
LEMMA CallIsNoNoCall ==
  ASSUME NEW c \in Calls
  PROVE  c # Unasked /\ c.sym \in Symbols
<1>1. c.kind \in {"target", "fixed"} /\ c.sym \in Symbols
  BY DEF Calls
<1>2. Unasked.kind = "idle"
  BY DEF Unasked
<1> QED BY <1>1, <1>2

(* The thread of the abstract desk while it is inside a call. *)
LEMMA AskedOf ==
  ASSUME Inv, NEW t \in Threads, stage[t] # "idle"
  PROVE  /\ Asked[t] = [sym |-> call[t].sym, goal |-> call[t].goal]
         /\ Asked[t] # Unasked
<1>1. call[t] # Unasked
  BY CallIsNoNoCall DEF Inv, CallInv
<1>2. Asked[t] = [sym |-> call[t].sym, goal |-> call[t].goal]
  BY <1>1 DEF Asked
<1>3. Asked[t] # Unasked
  <2>1. [sym |-> call[t].sym, goal |-> call[t].goal] # [kind |-> "idle"]
    OBVIOUS
  <2> QED BY <1>2, <2>1 DEF Unasked
<1> QED BY <1>2, <1>3

(* Leaving the lock is the abstract return. *)
LEMMA ReleaseReturns ==
  ASSUME Inv, NEW t \in Threads, stage[t] \in Locked, Release(t), position' = position
  PROVE  Desk!Return(t)
<1>1. Asked[t] # Unasked
  BY AskedOf DEF Locked, ReadPoints
<1>2. Asked' = [Asked EXCEPT ![t] = Unasked]
  BY DEF Release, Asked, Inv, ExecTypeOK
<1>3. Done' = [Done EXCEPT ![t] = FALSE]
  BY DEF Release, Done, Inv, ExecTypeOK
<1> QED BY <1>1, <1>2, <1>3 DEF Desk!Return

(* Steps inside a call that neither send nor leave stutter. *)
LEMMA StayStutters ==
  ASSUME Inv, NEW t \in Threads, stage[t] # "finish", NEW label, label # "finish",
         MoveTo(t, label), UNCHANGED <<position, call>>
  PROVE  UNCHANGED <<position, Asked, Done>>
BY DEF Inv, ExecTypeOK, Asked, Done

LEMMA UseRowsReturns ==
  ASSUME Inv, NEW t \in Threads, stage[t] \in Locked, stage[t] # "finish",
         NEW at, NEW rs, UseRows(t, at, rs), position' = position
  PROVE  Desk!Return(t) \/ UNCHANGED <<position, Asked, Done>>
<1>1. CASE Release(t)
  BY <1>1, ReleaseReturns
<1>2. CASE ~Release(t)
  <2>1. UNCHANGED call /\ \E label \in {"count", "closing", "check"} : MoveTo(t, label)
    BY <1>2 DEF UseRows, NetQtyRead, OpenCountRead, ClosingRead
  <2> QED BY <2>1, StayStutters
<1> QED BY <1>1, <1>2

(* The broker's answer, whatever it is, is the one chance of the abstract call. *)
LEMMA SendMoves ==
  ASSUME Inv, Quiet, LegInv, NEW t \in Threads, stage[t] = "send", MoveTo(t, "finish"),
         UNCHANGED call, Accept(t) \/ UNCHANGED exchange
  PROVE  Desk!Move(t)
<1>1. Asked[t] = [sym |-> call[t].sym, goal |-> call[t].goal] /\ Asked[t] # Unasked
  BY AskedOf
<1>2. ~Done[t] /\ Done' = [Done EXCEPT ![t] = TRUE] /\ Asked' = Asked
  BY DEF Done, Asked, Inv, ExecTypeOK
<1>3. CASE Accept(t)
  <2>1. position'[call[t].sym] = call[t].goal
    BY <1>3, AcceptLeg
  <2>2. \A s \in Symbols : s = call[t].sym
    BY QuietCalls DEF Quiet
  <2>3. position' \in [Symbols -> Int] /\ position \in [Symbols -> Int]
    BY <1>3, AcceptType DEF Inv, ExecTypeOK, Rows, Locked
  <2>4. position' = [position EXCEPT ![call[t].sym] = call[t].goal]
    BY <2>1, <2>2, <2>3
  <2> QED BY <1>1, <1>2, <2>4 DEF Desk!Move
<1>4. CASE UNCHANGED exchange
  BY <1>1, <1>2, <1>4 DEF Desk!Move
<1> QED BY <1>3, <1>4

(* Every step of a quiet desk is a step of the abstract desk, or none. *)
LEMMA NextRefines == Inv /\ Quiet /\ working = {} /\ LegInv /\ [ExecNext]_execVars => [Desk!Next]_(Desk!vars)
<1> SUFFICES ASSUME Inv, Quiet, working = {}, LegInv, [ExecNext]_execVars
             PROVE  Desk!Next \/ UNCHANGED <<position, Asked, Done>>
  BY DEF Desk!vars
<1>1. ASSUME NEW t \in Threads, Begin(t) PROVE Desk!Ask(t)
  <2>0. stage[t] = "idle" /\ stage' = [stage EXCEPT ![t] = "lock"] /\ position' = position
    BY <1>1 DEF Begin
  <2>1. PICK c \in Calls : call' = [call EXCEPT ![t] = c]
    BY <1>1 DEF Begin
  <2>2. c # Unasked /\ [sym |-> c.sym, goal |-> c.goal] \in Desk!Goals
    BY CallIsNoNoCall DEF Calls, Quiet, Desk!Goals
  <2>3. call[t] = Unasked
    BY <2>0 DEF LegInv, ThreadTrue
  <2>4. Asked[t] = Unasked /\ Asked' = [Asked EXCEPT ![t] = [sym |-> c.sym, goal |-> c.goal]]
    BY <2>1, <2>2, <2>3 DEF Asked, Inv, ExecTypeOK
  <2>5. Done' = Done
    BY <2>0 DEF Done, Inv, ExecTypeOK
  <2> QED BY <2>0, <2>2, <2>4, <2>5 DEF Desk!Ask
<1>2. ASSUME NEW t \in Threads, Acquire(t) PROVE UNCHANGED <<position, Asked, Done>>
  BY <1>2, StayStutters DEF Acquire
<1>3. ASSUME NEW t \in Threads, CacheHit(t)
      PROVE  Desk!Return(t) \/ UNCHANGED <<position, Asked, Done>>
  BY <1>3, UseRowsReturns DEF CacheHit, Locked, ReadPoints
<1>4. ASSUME NEW t \in Threads, LoadRows(t) PROVE UNCHANGED <<position, Asked, Done>>
  BY <1>4, StayStutters DEF LoadRows, ReadPoints
<1>5. ASSUME NEW t \in Threads, StoreRows(t)
      PROVE  Desk!Return(t) \/ UNCHANGED <<position, Asked, Done>>
  BY <1>5, UseRowsReturns DEF StoreRows, Locked
<1>6. ASSUME NEW t \in Threads, ReadRaises(t)
      PROVE  Desk!Return(t) \/ UNCHANGED <<position, Asked, Done>>
  <2>0. stage[t] \in ReadPoints /\ stage[t] \in Locked /\ position' = position
    BY <1>6 DEF ReadRaises, Locked, ReadPoints
  <2>1. CASE Release(t)
    BY <2>0, <2>1, ReleaseReturns
  <2>2. CASE OpenCountRead(t, 0) \/ ClosingRead(t, FALSE)
    <3>1. UNCHANGED call /\ \E label \in {"closing", "check"} : MoveTo(t, label)
      BY <2>2 DEF OpenCountRead, ClosingRead
    <3> QED BY <2>0, <3>1, StayStutters DEF ReadPoints
  <2> QED BY <1>6, <2>1, <2>2 DEF ReadRaises
<1>7. ASSUME NEW t \in Threads, CheckPasses(t) PROVE UNCHANGED <<position, Asked, Done>>
  BY <1>7, StayStutters DEF CheckPasses
<1>8. ASSUME NEW t \in Threads, Refused(t) PROVE Desk!Return(t)
  BY <1>8, ReleaseReturns DEF Refused, Locked
<1>9. ASSUME NEW t \in Threads, SendAcked(t) PROVE Desk!Move(t)
  BY <1>9, SendMoves DEF SendAcked, LegInv, ThreadTrue
<1>10. ASSUME NEW t \in Threads, SendRaised(t) PROVE Desk!Move(t)
  BY <1>10, SendMoves DEF SendRaised, LegInv, ThreadTrue, Quiet
<1>11. ASSUME NEW t \in Threads, Finish(t) PROVE Desk!Return(t)
  BY <1>11, ReleaseReturns DEF Finish, Locked
<1>12. ASSUME NEW r \in Readers, ViewLoad(r) \/ ViewStore(r) PROVE FALSE
  BY <1>12 DEF Quiet
<1>13. CASE CacheExpires
  BY <1>13 DEF CacheExpires, Asked, Done
<1>14. ASSUME NEW o \in working, Settle(o) PROVE FALSE
  BY <1>14
<1>15. CASE UNCHANGED execVars
  BY <1>15 DEF execVars, Asked, Done
<1> QED BY <1>1, <1>2, <1>3, <1>4, <1>5, <1>6, <1>7, <1>8, <1>9, <1>10, <1>11,
           <1>12, <1>13, <1>14, <1>15 DEF ExecNext, Step, Desk!Next

(* A quiet desk implements the abstract one: for any number of threads, goals,
   failed reads, refusals and lost replies, a call moves the position to its
   goal in one step, at most once, while it is in progress. *)
THEOREM QuietCallsAreAtomic ==
  ASSUME Quiet
  PROVE  ExecSpec => CallsAreAtomic
<1>1. ExecInit => Desk!Init
  BY DEF ExecInit, Desk!Init, Asked, Done
<1>2. Inv /\ working = {} /\ LegInv /\ [ExecNext]_execVars => [Desk!Next]_(Desk!vars)
  BY NextRefines
<1> QED BY <1>1, <1>2, LegInvHolds, PTL DEF ExecSpec, CallsAreAtomic, Desk!Spec
-----------------------------------------------------------------------------
(* One thread that moves any number of legs to targets, whose orders fill before
   their reply.  A resend of an order is allowed. *)
Solo == /\ \A t, u \in Threads : t = u
        /\ Readers = {} /\ Fixed = {} /\ ~FillLag

OpenBeside(rs, s) == Cardinality({u \in Symbols \ {s} : rs[u] # 0})

(* What the thread knows: the rows it reads are the broker's as long as no order
   of it is out; its count of open positions is right unless the read of it
   failed; and an order that has passed the check has room for its leg. *)
Sees(t) ==
    /\ stage[t] \notin {"resend", "finish"} /\ cache # Empty => cache = position
    /\ stage[t] # "closing" /\ (stage[t] = "store" => local[t].rows = position /\ local[t].at # "closing")
    /\ Planned(t) => local[t].cur = position[call[t].sym] /\ local[t].cur # call[t].goal
    /\ stage[t] = "check" => /\ local[t].closing = IsReducing(local[t].cur, call[t].goal)
                             /\ ~ReadsFail => local[t].count = OpenCount(position)
    /\ stage[t] \in {"send", "resend"} /\ ~ReadsFail => OpenBeside(position, call[t].sym) < MaxOpen

CapInv == /\ \A t \in Threads : Sees(t)
          /\ ~ReadsFail => OpenPositionsCapped

(* All calls are "target" calls. *)
LEMMA SoloCalls ==
  ASSUME Inv, Solo, NEW t \in Threads, stage[t] # "idle"
  PROVE  /\ call[t].kind = "target" /\ call[t].goal \in Int /\ call[t].sym \in Symbols
         /\ local[t] \in Locals /\ position[call[t].sym] \in Int
<1>1. call[t] \in Calls /\ call[t].sym \in Symbols
  BY CallFields DEF Inv, CallInv
<1> QED BY <1>1, QuantitiesAssumption DEF Calls, Solo, Inv, ExecTypeOK, Rows

(* Counting open positions, with and without those of one symbol. *)
LEMMA CountBeside ==
  ASSUME NEW rs \in Rows, NEW s \in Symbols
  PROVE  /\ OpenBeside(rs, s) \in Nat
         /\ OpenCount(rs) = OpenBeside(rs, s) + (IF rs[s] # 0 THEN 1 ELSE 0)
<1> DEFINE open == {u \in Symbols : rs[u] # 0}
           beside == {u \in Symbols \ {s} : rs[u] # 0}
<1>0. beside \subseteq Symbols /\ IsFiniteSet(Symbols)
  BY SymbolsAssumption
<1>1. IsFiniteSet(beside) /\ Cardinality(beside) \in Nat
  BY <1>0, FS_Subset, FS_CardinalityType
<1>2. CASE rs[s] # 0
  <2>1. open = beside \cup {s} /\ s \notin beside
    BY <1>2
  <2>2. Cardinality(beside \cup {s}) = Cardinality(beside) + 1
    BY <1>1, <2>1, FS_AddElement
  <2> QED BY <1>1, <1>2, <2>1, <2>2 DEF OpenCount, OpenBeside
<1>3. CASE rs[s] = 0
  <2>1. open = beside
    BY <1>3
  <2>2. OpenCount(rs) = OpenBeside(rs, s)
    BY <2>1 DEF OpenCount, OpenBeside
  <2> QED BY <1>1, <1>3, <2>2 DEF OpenBeside
<1> QED BY <1>2, <1>3

(* Of the thread that steps the invariant is all there is. *)
LEMMA SoloKeeps ==
  ASSUME Solo, CapInv, NEW t \in Threads, Sees(t)', ~ReadsFail => OpenPositionsCapped'
  PROVE  CapInv'
BY DEF Solo, CapInv

LEMMA SoloReturns ==
  ASSUME Inv, Solo, CapInv, NEW t \in Threads, Release(t), position' = position,
         cache' # Empty => cache' = position
  PROVE  CapInv'
<1>1. stage'[t] = "idle"
  BY DEF Release, Inv, ExecTypeOK
<1>2. Sees(t)'
  BY <1>1 DEF Sees, Planned
<1> QED BY <1>2, SoloKeeps DEF CapInv, OpenPositionsCapped

(* The three uses of the rows, and the failed reads that stand for them. *)
LEMMA SoloReads ==
  ASSUME Inv, Solo, CapInv, NEW t \in Threads, NEW at \in ReadPoints,
         \/ stage[t] = at
         \/ stage[t] = "store" /\ at = local[t].at,
         UseRows(t, at, position), position' = position, cache' # Empty => cache' = position
  PROVE  CapInv'
<1>1. stage[t] # "idle" /\ stage[t] \notin {"send", "resend", "finish"}
  BY DEF ReadPoints
<1>2. /\ call[t].kind = "target" /\ call[t].goal \in Int /\ call[t].sym \in Symbols /\ local[t] \in Locals
      /\ position[call[t].sym] \in Int
  BY <1>1, SoloCalls
<1>3. Planned(t) => local[t].cur = position[call[t].sym] /\ local[t].cur # call[t].goal
  BY DEF CapInv, Sees
<1>4. (~ReadsFail => OpenPositionsCapped) /\ (OpenPositionsCapped => OpenPositionsCapped')
  BY DEF CapInv, OpenPositionsCapped
<1>5. CASE Release(t)
  BY <1>5, SoloReturns
<1>6. CASE at = "read" /\ ~Release(t)
  <2>1. /\ position[call[t].sym] # call[t].goal /\ call' = call
        /\ local' = [local EXCEPT ![t].cur = position[call[t].sym]] /\ stage' = [stage EXCEPT ![t] = "count"]
    BY <1>2, <1>6, PlanReachesGoal DEF UseRows, NetQtyRead
  <2>2. stage'[t] = "count" /\ local'[t].cur = position[call[t].sym]
    BY <1>2, <2>1 DEF Inv, ExecTypeOK, Locals
  <2>3. Sees(t)'
    BY <2>1, <2>2 DEF Sees, Planned
  <2> QED BY <1>4, <2>3, SoloKeeps
<1>7. CASE at = "count"
  <2>1. /\ call' = call /\ stage' = [stage EXCEPT ![t] = "check"]
        /\ local' = [local EXCEPT ![t].count = OpenCount(position),
                                  ![t].closing = IsReducing(local[t].cur, call[t].goal)]
    BY <1>2, <1>7 DEF UseRows, OpenCountRead
  <2>2. /\ stage'[t] = "check" /\ local'[t].count = OpenCount(position) /\ local'[t].cur = local[t].cur
        /\ local'[t].closing = IsReducing(local[t].cur, call[t].goal)
    BY <1>2, <2>1 DEF Inv, ExecTypeOK, Locals
  <2>3. OpenCount(position)' = OpenCount(position)
    OBVIOUS
  <2>4. Sees(t)'
    BY <1>3, <1>7, <2>1, <2>2, <2>3 DEF Sees, Planned
  <2> QED BY <1>4, <2>4, SoloKeeps
<1>8. at # "closing"
  BY DEF CapInv, Sees
<1> QED BY <1>5, <1>6, <1>7, <1>8 DEF ReadPoints

(* The broker takes the order: one more open position than beside the leg, at
   most. *)
LEMMA SoloAccept ==
  ASSUME Inv, Solo, CapInv, NEW t \in Threads, stage[t] \in {"send", "resend"}, Accept(t) \/ UNCHANGED exchange
  PROVE  /\ ~ReadsFail => OpenPositionsCapped'
         /\ ~ReadsFail => OpenBeside(position, call[t].sym)' < MaxOpen \/ call' # call
<1> DEFINE s == call[t].sym
<1>1. s \in Symbols /\ position' \in Rows /\ position \in Rows
  BY SoloCalls, AcceptType DEF Locked, Inv, ExecTypeOK
<1>2. \A u \in Symbols \ {s} : position'[u] = position[u]
  BY <1>1 DEF Accept, Solo, Inv, ExecTypeOK, Rows
<1>3. {u \in Symbols \ {s} : position'[u] # 0} = {u \in Symbols \ {s} : position[u] # 0}
  BY <1>2
<1>4. OpenBeside(position', s) = OpenBeside(position, s)
  BY <1>3 DEF OpenBeside
<1>5. ~ReadsFail => OpenBeside(position, s) < MaxOpen
  BY DEF CapInv, Sees
<1>6. OpenCount(position') = OpenBeside(position', s) + (IF position'[s] # 0 THEN 1 ELSE 0)
      /\ OpenBeside(position', s) \in Nat
  BY <1>1, CountBeside
<1>7. ~ReadsFail => OpenCount(position') <= MaxOpen
  BY <1>4, <1>5, <1>6, QuantitiesAssumption
<1> QED BY <1>4, <1>5, <1>7 DEF OpenPositionsCapped

(* A check that passes leaves room for the leg: it is open already, or one more
   is allowed. *)
LEMMA SoloChecks ==
  ASSUME Inv, Solo, CapInv, NEW t \in Threads, CheckPasses(t)
  PROVE  CapInv'
<1>1. stage[t] = "check" /\ stage' = [stage EXCEPT ![t] = "send"] /\ UNCHANGED <<exchange, cache, lock, call, local, view>>
  BY DEF CheckPasses
<1>2. /\ call[t].kind = "target" /\ call[t].goal \in Int /\ call[t].sym \in Symbols /\ local[t] \in Locals
      /\ position[call[t].sym] \in Int
  BY <1>1, SoloCalls
<1>3. /\ local[t].cur = position[call[t].sym] /\ local[t].cur # call[t].goal
      /\ local[t].closing = IsReducing(local[t].cur, call[t].goal)
      /\ ~ReadsFail => local[t].count = OpenCount(position) /\ OpenCount(position) <= MaxOpen
  BY <1>1 DEF CapInv, Sees, Planned, OpenPositionsCapped
<1>4. /\ OpenBeside(position, call[t].sym) \in Nat
      /\ OpenCount(position) = OpenBeside(position, call[t].sym) + (IF position[call[t].sym] # 0 THEN 1 ELSE 0)
  BY <1>2, CountBeside DEF Inv, ExecTypeOK
<1>5. ~ReadsFail => OpenBeside(position, call[t].sym) < MaxOpen
  <2>1. CASE local[t].closing
    <3>1. position[call[t].sym] # 0
      BY <1>3, <2>1 DEF IsReducing
    <3> QED BY <1>3, <1>4, <3>1, QuantitiesAssumption
  <2>2. CASE ~local[t].closing
    <3>1. local[t].count < MaxOpen
      BY <2>2 DEF CheckPasses
    <3> QED BY <1>3, <1>4, <3>1, QuantitiesAssumption
  <2> QED BY <2>1, <2>2
<1>6. stage'[t] = "send"
  BY <1>1 DEF Inv, ExecTypeOK
<1>7. Sees(t)'
  <2>1. cache # Empty => cache = position
    BY <1>1 DEF CapInv, Sees
  <2>2. OpenBeside(position, call[t].sym)' = OpenBeside(position, call[t].sym)
    BY <1>1
  <2> QED BY <1>1, <1>3, <1>5, <1>6, <2>1, <2>2 DEF Sees, Planned
<1>8. ~ReadsFail => OpenPositionsCapped'
  BY <1>1, <1>3 DEF OpenPositionsCapped
<1> QED BY <1>7, <1>8, SoloKeeps

LEMMA SoloSends ==
  ASSUME Inv, Solo, CapInv, NEW t \in Threads, SendAcked(t) \/ SendRaised(t)
  PROVE  CapInv'
<1>1. stage[t] \in {"send", "resend"} /\ (Accept(t) \/ UNCHANGED exchange) /\ call' = call
  BY DEF SendAcked, SendRaised
<1>2. stage'[t] \in {"resend", "finish"}
  BY DEF SendAcked, SendRaised, Inv, ExecTypeOK
<1>3. Sees(t)'
  BY <1>1, <1>2, SoloAccept DEF Sees, Planned
<1> QED BY <1>1, <1>3, SoloAccept, SoloKeeps

(* Every other step. *)
LEMMA SoloStep ==
  ASSUME Inv, Solo, CapInv, NEW t \in Threads, Begin(t) \/ Step(t)
  PROVE  CapInv'
<1>0. (~ReadsFail => OpenPositionsCapped) /\ (position' = position => (OpenPositionsCapped => OpenPositionsCapped'))
  BY DEF CapInv, OpenPositionsCapped
<1>1. CASE Begin(t)
  <2>1. stage[t] = "idle" /\ stage'[t] = "lock" /\ UNCHANGED <<position, cache>>
    BY <1>1 DEF Begin, Inv, ExecTypeOK
  <2>2. Sees(t)'
    BY <2>1 DEF Sees, Planned, CapInv
  <2> QED BY <1>0, <2>1, <2>2, SoloKeeps
<1>2. CASE Acquire(t)
  <2>1. stage[t] = "lock" /\ stage'[t] = "read" /\ UNCHANGED <<position, cache>>
    BY <1>2, SoloCalls DEF Acquire, Inv, ExecTypeOK
  <2>2. Sees(t)'
    BY <2>1 DEF Sees, Planned, CapInv
  <2> QED BY <1>0, <2>1, <2>2, SoloKeeps
<1>3. CASE CacheHit(t)
  <2>1. stage[t] \in ReadPoints /\ cache # Empty /\ UNCHANGED <<position, cache>>
    BY <1>3 DEF CacheHit
  <2>2. cache = position
    BY <2>1 DEF CapInv, Sees, ReadPoints
  <2> QED BY <1>3, <2>1, <2>2, SoloReads DEF CacheHit
<1>4. CASE LoadRows(t)
  <2>1. stage[t] \in ReadPoints /\ UNCHANGED <<position, cache, call>> /\ cache = Empty
    BY <1>4 DEF LoadRows
  <2>2. stage'[t] = "store" /\ local'[t] = [local[t] EXCEPT !.rows = position, !.at = stage[t]]
    BY <1>4 DEF LoadRows, Inv, ExecTypeOK
  <2>3. local'[t].rows = position /\ local'[t].at = stage[t] /\ local'[t].cur = local[t].cur
    BY <2>2 DEF Inv, ExecTypeOK, Locals
  <2>4. Planned(t)' => Planned(t)
    BY <2>1, <2>2, <2>3 DEF Planned, ReadPoints
  <2>5. Sees(t)'
    BY <2>1, <2>2, <2>3, <2>4 DEF Sees, CapInv
  <2> QED BY <1>0, <2>1, <2>5, SoloKeeps
<1>5. CASE StoreRows(t)
  <2>1. stage[t] = "store" /\ cache' = local[t].rows /\ position' = position /\ local[t].at \in ReadPoints
    BY <1>5 DEF StoreRows, Inv, ExecTypeOK, Locals
  <2>2. local[t].rows = position
    BY <2>1 DEF CapInv, Sees
  <2> QED BY <1>5, <2>1, <2>2, SoloReads DEF StoreRows
<1>6. CASE ReadRaises(t)
  <2>1. ReadsFail /\ cache' = Empty /\ position' = position /\ stage[t] # "closing"
    BY <1>6 DEF ReadRaises, CapInv, Sees
  <2>2. CASE Release(t)
    BY <2>1, <2>2, SoloReturns
  <2>3. CASE stage[t] = "count" /\ OpenCountRead(t, 0)
    <3>1. call[t].kind = "target" /\ local[t] \in Locals
      BY <2>3, SoloCalls
    <3>2. /\ call' = call /\ stage'[t] = "check"
          /\ local'[t] = [local[t] EXCEPT !.count = 0, !.closing = IsReducing(local[t].cur, call[t].goal)]
      BY <2>3, <3>1 DEF OpenCountRead, Inv, ExecTypeOK
    <3>3. local'[t].cur = local[t].cur /\ local'[t].closing = IsReducing(local[t].cur, call[t].goal)
      BY <3>1, <3>2 DEF Locals
    <3>4. local[t].cur = position[call[t].sym] /\ local[t].cur # call[t].goal
      BY <2>3 DEF CapInv, Sees, Planned
    <3>5. Sees(t)'
      BY <2>1, <3>2, <3>3, <3>4 DEF Sees, Planned
    <3> QED BY <2>1, <3>5, SoloKeeps
  <2> QED BY <1>6, <2>1, <2>2, <2>3 DEF ReadRaises
<1>7. CASE Refused(t)
  <2>1. stage[t] \in {"check", "send"} /\ UNCHANGED <<position, cache>> /\ Release(t)
    BY <1>7 DEF Refused
  <2>2. cache # Empty => cache = position
    BY <2>1 DEF CapInv, Sees
  <2> QED BY <2>1, <2>2, SoloReturns
<1>8. CASE Finish(t)
  <2>1. cache' = Empty /\ Release(t) /\ position' = position
    BY <1>8, SoloCalls DEF Finish
  <2> QED BY <2>1, SoloReturns
<1> QED BY <1>1, <1>2, <1>3, <1>4, <1>5, <1>6, <1>7, <1>8, SoloChecks, SoloSends DEF Step

LEMMA CapNext == Inv /\ Solo /\ working = {} /\ CapInv /\ [ExecNext]_execVars => CapInv' /\ working' = {}
<1> SUFFICES ASSUME Inv, Solo, working = {}, CapInv, [ExecNext]_execVars PROVE CapInv' /\ working' = {}
  OBVIOUS
<1>1. ASSUME NEW t \in Threads, Begin(t) \/ Step(t) PROVE CapInv' /\ working' = {}
  <2>1. working' = {}
    BY <1>1 DEF Solo, Begin, Step, Acquire, CacheHit, LoadRows, StoreRows, ReadRaises,
                CheckPasses, Refused, SendAcked, SendRaised, Accept, Finish
  <2> QED BY <1>1, <2>1, SoloStep
<1>2. ASSUME NEW r \in Readers, ViewLoad(r) \/ ViewStore(r) PROVE FALSE
  BY <1>2 DEF Solo
<1>3. CASE CacheExpires
  BY <1>3 DEF CacheExpires, CapInv, Sees, Planned, OpenPositionsCapped, OpenCount, OpenBeside
<1>4. CASE UNCHANGED execVars
  BY <1>4 DEF execVars, CapInv, Sees, Planned, OpenPositionsCapped, OpenCount, OpenBeside
<1> QED BY <1>1, <1>2, <1>3, <1>4 DEF ExecNext

LEMMA CapInit == ExecInit => CapInv /\ working = {}
<1> SUFFICES ASSUME ExecInit PROVE CapInv
  BY DEF ExecInit
<1>1. {s \in Symbols : position[s] # 0} = {}
  BY DEF ExecInit
<1>2. OpenCount(position) = 0
  BY <1>1, FS_EmptySet DEF OpenCount
<1>3. OpenPositionsCapped
  BY <1>2, QuantitiesAssumption DEF OpenPositionsCapped
<1> QED BY <1>3 DEF ExecInit, CapInv, Sees, Planned

LEMMA CapInvHolds ==
  ASSUME Solo
  PROVE  ExecSpec => [](Inv /\ working = {} /\ CapInv)
<1> DEFINE IInv == Inv /\ working = {} /\ CapInv
<1>1. ExecInit => IInv
  BY InitInv, CapInit
<1>2. IInv /\ [ExecNext]_execVars => IInv'
  BY NextInv, CapNext
<1> QED BY <1>1, <1>2, PTL DEF ExecSpec

(* An order against the position is marked as closing. *)
LEMMA ExitsAreReducing ==
  ASSUME Inv, Solo, CapInv
  PROVE  ExitsSkipTheCap
<1> SUFFICES ASSUME NEW t \in Threads, stage[t] = "check", ClosesLeg(position, call[t].sym, PlanOf(t).side)
             PROVE  local[t].closing
  BY DEF ExitsSkipTheCap
<1>1. call[t].kind = "target" /\ call[t].goal \in Int /\ local[t] \in Locals
  BY SoloCalls
<1>2. /\ local[t].cur = position[call[t].sym] /\ local[t].cur # call[t].goal /\ local[t].cur \in Int
      /\ local[t].closing = IsReducing(local[t].cur, call[t].goal)
  BY <1>1 DEF CapInv, Sees, Planned, Locals
<1>3. PlanOf(t).side = IF call[t].goal > local[t].cur THEN "BUY" ELSE "SELL"
  BY <1>1 DEF PlanOf, Plan
<1> QED BY <1>1, <1>2, <1>3 DEF ClosesLeg, IsReducing

(* For one thread and any number of legs an order that reduces a position is
   never held back by the cap, whichever reads fail. *)
THEOREM ExitsPass ==
  ASSUME Solo
  PROVE  ExecSpec => []ExitsSkipTheCap
<1>1. Inv /\ working = {} /\ CapInv => ExitsSkipTheCap
  BY ExitsAreReducing
<1> QED BY <1>1, CapInvHolds, PTL

(* As long as the broker can be read it also never holds more open positions
   than the cap, resends of orders included. *)
THEOREM CapHolds ==
  ASSUME Solo, ~ReadsFail
  PROVE  ExecSpec => []CapIsKept
<1>1. Inv /\ working = {} /\ CapInv => CapIsKept
  BY ExitsAreReducing DEF CapInv, CapIsKept
<1> QED BY <1>1, CapInvHolds, PTL
=============================================================================
