----------------------------- MODULE OrderRouter -----------------------------
(***************************************************************************)
(* execution/signal_bus.py, order_router.py and position_ledger.py: a      *)
(* strategy hands a SignalIntent to submit_intent, which refuses a second  *)
(* entry under a live tag, writes a ledger row, sends the order and marks  *)
(* the row; reconcile_with_broker compares the rows with the broker.       *)
(* Every change of the ledger is saved under one lock, so one map stands   *)
(* for memory and file.                                                    *)
(***************************************************************************)
EXTENDS Integers, FiniteSets

CONSTANTS
    Strategies,     \* the threads
    LegIds,         \* pairs of an owner with its instance, and a leg key
    RouterCases     \* configurations, see RouterCaseType

(* trades: the legs a thread submits intents for; books: it reconciles too;
   target: entries name a target; exitsFail, repliesLost: possible faults. *)
RouterCaseType == [trades : [Strategies -> SUBSET LegIds], books : SUBSET Strategies, target : BOOLEAN,
                   exitsFail : BOOLEAN, repliesLost : BOOLEAN, crashes : Nat, intents : Nat]

ASSUME LegIdsAssumption == LegIds # {}
ASSUME RouterCasesAssumption == \A c \in RouterCases :
    /\ DOMAIN c = {"trades", "books", "target", "exitsFail", "repliesLost", "crashes", "intents"}
    /\ c.trades \in [Strategies -> SUBSET LegIds] /\ c.books \subseteq Strategies
    /\ {c.target, c.exitsFail, c.repliesLost} \subseteq BOOLEAN /\ {c.crashes, c.intents} \subseteq Nat

VARIABLES
    routing,    \* the case of this behaviour
    ledger,     \* the rows
    net,        \* lots the broker holds of each leg's symbol
    router,     \* the call each thread is in
    spent       \* intents and crashes so far

routerVars == <<routing, ledger, net, router, spent>>
NoTag == "none"
Absent == [status |-> "absent", entry_tag |-> NoTag, quantity |-> 0]

-----------------------------------------------------------------------------
(* SignalIntent.tag and order_tag: neither owner nor instance is in it. *)
EntryTag(leg) == leg[2]

(* Mutant of HasOpenTag: a row whose order has no answer yet does not count. *)
HasOpenTagOpenOnly(tag) == \E leg \in LegIds : ledger[leg].entry_tag = tag /\ ledger[leg].status = "open"

HasOpenTag(tag) ==
    \E leg \in LegIds : ledger[leg].entry_tag = tag /\ ledger[leg].status \in {"pending", "open"}

NoCall == [pc |-> "idle", kind |-> "enter", leg |-> CHOOSE leg \in LegIds : TRUE, result |-> "none",
           seen |-> [leg \in LegIds |-> 0], rows |-> {}]

RouterInit ==
    /\ routing \in RouterCases
    /\ ledger = [leg \in LegIds |-> Absent]
    /\ net = [leg \in LegIds |-> 0]
    /\ router = [t \in Strategies |-> NoCall]
    /\ spent = [intents |-> 0, crashes |-> 0]

Proceed(t, call) == router' = [router EXCEPT ![t] = call]

(* submit_intent: a duplicate entry is answered at once. *)
Submit(t, leg, kind) ==
    /\ router[t].pc = "idle" /\ leg \in routing.trades[t] /\ spent.intents < routing.intents
    /\ kind = "enter" => ~HasOpenTag(EntryTag(leg))
    /\ spent' = [spent EXCEPT !.intents = @ + 1]
    /\ Proceed(t, [NoCall EXCEPT !.pc = "upsert", !.kind = kind, !.leg = leg])
    /\ UNCHANGED <<routing, ledger, net>>

(* Mutant of UpsertPending: the row waits for the answer of the order. *)
UpsertLater(t) ==
    /\ router[t].pc = "upsert"
    /\ Proceed(t, [router[t] EXCEPT !.pc = "place"])
    /\ UNCHANGED <<routing, ledger, net, spent>>

UpsertPending(t) ==
    /\ router[t].pc = "upsert"
    /\ LET leg == router[t].leg
       IN  ledger' = [ledger EXCEPT ![leg].status = "pending",
                        ![leg].entry_tag = IF router[t].kind = "enter" THEN EntryTag(leg) ELSE @]
    /\ Proceed(t, [router[t] EXCEPT !.pc = "place"])
    /\ UNCHANGED <<routing, net, spent>>

(* The lots an order trades: an exit is an order to target 0, an entry goes
   to a target of one lot or buys one. *)
Lots(call) ==
    IF call.kind = "exit" THEN -net[call.leg] ELSE IF routing.target THEN 1 - net[call.leg] ELSE 1

(* place_leg_to_target finds the broker at the target and says so. *)
PlaceNoop(t) ==
    /\ router[t].pc = "place" /\ Lots(router[t]) = 0
    /\ Proceed(t, [router[t] EXCEPT !.pc = "mark", !.result = "noop"])
    /\ UNCHANGED <<routing, ledger, net, spent>>

PlaceAccepted(t) ==
    /\ router[t].pc = "place" /\ Lots(router[t]) # 0
    /\ net' = [net EXCEPT ![router[t].leg] = @ + Lots(router[t])]
    /\ \E r \in {"ok"} \cup (IF routing.repliesLost THEN {"failed"} ELSE {}) :
         Proceed(t, [router[t] EXCEPT !.pc = "mark", !.result = r])
    /\ UNCHANGED <<routing, ledger, spent>>

(* By the risk limits, the ARM gate or the broker; an exception is caught. *)
PlaceRefused(t) ==
    /\ router[t].pc = "place" /\ Lots(router[t]) # 0
    /\ router[t].kind = "exit" => routing.exitsFail
    /\ Proceed(t, [router[t] EXCEPT !.pc = "mark", !.result = "failed"])
    /\ UNCHANGED <<routing, ledger, net, spent>>

(* mark_error, mark_closed and mark_open; after a no-op nothing is marked. *)
Marked(row, call) ==
    CASE call.result = "failed"                        -> [row EXCEPT !.status = "error"]
      [] call.result = "noop"                          -> row
      [] call.result = "ok" /\ call.kind = "exit"      -> [row EXCEPT !.status = "closed", !.quantity = 0]
      [] call.result = "ok" /\ call.kind = "enter"     -> [row EXCEPT !.status = "open", !.quantity = 1]

Mark(t) ==
    /\ router[t].pc = "mark"
    /\ ledger' = [ledger EXCEPT ![router[t].leg] = Marked(@, router[t])]
    /\ Proceed(t, NoCall)
    /\ UNCHANGED <<routing, net, spent>>

(* reconcile_with_broker; positions that cannot be read end it at once. *)
BookPositions(t) ==
    /\ router[t].pc = "idle" /\ t \in routing.books
    /\ Proceed(t, [NoCall EXCEPT !.pc = "rows", !.seen = net])
    /\ UNCHANGED <<routing, ledger, net, spent>>

BookRows(t) ==
    /\ router[t].pc = "rows"
    /\ Proceed(t, [router[t] EXCEPT !.pc = "book", !.rows = {leg \in LegIds : ledger[leg].status = "open"}])
    /\ UNCHANGED <<routing, ledger, net, spent>>

(* Mutant of Booked: no row is ever closed here. *)
BookedKeeps(row, held) == [row EXCEPT !.quantity = IF held = 0 THEN @ ELSE held]

(* The broker's quantity, or closed when the broker is flat. *)
Booked(row, held) ==
    IF held = 0 THEN [row EXCEPT !.status = "closed", !.quantity = 0] ELSE [row EXCEPT !.quantity = held]

BookOne(t, leg) ==
    /\ router[t].pc = "book" /\ leg \in router[t].rows
    /\ ledger' = [ledger EXCEPT ![leg] = Booked(@, router[t].seen[leg])]
    /\ Proceed(t, [router[t] EXCEPT !.rows = @ \ {leg}])
    /\ UNCHANGED <<routing, net, spent>>

BookEnd(t) ==
    /\ router[t].pc = "book" /\ router[t].rows = {}
    /\ Proceed(t, NoCall)
    /\ UNCHANGED <<routing, ledger, net, spent>>

(* A crash between two saves. *)
RouterCrash ==
    /\ spent.crashes < routing.crashes
    /\ spent' = [spent EXCEPT !.crashes = @ + 1]
    /\ router' = [t \in Strategies |-> NoCall]
    /\ UNCHANGED <<routing, ledger, net>>

(* The broker, or the operator in its terminal, squares a leg off. *)
SquareOff(leg) ==
    /\ net[leg] # 0
    /\ net' = [net EXCEPT ![leg] = 0]
    /\ UNCHANGED <<routing, ledger, router, spent>>

Answer(t) == UpsertPending(t) \/ PlaceNoop(t) \/ PlaceAccepted(t) \/ PlaceRefused(t) \/ Mark(t)
Book(t) == BookPositions(t) \/ BookRows(t) \/ BookEnd(t) \/ \E leg \in LegIds : BookOne(t, leg)

RouterNext ==
    \/ \E t \in Strategies :
         \/ \E leg \in LegIds, kind \in {"enter", "exit"} : Submit(t, leg, kind)
         \/ Answer(t) \/ Book(t)
    \/ \E leg \in LegIds : SquareOff(leg)
    \/ RouterCrash

(* Calls end, and the desk keeps reconciling. *)
RouterFairness == \A t \in Strategies : WF_routerVars(Answer(t)) /\ WF_routerVars(Book(t))

RouterSpec == RouterInit /\ [][RouterNext]_routerVars /\ RouterFairness

-----------------------------------------------------------------------------
(* The types; an open row has a quantity and a closed one has none. *)
RouterTypeOK ==
    /\ ledger \in [LegIds -> [status : {"absent", "pending", "open", "closed", "error"},
                              entry_tag : {NoTag} \cup {EntryTag(leg) : leg \in LegIds}, quantity : Nat]]
    /\ net \in [LegIds -> Int]
    /\ \A leg \in LegIds : /\ ledger[leg].status = "open" => ledger[leg].quantity # 0
                           /\ ledger[leg].status \in {"absent", "closed"} => ledger[leg].quantity = 0

(* The same-day guard of order_router.py: "the same signal can't fire two
   orders for the same leg on the same day", whatever crashes in between. *)
SignalFiresOnce == \A leg \in LegIds : net[leg] <= 1

(* Whatever the broker holds, its row is pending or open: a crash, a no-op or
   a reconcile never makes the ledger forget a position. *)
HeldIsKnown == \A leg \in LegIds : net[leg] # 0 => ledger[leg].status \in {"pending", "open"}

(* An open row whose position is gone does not stay open for ever. *)
BookSettles == []<>(\A leg \in LegIds : routing.books # {} /\ ledger[leg].status = "open" => net[leg] # 0)
=============================================================================
