------------------------------ MODULE Watchlist ------------------------------
(***************************************************************************)
(* The watchlist of the Live Desk in live mode: watchlist_store.py (one    *)
(* JSON file that every change loads and rewrites in place), the handlers  *)
(* that enter, close, unlink and link rows, the entry and exit scans, the  *)
(* clean-up of the trades view and execution/reconcile.py.                 *)
(*                                                                         *)
(* Threads are API handlers and the scheduler.  An unreadable file loads   *)
(* as an empty list, so a truncated file is modelled as one without rows.  *)
(* Positions are counted in entries of one lot; the position cache and the *)
(* symbol locks are the subject of OrderExecution.                         *)
(***************************************************************************)
EXTENDS Integers, FiniteSets

CONSTANTS
    Threads,    \* API handlers and the scheduler's loop
    Loopers,    \* the threads among them that never stop: the scheduler
    Items,      \* ids add_item can hand out
    Manual,     \* rows of entry mode "manual", the others wait for a signal
    Symbols,
    KeyOf,      \* exchange and tradingsymbol of a row
    LegsOf,     \* symbols its orders trade: its own, or those of its spread
    Ops,        \* the operations each thread performs
    FillLag,    \* TRUE: an accepted order fills after its reply
    Failures,   \* TRUE: broker reads fail, replies of orders get lost
    Overlap,    \* TRUE: the operator trades on Kite also during an operation
    MaxOrders,  \* bound on the orders the broker accepts, later ones are refused
    MaxOps,     \* bound on the operations of the threads that are not Loopers
    MaxCrashes, \* bound on the crashes of the process
    NoItem

Loops == {"scan", "exits", "reconcile", "adopt", "view", "link"}
Singles == {"add", "remove", "activate", "buy", "sell", "close", "unlink"}

ASSUME ItemsAssumption ==
    /\ Manual \subseteq Items /\ NoItem \notin Items /\ Loopers \subseteq Threads
    /\ KeyOf \in [Items -> Symbols] /\ LegsOf \in [Items -> SUBSET Symbols]
    /\ IsFiniteSet(Items) /\ IsFiniteSet(Symbols)
ASSUME BoundsAssumption ==
    /\ Ops \in [Threads -> SUBSET (Loops \cup Singles)]
    /\ {FillLag, Failures, Overlap} \subseteq BOOLEAN /\ {MaxOrders, MaxOps, MaxCrashes} \subseteq Nat

VARIABLES
    file,      \* watchlist.json
    used,      \* ids handed out so far
    position,  \* net position of each symbol at the broker
    working,   \* accepted orders that have not filled
    placed,    \* number of orders accepted so far
    pc, local, \* what each thread is doing and what it has read, see Blank
    lost,      \* history: rows with an entry order that no save recorded
    saved,     \* history: rows added and not removed since
    ops, crashes

broker == <<position, working, placed>>
vars == <<file, used, position, working, placed, pc, local, lost, saved, ops, crashes>>

Statuses == {"waiting", "triggered", "active", "closed"}
Signals == {"none", "long", "short"}
Rows == [status : Statuses, signal : Signals, exited : BOOLEAN]
Absent == [status |-> "absent", signal |-> "none", exited |-> FALSE]
Files == [Items -> Rows \cup {Absent}]
NoRows == [i \in Items |-> Absent]
Flat == [s \in Symbols |-> 0]

With(f, status) == {i \in Items : f[i].status = status}

(* Arguments and local variables of an operation: the rows and the broker's
   answers it decides on, what is left of its loop, the symbols it still has to
   trade or link, the row, what it saves of it, where it goes from there and
   the rows it loaded to save them.  "sent" is history: it got an entry order
   accepted. *)
Blank == [op |-> "none", seen |-> NoRows, pos |-> Flat, orders |-> {}, trusted |-> TRUE,
          todo |-> {}, syms |-> {}, item |-> NoItem, save |-> "update", patch |-> <<>>,
          then |-> "idle", rows |-> NoRows, sent |-> FALSE]

Init ==
    /\ file = NoRows /\ used = {}
    /\ position = Flat /\ working = {} /\ placed = 0
    /\ pc = [t \in Threads |-> "idle"]
    /\ local = [t \in Threads |-> Blank]
    /\ lost = {} /\ saved = {} /\ ops = 0 /\ crashes = 0

-----------------------------------------------------------------------------
(* Where a thread goes: to a label, with its new local variables; to the save of
   a change of row i; out of an exception, which the scans catch to go on with
   their next row. *)
Become(t, label, l) ==
    /\ pc' = [pc EXCEPT ![t] = label]
    /\ local' = [local EXCEPT ![t] = IF label = "idle" THEN Blank ELSE l]

Update(t, l, i, patch, then) ==
    Become(t, "load", [l EXCEPT !.item = i, !.save = "update", !.patch = patch, !.then = then])

Raise(t, l) ==
    /\ Become(t, CASE l.op \in {"scan", "exits", "reconcile"} -> "each"
                   [] l.op = "adopt" -> (IF l.then = "each" THEN "each" ELSE "link")
                   [] OTHER -> "idle",
              [l EXCEPT !.syms = IF l.op = "exits" THEN {} ELSE @, !.sent = FALSE])
    /\ lost' = IF l.sent THEN lost \cup {l.item} ELSE lost

Entered == [status |-> "active"]
Closed == [status |-> "closed", signal |-> "none", exited |-> TRUE]
Forgotten == [status |-> "closed", signal |-> "none"]
Linked(qty) == [status |-> "active", signal |-> IF qty < 0 THEN "short" ELSE "long",
                exited |-> FALSE]

(* An operation starts: on a new id, on one row, or on all of them. *)
Begin(t, op, i) ==
    /\ pc[t] = "idle"
    /\ t \in Loopers \/ ops < MaxOps
    /\ op \in Ops[t] /\ (op \in Loops <=> i = NoItem) /\ (op = "add" => i \notin used)
    /\ used' = IF op = "add" THEN used \cup {i} ELSE used
    /\ ops' = IF t \in Loopers THEN ops ELSE ops + 1
    /\ Become(t, CASE op \in {"add", "remove"} -> "load"
                   [] op \in {"view", "link"}  -> "positions"
                   [] OTHER                    -> "read",
              [Blank EXCEPT !.op = op, !.item = i,
                            !.save = IF op \in Singles THEN op ELSE "update"])
    /\ UNCHANGED <<file, broker, lost, saved, crashes>>

(* Mutant of CanEnter: an active row may be entered again. *)
CanEnterAgain(row) == row.status \in {"waiting", "triggered", "active"}

CanEnter(row) == row.status \in {"waiting", "triggered"}

(* What the operations on one row make of it.  Entries, exits and buttons are
   also refused for reasons outside the model: a disarmed desk, no session. *)
ReadRow(t) ==
    LET l == [local[t] EXCEPT !.seen = file]
        row == file[l.item]
    IN  /\ pc[t] = "read" /\ l.op \in Singles
        /\ \/ /\ l.op = "activate" /\ CanEnter(row)
              /\ Become(t, "order", [l EXCEPT !.syms = LegsOf[l.item]])
           \/ /\ l.op \in {"buy", "sell"} /\ l.item \in Manual
              /\ row.status \in {"waiting", "triggered", "active"}
              /\ Become(t, "positions", l)
           \/ l.op = "close" /\ row.status = "active" /\ Become(t, "positions", l)
           \/ /\ l.op = "close" /\ row.status \notin {"active", "absent"}
              /\ Update(t, l, l.item, Forgotten, "idle")
           \/ l.op = "unlink" /\ row.status = "active" /\ Update(t, l, l.item, Closed, "idle")
           \/ Become(t, "idle", l)
        /\ UNCHANGED <<file, used, broker, lost, saved, ops, crashes>>

(* The rows a loop goes through: list_items. *)
ReadRows(t) ==
    LET l == [local[t] EXCEPT !.seen = file]
        active == [l EXCEPT !.todo = With(file, "active")]
    IN  /\ pc[t] = "read" /\ l.op \in Loops
        /\ \/ l.op = "scan" /\ Become(t, "each", [l EXCEPT !.todo = With(file, "waiting") \ Manual])
           \/ l.op \in {"exits", "view", "link"} /\ Become(t, "each", active)
           \/ l.op \in {"reconcile", "adopt"} /\ Become(t, "positions", active)
        /\ UNCHANGED <<file, used, broker, lost, saved, ops, crashes>>

(* trigger_manual_side, once it knows the position of the row's symbol: a flat
   row is entered, a position on the wanted side is taken over. *)
Trigger(t, l, side) ==
    LET qty == l.pos[KeyOf[l.item]]
        active == l.seen[l.item].status = "active"
    IN  \/ qty = 0 /\ Update(t, [l EXCEPT !.syms = LegsOf[l.item]], l.item,
                             [signal |-> side, status |-> IF active THEN "active" ELSE "triggered"],
                             "order")
        \/ qty # 0 /\ Linked(qty).signal = side
                   /\ Update(t, l, l.item, [signal |-> side], "idle")
        \/ qty # 0 /\ Linked(qty).signal # side /\ Become(t, "idle", l)

(* broker.positions() answers. *)
Positions(t) ==
    LET l == [local[t] EXCEPT !.pos = position]
        open == {s \in LegsOf[l.item] : position[s] # 0}
    IN  /\ pc[t] = "positions"
        /\ \/ /\ l.op \in {"close", "exits"} /\ open = {}
              /\ Raise(t, l)
           \/ /\ \/ /\ l.op \in {"close", "exits"} /\ open # {}
                    /\ Become(t, "order", [l EXCEPT !.syms = open])
                 \/ l.op = "buy" /\ Trigger(t, l, "long")
                 \/ l.op = "sell" /\ Trigger(t, l, "short")
                 \/ l.op \in {"reconcile", "adopt"} /\ Become(t, "orders", l)
                 \/ l.op \in {"view", "link"} /\ Become(t, "read", l)
              /\ UNCHANGED lost
        /\ UNCHANGED <<file, used, broker, saved, ops, crashes>>

(* Mutant of PositionsFail: reconcile takes an unread broker for a flat one. *)
PositionsFailFlat(t) ==
    /\ Failures /\ pc[t] = "positions"
    /\ \/ local[t].op = "exits" /\ Become(t, "each", local[t])
       \/ local[t].op = "reconcile" /\ Become(t, "orders", local[t])
       \/ local[t].op \notin {"exits", "reconcile"} /\ Become(t, "idle", local[t])
    /\ UNCHANGED <<file, used, broker, lost, saved, ops, crashes>>

(* positions() raises: an automatic exit moves on to the next row, reconcile and
   everything else give up without a change. *)
PositionsFail(t) ==
    /\ Failures /\ pc[t] = "positions"
    /\ Become(t, IF local[t].op = "exits" THEN "each" ELSE "idle", local[t])
    /\ UNCHANGED <<file, used, broker, lost, saved, ops, crashes>>

(* broker.orders() of reconcile, or its failure. *)
Orders(t) ==
    /\ pc[t] = "orders"
    /\ Become(t, "each", [local[t] EXCEPT !.orders = {o.sym : o \in working}])
    /\ UNCHANGED <<file, used, broker, lost, saved, ops, crashes>>

OrdersFail(t) ==
    /\ Failures /\ pc[t] = "orders"
    /\ Become(t, "each", [local[t] EXCEPT !.trusted = FALSE])
    /\ UNCHANGED <<file, used, broker, lost, saved, ops, crashes>>

-----------------------------------------------------------------------------
(* The bodies of the loops. *)

(* Mutant of Stale: rows are closed although an order for them is working. *)
StaleUnlessWorking(l, i) == l.pos[KeyOf[i]] = 0 /\ KeyOf[i] \in l.orders /\ l.trusted

(* reconcile_from_broker closes a row on a complete picture only ... *)
Stale(l, i) == l.pos[KeyOf[i]] = 0 /\ KeyOf[i] \notin l.orders /\ l.trusted

(* ... _cleanup_stale_active_items whatever orders are working. *)
Leftover(l, i) == l.seen[i].exited \/ l.pos[KeyOf[i]] = 0

(* scan_watchlist: a fresh signal triggers a waiting row. *)
ScanRow(t, i) ==
    /\ local[t].op = "scan"
    /\ \E side \in {"long", "short"} :
          Update(t, [local[t] EXCEPT !.todo = @ \ {i}], i,
                 [status |-> "triggered", signal |-> side], "each")

(* scan_watchlist_exits: the trailing stop of a row is saved first. *)
ExitRow(t, i) ==
    /\ local[t].op = "exits"
    /\ Update(t, [local[t] EXCEPT !.todo = @ \ {i}], i, <<>>, "decide")

(* reconcile_from_broker: entry quantity and price of an open row are refreshed,
   a stale row is closed. *)
ReconcileRow(t, i) ==
    LET l == [local[t] EXCEPT !.todo = @ \ {i}]
    IN  /\ l.op \in {"reconcile", "adopt"}
        /\ \/ Stale(l, i) /\ Update(t, l, i, Closed, "each")
           \/ l.pos[KeyOf[i]] # 0 /\ Update(t, l, i, <<>>, "each")

CleanRow(t, i) ==
    /\ local[t].op \in {"view", "link"} /\ Leftover(local[t], i)
    /\ Update(t, [local[t] EXCEPT !.todo = @ \ {i}], i, Closed, "each")

(* A row for which the loop has nothing to do: no signal, no candles, nothing
   to repair. *)
SkipRow(t, i) ==
    LET l == local[t]
    IN  /\ l.op \in {"reconcile", "adopt"} => ~Stale(l, i)
        /\ l.op \in {"view", "link"} => ~Leftover(l, i)
        /\ Become(t, "each", [l EXCEPT !.todo = @ \ {i}])

Visit(t, i) ==
    /\ pc[t] = "each" /\ i \in local[t].todo
    /\ ScanRow(t, i) \/ ExitRow(t, i) \/ ReconcileRow(t, i) \/ CleanRow(t, i) \/ SkipRow(t, i)
    /\ UNCHANGED <<file, used, broker, lost, saved, ops, crashes>>

(* The exit of a row is not due, or close_watchlist_trade takes over. *)
Decide(t) ==
    /\ pc[t] = "decide"
    /\ \/ file[local[t].item].status = "active" /\ Become(t, "positions", local[t])
       \/ Become(t, "each", local[t])
    /\ UNCHANGED <<file, used, broker, lost, saved, ops, crashes>>

(* The loop is over.  Two operations go on with the positions no active row
   stands for: reconcile compares with the rows it began with, linking lists
   them again (twice in a row, taken as one step). *)
Orphans(pos, f) == {s \in Symbols : pos[s] # 0} \ {KeyOf[i] : i \in With(f, "active")}

LoopEnds(t) ==
    LET l == local[t]
    IN  /\ pc[t] = "each" /\ l.todo = {}
        /\ \/ l.op = "adopt" /\ Become(t, "link", [l EXCEPT !.syms = Orphans(l.pos, l.seen)])
           \/ l.op = "link" /\ Become(t, "link", [l EXCEPT !.syms = Orphans(l.pos, file),
                                                           !.seen = file])
           \/ l.op \notin {"adopt", "link"} /\ Become(t, "idle", l)
        /\ UNCHANGED <<file, used, broker, lost, saved, ops, crashes>>

(* An orphan is linked to the row of its symbol, or, always by reconcile, to a
   new one. *)
Link(t, s) ==
    LET l == [local[t] EXCEPT !.syms = @ \ {s}]
        rows == {i \in Items : KeyOf[i] = s /\ l.seen[i].status # "absent"}
        fresh == {i \in Items \ used : KeyOf[i] = s}
    IN  /\ pc[t] = "link" /\ s \in local[t].syms
        /\ \/ /\ l.op = "link"
              /\ \E i \in rows : Update(t, l, i, Linked(l.pos[s]), "link")
              /\ UNCHANGED used
           \/ /\ l.op = "adopt" \/ rows = {}
              /\ \E i \in fresh :
                    /\ Become(t, "load", [l EXCEPT !.item = i, !.save = "add",
                                                   !.patch = Linked(l.pos[s]), !.then = "linked"])
                    /\ used' = used \cup {i}
           \/ /\ l.op = "adopt" \/ rows = {}
              /\ fresh = {} /\ Become(t, "link", l) /\ UNCHANGED used
        /\ UNCHANGED <<file, broker, lost, saved, ops, crashes>>

Linking(t) ==
    LET l == local[t]
    IN  /\ \/ pc[t] = "linked" /\ Update(t, l, l.item, l.patch, "link")
           \/ pc[t] = "link" /\ l.syms = {} /\ Become(t, "idle", l)
        /\ UNCHANGED <<file, used, broker, lost, saved, ops, crashes>>

-----------------------------------------------------------------------------
(* Orders: place_watchlist_entry and close_watchlist_trade, leg by leg. *)
Entering(l) == l.op \in {"activate", "buy", "sell"}

Quantity(l, s) ==
    IF ~Entering(l) THEN -l.pos[s]
    ELSE IF l.op = "sell" \/ (l.op = "activate" /\ l.seen[l.item].signal = "short") THEN -1
    ELSE 1

Accept(s, qty) ==
    /\ placed < MaxOrders /\ placed' = placed + 1
    /\ \/ /\ ~FillLag
          /\ position' = [position EXCEPT ![s] = @ + qty] /\ UNCHANGED working
       \/ /\ FillLag
          /\ working' = working \cup {[id |-> placed, sym |-> s, qty |-> qty]}
          /\ UNCHANGED position

OrderAcked(t, s) ==
    LET l == [local[t] EXCEPT !.syms = @ \ {s}, !.sent = Entering(local[t])]
    IN  /\ pc[t] = "order" /\ s \in local[t].syms
        /\ Accept(s, Quantity(local[t], s))
        /\ \/ l.syms # {} /\ Become(t, "order", l)
           \/ /\ l.syms = {}
              /\ Update(t, l, l.item, IF Entering(l) THEN Entered ELSE Closed,
                        IF l.op = "exits" THEN "each" ELSE "idle")
        /\ UNCHANGED <<file, used, lost, saved, ops, crashes>>

(* The order is refused, or its reply is lost after the broker accepted it. *)
OrderRaises(t, s) ==
    /\ pc[t] = "order" /\ s \in local[t].syms
    /\ \/ Raise(t, local[t]) /\ UNCHANGED broker
       \/ /\ Failures /\ Accept(s, Quantity(local[t], s))
          /\ Raise(t, [local[t] EXCEPT !.sent = Entering(local[t])])
    /\ UNCHANGED <<file, used, saved, ops, crashes>>

-----------------------------------------------------------------------------
(* Mutant of Load: the rows the operation decided on are saved, without another
   look at the file. *)
LoadSeen(t) ==
    /\ pc[t] = "load"
    /\ Become(t, "open", [local[t] EXCEPT !.rows = local[t].seen])
    /\ UNCHANGED <<file, used, broker, lost, saved, ops, crashes>>

(* watchlist_store: every change loads the file, opens it for writing, which
   empties it, and writes all rows. *)
Load(t) ==
    LET l == [local[t] EXCEPT !.rows = file]
    IN  /\ pc[t] = "load"
        /\ \/ /\ l.save = "add" \/ file[l.item].status # "absent"
              /\ Become(t, "open", l) /\ UNCHANGED lost
           \/ l.save # "add" /\ file[l.item].status = "absent" /\ Raise(t, l)
        /\ UNCHANGED <<file, used, broker, saved, ops, crashes>>

Open(t) ==
    /\ pc[t] = "open"
    /\ file' = NoRows
    /\ Become(t, "write", local[t])
    /\ UNCHANGED <<used, broker, lost, saved, ops, crashes>>

(* Mutant of Merge: the values a patch leaves out overwrite the row. *)
MergeNone(row, patch) ==
    [f \in DOMAIN row |-> IF f \in DOMAIN patch THEN patch[f] ELSE IF f = "exited" THEN FALSE ELSE "none"]

(* update_item: {**item, **patch}, without the values the patch leaves out. *)
Merge(row, patch) == [f \in DOMAIN row |-> IF f \in DOMAIN patch THEN patch[f] ELSE row[f]]

Write(t) ==
    LET l == local[t]
        row == CASE l.save = "add"    -> [status |-> "waiting", signal |-> "none", exited |-> FALSE]
                 [] l.save = "remove" -> Absent
                 [] OTHER             -> Merge(l.rows[l.item], l.patch)
    IN  /\ pc[t] = "write"
        /\ file' = [l.rows EXCEPT ![l.item] = row]
        /\ Become(t, l.then, [l EXCEPT !.rows = NoRows, !.sent = FALSE])
        /\ saved' = CASE l.save = "add"    -> saved \cup {l.item}
                      [] l.save = "remove" -> saved \ {l.item}
                      [] OTHER             -> saved
        /\ UNCHANGED <<used, broker, lost, ops, crashes>>

-----------------------------------------------------------------------------
(* The exchange fills or rejects an order; the operator squares off on Kite. *)
Settle(o) ==
    /\ working' = working \ {o}
    /\ position' = [position EXCEPT ![o.sym] = @ + o.qty] \/ UNCHANGED position
    /\ UNCHANGED <<file, used, placed, pc, local, lost, saved, ops, crashes>>

SquareOff(s) ==
    /\ position[s] # 0
    /\ Overlap \/ \A t \in Threads : pc[t] = "idle"
    /\ position' = [position EXCEPT ![s] = 0]
    /\ UNCHANGED <<file, used, working, placed, pc, local, lost, saved, ops, crashes>>

(* The process dies and starts again; a save it had begun is lost with all rows. *)
Crash ==
    /\ crashes < MaxCrashes
    /\ crashes' = crashes + 1
    /\ pc' = [t \in Threads |-> "idle"]
    /\ local' = [t \in Threads |-> Blank]
    /\ lost' = lost \cup {local[t].item : t \in {u \in Threads : local[u].sent}}
    /\ saved' = saved \ With(file, "absent")
    /\ UNCHANGED <<file, used, broker, ops>>

Step(t) ==
    \/ ReadRow(t) \/ ReadRows(t)
    \/ Positions(t) \/ PositionsFail(t) \/ Orders(t) \/ OrdersFail(t)
    \/ \E i \in Items : Visit(t, i)
    \/ Decide(t) \/ LoopEnds(t) \/ Linking(t)
    \/ \E s \in Symbols : Link(t, s) \/ OrderAcked(t, s) \/ OrderRaises(t, s)
    \/ Load(t) \/ Open(t) \/ Write(t)

Next ==
    \/ \E t \in Threads : \/ \E op \in Ops[t], i \in Items \cup {NoItem} : Begin(t, op, i)
                          \/ Step(t)
    \/ \E o \in working : Settle(o)
    \/ \E s \in Symbols : SquareOff(s)
    \/ Crash

Spec == Init /\ [][Next]_vars

(* Every call of a thread returns, because every HTTP call has a timeout; the loop
   of the scheduler comes round to reconcile again and again, and the broker does
   not fail for ever to answer its two reads. *)
FairSpec ==
    /\ Spec
    /\ \A t \in Threads : WF_vars(Step(t))
    /\ \A t \in Loopers : /\ SF_vars(Begin(t, "reconcile", NoItem))
                          /\ SF_vars(Positions(t) /\ local[t].op = "reconcile")
                          /\ SF_vars(Orders(t))

-----------------------------------------------------------------------------
Patches == [status : Statuses, signal : Signals, exited : BOOLEAN]
             \cup [status : Statuses, signal : Signals] \cup [status : Statuses]
             \cup [signal : Signals] \cup {<<>>}

Locals == [op : {"none"} \cup Loops \cup Singles, seen : Files, pos : [Symbols -> Int],
           orders : SUBSET Symbols, trusted : BOOLEAN, todo : SUBSET Items,
           syms : SUBSET Symbols, item : Items \cup {NoItem},
           save : {"update"} \cup Singles, patch : Patches,
           then : {"idle", "each", "decide", "order", "link", "linked"},
           rows : Files, sent : BOOLEAN]

TypeOK ==
    /\ file \in Files /\ used \subseteq Items
    /\ position \in [Symbols -> Int] /\ working \subseteq [id : Nat, sym : Symbols, qty : Int] /\ placed \in Nat
    /\ pc \in [Threads -> {"idle", "read", "positions", "orders", "each", "decide", "link",
                           "linked", "order", "load", "open", "write"}]
    /\ local \in [Threads -> Locals]
    /\ lost \subseteq Items /\ saved \subseteq Items /\ ops \in Nat /\ crashes \in Nat

(* A row buys or sells once: whatever is refused, fails, is closed by hand or is
   linked again, a leg never holds more than one entry and never flips - unless
   the process lost track of an entry order (a crash, a lost reply or a refused
   second leg before the row was saved as active). *)
OneEntryPerRow ==
    \A i \in Items \ lost, s \in Symbols : s \in LegsOf[i] => position[s] \in {-1, 0, 1}

(* reconcile.py:103, "must never be read as broker flat (which would close every
   live trade)": a row is only saved as closed - by an exit, by reconcile or by
   the view - once all its legs are flat; unlink alone gives up an open trade. *)
ClosedRowsAreFlat ==
    [][\A t \in Threads :
         Write(t) /\ local[t].patch = Closed /\ local[t].op # "unlink"
           => \A s \in LegsOf[local[t].item] : position[s] = 0]_vars

(* reconcile.py:7: a local active row whose broker is flat, with no working order,
   is marked closed.  Whatever other calls overwrite or link in between, no row
   stays active for ever without a position or an order. *)
Rewriting == \E t \in Threads : pc[t] = "write"

StaleRowsAreClosed ==
    \A i \in Items :
        []<>(~Rewriting /\ ~(/\ file[i].status = "active"
                             /\ position[KeyOf[i]] = 0
                             /\ \A o \in working : o.sym # KeyOf[i]))

(* stores-and-state.md:8, of the files every module rewrites: "That design is only
   safe because the whole system runs in one process".  While the process lives, a
   row once added stays in the file until it is removed, also when other rows
   change at the same time. *)
RowsSurvive == ~Rewriting => \A i \in saved : file[i].status # "absent"

(* What a reader who comes between two saves sees: the file, or what the save
   under way found in it; and the ids that are or were in the list. *)
Stored == IF Rewriting THEN local[CHOOSE t \in Threads : pc[t] = "write"].rows ELSE file
Adding == {t \in Threads : pc[t] \in {"load", "open", "write"} /\ local[t].save = "add"}
Spent == used \ {local[t].item : t \in Adding}

Store == INSTANCE WatchlistRows WITH rows <- Stored, spent <- Spent

(* stores-and-state.md:8 again, taken at its word: with one thread, loading the
   list, opening the file and writing it are one legal step of one row's life,
   although what is saved was decided on rows read long before. *)
StoreIsAtomic == Store!RowsSpec
=============================================================================
