--------------------------- MODULE Watchlist_proofs ---------------------------
(***************************************************************************)
(* Theorems about Watchlist for every number of rows, symbols, orders and  *)
(* crashes: its types, for any threads; and for one thread and rows that   *)
(* trade their own symbol, that a row is saved as closed only when its leg *)
(* is flat, and that a row is entered once; and for one thread and any     *)
(* rows, that it implements WatchlistRows.  Then about WatchlistExit, for  *)
(* every range of prices, every entry price and every kind of stop: the    *)
(* saved stop is a ratchet, and a trade closes on its stop or its target   *)
(* only at a price that the broker gave.                                   *)
(***************************************************************************)
EXTENDS Watchlist, WatchlistExit, TLAPS

Labels == {"idle", "read", "positions", "orders", "each", "decide", "link", "linked", "order", "load", "open", "write"}
Saving == {"load", "open", "write"}
Knowing == {"orders", "each", "link", "linked"} \cup Saving

(* What a thread at a label must have: a row, and a row of the file it loaded. *)
Fits(label, l) ==
    /\ label \in {"decide", "order", "linked"} \cup Saving => l.item \in Items
    /\ label \in {"read", "positions"} /\ l.op \in Singles => l.item \in Items
    /\ label = "positions" /\ l.op = "exits" => l.item \in Items
    /\ l.sent => l.item \in Items
    /\ label \in {"open", "write"} /\ l.save # "add" => l.rows[l.item] # Absent

Thens == {"idle", "each", "decide", "order", "link", "linked"}

TypeInv == TypeOK /\ \A t \in Threads : Fits(pc[t], local[t])

-----------------------------------------------------------------------------
(* One thread runs, rows trade their own symbol, orders fill before their reply
   and nobody trades beside an operation. *)
Lone == /\ \A t, u \in Threads : t = u
        /\ \A i \in Items : LegsOf[i] = {KeyOf[i]}
        /\ ~FillLag /\ ~Overlap

(* What holds of a thread at a label with local variables l, when the file holds
   f and the broker the positions pos.  The rows it will leave, but for the change
   it saves: *)
Content(label, l, f) == IF label \in {"open", "write"} THEN l.rows ELSE f

Enterable == {"waiting", "triggered", "active"}
Settled(rec) == rec.exited => rec.status = "closed"
ExitedAreClosed(f) == \A i \in Items : Settled(f[i])

(* A label belongs to some operations only. *)
OfOp(label, op) ==
    /\ label = "orders" => op \in {"reconcile", "adopt"}
    /\ label = "each" => op \in Loops
    /\ label = "decide" => op = "exits"
    /\ label \in {"link", "linked"} => op \in {"adopt", "link"}
    /\ label = "order" => op \in {"activate", "buy", "sell", "close", "exits"}

Orderly(label, l) ==
    /\ OfOp(label, l.op)
    /\ label \in Saving => /\ OfOp(l.then, l.op) /\ l.save \in {"add", "remove", "update"}
                           /\ l.then = "order" => l.save = "update"
    /\ l.sent => label \in Saving /\ l.save = "update" /\ l.patch = Entered /\ l.then = "idle"

(* Loops that decide on the positions they read at first know the positions; so
   do exits of the legs they trade. *)
KnowsPositions(label, l, pos) ==
    l.op \in {"reconcile", "adopt", "view", "link"}
      /\ (label \in Knowing \/ (label = "read" /\ l.op \in {"view", "link"})) => l.pos = pos

KnowsLegs(label, l, pos) ==
    /\ label = "order" => /\ l.syms \subseteq LegsOf[l.item]
                          /\ Entering(l) \/ \A s \in l.syms : l.pos[s] = pos[s]
    /\ label \in Saving /\ l.then = "order" => l.syms \subseteq LegsOf[l.item] /\ Entering(l)

(* What an operation knows of the rows it still has to visit, or enters. *)
KnowsRows(label, l, f) ==
    /\ l.op \in {"view", "link"} => \A i \in l.todo : ~l.seen[i].exited
    /\ l.op = "scan" /\ label \in {"each"} \cup Saving =>
          /\ \A i \in l.todo : f[i].status = "waiting"
          /\ label \in Saving => l.item \notin l.todo
    /\ Entering(l) /\ label \in {"positions", "order"} \cup Saving => f[l.item].status \in Enterable

(* A save leaves an exited row closed, and closes a row whose legs are flat. *)
SavesWell(label, l, f, pos) ==
    /\ label = "linked" \/ (label \in Saving /\ l.then = "linked") => l.patch \in {Linked(-1), Linked(1)}
    /\ label \in Saving /\ l.save = "update" =>
          /\ f[l.item] # Absent => Settled(Merge(f[l.item], l.patch))
          /\ l.then = "order" => "status" \in DOMAIN l.patch /\ l.patch.status \in Enterable
    /\ label \in Saving /\ l.patch = Closed /\ l.op # "unlink" => \A s \in LegsOf[l.item] : pos[s] = 0

Knows(label, l, f, pos) ==
    /\ label \in {"open", "write"} => ExitedAreClosed(l.rows)
    /\ Orderly(label, l)
    /\ KnowsPositions(label, l, pos)
    /\ KnowsLegs(label, l, pos)
    /\ KnowsRows(label, l, Content(label, l, f))
    /\ SavesWell(label, l, Content(label, l, f), pos)

LoneInv ==
    /\ working = {}
    /\ ExitedAreClosed(file)
    /\ \A t \in Threads : Knows(pc[t], local[t], file, position)

-----------------------------------------------------------------------------
(* No two rows are of one symbol. *)
OwnSymbol == \A i, j \in Items : KeyOf[i] = KeyOf[j] => i = j

(* The row whose entry is accepted and not yet saved. *)
Flight(l) == IF l.sent THEN {l.item} ELSE {}

(* The leg of a row that can be entered is flat, unless an entry order of it was
   lost; an id not yet handed out has no row. *)
FlatUnless(f, pos, us, lo) ==
    \A i \in Items :
       /\ i \notin us => f[i] = Absent
       /\ f[i].status \in {"waiting", "triggered"} /\ i \notin lo => pos[KeyOf[i]] = 0

(* A leg is flat when its row is about to be entered or saved as enterable. *)
EntersFlat(label, l, f, pos, us, lo) ==
    LET flat == pos[KeyOf[l.item]] = 0
    IN  /\ Entering(l) /\ (label = "order" \/ (label \in Saving /\ l.then = "order")) /\ l.item \notin lo => flat
        /\ label \in Saving /\ l.save = "update" /\ l.item \notin lo
              /\ Merge(f[l.item], l.patch).status \in {"waiting", "triggered"} => flat
        /\ label \in Saving /\ l.save = "add" => flat /\ l.item \in us

(* What is to be linked is a position, so no id that is still free. *)
LinksHeld(label, l, pos) ==
    l.op \in {"adopt", "link"} =>
       /\ label \in {"read", "positions", "orders"} => l.syms = {}
       /\ label \in {"each", "link", "linked"} \cup Saving => \A s \in l.syms : pos[s] # 0

Enters(label, l, f, pos, us, lo) ==
    /\ FlatUnless(f, pos, us, lo \cup Flight(l))
    /\ label \in {"open", "write"} => FlatUnless(l.rows, pos, us, lo \cup Flight(l))
    /\ EntersFlat(label, l, Content(label, l, f), pos, us, lo)
    /\ LinksHeld(label, l, pos)

HeldOnce(pos, us, lo) ==
    /\ \A i \in Items \ lo : pos[KeyOf[i]] \in {-1, 0, 1}
    /\ \A i \in Items \ us : pos[KeyOf[i]] = 0

OwnInv ==
    /\ HeldOnce(position, used, lost)
    /\ \A t \in Threads : Enters(pc[t], local[t], file, position, used, lost)

-----------------------------------------------------------------------------
(* Types.  Where a thread goes is a label, and what it takes along is typed. *)
ThreadsTyped ==
    /\ pc \in [Threads -> Labels] /\ local \in [Threads -> Locals]
    /\ \A t \in Threads : Fits(pc[t], local[t])

DeskTyped ==
    /\ file \in Files /\ used \subseteq Items
    /\ position \in [Symbols -> Int] /\ working \subseteq [id : Nat, sym : Symbols, qty : Int] /\ placed \in Nat
    /\ lost \subseteq Items /\ saved \subseteq Items /\ ops \in Nat /\ crashes \in Nat

LEMMA TypeParts == TypeInv <=> DeskTyped /\ ThreadsTyped
BY DEF TypeInv, TypeOK, DeskTyped, ThreadsTyped, Labels

LEMMA BlankFits == Blank \in Locals /\ Fits("idle", Blank) /\ NoRows \in Files /\ Flat \in [Symbols -> Int]
<1>1. NoRows \in Files /\ Flat \in [Symbols -> Int]
  BY DEF NoRows, Files, Flat
<1>2. <<>> \in Patches
  BY DEF Patches
<1> QED BY <1>1, <1>2 DEF Blank, Locals, Fits, Loops, Singles, Saving

LEMMA Becomes ==
  ASSUME ThreadsTyped, NEW t \in Threads, NEW label \in Labels, NEW l \in Locals, Fits(label, l), Become(t, label, l)
  PROVE  ThreadsTyped'
<1> DEFINE m == IF label = "idle" THEN Blank ELSE l
<1>1. m \in Locals /\ Fits(label, m)
  BY BlankFits
<1>2. pc' = [pc EXCEPT ![t] = label] /\ local' = [local EXCEPT ![t] = m]
  BY DEF Become
<1> HIDE DEF m
<1>3. pc' \in [Threads -> Labels] /\ local' \in [Threads -> Locals]
  BY <1>1, <1>2 DEF ThreadsTyped
<1>4. ASSUME NEW u \in Threads PROVE Fits(pc'[u], local'[u])
  BY <1>1, <1>2 DEF ThreadsTyped
<1>5. \A u \in Threads : Fits(pc[u], local[u])'
  BY <1>4 DEF Fits
<1> QED BY <1>3, <1>5 DEF ThreadsTyped

LEMMA Updates ==
  ASSUME ThreadsTyped, NEW t \in Threads, NEW l \in Locals, NEW i \in Items, NEW patch \in Patches,
         NEW then \in Thens, Update(t, l, i, patch, then)
  PROVE  ThreadsTyped'
<1> DEFINE m == [l EXCEPT !.item = i, !.save = "update", !.patch = patch, !.then = then]
<1>1. m \in Locals
  BY DEF Locals, Thens
<1>2. m.item = i
  BY DEF Locals
<1>3. Become(t, "load", m)
  BY DEF Update
<1> HIDE DEF m
<1> QED BY <1>1, <1>2, <1>3, Becomes DEF Fits, Labels

LEMMA Raises ==
  ASSUME ThreadsTyped, DeskTyped, NEW t \in Threads, NEW l \in Locals, l.sent => l.item \in Items, Raise(t, l)
  PROVE  ThreadsTyped' /\ lost' \subseteq Items
<1> DEFINE m == [l EXCEPT !.syms = IF l.op = "exits" THEN {} ELSE @, !.sent = FALSE]
<1>1. m \in Locals /\ ~m.sent
  BY DEF Locals
<1>2. PICK label \in {"each", "link", "idle"} : Become(t, label, m)
  BY DEF Raise
<1>3. lost' \subseteq Items
  BY DEF Raise, DeskTyped
<1> HIDE DEF m
<1> QED BY <1>1, <1>2, <1>3, Becomes DEF Fits, Labels, Saving

(* What a thread has read, it may take along to any label where it needs no row. *)
LEMMA LocalTyped ==
  ASSUME ThreadsTyped, NEW t \in Threads
  PROVE  local[t] \in Locals /\ pc[t] \in Labels /\ Fits(pc[t], local[t])
BY DEF ThreadsTyped

LEMMA BeginTypes ==
  ASSUME DeskTyped, ThreadsTyped, NEW t \in Threads, NEW op \in Ops[t], NEW i \in Items \cup {NoItem}, Begin(t, op, i)
  PROVE  DeskTyped' /\ ThreadsTyped'
<1>1. op \in Loops \cup Singles
  BY BoundsAssumption
<1>2. op \in Singles => i \in Items
  BY <1>1 DEF Begin, Loops, Singles
<1> DEFINE label == CASE op \in {"add", "remove"} -> "load" [] op \in {"view", "link"} -> "positions" [] OTHER -> "read"
           m == [Blank EXCEPT !.op = op, !.item = i, !.save = IF op \in Singles THEN op ELSE "update"]
<1>3. m \in Locals
  BY <1>1, BlankFits DEF Locals, Singles
<1>4. m.item = i /\ m.op = op /\ m.sent = FALSE
  BY DEF Blank
<1>5. label \in Labels /\ Fits(label, m)
  <2>1. CASE op \in {"add", "remove"}
    BY <1>2, <1>4, <2>1 DEF Labels, Fits, Saving, Singles
  <2>2. CASE op \in {"view", "link"}
    BY <1>4, <2>2 DEF Labels, Fits, Saving, Singles
  <2>3. CASE op \notin {"add", "remove", "view", "link"}
    BY <1>2, <1>4, <2>3 DEF Labels, Fits, Saving, Singles
  <2> QED BY <2>1, <2>2, <2>3
<1>6. Become(t, label, m)
  BY DEF Begin
<1> HIDE DEF label, m
<1>7. DeskTyped'
  BY <1>2 DEF DeskTyped, Begin, broker, Singles
<1> QED BY <1>3, <1>5, <1>6, <1>7, Becomes

LEMMA ReadRowTypes ==
  ASSUME DeskTyped, ThreadsTyped, NEW t \in Threads, ReadRow(t)
  PROVE  DeskTyped' /\ ThreadsTyped'
<1> DEFINE l == [local[t] EXCEPT !.seen = file]
<1>1. local[t] \in Locals /\ l \in Locals /\ l.item = local[t].item /\ l.sent = local[t].sent /\ l.op = local[t].op
  BY LocalTyped DEF Locals, DeskTyped
<1>2. local[t].item \in Items /\ pc[t] = "read" /\ local[t].op \in Singles
  BY LocalTyped DEF ReadRow, Fits
<1>3. DeskTyped'
  BY DEF DeskTyped, ReadRow, broker
<1>4. Fits("idle", l) /\ Fits("positions", l)
  BY <1>1, <1>2 DEF Fits, Saving
<1>5. Forgotten \in Patches /\ Closed \in Patches
  BY DEF Patches, Forgotten, Closed, Statuses, Signals
<1>6. CASE Become(t, "order", [l EXCEPT !.syms = LegsOf[l.item]])
  <2>1. [l EXCEPT !.syms = LegsOf[l.item]] \in Locals
    BY <1>1, <1>2, ItemsAssumption DEF Locals
  <2>2. Fits("order", [l EXCEPT !.syms = LegsOf[l.item]])
    BY <1>1, <1>2 DEF Fits, Saving, Locals
  <2> QED BY <1>3, <1>6, <2>1, <2>2, Becomes DEF Labels
<1>7. CASE Become(t, "positions", l) \/ Become(t, "idle", l)
  BY <1>1, <1>3, <1>4, <1>7, Becomes DEF Labels
<1>8. CASE Update(t, l, l.item, Forgotten, "idle") \/ Update(t, l, l.item, Closed, "idle")
  BY <1>1, <1>2, <1>3, <1>5, <1>8, Updates DEF Thens
<1> QED BY <1>6, <1>7, <1>8 DEF ReadRow

LEMMA ReadRowsTypes ==
  ASSUME DeskTyped, ThreadsTyped, NEW t \in Threads, ReadRows(t)
  PROVE  DeskTyped' /\ ThreadsTyped'
<1> DEFINE m(T) == [[local[t] EXCEPT !.seen = file] EXCEPT !.todo = T]
<1>1. local[t] \in Locals /\ Fits("read", local[t]) /\ local[t].op \in Loops
  BY LocalTyped DEF ReadRows
<1>2. ASSUME NEW T \in SUBSET Items
      PROVE  m(T) \in Locals /\ Fits("each", m(T)) /\ (local[t].op \in {"reconcile", "adopt"} => Fits("positions", m(T)))
  <2>1. m(T) \in Locals /\ m(T).op = local[t].op /\ m(T).item = local[t].item /\ m(T).sent = local[t].sent
    BY <1>1 DEF Locals, DeskTyped
  <2> HIDE DEF m
  <2> QED BY <1>1, <2>1 DEF Fits, Saving, Singles
<1>3. DeskTyped'
  BY DEF DeskTyped, ReadRows, broker
<1>4. With(file, "active") \in SUBSET Items /\ With(file, "waiting") \ Manual \in SUBSET Items
  BY DEF With
<1>5. \/ Become(t, "each", m(With(file, "active"))) \/ Become(t, "each", m(With(file, "waiting") \ Manual))
      \/ local[t].op \in {"reconcile", "adopt"} /\ Become(t, "positions", m(With(file, "active")))
  BY <1>1 DEF ReadRows, Locals
<1> HIDE DEF m
<1> QED BY <1>2, <1>3, <1>4, <1>5, Becomes DEF Labels

LEMMA TriggerTypes ==
  ASSUME ThreadsTyped, NEW t \in Threads, NEW l \in Locals, l.item \in Items, ~l.sent \/ l.item \in Items,
         NEW side \in {"long", "short"}, Trigger(t, l, side)
  PROVE  ThreadsTyped'
<1> DEFINE m == [l EXCEPT !.syms = LegsOf[l.item]]
           p(status) == [signal |-> side, status |-> status]
<1>1. m \in Locals
  BY ItemsAssumption DEF Locals
<1>2. p("active") \in Patches /\ p("triggered") \in Patches /\ [signal |-> side] \in Patches
  BY DEF Patches, Statuses, Signals
<1>3. Fits("idle", l)
  BY DEF Fits, Saving
<1>4. \/ Update(t, m, l.item, p("active"), "order") \/ Update(t, m, l.item, p("triggered"), "order")
      \/ Update(t, l, l.item, [signal |-> side], "idle") \/ Become(t, "idle", l)
  BY DEF Trigger
<1> HIDE DEF m, p
<1> QED BY <1>1, <1>2, <1>3, <1>4, Updates, Becomes DEF Labels, Thens

LEMMA PositionsTypes ==
  ASSUME DeskTyped, ThreadsTyped, NEW t \in Threads, Positions(t)
  PROVE  DeskTyped' /\ ThreadsTyped'
<1> DEFINE l == [local[t] EXCEPT !.pos = position]
           open == {s \in LegsOf[l.item] : position[s] # 0}
           m == [l EXCEPT !.syms = open]
<1>1. local[t] \in Locals /\ Fits("positions", local[t]) /\ pc[t] = "positions"
  BY LocalTyped DEF Positions
<1>2. l \in Locals /\ l.op = local[t].op /\ l.item = local[t].item /\ l.sent = local[t].sent
  BY <1>1 DEF Locals, DeskTyped
<1>3. l.sent => l.item \in Items
  BY <1>1, <1>2 DEF Fits
<1>4. l.op \in {"close", "exits", "buy", "sell"} => l.item \in Items
  BY <1>1, <1>2 DEF Fits, Singles
<1>5. file' = file /\ used' = used /\ position' = position /\ working' = working /\ placed' = placed /\ saved' = saved /\ ops' = ops /\ crashes' = crashes
  BY DEF Positions, broker
<1>6. ASSUME lost' = lost PROVE DeskTyped'
  BY <1>5, <1>6 DEF DeskTyped
<1> HIDE DEF l
<1>7. CASE Raise(t, l)
  BY <1>2, <1>3, <1>5, <1>7, Raises DEF DeskTyped
<1>8. CASE l.op \in {"close", "exits"} /\ Become(t, "order", m) /\ lost' = lost
  <2>1. m \in Locals /\ m.item = l.item /\ m.op = l.op
    <3>1. open \in SUBSET Symbols
      BY <1>4, <1>8, ItemsAssumption
    <3> HIDE DEF open
    <3> QED BY <1>2, <3>1 DEF Locals
  <2> HIDE DEF m
  <2>2. Fits("order", m)
    BY <1>4, <1>8, <2>1 DEF Fits, Saving
  <2> QED BY <1>6, <1>8, <2>1, <2>2, Becomes DEF Labels
<1>9. CASE /\ l.op \in {"buy", "sell"} /\ lost' = lost
           /\ Trigger(t, l, "long") \/ Trigger(t, l, "short")
  BY <1>2, <1>4, <1>6, <1>9, TriggerTypes
<1>10. CASE l.op \in {"reconcile", "adopt", "view", "link"} /\ lost' = lost /\ (Become(t, "orders", l) \/ Become(t, "read", l))
  <2>1. Fits("orders", l) /\ Fits("read", l)
    BY <1>3, <1>10 DEF Fits, Saving, Singles
  <2> QED BY <1>2, <1>6, <1>10, <2>1, Becomes DEF Labels
<1>11. \/ Raise(t, l)
       \/ l.op \in {"close", "exits"} /\ Become(t, "order", m) /\ lost' = lost
       \/ l.op \in {"buy", "sell"} /\ lost' = lost /\ (Trigger(t, l, "long") \/ Trigger(t, l, "short"))
       \/ l.op \in {"reconcile", "adopt", "view", "link"} /\ lost' = lost /\ (Become(t, "orders", l) \/ Become(t, "read", l))
  BY DEF Positions, l
<1> QED BY <1>7, <1>8, <1>9, <1>10, <1>11

LEMMA AnswerTypes ==
  ASSUME DeskTyped, ThreadsTyped, NEW t \in Threads, PositionsFail(t) \/ Orders(t) \/ OrdersFail(t)
  PROVE  DeskTyped' /\ ThreadsTyped'
<1> DEFINE m == [local[t] EXCEPT !.orders = {o.sym : o \in working}]
           n == [local[t] EXCEPT !.trusted = FALSE]
<1>1. local[t] \in Locals /\ Fits(pc[t], local[t])
  BY LocalTyped
<1>2. DeskTyped'
  BY DEF DeskTyped, PositionsFail, Orders, OrdersFail, broker
<1>3. Fits("each", local[t]) /\ Fits("idle", local[t])
  BY <1>1 DEF Fits, Saving
<1>4. m \in Locals /\ Fits("each", m)
  <2>1. {o.sym : o \in working} \in SUBSET Symbols
    BY DEF DeskTyped
  <2> QED BY <1>1, <2>1 DEF Locals, Fits, Saving
<1>5. n \in Locals /\ Fits("each", n)
  BY <1>1 DEF Locals, Fits, Saving
<1>6. \/ Become(t, "each", local[t]) \/ Become(t, "idle", local[t])
      \/ Become(t, "each", m) \/ Become(t, "each", n)
  BY DEF PositionsFail, Orders, OrdersFail
<1> HIDE DEF m, n
<1> QED BY <1>1, <1>2, <1>3, <1>4, <1>5, <1>6, Becomes DEF Labels

LEMMA VisitTypes ==
  ASSUME DeskTyped, ThreadsTyped, NEW t \in Threads, NEW i \in Items, Visit(t, i)
  PROVE  DeskTyped' /\ ThreadsTyped'
<1> DEFINE m == [local[t] EXCEPT !.todo = @ \ {i}]
           p(side) == [status |-> "triggered", signal |-> side]
<1>1. local[t] \in Locals /\ Fits("each", local[t])
  BY LocalTyped DEF Visit
<1>2. m \in Locals /\ Fits("each", m)
  BY <1>1 DEF Locals, Fits, Saving
<1>3. DeskTyped'
  BY DEF DeskTyped, Visit, broker
<1>4. p("long") \in Patches /\ p("short") \in Patches /\ <<>> \in Patches /\ Closed \in Patches
  BY DEF Patches, Closed, Statuses, Signals
<1>5. \/ Update(t, m, i, p("long"), "each") \/ Update(t, m, i, p("short"), "each")
      \/ Update(t, m, i, <<>>, "decide") \/ Update(t, m, i, <<>>, "each")
      \/ Update(t, m, i, Closed, "each") \/ Become(t, "each", m)
  BY DEF Visit, ScanRow, ExitRow, ReconcileRow, CleanRow, SkipRow
<1> HIDE DEF m, p
<1> QED BY <1>2, <1>3, <1>4, <1>5, Updates, Becomes DEF Labels, Thens

LEMMA LoopTypes ==
  ASSUME DeskTyped, ThreadsTyped, NEW t \in Threads, Decide(t) \/ LoopEnds(t)
  PROVE  DeskTyped' /\ ThreadsTyped'
<1> DEFINE m == [local[t] EXCEPT !.syms = Orphans(local[t].pos, local[t].seen)]
           n == [local[t] EXCEPT !.syms = Orphans(local[t].pos, file), !.seen = file]
<1>1. local[t] \in Locals /\ Fits(pc[t], local[t])
  BY LocalTyped
<1>2. DeskTyped'
  BY DEF DeskTyped, Decide, LoopEnds, broker
<1>3. Fits("each", local[t]) /\ Fits("idle", local[t])
  BY <1>1 DEF Fits, Saving
<1>4. m \in Locals /\ n \in Locals /\ Fits("link", m) /\ Fits("link", n)
  BY <1>1 DEF Locals, Fits, Saving, Orphans, DeskTyped
<1>5. pc[t] = "decide" => Fits("positions", local[t])
  BY <1>1 DEF Fits, Saving
<1>6. \/ pc[t] = "decide" /\ Become(t, "positions", local[t])
      \/ Become(t, "each", local[t]) \/ Become(t, "idle", local[t])
      \/ Become(t, "link", m) \/ Become(t, "link", n)
  BY DEF Decide, LoopEnds
<1> HIDE DEF m, n
<1> QED BY <1>1, <1>2, <1>3, <1>4, <1>5, <1>6, Becomes DEF Labels

LEMMA LinkTypes ==
  ASSUME DeskTyped, ThreadsTyped, NEW t \in Threads, NEW s \in Symbols, Link(t, s)
  PROVE  DeskTyped' /\ ThreadsTyped'
<1> DEFINE l == [local[t] EXCEPT !.syms = @ \ {s}]
           m(i) == [l EXCEPT !.item = i, !.save = "add", !.patch = Linked(l.pos[s]), !.then = "linked"]
<1>1. local[t] \in Locals /\ Fits("link", local[t])
  BY LocalTyped DEF Link
<1>2. l \in Locals /\ Fits("link", l)
  BY <1>1 DEF Locals, Fits, Saving
<1>3. Linked(l.pos[s]) \in Patches
  BY DEF Linked, Patches, Statuses, Signals
<1>4. ASSUME NEW i \in Items PROVE m(i) \in Locals /\ Fits("load", m(i))
  BY <1>2, <1>3 DEF Locals, Fits, Saving, Singles
<1>5. DeskTyped'
  BY DEF DeskTyped, Link, broker
<1>6. \/ \E i \in Items : Update(t, l, i, Linked(l.pos[s]), "link")
      \/ \E i \in Items : Become(t, "load", m(i))
      \/ Become(t, "link", l)
  BY DEF Link
<1> HIDE DEF l, m
<1> QED BY <1>2, <1>3, <1>4, <1>5, <1>6, Updates, Becomes DEF Labels, Thens

LEMMA LinkingTypes ==
  ASSUME DeskTyped, ThreadsTyped, NEW t \in Threads, Linking(t)
  PROVE  DeskTyped' /\ ThreadsTyped'
<1>1. local[t] \in Locals /\ Fits(pc[t], local[t]) /\ local[t].patch \in Patches
  BY LocalTyped DEF Locals
<1>2. DeskTyped'
  BY DEF DeskTyped, Linking, broker
<1>3. Fits("idle", local[t]) /\ (pc[t] = "linked" => local[t].item \in Items)
  BY <1>1 DEF Fits, Saving
<1> QED BY <1>1, <1>2, <1>3, Updates, Becomes DEF Linking, Labels, Thens

LEMMA OrderTypes ==
  ASSUME DeskTyped, ThreadsTyped, NEW t \in Threads, NEW s \in Symbols, OrderAcked(t, s) \/ OrderRaises(t, s)
  PROVE  DeskTyped' /\ ThreadsTyped'
<1> DEFINE l == [local[t] EXCEPT !.syms = @ \ {s}, !.sent = Entering(local[t])]
           m == [local[t] EXCEPT !.sent = Entering(local[t])]
           qty == Quantity(local[t], s)
<1>1. local[t] \in Locals /\ Fits("order", local[t])
  BY LocalTyped DEF OrderAcked, OrderRaises
<1>2. local[t].item \in Items
  BY <1>1 DEF Fits
<1>3. l \in Locals /\ m \in Locals /\ l.item = local[t].item /\ m.item = local[t].item
  <2>1. PICK e \in {TRUE, FALSE} : e = Entering(local[t])
    <3>1. Entering(local[t]) = TRUE \/ Entering(local[t]) = FALSE
      BY DEF Entering
    <3> QED BY <3>1
  <2>2. /\ l = [local[t] EXCEPT !.syms = @ \ {s}, !.sent = e]
        /\ m = [local[t] EXCEPT !.sent = e]
    BY <2>1
  <2> HIDE DEF l, m
  <2> QED BY <1>1, <2>2 DEF Locals
<1>4. qty \in Int
  BY <1>1 DEF Quantity, Locals
<1>5. ASSUME Accept(s, qty) PROVE /\ position' \in [Symbols -> Int] /\ placed' \in Nat
                                  /\ working' \subseteq [id : Nat, sym : Symbols, qty : Int]
  <2> HIDE DEF qty
  <2>1. CASE ~FillLag
    BY <1>4, <1>5, <2>1 DEF Accept, DeskTyped
  <2>2. CASE FillLag
    <3>1. [id |-> placed, sym |-> s, qty |-> qty] \in [id : Nat, sym : Symbols, qty : Int]
      BY <1>4 DEF DeskTyped
    <3> QED BY <1>5, <2>2, <3>1 DEF Accept, DeskTyped
  <2> QED BY <2>1, <2>2
<1>7. ASSUME lost' \subseteq Items PROVE DeskTyped'
  BY <1>5, <1>7 DEF DeskTyped, OrderAcked, OrderRaises, broker
<1>8. Entered \in Patches /\ Closed \in Patches
  BY DEF Patches, Entered, Closed, Statuses, Signals
<1>9. CASE OrderAcked(t, s)
  <2>1. lost' \subseteq Items
    BY <1>9 DEF OrderAcked, DeskTyped
  <2>2. \/ Become(t, "order", l)
        \/ \E patch \in {Entered, Closed}, then \in {"each", "idle"} : Update(t, l, l.item, patch, then)
    BY <1>9 DEF OrderAcked
  <2> HIDE DEF l
  <2>3. Fits("order", l)
    BY <1>2, <1>3 DEF Fits, Saving
  <2> QED BY <1>2, <1>3, <1>7, <1>8, <2>1, <2>2, <2>3, Updates, Becomes DEF Labels, Thens
<1>10. CASE OrderRaises(t, s)
  <2>1. Raise(t, local[t]) \/ Raise(t, m)
    BY <1>10 DEF OrderRaises
  <2> HIDE DEF m
  <2> QED BY <1>1, <1>2, <1>3, <1>7, <2>1, Raises
<1> QED BY <1>9, <1>10

LEMMA LoadTypes ==
  ASSUME DeskTyped, ThreadsTyped, NEW t \in Threads, Load(t)
  PROVE  DeskTyped' /\ ThreadsTyped'
<1> DEFINE l == [local[t] EXCEPT !.rows = file]
<1>1. local[t] \in Locals /\ Fits("load", local[t])
  BY LocalTyped DEF Load
<1>2. /\ l \in Locals /\ l.item = local[t].item /\ l.item \in Items
      /\ l.rows = file /\ l.save = local[t].save
  BY <1>1 DEF Locals, DeskTyped, Fits, Saving
<1>3. ASSUME lost' \subseteq Items PROVE DeskTyped'
  BY <1>3 DEF DeskTyped, Load, broker
<1>4. \/ (l.save = "add" \/ file[l.item].status # "absent") /\ Become(t, "open", l) /\ lost' = lost
      \/ Raise(t, l)
  BY DEF Load
<1> HIDE DEF l
<1>5. l.save = "add" \/ file[l.item].status # "absent" => Fits("open", l)
  BY <1>2 DEF Fits, Saving, Absent
<1>6. lost \subseteq Items
  BY DEF DeskTyped
<1> QED BY <1>2, <1>3, <1>4, <1>5, <1>6, Becomes, Raises DEF Labels

LEMMA OpenTypes ==
  ASSUME DeskTyped, ThreadsTyped, NEW t \in Threads, Open(t)
  PROVE  DeskTyped' /\ ThreadsTyped'
<1>1. local[t] \in Locals /\ Fits("write", local[t])
  BY LocalTyped DEF Open, Fits, Saving
<1>2. DeskTyped'
  BY BlankFits DEF DeskTyped, Open, broker
<1> QED BY <1>1, <1>2, Becomes DEF Open, Labels

(* What a save makes of a row is a row. *)
LEMMA MergeTyped == ASSUME NEW rec \in Rows, NEW patch \in Patches PROVE Merge(rec, patch) \in Rows
BY DEF Merge, Rows, Patches

LEMMA WriteTypes ==
  ASSUME DeskTyped, ThreadsTyped, NEW t \in Threads, Write(t)
  PROVE  DeskTyped' /\ ThreadsTyped'
<1> DEFINE l == local[t]
           m == [l EXCEPT !.rows = NoRows, !.sent = FALSE]
           new == [status |-> "waiting", signal |-> "none", exited |-> FALSE]
<1>1. l \in Locals /\ Fits("write", l)
  BY LocalTyped DEF Write
<1>2. l.item \in Items /\ l.rows \in Files /\ l.patch \in Patches /\ l.then \in Thens
  BY <1>1 DEF Fits, Saving, Locals, Thens
<1>3. m \in Locals /\ m.item \in Items /\ ~m.sent
  BY <1>1, <1>2, BlankFits DEF Locals
<1>4. new \in Rows
  BY DEF Rows, Statuses, Signals
<1>5. l.save # "add" => Merge(l.rows[l.item], l.patch) \in Rows
  <2>1. l.save # "add" => l.rows[l.item] \in Rows
    BY <1>1, <1>2 DEF Fits, Files
  <2> QED BY <1>2, <2>1, MergeTyped
<1>6. PICK rec \in Rows \cup {Absent} : file' = [l.rows EXCEPT ![l.item] = rec]
  <2>1. \E rec \in {new, Absent} : l.save \in {"add", "remove"} => file' = [l.rows EXCEPT ![l.item] = rec]
    BY DEF Write
  <2>2. l.save \notin {"add", "remove"} => file' = [l.rows EXCEPT ![l.item] = Merge(l.rows[l.item], l.patch)]
    BY DEF Write
  <2> HIDE DEF l, new
  <2> QED BY <1>4, <1>5, <2>1, <2>2
<1>7. file' \in Files
  BY <1>2, <1>6 DEF Files
<1>8. saved' \subseteq Items
  BY <1>2 DEF Write, DeskTyped
<1>9. DeskTyped'
  BY <1>7, <1>8 DEF DeskTyped, Write, broker
<1>10. Become(t, l.then, m)
  BY DEF Write
<1> HIDE DEF l, m
<1>11. Fits(l.then, m) /\ l.then \in Labels
  BY <1>2, <1>3 DEF Fits, Saving, Thens, Labels
<1> QED BY <1>3, <1>9, <1>10, <1>11, Becomes

LEMMA SettleTypes ==
  ASSUME DeskTyped, ThreadsTyped, NEW o \in working, Settle(o)
  PROVE  DeskTyped' /\ ThreadsTyped'
<1>1. o.sym \in Symbols /\ o.qty \in Int /\ working' \subseteq working
  BY DEF DeskTyped, Settle
<1>2. position' \in [Symbols -> Int]
  BY <1>1 DEF DeskTyped, Settle
<1> QED BY <1>1, <1>2 DEF DeskTyped, ThreadsTyped, Settle, Fits

LEMMA SquareOffTypes ==
  ASSUME DeskTyped, ThreadsTyped, NEW s \in Symbols, SquareOff(s)
  PROVE  DeskTyped' /\ ThreadsTyped'
<1>1. position' \in [Symbols -> Int]
  BY DEF DeskTyped, SquareOff
<1> QED BY <1>1 DEF DeskTyped, ThreadsTyped, SquareOff, Fits

LEMMA CrashTypes ==
  ASSUME DeskTyped, ThreadsTyped, Crash
  PROVE  DeskTyped' /\ ThreadsTyped'
<1>1. lost' \subseteq Items
  BY DEF Crash, DeskTyped, ThreadsTyped, Fits
<1>2. DeskTyped'
  BY <1>1 DEF Crash, DeskTyped, broker
<1>3. pc' \in [Threads -> Labels] /\ local' \in [Threads -> Locals]
  BY BlankFits DEF Crash, Labels
<1>4. \A t \in Threads : Fits(pc[t], local[t])'
  BY BlankFits DEF Crash, Fits
<1> QED BY <1>2, <1>3, <1>4 DEF ThreadsTyped

LEMMA InitTypes == Init => TypeInv
<1> SUFFICES ASSUME Init PROVE DeskTyped /\ ThreadsTyped
  BY TypeParts
<1>1. DeskTyped
  BY BlankFits DEF Init, DeskTyped
<1>2. ThreadsTyped
  BY BlankFits DEF Init, ThreadsTyped, Labels
<1> QED BY <1>1, <1>2

LEMMA StepTypes ==
  ASSUME DeskTyped, ThreadsTyped, NEW t \in Threads, Step(t)
  PROVE  DeskTyped' /\ ThreadsTyped'
<1>1. CASE ReadRow(t) \/ ReadRows(t)
  BY <1>1, ReadRowTypes, ReadRowsTypes
<1>2. CASE Positions(t) \/ PositionsFail(t) \/ Orders(t) \/ OrdersFail(t)
  BY <1>2, PositionsTypes, AnswerTypes
<1>3. CASE (\E i \in Items : Visit(t, i)) \/ Decide(t) \/ LoopEnds(t)
  BY <1>3, VisitTypes, LoopTypes
<1>4. CASE Linking(t) \/ \E s \in Symbols : Link(t, s)
  BY <1>4, LinkingTypes, LinkTypes
<1>5. CASE \E s \in Symbols : OrderAcked(t, s) \/ OrderRaises(t, s)
  BY <1>5, OrderTypes
<1>6. CASE Load(t) \/ Open(t) \/ Write(t)
  BY <1>6, LoadTypes, OpenTypes, WriteTypes
<1> QED BY <1>1, <1>2, <1>3, <1>4, <1>5, <1>6 DEF Step

LEMMA NextTypes == TypeInv /\ [Next]_vars => TypeInv'
<1> SUFFICES ASSUME DeskTyped, ThreadsTyped, [Next]_vars PROVE DeskTyped' /\ ThreadsTyped'
  <2>1. TypeInv' <=> DeskTyped' /\ ThreadsTyped'
    BY TypeParts, PTL
  <2> QED BY <2>1, TypeParts
<1>1. CASE \E t \in Threads, op \in Loops \cup Singles, i \in Items \cup {NoItem} : op \in Ops[t] /\ Begin(t, op, i)
  BY <1>1, BeginTypes
<1>2. CASE \E t \in Threads : Step(t)
  BY <1>2, StepTypes
<1>3. CASE \/ \E o \in working : Settle(o)
           \/ \E s \in Symbols : SquareOff(s)
           \/ Crash
  BY <1>3, SettleTypes, SquareOffTypes, CrashTypes
<1>4. CASE UNCHANGED vars
  BY <1>4 DEF vars, broker, DeskTyped, ThreadsTyped, Fits
<1>5. \A t \in Threads : Ops[t] \subseteq Loops \cup Singles
  BY BoundsAssumption
<1> QED BY <1>1, <1>2, <1>3, <1>4, <1>5 DEF Next

LEMMA AlwaysTyped == Spec => []TypeInv
BY InitTypes, NextTypes, PTL DEF Spec

(* The rows, what each handler carries and what it does next keep their shapes:
   a step that needs a row has one, and a row that is saved was in the file the
   save loaded - for any number of handlers at once. *)
THEOREM TypeCorrect == Spec => []TypeOK
<1>1. TypeInv => TypeOK
  BY DEF TypeInv
<1> QED BY <1>1, AlwaysTyped, PTL

-----------------------------------------------------------------------------
(* Exits close flat rows.  A step of the one thread leads to a label where what
   it takes along is known again. *)
LEMMA IdleKnows == ASSUME NEW f, NEW pos PROVE Knows("idle", Blank, f, pos)
BY DEF Knows, Content, Orderly, OfOp, KnowsPositions, KnowsLegs, KnowsRows, SavesWell, Blank, Saving, Knowing, Entering

LEMMA Goes ==
  ASSUME Lone, ThreadsTyped, NEW t \in Threads, NEW label \in Labels, NEW l, Become(t, label, l),
         working' = {}, ExitedAreClosed(file'), Knows(label, l, file', position')
  PROVE  LoneInv'
<1>1. pc'[t] = label /\ local'[t] = IF label = "idle" THEN Blank ELSE l
  BY DEF Become, ThreadsTyped
<1>2. Knows(pc'[t], local'[t], file', position')
  BY <1>1, IdleKnows
<1>3. \A u \in Threads : Knows(pc'[u], local'[u], file', position')
  BY <1>2 DEF Lone
<1>4. \A u \in Threads : Knows(pc[u], local[u], file, position)'
  BY <1>3 DEF Knows, Content, Orderly, OfOp, KnowsPositions, KnowsLegs, KnowsRows, SavesWell, Entering, Settled, ExitedAreClosed
<1>5. ExitedAreClosed(file)'
  BY DEF ExitedAreClosed, Settled
<1> QED BY <1>4, <1>5 DEF LoneInv

(* The same for a step that saves a change of row i. *)
LEMMA GoesSaving ==
  ASSUME Lone, ThreadsTyped, NEW t \in Threads, NEW l \in Locals, NEW i \in Items, NEW patch, NEW then \in Thens,
         Update(t, l, i, patch, then), working' = {}, ExitedAreClosed(file'),
         OfOp(then, l.op), l.sent => patch = Entered /\ then = "idle",
         l.op \in {"reconcile", "adopt", "view", "link"} => l.pos = position',
         then = "order" => l.syms \subseteq LegsOf[i] /\ Entering(l) /\ "status" \in DOMAIN patch /\ patch.status \in Enterable,
         l.op \in {"view", "link"} => \A j \in l.todo : ~l.seen[j].exited,
         l.op = "scan" => i \notin l.todo /\ \A j \in l.todo : file'[j].status = "waiting",
         Entering(l) => file'[i].status \in Enterable,
         then = "linked" => patch \in {Linked(-1), Linked(1)},
         file'[i] # Absent => Settled(Merge(file'[i], patch)),
         patch = Closed /\ l.op # "unlink" => \A s \in LegsOf[i] : position'[s] = 0
  PROVE  LoneInv'
<1> DEFINE m == [l EXCEPT !.item = i, !.save = "update", !.patch = patch, !.then = then]
<1>1. /\ m.item = i /\ m.save = "update" /\ m.patch = patch /\ m.then = then
      /\ m.op = l.op /\ m.seen = l.seen /\ m.pos = l.pos /\ m.todo = l.todo /\ m.syms = l.syms /\ m.sent = l.sent
  BY DEF Locals
<1>2. Become(t, "load", m)
  BY DEF Update
<1> HIDE DEF m
<1>3. Orderly("load", m)
  BY <1>1 DEF Orderly, OfOp, Saving
<1>4. KnowsPositions("load", m, position') /\ KnowsLegs("load", m, position')
  BY <1>1 DEF KnowsPositions, KnowsLegs, Saving, Entering
<1>5. KnowsRows("load", m, file') /\ SavesWell("load", m, file', position')
  BY <1>1 DEF KnowsRows, SavesWell, Saving, Entering
<1>6. Knows("load", m, file', position')
  BY <1>3, <1>4, <1>5 DEF Knows, Content
<1> QED BY <1>2, <1>6, Goes DEF Labels

LEMMA LoneBegin ==
  ASSUME Lone, ThreadsTyped, LoneInv, NEW t \in Threads, NEW op \in Loops \cup Singles, NEW i, Begin(t, op, i)
  PROVE  LoneInv'
<1> DEFINE label == CASE op \in {"add", "remove"} -> "load" [] op \in {"view", "link"} -> "positions" [] OTHER -> "read"
           m == [Blank EXCEPT !.op = op, !.item = i, !.save = IF op \in Singles THEN op ELSE "update"]
<1>1. /\ m.op = op /\ m.then = "idle" /\ m.todo = {} /\ ~m.sent /\ m.patch # Closed
      /\ op \in {"add", "remove"} => m.save = op
  BY DEF Blank, Singles, Closed
<1>2. label \in {"load", "positions", "read"} /\ (label = "load" <=> op \in {"add", "remove"})
      /\ (label = "positions" <=> op \in {"view", "link"})
  OBVIOUS
<1>3. Become(t, label, m) /\ file' = file /\ working' = working /\ position' = position
  BY DEF Begin, broker
<1> HIDE DEF m, label
<1>4. Orderly(label, m)
  BY <1>1, <1>2 DEF Orderly, OfOp, Saving
<1>5. KnowsPositions(label, m, position) /\ KnowsLegs(label, m, position)
  BY <1>1, <1>2 DEF KnowsPositions, KnowsLegs, Saving, Knowing
<1>6. KnowsRows(label, m, file) /\ SavesWell(label, m, file, position)
  BY <1>1, <1>2 DEF KnowsRows, SavesWell, Saving, Entering
<1>7. Knows(label, m, file, position)
  BY <1>2, <1>4, <1>5, <1>6 DEF Knows, Content
<1> QED BY <1>2, <1>3, <1>7, Goes DEF LoneInv, Labels

LEMMA LoneReadRow ==
  ASSUME Lone, DeskTyped, ThreadsTyped, LoneInv, NEW t \in Threads, ReadRow(t)
  PROVE  LoneInv'
<1> DEFINE l == [local[t] EXCEPT !.seen = file]
           m == [l EXCEPT !.syms = LegsOf[l.item]]
<1>1. local[t] \in Locals /\ Knows("read", local[t], file, position) /\ local[t].item \in Items /\ local[t].op \in Singles
  BY LocalTyped DEF ReadRow, LoneInv, Fits
<1>2. ~local[t].sent
  BY <1>1 DEF Knows, Orderly, Saving
<1>3. /\ l \in Locals /\ l.op = local[t].op /\ l.item = local[t].item /\ ~l.sent
      /\ m.op = local[t].op /\ m.item = local[t].item /\ ~m.sent /\ m.syms = LegsOf[m.item]
  BY <1>1, <1>2 DEF Locals, DeskTyped
<1>4. file' = file /\ working' = {} /\ position' = position /\ ExitedAreClosed(file')
  BY DEF ReadRow, LoneInv, broker
<1>5. CASE l.op = "activate" /\ CanEnter(file[l.item]) /\ Become(t, "order", m)
  <2> HIDE DEF l, m
  <2>1. Orderly("order", m) /\ KnowsPositions("order", m, position) /\ KnowsLegs("order", m, position)
    BY <1>3, <1>5 DEF Orderly, OfOp, KnowsPositions, KnowsLegs, Saving, Entering
  <2>2. KnowsRows("order", m, file) /\ SavesWell("order", m, file, position)
    BY <1>3, <1>5 DEF KnowsRows, SavesWell, Saving, Enterable, CanEnter
  <2>3. Knows("order", m, file', position')
    BY <1>4, <2>1, <2>2 DEF Knows, Content
  <2> QED BY <1>4, <1>5, <2>3, Goes DEF Labels
<1>6. CASE /\ l.op \in {"buy", "sell", "close"} /\ (l.op # "close" => file[l.item].status \in Enterable)
           /\ Become(t, "positions", l)
  <2> HIDE DEF l
  <2>1. Orderly("positions", l) /\ KnowsPositions("positions", l, position) /\ KnowsLegs("positions", l, position)
    BY <1>3, <1>6 DEF Orderly, OfOp, KnowsPositions, KnowsLegs, Saving, Entering
  <2>2. KnowsRows("positions", l, file) /\ SavesWell("positions", l, file, position)
    BY <1>3, <1>6 DEF KnowsRows, SavesWell, Saving, Entering
  <2>3. Knows("positions", l, file', position')
    BY <1>4, <2>1, <2>2 DEF Knows, Content
  <2> QED BY <1>4, <1>6, <2>3, Goes DEF Labels
<1>7. CASE /\ \/ l.op = "close" /\ Update(t, l, l.item, Forgotten, "idle")
              \/ l.op = "unlink" /\ Update(t, l, l.item, Closed, "idle")
  <2> HIDE DEF l
  <2>1. ~Entering(l) /\ OfOp("idle", l.op) /\ Forgotten # Closed
    BY <1>7 DEF Entering, OfOp, Forgotten, Closed
  <2>2. Settled(Merge(file[l.item], Forgotten)) /\ Settled(Merge(file[l.item], Closed))
    <3>1. file[l.item] \in Rows \cup {Absent}
      BY <1>1, <1>3 DEF DeskTyped, Files
    <3> QED BY <3>1 DEF Settled, Merge, Forgotten, Closed, Rows, Absent
  <2> QED BY <1>1, <1>3, <1>4, <1>7, <2>1, <2>2, GoesSaving DEF Thens
<1>8. CASE Become(t, "idle", l)
  <2> HIDE DEF l
  <2>1. Become(t, "idle", Blank)
    BY <1>8 DEF Become
  <2> QED BY <1>4, <2>1, IdleKnows, Goes DEF Labels
<1> QED BY <1>3, <1>5, <1>6, <1>7, <1>8 DEF ReadRow, Enterable

LEMMA LoneReadRows ==
  ASSUME Lone, DeskTyped, ThreadsTyped, LoneInv, NEW t \in Threads, ReadRows(t)
  PROVE  LoneInv'
<1> DEFINE m(T) == [[local[t] EXCEPT !.seen = file] EXCEPT !.todo = T]
<1>1. local[t] \in Locals /\ Knows("read", local[t], file, position) /\ local[t].op \in Loops
  BY LocalTyped DEF ReadRows, LoneInv
<1>2. ~local[t].sent /\ (local[t].op \in {"view", "link"} => local[t].pos = position)
  BY <1>1 DEF Knows, Orderly, Saving, KnowsPositions
<1>3. file' = file /\ working' = {} /\ position' = position /\ ExitedAreClosed(file')
  BY DEF ReadRows, LoneInv, broker
<1>4. ASSUME NEW T, NEW status \in {"waiting", "active"}, T \subseteq With(file, status)
      PROVE  /\ local[t].op = "scan" /\ status = "waiting" => Knows("each", m(T), file, position)
             /\ local[t].op \in {"exits", "view", "link"} /\ status = "active" => Knows("each", m(T), file, position)
             /\ local[t].op \in {"reconcile", "adopt"} => Knows("positions", m(T), file, position)
  <2>1. m(T).op = local[t].op /\ ~m(T).sent /\ m(T).seen = file /\ m(T).todo = T /\ m(T).pos = local[t].pos
    BY <1>1, <1>2 DEF Locals
  <2> HIDE DEF m
  <2>2. status = "active" => \A i \in T : ~file[i].exited
    BY <1>4 DEF LoneInv, ExitedAreClosed, Settled, With
  <2>3. status = "waiting" => \A i \in T : file[i].status = "waiting"
    BY <1>4 DEF With
  <2>4. local[t].op \in {"scan", "exits", "view", "link"} => Orderly("each", m(T)) /\ KnowsPositions("each", m(T), position)
    BY <1>2, <2>1 DEF Orderly, OfOp, KnowsPositions, Saving, Loops
  <2>5. local[t].op \in {"reconcile", "adopt"} => Orderly("positions", m(T)) /\ KnowsPositions("positions", m(T), position)
    BY <2>1 DEF Orderly, OfOp, KnowsPositions, Saving, Knowing
  <2>6. ASSUME NEW label \in {"each", "positions"} PROVE KnowsLegs(label, m(T), position) /\ SavesWell(label, m(T), file, position)
    BY DEF KnowsLegs, SavesWell, Saving
  <2>7. /\ local[t].op = "scan" /\ status = "waiting" => KnowsRows("each", m(T), file)
        /\ local[t].op \in {"exits", "view", "link"} /\ status = "active" => KnowsRows("each", m(T), file)
        /\ local[t].op \in {"reconcile", "adopt"} => KnowsRows("positions", m(T), file)
    BY <2>1, <2>2, <2>3 DEF KnowsRows, Saving, Entering
  <2> QED BY <2>4, <2>5, <2>6, <2>7 DEF Knows, Content
<1>5. \/ local[t].op = "scan" /\ Become(t, "each", m(With(file, "waiting") \ Manual))
      \/ local[t].op \in {"exits", "view", "link"} /\ Become(t, "each", m(With(file, "active")))
      \/ local[t].op \in {"reconcile", "adopt"} /\ Become(t, "positions", m(With(file, "active")))
  BY <1>1 DEF ReadRows, Locals
<1>6. With(file, "waiting") \ Manual \subseteq With(file, "waiting") /\ With(file, "active") \subseteq With(file, "active")
  OBVIOUS
<1> HIDE DEF m
<1>7. CASE local[t].op = "scan" /\ Become(t, "each", m(With(file, "waiting") \ Manual))
  BY <1>3, <1>4, <1>6, <1>7, Goes DEF Labels
<1>8. CASE local[t].op \in {"exits", "view", "link"} /\ Become(t, "each", m(With(file, "active")))
  BY <1>3, <1>4, <1>6, <1>8, Goes DEF Labels
<1>9. CASE local[t].op \in {"reconcile", "adopt"} /\ Become(t, "positions", m(With(file, "active")))
  BY <1>3, <1>4, <1>6, <1>9, Goes DEF Labels
<1> QED BY <1>5, <1>7, <1>8, <1>9

(* An exception leads back to the loop, or out. *)
LEMMA LoneRaise ==
  ASSUME Lone, ThreadsTyped, NEW t \in Threads, NEW l \in Locals, Raise(t, l), working' = {}, ExitedAreClosed(file'),
         l.op \in {"reconcile", "adopt"} => l.pos = position',
         l.op \in {"view", "link"} => \A j \in l.todo : ~l.seen[j].exited,
         l.op = "scan" => \A j \in l.todo : file'[j].status = "waiting"
  PROVE  LoneInv'
<1> DEFINE m == [l EXCEPT !.syms = IF l.op = "exits" THEN {} ELSE @, !.sent = FALSE]
<1>1. m.op = l.op /\ m.pos = l.pos /\ m.todo = l.todo /\ m.seen = l.seen /\ ~m.sent
  BY DEF Locals
<1>2. PICK label : /\ Become(t, label, m) /\ label \in {"each", "link", "idle"}
                   /\ label = "each" => l.op \in {"scan", "exits", "reconcile", "adopt"}
                   /\ label = "link" => l.op = "adopt"
  BY DEF Raise
<1> HIDE DEF m
<1>3. CASE label = "idle"
  <2>1. Become(t, "idle", Blank)
    BY <1>2, <1>3 DEF Become
  <2> QED BY <2>1, IdleKnows, Goes DEF Labels
<1>4. CASE label # "idle"
  <2>1. Orderly(label, m)
    BY <1>1, <1>2, <1>4 DEF Orderly, OfOp, Saving, Loops
  <2>2. KnowsPositions(label, m, position') /\ KnowsLegs(label, m, position')
    BY <1>1, <1>2, <1>4 DEF KnowsPositions, KnowsLegs, Saving
  <2>3. KnowsRows(label, m, file') /\ SavesWell(label, m, file', position')
    BY <1>1, <1>2, <1>4 DEF KnowsRows, SavesWell, Saving, Entering
  <2>4. Knows(label, m, file', position')
    BY <1>2, <2>1, <2>2, <2>3 DEF Knows, Content
  <2> QED BY <1>2, <2>4, Goes DEF Labels
<1> QED BY <1>3, <1>4

LEMMA LoneIdle ==
  ASSUME Lone, ThreadsTyped, NEW t \in Threads, NEW l, Become(t, "idle", l), working' = {}, ExitedAreClosed(file')
  PROVE  LoneInv'
<1>1. Become(t, "idle", Blank)
  BY DEF Become
<1> QED BY <1>1, IdleKnows, Goes DEF Labels

LEMMA LoneTrigger ==
  ASSUME Lone, DeskTyped, ThreadsTyped, LoneInv, NEW t \in Threads, NEW l \in Locals, NEW side \in {"long", "short"},
         Trigger(t, l, side), l.op \in {"buy", "sell"}, l.item \in Items, ~l.sent, file[l.item].status \in Enterable,
         file' = file, working' = {}, position' = position
  PROVE  LoneInv'
<1> DEFINE m == [l EXCEPT !.syms = LegsOf[l.item]]
           p(status) == [signal |-> side, status |-> status]
           q == [signal |-> side]
<1>1. m \in Locals /\ m.item = l.item /\ m.op = l.op /\ ~m.sent /\ m.syms = LegsOf[l.item]
  BY ItemsAssumption DEF Locals
<1>2. ExitedAreClosed(file') /\ file[l.item] \in Rows /\ ~file[l.item].exited
  BY DEF LoneInv, ExitedAreClosed, Settled, Enterable, DeskTyped, Files, Absent
<1>3. ASSUME NEW status \in {"active", "triggered"}
      PROVE  /\ Settled(Merge(file[l.item], p(status))) /\ p(status) # Closed
             /\ "status" \in DOMAIN p(status) /\ p(status).status \in Enterable
  BY <1>2 DEF Settled, Merge, Rows, Closed, Enterable
<1>4. Settled(Merge(file[l.item], q)) /\ q # Closed
  BY <1>2 DEF Settled, Merge, Rows, Closed
<1>5. Entering(m) /\ OfOp("order", m.op) /\ OfOp("idle", l.op)
  BY <1>1 DEF Entering, OfOp
<1>6. \/ \E status \in {"active", "triggered"} : Update(t, m, l.item, p(status), "order")
      \/ Update(t, l, l.item, q, "idle")
      \/ Become(t, "idle", l)
  BY DEF Trigger
<1> HIDE DEF m, p, q
<1>7. CASE \E status \in {"active", "triggered"} : Update(t, m, l.item, p(status), "order")
  BY <1>1, <1>2, <1>3, <1>5, <1>7, GoesSaving DEF Thens
<1>8. CASE Update(t, l, l.item, q, "idle")
  BY <1>2, <1>4, <1>5, <1>8, GoesSaving DEF Thens
<1>9. CASE Become(t, "idle", l)
  BY <1>2, <1>9, LoneIdle
<1> QED BY <1>6, <1>7, <1>8, <1>9

LEMMA LonePositions ==
  ASSUME Lone, DeskTyped, ThreadsTyped, LoneInv, NEW t \in Threads, Positions(t)
  PROVE  LoneInv'
<1> DEFINE l == [local[t] EXCEPT !.pos = position]
           open == {s \in LegsOf[l.item] : position[s] # 0}
           m == [l EXCEPT !.syms = open]
<1>1. /\ local[t] \in Locals /\ Fits("positions", local[t]) /\ Knows("positions", local[t], file, position)
      /\ working = {} /\ ExitedAreClosed(file)
  BY LocalTyped DEF Positions, LoneInv
<1>2. l \in Locals /\ l.op = local[t].op /\ l.item = local[t].item /\ l.seen = local[t].seen /\ l.todo = local[t].todo /\ l.pos = position /\ ~l.sent
  BY <1>1 DEF Locals, DeskTyped, Knows, Orderly, Saving
<1>3. l.op \in {"close", "exits", "buy", "sell"} => l.item \in Items
  BY <1>1, <1>2 DEF Fits, Singles
<1>4. file' = file /\ position' = position /\ working' = {} /\ ExitedAreClosed(file')
  BY <1>1 DEF Positions, broker
<1>5. /\ l.op \in {"view", "link"} => \A j \in l.todo : ~l.seen[j].exited
      /\ Entering(l) => file[l.item].status \in Enterable
  BY <1>1, <1>2 DEF Knows, KnowsRows, Content, Entering
<1>6. \/ l.op \in {"close", "exits"} /\ Raise(t, l)
      \/ l.op \in {"close", "exits"} /\ Become(t, "order", m)
      \/ l.op \in {"buy", "sell"} /\ (Trigger(t, l, "long") \/ Trigger(t, l, "short"))
      \/ l.op \in {"reconcile", "adopt"} /\ Become(t, "orders", l)
      \/ l.op \in {"view", "link"} /\ Become(t, "read", l)
  BY DEF Positions
<1>7. m.op = l.op /\ m.item = l.item /\ m.syms \subseteq LegsOf[l.item] /\ m.pos = position /\ ~m.sent
  BY <1>2 DEF Locals
<1> HIDE DEF l, m
<1>8. CASE l.op \in {"close", "exits"} /\ Raise(t, l)
  BY <1>2, <1>4, <1>8, LoneRaise
<1>9. CASE l.op \in {"close", "exits"} /\ Become(t, "order", m)
  <2>1. Orderly("order", m) /\ KnowsPositions("order", m, position)
    BY <1>7, <1>9 DEF Orderly, OfOp, Saving, KnowsPositions
  <2>2. KnowsLegs("order", m, position) /\ KnowsRows("order", m, file) /\ SavesWell("order", m, file, position)
    BY <1>7, <1>9 DEF KnowsLegs, KnowsRows, SavesWell, Saving, Entering
  <2>3. Knows("order", m, file', position')
    BY <1>4, <2>1, <2>2 DEF Knows, Content
  <2> QED BY <1>4, <1>9, <2>3, Goes DEF Labels
<1>10. CASE l.op \in {"buy", "sell"} /\ (Trigger(t, l, "long") \/ Trigger(t, l, "short"))
  BY <1>2, <1>3, <1>4, <1>5, <1>10, LoneTrigger DEF Entering
<1>11. ASSUME NEW label \in {"orders", "read"},
              label = "orders" => l.op \in {"reconcile", "adopt"}, label = "read" => l.op \in {"view", "link"}
       PROVE  Knows(label, l, file', position')
  <2>1. Orderly(label, l) /\ KnowsPositions(label, l, position) /\ KnowsLegs(label, l, position)
    BY <1>2, <1>11 DEF Orderly, OfOp, Saving, KnowsPositions, KnowsLegs
  <2>2. KnowsRows(label, l, file) /\ SavesWell(label, l, file, position)
    BY <1>5, <1>11 DEF KnowsRows, SavesWell, Saving, Entering
  <2> QED BY <1>4, <2>1, <2>2 DEF Knows, Content
<1>12. CASE l.op \in {"reconcile", "adopt"} /\ Become(t, "orders", l)
  BY <1>4, <1>11, <1>12, Goes DEF Labels
<1>13. CASE l.op \in {"view", "link"} /\ Become(t, "read", l)
  BY <1>4, <1>11, <1>13, Goes DEF Labels
<1> QED BY <1>6, <1>8, <1>9, <1>10, <1>12, <1>13

LEMMA LoneAnswer ==
  ASSUME Lone, DeskTyped, ThreadsTyped, LoneInv, NEW t \in Threads, PositionsFail(t) \/ Orders(t) \/ OrdersFail(t)
  PROVE  LoneInv'
<1> DEFINE o == [local[t] EXCEPT !.orders = {w.sym : w \in working}]
           n == [local[t] EXCEPT !.trusted = FALSE]
<1>1. /\ local[t] \in Locals /\ Knows(pc[t], local[t], file, position)
      /\ file' = file /\ position' = position /\ working' = {} /\ ExitedAreClosed(file')
  BY LocalTyped DEF PositionsFail, Orders, OrdersFail, LoneInv, broker
<1>2. ASSUME NEW m, m \in {local[t], o, n}
      PROVE  m.op = local[t].op /\ m.pos = local[t].pos /\ m.seen = local[t].seen /\ m.todo = local[t].todo /\ m.sent = local[t].sent
  BY <1>1, <1>2 DEF Locals
<1>3. \/ Become(t, "idle", local[t])
      \/ \E m \in {local[t], o, n} : /\ Become(t, "each", m)
                                     /\ \/ pc[t] = "positions" /\ local[t].op = "exits"
                                        \/ pc[t] = "orders"
  BY DEF PositionsFail, Orders, OrdersFail
<1> HIDE DEF o, n
<1>4. CASE Become(t, "idle", local[t])
  BY <1>1, <1>4, LoneIdle
<1>5. ASSUME NEW m \in {local[t], o, n}, Become(t, "each", m),
             (pc[t] = "positions" /\ local[t].op = "exits") \/ pc[t] = "orders"
      PROVE  LoneInv'
  <2>1. Orderly("each", m) /\ local[t].op \in {"exits", "reconcile", "adopt"}
    BY <1>1, <1>2, <1>5 DEF Knows, Orderly, OfOp, Saving, Loops
  <2>2. KnowsPositions("each", m, position)
    BY <1>1, <1>2, <1>5, <2>1 DEF Knows, KnowsPositions, Knowing
  <2>3. KnowsLegs("each", m, position) /\ KnowsRows("each", m, file) /\ SavesWell("each", m, file, position)
    BY <1>2, <2>1 DEF KnowsLegs, KnowsRows, SavesWell, Saving, Entering
  <2>4. Knows("each", m, file', position')
    BY <1>1, <2>1, <2>2, <2>3 DEF Knows, Content
  <2> QED BY <1>1, <1>5, <2>4, Goes DEF Labels
<1> QED BY <1>3, <1>4, <1>5

LEMMA LoneVisit ==
  ASSUME Lone, DeskTyped, ThreadsTyped, LoneInv, NEW t \in Threads, NEW i \in Items, Visit(t, i)
  PROVE  LoneInv'
<1> DEFINE m == [local[t] EXCEPT !.todo = @ \ {i}]
           p(side) == [status |-> "triggered", signal |-> side]
<1>1. /\ local[t] \in Locals /\ Knows("each", local[t], file, position) /\ i \in local[t].todo
      /\ file' = file /\ position' = position /\ working' = {} /\ ExitedAreClosed(file')
  BY LocalTyped DEF Visit, LoneInv, broker
<1>2. /\ m \in Locals /\ m.op = local[t].op /\ m.pos = local[t].pos /\ m.seen = local[t].seen
      /\ m.todo = local[t].todo \ {i} /\ ~m.sent
  BY <1>1 DEF Locals, Knows, Orderly, Saving
<1>3. /\ m.op \in Loops /\ ~Entering(m)
      /\ m.op \in {"reconcile", "adopt", "view", "link"} => m.pos = position
      /\ m.op \in {"view", "link"} => ~m.seen[i].exited /\ \A j \in m.todo : ~m.seen[j].exited
      /\ m.op = "scan" => file[i].status = "waiting" /\ i \notin m.todo /\ \A j \in m.todo : file[j].status = "waiting"
  BY <1>1, <1>2 DEF Knows, Orderly, OfOp, KnowsPositions, KnowsRows, Content, Knowing, Entering, Loops
<1>4. file[i] \in Rows \cup {Absent} /\ Settled(file[i]) /\ LegsOf[i] = {KeyOf[i]}
  BY DEF DeskTyped, Files, LoneInv, ExitedAreClosed, Lone
<1>5. \/ m.op = "scan" /\ \E side \in {"long", "short"} : Update(t, m, i, p(side), "each")
      \/ m.op = "exits" /\ Update(t, m, i, <<>>, "decide")
      \/ m.op \in {"reconcile", "adopt"} /\ Update(t, m, i, <<>>, "each")
      \/ /\ m.op \in {"reconcile", "adopt", "view", "link"} /\ Update(t, m, i, Closed, "each")
         /\ m.pos[KeyOf[i]] = 0 \/ (m.op \in {"view", "link"} /\ m.seen[i].exited)
      \/ Become(t, "each", m)
  BY <1>2 DEF Visit, ScanRow, ExitRow, ReconcileRow, CleanRow, SkipRow, Stale, Leftover
<1> HIDE DEF m
<1>6. OfOp("each", m.op) /\ (m.op = "exits" => OfOp("decide", m.op))
  BY <1>3 DEF OfOp
<1>7. ASSUME NEW side \in {"long", "short"} PROVE p(side) # Closed
  BY DEF Closed
<1>8. CASE m.op = "scan" /\ \E side \in {"long", "short"} : Update(t, m, i, p(side), "each")
  <2>1. ASSUME NEW side \in {"long", "short"} PROVE Settled(Merge(file[i], p(side)))
    BY <1>3, <1>4, <1>8 DEF Settled, Merge, Rows, Absent
  <2> HIDE DEF p
  <2> QED BY <1>1, <1>2, <1>3, <1>6, <1>7, <1>8, <2>1, GoesSaving DEF Thens
<1>9. CASE Update(t, m, i, <<>>, "each") \/ (m.op = "exits" /\ Update(t, m, i, <<>>, "decide"))
  <2>1. Settled(Merge(file[i], <<>>)) /\ <<>> # Closed
    BY <1>4 DEF Settled, Merge, Rows, Absent, Closed
  <2> QED BY <1>1, <1>2, <1>3, <1>6, <1>9, <2>1, GoesSaving DEF Thens
<1>10. CASE /\ m.op \in {"reconcile", "adopt", "view", "link"} /\ Update(t, m, i, Closed, "each")
            /\ m.pos[KeyOf[i]] = 0 \/ (m.op \in {"view", "link"} /\ m.seen[i].exited)
  <2>1. Settled(Merge(file[i], Closed))
    BY <1>4 DEF Settled, Merge, Rows, Absent, Closed
  <2>2. \A s \in LegsOf[i] : position'[s] = 0
    BY <1>1, <1>3, <1>4, <1>10
  <2> QED BY <1>1, <1>2, <1>3, <1>6, <1>10, <2>1, <2>2, GoesSaving DEF Thens
<1>11. CASE Become(t, "each", m)
  <2>1. Orderly("each", m) /\ KnowsPositions("each", m, position)
    BY <1>2, <1>3 DEF Orderly, OfOp, Saving, KnowsPositions
  <2>2. KnowsLegs("each", m, position) /\ KnowsRows("each", m, file) /\ SavesWell("each", m, file, position)
    BY <1>3 DEF KnowsLegs, KnowsRows, SavesWell, Saving
  <2>3. Knows("each", m, file', position')
    BY <1>1, <2>1, <2>2 DEF Knows, Content
  <2> QED BY <1>1, <1>11, <2>3, Goes DEF Labels
<1> QED BY <1>5, <1>8, <1>9, <1>10, <1>11

LEMMA LoneDecide ==
  ASSUME Lone, DeskTyped, ThreadsTyped, LoneInv, NEW t \in Threads, Decide(t)
  PROVE  LoneInv'
<1>1. /\ local[t] \in Locals /\ Knows("decide", local[t], file, position)
      /\ file' = file /\ position' = position /\ working' = {} /\ ExitedAreClosed(file')
  BY LocalTyped DEF Decide, LoneInv, broker
<1>2. local[t].op = "exits" /\ ~local[t].sent
  BY <1>1 DEF Knows, Orderly, OfOp, Saving
<1>3. PICK label \in {"positions", "each"} : Become(t, label, local[t])
  BY DEF Decide
<1>4. Orderly(label, local[t]) /\ KnowsPositions(label, local[t], position) /\ KnowsLegs(label, local[t], position)
  BY <1>2 DEF Orderly, OfOp, Saving, Loops, KnowsPositions, KnowsLegs
<1>5. KnowsRows(label, local[t], file) /\ SavesWell(label, local[t], file, position)
  BY <1>2 DEF KnowsRows, SavesWell, Saving, Entering
<1>6. Knows(label, local[t], file', position')
  BY <1>1, <1>4, <1>5 DEF Knows, Content
<1> QED BY <1>1, <1>3, <1>6, Goes DEF Labels

LEMMA LoneLoopEnds ==
  ASSUME Lone, DeskTyped, ThreadsTyped, LoneInv, NEW t \in Threads, LoopEnds(t)
  PROVE  LoneInv'
<1> DEFINE m == [local[t] EXCEPT !.syms = Orphans(local[t].pos, local[t].seen)]
           n == [local[t] EXCEPT !.syms = Orphans(local[t].pos, file), !.seen = file]
<1>1. /\ local[t] \in Locals /\ Knows("each", local[t], file, position) /\ local[t].todo = {}
      /\ file' = file /\ position' = position /\ working' = {} /\ ExitedAreClosed(file')
  BY LocalTyped DEF LoopEnds, LoneInv, broker
<1>2. ~local[t].sent /\ (local[t].op \in {"adopt", "link"} => local[t].pos = position)
  BY <1>1 DEF Knows, Orderly, Saving, KnowsPositions, Knowing
<1>3. ASSUME NEW k \in {m, n} PROVE k.op = local[t].op /\ k.pos = local[t].pos /\ k.todo = {} /\ ~k.sent
  BY <1>1, <1>2 DEF Locals
<1>4. \/ Become(t, "idle", local[t])
      \/ \E k \in {m, n} : local[t].op \in {"adopt", "link"} /\ Become(t, "link", k)
  BY DEF LoopEnds
<1> HIDE DEF m, n
<1>5. CASE Become(t, "idle", local[t])
  BY <1>1, <1>5, LoneIdle
<1>6. ASSUME NEW k \in {m, n}, local[t].op \in {"adopt", "link"}, Become(t, "link", k)
      PROVE  LoneInv'
  <2>1. Orderly("link", k) /\ KnowsPositions("link", k, position)
    BY <1>2, <1>3, <1>6 DEF Orderly, OfOp, Saving, KnowsPositions
  <2>2. KnowsLegs("link", k, position) /\ KnowsRows("link", k, file) /\ SavesWell("link", k, file, position)
    BY <1>3, <1>6 DEF KnowsLegs, KnowsRows, SavesWell, Saving, Entering
  <2>3. Knows("link", k, file', position')
    BY <1>1, <2>1, <2>2 DEF Knows, Content
  <2> QED BY <1>1, <1>6, <2>3, Goes DEF Labels
<1> QED BY <1>4, <1>5, <1>6

LEMMA LinkedSettles == ASSUME NEW rec, rec \in Rows \cup {Absent}, NEW qty PROVE Settled(Merge(rec, Linked(qty))) /\ Linked(qty) # Closed
BY DEF Settled, Merge, Linked, Rows, Absent, Closed

LEMMA LinkedEither == ASSUME NEW qty \in Int PROVE Linked(qty) \in {Linked(-1), Linked(1)}
<1>1. CASE qty < 0
  <2>1. Linked(qty) = Linked(-1)
    BY <1>1 DEF Linked
  <2> QED BY <2>1
<1>2. CASE ~(qty < 0)
  <2>1. Linked(qty) = Linked(1)
    BY <1>2 DEF Linked
  <2> QED BY <2>1
<1> QED BY <1>1, <1>2

LEMMA LoneLink ==
  ASSUME Lone, DeskTyped, ThreadsTyped, LoneInv, NEW t \in Threads, NEW s \in Symbols, Link(t, s)
  PROVE  LoneInv'
<1> DEFINE l == [local[t] EXCEPT !.syms = @ \ {s}]
           p == Linked(l.pos[s])
           m(i) == [l EXCEPT !.item = i, !.save = "add", !.patch = p, !.then = "linked"]
<1>1. /\ local[t] \in Locals /\ Knows("link", local[t], file, position)
      /\ file' = file /\ position' = position /\ working' = {} /\ ExitedAreClosed(file')
  BY LocalTyped DEF Link, LoneInv, broker
<1>2. /\ l \in Locals /\ l.op = local[t].op /\ l.pos = local[t].pos /\ l.seen = local[t].seen
      /\ l.todo = local[t].todo /\ l.sent = local[t].sent
  BY <1>1 DEF Locals
<1>3. /\ l.op \in {"adopt", "link"} /\ ~l.sent /\ l.pos = position
      /\ l.op = "link" => \A j \in l.todo : ~l.seen[j].exited
  BY <1>1, <1>2 DEF Knows, Orderly, OfOp, Saving, KnowsPositions, KnowsRows, Knowing
<1> HIDE DEF p, l
<1>4. ASSUME NEW i \in Items
      PROVE  /\ m(i).op = l.op /\ m(i).pos = l.pos /\ m(i).seen = l.seen /\ m(i).todo = l.todo
             /\ m(i).sent = l.sent /\ m(i).save = "add" /\ m(i).patch = p /\ m(i).then = "linked"
  BY <1>2 DEF Locals
<1>5. p \in {Linked(-1), Linked(1)}
  <2>1. l.pos[s] \in Int
    BY <1>2 DEF Locals
  <2> QED BY <2>1, LinkedEither DEF p
<1>6. \/ \E i \in Items : Update(t, l, i, p, "link")
      \/ \E i \in Items : Become(t, "load", m(i))
      \/ Become(t, "link", l)
  BY DEF Link, p, l
<1> HIDE DEF m
<1>7. OfOp("link", l.op) /\ OfOp("linked", l.op) /\ ~Entering(l)
  BY <1>3 DEF OfOp, Entering
<1>8. ASSUME NEW i \in Items, Update(t, l, i, p, "link") PROVE LoneInv'
  <2>1. file[i] \in Rows \cup {Absent}
    BY DEF DeskTyped, Files
  <2> QED BY <1>1, <1>2, <1>3, <1>5, <1>7, <1>8, <2>1, LinkedSettles, GoesSaving DEF Thens
<1>9. ASSUME NEW i \in Items, Become(t, "load", m(i)) PROVE LoneInv'
  <2>1. Orderly("load", m(i)) /\ KnowsPositions("load", m(i), position) /\ KnowsLegs("load", m(i), position)
    BY <1>3, <1>4, <1>7 DEF Orderly, OfOp, Saving, KnowsPositions, KnowsLegs
  <2>2. KnowsRows("load", m(i), file) /\ SavesWell("load", m(i), file, position)
    <3>1. p # Closed
      BY <1>5, LinkedSettles
    <3> QED BY <1>3, <1>4, <1>5, <3>1 DEF KnowsRows, SavesWell, Saving, Entering
  <2>3. Knows("load", m(i), file', position')
    BY <1>1, <2>1, <2>2 DEF Knows, Content
  <2> QED BY <1>1, <1>9, <2>3, Goes DEF Labels
<1>10. CASE Become(t, "link", l)
  <2>1. Orderly("link", l) /\ KnowsPositions("link", l, position) /\ KnowsLegs("link", l, position)
    BY <1>3, <1>7 DEF Orderly, Saving, KnowsPositions, KnowsLegs
  <2>2. KnowsRows("link", l, file) /\ SavesWell("link", l, file, position)
    BY <1>3 DEF KnowsRows, SavesWell, Saving, Entering
  <2>3. Knows("link", l, file', position')
    BY <1>1, <2>1, <2>2 DEF Knows, Content
  <2> QED BY <1>1, <1>10, <2>3, Goes DEF Labels
<1> QED BY <1>6, <1>8, <1>9, <1>10

LEMMA LoneLinking ==
  ASSUME Lone, DeskTyped, ThreadsTyped, LoneInv, NEW t \in Threads, Linking(t)
  PROVE  LoneInv'
<1> DEFINE l == local[t]
<1>1. /\ l \in Locals /\ Knows(pc[t], l, file, position) /\ Fits(pc[t], l)
      /\ file' = file /\ position' = position /\ working' = {} /\ ExitedAreClosed(file')
  BY LocalTyped DEF Linking, LoneInv, broker
<1> HIDE DEF l
<1>2. CASE pc[t] = "linked" /\ Update(t, l, l.item, l.patch, "link")
  <2>1. /\ l.op \in {"adopt", "link"} /\ ~l.sent /\ l.pos = position /\ l.item \in Items
        /\ l.op = "link" => \A j \in l.todo : ~l.seen[j].exited
        /\ l.patch \in {Linked(-1), Linked(1)}
    BY <1>1, <1>2 DEF Knows, Orderly, OfOp, Saving, KnowsPositions, KnowsRows, SavesWell, Knowing, Fits
  <2>2. file[l.item] \in Rows \cup {Absent}
    BY <2>1 DEF DeskTyped, Files
  <2>3. Settled(Merge(file[l.item], l.patch)) /\ l.patch # Closed
    BY <2>1, <2>2, LinkedSettles
  <2>4. OfOp("link", l.op) /\ ~Entering(l)
    BY <2>1 DEF OfOp, Entering
  <2> QED BY <1>1, <1>2, <2>1, <2>3, <2>4, GoesSaving DEF Thens
<1>3. CASE Become(t, "idle", l)
  BY <1>1, <1>3, LoneIdle
<1> QED BY <1>2, <1>3 DEF Linking, l

LEMMA LoneOrder ==
  ASSUME Lone, DeskTyped, ThreadsTyped, LoneInv, NEW t \in Threads, NEW s \in Symbols,
         OrderAcked(t, s) \/ OrderRaises(t, s)
  PROVE  LoneInv'
<1> DEFINE l == [local[t] EXCEPT !.syms = @ \ {s}, !.sent = Entering(local[t])]
           m == [local[t] EXCEPT !.sent = Entering(local[t])]
           i == local[t].item
<1>1. /\ local[t] \in Locals /\ Knows("order", local[t], file, position) /\ i \in Items
      /\ s \in local[t].syms /\ ExitedAreClosed(file) /\ working = {} /\ file' = file
  BY LocalTyped DEF OrderAcked, OrderRaises, LoneInv, Fits
<1>2. /\ l.op = local[t].op /\ l.item = i /\ l.syms = local[t].syms \ {s} /\ l.todo = local[t].todo
      /\ m.op = local[t].op
      /\ l \in Locals /\ m \in Locals /\ (l.sent <=> Entering(local[t]))
  <2>1. PICK e \in {TRUE, FALSE} : e = Entering(local[t])
    <3>1. Entering(local[t]) = TRUE \/ Entering(local[t]) = FALSE
      BY DEF Entering
    <3> QED BY <3>1
  <2>2. /\ l = [local[t] EXCEPT !.syms = @ \ {s}, !.sent = e]
        /\ m = [local[t] EXCEPT !.sent = e]
    BY <2>1
  <2> HIDE DEF l, m
  <2> QED BY <1>1, <2>1, <2>2 DEF Locals
<1>3. /\ local[t].op \in {"activate", "buy", "sell", "close", "exits"}
      /\ local[t].syms \subseteq LegsOf[i]
      /\ Entering(local[t]) \/ local[t].pos[s] = position[s]
      /\ Entering(local[t]) => file[i].status \in Enterable
  BY <1>1 DEF Knows, Orderly, OfOp, KnowsLegs, KnowsRows, Content
<1>4. LegsOf[i] = {s} /\ l.syms = {}
  BY <1>1, <1>2, <1>3 DEF Lone
<1>5. Accept(s, Quantity(local[t], s)) => working' = {} /\ (~Entering(local[t]) => position'[s] = 0)
  BY <1>1, <1>3 DEF Accept, Lone, Quantity, DeskTyped
<1>6. working' = {} /\ ExitedAreClosed(file')
  BY <1>1, <1>5 DEF OrderAcked, OrderRaises, broker
<1>7. CASE OrderAcked(t, s)
  <2>1. Accept(s, Quantity(local[t], s)) /\ Update(t, l, i, IF Entering(l) THEN Entered ELSE Closed, IF l.op = "exits" THEN "each" ELSE "idle")
    BY <1>2, <1>4, <1>7 DEF OrderAcked
  <2> HIDE DEF l
  <2>2. file[i] \in Rows \cup {Absent} /\ Settled(file[i])
    BY <1>1 DEF DeskTyped, Files, ExitedAreClosed
  <2>3. OfOp("each", "exits") /\ OfOp("idle", l.op) /\ (Entering(l) <=> Entering(local[t]))
    BY <1>2 DEF OfOp, Loops, Entering
  <2>4. CASE Entering(l)
    <3>1. Update(t, l, i, Entered, "idle") /\ l.op \notin Loops
      BY <1>2, <1>3, <2>1, <2>4 DEF Entering, Loops
    <3>2. Settled(Merge(file[i], Entered)) /\ Entered # Closed
      BY <1>3, <2>2, <2>3, <2>4 DEF Settled, Merge, Entered, Closed, Rows, Absent, Enterable
    <3> QED BY <1>1, <1>2, <1>3, <1>6, <2>3, <2>4, <3>1, <3>2, GoesSaving DEF Thens, Loops
  <2>5. CASE ~Entering(l)
    <3>1. \E then \in {"each", "idle"} : Update(t, l, i, Closed, then) /\ (then = "each" => l.op = "exits") /\ l.op \in {"close", "exits"}
      BY <1>2, <1>3, <2>1, <2>5 DEF Entering
    <3>2. Settled(Merge(file[i], Closed)) /\ \A x \in LegsOf[i] : position'[x] = 0
      BY <1>4, <1>5, <2>1, <2>2, <2>3, <2>5 DEF Settled, Merge, Closed, Rows, Absent
    <3> QED BY <1>1, <1>2, <1>6, <2>3, <2>5, <3>1, <3>2, GoesSaving DEF Thens
  <2> QED BY <2>4, <2>5
<1>8. CASE OrderRaises(t, s)
  <2>1. Raise(t, local[t]) \/ Raise(t, m)
    BY <1>8 DEF OrderRaises
  <2> HIDE DEF m
  <2> QED BY <1>1, <1>2, <1>3, <1>6, <2>1, LoneRaise
<1> QED BY <1>7, <1>8

LEMMA LoneLoad ==
  ASSUME Lone, DeskTyped, ThreadsTyped, LoneInv, NEW t \in Threads, Load(t)
  PROVE  LoneInv'
<1> DEFINE l == [local[t] EXCEPT !.rows = file]
<1>1. /\ local[t] \in Locals /\ Knows("load", local[t], file, position)
      /\ file' = file /\ position' = position /\ working' = {} /\ ExitedAreClosed(file')
  BY LocalTyped DEF Load, LoneInv, broker
<1>2. /\ l \in Locals /\ l.rows = file
      /\ l.op = local[t].op /\ l.seen = local[t].seen /\ l.pos = local[t].pos /\ l.todo = local[t].todo /\ l.syms = local[t].syms
      /\ l.item = local[t].item /\ l.save = local[t].save /\ l.patch = local[t].patch /\ l.then = local[t].then /\ l.sent = local[t].sent
  BY <1>1 DEF Locals, DeskTyped
<1>3. Become(t, "open", l) \/ Raise(t, l)
  BY DEF Load
<1> HIDE DEF l
<1>4. CASE Become(t, "open", l)
  <2>1. Orderly("open", l)
    BY <1>1, <1>2 DEF Knows, Orderly, OfOp, Saving
  <2>2. KnowsPositions("open", l, position) /\ KnowsLegs("open", l, position)
    BY <1>1, <1>2 DEF Knows, KnowsPositions, KnowsLegs, Saving, Knowing, Entering
  <2>3. KnowsRows("open", l, file) /\ SavesWell("open", l, file, position)
    BY <1>1, <1>2 DEF Knows, KnowsRows, SavesWell, Saving, Content, Entering
  <2>4. Knows("open", l, file', position')
    BY <1>1, <1>2, <2>1, <2>2, <2>3 DEF Knows, Content
  <2> QED BY <1>1, <1>4, <2>4, Goes DEF Labels
<1>5. CASE Raise(t, l)
  <2>1. /\ l.op \in {"reconcile", "adopt"} => l.pos = position
        /\ l.op \in {"view", "link"} => \A j \in l.todo : ~l.seen[j].exited
        /\ l.op = "scan" => \A j \in l.todo : file[j].status = "waiting"
    BY <1>1, <1>2 DEF Knows, KnowsPositions, KnowsRows, Content, Saving, Knowing
  <2> QED BY <1>1, <1>2, <1>5, <2>1, LoneRaise
<1> QED BY <1>3, <1>4, <1>5

LEMMA LoneOpen ==
  ASSUME Lone, DeskTyped, ThreadsTyped, LoneInv, NEW t \in Threads, Open(t)
  PROVE  LoneInv'
<1> DEFINE l == local[t]
<1>1. /\ l \in Locals /\ Knows("open", l, file, position)
      /\ file' = NoRows /\ position' = position /\ working' = {} /\ ExitedAreClosed(file')
  BY LocalTyped DEF Open, LoneInv, broker, NoRows, Absent, ExitedAreClosed, Settled
<1> HIDE DEF l
<1>2. Orderly("write", l)
  BY <1>1 DEF Knows, Orderly, OfOp, Saving
<1>3. KnowsPositions("write", l, position) /\ KnowsLegs("write", l, position)
  BY <1>1 DEF Knows, KnowsPositions, KnowsLegs, Saving, Knowing, Entering
<1>4. KnowsRows("write", l, l.rows) /\ SavesWell("write", l, l.rows, position)
  BY <1>1 DEF Knows, KnowsRows, SavesWell, Saving, Content, Entering
<1>5. Knows("write", l, file', position')
  BY <1>1, <1>2, <1>3, <1>4 DEF Knows, Content
<1> QED BY <1>1, <1>5, Goes DEF Labels, Open, l

LEMMA LoneWrite ==
  ASSUME Lone, DeskTyped, ThreadsTyped, LoneInv, NEW t \in Threads, Write(t)
  PROVE  LoneInv'
<1> DEFINE l == local[t]
           m == [l EXCEPT !.rows = NoRows, !.sent = FALSE]
           new == [status |-> "waiting", signal |-> "none", exited |-> FALSE]
           merged == Merge(l.rows[l.item], l.patch)
<1>1. /\ l \in Locals /\ Fits("write", l) /\ Knows("write", l, file, position)
      /\ position' = position /\ working' = {}
  BY LocalTyped DEF Write, LoneInv, broker
<1>2. Become(t, l.then, m) /\ file' = [l.rows EXCEPT ![l.item] = CASE l.save = "add" -> new [] l.save = "remove" -> Absent [] OTHER -> merged]
  BY DEF Write
<1>3. /\ m.op = l.op /\ m.pos = l.pos /\ m.seen = l.seen /\ m.todo = l.todo /\ m.syms = l.syms /\ m.item = l.item
      /\ m.patch = l.patch /\ ~m.sent
  BY <1>1 DEF Locals
<1>4. l.item \in Items /\ l.rows \in Files /\ l.patch \in Patches /\ l.then \in Thens
  BY <1>1 DEF Fits, Saving, Locals, Thens
<1> HIDE DEF l, m
<1>5. /\ ExitedAreClosed(l.rows) /\ Orderly("write", l) /\ KnowsPositions("write", l, position)
      /\ KnowsLegs("write", l, position) /\ KnowsRows("write", l, l.rows) /\ SavesWell("write", l, l.rows, position)
  BY <1>1 DEF Knows, Content
<1>6. l.save = "update" => l.rows[l.item] # Absent /\ l.rows[l.item] \in Rows
  BY <1>1, <1>4 DEF Fits, Files
<1>7. PICK rec : /\ file' = [l.rows EXCEPT ![l.item] = rec] /\ Settled(rec)
                 /\ l.save = "update" => rec = merged
  <2> HIDE DEF merged
  <2>1. CASE l.save = "update"
    <3>1. Settled(merged)
      BY <1>5, <1>6, <2>1 DEF SavesWell, Saving, merged
    <3> QED BY <1>2, <2>1, <3>1
  <2>2. CASE l.save # "update"
    <3>1. Settled(new) /\ Settled(Absent) /\ l.save \in {"add", "remove"}
      BY <1>5, <2>2 DEF Settled, Absent, Orderly, Saving
    <3> HIDE DEF new
    <3> QED BY <1>2, <2>2, <3>1
  <2> QED BY <2>1, <2>2
<1>8. /\ file'[l.item] = rec /\ \A j \in Items \ {l.item} : file'[j] = l.rows[j]
  BY <1>4, <1>7 DEF Files
<1>9. ExitedAreClosed(file')
  BY <1>5, <1>7, <1>8 DEF ExitedAreClosed
<1>10. l.then = "order" => rec.status \in Enterable
  BY <1>4, <1>5, <1>6, <1>7 DEF Orderly, SavesWell, Saving, Merge, Rows
<1>11. Orderly(l.then, m) /\ KnowsPositions(l.then, m, position) /\ KnowsLegs(l.then, m, position)
  BY <1>3, <1>4, <1>5 DEF Orderly, OfOp, KnowsPositions, KnowsLegs, Saving, Knowing, Thens, Entering
<1>12. KnowsRows(l.then, m, file')
  <2>1. l.op \in {"view", "link"} => \A j \in l.todo : ~l.seen[j].exited
    BY <1>5 DEF KnowsRows
  <2>2. l.op = "scan" => \A j \in l.todo : file'[j].status = "waiting"
    BY <1>1, <1>5, <1>8 DEF KnowsRows, Saving, Locals
  <2> QED BY <1>3, <1>4, <1>8, <1>10, <2>1, <2>2 DEF KnowsRows, Saving, Thens
<1>13. SavesWell(l.then, m, file', position)
  BY <1>3, <1>4, <1>5 DEF SavesWell, Saving, Thens
<1>14. Knows(l.then, m, file', position')
  BY <1>1, <1>4, <1>11, <1>12, <1>13 DEF Knows, Content, Thens
<1> QED BY <1>1, <1>2, <1>4, <1>9, <1>14, Goes DEF Labels, Thens

LEMMA LoneSteps ==
  ASSUME Lone, DeskTyped, ThreadsTyped, LoneInv, NEW t \in Threads, Step(t)
  PROVE  LoneInv'
<1>1. CASE ReadRow(t) \/ ReadRows(t)
  BY <1>1, LoneReadRow, LoneReadRows
<1>2. CASE Positions(t) \/ PositionsFail(t) \/ Orders(t) \/ OrdersFail(t)
  BY <1>2, LonePositions, LoneAnswer
<1>3. CASE (\E i \in Items : Visit(t, i)) \/ Decide(t) \/ LoopEnds(t)
  BY <1>3, LoneVisit, LoneDecide, LoneLoopEnds
<1>4. CASE Linking(t) \/ \E s \in Symbols : Link(t, s)
  BY <1>4, LoneLinking, LoneLink
<1>5. CASE \E s \in Symbols : OrderAcked(t, s) \/ OrderRaises(t, s)
  BY <1>5, LoneOrder
<1>6. CASE Load(t) \/ Open(t) \/ Write(t)
  BY <1>6, LoneLoad, LoneOpen, LoneWrite
<1> QED BY <1>1, <1>2, <1>3, <1>4, <1>5, <1>6 DEF Step

(* At rest a thread remembers no position. *)
LEMMA KnownAtRest ==
  ASSUME NEW l, NEW f, NEW pos, NEW other, Knows("idle", l, f, pos)
  PROVE  Knows("idle", l, f, other)
BY DEF Knows, KnowsPositions, KnowsLegs, SavesWell, Saving, Knowing

LEMMA LoneSquareOff ==
  ASSUME Lone, DeskTyped, ThreadsTyped, LoneInv, NEW s \in Symbols, SquareOff(s)
  PROVE  LoneInv'
<1>1. \A t \in Threads : pc[t] = "idle"
  BY DEF SquareOff, Lone
<1>2. pc' = pc /\ local' = local /\ file' = file /\ working' = {}
  BY DEF SquareOff, LoneInv
<1>3. \A t \in Threads : Knows(pc'[t], local'[t], file', position')
  BY <1>1, <1>2, KnownAtRest DEF LoneInv
<1>4. \A t \in Threads : Knows(pc[t], local[t], file, position)'
  BY <1>3 DEF Knows, Content, Orderly, OfOp, KnowsPositions, KnowsLegs, KnowsRows, SavesWell, Entering, Settled, ExitedAreClosed
<1>5. ExitedAreClosed(file)'
  BY <1>2 DEF LoneInv, ExitedAreClosed, Settled
<1> QED BY <1>2, <1>4, <1>5 DEF LoneInv

LEMMA LoneCrash ==
  ASSUME Lone, DeskTyped, ThreadsTyped, LoneInv, Crash
  PROVE  LoneInv'
<1>1. \A t \in Threads : Knows(pc'[t], local'[t], file', position')
  BY IdleKnows DEF Crash
<1>2. \A t \in Threads : Knows(pc[t], local[t], file, position)'
  BY <1>1 DEF Knows, Content, Orderly, OfOp, KnowsPositions, KnowsLegs, KnowsRows, SavesWell, Entering, Settled, ExitedAreClosed
<1>3. ExitedAreClosed(file)' /\ working' = {}
  BY DEF Crash, broker, LoneInv, ExitedAreClosed, Settled
<1> QED BY <1>2, <1>3 DEF LoneInv

LEMMA LoneInit == Init => LoneInv
<1> SUFFICES ASSUME Init PROVE LoneInv
  OBVIOUS
<1>1. ExitedAreClosed(file) /\ working = {}
  BY DEF Init, ExitedAreClosed, Settled, NoRows, Absent
<1>2. \A t \in Threads : Knows(pc[t], local[t], file, position)
  BY IdleKnows DEF Init
<1> QED BY <1>1, <1>2 DEF LoneInv

LEMMA LoneNext == Lone => (TypeInv /\ LoneInv /\ [Next]_vars => LoneInv')
<1> SUFFICES ASSUME Lone, DeskTyped, ThreadsTyped, LoneInv, [Next]_vars PROVE LoneInv'
  BY TypeParts
<1>1. CASE \E t \in Threads, op \in Loops \cup Singles, i \in Items \cup {NoItem} : op \in Ops[t] /\ Begin(t, op, i)
  BY <1>1, LoneBegin
<1>2. CASE \E t \in Threads : Step(t)
  BY <1>2, LoneSteps
<1>3. CASE \E o \in working : Settle(o)
  BY <1>3 DEF LoneInv
<1>4. CASE (\E s \in Symbols : SquareOff(s)) \/ Crash
  BY <1>4, LoneSquareOff, LoneCrash
<1>5. CASE UNCHANGED vars
  <2>1. \A t \in Threads : Knows(pc'[t], local'[t], file', position')
    BY <1>5 DEF vars, broker, LoneInv
  <2>2. \A t \in Threads : Knows(pc[t], local[t], file, position)'
    BY <2>1 DEF Knows, Content, Orderly, OfOp, KnowsPositions, KnowsLegs, KnowsRows, SavesWell, Entering, Settled, ExitedAreClosed
  <2> QED BY <1>5, <2>2 DEF vars, broker, LoneInv, ExitedAreClosed, Settled
<1>6. \A t \in Threads : Ops[t] \subseteq Loops \cup Singles
  BY BoundsAssumption
<1> QED BY <1>1, <1>2, <1>3, <1>4, <1>5, <1>6 DEF Next

LEMMA AlwaysKnown == ASSUME Lone PROVE Spec => [](TypeInv /\ LoneInv)
<1>1. TypeInv /\ LoneInv /\ [Next]_vars => LoneInv'
  BY LoneNext
<1> QED BY <1>1, LoneInit, AlwaysTyped, PTL DEF Spec

(* A row is saved as closed only when its leg is flat, whatever reads fail,
   orders are refused or saves a crash interrupts: with one thread at work every
   such save knows the broker's position, because it was read in the same
   operation and nothing has traded since. *)
THEOREM ClosedRowsFlat == ASSUME Lone PROVE Spec => ClosedRowsAreFlat
<1>1. TypeInv /\ LoneInv =>
        \A t \in Threads : pc[t] = "write" /\ local[t].patch = Closed /\ local[t].op # "unlink"
                             => \A s \in LegsOf[local[t].item] : position[s] = 0
  BY DEF LoneInv, Knows, SavesWell, Saving
<1>2. TypeInv /\ LoneInv =>
        \A t \in Threads : Write(t) /\ local[t].patch = Closed /\ local[t].op # "unlink"
                             => \A s \in LegsOf[local[t].item] : position[s] = 0
  BY <1>1 DEF Write
<1> QED BY <1>2, AlwaysKnown, PTL DEF ClosedRowsAreFlat

-----------------------------------------------------------------------------
(* A row enters once.  The step of the one thread leads to a label where a row
   that can be entered is flat. *)
LEMMA OwnGoes ==
  ASSUME Lone, ThreadsTyped, NEW t \in Threads, NEW label \in Labels \ {"idle"}, NEW l, Become(t, label, l),
         HeldOnce(position', used', lost'), Enters(label, l, file', position', used', lost')
  PROVE  OwnInv'
<1>1. pc'[t] = label /\ local'[t] = l
  BY DEF Become, ThreadsTyped
<1>2. \A u \in Threads : Enters(pc'[u], local'[u], file', position', used', lost')
  BY <1>1 DEF Lone
<1>3. \A u \in Threads : Enters(pc[u], local[u], file, position, used, lost)'
  BY <1>2 DEF Enters, FlatUnless, Flight, EntersFlat, LinksHeld, Content, Entering, Merge
<1>4. HeldOnce(position, used, lost)'
  BY DEF HeldOnce
<1> QED BY <1>3, <1>4 DEF OwnInv

LEMMA OwnRests ==
  ASSUME Lone, ThreadsTyped, NEW t \in Threads, NEW l, Become(t, "idle", l),
         HeldOnce(position', used', lost'), FlatUnless(file', position', used', lost')
  PROVE  OwnInv'
<1>1. pc'[t] = "idle" /\ local'[t] = Blank
  BY DEF Become, ThreadsTyped
<1>2. lost' \cup Flight(Blank) = lost'
  BY DEF Flight, Blank
<1>3. Enters("idle", Blank, file', position', used', lost')
  BY <1>2 DEF Enters, EntersFlat, LinksHeld, Blank, Saving, Entering
<1>4. \A u \in Threads : Enters(pc'[u], local'[u], file', position', used', lost')
  BY <1>1, <1>3 DEF Lone
<1>5. \A u \in Threads : Enters(pc[u], local[u], file, position, used, lost)'
  BY <1>4 DEF Enters, FlatUnless, Flight, EntersFlat, LinksHeld, Content, Entering, Merge
<1>6. HeldOnce(position, used, lost)'
  BY DEF HeldOnce
<1> QED BY <1>5, <1>6 DEF OwnInv

LEMMA OwnSaving ==
  ASSUME Lone, ThreadsTyped, NEW t \in Threads, NEW l \in Locals, NEW i \in Items, NEW patch, NEW then \in Thens,
         Update(t, l, i, patch, then), HeldOnce(position', used', lost'),
         FlatUnless(file', position', used', lost' \cup Flight(l)), l.sent => l.item = i,
         then = "order" /\ i \notin lost' => position'[KeyOf[i]] = 0,
         i \notin lost' /\ Merge(file'[i], patch).status \in {"waiting", "triggered"} => position'[KeyOf[i]] = 0,
         l.op \in {"adopt", "link"} => \A s \in l.syms : position'[s] # 0
  PROVE  OwnInv'
<1> DEFINE m == [l EXCEPT !.item = i, !.save = "update", !.patch = patch, !.then = then]
<1>1. /\ m.item = i /\ m.save = "update" /\ m.patch = patch /\ m.then = then
      /\ m.op = l.op /\ m.syms = l.syms /\ m.sent = l.sent
  BY DEF Locals
<1>2. Become(t, "load", m)
  BY DEF Update
<1> HIDE DEF m
<1>3. FlatUnless(file', position', used', lost' \cup Flight(m))
  BY <1>1 DEF Flight
<1>4. EntersFlat("load", m, file', position', used', lost') /\ LinksHeld("load", m, position')
  BY <1>1 DEF EntersFlat, LinksHeld, Saving
<1>5. Enters("load", m, file', position', used', lost')
  BY <1>3, <1>4 DEF Enters, Content
<1> QED BY <1>2, <1>5, OwnGoes DEF Labels

(* At a label where nothing is saved, what is known shrinks to this. *)
LEMMA OwnQuiet ==
  ASSUME Lone, ThreadsTyped, NEW t \in Threads, NEW label \in Labels \ Saving, NEW l, Become(t, label, l),
         HeldOnce(position', used', lost'), FlatUnless(file', position', used', lost'), ~l.sent,
         label = "order" /\ Entering(l) /\ l.item \notin lost' => position'[KeyOf[l.item]] = 0,
         l.op \in {"adopt", "link"} =>
            /\ label \in {"read", "positions", "orders"} => l.syms = {}
            /\ label \in {"each", "link", "linked"} => \A s \in l.syms : position'[s] # 0
  PROVE  OwnInv'
<1>1. CASE label = "idle"
  BY <1>1, OwnRests
<1>2. CASE label # "idle"
  <2>1. lost' \cup Flight(l) = lost'
    BY DEF Flight
  <2>2. EntersFlat(label, l, file', position', used', lost') /\ LinksHeld(label, l, position')
    BY DEF EntersFlat, LinksHeld, Saving
  <2>3. Enters(label, l, file', position', used', lost')
    BY <2>1, <2>2 DEF Enters, Content, Saving
  <2> QED BY <1>2, <2>3, OwnGoes
<1> QED BY <1>1, <1>2

LEMMA OwnRaise ==
  ASSUME Lone, ThreadsTyped, NEW t \in Threads, NEW l \in Locals, Raise(t, l),
         HeldOnce(position', used', lost'), FlatUnless(file', position', used', lost'),
         l.op = "adopt" => \A s \in l.syms : position'[s] # 0
  PROVE  OwnInv'
<1> DEFINE m == [l EXCEPT !.syms = IF l.op = "exits" THEN {} ELSE @, !.sent = FALSE]
<1>1. m.op = l.op /\ ~m.sent /\ (l.op # "exits" => m.syms = l.syms)
  BY DEF Locals
<1>2. PICK label : /\ Become(t, label, m) /\ label \in {"each", "link", "idle"}
                   /\ l.op \notin {"scan", "exits", "reconcile", "adopt"} => label = "idle"
  BY DEF Raise
<1> HIDE DEF m
<1>3. CASE label = "idle"
  BY <1>2, <1>3, OwnRests
<1>4. CASE label # "idle"
  BY <1>1, <1>2, <1>4, OwnQuiet DEF Labels, Saving
<1> QED BY <1>3, <1>4

(* What the thread that takes a step knew before. *)
LEMMA OwnBefore ==
  ASSUME TypeInv, LoneInv, OwnInv, NEW t \in Threads
  PROVE  /\ Knows(pc[t], local[t], file, position) /\ Enters(pc[t], local[t], file, position, used, lost)
         /\ local[t] \in Locals /\ Fits(pc[t], local[t]) /\ HeldOnce(position, used, lost)
         /\ pc[t] \notin Saving => ~local[t].sent /\ FlatUnless(file, position, used, lost)
<1>1. /\ Knows(pc[t], local[t], file, position) /\ Enters(pc[t], local[t], file, position, used, lost)
      /\ local[t] \in Locals /\ Fits(pc[t], local[t]) /\ HeldOnce(position, used, lost)
  BY TypeParts, LocalTyped DEF LoneInv, OwnInv
<1>2. ASSUME pc[t] \notin Saving PROVE ~local[t].sent /\ FlatUnless(file, position, used, lost)
  <2>1. ~local[t].sent
    BY <1>1, <1>2 DEF Knows, Orderly
  <2>2. lost \cup Flight(local[t]) = lost
    BY <2>1 DEF Flight
  <2> QED BY <1>1, <2>1, <2>2 DEF Enters
<1> QED BY <1>1, <1>2

LEMMA OwnBegin ==
  ASSUME Lone, TypeInv, LoneInv, OwnInv, NEW t \in Threads, NEW op \in Loops \cup Singles, NEW i \in Items \cup {NoItem}, Begin(t, op, i)
  PROVE  OwnInv'
<1> DEFINE label == CASE op \in {"add", "remove"} -> "load" [] op \in {"view", "link"} -> "positions" [] OTHER -> "read"
           m == [Blank EXCEPT !.op = op, !.item = i, !.save = IF op \in Singles THEN op ELSE "update"]
<1>1. m.op = op /\ m.item = i /\ m.then = "idle" /\ m.syms = {} /\ ~m.sent /\ (op \in {"add", "remove"} => m.save = op)
  BY DEF Blank, Singles
<1>2. label \in {"load", "positions", "read"} /\ (label = "load" <=> op \in {"add", "remove"})
  OBVIOUS
<1>3. /\ Become(t, label, m) /\ file' = file /\ position' = position /\ lost' = lost /\ used \subseteq used'
      /\ op = "add" => i \in used' /\ i \notin used /\ i \in Items
  BY DEF Begin, broker, Loops
<1> HIDE DEF m, label
<1>4. HeldOnce(position, used, lost) /\ FlatUnless(file, position, used, lost)
  BY OwnBefore DEF Begin, Saving
<1>5. HeldOnce(position', used', lost') /\ FlatUnless(file', position', used', lost')
  BY <1>3, <1>4 DEF HeldOnce, FlatUnless
<1>6. CASE label = "load"
  <2>1. EntersFlat("load", m, file', position', used', lost') /\ LinksHeld("load", m, position')
    BY <1>1, <1>2, <1>3, <1>4, <1>6 DEF EntersFlat, LinksHeld, HeldOnce, Saving
  <2>2. lost' \cup Flight(m) = lost'
    BY <1>1 DEF Flight
  <2>3. Enters("load", m, file', position', used', lost')
    BY <1>5, <2>1, <2>2 DEF Enters, Content
  <2> QED BY <1>3, <1>5, <1>6, <2>3, OwnGoes, TypeParts DEF Labels
<1>7. CASE label # "load"
  BY <1>1, <1>2, <1>3, <1>5, <1>7, OwnQuiet, TypeParts DEF Labels, Saving
<1> QED BY <1>6, <1>7

(* Steps that leave file, positions and ids alone. *)
LEMMA OwnSame ==
  ASSUME HeldOnce(position, used, lost), FlatUnless(file, position, used, lost),
         file' = file, position' = position, used' = used, lost' = lost
  PROVE  HeldOnce(position', used', lost') /\ FlatUnless(file', position', used', lost')
OBVIOUS

LEMMA OwnReadRow ==
  ASSUME Lone, TypeInv, LoneInv, OwnInv, NEW t \in Threads, ReadRow(t)
  PROVE  OwnInv'
<1> DEFINE l == [local[t] EXCEPT !.seen = file]
           m == [l EXCEPT !.syms = LegsOf[l.item]]
<1>1. /\ local[t] \in Locals /\ Fits("read", local[t]) /\ local[t].op \in Singles /\ ~local[t].sent
      /\ HeldOnce(position, used, lost) /\ FlatUnless(file, position, used, lost)
  BY OwnBefore DEF ReadRow, Saving
<1>2. /\ l \in Locals /\ l.op = local[t].op /\ l.item = local[t].item /\ ~l.sent /\ l.item \in Items
      /\ m.op = local[t].op /\ m.item = local[t].item /\ ~m.sent /\ l.op \notin {"adopt", "link"}
  BY <1>1, TypeParts DEF Locals, DeskTyped, Fits, Singles
<1>3. file' = file /\ position' = position /\ used' = used /\ lost' = lost
  BY DEF ReadRow, broker
<1>4. HeldOnce(position', used', lost') /\ FlatUnless(file', position', used', lost')
  BY <1>1, <1>3, OwnSame
<1>5. \/ CanEnter(file[l.item]) /\ Become(t, "order", m)
      \/ Become(t, "positions", l) \/ Become(t, "idle", l)
      \/ \E patch \in {Forgotten, Closed} : Update(t, l, l.item, patch, "idle")
  BY <1>2 DEF ReadRow
<1> HIDE DEF l, m
<1>6. CASE CanEnter(file[l.item]) /\ Become(t, "order", m)
  <2>1. l.item \notin lost => position[KeyOf[l.item]] = 0
    BY <1>1, <1>2, <1>6 DEF CanEnter, FlatUnless
  <2> QED BY <1>2, <1>3, <1>4, <1>6, <2>1, OwnQuiet, TypeParts DEF Labels, Saving
<1>7. CASE Become(t, "positions", l) \/ Become(t, "idle", l)
  BY <1>2, <1>4, <1>7, OwnQuiet, TypeParts DEF Labels, Saving
<1>8. CASE \E patch \in {Forgotten, Closed} : Update(t, l, l.item, patch, "idle")
  <2>1. file[l.item] \in Rows \cup {Absent}
    BY <1>2, TypeParts DEF DeskTyped, Files
  <2>2. \A patch \in {Forgotten, Closed} : Merge(file[l.item], patch).status = "closed"
    BY <2>1 DEF Merge, Rows, Absent, Forgotten, Closed
  <2>3. lost' \cup Flight(l) = lost'
    BY <1>2 DEF Flight
  <2> QED BY <1>2, <1>3, <1>4, <1>8, <2>2, <2>3, OwnSaving, TypeParts DEF Thens
<1> QED BY <1>5, <1>6, <1>7, <1>8

LEMMA OwnReadRows ==
  ASSUME Lone, TypeInv, LoneInv, OwnInv, NEW t \in Threads, ReadRows(t)
  PROVE  OwnInv'
<1> DEFINE m(T) == [[local[t] EXCEPT !.seen = file] EXCEPT !.todo = T]
<1>1. /\ local[t] \in Locals /\ local[t].op \in Loops /\ ~local[t].sent
      /\ HeldOnce(position, used, lost) /\ FlatUnless(file, position, used, lost)
      /\ local[t].op \in {"adopt", "link"} => local[t].syms = {}
  <2>1. pc[t] = "read" /\ local[t].op \in Loops
    BY DEF ReadRows
  <2> QED BY <2>1, OwnBefore DEF Saving, Enters, LinksHeld
<1>2. HeldOnce(position', used', lost') /\ FlatUnless(file', position', used', lost')
  <2>1. file' = file /\ position' = position /\ used' = used /\ lost' = lost
    BY DEF ReadRows, broker
  <2> QED BY <1>1, <2>1, OwnSame
<1>3. ASSUME NEW T PROVE m(T).op = local[t].op /\ m(T).syms = local[t].syms /\ ~m(T).sent
  BY <1>1 DEF Locals
<1>4. \/ Become(t, "each", m(With(file, "waiting") \ Manual)) \/ Become(t, "each", m(With(file, "active")))
      \/ Become(t, "positions", m(With(file, "active")))
  BY <1>1 DEF ReadRows, Locals
<1> HIDE DEF m
<1>5. ASSUME NEW T, NEW label \in {"each", "positions"}, Become(t, label, m(T)) PROVE OwnInv'
  BY <1>1, <1>2, <1>3, <1>5, OwnQuiet, TypeParts DEF Labels, Saving
<1> QED BY <1>4, <1>5

LEMMA OwnTrigger ==
  ASSUME Lone, TypeInv, NEW t \in Threads, NEW l \in Locals, NEW side \in {"long", "short"}, Trigger(t, l, side),
         l.item \in Items, ~l.sent, l.op \in {"buy", "sell"}, l.pos = position, position' = position, file' = file,
         HeldOnce(position', used', lost'), FlatUnless(file', position', used', lost')
  PROVE  OwnInv'
<1> DEFINE m == [l EXCEPT !.syms = LegsOf[l.item]]
           p(status) == [signal |-> side, status |-> status]
           q == [signal |-> side]
<1>1. m \in Locals /\ m.item = l.item /\ m.op = l.op /\ ~m.sent
  BY ItemsAssumption DEF Locals
<1>2. file[l.item] \in Rows \cup {Absent}
  BY TypeParts DEF DeskTyped, Files
<1>3. lost' \cup Flight(l) = lost' /\ lost' \cup Flight(m) = lost'
  BY <1>1 DEF Flight
<1>4. Merge(file[l.item], q).status = file[l.item].status
  BY <1>2 DEF Merge, Rows, Absent
<1>5. \/ position[KeyOf[l.item]] = 0 /\ \E status \in {"active", "triggered"} : Update(t, m, l.item, p(status), "order")
      \/ Update(t, l, l.item, q, "idle")
      \/ Become(t, "idle", l)
  BY DEF Trigger
<1> HIDE DEF m, p, q
<1>6. CASE position[KeyOf[l.item]] = 0 /\ \E status \in {"active", "triggered"} : Update(t, m, l.item, p(status), "order")
  <2>1. PICK status \in {"active", "triggered"} : Update(t, m, l.item, p(status), "order")
    BY <1>6
  <2>2. p(status) \in Patches
    BY DEF p, Patches, Statuses, Signals
  <2> QED BY <1>1, <1>3, <1>6, <2>1, <2>2, OwnSaving, TypeParts DEF Thens
<1>7. CASE Update(t, l, l.item, q, "idle")
  <2>1. l.item \notin lost' /\ Merge(file[l.item], q).status \in {"waiting", "triggered"} => position[KeyOf[l.item]] = 0
    BY <1>4 DEF FlatUnless
  <2> QED BY <1>3, <1>7, <2>1, OwnSaving, TypeParts DEF Thens
<1>8. CASE Become(t, "idle", l)
  BY <1>8, OwnRests, TypeParts
<1> QED BY <1>5, <1>6, <1>7, <1>8

LEMMA OwnPositions ==
  ASSUME Lone, TypeInv, LoneInv, OwnInv, NEW t \in Threads, Positions(t)
  PROVE  OwnInv'
<1> DEFINE l == [local[t] EXCEPT !.pos = position]
           open == {s \in LegsOf[l.item] : position[s] # 0}
           m == [l EXCEPT !.syms = open]
<1>1. /\ local[t] \in Locals /\ Fits("positions", local[t]) /\ ~local[t].sent
      /\ HeldOnce(position, used, lost) /\ FlatUnless(file, position, used, lost)
      /\ local[t].op \in {"adopt", "link"} => local[t].syms = {}
  BY OwnBefore DEF Positions, Saving, Enters, LinksHeld
<1>2. l \in Locals /\ l.op = local[t].op /\ l.item = local[t].item /\ l.syms = local[t].syms /\ l.pos = position /\ ~l.sent
  BY <1>1, TypeParts DEF Locals, DeskTyped
<1>3. l.op \in {"buy", "sell"} => l.item \in Items
  BY <1>1, <1>2 DEF Fits, Singles
<1>4. file' = file /\ position' = position /\ used' = used
  BY DEF Positions, broker
<1>5. \/ Raise(t, l) /\ l.op \in {"close", "exits"}
      \/ l.op \in {"close", "exits"} /\ Become(t, "order", m) /\ lost' = lost
      \/ l.op \in {"buy", "sell"} /\ (Trigger(t, l, "long") \/ Trigger(t, l, "short")) /\ lost' = lost
      \/ l.op \in {"reconcile", "adopt", "view", "link"} /\ (Become(t, "orders", l) \/ Become(t, "read", l)) /\ lost' = lost
  BY DEF Positions
<1>6. m.op = l.op /\ ~m.sent
  BY <1>2 DEF Locals
<1>7. lost' = lost
  BY <1>2, <1>5 DEF Raise
<1>8. HeldOnce(position', used', lost') /\ FlatUnless(file', position', used', lost')
  BY <1>1, <1>4, <1>7, OwnSame
<1> HIDE DEF l, m
<1>9. CASE Raise(t, l) /\ l.op \in {"close", "exits"}
  BY <1>2, <1>8, <1>9, OwnRaise, TypeParts
<1>10. CASE l.op \in {"close", "exits"} /\ Become(t, "order", m)
  <2>1. ~Entering(m)
    BY <1>6, <1>10 DEF Entering
  <2> QED BY <1>6, <1>8, <1>10, <2>1, OwnQuiet, TypeParts DEF Labels, Saving
<1>11. CASE l.op \in {"buy", "sell"} /\ (Trigger(t, l, "long") \/ Trigger(t, l, "short"))
  BY <1>2, <1>3, <1>4, <1>8, <1>11, OwnTrigger
<1>12. CASE l.op \in {"reconcile", "adopt", "view", "link"} /\ (Become(t, "orders", l) \/ Become(t, "read", l))
  BY <1>1, <1>2, <1>8, <1>12, OwnQuiet, TypeParts DEF Labels, Saving
<1> QED BY <1>5, <1>9, <1>10, <1>11, <1>12

LEMMA OwnAnswer ==
  ASSUME Lone, TypeInv, LoneInv, OwnInv, NEW t \in Threads, PositionsFail(t) \/ Orders(t) \/ OrdersFail(t)
  PROVE  OwnInv'
<1> DEFINE o == [local[t] EXCEPT !.orders = {w.sym : w \in working}]
           n == [local[t] EXCEPT !.trusted = FALSE]
<1>1. /\ local[t] \in Locals /\ ~local[t].sent
      /\ HeldOnce(position, used, lost) /\ FlatUnless(file, position, used, lost)
      /\ local[t].op \in {"adopt", "link"} => local[t].syms = {}
  BY OwnBefore DEF PositionsFail, Orders, OrdersFail, Saving, Enters, LinksHeld
<1>2. HeldOnce(position', used', lost') /\ FlatUnless(file', position', used', lost')
  <2>1. file' = file /\ position' = position /\ used' = used /\ lost' = lost
    BY DEF PositionsFail, Orders, OrdersFail, broker
  <2> QED BY <1>1, <2>1, OwnSame
<1>3. ASSUME NEW m, m \in {local[t], o, n}
      PROVE  m.op = local[t].op /\ m.syms = local[t].syms /\ ~m.sent
  BY <1>1, <1>3 DEF Locals
<1>4. \E m \in {local[t], o, n}, label \in {"idle", "each"} : Become(t, label, m)
  BY DEF PositionsFail, Orders, OrdersFail
<1> HIDE DEF o, n
<1>5. ASSUME NEW m \in {local[t], o, n}, NEW label \in {"idle", "each"}, Become(t, label, m) PROVE OwnInv'
  BY <1>1, <1>2, <1>3, <1>5, OwnQuiet, TypeParts DEF Labels, Saving
<1> QED BY <1>4, <1>5

LEMMA OwnVisit ==
  ASSUME Lone, TypeInv, LoneInv, OwnInv, NEW t \in Threads, NEW i \in Items, Visit(t, i)
  PROVE  OwnInv'
<1> DEFINE m == [local[t] EXCEPT !.todo = @ \ {i}]
           p(side) == [status |-> "triggered", signal |-> side]
<1>1. /\ local[t] \in Locals /\ ~local[t].sent /\ i \in local[t].todo
      /\ HeldOnce(position, used, lost) /\ FlatUnless(file, position, used, lost)
      /\ local[t].op \in {"adopt", "link"} => \A s \in local[t].syms : position[s] # 0
      /\ local[t].op = "scan" => file[i].status = "waiting"
  BY OwnBefore DEF Visit, Saving, Enters, LinksHeld, Knows, KnowsRows, Content
<1>2. m \in Locals /\ m.op = local[t].op /\ m.syms = local[t].syms /\ ~m.sent
  BY <1>1 DEF Locals
<1>3. file' = file /\ position' = position /\ used' = used /\ lost' = lost
  BY DEF Visit, broker
<1>4. /\ HeldOnce(position', used', lost') /\ FlatUnless(file', position', used', lost')
      /\ lost' \cup Flight(m) = lost' /\ file[i] \in Rows \cup {Absent}
  BY <1>1, <1>2, <1>3, OwnSame, TypeParts DEF Flight, DeskTyped, Files
<1>5. \/ m.op = "scan" /\ \E side \in {"long", "short"} : Update(t, m, i, p(side), "each")
      \/ \E then \in {"decide", "each"} : Update(t, m, i, <<>>, then)
      \/ Update(t, m, i, Closed, "each")
      \/ Become(t, "each", m)
  BY <1>2 DEF Visit, ScanRow, ExitRow, ReconcileRow, CleanRow, SkipRow
<1> HIDE DEF m, p
<1>6. i \notin lost /\ file[i].status \in {"waiting", "triggered"} => position[KeyOf[i]] = 0
  BY <1>1 DEF FlatUnless
<1>7. CASE m.op = "scan" /\ \E side \in {"long", "short"} : Update(t, m, i, p(side), "each")
  <2>1. PICK side \in {"long", "short"} : Update(t, m, i, p(side), "each")
    BY <1>7
  <2>2. i \notin lost => position[KeyOf[i]] = 0
    BY <1>1, <1>2, <1>6, <1>7
  <2> QED BY <1>1, <1>2, <1>3, <1>4, <2>1, <2>2, OwnSaving, TypeParts DEF Thens
<1>8. CASE \E then \in {"decide", "each"} : Update(t, m, i, <<>>, then)
  <2>1. Merge(file[i], <<>>).status = file[i].status
    BY <1>4 DEF Merge, Rows, Absent
  <2> QED BY <1>1, <1>2, <1>3, <1>4, <1>6, <1>8, <2>1, OwnSaving, TypeParts DEF Thens
<1>9. CASE Update(t, m, i, Closed, "each")
  <2>1. Merge(file[i], Closed).status = "closed"
    BY <1>4 DEF Merge, Rows, Absent, Closed
  <2> QED BY <1>1, <1>2, <1>3, <1>4, <1>9, <2>1, OwnSaving, TypeParts DEF Thens
<1>10. CASE Become(t, "each", m)
  BY <1>1, <1>2, <1>3, <1>4, <1>10, OwnQuiet, TypeParts DEF Labels, Saving
<1> QED BY <1>5, <1>7, <1>8, <1>9, <1>10

LEMMA OwnLoop ==
  ASSUME Lone, TypeInv, LoneInv, OwnInv, NEW t \in Threads, Decide(t) \/ LoopEnds(t)
  PROVE  OwnInv'
<1> DEFINE m == [local[t] EXCEPT !.syms = Orphans(local[t].pos, local[t].seen)]
           n == [local[t] EXCEPT !.syms = Orphans(local[t].pos, file), !.seen = file]
<1>1. /\ local[t] \in Locals /\ ~local[t].sent
      /\ HeldOnce(position, used, lost) /\ FlatUnless(file, position, used, lost)
      /\ pc[t] = "each" /\ local[t].op \in {"adopt", "link"} => local[t].pos = position
      /\ pc[t] = "decide" => local[t].op = "exits"
  <2>1. pc[t] \in {"decide", "each"}
    BY DEF Decide, LoopEnds
  <2> QED BY <2>1, OwnBefore DEF Saving, Knowing, Knows, KnowsPositions, Orderly, OfOp
<1>2. HeldOnce(position', used', lost') /\ FlatUnless(file', position', used', lost') /\ position' = position
  <2>1. file' = file /\ position' = position /\ used' = used /\ lost' = lost
    BY DEF Decide, LoopEnds, broker
  <2> QED BY <1>1, <2>1, OwnSame
<1>3. ASSUME NEW k \in {m, n} PROVE k.op = local[t].op /\ ~k.sent /\ \A s \in k.syms : local[t].pos[s] # 0
  <2>1. ASSUME NEW f PROVE \A s \in Orphans(local[t].pos, f) : local[t].pos[s] # 0
    BY DEF Orphans
  <2>2. k.op = local[t].op /\ ~k.sent /\ k.syms \in {Orphans(local[t].pos, local[t].seen), Orphans(local[t].pos, file)}
    BY <1>1 DEF Locals
  <2> QED BY <2>1, <2>2
<1>4. \/ Become(t, "idle", local[t])
      \/ pc[t] = "decide" /\ \E label \in {"positions", "each"} : Become(t, label, local[t])
      \/ \E k \in {m, n} : pc[t] = "each" /\ local[t].op \in {"adopt", "link"} /\ Become(t, "link", k)
  BY DEF Decide, LoopEnds
<1> HIDE DEF m, n
<1>5. CASE Become(t, "idle", local[t])
  BY <1>2, <1>5, OwnRests, TypeParts
<1>6. CASE pc[t] = "decide" /\ \E label \in {"positions", "each"} : Become(t, label, local[t])
  BY <1>1, <1>2, <1>6, OwnQuiet, TypeParts DEF Labels, Saving
<1>7. CASE \E k \in {m, n} : pc[t] = "each" /\ local[t].op \in {"adopt", "link"} /\ Become(t, "link", k)
  BY <1>1, <1>2, <1>3, <1>7, OwnQuiet, TypeParts DEF Labels, Saving
<1> QED BY <1>4, <1>5, <1>6, <1>7

LEMMA OwnLink ==
  ASSUME Lone, TypeInv, LoneInv, OwnInv, NEW t \in Threads, NEW s \in Symbols, Link(t, s)
  PROVE  OwnInv'
<1> DEFINE l == [local[t] EXCEPT !.syms = @ \ {s}]
           p == Linked(l.pos[s])
<1>1. /\ local[t] \in Locals /\ ~local[t].sent /\ s \in local[t].syms /\ local[t].op \in {"adopt", "link"}
      /\ HeldOnce(position, used, lost) /\ FlatUnless(file, position, used, lost)
      /\ \A x \in local[t].syms : position[x] # 0
  <2>1. pc[t] = "link" /\ s \in local[t].syms
    BY DEF Link
  <2> QED BY <2>1, OwnBefore DEF Saving, Enters, LinksHeld, Knows, Orderly, OfOp
<1>2. l \in Locals /\ l.op = local[t].op /\ l.syms \subseteq local[t].syms /\ ~l.sent
  BY <1>1 DEF Locals
<1>3. file' = file /\ position' = position /\ lost' = lost
  BY DEF Link, broker
<1>4. ASSUME NEW i \in Items \ used PROVE KeyOf[i] # s
  BY <1>1 DEF HeldOnce
<1>5. used' = used /\ (Become(t, "link", l) \/ \E i \in Items : Update(t, l, i, p, "link"))
  BY <1>4 DEF Link
<1>6. HeldOnce(position', used', lost') /\ FlatUnless(file', position', used', lost') /\ lost' \cup Flight(l) = lost'
  BY <1>1, <1>2, <1>3, <1>5, OwnSame DEF Flight
<1> HIDE DEF l, p
<1>7. CASE Become(t, "link", l)
  BY <1>1, <1>2, <1>3, <1>6, <1>7, OwnQuiet, TypeParts DEF Labels, Saving
<1>8. ASSUME NEW i \in Items, Update(t, l, i, p, "link") PROVE OwnInv'
  <2>1. file[i] \in Rows \cup {Absent}
    BY TypeParts DEF DeskTyped, Files
  <2>2. Merge(file[i], p).status = "active"
    BY <2>1 DEF Merge, Rows, Absent, Linked, p
  <2> QED BY <1>1, <1>2, <1>3, <1>6, <1>8, <2>2, OwnSaving, TypeParts DEF Thens
<1> QED BY <1>5, <1>7, <1>8

LEMMA OwnLinking ==
  ASSUME Lone, TypeInv, LoneInv, OwnInv, NEW t \in Threads, Linking(t)
  PROVE  OwnInv'
<1> DEFINE l == local[t]
<1>1. /\ l \in Locals /\ Fits(pc[t], l) /\ ~l.sent /\ l.op \in {"adopt", "link"}
      /\ HeldOnce(position, used, lost) /\ FlatUnless(file, position, used, lost)
      /\ \A x \in l.syms : position[x] # 0
      /\ pc[t] = "linked" => l.patch \in {Linked(-1), Linked(1)}
  <2>1. pc[t] \in {"link", "linked"}
    BY DEF Linking
  <2> QED BY <2>1, OwnBefore DEF Saving, Enters, LinksHeld, Knows, Orderly, OfOp, SavesWell
<1>2. position' = position /\ file' = file /\ lost' = lost /\ used' = used
  BY DEF Linking, broker
<1>3. HeldOnce(position', used', lost') /\ FlatUnless(file', position', used', lost') /\ lost' \cup Flight(l) = lost'
  BY <1>1, <1>2, OwnSame DEF Flight
<1>4. \/ pc[t] = "linked" /\ Update(t, l, l.item, l.patch, "link")
      \/ Become(t, "idle", l)
  BY DEF Linking
<1> HIDE DEF l
<1>5. CASE pc[t] = "linked" /\ Update(t, l, l.item, l.patch, "link")
  <2>1. l.item \in Items /\ l.patch \in {Linked(-1), Linked(1)}
    BY <1>1, <1>5 DEF Fits
  <2>2. file[l.item] \in Rows \cup {Absent}
    BY <2>1, TypeParts DEF DeskTyped, Files
  <2>3. Merge(file[l.item], l.patch).status = "active"
    BY <2>1, <2>2 DEF Merge, Rows, Absent, Linked
  <2> QED BY <1>1, <1>2, <1>3, <1>5, <2>1, <2>3, OwnSaving, TypeParts DEF Thens
<1>6. CASE Become(t, "idle", l)
  BY <1>3, <1>6, OwnRests, TypeParts
<1> QED BY <1>4, <1>5, <1>6

(* An order of an exit makes the leg flat; an entry makes it one lot from flat,
   and no other row has that leg. *)
LEMMA OwnAccepts ==
  ASSUME Lone, OwnSymbol, TypeInv, LoneInv, OwnInv, NEW t \in Threads, NEW s \in Symbols, pc[t] = "order",
         s \in local[t].syms, Accept(s, Quantity(local[t], s)), used' = used, lost \subseteq lost', file' = file
  PROVE  LET one == IF Entering(local[t]) THEN {local[t].item} ELSE {}
         IN  /\ HeldOnce(position', used', lost')
             /\ FlatUnless(file', position', used', lost' \cup one)
<1> DEFINE i == local[t].item
<1>1. /\ local[t] \in Locals /\ i \in Items /\ HeldOnce(position, used, lost) /\ FlatUnless(file, position, used, lost)
      /\ local[t].syms \subseteq LegsOf[i]
      /\ Entering(local[t]) \/ local[t].pos[s] = position[s]
      /\ Entering(local[t]) => file[i].status \in Enterable
      /\ Entering(local[t]) /\ i \notin lost => position[KeyOf[i]] = 0
  BY OwnBefore DEF Saving, Enters, EntersFlat, Knows, KnowsLegs, KnowsRows, Content, Fits
<1>2. s = KeyOf[i] /\ position \in [Symbols -> Int] /\ KeyOf \in [Items -> Symbols]
  BY <1>1, TypeParts, ItemsAssumption DEF Lone, DeskTyped
<1>3. i \in used \/ ~Entering(local[t])
  BY <1>1 DEF FlatUnless, Absent, Enterable
<1>4. \A j \in Items : KeyOf[j] = s => j = i
  BY <1>1, <1>2 DEF OwnSymbol
<1>5. /\ \A x \in Symbols \ {s} : position'[x] = position[x]
      /\ Entering(local[t]) /\ position[s] = 0 => position'[s] \in {-1, 1}
      /\ ~Entering(local[t]) => position'[s] = 0
  <2>1. position' = [position EXCEPT ![s] = @ + Quantity(local[t], s)]
    BY DEF Accept, Lone
  <2>2. Entering(local[t]) => Quantity(local[t], s) \in {-1, 1}
    BY DEF Quantity
  <2>3. ~Entering(local[t]) => Quantity(local[t], s) = -position[s]
    BY <1>1 DEF Quantity
  <2> HIDE DEF i
  <2> QED BY <1>2, <2>1, <2>2, <2>3
<1> HIDE DEF i
<1>6. HeldOnce(position', used', lost')
  BY <1>1, <1>2, <1>3, <1>4, <1>5 DEF HeldOnce
<1>7. FlatUnless(file', position', used', lost' \cup (IF Entering(local[t]) THEN {i} ELSE {}))
  BY <1>1, <1>2, <1>4, <1>5 DEF FlatUnless
<1> QED BY <1>6, <1>7 DEF i

LEMMA OwnOrder ==
  ASSUME Lone, OwnSymbol, TypeInv, LoneInv, OwnInv, NEW t \in Threads, NEW s \in Symbols,
         OrderAcked(t, s) \/ OrderRaises(t, s)
  PROVE  OwnInv'
<1> DEFINE l == [local[t] EXCEPT !.syms = @ \ {s}, !.sent = Entering(local[t])]
           m == [local[t] EXCEPT !.sent = Entering(local[t])]
           i == local[t].item
           one == IF Entering(local[t]) THEN {i} ELSE {}
<1>1. /\ local[t] \in Locals /\ i \in Items /\ ~local[t].sent /\ pc[t] = "order" /\ s \in local[t].syms
      /\ HeldOnce(position, used, lost) /\ FlatUnless(file, position, used, lost)
      /\ local[t].syms \subseteq LegsOf[i] /\ local[t].op \in {"activate", "buy", "sell", "close", "exits"}
  <2>1. pc[t] = "order" /\ s \in local[t].syms
    BY DEF OrderAcked, OrderRaises
  <2> QED BY <2>1, OwnBefore DEF Saving, Knows, KnowsLegs, Orderly, OfOp, Fits
<1>2. /\ l.op = local[t].op /\ l.item = i /\ l.syms = local[t].syms \ {s}
      /\ m.op = local[t].op /\ m.item = i
      /\ l \in Locals /\ m \in Locals /\ (l.sent <=> Entering(local[t])) /\ (m.sent <=> Entering(local[t]))
  <2>1. PICK e \in {TRUE, FALSE} : e = Entering(local[t])
    <3>1. Entering(local[t]) = TRUE \/ Entering(local[t]) = FALSE
      BY DEF Entering
    <3> QED BY <3>1
  <2>2. /\ l = [local[t] EXCEPT !.syms = @ \ {s}, !.sent = e]
        /\ m = [local[t] EXCEPT !.sent = e]
    BY <2>1
  <2> HIDE DEF l, m
  <2> QED BY <1>1, <2>1, <2>2 DEF Locals
<1>3. l.syms = {}
  BY <1>1, <1>2 DEF Lone
<1>4. CASE OrderAcked(t, s)
  <2>1. /\ Accept(s, Quantity(local[t], s)) /\ used' = used /\ file' = file /\ lost' = lost
        /\ Update(t, l, i, IF Entering(l) THEN Entered ELSE Closed, IF l.op = "exits" THEN "each" ELSE "idle")
    BY <1>2, <1>3, <1>4 DEF OrderAcked
  <2>2. PICK patch \in {Entered, Closed}, then \in {"each", "idle"} : Update(t, l, i, patch, then)
    BY <2>1
  <2>3. HeldOnce(position', used', lost') /\ FlatUnless(file', position', used', lost' \cup one)
    BY <1>1, <2>1, OwnAccepts
  <2> HIDE DEF l
  <2>4. Flight(l) = one
    BY <1>2 DEF Flight
  <2>5. file[i] \in Rows \cup {Absent}
    BY <1>1, TypeParts DEF DeskTyped, Files
  <2>6. Merge(file[i], patch).status \in {"active", "closed"}
    BY <2>5 DEF Merge, Rows, Absent, Entered, Closed
  <2> HIDE DEF i, one
  <2> QED BY <1>1, <1>2, <1>3, <2>1, <2>2, <2>3, <2>4, <2>6, OwnSaving, TypeParts DEF Thens
<1>5. CASE OrderRaises(t, s) /\ Raise(t, local[t]) /\ UNCHANGED broker
  <2>1. file' = file /\ used' = used /\ position' = position /\ lost' = lost
    BY <1>1, <1>5 DEF OrderRaises, Raise, broker
  <2>2. HeldOnce(position', used', lost') /\ FlatUnless(file', position', used', lost')
    BY <1>1, <2>1, OwnSame
  <2> QED BY <1>1, <1>5, <2>2, OwnRaise, TypeParts
<1>6. CASE OrderRaises(t, s) /\ Accept(s, Quantity(local[t], s)) /\ Raise(t, m)
  <2> HIDE DEF m
  <2>1. file' = file /\ used' = used /\ lost' = lost \cup one
    BY <1>2, <1>6 DEF OrderRaises, Raise
  <2>2. HeldOnce(position', used', lost') /\ FlatUnless(file', position', used', lost' \cup one)
    BY <1>1, <1>6, <2>1, OwnAccepts
  <2>3. lost' \cup one = lost'
    BY <2>1
  <2> HIDE DEF one, i
  <2> QED BY <1>1, <1>2, <1>6, <2>2, <2>3, OwnRaise, TypeParts
<1> QED BY <1>4, <1>5, <1>6 DEF OrderRaises

LEMMA OwnLoad ==
  ASSUME Lone, TypeInv, LoneInv, OwnInv, NEW t \in Threads, Load(t)
  PROVE  OwnInv'
<1> DEFINE l == [local[t] EXCEPT !.rows = file]
           gone == lost \cup Flight(local[t])
<1>1. /\ local[t] \in Locals /\ HeldOnce(position, used, lost) /\ FlatUnless(file, position, used, gone)
      /\ EntersFlat("load", local[t], file, position, used, lost) /\ LinksHeld("load", local[t], position)
  BY OwnBefore DEF Load, Enters, Content
<1>2. /\ l \in Locals /\ l.rows = file
      /\ l.op = local[t].op /\ l.syms = local[t].syms /\ l.item = local[t].item /\ l.save = local[t].save
      /\ l.patch = local[t].patch /\ l.then = local[t].then /\ l.sent = local[t].sent
  BY <1>1, TypeParts DEF Locals, DeskTyped
<1>3. file' = file /\ position' = position /\ used' = used /\ ((Become(t, "open", l) /\ lost' = lost) \/ Raise(t, l))
  BY DEF Load, broker
<1> HIDE DEF l
<1>4. CASE Become(t, "open", l) /\ lost' = lost
  <2>1. lost' \cup Flight(l) = gone
    BY <1>2, <1>4 DEF Flight
  <2>2. EntersFlat("open", l, file, position, used, lost) /\ LinksHeld("open", l, position)
    BY <1>1, <1>2 DEF EntersFlat, LinksHeld, Saving, Entering
  <2>3. Enters("open", l, file', position', used', lost')
    BY <1>1, <1>2, <1>3, <1>4, <2>1, <2>2 DEF Enters, Content
  <2> QED BY <1>1, <1>3, <1>4, <2>3, OwnGoes, TypeParts DEF Labels
<1>5. CASE Raise(t, l)
  <2>1. lost' = gone
    BY <1>2, <1>5 DEF Raise, Flight
  <2>2. HeldOnce(position', used', lost') /\ FlatUnless(file', position', used', lost')
    BY <1>1, <1>3, <2>1 DEF HeldOnce
  <2>3. l.op = "adopt" => \A s \in l.syms : position[s] # 0
    BY <1>1, <1>2 DEF LinksHeld, Saving
  <2> QED BY <1>2, <1>3, <1>5, <2>2, <2>3, OwnRaise, TypeParts
<1> QED BY <1>3, <1>4, <1>5

LEMMA OwnOpen ==
  ASSUME Lone, TypeInv, LoneInv, OwnInv, NEW t \in Threads, Open(t)
  PROVE  OwnInv'
<1> DEFINE l == local[t]
<1>1. /\ HeldOnce(position, used, lost) /\ FlatUnless(l.rows, position, used, lost \cup Flight(l))
      /\ EntersFlat("open", l, l.rows, position, used, lost) /\ LinksHeld("open", l, position)
  BY OwnBefore DEF Open, Enters, Content
<1>2. Become(t, "write", l) /\ file' = NoRows /\ position' = position /\ used' = used /\ lost' = lost
  BY DEF Open, broker
<1> HIDE DEF l
<1>3. EntersFlat("write", l, l.rows, position, used, lost) /\ LinksHeld("write", l, position)
  BY <1>1 DEF EntersFlat, LinksHeld, Saving
<1>4. FlatUnless(NoRows, position, used, lost \cup Flight(l))
  BY DEF FlatUnless, NoRows, Absent
<1>5. Enters("write", l, file', position', used', lost')
  BY <1>1, <1>2, <1>3, <1>4 DEF Enters, Content
<1> QED BY <1>1, <1>2, <1>5, OwnGoes, TypeParts DEF Labels

LEMMA OwnWrite ==
  ASSUME Lone, TypeInv, LoneInv, OwnInv, NEW t \in Threads, Write(t)
  PROVE  OwnInv'
<1> DEFINE l == local[t]
           i == l.item
           m == [l EXCEPT !.rows = NoRows, !.sent = FALSE]
           new == [status |-> "waiting", signal |-> "none", exited |-> FALSE]
           merged == Merge(l.rows[i], l.patch)
           rec == CASE l.save = "add" -> new [] l.save = "remove" -> Absent [] OTHER -> merged
<1>1. /\ l \in Locals /\ Fits("write", l) /\ HeldOnce(position, used, lost)
      /\ FlatUnless(l.rows, position, used, lost \cup Flight(l))
      /\ EntersFlat("write", l, l.rows, position, used, lost) /\ LinksHeld("write", l, position)
      /\ Orderly("write", l)
  BY OwnBefore DEF Write, Enters, Content, Knows
<1>2. /\ Become(t, l.then, m) /\ file' = [l.rows EXCEPT ![i] = rec]
      /\ position' = position /\ used' = used /\ lost' = lost
  BY DEF Write, broker
<1>3. i \in Items /\ l.rows \in Files /\ l.then \in Thens /\ l.patch \in Patches
  BY <1>1 DEF Fits, Saving, Locals, Thens
<1>4. m.op = l.op /\ m.syms = l.syms /\ m.item = i /\ ~m.sent
  BY <1>1 DEF Locals
<1>5. file'[i] = rec /\ \A j \in Items \ {i} : file'[j] = l.rows[j]
  BY <1>2, <1>3 DEF Files
<1>6. i \notin used => rec = Absent
  <2>1. l.save = "update" => i \in used
    BY <1>1, <1>3 DEF Fits, FlatUnless
  <2>2. l.save = "add" => i \in used
    BY <1>1 DEF EntersFlat, Saving
  <2>3. l.save \in {"add", "remove", "update"}
    BY <1>1 DEF Orderly, Saving
  <2> HIDE DEF l, new, merged
  <2> QED BY <2>1, <2>2, <2>3
<1>7. i \notin lost /\ rec.status \in {"waiting", "triggered"} => position[KeyOf[i]] = 0
  <2>1. CASE l.save = "add"
    BY <1>1, <2>1 DEF EntersFlat, Saving
  <2>2. CASE l.save = "remove"
    <3>1. rec = Absent
      BY <2>2
    <3> HIDE DEF rec
    <3> QED BY <3>1 DEF Absent
  <2>3. CASE l.save = "update"
    <3>1. rec = merged
      BY <2>3
    <3> QED BY <1>1, <2>3, <3>1 DEF EntersFlat, Saving
  <2> QED BY <1>1, <2>1, <2>2, <2>3 DEF Orderly, Saving
<1>8. \A j \in Items \ {i} : j \notin Flight(l)
  BY DEF Flight
<1> HIDE DEF rec, m
<1>9. FlatUnless(file', position', used', lost')
  <2>1. ASSUME NEW j \in Items
        PROVE  /\ j \notin used => file'[j] = Absent
               /\ file'[j].status \in {"waiting", "triggered"} /\ j \notin lost => position[KeyOf[j]] = 0
    <3>1. CASE j = i
      BY <1>5, <1>6, <1>7, <3>1
    <3>2. CASE j # i
      BY <1>1, <1>5, <1>8, <3>2 DEF FlatUnless
    <3> QED BY <3>1, <3>2
  <2> QED BY <1>2, <2>1 DEF FlatUnless
<1>10. /\ l.then = "order" /\ Entering(l) /\ i \notin lost => position[KeyOf[i]] = 0
       /\ l.op \in {"adopt", "link"} => \A s \in l.syms : position[s] # 0
  BY <1>1 DEF EntersFlat, LinksHeld, Saving
<1>11. Entering(m) <=> Entering(l)
  BY <1>4 DEF Entering
<1> HIDE DEF l, i
<1> QED BY <1>1, <1>2, <1>3, <1>4, <1>9, <1>10, <1>11, OwnQuiet, TypeParts DEF Thens, Labels, Saving, HeldOnce, i

LEMMA OwnSquareOff ==
  ASSUME Lone, TypeInv, LoneInv, OwnInv, NEW s \in Symbols, SquareOff(s)
  PROVE  OwnInv'
<1>1. /\ \A t \in Threads : pc[t] = "idle"
      /\ pc' = pc /\ local' = local /\ file' = file /\ used' = used /\ lost' = lost
      /\ position' = [position EXCEPT ![s] = 0] /\ position \in [Symbols -> Int]
  BY TypeParts DEF SquareOff, Lone, DeskTyped
<1>2. HeldOnce(position', used', lost')
  BY <1>1, ItemsAssumption DEF OwnInv, HeldOnce
<1>3. ASSUME NEW f, NEW lo, FlatUnless(f, position, used, lo) PROVE FlatUnless(f, position', used, lo)
  BY <1>1, <1>3, ItemsAssumption DEF FlatUnless
<1>4. ASSUME NEW t \in Threads PROVE Enters(pc'[t], local'[t], file', position', used', lost')
  <2>1. FlatUnless(file, position, used, lost \cup Flight(local[t])) /\ pc[t] = "idle"
    BY <1>1 DEF OwnInv, Enters
  <2>2. FlatUnless(file, position', used, lost \cup Flight(local[t]))
    BY <1>3, <2>1
  <2>3. EntersFlat("idle", local[t], file, position', used, lost) /\ LinksHeld("idle", local[t], position')
    BY DEF EntersFlat, LinksHeld, Saving
  <2> QED BY <1>1, <2>1, <2>2, <2>3 DEF Enters, Content
<1>5. \A t \in Threads : Enters(pc[t], local[t], file, position, used, lost)'
  BY <1>4 DEF Enters, FlatUnless, Flight, EntersFlat, LinksHeld, Content, Entering, Merge
<1>6. HeldOnce(position, used, lost)'
  BY <1>2 DEF HeldOnce
<1> QED BY <1>5, <1>6 DEF OwnInv

LEMMA OwnCrash ==
  ASSUME Lone, TypeInv, LoneInv, OwnInv, Crash
  PROVE  OwnInv'
<1>1. /\ pc' = [t \in Threads |-> "idle"] /\ local' = [t \in Threads |-> Blank]
      /\ file' = file /\ used' = used /\ position' = position
      /\ lost' = lost \cup {local[t].item : t \in {u \in Threads : local[u].sent}}
  BY DEF Crash, broker
<1>2. HeldOnce(position', used', lost')
  BY <1>1 DEF OwnInv, HeldOnce
<1>3. ASSUME NEW t \in Threads PROVE Enters(pc'[t], local'[t], file', position', used', lost')
  <2>1. lost \cup Flight(local[t]) \subseteq lost'
    BY <1>1 DEF Flight
  <2>2. FlatUnless(file, position, used, lost \cup Flight(local[t]))
    BY DEF OwnInv, Enters
  <2>3. FlatUnless(file, position, used, lost')
    BY <2>1, <2>2 DEF FlatUnless
  <2>4. lost' \cup Flight(Blank) = lost'
    BY DEF Flight, Blank
  <2>5. EntersFlat("idle", Blank, file, position, used, lost') /\ LinksHeld("idle", Blank, position)
    BY DEF EntersFlat, LinksHeld, Blank, Saving, Entering
  <2> QED BY <1>1, <2>3, <2>4, <2>5 DEF Enters, Content
<1>4. \A t \in Threads : Enters(pc[t], local[t], file, position, used, lost)'
  BY <1>3 DEF Enters, FlatUnless, Flight, EntersFlat, LinksHeld, Content, Entering, Merge
<1>5. HeldOnce(position, used, lost)'
  BY <1>2 DEF HeldOnce
<1> QED BY <1>4, <1>5 DEF OwnInv

LEMMA OwnInit == Init => OwnInv
<1> SUFFICES ASSUME Init PROVE OwnInv
  OBVIOUS
<1>1. \A i \in Items : position[KeyOf[i]] = 0
  BY ItemsAssumption DEF Init, Flat
<1>2. HeldOnce(position, used, lost)
  BY <1>1 DEF HeldOnce
<1>3. ASSUME NEW lo PROVE FlatUnless(file, position, used, lo)
  BY DEF Init, FlatUnless, NoRows, Absent
<1>4. EntersFlat("idle", Blank, file, position, used, lost) /\ LinksHeld("idle", Blank, position)
  BY DEF EntersFlat, LinksHeld, Blank, Saving, Entering
<1>5. \A t \in Threads : Enters(pc[t], local[t], file, position, used, lost)
  BY <1>3, <1>4 DEF Init, Enters, Content
<1> QED BY <1>2, <1>5 DEF OwnInv

LEMMA OwnSteps ==
  ASSUME Lone, OwnSymbol, TypeInv, LoneInv, OwnInv, NEW t \in Threads, Step(t)
  PROVE  OwnInv'
<1>1. CASE ReadRow(t) \/ ReadRows(t)
  BY <1>1, OwnReadRow, OwnReadRows
<1>2. CASE Positions(t) \/ PositionsFail(t) \/ Orders(t) \/ OrdersFail(t)
  BY <1>2, OwnPositions, OwnAnswer
<1>3. CASE (\E i \in Items : Visit(t, i)) \/ Decide(t) \/ LoopEnds(t)
  BY <1>3, OwnVisit, OwnLoop
<1>4. CASE Linking(t) \/ \E s \in Symbols : Link(t, s)
  BY <1>4, OwnLinking, OwnLink
<1>5. CASE \E s \in Symbols : OrderAcked(t, s) \/ OrderRaises(t, s)
  BY <1>5, OwnOrder
<1>6. CASE Load(t) \/ Open(t) \/ Write(t)
  BY <1>6, OwnLoad, OwnOpen, OwnWrite
<1> QED BY <1>1, <1>2, <1>3, <1>4, <1>5, <1>6 DEF Step

LEMMA OwnNext == Lone /\ OwnSymbol => (TypeInv /\ LoneInv /\ OwnInv /\ [Next]_vars => OwnInv')
<1> SUFFICES ASSUME Lone, OwnSymbol, TypeInv, LoneInv, OwnInv, [Next]_vars PROVE OwnInv'
  OBVIOUS
<1>1. CASE \E t \in Threads, op \in Loops \cup Singles, i \in Items \cup {NoItem} : op \in Ops[t] /\ Begin(t, op, i)
  BY <1>1, OwnBegin
<1>2. CASE \E t \in Threads : Step(t)
  BY <1>2, OwnSteps
<1>3. CASE \E o \in working : Settle(o)
  BY <1>3 DEF LoneInv
<1>4. CASE (\E s \in Symbols : SquareOff(s)) \/ Crash
  BY <1>4, OwnSquareOff, OwnCrash
<1>5. CASE UNCHANGED vars
  <2>1. HeldOnce(position', used', lost') /\ \A t \in Threads : Enters(pc'[t], local'[t], file', position', used', lost')
    BY <1>5 DEF vars, broker, OwnInv
  <2>2. \A t \in Threads : Enters(pc[t], local[t], file, position, used, lost)'
    BY <2>1 DEF Enters, FlatUnless, Flight, EntersFlat, LinksHeld, Content, Entering, Merge
  <2>3. HeldOnce(position, used, lost)'
    BY <2>1 DEF HeldOnce
  <2> QED BY <2>2, <2>3 DEF OwnInv
<1>6. \A t \in Threads : Ops[t] \subseteq Loops \cup Singles
  BY BoundsAssumption
<1> QED BY <1>1, <1>2, <1>3, <1>4, <1>5, <1>6 DEF Next

(* A row enters once: whatever is refused, fails, is closed by hand, linked again
   or lost in a crash, a row whose entry orders were all recorded holds at most
   one entry. *)
THEOREM EntersOnce == ASSUME Lone, OwnSymbol PROVE Spec => []OneEntryPerRow
<1>1. TypeInv /\ LoneInv /\ OwnInv /\ [Next]_vars => OwnInv'
  BY OwnNext
<1>2. OwnInv => OneEntryPerRow
  BY DEF OwnInv, HeldOnce, OneEntryPerRow, Lone
<1> QED BY <1>1, <1>2, OwnInit, AlwaysKnown, PTL DEF Spec

-----------------------------------------------------------------------------
(* The store, as a list whose changes are atomic.  One thread is enough: orders
   may fill late, rows may trade spreads, and the operator may trade beside. *)
Single == \A t, u \in Threads : t = u

(* Saving a patch of a row leaves it as it is or is a step of its life. *)
LivesOn(rec, patch) == Merge(rec, patch) = rec \/ Store!Lives(rec, Merge(rec, patch))

Belongs(label, l) ==
    /\ OfOp(label, l.op)
    /\ label \in Saving => /\ OfOp(l.then, l.op) /\ l.save \in {"add", "remove", "update"}
                           /\ l.then = "order" => Entering(l) /\ l.save = "update"

(* The rows a loop still has to visit are as it found them ... *)
Listed(l, f) ==
    /\ l.op = "scan" => \A i \in l.todo : f[i].status = "waiting"
    /\ l.op \in {"reconcile", "adopt", "view", "link"} => \A i \in l.todo : f[i].status = "active"
    /\ l.op \in Singles => l.todo = {}

(* ... and the row it changes is none of them. *)
Visited(label, l) ==
    /\ label \in {"link", "linked"} \/ (label \in Saving /\ l.then \notin {"each", "decide"}) => l.todo = {}
    /\ label \in Saving /\ l.op # "exits" => l.item \notin l.todo

(* The row that is entered or closed has not changed since that was decided. *)
Subject(label, l, f) ==
    /\ Entering(l) /\ label \in {"positions", "order"} => f[l.item].status \in Enterable
    /\ Entering(l) /\ label = "positions" => l.seen[l.item] = f[l.item]
    /\ l.op \in {"close", "exits"} /\ label \in {"positions", "order"} => f[l.item].status = "active"

SavesLife(label, l, f) ==
    /\ label \in Saving /\ l.then = "order" => "status" \in DOMAIN l.patch /\ l.patch.status \in Enterable
    /\ label \in Saving /\ l.save = "update" /\ f[l.item] # Absent => LivesOn(f[l.item], l.patch)
    /\ label = "linked" \/ (label \in Saving /\ l.then = "linked") => l.patch \in {Linked(-1), Linked(1)}

Along(label, l, f, us) ==
    /\ label = "open" => l.rows = f
    /\ label = "write" => f = NoRows
    /\ label \in Saving /\ l.save = "add" => l.item \in us
    /\ Belongs(label, l) /\ Visited(label, l)
    /\ Listed(l, Content(label, l, f))
    /\ Subject(label, l, Content(label, l, f))
    /\ SavesLife(label, l, Content(label, l, f))

StoreInv == \A t \in Threads : Along(pc[t], local[t], file, used)

(* A thread that is about to change neither the file nor the ids in it. *)
Calm(label, l) == label \notin Saving \/ (label = "load" /\ l.save # "add")

Unseen == Stored' = Stored /\ Spent' = Spent

-----------------------------------------------------------------------------
(* What one thread makes of the mapping. *)
LEMMA StoredOf ==
  ASSUME Single, NEW t \in Threads
  PROVE  /\ Stored = IF pc[t] = "write" THEN local[t].rows ELSE file
         /\ Spent = used \ (IF pc[t] \in Saving /\ local[t].save = "add" THEN {local[t].item} ELSE {})
<1>1. Stored = IF pc[t] = "write" THEN local[t].rows ELSE file
  <2>1. Rewriting <=> pc[t] = "write"
    BY DEF Rewriting, Single
  <2>2. (CHOOSE u \in Threads : pc[u] = "write") \in Threads \/ ~Rewriting
    BY DEF Rewriting
  <2>3. Rewriting => (CHOOSE u \in Threads : pc[u] = "write") = t
    BY <2>2 DEF Single
  <2> QED BY <2>1, <2>3 DEF Stored
<1>2. {local[u].item : u \in Adding} = IF pc[t] \in Saving /\ local[t].save = "add" THEN {local[t].item} ELSE {}
  BY DEF Adding, Saving, Single
<1> QED BY <1>1, <1>2 DEF Spent

LEMMA StoredNext ==
  ASSUME Single, NEW t \in Threads
  PROVE  /\ Stored' = IF pc'[t] = "write" THEN local'[t].rows ELSE file'
         /\ Spent' = used' \ (IF pc'[t] \in Saving /\ local'[t].save = "add" THEN {local'[t].item} ELSE {})
<1>1. Stored' = IF pc'[t] = "write" THEN local'[t].rows ELSE file'
  <2>1. Rewriting' <=> pc'[t] = "write"
    BY DEF Rewriting, Single
  <2>2. (CHOOSE u \in Threads : pc'[u] = "write") \in Threads \/ ~Rewriting'
    BY DEF Rewriting
  <2>3. Rewriting' => (CHOOSE u \in Threads : pc'[u] = "write") = t
    BY <2>2 DEF Single
  <2> QED BY <2>1, <2>3 DEF Stored
<1>2. {local'[u].item : u \in Adding'} = IF pc'[t] \in Saving /\ local'[t].save = "add" THEN {local'[t].item} ELSE {}
  BY DEF Adding, Saving, Single
<1> QED BY <1>1, <1>2 DEF Spent

LEMMA IdleAlong == ASSUME NEW f, NEW us PROVE Along("idle", Blank, f, us)
BY DEF Along, Content, Belongs, OfOp, Listed, Visited, Subject, SavesLife, Blank, Saving, Entering, Singles

(* Along is about its arguments alone. *)
LEMMA AlongNext ==
  ASSUME \A u \in Threads : Along(pc'[u], local'[u], file', used')
  PROVE  StoreInv'
<1>1. ASSUME NEW u \in Threads PROVE Along(pc[u], local[u], file, used)'
  <2>1. Along(pc'[u], local'[u], file', used')
    OBVIOUS
  <2>2. (Visited(pc[u], local[u]) /\ Listed(local[u], Content(pc[u], local[u], file)))'
    BY <2>1 DEF Along, Content, Listed, Visited
  <2>3. (Belongs(pc[u], local[u]) /\ Subject(pc[u], local[u], Content(pc[u], local[u], file)))'
    BY <2>1 DEF Along, Content, Belongs, OfOp, Subject, Entering
  <2>4. SavesLife(pc[u], local[u], Content(pc[u], local[u], file))'
    BY <2>1 DEF Along, Content, SavesLife, LivesOn, Store!Lives, Store!Triggers, Store!Turns, Store!Enters,
                Store!Exits, Store!Forgets, Store!Links, Store!Pending, Store!Sides
  <2> QED BY <2>1, <2>2, <2>3, <2>4 DEF Along
<1> QED BY <1>1 DEF StoreInv

(* A step leads to a label where its thread knows what it must. *)
LEMMA AlongGoes ==
  ASSUME Single, ThreadsTyped, NEW t \in Threads, NEW label \in Labels, NEW l, Become(t, label, l),
         label = "idle" \/ Along(label, l, file', used')
  PROVE  /\ StoreInv'
         /\ pc'[t] = label /\ (label # "idle" => local'[t] = l)
<1>1. pc'[t] = label /\ local'[t] = IF label = "idle" THEN Blank ELSE l
  BY DEF Become, ThreadsTyped
<1>2. Along(pc'[t], local'[t], file', used')
  BY <1>1, IdleAlong
<1>3. \A u \in Threads : Along(pc'[u], local'[u], file', used')
  BY <1>2 DEF Single
<1> QED BY <1>1, <1>3, AlongNext

LEMMA Onward ==
  ASSUME Single, ThreadsTyped, NEW t \in Threads, NEW label \in Labels \ Saving, NEW l, Become(t, label, l),
         Calm(pc[t], local[t]), file' = file, used' = used,
         label = "idle" \/ Along(label, l, file, used)
  PROVE  StoreInv' /\ Unseen
<1>1. StoreInv' /\ pc'[t] = label
  BY AlongGoes
<1> QED BY <1>1, StoredOf, StoredNext DEF Unseen, Calm, Saving

(* The same for a step that saves a change of row i. *)
LEMMA OnwardSaving ==
  ASSUME Single, ThreadsTyped, NEW t \in Threads, NEW l \in Locals, NEW i \in Items, NEW patch, NEW then \in Thens \ {"linked"},
         Update(t, l, i, patch, then), Calm(pc[t], local[t]), file' = file, used' = used,
         OfOp(then, l.op), Listed(l, file), then \notin {"each", "decide"} => l.todo = {}, l.op # "exits" => i \notin l.todo,
         then = "order" => Entering(l) /\ "status" \in DOMAIN patch /\ patch.status \in Enterable,
         file[i] # Absent => LivesOn(file[i], patch)
  PROVE  StoreInv' /\ Unseen
<1> DEFINE m == [l EXCEPT !.item = i, !.save = "update", !.patch = patch, !.then = then]
<1>1. /\ m.item = i /\ m.save = "update" /\ m.patch = patch /\ m.then = then
      /\ m.op = l.op /\ m.todo = l.todo
  BY DEF Locals
<1>2. Become(t, "load", m)
  BY DEF Update
<1> HIDE DEF m
<1>3. Belongs("load", m) /\ Visited("load", m) /\ Listed(m, file)
  BY <1>1 DEF Belongs, OfOp, Visited, Listed, Saving, Entering
<1>4. Subject("load", m, file) /\ SavesLife("load", m, file)
  BY <1>1 DEF Subject, SavesLife, Saving, Thens
<1>5. Along("load", m, file, used)
  BY <1>1, <1>3, <1>4 DEF Along, Content
<1>6. StoreInv' /\ pc'[t] = "load" /\ local'[t].save = "update"
  BY <1>1, <1>2, <1>5, AlongGoes DEF Labels
<1> QED BY <1>6, StoredOf, StoredNext DEF Unseen, Calm, Saving

(* The lives of rows, patch by patch. *)
LEMMA LivesTriggered ==
  ASSUME NEW rec \in Rows, NEW side \in {"long", "short"}
  PROVE  /\ rec.status \in {"waiting", "triggered"} =>
              /\ LivesOn(rec, [status |-> "triggered", signal |-> side])
              /\ LivesOn(rec, [signal |-> side, status |-> "triggered"])
         /\ rec.status = "active" => LivesOn(rec, [signal |-> side, status |-> "active"])
         /\ rec.status \in Enterable => LivesOn(rec, [signal |-> side])
<1>1. rec.status \in {"waiting", "triggered"} =>
              /\ LivesOn(rec, [status |-> "triggered", signal |-> side])
              /\ LivesOn(rec, [signal |-> side, status |-> "triggered"])
  BY DEF LivesOn, Merge, Rows, Store!Lives, Store!Triggers, Store!Pending, Store!Sides
<1>2. rec.status = "active" => LivesOn(rec, [signal |-> side, status |-> "active"])
  BY DEF LivesOn, Merge, Rows, Store!Lives, Store!Turns, Store!Sides
<1>3. rec.status \in Enterable => LivesOn(rec, [signal |-> side])
  BY DEF LivesOn, Merge, Rows, Store!Lives, Store!Turns, Store!Sides, Enterable
<1> QED BY <1>1, <1>2, <1>3

LEMMA LivesClosed ==
  ASSUME NEW rec \in Rows
  PROVE  /\ LivesOn(rec, <<>>)
         /\ rec.status \in Enterable => LivesOn(rec, Entered)
         /\ rec.status = "active" => LivesOn(rec, Closed)
         /\ rec.status # "active" => LivesOn(rec, Forgotten)
<1>1. LivesOn(rec, <<>>)
  BY DEF LivesOn, Merge, Rows
<1>2. rec.status \in Enterable => LivesOn(rec, Entered)
  BY DEF LivesOn, Merge, Rows, Store!Lives, Store!Enters, Enterable, Entered
<1>3. rec.status = "active" => LivesOn(rec, Closed)
  BY DEF LivesOn, Merge, Rows, Store!Lives, Store!Exits, Closed
<1>4. rec.status # "active" => LivesOn(rec, Forgotten)
  BY DEF LivesOn, Merge, Rows, Store!Lives, Store!Forgets, Forgotten
<1> QED BY <1>1, <1>2, <1>3, <1>4

LEMMA LivesLinked == ASSUME NEW rec \in Rows, NEW qty PROVE LivesOn(rec, Linked(qty))
BY DEF LivesOn, Merge, Rows, Store!Lives, Store!Links, Store!Sides, Linked

(* What a thread is about to do at a label, and what it may go by. *)
LEMMA AlongNow ==
  ASSUME StoreInv, ThreadsTyped, NEW t \in Threads
  PROVE  /\ Along(pc[t], local[t], file, used) /\ local[t] \in Locals /\ Fits(pc[t], local[t])
         /\ pc[t] \notin Saving => /\ Belongs(pc[t], local[t]) /\ Visited(pc[t], local[t]) /\ Listed(local[t], file)
                                   /\ Subject(pc[t], local[t], file) /\ Calm(pc[t], local[t])
BY LocalTyped DEF StoreInv, Along, Content, Saving, Calm

LEMMA AlongAt ==
  ASSUME NEW label \in Labels \ Saving, NEW l, OfOp(label, l.op), Listed(l, file), Subject(label, l, file),
         label \in {"link", "linked"} => l.todo = {},
         label = "linked" => l.patch \in {Linked(-1), Linked(1)}
  PROVE  Along(label, l, file, used)
BY DEF Along, Content, Belongs, Visited, SavesLife, Saving

LEMMA StoreBegin ==
  ASSUME Single, ThreadsTyped, StoreInv, NEW t \in Threads, NEW op \in Loops \cup Singles, NEW i, Begin(t, op, i)
  PROVE  StoreInv' /\ Unseen
<1> DEFINE label == CASE op \in {"add", "remove"} -> "load" [] op \in {"view", "link"} -> "positions" [] OTHER -> "read"
           m == [Blank EXCEPT !.op = op, !.item = i, !.save = IF op \in Singles THEN op ELSE "update"]
<1>1. /\ m.op = op /\ m.then = "idle" /\ m.todo = {} /\ m.item = i
      /\ op \in {"add", "remove"} => m.save = op
  BY DEF Blank, Singles
<1>2. label \in {"load", "positions", "read"} /\ (label = "load" <=> op \in {"add", "remove"})
      /\ (label = "positions" <=> op \in {"view", "link"})
  OBVIOUS
<1>3. /\ Become(t, label, m) /\ file' = file /\ pc[t] = "idle" /\ (op = "add" => i \notin used)
      /\ used' = IF op = "add" THEN used \cup {i} ELSE used
  BY DEF Begin, broker
<1> HIDE DEF m, label
<1>4. Belongs(label, m) /\ Visited(label, m) /\ Listed(m, file)
  BY <1>1, <1>2 DEF Belongs, OfOp, Visited, Listed, Saving, Entering
<1>5. Subject(label, m, file) /\ SavesLife(label, m, file)
  BY <1>1, <1>2 DEF Subject, SavesLife, Saving, Entering
<1>6. Along(label, m, file', used')
  <2>1. label \in Saving /\ m.save = "add" => m.item \in used'
    BY <1>1, <1>2, <1>3 DEF Saving
  <2>2. label \notin {"open", "write"} /\ Content(label, m, file) = file
    BY <1>2 DEF Content
  <2> QED BY <1>3, <1>4, <1>5, <2>1, <2>2 DEF Along
<1>7. StoreInv' /\ pc'[t] = label /\ local'[t] = m
  BY <1>2, <1>3, <1>6, AlongGoes DEF Labels
<1>8. Stored' = file /\ Stored = file /\ Spent = used
  BY <1>2, <1>3, <1>7, StoredOf, StoredNext DEF Saving
<1>9. Spent' = used
  <2>1. CASE op = "add"
    BY <1>1, <1>2, <1>3, <1>7, <2>1, StoredNext DEF Saving
  <2>2. CASE op # "add"
    BY <1>1, <1>2, <1>3, <1>7, <2>2, StoredNext DEF Saving
  <2> QED BY <2>1, <2>2
<1> QED BY <1>7, <1>8, <1>9 DEF Unseen

LEMMA StoreReadRow ==
  ASSUME Single, DeskTyped, ThreadsTyped, StoreInv, NEW t \in Threads, ReadRow(t)
  PROVE  StoreInv' /\ Unseen
<1> DEFINE l == [local[t] EXCEPT !.seen = file]
           m == [l EXCEPT !.syms = LegsOf[l.item]]
<1>1. /\ local[t] \in Locals /\ Listed(local[t], file) /\ Calm(pc[t], local[t])
      /\ local[t].item \in Items /\ local[t].op \in Singles /\ file' = file /\ used' = used
  BY AlongNow DEF ReadRow, Fits, Saving, broker
<1>2. /\ l \in Locals /\ l.op = local[t].op /\ l.item = local[t].item /\ l.todo = {} /\ l.seen = file
      /\ m.op = l.op /\ m.item = l.item /\ m.todo = {}
  BY <1>1 DEF Locals, DeskTyped, Listed
<1>3. \/ l.op = "activate" /\ CanEnter(file[l.item]) /\ Become(t, "order", m)
      \/ l.op \in {"buy", "sell"} /\ file[l.item].status \in Enterable /\ Become(t, "positions", l)
      \/ l.op = "close" /\ file[l.item].status = "active" /\ Become(t, "positions", l)
      \/ /\ l.op = "close" /\ file[l.item].status \notin {"active", "absent"}
         /\ Update(t, l, l.item, Forgotten, "idle")
      \/ l.op = "unlink" /\ file[l.item].status = "active" /\ Update(t, l, l.item, Closed, "idle")
      \/ Become(t, "idle", l)
  BY <1>2 DEF ReadRow, Enterable
<1> HIDE DEF l, m
<1>4. Listed(l, file) /\ Listed(m, file)
  BY <1>1, <1>2 DEF Listed, Loops, Singles
<1>5. CASE l.op = "activate" /\ CanEnter(file[l.item]) /\ Become(t, "order", m)
  <2>1. OfOp("order", m.op) /\ Subject("order", m, file)
    BY <1>2, <1>5 DEF OfOp, Subject, Enterable, CanEnter
  <2> QED BY <1>1, <1>4, <1>5, <2>1, AlongAt, Onward DEF Labels, Saving
<1>6. CASE /\ l.op \in {"buy", "sell", "close"} /\ Become(t, "positions", l)
           /\ file[l.item].status \in IF l.op = "close" THEN {"active"} ELSE Enterable
  <2>1. OfOp("positions", l.op) /\ Subject("positions", l, file)
    BY <1>2, <1>6 DEF OfOp, Subject, Entering
  <2> QED BY <1>1, <1>4, <1>6, <2>1, AlongAt, Onward DEF Labels, Saving
<1>7. ASSUME NEW patch \in {Forgotten, Closed}, Update(t, l, l.item, patch, "idle"), l.op \in Singles,
             file[l.item].status = "active" <=> patch = Closed
      PROVE  StoreInv' /\ Unseen
  <2>1. file[l.item] \in Rows \cup {Absent}
    BY <1>1, <1>2 DEF DeskTyped, Files
  <2>2. file[l.item] # Absent => LivesOn(file[l.item], patch)
    BY <1>7, <2>1, LivesClosed
  <2>3. OfOp("idle", l.op) /\ "idle" \in Thens \ {"linked"} /\ l.item \in Items
    BY <1>1, <1>2 DEF OfOp, Thens
  <2> QED BY <1>1, <1>2, <1>4, <1>7, <2>2, <2>3, OnwardSaving
<1>8. Forgotten # Closed
  BY DEF Forgotten, Closed
<1>9. CASE Become(t, "idle", l)
  BY <1>1, <1>9, Onward DEF Labels, Saving
<1> QED BY <1>3, <1>5, <1>6, <1>7, <1>8, <1>9 DEF Singles

LEMMA StoreReadRows ==
  ASSUME Single, DeskTyped, ThreadsTyped, StoreInv, NEW t \in Threads, ReadRows(t)
  PROVE  StoreInv' /\ Unseen
<1> DEFINE m(T) == [[local[t] EXCEPT !.seen = file] EXCEPT !.todo = T]
<1>1. /\ local[t] \in Locals /\ Calm(pc[t], local[t]) /\ local[t].op \in Loops /\ file' = file /\ used' = used
  BY AlongNow DEF ReadRows, Saving, broker
<1>2. ASSUME NEW T, NEW status \in {"waiting", "active"}, T \subseteq With(file, status),
             status = IF local[t].op = "scan" THEN "waiting" ELSE "active",
             NEW label \in {"each", "positions"}, label = "positions" => local[t].op \in {"reconcile", "adopt"}
      PROVE  Along(label, m(T), file, used)
  <2>1. m(T).op = local[t].op /\ m(T).todo = T
    BY <1>1 DEF Locals
  <2> HIDE DEF m
  <2>2. Listed(m(T), file)
    BY <1>1, <1>2, <2>1 DEF Listed, With, Loops, Singles
  <2>3. OfOp(label, m(T).op) /\ Subject(label, m(T), file)
    BY <1>1, <1>2, <2>1 DEF OfOp, Subject, Loops, Entering
  <2> QED BY <2>2, <2>3, AlongAt DEF Labels, Saving
<1>3. \/ local[t].op = "scan" /\ Become(t, "each", m(With(file, "waiting") \ Manual))
      \/ local[t].op \in {"exits", "view", "link"} /\ Become(t, "each", m(With(file, "active")))
      \/ local[t].op \in {"reconcile", "adopt"} /\ Become(t, "positions", m(With(file, "active")))
  BY <1>1 DEF ReadRows, Locals
<1>4. With(file, "waiting") \ Manual \subseteq With(file, "waiting") /\ With(file, "active") \subseteq With(file, "active")
  OBVIOUS
<1> HIDE DEF m
<1>5. CASE local[t].op = "scan" /\ Become(t, "each", m(With(file, "waiting") \ Manual))
  BY <1>1, <1>2, <1>4, <1>5, Onward DEF Labels, Saving
<1>6. CASE local[t].op \in {"exits", "view", "link"} /\ Become(t, "each", m(With(file, "active")))
  BY <1>1, <1>2, <1>4, <1>6, Onward DEF Labels, Saving
<1>7. CASE local[t].op \in {"reconcile", "adopt"} /\ Become(t, "positions", m(With(file, "active")))
  BY <1>1, <1>2, <1>4, <1>7, Onward DEF Labels, Saving
<1> QED BY <1>3, <1>5, <1>6, <1>7

(* An exception leads back to the loop, or out. *)
LEMMA StoreRaise ==
  ASSUME Single, ThreadsTyped, NEW t \in Threads, NEW l \in Locals, Raise(t, l), Calm(pc[t], local[t]),
         file' = file, used' = used, Listed(l, file), l.op = "adopt" /\ l.then # "each" => l.todo = {}
  PROVE  StoreInv' /\ Unseen
<1> DEFINE m == [l EXCEPT !.syms = IF l.op = "exits" THEN {} ELSE @, !.sent = FALSE]
<1>1. m.op = l.op /\ m.todo = l.todo
  BY DEF Locals
<1>2. PICK label : /\ Become(t, label, m) /\ label \in {"each", "link", "idle"}
                   /\ label = "each" => l.op \in {"scan", "exits", "reconcile", "adopt"}
                   /\ label = "link" => l.op = "adopt" /\ l.then # "each"
  BY DEF Raise
<1> HIDE DEF m
<1>3. Listed(m, file) /\ OfOp(label, m.op) /\ Subject(label, m, file)
  BY <1>1, <1>2 DEF Listed, OfOp, Loops, Subject
<1>4. label # "idle" => Along(label, m, file, used)
  BY <1>1, <1>2, <1>3, AlongAt DEF Labels, Saving
<1> QED BY <1>2, <1>4, Onward DEF Labels, Saving

LEMMA StoreTrigger ==
  ASSUME Single, DeskTyped, ThreadsTyped, NEW t \in Threads, NEW l \in Locals, NEW side \in {"long", "short"},
         Trigger(t, l, side), l.op \in {"buy", "sell"}, l.item \in Items, Listed(l, file),
         l.seen[l.item] = file[l.item], file[l.item].status \in Enterable,
         Calm(pc[t], local[t]), file' = file, used' = used
  PROVE  StoreInv' /\ Unseen
<1> DEFINE m == [l EXCEPT !.syms = LegsOf[l.item]]
           status == IF l.seen[l.item].status = "active" THEN "active" ELSE "triggered"
           p == [signal |-> side, status |-> status]
           q == [signal |-> side]
<1>1. m \in Locals /\ m.op = l.op /\ m.todo = l.todo
  BY ItemsAssumption DEF Locals
<1>2. file[l.item] \in Rows
  BY DEF DeskTyped, Files, Absent, Enterable
<1>3. LivesOn(file[l.item], q)
  BY <1>2, LivesTriggered
<1>4. LivesOn(file[l.item], p) /\ "status" \in DOMAIN p /\ p.status \in Enterable
  <2>1. CASE file[l.item].status = "active"
    BY <1>2, <2>1, LivesTriggered DEF Enterable
  <2>2. CASE file[l.item].status # "active"
    BY <1>2, <2>2, LivesTriggered DEF Enterable
  <2> QED BY <2>1, <2>2
<1>5. l.todo = {} /\ OfOp("order", l.op) /\ OfOp("idle", l.op) /\ Listed(m, file) /\ Entering(m)
  BY <1>1 DEF Listed, Singles, OfOp, Entering
<1>6. \/ Update(t, m, l.item, p, "order") \/ Update(t, l, l.item, q, "idle") \/ Become(t, "idle", l)
  BY DEF Trigger
<1> HIDE DEF m, p, q
<1>7. CASE Update(t, m, l.item, p, "order")
  BY <1>1, <1>4, <1>5, <1>7, OnwardSaving DEF Thens
<1>8. CASE Update(t, l, l.item, q, "idle")
  BY <1>3, <1>5, <1>8, OnwardSaving DEF Thens
<1>9. CASE Become(t, "idle", l)
  BY <1>9, Onward DEF Labels, Saving
<1> QED BY <1>6, <1>7, <1>8, <1>9

LEMMA StorePositions ==
  ASSUME Single, DeskTyped, ThreadsTyped, StoreInv, NEW t \in Threads, Positions(t)
  PROVE  StoreInv' /\ Unseen
<1> DEFINE l == [local[t] EXCEPT !.pos = position]
           open == {s \in LegsOf[l.item] : position[s] # 0}
           m == [l EXCEPT !.syms = open]
<1>1. /\ local[t] \in Locals /\ Fits("positions", local[t]) /\ Listed(local[t], file)
      /\ Subject("positions", local[t], file) /\ Calm(pc[t], local[t]) /\ file' = file /\ used' = used
  BY AlongNow DEF Positions, Saving, broker
<1>2. /\ l \in Locals /\ l.op = local[t].op /\ l.item = local[t].item /\ l.seen = local[t].seen /\ l.todo = local[t].todo
      /\ m.op = l.op /\ m.item = l.item /\ m.todo = l.todo
  BY <1>1 DEF Locals, DeskTyped
<1>3. \/ l.op \in {"close", "exits"} /\ Raise(t, l)
      \/ l.op \in {"close", "exits"} /\ Become(t, "order", m)
      \/ l.op \in {"buy", "sell"} /\ (Trigger(t, l, "long") \/ Trigger(t, l, "short"))
      \/ l.op \in {"reconcile", "adopt"} /\ Become(t, "orders", l)
      \/ l.op \in {"view", "link"} /\ Become(t, "read", l)
  BY DEF Positions
<1> HIDE DEF l, m
<1>4. Listed(l, file) /\ Listed(m, file) /\ Subject("positions", l, file)
  BY <1>1, <1>2 DEF Listed, Subject, Entering
<1>5. CASE l.op \in {"close", "exits"} /\ Raise(t, l)
  BY <1>1, <1>2, <1>4, <1>5, StoreRaise
<1>6. CASE l.op \in {"close", "exits"} /\ Become(t, "order", m)
  <2>1. OfOp("order", m.op) /\ Subject("order", m, file)
    BY <1>2, <1>4, <1>6 DEF OfOp, Subject, Entering
  <2> QED BY <1>1, <1>4, <1>6, <2>1, AlongAt, Onward DEF Labels, Saving
<1>7. CASE l.op \in {"buy", "sell"} /\ (Trigger(t, l, "long") \/ Trigger(t, l, "short"))
  <2>1. l.item \in Items /\ l.seen[l.item] = file[l.item] /\ file[l.item].status \in Enterable
    BY <1>1, <1>2, <1>4, <1>7 DEF Fits, Subject, Entering, Singles
  <2> QED BY <1>1, <1>2, <1>4, <1>7, <2>1, StoreTrigger
<1>8. CASE \/ l.op \in {"reconcile", "adopt"} /\ Become(t, "orders", l)
           \/ l.op \in {"view", "link"} /\ Become(t, "read", l)
  <2>1. PICK label \in {"orders", "read"} : Become(t, label, l) /\ OfOp(label, l.op) /\ Subject(label, l, file)
    BY <1>8 DEF OfOp, Subject
  <2> QED BY <1>1, <1>4, <2>1, AlongAt, Onward DEF Labels, Saving
<1> QED BY <1>3, <1>5, <1>6, <1>7, <1>8

LEMMA StoreAnswer ==
  ASSUME Single, ThreadsTyped, StoreInv, NEW t \in Threads, PositionsFail(t) \/ Orders(t) \/ OrdersFail(t)
  PROVE  StoreInv' /\ Unseen
<1> DEFINE o == [local[t] EXCEPT !.orders = {w.sym : w \in working}]
           n == [local[t] EXCEPT !.trusted = FALSE]
<1>1. /\ local[t] \in Locals /\ Listed(local[t], file) /\ Belongs(pc[t], local[t])
      /\ Calm(pc[t], local[t]) /\ file' = file /\ used' = used
  BY AlongNow DEF PositionsFail, Orders, OrdersFail, Saving, broker
<1>2. ASSUME NEW m \in {local[t], o, n} PROVE m.op = local[t].op /\ m.todo = local[t].todo
  BY <1>1 DEF Locals
<1>3. \/ Become(t, "idle", local[t])
      \/ \E m \in {local[t], o, n} : /\ Become(t, "each", m)
                                     /\ local[t].op = "exits" \/ pc[t] = "orders"
  BY DEF PositionsFail, Orders, OrdersFail
<1> HIDE DEF o, n
<1>4. CASE Become(t, "idle", local[t])
  BY <1>1, <1>4, Onward DEF Labels, Saving
<1>5. ASSUME NEW m \in {local[t], o, n}, Become(t, "each", m), local[t].op = "exits" \/ pc[t] = "orders"
      PROVE  StoreInv' /\ Unseen
  <2>1. Listed(m, file) /\ OfOp("each", m.op) /\ Subject("each", m, file)
    BY <1>1, <1>2, <1>5 DEF Listed, Belongs, OfOp, Subject, Loops
  <2> QED BY <1>1, <1>5, <2>1, AlongAt, Onward DEF Labels, Saving
<1> QED BY <1>3, <1>4, <1>5

LEMMA StoreVisit ==
  ASSUME Single, DeskTyped, ThreadsTyped, StoreInv, NEW t \in Threads, NEW i \in Items, Visit(t, i)
  PROVE  StoreInv' /\ Unseen
<1> DEFINE m == [local[t] EXCEPT !.todo = @ \ {i}]
           p(side) == [status |-> "triggered", signal |-> side]
<1>1. /\ local[t] \in Locals /\ Listed(local[t], file) /\ Belongs("each", local[t]) /\ i \in local[t].todo
      /\ Calm(pc[t], local[t]) /\ file' = file /\ used' = used
  BY AlongNow DEF Visit, Saving, broker
<1>2. m \in Locals /\ m.op = local[t].op /\ m.todo = local[t].todo \ {i}
  BY <1>1 DEF Locals
<1>3. /\ Listed(m, file) /\ m.op \in Loops /\ i \notin m.todo
      /\ m.op = "scan" => file[i].status = "waiting"
      /\ m.op \in {"reconcile", "adopt", "view", "link"} => file[i].status = "active"
  BY <1>1, <1>2 DEF Listed, Belongs, OfOp
<1>4. \/ m.op = "scan" /\ \E side \in {"long", "short"} : Update(t, m, i, p(side), "each")
      \/ m.op = "exits" /\ Update(t, m, i, <<>>, "decide")
      \/ Update(t, m, i, <<>>, "each")
      \/ m.op \in {"reconcile", "adopt", "view", "link"} /\ Update(t, m, i, Closed, "each")
      \/ Become(t, "each", m)
  BY <1>2 DEF Visit, ScanRow, ExitRow, ReconcileRow, CleanRow, SkipRow
<1> HIDE DEF m
<1>5. OfOp("each", m.op) /\ (m.op = "exits" => OfOp("decide", m.op))
  BY <1>3 DEF OfOp
<1>6. file[i] # Absent => file[i] \in Rows
  BY DEF DeskTyped, Files
<1>7. ASSUME NEW patch, NEW then \in {"each", "decide"}, Update(t, m, i, patch, then), then = "decide" => m.op = "exits",
             file[i] # Absent => LivesOn(file[i], patch)
      PROVE  StoreInv' /\ Unseen
  BY <1>1, <1>2, <1>3, <1>5, <1>7, OnwardSaving DEF Thens
<1>8. ASSUME NEW side \in {"long", "short"}, m.op = "scan", Update(t, m, i, p(side), "each") PROVE StoreInv' /\ Unseen
  <2>1. file[i] # Absent => LivesOn(file[i], p(side))
    BY <1>3, <1>6, <1>8, LivesTriggered
  <2> HIDE DEF p
  <2> QED BY <1>7, <1>8, <2>1
<1>9. CASE Update(t, m, i, <<>>, "each") \/ (m.op = "exits" /\ Update(t, m, i, <<>>, "decide"))
  <2>1. file[i] # Absent => LivesOn(file[i], <<>>)
    BY <1>6, LivesClosed
  <2> QED BY <1>7, <1>9, <2>1
<1>10. CASE m.op \in {"reconcile", "adopt", "view", "link"} /\ Update(t, m, i, Closed, "each")
  <2>1. file[i] # Absent => LivesOn(file[i], Closed)
    BY <1>3, <1>6, <1>10, LivesClosed
  <2> QED BY <1>7, <1>10, <2>1
<1>11. CASE Become(t, "each", m)
  <2>1. Subject("each", m, file)
    BY DEF Subject
  <2> QED BY <1>1, <1>3, <1>5, <1>11, <2>1, AlongAt, Onward DEF Labels, Saving
<1> QED BY <1>4, <1>8, <1>9, <1>10, <1>11

LEMMA StoreLoop ==
  ASSUME Single, ThreadsTyped, StoreInv, NEW t \in Threads, Decide(t) \/ LoopEnds(t)
  PROVE  StoreInv' /\ Unseen
<1> DEFINE m == [local[t] EXCEPT !.syms = Orphans(local[t].pos, local[t].seen)]
           n == [local[t] EXCEPT !.syms = Orphans(local[t].pos, file), !.seen = file]
<1>1. /\ local[t] \in Locals /\ Listed(local[t], file) /\ Belongs(pc[t], local[t])
      /\ Calm(pc[t], local[t]) /\ file' = file /\ used' = used
  BY AlongNow DEF Decide, LoopEnds, Saving, broker
<1>2. ASSUME NEW k \in {m, n} PROVE k.op = local[t].op /\ k.todo = local[t].todo
  BY <1>1 DEF Locals
<1>3. \/ Become(t, "idle", local[t])
      \/ pc[t] = "decide" /\ file[local[t].item].status = "active" /\ Become(t, "positions", local[t])
      \/ pc[t] = "decide" /\ Become(t, "each", local[t])
      \/ \E k \in {m, n} : local[t].op \in {"adopt", "link"} /\ local[t].todo = {} /\ Become(t, "link", k)
  BY DEF Decide, LoopEnds
<1> HIDE DEF m, n
<1>4. CASE Become(t, "idle", local[t])
  BY <1>1, <1>4, Onward DEF Labels, Saving
<1>5. ASSUME pc[t] = "decide", NEW label \in {"positions", "each"}, Become(t, label, local[t]),
             label = "positions" => file[local[t].item].status = "active"
      PROVE  StoreInv' /\ Unseen
  <2>1. OfOp(label, local[t].op) /\ Subject(label, local[t], file)
    BY <1>1, <1>5 DEF Belongs, OfOp, Subject, Loops, Entering
  <2> QED BY <1>1, <1>5, <2>1, AlongAt, Onward DEF Labels, Saving
<1>6. ASSUME NEW k \in {m, n}, local[t].op \in {"adopt", "link"}, local[t].todo = {}, Become(t, "link", k)
      PROVE  StoreInv' /\ Unseen
  <2>1. Listed(k, file) /\ OfOp("link", k.op) /\ Subject("link", k, file) /\ k.todo = {}
    BY <1>1, <1>2, <1>6 DEF Listed, OfOp, Subject
  <2> QED BY <1>1, <1>6, <2>1, AlongAt, Onward DEF Labels, Saving
<1> QED BY <1>3, <1>4, <1>5, <1>6

LEMMA StoreLink ==
  ASSUME Single, DeskTyped, ThreadsTyped, StoreInv, NEW t \in Threads, NEW s \in Symbols, Link(t, s)
  PROVE  StoreInv' /\ Unseen
<1> DEFINE l == [local[t] EXCEPT !.syms = @ \ {s}]
           p == Linked(l.pos[s])
           m(i) == [l EXCEPT !.item = i, !.save = "add", !.patch = p, !.then = "linked"]
<1>1. /\ local[t] \in Locals /\ Listed(local[t], file) /\ Belongs("link", local[t]) /\ local[t].todo = {}
      /\ Calm(pc[t], local[t]) /\ file' = file /\ pc[t] = "link"
  BY AlongNow DEF Link, Saving, Visited, broker
<1>2. l \in Locals /\ l.op = local[t].op /\ l.todo = {} /\ l.pos = local[t].pos
  BY <1>1 DEF Locals
<1>3. l.op \in {"adopt", "link"} /\ Listed(l, file)
  BY <1>1, <1>2 DEF Belongs, OfOp, Listed
<1> HIDE DEF l, p
<1>4. p \in {Linked(-1), Linked(1)}
  <2>1. l.pos[s] \in Int
    BY <1>2 DEF Locals
  <2> QED BY <2>1, LinkedEither DEF p
<1>5. ASSUME NEW i \in Items
      PROVE  /\ m(i).op = l.op /\ m(i).todo = {} /\ m(i).item = i
             /\ m(i).save = "add" /\ m(i).patch = p /\ m(i).then = "linked"
  BY <1>2 DEF Locals
<1>6. \/ \E i \in Items : Update(t, l, i, p, "link") /\ used' = used
      \/ \E i \in Items \ used : Become(t, "load", m(i)) /\ used' = used \cup {i}
      \/ Become(t, "link", l) /\ used' = used
  BY DEF Link, p, l
<1> HIDE DEF m
<1>7. OfOp("link", l.op) /\ OfOp("linked", l.op) /\ ~Entering(l)
  BY <1>3 DEF OfOp, Entering
<1>8. ASSUME NEW i \in Items, Update(t, l, i, p, "link"), used' = used PROVE StoreInv' /\ Unseen
  <2>1. file[i] # Absent => LivesOn(file[i], p)
    BY LivesLinked DEF DeskTyped, Files, p
  <2> QED BY <1>1, <1>2, <1>3, <1>7, <1>8, <2>1, OnwardSaving DEF Thens
<1>9. ASSUME NEW i \in Items \ used, Become(t, "load", m(i)), used' = used \cup {i} PROVE StoreInv' /\ Unseen
  <2>1. Belongs("load", m(i)) /\ Visited("load", m(i)) /\ Listed(m(i), file)
    BY <1>2, <1>3, <1>5, <1>7 DEF Belongs, OfOp, Visited, Listed, Saving
  <2>2. Subject("load", m(i), file) /\ SavesLife("load", m(i), file)
    BY <1>4, <1>5 DEF Subject, SavesLife, Saving
  <2>3. Along("load", m(i), file', used')
    BY <1>1, <1>5, <1>9, <2>1, <2>2 DEF Along, Content
  <2>4. StoreInv' /\ pc'[t] = "load" /\ local'[t] = m(i)
    BY <1>9, <2>3, AlongGoes DEF Labels
  <2>5. Stored' = file /\ Stored = file /\ Spent = used
    BY <1>1, <2>4, StoredOf, StoredNext DEF Saving
  <2>6. Spent' = used' \ {i}
    BY <1>5, <2>4, StoredNext DEF Saving
  <2> QED BY <1>9, <2>4, <2>5, <2>6 DEF Unseen
<1>10. CASE Become(t, "link", l) /\ used' = used
  <2>1. Subject("link", l, file)
    BY DEF Subject
  <2> QED BY <1>1, <1>2, <1>3, <1>7, <1>10, <2>1, AlongAt, Onward DEF Labels, Saving
<1> QED BY <1>6, <1>8, <1>9, <1>10

LEMMA StoreLinking ==
  ASSUME Single, DeskTyped, ThreadsTyped, StoreInv, NEW t \in Threads, Linking(t)
  PROVE  StoreInv' /\ Unseen
<1> DEFINE l == local[t]
<1>1. /\ l \in Locals /\ Fits(pc[t], l) /\ Listed(l, file) /\ Belongs(pc[t], l) /\ Along(pc[t], l, file, used)
      /\ Calm(pc[t], l) /\ file' = file /\ used' = used
  BY AlongNow DEF Linking, Saving, broker
<1> HIDE DEF l
<1>2. CASE pc[t] = "linked" /\ Update(t, l, l.item, l.patch, "link")
  <2>1. l.item \in Items /\ OfOp("link", l.op) /\ l.todo = {} /\ l.patch \in {Linked(-1), Linked(1)}
    BY <1>1, <1>2 DEF Fits, Belongs, OfOp, Along, Visited, SavesLife
  <2>2. file[l.item] # Absent => LivesOn(file[l.item], l.patch)
    BY <2>1, LivesLinked DEF DeskTyped, Files
  <2> QED BY <1>1, <1>2, <2>1, <2>2, OnwardSaving DEF Thens, l
<1>3. CASE Become(t, "idle", l)
  BY <1>1, <1>3, Onward DEF Labels, Saving, l
<1> QED BY <1>2, <1>3 DEF Linking, l

LEMMA StoreOrder ==
  ASSUME Single, DeskTyped, ThreadsTyped, StoreInv, NEW t \in Threads, NEW s \in Symbols,
         OrderAcked(t, s) \/ OrderRaises(t, s)
  PROVE  StoreInv' /\ Unseen
<1> DEFINE l == [local[t] EXCEPT !.syms = @ \ {s}, !.sent = Entering(local[t])]
           m == [local[t] EXCEPT !.sent = Entering(local[t])]
           i == local[t].item
<1>1. /\ local[t] \in Locals /\ i \in Items /\ Listed(local[t], file) /\ Belongs("order", local[t])
      /\ Subject("order", local[t], file) /\ Calm(pc[t], local[t]) /\ file' = file /\ used' = used
  BY AlongNow DEF OrderAcked, OrderRaises, Saving, Fits
<1>2. /\ l.op = local[t].op /\ l.item = i /\ l.todo = local[t].todo
      /\ m.op = local[t].op /\ m.todo = local[t].todo
      /\ l \in Locals /\ m \in Locals
  <2>1. PICK e \in {TRUE, FALSE} : e = Entering(local[t])
    <3>1. Entering(local[t]) = TRUE \/ Entering(local[t]) = FALSE
      BY DEF Entering
    <3> QED BY <3>1
  <2>2. /\ l = [local[t] EXCEPT !.syms = @ \ {s}, !.sent = e]
        /\ m = [local[t] EXCEPT !.sent = e]
    BY <2>1
  <2> HIDE DEF l, m
  <2> QED BY <1>1, <2>1, <2>2 DEF Locals
<1>3. l.op \in {"activate", "buy", "sell", "close", "exits"} /\ Listed(l, file) /\ Listed(m, file)
  BY <1>1, <1>2 DEF Belongs, OfOp, Listed
<1>4. l.op # "exits" => l.todo = {}
  BY <1>3 DEF Listed, Singles
<1>5. \/ Raise(t, local[t]) \/ Raise(t, m) \/ Become(t, "order", l)
      \/ Update(t, l, i, IF Entering(l) THEN Entered ELSE Closed, IF l.op = "exits" THEN "each" ELSE "idle")
  BY <1>2 DEF OrderAcked, OrderRaises
<1> HIDE DEF l, m
<1>6. CASE Raise(t, local[t]) \/ Raise(t, m)
  BY <1>1, <1>2, <1>3, <1>6, StoreRaise
<1>7. CASE Become(t, "order", l)
  <2>1. OfOp("order", l.op) /\ Subject("order", l, file)
    BY <1>1, <1>2, <1>3 DEF OfOp, Subject, Entering
  <2> QED BY <1>1, <1>3, <1>7, <2>1, AlongAt, Onward DEF Labels, Saving
<1>8. CASE Update(t, l, i, IF Entering(l) THEN Entered ELSE Closed, IF l.op = "exits" THEN "each" ELSE "idle")
  <2> DEFINE patch == IF Entering(l) THEN Entered ELSE Closed
             then == IF l.op = "exits" THEN "each" ELSE "idle"
  <2>1. then \in {"each", "idle"} /\ (then = "each" <=> l.op = "exits")
    OBVIOUS
  <2>2. file[i] # Absent => file[i] \in Rows
    BY <1>1 DEF DeskTyped, Files
  <2>3. file[i].status \in IF Entering(l) THEN Enterable ELSE {"active"}
    BY <1>1, <1>2, <1>3 DEF Subject, Entering
  <2>4. file[i] # Absent => LivesOn(file[i], patch)
    BY <2>2, <2>3, LivesClosed
  <2> HIDE DEF patch
  <2>5. OfOp(then, l.op)
    BY <2>1 DEF OfOp, Loops
  <2>6. Update(t, l, i, patch, then)
    BY <1>8 DEF patch
  <2> HIDE DEF then
  <2> QED BY <1>1, <1>2, <1>3, <1>4, <2>1, <2>4, <2>5, <2>6, OnwardSaving DEF Thens
<1> QED BY <1>5, <1>6, <1>7, <1>8

LEMMA StoreLoad ==
  ASSUME Single, DeskTyped, ThreadsTyped, StoreInv, NEW t \in Threads, Load(t)
  PROVE  StoreInv' /\ Unseen
<1> DEFINE l == [local[t] EXCEPT !.rows = file]
<1>1. /\ local[t] \in Locals /\ Along("load", local[t], file, used) /\ pc[t] = "load"
      /\ file' = file /\ used' = used
  BY AlongNow DEF Load, broker
<1>2. /\ l \in Locals /\ l.rows = file
      /\ l.op = local[t].op /\ l.seen = local[t].seen /\ l.todo = local[t].todo
      /\ l.item = local[t].item /\ l.save = local[t].save /\ l.patch = local[t].patch /\ l.then = local[t].then
  BY <1>1 DEF Locals, DeskTyped
<1>3. Become(t, "open", l) \/ (l.save # "add" /\ Raise(t, l))
  BY DEF Load
<1> HIDE DEF l
<1>4. Belongs("load", local[t]) /\ Visited("load", local[t]) /\ Listed(local[t], file) /\ SavesLife("load", local[t], file)
  BY <1>1 DEF Along, Content
<1>5. Listed(l, file)
  BY <1>2, <1>4 DEF Listed
<1>6. CASE Become(t, "open", l)
  <2>1. Belongs("open", l) /\ Visited("open", l) /\ Subject("open", l, file) /\ SavesLife("open", l, file)
    BY <1>2, <1>4 DEF Belongs, OfOp, Visited, Subject, SavesLife, Saving, Entering
  <2>2. l.save = "add" => l.item \in used
    BY <1>1, <1>2 DEF Along, Saving
  <2>3. Along("open", l, file', used')
    BY <1>1, <1>2, <1>5, <2>1, <2>2 DEF Along, Content
  <2>4. StoreInv' /\ pc'[t] = "open" /\ local'[t] = l
    BY <1>6, <2>3, AlongGoes DEF Labels
  <2> QED BY <1>1, <1>2, <2>4, StoredOf, StoredNext DEF Unseen, Saving
<1>7. CASE l.save # "add" /\ Raise(t, l)
  <2>1. Calm(pc[t], local[t])
    BY <1>1, <1>2, <1>7 DEF Calm
  <2>2. l.op = "adopt" /\ l.then # "each" => l.todo = {}
    BY <1>2, <1>4 DEF Visited, Belongs, OfOp, Saving
  <2> QED BY <1>1, <1>2, <1>5, <1>7, <2>1, <2>2, StoreRaise
<1> QED BY <1>3, <1>6, <1>7

LEMMA StoreOpen ==
  ASSUME Single, ThreadsTyped, StoreInv, NEW t \in Threads, Open(t)
  PROVE  StoreInv' /\ Unseen
<1> DEFINE l == local[t]
<1>1. /\ Along("open", l, file, used) /\ pc[t] = "open" /\ file' = NoRows /\ used' = used /\ Become(t, "write", l)
  BY AlongNow DEF Open
<1> HIDE DEF l
<1>2. /\ l.rows = file /\ Belongs("open", l) /\ Visited("open", l) /\ Listed(l, l.rows)
      /\ Subject("open", l, l.rows) /\ SavesLife("open", l, l.rows) /\ (l.save = "add" => l.item \in used)
  BY <1>1 DEF Along, Content, Saving
<1>3. Belongs("write", l) /\ Visited("write", l) /\ Subject("write", l, l.rows) /\ SavesLife("write", l, l.rows)
  BY <1>2 DEF Belongs, OfOp, Visited, Subject, SavesLife, Saving, Entering
<1>4. Along("write", l, file', used')
  BY <1>1, <1>2, <1>3 DEF Along, Content
<1>5. StoreInv' /\ pc'[t] = "write" /\ local'[t] = l
  BY <1>1, <1>4, AlongGoes DEF Labels
<1> QED BY <1>1, <1>2, <1>5, StoredOf, StoredNext DEF Unseen, Saving, l

(* A save is what the row's life allows; whatever the operation does next, it
   goes on with what it has just saved. *)
LEMMA StoreWrite ==
  ASSUME Single, DeskTyped, ThreadsTyped, StoreInv, NEW t \in Threads, Write(t)
  PROVE  StoreInv' /\ [\E i \in Items : Store!Add(i) \/ Store!Change(i) \/ Store!Remove(i)]_(Store!rowsVars)
<1> DEFINE l == local[t]
           m == [l EXCEPT !.rows = NoRows, !.sent = FALSE]
           new == [status |-> "waiting", signal |-> "none", exited |-> FALSE]
           merged == Merge(l.rows[l.item], l.patch)
<1>1. /\ l \in Locals /\ Fits("write", l) /\ Along("write", l, file, used) /\ pc[t] = "write" /\ used' = used
  BY AlongNow DEF Write
<1>2. /\ Become(t, l.then, m)
      /\ file' = [l.rows EXCEPT ![l.item] = CASE l.save = "add" -> new [] l.save = "remove" -> Absent [] OTHER -> merged]
  BY DEF Write
<1>3. /\ m.op = l.op /\ m.todo = l.todo /\ m.item = l.item /\ m.patch = l.patch
  BY <1>1 DEF Locals
<1>4. l.item \in Items /\ l.rows \in Files /\ l.patch \in Patches /\ l.then \in Thens
  BY <1>1 DEF Fits, Saving, Locals, Thens
<1>5. l.save # "add" => l.rows[l.item] # Absent /\ l.rows[l.item] \in Rows
  BY <1>1, <1>4 DEF Fits, Files
<1> HIDE DEF l, m
<1>6. /\ Belongs("write", l) /\ Visited("write", l) /\ Listed(l, l.rows) /\ SavesLife("write", l, l.rows)
      /\ l.save = "add" => l.item \in used
  BY <1>1 DEF Along, Content, Saving
<1>7. l.save \in {"add", "remove", "update"}
  BY <1>6 DEF Belongs, Saving
<1>8. PICK rec : /\ file' = [l.rows EXCEPT ![l.item] = rec]
                 /\ l.save = "add" => rec = new
                 /\ l.save = "remove" => rec = Absent
                 /\ l.save = "update" => rec = merged
  BY <1>2
<1> HIDE DEF merged, new
<1>9. file'[l.item] = rec /\ \A j \in Items \ {l.item} : file'[j] = l.rows[j]
  BY <1>4, <1>8 DEF Files
<1>10. StoreInv' /\ pc'[t] = l.then
  <2>1. Belongs(l.then, m) /\ (l.then \in {"link", "linked"} => m.todo = {})
    BY <1>3, <1>4, <1>6 DEF Belongs, OfOp, Visited, Saving, Thens
  <2>2. Listed(m, file')
    <3>1. l.op # "exits" => l.item \notin l.todo
      BY <1>6 DEF Visited, Saving
    <3>2. l.op # "exits" => \A j \in l.todo : file'[j] = l.rows[j]
      BY <1>1, <1>9, <3>1 DEF Locals, l
    <3> QED BY <1>3, <1>6, <3>2 DEF Listed
  <2>3. Subject(l.then, m, file')
    <3>1. l.then = "order" => rec.status \in Enterable
      BY <1>4, <1>5, <1>6, <1>8 DEF Belongs, SavesLife, Saving, Merge, Rows, merged
    <3>2. l.then = "order" => Entering(l) /\ Entering(m)
      BY <1>3, <1>6 DEF Belongs, Saving, Entering
    <3> QED BY <1>3, <1>4, <1>9, <3>1, <3>2 DEF Subject, Thens, Entering
  <2>4. Along(l.then, m, file', used')
    BY <1>3, <1>4, <1>6, <2>1, <2>2, <2>3 DEF Along, Content, Belongs, Visited, SavesLife, Saving, Thens
  <2> QED BY <1>2, <1>4, <2>4, AlongGoes DEF Labels, Thens
<1>11. /\ Stored = l.rows /\ Stored' = file' /\ Spent' = used
       /\ Spent = used \ (IF l.save = "add" THEN {l.item} ELSE {})
  BY <1>1, <1>4, <1>10, StoredOf, StoredNext DEF Saving, Thens, l
<1>12. CASE l.save = "add"
  <2>1. new = Store!New
    BY DEF new, Store!New
  <2>2. Store!Add(l.item)
    BY <1>6, <1>8, <1>11, <1>12, <2>1 DEF Store!Add
  <2> QED BY <1>4, <1>10, <2>2
<1>13. CASE l.save = "remove"
  <2>1. Absent = Store!Absent /\ l.rows[l.item] \in Store!Rows
    BY <1>5, <1>13 DEF Absent, Store!Absent, Rows, Store!Rows, Statuses, Signals, Store!Pending, Store!Sides
  <2>2. Store!Remove(l.item)
    BY <1>8, <1>11, <1>13, <2>1 DEF Store!Remove
  <2> QED BY <1>4, <1>10, <2>2
<1>14. CASE l.save = "update"
  <2>1. merged \in Rows /\ LivesOn(l.rows[l.item], l.patch)
    BY <1>4, <1>5, <1>6, <1>14, MergeTyped DEF SavesLife, Saving, merged
  <2>2. l.rows[l.item] \in Store!Rows /\ merged \in Store!Rows
    BY <1>5, <1>14, <2>1 DEF Rows, Store!Rows, Statuses, Signals, Store!Pending, Store!Sides
  <2>3. CASE merged = l.rows[l.item]
    <3>1. Stored' = Stored
      BY <1>4, <1>8, <1>11, <1>14, <2>3 DEF Files
    <3> QED BY <1>10, <1>11, <1>14, <3>1 DEF Store!rowsVars
  <2>4. CASE Store!Lives(l.rows[l.item], merged)
    <3>1. Store!Change(l.item)
      BY <1>8, <1>11, <1>14, <2>2, <2>4 DEF Store!Change
    <3> QED BY <1>4, <1>10, <3>1
  <2> QED BY <2>1, <2>3, <2>4 DEF LivesOn, merged
<1> QED BY <1>7, <1>12, <1>13, <1>14

LEMMA StoreSteps ==
  ASSUME Single, DeskTyped, ThreadsTyped, StoreInv, NEW t \in Threads, Step(t)
  PROVE  StoreInv' /\ [Store!RowsNext]_(Store!rowsVars)
<1>1. CASE Write(t)
  BY <1>1, StoreWrite DEF Store!RowsNext
<1>2. ASSUME ~Write(t) PROVE StoreInv' /\ Unseen
  <2>1. CASE ReadRow(t) \/ ReadRows(t)
    BY <2>1, StoreReadRow, StoreReadRows
  <2>2. CASE Positions(t) \/ PositionsFail(t) \/ Orders(t) \/ OrdersFail(t)
    BY <2>2, StorePositions, StoreAnswer
  <2>3. CASE (\E i \in Items : Visit(t, i)) \/ Decide(t) \/ LoopEnds(t)
    BY <2>3, StoreVisit, StoreLoop
  <2>4. CASE Linking(t) \/ \E s \in Symbols : Link(t, s)
    BY <2>4, StoreLinking, StoreLink
  <2>5. CASE \E s \in Symbols : OrderAcked(t, s) \/ OrderRaises(t, s)
    BY <2>5, StoreOrder
  <2>6. CASE Load(t) \/ Open(t)
    BY <2>6, StoreLoad, StoreOpen
  <2> QED BY <1>2, <2>1, <2>2, <2>3, <2>4, <2>5, <2>6 DEF Step
<1> QED BY <1>1, <1>2 DEF Unseen, Store!rowsVars

(* A crash shows the file as it is: as it was, or empty. *)
LEMMA StoreCrash ==
  ASSUME Single, DeskTyped, ThreadsTyped, StoreInv, Crash
  PROVE  StoreInv' /\ [Store!Lose]_(Store!rowsVars)
<1>1. \A t \in Threads : pc'[t] = "idle" /\ local'[t] = Blank
  BY DEF Crash
<1>2. \A t \in Threads : Along(pc'[t], local'[t], file', used')
  BY <1>1, IdleAlong
<1>3. StoreInv'
  BY <1>2, AlongNext
<1>4. StoreInv' /\ file' = file /\ used' = used
  BY <1>3 DEF Crash
<1>5. Store!NoRows = NoRows
  BY DEF Store!NoRows, NoRows, Store!Absent, Absent
<1>6. CASE Threads = {}
  <2>1. Stored' = file /\ Stored = file /\ Spent' = used /\ Spent = used
    BY <1>4, <1>6 DEF Stored, Spent, Rewriting, Adding
  <2> QED BY <1>4, <2>1 DEF Store!rowsVars
<1>7. ASSUME NEW t \in Threads PROVE Store!Lose
  <2>1. Stored' = file /\ Spent' = used
    BY <1>1, <1>4, StoredNext DEF Saving
  <2>2. Stored = file \/ file = NoRows
    BY AlongNow, StoredOf DEF Along
  <2>3. Spent \subseteq used /\ used \subseteq Items
    BY StoredOf DEF DeskTyped
  <2> QED BY <1>5, <2>1, <2>2, <2>3 DEF Store!Lose
<1> QED BY <1>4, <1>6, <1>7

LEMMA StoreNext == Single => (TypeInv /\ StoreInv /\ [Next]_vars => StoreInv' /\ [Store!RowsNext]_(Store!rowsVars))
<1> SUFFICES ASSUME Single, DeskTyped, ThreadsTyped, StoreInv, [Next]_vars
             PROVE  StoreInv' /\ [Store!RowsNext]_(Store!rowsVars)
  BY TypeParts
<1>1. CASE \E t \in Threads, op \in Loops \cup Singles, i \in Items \cup {NoItem} : op \in Ops[t] /\ Begin(t, op, i)
  BY <1>1, StoreBegin DEF Unseen, Store!rowsVars
<1>2. CASE \E t \in Threads : Step(t)
  BY <1>2, StoreSteps
<1>3. CASE (\E o \in working : Settle(o)) \/ (\E s \in Symbols : SquareOff(s)) \/ UNCHANGED vars
  <2>1. UNCHANGED <<file, used, pc, local>>
    BY <1>3 DEF Settle, SquareOff, vars
  <2>2. StoreInv'
    BY <2>1, AlongNext DEF StoreInv
  <2>3. Stored' = Stored /\ Spent' = Spent
    BY <2>1 DEF Stored, Spent, Adding, Rewriting
  <2> QED BY <2>2, <2>3 DEF Store!rowsVars
<1>4. CASE Crash
  BY <1>4, StoreCrash DEF Store!RowsNext
<1>5. \A t \in Threads : Ops[t] \subseteq Loops \cup Singles
  BY BoundsAssumption
<1> QED BY <1>1, <1>2, <1>3, <1>4, <1>5 DEF Next

LEMMA StoreInit == Init => StoreInv /\ Store!RowsInit
<1> SUFFICES ASSUME Init PROVE StoreInv /\ Store!RowsInit
  OBVIOUS
<1>1. StoreInv
  BY IdleAlong DEF Init, StoreInv
<1>2. Stored = file /\ Spent = used
  BY DEF Init, Stored, Spent, Rewriting, Adding
<1> QED BY <1>1, <1>2 DEF Init, Store!RowsInit, Store!NoRows, NoRows, Store!Absent, Absent

(* With one thread the file is a list whose changes are atomic: each save is one
   legal step of one row's life, for any number of rows and orders, whatever
   fails or is traded beside, and a crash loses the list as a whole or nothing. *)
THEOREM StoreRefined == ASSUME Single PROVE Spec => StoreIsAtomic
<1>1. Init => StoreInv /\ Store!RowsInit
  BY StoreInit
<1>2. TypeInv /\ StoreInv /\ [Next]_vars => StoreInv' /\ [Store!RowsNext]_(Store!rowsVars)
  BY StoreNext
<1> QED BY <1>1, <1>2, AlwaysTyped, PTL DEF Spec, StoreIsAtomic, Store!RowsSpec

-----------------------------------------------------------------------------
(* The exit runner. *)
Stops == {NoPrice} \cup (Lowest - 1 .. Highest + 1)
Marks == Prices \cup {NoPrice}
Kinds == {"none", "risk", "zone_ltp", "zone_bar", "force"}
RowType == [status : {"active", "closed"}, trail : Stops, extreme : Marks, entry_bar : Nat]
MarketType == [price : Prices, bar : Nat, high : Prices, low : Lowest - 1 .. Highest, band : Int,
               zone : BOOLEAN, due : BOOLEAN]
SignalType == [high : Int, low : Int, band : Int, zone : BOOLEAN, bar : Nat]
ScanType == [pc : {"idle", "signals", "save", "confirm", "close"}, item : RowType, ltp : Marks, signals : SignalType,
             trail : Stops, extreme : Marks, kind : Kinds]

Types ==
    /\ watch \in ExitCases
    /\ row \in RowType /\ row.extreme \in Prices
    /\ market \in MarketType
    /\ scan \in ScanType
    /\ seen \in [low : Prices, high : Prices] /\ seen.low <= market.price /\ market.price <= seen.high

(* The last bar's price that a stop in points follows. *)
Bar(s) == IF Long THEN s.high ELSE s.low

(* A stop that has followed the best price, or the bar. *)
Followed(trail, extreme, s) ==
    /\ watch.sl = "Pts" \/ watch.tsl # "Off" => trail # NoPrice
    /\ watch.tsl = "ATR" => InFavour(trail, Behind(extreme, 1))
    /\ watch.tsl = "Pts" => InFavour(trail, Behind(Bar(s), 1))

(* The stop and the best price the scan is about to save are no worse than
   those of the row, which nobody else changes. *)
Ratcheting ==
    scan.pc \in {"signals", "save"} =>
        /\ row.status = "active" /\ scan.item = row
        /\ scan.pc = "save" =>
             /\ row.trail # NoPrice => scan.trail # NoPrice /\ InFavour(scan.trail, row.trail)
             /\ scan.extreme \in Prices /\ InFavour(scan.extreme, row.extreme)
             /\ scan.kind \in {"risk", "zone_ltp"} => Followed(scan.trail, row.extreme, scan.signals)

(* After the save the stop of the scan is the one in the file, and an exit by
   price is about to be confirmed or was. *)
Closing ==
    scan.pc \in {"confirm", "close"} =>
        /\ row.trail = scan.trail
        /\ scan.pc = "confirm" => Followed(scan.trail, scan.item.extreme, scan.signals) /\ scan.item.extreme \in Prices
        /\ scan.pc = "close" /\ scan.kind = "risk" =>
             seen.low <= scan.ltp /\ scan.ltp <= seen.high /\ RiskHit(scan.ltp, row.trail)

Inv == Types /\ Ratcheting /\ Closing

(* Prices are positive integers. *)
LEMMA PriceRange == /\ Prices \subseteq Nat /\ Prices \subseteq Int /\ NoPrice \notin Prices
                    /\ Stops \subseteq Int /\ Marks \subseteq Int /\ EntryPrice \in Prices
                    /\ \A p \in Prices : {p - 1, p + 1} \subseteq Stops \ {NoPrice}
BY PricesAssumption DEF Prices, NoPrice, Stops, Marks

(* A case of a row. *)
LEMMA CaseType ==
  ASSUME watch \in ExitCases
  PROVE  watch.side \in {"long", "short"} /\ watch.tsl \in {"Off", "ATR", "Pts"} /\ watch.sl \in {"Off", "Pts"}
BY ExitCasesAssumption

(* The order of prices from the side of the trade. *)
LEMMA Favour ==
  ASSUME NEW a \in Int, NEW b \in Int, NEW c \in Int
  PROVE  /\ InFavour(a, a) /\ (InFavour(a, b) /\ InFavour(b, c) => InFavour(a, c))
         /\ Better(a, b) \in {a, b} /\ InFavour(Better(a, b), a) /\ InFavour(Better(a, b), b)
         /\ (InFavour(a, b) => Better(a, b) = a)
         /\ (InFavour(a, b) => InFavour(Behind(a, 1), Behind(b, 1)))
         /\ Behind(a, 1) \in {a - 1, a + 1} /\ ~Against(a, Behind(a, 1))
BY DEF InFavour, Better, Behind, Against, Most, Least

(* A stop that follows a price follows any worse price. *)
LEMMA FollowsLess ==
  ASSUME NEW a \in Int, NEW b \in Int, NEW c \in Int, InFavour(a, b), InFavour(c, Behind(a, 1))
  PROVE  InFavour(c, Behind(b, 1))
BY DEF InFavour, Behind

(* _update_trail_stop: the new stop is a price, no worse than the old one, and
   has followed. *)
LEMMA TrailRatchets ==
  ASSUME watch \in ExitCases, NEW r \in RowType, NEW s, s.high \in Prices, s.low \in Lowest - 1 .. Highest,
         NEW ref \in Prices
  PROVE  /\ TrailOf(r, s, ref) \in Stops
         /\ r.trail # NoPrice => TrailOf(r, s, ref) # NoPrice /\ InFavour(TrailOf(r, s, ref), r.trail)
         /\ Followed(TrailOf(r, s, ref), ref, s)
<1> DEFINE first == IF r.trail # NoPrice THEN r.trail
                    ELSE IF watch.sl = "Pts" THEN Behind(EntryPrice, 1) ELSE NoPrice
           candidate == Behind(IF watch.tsl = "ATR" THEN ref ELSE Bar(s), 1)
<1>1. TrailOf(r, s, ref) = IF watch.tsl = "Off" THEN first
                           ELSE IF first = NoPrice THEN candidate ELSE Better(first, candidate)
  BY DEF TrailOf, Bar
<1>2. r.trail \in Stops
  BY DEF RowType
<1>3. first \in Stops /\ (watch.sl = "Pts" => first # NoPrice)
  <2>1. Behind(EntryPrice, 1) \in Stops \ {NoPrice}
    BY PriceRange DEF Behind
  <2> QED BY <1>2, <2>1 DEF Stops
<1>4. Behind(Bar(s), 1) \in Stops \ {NoPrice}
  BY PricesAssumption, CaseType DEF Bar, Behind, Stops, Long, Prices, NoPrice
<1>5. candidate \in Stops \ {NoPrice}
  BY <1>4, PriceRange, Favour
<1>6. first \in Int /\ candidate \in Int
  BY <1>3, <1>5, PriceRange
<1>7. r.trail # NoPrice => first = r.trail
  OBVIOUS
<1>8. candidate = IF watch.tsl = "ATR" THEN Behind(ref, 1) ELSE Behind(Bar(s), 1)
  OBVIOUS
<1> HIDE DEF first, candidate
<1>9. Better(first, candidate) \in {first, candidate} /\ InFavour(Better(first, candidate), first)
      /\ InFavour(Better(first, candidate), candidate) /\ InFavour(candidate, candidate) /\ InFavour(first, first)
  BY <1>6, Favour
<1>10. TrailOf(r, s, ref) \in Stops
  BY <1>1, <1>3, <1>5, <1>9
<1>11. ASSUME first # NoPrice
       PROVE  TrailOf(r, s, ref) # NoPrice /\ InFavour(TrailOf(r, s, ref), first)
  BY <1>1, <1>5, <1>9, <1>11
<1>12. ASSUME watch.tsl # "Off"
       PROVE  TrailOf(r, s, ref) # NoPrice /\ InFavour(TrailOf(r, s, ref), candidate)
  BY <1>1, <1>5, <1>9, <1>12
<1> QED BY <1>3, <1>7, <1>8, <1>10, <1>11, <1>12 DEF Followed

(* The confirmation recomputes the stop; a price it hits is also behind the
   stop that was saved. *)
LEMMA RecheckedStop ==
  ASSUME watch \in ExitCases, NEW r \in RowType, NEW s \in SignalType, NEW p \in Prices, NEW best \in Prices,
         Followed(r.trail, best, s),
         RiskHit(p, TrailOf(r, s, Better(best, p)))
  PROVE  RiskHit(p, r.trail)
<1> DEFINE new == TrailOf(r, s, Better(best, p))
           bar == IF Long THEN s.high ELSE s.low
           candidate == Behind(IF watch.tsl = "ATR" THEN Better(best, p) ELSE bar, 1)
<1>1. r.trail \in Int /\ p \in Int /\ best \in Int /\ bar \in Int /\ Bar(s) = bar
  <2>1. r.trail \in Int
    BY PriceRange DEF RowType
  <2>2. p \in Int /\ best \in Int
    BY PriceRange
  <2>3. s.high \in Int /\ s.low \in Int
    BY DEF SignalType
  <2> QED BY <2>1, <2>2, <2>3 DEF Bar
<1>2. RiskHit(p, new)
  OBVIOUS
<1>3. new = IF watch.tsl = "Off" THEN IF r.trail # NoPrice THEN r.trail
                                      ELSE IF watch.sl = "Pts" THEN Behind(EntryPrice, 1) ELSE NoPrice
            ELSE IF r.trail # NoPrice THEN Better(r.trail, candidate)
            ELSE IF watch.sl = "Pts" THEN Better(Behind(EntryPrice, 1), candidate) ELSE candidate
  <2>1. Behind(EntryPrice, 1) # NoPrice
    BY PricesAssumption DEF Behind, Prices, NoPrice
  <2> QED BY <2>1 DEF TrailOf
<1>4. Better(best, p) \in {best, p}
  BY <1>1, Favour
<1>5. watch.tsl \in {"Off", "ATR", "Pts"} /\ watch.sl \in {"Off", "Pts"}
  BY CaseType
<1>6. candidate = Behind(best, 1) \/ candidate = Behind(p, 1) \/ candidate = Behind(bar, 1)
  BY <1>4
<1>7. watch.tsl # "Off" => r.trail # NoPrice /\ (InFavour(r.trail, candidate) \/ candidate = Behind(p, 1))
  BY <1>1, <1>4, <1>5 DEF Followed
<1>8. watch.tsl = "Off" /\ r.trail = NoPrice => new = NoPrice
  BY <1>3, <1>5 DEF Followed
<1>9. candidate \in Int
  <2>1. Behind(best, 1) \in Int /\ Behind(p, 1) \in Int /\ Behind(bar, 1) \in Int
    <3> HIDE DEF bar
    <3> QED BY <1>1 DEF Behind
  <2> QED BY <1>6, <2>1
<1> HIDE DEF new, candidate
<1>10. CASE watch.tsl = "Off"
  <2>1. new = r.trail
    BY <1>3, <1>8, <1>10
  <2> QED BY <1>2, <2>1
<1>11. CASE watch.tsl # "Off" /\ InFavour(r.trail, candidate)
  <2>1. Better(r.trail, candidate) = r.trail
    BY <1>1, <1>9, <1>11, Favour
  <2>2. new = r.trail
    BY <1>3, <1>7, <1>11, <2>1
  <2> QED BY <1>2, <2>2
<1>12. CASE watch.tsl # "Off" /\ candidate = Behind(p, 1)
  <2>1. new = Better(r.trail, candidate) /\ r.trail # NoPrice
    BY <1>3, <1>7, <1>12
  <2>2. new \in {r.trail, candidate}
    BY <1>1, <1>9, <2>1, Favour
  <2>3. ~Against(p, candidate)
    BY <1>1, <1>12, Favour
  <2> QED BY <1>2, <2>2, <2>3 DEF RiskHit
<1> QED BY <1>7, <1>10, <1>11, <1>12

-----------------------------------------------------------------------------
(* A scan in the middle of nothing. *)
LEMMA AtEaseType == AtEase \in ScanType /\ AtEase.pc = "idle"
BY PriceRange, PricesAssumption DEF AtEase, ScanType, RowType, SignalType, Kinds, Stops, Marks

LEMMA InitInv == ASSUME ExitInit PROVE Inv
<1> USE DEF ExitInit
<1>1. EntryPrice \in Prices /\ EntryPrice \in Int /\ NoPrice \in Int
  BY PriceRange DEF NoPrice
<1>2. row \in RowType /\ row.extreme \in Prices
  BY <1>1 DEF RowType, Stops, Marks
<1>3. market \in MarketType
  BY <1>1, PricesAssumption DEF MarketType, Prices
<1>4. seen \in [low : Prices, high : Prices] /\ seen.low <= market.price /\ market.price <= seen.high
  BY <1>1
<1>5. Types
  BY <1>2, <1>3, <1>4, AtEaseType DEF Types
<1> QED BY <1>5, AtEaseType DEF Inv, Ratcheting, Closing

(* A step that abandons the scan. *)
LEMMA Abandon ==
  ASSUME Inv, scan' = AtEase, UNCHANGED <<watch, market, seen>>,
         row' \in RowType, row'.extreme \in Prices
  PROVE  Inv'
<1>1. Types'
  BY AtEaseType DEF Inv, Types
<1> QED BY <1>1, AtEaseType DEF Inv, Ratcheting, Closing

LEMMA BeginKeeps == ASSUME Inv, ScanBegin PROVE Inv'
<1>1. PICK p \in Marks : scan' = [AtEase EXCEPT !.pc = "signals", !.item = row, !.ltp = p]
  BY DEF ScanBegin, Inv, Types, MarketType, Marks
<1>2. scan' \in ScanType /\ scan'.pc = "signals" /\ scan'.item = row
  BY <1>1, AtEaseType DEF ScanType, Inv, Types
<1>3. Types'
  BY <1>2 DEF ScanBegin, Inv, Types
<1>4. Ratcheting' /\ Closing'
  BY <1>2 DEF ScanBegin, Ratcheting, Closing
<1> QED BY <1>3, <1>4 DEF Inv

(* _should_exit: the kind of an exit by price says that there was a price. *)
LEMMA KindOfExit ==
  ASSUME NEW r \in RowType, NEW s, NEW p, NEW trail, NEW k, k = ExitKind(r, s, p, trail)
  PROVE  /\ k \in Kinds
         /\ k \in {"risk", "zone_ltp"} => p # NoPrice
         /\ k = "risk" => RiskHit(p, trail)
BY DEF ExitKind, ZoneKind, Kinds

LEMMA EvaluateKeeps == ASSUME Inv, Evaluate PROVE Inv'
<1> DEFINE ltp == scan.ltp
           r == scan.item
           extreme == IF ltp = NoPrice THEN r.extreme ELSE Better(r.extreme, ltp)
           ref == IF ltp = NoPrice THEN market.high ELSE extreme
           trail == TrailOf(r, SignalsNow, ref)
           kind == ExitKind(r, SignalsNow, ltp, trail)
<1>1. /\ watch \in ExitCases /\ r = row /\ r \in RowType /\ r.extreme \in Prices /\ row.status = "active"
      /\ ltp \in Marks /\ market.high \in Prices /\ scan \in ScanType /\ market \in MarketType
  BY DEF Evaluate, Inv, Types, Ratcheting, ScanType, MarketType
<1>2. SignalsNow \in SignalType /\ SignalsNow.high \in Prices /\ SignalsNow.low \in Lowest - 1 .. Highest
  <2>1. /\ market.high \in Prices /\ market.low \in Lowest - 1 .. Highest /\ market.band \in Int
        /\ market.zone \in BOOLEAN /\ market.bar \in Nat
    BY <1>1 DEF MarketType
  <2>2. market.high \in Int
    BY <2>1, PriceRange
  <2>3. market.low \in Int
    <3>1. Lowest - 1 \in Int /\ Highest \in Int
      BY PricesAssumption
    <3> QED BY <2>1, <3>1
  <2> QED BY <2>1, <2>2, <2>3 DEF SignalsNow, SignalType
<1>3. ltp # NoPrice => ltp \in Prices
  BY <1>1 DEF Marks
<1>4. extreme \in Prices /\ InFavour(extreme, r.extreme)
  <2>1. r.extreme \in Int /\ (ltp # NoPrice => ltp \in Int)
    BY <1>1, <1>3, PriceRange
  <2>2. CASE ltp = NoPrice
    <3>1. extreme = r.extreme
      BY <2>2
    <3>2. InFavour(r.extreme, r.extreme)
      BY <2>1 DEF InFavour
    <3> QED BY <1>1, <3>1, <3>2
  <2>3. CASE ltp # NoPrice
    <3>1. Better(r.extreme, ltp) \in {r.extreme, ltp} /\ InFavour(Better(r.extreme, ltp), r.extreme)
      BY <2>1, <2>3, Favour
    <3> QED BY <1>1, <1>3, <2>3, <3>1
  <2> QED BY <2>2, <2>3
<1>5. ref \in Prices
  BY <1>1, <1>4
<1>6. /\ trail \in Stops
      /\ r.trail # NoPrice => trail # NoPrice /\ InFavour(trail, r.trail)
      /\ Followed(trail, ref, SignalsNow)
  <2> HIDE DEF ref
  <2> QED BY <1>1, <1>2, <1>5, TrailRatchets
<1>7. ltp # NoPrice => Followed(trail, r.extreme, SignalsNow)
  <2> SUFFICES ASSUME ltp # NoPrice PROVE Followed(trail, r.extreme, SignalsNow)
    OBVIOUS
  <2>1. ref = extreme
    OBVIOUS
  <2>2. extreme \in Int /\ r.extreme \in Int /\ trail \in Int
    BY <1>1, <1>4, <1>6, PriceRange
  <2> HIDE DEF extreme, ref, trail, r
  <2>4. InFavour(trail, Behind(extreme, 1)) => InFavour(trail, Behind(r.extreme, 1))
    BY <1>4, <2>2, FollowsLess
  <2> QED BY <1>6, <2>1, <2>4 DEF Followed
<1>8. kind \in Kinds /\ (kind \in {"risk", "zone_ltp"} => ltp # NoPrice)
  <2> HIDE DEF trail
  <2> QED BY <1>1, KindOfExit
<1>9. scan' = [scan EXCEPT !.pc = "save", !.signals = SignalsNow, !.trail = trail, !.extreme = extreme, !.kind = kind]
  BY DEF Evaluate
<1> HIDE DEF trail, extreme, kind, ref
<1>10. scan' \in ScanType /\ extreme \in Marks
  BY <1>1, <1>2, <1>4, <1>6, <1>8, <1>9 DEF ScanType, Marks
<1>11. /\ scan'.pc = "save" /\ scan'.item = r /\ scan'.trail = trail /\ scan'.extreme = extreme
       /\ scan'.kind = kind /\ scan'.signals = SignalsNow
  BY <1>1, <1>9 DEF ScanType
<1>12. UNCHANGED <<watch, row, market, seen>>
  BY DEF Evaluate
<1>13. Types'
  BY <1>10, <1>12 DEF Inv, Types
<1>14. Ratcheting'
  <2>1. /\ row'.trail # NoPrice => scan'.trail # NoPrice /\ InFavour(scan.trail, row.trail)'
        /\ scan'.extreme \in Prices /\ InFavour(scan.extreme, row.extreme)'
        /\ scan'.kind \in {"risk", "zone_ltp"} => Followed(scan.trail, row.extreme, scan.signals)'
    BY <1>1, <1>4, <1>6, <1>7, <1>8, <1>11, <1>12 DEF InFavour, Followed, Long, Behind, Bar
  <2> QED BY <1>1, <1>11, <1>12, <2>1 DEF Ratcheting
<1>15. Closing'
  BY <1>11 DEF Closing
<1> QED BY <1>13, <1>14, <1>15 DEF Inv

LEMMA SaveKeeps == ASSUME Inv, SaveTrail PROVE Inv' /\ row'.status = row.status
<1>1. /\ row \in RowType /\ scan \in ScanType /\ row' = Trailed(row) /\ scan.item = row /\ row.extreme \in Prices
      /\ scan.extreme \in Prices
  BY DEF SaveTrail, Inv, Types, Ratcheting
<1>2. row' \in RowType /\ row'.extreme \in Prices /\ row'.status = row.status /\ row'.trail = scan.trail
  BY <1>1 DEF Trailed, RowType, ScanType, Marks, Ratcheting, SaveTrail, Inv
<1>3. UNCHANGED <<watch, market, seen>>
  BY DEF SaveTrail
<1>4. CASE scan.kind = "none"
  BY <1>2, <1>3, <1>4, Abandon DEF SaveTrail
<1>5. CASE scan.kind \in {"risk", "zone_ltp"}
  <2>1. scan' = [scan EXCEPT !.pc = "confirm"]
    BY <1>5 DEF SaveTrail
  <2>2. scan' \in ScanType /\ scan'.pc = "confirm" /\ scan'.trail = scan.trail /\ scan'.item = row /\ scan'.signals = scan.signals
    BY <1>1, <2>1 DEF ScanType
  <2>3. Followed(scan.trail, row.extreme, scan.signals)
    BY <1>5 DEF Inv, Ratcheting, SaveTrail
  <2>4. Followed(scan.trail, scan.item.extreme, scan.signals)'
    BY <1>3, <2>2, <2>3 DEF Followed, InFavour, Behind, Long, Bar
  <2>5. Types'
    BY <1>2, <1>3, <2>2 DEF Inv, Types
  <2>6. Ratcheting' /\ Closing'
    BY <1>1, <1>2, <2>2, <2>4 DEF Ratcheting, Closing
  <2> QED BY <1>2, <2>5, <2>6 DEF Inv
<1>6. CASE scan.kind \notin {"none", "risk", "zone_ltp"}
  <2>1. scan' = [scan EXCEPT !.pc = "close"]
    BY <1>6 DEF SaveTrail
  <2>2. scan' \in ScanType /\ scan'.pc = "close" /\ scan'.trail = scan.trail /\ scan'.kind = scan.kind
    BY <1>1, <2>1 DEF ScanType
  <2>3. Types'
    BY <1>2, <1>3, <2>2 DEF Inv, Types
  <2>4. Ratcheting' /\ Closing'
    BY <1>2, <1>6, <2>2 DEF Ratcheting, Closing
  <2> QED BY <1>2, <2>3, <2>4 DEF Inv
<1> QED BY <1>4, <1>5, <1>6

LEMMA ReconfirmKeeps == ASSUME Inv, Reconfirm PROVE Inv'
<1> DEFINE p == market.price
           r == [scan.item EXCEPT !.trail = scan.trail]
           best == scan.item.extreme
           trail == TrailOf(r, scan.signals, Better(best, p))
           kind == ExitKind(r, scan.signals, p, trail)
<1>1. /\ watch \in ExitCases /\ p \in Prices /\ best \in Prices /\ scan \in ScanType /\ row.trail = scan.trail
      /\ Followed(scan.trail, best, scan.signals) /\ row \in RowType /\ row.extreme \in Prices
      /\ seen.low <= p /\ p <= seen.high
  BY DEF Reconfirm, Inv, Types, Closing, MarketType
<1>2. r \in RowType /\ r.trail = scan.trail /\ scan.signals \in SignalType
  BY <1>1 DEF ScanType, RowType
<1>3. scan' = IF kind \in {"risk", "zone_ltp"} THEN [scan EXCEPT !.pc = "close", !.ltp = p, !.kind = kind] ELSE AtEase
  BY DEF Reconfirm
<1>4. UNCHANGED <<watch, row, market, seen>>
  BY DEF Reconfirm
<1>5. kind = "risk" => RiskHit(p, scan.trail)
  <2> SUFFICES ASSUME kind = "risk" PROVE RiskHit(p, r.trail)
    BY <1>2
  <2>1. RiskHit(p, trail)
    <3> HIDE DEF trail, r
    <3> QED BY <1>2, KindOfExit
  <2>2. Followed(r.trail, best, scan.signals)
    BY <1>1, <1>2
  <2> HIDE DEF r, p, best
  <2> QED BY <1>1, <1>2, <2>1, <2>2, RecheckedStop
<1> HIDE DEF kind
<1>6. CASE kind \in {"risk", "zone_ltp"}
  <2>1. scan' = [scan EXCEPT !.pc = "close", !.ltp = p, !.kind = kind]
    BY <1>3, <1>6
  <2>2. scan' \in ScanType /\ scan'.pc = "close" /\ scan'.trail = scan.trail /\ scan'.kind = kind /\ scan'.ltp = p
    BY <1>1, <1>6, <2>1 DEF ScanType, Kinds, Marks
  <2>3. Types'
    BY <1>4, <2>2 DEF Inv, Types
  <2>4. RiskHit(p, scan.trail) => RiskHit(scan.ltp, row.trail)'
    BY <1>1, <1>4, <2>2 DEF RiskHit, Against, InFavour, Behind, Long
  <2>5. Ratcheting' /\ Closing'
    BY <1>1, <1>4, <1>5, <2>2, <2>4 DEF Ratcheting, Closing
  <2> QED BY <2>3, <2>5 DEF Inv
<1>7. CASE kind \notin {"risk", "zone_ltp"}
  <2>1. scan' = AtEase
    BY <1>3, <1>7
  <2> QED BY <1>1, <1>4, <2>1, Abandon
<1> QED BY <1>6, <1>7

(* The market moves under a scan that goes on. *)
LEMMA MarketKeeps ==
  ASSUME Inv, UNCHANGED <<watch, row, scan>>, market' \in MarketType,
         seen' \in [low : Prices, high : Prices], seen'.low <= market'.price, market'.price <= seen'.high,
         seen'.low <= seen.low, seen.high <= seen'.high
  PROVE  Inv'
<1>1. Types'
  BY DEF Inv, Types
<1>2. Ratcheting'
  BY DEF Inv, Ratcheting, InFavour, Followed, Behind, Long, Bar
<1>3. Closing'
  <2>1. RiskHit(scan.ltp, row.trail) => RiskHit(scan.ltp, row.trail)'
    BY DEF RiskHit, Against, InFavour, Behind, Long
  <2>2. Followed(scan.trail, scan.item.extreme, scan.signals) => Followed(scan.trail, scan.item.extreme, scan.signals)'
    BY DEF Followed, InFavour, Behind, Long, Bar
  <2>3. scan.ltp \in Int /\ seen.low \in Int /\ seen.high \in Int /\ seen'.low \in Int /\ seen'.high \in Int
    BY PriceRange DEF Inv, Types, ScanType
  <2> QED BY <2>1, <2>2, <2>3 DEF Inv, Closing
<1> QED BY <1>1, <1>2, <1>3 DEF Inv

LEMMA MoveKeeps == ASSUME Inv, Move PROVE Inv'
<1>1. PICK p \in Prices : /\ market' = [market EXCEPT !.price = p]
                          /\ seen' = [low |-> Least(seen.low, p), high |-> Most(seen.high, p)]
  BY DEF Move
<1>2. market' \in MarketType /\ market'.price = p
  BY <1>1 DEF Inv, Types, MarketType
<1>3. seen.low \in Prices /\ seen.high \in Prices
  BY DEF Inv, Types
<1>4. p \in Int /\ seen.low \in Int /\ seen.high \in Int
  BY <1>3, PriceRange
<1>5. /\ seen'.low \in {seen.low, p} /\ seen'.high \in {seen.high, p} /\ seen'.low <= p /\ p <= seen'.high
      /\ seen'.low <= seen.low /\ seen.high <= seen'.high
  BY <1>1, <1>4 DEF Least, Most
<1>6. seen' \in [low : Prices, high : Prices]
  BY <1>1, <1>3, <1>5
<1>7. UNCHANGED <<watch, row, scan>>
  BY DEF Move
<1> QED BY <1>2, <1>5, <1>6, <1>7, MarketKeeps

LEMMA BarKeeps == ASSUME Inv, BarCloses \/ ForceDue PROVE Inv'
<1>1. market \in MarketType /\ UNCHANGED <<watch, row, scan, seen>>
  BY DEF Inv, Types, BarCloses, ForceDue
<1>2. market' \in MarketType /\ market'.price = market.price
  <2>1. CASE BarCloses
    <3>1. PICK band \in {NoPrice, market.price - 1, market.price + 1}, zone \in BOOLEAN :
            market' = [market EXCEPT !.bar = @ + 1, !.high = market.price, !.low = market.price - 1,
                                     !.band = band, !.zone = zone]
      BY <2>1 DEF BarCloses
    <3>2. market.price \in Prices /\ market.price - 1 \in Lowest - 1 .. Highest /\ band \in Int /\ market.bar + 1 \in Nat
      BY <1>1, PricesAssumption DEF MarketType, Prices, NoPrice
    <3> QED BY <1>1, <3>1, <3>2 DEF MarketType
  <2>2. CASE ForceDue
    BY <1>1, <2>2 DEF ForceDue, MarketType
  <2> QED BY <2>1, <2>2
<1>3. seen.low \in Int /\ seen.high \in Int
  BY PriceRange DEF Inv, Types
<1>4. seen' = seen /\ seen \in [low : Prices, high : Prices] /\ seen.low <= market.price /\ market.price <= seen.high
  BY <1>1 DEF Inv, Types
<1>5. seen'.low <= seen.low /\ seen.high <= seen'.high
  BY <1>3, <1>4
<1> QED BY <1>1, <1>2, <1>4, <1>5, MarketKeeps

LEMMA NextKeeps == ASSUME Inv, [ExitNext]_exitVars PROVE Inv'
<1>1. CASE ScanBegin
  BY <1>1, BeginKeeps
<1>2. CASE Evaluate
  BY <1>2, EvaluateKeeps
<1>3. CASE CandlesMissing \/ ReconfirmFails \/ CloseFails
  <2>1. scan' = AtEase /\ UNCHANGED <<watch, row, market, seen>>
    BY <1>3 DEF CandlesMissing, ReconfirmFails, CloseFails
  <2>2. row' \in RowType /\ row'.extreme \in Prices
    BY <2>1 DEF Inv, Types
  <2> QED BY <2>1, <2>2, Abandon
<1>4. CASE SaveTrail
  BY <1>4, SaveKeeps
<1>5. CASE Reconfirm
  BY <1>5, ReconfirmKeeps
<1>6. CASE CloseTrade
  <2>1. scan' = AtEase /\ UNCHANGED <<watch, market, seen>> /\ row' = [row EXCEPT !.status = "closed"]
    BY <1>6 DEF CloseTrade
  <2>2. row' \in RowType /\ row'.extreme \in Prices
    BY <2>1 DEF Inv, Types, RowType
  <2> QED BY <2>1, <2>2, Abandon
<1>7. CASE Move
  BY <1>7, MoveKeeps
<1>8. CASE BarCloses \/ ForceDue
  BY <1>8, BarKeeps
<1>9. CASE UNCHANGED exitVars
  <2>1. UNCHANGED <<watch, row, market, scan, seen>>
    BY <1>9 DEF exitVars
  <2>2. seen.low \in Int /\ seen.high \in Int
    BY PriceRange DEF Inv, Types
  <2>3. /\ market' \in MarketType /\ seen' \in [low : Prices, high : Prices]
        /\ seen'.low <= market'.price /\ market'.price <= seen'.high
    BY <2>1 DEF Inv, Types
  <2>4. seen'.low <= seen.low /\ seen.high <= seen'.high
    BY <2>1, <2>2
  <2> QED BY <2>1, <2>3, <2>4, MarketKeeps
<1> QED BY <1>1, <1>2, <1>3, <1>4, <1>5, <1>6, <1>7, <1>8, <1>9 DEF ExitNext, Scanning

(* While a trade is open neither its saved stop nor its best price moves
   against it, for every range of prices and every case. *)
THEOREM StopRatchets == ExitSpec => StopOnlyTightens
<1>1. ASSUME Inv, [ExitNext]_exitVars, row.status = "active"
      PROVE  /\ row.trail # NoPrice => row'.trail # NoPrice /\ InFavour(row'.trail, row.trail)
             /\ InFavour(row'.extreme, row.extreme)
  <2>1. row \in RowType /\ row.extreme \in Int /\ row.trail \in Int
    BY <1>1, PriceRange DEF Inv, Types, RowType
  <2>2. CASE SaveTrail
    <3>1. /\ row.trail # NoPrice => scan.trail # NoPrice /\ InFavour(scan.trail, row.trail)
          /\ InFavour(scan.extreme, row.extreme) /\ row' = Trailed(row)
      BY <1>1, <2>2 DEF Inv, Ratcheting, SaveTrail
    <3>2. row.trail # NoPrice => row'.trail = scan.trail
      BY <2>1, <3>1 DEF Trailed, RowType
    <3>3. row'.extreme = scan.extreme
      BY <2>1, <3>1 DEF Trailed, RowType
    <3> QED BY <3>1, <3>2, <3>3
  <2>3. CASE ~SaveTrail
    <3>1. row'.trail = row.trail /\ row'.extreme = row.extreme
      BY <1>1, <2>1, <2>3 DEF ExitNext, Scanning, ScanBegin, Evaluate, CandlesMissing, Reconfirm, ReconfirmFails,
                              CloseTrade, CloseFails, Move, BarCloses, ForceDue, exitVars, RowType
    <3> QED BY <2>1, <3>1, Favour
  <2> QED BY <2>2, <2>3
<1> QED BY InitInv, NextKeeps, <1>1, PTL DEF ExitSpec, StopOnlyTightens

(* A trade closes on its stop or target only at a price that the broker gave,
   and at the stop in the file, whatever the cache says. *)
THEOREM BrokerPriceCloses == ExitSpec => ClosesAtABrokerPrice
<1>1. ASSUME Inv, [ExitNext]_exitVars, row.status = "active", row'.status = "closed", scan.kind = "risk"
      PROVE  seen.low <= scan.ltp /\ scan.ltp <= seen.high /\ RiskHit(scan.ltp, row.trail)
  <2>1. CASE CloseTrade
    BY <1>1, <2>1 DEF CloseTrade, Inv, Closing
  <2>2. CASE SaveTrail
    BY <1>1, <2>2, SaveKeeps
  <2>3. CASE ~CloseTrade /\ ~SaveTrail
    BY <1>1, <2>3 DEF ExitNext, Scanning, ScanBegin, Evaluate, CandlesMissing, Reconfirm, ReconfirmFails,
                      CloseFails, Move, BarCloses, ForceDue, exitVars
  <2> QED BY <2>1, <2>2, <2>3
<1> QED BY InitInv, NextKeeps, <1>1, PTL DEF ExitSpec, ClosesAtABrokerPrice
-----------------------------------------------------------------------------
(* An ATR stop keeps its distance to the best price as long as every scan has
   a price: what is saved next does, too. *)
Distant(extreme, trail) ==
    watch.tsl = "ATR" /\ ~watch.faults /\ trail # NoPrice => InFavour(Behind(extreme, 1), trail)

Spaced ==
    /\ InFavour(row.extreme, EntryPrice) /\ Distant(row.extreme, row.trail)
    /\ scan.pc = "signals" => watch.faults \/ scan.ltp # NoPrice
    /\ scan.pc = "save" => Distant(scan.extreme, scan.trail)

(* A stop that follows a better price stays behind it: at the entry it is the
   stop loss, later the one that was behind a worse price. *)
LEMMA TrailIsDistant ==
  ASSUME watch \in ExitCases, NEW r \in RowType, NEW s, NEW ref \in Prices, r.extreme \in Prices,
         InFavour(ref, r.extreme), InFavour(r.extreme, EntryPrice), Distant(r.extreme, r.trail)
  PROVE  Distant(ref, TrailOf(r, s, ref))
<1> SUFFICES ASSUME watch.tsl = "ATR", ~watch.faults PROVE InFavour(Behind(ref, 1), TrailOf(r, s, ref))
  BY DEF Distant
<1> DEFINE best == r.extreme
           first == IF r.trail # NoPrice THEN r.trail
                    ELSE IF watch.sl = "Pts" THEN Behind(EntryPrice, 1) ELSE NoPrice
           candidate == Behind(ref, 1)
<1>1. TrailOf(r, s, ref) = IF first = NoPrice THEN candidate ELSE Better(first, candidate)
  BY DEF TrailOf
<1>2. /\ ref \in Int /\ best \in Int /\ EntryPrice \in Int
      /\ r.trail \in Int /\ NoPrice \in Int
  <2>1. r.trail \in Stops
    BY DEF RowType
  <2>2. ref \in Int /\ best \in Int /\ EntryPrice \in Int
    BY PriceRange
  <2>3. NoPrice \in Int
    BY DEF NoPrice
  <2>4. r.trail \in Int
    BY <2>1, PriceRange
  <2> QED BY <2>2, <2>3, <2>4
<1>3. InFavour(ref, best) /\ InFavour(best, EntryPrice)
  OBVIOUS
<1>4. first = r.trail \/ (first = Behind(EntryPrice, 1) /\ watch.sl = "Pts") \/ first = NoPrice
  OBVIOUS
<1>5. r.trail # NoPrice => InFavour(Behind(best, 1), r.trail)
  BY DEF Distant
<1> HIDE DEF first, best
<1>6. candidate \in Int /\ first \in Int
  BY <1>2, <1>4 DEF Behind
<1>7. first # NoPrice => InFavour(candidate, first)
  BY <1>2, <1>3, <1>4, <1>5 DEF InFavour, Behind
<1> HIDE DEF candidate
<1>8. InFavour(candidate, candidate) /\ Better(first, candidate) \in {first, candidate}
  BY <1>6, Favour
<1> QED BY <1>1, <1>7, <1>8 DEF candidate

LEMMA EvaluateSpaced == ASSUME Inv, Spaced, Evaluate PROVE Spaced'
<1> DEFINE r == scan.item
           extreme == IF scan.ltp = NoPrice THEN r.extreme ELSE Better(r.extreme, scan.ltp)
           ref == IF scan.ltp = NoPrice THEN market.high ELSE extreme
           trail == TrailOf(r, SignalsNow, ref)
<1>1. /\ watch \in ExitCases /\ r = row /\ r \in RowType /\ r.extreme \in Prices /\ scan \in ScanType
      /\ scan.ltp \in Marks /\ UNCHANGED <<watch, row, market, seen>>
  BY DEF Evaluate, Inv, Types, Ratcheting, ScanType
<1>2. scan'.pc = "save" /\ scan'.trail = trail /\ scan'.extreme = extreme
  BY <1>1 DEF Evaluate, ScanType
<1>3. Distant(extreme, trail)
  <2>1. CASE watch.faults
    BY <2>1 DEF Distant
  <2>2. CASE ~watch.faults
    <3>1. scan.ltp # NoPrice /\ scan.ltp \in Prices
      BY <1>1, <2>2 DEF Spaced, Evaluate, Marks
    <3>2. ref = extreme /\ extreme = Better(r.extreme, scan.ltp)
      BY <3>1
    <3>3. extreme \in {r.extreme, scan.ltp} /\ InFavour(extreme, r.extreme)
      BY <1>1, <3>1, <3>2, Favour, PriceRange
    <3>4. InFavour(r.extreme, EntryPrice) /\ Distant(r.extreme, r.trail) /\ extreme \in Prices
      BY <1>1, <3>1, <3>3 DEF Spaced
    <3> HIDE DEF extreme, ref, r
    <3> QED BY <1>1, <3>2, <3>3, <3>4, TrailIsDistant
  <2> QED BY <2>1, <2>2
<1> HIDE DEF extreme, trail
<1> QED BY <1>1, <1>2, <1>3 DEF Spaced, Distant, InFavour, Behind, Long

LEMMA SpacedNext == ASSUME Inv, Spaced, [ExitNext]_exitVars PROVE Spaced'
<1>1. CASE ScanBegin
  <2>1. PICK p \in {market.price} \cup (IF watch.stale THEN Prices ELSE {}) \cup (IF watch.faults THEN {NoPrice} ELSE {}) :
          scan' = [AtEase EXCEPT !.pc = "signals", !.item = row, !.ltp = p]
    BY <1>1 DEF ScanBegin
  <2>2. watch.faults \/ p # NoPrice
    BY <2>1, PriceRange DEF Inv, Types, MarketType
  <2>3. scan'.pc = "signals" /\ scan'.ltp = p /\ UNCHANGED <<watch, row>>
    BY <1>1, <2>1 DEF ScanBegin, AtEase
  <2> QED BY <2>2, <2>3 DEF Spaced, Distant, InFavour, Behind, Long
<1>2. CASE Evaluate
  BY <1>2, EvaluateSpaced
<1>3. CASE SaveTrail
  <2>1. /\ row \in RowType /\ scan \in ScanType /\ row' = Trailed(row) /\ row.extreme \in Prices /\ scan.extreme \in Prices
        /\ row.trail # NoPrice => scan.trail # NoPrice
        /\ InFavour(scan.extreme, row.extreme) /\ InFavour(row.extreme, EntryPrice) /\ Distant(scan.extreme, scan.trail)
    BY <1>3 DEF SaveTrail, Inv, Types, Ratcheting, Spaced
  <2>2. row'.trail = scan.trail /\ row'.extreme = scan.extreme
    BY <2>1 DEF Trailed, RowType
  <2>3. InFavour(scan.extreme, EntryPrice)
    BY <2>1, Favour, PriceRange
  <2>4. scan'.pc \in {"idle", "confirm", "close"} /\ watch' = watch
    BY <1>3, <2>1, AtEaseType DEF SaveTrail, ScanType
  <2> QED BY <2>1, <2>2, <2>3, <2>4 DEF Spaced, Distant, InFavour, Behind, Long
<1>4. CASE CandlesMissing \/ Reconfirm \/ ReconfirmFails \/ CloseTrade \/ CloseFails
  <2>1. row \in RowType /\ scan \in ScanType
    BY DEF Inv, Types
  <2>2. scan'.pc \in {"idle", "close"} /\ watch' = watch
    BY <1>4, <2>1, AtEaseType DEF CandlesMissing, Reconfirm, ReconfirmFails, CloseTrade, CloseFails, ScanType
  <2>3. row'.trail = row.trail /\ row'.extreme = row.extreme
    BY <1>4, <2>1 DEF CandlesMissing, Reconfirm, ReconfirmFails, CloseTrade, CloseFails, RowType
  <2> QED BY <2>2, <2>3 DEF Spaced, Distant, InFavour, Behind, Long
<1>5. CASE Move \/ BarCloses \/ ForceDue \/ UNCHANGED exitVars
  <2>1. UNCHANGED <<watch, row, scan>>
    BY <1>5 DEF Move, BarCloses, ForceDue, exitVars
  <2> QED BY <2>1 DEF Spaced, Distant, InFavour, Behind, Long
<1> QED BY <1>1, <1>2, <1>3, <1>4, <1>5 DEF ExitNext, Scanning

(* The stop and the best price of a trade are prices, the best price is none
   before the entry's, and an ATR stop whose scans all have a price is never
   nearer than one band behind it. *)
THEOREM StopKeepsDistance == ExitSpec => []ExitTypeOK
<1>1. ASSUME ExitInit PROVE Inv /\ Spaced
  <2>1. row.extreme = EntryPrice /\ row.trail = NoPrice /\ scan.pc = "idle"
    BY <1>1, AtEaseType DEF ExitInit
  <2>2. InFavour(EntryPrice, EntryPrice)
    BY Favour, PriceRange
  <2> QED BY <1>1, <2>1, <2>2, InitInv DEF Spaced, Distant
<1>2. ASSUME Inv, Spaced PROVE ExitTypeOK
  BY <1>2 DEF Inv, Types, Spaced, Distant, RowType, Stops, ExitTypeOK
<1> QED BY <1>1, <1>2, NextKeeps, SpacedNext, PTL DEF ExitSpec
=============================================================================
