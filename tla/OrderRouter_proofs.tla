------------------------- MODULE OrderRouter_proofs -------------------------
(***************************************************************************)
(* Theorems about OrderRouter for every set of threads and legs and every  *)
(* bound: on an orderly desk the ledger knows each position, and a signal  *)
(* buys one lot.                                                           *)
(***************************************************************************)
EXTENDS OrderRouter, TLAPS

(* No exit is refused and no reply is lost; a leg has one thread, and a thread
   that reconciles has all of them. *)
Orderly == \A c \in RouterCases :
    /\ c.exitsFail = FALSE /\ c.repliesLost = FALSE
    /\ \A t \in Strategies, u \in Strategies : t # u => c.trades[t] \cap c.trades[u] = {}
    /\ \A t \in c.books, u \in Strategies : t # u => c.trades[u] = {}

RowType == [status : {"absent", "pending", "open", "closed", "error"},
            entry_tag : {NoTag} \cup {EntryTag(leg) : leg \in LegIds}, quantity : Nat]
CallType == [pc : {"idle", "upsert", "place", "mark", "rows", "book"}, kind : {"enter", "exit"}, leg : LegIds,
             result : {"none", "noop", "ok", "failed"}, seen : [LegIds -> {0, 1}], rows : SUBSET LegIds]

(* Types, with the lots of a leg as what they are. *)
Types ==
    /\ routing \in RouterCases
    /\ ledger \in [LegIds -> RowType]
    /\ net \in [LegIds -> {0, 1}]
    /\ router \in [Strategies -> CallType]
    /\ spent \in [intents : Nat, crashes : Nat]

(* A leg that is held has a row that blocks its signal. *)
Blocking(leg) == ledger[leg].status \in {"pending", "open"} /\ ledger[leg].entry_tag = EntryTag(leg)
HeldBlocks == \A leg \in LegIds : net[leg] # 0 => Blocking(leg)

(* What the thread of a leg knows of it at each step of submit_intent. *)
Submitting(t) ==
    LET call == router[t]
        Pending == ledger[call.leg].status = "pending"
    IN  /\ call.pc \in {"upsert", "place", "mark"} => call.leg \in routing.trades[t]
        /\ call.pc \in {"upsert", "place"} /\ call.kind = "enter" => net[call.leg] = 0
        /\ call.pc \in {"place", "mark"} => Pending
        /\ call.pc \in {"place", "mark"} /\ call.kind = "enter" => Blocking(call.leg)
        /\ call.pc = "mark" => \/ call.result = "failed" /\ net[call.leg] = 0
                               \/ call.result = "noop"
                               \/ call.result = "ok" /\ (call.kind = "exit" => net[call.leg] = 0)

(* A leg that a reconcile saw flat is flat. *)
Booking(t) ==
    router[t].pc \in {"rows", "book"} =>
        t \in routing.books /\ \A leg \in LegIds : router[t].seen[leg] = 0 => net[leg] = 0

Inv == Types /\ HeldBlocks /\ \A t \in Strategies : Submitting(t) /\ Booking(t)

(* The fields of a case of an orderly desk. *)
LEMMA CaseFields ==
  ASSUME Orderly, routing \in RouterCases
  PROVE  /\ routing.trades \in [Strategies -> SUBSET LegIds] /\ routing.books \subseteq Strategies
         /\ routing.exitsFail = FALSE /\ routing.repliesLost = FALSE
         /\ \A t \in Strategies, u \in Strategies : t # u => routing.trades[t] \cap routing.trades[u] = {}
         /\ \A t \in routing.books, u \in Strategies : t # u => routing.trades[u] = {}
BY RouterCasesAssumption DEF Orderly

(* A thread with nothing to do is well typed. *)
LEMMA NoCallType == NoCall \in CallType /\ NoCall.pc = "idle"
BY LegIdsAssumption DEF NoCall, CallType

(* At the start nothing is held and nobody is in a call. *)
LEMMA InitInv == RouterInit => Inv
<1> SUFFICES ASSUME RouterInit PROVE Inv
  OBVIOUS
<1>1. Absent \in RowType
  BY DEF Absent, RowType
<1>2. Types
  BY <1>1, NoCallType DEF RouterInit, Types
<1>3. HeldBlocks
  BY DEF RouterInit, HeldBlocks
<1>4. \A t \in Strategies : router[t].pc = "idle"
  BY DEF RouterInit, NoCall
<1> QED BY <1>2, <1>3, <1>4 DEF Inv, Submitting, Booking

(* A step of one thread on its own leg leaves what the others know alone. *)
LEMMA OthersKeep ==
  ASSUME Orderly, Inv, NEW t \in Strategies, NEW u \in Strategies, t # u, NEW leg \in routing.trades[t],
         router'[u] = router[u], routing' = routing,
         \A l \in LegIds : l # leg => net'[l] = net[l] /\ ledger'[l] = ledger[l]
  PROVE  Submitting(u)' /\ Booking(u)'
<1>1. routing.trades[t] \in SUBSET LegIds /\ routing.trades[u] \in SUBSET LegIds
  BY CaseFields DEF Inv, Types
<1>2. router[u].pc \in {"upsert", "place", "mark"} => router[u].leg \in LegIds /\ router[u].leg # leg
  BY <1>1, CaseFields DEF Inv, Types, Submitting
<1>3. Submitting(u)'
  BY <1>2 DEF Inv, Submitting, Blocking
<1>4. router[u].pc \notin {"rows", "book"}
  BY CaseFields DEF Inv, Types, Booking
<1> QED BY <1>3, <1>4 DEF Booking

(* A step that changes neither the ledger nor what the broker holds leaves the
   threads alone that do not take it. *)
LEMMA OthersLook ==
  ASSUME Inv, NEW u \in Strategies, router'[u] = router[u], UNCHANGED <<routing, ledger, net>>
  PROVE  Submitting(u)' /\ Booking(u)'
BY DEF Inv, Submitting, Booking, Blocking

(* Such a step is harmless when the thread that takes it knows enough. *)
LEMMA LookKeeps ==
  ASSUME Inv, NEW t \in Strategies, NEW call \in CallType, router' = [router EXCEPT ![t] = call],
         UNCHANGED <<routing, ledger, net>>, spent' \in [intents : Nat, crashes : Nat],
         Submitting(t)', Booking(t)'
  PROVE  Inv'
<1>1. Types'
  BY DEF Inv, Types
<1>2. HeldBlocks'
  BY DEF Inv, HeldBlocks, Blocking
<1>3. \A u \in Strategies : u # t => router'[u] = router[u]
  BY DEF Inv, Types
<1> QED BY <1>1, <1>2, <1>3, OthersLook DEF Inv

(* Submit: the tag of a held leg is live, so an entry finds its leg flat. *)
LEMMA SubmitKeeps ==
  ASSUME Inv, NEW t \in Strategies, NEW leg \in LegIds, NEW kind \in {"enter", "exit"}, Submit(t, leg, kind)
  PROVE  Inv'
<1> DEFINE call == [NoCall EXCEPT !.pc = "upsert", !.kind = kind, !.leg = leg]
<1>1. call \in CallType /\ call.pc = "upsert" /\ call.kind = kind /\ call.leg = leg
  BY NoCallType DEF CallType
<1> HIDE DEF call
<1>2. router' = [router EXCEPT ![t] = call] /\ leg \in routing.trades[t] /\ UNCHANGED <<routing, ledger, net>>
  BY DEF Submit, Proceed, call
<1>3. spent' \in [intents : Nat, crashes : Nat]
  BY DEF Submit, Inv, Types
<1>4. kind = "enter" => net[leg] = 0
  BY DEF Inv, HeldBlocks, Blocking, HasOpenTag, Submit
<1>5. router'[t] = call
  BY <1>2 DEF Inv, Types
<1>6. Submitting(t)' /\ Booking(t)'
  BY <1>1, <1>2, <1>4, <1>5 DEF Submitting, Booking
<1> QED BY <1>1, <1>2, <1>3, <1>6, LookKeeps

(* The pending row: an entry's tag comes with it. *)
LEMMA UpsertKeeps ==
  ASSUME Orderly, Inv, NEW t \in Strategies, UpsertPending(t)
  PROVE  Inv'
<1> DEFINE leg == router[t].leg
           call == [router[t] EXCEPT !.pc = "place"]
<1>1. router[t] \in CallType /\ router[t].pc = "upsert" /\ leg \in LegIds /\ leg \in routing.trades[t]
  BY DEF Inv, Types, CallType, Submitting, UpsertPending
<1>2. call \in CallType /\ call.pc = "place" /\ call.kind = router[t].kind /\ call.leg = leg
  BY <1>1 DEF CallType
<1>3. router' = [router EXCEPT ![t] = call] /\ UNCHANGED <<routing, net, spent>>
  BY DEF UpsertPending, Proceed
<1>4. PICK row \in RowType :
        /\ ledger' = [ledger EXCEPT ![leg] = row] /\ row.status = "pending"
        /\ row.entry_tag = IF router[t].kind = "enter" THEN EntryTag(leg) ELSE ledger[leg].entry_tag
  <2> DEFINE row == [ledger[leg] EXCEPT !.status = "pending",
                       !.entry_tag = IF router[t].kind = "enter" THEN EntryTag(leg) ELSE @]
  <2>1. ledger[leg] \in RowType
    BY <1>1 DEF Inv, Types
  <2>2. /\ row \in RowType /\ row.status = "pending"
        /\ row.entry_tag = IF router[t].kind = "enter" THEN EntryTag(leg) ELSE ledger[leg].entry_tag
    BY <1>1, <2>1 DEF RowType
  <2>3. ledger' = [ledger EXCEPT ![leg] = row]
    BY <1>1 DEF UpsertPending, Inv, Types
  <2> QED BY <2>2, <2>3
<1>5. ledger'[leg] = row /\ \A l \in LegIds : l # leg => ledger'[l] = ledger[l]
  BY <1>1, <1>4 DEF Inv, Types
<1>6. router'[t] = call /\ \A u \in Strategies : u # t => router'[u] = router[u]
  BY <1>3 DEF Inv, Types
<1> HIDE DEF leg, call
<1>7. Types'
  BY <1>1, <1>2, <1>3, <1>4 DEF Inv, Types
<1>8. HeldBlocks'
  BY <1>3, <1>4, <1>5 DEF Inv, HeldBlocks, Blocking
<1>9. router[t].kind = "enter" => net[leg] = 0
  BY <1>1 DEF Inv, Submitting, leg
<1>10. Submitting(t)' /\ Booking(t)'
  BY <1>2, <1>3, <1>4, <1>5, <1>6, <1>9, <1>1 DEF Submitting, Booking, Blocking
<1>11. \A u \in Strategies : u # t => Submitting(u)' /\ Booking(u)'
  BY <1>1, <1>3, <1>5, <1>6, OthersKeep
<1> QED BY <1>7, <1>8, <1>10, <1>11 DEF Inv
(* A thread that is back from its call has nothing to keep. *)
LEMMA ReturnKeeps ==
  ASSUME Inv, NEW t \in Strategies, Proceed(t, NoCall), UNCHANGED <<routing, ledger, net, spent>>
  PROVE  Inv'
<1>1. router' = [router EXCEPT ![t] = NoCall] /\ router'[t] = NoCall
  BY DEF Proceed, Inv, Types
<1>2. Submitting(t)' /\ Booking(t)'
  BY <1>1, NoCallType DEF Submitting, Booking
<1>3. spent' \in [intents : Nat, crashes : Nat]
  BY DEF Inv, Types
<1> QED BY <1>1, <1>2, <1>3, NoCallType, LookKeeps

(* An order for lots that the leg has, or of none, trades nothing. *)
LEMMA PlaceNothingKeeps ==
  ASSUME Orderly, Inv, NEW t \in Strategies, PlaceNoop(t) \/ PlaceRefused(t)
  PROVE  Inv'
<1>1. PICK answer \in {"noop", "failed"} :
        /\ router' = [router EXCEPT ![t] = [router[t] EXCEPT !.pc = "mark", !.result = answer]]
        /\ answer = "failed" => PlaceRefused(t)
  BY DEF PlaceNoop, PlaceRefused, Proceed
<1> DEFINE call == [router[t] EXCEPT !.pc = "mark", !.result = answer]
<1>2. router[t] \in CallType /\ router[t].pc = "place"
  BY DEF PlaceNoop, PlaceRefused, Inv, Types
<1>3. call \in CallType /\ call.pc = "mark" /\ call.kind = router[t].kind /\ call.leg = router[t].leg
      /\ call.result = answer
  BY <1>2 DEF CallType
<1> HIDE DEF call
<1>4. UNCHANGED <<routing, ledger, net, spent>> /\ router' = [router EXCEPT ![t] = call]
  BY <1>1 DEF PlaceNoop, PlaceRefused, call
<1>5. answer = "failed" => net[router[t].leg] = 0
  <2> SUFFICES ASSUME answer = "failed" PROVE net[router[t].leg] = 0
    OBVIOUS
  <2>1. router[t].kind = "enter"
    BY <1>1, <1>2, CaseFields DEF PlaceRefused, Inv, Types, CallType
  <2> QED BY <1>2, <2>1 DEF Inv, Submitting
<1>6. router'[t] = call
  BY <1>4 DEF Inv, Types
<1>7. Submitting(t)' /\ Booking(t)'
  BY <1>2, <1>3, <1>4, <1>5, <1>6 DEF Inv, Submitting, Booking, Blocking
<1>8. spent' \in [intents : Nat, crashes : Nat]
  BY <1>4 DEF Inv, Types
<1> QED BY <1>3, <1>4, <1>7, <1>8, LookKeeps

(* An order that the broker takes: an entry fills a flat leg, an exit empties
   it, and the reply says so. *)
LEMMA PlaceAcceptedKeeps ==
  ASSUME Orderly, Inv, NEW t \in Strategies, PlaceAccepted(t)
  PROVE  Inv'
<1> DEFINE leg == router[t].leg
           call == [router[t] EXCEPT !.pc = "mark", !.result = "ok"]
           lots == net[leg] + Lots(router[t])
<1>1. router[t] \in CallType /\ router[t].pc = "place" /\ leg \in LegIds /\ leg \in routing.trades[t]
  BY DEF PlaceAccepted, Inv, Types, CallType, Submitting
<1>2. call \in CallType /\ call.pc = "mark" /\ call.kind = router[t].kind /\ call.leg = leg /\ call.result = "ok"
  BY <1>1 DEF CallType
<1>3. router' = [router EXCEPT ![t] = call]
  BY CaseFields DEF PlaceAccepted, Proceed, Inv, Types
<1>4. UNCHANGED <<routing, ledger, spent>> /\ net' = [net EXCEPT ![leg] = lots]
  BY DEF PlaceAccepted
<1>5. net[leg] \in {0, 1} /\ (router[t].kind = "enter" => net[leg] = 0) /\ router[t].kind \in {"enter", "exit"}
  BY <1>1 DEF Inv, Types, Submitting, CallType
<1>6. lots = (IF router[t].kind = "enter" THEN 1 ELSE 0)
  BY <1>5 DEF Lots
<1>7. net'[leg] = lots /\ \A l \in LegIds : l # leg => net'[l] = net[l]
  BY <1>1, <1>4 DEF Inv, Types
<1>8. router'[t] = call /\ \A u \in Strategies : u # t => router'[u] = router[u]
  BY <1>3 DEF Inv, Types
<1>9. ledger[leg].status = "pending" /\ (router[t].kind = "enter" => Blocking(leg))
  BY <1>1 DEF Inv, Submitting
<1> HIDE DEF leg, call, lots
<1>10. Types'
  BY <1>1, <1>2, <1>3, <1>4, <1>6 DEF Inv, Types
<1>11. HeldBlocks'
  <2>1. ASSUME NEW l \in LegIds, net'[l] # 0 PROVE Blocking(l)
    BY <2>1, <1>5, <1>6, <1>7, <1>9 DEF Inv, HeldBlocks
  <2> QED BY <2>1, <1>4 DEF HeldBlocks, Blocking
<1>12. Submitting(t)' /\ Booking(t)'
  BY <1>1, <1>2, <1>4, <1>6, <1>7, <1>8, <1>9 DEF Submitting, Booking, Blocking
<1>13. \A u \in Strategies : u # t => Submitting(u)' /\ Booking(u)'
  BY <1>1, <1>4, <1>7, <1>8, OthersKeep
<1> QED BY <1>10, <1>11, <1>12, <1>13 DEF Inv

(* The answer in the ledger: a failed order, which was no exit, and a filled
   exit leave nothing held; a filled entry keeps its tag. *)
LEMMA MarkKeeps ==
  ASSUME Orderly, Inv, NEW t \in Strategies, Mark(t)
  PROVE  Inv'
<1> DEFINE leg == router[t].leg
           row == Marked(ledger[leg], router[t])
<1>1. router[t] \in CallType /\ router[t].pc = "mark" /\ leg \in LegIds /\ leg \in routing.trades[t]
  BY DEF Mark, Inv, Types, CallType, Submitting
<1>2. /\ router' = [router EXCEPT ![t] = NoCall] /\ ledger' = [ledger EXCEPT ![leg] = row]
      /\ UNCHANGED <<routing, net, spent>>
  BY DEF Mark, Proceed
<1>3. ledger[leg] \in RowType /\ router[t].kind \in {"enter", "exit"}
  BY <1>1 DEF Inv, Types, CallType
<1>4. \/ router[t].result = "failed" /\ net[leg] = 0
      \/ router[t].result = "noop"
      \/ router[t].result = "ok" /\ (router[t].kind = "exit" => net[leg] = 0)
  BY <1>1 DEF Inv, Submitting
<1>5. row \in RowType
  BY <1>3, <1>4 DEF Marked, RowType
<1>6. net[leg] # 0 => row.status \in {"pending", "open"} /\ row.entry_tag = EntryTag(leg)
  <2> SUFFICES ASSUME net[leg] # 0 PROVE row.status \in {"pending", "open"} /\ row.entry_tag = EntryTag(leg)
    OBVIOUS
  <2>1. Blocking(leg)
    BY <1>1 DEF Inv, HeldBlocks
  <2>2. CASE router[t].result = "noop"
    BY <2>1, <2>2 DEF Marked, Blocking
  <2>3. CASE router[t].result = "ok" /\ router[t].kind = "enter"
    BY <2>1, <2>3, <1>3 DEF Marked, Blocking, RowType
  <2> QED BY <2>2, <2>3, <1>3, <1>4
<1> HIDE DEF row
<1>7. ledger'[leg] = row /\ \A l \in LegIds : l # leg => ledger'[l] = ledger[l]
  BY <1>1, <1>2 DEF Inv, Types
<1>8. router'[t] = NoCall /\ \A u \in Strategies : u # t => router'[u] = router[u]
  BY <1>2 DEF Inv, Types
<1> HIDE DEF leg
<1>9. Types'
  BY <1>1, <1>2, <1>5, NoCallType DEF Inv, Types
<1>10. HeldBlocks'
  <2>1. ASSUME NEW l \in LegIds, net[l] # 0
        PROVE  ledger'[l].status \in {"pending", "open"} /\ ledger'[l].entry_tag = EntryTag(l)
    BY <2>1, <1>6, <1>7 DEF Inv, HeldBlocks, Blocking
  <2> QED BY <2>1, <1>2 DEF HeldBlocks, Blocking
<1>11. Submitting(t)' /\ Booking(t)'
  BY <1>8, NoCallType DEF Submitting, Booking
<1>12. \A u \in Strategies : u # t => Submitting(u)' /\ Booking(u)'
  BY <1>1, <1>2, <1>7, <1>8, OthersKeep
<1> QED BY <1>9, <1>10, <1>11, <1>12 DEF Inv

(* A reconcile reads the positions, then the open rows. *)
LEMMA BookReadsKeep ==
  ASSUME Inv, NEW t \in Strategies, BookPositions(t) \/ BookRows(t)
  PROVE  Inv'
<1>1. PICK call \in CallType :
        /\ router' = [router EXCEPT ![t] = call] /\ call.pc \in {"rows", "book"} /\ t \in routing.books
        /\ \A leg \in LegIds : call.seen[leg] = 0 => net[leg] = 0
  <2>1. CASE BookPositions(t)
    <3> DEFINE call == [NoCall EXCEPT !.pc = "rows", !.seen = net]
    <3>1. call \in CallType /\ call.pc = "rows" /\ call.seen = net
      BY NoCallType DEF CallType, Inv, Types
    <3>2. router' = [router EXCEPT ![t] = call] /\ t \in routing.books
      BY <2>1 DEF BookPositions, Proceed
    <3> QED BY <3>1, <3>2
  <2>2. CASE BookRows(t)
    <3> DEFINE open == {leg \in LegIds : ledger[leg].status = "open"}
               call == [router[t] EXCEPT !.pc = "book", !.rows = open]
    <3>1. router[t] \in CallType /\ router[t].pc = "rows" /\ open \in SUBSET LegIds
      BY <2>2 DEF BookRows, Inv, Types
    <3>2. call \in CallType /\ call.pc = "book" /\ call.seen = router[t].seen
      BY <3>1 DEF CallType
    <3>3. router' = [router EXCEPT ![t] = call]
      BY <2>2 DEF BookRows, Proceed
    <3>4. t \in routing.books /\ \A leg \in LegIds : router[t].seen[leg] = 0 => net[leg] = 0
      BY <3>1 DEF Inv, Booking
    <3> QED BY <3>2, <3>3, <3>4
  <2> QED BY <2>1, <2>2
<1>2. UNCHANGED <<routing, ledger, net>> /\ spent' \in [intents : Nat, crashes : Nat]
  BY DEF BookPositions, BookRows, Inv, Types
<1>3. router'[t] = call
  BY <1>1 DEF Inv, Types
<1>4. Submitting(t)' /\ Booking(t)'
  BY <1>1, <1>2, <1>3 DEF Submitting, Booking
<1> QED BY <1>1, <1>2, <1>4, LookKeeps

(* One row of a reconcile: it is closed only if its leg was seen flat, which it
   still is, since nobody else buys. *)
LEMMA BookOneKeeps ==
  ASSUME Orderly, Inv, NEW t \in Strategies, NEW leg \in LegIds, BookOne(t, leg)
  PROVE  Inv'
<1> DEFINE row == Booked(ledger[leg], router[t].seen[leg])
           call == [router[t] EXCEPT !.rows = @ \ {leg}]
<1>1. router[t] \in CallType /\ router[t].pc = "book"
  BY DEF BookOne, Inv, Types
<1>2. call \in CallType /\ call.pc = "book" /\ call.seen = router[t].seen
  BY <1>1 DEF CallType
<1>3. /\ router' = [router EXCEPT ![t] = call] /\ ledger' = [ledger EXCEPT ![leg] = row]
      /\ UNCHANGED <<routing, net, spent>>
  BY DEF BookOne, Proceed
<1>4. ledger[leg] \in RowType /\ router[t].seen[leg] \in {0, 1}
  BY <1>1 DEF Inv, Types, CallType
<1>5. row \in RowType
  <2> DEFINE old == ledger[leg]
             held == router[t].seen[leg]
  <2>1. old \in RowType /\ held \in Nat
    BY <1>4
  <2> HIDE DEF old, held
  <2>2. Booked(old, held) \in RowType
    BY <2>1 DEF Booked, RowType
  <2> QED BY <2>2 DEF old, held
<1>6. t \in routing.books /\ \A l \in LegIds : router[t].seen[l] = 0 => net[l] = 0
  BY <1>1 DEF Inv, Booking
<1>7. net[leg] # 0 => row.status = ledger[leg].status /\ row.entry_tag = ledger[leg].entry_tag
  BY <1>4, <1>6 DEF Booked, RowType
<1> HIDE DEF row, call
<1>8. ledger'[leg] = row /\ \A l \in LegIds : l # leg => ledger'[l] = ledger[l]
  BY <1>3 DEF Inv, Types
<1>9. router'[t] = call /\ \A u \in Strategies : u # t => router'[u] = router[u]
  BY <1>3 DEF Inv, Types
<1>10. Types'
  BY <1>2, <1>3, <1>5 DEF Inv, Types
<1>11. HeldBlocks'
  <2>1. ASSUME NEW l \in LegIds, net[l] # 0
        PROVE  ledger'[l].status \in {"pending", "open"} /\ ledger'[l].entry_tag = EntryTag(l)
    BY <2>1, <1>7, <1>8 DEF Inv, HeldBlocks, Blocking
  <2> QED BY <2>1, <1>3 DEF HeldBlocks, Blocking
<1>12. Submitting(t)' /\ Booking(t)'
  BY <1>2, <1>3, <1>6, <1>9 DEF Submitting, Booking
<1>13. ASSUME NEW u \in Strategies, u # t PROVE Submitting(u)' /\ Booking(u)'
  <2>1. routing.trades[u] = {}
    BY <1>6, <1>13, CaseFields DEF Inv, Types
  <2>2. router[u].pc \notin {"upsert", "place", "mark"}
    BY <2>1 DEF Inv, Submitting
  <2> QED BY <1>3, <1>9, <1>13, <2>2 DEF Inv, Submitting, Booking
<1> QED BY <1>10, <1>11, <1>12, <1>13 DEF Inv

(* A crash ends every call; a leg that is squared off is flat for everybody. *)
LEMMA WorldKeeps ==
  ASSUME Inv, RouterCrash \/ \E leg \in LegIds : SquareOff(leg)
  PROVE  Inv'
<1>1. CASE RouterCrash
  <2>1. router' = [t \in Strategies |-> NoCall] /\ UNCHANGED <<routing, ledger, net>>
    BY <1>1 DEF RouterCrash
  <2>2. spent' \in [intents : Nat, crashes : Nat]
    BY <1>1 DEF RouterCrash, Inv, Types
  <2>3. Types'
    BY <2>1, <2>2, NoCallType DEF Inv, Types
  <2>4. \A t \in Strategies : router'[t].pc = "idle"
    BY <2>1, NoCallType
  <2>5. HeldBlocks'
    BY <2>1 DEF Inv, HeldBlocks, Blocking
  <2> QED BY <2>3, <2>4, <2>5 DEF Inv, Submitting, Booking
<1>2. ASSUME NEW leg \in LegIds, SquareOff(leg) PROVE Inv'
  <2>1. net' = [net EXCEPT ![leg] = 0] /\ UNCHANGED <<routing, ledger, router, spent>>
    BY <1>2 DEF SquareOff
  <2>2. \A l \in LegIds : net'[l] = net[l] \/ net'[l] = 0
    BY <2>1 DEF Inv, Types
  <2>3. Types'
    BY <2>1 DEF Inv, Types
  <2>4. HeldBlocks'
    BY <2>1, <2>2 DEF Inv, HeldBlocks, Blocking
  <2>5. \A t \in Strategies : router[t].leg \in LegIds
    BY DEF Inv, Types, CallType
  <2>6. ASSUME NEW t \in Strategies PROVE Submitting(t)'
    BY <2>1, <2>2, <2>5 DEF Inv, Submitting, Blocking
  <2>7. ASSUME NEW t \in Strategies PROVE Booking(t)'
    BY <2>1, <2>2 DEF Inv, Booking
  <2> QED BY <2>3, <2>4, <2>6, <2>7 DEF Inv
<1> QED BY <1>1, <1>2

(* Every step keeps the invariant. *)
LEMMA NextKeeps ==
  ASSUME Orderly, Inv, [RouterNext]_routerVars
  PROVE  Inv'
<1>1. CASE UNCHANGED routerVars
  BY <1>1 DEF routerVars, Inv, Types, HeldBlocks, Blocking, Submitting, Booking
<1>2. ASSUME NEW t \in Strategies, NEW leg \in LegIds, NEW kind \in {"enter", "exit"}, Submit(t, leg, kind) PROVE Inv'
  BY <1>2, SubmitKeeps
<1>3. ASSUME NEW t \in Strategies, Answer(t) PROVE Inv'
  BY <1>3, UpsertKeeps, PlaceNothingKeeps, PlaceAcceptedKeeps, MarkKeeps DEF Answer
<1>4. ASSUME NEW t \in Strategies, Book(t) PROVE Inv'
  BY <1>4, BookReadsKeep, BookOneKeeps, ReturnKeeps DEF Book, BookEnd
<1> QED BY <1>1, <1>2, <1>3, <1>4, WorldKeeps DEF RouterNext

(* On an orderly desk the ledger knows every position: wherever the process
   dies, whatever is squared off by hand and however calls and reconciles
   interleave, the row of a leg that is held is pending or open
   (order_router.py:41, position_ledger.py:338). *)
THEOREM LedgerKnows ==
  ASSUME Orderly
  PROVE  RouterSpec => []HeldIsKnown
<1>1. Inv => HeldIsKnown
  BY DEF Inv, HeldBlocks, Blocking, HeldIsKnown
<1> QED BY <1>1, InitInv, NextKeeps, PTL DEF RouterSpec

(* On an orderly desk a signal never buys a second lot of a leg, also when an
   entry is a plain purchase and not a target: the row of a held leg has the
   tag of its entry, so the duplicate is refused (order_router.py:41). *)
THEOREM SignalsBuyOnce ==
  ASSUME Orderly
  PROVE  RouterSpec => []SignalFiresOnce
<1>1. Inv => SignalFiresOnce
  BY DEF Inv, Types, SignalFiresOnce
<1> QED BY <1>1, InitInv, NextKeeps, PTL DEF RouterSpec
-----------------------------------------------------------------------------
(* The quantities of the ledger.  A leg that nobody trades has no row, and the
   rows a reconcile has still to go through are open: whoever else could change
   one would be a second thread of its leg. *)
Quantities ==
    /\ \A leg \in LegIds :
         /\ ledger[leg].status = "open" => ledger[leg].quantity # 0
         /\ ledger[leg].status \in {"absent", "closed"} => ledger[leg].quantity = 0
         /\ ledger[leg].status # "absent" => \E t \in Strategies : leg \in routing.trades[t]
    /\ \A t \in Strategies : router[t].pc = "book" =>
         \A leg \in router[t].rows : leg \in LegIds /\ ledger[leg].status = "open"

(* One row of a leg that thread t trades changes, while t books nothing. *)
LEMMA RowKeepsQuantities ==
  ASSUME Orderly, Inv, Quantities, NEW t \in Strategies, NEW leg \in routing.trades[t], NEW row \in RowType, NEW call,
         call.pc # "book", router' = [router EXCEPT ![t] = call], ledger' = [ledger EXCEPT ![leg] = row],
         routing' = routing,
         row.status = "open" => row.quantity # 0,
         row.status \in {"absent", "closed"} => row.quantity = 0
  PROVE  Quantities'
<1>1. leg \in LegIds /\ routing \in RouterCases
  BY CaseFields DEF Inv, Types
<1>2. ledger'[leg] = row /\ \A l \in LegIds : l # leg => ledger'[l] = ledger[l]
  BY <1>1 DEF Inv, Types
<1>3. router'[t] = call /\ \A u \in Strategies : u # t => router'[u] = router[u]
  BY DEF Inv, Types
<1>4. ASSUME NEW u \in Strategies, u # t PROVE router[u].pc # "book"
  BY <1>1, <1>4, CaseFields DEF Inv, Booking
<1>5. \A u \in Strategies : router'[u].pc # "book"
  BY <1>3, <1>4
<1> QED BY <1>1, <1>2, <1>5 DEF Quantities

(* mark_error, mark_closed and mark_open of a pending row. *)
LEMMA MarkedRow ==
  ASSUME NEW old \in RowType, old.status = "pending", NEW made, made.kind \in {"enter", "exit"},
         made.result \in {"failed", "noop", "ok"}
  PROVE  /\ Marked(old, made) \in RowType
         /\ Marked(old, made).status = "open" => Marked(old, made).quantity # 0
         /\ Marked(old, made).status \in {"absent", "closed"} => Marked(old, made).quantity = 0
<1> DEFINE new == Marked(old, made)
<1>1. new \in RowType
  BY DEF Marked, RowType
<1>2. CASE made.result = "failed"
  BY <1>2 DEF Marked, RowType
<1>3. CASE made.result = "noop"
  BY <1>3 DEF Marked, RowType
<1>4. CASE made.result = "ok" /\ made.kind = "exit"
  <2>1. new.status = "closed" /\ new.quantity = 0
    BY <1>4 DEF Marked, RowType
  <2> QED BY <1>1, <2>1
<1>5. CASE made.result = "ok" /\ made.kind = "enter"
  <2>1. new.status = "open" /\ new.quantity = 1
    BY <1>5 DEF Marked, RowType
  <2> QED BY <1>1, <2>1
<1> QED BY <1>2, <1>3, <1>4, <1>5

LEMMA QuantitiesNext == ASSUME Orderly, Inv, Quantities, [RouterNext]_routerVars PROVE Quantities'
<1>1. router \in [Strategies -> CallType] /\ ledger \in [LegIds -> RowType] /\ routing \in RouterCases
  BY DEF Inv, Types
<1>2. ASSUME NEW t \in Strategies, UpsertPending(t) PROVE Quantities'
  <2> DEFINE leg == router[t].leg
             row == [ledger[leg] EXCEPT !.status = "pending",
                       !.entry_tag = IF router[t].kind = "enter" THEN EntryTag(leg) ELSE @]
             call == [router[t] EXCEPT !.pc = "place"]
  <2>1. leg \in routing.trades[t] /\ leg \in LegIds /\ ledger[leg] \in RowType /\ router[t] \in CallType
    BY <1>1, <1>2 DEF UpsertPending, Inv, Submitting, CallType
  <2>2. row \in RowType /\ row.status = "pending" /\ call.pc # "book"
    BY <2>1 DEF RowType, CallType
  <2>3. ledger' = [ledger EXCEPT ![leg] = row] /\ router' = [router EXCEPT ![t] = call] /\ routing' = routing
    BY <1>1, <1>2, <2>1 DEF UpsertPending, Proceed
  <2> HIDE DEF row, leg, call
  <2> QED BY <2>1, <2>2, <2>3, RowKeepsQuantities
<1>3. ASSUME NEW t \in Strategies, Mark(t) PROVE Quantities'
  <2> DEFINE leg == router[t].leg
             row == Marked(ledger[leg], router[t])
  <2>1. /\ leg \in routing.trades[t] /\ leg \in LegIds /\ ledger[leg] \in RowType /\ router[t].kind \in {"enter", "exit"}
        /\ ledger[leg].status = "pending" /\ router[t].result \in {"failed", "noop", "ok"}
    BY <1>1, <1>3 DEF Mark, Inv, Submitting, CallType
  <2>2. /\ row \in RowType
        /\ row.status = "open" => row.quantity # 0
        /\ row.status \in {"absent", "closed"} => row.quantity = 0
    BY <2>1, MarkedRow
  <2>3. ledger' = [ledger EXCEPT ![leg] = row] /\ router' = [router EXCEPT ![t] = NoCall] /\ routing' = routing
    BY <1>3 DEF Mark, Proceed
  <2> HIDE DEF row, leg
  <2> QED BY <2>1, <2>2, <2>3, NoCallType, RowKeepsQuantities
<1>4. ASSUME NEW t \in Strategies, NEW l \in LegIds, BookOne(t, l) PROVE Quantities'
  <2> DEFINE row == Booked(ledger[l], router[t].seen[l])
             rows == router[t].rows \ {l}
  <2>1. /\ router[t].pc = "book" /\ l \in router[t].rows /\ ledger[l].status = "open" /\ ledger[l] \in RowType
        /\ router[t].seen[l] \in {0, 1} /\ router[t] \in CallType /\ t \in routing.books
    BY <1>1, <1>4 DEF BookOne, Quantities, CallType, Inv, Booking
  <2>2. row.status \in {"open", "closed"} /\ (row.status = "open" => row.quantity # 0)
        /\ (row.status = "closed" => row.quantity = 0)
    BY <2>1 DEF Booked, RowType
  <2>3. ledger' = [ledger EXCEPT ![l] = row] /\ routing' = routing /\ router' = [router EXCEPT ![t].rows = rows]
    BY <1>4 DEF BookOne, Proceed
  <2> HIDE DEF row
  <2>4. ledger'[l] = row /\ \A k \in LegIds : k # l => ledger'[k] = ledger[k]
    BY <1>1, <2>3
  <2>5. router'[t].rows = rows /\ \A u \in Strategies : u # t => router'[u] = router[u]
    BY <1>1, <2>1, <2>3 DEF CallType
  <2>6. ASSUME NEW u \in Strategies, u # t PROVE router[u].pc # "book"
    <3>1. PICK v \in Strategies : l \in routing.trades[v]
      BY <2>1 DEF Quantities
    <3>2. v = t /\ u \notin routing.books
      BY <1>1, <2>1, <2>6, <3>1, CaseFields
    <3> QED BY <3>2 DEF Inv, Booking
  <2>7. \A k \in rows : k \in LegIds /\ k # l /\ ledger[k].status = "open"
    BY <2>1 DEF Quantities
  <2>8. \A u \in Strategies : router'[u].pc = "book" =>
          \A k \in router'[u].rows : k \in LegIds /\ ledger'[k].status = "open"
    BY <2>4, <2>5, <2>6, <2>7
  <2> HIDE DEF rows
  <2> QED BY <2>1, <2>2, <2>3, <2>4, <2>8 DEF Quantities
<1>5. ASSUME NEW t \in Strategies, NEW call \in CallType, UNCHANGED <<routing, ledger>>,
             router' = [router EXCEPT ![t] = call],
             call.pc = "book" => \A leg \in call.rows : leg \in LegIds /\ ledger[leg].status = "open"
      PROVE  Quantities'
  <2>1. router'[t] = call /\ \A u \in Strategies : u # t => router'[u] = router[u]
    BY <1>1, <1>5
  <2> QED BY <1>5, <2>1 DEF Quantities
<1>6. ASSUME NEW t \in Strategies, NEW leg \in LegIds, NEW kind \in {"enter", "exit"}, Submit(t, leg, kind) PROVE Quantities'
  <2> DEFINE call == [NoCall EXCEPT !.pc = "upsert", !.kind = kind, !.leg = leg]
  <2>1. call \in CallType /\ call.pc = "upsert"
    BY NoCallType DEF CallType
  <2>2. UNCHANGED <<routing, ledger>> /\ router' = [router EXCEPT ![t] = call]
    BY <1>6 DEF Submit, Proceed
  <2> HIDE DEF call
  <2> QED BY <1>5, <2>1, <2>2
<1>7. ASSUME NEW t \in Strategies, PlaceNoop(t) \/ PlaceAccepted(t) \/ PlaceRefused(t) PROVE Quantities'
  <2>1. router[t] \in CallType
    BY <1>1
  <2>2. PICK answer \in {"noop", "ok", "failed"} : router' = [router EXCEPT ![t] = [router[t] EXCEPT !.pc = "mark", !.result = answer]]
    BY <1>7 DEF PlaceNoop, PlaceAccepted, PlaceRefused, Proceed
  <2> DEFINE call == [router[t] EXCEPT !.pc = "mark", !.result = answer]
  <2>3. call \in CallType /\ call.pc = "mark" /\ UNCHANGED <<routing, ledger>>
    BY <1>7, <2>1 DEF CallType, PlaceNoop, PlaceAccepted, PlaceRefused
  <2> HIDE DEF call
  <2>4. router' = [router EXCEPT ![t] = call]
    BY <2>2 DEF call
  <2> QED BY <1>5, <2>3, <2>4
<1>8. ASSUME NEW t \in Strategies, BookPositions(t) PROVE Quantities'
  <2> DEFINE call == [NoCall EXCEPT !.pc = "rows", !.seen = net]
  <2>1. call \in CallType /\ call.pc = "rows"
    BY NoCallType DEF CallType, Inv, Types
  <2>2. UNCHANGED <<routing, ledger>> /\ router' = [router EXCEPT ![t] = call]
    BY <1>8 DEF BookPositions, Proceed
  <2> HIDE DEF call
  <2> QED BY <1>5, <2>1, <2>2
<1>9. ASSUME NEW t \in Strategies, BookRows(t) PROVE Quantities'
  <2> DEFINE open == {leg \in LegIds : ledger[leg].status = "open"}
             call == [router[t] EXCEPT !.pc = "book", !.rows = open]
  <2>1. router[t] \in CallType /\ open \in SUBSET LegIds
    BY <1>1
  <2>2. call \in CallType /\ call.rows = open
    BY <2>1 DEF CallType
  <2>3. UNCHANGED <<routing, ledger>> /\ router' = [router EXCEPT ![t] = call]
    BY <1>9 DEF BookRows, Proceed
  <2>4. \A leg \in open : leg \in LegIds /\ ledger[leg].status = "open"
    OBVIOUS
  <2> HIDE DEF call, open
  <2> QED BY <1>5, <2>2, <2>3, <2>4
<1>10. ASSUME NEW t \in Strategies, BookEnd(t) PROVE Quantities'
  BY <1>5, <1>10, NoCallType DEF BookEnd, Proceed
<1>11. CASE RouterCrash
  BY <1>11, NoCallType DEF RouterCrash, Quantities
<1>12. CASE (\E leg \in LegIds : SquareOff(leg)) \/ UNCHANGED routerVars
  BY <1>12 DEF SquareOff, routerVars, Quantities
<1> QED BY <1>2, <1>3, <1>4, <1>6, <1>7, <1>8, <1>9, <1>10, <1>11, <1>12 DEF RouterNext, Answer, Book

(* On an orderly desk the ledger's rows have their types, and a row is open
   with a quantity and absent or closed without one, also when a reconcile
   goes by the positions and the rows that it read before (position_ledger.py:338). *)
THEOREM OpenRowsHaveLots ==
  ASSUME Orderly
  PROVE  RouterSpec => []RouterTypeOK
<1>1. ASSUME RouterInit PROVE Inv /\ Quantities
  BY <1>1, InitInv, NoCallType DEF RouterInit, Quantities, Absent
<1>2. ASSUME Inv, Quantities PROVE RouterTypeOK
  BY <1>2 DEF Inv, Types, Quantities, RowType, RouterTypeOK
<1> QED BY <1>1, <1>2, NextKeeps, QuantitiesNext, PTL DEF RouterSpec
=============================================================================
