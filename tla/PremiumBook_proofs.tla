------------------------- MODULE PremiumBook_proofs -------------------------
(***************************************************************************)
(* Theorems about PremiumBook for every set of strikes at the money and    *)
(* every configuration: its types, for any requests; and, as long as no    *)
(* closing request is alive at a change of the day, that the book never    *)
(* forgets what the broker holds and that an entry waits for a new bar.    *)
(***************************************************************************)
EXTENDS PremiumBook, SequenceTheorems, TLAPS

Strikes == UNION {a - 2 .. a + 2 : a \in Atms}
Structures == {"none", "bull_put", "bear_call", "bull_call", "bear_put", "long_strangle"}
OrderLegs == {"CE", "PE"} \X Strikes \X {-1, 1}
Packages == [open : BOOLEAN, structure : Structures, legs : Seq(OrderLegs), bar : Nat, action : Nat, exit : Nat]
Files == [runner : BOOLEAN, session : Nat, seen : BOOLEAN, action : Nat, exit : Nat, package : Packages]
Turns ==
    [pc : {"idle", "candles", "judge", "look", "close", "gates", "open", "config"}, op : {"tick", "close", "revoke"},
     package : Packages, guard : [action : Nat, exit : Nat], zone : Zones, atr : BOOLEAN, bar : Nat, atm : Nat,
     force : BOOLEAN, seen : BOOLEAN, buy : BOOLEAN, structure : Structures, legs : Seq(OrderLegs), todo : Seq(OrderLegs),
     late : BOOLEAN]

DeskTypes ==
    /\ book \in BookCases
    /\ wall \in [day : Nat \ {0}, phase : {"morning", "open", "force", "closed"}, bar : Nat, armed : BOOLEAN,
                 buy : BOOLEAN]
    /\ holdings \in [Options -> -1 .. 1]
    /\ pstate \in Files
    /\ desk \in [Desks -> Turns]
    /\ uses \in [calls : Nat, crashes : Nat]
    /\ acts \in [entry : Nat, exit : Nat, cut : BOOLEAN, back : BOOLEAN]

(* An open package has the legs of its structure, any other none; so has what
   the tick is opening, which is not yet in the file. *)
Built(legs, structure) == legs # << >> /\ \E a \in Atms : legs = PackageLegs(structure, a)
Whole(p) == IF p.open THEN Built(p.legs, p.structure) ELSE p.legs = << >>
Shaped ==
    /\ Whole(pstate.package) /\ \A t \in Desks : Whole(desk[t].package)
    /\ desk[Ticker].op = "tick" /\ desk[Ticker].pc # "config"
    /\ desk[Ticker].pc = "open" =>
         /\ ~pstate.package.open /\ Built(desk[Ticker].legs, desk[Ticker].structure)
         /\ desk[Ticker].todo \in {desk[Ticker].legs, Tail(desk[Ticker].legs), << >>}
    /\ desk[Ticker].pc \in {"judge", "look", "close", "gates"} => desk[Ticker].atm \in Atms
    /\ desk[Handler].pc \in {"idle", "look", "close", "config"}
    /\ desk[Handler].pc # "idle" => desk[Handler].op \in book.ops \cap {"close", "revoke"}

(* No stamp is newer than the bar the tick judges, or than the clock's. *)
Dated(p, b) == p.bar <= b /\ p.action <= b /\ p.exit <= b
Newest == IF desk[Ticker].pc \in {"judge", "look", "close", "gates", "open"} THEN desk[Ticker].bar ELSE wall.bar
AllDated ==
    /\ Newest <= wall.bar
    /\ Dated(pstate.package, Newest) /\ pstate.action <= Newest /\ pstate.exit <= Newest
    /\ \A t \in Desks : Dated(desk[t].package, Newest)

BaseInv == DeskTypes /\ Shaped /\ AllDated

(* A request that closes may meet a first tick that wipes yesterday's package
   and opens the next: it then closes the new one in the file alone. *)
ClosesInADay == \A c \in BookCases : c.days = 1 \/ c.ops \cap {"close", "revoke"} = {}

(* Outside the tick of its day the file knows nothing that is held. *)
HeldIn(legs) == \A o \in Options : holdings[o] # 0 => o \in OptionsOf(legs)
Daily ==
    /\ desk[Ticker].pc # "idle" => pstate.session = wall.day
    /\ pstate.session # wall.day /\ ~acts.cut => HeldIn(<< >>)
    /\ book.days = 1 => wall.day = 1 /\ (pstate.package.open => pstate.session = wall.day)

(* While a request closes, the tick opens nothing: when it has closed the
   package first, it has stamped its bar. *)
Crossed == desk[Handler].pc \in {"look", "close"} =>
    /\ desk[Ticker].pc # "idle" => desk[Handler].late
    /\ desk[Ticker].pc # "open"
    /\ ~pstate.package.open =>
         /\ desk[Handler].late
         /\ desk[Ticker].pc # "idle" => desk[Ticker].pc = "gates" /\ Guard(pstate).action = desk[Ticker].bar

(* Who holds what: the file, or the tick that opens; and what a close has
   still to trade. *)
Tracked == ~acts.cut =>
    /\ desk[Ticker].pc # "open" => HeldIn(pstate.package.legs)
    /\ desk[Ticker].pc = "open" => HeldIn(desk[Ticker].legs)
    /\ desk[Ticker].pc = "open" /\ desk[Ticker].todo = desk[Ticker].legs => HeldIn(<< >>)
    /\ desk[Ticker].pc = "judge" => HeldIn(desk[Ticker].package.legs)
    /\ \A t \in Desks : desk[t].pc = "look" => HeldIn(desk[t].package.legs)
    /\ \A t \in Desks : desk[t].pc = "close" => HeldIn(desk[t].todo)

(* The desk's stamp is as new as the last entry and the last exit, but for
   the opening whose first order is out. *)
Ordered == desk[Ticker].pc = "open" /\ desk[Ticker].todo # desk[Ticker].legs
Waited == ~acts.cut /\ ~acts.back =>
    /\ ~Ordered => acts.entry <= pstate.action /\ acts.exit <= pstate.action
    /\ Ordered => acts.entry <= desk[Ticker].bar /\ acts.exit <= desk[Ticker].bar
    /\ desk[Ticker].pc = "open" /\ ~Ordered => acts.entry < desk[Ticker].bar /\ acts.exit < desk[Ticker].bar

BookInv == BaseInv /\ Daily /\ Crossed /\ Tracked /\ Waited

-----------------------------------------------------------------------------
(* The two threads, and the fields of a case. *)
LEMMA TwoDesks ==
  /\ Ticker \in Desks /\ Handler \in Desks /\ Ticker # Handler
  /\ \A t \in Desks : t = Ticker \/ t = Handler
BY DesksAssumption DEF Desks

LEMMA BookFieldTypes ==
  ASSUME book \in BookCases
  PROVE  /\ {book.buy, book.blind, book.atr, book.disarm, book.flatten} \subseteq BOOLEAN
         /\ book.atms \subseteq Atms /\ book.ops \subseteq BookOps
         /\ {book.crashes, book.calls, book.days, book.bars} \subseteq Nat
BY BookCasesAssumption

LEMMA CalmCase ==
  ASSUME ClosesInADay, book \in BookCases PROVE book.days = 1 \/ book.ops \cap {"close", "revoke"} = {}
BY DEF ClosesInADay

(* The options are those of the legs; an order leg names one. *)
LEMMA OptionTypes ==
  /\ Options = {"CE", "PE"} \X Strikes
  /\ \A leg \in OrderLegs : OptionOf(leg) \in Options /\ leg[3] \in -1 .. 1
<1>1. Options = {"CE", "PE"} \X Strikes
  BY DEF Options, Strikes
<1>2. ASSUME NEW leg \in OrderLegs PROVE OptionOf(leg) \in Options /\ leg[3] \in -1 .. 1
  <2>1. leg[1] \in {"CE", "PE"} /\ leg[2] \in Strikes /\ leg[3] \in {-1, 1}
    BY DEF OrderLegs
  <2> QED BY <1>1, <2>1 DEF OptionOf
<1> QED BY <1>1, <1>2

(* A structure is two legs, or no structure and none. *)
LEMMA LegsBuilt ==
  ASSUME NEW a \in Atms, NEW s
  PROVE  /\ PackageLegs(s, a) \in Seq(OrderLegs)
         /\ PackageLegs(s, a) # << >> => Len(PackageLegs(s, a)) = 2
<1>1. a \in Nat /\ a - 2 .. a + 2 \subseteq Strikes
  BY AtmsAssumption DEF Strikes
<1>2. {a - 2, a - 1, a, a + 1, a + 2} \subseteq Strikes
  BY <1>1
<1>3. ASSUME NEW x \in OrderLegs, NEW y \in OrderLegs PROVE <<x, y>> \in Seq(OrderLegs) /\ Len(<<x, y>>) = 2
  OBVIOUS
<1>4. ASSUME NEW k \in {"CE", "PE"}, NEW n \in {a - 2, a - 1, a, a + 1, a + 2}, NEW d \in {-1, 1}
      PROVE  <<k, n, d>> \in OrderLegs
  BY <1>2 DEF OrderLegs
<1>5. << >> \in Seq(OrderLegs)
  OBVIOUS
<1>6. CASE s = "bull_put"
  <2>1. PackageLegs(s, a) = << <<"PE", a - 1, -1>>, <<"PE", a - 2, 1>> >>
    BY <1>6 DEF PackageLegs
  <2> QED BY <1>3, <1>4, <2>1
<1>7. CASE s = "bear_call"
  <2>1. PackageLegs(s, a) = << <<"CE", a + 1, -1>>, <<"CE", a + 2, 1>> >>
    BY <1>7 DEF PackageLegs
  <2> QED BY <1>3, <1>4, <2>1
<1>8. CASE s = "bull_call"
  <2>1. PackageLegs(s, a) = << <<"CE", a, 1>>, <<"CE", a + 1, -1>> >>
    BY <1>8 DEF PackageLegs
  <2> QED BY <1>3, <1>4, <2>1
<1>9. CASE s = "bear_put"
  <2>1. PackageLegs(s, a) = << <<"PE", a, 1>>, <<"PE", a - 1, -1>> >>
    BY <1>9 DEF PackageLegs
  <2> QED BY <1>3, <1>4, <2>1
<1>10. CASE s = "long_strangle"
  <2>1. PackageLegs(s, a) = << <<"CE", a + 1, 1>>, <<"PE", a - 1, 1>> >>
    BY <1>10 DEF PackageLegs
  <2> QED BY <1>3, <1>4, <2>1
<1>11. CASE s \notin {"bull_put", "bear_call", "bull_call", "bear_put", "long_strangle"}
  <2>1. PackageLegs(s, a) = << >>
    BY <1>11 DEF PackageLegs
  <2> QED BY <1>5, <2>1
<1> QED BY <1>6, <1>7, <1>8, <1>9, <1>10, <1>11

LEMMA BuiltLegs ==
  ASSUME NEW legs, NEW s, Built(legs, s) PROVE legs \in Seq(OrderLegs) /\ Len(legs) = 2
BY LegsBuilt DEF Built

(* The first leg of a list and the rest. *)
LEMMA FirstAndRest ==
  ASSUME NEW s \in Seq(OrderLegs), s # << >>
  PROVE  /\ Head(s) \in OrderLegs /\ Tail(s) \in Seq(OrderLegs) /\ Len(Tail(s)) = Len(s) - 1
         /\ OptionsOf(s) = {OptionOf(Head(s))} \cup OptionsOf(Tail(s))
<1>1. Head(s) \in OrderLegs /\ Tail(s) \in Seq(OrderLegs) /\ Len(Tail(s)) = Len(s) - 1 /\ Len(s) \in Nat \ {0}
  OBVIOUS
<1>2. Head(s) = s[1] /\ \A i \in 1 .. Len(s) - 1 : Tail(s)[i] = s[i + 1]
  OBVIOUS
<1>3. ASSUME NEW i \in 1 .. Len(s) PROVE OptionOf(s[i]) \in {OptionOf(Head(s))} \cup OptionsOf(Tail(s))
  <2>1. CASE i = 1
    BY <1>2, <2>1
  <2>2. CASE i # 1
    <3>1. i - 1 \in 1 .. Len(Tail(s)) /\ Tail(s)[i - 1] = s[i]
      BY <1>1, <1>2, <2>2
    <3> QED BY <3>1 DEF OptionsOf
  <2> QED BY <2>1, <2>2
<1>4. ASSUME NEW i \in 1 .. Len(Tail(s)) PROVE OptionOf(Tail(s)[i]) \in OptionsOf(s)
  <2>1. i + 1 \in 1 .. Len(s) /\ Tail(s)[i] = s[i + 1]
    BY <1>1, <1>2
  <2> QED BY <2>1 DEF OptionsOf
<1>5. OptionOf(Head(s)) \in OptionsOf(s)
  BY <1>1, <1>2 DEF OptionsOf
<1>6. OptionsOf(s) \subseteq {OptionOf(Head(s))} \cup OptionsOf(Tail(s))
  BY <1>3 DEF OptionsOf
<1>7. OptionsOf(Tail(s)) \subseteq OptionsOf(s)
  BY <1>4 DEF OptionsOf
<1> QED BY <1>1, <1>5, <1>6, <1>7

LEMMA NoLegs == OptionsOf(<< >>) = {} /\ << >> \in Seq(OrderLegs)
BY DEF OptionsOf

(* What is left of a structure's legs while they are traded. *)
LEMMA LegsLeft ==
  ASSUME NEW legs, NEW s, Built(legs, s), NEW todo \in {legs, Tail(legs), << >>}, todo # << >>
  PROVE  /\ Tail(todo) \in {Tail(legs), << >>} /\ Tail(todo) # legs
         /\ OptionOf(Head(todo)) \in OptionsOf(legs) /\ Head(todo)[3] \in -1 .. 1
         /\ OptionOf(Head(todo)) \in Options
<1>1. legs \in Seq(OrderLegs) /\ Len(legs) = 2 /\ legs # << >>
  BY BuiltLegs DEF Built
<1>2. todo \in Seq(OrderLegs)
  BY <1>1, NoLegs
<1>3. Len(Tail(legs)) = 1 /\ Tail(legs) \in Seq(OrderLegs) /\ Tail(legs) # << >>
  <2>1. Len(Tail(legs)) = 1 /\ Tail(legs) \in Seq(OrderLegs)
    BY <1>1, FirstAndRest
  <2>2. Len(<< >>) = 0
    BY EmptySeq
  <2>3. Len(Tail(legs)) # Len(<< >>)
    BY <2>1, <2>2
  <2> QED BY <2>1, <2>3
<1>4. Tail(Tail(legs)) = << >>
  <2>1. Len(Tail(Tail(legs))) = 0 /\ Tail(Tail(legs)) \in Seq(OrderLegs)
    BY <1>3, FirstAndRest
  <2> QED BY <2>1
<1>5. Tail(todo) \in {Tail(legs), << >>} /\ Tail(todo) # legs
  BY <1>1, <1>3, <1>4
<1>6. OptionsOf(todo) \subseteq OptionsOf(legs) /\ OptionOf(Head(todo)) \in OptionsOf(todo)
  BY <1>1, <1>2, FirstAndRest
<1> QED BY <1>2, <1>5, <1>6, FirstAndRest, OptionTypes

-----------------------------------------------------------------------------
(* What the writers make of the file and of a thread. *)
LEMMA AtRestIs ==
  /\ FlatPackage \in Packages /\ Whole(FlatPackage)
  /\ FlatPackage.open = FALSE /\ FlatPackage.legs = << >>
  /\ \A b \in Nat : Dated(FlatPackage, b)
  /\ AtRest \in Turns /\ AtRest.pc = "idle" /\ AtRest.op = "tick" /\ AtRest.package = FlatPackage
<1>1. FlatPackage \in Packages /\ FlatPackage.open = FALSE /\ FlatPackage.legs = << >>
  BY NoLegs DEF FlatPackage, Packages, Structures
<1>2. Whole(FlatPackage) /\ \A b \in Nat : Dated(FlatPackage, b)
  BY DEF Whole, Dated, FlatPackage
<1>3. AtRest.pc = "idle" /\ AtRest.op = "tick" /\ AtRest.package = FlatPackage
  BY DEF AtRest
<1>4. AtRest \in Turns
  BY <1>1, NoLegs DEF AtRest, Turns, Zones, Structures
<1> QED BY <1>1, <1>2, <1>3, <1>4

LEMMA Later2Is ==
  ASSUME NEW a \in Nat, NEW b \in Nat
  PROVE  Later2(a, b) \in {a, b} /\ a <= Later2(a, b) /\ b <= Later2(a, b) /\ Later2(a, b) \in Nat
BY DEF Later2

LEMMA GuardIs ==
  ASSUME NEW st \in Files
  PROVE  /\ Guard(st) \in [action : Nat, exit : Nat]
         /\ st.action <= Guard(st).action /\ Guard(st).action \in {st.action, st.package.action}
         /\ Guard(st).exit \in {st.exit, st.package.exit}
<1>1. st.action \in Nat /\ st.exit \in Nat /\ st.package.action \in Nat /\ st.package.exit \in Nat
  BY DEF Files, Packages
<1> QED BY <1>1, Later2Is DEF Guard

LEMMA WipeIs ==
  ASSUME NEW st \in Files, NEW today \in Nat
  PROVE  /\ DailyWipe(st, today) \in Files /\ DailyWipe(st, today).session = today
         /\ DailyWipe(st, today).action = st.action /\ DailyWipe(st, today).exit = st.exit
         /\ st.session = today => DailyWipe(st, today) = st
         /\ st.session # today => DailyWipe(st, today).package = FlatPackage
<1>1. CASE st.session = today
  BY <1>1 DEF DailyWipe
<1>2. CASE st.session # today
  <2>1. DailyWipe(st, today) = [st EXCEPT !.session = today, !.seen = FALSE, !.package = FlatPackage]
    BY <1>2 DEF DailyWipe
  <2> QED BY <1>2, <2>1, AtRestIs DEF Files
<1> QED BY <1>1, <1>2

LEMMA OpenedIs ==
  ASSUME NEW st \in Files, NEW structure \in Structures, NEW legs \in Seq(OrderLegs), NEW bar \in Nat
  PROVE  /\ Opened(st, structure, legs, bar) \in Files /\ Opened(st, structure, legs, bar).session = st.session
         /\ Opened(st, structure, legs, bar).action = bar /\ Opened(st, structure, legs, bar).exit = 0
         /\ Opened(st, structure, legs, bar).package =
              [open |-> TRUE, structure |-> structure, legs |-> legs, bar |-> bar, action |-> bar, exit |-> 0]
<1> DEFINE p == [open |-> TRUE, structure |-> structure, legs |-> legs, bar |-> bar, action |-> bar, exit |-> 0]
<1>1. p \in Packages
  BY DEF Packages
<1>2. Opened(st, structure, legs, bar) = [st EXCEPT !.action = bar, !.exit = 0, !.package = p]
  BY DEF Opened
<1> HIDE DEF p
<1>4. Opened(st, structure, legs, bar) \in Files
  <2>1. PICK none \in Nat : none = 0
    OBVIOUS
  <2>2. Opened(st, structure, legs, bar) = [st EXCEPT !.action = bar, !.exit = none, !.package = p]
    BY <1>2, <2>1
  <2> QED BY <1>1, <2>2 DEF Files
<1>5. Opened(st, structure, legs, bar).session = st.session /\ Opened(st, structure, legs, bar).action = bar /\ Opened(st, structure, legs, bar).exit = 0
      /\ Opened(st, structure, legs, bar).package = p
  BY <1>2 DEF Files
<1> QED BY <1>4, <1>5 DEF p

LEMMA ClosedIs ==
  ASSUME NEW st \in Files, NEW bar \in Nat
  PROVE  LET c == ClosedAt(st, bar)
         IN  /\ c \in Files /\ c.session = st.session /\ c.action = bar /\ c.exit = bar
             /\ c.package.open = FALSE /\ c.package.legs = << >> /\ Whole(c.package)
             /\ c.package.bar = bar /\ c.package.action = bar /\ c.package.exit = bar
             /\ Guard(c).action = bar
<1> DEFINE p == [FlatPackage EXCEPT !.bar = bar, !.action = bar, !.exit = bar]
<1>1. p \in Packages /\ p.open = FALSE /\ p.legs = << >> /\ p.bar = bar /\ p.action = bar /\ p.exit = bar
  BY NoLegs DEF FlatPackage, Packages, Structures
<1>2. ClosedAt(st, bar) = [st EXCEPT !.action = bar, !.exit = bar, !.package = p]
  BY DEF ClosedAt
<1> HIDE DEF p
<1>3. ClosedAt(st, bar) \in Files /\ ClosedAt(st, bar).session = st.session /\ ClosedAt(st, bar).action = bar
      /\ ClosedAt(st, bar).exit = bar /\ ClosedAt(st, bar).package = p
  BY <1>1, <1>2 DEF Files
<1> QED BY <1>1, <1>3, GuardIs DEF Whole

(* Where a close leaves its thread. *)
LEMMA AfterCloseIs ==
  ASSUME NEW d \in Turns
  PROVE  LET a == AfterClose(d)
         IN  /\ a \in Turns /\ a.pc \in {"idle", "gates", "config"}
             /\ a.pc # "idle" => /\ a.op = d.op /\ a.package = d.package /\ a.bar = d.bar /\ a.late = d.late
                                 /\ a.legs = d.legs /\ a.structure = d.structure /\ a.atm = d.atm
             /\ a.pc = "idle" => a = AtRest
             /\ a.pc = "gates" => d.op = "tick"
             /\ a.pc = "config" => d.op = "revoke"
<1>1. CASE d.op = "tick" /\ ~d.force
  <2>1. AfterClose(d) = [d EXCEPT !.pc = "gates"]
    BY <1>1 DEF AfterClose
  <2> QED BY <1>1, <2>1 DEF Turns
<1>2. CASE ~(d.op = "tick" /\ ~d.force) /\ d.op = "revoke"
  <2>1. AfterClose(d) = [d EXCEPT !.pc = "config"]
    BY <1>2 DEF AfterClose
  <2> QED BY <1>2, <2>1 DEF Turns
<1>3. CASE ~(d.op = "tick" /\ ~d.force) /\ d.op # "revoke"
  <2>1. AfterClose(d) = AtRest
    BY <1>3 DEF AfterClose
  <2> QED BY <2>1, AtRestIs
<1> QED BY <1>1, <1>2, <1>3

LEMMA ClosingIs ==
  ASSUME NEW d \in Turns, NEW p \in Packages
  PROVE  LET c == Closing(d, p)
         IN  /\ c \in Turns /\ c.pc \in {"close", "look"} /\ c.package = p /\ c.todo = p.legs
             /\ c.op = d.op /\ c.bar = d.bar /\ c.late = d.late /\ c.legs = d.legs /\ c.structure = d.structure /\ c.atm = d.atm
<1>1. p.legs \in Seq(OrderLegs)
  BY DEF Packages
<1>2. Closing(d, p) = [d EXCEPT !.pc = IF wall.armed THEN "close" ELSE "look", !.package = p, !.todo = p.legs]
  BY DEF Closing
<1>3. PICK pc \in {"close", "look"} : pc = IF wall.armed THEN "close" ELSE "look"
  OBVIOUS
<1>4. PICK todo \in Seq(OrderLegs) : todo = p.legs
  BY <1>1
<1>5. Closing(d, p) = [d EXCEPT !.pc = pc, !.package = p, !.todo = todo]
  BY <1>2, <1>3, <1>4
<1>6. Closing(d, p) \in Turns
  BY <1>5 DEF Turns
<1>7. Closing(d, p).pc = pc /\ Closing(d, p).package = p /\ Closing(d, p).todo = todo /\ Closing(d, p).op = d.op
      /\ Closing(d, p).bar = d.bar /\ Closing(d, p).late = d.late /\ Closing(d, p).legs = d.legs
      /\ Closing(d, p).structure = d.structure /\ Closing(d, p).atm = d.atm
  BY <1>5 DEF Turns
<1> QED BY <1>4, <1>6, <1>7

(* A turn of one thread is its own. *)
LEMMA TurnIs ==
  ASSUME desk \in [Desks -> Turns], NEW t \in Desks, NEW d \in Turns, Turn(t, d)
  PROVE  desk' \in [Desks -> Turns] /\ desk'[t] = d /\ \A u \in Desks : u # t => desk'[u] = desk[u]
BY DEF Turn

(* What a step of the tick has to show. *)
Judging == {"judge", "look", "close", "gates", "open"}
LEMMA TickerBase ==
  ASSUME BaseInv, NEW d \in Turns, Turn(Ticker, d), UNCHANGED <<book, wall>>, pstate' \in Files,
         holdings' \in [Options -> -1 .. 1], uses' \in [calls : Nat, crashes : Nat],
         acts' \in [entry : Nat, exit : Nat, cut : BOOLEAN, back : BOOLEAN],
         d.op = "tick", d.pc # "config", Whole(d.package), Whole(pstate'.package),
         d.pc = "open" => /\ ~pstate'.package.open /\ Built(d.legs, d.structure)
                          /\ d.todo \in {d.legs, Tail(d.legs), << >>},
         d.pc \in {"judge", "look", "close", "gates"} => d.atm \in Atms,
         NEW n, n = IF d.pc \in Judging THEN d.bar ELSE wall.bar,
         Newest <= n, n <= wall.bar, Dated(d.package, n), Dated(pstate'.package, n),
         pstate'.action <= n, pstate'.exit <= n
  PROVE  BaseInv' /\ desk'[Ticker] = d /\ desk'[Handler] = desk[Handler]
<1>1. desk' \in [Desks -> Turns] /\ desk'[Ticker] = d /\ desk'[Handler] = desk[Handler]
  BY TurnIs, TwoDesks DEF BaseInv, DeskTypes
<1>2. DeskTypes'
  BY <1>1 DEF BaseInv, DeskTypes
<1>3. Shaped'
  BY <1>1, TwoDesks DEF BaseInv, Shaped
<1>4. Newest' = n
  BY <1>1 DEF Newest, Judging
<1>5. Dated(desk'[Handler].package, n)
  <2>1. desk[Handler].package \in Packages
    BY TwoDesks DEF BaseInv, DeskTypes, Turns
  <2>2. desk[Handler].package.bar \in Nat /\ desk[Handler].package.action \in Nat /\ desk[Handler].package.exit \in Nat
    BY <2>1 DEF Packages
  <2>3. Dated(desk[Handler].package, Newest)
    BY TwoDesks DEF BaseInv, AllDated
  <2>4. Newest \in Nat /\ n \in Nat
    BY TwoDesks DEF BaseInv, DeskTypes, Turns, Newest
  <2> QED BY <1>1, <2>2, <2>3, <2>4 DEF Dated
<1>6. AllDated'
  BY <1>1, <1>4, <1>5, TwoDesks DEF AllDated
<1> QED BY <1>1, <1>2, <1>3, <1>6 DEF BaseInv

(* What a step of a request has to show. *)
LEMMA HandlerBase ==
  ASSUME BaseInv, NEW d \in Turns, Turn(Handler, d), book' = book, wall' \in
           [day : Nat \ {0}, phase : {"morning", "open", "force", "closed"}, bar : Nat, armed : BOOLEAN, buy : BOOLEAN],
         wall'.bar = wall.bar, pstate' \in Files,
         holdings' \in [Options -> -1 .. 1], uses' \in [calls : Nat, crashes : Nat],
         acts' \in [entry : Nat, exit : Nat, cut : BOOLEAN, back : BOOLEAN],
         d.pc \in {"idle", "look", "close", "config"}, d.pc # "idle" => d.op \in book.ops \cap {"close", "revoke"},
         Whole(d.package), Whole(pstate'.package), pstate'.package.open => pstate.package.open,
         Dated(d.package, Newest), Dated(pstate'.package, Newest), pstate'.action <= Newest, pstate'.exit <= Newest
  PROVE  BaseInv' /\ desk'[Handler] = d /\ desk'[Ticker] = desk[Ticker]
<1>1. desk' \in [Desks -> Turns] /\ desk'[Handler] = d /\ desk'[Ticker] = desk[Ticker]
  BY TurnIs, TwoDesks DEF BaseInv, DeskTypes
<1>2. DeskTypes'
  BY <1>1 DEF BaseInv, DeskTypes
<1>3. Shaped'
  BY <1>1, TwoDesks DEF BaseInv, Shaped
<1>4. Newest' = Newest
  BY <1>1 DEF Newest
<1>5. AllDated'
  BY <1>1, <1>4, TwoDesks DEF BaseInv, AllDated
<1> QED BY <1>1, <1>2, <1>3, <1>5 DEF BaseInv

(* The numbers that are compared are numbers. *)
LEMMA BookNumbers ==
  ASSUME BaseInv
  PROVE  /\ wall.bar \in Nat /\ Newest \in Nat /\ wall.day \in Nat
         /\ pstate.package \in Packages /\ pstate.action \in Nat /\ pstate.exit \in Nat
         /\ \A t \in Desks : desk[t].bar \in Nat /\ desk[t].package \in Packages
         /\ \A p \in Packages : p.bar \in Nat /\ p.action \in Nat /\ p.exit \in Nat
         /\ acts.entry \in Nat /\ acts.exit \in Nat
<1>1. wall.bar \in Nat /\ wall.day \in Nat /\ acts.entry \in Nat /\ acts.exit \in Nat
  BY DEF BaseInv, DeskTypes
<1>2. \A t \in Desks : desk[t].bar \in Nat /\ desk[t].package \in Packages
  BY DEF BaseInv, DeskTypes, Turns
<1>3. pstate.package \in Packages /\ pstate.action \in Nat /\ pstate.exit \in Nat
  BY DEF BaseInv, DeskTypes, Files
<1>4. \A p \in Packages : p.bar \in Nat /\ p.action \in Nat /\ p.exit \in Nat
  BY DEF Packages
<1>5. Newest \in Nat
  BY <1>1, <1>2, TwoDesks DEF Newest
<1> QED BY <1>1, <1>2, <1>3, <1>4, <1>5

(* What a state offers to the steps that leave it alone. *)
LEMMA BaseFacts ==
  ASSUME BaseInv
  PROVE  /\ holdings \in [Options -> -1 .. 1] /\ uses \in [calls : Nat, crashes : Nat] /\ pstate \in Files
         /\ acts \in [entry : Nat, exit : Nat, cut : BOOLEAN, back : BOOLEAN]
         /\ wall \in [day : Nat \ {0}, phase : {"morning", "open", "force", "closed"}, bar : Nat, armed : BOOLEAN,
                     buy : BOOLEAN]
         /\ Whole(pstate.package) /\ Dated(pstate.package, Newest) /\ pstate.action <= Newest /\ pstate.exit <= Newest
         /\ Newest <= wall.bar
         /\ Dated(pstate.package, wall.bar) /\ pstate.action <= wall.bar /\ pstate.exit <= wall.bar
         /\ \A t \in Desks : desk[t] \in Turns /\ Whole(desk[t].package) /\ Dated(desk[t].package, Newest)
<1>1. Dated(pstate.package, Newest) /\ pstate.action <= Newest /\ pstate.exit <= Newest /\ Newest <= wall.bar
  BY DEF BaseInv, AllDated
<1>2. Dated(pstate.package, wall.bar) /\ pstate.action <= wall.bar /\ pstate.exit <= wall.bar
  BY <1>1, BookNumbers DEF Dated
<1>3. \A t \in Desks : desk[t] \in Turns /\ Whole(desk[t].package) /\ Dated(desk[t].package, Newest)
  BY DEF BaseInv, DeskTypes, Shaped, AllDated
<1>4. Whole(pstate.package)
  BY DEF BaseInv, Shaped
<1> QED BY <1>1, <1>2, <1>3, <1>4 DEF BaseInv, DeskTypes

(* The tick ends. *)
LEMMA TickerRests ==
  ASSUME BaseInv, Turn(Ticker, AtRest), UNCHANGED <<book, wall>>, pstate' \in Files,
         holdings' \in [Options -> -1 .. 1], uses' \in [calls : Nat, crashes : Nat],
         acts' \in [entry : Nat, exit : Nat, cut : BOOLEAN, back : BOOLEAN], Whole(pstate'.package),
         Dated(pstate'.package, wall.bar), pstate'.action <= wall.bar, pstate'.exit <= wall.bar
  PROVE  BaseInv' /\ desk'[Ticker] = AtRest /\ desk'[Handler] = desk[Handler]
<1>1. wall.bar = IF AtRest.pc \in Judging THEN AtRest.bar ELSE wall.bar
  BY AtRestIs DEF Judging
<1>2. Dated(AtRest.package, wall.bar) /\ wall.bar <= wall.bar /\ Newest <= wall.bar
  BY AtRestIs, BookNumbers, BaseFacts
<1>3. AtRest.pc # "open" /\ AtRest.pc # "config" /\ AtRest.pc \notin {"judge", "look", "close", "gates"}
  BY AtRestIs
<1> QED BY <1>1, <1>2, <1>3, AtRestIs, TickerBase

(* The tick goes on, on the bar it judges. *)
LEMMA TickerGoesOn ==
  ASSUME BaseInv, NEW d \in Turns, Turn(Ticker, d), UNCHANGED <<book, wall>>, pstate' \in Files,
         holdings' \in [Options -> -1 .. 1], uses' \in [calls : Nat, crashes : Nat],
         acts' \in [entry : Nat, exit : Nat, cut : BOOLEAN, back : BOOLEAN],
         d.op = "tick", d.pc \in Judging, Whole(d.package), Whole(pstate'.package),
         d.pc = "open" => /\ ~pstate'.package.open /\ Built(d.legs, d.structure)
                          /\ d.todo \in {d.legs, Tail(d.legs), << >>},
         d.pc # "open" => d.atm \in Atms,
         Newest <= d.bar, d.bar <= wall.bar, Dated(d.package, d.bar), Dated(pstate'.package, d.bar),
         pstate'.action <= d.bar, pstate'.exit <= d.bar
  PROVE  BaseInv' /\ desk'[Ticker] = d /\ desk'[Handler] = desk[Handler]
<1>1. d.bar = IF d.pc \in Judging THEN d.bar ELSE wall.bar
  OBVIOUS
<1>2. d.pc # "config" /\ (d.pc \in {"judge", "look", "close", "gates"} => d.atm \in Atms)
  BY DEF Judging
<1> QED BY <1>1, <1>2, TickerBase

-----------------------------------------------------------------------------
(* Types and bars, action by action. *)
LEMMA BookInitBase == ASSUME BookInit PROVE BaseInv
<1>1. book \in BookCases /\ wall = [day |-> 1, phase |-> "morning", bar |-> 1, armed |-> TRUE, buy |-> book.buy]
      /\ holdings = [o \in Options |-> 0] /\ uses = [calls |-> 0, crashes |-> 0]
      /\ acts = [entry |-> 0, exit |-> 0, cut |-> FALSE, back |-> FALSE]
  BY DEF BookInit
<1>2. pstate \in Files /\ pstate.package = FlatPackage /\ pstate.action = 0 /\ pstate.exit = 0
  BY AtRestIs DEF BookInit, PInit, Files
<1>3. desk \in [Desks -> Turns] /\ \A t \in Desks : desk[t] = AtRest
  BY AtRestIs DEF BookInit
<1>4. DeskTypes
  BY <1>1, <1>2, <1>3, BookFieldTypes DEF DeskTypes
<1>5. Shaped
  BY <1>2, <1>3, AtRestIs, TwoDesks DEF Shaped
<1>6. Newest = 1 /\ wall.bar = 1
  BY <1>1, <1>3, AtRestIs, TwoDesks DEF Newest
<1>7. AllDated
  BY <1>2, <1>3, <1>6, AtRestIs DEF AllDated
<1> QED BY <1>4, <1>5, <1>7 DEF BaseInv

(* A first tick wipes, any tick ends the pause of the requests that run. *)
LEMMA BookTickBase ==
  ASSUME BaseInv, BookTick(Ticker)
  PROVE  /\ BaseInv' /\ desk'[Ticker].pc \in {"idle", "candles"}
         /\ desk'[Ticker].pc = "candles" => (desk[Handler].pc # "idle" => desk'[Handler].late)
         /\ desk'[Handler].pc = desk[Handler].pc /\ desk'[Handler].package = desk[Handler].package
         /\ desk'[Handler].todo = desk[Handler].todo
         /\ desk'[Ticker].pc = "idle" => desk'[Handler] = desk[Handler]
<1> DEFINE begins == [AtRest EXCEPT !.pc = "candles", !.seen = pstate'.seen, !.buy = wall.buy, !.force = wall.phase = "force"]
           meets == [desk[Handler] EXCEPT !.late = desk[Handler].pc # "idle"]
<1>1. pstate' = DailyWipe(pstate, wall.day) /\ pstate' \in Files /\ pstate'.action = pstate.action
      /\ pstate'.exit = pstate.exit /\ (pstate'.package = pstate.package \/ pstate'.package = FlatPackage)
  BY WipeIs DEF BookTick, BaseInv, DeskTypes
<1>2. begins \in Turns /\ begins.pc = "candles" /\ begins.op = "tick" /\ begins.package = FlatPackage
  <2>1. pstate'.seen \in BOOLEAN /\ wall.buy \in BOOLEAN /\ (wall.phase = "force") \in BOOLEAN
    BY <1>1 DEF Files, BaseInv, DeskTypes
  <2> QED BY <2>1, AtRestIs DEF Turns
<1>3. meets \in Turns /\ meets.pc = desk[Handler].pc /\ meets.op = desk[Handler].op /\ meets.package = desk[Handler].package
      /\ meets.todo = desk[Handler].todo /\ meets.late = (desk[Handler].pc # "idle")
  <2>1. desk[Handler] \in Turns /\ (desk[Handler].pc # "idle") \in BOOLEAN
    BY TwoDesks DEF BaseInv, DeskTypes
  <2> QED BY <2>1 DEF Turns
<1>4. desk[Ticker].pc = "idle" /\ UNCHANGED <<book, wall, holdings, uses, acts>>
      /\ desk' \in {desk, [desk EXCEPT ![Ticker] = begins, ![Handler].late = desk[Handler].pc # "idle"]}
  BY DEF BookTick
<1>5. CASE desk' = desk
  <2>1. Newest' = Newest
    BY <1>4, <1>5 DEF Newest
  <2>2. DeskTypes' /\ Shaped'
    BY <1>1, <1>4, <1>5, AtRestIs DEF BaseInv, DeskTypes, Shaped
  <2>3. AllDated'
    BY <1>1, <1>4, <1>5, <2>1, AtRestIs, BookNumbers DEF BaseInv, AllDated
  <2> QED BY <1>4, <1>5, <2>2, <2>3 DEF BaseInv
<1>6. CASE desk' = [desk EXCEPT ![Ticker] = begins, ![Handler].late = desk[Handler].pc # "idle"]
  <2> HIDE DEF begins
  <2>1. desk' = [desk EXCEPT ![Ticker] = begins, ![Handler] = meets]
    BY <1>6, TwoDesks DEF BaseInv, DeskTypes
  <2> HIDE DEF meets
  <2>2. desk' \in [Desks -> Turns] /\ desk'[Ticker] = begins /\ desk'[Handler] = meets
    BY <1>2, <1>3, <2>1, TwoDesks DEF BaseInv, DeskTypes
  <2>3. Newest' = wall.bar /\ Newest = wall.bar
    BY <1>2, <1>4, <2>2 DEF Newest
  <2>4. DeskTypes'
    BY <1>1, <1>4, <2>2 DEF BaseInv, DeskTypes
  <2>5. Shaped'
    BY <1>1, <1>2, <1>3, <1>4, <2>2, AtRestIs, TwoDesks DEF BaseInv, Shaped
  <2>6. AllDated'
    <3>1. Dated(FlatPackage, wall.bar) /\ Dated(pstate.package, wall.bar) /\ Dated(desk[Handler].package, wall.bar)
          /\ pstate.action <= wall.bar /\ pstate.exit <= wall.bar
      BY <2>3, AtRestIs, TwoDesks, BookNumbers DEF BaseInv, AllDated
    <3>2. \A t \in Desks : desk'[t].package \in {FlatPackage, desk[Handler].package}
      BY <1>2, <1>3, <2>2, TwoDesks
    <3>3. Newest' <= wall'.bar
      BY <1>4, <2>3, BookNumbers
    <3> QED BY <1>1, <2>3, <3>1, <3>2, <3>3 DEF AllDated
  <2> QED BY <1>2, <1>3, <2>2, <2>4, <2>5, <2>6 DEF BaseInv
<1> QED BY <1>4, <1>5, <1>6

LEMMA CandlesFailBase ==
  ASSUME BaseInv, CandlesFail(Ticker)
  PROVE  BaseInv' /\ desk'[Ticker] = AtRest /\ desk'[Handler] = desk[Handler]
<1>1. desk[Ticker].pc = "candles" /\ Turn(Ticker, AtRest) /\ UNCHANGED <<book, wall, holdings, pstate, uses, acts>>
  BY DEF CandlesFail, Rest
<1> QED BY <1>1, BaseFacts, TickerRests

LEMMA CandlesBase ==
  ASSUME BaseInv, Candles(Ticker)
  PROVE  /\ BaseInv' /\ desk'[Handler] = desk[Handler]
         /\ pstate'.package = pstate.package /\ pstate'.session = pstate.session /\ pstate'.action = pstate.action
         /\ \/ desk'[Ticker] = AtRest
            \/ desk'[Ticker].pc = "judge" /\ desk'[Ticker].package = pstate.package
<1>1. desk[Ticker].pc = "candles" /\ UNCHANGED <<book, wall, holdings, uses, acts>>
      /\ pstate' = [pstate EXCEPT !.seen = @ \/ wall.phase # "morning"]
  BY DEF Candles
<1>2. pstate' \in Files /\ pstate'.package = pstate.package /\ pstate'.session = pstate.session
      /\ pstate'.action = pstate.action /\ pstate'.exit = pstate.exit
  <2>1. (pstate.seen \/ wall.phase # "morning") \in BOOLEAN
    OBVIOUS
  <2> QED BY <1>1, <2>1 DEF BaseInv, DeskTypes, Files
<1>3. Newest = wall.bar
  BY <1>1 DEF Newest
<1>4. CASE Turn(Ticker, AtRest)
  BY <1>1, <1>2, <1>4, BaseFacts, TickerRests
<1>5. ASSUME NEW zone \in Zones, NEW atr \in BOOLEAN, NEW a \in book.atms,
             Turn(Ticker, [desk[Ticker] EXCEPT !.pc = "judge", !.package = pstate'.package, !.guard = Guard(pstate'),
                             !.bar = wall.bar, !.zone = zone, !.atr = atr, !.atm = a])
      PROVE  BaseInv' /\ desk'[Handler] = desk[Handler]
             /\ desk'[Ticker].pc = "judge" /\ desk'[Ticker].package = pstate.package
  <2> DEFINE d == [desk[Ticker] EXCEPT !.pc = "judge", !.package = pstate'.package, !.guard = Guard(pstate'),
                     !.bar = wall.bar, !.zone = zone, !.atr = atr, !.atm = a]
  <2>1. desk[Ticker] \in Turns /\ pstate'.package \in Packages /\ Guard(pstate') \in [action : Nat, exit : Nat]
        /\ wall.bar \in Nat /\ a \in Nat /\ a \in Atms
    BY <1>2, TwoDesks, GuardIs, BookFieldTypes, AtmsAssumption DEF BaseInv, DeskTypes, Files
  <2>2. d \in Turns
    BY <2>1 DEF Turns
  <2>3. d.pc = "judge" /\ d.package = pstate'.package /\ d.bar = wall.bar /\ d.op = desk[Ticker].op
        /\ d.atm \in Atms
    BY <2>1 DEF Turns
  <2> HIDE DEF d
  <2>4. Turn(Ticker, d)
    BY <1>5 DEF d
  <2>5. d.op = "tick" /\ d.pc \in Judging /\ d.pc # "open"
    BY <2>3 DEF BaseInv, Shaped, Judging
  <2>6. Newest <= d.bar /\ d.bar <= wall.bar
    BY <1>3, <2>3, BookNumbers
  <2>7. BaseInv' /\ desk'[Ticker] = d /\ desk'[Handler] = desk[Handler]
    BY <1>1, <1>2, <2>2, <2>3, <2>4, <2>5, <2>6, BaseFacts, TickerGoesOn
  <2> QED BY <1>2, <2>3, <2>7
<1>6. Turn(Ticker, AtRest) \/ \E zone \in Zones, atr \in BOOLEAN, a \in book.atms :
         Turn(Ticker, [desk[Ticker] EXCEPT !.pc = "judge", !.package = pstate'.package, !.guard = Guard(pstate'),
                         !.bar = wall.bar, !.zone = zone, !.atr = atr, !.atm = a])
  BY DEF Candles, Rest
<1>7. CASE Turn(Ticker, AtRest)
  <2>1. desk'[Ticker] = AtRest /\ desk'[Handler] = desk[Handler]
    BY <1>7, AtRestIs, TurnIs, TwoDesks DEF BaseInv, DeskTypes
  <2> QED BY <1>2, <1>4, <1>7, <2>1
<1> QED BY <1>2, <1>5, <1>6, <1>7

LEMMA JudgeBase ==
  ASSUME BaseInv, Judge(Ticker)
  PROVE  /\ BaseInv' /\ desk'[Handler] = desk[Handler] /\ pstate'.session = pstate.session /\ pstate'.action = pstate.action
         /\ ~desk[Ticker].package.open => pstate' = pstate /\ desk'[Ticker].pc \in {"idle", "gates"}
         /\ desk[Ticker].package.open =>
              /\ pstate'.package.open /\ pstate'.package.legs = desk[Ticker].package.legs
              /\ \/ desk'[Ticker].pc \in {"idle", "gates"}
                 \/ /\ desk'[Ticker].pc \in {"look", "close"} /\ desk'[Ticker].todo = desk[Ticker].package.legs
                    /\ desk'[Ticker].package.legs = desk[Ticker].package.legs
<1> DEFINE d == desk[Ticker]
           p == [d.package EXCEPT !.bar = d.bar]
<1>1. d.pc = "judge" /\ d.op = "tick" /\ d \in Turns /\ d.package \in Packages /\ d.bar \in Nat
      /\ UNCHANGED <<book, wall, holdings, uses, acts>>
  BY TwoDesks, BookNumbers DEF Judge, BaseInv, DeskTypes, Shaped
<1>2. p \in Packages /\ p.open = d.package.open /\ p.legs = d.package.legs /\ p.structure = d.package.structure
      /\ p.bar = d.bar /\ p.action = d.package.action /\ p.exit = d.package.exit
  BY <1>1 DEF Packages
<1>3. Newest = d.bar /\ Dated(d.package, d.bar) /\ d.bar <= wall.bar
  BY <1>1, TwoDesks DEF Newest, BaseInv, AllDated
<1>4. Whole(p) /\ Dated(p, d.bar)
  BY <1>1, <1>2, <1>3, TwoDesks DEF Dated, Whole, BaseInv, Shaped
<1>5. pstate' = (IF d.package.open THEN [pstate EXCEPT !.package = p] ELSE pstate)
      /\ Turn(Ticker, IF d.package.open /\ ExitHit(d) THEN Closing(d, p) ELSE AfterClose(d))
  BY DEF Judge
<1> HIDE DEF p
<1>6. pstate' \in Files /\ pstate'.action = pstate.action /\ pstate'.exit = pstate.exit /\ pstate'.session = pstate.session
      /\ (d.package.open => pstate'.package = p) /\ (~d.package.open => pstate' = pstate)
  BY <1>2, <1>5 DEF BaseInv, DeskTypes, Files
<1>7. Whole(pstate'.package) /\ Dated(pstate'.package, d.bar) /\ pstate'.action <= d.bar /\ pstate'.exit <= d.bar
  BY <1>3, <1>4, <1>6 DEF BaseInv, Shaped, AllDated
<1>8. PICK e : e = IF d.package.open /\ ExitHit(d) THEN Closing(d, p) ELSE AfterClose(d)
  OBVIOUS
<1>9. CASE d.package.open /\ ExitHit(d)
  <2>1. e \in Turns /\ e.pc \in {"close", "look"} /\ e.package = p /\ e.todo = p.legs /\ e.op = "tick" /\ e.bar = d.bar
        /\ e.atm = d.atm /\ e.atm \in Atms
    BY <1>1, <1>2, <1>8, <1>9, ClosingIs DEF BaseInv, Shaped
  <2>2. BaseInv' /\ desk'[Ticker] = e /\ desk'[Handler] = desk[Handler]
    <3>1. e.pc \in Judging /\ e.pc # "open" /\ Newest <= e.bar /\ e.bar <= wall.bar /\ Turn(Ticker, e)
      BY <1>1, <1>3, <1>5, <1>8, <2>1, BookNumbers DEF Judging
    <3> QED BY <1>1, <1>4, <1>6, <1>7, <2>1, <3>1, BaseFacts, TickerGoesOn
  <2> QED BY <1>2, <1>6, <1>9, <2>1, <2>2
<1>10. CASE ~(d.package.open /\ ExitHit(d))
  <2>1. e \in Turns /\ e.pc \in {"idle", "gates"} /\ e.op = "tick"
        /\ (e.pc = "idle" => e = AtRest) /\ (e.pc = "gates" => e.package = d.package /\ e.bar = d.bar /\ e.atm \in Atms)
    BY <1>1, <1>8, <1>10, AfterCloseIs, AtRestIs DEF BaseInv, Shaped
  <2>2. CASE e.pc = "gates"
    <3>1. e.pc \in Judging /\ e.pc # "open" /\ Newest <= e.bar /\ e.bar <= wall.bar /\ Turn(Ticker, e)
          /\ e.atm \in Atms /\ Whole(e.package) /\ Dated(e.package, e.bar)
      BY <1>1, <1>3, <1>5, <1>8, <2>1, <2>2, BookNumbers, TwoDesks, BaseFacts DEF Judging
    <3>2. BaseInv' /\ desk'[Ticker] = e /\ desk'[Handler] = desk[Handler]
      BY <1>1, <1>6, <1>7, <2>1, <2>2, <3>1, BaseFacts, TickerGoesOn
    <3> QED BY <1>2, <1>6, <2>1, <3>2
  <2>3. CASE e.pc = "idle"
    <3>1. pstate'.package \in Packages /\ pstate'.action \in Nat /\ pstate'.exit \in Nat /\ wall.bar \in Nat
      BY <1>6, BookNumbers DEF Files
    <3>2. Dated(pstate'.package, wall.bar) /\ pstate'.action <= wall.bar /\ pstate'.exit <= wall.bar
      BY <1>1, <1>3, <1>7, <3>1 DEF Dated, Packages
    <3>3. BaseInv' /\ desk'[Ticker] = e /\ desk'[Handler] = desk[Handler]
      BY <1>1, <1>5, <1>6, <1>7, <1>8, <1>10, <2>1, <2>3, <3>2, BaseFacts, TickerRests
    <3> QED BY <1>2, <1>6, <2>1, <3>3
  <2> QED BY <1>2, <1>6, <2>1, <2>2, <2>3
<1> QED BY <1>9, <1>10

(* Any step of a close, with what it may write. *)
LEMMA CloserBase ==
  ASSUME BaseInv, NEW t \in Desks, desk[t].pc \in {"look", "close"}, NEW d \in Turns, Turn(t, d),
         d = AtRest \/ ( /\ d.op = desk[t].op /\ d.package = desk[t].package /\ d.bar = desk[t].bar /\ d.atm = desk[t].atm
                         /\ \/ d.pc = desk[t].pc
                            \/ d.pc = "gates" /\ d.op = "tick"
                            \/ d.pc = "config" /\ d.op = "revoke" ),
         pstate' \in {pstate, ClosedAt(pstate, CloseBar(t))},
         UNCHANGED <<book, wall, uses>>, holdings' \in [Options -> -1 .. 1],
         acts' \in [entry : Nat, exit : Nat, cut : BOOLEAN, back : BOOLEAN]
  PROVE  BaseInv' /\ desk'[t] = d /\ CloseBar(t) \in Nat /\ CloseBar(t) <= Newest
         /\ \A u \in Desks : u # t => desk'[u] = desk[u]
<1>1. pstate \in Files /\ desk[t] \in Turns /\ uses' \in [calls : Nat, crashes : Nat]
      /\ Whole(desk[t].package) /\ Dated(desk[t].package, Newest)
      /\ Dated(pstate.package, Newest) /\ pstate.action <= Newest /\ pstate.exit <= Newest /\ Newest <= wall.bar
  BY BaseFacts
<1>2. CloseBar(t) \in Nat /\ CloseBar(t) <= Newest
  <2>1. CASE t = Ticker
    <3>1. desk[t].op = "tick" /\ Newest = desk[t].bar
      BY <2>1 DEF BaseInv, Shaped, Newest
    <3> QED BY <3>1, BookNumbers DEF CloseBar
  <2>2. CASE t = Handler
    <3>1. desk[t].op # "tick"
      BY <2>2 DEF BaseInv, Shaped
    <3> QED BY <1>1, <3>1, BookNumbers DEF CloseBar, Dated
  <2> QED BY <2>1, <2>2, TwoDesks
<1>3. pstate' \in Files /\ Whole(pstate'.package) /\ (pstate'.package.open => pstate.package.open)
      /\ Dated(pstate'.package, Newest) /\ pstate'.action <= Newest /\ pstate'.exit <= Newest
  <2>1. CASE pstate' = pstate
    BY <1>1, <2>1 DEF BaseInv, Shaped
  <2>2. CASE pstate' = ClosedAt(pstate, CloseBar(t))
    BY <1>1, <1>2, <2>2, ClosedIs DEF Dated
  <2> QED BY <2>1, <2>2
<1>4. CASE t = Handler
  <2>1. d.pc \in {"idle", "look", "close", "config"} /\ (d.pc # "idle" => d.op \in book.ops \cap {"close", "revoke"})
    BY <1>4, AtRestIs DEF BaseInv, Shaped
  <2>2. Whole(d.package) /\ Dated(d.package, Newest)
    BY <1>1, AtRestIs, BookNumbers
  <2>3. wall' \in [day : Nat \ {0}, phase : {"morning", "open", "force", "closed"}, bar : Nat, armed : BOOLEAN, buy : BOOLEAN]
        /\ wall'.bar = wall.bar /\ book' = book
    BY DEF BaseInv, DeskTypes
  <2> QED BY <1>1, <1>2, <1>3, <1>4, <2>1, <2>2, <2>3, HandlerBase, TwoDesks
<1>5. CASE t = Ticker
  <2>1. d.op = "tick" /\ d.pc # "config" /\ Whole(d.package) /\ d.pc # "open"
        /\ (d.pc \in {"judge", "look", "close", "gates"} => d.atm \in Atms)
    BY <1>1, <1>5, AtRestIs DEF BaseInv, Shaped
  <2>2. Newest = desk[Ticker].bar
    BY <1>5 DEF Newest
  <2>3. PICK n : n = IF d.pc \in Judging THEN d.bar ELSE wall.bar
    OBVIOUS
  <2>4. n \in {Newest, wall.bar} /\ n \in Nat
    BY <1>5, <2>2, <2>3, AtRestIs, BookNumbers DEF Judging
  <2>5. n >= Newest /\ n <= wall.bar
    BY <1>1, <2>4, BookNumbers
  <2>6. pstate'.package \in Packages /\ pstate'.action \in Nat /\ pstate'.exit \in Nat /\ desk[t].package \in Packages
    BY <1>3, BookNumbers DEF Files
  <2>7. Dated(pstate'.package, n) /\ pstate'.action <= n /\ pstate'.exit <= n /\ Dated(desk[t].package, n)
    BY <1>1, <1>3, <2>4, <2>5, <2>6, BookNumbers DEF Dated
  <2>8. Dated(d.package, n)
    BY <2>4, <2>7, AtRestIs
  <2> QED BY <1>1, <1>2, <1>3, <1>5, <2>1, <2>3, <2>5, <2>7, <2>8, TickerBase, TwoDesks, BookNumbers DEF Judging
<1> QED BY <1>4, <1>5, TwoDesks

(* A step of the tick that orders or saves nothing but an opening. *)
LEMMA SkipBase ==
  ASSUME BaseInv, desk[Ticker].pc \in {"gates", "open"}, Turn(Ticker, AtRest),
         UNCHANGED <<book, wall, holdings, pstate, uses>>,
         acts' \in [entry : Nat, exit : Nat, cut : BOOLEAN, back : BOOLEAN]
  PROVE  BaseInv' /\ desk'[Ticker] = AtRest /\ desk'[Handler] = desk[Handler]
BY BaseFacts, TickerRests

LEMMA BeginOpenBase ==
  ASSUME BaseInv, BeginOpen(Ticker)
  PROVE  BaseInv' /\ desk'[Handler] = desk[Handler] /\ desk'[Ticker].pc = "open" /\ desk'[Ticker].todo = desk'[Ticker].legs
         /\ desk'[Ticker].bar = desk[Ticker].bar
<1> DEFINE structure == Picked(desk[Ticker].zone, desk[Ticker].buy)
           legs == PackageLegs(structure, desk[Ticker].atm)
           d == [desk[Ticker] EXCEPT !.pc = "open", !.structure = structure, !.legs = legs, !.todo = legs]
<1>1. desk[Ticker].pc = "gates" /\ MayOpen(pstate, desk[Ticker].bar) /\ legs # << >> /\ Turn(Ticker, d)
      /\ UNCHANGED <<book, wall, holdings, pstate, uses, acts>>
  BY DEF BeginOpen
<1>2. desk[Ticker] \in Turns
  BY TwoDesks DEF BaseInv, DeskTypes
<1>3. structure \in Structures
  BY DEF Picked, Structures
<1>4. desk[Ticker].atm \in Atms
  BY <1>1, TwoDesks DEF BaseInv, Shaped
<1>5. legs \in Seq(OrderLegs) /\ Built(legs, structure)
  BY <1>1, <1>4, LegsBuilt DEF Built
<1> HIDE DEF structure, legs
<1>6. d \in Turns
  BY <1>2, <1>3, <1>5 DEF Turns
<1>7. d.pc = "open" /\ d.structure = structure /\ d.legs = legs /\ d.todo = legs /\ d.op = desk[Ticker].op
      /\ d.package = desk[Ticker].package /\ d.bar = desk[Ticker].bar
  BY <1>2 DEF Turns
<1> HIDE DEF d
<1>8. Newest = desk[Ticker].bar
  BY <1>1 DEF Newest
<1>9. ~pstate.package.open
  BY <1>1 DEF MayOpen
<1>10. d.op = "tick" /\ d.pc \in Judging /\ Newest <= d.bar /\ d.bar <= wall.bar /\ Whole(d.package) /\ Dated(d.package, d.bar)
  BY <1>7, <1>8, TwoDesks, BookNumbers, BaseFacts DEF BaseInv, Shaped, Judging
<1>11. Dated(pstate.package, d.bar) /\ pstate.action <= d.bar /\ pstate.exit <= d.bar
  BY <1>7, <1>8, BaseFacts
<1>12. BaseInv' /\ desk'[Ticker] = d /\ desk'[Handler] = desk[Handler]
  BY <1>1, <1>5, <1>6, <1>7, <1>9, <1>10, <1>11, BaseFacts, TickerGoesOn
<1> QED BY <1>7, <1>12

LEMMA OpenLegBase ==
  ASSUME BaseInv, OpenLeg(Ticker)
  PROVE  /\ BaseInv' /\ desk'[Handler] = desk[Handler] /\ desk'[Ticker].pc = "open"
         /\ desk'[Ticker].legs = desk[Ticker].legs /\ desk'[Ticker].todo # desk[Ticker].legs
         /\ desk'[Ticker].bar = desk[Ticker].bar
         /\ \A o \in Options : holdings'[o] = holdings[o] \/ o \in OptionsOf(desk[Ticker].legs)
<1> DEFINE d == [desk[Ticker] EXCEPT !.todo = Tail(@)]
           leg == Head(desk[Ticker].todo)
<1>1. desk[Ticker].pc = "open" /\ desk[Ticker].todo # << >> /\ Turn(Ticker, d)
      /\ holdings' = [holdings EXCEPT ![OptionOf(leg)] = leg[3]] /\ acts' = [acts EXCEPT !.entry = desk[Ticker].bar]
      /\ UNCHANGED <<book, wall, pstate, uses>>
  BY DEF OpenLeg
<1>2. desk[Ticker] \in Turns /\ desk[Ticker].todo \in Seq(OrderLegs)
  BY TwoDesks DEF BaseInv, DeskTypes, Turns
<1>3. Built(desk[Ticker].legs, desk[Ticker].structure)
      /\ desk[Ticker].todo \in {desk[Ticker].legs, Tail(desk[Ticker].legs), << >>}
  BY <1>1 DEF BaseInv, Shaped
<1>4. Tail(desk[Ticker].todo) \in {Tail(desk[Ticker].legs), << >>} /\ Tail(desk[Ticker].todo) # desk[Ticker].legs
      /\ OptionOf(leg) \in OptionsOf(desk[Ticker].legs) /\ leg[3] \in -1 .. 1 /\ OptionOf(leg) \in Options
  BY <1>1, <1>3, LegsLeft
<1>5. Tail(desk[Ticker].todo) \in Seq(OrderLegs)
  BY <1>1, <1>2, FirstAndRest
<1>6. d \in Turns
  BY <1>2, <1>5 DEF Turns
<1>7. d.todo = Tail(desk[Ticker].todo) /\ d.pc = "open" /\ d.op = desk[Ticker].op /\ d.package = desk[Ticker].package
      /\ d.bar = desk[Ticker].bar /\ d.legs = desk[Ticker].legs /\ d.structure = desk[Ticker].structure
  BY <1>1, <1>2 DEF Turns
<1> HIDE DEF d
<1>8. holdings' \in [Options -> -1 .. 1] /\ \A o \in Options : o # OptionOf(leg) => holdings'[o] = holdings[o]
  BY <1>1, <1>4 DEF BaseInv, DeskTypes
<1>9. acts' \in [entry : Nat, exit : Nat, cut : BOOLEAN, back : BOOLEAN]
  BY <1>1, BookNumbers, TwoDesks DEF BaseInv, DeskTypes
<1>10. Newest = desk[Ticker].bar
  BY <1>1 DEF Newest
<1>11. BaseInv' /\ desk'[Ticker] = d /\ desk'[Handler] = desk[Handler]
  <2>1. d.op = "tick" /\ d.pc \in Judging /\ Newest <= d.bar /\ d.bar <= wall.bar /\ Whole(d.package) /\ Dated(d.package, d.bar)
    BY <1>7, <1>10, TwoDesks, BookNumbers, BaseFacts DEF BaseInv, Shaped, Judging
  <2>2. ~pstate.package.open
    BY <1>1 DEF BaseInv, Shaped
  <2>3. Dated(pstate.package, d.bar) /\ pstate.action <= d.bar /\ pstate.exit <= d.bar
    BY <1>7, <1>10, BaseFacts
  <2>4. d.todo \in {d.legs, Tail(d.legs), << >>} /\ Built(d.legs, d.structure)
    BY <1>3, <1>4, <1>7
  <2> QED BY <1>1, <1>6, <1>7, <1>8, <1>9, <2>1, <2>2, <2>3, <2>4, BaseFacts, TickerGoesOn
<1> QED BY <1>4, <1>7, <1>8, <1>11

LEMMA OpenSaveBase ==
  ASSUME BaseInv, OpenSave(Ticker)
  PROVE  /\ BaseInv' /\ desk'[Ticker] = AtRest /\ desk'[Handler] = desk[Handler]
         /\ pstate'.package.open /\ pstate'.package.legs = desk[Ticker].legs /\ pstate'.session = pstate.session
         /\ pstate'.action = desk[Ticker].bar /\ desk[Ticker].pc = "open" /\ desk[Ticker].todo # desk[Ticker].legs
<1>1. desk[Ticker].pc = "open" /\ desk[Ticker].todo = << >> /\ Turn(Ticker, AtRest)
      /\ pstate' = Opened(pstate, desk[Ticker].structure, desk[Ticker].legs, desk[Ticker].bar)
      /\ UNCHANGED <<book, wall, holdings, uses, acts>>
  BY DEF OpenSave, Rest
<1>2. desk[Ticker].structure \in Structures /\ desk[Ticker].legs \in Seq(OrderLegs) /\ desk[Ticker].bar \in Nat
  BY TwoDesks DEF BaseInv, DeskTypes, Turns
<1>3. pstate' \in Files /\ pstate'.session = pstate.session /\ pstate'.action = desk[Ticker].bar /\ pstate'.exit = 0
      /\ pstate'.package = [open |-> TRUE, structure |-> desk[Ticker].structure, legs |-> desk[Ticker].legs,
                            bar |-> desk[Ticker].bar, action |-> desk[Ticker].bar, exit |-> 0]
  <2>1. pstate \in Files
    BY BaseFacts
  <2> QED BY <1>1, <1>2, <2>1, OpenedIs
<1>4. Built(desk[Ticker].legs, desk[Ticker].structure)
  BY <1>1 DEF BaseInv, Shaped
<1>5. Whole(pstate'.package)
  BY <1>3, <1>4 DEF Whole
<1>6. Newest = desk[Ticker].bar /\ Newest <= wall.bar
  BY <1>1 DEF Newest, BaseInv, AllDated
<1>7. Dated(pstate'.package, wall.bar) /\ pstate'.action <= wall.bar /\ pstate'.exit <= wall.bar
  BY <1>1, <1>2, <1>3, <1>6, BookNumbers DEF Dated
<1>8. BaseInv' /\ desk'[Ticker] = AtRest /\ desk'[Handler] = desk[Handler]
  BY <1>1, <1>3, <1>5, <1>7, BaseFacts, TickerRests
<1> QED BY <1>1, <1>3, <1>4, <1>8 DEF Built

(* Where the end of a close leaves the thread, as CloserBase asks for it. *)
LEMMA EndsClose ==
  ASSUME BaseInv, NEW t \in Desks, desk[t].pc \in {"look", "close"}, NEW d \in {AtRest, AfterClose(desk[t])}
  PROVE  /\ d \in Turns
         /\ d = AtRest \/ ( /\ d.op = desk[t].op /\ d.package = desk[t].package /\ d.bar = desk[t].bar /\ d.atm = desk[t].atm
                            /\ \/ d.pc = desk[t].pc
                               \/ d.pc = "gates" /\ d.op = "tick"
                               \/ d.pc = "config" /\ d.op = "revoke" )
         /\ d.pc \in {"idle", "gates", "config"}
         /\ d.pc = "idle" => d = AtRest
         /\ d.pc = "gates" => t = Ticker
         /\ d.pc = "config" => t = Handler
<1>1. desk[t] \in Turns
  BY BaseFacts
<1>2. desk[t].op = "tick" => t = Ticker
  BY TwoDesks DEF BaseInv, Shaped
<1>3. desk[t].op = "revoke" => t = Handler
  BY TwoDesks DEF BaseInv, Shaped
<1>4. CASE d = AtRest
  BY <1>4, AtRestIs
<1>5. CASE d = AfterClose(desk[t])
  <2>1. d \in Turns /\ d.pc \in {"idle", "gates", "config"} /\ (d.pc = "idle" => d = AtRest)
        /\ (d.pc # "idle" => d.op = desk[t].op /\ d.package = desk[t].package /\ d.bar = desk[t].bar /\ d.atm = desk[t].atm)
        /\ (d.pc = "gates" => desk[t].op = "tick") /\ (d.pc = "config" => desk[t].op = "revoke")
    BY <1>1, <1>5, AfterCloseIs
  <2> QED BY <1>2, <1>3, <2>1
<1> QED BY <1>4, <1>5

(* A close that was refused, or found something held at a gate that is shut. *)
LEMMA CloseStopsBase ==
  ASSUME BaseInv, NEW t \in Desks, LookHeld(t) \/ CloseRefused(t)
  PROVE  /\ BaseInv' /\ desk[t].pc \in {"look", "close"} /\ UNCHANGED <<book, wall, holdings, pstate, uses, acts>>
         /\ desk'[t].pc \in {"idle", "gates", "config"} /\ (desk'[t].pc = "gates" => t = Ticker)
         /\ (desk'[t].pc = "config" => t = Handler)
         /\ \A u \in Desks : u # t => desk'[u] = desk[u]
<1>1. PICK d \in {AtRest, AfterClose(desk[t])} : Turn(t, d)
  BY DEF LookHeld, CloseRefused
<1>2. desk[t].pc \in {"look", "close"} /\ UNCHANGED <<book, wall, holdings, pstate, uses, acts>>
  BY DEF LookHeld, CloseRefused
<1> QED BY <1>1, <1>2, EndsClose, CloserBase, BaseFacts

(* A close that is saved. *)
LEMMA ClosesBase ==
  ASSUME BaseInv, NEW t \in Desks, LookFlat(t) \/ CloseSave(t)
  PROVE  /\ BaseInv' /\ UNCHANGED <<book, wall, holdings, uses>>
         /\ \/ desk[t].pc = "look" /\ \A o \in OptionsOf(desk[t].package.legs) : holdings[o] = 0
            \/ desk[t].pc = "close" /\ desk[t].todo = << >>
         /\ pstate' = ClosedAt(pstate, CloseBar(t)) /\ CloseBar(t) \in Nat /\ CloseBar(t) <= Newest
         /\ desk'[t].pc \in {"idle", "gates", "config"} /\ (desk'[t].pc = "gates" => t = Ticker /\ desk'[t].bar = CloseBar(t))
         /\ (desk'[t].pc = "config" => t = Handler)
         /\ \A u \in Desks : u # t => desk'[u] = desk[u]
         /\ acts'.entry = acts.entry /\ acts'.exit \in {acts.exit, Later2(acts.exit, CloseBar(t))}
         /\ acts'.cut = acts.cut /\ (~acts'.back => ~acts.back /\ ~Backwards(t))
<1>1. Turn(t, AfterClose(desk[t])) /\ pstate' = ClosedAt(pstate, CloseBar(t)) /\ UNCHANGED <<book, wall, holdings, uses>>
  BY DEF LookFlat, CloseSave, CloseNoted
<1>2. \/ desk[t].pc = "look" /\ \A o \in OptionsOf(desk[t].package.legs) : holdings[o] = 0
      \/ desk[t].pc = "close" /\ desk[t].todo = << >>
  BY DEF LookFlat, CloseSave
<1>3. acts \in [entry : Nat, exit : Nat, cut : BOOLEAN, back : BOOLEAN]
  BY BaseFacts
<1>4. CloseBar(t) \in Nat /\ CloseBar(t) <= Newest
  <2>1. CASE t = Ticker
    <3>1. desk[t].op = "tick" /\ Newest = desk[t].bar
      BY <1>2, <2>1 DEF BaseInv, Shaped, Newest
    <3> QED BY <3>1, BookNumbers DEF CloseBar
  <2>2. CASE t = Handler
    <3>1. desk[t].op # "tick"
      BY <1>2, <2>2 DEF BaseInv, Shaped
    <3>2. Dated(desk[t].package, Newest)
      BY BaseFacts
    <3> QED BY <3>1, <3>2, BookNumbers DEF CloseBar, Dated
  <2> QED BY <2>1, <2>2, TwoDesks
<1>5. \/ acts' = [acts EXCEPT !.back = @ \/ Backwards(t)]
      \/ acts' = [acts EXCEPT !.exit = Later2(@, CloseBar(t)), !.back = @ \/ Backwards(t)]
  BY DEF LookFlat, CloseSave
<1>6. PICK later \in Nat : later = Later2(acts.exit, CloseBar(t))
  BY <1>3, <1>4, Later2Is
<1>7. acts' \in [entry : Nat, exit : Nat, cut : BOOLEAN, back : BOOLEAN] /\ acts'.entry = acts.entry /\ acts'.cut = acts.cut
      /\ acts'.exit \in {acts.exit, later}
  BY <1>3, <1>5, <1>6
<1>8. acts'.back = (acts.back \/ Backwards(t))
  BY <1>3, <1>5
<1>9. ~acts'.back => ~acts.back /\ ~Backwards(t)
  BY <1>8
<1>10. PICK d : d = AfterClose(desk[t])
  OBVIOUS
<1>11. d \in {AtRest, AfterClose(desk[t])} /\ Turn(t, d) /\ desk[t].pc \in {"look", "close"}
  BY <1>1, <1>2, <1>10
<1>12. BaseInv' /\ desk'[t] = d /\ \A u \in Desks : u # t => desk'[u] = desk[u]
  BY <1>1, <1>7, <1>11, BaseFacts, EndsClose, CloserBase
<1>13. d.pc \in {"idle", "gates", "config"} /\ (d.pc = "gates" => t = Ticker /\ d.op = "tick" /\ d.bar = desk[t].bar)
       /\ (d.pc = "config" => t = Handler)
  BY <1>11, EndsClose, AtRestIs
<1>14. d.pc = "gates" => d.bar = CloseBar(t)
  <2>1. t = Ticker => desk[t].op = "tick"
    BY DEF BaseInv, Shaped
  <2> QED BY <1>13, <2>1 DEF CloseBar
<1> QED BY <1>1, <1>2, <1>4, <1>6, <1>7, <1>9, <1>12, <1>13, <1>14

LEMMA CloseLegBase ==
  ASSUME BaseInv, NEW t \in Desks, CloseLeg(t)
  PROVE  /\ BaseInv' /\ desk[t].pc = "close" /\ desk'[t].pc = "close" /\ UNCHANGED <<book, wall, pstate, uses, acts>>
         /\ desk'[t].package = desk[t].package /\ desk'[t].late = desk[t].late /\ desk'[t].bar = desk[t].bar
         /\ \A o \in Options : holdings'[o] # 0 => holdings[o] # 0
         /\ \A o \in Options : holdings'[o] # 0 /\ o \in OptionsOf(desk[t].todo) => o \in OptionsOf(desk'[t].todo)
         /\ \A u \in Desks : u # t => desk'[u] = desk[u]
<1> DEFINE d == [desk[t] EXCEPT !.todo = Tail(@)]
           leg == OptionOf(Head(desk[t].todo))
<1>1. desk[t].pc = "close" /\ desk[t].todo # << >> /\ Turn(t, d) /\ UNCHANGED <<book, wall, pstate, uses, acts>>
      /\ holdings' = [holdings EXCEPT ![leg] = 0]
  BY DEF CloseLeg
<1>2. desk[t] \in Turns /\ desk[t].todo \in Seq(OrderLegs)
  BY BaseFacts DEF Turns
<1>3. Tail(desk[t].todo) \in Seq(OrderLegs) /\ leg \in Options /\ OptionsOf(desk[t].todo) = {leg} \cup OptionsOf(Tail(desk[t].todo))
  BY <1>1, <1>2, FirstAndRest, OptionTypes
<1>4. d \in Turns /\ d.todo = Tail(desk[t].todo) /\ d.pc = desk[t].pc /\ d.op = desk[t].op /\ d.package = desk[t].package
      /\ d.bar = desk[t].bar /\ d.atm = desk[t].atm /\ d.late = desk[t].late
  BY <1>2, <1>3 DEF Turns
<1> HIDE DEF d, leg
<1>5. holdings' \in [Options -> -1 .. 1] /\ holdings'[leg] = 0 /\ \A o \in Options : o # leg => holdings'[o] = holdings[o]
  BY <1>1, <1>3, BaseFacts
<1>6. BaseInv' /\ desk'[t] = d /\ \A u \in Desks : u # t => desk'[u] = desk[u]
  BY <1>1, <1>4, <1>5, BaseFacts, CloserBase
<1> QED BY <1>1, <1>3, <1>4, <1>5, <1>6

-----------------------------------------------------------------------------
(* Requests. *)
LEMMA SetRunnerBase ==
  ASSUME BaseInv, NEW t \in Desks, SetRunner(t)
  PROVE  /\ BaseInv' /\ UNCHANGED <<book, wall, holdings, desk, acts>>
         /\ pstate'.package = pstate.package /\ pstate'.session = pstate.session /\ pstate'.action = pstate.action
         /\ Guard(pstate') = Guard(pstate)
<1>1. PICK runs \in BOOLEAN : pstate' = [pstate EXCEPT !.runner = runs]
  BY DEF SetRunner
<1>2. UNCHANGED <<book, wall, holdings, desk, acts>> /\ uses' = [uses EXCEPT !.calls = @ + 1]
  BY DEF SetRunner, Requested
<1>3. pstate' \in Files /\ pstate'.package = pstate.package /\ pstate'.session = pstate.session
      /\ pstate'.action = pstate.action /\ pstate'.exit = pstate.exit
  BY <1>1, BaseFacts DEF Files
<1>4. uses' \in [calls : Nat, crashes : Nat]
  BY <1>2, BaseFacts
<1>5. DeskTypes' /\ Shaped'
  BY <1>2, <1>3, <1>4 DEF BaseInv, DeskTypes, Shaped
<1>6. AllDated'
  BY <1>2, <1>3 DEF BaseInv, AllDated, Newest
<1> QED BY <1>2, <1>3, <1>5, <1>6 DEF BaseInv, Guard

LEMMA CloseAllBase ==
  ASSUME BaseInv, NEW t \in Desks, CloseAll(t)
  PROVE  /\ t = Handler /\ BaseInv' /\ UNCHANGED <<book, wall, holdings, pstate, acts>>
         /\ desk'[Ticker] = desk[Ticker]
         /\ \/ desk'[Handler].pc \in {"idle", "config"}
            \/ /\ desk'[Handler].pc \in {"look", "close"} /\ pstate.package.open
               /\ desk'[Handler].package = pstate.package /\ desk'[Handler].todo = pstate.package.legs
               /\ desk'[Handler].late = (desk[Ticker].pc # "idle")
<1>1. PICK op \in {"close", "revoke"} :
        /\ Requested(t, op)
        /\ LET d == [AtRest EXCEPT !.op = op, !.late = desk[Ticker].pc # "idle"]
           IN  Turn(t, IF pstate.package.open /\ (op = "revoke" => IsBuyStructure(pstate.package.structure) \/ wall.buy)
                       THEN Closing(d, pstate.package) ELSE AfterClose(d))
  BY DEF CloseAll
<1>2. t = Handler /\ op \in book.ops /\ uses' = [uses EXCEPT !.calls = @ + 1] /\ UNCHANGED <<book, wall, holdings, pstate, acts>>
  BY <1>1 DEF Requested, CloseAll
<1> DEFINE d == [AtRest EXCEPT !.op = op, !.late = desk[Ticker].pc # "idle"]
<1>3. d \in Turns /\ d.op = op /\ d.late = (desk[Ticker].pc # "idle") /\ d.package = FlatPackage
  <2>1. (desk[Ticker].pc # "idle") \in BOOLEAN
    OBVIOUS
  <2> QED BY <2>1, AtRestIs DEF Turns
<1> HIDE DEF d
<1>4. PICK e \in {Closing(d, pstate.package), AfterClose(d)} :
        Turn(Handler, e) /\ ((e = Closing(d, pstate.package) /\ pstate.package.open) \/ e = AfterClose(d))
  BY <1>1, <1>2 DEF d
<1>5. uses' \in [calls : Nat, crashes : Nat]
  BY <1>2, BaseFacts
<1>6. CASE e = Closing(d, pstate.package) /\ pstate.package.open
  <2>1. e \in Turns /\ e.pc \in {"close", "look"} /\ e.package = pstate.package /\ e.todo = pstate.package.legs
        /\ e.op = op /\ e.late = (desk[Ticker].pc # "idle")
    BY <1>3, <1>6, ClosingIs, BookNumbers
  <2>2. BaseInv' /\ desk'[Handler] = e /\ desk'[Ticker] = desk[Ticker]
    BY <1>2, <1>4, <1>5, <2>1, BaseFacts, HandlerBase
  <2> QED BY <1>2, <1>6, <2>1, <2>2
<1>7. CASE e = AfterClose(d)
  <2>1. e \in Turns /\ e.pc \in {"idle", "config"} /\ (e.pc = "idle" => e = AtRest)
        /\ (e.pc = "config" => e.op = op /\ e.package = FlatPackage)
    BY <1>3, <1>7, AfterCloseIs
  <2>2. e.package = FlatPackage
    BY <2>1, AtRestIs
  <2>3. BaseInv' /\ desk'[Handler] = e /\ desk'[Ticker] = desk[Ticker]
    BY <1>2, <1>4, <1>5, <2>1, <2>2, AtRestIs, BookNumbers, BaseFacts, HandlerBase
  <2> QED BY <1>2, <2>1, <2>3
<1> QED BY <1>4, <1>6, <1>7

LEMMA RevokeBase ==
  ASSUME BaseInv, NEW t \in Desks, Revoke(t)
  PROVE  /\ t = Handler /\ BaseInv' /\ UNCHANGED <<book, holdings, pstate, uses, acts>> /\ wall'.day = wall.day
         /\ desk'[Ticker] = desk[Ticker] /\ desk'[Handler].pc = "idle"
<1>1. desk[t].pc = "config" /\ wall' = [wall EXCEPT !.buy = FALSE] /\ Turn(t, AtRest)
      /\ UNCHANGED <<book, holdings, pstate, uses, acts>>
  BY DEF Revoke, Rest
<1>2. t = Handler
  BY <1>1, TwoDesks DEF BaseInv, Shaped
<1>3. wall' \in [day : Nat \ {0}, phase : {"morning", "open", "force", "closed"}, bar : Nat, armed : BOOLEAN, buy : BOOLEAN]
      /\ wall'.bar = wall.bar /\ wall'.day = wall.day
  BY <1>1, BaseFacts
<1>4. BaseInv' /\ desk'[Handler] = AtRest /\ desk'[Ticker] = desk[Ticker]
  BY <1>1, <1>2, <1>3, AtRestIs, BookNumbers, BaseFacts, HandlerBase
<1> QED BY <1>1, <1>2, <1>3, <1>4, AtRestIs

-----------------------------------------------------------------------------
(* Time, the gate, the operator and a crash. *)
LEMMA TimeBase ==
  ASSUME BaseInv, NextBar \/ NextPhase \/ Overnight \/ Arming \/ \E o \in Options : Flatten(o)
  PROVE  BaseInv' /\ UNCHANGED <<book, pstate, desk, uses, acts>> /\ \A o \in Options : holdings'[o] # 0 => holdings[o] # 0
<1>1. UNCHANGED <<book, pstate, desk, uses, acts>>
  BY DEF NextBar, NextPhase, Overnight, Arming, Flatten
<1>2. wall \in [day : Nat \ {0}, phase : {"morning", "open", "force", "closed"}, bar : Nat, armed : BOOLEAN, buy : BOOLEAN]
      /\ holdings \in [Options -> -1 .. 1]
  BY BaseFacts
<1>3. wall' \in [day : Nat \ {0}, phase : {"morning", "open", "force", "closed"}, bar : Nat, armed : BOOLEAN, buy : BOOLEAN]
      /\ wall'.bar \in {wall.bar, wall.bar + 1}
  <2>1. CASE NextBar
    BY <1>2, <2>1 DEF NextBar
  <2>2. CASE NextPhase
    <3>1. PICK p \in {"open", "force", "closed"} : wall' = [wall EXCEPT !.phase = p]
      BY <2>2 DEF NextPhase
    <3> QED BY <1>2, <3>1
  <2>3. CASE Overnight
    <3>1. wall' = [wall EXCEPT !.day = wall.day + 1, !.phase = "morning", !.bar = wall.bar + 1]
      BY <2>3 DEF Overnight
    <3>2. PICK day \in Nat \ {0}, bar \in Nat : day = wall.day + 1 /\ bar = wall.bar + 1
      BY <1>2
    <3>3. wall' = [wall EXCEPT !.day = day, !.phase = "morning", !.bar = bar]
      BY <3>1, <3>2
    <3> QED BY <1>2, <3>2, <3>3
  <2>4. CASE Arming
    <3>1. wall' = [wall EXCEPT !.armed = ~@]
      BY <2>4 DEF Arming
    <3> QED BY <1>2, <3>1
  <2>5. CASE \E o \in Options : Flatten(o)
    BY <1>2, <2>5 DEF Flatten
  <2> QED BY <2>1, <2>2, <2>3, <2>4, <2>5
<1>4. holdings' \in [Options -> -1 .. 1] /\ \A o \in Options : holdings'[o] # 0 => holdings[o] # 0
  BY <1>2 DEF NextBar, NextPhase, Overnight, Arming, Flatten
<1>5. DeskTypes' /\ Shaped'
  BY <1>1, <1>3, <1>4 DEF BaseInv, DeskTypes, Shaped
<1>6. Newest' \in Nat /\ Newest <= Newest' /\ Newest' <= wall'.bar
  BY <1>1, <1>3, BookNumbers, BaseFacts DEF Newest
<1>7. Dated(pstate.package, Newest') /\ pstate.action <= Newest' /\ pstate.exit <= Newest'
      /\ \A t \in Desks : Dated(desk[t].package, Newest')
  BY <1>6, BookNumbers, BaseFacts DEF Dated
<1>8. AllDated'
  BY <1>1, <1>6, <1>7 DEF AllDated
<1> QED BY <1>1, <1>4, <1>5, <1>8 DEF BaseInv

LEMMA CrashBase ==
  ASSUME BaseInv, BookCrash
  PROVE  /\ BaseInv' /\ UNCHANGED <<book, wall, holdings, pstate>> /\ \A t \in Desks : desk'[t].pc = "idle"
         /\ acts'.entry = acts.entry /\ acts'.exit = acts.exit /\ acts'.back = acts.back
         /\ ~acts'.cut => ~acts.cut /\ ~HalfOpen(Ticker)
<1>1. uses' = [uses EXCEPT !.crashes = @ + 1] /\ desk' = [t \in Desks |-> AtRest] /\ UNCHANGED <<book, wall, holdings, pstate>>
      /\ acts' = [acts EXCEPT !.cut = @ \/ \E t \in Desks : HalfOpen(t)]
  BY DEF BookCrash
<1>2. PICK cuts \in BOOLEAN : cuts = \E t \in Desks : HalfOpen(t)
  OBVIOUS
<1>3. acts' \in [entry : Nat, exit : Nat, cut : BOOLEAN, back : BOOLEAN] /\ acts'.entry = acts.entry /\ acts'.exit = acts.exit
      /\ acts'.back = acts.back /\ acts'.cut = (acts.cut \/ cuts)
  BY <1>1, <1>2, BaseFacts
<1>4. desk' \in [Desks -> Turns] /\ \A t \in Desks : desk'[t] = AtRest
  BY <1>1, AtRestIs
<1>5. uses' \in [calls : Nat, crashes : Nat]
  BY <1>1, BaseFacts
<1>6. DeskTypes' /\ Shaped'
  BY <1>1, <1>3, <1>4, <1>5, AtRestIs, TwoDesks DEF BaseInv, DeskTypes, Shaped
<1>7. Newest' = wall.bar
  BY <1>1, <1>4, AtRestIs, TwoDesks DEF Newest
<1>8. AllDated'
  BY <1>1, <1>4, <1>7, AtRestIs, BookNumbers, BaseFacts DEF AllDated
<1> QED BY <1>1, <1>2, <1>3, <1>4, <1>6, <1>8, AtRestIs, TwoDesks DEF BaseInv

-----------------------------------------------------------------------------
(* Who takes which step: the tick everything but what a close or a request
   does. *)
TickSteps(t) == BookTick(t) \/ CandlesFail(t) \/ Candles(t) \/ Judge(t) \/ Opens(t)
LEMMA BookSteps ==
  ASSUME BaseInv, [BookNext]_bookVars
  PROVE  \/ TickSteps(Ticker)
         \/ \E t \in Desks : LookHeld(t) \/ CloseRefused(t)
         \/ \E t \in Desks : LookFlat(t) \/ CloseSave(t)
         \/ \E t \in Desks : CloseLeg(t) \/ SetRunner(t) \/ CloseAll(t) \/ Revoke(t)
         \/ NextBar \/ NextPhase \/ Overnight \/ Arming \/ BookCrash \/ UNCHANGED bookVars
         \/ \E o \in Options : Flatten(o)
<1>1. ASSUME NEW t \in Desks, TickSteps(t) PROVE t = Ticker
  <2>1. t = Ticker \/ desk[t].pc \in {"candles", "judge", "gates", "open"}
    BY <1>1 DEF TickSteps, Opens, BookTick, CandlesFail, Candles, Judge, Skip, BeginOpen, OpenLeg, OpenRefused, OpenSave
  <2>2. desk[Handler].pc \notin {"candles", "judge", "gates", "open"}
    BY DEF BaseInv, Shaped
  <2> QED BY <2>1, <2>2, TwoDesks
<1>2. ASSUME NEW t \in Desks, Works(t)
      PROVE  TickSteps(t) \/ LookHeld(t) \/ CloseRefused(t) \/ LookFlat(t) \/ CloseSave(t) \/ CloseLeg(t) \/ Revoke(t)
  BY <1>2 DEF Works, Closes, TickSteps
<1> QED BY <1>1, <1>2 DEF BookNext

(* The first step of the argument: types, shapes and bars hold always. *)
LEMMA BookStepBase == ASSUME BaseInv, [BookNext]_bookVars PROVE BaseInv'
<1>1. CASE TickSteps(Ticker)
  <2>1. CASE Skip(Ticker) \/ OpenRefused(Ticker)
    <3>1. Turn(Ticker, AtRest) /\ UNCHANGED <<book, wall, holdings, pstate, uses>> /\ desk[Ticker].pc \in {"gates", "open"}
      BY <2>1 DEF Skip, OpenRefused, Rest
    <3>2. acts' \in [entry : Nat, exit : Nat, cut : BOOLEAN, back : BOOLEAN]
      BY <2>1, BaseFacts DEF Skip, OpenRefused, HalfOpen
    <3> QED BY <3>1, <3>2, SkipBase
  <2> QED BY <1>1, <2>1, BookTickBase, CandlesFailBase, CandlesBase, JudgeBase, BeginOpenBase, OpenLegBase, OpenSaveBase
          DEF TickSteps, Opens
<1>2. CASE \E t \in Desks : LookHeld(t) \/ CloseRefused(t)
  BY <1>2, CloseStopsBase
<1>3. CASE \E t \in Desks : LookFlat(t) \/ CloseSave(t)
  BY <1>3, ClosesBase
<1>4. CASE \E t \in Desks : CloseLeg(t) \/ SetRunner(t) \/ CloseAll(t) \/ Revoke(t)
  BY <1>4, CloseLegBase, SetRunnerBase, CloseAllBase, RevokeBase
<1>5. CASE NextBar \/ NextPhase \/ Overnight \/ Arming \/ \E o \in Options : Flatten(o)
  BY <1>5, TimeBase
<1>6. CASE BookCrash
  BY <1>6, CrashBase
<1>7. CASE UNCHANGED bookVars
  BY <1>7 DEF bookVars, BaseInv, DeskTypes, Shaped, AllDated, Newest
<1> QED BY <1>1, <1>2, <1>3, <1>4, <1>5, <1>6, <1>7, BookSteps

(* The file and the broker's net quantities have their types, an open package
   has all the legs of its structure, and no stamp is newer than the newest
   bar, whatever the cases. *)
THEOREM BookTypes == BookSpec => []PremiumTypeOK
<1>1. BookInit => BaseInv
  BY BookInitBase
<1>2. BaseInv /\ [BookNext]_bookVars => BaseInv'
  BY BookStepBase
<1>3. BaseInv => PremiumTypeOK
  <2> SUFFICES ASSUME BaseInv PROVE PremiumTypeOK
    OBVIOUS
  <2>1. holdings \in [Options -> -1 .. 1] /\ Whole(pstate.package)
        /\ Dated(pstate.package, wall.bar) /\ pstate.action <= wall.bar /\ pstate.exit <= wall.bar
    BY BaseFacts
  <2>2. {pstate.package.bar, pstate.package.action, pstate.package.exit, pstate.action, pstate.exit} \subseteq 0 .. wall.bar
    BY <2>1, BookNumbers DEF Dated
  <2> QED BY <2>1, <2>2 DEF PremiumTypeOK, Whole, Built
<1> QED BY <1>1, <1>2, <1>3, PTL DEF BookSpec

-----------------------------------------------------------------------------
(* What is held, and when the two threads meet.  From here on no closing
   request is alive at a change of the day. *)
LEMMA HeldMore ==
  ASSUME HeldIn(<< >>), NEW legs PROVE HeldIn(legs)
BY NoLegs DEF HeldIn

LEMMA CloseInADay ==
  ASSUME ClosesInADay, BaseInv, desk[Handler].pc \in {"look", "close"} PROVE book.days = 1
<1>1. desk[Handler].op \in book.ops \cap {"close", "revoke"} /\ book \in BookCases
  BY DEF BaseInv, Shaped, DeskTypes
<1> QED BY <1>1, CalmCase

LEMMA BookInitCalm == ASSUME BookInit PROVE BookInv
<1>1. BaseInv
  BY BookInitBase
<1>2. pstate.package = FlatPackage /\ pstate.action = 0 /\ acts.entry = 0 /\ acts.exit = 0 /\ wall.day = 1
  BY DEF BookInit, PInit
<1>3. \A t \in Desks : desk[t].pc = "idle"
  BY AtRestIs DEF BookInit
<1>4. HeldIn(<< >>)
  BY DEF BookInit, HeldIn
<1>5. Daily
  BY <1>2, <1>3, <1>4, AtRestIs, TwoDesks DEF Daily
<1>6. Crossed
  BY <1>3, TwoDesks DEF Crossed
<1>7. Tracked
  BY <1>3, <1>4, HeldMore, TwoDesks DEF Tracked
<1>8. Waited
  BY <1>2, <1>3, TwoDesks DEF Waited, Ordered
<1> QED BY <1>1, <1>5, <1>6, <1>7, <1>8 DEF BookInv

(* A wipe finds nothing held and no request in the middle of a close. *)
LEMMA BookTickCalm == ASSUME ClosesInADay, BookInv, BookTick(Ticker) PROVE BookInv'
<1>1. BaseInv' /\ desk'[Ticker].pc \in {"idle", "candles"}
      /\ (desk'[Ticker].pc = "candles" => (desk[Handler].pc # "idle" => desk'[Handler].late))
      /\ desk'[Handler].pc = desk[Handler].pc /\ desk'[Handler].package = desk[Handler].package
      /\ desk'[Handler].todo = desk[Handler].todo
      /\ (desk'[Ticker].pc = "idle" => desk'[Handler] = desk[Handler])
  BY BookTickBase DEF BookInv
<1>2. desk[Ticker].pc = "idle" /\ ~desk[Handler].late /\ UNCHANGED <<book, wall, holdings, acts>>
      /\ pstate' = DailyWipe(pstate, wall.day)
  BY DEF BookTick
<1>3. pstate'.session = wall.day /\ pstate'.action = pstate.action
      /\ (pstate.session = wall.day => pstate' = pstate)
  BY <1>2, WipeIs, BaseFacts, BookNumbers DEF BookInv
<1>4. desk[Handler].pc \in {"look", "close"} => pstate' = pstate /\ pstate.package.open
  <2> SUFFICES ASSUME desk[Handler].pc \in {"look", "close"} PROVE pstate' = pstate /\ pstate.package.open
    OBVIOUS
  <2>1. book.days = 1
    BY CloseInADay DEF BookInv
  <2>2. pstate.package.open
    BY <1>2 DEF BookInv, Crossed
  <2> QED BY <1>3, <2>1, <2>2 DEF BookInv, Daily
<1>5. Daily'
  BY <1>2, <1>3 DEF BookInv, Daily
<1>6. Crossed'
  BY <1>1, <1>4 DEF Crossed
<1>7. ~acts.cut => HeldIn(pstate'.package.legs)
  BY <1>2, <1>3, HeldMore DEF BookInv, Daily, Tracked
<1>8. Tracked'
  <2>1. \A t \in Desks : desk'[t].pc = "look" => desk[t].pc = "look" /\ desk'[t].package = desk[t].package
    BY <1>1, TwoDesks
  <2>2. \A t \in Desks : desk'[t].pc = "close" => desk[t].pc = "close" /\ desk'[t].todo = desk[t].todo
    BY <1>1, TwoDesks
  <2> QED BY <1>1, <1>2, <1>7, <2>1, <2>2 DEF BookInv, Tracked, HeldIn
<1>9. Waited'
  BY <1>1, <1>2, <1>3 DEF BookInv, Waited, Ordered
<1> QED BY <1>1, <1>5, <1>6, <1>8, <1>9 DEF BookInv

LEMMA CandlesFailCalm == ASSUME BookInv, CandlesFail(Ticker) PROVE BookInv'
<1>1. BaseInv' /\ desk'[Ticker] = AtRest /\ desk'[Handler] = desk[Handler]
  BY CandlesFailBase DEF BookInv
<1>2. desk[Ticker].pc = "candles" /\ UNCHANGED <<book, wall, holdings, pstate, acts>>
  BY DEF CandlesFail
<1>3. Daily' /\ Crossed'
  BY <1>1, <1>2, AtRestIs DEF BookInv, Daily, Crossed, HeldIn
<1>4. Tracked'
  BY <1>1, <1>2, AtRestIs, TwoDesks DEF BookInv, Tracked, HeldIn
<1>5. Waited'
  BY <1>1, <1>2, AtRestIs DEF BookInv, Waited, Ordered
<1> QED BY <1>1, <1>3, <1>4, <1>5 DEF BookInv

LEMMA CandlesCalm == ASSUME BookInv, Candles(Ticker) PROVE BookInv'
<1>1. BaseInv' /\ desk'[Handler] = desk[Handler]
      /\ pstate'.package = pstate.package /\ pstate'.session = pstate.session /\ pstate'.action = pstate.action
      /\ \/ desk'[Ticker].pc = "idle"
         \/ desk'[Ticker].pc = "judge" /\ desk'[Ticker].package = pstate.package
  BY CandlesBase, AtRestIs DEF BookInv
<1>2. desk[Ticker].pc = "candles" /\ UNCHANGED <<book, wall, holdings, acts>>
  BY DEF Candles
<1>3. Daily'
  BY <1>1, <1>2 DEF BookInv, Daily, HeldIn
<1>4. Crossed'
  BY <1>1, <1>2 DEF BookInv, Crossed
<1>5. Tracked'
  BY <1>1, <1>2, TwoDesks DEF BookInv, Tracked, HeldIn
<1>6. Waited'
  BY <1>1, <1>2 DEF BookInv, Waited, Ordered
<1> QED BY <1>1, <1>3, <1>4, <1>5, <1>6 DEF BookInv

(* While the tick judges, a request that closes has not closed yet. *)
LEMMA JudgeCalm == ASSUME BookInv, Judge(Ticker) PROVE BookInv'
<1>1. BaseInv' /\ desk'[Handler] = desk[Handler] /\ pstate'.session = pstate.session /\ pstate'.action = pstate.action
      /\ (~desk[Ticker].package.open => pstate' = pstate /\ desk'[Ticker].pc \in {"idle", "gates"})
      /\ (desk[Ticker].package.open =>
              /\ pstate'.package.open /\ pstate'.package.legs = desk[Ticker].package.legs
              /\ \/ desk'[Ticker].pc \in {"idle", "gates"}
                 \/ /\ desk'[Ticker].pc \in {"look", "close"} /\ desk'[Ticker].todo = desk[Ticker].package.legs
                    /\ desk'[Ticker].package.legs = desk[Ticker].package.legs)
  BY JudgeBase DEF BookInv
<1>2. desk[Ticker].pc = "judge" /\ UNCHANGED <<book, wall, holdings, acts>>
  BY DEF Judge
<1>3. desk'[Ticker].pc \in {"idle", "gates", "look", "close"}
  BY <1>1
<1>4. Daily'
  BY <1>1, <1>2 DEF BookInv, Daily, HeldIn
<1>5. Crossed'
  <2>1. desk[Handler].pc \in {"look", "close"} => desk[Handler].late /\ pstate.package.open
    BY <1>2 DEF BookInv, Crossed
  <2>2. pstate'.package.open \/ pstate' = pstate
    BY <1>1
  <2> QED BY <1>1, <1>3, <2>1, <2>2 DEF Crossed
<1>6. ~acts.cut => HeldIn(pstate'.package.legs)
  BY <1>1, <1>2 DEF BookInv, Tracked
<1>7. Tracked'
  BY <1>1, <1>2, <1>3, <1>6, TwoDesks DEF BookInv, Tracked, HeldIn
<1>8. Waited'
  BY <1>1, <1>2, <1>3 DEF BookInv, Waited, Ordered
<1> QED BY <1>1, <1>4, <1>5, <1>7, <1>8 DEF BookInv

(* A close that stops leaves everything as it was but its own thread. *)
LEMMA CloseStopsCalm == ASSUME BookInv, NEW t \in Desks, LookHeld(t) \/ CloseRefused(t) PROVE BookInv'
<1>1. BaseInv' /\ desk[t].pc \in {"look", "close"} /\ UNCHANGED <<book, wall, holdings, pstate, uses, acts>>
      /\ desk'[t].pc \in {"idle", "gates", "config"} /\ (desk'[t].pc = "gates" => t = Ticker)
      /\ (desk'[t].pc = "config" => t = Handler)
      /\ \A u \in Desks : u # t => desk'[u] = desk[u]
  BY CloseStopsBase DEF BookInv
<1>2. Daily'
  BY <1>1, TwoDesks DEF BookInv, Daily, HeldIn
<1>3. Crossed'
  <2>1. CASE t = Handler
    BY <1>1, <2>1 DEF Crossed
  <2>2. CASE t = Ticker
    BY <1>1, <2>2, TwoDesks DEF BookInv, Crossed
  <2> QED BY <2>1, <2>2, TwoDesks
<1>4. Tracked'
  <2>1. \A u \in Desks : desk'[u] = desk[u] \/ (u = t /\ desk'[u].pc \notin {"look", "close"})
    BY <1>1
  <2>2. CASE t = Handler
    BY <1>1, <2>1, <2>2, TwoDesks DEF BookInv, Tracked, HeldIn
  <2>3. CASE t = Ticker
    BY <1>1, <2>1, <2>3, TwoDesks DEF BookInv, Tracked, HeldIn
  <2> QED BY <2>2, <2>3, TwoDesks
<1>5. Waited'
  <2>1. CASE t = Handler
    BY <1>1, <2>1, TwoDesks DEF BookInv, Waited, Ordered
  <2>2. CASE t = Ticker
    BY <1>1, <2>2 DEF BookInv, Waited, Ordered
  <2> QED BY <2>1, <2>2, TwoDesks
<1> QED BY <1>1, <1>2, <1>3, <1>4, <1>5 DEF BookInv

(* A close is saved when nothing is held any more; its stamp is as new as the
   file's, or the save goes back and is known to. *)
LEMMA ClosesCalm == ASSUME BookInv, NEW t \in Desks, LookFlat(t) \/ CloseSave(t) PROVE BookInv'
<1>1. BaseInv' /\ UNCHANGED <<book, wall, holdings>>
      /\ (\/ desk[t].pc = "look" /\ \A o \in OptionsOf(desk[t].package.legs) : holdings[o] = 0
          \/ desk[t].pc = "close" /\ desk[t].todo = << >>)
      /\ pstate' = ClosedAt(pstate, CloseBar(t)) /\ CloseBar(t) \in Nat
      /\ desk'[t].pc \in {"idle", "gates", "config"} /\ (desk'[t].pc = "gates" => t = Ticker /\ desk'[t].bar = CloseBar(t))
      /\ (\A u \in Desks : u # t => desk'[u] = desk[u])
      /\ acts'.entry = acts.entry /\ acts'.exit \in {acts.exit, Later2(acts.exit, CloseBar(t))}
      /\ acts'.cut = acts.cut /\ (~acts'.back => ~acts.back /\ ~Backwards(t))
  BY ClosesBase DEF BookInv
<1>2. pstate'.session = pstate.session /\ pstate'.action = CloseBar(t) /\ ~pstate'.package.open
      /\ Guard(pstate').action = CloseBar(t)
  BY <1>1, BaseFacts, ClosedIs DEF BookInv
<1>3. ~acts.cut => HeldIn(<< >>)
  BY <1>1 DEF BookInv, Tracked, HeldIn
<1>4. Daily'
  BY <1>1, <1>2, <1>3, TwoDesks DEF BookInv, Daily, HeldIn
<1>5. Crossed'
  <2>1. CASE t = Handler
    BY <1>1, <2>1 DEF Crossed
  <2>2. CASE t = Ticker
    <3>1. desk'[Ticker].pc \in {"idle", "gates"} /\ desk'[Handler] = desk[Handler] /\ desk[Ticker].pc # "idle"
      <4>1. desk'[Ticker].pc # "config"
        BY <1>1 DEF BaseInv, Shaped
      <4> QED BY <1>1, <2>2, <4>1, TwoDesks
    <3>2. desk[Handler].pc \in {"look", "close"} => desk[Handler].late
      BY <3>1 DEF BookInv, Crossed
    <3> QED BY <1>1, <1>2, <2>2, <3>1, <3>2 DEF Crossed
  <2> QED BY <2>1, <2>2, TwoDesks
<1>6. Tracked'
  <2> SUFFICES ASSUME ~acts'.cut PROVE Tracked'
    BY DEF Tracked
  <2>1. HeldIn(<< >>) /\ holdings' = holdings
    BY <1>1, <1>3
  <2>2. \A o \in Options : holdings'[o] = 0
    BY <2>1, NoLegs DEF HeldIn
  <2> QED BY <2>2 DEF Tracked, HeldIn
<1>7. Waited'
  <2> SUFFICES ASSUME ~acts'.cut, ~acts'.back PROVE acts'.entry <= pstate'.action /\ acts'.exit <= pstate'.action /\ desk'[Ticker].pc # "open"
    BY DEF Waited, Ordered
  <2>1. desk[Ticker].pc # "open" /\ desk'[Ticker].pc # "open"
    BY <1>1, TwoDesks DEF BookInv, Crossed
  <2>2. ~acts.cut /\ ~acts.back /\ ~(CloseBar(t) < Guard(pstate).action) /\ CloseBar(t) \in Nat
    BY <1>1 DEF Backwards
  <2>3. acts.entry <= pstate.action /\ acts.exit <= pstate.action
    BY <2>1, <2>2 DEF BookInv, Waited, Ordered
  <2>4. Guard(pstate).action \in Nat /\ pstate.action <= Guard(pstate).action /\ pstate.action \in Nat
        /\ acts.entry \in Nat /\ acts.exit \in Nat
    BY GuardIs, BaseFacts, BookNumbers DEF BookInv
  <2>5. acts.entry <= CloseBar(t) /\ acts.exit <= CloseBar(t)
    BY <2>2, <2>3, <2>4
  <2>6. Later2(acts.exit, CloseBar(t)) <= CloseBar(t)
    BY <2>2, <2>4, <2>5, Later2Is
  <2>7. acts'.entry = acts.entry /\ acts'.exit \in {acts.exit, Later2(acts.exit, CloseBar(t))}
    BY <1>1
  <2>8. acts'.entry <= CloseBar(t) /\ acts'.exit <= CloseBar(t)
    BY <2>5, <2>6, <2>7
  <2>9. pstate'.action = CloseBar(t)
    BY <1>2
  <2> QED BY <2>1, <2>8, <2>9
<1> QED BY <1>1, <1>4, <1>5, <1>6, <1>7 DEF BookInv

LEMMA CloseLegCalm == ASSUME BookInv, NEW t \in Desks, CloseLeg(t) PROVE BookInv'
<1>1. BaseInv' /\ desk[t].pc = "close" /\ desk'[t].pc = "close" /\ UNCHANGED <<book, wall, pstate, uses, acts>>
      /\ desk'[t].late = desk[t].late /\ desk'[t].bar = desk[t].bar
      /\ (\A o \in Options : holdings'[o] # 0 => holdings[o] # 0)
      /\ (\A o \in Options : holdings'[o] # 0 /\ o \in OptionsOf(desk[t].todo) => o \in OptionsOf(desk'[t].todo))
      /\ \A u \in Desks : u # t => desk'[u] = desk[u]
  BY CloseLegBase DEF BookInv
<1>2. \A u \in Desks : desk'[u].pc = desk[u].pc /\ desk'[u].late = desk[u].late /\ desk'[u].bar = desk[u].bar
      /\ (desk[u].pc # "close" => desk'[u] = desk[u])
  BY <1>1
<1>3. Daily'
  BY <1>1, <1>2, TwoDesks DEF BookInv, Daily, HeldIn
<1>4. Crossed'
  BY <1>1, <1>2, TwoDesks DEF BookInv, Crossed
<1>5. Tracked'
  <2> SUFFICES ASSUME ~acts.cut PROVE Tracked'
    BY <1>1 DEF Tracked
  <2>1. \A u \in Desks : desk[u].pc = "close" => HeldIn(desk[u].todo)'
    <3> SUFFICES ASSUME NEW u \in Desks, desk[u].pc = "close", NEW o \in Options, holdings'[o] # 0
                 PROVE  o \in OptionsOf(desk'[u].todo)
      BY DEF HeldIn
    <3>1. holdings[o] # 0
      BY <1>1
    <3>2. HeldIn(desk[u].todo)
      BY DEF BookInv, Tracked
    <3>3. o \in OptionsOf(desk[u].todo)
      BY <3>1, <3>2 DEF HeldIn
    <3> QED BY <1>1, <3>3
  <2> QED BY <1>1, <1>2, <2>1, TwoDesks DEF BookInv, Tracked, HeldIn
<1>6. Waited'
  BY <1>1, <1>2, TwoDesks DEF BookInv, Waited, Ordered
<1> QED BY <1>1, <1>3, <1>4, <1>5, <1>6 DEF BookInv

(* An opening that is not begun, or is refused at its first leg, leaves
   nothing; one that is refused later is cut short. *)
LEMMA SkipCalm == ASSUME BookInv, Skip(Ticker) PROVE BookInv'
<1>1. desk[Ticker].pc = "gates" /\ Turn(Ticker, AtRest) /\ UNCHANGED <<book, wall, holdings, pstate, uses, acts>>
  BY DEF Skip, Rest
<1>2. BaseInv' /\ desk'[Ticker].pc = "idle" /\ desk'[Handler] = desk[Handler]
  BY <1>1, BaseFacts, SkipBase, AtRestIs DEF BookInv
<1>3. Daily' /\ Crossed'
  BY <1>1, <1>2 DEF BookInv, Daily, Crossed, HeldIn
<1>4. Tracked'
  BY <1>1, <1>2, TwoDesks DEF BookInv, Tracked, HeldIn
<1>5. Waited'
  BY <1>1, <1>2 DEF BookInv, Waited, Ordered
<1> QED BY <1>2, <1>3, <1>4, <1>5 DEF BookInv

LEMMA OpenRefusedCalm == ASSUME BookInv, OpenRefused(Ticker) PROVE BookInv'
<1>1. desk[Ticker].pc = "open" /\ Turn(Ticker, AtRest) /\ UNCHANGED <<book, wall, holdings, pstate, uses>>
      /\ acts' = [acts EXCEPT !.cut = @ \/ HalfOpen(Ticker)]
  BY DEF OpenRefused, Rest
<1>2. PICK cuts \in BOOLEAN : cuts = HalfOpen(Ticker)
  BY DEF HalfOpen
<1>3. acts' \in [entry : Nat, exit : Nat, cut : BOOLEAN, back : BOOLEAN] /\ acts'.entry = acts.entry /\ acts'.exit = acts.exit
      /\ acts'.back = acts.back /\ acts'.cut = (acts.cut \/ cuts)
  BY <1>1, <1>2, BaseFacts DEF BookInv
<1>4. ~acts'.cut => ~acts.cut /\ ~Ordered
  BY <1>1, <1>2, <1>3 DEF HalfOpen, Ordered
<1>5. BaseInv' /\ desk'[Ticker].pc = "idle" /\ desk'[Handler] = desk[Handler]
  BY <1>1, <1>3, SkipBase, AtRestIs DEF BookInv
<1>6. desk[Handler].pc \notin {"look", "close"}
  BY <1>1 DEF BookInv, Crossed
<1>7. ~acts'.cut => HeldIn(<< >>)
  BY <1>1, <1>4 DEF BookInv, Tracked, Ordered
<1>8. Daily'
  BY <1>1, <1>5, <1>7 DEF BookInv, Daily, HeldIn
<1>9. Crossed'
  BY <1>5, <1>6 DEF Crossed
<1>10. Tracked'
  <2> SUFFICES ASSUME ~acts'.cut PROVE Tracked'
    BY DEF Tracked
  <2>1. \A o \in Options : holdings'[o] = 0
    BY <1>1, <1>7, NoLegs DEF HeldIn
  <2> QED BY <2>1 DEF Tracked, HeldIn
<1>11. Waited'
  <2> SUFFICES ASSUME ~acts'.cut, ~acts'.back PROVE acts'.entry <= pstate'.action /\ acts'.exit <= pstate'.action /\ ~Ordered'
    BY <1>5 DEF Waited, Ordered
  <2>1. ~acts.cut /\ ~acts.back /\ ~Ordered
    BY <1>3, <1>4
  <2>2. acts.entry <= pstate.action /\ acts.exit <= pstate.action
    BY <2>1 DEF BookInv, Waited
  <2> QED BY <1>1, <1>3, <1>5, <2>2 DEF Ordered
<1> QED BY <1>5, <1>8, <1>9, <1>10, <1>11 DEF BookInv

(* An opening begins on a bar that no stamp of the file has reached, beside no
   request that closes, with nothing held. *)
LEMMA BeginOpenCalm == ASSUME BookInv, BeginOpen(Ticker) PROVE BookInv'
<1>1. BaseInv' /\ desk'[Handler] = desk[Handler] /\ desk'[Ticker].pc = "open" /\ desk'[Ticker].todo = desk'[Ticker].legs
      /\ desk'[Ticker].bar = desk[Ticker].bar
  BY BeginOpenBase DEF BookInv
<1>2. desk[Ticker].pc = "gates" /\ ~pstate.package.open /\ Guard(pstate).action # desk[Ticker].bar
      /\ UNCHANGED <<book, wall, holdings, pstate, acts>>
  BY DEF BeginOpen, MayOpen
<1>3. desk[Handler].pc \notin {"look", "close"}
  BY <1>2 DEF BookInv, Crossed
<1>4. ~acts.cut => HeldIn(<< >>)
  <2>1. pstate.package.legs = << >>
    BY <1>2, BaseFacts DEF BookInv, Whole
  <2> QED BY <1>2, <2>1 DEF BookInv, Tracked
<1>5. Daily'
  BY <1>1, <1>2 DEF BookInv, Daily, HeldIn
<1>6. Crossed'
  BY <1>1, <1>3 DEF Crossed
<1>7. Tracked'
  <2> SUFFICES ASSUME ~acts.cut PROVE Tracked'
    BY <1>2 DEF Tracked
  <2>1. \A o \in Options : holdings'[o] = 0
    BY <1>2, <1>4, NoLegs DEF HeldIn
  <2> QED BY <2>1 DEF Tracked, HeldIn
<1>8. Waited'
  <2> SUFFICES ASSUME ~acts.cut, ~acts.back
               PROVE  /\ acts'.entry <= pstate'.action /\ acts'.exit <= pstate'.action
                      /\ acts'.entry < desk'[Ticker].bar /\ acts'.exit < desk'[Ticker].bar /\ ~Ordered'
    BY <1>2 DEF Waited
  <2>1. acts.entry <= pstate.action /\ acts.exit <= pstate.action
    BY <1>2 DEF BookInv, Waited, Ordered
  <2>2. Guard(pstate).action <= desk[Ticker].bar
    <3>1. Newest = desk[Ticker].bar
      BY <1>2 DEF Newest
    <3>2. pstate.action <= Newest /\ pstate.package.action <= Newest
      BY BaseFacts DEF BookInv, Dated
    <3> QED BY <3>1, <3>2, GuardIs, BaseFacts DEF BookInv
  <2>3. pstate.action <= Guard(pstate).action /\ Guard(pstate).action \in Nat /\ pstate.action \in Nat /\ desk[Ticker].bar \in Nat
        /\ acts.entry \in Nat /\ acts.exit \in Nat
    BY GuardIs, BaseFacts, BookNumbers, TwoDesks DEF BookInv
  <2>4. acts.entry < desk[Ticker].bar /\ acts.exit < desk[Ticker].bar
    BY <1>2, <2>1, <2>2, <2>3
  <2> QED BY <1>1, <1>2, <2>1, <2>4 DEF Ordered
<1> QED BY <1>1, <1>5, <1>6, <1>7, <1>8 DEF BookInv

LEMMA OpenLegCalm == ASSUME BookInv, OpenLeg(Ticker) PROVE BookInv'
<1>1. BaseInv' /\ desk'[Handler] = desk[Handler] /\ desk'[Ticker].pc = "open"
      /\ desk'[Ticker].legs = desk[Ticker].legs /\ desk'[Ticker].todo # desk[Ticker].legs
      /\ desk'[Ticker].bar = desk[Ticker].bar
      /\ \A o \in Options : holdings'[o] = holdings[o] \/ o \in OptionsOf(desk[Ticker].legs)
  BY OpenLegBase DEF BookInv
<1>2. desk[Ticker].pc = "open" /\ acts' = [acts EXCEPT !.entry = desk[Ticker].bar] /\ UNCHANGED <<book, wall, pstate>>
  BY DEF OpenLeg
<1>3. acts'.entry = desk[Ticker].bar /\ acts'.exit = acts.exit /\ acts'.cut = acts.cut /\ acts'.back = acts.back
  BY <1>2, BaseFacts DEF BookInv
<1>4. desk[Handler].pc \notin {"look", "close"}
  BY <1>2 DEF BookInv, Crossed
<1>5. Daily'
  BY <1>1, <1>2 DEF BookInv, Daily
<1>6. Crossed'
  BY <1>1, <1>4 DEF Crossed
<1>7. Tracked'
  <2> SUFFICES ASSUME ~acts.cut PROVE Tracked'
    BY <1>3 DEF Tracked
  <2>1. \A o \in Options : holdings'[o] # 0 => o \in OptionsOf(desk[Ticker].legs)
    BY <1>1, <1>2 DEF BookInv, Tracked, HeldIn
  <2> QED BY <1>1, <1>4, <2>1, TwoDesks DEF Tracked, HeldIn
<1>8. Waited'
  <2> SUFFICES ASSUME ~acts.cut, ~acts.back
               PROVE  acts'.entry <= desk'[Ticker].bar /\ acts'.exit <= desk'[Ticker].bar /\ Ordered'
    BY <1>3 DEF Waited
  <2>1. acts.exit <= desk[Ticker].bar
    <3>1. CASE Ordered
      BY <3>1 DEF BookInv, Waited
    <3>2. CASE ~Ordered
      <4>1. acts.exit < desk[Ticker].bar
        BY <1>2, <3>2 DEF BookInv, Waited
      <4> QED BY <4>1, BookNumbers, TwoDesks DEF BookInv
    <3> QED BY <3>1, <3>2
  <2>2. desk[Ticker].bar <= desk[Ticker].bar
    BY BookNumbers, TwoDesks DEF BookInv
  <2> QED BY <1>1, <1>3, <2>1, <2>2 DEF Ordered
<1> QED BY <1>1, <1>5, <1>6, <1>7, <1>8 DEF BookInv

LEMMA OpenSaveCalm == ASSUME BookInv, OpenSave(Ticker) PROVE BookInv'
<1>1. BaseInv' /\ desk'[Ticker].pc = "idle" /\ desk'[Handler] = desk[Handler]
      /\ pstate'.package.legs = desk[Ticker].legs /\ pstate'.session = pstate.session
      /\ pstate'.action = desk[Ticker].bar /\ desk[Ticker].pc = "open" /\ desk[Ticker].todo # desk[Ticker].legs
  BY OpenSaveBase, AtRestIs DEF BookInv
<1>2. UNCHANGED <<book, wall, holdings, acts>>
  BY DEF OpenSave
<1>3. desk[Handler].pc \notin {"look", "close"}
  BY <1>1 DEF BookInv, Crossed
<1>4. Daily'
  BY <1>1, <1>2 DEF BookInv, Daily
<1>5. Crossed'
  BY <1>1, <1>3 DEF Crossed
<1>6. Tracked'
  BY <1>1, <1>2, <1>3, TwoDesks DEF BookInv, Tracked, HeldIn
<1>7. Waited'
  BY <1>1, <1>2 DEF BookInv, Waited, Ordered
<1> QED BY <1>1, <1>4, <1>5, <1>6, <1>7 DEF BookInv

-----------------------------------------------------------------------------
LEMMA SetRunnerCalm == ASSUME BookInv, NEW t \in Desks, SetRunner(t) PROVE BookInv'
<1>1. BaseInv' /\ UNCHANGED <<book, wall, holdings, desk, acts>>
      /\ pstate'.package = pstate.package /\ pstate'.session = pstate.session /\ pstate'.action = pstate.action
      /\ Guard(pstate') = Guard(pstate)
  BY SetRunnerBase DEF BookInv
<1>2. Daily' /\ Tracked' /\ Waited'
  BY <1>1 DEF BookInv, Daily, Tracked, Waited, HeldIn, Ordered
<1>3. Crossed'
  BY <1>1 DEF BookInv, Crossed
<1> QED BY <1>1, <1>2, <1>3 DEF BookInv

LEMMA CloseAllCalm == ASSUME BookInv, NEW t \in Desks, CloseAll(t) PROVE BookInv'
<1>1. BaseInv' /\ UNCHANGED <<book, wall, holdings, pstate, acts>> /\ desk'[Ticker] = desk[Ticker]
      /\ (\/ desk'[Handler].pc \in {"idle", "config"}
          \/ /\ desk'[Handler].pc \in {"look", "close"} /\ pstate.package.open
             /\ desk'[Handler].package = pstate.package /\ desk'[Handler].todo = pstate.package.legs
             /\ desk'[Handler].late = (desk[Ticker].pc # "idle"))
  BY CloseAllBase DEF BookInv
<1>2. Daily' /\ Waited'
  BY <1>1 DEF BookInv, Daily, Waited, HeldIn, Ordered
<1>3. CASE desk'[Handler].pc \in {"idle", "config"}
  <2>1. Crossed' /\ Tracked'
    BY <1>1, <1>3, TwoDesks DEF BookInv, Crossed, Tracked, HeldIn
  <2> QED BY <1>1, <1>2, <2>1 DEF BookInv
<1>4. CASE /\ desk'[Handler].pc \in {"look", "close"} /\ pstate.package.open
           /\ desk'[Handler].package = pstate.package /\ desk'[Handler].todo = pstate.package.legs
           /\ desk'[Handler].late = (desk[Ticker].pc # "idle")
  <2>1. desk[Ticker].pc # "open"
    BY <1>4 DEF BookInv, BaseInv, Shaped
  <2>2. Crossed'
    BY <1>1, <1>4, <2>1 DEF Crossed
  <2>3. Tracked'
    BY <1>1, <1>4, <2>1, TwoDesks DEF BookInv, Tracked, HeldIn
  <2> QED BY <1>1, <1>2, <2>2, <2>3 DEF BookInv
<1> QED BY <1>1, <1>3, <1>4

LEMMA RevokeCalm == ASSUME BookInv, NEW t \in Desks, Revoke(t) PROVE BookInv'
<1>1. BaseInv' /\ UNCHANGED <<book, holdings, pstate, acts>> /\ wall'.day = wall.day
      /\ desk'[Ticker] = desk[Ticker] /\ desk'[Handler].pc = "idle"
  BY RevokeBase DEF BookInv
<1>2. Daily' /\ Waited'
  BY <1>1 DEF BookInv, Daily, Waited, HeldIn, Ordered
<1>3. Crossed' /\ Tracked'
  BY <1>1, TwoDesks DEF BookInv, Crossed, Tracked, HeldIn
<1> QED BY <1>1, <1>2, <1>3 DEF BookInv

(* Only the night changes the day, and it leaves nothing held. *)
LEMMA TimeCalm ==
  ASSUME BookInv, NextBar \/ NextPhase \/ Overnight \/ Arming \/ \E o \in Options : Flatten(o) PROVE BookInv'
<1>1. BaseInv' /\ UNCHANGED <<book, pstate, desk, uses, acts>> /\ \A o \in Options : holdings'[o] # 0 => holdings[o] # 0
  BY TimeBase DEF BookInv
<1>2. Crossed' /\ Tracked' /\ Waited'
  BY <1>1 DEF BookInv, Crossed, Tracked, Waited, HeldIn, Ordered
<1>3. Daily'
  <2>1. CASE Overnight
    <3>1. wall.day < book.days /\ desk[Ticker].pc = "idle" /\ \A o \in Options : holdings'[o] = 0
      BY <2>1, TwoDesks DEF Overnight
    <3>2. wall.day \in Nat \ {0} /\ book.days \in Nat
      BY BaseFacts, BookFieldTypes DEF BookInv, BaseInv, DeskTypes
    <3>3. book.days # 1
      BY <3>1, <3>2
    <3> QED BY <1>1, <3>1, <3>3 DEF Daily, HeldIn
  <2>2. CASE NextBar \/ NextPhase \/ Arming \/ \E o \in Options : Flatten(o)
    <3>1. wall'.day = wall.day
      BY <2>2, BaseFacts DEF NextBar, NextPhase, Arming, Flatten, BookInv
    <3> QED BY <1>1, <3>1 DEF BookInv, Daily, HeldIn
  <2> QED BY <2>1, <2>2
<1> QED BY <1>1, <1>2, <1>3 DEF BookInv

LEMMA CrashCalm == ASSUME BookInv, BookCrash PROVE BookInv'
<1>1. BaseInv' /\ UNCHANGED <<book, wall, holdings, pstate>> /\ (\A t \in Desks : desk'[t].pc = "idle")
      /\ acts'.entry = acts.entry /\ acts'.exit = acts.exit /\ acts'.back = acts.back
      /\ (~acts'.cut => ~acts.cut /\ ~HalfOpen(Ticker))
  BY CrashBase DEF BookInv
<1>2. ~acts'.cut => ~acts.cut /\ ~Ordered
  BY <1>1 DEF HalfOpen, Ordered
<1>3. desk'[Ticker].pc = "idle" /\ desk'[Handler].pc = "idle"
  BY <1>1, TwoDesks
<1>4. ~acts'.cut => HeldIn(pstate.package.legs)
  BY <1>2, HeldMore DEF BookInv, Tracked, Ordered
<1>5. Daily'
  BY <1>1, <1>3 DEF BookInv, Daily, HeldIn
<1>6. Crossed'
  BY <1>3 DEF Crossed
<1>7. Tracked'
  BY <1>1, <1>3, <1>4 DEF Tracked, HeldIn
<1>8. Waited'
  <2> SUFFICES ASSUME ~acts'.cut, ~acts'.back PROVE acts'.entry <= pstate'.action /\ acts'.exit <= pstate'.action
    BY <1>3 DEF Waited, Ordered
  <2>1. acts.entry <= pstate.action /\ acts.exit <= pstate.action
    BY <1>1, <1>2 DEF BookInv, Waited
  <2> QED BY <1>1, <2>1
<1> QED BY <1>1, <1>5, <1>6, <1>7, <1>8 DEF BookInv

-----------------------------------------------------------------------------
LEMMA BookStepCalm == ASSUME ClosesInADay, BookInv, [BookNext]_bookVars PROVE BookInv'
<1>1. CASE TickSteps(Ticker)
  BY <1>1, BookTickCalm, CandlesFailCalm, CandlesCalm, JudgeCalm, SkipCalm, BeginOpenCalm, OpenLegCalm, OpenRefusedCalm,
     OpenSaveCalm DEF TickSteps, Opens
<1>2. CASE \E t \in Desks : LookHeld(t) \/ CloseRefused(t)
  BY <1>2, CloseStopsCalm
<1>3. CASE \E t \in Desks : LookFlat(t) \/ CloseSave(t)
  BY <1>3, ClosesCalm
<1>4. CASE \E t \in Desks : CloseLeg(t) \/ SetRunner(t) \/ CloseAll(t) \/ Revoke(t)
  BY <1>4, CloseLegCalm, SetRunnerCalm, CloseAllCalm, RevokeCalm
<1>5. CASE NextBar \/ NextPhase \/ Overnight \/ Arming \/ \E o \in Options : Flatten(o)
  BY <1>5, TimeCalm
<1>6. CASE BookCrash
  BY <1>6, CrashCalm
<1>7. CASE UNCHANGED bookVars
  <2>1. BaseInv'
    BY <1>7, BookStepBase DEF BookInv
  <2>2. Daily' /\ Crossed' /\ Tracked' /\ Waited'
    BY <1>7 DEF bookVars, BookInv, Daily, Crossed, Tracked, Waited, HeldIn, Ordered
  <2> QED BY <2>1, <2>2 DEF BookInv
<1> QED BY <1>1, <1>2, <1>3, <1>4, <1>5, <1>6, <1>7, BookSteps DEF BookInv

(* What the broker holds is always in the package of the file, or in the
   hands of the tick that opens it, unless an opening was cut short half-way:
   refused legs, a shut gate, a hand-made exit, a crash and a request that
   closes beside the tick never make the book forget a position, as long as
   no closing request is alive at a change of the day. *)
THEOREM BookForgetsNothing == ASSUME ClosesInADay PROVE BookSpec => []NothingUntracked
<1>1. BookInit => BookInv
  BY BookInitCalm
<1>2. BookInv /\ [BookNext]_bookVars => BookInv'
  BY BookStepCalm
<1>3. BookInv => NothingUntracked
  BY TwoDesks DEF BookInv, Tracked, HeldIn, NothingUntracked, BaseInv, Shaped, Whole, OptionsOf
<1> QED BY <1>1, <1>2, <1>3, PTL DEF BookSpec

(* The first order of a package is for a bar after those of the last entry
   and of the last exit, whoever closed it, unless a close put an older stamp
   over a newer one or an opening was cut short before its stamp. *)
THEOREM EntriesWait == ASSUME ClosesInADay PROVE BookSpec => EntriesWaitForABar
<1>1. BookInit => BookInv
  BY BookInitCalm
<1>2. BookInv /\ [BookNext]_bookVars => BookInv'
  BY BookStepCalm
<1>3. BookInv => \A t \in Desks : FirstOrder(t) /\ ~acts.cut /\ ~acts.back => NewBar(t)
  <2> SUFFICES ASSUME BookInv, NEW t \in Desks, FirstOrder(t), ~acts.cut, ~acts.back PROVE NewBar(t)
    OBVIOUS
  <2>1. t = Ticker /\ desk[Ticker].pc = "open" /\ ~Ordered
    BY TwoDesks DEF FirstOrder, BookInv, BaseInv, Shaped, Ordered
  <2>2. acts.entry < desk[Ticker].bar /\ acts.exit < desk[Ticker].bar
    BY <2>1 DEF BookInv, Waited
  <2> QED BY <2>1, <2>2, BookNumbers, TwoDesks DEF NewBar, BookInv
<1>4. BookInv => [\A t \in Desks : FirstOrder(t) /\ ~acts.cut /\ ~acts.back => NewBar(t)]_bookVars
  BY <1>3
<1> QED BY <1>1, <1>2, <1>4, PTL DEF BookSpec, EntriesWaitForABar
=============================================================================
