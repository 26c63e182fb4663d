------------------------- MODULE RiskWindow_proofs -------------------------
(***************************************************************************)
(* Theorems about RiskWindow for every set of threads, every rate and      *)
(* every length of the minute: a thread that trades alone is limited, the  *)
(* rate refuses for a cause, and the limit in force is the one on disk.    *)
(***************************************************************************)
EXTENDS RiskWindow, FiniteSetTheorems, TLAPS

RecType == [at : Nat, limit : Rates]
CheckType == [pc : {"idle", "bind", "test", "stamp"}, now : Nat, kept : SUBSET Orders, limit : Nat,
              answer : {"none", "rate"}]
UpdateType == [pc : {"idle", "payload", "open", "write"}, payload : Rates]

(* A check sees the clock within a tick of its start, nothing older than the
   minute and a tick is among the stamps it counts, and it has no answer. *)
ClockedCheck(c) ==
    check[c].pc # "idle" =>
        /\ c \in limits.callers
        /\ check[c].now <= clock /\ clock <= check[c].now + 1
        /\ check[c].pc = "bind" => check[c].kept \subseteq Within(Orders, check[c].now)
        /\ check[c].pc = "test" => stamps \subseteq Recent(c)
        /\ check[c].pc = "stamp" => check[c].limit \in Rates
        /\ check[c].answer = "none"
Clocked == (\A i \in Orders : passed[i].at <= clock) /\ \A c \in Callers : ClockedCheck(c)

(* A thread that trades alone loses no stamp of the last minute. *)
Alone == Cardinality(limits.callers) = 1 /\ tally.crashes = 0
StampedCheck(c) ==
    /\ check[c].pc = "idle" => Within(Orders, clock) \subseteq stamps
    /\ check[c].pc = "bind" => Within(Orders, check[c].now) \subseteq check[c].kept
    /\ check[c].pc \in {"test", "stamp"} => Within(Orders, check[c].now) \subseteq stamps
    /\ check[c].pc = "stamp" => Cardinality(stamps) < check[c].limit
Stamped == Alone => \A c \in limits.callers : StampedCheck(c)

(* What a refusal by the rate says of its check. *)
Caused(c) == check[c].answer = "rate" => Cardinality(Recent(c)) >= check[c].limit

(* The payload of the one update under way is the limit in force. *)
Saving == Cardinality(Updaters) = 1 => \A u \in Updaters :
    /\ update[u].pc = "idle" => rate = Loaded(saved)
    /\ update[u].pc \in {"open", "write"} => update[u].payload = rate

Inv == RiskTypeOK /\ Clocked /\ Stamped /\ RateLimited /\ RefusedForCause /\ Saving

(* The numbers of the model. *)
LEMMA Numbers ==
    /\ Rates \subseteq Nat /\ Rates \subseteq Int /\ DefaultRate \in Rates /\ Torn \notin Rates /\ NoFile \notin Rates
    /\ Minute \in Nat /\ Minute >= 1
BY RatesAssumption DEF Torn, NoFile

(* The orders that passed are finitely many. *)
LEMMA OrderSets ==
  ASSUME RiskTypeOK
  PROVE  /\ Len(passed) \in Nat /\ Orders = 1 .. Len(passed)
         /\ \A i \in Orders : passed[i] \in RecType /\ passed[i].at \in Nat /\ passed[i].limit \in Nat
         /\ IsFiniteSet(Orders)
         /\ \A T \in SUBSET Orders : IsFiniteSet(T) /\ Cardinality(T) \in Nat
<1>1. passed \in Seq(RecType)
  BY DEF RiskTypeOK, RecType
<1>2. Len(passed) \in Nat /\ Orders = 1 .. Len(passed) /\ \A i \in Orders : passed[i] \in RecType
  BY <1>1 DEF Orders
<1>3. \A i \in Orders : passed[i].at \in Nat /\ passed[i].limit \in Nat
  BY <1>2, Numbers DEF RecType
<1>4. IsFiniteSet(Orders)
  BY <1>2, FS_Interval
<1>5. ASSUME NEW T \in SUBSET Orders PROVE IsFiniteSet(T) /\ Cardinality(T) \in Nat
  BY <1>4, FS_Subset, FS_CardinalityType
<1> QED BY <1>2, <1>3, <1>4, <1>5

(* A larger set of orders that passed has no smaller number of orders. *)
LEMMA Counted ==
  ASSUME NEW S, IsFiniteSet(S), NEW T \in SUBSET S
  PROVE  IsFiniteSet(T) /\ Cardinality(T) \in Nat /\ Cardinality(S) \in Nat /\ Cardinality(T) <= Cardinality(S)
BY FS_Subset, FS_CardinalityType

(* An order that passes is the last one. *)
LEMMA Grows ==
  ASSUME RiskTypeOK, NEW e \in RecType, passed' = Append(passed, e)
  PROVE  /\ Orders' = Orders \cup {Len(passed) + 1} /\ Len(passed) + 1 \notin Orders
         /\ passed' \in Seq(RecType)
         /\ \A i \in Orders : passed'[i] = passed[i]
         /\ passed'[Len(passed) + 1] = e
<1>1. passed \in Seq(RecType) /\ Len(passed) \in Nat /\ Orders = 1 .. Len(passed)
  BY OrderSets DEF RiskTypeOK, RecType
<1>2. passed' \in Seq(RecType) /\ Len(passed') = Len(passed) + 1
  BY <1>1
<1>3. Orders' = 1 .. Len(passed) + 1
  BY <1>1, <1>2 DEF Orders
<1>4. \A i \in 1 .. Len(passed) : passed'[i] = passed[i]
  BY <1>1
<1>5. passed'[Len(passed) + 1] = e
  BY <1>1
<1>6. 1 .. Len(passed) + 1 = (1 .. Len(passed)) \cup {Len(passed) + 1} /\ Len(passed) + 1 \notin 1 .. Len(passed)
  BY <1>1
<1> QED BY <1>1, <1>2, <1>3, <1>4, <1>5, <1>6

-----------------------------------------------------------------------------
LEMMA InitInv == ASSUME RiskInit PROVE Inv
<1> USE DEF RiskInit
<1>1. RiskTypeOK
  <2>1. limits \in RiskCases /\ clock \in Nat /\ rate \in Rates /\ saved \in Rates \cup {Torn, NoFile}
    BY Numbers
  <2>2. passed \in Seq([at : Nat, limit : Rates]) /\ stamps \subseteq Orders
    BY DEF Orders
  <2>3. check \in [Callers -> CheckType] /\ update \in [Updaters -> UpdateType]
    BY Numbers DEF CheckType, UpdateType, NoCheck, NoUpdate
  <2>4. tally \in [updates : Nat, crashes : Nat]
    OBVIOUS
  <2> QED BY <2>1, <2>2, <2>3, <2>4 DEF RiskTypeOK, UpdateType, CheckType
<1>2. Orders = {} /\ \A c \in Callers : check[c].pc = "idle" /\ check[c].answer = "none"
  BY DEF Orders, NoCheck
<1>3. Clocked
  BY <1>2 DEF Clocked, ClockedCheck
<1>4. RefusedForCause
  BY <1>2 DEF RefusedForCause
<1>5. RateLimited
  BY <1>2 DEF RateLimited
<1>6. limits.callers \subseteq Callers
  BY RiskCasesAssumption
<1>7. Stamped
  BY <1>2, <1>6 DEF Stamped, StampedCheck, Within
<1>8. Saving
  <2>1. Loaded(saved) = DefaultRate
    BY Numbers DEF Loaded
  <2> QED BY <2>1 DEF Saving, NoUpdate
<1> QED BY <1>1, <1>3, <1>4, <1>5, <1>7, <1>8 DEF Inv

(* A step of an update, or none: nothing that the checks read but the limit
   itself changes. *)
LEMMA ChecksKeep ==
  ASSUME Inv, UNCHANGED <<limits, clock, stamps, passed, check>>, tally'.crashes = tally.crashes
  PROVE  Clocked' /\ Stamped' /\ RateLimited' /\ RefusedForCause'
<1>1. Orders' = Orders /\ \A c \in Callers : Recent(c)' = Recent(c)
  BY DEF Orders, Recent
<1>2. Clocked'
  BY <1>1 DEF Inv, Clocked, ClockedCheck, Within
<1>3. Stamped'
  BY <1>1 DEF Inv, Stamped, StampedCheck, Alone, Within
<1>4. RateLimited'
  BY <1>1 DEF Inv, RateLimited
<1>5. RefusedForCause'
  BY <1>1 DEF Inv, RefusedForCause
<1> QED BY <1>2, <1>3, <1>4, <1>5

(* One request changes the limit: the only one when there is one updater. *)
LEMMA OneUpdater ==
  ASSUME Cardinality(Updaters) = 1, NEW u \in Updaters, NEW w \in Updaters
  PROVE  u = w
BY CallersAssumption, FS_Singleton

LEMMA UpdateKeeps ==
  ASSUME Inv, NEW u \in Updaters, Payload(u) \/ Open(u) \/ Write(u) \/ \E r \in Rates : Update(u, r)
  PROVE  Inv'
<1> USE DEF Payload, Open, Write, Update
<1>1. UNCHANGED <<limits, clock, stamps, passed, check>> /\ tally'.crashes = tally.crashes
  BY DEF Inv, RiskTypeOK, UpdateType
<1>2. RiskTypeOK'
  <2>1. /\ rate \in Rates /\ saved \in Rates \cup {Torn, NoFile} /\ tally \in [updates : Nat, crashes : Nat]
        /\ update \in [Updaters -> UpdateType]
    BY DEF Inv, RiskTypeOK, UpdateType
  <2>2. rate' \in Rates /\ saved' \in Rates \cup {Torn, NoFile}
    BY <2>1 DEF UpdateType
  <2>3. tally' \in [updates : Nat, crashes : Nat]
    BY <2>1
  <2>4. update' \in [Updaters -> UpdateType]
    <3>1. CASE Payload(u)
      BY <2>1, <3>1 DEF UpdateType
    <3>2. CASE Open(u)
      BY <2>1, <3>2 DEF UpdateType
    <3>3. CASE Write(u)
      BY <2>1, <3>3 DEF UpdateType
    <3>4. CASE \E r \in Rates : Update(u, r)
      BY <2>1, <3>4 DEF UpdateType
    <3> QED BY <3>1, <3>2, <3>3, <3>4
  <2> QED BY <1>1, <2>2, <2>3, <2>4 DEF Inv, RiskTypeOK, UpdateType, Orders
<1>3. Saving'
  <2> SUFFICES ASSUME Cardinality(Updaters) = 1, NEW w \in Updaters
               PROVE  /\ update'[w].pc = "idle" => rate' = Loaded(saved')
                      /\ update'[w].pc \in {"open", "write"} => update'[w].payload = rate'
    BY DEF Saving, Loaded
  <2>1. u = w
    BY OneUpdater
  <2>2. update \in [Updaters -> UpdateType] /\ rate \in Rates
    BY DEF Inv, RiskTypeOK, UpdateType
  <2>3. /\ update[w].pc = "idle" => rate = Loaded(saved)
        /\ update[w].pc \in {"open", "write"} => update[w].payload = rate
    BY DEF Inv, Saving
  <2>4. CASE Payload(u)
    BY <2>1, <2>2, <2>4
  <2>5. CASE Open(u)
    BY <2>1, <2>2, <2>3, <2>5
  <2>6. CASE Write(u)
    <3>1. saved' = rate /\ rate' = rate /\ update'[w].pc = "idle"
      BY <2>1, <2>2, <2>3, <2>6
    <3> QED BY <2>2, <3>1 DEF Loaded
  <2>7. CASE \E r \in Rates : Update(u, r)
    BY <2>1, <2>2, <2>7
  <2> QED BY <2>4, <2>5, <2>6, <2>7
<1> QED BY <1>1, <1>2, <1>3, ChecksKeep DEF Inv

LEMMA CrashKeeps == ASSUME Inv, RiskCrash PROVE Inv'
<1> USE DEF RiskCrash
<1>1. Orders' = Orders /\ \A c \in Callers : check'[c] = NoCheck
  BY DEF Orders
<1>2. NoCheck \in CheckType' /\ NoUpdate \in UpdateType
  BY Numbers DEF NoCheck, NoUpdate, CheckType, UpdateType
<1>3. rate' \in Rates /\ rate' = Loaded(saved')
  BY Numbers DEF Loaded
<1>4. tally' \in [updates : Nat, crashes : Nat] /\ tally'.crashes # 0
  BY DEF Inv, RiskTypeOK, UpdateType
<1>5. check' \in [Callers -> CheckType'] /\ update' \in [Updaters -> UpdateType]
  BY <1>2
<1>6. RiskTypeOK'
  BY <1>1, <1>3, <1>4, <1>5 DEF Inv, RiskTypeOK, UpdateType, CheckType
<1>7. Clocked'
  BY <1>1 DEF Inv, Clocked, ClockedCheck, NoCheck
<1>8. Stamped' /\ RateLimited'
  BY <1>4 DEF Stamped, RateLimited, Alone
<1>9. RefusedForCause'
  BY <1>1 DEF RefusedForCause, NoCheck
<1>10. Saving'
  BY <1>3 DEF Saving, NoUpdate
<1> QED BY <1>6, <1>7, <1>8, <1>9, <1>10 DEF Inv

LEMMA TickKeeps == ASSUME Inv, Tick PROVE Inv'
<1> USE DEF Tick
<1>1. Orders' = Orders /\ \A c \in Callers : Recent(c)' = Recent(c)
  BY DEF Orders, Recent
<1>2. clock \in Nat /\ clock' = clock + 1 /\ \A i \in Orders : passed[i].at \in Nat
  BY OrderSets DEF Inv, RiskTypeOK
<1>3. RiskTypeOK'
  BY <1>1, <1>2 DEF Inv, RiskTypeOK
<1>4. Clocked'
  <2>1. \A i \in Orders : passed[i].at <= clock'
    BY <1>2 DEF Inv, Clocked, ClockedCheck
  <2>2. \A c \in Callers : check[c].pc # "idle" => check[c].now <= clock' /\ clock' <= check[c].now + 1
    BY <1>2
  <2> QED BY <1>1, <2>1, <2>2 DEF Inv, Clocked, ClockedCheck, Within
<1>5. Within(Orders, clock') \subseteq Within(Orders, clock)
  BY <1>2, Numbers DEF Within
<1>6. Stamped'
  BY <1>1, <1>5 DEF Inv, Stamped, StampedCheck, Alone, Within
<1>7. RateLimited' /\ RefusedForCause'
  BY <1>1 DEF Inv, RateLimited, RefusedForCause
<1>8. Saving'
  BY DEF Inv, Saving, Loaded
<1> QED BY <1>3, <1>4, <1>6, <1>7, <1>8 DEF Inv

-----------------------------------------------------------------------------
(* The one thread of a case that trades alone. *)
LEMMA OneCaller ==
  ASSUME limits \in RiskCases, Cardinality(limits.callers) = 1, NEW c \in limits.callers, NEW d \in limits.callers
  PROVE  c = d
<1>1. limits.callers \subseteq Callers
  BY RiskCasesAssumption
<1>2. IsFiniteSet(limits.callers)
  BY <1>1, CallersAssumption, FS_Subset
<1> QED BY <1>2, FS_Singleton

(* A step of one check that stamps nothing: what remains is about that check. *)
LEMMA CheckKeeps ==
  ASSUME Inv, NEW c \in Callers, NEW k \in CheckType, check' = [check EXCEPT ![c] = k],
         UNCHANGED <<limits, clock, rate, saved, stamps, passed, update, tally>>,
         ClockedCheck(c)', Alone /\ c \in limits.callers => StampedCheck(c)', Caused(c)'
  PROVE  Inv'
<1>1. Orders' = Orders
  BY DEF Orders
<1>2. check \in [Callers -> CheckType]
  BY DEF Inv, RiskTypeOK, CheckType
<1>3. \A d \in Callers : d # c => check'[d] = check[d] /\ Recent(d)' = Recent(d)
  BY <1>1, <1>2 DEF Recent
<1>4. RiskTypeOK'
  <2>1. check' \in [Callers -> CheckType]
    BY <1>2
  <2> QED BY <1>1, <2>1 DEF Inv, RiskTypeOK, UpdateType, CheckType
<1>5. Clocked'
  <2>1. \A d \in Callers : d # c => ClockedCheck(d)'
    BY <1>1, <1>3 DEF Inv, Clocked, ClockedCheck, Within
  <2> QED BY <1>1, <2>1 DEF Inv, Clocked
<1>6. Stamped'
  <2>1. \A d \in limits.callers : d # c /\ d \in Callers /\ StampedCheck(d) => StampedCheck(d)'
    BY <1>1, <1>3 DEF StampedCheck, Within
  <2>2. limits.callers \subseteq Callers
    BY RiskCasesAssumption DEF Inv, RiskTypeOK
  <2> QED BY <2>1, <2>2 DEF Inv, Stamped, Alone
<1>7. RateLimited'
  BY <1>1 DEF Inv, RateLimited
<1>8. RefusedForCause'
  <2>1. \A d \in Callers : d # c => Caused(d)'
    BY <1>3 DEF Inv, RefusedForCause, Caused
  <2> QED BY <2>1 DEF RefusedForCause, Caused
<1>9. Saving'
  BY DEF Inv, Saving, Loaded
<1> QED BY <1>4, <1>5, <1>6, <1>7, <1>8, <1>9 DEF Inv

(* The stamps of the last minute are the orders that passed in it. *)
LEMMA RebuildKeeps == ASSUME Inv, NEW c \in Callers, Rebuild(c) PROVE Inv'
<1> DEFINE k == [NoCheck EXCEPT !.pc = "bind", !.now = clock, !.kept = Within(stamps, clock)]
<1>1. /\ check \in [Callers -> CheckType] /\ clock \in Nat /\ stamps \subseteq Orders /\ check[c].pc = "idle"
      /\ c \in limits.callers
  BY DEF Inv, RiskTypeOK, CheckType, Rebuild
<1>2. k \in CheckType
  BY <1>1 DEF NoCheck, CheckType, Within
<1>3. check' = [check EXCEPT ![c] = k] /\ UNCHANGED <<limits, clock, rate, saved, stamps, passed, update, tally>>
  BY DEF Rebuild
<1>4. /\ check'[c].pc = "bind" /\ check'[c].now = clock /\ check'[c].kept = Within(stamps, clock)
      /\ check'[c].answer = "none" /\ Orders' = Orders
  BY <1>1, <1>3 DEF NoCheck, Orders
<1>5. ClockedCheck(c)'
  BY <1>1, <1>3, <1>4 DEF ClockedCheck, Within
<1>6. Alone => StampedCheck(c)'
  <2>1. Alone => Within(Orders, clock) \subseteq stamps
    BY <1>1 DEF Inv, Stamped, StampedCheck
  <2> QED BY <1>3, <1>4, <2>1 DEF StampedCheck, Within
<1>7. Caused(c)'
  BY <1>4 DEF Caused
<1> HIDE DEF k
<1> QED BY <1>2, <1>3, <1>5, <1>6, <1>7, CheckKeeps

(* A refusal by the rate counted stamps that are recent; the others pass or
   refuse on what the check has tested. *)
LEMMA TestKeeps ==
  ASSUME Inv, NEW c \in Callers, RateRefuses(c) \/ OtherwiseRefuses(c) \/ Passes(c)
  PROVE  Inv'
<1>1. /\ check \in [Callers -> CheckType] /\ rate \in Rates /\ rate \in Nat /\ stamps \subseteq Orders /\ check[c].pc = "test"
      /\ UNCHANGED <<limits, clock, rate, saved, stamps, passed, update, tally>> /\ Orders' = Orders
  BY Numbers DEF Inv, RiskTypeOK, CheckType, RateRefuses, OtherwiseRefuses, Passes, Orders
<1>2. ClockedCheck(c) /\ (Alone /\ c \in limits.callers => StampedCheck(c))
  BY DEF Inv, Clocked, Stamped
<1>3. IsFiniteSet(Recent(c)) /\ Cardinality(stamps) \in Nat
  BY <1>1, OrderSets DEF Inv, Recent
<1>4. Alone /\ c \in limits.callers => Within(Orders, clock) \subseteq stamps
  <2>1. check[c].now \in Nat /\ clock \in Nat /\ check[c].now <= clock
    BY <1>1, <1>2 DEF ClockedCheck, CheckType, Inv, RiskTypeOK
  <2>2. \A j \in Orders : passed[j].at \in Nat
    BY OrderSets DEF Inv
  <2>3. Within(Orders, clock) \subseteq Within(Orders, check[c].now)
    BY <2>1, <2>2, Numbers DEF Within
  <2> QED BY <1>1, <1>2, <2>3 DEF StampedCheck
<1>5. CASE RateRefuses(c)
  <2> DEFINE k == [check[c] EXCEPT !.pc = "idle", !.kept = {}, !.limit = rate, !.answer = "rate"]
  <2>1. k \in CheckType
    BY <1>1 DEF CheckType
  <2>2. check' = [check EXCEPT ![c] = k]
    BY <1>5 DEF RateRefuses
  <2>3. check'[c].pc = "idle" /\ check'[c].limit = rate /\ check'[c].now = check[c].now
    BY <1>1, <2>2 DEF CheckType
  <2>4. Recent(c)' = Recent(c)
    BY <1>1, <2>3 DEF Recent
  <2>5. stamps \subseteq Recent(c)
    BY <1>1, <1>2 DEF ClockedCheck
  <2>6. Cardinality(Recent(c)) >= rate
    <3>1. Cardinality(stamps) >= rate
      BY <1>1, <1>3, <1>5 DEF RateRefuses, HasRoom
    <3>2. Cardinality(stamps) <= Cardinality(Recent(c)) /\ Cardinality(Recent(c)) \in Nat
      BY <1>3, <2>5, Counted
    <3> QED BY <1>1, <1>3, <3>1, <3>2
  <2>7. Caused(c)'
    BY <2>3, <2>4, <2>6 DEF Caused
  <2>8. ClockedCheck(c)' /\ (Alone /\ c \in limits.callers => StampedCheck(c)')
    BY <1>1, <1>4, <2>3 DEF ClockedCheck, StampedCheck, Within
  <2> HIDE DEF k
  <2> QED BY <1>1, <2>1, <2>2, <2>7, <2>8, CheckKeeps
<1>6. CASE OtherwiseRefuses(c)
  <2>1. NoCheck \in CheckType
    BY DEF NoCheck, CheckType
  <2>2. check' = [check EXCEPT ![c] = NoCheck]
    BY <1>6 DEF OtherwiseRefuses
  <2>3. check'[c].pc = "idle" /\ check'[c].answer = "none"
    BY <1>1, <2>2 DEF NoCheck
  <2>4. ClockedCheck(c)' /\ Caused(c)' /\ (Alone /\ c \in limits.callers => StampedCheck(c)')
    BY <1>1, <1>4, <2>3 DEF ClockedCheck, StampedCheck, Within, Caused
  <2> QED BY <1>1, <2>1, <2>2, <2>4, CheckKeeps
<1>7. CASE Passes(c)
  <2> DEFINE k == [check[c] EXCEPT !.pc = "stamp", !.limit = rate]
  <2>1. k \in CheckType
    BY <1>1 DEF CheckType
  <2>2. check' = [check EXCEPT ![c] = k]
    BY <1>1, <1>7 DEF Passes, CheckType
  <2>3. /\ check'[c].pc = "stamp" /\ check'[c].limit = rate /\ check'[c].now = check[c].now
        /\ check'[c].answer = check[c].answer
    BY <1>1, <2>2 DEF CheckType
  <2>4. Cardinality(stamps) < rate
    BY <1>7 DEF Passes, HasRoom
  <2>5. ClockedCheck(c)' /\ (Alone /\ c \in limits.callers => StampedCheck(c)')
    BY <1>1, <1>2, <2>3, <2>4 DEF ClockedCheck, StampedCheck, Within
  <2>6. Caused(c)'
    BY <1>1, <1>2, <2>3 DEF Caused, ClockedCheck
  <2> HIDE DEF k
  <2> QED BY <1>1, <2>1, <2>2, <2>5, <2>6, CheckKeeps
<1> QED BY <1>5, <1>6, <1>7

(* Another thread's list is at most a tick older than the check. *)
LEMMA BindKeeps == ASSUME Inv, NEW c \in Callers, Rebind(c) PROVE Inv'
<1> DEFINE k == check[c].kept
<1>1. /\ check \in [Callers -> CheckType] /\ clock \in Nat /\ check[c].pc = "bind" /\ check[c].kept \subseteq Orders
      /\ UNCHANGED <<limits, clock, rate, saved, passed, update, tally>> /\ Orders' = Orders
      /\ stamps' = check[c].kept /\ check' = [check EXCEPT ![c].pc = "test"]
  BY DEF Inv, RiskTypeOK, CheckType, Rebind, Orders
<1>2. /\ check'[c].pc = "test" /\ check'[c].now = check[c].now /\ check'[c].answer = check[c].answer
      /\ check' \in [Callers -> CheckType] /\ \A d \in Callers : d # c => check'[d] = check[d]
  <2>1. check'[c] \in CheckType
    BY <1>1 DEF CheckType
  <2> QED BY <1>1, <2>1 DEF CheckType
<1>3. ClockedCheck(c) /\ (\A d \in Callers : ClockedCheck(d)) /\ \A d \in Callers : check[d].now \in Nat
  BY <1>1 DEF Inv, Clocked, CheckType
<1>4. \A j \in Orders : passed[j].at \in Nat
  BY OrderSets DEF Inv
<1>5. \A d \in Callers : check[d].pc # "idle" => check[c].kept \subseteq Recent(d)
  <2> SUFFICES ASSUME NEW d \in Callers, check[d].pc # "idle", NEW j \in check[c].kept
               PROVE  j \in Orders /\ check[d].now - passed[j].at <= Minute
    BY DEF Recent
  <2>1. j \in Orders /\ check[c].now - passed[j].at < Minute
    BY <1>1, <1>3 DEF ClockedCheck, Within
  <2>2. check[d].now <= clock /\ clock <= check[c].now + 1
    BY <1>1, <1>3 DEF ClockedCheck
  <2> QED BY <1>1, <1>3, <1>4, <2>1, <2>2, Numbers
<1>6. RiskTypeOK'
  BY <1>1, <1>2 DEF Inv, RiskTypeOK, UpdateType, CheckType
<1>7. \A d \in Callers : Recent(d)' = Recent(d)
  BY <1>1, <1>2 DEF Recent
<1>8. Clocked'
  <2>1. \A d \in Callers : d # c => ClockedCheck(d)'
    BY <1>1, <1>2, <1>3, <1>5, <1>7 DEF ClockedCheck, Within
  <2>2. ClockedCheck(c)'
    BY <1>1, <1>2, <1>3, <1>5, <1>7 DEF ClockedCheck
  <2> QED BY <1>1, <2>1, <2>2 DEF Inv, Clocked
<1>9. Stamped'
  <2> SUFFICES ASSUME Alone, NEW d \in limits.callers PROVE StampedCheck(d)'
    BY <1>1 DEF Stamped, Alone
  <2>1. c \in limits.callers /\ StampedCheck(c)
    BY <1>1, <1>3 DEF Inv, Stamped, ClockedCheck
  <2>2. c = d
    BY <2>1, OneCaller DEF Inv, RiskTypeOK, Alone
  <2> QED BY <1>1, <1>2, <2>1, <2>2 DEF StampedCheck, Within
<1>10. RateLimited'
  BY <1>1 DEF Inv, RateLimited
<1>11. RefusedForCause'
  <2>1. \A d \in Callers : d # c => Caused(d)'
    BY <1>2, <1>7 DEF Inv, RefusedForCause, Caused
  <2>2. Caused(c)'
    BY <1>1, <1>2, <1>3 DEF ClockedCheck, Caused
  <2> QED BY <2>1, <2>2 DEF RefusedForCause, Caused
<1>12. Saving'
  BY <1>1 DEF Inv, Saving, Loaded
<1> QED BY <1>6, <1>8, <1>9, <1>10, <1>11, <1>12 DEF Inv

(* An order that passes is one more in the minute of its thread. *)
LEMMA StampKeeps == ASSUME Inv, NEW c \in Callers, Stamp(c) PROVE Inv'
<1> DEFINE n == Len(passed) + 1
           e == [at |-> check[c].now, limit |-> check[c].limit]
<1>1. /\ check \in [Callers -> CheckType] /\ clock \in Nat /\ check[c].pc = "stamp" /\ stamps \subseteq Orders
      /\ UNCHANGED <<limits, clock, rate, saved, update, tally>>
      /\ stamps' = stamps \cup {n} /\ passed' = Append(passed, e) /\ check' = [check EXCEPT ![c] = NoCheck]
  BY DEF Inv, RiskTypeOK, CheckType, Stamp
<1>2. ClockedCheck(c) /\ (\A d \in Callers : ClockedCheck(d)) /\ \A d \in Callers : check[d].now \in Nat
  BY <1>1 DEF Inv, Clocked, CheckType
<1>3. e \in RecType
  BY <1>1, <1>2 DEF ClockedCheck, RecType
<1>4. /\ Orders' = Orders \cup {n} /\ n \notin Orders /\ passed' \in Seq(RecType)
      /\ (\A j \in Orders : passed'[j] = passed[j]) /\ passed'[n] = e /\ Len(passed) \in Nat /\ Orders = 1 .. Len(passed)
  BY <1>1, <1>3, Grows, OrderSets DEF Inv
<1>5. /\ \A j \in Orders : passed[j].at \in Nat /\ passed[j].at <= clock
      /\ passed'[n].at = check[c].now /\ passed'[n].limit = check[c].limit
  BY <1>4, OrderSets DEF Inv, Clocked
<1>6. check'[c] = NoCheck /\ \A d \in Callers : d # c => check'[d] = check[d]
  BY <1>1
<1> HIDE DEF n, e
<1>7. RiskTypeOK'
  <2>1. CheckType \subseteq CheckType' /\ NoCheck \in CheckType'
    BY <1>4 DEF CheckType, NoCheck
  <2>2. check' \in [Callers -> CheckType']
    BY <1>1, <2>1
  <2> QED BY <1>1, <1>4, <2>2 DEF Inv, RiskTypeOK, UpdateType, CheckType, RecType
<1>8. \A d \in Callers :
         d # c => Recent(d) \subseteq Recent(d)' /\ (check[d].pc # "idle" => n \in Recent(d)')
  <2> SUFFICES ASSUME NEW d \in Callers, d # c
               PROVE  Recent(d) \subseteq Recent(d)' /\ (check[d].pc # "idle" => n \in Recent(d)')
    OBVIOUS
  <2>1. Recent(d) \subseteq Recent(d)'
    BY <1>4, <1>6 DEF Recent
  <2>2. check[d].pc # "idle" => check[d].now <= clock /\ clock <= check[c].now + 1
    BY <1>1, <1>2 DEF ClockedCheck
  <2>3. check[d].pc # "idle" => check[d].now - passed'[n].at <= Minute
    BY <1>1, <1>2, <1>5, <2>2, Numbers
  <2> QED BY <1>4, <1>6, <2>1, <2>3 DEF Recent
<1>9. Clocked'
  <2>1. \A j \in Orders' : passed'[j].at <= clock'
    BY <1>1, <1>2, <1>4, <1>5 DEF ClockedCheck
  <2>2. ClockedCheck(c)'
    BY <1>6 DEF ClockedCheck, NoCheck
  <2>3. ASSUME NEW d \in Callers, d # c PROVE ClockedCheck(d)'
    <3>1. check'[d] = check[d] /\ ClockedCheck(d)
      BY <1>2, <1>6, <2>3
    <3>2. check[d].pc = "bind" => check[d].kept \subseteq Within(Orders, check[d].now)'
      BY <1>4, <3>1 DEF ClockedCheck, Within
    <3>3. check[d].pc = "test" => stamps' \subseteq Recent(d)'
      <4>1. check[d].pc = "test" => stamps \subseteq Recent(d)
        BY <3>1 DEF ClockedCheck
      <4>2. check[d].pc = "test" => Recent(d) \subseteq Recent(d)' /\ n \in Recent(d)'
        BY <1>8, <2>3
      <4> QED BY <1>1, <4>1, <4>2
    <3> QED BY <1>1, <3>1, <3>2, <3>3 DEF ClockedCheck
  <2> QED BY <2>1, <2>2, <2>3 DEF Clocked
<1>10. Alone => /\ limits.callers = {c} /\ Within(Orders, check[c].now) \subseteq stamps
                /\ Cardinality(stamps) < check[c].limit
  <2> SUFFICES ASSUME Alone
               PROVE  /\ limits.callers = {c} /\ Within(Orders, check[c].now) \subseteq stamps
                      /\ Cardinality(stamps) < check[c].limit
    OBVIOUS
  <2>1. c \in limits.callers
    BY <1>1, <1>2 DEF ClockedCheck
  <2>2. \A d \in limits.callers : d = c
    BY <2>1, OneCaller DEF Inv, RiskTypeOK, Alone
  <2>3. StampedCheck(c)
    BY <2>1 DEF Inv, Stamped
  <2> QED BY <1>1, <2>1, <2>2, <2>3 DEF StampedCheck
<1>11. Stamped'
  <2> SUFFICES ASSUME Alone PROVE StampedCheck(c)'
    BY <1>1, <1>10 DEF Stamped, Alone
  <2>1. ASSUME NEW j \in Orders, clock - passed[j].at < Minute PROVE j \in stamps
    <3>1. check[c].now - passed[j].at < Minute
      BY <1>1, <1>2, <1>5, <2>1, Numbers DEF ClockedCheck
    <3> QED BY <1>10, <3>1 DEF Within
  <2>2. Within(Orders, clock)' \subseteq stamps'
    BY <1>1, <1>4, <2>1 DEF Within
  <2> QED BY <1>6, <2>2 DEF StampedCheck, NoCheck
<1>12. RateLimited'
  <2> SUFFICES ASSUME Alone, NEW i \in Orders'
               PROVE  Cardinality({j \in 1 .. i : passed'[i].at - passed'[j].at < Minute}) <= passed'[i].limit
    BY <1>1 DEF RateLimited, Alone
  <2>1. CASE i \in Orders
    <3>1. \A j \in 1 .. i : j \in Orders
      BY <1>4, <2>1
    <3>2. {j \in 1 .. i : passed'[i].at - passed'[j].at < Minute} = {j \in 1 .. i : passed[i].at - passed[j].at < Minute}
      BY <1>4, <2>1, <3>1
    <3>3. Cardinality({j \in 1 .. i : passed[i].at - passed[j].at < Minute}) <= passed[i].limit
      BY <2>1 DEF Inv, RateLimited, Alone
    <3> QED BY <1>4, <2>1, <3>2, <3>3
  <2>2. CASE i = n
    <3>1. 1 .. i = Orders \cup {n}
      BY <1>4, <2>2 DEF n
    <3> DEFINE S == {j \in 1 .. i : passed'[i].at - passed'[j].at < Minute}
    <3>2. S \subseteq stamps \cup {n}
      BY <1>4, <1>5, <1>10, <2>2, <3>1 DEF Within
    <3>3. IsFiniteSet(stamps) /\ Cardinality(stamps) \in Nat
      BY <1>1, OrderSets DEF Inv
    <3> HIDE DEF S
    <3>4. IsFiniteSet(stamps \cup {n}) /\ Cardinality(stamps \cup {n}) <= Cardinality(stamps) + 1
      <4>1. /\ IsFiniteSet(stamps \cup {n})
            /\ Cardinality(stamps \cup {n}) = IF n \in stamps THEN Cardinality(stamps) ELSE Cardinality(stamps) + 1
        BY <3>3, FS_AddElement
      <4> QED BY <3>3, <4>1
    <3>5. Cardinality(S) \in Nat /\ Cardinality(stamps \cup {n}) \in Nat /\ Cardinality(S) <= Cardinality(stamps \cup {n})
      BY <3>2, <3>4, Counted
    <3>6. Cardinality(stamps) < check[c].limit /\ check[c].limit \in Nat
      BY <1>1, <1>10 DEF CheckType
    <3>7. Cardinality(S) <= check[c].limit
      BY <3>3, <3>4, <3>5, <3>6
    <3> QED BY <1>5, <2>2, <3>7 DEF S
  <2> QED BY <1>4, <2>1, <2>2
<1>13. RefusedForCause'
  <2>1. ASSUME NEW d \in Callers, d # c PROVE Caused(d)'
    <3>1. Recent(d)' \subseteq Orders'
      BY DEF Recent
    <3>2. IsFiniteSet(Orders')
      <4>1. IsFiniteSet(Orders)
        BY OrderSets DEF Inv
      <4> QED BY <1>4, <4>1, FS_AddElement
    <3>3. IsFiniteSet(Recent(d)')
      BY <3>1, <3>2, FS_Subset
    <3>4. Cardinality(Recent(d)) \in Nat /\ Cardinality(Recent(d)') \in Nat /\ Cardinality(Recent(d)) <= Cardinality(Recent(d)')
      <4> DEFINE old == Recent(d)
                 new == Recent(d)'
      <4>1. old \subseteq new
        BY <1>8, <2>1
      <4>2. IsFiniteSet(new)
        BY <3>3
      <4> HIDE DEF old, new
      <4>3. Cardinality(old) \in Nat /\ Cardinality(new) \in Nat /\ Cardinality(old) <= Cardinality(new)
        BY <4>1, <4>2, Counted
      <4> QED BY <4>3 DEF old, new
    <3>5. check'[d] = check[d] /\ check[d].limit \in Nat
      BY <1>1, <1>6, <2>1 DEF CheckType
    <3>6. check[d].answer = "rate" => Cardinality(Recent(d)) >= check[d].limit
      BY DEF Inv, RefusedForCause
    <3>7. check'[d].answer = "rate" => Cardinality(Recent(d)') >= check'[d].limit
      BY <3>4, <3>5, <3>6
    <3> QED BY <3>7 DEF Caused
  <2>2. Caused(c)'
    BY <1>6 DEF Caused, NoCheck
  <2> QED BY <2>1, <2>2 DEF RefusedForCause, Caused
<1>14. Saving'
  BY <1>1 DEF Inv, Saving, Loaded
<1> QED BY <1>7, <1>9, <1>11, <1>12, <1>13, <1>14 DEF Inv

LEMMA NextKeeps == ASSUME Inv, [RiskNext]_riskVars PROVE Inv'
<1>1. ASSUME NEW c \in Callers,
             Rebuild(c) \/ Rebind(c) \/ RateRefuses(c) \/ OtherwiseRefuses(c) \/ Passes(c) \/ Stamp(c)
      PROVE  Inv'
  BY <1>1, RebuildKeeps, BindKeeps, TestKeeps, StampKeeps
<1>2. ASSUME NEW u \in Updaters, Payload(u) \/ Open(u) \/ Write(u) \/ \E r \in Rates : Update(u, r)
      PROVE  Inv'
  BY <1>2, UpdateKeeps
<1>3. CASE RiskCrash \/ Tick
  BY <1>3, CrashKeeps, TickKeeps
<1>4. CASE UNCHANGED riskVars
  <2>1. UNCHANGED <<limits, clock, rate, saved, stamps, passed, check, update, tally>>
    BY <1>4 DEF riskVars
  <2>2. RiskTypeOK' /\ Saving'
    BY <2>1 DEF Inv, RiskTypeOK, UpdateType, Saving, Loaded, Orders
  <2> QED BY <2>1, <2>2, ChecksKeep DEF Inv
<1> QED BY <1>1, <1>2, <1>3, <1>4 DEF RiskNext

LEMMA Invariant == RiskSpec => []Inv
BY InitInv, NextKeeps, PTL DEF RiskSpec

(* The types, for every set of threads and every rate. *)
THEOREM RiskTypes == RiskSpec => []RiskTypeOK
BY Invariant, PTL DEF Inv

(* A thread that trades alone never passes more orders in a minute than the
   limit allowed, whatever updates come between. *)
THEOREM AloneIsLimited == RiskSpec => []RateLimited
BY Invariant, PTL DEF Inv

(* However many threads lose each other's stamps, the rate only refuses when
   that many orders passed within the minute and a tick. *)
THEOREM RefusalHasACause == RiskSpec => []RefusedForCause
BY Invariant, PTL DEF Inv

(* With one updater the limit in force is the one that a restart would load,
   through crashes inside the write. *)
THEOREM LimitIsDurable == RiskSpec => []LimitSurvives
<1>1. Inv => LimitSurvives
  BY CallersAssumption, FS_Singleton DEF Inv, Saving, LimitSurvives
<1> QED BY Invariant, <1>1, PTL
=============================================================================
