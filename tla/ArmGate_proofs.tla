--------------------------- MODULE ArmGate_proofs ---------------------------
(***************************************************************************)
(* Theorems about ArmGate: types for every set of actors; and, for an      *)
(* operator who sends one request at a time, that a disarm which returned  *)
(* survives any number of crashes, wherever they cut the file.             *)
(***************************************************************************)
EXTENDS ArmGate, TLAPS

USE DEF memory, Goto

Labels == {"idle", "begin", "arming", "persist", "open", "write", "gate",
           "sent", "close", "refused", "cancel", "disarm"}

(* What a process reads back from the file is a state of the gate. *)
LEMMA RestoredType ==
  ASSUME NEW d \in States \cup {TornState}
  PROVE  Restored(d) \in States
<1>1. CASE d = TornState
  BY <1>1 DEF Restored, Fresh, States
<1>2. CASE d # TornState
  <2>1. d.mode \in {"paper", "live"} /\ (d.armed /\ d.mode = "live") \in BOOLEAN
    BY <1>2 DEF States
  <2> DEFINE believed == d.armed /\ d.mode = "live"
  <2>2. Restored(d) = [mode |-> d.mode, armed |-> believed]
    BY <1>2 DEF Restored
  <2> HIDE DEF believed
  <2> QED BY <2>1, <2>2 DEF believed, States
<1> QED BY <1>1, <1>2

LEMMA InitType == GateInit => GateTypeOK
BY RestoredType, BoundsAssumption DEF GateInit, GateTypeOK, States, Fresh, AllOps

LEMMA NextType == GateTypeOK /\ [GateNext]_gateVars => GateTypeOK'
<1> SUFFICES ASSUME GateTypeOK, [GateNext]_gateVars PROVE GateTypeOK'
  OBVIOUS
<1>1. ASSUME NEW r \in Handlers, Request(r)
      PROVE  GateTypeOK'
  <2>1. PICK o \in Ops : op' = [op EXCEPT ![r] = o] /\ safe' = (safe /\ o # "arm")
    BY <1>1 DEF Request
  <2>2. safe' \in BOOLEAN
    BY <2>1
  <2>3. op' \in [Handlers -> AllOps]
    BY <2>1, BoundsAssumption DEF GateTypeOK
  <2>4. /\ pc' = [pc EXCEPT ![r] = "begin"] /\ ops' = ops + 1
        /\ UNCHANGED <<mode, armed, disk, payload, restarts>>
    BY <1>1 DEF Request
  <2>5. /\ mode' \in {"paper", "live"} /\ armed' \in BOOLEAN
        /\ disk' \in States \cup {TornState} /\ payload' \in [Handlers -> States]
        /\ ops' \in Nat /\ restarts' \in Nat
    BY <2>4 DEF GateTypeOK
  <2>6. pc' \in [Actors -> Labels]
    BY <2>4 DEF GateTypeOK, Labels
  <2> QED BY <2>2, <2>3, <2>5, <2>6 DEF GateTypeOK, Labels
<1>2. ASSUME NEW r \in Handlers,
             \/ SetMode(r) \/ ArmTest(r) \/ ArmSet(r) \/ Disarm(r)
             \/ Snapshot(r) \/ Truncate(r) \/ WriteState(r)
      PROVE  GateTypeOK'
  <2>1. CASE SetMode(r)
    <3>1. armed' \in BOOLEAN
      BY <2>1 DEF SetMode
    <3>2. mode' \in {"paper", "live"}
      BY <2>1 DEF SetMode
    <3> QED BY <1>2, <2>1, <3>1, <3>2 DEF GateTypeOK, SetMode
  <2>2. CASE ArmTest(r) \/ ArmSet(r) \/ Disarm(r)
    BY <1>2, <2>2 DEF GateTypeOK, ArmTest, ArmSet, Disarm
  <2>3. CASE Snapshot(r)
    BY <1>2, <2>3 DEF GateTypeOK, Snapshot, States
  <2>4. CASE Truncate(r)
    BY <1>2, <2>4 DEF GateTypeOK, Truncate
  <2>5. CASE WriteState(r)
    <3>1. safe' \in BOOLEAN
      BY <2>5 DEF WriteState
    <3> QED BY <1>2, <2>5, <3>1 DEF GateTypeOK, WriteState
  <2> QED BY <1>2, <2>1, <2>2, <2>3, <2>4, <2>5
<1>3. ASSUME NEW t \in LiveOrders,
             PickKite(t) \/ GatePasses(t) \/ GateRaises(t) \/ OrderReturns(t)
      PROVE  GateTypeOK'
  BY <1>3 DEF GateTypeOK, PickKite, GatePasses, GateRaises, OrderReturns
<1>4. ASSUME NEW r \in Handlers,
             PanicCloses(r) \/ PanicCollects(r) \/ PanicCancels(r) \/ PanicRaises(r)
      PROVE  GateTypeOK'
  BY <1>4 DEF GateTypeOK, PanicCloses, PanicCollects, PanicCancels, PanicRaises
<1>5. CASE Restart
  <2>1. Restored(disk) \in States
    BY RestoredType DEF GateTypeOK
  <2> QED BY <1>5, <2>1 DEF GateTypeOK, Restart, States
<1>6. CASE UNCHANGED gateVars
  BY <1>6 DEF GateTypeOK, gateVars
<1> QED BY <1>1, <1>2, <1>3, <1>4, <1>5, <1>6 DEF GateNext

(* Types of the ARM gate, its file and its callers, for every set of actors. *)
THEOREM TypeCorrect == GateSpec => []GateTypeOK
BY InitType, NextType, PTL DEF GateSpec

-----------------------------------------------------------------------------
(* One request at a time. *)
OneOperator == \A q, r \in Handlers : q = r

Disarming == {"paper", "disarm", "panic"}

(* A request that disarms has disarmed memory before it reads it back and
   the payload before it writes it; while safe, no arm is under way. *)
RequestInv(r) ==
    /\ op[r] \in Disarming /\ pc[r] \in {"persist", "open", "write"} => ~armed
    /\ op[r] \in Disarming /\ pc[r] \in {"open", "write"} => ~payload[r].armed
    /\ pc[r] = "arming" => op[r] = "arm"
    /\ safe /\ pc[r] # "idle" => op[r] # "arm"
    /\ safe /\ pc[r] \in {"open", "write"} => ~payload[r].armed

DurableInv == DisarmIsDurable /\ \A r \in Handlers : RequestInv(r)

LEMMA InitDurable == GateInit => DurableInv
<1> SUFFICES ASSUME GateInit PROVE DurableInv
  OBVIOUS
<1>1. Restored(disk).armed = armed /\ safe = ~armed /\ armed \in BOOLEAN
  BY RestoredType DEF GateInit, States
<1>2. DisarmIsDurable
  BY <1>1 DEF DisarmIsDurable
<1>3. ASSUME NEW r \in Handlers PROVE pc[r] = "idle"
  BY DEF GateInit, Actors
<1> QED BY <1>2, <1>3 DEF DurableInv, RequestInv

LEMMA NextDurable == GateTypeOK /\ OneOperator /\ DurableInv /\ [GateNext]_gateVars => DurableInv'
<1> SUFFICES ASSUME GateTypeOK, OneOperator, DurableInv, [GateNext]_gateVars PROVE DurableInv'
  OBVIOUS
<1> USE DEF DurableInv, DisarmIsDurable, RequestInv, Disarming
<1>1. ASSUME NEW r \in Handlers, Request(r) PROVE DurableInv'
  BY <1>1 DEF Request, GateTypeOK, OneOperator
<1>2. ASSUME NEW r \in Handlers, SetMode(r) PROVE DurableInv'
  BY <1>2 DEF SetMode, GateTypeOK, OneOperator
<1>3. ASSUME NEW r \in Handlers, ArmTest(r) PROVE DurableInv'
  BY <1>3 DEF ArmTest, GateTypeOK, OneOperator
<1>4. ASSUME NEW r \in Handlers, ArmSet(r) PROVE DurableInv'
  BY <1>4 DEF ArmSet, GateTypeOK, OneOperator
<1>5. ASSUME NEW w \in Handlers, Disarm(w) PROVE DurableInv'
  BY <1>5 DEF Disarm, GateTypeOK, OneOperator
<1>6. ASSUME NEW w \in Handlers, Snapshot(w) PROVE DurableInv'
  BY <1>6 DEF Snapshot, GateTypeOK, OneOperator
<1>7. ASSUME NEW w \in Handlers, Truncate(w) PROVE DurableInv'
  BY <1>7 DEF Truncate, GateTypeOK, OneOperator, Restored, Fresh
<1>8. ASSUME NEW w \in Handlers, WriteState(w) PROVE DurableInv'
  <2>1. w \in Handlers /\ payload[w] \in States /\ payload[w] # TornState
    BY <1>8 DEF GateTypeOK, OneOperator, States, TornState
  <2>2. Restored(payload[w]).armed => payload[w].armed
    BY <2>1 DEF Restored
  <2>3. ~safe' \/ (~armed /\ ~payload[w].armed)
    BY <1>8, <2>1 DEF WriteState
  <2>4. DisarmIsDurable'
    BY <1>8, <2>2, <2>3 DEF WriteState
  <2>5. ASSUME NEW r \in Handlers PROVE RequestInv(r)'
    BY <1>8, <2>1, <2>5 DEF WriteState, GateTypeOK, OneOperator
  <2> QED BY <2>4, <2>5
<1>9. ASSUME NEW t \in LiveOrders,
             PickKite(t) \/ GatePasses(t) \/ GateRaises(t) \/ OrderReturns(t)
      PROVE  DurableInv'
  <2>1. \A r \in Handlers : r # t
    BY ActorsAssumption
  <2> QED BY <1>9, <2>1 DEF GateTypeOK, PickKite, GatePasses, GateRaises, OrderReturns, Actors
<1>10. ASSUME NEW r \in Handlers,
              PanicCloses(r) \/ PanicCollects(r) \/ PanicCancels(r) \/ PanicRaises(r)
       PROVE  DurableInv'
  BY <1>10 DEF PanicCloses, PanicCollects, PanicCancels, PanicRaises, GateTypeOK, OneOperator
<1>11. CASE Restart
  BY <1>11 DEF Restart, Actors
<1>12. CASE UNCHANGED gateVars
  BY <1>12 DEF gateVars
<1> QED BY <1>1, <1>2, <1>3, <1>4, <1>5, <1>6, <1>7, <1>8, <1>9, <1>10, <1>11, <1>12
        DEF GateNext

(* With one operator, a disarm that returned holds until the next arm request:
   in memory, in the file and in every process restarted from it. *)
THEOREM DisarmSurvives ==
  ASSUME OneOperator
  PROVE  GateSpec => []DisarmIsDurable
<1> DEFINE IInv == GateTypeOK /\ DurableInv
<1>1. GateInit => IInv
  BY InitType, InitDurable
<1>2. IInv /\ [GateNext]_gateVars => IInv'
  BY NextType, NextDurable
<1>3. IInv => DisarmIsDurable
  BY DEF DurableInv
<1> QED BY <1>1, <1>2, <1>3, PTL DEF GateSpec

(* With one operator, no order gets through the gate after a disarm returned,
   unless the desk has since gone to paper. *)
THEOREM DisarmStops ==
  ASSUME OneOperator
  PROVE  GateSpec => DisarmStopsOrders
<1> DEFINE IInv == GateTypeOK /\ DurableInv
           Quiet == \A t \in LiveOrders : GatePasses(t) /\ safe => mode = "paper"
<1>1. GateInit => IInv
  BY InitType, InitDurable
<1>2. IInv /\ [GateNext]_gateVars => IInv'
  BY NextType, NextDurable
<1>3. IInv /\ [GateNext]_gateVars => [Quiet]_gateVars
  BY DEF DurableInv, DisarmIsDurable, GateTypeOK, GatePasses, GateOpen
<1>4. GateSpec => [][Quiet]_gateVars
  BY <1>1, <1>2, <1>3, PTL DEF GateSpec
<1> QED BY <1>4 DEF DisarmStopsOrders

-----------------------------------------------------------------------------
(* A paper desk is disarmed, and stays live while an arm is between its test
   and its assignment. *)
PaperDisarmed ==
    /\ armed => mode = "live"
    /\ \A r \in Handlers : pc[r] = "arming" => mode = "live"

LEMMA NextPaperDisarmed ==
  GateTypeOK /\ OneOperator /\ PaperDisarmed /\ [GateNext]_gateVars => PaperDisarmed'
<1> SUFFICES ASSUME GateTypeOK, OneOperator, PaperDisarmed, [GateNext]_gateVars
             PROVE  PaperDisarmed'
  OBVIOUS
<1> USE DEF PaperDisarmed
<1>1. ASSUME NEW r \in Handlers,
             Request(r) \/ ArmTest(r) \/ ArmSet(r) \/ Disarm(r)
      PROVE  PaperDisarmed'
  BY <1>1 DEF Request, ArmTest, ArmSet, Disarm, GateTypeOK, OneOperator
<1>2. ASSUME NEW r \in Handlers, SetMode(r)
      PROVE  PaperDisarmed'
  <2>1. armed' => mode' = "live"
    BY <1>2 DEF SetMode, GateTypeOK
  <2> QED BY <1>2, <2>1 DEF SetMode, GateTypeOK, OneOperator
<1>3. ASSUME NEW r \in Handlers,
             PanicCloses(r) \/ PanicCollects(r) \/ PanicCancels(r) \/ PanicRaises(r)
      PROVE  PaperDisarmed'
  BY <1>3 DEF PanicCloses, PanicCollects, PanicCancels, PanicRaises, GateTypeOK, OneOperator
<1>4. ASSUME NEW r \in Handlers, Snapshot(r) \/ Truncate(r) \/ WriteState(r)
      PROVE  PaperDisarmed'
  BY <1>4 DEF Snapshot, Truncate, WriteState, GateTypeOK, OneOperator
<1>5. ASSUME NEW t \in LiveOrders,
             PickKite(t) \/ GatePasses(t) \/ GateRaises(t) \/ OrderReturns(t)
      PROVE  PaperDisarmed'
  <2>1. \A r \in Handlers : r # t
    BY ActorsAssumption
  <2> QED BY <1>5, <2>1 DEF PickKite, GatePasses, GateRaises, OrderReturns, GateTypeOK, Actors
<1>6. CASE Restart
  <2>1. Restored(disk).armed => Restored(disk).mode = "live"
    BY DEF Restored, Fresh, GateTypeOK, States
  <2> QED BY <1>6, <2>1 DEF Restart, Actors
<1>7. CASE UNCHANGED gateVars
  BY <1>7 DEF gateVars
<1> QED BY <1>1, <1>2, <1>3, <1>4, <1>5, <1>6, <1>7 DEF GateNext

(* With one operator, a desk switched from paper to live is not armed. *)
THEOREM LiveIsDisarmed ==
  ASSUME OneOperator
  PROVE  GateSpec => LiveStartsDisarmed
<1> DEFINE IInv == GateTypeOK /\ PaperDisarmed
           Quiet == \A r \in Handlers :
                      SetMode(r) /\ mode = "paper" /\ mode' = "live" => ~armed'
<1>1. GateInit => IInv
  <2>1. GateInit => GateTypeOK
    BY InitType
  <2>2. GateInit => PaperDisarmed
    BY DEF GateInit, PaperDisarmed, Restored, Fresh, States, Actors
  <2> QED BY <2>1, <2>2
<1>2. IInv /\ [GateNext]_gateVars => IInv'
  BY NextType, NextPaperDisarmed
<1>3. IInv /\ [GateNext]_gateVars => [Quiet]_gateVars
  <2> SUFFICES ASSUME IInv, NEW r \in Handlers, SetMode(r), mode = "paper"
               PROVE  ~armed'
    OBVIOUS
  <2>1. ~armed
    BY DEF PaperDisarmed
  <2> QED BY <2>1 DEF SetMode
<1>4. GateSpec => [][Quiet]_gateVars
  BY <1>1, <1>2, <1>3, PTL DEF GateSpec
<1> QED BY <1>4 DEF LiveStartsDisarmed
=============================================================================
