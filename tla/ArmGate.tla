------------------------------- MODULE ArmGate -------------------------------
(***************************************************************************)
(* The ARM gate: execution/arming.py, its file, KiteBroker's first         *)
(* statement, the broker selectors of the callers, and execution/panic.py. *)
(*                                                                         *)
(* Handlers are API handler threads serving /live/mode, /live/arm,         *)
(* /live/disarm and /live/panic; LiveOrders are threads about to place one *)
(* live order.  The file is rewritten in place, so a crash can leave it    *)
(* torn.                                                                   *)
(***************************************************************************)
EXTENDS Naturals

CONSTANTS
    Handlers, LiveOrders,
    Ops,          \* which operator requests are made, subset of AllOps
    MaxOps,       \* bound on the number of requests
    MaxRestarts   \* bound on the number of crashes

AllOps == {"live", "paper", "arm", "disarm", "panic"}

ASSUME ActorsAssumption == Handlers \cap LiveOrders = {}
ASSUME BoundsAssumption == Ops \subseteq AllOps /\ MaxOps \in Nat /\ MaxRestarts \in Nat

VARIABLES
    mode, armed,  \* _STATE of execution/arming.py
    disk,         \* arm_state.json
    pc,
    op,           \* the request each handler serves
    payload,      \* what a handler is about to write to the file
    safe,         \* history: a disarm, paper or panic returned, no arm followed
    ops, restarts

gateVars == <<mode, armed, disk, pc, op, payload, safe, ops, restarts>>
memory == <<mode, armed>>

Actors == Handlers \cup LiveOrders
States == [mode : {"paper", "live"}, armed : BOOLEAN]
TornState == [torn |-> TRUE]
Fresh == [mode |-> "paper", armed |-> FALSE]

(* load_persisted_state on a new process: a torn file leaves the defaults,
   armed is believed only in live mode. *)
Restored(d) ==
    IF d = TornState THEN Fresh
    ELSE [mode |-> d.mode, armed |-> d.armed /\ d.mode = "live"]

(* The process has booted from whatever the file held. *)
GateInit ==
    /\ disk \in States \cup {TornState}
    /\ mode = Restored(disk).mode /\ armed = Restored(disk).armed
    /\ pc = [a \in Actors |-> "idle"]
    /\ op = [r \in Handlers |-> "disarm"]
    /\ payload = [r \in Handlers |-> Fresh]
    /\ safe = ~armed
    /\ ops = 0 /\ restarts = 0

Goto(a, label) == pc' = [pc EXCEPT ![a] = label]

-----------------------------------------------------------------------------
(* Operator requests. *)
Request(r) ==
    /\ pc[r] = "idle"
    /\ ops < MaxOps
    /\ \E o \in Ops : /\ op' = [op EXCEPT ![r] = o]
                      /\ safe' = (safe /\ o # "arm")
    /\ ops' = ops + 1
    /\ Goto(r, "begin")
    /\ UNCHANGED <<memory, disk, payload, restarts>>

(* Mutant of SetMode: paper leaves the desk armed. *)
SetModeKeepsArmed(r) ==
    /\ pc[r] = "begin" /\ op[r] \in {"live", "paper"}
    /\ mode' = op[r]
    /\ Goto(r, "persist")
    /\ UNCHANGED <<armed, disk, op, payload, safe, ops, restarts>>

(* set_mode: paper also disarms. *)
SetMode(r) ==
    /\ pc[r] = "begin" /\ op[r] \in {"live", "paper"}
    /\ mode' = op[r]
    /\ armed' = (armed /\ op[r] = "live")
    /\ Goto(r, "persist")
    /\ UNCHANGED <<disk, op, payload, safe, ops, restarts>>

(* arm: the mode is tested first ... *)
ArmTest(r) ==
    /\ pc[r] = "begin" /\ op[r] = "arm"
    /\ Goto(r, IF mode = "live" THEN "arming" ELSE "idle")
    /\ UNCHANGED <<memory, disk, op, payload, safe, ops, restarts>>

(* ... and armed set afterwards. *)
ArmSet(r) ==
    /\ pc[r] = "arming"
    /\ armed' = TRUE
    /\ Goto(r, "persist")
    /\ UNCHANGED <<mode, disk, op, payload, safe, ops, restarts>>

(* Mutant of Disarm: what is persisted is read before armed is cleared. *)
DisarmSnapshotsFirst(r) ==
    /\ \/ pc[r] = "begin" /\ op[r] = "disarm"
       \/ pc[r] = "disarm"
    /\ payload' = [payload EXCEPT ![r] = [mode |-> mode, armed |-> armed]]
    /\ armed' = FALSE
    /\ Goto(r, "open")
    /\ UNCHANGED <<mode, disk, op, safe, ops, restarts>>

(* disarm, of a request or of the end of run_panic. *)
Disarm(r) ==
    /\ \/ pc[r] = "begin" /\ op[r] = "disarm"
       \/ pc[r] = "disarm"
    /\ armed' = FALSE
    /\ Goto(r, "persist")
    /\ UNCHANGED <<mode, disk, op, payload, safe, ops, restarts>>

(* _persist_state: build the payload, open (and truncate) the file, write. *)
Snapshot(r) ==
    /\ pc[r] = "persist"
    /\ payload' = [payload EXCEPT ![r] = [mode |-> mode, armed |-> armed]]
    /\ Goto(r, "open")
    /\ UNCHANGED <<memory, disk, op, safe, ops, restarts>>

Truncate(r) ==
    /\ pc[r] = "open"
    /\ disk' = TornState
    /\ Goto(r, "write")
    /\ UNCHANGED <<memory, op, payload, safe, ops, restarts>>

(* The file is complete and the request returns. *)
WriteState(r) ==
    /\ pc[r] = "write"
    /\ disk' = payload[r]
    /\ safe' = (safe \/ op[r] \in {"paper", "disarm", "panic"})
    /\ Goto(r, "idle")
    /\ UNCHANGED <<memory, op, payload, ops, restarts>>

-----------------------------------------------------------------------------
(* A live order.  KiteBroker is chosen by mode alone (the runners' _broker(),
   get_desk_broker) or by mode and armed (_broker_for_activation). *)
PickKite(t) ==
    /\ pc[t] = "idle"
    /\ mode = "live"
    /\ Goto(t, "gate")
    /\ UNCHANGED <<memory, disk, op, payload, safe, ops, restarts>>

(* Mutant of GateOpen: the mode alone opens the gate. *)
GateModeOnly == mode \in {"live", "paper"}

(* require_armed_for_live in KiteBroker.place_order. *)
GateOpen == ~(mode = "live" /\ ~armed)

GatePasses(t) ==
    /\ pc[t] = "gate"
    /\ GateOpen
    /\ Goto(t, "sent")
    /\ UNCHANGED <<memory, disk, op, payload, safe, ops, restarts>>

GateRaises(t) ==
    /\ pc[t] = "gate"
    /\ ~GateOpen
    /\ Goto(t, "idle")
    /\ UNCHANGED <<memory, disk, op, payload, safe, ops, restarts>>

OrderReturns(t) ==
    /\ pc[t] = "sent"
    /\ Goto(t, "idle")
    /\ UNCHANGED <<memory, disk, op, payload, safe, ops, restarts>>

-----------------------------------------------------------------------------
(* run_panic, with one active live trade to square off. *)

(* _broker_for_close wants the desk armed; past it the gate is bypassed. *)
PanicCloses(r) ==
    /\ pc[r] = "begin" /\ op[r] = "panic"
    /\ Goto(r, IF armed THEN "cancel" ELSE "refused")
    /\ UNCHANGED <<memory, disk, op, payload, safe, ops, restarts>>

(* The refusal is collected in errors and the panic goes on. *)
PanicCollects(r) ==
    /\ pc[r] = "refused"
    /\ Goto(r, "cancel")
    /\ UNCHANGED <<memory, disk, op, payload, safe, ops, restarts>>

(* _cancel_open_3st_orders: every cancel is guarded, kite.orders() is not. *)
PanicCancels(r) ==
    /\ pc[r] = "cancel"
    /\ Goto(r, "disarm")
    /\ UNCHANGED <<memory, disk, op, payload, safe, ops, restarts>>

PanicRaises(r) ==
    /\ pc[r] = "cancel"
    /\ Goto(r, "idle")
    /\ UNCHANGED <<memory, disk, op, payload, safe, ops, restarts>>

-----------------------------------------------------------------------------
(* The process dies at any point and comes back through load_persisted_state. *)
Restart ==
    /\ restarts < MaxRestarts
    /\ restarts' = restarts + 1
    /\ mode' = Restored(disk).mode
    /\ armed' = Restored(disk).armed
    /\ pc' = [a \in Actors |-> "idle"]
    /\ UNCHANGED <<disk, op, payload, safe, ops>>

GateNext ==
    \/ \E r \in Handlers :
          \/ Request(r) \/ SetMode(r) \/ ArmTest(r) \/ ArmSet(r) \/ Disarm(r)
          \/ PanicCloses(r) \/ PanicCollects(r) \/ PanicCancels(r) \/ PanicRaises(r)
          \/ Snapshot(r) \/ Truncate(r) \/ WriteState(r)
    \/ \E t \in LiveOrders : PickKite(t) \/ GatePasses(t) \/ GateRaises(t) \/ OrderReturns(t)
    \/ Restart

GateSpec == GateInit /\ [][GateNext]_gateVars

-----------------------------------------------------------------------------
GateTypeOK ==
    /\ mode \in {"paper", "live"} /\ armed \in BOOLEAN
    /\ disk \in States \cup {TornState}
    /\ pc \in [Actors -> {"idle", "begin", "arming", "persist", "open", "write", "gate",
                          "sent", "close", "refused", "cancel", "disarm"}]
    /\ op \in [Handlers -> AllOps]
    /\ payload \in [Handlers -> States]
    /\ safe \in BOOLEAN
    /\ ops \in Nat /\ restarts \in Nat

(* README.md:74, "Live orders default DISARMED": a desk switched from paper to
   live is not armed until somebody arms it. *)
LiveStartsDisarmed ==
    [][\A r \in Handlers : SetMode(r) /\ mode = "paper" /\ mode' = "live" => ~armed']_gateVars

(* Once a disarm has returned and until the next arm, neither the process nor
   a process restarted from the file is armed - wherever a crash cut a write. *)
DisarmIsDurable == safe => ~armed /\ ~Restored(disk).armed

(* require_armed_for_live, arming.py:106: after a disarm has returned, also in
   a process restarted since, no order that chose Kite gets through its gate -
   but for one that finds the desk switched to paper in the meantime. *)
DisarmStopsOrders == [][\A t \in LiveOrders : GatePasses(t) /\ safe => mode = "paper"]_gateVars

(* references/order-path.md:110: "the panic path must be able to cancel and
   flatten while disarmed". *)
PanicCanFlatten == \A r \in Handlers : pc[r] # "refused"
=============================================================================
