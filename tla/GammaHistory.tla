---------------------------- MODULE GammaHistory ----------------------------
(***************************************************************************)
(* options/gamma_density_history.py: what one session of the gamma desk    *)
(* leaves in gamma_density_history.json, as written by the snapshots of    *)
(* gamma_density.py: the trail of points, one per interval, and the        *)
(* reversals, which are frozen once their confirm window has closed.       *)
(* Every change is a load, a change and an atomic replace under            *)
(* _STORE_LOCK, so it is one step; what a snapshot read or computed before *)
(* it took the lock may be old by then.  One underlying, expiry, day and   *)
(* time frame: the others are keys of their own.  Labels, confirm stamps   *)
(* and the fields of a point are left out.                                 *)
(***************************************************************************)
EXTENDS Integers, FiniteSets, SequencesExt

CONSTANTS
    Snapshots,     \* threads that build a snapshot: requests and the recorder
    Recorder,      \* those that do not build the chart
    GammaCases,    \* configurations: the snapshots that run, the swings of the day, [ts, side],
                   \* how often the file is spoiled or the process dies
    Moves,         \* measured moves
    Interval,      \* min_interval_sec
    Bar, ConfirmBars, Lock,    \* the time frame: minutes, confirm_bars, lock_ms
    MaxPoints,     \* session_history_max_points
    LastMinute     \* bound of the clock

ASSUME GammaAssumption ==
    /\ Recorder \subseteq Snapshots
    /\ \A k \in GammaCases : /\ DOMAIN k = {"live", "swings", "spoils"} /\ k.live \subseteq Snapshots /\ k.spoils \in Nat
                             /\ k.swings \subseteq [ts : Nat, side : {"bullish", "bearish"}] /\ IsFiniteSet(k.swings)
    /\ LastMinute \in Nat /\ {Interval, Bar, ConfirmBars, Lock, MaxPoints} \subseteq Nat \ {0}

VARIABLES
    session,     \* the case of this behaviour
    minute,      \* the time
    points,      \* series: the times of the points
    reversals,   \* the frozen reversals
    readable,    \* whether the file is JSON
    snapshot,    \* where each snapshot is, when it began its point, what it detected
    spoils

gammaVars == <<session, minute, points, reversals, readable, snapshot, spoils>>
Reversal == [ts : Nat, side : {"bullish", "bearish"}, move : Moves, gex : BOOLEAN]
NoSnapshot == [at |-> "idle", now |-> 0, found |-> {}]

GammaInit ==
    /\ session \in GammaCases
    /\ minute = 0 /\ points = << >> /\ reversals = {} /\ readable = TRUE
    /\ snapshot = [s \in Snapshots |-> NoSnapshot]
    /\ spoils = 0

-----------------------------------------------------------------------------
(* sorted by time; which of two at the same time comes first is left open. *)
Chronological(S) ==
    CHOOSE seq \in [1..Cardinality(S) -> S] :
        \A i, j \in DOMAIN seq : i < j => seq[i] # seq[j] /\ seq[i].ts <= seq[j].ts

(* Of two on the same side within the lock the later one goes. *)
SameSideLock(S) ==
    LET seq == Chronological(S)
        Locked(kept, r) == kept # << >> /\ Last(kept).side = r.side /\ r.ts - Last(kept).ts < Lock
        accepted[i \in 0..Len(seq)] ==
            IF i = 0 THEN << >>
            ELSE IF Locked(accepted[i - 1], seq[i]) THEN accepted[i - 1] ELSE Append(accepted[i - 1], seq[i])
    IN  Range(accepted[Len(seq)])

ConfirmOpen(r, now) == now - r.ts < ConfirmBars * Bar
Distance(r, c) == IF r.ts > c.ts THEN r.ts - c.ts ELSE c.ts - r.ts
SamePivot(c, frozen) == {r \in frozen : r.side = c.side /\ Distance(r, c) < Bar}

(* A candidate is a frozen reversal seen again, whose move still counts while
   its window is open; or a new one that the lock lets in. *)
Merged(frozen, c, now) ==
    LET same == SamePivot(c, frozen)
        r == CHOOSE r \in same : \A q \in same : Distance(r, c) <= Distance(q, c)
    IN  IF same # {}
        THEN (frozen \ {r}) \cup {[r EXCEPT !.move = IF ConfirmOpen(r, now) THEN c.move ELSE @, !.gex = c.gex]}
        ELSE IF c \in SameSideLock(frozen \cup {c}) THEN frozen \cup {c} ELSE frozen

Reconciled(found, frozen, now) ==
    LET seq == Chronological(found)
        working[i \in 0..Len(seq)] == IF i = 0 THEN frozen ELSE Merged(working[i - 1], seq[i], now)
    IN  working[Len(seq)]

TooSoon(now) == points # << >> /\ now - Last(points) < Interval
LastOf(seq) == SubSeq(seq, IF Len(seq) > MaxPoints THEN Len(seq) - MaxPoints + 1 ELSE 1, Len(seq))

-----------------------------------------------------------------------------
Become(s, stage) == snapshot' = [snapshot EXCEPT ![s].at = stage]
AfterPoint(s) == snapshot' = [snapshot EXCEPT ![s] = [NoSnapshot EXCEPT !.at = IF s \in Recorder THEN "idle" ELSE "detect"]]

(* append_history_point takes the time before it takes the lock. *)
PointBegins(s) ==
    /\ snapshot[s].at = "idle"
    /\ snapshot' = [snapshot EXCEPT ![s] = [NoSnapshot EXCEPT !.at = "look", !.now = minute]]
    /\ UNCHANGED <<session, minute, points, reversals, readable, spoils>>

(* The look does not mind an unreadable file: it sees no points. *)
PointLook(s) ==
    /\ snapshot[s].at = "look"
    /\ IF readable /\ TooSoon(snapshot[s].now) THEN AfterPoint(s) ELSE Become(s, "append")
    /\ UNCHANGED <<session, minute, points, reversals, readable, spoils>>

(* Mutant of PointAppend: the interval is not looked at again. *)
PointAppendAtOnce(s) ==
    /\ snapshot[s].at = "append" /\ AfterPoint(s)
    /\ points' = IF readable THEN LastOf(Append(points, snapshot[s].now)) ELSE points
    /\ UNCHANGED <<session, minute, reversals, readable, spoils>>

PointAppend(s) ==
    /\ snapshot[s].at = "append" /\ AfterPoint(s)
    /\ points' = IF readable /\ ~TooSoon(snapshot[s].now) THEN LastOf(Append(points, snapshot[s].now)) ELSE points
    /\ UNCHANGED <<session, minute, reversals, readable, spoils>>

(* Candles are fetched and swings detected: some of those that are over, with
   whatever move and gate the data of this moment gives them. *)
Detect(s) ==
    /\ snapshot[s].at = "detect"
    /\ \E seen \in SUBSET {p \in session.swings : p.ts < minute} :
         \E move \in [seen -> Moves], gex \in [seen -> BOOLEAN] :
            LET found == {[ts |-> p.ts, side |-> p.side, move |-> move[p], gex |-> gex[p]] : p \in seen}
            IN  snapshot' = [snapshot EXCEPT ![s] = [NoSnapshot EXCEPT !.at = "persist", !.now = minute,
                                                                       !.found = SameSideLock(found)]]
    /\ UNCHANGED <<session, minute, points, reversals, readable, spoils>>

DetectFails(s) ==
    /\ snapshot[s].at = "detect" /\ snapshot' = [snapshot EXCEPT ![s] = NoSnapshot]
    /\ UNCHANGED <<session, minute, points, reversals, readable, spoils>>

(* Mutant of Persist: the window is judged by the time of the detection. *)
PersistAsOfDetection(s) ==
    /\ snapshot[s].at = "persist" /\ snapshot' = [snapshot EXCEPT ![s] = NoSnapshot]
    /\ reversals' = IF readable THEN Reconciled(snapshot[s].found, reversals, snapshot[s].now) ELSE reversals
    /\ UNCHANGED <<session, minute, points, readable, spoils>>

(* persist_session_reversals takes the time under the lock; an unreadable file
   is left alone. *)
Persist(s) ==
    /\ snapshot[s].at = "persist" /\ snapshot' = [snapshot EXCEPT ![s] = NoSnapshot]
    /\ reversals' = IF readable THEN Reconciled(snapshot[s].found, reversals, minute) ELSE reversals
    /\ UNCHANGED <<session, minute, points, readable, spoils>>

-----------------------------------------------------------------------------
MinutePasses ==
    /\ minute < LastMinute /\ minute' = minute + 1
    /\ UNCHANGED <<session, points, reversals, readable, snapshot, spoils>>

(* Somebody spoils the file, or mends it: what was in it is still there. *)
Spoil ==
    /\ readable' = ~readable /\ (readable => spoils < session.spoils)
    /\ spoils' = IF readable THEN spoils + 1 ELSE spoils
    /\ UNCHANGED <<session, minute, points, reversals, snapshot>>

(* The file is replaced or it is not: the process dies between two steps. *)
GammaCrash ==
    /\ spoils < session.spoils /\ spoils' = spoils + 1
    /\ snapshot' = [s \in Snapshots |-> NoSnapshot]
    /\ UNCHANGED <<session, minute, points, reversals, readable>>

GammaNext ==
    \/ \E s \in session.live : PointBegins(s) \/ PointLook(s) \/ PointAppend(s) \/ Detect(s) \/ DetectFails(s) \/ Persist(s)
    \/ MinutePasses \/ Spoil \/ GammaCrash

GammaSpec == GammaInit /\ [][GammaNext]_gammaVars

-----------------------------------------------------------------------------
(* Types of the session's history (gamma_density_history.py:97). *)
GammaTypeOK ==
    /\ session \in GammaCases /\ minute \in 0..LastMinute /\ readable \in BOOLEAN /\ spoils \in 0..session.spoils
    /\ Len(points) <= MaxPoints /\ Range(points) \subseteq 0..minute
    /\ reversals \subseteq Reversal
    /\ \A s \in Snapshots : snapshot[s].at \in {"idle", "look", "append", "detect", "persist"} /\ snapshot[s].found \subseteq Reversal

(* However many snapshots are built at once, the trail is in order and no two
   of its points are closer than the interval (gamma_density_history.py:318). *)
PointsApart == \A i \in 2..Len(points) : points[i] - points[i - 1] >= Interval

(* A reversal that was once kept stays, and its move does not change any more
   once its confirm window has closed, although late snapshots bring moves
   they measured before, the file is unreadable for a while and the process
   dies (gamma_density_history.py:988, :157). *)
ReversalsStay == [][
    \A r \in reversals : \E q \in reversals' :
        q.ts = r.ts /\ q.side = r.side /\ (ConfirmOpen(r, minute) \/ q.move = r.move)]_gammaVars
=============================================================================
