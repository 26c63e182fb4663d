---------------------------- MODULE WatchlistRows ----------------------------
(***************************************************************************)
(* What the watchlist promises of its rows: a change is one step, of one   *)
(* row, and a legal step of that row's life.  A row waits for a signal, is *)
(* triggered, active and closed; it never waits again, a closed one comes  *)
(* to life by being linked to a position only, and one that was removed    *)
(* never.  A crash loses all rows or none.                                 *)
(***************************************************************************)
CONSTANT Items

VARIABLES
    rows,   \* what the list says of each id
    spent   \* ids that have been in the list

rowsVars == <<rows, spent>>

Absent == [status |-> "absent", signal |-> "none", exited |-> FALSE]
New == [status |-> "waiting", signal |-> "none", exited |-> FALSE]
Sides == {"long", "short"}
Pending == {"waiting", "triggered"}
Rows == [status : Pending \cup {"active", "closed"}, signal : Sides \cup {"none"}, exited : BOOLEAN]
NoRows == [i \in Items |-> Absent]

(* The life of a row: what it may become of itself. *)
Triggers(row, next) ==
    row.status \in Pending /\ next.status = "triggered" /\ next.signal \in Sides /\ next.exited = row.exited

Turns(row, next) ==
    row.status # "closed" /\ next.status = row.status /\ next.signal \in Sides /\ next.exited = row.exited

Enters(row, next) ==
    row.status # "closed" /\ next = [row EXCEPT !.status = "active"]

Exits(row, next) ==
    row.status = "active" /\ next = [status |-> "closed", signal |-> "none", exited |-> TRUE]

Forgets(row, next) ==
    row.status # "active" /\ next = [status |-> "closed", signal |-> "none", exited |-> row.exited]

Links(row, next) ==
    next.status = "active" /\ next.signal \in Sides /\ ~next.exited

Lives(row, next) ==
    \/ Triggers(row, next) \/ Turns(row, next) \/ Enters(row, next)
    \/ Exits(row, next) \/ Forgets(row, next) \/ Links(row, next)

-----------------------------------------------------------------------------
RowsInit == rows = NoRows /\ spent = {}

Add(i) ==
    /\ i \notin spent /\ spent' = spent \cup {i}
    /\ rows' = [rows EXCEPT ![i] = New]

Change(i) ==
    /\ rows[i] \in Rows
    /\ \E next \in Rows : Lives(rows[i], next) /\ rows' = [rows EXCEPT ![i] = next]
    /\ UNCHANGED spent

Remove(i) ==
    /\ rows[i] \in Rows /\ rows' = [rows EXCEPT ![i] = Absent]
    /\ UNCHANGED spent

(* The process dies, in the middle of a save or not; an id that was handed out
   may never be used. *)
Lose ==
    /\ rows' \in {rows, NoRows}
    /\ spent' \in SUBSET Items /\ spent \subseteq spent'

RowsNext == Lose \/ \E i \in Items : Add(i) \/ Change(i) \/ Remove(i)

RowsSpec == RowsInit /\ [][RowsNext]_rowsVars
=============================================================================
