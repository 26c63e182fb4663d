---------------------------- MODULE SkewArchive ----------------------------
(***************************************************************************)
(* analysis/iv_skew/store.py and runner.py: the samples of a session, one  *)
(* line each in a file per day, and the daily roll-up, one line for each   *)
(* expiry of a finished session, that the sampling thread and every        *)
(* request for the daily series bring up to date.  Both files are appended *)
(* to and never rewritten, so a crash may leave half a line, and the next  *)
(* line is then written onto the end of it.  One underlying: no two share  *)
(* a session, and the roll-up treats them one by one.                      *)
(***************************************************************************)
EXTENDS Naturals, SequencesExt

CONSTANTS
    Sampler,       \* the thread of runner.py
    Viewers,       \* requests for the daily series
    Ranks,         \* expiries, 1 the nearest
    Readings,      \* what a sample may hold, see Reading
    SkewCases      \* configurations, see SkewCaseType

(* The bounds: the last day, samples a day, crashes. *)
SkewCaseType == [viewers : SUBSET Viewers, days : Nat, samples : Nat, crashes : Nat]
Reading == [1..Ranks -> {"clean", "degraded", "none"}]

ASSUME SkewAssumption == Ranks \in Nat /\ Readings \subseteq Reading /\ Sampler \notin Viewers
ASSUME SkewCasesAssumption == SkewCases \subseteq SkewCaseType /\ \A k \in SkewCases : k.days # 0

VARIABLES
    skew,      \* the case of this behaviour
    today,     \* the date
    raw,       \* the session file of each day
    daily,     \* daily.jsonl
    roll,      \* the call of ensure_rollup each thread is in
    torn       \* crashes so far

skewVars == <<skew, today, raw, daily, roll, torn>>
Rollers == {Sampler} \cup Viewers
NotRolling == [at |-> "idle", cutoff |-> 0, done |-> {}, left |-> {}]
HalfLine == {}
NoLines == [lines |-> << >>, cut |-> FALSE]

SkewInit ==
    /\ skew \in SkewCases /\ today = 1
    /\ raw = [d \in 1..skew.days |-> NoLines] /\ daily = NoLines
    /\ roll = [t \in Rollers |-> NotRolling]
    /\ torn = 0

(* A line is the set of what can be read from it.  One written after half a
   line is no line either. *)
Appended(file, items) ==
    LET new == [i \in DOMAIN items |-> {items[i]}]
    IN  IF new = << >> THEN file
        ELSE IF ~file.cut THEN [file EXCEPT !.lines = @ \o new]
        ELSE [lines |-> Front(file.lines) \o <<HalfLine>> \o Tail(new), cut |-> FALSE]

(* What is in the file when the process dies while it appends: some whole
   lines, and then half of one, or all of one but its end. *)
CutShort(file, items) ==
    LET upTo(k) == Appended(file, SubSeq(items, 1, k))
    IN  {upTo(k) : k \in 0..Len(items)}
        \cup {[upTo(k) EXCEPT !.cut = TRUE] : k \in 1..Len(items)}
        \cup {[lines |-> Append(Front(upTo(k).lines), HalfLine), cut |-> TRUE] : k \in 1..Len(items)}

RowsIn(file) == UNION Range(file.lines)

(* The day's last clean reading of an expiry, or its last one, or none. *)
LastTrusted(d, e) ==
    LET Of(qualities) == {i \in DOMAIN raw[d].lines : \E sample \in raw[d].lines[i] : sample[e] \in qualities}
    IN  IF Of({"clean"}) # {} THEN Max(Of({"clean"}))
        ELSE IF Of({"degraded"}) # {} THEN Max(Of({"degraded"})) ELSE 0

(* rollup_day: a row for each expiry that has one, the nearest first. *)
RollupDay(d) ==
    LET row(e) == [day |-> d, rank |-> e, sample |-> LastTrusted(d, e)]
        rows[e \in 0..Ranks] ==
            IF e = 0 THEN << >>
            ELSE IF row(e).sample = 0 THEN rows[e - 1] ELSE Append(rows[e - 1], row(e))
    IN  rows[Ranks]

-----------------------------------------------------------------------------
TickBegins ==
    /\ roll[Sampler].at = "idle"
    /\ roll' = [roll EXCEPT ![Sampler] = [NotRolling EXCEPT !.at = "build", !.cutoff = today]]
    /\ UNCHANGED <<skew, today, raw, daily, torn>>

(* The chain could not be read: the tick rolls up all the same. *)
BuildFails ==
    /\ roll[Sampler].at = "build" /\ roll' = [roll EXCEPT ![Sampler].at = "load"]
    /\ UNCHANGED <<skew, today, raw, daily, torn>>

AppendSample(reading) ==
    /\ roll[Sampler].at = "build" /\ Len(raw[roll[Sampler].cutoff].lines) < skew.samples
    /\ raw' = [raw EXCEPT ![roll[Sampler].cutoff] = Appended(@, <<reading>>)]
    /\ roll' = [roll EXCEPT ![Sampler].at = "load"]
    /\ UNCHANGED <<skew, today, daily, torn>>

DailyAsked(v) ==
    /\ v \in skew.viewers /\ roll[v].at = "idle"
    /\ roll' = [roll EXCEPT ![v] = [NotRolling EXCEPT !.at = "load", !.cutoff = today]]
    /\ UNCHANGED <<skew, today, raw, daily, torn>>

Finished(left, t) == IF left = {} THEN NotRolling ELSE [roll[t] EXCEPT !.at = "roll", !.left = left]

(* Mutant of OldSessions: the session under way is rolled up with the rest. *)
OldSessionsAndToday(cutoff) == {d \in 1..cutoff : raw[d].lines # << >>}

(* Mutant of OldSessions: yesterday's, as a job at a fixed time would do. *)
OldSessionsYesterday(cutoff) == {d \in {cutoff - 1} \cap (1..cutoff) : raw[d].lines # << >>}

OldSessions(cutoff) == {d \in 1..cutoff - 1 : raw[d].lines # << >>}

(* ensure_rollup reads which days have a row, and lists the sessions. *)
LoadDaily(t) ==
    /\ roll[t].at = "load"
    /\ LET left == OldSessions(roll[t].cutoff)
       IN  roll' = [roll EXCEPT ![t] = [Finished(left, t) EXCEPT !.done = IF left = {} THEN {} ELSE {row.day : row \in RowsIn(daily)}]]
    /\ UNCHANGED <<skew, today, raw, daily, torn>>

Oldest(t) == Min(roll[t].left)
NewRows(t) == IF Oldest(t) \in roll[t].done THEN << >> ELSE RollupDay(Oldest(t))

RollSession(t) ==
    /\ roll[t].at = "roll"
    /\ daily' = Appended(daily, NewRows(t))
    /\ roll' = [roll EXCEPT ![t] = Finished(@.left \ {Oldest(t)}, t)]
    /\ UNCHANGED <<skew, today, raw, torn>>

(* Midnight.  Sessions end half an hour before it at the latest, and a tick's
   sample is written by then. *)
NewDate ==
    /\ today < skew.days /\ roll[Sampler].at # "build" /\ today' = today + 1
    /\ UNCHANGED <<skew, raw, daily, roll, torn>>

ArchiveCrash ==
    /\ torn < skew.crashes /\ torn' = torn + 1
    /\ \/ UNCHANGED <<raw, daily>>
       \/ /\ roll[Sampler].at = "build" /\ Len(raw[roll[Sampler].cutoff].lines) < skew.samples
          /\ \E reading \in Readings : \E f \in CutShort(raw[roll[Sampler].cutoff], <<reading>>) :
                raw' = [raw EXCEPT ![roll[Sampler].cutoff] = f]
          /\ UNCHANGED daily
       \/ /\ \E t \in Rollers : roll[t].at = "roll" /\ daily' \in CutShort(daily, NewRows(t))
          /\ UNCHANGED raw
    /\ roll' = [t \in Rollers |-> NotRolling]
    /\ UNCHANGED <<skew, today>>

SamplerSteps == TickBegins \/ BuildFails \/ (\E reading \in Readings : AppendSample(reading)) \/ LoadDaily(Sampler) \/ RollSession(Sampler)

SkewNext ==
    \/ SamplerSteps \/ NewDate \/ ArchiveCrash
    \/ \E v \in Viewers : DailyAsked(v) \/ LoadDaily(v) \/ RollSession(v)

(* The sampling thread wakes up every twenty seconds (runner.py:143). *)
SkewFairness == WF_skewVars(SamplerSteps)

SkewSpec == SkewInit /\ [][SkewNext]_skewVars /\ SkewFairness

-----------------------------------------------------------------------------
(* Types of the archive (store.py:52, :63). *)
SkewTypeOK ==
    /\ skew \in SkewCaseType /\ today \in 1..skew.days /\ torn \in 0..skew.crashes
    /\ \A d \in 1..skew.days : RowsIn(raw[d]) \subseteq Readings
    /\ RowsIn(daily) \subseteq [day : 1..skew.days, rank : 1..Ranks, sample : 1..skew.samples]
    /\ \A t \in Rollers : /\ roll[t].at \in {"idle", "build", "load", "roll"} /\ roll[t].cutoff \in 0..today
                          /\ roll[t].left \cup roll[t].done \subseteq 1..skew.days

(* A row of the daily series is the last trustworthy reading of its whole
   session: no session is frozen half way, and no crash or second thread makes
   a row of something else (store.py:225, :278). *)
RowIsLastReading == \A row \in RowsIn(daily) : row.sample = LastTrusted(row.day, row.rank)

Resolved(d) == \E e \in 1..Ranks : LastTrusted(d, e) # 0

(* No session is lost to a restart, half a line or a day on which nobody
   looked: a finished one with a reading has a row in the end (store.py:16). *)
SessionsAreRolled ==
    []<>(\A d \in 1..today - 1 : Resolved(d) => d \in {row.day : row \in RowsIn(daily)})
=============================================================================
