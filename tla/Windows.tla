------------------------------ MODULE Windows ------------------------------
(* pkg/windows: deny and allow expressions such as "Fri-Mon 22:00-06:00" or  *)
(* "Sat 20:00-Mon 04:00" are turned into intervals of the week once, and a   *)
(* time is looked up in them.  Here the days of the week and the units of a  *)
(* day are parameters (7 and 86400 in the code), and a parsed expression is  *)
(* a record; the wording it was parsed from is left out.                     *)
EXTENDS Integers

CONSTANTS DaysPerWeek, DayLen

ASSUME WindowsAssumption == DaysPerWeek \in Nat \ {0} /\ DayLen \in Nat \ {0}

Week == DaysPerWeek * DayLen      \* secondsPerWeek

Day == 0 .. DaysPerWeek - 1
TimeOfDay == 0 .. DayLen - 1      \* parseTimeOfDay: 24:00 is not accepted
Time == 0 .. Week - 1             \* secondsSinceWeekStart

VARIABLES deny, allow,            \* sets of expressions, fixed at start-up
          now                     \* the local time of the week

vars == <<deny, allow, now>>

(* One part of a day specification: "Mon", or a range of days "Fri-Mon" that *)
(* may run past the end of the week; "*" is the range of all days.           *)
DayRanges == [first : Day, last : Day]

(* Slip: a range that runs past the end of the week has no days.             *)
expandUpTo(r) == r.first .. r.last

expandDayRange(r) ==
  IF r.first <= r.last THEN r.first .. r.last ELSE Day \ (r.last + 1 .. r.first - 1)

(* A day specification is a list of such parts, which may overlap.           *)
parseDaySpec(spec) == UNION {expandDayRange(r) : r \in spec}

IsOneDay(spec) == \E day \in Day : parseDaySpec(spec) = {day}

OneDay(spec) == CHOOSE day \in Day : parseDaySpec(spec) = {day}

(* An expression; without a day in its end part endDays is empty.  With one, *)
(* either part must come down to a single day: parseExpression refuses the   *)
(* others, and with them the configuration.                                  *)
IsSpan(w) == w.endDays # {}

Expressions ==
  {w \in [days : (SUBSET DayRanges) \ {{}}, start : TimeOfDay,
          endDays : SUBSET DayRanges, end : TimeOfDay] :
     IsSpan(w) => IsOneDay(w.days) /\ IsOneDay(w.endDays)}

dayOffset(day) == day * DayLen

(* Slip: the part of a window past the end of the week is lost.              *)
SplitTruncated(start, end) == {<<start, end>>}

(* An interval that runs past the end of the week continues at its start.    *)
SplitAtWeekEnd(start, end) ==
  IF end > Week THEN {<<start, Week>>, <<0, end - Week>>} ELSE {<<start, end>>}

(* parseExpression: the intervals of an expression.                          *)
DailyInterval(w, day) ==
  LET start == dayOffset(day) + w.start
      end == dayOffset(day) + w.end
  IN  SplitAtWeekEnd(start, IF end <= start THEN end + DayLen ELSE end)

SpanInterval(w) ==
  LET start == dayOffset(OneDay(w.days)) + w.start
      end == dayOffset(OneDay(w.endDays)) + w.end
  IN  SplitAtWeekEnd(start, IF end <= start THEN end + Week ELSE end)

Intervals(w) ==
  IF IsSpan(w) THEN SpanInterval(w)
  ELSE UNION {DailyInterval(w, day) : day \in parseDaySpec(w.days)}

contains(in, t) == in[1] <= t /\ t < in[2]

Matches(w, t) == \E in \in Intervals(w) : contains(in, t)

(* Slip: a matching allow window overrides the deny windows.                 *)
AllowWins(t) ==
  \/ \E w \in allow : Matches(w, t)
  \/ allow = {} /\ ~\E w \in deny : Matches(w, t)

(* evaluator.Evaluate; NewEvaluator returns no evaluator when both lists are *)
(* empty, and RunOnce then goes on as if allowed.                            *)
Allowed(t) ==
  /\ ~\E w \in deny : Matches(w, t)
  /\ allow # {} => \E w \in allow : Matches(w, t)

TypeOK == deny \subseteq Expressions /\ allow \subseteq Expressions /\ now \in Time

Init == /\ deny \in SUBSET Expressions
        /\ allow \in SUBSET Expressions
        /\ now \in Time

(* Time goes on; at the end of the week it starts again.                     *)
Tick == /\ now' = IF now + 1 = Week THEN 0 ELSE now + 1
        /\ UNCHANGED <<deny, allow>>

Next == Tick

Spec == Init /\ [][Next]_vars

-----------------------------------------------------------------------------
(* What an expression means, with the days and the week as circles: the      *)
(* window opens at its start on each of its days and stays open for its      *)
(* duration.                                                                 *)

DaysFrom(first, day) == IF first <= day THEN day - first ELSE day - first + DaysPerWeek

Covers(spec, day) == \E r \in spec : DaysFrom(r.first, day) <= DaysFrom(r.first, r.last)

Elapsed(start, t) == IF start <= t THEN t - start ELSE t - start + Week

DailyDuration(w) == IF w.start < w.end THEN w.end - w.start
                    ELSE w.end - w.start + DayLen

SpanDuration(w, day, endDay) ==
  LET start == dayOffset(day) + w.start
      end == dayOffset(endDay) + w.end
  IN  IF start < end THEN end - start ELSE end - start + Week

IsOpen(w, t) ==
  \E day \in Day :
    /\ Covers(w.days, day)
    /\ IF IsSpan(w)
       THEN \E endDay \in Day :
              /\ Covers(w.endDays, endDay)
              /\ Elapsed(dayOffset(day) + w.start, t) < SpanDuration(w, day, endDay)
       ELSE Elapsed(dayOffset(day) + w.start, t) < DailyDuration(w)

(* The intervals decide as the expressions mean: a deny window always wins,  *)
(* allow windows restrict if there are any, and windows that cross midnight  *)
(* or the end of the week are neither cut off nor prolonged.                 *)
DecisionIsMeant ==
  Allowed(now) <=> /\ \A w \in deny : ~IsOpen(w, now)
                   /\ allow = {} \/ \E w \in allow : IsOpen(w, now)

=============================================================================
