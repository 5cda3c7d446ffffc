--------------------------- MODULE Windows_proofs ---------------------------
(* The window arithmetic is right for any length of the day and the week,    *)
(* the code's 86400 seconds and 7 days among them.                           *)
EXTENDS Windows, TLAPS

LEMMA WeekPositive == Week \in Nat /\ DayLen \in Nat /\ DayLen <= Week
<1>1. PICK d \in Nat : DaysPerWeek = d + 1
  <2>1. DaysPerWeek - 1 \in Nat /\ DaysPerWeek = (DaysPerWeek - 1) + 1
    BY WindowsAssumption
  <2>. QED BY <2>1
<1>2. Week = d * DayLen + DayLen /\ d * DayLen \in Nat
  BY <1>1, WindowsAssumption DEF Week
<1>. QED BY <1>2, WindowsAssumption

(* A time of day on a day of the week is a time of the week.                 *)
LEMMA StartInWeek ==
  ASSUME NEW day \in Day, NEW x \in TimeOfDay
  PROVE  dayOffset(day) + x \in Time
<1>1. PICK r \in Nat : DaysPerWeek = day + 1 + r
  <2>1. DaysPerWeek - day - 1 \in Nat /\ DaysPerWeek = day + 1 + (DaysPerWeek - day - 1)
    BY WindowsAssumption DEF Day
  <2>. QED BY <2>1
<1>2. Week = day * DayLen + DayLen + r * DayLen
  BY <1>1, WindowsAssumption DEF Week, Day
<1>3. day * DayLen \in Nat /\ r * DayLen \in Nat
  BY <1>1, WindowsAssumption DEF Day
<1>. QED BY <1>2, <1>3, WindowsAssumption DEF Time, TimeOfDay, dayOffset

(* Splitting at the end of the week turns "on the line" into "on the circle".*)
LEMMA SplitIsCircular ==
  ASSUME NEW start \in Time, NEW end \in Int, start < end, end <= start + Week,
         NEW t \in Time
  PROVE  (\E in \in SplitAtWeekEnd(start, end) : contains(in, t))
           <=> Elapsed(start, t) < end - start
<1>. USE WeekPositive DEF Time, contains, Elapsed
<1>1. CASE end > Week
  <2>1. (\E in \in SplitAtWeekEnd(start, end) : contains(in, t))
          <=> contains(<<start, Week>>, t) \/ contains(<<0, end - Week>>, t)
    BY <1>1 DEF SplitAtWeekEnd
  <2>. QED BY <1>1, <2>1
<1>2. CASE ~(end > Week)
  <2>1. (\E in \in SplitAtWeekEnd(start, end) : contains(in, t)) <=> contains(<<start, end>>, t)
    BY <1>2 DEF SplitAtWeekEnd
  <2>. QED BY <1>2, <2>1
<1>. QED BY <1>1, <1>2

LEMMA DailyIsCircular ==
  ASSUME NEW w \in Expressions, NEW day \in Day, NEW t \in Time
  PROVE  (\E in \in DailyInterval(w, day) : contains(in, t))
           <=> Elapsed(dayOffset(day) + w.start, t) < DailyDuration(w)
<1>. DEFINE start == dayOffset(day) + w.start
            raw == dayOffset(day) + w.end
            end == IF raw <= start THEN raw + DayLen ELSE raw
<1>1. w.start \in TimeOfDay /\ w.end \in TimeOfDay /\ dayOffset(day) \in Int
  BY WindowsAssumption DEF Expressions, dayOffset, Day
<1>2. start \in Time
  BY <1>1, StartInWeek
<1>3. end \in Int /\ start < end /\ end <= start + Week /\ end - start = DailyDuration(w)
  BY <1>1, WeekPositive DEF TimeOfDay, DailyDuration
<1>4. DailyInterval(w, day) = SplitAtWeekEnd(start, end)
  BY DEF DailyInterval
<1>. QED BY <1>2, <1>3, <1>4, SplitIsCircular

LEMMA SpanIsCircular ==
  ASSUME NEW w \in Expressions, NEW t \in Time,
         NEW day \in Day, NEW endDay \in Day,
         day = OneDay(w.days), endDay = OneDay(w.endDays)
  PROVE  (\E in \in SpanInterval(w) : contains(in, t))
           <=> Elapsed(dayOffset(day) + w.start, t) < SpanDuration(w, day, endDay)
<1>. DEFINE start == dayOffset(day) + w.start
            raw == dayOffset(endDay) + w.end
            end == IF raw <= start THEN raw + Week ELSE raw
<1>1. start \in Time /\ raw \in Time
  BY StartInWeek DEF Expressions
<1>2. end \in Int /\ start < end /\ end <= start + Week
      /\ end - start = SpanDuration(w, day, endDay)
  BY <1>1, WeekPositive DEF Time, SpanDuration
<1>3. SpanInterval(w) = SplitAtWeekEnd(start, end)
  BY DEF SpanInterval
<1>. QED BY <1>1, <1>2, <1>3, SplitIsCircular

-----------------------------------------------------------------------------
(* Days.  A list of days and ranges resolves to the days it covers on the    *)
(* circle.                                                                   *)

LEMMA RangeIsCircular ==
  ASSUME NEW r \in DayRanges, NEW day \in Day
  PROVE  day \in expandDayRange(r) <=> DaysFrom(r.first, day) <= DaysFrom(r.first, r.last)
BY WindowsAssumption DEF DayRanges, expandDayRange, DaysFrom, Day

LEMMA SpecIsDays ==
  ASSUME NEW spec \in SUBSET DayRanges
  PROVE  /\ parseDaySpec(spec) \subseteq Day
         /\ \A day \in Day : day \in parseDaySpec(spec) <=> Covers(spec, day)
<1>1. \A r \in DayRanges : expandDayRange(r) \subseteq Day
  BY WindowsAssumption DEF DayRanges, expandDayRange, Day
<1>. QED BY <1>1, RangeIsCircular DEF parseDaySpec, Covers

LEMMA OneDayIsTheDay ==
  ASSUME NEW spec \in SUBSET DayRanges, IsOneDay(spec)
  PROVE  /\ OneDay(spec) \in Day
         /\ \A day \in Day : Covers(spec, day) <=> day = OneDay(spec)
<1>1. OneDay(spec) \in Day /\ parseDaySpec(spec) = {OneDay(spec)}
  BY DEF IsOneDay, OneDay
<1>. QED BY <1>1, SpecIsDays

LEMMA MatchesIsOpen ==
  ASSUME NEW w \in Expressions, NEW t \in Time
  PROVE  Matches(w, t) <=> IsOpen(w, t)
<1>1. w.days \in SUBSET DayRanges /\ w.endDays \in SUBSET DayRanges
  BY DEF Expressions
<1>2. CASE IsSpan(w)
  <2>1. IsOneDay(w.days) /\ IsOneDay(w.endDays)
    BY <1>2 DEF Expressions
  <2>. DEFINE day == OneDay(w.days)
              endDay == OneDay(w.endDays)
  <2>2. /\ day \in Day /\ \A d \in Day : Covers(w.days, d) <=> d = day
        /\ endDay \in Day /\ \A d \in Day : Covers(w.endDays, d) <=> d = endDay
    BY <1>1, <2>1, OneDayIsTheDay
  <2>3. Matches(w, t) <=> Elapsed(dayOffset(day) + w.start, t) < SpanDuration(w, day, endDay)
    BY <1>2, <2>2, SpanIsCircular DEF Matches, Intervals
  <2>. HIDE DEF day, endDay
  <2>. QED BY <1>2, <2>2, <2>3 DEF IsOpen
<1>3. CASE ~IsSpan(w)
  <2>1. Matches(w, t) <=> \E day \in parseDaySpec(w.days) :
                            \E in \in DailyInterval(w, day) : contains(in, t)
    BY <1>3 DEF Matches, Intervals
  <2>2. \A day \in Day : (\E in \in DailyInterval(w, day) : contains(in, t))
                           <=> Elapsed(dayOffset(day) + w.start, t) < DailyDuration(w)
    BY DailyIsCircular
  <2>3. /\ parseDaySpec(w.days) \subseteq Day
        /\ \A day \in Day : day \in parseDaySpec(w.days) <=> Covers(w.days, day)
    BY <1>1, SpecIsDays
  <2>. QED BY <1>3, <2>1, <2>2, <2>3 DEF IsOpen
<1>. QED BY <1>2, <1>3

(* At every time of the week the evaluator decides as the configured         *)
(* expressions mean, whatever the expressions.                               *)
THEOREM WindowsMeanWhatTheySay == Spec => []DecisionIsMeant
<1>1. Init => TypeOK
  BY DEF Init, TypeOK
<1>2. TypeOK /\ [Next]_vars => TypeOK'
  BY WeekPositive DEF TypeOK, Next, Tick, vars, Time
<1>3. TypeOK => DecisionIsMeant
  BY MatchesIsOpen DEF TypeOK, DecisionIsMeant, Allowed
<1>. QED BY <1>1, <1>2, <1>3, PTL DEF Spec
=============================================================================
