----------------------------- MODULE MCWindows -----------------------------
(* Every pair of at most one deny and at most one allow expression, in a     *)
(* short week of short days, at every time of the week.  One of the two may  *)
(* list two ranges of days.                                                  *)
EXTENDS Windows

AtMostOne(S) == {{}} \cup {{e} : e \in S}

One == {{r} : r \in DayRanges}
UpToTwo == {{q, r} : q, r \in DayRanges}

Daily(specs) ==
  [days : specs, start : TimeOfDay, endDays : {{}}, end : TimeOfDay]

Spans ==
  [days : {s \in One : IsOneDay(s)}, start : TimeOfDay,
   endDays : {s \in One : IsOneDay(s)}, end : TimeOfDay]

Short == AtMostOne(Daily(One) \cup Spans)
Long == AtMostOne(Daily(UpToTwo) \cup Spans)

MCInit == /\ \/ deny \in Short /\ allow \in Long
             \/ deny \in Long /\ allow \in Short
          /\ now = 0

MCSpec == MCInit /\ [][Next]_vars
=============================================================================
