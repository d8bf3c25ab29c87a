-------------------------------- MODULE MCBatch -------------------------------
(* Batch for TLC: the symmetry of the readers of the list, and the          *)
(* deadlines that its rows show, counted over whole years day by day.       *)
EXTENDS Batch, TLC

\* Readers differ in no constant.
ReaderSymmetry == Permutations(Readers)

Data == INSTANCE CaseData

\* Two leap years and the years around them, and a century that is no leap year.
SampledYears == {1899, 1900, 1999, 2000, 2023, 2024, 2025, 2026}

SampledDates ==
    UNION {{[y |-> y, m |-> m, d |-> d] : d \in 1..Data!Length(y, m)} :
              y \in SampledYears, m \in Data!Months}

DayAfter(a) ==
    IF a.d < Data!Length(a.y, a.m) THEN [a EXCEPT !.d = @ + 1]
    ELSE IF a.m < 12 THEN [y |-> a.y, m |-> a.m + 1, d |-> 1]
    ELSE [y |-> a.y + 1, m |-> 1, d |-> 1]

\* An ordinal counts days, a request is due 28 to 31 of them after its receipt,
\* is not overdue that day and is the next.
ASSUME DaysAreCounted ==
    \A a \in SampledDates :
        LET due == Data!due_date(a, Data!MONTHS)
        IN  /\ Data!Ordinal(DayAfter(a)) = Data!Ordinal(a) + 1
            /\ Data!Ordinal(due) - Data!Ordinal(a) \in 28..31
            /\ ~Data!overdue(a, due)
            /\ Data!overdue(a, DayAfter(due))

\* What a day's ordinal is, in one place: 1 January 2000.
ASSUME Anchor == Data!Ordinal([y |-> 2000, m |-> 1, d |-> 1]) = 730120
===============================================================================
