-------------------------------- MODULE CaseData --------------------------------
(***************************************************************************)
(* The statutory deadline of a case (cases/deadline.py), and the date of   *)
(* receipt it runs from, which travels in the first line of the case's     *)
(* description (cases/received.py), a text that people edit in Purview.    *)
(*                                                                         *)
(* Data abstracted: a date is its year, month and day; a description is    *)
(* its lines, and a line is a marker, as the pattern of received.py sees   *)
(* one, or it is not.                                                      *)
(***************************************************************************)
EXTENDS Integers, Sequences

Years == 1..9999
Months == 1..12

Leap(y) == y % 4 = 0 /\ (y % 100 # 0 \/ y % 400 = 0)

\* How many days month m of year y has.
Length(y, m) == CASE m = 2 -> IF Leap(y) THEN 29 ELSE 28
                  [] m \in {4, 6, 9, 11} -> 30
                  [] OTHER -> 31

Dates == {r \in [y : Years, m : Months, d : 1..31] : r.d <= Length(r.y, r.m)}

Earlier(a, b) ==
    \/ a.y < b.y
    \/ a.y = b.y /\ (a.m < b.m \/ (a.m = b.m /\ a.d < b.d))

\* The days of a year before its month m, and of all years before year y.
DaysBefore(y, m) ==
    (CASE m = 1 -> 0 [] m = 2 -> 31 [] m = 3 -> 59 [] m = 4 -> 90 [] m = 5 -> 120
       [] m = 6 -> 151 [] m = 7 -> 181 [] m = 8 -> 212 [] m = 9 -> 243
       [] m = 10 -> 273 [] m = 11 -> 304 [] OTHER -> 334)
      + IF m > 2 /\ Leap(y) THEN 1 ELSE 0

YearsBefore(y) ==
    365 * (y - 1) + ((y - 1) \div 4) - ((y - 1) \div 100) + ((y - 1) \div 400)

\* date.toordinal, which the difference of two dates is taken from.
Ordinal(a) == YearsBefore(a.y) + DaysBefore(a.y, a.m) + a.d

-------------------------------------------------------------------------------
(* The deadline.                                                           *)

MONTHS == 1

DueYear(received, months) == received.y + (received.m - 1 + months) \div 12
DueMonth(received, months) == ((received.m - 1 + months) % 12) + 1

\* due_date raises beyond the last year of the calendar.
Raises(received, months) == DueYear(received, months) \notin Years

\* The day of receipt, or the last of the month when that is shorter.
due_date(received, months) ==
    LET y == DueYear(received, months)
        m == DueMonth(received, months)
    IN  [y |-> y, m |-> m,
         d |-> IF received.d <= Length(y, m) THEN received.d ELSE Length(y, m)]

days_remaining(received, today) == Ordinal(due_date(received, MONTHS)) - Ordinal(today)
overdue(received, today) == days_remaining(received, today) < 0

-------------------------------------------------------------------------------
(* The date of receipt.                                                    *)

\* Not recorded.
None == [y |-> 0, m |-> 0, d |-> 0]

\* The day from which the UK GDPR applies.
EarliestReceived == [y |-> 2018, m |-> 5, d |-> 25]

\* _received_date lets a date of the form through, or none.
Accepts(date, today) ==
    \/ date = None
    \/ date \in Dates /\ ~Earlier(today, date) /\ ~Earlier(date, EarliestReceived)

\* A line that looks like a marker may carry a date that is none, like the 45th
\* of a month.
Shapes == [y : Years \cup {0}, m : 0..99, d : 0..99]
Lines == [marker : BOOLEAN, date : Shapes]
Marker(date) == [marker |-> TRUE, date |-> date]

\* A marker in the operator's own text is quoted, and is one no longer.
Quoted(line) == [line EXCEPT !.marker = FALSE]

encode_received(received, body) ==
    LET quoted == [i \in DOMAIN body |-> Quoted(body[i])]
    IN  IF received = None THEN quoted ELSE <<Marker(received)>> \o quoted

\* Only the first line is looked at.
decode_received(description) ==
    IF description # <<>> /\ description[1].marker /\ description[1].date \in Dates
    THEN description[1].date ELSE None
===============================================================================
