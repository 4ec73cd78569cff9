-------------------------- MODULE CatalogueProofs --------------------------
(***************************************************************************)
(* Proofs about Catalogue: for a week of any number of days (two or more), *)
(* days of any length, the code's seven of 1440 minutes included, any      *)
(* schedule and any price bands.                                           *)
(***************************************************************************)
EXTENDS Catalogue, Integers, FiniteSetTheorems, TLAPS

TypeInv ==
    /\ approved \in BOOLEAN /\ is_open \in BOOLEAN
    /\ rows \in [Days -> Rows]
    /\ now \in 0..Week - 1
    /\ edits \in 0..MaxEdits

(* Numbers *)

LEMMA Lengths ==
  /\ DaysInWeek \in Nat /\ DaysInWeek >= 2 /\ MinutesInDay \in Nat /\ MinutesInDay >= 1
  /\ Week \in Nat /\ Week >= 1
<1>1. DaysInWeek \in Nat /\ DaysInWeek >= 2 /\ MinutesInDay \in Nat /\ MinutesInDay >= 1
  BY CatalogueAssumption
<1>2. DaysInWeek * MinutesInDay >= 1 /\ DaysInWeek * MinutesInDay \in Nat
  BY ONLY <1>1
<1>. QED  BY <1>1, <1>2 DEF Week

LEMMA Division ==
  ASSUME NEW a \in Nat, NEW m \in Nat \ {0}
  PROVE  a \div m \in Nat /\ a % m \in 0..m - 1 /\ a = (a \div m) * m + (a % m)
BY ONLY a \in Nat, m \in Nat \ {0}, SMT

\* A day's length more is a day later.
LEMMA Later ==
  ASSUME NEW m \in Nat \ {0}, NEW j \in Nat, NEW a \in Nat, NEW s \in 0..m - 1, NEW o \in 0..m - 1,
         j * m + s < a * m + o
  PROVE  j < a \/ (j = a /\ s < o)
<1>1. CASE j >= a + 1
  <2>1. j * m >= (a + 1) * m
    BY ONLY <1>1, m \in Nat \ {0}, j \in Nat, a \in Nat
  <2>2. (a + 1) * m = a * m + m
    BY ONLY m \in Nat \ {0}, a \in Nat
  <2>. QED  BY <2>1, <2>2
<1>2. CASE j = a
  BY <1>2
<1>. QED  BY <1>1, <1>2

LEMMA Quotient ==
  ASSUME NEW m \in Nat \ {0}, NEW a \in Nat, NEW j \in Nat, NEW s \in 0..m - 1, a = j * m + s
  PROVE  a \div m = j /\ a % m = s
<1>1. PICK q \in Nat, r \in 0..m - 1 : q = a \div m /\ r = a % m /\ a = q * m + r
  BY Division
<1>2. ~(j < q) /\ ~(q < j)
  <2>1. ASSUME NEW x \in Nat, NEW y \in Nat, NEW v \in 0..m - 1, NEW w \in 0..m - 1, x * m + v = y * m + w
        PROVE  ~(x < y)
    <3>1. ASSUME x + 1 <= y  PROVE FALSE
      <4>1. (x + 1) * m <= y * m
        BY ONLY <3>1, m \in Nat \ {0}, x \in Nat, y \in Nat
      <4>2. (x + 1) * m = x * m + m /\ x * m \in Nat /\ y * m \in Nat
        BY ONLY m \in Nat \ {0}, x \in Nat, y \in Nat
      <4>. QED  BY <2>1, <4>1, <4>2
    <3>. QED  BY <3>1
  <2>. QED  BY <1>1, <2>1
<1>3. j = q
  BY <1>2
<1>4. r = s
  BY <1>1, <1>3
<1>. QED  BY <1>1, <1>3, <1>4

-----------------------------------------------------------------------------

(* What an instant's day and time are *)

LEMMA Now ==
  ASSUME TypeInv
  PROVE  /\ now \in Nat /\ day(now) \in Days /\ time(now) \in Minutes
         /\ now = day(now) * MinutesInDay + time(now) /\ now \div MinutesInDay = day(now)
<1>1. MinutesInDay \in Nat \ {0} /\ DaysInWeek \in Nat \ {0} /\ now \in Nat /\ now < DaysInWeek * MinutesInDay
  BY Lengths DEF TypeInv, Week
<1>2. PICK q \in Nat, r \in 0..MinutesInDay - 1 :
        q = now \div MinutesInDay /\ r = now % MinutesInDay /\ now = q * MinutesInDay + r
  BY <1>1, Division
<1>3. q < DaysInWeek
  <2>1. q * MinutesInDay + r < DaysInWeek * MinutesInDay + 0
    BY <1>1, <1>2
  <2>2. 0 \in 0..MinutesInDay - 1
    BY <1>1
  <2>. QED  BY <1>1, <1>2, <2>1, <2>2, Later
<1>4. q = 0 * DaysInWeek + q /\ q \in 0..DaysInWeek - 1
  BY <1>1, <1>2, <1>3
<1>5. q % DaysInWeek = q
  BY <1>1, <1>2, <1>4, Quotient
<1>. QED  BY <1>1, <1>2, <1>4, <1>5 DEF day, time, Days, Minutes

\* The minute before midnight and the days around it.
LEMMA DayBefore ==
  ASSUME NEW m \in Nat, m >= 2, NEW x \in Nat
  PROVE  (((x + 1) % m) + m - 1) % m = x % m
<1>0. m \in Nat \ {0} /\ x + 1 \in Nat
  OBVIOUS
<1>1. PICK q \in Nat, r \in 0..m - 1 : q = x \div m /\ r = x % m /\ x = q * m + r
  BY <1>0, Division
<1>2. CASE r + 1 < m
  <2>1. x + 1 = q * m + (r + 1) /\ r + 1 \in 0..m - 1
    BY <1>1, <1>2
  <2>2. (x + 1) % m = r + 1
    <3>1. PICK s \in 0..m - 1 : s = r + 1
      BY <2>1
    <3>2. x + 1 = q * m + s
      BY <2>1, <3>1
    <3>. QED  BY ONLY <1>0, <3>1, <3>2, q \in Nat, Quotient
  <2>3. (r + 1) + m - 1 = 1 * m + r /\ (r + 1) + m - 1 \in Nat
    BY <1>1
  <2>4. ((r + 1) + m - 1) % m = r
    BY <1>0, <1>1, <2>3, Quotient
  <2>. QED  BY <1>1, <2>2, <2>4
<1>3. CASE r + 1 = m
  <2>1. x + 1 = (q + 1) * m + 0 /\ 0 \in 0..m - 1 /\ q + 1 \in Nat
    BY <1>1, <1>3
  <2>2. (x + 1) % m = 0
    BY ONLY <1>0, <2>1, Quotient
  <2>3. 0 + m - 1 = 0 * m + r /\ 0 + m - 1 \in Nat
    BY <1>1, <1>3
  <2>4. (0 + m - 1) % m = r
    BY <1>0, <1>1, <2>3, Quotient
  <2>. QED  BY <1>1, <2>2, <2>4
<1>. QED  BY <1>1, <1>2, <1>3

\* j midnights from now, at minute s.
LEMMA Instant ==
  ASSUME TypeInv, NEW k \in Nat, NEW j \in Nat, NEW s \in Minutes, time(now) + k = j * MinutesInDay + s
  PROVE  /\ day(now + k) = (day(now) + j) % DaysInWeek /\ day(now + k) \in Days
         /\ time(now + k) = s
         /\ j = 0 => day(now + k) = day(now) /\ yesterday(now + k) = yesterday(now)
         /\ j > 0 => yesterday(now + k) = (day(now) + (j - 1)) % DaysInWeek
<1>. DEFINE M == MinutesInDay
            D == DaysInWeek
<1>1. M \in Nat \ {0} /\ D \in Nat \ {0} /\ D >= 2
  BY Lengths
<1>2. PICK d \in 0..D - 1 : d = day(now)
  BY Now DEF Days
<1>3. now \in Nat /\ time(now) \in Nat /\ now = d * M + time(now) /\ s \in 0..M - 1
  BY <1>1, <1>2, Now DEF Minutes
<1>4. now + k = (d + j) * M + s /\ now + k \in Nat /\ d + j \in Nat
  <2>1. (d + j) * M = d * M + j * M /\ d * M \in Nat /\ j * M \in Nat
    BY <1>1
  <2>. QED  BY <1>3, <2>1
<1>. HIDE DEF M, D
<1>5. (now + k) \div M = d + j /\ (now + k) % M = s
  BY <1>1, <1>3, <1>4, Quotient
<1>6. day(now + k) = (d + j) % D /\ time(now + k) = s
  BY <1>5 DEF day, time, M, D
<1>7. (d + j) % D \in 0..D - 1
  BY <1>1, <1>4, Division
<1>8. ASSUME j = 0  PROVE day(now + k) = day(now) /\ yesterday(now + k) = yesterday(now)
  <2>1. d = 0 * D + d
    BY <1>1
  <2>2. d % D = d
    BY <1>1, <2>1, Quotient
  <2>3. d + j = d
    BY <1>8
  <2>4. day(now + k) = day(now)
    BY <1>2, <1>6, <2>2, <2>3
  <2>. QED  BY <2>4 DEF yesterday
<1>9. ASSUME j > 0  PROVE yesterday(now + k) = (d + (j - 1)) % D
  <2>1. PICK x \in Nat : x = d + (j - 1)
    BY <1>9
  <2>2. d + j = x + 1
    BY <2>1
  <2>3. (((x + 1) % D) + D - 1) % D = x % D
    BY <1>1, DayBefore
  <2>. QED  BY <1>6, <2>1, <2>2, <2>3 DEF yesterday, D
<1>. QED  BY <1>2, <1>6, <1>7, <1>8, <1>9 DEF Days, D

-----------------------------------------------------------------------------

(* The schedule, j days from today *)

Row(j) == rows[(day(now) + j) % DaysInWeek]

LEMMA RowTypes ==
  ASSUME TypeInv, NEW r \in Rows
  PROVE  /\ r.kind \in {"window", "closed", "none"} /\ r.opens \in Minutes /\ r.closes \in Minutes
         /\ r.kind = "none" <=> r = NoRow
<1>1. 0 \in Minutes
  BY Lengths DEF Minutes
<1>. QED  BY <1>1 DEF Rows, Window, NoRow, ClosedDay

LEMMA RowsAhead ==
  ASSUME TypeInv, NEW j \in Nat
  PROVE  Row(j) \in Rows /\ (day(now) + j) % DaysInWeek \in Days
<1>1. day(now) + j \in Nat /\ DaysInWeek \in Nat \ {0}
  BY Now, Lengths DEF Days
<1>2. (day(now) + j) % DaysInWeek \in Days
  BY <1>1, Division DEF Days
<1>. QED  BY <1>2 DEF Row, TypeInv

\* The schedule's word on minute s of a day, from its row and the day before's.
Says(today, before, s) ==
    \/ today.kind = "window" /\ today.opens = today.closes
    \/ today.kind = "window" /\ today.opens < today.closes /\ today.opens <= s /\ s < today.closes
    \/ today.kind = "window" /\ today.opens > today.closes /\ s >= today.opens
    \/ before.kind = "window" /\ before.opens > before.closes /\ s < before.closes

LEMMA StatusAhead ==
  ASSUME TypeInv, is_open, rows # NoSchedule,
         NEW k \in Nat, NEW j \in Nat, NEW s \in Minutes, time(now) + k = j * MinutesInDay + s
  PROVE  schedule_status(now + k) <=> Says(Row(j), IF j = 0 THEN rows[yesterday(now)] ELSE Row(j - 1), s)
<1>1. /\ day(now + k) = (day(now) + j) % DaysInWeek /\ time(now + k) = s
      /\ j = 0 => yesterday(now + k) = yesterday(now)
      /\ j > 0 => yesterday(now + k) = (day(now) + (j - 1)) % DaysInWeek
  BY Instant
<1>2. rows[day(now + k)] = Row(j)
  BY <1>1 DEF Row
<1>3. rows[yesterday(now + k)] = IF j = 0 THEN rows[yesterday(now)] ELSE Row(j - 1)
  BY <1>1 DEF Row
<1>. QED  BY <1>1, <1>2, <1>3 DEF schedule_status, OpenToday, CarriedOver, AllDay, Says

LEMMA Today ==
  ASSUME TypeInv
  PROVE  Row(0) = rows[day(now)]
<1>1. DaysInWeek \in Nat \ {0} /\ day(now) \in Nat /\ day(now) \in 0..DaysInWeek - 1 /\ day(now) = 0 * DaysInWeek + day(now)
  BY Now, Lengths DEF Days
<1>2. day(now) % DaysInWeek = day(now) /\ day(now) + 0 = day(now)
  BY <1>1, Quotient
<1>. QED  BY <1>2 DEF Row

\* A closed minute of a venue that is switched on: what today's and
\* yesterday's rows are not.
ShutNow == TypeInv /\ is_open /\ ~Accepted

LEMMA WhyShut ==
  ASSUME ShutNow
  PROVE  rows # NoSchedule /\ ~Says(Row(0), rows[yesterday(now)], time(now))
<1>1. rows # NoSchedule
  BY DEF ShutNow, Accepted, schedule_status
<1>. QED  BY <1>1, Today DEF ShutNow, Accepted, schedule_status, OpenToday, CarriedOver, AllDay, Says

LEMMA AheadIs ==
  ASSUME TypeInv
  PROVE  \A j : j \in Ahead(now) <=> /\ j \in 0..DaysInWeek - 1 /\ Row(j).kind = "window"
                                     /\ j = 0 => Row(j).opens > time(now)
BY DEF Ahead, Row

\* On a day before the first opening ahead, and on that day before it opens,
\* nothing is open.
LEMMA Quiet ==
  ASSUME ShutNow, NEW a \in 0..DaysInWeek, \A j \in 0..a - 1 : j \notin Ahead(now),
         NEW k \in Nat, k > 0, NEW j \in Nat, NEW s \in Minutes, time(now) + k = j * MinutesInDay + s,
         \/ j < a
         \/ /\ j = a /\ Row(a).kind = "window" /\ s < Row(a).opens
            /\ AllDay(Row(a)) => Row(a).opens = 0
            /\ a = 0 => Row(0).opens > time(now)
  PROVE  ~schedule_status(now + k)
<1>1. TypeInv /\ is_open /\ rows # NoSchedule /\ ~Says(Row(0), rows[yesterday(now)], time(now))
  BY WhyShut DEF ShutNow
<1>2. time(now) \in Nat /\ s \in Nat /\ DaysInWeek \in Nat
  BY <1>1, Now, Lengths DEF Minutes
<1>3. \A i \in Nat : Row(i) \in Rows /\ Row(i).opens \in Nat /\ Row(i).closes \in Nat
  <2>1. Minutes \subseteq Nat
    BY Lengths DEF Minutes
  <2>. QED  BY <1>1, <2>1, RowsAhead, RowTypes
<1>4. rows[yesterday(now)].closes \in Nat /\ rows[yesterday(now)].opens \in Nat
  <2>1. yesterday(now) \in Days
    <3>1. day(now) + DaysInWeek - 1 \in Nat /\ DaysInWeek \in Nat \ {0}
      BY <1>1, Now, Lengths DEF Days
    <3>. QED  BY <3>1, Division DEF yesterday, Days
  <2>2. Minutes \subseteq Nat
    BY Lengths DEF Minutes
  <2>. QED  BY <1>1, <2>1, <2>2, RowTypes DEF TypeInv
<1>5. ASSUME NEW i \in Nat, 0 < i, i < a  PROVE Row(i).kind # "window"
  <2>1. i \in 0..a - 1 /\ i \in 0..DaysInWeek - 1
    BY <1>2, <1>5
  <2>. QED  BY <1>1, <1>5, <2>1, AheadIs
<1>6. ASSUME 0 < a, Row(0).kind = "window"  PROVE Row(0).opens <= time(now)
  <2>1. 0 \in 0..a - 1 /\ 0 \in 0..DaysInWeek - 1
    BY <1>2, <1>6
  <2>2. ~(Row(0).opens > time(now))
    BY <1>1, <1>6, <2>1, AheadIs
  <2>. QED  BY <1>2, <1>3, <2>2
<1>7. CASE j = 0
  <2>1. s > time(now)
    BY <1>2, <1>7, Lengths
  <2>2. ~Says(Row(0), rows[yesterday(now)], s)
    <3>1. 0 < a \/ (a = 0 /\ Row(0).kind = "window" /\ s < Row(0).opens)
      BY <1>7
    <3>. QED  BY <1>1, <1>2, <1>3, <1>4, <1>6, <2>1, <3>1 DEF Says
  <2>. QED  BY <1>1, <1>7, <2>2, StatusAhead
<1>8. CASE j > 0
  <2>1. j - 1 \in Nat /\ 0 < a /\ j - 1 < a
    BY <1>8
  <2>2. ~(Row(j - 1).kind = "window" /\ Row(j - 1).opens > Row(j - 1).closes)
    <3>1. CASE j - 1 > 0
      BY <1>5, <2>1, <3>1
    <3>2. CASE j - 1 = 0
      <4>1. ~(Row(0).kind = "window" /\ Row(0).opens > Row(0).closes)
        BY <1>1, <1>2, <1>3, <1>6, <2>1 DEF Says
      <4>. QED  BY <3>2, <4>1
    <3>. QED  BY <2>1, <3>1, <3>2
  <2>3. CASE j < a
    <3>1. Row(j).kind # "window"
      BY <1>5, <1>8, <2>3
    <3>2. ~Says(Row(j), Row(j - 1), s)
      BY <2>2, <3>1 DEF Says
    <3>. QED  BY <1>1, <1>8, <3>2, StatusAhead
  <2>4. CASE j = a /\ s < Row(j).opens /\ (AllDay(Row(j)) => Row(j).opens = 0)
    <3>1. Row(j).opens \in Nat /\ Row(j).closes \in Nat
      BY <1>3
    <3>2. ~Says(Row(j), Row(j - 1), s)
      BY <1>2, <2>2, <2>4, <3>1 DEF Says, AllDay
    <3>. QED  BY <1>1, <1>8, <3>2, StatusAhead
  <2>. QED  BY <2>3, <2>4
<1>. QED  BY <1>7, <1>8

-----------------------------------------------------------------------------

(* The first opening ahead *)

LEMMA LeastElement ==
    ASSUME NEW S \in SUBSET Nat, S # {}
    PROVE  \E n \in S : \A m \in S : n <= m
<1> DEFINE T == {0..n : n \in S}
<1>1. T \subseteq FiniteSubsetsOf(Nat) /\ T # {}
  <2>1. \A n \in S : 0..n \subseteq Nat /\ IsFiniteSet(0..n)
    BY FS_Interval
  <2> QED
    BY <2>1 DEF FiniteSubsetsOf
<1>2. PICK x \in T : \A y \in T : ~(<<y, x>> \in StrictSubsetOrdering(Nat))
  BY <1>1, FS_StrictSubsetOrderingWellFounded, WFMin
<1>3. PICK n \in S : x = 0..n
  OBVIOUS
<1>4. ASSUME NEW m \in S, m < n PROVE FALSE
  <2>1. 0..m \in T /\ 0..m \subseteq 0..n /\ 0..m # 0..n /\ 0..m \subseteq Nat /\ 0..n \subseteq Nat
    BY <1>4
  <2>2. <<0..m, 0..n>> \in StrictSubsetOrdering(Nat)
    BY <2>1 DEF StrictSubsetOrdering
  <2> QED
    BY <1>2, <1>3, <2>1, <2>2
<1> QED
  BY <1>4

LEMMA MinIs ==
  ASSUME NEW S \in SUBSET Nat, NEW n \in S, \A m \in S : n <= m
  PROVE  Min(S) = n
<1>1. PICK x : x = Min(S)
  OBVIOUS
<1>2. x \in S /\ \A m \in S : x <= m
  BY <1>1 DEF Min
<1>3. x \in Nat /\ n \in Nat /\ x <= n /\ n <= x
  BY <1>2
<1>. QED  BY <1>1, <1>3

\* The minutes to the opening on day a, when no day before it has one ahead.
LEMMA FirstAhead ==
  ASSUME TypeInv, NEW a \in Ahead(now), \A j \in 0..a - 1 : j \notin Ahead(now)
  PROVE  /\ a \in 0..DaysInWeek - 1 /\ Row(a).kind = "window" /\ Row(a).opens \in Minutes
         /\ a = 0 => Row(0).opens > time(now)
         /\ next_open(now) = a * MinutesInDay + Row(a).opens - time(now)
         /\ next_open(now) \in Nat /\ next_open(now) > 0
<1>1. a \in 0..DaysInWeek - 1 /\ Row(a).kind = "window" /\ (a = 0 => Row(0).opens > time(now))
  BY AheadIs
<1>2. Ahead(now) \in SUBSET Nat
  BY Lengths DEF Ahead
<1>3. \A m \in Ahead(now) : a <= m
  BY <1>1, <1>2, Lengths
<1>4. Min(Ahead(now)) = a
  BY <1>2, <1>3, MinIs
<1>5. next_open(now) = a * MinutesInDay + Row(a).opens - time(now)
  BY <1>4 DEF next_open, Row
<1>6. Row(a).opens \in Minutes
  BY <1>1, RowsAhead, RowTypes, Lengths
<1>7. PICK M \in Nat \ {0}, o \in Nat, t \in Nat, b \in Nat :
        /\ M = MinutesInDay /\ o = Row(a).opens /\ t = time(now) /\ t < M /\ b = a
        /\ b = 0 => o > t
  BY <1>1, <1>6, Now, Lengths DEF Minutes
<1>8. b * M + o - t \in Nat /\ b * M + o - t > 0
  <2>1. CASE b = 0
    BY <1>7, <2>1
  <2>2. CASE b >= 1
    <3>1. b * M >= 1 * M /\ b * M \in Nat
      BY ONLY <2>2, b \in Nat, M \in Nat \ {0}
    <3>. QED  BY <1>7, <3>1
  <2>. QED  BY <2>1, <2>2
<1>. QED  BY <1>1, <1>5, <1>6, <1>7, <1>8

\* No row has an opening ahead: closed until today's weekday comes again.
LEMMA NothingAhead ==
  ASSUME ShutNow, Ahead(now) = {}
  PROVE  /\ next_open(now) = 0
         /\ \A k \in 1..Week - time(now) - 1 : ~schedule_status(now + k)
<1>1. DaysInWeek \in 0..DaysInWeek
  BY Lengths
<1>2. ASSUME NEW k \in 1..Week - time(now) - 1  PROVE ~schedule_status(now + k)
  <2>1. PICK M \in Nat \ {0}, D \in Nat, t \in Nat : M = MinutesInDay /\ D = DaysInWeek /\ t = time(now)
    <3>1. TypeInv
      BY DEF ShutNow
    <3>2. MinutesInDay \in Nat \ {0} /\ DaysInWeek \in Nat /\ time(now) \in Nat
      BY <3>1, Now, Lengths DEF Minutes
    <3>. QED  BY <3>2
  <2>2. k \in Nat /\ k > 0 /\ t + k \in Nat /\ t + k < D * M + 0 /\ D * M \in Nat
    BY <2>1, Lengths DEF Week
  <2>3. PICK j \in Nat, s \in 0..M - 1 : t + k = j * M + s
    <3>1. PICK x \in Nat : x = t + k
      BY <2>2
    <3>2. \E j \in Nat, s \in 0..M - 1 : x = j * M + s
      BY ONLY x \in Nat, M \in Nat \ {0}, Division
    <3>. QED  BY <3>1, <3>2
  <2>4. 0 \in 0..M - 1
    BY <2>1
  <2>5. j < D
    BY ONLY <2>1, <2>2, <2>3, <2>4, Later
  <2>6. s \in Minutes /\ time(now) + k = j * MinutesInDay + s /\ j < DaysInWeek
    BY <2>1, <2>3, <2>5 DEF Minutes
  <2>. QED  BY <1>1, <2>2, <2>6, Quiet
<1>. QED  BY <1>2 DEF next_open

\* The row of the first opening ahead is open at its first minute; before, nothing
\* is, but the same day if it is open all day.
LEMMA OpensThen ==
  ASSUME ShutNow, NEW a \in Ahead(now), \A j \in 0..a - 1 : j \notin Ahead(now)
  PROVE  /\ schedule_status(now + next_open(now))
         /\ \A k \in 1..next_open(now) - 1 : schedule_status(now + k)
               => AllDay(rows[day(now + k)]) /\ day(now + k) = day(now + next_open(now))
<1>0. TypeInv /\ is_open /\ rows # NoSchedule
  BY WhyShut DEF ShutNow
<1>1. PICK n \in Nat : n = next_open(now) /\ n > 0
  BY <1>0, FirstAhead
<1>2. PICK M \in Nat \ {0}, t \in Nat, o \in Minutes :
        M = MinutesInDay /\ t = time(now) /\ o = Row(a).opens
  <2>1. time(now) \in Minutes /\ Row(a).opens \in Minutes /\ MinutesInDay \in Nat \ {0}
    BY <1>0, FirstAhead, Now, Lengths
  <2>. QED  BY <2>1 DEF Minutes
<1>3. /\ a \in Nat /\ a \in 0..DaysInWeek /\ o \in Nat /\ o \in 0..M - 1 /\ a * M \in Nat
      /\ t + n = a * M + o /\ Row(a).kind = "window" /\ Row(a).closes \in Nat
      /\ a = 0 => Row(0).opens > time(now)
  <2>1. /\ a \in 0..DaysInWeek - 1 /\ Row(a).kind = "window" /\ n = a * M + o - t
        /\ a = 0 => Row(0).opens > time(now)
    BY <1>0, <1>1, <1>2, FirstAhead
  <2>2. a \in Nat /\ o \in Nat /\ a \in 0..DaysInWeek /\ o \in 0..M - 1
    BY <1>2, <2>1, Lengths DEF Minutes
  <2>3. a * M \in Nat
    BY ONLY <2>2, M \in Nat \ {0}
  <2>4. Row(a).closes \in Nat
    BY <1>0, <2>2, RowsAhead, RowTypes, Lengths DEF Minutes
  <2>. QED  BY <2>1, <2>2, <2>3, <2>4
<1>4. schedule_status(now + n)
  <2>1. time(now) + n = a * MinutesInDay + o
    BY <1>2, <1>3
  <2>2. PICK before : before = IF a = 0 THEN rows[yesterday(now)] ELSE Row(a - 1)
    OBVIOUS
  <2>3. Says(Row(a), before, o)
    BY <1>2, <1>3 DEF Says
  <2>. QED  BY <1>0, <1>3, <2>1, <2>2, <2>3, StatusAhead
<1>5. ASSUME NEW k \in 1..n - 1, schedule_status(now + k)
      PROVE  AllDay(rows[day(now + k)]) /\ day(now + k) = day(now + n)
  <2>1. k \in Nat /\ k > 0 /\ t + k \in Nat /\ t + k < a * M + o
    BY <1>2, <1>3
  <2>2. PICK j \in Nat, s \in 0..M - 1 : t + k = j * M + s
    <3>1. PICK x \in Nat : x = t + k
      BY <2>1
    <3>2. \E j \in Nat, s \in 0..M - 1 : x = j * M + s
      BY ONLY x \in Nat, M \in Nat \ {0}, Division
    <3>. QED  BY <3>1, <3>2
  <2>3. j < a \/ (j = a /\ s < o)
    BY ONLY <1>2, <1>3, <2>1, <2>2, Later
  <2>4. s \in Minutes /\ time(now) + k = j * MinutesInDay + s
    BY <1>2, <2>2 DEF Minutes
  <2>5. j = a /\ AllDay(Row(a))
    BY <1>2, <1>3, <1>5, <2>1, <2>3, <2>4, Quiet
  <2>6. day(now + k) = (day(now) + a) % DaysInWeek
    BY <1>0, <1>3, <2>1, <2>4, <2>5, Instant
  <2>7. time(now) + n = a * MinutesInDay + o
    BY <1>2, <1>3
  <2>8. day(now + n) = (day(now) + a) % DaysInWeek
    BY <1>0, <1>3, <2>7, Instant
  <2>. QED  BY <2>5, <2>6, <2>8 DEF Row
<1>. QED  BY <1>1, <1>4, <1>5

\* The weekday of the opening, counted from today's, is the day it is on.
LEMMA CountsTheDays ==
  ASSUME TypeInv, NEW a \in Ahead(now), \A j \in 0..a - 1 : j \notin Ahead(now)
  PROVE  /\ DaysAhead * MinutesInDay <= next_open(now) + time(now)
         /\ next_open(now) + time(now) < (DaysAhead + 1) * MinutesInDay
<1>1. PICK n \in Nat : n = next_open(now)
  BY FirstAhead
<1>2. PICK M \in Nat \ {0}, t \in Nat, o \in Nat, b \in Nat :
        /\ M = MinutesInDay /\ t = time(now) /\ o = Row(a).opens /\ b = a
        /\ t \in Minutes /\ o \in Minutes /\ o < M /\ b < DaysInWeek
  <2>1. a \in 0..DaysInWeek - 1 /\ Row(a).opens \in Minutes /\ time(now) \in Minutes
    BY FirstAhead, Now
  <2>2. MinutesInDay \in Nat \ {0} /\ DaysInWeek \in Nat /\ Minutes = 0..MinutesInDay - 1
    BY Lengths DEF Minutes
  <2>. QED  BY <2>1, <2>2
<1>3. n = b * M + o - t
  BY <1>1, <1>2, FirstAhead
<1>4. b * M \in Nat /\ (b + 1) * M = b * M + M
  BY ONLY b \in Nat, M \in Nat \ {0}
<1>5. PICK D \in Nat \ {0}, d \in Nat : D = DaysInWeek /\ d = day(now) /\ d < D
  BY Now, Lengths DEF Days
<1>6. day(now + n) = (d + b) % D
  <2>1. time(now) + n = b * MinutesInDay + o
    BY <1>2, <1>3, <1>4
  <2>. QED  BY <1>1, <1>2, <1>5, <2>1, Instant
<1>7. DaysAhead = (((d + b) % D) + D - d) % D
  BY <1>1, <1>5, <1>6 DEF DaysAhead
<1>8. (((d + b) % D) + D - d) % D = b
  <2>1. PICK c \in Nat : c = d + b
    OBVIOUS
  <2>2. b \in 0..D - 1
    BY <1>2, <1>5
  <2>3. CASE c < D
    <3>1. c \in 0..D - 1 /\ c = 0 * D + c
      BY <2>3
    <3>2. c % D = c
      BY ONLY <1>5, <3>1, c \in Nat, Quotient
    <3>3. PICK e \in Nat, q \in Nat : e = c + D - d /\ q = 1 /\ e = q * D + b
      BY <2>1
    <3>4. e % D = b
      <4>1. D \in Nat \ {0} /\ b \in 0..D - 1 /\ e = q * D + b
        BY <1>5, <2>2, <3>3
      <4>. QED  BY ONLY <4>1, e \in Nat, q \in Nat, b \in Nat, Quotient
    <3>. QED  BY <2>1, <3>2, <3>3, <3>4
  <2>4. CASE c >= D
    <3>1. PICK r \in 0..D - 1 : r = c - D
      BY <1>2, <1>5, <2>1, <2>4
    <3>2. PICK q \in Nat : q = 1 /\ c = q * D + r
      BY <3>1
    <3>3. c % D = r
      <4>1. D \in Nat \ {0} /\ c = q * D + r
        BY <1>5, <3>2
      <4>. QED  BY ONLY <4>1, c \in Nat, q \in Nat, r \in 0..D - 1, Quotient
    <3>4. PICK e \in Nat, z \in Nat : e = r + D - d /\ z = 0 /\ e = z * D + b
      <4>1. r + D - d = b /\ 0 * D = 0
        BY <1>5, <2>1, <3>1
      <4>. QED  BY <4>1
    <3>5. e % D = b
      <4>1. D \in Nat \ {0} /\ b \in 0..D - 1 /\ e = z * D + b
        BY <1>5, <2>2, <3>4
      <4>. QED  BY ONLY <4>1, e \in Nat, z \in Nat, b \in Nat, Quotient
    <3>. QED  BY <2>1, <3>3, <3>4, <3>5
  <2>. QED  BY <2>1, <2>3, <2>4
<1>9. DaysAhead = b
  BY <1>7, <1>8
<1>10. n + t = b * M + o /\ n + t < b * M + M
  BY <1>2, <1>3, <1>4
<1>. QED  BY <1>1, <1>2, <1>4, <1>9, <1>10

LEMMA HoursHold ==
  ASSUME TypeInv
  PROVE  OpensWhenAnnounced
<1>1. SUFFICES ASSUME is_open, ~Accepted
               PROVE  IF next_open(now) > 0
                      THEN /\ schedule_status(now + next_open(now))
                           /\ DaysAhead * MinutesInDay <= next_open(now) + time(now)
                           /\ next_open(now) + time(now) < (DaysAhead + 1) * MinutesInDay
                           /\ \A k \in 1..next_open(now) - 1 : schedule_status(now + k)
                                 => AllDay(rows[day(now + k)]) /\ day(now + k) = day(now + next_open(now))
                      ELSE \A k \in 1..Week : schedule_status(now + k) => time(now) + k >= Week
  BY DEF OpensWhenAnnounced
<1>2. ShutNow
  BY <1>1 DEF ShutNow
<1>3. CASE Ahead(now) = {}
  <2>1. ~(next_open(now) > 0)
    BY <1>2, <1>3, NothingAhead
  <2>2. ASSUME NEW k \in 1..Week, schedule_status(now + k)  PROVE time(now) + k >= Week
    <3>1. k \notin 1..Week - time(now) - 1
      BY <1>2, <1>3, <2>2, NothingAhead
    <3>2. time(now) \in Minutes /\ MinutesInDay \in Nat /\ Week \in Nat
      BY Now, Lengths
    <3>3. PICK w \in Nat, t \in Nat : w = Week /\ t = time(now)
      BY <3>2 DEF Minutes
    <3>. QED  BY <3>1, <3>3
  <2>. QED  BY <2>1, <2>2
<1>4. CASE Ahead(now) # {}
  <2>1. Ahead(now) \in SUBSET Nat
    BY Lengths DEF Ahead
  <2>2. PICK a \in Ahead(now) : \A m \in Ahead(now) : a <= m
    BY <1>4, <2>1, LeastElement
  <2>3. \A j \in 0..a - 1 : j \notin Ahead(now)
    BY <2>1, <2>2
  <2>4. next_open(now) > 0
    BY <2>3, FirstAhead
  <2>. QED  BY <1>2, <2>3, <2>4, OpensThen, CountsTheDays
<1>. QED  BY <1>3, <1>4

-----------------------------------------------------------------------------

(* The filter of browse and the check at checkout *)

LEMMA ClauseIsStatus ==
  ASSUME TypeInv
  PROVE  Accepted <=> is_open /\ within_schedule_clause
<1>1. day(now) \in Days /\ time(now) \in Nat
  BY Now, Lengths DEF Minutes
<1>2. yesterday(now) \in Days
  <2>1. day(now) + DaysInWeek - 1 \in Nat /\ DaysInWeek \in Nat \ {0}
    BY <1>1, Lengths DEF Days
  <2>. QED  BY <2>1, Division DEF yesterday, Days
<1>3. \A d \in Days : rows[d].opens \in Nat /\ rows[d].closes \in Nat /\ (rows[d].kind = "none" <=> rows[d] = NoRow)
  BY RowTypes, Lengths DEF TypeInv, Minutes
<1>4. rows = NoSchedule <=> \A d \in Days : rows[d].kind = "none"
  <2>1. rows = [d \in Days |-> rows[d]]
    BY DEF TypeInv
  <2>. QED  BY <1>3, <2>1 DEF NoSchedule
<1>5. AllDay(rows[day(now)]) \/ OpenToday(now) \/ CarriedOver(now)
        <=> \/ LET r == rows[day(now)] IN
               /\ r.kind = "window"
               /\ \/ r.opens = r.closes
                  \/ r.opens < r.closes /\ r.opens <= time(now) /\ r.closes > time(now)
                  \/ r.opens > r.closes /\ r.opens <= time(now)
            \/ LET r == rows[yesterday(now)] IN
               r.kind = "window" /\ r.opens > r.closes /\ r.closes > time(now)
  BY <1>1, <1>2, <1>3 DEF AllDay, OpenToday, CarriedOver
<1>. QED  BY <1>1, <1>2, <1>4, <1>5 DEF Accepted, schedule_status, within_schedule_clause

LEMMA FilterHolds ==
  ASSUME TypeInv
  PROVE  FilterIsCheckout
<1>1. Accepted <=> is_open /\ within_schedule_clause
  BY ClauseIsStatus
<1>2. closedReason = "open" <=> Accepted
  <2>1. CASE Accepted
    BY <2>1 DEF Accepted, closedReason
  <2>2. CASE ~Accepted /\ (~is_open \/ rows = NoSchedule)
    <3>1. closedReason = "manual"
      BY <2>2 DEF Accepted, closedReason
    <3>. QED  BY <2>2, <3>1
  <2>3. CASE ~Accepted /\ is_open /\ rows # NoSchedule
    <3>1. closedReason \in {"outside_hours", "closed_today"}
      BY <2>3 DEF Accepted, closedReason
    <3>. QED  BY <2>3, <3>1
  <2>. QED  BY <2>1, <2>2, <2>3
<1>. QED  BY <1>1, <1>2 DEF FilterIsCheckout, Found

-----------------------------------------------------------------------------

(* The price bands *)

LEMMA BoundsAre ==
  \E N \in Nat : /\ N = Cardinality(DOMAIN Bounds) /\ DOMAIN Bounds = 1..N
                 /\ \A b \in 1..N : Bounds[b] \in Nat
                 /\ \A b \in 1..N : b > 1 => Bounds[b - 1] < Bounds[b]
<1>1. PICK N : N = Cardinality(DOMAIN Bounds)
  OBVIOUS
<1>2. N \in Nat
  BY <1>1, CatalogueAssumption, FS_CardinalityType
<1>3. Bounds \in [1..N -> Nat \ {0}]
  BY <1>1, CatalogueAssumption
<1>. QED  BY <1>1, <1>2, <1>3, CatalogueAssumption

\* What neighbours say of the bounds holds of any two.
LEMMA BoundsRise ==
  ASSUME NEW N \in Nat, NEW B \in [1..N -> Nat], \A b \in 1..N : b > 1 => B[b - 1] < B[b],
         NEW b \in 1..N, NEW c \in 1..N, b < c
  PROVE  B[b] < B[c]
<1>. DEFINE S == {x \in 1..N : b < x /\ ~(B[b] < B[x])}
<1>1. SUFFICES ASSUME S # {} PROVE FALSE
  OBVIOUS
<1>2. S \in SUBSET Nat
  OBVIOUS
<1>3. PICK x \in S : \A y \in S : x <= y
  BY <1>1, <1>2, LeastElement
<1>4. x \in 1..N /\ b < x /\ x - 1 \in 1..N /\ x - 1 \notin S /\ B[x - 1] < B[x]
  BY <1>3
<1>5. B[b] \in Nat /\ B[x] \in Nat /\ B[x - 1] \in Nat
  BY <1>4
<1>6. CASE x - 1 = b
  BY <1>3, <1>4, <1>5, <1>6
<1>7. CASE b < x - 1
  <2>1. B[b] < B[x - 1]
    BY <1>4, <1>7
  <2>. QED  BY <1>3, <1>4, <1>5, <2>1
<1>. QED  BY <1>4, <1>6, <1>7

LEMMA BandsHold == BandsAgree
<1>0. PICK N \in Nat : /\ N = Cardinality(DOMAIN Bounds) /\ DOMAIN Bounds = 1..N
                       /\ \A b \in 1..N : Bounds[b] \in Nat
                       /\ \A b \in 1..N : b > 1 => Bounds[b - 1] < Bounds[b]
  BY BoundsAre
<1>1. PICK B \in [1..N -> Nat] : B = Bounds
  BY <1>0, CatalogueAssumption
<1>2. \A b \in 1..N, c \in 1..N : b < c => B[b] < B[c]
  BY <1>0, <1>1, BoundsRise
<1>3. SUFFICES ASSUME NEW price \in 0..MaxPrice, NEW b \in 1..N + 1
               PROVE  _price_band_clause(price, b) <=> band_for_price(price) = b
  BY <1>0 DEF BandsAgree
<1>4. price \in Nat /\ b \in Nat /\ (\A c \in 1..N : B[c] \in Nat)
  BY CatalogueAssumption
<1>ends. band_range(b).ends <=> b <= N
  <2>1. band_range(b).ends <=> b \in DOMAIN Bounds
    BY Zenon DEF band_range
  <2>2. b \in 1..N <=> b <= N
    BY <1>4
  <2>. QED  BY <1>0, <2>1, <2>2, Zenon
<1>5. _price_band_clause(price, b) <=> /\ b > 1 => price >= B[b - 1]
                                       /\ b <= N => price < B[b]
  <2>1. CASE b <= 1
    <3>1. band_range(b).lower = 0
      BY <2>1 DEF band_range
    <3>2. b <= N => band_range(b).upper = B[b]
      BY <1>0, <1>1, <1>4 DEF band_range
    <3>. QED  BY <1>4, <1>ends, <2>1, <3>1, <3>2 DEF _price_band_clause
  <2>2. CASE b > 1
    <3>1. Min({b - 1, N}) = b - 1
      <4>1. {b - 1, N} \in SUBSET Nat /\ b - 1 \in {b - 1, N} /\ \A m \in {b - 1, N} : b - 1 <= m
        BY <1>4, <2>2
      <4>. QED  BY <4>1, MinIs
    <3>2. band_range(b).lower = B[b - 1]
      BY <1>0, <1>1, <1>4, <2>2, <3>1 DEF band_range
    <3>3. b <= N => band_range(b).upper = B[b]
      BY <1>0, <1>1, <1>4 DEF band_range
    <3>. QED  BY <1>4, <1>ends, <2>2, <3>2, <3>3 DEF _price_band_clause
  <2>. QED  BY <1>4, <2>1, <2>2
<1>6. PICK above \in SUBSET (1..N) : above = {c \in 1..N : price < B[c]}
  OBVIOUS
<1>7. band_for_price(price) = IF above = {} THEN N + 1 ELSE Min(above)
  BY <1>0, <1>1, <1>6 DEF band_for_price
<1>8. ASSUME b > 1 => price >= B[b - 1], b <= N => price < B[b]
      PROVE  band_for_price(price) = b
  <2>1. \A c \in 1..N : c < b => ~(price < B[c])
    <3>1. ASSUME NEW c \in 1..N, c < b  PROVE B[c] <= price
      <4>1. b - 1 \in 1..N /\ b > 1 /\ (c = b - 1 \/ c < b - 1)
        BY <1>4, <3>1
      <4>2. B[c] = B[b - 1] \/ B[c] < B[b - 1]
        BY <1>2, <3>1, <4>1
      <4>. QED  BY <1>4, <1>8, <4>1, <4>2
    <3>. QED  BY <1>4, <3>1
  <2>2. CASE b <= N
    <3>1. b \in above /\ \A c \in above : b <= c
      BY <1>4, <1>6, <1>8, <2>1, <2>2
    <3>2. above \in SUBSET Nat
      OBVIOUS
    <3>3. Min(above) = b
      BY <3>1, <3>2, MinIs
    <3>. QED  BY <1>7, <3>1, <3>3
  <2>3. CASE b = N + 1
    <3>1. above = {}
      BY <1>6, <2>1, <2>3
    <3>. QED  BY <1>7, <2>3, <3>1
  <2>. QED  BY <1>4, <2>2, <2>3
<1>9. ASSUME band_for_price(price) = b
      PROVE  (b > 1 => price >= B[b - 1]) /\ (b <= N => price < B[b])
  <2>1. CASE above = {}
    <3>1. b = N + 1
      BY <1>7, <1>9, <2>1
    <3>2. ASSUME NEW c \in 1..N  PROVE price >= B[c]
      <4>1. c \notin above
        BY <2>1
      <4>2. ~(price < B[c])
        BY <1>6, <4>1
      <4>3. B[c] \in Nat
        OBVIOUS
      <4>. QED  BY <1>4, <4>2, <4>3
    <3>. QED  BY <1>4, <3>1, <3>2
  <2>2. CASE above # {}
    <3>1. above \in SUBSET Nat
      OBVIOUS
    <3>2. PICK x \in above : \A y \in above : x <= y
      BY <2>2, <3>1, LeastElement
    <3>3. x = b
      BY <1>7, <1>9, <2>2, <3>1, <3>2, MinIs
    <3>4. price < B[b]
      BY <1>6, <3>2, <3>3
    <3>5. b > 1 => b - 1 \notin above /\ b - 1 \in 1..N
      BY <1>4, <3>2, <3>3
    <3>. QED  BY <1>4, <1>6, <3>4, <3>5
  <2>. QED  BY <2>1, <2>2
<1>. QED  BY <1>5, <1>8, <1>9

-----------------------------------------------------------------------------

(* The specification *)

LEMMA Typed ==
  Spec => []TypeInv
<1>1. Init => TypeInv
  <2>1. 0 \in 0..Week - 1 /\ 0 \in 0..MaxEdits
    BY Lengths, CatalogueAssumption
  <2>2. NoSchedule \in [Days -> Rows]
    BY DEF NoSchedule, Rows
  <2>. QED  BY <2>1, <2>2 DEF Init, TypeInv
<1>2. TypeInv /\ [Next]_vars => TypeInv'
  <2>. SUFFICES ASSUME TypeInv, [Next]_vars  PROVE TypeInv'
    OBVIOUS
  <2>1. CASE Tick
    <3>1. now + 1 \in Nat /\ Week \in Nat \ {0}
      BY Now, Lengths
    <3>2. (now + 1) % Week \in 0..Week - 1
      BY <3>1, Division
    <3>. QED  BY <2>1, <3>2 DEF Tick, TypeInv
  <2>2. CASE SwitchKitchen
    BY <2>2 DEF SwitchKitchen, TypeInv
  <2>3. ASSUME NEW week \in [Days -> Rows], replace_opening_hours(week)
        PROVE  TypeInv'
    BY <2>3, CatalogueAssumption DEF replace_opening_hours, TypeInv
  <2>4. ASSUME NEW verdict \in BOOLEAN, set_approval(verdict)
        PROVE  TypeInv'
    BY <2>4 DEF set_approval, TypeInv
  <2>5. CASE UNCHANGED vars
    BY <2>5 DEF vars, TypeInv
  <2>. QED  BY <2>1, <2>2, <2>3, <2>4, <2>5 DEF Next
<1>. QED  BY <1>1, <1>2, PTL DEF Spec

\* In every reachable state, for a week and a day of any length, any schedule
\* and any price bands: browse's "open now" shows an approved venue exactly
\* when checkout would take its order (within_schedule_clause and
\* schedule_status agree); the opening _next_open names is one, on the day
\* availabilityDetailLabel counts, and the first but for a day that is open all day,
\* and only today's own comes within a week when none is named; and the band a venue
\* is filtered by is the band on its card (_price_band_clause, band_for_price).
THEOREM CardIsTrueAlways == Spec => []CardIsTrue
<1>1. TypeInv => CardIsTrue
  BY FilterHolds, BandsHold, HoursHold DEF CardIsTrue
<1>. QED  BY <1>1, Typed, PTL

=============================================================================
