----------------------------- MODULE Catalogue -----------------------------
(***************************************************************************)
(* What a customer is told about a venue and what the platform then does:  *)
(* the weekly schedule (services/restaurants/app/hours.py), the filters of *)
(* browse (discovery.py), the check at checkout (internal.py), and the     *)
(* words on the card (frontend/src/lib/hours.ts).  The schedule is written *)
(* twice in the code, in Python for checkout and the card and in SQL for   *)
(* the filter, and so are the price bands.                                 *)
(*                                                                         *)
(* The week has DaysInWeek days and the day MinutesInDay minutes, so that  *)
(* every week can be tried; the code has 7 and 1440.                       *)
(***************************************************************************)
EXTENDS Naturals, FiniteSetsExt

CONSTANTS
    DaysInWeek, MinutesInDay,
    Bounds,       \* PRICE_BAND_BOUNDS: Bounds[b] is the upper end of band b
    MaxPrice,     \* bound on the average prices tried
    MaxEdits      \* bound on the schedules the owner posts

ASSUME CatalogueAssumption ==
    /\ DaysInWeek \in Nat \ {0, 1} /\ MinutesInDay \in Nat \ {0}
    /\ {MaxPrice, MaxEdits} \subseteq Nat
    /\ IsFiniteSet(DOMAIN Bounds)
    /\ Bounds \in [1..Cardinality(DOMAIN Bounds) -> Nat \ {0}]
    /\ \A b \in DOMAIN Bounds : b > 1 => Bounds[b - 1] < Bounds[b]

VARIABLES
    approved,   \* is approval_status "approved"?
    is_open,    \* the owner's switch
    rows,       \* rows[d]: the opening_hours row of day d
    now,        \* minutes since the week began, local time
    edits

vars == <<approved, is_open, rows, now, edits>>

Days == 0..DaysInWeek - 1
Minutes == 0..MinutesInDay - 1
Week == DaysInWeek * MinutesInDay

\* OpeningHourDay: a closed day keeps no times, any other has both.
Window == [kind : {"window"}, opens : Minutes, closes : Minutes]
NoRow == [kind |-> "none", opens |-> 0, closes |-> 0]
ClosedDay == [kind |-> "closed", opens |-> 0, closes |-> 0]
Rows == Window \cup {NoRow, ClosedDay}
NoSchedule == [d \in Days |-> NoRow]

Init ==
    /\ approved = FALSE /\ is_open = FALSE
    /\ rows = NoSchedule
    /\ now = 0 /\ edits = 0

-----------------------------------------------------------------------------

(* What the schedule says at minute t of the week *)

day(t) == (t \div MinutesInDay) % DaysInWeek
time(t) == t % MinutesInDay
yesterday(t) == (day(t) + DaysInWeek - 1) % DaysInWeek

AllDay(r) == r.kind = "window" /\ r.opens = r.closes

\* The part of today's row, then what yesterday's runs over midnight.
OpenToday(t) ==
    LET r == rows[day(t)] IN
    /\ r.kind = "window"
    /\ \/ r.opens < r.closes /\ r.opens <= time(t) /\ time(t) < r.closes
       \/ r.opens > r.closes /\ time(t) >= r.opens
CarriedOver(t) ==
    LET r == rows[yesterday(t)] IN
    r.kind = "window" /\ r.opens > r.closes /\ time(t) < r.closes

schedule_status(t) ==
    is_open /\ (rows = NoSchedule \/ AllDay(rows[day(t)]) \/ OpenToday(t) \/ CarriedOver(t))

\* The days _next_open looks at whose row gives an opening still to come.
Ahead(t) ==
    {k \in 0..DaysInWeek - 1 :
        LET r == rows[(day(t) + k) % DaysInWeek] IN
        r.kind = "window" /\ (k = 0 => r.opens > time(t))}

\* How many minutes until the opening _next_open names, or 0 if it names none.
next_open(t) ==
    IF Ahead(t) = {} THEN 0
    ELSE LET k == Min(Ahead(t)) IN
         k * MinutesInDay + rows[(day(t) + k) % DaysInWeek].opens - time(t)

\* Mutant: the closing minute still counts.
ClauseClosesLate ==
    \/ rows = NoSchedule
    \/ \E d \in Days :
         /\ rows[d].kind = "window" /\ d = day(now)
         /\ \/ rows[d].opens = rows[d].closes
            \/ rows[d].opens < rows[d].closes /\ rows[d].opens <= time(now) /\ rows[d].closes >= time(now)
            \/ rows[d].opens > rows[d].closes /\ rows[d].opens <= time(now)
    \/ \E d \in Days : rows[d].kind = "window" /\ d = yesterday(now) /\ rows[d].opens > rows[d].closes /\ rows[d].closes > time(now)

\* The SQL of the open_only filter, over the table's rows.
within_schedule_clause ==
    \/ \A d \in Days : rows[d].kind = "none"
    \/ \E d \in Days :
         /\ rows[d].kind = "window" /\ d = day(now)
         /\ \/ rows[d].opens = rows[d].closes
            \/ rows[d].opens < rows[d].closes /\ rows[d].opens <= time(now) /\ rows[d].closes > time(now)
            \/ rows[d].opens > rows[d].closes /\ rows[d].opens <= time(now)
    \/ \E d \in Days :
         /\ rows[d].kind = "window" /\ d = yesterday(now)
         /\ rows[d].opens > rows[d].closes /\ rows[d].closes > time(now)

(* Browse, checkout and the card *)

\* search: approval always, switch and schedule with open_only.
Found(open_only) == approved /\ (open_only => is_open /\ within_schedule_clause)

\* validate_order's check; approval is not part of it.
Accepted == schedule_status(now)

\* closedReason, of what attach_opening_hours put in the answer; a day without
\* a row is read as closed.
closedReason ==
    CASE schedule_status(now) -> "open"
      [] ~schedule_status(now) /\ (~is_open \/ rows = NoSchedule) -> "manual"
      [] ~schedule_status(now) /\ is_open /\ rows # NoSchedule ->
            IF rows[day(now)].kind = "window" THEN "outside_hours" ELSE "closed_today"

\* availabilityDetailLabel counts the days to the opening from the two weekdays.
DaysAhead ==
    LET next_opens_day == day(now + next_open(now)) IN
    (next_opens_day + DaysInWeek - day(now)) % DaysInWeek

\* The window the filter bounds an average price to; the last has no end.
band_range(b) ==
    [lower |-> IF b <= 1 THEN 0 ELSE Bounds[Min({b - 1, Cardinality(DOMAIN Bounds)})],
     ends |-> b \in DOMAIN Bounds,
     upper |-> IF b \in DOMAIN Bounds THEN Bounds[b] ELSE 0]

_price_band_clause(price, b) ==
    /\ price >= band_range(b).lower
    /\ band_range(b).ends => price < band_range(b).upper

\* The band on the card: the first whose upper end is above the price.
band_for_price(price) ==
    LET above == {b \in DOMAIN Bounds : price < Bounds[b]} IN
    IF above = {} THEN Cardinality(DOMAIN Bounds) + 1 ELSE Min(above)

-----------------------------------------------------------------------------

(* The clock, the owner, the operator *)

Tick == now' = (now + 1) % Week /\ UNCHANGED <<approved, is_open, rows, edits>>

SwitchKitchen == is_open' = ~is_open /\ UNCHANGED <<approved, rows, now, edits>>

\* The whole week is replaced; an empty list clears it.
replace_opening_hours(week) ==
    /\ edits < MaxEdits
    /\ rows' = week
    /\ edits' = edits + 1
    /\ UNCHANGED <<approved, is_open, now>>

\* set_approval: a venue that is not approved is switched off.
set_approval(verdict) ==
    /\ approved' = verdict
    /\ is_open' = (is_open /\ verdict)
    /\ UNCHANGED <<rows, now, edits>>

Next ==
    \/ Tick \/ SwitchKitchen
    \/ \E week \in [Days -> Rows] : replace_opening_hours(week)
    \/ \E verdict \in BOOLEAN : set_approval(verdict)

Spec == Init /\ [][Next]_vars

-----------------------------------------------------------------------------

(* What a customer may rely on *)

\* Browse with "open now" shows an approved venue exactly when checkout would
\* take its order and the card says it is open.
FilterIsCheckout ==
    approved => /\ Found(TRUE) <=> Accepted
                /\ closedReason = "open" <=> Accepted

\* The band a venue is filtered by is the band on its card.
BandsAgree ==
    \A price \in 0..MaxPrice, b \in 1..Cardinality(DOMAIN Bounds) + 1 :
        _price_band_clause(price, b) <=> band_for_price(price) = b

\* A venue that is closed by its hours opens at the time _next_open names, on the
\* day the card names.  The function says "next scheduled opening within one week"
\* (hours.py:148), which it misses in two ways and no other.  A day that is open all
\* day is announced for the time its row happens to have, and is open from midnight.
\* And if nothing is announced, there may be an opening still: the one today has
\* already had, when its weekday comes again.
OpensWhenAnnounced ==
    is_open /\ ~Accepted =>
        LET n == next_open(now) IN
        IF n > 0
        THEN /\ schedule_status(now + n)
             /\ DaysAhead * MinutesInDay <= n + time(now)
             /\ n + time(now) < (DaysAhead + 1) * MinutesInDay
             /\ \A k \in 1..n - 1 :
                   schedule_status(now + k) => AllDay(rows[day(now + k)]) /\ day(now + k) = day(now + n)
        ELSE \A k \in 1..Week : schedule_status(now + k) => time(now) + k >= Week

\* What the card and the filter say is what checkout does: open or closed, until
\* when, and in which price band; but for the two openings above.
CardIsTrue == FilterIsCheckout /\ BandsAgree /\ OpensWhenAnnounced

=============================================================================
