----------------------------- MODULE Addresses -----------------------------
(***************************************************************************)
(* A customer's delivery address (services/users/app/profile.py), as the   *)
(* publisher of "address-events".  An edit reads the row, asks the geocoder*)
(* for the point of the new address, and commits: the UPDATE writes the    *)
(* columns that differ from what was read, and the event has the row as    *)
(* the request holds it.  Label, second line and the default flag, which   *)
(* no other service is told of, are left out.                              *)
(***************************************************************************)
EXTENDS Messaging

CONSTANTS
    MaxEdits,    \* bound on the edits
    Lines, Cities,
    FirstLine, FirstCity   \* the address first added

ASSUME AddressesAssumption ==
    /\ Lines \subseteq Nat \ {0} /\ Cities \subseteq Nat \ {0}
    /\ FirstLine \in Lines /\ FirstCity \in Cities
    /\ MaxEdits \in Nat

VARIABLES
    address,     \* the row
    edits,       \* the edits between their read and their commit
    edited,      \* how many there were
    overlapped   \* did an edit commit over one it had not seen?  (history)

addressVars == <<address, edits, edited, overlapped>>

\* What a point was geocoded from stands for the point; <<>> is a null.
Points == {<<>>} \cup (Lines \X Cities)

\* line is line1 and postal_code; no row is line 0.
Address == [line : Lines \cup {0}, city : Cities \cup {0}, point : Points]
NoAddress == [line |-> 0, city |-> 0, point |-> <<>>]

\* The row as read and as the request has changed it; before, the events
\* recorded by then.
Edit == [read : Address, memory : Address, before : Nat]

AddressesInit ==
    /\ address = NoAddress
    /\ edits = {} /\ edited = 0
    /\ overlapped = FALSE

\* The geocoder's answers: the point, or none (not found, failed, no key).
geocode(line, city) == {<<line, city>>, <<>>}

\* City and coordinates, never the street.
publish_address(row) == record_event([value |-> row.city, detail |-> row.point])

add_address(line, city) ==
    /\ address = NoAddress /\ outbox = <<>>
    /\ \E point \in geocode(line, city) :
         LET row == [line |-> line, city |-> city, point |-> point] IN
         address' = row /\ publish_address(row)
    /\ UNCHANGED <<edits, edited, overlapped>>

\* Mutant: a new city alone is not a move.
MovedWithinCity(row, line, city) == row.line # line

\* One of _LOCATION_FIELDS differs.
Moved(row, line, city) == row.line # line \/ row.city # city

\* update_address up to its commit: the edit may repeat what is there; one
\* that changes both line and city at once is left out, a bound.
UpdateRead(line, city) ==
    /\ address # NoAddress /\ (line = address.line \/ city = address.city)
    /\ Len(outbox) < MaxEvents
    /\ edited < MaxEdits /\ edited' = edited + 1
    /\ \E point \in IF Moved(address, line, city) THEN geocode(line, city) ELSE {address.point} :
         edits' = edits \cup {[read |-> address, memory |-> [line |-> line, city |-> city, point |-> point],
                               before |-> Len(outbox)]}
    /\ UNCHANGED <<address, overlapped>>
    /\ UNCHANGED messagingVars

\* The UPDATE leaves a column alone that the request did not change.
Written(now, was) == [f \in {"line", "city", "point"} |-> IF now[f] # was[f] THEN now[f] ELSE address[f]]

\* An edit that fails, or finds its row gone, is one that never commits.
UpdateCommits(e) ==
    /\ address # NoAddress
    /\ address' = Written(e.memory, e.read)
    /\ publish_address(e.memory)
    /\ overlapped' = (overlapped \/ e.before # Len(outbox))
    /\ edits' = edits \ {e}
    /\ UNCHANGED edited

\* Nobody is told.
delete_address ==
    /\ address # NoAddress
    /\ address' = NoAddress
    /\ UNCHANGED <<edits, edited, overlapped>>
    /\ UNCHANGED messagingVars

AddressStep ==
    \/ add_address(FirstLine, FirstCity)
    \/ \E line \in Lines, city \in Cities : UpdateRead(line, city)
    \/ \E e \in edits : UpdateCommits(e)
    \/ delete_address

=============================================================================
