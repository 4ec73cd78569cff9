---------------------------- MODULE Onboarding ----------------------------
(***************************************************************************)
(* How a restaurant's owner gets in: the sign-up in the users service, the *)
(* venue the restaurants service makes of it, the operator's decision, and *)
(* the event that carries it back (services/restaurants/app/service.py and *)
(* consumer.py, services/users/app/service.py and consumer.py).            *)
(*                                                                         *)
(* Both ways events go through an outbox and a broker: they come late,     *)
(* more than once and not always in order.  A transaction reads a venue    *)
(* with a plain SELECT; its UPDATE writes the columns that differ from     *)
(* what it read, and the event it records has the other columns as it read *)
(* them.                                                                   *)
(***************************************************************************)
EXTENDS Accounts

CONSTANTS
    Workers        \* transactions of the restaurants service at a time

VARIABLES
    signups,   \* accounts whose registration event is in the broker
    venues,    \* the restaurants, by id
    work,      \* work[h]: the transaction of worker h
    log,       \* log[v]: approval_status in the events of venue v, as they are sent
    next,      \* next[v]: the event of v the users service handles next
    skipped,   \* skipped[v]: was an event of v lost to the consumer?  (history)
    twoAtOnce, \* transactions that could not see each other's writes (history)
    overtaken  \* venues whose events were handled out of order (history)

venueVars == <<signups, venues, work, log, next, skipped, twoAtOnce, overtaken>>
accountsButMoves == <<user, pairs, links, call, epoch, crossed>>
vars == <<user, pairs, links, call, epoch, crossed, moves,
          signups, venues, work, log, next, skipped, twoAtOnce, overtaken>>

Decisions == {"approved", "rejected"}

\* everApproved is history.
Venue == [owner : Users, approval_status : Statuses \ {"none"}, is_open : BOOLEAN, everApproved : BOOLEAN]

\* A worker that has read: the venues of an owner (a new venue), or one row.
\* before (history) tells a write since then.
Work == [kind : {"idle", "new", "decide", "edit"}, owner : Users, venue : Nat,
         read : Venue, set : Decisions \cup {"none", "open", "closed"}, before : Nat]
Unread == [owner |-> CHOOSE u \in Users : TRUE, approval_status |-> "pending", is_open |-> FALSE, everApproved |-> FALSE]
Idle == [kind |-> "idle", owner |-> CHOOSE u \in Users : TRUE, venue |-> 0,
         read |-> Unread, set |-> "none", before |-> 0]

Init ==
    /\ AccountsInit
    /\ signups = {}
    /\ venues = <<>>
    /\ work = [h \in Workers |-> Idle]
    /\ log = <<>> /\ next = <<>> /\ skipped = <<>>
    /\ twoAtOnce = {} /\ overtaken = {}

-----------------------------------------------------------------------------

owned_by(u) == {v \in DOMAIN venues : venues[v].owner = u}

(* The sign-up, and the venue it asks for *)

\* The account and the registration event commit together.
Register(u) ==
    /\ register_user(u)
    /\ signups' = IF u \in Applicants THEN signups \cup {u} ELSE signups
    /\ UNCHANGED <<venues, work, log, next, skipped, twoAtOnce, overtaken>>

\* Mutant: the owner's venues are not looked up first.
NewVenueUnread(h, u) ==
    /\ work[h].kind = "idle"
    /\ u \in signups
    /\ work' = [work EXCEPT ![h] = [Idle EXCEPT !.kind = "new", !.owner = u, !.before = Cardinality(owned_by(u))]]
    /\ UNCHANGED <<signups, venues, log, next, skipped, twoAtOnce, overtaken>>
    /\ UNCHANGED accountVars

\* register_from_signup for a delivered event, or create_restaurant for an
\* owner with a token (its signature is all this service checks): both read
\* the owner's venues first.
NewVenueRead(h, u) ==
    /\ work[h].kind = "idle"
    /\ \/ u \in signups
       \/ u \in Applicants /\ \E i \in DOMAIN pairs : pairs[i].user = u
    /\ owned_by(u) = {}
    /\ work' = [work EXCEPT ![h] = [Idle EXCEPT !.kind = "new", !.owner = u, !.before = Cardinality(owned_by(u))]]
    /\ UNCHANGED <<signups, venues, log, next, skipped, twoAtOnce, overtaken>>
    /\ UNCHANGED accountVars

\* The broker drops the event once a handler is through with it; until then
\* it may deliver it again.
SignupAcknowledged(u) ==
    /\ u \in signups /\ owned_by(u) # {}
    /\ signups' = signups \ {u}
    /\ UNCHANGED <<venues, work, log, next, skipped, twoAtOnce, overtaken>>
    /\ UNCHANGED accountVars

NewVenueCommits(h) ==
    LET u == work[h].owner IN
    /\ work[h].kind = "new"
    /\ venues' = Append(venues, [owner |-> u, approval_status |-> "pending", is_open |-> FALSE, everApproved |-> FALSE])
    /\ log' = Append(log, <<"pending">>)
    /\ next' = Append(next, 1)
    /\ skipped' = Append(skipped, FALSE)
    /\ twoAtOnce' = IF Cardinality(owned_by(u)) = work[h].before THEN twoAtOnce ELSE twoAtOnce \cup owned_by(u) \cup {Len(venues) + 1}
    /\ work' = [work EXCEPT ![h] = Idle]
    /\ UNCHANGED <<signups, overtaken>>
    /\ UNCHANGED accountVars

(* The operator's decision, and the owner's edits *)

Reads(h, v, kind, value) ==
    /\ Move
    /\ work[h].kind = "idle"
    /\ work' = [work EXCEPT ![h] = [kind |-> kind, owner |-> venues[v].owner, venue |-> v,
                                    read |-> venues[v], set |-> value, before |-> Len(log[v])]]
    /\ UNCHANGED <<signups, venues, log, next, skipped, twoAtOnce, overtaken>>
    /\ UNCHANGED accountsButMoves

DecisionRead(h, v) == \E status \in Decisions : Reads(h, v, "decide", status)

\* update_restaurant, by the owner with a session: is_open stands for the columns.
EditRead(h, v) ==
    /\ \E i \in DOMAIN pairs : pairs[i].user = venues[v].owner
    /\ \E switch \in {"open", "closed"} : Reads(h, v, "edit", switch)

\* The row in the transaction's memory, which the event is made of.
set_approval(h) ==
    [work[h].read EXCEPT !.approval_status = work[h].set,
                         !.is_open = @ /\ work[h].set = "approved"]
update_restaurant(h) == [work[h].read EXCEPT !.is_open = work[h].set = "open"]

\* The UPDATE: a column that is as it was read is left as it is by now.
Updated(row, read, memory) ==
    LET status == IF memory.approval_status # read.approval_status THEN memory.approval_status ELSE row.approval_status IN
    [row EXCEPT !.approval_status = status,
                !.is_open = IF memory.is_open # read.is_open THEN memory.is_open ELSE @,
                !.everApproved = @ \/ status = "approved"]

\* Mutant: the event is made before the change.
PublishedBefore(v, memory) == log' = [log EXCEPT ![v] = Append(@, venues[v].approval_status)]

publish_restaurant(v, memory) == log' = [log EXCEPT ![v] = Append(@, memory.approval_status)]

WorkCommits(h) ==
    LET v == work[h].venue
        memory == IF work[h].kind = "decide" THEN set_approval(h) ELSE update_restaurant(h)
    IN
    /\ work[h].kind \in {"decide", "edit"}
    /\ venues' = [venues EXCEPT ![v] = Updated(@, work[h].read, memory)]
    /\ publish_restaurant(v, memory)
    /\ twoAtOnce' = IF Len(log[v]) = work[h].before THEN twoAtOnce ELSE twoAtOnce \cup {v}
    /\ work' = [work EXCEPT ![h] = Idle]
    /\ UNCHANGED <<signups, next, skipped, overtaken>>
    /\ UNCHANGED accountVars

(* The event, back in the users service *)

\* Mutant: any decision lets the owner in.
GrantedAnyway(row, status) == [row EXCEPT !.approval_status = status, !.is_active = TRUE]

\* Mutant: the status is recorded and nothing else.
RecordedOnly(row, status) == [row EXCEPT !.approval_status = status]

\* Only ever grants access; a rejection is recorded and takes nothing away.
Granted(row, status) == [row EXCEPT !.approval_status = status, !.is_active = @ \/ status = "approved"]

\* The events of a venue share a partition, and are handled one by one.
apply_restaurant_decision(v) ==
    /\ next[v] <= Len(log[v])
    /\ user' = [user EXCEPT ![venues[v].owner] = Granted(@, log[v][next[v]])]
    /\ next' = [next EXCEPT ![v] = @ + 1]
    /\ UNCHANGED <<pairs, links, call, epoch, crossed, moves>>
    /\ UNCHANGED <<signups, venues, work, log, skipped, twoAtOnce, overtaken>>

\* A consumer that restarts begins again where it last committed.
Redelivered(v) ==
    /\ Move
    /\ \E k \in 1..next[v] - 1 : next' = [next EXCEPT ![v] = k]
    /\ UNCHANGED <<signups, venues, work, log, skipped, twoAtOnce, overtaken>>
    /\ UNCHANGED accountsButMoves

\* The handler fails and a later commit of the partition goes past the event.
Skipped(v) ==
    /\ Move
    /\ next[v] <= Len(log[v])
    /\ next' = [next EXCEPT ![v] = @ + 1]
    /\ skipped' = [skipped EXCEPT ![v] = TRUE]
    /\ UNCHANGED <<signups, venues, work, log, twoAtOnce, overtaken>>
    /\ UNCHANGED accountsButMoves

\* A row that failed to be sent stays in the outbox behind the next one, and two
\* relays send at once.
Reordered(v) ==
    /\ Move
    /\ \E k \in next[v]..Len(log[v]) - 1 :
          LET s == log[v] IN log' = [log EXCEPT ![v] = [s EXCEPT ![k] = s[k + 1], ![k + 1] = s[k]]]
    /\ overtaken' = overtaken \cup {v}
    /\ UNCHANGED <<signups, venues, work, next, skipped, twoAtOnce>>
    /\ UNCHANGED accountsButMoves

\* A handler that was given up on after its time-out goes on, and commits after
\* those of later events.
LateDecision(v) ==
    /\ Move
    /\ \E k \in 1..next[v] - 1 : user' = [user EXCEPT ![venues[v].owner] = Granted(@, log[v][k])]
    /\ overtaken' = overtaken \cup {v}
    /\ UNCHANGED <<signups, venues, work, log, next, skipped, twoAtOnce>>
    /\ UNCHANGED <<pairs, links, call, epoch, crossed>>

Next ==
    \/ \E u \in Users : Register(u) \/ SignupAcknowledged(u)
    \/ SessionStep /\ UNCHANGED venueVars
    \/ \E h \in Workers :
          \/ \E u \in Applicants : NewVenueRead(h, u)
          \/ NewVenueCommits(h) \/ WorkCommits(h)
          \/ \E v \in DOMAIN venues : DecisionRead(h, v) \/ EditRead(h, v)
    \/ \E v \in DOMAIN venues :
          \/ apply_restaurant_decision(v) \/ Redelivered(v) \/ Skipped(v)
          \/ Reordered(v) \/ LateDecision(v)

Spec == Init /\ [][Next]_vars

\* The consumer goes on with what is published.
FairSpec == Spec /\ \A u \in Users : WF_vars(\E v \in owned_by(u) : apply_restaurant_decision(v))

-----------------------------------------------------------------------------

TypeOK ==
    /\ AccountsTypeOK
    /\ signups \subseteq Applicants
    /\ venues \in Seq(Venue)
    /\ work \in [Workers -> Work]
    /\ \A v \in DOMAIN log : log[v] \in Seq(Statuses)
    /\ DOMAIN next = DOMAIN venues /\ DOMAIN log = DOMAIN venues /\ DOMAIN skipped = DOMAIN venues
    /\ \A v \in DOMAIN next : next[v] \in 1..Len(log[v]) + 1
    /\ twoAtOnce \subseteq DOMAIN venues /\ overtaken \subseteq DOMAIN venues

\* An applicant who signs up has no session before an operator approved a
\* venue of theirs, however late, often or stale the events come.
NoSessionBeforeApproval ==
    \A i \in DOMAIN pairs :
        pairs[i].user \in Applicants /\ ~user[pairs[i].user].veteran
            => \E v \in owned_by(pairs[i].user) : venues[v].everApproved

\* A redelivered registration makes no second venue, nor does an owner who
\* also creates one by hand, unless both read before either committed.
OneVenuePerOwner ==
    \A v, w \in DOMAIN venues : v # w /\ venues[v].owner = venues[w].owner => {v, w} \subseteq twoAtOnce

\* Once the last event of an owner's venue has been handled, the account has
\* the status the venue has, redelivered events or not; unless events were lost,
\* sent or handled out of order, or made by edits that overlapped.
MirrorsDecision ==
    \A v \in DOMAIN venues :
        /\ owned_by(venues[v].owner) = {v} /\ next[v] > Len(log[v])
        /\ ~skipped[v] /\ v \notin twoAtOnce \cup overtaken
        => user[venues[v].owner].approval_status = venues[v].approval_status

\* An approved owner gets in, unless the event itself was lost on the way.
ApprovedGetsIn ==
    \A u \in Users :
        (\E v \in owned_by(u) : venues[v].approval_status = "approved")
            ~> user[u].is_active \/ \E v \in owned_by(u) : skipped[v]

=============================================================================
