------------------------- MODULE OnboardingProofs -------------------------
(***************************************************************************)
(* Proofs about Onboarding, and so about Accounts: for any accounts, owners *)
(* from before approval among them, any calls and workers at a time, any   *)
(* faults.                                                                 *)
(***************************************************************************)
EXTENDS Onboarding, FiniteSetTheorems, SequenceTheorems, TLAPS

\* What every call and transaction leaves well typed.  The histories of the
\* venues are sequences as long as the table.
AccountTypes ==
    /\ user \in [Users -> Account]
    /\ pairs \in Seq(Pair) /\ links \in Seq(Link)
    /\ call \in [Requests -> Call]
    /\ epoch \in [Users -> Nat] /\ crossed \in [Users -> BOOLEAN]
    /\ moves \in 0..MaxMoves

VenueTypes ==
    /\ signups \subseteq Applicants
    /\ venues \in Seq(Venue)
    /\ work \in [Workers -> Work]
    /\ log \in Seq(Seq(Statuses)) /\ next \in Seq(Nat) /\ skipped \in Seq(BOOLEAN)
    /\ Len(log) = Len(venues) /\ Len(next) = Len(venues) /\ Len(skipped) = Len(venues)
    /\ \A v \in DOMAIN venues : log[v] # <<>> /\ next[v] \in 1..Len(log[v]) + 1
    /\ twoAtOnce \subseteq DOMAIN venues /\ overtaken \subseteq DOMAIN venues

\* Nobody has anything before they sign up.
Registered(u) == user[u].registered
FreshInv ==
    \A u \in Users : ~Registered(u) =>
        /\ ~user[u].is_active /\ user[u].generation = 0 /\ epoch[u] = 0
        /\ u \notin signups
        /\ \A v \in DOMAIN venues : venues[v].owner # u
        /\ \A h \in Workers : work[h].kind = "new" => work[h].owner # u

\* An account that may sign in, and whoever holds a pair, a link or a call.
Cleared(u) == u \in Applicants /\ ~user[u].veteran => \E v \in owned_by(u) : venues[v].everApproved
Known(u) == Registered(u) /\ Cleared(u)
KnownInv ==
    /\ \A u \in Users : user[u].is_active => Known(u)
    /\ \A i \in DOMAIN pairs : Known(pairs[i].user)
    /\ \A l \in DOMAIN links : Known(links[l].user)
    /\ \A q \in Requests : call[q].pc # "idle" => Known(call[q].user)

\* While no change of the password has overwritten another's count, the
\* generation is the number of the password, in the row, in every token and
\* in every call that will issue one.
GenerationInv ==
    /\ \A u \in Users : crossed[u] \/ user[u].generation = epoch[u]
    /\ \A i \in DOMAIN pairs : crossed[pairs[i].user] \/ pairs[i].generation = pairs[i].epoch
    /\ \A q \in Requests : call[q].pc = "issue" => crossed[call[q].user] \/ call[q].generation = call[q].epoch

\* A worker that has read works on a row of the table or, for a new venue,
\* has found none of the owner's.
WorkInv ==
    \A h \in Workers :
        /\ work[h].kind = "new" => work[h].before = 0
        /\ work[h].kind \in {"decide", "edit"} =>
              /\ work[h].venue \in DOMAIN venues
              /\ work[h].read.owner = venues[work[h].venue].owner
              /\ work[h].before <= Len(log[work[h].venue])
        /\ work[h].kind = "decide" => work[h].set \in Decisions

\* What says "approved", in a row, an event or a worker's memory, is of a
\* venue that was approved.
ApprovedInv ==
    /\ \A v \in DOMAIN venues :
          /\ venues[v].approval_status = "approved" => venues[v].everApproved
          /\ \A k \in DOMAIN log[v] : log[v][k] = "approved" => venues[v].everApproved
    /\ \A h \in Workers :
          work[h].kind \in {"decide", "edit"} /\ work[h].read.approval_status = "approved"
              => venues[work[h].venue].everApproved

\* While no two transactions on a venue were blind to each other, its last
\* event is its row, if the events were sent in order, and a worker no commit has overtaken has the row as it is.
Last(s) == s[Len(s)]
LastEventInv ==
    /\ \A v \in DOMAIN venues : v \notin twoAtOnce \cup overtaken => Last(log[v]) = venues[v].approval_status
    /\ \A h \in Workers :
          work[h].kind \in {"decide", "edit"} /\ work[h].venue \notin twoAtOnce
              /\ work[h].before = Len(log[work[h].venue])
                  => work[h].read.approval_status = venues[work[h].venue].approval_status

\* Whoever has handled the last event of an owner's only venue, and not lost
\* it, has put it in the account, if they came in order.
MirrorInv ==
    \A v \in DOMAIN venues :
        owned_by(venues[v].owner) = {v} /\ next[v] > Len(log[v]) /\ ~skipped[v] /\ v \notin overtaken
            => user[venues[v].owner].approval_status = Last(log[v])

IInv ==
    /\ AccountTypes /\ VenueTypes /\ FreshInv /\ KnownInv /\ GenerationInv
    /\ WorkInv /\ ApprovedInv /\ OneVenuePerOwner /\ LastEventInv /\ MirrorInv

-----------------------------------------------------------------------------

(* Records, and what the venues of an owner are *)

LEMMA RecordTypes ==
  /\ NotRegistered \in Account /\ NoCall \in Call /\ Unread \in Venue /\ Idle \in Work
  /\ NoCall.pc = "idle" /\ Idle.kind = "idle"
<1>. PICK u \in Users : u = CHOOSE w \in Users : TRUE
  BY AccountsAssumption
<1>. QED  BY DEF NotRegistered, NoCall, Unread, Idle, Account, Call, Venue, Work, Statuses, Decisions

LEMMA Elements ==
  ASSUME NEW S, NEW s \in Seq(S)
  PROVE  DOMAIN s = 1..Len(s) /\ Len(s) \in Nat /\ \A i \in DOMAIN s : s[i] \in S
BY LenProperties, ElementOfSeq

LEMMA AccountFields ==
  ASSUME AccountTypes
  PROVE  /\ \A u \in Users : user[u] \in Account /\ epoch[u] \in Nat /\ crossed[u] \in BOOLEAN
         /\ \A i \in DOMAIN pairs : pairs[i] \in Pair /\ pairs[i].user \in Users
         /\ \A l \in DOMAIN links : links[l] \in Link /\ links[l].user \in Users
         /\ \A q \in Requests : call[q] \in Call /\ call[q].user \in Users
<1>1. /\ \A i \in DOMAIN pairs : pairs[i] \in Pair
      /\ \A l \in DOMAIN links : links[l] \in Link
  BY Elements DEF AccountTypes
<1>. QED  BY <1>1 DEF AccountTypes, Pair, Link, Call

LEMMA VenueFields ==
  ASSUME VenueTypes
  PROVE  /\ Len(venues) \in Nat /\ DOMAIN venues = 1..Len(venues)
         /\ DOMAIN log = DOMAIN venues /\ DOMAIN next = DOMAIN venues /\ DOMAIN skipped = DOMAIN venues
         /\ \A v \in DOMAIN venues :
               /\ venues[v] \in Venue /\ venues[v].owner \in Users
               /\ log[v] \in Seq(Statuses) /\ Len(log[v]) \in Nat \ {0} /\ DOMAIN log[v] = 1..Len(log[v])
               /\ next[v] \in Nat /\ skipped[v] \in BOOLEAN
         /\ \A h \in Workers : work[h] \in Work
<1>1. /\ Len(venues) \in Nat /\ DOMAIN venues = 1..Len(venues)
      /\ DOMAIN log = DOMAIN venues /\ DOMAIN next = DOMAIN venues /\ DOMAIN skipped = DOMAIN venues
      /\ \A v \in DOMAIN venues : venues[v] \in Venue /\ log[v] \in Seq(Statuses) /\ next[v] \in Nat /\ skipped[v] \in BOOLEAN
  BY Elements DEF VenueTypes
<1>2. \A v \in DOMAIN venues : Len(log[v]) \in Nat \ {0} /\ DOMAIN log[v] = 1..Len(log[v])
  BY <1>1, Elements, EmptySeq DEF VenueTypes
<1>. QED  BY <1>1, <1>2 DEF VenueTypes, Venue

\* A pair that is issued.
LEMMA IssuedType ==
  ASSUME NEW u \in Users, NEW gen \in Nat, NEW ep \in Nat, NEW from \in Nat
  PROVE  LET p == _issue_tokens(u, gen, ep, from)
         IN  p \in Pair /\ p.user = u /\ p.generation = gen /\ p.epoch = ep
BY DEF _issue_tokens, Pair

\* Whoever is cleared stays so while the table only gains rows and approvals.
VenuesGrow ==
    \A v \in DOMAIN venues :
        /\ v \in DOMAIN venues' /\ venues'[v].owner = venues[v].owner
        /\ venues[v].everApproved => venues'[v].everApproved
LEMMA KnownStays ==
  ASSUME VenuesGrow,
         \A u \in Users : Registered(u) => Registered(u)' /\ user'[u].veteran = user[u].veteran
  PROVE  \A u \in Users : Known(u) => Known(u)'
BY DEF VenuesGrow, Known, Cleared, Registered, owned_by

LEMMA OwnedFinite ==
  ASSUME VenueTypes, NEW u
  PROVE  IsFiniteSet(owned_by(u)) /\ (Cardinality(owned_by(u)) = 0 <=> owned_by(u) = {})
<1>1. owned_by(u) \subseteq 1..Len(venues) /\ Len(venues) \in Nat
  BY LenProperties DEF VenueTypes, owned_by
<1>2. IsFiniteSet(1..Len(venues))
  BY <1>1, FS_Interval
<1>3. IsFiniteSet(owned_by(u))
  BY <1>1, <1>2, FS_Subset
<1>. QED  BY <1>3, FS_EmptySet

-----------------------------------------------------------------------------

(* A step of the users service *)

\* What a session step leaves of the rows.
RowsKept ==
    \A u \in Users :
        /\ user'[u].registered = user[u].registered /\ user'[u].veteran = user[u].veteran
        /\ user'[u].is_active = user[u].is_active
        /\ user'[u].approval_status = user[u].approval_status

LEMMA VenuesStay ==
  ASSUME IInv, UNCHANGED venueVars
  PROVE  VenueTypes' /\ WorkInv' /\ ApprovedInv' /\ OneVenuePerOwner' /\ LastEventInv' /\ VenuesGrow
BY DEF IInv, venueVars, VenueTypes, WorkInv, ApprovedInv, OneVenuePerOwner, LastEventInv, VenuesGrow

\* A step that issues nothing with another generation.
LEMMA SessionKeeps ==
  ASSUME IInv, AccountTypes', UNCHANGED venueVars, RowsKept,
         \A u \in Users : ~Registered(u) => user'[u].generation = user[u].generation /\ epoch'[u] = epoch[u],
         \A i \in DOMAIN pairs' : Known(pairs'[i].user),
         \A l \in DOMAIN links' : Known(links'[l].user),
         \A q \in Requests : call'[q].pc # "idle" => Known(call'[q].user),
         GenerationInv'
  PROVE  IInv'
<1>1. \A u \in Users : Known(u) => Known(u)'
  BY VenuesStay, KnownStays DEF RowsKept, Registered
<1>2. FreshInv'
  BY DEF IInv, FreshInv, RowsKept, Registered, venueVars
<1>3. KnownInv'
  <2>1. \A u \in Users : user'[u].is_active => Known(u)'
    BY <1>1 DEF IInv, KnownInv, RowsKept
  <2>2. /\ \A i \in DOMAIN pairs' : pairs'[i].user \in Users
        /\ \A l \in DOMAIN links' : links'[l].user \in Users
        /\ \A q \in Requests : call'[q].user \in Users
    <3>1. /\ \A i \in DOMAIN pairs' : pairs'[i] \in Pair
          /\ \A l \in DOMAIN links' : links'[l] \in Link
      BY Elements DEF AccountTypes
    <3>. QED  BY <3>1 DEF AccountTypes, Pair, Link, Call
  <2>. QED  BY <1>1, <2>1, <2>2 DEF KnownInv, Known, Cleared, Registered, owned_by
<1>4. MirrorInv'
  <2>1. \A v \in DOMAIN venues : venues[v].owner \in Users
    BY VenueFields DEF IInv
  <2>. QED  BY <2>1 DEF IInv, MirrorInv, RowsKept, venueVars, owned_by, Last
<1>. QED  BY <1>2, <1>3, <1>4, VenuesStay DEF IInv

LEMMA SessionMoves ==
  ASSUME IInv, SessionStep, UNCHANGED venueVars
  PROVE  IInv'
<1>. USE DEF IInv
<1>a. /\ \A u \in Users : user[u] \in Account /\ epoch[u] \in Nat /\ crossed[u] \in BOOLEAN
      /\ \A i \in DOMAIN pairs : pairs[i] \in Pair /\ pairs[i].user \in Users
      /\ \A l \in DOMAIN links : links[l] \in Link /\ links[l].user \in Users
      /\ \A q \in Requests : call[q] \in Call /\ call[q].user \in Users
  BY AccountFields
<1>b. Move => moves' \in 0..MaxMoves
  BY AccountsAssumption DEF Move, AccountTypes
<1>1. ASSUME NEW u \in Users, login(u)  PROVE IInv'
  <2>1. PICK p \in Pair : /\ p.user = u /\ p.generation = user[u].generation /\ p.epoch = epoch[u]
                          /\ pairs' = Append(pairs, p)
    BY <1>1, <1>a, IssuedType DEF login, Account
  <2>2. /\ pairs' \in Seq(Pair) /\ DOMAIN pairs' = 1..Len(pairs) + 1 /\ DOMAIN pairs = 1..Len(pairs)
        /\ Len(pairs) \in Nat /\ pairs'[Len(pairs) + 1] = p /\ \A i \in 1..Len(pairs) : pairs'[i] = pairs[i]
    BY <2>1, AppendProperties, LenProperties DEF AccountTypes
  <2>3. Known(u)
    BY <1>1 DEF login, KnownInv
  <2>4. GenerationInv'
    BY <1>1, <2>1, <2>2 DEF GenerationInv, login
  <2>5. \A i \in DOMAIN pairs' : Known(pairs'[i].user)
    BY <2>1, <2>2, <2>3 DEF KnownInv
  <2>6. AccountTypes'
    BY <1>1, <1>b, <2>2 DEF AccountTypes, login
  <2>. QED  BY <1>1, <2>4, <2>5, <2>6, SessionKeeps DEF login, RowsKept, KnownInv
<1>2. ASSUME NEW u \in Users, request_password_reset(u)  PROVE IInv'
  <2>1. PICK l \in Link : l.user = u /\ links' = Append(links, l)
    BY <1>2 DEF request_password_reset, Link
  <2>2. /\ links' \in Seq(Link) /\ DOMAIN links' = 1..Len(links) + 1 /\ DOMAIN links = 1..Len(links)
        /\ Len(links) \in Nat /\ links'[Len(links) + 1] = l /\ \A i \in 1..Len(links) : links'[i] = links[i]
    BY <2>1, AppendProperties, LenProperties DEF AccountTypes
  <2>3. Known(u)
    BY <1>2 DEF request_password_reset, KnownInv
  <2>4. \A k \in DOMAIN links' : Known(links'[k].user)
    BY <2>1, <2>2, <2>3 DEF KnownInv
  <2>5. AccountTypes'
    BY <1>2, <1>b, <2>2 DEF AccountTypes, request_password_reset
  <2>6. GenerationInv'
    BY <1>2 DEF request_password_reset, GenerationInv
  <2>. QED  BY <1>2, <2>4, <2>5, <2>6, SessionKeeps DEF request_password_reset, RowsKept, KnownInv
<1>3. ASSUME NEW i \in DOMAIN pairs, logout(i)  PROVE IInv'
  <2>1. PICK p \in Pair : /\ p.user = pairs[i].user /\ p.generation = pairs[i].generation /\ p.epoch = pairs[i].epoch
                          /\ pairs' = [pairs EXCEPT ![i] = p]
    <3>1. PICK both \in BOOLEAN : pairs' = [pairs EXCEPT ![i].refresh = FALSE, ![i].access = @ /\ ~both]
      BY <1>3 DEF logout
    <3>2. PICK p : p = [pairs[i] EXCEPT !.refresh = FALSE, !.access = pairs[i].access /\ ~both]
      OBVIOUS
    <3>3. p \in Pair /\ p.user = pairs[i].user /\ p.generation = pairs[i].generation /\ p.epoch = pairs[i].epoch
      BY <1>a, <3>2 DEF Pair
    <3>4. pairs' = [pairs EXCEPT ![i] = p]
      BY <3>1, <3>2, <1>a DEF Pair
    <3>. QED  BY <3>3, <3>4
  <2>2. pairs' \in Seq(Pair) /\ DOMAIN pairs' = DOMAIN pairs /\ \A k \in DOMAIN pairs : pairs'[k] = IF k = i THEN p ELSE pairs[k]
    BY <2>1, ExceptSeq, LenProperties DEF AccountTypes
  <2>3. AccountTypes'
    BY <1>3, <1>b, <2>2 DEF AccountTypes, logout
  <2>4. GenerationInv'
    BY <1>3, <2>1, <2>2 DEF GenerationInv, logout
  <2>5. \A k \in DOMAIN pairs' : Known(pairs'[k].user)
    BY <2>1, <2>2 DEF KnownInv
  <2>. QED  BY <1>3, <2>3, <2>4, <2>5, SessionKeeps DEF logout, RowsKept, KnownInv
<1>4. ASSUME NEW i \in DOMAIN pairs, NEW q \in Requests, RefreshChecked(q, i) \/ ChangeRead(q, i)  PROVE IInv'
  <2>1. PICK c \in Call : /\ c.user = pairs[i].user /\ c.pc \in {"issue", "commit"}
                          /\ c.pc = "issue" => c.generation = user[c.user].generation /\ c.epoch = epoch[c.user]
                          /\ call' = [call EXCEPT ![q] = c]
    <3>1. CASE RefreshChecked(q, i)
      <4>1. PICK c : c = [NoCall EXCEPT !.pc = "issue", !.user = pairs[i].user, !.pair = i,
                             !.generation = user[pairs[i].user].generation, !.epoch = epoch[pairs[i].user]]
        OBVIOUS
      <4>2. i \in Nat
        BY LenProperties DEF AccountTypes
      <4>3. /\ c \in Call /\ c.user = pairs[i].user /\ c.pc = "issue"
            /\ c.generation = user[c.user].generation /\ c.epoch = epoch[c.user]
        BY <4>1, <4>2, <1>a, RecordTypes DEF Call, Account
      <4>. QED  BY <3>1, <4>1, <4>3 DEF RefreshChecked
    <3>2. CASE ChangeRead(q, i)
      <4>1. PICK c : c = [NoCall EXCEPT !.pc = "commit", !.user = pairs[i].user,
                             !.generation = user[pairs[i].user].generation, !.keepsSession = TRUE]
        OBVIOUS
      <4>2. c \in Call /\ c.user = pairs[i].user /\ c.pc = "commit"
        BY <4>1, <1>a, RecordTypes DEF Call, Account
      <4>. QED  BY <3>2, <4>1, <4>2 DEF ChangeRead
    <3>. QED  BY <1>4, <3>1, <3>2
  <2>2. UNCHANGED <<user, pairs, links, epoch, crossed>> /\ Move
    BY <1>4 DEF RefreshChecked, ChangeRead
  <2>3. \A r \in Requests : call'[r] = IF r = q THEN c ELSE call[r]
    BY <2>1 DEF AccountTypes
  <2>4. AccountTypes'
    BY <1>b, <2>1, <2>2 DEF AccountTypes
  <2>5. GenerationInv'
    BY <1>a, <2>1, <2>2, <2>3 DEF GenerationInv
  <2>6. \A r \in Requests : call'[r].pc # "idle" => Known(call'[r].user)
    BY <2>1, <2>3 DEF KnownInv
  <2>. QED  BY <2>2, <2>4, <2>5, <2>6, SessionKeeps DEF RowsKept, KnownInv
<1>5. ASSUME NEW l \in DOMAIN links, LinkExpires(l)  PROVE IInv'
  <2>1. PICK k \in Link : k.user = links[l].user /\ links' = [links EXCEPT ![l] = k]
    BY <1>5, <1>a DEF LinkExpires, Link
  <2>2. links' \in Seq(Link) /\ DOMAIN links' = DOMAIN links /\ \A m \in DOMAIN links : links'[m] = IF m = l THEN k ELSE links[m]
    BY <2>1, ExceptSeq, LenProperties DEF AccountTypes
  <2>3. AccountTypes'
    BY <1>5, <2>2 DEF AccountTypes, LinkExpires
  <2>4. \A m \in DOMAIN links' : Known(links'[m].user)
    BY <2>1, <2>2 DEF KnownInv
  <2>5. GenerationInv'
    BY <1>5 DEF GenerationInv, LinkExpires
  <2>. QED  BY <1>5, <2>3, <2>4, <2>5, SessionKeeps DEF LinkExpires, RowsKept, KnownInv
<1>6. ASSUME NEW l \in DOMAIN links, NEW q \in Requests, ResetRead(q, l)  PROVE IInv'
  <2>1. PICK k \in Link : k.user = links[l].user /\ links' = [links EXCEPT ![l] = k]
    BY <1>6, <1>a DEF ResetRead, Link
  <2>2. links' \in Seq(Link) /\ DOMAIN links' = DOMAIN links /\ \A m \in DOMAIN links : links'[m] = IF m = l THEN k ELSE links[m]
    BY <2>1, ExceptSeq, LenProperties DEF AccountTypes
  <2>3. PICK c \in Call : c.user = links[l].user /\ c.pc = "commit" /\ call' = [call EXCEPT ![q] = c]
    <3>1. PICK c : c = [NoCall EXCEPT !.pc = "commit", !.user = links[l].user, !.generation = user[links[l].user].generation]
      OBVIOUS
    <3>2. c \in Call /\ c.user = links[l].user /\ c.pc = "commit"
      BY <3>1, <1>a, RecordTypes DEF Call, Account
    <3>. QED  BY <1>6, <3>1, <3>2 DEF ResetRead
  <2>4. \A r \in Requests : call'[r] = IF r = q THEN c ELSE call[r]
    BY <2>3 DEF AccountTypes
  <2>5. AccountTypes'
    BY <1>6, <2>2, <2>3 DEF AccountTypes, ResetRead
  <2>6. \A m \in DOMAIN links' : Known(links'[m].user)
    BY <2>1, <2>2 DEF KnownInv
  <2>7. \A r \in Requests : call'[r].pc # "idle" => Known(call'[r].user)
    BY <2>3, <2>4 DEF KnownInv
  <2>8. GenerationInv'
    BY <1>6, <2>3, <2>4 DEF GenerationInv, ResetRead
  <2>. QED  BY <1>6, <2>5, <2>6, <2>7, <2>8, SessionKeeps DEF ResetRead, RowsKept, KnownInv
<1>7. ASSUME NEW q \in Requests, call[q].pc # "idle", call' = [call EXCEPT ![q] = NoCall]
      PROVE  /\ call' \in [Requests -> Call] /\ Known(call[q].user)
             /\ \A r \in Requests : call'[r].pc # "idle" => r # q /\ call'[r] = call[r] /\ Known(call[r].user)
  BY <1>7, RecordTypes DEF AccountTypes, KnownInv
<1>8. ASSUME NEW q \in Requests, RefreshIssues(q)  PROVE IInv'
  <2>. DEFINE i == call[q].pair
              old == [pairs EXCEPT ![i].refresh = FALSE]
  <2>1. PICK p \in Pair : /\ p.user = call[q].user /\ p.generation = call[q].generation /\ p.epoch = call[q].epoch
                          /\ pairs' = Append(old, p)
    <3>1. i \in Nat /\ call[q].generation \in Nat /\ call[q].epoch \in Nat /\ call[q].user \in Users
      BY <1>a DEF Call
    <3>2. PICK p : p = _issue_tokens(call[q].user, call[q].generation, call[q].epoch, i)
      OBVIOUS
    <3>3. pairs' = Append(old, p)
      BY <1>8, <3>2 DEF RefreshIssues
    <3>4. p \in Pair /\ p.user = call[q].user /\ p.generation = call[q].generation /\ p.epoch = call[q].epoch
      BY <3>1, <3>2, IssuedType
    <3>. QED  BY <3>3, <3>4
  <2>2. /\ old \in Seq(Pair) /\ DOMAIN old = DOMAIN pairs
        /\ \A k \in DOMAIN pairs : /\ old[k].user = pairs[k].user /\ old[k].generation = pairs[k].generation
                                   /\ old[k].epoch = pairs[k].epoch
    <3>1. CASE i \in DOMAIN pairs
      <4>1. PICK r : r = [pairs[i] EXCEPT !.refresh = FALSE]
        OBVIOUS
      <4>2. r \in Pair /\ r.user = pairs[i].user /\ r.generation = pairs[i].generation /\ r.epoch = pairs[i].epoch
        BY <1>a, <3>1, <4>1 DEF Pair
      <4>3. old = [pairs EXCEPT ![i] = r]
        BY <4>1
      <4>4. pairs \in Seq(Pair) /\ i \in 1..Len(pairs)
        BY <3>1, LenProperties DEF AccountTypes
      <4>. HIDE DEF old, i
      <4>5. old \in Seq(Pair) /\ \A k \in DOMAIN pairs : old[k] = IF k = i THEN r ELSE pairs[k]
        BY <4>2, <4>3, <4>4, ExceptSeq, LenProperties
      <4>6. DOMAIN old = DOMAIN pairs
        BY <4>3
      <4>. QED  BY <4>2, <4>5, <4>6
    <3>2. CASE i \notin DOMAIN pairs
      <4>1. old = pairs
        BY <3>2 DEF AccountTypes
      <4>. QED  BY <4>1 DEF AccountTypes
    <3>. QED  BY <3>1, <3>2
  <2>3. DOMAIN old = 1..Len(old) /\ Len(old) \in Nat
    BY <2>2, LenProperties
  <2>4. /\ pairs' \in Seq(Pair) /\ DOMAIN pairs' = 1..Len(old) + 1 /\ pairs'[Len(old) + 1] = p
        /\ \A k \in 1..Len(old) : pairs'[k] = old[k]
    <3>. HIDE DEF old
    <3>. QED  BY <2>1, <2>2, <2>3, AppendProperties
  <2>. HIDE DEF old
  <2>5. \A k \in DOMAIN pairs' :
           \/ k = Len(old) + 1 /\ pairs'[k] = p
           \/ k \in DOMAIN pairs /\ pairs'[k].user = pairs[k].user /\ pairs'[k].generation = pairs[k].generation
                                 /\ pairs'[k].epoch = pairs[k].epoch
    BY <2>2, <2>3, <2>4
  <2>6. call[q].pc = "issue" /\ call' = [call EXCEPT ![q] = NoCall] /\ UNCHANGED <<user, links, epoch, crossed, moves>>
    BY <1>8 DEF RefreshIssues
  <2>7. /\ call' \in [Requests -> Call] /\ Known(call[q].user)
        /\ \A r \in Requests : call'[r].pc # "idle" => r # q /\ call'[r] = call[r] /\ Known(call[r].user)
    BY <1>7, <2>6
  <2>8. AccountTypes'
    BY <2>4, <2>6, <2>7 DEF AccountTypes
  <2>9. GenerationInv'
    BY <2>1, <2>5, <2>6, <2>7 DEF GenerationInv
  <2>10. \A k \in DOMAIN pairs' : Known(pairs'[k].user)
    BY <2>1, <2>5, <2>7 DEF KnownInv
  <2>. QED  BY <2>6, <2>7, <2>8, <2>9, <2>10, SessionKeeps DEF RowsKept, KnownInv
<1>9. ASSUME NEW q \in Requests, PasswordCommits(q)  PROVE IInv'
  <2>. DEFINE u == call[q].user
              g == call[q].generation + 1
  <2>1. /\ u \in Users /\ g \in Nat /\ Known(u)
        /\ user' = [user EXCEPT ![u].generation = g]
        /\ epoch' = [epoch EXCEPT ![u] = @ + 1]
        /\ crossed' = [crossed EXCEPT ![u] = @ \/ user[u].generation # call[q].generation]
        /\ UNCHANGED <<pairs, links, moves>>
    BY <1>9, <1>a DEF PasswordCommits, NextGeneration, Call, KnownInv
  <2>2. PICK row : row = [user[u] EXCEPT !.generation = g]
    OBVIOUS
  <2>3. /\ row \in Account /\ row.generation = g /\ row.registered = user[u].registered /\ row.veteran = user[u].veteran
        /\ row.is_active = user[u].is_active /\ row.approval_status = user[u].approval_status
    BY <1>a, <2>1, <2>2 DEF Account
  <2>4. user' \in [Users -> Account] /\ \A w \in Users : user'[w] = IF w = u THEN row ELSE user[w]
    BY <2>1, <2>2, <2>3 DEF AccountTypes
  <2>5. /\ epoch' \in [Users -> Nat] /\ \A w \in Users : epoch'[w] = IF w = u THEN epoch[w] + 1 ELSE epoch[w]
    BY <1>a, <2>1 DEF AccountTypes
  <2>6. /\ crossed' \in [Users -> BOOLEAN]
        /\ \A w \in Users : w # u => crossed'[w] = crossed[w]
        /\ crossed'[u] <=> crossed[u] \/ user[u].generation # call[q].generation
    BY <1>a, <2>1 DEF AccountTypes
  <2>7. PICK c \in Call : call' = [call EXCEPT ![q] = c] /\ c.pc \in {"reread", "idle"} /\ (c.pc # "idle" => c.user = u)
    <3>1. CASE call[q].keepsSession
      <4>1. PICK c : c = [call[q] EXCEPT !.pc = "reread", !.epoch = epoch[u] + 1]
        OBVIOUS
      <4>2. call[q] \in Call /\ epoch[u] + 1 \in Nat
        BY <1>a, <2>1
      <4>3. c \in Call /\ c.pc = "reread" /\ c.user = u
        BY <4>1, <4>2 DEF Call
      <4>. QED  BY <1>9, <3>1, <4>1, <4>3 DEF PasswordCommits
    <3>2. CASE ~call[q].keepsSession
      BY <1>9, <3>2, RecordTypes DEF PasswordCommits
    <3>. QED  BY <3>1, <3>2
  <2>8. call' \in [Requests -> Call] /\ \A r \in Requests : call'[r] = IF r = q THEN c ELSE call[r]
    BY <2>7 DEF AccountTypes
  <2>9. AccountTypes'
    BY <2>1, <2>4, <2>5, <2>6, <2>8 DEF AccountTypes
  <2>. HIDE DEF u, g
  <2>10. RowsKept
    BY <2>3, <2>4 DEF RowsKept
  <2>11. \A r \in Requests : call'[r].pc # "idle" => Known(call'[r].user)
    BY <2>1, <2>7, <2>8 DEF KnownInv
  <2>12. GenerationInv'
    <3>1. \A w \in Users : crossed'[w] \/ user'[w].generation = epoch'[w]
      <4>1. ASSUME ~crossed'[u]  PROVE g = epoch[u] + 1
        BY <1>a, <2>1, <2>6, <4>1 DEF GenerationInv, u, g
      <4>. QED  BY <2>1, <2>3, <2>4, <2>5, <2>6, <4>1 DEF GenerationInv
    <3>2. \A w \in Users : crossed[w] => crossed'[w]
      BY <2>1, <2>6
    <3>. QED  BY <1>a, <2>1, <2>7, <2>8, <3>1, <3>2 DEF GenerationInv
  <2>13. \A w \in Users : ~Registered(w) => user'[w].generation = user[w].generation /\ epoch'[w] = epoch[w]
    BY <2>1, <2>4, <2>5 DEF Known
  <2>14. pairs' = pairs /\ links' = links
    BY <2>1
  <2>. QED  BY <2>9, <2>10, <2>11, <2>12, <2>13, <2>14, SessionKeeps DEF KnownInv
<1>10. ASSUME NEW q \in Requests, ChangeAnswers(q)  PROVE IInv'
  <2>. DEFINE u == call[q].user
  <2>1. PICK p \in Pair : /\ p.user = u /\ p.generation = user[u].generation /\ p.epoch = call[q].epoch
                          /\ pairs' = Append(pairs, p)
    <3>1. u \in Users /\ user[u].generation \in Nat /\ call[q].epoch \in Nat
      BY <1>a DEF Call, Account
    <3>2. PICK p : p = _issue_tokens(u, user[u].generation, call[q].epoch, 0)
      OBVIOUS
    <3>3. p \in Pair /\ p.user = u /\ p.generation = user[u].generation /\ p.epoch = call[q].epoch
      BY <3>1, <3>2, IssuedType
    <3>. QED  BY <1>10, <3>2, <3>3 DEF ChangeAnswers
  <2>2. /\ pairs' \in Seq(Pair) /\ DOMAIN pairs' = 1..Len(pairs) + 1 /\ DOMAIN pairs = 1..Len(pairs)
        /\ Len(pairs) \in Nat /\ pairs'[Len(pairs) + 1] = p /\ \A i \in 1..Len(pairs) : pairs'[i] = pairs[i]
    BY <2>1, AppendProperties, LenProperties DEF AccountTypes
  <2>3. /\ call[q].pc = "reread" /\ call' = [call EXCEPT ![q] = NoCall] /\ UNCHANGED <<user, links, epoch, moves>>
        /\ crossed' = [crossed EXCEPT ![u] = @ \/ epoch[u] # call[q].epoch]
    BY <1>10 DEF ChangeAnswers
  <2>4. /\ call' \in [Requests -> Call] /\ Known(call[q].user)
        /\ \A r \in Requests : call'[r].pc # "idle" => r # q /\ call'[r] = call[r] /\ Known(call[r].user)
    BY <1>7, <2>3
  <2>5. /\ crossed' \in [Users -> BOOLEAN] /\ u \in Users
        /\ \A w \in Users : crossed[w] => crossed'[w]
        /\ crossed'[u] \/ epoch[u] = call[q].epoch
    BY <1>a, <2>3 DEF AccountTypes
  <2>. HIDE DEF u
  <2>6. AccountTypes'
    BY <2>2, <2>3, <2>4, <2>5 DEF AccountTypes
  <2>7. GenerationInv'
    <3>1. \A w \in Users : crossed'[w] \/ user'[w].generation = epoch'[w]
      BY <2>3, <2>5 DEF GenerationInv
    <3>2. \A i \in DOMAIN pairs' : crossed'[pairs'[i].user] \/ pairs'[i].generation = pairs'[i].epoch
      <4>1. crossed'[u] \/ p.generation = p.epoch
        BY <2>1, <2>3, <2>5, <3>1
      <4>. QED  BY <1>a, <2>1, <2>2, <2>5, <4>1 DEF GenerationInv
    <3>3. \A r \in Requests : call'[r].pc = "issue" => crossed'[call'[r].user] \/ call'[r].generation = call'[r].epoch
      BY <1>a, <2>4, <2>5 DEF GenerationInv
    <3>. QED  BY <3>1, <3>2, <3>3 DEF GenerationInv
  <2>8. \A i \in DOMAIN pairs' : Known(pairs'[i].user)
    BY <2>1, <2>2, <2>4 DEF KnownInv, u
  <2>. QED  BY <2>3, <2>4, <2>6, <2>7, <2>8, SessionKeeps DEF RowsKept, KnownInv
<1>11. ASSUME NEW q \in Requests, CallLost(q)  PROVE IInv'
  <2>1. call[q].pc # "idle" /\ call' = [call EXCEPT ![q] = NoCall] /\ UNCHANGED <<user, pairs, links, epoch, crossed>> /\ Move
    BY <1>11 DEF CallLost
  <2>2. /\ call' \in [Requests -> Call]
        /\ \A r \in Requests : call'[r].pc # "idle" => r # q /\ call'[r] = call[r] /\ Known(call[r].user)
    BY <1>7, <2>1
  <2>3. AccountTypes'
    BY <1>b, <2>1, <2>2 DEF AccountTypes
  <2>4. GenerationInv'
    BY <2>1, <2>2 DEF GenerationInv
  <2>. QED  BY <2>1, <2>2, <2>3, <2>4, SessionKeeps DEF RowsKept, KnownInv
<1>. QED  BY <1>1, <1>2, <1>3, <1>4, <1>5, <1>6, <1>8, <1>9, <1>10, <1>11 DEF SessionStep

-----------------------------------------------------------------------------

(* A sign-up, and the venue it asks for *)

LEMMA Registers ==
  ASSUME IInv, NEW u \in Users, Register(u)
  PROVE  IInv'
<1>. USE DEF IInv
<1>1. /\ ~Registered(u) /\ UNCHANGED <<pairs, links, call, epoch, crossed, moves, venues, work, log, next, skipped, twoAtOnce, overtaken>>
      /\ signups' = IF u \in Applicants THEN signups \cup {u} ELSE signups
  BY DEF Register, register_user, Registered
<1>2. PICK row : row = [NotRegistered EXCEPT !.registered = TRUE, !.is_active = u \notin Applicants,
                           !.approval_status = IF u \in Applicants THEN "pending" ELSE "none"]
  OBVIOUS
<1>3. /\ row \in Account /\ row.registered /\ ~row.veteran /\ (row.is_active <=> u \notin Applicants) /\ row.generation = 0
  BY <1>2 DEF NotRegistered, Account, Statuses
<1>4. user' = [user EXCEPT ![u] = row]
  BY <1>2 DEF Register, register_user
<1>5. user' \in [Users -> Account] /\ \A w \in Users : user'[w] = IF w = u THEN row ELSE user[w]
  BY <1>3, <1>4 DEF AccountTypes
<1>6. AccountTypes'
  BY <1>1, <1>5 DEF AccountTypes
<1>7. VenueTypes' /\ WorkInv' /\ ApprovedInv' /\ OneVenuePerOwner' /\ LastEventInv'
  BY <1>1, AccountsAssumption DEF VenueTypes, WorkInv, ApprovedInv, OneVenuePerOwner, LastEventInv
<1>8. FreshInv'
  BY <1>1, <1>3, <1>5 DEF FreshInv, Registered
<1>9. KnownInv'
  <2>1. \A w \in Users : Known(w) => Known(w)'
    BY <1>1, <1>5 DEF Known, Cleared, Registered, owned_by
  <2>2. u \notin Applicants => Known(u)'
    BY <1>3, <1>5 DEF Known, Cleared, Registered
  <2>3. \A w \in Users : user'[w].is_active => Known(w)'
    BY <1>3, <1>5, <2>1, <2>2 DEF KnownInv
  <2>4. /\ \A i \in DOMAIN pairs : pairs[i].user \in Users
        /\ \A l \in DOMAIN links : links[l].user \in Users
        /\ \A q \in Requests : call[q].user \in Users
    BY AccountFields
  <2>. QED  BY <1>1, <2>1, <2>3, <2>4 DEF KnownInv, Known, Cleared, Registered, owned_by
<1>10. GenerationInv'
  BY <1>1, <1>3, <1>5 DEF GenerationInv, FreshInv
<1>11. MirrorInv'
  <2>1. \A v \in DOMAIN venues : venues[v].owner \in Users /\ venues[v].owner # u
    BY <1>1, VenueFields DEF FreshInv
  <2>. QED  BY <1>1, <1>5, <2>1 DEF MirrorInv, owned_by, Last
<1>. QED  BY <1>6, <1>7, <1>8, <1>9, <1>10, <1>11

\* Rows and tokens that stay as they are, beside a table that only grows.
LEMMA AccountsStay ==
  ASSUME IInv, UNCHANGED accountsButMoves, VenuesGrow
  PROVE  KnownInv' /\ GenerationInv'
<1>. USE DEF IInv, accountsButMoves
<1>1. \A w \in Users : Known(w) => Known(w)'
  BY KnownStays DEF Registered
<1>2. /\ \A i \in DOMAIN pairs : pairs[i].user \in Users
      /\ \A l \in DOMAIN links : links[l].user \in Users
      /\ \A q \in Requests : call[q].user \in Users
  BY AccountFields
<1>3. KnownInv'
  BY <1>1, <1>2 DEF KnownInv, Known, Cleared, Registered, owned_by
<1>. QED  BY <1>3 DEF GenerationInv

LEMMA Moved == AccountsAssumption /\ AccountTypes /\ Move => moves' \in 0..MaxMoves
BY DEF AccountTypes, AccountsAssumption, Move

LEMMA Acknowledges ==
  ASSUME IInv, NEW u \in Users, SignupAcknowledged(u)
  PROVE  IInv'
<1>. USE DEF IInv, SignupAcknowledged, accountVars
<1>1. KnownInv' /\ GenerationInv'
  BY AccountsStay DEF VenuesGrow, accountsButMoves
<1>2. AccountTypes' /\ VenueTypes'
  BY DEF AccountTypes, VenueTypes
<1>3. FreshInv'
  BY DEF FreshInv, Registered
<1>4. WorkInv' /\ ApprovedInv' /\ LastEventInv'
  BY DEF WorkInv, ApprovedInv, LastEventInv, Last
<1>5. OneVenuePerOwner' /\ MirrorInv'
  BY DEF OneVenuePerOwner, MirrorInv, owned_by, Last
<1>. QED  BY <1>1, <1>2, <1>3, <1>4, <1>5

\* A worker that reads: what it reads is as the invariant wants it.
LEMMA WorkerReads ==
  ASSUME IInv, NEW h \in Workers, NEW w \in Work, work' = [work EXCEPT ![h] = w],
         UNCHANGED <<signups, venues, log, next, skipped, twoAtOnce, overtaken>>, UNCHANGED accountsButMoves,
         moves' \in 0..MaxMoves,
         w.kind = "new" => w.before = 0 /\ Registered(w.owner),
         w.kind \in {"decide", "edit"} =>
             w.venue \in DOMAIN venues /\ w.read = venues[w.venue] /\ w.before = Len(log[w.venue]),
         w.kind = "decide" => w.set \in Decisions
  PROVE  IInv'
<1>. USE DEF IInv, accountsButMoves
<1>1. KnownInv' /\ GenerationInv'
  BY AccountsStay DEF VenuesGrow, accountsButMoves
<1>2. work' \in [Workers -> Work] /\ \A g \in Workers : work'[g] = IF g = h THEN w ELSE work[g]
  BY DEF VenueTypes
<1>3. AccountTypes' /\ VenueTypes'
  BY <1>2 DEF AccountTypes, VenueTypes
<1>4. FreshInv'
  BY <1>2 DEF FreshInv, Registered
<1>5. WorkInv'
  <2>1. w.kind \in {"decide", "edit"} => w.before <= Len(log[w.venue])
    BY VenueFields
  <2>. QED  BY <1>2, <2>1 DEF WorkInv
<1>6. ApprovedInv'
  BY <1>2 DEF ApprovedInv
<1>7. LastEventInv'
  BY <1>2 DEF LastEventInv, Last
<1>8. OneVenuePerOwner' /\ MirrorInv'
  BY DEF OneVenuePerOwner, MirrorInv, owned_by, Last
<1>. QED  BY <1>1, <1>3, <1>4, <1>5, <1>6, <1>7, <1>8

LEMMA NewVenueReads ==
  ASSUME IInv, NEW h \in Workers, NEW u \in Applicants, NewVenueRead(h, u)
  PROVE  IInv'
<1>1. u \in Users
  BY AccountsAssumption
<1>2. Cardinality(owned_by(u)) = 0
  BY OwnedFinite DEF IInv, NewVenueRead
<1>3. PICK w : w = [Idle EXCEPT !.kind = "new", !.owner = u, !.before = 0]
  OBVIOUS
<1>4. w \in Work /\ w.kind = "new" /\ w.owner = u /\ w.before = 0
  BY <1>1, <1>3, RecordTypes DEF Work
<1>5. work' = [work EXCEPT ![h] = w]
  BY <1>2, <1>3 DEF NewVenueRead
<1>6. Registered(u)
  BY <1>1 DEF NewVenueRead, IInv, FreshInv, KnownInv, Known
<1>7. moves' \in 0..MaxMoves
  BY DEF NewVenueRead, accountVars, IInv, AccountTypes
<1>. QED  BY <1>4, <1>5, <1>6, <1>7, WorkerReads DEF NewVenueRead, accountVars, accountsButMoves

LEMMA RowReads ==
  ASSUME IInv, NEW h \in Workers, NEW v \in DOMAIN venues, DecisionRead(h, v) \/ EditRead(h, v)
  PROVE  IInv'
<1>1. PICK kind \in {"decide", "edit"}, set \in Decisions \cup {"open", "closed"} :
           Reads(h, v, kind, set) /\ (kind = "decide" => set \in Decisions)
  BY DEF DecisionRead, EditRead
<1>2. PICK w : w = [kind |-> kind, owner |-> venues[v].owner, venue |-> v,
                    read |-> venues[v], set |-> set, before |-> Len(log[v])]
  OBVIOUS
<1>3. w \in Work
  BY <1>2, VenueFields DEF IInv, Work
<1>4. moves' \in 0..MaxMoves
  BY <1>1, Moved, AccountsAssumption DEF Reads, IInv
<1>5. work' = [work EXCEPT ![h] = w]
  BY <1>1, <1>2 DEF Reads
<1>. QED  BY <1>1, <1>2, <1>3, <1>4, <1>5, WorkerReads DEF Reads

\* A sequence that gains an element.
LEMMA Appended ==
  ASSUME NEW S, NEW s \in Seq(S), NEW e \in S
  PROVE  /\ Append(s, e) \in Seq(S) /\ Len(Append(s, e)) = Len(s) + 1 /\ Append(s, e)[Len(s) + 1] = e
         /\ DOMAIN Append(s, e) = 1..Len(s) + 1
         /\ \A i \in 1..Len(s) : Append(s, e)[i] = s[i]
BY AppendProperties, LenProperties

LEMMA VenueOpens ==
  ASSUME IInv, NEW h \in Workers, NewVenueCommits(h)
  PROVE  IInv'
<1>. USE DEF IInv
<1>. DEFINE u == work[h].owner
            n == Len(venues) + 1
<1>1. /\ work[h].kind = "new" /\ work[h].before = 0 /\ u \in Users /\ Registered(u)
      /\ UNCHANGED accountVars /\ UNCHANGED <<signups, overtaken>>
      /\ work' = [work EXCEPT ![h] = Idle]
  <2>1. u \in Users
    BY VenueFields DEF Work
  <2>. QED  BY <2>1 DEF NewVenueCommits, WorkInv, FreshInv
<1>2. PICK row \in Venue : /\ row.owner = u /\ row.approval_status = "pending"
                           /\ venues' = Append(venues, row)
  BY <1>1 DEF NewVenueCommits, Venue, Statuses
<1>3. /\ venues' \in Seq(Venue) /\ Len(venues') = n /\ venues'[n] = row /\ DOMAIN venues' = 1..n
      /\ DOMAIN venues = 1..Len(venues) /\ Len(venues) \in Nat
      /\ \A v \in DOMAIN venues : v # n /\ venues'[v] = venues[v]
  BY <1>2, Appended, VenueFields DEF VenueTypes
<1>4. /\ log' \in Seq(Seq(Statuses)) /\ Len(log') = n /\ log'[n] = <<"pending">>
      /\ \A v \in DOMAIN venues : log'[v] = log[v]
  <2>1. <<"pending">> \in Seq(Statuses)
    BY DEF Statuses
  <2>. QED  BY <1>3, <2>1, Appended DEF VenueTypes, NewVenueCommits
<1>5. /\ next' \in Seq(Nat) /\ Len(next') = n /\ next'[n] = 1 /\ \A v \in DOMAIN venues : next'[v] = next[v]
  BY <1>3, Appended DEF VenueTypes, NewVenueCommits
<1>6. /\ skipped' \in Seq(BOOLEAN) /\ Len(skipped') = n /\ \A v \in DOMAIN venues : skipped'[v] = skipped[v]
  <2>1. PICK no \in BOOLEAN : no = FALSE
    OBVIOUS
  <2>2. skipped \in Seq(BOOLEAN) /\ Len(skipped) = Len(venues)
    BY DEF VenueTypes
  <2>3. /\ Append(skipped, no) \in Seq(BOOLEAN) /\ Len(Append(skipped, no)) = Len(skipped) + 1
        /\ \A i \in 1..Len(skipped) : Append(skipped, no)[i] = skipped[i]
    BY <2>2, Appended
  <2>4. skipped' = Append(skipped, no)
    BY <2>1 DEF NewVenueCommits
  <2>. QED  BY <1>3, <2>2, <2>3, <2>4
<1>7. /\ work' \in [Workers -> Work] /\ \A g \in Workers : work'[g].kind # "idle" => work'[g] = work[g]
  BY <1>1, RecordTypes DEF VenueTypes
<1>8. \/ twoAtOnce' = twoAtOnce /\ owned_by(u) = {}
      \/ twoAtOnce' = twoAtOnce \cup owned_by(u) \cup {n}
  BY <1>1, OwnedFinite DEF NewVenueCommits
<1>9. VenuesGrow
  BY <1>3 DEF VenuesGrow
<1>. HIDE DEF n, u
<1>10. KnownInv' /\ GenerationInv'
  BY <1>1, <1>9, AccountsStay DEF accountVars, accountsButMoves
<1>11. AccountTypes'
  BY <1>1 DEF AccountTypes, accountVars
<1>12. VenueTypes'
  <2>1. \A v \in DOMAIN venues' : log'[v] # <<>> /\ next'[v] \in 1..Len(log'[v]) + 1
    <3>1. ASSUME NEW v \in DOMAIN venues  PROVE log'[v] # <<>> /\ next'[v] \in 1..Len(log'[v]) + 1
      BY <1>4, <1>5 DEF VenueTypes
    <3>2. log'[n] # <<>> /\ next'[n] \in 1..Len(log'[n]) + 1
      BY <1>4, <1>5
    <3>3. \A v \in DOMAIN venues' : v \in DOMAIN venues \/ v = n
      BY <1>3 DEF n
    <3>. QED  BY <3>1, <3>2, <3>3
  <2>2. twoAtOnce' \subseteq DOMAIN venues' /\ overtaken' \subseteq DOMAIN venues'
    BY <1>1, <1>3, <1>8 DEF VenueTypes, n, owned_by
  <2>. QED  BY <1>1, <1>3, <1>4, <1>5, <1>6, <1>7, <2>1, <2>2 DEF VenueTypes
<1>13. \A v \in DOMAIN venues' : v = n \/ v \in DOMAIN venues
  BY <1>3 DEF n
<1>14. FreshInv'
  BY <1>1, <1>2, <1>3, <1>7, <1>13 DEF FreshInv, Registered, accountVars
<1>15. WorkInv'
  <2>1. \A g \in Workers : work'[g].kind # "idle" => work'[g] = work[g]
    BY <1>7
  <2>2. \A v \in DOMAIN venues : v \in DOMAIN venues' /\ venues'[v] = venues[v] /\ log'[v] = log[v]
    BY <1>3, <1>4 DEF n
  <2>. QED  BY <2>1, <2>2 DEF WorkInv
<1>16. ApprovedInv'
  <2>1. \A v \in DOMAIN venues' : /\ venues'[v].approval_status = "approved" => venues'[v].everApproved
                                  /\ \A k \in DOMAIN log'[v] : log'[v][k] = "approved" => venues'[v].everApproved
    BY SMTT(30), <1>2, <1>3, <1>4, <1>13 DEF ApprovedInv
  <2>2. \A g \in Workers : work'[g].kind \in {"decide", "edit"} => work'[g] = work[g] /\ work[g].venue \in DOMAIN venues
    BY <1>7 DEF WorkInv
  <2>. QED  BY <1>3, <2>1, <2>2 DEF ApprovedInv
<1>17. OneVenuePerOwner'
  <2>1. \A v \in DOMAIN venues : venues[v].owner = u => v \in owned_by(u)
    BY DEF owned_by
  <2>2. twoAtOnce \subseteq twoAtOnce'
    BY <1>8
  <2>. QED  BY <1>2, <1>3, <1>8, <1>13, <2>1, <2>2 DEF OneVenuePerOwner
<1>18. LastEventInv'
  <2>1. Last(log'[n]) = venues'[n].approval_status
    BY <1>2, <1>3, <1>4 DEF Last
  <2>2. \A v \in DOMAIN venues : Last(log'[v]) = Last(log[v]) /\ venues'[v] = venues[v]
    BY <1>3, <1>4
  <2>3. twoAtOnce \subseteq twoAtOnce'
    BY <1>8
  <2>4. \A g \in Workers : work'[g].kind \in {"decide", "edit"} => work'[g] = work[g] /\ work[g].venue \in DOMAIN venues
    BY <1>7 DEF WorkInv
  <2>. QED  BY SMTT(30), <1>1, <1>4, <1>13, <2>1, <2>2, <2>3, <2>4 DEF LastEventInv
<1>19. MirrorInv'
  <2>1. SUFFICES ASSUME NEW v \in DOMAIN venues', {w \in DOMAIN venues' : venues'[w].owner = venues'[v].owner} = {v},
                        next'[v] > Len(log'[v]), ~skipped'[v], v \notin overtaken
                 PROVE  user'[venues'[v].owner].approval_status = Last(log'[v])
    BY <1>1 DEF MirrorInv, owned_by
  <2>2. v \in DOMAIN venues
    <3>1. ~(next'[n] > Len(log'[n]))
      BY <1>4, <1>5
    <3>. QED  BY <1>13, <2>1, <3>1
  <2>3. owned_by(venues[v].owner) = {v}
    BY <1>3, <2>1, <2>2 DEF owned_by
  <2>. QED  BY <1>1, <1>3, <1>4, <1>5, <1>6, <2>1, <2>2, <2>3 DEF MirrorInv, accountVars, Last
<1>. QED  BY <1>10, <1>11, <1>12, <1>14, <1>15, <1>16, <1>17, <1>18, <1>19

-----------------------------------------------------------------------------

(* A decision, an edit *)

\* The row a worker writes, beside the one it read and the one there is by now.
LEMMA RowWritten ==
  ASSUME NEW row \in Venue, NEW read \in Venue, NEW memory \in Venue
  PROVE  LET new == Updated(row, read, memory)
         IN  /\ new \in Venue /\ new.owner = row.owner
             /\ row.everApproved => new.everApproved
             /\ new.approval_status = "approved" => new.everApproved
             /\ new.approval_status \in {row.approval_status, memory.approval_status}
             /\ memory.approval_status # read.approval_status => new.approval_status = memory.approval_status
             /\ memory.approval_status = read.approval_status => new.approval_status = row.approval_status
BY ZenonT(60) DEF Updated, Venue, Statuses

LEMMA MemoryOf ==
  ASSUME NEW h \in Workers, work[h] \in Work, work[h].kind \in {"decide", "edit"},
         work[h].kind = "decide" => work[h].set \in Decisions
  PROVE  LET memory == IF work[h].kind = "decide" THEN set_approval(h) ELSE update_restaurant(h)
         IN  memory \in Venue /\ (work[h].kind = "edit" => memory.approval_status = work[h].read.approval_status)
<1>1. work[h].read \in Venue
  BY DEF Work
<1>2. CASE work[h].kind = "decide"
  BY <1>1, <1>2 DEF set_approval, Venue, Decisions, Statuses
<1>3. CASE work[h].kind = "edit"
  BY <1>1, <1>3 DEF update_restaurant, Venue
<1>. QED  BY <1>2, <1>3

LEMMA Commits ==
  ASSUME IInv, NEW h \in Workers, WorkCommits(h)
  PROVE  IInv'
<1>. USE DEF IInv
<1>. DEFINE v == work[h].venue
            read == work[h].read
            status(w) == venues[w].approval_status
<1>1. /\ work[h].kind \in {"decide", "edit"} /\ v \in DOMAIN venues /\ read.owner = venues[v].owner
      /\ work[h].before <= Len(log[v]) /\ work[h] \in Work /\ read \in Venue /\ venues[v] \in Venue
      /\ log[v] \in Seq(Statuses) /\ Len(log[v]) \in Nat \ {0}
      /\ UNCHANGED <<signups, next, skipped, overtaken>> /\ UNCHANGED accountVars
      /\ work' = [work EXCEPT ![h] = Idle]
      /\ twoAtOnce' = IF Len(log[v]) = work[h].before THEN twoAtOnce ELSE twoAtOnce \cup {v}
  <2>1. work[h] \in Work
    BY VenueFields
  <2>. QED  BY <2>1, VenueFields DEF WorkCommits, WorkInv, Work
<1>2. PICK memory \in Venue :
         /\ work[h].kind = "edit" => memory.approval_status = read.approval_status
         /\ venues' = [venues EXCEPT ![v] = Updated(@, read, memory)]
         /\ log' = [log EXCEPT ![v] = Append(@, memory.approval_status)]
  <2>1. work[h].kind = "decide" => work[h].set \in Decisions
    BY DEF WorkInv
  <2>2. PICK memory : memory = IF work[h].kind = "decide" THEN set_approval(h) ELSE update_restaurant(h)
    OBVIOUS
  <2>3. memory \in Venue /\ (work[h].kind = "edit" => memory.approval_status = read.approval_status)
    BY <1>1, <2>1, <2>2, MemoryOf
  <2>. QED  BY <2>2, <2>3 DEF WorkCommits, publish_restaurant
<1>3. PICK row \in Venue :
         /\ row.owner = venues[v].owner
         /\ venues[v].everApproved => row.everApproved
         /\ row.approval_status = "approved" => row.everApproved
         /\ memory.approval_status # read.approval_status => row.approval_status = memory.approval_status
         /\ memory.approval_status = read.approval_status => row.approval_status = venues[v].approval_status
         /\ venues' = [venues EXCEPT ![v] = row]
  <2>1. PICK row : row = Updated(venues[v], read, memory)
    OBVIOUS
  <2>2. /\ row \in Venue /\ row.owner = venues[v].owner
        /\ venues[v].everApproved => row.everApproved
        /\ row.approval_status = "approved" => row.everApproved
        /\ memory.approval_status # read.approval_status => row.approval_status = memory.approval_status
        /\ memory.approval_status = read.approval_status => row.approval_status = venues[v].approval_status
    BY <1>1, <2>1, RowWritten
  <2>3. venues' = [venues EXCEPT ![v] = row]
    BY <1>2, <2>1
  <2>. QED  BY <2>2, <2>3
<1>4. /\ venues' \in Seq(Venue) /\ Len(venues') = Len(venues) /\ DOMAIN venues' = DOMAIN venues
      /\ \A w \in DOMAIN venues : venues'[w] = IF w = v THEN row ELSE venues[w]
  <2>1. venues \in Seq(Venue) /\ v \in 1..Len(venues)
    BY <1>1, VenueFields DEF VenueTypes
  <2>. HIDE DEF v
  <2>. QED  BY <1>3, <2>1, ExceptSeq, LenProperties
<1>5. PICK told \in Seq(Statuses) :
         /\ Len(told) = Len(log[v]) + 1 /\ told[Len(told)] = memory.approval_status
         /\ DOMAIN told = 1..Len(log[v]) + 1
         /\ \A k \in 1..Len(log[v]) : told[k] = log[v][k]
         /\ log' = [log EXCEPT ![v] = told]
  <2>1. memory.approval_status \in Statuses
    BY DEF Venue
  <2>2. log' = [log EXCEPT ![v] = Append(log[v], memory.approval_status)]
    BY <1>2
  <2>3. PICK told : told = Append(log[v], memory.approval_status)
    OBVIOUS
  <2>4. /\ told \in Seq(Statuses) /\ Len(told) = Len(log[v]) + 1 /\ told[Len(log[v]) + 1] = memory.approval_status
        /\ DOMAIN told = 1..Len(log[v]) + 1 /\ \A k \in 1..Len(log[v]) : told[k] = log[v][k]
    BY <1>1, <2>1, <2>3, Appended
  <2>. QED  BY <2>2, <2>3, <2>4
<1>6. /\ log' \in Seq(Seq(Statuses)) /\ Len(log') = Len(log) /\ DOMAIN log' = DOMAIN log
      /\ \A w \in DOMAIN venues : log'[w] = IF w = v THEN told ELSE log[w]
  <2>1. log \in Seq(Seq(Statuses)) /\ v \in 1..Len(log) /\ DOMAIN log = DOMAIN venues
    BY <1>1, VenueFields DEF VenueTypes
  <2>. HIDE DEF v
  <2>. QED  BY <1>5, <2>1, ExceptSeq, LenProperties
<1>7. /\ work' \in [Workers -> Work] /\ work'[h].kind = "idle"
      /\ \A g \in Workers : work'[g].kind # "idle" => work'[g] = work[g]
  BY <1>1, RecordTypes DEF VenueTypes
<1>. HIDE DEF v, read
<1>8. VenuesGrow
  BY <1>3, <1>4 DEF VenuesGrow
<1>9. KnownInv' /\ GenerationInv'
  BY <1>1, <1>8, AccountsStay DEF accountVars, accountsButMoves
<1>10. AccountTypes'
  BY <1>1 DEF AccountTypes, accountVars
<1>11. VenueTypes'
  <2>1. ASSUME NEW w \in DOMAIN venues  PROVE log'[w] # <<>> /\ next'[w] \in 1..Len(log'[w]) + 1
    BY <1>1, <1>5, <1>6, <2>1, VenueFields DEF VenueTypes
  <2>. QED  BY <1>1, <1>4, <1>6, <1>7, <2>1 DEF VenueTypes
<1>12. FreshInv'
  BY <1>1, <1>3, <1>4, <1>7 DEF FreshInv, Registered, accountVars
<1>13. WorkInv'
  <2>1. \A w \in DOMAIN venues : Len(log[w]) \in Nat /\ Len(log[w]) <= Len(log'[w])
    BY <1>1, <1>5, <1>6, VenueFields
  <2>2. \A w \in DOMAIN venues : w \in DOMAIN venues' /\ venues'[w].owner = venues[w].owner
    BY <1>3, <1>4
  <2>3. \A g \in Workers : work[g].before \in Nat
    BY VenueFields DEF Work
  <2>4. \A g \in Workers : work[g].kind \in {"decide", "edit"} =>
            work[g].before <= Len(log'[work[g].venue])
    BY <2>1, <2>3 DEF WorkInv
  <2>. QED  BY <1>7, <2>2, <2>4 DEF WorkInv
<1>14. ApprovedInv'
  <2>1. memory.approval_status = "approved" => row.everApproved
    BY <1>1, <1>3 DEF ApprovedInv, v, read
  <2>2. ASSUME NEW w \in DOMAIN venues', NEW k \in DOMAIN log'[w], log'[w][k] = "approved"
        PROVE  venues'[w].everApproved
    <3>1. CASE w = v
      <4>1. k = Len(told) \/ k \in 1..Len(log[v])
        BY <1>1, <1>5, <1>6, <2>2, <3>1
      <4>2. DOMAIN log[v] = 1..Len(log[v])
        BY <1>1, VenueFields
      <4>3. told[k] = "approved" /\ venues'[w] = row
        BY <1>1, <1>4, <1>6, <2>2, <3>1
      <4>4. CASE k = Len(told)
        BY <1>5, <2>1, <4>3, <4>4
      <4>5. CASE k \in 1..Len(log[v])
        BY <1>1, <1>3, <1>5, <4>2, <4>3, <4>5 DEF ApprovedInv
      <4>. QED  BY <4>1, <4>3, <4>4, <4>5
    <3>2. CASE w # v
      BY <1>4, <1>6, <2>2, <3>2 DEF ApprovedInv
    <3>. QED  BY <3>1, <3>2
  <2>3. \A w \in DOMAIN venues' : venues'[w].approval_status = "approved" => venues'[w].everApproved
    BY <1>3, <1>4 DEF ApprovedInv
  <2>4. \A g \in Workers : work'[g].kind \in {"decide", "edit"} => work'[g] = work[g] /\ work[g].venue \in DOMAIN venues
    BY <1>7 DEF WorkInv
  <2>. QED  BY <1>3, <1>4, <2>2, <2>3, <2>4 DEF ApprovedInv
<1>15. OneVenuePerOwner'
  BY <1>1, <1>3, <1>4 DEF OneVenuePerOwner
<1>16. LastEventInv'
  <2>1. ASSUME v \notin twoAtOnce'  PROVE memory.approval_status = row.approval_status
    <3>1. v \notin twoAtOnce /\ work[h].before = Len(log[v])
      BY <1>1, <2>1
    <3>2. read.approval_status = venues[v].approval_status
      BY <1>1, <3>1 DEF LastEventInv, v, read
    <3>. QED  BY <1>3, <3>2
  <2>2. \A w \in DOMAIN venues' : w \notin twoAtOnce' \cup overtaken' => Last(log'[w]) = venues'[w].approval_status
    BY <1>1, <1>4, <1>5, <1>6, <2>1 DEF LastEventInv, Last
  <2>3. ASSUME NEW g \in Workers, work'[g].kind \in {"decide", "edit"}, work'[g].venue \notin twoAtOnce',
               work'[g].before = Len(log'[work'[g].venue])
        PROVE  work'[g].read.approval_status = venues'[work'[g].venue].approval_status
    <3>1. work'[g] = work[g] /\ work[g].venue \in DOMAIN venues /\ work[g].before <= Len(log[work[g].venue])
      BY <1>7, <2>3 DEF WorkInv
    <3>2. work[g].venue # v
      BY <1>1, <1>5, <1>6, <2>3, <3>1
    <3>. QED  BY <1>1, <1>4, <1>6, <2>3, <3>1, <3>2 DEF LastEventInv
  <2>. QED  BY <2>2, <2>3 DEF LastEventInv
<1>17. MirrorInv'
  <2>1. ~(next'[v] > Len(log'[v]))
    BY <1>1, <1>5, <1>6 DEF VenueTypes
  <2>2. ASSUME NEW w \in DOMAIN venues', w # v, {x \in DOMAIN venues' : venues'[x].owner = venues'[w].owner} = {w},
               next'[w] > Len(log'[w]), ~skipped'[w], w \notin overtaken'
        PROVE  user'[venues'[w].owner].approval_status = Last(log'[w])
    <3>1. owned_by(venues[w].owner) = {w}
      BY <1>3, <1>4, <2>2 DEF owned_by
    <3>2. user[venues[w].owner].approval_status = Last(log[w])
      BY <1>1, <1>4, <1>6, <2>2, <3>1 DEF MirrorInv
    <3>. QED  BY <1>1, <1>4, <1>6, <2>2, <3>2 DEF accountVars
  <2>. QED  BY <2>1, <2>2 DEF MirrorInv, owned_by
<1>. QED  BY <1>9, <1>10, <1>11, <1>12, <1>13, <1>14, <1>15, <1>16, <1>17

-----------------------------------------------------------------------------

(* The consumer of the users service *)

\* A step that changes only where the consumer is, and what it lost.
LEMMA ConsumerMoves ==
  ASSUME IInv, UNCHANGED <<signups, venues, work, log, twoAtOnce, overtaken>>, UNCHANGED accountsButMoves,
         moves' \in 0..MaxMoves,
         next' \in Seq(Nat), Len(next') = Len(venues),
         skipped' \in Seq(BOOLEAN), Len(skipped') = Len(venues),
         \A v \in DOMAIN venues : next'[v] \in 1..Len(log[v]) + 1,
         \A v \in DOMAIN venues : next'[v] > Len(log[v]) /\ ~skipped'[v] => next[v] > Len(log[v]) /\ ~skipped[v]
  PROVE  IInv'
<1>. USE DEF IInv, accountsButMoves
<1>1. KnownInv' /\ GenerationInv'
  BY AccountsStay DEF VenuesGrow, accountsButMoves
<1>2. AccountTypes' /\ VenueTypes'
  BY DEF AccountTypes, VenueTypes
<1>3. FreshInv'
  BY DEF FreshInv, Registered
<1>4. WorkInv' /\ ApprovedInv' /\ LastEventInv'
  BY DEF WorkInv, ApprovedInv, LastEventInv, Last
<1>5. OneVenuePerOwner' /\ MirrorInv'
  BY DEF OneVenuePerOwner, MirrorInv, owned_by, Last
<1>. QED  BY <1>1, <1>2, <1>3, <1>4, <1>5

LEMMA PositionMoves ==
  ASSUME VenueTypes, NEW v \in DOMAIN venues, NEW k \in Nat, next' = [next EXCEPT ![v] = k]
  PROVE  /\ next' \in Seq(Nat) /\ Len(next') = Len(venues)
         /\ \A w \in DOMAIN venues : next'[w] = IF w = v THEN k ELSE next[w]
<1>1. next \in Seq(Nat) /\ Len(next) = Len(venues) /\ v \in 1..Len(next) /\ DOMAIN next = DOMAIN venues
  BY VenueFields DEF VenueTypes
<1>. QED  BY <1>1, ExceptSeq, LenProperties

LEMMA Redelivers ==
  ASSUME IInv, NEW v \in DOMAIN venues, Redelivered(v)
  PROVE  IInv'
<1>. USE DEF IInv
<1>1. PICK k \in 1..next[v] - 1 : next' = [next EXCEPT ![v] = k]
  BY DEF Redelivered
<1>2. next[v] \in Nat /\ Len(log[v]) \in Nat /\ next[v] \in 1..Len(log[v]) + 1
  BY VenueFields DEF VenueTypes
<1>3. k \in Nat /\ k \in 1..Len(log[v])
  BY <1>1, <1>2
<1>4. /\ next' \in Seq(Nat) /\ Len(next') = Len(venues)
      /\ \A w \in DOMAIN venues : next'[w] = IF w = v THEN k ELSE next[w]
  BY <1>1, <1>3, PositionMoves
<1>5. k \in 1..Len(log[v]) + 1 /\ ~(k > Len(log[v]))
  BY <1>2, <1>3
<1>6. \A w \in DOMAIN venues : /\ next'[w] \in 1..Len(log[w]) + 1
                               /\ next'[w] > Len(log[w]) => next[w] > Len(log[w])
  <2>. TAKE w \in DOMAIN venues
  <2>1. CASE w = v
    BY <1>4, <1>5, <2>1
  <2>2. CASE w # v
    BY <1>4, <2>2 DEF VenueTypes
  <2>. QED  BY <2>1, <2>2
<1>7. moves' \in 0..MaxMoves
  BY Moved, AccountsAssumption DEF Redelivered
<1>. QED  BY <1>4, <1>6, <1>7, ConsumerMoves DEF Redelivered, VenueTypes

LEMMA Skips ==
  ASSUME IInv, NEW v \in DOMAIN venues, Skipped(v)
  PROVE  IInv'
<1>. USE DEF IInv
<1>1. next[v] \in Nat /\ Len(log[v]) \in Nat /\ next[v] \in 1..Len(log[v])
  BY VenueFields DEF Skipped, VenueTypes
<1>2. PICK k \in Nat : k = next[v] + 1
  BY <1>1
<1>3. /\ next' \in Seq(Nat) /\ Len(next') = Len(venues)
      /\ \A w \in DOMAIN venues : next'[w] = IF w = v THEN k ELSE next[w]
  BY <1>2, PositionMoves DEF Skipped
<1>4. \A w \in DOMAIN venues : next'[w] \in 1..Len(log[w]) + 1
  <2>1. k \in 1..Len(log[v]) + 1
    BY <1>1, <1>2
  <2>. QED  BY <1>3, <2>1 DEF VenueTypes
<1>5. /\ skipped' \in Seq(BOOLEAN) /\ Len(skipped') = Len(venues)
      /\ \A w \in DOMAIN venues : skipped'[w] = IF w = v THEN TRUE ELSE skipped[w]
  <2>1. PICK yes \in BOOLEAN : yes = TRUE
    OBVIOUS
  <2>2. skipped' = [skipped EXCEPT ![v] = yes]
    BY <2>1 DEF Skipped
  <2>3. skipped \in Seq(BOOLEAN) /\ Len(skipped) = Len(venues) /\ v \in 1..Len(skipped) /\ DOMAIN skipped = DOMAIN venues
    BY VenueFields DEF VenueTypes
  <2>4. /\ skipped' \in Seq(BOOLEAN) /\ Len(skipped') = Len(skipped)
        /\ \A w \in DOMAIN venues : skipped'[w] = IF w = v THEN yes ELSE skipped[w]
    BY <2>2, <2>3, ExceptSeq, LenProperties
  <2>. QED  BY <2>1, <2>3, <2>4
<1>6. \A w \in DOMAIN venues : next'[w] > Len(log[w]) /\ ~skipped'[w] => next[w] > Len(log[w]) /\ ~skipped[w]
  BY <1>3, <1>5
<1>7. moves' \in 0..MaxMoves
  BY Moved, AccountsAssumption DEF Skipped
<1>. QED  BY <1>3, <1>4, <1>5, <1>6, <1>7, ConsumerMoves DEF Skipped

\* An event put in the account, the one that is next or one that was given up on.
LEMMA Granting ==
  ASSUME IInv, NEW v \in DOMAIN venues, NEW k \in DOMAIN log[v],
         user' = [user EXCEPT ![venues[v].owner] = Granted(@, log[v][k])],
         moves' \in 0..MaxMoves,
         UNCHANGED <<pairs, links, call, epoch, crossed>>,
         UNCHANGED <<signups, venues, work, log, twoAtOnce>>
  PROVE  /\ AccountTypes' /\ FreshInv' /\ KnownInv' /\ GenerationInv'
         /\ WorkInv' /\ ApprovedInv' /\ OneVenuePerOwner'
         /\ \A w \in Users : user'[w].approval_status =
                 IF w = venues[v].owner THEN log[v][k] ELSE user[w].approval_status
<1>. USE DEF IInv
<1>. DEFINE u == venues[v].owner
            event == log[v][k]
<1>1. u \in Users /\ Registered(u) /\ user[u] \in Account /\ event \in Statuses
  BY VenueFields, AccountFields, ElementOfSeq DEF FreshInv
<1>2. PICK row : row = Granted(user[u], event)
  OBVIOUS
<1>3. /\ row \in Account /\ row.registered = user[u].registered /\ row.veteran = user[u].veteran
      /\ row.generation = user[u].generation /\ row.approval_status = event
      /\ row.is_active => user[u].is_active \/ event = "approved"
  BY <1>1, <1>2 DEF Granted, Account
<1>4. user' \in [Users -> Account] /\ \A w \in Users : user'[w] = IF w = u THEN row ELSE user[w]
  BY <1>2, <1>3 DEF AccountTypes
<1>5. event = "approved" => venues[v].everApproved
  BY DEF ApprovedInv
<1>. HIDE DEF event
<1>6. Known(u) \/ ~row.is_active
  BY <1>1, <1>3, <1>5 DEF KnownInv, Known, Cleared, owned_by
<1>7. \A w \in Users : user'[w].approval_status = IF w = u THEN event ELSE user[w].approval_status
  BY <1>3, <1>4
<1>. HIDE DEF u
<1>8. AccountTypes'
  BY <1>4 DEF AccountTypes
<1>9. FreshInv'
  BY <1>1, <1>3, <1>4 DEF FreshInv, Registered
<1>10. KnownInv'
  <2>1. \A w \in Users : Known(w) => Known(w)'
    BY <1>1, <1>3, <1>4 DEF Known, Cleared, Registered, owned_by
  <2>2. \A w \in Users : user'[w].is_active => Known(w)
    BY <1>4, <1>6 DEF KnownInv
  <2>3. /\ \A i \in DOMAIN pairs : pairs[i].user \in Users
        /\ \A l \in DOMAIN links : links[l].user \in Users
        /\ \A q \in Requests : call[q].user \in Users
    BY AccountFields
  <2>. QED  BY <2>1, <2>2, <2>3 DEF KnownInv, Known, Cleared, Registered, owned_by
<1>11. GenerationInv'
  BY <1>1, <1>3, <1>4 DEF GenerationInv
<1>12. WorkInv' /\ ApprovedInv' /\ OneVenuePerOwner'
  BY DEF WorkInv, ApprovedInv, OneVenuePerOwner
<1>. QED  BY <1>7, <1>8, <1>9, <1>10, <1>11, <1>12 DEF u, event

LEMMA Applies ==
  ASSUME IInv, NEW v \in DOMAIN venues, apply_restaurant_decision(v)
  PROVE  IInv'
<1>. USE DEF IInv
<1>1. /\ next[v] \in Nat /\ Len(log[v]) \in Nat /\ next[v] \in DOMAIN log[v] /\ next[v] <= Len(log[v])
      /\ user' = [user EXCEPT ![venues[v].owner] = Granted(@, log[v][next[v]])]
      /\ UNCHANGED <<pairs, links, call, epoch, crossed, moves>>
      /\ UNCHANGED <<signups, venues, work, log, skipped, twoAtOnce, overtaken>>
  BY VenueFields DEF apply_restaurant_decision, VenueTypes
<1>2. PICK k \in Nat : k = next[v] + 1
  BY <1>1
<1>3. /\ next' \in Seq(Nat) /\ Len(next') = Len(venues)
      /\ \A w \in DOMAIN venues : next'[w] = IF w = v THEN k ELSE next[w]
  BY <1>2, PositionMoves DEF apply_restaurant_decision
<1>4. moves' \in 0..MaxMoves
  BY <1>1 DEF AccountTypes
<1>5. /\ AccountTypes' /\ FreshInv' /\ KnownInv' /\ GenerationInv' /\ WorkInv' /\ ApprovedInv' /\ OneVenuePerOwner'
      /\ \A w \in Users : user'[w].approval_status =
              IF w = venues[v].owner THEN log[v][next[v]] ELSE user[w].approval_status
  BY <1>1, <1>4, Granting
<1>6. VenueTypes'
  <2>1. k \in 1..Len(log[v]) + 1
    BY <1>1, <1>2
  <2>2. \A w \in DOMAIN venues : next'[w] \in 1..Len(log[w]) + 1
    BY <1>3, <2>1 DEF VenueTypes
  <2>. QED  BY <1>1, <1>3, <2>2 DEF VenueTypes
<1>7. LastEventInv'
  BY <1>1 DEF LastEventInv, Last
<1>8. MirrorInv'
  <2>1. SUFFICES ASSUME NEW w \in DOMAIN venues, owned_by(venues[w].owner) = {w}, next'[w] > Len(log[w]), ~skipped[w],
                        w \notin overtaken
                 PROVE  user'[venues[w].owner].approval_status = Last(log[w])
    BY <1>1 DEF MirrorInv, owned_by
  <2>2. venues[w].owner \in Users
    BY VenueFields
  <2>3. CASE w = v
    <3>1. next[v] = Len(log[v])
      BY <1>1, <1>2, <1>3, <2>1, <2>3
    <3>. QED  BY <1>5, <2>2, <2>3, <3>1 DEF Last
  <2>4. CASE w # v
    <3>1. venues[w].owner # venues[v].owner
      BY <2>1, <2>4 DEF owned_by
    <3>. QED  BY <1>3, <1>5, <2>1, <2>2, <2>4, <3>1 DEF MirrorInv
  <2>. QED  BY <2>3, <2>4
<1>. QED  BY <1>5, <1>6, <1>7, <1>8

LEMMA AppliesLate ==
  ASSUME IInv, NEW v \in DOMAIN venues, LateDecision(v)
  PROVE  IInv'
<1>. USE DEF IInv
<1>1. /\ UNCHANGED <<pairs, links, call, epoch, crossed>>
      /\ UNCHANGED <<signups, venues, work, log, next, skipped, twoAtOnce>>
      /\ overtaken' = overtaken \cup {v}
  BY DEF LateDecision
<1>2. PICK k \in DOMAIN log[v] : user' = [user EXCEPT ![venues[v].owner] = Granted(@, log[v][k])]
  <2>1. PICK k \in 1..next[v] - 1 : user' = [user EXCEPT ![venues[v].owner] = Granted(@, log[v][k])]
    BY DEF LateDecision
  <2>2. k \in DOMAIN log[v]
    BY <2>1, VenueFields DEF VenueTypes
  <2>. QED  BY <2>1, <2>2
<1>3. moves' \in 0..MaxMoves
  BY Moved, AccountsAssumption DEF LateDecision
<1>4. /\ AccountTypes' /\ FreshInv' /\ KnownInv' /\ GenerationInv' /\ WorkInv' /\ ApprovedInv' /\ OneVenuePerOwner'
      /\ \A w \in Users : user'[w].approval_status =
              IF w = venues[v].owner THEN log[v][k] ELSE user[w].approval_status
  BY <1>1, <1>2, <1>3, Granting
<1>5. VenueTypes'
  BY <1>1 DEF VenueTypes
<1>6. LastEventInv'
  BY <1>1 DEF LastEventInv, Last
<1>7. MirrorInv'
  <2>1. SUFFICES ASSUME NEW w \in DOMAIN venues, owned_by(venues[w].owner) = {w}, next[w] > Len(log[w]), ~skipped[w],
                        w \notin overtaken, w # v
                 PROVE  user'[venues[w].owner].approval_status = Last(log[w])
    BY <1>1 DEF MirrorInv, owned_by
  <2>2. venues[w].owner \in Users /\ venues[w].owner # venues[v].owner
    BY <2>1, VenueFields DEF owned_by
  <2>. QED  BY <1>4, <2>1, <2>2 DEF MirrorInv
<1>. QED  BY <1>4, <1>5, <1>6, <1>7

\* Two events of a venue change places.
LEMMA Reorders ==
  ASSUME IInv, NEW v \in DOMAIN venues, Reordered(v)
  PROVE  IInv'
<1>. USE DEF IInv
<1>1. /\ UNCHANGED accountsButMoves /\ UNCHANGED <<signups, venues, work, next, skipped, twoAtOnce>>
      /\ overtaken' = overtaken \cup {v} /\ moves' \in 0..MaxMoves
  BY Moved, AccountsAssumption DEF Reordered
<1>2. /\ log[v] \in Seq(Statuses) /\ Len(log[v]) \in Nat \ {0} /\ DOMAIN log[v] = 1..Len(log[v])
      /\ next[v] \in 1..Len(log[v]) + 1
  BY VenueFields DEF VenueTypes
<1>3. PICK told \in Seq(Statuses) :
         /\ log' = [log EXCEPT ![v] = told]
         /\ Len(told) = Len(log[v])
         /\ \A k \in DOMAIN told : \E l \in DOMAIN log[v] : told[k] = log[v][l]
  <2>1. PICK k \in next[v]..Len(log[v]) - 1 :
           log' = [log EXCEPT ![v] = [log[v] EXCEPT ![k] = log[v][k + 1], ![k + 1] = log[v][k]]]
    BY DEF Reordered
  <2>2. k \in 1..Len(log[v]) /\ k + 1 \in 1..Len(log[v])
    BY <1>2, <2>1
  <2>3. PICK told : told = [log[v] EXCEPT ![k] = log[v][k + 1], ![k + 1] = log[v][k]]
    OBVIOUS
  <2>4. log[v][k] \in Statuses /\ log[v][k + 1] \in Statuses
    BY <1>2, <2>2, ElementOfSeq
  <2>5. PICK first : first = [log[v] EXCEPT ![k] = log[v][k + 1]]
    OBVIOUS
  <2>6. first \in Seq(Statuses) /\ Len(first) = Len(log[v])
    BY <1>2, <2>2, <2>4, <2>5, ExceptSeq
  <2>7. told = [first EXCEPT ![k + 1] = log[v][k]]
    BY <2>3, <2>5
  <2>8. told \in Seq(Statuses) /\ Len(told) = Len(log[v])
    BY <2>2, <2>4, <2>6, <2>7, ExceptSeq
  <2>9. \A j \in DOMAIN log[v] : told[j] = IF j = k + 1 THEN log[v][k] ELSE IF j = k THEN log[v][k + 1] ELSE log[v][j]
    BY <1>2, <2>2, <2>3
  <2>10. DOMAIN told = DOMAIN log[v]
    BY <2>3
  <2>. QED  BY <1>2, <2>1, <2>2, <2>3, <2>8, <2>9, <2>10
<1>4. /\ log' \in Seq(Seq(Statuses)) /\ Len(log') = Len(venues)
      /\ \A w \in DOMAIN venues : log'[w] = IF w = v THEN told ELSE log[w]
  <2>1. log \in Seq(Seq(Statuses)) /\ Len(log) = Len(venues) /\ v \in 1..Len(log) /\ DOMAIN log = DOMAIN venues
    BY VenueFields DEF VenueTypes
  <2>. QED  BY <1>3, <2>1, ExceptSeq, LenProperties
<1>5. \A w \in DOMAIN venues : Len(log'[w]) = Len(log[w])
  BY <1>3, <1>4
<1>6. KnownInv' /\ GenerationInv'
  BY <1>1, AccountsStay DEF VenuesGrow, accountsButMoves
<1>7. AccountTypes' /\ FreshInv'
  BY <1>1 DEF AccountTypes, FreshInv, Registered, accountsButMoves
<1>8. VenueTypes'
  <2>1. \A w \in DOMAIN venues : log'[w] # <<>> /\ next[w] \in 1..Len(log'[w]) + 1
    <3>1. told # <<>>
      BY <1>2, <1>3
    <3>. QED  BY <1>4, <1>5, <3>1 DEF VenueTypes
  <2>. QED  BY <1>1, <1>4, <2>1 DEF VenueTypes
<1>9. WorkInv' /\ OneVenuePerOwner'
  BY <1>1, <1>5 DEF WorkInv, OneVenuePerOwner
<1>10. ApprovedInv'
  <2>1. ASSUME NEW w \in DOMAIN venues, NEW k \in DOMAIN log'[w], log'[w][k] = "approved"  PROVE venues[w].everApproved
    BY <1>3, <1>4, <2>1 DEF ApprovedInv
  <2>. QED  BY <1>1, <2>1 DEF ApprovedInv
<1>11. LastEventInv'
  <2>1. \A w \in DOMAIN venues : w # v => log'[w] = log[w]
    BY <1>4
  <2>2. \A h \in Workers : work[h].kind \in {"decide", "edit"} => Len(log'[work[h].venue]) = Len(log[work[h].venue])
    BY <1>5 DEF WorkInv
  <2>. QED  BY <1>1, <2>1, <2>2 DEF LastEventInv, Last
<1>12. MirrorInv'
  BY <1>1, <1>4 DEF MirrorInv, owned_by, Last, accountsButMoves
<1>. QED  BY <1>6, <1>7, <1>8, <1>9, <1>10, <1>11, <1>12

-----------------------------------------------------------------------------

(* The invariant, and what follows from it *)

LEMMA NextIInv == IInv /\ [Next]_vars => IInv'
<1>. SUFFICES ASSUME IInv, [Next]_vars  PROVE IInv'
  OBVIOUS
<1>1. CASE UNCHANGED vars
  <2>. USE <1>1 DEF vars, IInv
  <2>1. AccountTypes' /\ VenueTypes' /\ FreshInv' /\ GenerationInv' /\ WorkInv'
    BY DEF AccountTypes, VenueTypes, FreshInv, Registered, GenerationInv, WorkInv
  <2>2. KnownInv' /\ ApprovedInv' /\ OneVenuePerOwner' /\ LastEventInv' /\ MirrorInv'
    BY DEF KnownInv, Known, Cleared, Registered, ApprovedInv, OneVenuePerOwner, LastEventInv, MirrorInv, owned_by, Last
  <2>. QED  BY <2>1, <2>2
<1>2. ASSUME NEW u \in Users, Register(u) \/ SignupAcknowledged(u)  PROVE IInv'
  BY <1>2, Registers, Acknowledges
<1>3. CASE SessionStep /\ UNCHANGED venueVars
  BY <1>3, SessionMoves
<1>4. ASSUME NEW h \in Workers, NEW u \in Applicants, NewVenueRead(h, u)  PROVE IInv'
  BY <1>4, NewVenueReads
<1>5. ASSUME NEW h \in Workers, NewVenueCommits(h) \/ WorkCommits(h)  PROVE IInv'
  BY <1>5, VenueOpens, Commits
<1>6. ASSUME NEW h \in Workers, NEW v \in DOMAIN venues, DecisionRead(h, v) \/ EditRead(h, v)  PROVE IInv'
  BY <1>6, RowReads
<1>7. ASSUME NEW v \in DOMAIN venues, apply_restaurant_decision(v) \/ Redelivered(v) \/ Skipped(v)  PROVE IInv'
  BY <1>7, Applies, Redelivers, Skips
<1>8. ASSUME NEW v \in DOMAIN venues, Reordered(v) \/ LateDecision(v)  PROVE IInv'
  BY <1>8, Reorders, AppliesLate
<1>. QED  BY <1>1, <1>2, <1>3, <1>4, <1>5, <1>6, <1>7, <1>8 DEF Next

LEMMA InitIInv == Init => IInv
<1>. SUFFICES ASSUME Init  PROVE IInv
  OBVIOUS
<1>. USE DEF Init, AccountsInit
<1>1. /\ pairs = <<>> /\ links = <<>> /\ venues = <<>> /\ log = <<>> /\ next = <<>> /\ skipped = <<>>
      /\ DOMAIN pairs = {} /\ DOMAIN links = {} /\ DOMAIN venues = {}
  BY EmptySeq
<1>2. \A u \in Users : /\ user[u] \in Account /\ user[u].generation = 0
                       /\ user[u].is_active => user[u].registered /\ user[u].veteran
  <2>1. PICK veteran : veteran = [NotRegistered EXCEPT !.registered = TRUE, !.veteran = TRUE, !.is_active = TRUE]
    OBVIOUS
  <2>2. /\ NotRegistered \in Account /\ NotRegistered.generation = 0 /\ ~NotRegistered.is_active
        /\ veteran \in Account /\ veteran.generation = 0 /\ veteran.registered /\ veteran.veteran
    BY <2>1 DEF NotRegistered, Account, Statuses
  <2>3. \A u \in Users : user[u] \in {NotRegistered, veteran}
    BY <2>1
  <2>. QED  BY <2>2, <2>3
<1>3. user \in [Users -> Account]
  BY <1>2
<1>4. AccountTypes
  BY <1>1, <1>3, RecordTypes, AccountsAssumption, EmptySeq DEF AccountTypes
<1>5. VenueTypes
  BY <1>1, RecordTypes, EmptySeq DEF VenueTypes
<1>6. \A h \in Workers : work[h].kind = "idle"
  BY RecordTypes
<1>7. \A q \in Requests : call[q].pc = "idle"
  BY RecordTypes
<1>8. FreshInv
  BY <1>1, <1>2, <1>6 DEF FreshInv, Registered
<1>9. KnownInv /\ GenerationInv
  BY <1>1, <1>2, <1>7 DEF KnownInv, Known, Cleared, Registered, GenerationInv
<1>10. WorkInv /\ ApprovedInv /\ OneVenuePerOwner /\ LastEventInv /\ MirrorInv
  BY <1>1, <1>6 DEF WorkInv, ApprovedInv, OneVenuePerOwner, LastEventInv, MirrorInv
<1>. QED  BY <1>4, <1>5, <1>8, <1>9, <1>10 DEF IInv

\* The inductive invariant holds, faults or none.
THEOREM Invariance == Spec => []IInv
BY InitIInv, NextIInv, PTL DEF Spec

\* Accounts, tokens, links, calls, venues and their events keep their types.
THEOREM TypeCorrect == Spec => []TypeOK
<1>1. IInv => TypeOK
  <2>. SUFFICES ASSUME IInv  PROVE TypeOK
    OBVIOUS
  <2>1. AccountsTypeOK
    BY DEF IInv, AccountTypes, AccountsTypeOK
  <2>. QED  BY <2>1, VenueFields DEF IInv, VenueTypes, TypeOK
<1>. QED  BY <1>1, Invariance, PTL

\* After change_password or reset_password no token got with an older password
\* passes current_user or refresh_tokens; unless two changes overlapped, or one
\* committed between the commit and the refresh of a change_password.
THEOREM PasswordChangeEvictsAlways == Spec => []PasswordChangeEvicts
<1>1. IInv => PasswordChangeEvicts
  BY AccountFields DEF IInv, GenerationInv, PasswordChangeEvicts, AccessAccepted, RefreshAccepted, generation_matches
<1>. QED  BY <1>1, Invariance, PTL

\* apply_restaurant_decision lets an applicant in only for a venue an operator
\* has approved, in whatever order and however often the events come.
THEOREM NoSessionBeforeApprovalAlways == Spec => []NoSessionBeforeApproval
<1>1. IInv => NoSessionBeforeApproval
  BY DEF IInv, KnownInv, Known, Cleared, NoSessionBeforeApproval
<1>. QED  BY <1>1, Invariance, PTL

\* register_from_signup and create_restaurant make one venue for an owner,
\* unless both looked before either committed.
THEOREM OneVenuePerOwnerAlways == Spec => []OneVenuePerOwner
<1>1. IInv => OneVenuePerOwner
  BY DEF IInv
<1>. QED  BY <1>1, Invariance, PTL

\* The account has the status of its owner's only venue once apply_restaurant_decision
\* has handled the venue's last event, redelivered or not; unless an event of it was
\* passed over, or sent or committed out of order, or two edits were blind to each other.
THEOREM MirrorsDecisionAlways == Spec => []MirrorsDecision
<1>1. IInv => MirrorsDecision
  BY DEF IInv, MirrorInv, LastEventInv, MirrorsDecision
<1>. QED  BY <1>1, Invariance, PTL

=============================================================================
