----------------------------- MODULE Accounts -----------------------------
(***************************************************************************)
(* Accounts and sessions of the users service (services/users/app:         *)
(* service.py, tokens.py, jwt_tokens.py, dependencies.py).                 *)
(*                                                                         *)
(* A session is a pair of signed tokens.  Nothing is stored about it: a    *)
(* token is good while its id is not in Redis' blocklist and the           *)
(* generation in its claims is that of the account.  A new password counts *)
(* the generation up, with a plain SELECT and an absolute UPDATE, so two   *)
(* changes can overlap.  A reset link is a Redis key that is deleted as it *)
(* is read.  Expiry of tokens by time is left out: it only ends sessions.  *)
(***************************************************************************)
EXTENDS Naturals, Sequences, FiniteSets

CONSTANTS
    Users,       \* the accounts
    Applicants,  \* those with role "restaurant"; the others are customers
    Requests,    \* calls the users service serves at a time
    MaxMoves     \* bound on what people do and on faults, all together

ASSUME AccountsAssumption == Users # {} /\ Applicants \subseteq Users /\ MaxMoves \in Nat

VARIABLES
    user,     \* user[u]: the row of account u
    pairs,    \* the token pairs issued, oldest first
    links,    \* the reset links sent, oldest first
    call,     \* call[q]: the call in slot q
    epoch,    \* epoch[u]: passwords u has had, less one (history)
    crossed,  \* crossed[u]: did two changes of the password overlap?  (history)
    moves     \* logins, calls, decisions, edits and faults so far

accountVars == <<user, pairs, links, call, epoch, crossed, moves>>

Statuses == {"none", "pending", "approved", "rejected"}

\* The columns of User a decision here reads; approval_status NULL is "none".
\* veteran (history): an owner from before approval existed.
Account == [registered : BOOLEAN, veteran : BOOLEAN, is_active : BOOLEAN, approval_status : Statuses, generation : Nat]
NotRegistered == [registered |-> FALSE, veteran |-> FALSE, is_active |-> FALSE, approval_status |-> "none", generation |-> 0]

\* access, refresh: are the tokens' ids off the blocklist?  parent is the
\* pair this one was refreshed from, or 0; epoch the password it was got with.
Pair == [user : Users, generation : Nat, epoch : Nat,
         access : BOOLEAN, refresh : BOOLEAN, parent : Nat]

Link == [user : Users, live : BOOLEAN]

Call == [pc : {"idle", "issue", "commit", "reread"}, user : Users,
         pair : Nat, generation : Nat, epoch : Nat, keepsSession : BOOLEAN]
NoCall == [pc |-> "idle", user |-> CHOOSE u \in Users : TRUE, pair |-> 0,
           generation |-> 0, epoch |-> 0, keepsSession |-> FALSE]

\* Accounts not registered yet, or owners from before approval existed.
AccountsInit ==
    /\ user \in [Users -> {NotRegistered, [NotRegistered EXCEPT !.registered = TRUE, !.veteran = TRUE, !.is_active = TRUE]}]
    /\ pairs = <<>> /\ links = <<>>
    /\ call = [q \in Requests |-> NoCall]
    /\ epoch = [u \in Users |-> 0] /\ crossed = [u \in Users |-> FALSE]
    /\ moves = 0

-----------------------------------------------------------------------------

Move == moves < MaxMoves /\ moves' = moves + 1

(* The checks every call goes through *)

generation_matches(i, u) == pairs[i].generation = user[u].generation

\* current_user: the account an access token speaks for, checked afresh.
AccessAccepted(i) ==
    LET u == pairs[i].user IN
    pairs[i].access /\ user[u].is_active /\ generation_matches(i, u)

RefreshAccepted(i) ==
    LET u == pairs[i].user IN
    pairs[i].refresh /\ user[u].is_active /\ generation_matches(i, u)

_issue_tokens(u, gen, ep, from) == [user |-> u, generation |-> gen, epoch |-> ep,
                                    access |-> TRUE, refresh |-> TRUE, parent |-> from]

(* Signing up and in *)

\* register_user: a restaurant's applicant stays out until it is approved.
register_user(u) ==
    /\ ~user[u].registered
    /\ user' = [user EXCEPT ![u] =
                  [NotRegistered EXCEPT !.registered = TRUE,
                                        !.is_active = u \notin Applicants,
                                        !.approval_status = IF u \in Applicants THEN "pending" ELSE "none"]]
    /\ UNCHANGED <<pairs, links, call, epoch, crossed, moves>>

login(u) ==
    /\ user[u].is_active
    /\ Move
    /\ pairs' = Append(pairs, _issue_tokens(u, user[u].generation, epoch[u], 0))
    /\ UNCHANGED <<user, links, call, epoch, crossed>>

(* Keeping and ending a session *)

\* refresh_tokens up to its last check.
RefreshChecked(q, i) ==
    /\ call[q].pc = "idle"
    /\ RefreshAccepted(i)
    /\ Move
    /\ LET u == pairs[i].user IN
       call' = [call EXCEPT ![q] = [NoCall EXCEPT !.pc = "issue", !.user = u, !.pair = i,
                                      !.generation = user[u].generation, !.epoch = epoch[u]]]
    /\ UNCHANGED <<user, pairs, links, epoch, crossed>>

\* ... its end: the old refresh token is revoked, a pair is issued.
RefreshIssues(q) ==
    LET i == call[q].pair IN
    /\ call[q].pc = "issue"
    /\ pairs' = Append([pairs EXCEPT ![i].refresh = FALSE],
                       _issue_tokens(call[q].user, call[q].generation, call[q].epoch, i))
    /\ call' = [call EXCEPT ![q] = NoCall]
    /\ UNCHANGED <<user, links, epoch, crossed, moves>>

\* logout takes the refresh token, and the access token when it is presented.
logout(i) ==
    /\ pairs[i].refresh
    /\ Move
    /\ \E both \in BOOLEAN :
          pairs' = [pairs EXCEPT ![i].refresh = FALSE,
                                 ![i].access = @ /\ ~both]
    /\ UNCHANGED <<user, links, call, epoch, crossed>>

(* A new password *)

\* change_password: current_user reads the row the change is made to.
ChangeRead(q, i) ==
    /\ call[q].pc = "idle"
    /\ AccessAccepted(i)
    /\ Move
    /\ LET u == pairs[i].user IN
       call' = [call EXCEPT ![q] = [NoCall EXCEPT !.pc = "commit", !.user = u,
                                      !.generation = user[u].generation, !.keepsSession = TRUE]]
    /\ UNCHANGED <<user, pairs, links, epoch, crossed>>

request_password_reset(u) ==
    /\ user[u].is_active
    /\ Move
    /\ links' = Append(links, [user |-> u, live |-> TRUE])
    /\ UNCHANGED <<user, pairs, call, epoch, crossed>>

\* consume_single_use deletes the key as it reads it; reset_password then
\* reads the row.
ResetRead(q, l) ==
    /\ call[q].pc = "idle"
    /\ links[l].live
    /\ links' = [links EXCEPT ![l].live = FALSE]
    /\ LET u == links[l].user IN
       call' = [call EXCEPT ![q] = [NoCall EXCEPT !.pc = "commit", !.user = u,
                                      !.generation = user[u].generation]]
    /\ UNCHANGED <<user, pairs, epoch, crossed, moves>>

LinkExpires(l) ==
    /\ links[l].live
    /\ links' = [links EXCEPT ![l].live = FALSE]
    /\ UNCHANGED <<user, pairs, call, epoch, crossed, moves>>

\* Mutant: the bump is forgotten.
SameGeneration(q) == call[q].generation

\* The UPDATE writes the count that was read, plus one.
NextGeneration(q) == call[q].generation + 1

PasswordCommits(q) ==
    LET u == call[q].user IN
    /\ call[q].pc = "commit"
    /\ user' = [user EXCEPT ![u].generation = NextGeneration(q)]
    /\ epoch' = [epoch EXCEPT ![u] = @ + 1]
    /\ crossed' = [crossed EXCEPT ![u] = @ \/ user[u].generation # call[q].generation]
    /\ call' = [call EXCEPT ![q] = IF call[q].keepsSession
                                   THEN [call[q] EXCEPT !.pc = "reread", !.epoch = epoch[u] + 1]
                                   ELSE NoCall]
    /\ UNCHANGED <<pairs, links, moves>>

\* change_password's answer: the generation of the row as it is by now, for whoever
\* knows the password this call set; another change may have come in between.
ChangeAnswers(q) ==
    LET u == call[q].user IN
    /\ call[q].pc = "reread"
    /\ pairs' = Append(pairs, _issue_tokens(u, user[u].generation, call[q].epoch, 0))
    /\ crossed' = [crossed EXCEPT ![u] = @ \/ epoch[u] # call[q].epoch]
    /\ call' = [call EXCEPT ![q] = NoCall]
    /\ UNCHANGED <<user, links, epoch, moves>>

CallLost(q) ==
    /\ call[q].pc # "idle"
    /\ Move
    /\ call' = [call EXCEPT ![q] = NoCall]
    /\ UNCHANGED <<user, pairs, links, epoch, crossed>>

SessionStep ==
    \/ \E u \in Users : login(u) \/ request_password_reset(u)
    \/ \E i \in DOMAIN pairs :
          \/ logout(i)
          \/ \E q \in Requests : RefreshChecked(q, i) \/ ChangeRead(q, i)
    \/ \E l \in DOMAIN links : LinkExpires(l) \/ \E q \in Requests : ResetRead(q, l)
    \/ \E q \in Requests : RefreshIssues(q) \/ PasswordCommits(q) \/ ChangeAnswers(q) \/ CallLost(q)

-----------------------------------------------------------------------------

AccountsTypeOK ==
    /\ user \in [Users -> Account]
    /\ pairs \in Seq(Pair) /\ links \in Seq(Link)
    /\ call \in [Requests -> Call]
    /\ epoch \in [Users -> Nat] /\ crossed \in [Users -> BOOLEAN]
    /\ moves \in 0..MaxMoves

\* "Every existing session is evicted": no token got with an older password
\* is accepted, here or for a refresh.  Unless two changes of the password
\* overlapped: both counted from the same row, or the later one committed before
\* change_password read back the generation it answers with.
PasswordChangeEvicts ==
    \A i \in DOMAIN pairs :
        AccessAccepted(i) \/ RefreshAccepted(i)
            => pairs[i].epoch = epoch[pairs[i].user] \/ crossed[pairs[i].user]

=============================================================================
