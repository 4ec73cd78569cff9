--------------------------- MODULE Notifications ---------------------------
(***************************************************************************)
(* The notifications service (services/notifications/app): what it sends   *)
(* for an event, to whom, and what its audit trail says of it.  Messages   *)
(* go out before the transaction that records them commits, so a handler   *)
(* that is run again sends again.                                          *)
(*                                                                         *)
(* One customer is followed; the other people only hold devices.           *)
(***************************************************************************)
EXTENDS Naturals, Sequences, FiniteSets

CONSTANTS
    People, Customer,
    Tokens,        \* push tokens of devices
    MaxDevices,    \* MAX_DEVICES_PER_USER
    Configured,    \* the channels with a provider's credentials
    MaxCalls       \* bound on calls about preferences and devices

Channels == {"PUSH", "SMS", "EMAIL"}

ASSUME NotificationsAssumption ==
    /\ Customer \in People
    /\ MaxDevices \in Nat \ {0} /\ MaxCalls \in Nat
    /\ Configured \subseteq Channels

VARIABLES
    prefs,      \* the customer's preferences: is there a row, what is enabled
    contact,    \* is the customer's address in the contacts read-model?
    devices,    \* the device_tokens rows, by id
    joining,    \* the registrations between their read and their commit
    accepted,   \* accepted[ch]: messages ch's provider took (history)
    delivered,  \* delivered[ch]: rows of ch with delivered = TRUE
    feed,       \* rows of the in-app feed
    asked,      \* has the customer ever switched SMS on?  (history)
    handed,     \* people who got a device by another way than a plain
                \* registration: re-pointed, or two at once (history)
    calls

notificationVars == <<prefs, contact, devices, joining, accepted, delivered, feed, asked, handed, calls>>

Device == [token : Tokens, user : People, there : BOOLEAN]

\* The rows found with the token, the rows to go, the rows the user had.
Registration == [user : People, token : Tokens, found : SUBSET Nat, stale : SUBSET Nat, held : SUBSET Nat]

\* Mutant: the table's default for SMS is on.
AllOn == Channels

\* The defaults of the columns, and those of a preference never saved.
ColumnDefaults == {"EMAIL", "PUSH"}
UnsavedDefaults == {"EMAIL", "PUSH"}

NotificationsInit ==
    /\ prefs = [saved |-> FALSE, enabled |-> UnsavedDefaults]
    /\ contact = FALSE
    /\ devices = <<>>
    /\ joining = {}
    /\ accepted = [ch \in Channels |-> 0] /\ delivered = accepted
    /\ feed = 0
    /\ asked = FALSE
    /\ handed = {}
    /\ calls = 0

Called == calls < MaxCalls /\ calls' = calls + 1

-----------------------------------------------------------------------------

(* Preferences and devices *)

\* The first update makes the row; a channel that is not sent is left alone.
update_preferences(ch, on) ==
    LET row == IF prefs.saved THEN prefs.enabled ELSE ColumnDefaults IN
    /\ Called
    /\ prefs' = [saved |-> TRUE, enabled |-> IF on THEN row \cup {ch} ELSE row \ {ch}]
    /\ asked' = (asked \/ (on /\ ch = "SMS"))
    /\ UNCHANGED <<contact, devices, joining, accepted, delivered, feed, handed>>

\* The ids of u's rows, and of the token's, if it has one.
Held(u) == {i \in DOMAIN devices : devices[i].there /\ devices[i].user = u}
Registered(t) == {i \in DOMAIN devices : devices[i].there /\ devices[i].token = t}

\* How many rows of u's are at least as new as row i.
Newer(u, i) == Cardinality({j \in Held(u) : j >= i})

\* Mutant: as many are kept as the cap allows, and one is added.
EvictedLate(u) == {i \in Held(u) : Newer(u, i) > MaxDevices}

\* _evict_oldest_beyond_cap makes room for one.
Evicted(u) == {i \in Held(u) : Newer(u, i) > MaxDevices - 1}

\* register_device up to its commit: is the token known, which rows go?
RegisterRead(u, t) ==
    /\ Called
    /\ joining' = joining \cup {[user |-> u, token |-> t, found |-> Registered(t),
                                 stale |-> IF Registered(t) # {} THEN {} ELSE Evicted(u), held |-> Held(u)]}
    /\ UNCHANGED <<prefs, contact, devices, accepted, delivered, feed, asked, handed>>

Without(rows) == [i \in DOMAIN devices |-> [devices[i] EXCEPT !.there = @ /\ i \notin rows]]

\* A known token is re-pointed, if it is still there; a new one goes in, if
\* nobody else's insert was quicker.
RegisterCommits(r) ==
    /\ \/ /\ r.found # {}
          /\ devices' = [i \in DOMAIN devices |->
                            IF i \in r.found THEN [devices[i] EXCEPT !.user = r.user] ELSE devices[i]]
       \/ /\ r.found = {} /\ Registered(r.token) # {}
          /\ UNCHANGED devices
       \/ /\ r.found = {} /\ Registered(r.token) = {}
          /\ devices' = Append(Without(r.stale), [token |-> r.token, user |-> r.user, there |-> TRUE])
    /\ handed' = IF r.found # {} \/ Held(r.user) # r.held THEN handed \cup {r.user} ELSE handed
    /\ joining' = joining \ {r}
    /\ UNCHANGED <<prefs, contact, accepted, delivered, feed, asked, calls>>

unregister_device(u, t) ==
    LET gone == Held(u) \cap Registered(t) IN
    /\ gone # {}
    /\ Called
    /\ devices' = Without(gone)
    /\ UNCHANGED <<prefs, contact, joining, accepted, delivered, feed, asked, handed>>

\* _handle_contact: the customer's address arrives on its own topic.
ContactArrives ==
    /\ ~contact
    /\ contact' = TRUE
    /\ UNCHANGED <<prefs, devices, joining, accepted, delivered, feed, asked, handed, calls>>

PeopleStep ==
    \/ \E ch \in Channels, on \in BOOLEAN : update_preferences(ch, on)
    \/ \E u \in People, t \in Tokens : unregister_device(u, t) \/ RegisterRead(u, t)
    \/ \E r \in joining : RegisterCommits(r)
    \/ ContactArrives

(* What goes out *)

_SMS_STATUSES == {"OUT_FOR_DELIVERY", "DELIVERED", "CANCELLED", "REJECTED"}
EMAIL_SUBJECT == {"PAYMENT_SUCCESS", "DELIVERED", "CANCELLED", "REJECTED"}
STATUS_COPY == _SMS_STATUSES \cup EMAIL_SUBJECT \cup {"RESTAURANT_ACCEPTED", "PREPARING", "READY_FOR_PICKUP", "COMPLETED"}

channels_for(status) ==
    {ch \in Channels : /\ status \in STATUS_COPY
                       /\ ch = "SMS" => status \in _SMS_STATUSES
                       /\ ch = "EMAIL" => status \in EMAIL_SUBJECT}

allows(ch) == ch \in prefs.enabled

\* How many the channel sends to for the customer.
_recipients(ch) ==
    IF ch = "PUSH" THEN Cardinality(Held(Customer))
    ELSE IF contact THEN 1 ELSE 0

\* Mutant: a channel without a provider reports success.
ReportedSent(ch, n) == 0..n

\* dispatch, n times: how many of the calls report a delivery.  A channel
\* without a provider's credentials reports none.
dispatch(ch, n) == IF ch \in Configured THEN 0..n ELSE {0}

\* What handle_order_status sends on each channel.
Outbound(status) ==
    [ch \in Channels |-> IF ch \in channels_for(status) /\ allows(ch) THEN _recipients(ch) ELSE 0]
Mail(n) == [ch \in Channels |-> IF ch = "EMAIL" THEN n ELSE 0]

\* What can come of n sends on a channel: how many report a delivery, and
\* how many the provider took (more, if some timed out).
Outcomes(ch, n) ==
    {o \in [reported : dispatch(ch, n), taken : 0..n] :
        IF ch \in Configured THEN o.reported <= o.taken ELSE o.taken = 0}

\* The sends, to[ch] of them on channel ch.  recorded: does the handler's
\* transaction commit?
Sends(to, recorded) ==
    \E push \in Outcomes("PUSH", to["PUSH"]), sms \in Outcomes("SMS", to["SMS"]), email \in Outcomes("EMAIL", to["EMAIL"]) :
        LET outcome == [ch \in Channels |-> CASE ch = "PUSH" -> push [] ch = "SMS" -> sms [] ch = "EMAIL" -> email] IN
        /\ accepted' = [ch \in Channels |-> accepted[ch] + outcome[ch].taken]
        /\ delivered' = [ch \in Channels |-> IF recorded THEN delivered[ch] + outcome[ch].reported ELSE delivered[ch]]

\* One more row in the feed, repeated or not.
add_notification(recorded) == feed' = IF recorded THEN feed + 1 ELSE feed

unsent == <<prefs, contact, devices, joining, asked, handed, calls>>

\* The feed row, then the sends, then the commit.
handle_order_status(status, recorded) ==
    Sends(Outbound(status), recorded) /\ add_notification(recorded) /\ UNCHANGED unsent

\* A mail to the address the event names, or a row in the feed.
_handle_direct(addressed, recorded) ==
    /\ Sends(Mail(IF addressed THEN 1 ELSE 0), recorded)
    /\ IF addressed THEN UNCHANGED feed ELSE add_notification(recorded)
    /\ UNCHANGED unsent

\* A decision goes to the owner by mail, if their address is here by now;
\* preferences do not count.
_handle_restaurant(decided, recorded) ==
    /\ Sends(Mail(IF decided THEN _recipients("EMAIL") ELSE 0), recorded)
    /\ UNCHANGED <<feed, unsent>>

-----------------------------------------------------------------------------

NotificationsTypeOK ==
    /\ prefs \in [saved : BOOLEAN, enabled : SUBSET Channels]
    /\ devices \in Seq(Device) /\ joining \subseteq Registration
    /\ accepted \in [Channels -> Nat] /\ delivered \in [Channels -> Nat] /\ feed \in Nat

\* The audit trail claims no more than went out, however often a handler is
\* run, given up or cut off between its sends and its commit.
AuditIsTrue == \A ch \in Channels : delivered[ch] <= accepted[ch]

\* SMS is opt-in: none goes out to a customer who never switched it on, also
\* not after an update of another channel has made the preference row.
SmsOnlyIfAsked == accepted["SMS"] > 0 => asked

\* Nobody holds more devices than the cap, unless one was re-pointed to them
\* or two registrations overlapped.
DevicesCapped == \A u \in People : Cardinality(Held(u)) > MaxDevices => u \in handed

=============================================================================
