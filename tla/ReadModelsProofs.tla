------------------------- MODULE ReadModelsProofs -------------------------
(***************************************************************************)
(* Proofs about ReadModels, and so about Messaging, Addresses and          *)
(* Notifications: for every subscription, any number of relays, batches of *)
(* any size, any customers and devices, and any trouble.                   *)
(***************************************************************************)
EXTENDS ReadModels, FiniteSetTheorems, SequenceTheorems, TLAPS

\* A payload, a service's row.
Columns == [value : Nat, detail : Seq(Nat)]
OutboxRow == [payload : Columns, published : BOOLEAN]

\* A batch is of rows of the outbox, and no row is in two of them.
RelayInv ==
    /\ transport \in {"kafka", "pubsub"}
    /\ outbox \in Seq(OutboxRow) /\ Len(outbox) <= MaxEvents
    /\ relay \in [Relays -> Batch]
    /\ \A r \in Relays : relay[r].rows \subseteq Events /\ relay[r].todo \subseteq relay[r].rows
    /\ \A r, s \in Relays : r # s => relay[r].rows \cap relay[s].rows = {}
    /\ log \in Seq(Events)

\* PassedIsHandled, of every message before the one at hand, not only of
\* those that were acknowledged.
ConsumerInv ==
    /\ pos \in 1..Len(log) + 1 /\ committed \in 1..pos
    /\ late \subseteq [message : DOMAIN log, read : Columns]
    /\ applied \cup failed \subseteq DOMAIN log
    /\ \A k \in 1..pos - 1 : k \in applied \/ (transport = "kafka" /\ k \in failed)

\* What the events of a topic carry.
TopicInv ==
    /\ On({"order-events"}) => \A n \in Events : outbox[n].payload.value = n
    /\ On({"user-events", "user-contact-events"}) => \A n \in Events : outbox[n].payload.detail # <<>>

\* While no edit has committed over another, an edit that no event has
\* overtaken was read from the row as it is, and row, edits and events have
\* the point of the address they spell, or none.
PointOfRow(row) == row.point # <<>> => row.point = <<row.line, row.city>>
PointOfEvent(e) == e.detail # <<>> => e.detail[2] = e.value
AddressInv ==
    /\ address \in Address /\ edits \subseteq Edit
    /\ \A e \in edits : /\ e.before <= Len(outbox)
                        /\ e.before = Len(outbox) /\ address # NoAddress => e.read = address
    /\ On({"address-events"}) /\ ~overlapped =>
          /\ PointOfRow(address)
          /\ \A e \in edits : PointOfRow(e.memory)
          /\ \A n \in Events : PointOfEvent(outbox[n].payload)

\* The copy of an order is the row of one of its events, or there is none and
\* no handler has seen one.
OrderCopy ==
    On({"order-events"}) =>
        /\ copy.value \in Events \cup {0}
        /\ copy.value = 0 => copy = NoRow /\ \A l \in late : l.read = NoRow

\* A consumer that is through with the log, the last message not failed, has
\* acknowledged that one last.
AtTheEnd == pos > Len(log) /\ log # <<>> /\ Len(log) \notin failed
CopyAtTheEnd ==
    AtTheEnd /\ ~overtaken /\ sub.keeps /\ ~Informs =>
        /\ committed = pos
        /\ ~On({"restaurant-events"}) => copy.value = Payload(Len(log)).value
        /\ On({"address-events"}) => copy.detail = Payload(Len(log)).detail

\* The detail is that of message k, 0 for none: no message after k that
\* carries one has been passed, unless it failed.
DetailFrom(k) ==
    /\ k = 0 => copy.detail = <<>>
    /\ k # 0 => copy.detail = Payload(k).detail /\ copy.detail # <<>>
    /\ \A j \in k + 1..pos - 1 : Payload(j).detail # <<>> => j \in failed
CopiedDetail ==
    ~overtaken /\ sub.keeps /\ ~Informs /\ ~On({"address-events"}) => \E k \in 0..Len(log) : DetailFrom(k)

CopyInv ==
    /\ sub \in Subscriptions /\ copy \in Columns
    /\ OrderCopy /\ CopyAtTheEnd /\ CopiedDetail
    /\ On({"address-events"}) /\ ~overlapped /\ ~overtaken => PointOfEvent(copy)

ReviewInv == reviews \in Seq(Review) /\ ReviewsAreEarned

\* The customer's SMS are off until asked for.  A registration that makes
\* room leaves one place free of the rows it has read.
NoticeInv ==
    /\ NotificationsTypeOK /\ AuditIsTrue /\ SmsOnlyIfAsked
    /\ "SMS" \in prefs.enabled => asked
    /\ \A r \in joining : /\ r.held \subseteq DOMAIN devices
                          /\ r.found = {} => Cardinality(r.held \ r.stale) < MaxDevices
    /\ DevicesCapped

IInv == RelayInv /\ ConsumerInv /\ TopicInv /\ AddressInv /\ CopyInv /\ ReviewInv /\ NoticeInv

-----------------------------------------------------------------------------
(* The outbox, its relay and the broker.                                   *)

LEMMA LeastElement ==
    ASSUME NEW S \in SUBSET Nat, S # {}
    PROVE  \E n \in S : \A m \in S : n <= m
<1> DEFINE T == {0..n : n \in S}
<1>1. T \subseteq FiniteSubsetsOf(Nat) /\ T # {}
  <2>1. \A n \in S : 0..n \subseteq Nat /\ IsFiniteSet(0..n)
    BY FS_Interval
  <2> QED
    BY <2>1 DEF FiniteSubsetsOf
<1>2. PICK x \in T : \A y \in T : ~(<<y, x>> \in StrictSubsetOrdering(Nat))
  BY <1>1, FS_StrictSubsetOrderingWellFounded, WFMin
<1>3. PICK n \in S : x = 0..n
  OBVIOUS
<1>4. ASSUME NEW m \in S, m < n PROVE FALSE
  <2>1. 0..m \in T /\ 0..m \subseteq 0..n /\ 0..m # 0..n /\ 0..m \subseteq Nat /\ 0..n \subseteq Nat
    BY <1>4
  <2>2. <<0..m, 0..n>> \in StrictSubsetOrdering(Nat)
    BY <2>1 DEF StrictSubsetOrdering
  <2> QED
    BY <1>2, <1>3, <2>1, <2>2
<1> QED
  BY <1>4

LEMMA DueIsDue ==
    ASSUME RelayInv, NEW r \in Relays, relay[r].todo # {}
    PROVE  Due(r) \in relay[r].todo
<1>1. relay[r].todo \in SUBSET Nat
  BY DEF RelayInv, Batch
<1>2. \E n \in relay[r].todo : \A m \in relay[r].todo : n <= m
  BY <1>1, LeastElement
<1> QED
  BY <1>2 DEF Due

\* The events keep their ids and their payloads, the log is appended to.
Kept ==
    /\ Len(outbox') >= Len(outbox)
    /\ \A n \in Events : n \in Events' /\ outbox'[n].payload = outbox[n].payload
LogGrows ==
    /\ Len(log') >= Len(log) /\ Len(log') \in Nat
    /\ Len(log') = Len(log) => log' = log
    /\ \A k \in DOMAIN log : k \in DOMAIN log' /\ log'[k] = log[k]

LEMMA LogFacts ==
    ASSUME RelayInv
    PROVE  /\ Len(log) \in Nat /\ DOMAIN log = 1..Len(log)
           /\ Len(outbox) \in Nat /\ Events = 1..Len(outbox)
           /\ \A k \in DOMAIN log : log[k] \in Events /\ Payload(k) \in Columns
           /\ \A n \in Events : outbox[n].payload \in Columns
<1>1. /\ Len(log) \in Nat /\ DOMAIN log = 1..Len(log)
      /\ Len(outbox) \in Nat /\ Events = 1..Len(outbox)
  BY LenProperties DEF RelayInv, Events
<1>2. ASSUME NEW n \in Events PROVE outbox[n].payload \in Columns
  <2>1. outbox[n] \in OutboxRow
    BY <1>1, ElementOfSeq DEF RelayInv
  <2> QED
    BY <2>1 DEF OutboxRow
<1>3. ASSUME NEW k \in DOMAIN log PROVE log[k] \in Events
  BY <1>1, ElementOfSeq DEF RelayInv
<1> QED
  BY <1>1, <1>2, <1>3 DEF Payload

LEMMA RecordEvent ==
    ASSUME RelayInv, NEW payload \in Columns, record_event(payload), MaxEvents \in Nat
    PROVE  /\ RelayInv' /\ Kept /\ LogGrows
           /\ Len(outbox') = Len(outbox) + 1
           /\ outbox'[Len(outbox) + 1].payload = payload
           /\ UNCHANGED <<transport, relay, log, consumerVars, trouble>>
<1> DEFINE row == [payload |-> payload, published |-> FALSE]
<1>1. row \in OutboxRow /\ row.payload = payload
  BY DEF OutboxRow
<1>2. /\ outbox' = Append(outbox, row) /\ Len(outbox) < MaxEvents
      /\ UNCHANGED <<transport, relay, log, consumerVars, trouble>>
  BY DEF record_event
<1> HIDE DEF row
<1>3. /\ outbox' \in Seq(OutboxRow) /\ Len(outbox') = Len(outbox) + 1
      /\ \A n \in 1..Len(outbox) : outbox'[n] = outbox[n]
      /\ outbox'[Len(outbox) + 1] = row
  BY <1>1, <1>2, AppendProperties DEF RelayInv
<1>4. Events' = 1..Len(outbox) + 1 /\ Events = 1..Len(outbox) /\ Len(outbox) \in Nat
  BY <1>3, LogFacts, LenProperties DEF Events
<1>5. log' \in Seq(Events')
  BY <1>2, <1>4, SeqMonotonic DEF RelayInv
<1>6. RelayInv'
  BY <1>2, <1>3, <1>4, <1>5 DEF RelayInv
<1>7. Kept /\ LogGrows
  BY <1>2, <1>3, <1>4, LogFacts DEF Kept, LogGrows
<1> QED
  BY <1>1, <1>2, <1>3, <1>6, <1>7

\* A pass of the relay, whatever comes of it, changes no event and takes none
\* back from the broker.
LEMMA RelayPass ==
    ASSUME RelayInv, RelayStep
    PROVE  /\ RelayInv' /\ Kept /\ LogGrows
           /\ Len(outbox') = Len(outbox) /\ UNCHANGED consumerVars
<1>1. PICK r \in Relays : Relay(r) \/ SendFails(r) \/ BatchLost(r)
  BY DEF RelayStep
<1>2. ASSUME NEW b \in Batch, relay' = [relay EXCEPT ![r] = b],
             b.rows \subseteq Events, b.todo \subseteq b.rows,
             \A s \in Relays \ {r} : b.rows \cap relay[s].rows = {},
             UNCHANGED <<transport, outbox, consumerVars>>,
             log' = log \/ \E n \in Events : log' = Append(log, n)
      PROVE  /\ RelayInv' /\ Kept /\ LogGrows
             /\ Len(outbox') = Len(outbox) /\ UNCHANGED consumerVars
  <2>1. /\ relay' \in [Relays -> Batch]
        /\ \A s \in Relays : relay'[s] = IF s = r THEN b ELSE relay[s]
    BY <1>2 DEF RelayInv
  <2>2. \A s \in Relays : relay'[s].rows \subseteq Events /\ relay'[s].todo \subseteq relay'[s].rows
    BY <1>2, <2>1 DEF RelayInv
  <2>3. \A s, t \in Relays : s # t => relay'[s].rows \cap relay'[t].rows = {}
    BY <1>2, <2>1 DEF RelayInv
  <2>4. log' \in Seq(Events) /\ LogGrows
    <3>1. CASE log' = log
      BY <3>1, LogFacts DEF RelayInv, LogGrows
    <3>2. CASE \E n \in Events : log' = Append(log, n)
      <4>1. PICK n \in Events : log' = Append(log, n)
        BY <3>2
      <4>2. /\ log' \in Seq(Events) /\ Len(log') = Len(log) + 1
            /\ \A k \in 1..Len(log) : log'[k] = log[k]
        BY <4>1, AppendProperties DEF RelayInv
      <4>3. DOMAIN log' = 1..Len(log) + 1
        BY <4>2, LenProperties
      <4>4. DOMAIN log = 1..Len(log) /\ Len(log) \in Nat
        BY LogFacts
      <4>5. \A k \in DOMAIN log : k \in DOMAIN log' /\ log'[k] = log[k]
        BY <4>2, <4>3, <4>4
      <4>6. Len(log') >= Len(log) /\ Len(log') \in Nat /\ Len(log') # Len(log)
        <5>1. Len(log') = Len(log) + 1
          BY <4>2
        <5>2. Len(log) \in Nat
          BY <4>4
        <5> QED
          BY ONLY <5>1, <5>2
      <4> QED
        BY <4>2, <4>5, <4>6 DEF LogGrows
    <3> QED
      BY <1>2, <3>1, <3>2
  <2> QED
    BY <1>2, <2>1, <2>2, <2>3, <2>4, LogFacts DEF RelayInv, Kept, Events
<1>3. NoBatch \in Batch /\ NoBatch.rows = {} /\ NoBatch.todo = {}
  BY DEF NoBatch, Batch
<1>4. CASE TakeBatch(r)
  <2> DEFINE b == [rows |-> Rows(r), todo |-> Rows(r), sent |-> {}]
  <2>1. Rows(r) \subseteq Events /\ Events \subseteq 1..MaxEvents
    BY LogFacts, MessagingAssumption DEF Rows, Pending, RelayInv
  <2>2. \A s \in Relays \ {r} : Rows(r) \cap relay[s].rows = {}
    BY DEF Rows, Pending
  <2>3. b \in Batch /\ b.rows = Rows(r) /\ b.todo = Rows(r)
    BY <2>1 DEF Batch
  <2>4. relay' = [relay EXCEPT ![r] = b] /\ UNCHANGED <<transport, outbox, log, consumerVars>>
    BY <1>4 DEF TakeBatch
  <2> HIDE DEF b
  <2> QED
    BY <1>2, <2>1, <2>2, <2>3, <2>4
<1>5. ASSUME NEW b \in Batch, relay[r].todo # {}, relay' = [relay EXCEPT ![r] = b],
             b.rows = relay[r].rows, b.todo \subseteq relay[r].todo,
             log' \in {log, Append(log, Due(r))},
             UNCHANGED <<transport, outbox, consumerVars>>
      PROVE  /\ RelayInv' /\ Kept /\ LogGrows
             /\ Len(outbox') = Len(outbox) /\ UNCHANGED consumerVars
  <2>1. relay[r] \in Batch /\ relay[r].rows \subseteq Events /\ relay[r].todo \subseteq relay[r].rows
    BY DEF RelayInv
  <2>2. Due(r) \in relay[r].todo
    BY <1>5, DueIsDue
  <2>3. \A s \in Relays \ {r} : b.rows \cap relay[s].rows = {}
    BY <1>5 DEF RelayInv
  <2> QED
    BY <1>2, <1>5, <2>1, <2>2, <2>3
<1>6. CASE SendSucceeds(r)
  <2> DEFINE b == [relay[r] EXCEPT !.todo = @ \ {Due(r)}, !.sent = @ \cup {Due(r)}]
  <2>1. relay[r] \in Batch /\ Due(r) \in relay[r].todo
    BY <1>6, DueIsDue DEF RelayInv, SendSucceeds
  <2>2. relay' = [relay EXCEPT ![r] = b]
    BY <1>6 DEF SendSucceeds
  <2>3. b \in Batch /\ b.rows = relay[r].rows /\ b.todo \subseteq relay[r].todo
    BY <2>1 DEF Batch
  <2> HIDE DEF b
  <2> QED
    BY <1>5, <1>6, <2>2, <2>3 DEF SendSucceeds
<1>7. CASE SendFails(r)
  <2> DEFINE b == [relay[r] EXCEPT !.todo = @ \ {Due(r)}]
  <2>1. relay[r] \in Batch /\ Due(r) \in relay[r].todo
    BY <1>7, DueIsDue DEF RelayInv, SendFails
  <2>2. relay' = [relay EXCEPT ![r] = b]
    BY <1>7 DEF SendFails
  <2>3. b \in Batch /\ b.rows = relay[r].rows /\ b.todo \subseteq relay[r].todo
    BY <2>1 DEF Batch
  <2> HIDE DEF b
  <2> QED
    BY <1>5, <1>7, <2>2, <2>3 DEF SendFails
<1>8. CASE BatchCommits(r)
  <2>1. /\ outbox' = [n \in 1..Len(outbox) |-> [outbox[n] EXCEPT !.published = @ \/ n \in Marked(r)]]
        /\ relay' = [relay EXCEPT ![r] = NoBatch] /\ UNCHANGED <<transport, log, consumerVars>>
        /\ Len(outbox) \in Nat /\ Events = 1..Len(outbox)
    BY <1>8, LogFacts DEF BatchCommits
  <2>2. ASSUME NEW n \in 1..Len(outbox)
        PROVE  outbox'[n] \in OutboxRow /\ outbox'[n].payload = outbox[n].payload
    <3>1. outbox[n] \in OutboxRow
      BY ElementOfSeq DEF RelayInv
    <3> QED
      BY <2>1, <3>1 DEF OutboxRow
  <2>3. outbox' \in Seq(OutboxRow) /\ Len(outbox') = Len(outbox)
    <3>1. outbox' \in [1..Len(outbox) -> OutboxRow]
      BY <2>1, <2>2
    <3> QED
      BY <2>1, <3>1, SeqDef, LenProperties
  <2>4. Events' = Events
    BY <2>1, <2>3, LenProperties DEF Events
  <2>5. /\ relay' \in [Relays -> Batch]
        /\ \A s \in Relays : relay'[s] = IF s = r THEN NoBatch ELSE relay[s]
    BY <2>1, <1>3 DEF RelayInv
  <2>6. \A s \in Relays : relay'[s].rows \subseteq Events /\ relay'[s].todo \subseteq relay'[s].rows
    BY <1>3, <2>5 DEF RelayInv
  <2>7. \A s, t \in Relays : s # t => relay'[s].rows \cap relay'[t].rows = {}
    BY <1>3, <2>5 DEF RelayInv
  <2>8. RelayInv'
    BY <2>1, <2>3, <2>4, <2>5, <2>6, <2>7 DEF RelayInv
  <2> QED
    BY <2>1, <2>2, <2>3, <2>4, <2>8, LogFacts DEF Kept, LogGrows
<1>9. CASE BatchLost(r)
  BY <1>2, <1>3, <1>9 DEF BatchLost
<1> QED
  BY <1>1, <1>4, <1>6, <1>7, <1>8, <1>9 DEF Relay

-----------------------------------------------------------------------------
(* What a handler makes of an event.                                       *)

LEMMA Topics ==
    ASSUME sub \in Subscriptions
    PROVE  /\ sub.topic \in {"order-events", "address-events", "user-events", "user-contact-events",
                             "restaurant-events", "notification-events"}
           /\ On({"order-events"}) <=> sub.topic = "order-events"
           /\ On({"address-events"}) <=> sub.topic = "address-events"
           /\ On({"restaurant-events"}) <=> sub.topic = "restaurant-events"
           /\ On({"user-events", "user-contact-events"}) <=> sub.topic \in {"user-events", "user-contact-events"}
           /\ sub.topic = "notification-events" => Informs
           /\ sub.topic \in {"order-events", "address-events", "restaurant-events"} => sub.keeps
BY DEF Subscriptions, On, Informs

LEMMA NoRowType == NoRow \in Columns /\ NoRow.value = 0 /\ NoRow.detail = <<>>
BY EmptySeq DEF NoRow, Columns

LEMMA IfCarriedFields ==
    ASSUME NEW row \in Columns, NEW e \in Columns
    PROVE  /\ IfCarried(row, e) \in Columns /\ Named(row, e) \in Columns
           /\ IfCarried(row, e).value = e.value
           /\ IfCarried(row, e).detail = IF e.detail = <<>> THEN row.detail ELSE e.detail
           /\ Named(row, e).detail = IfCarried(row, e).detail
BY DEF IfCarried, Named, Columns

\* Every consumer of a row takes its value, but a venue's; the detail too, or
\* leaves it alone when none is carried.
LEMMA Applied ==
    ASSUME sub \in Subscriptions, ~Informs, NEW row \in Columns, NEW e \in Columns
    PROVE  /\ Apply(row, e) \in Columns
           /\ On({"address-events"}) => Apply(row, e) = e
           /\ sub.keeps /\ ~On({"restaurant-events"}) => Apply(row, e).value = e.value
           /\ sub.keeps /\ ~On({"address-events"})
                 /\ (On({"user-events", "user-contact-events"}) => e.detail # <<>>)
                 => Apply(row, e).detail = IF e.detail = <<>> THEN row.detail ELSE e.detail
<1>1. CASE sub.topic = "address-events"
  <2>1. Apply(row, e) = e
    BY <1>1 DEF Apply, On, AddressSnapshot
  <2> QED
    BY <1>1, <2>1, Topics
<1>2. CASE sub.topic = "order-events"
  <2>1. Apply(row, e) = IfCarried(row, e)
    BY <1>2 DEF Apply, On, OrderRow, OrderSnapshot
  <2> QED
    BY <1>2, <2>1, Topics, IfCarriedFields
<1>3. CASE sub.topic = "user-events"
  <2>1. sub.group \in {"orders", "delivery", "restaurants", "admin"}
    BY <1>3 DEF Subscriptions
  <2>2. /\ sub.keeps => Apply(row, e) \in {e, IfCarried(row, e)}
        /\ Apply(row, e) \in {e, IfCarried(row, e), row}
    BY <1>3, <2>1 DEF Apply, On, CustomerSnapshot, Driver, OwnerRow, UserRow
  <2> QED
    BY <1>3, <2>2, Topics, IfCarriedFields
<1>4. CASE sub.topic = "user-contact-events"
  <2>1. Apply(row, e) = IfCarried(row, e)
    BY <1>4 DEF Apply, On, ContactOfUserRow, Contact
  <2> QED
    BY <1>4, <2>1, Topics, IfCarriedFields
<1>5. CASE sub.topic = "restaurant-events"
  <2>1. Apply(row, e) = Named(row, e)
    BY <1>5 DEF Apply, On, RestaurantRow, RestaurantSnapshot
  <2> QED
    BY <1>5, <2>1, Topics, IfCarriedFields
<1> QED
  BY <1>1, <1>2, <1>3, <1>4, <1>5, Topics

\* A handler that has read the row as it is writes all of it.
LEMMA MergedNow ==
    ASSUME sub \in Subscriptions, ~Informs, copy \in Columns, NEW e \in Columns
    PROVE  Merged(copy, e) = Apply(copy, e)
<1> DEFINE new == Apply(copy, e)
           m == [f \in {"value", "detail"} |-> IF new[f] # copy[f] THEN new[f] ELSE copy[f]]
<1>1. new = [value |-> new.value, detail |-> new.detail]
  BY Applied DEF Columns
<1>2. m = [value |-> m.value, detail |-> m.detail] /\ m.value = new.value /\ m.detail = new.detail
  OBVIOUS
<1>3. Merged(copy, e) = m
  BY DEF Merged
<1> HIDE DEF m, new
<1>4. Merged(copy, e) = new
  BY <1>1, <1>2, <1>3
<1> QED
  BY <1>4 DEF new

\* What a handler's UPDATE leaves of the value.
LEMMA MergedFields ==
    ASSUME sub \in Subscriptions, ~Informs, copy \in Columns, NEW read \in Columns, NEW e \in Columns
    PROVE  /\ Merged(read, e) \in Columns
           /\ Merged(read, e).value \in {copy.value, Apply(read, e).value}
           /\ read = NoRow /\ copy = NoRow => Merged(read, e).value = Apply(read, e).value
<1> DEFINE new == Apply(read, e)
           m == [f \in {"value", "detail"} |-> IF new[f] # read[f] THEN new[f] ELSE copy[f]]
<1>1. new \in Columns
  BY Applied
<1>2. /\ m.value = IF new.value # read.value THEN new.value ELSE copy.value
      /\ m.detail = IF new.detail # read.detail THEN new.detail ELSE copy.detail
  OBVIOUS
<1>3. m = [value |-> m.value, detail |-> m.detail]
  OBVIOUS
<1>4. m \in Columns
  BY <1>1, <1>2, <1>3 DEF Columns
<1>5. Merged(read, e) = IF read = NoRow /\ copy # NoRow THEN copy ELSE m
  BY DEF Merged
<1>6. read = NoRow /\ copy = NoRow => Merged(read, e).value = new.value
  BY MergedNow
<1> HIDE DEF m
<1> QED
  BY <1>2, <1>4, <1>5, <1>6

-----------------------------------------------------------------------------
(* The consumer.                                                           *)

LEMMA ConsumerGrows ==
    ASSUME RelayInv, ConsumerInv, LogGrows, UNCHANGED <<transport, consumerVars>>
    PROVE  ConsumerInv'
<1>1. Len(log) \in Nat /\ DOMAIN log = 1..Len(log)
  BY LogFacts
<1>2. \A k \in DOMAIN log : k \in DOMAIN log'
  BY DEF LogGrows
<1>3. Len(log') \in Nat /\ Len(log') >= Len(log)
  BY DEF LogGrows
<1>4. UNCHANGED <<transport, pos, committed, late, failed, applied>>
  BY DEF consumerVars
<1>5. (pos \in 1..Len(log) + 1)'
  BY <1>1, <1>3, <1>4 DEF ConsumerInv
<1>6. (late \subseteq [message : DOMAIN log, read : Columns])'
  BY <1>2, <1>4 DEF ConsumerInv
<1> QED
  BY <1>2, <1>4, <1>5, <1>6 DEF ConsumerInv

\* Messages are acknowledged in order; those passed over have failed.
LEMMA ConsumerMoves ==
    ASSUME RelayInv, ConsumerInv, NEW read \in Columns,
           \/ Handled \/ HandlerFails \/ HandlerTimesOut(read)
           \/ \E l \in late : LateCommit(l)
           \/ Restarts \/ RestartsAfterCommit
    PROVE  ConsumerInv' /\ UNCHANGED relayVars
<1>1. Len(log) \in Nat /\ DOMAIN log = 1..Len(log)
  BY LogFacts
<1>2. /\ pos \in 1..Len(log) + 1 /\ committed \in 1..pos /\ pos \in Nat /\ committed \in Nat
      /\ transport \in {"kafka", "pubsub"}
  BY <1>1 DEF ConsumerInv, RelayInv
<1>3. CASE Handled
  BY <1>1, <1>2, <1>3 DEF Handled, Acknowledge, ConsumerInv, relayVars
<1>4. CASE HandlerFails \/ HandlerTimesOut(read)
  <2>1. /\ pos <= Len(log) /\ failed' = failed \cup {pos}
        /\ late' \subseteq late \cup {[message |-> pos, read |-> read]}
        /\ UNCHANGED <<relayVars, committed, applied>>
        /\ pos' = IF transport = "kafka" THEN pos + 1 ELSE pos
    BY <1>4 DEF HandlerFails, HandlerTimesOut, NotAcknowledged
  <2>2. UNCHANGED <<transport, log>>
    BY <2>1 DEF relayVars
  <2>3. late' \subseteq [message : DOMAIN log, read : Columns]
    BY <1>1, <1>2, <2>1 DEF ConsumerInv
  <2> QED
    BY <1>1, <1>2, <2>1, <2>2, <2>3 DEF ConsumerInv
<1>5. ASSUME NEW l \in late, LateCommit(l) PROVE ConsumerInv' /\ UNCHANGED relayVars
  <2>1. l.message \in DOMAIN log
    BY DEF ConsumerInv
  <2> QED
    BY <1>1, <1>2, <1>5, <2>1 DEF LateCommit, ConsumerInv, relayVars
<1>6. CASE Restarts
  BY <1>1, <1>2, <1>6 DEF Restarts, ConsumerInv, relayVars
<1>7. CASE RestartsAfterCommit
  BY <1>1, <1>2, <1>7 DEF RestartsAfterCommit, ConsumerInv, relayVars
<1> QED
  BY <1>3, <1>4, <1>5, <1>6, <1>7

-----------------------------------------------------------------------------
(* The copy.                                                               *)

LEMMA CopyGrows ==
    ASSUME RelayInv, ConsumerInv, CopyInv, Kept, LogGrows,
           UNCHANGED <<sub, copy, consumerVars>>, ~overlapped' => ~overlapped
    PROVE  CopyInv'
<1>1. /\ Len(log) \in Nat /\ DOMAIN log = 1..Len(log) /\ pos \in 1..Len(log) + 1 /\ committed \in 1..pos
      /\ Len(log') \in Nat /\ Len(log') >= Len(log) /\ (Len(log') = Len(log) => log' = log)
  BY LogFacts DEF ConsumerInv, LogGrows
<1>2. \A k \in 1..Len(log) : Payload(k)' = Payload(k)
  BY LogFacts DEF Payload, Kept, LogGrows
<1>3. UNCHANGED <<sub, copy, pos, committed, late, failed, overtaken>>
  BY DEF consumerVars
<1>4. \A topics : On(topics)' <=> On(topics)
  BY <1>3 DEF On
<1>5. Informs' <=> Informs
  BY <1>3 DEF Informs, On
<1>6. OrderCopy'
  BY <1>3, <1>4 DEF CopyInv, OrderCopy, Kept
<1>7. CopyAtTheEnd'
  <2> SUFFICES ASSUME AtTheEnd', ~overtaken, sub.keeps, ~Informs
               PROVE  /\ committed = pos
                      /\ ~On({"restaurant-events"}) => copy.value = Payload(Len(log))'.value
                      /\ On({"address-events"}) => copy.detail = Payload(Len(log))'.detail
    BY <1>3, <1>4, <1>5 DEF CopyAtTheEnd
  <2>1. log' = log
    BY <1>1, <1>3 DEF AtTheEnd
  <2>2. AtTheEnd /\ Len(log) \in 1..Len(log)
    BY <1>1, <1>3, <2>1, EmptySeq DEF AtTheEnd, RelayInv
  <2>3. Payload(Len(log))' = Payload(Len(log))
    BY <1>2, <2>1, <2>2
  <2> QED
    BY <2>2, <2>3 DEF CopyInv, CopyAtTheEnd
<1>8. CopiedDetail'
  <2> SUFFICES ASSUME ~overtaken, sub.keeps, ~Informs, ~On({"address-events"})
               PROVE  \E k \in 0..Len(log') : DetailFrom(k)'
    BY <1>3, <1>4, <1>5 DEF CopiedDetail
  <2>1. PICK k \in 0..Len(log) : DetailFrom(k)
    BY DEF CopyInv, CopiedDetail
  <2>2. k \in 0..Len(log')
    BY <1>1
  <2>3. DetailFrom(k)'
    BY <1>1, <1>2, <1>3, <2>1 DEF DetailFrom
  <2> QED
    BY <2>2, <2>3
<1> QED
  BY <1>3, <1>4, <1>6, <1>7, <1>8 DEF CopyInv, PointOfEvent

LEMMA EventFacts ==
    ASSUME RelayInv, TopicInv, AddressInv, NEW k \in DOMAIN log
    PROVE  /\ Payload(k) \in Columns
           /\ On({"order-events"}) => Payload(k).value \in Events
           /\ On({"user-events", "user-contact-events"}) => Payload(k).detail # <<>>
           /\ On({"address-events"}) /\ ~overlapped => PointOfEvent(Payload(k))
BY LogFacts DEF TopicInv, AddressInv, Payload

\* The handler of message m commits what it has read just now; the process
\* may end before the acknowledgement.
LEMMA CopyTakes ==
    ASSUME RelayInv, ConsumerInv, TopicInv, AddressInv, CopyInv, ~Informs,
           pos <= Len(log), copy' = Merged(copy, Payload(pos)),
           \/ pos' = pos + 1 /\ committed' = pos + 1 /\ failed' = failed \ {pos} /\ late' = late
           \/ pos' = committed /\ UNCHANGED <<committed, failed>> /\ late' = {},
           UNCHANGED <<outbox, log, overtaken, sub, overlapped>>
    PROVE  CopyInv'
<1>1. /\ Len(log) \in Nat /\ pos \in DOMAIN log /\ DOMAIN log = 1..Len(log) /\ pos \in Nat
      /\ committed \in 1..pos /\ Events = 1..Len(outbox) /\ Len(outbox) \in Nat
  BY LogFacts DEF ConsumerInv
<1> DEFINE e == Payload(pos)
<1>2. /\ e \in Columns
      /\ On({"order-events"}) => e.value \in Events
      /\ On({"user-events", "user-contact-events"}) => e.detail # <<>>
      /\ On({"address-events"}) /\ ~overlapped => PointOfEvent(e)
  BY <1>1, EventFacts
<1>3. copy' = Apply(copy, e)
  BY <1>2, MergedNow DEF CopyInv
<1>4. /\ copy' \in Columns
      /\ On({"address-events"}) => copy' = e
      /\ sub.keeps /\ ~On({"restaurant-events"}) => copy'.value = e.value
      /\ sub.keeps /\ ~On({"address-events"})
            => copy'.detail = IF e.detail = <<>> THEN copy.detail ELSE e.detail
  BY <1>2, <1>3, Applied DEF CopyInv
<1>5. (\A topics : On(topics)' <=> On(topics)) /\ (Informs' <=> Informs)
      /\ (\A k : Payload(k)' = Payload(k)) /\ Events' = Events
  BY DEF On, Informs, Payload, Events
<1> HIDE DEF e
<1>6. OrderCopy'
  <2> SUFFICES ASSUME On({"order-events"}) PROVE copy'.value \in Events /\ copy'.value # 0
    BY <1>5 DEF OrderCopy
  <2> QED
    BY <1>1, <1>2, <1>4, Topics DEF CopyInv
<1>7. CopyAtTheEnd'
  <2> SUFFICES ASSUME AtTheEnd', sub.keeps
               PROVE  /\ committed' = pos'
                      /\ ~On({"restaurant-events"}) => copy'.value = Payload(Len(log)).value
                      /\ On({"address-events"}) => copy'.detail = Payload(Len(log)).detail
    BY <1>5 DEF CopyAtTheEnd
  <2>1. pos = Len(log) /\ committed' = pos'
    BY <1>1 DEF AtTheEnd
  <2> QED
    BY <1>4, <2>1 DEF e
<1>8. CopiedDetail'
  <2> SUFFICES ASSUME ~overtaken, sub.keeps, ~On({"address-events"})
               PROVE  \E k \in 0..Len(log) : DetailFrom(k)'
    BY <1>5 DEF CopiedDetail
  <2>1. CASE e.detail # <<>>
    <3>1. PICK m \in 1..Len(log) : m = pos
      BY <1>1
    <3>2. copy'.detail = Payload(m).detail /\ copy'.detail # <<>> /\ m # 0
      BY <1>1, <1>4, <2>1, <3>1 DEF e
    <3>3. m + 1..pos' - 1 = {}
      BY <1>1, <3>1
    <3>4. DetailFrom(m)'
      BY <1>5, <3>2, <3>3 DEF DetailFrom
    <3> QED
      BY <3>4
  <2>2. CASE e.detail = <<>>
    <3>1. PICK k \in 0..Len(log) : DetailFrom(k)
      BY DEF CopyInv, CopiedDetail
    <3>2. copy'.detail = copy.detail
      BY <1>4, <2>2
    <3>3. \A j \in k + 1..pos' - 1 : (j \in k + 1..pos - 1 /\ j # pos) \/ j = pos
      BY <1>1, <3>1
    <3>4. \A j \in k + 1..pos' - 1 : Payload(j).detail # <<>> => j \in failed'
      BY <2>2, <3>1, <3>3 DEF DetailFrom, e
    <3>5. DetailFrom(k)'
      BY <1>5, <3>1, <3>2, <3>4 DEF DetailFrom
    <3> QED
      BY <3>5
  <2> QED
    BY <2>1, <2>2
<1>9. On({"address-events"}) /\ ~overlapped => PointOfEvent(copy)'
  BY <1>2, <1>4 DEF PointOfEvent
<1> QED
  BY <1>4, <1>5, <1>6, <1>7, <1>8, <1>9 DEF CopyInv

\* The message at hand has no effect: it failed, or the process ended.
LEMMA CopyStays ==
    ASSUME RelayInv, ConsumerInv, CopyInv,
           \/ /\ pos <= Len(log) /\ pos' \in {pos, pos + 1} /\ failed' = failed \cup {pos}
              /\ late' \subseteq late \cup {[message |-> pos, read |-> copy]}
           \/ pos' = committed /\ failed' = failed /\ late' = {},
           UNCHANGED <<outbox, log, committed, overtaken, sub, copy, overlapped>>
    PROVE  CopyInv'
<1>1. /\ Len(log) \in Nat /\ pos \in 1..Len(log) + 1 /\ committed \in 1..pos
  BY LogFacts DEF ConsumerInv
<1>2. (\A topics : On(topics)' <=> On(topics)) /\ (Informs' <=> Informs)
      /\ (\A k : Payload(k)' = Payload(k)) /\ Events' = Events
  BY DEF On, Informs, Payload, Events
<1>3. \A l \in late' : l \in late \/ l.read = copy
  OBVIOUS
<1>4. OrderCopy'
  BY <1>2, <1>3 DEF CopyInv, OrderCopy
<1>5. CopyAtTheEnd'
  <2>1. AtTheEnd' => AtTheEnd /\ pos' = pos
    BY <1>1 DEF AtTheEnd
  <2> QED
    BY <1>2, <2>1 DEF CopyInv, CopyAtTheEnd
<1>6. CopiedDetail'
  <2> SUFFICES ASSUME ~overtaken, sub.keeps, ~Informs, ~On({"address-events"})
               PROVE  \E k \in 0..Len(log) : DetailFrom(k)'
    BY <1>2 DEF CopiedDetail
  <2>1. PICK k \in 0..Len(log) : DetailFrom(k)
    BY DEF CopyInv, CopiedDetail
  <2>2. \A j \in k + 1..pos' - 1 : j \in k + 1..pos - 1 \/ j \in failed'
    BY <1>1, <2>1
  <2>3. \A j \in k + 1..pos' - 1 : Payload(j).detail # <<>> => j \in failed'
    BY <2>1, <2>2 DEF DetailFrom
  <2>4. DetailFrom(k)'
    BY <1>2, <2>1, <2>3 DEF DetailFrom
  <2> QED
    BY <2>4
<1> QED
  BY <1>2, <1>4, <1>5, <1>6 DEF CopyInv, PointOfEvent

\* The handler of an older message commits after all.
LEMMA CopyIsLate ==
    ASSUME RelayInv, ConsumerInv, TopicInv, AddressInv, CopyInv, ~Informs, NEW l \in late, LateCommit(l),
           copy' = Merged(l.read, Payload(l.message)), UNCHANGED <<sub, overlapped>>
    PROVE  CopyInv'
<1>1. /\ l.message \in DOMAIN log /\ l.read \in Columns
      /\ Events = 1..Len(outbox) /\ Len(outbox) \in Nat
  BY LogFacts DEF ConsumerInv
<1> DEFINE e == Payload(l.message)
<1>2. /\ e \in Columns
      /\ On({"order-events"}) => e.value \in Events
  BY <1>1, EventFacts
<1>3. /\ copy' \in Columns
      /\ copy'.value \in {copy.value, Apply(l.read, e).value}
      /\ l.read = NoRow /\ copy = NoRow => copy'.value = Apply(l.read, e).value
  BY <1>1, <1>2, MergedFields DEF CopyInv
<1>4. /\ UNCHANGED <<transport, outbox, log>> /\ overtaken' = TRUE /\ late' \subseteq late
  BY DEF LateCommit, relayVars
<1>5. (\A topics : On(topics)' <=> On(topics)) /\ Events' = Events
  BY <1>4 DEF On, Events
<1> HIDE DEF e
<1>6. OrderCopy'
  <2> SUFFICES ASSUME On({"order-events"}) PROVE copy'.value \in Events /\ copy'.value # 0
    BY <1>5 DEF OrderCopy
  <2>1. Apply(l.read, e).value = e.value
    BY <1>1, <1>2, Applied, Topics DEF CopyInv
  <2> QED
    BY <1>1, <1>2, <1>3, <2>1 DEF CopyInv, OrderCopy
<1> QED
  BY <1>3, <1>4, <1>6 DEF CopyInv, CopyAtTheEnd, CopiedDetail

-----------------------------------------------------------------------------
(* The address, the publisher of its events.                               *)

LEMMA PointType ==
    ASSUME NEW p \in Points
    PROVE  p \in Seq(Nat) /\ (p # <<>> => \E line \in Lines, city \in Cities : p = <<line, city>>)
<1>1. Lines \subseteq Nat /\ Cities \subseteq Nat
  BY AddressesAssumption
<1>2. CASE p = <<>>
  BY <1>2, EmptySeq
<1>3. CASE p \in Lines \X Cities
  <2>1. PICK line \in Lines, city \in Cities : p = <<line, city>>
    BY <1>3
  <2>2. line \in Nat /\ city \in Nat
    BY <1>1
  <2>3. <<line, city>> \in Seq(Nat)
    BY <2>2
  <2> QED
    BY <2>1, <2>3
<1> QED
  BY <1>2, <1>3 DEF Points

LEMMA RowFields ==
    ASSUME NEW row \in Address
    PROVE  /\ row = [line |-> row.line, city |-> row.city, point |-> row.point]
           /\ row.line \in Lines \cup {0} /\ row.city \in Cities \cup {0} /\ row.point \in Points
           /\ [value |-> row.city, detail |-> row.point] \in Columns
           /\ PointOfRow(row) => PointOfEvent([value |-> row.city, detail |-> row.point])
<1>1. /\ row = [line |-> row.line, city |-> row.city, point |-> row.point]
      /\ row.line \in Lines \cup {0} /\ row.city \in Cities \cup {0} /\ row.point \in Points
  BY DEF Address
<1>2. row.city \in Nat /\ row.point \in Seq(Nat)
  BY <1>1, PointType, AddressesAssumption
<1> QED
  BY <1>1, <1>2 DEF Columns, PointOfRow, PointOfEvent

LEMMA NoAddressType == NoAddress \in Address /\ NoAddress.point = <<>>
BY DEF NoAddress, Address, Points

\* The columns an edit writes; all of them if the row is what it read.
LEMMA WrittenFields ==
    ASSUME address \in Address, NEW now \in Address, NEW was \in Address
    PROVE  Written(now, was) \in Address /\ (was = address => Written(now, was) = now)
<1> DEFINE w == [f \in {"line", "city", "point"} |-> IF now[f] # was[f] THEN now[f] ELSE address[f]]
<1>1. /\ w.line = IF now.line # was.line THEN now.line ELSE address.line
      /\ w.city = IF now.city # was.city THEN now.city ELSE address.city
      /\ w.point = IF now.point # was.point THEN now.point ELSE address.point
      /\ w = [line |-> w.line, city |-> w.city, point |-> w.point]
  OBVIOUS
<1>2. Written(now, was) = w
  BY DEF Written
<1> HIDE DEF w
<1>3. w.line \in Lines \cup {0} /\ w.city \in Cities \cup {0} /\ w.point \in Points
  BY <1>1, RowFields
<1>4. w \in Address
  BY <1>1, <1>3 DEF Address
<1>5. was = address => w.line = now.line /\ w.city = now.city /\ w.point = now.point
  BY <1>1
<1>6. now = [line |-> now.line, city |-> now.city, point |-> now.point]
  BY RowFields
<1> QED
  BY <1>1, <1>2, <1>4, <1>5, <1>6

\* A step of the customer's: what an edit that sees no other writes is what it
\* tells, and what it tells has the point of the address it spells.
LEMMA AddressMoves ==
    ASSUME RelayInv, TopicInv, AddressInv, On({"address-events"}), AddressStep, UNCHANGED sub,
           sub \in Subscriptions
    PROVE  /\ RelayInv' /\ TopicInv' /\ AddressInv' /\ Kept /\ LogGrows
           /\ UNCHANGED <<transport, consumerVars>> /\ (~overlapped' => ~overlapped)
<1>1. TopicInv'
  BY Topics DEF TopicInv, On
<1>2. On({"address-events"})'
  BY DEF On
<1>3. Len(outbox) \in Nat /\ Events = 1..Len(outbox)
  BY LogFacts
<1>4. ASSUME NEW row \in Address, NEW e, publish_address(row), address' \in Address,
             ~overlapped' => ~overlapped /\ PointOfRow(row) /\ address' = row,
             edits' \subseteq edits
      PROVE  /\ RelayInv' /\ TopicInv' /\ AddressInv' /\ Kept /\ LogGrows
             /\ UNCHANGED <<transport, consumerVars>> /\ (~overlapped' => ~overlapped)
  <2> DEFINE payload == [value |-> row.city, detail |-> row.point]
  <2>1. payload \in Columns /\ record_event(payload) /\ MaxEvents \in Nat
    BY <1>4, RowFields, MessagingAssumption DEF publish_address
  <2>2. PointOfRow(row) => PointOfEvent(payload)
    BY RowFields
  <2> HIDE DEF payload
  <2>3. /\ RelayInv' /\ Kept /\ LogGrows
        /\ Len(outbox') = Len(outbox) + 1
        /\ outbox'[Len(outbox) + 1].payload = payload
        /\ UNCHANGED <<transport, relay, log, consumerVars, trouble>>
    BY <2>1, RecordEvent
  <2>4. \A e1 \in edits' : e1 \in edits /\ e1.before \in Nat /\ e1.before <= Len(outbox)
    BY <1>4 DEF AddressInv, Edit
  <2>5. \A e1 \in edits' : e1.before <= Len(outbox') /\ e1.before # Len(outbox')
    BY <1>3, <2>3, <2>4
  <2>6. Events' = 1..Len(outbox) + 1
    BY <2>3, LenProperties DEF RelayInv, Events
  <2>7. ~overlapped' => \A n \in Events' : PointOfEvent(outbox'[n].payload)
    <3> SUFFICES ASSUME ~overlapped', NEW n \in Events' PROVE PointOfEvent(outbox'[n].payload)
      OBVIOUS
    <3>1. CASE n = Len(outbox) + 1
      BY <1>4, <2>2, <2>3, <3>1
    <3>2. CASE n # Len(outbox) + 1
      <4>1. n \in Events
        BY <1>3, <2>6, <3>2
      <4> QED
        BY <1>4, <2>3, <4>1 DEF Kept, AddressInv
    <3> QED
      BY <3>1, <3>2
  <2>8. edits' \subseteq Edit
    BY <1>4 DEF AddressInv
  <2>9. ~overlapped' => PointOfRow(address') /\ \A e1 \in edits' : PointOfRow(e1.memory)
    BY <1>4, <2>4 DEF AddressInv
  <2>10. AddressInv'
    BY <1>4, <2>5, <2>7, <2>8, <2>9 DEF AddressInv, PointOfRow, PointOfEvent
  <2> QED
    BY <1>1, <1>4, <2>3, <2>10
<1>5. CASE add_address(FirstLine, FirstCity)
  <2>1. PICK point \in geocode(FirstLine, FirstCity) :
           /\ address' = [line |-> FirstLine, city |-> FirstCity, point |-> point]
           /\ publish_address([line |-> FirstLine, city |-> FirstCity, point |-> point])
    BY <1>5 DEF add_address
  <2> DEFINE row == [line |-> FirstLine, city |-> FirstCity, point |-> point]
  <2>2. row \in Address /\ PointOfRow(row)
    BY AddressesAssumption DEF Address, Points, geocode, PointOfRow
  <2>3. edits' = edits /\ overlapped' = overlapped
    BY <1>5 DEF add_address
  <2> HIDE DEF row
  <2>4. address' = row /\ publish_address(row)
    BY <2>1 DEF row
  <2> QED
    BY <1>4, <2>2, <2>3, <2>4
<1>6. ASSUME UNCHANGED messagingVars
      PROVE  RelayInv' /\ Kept /\ LogGrows /\ Events' = Events /\ UNCHANGED <<outbox, transport, consumerVars>>
  BY <1>6, LogFacts DEF messagingVars, consumerVars, RelayInv, Kept, LogGrows, Events
<1>7. ASSUME NEW line \in Lines, NEW city \in Cities, UpdateRead(line, city)
      PROVE  AddressInv' /\ UNCHANGED messagingVars /\ overlapped' = overlapped
  <2>1. PICK point \in IF Moved(address, line, city) THEN geocode(line, city) ELSE {address.point} :
           edits' = edits \cup {[read |-> address, memory |-> [line |-> line, city |-> city, point |-> point],
                                 before |-> Len(outbox)]}
    BY <1>7 DEF UpdateRead
  <2> DEFINE memory == [line |-> line, city |-> city, point |-> point]
             e == [read |-> address, memory |-> memory, before |-> Len(outbox)]
  <2>2. /\ address \in Address /\ UNCHANGED <<address, overlapped>> /\ UNCHANGED messagingVars
        /\ outbox' = outbox
    BY <1>7 DEF UpdateRead, AddressInv, messagingVars
  <2>3. memory \in Address
    <3>1. point \in Points
      <4>1. address.point \in Points
        BY <2>2, RowFields
      <4>2. geocode(line, city) \subseteq Points
        BY DEF geocode, Points
      <4> QED
        BY <2>1, <4>1, <4>2
    <3> QED
      BY <3>1 DEF Address
  <2>4. PointOfRow(address) => PointOfRow(memory)
    <3>1. CASE Moved(address, line, city)
      BY <2>1, <3>1 DEF geocode, PointOfRow
    <3>2. CASE ~Moved(address, line, city)
      BY <2>1, <3>2 DEF Moved, PointOfRow
    <3> QED
      BY <3>1, <3>2
  <2>5. /\ e \in Edit /\ e.before = Len(outbox) /\ e.read = address /\ e.memory = memory
        /\ edits' = edits \cup {e}
    BY <1>3, <2>1, <2>2, <2>3 DEF Edit
  <2> HIDE DEF memory, e
  <2>6. AddressInv'
    <3>1. edits' \subseteq Edit
      BY <2>5 DEF AddressInv
    <3>2. \A x \in edits' : /\ x.before <= Len(outbox)
                            /\ x.before = Len(outbox) /\ address # NoAddress => x.read = address
      BY <1>3, <2>5 DEF AddressInv
    <3>3. ~overlapped => /\ PointOfRow(address)
                         /\ \A x \in edits' : PointOfRow(x.memory)
                         /\ \A n \in Events : PointOfEvent(outbox[n].payload)
      BY <2>4, <2>5 DEF AddressInv
    <3> QED
      BY <2>2, <3>1, <3>2, <3>3 DEF AddressInv, PointOfRow, PointOfEvent, Events
  <2> QED
    BY <2>2, <2>6
<1>8. ASSUME NEW e \in edits, UpdateCommits(e)
      PROVE  /\ RelayInv' /\ TopicInv' /\ AddressInv' /\ Kept /\ LogGrows
             /\ UNCHANGED <<transport, consumerVars>> /\ (~overlapped' => ~overlapped)
  <2>1. e.memory \in Address /\ e.read \in Address /\ address \in Address
    BY DEF AddressInv, Edit
  <2>2. Written(e.memory, e.read) \in Address
    BY <2>1, WrittenFields
  <2>3. /\ address # NoAddress /\ address' = Written(e.memory, e.read) /\ publish_address(e.memory)
        /\ overlapped' = (overlapped \/ e.before # Len(outbox))
        /\ edits' \subseteq edits
    BY <1>8 DEF UpdateCommits
  <2>4. ~overlapped' => ~overlapped /\ PointOfRow(e.memory) /\ address' = e.memory
    BY <2>1, <2>3, WrittenFields DEF AddressInv
  <2> QED
    BY <1>4, <2>1, <2>2, <2>3, <2>4
<1>9. CASE delete_address
  <2>1. UNCHANGED messagingVars /\ address' = NoAddress /\ UNCHANGED <<edits, overlapped>> /\ outbox' = outbox
    BY <1>9 DEF delete_address, messagingVars
  <2>2. AddressInv'
    BY <2>1, NoAddressType DEF AddressInv, PointOfRow, PointOfEvent, Events, On
  <2> QED
    BY <1>1, <1>6, <2>1, <2>2
<1> QED
  BY <1>1, <1>5, <1>6, <1>7, <1>8, <1>9 DEF AddressStep

-----------------------------------------------------------------------------
(* Devices, preferences and what goes out.                                 *)

LEMMA HeldFacts ==
    ASSUME devices \in Seq(Device), NEW u
    PROVE  /\ Held(u) \subseteq DOMAIN devices /\ DOMAIN devices = 1..Len(devices) /\ Len(devices) \in Nat
           /\ IsFiniteSet(Held(u)) /\ Cardinality(Held(u)) \in Nat
<1>1. DOMAIN devices = 1..Len(devices) /\ Len(devices) \in Nat
  BY LenProperties
<1>2. IsFiniteSet(1..Len(devices))
  BY <1>1, FS_Interval
<1>3. Held(u) \in SUBSET (1..Len(devices))
  BY <1>1 DEF Held
<1> QED
  BY <1>1, <1>2, <1>3, FS_Subset, FS_CardinalityType

\* _evict_oldest_beyond_cap leaves fewer rows than the cap.
LEMMA EvictedMakesRoom ==
    ASSUME devices \in Seq(Device), NEW u
    PROVE  Cardinality(Held(u) \ Evicted(u)) < MaxDevices
<1> DEFINE kept == Held(u) \ Evicted(u)
<1>1. Held(u) \subseteq Nat /\ IsFiniteSet(Held(u)) /\ MaxDevices \in Nat \ {0}
  BY HeldFacts, NotificationsAssumption
<1>2. CASE kept = {}
  <2>1. Cardinality(kept) = 0
    BY <1>2, FS_EmptySet
  <2> HIDE DEF kept
  <2>2. Cardinality(kept) < MaxDevices
    BY <1>1, <2>1
  <2> QED
    BY <2>2 DEF kept
<1>3. CASE kept # {}
  <2>1. PICK i \in kept : \A j \in kept : i <= j
    BY <1>1, <1>3, LeastElement
  <2> DEFINE newer == {j \in Held(u) : j >= i}
  <2>2. newer \in SUBSET Held(u) /\ kept \in SUBSET newer
    BY <1>1, <2>1
  <2>3. IsFiniteSet(newer)
    BY <1>1, <2>2, FS_Subset
  <2>4. Cardinality(kept) <= Cardinality(newer) /\ Cardinality(kept) \in Nat /\ Cardinality(newer) \in Nat
    BY <2>2, <2>3, FS_Subset, FS_CardinalityType
  <2>5. ~(Cardinality(newer) > MaxDevices - 1)
    BY <2>1 DEF Evicted, Newer
  <2> HIDE DEF kept, newer
  <2>6. Cardinality(kept) < MaxDevices
    BY <1>1, <2>4, <2>5
  <2> QED
    BY <2>6 DEF kept
<1> QED
  BY <1>2, <1>3

\* Who gets no row keeps within the cap.
LEMMA StillCapped ==
    ASSUME devices \in Seq(Device), DevicesCapped, devices' \in Seq(Device), handed \subseteq handed',
           \A u \in People : \/ Held(u)' \subseteq Held(u)
                             \/ u \in handed'
                             \/ Cardinality(Held(u)') <= MaxDevices
    PROVE  DevicesCapped'
<1> SUFFICES ASSUME NEW u \in People, Cardinality(Held(u)') > MaxDevices PROVE u \in handed'
  BY DEF DevicesCapped
<1>1. MaxDevices \in Nat
  BY NotificationsAssumption
<1>2. Cardinality(Held(u)') \in Nat
  <2>1. DOMAIN devices' = 1..Len(devices') /\ Len(devices') \in Nat
    BY LenProperties
  <2>2. Held(u)' \in SUBSET (1..Len(devices')) /\ IsFiniteSet(1..Len(devices'))
    BY <2>1, FS_Interval DEF Held
  <2> QED
    BY <2>2, FS_Subset, FS_CardinalityType
<1>3. CASE Held(u)' \subseteq Held(u)
  <2>1. Cardinality(Held(u)') <= Cardinality(Held(u)) /\ Cardinality(Held(u)) \in Nat
    BY <1>3, HeldFacts, FS_Subset
  <2>2. Cardinality(Held(u)) > MaxDevices
    BY <1>1, <1>2, <2>1
  <2> QED
    BY <2>2 DEF DevicesCapped
<1>4. CASE Cardinality(Held(u)') <= MaxDevices
  BY <1>1, <1>2, <1>4
<1> QED
  BY <1>3, <1>4

LEMMA WithoutType ==
    ASSUME devices \in Seq(Device), NEW rows
    PROVE  /\ Without(rows) \in Seq(Device) /\ Len(Without(rows)) = Len(devices)
           /\ \A i \in 1..Len(devices) : /\ Without(rows)[i].user = devices[i].user
                                         /\ Without(rows)[i].there <=> devices[i].there /\ i \notin rows
<1> DEFINE w == [i \in 1..Len(devices) |-> [devices[i] EXCEPT !.there = @ /\ i \notin rows]]
<1>1. Without(rows) = w /\ Len(devices) \in Nat
  BY LenProperties DEF Without
<1>2. ASSUME NEW i \in 1..Len(devices)
      PROVE  /\ w[i] \in Device /\ w[i].user = devices[i].user
             /\ w[i].there <=> devices[i].there /\ i \notin rows
  <2>1. devices[i] \in Device
    BY ElementOfSeq
  <2>2. /\ [devices[i] EXCEPT !.there = @ /\ i \notin rows].there = (devices[i].there /\ i \notin rows)
        /\ [devices[i] EXCEPT !.there = @ /\ i \notin rows].user = devices[i].user
        /\ [devices[i] EXCEPT !.there = @ /\ i \notin rows].token = devices[i].token
        /\ [devices[i] EXCEPT !.there = @ /\ i \notin rows] \in Device
    BY <2>1 DEF Device
  <2> QED
    BY <2>2
<1>3. w \in [1..Len(devices) -> Device]
  BY <1>2
<1>4. w \in Seq(Device)
  BY <1>1, <1>3, SeqDef
<1>5. Len(w) = Len(devices)
  BY <1>1, <1>4, LenProperties
<1> HIDE DEF w
<1> QED
  BY <1>1, <1>2, <1>4, <1>5

LEMMA PeopleMove ==
    ASSUME NoticeInv, PeopleStep
    PROVE  NoticeInv'
<1>1. /\ devices \in Seq(Device) /\ joining \subseteq Registration
      /\ DOMAIN devices = 1..Len(devices) /\ Len(devices) \in Nat
  BY LenProperties DEF NoticeInv, NotificationsTypeOK
<1> DEFINE Joined(r) == /\ r.held \subseteq DOMAIN devices
                        /\ r.found = {} => Cardinality(r.held \ r.stale) < MaxDevices
<1>2. \A r \in joining : Joined(r)
  BY DEF NoticeInv
<1>3. ASSUME devices' \in Seq(Device), Len(devices') >= Len(devices), handed \subseteq handed',
             joining' \subseteq joining,
             \A u \in People : \/ Held(u)' \subseteq Held(u)
                               \/ u \in handed'
                               \/ Cardinality(Held(u)') <= MaxDevices,
             UNCHANGED <<prefs, contact, accepted, delivered, feed, asked>>
      PROVE  NoticeInv'
  <2>1. DevicesCapped'
    BY <1>1, <1>3, StillCapped DEF NoticeInv
  <2>2. DOMAIN devices \subseteq DOMAIN devices'
    BY <1>1, <1>3, LenProperties
  <2>3. \A r \in joining' : /\ r.held \subseteq DOMAIN devices'
                            /\ r.found = {} => Cardinality(r.held \ r.stale) < MaxDevices
    BY <1>2, <1>3, <2>2
  <2>4. NotificationsTypeOK'
    BY <1>3 DEF NoticeInv, NotificationsTypeOK
  <2> QED
    BY <1>3, <2>1, <2>3, <2>4 DEF NoticeInv, AuditIsTrue, SmsOnlyIfAsked
<1>4. ASSUME NEW rows, devices' = Without(rows), UNCHANGED <<joining, handed>>,
             UNCHANGED <<prefs, contact, accepted, delivered, feed, asked>>
      PROVE  NoticeInv'
  <2>1. \A u : Held(u)' \subseteq Held(u)
    BY <1>1, <1>4, WithoutType, LenProperties DEF Held
  <2> QED
    BY <1>1, <1>3, <1>4, <2>1, WithoutType
<1>5. ASSUME NEW ch \in Channels, NEW on \in BOOLEAN, update_preferences(ch, on) PROVE NoticeInv'
  <2> DEFINE row == IF prefs.saved THEN prefs.enabled ELSE ColumnDefaults
  <2>1. /\ prefs' = [saved |-> TRUE, enabled |-> IF on THEN row \cup {ch} ELSE row \ {ch}]
        /\ asked' = (asked \/ (on /\ ch = "SMS"))
        /\ UNCHANGED <<contact, devices, joining, accepted, delivered, feed, handed>>
    BY <1>5 DEF update_preferences
  <2>2. row \subseteq Channels /\ ("SMS" \in row => asked)
    BY DEF NoticeInv, NotificationsTypeOK, ColumnDefaults, Channels
  <2> HIDE DEF row
  <2>3. /\ prefs' \in [saved : BOOLEAN, enabled : SUBSET Channels]
        /\ "SMS" \in prefs'.enabled => asked'
        /\ asked => asked'
    BY <2>1, <2>2
  <2> QED
    BY <2>1, <2>3 DEF NoticeInv, NotificationsTypeOK, AuditIsTrue, SmsOnlyIfAsked, DevicesCapped, Held
<1>6. ASSUME NEW u, NEW t, unregister_device(u, t) PROVE NoticeInv'
  BY <1>4, <1>6 DEF unregister_device
<1>7. ASSUME NEW u \in People, NEW t \in Tokens, RegisterRead(u, t) PROVE NoticeInv'
  <2> DEFINE r == [user |-> u, token |-> t, found |-> Registered(t),
                   stale |-> IF Registered(t) # {} THEN {} ELSE Evicted(u), held |-> Held(u)]
  <2>1. /\ joining' = joining \cup {r}
        /\ UNCHANGED <<prefs, contact, devices, accepted, delivered, feed, asked, handed>>
    BY <1>7 DEF RegisterRead
  <2>2. Registered(t) \subseteq Nat /\ Evicted(u) \subseteq Nat /\ Held(u) \subseteq DOMAIN devices
    BY <1>1 DEF Registered, Evicted, Held
  <2>3. r \in Registration
    BY <1>1, <2>2 DEF Registration
  <2>4. Joined(r)
    BY <1>1, <2>2, EvictedMakesRoom
  <2> HIDE DEF r
  <2>5. NotificationsTypeOK'
    BY <2>1, <2>3 DEF NoticeInv, NotificationsTypeOK
  <2>6. \A x \in joining' : Joined(x)
    BY <1>2, <2>1, <2>4
  <2> QED
    BY <2>1, <2>5, <2>6 DEF NoticeInv, AuditIsTrue, SmsOnlyIfAsked, DevicesCapped, Held
<1>8. ASSUME NEW r \in joining, RegisterCommits(r) PROVE NoticeInv'
  <2>1. /\ joining' \subseteq joining /\ handed \subseteq handed'
        /\ r.found # {} \/ Held(r.user) # r.held => r.user \in handed'
        /\ UNCHANGED <<prefs, contact, accepted, delivered, feed, asked>>
    BY <1>8 DEF RegisterCommits
  <2>2. r.user \in People /\ r.token \in Tokens
    BY <1>1 DEF Registration
  <2>3. CASE /\ r.found # {}
             /\ devices' = [i \in DOMAIN devices |->
                              IF i \in r.found THEN [devices[i] EXCEPT !.user = r.user] ELSE devices[i]]
    <3>1. ASSUME NEW i \in 1..Len(devices)
          PROVE  /\ devices'[i] \in Device /\ (devices'[i].there <=> devices[i].there)
                 /\ devices'[i].user \in {r.user, devices[i].user}
      <4>1. devices[i] \in Device
        BY <1>1, ElementOfSeq
      <4>2. CASE i \in r.found
        <5>1. devices'[i] = [devices[i] EXCEPT !.user = r.user]
          BY <1>1, <2>3, <4>2
        <5> QED
          BY <2>2, <4>1, <5>1 DEF Device
      <4>3. CASE i \notin r.found
        BY <1>1, <2>3, <4>1, <4>3
      <4> QED
        BY <4>2, <4>3
    <3>2. devices' \in [1..Len(devices) -> Device]
      BY <1>1, <2>3, <3>1
    <3>3. devices' \in Seq(Device) /\ Len(devices') = Len(devices)
      BY <1>1, <3>2, SeqDef, LenProperties
    <3>4. \A u \in People : u # r.user => Held(u)' \subseteq Held(u)
      BY <1>1, <3>1, <3>3, LenProperties DEF Held
    <3> QED
      BY <1>1, <1>3, <2>1, <2>3, <3>3, <3>4
  <2>4. CASE devices' = devices
    <3>1. \A u \in People : Held(u)' \subseteq Held(u)
      BY <2>4 DEF Held
    <3> QED
      BY <1>1, <1>3, <2>1, <2>4, <3>1
  <2>5. CASE /\ r.found = {}
             /\ devices' = Append(Without(r.stale), [token |-> r.token, user |-> r.user, there |-> TRUE])
    <3> DEFINE new == [token |-> r.token, user |-> r.user, there |-> TRUE]
    <3>1. new \in Device /\ new.user = r.user
      BY <2>2 DEF Device
    <3> HIDE DEF new
    <3>2. /\ devices' \in Seq(Device) /\ Len(devices') = Len(devices) + 1
          /\ \A i \in 1..Len(devices) : devices'[i] = Without(r.stale)[i]
          /\ devices'[Len(devices) + 1] = new
      BY <1>1, <2>5, <3>1, WithoutType, AppendProperties DEF new
    <3>3. DOMAIN devices' = 1..Len(devices) + 1
      BY <3>2, LenProperties
    <3>4. \A i \in 1..Len(devices) : /\ devices'[i].user = devices[i].user
                                     /\ devices'[i].there <=> devices[i].there /\ i \notin r.stale
      BY <1>1, <3>2, WithoutType
    <3>5. ASSUME NEW u \in People, u # r.user PROVE Held(u)' \subseteq Held(u)
      BY <1>1, <3>1, <3>2, <3>3, <3>4, <3>5 DEF Held
    <3>6. ASSUME Held(r.user) = r.held PROVE Cardinality(Held(r.user)') <= MaxDevices
      <4>1. PICK u \in People : u = r.user
        BY <2>2
      <4>2. Held(u)' \in SUBSET ((r.held \ r.stale) \cup {Len(devices) + 1})
        BY <1>1, <3>3, <3>4, <3>6, <4>1 DEF Held
      <4>3. /\ IsFiniteSet(r.held \ r.stale)
            /\ Cardinality(r.held \ r.stale) < MaxDevices
        BY <1>1, <1>2, <2>5, <3>6, <4>1, HeldFacts, FS_Subset
      <4>4. /\ IsFiniteSet((r.held \ r.stale) \cup {Len(devices) + 1})
            /\ Cardinality((r.held \ r.stale) \cup {Len(devices) + 1}) <= Cardinality(r.held \ r.stale) + 1
            /\ Cardinality(r.held \ r.stale) \in Nat
        <5>1. Cardinality(r.held \ r.stale) \in Nat
          BY <4>3, FS_CardinalityType
        <5>2. /\ IsFiniteSet((r.held \ r.stale) \cup {Len(devices) + 1})
              /\ Cardinality((r.held \ r.stale) \cup {Len(devices) + 1})
                   = IF Len(devices) + 1 \in r.held \ r.stale THEN Cardinality(r.held \ r.stale)
                                                              ELSE Cardinality(r.held \ r.stale) + 1
          BY <4>3, FS_AddElement
        <5> QED
          BY <5>1, <5>2
      <4>5. /\ Cardinality(Held(u)') <= Cardinality((r.held \ r.stale) \cup {Len(devices) + 1})
            /\ Cardinality(Held(u)') \in Nat
            /\ Cardinality((r.held \ r.stale) \cup {Len(devices) + 1}) \in Nat
        BY <4>2, <4>4, FS_Subset, FS_CardinalityType
      <4>6. Cardinality(Held(u)') <= MaxDevices
        BY <4>3, <4>4, <4>5, NotificationsAssumption
      <4> QED
        BY <4>1, <4>6
    <3>7. \A u \in People : \/ Held(u)' \subseteq Held(u)
                            \/ u \in handed'
                            \/ Cardinality(Held(u)') <= MaxDevices
      BY <2>1, <3>5, <3>6
    <3> QED
      BY <1>1, <1>3, <2>1, <3>2, <3>7
  <2> QED
    BY <1>8, <2>3, <2>4, <2>5 DEF RegisterCommits
<1>9. CASE ContactArrives
  <2>1. UNCHANGED <<prefs, devices, joining, accepted, delivered, feed, asked, handed, calls>>
    BY <1>9 DEF ContactArrives
  <2> QED
    BY <2>1 DEF NoticeInv, NotificationsTypeOK, AuditIsTrue, SmsOnlyIfAsked, DevicesCapped, Held
<1> QED
  BY <1>5, <1>6, <1>7, <1>8, <1>9 DEF PeopleStep

\* On every channel no more is reported, and recorded, than the provider took.
LEMMA SendsAreTrue ==
    ASSUME accepted \in [Channels -> Nat], delivered \in [Channels -> Nat], AuditIsTrue,
           NEW to \in [Channels -> Nat], NEW recorded, Sends(to, recorded)
    PROVE  /\ accepted' \in [Channels -> Nat] /\ delivered' \in [Channels -> Nat] /\ AuditIsTrue'
           /\ to["SMS"] = 0 => accepted'["SMS"] = accepted["SMS"]
<1>1. PICK push \in Outcomes("PUSH", to["PUSH"]), sms \in Outcomes("SMS", to["SMS"]),
           email \in Outcomes("EMAIL", to["EMAIL"]) :
        LET outcome == [ch \in Channels |-> CASE ch = "PUSH" -> push [] ch = "SMS" -> sms [] ch = "EMAIL" -> email] IN
        /\ accepted' = [ch \in Channels |-> accepted[ch] + outcome[ch].taken]
        /\ delivered' = [ch \in Channels |-> IF recorded THEN delivered[ch] + outcome[ch].reported ELSE delivered[ch]]
  BY DEF Sends
<1>2. ASSUME NEW ch \in Channels, NEW o \in Outcomes(ch, to[ch])
      PROVE  o.reported \in Nat /\ o.taken \in 0..to[ch] /\ o.reported <= o.taken
  BY <1>2 DEF Outcomes, dispatch
<1> DEFINE outcome == [ch \in Channels |-> CASE ch = "PUSH" -> push [] ch = "SMS" -> sms [] ch = "EMAIL" -> email]
<1>3. ASSUME NEW ch \in Channels PROVE outcome[ch] \in Outcomes(ch, to[ch])
  BY <1>1 DEF Channels
<1>4. /\ accepted' = [ch \in Channels |-> accepted[ch] + outcome[ch].taken]
      /\ delivered' = [ch \in Channels |-> IF recorded THEN delivered[ch] + outcome[ch].reported ELSE delivered[ch]]
  BY <1>1
<1>5. "SMS" \in Channels
  BY DEF Channels
<1> HIDE DEF outcome
<1>6. ASSUME NEW ch \in Channels
      PROVE  /\ accepted'[ch] = accepted[ch] + outcome[ch].taken /\ accepted'[ch] \in Nat
             /\ delivered'[ch] \in Nat /\ delivered'[ch] <= accepted'[ch]
             /\ to[ch] = 0 => accepted'[ch] = accepted[ch]
  <2>1. /\ outcome[ch].reported \in Nat /\ outcome[ch].taken \in 0..to[ch]
        /\ outcome[ch].reported <= outcome[ch].taken
    BY <1>2, <1>3
  <2>2. accepted[ch] \in Nat /\ delivered[ch] \in Nat /\ delivered[ch] <= accepted[ch] /\ to[ch] \in Nat
    BY DEF AuditIsTrue
  <2> QED
    BY <1>4, <2>1, <2>2
<1>7. accepted' \in [Channels -> Nat] /\ delivered' \in [Channels -> Nat]
  BY <1>4, <1>6
<1> QED
  BY <1>5, <1>6, <1>7 DEF AuditIsTrue

\* A handler that informs the customer, or the owner.
LEMMA InformIsTrue ==
    ASSUME NoticeInv, sub \in Subscriptions, Informs, NEW e, NEW recorded, Inform(e, recorded)
    PROVE  NoticeInv'
<1>1. /\ accepted \in [Channels -> Nat] /\ delivered \in [Channels -> Nat] /\ feed \in Nat
      /\ devices \in Seq(Device)
  BY DEF NoticeInv, NotificationsTypeOK
<1>2. ASSUME NEW to \in [Channels -> Nat], Sends(to, recorded), to["SMS"] > 0 => asked,
             feed' \in Nat, UNCHANGED unsent
      PROVE  NoticeInv'
  <2>1. /\ accepted' \in [Channels -> Nat] /\ delivered' \in [Channels -> Nat] /\ AuditIsTrue'
        /\ to["SMS"] = 0 => accepted'["SMS"] = accepted["SMS"]
    BY <1>1, <1>2, SendsAreTrue DEF NoticeInv
  <2>2. UNCHANGED <<prefs, contact, devices, joining, asked, handed>>
    BY <1>2 DEF unsent
  <2>3. to["SMS"] \in Nat
    BY DEF Channels
  <2>4. SmsOnlyIfAsked'
    <3>1. CASE to["SMS"] = 0
      BY <2>1, <2>2, <3>1 DEF NoticeInv, SmsOnlyIfAsked
    <3>2. CASE to["SMS"] # 0
      BY <1>2, <2>2, <2>3, <3>2 DEF SmsOnlyIfAsked
    <3> QED
      BY <3>1, <3>2
  <2> QED
    BY <1>2, <2>1, <2>2, <2>4 DEF NoticeInv, NotificationsTypeOK, DevicesCapped, Held
<1>3. add_notification(recorded) => feed' \in Nat
  BY <1>1 DEF add_notification
<1>4. \A ch \in Channels : _recipients(ch) \in Nat
  BY <1>1, HeldFacts DEF _recipients
<1>5. ASSUME NEW n \in Nat
      PROVE  Mail(n) \in [Channels -> Nat] /\ Mail(n)["SMS"] = 0
  BY DEF Mail, Channels
<1>6. ASSUME NEW status, handle_order_status(status, recorded) PROVE NoticeInv'
  <2>1. /\ Outbound(status) \in [Channels -> Nat]
        /\ Outbound(status)["SMS"] > 0 => "SMS" \in prefs.enabled
    BY <1>4 DEF Outbound, allows, Channels
  <2>2. Outbound(status)["SMS"] > 0 => asked
    BY <2>1 DEF NoticeInv
  <2> QED
    BY <1>2, <1>3, <1>6, <2>1, <2>2 DEF handle_order_status
<1>7. ASSUME NEW addressed \in BOOLEAN, _handle_direct(addressed, recorded) PROVE NoticeInv'
  <2>1. (IF addressed THEN 1 ELSE 0) \in Nat /\ feed' \in Nat
    BY <1>1, <1>3, <1>7 DEF _handle_direct
  <2>2. ~(Mail(IF addressed THEN 1 ELSE 0)["SMS"] > 0)
    BY <1>5, <2>1
  <2> QED
    BY <1>2, <1>5, <1>7, <2>1, <2>2 DEF _handle_direct
<1>8. ASSUME NEW decided \in BOOLEAN, _handle_restaurant(decided, recorded) PROVE NoticeInv'
  <2>1. (IF decided THEN _recipients("EMAIL") ELSE 0) \in Nat /\ feed' \in Nat /\ UNCHANGED unsent
    BY <1>1, <1>4, <1>8 DEF _handle_restaurant, Channels
  <2>2. ~(Mail(IF decided THEN _recipients("EMAIL") ELSE 0)["SMS"] > 0)
    BY <1>5, <2>1
  <2> QED
    BY <1>2, <1>5, <1>8, <2>1, <2>2 DEF _handle_restaurant
<1>9. sub.topic \in {"order-events", "notification-events", "restaurant-events"}
  BY DEF Informs, Subscriptions, On
<1> QED
  BY <1>6, <1>7, <1>8, <1>9 DEF Inform, On

-----------------------------------------------------------------------------
(* The inductive invariant.                                                *)

LEMMA NoticeStays == NoticeInv /\ UNCHANGED notificationVars => NoticeInv'
<1> SUFFICES ASSUME NoticeInv, UNCHANGED notificationVars PROVE NoticeInv'
  OBVIOUS
<1>1. UNCHANGED <<prefs, devices, joining, accepted, delivered, feed, asked, handed>>
  BY DEF notificationVars
<1> QED
  BY <1>1 DEF NoticeInv, NotificationsTypeOK, AuditIsTrue, SmsOnlyIfAsked, DevicesCapped, Held

LEMMA ReviewStays == ReviewInv /\ Kept /\ UNCHANGED reviews => ReviewInv'
BY DEF ReviewInv, ReviewsAreEarned, Kept

LEMMA TopicStays ==
    ASSUME RelayInv, RelayInv', TopicInv, AddressInv, Kept, Len(outbox') = Len(outbox),
           UNCHANGED <<sub, address, edits, overlapped>>
    PROVE  TopicInv' /\ AddressInv'
<1>1. Events' = Events
  BY LenProperties DEF RelayInv, Events
<1>2. (\A topics : On(topics)' <=> On(topics)) /\ \A n \in Events : outbox'[n].payload = outbox[n].payload
  BY DEF On, Kept
<1> QED
  BY <1>1, <1>2 DEF TopicInv, AddressInv, PointOfRow, PointOfEvent

\* An event of a row that is no address.
LEMMA Recorded ==
    ASSUME IInv, NEW payload \in Columns, record_event(payload), ~On({"address-events"}),
           On({"order-events"}) => payload.value = Len(outbox) + 1,
           On({"user-events", "user-contact-events"}) => payload.detail # <<>>,
           UNCHANGED <<addressVars, notificationVars, sub, copy, reviews>>
    PROVE  IInv'
<1>1. /\ RelayInv' /\ Kept /\ LogGrows
      /\ Len(outbox') = Len(outbox) + 1
      /\ outbox'[Len(outbox) + 1].payload = payload
      /\ UNCHANGED <<transport, consumerVars>>
  BY RecordEvent, MessagingAssumption DEF IInv
<1>2. Len(outbox) \in Nat /\ Events = 1..Len(outbox) /\ Events' = 1..Len(outbox) + 1
  BY <1>1, LogFacts, LenProperties DEF IInv, RelayInv, Events
<1>3. UNCHANGED <<address, edits, overlapped>>
  BY DEF addressVars
<1>4. \A topics : On(topics)' <=> On(topics)
  BY DEF On
<1>5. TopicInv'
  <2>1. \A n \in Events' : n \in Events \/ n = Len(outbox) + 1
    BY <1>2
  <2> QED
    BY <1>1, <1>4, <2>1 DEF IInv, TopicInv, Kept
<1>6. AddressInv'
  <2>1. \A e \in edits : e.before \in Nat /\ e.before <= Len(outbox)
    BY DEF IInv, AddressInv, Edit
  <2>2. \A e \in edits : e.before <= Len(outbox') /\ e.before # Len(outbox')
    BY <1>1, <1>2, <2>1
  <2> QED
    BY <1>3, <1>4, <2>2 DEF IInv, AddressInv
<1>7. ConsumerInv'
  BY <1>1, ConsumerGrows DEF IInv
<1>8. CopyInv'
  BY <1>1, <1>3, CopyGrows DEF IInv
<1> QED
  BY <1>1, <1>5, <1>6, <1>7, <1>8, NoticeStays, ReviewStays DEF IInv

LEMMA RowsChange ==
    ASSUME IInv, OrderMoves \/ UserChanges \/ RestaurantChanges \/ MessageAsked
    PROVE  IInv'
<1>1. /\ sub \in Subscriptions /\ Len(outbox) \in Nat /\ Events = 1..Len(outbox)
      /\ \A n \in Events : outbox[n].payload \in Columns
  BY LogFacts DEF IInv, CopyInv
<1>2. /\ <<Len(outbox) + 1>> \in Seq(Nat) /\ <<Len(outbox) + 1>> # <<>> /\ Len(outbox) + 1 \in Nat
      /\ <<1>> \in Seq(Nat)
  BY <1>1
<1>3. \A v \in Nat, d \in Seq(Nat) : [value |-> v, detail |-> d] \in Columns
  BY DEF Columns
<1>4. CASE OrderMoves
  <2>1. PICK detail \in {<<>>, <<Len(outbox) + 1>>} : record_event([value |-> Len(outbox) + 1, detail |-> detail])
    BY <1>4 DEF OrderMoves
  <2>2. detail \in Seq(Nat)
    BY <1>1, <1>2, EmptySeq
  <2>3. [value |-> Len(outbox) + 1, detail |-> detail] \in Columns
    BY <1>2, <1>3, <2>2
  <2>4. ~On({"address-events"}) /\ ~On({"user-events", "user-contact-events"})
    BY <1>1, <1>4, Topics DEF OrderMoves
  <2> QED
    BY <1>4, <2>1, <2>3, <2>4, Recorded DEF OrderMoves
<1>5. CASE UserChanges
  <2>1. record_event([value |-> Len(outbox) + 1, detail |-> <<Len(outbox) + 1>>])
    BY <1>5 DEF UserChanges
  <2>2. [value |-> Len(outbox) + 1, detail |-> <<Len(outbox) + 1>>] \in Columns
    BY <1>1, <1>2, <1>3
  <2>3. ~On({"address-events"}) /\ ~On({"order-events"})
    BY <1>1, <1>5, Topics DEF UserChanges
  <2> QED
    BY <1>5, <2>1, <2>2, <2>3, Recorded DEF UserChanges
<1>6. CASE RestaurantChanges
  <2>1. PICK status \in IF Len(outbox) + 1 = 1 THEN {1} ELSE {outbox[Len(outbox)].payload.value, 2} :
           record_event([value |-> status, detail |-> <<Len(outbox) + 1>>])
    <3>1. Len(outbox) + 1 - 1 = Len(outbox)
      BY <1>1
    <3> QED
      BY <1>6, <3>1 DEF RestaurantChanges
  <2>2. status \in Nat
    <3>1. CASE Len(outbox) = 0
      BY <2>1, <3>1
    <3>2. CASE Len(outbox) # 0
      <4>1. Len(outbox) \in Events
        BY <1>1, <3>2
      <4>2. outbox[Len(outbox)].payload.value \in Nat
        BY <1>1, <4>1 DEF Columns
      <4>3. status \in {1, outbox[Len(outbox)].payload.value, 2}
        BY <2>1
      <4> QED
        BY <4>2, <4>3
    <3> QED
      BY <3>1, <3>2
  <2>3. [value |-> status, detail |-> <<Len(outbox) + 1>>] \in Columns
    BY <1>1, <1>2, <1>3, <2>2
  <2>4. ~On({"address-events"}) /\ ~On({"order-events"}) /\ ~On({"user-events", "user-contact-events"})
    BY <1>1, <1>6, Topics DEF RestaurantChanges
  <2> QED
    BY <1>6, <2>1, <2>3, <2>4, Recorded DEF RestaurantChanges
<1>7. CASE MessageAsked
  <2>1. PICK detail \in {<<>>, <<1>>} : record_event([value |-> 1, detail |-> detail])
    BY <1>7 DEF MessageAsked
  <2>2. detail \in Seq(Nat)
    BY <1>2, EmptySeq
  <2>3. [value |-> 1, detail |-> detail] \in Columns
    BY <1>3, <2>2
  <2>4. ~On({"address-events"}) /\ ~On({"order-events"}) /\ ~On({"user-events", "user-contact-events"})
    BY <1>7 DEF MessageAsked, On
  <2> QED
    BY <1>7, <2>1, <2>3, <2>4, Recorded DEF MessageAsked
<1> QED
  BY <1>4, <1>5, <1>6, <1>7

LEMMA ConsumerMove ==
    ASSUME IInv, ConsumerStep
    PROVE  IInv'
<1>1. /\ copy \in Columns /\ sub \in Subscriptions /\ UNCHANGED <<addressVars, sub, reviews>>
      /\ UNCHANGED <<address, edits, overlapped>>
  BY DEF IInv, CopyInv, ConsumerStep, addressVars
<1>2. ConsumerInv' /\ UNCHANGED relayVars
  BY <1>1, ConsumerMoves DEF IInv, ConsumerStep
<1>3. UNCHANGED <<transport, outbox, relay, log>>
  BY <1>2 DEF relayVars
<1>4. RelayInv' /\ Kept
  BY <1>3, LogFacts DEF IInv, RelayInv, Kept, Events
<1>5. TopicInv' /\ AddressInv'
  BY <1>1, <1>3, <1>4, TopicStays DEF IInv
<1>6. ReviewInv'
  BY <1>1, <1>4, ReviewStays DEF IInv
<1>7. ASSUME NEW e, NEW recorded, Informs, Inform(e, recorded) PROVE NoticeInv'
  BY <1>1, <1>7, InformIsTrue DEF IInv
<1>8. ASSUME NEW read, NEW e, Effect(read, e)
      PROVE  NoticeInv' /\ (IF Informs THEN UNCHANGED copy ELSE copy' = Merged(read, e))
  BY <1>7, <1>8, NoticeStays DEF Effect, IInv
<1>9. ASSUME UNCHANGED copy,
             \/ Handled \/ Restarts \/ RestartsAfterCommit
             \/ \E l \in late : LateCommit(l),
             ~Informs => Restarts
      PROVE  CopyInv'
  <2>1. CASE Restarts
    BY <1>1, <1>3, <1>9, <2>1, CopyStays DEF Restarts, IInv
  <2>2. CASE Informs
    <3>1. (\A topics : On(topics)' <=> On(topics)) /\ Informs' /\ Events' = Events
      BY <1>1, <1>3, <2>2 DEF On, Informs, Events
    <3>2. late' \subseteq late
      BY <1>9 DEF Handled, Restarts, RestartsAfterCommit, LateCommit
    <3>3. ~On({"address-events"})
      BY <1>1, <2>2, Topics DEF Informs, Subscriptions
    <3> QED
      BY <1>1, <1>9, <3>1, <3>2, <3>3 DEF IInv, CopyInv, OrderCopy, CopyAtTheEnd, CopiedDetail
  <2> QED
    BY <1>9, <2>1, <2>2
<1>10. CASE Handled /\ Effect(copy, Payload(pos))
  <2>1. /\ pos <= Len(log) /\ pos' = pos + 1 /\ committed' = pos + 1 /\ failed' = failed \ {pos}
        /\ late' = late /\ UNCHANGED overtaken
    BY <1>10 DEF Handled, Acknowledge
  <2>2. CopyInv'
    <3>1. CASE Informs
      BY <1>8, <1>9, <1>10, <3>1
    <3>2. CASE ~Informs
      BY <1>1, <1>3, <1>8, <1>10, <2>1, <3>2, CopyTakes DEF IInv
    <3> QED
      BY <3>1, <3>2
  <2> QED
    BY <1>2, <1>4, <1>5, <1>6, <1>8, <1>10, <2>2 DEF IInv
<1>11. CASE (HandlerFails \/ HandlerTimesOut(copy)) /\ UNCHANGED <<copy, notificationVars>>
  <2>1. /\ pos <= Len(log) /\ pos' \in {pos, pos + 1} /\ failed' = failed \cup {pos}
        /\ late' \subseteq late \cup {[message |-> pos, read |-> copy]}
        /\ UNCHANGED <<committed, overtaken, copy>>
    BY <1>11 DEF HandlerFails, HandlerTimesOut, NotAcknowledged
  <2>2. CopyInv'
    BY <1>1, <1>3, <2>1, CopyStays DEF IInv
  <2> QED
    BY <1>2, <1>4, <1>5, <1>6, <1>11, <2>2, NoticeStays DEF IInv
<1>12. ASSUME NEW l \in late, LateCommit(l), Effect(l.read, Payload(l.message))
       PROVE  IInv'
  <2>1. CopyInv'
    <3>1. CASE Informs
      BY <1>8, <1>9, <1>12, <3>1
    <3>2. CASE ~Informs
      BY <1>1, <1>8, <1>12, <3>2, CopyIsLate DEF IInv
    <3> QED
      BY <3>1, <3>2
  <2> QED
    BY <1>2, <1>4, <1>5, <1>6, <1>8, <1>12, <2>1 DEF IInv
<1>13. CASE Restarts /\ UNCHANGED <<copy, notificationVars>>
  BY <1>2, <1>4, <1>5, <1>6, <1>9, <1>13, NoticeStays DEF IInv
<1>14. CASE RestartsAfterCommit /\ Effect(copy, Payload(pos))
  <2>1. /\ pos <= Len(log) /\ pos' = committed /\ UNCHANGED <<committed, failed, overtaken>> /\ late' = {}
    BY <1>14 DEF RestartsAfterCommit
  <2>2. CopyInv'
    <3>1. CASE Informs
      BY <1>8, <1>9, <1>14, <3>1
    <3>2. CASE ~Informs
      BY <1>1, <1>3, <1>8, <1>14, <2>1, <3>2, CopyTakes DEF IInv
    <3> QED
      BY <3>1, <3>2
  <2> QED
    BY <1>2, <1>4, <1>5, <1>6, <1>8, <1>14, <2>2 DEF IInv
<1>15. CASE Restarts /\ pos <= Len(log) /\ Informs /\ Inform(Payload(pos), FALSE) /\ UNCHANGED copy
  BY <1>2, <1>4, <1>5, <1>6, <1>7, <1>9, <1>15 DEF IInv
<1> QED
  BY <1>10, <1>11, <1>12, <1>13, <1>14, <1>15 DEF ConsumerStep

LEMMA Reviewed ==
    ASSUME IInv, ReviewStep
    PROVE  ReviewInv'
<1>1. reviews \in Seq(Review) /\ UNCHANGED <<outbox, sub, copy>>
  BY DEF IInv, ReviewInv, ReviewStep, messagingVars
<1>2. Events' = Events
  BY <1>1 DEF Events
<1>3. CASE create_review
  <2> DEFINE new == [there |-> TRUE, edited |-> FALSE, replied |-> FALSE]
  <2>1. new \in Review /\ reviews' = Append(reviews, new)
    BY <1>3 DEF create_review, Review
  <2> HIDE DEF new
  <2>2. reviews' \in Seq(Review)
    BY <1>1, <2>1, AppendProperties
  <2>3. copy.value \in Events /\ Life[copy.value] \in {"DELIVERED", "COMPLETED"}
    BY <1>3 DEF create_review, Reviewable, HasSnapshot, IInv, CopyInv, OrderCopy
  <2> QED
    BY <1>2, <2>2, <2>3 DEF ReviewInv, ReviewsAreEarned
<1>4. ASSUME NEW k \in DOMAIN reviews, NEW new \in Review, reviews' = [reviews EXCEPT ![k] = new]
      PROVE  ReviewInv'
  <2>1. k \in 1..Len(reviews)
    BY <1>1, LenProperties
  <2>2. reviews' \in Seq(Review)
    BY <1>1, <1>4, <2>1, ExceptSeq
  <2>3. reviews # <<>>
    BY <1>1, <2>1, EmptySeq
  <2> QED
    BY <1>2, <2>2, <2>3 DEF IInv, ReviewInv, ReviewsAreEarned
<1>5. ASSUME NEW k \in DOMAIN reviews, update_review(k) \/ reply_to_review(k) \/ delete_review(k)
      PROVE  ReviewInv'
  <2>1. reviews[k] \in Review
    BY <1>1, LenProperties, ElementOfSeq
  <2>2. /\ [reviews[k] EXCEPT !.edited = TRUE] \in Review
        /\ [reviews[k] EXCEPT !.replied = TRUE] \in Review
        /\ [reviews[k] EXCEPT !.there = FALSE] \in Review
    BY <2>1 DEF Review
  <2>3. \/ reviews' = [reviews EXCEPT ![k] = [reviews[k] EXCEPT !.edited = TRUE]]
        \/ reviews' = [reviews EXCEPT ![k] = [reviews[k] EXCEPT !.replied = TRUE]]
        \/ reviews' = [reviews EXCEPT ![k] = [reviews[k] EXCEPT !.there = FALSE]]
    BY <1>5 DEF update_review, reply_to_review, delete_review
  <2> QED
    BY <1>4, <2>2, <2>3
<1> QED
  BY <1>3, <1>5 DEF ReviewStep

LEMMA NextIInv == IInv /\ [Next]_vars => IInv'
<1> SUFFICES ASSUME IInv, [Next]_vars PROVE IInv'
  OBVIOUS
<1>1. ASSUME UNCHANGED messagingVars, UNCHANGED <<addressVars, sub, copy>> PROVE
         /\ RelayInv' /\ ConsumerInv' /\ TopicInv' /\ AddressInv' /\ CopyInv' /\ Kept
  <2>1. UNCHANGED <<transport, outbox, relay, log, consumerVars, sub, copy, address, edits, overlapped>>
    BY <1>1 DEF messagingVars, addressVars, consumerVars
  <2>2. RelayInv' /\ Kept /\ LogGrows
    BY <2>1, LogFacts DEF IInv, RelayInv, Kept, LogGrows, Events
  <2> QED
    BY <2>1, <2>2, ConsumerGrows, CopyGrows, TopicStays DEF IInv
<1>2. CASE UNCHANGED vars
  BY <1>1, <1>2, NoticeStays, ReviewStays DEF vars, IInv
<1>3. CASE OrderMoves \/ UserChanges \/ RestaurantChanges \/ MessageAsked
  BY <1>3, RowsChange
<1>4. CASE On({"address-events"}) /\ AddressStep /\ UNCHANGED <<notificationVars, sub, copy, reviews>>
  <2>1. /\ RelayInv' /\ TopicInv' /\ AddressInv' /\ Kept /\ LogGrows
        /\ UNCHANGED <<transport, consumerVars>> /\ (~overlapped' => ~overlapped)
    BY <1>4, AddressMoves DEF IInv, CopyInv
  <2>2. ConsumerInv' /\ CopyInv'
    BY <1>4, <2>1, ConsumerGrows, CopyGrows DEF IInv
  <2> QED
    BY <1>4, <2>1, <2>2, NoticeStays, ReviewStays DEF IInv
<1>5. CASE RelayStep /\ UNCHANGED <<addressVars, notificationVars, sub, copy, reviews>>
  <2>1. /\ RelayInv' /\ Kept /\ LogGrows /\ Len(outbox') = Len(outbox) /\ UNCHANGED consumerVars
    BY <1>5, RelayPass DEF IInv
  <2>2. UNCHANGED <<transport, address, edits, overlapped>>
    BY <1>5 DEF addressVars, RelayStep, Relay, TakeBatch, SendSucceeds, SendFails, BatchCommits, BatchLost
  <2>3. ConsumerInv' /\ CopyInv' /\ TopicInv' /\ AddressInv'
    BY <1>5, <2>1, <2>2, ConsumerGrows, CopyGrows, TopicStays DEF IInv
  <2> QED
    BY <1>5, <2>1, <2>3, NoticeStays, ReviewStays DEF IInv
<1>6. CASE ConsumerStep
  BY <1>6, ConsumerMove
<1>7. CASE Informs /\ CustomerStep /\ UNCHANGED <<messagingVars, addressVars, sub, copy, reviews>>
  <2>1. PeopleStep
    BY <1>7 DEF CustomerStep, PeopleStep
  <2>2. NoticeInv'
    BY <2>1, PeopleMove DEF IInv
  <2> QED
    BY <1>1, <1>7, <2>2, ReviewStays DEF IInv
<1>8. CASE ReviewStep
  <2>1. UNCHANGED <<messagingVars, addressVars, notificationVars, sub, copy>>
    BY <1>8 DEF ReviewStep
  <2> QED
    BY <1>1, <1>8, <2>1, Reviewed, NoticeStays DEF IInv
<1> QED
  BY <1>2, <1>3, <1>4, <1>5, <1>6, <1>7, <1>8 DEF Next

LEMMA InitIInv == Init => IInv
<1> SUFFICES ASSUME Init PROVE IInv
  OBVIOUS
<1>1. /\ sub \in Subscriptions /\ copy = NoRow /\ reviews = <<>>
      /\ transport \in {"kafka", "pubsub"} /\ outbox = <<>> /\ relay = [r \in Relays |-> NoBatch]
      /\ log = <<>> /\ pos = 1 /\ committed = 1 /\ late = {} /\ failed = {} /\ applied = {}
      /\ overtaken = FALSE /\ address = NoAddress /\ edits = {} /\ overlapped = FALSE
  BY DEF Init, MessagingInit, AddressesInit
<1>2. Events = {} /\ Len(outbox) = 0 /\ Len(log) = 0 /\ DOMAIN log = {} /\ MaxEvents \in Nat
  BY <1>1, MessagingAssumption DEF Events
<1>3. NoBatch \in Batch /\ NoBatch.rows = {} /\ NoBatch.todo = {}
  BY DEF NoBatch, Batch
<1>4. RelayInv
  BY <1>1, <1>2, <1>3, EmptySeq DEF RelayInv
<1>5. ConsumerInv
  BY <1>1, <1>2 DEF ConsumerInv
<1>6. TopicInv /\ AddressInv
  BY <1>1, <1>2, NoAddressType DEF TopicInv, AddressInv, PointOfRow
<1>7. CopyInv
  <2>1. DetailFrom(0)
    BY <1>1, NoRowType DEF DetailFrom
  <2>2. 0 \in 0..Len(log)
    BY <1>2
  <2>3. CopiedDetail
    BY <2>1, <2>2 DEF CopiedDetail
  <2>4. OrderCopy /\ CopyAtTheEnd
    BY <1>1, NoRowType DEF OrderCopy, CopyAtTheEnd, AtTheEnd
  <2> QED
    BY <1>1, <2>3, <2>4, NoRowType DEF CopyInv, PointOfEvent
<1>8. ReviewInv
  BY <1>1, EmptySeq DEF ReviewInv, ReviewsAreEarned
<1>9. NoticeInv
  <2>1. /\ prefs = [saved |-> FALSE, enabled |-> UnsavedDefaults] /\ devices = <<>> /\ joining = {}
        /\ accepted = [ch \in Channels |-> 0] /\ delivered = accepted /\ feed = 0
    BY DEF Init, NotificationsInit
  <2>2. prefs \in [saved : BOOLEAN, enabled : SUBSET Channels] /\ "SMS" \notin prefs.enabled /\ "SMS" \in Channels
    BY <2>1 DEF UnsavedDefaults, Channels
  <2>3. NotificationsTypeOK
    BY <2>1, <2>2, EmptySeq DEF NotificationsTypeOK
  <2>4. DevicesCapped
    <3>1. \A u : Held(u) = {}
      BY <2>1 DEF Held
    <3>2. Cardinality({}) = 0 /\ ~(0 > MaxDevices)
      BY FS_EmptySet, NotificationsAssumption
    <3> QED
      BY <3>1, <3>2 DEF DevicesCapped
  <2>5. AuditIsTrue /\ SmsOnlyIfAsked
    BY <2>1, <2>2 DEF AuditIsTrue, SmsOnlyIfAsked
  <2> QED
    BY <2>1, <2>2, <2>3, <2>4, <2>5 DEF NoticeInv
<1> QED
  BY <1>4, <1>5, <1>6, <1>7, <1>8, <1>9 DEF IInv

THEOREM Invariance == Spec => []IInv
<1>1. Init => IInv
  BY InitIInv
<1>2. IInv /\ [Next]_vars => IInv'
  BY NextIInv
<1> QED
  BY <1>1, <1>2, PTL DEF Spec

\* The relays' batches never share a row, the consumer never leaves the log,
\* and every row has its type.
THEOREM TypeCorrect == Spec => []TypeOK
<1>1. IInv => TypeOK
  <2> SUFFICES ASSUME IInv PROVE TypeOK
    OBVIOUS
  <2>1. \A n \in Events : outbox[n].published \in BOOLEAN
    <3> SUFFICES ASSUME NEW n \in Events PROVE outbox[n].published \in BOOLEAN
      OBVIOUS
    <3>1. outbox[n] \in OutboxRow
      BY LogFacts, ElementOfSeq DEF IInv, RelayInv
    <3> QED
      BY <3>1 DEF OutboxRow
  <2>2. {l.message : l \in late} \subseteq DOMAIN log
    BY DEF IInv, ConsumerInv
  <2>3. MessagingTypeOK
    BY <2>1, <2>2 DEF MessagingTypeOK, IInv, RelayInv, ConsumerInv
  <2> QED
    BY <2>3 DEF TypeOK, IInv, AddressInv, CopyInv, Columns, ReviewInv, NoticeInv
<1> QED
  BY <1>1, Invariance, PTL

\* EventConsumer of shared/messaging.py: what a restart will not repeat was
\* handled, or, on Kafka only, it failed before a message that did not.
THEOREM PassedIsHandledAlways == Spec => []PassedIsHandled
<1>1. IInv => PassedIsHandled
  <2> SUFFICES ASSUME IInv, NEW k \in 1..committed - 1
               PROVE  k \in applied \/ (transport = "kafka" /\ k \in failed)
    BY DEF PassedIsHandled
  <2>1. k \in 1..pos - 1
    BY DEF IInv, ConsumerInv
  <2> QED
    BY <2>1 DEF IInv, ConsumerInv
<1> QED
  BY <1>1, Invariance, PTL

\* The handlers of every consumer.py: a service that is through with its log
\* has the columns that were sent last, however often messages were repeated.
THEOREM CopyIsCurrentAlways == Spec => []CopyIsCurrent
<1>1. IInv => CopyIsCurrent
  <2> SUFFICES ASSUME IInv, ~Informs, sub.keeps, pos > Len(log), log # <<>>, ~overtaken, Len(log) \notin failed
               PROVE  /\ ~On({"restaurant-events"}) => copy.value = Payload(Len(log)).value
                      /\ On({"address-events"}) => copy.detail = Payload(Len(log)).detail
                      /\ ~On({"address-events"}) /\ failed = {} => copy.detail = LastDetail
    BY DEF CopyIsCurrent
  <2>1. /\ ~On({"restaurant-events"}) => copy.value = Payload(Len(log)).value
        /\ On({"address-events"}) => copy.detail = Payload(Len(log)).detail
    BY DEF IInv, CopyInv, CopyAtTheEnd, AtTheEnd
  <2>2. ASSUME ~On({"address-events"}), failed = {} PROVE copy.detail = LastDetail
    <3>1. /\ DOMAIN log = 1..Len(log) /\ Len(log) \in Nat /\ pos = Len(log) + 1
      BY LogFacts DEF IInv, ConsumerInv
    <3>2. PICK k \in 0..Len(log) : DetailFrom(k)
      BY <2>2 DEF IInv, CopyInv, CopiedDetail
    <3>3. \A j \in Carriers : j \in 1..Len(log) /\ j <= k
      BY <2>2, <3>1, <3>2 DEF Carriers, DetailFrom
    <3>4. CASE k = 0
      BY <3>2, <3>3, <3>4 DEF LastDetail, DetailFrom
    <3>5. CASE k # 0
      <4>1. k \in Carriers /\ copy.detail = Payload(k).detail
        BY <3>1, <3>2, <3>5 DEF Carriers, DetailFrom
      <4>2. \A i \in Carriers : i \in Nat /\ (k <= i => i = k)
        BY <3>1, <3>2, <3>3
      <4>3. (CHOOSE i \in Carriers : \A j \in Carriers : j <= i) = k
        BY <3>3, <4>1, <4>2
      <4> QED
        BY <4>1, <4>3 DEF LastDetail
    <3> QED
      BY <3>4, <3>5
  <2> QED
    BY <2>1, <2>2
<1> QED
  BY <1>1, Invariance, PTL

\* update_address and _handle_address_event: the coordinates are those of the
\* address, in the row and in the orders service's copy, unless edits or
\* handlers overlapped.
THEOREM PointMatchesAddressAlways == Spec => []PointMatchesAddress
<1>1. IInv => PointMatchesAddress
  BY DEF IInv, AddressInv, CopyInv, PointMatchesAddress, PointOfRow, PointOfEvent
<1> QED
  BY <1>1, Invariance, PTL

\* create_review: only an order that was delivered is reviewed.
THEOREM ReviewsAreEarnedAlways == Spec => []ReviewsAreEarned
<1>1. IInv => ReviewsAreEarned
  BY DEF IInv, ReviewInv
<1> QED
  BY <1>1, Invariance, PTL

\* dispatch and the audit rows: no more deliveries on record than messages a
\* provider took.
THEOREM AuditIsTrueAlways == Spec => []AuditIsTrue
<1>1. IInv => AuditIsTrue
  BY DEF IInv, NoticeInv
<1> QED
  BY <1>1, Invariance, PTL

\* update_preferences and handle_order_status: no SMS without an opt-in.
THEOREM SmsOnlyIfAskedAlways == Spec => []SmsOnlyIfAsked
<1>1. IInv => SmsOnlyIfAsked
  BY DEF IInv, NoticeInv
<1> QED
  BY <1>1, Invariance, PTL

\* register_device: the cap on devices holds for whom no token was re-pointed
\* to and no two registrations overlapped.
THEOREM DevicesCappedAlways == Spec => []DevicesCapped
<1>1. IInv => DevicesCapped
  BY DEF IInv, NoticeInv
<1> QED
  BY <1>1, Invariance, PTL

=============================================================================
