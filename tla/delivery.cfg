SPECIFICATION FairSpec
CONSTANTS
    Orders = {o1}
    Drivers = {d1, d2}
    Requests = {q1, q2}
    NoDriver = NoDriver
    Absent = Absent
    MaxReassigns = 1
INVARIANTS
    TypeOK
    AcceptedByItsDriver
    LastEventIsRow
PROPERTIES
    HandedOverStays
    DeliveredReachesOrder
    EveryReadyOrderGetsADelivery
