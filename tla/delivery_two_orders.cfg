SPECIFICATION Spec
CONSTANTS
    Orders = {o1, o2}
    Drivers = {d1, d2}
    Requests = {q1, q2}
    NoDriver = NoDriver
    Absent = Absent
    MaxReassigns = 0
INVARIANTS
    OneActivePerDriver
