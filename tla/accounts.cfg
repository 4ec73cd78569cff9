SPECIFICATION FairSpec
CONSTANTS
    Users = {u1}
    Applicants = {u1}
    Requests = {q1, q2}
    MaxMoves = 4
    Workers = {h1, h2}
INVARIANTS
    PasswordChangeEvicts
    NoSessionBeforeApproval
    OneVenuePerOwner
    MirrorsDecision
PROPERTY
    ApprovedGetsIn
CHECK_DEADLOCK FALSE
