\* Two days, between which drafts are moved; a driver that goes out of service and back;
\* a policy that turns to BLOCK and back.
CONSTANTS
    Txns = {t1, t2}
    Overriders = {t1, t2}
    Dispatches = {d1, d2}
    Offices = {o1}
    Drivers = {a1}
    Vehicles = {v1}
    Dates = {day1, day2}
    Volatile = {a1}
    None = None
    PolicyRow = PolicyRow
    MaxRevision = 2
    MaxTrail = 3
SYMMETRY Symmetry
SPECIFICATION Spec
INVARIANTS NoUnacknowledgedDoubleBooking TrailIsLegal
PROPERTIES BlockAddsNoConflict AcknowledgmentIsCurrent DispatchedResourcesOperational
CHECK_DEADLOCK FALSE
