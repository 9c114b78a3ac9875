\* A cancellation that commits while a dispatch is under way.
CONSTANTS
    Txns = {t1, t2}
    Overriders = {t1, t2}
    Dispatches = {d1}
    Offices = {o1}
    Drivers = {a1}
    Vehicles = {v1}
    Dates = {day1}
    Volatile = {}
    None = None
    PolicyRow = PolicyRow
    MaxRevision = 0
    MaxTrail = 4
SYMMETRY Symmetry
SPECIFICATION Spec
PROPERTIES TerminalIsFinal
CHECK_DEADLOCK FALSE
