\* Two sessions, two issuances; a driver goes out of and into service, and the
\* allocation is edited, closed, cancelled, deleted and restored meanwhile.
CONSTANTS
    Txns = {t1, t2}
    Issuances = {i1, i2}
    Drivers = {d1}
    Vehicles = {v1}
    Offices = {o1, o2}
    Allocations = {a1}
    FuelTypes = {diesel}
    Quantities = {1, 2}
    m1 = m1
    m2 = m2
    q1 = q1
    q2 = q2
    Dates <- TwoDays
    Months = {m1, m2}
    MonthOf <- TwoMonths
    Periods = {q1, q2}
    PeriodOf <- TwoQuarters
    Volatile = {d1, a1}
    None = None
SPECIFICATION Spec
SYMMETRY Symmetry
INVARIANTS NumbersDense LedgerAgrees BalancesAgree
PROPERTIES PostedAgainstEligible ImplementsBook
