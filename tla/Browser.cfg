\* A user of any seeded role but the super administrator's; two slots, three dates, two exports, a book of
\* three issuances and three dispatches of two days, and lists of up to three records, one to a page.
CONSTANTS
    UserRoles <- Users
    Slots = {1, 2}
    MaxConflicts = 2
    Dates = {"d1", "d2", "d3"}
    Allocations = {"a1", "a2", "a3"}
    Quarter <- TwoQuarters
    Jobs = {e1, e2}
    Issuances <- ThreeIssuances
    Trips <- ThreeTrips
    Offices = {1, 2}
    Requests <- AskedFor
    Days = {1, 4}
    PeriodDays <- ShortPeriods
    MaximumRows = 2
    CountedRows = 1
    MaxChanges = 2
    Resources = {"office", "driver", "issuance", "allocation"}
    Records = {1, 2, 3}
    Registered <- FirstRows
    Names = {1, 2}
    Views <- ListViews
    PageSize = 1
    MaxEdits = 2
SPECIFICATION Spec
INVARIANTS OffersHold NoSelfLockout FreshAfterSave
INVARIANTS AckIsReviewed GuidanceIsCurrent SelectionIsListed AsksOnce
INVARIANTS NothingMissed TotalsAgree WalkMissesNothing TrailTells
PROPERTY SignInLeadsOn
