SPECIFICATION RoundsSpec
CONSTANTS
    i1 = i1
    e1 = e1
    i2 = i2
    e2 = e2
    sa = sa
    ad = ad
    sb = sb
    bd = bd
    LinkOrder <- MCLinkOrder
    Capacity <- MCCapacity
    Routes <- MCRoutes
    Bookings <- MCBookings
    Requests <- MCRequests
    Now = 1
    MAX_ATS_SIZE = 50
    Horizon = 5
INVARIANTS SeriesExact NoOverbooking FailsForAReason
PROPERTIES GivesBack
CHECK_DEADLOCK FALSE
