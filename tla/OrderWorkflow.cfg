SPECIFICATION FairSpec
CONSTANTS
    Legs = {l1, l2}
    Cancels = {c1}
    Trackings = {{}, {"isStart", "isLast"}}
    MaxRetries = 1
    RetryCount <- MCRetryCount
    MaxFaults = 1
INVARIANTS
    CarriedTripHoldsOrderTasks
    FailedOrderClosesItsTrip
    CancelClosesOrder
    TripDoneWithItsTodos
    OneTaskUnderWay
PROPERTIES
    PaidAfterDelivery
    OrderIsPlannedOrEnds
    DeliveredOrderGoesOn
CHECK_DEADLOCK FALSE
