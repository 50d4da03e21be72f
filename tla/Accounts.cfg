SPECIFICATION FairSpec
CONSTANTS
    Handlers = {w1, w2}
    Keys = {k1, k2}
    PaymentIds = {p1, p2}
    Nothing = Nothing
    ImportFee = 1
    MaxFaults = 2
INVARIANT ThreadHasKeyOfAccount
PROPERTY SuccessHasThread
INVARIANT OnePaymentAddress
INVARIANT OwnerIsAnswered
PROPERTY OwnerAdmitted
CHECK_DEADLOCK FALSE
