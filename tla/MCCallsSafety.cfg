SPECIFICATION Spec
CONSTANTS
    a1 = a1
    a2 = a2
    c1 = c1
    c2 = c2
    c3 = c3
    s1 = s1
    s2 = s2
    s3 = s3
    Call = {c1, c2, c3}
    Account = {a1}
    AccountOf <- OneAccount
    Slot = {s1, s2, s3}
    AutoAnswer = FALSE
    AnswerDelay = FALSE
    AutoUnHold = TRUE
    DeviceRefresh = TRUE
    PublishMayFail = FALSE
    DeviceMayFail = FALSE
    ToneOutlastsDial = TRUE
    ToneMayFail = TRUE
    NoSlot = NoSlot
    Agreed = {"ACTIVE"}
SYMMETRY Symmetry
INVARIANTS
    TypeOK
    ToneMatchesCount
    HeardUnlessCut
    QuietWhenIdle
PROPERTIES
    AcceptedDialHoldsOthers
\* The call objects are used up in the end: the phone may then rest.
CHECK_DEADLOCK FALSE
