SPECIFICATION TalkSpec
CONSTANTS
    a1 = a1
    a2 = a2
    c1 = c1
    c2 = c2
    c3 = c3
    s1 = s1
    s2 = s2
    s3 = s3
    Call = {c1, c2, c3}
    Account = {a1, a2}
    AccountOf <- TwoAccounts
    Slot = {s1, s2, s3}
    AutoAnswer = FALSE
    AnswerDelay = FALSE
    AutoUnHold = TRUE
    DeviceRefresh = TRUE
    PublishMayFail = TRUE
    DeviceMayFail = TRUE
    ToneOutlastsDial = TRUE
    ToneMayFail = FALSE
    NoSlot = NoSlot
    PortMayFail = {c3}
    Agreed = {"ACTIVE"}
    Nobody = Nobody
    Transport = "tls"
    Dialled <- Texts
    Header <- Headers
    OwnDomain = "own"
    Unknown <- UnknownName
INVARIANTS
    ListedObjectExists
    ListedIsKnownToPJSIP
    OngoingIsListed
    RingsOnlyWhileEarly
    ShownAsTyped
PROPERTIES
    SuccessIsDone
    NullChangesNothing
\* The call objects are used up in the end, and a request may end in undefined
\* behaviour: the model may then rest.
CHECK_DEADLOCK FALSE
