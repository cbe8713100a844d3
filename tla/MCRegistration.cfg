SPECIFICATION RegSpec
CONSTANTS
    Thread = {t1, t2}
    Object = {o1, o2}
    Null = Null
    Preferred <- Names
    Lists <- Plugged
    UseDefault = FALSE
    TestDevice = TRUE
    PublishMayFail = TRUE
PROPERTIES
    SyncLoginIsTrue
    LoginReturns
    DevicesPreferred
