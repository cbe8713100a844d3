SPECIFICATION RegSpec
CONSTANTS
    Thread = {t1, t2}
    Object = {o1}
    Null = Null
    Preferred <- Names
    Lists <- Plugged
    UseDefault = FALSE
    TestDevice = TRUE
    PublishMayFail = TRUE
INVARIANT OptionalMayBeLeftOut
