SPECIFICATION Spec
CONSTANTS
    Requests = {r1, r2}
    Sessions <- MCSessions
    Tools <- MCTools
    Calls <- MCCalls
    Default <- MCDefault
    DenyPattern <- MCDeny
    AllowPattern <- MCAllow
    OutsideCWD <- MCOutside
    PolicyFiles <- MCFiles
    HasTimeout = TRUE
PROPERTY
    ExpiredRespondsFalse
