CONSTANTS
    Cookie = {c1}
    None = None
    OtpMethods = {"TOTP"}
    OtpReasons = {"BAD_AUTHENTICATION"}
    MepKinds = {"BASIC"}
    AllocFails = FALSE
SPECIFICATION Spec
INVARIANT FreedMeansClosed
