CONSTANTS
    Cookie = {c1}
    None = None
    OtpMethods = {"HOTP", "undefined"}
    OtpReasons = {"BAD_AUTHENTICATION"}
    MepKinds = {"BASIC"}
    AllocFails = TRUE
SPECIFICATION Spec
INVARIANT LoginGranted
PROPERTY LogoutComplete
