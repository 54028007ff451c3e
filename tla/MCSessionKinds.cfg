CONSTANTS
    Cookie = {c1}
    None = None
    OtpMethods = {"HOTP"}
    OtpReasons = {"BAD_AUTHENTICATION"}
    MepKinds = {"BASIC", "EXTENDED"}
    AllocFails = FALSE
SPECIFICATION Spec
INVARIANTS LoginGranted PendingResumable ResolutionTold FinalRequestByCookie
PROPERTIES CallReturns MepDecided
