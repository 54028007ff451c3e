CONSTANTS
    Cookie = {c1, c2}
    None = None
    OtpMethods = {"TOTP"}
    OtpReasons = {"BAD_AUTHENTICATION"}
    MepKinds = {"BASIC"}
    AllocFails = FALSE
SPECIFICATION Spec
SYMMETRY CookieSymmetry
INVARIANTS
    TypeOK SecretsWiped LoginGranted PendingResumable ResolutionTold ServiceUrls
    FinalRequestByCookie
PROPERTIES LogoutComplete KeepsContract
