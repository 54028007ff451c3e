SPECIFICATION Spec
CONSTANTS
    Null = Null
    MaxText = 3
    Word <- MCWord
    Encoded <- MCEncoded
    Resolution <- MCResolution
    Calls <- MCCalls
INVARIANTS
    TypeOK
    FirstHeadDecoded
    NoStaleResolution
CHECK_DEADLOCK FALSE
