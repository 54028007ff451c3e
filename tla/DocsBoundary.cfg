SPECIFICATION Spec
CONSTANTS
    Null = Null
    MaxContent = 0
    Byte <- MCByte
    Letter <- MCLetter
    LowerCase <- MCLowerCase
    FieldName <- MCFieldName
    MultipartRelated <- MCMultipartRelated
    SoapType <- MCSoapType
    Documents <- MCDocuments
    Responses <- BoundaryLast
INVARIANTS
    BoundaryAsSent
CHECK_DEADLOCK FALSE
