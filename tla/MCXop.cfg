SPECIFICATION Spec
CONSTANTS
    Null = Null
    MaxContent = 4
    Byte <- MCByte
    Letter <- MCLetter
    LowerCase <- MCLowerCase
    FieldName <- MCFieldName
    MultipartRelated <- MCMultipartRelated
    SoapType <- MCSoapType
    Documents <- MCDocuments
    Responses <- MCResponses
INVARIANTS
    TypeOK
    NoByteLost
    PartsArrive
    DownloadedAsSent
    NothingInvented
CHECK_DEADLOCK FALSE
