SPECIFICATION FairPhoneSpec
CONSTANTS
    Bases = {base1, base2}
    NoBase = NoBase
    Sockets = {ws1, ws2}
    NoSocket = NoSocket
    Links = {link1}
    NoLink = NoLink
    MaxGeneration = 2
    DialLate = FALSE
PROPERTIES
    KeepsTrying
