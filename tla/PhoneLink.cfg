SPECIFICATION PhoneSpec
CONSTANTS
    Bases = {base1, base2}
    NoBase = NoBase
    Sockets = {ws1, ws2}
    NoSocket = NoSocket
    Links = {link1, link2}
    NoLink = NoLink
    MaxGeneration = 3
    DialLate = FALSE
SYMMETRY Symmetry
INVARIANTS
    PhoneTypeOK
    LinksAreHonest
