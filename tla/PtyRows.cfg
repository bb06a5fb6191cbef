SPECIFICATION FairRowsSpec
CONSTANTS
    Texts = {text1,text2}
    Blank = Blank
    Heights = {1,2}
    FirstHeight = 1
    Scrollback = 1
    Cap = 2
    TailSize = 1
    NoCursor = NoCursor
    MaxOutput = 2
    ScrollBusy = FALSE
    Reruns = FALSE
INVARIANTS
    RowsTypeOK
    RowsAreHonest
PROPERTIES
    RowsArrive
