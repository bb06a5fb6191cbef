SPECIFICATION Spec
CONSTANTS
    None = None
    Phones = {phone1,phone2}
    Urls = {relay1,relay2}
    MaxOffers = 2
    MaxTasks = 7
    Calls = {1}
    Overlap = FALSE
    ApplyBusy = FALSE
    DiskFails = TRUE
INVARIANTS
    TypeOK
    BridgeIsHonest
