SPECIFICATION ScreensSpec
CONSTANTS
    Parts = {"session"}
    Tabs = {"t1"}
    People = {"ann", "kofi"}
    Nobody = "nobody"
    MaxTokens = 3
    MaxEdits = 1
    MaxCalls = 2
    TabWaits = TRUE
    MayFail = TRUE
    Viewers = {"BUYER", "SELLER"}
    Prices = {1}
    Methods = {"BANK_TRANSFER", "CASH", "PAYSTACK"}
    MaxWrites = 5
    MaxPageCalls = 2
    PageWaits = TRUE
    InOrder = TRUE
    CallsFail = FALSE
    Staff = {"ama", "kofi"}
    StaffRoles = {"MANAGER"}
    RowKinds = {"photo"}
    Others = TRUE
    Interleaved = FALSE
    DeskWaits = TRUE
    MaxClicks = 4
    MaxUploads = 2
    Users = {1, 2, 3, 4}
    Admins = {1}
    BatchSize = 2
    SendKinds = {"bulk", "inbox", "bell"}
    MaxSends = 2
    MaxDirect = 0
    Changes = {}
    OneAtATime = TRUE
PROPERTIES
    RefusalIsSeen
CHECK_DEADLOCK FALSE
