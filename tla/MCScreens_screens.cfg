SPECIFICATION ScreensSpec
CONSTANTS
    Parts = {"chat", "two events", "rough chat", "order", "desk", "desk on users", "desk on orders", "two desks", "pager", "eager pager", "broadcast", "users leave", "users deleted", "session"}
    Tabs = {"t1"}
    People = {"ann", "kofi"}
    Nobody = "nobody"
    MaxTokens = 3
    MaxEdits = 1
    MaxCalls = 2
    TabWaits = TRUE
    MayFail = TRUE
    Viewers = {"BUYER", "SELLER"}
    Prices = {1}
    Methods = {"BANK_TRANSFER", "CASH", "PAYSTACK"}
    MaxWrites = 4
    MaxPageCalls = 2
    PageWaits = FALSE
    InOrder = TRUE
    CallsFail = FALSE
    Staff = {"ama", "kofi"}
    StaffRoles = {"MANAGER"}
    RowKinds = {"photo"}
    Others = TRUE
    Interleaved = FALSE
    DeskWaits = TRUE
    MaxClicks = 4
    MaxUploads = 2
    Users = {1, 2, 3, 4}
    Admins = {1}
    BatchSize = 2
    SendKinds = {"bulk", "inbox", "bell"}
    MaxSends = 2
    MaxDirect = 0
    Changes = {}
    OneAtATime = TRUE
INVARIANTS
    ScreenTypes
    BadgesAreRight
    OfferedIsAccepted
    DeskIsTrue
    OneVerdictPerUpload
    EveryoneReached
    ActsAsShown
PROPERTIES
    PageNeverGoesBack
CHECK_DEADLOCK FALSE
