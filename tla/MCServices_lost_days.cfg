SPECIFICATION ServicesSpec
CONSTANTS
    Parts = {"plans"}
    ListingHandlers <- AllEndpoints
    ownerOf <- KofiOwns
    ListingLimit <- OneCar
    Vehicles = {c1}
    Sellers = {kofi}
    Editors = {h0}
    MaxContent = 2
    Callers = {h0}
    Prices = {1, 2}
    Asking = 2
    MaxOffers = 2
    Payments = {p1, p2}
    Workers = {h1, h2}
    Duration = 2
    FreeDays = 3
    LastDay = 1
    Outcomes = {"success"}
    Processes = {h1}
    DayTicks = 4
    BootDelay = 1
    Delay = 0
    Restarts = 0
    Horizon = 1
    Handlers = {h0}
    TicksPerSecond = 2
    LastTick = 1
    MaxTokens = 1
    MaxChanges = 1
    Cars = {c1, c2}
    Featured = {c1}
    Queries = {"sorted"}
    PurchaseWrites = FALSE
    MaxWrites = 2
    MaxReads = 2
    MaxRestarts = 0
    Orders = {r1, r2}
    Tabs = {b1, b2}
    Stars = {2, 5}
    h0 = h0
    h1 = h1
    h2 = h2
    kofi = kofi
    c1 = c1
    c2 = c2
    c3 = c3
    p1 = p1
    p2 = p2
    r1 = r1
    r2 = r2
    b1 = b1
    b2 = b2
    Nobody = Nobody
    NoAmount = NoAmount
PROPERTIES
    EachPaymentAdds
CHECK_DEADLOCK FALSE
