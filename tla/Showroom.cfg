CONSTANTS
    Email = {"a@x", "b@x"}
    Phone = {}
    NoContact = "none"
    Stock = {1, 2}
    MaxParty = 2
    PartyInput <- MCPartyInput
    Vin = {"v1", "v2"}
    StockNumber = {"n1", "n2"}
    Rooftop = {"r1", "r2"}
    Build = {"b1", "b2"}
    Feature = {"f1"}
    NoBuild = "none"
    MaxStock = 2
    MaxPrice = 3
    MaxMedia = 2
    MaxTransfer = 2
    MaxPosition = 2
    Channel = {"web", "slow_channel"}
    SLOW_CHANNEL = "slow_channel"
    MaxEvent = 3
    MaxFailure = 1
    User = {"u1", "u2", "u3"}
    Works <- MCWorks
    Handoff = {"h1", "h2", "h3"}
    Snapshot <- MCSnapshot
    Booking = {"b1"}
    BookedBy <- MCBookedBy
    Clerk = {"k1", "k2"}
    Unowned = "nobody"
    MaxOpportunity = 2
    MaxDemo = 2
    MaxOwed = 1
    MaxRound = 1
    MaxVisit = 2
    Manager <- MCManager
    PPM = 100
    PAYMENT_SCALE = 100
    RuleInput <- MCRuleInput
    ScenarioInput <- MCScenarioInput
    MaxDay = 1
    MaxRule = 3
    MaxScenario = 2
    MaxAppraisal = 2
    Forever = 9
SPECIFICATION MCSpec
CHECK_DEADLOCK FALSE
INVARIANTS
    ShowroomAgrees
    DrivesAndSelectionsAreExclusive
    FiguresAddUp
PROPERTIES
    PendingListingsAreAnswered
