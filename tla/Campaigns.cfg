CONSTANTS
    Email = {"a@x", "b@x", "c@x"}
    Phone = {"555"}
    NoContact = "none"
    Stock = {"s1"}
    MaxParty = 3
    PartyInput <- MCPartyInput
    Source = {"web"}
    Queue = {"q1"}
    Owner = {"u1"}
    Interest = {"general"}
    IntakeKey <- MCIntakeKey
    Capturer = {"c1", "c2"}
    Logger = {"g1"}
    MaxLead = 2
    MaxActivity = 1
    MaxBooking = 1
    ActivityInput <- MCActivityInput
    SlaInput <- MCSlaInput
    CaptureInput <- MCCaptureInput
    Nobody = "nobody"
    Dispatcher = {"d1", "d2"}
    MaxVersion = 1
    MaxCrash = 1
    MAX_ATTEMPTS = 2
    Backoff = 1
    Day = 5
    ClockChange = 1
    tenantLimit = 2
    MaxAhead = 2
    QuietHours <- MCQuietHours
    Purpose = "sales_marketing"
    CampaignSource = "web"
SPECIFICATION MCSpec
CHECK_DEADLOCK FALSE
INVARIANTS
    CustomersAndLeadsAgree
    SendsAreMeasured
PROPERTIES
    CrmFinishes
