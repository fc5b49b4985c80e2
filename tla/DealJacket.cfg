CONSTANTS
    TemplateInput <- MCTemplateInput
    RequirementInput <- MCRequirementInput
    RetentionInput <- MCRetentionInput
    MaxTime = 3
    tenantLimit = 2
    MaxAhead = 2
    MaxScenario = 2
    MaxParty = 1
    MaxPackage = 2
    TokenTTL = 1
    CeremonyTTL = 2
    ProviderEvent = {"e1"}
    ProviderClaim = {"viewed"}
SPECIFICATION MCSpec
CHECK_DEADLOCK FALSE
INVARIANTS
    JacketIsWellFormed
    CeremonyMatchesPackage
PROPERTIES
    SignaturesStand
    CeremoniesEnd
