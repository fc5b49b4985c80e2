CONSTANTS
    Tenant = {"t1", "t2"}
    Platform = "platform"
    Unit = {"g1", "e1", "r1"}
    UnitLevel <- MCUnitLevel
    UnitParent <- MCUnitParent
    Resource = {"ro1"}
    ResourceUnit <- MCResourceUnit
    Connection = {"c1", "c2", "c3"}
    ProviderOrg = {"o0", "o1", "o2"}
    Issuer = {"i1", "i2"}
    TrustedIssuer = "i1"
    Link = {"s1", "a1", "b1"}
    Subject = {"ann", "bob", "sue"}
    Action = {"identity.support.approve", "identity.support.revoke",
        "identity.connection.certify_mfa_policy", "platform.connection.certify_mfa_policy",
        "platform.support.request", "ro.view"}
    Catalog <- MCCatalog
    TENANT_ADMIN_ROLE = "admin"
    Nobody = Nobody
    Validity = 1
    Duration = 2
    RequestInput <- MCRequestInput
    PolicyInput <- MCPolicyInput
    MaxRequest = 1
    MaxDecision = 1
    Identity <- MCIdentity
    Bearer = {"p1", "p2"}
    BearerToken <- MCBearerToken
    LoginTtl = 2
    SessionTtl = 2
    MaxLogin = 2
    MaxSession = 2
    Key = {"k1"}
    Command <- MCCommand
    Clerk = {"w1", "w2"}
    Email = {"a@x", "b@x"}
    Policy = {"p1"}
    PolicyValue = {"v1", "v2"}
    MaxVersion = 2
    MaxInvitation = 2
    MaxFailure = 2
SPECIFICATION MCSpec
CHECK_DEADLOCK FALSE
INVARIANTS
    AccessIsWellFormed
    SessionsHaveOneOrigin
    CommandsRunOnce
PROPERTIES
    SupportEndsForGood
    LoginsEnd
    InvitationsAreAnnounced
