SPECIFICATION Spec
CONSTANTS
    NoRow = NoRow
    Idle = Idle
    Slot = {s1, s2}
    User = {owner, staff}
    Org = {seeded, demo, acme}
    Key = {k1}
    Copy = {1, 2, 3}
    Owner = owner
    Staff = staff
    Seeded = seeded
    Demo = demo
    NoOrg = NoOrg
    Serial <- OneAtATime
    MaxRequests = 3
SYMMETRY Slots
INVARIANTS
    ATypeOK
    TrailTellsRows
    OrganizationHistory
    OrganizationsAreFounded
    SettingsAreAudited
    StaleClaimsAreOnRecord
PROPERTIES
    SeedAddsOnly
    RevokedKeysAreDead
CHECK_DEADLOCK FALSE
