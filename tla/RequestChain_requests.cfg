SPECIFICATION Spec
CONSTANTS
    s1 = s1
    s2 = s2
    u1 = u1
    None = None
    Slots = {s1, s2}
    Users = {u1}
    Traffic <- Families
    TTL = 1
    MaxStall = 1
    MaxTokens = 2
SYMMETRY Symmetry
INVARIANTS
    StatusLogged
    SessionDelivered
    SessionUserChecked
    RolesBounded
    PageAsFiles
    HardenedResponses
