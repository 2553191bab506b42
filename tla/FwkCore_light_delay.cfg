SPECIFICATION Spec
CONSTANTS
    Slots = {s1, s2, s3}
    NoSlot = NoSlot
    Entities = {a, b}
    CookieMod = 8
    MaxCookie = 3
    LightEvents = TRUE
    LightDelays = TRUE
SYMMETRY Symmetry
INVARIANTS
    DelayedCookiesUnique
