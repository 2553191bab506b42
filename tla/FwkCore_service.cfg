SPECIFICATION FairSpec
CONSTANTS
    Slots = {s1, s2, s3}
    NoSlot = NoSlot
    Entities = {a, b}
    CookieMod = 16
    MaxCookie = 2
    LightEvents = TRUE
    LightDelays = FALSE
INVARIANTS
    Conservation
    NoLostWakeup
    DelayedCookiesUnique
PROPERTIES
    ImplementsService
    EventuallyProcessed
