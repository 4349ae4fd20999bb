CONSTANTS
    c1 = c1
    c2 = c2
    p1 = p1
    p2 = p2
    l1 = l1
    l2 = l2
    s1 = s1
    s2 = s2
    Customers = {c1}
    Pros = {p1, p2}
    Leads = {l1}
    Slots = {s1, s2}
    SlotPro <- SlotPro2
    Healer = Healer
    Sla = Sla
    Admin = Admin
    NoLead = NoLead
    NoPro = NoPro
    NoSlot = NoSlot
    MaxReassignments = 1
    Overlap <- ProsAndHealer
    MaxInFlight = 2
    MaxCrashes = 0
SPECIFICATION Spec
CHECK_DEADLOCK FALSE
PROPERTIES
    BookingIsKept
