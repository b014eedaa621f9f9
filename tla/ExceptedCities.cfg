\* A role is configured to moderate everywhere but in one city.
SPECIFICATION Spec
CONSTANTS
    moscow = moscow
    perm = perm
    boss = boss
    kim = kim
    super = super
    moderator = moderator
    curator = curator
    view = view
    moderate = moderate
    manage = manage
    s1 = s1
    s2 = s2
    Cities = {moscow, perm}
    Perms = {view, moderate, manage}
    ViewOf <- MCViewOf
    SuperAdmin = super
    Builtin = {super, moderator}
    Defaults <- MCDefaults
    Users = {boss, kim}
    Roles = {super, moderator, curator}
    Manage = manage
    FirstRole <- MCFirstRole
    Payloads <- MCExcept
    Patches <- MCPatches
    Restrictions <- MCRestrictions
    Requests = {"put", "visit"}
    Slots = {s1}
    MaxRequests = 3
INVARIANTS
    ExceptedCitiesHold
CHECK_DEADLOCK FALSE
