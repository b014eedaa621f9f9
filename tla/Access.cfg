\* Users and roles: any three requests, two at once.
SPECIFICATION FairSpec
CONSTANTS
    moscow = moscow
    perm = perm
    boss = boss
    kim = kim
    super = super
    moderator = moderator
    curator = curator
    view = view
    moderate = moderate
    manage = manage
    s1 = s1
    s2 = s2
    Cities = {moscow, perm}
    Perms = {view, moderate, manage}
    ViewOf <- MCViewOf
    SuperAdmin = super
    Builtin = {super, moderator}
    Defaults <- MCDefaults
    Users = {boss, kim}
    Roles = {super, moderator, curator}
    Manage = manage
    FirstRole <- MCFirstRole
    Payloads <- MCPayloads
    Patches <- MCPatches
    Restrictions <- MCRestrictions
    Requests = {"visit", "create", "remove", "put", "overrides", "role", "cities", "active", "new", "delete"}
    Slots = {s1, s2}
    MaxRequests = 3
INVARIANTS
    TypeOK
    OverridesWereGiven
    OverridesStick
    RestrictedStays
PROPERTIES
    RequestsEnd
CHECK_DEADLOCK FALSE
