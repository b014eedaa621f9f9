\* One role is created and another removed at the same time.
SPECIFICATION Spec
CONSTANTS
    moscow = moscow
    perm = perm
    boss = boss
    kim = kim
    super = super
    moderator = moderator
    curator = curator
    view = view
    moderate = moderate
    manage = manage
    s1 = s1
    s2 = s2
    Cities = {moscow, perm}
    Perms = {view, moderate, manage}
    ViewOf <- MCViewOf
    SuperAdmin = super
    Builtin = {super, moderator}
    Defaults <- MCDefaults
    Users = {boss, kim}
    Roles = {super, moderator, curator}
    Manage = manage
    FirstRole <- MCFirstRole
    Payloads <- MCPayloads
    Patches <- MCPatches
    Restrictions <- MCRestrictions
    Requests = {"create", "remove"}
    Slots = {s1, s2}
    MaxRequests = 3
INVARIANTS
    NoDeadlock
CHECK_DEADLOCK FALSE
