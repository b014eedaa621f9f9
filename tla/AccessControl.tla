----------------------------- MODULE AccessControl -----------------------------
(***************************************************************************)
(* The users and the roles of the panel: requests that read a user's row   *)
(* and the role settings, change them and commit.                          *)
(*                                                                         *)
(* A request is a transaction of several statements.  It reads committed   *)
(* rows; a row it has updated is locked for the other requests' updates    *)
(* until it commits, and they then write what they computed before.        *)
(* roles.permissions is read once, when the request authenticates: the     *)
(* session keeps the row, so later reads of it return that one.            *)
(***************************************************************************)
EXTENDS CityScopes, Sequences

CONSTANTS
    Users, Roles,
    Manage,             \* Permission.USER_MANAGE
    FirstRole,          \* of a user that exists in the beginning
    Payloads,           \* what is put as roles.permissions
    Patches,            \* the overrides given to users
    Restrictions,       \* the values given to city_access
    Requests,           \* "visit", "create", "remove", "put", "overrides", "role", "cities", "active", "new", "delete"
    Slots,              \* requests in progress at once
    MaxRequests         \* bound

ASSUME AccessAssumption ==
    /\ Builtin \subseteq Roles /\ Manage \in Perms
    /\ Users # {} /\ DOMAIN FirstRole \subseteq Users /\ \A u \in DOMAIN FirstRole : FirstRole[u] \in Builtin
    /\ \A t \in Payloads : DOMAIN t \subseteq Roles /\ \A r \in DOMAIN t : t[r] \in Config
    /\ Patches \subseteq Overrides /\ Restrictions \subseteq SUBSET Cities
    /\ MaxRequests \in Nat

VARIABLES
    setting,        \* the committed rows of the settings table about roles
    user,           \* the committed rows of users
    req,            \* the requests in progress
    requests,       \* how many there have been
    told,           \* of a user: the overrides an editor set last (history)
    given,          \* of a user: what was ever granted or denied, personally or by a role (history)
    crossed         \* the users whose row two requests had open at once (history)

accessVars == <<setting, user, req, requests, told, given, crossed>>

Keys == {"custom", "deleted", "labels", "perms"}
Columns == {"exists", "active", "role", "overrides", "cities"}
Empty == [k \in {} |-> {}]

NoUser == [exists |-> FALSE, active |-> FALSE, role |-> SuperAdmin, overrides |-> NoOverrides, cities |-> {}]
Idle == [steps |-> <<>>, op |-> "visit", actor |-> CHOOSE u \in Users : TRUE,
         target |-> CHOOSE u \in Users : TRUE, role |-> SuperAdmin, value |-> {},
         me |-> NoUser, mine |-> NoUser, row |-> NoUser,
         seen |-> [custom |-> {}, deleted |-> {}, labels |-> {}, perms |-> Empty],
         writes |-> Empty, edits |-> Empty]

ConfigOf(perms, role) == IF role \in DOMAIN perms THEN perms[role] ELSE NoConfig

Init ==
    /\ setting = [custom |-> {}, deleted |-> {}, labels |-> Builtin, perms |-> Empty]
    /\ user = [u \in Users |-> IF u \in DOMAIN FirstRole
                               THEN [NoUser EXCEPT !.exists = TRUE, !.active = TRUE, !.role = FirstRole[u]]
                               ELSE NoUser]
    /\ req = [s \in Slots |-> Idle]
    /\ requests = 0
    /\ told = [u \in Users |-> NoOverrides]
    /\ given = [u \in Users |-> NoOverrides]
    /\ crossed = {}

-------------------------------------------------------------------------------
(* The beginning of a request: get_current_user and require_permission. *)

RowOps == {"overrides", "role", "cities", "active", "new", "delete"}
Open == {s \in Slots : req[s].steps # <<>>}
Touches(r) == {r.actor} \cup (IF r.op \in RowOps THEN {r.target} ELSE {})

\* `me` is the row as read, `mine` with the role's grants and denials added.
Begin(s, actor, op, more, steps) ==
    LET cfg == ConfigOf(setting.perms, user[actor].role)
        r == [Idle EXCEPT !.op = op, !.actor = actor, !.steps = steps,
                          !.target = more.target, !.role = more.role, !.value = more.value,
                          !.me = user[actor], !.mine = Merged(user[actor], cfg),
                          !.seen.perms = setting.perms] IN
    /\ op \in Requests /\ requests < MaxRequests
    /\ s \notin Open
    /\ user[actor].exists /\ user[actor].active
    /\ op = "visit" \/ UserHasPermission(r.mine, Manage, cfg)
    /\ req' = [req EXCEPT ![s] = r]
    /\ requests' = requests + 1
    /\ crossed' = crossed \cup (Touches(r) \cap UNION {Touches(req[t]) : t \in Open})
    /\ UNCHANGED <<setting, user, told, given>>

About(u, role, value) == [target |-> u, role |-> role, value |-> value]
Reads(k) == <<"read", k>>
Writes(k) == <<"write", k>>
Me == <<"me", "">>
Done == <<"commit", "">>

\* Whatever else a signed-in user does.
Visit(s, a) == Begin(s, a, "visit", About(a, SuperAdmin, {}), <<Me, Done>>)

\* POST /users/roles
CreateRole(s, a, role) ==
    /\ role \notin Builtin
    /\ Begin(s, a, "create", About(a, role, {}),
             <<Reads("custom"), Me, Writes("custom"), Reads("labels"), Writes("labels"), Writes("perms"), Done>>)

\* DELETE /users/roles/{role}
DeleteRole(s, a, role) ==
    /\ role # SuperAdmin
    /\ LET list == IF role \in Builtin THEN "deleted" ELSE "custom" IN
       Begin(s, a, "remove", About(a, role, {}),
             <<Reads(list), Me, Writes(list), Writes("perms"), Reads("labels"), Writes("labels"), Done>>)

\* PUT /users/role-permissions
SetRolePermissions(s, a, payload) ==
    Begin(s, a, "put", About(a, SuperAdmin, payload), <<Reads("custom"), Me, Writes("perms"), Done>>)

\* PATCH /users/{u}, POST /users, DELETE /users/{u}
UpdateUser(s, a, u, op, value) ==
    /\ op \in {"overrides", "role", "cities", "active"}
    /\ Begin(s, a, op, About(u, SuperAdmin, value),
             IF op = "role" THEN <<Reads("row"), Reads("custom"), Me, Writes("row"), Done>>
             ELSE <<Reads("row"), Me, Writes("row"), Done>>)
CreateUser(s, a, u, role) ==
    Begin(s, a, "new", About(u, SuperAdmin, role), <<Reads("row"), Reads("custom"), Me, Writes("row"), Done>>)
DeleteUser(s, a, u) ==
    Begin(s, a, "delete", About(u, SuperAdmin, {}), <<Reads("row"), Me, Writes("row"), Done>>)

-------------------------------------------------------------------------------
(* The statements. *)

Next1(r) == Head(r.steps)
Rest(r) == [r EXCEPT !.steps = Tail(@)]
Takes(s, verb) == s \in Open /\ Next1(req[s])[1] = verb
Subject(s) == Next1(req[s])[2]

\* The rows other requests have updated and not committed.
HeldKeys(s) == UNION {DOMAIN req[t].writes : t \in Slots \ {s}}
\* The slip: the user is updated in a session of its own, beside the request's.
HeldBySelf(s) == IF s \in Slots THEN UNION {DOMAIN req[t].edits : t \in Slots} ELSE {}

HeldUsers(s) == UNION {DOMAIN req[t].edits : t \in Slots \ {s}}

\* The refusals: a role that exists or does not, an unknown role, a user that
\* exists or does not.  The exception rolls everything back.
Refused(r, k) ==
    \/ k = "custom" /\ r.op = "create" /\ r.role \in setting.custom
    \/ k = "custom" /\ r.op = "remove" /\ r.role \notin setting.custom
    \/ k = "custom" /\ r.op \in {"role", "new"} /\ r.value \notin Builtin \cup setting.custom
    \/ k = "row" /\ user[r.target].exists = (r.op = "new")

Read(s) ==
    LET r == req[s]
        k == Subject(s) IN
    /\ Takes(s, "read")
    /\ req' = [req EXCEPT ![s] =
                  IF Refused(r, k) THEN Idle
                  ELSE IF k = "row"
                  THEN [Rest(r) EXCEPT !.row = IF r.target = r.actor THEN r.mine ELSE user[r.target]]
                  ELSE [Rest(r) EXCEPT !.seen[k] = setting[k]]]
    /\ UNCHANGED <<setting, user, requests, told, given, crossed>>

With(f, x, y) == [z \in DOMAIN f \cup {x} |-> IF z = x THEN y ELSE f[z]]
Without(f, x) == [z \in DOMAIN f \ {x} |-> f[z]]

\* The slip: the payload is saved as it comes.
NewValueUnchecked(r, k) ==
    IF r.op = "put" THEN r.value
    ELSE IF r.op = "create" /\ k = "perms" THEN With(r.seen.perms, r.role, NoConfig)
    ELSE IF k = "perms" THEN Without(r.seen.perms, r.role)
    ELSE IF r.op = "create" \/ k = "deleted" THEN r.seen[k] \cup {r.role} ELSE r.seen[k] \ {r.role}

\* What the request makes of a setting.
NewValue(r, k) ==
    LET old == r.seen[k] IN
    CASE r.op = "create" -> IF k # "perms" THEN old \cup {r.role}
                            ELSE IF r.role \in DOMAIN old THEN old ELSE With(old, r.role, NoConfig)
      [] r.op = "remove" -> CASE k = "deleted" -> old \cup {r.role}
                              [] k = "perms" -> IF r.role \in Builtin THEN With(old, r.role, DenyAll)
                                                ELSE Without(old, r.role)
                              [] OTHER -> old \ {r.role}
      [] r.op = "put" -> [role \in DOMAIN r.value \cap ((Builtin \cup r.seen.custom) \ {SuperAdmin}) |-> r.value[role]]

\* SettingsService.set: an UPDATE, if the value is another than the one read.
WriteSetting(s) ==
    LET r == req[s]
        k == Subject(s)
        new == NewValue(r, k) IN
    /\ Takes(s, "write") /\ k \in Keys
    /\ \/ new = r.seen[k] /\ req' = [req EXCEPT ![s] = Rest(r)]
       \/ new # r.seen[k] /\ k \notin HeldKeys(s)
          /\ req' = [req EXCEPT ![s] = [Rest(r) EXCEPT !.writes = With(@, k, new)]]
    /\ UNCHANGED <<setting, user, requests, told, given, crossed>>

Edited(r, u, column, value) ==
    With(r.edits, u, With(IF u \in DOMAIN r.edits THEN r.edits[u] ELSE Empty, column, value))

\* An UPDATE of a row that is gone raises.
AfterUpdate(r, u, edits) == IF user[u].exists THEN [Rest(r) EXCEPT !.edits = edits] ELSE Idle

\* The merged overrides are written back if they differ from those read, if
\* only in the order of a list, or as {} differs from two empty lists.
Reordered(o) == Cardinality(o.grant) > 1 \/ Cardinality(o.deny) > 1 \/ o = NoOverrides

WriteMine(s) ==
    LET r == req[s] IN
    /\ Takes(s, "me")
    /\ \/ r.mine = r.me /\ req' = [req EXCEPT ![s] = Rest(r)]
       \/ /\ r.mine # r.me \/ (r.mine.role \in DOMAIN r.seen.perms /\ Reordered(r.mine.overrides))
          /\ r.actor \notin HeldUsers(s)
          /\ req' = [req EXCEPT ![s] =
                        AfterUpdate(r, r.actor, Edited(r, r.actor, "overrides", r.mine.overrides))]
    /\ UNCHANGED <<setting, user, requests, told, given, crossed>>

\* Only the columns whose value differs from the one read are written.
NewUser(role) ==
    [c \in Columns |-> CASE c = "role" -> role [] c \in {"exists", "active"} -> TRUE [] OTHER -> NoUser[c]]

WriteUser(s) ==
    LET r == req[s] IN
    /\ Takes(s, "write") /\ Subject(s) = "row"
    /\ \/ /\ r.op \in Columns /\ r.row[r.op] = r.value
          /\ req' = [req EXCEPT ![s] = Rest(r)]
       \/ /\ r.op \in Columns /\ r.row[r.op] # r.value
          /\ r.target \notin HeldUsers(s)
          /\ req' = [req EXCEPT ![s] = AfterUpdate(r, r.target, Edited(r, r.target, r.op, r.value))]
       \/ /\ r.op = "new"
          /\ r.target \notin HeldUsers(s)
          /\ req' = [req EXCEPT ![s] = IF user[r.target].exists THEN Idle
                                       ELSE [Rest(r) EXCEPT !.edits = With(@, r.target, NewUser(r.value))]]
       \/ /\ r.op = "delete"
          /\ r.target \notin HeldUsers(s)
          /\ req' = [req EXCEPT ![s] = AfterUpdate(r, r.target, Edited(r, r.target, "exists", FALSE))]
    /\ UNCHANGED <<setting, user, requests, told, given, crossed>>

\* A row under the columns in `writes`.
Over(row, writes) == [c \in DOMAIN row |-> IF c \in DOMAIN writes THEN writes[c] ELSE row[c]]

\* What role `role` adds to `g` under the configurations `perms`.
Adds(g, perms, role) ==
    LET config == ConfigOf(perms, role) IN
    [grant |-> g.grant \cup config.grant, deny |-> g.deny \cup config.deny]

Commit(s) ==
    LET r == req[s]
        After(u) == IF u \in DOMAIN r.edits THEN Over(user[u], r.edits[u]) ELSE user[u] IN
    /\ Takes(s, "commit")
    /\ setting' = Over(setting, r.writes)
    /\ user' = [u \in Users |-> IF After(u).exists THEN After(u) ELSE NoUser]
    /\ told' = [u \in Users |-> IF ~user'[u].exists THEN NoOverrides
                                ELSE IF r.op = "overrides" /\ r.target = u THEN r.value ELSE told[u]]
    /\ given' = [u \in Users |->
                    LET g == IF r.op = "overrides" /\ r.target = u
                             THEN [grant |-> given[u].grant \cup r.value.grant, deny |-> given[u].deny \cup r.value.deny]
                             ELSE given[u]
                    IN  Adds(g, setting'.perms, user'[u].role)]
    /\ req' = [req EXCEPT ![s] = Idle]
    /\ UNCHANGED <<requests, crossed>>

\* The request whose next update waits for a row that t has updated.
WaitsFor(s, t) ==
    LET r == req[s] IN
    /\ s \in Open /\ t \in Open /\ s # t
    /\ \/ Takes(s, "me") /\ r.mine # r.me /\ r.actor \in DOMAIN req[t].edits
       \/ Takes(s, "write") /\ Subject(s) = "row" /\ r.target \in DOMAIN req[t].edits
          /\ (r.op \in Columns => r.row[r.op] # r.value)
       \/ Takes(s, "write") /\ Subject(s) \in Keys \cap DOMAIN req[t].writes
          /\ NewValue(r, Subject(s)) # r.seen[Subject(s)]

\* Two requests wait for each other: PostgreSQL aborts one.
Aborted(s) ==
    /\ \E t \in Slots : WaitsFor(s, t) /\ WaitsFor(t, s)
    /\ req' = [req EXCEPT ![s] = Idle]
    /\ UNCHANGED <<setting, user, requests, told, given, crossed>>

-------------------------------------------------------------------------------
Step(s) == Read(s) \/ WriteSetting(s) \/ WriteMine(s) \/ WriteUser(s) \/ Commit(s) \/ Aborted(s)

Asks(s, a) ==
    \/ Visit(s, a)
    \/ \E role \in Roles : CreateRole(s, a, role) \/ DeleteRole(s, a, role)
    \/ \E t \in Payloads : SetRolePermissions(s, a, t)
    \/ \E u \in Users :
          \/ \E o \in Patches : UpdateUser(s, a, u, "overrides", o)
          \/ \E role \in Roles : UpdateUser(s, a, u, "role", role) \/ CreateUser(s, a, u, role)
          \/ \E cities \in Restrictions : UpdateUser(s, a, u, "cities", cities)
          \/ \E on \in BOOLEAN : UpdateUser(s, a, u, "active", on)
          \/ DeleteUser(s, a, u)

Next == \E s \in Slots : Step(s) \/ \E a \in Users : Asks(s, a)

Spec == Init /\ [][Next]_accessVars
Fairness == \A s \in Slots : WF_accessVars(Step(s))
FairSpec == Spec /\ Fairness

-------------------------------------------------------------------------------
(* Properties. *)

Statements == ({"read", "write"} \X (Keys \cup {"row"})) \cup {Me, Done}
Operations == RowOps \cup {"visit", "create", "remove", "put"}

UserRow == [exists : BOOLEAN, active : BOOLEAN, role : Roles, overrides : Overrides, cities : SUBSET Cities]

SettingOK(t) ==
    /\ DOMAIN t = Keys
    /\ t.custom \subseteq Roles \ Builtin /\ t.deleted \subseteq Builtin /\ t.labels \subseteq Roles
    /\ DOMAIN t.perms \subseteq Roles \ {SuperAdmin}
    /\ \A role \in DOMAIN t.perms : t.perms[role] \in Config

RequestOK(r) ==
    /\ DOMAIN r = DOMAIN Idle
    /\ r.steps \in Seq(Statements) /\ r.op \in Operations
    /\ r.actor \in Users /\ r.target \in Users /\ r.role \in Roles
    /\ r.me \in UserRow /\ r.mine \in UserRow /\ r.row \in UserRow /\ SettingOK(r.seen)
    /\ DOMAIN r.writes \subseteq Keys /\ SettingOK(Over(Idle.seen, r.writes))
    /\ DOMAIN r.edits \subseteq Users
    /\ \A u \in DOMAIN r.edits : DOMAIN r.edits[u] \subseteq Columns /\ Over(NoUser, r.edits[u]) \in UserRow

\* Every row keeps its type, and what a request holds is of the type of the row.
TypeOK ==
    /\ SettingOK(setting) /\ user \in [Users -> UserRow] /\ requests \in 0..MaxRequests
    /\ told \in [Users -> Overrides] /\ given \in [Users -> Overrides] /\ crossed \subseteq Users
    /\ DOMAIN req = Slots /\ \A s \in Slots : RequestOK(req[s])

\* Nobody has a personal override, written back or set, that was not once
\* given to them or to a role of theirs, whatever requests overlap.
OverridesWereGiven ==
    \A u \in Users :
        /\ user[u].overrides.grant \subseteq given[u].grant
        /\ user[u].overrides.deny \subseteq given[u].deny

\* What an editor set for a user stays until an editor sets it anew, whatever
\* becomes of the roles, if no two requests had the user's row open at once.
OverridesStick ==
    \A u \in Users \ crossed :
        /\ told[u].grant \subseteq user[u].overrides.grant
        /\ told[u].deny \subseteq user[u].overrides.deny

\* What the panel and the bot answer: the panel merges first.
InPanel(u) == Merged(user[u], ConfigOf(setting.perms, user[u].role))
RoleConfig(u) == ConfigOf(setting.perms, user[u].role)

\* A user restricted to cities acts and sees in these only, whatever the role,
\* its configuration and the user's own grants say; and a permission denied to
\* the user is of no use anywhere.
RestrictedStays ==
    \A u \in Users, p \in Perms :
        user[u].exists /\ user[u].role # SuperAdmin =>
            \A view \in {InPanel(u), user[u]} :
                /\ user[u].cities # {} => UserCityAccess(view, p, RoleConfig(u)) \subseteq user[u].cities
                /\ p \in view.overrides.deny => UserCityAccess(view, p, RoleConfig(u)) = {}

\* Every request ends: requests that wait for each other do not wait for ever.
RequestsEnd == \A s \in Slots : []<>(req[s].steps = <<>>)

\* deny_selected: "allow everywhere EXCEPT cities".
ExceptedCitiesHold ==
    \A u \in Users, p \in Perms :
        LET scope == RoleConfig(u).scoped[p] IN
        (/\ user[u].role # SuperAdmin /\ user[u].cities = {} /\ scope.mode = "deny_selected"
         /\ p \notin InPanel(u).overrides.grant)
            => UserCityAccess(InPanel(u), p, RoleConfig(u)) \cap scope.cities = {}

\* "deny wins over everything except SUPER_ADMIN".
SuperAdminMayAll ==
    \A u \in Users, p \in Perms :
        user[u].exists /\ user[u].role = SuperAdmin => UserHasPermission(InPanel(u), p, RoleConfig(u))

\* Users of a removed role "immediately lose all access from it".
RemovedRoleIsVoid ==
    \A u \in Users, p \in Perms :
        (user[u].exists /\ user[u].role \in setting.deleted /\ p \notin told[u].grant)
            => ~UserHasPermission(InPanel(u), p, RoleConfig(u))

\* The bot and the panel agree on what a user may do.
BotAgrees ==
    \A u \in Users, p \in Perms :
        user[u].exists => (UserHasPermission(user[u], p, RoleConfig(u)) <=> UserHasPermission(InPanel(u), p, RoleConfig(u)))

\* A new role "grants nothing until configured".
NewRoleIsEmpty ==
    [][\A role \in setting'.custom \ setting.custom : ConfigOf(setting'.perms, role) = NoConfig]_setting

\* Two requests never wait for each other.
NoDeadlock == \A s, t \in Slots : ~(WaitsFor(s, t) /\ WaitsFor(t, s))

\* What an editor set stays, even if the user is at work meanwhile.
OverridesStay ==
    \A u \in Users :
        /\ told[u].grant \subseteq user[u].overrides.grant
        /\ told[u].deny \subseteq user[u].overrides.deny

\* Creating or removing a role leaves the configuration of the others alone.
OtherRolesKept ==
    [][\A s \in Slots : (Takes(s, "commit") /\ req'[s] = Idle /\ req[s].op \in {"create", "remove"}) =>
          \A role \in Roles \ {req[s].role} :
              ConfigOf(setting'.perms, role) = ConfigOf(setting.perms, role)]_accessVars
===============================================================================
