------------------------------ MODULE CityScopes ------------------------------
(***************************************************************************)
(* What a user may do, and in which cities: shared/security.py.  A user's  *)
(* row and the configuration of the user's role are combined permission by *)
(* permission.  The lists of city ids are sets here, and None, "no         *)
(* restriction", is the set of all cities.                                 *)
(***************************************************************************)
EXTENDS Integers, FiniteSets

CONSTANTS
    Cities,
    Perms,          \* the permissions
    ViewOf,         \* of a permission that acts on something: the one to see it
    SuperAdmin,     \* the role that cannot be changed or removed
    Builtin,        \* the roles of the enum UserRole
    Defaults        \* of a built-in role: what it grants by itself

ASSUME ScopesAssumption ==
    /\ DOMAIN ViewOf \subseteq Perms
    /\ \A p \in DOMAIN ViewOf : ViewOf[p] \in Perms \ DOMAIN ViewOf
    /\ SuperAdmin \in Builtin
    /\ Defaults \in [Builtin -> SUBSET Perms]

Modes == {"none", "role", "grant", "grant_selected", "deny", "deny_selected"}

\* One role's entry of the setting roles.permissions; mode "none" is no entry.
Config == [grant : SUBSET Perms, deny : SUBSET Perms,
           scoped : [Perms -> [mode : Modes, cities : SUBSET Cities]]]

NoScopes == [p \in Perms |-> [mode |-> "none", cities |-> {}]]
NoConfig == [grant |-> {}, deny |-> {}, scoped |-> NoScopes]
DenyAll == [grant |-> {}, deny |-> Perms, scoped |-> NoScopes]

Overrides == [grant : SUBSET Perms, deny : SUBSET Perms]
NoOverrides == [grant |-> {}, deny |-> {}]

\* CityScope: whether there is access at all, and where.  `except` is its deny.
Nowhere == [access |-> FALSE, everywhere |-> FALSE, only |-> {}, except |-> {}]
Everywhere == [access |-> TRUE, everywhere |-> TRUE, only |-> {}, except |-> {}]
OnlyIn(cities) == [access |-> TRUE, everywhere |-> FALSE, only |-> cities, except |-> {}]

HasDefault(role, p) == role = SuperAdmin \/ (role \in Builtin /\ p \in Defaults[role])

ByDefault(role, p) == IF HasDefault(role, p) THEN Everywhere ELSE Nowhere

\* _role_permission_city_scope
RoleScope(role, p, config) ==
    LET scope == config.scoped[p] IN
    CASE scope.mode = "none" ->
            IF p \in config.deny THEN Nowhere
            ELSE IF p \in config.grant THEN Everywhere ELSE ByDefault(role, p)
      [] scope.mode = "grant" -> Everywhere
      [] scope.mode = "deny" -> Nowhere
      [] scope.mode = "grant_selected" -> [OnlyIn(scope.cities) EXCEPT !.access = scope.cities # {}]
      [] scope.mode = "deny_selected" -> [ByDefault(role, p) EXCEPT !.except = scope.cities]
      [] scope.mode = "role" -> ByDefault(role, p)

\* The slip: what is granted personally is granted for every city.
ResolveGrantFirst(user, p, config) ==
    LET scope == RoleScope(user.role, p, config) IN
    IF user.role = SuperAdmin THEN Everywhere
    ELSE IF p \in user.overrides.deny THEN Nowhere
    ELSE IF p \in user.overrides.grant THEN Everywhere
    ELSE IF scope.access /\ user.cities # {} THEN OnlyIn(user.cities) ELSE scope

\* resolve_city_scope: denied personally; restricted personally; granted
\* personally; else what the role says.
ResolveCityScope(user, p, config) ==
    LET personal == p \in user.overrides.grant
        scope == RoleScope(user.role, p, config) IN
    CASE user.role = SuperAdmin -> Everywhere
      [] user.role # SuperAdmin /\ (p \in user.overrides.deny \/ ~(personal \/ scope.access)) -> Nowhere
      [] OTHER -> IF user.cities # {} THEN OnlyIn(user.cities)
                  ELSE IF personal THEN Everywhere ELSE scope

\* CityScope.allowed_city_ids, which leaves the excepted cities in.
AllowedCityIds(scope) ==
    IF ~scope.access THEN {} ELSE IF scope.everywhere THEN Cities ELSE scope.only

\* user_has_permission
UserHasPermission(user, p, config) ==
    /\ p \notin user.overrides.deny
    /\ \/ p \in user.overrides.grant
       \/ HasDefault(user.role, p)
       \/ ResolveCityScope(user, p, config).access

\* user_city_access: one may act only where one may see.
UserCityAccess(user, p, config) ==
    LET Allowed(q) == AllowedCityIds(ResolveCityScope(user, q, config)) IN
    IF user.role = SuperAdmin THEN Cities
    ELSE IF p \in DOMAIN ViewOf THEN Allowed(p) \cap Allowed(ViewOf[p]) ELSE Allowed(p)

\* The slip: the defaults of the role are written back too.
MergedDefaults(user, config) ==
    [user EXCEPT !.overrides =
        [grant |-> ({p \in Perms : HasDefault(user.role, p)} \cup config.grant \cup @.grant) \ @.deny,
         deny |-> (config.deny \ @.grant) \cup @.deny]]

\* The slip: what the role denies is taken from the user's own grants.
MergedRoleWins(user, config) ==
    [user EXCEPT !.overrides =
        [grant |-> (config.grant \cup @.grant) \ config.deny,
         deny |-> config.deny \cup (@.deny \ config.grant)]]

\* get_current_user: the role's grants and denials are added to the user's own,
\* which win.
Merged(user, config) ==
    [user EXCEPT !.overrides =
        [grant |-> (config.grant \ @.deny) \cup @.grant,
         deny |-> (config.deny \ @.grant) \cup @.deny]]
===============================================================================
