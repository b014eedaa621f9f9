----------------------------- MODULE AccessProofs -----------------------------
(***************************************************************************)
(* What AccessControl satisfies for all values of its CONSTANTS: any       *)
(* number of users, roles, permissions, cities, requests at once, and any  *)
(* role settings and overrides that are put.                               *)
(***************************************************************************)
EXTENDS AccessControl, TLAPS

-----------------------------------------------------------------------------
(* What a request in progress knows of itself. *)

\* The value it came with is of the type its operation takes.
ValueOK(r) ==
  /\ r.op = "overrides" => r.value \in Overrides
  /\ r.op \in {"role", "new"} => r.value \in Roles
  /\ r.op = "cities" => r.value \in SUBSET Cities
  /\ r.op = "active" => r.value \in BOOLEAN
  /\ r.op = "put" => r.value \in Payloads
  /\ r.op = "create" => r.role \notin Builtin
  /\ r.op = "remove" => r.role # SuperAdmin

\* Its statements fit its operation.
StatementOK(r, st) ==
  /\ st \in Statements
  /\ st[2] \in Keys /\ st[1] = "write" => r.op \in {"create", "remove", "put"}
  /\ st[2] \in Keys /\ r.op = "put" /\ st[1] = "write" => st[2] = "perms"
  /\ st[2] = "custom" /\ st[1] = "write" => r.role \notin Builtin
  /\ st[2] = "deleted" => r.op = "remove" /\ r.role \in Builtin
  /\ st[2] = "row" => r.op \in RowOps

\* And it reads the row, then merges, then writes the row, once each.
Rank(st) == IF st[1] = "me" THEN 3 ELSE IF st[1] = "commit" THEN 6
            ELSE IF st[2] = "row" THEN IF st[1] = "read" THEN 1 ELSE 4
            ELSE IF st[1] = "read" /\ st[2] \in {"custom", "deleted"} THEN 2 ELSE 5
InOrder(steps) ==
  \A i, j \in 1..Len(steps) :
    i < j => Rank(steps[i]) < Rank(steps[j]) \/ (Rank(steps[i]) = 5 /\ Rank(steps[j]) = 5)

PlanOK(r) ==
  /\ ValueOK(r)
  /\ \A i \in 1..Len(r.steps) : StatementOK(r, r.steps[i])
  /\ InOrder(r.steps)

TypeInv == TypeOK /\ \A s \in Slots : PlanOK(req[s])
-----------------------------------------------------------------------------
(* Types. *)

LEMMA RolesKnown == /\ SuperAdmin \in Builtin /\ Builtin \subseteq Roles /\ SuperAdmin \in Roles
                    /\ Manage \in Perms /\ MaxRequests \in Nat
  BY ScopesAssumption, AccessAssumption

LEMMA BlankConfig == NoScopes \in [Perms -> [mode : Modes, cities : SUBSET Cities]] /\ NoConfig \in Config /\ DenyAll \in Config
<1>1. NoScopes \in [Perms -> [mode : Modes, cities : SUBSET Cities]]
  BY DEF NoScopes, Modes
<1> QED
  BY <1>1 DEF NoConfig, DenyAll, Config

LEMMA BlankUser == NoUser \in UserRow /\ NoOverrides \in Overrides
  BY RolesKnown DEF NoUser, UserRow, NoOverrides, Overrides

LEMMA BlankSetting == SettingOK(Idle.seen)
  BY DEF SettingOK, Idle, Empty, Keys

LEMMA OverNothing == Over(Idle.seen, Empty) = Idle.seen
  BY DEF Over, Empty, Idle

LEMMA IdleOK == RequestOK(Idle) /\ PlanOK(Idle) /\ Idle.steps = <<>>
<1>1. (CHOOSE u \in Users : TRUE) \in Users
  BY AccessAssumption
<1>2. /\ Idle.steps \in Seq(Statements) /\ Idle.op \in Operations /\ Idle.steps = <<>>
      /\ Idle.actor \in Users /\ Idle.target \in Users /\ Idle.role \in Roles
      /\ Idle.me \in UserRow /\ Idle.mine \in UserRow /\ Idle.row \in UserRow
  BY <1>1, BlankUser, RolesKnown DEF Idle, Operations
<1>3. Idle.writes = Empty /\ Idle.edits = Empty /\ DOMAIN Empty = {} /\ Idle.op = "visit"
  BY DEF Idle, Empty
<1>4. RequestOK(Idle)
  BY <1>2, <1>3, BlankSetting, OverNothing DEF RequestOK
<1>5. PlanOK(Idle)
  BY <1>2, <1>3 DEF PlanOK, ValueOK, InOrder
<1> QED
  BY <1>2, <1>4, <1>5

\* A configuration is one, whether or not the role has an entry.
LEMMA ConfigType ==
  ASSUME NEW t, SettingOK(t), NEW role
  PROVE  ConfigOf(t.perms, role) \in Config
  BY BlankConfig DEF ConfigOf, SettingOK

\* Merging a role's configuration touches the overrides only, and takes nothing
\* from them.
LEMMA MergeType ==
  ASSUME NEW u \in UserRow, NEW config \in Config
  PROVE  /\ Merged(u, config) \in UserRow
         /\ \A c \in Columns \ {"overrides"} : Merged(u, config)[c] = u[c]
         /\ u.overrides.grant \subseteq Merged(u, config).overrides.grant
         /\ u.overrides.deny \subseteq Merged(u, config).overrides.deny
         /\ Merged(u, config).overrides.grant \subseteq u.overrides.grant \cup config.grant
         /\ Merged(u, config).overrides.deny \subseteq u.overrides.deny \cup config.deny
<1> DEFINE o == [grant |-> (config.grant \ u.overrides.deny) \cup u.overrides.grant,
                 deny |-> (config.deny \ u.overrides.grant) \cup u.overrides.deny]
<1>1. Merged(u, config) = [u EXCEPT !.overrides = o]
  BY DEF Merged
<1>2. o \in Overrides
  BY DEF UserRow, Overrides, Config
<1>3. Merged(u, config) \in UserRow
  BY <1>1, <1>2 DEF UserRow
<1>4. Merged(u, config).overrides = o
  BY <1>1 DEF UserRow
<1>5. \A c \in Columns \ {"overrides"} : Merged(u, config)[c] = u[c]
  BY <1>1 DEF UserRow, Columns
<1> QED
  BY <1>3, <1>4, <1>5

\* Overwriting some columns of a row of the table by columns of another.
LEMMA OverRow ==
  ASSUME NEW row \in UserRow, NEW e, DOMAIN e \subseteq Columns, Over(NoUser, e) \in UserRow
  PROVE  /\ Over(row, e) \in UserRow
         /\ \A c \in Columns : Over(row, e)[c] = IF c \in DOMAIN e THEN e[c] ELSE row[c]
<1>1. DOMAIN row = Columns /\ DOMAIN NoUser = Columns
  BY BlankUser DEF UserRow, Columns
<1>2. \A c \in Columns : c \in DOMAIN e => Over(NoUser, e)[c] = e[c]
  BY <1>1 DEF Over
<1>3. \A c \in Columns : Over(row, e)[c] = IF c \in DOMAIN e THEN e[c] ELSE row[c]
  BY <1>1 DEF Over
<1>4. Over(row, e) = [exists |-> Over(row, e)["exists"], active |-> Over(row, e)["active"], role |-> Over(row, e)["role"],
                      overrides |-> Over(row, e)["overrides"], cities |-> Over(row, e)["cities"]]
  BY <1>1 DEF Over, Columns
<1>5. /\ Over(row, e)["exists"] \in BOOLEAN /\ Over(row, e)["active"] \in BOOLEAN /\ Over(row, e)["role"] \in Roles
      /\ Over(row, e)["overrides"] \in Overrides /\ Over(row, e)["cities"] \in SUBSET Cities
  BY <1>2, <1>3 DEF UserRow, Columns
<1>6. Over(row, e) \in UserRow
  BY <1>4, <1>5 DEF UserRow
<1> QED
  BY <1>3, <1>6

LEMMA OverSetting ==
  ASSUME NEW t, SettingOK(t), NEW w, DOMAIN w \subseteq Keys, SettingOK(Over(Idle.seen, w))
  PROVE  SettingOK(Over(t, w))
<1>1. DOMAIN t = Keys /\ DOMAIN Idle.seen = Keys
  BY BlankSetting DEF SettingOK
<1>2. \A k \in Keys : /\ Over(t, w)[k] = IF k \in DOMAIN w THEN w[k] ELSE t[k]
                      /\ k \in DOMAIN w => Over(Idle.seen, w)[k] = w[k]
  BY <1>1 DEF Over
<1>3. DOMAIN Over(t, w) = Keys
  BY <1>1 DEF Over
<1>4. \A k \in Keys : Over(t, w)[k] = t[k] \/ Over(t, w)[k] = Over(Idle.seen, w)[k]
  BY <1>2
<1> QED
  BY <1>3, <1>4 DEF SettingOK, Keys

LEMMA TypeInit == Init => TypeInv
<1> SUFFICES ASSUME Init PROVE TypeInv
  OBVIOUS
<1>1. SettingOK(setting)
  BY RolesKnown DEF Init, SettingOK, Keys, Empty
<1>2. user \in [Users -> UserRow]
  <2>1. ASSUME NEW u \in DOMAIN FirstRole
        PROVE  [NoUser EXCEPT !.exists = TRUE, !.active = TRUE, !.role = FirstRole[u]] \in UserRow
    BY BlankUser, RolesKnown, AccessAssumption DEF UserRow
  <2> QED
    BY <2>1, BlankUser DEF Init
<1>3. /\ requests \in 0..MaxRequests /\ crossed \subseteq Users
      /\ told \in [Users -> Overrides] /\ given \in [Users -> Overrides]
  <2>1. requests = 0 /\ crossed = {}
    BY DEF Init
  <2>2. requests \in 0..MaxRequests
    BY <2>1, RolesKnown
  <2> QED
    BY <2>1, <2>2, BlankUser DEF Init
<1>4. DOMAIN req = Slots /\ \A s \in Slots : RequestOK(req[s]) /\ PlanOK(req[s])
  BY IdleOK DEF Init
<1> QED
  BY <1>1, <1>2, <1>3, <1>4 DEF TypeInv, TypeOK

\* What changes one request only keeps the types if the request keeps its own.
LEMMA OneRequest ==
  ASSUME TypeInv, NEW s \in Slots, NEW r, RequestOK(r), PlanOK(r), req' = [req EXCEPT ![s] = r],
         UNCHANGED <<setting, user, requests, told, given, crossed>>
  PROVE  TypeInv'
<1>1. DOMAIN req' = Slots /\ \A t \in Slots : req'[t] = req[t] \/ req'[t] = r
  BY DEF TypeInv, TypeOK
<1>2. \A t \in Slots : RequestOK(req'[t]) /\ PlanOK(req'[t])
  BY <1>1 DEF TypeInv, TypeOK
<1>3. \A t \in Slots : RequestOK(req[t])' /\ PlanOK(req[t])'
  BY <1>2 DEF RequestOK, PlanOK, StatementOK, ValueOK, InOrder, SettingOK, Over, Rank
<1> QED
  BY <1>1, <1>3 DEF TypeInv, TypeOK, SettingOK

\* The request after its next statement: still in order.
LEMMA RestType ==
  ASSUME NEW r, RequestOK(r), PlanOK(r), r.steps # <<>>
  PROVE  /\ RequestOK(Rest(r)) /\ PlanOK(Rest(r))
         /\ \A f \in DOMAIN Idle \ {"steps"} : Rest(r)[f] = r[f]
         /\ Rest(r).steps = Tail(r.steps)
         /\ Next1(r) \in Statements /\ StatementOK(r, Next1(r))
         /\ \A i \in 1..Len(Rest(r).steps) :
                Rest(r).steps[i] = r.steps[i + 1] /\ Rank(Rest(r).steps[i]) >= Rank(Next1(r))
                                             /\ (Rank(Next1(r)) # 5 => Rank(Rest(r).steps[i]) > Rank(Next1(r)))
<1>1. r.steps \in Seq(Statements) /\ Len(r.steps) > 0 /\ Next1(r) = r.steps[1]
  BY DEF RequestOK, Next1
<1>2. /\ Tail(r.steps) \in Seq(Statements) /\ Len(Tail(r.steps)) = Len(r.steps) - 1
      /\ \A i \in 1..Len(Tail(r.steps)) : Tail(r.steps)[i] = r.steps[i + 1]
  BY <1>1
<1>3. /\ DOMAIN Rest(r) = DOMAIN Idle /\ Rest(r).steps = Tail(r.steps)
      /\ \A f \in DOMAIN Idle \ {"steps"} : Rest(r)[f] = r[f]
  BY DEF Rest, RequestOK, Idle
<1>4. /\ Rest(r).op = r.op /\ Rest(r).actor = r.actor /\ Rest(r).target = r.target /\ Rest(r).role = r.role
      /\ Rest(r).value = r.value /\ Rest(r).me = r.me /\ Rest(r).mine = r.mine /\ Rest(r).row = r.row
      /\ Rest(r).seen = r.seen /\ Rest(r).writes = r.writes /\ Rest(r).edits = r.edits
  BY <1>3 DEF Idle
<1>5. RequestOK(Rest(r))
  BY <1>2, <1>3, <1>4 DEF RequestOK
<1>6. \A i \in 1..Len(Rest(r).steps) : StatementOK(Rest(r), Rest(r).steps[i])
  BY <1>1, <1>2, <1>3, <1>4 DEF PlanOK, StatementOK
<1>7. InOrder(Rest(r).steps)
  <2> SUFFICES ASSUME NEW i \in 1..Len(Rest(r).steps), NEW j \in 1..Len(Rest(r).steps), i < j
               PROVE  \/ Rank(Rest(r).steps[i]) < Rank(Rest(r).steps[j])
                      \/ (Rank(Rest(r).steps[i]) = 5 /\ Rank(Rest(r).steps[j]) = 5)
    BY DEF InOrder
  <2>1. i + 1 \in 1..Len(r.steps) /\ j + 1 \in 1..Len(r.steps) /\ i + 1 < j + 1
    BY <1>1, <1>2, <1>3
  <2>2. Rest(r).steps[i] = r.steps[i + 1] /\ Rest(r).steps[j] = r.steps[j + 1]
    BY <1>2, <1>3
  <2> QED
    BY <2>1, <2>2 DEF PlanOK, InOrder
<1>8. PlanOK(Rest(r))
  BY <1>4, <1>6, <1>7 DEF PlanOK, ValueOK
<1>9. Next1(r) \in Statements /\ StatementOK(r, Next1(r))
  BY <1>1 DEF PlanOK, StatementOK
<1>10. ASSUME NEW i \in 1..Len(Rest(r).steps)
       PROVE  /\ Rest(r).steps[i] = r.steps[i + 1] /\ Rank(Rest(r).steps[i]) >= Rank(Next1(r))
              /\ (Rank(Next1(r)) # 5 => Rank(Rest(r).steps[i]) > Rank(Next1(r)))
  <2>1. 1 \in 1..Len(r.steps) /\ i + 1 \in 1..Len(r.steps) /\ 1 < i + 1
    BY <1>1, <1>2, <1>3
  <2>2. Rest(r).steps[i] = r.steps[i + 1] /\ Next1(r) = r.steps[1]
    BY <1>1, <1>2, <1>3
  <2>3. \/ Rank(r.steps[1]) < Rank(r.steps[i + 1])
        \/ (Rank(r.steps[1]) = 5 /\ Rank(r.steps[i + 1]) = 5)
    BY <2>1 DEF PlanOK, InOrder
  <2>4. \A st : Rank(st) \in 1..6
    BY DEF Rank
  <2>5. Rank(r.steps[1]) \in Int /\ Rank(r.steps[i + 1]) \in Int
    BY <2>4
  <2> HIDE DEF Rank
  <2> QED
    BY <2>2, <2>3, <2>5
<1> QED
  BY <1>3, <1>5, <1>8, <1>9, <1>10

-----------------------------------------------------------------------------
(* The plans of the operations. *)

LEMMA StatementFacts ==
  /\ \A k \in Keys \cup {"row"} : Reads(k) \in Statements /\ Writes(k) \in Statements
  /\ Me \in Statements /\ Done \in Statements
  /\ \A k : Reads(k)[1] = "read" /\ Reads(k)[2] = k /\ Writes(k)[1] = "write" /\ Writes(k)[2] = k
  /\ Me[1] = "me" /\ Me[2] = "" /\ Done[1] = "commit" /\ Done[2] = ""
  BY DEF Statements, Reads, Writes, Me, Done

LEMMA RankFacts ==
  /\ Rank(Reads("row")) = 1 /\ Rank(Reads("custom")) = 2 /\ Rank(Reads("deleted")) = 2 /\ Rank(Me) = 3
  /\ Rank(Writes("row")) = 4 /\ Rank(Done) = 6 /\ Rank(Reads("labels")) = 5
  /\ \A k \in Keys : Rank(Writes(k)) = 5
<1>1. Rank(Reads("row")) = 1 /\ Rank(Writes("row")) = 4
  BY StatementFacts DEF Rank
<1>2. Rank(Me) = 3 /\ Rank(Done) = 6
  BY StatementFacts DEF Rank
<1>3. Rank(Reads("custom")) = 2 /\ Rank(Reads("deleted")) = 2
  BY StatementFacts DEF Rank
<1>4. Rank(Reads("labels")) = 5
  BY StatementFacts DEF Rank
<1>5. ASSUME NEW k \in Keys PROVE Rank(Writes(k)) = 5
  <2>1. k # "row"
    BY DEF Keys
  <2> QED
    BY <2>1, StatementFacts DEF Rank
<1> QED
  BY <1>1, <1>2, <1>3, <1>4, <1>5

\* Which statements fit which operation.
LEMMA StatementChoice ==
  ASSUME NEW r
  PROVE  /\ StatementOK(r, Me) /\ StatementOK(r, Done)
         /\ StatementOK(r, Reads("custom")) /\ StatementOK(r, Reads("labels"))
         /\ r.op \in {"create", "remove"} => StatementOK(r, Writes("labels"))
         /\ r.op \in {"create", "remove", "put"} => StatementOK(r, Writes("perms"))
         /\ (r.op \in {"create", "remove"} /\ r.role \notin Builtin) => StatementOK(r, Writes("custom"))
         /\ (r.op = "remove" /\ r.role \in Builtin)
            => StatementOK(r, Reads("deleted")) /\ StatementOK(r, Writes("deleted"))
         /\ r.op \in RowOps => StatementOK(r, Reads("row")) /\ StatementOK(r, Writes("row"))
<1>1. \A k \in Keys : k # "row" /\ k # ""
  BY DEF Keys
<1>2. "custom" \in Keys /\ "deleted" \in Keys /\ "labels" \in Keys /\ "perms" \in Keys
  BY DEF Keys
<1>3. StatementOK(r, Me) /\ StatementOK(r, Done)
  BY <1>1, StatementFacts DEF StatementOK
<1>4. StatementOK(r, Reads("custom")) /\ StatementOK(r, Reads("labels"))
  BY <1>2, StatementFacts DEF StatementOK
<1>5. r.op \in {"create", "remove"} => StatementOK(r, Writes("labels"))
  BY <1>2, StatementFacts DEF StatementOK
<1>6. r.op \in {"create", "remove", "put"} => StatementOK(r, Writes("perms"))
  BY <1>2, StatementFacts DEF StatementOK
<1>7. (r.op \in {"create", "remove"} /\ r.role \notin Builtin) => StatementOK(r, Writes("custom"))
  BY <1>2, StatementFacts DEF StatementOK
<1>8. (r.op = "remove" /\ r.role \in Builtin)
      => StatementOK(r, Reads("deleted")) /\ StatementOK(r, Writes("deleted"))
  BY <1>2, StatementFacts DEF StatementOK
<1>9. r.op \in RowOps => StatementOK(r, Reads("row")) /\ StatementOK(r, Writes("row"))
  BY <1>1, StatementFacts DEF StatementOK
<1> QED
  BY <1>3, <1>4, <1>5, <1>6, <1>7, <1>8, <1>9

\* A plan whose ranks grow is in order.
Planned(r) ==
  /\ r.steps \in Seq(Statements) /\ InOrder(r.steps)
  /\ \A i \in 1..Len(r.steps) : StatementOK(r, r.steps[i])

LEMMA ShortPlan ==
  ASSUME NEW r, NEW a, NEW b, r.steps = <<a, b>>, StatementOK(r, a), StatementOK(r, b), Rank(a) = 3, Rank(b) = 6
  PROVE  Planned(r)
  BY DEF Planned, InOrder, StatementOK

LEMMA PlanOfFour ==
  ASSUME NEW r, NEW a, NEW b, NEW c, NEW d, r.steps = <<a, b, c, d>>,
         StatementOK(r, a), StatementOK(r, b), StatementOK(r, c), StatementOK(r, d),
         \/ Rank(a) = 1 /\ Rank(b) = 3 /\ Rank(c) = 4 /\ Rank(d) = 6
         \/ Rank(a) = 2 /\ Rank(b) = 3 /\ Rank(c) = 5 /\ Rank(d) = 6
  PROVE  Planned(r)
<1>1. a \in Statements /\ b \in Statements /\ c \in Statements /\ d \in Statements
  BY DEF StatementOK
<1> QED
  BY <1>1 DEF Planned, InOrder

LEMMA PlanOfFive ==
  ASSUME NEW r, NEW a, NEW b, NEW c, NEW d, NEW e, r.steps = <<a, b, c, d, e>>,
         StatementOK(r, a), StatementOK(r, b), StatementOK(r, c), StatementOK(r, d), StatementOK(r, e),
         Rank(a) = 1, Rank(b) = 2, Rank(c) = 3, Rank(d) = 4, Rank(e) = 6
  PROVE  Planned(r)
<1>1. a \in Statements /\ b \in Statements /\ c \in Statements /\ d \in Statements /\ e \in Statements
  BY DEF StatementOK
<1> QED
  BY <1>1 DEF Planned, InOrder

LEMMA PlanOfSeven ==
  ASSUME NEW r, NEW a, NEW b, NEW c, NEW d, NEW e, NEW f, NEW g, r.steps = <<a, b, c, d, e, f, g>>,
         StatementOK(r, a), StatementOK(r, b), StatementOK(r, c), StatementOK(r, d), StatementOK(r, e),
         StatementOK(r, f), StatementOK(r, g),
         Rank(a) = 2, Rank(b) = 3, Rank(c) = 5, Rank(d) = 5, Rank(e) = 5, Rank(f) = 5, Rank(g) = 6
  PROVE  Planned(r)
<1>1. /\ a \in Statements /\ b \in Statements /\ c \in Statements /\ d \in Statements /\ e \in Statements
      /\ f \in Statements /\ g \in Statements
  BY DEF StatementOK
<1> QED
  BY <1>1 DEF Planned, InOrder

\* What Begin makes of a request.
LEMMA Opened ==
  ASSUME TypeInv, NEW s \in Slots, NEW a \in Users, NEW op \in Operations,
         NEW u \in Users, NEW role \in Roles, NEW value, NEW steps,
         Begin(s, a, op, About(u, role, value), steps)
  PROVE  \E r : /\ req' = [req EXCEPT ![s] = r]
                /\ steps \in Seq(Statements) => RequestOK(r)
                /\ r.op = op /\ r.actor = a /\ r.target = u /\ r.role = role /\ r.value = value /\ r.steps = steps
                /\ r.me = user[a] /\ r.mine = Merged(user[a], ConfigOf(setting.perms, user[a].role))
                /\ r.row = NoUser /\ r.seen = [Idle.seen EXCEPT !.perms = setting.perms]
                /\ r.writes = Empty /\ r.edits = Empty
<1> DEFINE config == ConfigOf(setting.perms, user[a].role)
           seen == [Idle.seen EXCEPT !.perms = setting.perms]
           r == [Idle EXCEPT !.op = op, !.actor = a, !.steps = steps,
                             !.target = u, !.role = role, !.value = value,
                             !.me = user[a], !.mine = Merged(user[a], config), !.seen = seen]
<1>1. req' = [req EXCEPT ![s] = r]
  BY DEF Begin, About
<1>2. /\ r.op = op /\ r.actor = a /\ r.target = u /\ r.role = role /\ r.value = value /\ r.steps = steps
      /\ r.me = user[a] /\ r.mine = Merged(user[a], config) /\ r.row = NoUser
      /\ r.seen = seen /\ r.writes = Empty /\ r.edits = Empty
      /\ DOMAIN r = DOMAIN Idle
  BY DEF Idle
<1>3. Merged(user[a], config) \in UserRow /\ user[a] \in UserRow
  BY MergeType, ConfigType DEF TypeInv, TypeOK
<1>4. SettingOK(seen)
  BY BlankSetting DEF TypeInv, TypeOK, SettingOK, Idle, Keys
<1>5. steps \in Seq(Statements) => RequestOK(r)
  BY <1>2, <1>3, <1>4, BlankUser, BlankSetting, OverNothing DEF RequestOK, Empty
<1> QED
  BY <1>1, <1>2, <1>5

\* Every request begins with a plan that fits it.
LEMMA AsksType ==
  ASSUME TypeInv, NEW s \in Slots, NEW a \in Users, Asks(s, a)
  PROVE  TypeInv'
<1> USE RolesKnown DEF Operations, RowOps
<1>1. SUFFICES \E r : RequestOK(r) /\ PlanOK(r) /\ TypeOK' /\ req' = [req EXCEPT ![s] = r]
  <2> SUFFICES ASSUME NEW r, RequestOK(r), PlanOK(r), TypeOK', req' = [req EXCEPT ![s] = r] PROVE TypeInv'
    OBVIOUS
  <2>1. \A t \in Slots : PlanOK(req'[t])
    BY DEF TypeInv, TypeOK
  <2>2. \A t \in Slots : PlanOK(req[t])'
    BY <2>1 DEF PlanOK, StatementOK, ValueOK, InOrder, Rank
  <2> QED
    BY <2>2 DEF TypeInv
<1>2. ASSUME NEW op \in Operations, NEW u \in Users, NEW role \in Roles, NEW value, NEW steps,
             Begin(s, a, op, About(u, role, value), steps),
             \A r : r.op = op /\ r.role = role /\ r.value = value /\ r.steps = steps => ValueOK(r) /\ Planned(r)
      PROVE  \E r : RequestOK(r) /\ PlanOK(r) /\ TypeOK' /\ req' = [req EXCEPT ![s] = r]
  <2>1. PICK r : /\ req' = [req EXCEPT ![s] = r]
                 /\ steps \in Seq(Statements) => RequestOK(r)
                 /\ r.op = op /\ r.actor = a /\ r.target = u /\ r.role = role /\ r.value = value /\ r.steps = steps
    BY <1>2, Opened
  <2>2. RequestOK(r) /\ PlanOK(r)
    BY <1>2, <2>1 DEF Planned, PlanOK
  <2>3. UNCHANGED <<setting, user, told, given>>
    BY <1>2 DEF Begin
  <2>4. requests' \in 0..MaxRequests
    <3>1. requests < MaxRequests /\ requests' = requests + 1
      BY <1>2 DEF Begin
    <3> QED
      BY <3>1 DEF TypeInv, TypeOK
  <2>5. crossed' \subseteq Users
    <3>1. Touches(r) \subseteq Users
      BY <2>1 DEF Touches
    <3>2. crossed' \subseteq crossed \cup {a, u}
      BY <1>2 DEF Begin, Touches, About, Idle
    <3> QED
      BY <3>2 DEF TypeInv, TypeOK
  <2>6. DOMAIN req' = Slots /\ \A t \in Slots : RequestOK(req'[t])
    BY <2>1, <2>2 DEF TypeInv, TypeOK
  <2>7. \A t \in Slots : RequestOK(req[t])'
    BY <2>6 DEF RequestOK, SettingOK, Over
  <2> QED
    BY <2>1, <2>2, <2>3, <2>4, <2>5, <2>6, <2>7 DEF TypeInv, TypeOK, SettingOK
<1> DEFINE Fits(r) == ValueOK(r) /\ Planned(r)
<1>3. CASE Visit(s, a)
  <2>1. ASSUME NEW r, r.op = "visit", r.steps = <<Me, Done>> PROVE Fits(r)
    <3>1. StatementOK(r, Me) /\ StatementOK(r, Done)
      BY StatementFacts DEF StatementOK, Keys
    <3> QED
      BY <2>1, <3>1, ShortPlan, RankFacts DEF ValueOK
  <2> QED
    BY <1>2, <1>3, <2>1 DEF Visit
<1>4. ASSUME NEW role \in Roles, CreateRole(s, a, role)
      PROVE  \E r : RequestOK(r) /\ PlanOK(r) /\ TypeOK' /\ req' = [req EXCEPT ![s] = r]
  <2> DEFINE steps == <<Reads("custom"), Me, Writes("custom"), Reads("labels"), Writes("labels"), Writes("perms"), Done>>
  <2>1. ASSUME NEW r, r.op = "create", r.role = role, r.steps = steps PROVE Fits(r)
    <3>1. role \notin Builtin
      BY <1>4 DEF CreateRole
    <3>2. /\ StatementOK(r, Reads("custom")) /\ StatementOK(r, Me) /\ StatementOK(r, Writes("custom"))
          /\ StatementOK(r, Reads("labels")) /\ StatementOK(r, Writes("labels")) /\ StatementOK(r, Writes("perms"))
          /\ StatementOK(r, Done)
      BY <2>1, <3>1, StatementChoice
    <3> QED
      BY <2>1, <3>1, <3>2, PlanOfSeven, RankFacts DEF ValueOK, Keys
  <2> QED
    BY <1>2, <1>4, <2>1 DEF CreateRole
<1>5. ASSUME NEW role \in Roles, DeleteRole(s, a, role)
      PROVE  \E r : RequestOK(r) /\ PlanOK(r) /\ TypeOK' /\ req' = [req EXCEPT ![s] = r]
  <2> DEFINE list == IF role \in Builtin THEN "deleted" ELSE "custom"
             steps == <<Reads(list), Me, Writes(list), Writes("perms"), Reads("labels"), Writes("labels"), Done>>
  <2>1. ASSUME NEW r, r.op = "remove", r.role = role, r.steps = steps PROVE Fits(r)
    <3>1. role # SuperAdmin
      BY <1>5 DEF DeleteRole
    <3>2. /\ StatementOK(r, Reads(list)) /\ StatementOK(r, Me) /\ StatementOK(r, Writes(list))
          /\ StatementOK(r, Reads("labels")) /\ StatementOK(r, Writes("labels")) /\ StatementOK(r, Writes("perms"))
          /\ StatementOK(r, Done)
      BY <2>1, StatementChoice
    <3>3. Rank(Reads(list)) = 2 /\ Rank(Writes(list)) = 5
      BY RankFacts DEF Keys
    <3> HIDE DEF list
    <3> QED
      BY <2>1, <3>1, <3>2, <3>3, PlanOfSeven, RankFacts DEF ValueOK, Keys
  <2> QED
    BY <1>2, <1>5, <2>1 DEF DeleteRole
<1>6. ASSUME NEW t \in Payloads, SetRolePermissions(s, a, t)
      PROVE  \E r : RequestOK(r) /\ PlanOK(r) /\ TypeOK' /\ req' = [req EXCEPT ![s] = r]
  <2>1. ASSUME NEW r, r.op = "put", r.value = t, r.steps = <<Reads("custom"), Me, Writes("perms"), Done>> PROVE Fits(r)
    <3>1. StatementOK(r, Reads("custom")) /\ StatementOK(r, Me) /\ StatementOK(r, Writes("perms")) /\ StatementOK(r, Done)
      BY <2>1, StatementChoice
    <3> QED
      BY <2>1, <3>1, PlanOfFour, RankFacts DEF ValueOK, Keys
  <2> QED
    BY <1>2, <1>6, <2>1 DEF SetRolePermissions
<1>7. ASSUME NEW u \in Users, NEW op \in RowOps, NEW value, NEW steps,
             Begin(s, a, op, About(u, SuperAdmin, value), steps),
             \A r : r.op = op /\ r.value = value => ValueOK(r),
             \/ steps = <<Reads("row"), Me, Writes("row"), Done>>
             \/ steps = <<Reads("row"), Reads("custom"), Me, Writes("row"), Done>>
      PROVE  \E r : RequestOK(r) /\ PlanOK(r) /\ TypeOK' /\ req' = [req EXCEPT ![s] = r]
  <2>1. ASSUME NEW r, r.op = op, r.value = value, r.steps = steps PROVE Fits(r)
    <3>1. /\ StatementOK(r, Reads("row")) /\ StatementOK(r, Reads("custom")) /\ StatementOK(r, Me)
          /\ StatementOK(r, Writes("row")) /\ StatementOK(r, Done)
      BY <2>1, StatementChoice
    <3>2. CASE steps = <<Reads("row"), Me, Writes("row"), Done>>
      <4>1. Planned(r)
        BY ONLY <2>1, <3>1, <3>2, PlanOfFour, RankFacts
      <4> QED
        BY <1>7, <2>1, <4>1
    <3>3. CASE steps = <<Reads("row"), Reads("custom"), Me, Writes("row"), Done>>
      <4>1. Planned(r)
        BY ONLY <2>1, <3>1, <3>3, PlanOfFive, RankFacts
      <4> QED
        BY <1>7, <2>1, <4>1
    <3> QED
      BY <1>7, <3>2, <3>3
  <2> QED
    BY <1>2, <1>7, <2>1
<1>8. ASSUME NEW u \in Users, NEW o \in Patches, UpdateUser(s, a, u, "overrides", o)
      PROVE  \E r : RequestOK(r) /\ PlanOK(r) /\ TypeOK' /\ req' = [req EXCEPT ![s] = r]
  <2>1. \A r : r.op = "overrides" /\ r.value = o => ValueOK(r)
    BY AccessAssumption DEF ValueOK
  <2> QED
    BY <1>7, <1>8, <2>1 DEF UpdateUser
<1>9. ASSUME NEW u \in Users, NEW role \in Roles, UpdateUser(s, a, u, "role", role)
      PROVE  \E r : RequestOK(r) /\ PlanOK(r) /\ TypeOK' /\ req' = [req EXCEPT ![s] = r]
  <2>1. \A r : r.op = "role" /\ r.value = role => ValueOK(r)
    BY DEF ValueOK
  <2> QED
    BY <1>7, <1>9, <2>1 DEF UpdateUser
<1>10. ASSUME NEW u \in Users, NEW role \in Roles, CreateUser(s, a, u, role)
       PROVE  \E r : RequestOK(r) /\ PlanOK(r) /\ TypeOK' /\ req' = [req EXCEPT ![s] = r]
  <2>1. \A r : r.op = "new" /\ r.value = role => ValueOK(r)
    BY DEF ValueOK
  <2> QED
    BY <1>7, <1>10, <2>1 DEF CreateUser
<1>11. ASSUME NEW u \in Users, NEW cities \in Restrictions, UpdateUser(s, a, u, "cities", cities)
       PROVE  \E r : RequestOK(r) /\ PlanOK(r) /\ TypeOK' /\ req' = [req EXCEPT ![s] = r]
  <2>1. \A r : r.op = "cities" /\ r.value = cities => ValueOK(r)
    BY AccessAssumption DEF ValueOK
  <2> QED
    BY <1>7, <1>11, <2>1 DEF UpdateUser
<1>12. ASSUME NEW u \in Users, NEW on \in BOOLEAN, UpdateUser(s, a, u, "active", on)
       PROVE  \E r : RequestOK(r) /\ PlanOK(r) /\ TypeOK' /\ req' = [req EXCEPT ![s] = r]
  <2>1. \A r : r.op = "active" /\ r.value = on => ValueOK(r)
    BY DEF ValueOK
  <2> QED
    BY <1>7, <1>12, <2>1 DEF UpdateUser
<1>13. ASSUME NEW u \in Users, DeleteUser(s, a, u)
       PROVE  \E r : RequestOK(r) /\ PlanOK(r) /\ TypeOK' /\ req' = [req EXCEPT ![s] = r]
  <2>1. \A r : r.op = "delete" => ValueOK(r)
    BY DEF ValueOK
  <2> QED
    BY <1>7, <1>13, <2>1 DEF DeleteUser
<1> QED
  BY <1>3, <1>4, <1>5, <1>6, <1>8, <1>9, <1>10, <1>11, <1>12, <1>13 DEF Asks

-----------------------------------------------------------------------------
(* The statements keep the types. *)

LEMMA TakesType ==
  ASSUME TypeInv, NEW s \in Slots, NEW verb, Takes(s, verb)
  PROVE  /\ RequestOK(req[s]) /\ PlanOK(req[s]) /\ req[s].steps # <<>> /\ Next1(req[s])[1] = verb
         /\ Next1(req[s]) \in Statements /\ StatementOK(req[s], Next1(req[s]))
         /\ RequestOK(Rest(req[s])) /\ PlanOK(Rest(req[s]))
         /\ \A f \in DOMAIN Idle \ {"steps"} : Rest(req[s])[f] = req[s][f]
<1>1. RequestOK(req[s]) /\ PlanOK(req[s]) /\ req[s].steps # <<>> /\ Next1(req[s])[1] = verb
  BY DEF TypeInv, TypeOK, Takes, Open
<1> QED
  BY <1>1, RestType

\* What a request puts in place of one field, other than its plan and operation.
LEMMA FieldType ==
  ASSUME NEW r, RequestOK(r), PlanOK(r), NEW f \in {"row", "seen", "writes", "edits"}, NEW value,
         f = "row" => value \in UserRow,
         f = "seen" => SettingOK(value),
         f = "writes" => DOMAIN value \subseteq Keys /\ SettingOK(Over(Idle.seen, value)),
         f = "edits" => /\ DOMAIN value \subseteq Users
                        /\ \A u \in DOMAIN value : DOMAIN value[u] \subseteq Columns /\ Over(NoUser, value[u]) \in UserRow
  PROVE  /\ RequestOK([r EXCEPT ![f] = value]) /\ PlanOK([r EXCEPT ![f] = value])
         /\ [r EXCEPT ![f] = value][f] = value
         /\ \A g \in DOMAIN Idle \ {f} : [r EXCEPT ![f] = value][g] = r[g]
<1> DEFINE q == [r EXCEPT ![f] = value]
<1>1. DOMAIN q = DOMAIN Idle /\ q[f] = value /\ \A g \in DOMAIN Idle \ {f} : q[g] = r[g]
  BY DEF RequestOK, Idle
<1>2. /\ q.steps = r.steps /\ q.op = r.op /\ q.actor = r.actor /\ q.target = r.target /\ q.role = r.role
      /\ q.value = r.value /\ q.me = r.me /\ q.mine = r.mine
      /\ q.row = (IF f = "row" THEN value ELSE r.row)
      /\ q.seen = (IF f = "seen" THEN value ELSE r.seen)
      /\ q.writes = (IF f = "writes" THEN value ELSE r.writes)
      /\ q.edits = (IF f = "edits" THEN value ELSE r.edits)
  BY <1>1 DEF Idle
<1> HIDE DEF q
<1>3. RequestOK(q)
  BY <1>1, <1>2 DEF RequestOK
<1>4. PlanOK(q)
  BY <1>2 DEF PlanOK, ValueOK, StatementOK
<1> QED
  BY <1>1, <1>3, <1>4 DEF q

LEMMA ReadType ==
  ASSUME TypeInv, NEW s \in Slots, Read(s)
  PROVE  TypeInv'
<1> DEFINE r == req[s]
           k == Subject(s)
           row == IF r.target = r.actor THEN r.mine ELSE user[r.target]
           seen == [r.seen EXCEPT ![k] = setting[k]]
<1>1. /\ RequestOK(r) /\ PlanOK(r) /\ k \in Keys \cup {"row"} /\ RequestOK(Rest(r)) /\ PlanOK(Rest(r))
      /\ Rest(r).seen = r.seen
  <2>1. Takes(s, "read")
    BY DEF Read
  <2>2. k \in Keys \cup {"row"}
    <3>1. Next1(r) \in Statements /\ Next1(r)[1] = "read" /\ k = Next1(r)[2]
      BY <2>1, TakesType DEF Subject
    <3> HIDE DEF k
    <3>2. Next1(r) # Me /\ Next1(r) # Done
      BY <3>1, StatementFacts
    <3> QED
      BY <3>1, <3>2 DEF Statements
  <2> QED
    BY <2>1, <2>2, TakesType DEF Idle
<1>2. req' = [req EXCEPT ![s] = Idle] \/ (k = "row" /\ req' = [req EXCEPT ![s] = [Rest(r) EXCEPT !["row"] = row]])
      \/ (k # "row" /\ req' = [req EXCEPT ![s] = [Rest(r) EXCEPT !["seen"] = [Rest(r).seen EXCEPT ![k] = setting[k]]]])
  BY DEF Read
<1>3. CASE req' = [req EXCEPT ![s] = Idle]
  BY <1>3, IdleOK, OneRequest DEF Read
<1>4. CASE k = "row" /\ req' = [req EXCEPT ![s] = [Rest(r) EXCEPT !["row"] = row]]
  <2>1. row \in UserRow
    BY <1>1 DEF TypeInv, TypeOK, RequestOK
  <2>2. RequestOK([Rest(r) EXCEPT !["row"] = row]) /\ PlanOK([Rest(r) EXCEPT !["row"] = row])
    BY <1>1, <2>1, FieldType
  <2> QED
    BY <1>4, <2>2, OneRequest DEF Read
<1>5. CASE k # "row" /\ req' = [req EXCEPT ![s] = [Rest(r) EXCEPT !["seen"] = [Rest(r).seen EXCEPT ![k] = setting[k]]]]
  <2>1. k \in Keys
    BY <1>1, <1>5
  <2>2. SettingOK(r.seen) /\ SettingOK(setting)
    BY <1>1 DEF RequestOK, TypeInv, TypeOK
  <2>3. SettingOK(seen)
    BY <2>1, <2>2 DEF SettingOK, Keys
  <2>4. RequestOK([Rest(r) EXCEPT !["seen"] = seen]) /\ PlanOK([Rest(r) EXCEPT !["seen"] = seen])
    BY <1>1, <2>3, FieldType
  <2> QED
    BY <1>1, <1>5, <2>4, OneRequest DEF Read
<1> QED
  BY <1>2, <1>3, <1>4, <1>5

\* A value for a key is one of the setting's, whatever the operation.
LEMMA NewValueType ==
  ASSUME NEW r, RequestOK(r), ValueOK(r), NEW k \in Keys, StatementOK(r, Writes(k)),
         NEW t, SettingOK(t)
  PROVE  SettingOK([t EXCEPT ![k] = NewValue(r, k)])
<1> USE RolesKnown, BlankConfig
<1>1. SettingOK(r.seen) /\ r.role \in Roles /\ DOMAIN t = Keys /\ DOMAIN r.seen = Keys
  BY DEF RequestOK, SettingOK
<1>2. /\ r.op \in {"create", "remove", "put"} /\ (r.op = "put" => k = "perms")
      /\ (k = "custom" => r.role \notin Builtin) /\ (k = "deleted" => r.op = "remove" /\ r.role \in Builtin)
      /\ (r.op = "create" => r.role \notin Builtin) /\ (r.op = "remove" => r.role # SuperAdmin)
      /\ (r.op = "put" => r.value \in Payloads)
  BY StatementFacts DEF StatementOK, ValueOK
<1> DEFINE v == NewValue(r, k)
<1>3. /\ k = "custom" => v \subseteq Roles \ Builtin
      /\ k = "deleted" => v \subseteq Builtin
      /\ k = "labels" => v \subseteq Roles
  BY <1>1, <1>2 DEF NewValue, SettingOK, Keys
<1>4. k = "perms" => DOMAIN v \subseteq Roles \ {SuperAdmin} /\ \A role \in DOMAIN v : v[role] \in Config
  <2> SUFFICES ASSUME k = "perms" PROVE DOMAIN v \subseteq Roles \ {SuperAdmin} /\ \A role \in DOMAIN v : v[role] \in Config
    OBVIOUS
  <2>1. DOMAIN r.seen.perms \subseteq Roles \ {SuperAdmin} /\ \A role \in DOMAIN r.seen.perms : r.seen.perms[role] \in Config
    BY <1>1 DEF SettingOK
  <2>2. CASE r.op = "create"
    BY <1>1, <1>2, <2>1, <2>2 DEF NewValue, With
  <2>3. CASE r.op = "remove"
    BY <1>1, <1>2, <2>1, <2>3 DEF NewValue, With, Without
  <2>4. CASE r.op = "put"
    <3>1. v = [role \in DOMAIN r.value \cap ((Builtin \cup r.seen.custom) \ {SuperAdmin}) |-> r.value[role]]
      BY <2>4 DEF NewValue
    <3>2. r.seen.custom \subseteq Roles
      BY <1>1 DEF SettingOK
    <3> QED
      BY <1>2, <2>4, <3>1, <3>2, AccessAssumption
  <2> QED
    BY <1>2, <2>2, <2>3, <2>4
<1> HIDE DEF v
<1> QED
  BY <1>1, <1>3, <1>4 DEF SettingOK, Keys, v

LEMMA WriteSettingType ==
  ASSUME TypeInv, NEW s \in Slots, WriteSetting(s)
  PROVE  TypeInv'
<1> DEFINE r == req[s]
           k == Subject(s)
           new == NewValue(r, k)
           writes == With(r.writes, k, new)
<1>1. /\ RequestOK(r) /\ PlanOK(r) /\ k \in Keys /\ RequestOK(Rest(r)) /\ PlanOK(Rest(r))
      /\ Rest(r).writes = r.writes
  <2>1. Takes(s, "write") /\ k \in Keys
    BY DEF WriteSetting
  <2> QED
    BY <2>1, TakesType DEF Idle
<1>2. StatementOK(r, Writes(k))
  <2>1. Takes(s, "write")
    BY DEF WriteSetting
  <2>2. Next1(r) \in Statements /\ Next1(r)[1] = "write" /\ Next1(r)[2] = k /\ StatementOK(r, Next1(r))
    BY <2>1, TakesType DEF Subject
  <2>3. Next1(r) = Writes(k)
    <3>1. Next1(r) # Me /\ Next1(r) # Done
      BY <2>2, StatementFacts
    <3>2. Next1(r) \in {"read", "write"} \X (Keys \cup {"row"})
      BY <2>2, <3>1 DEF Statements
    <3>3. Next1(r) = <<Next1(r)[1], Next1(r)[2]>>
      BY <3>2
    <3> QED
      BY <2>2, <3>3 DEF Writes
  <2> QED
    BY <2>2, <2>3
<1>3. req' = [req EXCEPT ![s] = Rest(r)] \/ req' = [req EXCEPT ![s] = [Rest(r) EXCEPT !["writes"] = With(Rest(r).writes, k, new)]]
  BY DEF WriteSetting
<1>4. CASE req' = [req EXCEPT ![s] = Rest(r)]
  BY <1>1, <1>4, OneRequest DEF WriteSetting
<1>5. CASE req' = [req EXCEPT ![s] = [Rest(r) EXCEPT !["writes"] = With(Rest(r).writes, k, new)]]
  <2>1. DOMAIN r.writes \subseteq Keys /\ SettingOK(Over(Idle.seen, r.writes)) /\ ValueOK(r)
    BY <1>1 DEF RequestOK, PlanOK
  <2>2. SettingOK([Over(Idle.seen, r.writes) EXCEPT ![k] = new])
    BY <1>1, <1>2, <2>1, NewValueType
  <2>3. DOMAIN Idle.seen = Keys
    BY BlankSetting DEF SettingOK
  <2>4. Over(Idle.seen, writes) = [Over(Idle.seen, r.writes) EXCEPT ![k] = new]
    BY <1>1, <2>1, <2>3 DEF Over, With
  <2>5. DOMAIN writes \subseteq Keys
    BY <1>1, <2>1 DEF With
  <2>6. RequestOK([Rest(r) EXCEPT !["writes"] = writes]) /\ PlanOK([Rest(r) EXCEPT !["writes"] = writes])
    BY <1>1, <2>2, <2>4, <2>5, FieldType
  <2> QED
    BY <1>1, <1>5, <2>6, OneRequest DEF WriteSetting
<1> QED
  BY <1>3, <1>4, <1>5

\* An update of one column of one user's row, beside what was updated before.
Extends(e, r, u, column, value) ==
  /\ DOMAIN e \subseteq Users
  /\ \A v \in DOMAIN e : DOMAIN e[v] \subseteq Columns /\ Over(NoUser, e[v]) \in UserRow
  /\ DOMAIN e = DOMAIN r.edits \cup {u}
  /\ \A v \in DOMAIN e \ {u} : e[v] = r.edits[v]
  /\ DOMAIN e[u] = {column} \cup (IF u \in DOMAIN r.edits THEN DOMAIN r.edits[u] ELSE {})
  /\ \A c \in DOMAIN e[u] : e[u][c] = IF c = column THEN value ELSE r.edits[u][c]

LEMMA EditedType ==
  ASSUME NEW r, RequestOK(r), NEW u \in Users, NEW column \in Columns, NEW value, NEW row \in UserRow,
         [row EXCEPT ![column] = value] \in UserRow
  PROVE  Extends(Edited(r, u, column, value), r, u, column, value)
<1> DEFINE old == IF u \in DOMAIN r.edits THEN r.edits[u] ELSE Empty
           e == Edited(r, u, column, value)
<1>1. DOMAIN Empty = {} /\ DOMAIN NoUser = Columns /\ DOMAIN row = Columns
  BY BlankUser DEF Empty, UserRow, Columns
<1>2. /\ DOMAIN e = DOMAIN r.edits \cup {u} /\ e[u] = With(old, column, value)
      /\ \A v \in DOMAIN e \ {u} : e[v] = r.edits[v]
  BY DEF Edited, With
<1>3. /\ DOMAIN e[u] = {column} \cup (IF u \in DOMAIN r.edits THEN DOMAIN r.edits[u] ELSE {})
      /\ \A c \in DOMAIN e[u] : e[u][c] = IF c = column THEN value ELSE r.edits[u][c]
  BY <1>1, <1>2 DEF With
<1>4. /\ DOMAIN r.edits \subseteq Users
      /\ \A v \in DOMAIN r.edits : DOMAIN r.edits[v] \subseteq Columns /\ Over(NoUser, r.edits[v]) \in UserRow
  BY DEF RequestOK
<1>5. DOMAIN old \subseteq Columns /\ Over(NoUser, old) \in UserRow
  <2>1. Over(NoUser, Empty) = NoUser
    BY <1>1 DEF Over, NoUser
  <2> QED
    BY <1>1, <1>4, <2>1, BlankUser
<1>6. DOMAIN e[u] \subseteq Columns
  BY <1>3, <1>4
<1>7. Over(NoUser, e[u]) = [Over(NoUser, old) EXCEPT ![column] = value]
  BY <1>1, <1>2, <1>5 DEF Over, With
<1>8. Over(NoUser, e[u]) \in UserRow
  BY <1>5, <1>7 DEF UserRow, Columns
<1> HIDE DEF e
<1> QED
  BY <1>2, <1>3, <1>4, <1>6, <1>8 DEF Extends, e

LEMMA WriteMineType ==
  ASSUME TypeInv, NEW s \in Slots, WriteMine(s)
  PROVE  TypeInv'
<1> DEFINE r == req[s]
           edits == Edited(r, r.actor, "overrides", r.mine.overrides)
<1>1. RequestOK(r) /\ PlanOK(r) /\ RequestOK(Rest(r)) /\ PlanOK(Rest(r))
  <2>1. Takes(s, "me")
    BY DEF WriteMine
  <2> QED
    BY <2>1, TakesType
<1>2. \/ req' = [req EXCEPT ![s] = Rest(r)]
      \/ req' = [req EXCEPT ![s] = Idle]
      \/ req' = [req EXCEPT ![s] = [Rest(r) EXCEPT !["edits"] = edits]]
  BY DEF WriteMine, AfterUpdate
<1>3. r.actor \in Users /\ r.mine \in UserRow /\ r.me \in UserRow
  BY <1>1 DEF RequestOK
<1>4. [r.mine EXCEPT !["overrides"] = r.mine.overrides] \in UserRow
  BY <1>3 DEF UserRow
<1>5. /\ DOMAIN edits \subseteq Users
      /\ \A v \in DOMAIN edits : DOMAIN edits[v] \subseteq Columns /\ Over(NoUser, edits[v]) \in UserRow
  <2>1. "overrides" \in Columns
    BY DEF Columns
  <2>2. Extends(edits, r, r.actor, "overrides", r.mine.overrides)
    BY <1>1, <1>3, <1>4, <2>1, EditedType
  <2> QED
    BY <2>2 DEF Extends
<1>6. RequestOK([Rest(r) EXCEPT !["edits"] = edits]) /\ PlanOK([Rest(r) EXCEPT !["edits"] = edits])
  BY <1>1, <1>5, FieldType
<1>7. UNCHANGED <<setting, user, requests, told, given, crossed>>
  BY DEF WriteMine
<1> QED
  BY <1>1, <1>2, <1>6, <1>7, IdleOK, OneRequest

\* A column of a row takes what its operation comes with.
LEMMA ColumnType ==
  ASSUME NEW r, RequestOK(r), ValueOK(r), r.op \in Columns
  PROVE  /\ [r.row EXCEPT ![r.op] = r.value] \in UserRow
         /\ r.op \in {"overrides", "role", "cities", "active"}
<1>1. r.op \in {"overrides", "role", "cities", "active"} /\ r.row \in UserRow
  BY DEF RequestOK, Operations, RowOps, Columns
<1>2. CASE r.op = "overrides"
  BY <1>1, <1>2 DEF UserRow, ValueOK
<1>3. CASE r.op = "role"
  BY <1>1, <1>3 DEF UserRow, ValueOK
<1>4. CASE r.op = "cities"
  BY <1>1, <1>4 DEF UserRow, ValueOK
<1>5. CASE r.op = "active"
  BY <1>1, <1>5 DEF UserRow, ValueOK
<1> QED
  BY <1>1, <1>2, <1>3, <1>4, <1>5

LEMMA NewUserType ==
  ASSUME NEW role \in Roles
  PROVE  NewUser(role) \in UserRow /\ Over(NoUser, NewUser(role)) = NewUser(role) /\ DOMAIN NewUser(role) = Columns
<1>1. NewUser(role) = [NoUser EXCEPT !.exists = TRUE, !.active = TRUE, !.role = role]
  BY DEF NewUser, NoUser, Columns
<1>2. NewUser(role) \in UserRow
  BY <1>1, BlankUser DEF UserRow
<1>3. DOMAIN NoUser = Columns /\ DOMAIN NewUser(role) = Columns
  BY DEF NoUser, NewUser, Columns
<1> QED
  BY <1>2, <1>3 DEF Over, NewUser

\* What WriteUser may do to the request.
LEMMA WriteUserCases ==
  ASSUME TypeInv, NEW s \in Slots, WriteUser(s)
  PROVE  LET r == req[s] IN
         \/ req' = [req EXCEPT ![s] = Idle]
         \/ /\ r.op \in Columns /\ r.row[r.op] = r.value /\ req' = [req EXCEPT ![s] = Rest(r)]
         \/ /\ r.op \in Columns /\ r.row[r.op] # r.value /\ user[r.target].exists
            /\ req' = [req EXCEPT ![s] = [Rest(r) EXCEPT !["edits"] = Edited(r, r.target, r.op, r.value)]]
         \/ /\ r.op = "delete" /\ user[r.target].exists
            /\ req' = [req EXCEPT ![s] = [Rest(r) EXCEPT !["edits"] = Edited(r, r.target, "exists", FALSE)]]
         \/ /\ r.op = "new" /\ ~user[r.target].exists
            /\ req' = [req EXCEPT ![s] = [Rest(r) EXCEPT !["edits"] = With(r.edits, r.target, NewUser(r.value))]]
<1>1. Takes(s, "write")
  BY DEF WriteUser
<1>2. Rest(req[s]).edits = req[s].edits
  BY <1>1, TakesType DEF Idle
<1> QED
  BY <1>2 DEF WriteUser, AfterUpdate

LEMMA WriteUserType ==
  ASSUME TypeInv, NEW s \in Slots, WriteUser(s)
  PROVE  TypeInv'
<1> DEFINE r == req[s]
           Change(edits) == req' = [req EXCEPT ![s] = [Rest(r) EXCEPT !["edits"] = edits]]
           EditsOK(edits) == /\ DOMAIN edits \subseteq Users
                             /\ \A v \in DOMAIN edits : DOMAIN edits[v] \subseteq Columns /\ Over(NoUser, edits[v]) \in UserRow
<1>1. RequestOK(r) /\ PlanOK(r) /\ RequestOK(Rest(r)) /\ PlanOK(Rest(r))
  <2>1. Takes(s, "write")
    BY DEF WriteUser
  <2> QED
    BY <2>1, TakesType
<1>2. r.target \in Users /\ r.row \in UserRow /\ ValueOK(r) /\ EditsOK(r.edits)
  BY <1>1 DEF RequestOK, PlanOK
<1>3. UNCHANGED <<setting, user, requests, told, given, crossed>>
  BY DEF WriteUser
<1>4. ASSUME NEW edits, Change(edits), EditsOK(edits) PROVE TypeInv'
  <2>1. RequestOK([Rest(r) EXCEPT !["edits"] = edits]) /\ PlanOK([Rest(r) EXCEPT !["edits"] = edits])
    BY <1>1, <1>4, FieldType
  <2> QED
    BY <1>3, <1>4, <2>1, OneRequest
<1>5. CASE r.op \in Columns /\ Change(Edited(r, r.target, r.op, r.value))
  <2>1. [r.row EXCEPT ![r.op] = r.value] \in UserRow
    BY <1>1, <1>2, <1>5, ColumnType
  <2>2. Extends(Edited(r, r.target, r.op, r.value), r, r.target, r.op, r.value)
    BY <1>1, <1>2, <1>5, <2>1, EditedType
  <2>3. EditsOK(Edited(r, r.target, r.op, r.value))
    BY <2>2 DEF Extends
  <2> QED
    BY <1>4, <1>5, <2>3
<1>6. CASE Change(Edited(r, r.target, "exists", FALSE))
  <2>1. [r.row EXCEPT !["exists"] = FALSE] \in UserRow
    BY <1>2 DEF UserRow
  <2>2. EditsOK(Edited(r, r.target, "exists", FALSE))
    <3>1. "exists" \in Columns
      BY DEF Columns
    <3> QED
      BY <1>1, <1>2, <2>1, <3>1, EditedType DEF Extends
  <2> QED
    BY <1>4, <1>6, <2>2
<1>7. CASE r.op = "new" /\ Change(With(r.edits, r.target, NewUser(r.value)))
  <2>1. r.value \in Roles
    BY <1>2, <1>7 DEF ValueOK
  <2>2. EditsOK(With(r.edits, r.target, NewUser(r.value)))
    BY <1>2, <2>1, NewUserType DEF With
  <2> QED
    BY <1>4, <1>7, <2>2
<1>8. CASE req' = [req EXCEPT ![s] = Idle]
  BY <1>3, <1>8, IdleOK, OneRequest
<1>9. CASE req' = [req EXCEPT ![s] = Rest(r)]
  BY <1>1, <1>3, <1>9, OneRequest
<1> QED
  BY WriteUserCases, <1>5, <1>6, <1>7, <1>8, <1>9

\* The rows after a commit, column by column.
LEMMA CommittedRows ==
  ASSUME TypeInv, NEW s \in Slots, Commit(s), NEW u \in Users
  PROVE  LET r == req[s]
             new == IF u \in DOMAIN r.edits THEN Over(user[u], r.edits[u]) ELSE user[u] IN
         /\ new \in UserRow
         /\ \A c \in Columns : new[c] = IF u \in DOMAIN r.edits /\ c \in DOMAIN r.edits[u] THEN r.edits[u][c] ELSE user[u][c]
         /\ user'[u] = IF new.exists THEN new ELSE NoUser
         /\ user'[u] \in UserRow
<1> DEFINE r == req[s]
           new == IF u \in DOMAIN r.edits THEN Over(user[u], r.edits[u]) ELSE user[u]
<1>1. user[u] \in UserRow /\ RequestOK(r)
  BY DEF TypeInv, TypeOK
<1>2. new \in UserRow
  BY <1>1, OverRow DEF RequestOK
<1>3. \A c \in Columns : new[c] = IF u \in DOMAIN r.edits /\ c \in DOMAIN r.edits[u] THEN r.edits[u][c] ELSE user[u][c]
  BY <1>1, OverRow DEF RequestOK
<1>4. user'[u] = IF new.exists THEN new ELSE NoUser
  BY DEF Commit
<1> QED
  BY <1>2, <1>3, <1>4, BlankUser

LEMMA CommitType ==
  ASSUME TypeInv, NEW s \in Slots, Commit(s)
  PROVE  TypeInv'
<1> DEFINE r == req[s]
<1>1. RequestOK(r) /\ PlanOK(r) /\ SettingOK(setting)
  BY DEF TypeInv, TypeOK
<1>2. SettingOK(setting')
  BY <1>1, OverSetting DEF Commit, RequestOK
<1>3. user' \in [Users -> UserRow]
  <2>1. user' = [u \in Users |-> user'[u]]
    BY DEF Commit
  <2> QED
    BY <2>1, CommittedRows
<1>4. told' \in [Users -> Overrides]
  <2>1. ASSUME NEW u \in Users PROVE told'[u] \in Overrides
    <3>1. told'[u] \in {NoOverrides, told[u]} \/ (r.op = "overrides" /\ told'[u] = r.value)
      BY DEF Commit
    <3> QED
      BY <1>1, <3>1, BlankUser DEF TypeInv, TypeOK, PlanOK, ValueOK
  <2>2. told' = [u \in Users |-> told'[u]]
    BY DEF Commit
  <2> QED
    BY <2>1, <2>2
<1>5. given' \in [Users -> Overrides]
  <2>1. ASSUME NEW u \in Users PROVE given'[u] \in Overrides
    <3> DEFINE g == IF r.op = "overrides" /\ r.target = u
                    THEN [grant |-> given[u].grant \cup r.value.grant, deny |-> given[u].deny \cup r.value.deny]
                    ELSE given[u]
               config == ConfigOf(setting'.perms, user'[u].role)
    <3>1. given'[u] = [grant |-> g.grant \cup config.grant, deny |-> g.deny \cup config.deny]
      BY DEF Commit, Adds
    <3>2. g \in Overrides
      BY <1>1 DEF TypeInv, TypeOK, PlanOK, ValueOK, Overrides
    <3>3. config \in Config
      BY <1>2, ConfigType
    <3> HIDE DEF g, config
    <3> QED
      BY <3>1, <3>2, <3>3 DEF Overrides, Config
  <2>2. given' = [u \in Users |-> given'[u]]
    BY DEF Commit
  <2> QED
    BY <2>1, <2>2
<1>6. requests' \in 0..MaxRequests /\ crossed' \subseteq Users
  BY DEF Commit, TypeInv, TypeOK
<1>7. DOMAIN req' = Slots /\ \A t \in Slots : RequestOK(req'[t]) /\ PlanOK(req'[t])
  BY IdleOK DEF Commit, TypeInv, TypeOK
<1>8. \A t \in Slots : RequestOK(req[t])' /\ PlanOK(req[t])'
  BY <1>7 DEF RequestOK, PlanOK, StatementOK, ValueOK, InOrder, SettingOK, Over, Rank
<1>9. SettingOK(setting)'
  BY <1>2 DEF SettingOK
<1> QED
  BY <1>3, <1>4, <1>5, <1>6, <1>7, <1>8, <1>9 DEF TypeInv, TypeOK

LEMMA TypeStep == TypeInv /\ [Next]_accessVars => TypeInv'
<1> SUFFICES ASSUME TypeInv, [Next]_accessVars PROVE TypeInv'
  OBVIOUS
<1>1. ASSUME NEW s \in Slots, Step(s) PROVE TypeInv'
  <2>1. CASE Aborted(s)
    BY <2>1, IdleOK, OneRequest DEF Aborted
  <2> QED
    BY <1>1, <2>1, ReadType, WriteSettingType, WriteMineType, WriteUserType, CommitType DEF Step
<1>2. CASE UNCHANGED accessVars
  <2>1. \A s \in Slots : RequestOK(req'[s]) /\ PlanOK(req'[s])
    BY <1>2 DEF accessVars, TypeInv, TypeOK
  <2>2. \A s \in Slots : RequestOK(req[s])' /\ PlanOK(req[s])'
    BY <2>1 DEF RequestOK, PlanOK, StatementOK, ValueOK, InOrder, SettingOK, Over, Rank
  <2> QED
    BY <1>2, <2>2 DEF accessVars, TypeInv, TypeOK, SettingOK
<1> QED
  BY <1>1, <1>2, AsksType DEF Next

\* Every row of users and settings, and all that a request holds, keeps its
\* type through every overlap of requests.
THEOREM TypeCorrect == Spec => []TypeOK
<1>1. TypeInv => TypeOK
  BY DEF TypeInv
<1> QED
  BY <1>1, TypeInit, TypeStep, PTL DEF Spec

-----------------------------------------------------------------------------
(* What a permission is worth in the cities: for any row and configuration. *)

\* The restriction to cities and the personal denial come before everything
\* else that resolve_city_scope looks at.
LEMMA ScopeOfRestricted ==
  ASSUME NEW u \in UserRow, NEW config \in Config, NEW p, u.role # SuperAdmin
  PROVE  /\ u.cities # {} => AllowedCityIds(ResolveCityScope(u, p, config)) \subseteq u.cities
         /\ p \in u.overrides.deny => AllowedCityIds(ResolveCityScope(u, p, config)) = {}
<1> DEFINE scope == ResolveCityScope(u, p, config)
           refused == p \in u.overrides.deny \/ ~(p \in u.overrides.grant \/ RoleScope(u.role, p, config).access)
<1>1. refused => scope = Nowhere
  BY DEF ResolveCityScope
<1>2. ~refused /\ u.cities # {} => scope = OnlyIn(u.cities)
  BY DEF ResolveCityScope
<1>3. AllowedCityIds(Nowhere) = {} /\ AllowedCityIds(OnlyIn(u.cities)) = u.cities
  BY DEF AllowedCityIds, Nowhere, OnlyIn
<1> HIDE DEF scope
<1>4. u.cities # {} => AllowedCityIds(scope) \subseteq u.cities
  BY <1>1, <1>2, <1>3
<1>5. p \in u.overrides.deny => AllowedCityIds(scope) = {}
  BY <1>1, <1>3
<1> QED
  BY <1>4, <1>5 DEF scope

LEMMA AccessOfRestricted ==
  ASSUME NEW u \in UserRow, NEW config \in Config, NEW p, u.role # SuperAdmin
  PROVE  /\ u.cities # {} => UserCityAccess(u, p, config) \subseteq u.cities
         /\ p \in u.overrides.deny => UserCityAccess(u, p, config) = {}
<1>1. UserCityAccess(u, p, config) \subseteq AllowedCityIds(ResolveCityScope(u, p, config))
  BY DEF UserCityAccess
<1> QED
  BY <1>1, ScopeOfRestricted

\* Whatever the roles' configurations and the user's own grants become, a user
\* restricted to cities acts and sees in these only, in the panel and in the
\* bot, and what the user is denied is of no use in any city.
THEOREM RestrictionsHold == Spec => []RestrictedStays
<1>1. TypeInv => RestrictedStays
  <2> SUFFICES ASSUME TypeInv, NEW u \in Users, NEW p \in Perms, user[u].role # SuperAdmin,
                      NEW view \in {InPanel(u), user[u]}
               PROVE  /\ user[u].cities # {} => UserCityAccess(view, p, RoleConfig(u)) \subseteq user[u].cities
                      /\ p \in view.overrides.deny => UserCityAccess(view, p, RoleConfig(u)) = {}
    BY DEF RestrictedStays
  <2>1. user[u] \in UserRow /\ RoleConfig(u) \in Config
    BY ConfigType DEF TypeInv, TypeOK, RoleConfig
  <2>2. InPanel(u) \in UserRow /\ InPanel(u).role = user[u].role /\ InPanel(u).cities = user[u].cities
    BY <2>1, MergeType DEF InPanel, RoleConfig, Columns
  <2>3. view \in UserRow /\ view.role # SuperAdmin /\ view.cities = user[u].cities
    BY <2>1, <2>2
  <2> HIDE DEF InPanel, RoleConfig
  <2> QED
    BY <2>1, <2>3, AccessOfRestricted
<1> QED
  BY <1>1, TypeInit, TypeStep, PTL DEF Spec

-----------------------------------------------------------------------------
(* Where the overrides come from. *)

Within(o, g) == o.grant \subseteq g.grant /\ o.deny \subseteq g.deny

\* What a request is about to write into the overrides of u.
Final(r, u) ==
  IF u \in DOMAIN r.edits /\ "overrides" \in DOMAIN r.edits[u] THEN r.edits[u].overrides ELSE user[u].overrides

Sets(r, u) == r.op = "overrides" /\ r.target = u

GivenOK(r) ==
  /\ Within(r.mine.overrides, given[r.actor])
  /\ \A u \in DOMAIN r.edits : "overrides" \in DOMAIN r.edits[u] =>
        Within(r.edits[u].overrides, given[u]) \/ (Sets(r, u) /\ r.edits[u].overrides = r.value)

GivenInv ==
  /\ TypeInv
  /\ \A u \in Users : Within(user[u].overrides, given[u]) /\ Within(RoleConfig(u), given[u])
  /\ \A s \in Slots : GivenOK(req[s])

\* What there is of a request when it begins.
Begun(s, a, r) ==
  /\ req' = [req EXCEPT ![s] = r] /\ UNCHANGED <<setting, user, told, given>> /\ s \notin Open
  /\ r.actor = a /\ r.me = user[a] /\ r.mine = Merged(user[a], RoleConfig(a)) /\ r.edits = Empty /\ r.steps # <<>>
  /\ crossed' = crossed \cup (Touches(r) \cap UNION {Touches(req[t]) : t \in Open})
  /\ r.op = "overrides" => r.steps = <<Reads("row"), Me, Writes("row"), Done>>

LEMMA AskedRequest ==
  ASSUME TypeInv, NEW s \in Slots, NEW a \in Users, Asks(s, a)
  PROVE  \E r : Begun(s, a, r)
<1> USE RolesKnown DEF Operations, RowOps
<1>1. ASSUME NEW op \in Operations, NEW u \in Users, NEW role \in Roles, NEW value, NEW steps,
             Begin(s, a, op, About(u, role, value), steps), steps # <<>>,
             op = "overrides" => steps = <<Reads("row"), Me, Writes("row"), Done>>
      PROVE  \E r : Begun(s, a, r)
  <2>1. PICK r : /\ req' = [req EXCEPT ![s] = r]
                 /\ r.op = op /\ r.actor = a /\ r.target = u /\ r.steps = steps
                 /\ r.me = user[a] /\ r.mine = Merged(user[a], ConfigOf(setting.perms, user[a].role)) /\ r.edits = Empty
    BY <1>1, Opened
  <2>2. /\ s \notin Open /\ UNCHANGED <<setting, user, told, given>>
        /\ crossed' = crossed \cup (({a} \cup (IF op \in RowOps THEN {u} ELSE {})) \cap UNION {Touches(req[t]) : t \in Open})
    BY <1>1 DEF Begin, Touches, About, Idle
  <2>3. Touches(r) = {a} \cup (IF op \in RowOps THEN {u} ELSE {})
    BY <2>1 DEF Touches
  <2> QED
    BY <1>1, <2>1, <2>2, <2>3 DEF Begun, RoleConfig
<1> USE <1>1
<1>2. CASE Visit(s, a)
  BY <1>2 DEF Visit
<1>3. ASSUME NEW role \in Roles, CreateRole(s, a, role) \/ DeleteRole(s, a, role) PROVE \E r : Begun(s, a, r)
  <2>1. CASE CreateRole(s, a, role)
    BY <2>1 DEF CreateRole
  <2>2. CASE DeleteRole(s, a, role)
    BY <2>2 DEF DeleteRole
  <2> QED
    BY <1>3, <2>1, <2>2
<1>4. ASSUME NEW t \in Payloads, SetRolePermissions(s, a, t) PROVE \E r : Begun(s, a, r)
  BY <1>4 DEF SetRolePermissions
<1>5. ASSUME NEW u \in Users, NEW op \in {"overrides", "role", "cities", "active"}, NEW value, UpdateUser(s, a, u, op, value)
      PROVE  \E r : Begun(s, a, r)
  BY <1>5 DEF UpdateUser
<1>6. ASSUME NEW u \in Users, NEW role \in Roles, CreateUser(s, a, u, role) PROVE \E r : Begun(s, a, r)
  BY <1>6 DEF CreateUser
<1>7. ASSUME NEW u \in Users, DeleteUser(s, a, u) PROVE \E r : Begun(s, a, r)
  BY <1>7 DEF DeleteUser
<1> QED
  BY <1>2, <1>3, <1>4, <1>5, <1>6, <1>7 DEF Asks

LEMMA IdleBlank ==
  Idle.actor \in Users /\ Idle.mine.overrides = NoOverrides /\ DOMAIN Idle.edits = {}
  BY IdleOK DEF Idle, NoUser, Empty, RequestOK

\* A request that comes to nothing.
LEMMA GivenIdle == GivenOK(Idle)
  BY IdleBlank DEF GivenOK, Within, NoOverrides

LEMMA GivenInit == Init => GivenInv
<1> SUFFICES ASSUME Init PROVE GivenInv
  OBVIOUS
<1>1. \A u \in Users : user[u].overrides = NoOverrides /\ given[u] = NoOverrides
  BY DEF Init, NoUser
<1>2. \A u \in Users : RoleConfig(u).grant = {} /\ RoleConfig(u).deny = {}
  <2>1. setting.perms = Empty /\ DOMAIN Empty = {}
    BY DEF Init, Empty
  <2> QED
    BY <2>1 DEF RoleConfig, ConfigOf, NoConfig
<1>3. \A s \in Slots : GivenOK(req[s])
  BY GivenIdle DEF Init
<1> QED
  BY <1>1, <1>2, <1>3, TypeInit DEF GivenInv, Within, NoOverrides

LEMMA GivenOneRequest ==
  ASSUME GivenInv, TypeInv', NEW s \in Slots, NEW r, GivenOK(r), req' = [req EXCEPT ![s] = r],
         UNCHANGED <<setting, user, given>>
  PROVE  GivenInv'
<1>1. \A t \in Slots : GivenOK(req'[t])
  BY DEF GivenInv, TypeInv, TypeOK
<1>2. \A t \in Slots : GivenOK(req[t])'
  BY <1>1 DEF GivenOK, Within, Sets
<1> QED
  BY <1>2 DEF GivenInv, RoleConfig, ConfigOf, Within

LEMMA GivenRest ==
  ASSUME GivenInv, NEW s \in Slots, NEW verb, Takes(s, verb)
  PROVE  /\ GivenOK(Rest(req[s]))
         /\ RequestOK(Rest(req[s]))
         /\ \A f \in DOMAIN Idle \ {"steps"} : Rest(req[s])[f] = req[s][f]
<1>1. RequestOK(Rest(req[s])) /\ \A f \in DOMAIN Idle \ {"steps"} : Rest(req[s])[f] = req[s][f]
  BY TakesType DEF GivenInv
<1>2. GivenOK(req[s])
  BY DEF GivenInv
<1>3. /\ Rest(req[s]).mine = req[s].mine /\ Rest(req[s]).actor = req[s].actor /\ Rest(req[s]).edits = req[s].edits
      /\ Rest(req[s]).op = req[s].op /\ Rest(req[s]).target = req[s].target /\ Rest(req[s]).value = req[s].value
  BY <1>1 DEF Idle
<1> QED
  BY <1>1, <1>2, <1>3 DEF GivenOK, Sets

\* Changing what the request has read, or what it wrote about settings.
LEMMA GivenField ==
  ASSUME NEW r, RequestOK(r), GivenOK(r), NEW f \in {"row", "seen", "writes"}, NEW value
  PROVE  GivenOK([r EXCEPT ![f] = value])
<1> DEFINE q == [r EXCEPT ![f] = value]
<1>1. q.mine = r.mine /\ q.actor = r.actor /\ q.edits = r.edits /\ q.op = r.op /\ q.target = r.target /\ q.value = r.value
  BY DEF RequestOK, Idle
<1> QED
  BY <1>1 DEF GivenOK, Sets

\* Changing what it wrote about users.
LEMMA GivenEdits ==
  ASSUME NEW r, RequestOK(r), GivenOK(r), NEW u, NEW edits, DOMAIN edits = DOMAIN r.edits \cup {u},
         \A v \in DOMAIN edits \ {u} : edits[v] = r.edits[v],
         "overrides" \in DOMAIN edits[u] =>
            \/ Within(edits[u]["overrides"], given[u])
            \/ Sets(r, u) /\ edits[u]["overrides"] = r.value
            \/ /\ u \in DOMAIN r.edits /\ "overrides" \in DOMAIN r.edits[u]
               /\ edits[u]["overrides"] = r.edits[u]["overrides"]
  PROVE  GivenOK([r EXCEPT !["edits"] = edits])
<1> DEFINE q == [r EXCEPT !["edits"] = edits]
<1>1. q.mine = r.mine /\ q.actor = r.actor /\ q.edits = edits /\ q.op = r.op /\ q.target = r.target /\ q.value = r.value
  BY DEF RequestOK, Idle
<1> HIDE DEF q
<1> QED
  BY <1>1 DEF GivenOK, Sets, q

LEMMA GivenAsks ==
  ASSUME GivenInv, NEW s \in Slots, NEW a \in Users, Asks(s, a)
  PROVE  GivenInv'
<1>1. TypeInv'
  BY AsksType DEF GivenInv
<1>2. PICK r : Begun(s, a, r)
  BY AskedRequest DEF GivenInv
<1>3. user[a] \in UserRow /\ RoleConfig(a) \in Config
  BY ConfigType DEF GivenInv, TypeInv, TypeOK, RoleConfig
<1>4. Within(user[a].overrides, given[a]) /\ Within(RoleConfig(a), given[a])
  BY DEF GivenInv
<1>5. Within(r.mine.overrides, given[a])
  BY <1>2, <1>3, <1>4, MergeType DEF Begun, Within
<1>6. GivenOK(r)
  BY <1>2, <1>5 DEF Begun, GivenOK, Empty
<1> QED
  BY <1>1, <1>2, <1>6, GivenOneRequest DEF Begun

LEMMA GivenRead ==
  ASSUME GivenInv, NEW s \in Slots, Read(s)
  PROVE  GivenInv'
<1>1. TypeInv'
  BY ReadType DEF GivenInv
<1>2. \/ req' = [req EXCEPT ![s] = Idle]
      \/ \E f \in {"row", "seen"} : \E value : req' = [req EXCEPT ![s] = [Rest(req[s]) EXCEPT ![f] = value]]
  BY DEF Read
<1>3. GivenOK(Rest(req[s])) /\ RequestOK(Rest(req[s]))
  BY GivenRest DEF Read
<1>4. CASE req' = [req EXCEPT ![s] = Idle]
  BY <1>1, <1>4, GivenIdle, GivenOneRequest DEF GivenInv, Read
<1>5. ASSUME NEW f \in {"row", "seen"}, NEW value, req' = [req EXCEPT ![s] = [Rest(req[s]) EXCEPT ![f] = value]]
      PROVE  GivenInv'
  <2>1. GivenOK([Rest(req[s]) EXCEPT ![f] = value])
    BY <1>3, GivenField
  <2> QED
    BY <1>1, <1>5, <2>1, GivenOneRequest DEF Read
<1> QED
  BY <1>2, <1>4, <1>5

LEMMA GivenWriteSetting ==
  ASSUME GivenInv, NEW s \in Slots, WriteSetting(s)
  PROVE  GivenInv'
<1>1. TypeInv'
  BY WriteSettingType DEF GivenInv
<1>2. \/ req' = [req EXCEPT ![s] = Rest(req[s])]
      \/ \E value : req' = [req EXCEPT ![s] = [Rest(req[s]) EXCEPT !["writes"] = value]]
  BY DEF WriteSetting
<1>3. GivenOK(Rest(req[s])) /\ RequestOK(Rest(req[s]))
  BY GivenRest DEF WriteSetting
<1>4. CASE req' = [req EXCEPT ![s] = Rest(req[s])]
  BY <1>1, <1>3, <1>4, GivenOneRequest DEF WriteSetting
<1>5. ASSUME NEW value, req' = [req EXCEPT ![s] = [Rest(req[s]) EXCEPT !["writes"] = value]]
      PROVE  GivenInv'
  <2>1. GivenOK([Rest(req[s]) EXCEPT !["writes"] = value])
    BY <1>3, GivenField
  <2> QED
    BY <1>1, <1>5, <2>1, GivenOneRequest DEF WriteSetting
<1> QED
  BY <1>2, <1>4, <1>5

LEMMA GivenWriteMine ==
  ASSUME GivenInv, NEW s \in Slots, WriteMine(s)
  PROVE  GivenInv'
<1> DEFINE r == req[s]
           q == Rest(r)
           edits == Edited(r, r.actor, "overrides", r.mine.overrides)
<1>1. TypeInv'
  BY WriteMineType DEF GivenInv
<1>2. \/ req' = [req EXCEPT ![s] = q]
      \/ req' = [req EXCEPT ![s] = Idle]
      \/ req' = [req EXCEPT ![s] = [q EXCEPT !["edits"] = edits]]
  BY DEF WriteMine, AfterUpdate
<1>3. GivenOK(q) /\ RequestOK(q) /\ q.edits = r.edits
  <2>1. Takes(s, "me")
    BY DEF WriteMine
  <2> QED
    BY <2>1, GivenRest DEF Idle
<1>4. UNCHANGED <<setting, user, given>>
  BY DEF WriteMine
<1>5. RequestOK(r) /\ r.actor \in Users /\ r.mine \in UserRow /\ Within(r.mine.overrides, given[r.actor])
  BY DEF GivenInv, TypeInv, TypeOK, GivenOK, RequestOK
<1>6. GivenOK([q EXCEPT !["edits"] = edits])
  <2>1. "overrides" \in Columns /\ [r.mine EXCEPT !["overrides"] = r.mine.overrides] \in UserRow
    BY <1>5 DEF UserRow, Columns
  <2>2. Extends(edits, r, r.actor, "overrides", r.mine.overrides)
    BY <1>5, <2>1, EditedType
  <2> HIDE DEF edits, q
  <2>3. /\ DOMAIN edits = DOMAIN q.edits \cup {r.actor}
        /\ \A v \in DOMAIN edits \ {r.actor} : edits[v] = q.edits[v]
        /\ edits[r.actor]["overrides"] = r.mine.overrides
    BY <1>3, <2>2 DEF Extends
  <2>4. Within(edits[r.actor]["overrides"], given[r.actor])
    BY <1>5, <2>3
  <2> QED
    BY <1>3, <2>3, <2>4, GivenEdits
<1> QED
  BY <1>1, <1>2, <1>3, <1>4, <1>6, GivenIdle, GivenOneRequest DEF GivenInv

LEMMA GivenWriteUser ==
  ASSUME GivenInv, NEW s \in Slots, WriteUser(s)
  PROVE  GivenInv'
<1> DEFINE r == req[s]
           q == Rest(r)
           Change(edits) == req' = [req EXCEPT ![s] = [q EXCEPT !["edits"] = edits]]
<1>1. TypeInv' /\ TypeInv
  BY WriteUserType DEF GivenInv
<1>2. RequestOK(r) /\ ValueOK(r) /\ r.target \in Users /\ r.row \in UserRow
  BY <1>1 DEF TypeInv, TypeOK, RequestOK, PlanOK
<1>3. GivenOK(q) /\ RequestOK(q) /\ q.edits = r.edits /\ q.op = r.op /\ q.target = r.target /\ q.value = r.value
  <2>1. Takes(s, "write")
    BY DEF WriteUser
  <2> QED
    BY <2>1, GivenRest DEF Idle
<1>4. UNCHANGED <<setting, user, given>>
  BY DEF WriteUser
<1>5. ASSUME NEW edits, Change(edits), GivenOK([q EXCEPT !["edits"] = edits]) PROVE GivenInv'
  BY <1>1, <1>4, <1>5, GivenOneRequest
<1>6. ASSUME NEW column \in Columns, NEW value, Change(Edited(r, r.target, column, value)),
             [r.row EXCEPT ![column] = value] \in UserRow,
             column = "overrides" => r.op = "overrides" /\ value = r.value
      PROVE  GivenInv'
  <2> DEFINE edits == Edited(r, r.target, column, value)
  <2>1. Extends(edits, r, r.target, column, value)
    BY <1>2, <1>6, EditedType
  <2> HIDE DEF edits, q
  <2>2. /\ DOMAIN edits = DOMAIN q.edits \cup {r.target}
        /\ \A v \in DOMAIN edits \ {r.target} : edits[v] = q.edits[v]
        /\ "overrides" \in DOMAIN edits[r.target] =>
              \/ Sets(q, r.target) /\ edits[r.target]["overrides"] = q.value
              \/ /\ r.target \in DOMAIN q.edits /\ "overrides" \in DOMAIN q.edits[r.target]
                 /\ edits[r.target]["overrides"] = q.edits[r.target]["overrides"]
    BY <1>3, <1>6, <2>1 DEF Extends, Sets
  <2>3. GivenOK([q EXCEPT !["edits"] = edits])
    BY <1>3, <2>2, GivenEdits
  <2> QED
    BY <1>5, <1>6, <2>3 DEF edits
<1>7. CASE r.op \in Columns /\ Change(Edited(r, r.target, r.op, r.value))
  <2>1. [r.row EXCEPT ![r.op] = r.value] \in UserRow
    BY <1>2, <1>7, ColumnType
  <2> QED
    BY <1>6, <1>7, <2>1
<1>8. CASE Change(Edited(r, r.target, "exists", FALSE))
  <2>1. [r.row EXCEPT !["exists"] = FALSE] \in UserRow /\ "exists" \in Columns
    BY <1>2 DEF UserRow, Columns
  <2> QED
    BY <1>6, <1>8, <2>1
<1>9. CASE r.op = "new" /\ Change(With(r.edits, r.target, NewUser(r.value)))
  <2> DEFINE edits == With(r.edits, r.target, NewUser(r.value))
  <2>1. /\ DOMAIN edits = DOMAIN q.edits \cup {r.target} /\ edits[r.target] = NewUser(r.value)
        /\ \A v \in DOMAIN edits \ {r.target} : edits[v] = q.edits[v]
    BY <1>3 DEF With
  <2>2. NewUser(r.value).overrides = NoOverrides
    BY DEF NewUser, Columns, NoUser
  <2>3. Within(edits[r.target]["overrides"], given[r.target])
    BY <2>1, <2>2 DEF Within, NoOverrides
  <2> HIDE DEF edits, q
  <2>4. GivenOK([q EXCEPT !["edits"] = edits])
    BY <1>3, <2>1, <2>3, GivenEdits
  <2> QED
    BY <1>5, <1>9, <2>4 DEF edits
<1>10. CASE req' = [req EXCEPT ![s] = Idle]
  BY <1>1, <1>4, <1>10, GivenIdle, GivenOneRequest
<1>11. CASE req' = [req EXCEPT ![s] = q]
  BY <1>1, <1>3, <1>4, <1>11, GivenOneRequest
<1> QED
  BY <1>1, WriteUserCases, <1>7, <1>8, <1>9, <1>10, <1>11

LEMMA GivenCommit ==
  ASSUME GivenInv, NEW s \in Slots, Commit(s)
  PROVE  GivenInv'
<1> DEFINE r == req[s]
<1>1. TypeInv' /\ TypeInv
  BY CommitType DEF GivenInv
<1>2. ASSUME NEW u \in Users
      PROVE  /\ given[u] \in Overrides /\ Within(given[u], given'[u])
             /\ Sets(r, u) => Within(r.value, given'[u])
             /\ Within(ConfigOf(setting'.perms, user'[u].role), given'[u])
  <2> DEFINE g == IF r.op = "overrides" /\ r.target = u
                  THEN [grant |-> given[u].grant \cup r.value.grant, deny |-> given[u].deny \cup r.value.deny]
                  ELSE given[u]
             config == ConfigOf(setting'.perms, user'[u].role)
  <2>1. given'[u] = [grant |-> g.grant \cup config.grant, deny |-> g.deny \cup config.deny]
    BY DEF Commit, Adds
  <2>2. given[u] \in Overrides
    BY <1>1 DEF TypeInv, TypeOK
  <2>3. Within(given[u], g) /\ (Sets(r, u) => Within(r.value, g))
    BY DEF Within, Sets
  <2> HIDE DEF g, config
  <2>4. Within(g, given'[u]) /\ Within(config, given'[u])
    BY <2>1 DEF Within
  <2> QED
    BY <2>2, <2>3, <2>4 DEF Within, config
<1>3. GivenOK(r) /\ RequestOK(r)
  BY DEF GivenInv, TypeInv, TypeOK
<1>4. \A u \in Users : Within(user'[u].overrides, given'[u])
  <2> SUFFICES ASSUME NEW u \in Users PROVE Within(user'[u].overrides, given'[u])
    OBVIOUS
  <2> DEFINE new == IF u \in DOMAIN r.edits THEN Over(user[u], r.edits[u]) ELSE user[u]
  <2>1. /\ new["overrides"] = IF u \in DOMAIN r.edits /\ "overrides" \in DOMAIN r.edits[u]
                              THEN r.edits[u]["overrides"] ELSE user[u]["overrides"]
        /\ user'[u] = IF new.exists THEN new ELSE NoUser
    BY <1>1, CommittedRows DEF Columns
  <2>2. Within(user[u].overrides, given[u])
    BY DEF GivenInv
  <2>3. Within(new.overrides, given'[u])
    BY <1>2, <1>3, <2>1, <2>2 DEF GivenOK, Within
  <2>4. Within(NoUser.overrides, given'[u])
    BY DEF NoUser, NoOverrides, Within
  <2> HIDE DEF new
  <2> QED
    BY <2>1, <2>3, <2>4
<1>5. \A t \in Slots : GivenOK(req[t])'
  <2> SUFFICES ASSUME NEW t \in Slots PROVE GivenOK(req[t])'
    OBVIOUS
  <2>1. req'[t] = Idle \/ req'[t] = req[t]
    BY <1>1 DEF Commit, TypeInv, TypeOK
  <2>2. CASE req'[t] = Idle
    BY <2>2, IdleBlank DEF GivenOK, Within, NoOverrides
  <2>3. CASE req'[t] = req[t]
    <3>1. GivenOK(req[t]) /\ req[t].actor \in Users /\ DOMAIN req[t].edits \subseteq Users
      BY <1>1 DEF GivenInv, TypeInv, TypeOK, RequestOK
    <3> QED
      BY <1>2, <2>3, <3>1 DEF GivenOK, Within, Sets
  <2> QED
    BY <2>1, <2>2, <2>3
<1> QED
  BY <1>1, <1>2, <1>4, <1>5 DEF GivenInv, RoleConfig

\* Nobody has an override in their row that an editor did not set for them and
\* that no role of theirs gave, although every request writes back what it
\* merged of rows and role settings that others have changed since.
THEOREM OverridesAreGiven == Spec => []OverridesWereGiven
<1>1. GivenInv /\ [Next]_accessVars => GivenInv'
  <2> SUFFICES ASSUME GivenInv, [Next]_accessVars PROVE GivenInv'
    OBVIOUS
  <2>1. ASSUME NEW s \in Slots, Aborted(s) PROVE GivenInv'
    BY <2>1, TypeStep, IdleOK, GivenIdle, GivenOneRequest, OneRequest DEF Aborted, GivenInv
  <2>2. ASSUME NEW s \in Slots, Step(s) PROVE GivenInv'
    BY <2>1, <2>2, GivenRead, GivenWriteSetting, GivenWriteMine, GivenWriteUser, GivenCommit DEF Step
  <2>3. CASE UNCHANGED accessVars
    <3>1. TypeInv'
      BY TypeStep DEF GivenInv
    <3>2. \A s \in Slots : GivenOK(req[s])'
      BY <2>3 DEF accessVars, GivenInv, GivenOK, Within, Sets
    <3> QED
      BY <2>3, <3>1, <3>2 DEF accessVars, GivenInv, RoleConfig, ConfigOf, Within
  <2> QED
    BY <2>2, <2>3, GivenAsks DEF Next
<1>2. GivenInv => OverridesWereGiven
  BY DEF GivenInv, OverridesWereGiven, Within
<1> QED
  BY <1>1, <1>2, GivenInit, PTL DEF Spec

-----------------------------------------------------------------------------
(* Where the overrides go. *)

Ahead(r, st) == \E i \in 1..Len(r.steps) : r.steps[i] = st

\* What a request that nobody crosses has to do with the overrides of u: the
\* row it came with is still the committed one, it writes back more than it
\* found, and what an editor sets is written after that.
Faithful(r, u) ==
  /\ u = r.actor => r.me = user[u] /\ Within(user[u].overrides, r.mine.overrides)
  /\ Sets(r, u) =>
        /\ Ahead(r, Me) => Ahead(r, Writes("row")) /\ Final(r, u) = user[u].overrides
        /\ Ahead(r, Writes("row")) /\ ~Ahead(r, Reads("row")) =>
              r.row = IF u = r.actor THEN r.mine ELSE user[u]
        /\ Ahead(r, Writes("row")) /\ ~Ahead(r, Me) =>
              Final(r, u) = IF u = r.actor THEN r.mine.overrides ELSE user[u].overrides
        /\ ~Ahead(r, Writes("row")) => Final(r, u) = r.value
  /\ ~Sets(r, u) \/ Ahead(r, Writes("row")) => Within(told[u], Final(r, u))

FaithfulOK(r) ==
  /\ DOMAIN r.edits \subseteq Touches(r)
  /\ \A u \in Touches(r) \ crossed : Faithful(r, u)

StickInv ==
  /\ TypeInv
  /\ OverridesStick
  /\ \A u \in Users : ~user[u].exists => user[u] = NoUser /\ told[u] = NoOverrides
  /\ \A s \in Open : FaithfulOK(req[s])
  /\ \A s, t \in Open : s # t => Touches(req[s]) \cap Touches(req[t]) \subseteq crossed

\* The plan of a request after its next statement.
LEMMA AheadRest ==
  ASSUME TypeInv, NEW s \in Slots, NEW verb, Takes(s, verb)
  PROVE  /\ \A st : Rank(st) # 5 => (Ahead(Rest(req[s]), st) <=> Ahead(req[s], st) /\ st # Next1(req[s]))
         /\ \A st : Ahead(Rest(req[s]), st) => Rank(st) >= Rank(Next1(req[s]))
         /\ Ahead(req[s], Next1(req[s]))
<1> DEFINE r == req[s]
           q == Rest(r)
<1>1. RequestOK(r) /\ PlanOK(r) /\ r.steps # <<>>
  BY TakesType
<1>2. /\ r.steps \in Seq(Statements) /\ Len(r.steps) \in Nat /\ Len(r.steps) > 0 /\ Next1(r) = r.steps[1]
      /\ Len(q.steps) = Len(r.steps) - 1
  <2>1. r.steps \in Seq(Statements) /\ q.steps = Tail(r.steps)
    BY <1>1, RestType DEF RequestOK
  <2> HIDE DEF q
  <2> QED
    BY <1>1, <2>1 DEF Next1
<1>3. \A i \in 1..Len(q.steps) :
          q.steps[i] = r.steps[i + 1] /\ Rank(q.steps[i]) >= Rank(Next1(r))
                                 /\ (Rank(Next1(r)) # 5 => Rank(q.steps[i]) > Rank(Next1(r)))
  BY <1>1, RestType
<1> HIDE DEF q
<1>4. ASSUME NEW st, Ahead(q, st)
      PROVE  Ahead(r, st) /\ Rank(st) >= Rank(Next1(r)) /\ (Rank(Next1(r)) # 5 => Rank(st) > Rank(Next1(r)))
  <2>1. PICK i \in 1..Len(q.steps) : q.steps[i] = st
    BY <1>4 DEF Ahead
  <2>2. i + 1 \in 1..Len(r.steps) /\ r.steps[i + 1] = st
    BY <1>2, <1>3, <2>1
  <2> QED
    BY <1>3, <2>1, <2>2 DEF Ahead
<1>5. ASSUME NEW st, Ahead(r, st), st # Next1(r)
      PROVE  Ahead(q, st)
  <2>1. PICK i \in 1..Len(r.steps) : r.steps[i] = st
    BY <1>5 DEF Ahead
  <2>2. i - 1 \in 1..Len(q.steps) /\ (i - 1) + 1 = i
    BY <1>2, <1>5, <2>1
  <2>3. q.steps[i - 1] = st
    BY <1>3, <2>1, <2>2
  <2> QED
    BY <2>2, <2>3 DEF Ahead
<1>6. \A st : Rank(st) \in 1..6
  BY DEF Rank
<1>7. \A st : Rank(st) # 5 /\ Ahead(q, st) => st # Next1(r)
  <2> SUFFICES ASSUME NEW st, Rank(st) # 5, Ahead(q, st), st = Next1(r) PROVE FALSE
    OBVIOUS
  <2>1. Rank(Next1(r)) > Rank(Next1(r))
    BY <1>4
  <2>2. Rank(Next1(r)) \in Int
    BY <1>6
  <2> QED
    BY <2>1, <2>2
<1>8. Ahead(r, Next1(r))
  <2>1. 1 \in 1..Len(r.steps)
    BY <1>2
  <2> QED
    BY <1>2, <2>1 DEF Ahead
<1> QED
  BY <1>4, <1>5, <1>7, <1>8 DEF q

\* Which statement it is, from what the action says of it.
LEMMA WhichStatement ==
  ASSUME TypeInv, NEW s \in Slots
  PROVE  /\ \A verb \in {"read", "write"} : Takes(s, verb) => Next1(req[s]) = <<verb, Subject(s)>>
         /\ Takes(s, "me") => Next1(req[s]) = Me
         /\ Takes(s, "commit") => Next1(req[s]) = Done
<1> SUFFICES ASSUME NEW verb, Takes(s, verb)
             PROVE  /\ verb \in {"read", "write"} => Next1(req[s]) = <<verb, Subject(s)>>
                    /\ verb = "me" => Next1(req[s]) = Me
                    /\ verb = "commit" => Next1(req[s]) = Done
  OBVIOUS
<1>1. Next1(req[s]) \in Statements /\ Next1(req[s])[1] = verb /\ Next1(req[s])[2] = Subject(s)
  BY TakesType DEF Subject
<1>2. CASE Next1(req[s]) \in {"read", "write"} \X (Keys \cup {"row"})
  <2>1. Next1(req[s]) = <<Next1(req[s])[1], Next1(req[s])[2]>> /\ Next1(req[s])[1] \in {"read", "write"}
    BY <1>2
  <2> QED
    BY <1>1, <2>1
<1>3. CASE Next1(req[s]) \in {Me, Done}
  BY <1>1, <1>3, StatementFacts
<1> QED
  BY <1>1, <1>2, <1>3 DEF Statements

\* What of the plan concerns the users' rows.
OnRow == {Reads("row"), Me, Writes("row")}

LEMMA OnRowRank ==
  /\ \A st \in OnRow : Rank(st) \in 1..4
  /\ Reads("row") # Me /\ Writes("row") # Me /\ Reads("row") # Writes("row")
  BY RankFacts DEF OnRow

\* A change that leaves alone the row the request has read, its edits of users,
\* and what it has still to do with rows.
LEMMA FaithfulSame ==
  ASSUME NEW r, NEW q, NEW u, Faithful(r, u),
         q.op = r.op, q.actor = r.actor, q.target = r.target, q.value = r.value,
         q.me = r.me, q.mine = r.mine, q.row = r.row, q.edits = r.edits,
         \A st \in OnRow : Ahead(q, st) <=> Ahead(r, st)
  PROVE  Faithful(q, u)
<1>1. Final(q, u) = Final(r, u) /\ (Sets(q, u) <=> Sets(r, u))
  BY DEF Final, Sets
<1>2. /\ Ahead(q, Reads("row")) <=> Ahead(r, Reads("row"))
      /\ Ahead(q, Writes("row")) <=> Ahead(r, Writes("row"))
      /\ Ahead(q, Me) <=> Ahead(r, Me)
  BY DEF OnRow
<1> QED
  BY <1>1, <1>2 DEF Faithful

LEMMA StickInit == Init => StickInv
<1> SUFFICES ASSUME Init PROVE StickInv
  OBVIOUS
<1>1. \A u \in Users : told[u] = NoOverrides
  BY DEF Init
<1>2. \A u \in Users : ~user[u].exists => user[u] = NoUser
  BY DEF Init, NoUser
<1>3. Open = {}
  BY IdleOK DEF Init, Open
<1> QED
  BY <1>1, <1>2, <1>3, TypeInit DEF StickInv, OverridesStick, NoOverrides

\* A statement of one request: nothing is committed.
LEMMA StickOneRequest ==
  ASSUME StickInv, TypeInv', NEW s \in Open, NEW q, req' = [req EXCEPT ![s] = q],
         q.steps = <<>> \/ (FaithfulOK(q) /\ Touches(q) = Touches(req[s])),
         UNCHANGED <<user, told, crossed>>
  PROVE  StickInv'
<1>1. /\ DOMAIN req = Slots /\ s \in Slots /\ req'[s] = q
      /\ \A t \in Slots \ {s} : req'[t] = req[t]
  BY DEF StickInv, TypeInv, TypeOK, Open
<1>2. \A t \in Open' : t \in Open /\ Touches(req'[t]) = Touches(req[t])
  BY <1>1 DEF Open
<1>3. ASSUME NEW t \in Open' PROVE FaithfulOK(req[t])'
  <2>1. t \in Open /\ FaithfulOK(req'[t])
    BY <1>1, <1>2 DEF StickInv, Open
  <2>2. user' = user /\ told' = told /\ crossed' = crossed
    OBVIOUS
  <2>3. DOMAIN req'[t].edits \subseteq Touches(req[t])' /\ Touches(req[t])' = Touches(req'[t])
    BY ONLY <2>1 DEF FaithfulOK, Touches
  <2>4. ASSUME NEW u \in Touches(req'[t]) \ crossed PROVE Faithful(req[t], u)'
    <3>1. Faithful(req'[t], u)
      BY ONLY <2>1, <2>4 DEF FaithfulOK
    <3> QED
      BY ONLY <2>2, <3>1 DEF Faithful, Final, Sets, Within, Ahead
  <2> QED
    BY ONLY <2>2, <2>3, <2>4 DEF FaithfulOK
<1>4. ASSUME NEW t1 \in Open', NEW t2 \in Open', t1 # t2
      PROVE  Touches(req'[t1]) \cap Touches(req'[t2]) \subseteq crossed
  BY <1>2, <1>4 DEF StickInv
<1>5. \A t1, t2 \in Open' : t1 # t2 => (Touches(req[t1]) \cap Touches(req[t2]) \subseteq crossed)'
  BY <1>4 DEF Touches
<1> QED
  BY <1>3, <1>5 DEF StickInv, OverridesStick

LEMMA StickAsks ==
  ASSUME StickInv, NEW s \in Slots, NEW a \in Users, Asks(s, a)
  PROVE  StickInv'
<1>1. TypeInv' /\ TypeInv
  BY AsksType DEF StickInv
<1>2. PICK r : Begun(s, a, r)
  BY <1>1, AskedRequest
<1>3. /\ DOMAIN req = Slots /\ req'[s] = r /\ \A t \in Slots \ {s} : req'[t] = req[t]
      /\ Open' = Open \cup {s} /\ s \notin Open /\ UNCHANGED <<setting, user, told, given>>
      /\ crossed \subseteq crossed' /\ Touches(r) \cap UNION {Touches(req[t]) : t \in Open} \subseteq crossed'
  BY <1>1, <1>2 DEF Begun, TypeInv, TypeOK, Open
<1>4. user[a] \in UserRow /\ RoleConfig(a) \in Config
  BY <1>1, ConfigType DEF TypeInv, TypeOK, RoleConfig
<1>5. ASSUME NEW u \in Touches(r) \ crossed' PROVE Faithful(r, u)
  <2>1. u \in Users /\ u \notin crossed
    <3>1. r.actor \in Users /\ r.target \in Users
      BY <1>1, <1>3 DEF TypeInv, TypeOK, RequestOK
    <3> QED
      BY <1>3, <3>1 DEF Touches
  <2>2. Within(told[u], user[u].overrides) /\ Final(r, u) = user[u].overrides
    BY <1>2, <2>1 DEF StickInv, OverridesStick, Within, Begun, Final, Empty
  <2>3. u = r.actor => r.me = user[u] /\ Within(user[u].overrides, r.mine.overrides)
    BY <1>2, <1>4, MergeType DEF Begun, Within
  <2>4. Sets(r, u) => Ahead(r, Reads("row")) /\ Ahead(r, Me) /\ Ahead(r, Writes("row"))
    <3>1. SUFFICES ASSUME Sets(r, u) PROVE Ahead(r, Reads("row")) /\ Ahead(r, Me) /\ Ahead(r, Writes("row"))
      OBVIOUS
    <3>2. r.steps = <<Reads("row"), Me, Writes("row"), Done>>
      BY <1>2, <3>1 DEF Begun, Sets
    <3>3. /\ Len(r.steps) = 4 /\ 1 \in 1..4 /\ 2 \in 1..4 /\ 3 \in 1..4
          /\ r.steps[1] = Reads("row") /\ r.steps[2] = Me /\ r.steps[3] = Writes("row")
      BY <3>2
    <3> QED
      BY <3>3 DEF Ahead
  <2> QED
    BY <2>2, <2>3, <2>4 DEF Faithful
<1>6. ASSUME NEW t \in Open' PROVE FaithfulOK(req[t])'
  <2>1. DOMAIN req'[t].edits \subseteq Touches(req'[t])
    <3>1. CASE t = s
      BY <1>2, <1>3, <3>1 DEF Begun, Empty
    <3>2. CASE t # s
      BY <1>3, <3>2 DEF StickInv, FaithfulOK, Open
    <3> QED
      BY <3>1, <3>2
  <2>2. \A u \in Touches(req'[t]) \ crossed' : Faithful(req'[t], u)
    <3>1. CASE t = s
      BY <1>3, <1>5, <3>1
    <3>2. CASE t # s
      BY <1>3, <3>2 DEF StickInv, FaithfulOK, Open
    <3> QED
      BY <3>1, <3>2
  <2>3. user' = user /\ told' = told
    BY <1>3
  <2>4. \A u : Faithful(req'[t], u) => Faithful(req[t], u)'
    BY <2>3 DEF Faithful, Final, Sets, Within, Ahead
  <2> QED
    BY <2>1, <2>2, <2>4 DEF FaithfulOK, Touches
<1>7. ASSUME NEW t1 \in Open', NEW t2 \in Open', t1 # t2
      PROVE  Touches(req'[t1]) \cap Touches(req'[t2]) \subseteq crossed'
  <2>1. CASE t1 = s
    BY <1>3, <1>7, <2>1 DEF Open
  <2>2. CASE t2 = s
    BY <1>3, <1>7, <2>2 DEF Open
  <2>3. CASE t1 # s /\ t2 # s
    BY <1>3, <1>7, <2>3 DEF StickInv, Open
  <2> QED
    BY <2>1, <2>2, <2>3
<1>8. \A t1, t2 \in Open' : t1 # t2 => (Touches(req[t1]) \cap Touches(req[t2]) \subseteq crossed)'
  BY <1>7 DEF Touches
<1>9. OverridesStick'
  BY <1>3 DEF StickInv, OverridesStick
<1> QED
  BY <1>1, <1>3, <1>6, <1>8, <1>9 DEF StickInv

\* What a statement starts from.
LEMMA StickStart ==
  ASSUME StickInv, NEW s \in Slots, NEW verb, Takes(s, verb)
  PROVE  /\ s \in Open /\ RequestOK(req[s]) /\ ValueOK(req[s]) /\ FaithfulOK(req[s])
         /\ RequestOK(Rest(req[s])) /\ \A f \in DOMAIN Idle \ {"steps"} : Rest(req[s])[f] = req[s][f]
<1>1. s \in Open
  BY DEF Takes
<1> QED
  BY <1>1, TakesType DEF StickInv, PlanOK

\* The fields of a request after its statement, when one of them is replaced.
Put(r, f, value) == [Rest(r) EXCEPT ![f] = value]

LEMMA FieldsAfter ==
  ASSUME NEW r, NEW f \in {"row", "seen", "writes", "edits"}, NEW value, RequestOK(Rest(r)),
         \A g \in DOMAIN Idle \ {"steps"} : Rest(r)[g] = r[g],
         NEW q, q = Put(r, f, value)
  PROVE  /\ q.op = r.op /\ q.actor = r.actor /\ q.target = r.target /\ q.value = r.value
         /\ q.me = r.me /\ q.mine = r.mine /\ q.steps = Rest(r).steps /\ Touches(q) = Touches(r)
         /\ q.row = IF f = "row" THEN value ELSE r.row
         /\ q.edits = IF f = "edits" THEN value ELSE r.edits
         /\ \A st : Ahead(q, st) <=> Ahead(Rest(r), st)
<1>1. /\ Rest(r).op = r.op /\ Rest(r).actor = r.actor /\ Rest(r).target = r.target /\ Rest(r).value = r.value
      /\ Rest(r).me = r.me /\ Rest(r).mine = r.mine /\ Rest(r).row = r.row /\ Rest(r).edits = r.edits
  BY DEF Idle
<1> QED
  BY <1>1 DEF RequestOK, Idle, Touches, Ahead, Put

LEMMA FieldsRest ==
  ASSUME NEW r, NEW q, q = Rest(r), \A g \in DOMAIN Idle \ {"steps"} : Rest(r)[g] = r[g]
  PROVE  /\ q.op = r.op /\ q.actor = r.actor /\ q.target = r.target /\ q.value = r.value
         /\ q.me = r.me /\ q.mine = r.mine /\ Touches(q) = Touches(r) /\ q.row = r.row /\ q.edits = r.edits
  BY DEF Idle, Touches

LEMMA StickRead ==
  ASSUME StickInv, NEW s \in Slots, Read(s)
  PROVE  StickInv'
<1> DEFINE r == req[s]
           k == Subject(s)
           row == IF r.target = r.actor THEN r.mine ELSE user[r.target]
<1>1. TypeInv' /\ TypeInv /\ UNCHANGED <<user, told, crossed>> /\ Takes(s, "read")
  BY ReadType DEF StickInv, Read
<1>2. /\ s \in Open /\ FaithfulOK(r) /\ RequestOK(Rest(r)) /\ \A f \in DOMAIN Idle \ {"steps"} : Rest(r)[f] = r[f]
      /\ Next1(r) = <<"read", k>>
  BY <1>1, StickStart, WhichStatement
<1>3. \/ req' = [req EXCEPT ![s] = Idle]
      \/ k = "row" /\ req' = [req EXCEPT ![s] = Put(r, "row", row)]
      \/ k # "row" /\ \E value : req' = [req EXCEPT ![s] = Put(r, "seen", value)]
  BY DEF Read, Put
<1>4. CASE req' = [req EXCEPT ![s] = Idle]
  BY <1>1, <1>2, <1>4, IdleOK, StickOneRequest
<1>5. CASE k = "row" /\ req' = [req EXCEPT ![s] = Put(r, "row", row)]
  <2> HIDE DEF row
  <2> DEFINE q == Put(r, "row", row)
  <2>1. /\ q.op = r.op /\ q.actor = r.actor /\ q.target = r.target /\ q.value = r.value
        /\ q.me = r.me /\ q.mine = r.mine /\ Touches(q) = Touches(r) /\ q.row = row /\ q.edits = r.edits
        /\ \A st : Ahead(q, st) <=> Ahead(Rest(r), st)
    BY <1>2, FieldsAfter
  <2>2. Next1(r) = Reads("row")
    BY <1>2, <1>5 DEF Reads
  <2>3. /\ Ahead(q, Me) <=> Ahead(r, Me)
        /\ Ahead(q, Writes("row")) <=> Ahead(r, Writes("row"))
    BY <1>1, <2>1, <2>2, AheadRest, RankFacts, OnRowRank
  <2> HIDE DEF q
  <2>4. ASSUME NEW u \in Touches(q) \ crossed PROVE Faithful(q, u)
    <3>1. Faithful(r, u)
      BY <1>2, <2>1, <2>4 DEF FaithfulOK
    <3>2. Final(q, u) = Final(r, u) /\ (Sets(q, u) <=> Sets(r, u))
      BY <2>1 DEF Final, Sets
    <3>3. Sets(q, u) => q.row = IF u = q.actor THEN q.mine ELSE user[u]
      BY <2>1 DEF Sets, row
    <3> QED
      BY <2>1, <2>3, <3>1, <3>2, <3>3 DEF Faithful
  <2>5. FaithfulOK(q) /\ Touches(q) = Touches(r)
    BY <1>2, <2>1, <2>4 DEF FaithfulOK
  <2> QED
    BY <1>1, <1>2, <1>5, <2>5, StickOneRequest DEF q
<1>6. ASSUME k # "row", NEW value, req' = [req EXCEPT ![s] = Put(r, "seen", value)]
      PROVE  StickInv'
  <2> DEFINE q == Put(r, "seen", value)
  <2>1. /\ q.op = r.op /\ q.actor = r.actor /\ q.target = r.target /\ q.value = r.value
        /\ q.me = r.me /\ q.mine = r.mine /\ Touches(q) = Touches(r) /\ q.row = r.row /\ q.edits = r.edits
        /\ \A st : Ahead(q, st) <=> Ahead(Rest(r), st)
    BY <1>2, FieldsAfter
  <2>2. Next1(r) \notin OnRow
    BY <1>2, <1>6 DEF OnRow, Reads, Writes, Me
  <2>3. \A st \in OnRow : Ahead(q, st) <=> Ahead(r, st)
    BY <1>1, <2>1, <2>2, AheadRest, OnRowRank
  <2> HIDE DEF q
  <2>4. FaithfulOK(q) /\ Touches(q) = Touches(r)
    BY <1>2, <2>1, <2>3, FaithfulSame DEF FaithfulOK
  <2> QED
    BY <1>1, <1>2, <1>6, <2>4, StickOneRequest DEF q
<1> QED
  BY <1>3, <1>4, <1>5, <1>6

LEMMA StickWriteSetting ==
  ASSUME StickInv, NEW s \in Slots, WriteSetting(s)
  PROVE  StickInv'
<1> DEFINE r == req[s]
           k == Subject(s)
<1>1. TypeInv' /\ TypeInv /\ UNCHANGED <<user, told, crossed>> /\ Takes(s, "write") /\ k \in Keys
  BY WriteSettingType DEF StickInv, WriteSetting
<1>2. /\ s \in Open /\ FaithfulOK(r) /\ RequestOK(Rest(r)) /\ \A f \in DOMAIN Idle \ {"steps"} : Rest(r)[f] = r[f]
      /\ Next1(r) = <<"write", k>>
  BY <1>1, StickStart, WhichStatement
<1>3. Next1(r) \notin OnRow
  BY <1>1, <1>2 DEF OnRow, Reads, Writes, Me, Keys
<1>4. \A st \in OnRow : Ahead(Rest(r), st) <=> Ahead(r, st)
  BY <1>1, <1>3, AheadRest, OnRowRank
<1>5. \/ req' = [req EXCEPT ![s] = Rest(r)]
      \/ \E value : req' = [req EXCEPT ![s] = Put(r, "writes", value)]
  BY DEF WriteSetting, Put
<1>6. CASE req' = [req EXCEPT ![s] = Rest(r)]
  <2> DEFINE q == Rest(r)
  <2>1. /\ q.op = r.op /\ q.actor = r.actor /\ q.target = r.target /\ q.value = r.value
        /\ q.me = r.me /\ q.mine = r.mine /\ Touches(q) = Touches(r) /\ q.row = r.row /\ q.edits = r.edits
    BY <1>2, FieldsRest
  <2>2. \A st \in OnRow : Ahead(q, st) <=> Ahead(r, st)
    BY <1>4
  <2> HIDE DEF q
  <2>3. FaithfulOK(q) /\ Touches(q) = Touches(r)
    BY <1>2, <2>1, <2>2, FaithfulSame DEF FaithfulOK
  <2> QED
    BY <1>1, <1>2, <1>6, <2>3, StickOneRequest DEF q
<1>7. ASSUME NEW value, req' = [req EXCEPT ![s] = Put(r, "writes", value)]
      PROVE  StickInv'
  <2> DEFINE q == Put(r, "writes", value)
  <2>1. /\ q.op = r.op /\ q.actor = r.actor /\ q.target = r.target /\ q.value = r.value
        /\ q.me = r.me /\ q.mine = r.mine /\ Touches(q) = Touches(r) /\ q.row = r.row /\ q.edits = r.edits
        /\ \A st : Ahead(q, st) <=> Ahead(Rest(r), st)
    BY <1>2, FieldsAfter
  <2>2. \A st \in OnRow : Ahead(q, st) <=> Ahead(r, st)
    BY <1>4, <2>1
  <2> HIDE DEF q
  <2>3. FaithfulOK(q) /\ Touches(q) = Touches(r)
    BY <1>2, <2>1, <2>2, FaithfulSame DEF FaithfulOK
  <2> QED
    BY <1>1, <1>2, <1>7, <2>3, StickOneRequest DEF q
<1> QED
  BY <1>5, <1>6, <1>7

\* What an update of a row leaves the request to write of the overrides.
LEMMA FinalExtends ==
  ASSUME NEW r, NEW e, NEW u, NEW column, NEW value, Extends(e, r, u, column, value), NEW q, q.edits = e
  PROVE  /\ \A v : v # u \/ column # "overrides" => Final(q, v) = Final(r, v)
         /\ column = "overrides" => Final(q, u) = value
<1>1. /\ DOMAIN q.edits = DOMAIN r.edits \cup {u} /\ \A v \in DOMAIN q.edits \ {u} : q.edits[v] = r.edits[v]
      /\ DOMAIN q.edits[u] = {column} \cup (IF u \in DOMAIN r.edits THEN DOMAIN r.edits[u] ELSE {})
      /\ \A c \in DOMAIN q.edits[u] : q.edits[u][c] = IF c = column THEN value ELSE r.edits[u][c]
  BY DEF Extends
<1>2. \A v : v # u => Final(q, v) = Final(r, v)
  BY <1>1 DEF Final
<1>3. column # "overrides" => Final(q, u) = Final(r, u)
  BY <1>1 DEF Final
<1>4. column = "overrides" => Final(q, u) = value
  BY <1>1 DEF Final
<1> QED
  BY <1>2, <1>3, <1>4


LEMMA StickWriteMine ==
  ASSUME StickInv, NEW s \in Slots, WriteMine(s)
  PROVE  StickInv'
<1> DEFINE r == req[s]
<1>1. TypeInv' /\ TypeInv /\ UNCHANGED <<user, told, crossed>> /\ Takes(s, "me")
  BY WriteMineType DEF StickInv, WriteMine
<1>2. /\ s \in Open /\ FaithfulOK(r) /\ RequestOK(r)
      /\ RequestOK(Rest(r)) /\ \A f \in DOMAIN Idle \ {"steps"} : Rest(r)[f] = r[f]
  BY <1>1, StickStart
<1>3. /\ ~Ahead(r, Reads("row")) /\ Ahead(r, Me)
      /\ ~Ahead(Rest(r), Reads("row")) /\ ~Ahead(Rest(r), Me)
      /\ Ahead(Rest(r), Writes("row")) <=> Ahead(r, Writes("row"))
  <2>1. Next1(r) = Me /\ Rank(Me) = 3 /\ Rank(Reads("row")) = 1 /\ Rank(Writes("row")) = 4
    BY <1>1, WhichStatement, RankFacts
  <2>2. /\ \A st : Rank(st) # 5 => (Ahead(Rest(r), st) <=> Ahead(r, st) /\ st # Next1(r))
        /\ \A st : Ahead(Rest(r), st) => Rank(st) >= Rank(Next1(r))
        /\ Ahead(r, Next1(r))
    BY <1>1, AheadRest
  <2> HIDE DEF r
  <2>3. ~Ahead(Rest(r), Reads("row"))
    BY <2>1, <2>2
  <2> QED
    BY <2>1, <2>2, <2>3, OnRowRank
<1>4. r.actor \in Users /\ r.mine \in UserRow
  BY <1>2 DEF RequestOK
<1>5. \/ r.mine = r.me /\ req' = [req EXCEPT ![s] = Rest(r)]
      \/ req' = [req EXCEPT ![s] = Idle]
      \/ req' = [req EXCEPT ![s] = Put(r, "edits", Edited(r, r.actor, "overrides", r.mine.overrides))]
  BY DEF WriteMine, AfterUpdate, Put
<1>6. CASE r.mine = r.me /\ req' = [req EXCEPT ![s] = Rest(r)]
  <2> DEFINE q == Rest(r)
  <2>1. /\ q.op = r.op /\ q.actor = r.actor /\ q.target = r.target /\ q.value = r.value
        /\ q.me = r.me /\ q.mine = r.mine /\ Touches(q) = Touches(r) /\ q.row = r.row /\ q.edits = r.edits
    BY <1>2, FieldsRest
  <2>2. ~Ahead(q, Me) /\ ~Ahead(q, Reads("row")) /\ (Ahead(q, Writes("row")) <=> Ahead(r, Writes("row")))
    BY <1>3
  <2> HIDE DEF q
  <2>3. ASSUME NEW u \in Touches(q) \ crossed PROVE Faithful(q, u)
    <3>1. Faithful(r, u)
      BY <1>2, <2>1, <2>3 DEF FaithfulOK
    <3>2. Final(q, u) = Final(r, u) /\ (Sets(q, u) <=> Sets(r, u))
      BY <2>1 DEF Final, Sets
    <3>3. Sets(q, u) => Ahead(q, Writes("row")) /\ Final(q, u) = user[u].overrides
      BY <1>3, <2>2, <3>1, <3>2 DEF Faithful
    <3>4. u = q.actor => r.mine.overrides = user[u].overrides
      BY <1>6, <2>1, <3>1 DEF Faithful
    <3> QED
      BY <1>3, <2>1, <2>2, <3>1, <3>2, <3>3, <3>4 DEF Faithful
  <2>4. FaithfulOK(q) /\ Touches(q) = Touches(r)
    BY <1>2, <2>1, <2>3 DEF FaithfulOK
  <2> QED
    BY <1>1, <1>2, <1>6, <2>4, StickOneRequest DEF q
<1>7. CASE req' = [req EXCEPT ![s] = Put(r, "edits", Edited(r, r.actor, "overrides", r.mine.overrides))]
  <2> DEFINE edits == Edited(r, r.actor, "overrides", r.mine.overrides)
             q == Put(r, "edits", edits)
  <2>1. Extends(edits, r, r.actor, "overrides", r.mine.overrides)
    <3>1. "overrides" \in Columns /\ [r.mine EXCEPT !["overrides"] = r.mine.overrides] \in UserRow
      BY <1>4 DEF UserRow, Columns
    <3> QED
      BY <1>2, <1>4, <3>1, EditedType
  <2> HIDE DEF edits
  <2>2. /\ q.op = r.op /\ q.actor = r.actor /\ q.target = r.target /\ q.value = r.value
        /\ q.me = r.me /\ q.mine = r.mine /\ Touches(q) = Touches(r) /\ q.row = r.row /\ q.edits = edits
        /\ \A st : Ahead(q, st) <=> Ahead(Rest(r), st)
    BY <1>2, FieldsAfter
  <2> HIDE DEF q
  <2>3. ~Ahead(q, Me) /\ ~Ahead(q, Reads("row")) /\ (Ahead(q, Writes("row")) <=> Ahead(r, Writes("row")))
    BY <1>3, <2>2
  <2>4. (\A v : v # r.actor => Final(q, v) = Final(r, v)) /\ Final(q, r.actor) = r.mine.overrides
    BY <2>1, <2>2, FinalExtends
  <2>5. ASSUME NEW u \in Touches(q) \ crossed PROVE Faithful(q, u)
    <3>1. Faithful(r, u) /\ (Sets(q, u) <=> Sets(r, u))
      BY <1>2, <2>2, <2>5 DEF FaithfulOK, Sets
    <3>2. Sets(q, u) => Ahead(q, Writes("row")) /\ Final(r, u) = user[u].overrides
      BY <1>3, <2>3, <3>1 DEF Faithful
    <3>3. u = r.actor => Within(told[u], Final(q, u))
      <4>1. SUFFICES ASSUME u = r.actor PROVE Within(told[u], Final(q, u))
        OBVIOUS
      <4>2. Within(told[u], user[u].overrides)
        BY <1>4, <2>5, <4>1 DEF StickInv, OverridesStick, Within
      <4>3. Within(user[u].overrides, r.mine.overrides)
        BY <3>1, <4>1 DEF Faithful
      <4> QED
        BY <2>4, <4>1, <4>2, <4>3 DEF Within
    <3>4. u # r.actor /\ (~Sets(r, u) \/ Ahead(r, Writes("row"))) => Within(told[u], Final(q, u))
      BY <2>4, <3>1 DEF Faithful
    <3> QED
      BY <1>3, <2>2, <2>3, <2>4, <3>1, <3>2, <3>3, <3>4 DEF Faithful
  <2>6. DOMAIN edits \subseteq Touches(q)
    BY <1>2, <2>1, <2>2 DEF FaithfulOK, Extends, Touches
  <2>7. FaithfulOK(q) /\ Touches(q) = Touches(r)
    BY <2>2, <2>5, <2>6 DEF FaithfulOK
  <2> QED
    BY <1>1, <1>2, <1>7, <2>7, StickOneRequest DEF q, edits
<1>8. CASE req' = [req EXCEPT ![s] = Idle]
  BY <1>1, <1>2, <1>8, IdleOK, StickOneRequest
<1> QED
  BY <1>5, <1>6, <1>7, <1>8

LEMMA StickWriteUser ==
  ASSUME StickInv, NEW s \in Slots, WriteUser(s)
  PROVE  StickInv'
<1> DEFINE r == req[s]
<1>1. TypeInv' /\ TypeInv /\ UNCHANGED <<user, told, crossed>> /\ Takes(s, "write") /\ Subject(s) = "row"
  BY WriteUserType DEF StickInv, WriteUser
<1>2. /\ s \in Open /\ FaithfulOK(r) /\ RequestOK(r) /\ ValueOK(r)
      /\ RequestOK(Rest(r)) /\ \A f \in DOMAIN Idle \ {"steps"} : Rest(r)[f] = r[f]
  BY <1>1, StickStart
<1>3. /\ ~Ahead(r, Reads("row")) /\ ~Ahead(r, Me) /\ Ahead(r, Writes("row"))
      /\ ~Ahead(Rest(r), Reads("row")) /\ ~Ahead(Rest(r), Me) /\ ~Ahead(Rest(r), Writes("row"))
  <2>1. Next1(r) = Writes("row") /\ Rank(Me) = 3 /\ Rank(Reads("row")) = 1 /\ Rank(Writes("row")) = 4
    BY <1>1, WhichStatement, RankFacts DEF Writes
  <2>2. /\ \A st : Rank(st) # 5 => (Ahead(Rest(r), st) <=> Ahead(r, st) /\ st # Next1(r))
        /\ \A st : Ahead(Rest(r), st) => Rank(st) >= Rank(Next1(r))
        /\ Ahead(r, Next1(r))
    BY <1>1, AheadRest
  <2> HIDE DEF r
  <2>3. ~Ahead(Rest(r), Reads("row")) /\ ~Ahead(Rest(r), Me)
    BY <2>1, <2>2
  <2> QED
    BY <2>1, <2>2, <2>3, OnRowRank
<1>4. r.target \in Users /\ r.row \in UserRow /\ r.target \in Touches(r)
  <2>1. r.op \in RowOps
    BY <1>1, TakesType DEF StatementOK, Subject
  <2> QED
    BY <1>2, <2>1 DEF RequestOK, Touches
<1>5. ASSUME r.op \in Columns, r.row[r.op] = r.value, req' = [req EXCEPT ![s] = Rest(r)]
      PROVE  StickInv'
  <2> DEFINE q == Rest(r)
  <2>1. /\ q.op = r.op /\ q.actor = r.actor /\ q.target = r.target /\ q.value = r.value
        /\ q.me = r.me /\ q.mine = r.mine /\ Touches(q) = Touches(r) /\ q.row = r.row /\ q.edits = r.edits
    BY <1>2, FieldsRest
  <2>2. ~Ahead(q, Me) /\ ~Ahead(q, Reads("row")) /\ ~Ahead(q, Writes("row"))
    BY <1>3
  <2> HIDE DEF q
  <2>3. ASSUME NEW u \in Touches(q) \ crossed PROVE Faithful(q, u)
    <3>1. Faithful(r, u)
      BY <1>2, <2>1, <2>3 DEF FaithfulOK
    <3>2. Final(q, u) = Final(r, u) /\ (Sets(q, u) <=> Sets(r, u))
      BY <2>1 DEF Final, Sets
    <3>3. Sets(r, u) => Final(r, u) = r.row.overrides /\ r.row.overrides = r.value
      BY <1>3, <1>5, <3>1 DEF Faithful, Sets
    <3> QED
      BY <1>3, <2>1, <2>2, <3>1, <3>2, <3>3 DEF Faithful
  <2>4. FaithfulOK(q) /\ Touches(q) = Touches(r)
    BY <1>2, <2>1, <2>3 DEF FaithfulOK
  <2> QED
    BY <1>1, <1>2, <1>5, <2>4, StickOneRequest DEF q
<1>6. ASSUME NEW edits, req' = [req EXCEPT ![s] = Put(r, "edits", edits)],
             DOMAIN edits = DOMAIN r.edits \cup {r.target},
             \A q : q.edits = edits =>
                /\ \A v : v # r.target => Final(q, v) = Final(r, v)
                /\ \/ r.op = "overrides" /\ Final(q, r.target) = r.value
                   \/ r.op # "overrides" /\ Final(q, r.target) = Final(r, r.target)
                   \/ r.op # "overrides" /\ told[r.target] = NoOverrides
      PROVE  StickInv'
  <2> DEFINE q == Put(r, "edits", edits)
  <2>1. /\ q.op = r.op /\ q.actor = r.actor /\ q.target = r.target /\ q.value = r.value
        /\ q.me = r.me /\ q.mine = r.mine /\ Touches(q) = Touches(r) /\ q.row = r.row /\ q.edits = edits
        /\ \A st : Ahead(q, st) <=> Ahead(Rest(r), st)
    BY <1>2, FieldsAfter
  <2> HIDE DEF q
  <2>2. ~Ahead(q, Me) /\ ~Ahead(q, Reads("row")) /\ ~Ahead(q, Writes("row"))
    BY <1>3, <2>1
  <2>3. ASSUME NEW u \in Touches(q) \ crossed PROVE Faithful(q, u)
    <3>1. Faithful(r, u) /\ (Sets(q, u) <=> Sets(r, u))
      BY <1>2, <2>1, <2>3 DEF FaithfulOK, Sets
    <3>2. Sets(q, u) => Final(q, u) = q.value
      BY <1>6, <2>1 DEF Sets
    <3>3. ~Sets(q, u) => Within(told[u], Final(q, u))
      <4>1. SUFFICES ASSUME ~Sets(q, u) PROVE Within(told[u], Final(q, u))
        OBVIOUS
      <4>2. Within(told[u], Final(r, u))
        BY <3>1, <4>1 DEF Faithful
      <4>3. Final(q, u) = Final(r, u) \/ told[u] = NoOverrides
        BY <1>6, <2>1, <4>1 DEF Sets
      <4> QED
        BY <4>2, <4>3 DEF Within, NoOverrides
    <3> QED
      BY <2>1, <2>2, <3>1, <3>2, <3>3 DEF Faithful
  <2>4. DOMAIN edits \subseteq Touches(q)
    BY <1>2, <1>4, <1>6, <2>1 DEF FaithfulOK
  <2>5. FaithfulOK(q) /\ Touches(q) = Touches(r)
    BY <2>1, <2>3, <2>4 DEF FaithfulOK
  <2> QED
    BY <1>1, <1>2, <1>6, <2>5, StickOneRequest DEF q
<1>7. ASSUME NEW column \in Columns, NEW value, [r.row EXCEPT ![column] = value] \in UserRow,
             req' = [req EXCEPT ![s] = Put(r, "edits", Edited(r, r.target, column, value))],
             IF column = "overrides" THEN r.op = "overrides" /\ value = r.value ELSE r.op # "overrides"
      PROVE  StickInv'
  <2> DEFINE edits == Edited(r, r.target, column, value)
  <2>1. Extends(edits, r, r.target, column, value)
    BY <1>2, <1>4, <1>7, EditedType
  <2> HIDE DEF edits
  <2>2. ASSUME NEW q, q.edits = edits
        PROVE  /\ \A v : v # r.target => Final(q, v) = Final(r, v)
               /\ \/ r.op = "overrides" /\ Final(q, r.target) = r.value
                  \/ r.op # "overrides" /\ Final(q, r.target) = Final(r, r.target)
    <3>1. /\ \A v : v # r.target \/ column # "overrides" => Final(q, v) = Final(r, v)
          /\ column = "overrides" => Final(q, r.target) = value
      BY <2>1, <2>2, FinalExtends
    <3> QED
      BY <1>7, <3>1
  <2>3. DOMAIN edits = DOMAIN r.edits \cup {r.target}
    BY <2>1 DEF Extends
  <2> QED
    BY <1>6, <1>7, <2>2, <2>3 DEF edits
<1>8. ASSUME r.op \in Columns, req' = [req EXCEPT ![s] = Put(r, "edits", Edited(r, r.target, r.op, r.value))]
      PROVE  StickInv'
  BY <1>2, <1>7, <1>8, ColumnType
<1>9. ASSUME r.op = "delete", req' = [req EXCEPT ![s] = Put(r, "edits", Edited(r, r.target, "exists", FALSE))]
      PROVE  StickInv'
  <2>1. [r.row EXCEPT !["exists"] = FALSE] \in UserRow /\ "exists" \in Columns
    BY <1>4 DEF UserRow, Columns
  <2> QED
    BY <1>7, <1>9, <2>1
<1>10. ASSUME r.op = "new", ~user[r.target].exists,
              req' = [req EXCEPT ![s] = Put(r, "edits", With(r.edits, r.target, NewUser(r.value)))]
       PROVE  StickInv'
  <2> DEFINE edits == With(r.edits, r.target, NewUser(r.value))
  <2>1. DOMAIN edits = DOMAIN r.edits \cup {r.target} /\ \A v \in DOMAIN edits \ {r.target} : edits[v] = r.edits[v]
    BY DEF With
  <2> HIDE DEF edits
  <2>2. told[r.target] = NoOverrides
    BY <1>4, <1>10 DEF StickInv
  <2>3. \A q : q.edits = edits => \A v : v # r.target => Final(q, v) = Final(r, v)
    BY <2>1 DEF Final
  <2> QED
    BY <1>6, <1>10, <2>1, <2>2, <2>3 DEF edits
<1>11. CASE req' = [req EXCEPT ![s] = Idle]
  BY <1>1, <1>2, <1>11, IdleOK, StickOneRequest
<1> QED
  BY <1>1, WriteUserCases, <1>5, <1>8, <1>9, <1>10, <1>11 DEF Put

LEMMA StickCommit ==
  ASSUME StickInv, NEW s \in Slots, Commit(s)
  PROVE  StickInv'
<1> DEFINE r == req[s]
<1>1. TypeInv' /\ TypeInv /\ Takes(s, "commit") /\ crossed' = crossed /\ req' = [req EXCEPT ![s] = Idle]
  BY CommitType DEF StickInv, Commit
<1>2. s \in Open /\ FaithfulOK(r) /\ RequestOK(r)
  BY <1>1, StickStart
<1>3. ~Ahead(r, Writes("row"))
  <2>1. Next1(r) = Done /\ Rank(Done) = 6 /\ Rank(Writes("row")) = 4
    BY <1>1, WhichStatement, RankFacts
  <2>2. /\ \A st : Rank(st) # 5 => (Ahead(Rest(r), st) <=> Ahead(r, st) /\ st # Next1(r))
        /\ \A st : Ahead(Rest(r), st) => Rank(st) >= Rank(Next1(r))
    BY <1>1, AheadRest
  <2> HIDE DEF r
  <2>3. ~Ahead(Rest(r), Writes("row")) /\ Writes("row") # Done
    BY <2>1, <2>2
  <2> QED
    BY <2>1, <2>2, <2>3
<1>4. Open' = Open \ {s} /\ \A t \in Open \ {s} : req'[t] = req[t]
  BY <1>1, IdleOK DEF Open, TypeInv, TypeOK
<1>5. ASSUME NEW u \in Users
      PROVE  /\ ~user'[u].exists => user'[u] = NoUser /\ told'[u] = NoOverrides
             /\ user'[u].exists => /\ user'[u].overrides = Final(r, u)
                                   /\ told'[u] = IF Sets(r, u) THEN r.value ELSE told[u]
             /\ u \notin Touches(r) => user'[u] = user[u] /\ told'[u] = told[u]
  <2> DEFINE new == IF u \in DOMAIN r.edits THEN Over(user[u], r.edits[u]) ELSE user[u]
  <2>1. /\ new["overrides"] = Final(r, u)
        /\ user'[u] = IF new.exists THEN new ELSE NoUser
    BY <1>1, CommittedRows DEF Columns, Final
  <2>2. told'[u] = IF ~user'[u].exists THEN NoOverrides ELSE IF Sets(r, u) THEN r.value ELSE told[u]
    BY DEF Commit, Sets
  <2>3. u \notin Touches(r) => new = user[u] /\ ~Sets(r, u)
    BY <1>2 DEF FaithfulOK, Sets, Touches, RowOps
  <2>4. ~user[u].exists => user[u] = NoUser /\ told[u] = NoOverrides
    BY DEF StickInv
  <2>5. NoUser.exists = FALSE
    BY DEF NoUser
  <2> HIDE DEF new
  <2> QED
    BY <2>1, <2>2, <2>3, <2>4, <2>5
<1>6. ASSUME NEW u \in Users \ crossed PROVE Within(told'[u], user'[u].overrides)
  <2>1. Within(told[u], user[u].overrides)
    BY <1>6 DEF StickInv, OverridesStick, Within
  <2>2. CASE u \notin Touches(r)
    BY <1>5, <1>6, <2>1, <2>2
  <2>3. CASE u \in Touches(r) /\ ~user'[u].exists
    <3>1. told'[u] = NoOverrides
      BY <1>5, <1>6, <2>3
    <3> QED
      BY <3>1 DEF Within, NoOverrides
  <2>4. CASE u \in Touches(r) /\ user'[u].exists
    <3>1. Faithful(r, u)
      BY <1>2, <1>6, <2>4 DEF FaithfulOK
    <3>2. Sets(r, u) => Final(r, u) = r.value
      BY <1>3, <3>1 DEF Faithful
    <3>3. ~Sets(r, u) => Within(told[u], Final(r, u))
      BY <3>1 DEF Faithful
    <3> QED
      BY <1>5, <1>6, <2>4, <3>2, <3>3 DEF Within
  <2> QED
    BY <2>2, <2>3, <2>4
<1>7. ASSUME NEW t \in Open' PROVE FaithfulOK(req[t])'
  <2>1. t \in Open /\ t # s /\ FaithfulOK(req[t]) /\ req'[t] = req[t]
    BY <1>4 DEF StickInv
  <2>2. ASSUME NEW u \in Touches(req[t]) \ crossed PROVE Faithful(req[t], u)'
    <3>1. u \in Users /\ u \notin Touches(r)
      <4>1. req[t].actor \in Users /\ req[t].target \in Users
        BY <1>1, <2>1 DEF TypeInv, TypeOK, RequestOK, Open
      <4>2. Touches(r) \cap Touches(req[t]) \subseteq crossed
        BY <1>2, <2>1 DEF StickInv
      <4> QED
        BY <2>2, <4>1, <4>2 DEF Touches
    <3>2. user'[u] = user[u] /\ told'[u] = told[u] /\ req'[t] = req[t]
      BY <1>5, <2>1, <3>1
    <3>3. Faithful(req[t], u)
      BY <2>1, <2>2 DEF FaithfulOK
    <3> QED
      BY ONLY <3>2, <3>3 DEF Faithful, Final, Sets, Within, Ahead
  <2> QED
    BY <1>1, <2>1, <2>2 DEF FaithfulOK, Touches
<1>8. \A t1, t2 \in Open' : t1 # t2 => (Touches(req[t1]) \cap Touches(req[t2]) \subseteq crossed)'
  <2>1. \A t1, t2 \in Open' : t1 # t2 => Touches(req'[t1]) \cap Touches(req'[t2]) \subseteq crossed
    BY <1>4 DEF StickInv
  <2> QED
    BY <1>1, <2>1 DEF Touches
<1>9. OverridesStick'
  BY <1>1, <1>6 DEF OverridesStick, Within
<1> QED
  BY <1>1, <1>5, <1>7, <1>8, <1>9 DEF StickInv

\* What an editor set for a user is in the user's row, unless two requests had
\* the row open at once: every request of the user writes the row back with
\* the role's permissions merged in, and removing or changing roles in
\* between costs the user nothing of what was set.
THEOREM OverridesSurvive == Spec => []OverridesStick
<1>1. StickInv /\ [Next]_accessVars => StickInv'
  <2> SUFFICES ASSUME StickInv, [Next]_accessVars PROVE StickInv'
    OBVIOUS
  <2>1. TypeInv'
    BY TypeStep DEF StickInv
  <2>2. ASSUME NEW s \in Slots, Aborted(s) PROVE StickInv'
    <3>1. s \in Open /\ req' = [req EXCEPT ![s] = Idle] /\ UNCHANGED <<user, told, crossed>>
      BY <2>2 DEF Aborted, WaitsFor
    <3> QED
      BY <2>1, <3>1, IdleOK, StickOneRequest
  <2>3. ASSUME NEW s \in Slots, Step(s) PROVE StickInv'
    BY <2>2, <2>3, StickRead, StickWriteSetting, StickWriteMine, StickWriteUser, StickCommit DEF Step
  <2>4. CASE UNCHANGED accessVars
    <3>1. user' = user /\ told' = told /\ crossed' = crossed /\ req' = req
      BY <2>4 DEF accessVars
    <3>2. Open' = Open /\ OverridesStick'
      BY <3>1 DEF Open, StickInv, OverridesStick
    <3>3. ASSUME NEW t \in Open PROVE FaithfulOK(req[t])'
      <4>1. FaithfulOK(req[t])
        BY DEF StickInv
      <4> QED
        BY ONLY <3>1, <4>1 DEF FaithfulOK, Faithful, Final, Sets, Within, Ahead, Touches
    <3>4. \A t1, t2 \in Open : t1 # t2 => (Touches(req[t1]) \cap Touches(req[t2]) \subseteq crossed)'
      BY <3>1 DEF StickInv, Touches
    <3> QED
      BY <2>1, <3>1, <3>2, <3>3, <3>4 DEF StickInv
  <2> QED
    BY <2>3, <2>4, StickAsks DEF Next
<1>2. StickInv => OverridesStick
  BY DEF StickInv
<1> QED
  BY <1>1, <1>2, StickInit, PTL DEF Spec
===============================================================================
