------------------------------- MODULE MCAccess -------------------------------
(* Constants for TLC: a super admin and a moderator, one custom role. *)
EXTENDS AccessControl, TLC

CONSTANTS moscow, perm, boss, kim, super, moderator, curator, view, moderate, manage, s1, s2

MCViewOf == moderate :> view
MCDefaults == super :> Perms @@ moderator :> {view, moderate}
MCFirstRole == boss :> super @@ kim :> moderator

Scoped(p, mode, cities) == [NoScopes EXCEPT ![p] = [mode |-> mode, cities |-> cities]]

\* A granted permission and one for a city; a denied one, and a role that cannot be configured.
MCPayloads ==
    {moderator :> [NoConfig EXCEPT !.grant = {manage}, !.scoped = Scoped(moderate, "grant_selected", {moscow})],
     moderator :> [NoConfig EXCEPT !.deny = {moderate}] @@ curator :> [NoConfig EXCEPT !.grant = {view}] @@ super :> NoConfig}
MCExcept == {moderator :> [NoConfig EXCEPT !.scoped = Scoped(moderate, "deny_selected", {moscow})]}
MCPatches == {[grant |-> {manage}, deny |-> {moderate}], NoOverrides}
MCRestrictions == {{perm}}
===============================================================================
