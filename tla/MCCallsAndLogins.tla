-------------------------- MODULE MCCallsAndLogins --------------------------
(* The handler of outgoing calls and the logins of the UI, which share     *)
(* nothing: in a behaviour one of them moves and the other rests, so that  *)
(* the sizes of their state spaces add up instead of multiplying.          *)
EXTENDS HttpResilience, UiLogins, TLC

CONSTANTS c1, c2, c3, q1, q2, t1, t2, admins, editors
VARIABLE moving

Symmetry == Permutations(LoginSlots) \union Permutations(States)

MCRoleMapping ==
    [role \in {"admin", "editor", "viewer"} |->
        CASE role = "admin" -> {admins} [] role = "editor" -> {editors} [] OTHER -> {}]

\* The provider knows the user as an administrator or not at all.
MCMemberships == {"provider" :> {admins} @@ "directory" :> {editors},
                  "provider" :> {} @@ "directory" :> {admins}}

Idp(provider, service, reads, url) ==
    [provider |-> provider, service |-> service, reads |-> reads, url |-> url]

OauthAndSearch == Idp("oauth2", TRUE, {"attribute", "search"}, "first")
LdapAndSearch == Idp("ldap", TRUE, {"attribute", "search"}, "first")
LdapAlone == Idp("ldap", FALSE, {"attribute"}, "first")
SamlAndSearch == Idp("saml2", TRUE, {"search"}, "first")
SamlElsewhere == Idp("saml2", FALSE, {"attribute", "search"}, "second")

MCConfigs == {OauthAndSearch, LdapAndSearch, LdapAlone, SamlAndSearch, SamlElsewhere}

\* The service account goes, the provider is another one, the metadata move.
MCSavedConfigs(c) ==
    CASE c = LdapAndSearch -> {LdapAlone}
      [] c = SamlAndSearch -> {SamlElsewhere, LdapAlone}
      [] c = SamlElsewhere -> {SamlAndSearch}
      [] OTHER -> {[c EXCEPT !.service = ~@]}

Init ==
    /\ moving \in {"calls", "logins"}
    /\ HttpInit /\ LoginInit
    /\ idp.provider # "oauth2" => tally.mode = "memory"  \* there are no states then
    /\ moving = "calls" => idp = LdapAlone /\ outside.groups["provider"] = {}

Next ==
    /\ UNCHANGED moving
    /\ \/ moving = "calls" /\ HttpNext /\ UNCHANGED loginVars
       \/ moving = "logins" /\ LoginNext /\ UNCHANGED httpVars

Spec == Init /\ [][Next]_<<httpVars, loginVars, moving>>

=============================================================================
