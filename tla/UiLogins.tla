------------------------------ MODULE UiLogins ------------------------------
(***************************************************************************)
(* Logins of monitoring-ui-api by an identity provider: the OAuth2 state   *)
(* that leaves with the browser and comes back with a code, the SAML       *)
(* answer judged by certificates from cached metadata, the bind to         *)
(* MS AD/LDAP, and the groups read there, from which the roles follow.     *)
(*                                                                         *)
(* One user logs in, as often as he likes: a handler keeps all it knows of *)
(* him in its own variables. The provider and the directory are external:  *)
(* a code is exchanged once, an assertion carries the provider's groups    *)
(* and is accepted by the certificate it was signed with, and whether it   *)
(* answers a request of ours is the SAML library's business. What becomes  *)
(* of the session is told in UiAccounts.                                   *)
(***************************************************************************)
EXTENDS Integers, Sequences, FiniteSets, Functions

CONSTANTS
    Groups,           \* of the provider and of the directory
    RoleMapping,      \* Idp:RoleMapping, the groups that give each role
    Memberships,      \* groups the user may be in, per source
    States,           \* random OAuth2 states
    Configs,          \* values of the Idp section at the start
    SavedConfigs(_),  \* what an administrator may make of one
    LoginSlots,       \* requests served at the same time
    StateModes,       \* Auth:SessionStore:Mode: "memory", "redis"
    StateTtl,         \* Auth:RequestStateTimeoutSeconds
    MetadataTtl,      \* Idp:MetadataCacheTtlSeconds
    LastTime,         \* bound
    MaxLogins,        \* bound
    MaxMoves          \* bound: changes outside, of the settings, restarts

Sources == {"provider", "directory"}
Endpoints == {"first", "second"}

(* provider is Idp:Provider; service says whether the directory has a      *)
(* service account, reads where the groups of an entry are looked for, url *)
(* where the metadata are.                                                 *)
IdpConfig == [provider : {"oauth2", "saml2", "ldap"}, service : BOOLEAN,
              reads : (SUBSET {"attribute", "search"}) \ {{}}, url : Endpoints]

ASSUME LoginsAssumption ==
    /\ DOMAIN RoleMapping = {"admin", "editor", "viewer"}
    /\ \A role \in DOMAIN RoleMapping : RoleMapping[role] \subseteq Groups
    /\ Memberships \subseteq [Sources -> SUBSET Groups]
    /\ Configs \subseteq IdpConfig
    /\ \A c \in IdpConfig : SavedConfigs(c) \subseteq IdpConfig
    /\ StateModes \subseteq {"memory", "redis"}
    /\ {StateTtl, MetadataTtl, LastTime, MaxLogins, MaxMoves} \subseteq Nat

VARIABLES
    idp,       \* config.Idp
    states,    \* oauthStateStore: when each state in it was made
    metadata,  \* samlMetadataCache
    login,     \* the login requests being served, and how they ended
    outside,   \* provider and directory
    issued,    \* per state the provider's codes; history: when it was made, is it
               \* deleted, is it lost
    clock,
    tally      \* mode of the state store; logins and moves so far

loginVars == <<idp, states, metadata, login, outside, issued, clock, tally>>

NoMetadata == [url |-> "none", cert |-> 0, at |-> 0]
Metadata == [url : Endpoints \union {"none"}, cert : Nat, at : Nat]

Ways == {"oauth2", "saml2", "ldap", "redirect"}

LoginRequest ==
    [pc : {"idle", "get", "delete", "exchange", "claims",
           "metadata", "fetch", "cache", "judge",
           "enrich", "find", "bind", "search", "save", "in", "turned"},
     way : Ways,
     state : States \union {"none"},  \* that the callback names
     code : 1 .. 2,           \* the first or second one for this state
     held : BOOLEAN,          \* was the state in the store
     late : BOOLEAN,          \* history: had another callback deleted it
     right : BOOLEAN,         \* the password, or what the provider vouches for
     began : Nat, asked : Nat,
     cert : Metadata,         \* judged by
     signed : [url : Endpoints, cert : Nat],
     service : BOOLEAN,       \* the directory's settings when it was begun
     reads : SUBSET {"attribute", "search"},
     source : Sources,        \* where the groups are from
     groups : SUBSET Groups,
     ever : [Sources -> SUBSET Groups],    \* history: since it began
     always : [Sources -> SUBSET Groups]]  \* history: since it began

LoginTypeOK ==
    /\ idp \in IdpConfig
    /\ states \in UNION {[D -> 0 .. LastTime] : D \in SUBSET States}
    /\ metadata \in Metadata
    /\ login \in [LoginSlots -> LoginRequest]
    /\ outside \in [groups : [Sources -> SUBSET Groups],
                    spent : SUBSET (States \X (1 .. 2)), rotated : Seq(Nat)]
    /\ issued \in UNION {[D -> [at : 0 .. LastTime, codes : 0 .. 2,
                                deleted : BOOLEAN, lost : BOOLEAN]] : D \in SUBSET States}
    /\ clock \in 0 .. LastTime
    /\ tally \in [mode : StateModes, logins : 0 .. MaxLogins, moves : 0 .. MaxMoves]

NobodyThere ==
    [pc |-> "idle", way |-> "ldap", state |-> "none",
     code |-> 1, held |-> FALSE, late |-> FALSE, right |-> FALSE, began |-> 0, asked |-> 0,
     cert |-> NoMetadata, signed |-> [url |-> "first", cert |-> 0],
     service |-> FALSE, reads |-> {}, source |-> "provider", groups |-> {},
     ever |-> [s \in Sources |-> {}], always |-> [s \in Sources |-> {}]]

\* The certificate the provider signs with: how often it was changed before.
Certificate == Len(outside.rotated)

LoginInit ==
    /\ idp \in Configs
    /\ states = <<>> /\ issued = <<>>
    /\ metadata = NoMetadata
    /\ login = [r \in LoginSlots |-> NobodyThere]
    /\ \E first \in Memberships :
         outside = [groups |-> first, spent |-> {}, rotated |-> <<>>]
    /\ clock = 0
    /\ \E mode \in StateModes :
         tally = [mode |-> mode, logins |-> 0, moves |-> 0]

-----------------------------------------------------------------------------
(* A login request begins; it goes on step by step; it ends. *)

Serving(r) == login[r].pc \notin {"idle", "in", "turned"}

Goes(r, pc) == login' = [login EXCEPT ![r].pc = pc]

\* The request is over, as a rule with an error, and nothing of it stays.
Ends(r) == login' = [login EXCEPT ![r] = NobodyThere]

(* The request of the user arrives. The directory's settings are read at   *)
(* once by a login with a password, later by the others.                   *)
Arrived == [NobodyThere EXCEPT !.ever = outside.groups, !.always = outside.groups]

Begin(r, request) ==
    /\ ~Serving(r) /\ tally.logins < MaxLogins
    /\ login' = [login EXCEPT ![r] = request]
    /\ tally' = [tally EXCEPT !.logins = @ + 1]

Unchanged == UNCHANGED <<idp, states, metadata, outside, issued, clock>>

(* GET /auth/oauth2/login stores a new state and drops those that are too  *)
(* old; the browser takes it to the provider.                              *)
OauthLogin(s) ==
    /\ idp.provider = "oauth2"
    /\ s \notin DOMAIN issued
    /\ states' = [t \in {u \in DOMAIN states : clock - states[u] <= StateTtl} \union {s} |->
                    IF t = s THEN clock ELSE states[t]]
    /\ issued' = [t \in DOMAIN issued \union {s} |->
                    IF t = s THEN [at |-> clock, codes |-> 0, deleted |-> FALSE, lost |-> FALSE]
                    ELSE issued[t]]
    /\ UNCHANGED <<idp, metadata, login, outside, clock, tally>>

(* GET /auth/oauth2/callback: the browser comes back, perhaps once more,   *)
(* with the same code or one the provider gave it for the same state.      *)
OauthCallback(r, s, code) ==
    /\ idp.provider = "oauth2" /\ s \in DOMAIN issued
    /\ code <= issued[s].codes + 1
    /\ Begin(r, [Arrived EXCEPT !.pc = "get", !.way = "oauth2", !.state = s, !.code = code])
    /\ issued' = [issued EXCEPT ![s].codes = IF code > @ THEN code ELSE @]
    /\ UNCHANGED <<idp, states, metadata, outside, clock>>

(* GET /auth/saml2/login, which sends the browser to the provider, and     *)
(* POST /auth/saml2/acs with the provider's answer of now.                 *)
SamlRequest(r, way) ==
    /\ idp.provider = "saml2"
    /\ Begin(r, [Arrived EXCEPT !.pc = "metadata", !.way = way, !.began = clock,
                   !.groups = outside.groups["provider"],
                   !.signed = [url |-> idp.url, cert |-> Certificate]])
    /\ Unchanged

\* POST /api/auth/login while MS AD/LDAP is the provider.
LdapLogin(r, right) ==
    /\ idp.provider = "ldap"
    /\ Begin(r, [Arrived EXCEPT !.pc = IF idp.service THEN "find" ELSE "bind",
                   !.way = "ldap", !.right = right, !.source = "directory",
                   !.service = idp.service, !.reads = idp.reads])
    /\ Unchanged

\* The state is looked up: it counts until its time is over ...
GetState(r) ==
    /\ login[r].pc = "get"
    /\ LET s == login[r].state
       IN login' = [login EXCEPT ![r].pc = "delete", ![r].asked = clock,
                      ![r].held = s \in DOMAIN states /\ clock - states[s] <= StateTtl,
                      ![r].late = issued[s].deleted]
    /\ UNCHANGED tally /\ Unchanged

(* ... and deleted, whatever comes of it: the provider may report an error *)
(* or send no code.                                                        *)
DeleteState(r) ==
    /\ login[r].pc = "delete"
    /\ LET s == login[r].state
       IN /\ states' = Restrict(states, DOMAIN states \ {s})
          /\ issued' = [issued EXCEPT ![s].deleted = TRUE]
    /\ \/ Ends(r)
       \/ Goes(r, IF login[r].held THEN "exchange" ELSE "turned")
    /\ UNCHANGED <<idp, metadata, outside, clock, tally>>

\* exchangeOauth2Code: the provider takes a code once; its answer may be lost.
ExchangeCode(r) ==
    /\ login[r].pc = "exchange"
    /\ LET code == <<login[r].state, login[r].code>>
       IN IF code \in outside.spent
          THEN Ends(r) /\ UNCHANGED outside
          ELSE /\ outside' = [outside EXCEPT !.spent = @ \union {code}]
               /\ Goes(r, "claims") \/ Ends(r)
    /\ UNCHANGED <<idp, states, metadata, issued, clock, tally>>

\* readOauth2UserInfo: the claims, with the provider's groups of now.
ReadClaims(r) ==
    /\ login[r].pc = "claims"
    /\ \/ login' = [login EXCEPT ![r].pc = "enrich", ![r].right = TRUE,
                      ![r].groups = outside.groups["provider"]]
       \/ Ends(r)
    /\ UNCHANGED tally /\ Unchanged

-----------------------------------------------------------------------------
(* SAML: the certificates, from the metadata of the provider. *)

SamlSettled(r, cert) ==
    IF login[r].way = "redirect" THEN Ends(r)
    ELSE login' = [login EXCEPT ![r].pc = "judge", ![r].cert = cert, ![r].asked = clock]

\* readIdpMetadata: from the cache, if it is of this URL and young enough.
ReadMetadata(r) ==
    /\ login[r].pc = "metadata"
    /\ IF metadata.url = idp.url /\ clock - metadata.at < MetadataTtl
       THEN SamlSettled(r, metadata)
       ELSE login' = [login EXCEPT ![r].pc = "fetch",
                        ![r].cert = [url |-> idp.url, cert |-> 0, at |-> clock]]
    /\ UNCHANGED tally /\ Unchanged

\* The provider answers with what it signs with now, or does not.
FetchMetadata(r) ==
    /\ login[r].pc = "fetch"
    /\ \/ login' = [login EXCEPT ![r].pc = "cache",
                      ![r].cert = [@ EXCEPT !.cert = Certificate]]
       \/ Ends(r)
    /\ UNCHANGED tally /\ Unchanged

\* Mutant: the cache counts from the end of the fetch.
CacheFromTheEnd(r) ==
    /\ login[r].pc = "cache"
    /\ metadata' = [login[r].cert EXCEPT !.at = clock]
    /\ SamlSettled(r, login[r].cert)
    /\ UNCHANGED <<idp, states, outside, issued, clock, tally>>

\* The answer is cached, as of the time before it was asked for.
CacheMetadata(r) ==
    /\ login[r].pc = "cache"
    /\ metadata' = login[r].cert
    /\ SamlSettled(r, login[r].cert)
    /\ UNCHANGED <<idp, states, outside, issued, clock, tally>>

(* validatePostResponseAsync and createSamlSession: the answer is refused  *)
(* when another certificate signed it, or for reasons of its own.          *)
JudgeAnswer(r) ==
    /\ login[r].pc = "judge"
    /\ LET cert == login[r].cert
       IN IF [url |-> cert.url, cert |-> cert.cert] = login[r].signed
          THEN \/ login' = [login EXCEPT ![r].pc = "enrich", ![r].right = TRUE]
               \/ Ends(r)
          ELSE Goes(r, "turned")
    /\ UNCHANGED tally /\ Unchanged

-----------------------------------------------------------------------------
(* The directory, and the session. *)

(* enrichIdentityWithLdapGroups: with a service account the directory is   *)
(* asked; without one, or without a login name, the provider's groups      *)
(* stand.                                                                  *)
Enrich(r) ==
    /\ login[r].pc = "enrich"
    /\ \/ /\ idp.service
          /\ login' = [login EXCEPT ![r].pc = "find", ![r].source = "directory",
                         ![r].service = TRUE, ![r].reads = idp.reads]
       \/ Goes(r, "save")
    /\ UNCHANGED tally /\ Unchanged

\* Mutant: the directory's groups are added to those the provider sent.
FindUserBesides(r) ==
    /\ login[r].pc = "find"
    /\ \/ login' = [login EXCEPT
            ![r].pc = IF login[r].way = "ldap" /\ login[r].service THEN "bind" ELSE "search",
            ![r].groups = @ \union (IF "attribute" \in login[r].reads
                                    THEN outside.groups["directory"] ELSE {})]
       \/ Ends(r)
    /\ UNCHANGED tally /\ Unchanged

\* findLdapUser: an entry unknown to the directory ends the login.
FindUser(r) ==
    /\ login[r].pc = "find"
    /\ \/ login' = [login EXCEPT
            ![r].pc = IF login[r].way = "ldap" /\ login[r].service THEN "bind" ELSE "search",
            ![r].groups = IF "attribute" \in login[r].reads
                          THEN outside.groups["directory"] ELSE {}]
       \/ Ends(r)
    /\ UNCHANGED tally /\ Unchanged

(* The user's own bind, after the service account found him (and binds     *)
(* again), or before he is looked up.                                      *)
BindUser(r) ==
    /\ login[r].pc = "bind"
    /\ \/ /\ login[r].right
          /\ Goes(r, IF login[r].service THEN "search" ELSE "find")
       \/ Ends(r)
    /\ UNCHANGED tally /\ Unchanged

\* readLdapGroups: the groups of the entry, and those found by a search now.
ReadGroups(r) ==
    /\ login[r].pc = "search"
    /\ \/ login' = [login EXCEPT ![r].pc = "save",
                      ![r].groups = @ \union (IF "search" \in login[r].reads
                                              THEN outside.groups["directory"] ELSE {})]
       \/ Ends(r)
    /\ UNCHANGED tally /\ Unchanged

Granted(groups) == {role \in DOMAIN RoleMapping : RoleMapping[role] \intersect groups # {}}

\* rolesFromSamlGroups: whoever has no role may look.
RolesOf(groups) == IF Granted(groups) = {} THEN {"viewer"} ELSE Granted(groups)

\* The session is saved with the roles of the groups.
SaveLogin(r) ==
    /\ login[r].pc = "save"
    /\ Goes(r, "in") \/ Ends(r)
    /\ UNCHANGED tally /\ Unchanged

-----------------------------------------------------------------------------
(* The surroundings. *)

Moves == tally.moves < MaxMoves /\ tally' = [tally EXCEPT !.moves = @ + 1]

\* Somebody changes the user's groups in one of the sources.
ChangeGroups(source, groups) ==
    /\ Moves /\ groups # outside.groups[source]
    /\ outside' = [outside EXCEPT !.groups[source] = groups]
    /\ login' = [r \in LoginSlots |->
                   IF Serving(r) THEN [login[r] EXCEPT !.ever[source] = @ \union groups,
                                                       !.always[source] = @ \intersect groups]
                   ELSE login[r]]
    /\ UNCHANGED <<idp, states, metadata, issued, clock>>

\* The provider signs with another key from now on.
ChangeKey ==
    /\ Moves
    /\ outside' = [outside EXCEPT !.rotated = Append(@, clock)]
    /\ UNCHANGED <<idp, states, metadata, login, issued, clock>>

\* An administrator saves other settings of the provider.
Reconfigure(config) ==
    /\ Moves
    /\ idp' = config
    /\ UNCHANGED <<states, metadata, login, outside, issued, clock>>

\* The process dies and starts again: states in memory are lost.
Restart ==
    /\ Moves
    /\ login' = [r \in LoginSlots |-> NobodyThere]
    /\ metadata' = NoMetadata
    /\ IF tally.mode = "redis" THEN UNCHANGED <<states, issued>>
       ELSE /\ states' = <<>>
            /\ issued' = [s \in DOMAIN issued |-> [issued[s] EXCEPT !.lost = TRUE]]
    /\ UNCHANGED <<idp, outside, clock>>

Later ==
    /\ clock < LastTime
    /\ clock' = clock + 1
    /\ UNCHANGED <<idp, states, metadata, login, outside, issued, tally>>

LoginNext ==
    \/ \E s \in States : OauthLogin(s)
    \/ \E r \in LoginSlots :
         \/ \E s \in States, code \in 1 .. 2 : OauthCallback(r, s, code)
         \/ \E way \in {"saml2", "redirect"} : SamlRequest(r, way)
         \/ \E right \in BOOLEAN : LdapLogin(r, right)
         \/ GetState(r) \/ DeleteState(r) \/ ExchangeCode(r) \/ ReadClaims(r)
         \/ ReadMetadata(r) \/ FetchMetadata(r) \/ CacheMetadata(r) \/ JudgeAnswer(r)
         \/ Enrich(r) \/ FindUser(r) \/ BindUser(r) \/ ReadGroups(r) \/ SaveLogin(r)
    \/ \E source \in Sources, m \in Memberships : ChangeGroups(source, m[source])
    \/ ChangeKey \/ Restart \/ Later
    \/ \E config \in SavedConfigs(idp) : Reconfigure(config)

LoginSpec == LoginInit /\ [][LoginNext]_loginVars

-----------------------------------------------------------------------------
(* The roles of a session are those of the groups: of a source that is     *)
(* asked, each role is of a group the user was in at some time since the   *)
(* request came in, and no role of a group he was in all the time is       *)
(* missing; the attribute of the entry and the search may be of different  *)
(* times, and the user may be moved between them. Nobody is let in whom    *)
(* neither the provider nor his password vouches for, and the groups of    *)
(* the provider do not count where the directory was asked.                *)
RolesFollowGroups ==
    \A r \in LoginSlots : login[r].pc = "in" =>
        LET roles == RolesOf(login[r].groups)
            ever == Granted(login[r].ever[login[r].source])
            always == Granted(login[r].always[login[r].source])
        IN /\ login[r].right
           /\ always \subseteq roles
           /\ roles \subseteq ever \union (IF always = {} THEN {"viewer"} ELSE {})

\* When a certificate of the provider was replaced, if it was.
ReplacedBefore(cert, time) ==
    cert < Len(outside.rotated) /\ outside.rotated[cert + 1] < time

(* What a login is judged by is as current as the configuration says. A    *)
(* callback is let in by a state only within the state's lifetime, and     *)
(* only if no other callback had deleted the state before this one read    *)
(* it: two that read it before either deletes it are both let in, the BFF  *)
(* does the two steps apart. It is turned away for its state only when one *)
(* of these fails, or the process that held the state in memory died. A    *)
(* SAML answer is judged by a certificate that the provider replaced, if   *)
(* at all, no longer before the request than the metadata may be cached.   *)
JudgedByTheCurrent ==
    \A r \in LoginSlots :
        LET q == login[r]
            timely == q.asked - issued[q.state].at <= StateTtl
        IN /\ q.way = "oauth2" /\ q.pc = "in" => timely /\ ~q.late
           /\ q.way = "oauth2" /\ q.pc = "turned" =>
                ~timely \/ q.late \/ issued[q.state].lost
           /\ q.way = "saml2" /\ q.pc \in {"in", "turned"} =>
                ~ReplacedBefore(q.cert.cert, q.began - MetadataTtl)

=============================================================================
