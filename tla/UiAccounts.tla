----------------------------- MODULE UiAccounts -----------------------------
(***************************************************************************)
(* Local accounts and sessions of monitoring-ui-api: the users file, the   *)
(* session store and the requests that work on both, each of which reads,  *)
(* waits and writes back what it read.                                     *)
(*                                                                         *)
(* A password is compared, never looked into, so its hash is itself. The   *)
(* users file is written in place: opening it truncates it, and of two     *)
(* writers that overlap the shorter text leaves the end of the longer one  *)
(* behind. Sessions of an identity provider have no local user; how the    *)
(* provider vouches for them is not modelled.                              *)
(***************************************************************************)
EXTENDS Integers, Sequences, FiniteSetsExt, Functions

CONSTANTS
    Admin,            \* the user of defaultLocalUsers
    Others,           \* further users of the file
    Nobody,           \* the local user of a session of an identity provider
    Passwords,        \* what users and administrators choose
    SessionIds,       \* random ids
    Slots,            \* requests served at the same time
    FirstFiles,       \* what the users file may hold at the first start
    StoreModes,       \* Auth:SessionStore:Mode: "memory", "redis"
    Idle,             \* Auth:SessionTimeoutMinutes
    Absolute,         \* Auth:SessionAbsoluteLifetimeMinutes
    MinTtl,           \* the least lifetime of a stored session
    MaxTime,          \* bound
    MaxRequests,      \* bound
    MaxCrashes        \* bound

Users == {Admin} \union Others

\* Random passwords, one for each start and an earlier one; no password at all.
Bootstrap(n) == <<"bootstrap", n>>
NoPassword == <<"none">>

Account == [pw : Passwords \union {Bootstrap(n) : n \in 0 .. MaxCrashes + 1},
            must : BOOLEAN]

Stores == UNION {[U -> Account] : U \in SUBSET Users}

ASSUME AccountsAssumption ==
    /\ IsFiniteSet(Others) /\ Admin \notin Others /\ Nobody \notin Users
    /\ \A n \in 0 .. MaxCrashes + 1 : Bootstrap(n) \notin Passwords
    /\ FirstFiles \subseteq [exists : BOOLEAN, store : Stores]
    /\ \A f \in FirstFiles :
         /\ f.exists \/ f.store = <<>>
         /\ \A u \in DOMAIN f.store, n \in 1 .. MaxCrashes + 1 :
              f.store[u].pw # Bootstrap(n)
    /\ StoreModes \subseteq {"memory", "redis"}
    /\ Idle \in Nat /\ Absolute \in Nat /\ MinTtl \in Nat
    /\ MaxTime \in Nat /\ MaxRequests \in Nat /\ MaxCrashes \in Nat

VARIABLES
    file,      \* users.json: does it exist, its entries, how far its text reaches
    bootFile,  \* the password in bootstrap-admin-password.txt
    service,   \* the process: session store, state, rest of ensureUsersFile
    sessions,  \* sessionStore
    req,       \* the requests being served
    now,
    known,     \* history: the password last set for a user
    lost,      \* history: users for whom it was undone or never told
    torn,      \* history: writes of the file overlapped, or a crash cut one
    visit,     \* history: per session its login, last accepted request, end
    counts     \* requests, crashes and starts so far

disk == <<file, bootFile>>
history == <<known, lost, torn, visit>>
vars == <<disk, service, sessions, req, now, history, counts>>

Session == [user : Users \union {Nobody}, created : 0 .. MaxTime,
            seen : 0 .. MaxTime, must : BOOLEAN, creds : BOOLEAN]

Partial(D, R) == UNION {[E -> R] : E \in SUBSET D}

Request == [pc : {"idle", "touch", "drop", "body", "open", "write", "save",
                  "list", "spread", "enter"},
            kind : {"none", "view", "change", "reset", "credentials", "login"},
            copies : Partial(SessionIds, Session), \* sessions it holds
            dirty : SUBSET SessionIds, \* history: of which others saved since
            store : Stores,            \* the users it is about to write
            stale : BOOLEAN,           \* history: others wrote since it read
            target : Users \union {Nobody}]

Idler == [pc |-> "idle", kind |-> "none", copies |-> <<>>, dirty |-> {},
          store |-> <<>>, stale |-> FALSE, target |-> Nobody]

Visit == [login : Nat, last : Nat, over : BOOLEAN, held : BOOLEAN,
          undone : BOOLEAN, creds : BOOLEAN]

Bootstraps == {Bootstrap(n) : n \in 0 .. MaxCrashes + 1}

TypeOK ==
    /\ file \in [exists : BOOLEAN, store : Stores, reach : Nat]
    /\ bootFile \in Bootstraps \union {NoPassword}
    /\ service.sessions \in StoreModes
    /\ service.mode \in {"down", "starting", "up"}
    /\ service.todo \in Seq({"open", "write", "note"})
    /\ service.store \in Stores
    /\ \A s \in DOMAIN sessions : /\ sessions[s].value \in Session
                                  /\ sessions[s].expires \in Nat
    /\ DOMAIN sessions \subseteq SessionIds /\ DOMAIN visit \subseteq SessionIds
    /\ req \in [Slots -> Request]
    /\ now \in 0 .. MaxTime
    /\ lost \subseteq Users
    /\ torn \in BOOLEAN
    /\ known \in [Users -> Passwords \union Bootstraps \union {NoPassword}]
    /\ \A s \in DOMAIN visit : visit[s] \in Visit
    /\ counts.requests \in 0 .. MaxRequests /\ counts.crashes \in 0 .. MaxCrashes
    /\ counts.starts \in 0 .. counts.crashes + 1

\* An entry of a user is longer than any difference between two entries.
Length(store) == 10 * Cardinality(DOMAIN store)
                 + Cardinality({u \in DOMAIN store : ~store[u].must})

Readable == file.exists /\ file.reach > 0 /\ file.reach = Length(file.store)

(* The text ends in a brace and a newline. Written over another text, it   *)
(* is whole unless the other one's brace stands behind its end.            *)
Over(reach, length) == IF reach - 1 <= length THEN length ELSE reach

Truncated == [exists |-> TRUE, store |-> <<>>, reach |-> 0]
Written(store) == [exists |-> TRUE, store |-> store,
                   reach |-> Over(file.reach, Length(store))]

Ttl == Max({MinTtl, Idle})

\* The map that holds v under k and nothing else; the map f with v under k.
Only(k, v) == [x \in {k} |-> v]
With(f, k, v) == [x \in DOMAIN f \union {k} |-> IF x = k THEN v ELSE f[x]]

Holds(q, s) == s \in DOMAIN req[q].copies
Writing(q) == req[q].pc = "write"

Init ==
    /\ \E f \in FirstFiles :
         /\ file = [exists |-> f.exists, store |-> f.store,
                    reach |-> Length(f.store)]
         /\ known = [u \in Users |-> IF u \in DOMAIN f.store THEN f.store[u].pw
                                     ELSE NoPassword]
    /\ bootFile = NoPassword
    /\ \E mode \in StoreModes :
         service = [sessions |-> mode, mode |-> "down", todo |-> <<>>, store |-> <<>>]
    /\ sessions = <<>>
    /\ req = [r \in Slots |-> Idler]
    /\ now = 0
    /\ lost = {} /\ torn = FALSE /\ visit = <<>>
    /\ counts = [requests |-> 0, crashes |-> 0, starts |-> 0]

-----------------------------------------------------------------------------
(* The process starts and dies; time passes. *)

\* Mutant: the missing administrator is noted after the file is written.
StartNotesLast ==
    /\ service.mode = "down"
    /\ file.exists => Readable
    /\ LET boot == [pw |-> Bootstrap(counts.starts + 1), must |-> TRUE]
       IN service' =
            IF Admin \notin DOMAIN file.store
            THEN [service EXCEPT !.mode = "starting",
                    !.todo = <<"open", "write", "note">>, !.store = With(file.store, Admin, boot)]
            ELSE [service EXCEPT !.mode = "up"]
    /\ counts' = [counts EXCEPT !.starts = @ + 1]
    /\ UNCHANGED <<disk, sessions, req, now, history>>

(* ensureUsersFile: a missing file is created first and its password       *)
(* noted afterwards; an administrator missing in the file is noted first.  *)
Start ==
    /\ service.mode = "down"
    /\ file.exists => Readable
    /\ LET pw == Bootstrap(counts.starts + 1)
           boot == [pw |-> pw, must |-> TRUE]
       IN service' =
            IF ~file.exists
            THEN [service EXCEPT !.mode = "starting",
                    !.todo = <<"open", "write", "note">>, !.store = Only(Admin, boot)]
            ELSE IF Admin \notin DOMAIN file.store
            THEN [service EXCEPT !.mode = "starting",
                    !.todo = <<"note", "open", "write">>, !.store = With(file.store, Admin, boot)]
            ELSE [service EXCEPT !.mode = "up"]
    /\ counts' = [counts EXCEPT !.starts = @ + 1]
    /\ UNCHANGED <<disk, sessions, req, now, history>>

\* The next step of ensureUsersFile; the listener opens after the last.
Ensure ==
    /\ service.mode = "starting"
    /\ LET pw == service.store[Admin].pw
           rest == Tail(service.todo)
       IN /\ \/ /\ Head(service.todo) = "open"
                /\ file' = Truncated /\ torn' = FALSE
                /\ UNCHANGED <<bootFile, known>>
             \/ /\ Head(service.todo) = "write"
                /\ file' = Written(service.store)
                /\ known' = [known EXCEPT ![Admin] = pw]
                /\ UNCHANGED <<bootFile, torn>>
             \/ /\ Head(service.todo) = "note"
                /\ bootFile' = pw
                /\ UNCHANGED <<file, known, torn>>
          /\ service' = [service EXCEPT !.todo = rest,
                            !.mode = IF rest = <<>> THEN "up" ELSE @]
    /\ UNCHANGED <<sessions, req, now, lost, visit, counts>>

(* The process dies: requests end, sessions in memory are gone, a file     *)
(* that was just truncated stays so, a password not yet noted is unknown.  *)
Crash ==
    /\ service.mode # "down" /\ counts.crashes < MaxCrashes
    /\ service' = [service EXCEPT !.mode = "down", !.todo = <<>>, !.store = <<>>]
    /\ req' = [r \in Slots |-> Idler]
    /\ sessions' = IF service.sessions = "redis" THEN sessions ELSE <<>>
    /\ visit' = [s \in DOMAIN visit |->
                   IF service.sessions = "redis"
                   THEN [visit[s] EXCEPT !.undone = @ \/ \E q \in Slots : Holds(q, s)]
                   ELSE [visit[s] EXCEPT !.over = TRUE, !.held = FALSE]]
    /\ torn' = \/ torn
               \/ \E r \in Slots : Writing(r)
               \/ service.todo # <<>> /\ Head(service.todo) = "write"
    /\ lost' = IF service.todo = <<"note">> /\ DOMAIN service.store = {Admin}
               THEN lost \union {Admin} ELSE lost
    /\ counts' = [counts EXCEPT !.crashes = @ + 1]
    /\ UNCHANGED <<disk, now, known>>

\* Sessions are dropped when their time to live is over.
Tick ==
    /\ now < MaxTime
    /\ now' = now + 1
    /\ sessions' = Restrict(sessions, {s \in DOMAIN sessions :
                                         now + 1 <= sessions[s].expires})
    /\ UNCHANGED <<disk, service, req, history, counts>>

-----------------------------------------------------------------------------
(* The session store. *)

\* Everyone else who holds a copy of session s now holds an old one.
Outdate(r, s) ==
    [q \in Slots |-> IF q # r /\ Holds(q, s)
                     THEN [req[q] EXCEPT !.dirty = @ \union {s}] ELSE req[q]]

\* saveSession: the copy replaces what is stored and lives for another Ttl.
Put(s, copy) == sessions' = With(sessions, s, [value |-> copy, expires |-> now + Ttl])

\* Request r saves its copy of s; what others saved since it read is undone.
SaveSession(r, s, copy, next) ==
    /\ Put(s, copy)
    /\ req' = [Outdate(r, s) EXCEPT ![r] = next]
    /\ visit' = [visit EXCEPT ![s].undone = @ \/ s \in req[r].dirty,
                              ![s].creds = @ \/ copy.creds]

\* Mutant: a stored session is taken for a live one.
ArriveStored(r, kind, s) ==
    /\ service.mode = "up" /\ req[r].pc = "idle"
    /\ counts.requests < MaxRequests
    /\ s \in DOMAIN sessions
    /\ LET session == sessions[s].value
           expired == now > session.created + Absolute
       IN /\ kind = "reset" => session.user = Admin
          /\ kind = "change" => session.user # Nobody
          /\ req' = [req EXCEPT ![r] = [Idler EXCEPT
                       !.pc = IF expired THEN "drop" ELSE "touch",
                       !.kind = kind,
                       !.copies = Only(s, IF expired THEN session
                                          ELSE [session EXCEPT !.seen = now])]]
          /\ visit' = IF expired THEN visit ELSE [visit EXCEPT ![s].last = now]
    /\ counts' = [counts EXCEPT !.requests = @ + 1]
    /\ UNCHANGED <<disk, service, sessions, now, known, lost, torn>>

(* requireSession: getSession reads the session and judges it; saving it   *)
(* with the time of this visit, or deleting it, is a call of its own.      *)
Arrive(r, kind, s) ==
    /\ service.mode = "up" /\ req[r].pc = "idle"
    /\ counts.requests < MaxRequests
    /\ s \in DOMAIN sessions
    /\ LET session == sessions[s].value
           expired == \/ now > session.seen + Idle
                      \/ now > session.created + Absolute
       IN /\ kind = "reset" => session.user = Admin
          /\ kind = "change" => session.user # Nobody
          /\ req' = [req EXCEPT ![r] = [Idler EXCEPT
                       !.pc = IF expired THEN "drop" ELSE "touch",
                       !.kind = kind,
                       !.copies = Only(s, IF expired THEN session
                                          ELSE [session EXCEPT !.seen = now])]]
          /\ visit' = IF expired THEN visit ELSE [visit EXCEPT ![s].last = now]
    /\ counts' = [counts EXCEPT !.requests = @ + 1]
    /\ UNCHANGED <<disk, service, sessions, now, known, lost, torn>>

\* An expired session is deleted, even if another request saved it since.
Drop(r, s) ==
    /\ req[r].pc = "drop" /\ Holds(r, s)
    /\ sessions' = Restrict(sessions, DOMAIN sessions \ {s})
    /\ req' = [Outdate(r, s) EXCEPT ![r] = Idler]
    /\ visit' = [visit EXCEPT ![s].undone = @ \/ s \in req[r].dirty]
    /\ UNCHANGED <<disk, service, now, known, lost, torn, counts>>

\* Mutant: a session is saved only when something of it is to be kept.
TouchUnsaved(r, s) ==
    /\ req[r].pc = "touch" /\ Holds(r, s)
    /\ req' = [req EXCEPT ![r] = IF @.kind = "view" THEN Idler
                 ELSE [@ EXCEPT !.pc = "body",
                         !.copies = IF req[r].kind = "reset" THEN <<>> ELSE @]]
    /\ UNCHANGED <<disk, service, sessions, now, history, counts>>

\* The end of getSession; a request that only reads is answered.
Touch(r, s) ==
    /\ req[r].pc = "touch" /\ Holds(r, s)
    /\ SaveSession(r, s, req[r].copies[s],
         IF req[r].kind = "view" THEN Idler
         ELSE [req[r] EXCEPT !.pc = "body", !.dirty = {},
                 !.copies = IF req[r].kind = "reset" THEN <<>> ELSE @])
    /\ UNCHANGED <<disk, service, now, known, lost, torn, counts>>

\* POST /api/auth/session-credentials.
SaveSessionCredentials(r, s) ==
    /\ req[r].pc = "body" /\ req[r].kind = "credentials" /\ Holds(r, s)
    /\ SaveSession(r, s, [req[r].copies[s] EXCEPT !.creds = TRUE], Idler)
    /\ UNCHANGED <<disk, service, now, known, lost, torn, counts>>

\* Mutant: logging out forgets the cookie only.
LogoutCookieOnly(s) ==
    /\ service.mode = "up" /\ counts.requests < MaxRequests
    /\ s \in DOMAIN visit
    /\ visit' = [visit EXCEPT ![s].over = TRUE]
    /\ counts' = [counts EXCEPT !.requests = @ + 1]
    /\ UNCHANGED <<disk, service, sessions, req, now, known, lost, torn>>

\* POST /api/auth/logout deletes the session of the cookie, whoever uses it.
Logout(s) ==
    /\ service.mode = "up" /\ counts.requests < MaxRequests
    /\ s \in DOMAIN visit
    /\ sessions' = Restrict(sessions, DOMAIN sessions \ {s})
    /\ req' = [q \in Slots |-> IF Holds(q, s)
                 THEN [req[q] EXCEPT !.dirty = @ \union {s}] ELSE req[q]]
    /\ visit' = [visit EXCEPT ![s].over = TRUE,
                              ![s].held = @ \/ \E q \in Slots : Holds(q, s)]
    /\ counts' = [counts EXCEPT !.requests = @ + 1]
    /\ UNCHANGED <<disk, service, now, known, lost, torn>>

(* A login makes a session and saves it: a local one by the users file,    *)
(* Nobody's by LDAP, SAML or OAuth.                                        *)
Login(r, u, s) ==
    /\ service.mode = "up" /\ req[r].pc = "idle"
    /\ counts.requests < MaxRequests
    /\ u # Nobody => Readable /\ u \in DOMAIN file.store
    /\ s \notin DOMAIN visit /\ \A q \in Slots : ~Holds(q, s)
    /\ req' = [req EXCEPT ![r] = [Idler EXCEPT
                 !.pc = "enter", !.kind = "login",
                 !.copies = Only(s, [user |-> u, created |-> now, seen |-> now,
                                     must |-> u # Nobody /\ file.store[u].must,
                                     creds |-> FALSE])]]
    /\ counts' = [counts EXCEPT !.requests = @ + 1]
    /\ UNCHANGED <<disk, service, sessions, now, history>>

Enter(r, s) ==
    /\ req[r].pc = "enter" /\ Holds(r, s)
    /\ Put(s, req[r].copies[s])
    /\ req' = [req EXCEPT ![r] = Idler]
    /\ visit' = With(visit, s,
                   [login |-> req[r].copies[s].created,
                    last |-> req[r].copies[s].seen, over |-> FALSE,
                    held |-> FALSE, undone |-> FALSE, creds |-> FALSE])
    /\ UNCHANGED <<disk, service, now, known, lost, torn, counts>>

-----------------------------------------------------------------------------
(* The users file. *)

\* A refused password, an unreadable file or body: the request ends.
Refuse(r) ==
    /\ req[r].pc = "body"
    /\ req' = [req EXCEPT ![r] = Idler]
    /\ UNCHANGED <<disk, service, sessions, now, history, counts>>

\* Mutant: what the file held at the first start is cached.
ReadUsersCached(r, u, pw, must) ==
    /\ req[r].pc = "body" /\ req[r].kind \in {"change", "reset"}
    /\ req[r].kind = "change" =>
         ~must /\ \E s \in DOMAIN req[r].copies : u = req[r].copies[s].user
    /\ \E first \in FirstFiles :
         /\ DOMAIN first.store = DOMAIN file.store /\ u \in DOMAIN first.store
         /\ req' = [req EXCEPT ![r].pc = "open", ![r].stale = FALSE, ![r].target = u,
              ![r].store = [first.store EXCEPT ![u] = [pw |-> pw, must |-> must]]]
    /\ UNCHANGED <<disk, service, sessions, now, history, counts>>

(* changeOwnPassword and resetUserPassword read the whole file and change  *)
(* one user of it; what they write later is this copy.                     *)
ReadUsers(r, u, pw, must) ==
    /\ req[r].pc = "body" /\ req[r].kind \in {"change", "reset"}
    /\ Readable /\ u \in DOMAIN file.store
    /\ req[r].kind = "change" =>
         ~must /\ \E s \in DOMAIN req[r].copies : u = req[r].copies[s].user
    /\ req' = [req EXCEPT ![r].pc = "open", ![r].stale = FALSE, ![r].target = u,
                 ![r].store = [file.store EXCEPT ![u] = [pw |-> pw, must |-> must]]]
    /\ UNCHANGED <<disk, service, sessions, now, history, counts>>

\* writeUsersStore, first half: the file is opened and thereby emptied.
OpenUsers(r) ==
    /\ req[r].pc = "open"
    /\ file' = Truncated
    /\ torn' = \E q \in Slots : Writing(q)
    /\ req' = [req EXCEPT ![r].pc = "write"]
    /\ UNCHANGED <<bootFile, service, sessions, now, known, lost, visit, counts>>

\* writeUsersStore, second half: the text is written from the start.
WriteUsers(r) ==
    /\ Writing(r)
    /\ LET u == req[r].target
           store == req[r].store
       IN /\ file' = Written(store)
          /\ known' = [known EXCEPT ![u] = store[u].pw]
          /\ lost' = (lost \ {u}) \union
                     (IF req[r].stale
                      THEN {v \in DOMAIN store \ {u} : store[v].pw # known[v]}
                      ELSE {})
    /\ req' = [q \in Slots |->
                 IF q = r THEN [req[q] EXCEPT !.pc = IF @ = "write" /\ req[q].kind = "reset"
                                                     THEN "list" ELSE "save"]
                 ELSE [req[q] EXCEPT !.stale = @ \/ req[q].pc \in {"open", "write"}]]
    /\ UNCHANGED <<bootFile, service, sessions, now, torn, visit, counts>>

\* changeOwnPassword: the session no longer asks for a new password.
SaveOwnSession(r, s) ==
    /\ req[r].pc = "save" /\ Holds(r, s)
    /\ SaveSession(r, s, [req[r].copies[s] EXCEPT !.must = FALSE], Idler)
    /\ UNCHANGED <<disk, service, now, known, lost, torn, counts>>

\* resetUserPassword collects the sessions of the user ...
ListSessions(r) ==
    /\ req[r].pc = "list"
    /\ LET user == req[r].target
           mine == {s \in DOMAIN sessions : sessions[s].value.user = user}
       IN req' = [req EXCEPT ![r] = IF mine = {} THEN Idler
                    ELSE [@ EXCEPT !.pc = "spread",
                      !.copies = [s \in mine |-> [sessions[s].value EXCEPT
                                    !.must = req[r].store[user].must]]]]
    /\ UNCHANGED <<disk, service, sessions, now, history, counts>>

\* ... and saves them one after the other.
SpreadSession(r, s) ==
    /\ req[r].pc = "spread" /\ Holds(r, s)
    /\ LET left == Restrict(req[r].copies, DOMAIN req[r].copies \ {s})
       IN SaveSession(r, s, req[r].copies[s],
            IF left = <<>> THEN Idler
            ELSE [req[r] EXCEPT !.copies = left, !.dirty = @ \ {s}])
    /\ UNCHANGED <<disk, service, now, known, lost, torn, counts>>

Next ==
    \/ Start \/ Ensure \/ Crash \/ Tick
    \/ \E s \in SessionIds : Logout(s)
    \/ \E r \in Slots, s \in SessionIds :
         \/ \E kind \in {"view", "change", "reset", "credentials"} : Arrive(r, kind, s)
         \/ \E u \in Users \union {Nobody} : Login(r, u, s)
         \/ Touch(r, s) \/ Drop(r, s) \/ Enter(r, s)
         \/ SaveSessionCredentials(r, s)
         \/ SaveOwnSession(r, s) \/ SpreadSession(r, s)
    \/ \E r \in Slots :
         \/ \E u \in Users, pw \in Passwords, must \in BOOLEAN : ReadUsers(r, u, pw, must)
         \/ Refuse(r) \/ OpenUsers(r) \/ WriteUsers(r) \/ ListSessions(r)

Spec == Init /\ [][Next]_vars

-----------------------------------------------------------------------------
(* Whoever is told that a password is set can log in with it: between      *)
(* writes the users file is whole and holds the last password of everyone, *)
(* but for those an overlapping request undid. Nothing serialises the      *)
(* requests: readUsersStore and writeUsersStore are all there is.          *)
AcceptedPasswordsHold ==
    \/ \E r \in Slots : Writing(r)
    \/ service.mode # "up"
    \/ torn
    \/ /\ Readable
       /\ \A u \in DOMAIN file.store \ lost : file.store[u].pw = known[u]

(* The administrator of a fresh installation can log in: once the service  *)
(* runs, the password noted beside the users file is the one in it, until  *)
(* somebody changes it, however many starts were interrupted: unless one   *)
(* died between its two writes, of the users file and of the note; what    *)
(* it wrote is then told to nobody (lost).                                 *)
BootstrapKnown ==
    (/\ service.mode = "up"
     /\ Admin \notin lost
     /\ \E n \in 1 .. counts.starts : known[Admin] = Bootstrap(n))
    => bootFile = known[Admin]

(* A session that was logged out, or lost with the process, does not come  *)
(* back, unless a request was using it when it was logged out: that        *)
(* request saves it again.                                                 *)
LoggedOutStaysOut ==
    \A s \in DOMAIN visit : visit[s].over /\ ~visit[s].held => s \notin DOMAIN sessions

(* A session in use stays usable: within its idle time and its lifetime it *)
(* is stored, with the time of the last visit and the credentials entered, *)
(* unless requests that overlapped wrote back older copies of it, or the   *)
(* process died before it was saved.                                       *)
LiveSessionStays ==
    \A s \in DOMAIN visit :
        \/ visit[s].over \/ visit[s].undone
        \/ \E q \in Slots : Holds(q, s)
        \/ now > visit[s].last + Idle \/ now > visit[s].login + Absolute
        \/ /\ s \in DOMAIN sessions
           /\ sessions[s].value.seen = visit[s].last
           /\ sessions[s].value.creds = visit[s].creds

(* A request is let in only within the idle time after the last one of its *)
(* session and within the session's lifetime, whatever older copies were   *)
(* written back in between.                                                *)
VisitsInTime ==
    [][\A s \in DOMAIN visit \intersect DOMAIN visit' :
         visit'[s].last # visit[s].last =>
           now <= visit[s].last + Idle /\ now <= visit[s].login + Absolute]_vars

=============================================================================
