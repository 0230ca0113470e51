------------------------- MODULE UiAccounts_proofs -------------------------
(***************************************************************************)
(* Accounts and sessions of the UI, for any users, passwords, requests,    *)
(* crashes and lifetimes. Three inductive invariants beside the types:     *)
(* SessionInv follows each session and the copies of it that requests      *)
(* hold, of which the one saved last wins; FileInv follows the users file  *)
(* through the requests that read it, change an entry and write it all     *)
(* back; BootInv says of every step of ensureUsersFile where the password  *)
(* of the first administrator already is. None of the properties is        *)
(* inductive by itself: a copy read earlier is what breaks them later.     *)
(***************************************************************************)
EXTENDS UiAccounts, FiniteSetTheorems, TLAPS

-----------------------------------------------------------------------------
(* Maps.                                                                   *)
LEMMA WithIs ==
  ASSUME NEW f, NEW k, NEW v
  PROVE  /\ DOMAIN With(f, k, v) = DOMAIN f \union {k}
         /\ With(f, k, v)[k] = v
         /\ \A x \in DOMAIN f \ {k} : With(f, k, v)[x] = f[x]
  BY DEF With

\* A map with one entry.
LEMMA OnlyIs ==
  ASSUME NEW k, NEW v
  PROVE  DOMAIN Only(k, v) = {k} /\ Only(k, v)[k] = v
  BY DEF Only

\* A map restricted to some of its keys.
LEMMA RestrictIs ==
  ASSUME NEW f, NEW S
  PROVE  DOMAIN Restrict(f, S) = S /\ \A x \in S : Restrict(f, S)[x] = f[x]
  BY DEF Restrict

\* A partial map has keys and values of its sets.
LEMMA PartialIs ==
  ASSUME NEW D, NEW R, NEW f \in Partial(D, R)
  PROVE  /\ DOMAIN f \subseteq D /\ \A x \in DOMAIN f : f[x] \in R
         /\ f \in [DOMAIN f -> R]
  BY DEF Partial

\* A function on some of the keys is a partial map.
LEMMA PartialBy ==
  ASSUME NEW D, NEW R, NEW E \in SUBSET D, NEW f \in [E -> R]
  PROVE  f \in Partial(D, R)
  BY DEF Partial

\* The empty map is a partial map.
LEMMA PartialEmpty ==
  ASSUME NEW D, NEW R
  PROVE  <<>> \in Partial(D, R) /\ DOMAIN <<>> = {}
  BY DEF Partial

\* So is a map with one entry,
LEMMA PartialOnly ==
  ASSUME NEW D, NEW R, NEW k \in D, NEW v \in R
  PROVE  Only(k, v) \in Partial(D, R)
  <1>1. {k} \in SUBSET D /\ Only(k, v) \in [{k} -> R]
    BY DEF Only
  <1> QED
    BY <1>1, PartialBy

\* and a map with an entry added or replaced,
LEMMA PartialWith ==
  ASSUME NEW D, NEW R, NEW f \in Partial(D, R), NEW k \in D, NEW v \in R
  PROVE  With(f, k, v) \in Partial(D, R)
  <1>1. DOMAIN f \union {k} \in SUBSET D
    BY PartialIs
  <1>2. With(f, k, v) \in [DOMAIN f \union {k} -> R]
    BY PartialIs DEF With
  <1> QED
    BY <1>1, <1>2, PartialBy

\* or restricted to some of its keys,
LEMMA PartialRestrict ==
  ASSUME NEW D, NEW R, NEW f \in Partial(D, R), NEW S \in SUBSET (DOMAIN f)
  PROVE  Restrict(f, S) \in Partial(D, R)
  <1>1. S \in SUBSET D /\ Restrict(f, S) \in [S -> R]
    BY PartialIs DEF Restrict
  <1> QED
    BY <1>1, PartialBy

\* or with the value of a key replaced.
LEMMA PartialExcept ==
  ASSUME NEW D, NEW R, NEW f \in Partial(D, R), NEW k \in DOMAIN f, NEW v \in R
  PROVE  [f EXCEPT ![k] = v] \in Partial(D, R)
  <1>1. DOMAIN f \in SUBSET D /\ [f EXCEPT ![k] = v] \in [DOMAIN f -> R]
    BY PartialIs
  <1> QED
    BY <1>1, PartialBy

\* The entries of the users file are a partial map from users.
LEMMA StoresArePartial == Stores = Partial(Users, Account)
  BY DEF Stores, Partial

\* A session is kept in the store at least for the idle time.
LEMMA Lifetime == Ttl \in Nat /\ Ttl >= Idle
  <1> DEFINE S == {MinTtl, Idle}
  <1>1. \E x \in S : \A y \in S : x >= y
    BY AccountsAssumption
  <1>2. Ttl \in S /\ \A y \in S : Ttl >= y
    BY <1>1 DEF Ttl, Max
  <1> QED
    BY <1>2, AccountsAssumption

-----------------------------------------------------------------------------
(* Types.                                                                  *)
Secrets == Passwords \union Bootstraps \union {NoPassword}

StoredSession == [value : Session, expires : Nat]

Todos == {<<>>, <<"open", "write", "note">>, <<"write", "note">>, <<"note">>,
          <<"note", "open", "write">>, <<"open", "write">>, <<"write">>}

\* What is left of ensureUsersFile after each of its steps.
LEMMA TodoTails ==
  /\ Tail(<<"open", "write", "note">>) = <<"write", "note">>
  /\ Tail(<<"write", "note">>) = <<"note">>
  /\ Tail(<<"note">>) = <<>>
  /\ Tail(<<"note", "open", "write">>) = <<"open", "write">>
  /\ Tail(<<"open", "write">>) = <<"write">>
  /\ Tail(<<"write">>) = <<>>
  OBVIOUS

\* Each plan of ensureUsersFile is a sequence of steps.
LEMMA TodosAreSequences == Todos \subseteq Seq({"open", "write", "note"})
  BY DEF Todos

Service == [sessions : StoreModes, mode : {"down", "starting", "up"},
            todo : Todos, store : Stores]

UsersFile == [exists : BOOLEAN, store : Stores, reach : Nat]

TypeInv ==
    /\ file \in UsersFile
    /\ bootFile \in Bootstraps \union {NoPassword}
    /\ service \in Service
    /\ service.mode = "starting" <=> service.todo # <<>>
    /\ service.mode = "starting" => Admin \in DOMAIN service.store
                                   /\ service.store[Admin].pw \in Bootstraps
    /\ sessions \in Partial(SessionIds, StoredSession)
    /\ req \in [Slots -> Request]
    /\ \A r \in Slots : req[r].pc \in {"open", "write", "list", "save"} =>
          req[r].kind \in {"change", "reset"}
    /\ \A r \in Slots : req[r].pc \in {"open", "write", "list"} =>
          req[r].target \in DOMAIN req[r].store
    /\ now \in 0 .. MaxTime
    /\ known \in [Users -> Secrets]
    /\ lost \subseteq Users
    /\ visit \in Partial(SessionIds, Visit)
    /\ counts \in [requests : Nat, crashes : Nat, starts : Nat]
    /\ counts.requests <= MaxRequests
    /\ counts.crashes <= MaxCrashes
    /\ counts.starts <= counts.crashes + (IF service.mode = "down" THEN 0 ELSE 1)

TornInv == torn \in BOOLEAN

\* The fields of a request.
LEMMA RequestFields ==
  ASSUME NEW q \in Request
  PROVE  /\ q.copies \in Partial(SessionIds, Session)
         /\ q.dirty \subseteq SessionIds /\ q.store \in Stores
         /\ q.target \in Users \union {Nobody}
         /\ DOMAIN q.copies \subseteq SessionIds
         /\ \A s \in DOMAIN q.copies : q.copies[s] \in Session
  BY PartialIs DEF Request

\* A request that is over holds no session.
LEMMA IdlerIs == Idler \in Request /\ DOMAIN Idler.copies = {}
  <1>1. <<>> \in Partial(SessionIds, Session) /\ <<>> \in Stores /\ DOMAIN <<>> = {}
    BY PartialEmpty, StoresArePartial
  <1> QED
    BY <1>1 DEF Idler, Request

\* What is stored for a session, and in the file for a user.
LEMMA StoredIs ==
  ASSUME TypeInv, NEW s \in DOMAIN sessions
  PROVE  /\ s \in SessionIds /\ sessions[s] \in StoredSession
         /\ sessions[s].value \in Session /\ sessions[s].expires \in Nat
  <1>1. s \in SessionIds /\ sessions[s] \in StoredSession
    BY PartialIs DEF TypeInv
  <1> QED
    BY <1>1 DEF StoredSession

\* An entry of the users file is an account.
LEMMA StoreIs ==
  ASSUME NEW store \in Stores, NEW u \in DOMAIN store
  PROVE  /\ u \in Users /\ store[u] \in Account
         /\ store[u].pw \in Passwords \union Bootstraps /\ store[u].must \in BOOLEAN
  <1>1. u \in Users /\ store[u] \in Account
    BY StoresArePartial, PartialIs
  <1> QED
    BY <1>1 DEF Account, Bootstraps

\* A request that others outdate keeps everything but its dirty mark.
LEMMA DirtyIs ==
  ASSUME NEW q \in Request, NEW s \in SessionIds
  PROVE  LET d == [q EXCEPT !.dirty = @ \union {s}]
         IN  /\ d \in Request /\ d.dirty = q.dirty \union {s}
             /\ d.pc = q.pc /\ d.kind = q.kind /\ d.copies = q.copies
             /\ d.store = q.store /\ d.target = q.target /\ d.stale = q.stale
  BY DEF Request

\* What saving a session does to the types.
LEMMA SaveTypes ==
  ASSUME TypeInv, NEW r \in Slots, NEW s \in SessionIds, NEW copy \in Session,
         NEW next \in Request, SaveSession(r, s, copy, next),
         next.pc \notin {"open", "write", "list", "save"}
  PROVE  /\ sessions' \in Partial(SessionIds, StoredSession)
         /\ req' \in [Slots -> Request]
         /\ visit' \in Partial(SessionIds, Visit)
         /\ \A q \in Slots : req'[q].pc \in {"open", "write", "list", "save"} =>
               /\ req'[q].pc = req[q].pc /\ req'[q].kind = req[q].kind
               /\ req'[q].store = req[q].store /\ req'[q].target = req[q].target
  <1>1. now \in Nat /\ now + Ttl \in Nat
    BY Lifetime, AccountsAssumption DEF TypeInv
  <1>2. [value |-> copy, expires |-> now + Ttl] \in StoredSession
    BY <1>1 DEF StoredSession
  <1>3. sessions' \in Partial(SessionIds, StoredSession)
    BY <1>2, PartialWith DEF TypeInv, SaveSession, Put
  <1>4. req' = [Outdate(r, s) EXCEPT ![r] = next]
    BY DEF SaveSession
  <1>5. /\ Outdate(r, s) \in [Slots -> Request]
        /\ \A q \in Slots : /\ Outdate(r, s)[q].pc = req[q].pc
                            /\ Outdate(r, s)[q].kind = req[q].kind
                            /\ Outdate(r, s)[q].store = req[q].store
                            /\ Outdate(r, s)[q].target = req[q].target
    BY DirtyIs DEF Outdate, TypeInv
  <1>6. /\ req' \in [Slots -> Request]
        /\ req'[r] = next /\ \A q \in Slots \ {r} : req'[q] = Outdate(r, s)[q]
    BY <1>4, <1>5
  <1>7. visit' \in Partial(SessionIds, Visit)
    <2>1. visit' = [visit EXCEPT ![s].undone = @ \/ s \in req[r].dirty,
                                 ![s].creds = @ \/ copy.creds]
      BY DEF SaveSession
    <2>2. CASE s \in DOMAIN visit
      <3>1. visit[s] \in Visit /\ copy.creds \in BOOLEAN
        BY <2>2, PartialIs DEF TypeInv, Session
      <3> DEFINE v == [visit[s] EXCEPT !.undone = @ \/ s \in req[r].dirty,
                                       !.creds = @ \/ copy.creds]
      <3>2. v \in Visit
        BY <3>1 DEF Visit
      <3>3. visit' = [visit EXCEPT ![s] = v]
        BY <2>1, <2>2
      <3> HIDE DEF v
      <3> QED
        BY <2>2, <3>2, <3>3, PartialExcept DEF TypeInv
    <2>3. CASE s \notin DOMAIN visit
      <3>1. visit' = [x \in DOMAIN visit |-> visit[x]]
        BY <2>1, <2>3
      <3>2. visit \in [DOMAIN visit -> Visit]
        BY PartialIs DEF TypeInv
      <3> QED
        BY <3>1, <3>2 DEF TypeInv
    <2> QED
      BY <2>2, <2>3
  <1> QED
    BY <1>3, <1>5, <1>6, <1>7

\* Steps that leave the file, the service and the counters to themselves.
SessionTypes ==
    /\ sessions \in Partial(SessionIds, StoredSession)
    /\ req \in [Slots -> Request]
    /\ \A r \in Slots : req[r].pc \in {"open", "write", "list", "save"} =>
          req[r].kind \in {"change", "reset"}
    /\ \A r \in Slots : req[r].pc \in {"open", "write", "list"} =>
          req[r].target \in DOMAIN req[r].store
    /\ visit \in Partial(SessionIds, Visit)

\* A request that saves, drops or begins a session keeps the types.
LEMMA SessionSteps ==
  ASSUME TypeInv, NEW r \in Slots, NEW s \in SessionIds,
         \/ Touch(r, s) \/ Drop(r, s) \/ Enter(r, s)
         \/ SaveSessionCredentials(r, s)
         \/ SaveOwnSession(r, s) \/ SpreadSession(r, s)
  PROVE  SessionTypes'
  <1> DEFINE copy == req[r].copies[s]
  <1>1. /\ Holds(r, s) /\ req[r] \in Request /\ copy \in Session
        /\ req[r].copies \in Partial(SessionIds, Session) /\ s \in DOMAIN req[r].copies
    <2>1. Holds(r, s)
      BY DEF Touch, Drop, Enter, SaveSessionCredentials, SaveOwnSession, SpreadSession
    <2> QED
      BY <2>1, RequestFields DEF TypeInv, Holds
  <1>2. ASSUME NEW c \in Session, NEW next \in Request, SaveSession(r, s, c, next),
               next.pc \notin {"open", "write", "list", "save"}
        PROVE  SessionTypes'
    BY <1>2, SaveTypes DEF TypeInv, SessionTypes
  <1>3. CASE Touch(r, s)
    <2> DEFINE next == IF req[r].kind = "view" THEN Idler
                       ELSE [req[r] EXCEPT !.pc = "body", !.dirty = {},
                               !.copies = IF req[r].kind = "reset" THEN <<>> ELSE @]
    <2>1. next \in Request /\ next.pc \in {"idle", "body"}
      <3>1. <<>> \in Partial(SessionIds, Session)
        BY PartialEmpty
      <3>2. [req[r] EXCEPT !.pc = "body", !.dirty = {},
               !.copies = IF req[r].kind = "reset" THEN <<>> ELSE @] \in Request
        BY <1>1, <3>1 DEF Request
      <3> QED
        BY <1>1, <3>2, IdlerIs DEF Idler, Request
    <2>2. SaveSession(r, s, copy, next)
      BY <1>3 DEF Touch
    <2> HIDE DEF next
    <2> QED
      BY <1>1, <1>2, <2>1, <2>2
  <1>4. CASE Drop(r, s)
    <2>1. /\ sessions' = Restrict(sessions, DOMAIN sessions \ {s})
          /\ req' = [Outdate(r, s) EXCEPT ![r] = Idler]
          /\ visit' = [visit EXCEPT ![s].undone = @ \/ s \in req[r].dirty]
      BY <1>4 DEF Drop
    <2>2. sessions' \in Partial(SessionIds, StoredSession)
      BY <2>1, PartialRestrict DEF TypeInv
    <2>3. visit' \in Partial(SessionIds, Visit)
      <3>1. CASE s \in DOMAIN visit
        <4>1. visit[s] \in Visit
          BY <3>1, PartialIs DEF TypeInv
        <4> DEFINE v == [visit[s] EXCEPT !.undone = @ \/ s \in req[r].dirty]
        <4>2. v \in Visit
          BY <4>1 DEF Visit
        <4>3. visit' = [visit EXCEPT ![s] = v]
          BY <2>1, <3>1
        <4> HIDE DEF v
        <4> QED
          BY <3>1, <4>2, <4>3, PartialExcept DEF TypeInv
      <3>2. CASE s \notin DOMAIN visit
        <4>1. visit' = [x \in DOMAIN visit |-> visit[x]]
          BY <2>1, <3>2
        <4>2. visit \in [DOMAIN visit -> Visit]
          BY PartialIs DEF TypeInv
        <4> QED
          BY <4>1, <4>2 DEF TypeInv
      <3> QED
        BY <3>1, <3>2
    <2>4. /\ Outdate(r, s) \in [Slots -> Request]
          /\ \A q \in Slots : /\ Outdate(r, s)[q].pc = req[q].pc
                              /\ Outdate(r, s)[q].kind = req[q].kind
                              /\ Outdate(r, s)[q].store = req[q].store
                              /\ Outdate(r, s)[q].target = req[q].target
      BY DirtyIs DEF Outdate, TypeInv
    <2>5. req' \in [Slots -> Request] /\ req'[r] = Idler
          /\ \A q \in Slots \ {r} : req'[q] = Outdate(r, s)[q]
      BY <2>1, <2>4, IdlerIs
    <2> QED
      BY <2>2, <2>3, <2>4, <2>5 DEF SessionTypes, TypeInv, Idler
  <1>5. CASE Enter(r, s)
    <2> DEFINE v == [login |-> copy.created, last |-> copy.seen, over |-> FALSE,
                     held |-> FALSE, undone |-> FALSE, creds |-> FALSE]
    <2>1. v \in Visit
      BY <1>1, AccountsAssumption DEF Visit, Session
    <2>2. visit' = With(visit, s, v)
      BY <1>5 DEF Enter
    <2>3. [value |-> copy, expires |-> now + Ttl] \in StoredSession
      BY <1>1, Lifetime, AccountsAssumption DEF StoredSession, TypeInv
    <2>4. sessions' \in Partial(SessionIds, StoredSession)
      BY <1>5, <2>3, PartialWith DEF Enter, Put, TypeInv
    <2> HIDE DEF v
    <2>5. visit' \in Partial(SessionIds, Visit)
      BY <2>1, <2>2, PartialWith DEF TypeInv
    <2>6. req' = [req EXCEPT ![r] = Idler]
      BY <1>5 DEF Enter
    <2> QED
      BY <2>4, <2>5, <2>6, IdlerIs DEF SessionTypes, TypeInv, Idler
  <1>6. CASE SaveSessionCredentials(r, s)
    <2>1. [copy EXCEPT !.creds = TRUE] \in Session
      BY <1>1 DEF Session
    <2>2. SaveSession(r, s, [copy EXCEPT !.creds = TRUE], Idler)
      BY <1>6 DEF SaveSessionCredentials
    <2>3. Idler.pc = "idle"
      BY DEF Idler
    <2> QED
      BY <1>2, <2>1, <2>2, <2>3, IdlerIs
  <1>7. CASE SaveOwnSession(r, s)
    <2>1. [copy EXCEPT !.must = FALSE] \in Session
      BY <1>1 DEF Session
    <2>2. SaveSession(r, s, [copy EXCEPT !.must = FALSE], Idler)
      BY <1>7 DEF SaveOwnSession
    <2>3. Idler.pc = "idle"
      BY DEF Idler
    <2> QED
      BY <1>2, <2>1, <2>2, <2>3, IdlerIs
  <1>8. CASE SpreadSession(r, s)
    <2> DEFINE left == Restrict(req[r].copies, DOMAIN req[r].copies \ {s})
               next == IF left = <<>> THEN Idler
                       ELSE [req[r] EXCEPT !.copies = left, !.dirty = @ \ {s}]
    <2>1. left \in Partial(SessionIds, Session)
      BY <1>1, PartialRestrict
    <2>2. SaveSession(r, s, copy, next) /\ req[r].pc = "spread"
      BY <1>8 DEF SpreadSession
    <2> HIDE DEF left
    <2>3. next \in Request /\ next.pc \in {"idle", "spread"}
      <3>1. /\ [req[r] EXCEPT !.copies = left, !.dirty = @ \ {s}] \in Request
            /\ [req[r] EXCEPT !.copies = left, !.dirty = @ \ {s}].pc = "spread"
        BY <1>1, <2>1, <2>2 DEF Request
      <3> QED
        BY <3>1, IdlerIs DEF Idler
    <2> HIDE DEF next
    <2> QED
      BY <1>1, <1>2, <2>2, <2>3
  <1> QED
    BY <1>3, <1>4, <1>5, <1>6, <1>7, <1>8

\* The requests that begin, refuse, or work on the users file.
LEMMA RequestSteps ==
  ASSUME TypeInv, NEW r \in Slots,
         \/ \E s \in SessionIds, kind \in {"view", "change", "reset", "credentials"} :
               Arrive(r, kind, s)
         \/ \E s \in SessionIds, u \in Users \union {Nobody} : Login(r, u, s)
         \/ \E u \in Users, pw \in Passwords, must \in BOOLEAN : ReadUsers(r, u, pw, must)
         \/ Refuse(r) \/ ListSessions(r)
  PROVE  SessionTypes'
  <1>0. req[r] \in Request /\ now \in 0 .. MaxTime
    BY DEF TypeInv
  <1>1. ASSUME NEW next \in Request, req' = [req EXCEPT ![r] = next],
               visit' \in Partial(SessionIds, Visit), sessions' = sessions,
               next.pc \in {"open", "write", "list", "save"} =>
                 next.kind \in {"change", "reset"} /\ next.target \in DOMAIN next.store
        PROVE  SessionTypes'
    BY <1>1 DEF SessionTypes, TypeInv
  <1>2. ASSUME NEW s \in SessionIds, NEW kind \in {"view", "change", "reset", "credentials"},
               Arrive(r, kind, s)
        PROVE  SessionTypes'
    <2> DEFINE session == sessions[s].value
               expired == \/ now > session.seen + Idle
                          \/ now > session.created + Absolute
               copy == IF expired THEN session ELSE [session EXCEPT !.seen = now]
               next == [Idler EXCEPT !.pc = IF expired THEN "drop" ELSE "touch",
                                     !.kind = kind, !.copies = Only(s, copy)]
    <2>1. s \in DOMAIN sessions /\ session \in Session
      BY <1>2, StoredIs DEF Arrive
    <2>2. copy \in Session
      BY <1>0, <2>1 DEF Session
    <2> HIDE DEF copy
    <2>3. Only(s, copy) \in Partial(SessionIds, Session)
      BY <2>2, PartialOnly
    <2>4. next \in Request /\ next.pc \in {"drop", "touch"}
      BY <2>3, IdlerIs DEF Idler, Request
    <2>5. /\ req' = [req EXCEPT ![r] = next] /\ sessions' = sessions
          /\ visit' = IF expired THEN visit ELSE [visit EXCEPT ![s].last = now]
      BY <1>2 DEF Arrive, copy
    <2>6. visit' \in Partial(SessionIds, Visit)
      <3>1. CASE s \in DOMAIN visit
        <4>1. visit[s] \in Visit
          BY <3>1, PartialIs DEF TypeInv
        <4> DEFINE v == [visit[s] EXCEPT !.last = now]
        <4>2. v \in Visit
          BY <1>0, <4>1, AccountsAssumption DEF Visit
        <4>3. visit' \in {visit, [visit EXCEPT ![s] = v]}
          BY <2>5, <3>1
        <4> HIDE DEF v
        <4> QED
          BY <3>1, <4>2, <4>3, PartialExcept DEF TypeInv
      <3>2. CASE s \notin DOMAIN visit
        <4>1. visit' \in {visit, [x \in DOMAIN visit |-> visit[x]]}
          BY <2>5, <3>2
        <4>2. visit \in [DOMAIN visit -> Visit]
          BY PartialIs DEF TypeInv
        <4> QED
          BY <4>1, <4>2 DEF TypeInv
      <3> QED
        BY <3>1, <3>2
    <2> HIDE DEF next
    <2> QED
      BY <1>1, <2>4, <2>5, <2>6
  <1>3. ASSUME NEW s \in SessionIds, NEW u \in Users \union {Nobody}, Login(r, u, s)
        PROVE  SessionTypes'
    <2> DEFINE copy == [user |-> u, created |-> now, seen |-> now,
                        must |-> u # Nobody /\ file.store[u].must, creds |-> FALSE]
               next == [Idler EXCEPT !.pc = "enter", !.kind = "login",
                                     !.copies = Only(s, copy)]
    <2>1. (u # Nobody /\ file.store[u].must) \in BOOLEAN
      OBVIOUS
    <2>2. copy \in Session
      BY <1>0, <2>1 DEF Session
    <2>3. req' = [req EXCEPT ![r] = next] /\ sessions' = sessions /\ visit' = visit
      BY <1>3 DEF Login, history
    <2> HIDE DEF copy
    <2>4. Only(s, copy) \in Partial(SessionIds, Session)
      BY <2>2, PartialOnly
    <2>5. next \in Request /\ next.pc = "enter"
      BY <2>4, IdlerIs DEF Idler, Request
    <2> HIDE DEF next
    <2> QED
      BY <1>1, <2>3, <2>5 DEF TypeInv
  <1>4. ASSUME NEW u \in Users, NEW pw \in Passwords, NEW must \in BOOLEAN,
               ReadUsers(r, u, pw, must)
        PROVE  SessionTypes'
    <2> DEFINE entry == [pw |-> pw, must |-> must]
               store == [file.store EXCEPT ![u] = entry]
               next == [req[r] EXCEPT !.pc = "open", !.stale = FALSE,
                                      !.target = u, !.store = store]
    <2>1. u \in DOMAIN file.store /\ file.store \in Stores
          /\ req[r].kind \in {"change", "reset"}
      BY <1>4 DEF ReadUsers, TypeInv, UsersFile
    <2>2. entry \in Account
      BY DEF Account
    <2> HIDE DEF entry
    <2>3. store \in Stores /\ u \in DOMAIN store
      BY <2>1, <2>2, StoresArePartial, PartialExcept
    <2>4. req' = [req EXCEPT ![r].pc = "open", ![r].stale = FALSE, ![r].target = u,
                             ![r].store = store]
          /\ sessions' = sessions /\ visit' = visit
      BY <1>4 DEF ReadUsers, history, entry
    <2> HIDE DEF store
    <2>5. next \in Request /\ next.kind = req[r].kind /\ next.target = u /\ next.store = store
      BY <1>0, <2>3 DEF Request
    <2>6. req' = [req EXCEPT ![r] = next]
      BY <1>0, <2>4 DEF TypeInv
    <2> HIDE DEF next
    <2> QED
      BY <1>1, <2>1, <2>3, <2>4, <2>5, <2>6 DEF TypeInv
  <1>5. CASE Refuse(r)
    <2>1. req' = [req EXCEPT ![r] = Idler] /\ sessions' = sessions /\ visit' = visit
      BY <1>5 DEF Refuse, history
    <2> QED
      BY <1>1, <2>1, IdlerIs DEF TypeInv, Idler
  <1>6. CASE ListSessions(r)
    <2> DEFINE user == req[r].target
               mine == {s \in DOMAIN sessions : sessions[s].value.user = user}
               must == req[r].store[user].must
               copies == [s \in mine |-> [sessions[s].value EXCEPT !.must = must]]
               next == IF mine = {} THEN Idler
                       ELSE [req[r] EXCEPT !.pc = "spread", !.copies = copies]
    <2>1. req[r].store \in Stores /\ user \in DOMAIN req[r].store
      BY <1>0, <1>6, RequestFields DEF ListSessions, TypeInv
    <2>2. must \in BOOLEAN
      BY <2>1, StoreIs
    <2> HIDE DEF must
    <2>3. \A s \in DOMAIN sessions : sessions[s].value \in Session /\ s \in SessionIds
      BY StoredIs
    <2>4. mine \in SUBSET SessionIds /\ copies \in [mine -> Session]
      BY <2>2, <2>3 DEF Session
    <2>5. req' = [req EXCEPT ![r] = next] /\ sessions' = sessions /\ visit' = visit
      BY <1>6 DEF ListSessions, history, must
    <2> HIDE DEF copies, mine
    <2>6. copies \in Partial(SessionIds, Session)
      BY <2>4, PartialBy
    <2>7. next \in Request /\ next.pc \in {"idle", "spread"}
      <3>1. /\ [req[r] EXCEPT !.pc = "spread", !.copies = copies] \in Request
            /\ [req[r] EXCEPT !.pc = "spread", !.copies = copies].pc = "spread"
        BY <1>0, <2>6 DEF Request
      <3> QED
        BY <3>1, IdlerIs DEF Idler
    <2> HIDE DEF next
    <2> QED
      BY <1>1, <2>5, <2>7 DEF TypeInv
  <1> QED
    BY <1>2, <1>3, <1>4, <1>5, <1>6

\* Logging out, and the clock.
LEMMA OtherSteps ==
  ASSUME TypeInv, Tick \/ \E s \in SessionIds : Logout(s)
  PROVE  SessionTypes'
  <1>1. CASE Tick
    <2>1. /\ sessions' = Restrict(sessions, {s \in DOMAIN sessions :
                                               now + 1 <= sessions[s].expires})
          /\ req' = req /\ visit' = visit
      BY <1>1 DEF Tick, history
    <2> QED
      BY <2>1, PartialRestrict DEF SessionTypes, TypeInv
  <1>2. ASSUME NEW s \in SessionIds, Logout(s) PROVE SessionTypes'
    <2>1. /\ sessions' = Restrict(sessions, DOMAIN sessions \ {s})
          /\ req' = [q \in Slots |-> IF Holds(q, s)
                       THEN [req[q] EXCEPT !.dirty = @ \union {s}] ELSE req[q]]
          /\ visit' = [visit EXCEPT ![s].over = TRUE,
                                    ![s].held = @ \/ \E q \in Slots : Holds(q, s)]
          /\ s \in DOMAIN visit
      BY <1>2 DEF Logout
    <2>2. sessions' \in Partial(SessionIds, StoredSession)
      BY <2>1, PartialRestrict DEF TypeInv
    <2>3. visit' \in Partial(SessionIds, Visit)
      <3>1. visit[s] \in Visit
        BY <2>1, PartialIs DEF TypeInv
      <3> DEFINE v == [visit[s] EXCEPT !.over = TRUE,
                                       !.held = @ \/ \E q \in Slots : Holds(q, s)]
      <3>2. v \in Visit
        BY <3>1 DEF Visit
      <3>3. visit' = [visit EXCEPT ![s] = v]
        BY <2>1
      <3>4. s \in DOMAIN visit
        BY <2>1
      <3> HIDE DEF v
      <3> QED
        BY <3>2, <3>3, <3>4, PartialExcept DEF TypeInv
    <2>4. /\ req' \in [Slots -> Request]
          /\ \A q \in Slots : /\ req'[q].pc = req[q].pc
                              /\ req'[q].kind = req[q].kind
                              /\ req'[q].store = req[q].store
                              /\ req'[q].target = req[q].target
      <3>1. req \in [Slots -> Request]
        BY DEF TypeInv
      <3>2. ASSUME NEW q \in Slots
            PROVE  /\ req'[q] \in Request
                   /\ req'[q].pc = req[q].pc /\ req'[q].kind = req[q].kind
                   /\ req'[q].store = req[q].store /\ req'[q].target = req[q].target
        <4>1. req[q] \in Request
          BY <3>1
        <4> DEFINE d == [req[q] EXCEPT !.dirty = @ \union {s}]
        <4>2. req'[q] = req[q] \/ req'[q] = d
          BY <2>1
        <4>3. /\ d \in Request /\ d.pc = req[q].pc /\ d.kind = req[q].kind
              /\ d.store = req[q].store /\ d.target = req[q].target
          BY <4>1, DirtyIs
        <4> HIDE DEF d
        <4> QED
          BY <4>1, <4>2, <4>3
      <3>3. req' = [q \in Slots |-> req'[q]]
        BY <2>1
      <3> QED
        BY <3>2, <3>3
    <2> QED
      BY <2>2, <2>3, <2>4 DEF SessionTypes, TypeInv
  <1> QED
    BY <1>1, <1>2

\* The length of a users file.
LEMMA LengthIs ==
  ASSUME NEW store \in Stores
  PROVE  Length(store) \in Nat /\ (store # <<>> => Length(store) > 0)
  <1>1. IsFiniteSet(Users)
    BY AccountsAssumption, FS_AddElement DEF Users
  <1>2. DOMAIN store \subseteq Users
    BY StoreIs
  <1>3. IsFiniteSet(DOMAIN store)
    BY <1>1, <1>2, FS_Subset
  <1>4. Cardinality(DOMAIN store) \in Nat
    BY <1>3, FS_CardinalityType
  <1> DEFINE D == {u \in DOMAIN store : ~store[u].must}
  <1>5. Cardinality(D) \in Nat
    <2>1. D \subseteq DOMAIN store
      OBVIOUS
    <2> HIDE DEF D
    <2> QED
      BY <1>3, <2>1, FS_Subset, FS_CardinalityType
  <1>6. Length(store) = 10 * Cardinality(DOMAIN store) + Cardinality(D)
    BY DEF Length
  <1> HIDE DEF D
  <1>7. Length(store) \in Nat
    BY <1>4, <1>5, <1>6
  <1>8. ASSUME store # <<>> PROVE Length(store) > 0
    <2>1. DOMAIN store # {}
      <3>1. store \in [DOMAIN store -> Account]
        BY StoresArePartial, PartialIs
      <3> QED
        BY <1>8, <3>1
    <2>2. Cardinality(DOMAIN store) # 0
      BY <1>3, <2>1, FS_EmptySet
    <2> QED
      BY <1>4, <1>5, <1>6, <2>2
  <1> QED
    BY <1>7, <1>8

\* A users file written or truncated is a users file.
LEMMA FileIs ==
  ASSUME TypeInv, NEW store \in Stores
  PROVE  Written(store) \in UsersFile /\ Truncated \in UsersFile
  <1>1. file.reach \in Nat /\ <<>> \in Stores
    BY PartialEmpty, StoresArePartial DEF TypeInv, UsersFile
  <1>2. Over(file.reach, Length(store)) \in Nat
    BY <1>1, LengthIs DEF Over
  <1> QED
    BY <1>1, <1>2 DEF Written, Truncated, UsersFile

\* Initially the types hold.
LEMMA InitTypes == Init => TypeInv /\ TornInv
  <1> SUFFICES ASSUME Init PROVE TypeInv /\ TornInv
    OBVIOUS
  <1>1. PICK f \in FirstFiles :
          /\ file = [exists |-> f.exists, store |-> f.store, reach |-> Length(f.store)]
          /\ known = [u \in Users |-> IF u \in DOMAIN f.store THEN f.store[u].pw
                                      ELSE NoPassword]
    BY DEF Init
  <1>2. f.exists \in BOOLEAN /\ f.store \in Stores
    BY AccountsAssumption
  <1>3. file \in UsersFile
    <2>1. Length(f.store) \in Nat
      BY <1>2, LengthIs
    <2> QED
      BY <1>1, <1>2, <2>1 DEF UsersFile
  <1>4. known \in [Users -> Secrets]
    BY <1>1, <1>2, StoreIs DEF Secrets
  <1>5. /\ service \in Service /\ service.mode = "down" /\ service.todo = <<>>
    <2>1. <<>> \in Stores
      BY PartialEmpty, StoresArePartial
    <2> QED
      BY <2>1 DEF Init, Service, Todos
  <1>6. sessions \in Partial(SessionIds, StoredSession) /\ visit \in Partial(SessionIds, Visit)
    BY PartialEmpty DEF Init
  <1>7. req \in [Slots -> Request] /\ \A r \in Slots : req[r].pc = "idle"
    BY IdlerIs DEF Init, Idler
  <1>8. /\ bootFile = NoPassword /\ now = 0 /\ lost = {} /\ torn = FALSE
        /\ counts = [requests |-> 0, crashes |-> 0, starts |-> 0]
    BY DEF Init
  <1>9. counts \in [requests : Nat, crashes : Nat, starts : Nat]
        /\ counts.requests = 0 /\ counts.crashes = 0 /\ counts.starts = 0
    BY <1>8
  <1>10. TypeInv
    BY <1>3, <1>4, <1>5, <1>6, <1>7, <1>8, <1>9, AccountsAssumption DEF TypeInv
  <1> QED
    BY <1>8, <1>10 DEF TornInv

\* Every step keeps the types.
LEMMA TypeStep == TypeInv /\ [Next]_vars => TypeInv'
  <1> SUFFICES ASSUME TypeInv, [Next]_vars PROVE TypeInv'
    OBVIOUS
  <1>c. counts.requests \in Nat /\ counts.crashes \in Nat /\ counts.starts \in Nat
    BY DEF TypeInv
  <1>n. ASSUME UNCHANGED <<file, bootFile, service, now, known, lost>>, SessionTypes',
               counts' \in {counts, [counts EXCEPT !.requests = @ + 1]},
               counts' # counts => counts.requests < MaxRequests
        PROVE  TypeInv'
    <2>1. /\ counts' \in [requests : Nat, crashes : Nat, starts : Nat]
          /\ counts'.requests <= MaxRequests
          /\ counts'.crashes = counts.crashes /\ counts'.starts = counts.starts
      BY <1>c, <1>n, AccountsAssumption DEF TypeInv
    <2> QED
      BY <1>n, <2>1 DEF TypeInv, SessionTypes
  <1>1. CASE Start
    <2> DEFINE pw == Bootstrap(counts.starts + 1)
               boot == [pw |-> pw, must |-> TRUE]
    <2>1. /\ service.mode = "down" /\ counts' = [counts EXCEPT !.starts = @ + 1]
          /\ UNCHANGED <<file, bootFile, sessions, req, now, known, lost, visit>>
      BY <1>1 DEF Start, disk, history
    <2>2. counts.starts + 1 \in 0 .. MaxCrashes + 1
      BY <1>c, <2>1, AccountsAssumption DEF TypeInv
    <2>3. pw \in Bootstraps /\ boot \in Account
      BY <2>2 DEF Bootstraps, Account
    <2>4. file.store \in Stores /\ Admin \in Users
      BY DEF TypeInv, UsersFile, Users
    <2>5. /\ counts' \in [requests : Nat, crashes : Nat, starts : Nat]
          /\ counts'.requests = counts.requests /\ counts'.crashes = counts.crashes
          /\ counts'.starts = counts.starts + 1
      BY <1>c, <2>1 DEF TypeInv
    <2>6. /\ service' \in Service
          /\ service'.mode # "down"
          /\ service'.mode = "starting" <=> service'.todo # <<>>
          /\ service'.mode = "starting" => Admin \in DOMAIN service'.store
                                         /\ service'.store[Admin].pw \in Bootstraps
      <3>0. service \in Service /\ service.todo = <<>>
        BY <2>1 DEF TypeInv
      <3>s. ASSUME NEW todo \in Todos \ {<<>>}, NEW store \in Stores,
                   Admin \in DOMAIN store, store[Admin].pw \in Bootstraps,
                   service' = [service EXCEPT !.mode = "starting", !.todo = todo,
                                              !.store = store]
            PROVE  /\ service' \in Service
                   /\ service'.mode # "down"
                   /\ service'.mode = "starting" <=> service'.todo # <<>>
                   /\ service'.mode = "starting" => Admin \in DOMAIN service'.store
                                                  /\ service'.store[Admin].pw \in Bootstraps
        <4>1. service' \in Service /\ service'.mode = "starting"
              /\ service'.todo = todo /\ service'.store = store
          BY <3>0, <3>s DEF Service
        <4> QED
          BY <3>s, <4>1
      <3>1. CASE ~file.exists
        <4> DEFINE store == Only(Admin, boot)
        <4>1. service' = [service EXCEPT !.mode = "starting",
                 !.todo = <<"open", "write", "note">>, !.store = store]
          BY <1>1, <3>1 DEF Start
        <4>2. store[Admin] = boot /\ Admin \in DOMAIN store
          <5> HIDE DEF boot
          <5> QED
            BY OnlyIs
        <4>3. store \in Stores
          BY <2>3, <2>4, StoresArePartial, PartialOnly
        <4>4. store[Admin].pw \in Bootstraps
          BY <2>3, <4>2
        <4> HIDE DEF store, boot, pw
        <4> QED
          BY <3>s, <4>1, <4>2, <4>3, <4>4 DEF Todos
      <3>2. CASE file.exists /\ Admin \notin DOMAIN file.store
        <4> DEFINE store == With(file.store, Admin, boot)
        <4>1. service' = [service EXCEPT !.mode = "starting",
                 !.todo = <<"note", "open", "write">>, !.store = store]
          BY <1>1, <3>2 DEF Start
        <4>2. store[Admin] = boot /\ Admin \in DOMAIN store
          <5> HIDE DEF boot
          <5> QED
            BY DEF With
        <4>3. store \in Stores
          <5>1. file.store \in Partial(Users, Account)
            BY <2>4, StoresArePartial
          <5> HIDE DEF boot
          <5>2. With(file.store, Admin, boot) \in Partial(Users, Account)
            BY <2>3, <2>4, <5>1, PartialWith
          <5> QED
            BY <5>2, StoresArePartial
        <4>4. store[Admin].pw \in Bootstraps
          BY <2>3, <4>2
        <4> HIDE DEF store, boot, pw
        <4> QED
          BY <3>s, <4>1, <4>2, <4>3, <4>4 DEF Todos
      <3>3. CASE file.exists /\ Admin \in DOMAIN file.store
        <4>1. service' = [service EXCEPT !.mode = "up"]
          BY <1>1, <3>3 DEF Start
        <4> QED
          BY <3>0, <4>1 DEF Service
      <3> QED
        BY <3>1, <3>2, <3>3
    <2> QED
      BY <1>c, <2>1, <2>5, <2>6 DEF TypeInv
  <1>2. CASE Ensure
    <2> DEFINE rest == Tail(service.todo)
    <2>0. /\ service \in Service /\ service.mode = "starting" /\ service.todo \in Todos
          /\ service.todo # <<>> /\ service.store \in Stores
          /\ Admin \in DOMAIN service.store /\ service.store[Admin].pw \in Bootstraps
      BY <1>2 DEF Ensure, TypeInv, Service
    <2>1. /\ service' = [service EXCEPT !.todo = rest,
                            !.mode = IF rest = <<>> THEN "up" ELSE @]
          /\ UNCHANGED <<sessions, req, now, lost, visit, counts>>
          /\ file' \in {file, Truncated, Written(service.store)}
          /\ known' \in {known, [known EXCEPT ![Admin] = service.store[Admin].pw]}
          /\ bootFile' \in {bootFile, service.store[Admin].pw}
      BY <1>2 DEF Ensure
    <2>2. rest \in Todos
      BY <2>0, TodoTails DEF Todos
    <2>3. /\ service' \in Service
          /\ service'.mode \in {"starting", "up"} /\ service'.store = service.store
          /\ service'.mode = "starting" <=> service'.todo # <<>>
      BY <2>0, <2>1, <2>2 DEF Service
    <2>4. file' \in UsersFile
      BY <2>0, <2>1, FileIs DEF TypeInv
    <2>5. known' \in [Users -> Secrets] /\ bootFile' \in Bootstraps \union {NoPassword}
      BY <2>0, <2>1 DEF TypeInv, Secrets
    <2> QED
      BY <2>0, <2>1, <2>3, <2>4, <2>5 DEF TypeInv
  <1>3. CASE Crash
    <2>1. /\ service' = [service EXCEPT !.mode = "down", !.todo = <<>>, !.store = <<>>]
          /\ req' = [r \in Slots |-> Idler]
          /\ sessions' \in {sessions, <<>>}
          /\ lost' \in {lost, lost \union {Admin}}
          /\ counts' = [counts EXCEPT !.crashes = @ + 1]
          /\ UNCHANGED <<file, bootFile, now, known>>
          /\ service.mode # "down" /\ counts.crashes < MaxCrashes
      BY <1>3 DEF Crash, disk
    <2>2. service' \in Service /\ service'.mode = "down" /\ service'.todo = <<>>
      <3>1. <<>> \in Stores
        BY PartialEmpty, StoresArePartial
      <3> QED
        BY <2>1, <3>1 DEF TypeInv, Service, Todos
    <2>3. req' \in [Slots -> Request] /\ \A r \in Slots : req'[r].pc = "idle"
      BY <2>1, IdlerIs DEF Idler
    <2>4. sessions' \in Partial(SessionIds, StoredSession)
      BY <2>1, PartialEmpty DEF TypeInv
    <2>5. visit' \in Partial(SessionIds, Visit)
      <3> DEFINE v(s) == IF service.sessions = "redis"
                   THEN [visit[s] EXCEPT !.undone = @ \/ \E q \in Slots : Holds(q, s)]
                   ELSE [visit[s] EXCEPT !.over = TRUE, !.held = FALSE]
      <3>1. visit' = [s \in DOMAIN visit |-> v(s)]
        BY <1>3 DEF Crash
      <3>2. \A s \in DOMAIN visit : visit[s] \in Visit
        BY PartialIs DEF TypeInv
      <3>3. \A s \in DOMAIN visit : v(s) \in Visit
        BY <3>2 DEF Visit
      <3>4. DOMAIN visit \in SUBSET SessionIds
        BY PartialIs DEF TypeInv
      <3> HIDE DEF v
      <3>5. visit' \in [DOMAIN visit -> Visit]
        BY <3>1, <3>3
      <3> QED
        BY <3>4, <3>5, PartialBy
    <2>6. lost' \subseteq Users
      BY <2>1 DEF TypeInv, Users
    <2>7. /\ counts' \in [requests : Nat, crashes : Nat, starts : Nat]
          /\ counts'.requests = counts.requests /\ counts'.crashes = counts.crashes + 1
          /\ counts'.starts = counts.starts
      BY <1>c, <2>1 DEF TypeInv
    <2> QED
      BY <1>c, <2>1, <2>2, <2>3, <2>4, <2>5, <2>6, <2>7, AccountsAssumption DEF TypeInv
  <1>4. CASE Tick
    <2>1. /\ now < MaxTime /\ now' = now + 1
          /\ UNCHANGED <<file, bootFile, service, known, lost, counts>>
      BY <1>4 DEF Tick, disk, history
    <2> QED
      BY <1>4, <2>1, OtherSteps, AccountsAssumption DEF TypeInv, SessionTypes
  <1>5. ASSUME NEW s \in SessionIds, Logout(s) PROVE TypeInv'
    <2>1. SessionTypes'
      BY <1>5, OtherSteps
    <2> QED
      BY <1>5, <1>n, <2>1 DEF Logout, disk
  <1>6. ASSUME NEW r \in Slots, NEW s \in SessionIds,
               \/ Touch(r, s) \/ Drop(r, s) \/ Enter(r, s)
               \/ SaveSessionCredentials(r, s)
               \/ SaveOwnSession(r, s) \/ SpreadSession(r, s)
        PROVE  TypeInv'
    <2>1. SessionTypes'
      BY <1>6, SessionSteps
    <2> QED
      BY <1>6, <1>n, <2>1 DEF Touch, Drop, Enter, SaveSessionCredentials,
         SaveOwnSession, SpreadSession, disk
  <1>7. ASSUME NEW r \in Slots,
         \/ \E s \in SessionIds, kind \in {"view", "change", "reset", "credentials"} :
               Arrive(r, kind, s)
         \/ \E s \in SessionIds, u \in Users \union {Nobody} : Login(r, u, s)
         \/ \E u \in Users, pw \in Passwords, must \in BOOLEAN : ReadUsers(r, u, pw, must)
         \/ Refuse(r) \/ ListSessions(r)
        PROVE  TypeInv'
    <2>1. SessionTypes'
      BY <1>7, RequestSteps
    <2> QED
      BY <1>7, <1>n, <2>1 DEF Arrive, Login, ReadUsers, Refuse, ListSessions, disk, history
  <1>8. ASSUME NEW r \in Slots, OpenUsers(r) PROVE TypeInv'
    <2>1. /\ req[r].pc = "open" /\ req' = [req EXCEPT ![r].pc = "write"]
          /\ file' = Truncated
          /\ UNCHANGED <<bootFile, service, sessions, now, known, lost, visit, counts>>
      BY <1>8 DEF OpenUsers
    <2>2. req[r] \in Request /\ req[r].kind \in {"change", "reset"}
          /\ req[r].target \in DOMAIN req[r].store
      BY <2>1 DEF TypeInv
    <2>3. /\ req' \in [Slots -> Request]
          /\ \A q \in Slots : /\ req'[q].kind = req[q].kind /\ req'[q].target = req[q].target
                              /\ req'[q].store = req[q].store
                              /\ req'[q].pc # req[q].pc => q = r
      BY <2>1, <2>2 DEF TypeInv, Request
    <2>4. file' \in UsersFile
      <3>1. <<>> \in Stores
        BY PartialEmpty, StoresArePartial
      <3> QED
        BY <2>1, <3>1 DEF UsersFile, Truncated
    <2> QED
      BY <2>1, <2>2, <2>3, <2>4 DEF TypeInv
  <1>9. ASSUME NEW r \in Slots, WriteUsers(r) PROVE TypeInv'
    <2> DEFINE u == req[r].target
               store == req[r].store
    <2>1. /\ req[r].pc = "write"
          /\ file' = Written(store)
          /\ known' = [known EXCEPT ![u] = store[u].pw]
          /\ lost' = (lost \ {u}) \union
                     (IF req[r].stale
                      THEN {v \in DOMAIN store \ {u} : store[v].pw # known[v]} ELSE {})
          /\ req' = [q \in Slots |->
                 IF q = r THEN [req[q] EXCEPT !.pc = IF @ = "write" /\ req[q].kind = "reset"
                                                     THEN "list" ELSE "save"]
                 ELSE [req[q] EXCEPT !.stale = @ \/ req[q].pc \in {"open", "write"}]]
          /\ UNCHANGED <<bootFile, service, sessions, now, visit, counts>>
      BY <1>9 DEF WriteUsers, Writing
    <2>2. req[r] \in Request /\ store \in Stores /\ u \in DOMAIN store
          /\ req[r].kind \in {"change", "reset"}
      BY <2>1, RequestFields DEF TypeInv
    <2>3. DOMAIN store \subseteq Users /\ store[u].pw \in Passwords \union Bootstraps
      BY <2>2, StoreIs
    <2> HIDE DEF store, u
    <2>4. file' \in UsersFile
      BY <2>1, <2>2, FileIs
    <2>5. known' \in [Users -> Secrets] /\ lost' \subseteq Users
      BY <2>1, <2>3 DEF TypeInv, Secrets
    <2>6. /\ req' \in [Slots -> Request]
          /\ \A q \in Slots : /\ req'[q].kind = req[q].kind /\ req'[q].target = req[q].target
                              /\ req'[q].store = req[q].store
                              /\ req'[q].pc # req[q].pc => q = r
      BY <2>1, <2>2 DEF TypeInv, Request
    <2> QED
      BY <2>1, <2>2, <2>4, <2>5, <2>6 DEF TypeInv, u, store
  <1>10. CASE UNCHANGED vars
    BY <1>10 DEF vars, disk, history, TypeInv
  <1> QED
    BY <1>1, <1>2, <1>3, <1>4, <1>5, <1>6, <1>7, <1>8, <1>9, <1>10 DEF Next

\* The flag about overlapping writes stays one.
LEMMA TornStep == TornInv /\ [Next]_vars => TornInv'
  <1> SUFFICES ASSUME TornInv, [Next]_vars PROVE TornInv'
    OBVIOUS
  <1>1. CASE Ensure
    BY <1>1 DEF TornInv, Ensure
  <1>2. CASE Crash
    BY <1>2 DEF TornInv, Crash
  <1>3. ASSUME NEW r \in Slots, OpenUsers(r) PROVE TornInv'
    BY <1>3 DEF TornInv, OpenUsers
  <1>4. CASE Start \/ Tick \/ UNCHANGED vars
    BY <1>4 DEF TornInv, Start, Tick, vars, history
  <1>5. ASSUME NEW s \in SessionIds, Logout(s) PROVE TornInv'
    BY <1>5 DEF TornInv, Logout
  <1>6. ASSUME NEW r \in Slots, NEW s \in SessionIds,
               \/ Touch(r, s) \/ Drop(r, s) \/ Enter(r, s)
               \/ SaveSessionCredentials(r, s)
               \/ SaveOwnSession(r, s) \/ SpreadSession(r, s)
        PROVE  TornInv'
    BY <1>6 DEF TornInv, Touch, Drop, Enter, SaveSessionCredentials, SaveOwnSession,
       SpreadSession
  <1>7. ASSUME NEW r \in Slots, NEW s \in SessionIds,
               \/ \E kind \in {"view", "change", "reset", "credentials"} : Arrive(r, kind, s)
               \/ \E u \in Users \union {Nobody} : Login(r, u, s)
        PROVE  TornInv'
    BY <1>7 DEF TornInv, Arrive, Login, history
  <1>8. ASSUME NEW r \in Slots,
               \/ \E u \in Users, pw \in Passwords, must \in BOOLEAN : ReadUsers(r, u, pw, must)
               \/ Refuse(r) \/ WriteUsers(r) \/ ListSessions(r)
        PROVE  TornInv'
    BY <1>8 DEF TornInv, ReadUsers, Refuse, WriteUsers, ListSessions, history
  <1> QED
    BY <1>1, <1>2, <1>3, <1>4, <1>5, <1>6, <1>7, <1>8 DEF Next

(* The files, the sessions, the requests being served, the passwords known *)
(* and what is recorded of every visit keep their types.                   *)
THEOREM TypeCorrect == Spec => []TypeOK
  <1>1. TypeInv /\ TornInv => TypeOK
    <2> SUFFICES ASSUME TypeInv, TornInv PROVE TypeOK
      OBVIOUS
    <2>1. /\ service.sessions \in StoreModes
          /\ service.mode \in {"down", "starting", "up"}
          /\ service.todo \in Seq({"open", "write", "note"})
          /\ service.store \in Stores
      BY TodosAreSequences DEF TypeInv, Service
    <2>2. /\ \A s \in DOMAIN sessions : /\ sessions[s].value \in Session
                                        /\ sessions[s].expires \in Nat
          /\ DOMAIN sessions \subseteq SessionIds /\ DOMAIN visit \subseteq SessionIds
      BY StoredIs, PartialIs DEF TypeInv
    <2>3. bootFile \in Bootstraps \union {NoPassword}
      BY DEF TypeInv
    <2>4. torn \in BOOLEAN /\ known \in [Users -> Passwords \union Bootstraps \union {NoPassword}]
      BY DEF TornInv, TypeInv, Secrets
    <2>6. \A s \in DOMAIN visit : visit[s] \in Visit
      BY PartialIs DEF TypeInv
    <2>7. counts.requests \in 0 .. MaxRequests /\ counts.crashes \in 0 .. MaxCrashes
      BY AccountsAssumption DEF TypeInv
    <2>8. counts.starts \in 0 .. counts.crashes + 1
      BY DEF TypeInv
    <2>5. file \in [exists : BOOLEAN, store : Stores, reach : Nat]
      BY DEF TypeInv, UsersFile
    <2> QED
      BY <2>1, <2>2, <2>3, <2>4, <2>5, <2>6, <2>7, <2>8 DEF TypeOK, TypeInv
  <1> QED
    BY <1>1, InitTypes, TypeStep, TornStep, PTL DEF Spec

-----------------------------------------------------------------------------
(* The sessions, one at a time.                                            *)
Copy(q, s) == req[q].copies[s]
Clean(q, s) == s \notin req[q].dirty
Stored(s) == sessions[s].value

Late(s) == now > visit[s].last + Idle \/ now > visit[s].login + Absolute
Fresh(s) == s \in DOMAIN sessions /\ Stored(s).seen = visit[s].last
Latest(q, s) == Copy(q, s).seen = visit[s].last

\* Request q will save s: as of its last visit, or over what others saved.
Pending(q, s) ==
    /\ Holds(q, s) /\ req[q].pc \notin {"body", "enter"}
    /\ Clean(q, s) => Latest(q, s)

\* A request works on one session, but for the one that spreads a reset.
OneCopy(x) ==
    /\ x.dirty \subseteq DOMAIN x.copies
    /\ x.pc # "spread" => \A s, t \in DOMAIN x.copies : s = t
    /\ x.pc \in {"idle", "list"} => DOMAIN x.copies = {}
    /\ x.pc \in {"body", "open", "write"} /\ x.kind = "reset" => DOMAIN x.copies = {}

\* A session being made is nobody else's.
Entering(q, s) ==
    Holds(q, s) /\ req[q].pc = "enter" =>
        /\ s \notin DOMAIN visit
        /\ \A p \in Slots : Holds(p, s) => p = q
        /\ ~Copy(q, s).creds
        /\ Copy(q, s).seen <= now

\* Any other copy is of a session that was entered.
Copied(q, s) ==
    Holds(q, s) /\ req[q].pc # "enter" =>
        /\ s \in DOMAIN visit
        /\ Copy(q, s).created = visit[s].login
        /\ Copy(q, s).seen <= visit[s].last
        /\ req[q].pc = "drop" => \/ now > Copy(q, s).seen + Idle
                                 \/ now > Copy(q, s).created + Absolute

\* The session in the store is one that was entered, and kept long enough.
StoredOk(s) ==
    s \in DOMAIN sessions =>
        /\ s \in DOMAIN visit
        /\ Stored(s).created = visit[s].login
        /\ Stored(s).seen <= visit[s].last
        /\ Stored(s).seen + Idle <= sessions[s].expires

\* A session that is over and nobody held then is nowhere.
OutOk(s) ==
    s \in DOMAIN visit /\ visit[s].over /\ ~visit[s].held =>
        /\ s \notin DOMAIN sessions
        /\ \A q \in Slots : ~Holds(q, s)

\* Copies not outdated know whether the session has credentials.
CredsOk(s) ==
    s \in DOMAIN visit /\ ~visit[s].over /\ ~visit[s].undone =>
        /\ s \in DOMAIN sessions => (Stored(s).creds <=> visit[s].creds)
        /\ \A q \in Slots : Holds(q, s) /\ Clean(q, s) =>
              (Copy(q, s).creds <=> visit[s].creds)

\* A live session is in the store as of its last visit, or soon will be.
LiveOk(s) ==
    s \in DOMAIN visit /\ ~visit[s].over /\ ~visit[s].undone /\ ~Late(s) =>
        \/ \E q \in Slots : Pending(q, s)
        \/ /\ Fresh(s)
           /\ \A q \in Slots : Holds(q, s) =>
                 \/ Clean(q, s) /\ Latest(q, s)
                 \/ ~Clean(q, s) /\ req[q].pc = "body"

\* What holds of a session at any time.
SessionOk(s) ==
    /\ \A q \in Slots : Entering(q, s) /\ Copied(q, s)
    /\ s \in DOMAIN visit => visit[s].last <= now
    /\ StoredOk(s) /\ OutOk(s) /\ CredsOk(s) /\ LiveOk(s)

SessionInv ==
    /\ \A q \in Slots : OneCopy(req[q])
    /\ \A s \in SessionIds : SessionOk(s)

\* The numbers and flags of one session.
LEMMA SessionFields ==
  ASSUME TypeInv, NEW s \in SessionIds
  PROVE  /\ now \in Nat /\ Idle \in Nat /\ Absolute \in Nat
         /\ s \in DOMAIN visit =>
              /\ visit[s] \in Visit
              /\ visit[s].login \in Nat /\ visit[s].last \in Nat
              /\ visit[s].over \in BOOLEAN /\ visit[s].held \in BOOLEAN
              /\ visit[s].undone \in BOOLEAN /\ visit[s].creds \in BOOLEAN
         /\ s \in DOMAIN sessions =>
              /\ Stored(s) \in Session /\ sessions[s].expires \in Nat
              /\ Stored(s).created \in Nat /\ Stored(s).seen \in Nat
              /\ Stored(s).creds \in BOOLEAN
         /\ \A q \in Slots : Holds(q, s) =>
              /\ Copy(q, s) \in Session
              /\ Copy(q, s).created \in Nat /\ Copy(q, s).seen \in Nat
              /\ Copy(q, s).creds \in BOOLEAN
  <1>0. \A c \in Session : c.created \in Nat /\ c.seen \in Nat /\ c.creds \in BOOLEAN
    BY AccountsAssumption DEF Session
  <1>1. now \in Nat /\ Idle \in Nat /\ Absolute \in Nat
    BY AccountsAssumption DEF TypeInv
  <1>2. ASSUME s \in DOMAIN visit
        PROVE  /\ visit[s] \in Visit
               /\ visit[s].login \in Nat /\ visit[s].last \in Nat
               /\ visit[s].over \in BOOLEAN /\ visit[s].held \in BOOLEAN
               /\ visit[s].undone \in BOOLEAN /\ visit[s].creds \in BOOLEAN
    <2>1. visit[s] \in Visit
      BY <1>2, PartialIs DEF TypeInv
    <2> QED
      BY <2>1 DEF Visit
  <1>3. s \in DOMAIN sessions => Stored(s) \in Session /\ sessions[s].expires \in Nat
    BY StoredIs DEF Stored
  <1>4. \A q \in Slots : Holds(q, s) => Copy(q, s) \in Session
    BY RequestFields DEF TypeInv, Holds, Copy
  <1> QED
    BY <1>0, <1>1, <1>2, <1>3, <1>4

\* What a step leaves alone of session t: its entry, its record of visits
\* and the copies held of it. Requests may move on towards saving them.
Untouched(t) ==
    /\ now' = now
    /\ t \in DOMAIN sessions' <=> t \in DOMAIN sessions
    /\ t \in DOMAIN sessions => sessions'[t] = sessions[t]
    /\ t \in DOMAIN visit' <=> t \in DOMAIN visit
    /\ t \in DOMAIN visit => visit'[t] = visit[t]
    /\ \A q \in Slots :
         /\ t \in DOMAIN req'[q].copies <=> t \in DOMAIN req[q].copies
         /\ t \in DOMAIN req[q].copies =>
              /\ req'[q].copies[t] = req[q].copies[t]
              /\ t \in req'[q].dirty <=> t \in req[q].dirty
              /\ \/ req'[q].pc = req[q].pc
                 \/ /\ req[q].pc \in {"body", "open", "write"}
                    /\ req'[q].pc \in {"open", "write", "save"}

\* A session no step touches stays in order.
LEMMA UntouchedOk ==
  ASSUME NEW t \in SessionIds, SessionOk(t), Untouched(t)
  PROVE  SessionOk(t)'
  <1> USE DEF Untouched, Holds, Copy, Clean, Stored
  <1>1. ASSUME NEW q \in Slots PROVE Entering(q, t)' /\ Copied(q, t)'
    BY DEF SessionOk, Entering, Copied
  <1>2. (t \in DOMAIN visit => visit[t].last <= now)' /\ StoredOk(t)' /\ OutOk(t)'
    BY DEF SessionOk, StoredOk, OutOk
  <1>3. CredsOk(t)'
    BY DEF SessionOk, CredsOk
  <1>4. LiveOk(t)'
    <2> SUFFICES ASSUME (t \in DOMAIN visit /\ ~visit[t].over /\ ~visit[t].undone /\ ~Late(t))'
                 PROVE  (\/ \E q \in Slots : Pending(q, t)
                         \/ /\ Fresh(t)
                            /\ \A q \in Slots : Holds(q, t) =>
                                  \/ Clean(q, t) /\ Latest(q, t)
                                  \/ ~Clean(q, t) /\ req[q].pc = "body")'
      BY DEF LiveOk
    <2>1. t \in DOMAIN visit /\ ~visit[t].over /\ ~visit[t].undone /\ ~Late(t)
      BY DEF Late
    <2>2. CASE \E q \in Slots : Pending(q, t)
      BY <2>2 DEF Pending, Latest
    <2>3. CASE /\ Fresh(t)
               /\ \A q \in Slots : Holds(q, t) =>
                     \/ Clean(q, t) /\ Latest(q, t)
                     \/ ~Clean(q, t) /\ req[q].pc = "body"
      BY <2>1, <2>3 DEF Pending, Latest, Fresh
    <2> QED
      BY <2>1, <2>2, <2>3 DEF SessionOk, LiveOk
  <1> QED
    BY <1>1, <1>2, <1>3, <1>4 DEF SessionOk

-----------------------------------------------------------------------------
(* A request saves its copy of a session: everyone else's copy is outdated. *)
Outdated(q, s) ==
    /\ req'[q].pc = req[q].pc /\ req'[q].kind = req[q].kind
    /\ req'[q].copies = req[q].copies
    /\ req'[q].dirty = IF Holds(q, s) THEN req[q].dirty \union {s} ELSE req[q].dirty

\* A request is replaced, and all others hold an outdated copy.
LEMMA OutdatedIs ==
  ASSUME TypeInv, NEW r \in Slots, NEW s \in SessionIds, NEW next \in Request,
         req' = [Outdate(r, s) EXCEPT ![r] = next]
  PROVE  req'[r] = next /\ \A q \in Slots \ {r} : Outdated(q, s)
  <1>1. Outdate(r, s) \in [Slots -> Request]
    BY DirtyIs DEF Outdate, TypeInv
  <1>2. req'[r] = next /\ \A q \in Slots \ {r} : req'[q] = Outdate(r, s)[q]
    BY <1>1
  <1>3. ASSUME NEW q \in Slots \ {r} PROVE Outdated(q, s)
    <2>1. req[q] \in Request
      BY DEF TypeInv
    <2>2. CASE Holds(q, s)
      <3> DEFINE d == [req[q] EXCEPT !.dirty = @ \union {s}]
      <3>1. req'[q] = d
        BY <1>2, <1>3, <2>2 DEF Outdate
      <3>2. /\ d.dirty = req[q].dirty \union {s}
            /\ d.pc = req[q].pc /\ d.kind = req[q].kind /\ d.copies = req[q].copies
        BY <2>1, DirtyIs
      <3> HIDE DEF d
      <3> QED
        BY <2>2, <3>1, <3>2 DEF Outdated
    <2>3. CASE ~Holds(q, s)
      BY <1>2, <1>3, <2>3 DEF Outdate, Outdated
    <2> QED
      BY <2>2, <2>3
  <1> QED
    BY <1>2, <1>3

\* To outdate the copies of a session adds none.
LEMMA OutdatedOneCopy ==
  ASSUME NEW q \in Slots, NEW s \in SessionIds, OneCopy(req[q]), Outdated(q, s)
  PROVE  OneCopy(req'[q])
  BY DEF OneCopy, Outdated, Holds

\* What a request is afterwards of a session it did not save.
Spared(x, y, t) ==
    /\ t \in DOMAIN y.copies <=> t \in DOMAIN x.copies
    /\ t \in DOMAIN x.copies =>
         /\ y.copies[t] = x.copies[t] /\ y.pc = x.pc
         /\ t \in y.dirty <=> t \in x.dirty

\* A request that saves its copy of a session keeps every session in order.
LEMMA SaveOk ==
  ASSUME TypeInv, SessionInv, NEW r \in Slots, NEW s \in SessionIds,
         Holds(r, s), req[r].pc \in {"touch", "body", "save", "spread"},
         NEW copy \in Session,
         copy.created = Copy(r, s).created, copy.seen = Copy(r, s).seen,
         copy.creds = Copy(r, s).creds \/ copy.creds = TRUE,
         NEW next \in Request, SaveSession(r, s, copy, next), now' = now,
         s \in DOMAIN next.copies =>
            next.copies[s] = copy /\ s \notin next.dirty /\ next.pc = "body",
         \A t \in SessionIds \ {s} : Spared(req[r], next, t),
         OneCopy(next)
  PROVE  SessionInv'
  <1>1. /\ req'[r] = next /\ \A q \in Slots \ {r} : Outdated(q, s)
        /\ sessions' = With(sessions, s, [value |-> copy, expires |-> now + Ttl])
        /\ visit' = [visit EXCEPT ![s].undone = @ \/ s \in req[r].dirty,
                                  ![s].creds = @ \/ copy.creds]
    BY OutdatedIs DEF SaveSession, Put
  <1>2. \A q \in Slots : OneCopy(req[q])'
    BY <1>1, OutdatedOneCopy DEF SessionInv
  <1>3. s \in DOMAIN visit /\ SessionOk(s)
    BY DEF SessionInv, SessionOk, Copied
  <1>4. /\ DOMAIN visit' = DOMAIN visit
        /\ \A t \in DOMAIN visit \ {s} : visit'[t] = visit[t]
        /\ visit'[s] = [visit[s] EXCEPT !.undone = @ \/ s \in req[r].dirty,
                                        !.creds = @ \/ copy.creds]
    BY <1>1, <1>3
  <1>5. /\ DOMAIN sessions' = DOMAIN sessions \union {s}
        /\ \A t \in DOMAIN sessions \ {s} : sessions'[t] = sessions[t]
        /\ sessions'[s] = [value |-> copy, expires |-> now + Ttl]
    <2> DEFINE e == [value |-> copy, expires |-> now + Ttl]
    <2>1. sessions' = With(sessions, s, e)
      BY <1>1
    <2> HIDE DEF e
    <2>2. /\ DOMAIN sessions' = DOMAIN sessions \union {s} /\ sessions'[s] = e
          /\ \A t \in DOMAIN sessions \ {s} : sessions'[t] = sessions[t]
      BY <2>1 DEF With
    <2> QED
      BY <2>2 DEF e
  <1>6. ASSUME NEW t \in SessionIds, t # s PROVE SessionOk(t)'
    <2>1. ASSUME NEW q \in Slots
          PROVE  /\ t \in DOMAIN req'[q].copies <=> t \in DOMAIN req[q].copies
                 /\ t \in DOMAIN req[q].copies =>
                      /\ req'[q].copies[t] = req[q].copies[t]
                      /\ t \in req'[q].dirty <=> t \in req[q].dirty
                      /\ req'[q].pc = req[q].pc
      <3>1. CASE q = r
        <4>1. Spared(req[r], next, t)
          BY <1>6
        <4>2. req'[q] = next /\ req[q] = req[r]
          BY <1>1, <3>1
        <4>3. Spared(req[q], req'[q], t)
          BY <4>1, <4>2
        <4> QED
          BY <4>3 DEF Spared
      <3>2. CASE q # r
        <4>1. Outdated(q, s)
          BY <1>1, <3>2
        <4>2. /\ req'[q].copies = req[q].copies /\ req'[q].pc = req[q].pc
              /\ t \in req'[q].dirty <=> t \in req[q].dirty
          BY <4>1, <1>6 DEF Outdated
        <4> QED
          BY <4>2
      <3> QED
        BY <3>1, <3>2
    <2>2. Untouched(t)
      BY <1>4, <1>5, <1>6, <2>1 DEF Untouched
    <2> QED
      BY <2>2, UntouchedOk DEF SessionInv
  <1>7. SessionOk(s)'
    <2> DEFINE v == visit[s]
    <2>1. /\ v \in Visit /\ v.login \in Nat /\ v.last \in Nat
          /\ v.over \in BOOLEAN /\ v.held \in BOOLEAN
          /\ v.undone \in BOOLEAN /\ v.creds \in BOOLEAN
          /\ now \in Nat /\ Idle \in Nat /\ Absolute \in Nat
          /\ Copy(r, s).creds \in BOOLEAN /\ copy.creds \in BOOLEAN
          /\ Copy(r, s).seen \in Nat /\ Copy(r, s).created \in Nat
      BY <1>3, SessionFields DEF Session
    <2>2. /\ visit'[s].login = v.login /\ visit'[s].last = v.last
          /\ visit'[s].over = v.over /\ visit'[s].held = v.held
      BY <1>4, <2>1 DEF Visit
    <2>3. visit'[s].undone = (v.undone \/ s \in req[r].dirty)
      BY <1>4, <2>1 DEF Visit
    <2>4. visit'[s].creds = (v.creds \/ copy.creds)
      BY <1>4, <2>1 DEF Visit
    <2> HIDE DEF v
    <2>5. /\ Copy(r, s).created = v.login /\ Copy(r, s).seen <= v.last
          /\ v.last <= now /\ ~(v.over /\ ~v.held)
      BY <1>3 DEF SessionOk, Copied, OutOk, v
    <2>6. /\ s \in DOMAIN sessions' /\ sessions'[s].value = copy
          /\ sessions'[s].expires = now + Ttl /\ s \in DOMAIN visit'
      BY <1>3, <1>4, <1>5
    <2>7. ASSUME NEW q \in Slots
          PROVE  Entering(q, s)' /\ Copied(q, s)'
      <3>1. Entering(q, s) /\ Copied(q, s)
        BY <1>3 DEF SessionOk
      <3>2. CASE q = r
        BY <1>1, <2>2, <2>5, <2>6, <3>2 DEF Entering, Copied, Holds, Copy, v
      <3>3. CASE q # r
        <4>1. Outdated(q, s)
          BY <1>1, <3>3
        <4>2. ~(Holds(q, s) /\ req[q].pc = "enter")
          BY <3>1, <1>3 DEF Entering
        <4> QED
          BY <2>2, <2>6, <3>1, <4>1, <4>2 DEF Entering, Copied, Holds, Copy, Outdated, v
      <3> QED
        BY <3>2, <3>3
    <2>8. (s \in DOMAIN visit => visit[s].last <= now)'
      BY <2>2, <2>5
    <2>9. StoredOk(s)'
      <3>1. copy.seen + Idle <= now + Ttl
        BY <2>1, <2>5, Lifetime
      <3> QED
        BY <2>2, <2>5, <2>6, <3>1 DEF StoredOk, Stored
    <2>10. OutOk(s)'
      BY <2>2, <2>5 DEF OutOk
    <2>11. \A q \in Slots \ {r} : Holds(q, s)' => ~Clean(q, s)'
      BY <1>1 DEF Outdated, Holds, Clean
    <2>12. Holds(r, s)' => Clean(r, s)' /\ req'[r].pc = "body" /\ req'[r].copies[s] = copy
      BY <1>1 DEF Holds, Clean
    <2>13. CredsOk(s)'
      <3> SUFFICES ASSUME ~visit'[s].over, ~visit'[s].undone
                   PROVE  /\ copy.creds <=> visit'[s].creds
                          /\ \A q \in Slots : Holds(q, s)' /\ Clean(q, s)' =>
                                (req'[q].copies[s].creds <=> visit'[s].creds)
        BY <2>6 DEF CredsOk, Stored, Copy
      <3>1. Clean(r, s) /\ ~v.over /\ ~v.undone
        BY <2>2, <2>3 DEF Clean
      <3>2. Copy(r, s).creds <=> v.creds
        BY <1>3, <3>1 DEF SessionOk, CredsOk, v
      <3>3. copy.creds <=> visit'[s].creds
        BY <2>1, <2>4, <3>2
      <3> QED
        BY <2>11, <2>12, <3>3
    <2>14. LiveOk(s)'
      <3> SUFFICES ASSUME ~visit'[s].over, ~visit'[s].undone, ~Late(s)'
                   PROVE  \/ \E q \in Slots : Pending(q, s)'
                          \/ /\ Fresh(s)'
                             /\ \A q \in Slots : Holds(q, s)' =>
                                  \/ Clean(q, s)' /\ Latest(q, s)'
                                  \/ ~Clean(q, s)' /\ req'[q].pc = "body"
        BY DEF LiveOk
      <3>1. Clean(r, s) /\ ~v.over /\ ~v.undone /\ ~Late(s)
        BY <2>2, <2>3 DEF Clean, Late, v
      <3>2. \A q \in Slots \ {r} : Holds(q, s) /\ req[q].pc # "body" => Pending(q, s)'
        <4> SUFFICES ASSUME NEW q \in Slots \ {r}, Holds(q, s), req[q].pc # "body"
                     PROVE  Pending(q, s)'
          OBVIOUS
        <4>1. req[q].pc # "enter"
          BY <1>3 DEF SessionOk, Entering
        <4> QED
          BY <1>1, <4>1 DEF Pending, Outdated, Holds, Clean
      <3>3. CASE \E q \in Slots \ {r} : Holds(q, s) /\ req[q].pc # "body"
        BY <3>2, <3>3
      <3>4. CASE \A q \in Slots \ {r} : Holds(q, s) => req[q].pc = "body"
        <4>1. Copy(r, s).seen = v.last
          BY <1>3, <3>1, <3>4 DEF SessionOk, LiveOk, Pending, Latest, v
        <4>2. Fresh(s)'
          BY <2>2, <2>6, <4>1 DEF Fresh, Stored
        <4>3. Holds(r, s)' => Clean(r, s)' /\ Latest(r, s)'
          BY <2>2, <2>12, <4>1 DEF Latest, Copy
        <4>4. \A q \in Slots \ {r} : Holds(q, s)' => ~Clean(q, s)' /\ req'[q].pc = "body"
          BY <1>1, <2>11, <3>4 DEF Outdated, Holds
        <4> QED
          BY <4>2, <4>3, <4>4
      <3> QED
        BY <3>3, <3>4
    <2> QED
      BY <2>7, <2>8, <2>9, <2>10, <2>13, <2>14 DEF SessionOk
  <1> QED
    BY <1>2, <1>6, <1>7 DEF SessionInv

\* A request that only holds s touches no other session when it ends.
LEMMA IdlerSpares ==
  ASSUME NEW r \in Slots, NEW s \in SessionIds, Holds(r, s), OneCopy(req[r]),
         req[r].pc # "spread"
  PROVE  /\ \A t \in SessionIds \ {s} : Spared(req[r], Idler, t)
         /\ OneCopy(Idler) /\ DOMAIN Idler.copies = {}
  <1>1. DOMAIN Idler.copies = {} /\ Idler.dirty = {}
    BY IdlerIs DEF Idler
  <1>2. \A t \in SessionIds \ {s} : t \notin DOMAIN req[r].copies
    BY DEF OneCopy, Holds
  <1> QED
    BY <1>1, <1>2 DEF Spared, OneCopy

\* Each step that saves a session is one of those.
LEMMA Saves ==
  ASSUME TypeInv, SessionInv, NEW r \in Slots, NEW s \in SessionIds,
         \/ Touch(r, s) \/ SaveSessionCredentials(r, s)
         \/ SaveOwnSession(r, s) \/ SpreadSession(r, s)
  PROVE  SessionInv'
  <1> DEFINE copy == req[r].copies[s]
  <1>1. /\ Holds(r, s) /\ req[r] \in Request /\ copy \in Session /\ copy = Copy(r, s)
        /\ req[r].copies \in Partial(SessionIds, Session) /\ s \in DOMAIN req[r].copies
        /\ OneCopy(req[r]) /\ copy.creds \in BOOLEAN /\ copy.creds = Copy(r, s).creds
        /\ now' = now
    <2>1. Holds(r, s) /\ now' = now
      BY DEF Touch, SaveSessionCredentials, SaveOwnSession, SpreadSession
    <2> QED
      BY <2>1, RequestFields DEF TypeInv, Holds, Copy, Session, SessionInv
  <1>2. Idler \in Request /\ s \notin DOMAIN Idler.copies
    BY IdlerIs
  <1>3. CASE Touch(r, s)
    <2> DEFINE next == IF req[r].kind = "view" THEN Idler
                       ELSE [req[r] EXCEPT !.pc = "body", !.dirty = {},
                               !.copies = IF req[r].kind = "reset" THEN <<>> ELSE @]
    <2>1. req[r].pc = "touch" /\ SaveSession(r, s, copy, next)
      BY <1>3 DEF Touch
    <2>2. CASE req[r].kind = "view"
      <3>1. next = Idler
        BY <2>2
      <3> HIDE DEF next
      <3>2. \A t \in SessionIds \ {s} : Spared(req[r], Idler, t)
        BY <1>1, <2>1, IdlerSpares
      <3>3. OneCopy(Idler)
        BY <1>1, <2>1, IdlerSpares
      <3>4. SaveSession(r, s, copy, Idler)
        BY <2>1, <3>1
      <3> HIDE DEF copy
      <3> QED
        BY <1>1, <1>2, <2>1, <3>2, <3>3, <3>4, SaveOk
    <2>3. CASE req[r].kind # "view"
      <3> DEFINE left == IF req[r].kind = "reset" THEN <<>> ELSE req[r].copies
      <3>1. next = [req[r] EXCEPT !.pc = "body", !.dirty = {}, !.copies = left]
        BY <2>3
      <3>2. /\ left \in Partial(SessionIds, Session)
            /\ s \in DOMAIN left => left[s] = copy
            /\ req[r].kind = "reset" => DOMAIN left = {}
            /\ \A t, u \in DOMAIN left : t = u
            /\ \A t \in SessionIds \ {s} : t \notin DOMAIN left /\ t \notin DOMAIN req[r].copies
        <4>1. /\ \A t, u \in DOMAIN req[r].copies : t = u
              /\ \A t \in SessionIds \ {s} : t \notin DOMAIN req[r].copies
          BY <1>1, <2>1 DEF OneCopy
        <4>2. CASE req[r].kind = "reset"
          <5>1. left = <<>>
            BY <4>2
          <5>2. left \in Partial(SessionIds, Session) /\ DOMAIN left = {}
            BY <5>1, PartialEmpty
          <5> HIDE DEF left
          <5> QED
            BY <4>1, <5>2
        <4>3. CASE req[r].kind # "reset"
          <5>1. left = req[r].copies
            BY <4>3
          <5> HIDE DEF left
          <5> QED
            BY <1>1, <4>1, <4>3, <5>1
        <4> QED
          BY <4>2, <4>3
      <3> HIDE DEF left
      <3>3. /\ next \in Request /\ next.pc = "body" /\ next.dirty = {}
            /\ next.copies = left /\ next.kind = req[r].kind
        <4>1. /\ [req[r] EXCEPT !.pc = "body", !.dirty = {}, !.copies = left] \in Request
              /\ [req[r] EXCEPT !.pc = "body", !.dirty = {}, !.copies = left].pc = "body"
              /\ [req[r] EXCEPT !.pc = "body", !.dirty = {}, !.copies = left].dirty = {}
              /\ [req[r] EXCEPT !.pc = "body", !.dirty = {}, !.copies = left].copies = left
              /\ [req[r] EXCEPT !.pc = "body", !.dirty = {}, !.copies = left].kind = req[r].kind
          BY <1>1, <3>2 DEF Request
        <4> HIDE DEF next
        <4> QED
          BY <3>1, <4>1
      <3> HIDE DEF next, copy
      <3>4. OneCopy(next)
        BY <3>2, <3>3 DEF OneCopy
      <3>5. \A t \in SessionIds \ {s} : Spared(req[r], next, t)
        BY <3>2, <3>3 DEF Spared
      <3>6. s \in DOMAIN next.copies =>
               next.copies[s] = copy /\ s \notin next.dirty /\ next.pc = "body"
        BY <3>2, <3>3
      <3> QED
        BY <1>1, <2>1, <3>3, <3>4, <3>5, <3>6, SaveOk
    <2> QED
      BY <2>2, <2>3
  <1>4. CASE SaveSessionCredentials(r, s)
    <2> DEFINE c == [copy EXCEPT !.creds = TRUE]
    <2>1. /\ c \in Session /\ c.created = copy.created /\ c.seen = copy.seen
          /\ c.creds = TRUE
      BY <1>1 DEF Session
    <2>2. req[r].pc = "body" /\ SaveSession(r, s, c, Idler)
      BY <1>4 DEF SaveSessionCredentials
    <2> HIDE DEF c
    <2>3. (\A t \in SessionIds \ {s} : Spared(req[r], Idler, t)) /\ OneCopy(Idler)
      BY <1>1, <2>2, IdlerSpares
    <2>4. /\ c.created = Copy(r, s).created /\ c.seen = Copy(r, s).seen
          /\ c.creds = Copy(r, s).creds \/ c.creds = TRUE
      BY <1>1, <2>1
    <2> HIDE DEF copy
    <2> QED
      BY <1>1, <1>2, <2>1, <2>2, <2>3, <2>4, SaveOk
  <1>5. CASE SaveOwnSession(r, s)
    <2> DEFINE c == [copy EXCEPT !.must = FALSE]
    <2>1. /\ c \in Session /\ c.created = copy.created /\ c.seen = copy.seen
          /\ c.creds = copy.creds
      BY <1>1 DEF Session
    <2>2. req[r].pc = "save" /\ SaveSession(r, s, c, Idler)
      BY <1>5 DEF SaveOwnSession
    <2> HIDE DEF c
    <2>3. (\A t \in SessionIds \ {s} : Spared(req[r], Idler, t)) /\ OneCopy(Idler)
      BY <1>1, <2>2, IdlerSpares
    <2>4. /\ c.created = Copy(r, s).created /\ c.seen = Copy(r, s).seen
          /\ c.creds = Copy(r, s).creds
      BY <1>1, <2>1
    <2> HIDE DEF copy
    <2> QED
      BY <1>1, <1>2, <2>1, <2>2, <2>3, <2>4, SaveOk
  <1>6. CASE SpreadSession(r, s)
    <2> DEFINE left == Restrict(req[r].copies, DOMAIN req[r].copies \ {s})
               rest == [req[r] EXCEPT !.copies = left, !.dirty = @ \ {s}]
               next == IF left = <<>> THEN Idler ELSE rest
    <2>1. req[r].pc = "spread" /\ SaveSession(r, s, copy, next)
      BY <1>6 DEF SpreadSession
    <2>2. /\ left \in Partial(SessionIds, Session)
          /\ DOMAIN left = DOMAIN req[r].copies \ {s}
          /\ \A t \in DOMAIN left : left[t] = req[r].copies[t]
      <3>1. left \in Partial(SessionIds, Session)
        BY <1>1, PartialRestrict
      <3> QED
        BY <3>1, RestrictIs
    <2> HIDE DEF left
    <2>3. /\ rest \in Request /\ rest.pc = "spread" /\ rest.copies = left
          /\ rest.dirty = req[r].dirty \ {s}
      BY <1>1, <2>1, <2>2 DEF Request
    <2> HIDE DEF rest
    <2>4. OneCopy(rest) /\ \A t \in SessionIds \ {s} : Spared(req[r], rest, t)
      BY <1>1, <2>1, <2>2, <2>3 DEF OneCopy, Spared
    <2>5. CASE left = <<>>
      <3>1. next = Idler
        BY <2>5
      <3> HIDE DEF next
      <3>2. DOMAIN Idler.copies = {} /\ Idler.dirty = {}
        BY IdlerIs DEF Idler
      <3>3. \A t \in SessionIds \ {s} : t \notin DOMAIN req[r].copies
        BY <2>2, <2>5, PartialEmpty
      <3>4. OneCopy(Idler) /\ \A t \in SessionIds \ {s} : Spared(req[r], Idler, t)
        BY <3>2, <3>3 DEF OneCopy, Spared
      <3>5. SaveSession(r, s, copy, Idler)
        BY <2>1, <3>1
      <3> HIDE DEF copy
      <3> QED
        BY <1>1, <1>2, <2>1, <3>4, <3>5, SaveOk
    <2>6. CASE left # <<>>
      <3>1. SaveSession(r, s, copy, rest)
        BY <2>1, <2>6
      <3>2. s \notin DOMAIN rest.copies
        BY <2>2, <2>3
      <3> HIDE DEF copy, next
      <3> QED
        BY <1>1, <2>1, <2>3, <2>4, <3>1, <3>2, SaveOk
    <2> QED
      BY <2>5, <2>6
  <1> QED
    BY <1>3, <1>4, <1>5, <1>6

\* A request that holds nothing takes up session s, all else stays.
TakesUp(r, s, c, x) ==
    /\ x \in Request /\ DOMAIN x.copies = {s} /\ x.copies[s] = c /\ x.dirty = {}
    /\ req' = [req EXCEPT ![r] = x]
    /\ sessions' = sessions /\ now' = now
    /\ DOMAIN visit' = DOMAIN visit
    /\ \A t \in DOMAIN visit \ {s} : visit'[t] = visit[t]

\* A request that begins touches no session but its own.
LEMMA TakesUpSpares ==
  ASSUME TypeInv, SessionInv, NEW r \in Slots, NEW s \in SessionIds, NEW c, NEW x,
         req[r].pc = "idle", TakesUp(r, s, c, x), x.pc \in {"touch", "drop", "enter"}
  PROVE  /\ \A q \in Slots : OneCopy(req[q])'
         /\ \A t \in SessionIds \ {s} : SessionOk(t)'
         /\ req'[r] = x /\ \A q \in Slots \ {r} : req'[q] = req[q]
         /\ DOMAIN req[r].copies = {}
  <1>1. req'[r] = x /\ \A q \in Slots \ {r} : req'[q] = req[q]
    BY DEF TakesUp, TypeInv
  <1>2. DOMAIN req[r].copies = {}
    BY DEF SessionInv, OneCopy
  <1>3. \A q \in Slots : OneCopy(req[q])'
    <2>1. OneCopy(x)
      BY DEF TakesUp, OneCopy
    <2> QED
      BY <1>1, <2>1 DEF SessionInv
  <1>4. ASSUME NEW t \in SessionIds \ {s} PROVE SessionOk(t)'
    <2>1. ASSUME NEW q \in Slots
          PROVE  /\ t \in DOMAIN req'[q].copies <=> t \in DOMAIN req[q].copies
                 /\ t \in DOMAIN req[q].copies => req'[q] = req[q]
      BY <1>1, <1>2 DEF TakesUp
    <2>2. Untouched(t)
      BY <2>1 DEF Untouched, TakesUp
    <2> QED
      BY <2>2, UntouchedOk DEF SessionInv
  <1> QED
    BY <1>1, <1>2, <1>3, <1>4

\* A request arrives with a session and reads it.
LEMMA ArriveOk ==
  ASSUME TypeInv, SessionInv, NEW r \in Slots, NEW s \in SessionIds,
         NEW kind \in {"view", "change", "reset", "credentials"}, Arrive(r, kind, s)
  PROVE  SessionInv'
  <1> DEFINE old == sessions[s].value
             expired == now > old.seen + Idle \/ now > old.created + Absolute
             c == IF expired THEN old ELSE [old EXCEPT !.seen = now]
             x == [Idler EXCEPT !.pc = IF expired THEN "drop" ELSE "touch",
                                !.kind = kind, !.copies = Only(s, c)]
  <1>1. /\ s \in DOMAIN sessions /\ req[r].pc = "idle" /\ req' = [req EXCEPT ![r] = x]
        /\ visit' = IF expired THEN visit ELSE [visit EXCEPT ![s].last = now]
        /\ sessions' = sessions /\ now' = now
    BY DEF Arrive
  <1>2. /\ s \in DOMAIN visit /\ StoredOk(s) /\ SessionOk(s)
        /\ visit[s].last <= now
    BY <1>1 DEF SessionInv, SessionOk, StoredOk
  <1>3. /\ now \in 0 .. MaxTime /\ now \in Nat /\ Idle \in Nat /\ Absolute \in Nat
        /\ old \in Session /\ old.created \in Nat /\ old.seen \in Nat /\ old = Stored(s)
        /\ visit[s] \in Visit /\ visit[s].login \in Nat /\ visit[s].last \in Nat
    BY <1>1, <1>2, SessionFields DEF Stored, TypeInv
  <1>4. /\ c \in Session /\ c.created = old.created /\ c.creds = old.creds
        /\ c.seen = IF expired THEN old.seen ELSE now
    BY <1>3 DEF Session
  <1>5. ~expired \/ visit' = visit
    BY <1>1
  <1>6. expired <=> now > old.seen + Idle \/ now > old.created + Absolute
    OBVIOUS
  <1>7. expired \/ visit' = [visit EXCEPT ![s].last = now]
    BY <1>1
  <1> HIDE DEF c
  <1>8. /\ x \in Request /\ DOMAIN x.copies = {s} /\ x.copies[s] = c /\ x.dirty = {}
        /\ x.pc = IF expired THEN "drop" ELSE "touch"
    <2> DEFINE o == Only(s, c)
               pc == IF expired THEN "drop" ELSE "touch"
    <2>1. o \in Partial(SessionIds, Session) /\ DOMAIN o = {s} /\ o[s] = c
      BY <1>4, PartialOnly, OnlyIs
    <2>2. pc \in {"drop", "touch"}
      OBVIOUS
    <2>3. x = [Idler EXCEPT !.pc = pc, !.kind = kind, !.copies = o]
      OBVIOUS
    <2> HIDE DEF o, pc, x
    <2>4. Idler.dirty = {}
      BY DEF Idler
    <2>5. x \in Request /\ x.copies = o /\ x.dirty = {} /\ x.pc = pc
      BY <2>1, <2>2, <2>3, <2>4, IdlerIs DEF Request
    <2> QED
      BY <2>1, <2>5 DEF pc
  <1> HIDE DEF x, expired
  <1>9. /\ DOMAIN visit' = DOMAIN visit
        /\ \A t \in DOMAIN visit \ {s} : visit'[t] = visit[t]
        /\ visit'[s] = IF expired THEN visit[s] ELSE [visit[s] EXCEPT !.last = now]
    BY <1>2, <1>5, <1>7
  <1>10. TakesUp(r, s, c, x) /\ x.pc \in {"touch", "drop", "enter"}
    BY <1>1, <1>8, <1>9 DEF TakesUp
  <1>11. /\ \A q \in Slots : OneCopy(req[q])'
         /\ \A t \in SessionIds \ {s} : SessionOk(t)'
         /\ req'[r] = x /\ \A q \in Slots \ {r} : req'[q] = req[q]
         /\ DOMAIN req[r].copies = {}
    BY <1>1, <1>10, TakesUpSpares
  <1> DEFINE v == visit[s]
             w == visit'[s]
  <1>12. /\ w.login = v.login /\ w.over = v.over /\ w.held = v.held
         /\ w.undone = v.undone /\ w.creds = v.creds
         /\ w.last = IF expired THEN v.last ELSE now
    BY <1>3, <1>9 DEF Visit
  <1>13. /\ old.created = v.login /\ old.seen <= v.last /\ ~(v.over /\ ~v.held)
         /\ old.seen + Idle <= sessions[s].expires
    BY <1>1, <1>2, <1>3 DEF SessionOk, StoredOk, OutOk
  <1>14. SessionOk(s)'
    <2>1. ASSUME NEW q \in Slots PROVE Entering(q, s)' /\ Copied(q, s)'
      <3>1. Entering(q, s) /\ Copied(q, s)
        BY <1>2 DEF SessionOk
      <3>2. CASE q = r
        <4>1. Copied(r, s)'
          <5>1. /\ s \in DOMAIN visit' /\ c.created = w.login /\ c.seen <= w.last
                /\ x.pc = "drop" => now > c.seen + Idle \/ now > c.created + Absolute
            <6>1. CASE expired
              BY <1>2, <1>4, <1>6, <1>9, <1>12, <1>13, <6>1
            <6>2. CASE ~expired
              BY <1>2, <1>3, <1>4, <1>8, <1>9, <1>12, <1>13, <6>2
            <6> QED
              BY <6>1, <6>2
          <5> HIDE DEF v
          <5>2. req'[r].copies[s] = c /\ req'[r].pc = x.pc
            BY <1>8, <1>11
          <5> QED
            BY <1>1, <5>1, <5>2 DEF Copied, Copy
        <4>2. Entering(r, s)'
          BY <1>8, <1>11 DEF Entering
        <4> QED
          BY <3>2, <4>1, <4>2
      <3>3. CASE q # r
        <4>1. req'[q] = req[q] /\ v.last <= w.last
          BY <1>2, <1>3, <1>11, <1>12, <3>3
        <4>2. ~(Holds(q, s) /\ req[q].pc = "enter")
          BY <3>1, <1>2 DEF Entering
        <4>3. Entering(q, s)'
          BY <4>1, <4>2 DEF Entering, Holds
        <4>4. Holds(q, s) => Copy(q, s).seen \in Nat
          BY SessionFields
        <4>5. w.last \in Nat
          BY <1>3, <1>12
        <4> HIDE DEF v, w
        <4>6. Holds(q, s) /\ req[q].pc # "enter" =>
                /\ Copy(q, s).created = v.login /\ Copy(q, s).seen <= v.last
                /\ req[q].pc = "drop" => \/ now > Copy(q, s).seen + Idle
                                         \/ now > Copy(q, s).created + Absolute
          BY <3>1 DEF Copied, v
        <4>7. Holds(q, s) /\ req[q].pc # "enter" => Copy(q, s).seen <= w.last
          BY <1>3, <4>1, <4>4, <4>5, <4>6 DEF v
        <4>8. Copied(q, s)'
          BY <1>1, <1>2, <1>9, <1>12, <4>1, <4>6, <4>7 DEF Copied, Holds, Copy, w
        <4> QED
          BY <4>3, <4>8
      <3> QED
        BY <3>2, <3>3
    <2>2. (s \in DOMAIN visit => visit[s].last <= now)'
      BY <1>1, <1>2, <1>3, <1>12
    <2>3. StoredOk(s)'
      <3>1. v.last <= w.last
        BY <1>2, <1>3, <1>12
      <3>2. w.last \in Nat
        BY <1>3, <1>12
      <3>3. old.seen <= w.last
        BY <1>3, <1>13, <3>1, <3>2
      <3> QED
        BY <1>1, <1>2, <1>9, <1>12, <1>13, <3>3 DEF StoredOk, Stored
    <2>4. OutOk(s)'
      BY <1>12, <1>13 DEF OutOk
    <2>5. CredsOk(s)'
      <3> SUFFICES ASSUME ~w.over, ~w.undone
                   PROVE  /\ old.creds <=> w.creds
                          /\ \A q \in Slots : Holds(q, s)' /\ Clean(q, s)' =>
                                (req'[q].copies[s].creds <=> w.creds)
        BY <1>1 DEF CredsOk, Stored, Copy
      <3>1. /\ old.creds <=> v.creds
            /\ \A q \in Slots : Holds(q, s) /\ Clean(q, s) => (Copy(q, s).creds <=> v.creds)
        BY <1>1, <1>2, <1>3, <1>12 DEF SessionOk, CredsOk
      <3> QED
        BY <1>4, <1>8, <1>11, <1>12, <3>1 DEF Holds, Clean, Copy
    <2>6. LiveOk(s)'
      <3> SUFFICES ASSUME ~w.over, ~w.undone, ~Late(s)'
                   PROVE  \/ \E q \in Slots : Pending(q, s)'
                          \/ /\ Fresh(s)'
                             /\ \A q \in Slots : Holds(q, s)' =>
                                  \/ Clean(q, s)' /\ Latest(q, s)'
                                  \/ ~Clean(q, s)' /\ req'[q].pc = "body"
        BY DEF LiveOk
      <3>1. CASE ~expired
        <4>1. Pending(r, s)'
          BY <1>4, <1>8, <1>11, <1>12, <3>1 DEF Pending, Holds, Clean, Latest, Copy
        <4> QED
          BY <4>1
      <3>2. CASE expired
        <4>1. ~v.over /\ ~v.undone /\ ~Late(s)
          BY <1>1, <1>12, <3>2 DEF Late
        <4>2. ~Fresh(s)
          BY <1>3, <1>6, <1>13, <3>2, <4>1 DEF Fresh, Late
        <4>3. PICK q \in Slots : Pending(q, s)
          BY <1>2, <4>1, <4>2 DEF SessionOk, LiveOk
        <4>4. q # r
          BY <1>11, <4>3 DEF Pending, Holds
        <4>5. Pending(q, s)'
          BY <1>11, <1>12, <3>2, <4>3, <4>4 DEF Pending, Holds, Clean, Latest, Copy
        <4> QED
          BY <4>5
      <3> QED
        BY <3>1, <3>2
    <2> QED
      BY <2>1, <2>2, <2>3, <2>4, <2>5, <2>6 DEF SessionOk
  <1> QED
    BY <1>11, <1>14 DEF SessionInv

\* A login makes a session nobody else has.
LEMMA LoginOk ==
  ASSUME TypeInv, SessionInv, NEW r \in Slots, NEW s \in SessionIds,
         NEW u \in Users \union {Nobody}, Login(r, u, s)
  PROVE  SessionInv'
  <1> DEFINE c == [user |-> u, created |-> now, seen |-> now,
                   must |-> u # Nobody /\ file.store[u].must, creds |-> FALSE]
             o == Only(s, c)
             x == [Idler EXCEPT !.pc = "enter", !.kind = "login", !.copies = o]
  <1>1. /\ req[r].pc = "idle" /\ req' = [req EXCEPT ![r] = x]
        /\ s \notin DOMAIN visit /\ \A q \in Slots : ~Holds(q, s)
        /\ sessions' = sessions /\ visit' = visit /\ now' = now
    BY DEF Login, history
  <1>2. c \in Session /\ c.creds = FALSE /\ c.seen = now /\ now \in Nat
    BY AccountsAssumption DEF Session, TypeInv
  <1> HIDE DEF c
  <1>3. o \in Partial(SessionIds, Session) /\ DOMAIN o = {s} /\ o[s] = c
    BY <1>2, PartialOnly, OnlyIs
  <1> HIDE DEF o
  <1>4. /\ x \in Request /\ DOMAIN x.copies = {s} /\ x.copies[s] = c /\ x.dirty = {}
        /\ x.pc = "enter"
    <2>1. Idler.dirty = {}
      BY DEF Idler
    <2> QED
      BY <1>3, <2>1, IdlerIs DEF Request
  <1> HIDE DEF x
  <1>5. TakesUp(r, s, c, x) /\ x.pc \in {"touch", "drop", "enter"}
    BY <1>1, <1>4 DEF TakesUp
  <1>6. /\ \A q \in Slots : OneCopy(req[q])'
        /\ \A t \in SessionIds \ {s} : SessionOk(t)'
        /\ req'[r] = x /\ \A q \in Slots \ {r} : req'[q] = req[q]
    BY <1>1, <1>5, TakesUpSpares
  <1>7. s \notin DOMAIN sessions
    BY <1>1 DEF SessionInv, SessionOk, StoredOk
  <1>8. SessionOk(s)'
    <2>1. \A q \in Slots : q # r => ~Holds(q, s)'
      BY <1>1, <1>6 DEF Holds
    <2>2. ASSUME NEW q \in Slots PROVE Entering(q, s)' /\ Copied(q, s)'
      <3>1. CASE q = r
        BY <1>1, <1>2, <1>4, <1>6, <2>1, <3>1 DEF Entering, Copied, Copy
      <3>2. CASE q # r
        BY <2>1, <3>2 DEF Entering, Copied
      <3> QED
        BY <3>1, <3>2
    <2>3. s \notin DOMAIN visit' /\ s \notin DOMAIN sessions'
      BY <1>1, <1>7
    <2> QED
      BY <2>2, <2>3 DEF SessionOk, StoredOk, OutOk, CredsOk, LiveOk
  <1> QED
    BY <1>6, <1>8 DEF SessionInv

\* A login saves its session.
LEMMA EnterOk ==
  ASSUME TypeInv, SessionInv, NEW r \in Slots, NEW s \in SessionIds, Enter(r, s)
  PROVE  SessionInv'
  <1> DEFINE c == req[r].copies[s]
             e == [value |-> c, expires |-> now + Ttl]
             w == [login |-> c.created, last |-> c.seen, over |-> FALSE,
                   held |-> FALSE, undone |-> FALSE, creds |-> FALSE]
  <1>1. /\ req[r].pc = "enter" /\ Holds(r, s) /\ req' = [req EXCEPT ![r] = Idler]
        /\ sessions' = With(sessions, s, e) /\ visit' = With(visit, s, w) /\ now' = now
    BY DEF Enter, Put
  <1>2. /\ s \notin DOMAIN visit /\ \A q \in Slots : Holds(q, s) => q = r
        /\ ~c.creds /\ c.seen <= now
    BY <1>1 DEF SessionInv, SessionOk, Entering, Copy
  <1>3. /\ c.created \in Nat /\ c.seen \in Nat /\ c.creds \in BOOLEAN
        /\ now \in Nat /\ Idle \in Nat
    BY <1>1, SessionFields DEF Copy
  <1>4. w.login = c.created /\ w.last = c.seen /\ ~w.over /\ ~w.undone /\ ~w.creds
    OBVIOUS
  <1>5. e.value = c /\ e.expires = now + Ttl
    OBVIOUS
  <1> HIDE DEF c, e, w
  <1>6. /\ DOMAIN sessions' = DOMAIN sessions \union {s} /\ sessions'[s] = e
        /\ \A t \in DOMAIN sessions \ {s} : sessions'[t] = sessions[t]
    BY <1>1 DEF With
  <1>7. /\ DOMAIN visit' = DOMAIN visit \union {s} /\ visit'[s] = w
        /\ \A t \in DOMAIN visit \ {s} : visit'[t] = visit[t]
    BY <1>1 DEF With
  <1>8. req'[r] = Idler /\ \A q \in Slots \ {r} : req'[q] = req[q]
    BY <1>1 DEF TypeInv
  <1>9. DOMAIN Idler.copies = {} /\ OneCopy(Idler)
    BY IdlerIs DEF Idler, OneCopy
  <1>10. \A q \in Slots : OneCopy(req[q])'
    BY <1>8, <1>9 DEF SessionInv
  <1>11. ASSUME NEW t \in SessionIds \ {s} PROVE SessionOk(t)'
    <2>1. t \notin DOMAIN req[r].copies
      BY <1>1 DEF SessionInv, OneCopy, Holds
    <2>2. ASSUME NEW q \in Slots
          PROVE  /\ t \in DOMAIN req'[q].copies <=> t \in DOMAIN req[q].copies
                 /\ t \in DOMAIN req[q].copies => req'[q] = req[q]
      BY <1>8, <1>9, <2>1
    <2>3. Untouched(t)
      BY <1>1, <1>6, <1>7, <2>2 DEF Untouched
    <2> QED
      BY <2>3, UntouchedOk DEF SessionInv
  <1>12. SessionOk(s)'
    <2>1. \A q \in Slots : ~Holds(q, s)'
      BY <1>2, <1>8, <1>9 DEF Holds
    <2>2. \A q \in Slots : Entering(q, s)' /\ Copied(q, s)'
      BY <2>1 DEF Entering, Copied
    <2>3. StoredOk(s)'
      <3>1. c.seen + Idle <= now + Ttl
        BY <1>2, <1>3, Lifetime
      <3> QED
        BY <1>3, <1>4, <1>5, <1>6, <1>7, <3>1 DEF StoredOk, Stored
    <2>4. (s \in DOMAIN visit => visit[s].last <= now)' /\ OutOk(s)'
      BY <1>1, <1>2, <1>4, <1>7 DEF OutOk
    <2>5. CredsOk(s)'
      BY <1>2, <1>4, <1>5, <1>6, <1>7, <2>1 DEF CredsOk, Stored
    <2>6. LiveOk(s)'
      BY <1>4, <1>5, <1>6, <1>7, <2>1 DEF LiveOk, Fresh, Stored
    <2> QED
      BY <2>2, <2>3, <2>4, <2>5, <2>6 DEF SessionOk
  <1> QED
    BY <1>10, <1>11, <1>12 DEF SessionInv

\* An expired session is deleted.
LEMMA DropOk ==
  ASSUME TypeInv, SessionInv, NEW r \in Slots, NEW s \in SessionIds, Drop(r, s)
  PROVE  SessionInv'
  <1>1. /\ req[r].pc = "drop" /\ Holds(r, s) /\ now' = now
        /\ sessions' = Restrict(sessions, DOMAIN sessions \ {s})
        /\ req' = [Outdate(r, s) EXCEPT ![r] = Idler]
        /\ visit' = [visit EXCEPT ![s].undone = @ \/ s \in req[r].dirty]
    BY DEF Drop
  <1>2. req'[r] = Idler /\ \A q \in Slots \ {r} : Outdated(q, s)
    BY <1>1, IdlerIs, OutdatedIs
  <1>3. DOMAIN Idler.copies = {} /\ OneCopy(Idler)
    BY IdlerIs DEF Idler, OneCopy
  <1>4. \A q \in Slots : OneCopy(req[q])'
    BY <1>2, <1>3, OutdatedOneCopy DEF SessionInv
  <1>5. SessionOk(s) /\ s \in DOMAIN visit
    BY <1>1 DEF SessionInv, SessionOk, Copied
  <1>6. /\ DOMAIN sessions' = DOMAIN sessions \ {s}
        /\ \A t \in DOMAIN sessions' : sessions'[t] = sessions[t]
    BY <1>1, RestrictIs
  <1>7. /\ DOMAIN visit' = DOMAIN visit
        /\ \A t \in DOMAIN visit \ {s} : visit'[t] = visit[t]
        /\ visit'[s] = [visit[s] EXCEPT !.undone = @ \/ s \in req[r].dirty]
    BY <1>1, <1>5
  <1>8. ASSUME NEW t \in SessionIds \ {s} PROVE SessionOk(t)'
    <2>1. t \notin DOMAIN req[r].copies
      BY <1>1 DEF SessionInv, OneCopy, Holds
    <2>2. ASSUME NEW q \in Slots
          PROVE  /\ t \in DOMAIN req'[q].copies <=> t \in DOMAIN req[q].copies
                 /\ t \in DOMAIN req[q].copies =>
                      /\ req'[q].copies[t] = req[q].copies[t]
                      /\ t \in req'[q].dirty <=> t \in req[q].dirty
                      /\ req'[q].pc = req[q].pc
      <3>1. CASE q = r
        BY <1>2, <1>3, <2>1, <3>1
      <3>2. CASE q # r
        <4>1. Outdated(q, s)
          BY <1>2, <3>2
        <4>2. /\ req'[q].copies = req[q].copies /\ req'[q].pc = req[q].pc
              /\ t \in req'[q].dirty <=> t \in req[q].dirty
          BY <4>1 DEF Outdated
        <4> QED
          BY <4>2
      <3> QED
        BY <3>1, <3>2
    <2>3. Untouched(t)
      BY <1>1, <1>6, <1>7, <2>2 DEF Untouched
    <2> QED
      BY <2>3, UntouchedOk DEF SessionInv
  <1>9. SessionOk(s)'
    <2> DEFINE v == visit[s]
    <2>1. /\ v \in Visit /\ v.login \in Nat /\ v.last \in Nat /\ now \in Nat
          /\ v.over \in BOOLEAN /\ v.held \in BOOLEAN /\ v.undone \in BOOLEAN
      BY <1>5, SessionFields
    <2>2. /\ visit'[s].login = v.login /\ visit'[s].last = v.last
          /\ visit'[s].over = v.over /\ visit'[s].held = v.held
          /\ visit'[s].creds = v.creds
      BY <1>7, <2>1 DEF Visit
    <2>3. visit'[s].undone = (v.undone \/ s \in req[r].dirty)
      BY <1>7, <2>1 DEF Visit
    <2>4. /\ s \notin DOMAIN sessions' /\ s \in DOMAIN visit' /\ ~Holds(r, s)'
          /\ \A q \in Slots \ {r} : Holds(q, s)' <=> Holds(q, s)
      BY <1>2, <1>3, <1>5, <1>6, <1>7 DEF Holds, Outdated
    <2> HIDE DEF v
    <2>5. ASSUME NEW q \in Slots PROVE Entering(q, s)' /\ Copied(q, s)'
      <3>1. CASE q = r
        BY <2>4, <3>1 DEF Entering, Copied
      <3>2. CASE q # r
        <4>1. Entering(q, s) /\ Copied(q, s) /\ Outdated(q, s)
          BY <1>2, <1>5, <3>2 DEF SessionOk
        <4>2. ~(Holds(q, s) /\ req[q].pc = "enter")
          BY <1>5, <4>1 DEF Entering
        <4> QED
          BY <1>1, <2>2, <2>4, <3>2, <4>1, <4>2 DEF Entering, Copied, Copy, Outdated, v
      <3> QED
        BY <3>1, <3>2
    <2>6. (s \in DOMAIN visit => visit[s].last <= now)' /\ StoredOk(s)' /\ OutOk(s)'
      <3>1. v.last <= now /\ ~(v.over /\ ~v.held)
        BY <1>1, <1>5 DEF SessionOk, OutOk, v
      <3> QED
        BY <1>1, <2>2, <2>4, <3>1 DEF StoredOk, OutOk
    <2>7. \A q \in Slots : Holds(q, s)' => ~Clean(q, s)'
      BY <1>2, <2>4 DEF Outdated, Clean
    <2>8. CredsOk(s)'
      BY <2>4, <2>7 DEF CredsOk
    <2>9. LiveOk(s)'
      <3> SUFFICES ASSUME ~visit'[s].over, ~visit'[s].undone, ~Late(s)'
                   PROVE  \E q \in Slots : Pending(q, s)'
        BY DEF LiveOk
      <3>1. Clean(r, s) /\ ~v.over /\ ~v.undone /\ ~Late(s)
        BY <1>1, <2>2, <2>3 DEF Clean, Late, v
      <3>2. ~Latest(r, s)
        <4>1. \/ now > Copy(r, s).seen + Idle
              \/ now > Copy(r, s).created + Absolute
          BY <1>1, <1>5 DEF SessionOk, Copied
        <4>2. Copy(r, s).created = v.login
          BY <1>1, <1>5 DEF SessionOk, Copied, v
        <4> QED
          BY <3>1, <4>1, <4>2 DEF Latest, Late, v
      <3>3. PICK q \in Slots : Pending(q, s)
        BY <1>1, <1>5, <3>1, <3>2 DEF SessionOk, LiveOk, v
      <3>4. q # r
        BY <3>1, <3>2, <3>3 DEF Pending
      <3>5. Outdated(q, s)
        BY <1>2, <3>4
      <3>6. Pending(q, s)'
        BY <2>4, <2>7, <3>3, <3>4, <3>5 DEF Pending, Outdated
      <3> QED
        BY <3>6
    <2> QED
      BY <2>5, <2>6, <2>8, <2>9 DEF SessionOk
  <1> QED
    BY <1>4, <1>8, <1>9 DEF SessionInv

\* A logout ends a session, and the requests that still hold it are noted.
LEMMA LogoutOk ==
  ASSUME TypeInv, SessionInv, NEW s \in SessionIds, Logout(s)
  PROVE  SessionInv'
  <1>1. /\ s \in DOMAIN visit /\ now' = now
        /\ sessions' = Restrict(sessions, DOMAIN sessions \ {s})
        /\ req' = [q \in Slots |-> IF Holds(q, s)
                     THEN [req[q] EXCEPT !.dirty = @ \union {s}] ELSE req[q]]
        /\ visit' = [visit EXCEPT ![s].over = TRUE,
                                  ![s].held = @ \/ \E q \in Slots : Holds(q, s)]
    BY DEF Logout
  <1>2. ASSUME NEW q \in Slots PROVE Outdated(q, s)
    <2>1. req[q] \in Request
      BY DEF TypeInv
    <2>2. CASE Holds(q, s)
      <3> DEFINE d == [req[q] EXCEPT !.dirty = @ \union {s}]
      <3>1. req'[q] = d
        BY <1>1, <2>2
      <3>2. /\ d.dirty = req[q].dirty \union {s}
            /\ d.pc = req[q].pc /\ d.kind = req[q].kind /\ d.copies = req[q].copies
        BY <2>1, DirtyIs
      <3> HIDE DEF d
      <3> QED
        BY <2>2, <3>1, <3>2 DEF Outdated
    <2>3. CASE ~Holds(q, s)
      BY <1>1, <2>3 DEF Outdated
    <2> QED
      BY <2>2, <2>3
  <1>3. \A q \in Slots : OneCopy(req[q])'
    BY <1>2, OutdatedOneCopy DEF SessionInv
  <1>4. /\ DOMAIN sessions' = DOMAIN sessions \ {s}
        /\ \A t \in DOMAIN sessions' : sessions'[t] = sessions[t]
    BY <1>1, RestrictIs
  <1>5. /\ DOMAIN visit' = DOMAIN visit
        /\ \A t \in DOMAIN visit \ {s} : visit'[t] = visit[t]
        /\ visit'[s] = [visit[s] EXCEPT !.over = TRUE,
                                        !.held = @ \/ \E q \in Slots : Holds(q, s)]
    BY <1>1
  <1>6. ASSUME NEW t \in SessionIds \ {s} PROVE SessionOk(t)'
    <2>1. ASSUME NEW q \in Slots
          PROVE  /\ req'[q].copies = req[q].copies /\ req'[q].pc = req[q].pc
                 /\ t \in req'[q].dirty <=> t \in req[q].dirty
      BY <1>2 DEF Outdated
    <2>2. Untouched(t)
      BY <1>1, <1>4, <1>5, <2>1 DEF Untouched
    <2> QED
      BY <2>2, UntouchedOk DEF SessionInv
  <1>7. SessionOk(s)'
    <2> DEFINE v == visit[s]
    <2>1. SessionOk(s) /\ v \in Visit /\ v.held \in BOOLEAN
      BY <1>1, SessionFields DEF SessionInv
    <2>2. visit'[s].login = v.login /\ visit'[s].last = v.last /\ visit'[s].over = TRUE
      BY <1>5, <2>1 DEF Visit
    <2>3. visit'[s].held = (v.held \/ \E q \in Slots : Holds(q, s))
      BY <1>5, <2>1 DEF Visit
    <2> HIDE DEF v
    <2>4. /\ s \notin DOMAIN sessions' /\ s \in DOMAIN visit'
          /\ \A q \in Slots : Holds(q, s)' <=> Holds(q, s)
      BY <1>1, <1>2, <1>4, <1>5 DEF Holds, Outdated
    <2>5. ASSUME NEW q \in Slots PROVE Entering(q, s)' /\ Copied(q, s)'
      <3>1. Entering(q, s) /\ Copied(q, s) /\ Outdated(q, s)
        BY <1>2, <2>1 DEF SessionOk
      <3>2. ~(Holds(q, s) /\ req[q].pc = "enter")
        BY <1>1, <3>1 DEF Entering
      <3> QED
        BY <1>1, <2>2, <2>4, <3>1, <3>2 DEF Entering, Copied, Copy, Outdated, v
    <2>6. (s \in DOMAIN visit => visit[s].last <= now)' /\ StoredOk(s)' /\ OutOk(s)'
      <3>1. v.last <= now
        BY <1>1, <2>1 DEF SessionOk, v
      <3> QED
        BY <1>1, <2>2, <2>3, <2>4, <3>1 DEF StoredOk, OutOk
    <2>7. CredsOk(s)' /\ LiveOk(s)'
      BY <2>2 DEF CredsOk, LiveOk
    <2> QED
      BY <2>5, <2>6, <2>7 DEF SessionOk
  <1> QED
    BY <1>3, <1>6, <1>7 DEF SessionInv

\* A crash loses the requests and, kept in memory, the sessions.
LEMMA CrashOk == ASSUME TypeInv, SessionInv, Crash PROVE SessionInv'
  <1>1. /\ req' = [r \in Slots |-> Idler] /\ now' = now
        /\ sessions' = IF service.sessions = "redis" THEN sessions ELSE <<>>
        /\ visit' = [s \in DOMAIN visit |->
                       IF service.sessions = "redis"
                       THEN [visit[s] EXCEPT !.undone = @ \/ \E q \in Slots : Holds(q, s)]
                       ELSE [visit[s] EXCEPT !.over = TRUE, !.held = FALSE]]
    BY DEF Crash
  <1>2. DOMAIN Idler.copies = {} /\ OneCopy(Idler)
    BY IdlerIs DEF Idler, OneCopy
  <1>3. \A q \in Slots : OneCopy(req[q])'
    BY <1>1, <1>2
  <1>4. ASSUME NEW s \in SessionIds PROVE SessionOk(s)'
    <2>1. \A q \in Slots : ~Holds(q, s)'
      BY <1>1, <1>2 DEF Holds
    <2>2. \A q \in Slots : Entering(q, s)' /\ Copied(q, s)'
      BY <2>1 DEF Entering, Copied
    <2>3. SessionOk(s) /\ DOMAIN visit' = DOMAIN visit
      BY <1>1 DEF SessionInv
    <2> DEFINE v == visit[s]
               w == visit'[s]
    <2>4. CASE service.sessions = "redis"
      <3>1. sessions' = sessions
        BY <1>1, <2>4
      <3>2. s \in DOMAIN visit =>
              /\ w.login = v.login /\ w.last = v.last /\ w.over = v.over
              /\ w.held = v.held /\ w.creds = v.creds
        BY <1>1, <2>4, SessionFields DEF Visit
      <3>3. s \in DOMAIN visit => w.undone = (v.undone \/ \E q \in Slots : Holds(q, s))
        BY <1>1, <2>4, SessionFields DEF Visit
      <3> HIDE DEF v, w
      <3>4. (s \in DOMAIN visit => visit[s].last <= now)' /\ StoredOk(s)' /\ OutOk(s)'
        BY <1>1, <2>1, <2>3, <3>1, <3>2 DEF SessionOk, StoredOk, OutOk, Stored, v, w
      <3>5. CredsOk(s)'
        BY <2>1, <2>3, <3>1, <3>2, <3>3 DEF SessionOk, CredsOk, Stored, v, w
      <3>6. LiveOk(s)'
        <4> SUFFICES ASSUME s \in DOMAIN visit', ~w.over, ~w.undone, ~Late(s)'
                     PROVE  Fresh(s)'
          BY <2>1 DEF LiveOk, w
        <4>1. s \in DOMAIN visit /\ ~v.over /\ ~v.undone /\ ~Late(s)
          BY <1>1, <2>3, <3>2, <3>3 DEF Late, v, w
        <4>2. \A q \in Slots : ~Holds(q, s)
          BY <3>3, <4>1
        <4>3. Fresh(s)
          BY <2>3, <4>1, <4>2 DEF SessionOk, LiveOk, Pending, v
        <4> QED
          BY <3>1, <3>2, <4>1, <4>3 DEF Fresh, Stored, v, w
      <3> QED
        BY <2>2, <3>4, <3>5, <3>6 DEF SessionOk
    <2>5. CASE service.sessions # "redis"
      <3>1. sessions' = <<>>
        BY <1>1, <2>5
      <3>2. s \notin DOMAIN sessions'
        BY <3>1, PartialEmpty
      <3>3. s \in DOMAIN visit => w.last = v.last /\ w.over = TRUE
        BY <1>1, <2>5, SessionFields DEF Visit
      <3> HIDE DEF v, w
      <3>4. (s \in DOMAIN visit => visit[s].last <= now)' /\ StoredOk(s)' /\ OutOk(s)'
        BY <1>1, <2>1, <2>3, <3>2, <3>3 DEF SessionOk, StoredOk, OutOk, v, w
      <3>5. CredsOk(s)' /\ LiveOk(s)'
        BY <2>3, <3>3 DEF CredsOk, LiveOk, w
      <3> QED
        BY <2>2, <3>4, <3>5 DEF SessionOk
    <2> QED
      BY <2>4, <2>5
  <1> QED
    BY <1>3, <1>4 DEF SessionInv

\* Time passes: sessions may grow old.
LEMMA TickOk == ASSUME TypeInv, SessionInv, Tick PROVE SessionInv'
  <1>1. /\ req' = req /\ visit' = visit /\ now' = now + 1
        /\ sessions' = Restrict(sessions, {s \in DOMAIN sessions :
                                             now + 1 <= sessions[s].expires})
    BY DEF Tick, history
  <1>2. /\ DOMAIN sessions' = {s \in DOMAIN sessions : now + 1 <= sessions[s].expires}
        /\ \A s \in DOMAIN sessions' : sessions'[s] = sessions[s]
    BY <1>1, RestrictIs
  <1>3. ASSUME NEW s \in SessionIds PROVE SessionOk(s)'
    <2>1. SessionOk(s)
      BY DEF SessionInv
    <2>2. /\ now \in Nat /\ Idle \in Nat /\ Absolute \in Nat
          /\ s \in DOMAIN visit => visit[s].login \in Nat /\ visit[s].last \in Nat
          /\ s \in DOMAIN sessions => Stored(s).seen \in Nat /\ sessions[s].expires \in Nat
          /\ \A q \in Slots : Holds(q, s) => /\ Copy(q, s).created \in Nat
                                             /\ Copy(q, s).seen \in Nat
      BY SessionFields
    <2>3. ASSUME NEW q \in Slots PROVE Entering(q, s)' /\ Copied(q, s)'
      <3>1. Entering(q, s) /\ Copied(q, s)
        BY <2>1 DEF SessionOk
      <3>2. Holds(q, s)' <=> Holds(q, s)
        BY <1>1 DEF Holds
      <3>3. Entering(q, s)'
        BY <1>1, <2>2, <3>1 DEF Entering, Holds, Copy
      <3>4. Copied(q, s)'
        BY <1>1, <2>2, <3>1 DEF Copied, Holds, Copy
      <3> QED
        BY <3>3, <3>4
    <2>4. (s \in DOMAIN visit => visit[s].last <= now)' /\ StoredOk(s)' /\ OutOk(s)'
      BY <1>1, <1>2, <2>1, <2>2 DEF SessionOk, StoredOk, OutOk, Stored, Holds
    <2>5. CredsOk(s)'
      BY <1>1, <1>2, <2>1 DEF SessionOk, CredsOk, Stored, Holds, Clean, Copy
    <2>6. LiveOk(s)'
      <3> SUFFICES ASSUME s \in DOMAIN visit, ~visit[s].over, ~visit[s].undone, ~Late(s)'
                   PROVE  \/ \E q \in Slots : Pending(q, s)'
                          \/ /\ Fresh(s)'
                             /\ \A q \in Slots : Holds(q, s)' =>
                                  \/ Clean(q, s)' /\ Latest(q, s)'
                                  \/ ~Clean(q, s)' /\ req'[q].pc = "body"
        BY <1>1 DEF LiveOk
      <3>1. now + 1 <= visit[s].last + Idle /\ ~Late(s)
        BY <1>1, <2>2 DEF Late
      <3>2. \A q \in Slots : Pending(q, s) => Pending(q, s)'
        BY <1>1 DEF Pending, Holds, Clean, Latest, Copy
      <3>3. Fresh(s) => Fresh(s)'
        <4>1. Fresh(s) => now + 1 <= sessions[s].expires
          BY <2>1, <2>2, <3>1 DEF SessionOk, StoredOk, Fresh
        <4> QED
          BY <1>1, <1>2, <4>1 DEF Fresh, Stored
      <3>4. \A q \in Slots : /\ Holds(q, s)' <=> Holds(q, s)
                             /\ Clean(q, s)' <=> Clean(q, s)
                             /\ Latest(q, s)' <=> Latest(q, s)
                             /\ req'[q].pc = req[q].pc
        BY <1>1 DEF Holds, Clean, Latest, Copy
      <3> QED
        BY <2>1, <3>1, <3>2, <3>3, <3>4 DEF SessionOk, LiveOk
    <2> QED
      BY <1>1, <2>3, <2>4, <2>5, <2>6 DEF SessionOk
  <1> QED
    BY <1>1, <1>3 DEF SessionInv

\* A refused request leaves its session as it is.
LEMMA RefuseOk ==
  ASSUME TypeInv, SessionInv, NEW r \in Slots, Refuse(r)
  PROVE  SessionInv'
  <1>1. /\ req[r].pc = "body" /\ sessions' = sessions /\ visit' = visit /\ now' = now
        /\ req'[r] = Idler /\ \A q \in Slots \ {r} : req'[q] = req[q]
    BY DEF Refuse, TypeInv, history
  <1>2. DOMAIN Idler.copies = {} /\ OneCopy(Idler)
    BY IdlerIs DEF Idler, OneCopy
  <1>3. \A q \in Slots : OneCopy(req[q])'
    BY <1>1, <1>2 DEF SessionInv
  <1>4. ASSUME NEW s \in SessionIds PROVE SessionOk(s)'
    <2>1. SessionOk(s) /\ ~Holds(r, s)'
      BY <1>1, <1>2 DEF SessionInv, Holds
    <2>2. ASSUME NEW q \in Slots PROVE Entering(q, s)' /\ Copied(q, s)'
      <3>1. CASE q = r
        BY <2>1, <3>1 DEF Entering, Copied
      <3>2. CASE q # r
        <4>1. Entering(q, s) /\ Copied(q, s) /\ req'[q] = req[q]
          BY <1>1, <2>1, <3>2 DEF SessionOk
        <4>2. \A p \in Slots : Holds(p, s)' => Holds(p, s)
          BY <1>1, <2>1 DEF Holds
        <4>3. Entering(q, s)'
          BY <1>1, <4>1, <4>2 DEF Entering, Holds, Copy
        <4>4. Copied(q, s)'
          BY <1>1, <4>1 DEF Copied, Holds, Copy
        <4> QED
          BY <4>3, <4>4
      <3> QED
        BY <3>1, <3>2
    <2>3. \A q \in Slots : Holds(q, s)' => req'[q] = req[q] /\ Holds(q, s)
      BY <1>1, <2>1 DEF Holds
    <2>4. (s \in DOMAIN visit => visit[s].last <= now)' /\ StoredOk(s)' /\ OutOk(s)'
      BY <1>1, <2>1, <2>3 DEF SessionOk, StoredOk, OutOk, Stored
    <2>5. CredsOk(s)'
      BY <1>1, <2>1, <2>3 DEF SessionOk, CredsOk, Stored, Clean, Copy
    <2>6. LiveOk(s)'
      <3>1. \A q \in Slots : Pending(q, s) => Pending(q, s)'
        BY <1>1 DEF Pending, Holds, Clean, Latest, Copy
      <3>2. (Late(s)' <=> Late(s)) /\ (Fresh(s)' <=> Fresh(s))
        BY <1>1 DEF Late, Fresh, Stored
      <3>3. ASSUME NEW q \in Slots, Holds(q, s)',
                   Holds(q, s) => \/ Clean(q, s) /\ Latest(q, s)
                                  \/ ~Clean(q, s) /\ req[q].pc = "body"
            PROVE  \/ Clean(q, s)' /\ Latest(q, s)'
                   \/ ~Clean(q, s)' /\ req'[q].pc = "body"
        BY <1>1, <2>3, <3>3 DEF Clean, Latest, Copy
      <3> QED
        BY <1>1, <2>1, <3>1, <3>2, <3>3 DEF SessionOk, LiveOk
    <2> QED
      BY <1>1, <2>2, <2>4, <2>5, <2>6 DEF SessionOk
  <1> QED
    BY <1>3, <1>4 DEF SessionInv

\* A reset lists the sessions and takes copies of them.
LEMMA ListOk ==
  ASSUME TypeInv, SessionInv, NEW r \in Slots, ListSessions(r)
  PROVE  SessionInv'
  <1> DEFINE user == req[r].target
             must == req[r].store[user].must
             mine == {s \in DOMAIN sessions : sessions[s].value.user = user}
             got == [s \in mine |-> [sessions[s].value EXCEPT !.must = must]]
             x == [req[r] EXCEPT !.pc = "spread", !.copies = got]
  <1>1. /\ req[r].pc = "list" /\ req[r] \in Request
        /\ req' = [req EXCEPT ![r] = IF mine = {} THEN Idler ELSE x]
        /\ sessions' = sessions /\ visit' = visit /\ now' = now
    BY DEF ListSessions, history, TypeInv
  <1>2. DOMAIN req[r].copies = {} /\ req[r].dirty = {}
    BY <1>1 DEF SessionInv, OneCopy
  <1>3. must \in BOOLEAN
    BY <1>1, RequestFields, StoreIs DEF TypeInv
  <1> HIDE DEF must
  <1>4. \A s \in mine : /\ [sessions[s].value EXCEPT !.must = must] \in Session
                        /\ got[s].created = Stored(s).created /\ got[s].seen = Stored(s).seen
                        /\ got[s].creds = Stored(s).creds /\ s \in DOMAIN sessions
    BY <1>3, StoredIs DEF Stored, Session
  <1>5. got \in Partial(SessionIds, Session) /\ DOMAIN got = mine
    <2>1. mine \in SUBSET SessionIds
      BY StoredIs
    <2>2. got \in [mine -> Session]
      BY <1>4
    <2> HIDE DEF mine, got
    <2> QED
      BY <2>1, <2>2, PartialBy
  <1> HIDE DEF got, mine
  <1>6. x \in Request /\ x.pc = "spread" /\ x.copies = got /\ x.dirty = {}
    BY <1>1, <1>2, <1>5 DEF Request
  <1> DEFINE y == IF mine = {} THEN Idler ELSE x
  <1>7. /\ OneCopy(y) /\ DOMAIN y.copies = mine /\ y.dirty = {}
        /\ mine # {} => y.pc = "spread" /\ y.copies = got
    <2>1. OneCopy(x)
      BY <1>6 DEF OneCopy
    <2>2. OneCopy(Idler) /\ DOMAIN Idler.copies = {} /\ Idler.dirty = {}
      BY IdlerIs DEF Idler, OneCopy
    <2> HIDE DEF x
    <2> QED
      BY <1>5, <1>6, <2>1, <2>2
  <1>8. req'[r] = y /\ \A q \in Slots \ {r} : req'[q] = req[q]
    BY <1>1 DEF TypeInv
  <1> HIDE DEF x, y
  <1>9. \A q \in Slots : OneCopy(req[q])'
    BY <1>7, <1>8 DEF SessionInv
  <1>10. ASSUME NEW s \in SessionIds \ mine PROVE SessionOk(s)'
    <2>1. ASSUME NEW q \in Slots
          PROVE  /\ s \in DOMAIN req'[q].copies <=> s \in DOMAIN req[q].copies
                 /\ s \in DOMAIN req[q].copies => req'[q] = req[q]
      BY <1>2, <1>7, <1>8
    <2>2. Untouched(s)
      BY <1>1, <2>1 DEF Untouched
    <2> QED
      BY <2>2, UntouchedOk DEF SessionInv
  <1>11. ASSUME NEW s \in mine PROVE SessionOk(s)'
    <2>1. s \in SessionIds /\ SessionOk(s) /\ s \in DOMAIN sessions /\ StoredOk(s)
      BY <1>4, StoredIs DEF SessionInv, SessionOk
    <2>2. /\ req'[r].pc = "spread" /\ Holds(r, s)' /\ Clean(r, s)'
          /\ req'[r].copies[s] = got[s] /\ s \in DOMAIN visit
          /\ \A q \in Slots \ {r} : Holds(q, s)' <=> Holds(q, s)
      BY <1>5, <1>7, <1>8, <2>1 DEF Holds, Clean, StoredOk
    <2>3. ASSUME NEW q \in Slots PROVE Entering(q, s)' /\ Copied(q, s)'
      <3>1. CASE q = r
        BY <1>1, <1>4, <2>1, <2>2, <3>1 DEF Entering, Copied, Copy, StoredOk
      <3>2. CASE q # r
        <4>1. Entering(q, s) /\ Copied(q, s) /\ req'[q] = req[q]
          BY <1>8, <2>1, <3>2 DEF SessionOk
        <4>2. ~(Holds(q, s) /\ req[q].pc = "enter")
          BY <2>2, <4>1 DEF Entering
        <4>3. Entering(q, s)'
          BY <4>1, <4>2 DEF Entering, Holds
        <4>4. Copied(q, s)'
          BY <1>1, <4>1 DEF Copied, Holds, Copy
        <4> QED
          BY <4>3, <4>4
      <3> QED
        BY <3>1, <3>2
    <2>4. (s \in DOMAIN visit => visit[s].last <= now)' /\ StoredOk(s)' /\ OutOk(s)'
      BY <1>1, <2>1 DEF SessionOk, StoredOk, OutOk, Stored
    <2>5. CredsOk(s)'
      <3> SUFFICES ASSUME ~visit[s].over, ~visit[s].undone
                   PROVE  /\ Stored(s).creds <=> visit[s].creds
                          /\ \A q \in Slots : Holds(q, s)' /\ Clean(q, s)' =>
                                (req'[q].copies[s].creds <=> visit[s].creds)
        BY <1>1 DEF CredsOk, Stored, Copy
      <3>1. /\ Stored(s).creds <=> visit[s].creds
            /\ \A q \in Slots : Holds(q, s) /\ Clean(q, s) =>
                  (Copy(q, s).creds <=> visit[s].creds)
        BY <2>1, <2>2 DEF SessionOk, CredsOk
      <3>2. req'[r].copies[s].creds <=> visit[s].creds
        BY <1>4, <2>2, <3>1
      <3>3. ASSUME NEW q \in Slots \ {r}, Holds(q, s)', Clean(q, s)'
            PROVE  req'[q].copies[s].creds <=> visit[s].creds
        <4>1. req'[q] = req[q] /\ Holds(q, s) /\ Clean(q, s)
          BY <1>8, <2>2, <3>3 DEF Clean
        <4> QED
          BY <3>1, <4>1 DEF Copy
      <3> QED
        BY <3>1, <3>2, <3>3
    <2>6. LiveOk(s)'
      <3> SUFFICES ASSUME ~visit[s].over, ~visit[s].undone, ~Late(s)
                   PROVE  \E q \in Slots : Pending(q, s)'
        BY <1>1 DEF LiveOk, Late
      <3>1. CASE \E q \in Slots : Pending(q, s)
        <4>1. PICK q \in Slots : Pending(q, s)
          BY <3>1
        <4>2. q # r
          BY <1>2, <4>1 DEF Pending, Holds
        <4>3. Pending(q, s)'
          BY <1>1, <1>8, <4>1, <4>2 DEF Pending, Holds, Clean, Latest, Copy
        <4> QED
          BY <4>3
      <3>2. CASE Fresh(s)
        <4>1. Pending(r, s)'
          BY <1>1, <1>4, <2>2, <3>2 DEF Pending, Latest, Copy, Fresh
        <4> QED
          BY <4>1
      <3> QED
        BY <2>1, <2>2, <3>1, <3>2 DEF SessionOk, LiveOk
    <2> QED
      BY <2>3, <2>4, <2>5, <2>6 DEF SessionOk
  <1> QED
    BY <1>9, <1>10, <1>11 DEF SessionInv

\* What steps about the process and the users file do to a request.
Advanced(q) ==
    /\ req'[q].copies = req[q].copies /\ req'[q].dirty = req[q].dirty
    /\ req'[q].kind = req[q].kind
    /\ \/ req'[q].pc = req[q].pc
       \/ /\ req[q].pc \in {"body", "open", "write"}
          /\ \/ req'[q].pc \in {"open", "write", "save"}
             \/ req'[q].pc = "list" /\ req[q].kind = "reset"

\* A step that leaves sessions alone keeps them in order.
LEMMA QuietOk ==
  ASSUME TypeInv, SessionInv, sessions' = sessions, visit' = visit, now' = now,
         \A q \in Slots : Advanced(q)
  PROVE  SessionInv'
  <1>1. ASSUME NEW q \in Slots PROVE OneCopy(req[q])'
    <2>1. OneCopy(req[q]) /\ Advanced(q)
      BY DEF SessionInv
    <2>2. req'[q].dirty \subseteq DOMAIN req'[q].copies
      BY <2>1 DEF OneCopy, Advanced
    <2>3. req'[q].pc # "spread" => \A s, t \in DOMAIN req'[q].copies : s = t
      BY <2>1 DEF OneCopy, Advanced
    <2>4. req'[q].pc \in {"idle", "list"} => DOMAIN req'[q].copies = {}
      BY <2>1 DEF OneCopy, Advanced
    <2>5. req'[q].pc \in {"body", "open", "write"} /\ req'[q].kind = "reset" =>
             DOMAIN req'[q].copies = {}
      BY <2>1 DEF OneCopy, Advanced
    <2> QED
      BY <2>2, <2>3, <2>4, <2>5 DEF OneCopy
  <1>2. ASSUME NEW t \in SessionIds PROVE SessionOk(t)'
    <2>1. ASSUME NEW q \in Slots, t \in DOMAIN req[q].copies
          PROVE  \/ req'[q].pc = req[q].pc
                 \/ /\ req[q].pc \in {"body", "open", "write"}
                    /\ req'[q].pc \in {"open", "write", "save"}
      BY <2>1 DEF Advanced, SessionInv, OneCopy
    <2>2. Untouched(t)
      BY <2>1 DEF Untouched, Advanced
    <2> QED
      BY <2>2, UntouchedOk DEF SessionInv
  <1> QED
    BY <1>1, <1>2 DEF SessionInv

\* The steps on the users file are such steps.
LEMMA QuietSteps ==
  ASSUME TypeInv, SessionInv,
         \/ Start \/ Ensure \/ UNCHANGED vars
         \/ \E r \in Slots : OpenUsers(r) \/ WriteUsers(r)
         \/ \E r \in Slots, u \in Users, pw \in Passwords, must \in BOOLEAN :
               ReadUsers(r, u, pw, must)
  PROVE  SessionInv'
  <1>1. ASSUME req' = req PROVE \A q \in Slots : Advanced(q)
    BY <1>1 DEF Advanced
  <1>2. CASE Start \/ UNCHANGED vars
    <2>1. sessions' = sessions /\ visit' = visit /\ now' = now /\ req' = req
      BY <1>2 DEF Start, vars, history
    <2> QED
      BY <1>1, <2>1, QuietOk
  <1>3. CASE Ensure
    <2>1. sessions' = sessions /\ visit' = visit /\ now' = now /\ req' = req
      BY <1>3 DEF Ensure
    <2> QED
      BY <1>1, <2>1, QuietOk
  <1>4. ASSUME NEW r \in Slots, OpenUsers(r) PROVE SessionInv'
    <2>1. /\ sessions' = sessions /\ visit' = visit /\ now' = now
          /\ req[r].pc = "open" /\ req' = [req EXCEPT ![r].pc = "write"]
      BY <1>4 DEF OpenUsers
    <2>2. ASSUME NEW q \in Slots PROVE Advanced(q)
      BY <2>1 DEF Advanced, TypeInv, Request
    <2> QED
      BY <2>1, <2>2, QuietOk
  <1>5. ASSUME NEW r \in Slots, WriteUsers(r) PROVE SessionInv'
    <2>1. /\ sessions' = sessions /\ visit' = visit /\ now' = now
          /\ req[r].pc = "write"
          /\ req' = [q \in Slots |->
               IF q = r THEN [req[q] EXCEPT !.pc = IF @ = "write" /\ req[q].kind = "reset"
                                                   THEN "list" ELSE "save"]
               ELSE [req[q] EXCEPT !.stale = @ \/ req[q].pc \in {"open", "write"}]]
      BY <1>5 DEF WriteUsers, Writing
    <2>2. ASSUME NEW q \in Slots PROVE Advanced(q)
      <3>1. req[q] \in Request
        BY DEF TypeInv
      <3>2. CASE q = r
        <4>1. req'[q] = [req[q] EXCEPT !.pc = IF req[q].kind = "reset" THEN "list" ELSE "save"]
          BY <2>1, <3>2
        <4> QED
          BY <2>1, <3>1, <3>2, <4>1 DEF Advanced, Request
      <3>3. CASE q # r
        <4> DEFINE b == req[q].stale \/ req[q].pc \in {"open", "write"}
        <4>1. req'[q] = [req[q] EXCEPT !.stale = b]
          BY <2>1, <3>3
        <4> HIDE DEF b
        <4> QED
          BY <3>1, <4>1 DEF Advanced, Request
      <3> QED
        BY <3>2, <3>3
    <2> QED
      BY <2>1, <2>2, QuietOk
  <1>6. ASSUME NEW r \in Slots, NEW u \in Users, NEW pw \in Passwords, NEW must \in BOOLEAN,
               ReadUsers(r, u, pw, must)
        PROVE  SessionInv'
    <2> DEFINE store == [file.store EXCEPT ![u] = [pw |-> pw, must |-> must]]
               x == [req[r] EXCEPT !.pc = "open", !.stale = FALSE, !.target = u,
                                   !.store = store]
    <2>1. /\ sessions' = sessions /\ visit' = visit /\ now' = now
          /\ req[r].pc = "body" /\ req[r] \in Request
          /\ req'[r] = x /\ \A q \in Slots \ {r} : req'[q] = req[q]
      BY <1>6 DEF ReadUsers, history, TypeInv
    <2> HIDE DEF store
    <2>2. /\ x.copies = req[r].copies /\ x.dirty = req[r].dirty
          /\ x.kind = req[r].kind /\ x.pc = "open"
      BY <2>1 DEF Request
    <2> HIDE DEF x
    <2>3. ASSUME NEW q \in Slots PROVE Advanced(q)
      BY <2>1, <2>2 DEF Advanced
    <2> QED
      BY <2>1, <2>3, QuietOk
  <1> QED
    BY <1>2, <1>3, <1>4, <1>5, <1>6

\* Every step keeps the sessions in order.
LEMMA SessionStep == TypeInv /\ SessionInv /\ [Next]_vars => SessionInv'
  <1> SUFFICES ASSUME TypeInv, SessionInv, [Next]_vars PROVE SessionInv'
    OBVIOUS
  <1>1. CASE Crash \/ Tick
    BY <1>1, CrashOk, TickOk
  <1>2. CASE \E s \in SessionIds : Logout(s)
    BY <1>2, LogoutOk
  <1>3. ASSUME NEW r \in Slots, NEW s \in SessionIds,
               \E kind \in {"view", "change", "reset", "credentials"} : Arrive(r, kind, s)
        PROVE  SessionInv'
    BY <1>3, ArriveOk
  <1>4. ASSUME NEW r \in Slots, NEW s \in SessionIds,
               \E u \in Users \union {Nobody} : Login(r, u, s)
        PROVE  SessionInv'
    BY <1>4, LoginOk
  <1>5. ASSUME NEW r \in Slots, NEW s \in SessionIds,
               \/ Touch(r, s) \/ SaveSessionCredentials(r, s)
               \/ SaveOwnSession(r, s) \/ SpreadSession(r, s)
        PROVE  SessionInv'
    BY <1>5, Saves
  <1>6. ASSUME NEW r \in Slots, NEW s \in SessionIds, Drop(r, s) \/ Enter(r, s)
        PROVE  SessionInv'
    BY <1>6, DropOk, EnterOk
  <1>7. ASSUME NEW r \in Slots, Refuse(r) \/ ListSessions(r) PROVE SessionInv'
    BY <1>7, RefuseOk, ListOk
  <1>8. CASE Start \/ Ensure \/ UNCHANGED vars
    BY <1>8, QuietSteps
  <1>9. ASSUME NEW r \in Slots,
               \/ OpenUsers(r) \/ WriteUsers(r)
               \/ \E u \in Users, pw \in Passwords, must \in BOOLEAN : ReadUsers(r, u, pw, must)
        PROVE  SessionInv'
    BY <1>9, QuietSteps
  <1> QED
    BY <1>1, <1>2, <1>3, <1>4, <1>5, <1>6, <1>7, <1>8, <1>9 DEF Next

\* Initially there are no sessions.
LEMMA SessionInit == Init => SessionInv
  <1> SUFFICES ASSUME Init PROVE SessionInv
    OBVIOUS
  <1>1. /\ \A q \in Slots : req[q] = Idler
        /\ sessions = <<>> /\ visit = <<>>
    BY DEF Init
  <1>2. DOMAIN sessions = {} /\ DOMAIN visit = {}
    BY <1>1, PartialEmpty
  <1>3. DOMAIN Idler.copies = {} /\ OneCopy(Idler)
    BY IdlerIs DEF Idler, OneCopy
  <1> QED
    BY <1>1, <1>2, <1>3 DEF SessionInv, SessionOk, Entering, Copied, StoredOk, OutOk,
       CredsOk, LiveOk, Holds

(* A session that was logged out, or lost with the process, does not come  *)
(* back unless a request was using it then.                                *)
THEOREM OutStaysOut == Spec => []LoggedOutStaysOut
  <1>1. TypeInv /\ SessionInv => LoggedOutStaysOut
    <2> SUFFICES ASSUME TypeInv, SessionInv,
                        NEW s \in DOMAIN visit, visit[s].over, ~visit[s].held
                 PROVE  s \notin DOMAIN sessions
      BY DEF LoggedOutStaysOut
    <2>1. s \in SessionIds
      BY PartialIs DEF TypeInv
    <2> QED
      BY <2>1 DEF SessionInv, SessionOk, OutOk
  <1> QED
    BY <1>1, InitTypes, TypeStep, SessionInit, SessionStep, PTL DEF Spec

(* A session in use stays usable, unless requests that overlapped wrote    *)
(* back older copies of it or the process died before it was saved.        *)
THEOREM LiveStays == Spec => []LiveSessionStays
  <1>1. TypeInv /\ SessionInv => LiveSessionStays
    <2> SUFFICES ASSUME TypeInv, SessionInv, NEW s \in DOMAIN visit,
                        ~visit[s].over, ~visit[s].undone, ~Late(s),
                        \A q \in Slots : ~Holds(q, s)
                 PROVE  /\ s \in DOMAIN sessions
                        /\ sessions[s].value.seen = visit[s].last
                        /\ sessions[s].value.creds = visit[s].creds
      BY DEF LiveSessionStays, Late
    <2>1. s \in SessionIds /\ SessionOk(s)
      BY PartialIs DEF TypeInv, SessionInv
    <2>2. Fresh(s)
      BY <2>1 DEF SessionOk, LiveOk, Pending
    <2>3. Stored(s).creds <=> visit[s].creds
      BY <2>1, <2>2 DEF SessionOk, CredsOk, Fresh
    <2>4. Stored(s).creds \in BOOLEAN /\ visit[s].creds \in BOOLEAN
      BY <2>1, <2>2, SessionFields DEF Fresh
    <2>5. Stored(s).creds = visit[s].creds
      BY <2>3, <2>4
    <2> QED
      BY <2>2, <2>5 DEF Fresh, Stored
  <1> QED
    BY <1>1, InitTypes, TypeStep, SessionInit, SessionStep, PTL DEF Spec

(* A request is let in only within the idle time after the last one of its *)
(* session and within the session's lifetime.                              *)
THEOREM LetInInTime == Spec => VisitsInTime
  <1> DEFINE InTime(s) == visit'[s].last # visit[s].last =>
                            now <= visit[s].last + Idle /\ now <= visit[s].login + Absolute
  <1>1. ASSUME TypeInv, SessionInv, [Next]_vars,
               NEW s \in DOMAIN visit \intersect DOMAIN visit'
        PROVE  InTime(s)
    <2> DEFINE v == visit[s]
               w == visit'[s]
    <2>1. /\ s \in SessionIds /\ v \in Visit /\ v.last \in Nat /\ v.login \in Nat
          /\ Idle \in Nat /\ Absolute \in Nat /\ now \in Nat
      BY <1>1, PartialIs, SessionFields DEF TypeInv
    <2>2. CASE w.last = v.last
      BY <2>2
    <2>3. ASSUME NEW r \in Slots, NEW t \in SessionIds,
                 \E kind \in {"view", "change", "reset", "credentials"} : Arrive(r, kind, t)
          PROVE  InTime(s)
      <3> DEFINE old == sessions[t].value
                 expired == now > old.seen + Idle \/ now > old.created + Absolute
      <3>1. /\ t \in DOMAIN sessions
            /\ visit' = IF expired THEN visit ELSE [visit EXCEPT ![t].last = now]
        BY <2>3 DEF Arrive
      <3>2. CASE t = s /\ ~expired
        <4>1. StoredOk(s) /\ old = Stored(s)
          BY <1>1, <2>1, <3>2 DEF SessionInv, SessionOk, Stored
        <4>2. old.created = v.login /\ old.seen <= v.last /\ old.seen \in Nat
          BY <2>1, <3>1, <3>2, <4>1, SessionFields, <1>1 DEF StoredOk
        <4> HIDE DEF old, v
        <4> QED
          BY <2>1, <3>2, <4>2 DEF v
      <3>3. CASE t # s \/ expired
        <4>1. w = v
          BY <3>1, <3>3
        <4> QED
          BY <4>1
      <3> QED
        BY <3>2, <3>3
    <2>4. ASSUME NEW r \in Slots, NEW t \in SessionIds, Enter(r, t) PROVE InTime(s)
      <3>1. req[r].pc = "enter" /\ Holds(r, t)
        BY <2>4 DEF Enter
      <3>2. t \notin DOMAIN visit
        BY <1>1, <3>1 DEF SessionInv, SessionOk, Entering
      <3>3. w = v
        BY <2>4, <3>2 DEF Enter, With
      <3> QED
        BY <3>3
    <2>5. ASSUME NEW r \in Slots, NEW t \in SessionIds,
                 \/ Touch(r, t) \/ SaveSessionCredentials(r, t)
                 \/ SaveOwnSession(r, t) \/ SpreadSession(r, t) \/ Drop(r, t)
          PROVE  w.last = v.last
      <3>1. ASSUME NEW c, NEW next, SaveSession(r, t, c, next) PROVE w.last = v.last
        BY <2>1, <3>1 DEF SaveSession, Visit
      <3>2. CASE Drop(r, t)
        BY <2>1, <3>2 DEF Drop, Visit
      <3> QED
        BY <2>5, <3>1, <3>2 DEF Touch, SaveSessionCredentials, SaveOwnSession, SpreadSession
    <2>6. ASSUME Crash PROVE w.last = v.last
      BY <2>1, <2>6 DEF Crash, Visit
    <2>7. ASSUME NEW r \in Slots, NEW t \in SessionIds,
                 \/ OpenUsers(r) \/ WriteUsers(r) \/ Refuse(r) \/ ListSessions(r)
                 \/ \E u \in Users \union {Nobody} : Login(r, u, t)
                 \/ \E u \in Users, pw \in Passwords, must \in BOOLEAN :
                       ReadUsers(r, u, pw, must)
          PROVE  w = v
      BY <2>7 DEF OpenUsers, WriteUsers, Refuse, ListSessions, Login, ReadUsers, history
    <2>8. ASSUME Start \/ Ensure \/ Tick \/ UNCHANGED vars PROVE w = v
      BY <2>8 DEF Start, Ensure, Tick, vars, history
    <2>9. ASSUME NEW t \in SessionIds, Logout(t) PROVE w.last = v.last
      BY <2>1, <2>9 DEF Logout, Visit
    <2>10. ASSUME NEW r \in Slots,
                 \/ OpenUsers(r) \/ WriteUsers(r) \/ Refuse(r) \/ ListSessions(r)
                 \/ \E u \in Users, pw \in Passwords, must \in BOOLEAN :
                       ReadUsers(r, u, pw, must)
          PROVE  w = v
      BY <2>1, <2>7, <2>10
    <2> QED
      BY <1>1, <2>2, <2>3, <2>4, <2>5, <2>6, <2>7, <2>8, <2>9, <2>10 DEF Next
  <1>2. TypeInv /\ SessionInv /\ [Next]_vars =>
          [\A s \in DOMAIN visit \intersect DOMAIN visit' : InTime(s)]_vars
    BY <1>1
  <1> QED
    BY <1>2, InitTypes, TypeStep, SessionInit, SessionStep, PTL DEF Spec, VisitsInTime

-----------------------------------------------------------------------------
(* The users file.                                                         *)
Quiet == \A r \in Slots : req[r].pc = "idle"
Busy(q) == req[q].pc \in {"open", "write"}

\* All entries but u's hold what was last set, or are known to be undone.
Kept(store, u) == \A v \in DOMAIN store \ {u} : v \in lost \/ store[v].pw = known[v]

\* While it starts, the service holds what it read but for the administrator.
StartingInv ==
    service.mode = "starting" =>
        /\ Kept(service.store, Admin)
        /\ service.todo \in {<<"write", "note">>, <<"write">>} =>
             file = Truncated /\ torn = FALSE
        /\ service.todo = <<"note">> => Readable /\ torn = FALSE

\* The file and all the requests to be written hold the last passwords,
\* and without a torn write there is one writer or a whole file.
FileInv ==
    /\ \A u \in DOMAIN file.store : u \in lost \/ file.store[u].pw = known[u]
    /\ service.mode # "up" => Quiet
    /\ \A r \in Slots : Busy(r) /\ ~req[r].stale => Kept(req[r].store, req[r].target)
    /\ torn = FALSE =>
         /\ \A q, r \in Slots : Writing(q) /\ Writing(r) => q = r
         /\ (\E r \in Slots : Writing(r)) => file = Truncated
         /\ service.mode = "up" => Readable \/ \E r \in Slots : Writing(r)
    /\ StartingInv

\* A text written over nothing is whole.
LEMMA WrittenIs ==
  ASSUME TypeInv, NEW store \in Stores, DOMAIN store # {}
  PROVE  /\ Written(store).store = store /\ Written(store).exists = TRUE
         /\ file = Truncated => /\ Written(store).reach = Length(store)
                                /\ Written(store).reach > 0
  <1>1. store # <<>>
    BY PartialEmpty
  <1>2. Length(store) \in Nat /\ Length(store) > 0
    BY <1>1, LengthIs
  <1>3. Truncated.reach = 0 /\ 0 - 1 <= Length(store)
    BY <1>2 DEF Truncated
  <1>4. Over(0, Length(store)) = Length(store)
    BY <1>3 DEF Over
  <1> QED
    BY <1>2, <1>3, <1>4 DEF Written

\* Steps of requests about sessions, of time and of nothing.
Beside(q) ==
    Busy(q) \/ Busy(q)' =>
        /\ req'[q].pc = req[q].pc /\ req'[q].store = req[q].store
        /\ req'[q].target = req[q].target /\ req'[q].stale = req[q].stale

Besides ==
    /\ file' = file /\ bootFile' = bootFile /\ service' = service
    /\ known' = known /\ lost' = lost /\ torn' = torn
    /\ counts'.starts = counts.starts
    /\ \A q \in Slots : Beside(q)
    /\ service.mode # "up" => req' = req

\* To outdate copies of a session leaves the writes of the users file alone.
LEMMA OthersBeside ==
  ASSUME TypeInv, NEW r \in Slots, NEW s \in SessionIds, NEW next \in Request,
         req' = [Outdate(r, s) EXCEPT ![r] = next], ~Busy(r),
         next.pc \notin {"open", "write"}
  PROVE  \A q \in Slots : Beside(q)
  <1>1. Outdate(r, s) \in [Slots -> Request]
    BY DirtyIs DEF Outdate, TypeInv
  <1>2. req'[r] = next /\ \A q \in Slots \ {r} : req'[q] = Outdate(r, s)[q]
    BY <1>1
  <1>3. ASSUME NEW q \in Slots \ {r} PROVE Beside(q)
    <2>1. req[q] \in Request
      BY DEF TypeInv
    <2>2. CASE Holds(q, s)
      <3> DEFINE d == [req[q] EXCEPT !.dirty = @ \union {s}]
      <3>1. req'[q] = d
        BY <1>2, <1>3, <2>2 DEF Outdate
      <3>2. /\ d.pc = req[q].pc /\ d.store = req[q].store
            /\ d.target = req[q].target /\ d.stale = req[q].stale
        BY <2>1, DirtyIs
      <3> HIDE DEF d
      <3> QED
        BY <3>1, <3>2 DEF Beside
    <2>3. CASE ~Holds(q, s)
      BY <1>2, <1>3, <2>3 DEF Outdate, Beside
    <2> QED
      BY <2>2, <2>3
  <1>4. Beside(r)
    BY <1>2 DEF Beside, Busy
  <1> QED
    BY <1>3, <1>4

\* The steps that have to do with sessions only are steps beside the file.
LEMMA BesidesIs ==
  ASSUME TypeInv, FileInv,
         \/ Tick \/ UNCHANGED vars
         \/ \E s \in SessionIds : Logout(s)
         \/ \E r \in Slots, s \in SessionIds :
              \/ \E kind \in {"view", "change", "reset", "credentials"} : Arrive(r, kind, s)
              \/ \E u \in Users \union {Nobody} : Login(r, u, s)
              \/ Touch(r, s) \/ Drop(r, s) \/ Enter(r, s)
              \/ SaveSessionCredentials(r, s)
              \/ SaveOwnSession(r, s) \/ SpreadSession(r, s)
         \/ \E r \in Slots : Refuse(r) \/ ListSessions(r)
  PROVE  Besides
  <1> DEFINE Same == /\ file' = file /\ bootFile' = bootFile /\ service' = service
                     /\ known' = known /\ lost' = lost /\ torn' = torn
                     /\ counts'.starts = counts.starts
  <1>1. ASSUME NEW r \in Slots, NEW x, req' = [req EXCEPT ![r] = x], ~Busy(r),
               x.pc \notin {"open", "write"}
        PROVE  \A q \in Slots : Beside(q)
    <2>1. req'[r] = x /\ \A q \in Slots \ {r} : req'[q] = req[q]
      BY <1>1 DEF TypeInv
    <2>2. Beside(r)
      BY <1>1, <2>1 DEF Beside, Busy
    <2>3. \A q \in Slots \ {r} : Beside(q)
      BY <2>1 DEF Beside
    <2> QED
      BY <2>2, <2>3
  <1>2. ASSUME req' = req PROVE \A q \in Slots : Beside(q)
    BY <1>2 DEF Beside
  <1>3. \A r \in Slots : req[r].pc # "idle" => service.mode = "up"
    BY DEF FileInv, Quiet
  <1>4. Idler.pc = "idle"
    BY DEF Idler
  <1>5. CASE Tick \/ UNCHANGED vars
    <2>1. Same /\ req' = req
      BY <1>5 DEF Tick, vars, disk, history
    <2> QED
      BY <1>2, <2>1 DEF Besides
  <1>6. ASSUME NEW s \in SessionIds, Logout(s) PROVE Besides
    <2>1. Same /\ service.mode = "up"
      BY <1>6 DEF Logout, disk, TypeInv
    <2>2. ASSUME NEW q \in Slots PROVE Beside(q)
      <3>1. req[q] \in Request
        BY DEF TypeInv
      <3>2. req' = [p \in Slots |-> IF Holds(p, s)
                      THEN [req[p] EXCEPT !.dirty = @ \union {s}] ELSE req[p]]
        BY <1>6 DEF Logout
      <3>3. CASE Holds(q, s)
        <4> DEFINE d == [req[q] EXCEPT !.dirty = @ \union {s}]
        <4>1. req'[q] = d
          BY <3>2, <3>3
        <4>2. /\ d.pc = req[q].pc /\ d.store = req[q].store
              /\ d.target = req[q].target /\ d.stale = req[q].stale
          BY <3>1, DirtyIs
        <4> HIDE DEF d
        <4> QED
          BY <4>1, <4>2 DEF Beside
      <3>4. CASE ~Holds(q, s)
        BY <3>2, <3>4 DEF Beside
      <3> QED
        BY <3>3, <3>4
    <2> QED
      BY <2>1, <2>2 DEF Besides
  <1>7. ASSUME NEW r \in Slots, NEW s \in SessionIds,
               NEW kind \in {"view", "change", "reset", "credentials"}, Arrive(r, kind, s)
        PROVE  Besides
    <2> DEFINE old == sessions[s].value
               expired == now > old.seen + Idle \/ now > old.created + Absolute
               c == Only(s, IF expired THEN old ELSE [old EXCEPT !.seen = now])
               x == [Idler EXCEPT !.pc = IF expired THEN "drop" ELSE "touch",
                                  !.kind = kind, !.copies = c]
    <2>1. /\ Same /\ service.mode = "up" /\ req[r].pc = "idle"
          /\ req' = [req EXCEPT ![r] = x]
      BY <1>7 DEF Arrive, disk, TypeInv
    <2> HIDE DEF c, expired
    <2>2. x.pc \in {"drop", "touch"}
      BY DEF Idler
    <2> HIDE DEF x
    <2>3. \A q \in Slots : Beside(q)
      BY <1>1, <2>1, <2>2 DEF Busy
    <2> QED
      BY <2>1, <2>3 DEF Besides
  <1>8. ASSUME NEW r \in Slots, NEW s \in SessionIds, NEW u \in Users \union {Nobody},
               Login(r, u, s)
        PROVE  Besides
    <2> DEFINE c == Only(s, [user |-> u, created |-> now, seen |-> now,
                             must |-> u # Nobody /\ file.store[u].must,
                             creds |-> FALSE])
               x == [Idler EXCEPT !.pc = "enter", !.kind = "login", !.copies = c]
    <2>1. /\ Same /\ service.mode = "up" /\ req[r].pc = "idle"
          /\ req' = [req EXCEPT ![r] = x]
      BY <1>8 DEF Login, disk, history, TypeInv
    <2> HIDE DEF c
    <2>2. x.pc = "enter"
      BY DEF Idler
    <2> HIDE DEF x
    <2>3. \A q \in Slots : Beside(q)
      BY <1>1, <2>1, <2>2 DEF Busy
    <2> QED
      BY <2>1, <2>3 DEF Besides
  <1>9. ASSUME NEW r \in Slots, NEW s \in SessionIds,
               \/ Touch(r, s) \/ Drop(r, s) \/ SaveSessionCredentials(r, s)
               \/ SaveOwnSession(r, s) \/ SpreadSession(r, s)
        PROVE  Besides
    <2>1. /\ Same /\ req[r].pc \in {"touch", "drop", "body", "save", "spread"}
          /\ req[r] \in Request
      BY <1>9 DEF Touch, Drop, SaveSessionCredentials, SaveOwnSession, SpreadSession,
         disk, TypeInv
    <2>2. ~Busy(r) /\ service.mode = "up"
      BY <1>3, <2>1 DEF Busy
    <2>3. \E next : /\ req' = [Outdate(r, s) EXCEPT ![r] = next]
                    /\ next \in Request /\ next.pc \in {"idle", "body", "spread"}
      <3>1. CASE Touch(r, s)
        <4> DEFINE c == IF req[r].kind = "reset" THEN <<>> ELSE req[r].copies
                   x == [req[r] EXCEPT !.pc = "body", !.dirty = {}, !.copies = c]
                   next == IF req[r].kind = "view" THEN Idler ELSE x
        <4>1. req' = [Outdate(r, s) EXCEPT ![r] = next]
          BY <3>1 DEF Touch, SaveSession
        <4>2. c \in Partial(SessionIds, Session)
          BY <2>1, PartialEmpty, RequestFields
        <4> HIDE DEF c
        <4>3. x \in Request /\ x.pc = "body"
          BY <2>1, <4>2 DEF Request
        <4> HIDE DEF x
        <4>4. next \in Request /\ next.pc \in {"idle", "body"}
          BY <1>4, <4>3, IdlerIs
        <4> HIDE DEF next
        <4> QED
          BY <4>1, <4>4
      <3>2. CASE Drop(r, s) \/ SaveSessionCredentials(r, s) \/ SaveOwnSession(r, s)
        <4>1. req' = [Outdate(r, s) EXCEPT ![r] = Idler]
          BY <3>2 DEF Drop, SaveSessionCredentials, SaveOwnSession, SaveSession
        <4> QED
          BY <1>4, <4>1, IdlerIs
      <3>3. CASE SpreadSession(r, s)
        <4> DEFINE left == Restrict(req[r].copies, DOMAIN req[r].copies \ {s})
                   x == [req[r] EXCEPT !.copies = left, !.dirty = @ \ {s}]
                   next == IF left = <<>> THEN Idler ELSE x
        <4>1. req' = [Outdate(r, s) EXCEPT ![r] = next] /\ req[r].pc = "spread"
          BY <3>3 DEF SpreadSession, SaveSession
        <4>2. left \in Partial(SessionIds, Session)
          BY <2>1, PartialRestrict, RequestFields
        <4> HIDE DEF left
        <4>3. x \in Request /\ x.pc = "spread"
          BY <2>1, <4>1, <4>2 DEF Request
        <4> HIDE DEF x
        <4>4. next \in Request /\ next.pc \in {"idle", "spread"}
          BY <1>4, <4>3, IdlerIs
        <4> HIDE DEF next
        <4> QED
          BY <4>1, <4>4
      <3> QED
        BY <1>9, <3>1, <3>2, <3>3
    <2>4. \A q \in Slots : Beside(q)
      BY <2>2, <2>3, OthersBeside
    <2> QED
      BY <2>1, <2>2, <2>4 DEF Besides
  <1>10. ASSUME NEW r \in Slots, NEW s \in SessionIds, Enter(r, s) PROVE Besides
    <2>1. /\ Same /\ req[r].pc = "enter" /\ req' = [req EXCEPT ![r] = Idler]
      BY <1>10 DEF Enter, disk
    <2>2. \A q \in Slots : Beside(q)
      BY <1>1, <1>4, <2>1 DEF Busy
    <2> QED
      BY <1>3, <2>1, <2>2 DEF Besides
  <1>11. ASSUME NEW r \in Slots, Refuse(r) PROVE Besides
    <2>1. /\ Same /\ req[r].pc = "body" /\ req' = [req EXCEPT ![r] = Idler]
      BY <1>11 DEF Refuse, disk, history
    <2>2. \A q \in Slots : Beside(q)
      BY <1>1, <1>4, <2>1 DEF Busy
    <2> QED
      BY <1>3, <2>1, <2>2 DEF Besides
  <1>12. ASSUME NEW r \in Slots, ListSessions(r) PROVE Besides
    <2> DEFINE user == req[r].target
               mine == {s \in DOMAIN sessions : sessions[s].value.user = user}
               got == [s \in mine |-> [sessions[s].value EXCEPT
                                         !.must = req[r].store[user].must]]
               x == [req[r] EXCEPT !.pc = "spread", !.copies = got]
               y == IF mine = {} THEN Idler ELSE x
    <2>1. /\ Same /\ req[r].pc = "list" /\ req[r] \in Request
          /\ req' = [req EXCEPT ![r] = y]
      BY <1>12 DEF ListSessions, disk, history, TypeInv
    <2> HIDE DEF got, mine
    <2>2. x.pc = "spread"
      BY <2>1 DEF Request
    <2> HIDE DEF x
    <2>3. y.pc \in {"idle", "spread"}
      BY <1>4, <2>2
    <2> HIDE DEF y
    <2>4. \A q \in Slots : Beside(q)
      BY <1>1, <2>1, <2>3 DEF Busy
    <2> QED
      BY <1>3, <2>1, <2>4 DEF Besides
  <1> QED
    BY <1>5, <1>6, <1>7, <1>8, <1>9, <1>10, <1>11, <1>12

\* What ensureUsersFile has left to do before and after each of its steps.
LEMMA TodoSteps ==
  ASSUME NEW todo \in Todos, todo # <<>>
  PROVE  /\ Head(todo) = "open" =>
              \/ todo = <<"open", "write", "note">> /\ Tail(todo) = <<"write", "note">>
              \/ todo = <<"open", "write">> /\ Tail(todo) = <<"write">>
         /\ Head(todo) = "write" =>
              \/ todo = <<"write", "note">> /\ Tail(todo) = <<"note">>
              \/ todo = <<"write">> /\ Tail(todo) = <<>>
         /\ Head(todo) = "note" =>
              \/ todo = <<"note">> /\ Tail(todo) = <<>>
              \/ todo = <<"note", "open", "write">> /\ Tail(todo) = <<"open", "write">>
  <1>1. CASE todo = <<"open", "write", "note">>
    <2>1. Head(todo) = "open" /\ Tail(todo) = <<"write", "note">>
      BY <1>1, TodoTails
    <2> QED
      BY <1>1, <2>1
  <1>2. CASE todo = <<"write", "note">>
    <2>1. Head(todo) = "write" /\ Tail(todo) = <<"note">>
      BY <1>2, TodoTails
    <2> QED
      BY <1>2, <2>1
  <1>3. CASE todo = <<"note">>
    <2>1. Head(todo) = "note" /\ Tail(todo) = <<>>
      BY <1>3, TodoTails
    <2> QED
      BY <1>3, <2>1
  <1>4. CASE todo = <<"note", "open", "write">>
    <2>1. Head(todo) = "note" /\ Tail(todo) = <<"open", "write">>
      BY <1>4, TodoTails
    <2> QED
      BY <1>4, <2>1
  <1>5. CASE todo = <<"open", "write">>
    <2>1. Head(todo) = "open" /\ Tail(todo) = <<"write">>
      BY <1>5, TodoTails
    <2> QED
      BY <1>5, <2>1
  <1>6. CASE todo = <<"write">>
    <2>1. Head(todo) = "write" /\ Tail(todo) = <<>>
      BY <1>6, TodoTails
    <2> QED
      BY <1>6, <2>1
  <1> QED
    BY <1>1, <1>2, <1>3, <1>4, <1>5, <1>6 DEF Todos

\* The users file and what is about to be written, when nobody touches it.
LEMMA BesidesKeep ==
  ASSUME TypeInv, FileInv, Besides
  PROVE  FileInv'
  <1>1. \A u \in DOMAIN file'.store : u \in lost' \/ file'.store[u].pw = known'[u]
    BY DEF FileInv, Besides
  <1>2. service'.mode # "up" => Quiet'
    BY DEF FileInv, Besides, Quiet
  <1>3. ASSUME NEW r \in Slots, Busy(r)', ~req'[r].stale
        PROVE  Kept(req[r].store, req[r].target)'
    <2>1. Beside(r)
      BY DEF Besides
    <2>2. /\ Busy(r) /\ req'[r].store = req[r].store /\ req'[r].target = req[r].target
          /\ req'[r].stale = req[r].stale
      BY <1>3, <2>1 DEF Beside, Busy
    <2> QED
      BY <1>3, <2>2 DEF FileInv, Kept, Besides
  <1>4. \A q \in Slots : Writing(q)' <=> Writing(q)
    BY DEF Besides, Beside, Busy, Writing
  <1>5. torn' = FALSE =>
          /\ \A q, r \in Slots : Writing(q)' /\ Writing(r)' => q = r
          /\ (\E r \in Slots : Writing(r)') => file' = Truncated
          /\ service'.mode = "up" => Readable' \/ \E r \in Slots : Writing(r)'
    BY <1>4 DEF FileInv, Besides, Readable
  <1>6. StartingInv'
    BY DEF FileInv, StartingInv, Besides, Kept, Readable
  <1> QED
    BY <1>1, <1>2, <1>3, <1>5, <1>6 DEF FileInv

\* The service starts and reads the users file.
LEMMA StartKeeps ==
  ASSUME TypeInv, FileInv, Start
  PROVE  FileInv'
  <1>1. /\ service.mode = "down" /\ Quiet /\ file' = file /\ req' = req
        /\ known' = known /\ lost' = lost /\ torn' = torn
        /\ file.exists => Readable
    BY DEF Start, FileInv, disk, history
  <1>2. /\ service \in Service /\ file \in UsersFile /\ service'.mode \in {"starting", "up"}
    BY DEF Start, TypeInv, Service
  <1>3. \A q \in Slots : ~Writing(q)
    BY <1>1 DEF Quiet, Writing
  <1>4. service'.mode = "up" => file.exists
    BY <1>2 DEF Start, Service
  <1>5. StartingInv'
    <2> DEFINE boot == [pw |-> Bootstrap(counts.starts + 1), must |-> TRUE]
    <2>1. CASE ~file.exists
      <3>1. /\ service'.todo = <<"open", "write", "note">>
            /\ service'.store = Only(Admin, boot)
        BY <1>2, <2>1 DEF Start, Service
      <3> HIDE DEF boot
      <3>2. DOMAIN service'.store = {Admin}
        BY <3>1, OnlyIs
      <3> QED
        BY <3>1, <3>2 DEF StartingInv, Kept
    <2>2. CASE file.exists /\ Admin \notin DOMAIN file.store
      <3>1. /\ service'.todo = <<"note", "open", "write">>
            /\ service'.store = With(file.store, Admin, boot)
        BY <1>2, <2>2 DEF Start, Service
      <3> HIDE DEF boot
      <3>2. \A v \in DOMAIN service'.store \ {Admin} :
              v \in DOMAIN file.store /\ service'.store[v] = file.store[v]
        BY <3>1 DEF With
      <3>3. Kept(service.store, Admin)'
        BY <1>1, <3>2 DEF Kept, FileInv
      <3> QED
        BY <3>1, <3>3 DEF StartingInv
    <2>3. CASE file.exists /\ Admin \in DOMAIN file.store
      <3>1. service'.mode = "up"
        BY <1>2, <2>3 DEF Start, Service
      <3> QED
        BY <3>1 DEF StartingInv
    <2> QED
      BY <2>1, <2>2, <2>3
  <1>6. \A u \in DOMAIN file'.store : u \in lost' \/ file'.store[u].pw = known'[u]
    BY <1>1 DEF FileInv
  <1>7. Quiet' /\ (\A r \in Slots : ~Busy(r)') /\ \A r \in Slots : ~Writing(r)'
    BY <1>1 DEF Quiet, Busy, Writing
  <1>8. service'.mode = "up" => Readable'
    BY <1>1, <1>4 DEF Readable
  <1> QED
    BY <1>5, <1>6, <1>7, <1>8 DEF FileInv

\* A step of ensureUsersFile.
LEMMA EnsureKeeps ==
  ASSUME TypeInv, FileInv, Ensure
  PROVE  FileInv'
  <1> DEFINE store == service.store
             rest == Tail(service.todo)
  <1>1. /\ service.mode = "starting" /\ Quiet /\ req' = req /\ lost' = lost
        /\ service.todo \in Todos /\ service.todo # <<>>
        /\ store \in Stores /\ Admin \in DOMAIN store /\ Kept(store, Admin)
    BY DEF Ensure, FileInv, StartingInv, TypeInv, Service
  <1>2. /\ service'.todo = rest /\ service'.store = store
        /\ service'.mode = IF rest = <<>> THEN "up" ELSE "starting"
    BY <1>1 DEF Ensure, TypeInv, Service
  <1>3. Quiet' /\ (\A r \in Slots : ~Busy(r)') /\ \A r \in Slots : ~Writing(r)'
    BY <1>1 DEF Quiet, Busy, Writing
  <1>4. CASE Head(service.todo) = "open"
    <2>1. file' = Truncated /\ torn' = FALSE /\ known' = known
      BY <1>4 DEF Ensure
    <2>2. rest \in {<<"write", "note">>, <<"write">>}
      BY <1>1, <1>4, TodoSteps
    <2>3. DOMAIN file'.store = {}
      BY <2>1, PartialEmpty DEF Truncated
    <2>4. Kept(service.store, Admin)'
      BY <1>1, <1>2, <2>1 DEF Kept
    <2>5. StartingInv'
      BY <1>2, <2>1, <2>2, <2>4 DEF StartingInv
    <2>6. service'.mode = "starting"
      <3>1. <<"write", "note">> # <<>> /\ <<"write">> # <<>>
        OBVIOUS
      <3> QED
        BY <1>2, <2>2, <3>1
    <2> QED
      BY <1>3, <2>3, <2>5, <2>6 DEF FileInv
  <1>5. CASE Head(service.todo) = "write"
    <2>1. /\ file' = Written(store) /\ torn' = torn
          /\ known' = [known EXCEPT ![Admin] = store[Admin].pw]
      BY <1>5 DEF Ensure
    <2>2. service.todo \in {<<"write", "note">>, <<"write">>} /\ rest \in {<<"note">>, <<>>}
      BY <1>1, <1>5, TodoSteps
    <2>3. file = Truncated /\ torn = FALSE
      BY <1>1, <2>2 DEF FileInv, StartingInv
    <2>4. /\ file'.store = store /\ file'.exists = TRUE
          /\ file'.reach = Length(store) /\ file'.reach > 0
      BY <1>1, <2>1, <2>3, WrittenIs
    <2>5. Readable'
      BY <2>4 DEF Readable
    <2>6. known'[Admin] = store[Admin].pw /\ \A v \in Users \ {Admin} : known'[v] = known[v]
      BY <2>1 DEF TypeInv, Users
    <2>7. \A u \in DOMAIN store : u \in lost' \/ store[u].pw = known'[u]
      BY <1>1, <2>6, StoreIs DEF Kept
    <2>8. StartingInv'
      BY <1>2, <2>1, <2>2, <2>3, <2>5, <2>7 DEF StartingInv, Kept
    <2> QED
      BY <1>3, <2>4, <2>5, <2>7, <2>8 DEF FileInv
  <1>6. CASE Head(service.todo) = "note"
    <2>1. file' = file /\ known' = known /\ torn' = torn
      BY <1>6 DEF Ensure
    <2>2. \/ service.todo = <<"note">> /\ rest = <<>>
          \/ service.todo = <<"note", "open", "write">> /\ rest = <<"open", "write">>
      BY <1>1, <1>6, TodoSteps
    <2>3. Kept(service.store, Admin)'
      BY <1>1, <1>2, <2>1 DEF Kept
    <2>4. rest # <<>> => service'.todo = <<"open", "write">>
      BY <1>2, <2>2
    <2>5. StartingInv'
      BY <1>2, <2>3, <2>4 DEF StartingInv
    <2>6. service'.mode = "up" => Readable'
      <3>1. service'.mode = "up" => service.todo = <<"note">>
        BY <1>2, <2>2
      <3> QED
        BY <1>1, <2>1, <3>1 DEF FileInv, StartingInv, Readable
    <2>7. \A u \in DOMAIN file'.store : u \in lost' \/ file'.store[u].pw = known'[u]
      BY <1>1, <2>1 DEF FileInv
    <2> QED
      BY <1>3, <2>5, <2>6, <2>7 DEF FileInv
  <1> QED
    BY <1>4, <1>5, <1>6 DEF Ensure

\* A crash cuts the write under way, if any.
LEMMA CrashKeeps ==
  ASSUME TypeInv, FileInv, Crash
  PROVE  FileInv'
  <1>1. /\ file' = file /\ known' = known /\ lost \subseteq lost'
        /\ req' = [r \in Slots |-> Idler]
    BY DEF Crash, disk
  <1>2. service'.mode = "down"
    BY DEF Crash, TypeInv, Service
  <1>3. Quiet' /\ (\A r \in Slots : ~Busy(r)') /\ \A r \in Slots : ~Writing(r)'
    BY <1>1 DEF Quiet, Busy, Writing, Idler
  <1>4. \A u \in DOMAIN file'.store : u \in lost' \/ file'.store[u].pw = known'[u]
    BY <1>1 DEF FileInv
  <1> QED
    BY <1>2, <1>3, <1>4 DEF FileInv, StartingInv

\* A request reads the file and changes an entry of what it read.
LEMMA ReadKeeps ==
  ASSUME TypeInv, FileInv, NEW r \in Slots, NEW u \in Users, NEW pw \in Passwords,
         NEW must \in BOOLEAN, ReadUsers(r, u, pw, must)
  PROVE  FileInv'
  <1> DEFINE a == [pw |-> pw, must |-> must]
             store == [file.store EXCEPT ![u] = a]
             x == [req[r] EXCEPT !.pc = "open", !.stale = FALSE, !.target = u,
                                 !.store = store]
  <1>1. /\ req[r].pc = "body" /\ req[r] \in Request /\ u \in DOMAIN file.store
        /\ req'[r] = x /\ \A q \in Slots \ {r} : req'[q] = req[q]
        /\ file' = file /\ service' = service /\ known' = known /\ lost' = lost
        /\ torn' = torn
    BY DEF ReadUsers, disk, history, TypeInv
  <1>2. DOMAIN store = DOMAIN file.store /\ \A v \in DOMAIN store \ {u} : store[v] = file.store[v]
    <2> HIDE DEF a
    <2> QED
      OBVIOUS
  <1> HIDE DEF store
  <1>3. x.pc = "open" /\ x.store = store /\ x.target = u
    BY <1>1 DEF Request
  <1> HIDE DEF x
  <1>4. service.mode = "up"
    BY <1>1 DEF FileInv, Quiet
  <1>5. \A q \in Slots : Writing(q)' <=> Writing(q)
    BY <1>1, <1>3 DEF Writing
  <1>6. Kept(req[r].store, req[r].target)'
    BY <1>1, <1>2, <1>3 DEF Kept, FileInv
  <1>7. ASSUME NEW q \in Slots, Busy(q)', ~req'[q].stale
        PROVE  Kept(req[q].store, req[q].target)'
    <2>1. CASE q = r
      BY <1>6, <2>1
    <2>2. CASE q # r
      BY <1>1, <1>7, <2>2 DEF FileInv, Kept, Busy
    <2> QED
      BY <2>1, <2>2
  <1>8. \A v \in DOMAIN file'.store : v \in lost' \/ file'.store[v].pw = known'[v]
    BY <1>1 DEF FileInv
  <1>9. torn' = FALSE =>
          /\ \A q, p \in Slots : Writing(q)' /\ Writing(p)' => q = p
          /\ (\E q \in Slots : Writing(q)') => file' = Truncated
          /\ service'.mode = "up" => Readable' \/ \E q \in Slots : Writing(q)'
    BY <1>1, <1>5 DEF FileInv, Readable
  <1> QED
    BY <1>1, <1>4, <1>7, <1>8, <1>9 DEF FileInv, StartingInv

\* A request opens the file for writing: it is empty then.
LEMMA OpenKeeps ==
  ASSUME TypeInv, FileInv, NEW r \in Slots, OpenUsers(r)
  PROVE  FileInv'
  <1>1. /\ req[r].pc = "open" /\ file' = Truncated /\ service' = service
        /\ known' = known /\ lost' = lost
        /\ torn' = (\E q \in Slots : Writing(q))
        /\ req' = [req EXCEPT ![r].pc = "write"]
    BY DEF OpenUsers
  <1>2. /\ \A q \in Slots \ {r} : req'[q] = req[q]
        /\ req'[r].pc = "write" /\ req'[r].store = req[r].store
        /\ req'[r].target = req[r].target /\ req'[r].stale = req[r].stale
    BY <1>1 DEF TypeInv, Request
  <1>3. service.mode = "up"
    BY <1>1 DEF FileInv, Quiet
  <1>4. DOMAIN file'.store = {}
    BY <1>1, PartialEmpty DEF Truncated
  <1>5. ASSUME NEW q \in Slots, Busy(q)', ~req'[q].stale
        PROVE  Kept(req[q].store, req[q].target)'
    <2>1. Busy(q) /\ ~req[q].stale
      BY <1>1, <1>2, <1>5 DEF Busy
    <2> QED
      BY <1>1, <1>2, <2>1 DEF FileInv, Kept
  <1>6. torn' = FALSE => \A q \in Slots : ~Writing(q)
    BY <1>1
  <1>7. torn' = FALSE =>
          /\ \A q, p \in Slots : Writing(q)' /\ Writing(p)' => q = p
          /\ (\E q \in Slots : Writing(q)') => file' = Truncated
          /\ service'.mode = "up" => Readable' \/ \E q \in Slots : Writing(q)'
    BY <1>1, <1>2, <1>6 DEF Writing
  <1> QED
    BY <1>1, <1>3, <1>4, <1>5, <1>7 DEF FileInv, StartingInv

\* A request writes what it read and changed.
LEMMA WriteKeeps ==
  ASSUME TypeInv, FileInv, NEW r \in Slots, WriteUsers(r)
  PROVE  FileInv'
  <1> DEFINE u == req[r].target
             store == req[r].store
  <1>1. /\ req[r].pc = "write" /\ file' = Written(store) /\ service' = service
        /\ known' = [known EXCEPT ![u] = store[u].pw] /\ torn' = torn
        /\ lost' = (lost \ {u}) \union
                     (IF req[r].stale
                      THEN {v \in DOMAIN store \ {u} : store[v].pw # known[v]}
                      ELSE {})
        /\ req' = [q \in Slots |->
                     IF q = r THEN [req[q] EXCEPT !.pc = IF @ = "write" /\ req[q].kind = "reset"
                                                         THEN "list" ELSE "save"]
                     ELSE [req[q] EXCEPT !.stale = @ \/ req[q].pc \in {"open", "write"}]]
    BY DEF WriteUsers, Writing
  <1>2. req[r] \in Request /\ store \in Stores /\ u \in DOMAIN store
    BY <1>1, RequestFields DEF TypeInv
  <1>3. service.mode = "up"
    BY <1>1 DEF FileInv, Quiet
  <1>4. req'[r].pc \in {"list", "save"}
    BY <1>1, <1>2 DEF Request
  <1>5. ASSUME NEW q \in Slots \ {r}
        PROVE  /\ req'[q].pc = req[q].pc /\ req'[q].store = req[q].store
               /\ req'[q].target = req[q].target
               /\ Busy(q) => req'[q].stale
    <2> DEFINE b == req[q].stale \/ req[q].pc \in {"open", "write"}
    <2>1. req'[q] = [req[q] EXCEPT !.stale = b] /\ req[q] \in Request
      BY <1>1, <1>5 DEF TypeInv
    <2>2. Busy(q) => b
      BY DEF Busy
    <2> HIDE DEF b
    <2> QED
      BY <2>1, <2>2 DEF Request
  <1> HIDE DEF u, store
  <1>6. file'.store = store
    BY <1>1, <1>2, WrittenIs
  <1>7. ASSUME NEW v \in DOMAIN store PROVE v \in lost' \/ store[v].pw = known'[v]
    <2>1. v \in Users /\ u \in Users
      BY <1>2, StoreIs
    <2>2. CASE v = u
      BY <1>1, <2>1, <2>2 DEF TypeInv
    <2>3. CASE v # u
      <3>1. known'[v] = known[v]
        BY <1>1, <2>1, <2>3 DEF TypeInv
      <3>2. CASE req[r].stale
        BY <1>1, <2>3, <3>1, <3>2
      <3>3. CASE ~req[r].stale
        <4>1. v \in lost \/ store[v].pw = known[v]
          BY <1>1, <2>3, <3>3 DEF FileInv, Busy, Kept, u, store
        <4> QED
          BY <1>1, <2>3, <3>1, <4>1
      <3> QED
        BY <3>2, <3>3
    <2> QED
      BY <2>2, <2>3
  <1>8. ASSUME NEW q \in Slots, Busy(q)' PROVE req'[q].stale
    <2>1. q # r
      BY <1>4, <1>8 DEF Busy
    <2> QED
      BY <1>5, <1>8, <2>1 DEF Busy
  <1>9. torn' = FALSE =>
          /\ \A q, p \in Slots : Writing(q)' /\ Writing(p)' => q = p
          /\ (\E q \in Slots : Writing(q)') => file' = Truncated
          /\ service'.mode = "up" => Readable' \/ \E q \in Slots : Writing(q)'
    <2> SUFFICES ASSUME torn = FALSE
                 PROVE  (\A q \in Slots : ~Writing(q)') /\ Readable'
      BY <1>1
    <2>1. \A q \in Slots \ {r} : ~Writing(q)
      BY <1>1 DEF FileInv, Writing
    <2>2. \A q \in Slots : ~Writing(q)'
      BY <1>4, <1>5, <2>1 DEF Writing
    <2>3. file = Truncated
      BY <1>1 DEF FileInv, Writing
    <2>4. file'.exists = TRUE /\ file'.reach = Length(store) /\ file'.reach > 0
      BY <1>1, <1>2, <2>3, WrittenIs
    <2> QED
      BY <1>6, <2>2, <2>4 DEF Readable
  <1> QED
    BY <1>1, <1>3, <1>6, <1>7, <1>8, <1>9 DEF FileInv, StartingInv

\* Every step keeps what is said of the users file.
LEMMA FileStep == TypeInv /\ FileInv /\ [Next]_vars => FileInv'
  <1> SUFFICES ASSUME TypeInv, FileInv, [Next]_vars PROVE FileInv'
    OBVIOUS
  <1>1. CASE Start \/ Ensure \/ Crash
    BY <1>1, StartKeeps, EnsureKeeps, CrashKeeps
  <1>2. ASSUME NEW r \in Slots,
               \/ OpenUsers(r) \/ WriteUsers(r)
               \/ \E u \in Users, pw \in Passwords, must \in BOOLEAN : ReadUsers(r, u, pw, must)
        PROVE  FileInv'
    BY <1>2, OpenKeeps, WriteKeeps, ReadKeeps
  <1>3. ASSUME Besides PROVE FileInv'
    BY <1>3, BesidesKeep
  <1> QED
    BY <1>1, <1>2, <1>3, BesidesIs DEF Next

\* Initially the users file is as it was found.
LEMMA FileInit == Init => FileInv
  <1> SUFFICES ASSUME Init PROVE FileInv
    OBVIOUS
  <1>1. PICK f \in FirstFiles :
          /\ file = [exists |-> f.exists, store |-> f.store, reach |-> Length(f.store)]
          /\ known = [u \in Users |-> IF u \in DOMAIN f.store THEN f.store[u].pw
                                      ELSE NoPassword]
    BY DEF Init
  <1>2. f.store \in Stores /\ file.store = f.store
    BY <1>1, AccountsAssumption
  <1>3. \A u \in DOMAIN file.store : file.store[u].pw = known[u]
    BY <1>1, <1>2, StoreIs
  <1>4. service.mode = "down" /\ \A r \in Slots : req[r].pc = "idle"
    BY DEF Init, Idler
  <1> QED
    BY <1>3, <1>4 DEF FileInv, StartingInv, Quiet, Busy, Writing

(* Between writes the users file is whole and holds the last password of   *)
(* everyone but those an overlapping request undid.                        *)
THEOREM PasswordsHold == Spec => []AcceptedPasswordsHold
  <1>1. FileInv /\ TornInv => AcceptedPasswordsHold
    <2> SUFFICES ASSUME FileInv, torn = FALSE, service.mode = "up",
                        \A r \in Slots : ~Writing(r)
                 PROVE  /\ Readable
                        /\ \A u \in DOMAIN file.store \ lost : file.store[u].pw = known[u]
      BY DEF AcceptedPasswordsHold, TornInv
    <2> QED
      BY DEF FileInv
  <1> QED
    BY <1>1, InitTypes, TypeStep, TornStep, FileInit, FileStep, PTL DEF Spec

-----------------------------------------------------------------------------
(* The first administrator.                                                *)
\* The password last set for the administrator is a bootstrap password.
Booted == \E n \in 1 .. counts.starts : known[Admin] = Bootstrap(n)

\* Which steps of ensureUsersFile are left says whether the file has the new
\* password already, and whether it was noted.
BootingInv ==
    service.mode = "starting" =>
        /\ service.store[Admin].pw = Bootstrap(counts.starts) /\ counts.starts > 0
        /\ service.todo = <<"note">> => known[Admin] = Bootstrap(counts.starts)
        /\ service.todo \in {<<"open", "write", "note">>, <<"write", "note">>, <<"note">>} =>
             DOMAIN service.store = {Admin}
        /\ service.todo \in {<<"open", "write">>, <<"write">>} =>
             bootFile = Bootstrap(counts.starts)
        /\ service.todo # <<"note">> => ~Booted

\* Bootstrap passwords to come are not in use; the one in use is noted.
BootInv ==
    /\ \A r \in Slots : Busy(r) => req[r].store[req[r].target].pw \in Passwords
    /\ \A n \in counts.starts + 1 .. MaxCrashes + 1 : known[Admin] # Bootstrap(n)
    /\ Booted =>
         /\ file.exists /\ (file.reach = 0 \/ Admin \in DOMAIN file.store)
         /\ \A r \in Slots : Busy(r) => Admin \in DOMAIN req[r].store
         /\ service.mode # "starting" /\ Admin \notin lost => bootFile = known[Admin]
    /\ BootingInv

\* Random passwords differ, from each other and from no password.
LEMMA BootstrapsDiffer ==
  /\ \A m, n \in Nat : Bootstrap(m) = Bootstrap(n) => m = n
  /\ \A n \in Nat : Bootstrap(n) # NoPassword
  <1>1. \A m, n \in Nat : <<"bootstrap", m>> = <<"bootstrap", n>> => m = n
    OBVIOUS
  <1>2. \A n \in Nat : <<"bootstrap", n>> # <<"none">>
    <2>1. ASSUME NEW n \in Nat PROVE <<"bootstrap", n>> # <<"none">>
      <3>1. Len(<<"bootstrap", n>>) = 2 /\ Len(<<"none">>) = 1
        OBVIOUS
      <3> QED
        BY <3>1
    <2> QED
      BY <2>1
  <1> QED
    BY <1>1, <1>2 DEF Bootstrap, NoPassword

\* There is a password for each start.
LEMMA StartsBounded ==
  ASSUME TypeInv
  PROVE  /\ counts.starts \in Nat /\ MaxCrashes \in Nat /\ counts.starts <= MaxCrashes + 1
         /\ service.mode = "down" => counts.starts + 1 <= MaxCrashes + 1
  BY AccountsAssumption DEF TypeInv

\* Steps beside the file keep the bootstrap password noted.
LEMMA BootBesides ==
  ASSUME TypeInv, BootInv, Besides
  PROVE  BootInv'
  <1>1. \A r \in Slots : Busy(r)' => Busy(r) /\ req'[r].store = req[r].store
                                     /\ req'[r].target = req[r].target
    BY DEF Besides, Beside, Busy
  <1>2. Booted' <=> Booted
    BY DEF Besides, Booted
  <1>3. BootingInv'
    BY <1>2 DEF BootInv, BootingInv, Besides
  <1>4. \A n \in counts'.starts + 1 .. MaxCrashes + 1 : known'[Admin] # Bootstrap(n)
    BY DEF BootInv, Besides
  <1>5. Booted' =>
         /\ file'.exists /\ (file'.reach = 0 \/ Admin \in DOMAIN file'.store)
         /\ service'.mode # "starting" /\ Admin \notin lost' => bootFile' = known'[Admin]
    BY <1>2 DEF BootInv, Besides
  <1>6. \A r \in Slots : Busy(r)' => /\ req'[r].store[req'[r].target].pw \in Passwords
                                     /\ Booted' => Admin \in DOMAIN req'[r].store
    BY <1>1, <1>2 DEF BootInv
  <1> QED
    BY <1>3, <1>4, <1>5, <1>6 DEF BootInv

\* The service starts: a new bootstrap password may be needed.
LEMMA BootStart ==
  ASSUME TypeInv, FileInv, BootInv, Start
  PROVE  BootInv'
  <1> DEFINE k == counts.starts
             boot == [pw |-> Bootstrap(k + 1), must |-> TRUE]
  <1>1. /\ service.mode = "down" /\ file' = file /\ bootFile' = bootFile /\ req' = req
        /\ known' = known /\ lost' = lost
        /\ file.exists => Readable
    BY DEF Start, disk, history
  <1>2. service \in Service /\ \A r \in Slots : ~Busy(r)
    BY <1>1 DEF TypeInv, FileInv, Quiet, Busy
  <1>3. counts'.starts = k + 1 /\ k \in Nat /\ k + 1 <= MaxCrashes + 1 /\ MaxCrashes \in Nat
    <2>1. counts' = [counts EXCEPT !.starts = @ + 1]
      BY DEF Start
    <2> QED
      BY <1>1, <2>1, StartsBounded DEF TypeInv
  <1> HIDE DEF k
  <1>4. known[Admin] # Bootstrap(k + 1)
    BY <1>3 DEF BootInv, k
  <1>5. Booted' <=> Booted
    <2>1. Booted' <=> \E n \in 1 .. k + 1 : known[Admin] = Bootstrap(n)
      <3>1. 1 .. counts'.starts = 1 .. k + 1 /\ known'[Admin] = known[Admin]
        BY <1>1, <1>3
      <3> QED
        BY <3>1, Zenon DEF Booted
    <2>2. Booted <=> \E n \in 1 .. k : known[Admin] = Bootstrap(n)
      BY DEF Booted, k
    <2> QED
      BY <1>3, <1>4, <2>1, <2>2
  <1>6. \A n \in counts'.starts + 1 .. MaxCrashes + 1 : known'[Admin] # Bootstrap(n)
    <2> SUFFICES ASSUME NEW n \in counts'.starts + 1 .. MaxCrashes + 1
                 PROVE  known[Admin] # Bootstrap(n)
      BY <1>1
    <2>1. n \in k + 1 .. MaxCrashes + 1
      BY <1>3
    <2> QED
      BY <2>1 DEF BootInv, k
  <1>7. Booted => file.exists /\ Admin \in DOMAIN file.store
    <2>1. Booted => file.exists /\ (file.reach = 0 \/ Admin \in DOMAIN file.store)
      BY DEF BootInv
    <2>2. file.exists => file.reach # 0
      BY <1>1 DEF Readable, TypeInv, UsersFile
    <2> QED
      BY <2>1, <2>2
  <1>8. CASE ~file.exists
    <2>1. /\ service'.mode = "starting" /\ service'.todo = <<"open", "write", "note">>
          /\ service'.store = Only(Admin, boot)
      BY <1>2, <1>8 DEF Start, Service, k
    <2>2. boot.pw = Bootstrap(k + 1)
      OBVIOUS
    <2> HIDE DEF boot
    <2>3. DOMAIN service'.store = {Admin} /\ service'.store[Admin] = boot
      BY <2>1, OnlyIs
    <2>4. ~Booted'
      BY <1>5, <1>7, <1>8
    <2>5. BootingInv'
      BY <1>3, <2>1, <2>2, <2>3, <2>4 DEF BootingInv
    <2> QED
      BY <1>1, <1>2, <1>6, <2>4, <2>5 DEF BootInv, Busy
  <1>9. CASE file.exists /\ Admin \notin DOMAIN file.store
    <2>1. /\ service'.mode = "starting" /\ service'.todo = <<"note", "open", "write">>
          /\ service'.store = With(file.store, Admin, boot)
      BY <1>2, <1>9 DEF Start, Service, k
    <2>2. boot.pw = Bootstrap(k + 1)
      OBVIOUS
    <2> HIDE DEF boot
    <2>3. service'.store[Admin] = boot
      BY <2>1 DEF With
    <2>4. ~Booted'
      BY <1>5, <1>7, <1>9
    <2>5. BootingInv'
      BY <1>3, <2>1, <2>2, <2>3, <2>4 DEF BootingInv
    <2> QED
      BY <1>1, <1>2, <1>6, <2>4, <2>5 DEF BootInv, Busy
  <1>10. CASE file.exists /\ Admin \in DOMAIN file.store
    <2>1. service'.mode = "up"
      BY <1>2, <1>10 DEF Start, Service
    <2>2. BootingInv'
      BY <2>1 DEF BootingInv
    <2>3. \A r \in Slots : ~Busy(r)'
      BY <1>1, <1>2 DEF Busy
    <2>4. Booted' => /\ file'.exists /\ (file'.reach = 0 \/ Admin \in DOMAIN file'.store)
                     /\ Admin \notin lost' => bootFile' = known'[Admin]
      <3>1. Booted /\ Admin \notin lost => bootFile = known[Admin]
        BY <1>1 DEF BootInv
      <3> QED
        BY <1>1, <1>5, <1>10, <3>1
    <2> QED
      BY <1>6, <2>2, <2>3, <2>4 DEF BootInv
  <1> QED
    BY <1>8, <1>9, <1>10

\* What is left to do tells how far ensureUsersFile is.
LEMMA TodosDiffer ==
  /\ <<"write", "note">> \notin {<<"note">>, <<"open", "write">>, <<"write">>}
  /\ <<"write">> \notin {<<"note">>, <<"open", "write", "note">>, <<"write", "note">>}
  /\ <<"note">> \notin {<<"open", "write">>, <<"write">>}
  /\ <<"open", "write">> \notin {<<"note">>, <<"open", "write", "note">>, <<"write", "note">>}
  <1>1. /\ Len(<<"open", "write", "note">>) = 3 /\ Len(<<"write", "note">>) = 2
        /\ Len(<<"open", "write">>) = 2 /\ Len(<<"note">>) = 1 /\ Len(<<"write">>) = 1
    OBVIOUS
  <1>2. /\ Head(<<"write", "note">>) = "write" /\ Head(<<"open", "write">>) = "open"
        /\ Head(<<"note">>) = "note" /\ Head(<<"write">>) = "write"
    OBVIOUS
  <1>3. /\ <<"write", "note">> # <<"note">> /\ <<"write", "note">> # <<"write">>
        /\ <<"write">> # <<"open", "write", "note">>
        /\ <<"note">> # <<"open", "write">>
        /\ <<"open", "write">> # <<"open", "write", "note">>
    BY <1>1
  <1>4. <<"write", "note">> # <<"open", "write">> /\ <<"write">> # <<"note">>
    BY <1>2
  <1> QED
    BY <1>3, <1>4

\* A step of ensureUsersFile, with the note of the password among them.
LEMMA BootEnsure ==
  ASSUME TypeInv, FileInv, BootInv, Ensure
  PROVE  BootInv'
  <1> DEFINE k == counts.starts
             store == service.store
             rest == Tail(service.todo)
             pw == store[Admin].pw
  <1>1. /\ service.mode = "starting" /\ req' = req /\ lost' = lost /\ counts' = counts
        /\ service.todo \in Todos /\ service.todo # <<>>
        /\ Admin \in DOMAIN store /\ store \in Stores
    BY DEF Ensure, TypeInv, Service
  <1>2. /\ service'.todo = rest /\ service'.store = store
        /\ service'.mode = IF rest = <<>> THEN "up" ELSE "starting"
    BY <1>1 DEF Ensure, TypeInv, Service
  <1>3. \A r \in Slots : ~Busy(r) /\ ~Busy(r)'
    BY <1>1 DEF FileInv, Quiet, Busy
  <1>4. /\ pw = Bootstrap(k) /\ k > 0 /\ k \in Nat /\ k <= MaxCrashes + 1
        /\ MaxCrashes \in Nat /\ counts'.starts = k
    BY <1>1, StartsBounded DEF BootInv, BootingInv
  <1> HIDE DEF k, store, pw
  <1>5. CASE Head(service.todo) = "open"
    <2>1. file' = Truncated /\ known' = known /\ bootFile' = bootFile
      BY <1>5 DEF Ensure
    <2>2. \/ service.todo = <<"open", "write", "note">> /\ rest = <<"write", "note">>
          \/ service.todo = <<"open", "write">> /\ rest = <<"write">>
      BY <1>1, <1>5, TodoSteps
    <2>3. service'.mode = "starting" /\ service.todo # <<"note">> /\ service'.todo = rest
      <3>1. <<"write", "note">> # <<>> /\ <<"write">> # <<>>
        OBVIOUS
      <3>2. <<"open", "write", "note">> # <<"note">> /\ <<"open", "write">> # <<"note">>
        <4>1. /\ Len(<<"open", "write", "note">>) = 3 /\ Len(<<"open", "write">>) = 2
              /\ Len(<<"note">>) = 1
          OBVIOUS
        <4> QED
          BY <4>1
      <3> QED
        BY <1>2, <2>2, <3>1, <3>2
    <2>4. ~Booted
      BY <1>1, <2>3 DEF BootInv, BootingInv
    <2>5. ~Booted'
      BY <1>4, <2>1, <2>4 DEF Booted, k
    <2>6. \/ /\ service.todo = <<"open", "write", "note">> /\ service'.todo = <<"write", "note">>
             /\ DOMAIN store = {Admin}
          \/ /\ service.todo = <<"open", "write">> /\ service'.todo = <<"write">>
             /\ bootFile = Bootstrap(k)
      BY <1>1, <2>2, <2>3 DEF BootInv, BootingInv, k, store
    <2>7. BootingInv'
      <3>1. CASE service'.todo = <<"write", "note">> /\ DOMAIN store = {Admin}
        BY <1>2, <1>4, <2>5, <3>1, TodosDiffer DEF BootingInv, pw
      <3>2. CASE service'.todo = <<"write">> /\ bootFile = Bootstrap(k)
        BY <1>2, <1>4, <2>1, <2>5, <3>2, TodosDiffer DEF BootingInv, pw
      <3> QED
        BY <2>6, <3>1, <3>2
    <2>8. \A n \in counts'.starts + 1 .. MaxCrashes + 1 : known'[Admin] # Bootstrap(n)
      BY <1>4, <2>1 DEF BootInv, k
    <2> QED
      BY <1>3, <2>5, <2>7, <2>8 DEF BootInv
  <1>6. CASE Head(service.todo) = "write"
    <2>1. /\ file' = Written(store) /\ bootFile' = bootFile
          /\ known' = [known EXCEPT ![Admin] = pw]
      BY <1>6 DEF Ensure, store, pw
    <2>2. \/ service.todo = <<"write", "note">> /\ rest = <<"note">>
          \/ service.todo = <<"write">> /\ rest = <<>>
      BY <1>1, <1>6, TodoSteps
    <2>3. file'.exists = TRUE /\ file'.store = store
      BY <1>1, <2>1, WrittenIs
    <2>4. known'[Admin] = Bootstrap(k)
      BY <1>4, <2>1 DEF TypeInv, Users
    <2>5. \A n \in counts'.starts + 1 .. MaxCrashes + 1 : known'[Admin] # Bootstrap(n)
      <3> SUFFICES ASSUME NEW n \in k + 1 .. MaxCrashes + 1 PROVE Bootstrap(k) # Bootstrap(n)
        BY <1>4, <2>4
      <3> QED
        BY <1>4, BootstrapsDiffer
    <2>6. CASE service.todo = <<"write", "note">> /\ rest = <<"note">>
      <3>1. DOMAIN store = {Admin}
        BY <1>1, <2>6 DEF BootInv, BootingInv, store
      <3>2. service'.mode = "starting" /\ service'.todo = <<"note">>
        <4>1. <<"note">> # <<>>
          OBVIOUS
        <4> QED
          BY <1>2, <2>6, <4>1
      <3>3. BootingInv'
        BY <1>2, <1>4, <2>4, <3>1, <3>2, TodosDiffer DEF BootingInv, pw
      <3> QED
        BY <1>1, <1>3, <2>3, <2>5, <3>2, <3>3 DEF BootInv
    <2>7. CASE service.todo = <<"write">> /\ rest = <<>>
      <3>1. bootFile = Bootstrap(k)
        BY <1>1, <2>7 DEF BootInv, BootingInv, k
      <3>2. service'.mode = "up"
        BY <1>2, <2>7
      <3>3. BootingInv'
        BY <3>2 DEF BootingInv
      <3> QED
        BY <1>1, <1>3, <2>1, <2>3, <2>4, <2>5, <3>1, <3>3 DEF BootInv
    <2> QED
      BY <2>2, <2>6, <2>7
  <1>7. CASE Head(service.todo) = "note"
    <2>1. file' = file /\ known' = known /\ bootFile' = pw
      BY <1>7 DEF Ensure, store, pw
    <2>2. \/ service.todo = <<"note">> /\ rest = <<>>
          \/ service.todo = <<"note", "open", "write">> /\ rest = <<"open", "write">>
      BY <1>1, <1>7, TodoSteps
    <2>3. Booted' <=> Booted
      BY <1>4, <2>1 DEF Booted, k
    <2>4. \A n \in counts'.starts + 1 .. MaxCrashes + 1 : known'[Admin] # Bootstrap(n)
      BY <1>4, <2>1 DEF BootInv, k
    <2>5. CASE service.todo = <<"note">> /\ rest = <<>>
      <3>1. known[Admin] = Bootstrap(k)
        BY <1>1, <2>5 DEF BootInv, BootingInv, k
      <3>2. service'.mode = "up"
        BY <1>2, <2>5
      <3>3. BootingInv'
        BY <3>2 DEF BootingInv
      <3>4. Booted => file.exists /\ (file.reach = 0 \/ Admin \in DOMAIN file.store)
        BY DEF BootInv
      <3> QED
        BY <1>3, <1>4, <2>1, <2>3, <2>4, <3>1, <3>3, <3>4 DEF BootInv
    <2>6. CASE service.todo = <<"note", "open", "write">> /\ rest = <<"open", "write">>
      <3>1. service'.mode = "starting" /\ service'.todo = <<"open", "write">>
        <4>1. <<"open", "write">> # <<>>
          OBVIOUS
        <4> QED
          BY <1>2, <2>6, <4>1
      <3>2. ~Booted
        <4>1. <<"note", "open", "write">> # <<"note">>
          <5>1. Len(<<"note", "open", "write">>) = 3 /\ Len(<<"note">>) = 1
            OBVIOUS
          <5> QED
            BY <5>1
        <4> QED
          BY <1>1, <2>6, <4>1 DEF BootInv, BootingInv
      <3>3. BootingInv'
        BY <1>2, <1>4, <2>1, <2>3, <3>1, <3>2, TodosDiffer DEF BootingInv, pw
      <3> QED
        BY <1>3, <2>3, <2>4, <3>2, <3>3 DEF BootInv
    <2> QED
      BY <2>2, <2>5, <2>6
  <1> QED
    BY <1>5, <1>6, <1>7 DEF Ensure

\* A crash leaves the file and the note where they are.
LEMMA BootCrash ==
  ASSUME TypeInv, BootInv, Crash
  PROVE  BootInv'
  <1>1. /\ file' = file /\ bootFile' = bootFile /\ known' = known
        /\ lost' = IF service.todo = <<"note">> /\ DOMAIN service.store = {Admin}
                   THEN lost \union {Admin} ELSE lost
        /\ req' = [r \in Slots |-> Idler]
        /\ counts' = [counts EXCEPT !.crashes = @ + 1]
    BY DEF Crash, disk
  <1>2. service'.mode = "down" /\ counts'.starts = counts.starts
    BY <1>1 DEF Crash, TypeInv, Service
  <1>3. \A r \in Slots : ~Busy(r)'
    BY <1>1 DEF Busy, Idler
  <1>4. Booted' <=> Booted
    BY <1>1, <1>2 DEF Booted
  <1>5. \A n \in counts'.starts + 1 .. MaxCrashes + 1 : known'[Admin] # Bootstrap(n)
    BY <1>1, <1>2 DEF BootInv
  <1>6. BootingInv'
    BY <1>2 DEF BootingInv
  <1>7. Booted /\ Admin \notin lost' => bootFile = known[Admin]
    <2> SUFFICES ASSUME Booted, Admin \notin lost' PROVE bootFile = known[Admin]
      OBVIOUS
    <2>1. Admin \notin lost /\ ~(service.todo = <<"note">> /\ DOMAIN service.store = {Admin})
      BY <1>1
    <2>2. service.mode # "starting"
      BY <2>1 DEF BootInv, BootingInv
    <2> QED
      BY <2>1, <2>2 DEF BootInv
  <1>8. Booted => file.exists /\ (file.reach = 0 \/ Admin \in DOMAIN file.store)
    BY DEF BootInv
  <1> QED
    BY <1>1, <1>3, <1>4, <1>5, <1>6, <1>7, <1>8 DEF BootInv

\* A request reads the file: its administrator is the one of the file.
LEMMA BootRead ==
  ASSUME TypeInv, FileInv, BootInv, NEW r \in Slots, NEW u \in Users,
         NEW pw \in Passwords, NEW must \in BOOLEAN, ReadUsers(r, u, pw, must)
  PROVE  BootInv'
  <1> DEFINE a == [pw |-> pw, must |-> must]
             store == [file.store EXCEPT ![u] = a]
             x == [req[r] EXCEPT !.pc = "open", !.stale = FALSE, !.target = u,
                                 !.store = store]
  <1>1. /\ req[r].pc = "body" /\ req[r] \in Request /\ u \in DOMAIN file.store
        /\ req'[r] = x /\ \A q \in Slots \ {r} : req'[q] = req[q]
        /\ file' = file /\ service' = service /\ known' = known /\ lost' = lost
        /\ bootFile' = bootFile /\ counts' = counts /\ Readable
    BY DEF ReadUsers, disk, history, TypeInv
  <1>2. a.pw \in Passwords
    OBVIOUS
  <1> HIDE DEF a
  <1>3. DOMAIN store = DOMAIN file.store /\ store[u] = a
    BY <1>1
  <1> HIDE DEF store
  <1>4. x.store = store /\ x.target = u
    BY <1>1 DEF Request
  <1> HIDE DEF x
  <1>5. service.mode = "up"
    BY <1>1 DEF FileInv, Quiet
  <1>6. Booted' <=> Booted
    BY <1>1 DEF Booted
  <1>7. Booted => Admin \in DOMAIN file.store
    <2>1. file.reach # 0
      BY <1>1 DEF Readable, TypeInv, UsersFile
    <2> QED
      BY <2>1 DEF BootInv
  <1>8. ASSUME NEW q \in Slots, Busy(q)'
        PROVE  /\ req'[q].store[req'[q].target].pw \in Passwords
               /\ Booted => Admin \in DOMAIN req'[q].store
    <2>1. CASE q = r
      BY <1>1, <1>2, <1>3, <1>4, <1>7, <2>1
    <2>2. CASE q # r
      BY <1>1, <1>8, <2>2 DEF BootInv, Busy
    <2> QED
      BY <2>1, <2>2
  <1>9. Booted => /\ file.exists /\ (file.reach = 0 \/ Admin \in DOMAIN file.store)
                  /\ Admin \notin lost => bootFile = known[Admin]
    BY <1>5 DEF BootInv
  <1>10. BootingInv'
    BY <1>1, <1>5 DEF BootingInv
  <1>11. \A n \in counts'.starts + 1 .. MaxCrashes + 1 : known'[Admin] # Bootstrap(n)
    BY <1>1 DEF BootInv
  <1> QED
    BY <1>1, <1>6, <1>8, <1>9, <1>10, <1>11 DEF BootInv

\* A request opens the file for writing.
LEMMA BootOpen ==
  ASSUME TypeInv, FileInv, BootInv, NEW r \in Slots, OpenUsers(r)
  PROVE  BootInv'
  <1>1. /\ req[r].pc = "open" /\ file' = Truncated /\ service' = service
        /\ known' = known /\ lost' = lost /\ bootFile' = bootFile /\ counts' = counts
        /\ req' = [req EXCEPT ![r].pc = "write"]
    BY DEF OpenUsers
  <1>2. \A q \in Slots : Busy(q)' => /\ Busy(q) /\ req'[q].store = req[q].store
                                     /\ req'[q].target = req[q].target
    BY <1>1 DEF Busy, TypeInv, Request
  <1>3. service.mode = "up"
    BY <1>1 DEF FileInv, Quiet
  <1>4. Booted' <=> Booted
    BY <1>1 DEF Booted
  <1>5. file'.exists = TRUE /\ file'.reach = 0
    BY <1>1 DEF Truncated
  <1>6. \A q \in Slots : Busy(q)' => /\ req'[q].store[req'[q].target].pw \in Passwords
                                     /\ Booted => Admin \in DOMAIN req'[q].store
    BY <1>2 DEF BootInv
  <1>7. Booted /\ Admin \notin lost => bootFile = known[Admin]
    BY <1>3 DEF BootInv
  <1>8. BootingInv'
    BY <1>1, <1>3 DEF BootingInv
  <1>9. \A n \in counts'.starts + 1 .. MaxCrashes + 1 : known'[Admin] # Bootstrap(n)
    BY <1>1 DEF BootInv
  <1> QED
    BY <1>1, <1>4, <1>5, <1>6, <1>7, <1>8, <1>9 DEF BootInv

\* A request writes the file: the administrator stays in it.
LEMMA BootWrite ==
  ASSUME TypeInv, FileInv, BootInv, NEW r \in Slots, WriteUsers(r)
  PROVE  BootInv'
  <1> DEFINE u == req[r].target
             store == req[r].store
  <1>1. /\ req[r].pc = "write" /\ file' = Written(store) /\ service' = service
        /\ known' = [known EXCEPT ![u] = store[u].pw]
        /\ bootFile' = bootFile /\ counts' = counts /\ lost \ {u} \subseteq lost'
        /\ req' = [q \in Slots |->
                     IF q = r THEN [req[q] EXCEPT !.pc = IF @ = "write" /\ req[q].kind = "reset"
                                                         THEN "list" ELSE "save"]
                     ELSE [req[q] EXCEPT !.stale = @ \/ req[q].pc \in {"open", "write"}]]
    BY DEF WriteUsers, Writing
  <1>2. req[r] \in Request /\ store \in Stores /\ u \in DOMAIN store /\ u \in Users
    BY <1>1, RequestFields, StoreIs DEF TypeInv
  <1>3. service.mode = "up"
    BY <1>1 DEF FileInv, Quiet
  <1>4. req'[r].pc \in {"list", "save"}
    BY <1>1, <1>2 DEF Request
  <1>5. ASSUME NEW q \in Slots, Busy(q)'
        PROVE  /\ Busy(q) /\ req'[q].store = req[q].store
               /\ req'[q].target = req[q].target
    <2>1. q # r
      BY <1>4, <1>5 DEF Busy
    <2> DEFINE b == req[q].stale \/ req[q].pc \in {"open", "write"}
    <2>2. req'[q] = [req[q] EXCEPT !.stale = b] /\ req[q] \in Request
      BY <1>1, <2>1 DEF TypeInv
    <2> HIDE DEF b
    <2>3. req'[q].pc = req[q].pc /\ req'[q].store = req[q].store
          /\ req'[q].target = req[q].target
      BY <2>2 DEF Request
    <2> QED
      BY <1>5, <2>3 DEF Busy
  <1>6. store[u].pw \in Passwords /\ (Booted => Admin \in DOMAIN store)
    BY <1>1 DEF BootInv, Busy
  <1> HIDE DEF u, store
  <1>7. file'.store = store /\ file'.exists = TRUE
    BY <1>1, <1>2, WrittenIs
  <1>8. BootingInv'
    BY <1>1, <1>3 DEF BootingInv
  <1>9. counts.starts \in Nat /\ counts.starts <= MaxCrashes + 1 /\ MaxCrashes \in Nat
    BY StartsBounded
  <1>10. CASE u = Admin
    <2>1. known'[Admin] \in Passwords
      BY <1>1, <1>2, <1>6, <1>10 DEF TypeInv
    <2>2. \A n \in 0 .. MaxCrashes + 1 : known'[Admin] # Bootstrap(n)
      BY <2>1, AccountsAssumption
    <2>3. ~Booted'
      BY <1>1, <1>9, <2>2 DEF Booted
    <2>4. \A n \in counts'.starts + 1 .. MaxCrashes + 1 : known'[Admin] # Bootstrap(n)
      BY <1>1, <1>9, <2>2
    <2>5. \A q \in Slots : Busy(q)' => req'[q].store[req'[q].target].pw \in Passwords
      BY <1>5 DEF BootInv
    <2> QED
      BY <1>8, <2>3, <2>4, <2>5 DEF BootInv
  <1>11. CASE u # Admin
    <2>1. known'[Admin] = known[Admin] /\ (Admin \notin lost' => Admin \notin lost)
      BY <1>1, <1>2, <1>11 DEF TypeInv, Users
    <2>2. Booted' <=> Booted
      BY <1>1, <2>1 DEF Booted
    <2>3. \A q \in Slots : Busy(q)' => /\ req'[q].store[req'[q].target].pw \in Passwords
                                       /\ Booted => Admin \in DOMAIN req'[q].store
      BY <1>5 DEF BootInv
    <2>4. Booted /\ Admin \notin lost => bootFile = known[Admin]
      BY <1>3 DEF BootInv
    <2>5. \A n \in counts'.starts + 1 .. MaxCrashes + 1 : known'[Admin] # Bootstrap(n)
      BY <1>1, <2>1 DEF BootInv
    <2>6. Booted' =>
            /\ file'.exists /\ (file'.reach = 0 \/ Admin \in DOMAIN file'.store)
            /\ \A q \in Slots : Busy(q)' => Admin \in DOMAIN req'[q].store
            /\ service'.mode # "starting" /\ Admin \notin lost' => bootFile' = known'[Admin]
      BY <1>1, <1>6, <1>7, <2>1, <2>2, <2>3, <2>4
    <2> QED
      BY <1>8, <2>3, <2>5, <2>6 DEF BootInv
  <1> QED
    BY <1>10, <1>11

\* Every step keeps what is said of the bootstrap password.
LEMMA BootStep == TypeInv /\ FileInv /\ BootInv /\ [Next]_vars => BootInv'
  <1> SUFFICES ASSUME TypeInv, FileInv, BootInv, [Next]_vars PROVE BootInv'
    OBVIOUS
  <1>1. CASE Start \/ Ensure \/ Crash
    BY <1>1, BootStart, BootEnsure, BootCrash
  <1>2. ASSUME NEW r \in Slots,
               \/ OpenUsers(r) \/ WriteUsers(r)
               \/ \E u \in Users, pw \in Passwords, must \in BOOLEAN : ReadUsers(r, u, pw, must)
        PROVE  BootInv'
    BY <1>2, BootOpen, BootWrite, BootRead
  <1>3. ASSUME Besides PROVE BootInv'
    BY <1>3, BootBesides
  <1> QED
    BY <1>1, <1>2, <1>3, BesidesIs DEF Next

\* Initially no bootstrap password was given out.
LEMMA BootInit == Init => BootInv
  <1> SUFFICES ASSUME Init PROVE BootInv
    OBVIOUS
  <1>1. PICK f \in FirstFiles :
          /\ file = [exists |-> f.exists, store |-> f.store, reach |-> Length(f.store)]
          /\ known = [u \in Users |-> IF u \in DOMAIN f.store THEN f.store[u].pw
                                      ELSE NoPassword]
    BY DEF Init
  <1>2. /\ service.mode = "down" /\ \A r \in Slots : req[r].pc = "idle"
        /\ counts.starts = 0
    BY DEF Init, Idler
  <1>3. known[Admin] = IF Admin \in DOMAIN f.store THEN f.store[Admin].pw ELSE NoPassword
    BY <1>1 DEF Users
  <1>4. \A n \in 1 .. MaxCrashes + 1 : known[Admin] # Bootstrap(n)
    <2> SUFFICES ASSUME NEW n \in 1 .. MaxCrashes + 1 PROVE known[Admin] # Bootstrap(n)
      OBVIOUS
    <2>1. n \in Nat
      BY AccountsAssumption
    <2>2. CASE Admin \in DOMAIN f.store
      BY <1>3, <2>2, AccountsAssumption
    <2>3. CASE Admin \notin DOMAIN f.store
      BY <1>3, <2>1, <2>3, BootstrapsDiffer
    <2> QED
      BY <2>2, <2>3
  <1>5. ~Booted
    BY <1>2 DEF Booted
  <1> QED
    BY <1>2, <1>4, <1>5 DEF BootInv, BootingInv, Busy

(* Once the service runs, the password noted beside the users file is the  *)
(* administrator's, until somebody changes it: after any starts, none of   *)
(* which died after it wrote the users file and before it noted the        *)
(* password.                                                               *)
THEOREM NotedIsTrue == Spec => []BootstrapKnown
  <1>1. BootInv => BootstrapKnown
    <2> SUFFICES ASSUME BootInv, service.mode = "up", Admin \notin lost, Booted
                 PROVE  bootFile = known[Admin]
      BY DEF BootstrapKnown, Booted
    <2> QED
      BY DEF BootInv
  <1> QED
    BY <1>1, InitTypes, TypeStep, FileInit, FileStep, BootInit, BootStep, PTL DEF Spec

=============================================================================
