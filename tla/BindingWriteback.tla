-------------------------- MODULE BindingWriteback --------------------------
(***************************************************************************)
(* The way back from Zabbix to CMDBuild: ProcessMessageAsync of            *)
(* KafkaBindingWorker and CmdbuildBindingClient.ApplyAsync, which keep the *)
(* host id of every monitored link, and CmdbZabbixHostBindingResolver of   *)
(* the converter, which finds the host by it. A link is a CMDBuild card    *)
(* and a profile: the main profile's host id is an attribute of the card,  *)
(* every other profile has a ZabbixHostBinding card of its own.            *)
(*                                                                         *)
(* The loop around the messages is ConsumerWorker: a restart resumes after *)
(* the last recorded message, an exception skips one. Retries of one call  *)
(* are HttpResilience; only those of a write, which may have taken effect, *)
(* are shown.                                                              *)
(***************************************************************************)
EXTENDS Integers, Sequences

CONSTANTS
    MainLinks,    \* links of the main profile
    OtherLinks,   \* links of additional profiles
    Hosts,        \* Zabbix host ids
    None,         \* the empty host id
    Length,       \* bound: number of binding events
    HttpAttempts, \* Cmdbuild:Resilience:MaxRetryAttempts
    MaxFaults,    \* bound: failed calls, failed records and crashes
    MaxResends,   \* bound: writes sent again
    MaxGarbled,   \* bound: answers that are not JSON
    MaxRemovals   \* bound: source cards removed by users

ASSUME BindingAssumption ==
    /\ MainLinks \cap OtherLinks = {}
    /\ None \notin Hosts
    /\ Length \in Nat /\ HttpAttempts \in Nat \ {0}
    /\ MaxFaults \in Nat /\ MaxResends \in Nat
    /\ MaxGarbled \in Nat /\ MaxRemovals \in Nat

Links == MainLinks \union OtherLinks
Events == 1 .. Length
Card == [host : Hosts, status : {"active", "deleted"}]
BindingEvent == [link : Links, card : Card, valid : BOOLEAN]

VARIABLES
    input,     \* the binding events of the topic, in order
    main,      \* per main link: zabbix_main_hostid of the source card
    exists,    \* per main link: can the source card be read?
    cards,     \* per other link: its ZabbixHostBinding cards, oldest first
    cursor,    \* the event being processed, or the next one
    recorded,  \* the last event of the processing-state file
    pc,        \* program counter of ProcessMessageAsync
    target,    \* the card to update: its index, 0 for a new one
    attempt,   \* of the write, in HttpClientResilienceHandler
    outcome,   \* history: per event, how it was recorded or left last
    latest,    \* history: per link, the last event that was applied
    pending,   \* history: links written to since their last applied event
    faults, resends, garbled, removals

store == <<main, exists, cards, pending>>
delivery == <<cursor, recorded>>
history == <<outcome, latest>>
counters == <<faults, resends, garbled, removals>>
vars == <<input, store, delivery, pc, target, attempt, history, counters>>

Outcomes == {"none", "applied", "invalid_json", "skipped"}

TypeOK ==
    /\ input \in [Events -> BindingEvent]
    /\ main \in [MainLinks -> Hosts \union {None}]
    /\ exists \in [MainLinks -> BOOLEAN]
    /\ cards \in [OtherLinks -> Seq(Card)]
    /\ cursor \in 1 .. Length + 1
    /\ recorded \in 0 .. cursor - 1
    /\ pc \in {"idle", "read", "write", "applied", "invalid_json"}
    /\ target \in Nat
    /\ attempt \in 1 .. HttpAttempts
    /\ outcome \in [Events -> Outcomes]
    /\ latest \in [Links -> Events \union {0}]
    /\ pending \subseteq Links
    /\ faults \in 0 .. MaxFaults /\ resends \in 0 .. MaxResends
    /\ garbled \in 0 .. MaxGarbled /\ removals \in 0 .. MaxRemovals

Init ==
    /\ input \in [Events -> BindingEvent]
    /\ main = [l \in MainLinks |-> None]
    /\ exists = [l \in MainLinks |-> TRUE]
    /\ cards = [l \in OtherLinks |-> <<>>]
    /\ cursor = 1
    /\ recorded = 0
    /\ pc = "idle"
    /\ target = 0
    /\ attempt = 1
    /\ outcome = [e \in Events |-> "none"]
    /\ latest = [l \in Links |-> 0]
    /\ pending = {}
    /\ faults = 0 /\ resends = 0 /\ garbled = 0 /\ removals = 0

Current == input[cursor]
Link == Current.link
IsMain == Link \in MainLinks

\* UpdateMainHostIdAsync clears the attribute for a deleted host.
DesiredHost(card) == IF card.status = "deleted" THEN None ELSE card.host

-----------------------------------------------------------------------------
\* ZabbixBindingEventReader.Read.
Receive ==
    /\ pc = "idle"
    /\ cursor <= Length
    /\ pc' = IF Current.valid THEN "read" ELSE "invalid_json"
    /\ UNCHANGED <<input, store, delivery, target, attempt, history, counters>>

(* TryReadCurrentMainHostIdAsync: a card that cannot be read any more is   *)
(* left alone, an equal value is not written again.                        *)
ReadMain ==
    /\ pc = "read" /\ IsMain
    /\ pc' = IF ~exists[Link] \/ main[Link] = DesiredHost(Current.card)
             THEN "applied" ELSE "write"
    /\ attempt' = 1
    /\ UNCHANGED <<input, store, delivery, target, history, counters>>

\* Mutant: a lookup by status finds only active cards.
FindActive(l, k) == k \in DOMAIN cards[l] /\ cards[l][k].status = "active"

\* FindBindingCardAsync: the first card CMDBuild lists, in whatever order.
FindBindingCard(l, k) == k \in DOMAIN cards[l]

\* Mutant: the comparison forgets the binding status.
MatchesHost(card) == card.host = Current.card.host

ProfileBindingMatches(card) == card = Current.card

(* UpsertProfileBindingAsync looks for the card of the link: without one   *)
(* it creates it, and an equal one is not written again.                   *)
FindCard ==
    /\ pc = "read" /\ ~IsMain
    /\ attempt' = 1
    /\ \/ \E k \in DOMAIN cards[Link] :
            /\ FindBindingCard(Link, k)
            /\ target' = k
            /\ pc' = IF ProfileBindingMatches(cards[Link][k])
                     THEN "applied" ELSE "write"
       \/ /\ \A k \in DOMAIN cards[Link] : ~FindBindingCard(Link, k)
          /\ target' = 0
          /\ pc' = "write"
    /\ UNCHANGED <<input, store, delivery, history, counters>>

\* The main value could not be read: it is written without comparison.
WriteUnread ==
    /\ pc' = "write"
    /\ attempt' = 1

\* The exception leaves ProcessMessageAsync: the loop goes on behind it.
Skip ==
    /\ outcome' = [outcome EXCEPT ![cursor] = "skipped"]
    /\ cursor' = cursor + 1
    /\ pc' = "idle"
    /\ UNCHANGED <<recorded, latest>>

\* The read fails: the main profile writes blindly, the others give up.
ReadFails ==
    /\ pc = "read"
    /\ faults < MaxFaults
    /\ faults' = faults + 1
    /\ IF IsMain THEN WriteUnread /\ UNCHANGED <<delivery, history>>
                 ELSE Skip /\ UNCHANGED attempt
    /\ UNCHANGED <<input, store, target, resends, garbled, removals>>

(* The answer to the read is not JSON. The main profile treats it as any   *)
(* failed read; otherwise JsonException reaches ProcessMessageAsync, which *)
(* takes it for its own message's.                                         *)
ReadGarbled ==
    /\ pc = "read"
    /\ garbled < MaxGarbled
    /\ garbled' = garbled + 1
    /\ IF IsMain THEN WriteUnread ELSE pc' = "invalid_json" /\ UNCHANGED attempt
    /\ UNCHANGED <<input, store, delivery, target, history, faults, resends,
                   removals>>

-----------------------------------------------------------------------------
\* CMDBuild carries out the PUT or POST.
Effect ==
    /\ pending' = pending \union {Link}
    /\ \/ /\ IsMain /\ exists[Link]
          /\ main' = [main EXCEPT ![Link] = DesiredHost(Current.card)]
          /\ UNCHANGED <<exists, cards>>
       \/ /\ ~IsMain
          /\ cards' = [cards EXCEPT ![Link] =
                         IF target = 0 THEN Append(@, Current.card)
                         ELSE [@ EXCEPT ![target] = Current.card]]
          /\ UNCHANGED <<main, exists>>

Write ==
    /\ pc = "write"
    /\ Effect
    /\ pc' = "applied"
    /\ UNCHANGED <<input, delivery, target, attempt, history, counters>>

\* The write took effect and its answer is not JSON.
WriteGarbled ==
    /\ pc = "write"
    /\ garbled < MaxGarbled
    /\ garbled' = garbled + 1
    /\ Effect
    /\ pc' = "invalid_json"
    /\ UNCHANGED <<input, delivery, target, attempt, history, faults, resends,
                   removals>>

\* The write took effect, its answer is lost on the way: it is sent again.
Resend ==
    /\ pc = "write"
    /\ attempt < HttpAttempts
    /\ resends < MaxResends
    /\ resends' = resends + 1
    /\ attempt' = attempt + 1
    /\ Effect
    /\ UNCHANGED <<input, delivery, pc, target, history, faults, garbled, removals>>

\* The write is refused, or not answered in time whatever became of it.
WriteFails ==
    /\ pc = "write"
    /\ faults < MaxFaults
    /\ faults' = faults + 1
    /\ Effect \/ UNCHANGED store
    /\ Skip
    /\ UNCHANGED <<input, target, attempt, resends, garbled, removals>>

\* A main card removed since it was read answers 404.
WriteRefused ==
    /\ pc = "write" /\ IsMain
    /\ ~exists[Link]
    /\ Skip
    /\ UNCHANGED <<input, store, target, attempt, counters>>

\* WriteStateAndCommitAsync.
Record ==
    /\ pc \in {"applied", "invalid_json"}
    /\ recorded' = cursor
    /\ cursor' = cursor + 1
    /\ outcome' = [outcome EXCEPT ![cursor] = pc]
    /\ IF pc = "applied"
       THEN /\ latest' = [latest EXCEPT ![Link] = cursor]
            /\ pending' = pending \ {Link}
       ELSE UNCHANGED <<latest, pending>>
    /\ pc' = "idle"
    /\ UNCHANGED <<input, main, exists, cards, target, attempt, counters>>

\* The service stops and starts again; a write under way may be carried out.
Crash ==
    /\ faults < MaxFaults
    /\ faults' = faults + 1
    /\ (pc = "write" /\ Effect) \/ UNCHANGED store
    /\ cursor' = recorded + 1
    /\ pc' = "idle"
    /\ UNCHANGED <<input, recorded, target, attempt, history, resends, garbled,
                   removals>>

\* A user removes the source card.
Remove(l) ==
    /\ exists[l]
    /\ removals < MaxRemovals
    /\ removals' = removals + 1
    /\ exists' = [exists EXCEPT ![l] = FALSE]
    /\ main' = [main EXCEPT ![l] = None]
    /\ UNCHANGED <<input, cards, pending, delivery, pc, target, attempt, history,
                   faults, resends, garbled>>

Next ==
    \/ Receive \/ ReadMain \/ FindCard \/ ReadFails \/ ReadGarbled
    \/ Write \/ WriteGarbled \/ Resend \/ WriteFails \/ WriteRefused
    \/ Record \/ Crash
    \/ \E l \in MainLinks : Remove(l)

Spec == Init /\ [][Next]_vars

-----------------------------------------------------------------------------
(* ResolveHostIdAsync of the converter: the host ids it may come up with.  *)
(* Cards of deleted hosts are passed over, in the order CMDBuild lists.    *)
Resolved(l) ==
    IF l \in MainLinks THEN {main[l]} \ {None}
    ELSE {cards[l][k].host : k \in {j \in DOMAIN cards[l] :
                                        cards[l][j].status = "active"}}

\* The host the last applied event of the link names.
Bound(l) ==
    IF latest[l] = 0 \/ (l \in MainLinks /\ ~exists[l]) THEN {}
    ELSE {DesiredHost(input[latest[l]].card)} \ {None}

(* The bindings follow the events: whenever no write of a link is under    *)
(* way or was left behind, the converter resolves exactly the host the     *)
(* last applied event bound, and none after a deletion, through failed     *)
(* reads, skipped values, restarts and replays, as long as the link has    *)
(* no second card.                                                         *)
Settled(l) == l \notin pending /\ (l \in OtherLinks => Len(cards[l]) <= 1)
ResolverFollowsEvents ==
    \A l \in Links : Settled(l) => Resolved(l) = Bound(l)

(* A link gets a second card only from a creation that was sent twice: the *)
(* lookup before every write makes replayed events harmless.               *)
DuplicatesPaidFor ==
    \A l \in OtherLinks : Len(cards[l]) <= 1 + resends

=============================================================================
