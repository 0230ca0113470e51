----------------------------- MODULE LookupBulk -----------------------------
(***************************************************************************)
(* Turning a lookup of every card of a class to its next value, so that    *)
(* each card sends an event again.  The page asks for one batch after the  *)
(* other and repeats a request whose answer is lost; the BFF keeps running *)
(* and finished batches by their ids, for as long as its process lives     *)
(* (server.mjs, app.js).  With the filter on, cards that have a main host  *)
(* id are passed over, and the class must have the attribute of the audit  *)
(* model.                                                                  *)
(*                                                                         *)
(*   a card   [id, value, main], in the order CMDBuild lists them          *)
(*                                                                         *)
(* A batch is at most 100 cards, so one list of CMDBuild.  The checks of   *)
(* the attribute and of the lookup's values, made just before, are part of *)
(* the read; kept batches are not dropped after 30 minutes.                *)
(***************************************************************************)
EXTENDS AuditModel, SequencesExt

CONSTANTS
    BulkClass,
    LookupValues,      \* the lookup's active values, in order
    BatchSize,   \* cmdbuildLookupBulkBatchSize, and batchSize of the BFF
    Repeats,     \* cmdbuildLookupBulkNetworkRetryAttempts
    FirstCards,       \* the cards at first
    Newcomers    \* ids of cards others may insert

VARIABLES
    cards,   \* the cards of BulkClass in CMDBuild
    bulk,    \* each page's operation
    batch,   \* the BFF's batch for the id the page uses now
    tally    \* history of each operation: turned, how often it turned each
             \* card, spared, the cards others did not touch, and the crashes,
             \* insertions and removals since it began

bulkVars == <<cards, bulk, batch, tally>>
allVars == <<vars, bulkVars>>

Unasked == [pc |-> "none"]
Ids == {FirstCards[i].id : i \in DOMAIN FirstCards} \cup Newcomers

\* A card may have a value the lookup does not have any more.
CardValues == {None} \cup ToSet(LookupValues) \cup {FirstCards[i].value : i \in DOMAIN FirstCards}
CardSet == [id : Ids, value : CardValues, main : BOOLEAN]

ASSUME BulkAssumption ==
    /\ FirstCards \in Seq(CardSet)
    /\ \A i, j \in DOMAIN FirstCards : FirstCards[i].id = FirstCards[j].id => i = j
    /\ LookupValues \in Seq(ToSet(LookupValues)) \ {<<>>}
    /\ BatchSize \in Nat \ {0}

BulkTypeOK ==
    /\ TypeOK
    /\ cards \in Seq(CardSet)
    /\ \A p \in Pages : /\ bulk[p].pc \in {"idle", "asking", "waiting", "done", "failed"}
                        /\ batch[p].pc \in {"none", "read", "turn", "done"}

\* A value the lookup does not have turns to the first.
NextLookupValue(v) ==
    IF v \in ToSet(LookupValues)
    THEN LET i == CHOOSE k \in DOMAIN LookupValues : LookupValues[k] = v IN LookupValues[(i % Len(LookupValues)) + 1]
    ELSE LookupValues[1]

-----------------------------------------------------------------------------
(* The page. *)

StartBulk(p, filter) ==
    /\ bulk[p].pc \in {"idle", "done", "failed"} /\ batch[p] = Unasked
    /\ Spend("bulks")
    /\ bulk' = [bulk EXCEPT ![p] = [pc |-> "asking", filter |-> filter, offset |-> 0, tries |-> 0,
                                    changed |-> 0, failed |-> {}]]
    /\ tally' = [tally EXCEPT ![p] = [turned |-> [c \in Ids |-> 0],
                    spared |-> {cards[i] : i \in DOMAIN cards}, crashes |-> 0, inserted |-> 0, removed |-> 0]]
    /\ UNCHANGED <<schema, file, clock, page, work, cards, batch>>

\* Mutant: only a batch that still runs is joined.
JoinRunning(p) == IF batch[p].pc \in {"read", "turn"} THEN batch[p] ELSE [pc |-> "read"]

\* A repeated request joins the batch that runs, or finds its result.
Join(p) == IF batch[p] = Unasked THEN [pc |-> "read"] ELSE batch[p]

Deliver(p) ==
    /\ bulk[p].pc = "asking"
    /\ bulk' = [bulk EXCEPT ![p].pc = "waiting"]
    /\ batch' = [batch EXCEPT ![p] = Join(p)]
    /\ UNCHANGED <<vars, cards, tally>>

\* The request does not get there, or its answer does not come back.
Lose(p) ==
    /\ bulk[p].pc \in {"asking", "waiting"}
    /\ bulk' = [bulk EXCEPT ![p] =
                  IF bulk[p].tries + 1 < Repeats THEN [@ EXCEPT !.pc = "asking", !.tries = bulk[p].tries + 1]
                  ELSE [@ EXCEPT !.pc = "failed"]]
    /\ UNCHANGED <<vars, cards, batch, tally>>

\* Mutant: a batch that changed nothing is taken for the last.
EndsUnchanged(result, offset) == result.changed = 0 \/ offset >= result.reported

\* total counts the cards of the batch that were filtered out, too.
Ends(result, offset) == result.total = 0 \/ offset >= result.reported

\* A new batch has a new id, which the BFF does not know.
Respond(p) ==
    /\ bulk[p].pc = "waiting" /\ batch[p].pc = "done"
    /\ LET result == batch[p]
           offset == bulk[p].offset + result.total
       IN  bulk' = [bulk EXCEPT ![p] =
             [@ EXCEPT !.offset = offset, !.tries = 0, !.changed = bulk[p].changed + result.changed,
                       !.failed = bulk[p].failed \cup result.failed,
                       !.pc = IF Ends(result, offset) THEN "done" ELSE "asking"]]
    /\ batch' = [batch EXCEPT ![p] = Unasked]
    /\ UNCHANGED <<vars, cards, tally>>

\* What a page no longer waits for is forgotten with its id.
Forget(p) ==
    /\ bulk[p].pc = "failed" /\ batch[p].pc = "done"
    /\ batch' = [batch EXCEPT ![p] = Unasked]
    /\ UNCHANGED <<vars, cards, bulk, tally>>

-----------------------------------------------------------------------------
(* The batch in the BFF. *)

\* An error is not kept: who waits fails, who repeats the request runs it anew.
BatchError(p) ==
    /\ batch' = [batch EXCEPT ![p] = Unasked]
    /\ bulk' = [bulk EXCEPT ![p].pc = IF @ = "waiting" THEN "failed" ELSE @]
    /\ UNCHANGED <<schema, file, clock, page, work, cards, tally>>

ReadCards(p) ==
    /\ batch[p].pc = "read"
    /\ bulk[p].filter => Main \in Inherited(BulkClass)
    /\ LET last == IF bulk[p].offset + BatchSize < Len(cards) THEN bulk[p].offset + BatchSize ELSE Len(cards)
           read == IF bulk[p].offset < Len(cards) THEN SubSeq(cards, bulk[p].offset + 1, last) ELSE <<>>
       IN  batch' = [batch EXCEPT ![p] =
             [pc |-> IF read = <<>> THEN "done" ELSE "turn", todo |-> read,
              total |-> Len(read), reported |-> Len(cards), changed |-> 0, failed |-> {}]]
    /\ UNCHANGED <<vars, cards, bulk, tally>>

FailToRead(p) ==
    /\ batch[p].pc = "read"
    /\ \/ bulk[p].filter /\ Main \notin Inherited(BulkClass) /\ UNCHANGED budget
       \/ Spend("faults")
    /\ BatchError(p)

Filtered(p, card) == bulk[p].filter /\ card.main

Settled(p, card, changed, failed) ==
    [batch[p] EXCEPT !.todo = Tail(@), !.changed = @ + changed, !.failed = @ \cup failed,
                     !.pc = IF Tail(batch[p].todo) = <<>> THEN "done" ELSE "turn"]

SetValue(id, v) ==
    [i \in DOMAIN cards |-> IF cards[i].id = id THEN [cards[i] EXCEPT !.value = v] ELSE cards[i]]

\* History: card id was turned once more.
Counted(history, id) == [history EXCEPT !.turned = [history.turned EXCEPT ![id] = @ + 1]]

Exists(id) == \E i \in DOMAIN cards : cards[i].id = id

PassOver(p) ==
    /\ batch[p].pc = "turn" /\ Filtered(p, batch[p].todo[1])
    /\ batch' = [batch EXCEPT ![p] = Settled(p, batch[p].todo[1], 0, {})]
    /\ UNCHANGED <<vars, cards, bulk, tally>>

(* PUT of the value after the one that was read; it may fail, and be       *)
(* carried out nevertheless.  The others of the batch go on.               *)
Turn(p) ==
    /\ batch[p].pc = "turn" /\ ~Filtered(p, batch[p].todo[1])
    /\ LET card == batch[p].todo[1]
           done == /\ Exists(card.id)
                   /\ cards' = SetValue(card.id, NextLookupValue(card.value))
                   /\ tally' = [tally EXCEPT ![p] = Counted(@, card.id)]
           failed == batch' = [batch EXCEPT ![p] = Settled(p, card, 0, {card.id})]
       IN  \/ done /\ batch' = [batch EXCEPT ![p] = Settled(p, card, 1, {})] /\ UNCHANGED budget
           \/ ~Exists(card.id) /\ failed /\ UNCHANGED <<cards, tally, budget>>
           \/ Spend("faults") /\ failed /\ (done \/ UNCHANGED <<cards, tally>>)
    /\ UNCHANGED <<schema, file, clock, page, work, bulk>>

\* The batches are forgotten with the process.
BulkCrash ==
    /\ Crash
    /\ batch' = [p \in Pages |-> Unasked]
    /\ tally' = [p \in Pages |-> [tally[p] EXCEPT !.crashes = @ + 1]]
    /\ UNCHANGED <<cards, bulk>>

-----------------------------------------------------------------------------
(* Others work with the cards: the class lists a new one anywhere. *)

InsertCard ==
    /\ Spend("others")
    /\ \E id \in Newcomers, i \in 1 .. Len(cards) + 1 :
         /\ ~Exists(id)
         /\ cards' = InsertAt(cards, i, [id |-> id, value |-> None, main |-> FALSE])
    /\ tally' = [p \in Pages |-> [tally[p] EXCEPT !.inserted = @ + 1]]
    /\ UNCHANGED <<schema, file, clock, page, work, bulk, batch>>

RemoveCard ==
    /\ Spend("others")
    /\ \E i \in DOMAIN cards :
         /\ cards' = RemoveAt(cards, i)
         /\ tally' = [p \in Pages |-> [tally[p] EXCEPT !.removed = @ + 1]]
    /\ UNCHANGED <<schema, file, clock, page, work, bulk, batch>>

\* The main host id is written back when the event has reached Zabbix.
Bind ==
    /\ Spend("others") /\ Main \in Inherited(BulkClass)
    /\ \E i \in DOMAIN cards :
         /\ ~cards[i].main
         /\ cards' = [cards EXCEPT ![i].main = TRUE]
         /\ tally' = [p \in Pages |-> [tally[p] EXCEPT !.spared = {c \in @ : c.id # cards[i].id}]]
    /\ UNCHANGED <<schema, file, clock, page, work, bulk, batch>>

NoTally == [turned |-> [c \in Ids |-> 0], spared |-> {}, crashes |-> 0, inserted |-> 0, removed |-> 0]

BulkInit ==
    /\ Init
    /\ cards = FirstCards
    /\ bulk = [p \in Pages |-> Idle]
    /\ batch = [p \in Pages |-> Unasked]
    /\ tally = [p \in Pages |-> NoTally]

BulkNext ==
    \/ \E p \in Pages :
         \/ \E filter \in BOOLEAN : StartBulk(p, filter)
         \/ Deliver(p) \/ Lose(p) \/ Respond(p) \/ Forget(p)
         \/ ReadCards(p) \/ FailToRead(p) \/ PassOver(p) \/ Turn(p)
    \/ BulkCrash \/ InsertCard \/ RemoveCard \/ Bind
    \/ /\ \/ \E p \in Pages :
                \/ \E kind \in {"sync", "analyze", "apply"} : Ask(p, kind)
                \/ Answered(p) \/ NetworkError(p) \/ Finish(p) \/ Poll(p) \/ Fetch(p)
                \/ ReadClasses(p) \/ ReadAttributes(p) \/ Truncate(p) \/ WriteCatalog(p) \/ Create(p)
          \/ Other
       /\ UNCHANGED bulkVars

BulkSpec == BulkInit /\ [][BulkNext]_allVars

-----------------------------------------------------------------------------
(* However often answers are lost and requests repeated, an operation      *)
(* turns a card once, and so sends one event for it: only a crash of the   *)
(* BFF, which forgets the batch half-way, and a card inserted before it,   *)
(* which moves it to the next batch, have it turned again.                 *)
TurnedOnce ==
    \A p \in Pages, c \in Ids :
        tally[p].turned[c] <= 1 + tally[p].crashes + tally[p].inserted

(* An operation that says it is done has turned, or reported as failed,    *)
(* every card that was there when it began and that the filter lets        *)
(* through, although others insert cards meanwhile and whole batches may   *)
(* be filtered out; a removed card makes it skip another.                  *)
NobodyMissed ==
    \A p \in Pages :
        bulk[p].pc = "done" /\ tally[p].removed = 0 =>
            \A c \in tally[p].spared :
                ~Filtered(p, c) => tally[p].turned[c.id] > 0 \/ c.id \in bulk[p].failed
=============================================================================
