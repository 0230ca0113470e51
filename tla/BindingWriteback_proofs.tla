------------------------ MODULE BindingWriteback_proofs ------------------------
(***************************************************************************)
(* Proofs about BindingWriteback, for any links, hosts, events and bounds: *)
(* the converter resolves the host the last applied event bound, and a     *)
(* link has more than one card only if a creation was sent twice.          *)
(*                                                                         *)
(* A link nothing is pending for is stored as its last applied event says  *)
(* (MainInv, CardsInv).  An event is applied with the store as it says     *)
(* (AppliedInv): it was found so or was written so.  A card is created     *)
(* only after a look-up that found none (CreationInv).                     *)
(***************************************************************************)
EXTENDS BindingWriteback, TLAPS

Busy == pc # "idle" => cursor <= Length

MainInv ==
    \A l \in MainLinks :
        /\ ~exists[l] => main[l] = None
        /\ exists[l] /\ l \notin pending =>
              main[l] = IF latest[l] = 0 THEN None ELSE DesiredHost(input[latest[l]].card)

CardsInv ==
    \A l \in OtherLinks : l \notin pending /\ Len(cards[l]) <= 1 =>
        /\ latest[l] = 0 => Len(cards[l]) = 0
        /\ latest[l] # 0 => Len(cards[l]) = 1 /\ cards[l][1] = input[latest[l]].card

AppliedInv ==
    pc = "applied" =>
        /\ IsMain /\ exists[Link] => main[Link] = DesiredHost(Current.card)
        /\ ~IsMain /\ Len(cards[Link]) <= 1 =>
              Len(cards[Link]) = 1 /\ cards[Link][1] = Current.card

TargetInv == pc = "write" /\ ~IsMain /\ target # 0 => target \in DOMAIN cards[Link]

CreationInv == pc = "write" /\ ~IsMain /\ target = 0 => Len(cards[Link]) <= resends

IInv == /\ TypeOK
        /\ Busy
        /\ MainInv
        /\ CardsInv
        /\ AppliedInv
        /\ TargetInv
        /\ CreationInv
        /\ DuplicatesPaidFor

-----------------------------------------------------------------------------
(* The current event and what CMDBuild does with it. *)

\* A sequence of at most one element has its only place at 1.
LEMMA OneAtMost == \A n \in Nat : \A k \in 1 .. n : n <= 1 => n = 1 /\ k = 1
  OBVIOUS

\* A sequence without places is empty.
LEMMA NoPlace == \A S : \A s \in Seq(S) : DOMAIN s = {} => Len(s) = 0
  OBVIOUS

\* The event being processed has a link of one of the two kinds.
LEMMA CurrentType ==
    ASSUME TypeOK, Busy, pc # "idle"
    PROVE  /\ cursor \in Events /\ Current \in BindingEvent
           /\ Link \in Links /\ Current.card \in Card
           /\ IsMain => Link \in MainLinks /\ Link \notin OtherLinks
           /\ ~IsMain => Link \in OtherLinks
           /\ DesiredHost(Current.card) \in Hosts \union {None}
  <1>1. cursor \in Events
    BY BindingAssumption DEF TypeOK, Busy, Events
  <1>2. Current \in BindingEvent
    BY <1>1 DEF TypeOK, Current
  <1>3. Link \in Links /\ Current.card \in Card
    BY <1>2 DEF BindingEvent, Link
  <1>4. /\ IsMain => Link \in MainLinks /\ Link \notin OtherLinks
        /\ ~IsMain => Link \in OtherLinks
    BY <1>3, BindingAssumption DEF IsMain, Links
  <1>5. DesiredHost(Current.card) \in Hosts \union {None}
    BY <1>3 DEF DesiredHost, Card
  <1> QED BY <1>1, <1>2, <1>3, <1>4, <1>5

\* What a write to the main profile does to the cards of CMDBuild.
LEMMA EffectMain ==
    ASSUME IInv, pc = "write", Effect, IsMain
    PROVE  /\ main' \in [MainLinks -> Hosts \union {None}]
           /\ exists[Link] /\ main'[Link] = DesiredHost(Current.card)
           /\ \A l \in MainLinks : l # Link => main'[l] = main[l]
           /\ UNCHANGED <<exists, cards>>
           /\ pending' = pending \union {Link}
  <1>1. /\ Link \in MainLinks /\ DesiredHost(Current.card) \in Hosts \union {None}
    BY CurrentType DEF IInv
  <1>2. /\ exists[Link] /\ main' = [main EXCEPT ![Link] = DesiredHost(Current.card)]
        /\ UNCHANGED <<exists, cards>>
        /\ pending' = pending \union {Link}
    BY DEF Effect
  <1>3. main \in [MainLinks -> Hosts \union {None}]
    BY DEF IInv, TypeOK
  <1> QED BY <1>1, <1>2, <1>3

\* A new card comes last, or the card at the target is overwritten.
LEMMA EffectOther ==
    ASSUME IInv, pc = "write", Effect, ~IsMain
    PROVE  /\ cards' \in [OtherLinks -> Seq(Card)]
           /\ \A l \in OtherLinks : l # Link => cards'[l] = cards[l]
           /\ target = 0 => /\ Len(cards'[Link]) = Len(cards[Link]) + 1
                            /\ cards'[Link][Len(cards[Link]) + 1] = Current.card
           /\ target # 0 => /\ target \in 1 .. Len(cards[Link])
                            /\ Len(cards'[Link]) = Len(cards[Link])
                            /\ cards'[Link][target] = Current.card
           /\ UNCHANGED <<main, exists>>
           /\ pending' = pending \union {Link}
  <1> DEFINE old == cards[Link]
             new == IF target = 0 THEN Append(old, Current.card)
                    ELSE [old EXCEPT ![target] = Current.card]
  <1>1. Link \in OtherLinks /\ Current.card \in Card
    BY CurrentType DEF IInv
  <1>2. /\ cards' = [cards EXCEPT ![Link] = new]
        /\ UNCHANGED <<main, exists>>
        /\ pending' = pending \union {Link}
    BY DEF Effect
  <1>3. cards \in [OtherLinks -> Seq(Card)] /\ target \in Nat
    BY DEF IInv, TypeOK
  <1>4. old \in Seq(Card)
    BY <1>1, <1>3
  <1>5. target # 0 => target \in DOMAIN old
    BY DEF IInv, TargetInv
  <1> HIDE DEF old
  <1>6. /\ new \in Seq(Card)
        /\ target = 0 => Len(new) = Len(old) + 1 /\ new[Len(old) + 1] = Current.card
        /\ target # 0 => /\ target \in 1 .. Len(old)
                         /\ Len(new) = Len(old) /\ new[target] = Current.card
    <2>1. CASE target = 0
      <3>1. new = Append(old, Current.card)
        BY <2>1
      <3> HIDE DEF new
      <3> QED BY <1>1, <1>4, <2>1, <3>1
    <2>2. CASE target # 0
      <3>1. new = [old EXCEPT ![target] = Current.card]
        BY <2>2
      <3> HIDE DEF new
      <3>2. target \in 1 .. Len(old)
        BY <1>4, <1>5, <2>2
      <3> QED BY <1>1, <1>4, <2>2, <3>1, <3>2
    <2> QED BY <2>1, <2>2
  <1> HIDE DEF new
  <1>7. /\ cards' \in [OtherLinks -> Seq(Card)] /\ cards'[Link] = new
        /\ \A l \in OtherLinks : l # Link => cards'[l] = cards[l]
    BY <1>1, <1>2, <1>3, <1>6
  <1> QED BY <1>2, <1>6, <1>7 DEF old

StoreOK == /\ main \in [MainLinks -> Hosts \union {None}]
           /\ exists \in [MainLinks -> BOOLEAN]
           /\ cards \in [OtherLinks -> Seq(Card)]
           /\ pending \subseteq Links

StoreInv == StoreOK /\ MainInv /\ CardsInv /\ DuplicatesPaidFor

\* The link written to is pending, the others are as they were; its card, if
\* it is one, is the event's.
LEMMA EffectInv ==
    ASSUME IInv, pc = "write", Effect, UNCHANGED <<input, latest>>,
           resends' \in Nat, resends' >= resends
    PROVE  /\ StoreInv'
           /\ IsMain /\ exists[Link] => main'[Link] = DesiredHost(Current.card)
           /\ ~IsMain => /\ target # 0 => target \in DOMAIN cards'[Link]
                         /\ target = 0 => Len(cards'[Link]) <= resends + 1
                         /\ Len(cards'[Link]) <= 1 =>
                               Len(cards'[Link]) = 1 /\ cards'[Link][1] = Current.card
  <1>1. /\ TypeOK /\ Busy /\ Link \in Links
        /\ IsMain => Link \in MainLinks /\ Link \notin OtherLinks
        /\ ~IsMain => Link \in OtherLinks
    BY CurrentType DEF IInv
  <1>2. resends \in Nat /\ pending \subseteq Links /\ \A l \in OtherLinks : Len(cards[l]) \in Nat
    BY BindingAssumption DEF IInv, TypeOK
  <1>3. CASE IsMain
    <2>1. /\ main' \in [MainLinks -> Hosts \union {None}]
          /\ exists[Link] /\ main'[Link] = DesiredHost(Current.card)
          /\ \A l \in MainLinks : l # Link => main'[l] = main[l]
          /\ UNCHANGED <<exists, cards>>
          /\ pending' = pending \union {Link}
      BY <1>3, EffectMain
    <2>2. StoreOK'
      BY <1>1, <1>2, <2>1 DEF TypeOK, StoreOK
    <2>3. MainInv'
      <3> SUFFICES ASSUME NEW l \in MainLinks
                   PROVE  /\ ~exists'[l] => main'[l] = None
                          /\ exists'[l] /\ l \notin pending' =>
                                main'[l] = IF latest'[l] = 0 THEN None
                                           ELSE DesiredHost(input'[latest'[l]].card)
        BY DEF MainInv, DesiredHost
      <3> QED BY <2>1 DEF IInv, MainInv, DesiredHost
    <2>4. CardsInv' /\ DuplicatesPaidFor'
      BY <1>2, <2>1 DEF IInv, CardsInv, DuplicatesPaidFor
    <2> QED BY <1>3, <2>1, <2>2, <2>3, <2>4 DEF StoreInv
  <1>4. CASE ~IsMain
    <2>1. /\ cards' \in [OtherLinks -> Seq(Card)]
          /\ \A l \in OtherLinks : l # Link => cards'[l] = cards[l]
          /\ target = 0 => /\ Len(cards'[Link]) = Len(cards[Link]) + 1
                           /\ cards'[Link][Len(cards[Link]) + 1] = Current.card
          /\ target # 0 => /\ target \in 1 .. Len(cards[Link])
                           /\ Len(cards'[Link]) = Len(cards[Link])
                           /\ cards'[Link][target] = Current.card
          /\ UNCHANGED <<main, exists>>
          /\ pending' = pending \union {Link}
      BY <1>4, EffectOther
    <2>2. StoreOK'
      BY <1>1, <1>2, <2>1 DEF TypeOK, StoreOK
    <2>3. MainInv'
      BY <2>1 DEF IInv, MainInv, DesiredHost
    <2>4. CardsInv'
      BY <2>1 DEF IInv, CardsInv
    <2>5. Link \in OtherLinks /\ Len(cards[Link]) \in Nat
      BY <1>1, <1>2, <1>4
    <2>6. target = 0 => Len(cards[Link]) <= resends
      BY <1>4 DEF IInv, CreationInv
    <2>7. \A l \in OtherLinks : Len(cards[l]) <= 1 + resends
      BY DEF IInv, DuplicatesPaidFor
    <2>8. Len(cards'[Link]) <= 1 + resends
      BY <1>2, <2>1, <2>5, <2>6, <2>7
    <2>9. DuplicatesPaidFor'
      <3> SUFFICES ASSUME NEW l \in OtherLinks PROVE Len(cards'[l]) <= 1 + resends'
        BY DEF DuplicatesPaidFor
      <3>1. Len(cards'[l]) \in Nat /\ Len(cards'[l]) <= 1 + resends
        BY <2>1, <2>7, <2>8
      <3> QED BY <1>2, <3>1
    <2>10. target # 0 => target \in DOMAIN cards'[Link]
      <3>1. cards'[Link] \in Seq(Card)
        BY <2>1, <2>5
      <3> QED BY <2>1, <3>1
    <2>11. Len(cards'[Link]) <= 1 => Len(cards'[Link]) = 1 /\ cards'[Link][1] = Current.card
      <3> SUFFICES ASSUME Len(cards'[Link]) <= 1
                   PROVE  Len(cards'[Link]) = 1 /\ cards'[Link][1] = Current.card
        OBVIOUS
      <3>1. CASE target = 0
        <4>1. Len(cards[Link]) + 1 = 1
          BY <2>1, <2>5, <3>1
        <4> QED BY <2>1, <3>1, <4>1
      <3>2. CASE target # 0
        <4>1. Len(cards[Link]) <= 1 /\ Len(cards'[Link]) = Len(cards[Link])
          BY <2>1, <3>2
        <4>2. target \in 1 .. Len(cards[Link])
          BY <2>1, <3>2
        <4>3. target = 1 /\ Len(cards[Link]) = 1
          BY <2>5, <4>1, <4>2, OneAtMost
        <4> QED BY <2>1, <3>2, <4>1, <4>3
      <3> QED BY <3>1, <3>2
    <2>12. target = 0 => Len(cards'[Link]) <= resends + 1
      BY <1>2, <2>1, <2>5, <2>8
    <2>13. StoreInv'
      BY <2>2, <2>3, <2>4, <2>9 DEF StoreInv
    <2> QED BY <1>4, <2>10, <2>11, <2>12, <2>13
  <1> QED BY <1>3, <1>4

\* Nothing in the store changes.
LEMMA StoreKept ==
    ASSUME IInv, UNCHANGED <<input, store, latest>>, resends' \in Nat, resends' >= resends
    PROVE  StoreInv'
  <1>1. resends \in Nat /\ \A l \in OtherLinks : Len(cards[l]) \in Nat
    BY BindingAssumption DEF IInv, TypeOK
  <1> QED BY <1>1 DEF IInv, TypeOK, StoreInv, StoreOK, MainInv, CardsInv, DuplicatesPaidFor,
                      DesiredHost, store

\* An idle worker has nothing to say about a current event.
LEMMA IdleInv ==
    ASSUME pc = "idle", TypeOK, StoreInv
    PROVE  IInv
  BY DEF IInv, Busy, AppliedInv, TargetInv, CreationInv, StoreInv

\* Initially no event was applied, and the cards are as found.
LEMMA InitInv == Init => IInv
  <1> SUFFICES ASSUME Init PROVE IInv
    OBVIOUS
  <1>1. TypeOK
    BY BindingAssumption DEF Init, TypeOK, Outcomes
  <1>2. pc = "idle" /\ resends = 0 /\ cards = [l \in OtherLinks |-> <<>>]
    BY DEF Init
  <1>3. \A l \in OtherLinks : Len(cards[l]) = 0 /\ l \in Links
    BY <1>2 DEF Links
  <1>4. MainInv
    BY DEF Init, MainInv, Links
  <1>5. CardsInv /\ DuplicatesPaidFor
    BY <1>2, <1>3 DEF Init, CardsInv, DuplicatesPaidFor
  <1>6. StoreOK
    BY <1>1 DEF TypeOK, StoreOK
  <1> QED BY <1>1, <1>2, <1>4, <1>5, <1>6, IdleInv DEF StoreInv

-----------------------------------------------------------------------------
(* The steps. *)

\* Between two events the link and what it wants stay the same.
LEMMA SameEvent ==
    UNCHANGED <<input, cursor>> => /\ Current' = Current /\ Link' = Link
                                   /\ IsMain' <=> IsMain
  BY DEF Current, Link, IsMain

\* An event is read from the topic and looked at; the store stays as it is.
LEMMA LookInv ==
    ASSUME IInv, pc # "idle" \/ cursor <= Length,
           UNCHANGED <<input, store, delivery, history, faults, resends, removals>>,
           pc' \in {"read", "write", "applied", "invalid_json"},
           target' \in Nat, attempt' \in 1 .. HttpAttempts, garbled' \in 0 .. MaxGarbled,
           pc' = "applied" => AppliedInv',
           pc' = "write" => TargetInv' /\ CreationInv'
    PROVE  IInv'
  <1>1. resends \in Nat /\ resends' = resends
    BY BindingAssumption DEF IInv, TypeOK
  <1>2. TypeOK'
    BY DEF IInv, TypeOK, store, delivery, history
  <1>3. StoreInv'
    BY <1>1, StoreKept DEF history
  <1>4. Busy'
    BY DEF IInv, Busy, delivery
  <1>5. AppliedInv' /\ TargetInv' /\ CreationInv'
    BY DEF AppliedInv, TargetInv, CreationInv
  <1> QED BY <1>2, <1>3, <1>4, <1>5 DEF IInv, StoreInv

\* An event is taken from the topic.
LEMMA ReceiveInv == ASSUME IInv, Receive PROVE IInv'
  <1>1. /\ cursor <= Length /\ pc' \in {"read", "invalid_json"}
        /\ UNCHANGED <<input, store, delivery, target, attempt, history, counters>>
    BY DEF Receive
  <1>2. /\ target' \in Nat /\ attempt' \in 1 .. HttpAttempts /\ garbled' \in 0 .. MaxGarbled
        /\ UNCHANGED <<faults, resends, removals>>
    BY <1>1 DEF IInv, TypeOK, counters
  <1> QED BY <1>1, <1>2, LookInv

\* The attribute of the source card is read: as wanted, or to be written.
LEMMA ReadMainInv == ASSUME IInv, ReadMain PROVE IInv'
  <1>1. /\ pc = "read" /\ IsMain /\ attempt' = 1
        /\ pc' = IF ~exists[Link] \/ main[Link] = DesiredHost(Current.card)
                 THEN "applied" ELSE "write"
        /\ UNCHANGED <<input, store, delivery, target, history, counters>>
    BY DEF ReadMain
  <1>2. /\ target' \in Nat /\ attempt' \in 1 .. HttpAttempts /\ garbled' \in 0 .. MaxGarbled
        /\ UNCHANGED <<faults, resends, removals>>
    BY <1>1, BindingAssumption DEF IInv, TypeOK, counters
  <1>3. Current' = Current /\ Link' = Link /\ IsMain'
    BY <1>1, SameEvent DEF delivery
  <1>4. AppliedInv'
    BY <1>1, <1>3 DEF AppliedInv, store, DesiredHost
  <1>5. TargetInv' /\ CreationInv'
    BY <1>3 DEF TargetInv, CreationInv
  <1> QED BY <1>1, <1>2, <1>4, <1>5, LookInv

\* The binding card is looked up: as wanted, to be updated or created.
LEMMA FindCardInv == ASSUME IInv, FindCard PROVE IInv'
  <1>1. /\ pc = "read" /\ ~IsMain /\ attempt' = 1
        /\ UNCHANGED <<input, store, delivery, history, counters>>
    BY DEF FindCard
  <1>2. /\ attempt' \in 1 .. HttpAttempts /\ garbled' \in 0 .. MaxGarbled
        /\ UNCHANGED <<faults, resends, removals>>
    BY <1>1, BindingAssumption DEF IInv, TypeOK, counters
  <1>3. Current' = Current /\ Link' = Link /\ ~IsMain' /\ cards' = cards
    BY <1>1, SameEvent DEF delivery, store
  <1>4. Link \in OtherLinks /\ cards[Link] \in Seq(Card)
    BY <1>1, CurrentType DEF IInv, TypeOK
  <1>5. resends \in Nat
    BY BindingAssumption DEF IInv, TypeOK
  <1>6. CASE \E k \in DOMAIN cards[Link] :
                /\ target' = k
                /\ pc' = IF ProfileBindingMatches(cards[Link][k]) THEN "applied" ELSE "write"
    <2>1. PICK k \in DOMAIN cards[Link] :
                /\ target' = k
                /\ pc' = IF ProfileBindingMatches(cards[Link][k]) THEN "applied" ELSE "write"
      BY <1>6
    <2>2. k \in 1 .. Len(cards[Link]) /\ Len(cards[Link]) \in Nat
      BY <1>4
    <2>3. target' \in Nat /\ target' # 0 /\ target' \in DOMAIN cards'[Link']
      BY <1>3, <2>1, <2>2
    <2>4. pc' = "applied" => cards[Link][k] = Current.card
      BY <2>1 DEF ProfileBindingMatches
    <2>5. Len(cards[Link]) <= 1 => Len(cards[Link]) = 1 /\ k = 1
      BY <2>2, OneAtMost
    <2>6. AppliedInv'
      BY <1>3, <2>4, <2>5 DEF AppliedInv
    <2>7. TargetInv' /\ CreationInv'
      BY <2>3 DEF TargetInv, CreationInv
    <2> QED BY <1>1, <1>2, <2>1, <2>3, <2>6, <2>7, LookInv
  <1>7. CASE /\ \A k \in DOMAIN cards[Link] : ~FindBindingCard(Link, k)
             /\ target' = 0 /\ pc' = "write"
    <2>1. DOMAIN cards[Link] = {}
      BY <1>7 DEF FindBindingCard
    <2>2. Len(cards[Link]) = 0
      BY <1>4, <2>1, NoPlace
    <2>3. TargetInv' /\ CreationInv'
      BY <1>1, <1>3, <1>5, <1>7, <2>2 DEF TargetInv, CreationInv, counters
    <2> QED BY <1>1, <1>2, <1>7, <2>3, LookInv
  <1> QED BY <1>6, <1>7 DEF FindCard

\* The exception leaves the event behind, whatever became of the store.
LEMMA SkipInv ==
    ASSUME IInv, pc # "idle", Skip, StoreInv', UNCHANGED <<input, target, garbled, removals>>,
           attempt' \in 1 .. HttpAttempts, faults' \in 0 .. MaxFaults,
           resends' \in 0 .. MaxResends
    PROVE  IInv'
  <1>1. cursor \in Events /\ cursor \in Nat /\ cursor <= Length
    BY CurrentType, BindingAssumption DEF IInv, Busy, TypeOK
  <1>2. /\ outcome' = [outcome EXCEPT ![cursor] = "skipped"] /\ cursor' = cursor + 1
        /\ pc' = "idle" /\ UNCHANGED <<recorded, latest>>
    BY DEF Skip
  <1>3. /\ cursor' \in 1 .. Length + 1 /\ recorded' \in 0 .. cursor' - 1
        /\ outcome' \in [Events -> Outcomes]
    BY <1>1, <1>2, BindingAssumption DEF IInv, TypeOK, Outcomes
  <1>4. TypeOK'
    BY <1>2, <1>3 DEF IInv, TypeOK, StoreInv, StoreOK
  <1>5. (pc = "idle")'
    BY <1>2
  <1> QED BY <1>4, <1>5 DEF IInv, Busy, AppliedInv, TargetInv, CreationInv, StoreInv

\* A fault is within its bound.
LEMMA FaultCounted ==
    ASSUME TypeOK, faults < MaxFaults, faults' = faults + 1
    PROVE  faults' \in 0 .. MaxFaults
  BY BindingAssumption DEF TypeOK

\* A look-up fails: the main profile is written unread, others are skipped.
LEMMA ReadFailsInv == ASSUME IInv, ReadFails PROVE IInv'
  <1>1. /\ pc = "read" /\ faults' \in 0 .. MaxFaults
        /\ UNCHANGED <<input, store, target, resends, garbled, removals>>
    BY FaultCounted DEF ReadFails, IInv
  <1>2. /\ resends \in 0 .. MaxResends /\ resends \in Nat
        /\ target \in Nat /\ attempt \in 1 .. HttpAttempts /\ 1 \in 1 .. HttpAttempts
    BY BindingAssumption DEF IInv, TypeOK
  <1>3. CASE IsMain
    <2>1. pc' = "write" /\ attempt' = 1 /\ UNCHANGED <<delivery, history>>
      BY <1>3 DEF ReadFails, WriteUnread
    <2>2. IsMain'
      BY <1>1, <1>3, <2>1, SameEvent DEF delivery
    <2>3. StoreInv'
      BY <1>1, <1>2, <2>1, StoreKept DEF history
    <2>4. TypeOK'
      BY <1>1, <1>2, <2>1 DEF IInv, TypeOK, store, delivery, history
    <2>5. Busy'
      BY <1>1, <2>1 DEF IInv, Busy, delivery
    <2> QED BY <2>1, <2>2, <2>3, <2>4, <2>5 DEF IInv, StoreInv, AppliedInv, TargetInv, CreationInv
  <1>4. CASE ~IsMain
    <2>1. Skip /\ UNCHANGED attempt
      BY <1>4 DEF ReadFails
    <2>2. StoreInv'
      BY <1>1, <1>2, <2>1, StoreKept DEF Skip
    <2> QED BY <1>1, <1>2, <2>1, <2>2, SkipInv
  <1> QED BY <1>3, <1>4

\* A look-up is answered with something that is not JSON.
LEMMA ReadGarbledInv == ASSUME IInv, ReadGarbled PROVE IInv'
  <1>1. /\ pc = "read" /\ garbled < MaxGarbled /\ garbled' = garbled + 1
        /\ UNCHANGED <<input, store, delivery, target, history, faults, resends, removals>>
        /\ \/ IsMain /\ pc' = "write" /\ attempt' = 1
           \/ ~IsMain /\ pc' = "invalid_json" /\ attempt' = attempt
    BY DEF ReadGarbled, WriteUnread
  <1>2. /\ garbled' \in 0 .. MaxGarbled /\ attempt' \in 1 .. HttpAttempts /\ target' \in Nat
    BY <1>1, BindingAssumption DEF IInv, TypeOK
  <1>3. pc' = "write" => IsMain'
    BY <1>1, SameEvent DEF delivery
  <1>4. pc' = "write" => TargetInv' /\ CreationInv'
    BY <1>3 DEF TargetInv, CreationInv
  <1> QED BY <1>1, <1>2, <1>4, LookInv

\* The write takes effect and the event goes on.
LEMMA WriteInv == ASSUME IInv, Write \/ WriteGarbled PROVE IInv'
  <1>1. /\ pc = "write" /\ Effect /\ pc' \in {"applied", "invalid_json"}
        /\ UNCHANGED <<input, delivery, target, attempt, history, faults, resends, removals>>
        /\ garbled' = garbled \/ (garbled < MaxGarbled /\ garbled' = garbled + 1)
    BY DEF Write, WriteGarbled, counters
  <1>2. /\ garbled' \in 0 .. MaxGarbled /\ resends' \in Nat /\ resends' >= resends
        /\ latest' = latest
    BY <1>1, BindingAssumption DEF IInv, TypeOK, history
  <1>3. /\ StoreInv'
        /\ IsMain /\ exists[Link] => main'[Link] = DesiredHost(Current.card)
        /\ ~IsMain => (Len(cards'[Link]) <= 1 =>
                          Len(cards'[Link]) = 1 /\ cards'[Link][1] = Current.card)
        /\ UNCHANGED exists \/ ~IsMain
    BY <1>1, <1>2, EffectInv DEF Effect
  <1>4. Current' = Current /\ Link' = Link /\ (IsMain' <=> IsMain)
    BY <1>1, SameEvent DEF delivery
  <1>5. AppliedInv'
    BY <1>3, <1>4 DEF AppliedInv, DesiredHost
  <1>6. TypeOK'
    BY <1>1, <1>2, <1>3 DEF IInv, TypeOK, StoreInv, StoreOK, delivery, history
  <1>7. Busy' /\ TargetInv' /\ CreationInv'
    BY <1>1 DEF IInv, Busy, TargetInv, CreationInv, delivery
  <1> QED BY <1>3, <1>5, <1>6, <1>7 DEF IInv, StoreInv

\* The HTTP handler sends a write again that had taken effect.
LEMMA ResendInv == ASSUME IInv, Resend PROVE IInv'
  <1>1. /\ pc = "write" /\ Effect /\ pc' = pc
        /\ UNCHANGED <<input, delivery, target, history, faults, garbled, removals>>
        /\ attempt < HttpAttempts /\ attempt' = attempt + 1
        /\ resends < MaxResends /\ resends' = resends + 1
    BY DEF Resend
  <1>2. /\ attempt' \in 1 .. HttpAttempts /\ resends' \in 0 .. MaxResends
        /\ resends \in Nat /\ resends' \in Nat /\ resends' >= resends /\ latest' = latest
    BY <1>1, BindingAssumption DEF IInv, TypeOK, history
  <1>3. /\ StoreInv'
        /\ ~IsMain => /\ target # 0 => target \in DOMAIN cards'[Link]
                      /\ target = 0 => Len(cards'[Link]) <= resends + 1
    BY <1>1, <1>2, EffectInv
  <1>4. Current' = Current /\ Link' = Link /\ (IsMain' <=> IsMain)
    BY <1>1, SameEvent DEF delivery
  <1>5. TargetInv' /\ CreationInv'
    BY <1>1, <1>3, <1>4 DEF TargetInv, CreationInv
  <1>6. TypeOK'
    BY <1>1, <1>2, <1>3 DEF IInv, TypeOK, StoreInv, StoreOK, delivery, history
  <1>7. Busy' /\ AppliedInv'
    BY <1>1 DEF IInv, Busy, AppliedInv, delivery
  <1> QED BY <1>3, <1>5, <1>6, <1>7 DEF IInv, StoreInv

\* A write fails, with or without effect.
LEMMA WriteFailsInv == ASSUME IInv, WriteFails PROVE IInv'
  <1>1. /\ Effect \/ UNCHANGED store
        /\ Skip /\ faults' \in 0 .. MaxFaults
        /\ UNCHANGED <<input, target, attempt, resends, garbled, removals>>
    BY FaultCounted DEF WriteFails, IInv
  <1>2. /\ resends' \in 0 .. MaxResends /\ resends' \in Nat /\ resends' >= resends
        /\ attempt' \in 1 .. HttpAttempts /\ latest' = latest
    BY <1>1, BindingAssumption DEF IInv, TypeOK, Skip
  <1>3. pc = "write"
    BY DEF WriteFails
  <1>4. StoreInv'
    BY <1>1, <1>2, <1>3, EffectInv, StoreKept
  <1> QED BY <1>1, <1>2, <1>3, <1>4, SkipInv

\* CMDBuild refuses a write.
LEMMA WriteRefusedInv == ASSUME IInv, WriteRefused PROVE IInv'
  <1>1. pc = "write" /\ Skip /\ UNCHANGED <<input, store, target, attempt, counters>>
    BY DEF WriteRefused
  <1>2. /\ resends' \in 0 .. MaxResends /\ resends' \in Nat /\ resends' >= resends
        /\ attempt' \in 1 .. HttpAttempts /\ faults' \in 0 .. MaxFaults
        /\ UNCHANGED <<latest, garbled, removals>>
    BY <1>1, BindingAssumption DEF IInv, TypeOK, Skip, counters
  <1>3. StoreInv'
    BY <1>1, <1>2, StoreKept
  <1> QED BY <1>1, <1>2, <1>3, SkipInv

\* What is recorded as applied is what the store says.
LEMMA RecordInv == ASSUME IInv, Record PROVE IInv'
  <1>1. /\ pc \in {"applied", "invalid_json"}
        /\ recorded' = cursor /\ cursor' = cursor + 1 /\ pc' = "idle"
        /\ outcome' = [outcome EXCEPT ![cursor] = pc]
        /\ UNCHANGED <<input, main, exists, cards, target, attempt, faults, resends, garbled,
                       removals>>
    BY DEF Record, counters
  <1>2. /\ cursor \in Events /\ cursor \in Nat /\ cursor # 0 /\ cursor <= Length
        /\ Link \in Links
        /\ IsMain => Link \in MainLinks /\ Link \notin OtherLinks
        /\ ~IsMain => Link \in OtherLinks
    BY <1>1, CurrentType, BindingAssumption DEF IInv, Busy, Events
  <1>3. latest \in [Links -> Events \union {0}] /\ pending \subseteq Links
    BY DEF IInv, TypeOK
  <1>4. \/ /\ pc = "applied"
           /\ latest' = [latest EXCEPT ![Link] = cursor]
           /\ pending' = pending \ {Link}
        \/ UNCHANGED <<latest, pending>>
    BY DEF Record
  <1>5. /\ latest' \in [Links -> Events \union {0}] /\ pending' \subseteq Links
        /\ \A l \in Links : l # Link => latest'[l] = latest[l] /\ (l \in pending' <=> l \in pending)
        /\ \/ pc = "applied" /\ latest'[Link] = cursor
           \/ UNCHANGED <<latest, pending>>
    BY <1>2, <1>3, <1>4
  <1>6. /\ cursor' \in 1 .. Length + 1 /\ recorded' \in 0 .. cursor' - 1
        /\ outcome' \in [Events -> Outcomes]
    BY <1>1, <1>2, BindingAssumption DEF IInv, TypeOK, Outcomes
  <1>7. TypeOK'
    BY <1>1, <1>5, <1>6 DEF IInv, TypeOK
  <1>8. Current = input[cursor]
    BY DEF Current
  <1>9. MainInv'
    <2> SUFFICES ASSUME NEW l \in MainLinks
                 PROVE  /\ ~exists[l] => main[l] = None
                        /\ exists[l] /\ l \notin pending' =>
                              main[l] = IF latest'[l] = 0 THEN None
                                        ELSE DesiredHost(input[latest'[l]].card)
      BY <1>1 DEF MainInv, DesiredHost
    <2>1. l \in Links
      BY DEF Links
    <2>2. CASE l # Link \/ UNCHANGED <<latest, pending>>
      BY <1>5, <2>1, <2>2 DEF IInv, MainInv
    <2>3. CASE l = Link /\ pc = "applied" /\ latest'[Link] = cursor
      <3>1. IsMain
        BY <1>2, <2>3, BindingAssumption
      <3> QED BY <1>2, <1>8, <2>3, <3>1 DEF IInv, MainInv, AppliedInv
    <2> QED BY <1>5, <2>2, <2>3
  <1>10. CardsInv'
    <2> SUFFICES ASSUME NEW l \in OtherLinks, l \notin pending', Len(cards[l]) <= 1
                 PROVE  /\ latest'[l] = 0 => Len(cards[l]) = 0
                        /\ latest'[l] # 0 => /\ Len(cards[l]) = 1
                                             /\ cards[l][1] = input[latest'[l]].card
      BY <1>1 DEF CardsInv
    <2>1. l \in Links
      BY DEF Links
    <2>2. CASE l # Link \/ UNCHANGED <<latest, pending>>
      BY <1>5, <2>1, <2>2 DEF IInv, CardsInv
    <2>3. CASE l = Link /\ pc = "applied" /\ latest'[Link] = cursor
      <3>1. ~IsMain
        BY <1>2, <2>3
      <3> QED BY <1>2, <1>8, <2>3, <3>1 DEF IInv, AppliedInv
    <2> QED BY <1>5, <2>2, <2>3
  <1>11. StoreOK' /\ DuplicatesPaidFor'
    BY <1>1, <1>5 DEF IInv, TypeOK, StoreOK, DuplicatesPaidFor
  <1>12. (pc = "idle")'
    BY <1>1
  <1> QED BY <1>7, <1>9, <1>10, <1>11, <1>12
          DEF IInv, Busy, AppliedInv, TargetInv, CreationInv

\* The worker dies and resumes after its recorded event.
LEMMA CrashInv == ASSUME IInv, Crash PROVE IInv'
  <1>1. /\ (pc = "write" /\ Effect) \/ UNCHANGED store
        /\ faults' \in 0 .. MaxFaults
        /\ cursor' = recorded + 1 /\ pc' = "idle"
        /\ UNCHANGED <<input, recorded, target, attempt, history, resends, garbled, removals>>
    BY FaultCounted DEF Crash, IInv
  <1>2. /\ resends' \in Nat /\ resends' >= resends /\ latest' = latest
    BY <1>1, BindingAssumption DEF IInv, TypeOK, history
  <1>3. StoreInv'
    BY <1>1, <1>2, EffectInv, StoreKept
  <1>4. cursor' \in 1 .. Length + 1 /\ recorded' \in 0 .. cursor' - 1
    BY <1>1, BindingAssumption DEF IInv, TypeOK
  <1>5. TypeOK'
    BY <1>1, <1>3, <1>4 DEF IInv, TypeOK, StoreInv, StoreOK, history
  <1>6. (pc = "idle")'
    BY <1>1
  <1> QED BY <1>3, <1>5, <1>6 DEF IInv, Busy, AppliedInv, TargetInv, CreationInv, StoreInv

\* The source card is removed in CMDBuild.
LEMMA RemoveInv == ASSUME IInv, NEW l \in MainLinks, Remove(l) PROVE IInv'
  <1>1. /\ removals < MaxRemovals /\ removals' = removals + 1
        /\ exists' = [exists EXCEPT ![l] = FALSE]
        /\ main' = [main EXCEPT ![l] = None]
        /\ UNCHANGED <<input, cards, pending, delivery, pc, target, attempt, history, faults,
                       resends, garbled>>
    BY DEF Remove
  <1>2. /\ main \in [MainLinks -> Hosts \union {None}] /\ exists \in [MainLinks -> BOOLEAN]
    BY DEF IInv, TypeOK
  <1>3. /\ main' \in [MainLinks -> Hosts \union {None}] /\ exists' \in [MainLinks -> BOOLEAN]
        /\ ~exists'[l] /\ main'[l] = None
        /\ \A k \in MainLinks : k # l => main'[k] = main[k] /\ exists'[k] = exists[k]
    BY <1>1, <1>2
  <1>4. removals' \in 0 .. MaxRemovals
    BY <1>1, BindingAssumption DEF IInv, TypeOK
  <1>5. TypeOK'
    BY <1>1, <1>3, <1>4 DEF IInv, TypeOK, delivery, history
  <1>6. MainInv'
    BY <1>1, <1>3 DEF IInv, MainInv, DesiredHost, history
  <1>7. CardsInv' /\ DuplicatesPaidFor'
    BY <1>1 DEF IInv, CardsInv, DuplicatesPaidFor, history
  <1>8. Current' = Current /\ Link' = Link /\ (IsMain' <=> IsMain) /\ cursor' = cursor
    BY <1>1, SameEvent DEF delivery
  <1>9. Busy' /\ TargetInv' /\ CreationInv'
    BY <1>1, <1>8 DEF IInv, Busy, TargetInv, CreationInv
  <1>10. AppliedInv'
    <2> SUFFICES ASSUME pc = "applied"
                 PROVE  /\ IsMain /\ exists'[Link] => main'[Link] = DesiredHost(Current.card)
                        /\ ~IsMain /\ Len(cards[Link]) <= 1 =>
                              Len(cards[Link]) = 1 /\ cards[Link][1] = Current.card
      BY <1>1, <1>8 DEF AppliedInv, DesiredHost
    <2>1. IsMain => Link \in MainLinks
      BY DEF IsMain
    <2> QED BY <1>3, <2>1 DEF IInv, AppliedInv
  <1> QED BY <1>5, <1>6, <1>7, <1>9, <1>10 DEF IInv

-----------------------------------------------------------------------------
\* Every step keeps the invariant.
LEMMA StepInv == IInv /\ [Next]_vars => IInv'
  <1> SUFFICES ASSUME IInv, [Next]_vars PROVE IInv'
    OBVIOUS
  <1>1. CASE Receive \/ ReadMain \/ FindCard \/ ReadFails \/ ReadGarbled
    BY <1>1, ReceiveInv, ReadMainInv, FindCardInv, ReadFailsInv, ReadGarbledInv
  <1>2. CASE Write \/ WriteGarbled \/ Resend \/ WriteFails \/ WriteRefused
    BY <1>2, WriteInv, ResendInv, WriteFailsInv, WriteRefusedInv
  <1>3. CASE Record \/ Crash
    BY <1>3, RecordInv, CrashInv
  <1>4. CASE \E l \in MainLinks : Remove(l)
    BY <1>4, RemoveInv
  <1>5. CASE UNCHANGED vars
    BY <1>5 DEF vars, store, delivery, history, counters, IInv, TypeOK, Busy, MainInv, CardsInv,
                AppliedInv, TargetInv, CreationInv, DuplicatesPaidFor, Current, Link, IsMain,
                DesiredHost
  <1> QED BY <1>1, <1>2, <1>3, <1>4, <1>5 DEF Next

\* The worker and the store it writes to keep their types.
THEOREM TypeCorrect == Spec => []TypeOK
  <1>1. IInv => TypeOK
    BY DEF IInv
  <1> QED BY <1>1, InitInv, StepInv, PTL DEF Spec

\* A link gets a second card from a creation sent twice only
\* (UpsertProfileBindingAsync looks before it writes).
THEOREM DuplicatesAreResends == Spec => []DuplicatesPaidFor
  <1>1. IInv => DuplicatesPaidFor
    BY DEF IInv
  <1> QED BY <1>1, InitInv, StepInv, PTL DEF Spec

\* Between writes the converter finds exactly the host of the last event that
\* was applied (ApplyAsync, ResolveHostIdAsync).
LEMMA SettledResolved == IInv => ResolverFollowsEvents
  <1> SUFFICES ASSUME IInv, NEW l \in Links, Settled(l) PROVE Resolved(l) = Bound(l)
    BY DEF ResolverFollowsEvents
  <1>1. latest[l] # 0 => /\ latest[l] \in Events
                         /\ input[latest[l]].card \in Card
    BY DEF IInv, TypeOK, BindingEvent
  <1>2. CASE l \in MainLinks
    BY <1>1, <1>2 DEF IInv, MainInv, Settled, Resolved, Bound
  <1>3. CASE l \in OtherLinks /\ l \notin MainLinks
    <2>1. /\ cards[l] \in Seq(Card) /\ Len(cards[l]) <= 1
          /\ latest[l] = 0 => Len(cards[l]) = 0
          /\ latest[l] # 0 => Len(cards[l]) = 1 /\ cards[l][1] = input[latest[l]].card
      BY <1>3 DEF IInv, TypeOK, CardsInv, Settled
    <2>2. CASE latest[l] = 0
      <3>1. DOMAIN cards[l] = {}
        BY <2>1, <2>2
      <3> QED BY <1>3, <2>2, <3>1 DEF Resolved, Bound
    <2>3. CASE latest[l] # 0
      <3>1. DOMAIN cards[l] = {1} /\ cards[l][1] = input[latest[l]].card
        BY <2>1, <2>3
      <3> DEFINE card == input[latest[l]].card
      <3>2. /\ card.host \in Hosts /\ card.status \in {"active", "deleted"}
            /\ card.host # None
        BY <1>1, <2>3, BindingAssumption DEF Card
      <3>3. Resolved(l) = IF card.status = "active" THEN {card.host} ELSE {}
        BY <1>3, <3>1 DEF Resolved
      <3>4. Bound(l) = {DesiredHost(card)} \ {None}
        BY <1>3, <2>3 DEF Bound
      <3> HIDE DEF card
      <3> QED BY <3>2, <3>3, <3>4 DEF DesiredHost
    <2> QED BY <2>2, <2>3
  <1> QED BY <1>2, <1>3 DEF Links

\* The converter resolves, for every link
\* without a write left behind or a second card, the host last bound.
THEOREM ResolverIsRight == Spec => []ResolverFollowsEvents
  BY InitInv, StepInv, SettledResolved, PTL DEF Spec

=============================================================================
