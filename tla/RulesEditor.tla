----------------------------- MODULE RulesEditor -----------------------------
(***************************************************************************)
(* Editors at "Conversion Rules Management": each page of the UI keeps a   *)
(* draft with its undo history (public/app.js), reads the active rules     *)
(* file through the BFF and publishes the draft over it (server.mjs).      *)
(*                                                                         *)
(* What the forms do to a document is MappingRules; how the BFF replaces   *)
(* the file is RulesPublication, here one step.  A revision, the SHA-256   *)
(* of the content, is the document itself; nextRulesVersion gives a new    *)
(* version at every saving.                                                *)
(***************************************************************************)
EXTENDS DraftChecks

CONSTANTS Pages,
          Starts,         \* bounds: a rules file to start from, and how many edits of
                          \* each page, savings and readings are followed from it
          RuleForms, ProfileForms,
          RuleNames       \* the names of new rules, in the order they are given

VARIABLES active,   \* the active rules file
          page,     \* the state of each page
          edits, saves, reads \* edits of each page, savings and readings left
vars == <<active, page, edits, saves, reads>>

(***************************************************************************)
(* draft, hist, at: mappingDraftRules, mappingHistory and its index; rev:  *)
(* currentRules.revision; sent: the draft that a publication or a saving   *)
(* under way was prepared from, with its revision. No state of the page,   *)
(* but kept to state what a publication replaces: source, the file that    *)
(* the draft was made from, and over, whether the page has taken over the  *)
(* revision of a newer file and kept the draft.                            *)
(***************************************************************************)
Idle == [doing |-> "nothing"]
Loaded(doc, rev) ==
    [draft |-> doc, hist |-> <<doc>>, at |-> 1, rev |-> rev, sent |-> Idle,
     source |-> rev, over |-> FALSE]

Clean(s) == s.at = 1 /\ s.draft = s.hist[1]

Init ==
    \E start \in Starts :
        /\ active = start.active
        /\ page = [p \in Pages |-> Loaded(active, active)]
        /\ edits = start.edits /\ saves = start.saves /\ reads = start.reads

(***************************************************************************)
(* Reading the active rules                                                *)
(***************************************************************************)
Read == reads > 0 /\ reads' = reads - 1 /\ UNCHANGED <<active, edits, saves>>

\* "Load rules" replaces the draft, whatever was edited.
LoadMapping(p) ==
    /\ Read
    /\ page' = [page EXCEPT ![p] = [Loaded(active, active) EXCEPT !.sent = page[p].sent]]

\* Analyzing webhooks and loadRules of other views take the revision over and
\* leave the draft as it is.
TakenOver(s) == [s EXCEPT !.rev = active, !.over = active # s.source]
RefreshRevision(p) ==
    Read /\ page' = [page EXCEPT ![p] = TakenOver(@)]

\* loadRules with syncLoadedRuleEditors: a draft nobody touched follows.
Synced(s) ==
    IF Clean(s) THEN [Loaded(active, active) EXCEPT !.sent = s.sent] ELSE TakenOver(s)

RetryReload(p) ==
    Read /\ page' = [page EXCEPT ![p] = Synced(@)]

(***************************************************************************)
(* Editing, undo and redo                                                  *)
(***************************************************************************)
Push(s, doc) ==
    [s EXCEPT !.draft = doc, !.hist = Append(SubSeq(@, 1, s.at), doc), !.at = s.at + 1]

\* An edit that changes nothing is left out: it adds to the history what is there.
Edited(p, doc) ==
    /\ edits[p] > 0 /\ doc # page[p].draft
    /\ page' = [page EXCEPT ![p] = Push(@, doc)]
    /\ edits' = [edits EXCEPT ![p] = @ - 1] /\ UNCHANGED <<active, saves, reads>>

NewName(doc) ==
    LET used == {r.name : r \in ToSet(doc.selectionRules)}
    IN  FirstWhere(RuleNames, LAMBDA n : n \notin used)

Add(p) == \E form \in RuleForms :
    LET doc == page[p].draft
    IN  /\ RuleFormValid(doc, form) /\ NewName(doc) # <<>>
        /\ Edited(p, AddRule(doc, NewName(doc)[1], form))

\* A rule is modified from its own condition or from another one.
Modify(p) == \E i \in Editable(page[p].draft), form \in RuleForms, keep \in BOOLEAN :
    LET doc == page[p].draft
        rule == doc.selectionRules[i]
        filled == IF keep THEN [form EXCEPT !.when = UserCondition(rule.when)] ELSE form
    IN  /\ RuleFormValid(doc, filled) /\ RuleOf(rule.name, filled) # rule
        /\ Edited(p, ModifyRule(doc, i, filled))

Delete(p) == \E i \in Scoped(page[p].draft) : Edited(p, DeleteRule(page[p].draft, i))

Create(p) == \E form \in ProfileForms :
    CreateFormValid(page[p].draft, form) /\ Edited(p, CreateProfile(page[p].draft, form))

Save(p) == \E i \in DOMAIN page[p].draft.hostProfiles, form \in ProfileForms :
    SaveFormValid(page[p].draft, i, form) /\ Edited(p, SaveProfile(page[p].draft, i, form))

Remove(p) == \E profile \in ToSet(page[p].draft.hostProfiles) :
    Edited(p, DeleteProfile(page[p].draft, profile.name))

Edit(p) == edits[p] > 0 /\ (Add(p) \/ Modify(p) \/ Delete(p) \/ Create(p) \/ Save(p) \/ Remove(p))

GoTo(p, i) ==
    /\ i \in DOMAIN page[p].hist
    /\ page' = [page EXCEPT ![p].at = i, ![p].draft = page[p].hist[i]]
    /\ UNCHANGED <<active, edits, saves, reads>>
Undo(p) == GoTo(p, page[p].at - 1)
Redo(p) == GoTo(p, page[p].at + 1)

(***************************************************************************)
(* Saving and publishing.  The page goes on while the server, or the file  *)
(* dialogs, have the draft: the editor may edit, undo and read.            *)
(***************************************************************************)
Begin(p, doing) ==
    LET s == page[p]
    IN  /\ s.sent = Idle /\ saves > 0
        /\ saves' = saves - 1
        /\ page' = [page EXCEPT ![p].sent =
                [doing |-> doing, doc |-> [s.draft EXCEPT !.version = saves],
                 draft |-> s.draft, rev |-> s.rev, source |-> s.source, over |-> s.over]]
        /\ UNCHANGED <<active, edits, reads>>
BeginPublish(p) == Begin(p, "publish")
BeginFile(p) == Begin(p, "file")

\* Mutant: the server does not compare the revision with its file's.
PublishOverAny(p) ==
    LET sent == page[p].sent
    IN  /\ sent.doing = "publish"
        /\ \/ /\ Accepted(sent.doc)
              /\ active' = sent.doc
              /\ \E doing \in {"saved", "lost"} : page' = [page EXCEPT ![p].sent.doing = doing]
           \/ /\ ~Accepted(sent.doc)
              /\ page' = [page EXCEPT ![p].sent = Idle] /\ UNCHANGED active
        /\ UNCHANGED <<edits, saves, reads>>

\* The server refuses what it does not accept and what another revision was
\* sent for; the answer of a publication may get lost.
Publish(p) ==
    LET sent == page[p].sent
    IN  /\ sent.doing = "publish"
        /\ \/ /\ Accepted(sent.doc) /\ sent.rev = active
              /\ active' = sent.doc
              /\ \E doing \in {"saved", "lost"} : page' = [page EXCEPT ![p].sent.doing = doing]
           \/ /\ ~Accepted(sent.doc) \/ sent.rev # active
              /\ page' = [page EXCEPT ![p].sent = Idle] /\ UNCHANGED active
        /\ UNCHANGED <<edits, saves, reads>>

\* rememberSavedRulesContent: what was sent takes the place of the draft and of
\* the entry of the history that is shown now.
Remembered(s) ==
    [s EXCEPT !.draft = s.sent.doc, !.hist[s.at] = s.sent.doc]

\* From now on the draft is made from the file that was published.
Answer(p) ==
    LET s == page[p]
    IN  /\ s.sent.doing = "saved"
        /\ page' = [page EXCEPT ![p] = [Remembered(s) EXCEPT !.sent.doing = "reload",
               !.source = s.sent.doc, !.over = s.rev \notin {s.sent.rev, s.sent.doc}]]
        /\ UNCHANGED <<active, edits, saves, reads>>

\* The reload that follows reads whatever is active by then.
Reload(p) ==
    /\ page[p].sent.doing = "reload"
    /\ page' = [page EXCEPT ![p] = [Synced(@) EXCEPT !.sent = Idle]]
    /\ UNCHANGED <<active, edits, saves, reads>>

\* The request, the dialogs or the reload fail, or are cancelled: the draft stays,
\* and so does the revision.
GiveUp(p) ==
    /\ page[p].sent.doing \in {"file", "lost", "publish", "reload"}
    /\ page' = [page EXCEPT ![p].sent = Idle]
    /\ UNCHANGED <<active, edits, saves, reads>>

SaveAsFile(p) ==
    /\ page[p].sent.doing = "file"
    /\ page' = [page EXCEPT ![p] = [Remembered(@) EXCEPT !.sent = Idle]]
    /\ UNCHANGED <<active, edits, saves, reads>>

Next ==
    \E p \in Pages :
        \/ LoadMapping(p) \/ RefreshRevision(p) \/ RetryReload(p)
        \/ Edit(p) \/ Undo(p) \/ Redo(p)
        \/ BeginPublish(p) \/ BeginFile(p) \/ Publish(p) \/ Answer(p) \/ Reload(p)
        \/ GiveUp(p) \/ SaveAsFile(p)

Spec == Init /\ [][Next]_vars

(***************************************************************************)
(* Properties                                                              *)
(***************************************************************************)
\* Whatever an editor adds, renames, deletes and undoes, the draft stays one the
\* BFF accepts: no rule is left without its profile, with a field of another
\* class or with a malformed condition (saveMappingHostProfile,
\* removeHostProfileAndScopedRules, modifyMappingConversionRule).
DraftStaysAccepted == \A p \in Pages : Accepted(page[p].draft)

\* Creating, saving, renaming or deleting a profile leaves the rules of every
\* profile that keeps its name as they are (renameHostProfileReferences,
\* removeHostProfileAndScopedRules).
RulesFor(doc, name) ==
    {r \in ToSet(doc.selectionRules) : RequiredHostProfileName(r.when) = name}
NamesIn(doc) == {profile.name : profile \in ToSet(doc.hostProfiles)}
TouchedBy(old, new) ==
    {n \in NamesIn(old) \cup NamesIn(new) : RulesFor(old, n) # RulesFor(new, n)}
OthersKeepTheirRules ==
    [][\A p \in Pages :
        LET old == page[p].draft
            new == page'[p].draft
        IN  edits'[p] # edits[p] /\ new.hostProfiles # old.hostProfiles =>
                TouchedBy(old, new) \cap NamesIn(old) \cap NamesIn(new) = {}]_vars

\* An editor's publication replaces the very file that his draft was made from,
\* and no other editor's, through lost answers, failed reloads, undoing and saving
\* as a file. Out of its reach is the page that took over a newer file's revision
\* and kept its draft (analyzeCmdbuildWebhooks, loadRules after a publication):
\* there the other editor's publication is replaced unseen.
ReplacesItsSource ==
    [][\A p \in Pages :
        LET sent == page[p].sent
        IN  active' # active /\ page'[p].sent # sent /\ ~sent.over => active = sent.source]_vars

\* The webhooks that an analysis plans for the active rules send whatever field
\* these read of a card of the class: cards that agree on the fields sent agree
\* on each rule's condition, and when it matches everything else it reads is
\* among them (requirementsForClass, expressionMayApplyToClass and
\* prunePathCoveredRequirements, against matchesExpression).
UsesAreServed ==
    [][(\E p \in Pages : RefreshRevision(p)) =>
        UsesServed(Payload(active), Catalog, BuildRequirements(Payload(active), Catalog))]_vars

\* Who set webhooks up by hand for the document a draft was loaded from and then
\* follows the file saved with the draft, has webhooks that send every field the
\* draft's rules read, also for classes the file has no body for: renamed and
\* modified rules, moved profiles and what was undone are noticed
\* (mappingSessionChanges, classesForRuleChange, webhookBodyForClassEvent).
FileTellsEnough(old, new) ==
    LET hooks == SetUpByHand(old, new)
    IN  \A c \in DOMAIN hooks : \A f \in NeededFields(new, c) : BodyHasField(hooks[c], f)

\* A class the editor warns about before saving gets no host from any card;
\* with profiles as the forms make them, every other class gets one
\* (validateMappingDraftBeforeSave against CmdbToZabbixConverter).
WarningsAreRight(doc) ==
    \A c \in {k \in MonitoredClasses(doc) : WebhookClass(k)} :
        /\ c \in WarnedClasses(doc) => ~Converts(doc, c)
        /\ MadeByForms(doc) /\ ~Converts(doc, c) => c \in WarnedClasses(doc)

\* Whatever edits led to a draft, the editor says right what saving it means.
SavingTellsRight ==
    [][\A p \in Pages :
        /\ edits'[p] # edits[p] => FileTellsEnough(page'[p].hist[1], page'[p].draft)
        /\ edits'[p] # edits[p] \/ RefreshRevision(p) => WarningsAreRight(page'[p].draft)]_vars

=============================================================================
