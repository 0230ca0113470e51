----------------------------- MODULE UiSettings -----------------------------
(***************************************************************************)
(* The settings of monitoring-ui-api: the file ui-settings.json, the       *)
(* configuration in memory, the references to secrets kept by a PAM, and   *)
(* the settings pages of administrators who work at the same time.         *)
(*                                                                         *)
(* A section of the settings is one plain value and one secret: the idp    *)
(* section stands for its provider and OAuth2.ClientSecret (the other      *)
(* secrets of the section are treated alike), the runtime section for the  *)
(* Zabbix endpoint and Zabbix.ApiToken, the rules section has no secret.   *)
(* A save reads the file, waits, checks, rewrites the file in place and    *)
(* then changes the memory; nothing keeps two saves apart.                 *)
(***************************************************************************)
EXTENDS Naturals, Sequences

CONSTANTS
    Pages,          \* open pages of administrators
    Plains,         \* plain values of a section
    Refused,        \* those validateRuntimeSecurityConfig refuses
    Ids,            \* names of secrets in the PAM
    Texts,          \* secrets typed in clear
    None,           \* no name, no text
    Defaults,       \* the sections in appsettings.json
    Environments,   \* what the environment may override: section -> plain value
    MaxEdits,       \* bound
    MaxSaves,       \* bound
    MaxCrashes      \* bound

Sections == {"idp", "runtime", "rules"}

Blank == [kind |-> "blank", of |-> None]
Ref(i) == [kind |-> "ref", of |-> i]        \* secret://i
Secret(i) == [kind |-> "secret", of |-> i]  \* what the PAM answers for i
Typed(t) == [kind |-> "typed", of |-> t]

Writable == {Blank} \union {Ref(i) : i \in Ids} \union {Typed(t) : t \in Texts}
Secrets == Writable \union {Secret(i) : i \in Ids}
Setting == [plain : Plains, secret : Secrets]
Partial(R) == UNION {[D -> R] : D \in SUBSET Sections}

ASSUME SettingsAssumption ==
    /\ None \notin Ids
    /\ Refused \subseteq Plains
    /\ Defaults \in [Sections -> [plain : Plains \ Refused, secret : Writable]]
    /\ Defaults["rules"].secret = Blank
    /\ Environments \subseteq Partial(Plains \ Refused)
    /\ MaxEdits \in Nat /\ MaxSaves \in Nat /\ MaxCrashes \in Nat

VARIABLES
    env,       \* the environment of the process
    file,      \* ui-settings.json: its text, the sections a whole one holds
    up,        \* the process runs
    config,    \* config: a setting per section
    resolved,  \* resolvedSecretReferences: the name behind a resolved secret
    pages,     \* per page: the open view and its form
    jobs,      \* per page: the save the service works on
    last,      \* history: per section what was written to the file last
    undone,    \* history: sections another save may have put back
    apart,     \* history: sections where overlapping saves crossed
    torn,      \* history: writes overlapped, or a crash cut one
    counts     \* edits, saves and crashes so far

server == <<env, file, up, config, resolved>>
history == <<last, undone, apart, torn>>
vars == <<server, pages, jobs, history, counts>>

Job == [pc : {"idle", "read", "prepare", "open", "write", "resolve"},
        own : Sections, payload : Setting, read : Partial(Setting),
        stale : BOOLEAN, \* history: another save wrote since it read
        refs : Seq({"idp", "runtime"} \X Ids)]

Page == [view : Sections \union {"none"}, form : Setting]

TypeOK ==
    /\ env \in Environments
    /\ file \in [text : {"none", "empty", "broken", "whole"}, saved : Partial(Setting)]
    /\ up \in BOOLEAN
    /\ config \in [Sections -> Setting]
    /\ resolved \in [{"idp", "runtime"} -> Ids \union {None}]
    /\ pages \in [Pages -> Page]
    /\ jobs \in [Pages -> Job]
    /\ last \in Partial(Setting)
    /\ undone \subseteq Sections /\ apart \subseteq Sections
    /\ torn \in BOOLEAN
    /\ counts \in [edits : 0 .. MaxEdits, saves : 0 .. MaxSaves,
                   crashes : 0 .. MaxCrashes]

-----------------------------------------------------------------------------
(* What the service shows, reads from a form and loads. *)

\* publicIdpSettings shows no secret.
ShownIdp(cfg) == [cfg["idp"] EXCEPT !.secret = Blank]

\* publicRuntimeSettings shows the reference behind a resolved secret.
ShownRuntime(cfg, res) ==
    IF res["runtime"] = None THEN cfg["runtime"]
    ELSE [cfg["runtime"] EXCEPT !.secret = Ref(res["runtime"])]

Shown(s, cfg, res) ==
    IF s = "idp" THEN ShownIdp(cfg)
    ELSE IF s = "runtime" THEN ShownRuntime(cfg, res) ELSE cfg[s]

(* A secret of the idp section left blank keeps the one in memory; a       *)
(* runtime secret is taken as it is.                                       *)
Kept(s, new, old) ==
    IF s = "idp" /\ new.secret = Blank THEN [new EXCEPT !.secret = old.secret] ELSE new

Overlaid(s, saved, base) ==
    IF s \in DOMAIN saved THEN Kept(s, saved[s], base[s]) ELSE base[s]

\* resolveSecretReferences replaces a reference by what the PAM answers.
Opened(v) == IF v.secret.kind = "ref" THEN [v EXCEPT !.secret = Secret(v.secret.of)]
             ELSE v

\* applyEnvOverrides
Overridden(s, v) == IF s \in DOMAIN env THEN [v EXCEPT !.plain = env[s]] ELSE v

\* loadConfig: the file over appsettings.json, the environment over both.
Loaded(s) == Overridden(s, Overlaid(s, file.saved, Defaults))

\* collectSecretReferences meets Idp before Zabbix.
Reference(s, cfg) == IF cfg[s].secret.kind = "ref" THEN << <<s, cfg[s].secret.of>> >> ELSE <<>>
Collected(cfg) == Reference("idp", cfg) \o Reference("runtime", cfg)

Idle == [pc |-> "idle", own |-> "rules", payload |-> Defaults["rules"],
         read |-> <<>>, stale |-> FALSE, refs |-> <<>>]
Closed == [view |-> "none", form |-> Defaults["rules"]]

Init ==
    /\ env \in Environments
    /\ file = [text |-> "none", saved |-> <<>>]
    /\ up = FALSE
    /\ config = Defaults
    /\ resolved = [s \in {"idp", "runtime"} |-> None]
    /\ pages = [p \in Pages |-> Closed]
    /\ jobs = [p \in Pages |-> Idle]
    /\ last = <<>> /\ undone = {} /\ apart = {} /\ torn = FALSE
    /\ counts = [edits |-> 0, saves |-> 0, crashes |-> 0]

(* The process starts: the text of the file must parse and every reference *)
(* must resolve, otherwise it ends before it listens.                      *)
Start ==
    /\ ~up
    /\ file.text \in {"none", "whole"}
    /\ up' = TRUE
    /\ config' = [s \in Sections |-> Opened(Loaded(s))]
    /\ resolved' = [s \in {"idp", "runtime"} |->
                      IF Loaded(s).secret.kind = "ref" THEN Loaded(s).secret.of ELSE None]
    /\ apart' = {}
    /\ UNCHANGED <<env, file, pages, jobs, last, undone, torn, counts>>

(* The process dies; the saves it worked on end where they are, their      *)
(* pages keep their forms.                                                 *)
Crash ==
    /\ up /\ counts.crashes < MaxCrashes
    /\ up' = FALSE
    /\ jobs' = [p \in Pages |-> Idle]
    /\ torn' = (torn \/ \E p \in Pages : jobs[p].pc = "write")
    /\ counts' = [counts EXCEPT !.crashes = @ + 1]
    /\ UNCHANGED <<env, file, config, resolved, pages, last, undone, apart>>

-----------------------------------------------------------------------------
(* The pages. *)

\* A view is opened, or loaded again: its form is filled from the service.
OpenView(p, s) ==
    /\ up
    /\ pages' = [pages EXCEPT ![p] = [view |-> s, form |-> Shown(s, config, resolved)]]
    /\ pages'[p] # pages[p]
    /\ UNCHANGED <<server, jobs, history, counts>>

\* One field of the form changes.
Edit(p) ==
    /\ pages[p].view # "none" /\ counts.edits < MaxEdits
    /\ \/ \E v \in Plains \ {pages[p].form.plain} :
            pages' = [pages EXCEPT ![p].form.plain = v]
       \/ \E x \in Writable \ {pages[p].form.secret} :
            /\ pages[p].view # "rules"
            /\ pages' = [pages EXCEPT ![p].form.secret = x]
    /\ counts' = [counts EXCEPT !.edits = @ + 1]
    /\ UNCHANGED <<server, jobs, history>>

\* saveIdp, saveRuntimeSettings, saveGitSettings: the button waits for the answer.
Save(p) ==
    /\ up /\ pages[p].view # "none"
    /\ jobs[p].pc = "idle" /\ counts.saves < MaxSaves
    /\ jobs' = [jobs EXCEPT ![p] = [Idle EXCEPT !.pc = "read", !.own = pages[p].view,
                                                !.payload = pages[p].form]]
    /\ counts' = [counts EXCEPT !.saves = @ + 1]
    /\ UNCHANGED <<server, pages, history>>

\* An answer that is no error fills the form again, whatever was typed since.
Filled(p, cfg, res) ==
    IF pages[p].view = jobs[p].own
    THEN [pages EXCEPT ![p].form = Shown(jobs[p].own, cfg, res)]
    ELSE pages

Failed(p) == jobs' = [jobs EXCEPT ![p] = Idle] /\ UNCHANGED pages

-----------------------------------------------------------------------------
(* The steps of a save in the service. *)

At(p, pc) == up /\ jobs[p].pc = pc

\* readPersistedUiSettings: the text of a file being rewritten does not parse.
Read(p) ==
    /\ At(p, "read")
    /\ IF file.text \in {"none", "whole"}
       THEN /\ jobs' = [jobs EXCEPT ![p].pc = "prepare", ![p].read = file.saved]
            /\ UNCHANGED pages
       ELSE Failed(p)
    /\ UNCHANGED <<server, history, counts>>

(* validateCmdbuildApiConfig, validateRuntimeSecurityConfig: the rules     *)
(* section is not checked.                                                 *)
Refusal(j) == j.own # "rules" /\ j.payload.plain \in Refused

\* Object.assign: one section of what was read, replaced.
With(s, v, saved) == [t \in {s} \union DOMAIN saved |-> IF t = s THEN v ELSE saved[t]]

\* Mutant: the page's section is all that is written.
PrepareAlone(p) ==
    /\ At(p, "prepare")
    /\ LET j == jobs[p]
           new == Kept(j.own, j.payload, config[j.own])
       IN IF Refusal(j)
          THEN Failed(p)
          ELSE /\ jobs' = [jobs EXCEPT ![p].pc = "open", ![p].payload = new,
                                       ![p].read = With(j.own, new, <<>>)]
               /\ UNCHANGED pages
    /\ UNCHANGED <<server, history, counts>>

\* Mutant: a secret left blank in the form is written blank.
PrepareBlank(p) ==
    /\ At(p, "prepare")
    /\ LET j == jobs[p]
       IN IF Refusal(j)
          THEN Failed(p)
          ELSE /\ jobs' = [jobs EXCEPT ![p].pc = "open",
                                       ![p].read = With(j.own, j.payload, j.read)]
               /\ UNCHANGED pages
    /\ UNCHANGED <<server, history, counts>>

(* saveIdpSettings, saveRuntimeSettings, saveGitSettings up to the write:  *)
(* a blank secret is filled from memory, a refused value ends the save.    *)
Prepare(p) ==
    /\ At(p, "prepare")
    /\ LET j == jobs[p]
           new == Kept(j.own, j.payload, config[j.own])
       IN IF Refusal(j)
          THEN Failed(p)
          ELSE /\ jobs' = [jobs EXCEPT ![p].pc = "open", ![p].payload = new,
                                       ![p].read = With(j.own, new, j.read)]
               /\ UNCHANGED pages
    /\ UNCHANGED <<server, history, counts>>

\* writePersistedUiSettings: opening the file truncates it.
Truncate(p) ==
    /\ At(p, "open")
    /\ file' = [text |-> "empty", saved |-> <<>>]
    /\ jobs' = [jobs EXCEPT ![p].pc = "write"]
    /\ torn' = (torn \/ \E q \in Pages \ {p} : jobs[q].pc = "write")
    /\ UNCHANGED <<env, up, config, resolved, pages, last, undone, apart, counts>>

\* The section, applied to the memory.
Applied(j) == [config EXCEPT ![j.own] = Kept(j.own, j.payload, config[j.own])]

(* A save of p's section crosses another one: the PAM still owes a secret   *)
(* of the section to a save before it, or another save wrote since p read   *)
(* and p leaves a blank idp secret to the memory, which may have changed.   *)
Crossed(p) ==
    \/ \E q \in Pages \ {p} : \E i \in 1 .. Len(jobs[q].refs) :
          jobs[q].refs[i][1] = jobs[p].own
    \/ jobs[p].stale /\ jobs[p].own = "idp" /\ jobs[p].payload.secret = Blank

(* The text is written. Over another text, a shorter one leaves the end of *)
(* the longer one behind and the file no longer parses.                    *)
WriteText(p) ==
    LET j == jobs[p]
    IN /\ \E text \in {"whole"} \union (IF file.text = "empty" THEN {} ELSE {"broken"}) :
            file' = [text |-> text, saved |-> IF text = "whole" THEN j.read ELSE <<>>]
       /\ last' = With(j.own, j.payload, last)
       /\ undone' = IF j.stale THEN Sections \ {j.own} ELSE undone \ {j.own}
       /\ apart' = (IF Crossed(p) THEN apart \union {j.own} ELSE apart \ {j.own})
                   \union (IF j.stale THEN Sections \ {j.own} ELSE {})

(* The saves that have read the file and not written it hold what it no    *)
(* longer says; p goes on with refs, or ends.                              *)
Overtaken(p, refs) ==
    [q \in Pages |->
       IF q # p THEN [jobs[q] EXCEPT !.stale = @ \/ jobs[q].pc \in {"prepare", "open", "write"}]
       ELSE IF refs = <<>> THEN Idle ELSE [jobs[p] EXCEPT !.pc = "resolve", !.refs = refs]]

(* The rest of a save once its text is in the file:                        *)
(* clearResolvedSecretReferences, applyIdpSettings or applyRuntimeSettings *)
(* and the first half of resolveSecretReferences, which collects every     *)
(* reference of the memory before it asks for the first. A save of the     *)
(* rules section resolves nothing.                                         *)
Write(p) ==
    /\ At(p, "write")
    /\ WriteText(p)
    /\ LET j == jobs[p]
           cfg == Applied(j)
           res == [s \in {"idp", "runtime"} |-> IF s = j.own THEN None ELSE resolved[s]]
           refs == IF j.own = "rules" THEN <<>> ELSE Collected(cfg)
       IN /\ config' = cfg
          /\ resolved' = res
          /\ jobs' = Overtaken(p, refs)
          /\ pages' = IF refs = <<>> THEN Filled(p, cfg, res) ELSE pages
    /\ UNCHANGED <<env, up, torn, counts>>

(* The PAM answers for the next collected reference: its secret replaces   *)
(* whatever the memory holds at that place by now.                         *)
Resolve(p) ==
    /\ At(p, "resolve")
    /\ LET s == Head(jobs[p].refs)[1]
           i == Head(jobs[p].refs)[2]
           cfg == [config EXCEPT ![s].secret = Secret(i)]
           res == [resolved EXCEPT ![s] = i]
       IN /\ config' = cfg
          /\ resolved' = res
          /\ IF Len(jobs[p].refs) = 1
             THEN jobs' = [jobs EXCEPT ![p] = Idle] /\ pages' = Filled(p, cfg, res)
             ELSE jobs' = [jobs EXCEPT ![p].refs = Tail(@)] /\ UNCHANGED pages
    /\ UNCHANGED <<env, file, up, history, counts>>

\* It refuses or does not answer: an error, though the section is saved.
Unresolved(p) ==
    /\ At(p, "resolve")
    /\ Failed(p)
    /\ UNCHANGED <<server, history, counts>>

Next ==
    \/ Start
    \/ Crash
    \/ \E p \in Pages :
         \/ \E s \in Sections : OpenView(p, s)
         \/ Edit(p)
         \/ Save(p)
         \/ Read(p)
         \/ Prepare(p)
         \/ Truncate(p)
         \/ Write(p)
         \/ Resolve(p)
         \/ Unresolved(p)

Spec == Init /\ [][Next]_vars

-----------------------------------------------------------------------------
(* Properties. *)

Writing == \E p \in Pages : jobs[p].pc = "write"

(* What a save wrote into its section is in the file until the section is  *)
(* saved again: saves of other sections, refused ones, crashes and starts  *)
(* leave it there. Only a save that read the file before it was written    *)
(* may put the section back, and only a write cut by a crash or crossed by *)
(* another write leaves a file that does not parse.                        *)
SavesSurvive ==
    ~torn /\ ~Writing =>
        /\ file.text \in {"none", "whole"}
        /\ \A s \in Sections \ undone :
              /\ s \in DOMAIN file.saved <=> s \in DOMAIN last
              /\ s \in DOMAIN last => file.saved[s] = last[s]

(* With no save under way, the memory is what a restart would make of the  *)
(* file, but for the values the environment overrides, crossed saves and a *)
(* torn file: a setting that works now works after the restart.            *)
MemoryFollowsFile ==
    up /\ ~torn /\ (\A p \in Pages : jobs[p].pc \notin {"write", "resolve"})
       => \A s \in Sections \ apart :
             /\ Opened(config[s]).secret = Opened(Loaded(s)).secret
             /\ s \in DOMAIN env \/ config[s].plain = Loaded(s).plain

(* A runtime secret that came from the PAM is never shown or written: what *)
(* a page shows, and so sends back when it saves anything of the section,  *)
(* is the reference, through saves that overlap, a PAM that fails and      *)
(* restarts. (PROJECT_DOCUMENTATION.en.md:389)                             *)
ReferencesKept ==
    /\ "runtime" \in DOMAIN file.saved => file.saved["runtime"].secret.kind # "secret"
    /\ \A p \in Pages : pages[p].view = "runtime" => pages[p].form.secret.kind # "secret"

=============================================================================
