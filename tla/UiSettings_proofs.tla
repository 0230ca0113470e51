-------------------------- MODULE UiSettings_proofs --------------------------
(***************************************************************************)
(* UiSettings, for any pages, settings, saves and crashes, and, in the     *)
(* last part, UiLogins, for any logins at once.                            *)
(* First: no page and no file ever holds a runtime secret that came from   *)
(* the PAM, because the memory never holds one without the name behind it; *)
(* publicRuntimeSettings always has a reference to show. Then: what a save *)
(* wrote stays in the file, and a restart finds what the memory has; both  *)
(* follow a save from what it read to what it writes.                      *)
(***************************************************************************)
EXTENDS UiSettings, UiLogins, SequenceTheorems, TLAPS

Free(v) == v.secret.kind # "secret"

\* What a variable must be for its updates to be what they look like.
Shapes ==
    /\ config \in [Sections -> Setting]
    /\ DOMAIN resolved = {"idp", "runtime"}
    /\ resolved \in [{"idp", "runtime"} -> Ids \union {None}]
    /\ file.saved \in Partial(Setting)
    /\ DOMAIN file = {"text", "saved"}
    /\ pages \in [Pages -> Page]
    /\ jobs \in [Pages -> Job]
    /\ env \in Environments

\* A runtime secret in the memory has its name.
Named == ~Free(config["runtime"]) => resolved["runtime"] # None

FileFree == "runtime" \in DOMAIN file.saved => Free(file.saved["runtime"])

PagesFree == \A p \in Pages : pages[p].view = "runtime" => Free(pages[p].form)

JobFree(j) ==
    /\ j.own = "runtime" => Free(j.payload)
    /\ "runtime" \in DOMAIN j.read => Free(j.read["runtime"])
    /\ j.pc = "resolve" => j.refs # <<>>

JobsFree == \A p \in Pages : JobFree(jobs[p])

IInv == Shapes /\ Named /\ FileFree /\ PagesFree /\ JobsFree

-----------------------------------------------------------------------------
(* What the operators return. *)

\* A setting is a record of its two parts; a reference names a secret.
LEMMA SettingParts ==
    /\ \A v \in Setting : v.plain \in Plains /\ v.secret \in Secrets
    /\ \A x \in Plains, y \in Secrets : [plain |-> x, secret |-> y] \in Setting
    /\ \A v \in Setting, y \in Secrets : [v EXCEPT !.secret = y] \in Setting
    /\ \A v \in Setting, x \in Plains : [v EXCEPT !.plain = x] \in Setting
    /\ \A v \in Setting, y \in Secrets : [v EXCEPT !.secret = y].secret = y
    /\ \A v \in Setting, x \in Plains : [v EXCEPT !.plain = x].secret = v.secret
  BY DEF Setting

\* What kinds of secrets there are.
LEMMA SecretKinds ==
    /\ \A x \in Secrets : x.kind = "ref" => x.of \in Ids
    /\ \A x \in Writable : x \in Secrets /\ x.kind # "secret"
    /\ \A i \in Ids : Secret(i) \in Secrets /\ Ref(i) \in Writable
    /\ Blank \in Writable /\ Blank.kind = "blank"
    /\ \A i \in Ids : Ref(i).kind = "ref" /\ Secret(i).kind = "secret"
  <1>1. /\ Blank.kind = "blank"
        /\ \A i : Ref(i).kind = "ref" /\ Ref(i).of = i
        /\ \A i : Secret(i).kind = "secret"
        /\ \A t : Typed(t).kind = "typed"
    BY DEF Blank, Ref, Secret, Typed
  <1>2. \A x \in Writable : \/ x = Blank
                            \/ \E i \in Ids : x = Ref(i)
                            \/ \E t \in Texts : x = Typed(t)
    BY DEF Writable
  <1>3. \A x \in Secrets : x \in Writable \/ \E i \in Ids : x = Secret(i)
    BY DEF Secrets
  <1>4. \A x \in Secrets : x.kind = "ref" => x.of \in Ids
    BY <1>1, <1>2, <1>3, SMT
  <1>5. \A x \in Writable : x \in Secrets /\ x.kind # "secret"
    <2>1. \A x \in Writable : x \in Secrets
      BY DEF Secrets
    <2> QED BY <1>1, <1>2, <2>1, SMT
  <1>6. \A i \in Ids : Secret(i) \in Secrets /\ Ref(i) \in Writable
    BY Zenon DEF Secrets, Writable
  <1>7. Blank \in Writable
    BY Zenon DEF Writable
  <1> QED BY <1>1, <1>4, <1>5, <1>6, <1>7, Zenon

\* The defaults are settings without a runtime secret.
LEMMA DefaultsType ==
    /\ \A s \in Sections : Defaults[s] \in Setting /\ Free(Defaults[s])
    /\ Defaults \in [Sections -> Setting]
  <1>1. \A s \in Sections : Defaults[s].secret \in Writable /\ Defaults[s] \in Setting
    BY SettingsAssumption, SecretKinds DEF Setting
  <1> QED BY <1>1, SettingsAssumption, SecretKinds DEF Free

\* A setting taken over is a setting; only the idp keeps its old secret.
LEMMA KeptType ==
    \A s \in Sections, v \in Setting, w \in Setting :
        /\ Kept(s, v, w) \in Setting
        /\ s # "idp" => Kept(s, v, w) = v
  BY SettingParts DEF Kept

\* A setting whose reference is opened is a setting.
LEMMA OpenedType ==
    \A v \in Setting :
        /\ Opened(v) \in Setting
        /\ v.secret.kind = "ref" => v.secret.of \in Ids
        /\ v.secret.kind # "ref" => Opened(v) = v
  BY SettingParts, SecretKinds DEF Opened

\* The runtime setting a start loads is as free as the file's.
LEMMA LoadedType ==
    ASSUME Shapes
    PROVE  /\ \A s \in Sections : Loaded(s) \in Setting
           /\ FileFree => Free(Loaded("runtime"))
  <1>1. \A s \in DOMAIN file.saved : s \in Sections /\ file.saved[s] \in Setting
    BY DEF Shapes, Partial
  <1>2. \A s \in Sections : Overlaid(s, file.saved, Defaults) \in Setting
    BY <1>1, KeptType, DefaultsType DEF Overlaid
  <1>3. \A s \in DOMAIN env : s \in Sections /\ env[s] \in Plains
    BY SettingsAssumption DEF Shapes, Partial
  <1>4. \A s \in Sections, v \in Setting :
           Overridden(s, v) \in Setting /\ Overridden(s, v).secret = v.secret
    BY <1>3, SettingParts DEF Overridden
  <1>5. FileFree => Free(Overlaid("runtime", file.saved, Defaults))
    BY <1>1, KeptType, DefaultsType DEF Overlaid, FileFree, Sections
  <1> QED BY <1>2, <1>4, <1>5 DEF Loaded, Free, Sections

\* What is shown of the runtime section has no secret of the PAM.
LEMMA ShownType ==
    ASSUME NEW cfg \in [Sections -> Setting],
           NEW res, DOMAIN res = {"idp", "runtime"},
           \A s \in {"idp", "runtime"} : res[s] \in Ids \union {None},
           ~Free(cfg["runtime"]) => res["runtime"] # None
    PROVE  /\ \A s \in Sections : Shown(s, cfg, res) \in Setting
           /\ Free(Shown("runtime", cfg, res))
  <1>1. Shown("idp", cfg, res) \in Setting
    BY SettingParts, SecretKinds DEF Shown, ShownIdp, Sections
  <1>2. Shown("rules", cfg, res) \in Setting
    BY DEF Shown, Sections
  <1>3. Shown("runtime", cfg, res) \in Setting /\ Free(Shown("runtime", cfg, res))
    <2>1. Shown("runtime", cfg, res) = ShownRuntime(cfg, res)
      BY DEF Shown
    <2>2. cfg["runtime"] \in Setting
      BY DEF Sections
    <2>3. CASE res["runtime"] = None
      BY <2>1, <2>2, <2>3 DEF ShownRuntime
    <2>4. CASE res["runtime"] # None
      <3>1. Ref(res["runtime"]) \in Secrets /\ Ref(res["runtime"]).kind = "ref"
        BY <2>4, SecretKinds
      <3>2. LET w == [cfg["runtime"] EXCEPT !.secret = Ref(res["runtime"])]
            IN w \in Setting /\ w.secret = Ref(res["runtime"])
        BY <2>2, <3>1, SettingParts, Zenon
      <3> QED BY <2>1, <2>4, <3>1, <3>2 DEF ShownRuntime, Free
    <2> QED BY <2>3, <2>4
  <1> QED BY <1>1, <1>2, <1>3 DEF Sections

\* Of more than one reference something is left.
LEMMA RestOfMany ==
    ASSUME NEW S, NEW q \in Seq(S), q # <<>>, Len(q) # 1
    PROVE  Tail(q) \in Seq(S) /\ Tail(q) # <<>>
  <1>1. Tail(q) \in Seq(S) /\ Len(Tail(q)) = Len(q) - 1
    BY HeadTailProperties
  <1>2. Len(q) \in Nat
    BY LenProperties
  <1>3. Len(Tail(q)) # 0
    BY <1>1, <1>2
  <1> QED BY <1>1, <1>3, EmptySeq

\* The references of a configuration are pairs of a section and a secret.
LEMMA CollectedType ==
    ASSUME NEW cfg \in [Sections -> Setting]
    PROVE  Collected(cfg) \in Seq({"idp", "runtime"} \X Ids)
  <1>1. \A s \in {"idp", "runtime"} : cfg[s] \in Setting
    BY DEF Sections
  <1>2. \A s \in {"idp", "runtime"} : cfg[s].secret.kind = "ref" => cfg[s].secret.of \in Ids
    BY <1>1, OpenedType
  <1>3. ASSUME NEW s \in {"idp", "runtime"}
        PROVE  Reference(s, cfg) \in Seq({"idp", "runtime"} \X Ids)
    <2>1. CASE cfg[s].secret.kind = "ref"
      <3>1. <<s, cfg[s].secret.of>> \in {"idp", "runtime"} \X Ids
        BY <1>2, <2>1
      <3> DEFINE e == <<s, cfg[s].secret.of>>
      <3> HIDE DEF e
      <3>2. <<e>> \in Seq({"idp", "runtime"} \X Ids)
        BY <3>1 DEF e
      <3> QED BY <2>1, <3>2 DEF Reference, e
    <2>2. CASE cfg[s].secret.kind # "ref"
      BY <2>2 DEF Reference
    <2> QED BY <2>1, <2>2
  <1> QED BY <1>3 DEF Collected

\* A file without sections is one.
LEMMA NothingSaved == <<>> \in Partial(Setting) /\ DOMAIN <<>> = {}
  <1>1. <<>> \in [{} -> Setting] /\ DOMAIN <<>> = {}
    OBVIOUS
  <1> QED BY <1>1 DEF Partial

\* A file with a section replaced, and nothing else.
LEMMA SectionWritten ==
    ASSUME NEW f \in Partial(Setting), NEW s \in Sections, NEW v \in Setting
    PROVE  /\ With(s, v, f) \in Partial(Setting)
           /\ \A t \in DOMAIN With(s, v, f) :
                 With(s, v, f)[t] = IF t = s THEN v ELSE f[t]
           /\ DOMAIN With(s, v, f) = {s} \union DOMAIN f
  <1>1. f \in [DOMAIN f -> Setting] /\ DOMAIN f \subseteq Sections
    BY DEF Partial
  <1>2. With(s, v, f) \in [{s} \union DOMAIN f -> Setting]
    BY <1>1 DEF With
  <1>3. With(s, v, f) \in Partial(Setting)
    BY <1>1, <1>2 DEF Partial
  <1> QED BY <1>3 DEF With

\* The fields of a save.
LEMMA JobParts ==
    /\ Idle \in Job /\ JobFree(Idle)
    /\ \A j \in Job : /\ j.own \in Sections /\ j.payload \in Setting
                      /\ j.read \in Partial(Setting)
                      /\ j.refs \in Seq({"idp", "runtime"} \X Ids)
  BY DefaultsType, NothingSaved DEF Job, Idle, Sections, JobFree

\* A closed page shows nothing.
LEMMA ClosedType == Closed \in Page /\ Closed.view = "none"
  BY DefaultsType DEF Page, Closed, Sections

-----------------------------------------------------------------------------
(* The initial states and the steps. *)

\* Initially the service is down and all pages are closed.
LEMMA InitIInv == Init => IInv
  <1> SUFFICES ASSUME Init PROVE IInv
    OBVIOUS
  <1>1. Shapes
    BY DefaultsType, NothingSaved, JobParts, ClosedType DEF Init, Shapes
  <1>2. Named /\ FileFree
    BY DefaultsType, NothingSaved DEF Init, Named, FileFree, Sections
  <1>3. PagesFree /\ JobsFree
    BY ClosedType, JobParts, NothingSaved DEF Init, PagesFree, JobsFree
  <1> QED BY <1>1, <1>2, <1>3 DEF IInv

\* No step but a start makes a reference known to the memory only.
LEMMA StartIInv == IInv /\ Start => IInv'
  <1> SUFFICES ASSUME IInv, Start PROVE IInv'
    OBVIOUS
  <1> USE DEF IInv
  <1>1. /\ \A s \in Sections : Loaded(s) \in Setting
        /\ Free(Loaded("runtime"))
    BY LoadedType
  <1>2. Shapes'
    <2>1. config' \in [Sections -> Setting]
      BY <1>1, OpenedType DEF Start
    <2>2. resolved' \in [{"idp", "runtime"} -> Ids \union {None}]
      BY <1>1, OpenedType DEF Start, Sections
    <2> QED BY <2>1, <2>2 DEF Shapes, Start
  <1>3. Named'
    <2>1. CASE Loaded("runtime").secret.kind = "ref"
      <3>1. resolved'["runtime"] = Loaded("runtime").secret.of
        BY <2>1 DEF Start
      <3>2. Loaded("runtime").secret.of \in Ids
        BY <1>1, <2>1, OpenedType DEF Sections
      <3> QED BY <3>1, <3>2, SettingsAssumption DEF Named
    <2>2. CASE Loaded("runtime").secret.kind # "ref"
      BY <1>1, <2>2, OpenedType DEF Named, Start, Sections
    <2> QED BY <2>1, <2>2
  <1>4. (FileFree /\ PagesFree /\ JobsFree)'
    BY DEF Start, FileFree, PagesFree, JobsFree
  <1> QED BY <1>2, <1>3, <1>4

\* A crash loses the memory and the saves.
LEMMA CrashIInv == IInv /\ Crash => IInv'
  <1> SUFFICES ASSUME IInv, Crash PROVE IInv'
    OBVIOUS
  <1> USE DEF IInv
  <1>1. Shapes'
    BY JobParts DEF Shapes, Crash
  <1>2. JobsFree'
    BY JobParts, NothingSaved DEF JobsFree, Crash
  <1> QED BY <1>1, <1>2 DEF Crash, Named, FileFree, PagesFree

\* A page shows a section without its secrets.
LEMMA OpenViewIInv ==
    ASSUME NEW p \in Pages, NEW s \in Sections, IInv, OpenView(p, s)
    PROVE  IInv'
  <1> USE DEF IInv
  <1>1. /\ Shown(s, config, resolved) \in Setting
        /\ Free(Shown("runtime", config, resolved))
    BY ShownType DEF Shapes, Named
  <1>2. pages' \in [Pages -> Page]
    BY <1>1 DEF Shapes, OpenView, Page
  <1>3. PagesFree'
    BY <1>1 DEF PagesFree, OpenView, Shapes
  <1> QED BY <1>2, <1>3 DEF OpenView, server, history, Shapes, Named, FileFree, JobsFree

\* A field of the page is edited.
LEMMA EditIInv ==
    ASSUME NEW p \in Pages, IInv, Edit(p)
    PROVE  IInv'
  <1> USE DEF IInv
  <1>1. PICK f \in Setting :
          /\ pages' = [pages EXCEPT ![p].form = f]
          /\ pages[p].view = "runtime" => Free(f)
    <2>1. pages[p].form \in Setting
      BY DEF Shapes, Page
    <2>2. CASE \E v \in Plains \ {pages[p].form.plain} :
                 pages' = [pages EXCEPT ![p].form.plain = v]
      <3>1. PICK v \in Plains : pages' = [pages EXCEPT ![p].form.plain = v]
        BY <2>2
      <3> DEFINE f == [pages[p].form EXCEPT !.plain = v]
      <3>2. pages' = [pages EXCEPT ![p].form = f]
        BY <3>1
      <3>3. f \in Setting /\ f.secret = pages[p].form.secret
        BY <2>1, SettingParts
      <3> QED BY <3>2, <3>3 DEF PagesFree, Free
    <2>3. CASE \E x \in Writable \ {pages[p].form.secret} :
                 pages' = [pages EXCEPT ![p].form.secret = x]
      <3>1. PICK x \in Writable : pages' = [pages EXCEPT ![p].form.secret = x]
        BY <2>3
      <3> DEFINE f == [pages[p].form EXCEPT !.secret = x]
      <3>2. pages' = [pages EXCEPT ![p].form = f]
        BY <3>1
      <3>3. x \in Secrets /\ x.kind # "secret"
        BY SecretKinds
      <3>4. f \in Setting /\ f.secret = x
        BY <2>1, <3>3, SettingParts
      <3> QED BY <3>2, <3>3, <3>4 DEF Free
    <2> QED BY <2>2, <2>3 DEF Edit
  <1>2. pages' \in [Pages -> Page]
    BY <1>1 DEF Shapes, Page
  <1>3. PagesFree'
    BY <1>1 DEF PagesFree, Shapes, Page
  <1> QED BY <1>2, <1>3 DEF Edit, server, history, Shapes, Named, FileFree, JobsFree

\* A step that changes one save only.
LEMMA JobStepIInv ==
    ASSUME NEW p \in Pages, NEW j \in Job, IInv, JobFree(j),
           jobs' = [jobs EXCEPT ![p] = j], UNCHANGED <<server, pages>>
    PROVE  IInv'
  <1> USE DEF IInv
  <1>1. Shapes'
    BY DEF Shapes, server
  <1>2. JobsFree'
    BY DEF JobsFree, Shapes
  <1> QED BY <1>1, <1>2 DEF server, Named, FileFree, PagesFree

\* A page sends what it shows.
LEMMA SaveIInv ==
    ASSUME NEW p \in Pages, IInv, Save(p)
    PROVE  IInv'
  <1> DEFINE j == [Idle EXCEPT !.pc = "read", !.own = pages[p].view,
                               !.payload = pages[p].form]
  <1>1. pages[p].view \in Sections /\ pages[p].form \in Setting
    BY DEF IInv, Shapes, Page, Save
  <1>2. j \in Job
    BY <1>1, JobParts, NothingSaved DEF Job, Idle
  <1>3. JobFree(j)
    BY <1>1, NothingSaved DEF JobFree, Idle, IInv, PagesFree
  <1>4. jobs' = [jobs EXCEPT ![p] = j] /\ UNCHANGED <<server, pages>>
    BY DEF Save
  <1> HIDE DEF j
  <1> QED BY <1>2, <1>3, <1>4, JobStepIInv

\* A save ends with an error.
LEMMA FailedIInv ==
    ASSUME NEW p \in Pages, IInv, Failed(p), UNCHANGED server
    PROVE  IInv'
  <1>1. jobs' = [jobs EXCEPT ![p] = Idle] /\ UNCHANGED <<server, pages>>
    BY DEF Failed
  <1> QED BY <1>1, JobParts, JobStepIInv

\* A save reads the file.
LEMMA ReadIInv ==
    ASSUME NEW p \in Pages, IInv, Read(p)
    PROVE  IInv'
  <1>1. CASE file.text \in {"none", "whole"}
    <2> DEFINE j == [jobs[p] EXCEPT !.pc = "prepare", !.read = file.saved]
    <2>1. jobs[p] \in Job /\ file.saved \in Partial(Setting) /\ JobFree(jobs[p])
      BY DEF IInv, Shapes, JobsFree
    <2>2. j \in Job
      BY <2>1 DEF Job
    <2>3. JobFree(j)
      BY <2>1 DEF JobFree, IInv, FileFree, Job
    <2>4. jobs' = [jobs EXCEPT ![p] = j] /\ UNCHANGED <<server, pages>>
      BY <1>1 DEF Read
    <2> HIDE DEF j
    <2> QED BY <2>2, <2>3, <2>4, JobStepIInv
  <1>2. CASE file.text \notin {"none", "whole"}
    BY <1>2, FailedIInv DEF Read
  <1> QED BY <1>1, <1>2

\* What is written of the runtime section is what the page sent.
LEMMA PrepareIInv ==
    ASSUME NEW p \in Pages, IInv, Prepare(p)
    PROVE  IInv'
  <1> DEFINE new == Kept(jobs[p].own, jobs[p].payload, config[jobs[p].own])
             j == [jobs[p] EXCEPT !.pc = "open", !.payload = new,
                                  !.read = With(jobs[p].own, new, jobs[p].read)]
  <1>1. CASE Refusal(jobs[p])
    BY <1>1, FailedIInv DEF Prepare
  <1>2. CASE ~Refusal(jobs[p])
    <2>1. jobs[p] \in Job /\ JobFree(jobs[p])
      BY DEF IInv, Shapes, JobsFree
    <2>2. /\ jobs[p].own \in Sections /\ jobs[p].payload \in Setting
          /\ jobs[p].read \in Partial(Setting) /\ config[jobs[p].own] \in Setting
      BY <2>1, JobParts DEF IInv, Shapes
    <2>3. /\ new \in Setting
          /\ jobs[p].own = "runtime" => new = jobs[p].payload
      BY <2>2, KeptType
    <2> HIDE DEF new
    <2>4. /\ With(jobs[p].own, new, jobs[p].read) \in Partial(Setting)
          /\ "runtime" \in DOMAIN With(jobs[p].own, new, jobs[p].read) =>
                Free(With(jobs[p].own, new, jobs[p].read)["runtime"])
      <3> DEFINE o == jobs[p].own
                 r == jobs[p].read
                 w == With(o, new, r)
      <3>1. o \in Sections /\ r \in Partial(Setting)
        BY <2>2
      <3>2. o = "runtime" => Free(new)
        BY <2>1, <2>3 DEF JobFree
      <3>3. "runtime" \in DOMAIN r => Free(r["runtime"])
        BY <2>1 DEF JobFree
      <3> HIDE DEF o, r
      <3>4. /\ w \in Partial(Setting)
            /\ DOMAIN w = {o} \union DOMAIN r
            /\ \A t \in DOMAIN w : w[t] = IF t = o THEN new ELSE r[t]
        <4>1. new \in Setting
          BY <2>3
        <4> QED BY <3>1, <4>1, SectionWritten, Zenon
      <3> HIDE DEF w
      <3>5. w \in Partial(Setting) /\ ("runtime" \in DOMAIN w => Free(w["runtime"]))
        BY <3>2, <3>3, <3>4
      <3> QED BY <3>5 DEF w, o, r
    <2>5. j \in Job
      BY <2>1, <2>3, <2>4 DEF Job
    <2>6. JobFree(j)
      BY <2>1, <2>3, <2>4 DEF JobFree, Job
    <2>7. jobs' = [jobs EXCEPT ![p] = j] /\ UNCHANGED <<server, pages>>
      BY <1>2 DEF Prepare, new
    <2> HIDE DEF j
    <2> QED BY <2>5, <2>6, <2>7, JobStepIInv
  <1> QED BY <1>1, <1>2

\* A save opens the file for writing.
LEMMA TruncateIInv ==
    ASSUME NEW p \in Pages, IInv, Truncate(p)
    PROVE  IInv'
  <1> USE DEF IInv
  <1>1. jobs[p] \in Job /\ JobFree(jobs[p])
    BY DEF Shapes, JobsFree
  <1>2. jobs' \in [Pages -> Job]
    BY <1>1 DEF Shapes, Truncate, Job
  <1>3. Shapes'
    BY <1>2, NothingSaved DEF Shapes, Truncate
  <1>4. FileFree'
    BY NothingSaved DEF FileFree, Truncate
  <1>5. JobsFree'
    BY <1>1 DEF JobsFree, JobFree, Truncate, Shapes, Job
  <1> QED BY <1>3, <1>4, <1>5 DEF Truncate, Named, PagesFree

\* The form is filled with what is shown of a memory that is named.
LEMMA FilledFree ==
    ASSUME NEW p \in Pages, IInv,
           NEW cfg \in [Sections -> Setting], NEW res,
           DOMAIN res = {"idp", "runtime"},
           \A s \in {"idp", "runtime"} : res[s] \in Ids \union {None},
           ~Free(cfg["runtime"]) => res["runtime"] # None,
           pages' \in {pages, Filled(p, cfg, res)}
    PROVE  pages' \in [Pages -> Page] /\ PagesFree'
  <1>1. jobs[p].own \in Sections
    BY JobParts DEF IInv, Shapes
  <1>2. /\ Shown(jobs[p].own, cfg, res) \in Setting
        /\ Free(Shown("runtime", cfg, res))
    BY <1>1, ShownType
  <1> DEFINE f == Shown(jobs[p].own, cfg, res)
  <1>3. pages' = pages \/ (/\ pages' = [pages EXCEPT ![p].form = f]
                          /\ pages[p].view = jobs[p].own)
    BY DEF Filled
  <1>4. jobs[p].own = "runtime" => Free(f)
    BY <1>2
  <1>5. f \in Setting
    BY <1>2
  <1> HIDE DEF f
  <1>6. pages' \in [Pages -> Page]
    BY <1>3, <1>5 DEF IInv, Shapes, Page
  <1>7. PagesFree'
    BY <1>3, <1>4 DEF IInv, PagesFree, Shapes, Page
  <1> QED BY <1>6, <1>7

(* A save of the runtime section puts a free setting into the memory, any  *)
(* other leaves the section and its name alone.                            *)
LEMMA WriteIInv ==
    ASSUME NEW p \in Pages, IInv, Write(p)
    PROVE  IInv'
  <1> DEFINE j == jobs[p]
             cfg == Applied(j)
             res == [s \in {"idp", "runtime"} |-> IF s = j.own THEN None ELSE resolved[s]]
             refs == IF j.own = "rules" THEN <<>> ELSE Collected(cfg)
  <1>1. /\ config' = cfg /\ resolved' = res /\ jobs' = Overtaken(p, refs)
        /\ pages' \in {pages, Filled(p, cfg, res)} /\ env' = env
    BY DEF Write
  <1>2. /\ j \in Job /\ j.own \in Sections /\ j.payload \in Setting
        /\ j.read \in Partial(Setting) /\ JobFree(j)
    BY JobParts DEF IInv, Shapes, JobsFree
  <1>3. /\ Kept(j.own, j.payload, config[j.own]) \in Setting
        /\ j.own = "runtime" => Free(Kept(j.own, j.payload, config[j.own]))
    BY <1>2, KeptType DEF IInv, Shapes, JobFree
  <1>4. cfg \in [Sections -> Setting]
    BY <1>3 DEF Applied, IInv, Shapes
  <1>5. /\ DOMAIN res = {"idp", "runtime"}
        /\ res \in [{"idp", "runtime"} -> Ids \union {None}]
        /\ \A s \in {"idp", "runtime"} : res[s] \in Ids \union {None}
    BY DEF IInv, Shapes
  <1>6. ~Free(cfg["runtime"]) => res["runtime"] # None
    <2>1. CASE j.own = "runtime"
      BY <1>3, <2>1 DEF Applied, IInv, Shapes, Sections
    <2>2. CASE j.own # "runtime"
      BY <2>2 DEF Applied, IInv, Shapes, Sections, Named
    <2> QED BY <2>1, <2>2
  <1>7. refs \in Seq({"idp", "runtime"} \X Ids)
    BY <1>4, CollectedType
  <1>8. pages' \in [Pages -> Page] /\ PagesFree'
    <2> HIDE DEF cfg, res
    <2> QED BY <1>1, <1>4, <1>5, <1>6, FilledFree
  <1>9. file'.saved \in {j.read, <<>>} /\ DOMAIN file' = {"text", "saved"}
    BY DEF Write, WriteText
  <1>10. FileFree'
    BY <1>2, <1>9, NothingSaved DEF FileFree, JobFree
  <1> HIDE DEF refs, cfg, res
  <1>11. jobs' \in [Pages -> Job] /\ JobsFree'
    <2>1. ASSUME NEW q \in Pages
          PROVE  jobs'[q] \in Job /\ JobFree(jobs'[q])
      <3>1. jobs[q] \in Job /\ JobFree(jobs[q])
        BY DEF IInv, Shapes, JobsFree
      <3>2. CASE q # p
        <4>1. PICK b \in BOOLEAN : jobs'[q] = [jobs[q] EXCEPT !.stale = b]
          BY <1>1, <3>1, <3>2 DEF Overtaken, Job
        <4> QED BY <3>1, <4>1 DEF Job, JobFree
      <3>3. CASE q = p /\ refs = <<>>
        BY <1>1, <3>3, JobParts DEF Overtaken
      <3>4. CASE q = p /\ refs # <<>>
        <4>1. jobs'[q] = [jobs[q] EXCEPT !.pc = "resolve", !.refs = refs]
          BY <1>1, <3>4 DEF Overtaken
        <4> QED BY <1>7, <3>1, <3>4, <4>1 DEF Job, JobFree
      <3> QED BY <3>2, <3>3, <3>4
    <2>2. jobs' = [q \in Pages |-> jobs'[q]]
      BY <1>1 DEF Overtaken
    <2> QED BY <2>1, <2>2 DEF JobsFree
  <1>12. Shapes'
    BY <1>1, <1>2, <1>4, <1>5, <1>8, <1>9, <1>11, NothingSaved DEF IInv, Shapes
  <1>13. Named'
    BY <1>1, <1>6 DEF Named
  <1> QED BY <1>8, <1>10, <1>11, <1>12, <1>13 DEF IInv

\* The PAM's secret comes into the memory together with its name.
LEMMA ResolveIInv ==
    ASSUME NEW p \in Pages, IInv, Resolve(p)
    PROVE  IInv'
  <1> DEFINE s == Head(jobs[p].refs)[1]
             i == Head(jobs[p].refs)[2]
             cfg == [config EXCEPT ![s].secret = Secret(i)]
             res == [resolved EXCEPT ![s] = i]
  <1>1. /\ jobs[p] \in Job /\ JobFree(jobs[p])
        /\ jobs[p].refs \in Seq({"idp", "runtime"} \X Ids) /\ jobs[p].refs # <<>>
    BY JobParts DEF IInv, Shapes, JobsFree, JobFree, Resolve, At
  <1>2. s \in {"idp", "runtime"} /\ i \in Ids
    <2>1. Head(jobs[p].refs) \in {"idp", "runtime"} \X Ids
      BY <1>1
    <2> QED BY <2>1
  <1>3. /\ config' = cfg /\ resolved' = res /\ UNCHANGED <<env, file>>
        /\ \/ pages' = Filled(p, cfg, res) /\ jobs' = [jobs EXCEPT ![p] = Idle]
           \/ /\ pages' = pages /\ Len(jobs[p].refs) # 1
              /\ jobs' = [jobs EXCEPT ![p].refs = Tail(jobs[p].refs)]
    BY DEF Resolve
  <1> HIDE DEF s, i
  <1>4. cfg \in [Sections -> Setting]
    <2> DEFINE v == [config[s] EXCEPT !.secret = Secret(i)]
    <2>1. s \in Sections /\ config[s] \in Setting /\ Secret(i) \in Secrets
      BY <1>2, SecretKinds DEF IInv, Shapes, Sections
    <2>2. v \in Setting
      BY <2>1, SettingParts
    <2>3. cfg = [config EXCEPT ![s] = v]
      OBVIOUS
    <2> HIDE DEF v
    <2> QED BY <2>1, <2>2, <2>3 DEF IInv, Shapes
  <1>5. /\ DOMAIN res = {"idp", "runtime"}
        /\ res \in [{"idp", "runtime"} -> Ids \union {None}]
        /\ \A t \in {"idp", "runtime"} : res[t] \in Ids \union {None}
    BY <1>2 DEF IInv, Shapes
  <1>6. ~Free(cfg["runtime"]) => res["runtime"] # None
    <2>1. CASE s = "runtime"
      BY <1>2, <2>1, SettingsAssumption DEF IInv, Shapes
    <2>2. CASE s # "runtime"
      BY <1>2, <2>2 DEF IInv, Shapes, Named, Sections
    <2> QED BY <2>1, <2>2
  <1> HIDE DEF cfg, res
  <1>7. pages' \in [Pages -> Page] /\ PagesFree'
    BY <1>3, <1>4, <1>5, <1>6, FilledFree
  <1>8. jobs' \in [Pages -> Job] /\ JobsFree'
    <2>1. CASE jobs' = [jobs EXCEPT ![p] = Idle]
      BY <2>1, JobParts DEF IInv, Shapes, JobsFree
    <2>2. CASE /\ Len(jobs[p].refs) # 1
               /\ jobs' = [jobs EXCEPT ![p].refs = Tail(jobs[p].refs)]
      <3> DEFINE r == Tail(jobs[p].refs)
                 j == [jobs[p] EXCEPT !.refs = r]
      <3>1. r \in Seq({"idp", "runtime"} \X Ids) /\ r # <<>>
        <4> DEFINE q == jobs[p].refs
        <4>1. q \in Seq({"idp", "runtime"} \X Ids) /\ q # <<>> /\ Len(q) # 1
          BY <1>1, <2>2
        <4> HIDE DEF q
        <4> QED BY <4>1, RestOfMany DEF q
      <3>2. jobs' = [jobs EXCEPT ![p] = j]
        BY <2>2
      <3> HIDE DEF r
      <3>3. j \in Job /\ JobFree(j)
        BY <1>1, <3>1 DEF Job, JobFree
      <3> HIDE DEF j
      <3> QED BY <3>2, <3>3 DEF IInv, Shapes, JobsFree
    <2> QED BY <1>3, <2>1, <2>2
  <1>9. Shapes'
    BY <1>3, <1>4, <1>5, <1>7, <1>8 DEF IInv, Shapes
  <1>10. Named' /\ FileFree'
    BY <1>3, <1>6 DEF IInv, Named, FileFree
  <1> QED BY <1>7, <1>8, <1>9, <1>10 DEF IInv

\* Every step keeps the first invariant.
LEMMA NextIInv == IInv /\ [Next]_vars => IInv'
  <1> SUFFICES ASSUME IInv, [Next]_vars PROVE IInv'
    OBVIOUS
  <1>1. CASE Start
    BY <1>1, StartIInv
  <1>2. CASE Crash
    BY <1>2, CrashIInv
  <1>3. CASE \E p \in Pages, s \in Sections : OpenView(p, s)
    BY <1>3, OpenViewIInv
  <1>4. CASE \E p \in Pages : Edit(p)
    BY <1>4, EditIInv
  <1>5. CASE \E p \in Pages : Save(p)
    BY <1>5, SaveIInv
  <1>6. CASE \E p \in Pages : Read(p)
    BY <1>6, ReadIInv
  <1>7. CASE \E p \in Pages : Prepare(p)
    BY <1>7, PrepareIInv
  <1>8. CASE \E p \in Pages : Truncate(p)
    BY <1>8, TruncateIInv
  <1>9. CASE \E p \in Pages : Write(p)
    BY <1>9, WriteIInv
  <1>10. CASE \E p \in Pages : Resolve(p)
    BY <1>10, ResolveIInv
  <1>11. CASE \E p \in Pages : Unresolved(p)
    BY <1>11, FailedIInv DEF Unresolved
  <1>12. CASE UNCHANGED vars
    BY <1>12 DEF vars, server, IInv, Shapes, Named, FileFree, PagesFree, JobsFree
  <1> QED BY <1>1, <1>2, <1>3, <1>4, <1>5, <1>6, <1>7, <1>8, <1>9, <1>10, <1>11, <1>12
          DEF Next

-----------------------------------------------------------------------------
(* What was saved is in the file, and the memory is what a restart would   *)
(* make of it: both are carried through a save by what it read, for as     *)
(* long as nothing was written since.                                      *)

\* Two partial functions say the same of the sections of S.
Agree(f, g, S) ==
    \A s \in S : /\ s \in DOMAIN f <=> s \in DOMAIN g
                 /\ s \in DOMAIN g => f[s] = g[s]

\* The memory is what a restart would make of saved.
Follows(s, saved) ==
    LET loaded == Overridden(s, Overlaid(s, saved, Defaults))
    IN /\ Opened(config[s]).secret = Opened(loaded).secret
       /\ s \in DOMAIN env \/ config[s].plain = loaded.plain

Underway == {"prepare", "open", "write"}

\* What a save that was not overtaken is about to write.
ReadOk(j) ==
    /\ j.pc \in {"open", "write"} => j.own \in DOMAIN j.read /\ j.read[j.own] = j.payload
    /\ j.pc \in Underway /\ j.stale = FALSE =>
         /\ torn = FALSE =>
              /\ Agree(j.read, last, Sections \ (undone \union {j.own}))
              /\ \A s \in Sections \ (apart \union {j.own}) : Follows(s, j.read)
         /\ j.pc # "prepare" /\ j.own = "idp" /\ j.payload.secret = Blank =>
              config["idp"].secret = Blank

\* The references a save has still to resolve are those of the memory.
PendingOk(j) ==
    \A k \in 1 .. Len(j.refs) :
        /\ j.refs[k][1] \notin apart =>
             Opened(config[j.refs[k][1]]).secret = Secret(j.refs[k][2])
        /\ j.refs[k][1] = "idp" => config["idp"].secret # Blank

TextInv ==
    torn = FALSE =>
        /\ \A p, q \in Pages : jobs[p].pc = "write" /\ jobs[q].pc = "write" => p = q
        /\ Writing => file.text = "empty"
        /\ ~Writing => file.text \in {"none", "whole"}

FileInv ==
    torn = FALSE /\ ~Writing =>
        /\ Agree(file.saved, last, Sections \ undone)
        /\ up => \A s \in Sections \ apart : Follows(s, file.saved)

BlankInv == config["idp"].secret = Blank => Defaults["idp"].secret = Blank
DownInv == up \/ \A p \in Pages : jobs[p] = Idle
JobsOk == \A p \in Pages : ReadOk(jobs[p]) /\ PendingOk(jobs[p])

SavedInv ==
    /\ torn \in BOOLEAN
    /\ TextInv /\ FileInv /\ BlankInv /\ DownInv /\ JobsOk

\* A reference is opened as its secret, whatever the rest of the setting.
LEMMA OpenedSecret ==
    /\ \A v, w \in Setting : v.secret = w.secret => Opened(v).secret = Opened(w).secret
    /\ \A v \in Setting : /\ v.secret.kind = "ref" => Opened(v).secret = Secret(v.secret.of)
                          /\ v.secret.kind # "ref" => Opened(v).secret = v.secret
                          /\ Opened(v).plain = v.plain
                          /\ Opened(Opened(v)).secret = Opened(v).secret
                          /\ Opened(v).secret = Blank <=> v.secret = Blank
  <1>1. \A v \in Setting : v.secret.kind = "ref" => v.secret.of \in Ids
    BY SettingParts, SecretKinds
  <1>2. \A v \in Setting : v.secret.kind = "ref" =>
           /\ Opened(v).secret = Secret(v.secret.of) /\ Opened(v).plain = v.plain
           /\ Opened(v) \in Setting
    BY <1>1, SecretKinds DEF Opened, Setting
  <1>3. \A v \in Setting : v.secret.kind # "ref" => Opened(v) = v
    BY DEF Opened
  <1>4. \A i \in Ids : Secret(i).kind = "secret" /\ Secret(i) # Blank
    BY SecretKinds
  <1>5. Blank.kind # "ref"
    BY SecretKinds
  <1>6. \A v, w \in Setting : v.secret = w.secret => Opened(v).secret = Opened(w).secret
    BY <1>2, <1>3
  <1>7. \A v \in Setting : Opened(Opened(v)).secret = Opened(v).secret
    BY <1>1, <1>2, <1>3, <1>4
  <1>8. \A v \in Setting : Opened(v).secret = Blank <=> v.secret = Blank
    BY <1>1, <1>2, <1>3, <1>4, <1>5
  <1> QED BY <1>2, <1>3, <1>6, <1>7, <1>8

\* A blank idp secret is kept, any other setting taken as it is.
LEMMA KeptParts ==
    \A s \in Sections, v \in Setting, w \in Setting :
        /\ Kept(s, v, w).plain = v.plain
        /\ ~(s = "idp" /\ v.secret = Blank) => Kept(s, v, w) = v
        /\ s = "idp" /\ v.secret = Blank => Kept(s, v, w).secret = w.secret
  BY SettingParts DEF Kept, Setting

\* The environment overrides the plain value only.
LEMMA OverriddenParts ==
    ASSUME Shapes
    PROVE  \A s \in Sections, v \in Setting :
              /\ Overridden(s, v) \in Setting /\ Overridden(s, v).secret = v.secret
              /\ s \notin DOMAIN env => Overridden(s, v) = v
  <1>1. \A s \in DOMAIN env : s \in Sections /\ env[s] \in Plains
    BY SettingsAssumption DEF Shapes, Partial
  <1> QED BY <1>1, SettingParts DEF Overridden

\* A collected reference is one of the memory.
LEMMA CollectedParts ==
    ASSUME NEW cfg \in [Sections -> Setting], NEW k \in 1 .. Len(Collected(cfg))
    PROVE  LET s == Collected(cfg)[k][1]
               i == Collected(cfg)[k][2]
           IN s \in {"idp", "runtime"} /\ cfg[s].secret.kind = "ref" /\ cfg[s].secret.of = i
  <1> DEFINE a == Reference("idp", cfg)
             b == Reference("runtime", cfg)
             x == <<"idp", cfg["idp"].secret.of>>
             y == <<"runtime", cfg["runtime"].secret.of>>
  <1>1. a = IF cfg["idp"].secret.kind = "ref" THEN <<x>> ELSE <<>>
    BY DEF Reference
  <1>2. b = IF cfg["runtime"].secret.kind = "ref" THEN <<y>> ELSE <<>>
    BY DEF Reference
  <1>3. x[1] = "idp" /\ x[2] = cfg["idp"].secret.of
        /\ y[1] = "runtime" /\ y[2] = cfg["runtime"].secret.of
    OBVIOUS
  <1>4. Collected(cfg) = a \o b
    BY DEF Collected
  <1> HIDE DEF a, b, x, y
  <1>5. \/ cfg["idp"].secret.kind = "ref" /\ Collected(cfg)[k] = x
        \/ cfg["runtime"].secret.kind = "ref" /\ Collected(cfg)[k] = y
    <2>1. CASE cfg["idp"].secret.kind = "ref" /\ cfg["runtime"].secret.kind = "ref"
      <3>1. a = <<x>> /\ b = <<y>> /\ a \in Seq({x, y}) /\ b \in Seq({x, y})
        BY <1>1, <1>2, <2>1
      <3>2. /\ Len(a \o b) = Len(a) + Len(b)
            /\ \A n \in 1 .. Len(a) + Len(b) :
                  (a \o b)[n] = IF n <= Len(a) THEN a[n] ELSE b[n - Len(a)]
        BY <3>1, ConcatProperties
      <3>3. Len(a) = 1 /\ Len(b) = 1 /\ a[1] = x /\ b[1] = y
        BY <3>1
      <3>4. k \in 1 .. 2
        BY <1>4, <3>2, <3>3
      <3>5. Collected(cfg)[k] = IF k = 1 THEN x ELSE y
        BY <1>4, <3>2, <3>3, <3>4
      <3> QED BY <3>5, <2>1
    <2>2. CASE cfg["idp"].secret.kind = "ref" /\ cfg["runtime"].secret.kind # "ref"
      <3>1. Collected(cfg) = <<x>>
        BY <1>1, <1>2, <1>4, <2>2
      <3> QED BY <3>1, <2>2
    <2>3. CASE cfg["idp"].secret.kind # "ref" /\ cfg["runtime"].secret.kind = "ref"
      <3>1. Collected(cfg) = <<y>>
        BY <1>1, <1>2, <1>4, <2>3
      <3> QED BY <3>1, <2>3
    <2>4. CASE cfg["idp"].secret.kind # "ref" /\ cfg["runtime"].secret.kind # "ref"
      <3>1. Collected(cfg) = <<>>
        BY <1>1, <1>2, <1>4, <2>4
      <3> QED BY <3>1
    <2> QED BY <2>1, <2>2, <2>3, <2>4
  <1> QED BY <1>3, <1>5

\* A page without a save has nothing pending.
LEMMA IdleOk == ReadOk(Idle) /\ PendingOk(Idle) /\ Idle.pc = "idle" /\ Idle.refs = <<>>
  BY DEF ReadOk, PendingOk, Idle, Underway

\* Initially the file is what was last saved.
LEMMA InitSaved == Init => SavedInv
  <1> SUFFICES ASSUME Init PROVE SavedInv
    OBVIOUS
  <1>1. \A p \in Pages : jobs[p] = Idle
    BY DEF Init
  <1>2. ~Writing
    BY <1>1, IdleOk DEF Writing
  <1>3. JobsOk
    BY <1>1, IdleOk DEF JobsOk
  <1>4. Agree(file.saved, last, Sections \ undone)
    BY DEF Init, Agree
  <1> QED BY <1>1, <1>2, <1>3, <1>4, IdleOk
          DEF Init, SavedInv, TextInv, FileInv, BlankInv, DownInv

\* What is known of a save and of a section depends on the service only.
LEMMA SameOk ==
    ASSUME UNCHANGED <<env, config, last, undone, apart, torn>>
    PROVE  /\ \A x : (ReadOk(x)' <=> ReadOk(x)) /\ (PendingOk(x)' <=> PendingOk(x))
           /\ \A s, saved : Follows(s, saved)' <=> Follows(s, saved)
  <1>1. \A s, saved : Follows(s, saved)' <=> Follows(s, saved)
    BY DEF Follows, Overridden
  <1>2. \A x : PendingOk(x)' <=> PendingOk(x)
    BY DEF PendingOk
  <1>3. \A x : ReadOk(x)' <=> ReadOk(x)
    BY <1>1 DEF ReadOk
  <1> QED BY <1>1, <1>2, <1>3

\* A step that leaves the service and the saves alone.
LEMMA PageSaved == SavedInv /\ UNCHANGED <<server, jobs, history>> => SavedInv'
  <1> SUFFICES ASSUME SavedInv, UNCHANGED <<server, jobs, history>> PROVE SavedInv'
    OBVIOUS
  <1>1. /\ \A x : (ReadOk(x)' <=> ReadOk(x)) /\ (PendingOk(x)' <=> PendingOk(x))
        /\ \A s, saved : Follows(s, saved)' <=> Follows(s, saved)
    BY SameOk DEF server, history
  <1> QED BY <1>1 DEF SavedInv, TextInv, FileInv, BlankInv, DownInv, JobsOk, Writing, Agree,
                      server, history

\* A step of one save that neither begins nor ends its write.
LEMMA JobSaved ==
    ASSUME NEW p \in Pages, NEW j, IInv, SavedInv, up, ReadOk(j), PendingOk(j),
           j.pc # "write", jobs[p].pc # "write",
           jobs' = [jobs EXCEPT ![p] = j], UNCHANGED <<server, history>>
    PROVE  SavedInv'
  <1>1. /\ \A x : (ReadOk(x)' <=> ReadOk(x)) /\ (PendingOk(x)' <=> PendingOk(x))
        /\ \A s, saved : Follows(s, saved)' <=> Follows(s, saved)
    BY SameOk DEF server, history
  <1>2. /\ jobs'[p] = j
        /\ \A q \in Pages : q # p => jobs'[q] = jobs[q]
    BY DEF IInv, Shapes
  <1>3. JobsOk'
    BY <1>1, <1>2 DEF SavedInv, JobsOk
  <1>4. \A q \in Pages : jobs'[q].pc = "write" <=> jobs[q].pc = "write"
    BY <1>2
  <1>5. TextInv'
    BY <1>4 DEF SavedInv, TextInv, Writing, server, history
  <1>6. FileInv'
    BY <1>1, <1>4 DEF SavedInv, FileInv, Writing, Agree, server, history
  <1> QED BY <1>3, <1>5, <1>6 DEF SavedInv, BlankInv, DownInv, server, history

\* A page sends what it shows.
LEMMA SaveSaved ==
    ASSUME NEW p \in Pages, IInv, SavedInv, Save(p) PROVE SavedInv'
  <1> DEFINE j == [Idle EXCEPT !.pc = "read", !.own = pages[p].view,
                               !.payload = pages[p].form]
  <1>1. j.pc = "read" /\ j.refs = <<>>
    BY DEF Idle
  <1>2. ReadOk(j) /\ PendingOk(j)
    BY <1>1 DEF ReadOk, PendingOk, Underway
  <1>3. jobs' = [jobs EXCEPT ![p] = j] /\ UNCHANGED <<server, history>> /\ up
        /\ jobs[p].pc # "write"
    BY DEF Save
  <1> HIDE DEF j
  <1> QED BY <1>1, <1>2, <1>3, JobSaved

\* A save ends with an error before it wrote.
LEMMA FailedSaved ==
    ASSUME NEW p \in Pages, IInv, SavedInv, Failed(p), up, jobs[p].pc # "write",
           UNCHANGED <<server, history>>
    PROVE  SavedInv'
  <1>1. jobs' = [jobs EXCEPT ![p] = Idle]
    BY DEF Failed
  <1> QED BY <1>1, IdleOk, JobSaved

\* What is read is what was saved, and what the memory follows.
LEMMA ReadSaved ==
    ASSUME NEW p \in Pages, IInv, SavedInv, Read(p) PROVE SavedInv'
  <1>1. up /\ jobs[p].pc = "read" /\ UNCHANGED <<server, history>>
    BY DEF Read, At
  <1>2. CASE file.text \in {"none", "whole"}
    <2> DEFINE j == [jobs[p] EXCEPT !.pc = "prepare", !.read = file.saved]
    <2>1. jobs[p] \in Job /\ PendingOk(jobs[p])
      BY DEF IInv, Shapes, SavedInv, JobsOk
    <2>2. /\ j.pc = "prepare" /\ j.read = file.saved /\ j.refs = jobs[p].refs
      BY <2>1 DEF Job
    <2>3. jobs' = [jobs EXCEPT ![p] = j]
      BY <1>2 DEF Read
    <2> HIDE DEF j
    <2>4. torn = FALSE => ~Writing
      BY <1>2 DEF SavedInv, TextInv
    <2>5. ReadOk(j)
      BY <1>1, <2>2, <2>4 DEF ReadOk, SavedInv, FileInv, Agree
    <2>6. PendingOk(j)
      BY <2>1, <2>2 DEF PendingOk
    <2> QED BY <1>1, <2>2, <2>3, <2>5, <2>6, JobSaved
  <1>3. CASE file.text \notin {"none", "whole"}
    BY <1>1, <1>3, FailedSaved DEF Read
  <1> QED BY <1>2, <1>3

\* The other sections of what is written are those read.
LEMMA PrepareSaved ==
    ASSUME NEW p \in Pages, IInv, SavedInv, Prepare(p) PROVE SavedInv'
  <1>1. up /\ jobs[p].pc = "prepare" /\ UNCHANGED <<server, history>>
    BY DEF Prepare, At
  <1>2. CASE Refusal(jobs[p])
    BY <1>1, <1>2, FailedSaved DEF Prepare
  <1>3. CASE ~Refusal(jobs[p])
    <2> DEFINE o == jobs[p].own
               r == jobs[p].read
               new == Kept(o, jobs[p].payload, config[o])
               w == With(o, new, r)
               j == [jobs[p] EXCEPT !.pc = "open", !.payload = new, !.read = w]
    <2>1. /\ jobs[p] \in Job /\ PendingOk(jobs[p]) /\ ReadOk(jobs[p])
          /\ o \in Sections /\ jobs[p].payload \in Setting /\ config[o] \in Setting
      BY JobParts DEF IInv, Shapes, SavedInv, JobsOk
    <2>2. jobs' = [jobs EXCEPT ![p] = j]
      BY <1>3 DEF Prepare
    <2>3. /\ j.pc = "open" /\ j.read = w /\ j.refs = jobs[p].refs /\ j.own = o
          /\ j.payload = new /\ j.stale = jobs[p].stale
      BY <2>1 DEF Job
    <2>4. o = "idp" /\ new.secret = Blank => config["idp"].secret = Blank
      BY <2>1, KeptParts
    <2>5. /\ DOMAIN w = {o} \union DOMAIN r /\ w[o] = new
          /\ \A t \in DOMAIN r : t # o => w[t] = r[t]
      <3> HIDE DEF o, r, new
      <3> QED BY DEF With, w
    <2> HIDE DEF j, w, new
    <2>6. Agree(r, last, Sections \ (undone \union {o})) =>
            Agree(w, last, Sections \ (undone \union {o}))
      BY <2>5 DEF Agree
    <2>7. \A s \in Sections \ (apart \union {o}) : Follows(s, r) => Follows(s, w)
      BY <2>5 DEF Follows, Overlaid
    <2>8. ReadOk(j)
      BY <1>1, <2>1, <2>3, <2>4, <2>5, <2>6, <2>7 DEF ReadOk, Underway
    <2>9. PendingOk(j)
      BY <2>1, <2>3 DEF PendingOk
    <2> QED BY <1>1, <2>2, <2>3, <2>8, <2>9, JobSaved
  <1> QED BY <1>2, <1>3

\* Only one save writes, or the file is torn.
LEMMA TruncateSaved ==
    ASSUME NEW p \in Pages, IInv, SavedInv, Truncate(p) PROVE SavedInv'
  <1> DEFINE j == [jobs[p] EXCEPT !.pc = "write"]
  <1>1. /\ up /\ up' = up /\ jobs[p].pc = "open" /\ file' = [text |-> "empty", saved |-> <<>>]
        /\ jobs' = [jobs EXCEPT ![p] = j]
        /\ torn' = (torn \/ \E q \in Pages \ {p} : jobs[q].pc = "write")
        /\ UNCHANGED <<env, config, last, undone, apart>>
    BY DEF Truncate, At
  <1>2. jobs[p] \in Job /\ ReadOk(jobs[p]) /\ PendingOk(jobs[p])
    BY DEF IInv, Shapes, SavedInv, JobsOk
  <1>3. /\ j.pc = "write" /\ j.own = jobs[p].own /\ j.payload = jobs[p].payload
        /\ j.read = jobs[p].read /\ j.stale = jobs[p].stale /\ j.refs = jobs[p].refs
    BY <1>2 DEF Job
  <1> HIDE DEF j
  <1>4. /\ torn' \in BOOLEAN
        /\ torn' = FALSE => torn = FALSE /\ \A q \in Pages \ {p} : jobs[q].pc # "write"
    BY <1>1 DEF SavedInv
  <1>5. /\ jobs'[p] = j
        /\ \A q \in Pages : q # p => jobs'[q] = jobs[q]
    BY <1>1 DEF IInv, Shapes
  <1>6. ReadOk(j) /\ PendingOk(j)
    BY <1>1, <1>2, <1>3 DEF ReadOk, PendingOk, Underway
  <1>7. \A x : (ReadOk(x) => ReadOk(x)') /\ (PendingOk(x) => PendingOk(x)')
    <2>1. \A s, saved : Follows(s, saved)' <=> Follows(s, saved)
      BY <1>1 DEF Follows, Overridden
    <2> QED BY <1>1, <1>4, <2>1 DEF ReadOk, PendingOk
  <1>8. JobsOk'
    BY <1>5, <1>6, <1>7 DEF SavedInv, JobsOk
  <1>9. Writing'
    BY <1>3, <1>5 DEF Writing
  <1>10. TextInv'
    BY <1>1, <1>4, <1>5, <1>9 DEF TextInv
  <1> QED BY <1>1, <1>4, <1>8, <1>9, <1>10 DEF SavedInv, FileInv, BlankInv, DownInv

\* A crash cuts the write under way, if any.
LEMMA CrashSaved == IInv /\ SavedInv /\ Crash => SavedInv'
  <1> SUFFICES ASSUME IInv, SavedInv, Crash PROVE SavedInv'
    OBVIOUS
  <1>1. /\ up' = FALSE /\ jobs' = [p \in Pages |-> Idle]
        /\ torn' = (torn \/ Writing) /\ UNCHANGED <<env, file, config, last, undone, apart>>
    BY DEF Crash, Writing
  <1>2. /\ torn' \in BOOLEAN
        /\ torn' = FALSE => torn = FALSE /\ ~Writing
    BY <1>1 DEF SavedInv
  <1>3. \A p \in Pages : jobs'[p] = Idle
    BY <1>1
  <1>4. ~Writing'
    BY <1>3, IdleOk DEF Writing
  <1>5. \A x : x = Idle => ReadOk(x)' /\ PendingOk(x)'
    BY IdleOk DEF ReadOk, PendingOk, Underway
  <1>6. JobsOk'
    BY <1>3, <1>5 DEF JobsOk
  <1>7. TextInv'
    BY <1>1, <1>2, <1>3, <1>4, IdleOk DEF SavedInv, TextInv
  <1>8. FileInv'
    BY <1>1, <1>2 DEF SavedInv, FileInv, Agree
  <1> QED BY <1>1, <1>2, <1>3, <1>6, <1>7, <1>8 DEF SavedInv, BlankInv, DownInv

\* A start makes the memory what the file says.
LEMMA StartSaved == IInv /\ SavedInv /\ Start => SavedInv'
  <1> SUFFICES ASSUME IInv, SavedInv, Start PROVE SavedInv'
    OBVIOUS
  <1>1. /\ ~up /\ file.text \in {"none", "whole"} /\ up' = TRUE /\ apart' = {}
        /\ config' = [s \in Sections |-> Opened(Loaded(s))]
        /\ UNCHANGED <<env, file, jobs, last, undone, torn>>
    BY DEF Start
  <1>2. \A p \in Pages : jobs[p] = Idle /\ jobs'[p] = Idle
    BY <1>1 DEF SavedInv, DownInv
  <1>3. ~Writing /\ ~Writing'
    BY <1>2, IdleOk DEF Writing
  <1>4. JobsOk'
    <2>1. \A x : x = Idle => ReadOk(x)' /\ PendingOk(x)'
      BY IdleOk DEF ReadOk, PendingOk, Underway
    <2> QED BY <1>2, <2>1 DEF JobsOk
  <1>5. \A s \in Sections : Loaded(s) \in Setting
    BY LoadedType DEF IInv
  <1>6. \A s \in Sections : Follows(s, file.saved)'
    <2>1. \A s \in Sections : Loaded(s)' = Loaded(s)
      BY <1>1 DEF Loaded, Overridden
    <2>2. \A s \in Sections : /\ Opened(Opened(Loaded(s))).secret = Opened(Loaded(s)).secret
                              /\ Opened(Loaded(s)).plain = Loaded(s).plain
      BY <1>5, OpenedSecret
    <2>3. \A s \in Sections : config'[s] = Opened(Loaded(s))
      BY <1>1
    <2>4. \A s \in Sections : /\ Opened(config'[s]).secret = Opened(Loaded(s)').secret
                              /\ config'[s].plain = Loaded(s)'.plain
      BY <2>1, <2>2, <2>3
    <2> QED BY <2>4 DEF Follows, Loaded
  <1>7. BlankInv'
    <2>1. config'["idp"] = Opened(Loaded("idp")) /\ Loaded("idp") \in Setting
      BY <1>1, <1>5 DEF Sections
    <2>2. config'["idp"].secret = Blank => Loaded("idp").secret = Blank
      BY <2>1, OpenedSecret
    <2>3. \A s \in DOMAIN file.saved : file.saved[s] \in Setting
      BY DEF IInv, Shapes, Partial
    <2>4. Overlaid("idp", file.saved, Defaults) \in Setting
      BY <2>3, KeptType, DefaultsType DEF Overlaid, Sections
    <2>5. Loaded("idp").secret = Overlaid("idp", file.saved, Defaults).secret
      BY <2>4, OverriddenParts DEF Loaded, IInv, Sections
    <2>6. Overlaid("idp", file.saved, Defaults).secret = Blank => Defaults["idp"].secret = Blank
      BY <2>3, KeptParts, DefaultsType DEF Overlaid, Sections
    <2> QED BY <2>2, <2>5, <2>6 DEF BlankInv
  <1>8. TextInv'
    BY <1>1, <1>2, <1>3, IdleOk DEF SavedInv, TextInv
  <1>9. FileInv'
    BY <1>1, <1>3, <1>6 DEF SavedInv, FileInv, Agree
  <1> QED BY <1>1, <1>4, <1>7, <1>8, <1>9 DEF SavedInv, DownInv

\* What the PAM answers for a pending reference is what the memory meant.
LEMMA ResolveSaved ==
    ASSUME NEW p \in Pages, IInv, SavedInv, Resolve(p) PROVE SavedInv'
  <1> DEFINE s == Head(jobs[p].refs)[1]
             i == Head(jobs[p].refs)[2]
             q == jobs[p].refs
             r == Tail(q)
             j == [jobs[p] EXCEPT !.refs = r]
  <1>1. /\ up /\ jobs[p].pc = "resolve" /\ config' = [config EXCEPT ![s].secret = Secret(i)]
        /\ UNCHANGED <<env, file, up, last, undone, apart, torn>>
        /\ \/ jobs' = [jobs EXCEPT ![p] = Idle]
           \/ jobs' = [jobs EXCEPT ![p] = j]
    BY DEF Resolve, At, history
  <1>2. /\ jobs[p] \in Job /\ PendingOk(jobs[p]) /\ ReadOk(jobs[p])
        /\ q \in Seq({"idp", "runtime"} \X Ids) /\ q # <<>>
    BY <1>1, JobParts DEF IInv, Shapes, SavedInv, JobsOk, JobsFree, JobFree
  <1>3. /\ 1 \in 1 .. Len(q) /\ q[1][1] = s /\ q[1][2] = i
        /\ s \in {"idp", "runtime"} /\ i \in Ids
        /\ \A k \in 1 .. Len(r) : k + 1 \in 1 .. Len(q) /\ r[k] = q[k + 1]
    <2> HIDE DEF q
    <2>1. Len(q) \in Nat /\ Len(q) # 0 /\ Head(q) = q[1]
      BY <1>2, EmptySeq, LenProperties
    <2>2. /\ Len(r) = Len(q) - 1
          /\ \A k \in 1 .. Len(r) : r[k] = q[k + 1]
      BY <1>2, HeadTailProperties
    <2>3. q[1] \in {"idp", "runtime"} \X Ids
      BY <1>2, <2>1, ElementOfSeq
    <2>4. s = q[1][1] /\ i = q[1][2]
      BY <2>1 DEF q
    <2> QED BY <2>1, <2>2, <2>3, <2>4
  <1>4. /\ s \notin apart => Opened(config[s]).secret = Secret(i)
        /\ s = "idp" => config["idp"].secret # Blank
    BY <1>2, <1>3 DEF PendingOk
  <1>5. /\ j.pc = "resolve" /\ j.refs = r
    BY <1>1, <1>2 DEF Job
  <1> HIDE DEF s, i, q, r, j
  <1>6. config \in [Sections -> Setting] /\ s \in Sections
        /\ Secret(i) \in Secrets /\ Secret(i).kind = "secret" /\ Secret(i) # Blank
    BY <1>3, SecretKinds DEF IInv, Shapes, Sections
  <1>7. /\ config'[s].secret = Secret(i) /\ config'[s].plain = config[s].plain
        /\ Opened(config'[s]).secret = Secret(i)
        /\ \A t \in Sections : t # s => config'[t] = config[t]
    <2> DEFINE v == [config[s] EXCEPT !.secret = Secret(i)]
    <2>1. /\ v \in Setting /\ v.secret = Secret(i) /\ v.plain = config[s].plain
      BY <1>6, SettingParts DEF Setting
    <2>2. config' = [config EXCEPT ![s] = v]
      BY <1>1
    <2> HIDE DEF v
    <2>3. Opened(v).secret = Secret(i)
      BY <1>6, <2>1, OpenedSecret
    <2> QED BY <1>6, <2>1, <2>2, <2>3
  <1>8. \A t \in Sections : /\ config'[t].plain = config[t].plain
                            /\ t \notin apart =>
                                 Opened(config'[t]).secret = Opened(config[t]).secret
    BY <1>4, <1>7
  <1>9. /\ config["idp"].secret = Blank => config'["idp"].secret = Blank
        /\ config'["idp"].secret = Blank => config["idp"].secret = Blank
    BY <1>4, <1>6, <1>7 DEF Sections
  <1>10. \A t \in Sections \ apart : \A saved : Follows(t, saved)' <=> Follows(t, saved)
    BY <1>1, <1>8 DEF Follows, Overridden
  <1>11. \A x : ReadOk(x) => ReadOk(x)'
    BY <1>1, <1>9, <1>10 DEF ReadOk
  <1>12. ASSUME NEW x \in Job, PendingOk(x) PROVE PendingOk(x)'
    <2> SUFFICES ASSUME NEW k \in 1 .. Len(x.refs)
                 PROVE  /\ x.refs[k][1] \notin apart' =>
                             Opened(config'[x.refs[k][1]]).secret = Secret(x.refs[k][2])
                        /\ x.refs[k][1] = "idp" => config'["idp"].secret # Blank
      BY DEF PendingOk
    <2>1. x.refs \in Seq({"idp", "runtime"} \X Ids)
      BY JobParts
    <2>2. x.refs[k] \in {"idp", "runtime"} \X Ids
      BY <2>1, ElementOfSeq
    <2>3. x.refs[k][1] \in Sections
      BY <2>2 DEF Sections
    <2> QED BY <1>1, <1>8, <1>9, <2>3, <1>12 DEF PendingOk
  <1>13. PendingOk(j)
    BY <1>2, <1>3, <1>5 DEF PendingOk, q
  <1>14. ReadOk(j)
    BY <1>5 DEF ReadOk, Underway
  <1>15. j \in Job
    <2>1. r \in Seq({"idp", "runtime"} \X Ids)
      BY <1>2, HeadTailProperties DEF r
    <2> QED BY <1>2, <2>1 DEF j, Job
  <1>16. /\ jobs'[p] \in {Idle, j}
         /\ \A t \in Pages : t # p => jobs'[t] = jobs[t]
    BY <1>1 DEF IInv, Shapes
  <1>17. JobsOk'
    <2> SUFFICES ASSUME NEW t \in Pages PROVE ReadOk(jobs[t])' /\ PendingOk(jobs[t])'
      BY DEF JobsOk
    <2>1. jobs[t] \in Job /\ ReadOk(jobs[t]) /\ PendingOk(jobs[t])
      BY DEF IInv, Shapes, SavedInv, JobsOk
    <2>2. jobs'[t] \in {Idle, j, jobs[t]}
      BY <1>16
    <2>3. PICK x \in Job : x = jobs'[t] /\ ReadOk(x) /\ PendingOk(x)
      BY <1>13, <1>14, <1>15, <2>1, <2>2, IdleOk, JobParts
    <2>4. ReadOk(x)' /\ PendingOk(x)'
      BY <1>11, <1>12, <2>3
    <2> QED BY <2>3, <2>4
  <1>18. \A t \in Pages : jobs'[t].pc = "write" <=> jobs[t].pc = "write"
    BY <1>1, <1>5, <1>16, IdleOk
  <1>19. TextInv'
    BY <1>1, <1>18 DEF SavedInv, TextInv, Writing
  <1>20. FileInv'
    BY <1>1, <1>10, <1>18 DEF SavedInv, FileInv, Agree, Writing
  <1> QED BY <1>1, <1>9, <1>17, <1>19, <1>20 DEF SavedInv, BlankInv, DownInv

\* What the memory makes of a written section is what a restart would.
LEMMA OwnFollows ==
    ASSUME NEW j \in Job, IInv, SavedInv, ReadOk(j), j.pc = "write",
           config' = Applied(j), UNCHANGED env,
           j.own = "idp" /\ j.payload.secret = Blank => j.stale = FALSE
    PROVE  Follows(j.own, j.read)'
  <1> DEFINE v == Kept(j.own, j.payload, config[j.own])
  <1>1. /\ j.own \in Sections /\ j.payload \in Setting /\ j.read \in Partial(Setting)
        /\ config[j.own] \in Setting /\ Defaults[j.own] \in Setting
        /\ j.own \in DOMAIN j.read /\ j.read[j.own] = j.payload
    BY JobParts, DefaultsType DEF IInv, Shapes, ReadOk
  <1>2. config'[j.own] = v /\ v \in Setting
    BY <1>1, KeptType DEF Applied, IInv, Shapes
  <1>3. Overlaid(j.own, j.read, Defaults) = Kept(j.own, j.payload, Defaults[j.own])
    BY <1>1 DEF Overlaid
  <1>4. v.plain = Overlaid(j.own, j.read, Defaults).plain
    BY <1>1, <1>3, KeptParts
  <1>5. v.secret = Overlaid(j.own, j.read, Defaults).secret
    <2>1. CASE j.own = "idp" /\ j.payload.secret = Blank
      <3>1. config["idp"].secret = Blank /\ Defaults["idp"].secret = Blank
        BY <2>1 DEF ReadOk, Underway, SavedInv, BlankInv
      <3> QED BY <1>1, <1>3, <2>1, <3>1, KeptParts
    <2>2. CASE ~(j.own = "idp" /\ j.payload.secret = Blank)
      BY <1>1, <1>3, <2>2, KeptParts
    <2> QED BY <2>1, <2>2
  <1> HIDE DEF v
  <1>6. Overlaid(j.own, j.read, Defaults) \in Setting
    BY <1>1, <1>3, KeptType
  <1>7. Opened(v).secret = Opened(Overlaid(j.own, j.read, Defaults)).secret
    BY <1>2, <1>5, <1>6, OpenedSecret
  <1> DEFINE l == Overlaid(j.own, j.read, Defaults)
  <1>8. /\ Overridden(j.own, l) \in Setting /\ Overridden(j.own, l).secret = l.secret
        /\ j.own \notin DOMAIN env => Overridden(j.own, l) = l
    BY <1>1, <1>6, OverriddenParts DEF IInv
  <1>9. Overridden(j.own, l)' = Overridden(j.own, l)
    BY DEF Overridden
  <1>10. Opened(Overridden(j.own, l)).secret = Opened(l).secret
    BY <1>6, <1>8, OpenedSecret
  <1> QED BY <1>2, <1>4, <1>7, <1>8, <1>9, <1>10 DEF Follows

\* What a save writes is its own section, and the others as they were saved.
LEMMA WriteSaved ==
    ASSUME NEW p \in Pages, IInv, SavedInv, Write(p), IInv' PROVE SavedInv'
  <1> DEFINE refs == IF jobs[p].own = "rules" THEN <<>> ELSE Collected(Applied(jobs[p]))
             done == [jobs[p] EXCEPT !.pc = "resolve", !.refs = refs]
  <1>1. /\ up /\ up' /\ jobs[p].pc = "write" /\ WriteText(p) /\ config' = Applied(jobs[p])
        /\ jobs' = Overtaken(p, refs) /\ env' = env /\ torn' = torn
    BY DEF Write, At
  <1>2. PICK j \in Job : j = jobs[p]
    BY DEF IInv, Shapes
  <1>3. /\ ReadOk(j) /\ PendingOk(j) /\ j.own \in Sections /\ j.pc = "write"
        /\ j.payload \in Setting
    BY <1>1, <1>2, JobParts DEF SavedInv, JobsOk
  <1>4. /\ last' = With(j.own, j.payload, last)
        /\ undone' = (IF j.stale THEN Sections \ {j.own} ELSE undone \ {j.own})
        /\ apart' = (IF Crossed(p) THEN apart \union {j.own} ELSE apart \ {j.own})
                      \union (IF j.stale THEN Sections \ {j.own} ELSE {})
        /\ file.text = "empty" => file' = [text |-> "whole", saved |-> j.read]
    BY <1>1, <1>2 DEF WriteText
  <1>5. config \in [Sections -> Setting] /\ config' \in [Sections -> Setting]
    BY DEF IInv, Shapes
  <1>6. /\ config'[j.own] = Kept(j.own, j.payload, config[j.own])
        /\ \A s \in Sections : s # j.own => config'[s] = config[s]
    BY <1>1, <1>2, <1>5, <1>3 DEF Applied
  <1>7. config'["idp"].secret = Blank => config["idp"].secret = Blank
    <2>1. CASE j.own = "idp"
      BY <1>3, <1>5, <1>6, <2>1, KeptParts DEF Sections
    <2>2. CASE j.own # "idp"
      BY <1>6, <2>2 DEF Sections
    <2> QED BY <2>1, <2>2
  <1>8. /\ apart \ {j.own} \subseteq apart'
        /\ Crossed(p) => j.own \in apart'
        /\ j.stale # FALSE => Sections \ {j.own} \subseteq apart'
    <2>1. j.stale \in BOOLEAN
      BY DEF Job
    <2> QED BY <1>4, <2>1
  <1> HIDE DEF refs, done
  \* The saves: those under way are overtaken, what is pending is as it was.
  <1>9. \A q \in Pages \ {p} : /\ jobs'[q].pc = jobs[q].pc
                               /\ jobs'[q].own = jobs[q].own /\ jobs'[q].read = jobs[q].read
                               /\ jobs'[q].payload = jobs[q].payload
                               /\ jobs'[q].refs = jobs[q].refs
                               /\ jobs[q].pc \in Underway => jobs'[q].stale = TRUE
    BY <1>1 DEF Overtaken, IInv, Shapes, Job, Underway
  <1>10. jobs'[p] = IF refs = <<>> THEN Idle ELSE done
    BY <1>1 DEF Overtaken, done
  <1>11. done.pc = "resolve" /\ done.refs = refs
    BY <1>2 DEF done, Job
  <1>12. ASSUME NEW q \in Pages, q # p PROVE ReadOk(jobs[q])' /\ PendingOk(jobs[q])'
    <2>1. ReadOk(jobs[q]) /\ PendingOk(jobs[q]) /\ jobs[q] \in Job
      BY DEF IInv, Shapes, SavedInv, JobsOk
    <2>2. ReadOk(jobs[q])'
      BY <1>9, <1>12, <2>1 DEF ReadOk
    <2>3. ASSUME NEW k \in 1 .. Len(jobs[q].refs)
          PROVE  /\ jobs[q].refs[k][1] \notin apart' =>
                      Opened(config'[jobs[q].refs[k][1]]).secret = Secret(jobs[q].refs[k][2])
                 /\ jobs[q].refs[k][1] = "idp" => config'["idp"].secret # Blank
      <3>1. jobs[q].refs \in Seq({"idp", "runtime"} \X Ids)
        BY <2>1, JobParts
      <3>2. jobs[q].refs[k] \in {"idp", "runtime"} \X Ids
        BY <3>1, ElementOfSeq
      <3>3. jobs[q].refs[k][1] \in Sections
        BY <3>2 DEF Sections
      <3>4. jobs[q].refs[k][1] = j.own => Crossed(p)
        BY <1>2, <1>12 DEF Crossed
      <3> QED BY <1>6, <1>7, <1>8, <2>1, <3>3, <3>4 DEF PendingOk
    <2>4. PendingOk(jobs[q])'
      BY <1>9, <1>12, <2>3 DEF PendingOk
    <2> QED BY <2>2, <2>4
  <1>13. ReadOk(jobs[p])' /\ PendingOk(jobs[p])'
    <2>1. CASE refs = <<>>
      BY <1>10, <2>1, IdleOk DEF ReadOk, PendingOk, Underway, Idle
    <2>2. CASE refs # <<>>
      <3>1. jobs'[p].pc = "resolve" /\ jobs'[p].refs = refs /\ refs = Collected(config')
        BY <1>1, <1>10, <1>11, <2>2 DEF refs
      <3>2. ReadOk(jobs[p])'
        BY <3>1 DEF ReadOk, Underway
      <3>3. ASSUME NEW k \in 1 .. Len(refs)
            PROVE  /\ refs[k][1] \in Sections
                   /\ config'[refs[k][1]].secret.kind = "ref"
                   /\ config'[refs[k][1]].secret.of = refs[k][2]
        <4>1. PICK cfg \in [Sections -> Setting] : cfg = config'
          BY <1>5
        <4>2. k \in 1 .. Len(Collected(cfg)) /\ refs = Collected(cfg)
          BY <3>1, <3>3, <4>1
        <4> QED BY <4>1, <4>2, CollectedParts DEF Sections
      <3>4. ASSUME NEW k \in 1 .. Len(refs)
            PROVE  /\ Opened(config'[refs[k][1]]).secret = Secret(refs[k][2])
                   /\ refs[k][1] = "idp" => config'["idp"].secret # Blank
        <4>1. config'[refs[k][1]] \in Setting
          BY <1>5, <3>3
        <4> QED BY <3>3, <4>1, OpenedSecret, SecretKinds
      <3>5. PendingOk(jobs[p])'
        BY <3>1, <3>4 DEF PendingOk
      <3> QED BY <3>2, <3>5
    <2> QED BY <2>1, <2>2
  <1>14. JobsOk'
    BY <1>12, <1>13 DEF JobsOk
  \* The file: whole again, unless it was torn.
  <1>15. torn = FALSE => /\ \A q \in Pages : jobs[q].pc = "write" => q = p
                         /\ file' = [text |-> "whole", saved |-> j.read]
    <2>1. Writing
      BY <1>1 DEF Writing
    <2> QED BY <1>1, <1>4, <2>1 DEF SavedInv, TextInv
  <1>16. jobs'[p].pc # "write"
    BY <1>10, <1>11, IdleOk
  <1>17. torn = FALSE => ~Writing'
    BY <1>9, <1>15, <1>16 DEF Writing
  <1>18. TextInv'
    BY <1>1, <1>9, <1>15, <1>16, <1>17 DEF TextInv, Writing
  <1>19. torn = FALSE => Agree(j.read, last', Sections \ undone')
    <2> SUFFICES ASSUME torn = FALSE PROVE Agree(j.read, last', Sections \ undone')
      OBVIOUS
    <2>1. j.own \in DOMAIN j.read /\ j.read[j.own] = j.payload
      BY <1>3 DEF ReadOk
    <2>2. /\ DOMAIN last' = {j.own} \union DOMAIN last /\ last'[j.own] = j.payload
          /\ \A t \in DOMAIN last : t # j.own => last'[t] = last[t]
      BY <1>4 DEF With
    <2>3. ASSUME NEW s \in Sections \ undone', s # j.own
          PROVE  /\ s \in DOMAIN j.read <=> s \in DOMAIN last
                 /\ s \in DOMAIN last => j.read[s] = last[s]
      <3>1. j.stale = FALSE
        <4>1. j.stale \in BOOLEAN
          BY DEF Job
        <4> QED BY <1>4, <2>3, <4>1
      <3>2. s \in Sections \ (undone \union {j.own})
        BY <1>4, <2>3, <3>1
      <3> QED BY <1>3, <3>1, <3>2 DEF ReadOk, Underway, Agree
    <2> QED BY <2>1, <2>2, <2>3 DEF Agree
  <1>20. torn = FALSE => \A s \in Sections \ apart' : Follows(s, j.read)'
    <2> SUFFICES ASSUME torn = FALSE, NEW s \in Sections \ apart' PROVE Follows(s, j.read)'
      OBVIOUS
    <2>1. j.stale \in BOOLEAN
      BY DEF Job
    <2>2. CASE s = j.own
      <3>1. j.own = "idp" /\ j.payload.secret = Blank => j.stale = FALSE
        BY <1>2, <1>8, <2>1, <2>2 DEF Crossed
      <3>2. config' = Applied(j)
        BY <1>1, <1>2
      <3>3. Follows(j.own, j.read)'
        BY <1>1, <1>3, <3>1, <3>2, OwnFollows
      <3> QED BY <2>2, <3>3
    <2>3. CASE s # j.own
      <3>1. j.stale = FALSE /\ s \in Sections \ (apart \union {j.own})
        BY <1>8, <2>1, <2>3
      <3>2. Follows(s, j.read)
        BY <1>3, <3>1 DEF ReadOk, Underway
      <3> QED BY <1>1, <1>6, <2>3, <3>2 DEF Follows, Overridden
    <2> QED BY <2>2, <2>3
  <1>21. FileInv'
    BY <1>1, <1>15, <1>19, <1>20 DEF FileInv
  <1> QED BY <1>1, <1>7, <1>14, <1>18, <1>21 DEF SavedInv, BlankInv, DownInv

\* Every step keeps the second invariant.
LEMMA NextSaved == IInv /\ SavedInv /\ [Next]_vars => SavedInv'
  <1> SUFFICES ASSUME IInv, SavedInv, [Next]_vars PROVE SavedInv'
    OBVIOUS
  <1>1. CASE \E p \in Pages : (\E s \in Sections : OpenView(p, s)) \/ Edit(p)
    BY <1>1, PageSaved DEF OpenView, Edit
  <1>2. CASE UNCHANGED vars
    BY <1>2, PageSaved DEF vars
  <1>3. ASSUME NEW p \in Pages, Unresolved(p) PROVE SavedInv'
    BY <1>3, FailedSaved DEF Unresolved, At
  <1>4. ASSUME NEW p \in Pages, Write(p) PROVE SavedInv'
    BY <1>4, WriteIInv, WriteSaved
  <1> QED BY <1>1, <1>2, <1>3, <1>4, CrashSaved, StartSaved, SaveSaved, ReadSaved,
             PrepareSaved, TruncateSaved, ResolveSaved DEF Next

\* What is saved stays, for ever.
LEMMA SavedInvariance == Spec => []SavedInv
  <1>1. Init => IInv /\ SavedInv
    BY InitIInv, InitSaved
  <1>2. IInv /\ SavedInv /\ [Next]_vars => IInv' /\ SavedInv'
    BY NextIInv, NextSaved
  <1> QED BY <1>1, <1>2, PTL DEF Spec

(* What a save wrote is in the file until its section is saved again, but  *)
(* for saves that had read the file before and writes cut or crossed, for  *)
(* any pages, saves and crashes (readPersistedUiSettings, Object.assign,   *)
(* writePersistedUiSettings).                                              *)
THEOREM SavesStay == Spec => []SavesSurvive
  <1>1. SavedInv => SavesSurvive
    <2>1. torn \in BOOLEAN => (~torn <=> torn = FALSE)
      OBVIOUS
    <2> QED BY <2>1 DEF SavedInv, TextInv, FileInv, Agree, SavesSurvive
  <1> QED BY <1>1, SavedInvariance, PTL

(* With no save under way, a restart changes nothing: what the memory      *)
(* works with is what the file says (applyIdpSettings and its kin against  *)
(* loadConfig), but for crossed saves, a torn file and the environment.    *)
THEOREM RestartChangesNothing == Spec => []MemoryFollowsFile
  <1>1. SavedInv => MemoryFollowsFile
    <2>1. torn \in BOOLEAN => (~torn <=> torn = FALSE)
      OBVIOUS
    <2> QED BY <2>1 DEF SavedInv, FileInv, Writing, Follows, Loaded, MemoryFollowsFile
  <1> QED BY <1>1, SavedInvariance, PTL

-----------------------------------------------------------------------------
(* For any number of pages, secrets, saves, crashes and failures of the    *)
(* PAM: neither ui-settings.json nor a page ever holds a runtime secret    *)
(* that came from the PAM (publicRuntimeSettings, secretDisplayValue).     *)
THEOREM RuntimeSecretsStay == Spec => []ReferencesKept
  <1>1. IInv => ReferencesKept
    BY DEF IInv, FileFree, PagesFree, ReferencesKept, Free
  <1> QED BY <1>1, InitIInv, NextIInv, PTL DEF Spec

(* The memory never holds a runtime secret of the PAM without the name     *)
(* behind it, however saves, resolutions and starts interleave             *)
(* (clearResolvedSecretReferences, resolveSecretReferences).               *)
THEOREM RuntimeSecretsNamed == Spec => []Named
  <1>1. IInv => Named
    BY DEF IInv
  <1> QED BY <1>1, InitIInv, NextIInv, PTL DEF Spec

-----------------------------------------------------------------------------
(***************************************************************************)
(* Logins by an identity provider, for every set of groups, states and     *)
(* requests, every role mapping, all settings and every value of the       *)
(* bounds. The invariant follows a request from step to step: which groups *)
(* it may hold at that point (SoundGroups), what its state or its          *)
(* certificate have been found to be (SoundState, SoundCertificate).       *)
(***************************************************************************)
USE LoginsAssumption

\* The groups of request q are of source s, of some time since it began.
Between(q, s) == q.always[s] \subseteq q.groups /\ q.groups \subseteq q.ever[s]

\* The directory's settings ask for the attribute, and q has its groups.
DirectoryRead(q) ==
    IF "attribute" \in q.reads THEN Between(q, "directory") ELSE q.groups = {}

AtWork == {"get", "delete", "exchange", "claims", "metadata", "fetch", "cache", "judge",
           "enrich", "find", "bind", "search", "save"}

\* What the groups of a request are at each of its steps.
SoundGroups(q, memberships) ==
    /\ q.pc \in AtWork =>
         \A s \in Sources : /\ q.always[s] \subseteq memberships[s]
                            /\ memberships[s] \subseteq q.ever[s]
    /\ q.pc \in {"get", "delete", "exchange", "claims", "metadata", "fetch", "cache", "judge",
                 "enrich"} => q.source = "provider"
    /\ q.pc \in {"metadata", "fetch", "cache", "judge", "enrich"} => Between(q, "provider")
    /\ q.pc \in {"find", "bind", "search"} => q.source = "directory" /\ q.reads # {}
    /\ q.pc = "find" => q.right \/ (q.way = "ldap" /\ q.service)
    /\ q.pc = "bind" => q.way = "ldap" /\ (q.service => DirectoryRead(q))
    /\ q.pc = "search" => DirectoryRead(q)
    /\ q.pc \in {"enrich", "search", "save", "in"} => q.right
    /\ q.pc \in {"save", "in"} => Between(q, q.source)

\* What has been found of the state of a callback.
SoundState(q, iss) ==
    /\ q.pc \in {"get", "delete", "exchange", "claims"} => q.way = "oauth2"
    /\ q.way = "oauth2" =>
         /\ q.pc \notin {"idle", "metadata", "fetch", "cache", "judge"}
         /\ q.state \in DOMAIN iss
         /\ q.pc # "get" =>
              LET timely == q.asked - iss[q.state].at <= StateTtl
              IN /\ q.held => timely /\ ~q.late
                 /\ ~q.held => ~timely \/ q.late \/ iss[q.state].lost
         /\ q.pc \notin {"get", "delete", "turned"} => q.held
         /\ q.pc = "turned" => ~q.held

\* When a certificate was replaced, among the times at which others were.
Replaced(rotated, cert, time) == cert < Len(rotated) /\ rotated[cert + 1] < time

\* What is known of the certificate a SAML answer is judged by.
SoundCertificate(q, rotated, time) ==
    /\ q.began <= time
    /\ q.pc \in {"metadata", "fetch", "cache"} => q.way \in {"saml2", "redirect"}
    /\ q.pc = "judge" => q.way = "saml2"
    /\ q.pc \in {"fetch", "cache"} => q.began <= q.cert.at /\ q.cert.at <= time
    /\ q.pc = "cache" => /\ q.cert.cert <= Len(rotated)
                         /\ ~Replaced(rotated, q.cert.cert, q.cert.at)
    /\ q.way = "saml2" /\ q.pc \notin {"metadata", "fetch", "cache"} =>
         /\ q.cert.cert <= Len(rotated)
         /\ ~Replaced(rotated, q.cert.cert, q.began - MetadataTtl)

Sound(q, memberships, iss, rotated, time) ==
    /\ q \in LoginRequest
    /\ SoundGroups(q, memberships) /\ SoundState(q, iss) /\ SoundCertificate(q, rotated, time)

SoundNow(q) == Sound(q, outside.groups, issued, outside.rotated, clock)

RequestsInv == \A r \in LoginSlots : SoundNow(login[r])

\* A state that is not in the store was deleted, lost, or its time is over.
StoreInv ==
    /\ DOMAIN states \subseteq DOMAIN issued
    /\ \A s \in DOMAIN issued :
         /\ issued[s].at <= clock
         /\ s \in DOMAIN states => states[s] = issued[s].at /\ ~issued[s].deleted
         /\ s \notin DOMAIN states =>
              issued[s].deleted \/ issued[s].lost \/ clock - issued[s].at > StateTtl

\* The cached certificate was the provider's when the cache says.
CacheInv ==
    /\ metadata.at <= clock
    /\ metadata.cert <= Len(outside.rotated)
    /\ ~Replaced(outside.rotated, metadata.cert, metadata.at)
    /\ \A i \in DOMAIN outside.rotated : outside.rotated[i] <= clock

LoginInv == LoginTypeOK /\ RequestsInv /\ StoreInv /\ CacheInv

\* The types of what a request meets.
Around ==
    /\ idp \in IdpConfig
    /\ DOMAIN states \subseteq States /\ states \in [DOMAIN states -> 0 .. LastTime]
    /\ metadata \in Metadata
    /\ outside \in [groups : [Sources -> SUBSET Groups],
                    spent : SUBSET (States \X (1 .. 2)), rotated : Seq(Nat)]
    /\ DOMAIN issued \subseteq States
    /\ issued \in [DOMAIN issued -> [at : 0 .. LastTime, codes : 0 .. 2,
                                      deleted : BOOLEAN, lost : BOOLEAN]]
    /\ clock \in 0 .. LastTime

TallyOK == tally \in [mode : StateModes, logins : 0 .. MaxLogins, moves : 0 .. MaxMoves]

\* The type invariant, taken apart.
LEMMA TypeParts ==
  LoginTypeOK <=> Around /\ TallyOK /\ login \in [LoginSlots -> LoginRequest]
  BY DEF LoginTypeOK, Around, TallyOK

\* The empty slot is sound whatever is around it.
LEMMA NobodyIsRequest == NobodyThere \in LoginRequest
  BY DEF NobodyThere, LoginRequest, NoMetadata, Metadata, Endpoints, Ways, Sources

LEMMA NobodyIsSound ==
  ASSUME NEW memberships, NEW iss, NEW rotated, NEW time \in Nat
  PROVE  Sound(NobodyThere, memberships, iss, rotated, time)
  BY NobodyIsRequest DEF NobodyThere, Sound, SoundGroups, SoundState, SoundCertificate, AtWork

\* What was found of a request stays true when states are lost or deleted.
LEMMA SoundStays ==
  ASSUME NEW p, NEW memberships, NEW iss, NEW later, NEW rotated, NEW time,
         Sound(p, memberships, iss, rotated, time),
         \A s \in DOMAIN iss : /\ s \in DOMAIN later /\ later[s].at = iss[s].at
                               /\ iss[s].lost => later[s].lost
  PROVE  Sound(p, memberships, later, rotated, time)
  BY DEF Sound, SoundState

\* A step of one request: what it becomes and what it leaves are sound.
LEMMA RequestStep ==
  ASSUME LoginInv, NEW r \in LoginSlots, NEW q,
         Sound(q, outside.groups, issued', outside.rotated, clock),
         login' = [login EXCEPT ![r] = q],
         Around' \/ UNCHANGED <<idp, states, metadata, outside, issued, clock>>, TallyOK',
         StoreInv' \/ UNCHANGED <<states, issued>>,
         CacheInv' \/ UNCHANGED metadata,
         outside'.groups = outside.groups, outside'.rotated = outside.rotated, clock' = clock,
         \A s \in DOMAIN issued : /\ s \in DOMAIN issued' /\ issued'[s].at = issued[s].at
                                  /\ issued[s].lost => issued'[s].lost
  PROVE  LoginInv'
<1>1. LoginTypeOK'
  <2>1. login' \in [LoginSlots -> LoginRequest]
    BY DEF LoginInv, LoginTypeOK, Sound
  <2>2. Around'
    <3>1. Around
      BY TypeParts DEF LoginInv
    <3> QED BY <3>1 DEF Around
  <2> QED BY <2>1, <2>2 DEF LoginTypeOK, Around, TallyOK
<1>2. ASSUME NEW t \in LoginSlots PROVE SoundNow(login[t])'
  <2>1. CASE t = r
    <3>1. login'[t] = q
      BY <2>1 DEF LoginInv, LoginTypeOK
    <3> QED BY <3>1 DEF SoundNow
  <2>2. CASE t # r
    <3>1. login'[t] = login[t]
      BY <2>2 DEF LoginInv, LoginTypeOK
    <3>2. Sound(login[t], outside.groups, issued, outside.rotated, clock)
      BY DEF LoginInv, RequestsInv, SoundNow
    <3>3. Sound(login[t], outside.groups, issued', outside.rotated, clock)
      BY <3>2, SoundStays
    <3> QED BY <3>1, <3>3 DEF SoundNow
  <2> QED BY <2>1, <2>2
<1>3. StoreInv' /\ CacheInv'
  BY DEF LoginInv, StoreInv, CacheInv
<1> QED BY <1>1, <1>2, <1>3 DEF LoginInv, RequestsInv

\* The same when nothing but the request changes ...
LEMMA QuietStep ==
  ASSUME LoginInv, NEW r \in LoginSlots, NEW q, SoundNow(q),
         login' = [login EXCEPT ![r] = q], Unchanged, UNCHANGED tally
  PROVE  LoginInv'
<1>1. TallyOK'
  BY DEF LoginInv, LoginTypeOK, TallyOK
<1> QED BY <1>1, RequestStep DEF Unchanged, SoundNow

\* ... and when the request ends.
LEMMA EndStep ==
  ASSUME LoginInv, NEW r \in LoginSlots, Ends(r), Unchanged, UNCHANGED tally
  PROVE  LoginInv'
<1>1. clock \in Nat
  BY DEF LoginInv, LoginTypeOK
<1>2. SoundNow(NobodyThere)
  BY <1>1, NobodyIsSound DEF SoundNow
<1> QED BY <1>2, QuietStep DEF Ends

\* What is known of the request a step is about.
LEMMA Known ==
  ASSUME LoginInv, NEW r \in LoginSlots
  PROVE  /\ login[r] \in LoginRequest
         /\ SoundGroups(login[r], outside.groups)
         /\ SoundState(login[r], issued)
         /\ SoundCertificate(login[r], outside.rotated, clock)
         /\ outside.groups \in [Sources -> SUBSET Groups]
         /\ outside.rotated \in Seq(Nat)
         /\ clock \in Nat
  BY DEF LoginInv, RequestsInv, SoundNow, Sound, LoginTypeOK

\* The state is looked up.
LEMMA GetStateStep ==
  ASSUME LoginInv, NEW r \in LoginSlots, GetState(r) PROVE LoginInv'
<1> DEFINE s == login[r].state
           p == login[r]
           q == [login[r] EXCEPT !.pc = "delete", !.asked = clock,
                      !.held = s \in DOMAIN states /\ clock - states[s] <= StateTtl,
                      !.late = issued[s].deleted]
<1>1. login' = [login EXCEPT ![r] = q] /\ Unchanged /\ UNCHANGED tally /\ p.pc = "get"
  BY DEF GetState
<1>p. p \in LoginRequest
  BY Known
<1>k. /\ SoundGroups(p, outside.groups)
      /\ SoundState(p, issued)
      /\ SoundCertificate(p, outside.rotated, clock)
  BY Known
<1>s. s \in DOMAIN issued /\ issued[s].deleted \in BOOLEAN /\ clock \in Nat
  BY <1>1, <1>k DEF LoginInv, LoginTypeOK, SoundState
<1>2. q \in LoginRequest
  BY <1>p, <1>s DEF LoginRequest
<1>3. SoundGroups(q, outside.groups)
  BY <1>p, <1>k, <1>1 DEF SoundGroups, AtWork, Between, LoginRequest
<1>4. SoundState(q, issued)
  <2>1. q.pc = "delete" /\ q.way = "oauth2" /\ q.state = s /\ q.asked = clock
    BY <1>1, <1>p, <1>k DEF SoundState, LoginRequest
  <2>h. q.held <=> (s \in DOMAIN states /\ clock - states[s] <= StateTtl)
    BY <1>p DEF LoginRequest
  <2>l. q.late <=> issued[s].deleted
    BY <1>p DEF LoginRequest
  <2>2. /\ s \in DOMAIN states => states[s] = issued[s].at /\ ~issued[s].deleted
        /\ s \notin DOMAIN states =>
              issued[s].deleted \/ issued[s].lost \/ clock - issued[s].at > StateTtl
    BY <1>s DEF LoginInv, StoreInv
  <2>3. StateTtl \in Nat /\ clock \in Nat /\ issued[s].at \in Nat
    BY <1>s DEF LoginInv, LoginTypeOK
  <2> HIDE DEF q, s, p
  <2> QED BY <1>s, <2>1, <2>h, <2>l, <2>2, <2>3 DEF SoundState
<1>5. SoundCertificate(q, outside.rotated, clock)
  BY <1>1, <1>p, <1>k DEF SoundCertificate, SoundState, LoginRequest
<1> HIDE DEF q
<1> QED BY <1>1, <1>2, <1>3, <1>4, <1>5, QuietStep DEF Sound, SoundNow

\* The state is deleted, and the callback goes on, is turned away, or fails.
LEMMA DeleteStateStep ==
  ASSUME LoginInv, NEW r \in LoginSlots, DeleteState(r) PROVE LoginInv'
<1> DEFINE s == login[r].state
           p == login[r]
           q == [login[r] EXCEPT !.pc = IF login[r].held THEN "exchange" ELSE "turned"]
<1>1. p.pc = "delete"
  BY DEF DeleteState
<1>p. p \in LoginRequest /\ clock \in Nat
  BY Known
<1>k. /\ SoundGroups(p, outside.groups)
      /\ SoundState(p, issued)
      /\ SoundCertificate(p, outside.rotated, clock)
  BY Known
<1>s. s \in DOMAIN issued
  BY <1>1, <1>k DEF SoundState
<1>i. /\ issued' = [issued EXCEPT ![s].deleted = TRUE]
      /\ states' = Restrict(states, DOMAIN states \ {s})
  BY DEF DeleteState
<1>t. \A t \in DOMAIN issued :
         /\ t \in DOMAIN issued' /\ issued'[t].at = issued[t].at
         /\ issued[t].lost => issued'[t].lost
  BY <1>i, <1>s DEF LoginInv, LoginTypeOK
<1>d. StoreInv'
  <2>1. DOMAIN states' = DOMAIN states \ {s}
    BY <1>i DEF Restrict
  <2>2. \A t \in DOMAIN states' : states'[t] = states[t]
    BY <1>i DEF Restrict
  <2>3. DOMAIN issued' = DOMAIN issued
    BY <1>i
  <2>4. \A t \in DOMAIN issued : t # s => issued'[t] = issued[t]
    BY <1>i
  <2>5. issued'[s].deleted
    BY <1>i, <1>s DEF LoginInv, LoginTypeOK
  <2>6. clock' = clock
    BY DEF DeleteState
  <2> QED BY <1>t, <1>s, <2>1, <2>2, <2>3, <2>4, <2>5, <2>6 DEF LoginInv, StoreInv
<1>y. Around' /\ TallyOK'
  <2>1. Around /\ TallyOK
    BY TypeParts DEF LoginInv
  <2>2. DOMAIN states' \subseteq States /\ states' \in [DOMAIN states' -> 0 .. LastTime]
    BY <1>i, <2>1 DEF Restrict, Around
  <2>3. DOMAIN issued' \subseteq States
    BY <1>i, <2>1 DEF Around
  <2>4. issued' \in [DOMAIN issued' -> [at : 0 .. LastTime, codes : 0 .. 2,
                                        deleted : BOOLEAN, lost : BOOLEAN]]
    <3> DEFINE d == [issued[s] EXCEPT !.deleted = TRUE]
    <3>1. issued' = [issued EXCEPT ![s] = d]
      BY <1>i
    <3>2. issued[s] \in [at : 0 .. LastTime, codes : 0 .. 2, deleted : BOOLEAN, lost : BOOLEAN]
      BY <1>s, <2>1 DEF Around
    <3>3. d \in [at : 0 .. LastTime, codes : 0 .. 2, deleted : BOOLEAN, lost : BOOLEAN]
      BY <3>2
    <3> HIDE DEF d
    <3> QED BY <2>1, <3>1, <3>3, <1>s DEF Around
  <2> QED BY <2>1, <2>2, <2>3, <2>4 DEF Around, TallyOK, DeleteState
<1>u. /\ UNCHANGED metadata
      /\ outside'.groups = outside.groups /\ outside'.rotated = outside.rotated
      /\ clock' = clock
  BY DEF DeleteState
<1>2. CASE Ends(r)
  <2>1. Sound(NobodyThere, outside.groups, issued', outside.rotated, clock)
    BY <1>p, NobodyIsSound
  <2> QED BY <1>2, <1>d, <1>t, <1>y, <1>u, <2>1, RequestStep DEF Ends
<1>3. CASE Goes(r, IF login[r].held THEN "exchange" ELSE "turned")
  <2>1. q \in LoginRequest
    BY <1>p DEF LoginRequest
  <2>2. SoundGroups(q, outside.groups)
    BY <1>p, <1>k, <1>1 DEF SoundGroups, AtWork, Between, LoginRequest
  <2>3. SoundState(q, issued)
    BY <1>p, <1>k, <1>1 DEF SoundState, LoginRequest
  <2>4. SoundCertificate(q, outside.rotated, clock)
    BY <1>1, <1>p, <1>k DEF SoundCertificate, SoundState, LoginRequest
  <2>5. Sound(q, outside.groups, issued, outside.rotated, clock)
    BY <2>1, <2>2, <2>3, <2>4 DEF Sound
  <2>6. Sound(q, outside.groups, issued', outside.rotated, clock)
    BY <1>t, <2>5, SoundStays
  <2>7. login' = [login EXCEPT ![r] = q]
    BY <1>3 DEF Goes
  <2> HIDE DEF q
  <2> QED BY <1>d, <1>t, <1>y, <1>u, <2>6, <2>7, RequestStep
<1> QED BY <1>2, <1>3 DEF DeleteState

\* The claims are read.
LEMMA ReadClaimsStep ==
  ASSUME LoginInv, NEW r \in LoginSlots, ReadClaims(r) PROVE LoginInv'
<1> DEFINE p == login[r]
           q == [login[r] EXCEPT !.pc = "enrich", !.right = TRUE,
                  !.groups = outside.groups["provider"]]
<1>a. p.pc = "claims" /\ Unchanged /\ UNCHANGED tally
  BY DEF ReadClaims
<1>p. p \in LoginRequest /\ clock \in Nat
  BY Known
<1>g. outside.groups \in [Sources -> SUBSET Groups]
  BY Known
<1>k. /\ SoundGroups(p, outside.groups)
      /\ SoundState(p, issued)
      /\ SoundCertificate(p, outside.rotated, clock)
  BY Known
<1>1. CASE login' = [login EXCEPT ![r] = q]
  <2>1. q \in LoginRequest
    BY <1>p, <1>g DEF LoginRequest, Sources
  <2>2. SoundGroups(q, outside.groups)
    BY <1>p, <1>g, <1>k, <1>a DEF SoundGroups, AtWork, Between, DirectoryRead, LoginRequest, Sources
  <2>3. SoundState(q, issued)
    BY <1>p, <1>k, <1>a DEF SoundState, LoginRequest
  <2>4. SoundCertificate(q, outside.rotated, clock)
    BY <1>p, <1>k, <1>a DEF SoundCertificate, SoundState, LoginRequest
  <2>5. SoundNow(q)
    BY <2>1, <2>2, <2>3, <2>4 DEF Sound, SoundNow
  <2> HIDE DEF q
  <2> QED BY <1>1, <1>a, <2>5, QuietStep
<1>2. CASE Ends(r)
  BY <1>2, <1>a, EndStep
<1> QED BY <1>1, <1>2 DEF ReadClaims, Goes

\* The user is found.
LEMMA FindUserStep ==
  ASSUME LoginInv, NEW r \in LoginSlots, FindUser(r) PROVE LoginInv'
<1> DEFINE p == login[r]
           next == IF login[r].way = "ldap" /\ login[r].service THEN "bind" ELSE "search"
           found == IF "attribute" \in login[r].reads THEN outside.groups["directory"] ELSE {}
           q == [login[r] EXCEPT !.pc = next, !.groups = found]
<1>a. p.pc = "find" /\ Unchanged /\ UNCHANGED tally
  BY DEF FindUser
<1>p. p \in LoginRequest /\ clock \in Nat
  BY Known
<1>g. outside.groups \in [Sources -> SUBSET Groups]
  BY Known
<1>k. /\ SoundGroups(p, outside.groups)
      /\ SoundState(p, issued)
      /\ SoundCertificate(p, outside.rotated, clock)
  BY Known
<1>n. /\ next = IF login[r].way = "ldap" /\ login[r].service THEN "bind" ELSE "search"
      /\ found = IF "attribute" \in login[r].reads THEN outside.groups["directory"] ELSE {}
  OBVIOUS
<1>e. login' = [login EXCEPT ![r] = q] \/ Ends(r)
  BY DEF FindUser
<1>t. next \in {"bind", "search"} /\ found \in SUBSET Groups
  BY <1>g DEF Sources
<1> HIDE DEF next, found
<1>1. CASE login' = [login EXCEPT ![r] = q]
  <2>1. q \in LoginRequest
    BY <1>p, <1>t DEF LoginRequest
  <2>2. SoundGroups(q, outside.groups)
    BY <1>p, <1>g, <1>k, <1>a, <1>n DEF SoundGroups, AtWork, Between, DirectoryRead, LoginRequest, Sources
  <2>3. SoundState(q, issued)
    BY <1>p, <1>k, <1>a, <1>n DEF SoundState, LoginRequest
  <2>4. SoundCertificate(q, outside.rotated, clock)
    BY <1>p, <1>k, <1>a, <1>n DEF SoundCertificate, SoundState, LoginRequest
  <2>5. SoundNow(q)
    BY <2>1, <2>2, <2>3, <2>4 DEF Sound, SoundNow
  <2> HIDE DEF q
  <2> QED BY <1>1, <1>a, <2>5, QuietStep
<1>2. CASE Ends(r)
  BY <1>2, <1>a, EndStep
<1> QED BY <1>1, <1>2, <1>e

\* The user binds.
LEMMA BindUserStep ==
  ASSUME LoginInv, NEW r \in LoginSlots, BindUser(r) PROVE LoginInv'
<1> DEFINE p == login[r]
           q == [login[r] EXCEPT !.pc = IF login[r].service THEN "search" ELSE "find"]
<1>a. p.pc = "bind" /\ Unchanged /\ UNCHANGED tally
  BY DEF BindUser
<1>p. p \in LoginRequest /\ clock \in Nat
  BY Known
<1>g. outside.groups \in [Sources -> SUBSET Groups]
  BY Known
<1>k. /\ SoundGroups(p, outside.groups)
      /\ SoundState(p, issued)
      /\ SoundCertificate(p, outside.rotated, clock)
  BY Known
<1>1. CASE p.right /\ login' = [login EXCEPT ![r] = q]
  <2>1. q \in LoginRequest
    BY <1>p, <1>g DEF LoginRequest, Sources
  <2>2. SoundGroups(q, outside.groups)
    BY <1>p, <1>g, <1>k, <1>a, <1>1 DEF SoundGroups, AtWork, Between, DirectoryRead, LoginRequest, Sources
  <2>3. SoundState(q, issued)
    BY <1>p, <1>k, <1>a DEF SoundState, LoginRequest
  <2>4. SoundCertificate(q, outside.rotated, clock)
    BY <1>p, <1>k, <1>a DEF SoundCertificate, SoundState, LoginRequest
  <2>5. SoundNow(q)
    BY <2>1, <2>2, <2>3, <2>4 DEF Sound, SoundNow
  <2> HIDE DEF q
  <2> QED BY <1>1, <1>a, <2>5, QuietStep
<1>2. CASE Ends(r)
  BY <1>2, <1>a, EndStep
<1> QED BY <1>1, <1>2 DEF BindUser, Goes

\* The groups are read.
LEMMA ReadGroupsStep ==
  ASSUME LoginInv, NEW r \in LoginSlots, ReadGroups(r) PROVE LoginInv'
<1> DEFINE p == login[r]
           q == [login[r] EXCEPT !.pc = "save",
                  !.groups = @ \union (IF "search" \in login[r].reads
                                       THEN outside.groups["directory"] ELSE {})]
<1>a. p.pc = "search" /\ Unchanged /\ UNCHANGED tally
  BY DEF ReadGroups
<1>p. p \in LoginRequest /\ clock \in Nat
  BY Known
<1>g. outside.groups \in [Sources -> SUBSET Groups]
  BY Known
<1>k. /\ SoundGroups(p, outside.groups)
      /\ SoundState(p, issued)
      /\ SoundCertificate(p, outside.rotated, clock)
  BY Known
<1>1. CASE login' = [login EXCEPT ![r] = q]
  <2>1. q \in LoginRequest
    BY <1>p, <1>g DEF LoginRequest, Sources
  <2>2. SoundGroups(q, outside.groups)
    BY <1>p, <1>g, <1>k, <1>a DEF SoundGroups, AtWork, Between, DirectoryRead, LoginRequest, Sources
  <2>3. SoundState(q, issued)
    BY <1>p, <1>k, <1>a DEF SoundState, LoginRequest
  <2>4. SoundCertificate(q, outside.rotated, clock)
    BY <1>p, <1>k, <1>a DEF SoundCertificate, SoundState, LoginRequest
  <2>5. SoundNow(q)
    BY <2>1, <2>2, <2>3, <2>4 DEF Sound, SoundNow
  <2> HIDE DEF q
  <2> QED BY <1>1, <1>a, <2>5, QuietStep
<1>2. CASE Ends(r)
  BY <1>2, <1>a, EndStep
<1> QED BY <1>1, <1>2 DEF ReadGroups, Goes

\* The session is saved.
LEMMA SaveLoginStep ==
  ASSUME LoginInv, NEW r \in LoginSlots, SaveLogin(r) PROVE LoginInv'
<1> DEFINE p == login[r]
           q == [login[r] EXCEPT !.pc = "in"]
<1>a. p.pc = "save" /\ Unchanged /\ UNCHANGED tally
  BY DEF SaveLogin
<1>p. p \in LoginRequest /\ clock \in Nat
  BY Known
<1>g. outside.groups \in [Sources -> SUBSET Groups]
  BY Known
<1>k. /\ SoundGroups(p, outside.groups)
      /\ SoundState(p, issued)
      /\ SoundCertificate(p, outside.rotated, clock)
  BY Known
<1>1. CASE login' = [login EXCEPT ![r] = q]
  <2>1. q \in LoginRequest
    BY <1>p, <1>g DEF LoginRequest, Sources
  <2>2. SoundGroups(q, outside.groups)
    BY <1>p, <1>g, <1>k, <1>a DEF SoundGroups, AtWork, Between, DirectoryRead, LoginRequest, Sources
  <2>3. SoundState(q, issued)
    BY <1>p, <1>k, <1>a DEF SoundState, LoginRequest
  <2>4. SoundCertificate(q, outside.rotated, clock)
    BY <1>p, <1>k, <1>a DEF SoundCertificate, SoundState, LoginRequest
  <2>5. SoundNow(q)
    BY <2>1, <2>2, <2>3, <2>4 DEF Sound, SoundNow
  <2> HIDE DEF q
  <2> QED BY <1>1, <1>a, <2>5, QuietStep
<1>2. CASE Ends(r)
  BY <1>2, <1>a, EndStep
<1> QED BY <1>1, <1>2 DEF SaveLogin, Goes

\* A certificate that was current at a time was not replaced before it.
LEMMA StillCurrent ==
  ASSUME NEW rotated \in Seq(Nat), NEW cert \in Nat, NEW at \in Int, NEW time \in Int,
         ~Replaced(rotated, cert, at), time <= at
  PROVE  ~Replaced(rotated, cert, time)
<1>1. cert < Len(rotated) => rotated[cert + 1] \in Nat
  OBVIOUS
<1> QED BY <1>1 DEF Replaced

\* The directory is asked, or not.
LEMMA EnrichStep ==
  ASSUME LoginInv, NEW r \in LoginSlots, Enrich(r) PROVE LoginInv'
<1> DEFINE p == login[r]
<1>a. p.pc = "enrich" /\ Unchanged /\ UNCHANGED tally
  BY DEF Enrich
<1>p. p \in LoginRequest /\ clock \in Nat
  BY Known
<1>g. outside.groups \in [Sources -> SUBSET Groups]
  BY Known
<1>k. /\ SoundGroups(p, outside.groups)
      /\ SoundState(p, issued)
      /\ SoundCertificate(p, outside.rotated, clock)
  BY Known
<1>i. idp.reads \in (SUBSET {"attribute", "search"}) \ {{}}
  BY DEF LoginInv, LoginTypeOK, IdpConfig
<1>1. CASE login' = [login EXCEPT ![r] = [login[r] EXCEPT !.pc = "find", !.source = "directory",
                         !.service = TRUE, !.reads = idp.reads]]
  <2> DEFINE q == [login[r] EXCEPT !.pc = "find", !.source = "directory",
                         !.service = TRUE, !.reads = idp.reads]
  <2>1. q \in LoginRequest
    BY <1>p, <1>g, <1>i DEF LoginRequest, Sources
  <2>2. SoundGroups(q, outside.groups)
    BY <1>p, <1>g, <1>k, <1>a, <1>1, <1>i DEF SoundGroups, AtWork, Between, DirectoryRead, LoginRequest, Sources
  <2>3. SoundState(q, issued)
    BY <1>p, <1>k, <1>a, <1>1 DEF SoundState, LoginRequest
  <2>4. SoundCertificate(q, outside.rotated, clock)
    BY <1>p, <1>k, <1>a, <1>1 DEF SoundCertificate, SoundState, LoginRequest
  <2>5. SoundNow(q)
    BY <2>1, <2>2, <2>3, <2>4 DEF Sound, SoundNow
  <2>6. login' = [login EXCEPT ![r] = q]
    BY <1>1
  <2> HIDE DEF q
  <2> QED BY <1>a, <2>5, <2>6, QuietStep
<1>2. CASE login' = [login EXCEPT ![r] = [login[r] EXCEPT !.pc = "save"]]
  <2> DEFINE q == [login[r] EXCEPT !.pc = "save"]
  <2>1. q \in LoginRequest
    BY <1>p, <1>g DEF LoginRequest, Sources
  <2>2. SoundGroups(q, outside.groups)
    BY <1>p, <1>g, <1>k, <1>a, <1>2 DEF SoundGroups, AtWork, Between, DirectoryRead, LoginRequest, Sources
  <2>3. SoundState(q, issued)
    BY <1>p, <1>k, <1>a, <1>2 DEF SoundState, LoginRequest
  <2>4. SoundCertificate(q, outside.rotated, clock)
    BY <1>p, <1>k, <1>a, <1>2 DEF SoundCertificate, SoundState, LoginRequest
  <2>5. SoundNow(q)
    BY <2>1, <2>2, <2>3, <2>4 DEF Sound, SoundNow
  <2>6. login' = [login EXCEPT ![r] = q]
    BY <1>2
  <2> HIDE DEF q
  <2> QED BY <1>a, <2>5, <2>6, QuietStep
<1>3. CASE Ends(r)
  BY <1>3, <1>a, EndStep
<1> QED BY <1>1, <1>2, <1>3, <1>a DEF Enrich, Goes

\* The metadata are taken from the cache, or asked for.
LEMMA ReadMetadataStep ==
  ASSUME LoginInv, NEW r \in LoginSlots, ReadMetadata(r) PROVE LoginInv'
<1> DEFINE p == login[r]
<1>a. p.pc = "metadata" /\ Unchanged /\ UNCHANGED tally
  BY DEF ReadMetadata
<1>p. p \in LoginRequest /\ clock \in Nat
  BY Known
<1>g. outside.groups \in [Sources -> SUBSET Groups]
  BY Known
<1>k. /\ SoundGroups(p, outside.groups)
      /\ SoundState(p, issued)
      /\ SoundCertificate(p, outside.rotated, clock)
  BY Known
<1>m. /\ metadata \in Metadata /\ metadata.cert \in Nat /\ metadata.at \in Nat
      /\ idp.url \in Endpoints
      /\ MetadataTtl \in Nat
  BY DEF LoginInv, LoginTypeOK, IdpConfig, Metadata
<1> DEFINE c == [url |-> idp.url, cert |-> 0, at |-> clock]
<1>c. c \in Metadata /\ c.at = clock
  BY <1>m, <1>p DEF Metadata
<1>e. \/ SamlSettled(r, metadata) /\ clock - metadata.at < MetadataTtl
      \/ login' = [login EXCEPT ![r].pc = "fetch", ![r].cert = c]
  BY DEF ReadMetadata
<1> HIDE DEF c
<1>w. /\ metadata.at <= clock
      /\ metadata.cert <= Len(outside.rotated)
      /\ ~Replaced(outside.rotated, metadata.cert, metadata.at)
      /\ outside.rotated \in Seq(Nat)
  BY Known DEF LoginInv, CacheInv
<1>1. CASE p.way # "redirect" /\ clock - metadata.at < MetadataTtl
               /\ login' = [login EXCEPT ![r] = [login[r] EXCEPT !.pc = "judge", !.cert = metadata, !.asked = clock]]
  <2> DEFINE q == [login[r] EXCEPT !.pc = "judge", !.cert = metadata, !.asked = clock]
  <2>1. q \in LoginRequest
    BY <1>p, <1>g, <1>m DEF LoginRequest, Sources
  <2>2. SoundGroups(q, outside.groups)
    BY <1>p, <1>g, <1>k, <1>a, <1>1 DEF SoundGroups, AtWork, Between, DirectoryRead, LoginRequest, Sources
  <2>3. SoundState(q, issued)
    BY <1>p, <1>k, <1>a, <1>1 DEF SoundState, LoginRequest
  <2>4. SoundCertificate(q, outside.rotated, clock)
    <3>1. q.pc = "judge" /\ q.way = "saml2" /\ q.cert = metadata /\ q.began = p.began
      BY <1>p, <1>k, <1>a, <1>1 DEF SoundCertificate, LoginRequest, Ways
    <3>2. p.began \in Nat /\ p.began <= clock
      BY <1>p, <1>k DEF SoundCertificate, LoginRequest
    <3>4. clock - metadata.at < MetadataTtl
      BY <1>1
    <3>5. p.began - MetadataTtl <= metadata.at
      BY <3>2, <3>4, <1>m, <1>p
    <3>3. ~Replaced(outside.rotated, metadata.cert, p.began - MetadataTtl)
      BY <3>2, <3>5, <1>m, <1>w, StillCurrent
    <3> HIDE DEF q
    <3> QED BY <3>1, <3>2, <3>3, <1>w DEF SoundCertificate
  <2>5. SoundNow(q)
    BY <2>1, <2>2, <2>3, <2>4 DEF Sound, SoundNow
  <2>6. login' = [login EXCEPT ![r] = q]
    BY <1>1
  <2> HIDE DEF q
  <2> QED BY <1>a, <2>5, <2>6, QuietStep
<1>2. CASE login' = [login EXCEPT ![r] = [login[r] EXCEPT !.pc = "fetch", !.cert = c]]
  <2> DEFINE q == [login[r] EXCEPT !.pc = "fetch", !.cert = c]
  <2>1. q \in LoginRequest
    BY <1>p, <1>g, <1>c DEF LoginRequest, Sources
  <2>2. SoundGroups(q, outside.groups)
    BY <1>p, <1>g, <1>k, <1>a, <1>2 DEF SoundGroups, AtWork, Between, DirectoryRead, LoginRequest, Sources
  <2>3. SoundState(q, issued)
    BY <1>p, <1>k, <1>a, <1>2 DEF SoundState, LoginRequest
  <2>4. SoundCertificate(q, outside.rotated, clock)
    BY <1>p, <1>k, <1>a, <1>2, <1>m, <1>c DEF SoundCertificate, SoundState, LoginRequest, Metadata
  <2>5. SoundNow(q)
    BY <2>1, <2>2, <2>3, <2>4 DEF Sound, SoundNow
  <2>6. login' = [login EXCEPT ![r] = q]
    BY <1>2
  <2> HIDE DEF q
  <2> QED BY <1>a, <2>5, <2>6, QuietStep
<1>3. CASE Ends(r)
  BY <1>3, <1>a, EndStep
<1> QED BY <1>1, <1>2, <1>3, <1>a, <1>e DEF SamlSettled

\* The provider answers with its certificate of now.
LEMMA FetchMetadataStep ==
  ASSUME LoginInv, NEW r \in LoginSlots, FetchMetadata(r) PROVE LoginInv'
<1> DEFINE p == login[r]
<1>a. p.pc = "fetch" /\ Unchanged /\ UNCHANGED tally
  BY DEF FetchMetadata
<1>p. p \in LoginRequest /\ clock \in Nat
  BY Known
<1>g. outside.groups \in [Sources -> SUBSET Groups]
  BY Known
<1>k. /\ SoundGroups(p, outside.groups)
      /\ SoundState(p, issued)
      /\ SoundCertificate(p, outside.rotated, clock)
  BY Known
<1>m. outside.rotated \in Seq(Nat) /\ Certificate \in Nat
  BY Known DEF Certificate
<1> DEFINE c == [login[r].cert EXCEPT !.cert = Certificate]
<1>c. c \in Metadata /\ c.at = p.cert.at /\ c.cert = Len(outside.rotated)
  <2>1. p.cert \in Metadata
    BY <1>p DEF LoginRequest
  <2> QED BY <2>1, <1>m DEF Metadata, Certificate
<1>e. login' = [login EXCEPT ![r].pc = "cache", ![r].cert = c] \/ Ends(r)
  BY DEF FetchMetadata
<1> HIDE DEF c
<1>1. CASE login' = [login EXCEPT ![r] = [login[r] EXCEPT !.pc = "cache", !.cert = c]]
  <2> DEFINE q == [login[r] EXCEPT !.pc = "cache", !.cert = c]
  <2>1. q \in LoginRequest
    BY <1>p, <1>g, <1>c DEF LoginRequest, Sources
  <2>2. SoundGroups(q, outside.groups)
    BY <1>p, <1>g, <1>k, <1>a, <1>1 DEF SoundGroups, AtWork, Between, DirectoryRead, LoginRequest, Sources
  <2>3. SoundState(q, issued)
    BY <1>p, <1>k, <1>a, <1>1 DEF SoundState, LoginRequest
  <2>4. SoundCertificate(q, outside.rotated, clock)
    BY <1>p, <1>k, <1>a, <1>1, <1>m, <1>c DEF SoundCertificate, SoundState, LoginRequest, Replaced
  <2>5. SoundNow(q)
    BY <2>1, <2>2, <2>3, <2>4 DEF Sound, SoundNow
  <2>6. login' = [login EXCEPT ![r] = q]
    BY <1>1
  <2> HIDE DEF q
  <2> QED BY <1>a, <2>5, <2>6, QuietStep
<1>2. CASE Ends(r)
  BY <1>2, <1>a, EndStep
<1> QED BY <1>1, <1>2, <1>a, <1>e

\* The answer is judged.
LEMMA JudgeAnswerStep ==
  ASSUME LoginInv, NEW r \in LoginSlots, JudgeAnswer(r) PROVE LoginInv'
<1> DEFINE p == login[r]
<1>a. p.pc = "judge" /\ Unchanged /\ UNCHANGED tally
  BY DEF JudgeAnswer
<1>p. p \in LoginRequest /\ clock \in Nat
  BY Known
<1>g. outside.groups \in [Sources -> SUBSET Groups]
  BY Known
<1>k. /\ SoundGroups(p, outside.groups)
      /\ SoundState(p, issued)
      /\ SoundCertificate(p, outside.rotated, clock)
  BY Known
<1>1. CASE login' = [login EXCEPT ![r] = [login[r] EXCEPT !.pc = "enrich", !.right = TRUE]]
  <2> DEFINE q == [login[r] EXCEPT !.pc = "enrich", !.right = TRUE]
  <2>1. q \in LoginRequest
    BY <1>p, <1>g DEF LoginRequest, Sources
  <2>2. SoundGroups(q, outside.groups)
    BY <1>p, <1>g, <1>k, <1>a, <1>1 DEF SoundGroups, AtWork, Between, DirectoryRead, LoginRequest, Sources
  <2>3. SoundState(q, issued)
    BY <1>p, <1>k, <1>a, <1>1 DEF SoundState, LoginRequest
  <2>4. SoundCertificate(q, outside.rotated, clock)
    BY <1>p, <1>k, <1>a, <1>1 DEF SoundCertificate, SoundState, LoginRequest
  <2>5. SoundNow(q)
    BY <2>1, <2>2, <2>3, <2>4 DEF Sound, SoundNow
  <2>6. login' = [login EXCEPT ![r] = q]
    BY <1>1
  <2> HIDE DEF q
  <2> QED BY <1>a, <2>5, <2>6, QuietStep
<1>2. CASE login' = [login EXCEPT ![r] = [login[r] EXCEPT !.pc = "turned"]]
  <2> DEFINE q == [login[r] EXCEPT !.pc = "turned"]
  <2>1. q \in LoginRequest
    BY <1>p, <1>g DEF LoginRequest, Sources
  <2>2. SoundGroups(q, outside.groups)
    BY <1>p, <1>g, <1>k, <1>a, <1>2 DEF SoundGroups, AtWork, Between, DirectoryRead, LoginRequest, Sources
  <2>3. SoundState(q, issued)
    BY <1>p, <1>k, <1>a, <1>2 DEF SoundState, LoginRequest
  <2>4. SoundCertificate(q, outside.rotated, clock)
    BY <1>p, <1>k, <1>a, <1>2 DEF SoundCertificate, SoundState, LoginRequest
  <2>5. SoundNow(q)
    BY <2>1, <2>2, <2>3, <2>4 DEF Sound, SoundNow
  <2>6. login' = [login EXCEPT ![r] = q]
    BY <1>2
  <2> HIDE DEF q
  <2> QED BY <1>a, <2>5, <2>6, QuietStep
<1>3. CASE Ends(r)
  BY <1>3, <1>a, EndStep
<1> QED BY <1>1, <1>2, <1>3, <1>a DEF JudgeAnswer, Goes

\* The metadata are cached, and the answer is judged by them.
LEMMA CacheMetadataStep ==
  ASSUME LoginInv, NEW r \in LoginSlots, CacheMetadata(r) PROVE LoginInv'
<1> DEFINE p == login[r]
           q == [login[r] EXCEPT !.pc = "judge", !.cert = login[r].cert, !.asked = clock]
<1>a. /\ p.pc = "cache" /\ metadata' = p.cert
      /\ UNCHANGED <<idp, states, outside, issued, clock, tally>>
  BY DEF CacheMetadata
<1>p. p \in LoginRequest /\ clock \in Nat
  BY Known
<1>k. /\ SoundGroups(p, outside.groups)
      /\ SoundState(p, issued)
      /\ SoundCertificate(p, outside.rotated, clock)
  BY Known
<1>r. outside.rotated \in Seq(Nat) /\ MetadataTtl \in Nat
  BY Known
<1>c. p.cert \in Metadata /\ p.cert.cert \in Nat /\ p.cert.at \in Nat /\ p.began \in Nat
  BY <1>p DEF LoginRequest, Metadata
<1>f. /\ p.began <= p.cert.at /\ p.cert.at <= clock
      /\ p.cert.cert <= Len(outside.rotated)
      /\ ~Replaced(outside.rotated, p.cert.cert, p.cert.at)
      /\ p.way \in {"saml2", "redirect"}
  BY <1>k, <1>a DEF SoundCertificate
<1>i. CacheInv'
  BY <1>a, <1>f DEF LoginInv, CacheInv
<1>y. Around' /\ TallyOK'
  <2>1. Around /\ TallyOK
    BY TypeParts DEF LoginInv
  <2> QED BY <2>1, <1>a, <1>c DEF Around, TallyOK
<1>1. CASE Ends(r)
  <2>1. Sound(NobodyThere, outside.groups, issued', outside.rotated, clock)
    BY <1>p, NobodyIsSound
  <2> QED BY <1>1, <1>a, <1>i, <1>y, <2>1, RequestStep DEF Ends
<1>2. CASE p.way # "redirect" /\ login' = [login EXCEPT ![r] = q]
  <2>1. q \in LoginRequest
    BY <1>p, <1>c DEF LoginRequest
  <2>2. SoundGroups(q, outside.groups)
    BY <1>p, <1>k, <1>a DEF SoundGroups, AtWork, Between, LoginRequest
  <2>3. SoundState(q, issued)
    BY <1>p, <1>k, <1>a DEF SoundState, LoginRequest
  <2>4. SoundCertificate(q, outside.rotated, clock)
    <3>1. q.pc = "judge" /\ q.way = "saml2" /\ q.cert = p.cert /\ q.began = p.began
      BY <1>p, <1>f, <1>2 DEF LoginRequest
    <3>2. ~Replaced(outside.rotated, p.cert.cert, p.began - MetadataTtl)
      BY <1>r, <1>c, <1>f, StillCurrent
    <3> HIDE DEF q
    <3> QED BY <3>1, <3>2, <1>c, <1>f, <1>p DEF SoundCertificate
  <2>5. Sound(q, outside.groups, issued', outside.rotated, clock)
    BY <2>1, <2>2, <2>3, <2>4, <1>a DEF Sound
  <2>6. login' = [login EXCEPT ![r] = q]
    BY <1>2
  <2> HIDE DEF q
  <2> QED BY <1>a, <1>i, <1>y, <2>5, <2>6, RequestStep
<1> QED BY <1>1, <1>2 DEF CacheMetadata, SamlSettled

\* A code is exchanged: the provider has taken it, heard of or not.
LEMMA ExchangeCodeStep ==
  ASSUME LoginInv, NEW r \in LoginSlots, ExchangeCode(r) PROVE LoginInv'
<1> DEFINE p == login[r]
           q == [login[r] EXCEPT !.pc = "claims"]
<1>a. p.pc = "exchange" /\ UNCHANGED <<idp, states, metadata, issued, clock, tally>>
  BY DEF ExchangeCode
<1>p. p \in LoginRequest /\ clock \in Nat
  BY Known
<1>k. /\ SoundGroups(p, outside.groups)
      /\ SoundState(p, issued)
      /\ SoundCertificate(p, outside.rotated, clock)
  BY Known
<1>1. CASE Ends(r) /\ UNCHANGED outside
  BY <1>1, <1>a, EndStep DEF Unchanged
<1>2. CASE /\ outside' = [outside EXCEPT !.spent = @ \union {<<login[r].state, login[r].code>>}]
           /\ login' = [login EXCEPT ![r] = q] \/ Ends(r)
  <2>1. Around /\ TallyOK
    BY TypeParts DEF LoginInv
  <2>2. p.state \in States /\ p.code \in 1 .. 2
    BY <1>p, <1>k, <1>a, <2>1 DEF SoundState, LoginRequest, Around
  <2> DEFINE spent == outside.spent \union {<<p.state, p.code>>}
  <2>o. outside' = [outside EXCEPT !.spent = spent]
    BY <1>2
  <2>s. spent \in SUBSET (States \X (1 .. 2))
    BY <2>1, <2>2 DEF Around
  <2> HIDE DEF spent
  <2>3. outside' \in [groups : [Sources -> SUBSET Groups],
                      spent : SUBSET (States \X (1 .. 2)), rotated : Seq(Nat)]
    BY <2>1, <2>o, <2>s DEF Around
  <2>4. outside'.groups = outside.groups /\ outside'.rotated = outside.rotated
    BY <2>1, <2>o DEF Around
  <2>5. Around' /\ TallyOK'
    BY <2>1, <2>3, <1>a DEF Around, TallyOK
  <2>6. CASE Ends(r)
    <3>1. Sound(NobodyThere, outside.groups, issued', outside.rotated, clock)
      BY <1>p, NobodyIsSound
    <3> QED BY <2>4, <2>5, <2>6, <1>a, <3>1, RequestStep DEF Ends
  <2>7. CASE login' = [login EXCEPT ![r] = q]
    <3>1. q \in LoginRequest
      BY <1>p DEF LoginRequest
    <3>2. SoundGroups(q, outside.groups)
      BY <1>p, <1>k, <1>a DEF SoundGroups, AtWork, Between, LoginRequest
    <3>3. SoundState(q, issued)
      BY <1>p, <1>k, <1>a DEF SoundState, LoginRequest
    <3>4. SoundCertificate(q, outside.rotated, clock)
      BY <1>p, <1>k, <1>a DEF SoundCertificate, SoundState, LoginRequest
    <3>5. Sound(q, outside.groups, issued', outside.rotated, clock)
      BY <3>1, <3>2, <3>3, <3>4, <1>a DEF Sound
    <3> HIDE DEF q
    <3> QED BY <2>4, <2>5, <2>7, <1>a, <3>5, RequestStep
  <2> QED BY <1>2, <2>6, <2>7
<1> QED BY <1>1, <1>2 DEF ExchangeCode, Goes

\* A login counts, and a bound stops it.
LEMMA BeginTally ==
  ASSUME TallyOK, NEW r, NEW q, Begin(r, q) PROVE TallyOK'
<1>1. tally \in [mode : StateModes, logins : 0 .. MaxLogins, moves : 0 .. MaxMoves]
  BY DEF TallyOK
<1>2. MaxLogins \in Nat /\ tally.logins < MaxLogins /\ tally' = [tally EXCEPT !.logins = @ + 1]
  BY DEF Begin
<1> QED BY <1>1, <1>2 DEF TallyOK

\* A request of the provider's answer begins, or one with a password.
LEMMA BeginStep ==
  ASSUME LoginInv, NEW r \in LoginSlots, NEW q,
         Begin(r, q), SoundNow(q), Unchanged
  PROVE  LoginInv'
<1>1. TallyOK
  BY TypeParts DEF LoginInv
<1>2. TallyOK'
  BY <1>1, BeginTally
<1> QED BY <1>2, RequestStep DEF Unchanged, SoundNow, Begin

\* What an arriving request finds of the groups.
LEMMA ArrivedKnown ==
  ASSUME LoginInv
  PROVE  /\ Arrived \in LoginRequest
         /\ Arrived.way = "ldap" /\ Arrived.began = 0 /\ Arrived.right = FALSE
         /\ Arrived.source = "provider" /\ Arrived.cert = NoMetadata
         /\ Arrived.ever = outside.groups /\ Arrived.always = outside.groups
         /\ Arrived.held = FALSE
         /\ outside.groups \in [Sources -> SUBSET Groups]
         /\ clock \in Nat
<1>1. outside.groups \in [Sources -> SUBSET Groups] /\ clock \in Nat
  BY Known DEF LoginInv, LoginTypeOK
<1>2. Arrived \in LoginRequest
  BY <1>1, NobodyIsRequest DEF Arrived, LoginRequest
<1> QED BY <1>1, <1>2 DEF Arrived, NobodyThere

\* A SAML login begins.
LEMMA SamlRequestStep ==
  ASSUME LoginInv, NEW r \in LoginSlots, NEW way \in {"saml2", "redirect"}, SamlRequest(r, way)
  PROVE  LoginInv'
<1> DEFINE q == [Arrived EXCEPT !.pc = "metadata", !.way = way, !.began = clock,
                   !.groups = outside.groups["provider"],
                   !.signed = [url |-> idp.url, cert |-> Certificate]]
<1>1. [url |-> idp.url, cert |-> Certificate] \in [url : Endpoints, cert : Nat]
  BY DEF LoginInv, LoginTypeOK, IdpConfig, Certificate
<1>2. q \in LoginRequest
  BY <1>1, ArrivedKnown DEF LoginRequest, Ways, Sources
<1>3. /\ q.pc = "metadata" /\ q.way = way /\ q.began = clock
      /\ q.groups = outside.groups["provider"] /\ q.source = "provider"
      /\ q.ever = outside.groups /\ q.always = outside.groups
  BY ArrivedKnown DEF LoginRequest
<1>4. Begin(r, q) /\ Unchanged
  BY DEF SamlRequest
<1> HIDE DEF q
<1>5. SoundNow(q)
  BY <1>2, <1>3, ArrivedKnown
     DEF SoundNow, Sound, SoundGroups, SoundState, SoundCertificate, AtWork, Between, Sources
<1> QED BY <1>4, <1>5, BeginStep

\* A login with a password begins.
LEMMA LdapLoginStep ==
  ASSUME LoginInv, NEW r \in LoginSlots, NEW right \in BOOLEAN, LdapLogin(r, right)
  PROVE  LoginInv'
<1> DEFINE next == IF idp.service THEN "find" ELSE "bind"
           q == [Arrived EXCEPT !.pc = next, !.way = "ldap", !.right = right,
                   !.source = "directory", !.service = idp.service, !.reads = idp.reads]
<1>n. next \in {"find", "bind"} /\ (next = "find" <=> idp.service)
  OBVIOUS
<1>1. idp.service \in BOOLEAN /\ idp.reads \in (SUBSET {"attribute", "search"}) \ {{}}
  BY DEF LoginInv, LoginTypeOK, IdpConfig
<1>2. q \in LoginRequest
  BY <1>1, ArrivedKnown DEF LoginRequest, Ways, Sources
<1>4. Begin(r, q) /\ Unchanged
  BY DEF LdapLogin
<1> HIDE DEF next
<1>3. /\ q.pc = next /\ q.way = "ldap" /\ q.began = 0 /\ q.cert = NoMetadata
      /\ q.source = "directory" /\ q.reads = idp.reads
      /\ q.ever = outside.groups /\ q.always = outside.groups
  BY ArrivedKnown DEF LoginRequest
<1>s. q.service <=> idp.service
  BY ArrivedKnown DEF LoginRequest
<1> HIDE DEF q
<1>5. SoundNow(q)
  BY <1>2, <1>3, <1>1, <1>n, <1>s, ArrivedKnown
     DEF SoundNow, Sound, SoundGroups, SoundState, SoundCertificate, AtWork, Between, Sources
<1> QED BY <1>4, <1>5, BeginStep

\* A callback: the provider may have given a second code.
LEMMA OauthCallbackStep ==
  ASSUME LoginInv, NEW r \in LoginSlots, NEW s \in States, NEW code \in 1 .. 2,
         OauthCallback(r, s, code)
  PROVE  LoginInv'
<1> DEFINE q == [Arrived EXCEPT !.pc = "get", !.way = "oauth2", !.state = s, !.code = code]
           more == IF code > issued[s].codes THEN code ELSE issued[s].codes
           d == [issued[s] EXCEPT !.codes = more]
<1>1. /\ s \in DOMAIN issued /\ Begin(r, q) /\ issued' = [issued EXCEPT ![s] = d]
      /\ UNCHANGED <<idp, states, metadata, outside, clock>>
  BY DEF OauthCallback
<1>2. Around /\ TallyOK
  BY TypeParts DEF LoginInv
<1>3. issued[s] \in [at : 0 .. LastTime, codes : 0 .. 2, deleted : BOOLEAN, lost : BOOLEAN]
  BY <1>1, <1>2 DEF Around
<1>4. more \in 0 .. 2
  BY <1>3
<1> HIDE DEF more
<1>5. d \in [at : 0 .. LastTime, codes : 0 .. 2, deleted : BOOLEAN, lost : BOOLEAN]
  BY <1>3, <1>4
<1>6. d.at = issued[s].at /\ d.deleted = issued[s].deleted /\ d.lost = issued[s].lost
  BY <1>3
<1> HIDE DEF d
<1>7. \A t \in DOMAIN issued : /\ t \in DOMAIN issued' /\ issued'[t].at = issued[t].at
                               /\ issued'[t].deleted = issued[t].deleted
                               /\ issued'[t].lost = issued[t].lost
  BY <1>1, <1>6
<1>8. Around' /\ TallyOK'
  <2>1. DOMAIN issued' = DOMAIN issued
    BY <1>1
  <2>2. issued' \in [DOMAIN issued' -> [at : 0 .. LastTime, codes : 0 .. 2,
                                        deleted : BOOLEAN, lost : BOOLEAN]]
    BY <1>1, <1>2, <1>5 DEF Around
  <2>3. TallyOK'
    BY <1>1, <1>2, BeginTally
  <2> QED BY <1>1, <1>2, <2>1, <2>2, <2>3 DEF Around
<1>9. StoreInv'
  <2>1. DOMAIN issued' = DOMAIN issued
    BY <1>1
  <2> QED BY <1>1, <1>7, <2>1 DEF LoginInv, StoreInv
<1>10. q \in LoginRequest
  BY ArrivedKnown DEF LoginRequest, Ways
<1>11. /\ q.pc = "get" /\ q.way = "oauth2" /\ q.state = s /\ q.source = "provider"
       /\ q.ever = outside.groups /\ q.always = outside.groups /\ q.began = 0
  BY ArrivedKnown DEF LoginRequest
<1> HIDE DEF q
<1>12. Sound(q, outside.groups, issued, outside.rotated, clock)
  BY <1>1, <1>10, <1>11, ArrivedKnown
     DEF Sound, SoundGroups, SoundState, SoundCertificate, AtWork, Between
<1>13. Sound(q, outside.groups, issued', outside.rotated, clock)
  BY <1>7, <1>12, SoundStays
<1> QED BY <1>1, <1>7, <1>8, <1>9, <1>13, RequestStep DEF Begin

\* States come and go, and no request takes a step.
LEMMA StatesStep ==
  ASSUME LoginInv, UNCHANGED <<login, outside, clock>>, Around', TallyOK', StoreInv', CacheInv',
         \A s \in DOMAIN issued : /\ s \in DOMAIN issued' /\ issued'[s].at = issued[s].at
                                  /\ issued[s].lost => issued'[s].lost
  PROVE  LoginInv'
<1>1. LoginTypeOK'
  BY DEF LoginInv, LoginTypeOK, Around, TallyOK
<1>2. ASSUME NEW r \in LoginSlots PROVE SoundNow(login[r])'
  <2>1. Sound(login[r], outside.groups, issued, outside.rotated, clock)
    BY DEF LoginInv, RequestsInv, SoundNow
  <2>2. Sound(login[r], outside.groups, issued', outside.rotated, clock)
    BY <2>1, SoundStays
  <2> QED BY <2>2 DEF SoundNow
<1> QED BY <1>1, <1>2 DEF LoginInv, RequestsInv

\* A new state is stored, and the old ones are dropped.
LEMMA OauthLoginStep ==
  ASSUME LoginInv, NEW s \in States, OauthLogin(s) PROVE LoginInv'
<1> DEFINE d == [at |-> clock, codes |-> 0, deleted |-> FALSE, lost |-> FALSE]
<1>1. /\ s \notin DOMAIN issued
      /\ states' = [t \in {u \in DOMAIN states : clock - states[u] <= StateTtl} \union {s} |->
                      IF t = s THEN clock ELSE states[t]]
      /\ issued' = [t \in DOMAIN issued \union {s} |-> IF t = s THEN d ELSE issued[t]]
      /\ UNCHANGED <<idp, metadata, login, outside, clock, tally>>
  BY DEF OauthLogin
<1>2. Around /\ TallyOK
  BY TypeParts DEF LoginInv
<1>3. d \in [at : 0 .. LastTime, codes : 0 .. 2, deleted : BOOLEAN, lost : BOOLEAN]
  BY <1>2 DEF Around
<1>4. d.at = clock /\ d.deleted = FALSE /\ d.lost = FALSE
  OBVIOUS
<1> HIDE DEF d
<1>5. Around'
  <2>1. DOMAIN issued' = DOMAIN issued \union {s}
    BY <1>1
  <2>2. issued' \in [DOMAIN issued' -> [at : 0 .. LastTime, codes : 0 .. 2,
                                        deleted : BOOLEAN, lost : BOOLEAN]]
    BY <1>1, <1>2, <1>3 DEF Around
  <2>3. DOMAIN states' \subseteq States /\ states' \in [DOMAIN states' -> 0 .. LastTime]
    BY <1>1, <1>2 DEF Around
  <2> QED BY <1>1, <1>2, <2>1, <2>2, <2>3 DEF Around
<1>6. StoreInv'
  <2>1. /\ DOMAIN issued' = DOMAIN issued \union {s} /\ issued'[s] = d
        /\ \A t \in DOMAIN issued : t # s /\ issued'[t] = issued[t]
    BY <1>1
  <2>2. /\ s \in DOMAIN states' /\ states'[s] = clock
        /\ DOMAIN states' \subseteq DOMAIN states \union {s}
        /\ \A t \in DOMAIN issued : t \in DOMAIN states' <=>
              t \in DOMAIN states /\ clock - states[t] <= StateTtl
        /\ \A t \in DOMAIN issued : t \in DOMAIN states' => states'[t] = states[t]
    BY <1>1
  <2>3. clock \in Nat /\ StateTtl \in Nat
    BY <1>2 DEF Around
  <2>4. \A t \in DOMAIN issued : issued[t].at \in Nat
    BY <1>2 DEF Around
  <2>5. /\ DOMAIN states \subseteq DOMAIN issued
        /\ \A t \in DOMAIN issued :
             /\ issued[t].at <= clock
             /\ t \in DOMAIN states => states[t] = issued[t].at /\ ~issued[t].deleted
             /\ t \notin DOMAIN states =>
                  issued[t].deleted \/ issued[t].lost \/ clock - issued[t].at > StateTtl
    BY DEF LoginInv, StoreInv
  <2>6. ASSUME NEW t \in DOMAIN issued
        PROVE  /\ issued'[t].at <= clock
               /\ t \in DOMAIN states' => states'[t] = issued'[t].at /\ ~issued'[t].deleted
               /\ t \notin DOMAIN states' =>
                    issued'[t].deleted \/ issued'[t].lost \/ clock - issued'[t].at > StateTtl
    BY <2>1, <2>2, <2>3, <2>4, <2>5
  <2>7. /\ issued'[s].at <= clock
        /\ states'[s] = issued'[s].at /\ ~issued'[s].deleted
    BY <1>4, <2>1, <2>2, <2>3
  <2>8. DOMAIN states' \subseteq DOMAIN issued' /\ clock' = clock
    BY <1>1, <2>1, <2>2, <2>5
  <2> QED BY <2>1, <2>2, <2>6, <2>7, <2>8 DEF StoreInv
<1>7. \A t \in DOMAIN issued : t \in DOMAIN issued' /\ issued'[t] = issued[t]
  BY <1>1
<1>8. CacheInv' /\ TallyOK'
  BY <1>1, <1>2 DEF LoginInv, CacheInv, TallyOK
<1> QED BY <1>1, <1>5, <1>6, <1>7, <1>8, StatesStep

-----------------------------------------------------------------------------
(* The surroundings change. *)

\* A change outside counts, and a bound stops it.
LEMMA MovesTally == LoginInv /\ Moves => TallyOK'
<1> SUFFICES ASSUME LoginInv, Moves PROVE TallyOK'
  OBVIOUS
<1>1. tally \in [mode : StateModes, logins : 0 .. MaxLogins, moves : 0 .. MaxMoves]
  BY DEF LoginInv, LoginTypeOK
<1>2. MaxMoves \in Nat /\ tally.moves < MaxMoves /\ tally' = [tally EXCEPT !.moves = @ + 1]
  BY DEF Moves
<1> QED BY <1>1, <1>2 DEF TallyOK

\* The user is put in other groups.
LEMMA ChangeGroupsStep ==
  ASSUME LoginInv, NEW source \in Sources, NEW groups \in SUBSET Groups,
         ChangeGroups(source, groups)
  PROVE  LoginInv'
<1> DEFINE now == [outside.groups EXCEPT ![source] = groups]
           moved(p) == [p EXCEPT !.ever = [p.ever EXCEPT ![source] = @ \union groups],
                                 !.always = [p.always EXCEPT ![source] = @ \intersect groups]]
<1>1. /\ Moves /\ outside' = [outside EXCEPT !.groups = now]
      /\ login' = [r \in LoginSlots |-> IF Serving(r) THEN moved(login[r]) ELSE login[r]]
      /\ UNCHANGED <<idp, states, metadata, issued, clock>>
  BY DEF ChangeGroups
<1>2. Around /\ TallyOK
  BY TypeParts DEF LoginInv
<1>3. /\ outside.groups \in [Sources -> SUBSET Groups] /\ now \in [Sources -> SUBSET Groups]
      /\ \A s \in Sources : now[s] = IF s = source THEN groups ELSE outside.groups[s]
  BY <1>2 DEF Around
<1> HIDE DEF now
<1>4. /\ outside'.groups = now /\ outside'.rotated = outside.rotated /\ Around'
  BY <1>1, <1>2, <1>3 DEF Around
<1>5. ASSUME NEW p, Sound(p, outside.groups, issued, outside.rotated, clock),
             p.pc \notin {"idle", "in", "turned"}
      PROVE  Sound(moved(p), now, issued, outside.rotated, clock)
  <2> DEFINE e == [p.ever EXCEPT ![source] = @ \union groups]
             a == [p.always EXCEPT ![source] = @ \intersect groups]
             q == [p EXCEPT !.ever = e, !.always = a]
  <2>1. p \in LoginRequest
    BY <1>5 DEF Sound
  <2>2. p.ever \in [Sources -> SUBSET Groups] /\ p.always \in [Sources -> SUBSET Groups]
    BY <2>1 DEF LoginRequest
  <2>3. /\ e \in [Sources -> SUBSET Groups] /\ a \in [Sources -> SUBSET Groups]
        /\ \A s \in Sources : e[s] = IF s = source THEN p.ever[s] \union groups ELSE p.ever[s]
        /\ \A s \in Sources :
              a[s] = IF s = source THEN p.always[s] \intersect groups ELSE p.always[s]
    BY <2>2
  <2> HIDE DEF e, a
  <2>4. /\ q \in LoginRequest
        /\ q.pc = p.pc /\ q.way = p.way /\ q.state = p.state /\ q.held = p.held
        /\ q.late = p.late /\ q.right = p.right /\ q.began = p.began /\ q.asked = p.asked
        /\ q.cert = p.cert /\ q.service = p.service /\ q.reads = p.reads
        /\ q.source = p.source /\ q.groups = p.groups /\ q.ever = e /\ q.always = a
    BY <2>1, <2>3 DEF LoginRequest
  <2> HIDE DEF q
  <2>5. SoundState(q, issued) /\ SoundCertificate(q, outside.rotated, clock)
    BY <1>5, <2>4 DEF Sound, SoundState, SoundCertificate
  <2>6. \A s \in Sources : /\ p.ever[s] \subseteq e[s] /\ a[s] \subseteq p.always[s]
                           /\ s = source => groups \subseteq e[s] /\ a[s] \subseteq groups
    BY <2>3
  <2>7. SoundGroups(q, now)
    BY <1>5, <1>3, <2>1, <2>4, <2>6
       DEF Sound, SoundGroups, AtWork, Between, DirectoryRead, LoginRequest, Sources
  <2>8. q = moved(p)
    BY DEF q, e, a
  <2> QED BY <2>4, <2>5, <2>7, <2>8 DEF Sound
<1>6. ASSUME NEW p, Sound(p, outside.groups, issued, outside.rotated, clock),
             p.pc \in {"idle", "in", "turned"}
      PROVE  Sound(p, now, issued, outside.rotated, clock)
  BY <1>6 DEF Sound, SoundGroups, AtWork
<1> HIDE DEF moved
<1>7. ASSUME NEW r \in LoginSlots PROVE Sound(login'[r], now, issued, outside.rotated, clock)
  <2>1. Sound(login[r], outside.groups, issued, outside.rotated, clock)
    BY DEF LoginInv, RequestsInv, SoundNow
  <2> QED BY <2>1, <1>1, <1>5, <1>6 DEF Serving
<1>8. RequestsInv'
  BY <1>1, <1>4, <1>7 DEF RequestsInv, SoundNow
<1>9. LoginTypeOK'
  <2>1. \A r \in LoginSlots : login'[r] \in LoginRequest
    BY <1>7 DEF Sound
  <2>2. login' \in [LoginSlots -> LoginRequest]
    BY <1>1, <2>1
  <2>3. TallyOK'
    BY <1>1, MovesTally
  <2> QED BY <1>4, <2>2, <2>3 DEF LoginTypeOK, Around, TallyOK
<1>10. StoreInv' /\ CacheInv'
  BY <1>1, <1>4 DEF LoginInv, StoreInv, CacheInv
<1> QED BY <1>8, <1>9, <1>10 DEF LoginInv

\* The provider changes its key: of now, so later than all that was judged.
LEMMA ChangeKeyStep ==
  ASSUME LoginInv, ChangeKey PROVE LoginInv'
<1>1. /\ Moves /\ outside' = [outside EXCEPT !.rotated = Append(@, clock)]
      /\ UNCHANGED <<idp, states, metadata, login, issued, clock>>
  BY DEF ChangeKey
<1>2. Around /\ TallyOK /\ login \in [LoginSlots -> LoginRequest]
  BY TypeParts DEF LoginInv
<1>3. /\ outside.rotated \in Seq(Nat) /\ clock \in Nat /\ MetadataTtl \in Nat
      /\ metadata.cert \in Nat /\ metadata.at \in Nat
  BY <1>2 DEF Around, Metadata
<1> DEFINE more == Append(outside.rotated, clock)
<1>4. more \in Seq(Nat) /\ Len(more) = Len(outside.rotated) + 1
  BY <1>3
<1>5. \A i \in 1 .. Len(more) :
         more[i] = IF i <= Len(outside.rotated) THEN outside.rotated[i] ELSE clock
  BY <1>3
<1>6. outside' = [outside EXCEPT !.rotated = more]
  BY <1>1
<1> HIDE DEF more
<1>7. outside'.rotated = more /\ outside'.groups = outside.groups /\ Around'
  BY <1>1, <1>2, <1>4, <1>6 DEF Around
<1>8. ASSUME NEW cert \in Nat, NEW time \in Int, time <= clock, cert <= Len(outside.rotated),
             ~Replaced(outside.rotated, cert, time)
      PROVE  ~Replaced(more, cert, time)
  <2>1. cert + 1 \in 1 .. Len(more) /\ Len(outside.rotated) \in Nat
    BY <1>3, <1>4, <1>8
  <2>2. more[cert + 1] = IF cert + 1 <= Len(outside.rotated)
                         THEN outside.rotated[cert + 1] ELSE clock
    BY <1>5, <2>1
  <2>3. cert < Len(outside.rotated) => outside.rotated[cert + 1] \in Nat
    BY <1>3, <2>1
  <2> QED BY <1>3, <1>4, <1>8, <2>1, <2>2, <2>3 DEF Replaced
<1>9. ASSUME NEW r \in LoginSlots PROVE SoundNow(login[r])'
  <2> DEFINE p == login[r]
  <2>1. Sound(p, outside.groups, issued, outside.rotated, clock)
    BY DEF LoginInv, RequestsInv, SoundNow
  <2>2. p.began \in Nat /\ p.cert.cert \in Nat /\ p.cert.at \in Nat
    BY <1>2 DEF LoginRequest, Metadata
  <2>3. SoundCertificate(p, outside.rotated, clock)
    BY <2>1 DEF Sound
  <2> HIDE DEF p
  <2>4. p.began - MetadataTtl \in Int /\ (p.began <= clock => p.began - MetadataTtl <= clock)
    BY <2>2, <1>3
  <2>5. SoundCertificate(p, more, clock)
    <3>1. p.began <= clock /\ Len(outside.rotated) \in Nat
      BY <2>3, <1>3 DEF SoundCertificate
    <3>2. ASSUME p.pc = "cache"
          PROVE  p.cert.cert <= Len(more) /\ ~Replaced(more, p.cert.cert, p.cert.at)
      <4>1. /\ p.cert.at <= clock /\ p.cert.cert <= Len(outside.rotated)
            /\ ~Replaced(outside.rotated, p.cert.cert, p.cert.at)
        BY <2>3, <3>2 DEF SoundCertificate
      <4>2. p.cert.at \in Int
        BY <2>2
      <4>3. ~Replaced(more, p.cert.cert, p.cert.at)
        BY <2>2, <4>1, <4>2, <1>8
      <4> QED BY <2>2, <3>1, <4>1, <4>3, <1>4
    <3>3. ASSUME p.way = "saml2", p.pc \notin {"metadata", "fetch", "cache"}
          PROVE  /\ p.cert.cert <= Len(more)
                 /\ ~Replaced(more, p.cert.cert, p.began - MetadataTtl)
      <4>1. /\ p.cert.cert <= Len(outside.rotated)
            /\ ~Replaced(outside.rotated, p.cert.cert, p.began - MetadataTtl)
        BY <2>3, <3>3 DEF SoundCertificate
      <4>2. ~Replaced(more, p.cert.cert, p.began - MetadataTtl)
        BY <2>2, <2>4, <3>1, <4>1, <1>8
      <4> QED BY <2>2, <3>1, <4>1, <4>2, <1>4
    <3> QED BY <2>3, <3>1, <3>2, <3>3 DEF SoundCertificate
  <2>6. Sound(p, outside.groups, issued, more, clock)
    BY <2>1, <2>5 DEF Sound
  <2> QED BY <1>1, <1>7, <2>6 DEF SoundNow, p
<1>10. CacheInv'
  <2>1. DOMAIN outside.rotated = 1 .. Len(outside.rotated) /\ DOMAIN more = 1 .. Len(more)
    BY <1>3, <1>4
  <2>2. \A i \in DOMAIN more : more[i] <= clock
    <3>1. \A i \in 1 .. Len(outside.rotated) : outside.rotated[i] <= clock
      BY <2>1 DEF LoginInv, CacheInv
    <3>2. Len(outside.rotated) \in Nat
      BY <1>3
    <3>3. ASSUME NEW i \in 1 .. Len(more) PROVE more[i] <= clock
      <4>1. i <= Len(outside.rotated) => i \in 1 .. Len(outside.rotated)
        BY <1>4, <3>2
      <4>2. more[i] = IF i <= Len(outside.rotated) THEN outside.rotated[i] ELSE clock
        BY <1>5
      <4> QED BY <1>3, <3>1, <4>1, <4>2
    <3> QED BY <2>1, <3>3
  <2>3. /\ metadata.at <= clock /\ metadata.cert <= Len(outside.rotated)
        /\ ~Replaced(outside.rotated, metadata.cert, metadata.at)
    BY DEF LoginInv, CacheInv
  <2>4. ~Replaced(more, metadata.cert, metadata.at)
    BY <1>3, <1>8, <2>3
  <2>5. metadata.cert <= Len(more)
    BY <1>3, <1>4, <2>3
  <2> QED BY <1>1, <1>7, <2>2, <2>3, <2>4, <2>5 DEF CacheInv
<1>11. StoreInv' /\ LoginTypeOK'
  <2>1. TallyOK'
    BY <1>1, MovesTally
  <2> QED BY <1>1, <1>2, <1>7, <2>1 DEF LoginInv, StoreInv, LoginTypeOK, Around, TallyOK
<1> QED BY <1>9, <1>10, <1>11 DEF LoginInv, RequestsInv

\* Time goes on.
LEMMA LaterStep ==
  ASSUME LoginInv, Later PROVE LoginInv'
<1>1. /\ clock < LastTime /\ clock' = clock + 1
      /\ UNCHANGED <<idp, states, metadata, login, outside, issued, tally>>
  BY DEF Later
<1>2. Around /\ TallyOK /\ login \in [LoginSlots -> LoginRequest]
  BY TypeParts DEF LoginInv
<1>3. clock \in Nat /\ LastTime \in Nat /\ clock' \in 0 .. LastTime /\ StateTtl \in Nat
  BY <1>1, <1>2 DEF Around
<1>4. ASSUME NEW r \in LoginSlots PROVE SoundNow(login[r])'
  <2>1. Sound(login[r], outside.groups, issued, outside.rotated, clock)
    BY DEF LoginInv, RequestsInv, SoundNow
  <2>2. login[r].began \in Nat /\ login[r].cert.at \in Nat
    BY <1>2 DEF LoginRequest, Metadata
  <2>3. Sound(login[r], outside.groups, issued, outside.rotated, clock + 1)
    BY <1>3, <2>1, <2>2 DEF Sound, SoundCertificate
  <2> QED BY <1>1, <2>3 DEF SoundNow
<1>5. StoreInv'
  <2>1. \A s \in DOMAIN issued : issued[s].at \in Nat
    BY <1>2 DEF Around
  <2>2. ASSUME NEW s \in DOMAIN issued
        PROVE  /\ issued[s].at <= clock + 1
               /\ s \in DOMAIN states => states[s] = issued[s].at /\ ~issued[s].deleted
               /\ s \notin DOMAIN states =>
                    issued[s].deleted \/ issued[s].lost \/ (clock + 1) - issued[s].at > StateTtl
    <3>1. /\ issued[s].at <= clock
          /\ s \in DOMAIN states => states[s] = issued[s].at /\ ~issued[s].deleted
          /\ s \notin DOMAIN states =>
               issued[s].deleted \/ issued[s].lost \/ clock - issued[s].at > StateTtl
      BY DEF LoginInv, StoreInv
    <3>2. issued[s].at \in Nat
      BY <2>1
    <3>3. issued[s].at <= clock + 1 /\ (clock - issued[s].at > StateTtl =>
                                          (clock + 1) - issued[s].at > StateTtl)
      BY <1>3, <3>1, <3>2
    <3> QED BY <3>1, <3>3
  <2>3. DOMAIN states \subseteq DOMAIN issued
    BY DEF LoginInv, StoreInv
  <2>4. ASSUME NEW s \in DOMAIN issued'
        PROVE  /\ issued'[s].at <= clock'
               /\ s \in DOMAIN states' => states'[s] = issued'[s].at /\ ~issued'[s].deleted
               /\ s \notin DOMAIN states' =>
                    issued'[s].deleted \/ issued'[s].lost \/ clock' - issued'[s].at > StateTtl
    <3>1. states' = states /\ issued' = issued /\ clock' = clock + 1
      BY <1>1
    <3>2. s \in DOMAIN issued
      BY <3>1
    <3>3. /\ issued[s].at <= clock + 1
          /\ s \in DOMAIN states => states[s] = issued[s].at /\ ~issued[s].deleted
          /\ s \notin DOMAIN states =>
               issued[s].deleted \/ issued[s].lost \/ (clock + 1) - issued[s].at > StateTtl
      BY <2>2, <3>2
    <3>4. issued'[s] = issued[s] /\ DOMAIN states' = DOMAIN states /\ states'[s] = states[s]
      BY <3>1
    <3> QED BY <3>1, <3>3, <3>4
  <2>5. DOMAIN states' \subseteq DOMAIN issued'
    BY <1>1, <2>3
  <2> QED BY <2>4, <2>5 DEF StoreInv
<1>6. CacheInv'
  <2>1. outside.rotated \in Seq(Nat) /\ metadata.at \in Nat
    BY <1>2 DEF Around, Metadata
  <2>2. \A i \in DOMAIN outside.rotated : outside.rotated[i] <= clock + 1
    BY <1>3, <2>1 DEF LoginInv, CacheInv
  <2> QED BY <1>1, <1>3, <2>1, <2>2 DEF LoginInv, CacheInv
<1>7. LoginTypeOK'
  <2>1. Around'
    BY <1>1, <1>2, <1>3 DEF Around
  <2> QED BY <1>1, <1>2, <2>1 DEF LoginTypeOK, Around, TallyOK
<1> QED BY <1>4, <1>5, <1>6, <1>7 DEF LoginInv, RequestsInv

\* An administrator saves other settings.
LEMMA ReconfigureStep ==
  ASSUME LoginInv, NEW section \in SavedConfigs(idp), Reconfigure(section) PROVE LoginInv'
<1>1. Moves /\ idp' = section /\ UNCHANGED <<states, metadata, login, outside, issued, clock>>
  BY DEF Reconfigure
<1>2. Around /\ TallyOK'
  BY <1>1, MovesTally, TypeParts DEF LoginInv
<1>3. Around'
  BY <1>1, <1>2 DEF Around
<1> QED BY <1>1, <1>2, <1>3, StatesStep DEF LoginInv, StoreInv, CacheInv

\* The process starts again: no request is left, and states in memory are lost.
LEMMA RestartStep ==
  ASSUME LoginInv, Restart PROVE LoginInv'
<1>1. /\ Moves /\ login' = [r \in LoginSlots |-> NobodyThere] /\ metadata' = NoMetadata
      /\ UNCHANGED <<idp, outside, clock>>
  BY DEF Restart
<1>2. Around /\ TallyOK'
  BY <1>1, MovesTally, TypeParts DEF LoginInv
<1>3. NoMetadata \in Metadata
  BY DEF NoMetadata, Metadata
<1>4. Around' /\ StoreInv'
  <2>1. CASE UNCHANGED <<states, issued>>
    BY <2>1, <1>1, <1>2, <1>3 DEF Around, LoginInv, StoreInv
  <2>2. CASE /\ states' = <<>>
             /\ issued' = [s \in DOMAIN issued |-> [issued[s] EXCEPT !.lost = TRUE]]
    <3>1. DOMAIN states' = {} /\ DOMAIN issued' = DOMAIN issued
      BY <2>2
    <3>2. ASSUME NEW s \in DOMAIN issued
          PROVE  /\ issued'[s] \in [at : 0 .. LastTime, codes : 0 .. 2,
                                    deleted : BOOLEAN, lost : BOOLEAN]
                 /\ issued'[s].at = issued[s].at /\ issued'[s].lost
      <4>1. issued[s] \in [at : 0 .. LastTime, codes : 0 .. 2, deleted : BOOLEAN, lost : BOOLEAN]
        BY <1>2 DEF Around
      <4>2. issued'[s] = [issued[s] EXCEPT !.lost = TRUE]
        BY <2>2
      <4> QED BY <4>1, <4>2
    <3>3. issued' \in [DOMAIN issued' -> [at : 0 .. LastTime, codes : 0 .. 2,
                                          deleted : BOOLEAN, lost : BOOLEAN]]
      BY <2>2, <3>1, <3>2
    <3>4. states' \in [DOMAIN states' -> 0 .. LastTime]
      BY <2>2, <3>1
    <3>5. Around'
      BY <1>1, <1>2, <1>3, <3>1, <3>3, <3>4 DEF Around
    <3>6. StoreInv'
      BY <1>1, <3>1, <3>2 DEF LoginInv, StoreInv
    <3> QED BY <3>5, <3>6
  <2> QED BY <2>1, <2>2 DEF Restart
<1>5. RequestsInv'
  <2>1. clock \in Nat
    BY <1>2 DEF Around
  <2>2. Sound(NobodyThere, outside'.groups, issued', outside'.rotated, clock)
    BY <2>1, NobodyIsSound
  <2>3. \A r \in LoginSlots : login'[r] = NobodyThere
    BY <1>1
  <2> QED BY <1>1, <2>2, <2>3 DEF RequestsInv, SoundNow
<1>6. LoginTypeOK'
  <2>1. login' \in [LoginSlots -> LoginRequest]
    BY <1>1, NobodyIsRequest
  <2> QED BY <1>2, <1>4, <2>1 DEF LoginTypeOK, Around, TallyOK
<1>7. CacheInv'
  <2>1. /\ outside.rotated \in Seq(Nat) /\ clock \in Nat
        /\ \A i \in DOMAIN outside.rotated : outside.rotated[i] <= clock
    BY <1>2 DEF Around, LoginInv, CacheInv
  <2>2. NoMetadata.cert = 0 /\ NoMetadata.at = 0
    BY DEF NoMetadata
  <2>3. 0 < Len(outside.rotated) => outside.rotated[1] \in Nat
    BY <2>1
  <2>4. ~Replaced(outside.rotated, 0, 0)
    BY <2>1, <2>3 DEF Replaced
  <2> QED BY <1>1, <2>1, <2>2, <2>4 DEF CacheInv
<1> QED BY <1>4, <1>5, <1>6, <1>7 DEF LoginInv

-----------------------------------------------------------------------------
(* The invariant, and what it says. *)

\* Every step keeps the invariant.
LEMMA LoginStep == LoginInv /\ [LoginNext]_loginVars => LoginInv'
<1> SUFFICES ASSUME LoginInv, [LoginNext]_loginVars PROVE LoginInv'
  OBVIOUS
<1>1. CASE UNCHANGED loginVars
  BY <1>1 DEF loginVars, LoginInv, LoginTypeOK, RequestsInv, SoundNow, StoreInv, CacheInv
<1>2. ASSUME NEW s \in States, OauthLogin(s) PROVE LoginInv'
  BY <1>2, OauthLoginStep
<1>3. ASSUME NEW r \in LoginSlots,
             \/ \E s \in States, code \in 1 .. 2 : OauthCallback(r, s, code)
             \/ \E way \in {"saml2", "redirect"} : SamlRequest(r, way)
             \/ \E right \in BOOLEAN : LdapLogin(r, right)
      PROVE  LoginInv'
  BY <1>3, OauthCallbackStep, SamlRequestStep, LdapLoginStep
<1>4. ASSUME NEW r \in LoginSlots,
             GetState(r) \/ DeleteState(r) \/ ExchangeCode(r) \/ ReadClaims(r)
      PROVE  LoginInv'
  BY <1>4, GetStateStep, DeleteStateStep, ExchangeCodeStep, ReadClaimsStep
<1>5. ASSUME NEW r \in LoginSlots,
             ReadMetadata(r) \/ FetchMetadata(r) \/ CacheMetadata(r) \/ JudgeAnswer(r)
      PROVE  LoginInv'
  BY <1>5, ReadMetadataStep, FetchMetadataStep, CacheMetadataStep, JudgeAnswerStep
<1>6. ASSUME NEW r \in LoginSlots,
             Enrich(r) \/ FindUser(r) \/ BindUser(r) \/ ReadGroups(r) \/ SaveLogin(r)
      PROVE  LoginInv'
  BY <1>6, EnrichStep, FindUserStep, BindUserStep, ReadGroupsStep, SaveLoginStep
<1>7. ASSUME NEW source \in Sources, NEW m \in Memberships, ChangeGroups(source, m[source])
      PROVE  LoginInv'
  <2>1. m[source] \in SUBSET Groups
    OBVIOUS
  <2> QED BY <1>7, <2>1, ChangeGroupsStep
<1>8. CASE ChangeKey \/ Restart \/ Later
  BY <1>8, ChangeKeyStep, RestartStep, LaterStep
<1>9. ASSUME NEW section \in SavedConfigs(idp), Reconfigure(section) PROVE LoginInv'
  BY <1>9, ReconfigureStep
<1> QED BY <1>1, <1>2, <1>3, <1>4, <1>5, <1>6, <1>7, <1>8, <1>9 DEF LoginNext

\* At the start nobody is being served.
LEMMA InitLogin == LoginInit => LoginInv
<1> SUFFICES ASSUME LoginInit PROVE LoginInv
  OBVIOUS
<1>1. /\ idp \in IdpConfig /\ states = <<>> /\ issued = <<>> /\ metadata = NoMetadata
      /\ login = [r \in LoginSlots |-> NobodyThere] /\ clock = 0
      /\ LastTime \in Nat
  BY DEF LoginInit
<1>2. PICK first \in Memberships : outside = [groups |-> first, spent |-> {}, rotated |-> <<>>]
  BY DEF LoginInit
<1>3. PICK mode \in StateModes : tally = [mode |-> mode, logins |-> 0, moves |-> 0]
  BY DEF LoginInit
<1>4. Around
  <2>1. outside \in [groups : [Sources -> SUBSET Groups],
                     spent : SUBSET (States \X (1 .. 2)), rotated : Seq(Nat)]
    BY <1>2
  <2>2. metadata \in Metadata
    BY <1>1 DEF NoMetadata, Metadata
  <2>3. DOMAIN states = {} /\ DOMAIN issued = {}
    BY <1>1
  <2>4. /\ states \in [DOMAIN states -> 0 .. LastTime]
        /\ issued \in [DOMAIN issued -> [at : 0 .. LastTime, codes : 0 .. 2,
                                         deleted : BOOLEAN, lost : BOOLEAN]]
    BY <1>1, <2>3
  <2> QED BY <1>1, <2>1, <2>2, <2>3, <2>4 DEF Around
<1>5. TallyOK
  BY <1>3 DEF TallyOK
<1>6. LoginTypeOK
  <2>1. login \in [LoginSlots -> LoginRequest]
    BY <1>1, NobodyIsRequest
  <2> QED BY <1>4, <1>5, <2>1, TypeParts
<1>7. RequestsInv
  BY <1>1, NobodyIsSound DEF RequestsInv, SoundNow
<1>8. StoreInv
  <2>1. DOMAIN states = {} /\ DOMAIN issued = {}
    BY <1>1
  <2> QED BY <2>1 DEF StoreInv
<1>9. CacheInv
  BY <1>1, <1>2 DEF CacheInv, Replaced, NoMetadata
<1> QED BY <1>6, <1>7, <1>8, <1>9 DEF LoginInv

\* So it holds throughout.
LEMMA LoginInvariance == LoginSpec => []LoginInv
  BY InitLogin, LoginStep, PTL DEF LoginSpec

(* The types, for every set of groups, states and requests. *)
THEOREM LoginTypes == LoginSpec => []LoginTypeOK
<1>1. LoginInv => LoginTypeOK
  BY DEF LoginInv
<1> QED BY <1>1, LoginInvariance, PTL

\* More groups give more roles.
LEMMA GrantedGrows ==
  ASSUME NEW few, NEW many, few \subseteq many PROVE Granted(few) \subseteq Granted(many)
  BY DEF Granted

(* The session of a login has the roles of the user's groups, as one of    *)
(* the sources told them since the request came in (enrichIdentity,        *)
(* readLdapGroups, rolesFromSamlGroups), whatever changes while it goes on *)
(* and whoever else logs in.                                               *)
THEOREM RolesAreOfGroups == LoginSpec => []RolesFollowGroups
<1>1. LoginInv => RolesFollowGroups
  <2> SUFFICES ASSUME LoginInv, NEW r \in LoginSlots, login[r].pc = "in"
               PROVE  LET roles == RolesOf(login[r].groups)
                          ever == Granted(login[r].ever[login[r].source])
                          always == Granted(login[r].always[login[r].source])
                      IN /\ login[r].right
                         /\ always \subseteq roles
                         /\ roles \subseteq ever \union (IF always = {} THEN {"viewer"} ELSE {})
    BY DEF RolesFollowGroups
  <2>1. login[r].right /\ Between(login[r], login[r].source)
    BY Known DEF SoundGroups
  <2>2. /\ Granted(login[r].always[login[r].source]) \subseteq Granted(login[r].groups)
        /\ Granted(login[r].groups) \subseteq Granted(login[r].ever[login[r].source])
    BY <2>1, GrantedGrows DEF Between
  <2> QED BY <2>1, <2>2 DEF RolesOf
<1> QED BY <1>1, LoginInvariance, PTL

(* A callback is let in by a state that was in time and that no other had  *)
(* deleted when it was read, and turned away only for one that was not, or *)
(* that died with the process. Two callbacks that both read a state before *)
(* either deletes it are both let in. A SAML answer is judged by a         *)
(* certificate no older than the cache may keep it (readIdpMetadata).      *)
THEOREM JudgedInTime == LoginSpec => []JudgedByTheCurrent
<1>1. LoginInv => JudgedByTheCurrent
  <2> SUFFICES ASSUME LoginInv, NEW r \in LoginSlots
               PROVE  LET q == login[r]
                          timely == q.asked - issued[q.state].at <= StateTtl
                      IN /\ q.way = "oauth2" /\ q.pc = "in" => timely /\ ~q.late
                         /\ q.way = "oauth2" /\ q.pc = "turned" =>
                              ~timely \/ q.late \/ issued[q.state].lost
                         /\ q.way = "saml2" /\ q.pc \in {"in", "turned"} =>
                              ~ReplacedBefore(q.cert.cert, q.began - MetadataTtl)
    BY DEF JudgedByTheCurrent
  <2>1. /\ SoundState(login[r], issued)
        /\ SoundCertificate(login[r], outside.rotated, clock)
    BY Known
  <2> QED BY <2>1 DEF SoundState, SoundCertificate, Replaced, ReplacedBefore
<1> QED BY <1>1, LoginInvariance, PTL
=============================================================================
