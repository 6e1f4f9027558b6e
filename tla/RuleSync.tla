------------------------------ MODULE RuleSync ------------------------------
(***************************************************************************)
(* The rules half of the controller: from RuleGroup objects to the rules   *)
(* ConfigMap, the rules file and the configuration Prometheus runs.        *)
(*                                                                         *)
(* One process: NewController's handlers feed the queue (Informer,         *)
(* WorkQueue); Run, when the caches have synced, syncs the configuration,  *)
(* then the rules, reloads, and starts one worker for each half; the one   *)
(* for the rules takes keys off its queue and runs syncRuleHandler for     *)
(* each.  Every call syncRuleHandler makes to the API server and to the    *)
(* file system is a step of its own, so users, the informer, Prometheus    *)
(* and a crash can act between any two of them.                            *)
(*                                                                         *)
(* Of the config half (module ScrapeSync) this one has what the rules half *)
(* notices of it: its reloads, and a panic of its sync, which ends the     *)
(* process, in the sync of Run before the rules are synced.                *)
(*                                                                         *)
(* Abstracted: what a spec says (only how convertRuleGroup judges it and   *)
(* how many rules it has), the YAML (a rendering is the function from keys *)
(* to specs it lists), the ConfigMap's other keys, other replicas, and the *)
(* reload requests themselves (module Reloader): a reload in flight either *)
(* makes Prometheus load what its rules source holds then, or is given up. *)
(***************************************************************************)
EXTENDS Informer

CONSTANTS
  ClassOf(_),               \* convertRuleGroup's verdict on a spec:
                            \*   "ok"      a group without errors
                            \*   "reject"  a group, and errors: published as
                            \*             it is, refused by Prometheus
                            \*   "nil"     errors and no group
  RuleCountOf(_),           \* number of rules in a spec
  HasCM,                    \* a ConfigMap is configured (name and key set)
  HasFile,                  \* a rules file is configured
  NoCM, NoKey, NoFile, Torn,\* no ConfigMap; one without the key; no file;
                            \* a file whose write has not been completed
  MaxStatusErrs,            \* bound: errors a status holds before the API
                            \* server refuses the object as too large
  MaxFails,                 \* bound: calls that fail
  MaxCrashes,               \* bound: crashes of the process
  MaxOtherReloads           \* bound: reloads the config worker issues

Renderings == [Keys -> Specs \cup {Absent}]

ASSUME ClassAssumption ==
  \A s \in Specs : ClassOf(s) \in {"ok", "reject", "nil"}
ASSUME RuleCountAssumption == \A s \in Specs : RuleCountOf(s) \in Nat
ASSUME FlagAssumption == HasCM \in BOOLEAN /\ HasFile \in BOOLEAN
ASSUME SentinelAssumption ==
  /\ Renderings \cap {NoCM, NoKey, NoFile, Torn} = {}
  /\ Torn # NoFile

VARIABLES
  phase,                    \* "down", "boot" (registration, cache sync),
                            \* "initial" (the sync of Run), "running"
  pc,                       \* next step of the goroutine that syncs
  snap,                     \* the objects the sync listed
  todo,                     \* keys whose status it has yet to update
  changed,                  \* cmUpdated || fileChanged so far
  lastErr,                  \* history: the last sync returned an error
  cm,                       \* the ConfigMap's key
  file,                     \* the rules file
  mount,                    \* what the kubelet has mounted of the ConfigMap
  prom,                     \* what Prometheus loaded last
  inflight,                 \* reload goroutines still trying
  lost,                     \* history: why the last change was not loaded
  badScrape,                \* the config half lists a Scrape whose conversion
                            \* panics
  fails, crashes, otherReloads

syncVars == <<phase, pc, snap, todo, changed, lastErr>>
outVars == <<cm, file, mount>>
promVars == <<prom, inflight, lost>>
configVars == <<badScrape, otherReloads>>
restVars == <<fails, crashes, configVars>>
vars == <<informerVars, queueVars, syncVars, outVars, promVars, restVars>>

Contents == Renderings \cup {NoCM, NoKey, NoFile, Torn}
PCs == {"idle", "config", "list", "status", "getcm", "createcm",
        "updatecm", "readfile", "writefile", "writing", "reload"}
Reasons == {"crash", "error", "gaveup"}

Types ==
  /\ QueueTypeOK
  /\ InformerTypeOK
  /\ phase \in {"down", "boot", "initial", "running"}
  /\ pc \in PCs
  /\ snap \in [Keys -> Objects \cup {Absent}]
  /\ todo \in SUBSET Keys
  /\ changed \in BOOLEAN /\ lastErr \in BOOLEAN
  /\ cm \in Renderings \cup {NoCM, NoKey}
  /\ file \in Renderings \cup {NoFile, Torn}
  /\ mount \in Renderings \cup {NoCM, NoKey}
  /\ prom \in Contents
  /\ inflight \in Nat
  /\ lost \in SUBSET Reasons
  /\ badScrape \in BOOLEAN
  /\ fails \in Nat /\ crashes \in Nat /\ otherReloads \in Nat

\* With the types: only listed objects are given a status, and all of them have
\* been by the time the sync goes on to publish.
TypeOK ==
  /\ Types
  /\ todo \subseteq Present(snap)
  /\ todo # {} => pc = "status"

Render(objs) ==
  [k \in Keys |-> IF objs[k] = Absent THEN Absent ELSE objs[k].spec]

NoObjects == [k \in Keys |-> Absent]

Init ==
  /\ QueueInit
  /\ InformerInit
  /\ phase = "down" /\ pc = "idle"
  /\ snap = NoObjects
  /\ todo = {}
  /\ changed = FALSE /\ lastErr = FALSE
  /\ cm = NoCM
  /\ file = NoFile
  /\ mount = NoCM
  /\ prom = NoFile
  /\ inflight = 0
  /\ lost = {}
  /\ badScrape = FALSE
  /\ fails = 0 /\ crashes = 0 /\ otherReloads = 0

-----------------------------------------------------------------------------
\* Prometheus reads the rules file where there is one, else the mount.
Source == IF HasFile THEN file ELSE mount

\* Whether Prometheus may load, or may refuse, the content c.  Of a file cut
\* off in the middle nothing is known.
MayLoad(c) == \A k \in Keys : c \in Renderings /\ c[k] # Absent
                                 => ClassOf(c[k]) # "reject"
MayRefuse(c) == c = Torn \/ ~MayLoad(c)

\* A call that can fail does so.
Fail == fails < MaxFails /\ fails' = fails + 1

\* The goroutine that syncs has nothing more to do: Run starts the workers,
\* the worker releases its key.
Finish(e) ==
  /\ pc' = "idle"
  /\ phase' = "running"
  /\ lastErr' = e
  /\ DoneAll

\* Slip: only the ConfigMap's flag decides.
ReturnIgnoringFile(chg) ==
  \/ /\ changed \/ phase = "initial"
     /\ pc' = "reload"
     /\ lastErr' = FALSE
     /\ UNCHANGED <<phase, queueVars>>
  \/ ~changed /\ Finish(FALSE)

\* syncRuleHandler returns (chg, nil).  In the initial sync it is the flag of
\* either handler that makes Run reload.
ReturnOK(chg) ==
  \/ /\ chg \/ phase = "initial"
     /\ pc' = "reload"
     /\ lastErr' = FALSE
     /\ UNCHANGED <<phase, queueVars>>
  \/ ~chg /\ Finish(FALSE)

\* Slip: the error is taken for a success.
ReturnErrSwallowed(chg) == ReturnOK(chg)

\* syncRuleHandler returns (chg, err).  Run looks at the flag all the same; the
\* worker releases the key without a reload and without a retry.
ReturnErr(chg) ==
  \/ /\ phase = "initial"
     /\ pc' = "reload"
     /\ lastErr' = TRUE
     /\ UNCHANGED <<phase, queueVars>>
  \/ ~(phase = "initial" /\ chg) /\ Finish(TRUE)

\* The process ends: all but the outputs, Prometheus and the API is gone.
Die ==
  /\ phase' = "down" /\ pc' = "idle"
  /\ snap' = NoObjects /\ todo' = {}
  /\ changed' = FALSE /\ lastErr' = FALSE
  /\ inflight' = 0
  /\ lost' = IF Source \in {prom, Torn} THEN lost ELSE lost \cup {"crash"}
  /\ InformerReset
  /\ QueueReset
  /\ UNCHANGED <<outVars, prom, configVars>>

-----------------------------------------------------------------------------
(***************************************************************************)
(* The process starts, syncs both halves once, and starts its workers.     *)
(***************************************************************************)
\* The process is started (again): main starts the informers, Run registers
\* the webhook and waits for the caches.
Start ==
  /\ phase = "down"
  /\ phase' = "boot"
  /\ InformerStart
  /\ UNCHANGED <<queueVars, pc, snap, todo, changed, lastErr,
                 outVars, promVars, restVars>>

\* Slip: the first sync does not wait.
SyncAtOnce ==
  /\ phase = "boot"
  /\ phase' = "initial" /\ pc' = "config"
  /\ UNCHANGED <<informerVars, queueVars, snap, todo, changed, lastErr,
                 outVars, promVars, restVars>>

\* The caches of both halves have synced: the first syncs of Run.
WaitForCacheSync ==
  /\ phase = "boot"
  /\ HasSynced
  /\ phase' = "initial" /\ pc' = "config"
  /\ UNCHANGED <<informerVars, queueVars, snap, todo, changed, lastErr,
                 outVars, promVars, restVars>>

\* Run syncs the configuration first.  Whatever that returns the rules come next,
\* but a Scrape can make it panic; it does not if the template failed before the
\* Scrapes were listed.
FirstConfigSync ==
  /\ pc = "config"
  /\ \/ /\ pc' = "list"
        /\ UNCHANGED <<informerVars, queueVars, phase, snap, todo, changed,
                       lastErr, outVars, promVars, restVars>>
     \/ badScrape /\ Die /\ UNCHANGED <<fails, crashes>>

\* The config worker panics over a Scrape, whatever the rules worker is at.
ConfigWorkerPanics ==
  /\ phase = "running"
  /\ badScrape
  /\ Die
  /\ UNCHANGED <<fails, crashes>>

\* The worker takes a key.  The sync it starts does not depend on it.
ProcessNextWorkItem(k) ==
  /\ phase = "running" /\ pc = "idle"
  /\ Get(k)
  /\ pc' = "list"
  /\ UNCHANGED <<informerVars, phase, snap, todo, changed, lastErr,
                 outVars, promVars, restVars>>

\* The lister returns what is in the cache.
ListRuleGroups ==
  /\ pc = "list"
  /\ snap' = cache
  /\ todo' = Present(cache)
  /\ changed' = FALSE
  /\ missed' = {}
  /\ pc' = "status"
  /\ UNCHANGED <<api, cache, unlisted, notif, removed, edits, queueVars,
                 phase, lastErr, outVars, promVars, restVars>>

-----------------------------------------------------------------------------
(***************************************************************************)
(* Conversion and status.                                                  *)
(***************************************************************************)
ErrorsOf(s) == IF ClassOf(s) = "ok" THEN << >> ELSE <<s>>

\* The status updatergstatus computes: this sync's errors after those the
\* object carries already, and the rules counted in the spec.
WithStatus(o) == [o EXCEPT !.errs = @ \o ErrorsOf(o.spec),
                           !.count = RuleCountOf(o.spec)]

\* One iteration of the loop: the status goes to the API server only if it
\* differs from the cached one; the server takes it only if the object has not
\* changed since, and is not too large.  The outcome is ignored.
UpdateRGStatus(k) ==
  /\ pc = "status"
  /\ k \in todo
  /\ todo' = todo \ {k}
  /\ LET o == WithStatus(snap[k])
     IN  \/ /\ api[k] = snap[k] /\ Len(o.errs) <= MaxStatusErrs
            /\ api' = [api EXCEPT ![k] = o]
            /\ UNCHANGED fails
         \/ /\ o # snap[k] /\ (api[k] # snap[k] \/ Len(o.errs) > MaxStatusErrs)
            /\ UNCHANGED <<api, fails>>
         \/ /\ o = snap[k]
            /\ UNCHANGED <<api, fails>>
         \/ /\ o # snap[k]
            /\ Fail
            /\ UNCHANGED api
  /\ UNCHANGED <<cache, unlisted, notif, missed, removed, edits, queueVars,
                 phase, pc, snap, changed, lastErr, outVars, promVars,
                 crashes, configVars>>

Unconvertible == {k \in Present(snap) : ClassOf(snap[k].spec) = "nil"}

\* Slip: the statuses are updated beside the sync, which does not wait.
RenderRulesEarly ==
  /\ pc = "status"
  /\ Unconvertible = {}
  /\ pc' = "getcm"
  /\ UNCHANGED <<informerVars, queueVars, phase, snap, todo, changed, lastErr,
                 outVars, promVars, restVars>>

\* The groups are dereferenced and marshalled.
RenderRules ==
  /\ pc = "status" /\ todo = {}
  /\ Unconvertible = {}
  /\ pc' = "getcm"
  /\ UNCHANGED <<informerVars, queueVars, phase, snap, todo, changed, lastErr,
                 outVars, promVars, restVars>>

\* A group whose conversion failed is a nil pointer, and to dereference it ends
\* the process: HandleCrash logs the panic and panics again.
Panic ==
  /\ pc = "status" /\ todo = {}
  /\ Unconvertible # {}
  /\ Die
  /\ UNCHANGED <<fails, crashes>>

-----------------------------------------------------------------------------
(***************************************************************************)
(* updateConfigMap.                                                        *)
(***************************************************************************)
\* A step of the sync that changes nothing but pc.
Goto(label) ==
  /\ pc' = label
  /\ UNCHANGED <<phase, changed, lastErr, queueVars>>

\* The call fails: syncRuleHandler returns the flag it has and the error.
FailSync == Fail /\ ReturnErr(changed) /\ UNCHANGED changed

GetConfigMap ==
  /\ pc = "getcm"
  /\ \/ ~HasCM /\ Goto("readfile") /\ UNCHANGED fails
     \/ /\ HasCM
        /\ \/ cm = NoCM /\ Goto("createcm") /\ UNCHANGED fails
           \/ cm = Render(snap) /\ Goto("readfile") /\ UNCHANGED fails
           \/ cm \notin {NoCM, Render(snap)} /\ Goto("updatecm")
              /\ UNCHANGED fails
           \/ FailSync
  /\ UNCHANGED <<informerVars, snap, todo, outVars, promVars,
                 crashes, configVars>>

CreateConfigMap ==
  /\ pc = "createcm"
  /\ \/ cm' = NoKey /\ Goto("updatecm") /\ UNCHANGED fails
     \/ cm' \in {cm, NoKey} /\ FailSync
  /\ UNCHANGED <<informerVars, snap, todo, file, mount, promVars,
                 crashes, configVars>>

\* An update that fails may have been applied: its answer can be lost.
UpdateConfigMap ==
  /\ pc = "updatecm"
  /\ \/ /\ cm' = Render(snap)
        /\ changed' = TRUE
        /\ pc' = "readfile"
        /\ UNCHANGED <<phase, lastErr, queueVars, fails>>
     \/ /\ cm' \in {cm, Render(snap)}
        /\ FailSync
  /\ UNCHANGED <<informerVars, snap, todo, file, mount, promVars,
                 crashes, configVars>>

-----------------------------------------------------------------------------
(***************************************************************************)
(* updateFile.                                                             *)
(***************************************************************************)
\* Slip: a file that is there is taken to be complete.
ReadFileTrustsTorn ==
  /\ pc = "readfile"
  /\ IF file \in {Torn, Render(snap)}
     THEN ReturnOK(changed) /\ UNCHANGED <<changed, fails>>
     ELSE Goto("writefile") /\ UNCHANGED fails
  /\ UNCHANGED <<informerVars, snap, todo, outVars, promVars,
                 crashes, configVars>>

ReadFile ==
  /\ pc = "readfile"
  /\ \/ /\ ~HasFile \/ file = Render(snap)
        /\ ReturnOK(changed)
        /\ UNCHANGED <<changed, fails>>
     \/ HasFile /\ file # Render(snap) /\ Goto("writefile") /\ UNCHANGED fails
     \/ HasFile /\ FailSync
  /\ UNCHANGED <<informerVars, snap, todo, outVars, promVars,
                 crashes, configVars>>

\* WriteFile opens the file, which truncates it ...
TruncateFile ==
  /\ pc = "writefile"
  /\ \/ file' = Torn /\ Goto("writing") /\ UNCHANGED fails
     \/ file' = file /\ FailSync
  /\ UNCHANGED <<informerVars, snap, todo, cm, mount, promVars,
                 crashes, configVars>>

\* ... then writes it.  An error may come before or after the last byte; if the
\* flag is then dropped with it, nothing will reload what was written.
WriteFile ==
  /\ pc = "writing"
  /\ \/ /\ file' = Render(snap)
        /\ changed' = TRUE
        /\ ReturnOK(TRUE)
        /\ UNCHANGED <<lost, fails>>
     \/ /\ file' \in {Torn, Render(snap)}
        /\ FailSync
        /\ lost' = IF file' = Torn \/ pc' = "reload" THEN lost
                   ELSE lost \cup {"error"}
  /\ UNCHANGED <<informerVars, snap, todo, cm, mount, prom, inflight,
                 crashes, configVars>>

-----------------------------------------------------------------------------
(***************************************************************************)
(* Reloads, Prometheus and the environment.                                *)
(***************************************************************************)
\* Reload sleeps, then starts a goroutine for the request.  The key is
\* released only now.
Reload ==
  /\ pc = "reload"
  /\ inflight' = inflight + 1
  /\ Finish(lastErr)
  /\ UNCHANGED <<informerVars, snap, todo, changed, outVars, prom, lost,
                 restVars>>

\* The config worker uses the same Reloader.
OtherReload ==
  /\ phase = "running"
  /\ otherReloads < MaxOtherReloads
  /\ otherReloads' = otherReloads + 1
  /\ inflight' = inflight + 1
  /\ UNCHANGED <<informerVars, queueVars, syncVars, outVars, prom, lost,
                 badScrape, fails, crashes>>

\* An attempt of a reload succeeds: Prometheus runs what its source holds.
PromLoads ==
  /\ inflight > 0
  /\ MayLoad(Source)
  /\ prom' = Source
  /\ inflight' = inflight - 1
  /\ lost' = {}
  /\ UNCHANGED <<informerVars, queueVars, syncVars, outVars, restVars>>

\* The last attempt of a reload fails: Prometheus refuses the rules or is not
\* reached.
ReloadGivesUp ==
  /\ inflight > 0
  /\ \/ MayRefuse(Source) /\ UNCHANGED fails
     \/ Fail
  /\ inflight' = inflight - 1
  /\ lost' = IF prom = Source THEN lost ELSE lost \cup {"gaveup"}
  /\ UNCHANGED <<informerVars, queueVars, syncVars, outVars, prom,
                 crashes, configVars>>

\* The kubelet mounts the ConfigMap anew.
Propagate ==
  /\ ~HasFile /\ mount # cm
  /\ mount' = cm
  /\ UNCHANGED <<informerVars, queueVars, syncVars, cm, file, promVars,
                 restVars>>

Crash ==
  /\ phase # "down"
  /\ crashes < MaxCrashes
  /\ crashes' = crashes + 1
  /\ Die
  /\ UNCHANGED fails

-----------------------------------------------------------------------------
others == <<syncVars, outVars, promVars, restVars>>

\* A user makes a Scrape one whose conversion panics, or repairs or deletes it,
\* and the config half's cache has it.
EditScrape ==
  /\ edits < MaxEdits
  /\ edits' = edits + 1
  /\ badScrape' = ~badScrape
  /\ UNCHANGED <<api, cache, unlisted, notif, missed, removed, queueVars,
                 syncVars, outVars, promVars, otherReloads, fails, crashes>>

EditRuleGroup(k) == Edit(k) /\ UNCHANGED others
ObserveRuleGroup(k) == phase # "down" /\ Observe(k) /\ UNCHANGED others
ResyncRuleGroups == phase # "down" /\ Resync /\ UNCHANGED others
HandleNotification(n) == enqueuerule(n) /\ UNCHANGED others
QueueDelayElapses(k) == Mature(k) /\ UNCHANGED <<informerVars, others>>

SyncRules ==
  \/ ListRuleGroups
  \/ \E k \in Keys : UpdateRGStatus(k)
  \/ RenderRules \/ Panic
  \/ GetConfigMap \/ CreateConfigMap \/ UpdateConfigMap
  \/ ReadFile \/ TruncateFile \/ WriteFile
  \/ Reload

Next ==
  \/ \E k \in Keys : \/ EditRuleGroup(k)
                     \/ ObserveRuleGroup(k)
                     \/ QueueDelayElapses(k)
                     \/ ProcessNextWorkItem(k)
  \/ ResyncRuleGroups
  \/ \E n \in Notifications : HandleNotification(n)
  \/ EditScrape
  \/ Start \/ WaitForCacheSync \/ FirstConfigSync \/ ConfigWorkerPanics
  \/ SyncRules
  \/ OtherReload \/ PromLoads \/ ReloadGivesUp \/ Propagate
  \/ Crash

Spec == Init /\ [][Next]_vars

\* What goes on as long as the process is up, its library goroutines run, its
\* pod is restarted, and a reload request is answered or times out.  The first
\* config sync ends, if only by ending the process: whether the rules are synced
\* after it is not assumed.  Nothing is assumed of users and of failures.
Fairness ==
  /\ WF_vars(\E k \in Keys : ObserveRuleGroup(k))
  /\ WF_vars(\E n \in Notifications : HandleNotification(n))
  /\ WF_vars(\E k \in Keys : QueueDelayElapses(k))
  /\ WF_vars(ResyncRuleGroups)
  /\ WF_vars(Start)
  /\ WF_vars(WaitForCacheSync)
  /\ WF_vars(FirstConfigSync)
  /\ WF_vars(\E k \in Keys : ProcessNextWorkItem(k))
  /\ WF_vars(SyncRules)
  /\ WF_vars(PromLoads \/ ReloadGivesUp)
  /\ WF_vars(Propagate)

FairSpec == Spec /\ Fairness

-----------------------------------------------------------------------------
(***************************************************************************)
(* Properties.                                                             *)
(***************************************************************************)
\* Nothing is queued, notified or being synced.
Quiet ==
  /\ phase = "running" /\ pc = "idle"
  /\ \A k \in Keys : ~Pending(k)

Published(objs) ==
  /\ HasCM => cm = Render(objs)
  /\ HasFile => file = Render(objs)

\* When the controller has nothing left to do and its last sync did not fail,
\* what it has published is what its cache says: no change slips between the
\* list of one sync and the Get of the next.  The one exception the code makes
\* is a deletion of which only a tombstone was delivered (enqueuerule drops
\* it), until another event causes a sync.
FreshWhenQuiet == Quiet /\ ~lastErr /\ missed = {} => Published(cache)

\* Whenever no reload is in flight or about to start, Prometheus runs the rules
\* file, whatever was written and reloaded in whatever order by this worker and
\* the config worker, unless a write stopped half way, a crash or a failed
\* write came between the change and its reload, or the reload was given up.
ReloadCovers ==
  HasFile /\ file # Torn /\ pc # "reload" /\ inflight = 0 /\ lost = {}
    => prom = file

\* Seen as the promise of ReloadPromise: the Prometheus that reads the file ...
Servers == IF HasFile THEN {"prometheus"} ELSE {}

\* ... is to be reloaded by a goroutine on its way, by the sync that is about to
\* start one, or by the one that has the file open ...
ReloadPending == pc \in {"writing", "reload"} \/ inflight > 0

\* ... and is given up when `lost' says so or a torn file was left behind.
WrittenOff == lost # {} \/ (file = Torn /\ prom # Torn /\ pc # "writing")

ReloadPromised == INSTANCE ReloadPromise
  WITH Targets <- Servers,
       MayFail <- TRUE,
       current <- file,
       loaded <- [t \in Servers |-> prom],
       owed <- IF ReloadPending THEN Servers ELSE {},
       lost <- IF WrittenOff THEN Servers ELSE {}

\* Step by step, the rules half keeps the promise: whoever changes the file owes
\* Prometheus a reload, or has lost it to an error; the debt outlives the sync,
\* the reloads of the other worker and earlier reloads that are still tried, and
\* ends by a load of the file as it then is, or by being given up.
KeepsReloadPromise == ReloadPromised!Spec

\* A restart with a half filled cache, a crash in the middle of a sync, a late
\* or torn load: none of them withdraws a rule group that is published, or
\* that Prometheus runs, and that no user has ever deleted.
Keeps(old, new, k) ==
  old \in Renderings /\ new \in Renderings /\ old[k] # Absent => new[k] # Absent

NoWithdrawal ==
  [][\A k \in Keys \ removed' : Keeps(cm, cm', k) /\ Keeps(prom, prom', k)]_vars

-----------------------------------------------------------------------------
\* The three ways the controller never catches up: a group that cannot be
\* converted stops every sync; a Scrape whose conversion panics ends each new
\* process before it comes to the rules; and with no object left no resync comes
\* to repair a deletion that was not noticed or a sync that failed.
NeverCatchesUp ==
  \/ \E k \in Present(api) : ClassOf(api[k].spec) = "nil"
  \/ badScrape
  \/ Present(api) = {} /\ (missed # {} \/ lastErr)

\* Users pause, and what is published becomes and stays what they asked for,
\* across failed calls that nothing retries, lost deletions and crashes.
Converges == <>[](NeverCatchesUp \/ Published(api))

\* ... and Prometheus comes to run it, unless it refuses the rules or the last
\* reload was lost.
PromConverges ==
  HasFile => <>[](NeverCatchesUp \/ lost # {} \/ prom = Render(api))

\* The rule count in every status becomes right although a refused status
\* update is ignored, unless the errors have made the object too large, or the
\* panics of the config half let no sync of the rules begin.
StatusConverges ==
  <>[](\/ badScrape
       \/ \A k \in Present(api) :
            \/ Len(WithStatus(api[k]).errs) > MaxStatusErrs
            \/ api[k].count = RuleCountOf(api[k].spec))

-----------------------------------------------------------------------------
(***************************************************************************)
(* What the repository says of itself and the code does not do: each of    *)
(* these is violated.                                                      *)
(***************************************************************************)
\* types.go:39 says "RuleGroupStatus is the status for a rule group resource":
\* once all is quiet and every change is seen, a valid group has no errors.
StatusIsOfTheResource ==
  Quiet /\ cache = api =>
    \A k \in Present(api) : ClassOf(api[k].spec) = "ok" => api[k].errs = << >>

\* main.go:117 says "On config change, Reload": once all is quiet and no reload
\* is in flight or has been given up, Prometheus runs the file.
ReloadOnConfigChange ==
  HasFile /\ Quiet /\ file # Torn /\ inflight = 0 /\ "gaveup" \notin lost
    => prom = file

=============================================================================
