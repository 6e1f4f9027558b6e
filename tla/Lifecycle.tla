----------------------------- MODULE Lifecycle -----------------------------
(***************************************************************************)
(* The life of the process, main.go, signals.go, Controller.Run and        *)
(* selfRegistration (webhook.go), with several replicas that register one  *)
(* and the same webhook configuration.                                     *)
(*                                                                         *)
(* A process has the goroutine of Run, the HTTP server, the goroutine that *)
(* waits for signals, the workers, and main itself, which waits for the    *)
(* first error of Run and the server.  A call to the API server that fails *)
(* may have been carried out.                                              *)
(*                                                                         *)
(* Abstracted: what a sync does (RuleSync, ScrapeSync): it is under way or *)
(* it is not; what the webhook answers (Admission); start-up errors that   *)
(* end a process before it has done anything.                              *)
(***************************************************************************)
EXTENDS Naturals

CONSTANTS
  Replicas,
  MaxSignals, MaxCrashes, MaxFails  \* bounds

ASSUME ReplicasAssumption == Replicas # {}

VARIABLES
  webhook,                  \* the ValidatingWebhookConfiguration exists
  pc,                       \* where the goroutine of Run is: "down" before the
                            \*   process starts, then "sleep", "delete",
                            \*   "create", "caches", "initial", "running", and
                            \*   "returned" (nil) or "failed" (an error)
  serving,                  \* the HTTP server is up
  stop,                     \* stopCh is closed
  busy,                     \* a worker is in a sync
  gaveUp,                   \* history: a call failed, is not repeated, and has
                            \*   left no webhook
  signals, crashes, fails

boundVars == <<signals, crashes, fails>>
vars == <<webhook, pc, serving, stop, busy, gaveUp, boundVars>>

PCs == {"down", "sleep", "delete", "create", "caches", "initial", "running",
        "returned", "failed"}

\* With the types: only a process whose caches are full is in a sync, and one
\* that is not there has no server and no stop channel.
TypeOK ==
  /\ webhook \in BOOLEAN /\ gaveUp \in BOOLEAN
  /\ pc \in [Replicas -> PCs]
  /\ serving \in [Replicas -> BOOLEAN]
  /\ stop \in [Replicas -> BOOLEAN]
  /\ busy \in [Replicas -> BOOLEAN]
  /\ signals \in Nat /\ crashes \in Nat /\ fails \in Nat
  /\ \A r \in Replicas :
       /\ busy[r] => pc[r] \in {"initial", "running", "returned"}
       /\ pc[r] = "down" => ~serving[r] /\ ~stop[r]

Init ==
  /\ webhook \in BOOLEAN /\ gaveUp = FALSE
  /\ pc = [r \in Replicas |-> "down"]
  /\ serving = [r \in Replicas |-> FALSE]
  /\ stop = [r \in Replicas |-> FALSE]
  /\ busy = [r \in Replicas |-> FALSE]
  /\ signals = 0 /\ crashes = 0 /\ fails = 0

Goto(r, label) == pc' = [pc EXCEPT ![r] = label]

Fail == fails < MaxFails /\ fails' = fails + 1

\* The process of r ends, in whatever state its goroutines are.
End(r) ==
  /\ Goto(r, "down")
  /\ serving' = [serving EXCEPT ![r] = FALSE]
  /\ stop' = [stop EXCEPT ![r] = FALSE]
  /\ busy' = [busy EXCEPT ![r] = FALSE]
  /\ UNCHANGED <<webhook, gaveUp>>

\* A process is started, or started again.
Start(r) ==
  /\ pc[r] = "down"
  /\ Goto(r, "sleep")
  /\ serving' = [serving EXCEPT ![r] = TRUE]
  /\ UNCHANGED <<webhook, stop, busy, gaveUp, boundVars>>

-----------------------------------------------------------------------------
(***************************************************************************)
(* selfRegistration.  Whatever its error, Run goes on to the caches.       *)
(***************************************************************************)
\* After 10 s; an error of the Get, whichever, counts as `not there'.
GetWebhook(r) ==
  /\ pc[r] = "sleep"
  /\ \/ webhook /\ Goto(r, "delete") /\ UNCHANGED fails
     \/ ~webhook /\ Goto(r, "create") /\ UNCHANGED fails
     \/ Fail /\ Goto(r, "create")
  /\ UNCHANGED <<webhook, serving, stop, busy, gaveUp, signals, crashes>>

\* Slip: the old webhook is deleted and the new one left to the next start.
DeleteOnly(r) ==
  /\ pc[r] = "delete"
  /\ webhook' = FALSE
  /\ Goto(r, "caches")
  /\ UNCHANGED <<serving, stop, busy, gaveUp, boundVars>>

\* Another replica may have deleted it: then that one creates it.
DeleteWebhook(r) ==
  /\ pc[r] = "delete"
  /\ \/ /\ webhook /\ webhook' = FALSE
        /\ Goto(r, "create")
        /\ UNCHANGED <<gaveUp, fails>>
     \/ /\ ~webhook
        /\ Goto(r, "caches")
        /\ UNCHANGED <<webhook, gaveUp, fails>>
     \/ /\ Fail
        /\ webhook' \in {webhook, FALSE}
        /\ gaveUp' = (gaveUp \/ ~webhook')
        /\ Goto(r, "caches")
  /\ UNCHANGED <<serving, stop, busy, signals, crashes>>

\* Slip: a webhook that another replica has created meanwhile is taken for the
\* old one and deleted.
CreateThenDelete(r) ==
  /\ pc[r] = "create"
  /\ Goto(r, "caches")
  /\ webhook' = ~webhook
  /\ UNCHANGED <<serving, stop, busy, gaveUp, boundVars>>

\* Another replica may have created it.
CreateWebhook(r) ==
  /\ pc[r] = "create"
  /\ Goto(r, "caches")
  /\ \/ webhook' = TRUE /\ gaveUp' = FALSE /\ UNCHANGED fails
     \/ /\ Fail
        /\ webhook' \in {webhook, TRUE}
        /\ gaveUp' = (gaveUp \/ ~webhook')
  /\ UNCHANGED <<serving, stop, busy, signals, crashes>>

-----------------------------------------------------------------------------
(***************************************************************************)
(* The rest of Run.                                                        *)
(***************************************************************************)
\* Slip: the sync is begun before it is known whether the caches are full.
SyncBeforeCaches(r) ==
  /\ pc[r] = "caches"
  /\ busy' = [busy EXCEPT ![r] = TRUE]
  /\ \/ Goto(r, "initial")
     \/ stop[r] /\ Goto(r, "failed")
  /\ UNCHANGED <<webhook, serving, stop, gaveUp, boundVars>>

\* Closing stopCh makes WaitForCacheSync give up.
WaitForCacheSync(r) ==
  /\ pc[r] = "caches"
  /\ \/ Goto(r, "initial") /\ busy' = [busy EXCEPT ![r] = TRUE]
     \/ stop[r] /\ Goto(r, "failed") /\ UNCHANGED busy
  /\ UNCHANGED <<webhook, serving, stop, gaveUp, boundVars>>

\* The first sync is over, the workers are started.
InitialSync(r) ==
  /\ pc[r] = "initial"
  /\ Goto(r, "running")
  /\ busy' = [busy EXCEPT ![r] = FALSE]
  /\ UNCHANGED <<webhook, serving, stop, gaveUp, boundVars>>

\* The workers go on after Run has returned, until their queue is empty.
WorkerSyncs(r) ==
  /\ pc[r] \in {"running", "returned"}
  /\ busy' = [busy EXCEPT ![r] = ~@]
  /\ UNCHANGED <<webhook, pc, serving, stop, gaveUp, boundVars>>

RunReturns(r) ==
  /\ pc[r] = "running" /\ stop[r]
  /\ Goto(r, "returned")
  /\ UNCHANGED <<webhook, serving, stop, busy, gaveUp, boundVars>>

-----------------------------------------------------------------------------
(***************************************************************************)
(* Signals, the server and main.                                           *)
(***************************************************************************)
\* The first signal closes stopCh, the second ends the process.
Signal(r) ==
  /\ pc[r] # "down"
  /\ signals < MaxSignals /\ signals' = signals + 1
  /\ \/ /\ ~stop[r] /\ stop' = [stop EXCEPT ![r] = TRUE]
        /\ UNCHANGED <<webhook, pc, serving, busy, gaveUp>>
     \/ stop[r] /\ End(r)
  /\ UNCHANGED <<crashes, fails>>

\* Slip: the server is not told to stop.
ShutdownServerNever(r) == FALSE /\ UNCHANGED vars

\* stopCh is closed: Shutdown makes ListenAndServeTLS return ErrServerClosed.
ShutdownServer(r) ==
  /\ stop[r] /\ serving[r]
  /\ serving' = [serving EXCEPT ![r] = FALSE]
  /\ UNCHANGED <<webhook, pc, stop, busy, gaveUp, boundVars>>

\* ListenAndServeTLS fails of itself: the address, the certificate.
ServerFails(r) ==
  /\ serving[r]
  /\ Fail
  /\ serving' = [serving EXCEPT ![r] = FALSE]
  /\ UNCHANGED <<webhook, pc, stop, busy, gaveUp, signals, crashes>>

\* The group has an error and its context is done: Fatalf.  An error is never
\* missing, as ErrServerClosed is one, and nil from Run is not enough.
Fatal(r) ==
  /\ pc[r] # "down"
  /\ ~serving[r] \/ pc[r] = "failed"
  /\ End(r)
  /\ UNCHANGED boundVars

\* The goroutine that refreshes the Google token gets none: Fatalf.
TokenRefreshFails(r) ==
  /\ pc[r] # "down"
  /\ Fail
  /\ End(r)
  /\ UNCHANGED <<signals, crashes>>

Crash(r) ==
  /\ pc[r] # "down"
  /\ crashes < MaxCrashes /\ crashes' = crashes + 1
  /\ End(r)
  /\ UNCHANGED <<signals, fails>>

-----------------------------------------------------------------------------
Run(r) ==
  \/ GetWebhook(r) \/ DeleteWebhook(r) \/ CreateWebhook(r)
  \/ WaitForCacheSync(r) \/ InitialSync(r) \/ RunReturns(r)

Next ==
  \E r \in Replicas :
    \/ Start(r) \/ Run(r) \/ WorkerSyncs(r)
    \/ Signal(r) \/ ShutdownServer(r) \/ ServerFails(r) \/ Fatal(r)
    \/ TokenRefreshFails(r) \/ Crash(r)

Spec == Init /\ [][Next]_vars

\* Kubernetes starts a process that has ended; a goroutine that can go on does.
Fairness ==
  \A r \in Replicas : /\ WF_vars(Start(r)) /\ WF_vars(Run(r))
                      /\ WF_vars(ShutdownServer(r)) /\ WF_vars(Fatal(r))

FairSpec == Spec /\ Fairness

-----------------------------------------------------------------------------
(***************************************************************************)
(* Properties.                                                             *)
(***************************************************************************)
\* While there is no webhook, some replica is still going to create it: of the
\* replicas that delete what another has just created, find it deleted by
\* another or find it created by another, not all give up.  Only a call that
\* fails, and is not repeated, can leave none.
SomebodyRegisters ==
  webhook \/ gaveUp \/ \E r \in Replicas : pc[r] \in {"down", "sleep", "create"}

\* Once the replicas are left alone there is a webhook, unless a call failed.
WebhookComes == <>[](webhook \/ gaveUp)

\* A signal ends the process, whichever step of its start it meets.
SignalEnds == \A r \in Replicas : stop[r] ~> pc[r] = "down"

\* main.go:145 says "set up signals so we handle the first shutdown signal
\* gracefully": a process that ends of one signal, without a crash or a failed
\* call, ends neither in the middle of a sync nor of selfRegistration, with the
\* webhook still to be created.  The code violates this: Fatalf waits for nobody.
HandlesSignalGracefully ==
  [][\A r \in Replicas :
       pc[r] # "down" /\ pc'[r] = "down" /\ signals' = signals
         => ~busy[r] /\ pc[r] # "create"]_vars

=============================================================================
