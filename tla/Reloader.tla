------------------------------ MODULE Reloader ------------------------------
(***************************************************************************)
(* The reloader (reloader.go) and its callers: the two workers, each of    *)
(* which publishes a change and calls Reload.  Reload sleeps, then starts  *)
(* a goroutine for the configured host and one for each ready address of   *)
(* each subset of the endpoints; a goroutine repeats the request until it  *)
(* is answered with a status below 500 or its retries are used up.  Calls  *)
(* of the two workers and the goroutines of earlier calls overlap freely.  *)
(*                                                                         *)
(* Abstracted: the length of delay and back-off; what a configuration      *)
(* says (they are numbered); the propagation of what is published (a load  *)
(* gets the configuration published last).                                 *)
(***************************************************************************)
EXTENDS Integers, FiniteSets, Bags

CONSTANTS
  Workers,                  \* goroutines that call Reload
  Host,                     \* the Prometheus named by reload.host
  Pods,                     \* those behind the endpoints
  UsesHost, UsesEndpoints,  \* which of the two are configured
  Retries,                  \* reload.retries
  MaxSubsets,               \* bound: subsets that list each pod as ready
  MaxChanges,               \* bound: configurations published
  MaxFlips                  \* bound: changes of a pod's readiness

ASSUME TargetsAssumption == Host \notin Pods
ASSUME FlagsAssumption == UsesHost \in BOOLEAN /\ UsesEndpoints \in BOOLEAN
ASSUME RetriesAssumption == Retries \in Int
ASSUME SubsetsAssumption == MaxSubsets \in [Pods -> Nat]

VARIABLES
  current,                  \* number of the configuration published last
  loaded,                   \* number of the one each target loaded last
  pc,                       \* where each worker is in Reload
  going,                    \* bag: the goroutines, each a target and the
                            \* retries it has left
  ready,                    \* in how many subsets each pod is ready
  lost,                     \* history: targets whose last reload failed
  flips

vars == <<current, loaded, pc, going, ready, lost, flips>>

Targets == (IF UsesHost THEN {Host} ELSE {})
             \cup (IF UsesEndpoints THEN Pods ELSE {})

\* The values of a goroutine's `retries': it gives up with -1, or with what it
\* was started with.
Left == (-1 .. Retries) \cup {Retries}

Readiness ==
  {f \in [Pods -> UNION {0 .. MaxSubsets[p] : p \in Pods}] :
     \A p \in Pods : f[p] <= MaxSubsets[p]}

TypeOK ==
  /\ current \in Nat
  /\ loaded \in [Targets -> Nat]
  /\ pc \in [Workers -> {"idle", "sleep", "endpoints"}]
  /\ IsABag(going) /\ BagToSet(going) \subseteq Targets \X Left
  /\ ready \in Readiness
  /\ lost \in SUBSET Targets
  /\ flips \in Nat

Init ==
  /\ current = 0
  /\ loaded = [t \in Targets |-> 0]
  /\ pc = [w \in Workers |-> "idle"]
  /\ going = EmptyBag
  /\ ready \in Readiness
  /\ lost = {}
  /\ flips = 0

-----------------------------------------------------------------------------
\* A worker has published a change and calls Reload, which sleeps first.
CallReload(w) ==
  /\ current < MaxChanges
  /\ pc[w] = "idle"
  /\ current' = current + 1
  /\ pc' = [pc EXCEPT ![w] = "sleep"]
  /\ UNCHANGED <<loaded, going, ready, lost, flips>>

\* The delay is over: reloadURL, if there is a host.
ReloadURL(w) ==
  /\ pc[w] = "sleep"
  /\ \/ UsesHost /\ going' = going (+) SetToBag({<<Host, Retries>>})
     \/ ~UsesHost /\ UNCHANGED going
  /\ pc' = [pc EXCEPT ![w] = IF UsesEndpoints THEN "endpoints" ELSE "idle"]
  /\ UNCHANGED <<current, loaded, ready, lost, flips>>

Ready == {p \in Pods : ready[p] > 0}

\* A goroutine for each address of each subset that is ready.
GoReady == [g \in Ready \X {Retries} |-> ready[g[1]]]

\* Slip: the loop over the addresses ends with the first.
ReloadEndpointsFirst(w) ==
  /\ pc[w] = "endpoints"
  /\ \/ /\ \/ \E p \in Ready : going' = going (+) SetToBag({<<p, Retries>>})
           \/ Ready = {} /\ UNCHANGED going
        /\ lost' = lost \cup (Pods \ Ready)
     \/ /\ lost' = lost \cup Pods
        /\ UNCHANGED going
  /\ pc' = [pc EXCEPT ![w] = "idle"]
  /\ UNCHANGED <<current, loaded, ready, flips>>

\* reloadEndpoints: the ready addresses are reloaded, the others are not; if
\* the endpoints cannot be read nobody is.
ReloadEndpoints(w) ==
  /\ pc[w] = "endpoints"
  /\ \/ /\ going' = going (+) GoReady
        /\ lost' = lost \cup (Pods \ Ready)
     \/ /\ lost' = lost \cup Pods
        /\ UNCHANGED going
  /\ pc' = [pc EXCEPT ![w] = "idle"]
  /\ UNCHANGED <<current, loaded, ready, flips>>

-----------------------------------------------------------------------------
Runs(t, r) == BagIn(<<t, r>>, going)

\* A goroutine for t with r retries left ends.
Ends(t, r) == going' = going (-) SetToBag({<<t, r>>})

\* The request is answered with a status below 500 by a Prometheus that has
\* loaded the configuration.
ReloadSucceeds(t, r) ==
  /\ r >= 0 /\ Runs(t, r)
  /\ loaded' = [loaded EXCEPT ![t] = current]
  /\ lost' = lost \ {t}
  /\ Ends(t, r)
  /\ UNCHANGED <<current, pc, ready, flips>>

\* Answered with a status below 500 that is not a success, as Prometheus does
\* when its lifecycle API is off, or not a valid request at all: not retried.
\* (The code logs such an answer as a reload; the target has not loaded.)
ReloadRejected(t, r) ==
  /\ r >= 0 /\ Runs(t, r)
  /\ lost' = lost \cup {t}
  /\ Ends(t, r)
  /\ UNCHANGED <<current, loaded, pc, ready, flips>>

\* A goroutine for t that had r retries left has q.
Retry(t, r, q) ==
  going' = (going (-) SetToBag({<<t, r>>})) (+) SetToBag({<<t, q>>})

\* Slip: the counter starts again when it is used up.
RetriesForEver(t, r) ==
  /\ r >= 0 /\ Runs(t, r)
  /\ Retry(t, r, IF r = 0 THEN Retries ELSE r - 1)
  /\ UNCHANGED <<current, loaded, pc, ready, lost, flips>>

\* Slip: the attempts go on until the counter is below -1.
RetriesOnceMore(t, r) ==
  /\ r >= -1 /\ Runs(t, r)
  /\ Retry(t, r, r - 1)
  /\ UNCHANGED <<current, loaded, pc, ready, lost, flips>>

\* No answer, or one of 500 and above: one retry less.
ReloadFails(t, r) ==
  /\ r >= 0 /\ Runs(t, r)
  /\ Retry(t, r, r - 1)
  /\ UNCHANGED <<current, loaded, pc, ready, lost, flips>>

\* After the back-off no retry is left.
GivesUp(t, r) ==
  /\ r < 0 /\ Runs(t, r)
  /\ lost' = lost \cup {t}
  /\ Ends(t, r)
  /\ UNCHANGED <<current, loaded, pc, ready, flips>>

\* A pod becomes ready or ceases to be, in one subset or in several.
Flip(p) ==
  /\ flips < MaxFlips
  /\ flips' = flips + 1
  /\ \E n \in 0 .. MaxSubsets[p] : ready' = [ready EXCEPT ![p] = n]
  /\ UNCHANGED <<current, loaded, pc, going, lost>>

Attempt(t, r) ==
  \/ ReloadSucceeds(t, r) \/ ReloadRejected(t, r)
  \/ ReloadFails(t, r) \/ GivesUp(t, r)

Next ==
  \/ \E w \in Workers : CallReload(w) \/ ReloadURL(w) \/ ReloadEndpoints(w)
  \/ \E t \in Targets, r \in Left : Attempt(t, r)
  \/ \E p \in Pods : Flip(p)

Spec == Init /\ [][Next]_vars

\* A delay ends, and a request is answered or times out.
Fairness ==
  /\ \A w \in Workers : WF_vars(ReloadURL(w) \/ ReloadEndpoints(w))
  /\ \A t \in Targets, r \in Left : WF_vars(Attempt(t, r))

FairSpec == Spec /\ Fairness

-----------------------------------------------------------------------------
(***************************************************************************)
(* Properties.                                                             *)
(***************************************************************************)
\* The targets that will still be reloaded: by a goroutine on its way, or by a
\* caller that has yet to start one.
Owed ==
  {t \in Targets :
     \/ \E r \in Left : Runs(t, r)
     \/ \E w \in Workers : pc[w] = "sleep"
     \/ t \in Pods /\ \E w \in Workers : pc[w] = "endpoints"}

Promised == INSTANCE ReloadPromise WITH owed <- Owed, MayFail <- FALSE

\* The reloader keeps the promise: whatever calls, goroutines and retries
\* overlap, a target leaves Owed only by loading what is published at that
\* moment or by being written off.
KeepsPromise == Promised!Spec

\* Every reload comes to an end: callers return and goroutines stop retrying.
Settles == <>[](Owed = {} /\ \A w \in Workers : pc[w] = "idle")

=============================================================================
