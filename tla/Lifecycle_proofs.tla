-------------------------- MODULE Lifecycle_proofs --------------------------
(***************************************************************************)
(* Proofs about Lifecycle, for any number of replicas, signals, crashes    *)
(* and failed calls.                                                       *)
(***************************************************************************)
EXTENDS Lifecycle, TLAPS

LEMMA InitType == Init => TypeOK
  <1> SUFFICES ASSUME Init PROVE TypeOK
    OBVIOUS
  <1>1. webhook \in BOOLEAN /\ gaveUp \in BOOLEAN
    BY DEF Init
  <1>2. /\ pc \in [Replicas -> PCs]
        /\ serving \in [Replicas -> BOOLEAN]
        /\ stop \in [Replicas -> BOOLEAN]
        /\ busy \in [Replicas -> BOOLEAN]
    BY DEF Init, PCs
  <1>3. signals \in Nat /\ crashes \in Nat /\ fails \in Nat
    BY DEF Init
  <1>4. \A r \in Replicas : ~busy[r] /\ ~serving[r] /\ ~stop[r]
    BY DEF Init
  <1> QED BY <1>1, <1>2, <1>3, <1>4 DEF TypeOK

\* The process of r ends.
LEMMA EndType ==
  ASSUME TypeOK, NEW r \in Replicas, End(r),
         signals' \in Nat, crashes' \in Nat, fails' \in Nat
  PROVE  TypeOK'
  <1>1. webhook' \in BOOLEAN /\ gaveUp' \in BOOLEAN
    BY DEF TypeOK, End
  <1>2. pc' \in [Replicas -> PCs] /\ serving' \in [Replicas -> BOOLEAN]
    BY DEF TypeOK, End, Goto, PCs
  <1>3. stop' \in [Replicas -> BOOLEAN] /\ busy' \in [Replicas -> BOOLEAN]
    BY DEF TypeOK, End
  <1>4. \A q \in Replicas :
          /\ busy'[q] => pc'[q] \in {"initial", "running", "returned"}
          /\ pc'[q] = "down" => ~serving'[q] /\ ~stop'[q]
    BY DEF TypeOK, End, Goto
  <1> QED BY <1>1, <1>2, <1>3, <1>4 DEF TypeOK

LEMMA NextType == TypeOK /\ [Next]_vars => TypeOK'
  <1> SUFFICES ASSUME TypeOK, [Next]_vars PROVE TypeOK'
    OBVIOUS
  <1> USE DEF TypeOK, PCs, Goto, boundVars, Fail
  <1>1. CASE UNCHANGED vars
    BY <1>1 DEF vars
  <1>2. ASSUME NEW r \in Replicas, Start(r) PROVE TypeOK'
    BY <1>2 DEF Start
  <1>3. ASSUME NEW r \in Replicas, GetWebhook(r) PROVE TypeOK'
    BY <1>3 DEF GetWebhook
  <1>4. ASSUME NEW r \in Replicas, DeleteWebhook(r) PROVE TypeOK'
    <2>1. webhook' \in BOOLEAN /\ gaveUp' \in BOOLEAN
      BY <1>4, Zenon DEF DeleteWebhook
    <2>2. \E l \in {"create", "caches"} : pc' = [pc EXCEPT ![r] = l]
      BY <1>4 DEF DeleteWebhook
    <2>3. UNCHANGED <<serving, stop, busy, signals, crashes>>
      BY <1>4, Zenon DEF DeleteWebhook
    <2>4. fails' \in Nat
      <3>1. fails' = fails \/ fails' = fails + 1
        BY <1>4, Zenon DEF DeleteWebhook
      <3> QED BY <3>1
    <2>5. ~busy[r]
      BY <1>4 DEF DeleteWebhook
    <2> QED BY <2>1, <2>2, <2>3, <2>4, <2>5
  <1>5. ASSUME NEW r \in Replicas, CreateWebhook(r) PROVE TypeOK'
    <2>1. webhook' \in BOOLEAN /\ gaveUp' \in BOOLEAN
      BY <1>5, Zenon DEF CreateWebhook
    <2>2. \E l \in {"create", "caches"} : pc' = [pc EXCEPT ![r] = l]
      BY <1>5 DEF CreateWebhook
    <2>3. UNCHANGED <<serving, stop, busy, signals, crashes>>
      BY <1>5, Zenon DEF CreateWebhook
    <2>4. fails' \in Nat
      <3>1. fails' = fails \/ fails' = fails + 1
        BY <1>5, Zenon DEF CreateWebhook
      <3> QED BY <3>1
    <2>5. ~busy[r]
      BY <1>5 DEF CreateWebhook
    <2> QED BY <2>1, <2>2, <2>3, <2>4, <2>5
  <1>6. ASSUME NEW r \in Replicas, WaitForCacheSync(r) PROVE TypeOK'
    BY <1>6 DEF WaitForCacheSync
  <1>7. ASSUME NEW r \in Replicas, InitialSync(r) PROVE TypeOK'
    BY <1>7 DEF InitialSync
  <1>8. ASSUME NEW r \in Replicas, WorkerSyncs(r) PROVE TypeOK'
    BY <1>8 DEF WorkerSyncs
  <1>9. ASSUME NEW r \in Replicas, RunReturns(r) PROVE TypeOK'
    BY <1>9 DEF RunReturns
  <1>10. ASSUME NEW r \in Replicas, Signal(r) PROVE TypeOK'
    <2>1. CASE End(r)
      BY <1>10, <2>1, EndType DEF Signal
    <2>2. CASE ~stop[r] /\ stop' = [stop EXCEPT ![r] = TRUE]
               /\ UNCHANGED <<webhook, pc, serving, busy, gaveUp>>
      BY <1>10, <2>2 DEF Signal
    <2> QED BY <1>10, <2>1, <2>2 DEF Signal
  <1>11. ASSUME NEW r \in Replicas, ShutdownServer(r) PROVE TypeOK'
    BY <1>11 DEF ShutdownServer
  <1>12. ASSUME NEW r \in Replicas, ServerFails(r) PROVE TypeOK'
    BY <1>12 DEF ServerFails
  <1>13. ASSUME NEW r \in Replicas, Fatal(r) PROVE TypeOK'
    BY <1>13, EndType DEF Fatal
  <1>14. ASSUME NEW r \in Replicas, TokenRefreshFails(r) PROVE TypeOK'
    BY <1>14, EndType DEF TokenRefreshFails
  <1>15. ASSUME NEW r \in Replicas, Crash(r) PROVE TypeOK'
    BY <1>15, EndType DEF Crash
  <1> QED
    BY <1>1, <1>2, <1>3, <1>4, <1>5, <1>6, <1>7, <1>8, <1>9, <1>10, <1>11,
       <1>12, <1>13, <1>14, <1>15 DEF Next, Run

\* Every variable keeps its type; only a process whose caches are full is in a
\* sync (Run), and a process that has ended leaves no server (main).
THEOREM TypeCorrect == Spec => []TypeOK
  BY InitType, NextType, PTL DEF Spec

-----------------------------------------------------------------------------
LEMMA InitRegisters == Init => SomebodyRegisters
  BY ReplicasAssumption DEF Init, SomebodyRegisters

\* A replica on its way to a webhook stays on it, or leaves the webhook behind,
\* or writes its call off.
LEMMA NextRegisters ==
  TypeOK /\ SomebodyRegisters /\ [Next]_vars => SomebodyRegisters'
  <1> SUFFICES ASSUME TypeOK, SomebodyRegisters, [Next]_vars
               PROVE  SomebodyRegisters'
    OBVIOUS
  <1> DEFINE OnTheWay(q) == pc[q] \in {"down", "sleep", "create"}
  <1> USE DEF TypeOK, Goto, boundVars
  <1>1. CASE UNCHANGED vars
    BY <1>1 DEF vars, SomebodyRegisters
  \* A step of a replica that was on its way, and is.
  <1>a. ASSUME NEW r \in Replicas, pc'[r] \in {"down", "sleep", "create"}
        PROVE  SomebodyRegisters'
    BY <1>a DEF SomebodyRegisters
  \* A step of a replica that was not on its way and does not touch the webhook.
  <1>b. ASSUME NEW r \in Replicas, ~OnTheWay(r),
               \A q \in Replicas \ {r} : pc'[q] = pc[q],
               UNCHANGED <<webhook, gaveUp>>
        PROVE  SomebodyRegisters'
    BY <1>b DEF SomebodyRegisters
  <1>2. ASSUME NEW r \in Replicas, Start(r) PROVE SomebodyRegisters'
    BY <1>2, <1>a DEF Start
  <1>3. ASSUME NEW r \in Replicas, GetWebhook(r) PROVE SomebodyRegisters'
    <2>1. CASE webhook /\ UNCHANGED webhook
      BY <2>1 DEF SomebodyRegisters
    <2>2. CASE Goto(r, "create")
      BY <2>2, <1>a
    <2> QED BY <1>3, <2>1, <2>2 DEF GetWebhook
  <1>4. ASSUME NEW r \in Replicas, DeleteWebhook(r) PROVE SomebodyRegisters'
    <2>1. CASE Goto(r, "create")
      BY <2>1, <1>a
    <2>2. CASE ~webhook /\ Goto(r, "caches") /\ UNCHANGED <<webhook, gaveUp>>
      BY <1>4, <2>2, <1>b DEF DeleteWebhook
    <2>3. CASE gaveUp' = (gaveUp \/ ~webhook')
      BY <1>4, <2>3 DEF DeleteWebhook, SomebodyRegisters
    <2> QED BY <1>4, <2>1, <2>2, <2>3 DEF DeleteWebhook
  <1>5. ASSUME NEW r \in Replicas, CreateWebhook(r) PROVE SomebodyRegisters'
    BY <1>5 DEF CreateWebhook, SomebodyRegisters
  <1>6. ASSUME NEW r \in Replicas, WaitForCacheSync(r) PROVE SomebodyRegisters'
    BY <1>6, <1>b DEF WaitForCacheSync
  <1>7. ASSUME NEW r \in Replicas, InitialSync(r) PROVE SomebodyRegisters'
    BY <1>7, <1>b DEF InitialSync
  <1>8. ASSUME NEW r \in Replicas, RunReturns(r) PROVE SomebodyRegisters'
    BY <1>8, <1>b DEF RunReturns
  <1>9. CASE UNCHANGED <<webhook, pc, gaveUp>>
    BY <1>9 DEF SomebodyRegisters
  <1>10. ASSUME NEW r \in Replicas, End(r) PROVE SomebodyRegisters'
    BY <1>10, <1>a DEF End
  <1>11. ASSUME NEW r \in Replicas,
                WorkerSyncs(r) \/ Signal(r) \/ ShutdownServer(r)
                  \/ ServerFails(r) \/ Fatal(r) \/ TokenRefreshFails(r)
                  \/ Crash(r)
         PROVE  SomebodyRegisters'
    BY <1>9, <1>10, <1>11
       DEF WorkerSyncs, Signal, ShutdownServer, ServerFails, Fatal,
           TokenRefreshFails, Crash
  <1> QED
    BY <1>1, <1>2, <1>3, <1>4, <1>5, <1>6, <1>7, <1>8, <1>11 DEF Next, Run

\* Of any number of replicas that register one webhook at once (selfRegistration),
\* not all give up: while there is none, one of them is still going to create
\* it, unless a call has failed.
THEOREM RegistersCorrect == Spec => []SomebodyRegisters
  BY TypeCorrect, InitRegisters, NextRegisters, PTL DEF Spec

=============================================================================
