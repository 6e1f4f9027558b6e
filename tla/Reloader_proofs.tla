--------------------------- MODULE Reloader_proofs ---------------------------
(***************************************************************************)
(* The reloader keeps the promise of ReloadPromise, for any workers, pods, *)
(* host, number of retries (a negative one included), changes and flips.   *)
(***************************************************************************)
EXTENDS Reloader, TLAPS

LEMMA TargetsSplit ==
  /\ \A t \in Targets : (UsesHost /\ t = Host) \/ (UsesEndpoints /\ t \in Pods)
  /\ UsesHost => Host \in Targets
  /\ UsesEndpoints => Pods \subseteq Targets
BY DEF Targets

\* Only a reloader with endpoints waits for them.
TypeInv ==
  /\ TypeOK
  /\ \A w \in Workers : pc[w] = "endpoints" => UsesEndpoints

-----------------------------------------------------------------------------
(***************************************************************************)
(* Bags: their elements, counted or not.                                   *)
(***************************************************************************)
LEMMA BagAdd ==
  ASSUME NEW A, IsABag(A), NEW B, IsABag(B)
  PROVE  /\ IsABag(A (+) B)
         /\ BagToSet(A (+) B) = BagToSet(A) \cup BagToSet(B)
<1>1. BagToSet(A (+) B) = BagToSet(A) \cup BagToSet(B)
  BY DEF BagToSet, (+)
<1>2. ASSUME NEW e \in BagToSet(A (+) B) PROVE (A (+) B)[e] \in Nat \ {0}
  BY <1>1, <1>2 DEF IsABag, BagToSet, (+)
<1> QED BY <1>1, <1>2 DEF IsABag, BagToSet, (+)

LEMMA BagTake ==
  ASSUME NEW A, IsABag(A), NEW e
  PROVE  /\ IsABag(A (-) SetToBag({e}))
         /\ BagToSet(A (-) SetToBag({e})) \subseteq BagToSet(A)
         /\ BagToSet(A) \ {e} \subseteq BagToSet(A (-) SetToBag({e}))
<1> DEFINE N(d) == IF d \in {e} THEN A[d] - 1 ELSE A[d]
           D == {d \in DOMAIN A : N(d) > 0}
<1>1. A (-) SetToBag({e}) = [d \in D |-> N(d)]
  BY DEF (-), SetToBag
<1>2. \A d \in DOMAIN A : A[d] \in Nat /\ A[d] > 0
  BY DEF IsABag
<1>3. \A d \in D : N(d) \in Nat /\ N(d) > 0
  BY <1>2
<1>4. DOMAIN A \ {e} \subseteq D
  BY <1>2
<1> QED BY <1>1, <1>3, <1>4 DEF IsABag, BagToSet

LEMMA BagAddOne ==
  ASSUME NEW A, IsABag(A), NEW e
  PROVE  /\ IsABag(A (+) SetToBag({e}))
         /\ BagToSet(A (+) SetToBag({e})) = BagToSet(A) \cup {e}
<1> DEFINE B == SetToBag({e})
<1>1. IsABag(B) /\ BagToSet(B) = {e}
  BY DEF IsABag, SetToBag, BagToSet
<1> HIDE DEF B
<1>2. IsABag(A (+) B) /\ BagToSet(A (+) B) = BagToSet(A) \cup {e}
  BY <1>1, BagAdd
<1> QED BY <1>2 DEF B

LEMMA ReadyBag ==
  ASSUME TypeOK
  PROVE  IsABag(GoReady) /\ BagToSet(GoReady) = Ready \X {Retries}
<1>1. ASSUME NEW p \in Ready PROVE ready[p] \in Nat /\ ready[p] > 0
  <2>1. p \in Pods /\ ready[p] > 0
    BY DEF Ready
  <2>2. MaxSubsets[p] \in Nat
    BY <2>1, SubsetsAssumption
  <2>3. ready[p] \in UNION {0 .. MaxSubsets[q] : q \in Pods}
    BY <2>1 DEF TypeOK, Readiness
  <2>4. PICK q \in Pods : ready[p] \in 0 .. MaxSubsets[q]
    BY <2>3
  <2> QED BY <2>1, <2>4, SubsetsAssumption
<1> QED BY <1>1 DEF GoReady, IsABag, BagToSet

-----------------------------------------------------------------------------
\* The effects on the goroutines.
LEMMA EndsBag ==
  ASSUME TypeOK, NEW t \in Targets, NEW r \in Left, Ends(t, r)
  PROVE  /\ IsABag(going')
         /\ BagToSet(going') \subseteq BagToSet(going)
         /\ BagToSet(going) \ {<<t, r>>} \subseteq BagToSet(going')
BY BagTake DEF TypeOK, Ends

LEMMA RetryBag ==
  ASSUME TypeOK, NEW t \in Targets, NEW r \in Left, NEW q \in Left, Retry(t, r, q)
  PROVE  /\ IsABag(going')
         /\ BagToSet(going') \subseteq BagToSet(going) \cup {<<t, q>>}
         /\ (BagToSet(going) \ {<<t, r>>}) \cup {<<t, q>>} \subseteq BagToSet(going')
<1> DEFINE G == going (-) SetToBag({<<t, r>>})
<1>1. /\ IsABag(G) /\ BagToSet(G) \subseteq BagToSet(going)
      /\ BagToSet(going) \ {<<t, r>>} \subseteq BagToSet(G)
  BY BagTake DEF TypeOK
<1>2. going' = G (+) SetToBag({<<t, q>>})
  BY DEF Retry
<1> HIDE DEF G
<1>3. IsABag(going') /\ BagToSet(going') = BagToSet(G) \cup {<<t, q>>}
  BY <1>1, <1>2, BagAddOne
<1> QED BY <1>1, <1>3

LEMMA LeftRetries == Retries \in Left /\ \A r \in Left : r >= 0 => r - 1 \in Left
BY RetriesAssumption DEF Left

LEMMA TypeInit == Init => TypeInv
BY DEF Init, TypeInv, TypeOK, EmptyBag, SetToBag, IsABag, BagToSet

LEMMA TypeStep == TypeInv /\ [Next]_vars => TypeInv'
<1> SUFFICES ASSUME TypeInv, [Next]_vars PROVE TypeInv'
  OBVIOUS
<1> USE DEF TypeInv
<1>1. ASSUME NEW w \in Workers, CallReload(w) PROVE TypeInv'
  BY <1>1 DEF CallReload, TypeOK
<1>2. ASSUME NEW w \in Workers, ReloadURL(w) PROVE TypeInv'
  <2>1. IsABag(going') /\ BagToSet(going') \subseteq Targets \X Left
    <3>1. CASE UsesHost /\ going' = going (+) SetToBag({<<Host, Retries>>})
      <4>1. <<Host, Retries>> \in Targets \X Left
        BY <3>1, TargetsSplit, LeftRetries
      <4> QED BY <3>1, <4>1, BagAddOne DEF TypeOK
    <3>2. CASE UNCHANGED going
      BY <3>2 DEF TypeOK
    <3> QED BY <1>2, <3>1, <3>2 DEF ReloadURL
  <2>2. /\ pc' \in [Workers -> {"idle", "sleep", "endpoints"}]
        /\ \A v \in Workers : pc'[v] = "endpoints" => UsesEndpoints
    BY <1>2 DEF ReloadURL, TypeOK
  <2> QED BY <1>2, <2>1, <2>2 DEF ReloadURL, TypeOK
<1>3. ASSUME NEW w \in Workers, ReloadEndpoints(w) PROVE TypeInv'
  <2>0. UsesEndpoints
    BY <1>3 DEF ReloadEndpoints
  <2>1. IsABag(going') /\ BagToSet(going') \subseteq Targets \X Left
    <3>1. CASE going' = going (+) GoReady
      <4>1. Ready \X {Retries} \subseteq Targets \X Left
        BY <2>0, TargetsSplit, LeftRetries DEF Ready
      <4> QED BY <3>1, <4>1, ReadyBag, BagAdd DEF TypeOK
    <3>2. CASE UNCHANGED going
      BY <3>2 DEF TypeOK
    <3> QED BY <1>3, <3>1, <3>2 DEF ReloadEndpoints
  <2>2. lost' \in SUBSET Targets
    BY <1>3, <2>0, TargetsSplit DEF ReloadEndpoints, TypeOK
  <2>3. /\ pc' \in [Workers -> {"idle", "sleep", "endpoints"}]
        /\ \A v \in Workers : pc'[v] = "endpoints" => UsesEndpoints
    BY <1>3 DEF ReloadEndpoints, TypeOK
  <2> QED BY <1>3, <2>1, <2>2, <2>3 DEF ReloadEndpoints, TypeOK
<1>4. ASSUME NEW t \in Targets, NEW r \in Left, Attempt(t, r) PROVE TypeInv'
  <2>1. UNCHANGED <<current, pc, ready, flips>>
    BY <1>4 DEF Attempt, ReloadSucceeds, ReloadRejected, ReloadFails, GivesUp
  <2>2. IsABag(going') /\ BagToSet(going') \subseteq Targets \X Left
    <3>1. CASE Ends(t, r)
      BY <3>1, EndsBag DEF TypeOK
    <3>2. CASE r >= 0 /\ Retry(t, r, r - 1)
      <4>1. r - 1 \in Left
        BY <3>2, LeftRetries
      <4> QED BY <3>2, <4>1, RetryBag DEF TypeOK
    <3> QED BY <1>4, <3>1, <3>2
            DEF Attempt, ReloadSucceeds, ReloadRejected, ReloadFails, GivesUp
  <2>3. loaded' \in [Targets -> Nat] /\ lost' \in SUBSET Targets
    BY <1>4 DEF Attempt, ReloadSucceeds, ReloadRejected, ReloadFails, GivesUp, TypeOK
  <2> QED BY <2>1, <2>2, <2>3 DEF TypeOK
<1>5. ASSUME NEW p \in Pods, Flip(p) PROVE TypeInv'
  <2>1. PICK n \in 0 .. MaxSubsets[p] : ready' = [ready EXCEPT ![p] = n]
    BY <1>5 DEF Flip
  <2>2. MaxSubsets[p] \in Nat
    BY SubsetsAssumption
  <2>3. n \in UNION {0 .. MaxSubsets[q] : q \in Pods} /\ n <= MaxSubsets[p]
    BY <2>2
  <2>4. ready' \in Readiness
    BY <2>1, <2>3 DEF TypeOK, Readiness
  <2> QED BY <1>5, <2>4 DEF Flip, TypeOK
<1>6. CASE UNCHANGED vars
  BY <1>6 DEF vars, TypeOK
<1> QED BY <1>1, <1>2, <1>3, <1>4, <1>5, <1>6 DEF Next

\* Every variable keeps its type; in particular every goroutine is one for a
\* target, with a number of retries left that is -1 or above, or that it was
\* started with: none makes one attempt too many.
THEOREM TypeCorrect == Spec => []TypeOK
<1>1. TypeInv => TypeOK
  BY DEF TypeInv
<1> QED BY <1>1, TypeInit, TypeStep, PTL DEF Spec

-----------------------------------------------------------------------------
(***************************************************************************)
(* The refinement: each step is a step of the promise or changes nothing   *)
(* of it.                                                                  *)
(***************************************************************************)
LEMMA RefinesInit == Init => Promised!Init
<1> SUFFICES ASSUME Init PROVE Promised!Init
  OBVIOUS
<1>1. ASSUME NEW t \in Targets, NEW r \in Left PROVE ~Runs(t, r)
  BY DEF Init, Runs, BagIn, BagToSet, EmptyBag, SetToBag
<1>2. \A w \in Workers : pc[w] = "idle"
  BY DEF Init
<1>3. Owed = {}
  BY <1>1, <1>2 DEF Owed
<1> QED BY <1>3 DEF Init, Promised!Init

LEMMA RefinesStep == TypeInv /\ [Next]_vars => [Promised!Next]_(Promised!vars)
<1> SUFFICES ASSUME TypeInv, [Next]_vars
             PROVE  Promised!Next \/ UNCHANGED Promised!vars
  OBVIOUS
<1> USE DEF Promised!Next, Promised!vars, TypeInv, Runs, BagIn
<1>1. ASSUME NEW w \in Workers, CallReload(w) PROVE Promised!Change
  <2>1. pc'[w] = "sleep"
    BY <1>1 DEF CallReload, TypeOK
  <2>2. Owed' = Targets
    BY <2>1 DEF Owed
  <2> QED BY <1>1, <2>2 DEF CallReload, Promised!Change
<1>2. ASSUME NEW S, S \subseteq Owed, lost' = lost \cup S,
             Owed \ S \subseteq Owed', Owed' \subseteq Owed,
             UNCHANGED <<current, loaded>>
      PROVE  Promised!Next
  <2>1. S \in SUBSET Targets
    BY <1>2 DEF Owed
  <2>2. Promised!WriteOff(S)
    BY <1>2 DEF Promised!WriteOff
  <2> QED BY <2>1, <2>2
\* The host has its goroutine, the pods are still to come.
<1>3. ASSUME NEW w \in Workers, ReloadURL(w) PROVE UNCHANGED Promised!vars
  <2>1. UNCHANGED <<current, loaded, lost>> /\ pc[w] = "sleep"
    BY <1>3 DEF ReloadURL
  <2>2. Owed = Targets
    BY <2>1 DEF Owed
  <2>3. ASSUME NEW t \in Targets PROVE t \in Owed'
    <3>1. CASE UsesHost /\ t = Host
      <4>1. going' = going (+) SetToBag({<<Host, Retries>>})
        BY <1>3, <3>1 DEF ReloadURL
      <4>2. BagToSet(going') = BagToSet(going) \cup {<<Host, Retries>>}
        BY <4>1, BagAddOne DEF TypeOK
      <4> QED BY <3>1, <4>2, LeftRetries DEF Owed
    <3>2. CASE UsesEndpoints /\ t \in Pods
      <4>1. pc'[w] = "endpoints"
        BY <1>3, <3>2 DEF ReloadURL, TypeOK
      <4> QED BY <3>2, <4>1 DEF Owed
    <3> QED BY <3>1, <3>2, TargetsSplit
  <2>4. Owed' = Owed
    BY <2>2, <2>3 DEF Owed
  <2> QED BY <2>1, <2>4
<1>4. ASSUME NEW w \in Workers, ReloadEndpoints(w) PROVE Promised!Next
  <2>1. UNCHANGED <<current, loaded>> /\ pc[w] = "endpoints" /\ UsesEndpoints
    BY <1>4 DEF ReloadEndpoints
  <2>2. Pods \subseteq Owed
    BY <2>1, TargetsSplit DEF Owed
  <2>3. \A v \in Workers : pc'[v] \in {pc[v], "idle"}
    BY <1>4 DEF ReloadEndpoints, TypeOK
  <2>4. \A v \in Workers : pc[v] = "sleep" => pc'[v] = "sleep"
    BY <1>4, <2>1 DEF ReloadEndpoints, TypeOK
  <2>5. CASE lost' = lost \cup Pods /\ UNCHANGED going
    <3>1. Owed' \subseteq Owed /\ Owed \ Pods \subseteq Owed'
      BY <2>3, <2>4, <2>5 DEF Owed
    <3> QED BY <1>2, <2>1, <2>2, <2>5, <3>1
  <2>6. CASE going' = going (+) GoReady /\ lost' = lost \cup (Pods \ Ready)
    <3>1. BagToSet(going') = BagToSet(going) \cup (Ready \X {Retries})
      BY <2>6, ReadyBag, BagAdd DEF TypeOK
    <3>2. Ready \subseteq Pods
      BY DEF Ready
    <3>3. Owed' \subseteq Owed
      BY <2>2, <2>3, <3>1, <3>2 DEF Owed
    <3>4. ASSUME NEW t \in Owed, t \notin Pods \ Ready PROVE t \in Owed'
      <4>1. t \in Targets
        BY DEF Owed
      <4>2. CASE t \in Ready
        <5>1. <<t, Retries>> \in BagToSet(going')
          BY <3>1, <4>2
        <5> QED BY <4>1, <5>1, LeftRetries DEF Owed
      <4>3. CASE t \notin Pods
        BY <2>4, <3>1, <4>3 DEF Owed
      <4> QED BY <3>4, <4>2, <4>3
    <3> QED BY <1>2, <2>1, <2>2, <2>6, <3>3, <3>4
  <2> QED BY <1>4, <2>5, <2>6 DEF ReloadEndpoints
\* The end of a goroutine.
<1>5. ASSUME NEW t \in Targets, NEW r \in Left, Runs(t, r), Ends(t, r),
             UNCHANGED pc
      PROVE  /\ t \in Owed
             /\ Owed' \subseteq Owed /\ Owed \ {t} \subseteq Owed'
  BY <1>5, EndsBag DEF Owed
<1>6. ASSUME NEW t \in Targets, NEW r \in Left, ReloadSucceeds(t, r)
      PROVE  Promised!Load(t)
  BY <1>5, <1>6 DEF ReloadSucceeds, Promised!Load
<1>7. ASSUME NEW t \in Targets, NEW r \in Left,
             ReloadRejected(t, r) \/ GivesUp(t, r)
      PROVE  Promised!Next
  BY <1>2, <1>5, <1>7 DEF ReloadRejected, GivesUp
<1>8. ASSUME NEW t \in Targets, NEW r \in Left, ReloadFails(t, r)
      PROVE  UNCHANGED Promised!vars
  <2>1. r - 1 \in Left /\ Retry(t, r, r - 1)
    BY <1>8, LeftRetries DEF ReloadFails
  <2>2. /\ BagToSet(going') \subseteq BagToSet(going) \cup {<<t, r - 1>>}
        /\ (BagToSet(going) \ {<<t, r>>}) \cup {<<t, r - 1>>} \subseteq BagToSet(going')
    BY <2>1, RetryBag
  <2>3. UNCHANGED <<current, loaded, lost, pc>> /\ <<t, r>> \in BagToSet(going)
    BY <1>8 DEF ReloadFails
  <2>4. Owed' = Owed
    BY <2>1, <2>2, <2>3 DEF Owed
  <2> QED BY <2>3, <2>4
<1>9. ASSUME (\E p \in Pods : Flip(p)) \/ UNCHANGED vars
      PROVE  UNCHANGED Promised!vars
  BY <1>9 DEF Flip, vars, Owed
<1> QED BY <1>1, <1>3, <1>4, <1>6, <1>7, <1>8, <1>9 DEF Next, Attempt

\* The reloader implements the promise.
THEOREM KeepsPromiseCorrect == Spec => KeepsPromise
BY RefinesInit, RefinesStep, TypeInit, TypeStep, PTL
   DEF Spec, KeepsPromise, Promised!Spec

=============================================================================
