-------------------------- MODULE Conversion_proofs --------------------------
(***************************************************************************)
(* The verdict on a rule group is right and what is converted is whole,    *)
(* for groups of any size.                                                 *)
(***************************************************************************)
EXTENDS Conversion, SequenceTheorems, TLAPS

NoBadFor(n) == \A j \in 1 .. n : conf.rules[j].for # "bad"

\* In the loop: there are errors if and only if a rule seen so far has an
\* invalid `for', err is left over only if there are, and without errors every
\* rule seen has been converted.
LoopInv ==
  /\ conf.interval # "bad"
  /\ ~converted
  /\ errs = << >> <=> NoBadFor(i)
  /\ err # 0 => errs # << >>
  /\ errs = << >> => rules = [j \in 1 .. i |-> j]

\* After it.
ResultInv ==
  /\ errs = << >> <=> Acceptable
  /\ converted => rules = [j \in 1 .. Len(conf.rules) |-> j]
  /\ ~converted => errs # << >>

Inv ==
  /\ TypeOK
  /\ pc = "interval" => i = 0 /\ err = 0 /\ errs = << >> /\ rules = << >> /\ ~converted
  /\ pc = "loop" => LoopInv
  /\ pc \in {"admit", "done"} => ResultInv
  /\ pc = "done" => (allowed <=> errs = << >>)

\* The rules of a group are a sequence.
LEMMA RulesAreSequences == conf \in RuleGroups => conf.rules \in Seq(Rules)
<1> SUFFICES ASSUME conf \in RuleGroups PROVE conf.rules \in Seq(Rules)
  OBVIOUS
<1>1. PICK n \in 0 .. MaxRules : conf.rules \in [1 .. n -> Rules]
  BY DEF RuleGroups
<1>2. n \in Nat
  BY <1>1, MaxRulesAssumption
<1> QED BY <1>1, <1>2, SeqDef

LEMMA InitInv == Init => Inv
<1> SUFFICES ASSUME Init PROVE Inv
  OBVIOUS
<1>1. Len(conf.rules) \in Nat
  BY RulesAreSequences, LenProperties DEF Init
<1>2. << >> \in Seq(Errors) /\ << >> \in Seq(Nat)
  OBVIOUS
<1>3. TypeOK
  <2>1. i = 0 /\ 0 \in 0 .. Len(conf.rules)
    BY <1>1 DEF Init
  <2>2. conf \in RuleGroups /\ errs = << >> /\ rules = << >>
    BY DEF Init
  <2>3. errs \in Seq(Errors) /\ rules \in Seq(Nat)
    BY <1>2, <2>2
  <2> QED BY <2>1, <2>2, <2>3 DEF Init, TypeOK
<1> QED BY <1>3 DEF Init, Inv

LEMMA StepInv == Inv /\ [Next]_vars => Inv'
<1> SUFFICES ASSUME Inv, [Next]_vars PROVE Inv'
  OBVIOUS
<1>1. conf.rules \in Seq(Rules) /\ Len(conf.rules) \in Nat
  BY RulesAreSequences, LenProperties DEF Inv, TypeOK
<1>2. CASE ParseInterval
  <2>1. CASE conf.interval = "bad"
    <3>1. errs' = <<[rule |-> 0, cause |-> 0]>> /\ pc' = "admit"
      BY <1>2, <2>1 DEF ParseInterval
    <3>2. errs' \in Seq(Errors) /\ errs' # << >>
      <4>1. [rule |-> 0, cause |-> 0] \in Errors
        BY DEF Errors
      <4> QED BY <3>1, <4>1
    <3> QED BY <1>2, <2>1, <3>1, <3>2
            DEF ParseInterval, Inv, TypeOK, ResultInv, Acceptable
  <2>2. CASE conf.interval # "bad"
    <3>1. NoBadFor(0) /\ << >> = [j \in 1 .. 0 |-> j]
      BY DEF NoBadFor
    <3>2. LoopInv'
      BY <1>2, <2>2, <3>1 DEF ParseInterval, Inv, LoopInv, NoBadFor
    <3> QED BY <1>2, <2>2, <3>2 DEF ParseInterval, Inv, TypeOK
  <2> QED BY <2>1, <2>2
<1>3. CASE ConvertRule
  <2>1. LoopInv /\ i \in Nat /\ i + 1 \in 1 .. Len(conf.rules)
    BY <1>1, <1>3 DEF ConvertRule, Inv, TypeOK
  <2>2. conf.rules[i + 1].for \in Durations
    <3>1. conf.rules[i + 1] \in Rules
      BY <1>1, <2>1, ElementOfSeq
    <3> QED BY <3>1 DEF Rules
  <2>3. err' \in Nat /\ (err' # 0 => conf.rules[i + 1].for = "bad" \/ err # 0)
        /\ (conf.rules[i + 1].for = "bad" => err' # 0)
    BY <1>3, <2>1, <2>2 DEF ConvertRule, ErrAfter, Durations, Inv, TypeOK
  <2>4. NoBadFor(i)' <=> NoBadFor(i) /\ conf.rules[i + 1].for # "bad"
    BY <1>3, <2>1 DEF ConvertRule, NoBadFor
  <2>5. CASE err' # 0
    <3>1. errs' \in Seq(Errors) /\ errs' # << >> /\ rules' = rules
      <4> DEFINE e == [rule |-> i + 1, cause |-> err']
      <4>1. errs' = Append(errs, e) /\ rules' = rules
        BY <1>3, <2>5 DEF ConvertRule
      <4>2. errs \in Seq(Errors)
        BY DEF Inv, TypeOK
      <4>3. e \in Errors
        BY <2>1, <2>3 DEF Errors
      <4> HIDE DEF e
      <4> QED BY <4>1, <4>2, <4>3, AppendProperties
    <3>2. ~NoBadFor(i)'
      BY <2>1, <2>3, <2>4, <2>5 DEF LoopInv
    <3> QED BY <1>3, <2>1, <2>3, <3>1, <3>2 DEF ConvertRule, Inv, TypeOK, LoopInv
  <2>6. CASE err' = 0
    <3>1. errs' = errs /\ rules' = Append(rules, i + 1) /\ rules' \in Seq(Nat)
      <4>1. errs' = errs /\ rules' = Append(rules, i + 1)
        BY <1>3, <2>6 DEF ConvertRule
      <4>2. rules \in Seq(Nat) /\ i + 1 \in Nat
        BY <2>1 DEF Inv, TypeOK
      <4> QED BY <4>1, <4>2, AppendProperties
    <3>2. errs = << >> => rules' = [j \in 1 .. i + 1 |-> j]
      <4> SUFFICES ASSUME errs = << >> PROVE rules' = [j \in 1 .. i + 1 |-> j]
        OBVIOUS
      <4>1. rules \in Seq(Nat) /\ Len(rules) = i /\ rules = [j \in 1 .. i |-> j]
        BY <2>1 DEF LoopInv, Inv, TypeOK
      <4> QED BY <2>1, <3>1, <4>1, AppendProperties
    <3>3. errs = << >> <=> NoBadFor(i)'
      BY <2>1, <2>3, <2>4, <2>6 DEF LoopInv
    <3> QED BY <1>3, <2>1, <2>6, <3>1, <3>2, <3>3 DEF ConvertRule, Inv, TypeOK, LoopInv
  <2> QED BY <2>5, <2>6
<1>4. CASE Return
  <2>1. LoopInv /\ i = Len(conf.rules)
    BY <1>4 DEF Return, Inv
  <2>2. CASE errs # << >>
    <3>1. ~Acceptable
      BY <2>1, <2>2 DEF LoopInv, NoBadFor, Acceptable
    <3> QED BY <1>4, <2>1, <2>2, <3>1 DEF Return, Inv, TypeOK, ResultInv, LoopInv, Acceptable
  <2>3. CASE errs = << >>
    <3>1. errs' = ValidationErrors /\ converted' = TRUE
      BY <1>4, <2>3 DEF Return
    <3>2. ValidationErrors \in Seq(Errors)
      <4>1. [rule |-> 0, cause |-> 0] \in Errors
        BY DEF Errors
      <4>2. << >> \in Seq(Errors) /\ <<[rule |-> 0, cause |-> 0]>> \in Seq(Errors)
        BY <4>1
      <4> QED BY <4>2 DEF ValidationErrors
    <3>3. ValidationErrors = << >> <=> Acceptable
      BY <2>1, <2>3 DEF ValidationErrors, Acceptable, LoopInv, NoBadFor
    <3> QED BY <1>4, <2>1, <2>3, <3>1, <3>2, <3>3
            DEF Return, Inv, TypeOK, ResultInv, LoopInv, Acceptable
  <2> QED BY <2>2, <2>3
<1>5. CASE AdmitRuleGroups
  BY <1>5 DEF AdmitRuleGroups, Inv, TypeOK, ResultInv, Acceptable
<1>6. CASE UNCHANGED vars
  BY <1>6 DEF vars, Inv, TypeOK, LoopInv, NoBadFor, ResultInv, Acceptable
<1> QED BY <1>2, <1>3, <1>4, <1>5, <1>6 DEF Next

LEMMA InvHolds == Spec => []Inv
BY InitInv, StepInv, PTL DEF Spec

\* The webhook admits a rule group if and only if all of it is valid.
THEOREM AdmitsAcceptableCorrect == Spec => []AdmitsAcceptable
<1>1. Inv => AdmitsAcceptable
  BY DEF Inv, ResultInv, AdmitsAcceptable
<1> QED BY <1>1, InvHolds, PTL

\* A group that is converted is whole, one that is admitted is converted, and
\* nil comes with errors.
THEOREM ConvertsWholeCorrect == Spec => []ConvertsWhole
<1>1. Inv => ConvertsWhole
  BY DEF Inv, ResultInv, ConvertsWhole
<1> QED BY <1>1, InvHolds, PTL

=============================================================================
