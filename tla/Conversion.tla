----------------------------- MODULE Conversion -----------------------------
(***************************************************************************)
(* convertRuleGroup (controller.go) and the admission of a rule group by   *)
(* the webhook (webhook.go), which rests on it: the loop over the rules,   *)
(* with the variable `err' that outlives an iteration.                     *)
(*                                                                         *)
(* Abstracted: a duration is one of three kinds; of a rule only its `for'  *)
(* and the verdict of Prometheus' own validation are kept, of an error the *)
(* rule it names and the rule whose duration did not parse.                *)
(***************************************************************************)
EXTENDS Naturals, Sequences

CONSTANT MaxRules           \* bound: rules in a group

ASSUME MaxRulesAssumption == MaxRules \in Nat

Durations == {"none", "good", "bad"}
Rules == [for : Durations, valid : BOOLEAN]
RuleGroups ==
  [interval : Durations, rules : UNION {[1 .. n -> Rules] : n \in 0 .. MaxRules}]

VARIABLES
  conf,                     \* the group to convert
  pc,                       \* "interval", "loop", "admit", "done"
  i,                        \* number of rules the loop has seen
  err,                      \* the rule whose `for' err is about, 0 for nil
  errs,                     \* the errors: rule named, rule at fault
  rules,                    \* numbers of the rules converted, in order
  converted,                \* a group is returned (else nil)
  allowed                   \* the webhook's answer

vars == <<conf, pc, i, err, errs, rules, converted, allowed>>

Errors == [rule : Nat, cause : Nat]

TypeOK ==
  /\ conf \in RuleGroups
  /\ pc \in {"interval", "loop", "admit", "done"}
  /\ i \in 0 .. Len(conf.rules)
  /\ err \in Nat
  /\ errs \in Seq(Errors)
  /\ rules \in Seq(Nat)
  /\ converted \in BOOLEAN /\ allowed \in BOOLEAN

Init ==
  /\ conf \in RuleGroups
  /\ pc = "interval"
  /\ i = 0 /\ err = 0
  /\ errs = << >> /\ rules = << >>
  /\ converted = FALSE /\ allowed = FALSE

-----------------------------------------------------------------------------
\* The interval of the group; an invalid one is the only error.
ParseInterval ==
  /\ pc = "interval"
  /\ \/ /\ conf.interval = "bad"
        /\ errs' = <<[rule |-> 0, cause |-> 0]>>
        /\ pc' = "admit"
     \/ /\ conf.interval # "bad"
        /\ pc' = "loop"
        /\ UNCHANGED errs
  /\ UNCHANGED <<conf, i, err, rules, converted, allowed>>

\* err after `if r.For != "" { rfor, err = ParseDuration(r.For) }' for rule j.
ErrAfter(j) ==
  CASE conf.rules[j].for = "bad" -> j
    [] conf.rules[j].for = "good" -> 0
    [] conf.rules[j].for = "none" -> err

\* Slip: only the error of the last rule is kept.
ConvertRuleKeepsLast ==
  /\ pc = "loop" /\ i < Len(conf.rules)
  /\ i' = i + 1
  /\ err' = ErrAfter(i + 1)
  /\ \/ err' # 0 /\ errs' = <<[rule |-> i + 1, cause |-> err']>> /\ UNCHANGED rules
     \/ err' = 0 /\ rules' = Append(rules, i + 1) /\ errs' = << >>
  /\ UNCHANGED <<conf, pc, converted, allowed>>

\* One iteration of the loop.
ConvertRule ==
  /\ pc = "loop" /\ i < Len(conf.rules)
  /\ i' = i + 1
  /\ err' = ErrAfter(i + 1)
  /\ \/ /\ err' # 0
        /\ errs' = Append(errs, [rule |-> i + 1, cause |-> err'])
        /\ UNCHANGED rules
     \/ /\ err' = 0
        /\ rules' = Append(rules, i + 1)
        /\ UNCHANGED errs
  /\ UNCHANGED <<conf, pc, converted, allowed>>

\* The errors of RuleGroups.Validate: some if a rule is not valid.
ValidationErrors ==
  IF \A j \in 1 .. Len(conf.rules) : conf.rules[j].valid
  THEN << >> ELSE <<[rule |-> 0, cause |-> 0]>>

\* After the loop: nil with the errors, or the group with those of Validate.
Return ==
  /\ pc = "loop" /\ i = Len(conf.rules)
  /\ pc' = "admit"
  /\ \/ errs # << >> /\ UNCHANGED <<errs, converted>>
     \/ /\ errs = << >>
        /\ converted' = TRUE
        /\ errs' = ValidationErrors
  /\ UNCHANGED <<conf, i, err, rules, allowed>>

\* Slip: a group is admitted if it could be converted.
AdmitConverted ==
  /\ pc = "admit"
  /\ pc' = "done"
  /\ allowed' = converted
  /\ UNCHANGED <<conf, i, err, errs, rules, converted>>

\* admitRuleGroups: allowed without errors only.
AdmitRuleGroups ==
  /\ pc = "admit"
  /\ pc' = "done"
  /\ allowed' = (errs = << >>)
  /\ UNCHANGED <<conf, i, err, errs, rules, converted>>

Next == ParseInterval \/ ConvertRule \/ Return \/ AdmitRuleGroups

Spec == Init /\ [][Next]_vars

-----------------------------------------------------------------------------
(***************************************************************************)
(* Properties.                                                             *)
(***************************************************************************)
\* What a user may expect to be admitted.
Acceptable ==
  /\ conf.interval # "bad"
  /\ \A j \in 1 .. Len(conf.rules) :
       conf.rules[j].for # "bad" /\ conf.rules[j].valid

\* The webhook admits a group if and only if its interval, every `for' and
\* every rule is valid: an error that stays in err from one rule to the next,
\* or is overwritten by the next, does not change the verdict.
AdmitsAcceptable == pc = "done" => (allowed <=> Acceptable)

\* A group is returned whole: no rule is left out of it, moved or repeated;
\* otherwise there are errors.  syncRuleHandler dereferences what is returned,
\* so a group the webhook admits is not nil.
ConvertsWhole ==
  pc = "done" =>
    /\ converted => rules = [j \in 1 .. Len(conf.rules) |-> j]
    /\ allowed => converted
    /\ ~converted => errs # << >>

\* controller.go:621 reports "invalid for duration in rule %v": the rule it
\* names has one.  The code violates this: err is not reset, so a rule without
\* a `for' after an invalid one is reported, and dropped, as well.
BlamesTheRule ==
  \A e \in 1 .. Len(errs) : errs[e].rule # 0 =>
    conf.rules[errs[e].rule].for = "bad"

=============================================================================
