-------------------------- MODULE Admission_proofs --------------------------
(***************************************************************************)
(* What the webhook lets in, and what becomes of it, for rule groups of    *)
(* any size, every section and every answer of the metadata service.       *)
(***************************************************************************)
EXTENDS Admission, Conversion_proofs, PromConfig_proofs, TLAPS

ConversionPCs == {"interval", "loop", "admit", "done"}

\* Before anything is looked at.
ServeInv ==
  pc = "serve" =>
    /\ i = 0 /\ err = 0 /\ errs = << >> /\ rules = << >>
    /\ converted = FALSE /\ allowed = FALSE
    /\ WellFormed(request) =>
         \/ request.resource = "rulegroups" /\ conf \in RuleGroups /\ section = NoSection
         \/ request.resource = "scrapes" /\ section # NoSection

\* While a rule group is converted, or a scrape is about to be.
ReviewInv ==
  /\ pc \in ConversionPCs => Inv /\ WellFormed(request) /\ section = NoSection
  /\ pc = "scrape" => WellFormed(request) /\ section # NoSection

\* `allowed' is about something that passed its check, whatever the metadata
\* service said then; a rule group is not denied for anything else.
AnswerInv ==
  /\ answer = "allowed" => WellFormed(request)
  /\ WellFormed(request) /\ section = NoSection /\ answer # "none" =>
       (answer = "allowed" <=> Acceptable)
  /\ answer = "allowed" /\ section # NoSection =>
       \E m \in Metadata : Verdict(Unmarshal(section, m)) = "ok"

\* What is published was read of the section, and passed.
SyncInv ==
  /\ fate # "none" => pc \in {"synced", "loaded"} /\ section # NoSection
  /\ fate = "published" =>
       \E m \in Metadata : read = Unmarshal(section, m) /\ Verdict(read) = "ok"

ObjectInv ==
  /\ section # NoSection => IsSection(section)
  /\ ServeInv /\ ReviewInv /\ AnswerInv /\ SyncInv
  /\ AdmittedIsPublished /\ PublishedMeansTheSame

\* Every section that is enumerated is one in that sense.
LEMMA SectionsAreSections ==
  ASSUME NEW y \in ScrapeSections \cup TemplateSections
  PROVE  IsSection(y) /\ y # NoSection
<1>1. ASSUME y = [f \in DOMAIN y |-> y[f]], "kind" \in DOMAIN y,
             y.kind \notin {Unset, Null, Empty, "none"},
             y.kind = "ec2" => "region" \in DOMAIN y /\ y.region \in Opt
      PROVE  IsSection(y) /\ y # NoSection
  BY <1>1 DEF IsSection, NoSection
<1>2. CASE y \in ScrapeConfigs
  <2>1. y = [f \in DOMAIN y |-> y[f]] /\ "kind" \in DOMAIN y
    BY <1>2 DEF ScrapeConfigs
  <2>2. y.kind = "scrape"
    BY <1>2 DEF ScrapeConfigs
  <2> QED BY <1>1, <2>1, <2>2 DEF Unset, Null, Empty
<1>3. CASE y \in DNSSDConfigs
  <2>1. y = [f \in DOMAIN y |-> y[f]] /\ "kind" \in DOMAIN y
    BY <1>3 DEF DNSSDConfigs
  <2>2. y.kind = "dns"
    BY <1>3 DEF DNSSDConfigs
  <2> QED BY <1>1, <2>1, <2>2 DEF Unset, Null, Empty
<1>4. CASE y \in FileSDConfigs
  <2>1. y = [f \in DOMAIN y |-> y[f]] /\ "kind" \in DOMAIN y
    BY <1>4 DEF FileSDConfigs
  <2>2. y.kind = "file"
    BY <1>4 DEF FileSDConfigs
  <2> QED BY <1>1, <2>1, <2>2 DEF Unset, Null, Empty
<1>5. CASE y \in ConsulSDConfigs
  <2>1. y = [f \in DOMAIN y |-> y[f]] /\ "kind" \in DOMAIN y
    BY <1>5 DEF ConsulSDConfigs
  <2>2. y.kind = "consul"
    BY <1>5 DEF ConsulSDConfigs
  <2> QED BY <1>1, <2>1, <2>2 DEF Unset, Null, Empty
<1>6. CASE y \in ServersetSDConfigs
  <2>1. y = [f \in DOMAIN y |-> y[f]] /\ "kind" \in DOMAIN y
    BY <1>6 DEF ServersetSDConfigs
  <2>2. y.kind = "serverset"
    BY <1>6 DEF ServersetSDConfigs
  <2> QED BY <1>1, <2>1, <2>2 DEF Unset, Null, Empty
<1>7. CASE y \in NerveSDConfigs
  <2>1. y = [f \in DOMAIN y |-> y[f]] /\ "kind" \in DOMAIN y
    BY <1>7 DEF NerveSDConfigs
  <2>2. y.kind = "nerve"
    BY <1>7 DEF NerveSDConfigs
  <2> QED BY <1>1, <2>1, <2>2 DEF Unset, Null, Empty
<1>8. CASE y \in MarathonSDConfigs
  <2>1. y = [f \in DOMAIN y |-> y[f]] /\ "kind" \in DOMAIN y
    BY <1>8 DEF MarathonSDConfigs
  <2>2. y.kind = "marathon"
    BY <1>8 DEF MarathonSDConfigs
  <2> QED BY <1>1, <2>1, <2>2 DEF Unset, Null, Empty
<1>9. CASE y \in KubernetesSDConfigs
  <2>1. y = [f \in DOMAIN y |-> y[f]] /\ "kind" \in DOMAIN y
    BY <1>9 DEF KubernetesSDConfigs
  <2>2. y.kind = "kubernetes"
    BY <1>9 DEF KubernetesSDConfigs
  <2> QED BY <1>1, <2>1, <2>2 DEF Unset, Null, Empty
<1>10. CASE y \in GCESDConfigs
  <2>1. y = [f \in DOMAIN y |-> y[f]] /\ "kind" \in DOMAIN y
    BY <1>10 DEF GCESDConfigs
  <2>2. y.kind = "gce"
    BY <1>10 DEF GCESDConfigs
  <2> QED BY <1>1, <2>1, <2>2 DEF Unset, Null, Empty
<1>11. CASE y \in EC2SDConfigs
  <2>1. y = [f \in DOMAIN y |-> y[f]] /\ "kind" \in DOMAIN y
    BY <1>11 DEF EC2SDConfigs
  <2>2. y.kind = "ec2" /\ "region" \in DOMAIN y /\ y.region \in Opt
    BY <1>11 DEF EC2SDConfigs
  <2> QED BY <1>1, <2>1, <2>2 DEF Unset, Null, Empty
<1>12. CASE y \in OpenstackSDConfigs
  <2>1. y = [f \in DOMAIN y |-> y[f]] /\ "kind" \in DOMAIN y
    BY <1>12 DEF OpenstackSDConfigs
  <2>2. y.kind = "openstack"
    BY <1>12 DEF OpenstackSDConfigs
  <2> QED BY <1>1, <2>1, <2>2 DEF Unset, Null, Empty
<1>13. CASE y \in AzureSDConfigs
  <2>1. y = [f \in DOMAIN y |-> y[f]] /\ "kind" \in DOMAIN y
    BY <1>13 DEF AzureSDConfigs
  <2>2. y.kind = "azure"
    BY <1>13 DEF AzureSDConfigs
  <2> QED BY <1>1, <2>1, <2>2 DEF Unset, Null, Empty
<1>14. CASE y \in TritonSDConfigs
  <2>1. y = [f \in DOMAIN y |-> y[f]] /\ "kind" \in DOMAIN y
    BY <1>14 DEF TritonSDConfigs
  <2>2. y.kind = "triton"
    BY <1>14 DEF TritonSDConfigs
  <2> QED BY <1>1, <2>1, <2>2 DEF Unset, Null, Empty
<1>15. CASE y \in RelabelConfigs
  <2>1. y = [f \in DOMAIN y |-> y[f]] /\ "kind" \in DOMAIN y
    BY <1>15 DEF RelabelConfigs
  <2>2. y.kind = "relabel"
    BY <1>15 DEF RelabelConfigs
  <2> QED BY <1>1, <2>1, <2>2 DEF Unset, Null, Empty
<1>16. CASE y \in AlertmanagerConfigs
  <2>1. y = [f \in DOMAIN y |-> y[f]] /\ "kind" \in DOMAIN y
    BY <1>16 DEF AlertmanagerConfigs
  <2>2. y.kind = "alertmanager"
    BY <1>16 DEF AlertmanagerConfigs
  <2> QED BY <1>1, <2>1, <2>2 DEF Unset, Null, Empty
<1>17. CASE y \in RemoteWriteConfigs
  <2>1. y = [f \in DOMAIN y |-> y[f]] /\ "kind" \in DOMAIN y
    BY <1>17 DEF RemoteWriteConfigs
  <2>2. y.kind = "remote_write"
    BY <1>17 DEF RemoteWriteConfigs
  <2> QED BY <1>1, <2>1, <2>2 DEF Unset, Null, Empty
<1>18. CASE y \in RemoteReadConfigs
  <2>1. y = [f \in DOMAIN y |-> y[f]] /\ "kind" \in DOMAIN y
    BY <1>18 DEF RemoteReadConfigs
  <2>2. y.kind = "remote_read"
    BY <1>18 DEF RemoteReadConfigs
  <2> QED BY <1>1, <2>1, <2>2 DEF Unset, Null, Empty
<1> QED BY <1>2, <1>3, <1>4, <1>5, <1>6, <1>7, <1>8, <1>9, <1>10, <1>11, <1>12, <1>13, <1>14, <1>15, <1>16, <1>17, <1>18
       DEF ScrapeSections, TemplateSections

LEMMA ObjectInit == AdmissionInit => ObjectInv
<1> SUFFICES ASSUME AdmissionInit PROVE ObjectInv
  OBVIOUS
<1>1. section # NoSection => IsSection(section)
  BY SectionsAreSections DEF AdmissionInit
<1>2. pc \in {"serve", "stored"} /\ answer = "none" /\ fate = "none"
  BY DEF AdmissionInit
<1>3. ServeInv
  <2>1. i = 0 /\ err = 0 /\ errs = << >> /\ rules = << >>
        /\ converted = FALSE /\ allowed = FALSE
    BY DEF AdmissionInit
  <2>2. ASSUME pc = "serve", WellFormed(request)
        PROVE  \/ request.resource = "rulegroups" /\ conf \in RuleGroups /\ section = NoSection
               \/ request.resource = "scrapes" /\ section # NoSection
    <3>1. CASE request = Good("rulegroups") /\ conf \in RuleGroups /\ section = NoSection
      BY <3>1 DEF Good
    <3>2. CASE request = Good("scrapes") /\ section \in ScrapeSections
      BY <3>2, SectionsAreSections DEF Good
    <3> QED BY <2>2, <3>1, <3>2 DEF AdmissionInit
  <2> QED BY <2>1, <2>2 DEF ServeInv
<1> QED BY <1>1, <1>2, <1>3
        DEF ObjectInv, ReviewInv, ConversionPCs, AnswerInv, SyncInv,
            AdmittedIsPublished, PublishedMeansTheSame

\* The steps of the webhook: a request is looked at, a rule group converted.
LEMMA ReviewStep ==
  ASSUME ObjectInv,
         \/ ServeValidate \/ Admit \/ RespondRuleGroup
         \/ (ParseInterval \/ ConvertRule \/ Return \/ AdmitRuleGroups)
            /\ UNCHANGED objectVars
  PROVE  ObjectInv'
<1>1. CASE ServeValidate
  BY <1>1 DEF ServeValidate, Respond, ObjectInv, ServeInv, ReviewInv, ConversionPCs,
              AnswerInv, SyncInv, AdmittedIsPublished, PublishedMeansTheSame
<1>2. CASE Admit
  <2>1. /\ UNCHANGED <<conf, i, err, errs, rules, converted, allowed,
                       request, section, fate, read, loaded>>
        /\ pc = "serve" /\ fate = "none"
        /\ i = 0 /\ err = 0 /\ errs = << >> /\ rules = << >>
        /\ converted = FALSE /\ allowed = FALSE
    BY <1>2 DEF Admit, ObjectInv, ServeInv, SyncInv
  <2>2. CASE Respond("denied")
    <3>1. ~WellFormed(request)
      BY <1>2, <2>2 DEF Admit, Respond, WellFormed
    <3>2. AnswerInv'
      BY <2>1, <2>2, <3>1 DEF Respond, AnswerInv, WellFormed
    <3> QED BY <2>1, <2>2, <3>2
            DEF Respond, ObjectInv, ServeInv, ReviewInv, ConversionPCs, SyncInv,
                AdmittedIsPublished, PublishedMeansTheSame
  <2>3. CASE /\ request.resource = "rulegroups" /\ request.object
             /\ pc' = "interval" /\ UNCHANGED answer
    <3>1. WellFormed(request) /\ request.resource # "scrapes"
      BY <1>2, <2>3 DEF Admit, WellFormed
    <3>2. conf \in RuleGroups /\ section = NoSection
      BY <2>1, <3>1 DEF ObjectInv, ServeInv
    <3>3. Init'
      BY <2>1, <2>3, <3>2 DEF Init
    <3>4. Inv'
      BY <3>3, InitInv, PTL
    <3>5. ReviewInv'
      BY <2>1, <2>3, <3>1, <3>2, <3>4 DEF ReviewInv, WellFormed
    <3> QED BY <2>1, <2>3, <3>1, <3>2, <3>5
            DEF ObjectInv, ServeInv, AnswerInv, SyncInv, WellFormed, Acceptable,
                AdmittedIsPublished, PublishedMeansTheSame
  <2>4. CASE /\ request.resource = "scrapes" /\ request.object
             /\ pc' = "scrape" /\ UNCHANGED answer
    <3>1. WellFormed(request) /\ request.resource # "rulegroups"
      BY <1>2, <2>4 DEF Admit, WellFormed
    <3>2. section # NoSection
      BY <2>1, <3>1 DEF ObjectInv, ServeInv
    <3>3. ReviewInv'
      BY <2>1, <2>4, <3>1, <3>2 DEF ReviewInv, ConversionPCs
    <3> QED BY <2>1, <2>4, <3>1, <3>2, <3>3
            DEF ObjectInv, ServeInv, AnswerInv, SyncInv, WellFormed, Acceptable,
                AdmittedIsPublished, PublishedMeansTheSame
  <2> QED BY <1>2, <2>2, <2>3, <2>4 DEF Admit
<1>3. CASE RespondRuleGroup
  <2>1. Inv /\ WellFormed(request) /\ section = NoSection /\ pc = "done"
    BY <1>3 DEF RespondRuleGroup, ObjectInv, ReviewInv, ConversionPCs
  <2>2. allowed <=> Acceptable
    BY <2>1 DEF Inv, ResultInv
  <2>3. UNCHANGED <<conf, request, section, fate, read, loaded>>
        /\ pc' = "answered" /\ fate = "none"
        /\ (answer' = "allowed" <=> allowed)
    BY <1>3 DEF RespondRuleGroup, Respond, ObjectInv, SyncInv
  <2>4. AnswerInv'
    BY <2>1, <2>2, <2>3 DEF AnswerInv, Acceptable
  <2> QED BY <2>1, <2>3, <2>4
          DEF ObjectInv, ServeInv, ReviewInv, ConversionPCs, SyncInv,
              AdmittedIsPublished, PublishedMeansTheSame
<1>4. CASE (ParseInterval \/ ConvertRule \/ Return \/ AdmitRuleGroups)
           /\ UNCHANGED objectVars
  <2>1. pc \in ConversionPCs
    BY <1>4 DEF ConversionPCs, ParseInterval, ConvertRule, Return, AdmitRuleGroups
  <2>2. Inv /\ WellFormed(request) /\ section = NoSection /\ fate = "none"
    BY <2>1 DEF ObjectInv, ReviewInv, SyncInv, ConversionPCs
  <2>3. Inv' /\ pc' \in ConversionPCs
    <3>1. Next
      BY <1>4 DEF Next
    <3>2. Inv'
      BY <2>2, <3>1, StepInv
    <3> QED BY <3>2 DEF Inv, TypeOK, ConversionPCs
  <2>4. UNCHANGED <<request, section, answer, fate, read, loaded>>
    BY <1>4 DEF objectVars
  <2>5. conf' = conf
    BY <1>4 DEF ParseInterval, ConvertRule, Return, AdmitRuleGroups
  <2>6. ReviewInv'
    BY <2>2, <2>3, <2>4 DEF ReviewInv, ConversionPCs, WellFormed
  <2>7. AnswerInv'
    BY <2>4, <2>5 DEF ObjectInv, AnswerInv, WellFormed, Acceptable
  <2> QED BY <2>2, <2>3, <2>4, <2>6, <2>7
          DEF ObjectInv, ServeInv, ConversionPCs, SyncInv, AdmittedIsPublished,
              PublishedMeansTheSame
<1> QED BY <1>1, <1>2, <1>3, <1>4

\* A scrape is checked by the webhook.
LEMMA AdmitScrapesStep ==
  ASSUME ObjectInv, AdmitScrapes
  PROVE  ObjectInv'
<1>1. /\ UNCHANGED <<conf, request, section, fate, read, loaded>>
      /\ pc = "scrape" /\ pc' = "answered" /\ fate = "none"
      /\ WellFormed(request) /\ section # NoSection
  BY DEF AdmitScrapes, Respond, ObjectInv, ReviewInv, SyncInv
<1>2. answer' = "allowed" => \E m \in Metadata : Verdict(Unmarshal(section, m)) = "ok"
  BY DEF AdmitScrapes, Respond
<1>3. AnswerInv'
  BY <1>1, <1>2 DEF AnswerInv, WellFormed
<1> QED BY <1>1, <1>3
        DEF ObjectInv, ServeInv, ReviewInv, ConversionPCs, SyncInv,
            AdmittedIsPublished, PublishedMeansTheSame

\* The sync reads an admitted scrape as the webhook did, unless the metadata
\* service has had a say.
LEMMA SyncScrapeStep ==
  ASSUME ObjectInv, SyncScrape
  PROVE  ObjectInv'
<1>1. /\ UNCHANGED <<conf, request, section, answer, loaded>>
      /\ pc' = "synced" /\ section # NoSection
  BY DEF SyncScrape
<1>2. PICK m \in Metadata :
        LET c == Unmarshal(section, m)
        IN  /\ fate' = CASE Verdict(c) = "ok" -> "published"
                         [] Verdict(c) = "error" -> "skipped"
                         [] Verdict(c) = "panic" -> "panic"
            /\ read' = IF Verdict(c) = "ok" THEN c ELSE NoSection
  BY DEF SyncScrape
<1> DEFINE c == Unmarshal(section, m)
<1>3. Verdict(c) \in {"ok", "error", "panic"}
  BY DEF Verdict
<1>4. fate' = "published" <=> Verdict(c) = "ok"
  BY <1>2, <1>3
<1>5. SyncInv'
  BY <1>1, <1>2, <1>4 DEF SyncInv
<1>6. AdmittedIsPublished'
  <2> SUFFICES ASSUME answer = "allowed", ~(section.kind = "ec2" /\ section.region = Unset)
               PROVE  fate' = "published"
    BY <1>1 DEF AdmittedIsPublished
  <2>1. PICK n \in Metadata : Verdict(Unmarshal(section, n)) = "ok"
    BY <1>1 DEF ObjectInv, AnswerInv
  <2>2. c = Unmarshal(section, n)
    BY <1>1, UnmarshalGiven DEF ObjectInv
  <2> QED BY <1>4, <2>1, <2>2
<1> QED BY <1>1, <1>5, <1>6
        DEF ObjectInv, ServeInv, ReviewInv, ConversionPCs, AnswerInv, WellFormed,
            Acceptable, PublishedMeansTheSame

\* Prometheus reads of what was published what the sync had read.
LEMMA LoadStep ==
  ASSUME ObjectInv, PrometheusLoads
  PROVE  ObjectInv'
<1>1. /\ UNCHANGED <<conf, request, section, answer, fate, read>>
      /\ pc' = "loaded" /\ fate = "published"
  BY DEF PrometheusLoads
<1>2. PICK n \in Metadata : read = Unmarshal(section, n) /\ Verdict(read) = "ok"
  BY <1>1 DEF ObjectInv, SyncInv
<1>3. ~ExplicitEmpty(section) => loaded' = read
  <2> SUFFICES ASSUME ~ExplicitEmpty(section)
               PROVE  loaded' = read
    OBVIOUS
  <2>1. IsSection(section) /\ n \notin {Unset, Null}
    BY <1>1 DEF ObjectInv, SyncInv, Metadata, Unset, Null, Empty
  <2>2. Decode(Encode(read)) = read
    BY <1>2, <2>1, EncodeDecode DEF ExplicitEmpty
  <2>3. PICK m \in Metadata :
          loaded' = IF Verdict(Unmarshal(Encode(read), m)) = "ok"
                    THEN Unmarshal(Encode(read), m) ELSE NoSection
    BY DEF PrometheusLoads
  <2>4. read.kind = "ec2" => read.region # Empty
    <3>1. Checked(read)
      BY <1>2 DEF Verdict
    <3> QED BY <3>1 DEF Checked, EC2SDConfig
  <2>5. Unmarshal(Encode(read), m) = read
    BY <2>2, <2>4 DEF Unmarshal, WithRegion
  <2> QED BY <1>2, <2>3, <2>5
<1>4. PublishedMeansTheSame'
  BY <1>1, <1>3 DEF PublishedMeansTheSame, ExplicitEmpty
<1> QED BY <1>1, <1>4
        DEF ObjectInv, ServeInv, ReviewInv, ConversionPCs, AnswerInv, SyncInv,
            WellFormed, Acceptable, AdmittedIsPublished

LEMMA ObjectStep == ObjectInv /\ [AdmissionNext]_allVars => ObjectInv'
<1> SUFFICES ASSUME ObjectInv, [AdmissionNext]_allVars PROVE ObjectInv'
  OBVIOUS
<1>1. CASE AdmissionNext
  BY <1>1, ReviewStep, AdmitScrapesStep, SyncScrapeStep, LoadStep DEF AdmissionNext
<1>2. CASE UNCHANGED allVars
  <2>1. UNCHANGED vars /\ UNCHANGED objectVars
    BY <1>2 DEF allVars
  <2>2. Inv' <=> Inv
    BY <2>1 DEF vars, Inv, TypeOK, LoopInv, NoBadFor, ResultInv, Acceptable
  <2> QED BY <2>1, <2>2
          DEF vars, objectVars, ObjectInv, ServeInv, ReviewInv, ConversionPCs,
              AnswerInv, SyncInv, WellFormed, Acceptable, AdmittedIsPublished,
              PublishedMeansTheSame, ExplicitEmpty
<1> QED BY <1>1, <1>2

LEMMA ObjectInvHolds == AdmissionSpec => []ObjectInv
BY ObjectInit, ObjectStep, PTL DEF AdmissionSpec

\* The webhook answers `allowed' only to a well-formed review that it has
\* looked at.
THEOREM FailsClosedCorrect == AdmissionSpec => []FailsClosed
<1>1. ObjectInv => FailsClosed
  BY DEF ObjectInv, AnswerInv, FailsClosed
<1> QED BY <1>1, ObjectInvHolds, PTL

\* A scrape that was admitted is neither skipped by the sync nor does it end
\* it, unless its check rests on the metadata service.
THEOREM AdmittedIsPublishedCorrect == AdmissionSpec => []AdmittedIsPublished
<1>1. ObjectInv => AdmittedIsPublished
  BY DEF ObjectInv
<1> QED BY <1>1, ObjectInvHolds, PTL

\* Prometheus reads of what was published what the sync had read of the
\* author's YAML.
THEOREM PublishedMeansTheSameCorrect == AdmissionSpec => []PublishedMeansTheSame
<1>1. ObjectInv => PublishedMeansTheSame
  BY DEF ObjectInv
<1> QED BY <1>1, ObjectInvHolds, PTL

\* With the requests around it, the conversion of rule groups still decides
\* right and whole, and the answer that goes out is its verdict: a well-formed
\* review of a rule group is answered `allowed' if and only if all of the group
\* is valid.
THEOREM RuleGroupAnswerCorrect ==
  AdmissionSpec =>
    [](/\ AdmitsAcceptable /\ ConvertsWhole
       /\ WellFormed(request) /\ section = NoSection /\ answer # "none" =>
            (answer = "allowed" <=> Acceptable))
<1>1. ObjectInv => AdmitsAcceptable /\ ConvertsWhole
  BY DEF ObjectInv, ReviewInv, ConversionPCs, Inv, ResultInv, AdmitsAcceptable,
         ConvertsWhole
<1>2. ObjectInv => (WellFormed(request) /\ section = NoSection /\ answer # "none" =>
                      (answer = "allowed" <=> Acceptable))
  BY DEF ObjectInv, AnswerInv
<1> QED BY <1>1, <1>2, ObjectInvHolds, PTL

=============================================================================
