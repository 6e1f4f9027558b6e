----------------------------- MODULE Admission -----------------------------
(***************************************************************************)
(* The way of one object from the request of its author to Prometheus:     *)
(* serveValidate and admit (webhook.go) with the conversion of a rule      *)
(* group (Conversion) or of a scrape (convertScrape, PromConfig); then,    *)
(* for a scrape, its conversion in syncConfigHandler, which marshals what  *)
(* it has read, and Prometheus reading that.  A section that only the      *)
(* template can have starts at the conversion.                             *)
(*                                                                         *)
(* A scrape is one section at a time: the check of one does not look at    *)
(* another, except at whether there are relabel_configs.  Prometheus is    *)
(* taken to read as prom2, which is a copy of its code, does.              *)
(***************************************************************************)
EXTENDS Conversion, PromConfig

VARIABLES
  request,                  \* what came in at /validate
  section,                  \* the YAML of the scrape
  answer,                   \* "none" (yet, or no review), "allowed", "denied"
  fate,                     \* what became of it in the sync: "none" (yet),
                            \* "published", "skipped", "panic"
  read,                     \* what was read of it in the sync
  loaded                    \* Prometheus' verdict and what it has read

objectVars == <<request, section, answer, fate, read, loaded>>
allVars == <<vars, objectVars>>

\* A request: is it JSON, what the body decodes to, what it asks about, and
\* whether the object decodes.
Requests ==
  [json : BOOLEAN, review : {"ok", "undecodable", "norequest"},
   resource : {"rulegroups", "scrapes", "other", "othergroup"}, object : BOOLEAN]

WellFormed(r) ==
  /\ r.json /\ r.review = "ok" /\ r.object
  /\ r.resource \in {"rulegroups", "scrapes"}

Good(res) ==
  [json |-> TRUE, review |-> "ok", resource |-> res, object |-> TRUE]

NoGroup == [interval |-> "none", rules |-> << >>]
NoSection == [kind |-> "none"]

\* Well-formed requests about every rule group and scrape, other requests, and
\* scrapes that are there although no webhook was registered.
AdmissionInit ==
  /\ i = 0 /\ err = 0
  /\ errs = << >> /\ rules = << >>
  /\ converted = FALSE /\ allowed = FALSE
  /\ \/ pc = "serve" /\ request = Good("rulegroups")
        /\ conf \in RuleGroups /\ section = NoSection
     \/ pc \in {"serve", "stored"} /\ request = Good("scrapes")
        /\ conf = NoGroup /\ section \in ScrapeSections
     \/ pc = "serve" /\ request \in {r \in Requests : ~WellFormed(r)}
        /\ conf = NoGroup /\ section = NoSection
     \/ pc = "stored" /\ request = Good("other")
        /\ conf = NoGroup /\ section \in TemplateSections
  /\ answer = "none" /\ fate = "none"
  /\ read = NoSection /\ loaded = NoSection

-----------------------------------------------------------------------------
Respond(a) == pc' = "answered" /\ answer' = a

\* A request of another content type gets an empty answer.  A review that does
\* not decode, or without a request, makes the handler follow a nil pointer;
\* the HTTP server recovers and closes the connection.
ServeValidate ==
  /\ pc = "serve"
  /\ ~request.json \/ request.review # "ok"
  /\ Respond("none")
  /\ UNCHANGED <<conf, i, err, errs, rules, converted, allowed,
                 request, section, fate, read, loaded>>

\* Slip: a rule group that does not decode is taken as it is: empty.
AdmitUndecoded ==
  /\ pc = "serve" /\ request.json /\ request.review = "ok"
  /\ \/ request.resource \in {"other", "othergroup"} /\ Respond("denied")
     \/ request.resource = "rulegroups" /\ pc' = "interval" /\ UNCHANGED answer
     \/ request.resource = "scrapes" /\ ~request.object /\ Respond("denied")
     \/ /\ request.resource = "scrapes" /\ request.object
        /\ pc' = "scrape" /\ UNCHANGED answer
  /\ UNCHANGED <<conf, i, err, errs, rules, converted, allowed,
                 request, section, fate, read, loaded>>

Admit ==
  /\ pc = "serve" /\ request.json /\ request.review = "ok"
  /\ \/ request.resource \in {"other", "othergroup"} /\ Respond("denied")
     \/ /\ request.resource \in {"rulegroups", "scrapes"} /\ ~request.object
        /\ Respond("denied")
     \/ /\ request.resource = "rulegroups" /\ request.object
        /\ pc' = "interval" /\ UNCHANGED answer
     \/ /\ request.resource = "scrapes" /\ request.object
        /\ pc' = "scrape" /\ UNCHANGED answer
  /\ UNCHANGED <<conf, i, err, errs, rules, converted, allowed,
                 request, section, fate, read, loaded>>

\* admitRuleGroups has decided.
RespondRuleGroup ==
  /\ pc = "done"
  /\ Respond(IF allowed THEN "allowed" ELSE "denied")
  /\ UNCHANGED <<conf, i, err, errs, rules, converted, allowed,
                 request, section, fate, read, loaded>>

\* The metadata service of the instance answers, or does not.
Metadata == {"region", Empty}

\* Slip: what can be parsed is admitted, whatever the checks say.
AdmitParsed ==
  /\ pc = "scrape"
  /\ Respond(IF UnmarshalScalars(Unmarshal(section, Empty)) THEN "allowed"
                                                            ELSE "denied")
  /\ UNCHANGED <<conf, i, err, errs, rules, converted, allowed,
                 request, section, fate, read, loaded>>

\* admitScrapes: what convertScrape says of it; a panic leaves no answer.
AdmitScrapes ==
  /\ pc = "scrape"
  /\ \E metadata \in Metadata :
       LET v == Verdict(Unmarshal(section, metadata))
       IN  \/ v = "ok" /\ Respond("allowed")
           \/ v = "error" /\ Respond("denied")
           \/ v = "panic" /\ Respond("none")
  /\ UNCHANGED <<conf, i, err, errs, rules, converted, allowed,
                 request, section, fate, read, loaded>>

\* The sync reads it again.  A panic ends the controller.
SyncScrape ==
  /\ section # NoSection
  /\ \/ pc = "stored"
     \/ pc = "answered" /\ answer = "allowed"
  /\ pc' = "synced"
  /\ \E metadata \in Metadata :
       LET c == Unmarshal(section, metadata)
       IN  /\ fate' = CASE Verdict(c) = "ok" -> "published"
                        [] Verdict(c) = "error" -> "skipped"
                        [] Verdict(c) = "panic" -> "panic"
           /\ read' = IF Verdict(c) = "ok" THEN c ELSE NoSection
  /\ UNCHANGED <<conf, i, err, errs, rules, converted, allowed,
                 request, section, answer, loaded>>

\* Prometheus reads what the sync has marshalled.
PrometheusLoads ==
  /\ pc = "synced" /\ fate = "published"
  /\ pc' = "loaded"
  /\ \E metadata \in Metadata :
       LET c == Unmarshal(Encode(read), metadata)
       IN  loaded' = IF Verdict(c) = "ok" THEN c ELSE NoSection
  /\ UNCHANGED <<conf, i, err, errs, rules, converted, allowed,
                 request, section, answer, fate, read>>

AdmissionNext ==
  \/ ServeValidate \/ Admit
  \/ /\ ParseInterval \/ ConvertRule \/ Return \/ AdmitRuleGroups
     /\ UNCHANGED objectVars
  \/ RespondRuleGroup \/ AdmitScrapes
  \/ SyncScrape \/ PrometheusLoads

AdmissionSpec == AdmissionInit /\ [][AdmissionNext]_allVars

-----------------------------------------------------------------------------
(***************************************************************************)
(* Properties.                                                             *)
(***************************************************************************)
\* The API server hears `allowed' only of a well-formed review whose object
\* was looked at: what does not decode is refused or left without an answer.
FailsClosed == answer = "allowed" => WellFormed(request)

\* A scrape that was admitted is published by the sync, which neither skips it
\* nor dies of it, unless its check rests on the metadata service, which may
\* have answered the webhook and not the sync.
AdmittedIsPublished ==
  answer = "allowed" /\ fate # "none" =>
    \/ fate = "published"
    \/ section.kind = "ec2" /\ section.region = Unset

\* A key given empty although its default is not: when it is written again it
\* is left out, and the reader takes the default.
ExplicitEmpty(y) ==
  \E f \in DOMAIN Default(y.kind) \ (AlwaysWritten \cup {"regex"}) :
    f \in DOMAIN y /\ y[f] \in {Empty, Null}

\* Prometheus accepts what the sync has read and written again, and reads the
\* same, whatever was left to defaults; but for the keys above.
PublishedMeansTheSame ==
  pc = "loaded" /\ ~ExplicitEmpty(section) => loaded = read

=============================================================================
