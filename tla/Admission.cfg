SPECIFICATION AdmissionSpec
CONSTANT MaxRules = 3
CHECK_DEADLOCK FALSE
INVARIANTS AdmitsAcceptable ConvertsWhole FailsClosed AdmittedIsPublished PublishedMeansTheSame
