SPECIFICATION Spec
CONSTANTS
  mig = mig
  nat = nat
  ann = ann
  bare = bare
  alt = alt
  shared = shared
  unknown = unknown
  Blank = Blank
  None = None
  Loans = {mig, nat, ann, bare}
  Accounts = {mig, nat, alt, shared, unknown}
  Bank <- MCBank
  Quality <- MCQuality
  Cutoff = 2
  FirstDay = 3
  MaxDay = 5
  PageSize = 2
  Closable = {mig}
  Doubled = {mig}
  Requests = {r1}
INVARIANTS
  AnswersTheRightLoan
  EvidenceIsOfItsDay
  NotFoundMeansUnknown
  HistoryIsStable
