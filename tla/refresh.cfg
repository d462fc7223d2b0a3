\* Scheduled refreshes, a request to refresh, notices and restarts over two days.
SPECIFICATION FairSpec
CONSTANTS
  Nobody = Nobody
  Scheduler = Scheduler
  Malformed = Malformed
  o1 = o1
  o2 = o2
  o3 = o3
  i1 = i1
  Requests = {q1}
  Orders = {o1, o2, o3}
  Anonymous = {o3}
  Branch <- MCBranch
  Answers <- MCAnswers
  Items = {i1}
  Deadline <- MCDeadline
  LastShared = 3
  LastMoment = 5
INVARIANTS TypeOK StoredOnce SummaryAgrees ShownAgrees WarnedOnce
PROPERTIES OncePerDay RunsEnd
