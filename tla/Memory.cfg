SPECIFICATION Spec
CONSTANTS
  Subjects = {t1, t2}
  None = None
  Inputs = {"DECISION_JOURNAL", "EXECUTION_EVENT", "REVIEW_REF"}
  MaxAge <- Ages
  ArchiveAfter <- Archives
  MaxEvents = 2
  MaxDay = 3
  RecentMax = 3
  BlockedMax = 2
INVARIANTS QueriesAgree Remembered RingsAgree
