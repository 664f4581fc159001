CONSTANTS Tabs = {t1}
          MaxQuestions = 2
          MaxSessions = 2
          MaxHistory = 2
SPECIFICATION FairSpec
INVARIANTS RecordedOnce
PROPERTIES TabsMoveForward ExpiredInterviewEnds
CHECK_DEADLOCK FALSE
