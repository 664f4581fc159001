CONSTANTS MaxRuns = 4
          MaxVisits = 2
SPECIFICATION FairSpec
INVARIANTS ResultsStayOnTheirQuestion NobodyWaitsInVain
PROPERTIES TimedRunsSettle
CHECK_DEADLOCK FALSE
