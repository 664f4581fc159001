\* One tab with two flushes, a queue of two, batches of one, three days.
CONSTANTS
  EventNames = {"submitted", "viewed"}
  PermittedOn <- MCPermittedOn
  ValuesOf <- MCValuesOf
  MaxBatch = 2
  MaxRangeDays = 2
  MaxLookback = 3
  DefaultDays = 2
  NoDate = NoDate
  Tabs = {t1}
  Flushes = {1, 2}
  MaxQueue = 2
  ClientBatch = 1
  Events <- MCEvents
  Bodies <- MCBodies
  Filters <- MCFilters
  Retention = 1
  MaxDay = 4
  MaxEvents = 3
  MaxForeign = 2
  MaxLoads = 2
SPECIFICATION AnalyticsSpec
CHECK_DEADLOCK FALSE
INVARIANTS QueueIsSound CountersAddUp 
PROPERTIES PastDaysAreSettled
