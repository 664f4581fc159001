\* Two questions, pages of one, answers that may be kept for one tick.
CONSTANTS
  Ids = {"q1", "q2"}
  Contents <- MCContents
  RowsOf <- MCRowsOf
  Engines = {"SQL", "PySpark"}
  Difficulties = {"Easy", "Hard"}
  RefusedCategories = {"<"}
  Urls <- MCUrls
  Limit = 1
  Ttl = 1
  Absent = Absent
SPECIFICATION Spec
INVARIANTS CacheIsTimely QuietListingIsHonest
 
