\* One administrator, one operation at a time, two questions, anything may be lost.
CONSTANTS
  Pages = {alice}
  Ids = {q1, q2}
  Jobs = {j1}
  MaxOps = 3
  CallsFail = TRUE
SPECIFICATION FairPageSpec
CHECK_DEADLOCK FALSE
 
PROPERTIES PublishingIsDeliberate PanelSettles
