SPECIFICATION JobsSpec
CONSTANTS
  Tasks = {t1}
  Processes = {p1, p2}
  Nobody = Nobody
  Requests = {r1, r2}
  Drafts = {d1}
  NoDraft = NoDraft
PROPERTIES TasksGetOn CatchesUp RequestsReturn
CHECK_DEADLOCK FALSE
