CONSTANTS
  a = a
  b = b
  web = web
  api = api
  Runs = {a, b}
  Names = {web, api}
  Name <- MCName
  Cleans = {c1, c2}
  Readers = {c2}
  Failing = {a, b}
SPECIFICATION Spec
CHECK_DEADLOCK FALSE
INVARIANTS TypeOK ActsOnTheOne CleanReports
