\* Hosts that come, go, crash and change rooms, lost answers and records (no
\* symmetry: liveness).
CONSTANTS
  Hosts = {h1, h2}
  Watchers = {h1}
  Rooms = {r1, r2}
  RoomsOf <- AnyRoom
  Lossy = TRUE
  MaxRuns = 4
  MaxEvents = 3
SPECIFICATION Spec
INVARIANTS
  TypeOK
  ListsAgree
  RecordsListed
PROPERTY GoneIsUnlisted
CHECK_DEADLOCK FALSE
