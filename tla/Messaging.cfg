\* Two chats with one lane between them and one fault; a result of two
\* messages and two crashes; three processes and the lock of a dead one;
\* a turn of three rounds, two flood strikes and an answer of two messages; two
\* updates of two senders at the door and two requests beside them.
CONSTANTS
  Surfaces = {"in", "out", "lock", "chat", "door"}
  Chats = {c1, c2}
  Poller = poller
  MaxLanes = 1
  MaxQueue = 1
  MaxUpdates = 2
  MaxFaults = 1
  Results = {r1}
  Drains = {tick, loop}
  MaxAttempts = 3
  Chunks = 2
  MaxCrashes = 2
  Processes = {p1, p2, p3}
  Dead = dead
  MaxToolRounds = 2
  MaxFloodStrikes = 2
  MaxParts = 2
  MaxEvents = 3
  MaxTurns = 1
  Senders = {s1, s2}
  Users = {owner, u1}
  Owner = owner
  Rooms = {d1}
  Doors = {h1, h2}
  AccessModes = {"owner_only", "groups"}
  AllowUsers = {s1}
  ListedRooms = {d1}
  Muted = {}
  MaxArrivals = 2
  MaxRequests = 2
SPECIFICATION Spec
INVARIANTS  NoBlindRetry Converges AdmissionSound
PROPERTIES Concluded
CHECK_DEADLOCK FALSE
