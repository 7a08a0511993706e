\* One chat, and nothing crashes or raises.
CONSTANTS
  Surfaces = {"in"}
  Chats = {c1}
  Poller = poller
  MaxLanes = 1
  MaxQueue = 1
  MaxUpdates = 1
  MaxFaults = 0
  Results = {r1}
  Drains = {tick, loop}
  MaxAttempts = 1
  Chunks = 1
  MaxCrashes = 0
  Processes = {p1}
  Dead = dead
  MaxToolRounds = 2
  MaxFloodStrikes = 2
  MaxParts = 2
  MaxEvents = 3
  MaxTurns = 1
  Senders = {s1}
  Users = {owner}
  Owner = owner
  Rooms = {d1}
  Doors = {h1}
  AccessModes = {"owner_only"}
  AllowUsers = {s1}
  ListedRooms = {d1}
  Muted = {}
  MaxArrivals = 1
  MaxRequests = 1
SPECIFICATION Spec
INVARIANTS NothingLost
CHECK_DEADLOCK FALSE
