\* Four rounds of two calls, and a breaker that trips at the third failure; two
\* calls of a tool from two processes with two versions of the code;
\* an answer of two calls, each in two fragments; a conversation of four messages,
\* with ids that are equal once they are rewritten or suffixed.
CONSTANTS
  Parts = {"rounds", "tools", "stream", "rendering"}
  MaxRounds = 4
  Boosts = 2
  EmptyRetries = 2
  AbortAt = 3
  ChildRounds = 2
  Batch = 2
  Failures = {f1, f2}
  Successes = {s1}
  Processes = {p1, p2}
  Versions = {1, 2}
  Calls = {c1, c2}
  Workspace = workspace_tool
  Extension = web_search
  Caps = {1}
  Unlimited = unlimited
  MaxGrants = 2
  MaxStarts = 2
  Indexes = {0, 1}
  Pieces = 2
  MaxTexts = 1
  Blank = blank
  RawIds = {"call.1", "call_1", "call"}
  Safe <- SafeId
  Suffixed <- SuffixedId
  MaxSuffix = 8
  MaxCalls = 2
  MaxHistory = 4
SPECIFICATION MCSpec
INVARIANTS  WithinCap  
PROPERTIES RoundsEnd
CHECK_DEADLOCK FALSE
