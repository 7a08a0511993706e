\* Two humans and two schedulers at once; the two humans again, at the plan's
\* card and on the web; two calls of decompose, each with a transport retry, over lists of
\* up to three tasks.
CONSTANTS
  Users = {u1, u2}
  Schedulers = {s1, s2}
  MaxRevisions = 2
  build = build
  Build = Build
  test = test
  typo = typo
  Keys = {build, Build, test}
  Names = {build, Build, test, typo}
  Lower <- LowerOf
  Score <- ScoreOf
  Answers <- ListsOfThree
  MaxTasks = 3
  MaxTransport = 1
  MaxTicks = 2
SPECIFICATION PeopleSpec
INVARIANTS PaperTrail GraphAsAnswered
PROPERTIES ExecutedInTurn CardsKeepTheirWord
CHECK_DEADLOCK FALSE
