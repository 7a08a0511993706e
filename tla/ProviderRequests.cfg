\* Two calls at a time for one streamed request.  The second entry's model is
\* not offered, the third entry's provider has no adapter.
CONSTANTS
  main = main
  spare = spare
  Requests = {q1}
  Streamed = {q1}
  Entries = 3
  Providers = {main, spare}
  ProviderOf <- ChainOfThree
  Offered = {1, 3}
  Adapted = {1}
  Callers = {c1, c2}
  Operators = {o1}
  MaxAttempts = 2
  OddIds = {FALSE}
  MaxClaims <- ThreeThenOne
SPECIFICATION Spec
SYMMETRY Symmetry
INVARIANTS OneSender NewestAnswer 
CHECK_DEADLOCK FALSE
