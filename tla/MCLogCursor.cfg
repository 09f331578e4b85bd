SPECIFICATION Spec
CONSTANTS
  Texts = {"a", "b"}
  Traces = {"b"}
  Wanted = {"a"}
  Rewind = 0
  Ceiling = 3
  Tails = {1}
  Limit = 1
  MaxLines = 5
  MaxNow = 1
INVARIANTS LogInv
PROPERTIES PagesJoin ResetIsReal
\* The container may write no more and the viewer leave.
CHECK_DEADLOCK FALSE
