SPECIFICATION Spec
CONSTANTS
  http = http
  https = https
  Components <- MCComponents
  Required = {1, 3}
  Checked = {1, 2}
  Graphs <- MCGraphs
  Before <- MCBefore
  Servers <- MCTwo
INVARIANTS DependenciesUp StopsDependentsFirst ResultHonest
PROPERTIES LifespanMovesOn
CHECK_DEADLOCK FALSE
