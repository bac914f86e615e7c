SPECIFICATION Spec
CONSTANTS
  http = http
  https = https
  Components <- MCComponents
  Required = {1, 3}
  Checked = {1, 2}
  Graphs <- MCGraphs
  Before <- MCBefore
  Servers <- MCOne
CHECK_DEADLOCK FALSE
INVARIANTS RestartRuns
