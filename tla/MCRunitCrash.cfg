CONSTANTS
  n1 = n1
  n2 = n2
  Inits = {n1}
  Polls = 1
  ExecFails = FALSE
SPECIFICATION Spec
PROPERTIES CrashHandled
