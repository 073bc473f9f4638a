\* The policy and reconfigurations whose setup may fail; no command is killed.
SPECIFICATION Spec
CONSTANTS
  Command = {"c1"}
  Operations = {"policy", "reconfigure"}
  MaxIssued = 3
  Mishaps = {"setup_fails"}
INVARIANTS OptOutPreserved
