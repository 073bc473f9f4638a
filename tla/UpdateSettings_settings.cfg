\* Every command, one at a time; it may die half way and a setup may fail.
SPECIFICATION Spec
CONSTANTS
  Command = {"c1"}
  Operations = {"policy", "install", "reconfigure", "uninstall"}
  MaxIssued = 3
  Mishaps = {"killed", "setup_fails"}
INVARIANTS TypeOK CredentialsKept OptOutHonoured
