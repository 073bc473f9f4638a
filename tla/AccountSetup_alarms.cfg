\* Two commands on one account, and its user in the console.
SPECIFICATION Spec
CONSTANTS
  Caller = {"c1", "c2"}
  NRules = 2
  Faults = {"refused", "lost", "unheard"}
INVARIANTS TypeOK PromisedRulesPresent ResetMeansDefault
CHECK_DEADLOCK FALSE
