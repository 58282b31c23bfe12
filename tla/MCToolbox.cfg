SPECIFICATION Spec
CONSTANTS
  c1 = c1
  c2 = c2
  builtins = builtins
  host = host
  Callers = {c1, c2}
  Registrars = {builtins, host}
  Builtins = {builtins}
  FuncIDs <- MCFuncIDs
  Nobody = Nobody
  Families <- MCFamilies
  MaxClock = 2
  DefaultMaxMatches = 2
  MaxMaxMatches = 3
  MaxContextLines = 2
  MaxReturnedLines = 6
  MaxRangeLines = 3
  DefaultTimeout = 2
  HardMaxTimeout = 3
  DefaultMaxCommandLength = 40
  HardMaxCommandLength = 60
  DefaultMaxArgBytes = 4
  MaxEnvVars = 2
  Symbols <- MCSymbols
INVARIANTS ToolboxTypeOK RegistrationHolds TimeoutJustified VersionsExplained ReadersAgree
  QuotedIsOneCommand ScriptJustified FilterAgrees EnvLayers
PROPERTY EditIsExact
CHECK_DEADLOCK FALSE
