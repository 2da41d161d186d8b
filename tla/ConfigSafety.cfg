SPECIFICATION Spec
CONSTANTS
  Themes <- MCThemes
  Statements <- MCStatements
  CmdOptions <- MCCmdOptions
  CmdArgs <- MCArgs
  Skeletons <- MCSkeletons
  Netrcs <- MCNetrcs
  Paths <- MCPaths
  Compiled <- MCCompiled
  MaxOptions = 2
  MaxCmd = 1
INVARIANTS OptionsAsTold PolledAsTold PasswordsBelong RoundTrip
CHECK_DEADLOCK FALSE
