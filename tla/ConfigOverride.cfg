SPECIFICATION Spec
CONSTANTS
  Themes = {"lists"}
  Statements <- MCStatements
  CmdOptions <- MCCmdOptions
  CmdArgs <- MCArgs
  Skeletons <- MCSkeletons
  Netrcs <- MCNetrcs
  Paths <- MCPaths
  Compiled <- MCCompiled
  MaxOptions = 2
  MaxCmd = 1
INVARIANT
  CommandLineOverrides
CHECK_DEADLOCK FALSE
