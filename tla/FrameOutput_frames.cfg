SPECIFICATION Spec
CONSTANTS
  Clients = {"software", "d3d11", "object"}
  Methods <- MCMethods
  FlagSets <- MCFlagSets
  QueueSizes = {1, 3}
  Window = 3
  FilmFrames = 2
  ExitFrames = 2
  MaxFrames <- MCMaxFrames
  MaxChanges <- MCMaxChanges
INVARIANTS
  TelecineAdapts
  HistoryUnbroken
  OnlyLastWithheld
  OutputForward
CHECK_DEADLOCK FALSE
