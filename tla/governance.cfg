SPECIFICATION Spec
CONSTANTS
  Operators = {operator}
  Readers = {reader}
  MaxCommands <- MCMaxCommands
  MaxReports = 1
  MaxKills <- MCMaxKills
  NoteContents = {"x"}
  Verdicts = {"expected", "other"}
  Replies = {"expected", "other"}
  Versions = {"1", "2"}
  ToolSets = {{}, {"write"}}
  Packages <- MCPackages
  Checkpoints = {"a", "b"}
  Contents = {"new", "newer"}
  Anchors = {"one", "two"}
  Agents = {"agent"}
  Tasks = {"plan"}
  Answers = {"conforming", "other"}
  Families = {"memory", "security", "capsules", "sandbox", "hibernation", "soul", "prompts", "chat"}
INVARIANTS
  AuditsExplained
  PacksAreClean
  PublishedHasEvidence
  DoneOnce
  AnswersBoundPrompt
PROPERTIES
  PromotionAsRehearsed
  ToolsFollowConformingAnswers
CHECK_DEADLOCK FALSE
