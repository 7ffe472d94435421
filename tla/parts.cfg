CONSTANTS
  TreeOps = 3
  RequestOps = 5
  TerminalOps = 3
  NoteOps = 4
  GitOps = 5
  PageOps = 3
  OutputKept = 6
  OutputChunk = 4
  ScrollChanges = 2
  FramesSent = 3
  ShellOps = 3
  Retries = 1
  Requested = 6
  ScrollMoves = 4

SPECIFICATION Spec
INVARIANTS
  PartsTypeOK
  TreeFaithful
  FramesWhole
  ToldOnce
  TimelineFaithful
  StatusSettles
  EveryLineRead
  CommandShown
  CompleteAnswers
  TerminalFaithful
  InputOrdered
  FramesFaithful
  FanoutFaithful
  AuditFaithful
  NoteOnce
  StagedShown
  SessionsHaveProject
  SeenOrCounted
PROPERTY RequestsStayGone
CHECK_DEADLOCK FALSE
