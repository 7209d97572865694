SPECIFICATION MCSpec
CONSTANTS
  AuthSetup <- AuthValues
  EditSetup <- EditValues
  WindowSetup <- WindowValues
  EnrolSetup <- EnrolValues
  FetchSetup <- FetchValues
  LimitSetup <- LimitValues
  AlertSetup <- AlertValues
  WatchSetup <- WatchValues
  LearnSetup <- LearnValues
  ReleaseSetup <- ReleaseValues
  ToolSetup <- ToolValues
  ControllerSetup <- ControllerValues
INVARIANTS TypeOK    NoStaleUninstall WithinLimits   AnnouncedOnce   
PROPERTIES Progress 
CHECK_DEADLOCK FALSE
