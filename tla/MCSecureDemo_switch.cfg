SPECIFICATION Spec
CONSTANTS
  Addr <- MCAddr
  Dir <- MCDir
  CtrMod = 7
  Proc <- OneProc
  Directory <- OneDirectory
  FileKeys <- OneKey
  FileCtr <- MCFileCtr
  FrameLen <- OneLength
  Options <- Reswitch
INVARIANT RoundTripVerifies
