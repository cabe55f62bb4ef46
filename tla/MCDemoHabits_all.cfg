SPECIFICATION HabitSpec
CONSTANTS
  p = p
  q = q
  Addr <- BothAddr
  Dir <- Directions
  CtrMod = 8
  Proc <- Terminals
  Directory <- Home
  FileKeys <- AnyKeys
  FileCtr <- Seeds
  FrameLen <- Lengths
  Options <- AnyOption
SYMMETRY Swapped
INVARIANTS
  TypeOK
  NoReuseBeforeSelfTest
  FramesVerifyInOneMode
  SelfTestAlwaysPasses
