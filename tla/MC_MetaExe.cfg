CONSTANTS
  ExeFile = ExeFile
  NewFile = NewFile
  NoFile = NoFile
SPECIFICATION Spec
INVARIANT
  NoExePathUseAfterFree
