CONSTANTS
  Note <- MCNote
  NoteHz <- MCNoteHz
  WavFile <- MCWavFile
  StrayHeader <- MCStrayHeader
  InitialCapacity = 1
  UIntMod = 200000
SPECIFICATION Spec
INVARIANTS
  IInv
  HeaderMatchesReference
  MelodyCoversMusic
  MelodyLasts
  GapsBridged
PROPERTIES
  BuildEnds
