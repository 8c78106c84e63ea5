SPECIFICATION Spec
CONSTANTS
  Note = {n}
  Program = {p}
  SysEx = {x}
  Ticks = {0, 2, 7, 9}
  timeCodeDuration = 2
  MaxInt = 3
  MaxMidiEvents = 2
  MaxGiven = 3
  MaxIncoming = 3
INVARIANTS
  TypeOK
  WrittenInOrder
  WrittenAsGiven
  ReceivedAllOrNone
