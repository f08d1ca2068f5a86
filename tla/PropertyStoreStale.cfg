SPECIFICATION Spec
CONSTANTS
  Texts = {en, name}
  TooLong = {}
  Supported = {en}
  English = en
  Generated = name
  Empty = Empty
  Blank = Blank
  Absent = Absent
  Faults = {"send"}
  en = en
  name = name
INVARIANT ChangesTold
