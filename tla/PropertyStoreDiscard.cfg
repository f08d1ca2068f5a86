SPECIFICATION Spec
CONSTANTS
  Texts = {en, name}
  TooLong = {}
  Supported = {en}
  English = en
  Generated = name
  Empty = Empty
  Blank = Blank
  Absent = Absent
  Faults = {}
  en = en
  name = name
PROPERTY PartialUpdatesDiscarded
