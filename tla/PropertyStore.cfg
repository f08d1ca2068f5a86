SPECIFICATION Spec
CONSTANTS
  Texts = {en, name, long, made}
  TooLong = {long}
  Supported = {en}
  English = en
  Generated = made
  Empty = Empty
  Blank = Blank
  Absent = Absent
  Faults = {"room", "crash", "torn", "send"}
  en = en
  name = name
  long = long
  made = made
INVARIANTS TypeOK RamIsSaved Announceable ToldAgrees
