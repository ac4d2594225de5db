CONSTANTS
  Users = {"ann", "bob", "kim"}
  Admins = {"bob"}
  Code <- MCCode
  Updates = {"u1", "u2", "u3"}
  Asked <- MCAsked
  MaxStarts = 1
SPECIFICATION Spec
INVARIANTS
  TypeOK
  SpeaksTheReadersLanguage
  CacheSound
  HeardAndAnswered
CHECK_DEADLOCK FALSE
