CONSTANTS
  Spellings <- MCSpellings
  LowerCase <- MCLowerCase
  Chats = {"pm", "group"}
  Taps = {t1, t2, t3, t4}
  Wanted <- MCWanted
  AdminLists = {{"ann", "bob"}, {"ann"}}
  MaxStarts = 1
SYMMETRY Symmetry
SPECIFICATION Spec
INVARIANTS
  TypeOK
  RowsOfChatAgree
  TapsAlternate
PROPERTIES
  PreferencesKept
CHECK_DEADLOCK FALSE
