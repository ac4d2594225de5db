CONSTANTS
  Spellings <- MCSpellings
  LowerCase <- MCLowerCase
  Chats = {"pm", "group"}
  Taps = {t1, t2}
  Wanted <- MCWanted
  AdminLists = {{"ann", "bob"}, {"ann"}}
  MaxStarts = 1
SPECIFICATION Spec
INVARIANT
  OnlyConfiguredAdmins
CHECK_DEADLOCK FALSE
