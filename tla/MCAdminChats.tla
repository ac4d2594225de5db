---------------------------- MODULE MCAdminChats ----------------------------
(* Small instances of AdminChats for TLC.                                  *)
EXTENDS AdminChats, TLC

\* One admin in two spellings, an admin who may be dismissed, and a stranger.
MCSpellings == {"Ann", "ann", "bob", "eve"}
MCLowerCase == [n \in MCSpellings |-> IF n = "Ann" THEN "ann" ELSE n]

R(op, name, chat, mode) == [op |-> op, name |-> name, chat |-> chat, mode |-> mode]

MCWanted ==
  { R("start", "Ann", "pm", "all"), R("start", "ann", "pm", "all"), R("start", "ann", "group", "all"),
    R("start", "bob", "group", "all"), R("start", "eve", "pm", "all"),
    R("dg", "ann", "pm", "all"), R("dg", "bob", "group", "all"),
    R("nm", "ann", "pm", "off"), R("nm", "eve", "group", "new"), R("nm", "bob", "group", "other") }

Symmetry == Permutations(Taps)
=============================================================================
