---------------------------- MODULE MCAnalytics ----------------------------
(* Small instances of Analytics for TLC.                                   *)
EXTENDS Analytics

E(s, v, type, name, place, tag, num) ==
  [session |-> s, visitor |-> v, type |-> type, name |-> name, place |-> place, tag |-> tag, num |-> num]

\* Two sessions of one visitor and one of another, one of them only with a lead and one
\* with a pageview without a page.
MCIncoming ==
  { E(1, 1, "custom", "resume_download", 1, 2, 0),
    E(2, 1, "pageview", "", 2, 1, 0),
    E(2, 1, "leave", "", 2, 2, 12),
    E(3, 2, "pageview", "", 0, 0, 0),
    E(3, 2, "custom", "contact_click", 1, 1, 0),
    E(3, 2, "custom", "scroll_depth", 1, 1, 50) }

R(a, b) == [from |-> a, to |-> b]

\* Three instants, each of a day of its own.
MCDay == <<1, 2, 3>>

\* The only valid one has one instant before it.
MCRanges == { R(2, 3), R(3, 2), R(1, 4), R(0, 1) }

L(r, c, t, l, o) == [range |-> r, converted |-> c, tag |-> t, limit |-> l, offset |-> o]

MCLists ==
  { L(R(1, 3), FALSE, 0, 0, -1), L(R(1, 3), TRUE, 0, 1, 1), L(R(2, 3), FALSE, 1, 9, 0),
    L(R(2, 1), FALSE, 0, 1, 0) }
=============================================================================
