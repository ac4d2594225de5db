----------------------------- MODULE MCTracking -----------------------------
(* Small instances of Tracking for TLC.                                    *)
EXTENDS Tracking, TLC

CONSTANTS s1, s2, v1, v2

E(s, v, t) == [session |-> s, visitor |-> v, type |-> t, name |-> "", bot |-> FALSE]

\* Two sessions of one visitor, a session id that a second visitor reuses, an
\* event that is no pageview, and one body for each way out before the insert.
MCIncoming ==
  { E(s1, v1, "pageview"), E(s2, v1, "pageview"), E(s1, v1, "heartbeat"),
    E(s1, v2, "pageview"),
    [E(s1, v1, "custom") EXCEPT !.name = "resume_download"],
    [E(s1, v1, "pageview") EXCEPT !.bot = TRUE],
    E(NoId, v1, "pageview"), E(s1, v1, "unknown"), E(s1, v1, "custom") }

Symmetry == Permutations(Requests)
=============================================================================
