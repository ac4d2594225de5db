------------------------------ MODULE MCDigest ------------------------------
(* Small instances of Digest for TLC: days of four hours.                  *)
EXTENDS Digest

Z(b, s, c) == [base |-> b, shift |-> s, change |-> c]

\* East and west of Greenwich, without a change, and with one either way at any hour
\* of the third day or so.
AllZones == {Z(b, 0, 0) : b \in -1..1} \cup {Z(b, s, c) : b \in -1..1, s \in {-1, 1}, c \in 8..11}

MCHours == {-1, 0, 2}

\* Those in which every configured hour is shown on every day.
MCZones == {z \in AllZones : Ordinary(z)}

\* Zones that leave out midnight, the only hour configured with them.
GapZones == AllZones \ MCZones
=============================================================================
