------------------------------- MODULE MCEdge -------------------------------
(* Small instances of Edge for TLC.                                        *)
EXTENDS Edge

MCCountry == [p |-> "DE", q |-> "RU"]

MCLimit == [track |-> 1, login |-> 1]

Credential(u, p) == [user |-> u, password |-> p]

\* The admin, no password, and another name with the password of the made-up hash.
MCCredentials ==
  {Credential("admin", "admin's"), Credential("admin", ""), Credential("other", "dummy's")}

\* Texts around the limit with runes of every width, times around both ends and none.
MCBodies ==
  {[text |-> <<>>, seconds |-> {3}], [text |-> <<1, 4>>, seconds |-> {-1}],
   [text |-> <<4, 1>>, seconds |-> {4}], [text |-> <<1, 2, 3>>, seconds |-> {}]}

\* Every way on which a proxy writes X-Real-IP or there is none; and those on which
\* none does.
MCDeployments == {{w \in Ways : ~PassedOn(w)}, {w \in Ways : PassedOn(w)}}
=============================================================================
