------------------------------- MODULE MCBot -------------------------------
(* Small instances of Bot for TLC.                                         *)
EXTENDS Bot

MCCode == [ann |-> "uk", bob |-> "de", kim |-> "ru"]

A(from, by, op, arg, new) == [from |-> from, by |-> by, op |-> op, arg |-> arg, new |-> new]

\* Ann turns to German while she and Bob ask for their resumes; three ask for the same
\* one; a press of every other kind.
MCAsked ==
  { [u1 |-> A("ann", "button", "lang", "de", FALSE),
     u2 |-> A("ann", "button", "resume", "", FALSE),
     u3 |-> A("bob", "start", "resume", "", TRUE)],
    [u1 |-> A("ann", "button", "resume", "", FALSE),
     u2 |-> A("kim", "command", "resume", "", TRUE),
     u3 |-> A("kim", "command", "resume", "", TRUE)],
    [u1 |-> A("ann", "button", "lang", "en", FALSE),
     u2 |-> A("ann", "button", "lang", "xx", FALSE),
     u3 |-> A("ann", "start", "view", "proj", TRUE)],
    [u1 |-> A("ann", "button", "view", "exp", FALSE),
     u2 |-> A("bob", "button", "view", "nowhere", FALSE),
     u3 |-> A("kim", "button", "none", "", FALSE)],
    [u1 |-> A("bob", "button", "admin", "", TRUE),
     u2 |-> A("kim", "button", "admin", "", FALSE),
     u3 |-> A("kim", "command", "admin", "", TRUE)] }
=============================================================================
