----------------------------- MODULE SchemaLog -----------------------------
(* What the migrations package promises of a database (the package comment *)
(* of migrations/migrate.go): every file runs exactly once, in name order; *)
(* one whose SQL fails is not passed over.                                 *)
EXTENDS Naturals, Sequences

CONSTANT Versions   \* the versions shipped so far, numbered in name order

VARIABLES
  broken,   \* those of them this database refuses
  log       \* the migrations that took effect, oldest first

Ran == {log[k] : k \in 1..Len(log)}

Init == broken \subseteq Versions /\ log = <<>>

Migrate(v) ==
  /\ v \notin Ran \cup broken
  /\ \A w \in Versions : w < v => w \in Ran
  /\ log' = Append(log, v)
  /\ UNCHANGED broken

Next == \E v \in Versions : Migrate(v)

Spec == Init /\ [][Next]_<<broken, log>>
=============================================================================
