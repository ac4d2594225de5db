----------------------------- MODULE Migrations -----------------------------
(***************************************************************************)
(* The schema migrations that every server instance runs at startup:       *)
(* migrations.Up (migrations/migrate.go), called by app.New                *)
(* (internal/app/app.go), which exits on an error and is started again by  *)
(* docker.                                                                 *)
(*                                                                         *)
(* An instance talks to PostgreSQL over one connection.  The server side   *)
(* of it - the session - holds the advisory lock and the open transaction; *)
(* the two sides may lose each other.  When the server drops a session,    *)
(* its lock is free at once and the instance learns of it at its next      *)
(* statement.  When the instance gives up or dies, the server may need a   *)
(* while to notice: until then the session is an orphan that keeps the     *)
(* lock, and a COMMIT already on its way may still take effect.            *)
(*                                                                         *)
(* Abstracted: the SQL of a migration (it succeeds, or it is in broken),   *)
(* and the list Up returns, which is only logged.                          *)
(***************************************************************************)
EXTENDS Naturals, Sequences, FiniteSets

CONSTANTS
  Instances,  \* server processes sharing the database
  Versions,   \* the versions shipped so far, numbered in name order
  Embedded,   \* Embedded[i]: the versions in the binary of instance i
  MayBreak,   \* versions whose SQL may fail on some database
  NoOne,      \* the advisory lock is free
  Orphan,     \* it is held by a session whose instance is gone
  MaxFaults   \* bound: errors, crashes, lost connections and restarts

(* A build that embeds a version embeds every earlier one: shipped files   *)
(* are never removed and a new file gets the next number.                  *)
ASSUME MigrationsAssumption ==
  /\ Versions \subseteq Nat \ {0}
  /\ Embedded \in [Instances -> SUBSET Versions]
  /\ \A i \in Instances : \A v \in Embedded[i], w \in Versions : w < v => w \in Embedded[i]
  /\ MayBreak \subseteq Versions
  /\ NoOne # Orphan /\ NoOne \notin Instances /\ Orphan \notin Instances
  /\ MaxFaults \in Nat

VARIABLES
  broken,    \* the versions whose SQL fails on this database
  pc,        \* the statement each instance is about to run
  alive,     \* whether the server still has the instance's session
  done,      \* the versions the instance's SELECT returned
  at,        \* the version its loop stands at, 0 before the first
  holder,    \* whose session holds the advisory lock
  inFlight,  \* the version an orphan's COMMIT is for, 0 if none
  applied,   \* the migrations whose SQL is committed, in commit order
  recorded,  \* the rows of schema_migrations
  faults     \* faults so far

vars == <<broken, pc, alive, done, at, holder, inFlight, applied, recorded, faults>>

Loop   == {"next", "apply", "record", "commit"}
Locked == {"create", "list"} \cup Loop
Active == {"lock"} \cup Locked
-----------------------------------------------------------------------------
Init ==
  /\ broken \in SUBSET MayBreak
  /\ pc = [i \in Instances |-> "down"]
  /\ alive = [i \in Instances |-> FALSE]
  /\ done = [i \in Instances |-> {}]
  /\ at = [i \in Instances |-> 0]
  /\ holder = NoOne
  /\ inFlight = 0
  /\ applied = <<>>
  /\ recorded = {}
  /\ faults = 0

GoTo(i, p) == pc' = [pc EXCEPT ![i] = p]

\* The process starts and takes a connection of its own from the pool.
Connect(i) ==
  /\ pc[i] = "down"
  /\ GoTo(i, "lock")
  /\ alive' = [alive EXCEPT ![i] = TRUE]
  /\ UNCHANGED <<broken, done, at, holder, inFlight, applied, recorded, faults>>

\* Mutation: pg_try_advisory_lock, with its answer ignored.
LockIgnored(i) ==
  /\ pc[i] = "lock" /\ alive[i]
  /\ holder' = IF holder = NoOne THEN i ELSE holder
  /\ GoTo(i, "create")
  /\ UNCHANGED <<broken, alive, done, at, inFlight, applied, recorded, faults>>

\* pg_advisory_lock waits until the lock is free.
Lock(i) ==
  /\ pc[i] = "lock" /\ alive[i]
  /\ holder = NoOne
  /\ holder' = i
  /\ GoTo(i, "create")
  /\ UNCHANGED <<broken, alive, done, at, inFlight, applied, recorded, faults>>

CreateTable(i) ==
  /\ pc[i] = "create" /\ alive[i]
  /\ GoTo(i, "list")
  /\ UNCHANGED <<broken, alive, done, at, holder, inFlight, applied, recorded, faults>>

ListApplied(i) ==
  /\ pc[i] = "list" /\ alive[i]
  /\ done' = [done EXCEPT ![i] = recorded]
  /\ at' = [at EXCEPT ![i] = 0]
  /\ GoTo(i, "next")
  /\ UNCHANGED <<broken, alive, holder, inFlight, applied, recorded, faults>>

\* The names the loop has still to visit and will not skip.
Pending(i) == {v \in Embedded[i] : v > at[i] /\ v \notin done[i]}

\* Mutation: the glob's order is kept, whatever it is.
BeginUnsorted(i) ==
  /\ pc[i] = "next" /\ alive[i]
  /\ \E v \in Embedded[i] \ done[i] : at' = [at EXCEPT ![i] = v]
  /\ GoTo(i, "apply")
  /\ UNCHANGED <<broken, alive, done, holder, inFlight, applied, recorded, faults>>

\* Mutation: the next number is tried, whether or not such a file exists.
BeginByNumber(i) ==
  /\ pc[i] = "next" /\ alive[i]
  /\ at' = [at EXCEPT ![i] = at[i] + 1]
  /\ GoTo(i, "apply")
  /\ UNCHANGED <<broken, alive, done, holder, inFlight, applied, recorded, faults>>

\* Skip what is applied, open a transaction for the next version.
Begin(i) ==
  /\ pc[i] = "next" /\ alive[i]
  /\ \E v \in Pending(i) :
       /\ \A w \in Pending(i) : v <= w
       /\ at' = [at EXCEPT ![i] = v]
  /\ GoTo(i, "apply")
  /\ UNCHANGED <<broken, alive, done, holder, inFlight, applied, recorded, faults>>

\* Mutation: a migration whose SQL fails is passed over.
ApplyOrSkip(i) ==
  /\ pc[i] = "apply" /\ alive[i]
  /\ GoTo(i, IF at[i] \in broken THEN "next" ELSE "record")
  /\ UNCHANGED <<broken, alive, done, at, holder, inFlight, applied, recorded, faults>>

Apply(i) ==
  /\ pc[i] = "apply" /\ alive[i]
  /\ at[i] \notin broken
  /\ GoTo(i, "record")
  /\ UNCHANGED <<broken, alive, done, at, holder, inFlight, applied, recorded, faults>>

\* The insert succeeds unless the primary key is taken.
Record(i) ==
  /\ pc[i] = "record" /\ alive[i]
  /\ at[i] \notin recorded
  /\ GoTo(i, "commit")
  /\ UNCHANGED <<broken, alive, done, at, holder, inFlight, applied, recorded, faults>>

\* Mutation: the version is recorded outside the transaction, and lost.
TakeEffectUnrecorded(v) ==
  /\ applied' = Append(applied, v)
  /\ recorded' = recorded

\* The transaction takes effect: the SQL of v and its row, together.
TakeEffect(v) ==
  /\ applied' = Append(applied, v)
  /\ recorded' = recorded \cup {v}

Commit(i) ==
  /\ pc[i] = "commit" /\ alive[i]
  /\ TakeEffect(at[i])
  /\ GoTo(i, "next")
  /\ UNCHANGED <<broken, alive, done, at, holder, inFlight, faults>>

\* Mutation: no unlock; the connection goes back to the pool with its lock.
LetGoKeepingLock(i, v) ==
  /\ alive' = [alive EXCEPT ![i] = FALSE]
  /\ UNCHANGED <<holder, inFlight>>

\* The instance is through with its session, v being the version of a COMMIT on
\* its way.  The deferred unlock, or the end of the session, frees the lock: at
\* once, or when the server notices.  A lock request that is given up may still
\* be granted to the session before it ends.
LetGo(i, v) ==
  /\ \/ /\ holder = i
        /\ \/ holder' = NoOne /\ UNCHANGED inFlight
           \/ holder' = Orphan /\ inFlight' = v
     \/ /\ holder # i
        /\ UNCHANGED <<holder, inFlight>>
     \/ /\ pc[i] = "lock" /\ alive[i] /\ holder = NoOne
        /\ holder' = Orphan
        /\ UNCHANGED inFlight
  /\ alive' = [alive EXCEPT ![i] = FALSE]

\* Mutation: a database that has any migration is taken for migrated.
FinishEarly(i) ==
  /\ pc[i] = "next"
  /\ Pending(i) = {} \/ done[i] # {}
  /\ GoTo(i, "ready")
  /\ LetGo(i, 0)
  /\ UNCHANGED <<broken, done, at, applied, recorded, faults>>

\* No name is left: Up returns nil.  The error of the deferred unlock is ignored,
\* so a session lost since the last commit goes unnoticed.
Finish(i) ==
  /\ pc[i] = "next"
  /\ Pending(i) = {}
  /\ GoTo(i, "ready")
  /\ LetGo(i, 0)
  /\ UNCHANGED <<broken, done, at, applied, recorded, faults>>

\* Up must return an error: the session is gone, the SQL of the migration fails,
\* or the primary key of schema_migrations is taken.
MustFail(i) ==
  \/ ~alive[i] /\ ~(pc[i] = "next" /\ Pending(i) = {})
  \/ pc[i] = "apply" /\ at[i] \in broken
  \/ pc[i] = "record" /\ at[i] \in recorded

GiveUp(i) ==
  /\ GoTo(i, "down")
  /\ LetGo(i, IF pc[i] = "commit" /\ alive[i] THEN at[i] ELSE 0)
  /\ UNCHANGED <<broken, done, at, applied, recorded>>

\* Up returns the error, the open transaction rolled back; New closes the pool and
\* the process exits.
ReturnError(i) ==
  /\ pc[i] \in Active
  /\ MustFail(i)
  /\ GiveUp(i)
  /\ UNCHANGED faults

\* Some statement fails though it need not (the two minutes of app.go are over,
\* the network), or the process is killed.
Fault(i) ==
  /\ faults < MaxFaults
  /\ faults' = faults + 1
  /\ pc[i] \in Active
  /\ GiveUp(i)

\* The server ends the session: transaction rolled back, lock free.
Disconnect(i) ==
  /\ faults < MaxFaults
  /\ faults' = faults + 1
  /\ pc[i] \in Active /\ alive[i]
  /\ alive' = [alive EXCEPT ![i] = FALSE]
  /\ holder' = IF holder = i THEN NoOne ELSE holder
  /\ UNCHANGED <<broken, pc, done, at, inFlight, applied, recorded>>

\* A running server ends and is started again.
Restart(i) ==
  /\ faults < MaxFaults
  /\ faults' = faults + 1
  /\ pc[i] = "ready"
  /\ GoTo(i, "down")
  /\ UNCHANGED <<broken, alive, done, at, holder, inFlight, applied, recorded>>

\* The COMMIT of a session without an instance is carried out after all.
OrphanCommits ==
  /\ inFlight # 0
  /\ TakeEffect(inFlight)
  /\ inFlight' = 0
  /\ UNCHANGED <<broken, pc, alive, done, at, holder, faults>>

\* The server notices that the other side is gone and ends the session.
Reap ==
  /\ holder = Orphan
  /\ holder' = NoOne
  /\ inFlight' = 0
  /\ UNCHANGED <<broken, pc, alive, done, at, applied, recorded, faults>>

Step(i) ==
  \/ Connect(i) \/ Lock(i) \/ CreateTable(i) \/ ListApplied(i)
  \/ Begin(i) \/ Apply(i) \/ Record(i) \/ Commit(i)
  \/ Finish(i) \/ ReturnError(i)

Next ==
  \/ \E i \in Instances : Step(i) \/ Fault(i) \/ Disconnect(i) \/ Restart(i)
  \/ OrphanCommits
  \/ Reap

Spec == Init /\ [][Next]_vars

\* Processes run and are restarted, PostgreSQL answers, and a dead client is noticed.
Fairness == (\A i \in Instances : WF_vars(Step(i))) /\ WF_vars(Reap)

FairSpec == Spec /\ Fairness
-----------------------------------------------------------------------------
TypeOK ==
  /\ broken \subseteq Versions
  /\ pc \in [Instances -> {"down", "ready"} \cup Active]
  /\ alive \in [Instances -> BOOLEAN]
  /\ done \in [Instances -> SUBSET Versions]
  /\ at \in [Instances -> Versions \cup {0}]
  /\ holder \in Instances \cup {NoOne, Orphan}
  /\ inFlight \in Versions \cup {0}
  /\ applied \in Seq(Versions)
  /\ recorded \subseteq Versions
  /\ faults \in 0..MaxFaults

\* lockID "keeps two server instances from migrating the same database at the
\* same time" (migrate.go:23): a session past the lock is the one that holds it,
\* and a commit still on its way keeps every other instance out.
OneMigrator ==
  /\ \A i \in Instances : (pc[i] \in Locked /\ alive[i]) => holder = i
  /\ inFlight # 0 => holder = Orphan

\* "Applied versions are recorded in schema_migrations, so every file runs exactly
\* once per database" (migrate.go:3): through crashes between any two statements,
\* commits whose answer is lost and two instances at once.
ExactlyOnce ==
  /\ recorded = {applied[k] : k \in 1..Len(applied)}
  /\ \A j, k \in 1..Len(applied) : j # k => applied[j] # applied[k]

\* "run in name order" (migrate.go:3), whichever instances ran them.
InNameOrder ==
  \A j, k \in 1..Len(applied) : j < k => applied[j] < applied[k]

\* An instance that goes on to serve has the schema its code was written for, also
\* when another one migrated, or its own session was lost at the end.
ReadyIsMigrated ==
  \A i \in Instances : pc[i] = "ready" => Embedded[i] \subseteq recorded

\* The snapshot read once under the lock stays right until the lock is given up.
SnapshotIsCurrent ==
  \A i \in Instances : (pc[i] \in Loop /\ alive[i]) =>
    recorded = done[i] \cup {v \in Embedded[i] : v < at[i] \/ (v = at[i] /\ pc[i] = "next")}

\* Once faults stop, every instance comes up: no crash leaves the lock taken for
\* good or the table in a state that makes the next attempt fail.
EveryoneGetsReady ==
  broken = {} => \A i \in Instances : <>[](pc[i] = "ready")

\* The migrations refine the promise of the package comment, and a migration whose SQL
\* fails stops every later one, in every instance (migrate.go:78).
Promise == INSTANCE SchemaLog WITH log <- applied
RunsOnceInOrder == Promise!Spec
=============================================================================
