-------------------------- MODULE MigrationsProofs --------------------------
(***************************************************************************)
(* Proofs about Migrations, for any number of instances, versions, builds  *)
(* and faults.  The argument: the advisory lock makes the list read once   *)
(* under it stay right (LoopInv), so that the version a transaction is for *)
(* is always the smallest one missing; the committed versions are then a   *)
(* gap-free beginning of the shipped ones (NoGaps), and everything the     *)
(* package comment says follows.                                           *)
(***************************************************************************)
EXTENDS Migrations, TLAPS

\* The names instance i has dealt with: those before its position, and the one
\* at it once its transaction is committed.
Passed(i) == {v \in Embedded[i] : v < at[i] \/ (v = at[i] /\ pc[i] = "next")}

\* What the loop of an instance knows, whether or not its session still lives.
LoopInv ==
  \A i \in Instances :
    /\ pc[i] \in Loop => done[i] \cup Passed(i) \subseteq recorded
    /\ pc[i] \in Loop /\ alive[i] => recorded \subseteq done[i] \cup Passed(i)
    /\ pc[i] \in Loop \ {"next"} => at[i] \in Embedded[i] \ done[i]
    /\ pc[i] \in {"record", "commit"} => at[i] \notin broken

\* v is the smallest shipped version that is missing.
IsNext(v) ==
  /\ v \in Versions \ recorded
  /\ v \notin broken
  /\ \A w \in Versions : w < v => w \in recorded

NoGaps == \A v \in recorded, w \in Versions : w < v => w \in recorded

OrphanInv == inFlight # 0 => IsNext(inFlight)

IInv ==
  /\ TypeOK /\ OneMigrator /\ LoopInv /\ OrphanInv
  /\ NoGaps /\ recorded \cap broken = {}
  /\ ExactlyOnce /\ InNameOrder /\ ReadyIsMigrated
-----------------------------------------------------------------------------
\* The transaction an instance has open is for the next version.
LEMMA CommitIsNext ==
  ASSUME IInv, NEW i \in Instances, pc[i] = "commit", alive[i]
  PROVE  IsNext(at[i])
<1>1. at[i] \in Embedded[i] \ done[i] /\ at[i] \notin broken
  BY DEF IInv, LoopInv, Loop
<1>2. recorded = done[i] \cup Passed(i)
  BY DEF IInv, LoopInv, Loop
<1>3. Embedded[i] \subseteq Versions /\ Versions \subseteq Nat
  BY MigrationsAssumption
<1>4. at[i] \notin recorded
  <2>1. at[i] \in Nat
    BY <1>1, <1>3
  <2>2. at[i] \notin Passed(i)
    BY <2>1 DEF Passed
  <2>3. QED
    BY <1>1, <1>2, <2>2
<1>5. ASSUME NEW w \in Versions, w < at[i] PROVE w \in recorded
  <2>1. w \in Embedded[i]
    BY <1>1, <1>5, MigrationsAssumption
  <2>2. QED
    BY <1>2, <1>5, <2>1 DEF Passed
<1>6. QED
  BY <1>1, <1>3, <1>4, <1>5 DEF IsNext

\* A commit of the next version keeps what is known of the table and the log.
LEMMA EffectKeepsLog ==
  ASSUME IInv, NEW v, IsNext(v), TakeEffect(v)
  PROVE  /\ recorded' = recorded \cup {v} /\ recorded' \subseteq Versions
         /\ applied' \in Seq(Versions)
         /\ NoGaps' /\ recorded' \cap broken = {}
         /\ ExactlyOnce' /\ InNameOrder'
<1>1. /\ applied \in Seq(Versions) /\ v \in Versions /\ v \notin recorded
      /\ recorded' = recorded \cup {v} /\ applied' = Append(applied, v)
      /\ Versions \subseteq Nat /\ recorded \subseteq Versions
  BY MigrationsAssumption DEF IInv, TypeOK, IsNext, TakeEffect
<1>2. /\ Len(applied) \in Nat /\ Len(applied') = Len(applied) + 1
      /\ \A k \in 1..Len(applied) : applied'[k] = applied[k]
      /\ applied'[Len(applied) + 1] = v
      /\ applied' \in Seq(Versions)
  BY <1>1
<1>3. NoGaps'
  BY <1>1 DEF IInv, NoGaps, IsNext
<1>4. recorded' \cap broken = {}
  BY <1>1 DEF IInv, IsNext
<1>5. \A w \in recorded : w < v
  BY <1>1 DEF IInv, NoGaps, IsNext
<1>6. \A k \in 1..Len(applied) : applied[k] \in recorded
  BY DEF IInv, ExactlyOnce
<1>7. InNameOrder'
  <2> SUFFICES ASSUME NEW j \in 1..Len(applied'), NEW k \in 1..Len(applied'), j < k
               PROVE  applied'[j] < applied'[k]
    BY DEF InNameOrder
  <2>1. CASE k = Len(applied) + 1
    BY <1>2, <1>5, <1>6, <2>1
  <2>2. CASE k # Len(applied) + 1
    BY <1>2, <2>2 DEF IInv, InNameOrder
  <2>3. QED
    BY <2>1, <2>2
<1>8. ExactlyOnce'
  <2>1. recorded = {applied[k] : k \in 1..Len(applied)}
    BY DEF IInv, ExactlyOnce
  <2>2. {applied'[k] : k \in 1..Len(applied')} = recorded \cup {v}
    BY <1>2, <2>1
  <2>3. ASSUME NEW j \in 1..Len(applied'), NEW k \in 1..Len(applied'), j # k
        PROVE  applied'[j] # applied'[k]
    <3>a. applied'[j] \in Versions /\ applied'[k] \in Versions
      BY <1>2
    <3>1. applied'[j] \in Nat /\ applied'[k] \in Nat
      BY <3>a, MigrationsAssumption
    <3>2. j < k \/ k < j
      BY <1>2, <2>3
    <3>3. QED
      BY <1>7, <3>1, <3>2 DEF InNameOrder
  <2>4. QED
    BY <1>1, <2>2, <2>3 DEF ExactlyOnce
<1>9. QED
  BY <1>1, <1>2, <1>3, <1>4, <1>7, <1>8

\* No instance is up and nothing is migrated: the invariant holds.
LEMMA InvInit == Init => IInv
<1> SUFFICES ASSUME Init PROVE IInv
  OBVIOUS
<1>1. TypeOK
  BY MigrationsAssumption DEF Init, TypeOK
<1>2. OneMigrator /\ LoopInv /\ OrphanInv
  BY DEF Init, OneMigrator, LoopInv, OrphanInv, Locked, Loop
<1>3. NoGaps /\ recorded \cap broken = {} /\ ExactlyOnce /\ InNameOrder /\ ReadyIsMigrated
  BY DEF Init, NoGaps, ExactlyOnce, InNameOrder, ReadyIsMigrated
<1>4. QED
  BY <1>1, <1>2, <1>3 DEF IInv

\* Steps that change neither the table nor the log keep what is known of them.
LEMMA SameTable ==
  ASSUME IInv, UNCHANGED <<broken, applied, recorded>>
  PROVE  NoGaps' /\ (recorded \cap broken = {})' /\ ExactlyOnce' /\ InNameOrder'
BY DEF IInv, NoGaps, ExactlyOnce, InNameOrder

\* An instance that lets its session go, for good or ill, keeps the invariant.
LEMMA LetGoKeeps ==
  ASSUME IInv, NEW i \in Instances, pc[i] \in Active, NEW to \in {"down", "ready"}, GoTo(i, to),
         NEW v, v # 0 => (v = at[i] /\ pc[i] = "commit" /\ alive[i]), LetGo(i, v),
         to = "ready" => Embedded[i] \subseteq recorded,
         UNCHANGED <<broken, done, at, applied, recorded>>, faults' \in 0..MaxFaults
  PROVE  IInv'
<1>1. /\ TypeOK
      /\ pc' = [pc EXCEPT ![i] = to]
      /\ alive' = [alive EXCEPT ![i] = FALSE]
      /\ \/ holder = i /\ holder' = NoOne /\ inFlight' = inFlight
         \/ holder = i /\ holder' = Orphan /\ inFlight' = v
         \/ holder # i /\ holder' = holder /\ inFlight' = inFlight
         \/ holder = NoOne /\ holder' = Orphan /\ inFlight' = inFlight
  BY DEF IInv, GoTo, LetGo
<1>2. v # 0 => IsNext(v)
  BY CommitIsNext
<1>3. v = 0 \/ v \in Versions
  BY <1>2 DEF IsNext
<1>4. TypeOK'
  <2>1. pc' \in [Instances -> {"down", "ready"} \cup Active]
    BY <1>1 DEF TypeOK
  <2>2. alive' \in [Instances -> BOOLEAN]
    BY <1>1 DEF TypeOK
  <2>3. holder' \in Instances \cup {NoOne, Orphan} /\ inFlight' \in Versions \cup {0}
    BY <1>1, <1>3 DEF TypeOK
  <2>4. QED
    BY <1>1, <2>1, <2>2, <2>3 DEF TypeOK
<1>5. OneMigrator'
  <2>1. holder = i \/ holder = NoOne => inFlight = 0
    BY MigrationsAssumption DEF IInv, OneMigrator
  <2>2. inFlight' # 0 => holder' = Orphan
    BY <1>1, <2>1 DEF IInv, OneMigrator
  <2>3. ASSUME NEW j \in Instances, pc'[j] \in Locked, alive'[j] PROVE holder' = j
    <3>1. j # i /\ pc[j] \in Locked /\ alive[j]
      BY <1>1, <2>3 DEF TypeOK
    <3>2. holder = j
      BY <3>1 DEF IInv, OneMigrator
    <3>3. QED
      BY <1>1, <3>1, <3>2, MigrationsAssumption
  <2>4. QED
    BY <2>2, <2>3 DEF OneMigrator
<1>6. LoopInv'
  <2> SUFFICES ASSUME NEW j \in Instances, pc'[j] \in Loop
               PROVE  /\ done[j] \cup Passed(j)' \subseteq recorded
                      /\ alive'[j] => recorded \subseteq done[j] \cup Passed(j)'
                      /\ pc'[j] \in Loop \ {"next"} => at[j] \in Embedded[j] \ done[j]
                      /\ pc'[j] \in {"record", "commit"} => at[j] \notin broken
    BY DEF LoopInv, Loop
  <2>1. j # i /\ pc'[j] = pc[j] /\ alive'[j] = alive[j]
    BY <1>1 DEF TypeOK, Loop
  <2>2. Passed(j)' = Passed(j)
    BY <2>1 DEF Passed
  <2>3. QED
    BY <2>1, <2>2 DEF IInv, LoopInv
<1>7. OrphanInv'
  BY <1>1, <1>2 DEF IInv, OrphanInv, IsNext
<1>8. ReadyIsMigrated'
  BY <1>1 DEF IInv, ReadyIsMigrated, TypeOK
<1>9. QED
  BY <1>4, <1>5, <1>6, <1>7, <1>8, SameTable DEF IInv

\* A commit - an instance's, or an orphan's - of the next version.
LEMMA CommitKeeps ==
  ASSUME IInv, NEW i \in Instances, Commit(i)
  PROVE  IInv'
<1>1. /\ TypeOK /\ pc[i] = "commit" /\ alive[i] /\ TakeEffect(at[i])
      /\ pc' = [pc EXCEPT ![i] = "next"]
      /\ UNCHANGED <<broken, alive, done, at, holder, inFlight, faults>>
  BY DEF IInv, Commit, GoTo
<1>2. IsNext(at[i])
  BY <1>1, CommitIsNext
<1>3. /\ recorded' = recorded \cup {at[i]} /\ recorded' \subseteq Versions
      /\ applied' \in Seq(Versions)
      /\ NoGaps' /\ recorded' \cap broken = {}
      /\ ExactlyOnce' /\ InNameOrder'
  BY <1>1, <1>2, EffectKeepsLog
<1>4. holder = i /\ inFlight = 0
  BY <1>1, MigrationsAssumption DEF IInv, OneMigrator, Locked, Loop
<1>5. TypeOK'
  <2>1. pc' \in [Instances -> {"down", "ready"} \cup Active]
    BY <1>1 DEF TypeOK, Active, Locked, Loop
  <2>2. QED
    BY <1>1, <1>3, <2>1 DEF TypeOK
<1>6. OneMigrator' /\ OrphanInv'
  BY <1>1, <1>4 DEF IInv, OneMigrator, OrphanInv, TypeOK, Locked, Loop
<1>7. LoopInv'
  <2> SUFFICES ASSUME NEW j \in Instances, pc'[j] \in Loop
               PROVE  /\ done[j] \cup Passed(j)' \subseteq recorded'
                      /\ alive'[j] => recorded' \subseteq done[j] \cup Passed(j)'
                      /\ pc'[j] \in Loop \ {"next"} => at[j] \in Embedded[j] \ done[j]
                      /\ pc'[j] \in {"record", "commit"} => at[j] \notin broken
    BY <1>1 DEF LoopInv, Loop
  <2>1. CASE j = i
    <3>1. pc[i] \in Loop /\ pc'[i] = "next" /\ alive[i]
      BY <1>1 DEF TypeOK, Loop
    <3>2. done[i] \cup Passed(i) = recorded /\ at[i] \in Embedded[i]
      BY <1>1, <3>1 DEF IInv, LoopInv, Loop
    <3>3. Passed(i)' = Passed(i) \cup {at[i]}
      BY <1>1, <3>1, <3>2 DEF Passed
    <3>4. QED
      BY <1>1, <1>3, <2>1, <3>1, <3>2, <3>3
  <2>2. CASE j # i
    <3>1. pc'[j] = pc[j] /\ alive'[j] = alive[j] /\ at'[j] = at[j]
      BY <1>1, <2>2 DEF TypeOK
    <3>2. Passed(j)' = Passed(j)
      BY <3>1 DEF Passed
    <3>3. ~alive[j]
      BY <1>4, <2>2, <3>1 DEF IInv, OneMigrator, Locked
    <3>4. QED
      BY <1>3, <3>1, <3>2, <3>3 DEF IInv, LoopInv
  <2>3. QED
    BY <2>1, <2>2
<1>8. ReadyIsMigrated'
  BY <1>1, <1>3 DEF IInv, ReadyIsMigrated, TypeOK
<1>9. QED
  BY <1>1, <1>3, <1>5, <1>6, <1>7, <1>8 DEF IInv

\* The late commit of a dead instance keeps the invariant: its lock still does.
LEMMA OrphanCommitKeeps ==
  ASSUME IInv, OrphanCommits
  PROVE  IInv'
<1>1. /\ TypeOK /\ inFlight # 0 /\ TakeEffect(inFlight) /\ inFlight' = 0
      /\ UNCHANGED <<broken, pc, alive, done, at, holder, faults>>
  BY DEF IInv, OrphanCommits
<1>2. IsNext(inFlight) /\ holder = Orphan
  BY <1>1 DEF IInv, OrphanInv, OneMigrator
<1>3. /\ recorded' = recorded \cup {inFlight} /\ recorded' \subseteq Versions
      /\ applied' \in Seq(Versions)
      /\ NoGaps' /\ recorded' \cap broken = {}
      /\ ExactlyOnce' /\ InNameOrder'
  BY <1>1, <1>2, EffectKeepsLog
<1>4. TypeOK'
  BY <1>1, <1>3 DEF TypeOK
<1>5. OneMigrator' /\ OrphanInv'
  BY <1>1 DEF IInv, OneMigrator, OrphanInv
<1>6. LoopInv'
  <2> SUFFICES ASSUME NEW j \in Instances, pc[j] \in Loop
               PROVE  /\ done[j] \cup Passed(j) \subseteq recorded'
                      /\ ~alive[j]
                      /\ pc[j] \in Loop \ {"next"} => at[j] \in Embedded[j] \ done[j]
                      /\ pc[j] \in {"record", "commit"} => at[j] \notin broken
    BY <1>1 DEF LoopInv, Loop, Passed
  <2>1. ~alive[j]
    BY <1>2, MigrationsAssumption DEF IInv, OneMigrator, Locked
  <2>2. QED
    BY <1>3, <2>1 DEF IInv, LoopInv
<1>7. ReadyIsMigrated'
  BY <1>1, <1>3 DEF IInv, ReadyIsMigrated
<1>8. QED
  BY <1>1, <1>3, <1>4, <1>5, <1>6, <1>7 DEF IInv

\* The other steps move one instance and change neither the table nor anyone's
\* session: what is left to show is what the place they lead to asks for.
LEMMA MoveKeeps ==
  ASSUME IInv, TypeOK', NEW i \in Instances, alive[i], pc'[i] \in Active,
         \A j \in Instances \ {i} : pc'[j] = pc[j] /\ done'[j] = done[j] /\ at'[j] = at[j],
         pc'[i] \in Locked => holder' = i,
         holder' = holder \/ (holder = NoOne /\ holder' = i),
         pc'[i] \in Loop => recorded = done'[i] \cup Passed(i)',
         pc'[i] \in Loop \ {"next"} => at'[i] \in Embedded[i] \ done'[i],
         pc'[i] \in {"record", "commit"} => at'[i] \notin broken,
         UNCHANGED <<broken, alive, inFlight, applied, recorded>>
  PROVE  IInv'
<1>1. OneMigrator'
  <2>1. ASSUME NEW j \in Instances, pc'[j] \in Locked, alive'[j] PROVE holder' = j
    BY <2>1, MigrationsAssumption DEF IInv, OneMigrator
  <2>2. inFlight' # 0 => holder' = Orphan
    BY MigrationsAssumption DEF IInv, OneMigrator
  <2>3. QED
    BY <2>1, <2>2 DEF OneMigrator
<1>2. LoopInv'
  <2> SUFFICES ASSUME NEW j \in Instances, pc'[j] \in Loop
               PROVE  /\ done'[j] \cup Passed(j)' \subseteq recorded
                      /\ alive'[j] => recorded \subseteq done'[j] \cup Passed(j)'
                      /\ pc'[j] \in Loop \ {"next"} => at'[j] \in Embedded[j] \ done'[j]
                      /\ pc'[j] \in {"record", "commit"} => at'[j] \notin broken
    BY DEF LoopInv, Loop
  <2>1. CASE j = i
    BY <2>1
  <2>2. CASE j # i
    <3>1. pc'[j] = pc[j] /\ done'[j] = done[j] /\ at'[j] = at[j] /\ alive'[j] = alive[j]
      BY <2>2
    <3>2. Passed(j)' = Passed(j)
      BY <3>1 DEF Passed
    <3>3. QED
      BY <3>1, <3>2 DEF IInv, LoopInv
  <2>3. QED
    BY <2>1, <2>2
<1>3. OrphanInv'
  BY DEF IInv, OrphanInv, IsNext
<1>4. ReadyIsMigrated'
  BY DEF IInv, ReadyIsMigrated, Active, Locked, Loop
<1>5. QED
  BY <1>1, <1>2, <1>3, <1>4, SameTable DEF IInv

\* Each step of an instance by itself keeps the invariant.
LEMMA InvStep ==
  ASSUME IInv, NEW i \in Instances, Step(i)
  PROVE  IInv'
<1> USE DEF Active, Locked, Loop
<1>0. /\ TypeOK
      /\ Embedded[i] \subseteq Versions
      /\ \A v \in Embedded[i] : v \in Nat /\ 0 < v
      /\ at[i] \in Nat
  <2>1. TypeOK /\ Embedded[i] \subseteq Versions
    BY MigrationsAssumption DEF IInv
  <2>2. \A v \in Versions : v \in Nat /\ 0 < v
    BY MigrationsAssumption
  <2>3. at[i] \in Versions \cup {0}
    BY <2>1 DEF TypeOK
  <2>4. QED
    BY <2>1, <2>2, <2>3
<1>1. CASE Connect(i)
  <2>1. TypeOK'
    BY <1>0, <1>1 DEF Connect, GoTo, TypeOK
  <2>2. OneMigrator' /\ OrphanInv' /\ ReadyIsMigrated'
    BY <1>0, <1>1 DEF IInv, Connect, GoTo, TypeOK, OneMigrator, OrphanInv, IsNext, ReadyIsMigrated
  <2>3. LoopInv'
    BY <1>0, <1>1 DEF IInv, Connect, GoTo, TypeOK, LoopInv, Passed
  <2>4. QED
    BY <1>1, <2>1, <2>2, <2>3, SameTable DEF IInv, Connect
<1>2. CASE Lock(i) \/ CreateTable(i)
  <2>1. TypeOK'
    BY <1>0, <1>2 DEF Lock, CreateTable, GoTo, TypeOK
  <2>2. /\ alive[i] /\ pc'[i] \in {"create", "list"} /\ holder' = i
        /\ holder' = holder \/ (holder = NoOne /\ holder' = i)
        /\ \A j \in Instances \ {i} : pc'[j] = pc[j]
        /\ UNCHANGED <<broken, alive, done, at, inFlight, applied, recorded>>
    BY <1>0, <1>2 DEF Lock, CreateTable, GoTo, TypeOK, IInv, OneMigrator
  <2>3. QED
    BY <2>1, <2>2, MoveKeeps
<1>3. CASE ListApplied(i)
  <2>1. TypeOK'
    BY <1>0, <1>3 DEF ListApplied, GoTo, TypeOK
  <2>2. /\ alive[i] /\ pc'[i] = "next" /\ holder' = i /\ holder' = holder
        /\ \A j \in Instances \ {i} : pc'[j] = pc[j] /\ done'[j] = done[j] /\ at'[j] = at[j]
        /\ done'[i] = recorded /\ at'[i] = 0
        /\ UNCHANGED <<broken, alive, inFlight, applied, recorded>>
    BY <1>0, <1>3 DEF ListApplied, GoTo, TypeOK, IInv, OneMigrator
  <2>3. Passed(i)' = {}
    <3>1. \A v \in Embedded[i] : ~(v < 0 \/ v = 0)
      BY <1>0
    <3>2. QED
      BY <2>2, <3>1 DEF Passed
  <2>4. QED
    BY <2>1, <2>2, <2>3, MoveKeeps
<1>4. CASE Begin(i)
  <2>1. PICK v \in Pending(i) : (\A w \in Pending(i) : v <= w) /\ at' = [at EXCEPT ![i] = v]
    BY <1>4 DEF Begin
  <2>3. v \in Versions /\ v \in Nat /\ v \in Embedded[i] \ done[i] /\ v > at[i]
    BY <1>0, <2>1 DEF Pending
  <2>4. TypeOK'
    BY <1>0, <1>4, <2>1, <2>3 DEF Begin, GoTo, TypeOK
  <2>5. /\ alive[i] /\ pc[i] = "next" /\ pc'[i] = "apply" /\ holder' = i /\ holder' = holder
        /\ \A j \in Instances \ {i} : pc'[j] = pc[j] /\ at'[j] = at[j]
        /\ at'[i] = v
        /\ UNCHANGED <<broken, alive, done, inFlight, applied, recorded>>
    BY <1>0, <1>4, <2>1 DEF Begin, GoTo, TypeOK, IInv, OneMigrator
  <2>6. recorded = done[i] \cup Passed(i)
    BY <2>5 DEF IInv, LoopInv
  <2>7. Passed(i) = {w \in Embedded[i] : w <= at[i]}
    BY <1>0, <2>5 DEF Passed
  <2>8. Passed(i)' = {w \in Embedded[i] : w < v}
    BY <2>5 DEF Passed
  <2>9. done[i] \cup Passed(i) = done[i] \cup Passed(i)'
    <3>1. \A w \in Embedded[i] : w <= at[i] => w < v
      BY <1>0, <2>3
    <3>2. \A w \in Embedded[i] \ done[i] : w < v => w <= at[i]
      BY <1>0, <2>1, <2>3 DEF Pending
    <3>3. QED
      BY <2>7, <2>8, <3>1, <3>2
  <2>10. QED
    BY <2>3, <2>4, <2>5, <2>6, <2>9, MoveKeeps
<1>5. CASE Apply(i) \/ Record(i)
  <2>1. TypeOK'
    BY <1>0, <1>5 DEF Apply, Record, GoTo, TypeOK
  <2>2. /\ alive[i] /\ pc[i] \in {"apply", "record"} /\ pc'[i] \in {"record", "commit"}
        /\ holder' = i /\ holder' = holder
        /\ \A j \in Instances \ {i} : pc'[j] = pc[j]
        /\ UNCHANGED <<broken, alive, done, at, inFlight, applied, recorded>>
    BY <1>0, <1>5 DEF Apply, Record, GoTo, TypeOK, IInv, OneMigrator
  <2>3. recorded = done[i] \cup Passed(i) /\ at[i] \in Embedded[i] \ done[i]
    BY <2>2 DEF IInv, LoopInv
  <2>4. Passed(i)' = Passed(i)
    BY <2>2 DEF Passed
  <2>5. at[i] \notin broken
    BY <1>5 DEF Apply, Record, IInv, LoopInv
  <2>6. QED
    BY <2>1, <2>2, <2>3, <2>4, <2>5, MoveKeeps
<1>6. CASE Commit(i)
  BY <1>6, CommitKeeps
<1>7. CASE Finish(i)
  <2>1. done[i] \cup Passed(i) \subseteq recorded /\ pc[i] = "next" /\ Pending(i) = {}
    BY <1>7 DEF Finish, IInv, LoopInv
  <2>3. Embedded[i] \subseteq recorded
    <3>1. \A v \in Embedded[i] : v > at[i] \/ v < at[i] \/ v = at[i]
      BY <1>0
    <3>2. QED
      BY <2>1, <3>1 DEF Pending, Passed
  <2>4. faults' \in 0..MaxFaults
    BY <1>0, <1>7 DEF Finish, TypeOK
  <2>5. QED
    BY <1>7, <2>3, <2>4, LetGoKeeps DEF Finish
<1>8. CASE ReturnError(i)
  <2>1. faults' \in 0..MaxFaults
    BY <1>0, <1>8 DEF ReturnError, TypeOK
  <2>2. QED
    BY <1>8, <2>1, LetGoKeeps DEF ReturnError, GiveUp
<1>9. QED
  BY <1>1, <1>2, <1>3, <1>4, <1>5, <1>6, <1>7, <1>8 DEF Step

\* Every step of the specification keeps the invariant.
LEMMA InvNext == IInv /\ [Next]_vars => IInv'
<1> SUFFICES ASSUME IInv, [Next]_vars PROVE IInv'
  OBVIOUS
<1>0. TypeOK /\ MaxFaults \in Nat
  BY MigrationsAssumption DEF IInv
<1>1. ASSUME NEW i \in Instances, Step(i) PROVE IInv'
  BY <1>1, InvStep
<1>2. ASSUME NEW i \in Instances, Fault(i) PROVE IInv'
  <2>1. faults' \in 0..MaxFaults
    BY <1>0, <1>2 DEF Fault, TypeOK
  <2>2. QED
    BY <1>2, <2>1, LetGoKeeps DEF Fault, GiveUp
<1>3. ASSUME NEW i \in Instances, Disconnect(i) PROVE IInv'
  <2>1. TypeOK'
    BY <1>0, <1>3 DEF Disconnect, TypeOK
  <2>2. OneMigrator'
    BY <1>0, <1>3, MigrationsAssumption DEF Disconnect, IInv, TypeOK, OneMigrator
  <2>3. LoopInv'
    BY <1>0, <1>3 DEF Disconnect, IInv, TypeOK, LoopInv, Passed
  <2>4. OrphanInv' /\ ReadyIsMigrated'
    BY <1>3 DEF Disconnect, IInv, OrphanInv, IsNext, ReadyIsMigrated
  <2>5. QED
    BY <1>3, <2>1, <2>2, <2>3, <2>4, SameTable DEF Disconnect, IInv
<1>4. ASSUME NEW i \in Instances, Restart(i) PROVE IInv'
  <2>1. TypeOK'
    BY <1>0, <1>4 DEF Restart, GoTo, TypeOK
  <2>2. OneMigrator' /\ OrphanInv' /\ ReadyIsMigrated'
    BY <1>0, <1>4 DEF Restart, GoTo, IInv, TypeOK, OneMigrator, OrphanInv, IsNext, ReadyIsMigrated, Locked, Loop
  <2>3. LoopInv'
    BY <1>0, <1>4 DEF Restart, GoTo, IInv, TypeOK, LoopInv, Passed, Loop
  <2>4. QED
    BY <1>4, <2>1, <2>2, <2>3, SameTable DEF Restart, IInv
<1>5. CASE OrphanCommits
  BY <1>5, OrphanCommitKeeps
<1>6. CASE Reap
  <2>1. TypeOK' /\ OneMigrator' /\ OrphanInv'
    BY <1>0, <1>6, MigrationsAssumption DEF Reap, IInv, TypeOK, OneMigrator, OrphanInv
  <2>2. LoopInv' /\ ReadyIsMigrated'
    BY <1>6 DEF Reap, IInv, LoopInv, Passed, ReadyIsMigrated
  <2>3. QED
    BY <1>6, <2>1, <2>2, SameTable DEF Reap, IInv
<1>7. CASE UNCHANGED vars
  BY <1>7 DEF vars, IInv, TypeOK, OneMigrator, LoopInv, Passed, OrphanInv, IsNext,
              NoGaps, ExactlyOnce, InNameOrder, ReadyIsMigrated
<1>8. QED
  BY <1>1, <1>2, <1>3, <1>4, <1>5, <1>6, <1>7 DEF Next

\* In every reachable state the lock, the open transactions and the snapshots are
\* those of one migrator that is about to apply the next version.
THEOREM Invariance == Spec => []IInv
BY InvInit, InvNext, PTL DEF Spec
-----------------------------------------------------------------------------
(* The properties.                                                         *)

\* Every reachable state is well-typed.
THEOREM TypeCorrect == Spec => []TypeOK
<1>1. IInv => TypeOK
  BY DEF IInv
<1>2. QED
  BY <1>1, Invariance, PTL

\* A session past the lock holds it, and a commit on its way keeps the others out.
THEOREM OneMigratorAtATime == Spec => []OneMigrator
<1>1. IInv => OneMigrator
  BY DEF IInv
<1>2. QED
  BY <1>1, Invariance, PTL

\* An instance that serves has the whole schema of its build.
THEOREM WhoServesIsMigrated == Spec => []ReadyIsMigrated
<1>1. IInv => ReadyIsMigrated
  BY DEF IInv
<1>2. QED
  BY <1>1, Invariance, PTL

\* Through crashes, lost answers and concurrent starts, each file takes effect
\* at most once, exactly the recorded ones did, and in name order.
THEOREM OnceAndInOrder == Spec => [](ExactlyOnce /\ InNameOrder)
<1>1. IInv => ExactlyOnce /\ InNameOrder
  BY DEF IInv
<1>2. QED
  BY <1>1, Invariance, PTL

\* The list an instance read once under the lock stays right to its last commit.
THEOREM SnapshotStaysCurrent == Spec => []SnapshotIsCurrent
<1>1. IInv => SnapshotIsCurrent
  BY DEF IInv, LoopInv, SnapshotIsCurrent, Passed
<1>2. QED
  BY <1>1, Invariance, PTL

\* What the database refuses does not change.
LEMMA BrokenStays == [Next]_vars => UNCHANGED broken
<1> SUFFICES ASSUME [Next]_vars PROVE UNCHANGED broken
  OBVIOUS
<1>1. ASSUME NEW i \in Instances, Step(i) PROVE UNCHANGED broken
  BY <1>1 DEF Step, Connect, Lock, CreateTable, ListApplied, Begin, Apply, Record, Commit, Finish,
              ReturnError, GiveUp
<1>2. ASSUME NEW i \in Instances, Fault(i) \/ Disconnect(i) \/ Restart(i) PROVE UNCHANGED broken
  BY <1>2 DEF Fault, GiveUp, Disconnect, Restart
<1>3. CASE OrphanCommits \/ Reap \/ UNCHANGED vars
  BY <1>3 DEF OrphanCommits, Reap, vars
<1>4. QED
  BY <1>1, <1>2, <1>3 DEF Next

\* Every step is a step of the promise on the log of committed migrations, or
\* leaves that log alone.
LEMMA StepRefines == IInv /\ [Next]_vars => [Promise!Next]_<<broken, applied>>
<1> SUFFICES ASSUME IInv, [Next]_vars PROVE [Promise!Next]_<<broken, applied>>
  OBVIOUS
<1>1. ASSUME NEW v, IsNext(v), TakeEffect(v) PROVE Promise!Next
  <2>1. Promise!Ran = recorded
    BY DEF IInv, ExactlyOnce, Promise!Ran
  <2>2. v \in Versions /\ Promise!Migrate(v)
    BY <1>1, <2>1, BrokenStays DEF IsNext, TakeEffect, Promise!Migrate
  <2>3. QED
    BY <2>2 DEF Promise!Next
<1>2. ASSUME NEW i \in Instances, Commit(i) PROVE Promise!Next
  BY <1>1, <1>2, CommitIsNext DEF Commit
<1>3. CASE OrphanCommits
  <2>1. IsNext(inFlight)
    BY <1>3 DEF IInv, OrphanInv, OrphanCommits
  <2>2. QED
    BY <1>1, <1>3, <2>1 DEF OrphanCommits
<1>4. ASSUME NEW i \in Instances, Step(i), ~Commit(i) PROVE UNCHANGED applied
  BY <1>4 DEF Step, Connect, Lock, CreateTable, ListApplied, Begin, Apply, Record, Finish,
              ReturnError, GiveUp
<1>5. ASSUME NEW i \in Instances, Fault(i) \/ Disconnect(i) \/ Restart(i) PROVE UNCHANGED applied
  BY <1>5 DEF Fault, GiveUp, Disconnect, Restart
<1>6. CASE Reap \/ UNCHANGED vars
  BY <1>6 DEF Reap, vars
<1>7. QED
  BY <1>2, <1>3, <1>4, <1>5, <1>6, BrokenStays DEF Next

\* The migrations, as they run, implement what the package comment promises.
THEOREM Refinement == Spec => RunsOnceInOrder
<1>1. Init => Promise!Init
  BY MigrationsAssumption DEF Init, Promise!Init
<1>2. QED
  BY <1>1, StepRefines, Invariance, PTL DEF Spec, RunsOnceInOrder, Promise!Spec
=============================================================================
