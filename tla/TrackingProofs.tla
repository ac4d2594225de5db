--------------------------- MODULE TrackingProofs ---------------------------
(***************************************************************************)
(* Proofs about Tracking, for every set of requests, every set of bodies   *)
(* and any number of process ends.  The invariant IInv says that what a    *)
(* request holds in its local variable is exactly the history of a prefix  *)
(* of the table, however long ago it was read; every property of the       *)
(* alerts follows from comparing such prefixes.                            *)
(***************************************************************************)
EXTENDS Tracking, FiniteSetTheorems, TLAPS

\* The local history is the history of the first readAt[r] rows.
HistoryIsPrefix ==
  \A r \in Requests :
    /\ readAt[r] \in 0..Len(events)
    /\ hist[r].ok =>
         /\ hist[r].sessions = Cardinality(SessionsOf(events, ev[r].visitor, readAt[r]))
         /\ hist[r].seen <=> ev[r].session \in SessionsOf(events, ev[r].visitor, readAt[r])

\* The row of a request: where it is, what it holds, and that it came after the read.
RowsBelong ==
  \A r \in Requests :
    /\ rowAt[r] \in 0..Len(events)
    /\ rowAt[r] # 0 => /\ events[rowAt[r]] = ToRow(ev[r])
                       /\ hist[r].ok => readAt[r] < rowAt[r]

\* What the place a request has reached says about its data.
PcAgrees ==
  \A r \in Requests :
    /\ pc[r] \in {"idle", "malformed", "rejected", "discarded", "lookup", "insert"} => rowAt[r] = 0
    /\ pc[r] \in {"idle", "malformed", "rejected", "discarded", "lookup"} => ~hist[r].ok
    /\ pc[r] \in {"stored", "tracked"} => rowAt[r] # 0
    /\ pc[r] \in {"lookup", "insert", "stored"} => Sanitized(ev[r])
    /\ alert[r] = IF pc[r] = "tracked" THEN AlertFor(ev[r], hist[r]) ELSE NoAlert

IInv == TypeOK /\ HistoryIsPrefix /\ RowsBelong /\ PcAgrees /\ RowsMatchRequests
-----------------------------------------------------------------------------
(* Facts about logs.                                                       *)

\* The sessions of a visitor form a finite set.
LEMMA SessionsFinite ==
  ASSUME NEW log, NEW v, NEW n \in Nat
  PROVE  IsFiniteSet(SessionsOf(log, v, n))
<1>1. IsFiniteSet(1..n)
  BY FS_Interval
<1>2. IsFiniteSet(RowsOf(log, v, n))
  BY <1>1, FS_Subset DEF RowsOf
<1> DEFINE f == [i \in RowsOf(log, v, n) |-> log[i].session]
<1>3. f \in Surjection(RowsOf(log, v, n), SessionsOf(log, v, n))
  BY DEF Surjection, SessionsOf
<1>4. QED
  BY <1>2, <1>3, FS_Surjection

\* Appending a row changes no view of the rows already there.
LEMMA AppendKeepsPrefix ==
  ASSUME NEW log \in Seq(Row), NEW row \in Row, NEW v, NEW n \in 0..Len(log)
  PROVE  /\ RowsOf(Append(log, row), v, n) = RowsOf(log, v, n)
         /\ SessionsOf(Append(log, row), v, n) = SessionsOf(log, v, n)
<1>1. \A i \in 1..n : Append(log, row)[i] = log[i]
  OBVIOUS
<1>2. RowsOf(Append(log, row), v, n) = RowsOf(log, v, n)
  BY <1>1 DEF RowsOf
<1>3. \A i \in RowsOf(log, v, n) : Append(log, row)[i] = log[i]
  BY <1>1 DEF RowsOf
<1>4. SessionsOf(Append(log, row), v, n) = SessionsOf(log, v, n)
  BY <1>2, <1>3 DEF SessionsOf
<1>5. QED
  BY <1>2, <1>4

\* A longer prefix shows at least the sessions of a shorter one.
LEMMA SessionsGrow ==
  ASSUME NEW log, NEW v, NEW m \in Nat, NEW n \in Nat, m <= n
  PROVE  SessionsOf(log, v, m) \subseteq SessionsOf(log, v, n)
<1>1. RowsOf(log, v, m) \subseteq RowsOf(log, v, n)
  BY DEF RowsOf
<1>2. QED
  BY <1>1 DEF SessionsOf

\* A session stored after a prefix that lacks it makes the count grow by one at least.
LEMMA NewSessionCounts ==
  ASSUME NEW log, NEW v, NEW m \in Nat, NEW n \in Nat, m <= n,
         NEW i \in 1..n, log[i].visitor = v, log[i].session \notin SessionsOf(log, v, m)
  PROVE  Cardinality(SessionsOf(log, v, m)) + 1 <= Cardinality(SessionsOf(log, v, n))
<1> DEFINE S == SessionsOf(log, v, m)
           T == SessionsOf(log, v, n)
           s == log[i].session
<1>1. IsFiniteSet(S) /\ IsFiniteSet(T)
  BY SessionsFinite
<1>2. i \in RowsOf(log, v, n)
  BY DEF RowsOf
<1>3. s \in T
  BY <1>2 DEF SessionsOf
<1>4. S \cup {s} \subseteq T
  BY <1>3, SessionsGrow
<1>5. Cardinality(S \cup {s}) = Cardinality(S) + 1
  BY <1>1, FS_AddElement
<1>6. Cardinality(S \cup {s}) <= Cardinality(T)
  BY <1>1, <1>4, FS_Subset
<1>7. QED
  BY <1>5, <1>6
-----------------------------------------------------------------------------
(* The invariant.                                                          *)

\* What the history query returns has the type of the variable it is kept in.
LEMMA HistoryType ==
  ASSUME TypeOK, NEW v, NEW s
  PROVE  /\ VisitorHistory(v, s) \in [sessions : Nat, seen : BOOLEAN, ok : {TRUE}]
         /\ VisitorHistory(v, s).ok
         /\ VisitorHistory(v, s).sessions = Cardinality(SessionsOf(events, v, Len(events)))
         /\ VisitorHistory(v, s).seen <=> s \in SessionsOf(events, v, Len(events))
<1>1. Len(events) \in Nat
  BY DEF TypeOK
<1>2. Cardinality(SessionsOf(events, v, Len(events))) \in Nat
  BY <1>1, SessionsFinite, FS_CardinalityType
<1>3. ASSUME NEW n \in Nat, NEW b \in BOOLEAN
      PROVE  LET h == [sessions |-> n, seen |-> b, ok |-> TRUE] IN
             /\ h \in [sessions : Nat, seen : BOOLEAN, ok : {TRUE}]
             /\ h.ok = TRUE /\ h.sessions = n /\ h.seen = b
  OBVIOUS
<1>4. (s \in SessionsOf(events, v, Len(events))) \in BOOLEAN
  OBVIOUS
<1>5. QED
  BY <1>2, <1>3, <1>4, Zenon DEF VisitorHistory

\* The alert a stored event calls for is one of the kinds the notifier knows.
LEMMA AlertForType ==
  ASSUME NEW e, NEW h \in {NoHistory} \cup [sessions : Nat, seen : BOOLEAN, ok : {TRUE}]
  PROVE  AlertFor(e, h) \in Alert
<1>1. CASE h = NoHistory
  BY <1>1 DEF AlertFor, Alert, LeadAlert, IsLead, NoHistory
<1>2. CASE h \in [sessions : Nat, seen : BOOLEAN, ok : {TRUE}]
  BY <1>2 DEF AlertFor, Alert, VisitAlert, LeadAlert, IsLead
<1>3. QED
  BY <1>1, <1>2

\* Idle requests and an empty table are of the right types.
LEMMA TypeInit == Init => TypeOK
<1> SUFFICES ASSUME Init PROVE TypeOK
  OBVIOUS
<1>1. pc \in [Requests -> {"idle"} \cup Running \cup Ended]
  BY DEF Init
<1>2. ev \in [Requests -> Incoming \cup {NoEvent}]
  BY DEF Init
<1>3. hist \in [Requests -> {NoHistory} \cup [sessions : Nat, seen : BOOLEAN, ok : {TRUE}]]
  BY DEF Init
<1>4. events \in Seq(Row) /\ rowAt \in [Requests -> Nat] /\ readAt \in [Requests -> Nat]
  BY DEF Init
<1>5. alert \in [Requests -> Alert]
  BY DEF Init, Alert
<1>6. delivery \in [Requests -> {"none", "running", "sent", "failed", "lost"}]
  BY DEF Init
<1>7. stops \in 0..MaxStops
  BY TrackingAssumption DEF Init
<1>8. QED
  BY <1>1, <1>2, <1>3, <1>4, <1>5, <1>6, <1>7 DEF TypeOK

\* What storing the row of a request does to the table.
LEMMA StoredRow ==
  ASSUME TypeOK, NEW r \in Requests, Sanitized(ev[r]), StoreRow(r)
  PROVE  /\ ToRow(ev[r]) \in Row
         /\ events' = Append(events, ToRow(ev[r]))
         /\ events' \in Seq(Row)
         /\ Len(events) \in Nat
         /\ Len(events') = Len(events) + 1
         /\ events'[Len(events) + 1] = ToRow(ev[r])
         /\ \A i \in 1..Len(events) : events'[i] = events[i]
         /\ rowAt' = [rowAt EXCEPT ![r] = Len(events) + 1]
         /\ rowAt' \in [Requests -> Nat]
<1>1. ev[r] \in Incoming \cup {NoEvent}
  BY DEF TypeOK
<1>a. NoEvent.session = NoId
  BY DEF NoEvent
<1>2. ev[r] # NoEvent
  BY <1>a DEF Sanitized
<1>3. ev[r] \in IncomingEvent
  BY <1>1, <1>2, TrackingAssumption
<1>4. ToRow(ev[r]) \in Row
  BY <1>3 DEF IncomingEvent, Sanitized, ToRow, Row
<1>5. QED
  BY <1>4 DEF TypeOK, StoreRow

\* The empty table and idle requests satisfy the invariant.
LEMMA InvInit == Init => IInv
<1> SUFFICES ASSUME Init PROVE IInv
  OBVIOUS
<1>1. TypeOK
  BY TypeInit
<1>2. HistoryIsPrefix
  BY DEF Init, HistoryIsPrefix, NoHistory
<1>3. RowsBelong
  BY DEF Init, RowsBelong
<1>4. PcAgrees
  BY DEF Init, PcAgrees, NoHistory
<1>5. RowsMatchRequests
  BY DEF Init, RowsMatchRequests
<1>6. QED
  BY <1>1, <1>2, <1>3, <1>4, <1>5 DEF IInv

\* A request that stores its row keeps the invariant, whichever way InsertEvent
\* then returns: prefixes read earlier keep their meaning in the longer table.
LEMMA StoreKeepsInv ==
  ASSUME IInv, NEW r \in Requests, pc[r] = "insert", StoreRow(r),
         NEW to \in {"stored", "failed"}, pc' = [pc EXCEPT ![r] = to],
         UNCHANGED <<ev, hist, readAt, alert, delivery, stops>>
  PROVE  IInv'
<1>1. Sanitized(ev[r]) /\ rowAt[r] = 0 /\ TypeOK
  BY DEF IInv, PcAgrees
<1>2. /\ ToRow(ev[r]) \in Row
      /\ events' = Append(events, ToRow(ev[r]))
      /\ events' \in Seq(Row)
      /\ Len(events) \in Nat
      /\ Len(events') = Len(events) + 1
      /\ events'[Len(events) + 1] = ToRow(ev[r])
      /\ \A i \in 1..Len(events) : events'[i] = events[i]
      /\ rowAt' = [rowAt EXCEPT ![r] = Len(events) + 1]
      /\ rowAt' \in [Requests -> Nat]
  BY <1>1, StoredRow
<1>3. TypeOK'
  BY <1>1, <1>2 DEF TypeOK, Running, Ended
<1>4. HistoryIsPrefix'
  <2> SUFFICES ASSUME NEW q \in Requests
               PROVE  /\ readAt[q] \in 0..Len(events')
                      /\ hist[q].ok =>
                           /\ hist[q].sessions = Cardinality(SessionsOf(events', ev[q].visitor, readAt[q]))
                           /\ hist[q].seen <=> ev[q].session \in SessionsOf(events', ev[q].visitor, readAt[q])
    BY DEF HistoryIsPrefix
  <2>1. readAt[q] \in 0..Len(events)
    BY DEF IInv, HistoryIsPrefix
  <2>2. SessionsOf(events', ev[q].visitor, readAt[q]) = SessionsOf(events, ev[q].visitor, readAt[q])
    BY <1>1, <1>2, <2>1, AppendKeepsPrefix DEF TypeOK
  <2>3. QED
    BY <1>2, <2>1, <2>2 DEF IInv, HistoryIsPrefix
<1>5. RowsBelong'
  <2> SUFFICES ASSUME NEW q \in Requests
               PROVE  /\ rowAt'[q] \in 0..Len(events')
                      /\ rowAt'[q] # 0 => /\ events'[rowAt'[q]] = ToRow(ev[q])
                                          /\ hist[q].ok => readAt[q] < rowAt'[q]
    BY DEF RowsBelong
  <2>1. CASE q = r
    BY <1>1, <1>2, <2>1 DEF IInv, HistoryIsPrefix, TypeOK
  <2>2. CASE q # r
    BY <1>1, <1>2, <2>2 DEF IInv, RowsBelong, TypeOK
  <2>3. QED
    BY <2>1, <2>2
<1>6. PcAgrees'
  BY <1>1, <1>2 DEF IInv, PcAgrees, TypeOK
<1>7. RowsMatchRequests'
  <2> SUFFICES ASSUME NEW i \in 1..(Len(events) + 1)
               PROVE  \E t \in Requests : rowAt'[t] = i /\ \A q \in Requests \ {t} : rowAt'[q] # i
    BY <1>2 DEF RowsMatchRequests
  <2>1. CASE i = Len(events) + 1
    <3>1. \A q \in Requests \ {r} : rowAt'[q] # i
      BY <1>1, <1>2, <2>1 DEF IInv, RowsBelong, TypeOK
    <3>2. QED
      BY <1>1, <1>2, <2>1, <3>1 DEF TypeOK
  <2>2. CASE i \in 1..Len(events)
    <3>1. PICK t \in Requests : rowAt[t] = i /\ \A q \in Requests \ {t} : rowAt[q] # i
      BY <2>2 DEF IInv, RowsMatchRequests
    <3>2. t # r
      BY <1>1, <2>2, <3>1
    <3>3. QED
      BY <1>1, <1>2, <2>2, <3>1, <3>2 DEF TypeOK
  <2>3. QED
    BY <1>2, <2>1, <2>2
<1>8. QED
  BY <1>3, <1>4, <1>5, <1>6, <1>7 DEF IInv

\* Every step of the specification keeps the invariant.
LEMMA InvNext == IInv /\ [Next]_vars => IInv'
<1> SUFFICES ASSUME IInv, [Next]_vars PROVE IInv'
  OBVIOUS
<1> USE DEF IInv
<1>1. ASSUME NEW r \in Requests, Malformed(r) PROVE IInv'
  <2>1. TypeOK'
    BY <1>1 DEF Malformed, TypeOK, Ended
  <2>2. PcAgrees'
    BY <1>1 DEF Malformed, TypeOK, PcAgrees
  <2>3. QED
    BY <1>1, <2>1, <2>2 DEF Malformed, HistoryIsPrefix, RowsBelong, RowsMatchRequests
<1>2. ASSUME NEW r \in Requests, NEW e \in Incoming, Receive(r, e) PROVE IInv'
  <2>1. TypeOK'
    BY <1>2 DEF Receive, TypeOK, Running, Ended
  <2>2. HistoryIsPrefix' /\ RowsBelong'
    BY <1>2 DEF Receive, TypeOK, PcAgrees, HistoryIsPrefix, RowsBelong
  <2>3. PcAgrees'
    <3> SUFFICES ASSUME NEW q \in Requests PROVE PcAgrees!(q)'
      BY DEF PcAgrees
    <3>1. CASE q = r
      BY <1>2, <3>1 DEF Receive, TypeOK, PcAgrees
    <3>2. CASE q # r
      BY <1>2, <3>2 DEF Receive, TypeOK, PcAgrees
    <3>3. QED
      BY <3>1, <3>2
  <2>4. QED
    BY <1>2, <2>1, <2>2, <2>3 DEF Receive, RowsMatchRequests
<1>3. ASSUME NEW r \in Requests, LookUp(r) PROVE IInv'
  <2> DEFINE h == VisitorHistory(ev[r].visitor, ev[r].session)
  <2>1. /\ h \in [sessions : Nat, seen : BOOLEAN, ok : {TRUE}]
        /\ h.ok
        /\ h.sessions = Cardinality(SessionsOf(events, ev[r].visitor, Len(events)))
        /\ h.seen <=> ev[r].session \in SessionsOf(events, ev[r].visitor, Len(events))
    BY HistoryType
  <2> HIDE DEF h
  <2>2. /\ hist' = [hist EXCEPT ![r] = h]
        /\ readAt' = [readAt EXCEPT ![r] = Len(events)]
        /\ pc' = [pc EXCEPT ![r] = "insert"]
        /\ UNCHANGED <<ev, events, rowAt, alert, delivery, stops>>
        /\ pc[r] = "lookup"
        /\ Len(events) \in Nat
    BY <1>3 DEF LookUp, h, TypeOK
  <2>3. TypeOK'
    BY <2>1, <2>2 DEF TypeOK, Running
  <2>4. HistoryIsPrefix'
    BY <2>1, <2>2 DEF HistoryIsPrefix, TypeOK
  <2>5. rowAt[r] = 0
    BY <2>2 DEF PcAgrees
  <2>6. RowsBelong'
    BY <2>2, <2>5 DEF RowsBelong, TypeOK
  <2>7. PcAgrees'
    BY <2>2, <2>5 DEF PcAgrees, TypeOK
  <2>8. QED
    BY <2>2, <2>3, <2>4, <2>6, <2>7 DEF RowsMatchRequests
<1>4. ASSUME NEW r \in Requests, LookUpFails(r) PROVE IInv'
  <2>1. TypeOK'
    BY <1>4 DEF LookUpFails, TypeOK, Running
  <2>2. PcAgrees'
    BY <1>4 DEF LookUpFails, TypeOK, PcAgrees
  <2>3. QED
    BY <1>4, <2>1, <2>2 DEF LookUpFails, HistoryIsPrefix, RowsBelong, RowsMatchRequests
<1>5. ASSUME NEW r \in Requests, Insert(r) PROVE IInv'
  BY <1>5, StoreKeepsInv DEF Insert
<1>6. ASSUME NEW r \in Requests, InsertFails(r) PROVE IInv'
  <2>1. CASE StoreRow(r)
    BY <1>6, <2>1, StoreKeepsInv DEF InsertFails
  <2>2. CASE UNCHANGED <<events, rowAt>>
    <3>1. TypeOK'
      BY <1>6, <2>2 DEF InsertFails, TypeOK, Ended
    <3>2. PcAgrees'
      BY <1>6, <2>2 DEF InsertFails, TypeOK, PcAgrees
    <3>3. QED
      BY <1>6, <2>2, <3>1, <3>2 DEF InsertFails, HistoryIsPrefix, RowsBelong, RowsMatchRequests
  <2>3. QED
    BY <1>6, <2>1, <2>2 DEF InsertFails
<1>7. ASSUME NEW r \in Requests, Dispatch(r) PROVE IInv'
  <2> DEFINE a == AlertFor(ev[r], hist[r])
  <2>1. a \in Alert
    BY AlertForType DEF TypeOK
  <2>2. TypeOK'
    BY <1>7, <2>1 DEF Dispatch, TypeOK, Ended
  <2>3. PcAgrees'
    BY <1>7 DEF Dispatch, TypeOK, PcAgrees
  <2>4. QED
    BY <1>7, <2>2, <2>3 DEF Dispatch, HistoryIsPrefix, RowsBelong, RowsMatchRequests
<1>8. ASSUME NEW r \in Requests, NotifyReturns(r) PROVE IInv'
  <2>1. TypeOK'
    BY <1>8 DEF NotifyReturns, TypeOK
  <2>2. QED
    BY <1>8, <2>1 DEF NotifyReturns, HistoryIsPrefix, RowsBelong, PcAgrees, RowsMatchRequests
<1>9. ASSUME Stop PROVE IInv'
  <2>1. TypeOK'
    <3>1. pc' \in [Requests -> {"idle"} \cup Running \cup Ended]
      BY <1>9 DEF Stop, TypeOK, Ended
    <3>2. delivery' \in [Requests -> {"none", "running", "sent", "failed", "lost"}]
      BY <1>9 DEF Stop, TypeOK
    <3>3. stops' \in 0..MaxStops
      BY <1>9, TrackingAssumption DEF Stop, TypeOK
    <3>4. QED
      BY <1>9, <3>1, <3>2, <3>3 DEF Stop, TypeOK
  <2>2. PcAgrees'
    BY <1>9 DEF Stop, TypeOK, PcAgrees, Running
  <2>3. QED
    BY <1>9, <2>1, <2>2 DEF Stop, HistoryIsPrefix, RowsBelong, RowsMatchRequests
<1>10. CASE UNCHANGED vars
  BY <1>10 DEF vars, TypeOK, HistoryIsPrefix, RowsBelong, PcAgrees, RowsMatchRequests
<1>11. QED
  BY <1>1, <1>2, <1>3, <1>4, <1>5, <1>6, <1>7, <1>8, <1>9, <1>10 DEF Next, Progress

\* In every reachable state the requests' local histories are those of prefixes of
\* the table, and rows, requests and alerts belong together.
THEOREM Invariance == Spec => []IInv
BY InvInit, InvNext, PTL DEF Spec
-----------------------------------------------------------------------------
(* The properties.                                                         *)

\* A request with a visit alert was tracked: its row is there, it comes after the
\* read, and the alert is the one its history calls for.
LEMMA VisitAlertFacts ==
  ASSUME IInv, NEW r \in Requests, IsVisitAlert(r)
  PROVE  /\ pc[r] = "tracked" /\ rowAt[r] # 0 /\ rowAt[r] \in 1..Len(events)
         /\ hist[r].ok /\ ~hist[r].seen
         /\ alert[r].number = hist[r].sessions + 1
         /\ alert[r].kind = IF hist[r].sessions > 0 THEN "returning" ELSE "new"
<1>1. alert[r] # NoAlert
  BY DEF IsVisitAlert, NoAlert
<1>2. pc[r] = "tracked" /\ rowAt[r] # 0
  BY <1>1 DEF IInv, PcAgrees
<1>3. rowAt[r] \in 1..Len(events)
  BY <1>2 DEF IInv, RowsBelong, TypeOK
<1>4. alert[r] = AlertFor(ev[r], hist[r])
  BY <1>2 DEF IInv, PcAgrees
<1>5. hist[r].ok /\ ~hist[r].seen /\ alert[r] = VisitAlert(hist[r])
  BY <1>1, <1>4 DEF IsVisitAlert, AlertFor, LeadAlert
<1>6. QED
  BY <1>2, <1>3, <1>5 DEF VisitAlert

\* A session's second alert needs a lookup that missed the first one's row.
LEMMA DuplicatesFollow == IInv => DuplicateAlertsOverlap
<1> SUFFICES ASSUME IInv, NEW q \in Requests, NEW r \in Requests,
                    IsVisitAlert(q), IsVisitAlert(r), SameSession(q, r),
                    StoredBeforeRead(q, r)
             PROVE  FALSE
  BY DEF DuplicateAlertsOverlap, SameSession
<1>1. /\ rowAt[q] \in 1..Len(events) /\ events[rowAt[q]] = ToRow(ev[q])
      /\ readAt[r] \in 0..Len(events) /\ Len(events) \in Nat
  <2>1. rowAt[q] \in 1..Len(events) /\ rowAt[q] # 0
    BY VisitAlertFacts
  <2>2. QED
    BY <2>1 DEF IInv, RowsBelong, HistoryIsPrefix, TypeOK
<1>2. rowAt[q] \in RowsOf(events, ev[r].visitor, readAt[r])
  BY <1>1 DEF RowsOf, StoredBeforeRead, SameSession, ToRow
<1>3. ev[r].session \in SessionsOf(events, ev[r].visitor, readAt[r])
  BY <1>1, <1>2 DEF SessionsOf, SameSession, ToRow
<1>4. hist[r].ok /\ ~hist[r].seen
  BY VisitAlertFacts
<1>5. QED
  BY <1>3, <1>4 DEF IInv, HistoryIsPrefix

\* An alert's own session is missing from what its lookup saw.
LEMMA OwnSessionIsNew ==
  ASSUME IInv, NEW r \in Requests, IsVisitAlert(r)
  PROVE  /\ readAt[r] \in Nat /\ rowAt[r] \in 1..Len(events) /\ readAt[r] < rowAt[r]
         /\ events[rowAt[r]].visitor = ev[r].visitor
         /\ events[rowAt[r]].session \notin SessionsOf(events, ev[r].visitor, readAt[r])
         /\ alert[r].number = Cardinality(SessionsOf(events, ev[r].visitor, readAt[r])) + 1
<1>1. rowAt[r] # 0 /\ rowAt[r] \in 1..Len(events) /\ hist[r].ok /\ ~hist[r].seen
  BY VisitAlertFacts
<1>2. events[rowAt[r]] = ToRow(ev[r]) /\ readAt[r] < rowAt[r]
  BY <1>1 DEF IInv, RowsBelong
<1>3. /\ ev[r].session \notin SessionsOf(events, ev[r].visitor, readAt[r])
      /\ hist[r].sessions = Cardinality(SessionsOf(events, ev[r].visitor, readAt[r]))
  BY <1>1 DEF IInv, HistoryIsPrefix
<1>4. alert[r].number = hist[r].sessions + 1
  BY VisitAlertFacts
<1>5. readAt[r] \in Nat
  BY DEF IInv, TypeOK
<1>6. QED
  BY <1>1, <1>2, <1>3, <1>4, <1>5 DEF ToRow

\* A session whose lookup saw another session's row counts at least one more.
LEMMA NumbersFollow == IInv => NumbersGrow
<1> SUFFICES ASSUME IInv, NEW q \in Requests, NEW r \in Requests,
                    IsVisitAlert(q), IsVisitAlert(r), ev[q].visitor = ev[r].visitor,
                    StoredBeforeRead(q, r)
             PROVE  alert[q].number < alert[r].number
  BY DEF NumbersGrow
<1> DEFINE seenBy(x) == Cardinality(SessionsOf(events, ev[r].visitor, readAt[x]))
<1>1. /\ readAt[q] \in Nat /\ rowAt[q] \in Nat \ {0} /\ readAt[r] \in Nat
      /\ readAt[q] < rowAt[q] /\ rowAt[q] <= readAt[r]
  BY OwnSessionIsNew DEF StoredBeforeRead
<1>2. seenBy(q) + 1 <= seenBy(r)
  <2>1. rowAt[q] \in 1..readAt[r] /\ readAt[q] <= readAt[r]
    BY <1>1
  <2>2. QED
    BY <1>1, <2>1, OwnSessionIsNew, NewSessionCounts
<1>3. seenBy(q) \in Nat /\ seenBy(r) \in Nat
  BY <1>1, SessionsFinite, FS_CardinalityType
<1>4. alert[q].number = seenBy(q) + 1 /\ alert[r].number = seenBy(r) + 1
  BY OwnSessionIsNew
<1>5. QED
  BY <1>2, <1>3, <1>4

\* The number of an alert counts stored sessions, its own included, and "new"
\* means that the lookup saw no row of the visitor.
LEMMA NumberSoundFollows == IInv => NumbersCount
<1> SUFFICES ASSUME IInv, NEW r \in Requests, IsVisitAlert(r)
             PROVE  /\ alert[r].number \in 1 .. Cardinality(SessionsOf(events, ev[r].visitor, Len(events)))
                    /\ alert[r].kind = "new" <=> RowsOf(events, ev[r].visitor, readAt[r]) = {}
  BY DEF NumbersCount
<1> DEFINE v == ev[r].visitor
           S == SessionsOf(events, v, readAt[r])
<1>1. Len(events) \in Nat /\ readAt[r] \in Nat /\ readAt[r] <= Len(events)
  BY DEF IInv, TypeOK, HistoryIsPrefix
<1>2. Cardinality(S) + 1 <= Cardinality(SessionsOf(events, v, Len(events)))
  BY <1>1, OwnSessionIsNew, NewSessionCounts
<1>3. IsFiniteSet(S) /\ Cardinality(S) \in Nat
  BY <1>1, SessionsFinite, FS_CardinalityType
<1>4. Cardinality(S) = 0 <=> S = {}
  BY <1>3, FS_EmptySet
<1>5. S = {} <=> RowsOf(events, v, readAt[r]) = {}
  BY DEF SessionsOf
<1>6. alert[r].kind = "new" <=> Cardinality(S) = 0
  <2>1. hist[r].ok /\ alert[r].kind = IF hist[r].sessions > 0 THEN "returning" ELSE "new"
    BY VisitAlertFacts
  <2>2. hist[r].sessions = Cardinality(S)
    BY <2>1 DEF IInv, HistoryIsPrefix
  <2>3. QED
    BY <1>3, <2>1, <2>2
<1>7. alert[r].number = Cardinality(S) + 1
  BY OwnSessionIsNew
<1>8. Cardinality(SessionsOf(events, v, Len(events))) \in Nat
  BY <1>1, SessionsFinite, FS_CardinalityType
<1>9. alert[r].number \in 1 .. Cardinality(SessionsOf(events, v, Len(events)))
  BY <1>2, <1>3, <1>7, <1>8
<1>10. QED
  BY <1>4, <1>5, <1>6, <1>9

\* The first row of a session cannot have been seen by its own lookup.
LEMMA OpeningFollows == IInv => OpeningPageviewAlerts
<1> SUFFICES ASSUME IInv, NotifierEnabled, NEW i \in 1..Len(events), FirstRow(i)
             PROVE  \E r \in Requests :
                      /\ rowAt[r] = i
                      /\ IsVisitAlert(r) \/ ~hist[r].ok \/ pc[r] \in {"stored", "failed", "killed"}
  BY DEF OpeningPageviewAlerts
<1>1. PICK r \in Requests : rowAt[r] = i
  BY DEF IInv, RowsMatchRequests
<1>2. Len(events) \in Nat /\ rowAt[r] # 0
  BY <1>1 DEF IInv, TypeOK
<1>3. CASE hist[r].ok /\ pc[r] \notin {"stored", "failed", "killed"}
  <2>1. pc[r] = "tracked"
    BY <1>2, <1>3 DEF IInv, TypeOK, PcAgrees, Running, Ended
  <2>2. events[i] = ToRow(ev[r]) /\ readAt[r] < i /\ readAt[r] \in Nat
    BY <1>1, <1>2, <1>3 DEF IInv, RowsBelong, HistoryIsPrefix
  <2>3. ev[r].session \notin SessionsOf(events, ev[r].visitor, readAt[r])
    BY <1>2, <2>2 DEF FirstRow, SessionsOf, RowsOf, ToRow
  <2>4. ~hist[r].seen
    BY <1>3, <2>3 DEF IInv, HistoryIsPrefix
  <2>5. alert[r] = VisitAlert(hist[r])
    BY <1>3, <2>1, <2>4 DEF IInv, PcAgrees, AlertFor
  <2>6. QED
    BY <1>1, <2>5 DEF IsVisitAlert, VisitAlert
<1>4. QED
  BY <1>1, <1>3

\* An alert is started only once its row is in the table.
LEMMA StoredFollows == IInv => AlertsAreStored
<1> SUFFICES ASSUME IInv, NEW r \in Requests
             PROVE  /\ alert[r] # NoAlert => rowAt[r] \in 1..Len(events) /\ events[rowAt[r]] = ToRow(ev[r])
                    /\ pc[r] \in {"malformed", "rejected", "discarded"} => rowAt[r] = 0
  BY DEF AlertsAreStored
<1>1. alert[r] # NoAlert => rowAt[r] # 0
  BY DEF IInv, PcAgrees
<1>2. QED
  BY <1>1 DEF IInv, PcAgrees, RowsBelong, TypeOK

\* Type correctness of every reachable state.
THEOREM TypeCorrect == Spec => []TypeOK
<1>1. IInv => TypeOK
  BY DEF IInv
<1>2. QED
  BY <1>1, Invariance, PTL

\* However requests interleave and whenever the process ends, a session is
\* announced twice only by requests each of which read the visitor's history
\* before the other's row was there.
THEOREM OnlyOverlappingRequestsRepeatAnAlert == Spec => []DuplicateAlertsOverlap
BY Invariance, DuplicatesFollow, PTL

\* The numbers given to a visitor's sessions grow with what the lookups saw.
THEOREM VisitNumbersFollowTheTable == Spec => []VisitNumberSound
<1>1. IInv => VisitNumberSound
  BY NumbersFollow, NumberSoundFollows DEF VisitNumberSound
<1>2. QED
  BY <1>1, Invariance, PTL

\* A session that opens with a pageview is silent only after one of the failures
\* the code lets pass.
THEOREM SilenceIsExplained == Spec => []OpeningPageviewAlerts
BY Invariance, OpeningFollows, PTL

\* Rows and requests correspond one to one, and only stored events are announced.
THEOREM RowsAreFaithful == Spec => []RowsFaithful
<1>1. IInv => RowsFaithful
  BY StoredFollows DEF IInv, RowsFaithful
<1>2. QED
  BY <1>1, Invariance, PTL
=============================================================================
