------------------------------ MODULE Tracking ------------------------------
(***************************************************************************)
(* The ingestion path: POST /api/v1/analytics/event, from the HTTP handler *)
(* (internal/transport/http/handler/event_handler.go) through              *)
(* eventService.TrackEvent (internal/service/event_service.go) to the      *)
(* events table (internal/repository/event_repo.go), and the alert         *)
(* goroutine it leaves behind.                                             *)
(*                                                                         *)
(* Every request runs in a goroutine of its own.  The visitor's history is *)
(* read in one statement and the event stored in a later one, with no      *)
(* transaction or lock around the two, so the requests of one visitor      *)
(* interleave between them.  The process may end at any moment and be      *)
(* started again; only the events table survives.                          *)
(*                                                                         *)
(* Abstracted: the fields of an event that neither a guard nor an alert's  *)
(* kind depends on (page, referrer, device, location, traffic source ...), *)
(* and what happens to an alert past the call to the notifier, which       *)
(* module Broadcast models.                                                *)
(***************************************************************************)
EXTENDS Naturals, Sequences, FiniteSets

CONSTANTS
  Requests,         \* the requests ever made to the tracking route
  Sessions,         \* session ids a tracker may send
  Visitors,         \* visitor ids a tracker may send
  NoId,             \* an id that is missing, or longer than maxIDLen
  Incoming,         \* the decoded bodies the trackers send
  NotifierEnabled,  \* the bot has a token (Enabled)
  MaxStops          \* bound: how many times the process may end

EventTypes == {"pageview", "leave", "section_view", "heartbeat", "click", "custom"}

LeadNames == {"resume_download", "contact_click"}

\* name is what a custom event carries; "other" stands for every non-lead name.
IncomingEvent ==
  [ session : Sessions \cup {NoId},
    visitor : Visitors \cup {NoId},
    type    : EventTypes \cup {"unknown"},
    name    : LeadNames \cup {"other", ""},
    bot     : BOOLEAN ]

ASSUME TrackingAssumption ==
  /\ NoId \notin Sessions \cup Visitors
  /\ Incoming \subseteq IncomingEvent
  /\ NotifierEnabled \in BOOLEAN
  /\ MaxStops \in Nat

VARIABLES
  pc,        \* where each request's goroutine stands, or how it ended
  ev,        \* the event a request carries
  hist,      \* the *VisitorHistory in the request's local variable
  events,    \* the events table, in the order its rows became visible
  rowAt,     \* observer: index in events of the request's row, 0 if none
  readAt,    \* observer: how many rows the request's history lookup saw
  alert,     \* the alert the request's goroutine was started for
  delivery,  \* where that goroutine stands
  stops      \* how many times the process has ended

vars == <<pc, ev, hist, events, rowAt, readAt, alert, delivery, stops>>

NoEvent   == [session |-> NoId, visitor |-> NoId, type |-> "unknown", name |-> "", bot |-> FALSE]
NoHistory == [sessions |-> 0, seen |-> TRUE, ok |-> FALSE]
NoAlert   == [what |-> "none", kind |-> "none", number |-> 0]

Running == {"lookup", "insert", "stored"}
Ended   == {"malformed", "rejected", "discarded", "failed", "tracked", "killed"}

Row == [session : Sessions, visitor : Visitors, type : EventTypes]

Alert == {NoAlert}
         \cup [what : {"visit"}, kind : {"new", "returning"}, number : Nat \ {0}]
         \cup [what : {"lead"}, kind : LeadNames, number : {0}]
-----------------------------------------------------------------------------
(* Queries and pure helpers.                                               *)

\* The rows of visitor v among the first n of a log.
RowsOf(log, v, n) == {i \in 1..n : log[i].visitor = v}

\* The distinct sessions of visitor v among the first n rows of a log.
SessionsOf(log, v, n) == {log[i].session : i \in RowsOf(log, v, n)}

\* Mutation: the query's DISTINCT is lost.
VisitorHistoryNoDistinct(v, s) ==
  [ sessions |-> Cardinality(RowsOf(events, v, Len(events))),
    seen     |-> s \in SessionsOf(events, v, Len(events)),
    ok       |-> TRUE ]

\* Mutation: the query also filters on the session.
VisitorHistoryOfSession(v, s) ==
  [ sessions |-> Cardinality(SessionsOf(events, v, Len(events)) \cap {s}),
    seen     |-> s \in SessionsOf(events, v, Len(events)),
    ok       |-> TRUE ]

\* SELECT COUNT(DISTINCT session_id), BOOL_OR(session_id = $2) ... WHERE visitor_id = $1
VisitorHistory(v, s) ==
  [ sessions |-> Cardinality(SessionsOf(events, v, Len(events))),
    seen     |-> s \in SessionsOf(events, v, Len(events)),
    ok       |-> TRUE ]

\* sanitize: ids present and short enough, a known type, custom events named.
Sanitized(e) ==
  /\ e.session # NoId /\ e.visitor # NoId
  /\ e.type \in EventTypes
  /\ e.type = "custom" => e.name # ""

IsLead(name) == name \in LeadNames

ToRow(e) == [session |-> e.session, visitor |-> e.visitor, type |-> e.type]

\* Mutation: the current session is not counted.
VisitAlertOffByOne(h) ==
  [ what   |-> "visit",
    kind   |-> IF h.sessions > 0 THEN "returning" ELSE "new",
    number |-> h.sessions ]

\* The payload notifyVisit builds from the history the request carries.
VisitAlert(h) ==
  [ what   |-> "visit",
    kind   |-> IF h.sessions > 0 THEN "returning" ELSE "new",
    number |-> h.sessions + 1 ]

LeadAlert(e) == [what |-> "lead", kind |-> e.name, number |-> 0]

\* Whether TrackEvent reads the history before it stores e.
LooksUp(e) == NotifierEnabled /\ e.type = "pageview"

\* Mutation: SessionSeen is not tested.
AlertForAnyPageview(e, h) ==
  IF ~NotifierEnabled THEN NoAlert
  ELSE IF h.ok THEN VisitAlert(h)
  ELSE IF e.type = "custom" /\ IsLead(e.name) THEN LeadAlert(e)
  ELSE NoAlert

\* Mutation: Sessions is tested in the place of SessionSeen.
AlertForNewVisitor(e, h) ==
  IF ~NotifierEnabled THEN NoAlert
  ELSE IF h.ok /\ h.sessions = 0 THEN VisitAlert(h)
  ELSE IF e.type = "custom" /\ IsLead(e.name) THEN LeadAlert(e)
  ELSE NoAlert

\* The alert TrackEvent starts once e is stored: the two cases of its switch.
AlertFor(e, h) ==
  IF ~NotifierEnabled THEN NoAlert
  ELSE IF h.ok /\ ~h.seen THEN VisitAlert(h)
  ELSE IF e.type = "custom" /\ IsLead(e.name) THEN LeadAlert(e)
  ELSE NoAlert
-----------------------------------------------------------------------------
Init ==
  /\ pc = [r \in Requests |-> "idle"]
  /\ ev = [r \in Requests |-> NoEvent]
  /\ hist = [r \in Requests |-> NoHistory]
  /\ events = <<>>
  /\ rowAt = [r \in Requests |-> 0]
  /\ readAt = [r \in Requests |-> 0]
  /\ alert = [r \in Requests |-> NoAlert]
  /\ delivery = [r \in Requests |-> "none"]
  /\ stops = 0

\* The body does not parse: 400, nothing else happens.
Malformed(r) ==
  /\ pc[r] = "idle"
  /\ pc' = [pc EXCEPT ![r] = "malformed"]
  /\ UNCHANGED <<ev, hist, events, rowAt, readAt, alert, delivery, stops>>

\* sanitize refuses the event (400) or the user agent is a crawler's (204,
\* nothing stored); otherwise the request goes on to its lookup or its insert.
Receive(r, e) ==
  /\ pc[r] = "idle"
  /\ ev' = [ev EXCEPT ![r] = e]
  /\ pc' = [pc EXCEPT ![r] = IF ~Sanitized(e) THEN "rejected"
                             ELSE IF e.bot THEN "discarded"
                             ELSE IF LooksUp(e) THEN "lookup"
                             ELSE "insert"]
  /\ UNCHANGED <<hist, events, rowAt, readAt, alert, delivery, stops>>

LookUp(r) ==
  /\ pc[r] = "lookup"
  /\ hist' = [hist EXCEPT ![r] = VisitorHistory(ev[r].visitor, ev[r].session)]
  /\ readAt' = [readAt EXCEPT ![r] = Len(events)]
  /\ pc' = [pc EXCEPT ![r] = "insert"]
  /\ UNCHANGED <<ev, events, rowAt, alert, delivery, stops>>

\* The query fails: a warning is logged and history stays nil.
LookUpFails(r) ==
  /\ pc[r] = "lookup"
  /\ pc' = [pc EXCEPT ![r] = "insert"]
  /\ UNCHANGED <<ev, hist, events, rowAt, readAt, alert, delivery, stops>>

StoreRow(r) ==
  /\ events' = Append(events, ToRow(ev[r]))
  /\ rowAt' = [rowAt EXCEPT ![r] = Len(events) + 1]

Insert(r) ==
  /\ pc[r] = "insert"
  /\ StoreRow(r)
  /\ pc' = [pc EXCEPT ![r] = "stored"]
  /\ UNCHANGED <<ev, hist, readAt, alert, delivery, stops>>

\* Mutation: the error is logged and not returned, so the alert is still sent.
InsertFailsUnnoticed(r) ==
  /\ pc[r] = "insert"
  /\ StoreRow(r) \/ UNCHANGED <<events, rowAt>>
  /\ pc' = [pc EXCEPT ![r] = "stored"]
  /\ UNCHANGED <<ev, hist, readAt, alert, delivery, stops>>

\* Mutation: a failed insert is tried again.
InsertFailsRetried(r) ==
  /\ pc[r] = "insert"
  /\ Len(events) < 2 * Cardinality(Requests)
  /\ StoreRow(r) \/ UNCHANGED <<events, rowAt>>
  /\ UNCHANGED <<pc, ev, hist, readAt, alert, delivery, stops>>

\* InsertEvent returns an error, still answered with 204.  The statement may
\* have taken effect: the connection can break after the server committed it.
InsertFails(r) ==
  /\ pc[r] = "insert"
  /\ StoreRow(r) \/ UNCHANGED <<events, rowAt>>
  /\ pc' = [pc EXCEPT ![r] = "failed"]
  /\ UNCHANGED <<ev, hist, readAt, alert, delivery, stops>>

\* The rest of TrackEvent: start the alert goroutine if one is due; answer 204.
Dispatch(r) ==
  LET a == AlertFor(ev[r], hist[r]) IN
  /\ pc[r] = "stored"
  /\ alert' = [alert EXCEPT ![r] = a]
  /\ delivery' = [delivery EXCEPT ![r] = IF a = NoAlert THEN "none" ELSE "running"]
  /\ pc' = [pc EXCEPT ![r] = "tracked"]
  /\ UNCHANGED <<ev, hist, events, rowAt, readAt, stops>>

\* NotifyVisit or NotifyLead returns within its 30 seconds; an error is only logged.
NotifyReturns(r) ==
  /\ delivery[r] = "running"
  /\ \E outcome \in {"sent", "failed"} : delivery' = [delivery EXCEPT ![r] = outcome]
  /\ UNCHANGED <<pc, ev, hist, events, rowAt, readAt, alert, stops>>

\* The process ends - a crash, or a shutdown that waits for no alert goroutine
\* and for requests only until its timeout - and docker starts it again.
Stop ==
  /\ stops < MaxStops
  /\ stops' = stops + 1
  /\ pc' = [r \in Requests |-> IF pc[r] \in Running THEN "killed" ELSE pc[r]]
  /\ delivery' = [r \in Requests |-> IF delivery[r] = "running" THEN "lost" ELSE delivery[r]]
  /\ UNCHANGED <<ev, hist, events, rowAt, readAt, alert>>

\* The steps of a request once it is received, and of its alert goroutine.
Progress(r) ==
  \/ LookUp(r) \/ LookUpFails(r)
  \/ Insert(r) \/ InsertFails(r)
  \/ Dispatch(r)
  \/ NotifyReturns(r)

Next ==
  \/ \E r \in Requests : Malformed(r)
  \/ \E r \in Requests, e \in Incoming : Receive(r, e)
  \/ \E r \in Requests : Progress(r)
  \/ Stop

Spec == Init /\ [][Next]_vars
-----------------------------------------------------------------------------
TypeOK ==
  /\ pc \in [Requests -> {"idle"} \cup Running \cup Ended]
  /\ ev \in [Requests -> Incoming \cup {NoEvent}]
  /\ hist \in [Requests -> {NoHistory} \cup [sessions : Nat, seen : BOOLEAN, ok : {TRUE}]]
  /\ events \in Seq(Row)
  /\ rowAt \in [Requests -> Nat]
  /\ readAt \in [Requests -> Nat]
  /\ alert \in [Requests -> Alert]
  /\ delivery \in [Requests -> {"none", "running", "sent", "failed", "lost"}]
  /\ stops \in 0..MaxStops

IsVisitAlert(r) == alert[r].what = "visit"

SameSession(q, r) == ev[q].session = ev[r].session /\ ev[q].visitor = ev[r].visitor

\* Request q had stored its row before request r read the history.
StoredBeforeRead(q, r) == rowAt[q] # 0 /\ rowAt[q] <= readAt[r]

\* Two visit alerts of the same session come only from requests that overlapped:
\* each read the history (event_service.go:74) before the other's insert
\* (event_service.go:92) was visible.  Requests one after the other never do that.
DuplicateAlertsOverlap ==
  \A q, r \in Requests :
    (q # r /\ IsVisitAlert(q) /\ IsVisitAlert(r) /\ SameSession(q, r))
      => ~StoredBeforeRead(q, r) /\ ~StoredBeforeRead(r, q)

\* A session whose lookup saw the row of an earlier alerted one gets a larger number.
NumbersGrow ==
  \A q, r \in Requests :
    (IsVisitAlert(q) /\ IsVisitAlert(r) /\ ev[q].visitor = ev[r].visitor /\ StoredBeforeRead(q, r))
      => alert[q].number < alert[r].number

\* A VisitNumber counts sessions stored for the visitor, its own included, and a
\* visitor is called new exactly when nothing of theirs was stored at the lookup.
NumbersCount ==
  \A r \in Requests : IsVisitAlert(r) =>
    /\ alert[r].number \in 1 .. Cardinality(SessionsOf(events, ev[r].visitor, Len(events)))
    /\ alert[r].kind = "new" <=> RowsOf(events, ev[r].visitor, readAt[r]) = {}

\* The VisitNumbers of a visitor are counts of their sessions that grow along their
\* history, so that they repeat only among requests that overlap.
VisitNumberSound == NumbersGrow /\ NumbersCount

\* Row i is the first row of its session.
FirstRow(i) ==
  \A j \in 1..(i - 1) : ~(events[j].session = events[i].session /\ events[j].visitor = events[i].visitor)

\* A session that opens with a pageview is alerted on, unless one of the three
\* things the code lets go wrong did: the lookup failed (event_service.go:75),
\* the insert reported an error it had in fact survived (line 92), or the
\* process ended before the switch of line 104.
OpeningPageviewAlerts ==
  NotifierEnabled =>
    \A i \in 1..Len(events) : (FirstRow(i) /\ events[i].type = "pageview") =>
      \E r \in Requests :
        /\ rowAt[r] = i
        /\ \/ IsVisitAlert(r)
           \/ ~hist[r].ok
           \/ pc[r] \in {"stored", "failed", "killed"}

\* What the trackers are refused or answered without effect leaves no trace, and
\* nothing is announced that is not stored: an alert's row is in the table.
AlertsAreStored ==
  \A r \in Requests :
    /\ alert[r] # NoAlert => rowAt[r] \in 1..Len(events) /\ events[rowAt[r]] = ToRow(ev[r])
    /\ pc[r] \in {"malformed", "rejected", "discarded"} => rowAt[r] = 0

\* A row is never charged to two requests and no row comes from nowhere: retries
\* and restarts neither duplicate nor invent events.
RowsMatchRequests ==
  \A i \in 1..Len(events) : \E r \in Requests :
    rowAt[r] = i /\ \A q \in Requests \ {r} : rowAt[q] # i

\* The table is what the requests made it: one row for each that stored one, also
\* when the insert reported an error or the process ended (event_service.go:92),
\* and no alert, and no answer to a refused event, without or against its row.
RowsFaithful == RowsMatchRequests /\ AlertsAreStored
-----------------------------------------------------------------------------
(* What the comments of the code say, and its steps do not keep.           *)

\* "VisitNotification is sent once per session, on its first pageview."
\* (internal/domain/notification.go:11)
OncePerSession ==
  \A q, r \in Requests :
    (q # r /\ IsVisitAlert(q) /\ IsVisitAlert(r)) => ~SameSession(q, r)
=============================================================================
