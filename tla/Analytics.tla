----------------------------- MODULE Analytics -----------------------------
(***************************************************************************)
(* The reading side of the analytics: analyticsService.Overview, Live,     *)
(* Sessions, Session and Export (internal/service/analytics_service.go)    *)
(* over the queries of module Queries, for the admin API and the bot.      *)
(*                                                                         *)
(* An answer is put together from many statements, each of which sees the  *)
(* table of its own moment: there is no transaction around them, and the   *)
(* trackers go on storing events.  A reader that pages through the list of *)
(* sessions sends one request per page, and the list moves under it.       *)
(*                                                                         *)
(* Requests only read, so one at a time stands for all.                    *)
(*                                                                         *)
(* created_at is the start of the INSERT (DEFAULT NOW()): a row may become *)
(* visible after later ones, and several may be of one instant.  No query  *)
(* but that of the live view reads the clock, so the model has instants    *)
(* and no clock: a row is of any, and the window begins at any.            *)
(*                                                                         *)
(* Abstracted: dates are day numbers, and a text that is no date is NoDay; *)
(* the averages, see Queries.                                              *)
(***************************************************************************)
EXTENDS Queries

CONSTANTS
  Incoming,      \* the events the trackers send
  Ranges,        \* the ranges asked for
  Lists,         \* the lists of sessions asked for
  NoDay,         \* a date that does not parse
  Day,           \* bound: the instants of the model, each with its calendar day
  MaxRows,       \* bound: events stored
  MaxLate,       \* bound: events stored while a request reads
  MaxRangeDays,  \* maxRangeDays (366 in the code)
  MaxLimit,      \* the longest page (100)
  DefaultLimit,  \* the page when no length is asked for (25)
  MaxExportRows  \* rows of an export (100,000 in the code)

Days == [from : Int, to : Int]

(* A tracker keeps a session id for one visitor id.  The calendar does not *)
(* go back: no change of the offset takes a midnight twice.                *)
ASSUME AnalyticsAssumption ==
  /\ Incoming \subseteq [session : Nat, visitor : Nat, place : Nat, tag : Nat, num : Nat,
                         type : STRING, name : STRING]
  /\ \A e, f \in Incoming : e.session = f.session => e.visitor = f.visitor
  /\ NoDay \in Int /\ Ranges \subseteq Days
  /\ Lists \subseteq [range : Days, converted : BOOLEAN, tag : Nat, limit : Int, offset : Int]
  /\ TopRows \in Nat \ {0} /\ MaxRangeDays \in Nat \ {0} /\ MaxExportRows \in Nat
  /\ MaxLimit \in Nat /\ DefaultLimit \in 1..MaxLimit
  /\ Day \in Seq(Int) /\ \A a, b \in DOMAIN Day : a <= b => Day[a] <= Day[b]
  /\ MaxRows \in Nat /\ MaxLate \in Nat

\* "devices" stands for the four breakdowns of sessions, by device, browser, system and
\* site language.
Parts == <<"current", "previous", "timeseries", "sources", "campaigns", "locations",
           "devices", "languages", "funnel", "scroll", "resumes", "contacts",
           "interactions", "pages", "heatmap", "vitals">>

VARIABLES
  table,    \* the events table
  phase,    \* what the request is about to do, or how it ended
  range,    \* the range it is for
  part,     \* overview: the part it has come to
  out,      \* overview: the parts it has
  asOf,     \* observer: rows in the table each part was read from, -1 if not read
  query,    \* sessions: the filters, page length and offset
  total,    \* sessions: the total of the page
  page,     \* sessions: the rows of the page
  opened,   \* observer: rows in the table when the list was opened
  matched,  \* observer: what the list held then, from the offset on
  seen,     \* observer: the sessions the reader has been shown
  detail,   \* session: its summary and its events
  reply,    \* the live view or the export
  late      \* events stored since the request came

overviewVars == <<part, out, asOf>>

listVars == <<query, total, page, opened, matched, seen>>

vars == <<table, phase, range, overviewVars, listVars, detail, reply, late>>

Nothing == [none |-> TRUE]

NoSession == [session |-> 0, summary |-> Nothing, events |-> {}, asOf |-> -1]

Reading == {"overview", "count", "rows", "page", "summary", "events", "live", "export"}

\* ValidateRange: its length in days, or 0 for an error.
ValidDays(r) ==
  IF NoDay \in {r.from, r.to} \/ r.from > r.to \/ r.to - r.from + 1 > MaxRangeDays THEN 0
  ELSE r.to - r.from + 1

\* Mutation: the period before ends on the day this one begins.
PreviousOverlaps(r, days) == [from |-> r.from - (days - 1), to |-> r.from]

PreviousRange(r, days) == [from |-> r.from - 1 - (days - 1), to |-> r.from - 1]

\* Mutation: no fallback.
ClampOnly(v, lo, hi, fallback) == IF v > hi THEN hi ELSE v

Clamp(v, lo, hi, fallback) == IF v <= 0 THEN fallback ELSE IF v > hi THEN hi ELSE v

\* What the query of a part says of the table T.
Answer(T, r, p) ==
  CASE p = "current"      -> KpiTotals(T, r)
    [] p = "previous"     -> KpiTotals(T, PreviousRange(r, ValidDays(r)))
    [] p = "timeseries"   -> Timeseries(T, r)
    [] p = "sources"      -> Sources(T, r)
    [] p = "campaigns"    -> Campaigns(T, r)
    [] p = "locations"    -> Locations(T, r)
    [] p = "devices"      -> SessionBreakdown(T, r)
    [] p = "languages"    -> BrowserLanguages(T, r)
    [] p = "funnel"       -> Funnel(T, r)
    [] p = "scroll"       -> ScrollDepth(T, r)
    [] p = "resumes"      -> CustomEventBreakdown(T, r, "resume_download")
    [] p = "contacts"     -> CustomEventBreakdown(T, r, "contact_click")
    [] p = "interactions" -> Interactions(T, r)
    [] p = "pages"        -> TopPages(T, r)
    [] p = "heatmap"      -> Heatmap(T, r)
    [] p = "vitals"       -> WebVitals(T, r)
-----------------------------------------------------------------------------
(* The table.                                                              *)

\* A tracker's event as the row of an instant.
AsRow(e, t) == [session |-> e.session, visitor |-> e.visitor, place |-> e.place, tag |-> e.tag,
                num |-> e.num, type |-> e.type, name |-> e.name,
                at |-> t, day |-> Day[t], nth |-> 0]

Rows == {AsRow(e, t) : e \in Incoming, t \in DOMAIN Day}

\* The ways to sort n rows by created_at: each gives row i its place o[i].
Sorts(T) ==
  {o \in [1..Len(T) -> 1..Len(T)] : \A i, j \in 1..Len(T) :
     i # j => /\ o[i] # o[j]
              /\ T[i].at < T[j].at => o[i] < o[j]}

\* The table as a statement may read it: its own sort decides between rows of one instant.
Readings(T) == {[i \in 1..Len(T) |-> [T[i] EXCEPT !.nth = o[i]]] : o \in Sorts(T)}

Blank == [p \in {Parts[k] : k \in 1..Len(Parts)} |-> Nothing]
Unread == [p \in DOMAIN Blank |-> -1]

\* What was stored before the request came; how these rows are numbered does not matter.
Stored ==
  {T \in UNION {[1..n -> Rows] : n \in 0..MaxRows} :
     \A i, j \in 1..Len(T) : i < j => T[i].at <= T[j].at}

Init ==
  /\ table \in Stored
  /\ phase = "idle"
  /\ range = [from |-> 1, to |-> 1]
  /\ part = 1
  /\ out = Blank
  /\ asOf = Unread
  /\ query = [range |-> range, converted |-> FALSE, tag |-> 0, limit |-> 1, offset |-> 0]
  /\ total = 0
  /\ page = {}
  /\ opened = 0
  /\ matched = {}
  /\ seen = {}
  /\ detail = NoSession
  /\ reply = Nothing
  /\ late = 0

\* A tracker's event is stored, whatever is being read: its INSERT may have begun long ago.
Store(e) ==
  /\ Len(table) < MaxRows
  /\ late < MaxLate
  /\ phase \in Reading
  /\ late' = late + 1
  /\ \E t \in DOMAIN Day : table' = Append(table, AsRow(e, t))
  /\ UNCHANGED <<phase, range, overviewVars, listVars, detail, reply>>

\* An overview is asked for; ErrInvalidRange, or the first query is next.
Overview(r) ==
  /\ phase = "idle"
  /\ range' = r
  /\ phase' = IF ValidDays(r) = 0 THEN "rejected" ELSE "overview"
  /\ UNCHANGED <<table, overviewVars, listVars, detail, reply, late>>

\* Mutation: the totals are read last.
NextPartTotalsLast ==
  /\ phase = "overview"
  /\ LET p == Parts[Len(Parts) + 1 - part] IN
       /\ \E T \in Readings(table) : out' = [out EXCEPT ![p] = Answer(T, range, p)]
       /\ asOf' = [asOf EXCEPT ![p] = Len(table)]
  /\ part' = part + 1
  /\ phase' = IF part = Len(Parts) THEN "answered" ELSE "overview"
  /\ UNCHANGED <<table, range, listVars, detail, reply, late>>

\* The next query fills its part of the answer.
NextPart ==
  /\ phase = "overview"
  /\ LET p == Parts[part] IN
       /\ \E T \in Readings(table) : out' = [out EXCEPT ![p] = Answer(T, range, p)]
       /\ asOf' = [asOf EXCEPT ![p] = Len(table)]
  /\ part' = part + 1
  /\ phase' = IF part = Len(Parts) THEN "answered" ELSE "overview"
  /\ UNCHANGED <<table, range, listVars, detail, reply, late>>

\* A page of sessions is asked for, from an offset that may be negative.
Sessions(q) ==
  /\ phase = "idle"
  /\ query' = [q EXCEPT !.limit = Clamp(q.limit, 1, MaxLimit, DefaultLimit),
                        !.offset = IF q.offset < 0 THEN 0 ELSE q.offset]
  /\ phase' = IF ValidDays(q.range) = 0 THEN "rejected" ELSE "count"
  /\ UNCHANGED <<table, range, overviewVars, total, page, opened, matched, seen, detail, reply, late>>

\* What the list holds from the reader's offset on.
ToCome(T) == Page(T, [query EXCEPT !.limit = MaxRows])

\* Who opens the list has seen nothing of it.
Open(T) ==
  IF seen = {} THEN opened' = Len(T) /\ matched' = ToCome(T)
  ELSE UNCHANGED <<opened, matched>>

\* Mutation: the total is that of the range, without the filters.
CountUnfiltered ==
  /\ phase = "count"
  /\ \E T \in Readings(table) :
       /\ total' = Cardinality(SessionsOf(T, Ev(T, query.range)))
       /\ Open(T)
  /\ phase' = "rows"
  /\ UNCHANGED <<table, range, overviewVars, query, page, seen, detail, reply, late>>

CountSessions ==
  /\ phase = "count"
  /\ \E T \in Readings(table) :
       /\ total' = Cardinality(Matching(T, query))
       /\ Open(T)
  /\ phase' = "rows"
  /\ UNCHANGED <<table, range, overviewVars, query, page, seen, detail, reply, late>>

ListSessions ==
  /\ phase = "rows"
  /\ \E T \in Readings(table) : page' = Page(T, query)
  /\ seen' = seen \cup page'
  /\ phase' = IF page' = {} THEN "answered" ELSE "page"
  /\ UNCHANGED <<table, range, overviewVars, query, total, opened, matched, detail, reply, late>>

\* The reader asks for the page after the rows it was sent, until one is empty.
TurnPage ==
  /\ phase = "page"
  /\ query' = [query EXCEPT !.offset = @ + Cardinality(page)]
  /\ phase' = "count"
  /\ UNCHANGED <<table, range, overviewVars, total, page, opened, matched, seen, detail, reply, late>>

\* One session is asked for by its id.
Session(s) ==
  /\ phase = "idle"
  /\ detail' = [NoSession EXCEPT !.session = s]
  /\ phase' = "summary"
  /\ UNCHANGED <<table, range, overviewVars, listVars, reply, late>>

\* Its summary, over all its days; ErrNotFound if it has no rows.
ReadSummary ==
  /\ phase = "summary"
  /\ LET all == 1..Len(table) IN
       IF RowsOf(table, all, detail.session) = {} THEN phase' = "rejected" /\ UNCHANGED detail
       ELSE /\ phase' = "events"
            /\ \E T \in Readings(table) :
                 detail' = [detail EXCEPT !.summary = Summary(T, all, detail.session),
                                          !.asOf = Len(table)]
  /\ UNCHANGED <<table, range, overviewVars, listVars, reply, late>>

ReadEvents ==
  /\ phase = "events"
  /\ detail' = [detail EXCEPT !.events = SessionEvents(table, detail.session)]
  /\ phase' = "answered"
  /\ UNCHANGED <<table, range, overviewVars, listVars, reply, late>>

\* The live view is asked for.
AskLive ==
  /\ phase = "idle"
  /\ phase' = "live"
  /\ UNCHANGED <<table, range, overviewVars, listVars, detail, reply, late>>

\* The window begins at some instant; the total is summed over the pages.
ReadLive ==
  /\ phase = "live"
  /\ \E T \in Readings(table), since \in 1..(Len(Day) + 1) :
       LET pages == Live(T, since)
       IN reply' = [since |-> since, pages |-> pages, visitors |-> Total(pages)]
  /\ phase' = "answered"
  /\ UNCHANGED <<table, range, overviewVars, listVars, detail, late>>

AskExport(r) ==
  /\ phase = "idle"
  /\ range' = r
  /\ phase' = IF ValidDays(r) = 0 THEN "rejected" ELSE "export"
  /\ UNCHANGED <<table, overviewVars, listVars, detail, reply, late>>

ReadExport ==
  /\ phase = "export"
  /\ \E T \in Readings(table) : reply' = [rows |-> Export(T, range, MaxExportRows)]
  /\ phase' = "answered"
  /\ UNCHANGED <<table, range, overviewVars, listVars, detail, late>>

\* A query fails: the request is answered with an error and nothing else.
Fails ==
  /\ phase \in Reading \ {"page"}
  /\ phase' = "failed"
  /\ out' = Blank
  /\ asOf' = Unread
  /\ detail' = NoSession
  /\ UNCHANGED <<table, range, part, listVars, reply, late>>

Next ==
  \/ \E e \in Incoming : Store(e)
  \/ \E r \in Ranges : Overview(r)
  \/ NextPart
  \/ \E q \in Lists : Sessions(q)
  \/ CountSessions
  \/ ListSessions
  \/ TurnPage
  \/ \E e \in Incoming : Session(e.session)
  \/ ReadSummary
  \/ ReadEvents
  \/ AskLive
  \/ ReadLive
  \/ \E r \in Ranges : AskExport(r)
  \/ ReadExport
  \/ Fails

Spec == Init /\ [][Next]_vars
-----------------------------------------------------------------------------
Row == [session : Nat, visitor : Nat, place : Nat, tag : Nat, num : Nat,
        type : STRING, name : STRING, at : DOMAIN Day, day : Int, nth : Nat]

TypeOK ==
  /\ table \in Seq(Row) /\ Len(table) <= MaxRows
  /\ phase \in {"idle", "rejected", "failed", "answered"} \cup Reading
  /\ range \in Ranges \cup {[from |-> 1, to |-> 1]}
  /\ part \in 1..(Len(Parts) + 1)
  /\ asOf \in [DOMAIN Blank -> -1..MaxRows]
  /\ query.limit \in 1..MaxLimit /\ query.offset \in Nat
  /\ total \in Nat /\ opened \in 0..Len(table)
  /\ Cardinality(page) <= query.limit
  /\ late \in 0..MaxLate

Has(p) == asOf[p] >= 0

Cur == out["current"]
Old == out["previous"]

Sum(points, f) == Total([d \in DOMAIN points |-> points[d][f]])

\* a is what the totals say, b what a part read later adds up to: b has no less,
\* and the same when no event was stored in between.
Covers(p, a, b) == a <= b /\ (asOf[p] = asOf["current"] => a = b)

\* The parts of an overview that add up to its totals: the days to the pageviews, the
\* heatmap to the sessions, the two lead lists to the lead counts; and, when their limit
\* cuts no row off, the devices to the sessions and the sources to the conversions.
SumsFit ==
  Has("current") =>
    /\ Has("timeseries") => Covers("timeseries", Cur.pageviews, Sum(out["timeseries"], "pageviews"))
    /\ Has("heatmap") => Covers("heatmap", Cur.sessions, Total(out["heatmap"]))
    /\ (Has("devices") /\ Cardinality(DOMAIN out["devices"]) < TopRows)
         => Covers("devices", Cur.sessions, Total(out["devices"]))
    /\ (Has("sources") /\ Cardinality(DOMAIN out["sources"].conversions) < TopRows)
         => Covers("sources", Cur.converted, Total(out["sources"].conversions))
    /\ \A p \in {"sources", "campaigns"} :
         (Has(p) /\ asOf[p] = asOf["current"]) => Total(out[p].conversions) <= Cur.converted
    /\ Has("resumes") => Covers("resumes", Cur.resumes, Total(out["resumes"]))
    /\ Has("contacts") => Covers("contacts", Cur.contacts, Total(out["contacts"]))
    /\ (Has("pages") /\ asOf["pages"] = asOf["current"])
         => Total(out["pages"]) <= Cur.pageviews

\* Visitors and sessions are counted once per range, and once per day or group: the
\* days and groups add up to no less than the range, while no single one of them,
\* read from the same table, holds more.
DistinctsFit ==
  Has("current") =>
    /\ Cur.visitors <= Cur.sessions /\ Cur.bounced <= Cur.sessions
    /\ Has("timeseries") =>
         /\ Cur.visitors <= Sum(out["timeseries"], "visitors")
         /\ Cur.sessions <= Sum(out["timeseries"], "sessions")
         /\ Cur.converted <= Sum(out["timeseries"], "conversions")
         /\ asOf["timeseries"] = asOf["current"] =>
              \A d \in DOMAIN out["timeseries"] :
                /\ out["timeseries"][d].visitors <= Cur.visitors
                /\ out["timeseries"][d].sessions <= Cur.sessions
    /\ (Has("languages") /\ Cardinality(DOMAIN out["languages"]) < TopRows)
         => Cur.visitors <= Total(out["languages"])
    /\ (Has("locations") /\ asOf["locations"] = asOf["current"])
         => \A t \in DOMAIN out["locations"] : out["locations"][t] <= Cur.visitors
    /\ \A p \in {"funnel", "scroll"} :
         (Has(p) /\ asOf[p] = asOf["current"]) =>
           \A x \in DOMAIN out[p] : out[p][x] <= Cur.sessions

\* The parts of an overview, read by separate statements while events are stored, fit
\* its totals: sums add up to them and distinct counts lie within them.  A part read
\* after more events came shows more and never less.  Sessions without a campaign and
\* pageviews without a page are in the totals only.
PartsFitTotals == SumsFit /\ DistinctsFit

\* The period before is as long as this one and ends the day before it: read from
\* the same table, the two count every pageview of the days they span once.
Tile ==
  (Has("current") /\ Has("previous") /\ asOf["current"] = asOf["previous"]) =>
    Cur.pageviews + Old.pageviews =
      Cardinality({i \in 1..asOf["current"] :
        /\ table[i].type = "pageview"
        /\ table[i].day \in (2 * range.from - range.to - 1)..range.to})

\* No row that the table has is of the visitor of row i and from before it, up to row n.
Debut(i, n) == \A j \in 1..n : table[j].visitor = table[i].visitor => table[i].at <= table[j].at

\* One session brought each visitor, and what was stored between the two statements is
\* not of a visitor known to the first and from before all that it knew.
VisitorsInOrder(n, m) ==
  /\ \A i, j \in 1..m : (table[i].visitor = table[j].visitor /\ Debut(i, m) /\ Debut(j, m))
                           => table[i].session = table[j].session
  /\ \A j \in (n + 1)..m : table[j].visitor \in VisitorsOf(table, 1..n) =>
       \E i \in 1..n : table[i].visitor = table[j].visitor /\ table[i].at <= table[j].at

\* A visitor is new in at most one session of the two periods together: sessions
\* that are not returning are not more than the visitors.
NewOnce ==
  (Has("current") /\ Has("previous") /\ VisitorsInOrder(asOf["current"], asOf["previous"])) =>
    (Cur.sessions - Cur.returning) + (Old.sessions - Old.returning)
      <= Cardinality(VisitorsOf(table, 1..asOf["previous"]))

\* The two periods an overview compares share no day and leave none out, and a visitor
\* who came in both is new in one of them only, unless two sessions began in the same
\* instant or the row that is first came between the two statements.
PeriodsTile == Tile /\ NewOnce

\* Row i is the earliest of its session among S, maybe with others.
Opens(S, i) == \A j \in RowsOf(table, S, table[i].session) : table[i].at <= table[j].at

\* No two sessions of the list began in the same instant, nor two rows one of them.
StartsApart ==
  LET S == Ev(table, query.range)
  IN \A i, j \in S : (Opens(S, i) /\ Opens(S, j) /\ table[i].at = table[j].at) => i = j

\* Since the list was opened no session's start moved: what was stored of a session after
\* others of its rows is later than one of them.
StartsKept ==
  \A j \in Ev(table, query.range) :
    LET known == {i \in RowsOf(table, Ev(table, query.range), table[j].session) : i < j}
    IN (j > opened /\ known # {}) => \E i \in known : table[i].at < table[j].at

\* The order is that of the starts, and the starts stay.
Steady == StartsApart /\ StartsKept

\* Who pages through the list to an empty page has been shown every session that
\* was in it, from their offset on, when they opened it, although new sessions, and older
\* ones that convert, push the rows along.
NothingMissed ==
  (phase = "answered" /\ part = 1 /\ Steady) => matched \subseteq seen

\* The total of a page is never more than its list can show: rows that the first
\* statement counts are still there for the second.
TotalIsCovered ==
  (phase \in {"page", "answered"} /\ part = 1 /\ Steady) =>
    Cardinality(page) >= (IF total - query.offset > query.limit THEN query.limit
                          ELSE total - query.offset)

\* Paging by offset, newest first, through a list that grows and whose count and rows are
\* read by two statements, shows whatever was there and ends no sooner than the
\* total says - unless two sessions began in the same instant, or a row that
\* became visible late moved a session's beginning.
PagingMissesNothing == NothingMissed /\ TotalIsCovered

\* The events shown of a session account for its summary, which is read before them:
\* its pageviews, conversions, sections and depth are among them, and nothing else
\* is when no event was stored in between.
DetailFits ==
  (phase = "answered" /\ detail.summary # Nothing) =>
    LET E == detail.events
        shown == [ pageviews   |-> Cardinality(OfType(table, E, "pageview")),
                   conversions |-> {table[i].name : i \in Named(table, E, Conversions)},
                   sections    |-> {table[i].place : i \in OfType(table, E, "section_view")} ]
    IN /\ detail.summary.pageviews <= shown.pageviews
       /\ detail.summary.conversions \subseteq shown.conversions
       /\ detail.summary.sections \subseteq shown.sections
       /\ \/ detail.summary.max_scroll = 0
          \/ \E i \in Named(table, E, {"scroll_depth"}) : table[i].num = detail.summary.max_scroll
       /\ (\A i \in E : i <= detail.asOf) =>
            \A f \in DOMAIN shown : shown[f] = detail.summary[f]

\* The latest rows of a visitor in the window: several, if they are of one instant.
Latest(v, since) ==
  LET S == {i \in Window(table, since) : table[i].visitor = v}
  IN {i \in S : \A j \in S : table[j].at <= table[i].at}

\* The live view counts a visitor with several pages open once, and not at all once a
\* leave is the last that is known of them; and an export that is not cut holds the
\* rows the overview counts, while a cut one leaves out the oldest.
LiveAndExportFit ==
  (phase = "answered" /\ reply # Nothing) =>
    IF "pages" \in DOMAIN reply
    THEN LET V == VisitorsOf(table, Window(table, reply.since))
             Stays(i) == table[i].type # "leave"
         IN /\ Cardinality({v \in V : \A i \in Latest(v, reply.since) : Stays(i)}) <= reply.visitors
            /\ reply.visitors <= Cardinality({v \in V : \E i \in Latest(v, reply.since) : Stays(i)})
    ELSE LET cut == Ev(table, range) \ reply.rows
         IN /\ cut = {} => Cardinality(OfType(table, reply.rows, "pageview"))
                             = Cardinality(OfType(table, Ev(table, range), "pageview"))
            /\ cut # {} => /\ Cardinality(reply.rows) = MaxExportRows
                          /\ \A i \in cut, j \in reply.rows : table[i].at <= table[j].at

=============================================================================
