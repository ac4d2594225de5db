------------------------------ MODULE Queries ------------------------------
(***************************************************************************)
(* The queries of internal/repository/analytics_repo.go, as operators over *)
(* the table of events.                                                    *)
(*                                                                         *)
(* A table T is the sequence of its rows as they became visible, which is  *)
(* not the order of created_at: that is the start of the INSERT, and one   *)
(* that began earlier may be done later.  A row has the instant of its     *)
(* created_at, at, its calendar day in the time zone of the connection,    *)
(* day, and nth, its place when the statement that reads T sorts all rows  *)
(* by created_at.  Rows of one instant are sorted anyhow, and by each      *)
(* statement anew.  A set S of indices stands for the common table         *)
(* expression ev, and the operators over T and S for what is built on it.  *)
(*                                                                         *)
(* Abstracted: the averages (their numerators are kept), percentiles and   *)
(* hours; and the columns that are only grouped by - source, campaign,     *)
(* country, device, language, a key of custom_data - which are one, tag;   *)
(* page and section are one, place.  Both are numbers, in the order of the *)
(* texts; 0 is the empty text, and place 1 the page '/'.                   *)
(***************************************************************************)
EXTENDS Integers, Sequences, FiniteSets, FiniteSetsExt

CONSTANTS
  TopRows,    \* the LIMIT of the ranked lists (10, 12 and 20 in the code)
  Sections    \* funnelSections, in any order

Conversions == {"resume_download", "contact_click"}

Unlisted == Conversions \cup {"scroll_depth", "web_vitals"}

Depths == {25, 50, 75, 100}

Home == 1

\* inRange: the table expression ev of a range.  Rows of device 'bot', which it
\* leaves out as well, are not stored (eventService.TrackEvent).
Ev(T, r) == {i \in 1..Len(T) : r.from <= T[i].day /\ T[i].day <= r.to}

OfType(T, S, type) == {i \in S : T[i].type = type}

Named(T, S, names) == {i \in OfType(T, S, "custom") : T[i].name \in names}

VisitorsOf(T, S) == {T[i].visitor : i \in S}

SessionsOf(T, S) == {T[i].session : i \in S}

Distinct(S) == Cardinality(S)

\* GROUP BY tag, each group counted by size.
CountByTag(T, S) == [t \in {T[i].tag : i \in S} |-> Cardinality({i \in S : T[i].tag = t})]

VisitorsByTag(T, S) ==
  [t \in {T[i].tag : i \in S} |-> Distinct(VisitorsOf(T, {i \in S : T[i].tag = t}))]

\* ORDER BY count DESC, key LIMIT TopRows.  Campaigns, Locations and TopPages leave ties
\* open in the code: which of two equal rows they cut does not change the counts shown,
\* and of the conversions of campaigns only what no choice changes is claimed.
Ranked(counts) ==
  LET Above(t, u) == counts[t] > counts[u] \/ (counts[t] = counts[u] /\ t < u)
      Top == {u \in DOMAIN counts : Cardinality({t \in DOMAIN counts : Above(t, u)}) < TopRows}
  IN [u \in Top |-> counts[u]]

Total(counts) == MapThenSumSet(LAMBDA t : counts[t], DOMAIN counts)
-----------------------------------------------------------------------------
(* The table expressions sess, eng, s and first.                           *)

RowsOf(T, S, s) == {i \in S : T[i].session = s}

\* Row i is before row j, as the statement sorts them.
Before(T, i, j) == T[i].nth < T[j].nth

\* The first row of the session among S: started_at, and the row of first.
FirstRow(T, S, s) == CHOOSE i \in RowsOf(T, S, s) : \A j \in RowsOf(T, S, s) : ~ Before(T, j, i)

Visitor(T, S, s) == Min(VisitorsOf(T, RowsOf(T, S, s)))

Converted(T, S, s) == Named(T, RowsOf(T, S, s), Conversions) # {}

\* The highest time reported per page, summed.
Engaged(T, S, s) ==
  LET reports == {i \in RowsOf(T, S, s) : T[i].type \in {"leave", "heartbeat"}}
      Highest(p) == Max({T[i].num : i \in {j \in reports : T[j].place = p}})
  IN MapThenSumSet(Highest, {T[i].place : i \in reports})

Bounced(T, S, s) ==
  /\ Cardinality(OfType(T, RowsOf(T, S, s), "pageview")) <= 1
  /\ Engaged(T, S, s) < 10

\* Mutation: the earlier event is looked for in ev, not in the whole table.
ReturningInRange(T, S, s) ==
  \E o \in S : T[o].visitor = Visitor(T, S, s) /\ T[o].at < T[FirstRow(T, S, s)].at

\* The visitor has an event of any kind from before the session started.
Returning(T, S, s) ==
  \E o \in 1..Len(T) : T[o].visitor = Visitor(T, S, s) /\ T[o].at < T[FirstRow(T, S, s)].at
-----------------------------------------------------------------------------
(* The queries of the overview.                                            *)

KpiTotals(T, r) ==
  LET S == Ev(T, r)
      sessions == SessionsOf(T, S)
  IN [ visitors  |-> Distinct(VisitorsOf(T, S)),
       sessions  |-> Cardinality(sessions),
       pageviews |-> Cardinality(OfType(T, S, "pageview")),
       engaged   |-> MapThenSumSet(LAMBDA s : Engaged(T, S, s), sessions),
       bounced   |-> Cardinality({s \in sessions : Bounced(T, S, s)}),
       returning |-> Cardinality({s \in sessions : Returning(T, S, s)}),
       resumes   |-> Cardinality(Named(T, S, {"resume_download"})),
       contacts  |-> Cardinality(Named(T, S, {"contact_click"})),
       converted |-> Cardinality({s \in sessions : Converted(T, S, s)}) ]

\* Mutation: the last day of the range is left out.
TimeseriesShort(T, r) ==
  [d \in r.from..(r.to - 1) |->
     LET S == {i \in Ev(T, r) : T[i].day = d} IN
     [ visitors    |-> Distinct(VisitorsOf(T, S)),
       sessions    |-> Distinct(SessionsOf(T, S)),
       pageviews   |-> Cardinality(OfType(T, S, "pageview")),
       conversions |-> Distinct(SessionsOf(T, Named(T, S, Conversions))) ]]

\* One point per day of the range, also for days without events.
Timeseries(T, r) ==
  [d \in r.from..r.to |->
     LET S == {i \in Ev(T, r) : T[i].day = d} IN
     [ visitors    |-> Distinct(VisitorsOf(T, S)),
       sessions    |-> Distinct(SessionsOf(T, S)),
       pageviews   |-> Cardinality(OfType(T, S, "pageview")),
       conversions |-> Distinct(SessionsOf(T, Named(T, S, Conversions))) ]]

\* The first rows of the sessions of S: sessions are grouped by their columns.
Firsts(T, S) == {FirstRow(T, S, s) : s \in SessionsOf(T, S)}

\* Visitors and converted sessions per tag of the session's first row, for the tags with
\* the most visitors.
ByFirst(T, S, tags) ==
  LET From(t) == {s \in SessionsOf(T, S) : T[FirstRow(T, S, s)].tag = t}
      shown == Ranked([t \in tags |-> Distinct({Visitor(T, S, s) : s \in From(t)})])
  IN [ visitors    |-> shown,
       conversions |-> [t \in DOMAIN shown |-> Cardinality({s \in From(t) : Converted(T, S, s)})] ]

Sources(T, r) == ByFirst(T, Ev(T, r), {T[i].tag : i \in Firsts(T, Ev(T, r))})

\* Sessions that came without a campaign are left out.
Campaigns(T, r) == ByFirst(T, Ev(T, r), {T[i].tag : i \in Firsts(T, Ev(T, r))} \ {0})

\* Visitors without a country are left out.
Locations(T, r) == Ranked(VisitorsByTag(T, {i \in Ev(T, r) : T[i].tag # 0}))

SessionBreakdown(T, r) == Ranked(CountByTag(T, Firsts(T, Ev(T, r))))

BrowserLanguages(T, r) == Ranked(VisitorsByTag(T, Ev(T, r)))

Funnel(T, r) ==
  [x \in Sections |->
     Distinct(SessionsOf(T, {i \in OfType(T, Ev(T, r), "section_view") : T[i].place = x}))]

ScrollDepth(T, r) ==
  [d \in Depths |->
     Distinct(SessionsOf(T, {i \in Named(T, Ev(T, r), {"scroll_depth"}) : T[i].num >= d}))]

CustomEventBreakdown(T, r, name) == CountByTag(T, Named(T, Ev(T, r), {name}))

Interactions(T, r) ==
  LET S == {i \in OfType(T, Ev(T, r), "custom") : T[i].name \notin Unlisted}
  IN [n \in {T[i].name : i \in S} |-> Cardinality({i \in S : T[i].name = n})]

TopPages(T, r) ==
  LET S == {i \in OfType(T, Ev(T, r), "pageview") : T[i].place # 0}
  IN Ranked([p \in {T[i].place : i \in S} |-> Cardinality({i \in S : T[i].place = p})])

\* Sessions by the time of their first event.
Heatmap(T, r) ==
  LET S == Firsts(T, Ev(T, r))
  IN [d \in r.from..r.to |-> Cardinality({i \in S : T[i].day = d})]

WebVitals(T, r) == Cardinality(Named(T, Ev(T, r), {"web_vitals"}))
-----------------------------------------------------------------------------
(* The list of sessions, and one of them.                                  *)

\* The row of summ of a session, and its column converted as the names it stands for.
Summary(T, S, s) ==
  LET R == RowsOf(T, S, s)
      depths == {T[i].num : i \in Named(T, R, {"scroll_depth"})}
  IN [ visitor     |-> Visitor(T, S, s),
       pageviews   |-> Cardinality(OfType(T, R, "pageview")),
       engaged     |-> Engaged(T, S, s),
       landing     |-> T[FirstRow(T, S, s)].place,
       tag         |-> T[FirstRow(T, S, s)].tag,
       returning   |-> Returning(T, S, s),
       conversions |-> {T[i].name : i \in Named(T, R, Conversions)},
       max_scroll  |-> IF depths = {} THEN 0 ELSE Max(depths),
       sections    |-> {T[i].place : i \in OfType(T, R, "section_view")} ]

\* Mutation: custom events are left out.
SessionEventsSeen(T, s) ==
  {i \in RowsOf(T, 1..Len(T), s) : T[i].type \in {"pageview", "section_view", "leave"}}

\* The events of a session, but for its heartbeats.
SessionEvents(T, s) == {i \in RowsOf(T, 1..Len(T), s) : T[i].type # "heartbeat"}

\* Rows of summ that pass the filters; "" and FALSE filter nothing.
Matching(T, q) ==
  LET S == Ev(T, q.range)
  IN {s \in SessionsOf(T, S) :
        /\ q.converted => Converted(T, S, s)
        /\ q.tag # 0 => T[FirstRow(T, S, s)].tag = q.tag}

\* Mutation: the sessions last active come first.
PageByLastEvent(T, q) ==
  LET S == Ev(T, q.range)
      Last(s) == Max({T[i].nth : i \in RowsOf(T, S, s)})
      Rank(s) == Cardinality({u \in Matching(T, q) : Last(u) > Last(s)})
  IN {s \in Matching(T, q) : q.offset <= Rank(s) /\ Rank(s) < q.offset + q.limit}

\* ORDER BY started_at DESC LIMIT q.limit OFFSET q.offset.
Page(T, q) ==
  LET S == Ev(T, q.range)
      Rank(s) == Cardinality({u \in Matching(T, q) : Before(T, FirstRow(T, S, s), FirstRow(T, S, u))})
  IN {s \in Matching(T, q) : q.offset <= Rank(s) /\ Rank(s) < q.offset + q.limit}
-----------------------------------------------------------------------------
(* The live view and the export.                                           *)

Counted(T, S) ==
  LET PageOf(i) == IF T[i].place = 0 THEN Home ELSE T[i].place
  IN [p \in {PageOf(i) : i \in S} |-> Cardinality({i \in S : PageOf(i) = p})]

\* The rows of the window that begins at the instant since.
Window(T, since) == {i \in 1..Len(T) : T[i].at >= since}

\* Mutation: the latest row of each visitor on each page.
LiveOnEachPage(T, since) ==
  Counted(T, {i \in Window(T, since) :
    /\ T[i].type # "leave"
    /\ \A j \in Window(T, since) :
         (T[j].visitor = T[i].visitor /\ Before(T, i, j)) => T[j].place # T[i].place})

\* Mutation: the latest row of each visitor that is no leave.
LiveUntilSilent(T, since) ==
  LET S == {i \in Window(T, since) : T[i].type # "leave"}
  IN Counted(T, {i \in S : \A j \in S : Before(T, i, j) => T[j].visitor # T[i].visitor})

\* Visitors per page: each on that of their latest row in the window, unless it is a leave.
Live(T, since) ==
  Counted(T, {i \in Window(T, since) :
    /\ T[i].type # "leave"
    /\ \A j \in Window(T, since) : Before(T, i, j) => T[j].visitor # T[i].visitor})

\* Mutation: the oldest rows of the range.
ExportOldest(T, r, limit) ==
  {i \in Ev(T, r) : Cardinality({j \in Ev(T, r) : Before(T, j, i)}) < limit}

\* ORDER BY created_at DESC LIMIT limit.
Export(T, r, limit) ==
  {i \in Ev(T, r) : Cardinality({j \in Ev(T, r) : Before(T, i, j)}) < limit}
=============================================================================
