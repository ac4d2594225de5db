-------------------------------- MODULE Edge --------------------------------
(***************************************************************************)
(* What happens to a request before it reaches a table: the visitor's      *)
(* address (transport/http/middleware/clientip.go), the rate limits        *)
(* (server.go), the login and its tokens (service/auth_service.go,         *)
(* pkg/jwt, middleware/auth.go), and what the tracker's event becomes on   *)
(* its way to a row (sanitize in service/event_service.go, geo_service).   *)
(*                                                                         *)
(* A request comes directly or through one or two reverse proxies, each of *)
(* which writes at least one of the two headers the README of the server   *)
(* asks for and may leave the other as it is.  Time is counted in half     *)
(* seconds: tokens and limits know whole seconds only.  Checking a         *)
(* password takes time, in which everything else may happen.               *)
(*                                                                         *)
(* External: the limiter of fiber counts requests per route and address in *)
(* windows that begin with the first request, in memory; a proxy that      *)
(* writes X-Forwarded-For adds its peer to it, one that writes X-Real-IP   *)
(* sets it to its peer; bcrypt matches a hash with its own password only.  *)
(*                                                                         *)
(* Abstracted: a text is the sequence of the widths of its runes, of which *)
(* a prefix is kept; the other fields, and wording of errors.              *)
(***************************************************************************)
EXTENDS Integers, Sequences, FiniteSets, SequencesExt

CONSTANTS
  Public,      \* public addresses, each that of a client
  Country,     \* Country[a]: where the geo database puts a public address
  Secrets,     \* values JWT_SECRET may be given
  Credentials, \* what people log in with: [user, password]
  Bodies,      \* what the tracker sends: [text, seconds], the seconds {n}, or {} for null
  Deployments, \* sets of ways to the server, one of which is all that is used
  MaxText,     \* maxTextLen or maxShortLen, in bytes
  MaxSeconds,  \* maxSecondsSpan
  Mixes,       \* sets of routes, one of which is all that is used in a behaviour
  Limit,       \* requests per window, per route
  Window,      \* seconds
  Lifetime,    \* seconds a token is valid
  LastTick,    \* bound: half seconds
  MaxChecking, \* bound: logins being checked at a time
  MaxTokens,   \* bound: tokens in use at a time
  MaxStarts    \* bound: how many times the process is started again

Routes == {"track", "login"}

\* An address inside, that of the proxies as well; and what is not an address.
Internal == "internal"
Junk == "junk"

\* What a proxy does to X-Real-IP and to X-Forwarded-For, of which it writes one at least.
Proxies ==
  {p \in [real : {"set", "removed", "kept"}, forwarded : {"appended", "kept"}] :
     p.real = "set" \/ p.forwarded = "appended"}

\* The proxies on the way to the server.  A second one does not overwrite the only
\* header the first one wrote.
Ways ==
  {<<>>} \cup {<<p>> : p \in Proxies}
  \cup {<<w[1], w[2]>> : w \in {v \in Proxies \X Proxies :
                                v[1].forwarded = "appended" \/ v[2].real = "kept"}}

ASSUME EdgeAssumption ==
  /\ Country \in [Public -> STRING] /\ {Internal, Junk} \cap Public = {}
  /\ Credentials \subseteq [user : STRING, password : STRING]
  /\ Bodies \subseteq [text : Seq(1..4), seconds : SUBSET Int]
  /\ \A body \in Bodies : Cardinality(body.seconds) <= 1
  /\ MaxText \in Nat /\ MaxSeconds \in Nat
  /\ Mixes \subseteq SUBSET Routes /\ Deployments \subseteq SUBSET Ways
  /\ Limit \in [Routes -> Nat \ {0}]
  /\ {Window, Lifetime} \subseteq Nat \ {0}
  /\ {LastTick, MaxChecking, MaxTokens, MaxStarts} \subseteq Nat

VARIABLES
  ways,      \* the ways requests come
  used,      \* the routes that are used
  now,       \* the clock
  secret,    \* the running process's JWT_SECRET
  limiter,   \* per route and address: hits of the window, and the second it ends in
  checking,  \* logins whose password is being checked
  tokens,    \* the tokens handed out and not yet dropped
  starts,    \* how often the process was started again
  passes,    \* observer: per route and public address, when requests passed since the start and
             \* no longer ago than a window
  last       \* observer: the request just answered

vars == <<ways, used, now, secret, limiter, checking, tokens, starts, passes, last>>

Nothing == [op |-> "none"]

Second == now \div 2
-----------------------------------------------------------------------------
\* What a request carries: the peer's address, X-Real-IP and X-Forwarded-For.
Claims == Public \cup {Internal, Junk}

Direct(c) ==
  {[peer |-> c, real |-> r, forwarded |-> f] :
     r \in Claims, f \in {<<>>} \cup {<<a>> : a \in Claims}}

\* A client inside sends no such headers.
Sent(c) == IF c \in Public THEN Direct(c) ELSE {[peer |-> c, real |-> Junk, forwarded |-> <<>>]}

\* A proxy passes a request on.
Forwarded(p, m) ==
  [peer |-> Internal,
   real |-> CASE p.real = "set" -> m.peer [] p.real = "removed" -> Junk [] OTHER -> m.real,
   forwarded |-> IF p.forwarded = "appended" THEN Append(m.forwarded, m.peer) ELSE m.forwarded]

\* What arrives of a request.
Arrived(way, m) ==
  CASE way = <<>>   -> m
    [] Len(way) = 1 -> Forwarded(way[1], m)
    [] OTHER        -> Forwarded(way[2], Forwarded(way[1], m))

\* No proxy on the way writes X-Real-IP, so that the server gets the client's own.
PassedOn(way) == way # <<>> /\ \A i \in DOMAIN way : way[i].real = "kept"

\* Where X-Forwarded-For has a public address.
Hops(m) == {k \in DOMAIN m.forwarded : m.forwarded[k] \in Public}

\* Mutation: the first address of X-Forwarded-For counts.
ClientIPLeftMost(m) ==
  IF m.peer \in Public THEN m.peer
  ELSE IF m.real \in Public THEN m.real
  ELSE IF Hops(m) # {} THEN m.forwarded[Min(Hops(m))]
  ELSE m.peer

\* Mutation: headers are believed whoever sends them.
ClientIPTrusting(m) ==
  IF m.real \in Public THEN m.real
  ELSE IF Hops(m) # {} THEN m.forwarded[Max(Hops(m))]
  ELSE m.peer

\* The headers count when the peer is inside, and public addresses only, of which the
\* right-most in X-Forwarded-For.
ClientIP(m) ==
  IF m.peer \in Public THEN m.peer
  ELSE IF m.real \in Public THEN m.real
  ELSE IF Hops(m) # {} THEN m.forwarded[Max(Hops(m))]
  ELSE m.peer

Clients == Public \cup {Internal}

\* The addresses a client's requests are taken to come from, and what X-Real-IP of the
\* client's own got to the server.
Addresses ==
  [d \in Deployments |-> [c \in Clients |->
     {[ip |-> ClientIP(Arrived(way, m)), claim |-> IF PassedOn(way) THEN m.real ELSE Junk] :
        way \in d, m \in Sent(c)}]]
-----------------------------------------------------------------------------
\* The byte offsets where the runes of s begin, and s ends.
Offsets(s) ==
  LET at[k \in 0 .. Len(s)] == IF k = 0 THEN 0 ELSE at[k - 1] + s[k] IN at

RuneStarts(s) == {Offsets(s)[k] : k \in 0 .. Len(s)}

Size(s) == Offsets(s)[Len(s)]

\* Mutation: the text is cut where the limit is.
TruncatedAnywhere(s, max) == IF Size(s) <= max THEN Size(s) ELSE max

\* Mutation: the loop looks at the last byte kept, not at the first one dropped.
TruncatedShort(s, max) ==
  LET back[n \in 0 .. max] == IF n > 0 /\ n - 1 \notin RuneStarts(s) THEN back[n - 1] ELSE n
  IN  IF Size(s) <= max THEN Size(s) ELSE back[max]

\* truncate: how many bytes of s are kept.
Truncated(s, max) ==
  LET back[n \in 0 .. max] == IF n > 0 /\ n \notin RuneStarts(s) THEN back[n - 1] ELSE n
  IN  IF Size(s) <= max THEN Size(s) ELSE back[max]

\* Mutation: a negative time is stored as it is.
ClampedAbove(v) == {IF n > MaxSeconds THEN MaxSeconds ELSE n : n \in v}

\* Mutation: no time is stored as none spent.
ClampedFromZero(v) ==
  {IF n < 0 THEN 0 ELSE IF n > MaxSeconds THEN MaxSeconds ELSE n :
     n \in IF v = {} THEN {0} ELSE v}

\* Null stays null.
clampSeconds(v) == {IF n < 0 THEN 0 ELSE IF n > MaxSeconds THEN MaxSeconds ELSE n : n \in v}

\* geoService.Lookup: no place for addresses inside, or for one it does not find.
Lookup(a) == {""} \cup (IF a \in Public THEN {Country[a]} ELSE {})
-----------------------------------------------------------------------------
Init ==
  /\ ways \in Deployments
  /\ used \in Mixes
  /\ now = 0
  /\ secret \in Secrets
  /\ limiter = [r \in Routes |-> [a \in Clients |-> [hits |-> 0, end |-> 0]]]
  /\ checking = {}
  /\ tokens = {}
  /\ starts = 0
  /\ passes = [r \in Routes |-> [a \in Public |-> <<>>]]
  /\ last = Nothing

\* The window of an address after one more request, refused ones included.  What
\* exceeds the limit needs no counting.
Counted(r, a) ==
  LET w == limiter[r][a]
  IN  IF w.end = 0 \/ Second >= w.end THEN [hits |-> 1, end |-> Second + Window]
      ELSE IF w.hits > Limit[r] THEN w
      ELSE [w EXCEPT !.hits = @ + 1]

Passes(r, a) == Counted(r, a).hits <= Limit[r]

Count(r, a) == limiter' = [limiter EXCEPT ![r][a] = Counted(r, a)]

Note(r, a) == passes' = IF a \in Public THEN [passes EXCEPT ![r][a] = Append(@, now)] ELSE passes

\* 429.
TurnAway(r, c) ==
  /\ \E a \in Addresses[ways][c] :
       /\ ~Passes(r, a.ip) /\ Count(r, a.ip)
       /\ last' = [op |-> r, status |-> 429, from |-> c, claim |-> a.claim, ip |-> a.ip]
  /\ UNCHANGED <<ways, used, now, secret, checking, tokens, starts, passes>>

\* An event is stored under the address it comes from.
Track(c, body) ==
  /\ "track" \in used
  /\ \E a \in Addresses[ways][c] : \E place \in Lookup(a.ip) :
       /\ Passes("track", a.ip) /\ Count("track", a.ip) /\ Note("track", a.ip)
       /\ last' = [op |-> "stored", from |-> c, claim |-> a.claim, ip |-> a.ip,
                   body |-> body, country |-> place,
                   bytes |-> Truncated(body.text, MaxText), seconds |-> clampSeconds(body.seconds)]
  /\ UNCHANGED <<ways, used, now, secret, checking, tokens, starts>>

\* A login arrives; without a name or a password it is refused at once with 400.
Login(c, k) ==
  /\ "login" \in used
  /\ k \notin checking /\ Cardinality(checking) < MaxChecking
  /\ \E a \in Addresses[ways][c] :
       /\ Passes("login", a.ip) /\ Count("login", a.ip) /\ Note("login", a.ip)
       /\ last' = [op |-> "counted", from |-> c, claim |-> a.claim, ip |-> a.ip]
  /\ checking' = IF "" \in {k.user, k.password} THEN checking ELSE checking \cup {k}
  /\ UNCHANGED <<ways, used, now, secret, tokens, starts>>

\* The password is compared with the admin's hash, or for any other name with a hash
\* made up for it.
PassOK(k) == k.password = IF k.user = "admin" THEN "admin's" ELSE "dummy's"

\* Mutation: the token's end is rounded up to a whole second.
GeneratedLate == [end |-> (now + 1) \div 2 + Lifetime, key |-> secret]

\* A token ends in a whole second, rounded down.
Generated == [end |-> (now + 2 * Lifetime) \div 2, key |-> secret]

\* Mutation: after a wrong name only the password counts.
CheckedPassword(k) ==
  /\ k \in checking /\ Cardinality(tokens) < MaxTokens
  /\ checking' = checking \ {k}
  /\ tokens' = IF PassOK(k)
               THEN tokens \cup {[token |-> Generated, at |-> now, by |-> k]}
               ELSE tokens
  /\ last' = Nothing
  /\ UNCHANGED <<ways, used, now, secret, limiter, starts, passes>>

\* The login ends: with a token, or with 401.
Checked(k) ==
  /\ k \in checking /\ Cardinality(tokens) < MaxTokens
  /\ checking' = checking \ {k}
  /\ tokens' = IF k.user = "admin" /\ PassOK(k)
               THEN tokens \cup {[token |-> Generated, at |-> now, by |-> k]}
               ELSE tokens
  /\ last' = Nothing
  /\ UNCHANGED <<ways, used, now, secret, limiter, starts, passes>>

\* Mutation: the second a token ends in still counts.
ValidThroughout(t) == t.key = secret /\ Second <= t.end

Valid(t) == t.key = secret /\ now < 2 * t.end

\* A request of the admin panel is let through, or refused with 401 for its token.
Enter(t) ==
  /\ last' = [op |-> "enter", admitted |-> Valid(t.token), with |-> t]
  /\ UNCHANGED <<ways, used, now, secret, limiter, checking, tokens, starts, passes>>

\* A logout revokes nothing: it is the client that drops its token.
Logout(t) ==
  /\ tokens' = tokens \ {t}
  /\ last' = Nothing
  /\ UNCHANGED <<ways, used, now, secret, limiter, checking, starts, passes>>

\* What of the times s, in their order, is no longer ago at t than a window.
Recent(s, t) ==
  LET old == {i \in DOMAIN s : t - s[i] > 2 * Window}
  IN  IF old = {} THEN s ELSE SubSeq(s, Max(old) + 1, Len(s))

Tick ==
  /\ now < LastTick
  /\ now' = now + 1
  /\ passes' = [r \in Routes |-> [a \in Public |-> Recent(passes[r][a], now')]]
  /\ last' = Nothing
  /\ UNCHANGED <<ways, used, secret, limiter, checking, tokens, starts>>

\* The process is started again, perhaps with another secret.
Restart ==
  /\ starts < MaxStarts
  /\ starts' = starts + 1
  /\ secret' \in Secrets
  /\ limiter' = [r \in Routes |-> [a \in Clients |-> [hits |-> 0, end |-> 0]]]
  /\ checking' = {}
  /\ passes' = [r \in Routes |-> [a \in Public |-> <<>>]]
  /\ last' = Nothing
  /\ UNCHANGED <<ways, used, now, tokens>>

Next ==
  \/ \E c \in Clients :
       \/ \E r \in used : TurnAway(r, c)
       \/ \E body \in Bodies : Track(c, body)
       \/ \E k \in Credentials : Login(c, k)
  \/ \E k \in checking : Checked(k)
  \/ \E t \in tokens : Enter(t) \/ Logout(t)
  \/ Tick
  \/ Restart

Spec == Init /\ [][Next]_vars
-----------------------------------------------------------------------------
Token == [end : Nat, key : Secrets]

TypeOK ==
  /\ ways \in Deployments
  /\ used \in Mixes
  /\ now \in 0 .. LastTick
  /\ secret \in Secrets
  /\ limiter \in [Routes -> [Clients -> [hits : Nat, end : Nat]]]
  /\ \A r \in Routes, a \in Clients : limiter[r][a].hits <= Limit[r] + 1
  /\ checking \subseteq Credentials
  /\ tokens \subseteq [token : Token, at : 0 .. LastTick, by : Credentials]
  /\ starts \in 0 .. MaxStarts
  /\ passes \in [Routes -> [Public -> Seq(0 .. LastTick)]]
  /\ last.op \in {"none", "stored", "counted", "enter"} \cup Routes
  /\ last.op = "stored" => last.bytes \in 0 .. MaxText /\ last.seconds \subseteq 0 .. MaxSeconds

\* The request just answered counts as its client's own; only where X-Real-IP is passed
\* on as it came does it count for the public address a client outside put there.
CountsAsOwn ==
  last.ip = IF last.from \in Public /\ last.claim \in Public THEN last.claim ELSE last.from

\* An event is stored under the address of the client it is from, with whatever headers it
\* came and however many proxies passed it on, but for an X-Real-IP that none of them
\* writes; and in the country of that address or none.  Its text is kept whole, or up
\* to the last rune that fits into the limit, and its time as it is, if it has none or
\* one within a day.
StoredAsSent ==
  last.op = "stored" =>
    /\ CountsAsOwn
    /\ last.country \in {""} \cup {Country[a] : a \in {last.ip} \cap Public}
    /\ last.bytes \in RuneStarts(last.body.text)
    /\ \A n \in RuneStarts(last.body.text) : n <= MaxText => n <= last.bytes
    /\ last.body.seconds \subseteq 0 .. MaxSeconds => last.seconds = last.body.seconds

\* In the time of a window no more requests of a public address pass than twice the limit, for
\* two windows may share it; and a request is refused only for requests of its address,
\* as many as the limit, within the time of a window.  The address is that of the client,
\* so that nobody's requests use up or get round the limit of another, but where X-Real-IP
\* is passed on as it came.
LimitKept ==
  /\ \A r \in Routes, a \in Public : Len(passes[r][a]) <= 2 * Limit[r]
  /\ (last.op \in Routes /\ last.ip \in Public) =>
       LET s == passes[last.op][last.ip]
       IN  /\ Len(s) >= Limit[last.op]
           /\ now - s[Len(s) - Limit[last.op] + 1] < 2 * Window
  /\ last.op \in Routes \cup {"stored", "counted"} => CountsAsOwn

\* Whoever enters the admin panel has logged in with the admin's name and password
\* less than a token's lifetime ago, and not before the secret last changed to another;
\* and whoever has is let in, but for the second the lifetime is rounded by.
AdmittedByLogin ==
  last.op = "enter" =>
    LET t == last.with
    IN  /\ t.by = [user |-> "admin", password |-> "admin's"]
        /\ last.admitted => t.token.key = secret /\ now - t.at < 2 * Lifetime
        /\ ~last.admitted => t.token.key # secret \/ now - t.at > 2 * (Lifetime - 1)
=============================================================================
