----------------------------- MODULE Lifecycle -----------------------------
(***************************************************************************)
(* The life of one process: main (cmd/server/main.go), app.New, App.Start  *)
(* and App.Shutdown (internal/app/app.go), with the HTTP server, the       *)
(* requests that use what App opens and closes.                            *)
(*                                                                         *)
(* New opens one thing after another and stops at the first that fails.    *)
(* Start leaves the listener and the bot to goroutines of their own and    *)
(* waits for a signal or the listener's error.  Shutdown waits for the     *)
(* requests, but no longer than HTTP_SHUTDOWN_TIMEOUT, and for nothing     *)
(* else, before it closes the geo database and the pool: not for alerts    *)
(* that requests leave behind, nor for what the bot does.                  *)
(*                                                                         *)
(* External: fasthttp's shutdown closes the listener, if it has come up,   *)
(* and waits for the requests it took; a lookup in a geo database that is  *)
(* unmapped meanwhile may fail, or kill the process.                       *)
(***************************************************************************)
EXTENDS Integers

CONSTANTS
  Requests,     \* requests and updates of the bot that come
  Configs       \* the configurations: [production, longSecret, geo, bot]

ASSUME LifecycleAssumption ==
  Configs \subseteq [production: BOOLEAN, longSecret: BOOLEAN, geo: BOOLEAN, bot: BOOLEAN]

VARIABLES
  cfg,        \* the configuration
  main,       \* where main has come to
  pool,       \* db: "unopened", "open", "closed"
  geo,        \* the geo database: "none", "open", "closed"
  listener,   \* "none", "starting", "listening", "failed", "closed"
  signalled,  \* a signal has come: ctx is done
  err,        \* errCh holds the listener's error
  request,    \* per request: "new", "geo", "query", "background", "answered", "broken",
              \* "cut", "forgotten"
  timedOut,   \* Shutdown's context ended before the requests did
  overtaken,  \* observer: Shutdown began before the listener came up
  code        \* exit code: -1 while it runs, Faulted, or Killed from outside

vars == <<cfg, main, pool, geo, listener, signalled, err, request, timedOut,
          overtaken, code>>

Steps == {"load", "connect", "migrate", "tokens", "geo", "bot", "start", "serve",
          "drain", "close geo", "close pool", "return", "fail", "ended"}

Faulted == 2
Killed == 9

Init ==
  /\ cfg \in Configs
  /\ main = "load"
  /\ pool = "unopened"
  /\ geo = "none"
  /\ listener = "none"
  /\ signalled = FALSE
  /\ err = FALSE
  /\ request = [r \in Requests |-> "new"]
  /\ timedOut = FALSE
  /\ overtaken = FALSE
  /\ code = -1

Busy == {"geo", "query"}

\* What a process that ends leaves of its requests and of its other goroutines.
Abandoned ==
  [r \in Requests |-> CASE request[r] \in Busy       -> "cut"
                        [] request[r] = "background" -> "forgotten"
                        [] OTHER                     -> request[r]]

\* Mutation: main reports no code.
ExitSilently(c) ==
  /\ main' = "ended"
  /\ code' = code
  /\ request' = Abandoned

Exit(c) ==
  /\ main' = "ended"
  /\ code' = c
  /\ request' = Abandoned

Stay == UNCHANGED <<cfg, signalled, timedOut, overtaken>>
-----------------------------------------------------------------------------
(* Starting: every step goes on to the next, or main exits with code 1.     *)

\* config.Load; Validate asks for a long secret in production only.
Load ==
  /\ main = "load"
  /\ \/ /\ cfg.production => cfg.longSecret
        /\ main' = "connect"
        /\ UNCHANGED <<code, request>>
     \/ Exit(1)
  /\ UNCHANGED <<pool, geo, listener, err>> /\ Stay

\* database.NewPostgres closes what it opened when the ping fails.
Connect ==
  /\ main = "connect"
  /\ \/ main' = "migrate" /\ pool' = "open" /\ UNCHANGED <<code, request>>
     \/ Exit(1) /\ pool' = "closed"
  /\ UNCHANGED <<geo, listener, err>> /\ Stay

Migrate ==
  /\ main = "migrate"
  /\ \/ main' = "tokens" /\ UNCHANGED <<pool, code, request>>
     \/ Exit(1) /\ pool' = "closed"
  /\ UNCHANGED <<geo, listener, err>> /\ Stay

\* Mutation: the pool stays open when the secret is refused.
TokensLeaving ==
  /\ main = "tokens"
  /\ IF cfg.longSecret THEN main' = "geo" /\ UNCHANGED <<pool, code, request>>
                       ELSE Exit(1) /\ UNCHANGED pool
  /\ UNCHANGED <<geo, listener, err>> /\ Stay

\* jwt.New refuses a short secret in any environment.
Tokens ==
  /\ main = "tokens"
  /\ IF cfg.longSecret THEN main' = "geo" /\ UNCHANGED <<pool, code, request>>
                       ELSE Exit(1) /\ pool' = "closed"
  /\ UNCHANGED <<geo, listener, err>> /\ Stay

\* A geo database that is not configured, or does not open, is done without.
OpenGeo ==
  /\ main = "geo"
  /\ main' = "bot"
  /\ geo' \in (IF cfg.geo THEN {"none", "open"} ELSE {"none"})
  /\ UNCHANGED <<pool, listener, err, request, code>> /\ Stay

CreateBot ==
  /\ main = "bot"
  /\ \/ main' = "start" /\ UNCHANGED <<pool, code, request>>
     \/ cfg.bot /\ Exit(1) /\ pool' = "closed"
  /\ UNCHANGED <<geo, listener, err>> /\ Stay

\* signal.NotifyContext, and App.Start up to its select.
Start ==
  /\ main = "start"
  /\ main' = "serve"
  /\ listener' = "starting"
  /\ UNCHANGED <<pool, geo, err, request, code>> /\ Stay
-----------------------------------------------------------------------------
(* The listener and the requests, in goroutines of their own.               *)

Listen ==
  /\ main # "ended"
  /\ listener = "starting"
  /\ listener' = "listening"
  /\ UNCHANGED <<main, pool, geo, err, request, code>> /\ Stay

\* The port is taken, or the listener breaks later on.
ListenFails ==
  /\ main # "ended"
  /\ listener \in {"starting", "listening"}
  /\ listener' = "failed"
  /\ err' = TRUE
  /\ UNCHANGED <<main, pool, geo, request, code>> /\ Stay

\* A request is taken up: one that looks its client up first, or one that only queries.
Accept(r) ==
  /\ main # "ended"
  /\ listener = "listening"
  /\ request[r] = "new"
  /\ \E use \in (IF cfg.geo /\ geo # "none" THEN Busy ELSE {"query"}) :
       request' = [request EXCEPT ![r] = use]
  /\ UNCHANGED <<main, pool, geo, listener, err, code>> /\ Stay

\* A lookup in a closed database finds nothing, and the request goes on.
LookUpCountry(r) ==
  /\ main # "ended"
  /\ request[r] = "geo"
  /\ request' = [request EXCEPT ![r] = "query"]
  /\ UNCHANGED <<main, pool, geo, listener, err, code>> /\ Stay

\* Its statements, whatever they return, unless the pool is closed.  The answer may
\* leave an alert behind, in a goroutine of its own.
Query(r) ==
  /\ main # "ended"
  /\ request[r] = "query"
  /\ \E left \in (IF cfg.bot THEN {"answered", "background"} ELSE {"answered"}) :
       request' = [request EXCEPT ![r] = IF pool = "open" THEN left ELSE "broken"]
  /\ UNCHANGED <<main, pool, geo, listener, err, code>> /\ Stay

\* An update of the bot, or the hour of the digest, until ctx is done.
TakeUpdate(r) ==
  /\ main \in {"serve", "drain", "close geo", "close pool", "return", "fail"}
  /\ cfg.bot /\ ~ signalled
  /\ request[r] = "new"
  /\ request' = [request EXCEPT ![r] = "background"]
  /\ UNCHANGED <<main, pool, geo, listener, err, code>> /\ Stay

\* The goroutine of an alert, a digest or an update makes its query.
Background(r) ==
  /\ main # "ended"
  /\ request[r] = "background"
  /\ request' = [request EXCEPT ![r] = IF pool = "open" THEN "answered" ELSE "forgotten"]
  /\ UNCHANGED <<main, pool, geo, listener, err, code>> /\ Stay

\* SIGINT or SIGTERM, once main is notified of them.
Signal ==
  /\ main \in {"serve", "drain", "close geo", "close pool", "return", "fail"}
  /\ signalled' = TRUE
  /\ UNCHANGED <<cfg, main, pool, geo, listener, err, request, timedOut, overtaken, code>>

\* The process is ended by SIGKILL, or by a signal that comes before main is notified.
Kill ==
  /\ main # "ended"
  /\ Exit(Killed)
  /\ UNCHANGED <<cfg, pool, geo, listener, signalled, err, timedOut, overtaken>>
-----------------------------------------------------------------------------
(* Stopping.                                                                *)

\* Mutation: only a signal ends it.
StopOnSignal ==
  /\ main = "serve"
  /\ signalled
  /\ main' = "drain"
  /\ overtaken' = (listener = "starting")
  /\ listener' = IF listener = "listening" THEN "closed" ELSE listener
  /\ UNCHANGED <<cfg, pool, geo, signalled, err, request, timedOut, code>>

\* Start returns, and Shutdown closes the listener if it has come up.
StopServing ==
  /\ main = "serve"
  /\ signalled \/ err
  /\ main' = "drain"
  /\ overtaken' = (listener = "starting")
  /\ listener' = IF listener = "listening" THEN "closed" ELSE listener
  /\ UNCHANGED <<cfg, pool, geo, signalled, err, request, timedOut, code>>

\* Mutation: nobody waits for the requests.
DrainAtOnce ==
  /\ main = "drain"
  /\ main' = "close geo"
  /\ UNCHANGED <<pool, geo, listener, err, request, code>> /\ Stay

\* server.Shutdown returns when the last request is answered, and at once when there
\* is no listener yet.
Drain ==
  /\ main = "drain"
  /\ overtaken \/ \A r \in Requests : request[r] \notin Busy
  /\ main' = "close geo"
  /\ UNCHANGED <<pool, geo, listener, err, request, code>> /\ Stay

\* Mutation: HTTP_SHUTDOWN_TIMEOUT is not kept to.
DrainForever == FALSE /\ UNCHANGED vars

DrainTimesOut ==
  /\ main = "drain"
  /\ ~ overtaken /\ \E r \in Requests : request[r] \in Busy
  /\ timedOut' = TRUE
  /\ main' = "close geo"
  /\ UNCHANGED <<cfg, pool, geo, listener, signalled, err, request, overtaken, code>>

\* A lookup that is under way as the file is unmapped may bring the process down.
CloseGeo ==
  /\ main = "close geo"
  /\ geo' = IF geo = "open" THEN "closed" ELSE geo
  /\ \/ main' = "close pool" /\ UNCHANGED <<request, code>>
     \/ /\ geo = "open" /\ \E r \in Requests : request[r] = "geo"
        /\ Exit(Faulted)
  /\ UNCHANGED <<cfg, pool, listener, signalled, err, timedOut, overtaken>>

\* db.Close may fail; Shutdown joins that to what the server's shutdown returned.
ClosePool ==
  /\ main = "close pool"
  /\ pool' = "closed"
  /\ main' \in (IF timedOut THEN {"fail"} ELSE {"return", "fail"})
  /\ UNCHANGED <<geo, listener, err, request, code>> /\ Stay

\* Mutation: the error of Shutdown is only logged.
EndWell ==
  /\ main \in {"return", "fail"}
  /\ Exit(0)
  /\ UNCHANGED <<pool, geo, listener, err>> /\ Stay

End ==
  /\ main \in {"return", "fail"}
  /\ Exit(IF main = "fail" THEN 1 ELSE 0)
  /\ UNCHANGED <<pool, geo, listener, err>> /\ Stay
-----------------------------------------------------------------------------
\* What main itself does.
Main ==
  \/ Load \/ Connect \/ Migrate \/ Tokens \/ OpenGeo \/ CreateBot \/ Start
  \/ StopServing \/ Drain \/ DrainTimesOut \/ CloseGeo \/ ClosePool \/ End

Next ==
  \/ Main
  \/ Listen \/ ListenFails
  \/ \E r \in Requests :
       Accept(r) \/ LookUpCountry(r) \/ Query(r) \/ TakeUpdate(r) \/ Background(r)
  \/ Signal \/ Kill

Spec == Init /\ [][Next]_vars

\* main's goroutine is scheduled, and each of its calls has a deadline of its own.
FairSpec == Spec /\ WF_vars(Main)
-----------------------------------------------------------------------------
TypeOK ==
  /\ cfg \in Configs
  /\ main \in Steps
  /\ pool \in {"unopened", "open", "closed"}
  /\ geo \in {"none", "open", "closed"}
  /\ listener \in {"none", "starting", "listening", "failed", "closed"}
  /\ request \in [Requests -> {"new", "background", "answered", "broken", "cut", "forgotten"} \cup Busy]
  /\ signalled \in BOOLEAN /\ err \in BOOLEAN /\ timedOut \in BOOLEAN /\ overtaken \in BOOLEAN
  /\ code \in {-1, 0, 1, Faulted, Killed} /\ (code = -1 <=> main # "ended")

\* A request that was taken up is answered, and over an open pool, before the process
\* ends: unless the shutdown began before there was a listener to close, or ran out
\* of time, which the exit code tells, or the process was killed from outside.  What
\* nothing waits for - an alert, an update of the bot - is lost to a shutdown only:
\* a process that goes on serving keeps the pool open for it.
AnsweredBeforeTheEnd ==
  /\ (\E r \in Requests : request[r] \in {"broken", "cut"})
       => timedOut \/ overtaken \/ code = Killed
  /\ timedOut => code # 0
  /\ (\E r \in Requests : request[r] = "forgotten") =>
       main = "ended" \/ (main \in {"return", "fail"} /\ (signalled \/ err))

\* A process that ends by itself has closed the pool it opened, whichever step failed;
\* who lives past New has a pool that is open until the requests are done with it.
PoolIsClosed ==
  /\ (code \in {0, 1}) => pool # "open"
  /\ (pool = "closed" /\ main # "ended") => main \in {"return", "fail"}

\* A signal, or a listener that fails, ends the process, however long its requests take.
StopsWhenAsked == (main = "serve" /\ (signalled \/ err)) ~> (main = "ended")
=============================================================================
