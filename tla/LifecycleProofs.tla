-------------------------- MODULE LifecycleProofs --------------------------
(***************************************************************************)
(* Proofs about Lifecycle, for any requests and configurations.            *)
(***************************************************************************)
EXTENDS Lifecycle, TLAPS

Starting == {"load", "connect", "migrate", "tokens", "geo", "bot", "start"}
Stopping == {"drain", "close geo", "close pool", "return", "fail"}

\* The pool is open from connect to its close, whatever fails.
PoolHolds ==
  /\ main \in {"load", "connect"} => pool = "unopened"
  /\ main \in {"migrate", "tokens", "geo", "bot", "start", "serve", "drain", "close geo",
               "close pool"} => pool = "open"
  /\ main \in {"return", "fail"} => pool = "closed"
  /\ code \in {0, 1} => pool # "open"

\* Requests come through a listener, which comes after the start and goes with the
\* stop; those that are left when main goes on to close are those it gave up.
RequestsHold ==
  /\ main \in Starting => listener = "none" /\ \A r \in Requests : request[r] = "new"
  /\ main \in Starting \cup {"serve"} => ~overtaken
  /\ (main \in Stopping /\ ~overtaken) => listener \notin {"starting", "listening"}
  /\ (main \in Stopping \ {"drain"} /\ \E r \in Requests : request[r] \in Busy)
       => timedOut \/ overtaken

\* There was a reason to stop, and what ran out of time fails.
StopHolds ==
  /\ main \in Stopping => signalled \/ err
  /\ timedOut => main \in {"close geo", "close pool", "fail", "ended"}

IInv == TypeOK /\ PoolHolds /\ RequestsHold /\ StopHolds /\ AnsweredBeforeTheEnd
-----------------------------------------------------------------------------
LEMMA InitHolds == Init => IInv
  BY LifecycleAssumption
  DEF Init, IInv, TypeOK, PoolHolds, RequestsHold, StopHolds, AnsweredBeforeTheEnd, Steps,
      Starting, Stopping, Busy, Killed, Faulted

\* What happens to a request, or to all as the process ends.
Fates == {"new", "background", "answered", "broken", "cut", "forgotten"} \cup Busy

\* A process that ends cuts off what is busy and nothing else.
LEMMA EndCuts ==
  ASSUME TypeOK
  PROVE  /\ Abandoned \in [Requests -> Fates]
         /\ \A r \in Requests :
              Abandoned[r] \in {"broken", "cut"} => request[r] \in {"broken", "cut"} \cup Busy
  BY DEF TypeOK, Abandoned, Busy, Fates

\* A step that goes on, or ends the process.
LEMMA TypeFrame ==
  ASSUME TypeOK,
         \/ main' \in Steps \ {"ended"} /\ main # "ended" /\ UNCHANGED <<code, request>>
         \/ Exit(0) \/ Exit(1) \/ Exit(Faulted) \/ Exit(Killed),
         cfg' = cfg, signalled' \in BOOLEAN, err' \in BOOLEAN, timedOut' \in BOOLEAN,
         overtaken' \in BOOLEAN, pool' \in {"unopened", "open", "closed"},
         geo' \in {"none", "open", "closed"},
         listener' \in {"none", "starting", "listening", "failed", "closed"}
  PROVE  TypeOK'
<1>1. main' \in Steps /\ code' \in {-1, 0, 1, Faulted, Killed} /\ (code' = -1 <=> main' # "ended")
  <2>1. CASE main' \in Steps \ {"ended"} /\ main # "ended" /\ UNCHANGED <<code, request>>
    BY <2>1 DEF TypeOK
  <2>2. CASE Exit(0) \/ Exit(1) \/ Exit(Faulted) \/ Exit(Killed)
    <3>1. main' = "ended" /\ code' \in {0, 1, Faulted, Killed}
      BY <2>2 DEF Exit
    <3>2. QED
      BY <3>1 DEF Steps, Faulted, Killed
  <2>3. QED
    BY <2>1, <2>2
<1>2. request' \in [Requests -> Fates]
  BY EndCuts DEF Exit, TypeOK, Fates
<1>3. QED
  BY <1>1, <1>2 DEF TypeOK, Fates

LEMMA TypeStep == TypeOK /\ [Next]_vars => TypeOK'
<1> SUFFICES ASSUME TypeOK, [Next]_vars PROVE TypeOK'
  OBVIOUS
<1>1. /\ cfg \in Configs /\ signalled \in BOOLEAN /\ err \in BOOLEAN /\ timedOut \in BOOLEAN
      /\ overtaken \in BOOLEAN /\ pool \in {"unopened", "open", "closed"}
      /\ geo \in {"none", "open", "closed"} /\ main \in Steps
      /\ listener \in {"none", "starting", "listening", "failed", "closed"}
  BY DEF TypeOK
<1>2. CASE Load \/ Connect \/ Migrate \/ Tokens
  <2> USE <1>1, TypeFrame DEF Steps, Stay
  <2>1. CASE Load
    BY <2>1 DEF Load
  <2>2. CASE Connect
    BY <2>2 DEF Connect
  <2>3. CASE Migrate
    BY <2>3 DEF Migrate
  <2>4. CASE Tokens
    BY <2>4 DEF Tokens
  <2>5. QED
    BY <1>2, <2>1, <2>2, <2>3, <2>4
<1>3. CASE OpenGeo \/ CreateBot \/ Start \/ StopServing
  <2> USE <1>1, TypeFrame DEF Steps, Stay
  <2>1. CASE OpenGeo \/ Start
    BY <2>1 DEF OpenGeo, Start
  <2>2. CASE CreateBot
    BY <2>2 DEF CreateBot
  <2>3. CASE StopServing
    BY <2>3 DEF StopServing
  <2>4. QED
    BY <1>3, <2>1, <2>2, <2>3
<1>4. CASE Drain \/ DrainTimesOut \/ CloseGeo \/ ClosePool \/ End
  <2> USE <1>1, TypeFrame DEF Steps, Stay
  <2>1. CASE Drain \/ DrainTimesOut
    BY <2>1 DEF Drain, DrainTimesOut
  <2>2. CASE CloseGeo
    BY <2>2 DEF CloseGeo
  <2>3. CASE ClosePool
    BY <2>3 DEF ClosePool
  <2>4. CASE End
    BY <2>4 DEF End
  <2>5. QED
    BY <1>4, <2>1, <2>2, <2>3, <2>4
<1>5. CASE Listen \/ ListenFails \/ Signal \/ Kill
  <2> USE <1>1, TypeFrame DEF Steps, Stay
  <2>1. CASE Listen
    BY <2>1 DEF Listen
  <2>2. CASE ListenFails
    BY <2>2 DEF ListenFails
  <2>3. CASE Signal
    BY <2>3 DEF Signal
  <2>4. CASE Kill
    BY <2>4 DEF Kill
  <2>5. QED
    BY <1>5, <2>1, <2>2, <2>3, <2>4
<1>6. ASSUME NEW r \in Requests,
             Accept(r) \/ LookUpCountry(r) \/ Query(r) \/ TakeUpdate(r) \/ Background(r)
      PROVE  TypeOK'
  <2>1. request' \in [Requests -> Fates]
    BY <1>6 DEF Accept, LookUpCountry, Query, TakeUpdate, Background, Fates, Busy, TypeOK
  <2>2. UNCHANGED <<cfg, main, pool, geo, listener, signalled, err, timedOut, overtaken, code>>
    BY <1>6 DEF Accept, LookUpCountry, Query, TakeUpdate, Background, Stay
  <2>3. QED
    BY <2>1, <2>2 DEF TypeOK, Fates
<1>7. CASE UNCHANGED vars
  BY <1>7 DEF vars, TypeOK
<1>8. QED
  BY <1>2, <1>3, <1>4, <1>5, <1>6, <1>7 DEF Main, Next
-----------------------------------------------------------------------------
\* The pool.
LEMMA PoolStep == TypeOK /\ PoolHolds /\ [Next]_vars => PoolHolds'
<1> SUFFICES ASSUME TypeOK, PoolHolds, [Next]_vars PROVE PoolHolds'
  OBVIOUS
<1>0. code = -1 <=> main # "ended"
  BY DEF TypeOK
<1>1. ASSUME Exit(0) \/ Exit(1), pool' # "open" PROVE PoolHolds'
  BY <1>1 DEF Exit, PoolHolds
<1>2. ASSUME Exit(Faulted) \/ Exit(Killed) PROVE PoolHolds'
  <2>1. main' = "ended" /\ code' \in {Faulted, Killed}
    BY <1>2 DEF Exit
  <2>2. code' \notin {0, 1}
    BY <2>1 DEF Faulted, Killed
  <2>3. QED
    BY <2>1, <2>2 DEF PoolHolds
<1>3. ASSUME main # "ended", UNCHANGED code,
             main' \in {"load", "connect"} => pool' = "unopened",
             main' \in {"migrate", "tokens", "geo", "bot", "start", "serve", "drain",
                        "close geo", "close pool"} => pool' = "open",
             main' \in {"return", "fail"} => pool' = "closed"
      PROVE  PoolHolds'
  <2>1. code = -1 /\ code' = code
    BY <1>0, <1>3
  <2>2. code' \notin {0, 1}
    BY <2>1
  <2>3. QED
    BY <1>3, <2>2 DEF PoolHolds
<1>4. CASE Load \/ Connect \/ Migrate \/ Tokens
  <2>1. CASE Load
    BY <1>1, <1>3, <2>1 DEF PoolHolds, Load
  <2>2. CASE Connect
    BY <1>1, <1>3, <2>2 DEF PoolHolds, Connect
  <2>3. CASE Migrate
    BY <1>1, <1>3, <2>3 DEF PoolHolds, Migrate
  <2>4. CASE Tokens
    BY <1>1, <1>3, <2>4 DEF PoolHolds, Tokens
  <2>5. QED
    BY <1>4, <2>1, <2>2, <2>3, <2>4
<1>5. CASE OpenGeo \/ CreateBot \/ Start \/ StopServing
  BY <1>1, <1>3, <1>5 DEF PoolHolds, OpenGeo, CreateBot, Start, StopServing
<1>6. CASE Drain \/ DrainTimesOut \/ CloseGeo
  BY <1>2, <1>3, <1>6 DEF PoolHolds, Drain, DrainTimesOut, CloseGeo
<1>7. CASE ClosePool \/ End
  <2>1. CASE ClosePool
    BY <1>3, <2>1 DEF PoolHolds, ClosePool
  <2>2. CASE End
    BY <1>1, <2>2 DEF PoolHolds, End
  <2>3. QED
    BY <1>7, <2>1, <2>2
<1>8. CASE Listen \/ ListenFails \/ Signal
  BY <1>3, <1>8 DEF PoolHolds, Listen, ListenFails, Signal
<1>9. CASE Kill
  BY <1>2, <1>9 DEF Kill
<1>10. ASSUME UNCHANGED <<main, pool, code>> PROVE PoolHolds'
  BY <1>10 DEF PoolHolds
<1>11. ASSUME NEW r \in Requests,
              Accept(r) \/ LookUpCountry(r) \/ Query(r) \/ TakeUpdate(r) \/ Background(r)
       PROVE  PoolHolds'
  BY <1>10, <1>11 DEF Accept, LookUpCountry, Query, TakeUpdate, Background
<1>12. QED
  BY <1>4, <1>5, <1>6, <1>7, <1>8, <1>9, <1>10, <1>11 DEF Main, Next, vars

\* Why main stops, and how it ends then.
LEMMA StopStep == TypeOK /\ StopHolds /\ [Next]_vars => StopHolds'
<1> SUFFICES ASSUME TypeOK, StopHolds, [Next]_vars PROVE StopHolds'
  OBVIOUS
<1> USE DEF StopHolds, Stopping, TypeOK, Steps, Stay, Exit
<1>1. CASE Load
  BY <1>1 DEF Load
<1>2. CASE Connect
  BY <1>2 DEF Connect
<1>3. CASE Migrate
  BY <1>3 DEF Migrate
<1>4. CASE Tokens
  BY <1>4 DEF Tokens
<1>5. CASE OpenGeo
  BY <1>5 DEF OpenGeo
<1>6. CASE CreateBot
  BY <1>6 DEF CreateBot
<1>7. CASE Start
  BY <1>7 DEF Start
<1>8. CASE StopServing
  BY <1>8 DEF StopServing
<1>9. CASE Drain
  BY <1>9 DEF Drain
<1>10. CASE DrainTimesOut
  BY <1>10 DEF DrainTimesOut
<1>11. CASE CloseGeo
  BY <1>11 DEF CloseGeo
<1>12. CASE ClosePool
  BY <1>12 DEF ClosePool
<1>13. CASE End
  BY <1>13 DEF End
<1>14. CASE Listen
  BY <1>14 DEF Listen
<1>15. CASE ListenFails
  BY <1>15 DEF ListenFails
<1>16. CASE Signal
  BY <1>16 DEF Signal
<1>17. CASE Kill
  BY <1>17 DEF Kill
<1>18. ASSUME NEW r \in Requests, Accept(r) PROVE StopHolds'
  BY <1>18 DEF Accept
<1>19. ASSUME NEW r \in Requests, LookUpCountry(r) PROVE StopHolds'
  BY <1>19 DEF LookUpCountry
<1>20. ASSUME NEW r \in Requests, Query(r) PROVE StopHolds'
  BY <1>20 DEF Query
<1>21. ASSUME NEW r \in Requests, TakeUpdate(r) PROVE StopHolds'
  BY <1>21 DEF TakeUpdate
<1>22. ASSUME NEW r \in Requests, Background(r) PROVE StopHolds'
  BY <1>22 DEF Background
<1>23. CASE UNCHANGED vars
  BY <1>23 DEF vars
<1>24. QED
  BY <1>1, <1>2, <1>3, <1>4, <1>5, <1>6, <1>7, <1>8, <1>9, <1>10, <1>11, <1>12, <1>13, <1>14,
     <1>15, <1>16, <1>17, <1>18, <1>19, <1>20, <1>21, <1>22, <1>23
  DEF Main, Next
-----------------------------------------------------------------------------
\* What a process that ends has done to its requests, by where main was.
LEMMA EndStep ==
  ASSUME TypeOK, StopHolds, RequestsHold, AnsweredBeforeTheEnd, main # "ended",
         NEW c \in {0, 1, Faulted, Killed}, Exit(c), UNCHANGED <<timedOut, overtaken>>,
         (\E r \in Requests : request[r] \in Busy) => timedOut \/ overtaken \/ c = Killed,
         timedOut => c # 0
  PROVE  RequestsHold' /\ AnsweredBeforeTheEnd'
<1>1. main' = "ended" /\ request' = Abandoned /\ code' = c
  BY DEF Exit
<1>2. RequestsHold'
  BY <1>1 DEF RequestsHold, Starting, Stopping
<1>3. code # Killed
  BY DEF TypeOK, Killed
<1>4. (\E r \in Requests : request'[r] \in {"broken", "cut"}) => timedOut \/ overtaken \/ c = Killed
  BY <1>1, <1>3, EndCuts DEF AnsweredBeforeTheEnd
<1>5. QED
  BY <1>1, <1>2, <1>4 DEF AnsweredBeforeTheEnd

\* Main goes on and leaves the requests alone.
LEMMA GoOnStep ==
  ASSUME AnsweredBeforeTheEnd, UNCHANGED <<request, code, timedOut, overtaken>>,
         main \notin {"return", "fail", "ended"}
  PROVE  AnsweredBeforeTheEnd'
  BY DEF AnsweredBeforeTheEnd

LEMMA RequestsStep ==
  TypeOK /\ PoolHolds /\ StopHolds /\ RequestsHold /\ AnsweredBeforeTheEnd /\ [Next]_vars
    => RequestsHold' /\ AnsweredBeforeTheEnd'
<1> SUFFICES ASSUME TypeOK, PoolHolds, StopHolds, RequestsHold, AnsweredBeforeTheEnd,
                    [Next]_vars
             PROVE  RequestsHold' /\ AnsweredBeforeTheEnd'
  OBVIOUS
<1>1. CASE Load \/ Connect \/ Migrate \/ Tokens \/ OpenGeo \/ CreateBot \/ Start
  <2>1. /\ main \in Starting
        /\ UNCHANGED <<timedOut, overtaken>>
        /\ \/ UNCHANGED <<request, code>> /\ main' \in Starting \cup {"serve"}
              /\ (main' \in Starting => UNCHANGED listener)
           \/ Exit(1)
    BY <1>1
    DEF Load, Connect, Migrate, Tokens, OpenGeo, CreateBot, Start, Stay, Starting
  <2>2. \A r \in Requests : request[r] = "new"
    BY <2>1 DEF RequestsHold
  <2>3. CASE UNCHANGED <<request, code>> /\ main' \in Starting \cup {"serve"}
              /\ (main' \in Starting => UNCHANGED listener)
    <3>1. RequestsHold'
      BY <2>1, <2>2, <2>3 DEF RequestsHold, Starting, Stopping
    <3>2. AnsweredBeforeTheEnd'
      BY <2>1, <2>3, GoOnStep DEF Starting
    <3>3. QED
      BY <3>1, <3>2
  <2>4. CASE Exit(1)
    <3>1. (\E r \in Requests : request[r] \in Busy) => FALSE
      BY <2>2 DEF Busy
    <3>2. QED
      BY <2>1, <2>4, <3>1, EndStep DEF Starting
  <2>5. QED
    BY <2>1, <2>3, <2>4
<1>2. CASE StopServing
  <2>1. /\ main = "serve" /\ main' = "drain" /\ UNCHANGED <<request, code, timedOut>>
        /\ code # Killed /\ code # 0
        /\ (~overtaken' => listener' \notin {"starting", "listening"})
    BY <1>2 DEF StopServing, TypeOK, Killed
  <2>2. RequestsHold'
    BY <2>1 DEF RequestsHold, Starting, Stopping
  <2>3. ~timedOut /\ ~overtaken
    BY <2>1 DEF StopHolds, RequestsHold
  <2>4. AnsweredBeforeTheEnd'
    <3>1. ~\E r \in Requests : request[r] \in {"broken", "cut"}
      BY <2>1, <2>3 DEF AnsweredBeforeTheEnd
    <3>2. QED
      BY <2>1, <3>1 DEF AnsweredBeforeTheEnd
  <2>5. QED
    BY <2>2, <2>4
<1>3. CASE Drain \/ DrainTimesOut
  <2>1. /\ main = "drain" /\ main' = "close geo" /\ code # 0
        /\ UNCHANGED <<request, code, listener, overtaken>>
        /\ \/ timedOut' = timedOut /\ (overtaken \/ \A r \in Requests : request[r] \notin Busy)
           \/ timedOut' = TRUE
    <3>1. main = "drain" => code # 0
      BY DEF TypeOK
    <3>2. CASE Drain
      BY <3>1, <3>2 DEF Drain, Stay
    <3>3. CASE DrainTimesOut
      BY <3>1, <3>3 DEF DrainTimesOut
    <3>4. QED
      BY <1>3, <3>2, <3>3
  <2>2. RequestsHold'
    BY <2>1 DEF RequestsHold, Starting, Stopping
  <2>3. ~\E r \in Requests : request[r] = "forgotten"
    BY <2>1 DEF AnsweredBeforeTheEnd
  <2>4. (\E r \in Requests : request[r] \in {"broken", "cut"})
          => timedOut' \/ overtaken' \/ code' = Killed
    <3>1. timedOut => timedOut'
      BY <2>1, Zenon
    <3>2. overtaken' = overtaken /\ code' = code
      BY <2>1
    <3>3. QED
      BY <3>1, <3>2 DEF AnsweredBeforeTheEnd
  <2>5. AnsweredBeforeTheEnd'
    BY <2>1, <2>3, <2>4 DEF AnsweredBeforeTheEnd
  <2>6. QED
    BY <2>2, <2>5
<1>4. CASE CloseGeo \/ ClosePool
  <2>1. /\ main \in {"close geo", "close pool"} /\ UNCHANGED <<listener, timedOut, overtaken>>
        /\ \/ UNCHANGED <<request, code>> /\ main' \in {"close pool", "return", "fail"}
           \/ Exit(Faulted)
    BY <1>4 DEF CloseGeo, ClosePool, Stay
  <2>2. (\E r \in Requests : request[r] \in Busy) => timedOut \/ overtaken
    BY <2>1 DEF RequestsHold, Stopping
  <2>3. CASE UNCHANGED <<request, code>> /\ main' \in {"close pool", "return", "fail"}
    <3>1. RequestsHold'
      BY <2>1, <2>2, <2>3 DEF RequestsHold, Starting, Stopping
    <3>2. QED
      BY <2>1, <2>3, <3>1, GoOnStep
  <2>4. CASE Exit(Faulted)
    <3>1. Faulted # 0
      BY DEF Faulted
    <3>2. QED
      BY <2>1, <2>2, <2>4, <3>1, EndStep
  <2>5. QED
    BY <2>1, <2>3, <2>4
<1>5. CASE End
  <2>1. main \in {"return", "fail"} /\ UNCHANGED <<timedOut, overtaken>>
    BY <1>5 DEF End, Stay
  <2>2. (\E r \in Requests : request[r] \in Busy) => timedOut \/ overtaken
    BY <2>1 DEF RequestsHold, Stopping
  <2>3. timedOut => main = "fail"
    BY <2>1 DEF StopHolds
  <2>4. \E c \in {0, 1} : Exit(c) /\ (timedOut => c # 0)
    BY <1>5, <2>3 DEF End
  <2>5. QED
    BY <2>1, <2>2, <2>4, EndStep
<1>6. CASE Kill
  <2>1. main # "ended" /\ Exit(Killed) /\ UNCHANGED <<timedOut, overtaken>>
    BY <1>6 DEF Kill
  <2>2. Killed # 0
    BY DEF Killed
  <2>3. QED
    BY <2>1, <2>2, EndStep
<1>7. CASE Listen \/ ListenFails \/ Signal
  <2>1. UNCHANGED <<main, request, code, timedOut, overtaken>>
    BY <1>7 DEF Listen, ListenFails, Signal, Stay
  <2>2. (signalled \/ err) => (signalled' \/ err')
    BY <1>7 DEF Listen, ListenFails, Signal, Stay
  <2>3. listener' = listener \/ (listener' \in {"listening", "failed"}
                                   /\ listener \in {"starting", "listening"})
    BY <1>7 DEF Listen, ListenFails, Signal, Stay
  <2>4. RequestsHold'
    BY <2>1, <2>3 DEF RequestsHold, Starting, Stopping
  <2>5. AnsweredBeforeTheEnd'
    BY <2>1, <2>2 DEF AnsweredBeforeTheEnd
  <2>6. QED
    BY <2>4, <2>5
<1>8. ASSUME NEW r \in Requests,
             Accept(r) \/ LookUpCountry(r) \/ Query(r) \/ TakeUpdate(r) \/ Background(r)
      PROVE  RequestsHold' /\ AnsweredBeforeTheEnd'
  <2>1. /\ UNCHANGED <<main, listener, signalled, err, timedOut, overtaken, code>>
        /\ \A q \in Requests \ {r} : request'[q] = request[q]
        /\ main # "ended"
    BY <1>8 DEF Accept, LookUpCountry, Query, TakeUpdate, Background, Stay, TypeOK
  <2>2. main \notin Starting
    BY <1>8 DEF Accept, LookUpCountry, Query, TakeUpdate, Background, RequestsHold, Busy, Starting
  <2>3. request'[r] \in Busy => listener = "listening" \/ request[r] \in Busy
    BY <1>8 DEF Accept, LookUpCountry, Query, TakeUpdate, Background, Busy, TypeOK
  <2>4. RequestsHold'
    BY <2>1, <2>2, <2>3 DEF RequestsHold
  <2>5. pool # "open" => main \in {"return", "fail"}
    BY <2>1, <2>2 DEF PoolHolds, TypeOK, Steps, Starting
  <2>6. request'[r] \in {"broken", "cut"} => timedOut \/ overtaken
    <3>1. request'[r] \in {"broken", "cut"} => request[r] \in Busy /\ pool # "open"
      BY <1>8 DEF Accept, LookUpCountry, Query, TakeUpdate, Background, Busy, TypeOK
    <3>2. QED
      BY <2>5, <3>1 DEF RequestsHold, Stopping
  <2>7. request'[r] = "forgotten" => pool # "open"
    BY <1>8 DEF Accept, LookUpCountry, Query, TakeUpdate, Background, Busy, TypeOK
  <2>8. main \in {"return", "fail"} => signalled \/ err
    BY DEF StopHolds, Stopping
  <2>9. AnsweredBeforeTheEnd'
    BY <2>1, <2>5, <2>6, <2>7, <2>8 DEF AnsweredBeforeTheEnd
  <2>10. QED
    BY <2>4, <2>9
<1>9. CASE UNCHANGED vars
  BY <1>9 DEF vars, RequestsHold, AnsweredBeforeTheEnd
<1>10. QED
  BY <1>1, <1>2, <1>3, <1>4, <1>5, <1>6, <1>7, <1>8, <1>9 DEF Main, Next
-----------------------------------------------------------------------------
\* The inductive invariant.
THEOREM Invariance == Spec => []IInv
<1>1. IInv /\ [Next]_vars => IInv'
  BY TypeStep, PoolStep, StopStep, RequestsStep DEF IInv
<1>2. QED
  BY <1>1, InitHolds, PTL DEF Spec

\* App.New, Run and Shutdown: what is open goes with the step the main goroutine is at, and
\* a request's fate is decided once.
THEOREM TypeCorrect == Spec => []TypeOK
  BY Invariance, PTL DEF IInv

\* app.go: whichever step of New fails, and however the process ends by itself, the pool
\* that was opened is closed, and not before the requests are done with it or given up.
THEOREM PoolIsAlwaysClosed == Spec => []PoolIsClosed
<1>1. IInv => PoolIsClosed
  <2>1. SUFFICES ASSUME IInv PROVE PoolIsClosed
    OBVIOUS
  <2>2. TypeOK /\ PoolHolds
    BY <2>1 DEF IInv
  <2>3. main \in Steps
    BY <2>2 DEF TypeOK
  <2>4. QED
    BY <2>2, <2>3 DEF PoolIsClosed, PoolHolds, Steps
<1>2. QED
  BY <1>1, Invariance, PTL

\* App.Shutdown: no request that was taken up is cut off or meets a closed pool, but in
\* the cases the property names; and what runs beside the requests is lost to a
\* shutdown only.
THEOREM RequestsAreAnswered == Spec => []AnsweredBeforeTheEnd
  BY Invariance, PTL DEF IInv
=============================================================================
