----------------------------- MODULE BotProofs -----------------------------
(***************************************************************************)
(* Proofs about Bot, for any users, updates, languages reported and number *)
(* of restarts.  The cache of resume ids is shared by all handlers and is  *)
(* read, used and written in separate steps; HandsHold says what a handler *)
(* may rely on of the id and the language it carries from one to the next. *)
(***************************************************************************)
EXTENDS Bot, SequenceTheorems, TLAPS

\* Where a handler stands that has not made a call for its reply, or one, or two.
Early == {"idle", "clear", "pick", "edit", "load", "document", "keep"}

\* The id a handler carries is that of the resume in its language, and what it is about
\* to cache was not given up since Telegram accepted it.
HandsHold ==
  \A u \in Updates :
    /\ (pc[u] \in {"document", "keep", "drop"} /\ id[u] # 0) => docs[id[u]] = lang[u]
    /\ pc[u] = "keep" => id[u] # 0 /\ id[u] \notin reported

\* How many calls have failed by then.
FailsHold ==
  \A u \in Updates :
    /\ pc[u] \in Early => fails[u] = 0
    /\ pc[u] \in {"send", "drop"} => fails[u] <= 1

\* A handler speaks the language its reader has at some time while it runs, and has not
\* spoken before it picks one.
SpeaksHold ==
  \A u \in Updates :
    /\ pc[u] \in {"idle", "clear", "pick"} => said[u] = {}
    /\ Running(u) => lang[u] \in during[u]

\* Which handlers come to which place, and that the last one is the answer to a button.
RoutesHold ==
  \A u \in Updates :
    /\ pc[u] \in {"load", "document", "keep", "drop"} => asks[u].op = "resume"
    /\ pc[u] = "pick" => asks[u].op = "lang"
    /\ pc[u] = "edit" => asks[u].op # "resume" /\ ~asks[u].new
    /\ pc[u] = "answer" => asks[u].by = "button"
    /\ pc[u] = "done" => (asks[u].by = "button" <=> answered[u] # "no")
    /\ pc[u] \notin Ended => answered[u] = "no"

\* A handler in time whose reader has heard nothing.
Silent(u) == said[u] = {} /\ ~spent[u]

\* The calls for the reply that are made before the last one.
Before(u) == IF asks[u].op = "resume" \/ ~asks[u].new THEN 1 ELSE 0

\* Where the reader has heard nothing, each call made so far has failed.
SilenceHolds ==
  \A u \in Updates : Silent(u) =>
    /\ pc[u] = "send" => fails[u] = Before(u)
    /\ pc[u] = "drop" => fails[u] = 1
    /\ pc[u] # "keep"
    /\ pc[u] \in {"answer", "done"} =>
         Dispatched(u) = Return(u) \/ fails[u] = Before(u) + 1

IInv ==
  /\ TypeOK /\ HandsHold /\ FailsHold /\ SpeaksHold /\ RoutesHold /\ SilenceHolds
  /\ CacheSound /\ SpeaksTheReadersLanguage
-----------------------------------------------------------------------------
LEMMA LanguageOf ==
  ASSUME TypeOK, NEW user \in Users
  PROVE  langOf(user) \in Langs
  BY DEF TypeOK, langOf, langFromCode, Langs

LEMMA AsksTyped ==
  ASSUME TypeOK, NEW u \in Updates
  PROVE  /\ asks[u] \in Ask /\ asks[u].from \in Users
         /\ Return(u) \in {"answer", "done"} /\ Show(u) \in {"send", "edit"}
         /\ Dispatched(u) \in {"load", "pick", "send", "edit", "answer", "done"}
<1>1. asks[u] \in Ask
  BY BotAssumption DEF TypeOK
<1>2. QED
  BY <1>1 DEF Ask, Return, Show, Dispatched

LEMMA DocsGrow ==
  ASSUME NEW l \in Langs, docs \in Seq(Langs)
  PROVE  /\ Append(docs, l) \in Seq(Langs) /\ Len(Append(docs, l)) = Len(docs) + 1
         /\ Append(docs, l)[Len(docs) + 1] = l
         /\ \A i \in 1 .. Len(docs) : Append(docs, l)[i] = docs[i]
         /\ Len(docs) \in Nat
  OBVIOUS

\* A call for the reply, whatever becomes of it.
LEMMA CallTyped ==
  ASSUME TypeOK, NEW u \in Updates, NEW ls \in SUBSET (Langs \cup {"panel"}), fails[u] <= 1,
         Heard(u, ls) \/ Failed(u, ls)
  PROVE  /\ said' \in [Updates -> SUBSET (Langs \cup {"panel"})]
         /\ fails' \in [Updates -> 0 .. 2]
         /\ \A v \in Updates \ {u} : said'[v] = said[v] /\ fails'[v] = fails[v]
         /\ said'[u] \subseteq said[u] \cup ls /\ fails'[u] <= fails[u] + 1
<1>1. CASE Heard(u, ls)
  <2>1. said[u] \cup ls \in SUBSET (Langs \cup {"panel"})
    BY DEF TypeOK
  <2>2. fails' = fails /\ said' = [said EXCEPT ![u] = said[u] \cup ls]
    BY <1>1 DEF Heard
  <2>3. said' \in [Updates -> SUBSET (Langs \cup {"panel"})]
    BY <2>1, <2>2 DEF TypeOK
  <2>4. said'[u] = said[u] \cup ls /\ \A v \in Updates \ {u} : said'[v] = said[v]
    BY <2>2 DEF TypeOK
  <2>5. fails[u] \in 0 .. 2 /\ fails' \in [Updates -> 0 .. 2]
    BY <2>2 DEF TypeOK
  <2>6. QED
    BY <2>2, <2>3, <2>4, <2>5
<1>2. CASE fails' = [fails EXCEPT ![u] = @ + 1] /\ UNCHANGED said
  <2>1. fails[u] \in 0 .. 2 /\ fails[u] + 1 \in 0 .. 2
    BY DEF TypeOK
  <2>2. fails' = [fails EXCEPT ![u] = fails[u] + 1] /\ said' = said
    BY <1>2
  <2>3. fails' \in [Updates -> 0 .. 2] /\ fails'[u] = fails[u] + 1
    BY <2>1, <2>2 DEF TypeOK
  <2>4. \A v \in Updates \ {u} : fails'[v] = fails[v]
    BY <2>2 DEF TypeOK
  <2>5. said \in [Updates -> SUBSET (Langs \cup {"panel"})]
    BY DEF TypeOK
  <2>6. QED
    BY <2>1, <2>2, <2>3, <2>4, <2>5
<1>3. QED
  BY <1>1, <1>2 DEF Failed

LEMMA TypeInit == Init => TypeOK
  BY BotAssumption DEF Init, TypeOK, Langs

LEMMA TypeStep == TypeOK /\ FailsHold /\ [Next]_vars => TypeOK'
<1> SUFFICES ASSUME TypeOK, FailsHold, [Next]_vars PROVE TypeOK'
  OBVIOUS
<1> USE DEF Ended
<1>1. ASSUME NEW u \in Updates, Receive(u) PROVE TypeOK'
  <2>1. langOf(asks[u].from) \in Langs
    BY LanguageOf, AsksTyped
  <2>2. QED
    BY <1>1, <2>1, AsksTyped DEF Receive, GoTo, TypeOK
<1>2. ASSUME NEW u \in Updates, Clear(u) PROVE TypeOK'
  BY <1>2, AsksTyped DEF Clear, GoTo, TypeOK
<1>3. ASSUME NEW u \in Updates, Pick(u) PROVE TypeOK'
  <2>1. /\ langs' \in [Users -> Langs \cup {"none"}]
        /\ lang' \in [Updates -> Langs]
    BY <1>3, AsksTyped DEF Pick, TypeOK
  <2>2. during' \in [Updates -> SUBSET Langs]
    <3>1. CASE asks[u].arg \in Langs
      <4> DEFINE Seen(v) == IF v = u THEN {asks[u].arg}
                         ELSE IF asks[v].from = asks[u].from /\ Running(v)
                         THEN during[v] \cup {asks[u].arg}
                         ELSE during[v]
      <4>1. \A v \in Updates : Seen(v) \in SUBSET Langs
        BY <3>1 DEF TypeOK
      <4>2. during' = [v \in Updates |-> Seen(v)]
        BY <1>3, <3>1 DEF Pick, Picked
      <4> HIDE DEF Seen
      <4>3. QED
        BY <4>1, <4>2
    <3>2. CASE asks[u].arg \notin Langs
      BY <1>3, <3>2 DEF Pick, TypeOK
    <3>3. QED
      BY <3>1, <3>2
  <2>3. QED
    BY <1>3, <2>1, <2>2, AsksTyped DEF Pick, GoTo, TypeOK
<1>4. ASSUME NEW u \in Updates, Edit(u) \/ Send(u) PROVE TypeOK'
  <2>1. Shown(u) \in Langs \cup {"panel"}
    BY DEF Shown, TypeOK
  <2>2. fails[u] <= 1
    BY <1>4 DEF Edit, Send, FailsHold, Early
  <2>3. said' \in [Updates -> SUBSET (Langs \cup {"panel"})] /\ fails' \in [Updates -> 0 .. 2]
    BY <1>4, <2>1, <2>2, CallTyped DEF Edit, Send
  <2>4. pc' \in [Updates -> {"idle", "clear", "pick", "edit", "send", "load", "document",
                             "keep", "drop", "answer"} \cup Ended]
    BY <1>4, AsksTyped DEF Edit, Send, GoTo, TypeOK
  <2>5. QED
    BY <1>4, <2>3, <2>4 DEF Edit, Send, TypeOK
<1>5. ASSUME NEW u \in Updates, Load(u) PROVE TypeOK'
  BY <1>5 DEF Load, GoTo, TypeOK
<1>6. ASSUME NEW u \in Updates, Document(u) PROVE TypeOK'
  <2>1. lang[u] \in Langs /\ docs \in Seq(Langs)
    BY DEF TypeOK
  <2>2. PICK i \in (1 .. Len(docs) + 1) \ gone :
          /\ docs' = IF i = Len(docs) + 1 THEN Append(docs, lang[u]) ELSE docs
          /\ Heard(u, {lang[u], docs'[i]})
          /\ id' = [id EXCEPT ![u] = i]
          /\ reported' = reported \ {i}
    BY <1>6 DEF Document
  <2>3. /\ docs' \in Seq(Langs) /\ Len(docs) <= Len(docs') /\ i \in 1 .. Len(docs')
        /\ docs'[i] \in Langs /\ Len(docs) \in Nat /\ Len(docs') \in Nat
    BY <2>1, <2>2, DocsGrow
  <2>4. said' \in [Updates -> SUBSET (Langs \cup {"panel"})]
    BY <2>1, <2>2, <2>3 DEF Heard, TypeOK
  <2>5. files' \in [Langs -> 0 .. Len(docs')] /\ id' \in [Updates -> 0 .. Len(docs')]
    BY <1>6, <2>2, <2>3 DEF Document, TypeOK
  <2>6. gone' \subseteq 1 .. Len(docs') /\ reported' \subseteq 1 .. Len(docs')
    BY <1>6, <2>2, <2>3 DEF Document, TypeOK
  <2>7. pc' \in [Updates -> {"idle", "clear", "pick", "edit", "send", "load", "document",
                             "keep", "drop", "answer"} \cup Ended]
    <3>1. Return(u) \in {"answer", "done"}
      BY AsksTyped
    <3>2. pc' = [pc EXCEPT ![u] = "keep"] \/ pc' = [pc EXCEPT ![u] = Return(u)]
      BY <1>6 DEF Document, GoTo
    <3> QED BY <3>1, <3>2 DEF TypeOK
  <2>8. QED
    BY <1>6, <2>2, <2>3, <2>4, <2>5, <2>6, <2>7 DEF Document, Heard, TypeOK
<1>7. ASSUME NEW u \in Updates, Refused(u) PROVE TypeOK'
  <2>1. Brought(u) \in SUBSET (Langs \cup {"panel"})
    <3>1. id[u] # 0 => docs[id[u]] \in Langs
      BY DEF TypeOK
    <3>2. QED
      BY <3>1 DEF Brought, TypeOK
  <2>2. fails[u] <= 1
    BY <1>7 DEF Refused, FailsHold, Early
  <2>3. said' \in [Updates -> SUBSET (Langs \cup {"panel"})] /\ fails' \in [Updates -> 0 .. 2]
    BY <1>7, <2>1, <2>2, CallTyped DEF Refused
  <2>4. QED
    BY <1>7, <2>3 DEF Refused, GoTo, TypeOK
<1>8. ASSUME NEW u \in Updates, Keep(u) PROVE TypeOK'
  BY <1>8, AsksTyped DEF Keep, GoTo, TypeOK
<1>9. ASSUME NEW u \in Updates, Drop(u) PROVE TypeOK'
  <2>1. reported' \subseteq 1 .. Len(docs)
    <3>1. reported' \subseteq reported \cup ({id[u]} \ {0})
      BY <1>9 DEF Drop, Report
    <3>2. QED
      BY <3>1 DEF TypeOK
  <2>2. files' \in [Langs -> 0 .. Len(docs)]
    BY <1>9 DEF Drop, TypeOK
  <2>3. QED
    BY <1>9, <2>1, <2>2 DEF Drop, GoTo, TypeOK
<1>10. ASSUME NEW u \in Updates, Answer(u) \/ Expire(u) PROVE TypeOK'
  BY <1>10 DEF Answer, Expire, GoTo, TypeOK
<1>11. ASSUME NEW i \in 1 .. Len(docs), Forget(i) PROVE TypeOK'
  BY <1>11 DEF Forget, TypeOK
<1>12. CASE Restart
  <2>1. starts' \in 0 .. MaxStarts
    BY <1>12, BotAssumption DEF Restart, TypeOK
  <2>2. files' \in [Langs -> 0 .. Len(docs)]
    BY <1>12, <2>1 DEF Restart, TypeOK
  <2>3. QED
    BY <1>12, <2>1, <2>2 DEF Restart, TypeOK
<1>13. CASE UNCHANGED vars
  BY <1>13 DEF vars, TypeOK
<1>14. ASSUME NEW u \in Updates, Handle(u) PROVE TypeOK'
  BY <1>2, <1>3, <1>4, <1>5, <1>6, <1>7, <1>8, <1>9, <1>10, <1>14 DEF Handle
<1>15. CASE Next
  <2>1. CASE \E u \in Updates : Receive(u) \/ Handle(u) \/ Expire(u)
    BY <2>1, <1>1, <1>10, <1>14
  <2>2. CASE \E i \in 1 .. Len(docs) : Forget(i)
    BY <2>2, <1>11
  <2>3. QED
    BY <1>15, <2>1, <2>2, <1>12 DEF Next
<1>16. QED
  BY <1>13, <1>15
-----------------------------------------------------------------------------
\* A document that arrives is the resume in the handler's language.
LEMMA Delivered ==
  ASSUME TypeOK, HandsHold, NEW u \in Updates, Document(u)
  PROVE  /\ \A k \in 1 .. Len(docs) : docs'[k] = docs[k]
         /\ said' = [said EXCEPT ![u] = said[u] \cup {lang[u]}]
         /\ \E i \in 1 .. Len(docs') :
              /\ docs'[i] = lang[u] /\ id' = [id EXCEPT ![u] = i]
              /\ reported' = reported \ {i}
<1>1. PICK i \in (1 .. Len(docs) + 1) \ gone :
        /\ IF id[u] # 0 THEN i = id[u] ELSE i <= Len(docs) => docs[i] = lang[u]
        /\ docs' = IF i = Len(docs) + 1 THEN Append(docs, lang[u]) ELSE docs
        /\ Heard(u, {lang[u], docs'[i]})
        /\ id' = [id EXCEPT ![u] = i]
        /\ reported' = reported \ {i}
  BY DEF Document
<1>2. lang[u] \in Langs /\ docs \in Seq(Langs) /\ id[u] \in 0 .. Len(docs) /\ pc[u] = "document"
  BY DEF TypeOK, Document
<1>3. i \in 1 .. Len(docs') /\ \A k \in 1 .. Len(docs) : docs'[k] = docs[k]
  BY <1>1, <1>2, DocsGrow
<1>4. docs'[i] = lang[u]
  <2>1. CASE i = Len(docs) + 1
    BY <1>1, <1>2, <2>1, DocsGrow
  <2>2. CASE i # Len(docs) + 1
    <3>1. docs' = docs /\ i <= Len(docs)
      BY <1>1, <1>2, <2>2, DocsGrow
    <3>2. id[u] # 0 => docs[id[u]] = lang[u]
      BY <1>2 DEF HandsHold
    <3>3. QED
      BY <1>1, <3>1, <3>2
  <2>3. QED
    BY <2>1, <2>2
<1>5. said' = [said EXCEPT ![u] = said[u] \cup {lang[u]}]
  BY <1>1, <1>4 DEF Heard
<1>6. QED
  BY <1>1, <1>3, <1>4, <1>5

\* The cache and the ids in the handlers' hands keep each other right.
LEMMA ResumeStep ==
  TypeOK /\ HandsHold /\ CacheSound /\ [Next]_vars => HandsHold' /\ CacheSound'
<1> SUFFICES ASSUME TypeOK, HandsHold, CacheSound, [Next]_vars PROVE HandsHold' /\ CacheSound'
  OBVIOUS
<1>1. ASSUME NEW u \in Updates, Receive(u) \/ Clear(u) \/ Pick(u) PROVE HandsHold' /\ CacheSound'
  <2>1. /\ pc'[u] \notin {"document", "keep", "drop"}
        /\ \A v \in Updates \ {u} : pc'[v] = pc[v] /\ lang'[v] = lang[v]
    BY <1>1, AsksTyped DEF Receive, Clear, Pick, GoTo, TypeOK
  <2>2. UNCHANGED <<docs, files, id, reported>>
    BY <1>1 DEF Receive, Clear, Pick
  <2>3. QED
    BY <2>1, <2>2 DEF HandsHold, CacheSound
<1>2. ASSUME NEW u \in Updates, Edit(u) \/ Send(u) \/ Answer(u)
      PROVE  HandsHold' /\ CacheSound'
  <2>1. /\ pc'[u] \notin {"document", "keep", "drop"}
        /\ \A v \in Updates \ {u} : pc'[v] = pc[v]
    BY <1>2, AsksTyped DEF Edit, Send, Answer, GoTo, TypeOK
  <2>2. UNCHANGED <<docs, files, id, reported, lang>>
    BY <1>2 DEF Edit, Send, Answer
  <2>3. QED
    BY <2>1, <2>2 DEF HandsHold, CacheSound
<1>3. ASSUME NEW u \in Updates, Load(u) PROVE HandsHold' /\ CacheSound'
  <2>1. /\ pc'[u] = "document" /\ id'[u] = files[lang[u]] /\ lang[u] \in Langs
        /\ \A v \in Updates \ {u} : pc'[v] = pc[v] /\ id'[v] = id[v]
    BY <1>3 DEF Load, GoTo, TypeOK
  <2>2. UNCHANGED <<docs, files, lang, reported>>
    BY <1>3 DEF Load
  <2>3. QED
    BY <2>1, <2>2 DEF HandsHold, CacheSound
<1>4. ASSUME NEW u \in Updates, Document(u) PROVE HandsHold' /\ CacheSound'
  <2>1. PICK i \in 1 .. Len(docs') :
          docs'[i] = lang[u] /\ id' = [id EXCEPT ![u] = i] /\ reported' = reported \ {i}
    BY <1>4, Delivered
  <2>2. /\ pc'[u] \in {"keep", "answer", "done"} /\ id'[u] = i /\ i # 0
        /\ \A v \in Updates \ {u} : pc'[v] = pc[v] /\ id'[v] = id[v]
    <3>1. Return(u) \in {"answer", "done"}
      BY AsksTyped
    <3> QED BY <1>4, <2>1, <3>1 DEF Document, GoTo, TypeOK
  <2>3. UNCHANGED <<files, lang>>
    BY <1>4 DEF Document
  <2>4. \A k \in 1 .. Len(docs) : docs'[k] = docs[k]
    BY <1>4, Delivered
  <2>5. /\ \A v \in Updates : id[v] # 0 => docs'[id[v]] = docs[id[v]]
        /\ \A l \in Langs : files[l] # 0 => docs'[files[l]] = docs[files[l]]
    BY <2>4 DEF TypeOK
  <2>6. HandsHold'
    BY <2>1, <2>2, <2>3, <2>5 DEF HandsHold
  <2>7. CacheSound'
    BY <2>1, <2>3, <2>5 DEF CacheSound
  <2>8. QED
    BY <2>6, <2>7
<1>5. ASSUME NEW u \in Updates, Refused(u) PROVE HandsHold' /\ CacheSound'
  <2>1. /\ pc[u] = "document" /\ pc'[u] = "drop"
        /\ \A v \in Updates \ {u} : pc'[v] = pc[v]
    BY <1>5 DEF Refused, GoTo, TypeOK
  <2>2. UNCHANGED <<docs, files, id, reported, lang>>
    BY <1>5 DEF Refused
  <2>3. QED
    BY <2>1, <2>2 DEF HandsHold, CacheSound
<1>6. ASSUME NEW u \in Updates, Keep(u) PROVE HandsHold' /\ CacheSound'
  <2>1. /\ pc[u] = "keep" /\ pc'[u] \notin {"document", "keep", "drop"}
        /\ \A v \in Updates \ {u} : pc'[v] = pc[v]
    BY <1>6, AsksTyped DEF Keep, GoTo, TypeOK
  <2>2. UNCHANGED <<docs, id, reported, lang>>
    BY <1>6 DEF Keep
  <2>3. docs[id[u]] = lang[u] /\ id[u] \notin reported
    BY <2>1 DEF HandsHold
  <2>4. /\ files'[lang[u]] = id[u]
        /\ \A l \in Langs \ {lang[u]} : files'[l] = files[l]
    BY <1>6 DEF Keep, TypeOK
  <2>5. QED
    BY <2>1, <2>2, <2>3, <2>4 DEF HandsHold, CacheSound
<1>7. ASSUME NEW u \in Updates, Drop(u) PROVE HandsHold' /\ CacheSound'
  <2>1. /\ pc[u] = "drop" /\ pc'[u] = "send"
        /\ \A v \in Updates \ {u} : pc'[v] = pc[v]
    BY <1>7 DEF Drop, GoTo, TypeOK
  <2>2. UNCHANGED <<docs, id, lang>>
    BY <1>7 DEF Drop
  <2>3. /\ files'[lang[u]] = 0
        /\ \A l \in Langs \ {lang[u]} : files'[l] = files[l]
    BY <1>7 DEF Drop, TypeOK
  <2>4. reported' = reported \cup
          ({id[u]} \ ({0} \cup {id[v] : v \in {w \in Updates : pc[w] = "keep"}}))
    BY <1>7 DEF Drop, Report
  <2>5. HandsHold'
    BY <2>1, <2>2, <2>4 DEF HandsHold
  <2>6. id[u] # 0 => docs[id[u]] = lang[u]
    BY <2>1 DEF HandsHold
  <2>7. CacheSound'
    BY <2>2, <2>3, <2>4, <2>6 DEF CacheSound
  <2>8. QED
    BY <2>5, <2>7
<1>8. ASSUME UNCHANGED <<docs, files, id, reported, lang, pc>> PROVE HandsHold' /\ CacheSound'
  BY <1>8 DEF HandsHold, CacheSound
<1>9. CASE Restart
  <2>1. \A v \in Updates : pc'[v] \notin {"document", "keep", "drop"}
    BY <1>9 DEF Restart, Running, Ended, TypeOK
  <2>2. \A l \in Langs : files'[l] = 0
    BY <1>9 DEF Restart
  <2>3. QED
    BY <2>1, <2>2 DEF HandsHold, CacheSound
<1>10. CASE Next
  <2>1. CASE \E u \in Updates : Receive(u) \/ Handle(u) \/ Expire(u)
    BY <2>1, <1>1, <1>2, <1>3, <1>4, <1>5, <1>6, <1>7, <1>8 DEF Handle, Expire
  <2>2. CASE \E i \in 1 .. Len(docs) : Forget(i)
    BY <2>2, <1>8 DEF Forget
  <2>3. QED
    BY <1>10, <2>1, <2>2, <1>9 DEF Next
<1>11. QED
  BY <1>8, <1>10 DEF vars
-----------------------------------------------------------------------------
\* A handler that goes on to its second call has seen one fail at the most.
LEMMA FailsStep == TypeOK /\ FailsHold /\ [Next]_vars => FailsHold'
<1> SUFFICES ASSUME TypeOK, FailsHold, [Next]_vars PROVE FailsHold'
  OBVIOUS
<1> USE DEF Early
<1>1. ASSUME NEW u \in Updates,
             Receive(u) \/ Clear(u) \/ Pick(u) \/ Load(u) \/ Keep(u) \/ Drop(u) \/ Answer(u)
      PROVE  FailsHold'
  <2>1. /\ pc[u] \in Early \cup {"drop", "answer"}
        /\ pc'[u] \in Early => pc[u] \in Early
        /\ pc'[u] \in {"send", "drop"} => pc[u] \in Early \cup {"drop"}
        /\ \A v \in Updates \ {u} : pc'[v] = pc[v]
    BY <1>1, AsksTyped DEF Receive, Clear, Pick, Load, Keep, Drop, Answer, GoTo, TypeOK
  <2>2. UNCHANGED fails
    BY <1>1 DEF Receive, Clear, Pick, Load, Keep, Drop, Answer
  <2>3. QED
    BY <2>1, <2>2 DEF FailsHold
<1>2. ASSUME NEW u \in Updates, Edit(u) \/ Send(u) \/ Refused(u) PROVE FailsHold'
  <2>1. fails[u] <= 1 /\ (pc[u] # "send" => fails[u] = 0)
    BY <1>2 DEF Edit, Send, Refused, FailsHold
  <2>2. PICK ls \in SUBSET (Langs \cup {"panel"}) : Heard(u, ls) \/ Failed(u, ls)
    <3>1. {Shown(u)} \in SUBSET (Langs \cup {"panel"})
      BY DEF Shown, TypeOK
    <3>2. Brought(u) \in SUBSET (Langs \cup {"panel"})
      <4>1. id[u] # 0 => docs[id[u]] \in Langs
        BY DEF TypeOK
      <4>2. QED
        BY <4>1 DEF Brought, TypeOK
    <3>3. QED
      BY <1>2, <3>1, <3>2 DEF Edit, Send, Refused
  <2>3. /\ fails'[u] <= fails[u] + 1 /\ \A v \in Updates \ {u} : fails'[v] = fails[v]
        /\ fails \in [Updates -> 0 .. 2] /\ fails' \in [Updates -> 0 .. 2]
    BY <2>1, <2>2, CallTyped DEF TypeOK
  <2>4. /\ pc'[u] \notin Early /\ (pc'[u] \in {"send", "drop"} => pc[u] # "send")
        /\ \A v \in Updates \ {u} : pc'[v] = pc[v]
    BY <1>2, AsksTyped DEF Edit, Send, Refused, GoTo, TypeOK
  <2>5. fails[u] \in 0 .. 2 /\ fails'[u] \in 0 .. 2
    BY <2>3
  <2>6. QED
    BY <2>1, <2>3, <2>4, <2>5 DEF FailsHold
<1>3. ASSUME NEW u \in Updates, Document(u) PROVE FailsHold'
  <2>1. /\ pc'[u] \notin {"send", "drop"} /\ fails'[u] = fails[u] /\ pc[u] = "document"
        /\ \A v \in Updates \ {u} : pc'[v] = pc[v] /\ fails'[v] = fails[v]
    <3>1. Return(u) \in {"answer", "done"}
      BY AsksTyped
    <3> QED BY <1>3, <3>1 DEF Document, Heard, GoTo, TypeOK
  <2>2. fails[u] = 0
    BY <2>1 DEF FailsHold, Early
  <2>3. QED
    BY <2>1, <2>2 DEF FailsHold
<1>4. ASSUME UNCHANGED <<pc, fails>> PROVE FailsHold'
  BY <1>4 DEF FailsHold
<1>5. CASE Restart
  <2>1. \A v \in Updates : pc'[v] = pc[v] \/ pc'[v] = "killed"
    BY <1>5 DEF Restart, TypeOK
  <2>2. UNCHANGED fails
    BY <1>5 DEF Restart
  <2>3. QED
    BY <2>1, <2>2 DEF FailsHold
<1>6. CASE Next
  <2>1. CASE \E u \in Updates : Receive(u) \/ Handle(u) \/ Expire(u)
    BY <2>1, <1>1, <1>2, <1>3, <1>4 DEF Handle, Expire
  <2>2. CASE \E i \in 1 .. Len(docs) : Forget(i)
    BY <2>2, <1>4 DEF Forget
  <2>3. QED
    BY <1>6, <2>1, <2>2, <1>5 DEF Next
<1>7. QED
  BY <1>4, <1>6 DEF vars
-----------------------------------------------------------------------------
\* What reaches a reader is in a language held while the handler ran: the id of a
\* resume included, by HandsHold.
LEMMA SpeaksStep ==
  TypeOK /\ HandsHold /\ SpeaksHold /\ SpeaksTheReadersLanguage /\ [Next]_vars
    => SpeaksHold' /\ SpeaksTheReadersLanguage'
<1> SUFFICES ASSUME TypeOK, HandsHold, SpeaksHold, SpeaksTheReadersLanguage, [Next]_vars
             PROVE  SpeaksHold' /\ SpeaksTheReadersLanguage'
  OBVIOUS
<1> USE DEF SpeaksHold, SpeaksTheReadersLanguage
<1>1. ASSUME NEW u \in Updates, Receive(u) PROVE SpeaksHold' /\ SpeaksTheReadersLanguage'
  <2>1. /\ lang'[u] \in during'[u] /\ said[u] = {}
        /\ \A v \in Updates \ {u} :
             lang'[v] = lang[v] /\ during'[v] = during[v] /\ pc'[v] = pc[v]
    BY <1>1 DEF Receive, GoTo, TypeOK
  <2>2. UNCHANGED said
    BY <1>1 DEF Receive
  <2>3. QED
    BY <2>1, <2>2 DEF Running
<1>2. ASSUME NEW u \in Updates, Pick(u) PROVE SpeaksHold' /\ SpeaksTheReadersLanguage'
  <2>1. /\ said[u] = {} /\ Running(u) /\ pc'[u] \notin {"idle", "clear", "pick"}
        /\ \A v \in Updates \ {u} : pc'[v] = pc[v]
    BY <1>2, AsksTyped DEF Pick, GoTo, Running, Ended, TypeOK
  <2>2. UNCHANGED said
    BY <1>2 DEF Pick
  <2>3. lang'[u] \in during'[u] /\ \A v \in Updates \ {u} : lang'[v] = lang[v]
    <3>1. CASE asks[u].arg \in Langs
      <4>1. lang' = [lang EXCEPT ![u] = asks[u].arg] /\ Picked(u, asks[u].arg)
        BY <1>2, <3>1 DEF Pick
      <4>2. during'[u] = {asks[u].arg}
        BY <4>1 DEF Picked
      <4>3. QED
        BY <4>1, <4>2 DEF TypeOK
    <3>2. CASE asks[u].arg \notin Langs
      BY <1>2, <2>1, <3>2 DEF Pick
    <3>3. QED
      BY <3>1, <3>2
  <2>4. \A v \in Updates \ {u} : during[v] \subseteq during'[v]
    BY <1>2 DEF Pick, Picked
  <2>5. QED
    BY <2>1, <2>2, <2>3, <2>4 DEF Running
<1>3. ASSUME NEW u \in Updates, Clear(u) \/ Load(u) \/ Keep(u) \/ Drop(u) \/ Answer(u)
      PROVE  SpeaksHold' /\ SpeaksTheReadersLanguage'
  <2>1. /\ Running(u) /\ (pc'[u] \in {"idle", "clear", "pick"} => pc[u] = "clear")
        /\ \A v \in Updates \ {u} : pc'[v] = pc[v]
    <3>1. /\ pc[u] \in {"clear", "load", "keep", "drop", "answer"}
          /\ pc[u] # "clear" => pc'[u] \in {"document", "send", "answer", "done"}
          /\ \A v \in Updates \ {u} : pc'[v] = pc[v]
      BY <1>3, AsksTyped DEF Clear, Load, Keep, Drop, Answer, GoTo, TypeOK
    <3>2. QED
      BY <3>1 DEF Running, Ended
  <2>2. UNCHANGED <<said, lang, during>>
    BY <1>3 DEF Clear, Load, Keep, Drop, Answer
  <2>3. QED
    BY <2>1, <2>2 DEF Running
<1>4. ASSUME NEW u \in Updates, Edit(u) \/ Send(u) \/ Refused(u) \/ Document(u)
      PROVE  SpeaksHold' /\ SpeaksTheReadersLanguage'
  <2>1. /\ Running(u) /\ pc'[u] \notin {"idle", "clear", "pick"}
        /\ \A v \in Updates \ {u} : pc'[v] = pc[v]
    BY <1>4, AsksTyped DEF Edit, Send, Refused, Document, GoTo, Running, Ended, TypeOK
  <2>2. UNCHANGED <<lang, during>>
    BY <1>4 DEF Edit, Send, Refused, Document
  <2>3. /\ said'[u] \subseteq said[u] \cup {lang[u], "panel"}
        /\ \A v \in Updates \ {u} : said'[v] = said[v]
    <3>1. CASE Edit(u) \/ Send(u)
      <4>1. Shown(u) \in {lang[u], "panel"}
        BY DEF Shown
      <4>2. said' = said \/ said' = [said EXCEPT ![u] = said[u] \cup {Shown(u)}]
        BY <3>1 DEF Edit, Send, Failed, Heard
      <4>3. QED
        BY <4>1, <4>2 DEF TypeOK
    <3>2. CASE Refused(u)
      <4>1. Brought(u) = {lang[u]}
        BY <3>2 DEF Brought, Refused, HandsHold
      <4>2. said' = said \/ said' = [said EXCEPT ![u] = said[u] \cup Brought(u)]
        BY <3>2 DEF Refused, Failed, Heard
      <4>3. QED
        BY <4>1, <4>2 DEF TypeOK
    <3>3. CASE Document(u)
      <4>1. said' = [said EXCEPT ![u] = said[u] \cup {lang[u]}]
        BY <3>3, Delivered
      <4>2. QED
        BY <4>1 DEF TypeOK
    <3>4. QED
      BY <1>4, <3>1, <3>2, <3>3
  <2>4. QED
    BY <2>1, <2>2, <2>3 DEF Running
<1>5. ASSUME UNCHANGED <<pc, said, lang, during>>
      PROVE  SpeaksHold' /\ SpeaksTheReadersLanguage'
  BY <1>5 DEF Running
<1>6. CASE Restart
  <2>1. \A v \in Updates : /\ pc'[v] \in Ended \cup {"idle"}
                           /\ pc'[v] \in {"idle", "clear", "pick"} => pc[v] = pc'[v]
    BY <1>6 DEF Restart, Running, Ended, TypeOK
  <2>2. UNCHANGED <<said, lang, during>>
    BY <1>6 DEF Restart
  <2>3. QED
    BY <2>1, <2>2 DEF Running
<1>7. CASE Next
  <2>1. CASE \E u \in Updates : Receive(u) \/ Handle(u) \/ Expire(u)
    BY <2>1, <1>1, <1>2, <1>3, <1>4, <1>5 DEF Handle, Expire
  <2>2. CASE \E i \in 1 .. Len(docs) : Forget(i)
    BY <2>2, <1>5 DEF Forget
  <2>3. QED
    BY <1>7, <2>1, <2>2, <1>6 DEF Next
<1>8. QED
  BY <1>5, <1>7 DEF vars
-----------------------------------------------------------------------------
\* Where a handler goes from its start, and from the pick of a language.
LEMMA Starts ==
  ASSUME TypeOK, NEW u \in Updates
  PROVE  /\ Dispatched(u) \in {"load", "pick", "send", "edit", "answer", "done"}
         /\ Dispatched(u) = "load" => asks[u].op = "resume"
         /\ Dispatched(u) = "pick" => asks[u].op = "lang"
         /\ Dispatched(u) = "edit" => asks[u].op # "resume" /\ ~asks[u].new
         /\ Dispatched(u) = "send" => asks[u].op # "resume" /\ asks[u].new
         /\ Dispatched(u) \in {"answer", "done"} => Dispatched(u) = Return(u)
         /\ Return(u) = IF asks[u].by = "button" THEN "answer" ELSE "done"
<1>1. asks[u] \in Ask
  BY AsksTyped
<1>2. asks[u].op \in {"view", "resume", "admin", "lang", "none"}
  BY <1>1 DEF Ask
<1>3. QED
  BY <1>2 DEF Dispatched, Return, Show

LEMMA RoutesStep == TypeOK /\ RoutesHold /\ [Next]_vars => RoutesHold'
<1> SUFFICES ASSUME TypeOK, RoutesHold, [Next]_vars PROVE RoutesHold'
  OBVIOUS
<1> USE DEF RoutesHold, Ended
<1>1. ASSUME NEW u \in Updates, Receive(u) \/ Clear(u) PROVE RoutesHold'
  <2>1. /\ pc[u] \in {"idle", "clear"} /\ pc'[u] \in {"clear", Dispatched(u)}
        /\ \A v \in Updates \ {u} : pc'[v] = pc[v]
    BY <1>1 DEF Receive, Clear, GoTo, TypeOK
  <2>2. UNCHANGED <<asks, answered>>
    BY <1>1 DEF Receive, Clear
  <2>3. QED
    BY <2>1, <2>2, Starts
<1>2. ASSUME NEW u \in Updates, Pick(u) \/ Edit(u) \/ Send(u) \/ Keep(u) PROVE RoutesHold'
  <2>1. /\ pc[u] \in {"pick", "edit", "send", "keep"}
        /\ \/ pc'[u] = Return(u)
           \/ pc'[u] = "send"
           \/ pc'[u] = "edit" /\ ~asks[u].new /\ pc[u] = "pick"
        /\ \A v \in Updates \ {u} : pc'[v] = pc[v]
    BY <1>2 DEF Pick, Edit, Send, Keep, Show, GoTo, TypeOK
  <2>2. UNCHANGED <<asks, answered>>
    BY <1>2 DEF Pick, Edit, Send, Keep
  <2>3. QED
    BY <2>1, <2>2, Starts
<1>3. ASSUME NEW u \in Updates, Load(u) \/ Document(u) \/ Refused(u) \/ Drop(u)
      PROVE  RoutesHold'
  <2>1. /\ pc[u] \in {"load", "document", "drop"}
        /\ pc'[u] \in {"document", "keep", "drop", "send", Return(u)}
        /\ \A v \in Updates \ {u} : pc'[v] = pc[v]
    BY <1>3 DEF Load, Document, Refused, Drop, GoTo, TypeOK
  <2>2. UNCHANGED <<asks, answered>>
    BY <1>3 DEF Load, Document, Refused, Drop
  <2>3. QED
    BY <2>1, <2>2, Starts
<1>4. ASSUME NEW u \in Updates, Answer(u) PROVE RoutesHold'
  <2>1. /\ pc[u] = "answer" /\ pc'[u] = "done" /\ answered'[u] # "no"
        /\ \A v \in Updates \ {u} : pc'[v] = pc[v] /\ answered'[v] = answered[v]
    BY <1>4 DEF Answer, GoTo, TypeOK
  <2>2. UNCHANGED asks
    BY <1>4 DEF Answer
  <2>3. QED
    BY <2>1, <2>2
<1>5. ASSUME UNCHANGED <<asks, pc, answered>> PROVE RoutesHold'
  BY <1>5
<1>6. CASE Restart
  <2>1. \A v \in Updates : pc'[v] = pc[v] \/ pc'[v] = "killed"
    BY <1>6 DEF Restart, TypeOK
  <2>2. UNCHANGED <<asks, answered>>
    BY <1>6 DEF Restart
  <2>3. QED
    BY <2>1, <2>2
<1>7. CASE Next
  <2>1. CASE \E u \in Updates : Receive(u) \/ Handle(u) \/ Expire(u)
    BY <2>1, <1>1, <1>2, <1>3, <1>4, <1>5 DEF Handle, Expire
  <2>2. CASE \E i \in 1 .. Len(docs) : Forget(i)
    BY <2>2, <1>5 DEF Forget
  <2>3. QED
    BY <1>7, <2>1, <2>2, <1>6 DEF Next
<1>8. QED
  BY <1>5, <1>7 DEF vars

\* A call whose reader hears nothing, although there was time, has failed.
LEMMA CallCounts ==
  ASSUME TypeOK, NEW u \in Updates, NEW ls, Heard(u, ls) \/ Failed(u, ls)
  PROVE  /\ \A v \in Updates \ {u} : said'[v] = said[v] /\ fails'[v] = fails[v]
         /\ (said'[u] = {} /\ (Heard(u, ls) => ls # {})) =>
              said[u] = {} /\ fails'[u] = fails[u] + 1
<1>1. CASE Heard(u, ls)
  <2>1. fails' = fails /\ said' = [said EXCEPT ![u] = said[u] \cup ls]
    BY <1>1 DEF Heard
  <2>2. said'[u] = said[u] \cup ls /\ \A v \in Updates \ {u} : said'[v] = said[v]
    BY <2>1 DEF TypeOK
  <2>3. QED
    BY <1>1, <2>1, <2>2
<1>2. CASE fails' = [fails EXCEPT ![u] = @ + 1] /\ UNCHANGED said
  <2>1. fails'[u] = fails[u] + 1 /\ \A v \in Updates \ {u} : fails'[v] = fails[v]
    BY <1>2 DEF TypeOK
  <2>2. ~Heard(u, ls) \/ fails' = fails
    BY DEF Heard
  <2>3. fails[u] \in Nat
    BY DEF TypeOK
  <2>4. QED
    BY <1>2, <2>1, <2>2, <2>3
<1>3. QED
  BY <1>1, <1>2 DEF Failed

LEMMA AskedOnce ==
  ASSUME UNCHANGED asks, NEW u \in Updates
  PROVE  UNCHANGED <<Dispatched(u), Return(u), Before(u)>>
  BY DEF Dispatched, Return, Show, Before

LEMMA SilenceStep ==
  TypeOK /\ FailsHold /\ RoutesHold /\ SilenceHolds /\ [Next]_vars => SilenceHolds'
<1> SUFFICES ASSUME TypeOK, FailsHold, RoutesHold, SilenceHolds, [Next]_vars
             PROVE  SilenceHolds'
  OBVIOUS
<1> USE AskedOnce DEF SilenceHolds, Silent
<1>1. ASSUME NEW u \in Updates, Receive(u) \/ Clear(u) PROVE SilenceHolds'
  <2>1. /\ pc[u] \in {"idle", "clear"} /\ pc'[u] \in {"clear", Dispatched(u)}
        /\ \A v \in Updates \ {u} : pc'[v] = pc[v]
    BY <1>1 DEF Receive, Clear, GoTo, TypeOK
  <2>2. UNCHANGED <<asks, said, spent, fails>>
    BY <1>1 DEF Receive, Clear
  <2>3. fails[u] = 0
    BY <2>1 DEF FailsHold, Early
  <2>4. QED
    BY <2>1, <2>2, <2>3, Starts DEF Before
<1>2. ASSUME NEW u \in Updates, Pick(u) \/ Load(u) \/ Drop(u) PROVE SilenceHolds'
  <2>1. /\ \/ pc[u] = "pick" /\ pc'[u] = Show(u)
           \/ pc[u] = "load" /\ pc'[u] = "document"
           \/ pc[u] = "drop" /\ pc'[u] = "send"
        /\ \A v \in Updates \ {u} : pc'[v] = pc[v]
    BY <1>2 DEF Pick, Load, Drop, GoTo, TypeOK
  <2>2. UNCHANGED <<asks, said, spent, fails>>
    BY <1>2 DEF Pick, Load, Drop
  <2>3. /\ pc[u] = "pick" => fails[u] = 0 /\ asks[u].op = "lang"
        /\ pc[u] = "drop" => asks[u].op = "resume"
    BY DEF FailsHold, Early, RoutesHold
  <2>4. Return(u) \in {"answer", "done"} /\ Show(u) = IF asks[u].new THEN "send" ELSE "edit"
    BY DEF Return, Show
  <2>5. QED
    BY <2>1, <2>2, <2>3, <2>4 DEF Before
<1>3. ASSUME NEW u \in Updates, Keep(u) \/ Answer(u) PROVE SilenceHolds'
  <2>1. /\ \/ pc[u] = "keep" /\ pc'[u] = Return(u)
           \/ pc[u] = "answer" /\ pc'[u] = "done"
        /\ \A v \in Updates \ {u} : pc'[v] = pc[v]
    BY <1>3 DEF Keep, Answer, GoTo, TypeOK
  <2>2. UNCHANGED <<asks, said, spent, fails>>
    BY <1>3 DEF Keep, Answer
  <2>3. Return(u) \in {"answer", "done"}
    BY DEF Return
  <2>4. QED
    BY <2>1, <2>2, <2>3
<1>4. ASSUME NEW u \in Updates, Document(u) PROVE SilenceHolds'
  <2>1. said'[u] # {} /\ \A v \in Updates \ {u} : said'[v] = said[v] /\ pc'[v] = pc[v]
    BY <1>4 DEF Document, Heard, GoTo, TypeOK
  <2>2. UNCHANGED <<asks, spent, fails>>
    BY <1>4 DEF Document, Heard
  <2>3. QED
    BY <2>1, <2>2
<1>5. ASSUME NEW u \in Updates, Edit(u) \/ Send(u) \/ Refused(u) PROVE SilenceHolds'
  <2>1. PICK ls : (Heard(u, ls) \/ Failed(u, ls)) /\ (Heard(u, ls) => ls # {})
    <3>1. CASE Edit(u) \/ Send(u)
      BY <3>1 DEF Edit, Send
    <3>2. CASE Refused(u)
      <4> DEFINE ls == IF id[u] \in gone THEN {} ELSE Brought(u)
      <4>1. Failed(u, ls)
        BY <3>2 DEF Refused
      <4>2. CASE ls # {}
        BY <4>1, <4>2
      <4>3. CASE ls = {}
        <5>1. fails' = [fails EXCEPT ![u] = @ + 1]
          BY <4>1, <4>3 DEF Failed
        <5>2. fails \in [Updates -> 0 .. 2]
          BY DEF TypeOK
        <5>3. fails[u] \in 0 .. 2 /\ fails'[u] = fails[u] + 1
          BY <5>1, <5>2
        <5>4. ~Heard(u, ls)
          BY <5>3 DEF Heard
        <5>5. QED
          BY <4>1, <5>4
      <4>4. QED
        BY <4>2, <4>3
    <3>3. QED
      BY <1>5, <3>1, <3>2
  <2>2. /\ \A v \in Updates \ {u} : said'[v] = said[v] /\ fails'[v] = fails[v]
        /\ said'[u] = {} => said[u] = {} /\ fails'[u] = fails[u] + 1
    BY <2>1, CallCounts
  <2>3. UNCHANGED <<asks, spent>> /\ \A v \in Updates \ {u} : pc'[v] = pc[v]
    BY <1>5 DEF Edit, Send, Refused, GoTo, TypeOK
  <2>4. \/ pc[u] = "edit" /\ pc'[u] \in {Return(u), "send"}
        \/ pc[u] = "send" /\ pc'[u] = Return(u)
        \/ pc[u] = "document" /\ pc'[u] = "drop"
    BY <1>5 DEF Edit, Send, Refused, GoTo, TypeOK
  <2>5. CASE pc[u] = "edit" /\ pc'[u] = "send"
    <3>1. fails[u] = 0 /\ ~asks[u].new
      BY <2>5 DEF FailsHold, Early, RoutesHold
    <3>2. Before(u) = 1 /\ (said'[u] = {} => fails'[u] = fails[u] + 1)
      BY <2>2, <3>1 DEF Before
    <3>3. QED
      BY <2>2, <2>3, <2>5, <3>1, <3>2
  <2>6. CASE pc[u] = "edit" /\ pc'[u] = Return(u)
    <3>1. Return(u) \in {"answer", "done"}
      BY DEF Return
    <3>2. Heard(u, {Shown(u)})
      BY <1>5, <2>6, <3>1 DEF Edit, Send, Refused, GoTo, TypeOK
    <3>3. said' = [said EXCEPT ![u] = said[u] \cup {Shown(u)}]
      BY <3>2 DEF Heard
    <3>4. said'[u] # {}
      BY <3>3 DEF TypeOK
    <3>5. QED
      BY <2>2, <2>3, <2>6, <3>1, <3>4
  <2>7. CASE pc[u] = "send" /\ pc'[u] = Return(u)
    <3>1. Return(u) \in {"answer", "done"}
      BY DEF Return
    <3>2. QED
      BY <2>2, <2>3, <2>7, <3>1
  <2>8. CASE pc[u] = "document" /\ pc'[u] = "drop"
    <3>1. fails[u] = 0
      BY <2>8 DEF FailsHold, Early
    <3>2. QED
      BY <2>2, <2>3, <2>8, <3>1
  <2>9. QED
    BY <2>4, <2>5, <2>6, <2>7, <2>8
<1>6. ASSUME NEW u \in Updates, Expire(u) PROVE SilenceHolds'
  <2>1. spent'[u] /\ \A v \in Updates \ {u} : spent'[v] = spent[v]
    BY <1>6 DEF Expire, TypeOK
  <2>2. UNCHANGED <<asks, said, pc, fails>>
    BY <1>6 DEF Expire
  <2>3. QED
    BY <2>1, <2>2
<1>7. ASSUME UNCHANGED <<asks, said, spent, pc, fails>> PROVE SilenceHolds'
  BY <1>7
<1>8. CASE Restart
  <2>1. \A v \in Updates : pc'[v] = pc[v] \/ pc'[v] = "killed"
    BY <1>8 DEF Restart, TypeOK
  <2>2. UNCHANGED <<asks, said, spent, fails>>
    BY <1>8 DEF Restart
  <2>3. QED
    BY <2>1, <2>2
<1>9. CASE Next
  <2>1. CASE \E u \in Updates : Receive(u) \/ Handle(u) \/ Expire(u)
    BY <2>1, <1>1, <1>2, <1>3, <1>4, <1>5, <1>6 DEF Handle
  <2>2. CASE \E i \in 1 .. Len(docs) : Forget(i)
    BY <2>2, <1>7 DEF Forget
  <2>3. QED
    BY <1>9, <2>1, <2>2, <1>8 DEF Next
<1>10. QED
  BY <1>7, <1>9 DEF vars
-----------------------------------------------------------------------------
\* The inductive invariant.
THEOREM Invariance == Spec => []IInv
<1>1. Init => IInv
  <2>1. ASSUME Init PROVE HandsHold /\ FailsHold /\ SpeaksHold /\ RoutesHold /\ SilenceHolds
    BY <2>1 DEF Init, HandsHold, FailsHold, Early, SpeaksHold, RoutesHold, SilenceHolds,
                Running, Ended
  <2>2. ASSUME Init PROVE CacheSound /\ SpeaksTheReadersLanguage
    BY <2>2 DEF Init, CacheSound, SpeaksTheReadersLanguage
  <2>3. QED
    BY <2>1, <2>2, TypeInit DEF IInv
<1>2. IInv /\ [Next]_vars => IInv'
  BY TypeStep, ResumeStep, FailsStep, SpeaksStep, RoutesStep, SilenceStep DEF IInv
<1>3. QED
  BY <1>1, <1>2, PTL DEF Spec

\* The types of the bot's maps, of what the handlers hold and of the observers, for any
\* users and updates.
THEOREM TypeCorrect == Spec => []TypeOK
  BY Invariance, PTL DEF IInv

\* telegram.go, sendResume: the cache of resume ids, which every handler reads, uses and
\* writes without holding its lock meanwhile, never gives one language the resume of
\* another, nor an id given up.
THEOREM CacheStaysSound == Spec => []CacheSound
  BY Invariance, PTL DEF IInv

\* telegram.go, the handlers: everything that reaches a reader is in a language this
\* reader had while the handler ran, however many handlers run and whatever is picked.
THEOREM ReadersAreAddressed == Spec => []SpeaksTheReadersLanguage
  BY Invariance, PTL DEF IInv

\* telegram.go, handleCallback, show and sendResume: a button is always answered, and a
\* reader who asked hears of it, unless the time was up or every call for it failed.
THEOREM ReadersAreAnswered == Spec => []HeardAndAnswered
<1>1. IInv => HeardAndAnswered
  BY DEF IInv, RoutesHold, SilenceHolds, Silent, Before, HeardAndAnswered
<1>2. QED
  BY <1>1, Invariance, PTL
=============================================================================
