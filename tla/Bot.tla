-------------------------------- MODULE Bot --------------------------------
(***************************************************************************)
(* What the bot says to its readers: the handlers of commands, texts and   *)
(* buttons (internal/notifier/telegram.go), the languages (i18n.go) and    *)
(* the views (keyboard.go).                                                *)
(*                                                                         *)
(* The bot library runs the handler of every update in a goroutine of its  *)
(* own.  They share two maps that live in memory only: the language a user *)
(* picked, and per language Telegram's id of the resume it was sent last.  *)
(* Buttons and /start have 30 seconds, which every call they make shares;  *)
(* the other commands have no deadline.  Any call may fail, or succeed and *)
(* have its answer lost.                                                   *)
(*                                                                         *)
(* External: Telegram gives a document it fetches by URL an id, may give a *)
(* file it knows the same id again, and may cease to accept an id.         *)
(*                                                                         *)
(* Abstracted: what a screen shows besides its language (the admins' panel *)
(* is in English for all; AdminChats and Analytics have what it does), the *)
(* toasts, and the retries of sendMessage (Broadcast).                     *)
(***************************************************************************)
EXTENDS Naturals, Sequences

CONSTANTS
  Users,       \* who writes to the bot
  Admins,      \* those of them isAdmin recognises
  Code,        \* Code[u]: the language_code Telegram reports for u, by its prefix
  Updates,     \* the updates the bot ever receives
  Asked,       \* what the updates may be about, each an element of [Updates -> Ask]
  MaxStarts    \* bound: how many times the process is started again

Langs == {"en", "ru", "de"}

Views == {"menu", "about", "skills", "exp", "proj", "contact", "lang"}

\* by: a command or text, /start, or a button.  op, arg: a view, the resume, the
\* panel, a language, or nothing (the page counter, a button of a message too old, a
\* text in a group).  new: the button of an alert, whose screen is a message of its own.
Ask == [from : Users, by : {"command", "start", "button"},
        op : {"view", "resume", "admin", "lang", "none"}, arg : STRING, new : BOOLEAN]

ASSUME BotAssumption ==
  /\ Asked \subseteq [Updates -> Ask]
  /\ \A a \in Asked : \A u \in Updates :
       IF a[u].by = "button" THEN a[u].new => a[u].op = "admin" ELSE a[u].new /\ a[u].op # "lang"
  /\ MaxStarts \in Nat

VARIABLES
  asks,       \* what each update is about
  langs,      \* n.langs: per user the language picked, or "none"
  files,      \* n.resumeFiles: per language the id of its resume, or 0
  docs,       \* Telegram: docs[i] is the language of the resume with id i
  gone,       \* Telegram: ids it does not accept any more
  pc,         \* where the handler of each update stands
  lang,       \* l
  id,         \* the id to send, or the one sent; 0: by URL
  spent,      \* the handler's 30 seconds are over
  starts,     \* how often the process was started again
  said,       \* observer: languages of what reached the reader, or "panel"
  fails,      \* observer: calls for the reply that failed
  answered,   \* the answer to the button: "no", "yes", "failed"
  during,     \* observer: languages the reader had while the handler ran
  reported    \* observer: ids refused to a handler that has dropped them from the
              \* cache, and neither accepted since nor in another handler's hands then

vars == <<asks, langs, files, docs, gone, pc, lang, id, spent, starts, said, fails, answered,
          during, reported>>

langFromCode(code) ==
  CASE code \in {"ru", "uk", "be", "kk"} -> "ru"
    [] code = "de"                       -> "de"
    [] OTHER                             -> "en"

langOf(user) == IF langs[user] # "none" THEN langs[user] ELSE langFromCode(Code[user])

Ended == {"done", "killed"}

Running(u) == pc[u] \notin Ended \cup {"idle"}

\* Only these have a deadline.
Hurried(u) == asks[u].by # "command"

\* The deferred answer of a button.
Return(u) == IF asks[u].by = "button" THEN "answer" ELSE "done"

\* show edits the button's message, or sends a new one.
Show(u) == IF asks[u].new THEN "send" ELSE "edit"

Dispatched(u) ==
  CASE asks[u].op = "resume" -> "load"
    [] asks[u].op = "lang"   -> "pick"
    [] asks[u].op = "view"   -> IF asks[u].by = "button" /\ asks[u].arg \notin Views
                                THEN Return(u) ELSE Show(u)
    [] asks[u].op = "admin"  -> IF asks[u].by = "button" /\ asks[u].from \notin Admins
                                THEN Return(u) ELSE Show(u)
    [] asks[u].op = "none"   -> Return(u)

\* What a screen is in: the reader's language, unless it is the panel.
Shown(u) == IF asks[u].op = "admin" /\ asks[u].from \in Admins THEN "panel" ELSE lang[u]

\* What a resume brings: a caption, and the document of the id.
Brought(u) == {lang[u]} \cup (IF id[u] = 0 THEN {} ELSE {docs[id[u]]})

GoTo(u, where) == pc' = [pc EXCEPT ![u] = where]
-----------------------------------------------------------------------------
Init ==
  /\ asks \in Asked
  /\ langs = [user \in Users |-> "none"]
  /\ files = [l \in Langs |-> 0]
  /\ docs = <<>>
  /\ gone = {}
  /\ pc = [u \in Updates |-> "idle"]
  /\ lang = [u \in Updates |-> "en"]
  /\ id = [u \in Updates |-> 0]
  /\ spent = [u \in Updates |-> FALSE]
  /\ starts = 0
  /\ said = [u \in Updates |-> {}]
  /\ fails = [u \in Updates |-> 0]
  /\ answered = [u \in Updates |-> "no"]
  /\ during = [u \in Updates |-> {}]
  /\ reported = {}

\* The handler starts and reads the reader's language.
Receive(u) ==
  /\ pc[u] = "idle"
  /\ lang' = [lang EXCEPT ![u] = langOf(asks[u].from)]
  /\ during' = [during EXCEPT ![u] = {langOf(asks[u].from)}]
  /\ GoTo(u, IF asks[u].by = "start" THEN "clear" ELSE Dispatched(u))
  /\ UNCHANGED <<asks, langs, files, docs, gone, id, spent, starts, said, fails, answered,
                 reported>>

\* /start sends and deletes a message first; that it fails does not matter.
Clear(u) ==
  /\ pc[u] = "clear"
  /\ GoTo(u, Dispatched(u))
  /\ UNCHANGED <<asks, langs, files, docs, gone, lang, id, spent, starts, said, fails, answered,
                 during, reported>>

\* What the others' handlers see of a language picked.
Picked(u, l) ==
  during' = [v \in Updates |->
    IF v = u THEN {l}
    ELSE IF asks[v].from = asks[u].from /\ Running(v) THEN during[v] \cup {l}
    ELSE during[v]]

\* Mutation: the menu that follows is still in the old language.
PickForLater(u) ==
  /\ pc[u] = "pick"
  /\ IF asks[u].arg \in Langs
     THEN /\ langs' = [langs EXCEPT ![asks[u].from] = asks[u].arg]
          /\ Picked(u, asks[u].arg)
     ELSE UNCHANGED <<langs, during>>
  /\ GoTo(u, Show(u))
  /\ UNCHANGED <<asks, files, docs, gone, lang, id, spent, starts, said, fails, answered,
                 reported>>

\* Mutation: any code is stored.
PickUnparsed(u) ==
  /\ pc[u] = "pick"
  /\ langs' = [langs EXCEPT ![asks[u].from] = asks[u].arg]
  /\ lang' = [lang EXCEPT ![u] = asks[u].arg]
  /\ Picked(u, asks[u].arg)
  /\ GoTo(u, Show(u))
  /\ UNCHANGED <<asks, files, docs, gone, id, spent, starts, said, fails, answered, reported>>

\* A language is picked; a code that is none of them leaves the language as it is.
Pick(u) ==
  /\ pc[u] = "pick"
  /\ IF asks[u].arg \in Langs
     THEN /\ langs' = [langs EXCEPT ![asks[u].from] = asks[u].arg]
          /\ lang' = [lang EXCEPT ![u] = asks[u].arg]
          /\ Picked(u, asks[u].arg)
     ELSE UNCHANGED <<langs, lang, during>>
  /\ GoTo(u, Show(u))
  /\ UNCHANGED <<asks, files, docs, gone, id, spent, starts, said, fails, answered, reported>>

\* A call for the reply: it reaches the reader or not, the handler learns of it or not.
\* After the deadline no call reaches Telegram.
Heard(u, ls) ==
  /\ ~spent[u]
  /\ said' = [said EXCEPT ![u] = @ \cup ls]
  /\ UNCHANGED fails

Failed(u, ls) ==
  \/ ls # {} /\ Heard(u, ls)
  \/ fails' = [fails EXCEPT ![u] = @ + 1] /\ UNCHANGED said

\* Mutation: an edit that fails is left at that.
EditOnly(u) ==
  /\ pc[u] = "edit"
  /\ Heard(u, {Shown(u)}) \/ Failed(u, {Shown(u)})
  /\ GoTo(u, Return(u))
  /\ UNCHANGED <<asks, langs, files, docs, gone, lang, id, spent, starts, answered, during,
                 reported>>

\* show: the message is edited, or shows that screen already; else a new one is sent.
Edit(u) ==
  /\ pc[u] = "edit"
  /\ \/ Heard(u, {Shown(u)}) /\ GoTo(u, Return(u))
     \/ Failed(u, {Shown(u)}) /\ GoTo(u, "send")
  /\ UNCHANGED <<asks, langs, files, docs, gone, lang, id, spent, starts, answered, during,
                 reported>>

\* show: sendMessage; its error is only logged.
Send(u) ==
  /\ pc[u] = "send"
  /\ Heard(u, {Shown(u)}) \/ Failed(u, {Shown(u)})
  /\ GoTo(u, Return(u))
  /\ UNCHANGED <<asks, langs, files, docs, gone, lang, id, spent, starts, answered, during,
                 reported>>

\* sendResume looks for an id.
Load(u) ==
  /\ pc[u] = "load"
  /\ id' = [id EXCEPT ![u] = files[lang[u]]]
  /\ GoTo(u, "document")
  /\ UNCHANGED <<asks, langs, files, docs, gone, lang, spent, starts, said, fails, answered,
                 during, reported>>

\* SendDocument succeeds: by id, or by URL, where Telegram may know the file.  The id is
\* cached if the answer has a document.
Document(u) ==
  /\ pc[u] = "document"
  /\ \E i \in (1 .. Len(docs) + 1) \ gone :
       /\ IF id[u] # 0 THEN i = id[u] ELSE i <= Len(docs) => docs[i] = lang[u]
       /\ docs' = IF i = Len(docs) + 1 THEN Append(docs, lang[u]) ELSE docs
       /\ Heard(u, {lang[u], docs'[i]})
       /\ id' = [id EXCEPT ![u] = i]
       /\ reported' = reported \ {i}
  /\ GoTo(u, "keep") \/ GoTo(u, Return(u))
  /\ UNCHANGED <<asks, langs, files, gone, lang, spent, starts, answered, during>>

\* SendDocument fails: the id is not accepted, or the call fails.
Refused(u) ==
  /\ pc[u] = "document"
  /\ Failed(u, IF id[u] \in gone THEN {} ELSE Brought(u))
  /\ GoTo(u, "drop")
  /\ UNCHANGED <<asks, langs, files, docs, gone, lang, id, spent, starts, answered, during,
                 reported>>

\* Mutation: the id is filed under the language the reader has by now.
KeepUnderPick(u) ==
  /\ pc[u] = "keep"
  /\ files' = [files EXCEPT ![langOf(asks[u].from)] = id[u]]
  /\ GoTo(u, Return(u))
  /\ UNCHANGED <<asks, langs, docs, gone, lang, id, spent, starts, said, fails, answered,
                 during, reported>>

\* The id of the document sent is cached.
Keep(u) ==
  /\ pc[u] = "keep"
  /\ files' = [files EXCEPT ![lang[u]] = id[u]]
  /\ GoTo(u, Return(u))
  /\ UNCHANGED <<asks, langs, docs, gone, lang, id, spent, starts, said, fails, answered,
                 during, reported>>

\* The id that failed, unless another handler is about to cache it.
Report(u) ==
  reported' = reported \cup
    ({id[u]} \ ({0} \cup {id[v] : v \in {w \in Updates : pc[w] = "keep"}}))

\* Mutation: the id that failed stays in the cache.
DropNothing(u) ==
  /\ pc[u] = "drop"
  /\ Report(u)
  /\ GoTo(u, "send")
  /\ UNCHANGED <<asks, langs, files, docs, gone, lang, id, spent, starts, said, fails, answered,
                 during>>

\* Mutation: the reader is not told.
DropSilently(u) ==
  /\ pc[u] = "drop"
  /\ files' = [files EXCEPT ![lang[u]] = 0]
  /\ Report(u)
  /\ GoTo(u, Return(u))
  /\ UNCHANGED <<asks, langs, docs, gone, lang, id, spent, starts, said, fails, answered,
                 during>>

\* The id cached for the language goes, whichever it is by now; the reader gets a link.
Drop(u) ==
  /\ pc[u] = "drop"
  /\ files' = [files EXCEPT ![lang[u]] = 0]
  /\ Report(u)
  /\ GoTo(u, "send")
  /\ UNCHANGED <<asks, langs, docs, gone, lang, id, spent, starts, said, fails, answered,
                 during>>

\* The deferred answer, with the context of the handler.
Answer(u) ==
  /\ pc[u] = "answer"
  /\ \E a \in {"yes", "failed"} :
       /\ spent[u] => a = "failed"
       /\ answered' = [answered EXCEPT ![u] = a]
  /\ GoTo(u, "done")
  /\ UNCHANGED <<asks, langs, files, docs, gone, lang, id, spent, starts, said, fails, during,
                 reported>>

Handle(u) ==
  \/ Clear(u) \/ Pick(u) \/ Edit(u) \/ Send(u) \/ Load(u) \/ Document(u)
  \/ Refused(u) \/ Keep(u) \/ Drop(u) \/ Answer(u)

\* A call takes so long that the handler's context ends.
Expire(u) ==
  /\ pc[u] \in {"clear", "edit", "send", "document", "answer"}
  /\ Hurried(u) /\ ~spent[u]
  /\ spent' = [spent EXCEPT ![u] = TRUE]
  /\ UNCHANGED <<asks, langs, files, docs, gone, pc, lang, id, starts, said, fails, answered,
                 during, reported>>

\* Telegram ceases to accept an id.
Forget(i) ==
  /\ gone' = gone \cup {i}
  /\ UNCHANGED <<asks, langs, files, docs, pc, lang, id, spent, starts, said, fails, answered,
                 during, reported>>

\* The process is started again: its handlers and both maps are gone.
Restart ==
  /\ starts < MaxStarts
  /\ starts' = starts + 1
  /\ langs' = [user \in Users |-> "none"]
  /\ files' = [l \in Langs |-> 0]
  /\ pc' = [u \in Updates |-> IF Running(u) THEN "killed" ELSE pc[u]]
  /\ UNCHANGED <<asks, docs, gone, lang, id, spent, said, fails, answered, during, reported>>

Next ==
  \/ \E u \in Updates : Receive(u) \/ Handle(u) \/ Expire(u)
  \/ \E i \in 1 .. Len(docs) : Forget(i)
  \/ Restart

Spec == Init /\ [][Next]_vars
-----------------------------------------------------------------------------
TypeOK ==
  /\ asks \in Asked
  /\ langs \in [Users -> Langs \cup {"none"}]
  /\ docs \in Seq(Langs)
  /\ files \in [Langs -> 0 .. Len(docs)]
  /\ gone \subseteq 1 .. Len(docs)
  /\ pc \in [Updates -> {"idle", "clear", "pick", "edit", "send", "load", "document", "keep",
                         "drop", "answer"} \cup Ended]
  /\ lang \in [Updates -> Langs]
  /\ id \in [Updates -> 0 .. Len(docs)]
  /\ spent \in [Updates -> BOOLEAN]
  /\ starts \in 0 .. MaxStarts
  /\ said \in [Updates -> SUBSET (Langs \cup {"panel"})]
  /\ fails \in [Updates -> 0 .. 2]
  /\ answered \in [Updates -> {"no", "yes", "failed"}]
  /\ during \in [Updates -> SUBSET Langs]
  /\ reported \subseteq 1 .. Len(docs)

\* Whatever reaches a reader, and the resume above all, whose id another reader's
\* handler may have left behind, is in a language this reader had while the handler
\* ran; after a button that picks a language, in that one.
SpeaksTheReadersLanguage ==
  \A u \in Updates : said[u] \subseteq during[u] \cup {"panel"}

\* A cached id is that of the resume in its language, however handlers in several
\* languages and picks interleave; and an id that a send has failed with does not come
\* back into the cache, unless Telegram accepted it since or another handler was
\* about to store it when it was dropped.
CacheSound ==
  \A l \in Langs : files[l] # 0 => docs[files[l]] = l /\ files[l] \notin reported

\* A button is always answered, which fails after a slow handler only or when that
\* call fails itself; and a reader who asked for something hears of it unless the
\* time was up or each call that could have told failed: a refused resume is followed
\* by a link, an impossible edit by a new message.
HeardAndAnswered ==
  \A u \in Updates : pc[u] = "done" =>
    /\ asks[u].by = "button" <=> answered[u] # "no"
    /\ said[u] = {} =>
         \/ spent[u]
         \/ Dispatched(u) = Return(u)
         \/ fails[u] = IF asks[u].op = "resume" \/ ~asks[u].new THEN 2 ELSE 1
=============================================================================
