----------------------------- MODULE Broadcast -----------------------------
(***************************************************************************)
(* One message on its way to the admins: TelegramNotifier.broadcast and    *)
(* sendMessage (internal/notifier/telegram.go), called from the goroutine  *)
(* Tracking leaves behind and from notifyBotUser; and sendDigest           *)
(* (admin.go), the body of Digest's loop, which sends in the same way.     *)
(*                                                                         *)
(* All the chats share one context that ends a fixed time after the        *)
(* goroutine started; each attempt has a deadline of its own within it.    *)
(* Time is the number of seconds left.  Telegram may answer, refuse, limit *)
(* the rate, fail, stay silent until the deadline, or take the message and *)
(* have its answer lost.  Meanwhile the admins change their settings, and  *)
(* register themselves in other chats.                                     *)
(*                                                                         *)
(* The message is sent once for every row, to the chat the row named when  *)
(* the rows were listed.                                                   *)
(*                                                                         *)
(* Abstracted: the text and keyboard of the message, and logging.          *)
(***************************************************************************)
EXTENDS BroadcastState

CONSTANTS
  Kinds,          \* what is sent: "new", "returning", "lead", "bot_user", "digest"
  AlertBudget,    \* seconds an alert's context lasts (30)
  DigestBudget,   \* seconds a digest's context lasts (60)
  AttemptBudget,  \* sendAttemptBudget
  Backoff,        \* seconds waited per attempt made
  Latencies,      \* how long an answer may take
  RetryAfters,    \* what a 429 may ask for
  MaxChanges      \* bound: how often the admins change their settings meanwhile

ASSUME BroadcastAssumption ==
  /\ Kinds \subseteq {"new", "returning", "lead", "bot_user", "digest"}
  /\ AlertBudget \in Nat /\ DigestBudget \in Nat /\ AttemptBudget \in Nat /\ Backoff \in Nat
  /\ Attempts \in Nat \ {0}
  /\ "none" \notin ChatIds
  /\ Latencies \subseteq Nat
  /\ RetryAfters \subseteq Nat
  /\ MaxChanges \in Nat

vars == <<table, changes, kind, stage, left, chats, todo, row, attempt, pause, outcome, copies, lost, calls>>

Modes == IF kind = "digest" THEN {"on", "off"} ELSE {"all", "new", "off"}

Entry == [chat : ChatIds, mode : Modes]

Budget == IF kind = "digest" THEN DigestBudget ELSE AlertBudget

\* The deadline of an attempt.
Deadline == IF left < AttemptBudget THEN left ELSE AttemptBudget
-----------------------------------------------------------------------------
Init ==
  /\ kind \in Kinds
  /\ table \in [Rows -> Entry \cup {Absent}]
  /\ changes = 0
  /\ stage = IF kind = "digest" THEN "overview" ELSE "list"
  /\ left = Budget
  /\ chats = [r \in Rows |-> Absent]
  /\ todo = {}
  /\ row \in Rows
  /\ attempt = 0
  /\ pause = 0
  /\ outcome = [r \in Rows |-> "none"]
  /\ copies = [c \in ChatIds |-> 0]
  /\ lost = [c \in ChatIds |-> 0]
  /\ calls = [r \in Rows |-> 0]

Spend(d) == left' = left - d

\* sendDigest asks for today's overview first.
Overview(d) ==
  /\ stage = "overview" /\ d <= left
  /\ Spend(d)
  /\ stage' = "list"
  /\ UNCHANGED <<table, changes, kind, chats, todo, row, attempt, pause, outcome, copies, lost, calls>>

\* ListAdminChats; without any row there is nothing to send.
List(d) ==
  /\ stage = "list" /\ d <= left
  /\ Spend(d)
  /\ chats' = table
  /\ todo' = {r \in Rows : table[r] # Absent}
  /\ stage' = IF todo' = {} THEN "done" ELSE "pick"
  /\ UNCHANGED <<table, changes, kind, row, attempt, pause, outcome, copies, lost, calls>>

\* A query fails, at any time up to the end of the context.
QueryFails ==
  /\ stage \in {"overview", "list"}
  /\ stage' = "done"
  /\ left' \in {left, 0}
  /\ UNCHANGED <<table, changes, kind, chats, todo, row, attempt, pause, outcome, copies, lost, calls>>

\* The loop passes over a row whose mode does not want the alert.  The query has
\* no ORDER BY, so the rows come in any order.
Skip(r) ==
  /\ stage = "pick" /\ r \in todo
  /\ ~Wants(chats[r].mode)
  /\ todo' = todo \ {r}
  /\ outcome' = [outcome EXCEPT ![r] = "skipped"]
  /\ UNCHANGED <<table, changes, kind, stage, left, chats, row, attempt, pause, copies, lost, calls>>

\* Mutation: once Telegram has asked for a pause, the remaining rows are given up.
TakeUnlessPaused(r) ==
  /\ stage = "pick" /\ r \in todo
  /\ Wants(chats[r].mode)
  /\ todo' = todo \ {r}
  /\ row' = r
  /\ attempt' = 0
  /\ pause' = pause
  /\ stage' = IF pause = 0 THEN "send" ELSE "pick"
  /\ outcome' = [outcome EXCEPT ![r] = IF pause = 0 THEN @ ELSE "failed"]
  /\ UNCHANGED <<table, changes, kind, left, chats, copies, lost, calls>>

\* Mutation: the row stays on the list until it is sent.
TakeAndKeep(r) ==
  /\ stage = "pick" /\ r \in todo
  /\ Wants(chats[r].mode)
  /\ row' = r
  /\ attempt' = 0
  /\ pause' = 0
  /\ stage' = "send"
  /\ UNCHANGED <<table, changes, kind, left, chats, todo, outcome, copies, lost, calls>>

Take(r) ==
  /\ stage = "pick" /\ r \in todo
  /\ Wants(chats[r].mode)
  /\ todo' = todo \ {r}
  /\ row' = r
  /\ attempt' = 0
  /\ pause' = 0
  /\ stage' = "send"
  /\ UNCHANGED <<table, changes, kind, left, chats, outcome, copies, lost, calls>>

Finish ==
  /\ stage = "pick" /\ todo = {}
  /\ stage' = "done"
  /\ UNCHANGED <<table, changes, kind, left, chats, todo, row, attempt, pause, outcome, copies, lost, calls>>

\* sendMessage returns for the row, with an error or without; the loop goes on.
Return(result) ==
  /\ outcome' = [outcome EXCEPT ![row] = result]
  /\ stage' = "pick"
  /\ UNCHANGED <<attempt, pause>>

\* Mutation: the counter is not looked at.
RetryWithoutEnd(wait) ==
  /\ attempt' = attempt + 1
  /\ pause' = wait
  /\ stage' = "wait"
  /\ UNCHANGED outcome

\* A transient error: wait and try again, or give the row up.
Retry(wait) ==
  \/ /\ attempt + 1 < Attempts
     /\ attempt' = attempt + 1
     /\ pause' = wait
     /\ stage' = "wait"
     /\ UNCHANGED outcome
  \/ /\ attempt + 1 = Attempts
     /\ Return("failed")

\* A request that reaches Telegram and takes d of the time left.
Call(d) ==
  /\ stage = "send" /\ left > 0 /\ d <= Deadline
  /\ Spend(d)
  /\ calls' = [calls EXCEPT ![row] = @ + 1]
  /\ UNCHANGED <<table, changes, kind, chats, todo, row>>

\* The chat the row names gets the message.
Deliver == copies' = [copies EXCEPT ![chats[row].chat] = @ + 1]

\* Mutation: the attempt's answer is not read.
AcceptedUnread(d) ==
  /\ Call(d)
  /\ Deliver
  /\ Retry((attempt + 1) * Backoff)
  /\ UNCHANGED lost

Accepted(d) ==
  /\ Call(d)
  /\ Deliver
  /\ Return("sent")
  /\ UNCHANGED lost

\* 400 or 403: the chat does not exist or has blocked the bot.
Refused(d) ==
  /\ Call(d)
  /\ Return("failed")
  /\ UNCHANGED <<copies, lost>>

\* 429: the next attempt waits as long as Telegram asks.
RateLimited(d) ==
  /\ Call(d)
  /\ \E ra \in RetryAfters : Retry(ra)
  /\ UNCHANGED <<copies, lost>>

\* An error of Telegram's or the network's; the message may have been taken.
Fails(d) ==
  /\ Call(d)
  /\ Retry((attempt + 1) * Backoff)
  /\ \/ UNCHANGED <<copies, lost>>
     \/ Deliver /\ lost' = [lost EXCEPT ![chats[row].chat] = @ + 1]

\* No answer within the attempt's deadline.
TimesOut == Fails(Deadline)

\* The context has ended: SendMessage fails before it reaches Telegram.
Expired ==
  /\ stage = "send" /\ left = 0
  /\ Retry((attempt + 1) * Backoff)
  /\ UNCHANGED <<table, changes, kind, left, chats, todo, row, copies, lost, calls>>

\* The pause before the next attempt is over before the context is.
Resume ==
  /\ stage = "wait" /\ pause <= left
  /\ Spend(pause)
  /\ stage' = "send"
  /\ UNCHANGED <<table, changes, kind, chats, todo, row, attempt, pause, outcome, copies, lost, calls>>

\* Mutation: the end of the context ends the broadcast.
CancelledForAll ==
  /\ stage = "wait" /\ left <= pause
  /\ left' = 0
  /\ outcome' = [outcome EXCEPT ![row] = "failed"]
  /\ stage' = "done"
  /\ UNCHANGED <<attempt, pause, table, changes, kind, chats, todo, row, copies, lost, calls>>

\* The context ends first: sendMessage returns its error.
Cancelled ==
  /\ stage = "wait" /\ left <= pause
  /\ left' = 0
  /\ Return("failed")
  /\ UNCHANGED <<table, changes, kind, chats, todo, row, copies, lost, calls>>

Deliveries ==
  \/ \E d \in Latencies : Accepted(d) \/ Refused(d) \/ RateLimited(d) \/ Fails(d)
  \/ TimesOut
  \/ Expired
  \/ Resume
  \/ Cancelled

Step ==
  \/ \E d \in Latencies : Overview(d) \/ List(d)
  \/ QueryFails
  \/ \E r \in Rows : Skip(r) \/ Take(r)
  \/ Finish
  \/ Deliveries

Change ==
  /\ stage # "done" /\ changes < MaxChanges
  /\ changes' = changes + 1

\* An admin picks a mode, or switches the digest, while the message is on its way:
\* every row of the chat is set.
SetMode(c, m) ==
  /\ Change
  /\ \E r \in Rows : table[r].chat = c
  /\ table' = [r \in Rows |-> IF table[r].chat = c THEN [table[r] EXCEPT !.mode = m] ELSE table[r]]
  /\ UNCHANGED <<kind, stage, left, chats, todo, row, attempt, pause, outcome, copies, lost, calls>>

\* An admin sends /start meanwhile: a new row wants everything, a known one keeps its mode.
Register(r, c) ==
  /\ Change
  /\ table' = [table EXCEPT ![r] =
                 [chat |-> c,
                  mode |-> IF @ # Absent THEN @.mode ELSE IF kind = "digest" THEN "on" ELSE "all"]]
  /\ UNCHANGED <<kind, stage, left, chats, todo, row, attempt, pause, outcome, copies, lost, calls>>

Settings ==
  \E c \in ChatIds : (\E m \in Modes : SetMode(c, m)) \/ (\E r \in Rows : Register(r, c))

Next == Step \/ Settings

Spec == Init /\ [][Next]_vars

\* The goroutine runs, and every call it makes ends with its context at the latest.
FairSpec == Spec /\ WF_vars(Step)
-----------------------------------------------------------------------------
TypeOK ==
  /\ kind \in Kinds
  /\ table \in [Rows -> Entry \cup {Absent}]
  /\ changes \in 0..MaxChanges
  /\ stage \in {"overview", "list", "pick", "wait", "send", "done"}
  /\ left \in 0..Budget
  /\ chats \in [Rows -> Entry \cup {Absent}]
  /\ todo \subseteq Listed
  /\ row \in Rows
  /\ attempt \in 0..(Attempts - 1)
  /\ pause \in Nat
  /\ outcome \in [Rows -> {"none", "skipped", "sent", "failed"}]
  /\ copies \in [ChatIds -> Nat]
  /\ lost \in [ChatIds -> Nat]
  /\ calls \in [Rows -> Nat]

\* The goroutine ends, whatever Telegram does.
Ends == <>(stage = "done")
=============================================================================
