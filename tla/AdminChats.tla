----------------------------- MODULE AdminChats -----------------------------
(***************************************************************************)
(* The table of admin chats and the bot's handlers that change it:         *)
(* handleStart and the settings routes of handleCallback                   *)
(* (internal/notifier/telegram.go, admin.go) over the telegram_admins      *)
(* queries of internal/repository/telegram_repo.go.                        *)
(*                                                                         *)
(* The bot library runs the handler of every update in a goroutine of its  *)
(* own, so two taps on a button interleave statement by statement.  A row  *)
(* is keyed by the username exactly as Telegram spells it, while admins    *)
(* are recognised in any spelling (isAdmin); several rows may name the     *)
(* same chat.  The list of admins is configuration: it changes only when   *)
(* the process is started again, and the table outlives it.                *)
(*                                                                         *)
(* Abstracted: what the handlers send back, except the toast that says     *)
(* which way the digest was switched; the other routes change no state.    *)
(***************************************************************************)
EXTENDS Naturals, Sequences

CONSTANTS
  Spellings,   \* usernames as Telegram reports them
  LowerCase,   \* LowerCase[n]: n in lower case
  Chats,       \* chat ids, private or group
  Taps,        \* the updates the bot ever receives
  Wanted,      \* what an update may ask for
  AdminLists,  \* the values TELEGRAM_ADMINS is given, in lower case
  MaxStarts    \* bound: how many times the process is started again

Modes == {"all", "new", "off"}

Request ==
  [op : {"start", "nm", "dg"}, name : Spellings, chat : Chats, mode : Modes \cup {"other"}]

ASSUME AdminChatsAssumption ==
  /\ Wanted \subseteq Request
  /\ "none" \notin Chats
  /\ MaxStarts \in Nat

VARIABLES
  admins,   \* n.admins of the running process
  rows,     \* the table telegram_admins
  pc,       \* where the handler of each update stands
  req,      \* the update it handles
  read,     \* dg: the digest flag it has read
  toast,    \* the answer to the callback
  starts,   \* how often the process was started again
  readAt,   \* observer: what a dg handler read - after how many switches, and which row
  switches, \* observer: per chat, the switches of its digest flag that took effect
  fresh,    \* observer: rows that came to their chat after its last mode choice
  unswitched  \* observer: rows that came to their chat after its last switch

vars == <<admins, rows, pc, req, read, toast, starts, readAt, switches, fresh, unswitched>>

NoRow == [chat |-> "none", mode |-> "none", digest |-> FALSE]

NoRequest == [op |-> "none"]

\* After which of the chat's switches a flag was read, and whether from a row that
\* came to the chat since.
Unread == [after |-> 0, newcomer |-> FALSE]

Row == [chat : Chats, mode : Modes, digest : BOOLEAN]

IsAdmin(name) == LowerCase[name] \in admins

\* The rows a statement with WHERE chat_id = c is about.
RowsFor(c) == {n \in Spellings : rows[n].chat = c}

Busy == {"upsert", "set", "get", "flip"}
-----------------------------------------------------------------------------
Init ==
  /\ admins \in AdminLists
  /\ rows = [n \in Spellings |-> NoRow]
  /\ pc = [t \in Taps |-> "idle"]
  /\ req = [t \in Taps |-> NoRequest]
  /\ read = [t \in Taps |-> FALSE]
  /\ toast = [t \in Taps |-> "none"]
  /\ starts = 0
  /\ readAt = [t \in Taps |-> Unread]
  /\ switches = [c \in Chats |-> <<>>]
  /\ fresh = {}
  /\ unswitched = {}

\* Mutation: the mode in the button's data is not checked.
ReceiveAnyMode(t, q) ==
  /\ pc[t] = "idle"
  /\ req' = [req EXCEPT ![t] = q]
  /\ pc' = [pc EXCEPT ![t] = IF ~IsAdmin(q.name) THEN "done"
                               ELSE CASE q.op = "start" -> "upsert"
                                      [] q.op = "nm"    -> "set"
                                      [] q.op = "dg"    -> "get"]
  /\ toast' = [toast EXCEPT ![t] = IF ~IsAdmin(q.name) /\ q.op # "start" THEN "refused" ELSE @]
  /\ UNCHANGED <<admins, rows, read, starts, readAt, switches, fresh, unswitched>>

\* A handler starts.  Visitors of the bot get its menu or a refusal, and change
\* nothing; an admin's update goes to its statement, unless its mode is unknown.
Receive(t, q) ==
  /\ pc[t] = "idle"
  /\ req' = [req EXCEPT ![t] = q]
  /\ pc' = [pc EXCEPT ![t] = IF ~IsAdmin(q.name) \/ (q.op = "nm" /\ q.mode \notin Modes)
                               THEN "done"
                               ELSE CASE q.op = "start" -> "upsert"
                                      [] q.op = "nm"    -> "set"
                                      [] q.op = "dg"    -> "get"]
  /\ toast' = [toast EXCEPT ![t] = IF ~IsAdmin(q.name) /\ q.op # "start" THEN "refused" ELSE @]
  /\ UNCHANGED <<admins, rows, read, starts, readAt, switches, fresh, unswitched>>

\* Mutation: the upsert writes a whole row.
UpsertedWhole(t) ==
  [rows EXCEPT ![req[t].name] = [chat |-> req[t].chat, mode |-> "all", digest |-> TRUE]]

\* UpsertAdminChat: a new row gets the column defaults, a known one its new chat.
Upserted(t) ==
  [rows EXCEPT ![req[t].name] =
     IF @ = NoRow THEN [chat |-> req[t].chat, mode |-> "all", digest |-> TRUE]
     ELSE [@ EXCEPT !.chat = req[t].chat]]

\* Mutation: only one of the chat's rows is updated.
ModeSetOnce(t) ==
  LET c == req[t].chat IN
  IF RowsFor(c) = {} THEN rows
  ELSE [rows EXCEPT ![CHOOSE n \in RowsFor(c) : TRUE].mode = req[t].mode]

\* SetNotifyMode: every row of the chat.
ModeSet(t) ==
  [n \in Spellings |-> IF n \in RowsFor(req[t].chat) THEN [rows[n] EXCEPT !.mode = req[t].mode]
                       ELSE rows[n]]

\* Mutation: only one of the chat's rows is updated.
DigestSetOnce(t) ==
  LET c == req[t].chat IN
  IF RowsFor(c) = {} THEN rows
  ELSE [rows EXCEPT ![CHOOSE n \in RowsFor(c) : TRUE].digest = ~read[t]]

\* SetDigest: every row of the chat, to the negation of what was read.
DigestSet(t) ==
  [n \in Spellings |-> IF n \in RowsFor(req[t].chat) THEN [rows[n] EXCEPT !.digest = ~read[t]]
                       ELSE rows[n]]

Switch(t) == [to |-> ~read[t], after |-> readAt[t].after, newcomer |-> readAt[t].newcomer]

\* The three writes, with what they mean to the observers.
Register(t) ==
  LET n == req[t].name
      came == IF rows[n].chat = req[t].chat THEN {} ELSE {n}
  IN
  /\ rows' = Upserted(t)
  /\ fresh' = fresh \cup came
  /\ unswitched' = unswitched \cup came
  /\ UNCHANGED switches

ChooseMode(t) ==
  /\ rows' = ModeSet(t)
  /\ fresh' = fresh \ RowsFor(req[t].chat)
  /\ UNCHANGED <<switches, unswitched>>

SwitchDigest(t) ==
  /\ rows' = DigestSet(t)
  /\ switches' = [switches EXCEPT ![req[t].chat] = Append(@, Switch(t))]
  /\ unswitched' = unswitched \ RowsFor(req[t].chat)
  /\ UNCHANGED fresh

Upsert(t) ==
  /\ pc[t] = "upsert"
  /\ Register(t)
  /\ pc' = [pc EXCEPT ![t] = "done"]
  /\ UNCHANGED <<admins, req, read, toast, starts, readAt>>

SetMode(t) ==
  /\ pc[t] = "set"
  /\ ChooseMode(t)
  /\ toast' = [toast EXCEPT ![t] = "mode set"]
  /\ pc' = [pc EXCEPT ![t] = "done"]
  /\ UNCHANGED <<admins, req, read, starts, readAt>>

\* GetAdminChat: some row of the chat, whichever LIMIT 1 returns.
GetChat(t) ==
  LET c == req[t].chat IN
  /\ pc[t] = "get"
  /\ \E n \in RowsFor(c) :
       /\ read' = [read EXCEPT ![t] = rows[n].digest]
       /\ readAt' = [readAt EXCEPT ![t] = [after |-> Len(switches[c]), newcomer |-> n \in unswitched]]
  /\ pc' = [pc EXCEPT ![t] = "flip"]
  /\ UNCHANGED <<admins, rows, req, toast, starts, switches, fresh, unswitched>>

\* The chat has no row, or the query fails: the same answer.
GetNothing(t) ==
  /\ pc[t] = "get"
  /\ toast' = [toast EXCEPT ![t] = "send /start first"]
  /\ pc' = [pc EXCEPT ![t] = "done"]
  /\ UNCHANGED <<admins, rows, req, read, starts, readAt, switches, fresh, unswitched>>

Flip(t) ==
  /\ pc[t] = "flip"
  /\ SwitchDigest(t)
  /\ toast' = [toast EXCEPT ![t] = IF read[t] THEN "digest off" ELSE "digest on"]
  /\ pc' = [pc EXCEPT ![t] = "done"]
  /\ UNCHANGED <<admins, req, read, starts, readAt>>

\* The statement returns an error, which only a callback is told.  It may have
\* taken effect all the same.
WriteFails(t) ==
  /\ \/ pc[t] \in {"upsert", "set", "flip"} /\ UNCHANGED <<rows, switches, fresh, unswitched>>
     \/ pc[t] = "upsert" /\ Register(t)
     \/ pc[t] = "set" /\ ChooseMode(t)
     \/ pc[t] = "flip" /\ SwitchDigest(t)
  /\ toast' = [toast EXCEPT ![t] = IF pc[t] = "upsert" THEN @ ELSE "couldn't save"]
  /\ pc' = [pc EXCEPT ![t] = "done"]
  /\ UNCHANGED <<admins, req, read, starts, readAt>>

\* The process is started again, perhaps with another list of admins.
Start(list) ==
  /\ starts < MaxStarts
  /\ starts' = starts + 1
  /\ admins' = list
  /\ pc' = [t \in Taps |-> IF pc[t] \in Busy THEN "killed" ELSE pc[t]]
  /\ UNCHANGED <<rows, req, read, toast, readAt, switches, fresh, unswitched>>

Handle(t) ==
  \/ Upsert(t) \/ SetMode(t) \/ GetChat(t) \/ GetNothing(t) \/ Flip(t)
  \/ WriteFails(t)

Next ==
  \/ \E t \in Taps, q \in Wanted : Receive(t, q)
  \/ \E t \in Taps : Handle(t)
  \/ \E list \in AdminLists : Start(list)

Spec == Init /\ [][Next]_vars
-----------------------------------------------------------------------------
TypeOK ==
  /\ admins \in AdminLists
  /\ rows \in [Spellings -> Row \cup {NoRow}]
  /\ pc \in [Taps -> {"idle", "done", "killed"} \cup Busy]
  /\ req \in [Taps -> Wanted \cup {NoRequest}]
  /\ read \in [Taps -> BOOLEAN]
  /\ toast \in [Taps -> {"none", "refused", "mode set", "send /start first", "digest on",
                         "digest off", "couldn't save"}]
  /\ starts \in 0..MaxStarts
  /\ readAt \in [Taps -> [after : Nat, newcomer : BOOLEAN]]
  /\ switches \in [Chats -> Seq([to : BOOLEAN, after : Nat, newcomer : BOOLEAN])]
  /\ fresh \subseteq Spellings
  /\ unswitched \subseteq Spellings

\* Sending /start again, from whichever chat, keeps the mode and the digest flag
\* an admin has chosen, and no update touches the row of another chat's admin.
PreferencesKept ==
  [][\A n \in Spellings : rows[n] # NoRow =>
       /\ rows'[n] # NoRow
       /\ (rows'[n].mode # rows[n].mode \/ rows'[n].digest # rows[n].digest)
            => \E t \in Taps : pc[t] \in {"set", "flip"} /\ req[t].chat = rows[n].chat]_vars

\* The rows of one chat want the same alerts, but for those that were registered
\* in it, or moved to it, after its mode was last chosen: an admin who turns the
\* alerts off is not sent them through a second row.
RowsOfChatAgree ==
  \A n, m \in Spellings \ fresh :
    (rows[n] # NoRow /\ rows[n].chat = rows[m].chat) => rows[n].mode = rows[m].mode

\* Taps on the digest button alternate, however they interleave.  Every switch of a
\* chat's digest is to the opposite of the switch its handler read the result of, so
\* a tap says what the one before it said only if that one came between its read and
\* its write, or if it read a row that came to the chat in between.  And what the last
\* switch said is what every row of the chat holds that was there at the time.
TapsAlternate ==
  \A c \in Chats :
    /\ \A i \in DOMAIN switches[c] :
         LET s == switches[c][i] IN
         /\ s.after < i
         /\ s.after > 0 /\ ~s.newcomer => s.to # switches[c][s.after].to
    /\ switches[c] # <<>> =>
         \A n \in RowsFor(c) \ unswitched : rows[n].digest = switches[c][Len(switches[c])].to
-----------------------------------------------------------------------------
\* "Telegram usernames that get alerts and the admin panel" (.env.example:49): the
\* rows a broadcast or the digest goes to are those of the usernames configured.
OnlyConfiguredAdmins ==
  \A n \in Spellings : rows[n] # NoRow => IsAdmin(n)
=============================================================================
