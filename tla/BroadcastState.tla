--------------------------- MODULE BroadcastState ---------------------------
(***************************************************************************)
(* What the goroutine of a broadcast keeps while it sends one message to   *)
(* the admins (TelegramNotifier.broadcast and sendMessage in               *)
(* internal/notifier/telegram.go, sendDigest in admin.go), and what must   *)
(* hold of it whatever comes back.  Its steps are the module Broadcast.    *)
(***************************************************************************)
EXTENDS Naturals, FiniteSets

CONSTANTS
  Rows,      \* keys of the telegram_admins table: usernames as Telegram spells them
  ChatIds,   \* the chats the rows name; several rows may name one
  Attempts   \* sendAttempts

ASSUME RowsAssumption == IsFiniteSet(Rows)

VARIABLES
  table,     \* per row, its chat and the column that counts: notify_mode, or digest
  changes,   \* how often the admins have changed it meanwhile
  kind,      \* what is sent
  stage,     \* where the goroutine stands
  left,      \* seconds until its context ends
  chats,     \* the rows ListAdminChats returned
  todo,      \* those of them the loop has not come to
  row,       \* the row the loop is at
  attempt,   \* attempts made for it
  pause,     \* the wait the last error asks for
  outcome,   \* per row: what the loop made of it
  copies,    \* observer: per chat, the messages Telegram has taken for it
  lost,      \* observer: those of them whose answer was lost
  calls      \* observer: per row, the requests for it that reached Telegram

Absent == [chat |-> "none", mode |-> "absent"]

Listed == {r \in Rows : chats[r] # Absent}

\* The rows of a chat that the message goes to, each on its own.
Naming(c) == {r \in Listed : chats[r].chat = c}

\* want of NotifyVisit, NotifyLead and notifyBotUser; the digest flag of sendDigest.
Wants(mode) ==
  \/ mode = "on"
  \/ kind \in {"lead", "bot_user"} /\ mode # "off"
  \/ mode = "all"
  \/ mode = "new" /\ kind = "new"
-----------------------------------------------------------------------------
\* The messages a chat has got are those the code believes it sent, one for each of
\* the chat's rows, and those whose answer was lost: an admin sees an alert twice only
\* because an answer was lost or because two spellings of the name were registered in
\* the chat, and the log says "failed" for one who got it only for the first reason.
\* However errors and lost answers follow each other, a row that wants the message
\* costs at most sendAttempts requests, and its chat gets no more copies than that.
CopiesExplained ==
  /\ \A c \in ChatIds :
       /\ copies[c] = lost[c] + Cardinality({r \in Naming(c) : outcome[r] = "sent"})
       /\ copies[c] <= Attempts * Cardinality({r \in Naming(c) : Wants(chats[r].mode)})
  /\ \A r \in Rows : calls[r] <= Attempts

\* A failed, refused or rate-limited chat does not end the loop: in the end every
\* listed row is sent to, given up, or skipped for its setting and only for that.
\* One that is given up without a single request was come to after the time all the
\* chats share was used up.
EveryRowHandled ==
  /\ stage = "done" => \A r \in Listed :
       outcome[r] # "none" /\ (outcome[r] = "skipped" <=> ~Wants(chats[r].mode))
  /\ \A r \in Rows : (outcome[r] = "failed" /\ calls[r] = 0) => left = 0
=============================================================================
