--------------------------- MODULE NotifierProofs ---------------------------
(***************************************************************************)
(* Proofs about the notifier's two ends of the table of admins.            *)
(*                                                                         *)
(* AdminChats writes it: for any spellings, chats, updates and lists of    *)
(* admins.  A handler that is about to write knows what for, and the rows  *)
(* of a chat agree.                                                        *)
(*                                                                         *)
(* Broadcast sends to its rows, and is the instance B here, with the state *)
(* of BroadcastState: for any table, any budgets, any number of attempts   *)
(* and any latencies its assumption allows.  The invariant Accounts says   *)
(* what the place the loop has come to means for the rows: those ahead of  *)
(* it are untouched, the one it is at has had at most one request per      *)
(* attempt, and those behind it have an outcome that fits their setting.   *)
(***************************************************************************)
EXTENDS AdminChats, BroadcastState, FiniteSetTheorems, TLAPS

CONSTANTS Kinds, AlertBudget, DigestBudget, AttemptBudget, Backoff, Latencies, RetryAfters,
          MaxChanges

B == INSTANCE Broadcast
-----------------------------------------------------------------------------
\* A handler that has a statement to make knows what for.
Asked ==
  \A t \in Taps : /\ pc[t] \in Busy => req[t] \in Wanted
                  /\ pc[t] = "set" => req[t].mode \in Modes

\* A handler about to switch has read what a switch of the chat left, or a newcomer.
Readers ==
  \A t \in Taps : pc[t] = "flip" =>
    LET c == req[t].chat  a == readAt[t].after IN
    /\ a <= Len(switches[c])
    /\ a > 0 /\ ~readAt[t].newcomer => (read[t] <=> switches[c][a].to)

ChatsInv == TypeOK /\ Asked /\ RowsOfChatAgree /\ Readers /\ TapsAlternate
-----------------------------------------------------------------------------
LEMMA ChatsInit == Init => ChatsInv
<1> SUFFICES ASSUME Init PROVE ChatsInv
  OBVIOUS
<1>1. TypeOK /\ Asked /\ RowsOfChatAgree /\ Readers
  BY AdminChatsAssumption
  DEF Init, TypeOK, Asked, RowsOfChatAgree, Readers, Busy, NoRow, Unread
<1>2. TapsAlternate
  BY DEF Init, TapsAlternate
<1>3. QED
  BY <1>1, <1>2 DEF ChatsInv

LEMMA AskedOf ==
  ASSUME TypeOK, Asked, NEW t \in Taps, pc[t] \in Busy
  PROVE  req[t].name \in Spellings /\ req[t].chat \in Chats
  BY AdminChatsAssumption DEF Asked, Request

\* What each of the writes does to a row.
LEMMA RowWritten ==
  ASSUME TypeOK, Asked, NEW t \in Taps, pc[t] \in Busy
  PROVE  /\ Upserted(t) \in [Spellings -> Row \cup {NoRow}]
         /\ \A n \in Spellings :
              /\ n # req[t].name => Upserted(t)[n] = rows[n]
              /\ Upserted(t)[n] = NoRow => rows[n] = NoRow
              /\ rows[n] # NoRow => /\ Upserted(t)[n].mode = rows[n].mode
                                    /\ Upserted(t)[n].digest = rows[n].digest
         /\ Upserted(t)[req[t].name].chat = req[t].chat
<1>1. req[t].name \in Spellings /\ req[t].chat \in Chats
  BY AskedOf
<1>2. rows \in [Spellings -> Row \cup {NoRow}]
  BY DEF TypeOK
<1> DEFINE n == req[t].name
           new == IF rows[n] = NoRow THEN [chat |-> req[t].chat, mode |-> "all", digest |-> TRUE]
                  ELSE [rows[n] EXCEPT !.chat = req[t].chat]
<1>3. Upserted(t) = [rows EXCEPT ![n] = new]
  BY DEF Upserted
<1>4. /\ new \in Row /\ new.chat = req[t].chat
      /\ rows[n] # NoRow => new.mode = rows[n].mode /\ new.digest = rows[n].digest
  BY <1>1, <1>2 DEF Row, Modes
<1>5. new # NoRow
  BY <1>1, <1>4, AdminChatsAssumption DEF NoRow
<1> HIDE DEF new
<1>6. QED
  BY <1>1, <1>2, <1>3, <1>4, <1>5

LEMMA RowsSet ==
  ASSUME TypeOK, Asked, NEW t \in Taps, pc[t] \in Busy
  PROVE  /\ \A n \in RowsFor(req[t].chat) : rows[n] \in Row
         /\ pc[t] = "set" =>
              /\ ModeSet(t) \in [Spellings -> Row \cup {NoRow}]
              /\ \A n \in Spellings :
                   /\ n \notin RowsFor(req[t].chat) => ModeSet(t)[n] = rows[n]
                   /\ n \in RowsFor(req[t].chat) =>
                        ModeSet(t)[n] \in Row /\ ModeSet(t)[n].mode = req[t].mode
                   /\ ModeSet(t)[n].chat = rows[n].chat
         /\ /\ DigestSet(t) \in [Spellings -> Row \cup {NoRow}]
            /\ \A n \in Spellings :
                 /\ n \notin RowsFor(req[t].chat) => DigestSet(t)[n] = rows[n]
                 /\ n \in RowsFor(req[t].chat) =>
                      DigestSet(t)[n] \in Row /\ (DigestSet(t)[n].digest <=> ~read[t])
                 /\ DigestSet(t)[n].chat = rows[n].chat /\ DigestSet(t)[n].mode = rows[n].mode
<1>1. req[t].chat \in Chats /\ rows \in [Spellings -> Row \cup {NoRow}] /\ read[t] \in BOOLEAN
  BY AskedOf DEF TypeOK
<1>2. \A n \in RowsFor(req[t].chat) : rows[n] \in Row /\ n \in Spellings
  BY <1>1, AdminChatsAssumption DEF RowsFor, NoRow
<1>3. ASSUME pc[t] = "set", NEW n \in RowsFor(req[t].chat)
      PROVE  /\ [rows[n] EXCEPT !.mode = req[t].mode] \in Row
             /\ [rows[n] EXCEPT !.mode = req[t].mode].mode = req[t].mode
             /\ [rows[n] EXCEPT !.mode = req[t].mode].chat = rows[n].chat
  BY <1>2, <1>3 DEF Row, Asked
<1>4. ASSUME NEW n \in RowsFor(req[t].chat)
      PROVE  /\ [rows[n] EXCEPT !.digest = ~read[t]] \in Row
             /\ [rows[n] EXCEPT !.digest = ~read[t]].digest = ~read[t]
             /\ [rows[n] EXCEPT !.digest = ~read[t]].mode = rows[n].mode
             /\ [rows[n] EXCEPT !.digest = ~read[t]].chat = rows[n].chat
  BY <1>1, <1>2 DEF Row
<1>5. QED
  BY <1>1, <1>2, <1>3, <1>4 DEF ModeSet, DigestSet
-----------------------------------------------------------------------------
\* Every write, whether its handler learns of it or not.
RowsStep(t) ==
  \/ pc[t] \in {"upsert", "set", "flip"} /\ UNCHANGED <<rows, switches, fresh, unswitched>>
  \/ pc[t] = "upsert" /\ Register(t)
  \/ pc[t] = "set" /\ ChooseMode(t)
  \/ pc[t] = "flip" /\ SwitchDigest(t)

Toasts ==
  {"none", "refused", "mode set", "send /start first", "digest on", "digest off",
   "couldn't save"}

LEMMA EachWrite ==
  ASSUME NEW t \in Taps, Upsert(t) \/ SetMode(t) \/ Flip(t) \/ WriteFails(t)
  PROVE  /\ RowsStep(t) /\ pc[t] \in Busy /\ pc' = [pc EXCEPT ![t] = "done"]
         /\ UNCHANGED <<admins, req, read, starts, readAt>>
  BY DEF Upsert, SetMode, Flip, WriteFails, RowsStep, Busy

LEMMA ToastTyped ==
  ASSUME TypeOK, NEW t \in Taps, Upsert(t) \/ SetMode(t) \/ Flip(t) \/ WriteFails(t)
  PROVE  toast' \in [Taps -> Toasts]
<1>1. toast \in [Taps -> Toasts]
  BY DEF TypeOK, Toasts
<1>2. CASE Upsert(t)
  BY <1>1, <1>2 DEF Upsert
<1>3. CASE SetMode(t)
  BY <1>1, <1>3 DEF SetMode, Toasts
<1>4. CASE Flip(t)
  BY <1>1, <1>4 DEF Flip, Toasts
<1>5. CASE WriteFails(t)
  BY <1>1, <1>5 DEF WriteFails, Toasts
<1>6. QED
  BY <1>2, <1>3, <1>4, <1>5

SwitchMade == [to : BOOLEAN, after : Nat, newcomer : BOOLEAN]

LEMMA SwitchesTyped ==
  ASSUME TypeOK, NEW c \in Chats
  PROVE  /\ switches[c] \in Seq(SwitchMade) /\ Len(switches[c]) \in Nat
         /\ DOMAIN switches[c] = 1..Len(switches[c])
<1>1. switches \in [Chats -> Seq(SwitchMade)]
  BY DEF TypeOK, SwitchMade
<1>2. switches[c] \in Seq(SwitchMade)
  BY <1>1
<1>3. QED
  BY <1>2

LEMMA SwitchTyped ==
  ASSUME TypeOK, NEW t \in Taps
  PROVE  Switch(t) \in SwitchMade
<1>1. read[t] \in BOOLEAN /\ readAt[t] \in [after : Nat, newcomer : BOOLEAN]
  BY DEF TypeOK
<1>2. QED
  BY <1>1 DEF Switch, SwitchMade

\* A switch is recorded behind those of its chat.
LEMMA SwitchWritten ==
  ASSUME TypeOK, NEW t \in Taps, req[t].chat \in Chats, SwitchDigest(t)
  PROVE  /\ switches' \in [Chats -> Seq(SwitchMade)]
         /\ \A c \in Chats : c # req[t].chat => switches'[c] = switches[c]
         /\ switches'[req[t].chat] = Append(switches[req[t].chat], Switch(t))
<1>1. switches \in [Chats -> Seq(SwitchMade)]
  BY DEF TypeOK, SwitchMade
<1>2. Switch(t) \in SwitchMade
  BY SwitchTyped
<1> DEFINE longer == Append(switches[req[t].chat], Switch(t))
<1>3. longer \in Seq(SwitchMade)
  BY <1>1, <1>2
<1>4. switches' = [switches EXCEPT ![req[t].chat] = longer]
  BY DEF SwitchDigest
<1> HIDE DEF longer
<1>5. /\ switches' \in [Chats -> Seq(SwitchMade)]
      /\ \A c \in Chats : c # req[t].chat => switches'[c] = switches[c]
      /\ switches'[req[t].chat] = longer
  BY <1>1, <1>3, <1>4
<1>6. QED
  BY <1>5 DEF longer

LEMMA WriteTyped ==
  ASSUME TypeOK, Asked, NEW t \in Taps, pc[t] \in Busy, RowsStep(t)
  PROVE  /\ rows' \in [Spellings -> Row \cup {NoRow}] /\ switches' \in [Chats -> Seq(SwitchMade)]
         /\ fresh' \subseteq Spellings /\ unswitched' \subseteq Spellings
<1>1. req[t].name \in Spellings /\ req[t].chat \in Chats
  BY AskedOf
<1>2. CASE pc[t] = "upsert" /\ Register(t)
  <2>1. /\ rows' = Upserted(t) /\ switches' = switches
        /\ fresh' \subseteq fresh \cup {req[t].name}
        /\ unswitched' \subseteq unswitched \cup {req[t].name}
    BY <1>2 DEF Register
  <2>2. QED
    BY <1>1, <2>1, RowWritten DEF TypeOK, SwitchMade
<1>3. CASE pc[t] = "set" /\ ChooseMode(t)
  BY <1>3, RowsSet DEF ChooseMode, TypeOK, SwitchMade
<1>4. CASE pc[t] = "flip" /\ SwitchDigest(t)
  <2>1. rows' = DigestSet(t) /\ fresh' = fresh /\ unswitched' \subseteq unswitched
    BY <1>4 DEF SwitchDigest
  <2>2. switches' \in [Chats -> Seq(SwitchMade)]
    BY <1>1, <1>4, SwitchWritten
  <2>3. QED
    BY <2>1, <2>2, RowsSet DEF TypeOK
<1>5. CASE UNCHANGED <<rows, switches, fresh, unswitched>>
  BY <1>5 DEF TypeOK, SwitchMade
<1>6. QED
  BY <1>2, <1>3, <1>4, <1>5 DEF RowsStep

LEMMA ChatsTypeStep == TypeOK /\ Asked /\ [Next]_vars => TypeOK' /\ Asked'
<1> SUFFICES ASSUME TypeOK, Asked, [Next]_vars PROVE TypeOK' /\ Asked'
  OBVIOUS
<1>1. ASSUME NEW t \in Taps, NEW q \in Wanted, Receive(t, q) PROVE TypeOK' /\ Asked'
  <2>1. q.op \in {"start", "nm", "dg"}
    BY AdminChatsAssumption DEF Request
  <2>2. \E w \in {"done", "upsert", "set", "get"} :
          pc' = [pc EXCEPT ![t] = w] /\ (w = "set" => q.mode \in Modes)
    BY <1>1, <2>1 DEF Receive
  <2>3. req' = [req EXCEPT ![t] = q]
    BY <1>1 DEF Receive
  <2>4. toast' \in [Taps -> Toasts]
    BY <1>1 DEF Receive, TypeOK, Toasts
  <2>5. UNCHANGED <<admins, rows, read, starts, readAt, switches, fresh, unswitched>>
    BY <1>1 DEF Receive
  <2>6. TypeOK'
    BY <2>2, <2>3, <2>4, <2>5 DEF TypeOK, Toasts, Busy
  <2>7. Asked'
    BY <2>2, <2>3 DEF Asked, TypeOK
  <2>8. QED
    BY <2>6, <2>7
<1>2. ASSUME NEW t \in Taps, Upsert(t) \/ SetMode(t) \/ Flip(t) \/ WriteFails(t)
      PROVE  TypeOK' /\ Asked'
  <2>1. /\ RowsStep(t) /\ pc[t] \in Busy /\ pc' = [pc EXCEPT ![t] = "done"]
        /\ UNCHANGED <<admins, req, read, starts, readAt>>
    BY <1>2, EachWrite
  <2>2. TypeOK'
    BY <1>2, <2>1, WriteTyped, ToastTyped DEF TypeOK, Toasts, SwitchMade
  <2>3. Asked'
    BY <2>1 DEF Asked, Busy, TypeOK
  <2>4. QED
    BY <2>2, <2>3
<1>3. ASSUME NEW t \in Taps, GetChat(t) PROVE TypeOK' /\ Asked'
  <2>1. pc[t] = "get" /\ req[t].chat \in Chats
    BY <1>3, AskedOf DEF GetChat, Busy
  <2>2. PICK n \in RowsFor(req[t].chat) :
          /\ read' = [read EXCEPT ![t] = rows[n].digest]
          /\ readAt' = [readAt EXCEPT ![t] = [after |-> Len(switches[req[t].chat]),
                                              newcomer |-> n \in unswitched]]
    BY <1>3 DEF GetChat
  <2>3. rows[n].digest \in BOOLEAN
    BY <2>1, <2>2, RowsSet DEF Row, Busy
  <2>4. readAt' \in [Taps -> [after : Nat, newcomer : BOOLEAN]]
    <3>1. Len(switches[req[t].chat]) \in Nat /\ (n \in unswitched) \in BOOLEAN
      BY <2>1, SwitchesTyped
    <3>2. QED
      BY <2>2, <3>1 DEF TypeOK
  <2>5. TypeOK'
    BY <1>3, <2>2, <2>3, <2>4 DEF GetChat, TypeOK, Busy
  <2>6. Asked'
    BY <1>3 DEF GetChat, Asked, Busy, TypeOK
  <2>7. QED
    BY <2>5, <2>6
<1>4. ASSUME NEW t \in Taps, GetNothing(t) PROVE TypeOK' /\ Asked'
  BY <1>4 DEF GetNothing, TypeOK, Asked, Busy
<1>5. ASSUME NEW list \in AdminLists, Start(list) PROVE TypeOK' /\ Asked'
  <2>1. starts' \in 0 .. MaxStarts
    <3>1. starts \in 0 .. MaxStarts /\ MaxStarts \in Nat
      BY AdminChatsAssumption DEF TypeOK
    <3>2. QED
      BY <1>5, <3>1 DEF Start
  <2>2. QED
    BY <1>5, <2>1 DEF Start, TypeOK, Asked, Busy
<1>6. CASE UNCHANGED vars
  BY <1>6 DEF vars, TypeOK, Asked
<1>7. QED
  BY <1>1, <1>2, <1>3, <1>4, <1>5, <1>6 DEF Next, Handle
-----------------------------------------------------------------------------
\* Whatever step is taken, the rows stay as they are or are written by one handler.
LEMMA RowsWritten ==
  ASSUME [Next]_vars
  PROVE  \/ UNCHANGED <<rows, switches, fresh, unswitched>>
         \/ \E t \in Taps : pc[t] \in Busy /\ RowsStep(t)
  BY EachWrite DEF Next, Handle, Receive, GetChat, GetNothing, Start, vars

\* Rows of one chat agree: a mode is written to all of them, and a row that comes to the
\* chat is fresh.
LEMMA AgreeStep == TypeOK /\ Asked /\ RowsOfChatAgree /\ [Next]_vars => RowsOfChatAgree'
<1> SUFFICES ASSUME TypeOK, Asked, RowsOfChatAgree, [Next]_vars PROVE RowsOfChatAgree'
  OBVIOUS
<1>1. CASE UNCHANGED <<rows, switches, fresh, unswitched>>
  BY <1>1 DEF RowsOfChatAgree
<1>2. ASSUME NEW t \in Taps, pc[t] \in Busy, RowsStep(t) PROVE RowsOfChatAgree'
  <2>1. CASE pc[t] = "upsert" /\ Register(t)
    <3>1. /\ rows' = Upserted(t)
          /\ fresh' = IF rows[req[t].name].chat = req[t].chat THEN fresh
                      ELSE fresh \cup {req[t].name}
      BY <2>1 DEF Register
    <3>2. rows[req[t].name].chat = req[t].chat => rows[req[t].name] # NoRow
      BY <1>2, AskedOf, AdminChatsAssumption DEF NoRow
    <3>3. \A n \in Spellings \ fresh' :
            /\ n \notin fresh /\ rows'[n].chat = rows[n].chat
            /\ rows'[n] # NoRow /\ rows[n] = NoRow => FALSE
            /\ rows[n] # NoRow => rows'[n].mode = rows[n].mode
            /\ rows[n] = NoRow => rows'[n] = NoRow
      BY <1>2, <3>1, <3>2, RowWritten
    <3>4. \A n \in Spellings : rows[n] # NoRow => rows[n].chat # "none"
      <4>1. rows \in [Spellings -> Row \cup {NoRow}]
        BY DEF TypeOK
      <4>2. QED
        BY <4>1, AdminChatsAssumption DEF Row
    <3>5. QED
      BY <3>3, <3>4 DEF RowsOfChatAgree, NoRow
  <2>2. CASE pc[t] = "set" /\ ChooseMode(t)
    <3>1. rows' = ModeSet(t) /\ fresh' = fresh \ RowsFor(req[t].chat)
      BY <2>2 DEF ChooseMode
    <3>2. \A n \in Spellings : n \in RowsFor(req[t].chat) <=> rows[n].chat = req[t].chat
      BY DEF RowsFor
    <3>3. req[t].chat # "none"
      BY <1>2, AskedOf, AdminChatsAssumption
    <3>4. QED
      BY <1>2, <2>2, <3>1, <3>2, <3>3, RowsSet DEF RowsOfChatAgree, NoRow
  <2>3. CASE pc[t] = "flip" /\ SwitchDigest(t)
    <3>1. rows' = DigestSet(t) /\ fresh' = fresh
      BY <2>3 DEF SwitchDigest
    <3>2. \A n \in Spellings : /\ rows'[n].chat = rows[n].chat /\ rows'[n].mode = rows[n].mode
                               /\ rows[n] = NoRow => rows'[n] = NoRow
      BY <1>2, <3>1, RowsSet, AskedOf, AdminChatsAssumption DEF RowsFor, NoRow
    <3>3. QED
      BY <3>1, <3>2 DEF RowsOfChatAgree
  <2>4. QED
    BY <1>1, <1>2, <2>1, <2>2, <2>3 DEF RowsStep
<1>3. QED
  BY <1>1, <1>2, RowsWritten

\* A step that changes what an admin chose is a handler's that was asked to.
LEMMA KeptStep ==
  TypeOK /\ Asked /\ [Next]_vars =>
    \A n \in Spellings : rows[n] # NoRow =>
      /\ rows'[n] # NoRow
      /\ (rows'[n].mode # rows[n].mode \/ rows'[n].digest # rows[n].digest)
           => \E t \in Taps : pc[t] \in {"set", "flip"} /\ req[t].chat = rows[n].chat
<1> SUFFICES ASSUME TypeOK, Asked, [Next]_vars, NEW n \in Spellings, rows[n] # NoRow
             PROVE  /\ rows'[n] # NoRow
                    /\ (rows'[n].mode # rows[n].mode \/ rows'[n].digest # rows[n].digest)
                         => \E t \in Taps : pc[t] \in {"set", "flip"} /\ req[t].chat = rows[n].chat
  OBVIOUS
<1>1. ASSUME NEW t \in Taps, pc[t] \in Busy, RowsStep(t)
      PROVE  /\ rows'[n] # NoRow
             /\ (rows'[n].mode # rows[n].mode \/ rows'[n].digest # rows[n].digest)
                  => pc[t] \in {"set", "flip"} /\ req[t].chat = rows[n].chat
  <2>1. NoRow \notin Row
    BY AdminChatsAssumption DEF Row, NoRow
  <2>2. CASE pc[t] = "upsert" /\ Register(t)
    BY <1>1, <2>2, RowWritten DEF Register
  <2>3. CASE pc[t] = "set" /\ ChooseMode(t)
    BY <1>1, <2>1, <2>3, RowsSet DEF ChooseMode, RowsFor
  <2>4. CASE pc[t] = "flip" /\ SwitchDigest(t)
    BY <1>1, <2>1, <2>4, RowsSet DEF SwitchDigest, RowsFor
  <2>5. QED
    BY <1>1, <2>2, <2>3, <2>4 DEF RowsStep
<1>2. QED
  BY <1>1, RowsWritten

\* A handler's write changes the flags of its chat only with a switch.
LEMMA SwitchesWritten ==
  ASSUME TypeOK, Asked, NEW t \in Taps, pc[t] \in Busy, RowsStep(t)
  PROVE  \A c \in Chats :
           /\ Len(switches[c]) <= Len(switches'[c])
           /\ \A i \in 1..Len(switches[c]) : switches'[c][i] = switches[c][i]
<1>1. req[t].chat \in Chats /\ switches \in [Chats -> Seq(SwitchMade)]
  BY AskedOf DEF TypeOK, SwitchMade
<1>2. CASE SwitchDigest(t)
  <2>1. ASSUME NEW c \in Chats
        PROVE  /\ Len(switches[c]) <= Len(switches'[c])
               /\ \A i \in 1..Len(switches[c]) : switches'[c][i] = switches[c][i]
    <3>1. CASE c = req[t].chat
      BY <1>1, <1>2, <3>1, SwitchWritten, SwitchTyped
    <3>2. CASE c # req[t].chat
      BY <1>1, <1>2, <3>2, SwitchWritten
    <3>3. QED
      BY <3>1, <3>2
  <2>2. QED
    BY <2>1
<1>3. CASE ~SwitchDigest(t)
  BY <1>1, <1>3 DEF RowsStep, Register, ChooseMode
<1>4. QED
  BY <1>2, <1>3

LEMMA ModeOnly ==
  ASSUME TypeOK, Asked, NEW t \in Taps, pc[t] \in Busy, pc[t] = "set", NEW n \in Spellings
  PROVE  ModeSet(t)[n].chat = rows[n].chat /\ ModeSet(t)[n].digest = rows[n].digest
<1>1. n \in RowsFor(req[t].chat) =>
        /\ rows[n] \in Row
        /\ ModeSet(t)[n] = [rows[n] EXCEPT !.mode = req[t].mode]
  BY RowsSet DEF ModeSet
<1>2. n \notin RowsFor(req[t].chat) => ModeSet(t)[n] = rows[n]
  BY DEF ModeSet
<1>3. QED
  BY <1>1, <1>2 DEF Row

LEMMA ReadersStep == TypeOK /\ Asked /\ Readers /\ TapsAlternate /\ [Next]_vars => Readers'
<1> SUFFICES ASSUME TypeOK, Asked, Readers, TapsAlternate, [Next]_vars PROVE Readers'
  OBVIOUS
<1>1. ASSUME NEW t \in Taps, Upsert(t) \/ SetMode(t) \/ Flip(t) \/ WriteFails(t)
      PROVE  Readers'
  <2>1. /\ RowsStep(t) /\ pc[t] \in Busy /\ pc' = [pc EXCEPT ![t] = "done"]
        /\ UNCHANGED <<admins, req, read, starts, readAt>>
    BY <1>1, EachWrite
  <2> SUFFICES ASSUME NEW u \in Taps, pc'[u] = "flip"
               PROVE  LET c == req[u].chat  a == readAt[u].after IN
                      /\ a <= Len(switches'[c])
                      /\ a > 0 /\ ~readAt[u].newcomer => (read[u] <=> switches'[c][a].to)
    BY <2>1 DEF Readers
  <2>2. pc[u] = "flip" /\ req[u].chat \in Chats /\ readAt[u].after \in Nat
    BY <2>1, AskedOf DEF TypeOK, Busy
  <2>3. /\ readAt[u].after <= Len(switches[req[u].chat])
        /\ readAt[u].after > 0 /\ ~readAt[u].newcomer
             => (read[u] <=> switches[req[u].chat][readAt[u].after].to)
    BY <2>2 DEF Readers
  <2>4. /\ Len(switches[req[u].chat]) <= Len(switches'[req[u].chat])
        /\ \A i \in 1..Len(switches[req[u].chat]) :
             switches'[req[u].chat][i] = switches[req[u].chat][i]
        /\ Len(switches[req[u].chat]) \in Nat /\ Len(switches'[req[u].chat]) \in Nat
    <3>1. switches' \in [Chats -> Seq(SwitchMade)]
      BY <2>1, WriteTyped
    <3>2. switches'[req[u].chat] \in Seq(SwitchMade)
      BY <2>2, <3>1
    <3>3. Len(switches'[req[u].chat]) \in Nat
      BY <3>2
    <3>4. QED
      BY <2>1, <2>2, <3>3, SwitchesWritten, SwitchesTyped
  <2>5. QED
    BY <2>2, <2>3, <2>4
<1>2. ASSUME NEW t \in Taps, GetChat(t) PROVE Readers'
  <2>1. /\ pc[t] = "get" /\ req[t].chat \in Chats /\ pc' = [pc EXCEPT ![t] = "flip"]
        /\ UNCHANGED <<req, switches>>
    BY <1>2, AskedOf DEF GetChat, Busy
  <2>2. PICK n \in RowsFor(req[t].chat) :
          /\ read' = [read EXCEPT ![t] = rows[n].digest]
          /\ readAt' = [readAt EXCEPT ![t] = [after |-> Len(switches[req[t].chat]),
                                              newcomer |-> n \in unswitched]]
    BY <1>2 DEF GetChat
  <2>3. /\ readAt'[t].after = Len(switches[req[t].chat]) /\ read'[t] = rows[n].digest
        /\ readAt'[t].newcomer <=> n \in unswitched
    BY <2>2 DEF TypeOK
  <2>4. Len(switches[req[t].chat]) \in Nat
    BY <2>1, SwitchesTyped
  <2>5. Len(switches[req[t].chat]) > 0 /\ n \notin unswitched
          => rows[n].digest = switches[req[t].chat][Len(switches[req[t].chat])].to
    <3>1. switches[req[t].chat] # <<>> =>
            \A m \in RowsFor(req[t].chat) \ unswitched :
              rows[m].digest = switches[req[t].chat][Len(switches[req[t].chat])].to
      BY <2>1 DEF TapsAlternate
    <3>2. Len(switches[req[t].chat]) > 0 => switches[req[t].chat] # <<>>
      BY <2>1, SwitchesTyped
    <3>3. QED
      BY <2>2, <3>1, <3>2
  <2>6. \A u \in Taps : u # t => /\ pc'[u] = pc[u] /\ read'[u] = read[u]
                                 /\ readAt'[u] = readAt[u]
    BY <2>1, <2>2 DEF TypeOK
  <2>7. QED
    BY <2>1, <2>3, <2>4, <2>5, <2>6 DEF Readers
<1>3. ASSUME NEW t \in Taps, NEW q \in Wanted, Receive(t, q) PROVE Readers'
  <2>1. q.op \in {"start", "nm", "dg"}
    BY AdminChatsAssumption DEF Request
  <2>2. /\ pc'[t] # "flip" /\ UNCHANGED <<read, readAt, switches>>
        /\ \A u \in Taps : u # t => pc'[u] = pc[u] /\ req'[u] = req[u]
    BY <1>3, <2>1 DEF Receive, TypeOK
  <2>3. QED
    BY <2>2 DEF Readers
<1>4. ASSUME NEW t \in Taps, GetNothing(t) PROVE Readers'
  BY <1>4 DEF GetNothing, Readers, TypeOK
<1>5. ASSUME NEW list \in AdminLists, Start(list) PROVE Readers'
  BY <1>5 DEF Start, Readers, TypeOK, Busy
<1>6. CASE UNCHANGED vars
  BY <1>6 DEF vars, Readers
<1>7. QED
  BY <1>1, <1>2, <1>3, <1>4, <1>5, <1>6 DEF Next, Handle

LEMMA AlternateSwitch ==
  ASSUME TypeOK, Asked, Readers, TapsAlternate,
         NEW t \in Taps, pc[t] \in Busy, pc[t] = "flip", req[t].chat \in Chats, SwitchDigest(t)
  PROVE  TapsAlternate'
<1> DEFINE d == req[t].chat
           before == switches[d]
<1>1. /\ before \in Seq(SwitchMade) /\ Len(before) \in Nat /\ Switch(t) \in SwitchMade
      /\ switches'[d] = Append(before, Switch(t))
      /\ \A c \in Chats : c # d => switches'[c] = switches[c]
  BY SwitchWritten, SwitchTyped, SwitchesTyped
<1>2. /\ Len(switches'[d]) = Len(before) + 1 /\ DOMAIN switches'[d] = 1..(Len(before) + 1)
      /\ \A i \in 1..Len(before) : switches'[d][i] = before[i]
      /\ switches'[d][Len(before) + 1] = Switch(t)
  BY <1>1
<1>3. /\ Switch(t).to = ~read[t] /\ Switch(t).after = readAt[t].after
      /\ Switch(t).newcomer = readAt[t].newcomer /\ Switch(t).after \in Nat
  BY <1>1 DEF Switch, SwitchMade
<1>4. rows' = DigestSet(t) /\ unswitched' = unswitched \ RowsFor(d)
  BY DEF SwitchDigest
<1>5. \A n \in Spellings :
        /\ rows'[n].chat = rows[n].chat
        /\ n \in RowsFor(d) => rows'[n].digest = ~read[t]
        /\ n \notin RowsFor(d) => rows'[n] = rows[n]
  <2>1. \A n \in Spellings : n \in RowsFor(d) =>
          /\ DigestSet(t)[n] = [rows[n] EXCEPT !.digest = ~read[t]] /\ rows[n] \in Row
    BY RowsSet DEF DigestSet
  <2>2. QED
    BY <1>4, <2>1, RowsSet DEF Row
<1>6. ASSUME NEW c \in Chats
      PROVE  /\ \A i \in DOMAIN switches'[c] :
                  LET s == switches'[c][i] IN
                  /\ s.after < i
                  /\ s.after > 0 /\ ~s.newcomer => s.to # switches'[c][s.after].to
             /\ switches'[c] # <<>> =>
                  \A n \in Spellings :
                    rows'[n].chat = c /\ n \notin unswitched'
                      => rows'[n].digest = switches'[c][Len(switches'[c])].to
  <2>1. CASE c # d
    BY <1>1, <1>4, <1>5, <2>1 DEF TapsAlternate, RowsFor
  <2>2. CASE c = d
    <3>1. ASSUME NEW i \in DOMAIN switches'[d]
          PROVE  LET s == switches'[d][i] IN
                 /\ s.after < i
                 /\ s.after > 0 /\ ~s.newcomer => s.to # switches'[d][s.after].to
      <4>1. CASE i = Len(before) + 1
        <5>1. /\ readAt[t].after <= Len(before)
              /\ readAt[t].after > 0 /\ ~readAt[t].newcomer
                   => (read[t] <=> before[readAt[t].after].to)
          BY DEF Readers
        <5>2. readAt[t].after > 0 => switches'[d][readAt[t].after] = before[readAt[t].after]
          BY <1>1, <1>2, <1>3, <5>1
        <5>3. read[t] \in BOOLEAN
          BY DEF TypeOK
        <5>4. Switch(t).after < i
          BY <1>1, <1>3, <4>1, <5>1
        <5>5. Switch(t).after > 0 /\ ~Switch(t).newcomer
                => Switch(t).to # switches'[d][Switch(t).after].to
          BY <1>3, <5>1, <5>2, <5>3
        <5>6. QED
          BY <1>2, <4>1, <5>4, <5>5
      <4>2. CASE i \in 1..Len(before)
        <5>1. /\ before[i].after < i /\ before[i] \in SwitchMade
              /\ before[i].after > 0 /\ ~before[i].newcomer
                   => before[i].to # before[before[i].after].to
          BY <1>1, <4>2 DEF TapsAlternate
        <5>2. before[i].after > 0 => before[i].after \in 1..Len(before)
          BY <1>1, <4>2, <5>1 DEF SwitchMade
        <5>3. QED
          BY <1>2, <4>2, <5>1, <5>2
      <4>3. i = Len(before) + 1 \/ i \in 1..Len(before)
        BY <1>1, <1>2
      <4>4. QED
        BY <4>1, <4>2, <4>3
    <3>2. ASSUME NEW n \in Spellings, rows'[n].chat = d
          PROVE  rows'[n].digest = switches'[d][Len(switches'[d])].to
      BY <1>2, <1>3, <1>5, <3>2 DEF RowsFor
    <3>3. QED
      BY <2>2, <3>1, <3>2
  <2>3. QED
    BY <2>1, <2>2
<1>7. QED
  BY <1>6 DEF TapsAlternate, RowsFor

\* A switch goes against what its handler read, and is written to every row of the chat.
LEMMA AlternateStep ==
  TypeOK /\ Asked /\ Readers /\ TapsAlternate /\ [Next]_vars => TapsAlternate'
<1> SUFFICES ASSUME TypeOK, Asked, Readers, TapsAlternate, [Next]_vars PROVE TapsAlternate'
  OBVIOUS
<1>1. CASE UNCHANGED <<rows, switches, fresh, unswitched>>
  BY <1>1 DEF TapsAlternate, RowsFor
<1>2. ASSUME NEW t \in Taps, pc[t] \in Busy, RowsStep(t) PROVE TapsAlternate'
  <2>1. req[t].name \in Spellings /\ req[t].chat \in Chats
    BY <1>2, AskedOf
  <2>2. CASE pc[t] = "upsert" /\ Register(t)
    <3>1. /\ rows' = Upserted(t) /\ switches' = switches
          /\ unswitched' = unswitched \cup
               (IF rows[req[t].name].chat = req[t].chat THEN {} ELSE {req[t].name})
      BY <2>2 DEF Register
    <3>2. rows[req[t].name].chat = req[t].chat => rows[req[t].name] # NoRow
      BY <2>1, AdminChatsAssumption DEF NoRow
    <3>3. \A n \in Spellings \ unswitched' :
            /\ n \notin unswitched /\ rows'[n].chat = rows[n].chat
            /\ rows[n] # NoRow => rows'[n].digest = rows[n].digest
            /\ rows[n] = NoRow => rows'[n] = NoRow
      BY <1>2, <3>1, <3>2, RowWritten
    <3>4. QED
      BY <3>1, <3>3 DEF TapsAlternate, RowsFor
  <2>3. CASE pc[t] = "set" /\ ChooseMode(t)
    <3>1. rows' = ModeSet(t) /\ switches' = switches /\ unswitched' = unswitched
      BY <2>3 DEF ChooseMode
    <3>2. \A n \in Spellings : rows'[n].chat = rows[n].chat /\ rows'[n].digest = rows[n].digest
      BY <1>2, <2>3, <3>1, ModeOnly
    <3>3. QED
      BY <3>1, <3>2 DEF TapsAlternate, RowsFor
  <2>4. CASE pc[t] = "flip" /\ SwitchDigest(t)
    BY <1>2, <2>1, <2>4, AlternateSwitch
  <2>5. QED
    BY <1>1, <1>2, <2>2, <2>3, <2>4 DEF RowsStep
<1>3. QED
  BY <1>1, <1>2, RowsWritten
-----------------------------------------------------------------------------
\* The inductive invariant of the chats.
LEMMA ChatsInvariance == Spec => []ChatsInv
<1>1. ChatsInv /\ [Next]_vars => ChatsInv'
  BY ChatsTypeStep, AgreeStep, ReadersStep, AlternateStep DEF ChatsInv
<1>2. QED
  BY <1>1, ChatsInit, PTL DEF Spec

\* The table and the handlers, for any admins, chats and updates.
THEOREM ChatsTypeCorrect == Spec => []TypeOK
  BY ChatsInvariance, PTL DEF ChatsInv

\* telegram_repo.go, SetNotifyMode: whatever an admin chooses holds for all rows of the
\* chat; only a registration that comes later disagrees.
THEOREM ChatsAgree == Spec => []RowsOfChatAgree
  BY ChatsInvariance, PTL DEF ChatsInv

\* telegram_repo.go, UpsertAdminChat: registering again leaves what was chosen.
THEOREM ChoicesAreKept == Spec => PreferencesKept
<1>1. ChatsInv /\ [Next]_vars =>
        [\A n \in Spellings : rows[n] # NoRow =>
           /\ rows'[n] # NoRow
           /\ (rows'[n].mode # rows[n].mode \/ rows'[n].digest # rows[n].digest)
                => \E t \in Taps : pc[t] \in {"set", "flip"} /\ req[t].chat = rows[n].chat]_vars
  BY KeptStep DEF ChatsInv
<1>2. QED
  BY <1>1, ChatsInvariance, PTL DEF Spec, PreferencesKept

\* admin.go, the digest toggle: however taps overlap, each switches what it saw, and the
\* rows of the chat hold what the last of them said.
THEOREM TapsTakeTurns == Spec => []TapsAlternate
  BY ChatsInvariance, PTL DEF ChatsInv
-----------------------------------------------------------------------------
AtRow == stage \in {"send", "wait"}

Untouched(r) == outcome[r] = "none" /\ calls[r] = 0

\* Before the query, no row has been listed or touched.
Before ==
  stage \in {"overview", "list"} =>
    todo = {} /\ \A r \in Rows : chats[r] = B!Absent /\ outcome[r] = "none"

\* Rows the loop has not come to.
Ahead ==
  /\ \A r \in Rows : (outcome[r] = "none" /\ ~ (AtRow /\ r = row)) => Untouched(r)
  /\ \A r \in todo : outcome[r] = "none"
  /\ stage = "done" => todo = {}

\* The row it is at.
Here ==
  AtRow => /\ row \in B!Listed \ todo /\ outcome[row] = "none" /\ B!Wants(chats[row].mode)
           /\ calls[row] <= attempt

\* Rows it has been at.
Behind ==
  /\ \A r \in B!Listed \ todo : outcome[r] = "none" => AtRow /\ r = row
  /\ \A r \in Rows : outcome[r] = "skipped" => ~ B!Wants(chats[r].mode)
  /\ \A r \in Rows : outcome[r] \in {"sent", "failed"} => B!Wants(chats[r].mode)

Accounts == Before /\ Ahead /\ Here /\ Behind

\* What must hold of the state is the same, seen from the instance or from here.
LEMMA SameState ==
  /\ B!EveryRowHandled <=> EveryRowHandled
  /\ \A c : B!Naming(c) = Naming(c)
  /\ \A mode : B!Wants(mode) <=> Wants(mode)
<1>1. B!Listed = Listed /\ (\A mode : B!Wants(mode) <=> Wants(mode))
  BY DEF B!Listed, Listed, B!Absent, Absent, B!Wants, Wants
<1>2. \A c : B!Naming(c) = Naming(c)
  BY <1>1 DEF B!Naming, Naming
<1>3. B!EveryRowHandled <=> EveryRowHandled
  BY <1>1 DEF B!EveryRowHandled, EveryRowHandled
<1>4. QED
  BY <1>1, <1>2, <1>3

LEMMA Arithmetic ==
  ASSUME B!BroadcastAssumption,
         B!TypeOK
  PROVE  /\ left \in 0..B!Budget /\ B!Budget \in Nat
         /\ left \in Nat /\ B!Deadline \in Nat /\ B!Deadline <= left
         /\ \A d \in Nat : d <= left => left - d \in 0..left
  BY DEF B!BroadcastAssumption, B!TypeOK, B!Deadline, B!Budget

\* What every step of a sendMessage leaves as it is.
LEMMA TypeCallStep ==
  ASSUME B!BroadcastAssumption,
         B!TypeOK, NEW d \in Nat, B!Call(d)
  PROVE  /\ left' \in 0..B!Budget /\ left' <= left /\ calls' \in [Rows -> Nat]
         /\ calls'[row] = calls[row] + 1 /\ \A r \in Rows \ {row} : calls'[r] = calls[r]
  BY Arithmetic DEF B!BroadcastAssumption, B!TypeOK, B!Call, B!Spend, B!Budget

LEMMA TypeRetry ==
  ASSUME B!BroadcastAssumption,
         B!TypeOK, stage \in {"send", "wait"}, NEW w \in Nat, B!Retry(w)
  PROVE  /\ attempt' \in 0..(Attempts - 1) /\ pause' \in Nat /\ stage' \in {"wait", "pick"}
         /\ outcome' \in [Rows -> {"none", "skipped", "sent", "failed"}]
         /\ \A r \in Rows \ {row} : outcome'[r] = outcome[r]
         /\ \/ stage' = "wait" /\ attempt' = attempt + 1 /\ outcome' = outcome
            \/ stage' = "pick" /\ outcome'[row] = "failed"
  BY DEF B!BroadcastAssumption, B!TypeOK, B!Retry, B!Return

LEMMA TypeInit ==
  ASSUME B!BroadcastAssumption
  PROVE  B!Init => B!TypeOK
  BY DEF B!BroadcastAssumption, B!Init, B!TypeOK, B!Absent, B!Entry, B!Modes, B!Budget

\* What the admins change meanwhile is the table, and never the rows that were listed.
LEMMA SettingsLeave ==
  ASSUME B!BroadcastAssumption, B!TypeOK, B!Settings
  PROVE  /\ table' \in [Rows -> B!Entry \cup {B!Absent}] /\ changes' \in 0..MaxChanges
         /\ UNCHANGED <<kind, stage, left, chats, todo, row, attempt, pause, outcome, copies,
                       lost, calls>>
<1>1. changes \in 0..MaxChanges /\ MaxChanges \in Nat
  BY DEF B!BroadcastAssumption, B!TypeOK
<1>2. ASSUME NEW c \in ChatIds, NEW m \in B!Modes, B!SetMode(c, m)
      PROVE  table' \in [Rows -> B!Entry \cup {B!Absent}] /\ changes' \in 0..MaxChanges
  <2>1. \A r \in Rows : table[r].chat = c => table[r] \in B!Entry
    BY DEF B!BroadcastAssumption, B!TypeOK, B!Absent
  <2>2. \A r \in Rows : table[r].chat = c => [table[r] EXCEPT !.mode = m] \in B!Entry
    BY <2>1 DEF B!Entry
  <2>3. QED
    BY <1>1, <1>2, <2>2 DEF B!SetMode, B!Change, B!TypeOK
<1>3. ASSUME NEW c \in ChatIds, NEW r \in Rows, B!Register(r, c)
      PROVE  table' \in [Rows -> B!Entry \cup {B!Absent}] /\ changes' \in 0..MaxChanges
  <2> DEFINE md == IF table[r] # B!Absent THEN table[r].mode ELSE IF kind = "digest" THEN "on" ELSE "all"
  <2>1. md \in B!Modes
    BY DEF B!TypeOK, B!Entry, B!Modes
  <2>2. table' = [table EXCEPT ![r] = [chat |-> c, mode |-> md]]
    BY <1>3 DEF B!Register
  <2> HIDE DEF md
  <2>3. QED
    BY <1>1, <1>3, <2>1, <2>2 DEF B!Register, B!Change, B!TypeOK, B!Entry
<1>4. QED
  BY <1>2, <1>3 DEF B!Settings, B!SetMode, B!Register

LEMMA TypeStep ==
  ASSUME B!BroadcastAssumption
  PROVE  B!TypeOK /\ [B!Next]_(B!vars) => B!TypeOK'
<1> SUFFICES ASSUME B!TypeOK, [B!Next]_(B!vars) PROVE B!TypeOK'
  OBVIOUS
<1> USE DEF B!BroadcastAssumption
<1>14. kind' = kind => B!Entry' = B!Entry /\ B!Modes' = B!Modes /\ B!Budget' = B!Budget
  BY DEF B!Entry, B!Modes, B!Budget
<1>15. chats' = chats => B!Listed' = B!Listed
  BY DEF B!Listed
<1> USE <1>14, <1>15
<1>1. ASSUME NEW d \in Latencies, B!Overview(d) \/ B!List(d) PROVE B!TypeOK'
  <2>1. left' \in 0..B!Budget
    BY <1>1, Arithmetic DEF B!Overview, B!List, B!Spend
  <2>2. CASE B!Overview(d)
    BY <2>1, <2>2 DEF B!TypeOK, B!Overview
  <2>3. CASE B!List(d)
    <3>1. todo' \subseteq B!Listed'
      BY <2>3 DEF B!List, B!Listed
    <3>2. QED
      BY <2>1, <2>3, <3>1 DEF B!TypeOK, B!List
  <2>4. QED
    BY <1>1, <2>2, <2>3
<1>2. CASE B!QueryFails
  <2>1. left' \in 0..B!Budget
    BY <1>2, Arithmetic DEF B!QueryFails
  <2>2. QED
    BY <1>2, <2>1 DEF B!TypeOK, B!QueryFails
<1>3. ASSUME NEW r \in Rows, B!Skip(r) \/ B!Take(r) PROVE B!TypeOK'
  <2>1. 0 \in 0..(Attempts - 1)
    OBVIOUS
  <2>2. CASE B!Skip(r)
    BY <2>2 DEF B!TypeOK, B!Skip
  <2>3. CASE B!Take(r)
    BY <2>1, <2>3 DEF B!TypeOK, B!Take
  <2>4. QED
    BY <1>3, <2>2, <2>3
<1>4. CASE B!Finish
  BY <1>4 DEF B!TypeOK, B!Finish
<1>5. ASSUME NEW d \in Nat, B!Accepted(d) \/ B!Refused(d) PROVE B!TypeOK'
  BY <1>5, TypeCallStep
  DEF B!TypeOK, B!Accepted, B!Refused, B!Call, B!Deliver, B!Return
<1>6. ASSUME NEW d \in Nat, B!RateLimited(d) PROVE B!TypeOK'
  BY <1>6, TypeCallStep, TypeRetry
  DEF B!TypeOK, B!RateLimited, B!Call
<1>7. ASSUME NEW d \in Nat, B!Fails(d) PROVE B!TypeOK'
  <2>1. (attempt + 1) * Backoff \in Nat
    BY DEF B!TypeOK
  <2>2. copies' \in [ChatIds -> Nat] /\ lost' \in [ChatIds -> Nat]
    BY <1>7 DEF B!Fails, B!Deliver, B!TypeOK
  <2>3. QED
    BY <1>7, <2>1, <2>2, TypeCallStep, TypeRetry
    DEF B!TypeOK, B!Fails, B!Call
<1>8. CASE B!TimesOut
  BY <1>7, <1>8, Arithmetic DEF B!TimesOut
<1>9. CASE B!Expired
  <2>1. (attempt + 1) * Backoff \in Nat
    BY DEF B!TypeOK
  <2>2. QED
    BY <1>9, <2>1, TypeRetry DEF B!TypeOK, B!Expired
<1>10. CASE B!Resume \/ B!Cancelled
  <2>1. left' \in 0..B!Budget
    BY <1>10, Arithmetic DEF B!Resume, B!Cancelled, B!Spend, B!TypeOK
  <2>2. CASE B!Resume
    BY <2>1, <2>2 DEF B!TypeOK, B!Resume
  <2>3. CASE B!Cancelled
    BY <2>1, <2>3 DEF B!TypeOK, B!Cancelled, B!Return
  <2>4. QED
    BY <1>10, <2>2, <2>3
<1>11. CASE B!Settings
  BY <1>11, SettingsLeave DEF B!TypeOK
<1>12. CASE UNCHANGED B!vars
  BY <1>12 DEF B!TypeOK, B!vars
<1>13. QED
  BY <1>1, <1>2, <1>3, <1>4, <1>5, <1>6, <1>7, <1>8, <1>9, <1>10, <1>11, <1>12
  DEF B!Next, B!Step, B!Deliveries
-----------------------------------------------------------------------------
LEMMA AccountsInit ==
  ASSUME B!BroadcastAssumption
  PROVE  B!Init => Accounts
  BY DEF B!Init, Accounts, Before, Ahead, Here, Behind, AtRow, Untouched, B!Listed

\* A request for the row at hand that has not ended sendMessage, or has.
LEMMA AccountsCallStep ==
  ASSUME B!BroadcastAssumption,
         B!TypeOK, Accounts, stage = "send",
         UNCHANGED <<kind, chats, todo, row>>,
         calls' \in [Rows -> Nat],
         outcome' \in [Rows -> {"none", "skipped", "sent", "failed"}],
         \A r \in Rows \ {row} : calls'[r] = calls[r] /\ outcome'[r] = outcome[r],
         calls'[row] <= calls[row] + 1,
         \/ stage' = "wait" /\ attempt' = attempt + 1 /\ outcome'[row] = outcome[row]
         \/ stage' = "pick" /\ outcome'[row] \in {"sent", "failed"}
  PROVE  Accounts'
<1>1. \A mode : B!Wants(mode)' <=> B!Wants(mode)
  BY DEF B!Wants
<1>2. Before'
  BY DEF Before
<1>3. Ahead'
  <2>1. \A r \in Rows : (outcome'[r] = "none" /\ ~ (AtRow' /\ r = row)) => Untouched(r)'
    <3> SUFFICES ASSUME NEW r \in Rows, outcome'[r] = "none", ~ (AtRow' /\ r = row)
                 PROVE  Untouched(r)'
      OBVIOUS
    <3>1. r # row
      BY DEF AtRow
    <3>2. outcome[r] = "none" /\ Untouched(r)
      BY <3>1 DEF Accounts, Ahead
    <3>3. QED
      BY <3>1, <3>2 DEF Untouched
  <2>2. \A r \in todo' : outcome'[r] = "none"
    BY DEF Accounts, Ahead, Here, AtRow, B!TypeOK, B!Listed
  <2>3. QED
    BY <2>1, <2>2 DEF Ahead
<1>4. Here'
  <2>1. B!Listed' = B!Listed
    BY DEF B!Listed
  <2>2. QED
    BY <1>1, <2>1 DEF Accounts, Here, AtRow, B!TypeOK
<1>5. Behind'
  BY <1>1 DEF Accounts, Here, Behind, AtRow, B!Listed, B!TypeOK
<1>6. QED
  BY <1>2, <1>3, <1>4, <1>5 DEF Accounts

LEMMA AccountsStep ==
  ASSUME B!BroadcastAssumption
  PROVE  B!TypeOK /\ B!TypeOK' /\ Accounts /\ [B!Next]_(B!vars) => Accounts'
<1> SUFFICES ASSUME B!TypeOK, B!TypeOK', Accounts, [B!Next]_(B!vars) PROVE Accounts'
  OBVIOUS
<1> USE DEF Accounts, Before, Ahead, Here, Behind, AtRow, Untouched, B!Listed
<1>1. ASSUME NEW d \in Latencies, B!Overview(d) PROVE Accounts'
  BY <1>1 DEF B!Overview, B!Wants
<1>2. ASSUME NEW d \in Latencies, B!List(d) PROVE Accounts'
  BY <1>2 DEF B!List, B!Wants
<1>3. CASE B!QueryFails
  BY <1>3 DEF B!QueryFails, B!Wants
<1>4. ASSUME NEW r \in Rows, B!Skip(r) PROVE Accounts'
  BY <1>4 DEF B!Skip, B!Wants, B!TypeOK
<1>5. ASSUME NEW r \in Rows, B!Take(r) PROVE Accounts'
  BY <1>5 DEF B!Take, B!Wants, B!TypeOK
<1>6. CASE B!Finish
  BY <1>6 DEF B!Finish, B!Wants
<1>7. ASSUME NEW d \in Nat, B!Accepted(d) \/ B!Refused(d) PROVE Accounts'
  <2>1. B!Call(d)
    BY <1>7 DEF B!Accepted, B!Refused
  <2>2. QED
    BY <1>7, <2>1, TypeCallStep, AccountsCallStep
    DEF B!Accepted, B!Refused, B!Call, B!Deliver, B!Return, B!TypeOK
<1>8. ASSUME NEW d \in Nat, B!RateLimited(d) PROVE Accounts'
  BY <1>8, TypeCallStep, TypeRetry, AccountsCallStep
  DEF B!BroadcastAssumption, B!RateLimited, B!Call, B!TypeOK
<1>9. ASSUME NEW d \in Nat, B!Fails(d) PROVE Accounts'
  <2>1. (attempt + 1) * Backoff \in Nat
    BY DEF B!BroadcastAssumption, B!TypeOK
  <2>2. B!Call(d) /\ B!Retry((attempt + 1) * Backoff)
    BY <1>9 DEF B!Fails
  <2>3. QED
    BY <2>1, <2>2, TypeCallStep, TypeRetry, AccountsCallStep DEF B!Call, B!TypeOK
<1>10. CASE B!TimesOut
  BY <1>9, <1>10, Arithmetic DEF B!TimesOut
<1>11. CASE B!Expired
  <2>1. (attempt + 1) * Backoff \in Nat
    BY DEF B!BroadcastAssumption, B!TypeOK
  <2>2. QED
    BY <1>11, <2>1, TypeRetry, AccountsCallStep DEF B!Expired, B!TypeOK
<1>12. CASE B!Resume
  BY <1>12 DEF B!Resume, B!Wants
<1>13. CASE B!Cancelled
  <2>1. \A r \in Rows : outcome'[r] = IF r = row THEN "failed" ELSE outcome[r]
    BY <1>13 DEF B!Cancelled, B!Return, B!TypeOK
  <2>2. row \in Rows /\ row \notin todo /\ B!Wants(chats[row].mode)
    BY <1>13 DEF B!Cancelled, B!TypeOK
  <2>3. Ahead'
    BY <1>13, <2>1, <2>2 DEF B!Cancelled, B!Return, B!TypeOK
  <2>4. Behind'
    BY <1>13, <2>1, <2>2 DEF B!Cancelled, B!Return, B!Wants, B!TypeOK
  <2>5. Before' /\ Here'
    BY <1>13 DEF B!Cancelled, B!Return
  <2>6. QED
    BY <2>3, <2>4, <2>5
<1>14. CASE B!Settings
  BY <1>14, SettingsLeave DEF B!Wants
<1>15. CASE UNCHANGED B!vars
  BY <1>15 DEF B!vars, B!Wants
<1> HIDE DEF Accounts
<1>16. QED
  BY <1>1, <1>2, <1>3, <1>4, <1>5, <1>6, <1>7, <1>8, <1>9, <1>10, <1>11, <1>12, <1>13, <1>14,
     <1>15
  DEF B!BroadcastAssumption, B!Next, B!Step, B!Deliveries
-----------------------------------------------------------------------------
\* The rows of a chat that were tried and given up or sent, those that were sent, and
\* those that want the message.
Tried(c) == {r \in B!Naming(c) : outcome[r] \in {"sent", "failed"}}

SentFor(c) == {r \in B!Naming(c) : outcome[r] = "sent"}

WantedFor(c) == {r \in B!Naming(c) : B!Wants(chats[r].mode)}

\* The attempts made for the row at hand, if it names the chat.
Underway(c) == IF AtRow /\ chats[row].chat = c THEN attempt ELSE 0

\* What a chat has got is what was sent, what was lost, and within the attempts made.
Counts ==
  /\ \A c \in ChatIds :
       /\ copies[c] = lost[c] + Cardinality(SentFor(c))
       /\ copies[c] <= Attempts * Cardinality(Tried(c)) + Underway(c)
  /\ \A r \in Rows : calls[r] <= Attempts

LEMMA Times ==
  ASSUME NEW a \in Nat, NEW n \in Nat
  PROVE  /\ a * n \in Nat /\ a * (n + 1) = a * n + a
         /\ \A k \in Nat : n <= k => a * n <= a * k
<1>1. a * n \in Nat /\ a * (n + 1) = a * n + a
  OBVIOUS
<1>2. ASSUME NEW k \in Nat, n <= k PROVE a * n <= a * k
  <2>1. PICK d \in Nat : k = n + d
    <3>1. k - n \in Nat /\ k = n + (k - n)
      BY <1>2
    <3>2. QED
      BY <3>1
  <2>2. a * k = a * n + a * d /\ a * d \in Nat /\ a * n \in Nat
    BY <2>1
  <2>3. QED
    BY <2>2
<1>3. QED
  BY <1>1, <1>2

LEMMA FiniteRows ==
  ASSUME B!BroadcastAssumption, NEW c
  PROVE  /\ IsFiniteSet(Tried(c)) /\ IsFiniteSet(SentFor(c)) /\ IsFiniteSet(WantedFor(c))
         /\ Cardinality(Tried(c)) \in Nat /\ Cardinality(SentFor(c)) \in Nat
         /\ Cardinality(WantedFor(c)) \in Nat
<1>1. /\ Tried(c) \in SUBSET Rows /\ SentFor(c) \in SUBSET Rows
      /\ WantedFor(c) \in SUBSET Rows
  BY DEF Tried, SentFor, WantedFor, B!Naming, B!Listed
<1>2. IsFiniteSet(Rows)
  BY RowsAssumption
<1>3. IsFiniteSet(Tried(c)) /\ IsFiniteSet(SentFor(c)) /\ IsFiniteSet(WantedFor(c))
  BY <1>1, <1>2, FS_Subset
<1>4. QED
  BY <1>3, FS_CardinalityType

\* The row at hand names a chat, and has not been counted for it.
LEMMA RowAtHand ==
  ASSUME B!BroadcastAssumption, B!TypeOK, Accounts, AtRow
  PROVE  /\ row \in Rows /\ row \in B!Listed /\ chats[row].chat \in ChatIds
         /\ attempt \in Nat /\ attempt < Attempts
         /\ outcome[row] = "none" /\ B!Wants(chats[row].mode) /\ calls[row] <= attempt
         /\ row \in B!Naming(chats[row].chat)
         /\ \A c \in ChatIds : row \notin Tried(c) /\ row \notin SentFor(c)
<1>1. /\ row \in Rows /\ row \in B!Listed /\ attempt \in Nat /\ attempt < Attempts
      /\ outcome[row] = "none" /\ B!Wants(chats[row].mode) /\ calls[row] <= attempt
  BY DEF Accounts, Here, B!TypeOK, B!BroadcastAssumption
<1>2. chats[row] \in B!Entry
  BY <1>1 DEF B!TypeOK, B!Listed
<1>3. chats[row].chat \in ChatIds
  BY <1>2 DEF B!Entry
<1>4. QED
  BY <1>1, <1>3 DEF B!Naming, Tried, SentFor

\* A step that leaves the rows and outcomes as they are leaves the sets.
LEMMA SameSets ==
  ASSUME B!TypeOK, NEW c \in ChatIds, chats' = chats, kind' = kind,
         \A r \in B!Listed : /\ outcome'[r] = "sent" <=> outcome[r] = "sent"
                             /\ outcome'[r] = "failed" <=> outcome[r] = "failed"
  PROVE  Tried(c)' = Tried(c) /\ SentFor(c)' = SentFor(c)
  BY DEF Tried, SentFor, B!Naming, B!Listed

\* The row at hand is sent or given up: it is one more of its chat's.
LEMMA RowCounted ==
  ASSUME B!BroadcastAssumption, B!TypeOK, Accounts, AtRow, NEW c \in ChatIds, chats' = chats,
         \A r \in Rows \ {row} : outcome'[r] = outcome[r],
         outcome'[row] \in {"sent", "failed"}
  PROVE  /\ c # chats[row].chat =>
              Tried(c)' = Tried(c) /\ SentFor(c)' = SentFor(c)
         /\ c = chats[row].chat =>
              /\ Cardinality(Tried(c))' = Cardinality(Tried(c)) + 1
              /\ outcome'[row] = "sent" => Cardinality(SentFor(c))' = Cardinality(SentFor(c)) + 1
              /\ outcome'[row] # "sent" => Cardinality(SentFor(c))' = Cardinality(SentFor(c))
<1>1. /\ row \in B!Naming(chats[row].chat) /\ row \notin Tried(c) /\ row \notin SentFor(c)
      /\ B!Naming(c)' = B!Naming(c) /\ B!Naming(c) \subseteq Rows
  BY RowAtHand DEF B!Naming, B!Listed
<1>2. CASE c # chats[row].chat
  <2>1. row \notin B!Naming(c)
    BY <1>2 DEF B!Naming
  <2>2. QED
    BY <1>1, <1>2, <2>1 DEF Tried, SentFor
<1>3. CASE c = chats[row].chat
  <2>1. Tried(c)' = Tried(c) \cup {row}
    BY <1>1, <1>3 DEF Tried
  <2>2. SentFor(c)' = IF outcome'[row] = "sent" THEN SentFor(c) \cup {row} ELSE SentFor(c)
    BY <1>1, <1>3 DEF SentFor
  <2>3. Cardinality(Tried(c) \cup {row}) = Cardinality(Tried(c)) + 1
    BY <1>1, FiniteRows, FS_AddElement
  <2>4. Cardinality(SentFor(c) \cup {row}) = Cardinality(SentFor(c)) + 1
    BY <1>1, FiniteRows, FS_AddElement
  <2>5. QED
    BY <1>3, <2>1, <2>2, <2>3, <2>4
<1>4. QED
  BY <1>2, <1>3

\* A request for the row at hand ends, or its wait: what its chat got, and what is made
\* of it.
LEMMA CountsCallStep ==
  ASSUME B!BroadcastAssumption,
         B!TypeOK, B!TypeOK', Accounts, Counts, AtRow,
         UNCHANGED <<kind, chats, row>>,
         \A r \in Rows \ {row} : calls'[r] = calls[r] /\ outcome'[r] = outcome[r],
         calls'[row] <= calls[row] + 1,
         \A c \in ChatIds : c # chats[row].chat => copies'[c] = copies[c] /\ lost'[c] = lost[c],
         \/ stage' = "wait" /\ attempt' = attempt + 1 /\ outcome'[row] = outcome[row]
         \/ stage' = "pick" /\ outcome'[row] \in {"sent", "failed"},
         LET c == chats[row].chat IN
         \/ copies'[c] = copies[c] /\ lost'[c] = lost[c] /\ outcome'[row] # "sent"
         \/ copies'[c] = copies[c] + 1 /\ lost'[c] = lost[c] /\ outcome'[row] = "sent"
         \/ copies'[c] = copies[c] + 1 /\ lost'[c] = lost[c] + 1 /\ outcome'[row] # "sent"
  PROVE  Counts'
<1>1. /\ row \in Rows /\ chats[row].chat \in ChatIds /\ attempt \in Nat /\ attempt < Attempts
      /\ outcome[row] = "none" /\ calls[row] <= attempt /\ Attempts \in Nat
  BY RowAtHand DEF B!BroadcastAssumption
<1>2. \A r \in Rows : calls'[r] <= Attempts
  <2>1. calls[row] \in Nat /\ calls'[row] \in Nat
    BY <1>1 DEF B!TypeOK
  <2>2. calls'[row] <= Attempts
    BY <1>1, <2>1
  <2>3. QED
    BY <2>2 DEF Counts
<1>3. ASSUME NEW c \in ChatIds
      PROVE  /\ copies'[c] = lost'[c] + Cardinality(SentFor(c))'
             /\ copies'[c] <= Attempts * Cardinality(Tried(c))' + Underway(c)'
  <2> DEFINE m == Cardinality(Tried(c))  s == Cardinality(SentFor(c))
  <2>1. /\ copies[c] \in Nat /\ lost[c] \in Nat /\ m \in Nat /\ s \in Nat
        /\ copies[c] = lost[c] + s /\ copies[c] <= Attempts * m + Underway(c)
    BY FiniteRows DEF B!TypeOK, Counts
  <2>2. Attempts * m \in Nat /\ Attempts * (m + 1) = Attempts * m + Attempts
    BY <1>1, <2>1, Times
  <2>3. Underway(c) = IF c = chats[row].chat THEN attempt ELSE 0
    BY DEF Underway
  <2>4. CASE stage' = "wait"
    <3>1. Tried(c)' = Tried(c) /\ SentFor(c)' = SentFor(c)
      <4>1. \A r \in Rows : outcome'[r] = outcome[r]
        BY <1>1, <2>4
      <4>2. QED
        BY <4>1, SameSets DEF B!Listed
    <3>2. Cardinality(Tried(c))' = m /\ Cardinality(SentFor(c))' = s
      BY <3>1
    <3>3. Underway(c)' = IF c = chats[row].chat THEN attempt + 1 ELSE 0
      BY <2>4 DEF Underway, AtRow
    <3> HIDE DEF m, s
    <3>4. CASE c = chats[row].chat
      BY <1>1, <2>1, <2>2, <2>3, <2>4, <3>2, <3>3, <3>4
    <3>5. CASE c # chats[row].chat
      BY <1>1, <2>1, <2>2, <2>3, <3>2, <3>3, <3>5
    <3>6. QED
      BY <3>4, <3>5
  <2>5. CASE stage' = "pick"
    <3>1. outcome'[row] \in {"sent", "failed"}
      BY <2>5
    <3>2. /\ c # chats[row].chat => Cardinality(Tried(c))' = m /\ Cardinality(SentFor(c))' = s
          /\ c = chats[row].chat =>
               /\ Cardinality(Tried(c))' = m + 1
               /\ Cardinality(SentFor(c))' = IF outcome'[row] = "sent" THEN s + 1 ELSE s
      BY <3>1, RowCounted
    <3>3. Underway(c)' = 0
      BY <2>5 DEF Underway, AtRow
    <3> HIDE DEF m, s
    <3>4. CASE c = chats[row].chat
      BY <1>1, <2>1, <2>2, <2>3, <3>2, <3>3, <3>4
    <3>5. CASE c # chats[row].chat
      BY <1>1, <2>1, <2>2, <2>3, <3>2, <3>3, <3>5
    <3>6. QED
      BY <3>4, <3>5
  <2>6. QED
    BY <2>4, <2>5
<1>4. QED
  BY <1>2, <1>3 DEF Counts

\* The steps between two requests.
LEMMA CountsQuietStep ==
  ASSUME B!BroadcastAssumption, B!TypeOK, Accounts, Counts,
         UNCHANGED <<kind, chats, copies, lost, calls>>,
         \A r \in B!Listed : /\ outcome'[r] = "sent" <=> outcome[r] = "sent"
                             /\ outcome'[r] = "failed" <=> outcome[r] = "failed",
         \/ AtRow /\ AtRow' /\ UNCHANGED <<row, attempt>>
         \/ ~AtRow /\ (AtRow' => attempt' = 0)
  PROVE  Counts'
<1>1. ASSUME NEW c \in ChatIds
      PROVE  /\ copies'[c] = lost'[c] + Cardinality(SentFor(c))'
             /\ copies'[c] <= Attempts * Cardinality(Tried(c))' + Underway(c)'
  <2>1. Tried(c)' = Tried(c) /\ SentFor(c)' = SentFor(c)
    BY SameSets
  <2>2. Underway(c)' = Underway(c)
    BY DEF Underway
  <2>3. QED
    BY <2>1, <2>2 DEF Counts
<1>2. QED
  BY <1>1 DEF Counts

LEMMA CountsInit ==
  ASSUME B!BroadcastAssumption
  PROVE  B!Init => Counts
<1> SUFFICES ASSUME B!Init PROVE Counts
  OBVIOUS
<1>1. \A c \in ChatIds : Tried(c) = {} /\ SentFor(c) = {} /\ Underway(c) = 0
  BY DEF B!Init, Tried, SentFor, Underway, AtRow, B!Naming, B!Listed
<1>2. Cardinality({}) = 0 /\ Attempts \in Nat
  BY FS_EmptySet DEF B!BroadcastAssumption
<1>3. ASSUME NEW c \in ChatIds
      PROVE  /\ copies[c] = lost[c] + Cardinality(SentFor(c))
             /\ copies[c] <= Attempts * Cardinality(Tried(c)) + Underway(c)
  <2>1. copies[c] = 0 /\ lost[c] = 0
    BY DEF B!Init
  <2>2. Cardinality(SentFor(c)) = 0 /\ Cardinality(Tried(c)) = 0 /\ Underway(c) = 0
    BY <1>1, <1>2
  <2>3. QED
    BY <1>2, <2>1, <2>2
<1>4. \A r \in Rows : calls[r] <= Attempts
  BY <1>2 DEF B!Init
<1>5. QED
  BY <1>3, <1>4 DEF Counts

LEMMA CountsStep ==
  ASSUME B!BroadcastAssumption
  PROVE  B!TypeOK /\ B!TypeOK' /\ Accounts /\ Counts /\ [B!Next]_(B!vars) => Counts'
<1> SUFFICES ASSUME B!TypeOK, B!TypeOK', Accounts, Counts, [B!Next]_(B!vars)
             PROVE  Counts'
  OBVIOUS
<1>1. CASE B!QueryFails \/ B!Finish \/ (\E d \in Latencies : B!Overview(d))
           \/ B!Resume \/ (\E r \in Rows : B!Take(r)) \/ UNCHANGED B!vars
  BY <1>1, CountsQuietStep
  DEF B!QueryFails, B!Finish, B!Overview, B!Resume, B!Take, B!vars, AtRow
<1>2. CASE B!Settings
  BY <1>2, SettingsLeave, CountsQuietStep DEF AtRow
<1>3. ASSUME NEW d \in Latencies, B!List(d) PROVE Counts'
  <2>1. \A r \in Rows : outcome[r] = "none" /\ outcome'[r] = "none"
    BY <1>3 DEF B!List, Accounts, Before
  <2>2. ASSUME NEW c \in ChatIds
        PROVE  Tried(c) = {} /\ SentFor(c) = {} /\ Tried(c)' = {} /\ SentFor(c)' = {}
    BY <2>1 DEF Tried, SentFor, B!Naming, B!Listed
  <2>3. \A c \in ChatIds : Underway(c) = 0 /\ Underway(c)' = 0
    BY <1>3 DEF B!List, Underway, AtRow
  <2>4. copies' = copies /\ lost' = lost /\ calls' = calls
    BY <1>3 DEF B!List
  <2>5. QED
    BY <2>2, <2>3, <2>4 DEF Counts
<1>4. ASSUME NEW r \in Rows, B!Skip(r) PROVE Counts'
  <2>1. /\ UNCHANGED <<kind, chats, copies, lost, calls>> /\ ~AtRow /\ ~AtRow'
        /\ r \in todo /\ outcome' = [outcome EXCEPT ![r] = "skipped"]
    BY <1>4 DEF B!Skip, AtRow
  <2>2. outcome[r] = "none" /\ outcome \in [Rows -> {"none", "skipped", "sent", "failed"}]
    BY <2>1 DEF Accounts, Ahead, B!TypeOK
  <2>3. \A k \in B!Listed : /\ outcome'[k] = "sent" <=> outcome[k] = "sent"
                            /\ outcome'[k] = "failed" <=> outcome[k] = "failed"
    BY <2>1, <2>2 DEF B!Listed
  <2>4. QED
    BY <2>1, <2>3, CountsQuietStep
<1>5. ASSUME NEW d \in Nat, B!Accepted(d) \/ B!Refused(d) PROVE Counts'
  <2>1. B!Call(d) /\ AtRow /\ UNCHANGED <<kind, chats, row>>
    BY <1>5 DEF B!Accepted, B!Refused, B!Call, AtRow
  <2>2. row \in Rows /\ chats[row].chat \in ChatIds
    BY <2>1, RowAtHand
  <2>3. calls'[row] <= calls[row] + 1 /\ \A r \in Rows \ {row} : calls'[r] = calls[r]
    BY <2>1, <2>2, TypeCallStep DEF B!TypeOK
  <2>4. CASE B!Accepted(d)
    BY <2>1, <2>2, <2>3, <2>4, CountsCallStep DEF B!Accepted, B!Deliver, B!Return, B!TypeOK
  <2>5. CASE B!Refused(d)
    BY <2>1, <2>2, <2>3, <2>5, CountsCallStep DEF B!Refused, B!Return, B!TypeOK
  <2>6. QED
    BY <1>5, <2>4, <2>5
<1>6. ASSUME NEW d \in Nat, B!RateLimited(d) PROVE Counts'
  <2>1. B!Call(d) /\ AtRow /\ UNCHANGED <<kind, chats, row, copies, lost>>
    BY <1>6 DEF B!RateLimited, B!Call, AtRow
  <2>2. row \in Rows /\ chats[row].chat \in ChatIds /\ outcome[row] = "none"
    BY <2>1, RowAtHand
  <2>3. calls'[row] <= calls[row] + 1 /\ \A r \in Rows \ {row} : calls'[r] = calls[r]
    BY <2>1, <2>2, TypeCallStep DEF B!TypeOK
  <2>4. PICK w \in Nat : B!Retry(w)
    BY <1>6 DEF B!BroadcastAssumption, B!RateLimited
  <2>5. QED
    BY <2>1, <2>2, <2>3, <2>4, TypeRetry, CountsCallStep DEF AtRow
<1>7. ASSUME NEW d \in Nat, B!Fails(d) PROVE Counts'
  <2>1. B!Call(d) /\ AtRow /\ UNCHANGED <<kind, chats, row>>
    BY <1>7 DEF B!Fails, B!Call, AtRow
  <2>2. row \in Rows /\ chats[row].chat \in ChatIds /\ outcome[row] = "none"
    BY <2>1, RowAtHand
  <2>3. calls'[row] <= calls[row] + 1 /\ \A r \in Rows \ {row} : calls'[r] = calls[r]
    BY <2>1, <2>2, TypeCallStep DEF B!TypeOK
  <2>4. (attempt + 1) * Backoff \in Nat /\ B!Retry((attempt + 1) * Backoff)
    BY <1>7 DEF B!BroadcastAssumption, B!Fails, B!TypeOK
  <2>5. \/ UNCHANGED <<copies, lost>>
        \/ /\ copies'[chats[row].chat] = copies[chats[row].chat] + 1
           /\ lost'[chats[row].chat] = lost[chats[row].chat] + 1
           /\ \A c \in ChatIds : c # chats[row].chat => copies'[c] = copies[c] /\ lost'[c] = lost[c]
    BY <1>7, <2>2 DEF B!Fails, B!Deliver, B!TypeOK
  <2>6. QED
    BY <2>1, <2>2, <2>3, <2>4, <2>5, TypeRetry, CountsCallStep DEF AtRow
<1>8. CASE B!TimesOut
  BY <1>7, <1>8, Arithmetic DEF B!TimesOut
<1>9. CASE B!Expired
  <2>1. AtRow /\ UNCHANGED <<kind, chats, row, copies, lost, calls>>
    BY <1>9 DEF B!Expired, AtRow
  <2>2. row \in Rows /\ outcome[row] = "none" /\ calls[row] \in Nat
    BY <2>1, RowAtHand DEF B!TypeOK
  <2>3. (attempt + 1) * Backoff \in Nat /\ B!Retry((attempt + 1) * Backoff)
    BY <1>9 DEF B!BroadcastAssumption, B!Expired, B!TypeOK
  <2>4. QED
    BY <2>1, <2>2, <2>3, TypeRetry, CountsCallStep DEF AtRow
<1>10. CASE B!Cancelled
  <2>1. AtRow /\ UNCHANGED <<kind, chats, row, copies, lost, calls>>
    BY <1>10 DEF B!Cancelled, AtRow
  <2>2. row \in Rows /\ outcome[row] = "none" /\ calls[row] \in Nat
    BY <2>1, RowAtHand DEF B!TypeOK
  <2>3. QED
    BY <1>10, <2>1, <2>2, CountsCallStep DEF B!Cancelled, B!Return, B!TypeOK
<1>11. QED
  BY <1>1, <1>2, <1>3, <1>4, <1>5, <1>6, <1>7, <1>8, <1>9, <1>10
  DEF B!BroadcastAssumption, B!Next, B!Step, B!Deliveries

\* A row that was tried, or is at hand, wants the message.
LEMMA CountsExplain ==
  ASSUME B!BroadcastAssumption, B!TypeOK, Accounts, Counts
  PROVE  CopiesExplained
<1>1. ASSUME NEW c \in ChatIds
      PROVE  copies[c] <= Attempts * Cardinality(WantedFor(c))
  <2> DEFINE m == Cardinality(Tried(c))  w == Cardinality(WantedFor(c))
  <2>1. /\ copies[c] \in Nat /\ m \in Nat /\ w \in Nat /\ Attempts \in Nat
        /\ copies[c] <= Attempts * m + Underway(c)
        /\ Attempts * m \in Nat /\ Attempts * w \in Nat
        /\ Attempts * (m + 1) = Attempts * m + Attempts
    <3>1. Attempts \in Nat /\ m \in Nat /\ w \in Nat
      BY FiniteRows DEF B!BroadcastAssumption
    <3>2. QED
      BY <3>1, Times DEF B!TypeOK, Counts
  <2>2. Tried(c) \subseteq WantedFor(c)
    BY DEF Tried, WantedFor, Accounts, Behind, B!Naming, B!Listed
  <2>3. CASE AtRow /\ chats[row].chat = c
    <3>1. /\ row \in WantedFor(c) /\ row \notin Tried(c) /\ attempt \in Nat
          /\ attempt < Attempts
      BY <2>3, RowAtHand DEF WantedFor
    <3>2. Tried(c) \cup {row} \subseteq WantedFor(c) /\ Cardinality(Tried(c) \cup {row}) = m + 1
      BY <2>2, <3>1, FiniteRows, FS_AddElement
    <3>3. m + 1 <= w
      BY <3>2, FiniteRows, FS_Subset
    <3>4. Attempts * (m + 1) <= Attempts * w
      BY <2>1, <3>3, Times
    <3>5. Underway(c) = attempt
      BY <2>3 DEF Underway
    <3>6. m \in Nat /\ w \in Nat /\ copies[c] <= Attempts * m + attempt
      BY <2>1, <3>5
    <3>7. QED
      BY <2>1, <3>1, <3>4, <3>6
  <2>4. CASE ~(AtRow /\ chats[row].chat = c)
    <3>1. m <= w
      BY <2>2, FiniteRows, FS_Subset
    <3>2. Attempts * m <= Attempts * w
      BY <2>1, <3>1, Times
    <3>3. Underway(c) = 0
      BY <2>4 DEF Underway
    <3>4. QED
      BY <2>1, <3>2, <3>3
  <2>5. QED
    BY <2>3, <2>4
<1>2. \A c \in ChatIds : copies[c] = lost[c] + Cardinality(SentFor(c))
  BY DEF Counts
<1>3. \A r \in Rows : calls[r] <= Attempts
  BY DEF Counts
<1>4. ASSUME NEW c \in ChatIds
      PROVE  /\ {r \in Naming(c) : outcome[r] = "sent"} = SentFor(c)
             /\ {r \in Naming(c) : Wants(chats[r].mode)} = WantedFor(c)
  BY SameState DEF SentFor, WantedFor
<1>5. ASSUME NEW c \in ChatIds
      PROVE  /\ copies[c] = lost[c] + Cardinality({r \in Naming(c) : outcome[r] = "sent"})
             /\ copies[c] <= Attempts * Cardinality({r \in Naming(c) : Wants(chats[r].mode)})
  <2>1. /\ Cardinality({r \in Naming(c) : outcome[r] = "sent"}) = Cardinality(SentFor(c))
        /\ Cardinality({r \in Naming(c) : Wants(chats[r].mode)}) = Cardinality(WantedFor(c))
    BY <1>4, Zenon
  <2>2. QED
    BY <1>1, <1>2, <2>1
<1>6. QED
  BY <1>3, <1>5 DEF CopiesExplained
-----------------------------------------------------------------------------
\* Who was given up without a request was come to too late.
UntriedMeansLate == \A r \in Rows : (outcome[r] = "failed" /\ calls[r] = 0) => left = 0

LEMMA UntriedStep ==
  ASSUME B!BroadcastAssumption
  PROVE  B!TypeOK /\ B!TypeOK' /\ UntriedMeansLate /\ [B!Next]_(B!vars) => UntriedMeansLate'
<1> SUFFICES ASSUME B!TypeOK, B!TypeOK', UntriedMeansLate, [B!Next]_(B!vars)
             PROVE  UntriedMeansLate'
  OBVIOUS
<1>1. CASE \/ \E d \in Latencies : B!Overview(d) \/ B!List(d)
           \/ B!QueryFails \/ B!Finish \/ B!Resume \/ UNCHANGED B!vars
           \/ \E r \in Rows : B!Take(r) \/ B!Skip(r)
  BY <1>1, Arithmetic
  DEF B!BroadcastAssumption, B!Overview, B!List, B!QueryFails, B!Finish, B!Resume,
      B!Take, B!Skip, B!Spend,
      UntriedMeansLate, B!vars, B!TypeOK
<1>2. ASSUME NEW d \in Nat, B!Accepted(d) \/ B!Refused(d) \/ B!RateLimited(d) \/ B!Fails(d)
      PROVE  UntriedMeansLate'
  <2>1. B!Call(d) /\ row \in Rows
    BY <1>2 DEF B!Accepted, B!Refused, B!RateLimited, B!Fails, B!TypeOK
  <2>2. \A r \in Rows \ {row} : outcome'[r] = outcome[r]
    <3>1. (attempt + 1) * Backoff \in Nat
      BY DEF B!BroadcastAssumption, B!TypeOK
    <3>2. CASE B!RateLimited(d) \/ B!Fails(d)
      BY <3>1, <3>2, <2>1, TypeRetry
      DEF B!BroadcastAssumption, B!RateLimited, B!Fails, B!Call
    <3>3. CASE B!Accepted(d) \/ B!Refused(d)
      BY <3>3 DEF B!Accepted, B!Refused, B!Return, B!TypeOK
    <3>4. QED
      BY <1>2, <3>2, <3>3
  <2>3. left > 0
    BY <2>1 DEF B!Call
  <2>4. QED
    BY <2>1, <2>2, <2>3, TypeCallStep DEF UntriedMeansLate, B!TypeOK
<1>3. CASE B!TimesOut
  BY <1>2, <1>3, Arithmetic DEF B!TimesOut
<1>4. CASE B!Expired \/ B!Cancelled
  BY <1>4 DEF B!Expired, B!Cancelled, UntriedMeansLate
<1>5. CASE B!Settings
  BY <1>5, SettingsLeave DEF UntriedMeansLate
<1>6. QED
  BY <1>1, <1>2, <1>3, <1>4, <1>5 DEF B!BroadcastAssumption, B!Next, B!Step, B!Deliveries

LEMMA AccountsHandle ==
  ASSUME B!BroadcastAssumption
  PROVE  B!TypeOK /\ Accounts /\ UntriedMeansLate => EveryRowHandled
<1>1. B!TypeOK /\ Accounts /\ UntriedMeansLate => B!EveryRowHandled
  BY DEF B!TypeOK, Accounts, Ahead, Behind, AtRow, B!Listed, UntriedMeansLate, B!EveryRowHandled
<1>2. QED
  BY <1>1, SameState
-----------------------------------------------------------------------------
\* The inductive invariant of a broadcast.
SendsInv == B!TypeOK /\ Accounts /\ Counts /\ UntriedMeansLate

\* It holds at first and after every step.
THEOREM SendsInvariance ==
  ASSUME B!BroadcastAssumption
  PROVE  B!Spec => []SendsInv
<1>1. B!Init => SendsInv
  BY TypeInit, AccountsInit, CountsInit
  DEF B!BroadcastAssumption, B!Init, SendsInv, UntriedMeansLate
<1>2. SendsInv /\ [B!Next]_(B!vars) => SendsInv'
  BY TypeStep, AccountsStep, CountsStep, UntriedStep DEF SendsInv
<1>3. QED
  BY <1>1, <1>2, PTL DEF B!Spec

\* Every reachable state is of the declared types: no time is spent that is not left,
\* and no attempt is made beyond the last (sendMessage).
THEOREM TypeCorrect ==
  ASSUME B!BroadcastAssumption
  PROVE  B!Spec => []B!TypeOK
<1>1. SendsInv => B!TypeOK
  BY DEF SendsInv
<1>2. QED
  BY <1>1, SendsInvariance, PTL

\* A chat has got one copy for each of its rows the loop believes it sent to, and those
\* whose answer was lost, and no more than sendMessage has attempts for the rows naming it.
THEOREM CopiesAreExplained ==
  ASSUME B!BroadcastAssumption
  PROVE  B!Spec => []CopiesExplained
<1>1. SendsInv => CopiesExplained
  BY CountsExplain DEF SendsInv
<1>2. QED
  BY <1>1, SendsInvariance, PTL

\* No chat's failure ends the loop of broadcast: every listed row is tried, or skipped for its
\* setting, and one not tried was come to when no time was left.
THEOREM NoRowIsForgotten ==
  ASSUME B!BroadcastAssumption
  PROVE  B!Spec => []EveryRowHandled
<1>1. SendsInv => EveryRowHandled
  BY AccountsHandle DEF SendsInv
<1>2. QED
  BY <1>1, SendsInvariance, PTL
=============================================================================
