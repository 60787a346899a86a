--------------------------- MODULE MessagingProofs ---------------------------
(***************************************************************************)
(* Theorems about Messaging, for any number of sessions, channels, emojis  *)
(* and requests and any sizes of the client's arrays.  The inductive       *)
(* invariant says what a packet that is still somewhere may claim of the   *)
(* message table.                                                          *)
(***************************************************************************)
EXTENDS Messaging, SequenceTheorems, TLAPS

(* Rows are numbered by the sequence behind id_message, each once.         *)
Numbered ==
  /\ \A row \in messages : row.id < nextMessage /\ row.id >= 1
  /\ \A r1, r2 \in messages : r1.id = r2.id => r1 = r2

(* A message some packet, row or client names was posted, in that channel. *)
Genuine(m, c) ==
  /\ m \in 1..(nextMessage - 1)
  /\ \A row \in messages : row.id = m => row.channel = c

(* A deletion some packet tells of has happened.                           *)
Retracted(m) == m \in 1..(nextMessage - 1) /\ \A row \in messages : row.id # m

Truthful(p) ==
  /\ p.type = "MESSAGE" => Genuine(p.id, p.channel)
  /\ p.type = "DELMSG" => Retracted(p.id)

InboxTruthful ==
  \A s \in Session : \A i \in DOMAIN inbox[s] : Truthful(inbox[s][i])

TaskTruthful == \A s \in Session : Truthful(task[s])

RowsTruthful ==
  \A s \in Session : \A row \in rows[s] : Genuine(row.id, row.channel)

ViewTruthful ==
  \A s \in Session : \A i \in DOMAIN view[s] :
    Genuine(view[s][i].id, view[s][i].channel)

(* A history is asked for right behind the join of its channel.            *)
HistoryAfterJoin ==
  \A s \in Session : \A i \in DOMAIN outbox[s] :
    outbox[s][i].type = "MSG_HISTORY" =>
      IF i = 1 THEN outbox[s][i].channel = channel[s]
      ELSE /\ outbox[s][i - 1].type = "CHANNEL_JOIN"
           /\ outbox[s][i - 1].channel = outbox[s][i].channel

(* The menu sends reactions only.                                          *)
MenuOffers == \A s \in Session : \A r \in menu[s] :
                r.type \in {"MSG_REACTION", "MSG_REACTION_REMOVE"}

FetchedHere == \A s \in Session : fetched[s] \in {NoChannel, channel[s]}

(* Only the thread that holds the mutex is in the loop.                    *)
OneCaster == \A s \in Session : pc[s] = "cast" => mutex = s

(* A message is broadcast to its own channel.                              *)
SameChannel ==
  \A s \in Session : (pc[s] \in {"lock", "cast"} /\ task[s].type = "MESSAGE") =>
                       to[s] = task[s].channel

(* What a thread holds in each place.                                      *)
TaskFits ==
  \A s \in Session :
    /\ pc[s] \in {"lock", "cast", "look", "tell"} => task[s] \in Packet
    /\ pc[s] \in {"look"} => task[s].type = "MESSAGE"
    /\ pc[s] \in {"lock", "cast", "tell"} =>
         task[s].type \in {"MESSAGE", "DELMSG", "REACTIONS"}
    /\ pc[s] \in {"tell"} => task[s].type = "REACTIONS"
    /\ pc[s] \in {"clear", "insert"} =>
         task[s] \in [type : {"MSG_REACTION"}, id : Nat, emoji : Emoji]
    /\ pc[s] \in {"remove"} =>
         task[s] \in [type : {"MSG_REACTION_REMOVE"}, id : Nat]
    /\ pc[s] \in {"select"} =>
         task[s] \in [type : {"MSG_REACTION"}, id : Nat, emoji : Emoji]
                     \cup [type : {"MSG_REACTION_REMOVE"}, id : Nat]
    /\ pc[s] \notin {"rows", "look", "tell"} => rows[s] = {}

IInv == /\ TypeOK
        /\ Numbered
        /\ InboxTruthful
        /\ TaskTruthful
        /\ RowsTruthful
        /\ ViewTruthful
        /\ MenuOffers
        /\ HistoryAfterJoin
        /\ FetchedHere
        /\ OneCaster
        /\ SameChannel
        /\ TaskFits
        /\ NoLostMessage

-----------------------------------------------------------------------------
(* Sequences and packets.                                                  *)
LEMMA HeadAndTail ==
  ASSUME NEW S, NEW q \in Seq(S), q # <<>>
  PROVE  /\ Head(q) \in S
         /\ Tail(q) \in Seq(S)
         /\ Len(Tail(q)) = Len(q) - 1
         /\ \A i \in 1..Len(Tail(q)) : Tail(q)[i] = q[i + 1]
         /\ Len(q) >= 1 /\ Head(q) = q[1]
  OBVIOUS

LEMMA PacketShape ==
  ASSUME NEW p \in Packet
  PROVE  /\ p.type = "MESSAGE" => p \in MessagePacket /\ p.id \in Nat /\ p.channel \in Channel
         /\ p.type = "DELMSG" => p.id \in Nat /\ p = Deleted(p.id)
         /\ p.type = "REACTIONS" => p.id \in Nat /\ p.some \in SUBSET ReactionRow
  BY DEF Packet, MessagePacket, Deleted

LEMMA RequestShape ==
  ASSUME NEW p \in Request
  PROVE  /\ p.type \in {"CHANNEL_JOIN", "MSG_HISTORY"} => p.channel \in Channel
         /\ p.type \in {"MSG_DELETE", "MSG_REACTION_REMOVE", "MSG_REACTION"} => p.id \in Nat
         /\ p.type = "MSG_REACTION" =>
              p \in [type : {"MSG_REACTION"}, id : Nat, emoji : Emoji]
         /\ p.type = "MSG_REACTION_REMOVE" =>
              p \in [type : {"MSG_REACTION_REMOVE"}, id : Nat]
         /\ p.type \notin {"MESSAGE", "DELMSG", "REACTIONS"}
  BY DEF Request

LEMMA PacketTypes ==
  /\ \A m \in Nat, c \in Channel : Message(m, c) \in MessagePacket /\ Message(m, c) \in Packet
  /\ \A m \in Nat : Deleted(m) \in Packet
  /\ \A m \in Nat : \A some \in SUBSET ReactionRow : Summary(m, some) \in Packet
  /\ Ok \in Packet /\ Error \in Packet
  BY DEF Message, Deleted, Summary, Ok, Error, Packet, MessagePacket

LEMMA RequestTypes ==
  /\ \A c \in Channel : Join(c) \in Request /\ History(c) \in Request
  /\ Send \in Request
  /\ \A m \in Nat : Delete(m) \in Request /\ Unreact(m) \in Request
  /\ \A m \in Nat, e \in Emoji : React(m, e) \in Request
  BY DEF Join, History, Send, Delete, Unreact, React, Request

-----------------------------------------------------------------------------
(* Types.                                                                  *)
StepOf(s) ==
  \/ SelectChannel(s) \/ TypeLine(s) \/ ClickDelete(s) \/ OpenMenu(s)
  \/ PickFromMenu(s)
  \/ HandleJoin(s) \/ HandleSend(s) \/ HandleDelete(s) \/ HandleHistory(s)
  \/ SendRow(s) \/ LookAtReactions(s) \/ TellReactions(s) \/ EndOfHistory(s)
  \/ HandleReaction(s) \/ ClearReaction(s) \/ InsertReaction(s)
  \/ RemoveReaction(s) \/ SelectReactions(s)
  \/ LockRegistry(s) \/ (\E t \in Session : Visit(s, t)) \/ UnlockRegistry(s)
  \/ ReceiveMessage(s) \/ ReceiveDeleted(s) \/ ReceiveSummary(s) \/ IgnoreReply(s)

LEMMA NextCases == Next => \E s \in Session : StepOf(s)
BY DEF Next, ClientUI, ServerThread, Listener, StepOf

LEMMA TypeInit == Init => TypeOK
BY MessagingAssumption, PacketTypes DEF Init, TypeOK, StoreTypeOK, PCs, Posted

(* What dispatching, sending and receiving do to the queues.               *)
LEMMA DispatchTypes ==
  ASSUME TypeOK, NEW s \in Session, NEW type, Dispatch(s, type)
  PROVE  /\ outbox' \in [Session -> Seq(Request)]
         /\ Requested(s) \in Request
         /\ Requested(s).type = type
  <1>1. outbox[s] \in Seq(Request) /\ outbox[s] # <<>>
    BY DEF TypeOK, Dispatch
  <1> QED
    BY <1>1, HeadAndTail DEF Dispatch, Requested, TypeOK

LEMMA SendsTypes ==
  ASSUME TypeOK, NEW s \in Session, NEW p \in Packet, Sends(s, p)
  PROVE  inbox' \in [Session -> Seq(Packet)]
  BY DEF Sends, TypeOK

LEMMA TransmitTypes ==
  ASSUME TypeOK, NEW s \in Session, NEW requests \in Seq(Request),
         Transmit(s, requests)
  PROVE  outbox' \in [Session -> Seq(Request)]
  BY DEF Transmit, TypeOK

LEMMA ReceivesTypes ==
  ASSUME TypeOK, NEW s \in Session, NEW type, Receives(s, type)
  PROVE  /\ inbox' \in [Session -> Seq(Packet)]
         /\ Received(s) \in Packet
         /\ Received(s).type = type
  <1>1. inbox[s] \in Seq(Packet) /\ inbox[s] # <<>>
    BY DEF TypeOK, Receives
  <1> QED
    BY <1>1, HeadAndTail DEF Receives, Received, TypeOK

WorkTyped == /\ pc \in [Session -> PCs]
             /\ task \in [Session -> Packet \cup Request]
             /\ to \in [Session -> Channel \cup {NoChannel}]

LEMMA WorksTypes ==
  ASSUME TypeOK, NEW s \in Session, NEW place \in PCs,
         NEW what \in Packet \cup Request, NEW where \in Channel \cup {NoChannel},
         Works(s, place, what, where)
  PROVE  WorkTyped'
  BY DEF Works, TypeOK, WorkTyped

LEMMA ClickTypes ==
  ASSUME TypeOK, NEW s \in Session, Click(s)
  PROVE  clicks' \in [Session -> 0..MaxRequests]
  BY MessagingAssumption DEF Click, TypeOK

(* A model that has one more message, or one less, still fits its array.   *)
LEMMA AddedTypes ==
  ASSUME NEW v \in Seq(MessagePacket), Len(v) <= MaxMessages, NEW p \in MessagePacket
  PROVE  Added(v, p) \in Seq(MessagePacket) /\ Len(Added(v, p)) <= MaxMessages
  <1>1. CASE Holds(v, p.id)
    BY <1>1 DEF Added
  <1>2. CASE ~Holds(v, p.id) /\ Full(v)
    <2>1. v # <<>> /\ Len(v) = MaxMessages
      BY <1>2, MessagingAssumption DEF Full
    <2>2. Tail(v) \in Seq(MessagePacket) /\ Len(Tail(v)) = MaxMessages - 1
      BY <2>1, HeadAndTail
    <2> QED
      BY <1>2, <2>2, MessagingAssumption DEF Added
  <1>3. CASE ~Holds(v, p.id) /\ ~Full(v)
    BY <1>3, MessagingAssumption DEF Added, Full
  <1> QED
    BY <1>1, <1>2, <1>3

LEMMA WithoutTypes ==
  ASSUME NEW v \in Seq(MessagePacket), NEW m
  PROVE  /\ Without(v, m) \in Seq(MessagePacket)
         /\ Len(Without(v, m)) <= Len(v)
         /\ \A n : n # m /\ Holds(v, n) => Holds(Without(v, m), n)
         /\ \A j \in DOMAIN Without(v, m) : \E k \in DOMAIN v : Without(v, m)[j] = v[k]
  <1>1. CASE ~Holds(v, m)
    BY <1>1 DEF Without
  <1>2. CASE Holds(v, m)
    <2> DEFINE i == CHOOSE j \in DOMAIN v : v[j].id = m
               w == [k \in 1..(Len(v) - 1) |-> IF k < i THEN v[k] ELSE v[k + 1]]
    <2>2. i \in DOMAIN v /\ v[i].id = m
      BY <1>2 DEF Holds
    <2>3. Without(v, m) = w
      BY <1>2 DEF Without
    <2>4. w \in Seq(MessagePacket) /\ Len(w) = Len(v) - 1
      <3>1. \A k \in 1..(Len(v) - 1) : k \in DOMAIN v /\ k + 1 \in DOMAIN v
        OBVIOUS
      <3>2. \A k \in DOMAIN v : v[k] \in MessagePacket
        OBVIOUS
      <3>3. Len(v) - 1 \in Nat
        BY <2>2
      <3> QED
        BY <3>1, <3>2, <3>3
    <2>5. ASSUME NEW n, n # m, Holds(v, n) PROVE Holds(w, n)
      <3>1. PICK k \in DOMAIN v : v[k].id = n
        BY <2>5 DEF Holds
      <3>2. k # i
        BY <3>1, <2>2, <2>5
      <3>3. CASE k < i
        <4>1. k \in 1..(Len(v) - 1) /\ w[k] = v[k]
          BY <3>3, <2>2
        <4> QED
          BY <4>1, <3>1, <2>4 DEF Holds
      <3>4. CASE k > i
        <4>1. k - 1 \in 1..(Len(v) - 1) /\ w[k - 1] = v[k]
          BY <3>4, <2>2
        <4> QED
          BY <4>1, <3>1, <2>4 DEF Holds
      <3> QED
        BY <3>2, <3>3, <3>4, <2>2
    <2>6. \A k \in DOMAIN w : \E l \in DOMAIN v : w[k] = v[l]
      <3> TAKE k \in DOMAIN w
      <3>1. k \in 1..(Len(v) - 1)
        OBVIOUS
      <3>2. CASE k < i
        BY <3>1, <3>2
      <3>3. CASE ~(k < i)
        BY <3>1, <3>3
      <3> QED
        BY <3>2, <3>3
    <2> HIDE DEF w
    <2>7. Len(w) <= Len(v)
      BY <2>4
    <2> QED
      BY <2>3, <2>4, <2>5, <2>6, <2>7
  <1> QED
    BY <1>1, <1>2

LEMMA TypeStepUI ==
  ASSUME TypeOK, NEW s \in Session,
         \/ SelectChannel(s) \/ TypeLine(s) \/ ClickDelete(s) \/ OpenMenu(s)
         \/ PickFromMenu(s)
  PROVE  TypeOK'
  <1> USE DEF storeVars, queueVars, workVars, lockVars, ghostVars
  <1>6. \A r \in Request : <<r>> \in Seq(Request)
    OBVIOUS
  <1>0. OnScreen(s) \subseteq Nat
    <2>1. ASSUME NEW i \in DOMAIN view[s] PROVE view[s][i].id \in Nat
      <3>1. view[s] \in Seq(MessagePacket)
        BY DEF TypeOK
      <3>2. view[s][i] \in MessagePacket
        BY <3>1
      <3> QED
        BY <3>2 DEF MessagePacket
    <2> QED
      BY <2>1 DEF OnScreen
  <1>1. CASE SelectChannel(s)
    <2> PICK c \in Channel : shown' = [shown EXCEPT ![s] = c] /\ Transmit(s, OpenRequests(c))
      BY <1>1 DEF SelectChannel
    <2>1. OpenRequests(c) \in Seq(Request)
      BY RequestTypes DEF OpenRequests
    <2>2. outbox' \in [Session -> Seq(Request)]
      BY <2>1, TransmitTypes
    <2> QED
      BY <1>1, <2>2, ClickTypes DEF SelectChannel, TypeOK, StoreTypeOK
  <1>2. CASE TypeLine(s)
    <2>1. outbox' \in [Session -> Seq(Request)]
      BY <1>2, <1>6, RequestTypes, TransmitTypes DEF TypeLine
    <2> QED
      BY <1>2, <2>1, ClickTypes DEF TypeLine, TypeOK, StoreTypeOK
  <1>3. CASE ClickDelete(s)
    <2>1. outbox' \in [Session -> Seq(Request)]
      <3> PICK m \in OnScreen(s) : Transmit(s, <<Delete(m)>>)
        BY <1>3 DEF ClickDelete
      <3>1. <<Delete(m)>> \in Seq(Request)
        BY <1>0, <1>6, RequestTypes
      <3> QED
        BY <3>1, TransmitTypes
    <2> QED
      BY <1>3, <2>1, ClickTypes DEF ClickDelete, TypeOK, StoreTypeOK
  <1>4. CASE OpenMenu(s)
    <2>1. menu' \in [Session -> SUBSET Request]
      <3> PICK m \in OnScreen(s) :
            menu' = [menu EXCEPT ![s] =
                  IF \E r \in reacts[s] : r.message = m /\ r.user = UserOf[s]
                    THEN {Unreact(m)}
                    ELSE {React(m, e) : e \in Emoji}]
        BY <1>4 DEF OpenMenu
      <3>1. {Unreact(m)} \in SUBSET Request /\ {React(m, e) : e \in Emoji} \in SUBSET Request
        BY <1>0, RequestTypes
      <3> QED
        BY <3>1 DEF TypeOK
    <2> QED
      BY <1>4, <2>1, ClickTypes DEF OpenMenu, TypeOK, StoreTypeOK
  <1>5. CASE PickFromMenu(s)
    <2>1. outbox' \in [Session -> Seq(Request)]
      <3>1. CASE UNCHANGED outbox
        BY <3>1 DEF TypeOK
      <3>2. ASSUME NEW request \in menu[s], Transmit(s, <<request>>)
            PROVE  outbox' \in [Session -> Seq(Request)]
        <4>1. request \in Request
          BY <3>2 DEF TypeOK
        <4> QED
          BY <3>2, <4>1, <1>6, TransmitTypes
      <3> QED
        BY <1>5, <3>1, <3>2 DEF PickFromMenu
    <2> QED
      BY <1>5, <2>1 DEF PickFromMenu, TypeOK, StoreTypeOK
  <1> QED
    BY <1>1, <1>2, <1>3, <1>4, <1>5

(* What TypeOK says of a thread and of what is still to be read.           *)
LEMMA TypeUse ==
  ASSUME TypeOK, NEW s \in Session
  PROVE  /\ rows[s] \subseteq MessageRow
         /\ task[s] \in Packet \cup Request
         /\ to[s] \in Channel \cup {NoChannel}
         /\ channel[s] \in Channel \cup {NoChannel}
         /\ view[s] \in Seq(MessagePacket)
         /\ inbox[s] \in Seq(Packet)
         /\ outbox[s] \in Seq(Request)
         /\ nextMessage \in Nat \ {0}
         /\ messages \subseteq MessageRow
         /\ \A row \in MessageRow : row.id \in Nat /\ row.channel \in Channel
  BY DEF TypeOK, StoreTypeOK, MessageRow

LEMMA TypeStepServer ==
  ASSUME TypeOK, TaskFits, NEW s \in Session,
         \/ HandleJoin(s) \/ HandleSend(s) \/ HandleDelete(s) \/ HandleHistory(s)
         \/ SendRow(s) \/ LookAtReactions(s) \/ TellReactions(s)
         \/ EndOfHistory(s)
  PROVE  TypeOK'
  <1> USE DEF storeVars, queueVars, workVars, lockVars, ghostVars, clientVars
  <1>1. CASE HandleJoin(s)
    <2>1. /\ outbox' \in [Session -> Seq(Request)]
          /\ Requested(s).channel \in Channel
      BY <1>1, DispatchTypes, RequestShape DEF HandleJoin
    <2>2. inbox' \in [Session -> Seq(Packet)]
      BY <1>1, SendsTypes, PacketTypes DEF HandleJoin
    <2>3. (1..(nextMessage - 1)) \ Posted \in SUBSET Nat
      BY DEF TypeOK, StoreTypeOK
    <2>4. /\ channel' \in [Session -> Channel \cup {NoChannel}]
          /\ fetched' \in [Session -> Channel \cup {NoChannel}]
          /\ excused' \in [Session -> SUBSET Nat]
      BY <1>1, <2>1, <2>3 DEF HandleJoin, TypeOK, WorkTyped
    <2> QED
      BY <1>1, <2>1, <2>2, <2>4 DEF HandleJoin, TypeOK, WorkTyped, StoreTypeOK
  <1>2. CASE HandleSend(s)
    <2>1. outbox' \in [Session -> Seq(Request)]
      BY <1>2, DispatchTypes DEF HandleSend
    <2>2. CASE channel[s] = NoChannel
      <3>1. inbox' \in [Session -> Seq(Packet)]
        BY <1>2, <2>2, SendsTypes, PacketTypes DEF HandleSend
      <3> QED
        BY <1>2, <2>1, <2>2, <3>1 DEF HandleSend, TypeOK, WorkTyped, StoreTypeOK
    <2>3. ASSUME channel[s] # NoChannel, NEW id \in {nextMessage, Failed},
                 MessageInsert(UserOf[s], channel[s], id),
                 IF id = Failed
                   THEN Sends(s, Error) /\ UNCHANGED workVars
                   ELSE /\ Works(s, "lock", Message(id, channel[s]), channel[s])
                        /\ UNCHANGED inbox
          PROVE  TypeOK'
      <3>0. channel[s] \in Channel /\ UserOf[s] \in User
        BY <2>3, MessagingAssumption DEF TypeOK
      <3>1. CASE id = Failed
        <4>1. inbox' \in [Session -> Seq(Packet)]
          BY <2>3, <3>1, SendsTypes, PacketTypes
        <4>2. StoreTypeOK'
          BY <2>3, <3>1, StoreAssumption DEF MessageInsert, TypeOK, StoreTypeOK
        <4> QED
          BY <1>2, <2>1, <2>3, <3>1, <4>1, <4>2 DEF HandleSend, TypeOK, WorkTyped
      <3>2. CASE id # Failed
        <4>1. id = nextMessage /\ id \in Nat /\ id # 0
          BY <2>3, <3>2 DEF TypeOK, StoreTypeOK
        <4>2. [id |-> id, author |-> UserOf[s], channel |-> channel[s]] \in MessageRow
          BY <3>0, <4>1 DEF MessageRow
        <4>3. StoreTypeOK'
          BY <2>3, <3>2, <4>1, <4>2 DEF MessageInsert, TypeOK, StoreTypeOK
        <4>4. Message(id, channel[s]) \in Packet
          BY <3>0, <4>1, PacketTypes
        <4>5. WorkTyped'
          BY <2>3, <3>0, <3>2, <4>4, WorksTypes DEF PCs
        <4> QED
          BY <1>2, <2>1, <2>3, <3>2, <4>3, <4>5 DEF HandleSend, TypeOK, WorkTyped
      <3> QED
        BY <3>1, <3>2
    <2> QED
      BY <1>2, <2>2, <2>3 DEF HandleSend
  <1>3. CASE HandleDelete(s)
    <2>1. /\ outbox' \in [Session -> Seq(Request)]
          /\ Requested(s).id \in Nat
      BY <1>3, DispatchTypes, RequestShape DEF HandleDelete
    <2> DEFINE m == Requested(s).id
    <2>2. PICK c \in Channel \cup {Failed} :
            /\ MessageDelete(UserOf[s], m, c)
            /\ IF c = Failed
                 THEN Sends(s, Error) /\ UNCHANGED <<workVars, excused>>
                 ELSE /\ Sends(s, Ok)
                      /\ Works(s, "lock", Deleted(m), c)
                      /\ excused' = [t \in Session |->
                           IF channel[t] # c THEN excused[t] \cup {m}
                                             ELSE excused[t]]
      BY <1>3 DEF HandleDelete
    <2>3. StoreTypeOK'
      BY <2>2 DEF MessageDelete, TypeOK, StoreTypeOK
    <2>4. inbox' \in [Session -> Seq(Packet)]
      BY <2>2, SendsTypes, PacketTypes
    <2>5. excused' \in [Session -> SUBSET Nat]
      <3>1. CASE c = Failed
        BY <2>2, <3>1 DEF TypeOK
      <3>2. CASE c # Failed
        <4>1. \A t \in Session : excused[t] \in SUBSET Nat /\ excused[t] \cup {m} \in SUBSET Nat
          BY <2>1 DEF TypeOK
        <4> HIDE DEF m
        <4> QED
          BY <2>2, <3>2, <4>1
      <3> QED
        BY <3>1, <3>2
    <2>6. CASE c = Failed
      BY <1>3, <2>1, <2>2, <2>3, <2>4, <2>5, <2>6 DEF HandleDelete, TypeOK, WorkTyped
    <2>7. CASE c # Failed
      <3>1. WorkTyped'
        <4>1. Works(s, "lock", Deleted(m), c)
          BY <2>2, <2>7
        <4>2. Deleted(m) \in Packet
          BY <2>1, PacketTypes
        <4> QED
          BY <2>7, <4>1, <4>2, WorksTypes DEF PCs
      <3> QED
        BY <1>3, <2>1, <2>3, <2>4, <2>5, <3>1 DEF HandleDelete, TypeOK, WorkTyped
    <2> QED
      BY <2>6, <2>7
  <1>4. CASE HandleHistory(s)
    <2> DEFINE c == Requested(s).channel
    <2>1. outbox' \in [Session -> Seq(Request)] /\ c \in Channel
      BY <1>4, DispatchTypes, RequestShape DEF HandleHistory
    <2>2. Newest(c) \subseteq MessageRow
      BY DEF Newest, TypeOK, StoreTypeOK
    <2>3. CASE UNCHANGED inbox /\ Works(s, "rows", Ok, NoChannel)
                 /\ rows' = [rows EXCEPT ![s] = Newest(c)]
                 /\ fetched' = [fetched EXCEPT ![s] =
                        IF \A row \in messages : row.channel = c => row \in Newest(c)
                          THEN c ELSE @]
      <3>1. /\ rows' \in [Session -> SUBSET MessageRow]
            /\ fetched' \in [Session -> Channel \cup {NoChannel}]
        BY <2>1, <2>2, <2>3 DEF TypeOK
      <3>2. WorkTyped'
        BY <2>3, PacketTypes, WorksTypes DEF PCs
      <3> QED
        BY <1>4, <2>1, <2>3, <3>1, <3>2 DEF HandleHistory, TypeOK, WorkTyped, StoreTypeOK
    <2>4. CASE Sends(s, Error) /\ UNCHANGED <<rows, workVars, fetched>>
      <3>1. inbox' \in [Session -> Seq(Packet)]
        BY <2>4, SendsTypes, PacketTypes
      <3> QED
        BY <1>4, <2>1, <2>4, <3>1 DEF HandleHistory, TypeOK, WorkTyped, StoreTypeOK
    <2> QED
      BY <1>4, <2>3, <2>4 DEF HandleHistory
  <1>5. CASE SendRow(s)
    <2> PICK row \in rows[s] :
               /\ Sends(s, Message(row.id, row.channel))
               /\ rows' = [rows EXCEPT ![s] = @ \ {row}]
               /\ Works(s, "look", Message(row.id, row.channel), NoChannel)
      BY <1>5 DEF SendRow
    <2>1. Message(row.id, row.channel) \in Packet
      BY TypeUse, PacketTypes
    <2>2. inbox' \in [Session -> Seq(Packet)]
      BY <2>1, SendsTypes
    <2>3. WorkTyped'
      BY <2>1, WorksTypes DEF PCs
    <2>4. rows' \in [Session -> SUBSET MessageRow]
      BY DEF TypeOK
    <2> QED
      BY <1>5, <2>2, <2>3, <2>4 DEF SendRow, TypeOK, WorkTyped, StoreTypeOK
  <1>6. CASE LookAtReactions(s)
    <2>1. task[s].id \in Nat
      BY <1>6, PacketShape DEF LookAtReactions, TaskFits
    <2>2. WorkTyped'
      <3>1. ASSUME NEW some \in ReactionList(task[s].id)
            PROVE  Summary(task[s].id, some) \in Packet
        <4>1. some \in SUBSET ReactionRow
          BY DEF ReactionList, Limited, ReactionsOn, TypeOK, StoreTypeOK
        <4> QED
          BY <2>1, <4>1, PacketTypes
      <3>2. ASSUME NEW some \in ReactionList(task[s].id),
                   Works(s, "tell", Summary(task[s].id, some), NoChannel)
            PROVE  WorkTyped'
        BY <3>1, <3>2, WorksTypes DEF PCs
      <3>3. CASE Works(s, "rows", Ok, NoChannel)
        BY <3>3, PacketTypes, WorksTypes DEF PCs
      <3> QED
        BY <1>6, <3>2, <3>3 DEF LookAtReactions
    <2> QED
      BY <1>6, <2>2 DEF LookAtReactions, TypeOK, WorkTyped, StoreTypeOK
  <1>7. CASE TellReactions(s)
    <2>1. inbox' \in [Session -> Seq(Packet)]
      BY <1>7, SendsTypes DEF TellReactions, TaskFits
    <2>2. WorkTyped'
      BY <1>7, PacketTypes, WorksTypes DEF TellReactions, PCs
    <2> QED
      BY <1>7, <2>1, <2>2 DEF TellReactions, TypeOK, WorkTyped, StoreTypeOK
  <1>8. CASE EndOfHistory(s)
    <2>1. inbox' \in [Session -> Seq(Packet)]
      BY <1>8, SendsTypes, PacketTypes DEF EndOfHistory
    <2>2. WorkTyped'
      BY <1>8, PacketTypes, WorksTypes DEF EndOfHistory, Returns, PCs
    <2> QED
      BY <1>8, <2>1, <2>2 DEF EndOfHistory, TypeOK, WorkTyped, StoreTypeOK
  <1> QED
    BY <1>1, <1>2, <1>3, <1>4, <1>5, <1>6, <1>7, <1>8

LEMMA TypeStepReact ==
  ASSUME TypeOK, TaskFits, NEW s \in Session,
         \/ HandleReaction(s) \/ ClearReaction(s) \/ InsertReaction(s)
         \/ RemoveReaction(s) \/ SelectReactions(s)
  PROVE  TypeOK'
  <1> USE DEF storeVars, queueVars, workVars, lockVars, ghostVars, clientVars
  <1>1. CASE HandleReaction(s)
    <2> PICK type \in {"MSG_REACTION", "MSG_REACTION_REMOVE"},
             c \in Channel \cup {Failed} :
          /\ Dispatch(s, type)
          /\ IF c = Failed
               THEN Sends(s, Error) /\ UNCHANGED workVars
               ELSE /\ Works(s, IF type = "MSG_REACTION" THEN "clear"
                                                         ELSE "remove",
                             Requested(s), c)
                    /\ UNCHANGED inbox
      BY <1>1 DEF HandleReaction
    <2>1. outbox' \in [Session -> Seq(Request)] /\ Requested(s) \in Request
      BY DispatchTypes
    <2>2. CASE c = Failed
      <3>1. inbox' \in [Session -> Seq(Packet)]
        BY <2>2, SendsTypes, PacketTypes
      <3> QED
        BY <1>1, <2>1, <2>2, <3>1 DEF HandleReaction, TypeOK, StoreTypeOK
    <2>3. CASE c # Failed
      <3>1. WorkTyped'
        BY <2>1, <2>3, WorksTypes DEF PCs
      <3> QED
        BY <1>1, <2>1, <2>3, <3>1 DEF HandleReaction, TypeOK, StoreTypeOK, WorkTyped
    <2> QED
      BY <2>2, <2>3
  <1>2. CASE ClearReaction(s)
    <2>1. WorkTyped'
      BY <1>2, TypeUse, WorksTypes DEF ClearReaction, PCs
    <2> QED
      BY <1>2, <2>1 DEF ClearReaction, ReactionClear, TypeOK, StoreTypeOK, WorkTyped
  <1>3. ASSUME NEW result, Answer(s, result)
        PROVE  WorkTyped' /\ inbox' \in [Session -> Seq(Packet)]
    <2>1. WorkTyped'
      BY <1>3, TypeUse, PacketTypes, WorksTypes DEF Answer, Returns, PCs
    <2>2. inbox' \in [Session -> Seq(Packet)]
      BY <1>3, PacketTypes, SendsTypes DEF Answer
    <2> QED
      BY <2>1, <2>2
  <1>4. CASE InsertReaction(s)
    <2> PICK result \in {Done, Failed} :
          /\ ReactionInsert(UserOf[s], task[s].id, task[s].emoji, result)
          /\ Answer(s, result)
      BY <1>4 DEF InsertReaction
    <2>1. task[s].id \in Nat /\ task[s].emoji \in Emoji
      BY <1>4 DEF InsertReaction, TaskFits
    <2>2. [message |-> task[s].id, user |-> UserOf[s], emoji |-> task[s].emoji] \in ReactionRow
      BY <2>1, MessagingAssumption DEF ReactionRow
    <2>3. StoreTypeOK'
      BY <2>2 DEF ReactionInsert, TypeOK, StoreTypeOK
    <2> QED
      BY <1>3, <1>4, <2>3 DEF InsertReaction, TypeOK, WorkTyped
  <1>5. CASE RemoveReaction(s)
    <2> PICK result \in {Done, Failed} :
          /\ ReactionRemove(UserOf[s], task[s].id, result)
          /\ Answer(s, result)
      BY <1>5 DEF RemoveReaction
    <2>1. StoreTypeOK'
      BY DEF ReactionRemove, TypeOK, StoreTypeOK
    <2> QED
      BY <1>3, <1>5, <2>1 DEF RemoveReaction, TypeOK, WorkTyped
  <1>6. CASE SelectReactions(s)
    <2>1. task[s].id \in Nat
      BY <1>6 DEF SelectReactions, TaskFits
    <2>2. WorkTyped'
      <3>1. ASSUME NEW some \in ReactionList(task[s].id),
                   Works(s, "lock", Summary(task[s].id, some), to[s])
            PROVE  WorkTyped'
        <4>1. some \in SUBSET ReactionRow
          BY DEF ReactionList, Limited, ReactionsOn, TypeOK, StoreTypeOK
        <4>2. Summary(task[s].id, some) \in Packet
          BY <2>1, <4>1, PacketTypes
        <4> QED
          BY <3>1, <4>2, TypeUse, WorksTypes DEF PCs
      <3>2. CASE Returns(s)
        BY <3>2, PacketTypes, WorksTypes DEF Returns, PCs
      <3> QED
        BY <1>6, <3>1, <3>2 DEF SelectReactions
    <2> QED
      BY <1>6, <2>2 DEF SelectReactions, TypeOK, StoreTypeOK, WorkTyped
  <1> QED
    BY <1>1, <1>2, <1>4, <1>5, <1>6

LEMMA TypeStepRest ==
  ASSUME TypeOK, TaskFits, NEW s \in Session,
         \/ LockRegistry(s) \/ (\E t \in Session : Visit(s, t)) \/ UnlockRegistry(s)
         \/ ReceiveMessage(s) \/ ReceiveDeleted(s) \/ ReceiveSummary(s)
         \/ IgnoreReply(s)
  PROVE  TypeOK'
  <1> USE DEF storeVars, queueVars, workVars, lockVars, ghostVars, clientVars
  <1>1. CASE LockRegistry(s)
    <2>1. WorkTyped'
      BY <1>1, TypeUse, WorksTypes DEF LockRegistry, PCs
    <2> QED
      BY <1>1, <2>1 DEF LockRegistry, TypeOK, StoreTypeOK, WorkTyped
  <1>2. ASSUME NEW t \in Session, Visit(s, t) PROVE TypeOK'
    <2>1. inbox' \in [Session -> Seq(Packet)]
      <3>1. task[s] \in Packet
        BY <1>2 DEF Visit, TaskFits
      <3>2. CASE Sends(t, task[s])
        BY <3>1, <3>2, SendsTypes
      <3>3. CASE UNCHANGED inbox
        BY <3>3 DEF TypeOK
      <3> QED
        BY <1>2, <3>2, <3>3 DEF Visit
    <2>2. task[s].type = "DELMSG" => task[s].id \in Nat
      <3>1. task[s] \in Packet
        BY <1>2 DEF Visit, TaskFits
      <3> QED
        BY <3>1 DEF Packet, MessagePacket
    <2>3. excused' \in [Session -> SUBSET Nat]
      <3> DEFINE overtaken == task[s].type = "DELMSG" /\ StillToSend(t, task[s].id)
      <3>1. excused' = [excused EXCEPT ![t] =
              IF overtaken THEN @ \cup {task[s].id} ELSE @]
        BY <1>2 DEF Visit
      <3>2. overtaken => task[s].id \in Nat
        BY <2>2
      <3> HIDE DEF overtaken
      <3> QED
        BY <3>1, <3>2 DEF TypeOK
    <2> QED
      BY <1>2, <2>1, <2>3 DEF Visit, TypeOK, StoreTypeOK
  <1>3. CASE UnlockRegistry(s)
    <2>1. WorkTyped'
      BY <1>3, PacketTypes, WorksTypes DEF UnlockRegistry, Returns, PCs
    <2> QED
      BY <1>3, <2>1 DEF UnlockRegistry, TypeOK, StoreTypeOK, WorkTyped
  <1>4. CASE ReceiveMessage(s)
    <2>1. inbox' \in [Session -> Seq(Packet)] /\ Received(s) \in MessagePacket
      BY <1>4, ReceivesTypes, PacketShape DEF ReceiveMessage
    <2>2. /\ Added(view[s], Received(s)) \in Seq(MessagePacket)
          /\ Len(Added(view[s], Received(s))) <= MaxMessages
      BY <2>1, TypeUse, AddedTypes DEF TypeOK
    <2>3. /\ view' \in [Session -> Seq(MessagePacket)]
          /\ \A t \in Session : Len(view'[t]) <= MaxMessages
      BY <1>4, <2>2 DEF ReceiveMessage, TypeOK
    <2>4. fetched' \in [Session -> Channel \cup {NoChannel}]
      BY <1>4 DEF ReceiveMessage, TypeOK
    <2> QED
      BY <1>4, <2>1, <2>3, <2>4 DEF ReceiveMessage, TypeOK, StoreTypeOK
  <1>5. CASE ReceiveDeleted(s)
    <2>1. inbox' \in [Session -> Seq(Packet)]
      BY <1>5, ReceivesTypes DEF ReceiveDeleted
    <2>2. /\ Without(view[s], Received(s).id) \in Seq(MessagePacket)
          /\ Len(Without(view[s], Received(s).id)) <= Len(view[s])
      BY TypeUse, WithoutTypes
    <2>3. Len(Without(view[s], Received(s).id)) <= MaxMessages
      BY <2>2, TypeUse, MessagingAssumption DEF TypeOK
    <2>4. /\ view' \in [Session -> Seq(MessagePacket)]
          /\ \A t \in Session : Len(view'[t]) <= MaxMessages
      BY <1>5, <2>2, <2>3 DEF ReceiveDeleted, TypeOK
    <2> QED
      BY <1>5, <2>1, <2>4 DEF ReceiveDeleted, TypeOK, StoreTypeOK
  <1>6. CASE ReceiveSummary(s)
    <2>1. inbox' \in [Session -> Seq(Packet)] /\ Received(s).some \in SUBSET ReactionRow
      BY <1>6, ReceivesTypes, PacketShape DEF ReceiveSummary
    <2>2. reacts' \in [Session -> SUBSET ReactionRow]
      BY <1>6, <2>1 DEF ReceiveSummary, Limited, TypeOK
    <2> QED
      BY <1>6, <2>1, <2>2 DEF ReceiveSummary, TypeOK, StoreTypeOK
  <1>7. CASE IgnoreReply(s)
    <2>1. inbox' \in [Session -> Seq(Packet)]
      BY <1>7, ReceivesTypes DEF IgnoreReply
    <2> QED
      BY <1>7, <2>1 DEF IgnoreReply, TypeOK, StoreTypeOK
  <1> QED
    BY <1>1, <1>2, <1>3, <1>4, <1>5, <1>6, <1>7

LEMMA TypeStep == TypeOK /\ TaskFits /\ [Next]_vars => TypeOK'
  <1> SUFFICES ASSUME TypeOK, TaskFits, [Next]_vars PROVE TypeOK'
    OBVIOUS
  <1>1. CASE UNCHANGED vars
    BY <1>1 DEF vars, storeVars, queueVars, workVars, lockVars, clientVars, ghostVars,
                TypeOK, StoreTypeOK
  <1>2. CASE Next
    BY <1>2, NextCases, TypeStepUI, TypeStepServer, TypeStepReact, TypeStepRest
       DEF StepOf
  <1> QED
    BY <1>1, <1>2

-----------------------------------------------------------------------------
(* The smaller conjuncts of the invariant.                                 *)

(* The client and the visits of a broadcast leave the threads' work alone. *)
LEMMA WorkFrame ==
  ASSUME NEW s \in Session,
         \/ SelectChannel(s) \/ TypeLine(s) \/ ClickDelete(s) \/ OpenMenu(s)
         \/ PickFromMenu(s) \/ HandleJoin(s) \/ (\E t \in Session : Visit(s, t))
         \/ ReceiveMessage(s) \/ ReceiveDeleted(s) \/ ReceiveSummary(s)
         \/ IgnoreReply(s)
  PROVE  UNCHANGED <<pc, task, to, rows>>
  BY DEF SelectChannel, TypeLine, ClickDelete, OpenMenu, PickFromMenu, HandleJoin,
         Visit, ReceiveMessage, ReceiveDeleted, ReceiveSummary, IgnoreReply, workVars

LEMMA FitsStep == TypeOK /\ TaskFits /\ [Next]_vars => TaskFits'
  <1> SUFFICES ASSUME TypeOK, TaskFits, [Next]_vars PROVE TaskFits'
    OBVIOUS
  <1> USE DEF workVars
  <1>1. CASE UNCHANGED <<pc, task, to, rows>>
    BY <1>1 DEF TaskFits
  <1>2. CASE Next
    <2> PICK s \in Session : StepOf(s)
      BY <1>2, NextCases
    (* It is enough to look at the thread that moves.                      *)
    <2> DEFINE Fits(p, k, r) ==
          /\ p \in {"lock", "cast", "look", "tell"} => k \in Packet
          /\ p \in {"look"} => k.type = "MESSAGE"
          /\ p \in {"lock", "cast", "tell"} => k.type \in {"MESSAGE", "DELMSG", "REACTIONS"}
          /\ p \in {"tell"} => k.type = "REACTIONS"
          /\ p \in {"clear", "insert"} => k \in [type : {"MSG_REACTION"}, id : Nat, emoji : Emoji]
          /\ p \in {"remove"} => k \in [type : {"MSG_REACTION_REMOVE"}, id : Nat]
          /\ p \in {"select"} => k \in [type : {"MSG_REACTION"}, id : Nat, emoji : Emoji] \cup [type : {"MSG_REACTION_REMOVE"}, id : Nat]
          /\ p \notin {"rows", "look", "tell"} => r = {}
    <2>0. Fits(pc[s], task[s], rows[s])
      BY DEF TaskFits
    <2>1. ASSUME NEW place, NEW what, NEW where, NEW r,
                 Works(s, place, what, where),
                 rows' = [rows EXCEPT ![s] = r],
                 Fits(place, what, r)
          PROVE  TaskFits'
      <3>1. /\ pc' = [pc EXCEPT ![s] = place]
            /\ task' = [task EXCEPT ![s] = what]
        BY <2>1 DEF Works
      <3>2. \A t \in Session : Fits(pc'[t], task'[t], rows'[t])
        BY <2>1, <3>1 DEF TypeOK, TaskFits
      <3> HIDE DEF Fits
      <3>3. TaskFits' = \A t \in Session : Fits(pc'[t], task'[t], rows'[t])
        BY DEF TaskFits, Fits
      <3> QED
        BY <3>2, <3>3
    <2>2. rows = [rows EXCEPT ![s] = @]
      BY DEF TypeOK
    <2>3. CASE UNCHANGED <<pc, task, to, rows>>
      BY <1>1, <2>3
    <2>4. CASE HandleSend(s)
      <3>1. ASSUME NEW id, Works(s, "lock", Message(id, channel[s]), channel[s]),
                   id = nextMessage, channel[s] # NoChannel
            PROVE  TaskFits'
        <4>1. Message(id, channel[s]) \in Packet
          BY <3>1, TypeUse, PacketTypes
        <4>2. rows' = [rows EXCEPT ![s] = rows[s]] /\ rows[s] = {}
          BY <2>2, <2>0, <2>4 DEF HandleSend, Dispatch
        <4>3. Fits("lock", Message(id, channel[s]), rows[s])
          BY <4>1, <4>2 DEF Message
        <4> HIDE DEF Fits
        <4> QED
          BY <2>1, <3>1, <4>2, <4>3
      <3> QED
        BY <1>1, <2>4, <3>1 DEF HandleSend
    <2>5. CASE HandleDelete(s)
      <3>0. Requested(s).id \in Nat
        BY <2>5, DispatchTypes, RequestShape DEF HandleDelete
      <3>1. ASSUME NEW c, Works(s, "lock", Deleted(Requested(s).id), c)
            PROVE  TaskFits'
        <4>1. Deleted(Requested(s).id) \in Packet
          BY <3>0, PacketTypes
        <4>2. rows' = [rows EXCEPT ![s] = rows[s]] /\ rows[s] = {}
          BY <2>2, <2>0, <2>5 DEF HandleDelete, Dispatch
        <4>3. Fits("lock", Deleted(Requested(s).id), rows[s])
          BY <4>1, <4>2 DEF Deleted
        <4> HIDE DEF Fits
        <4> QED
          BY <2>1, <3>1, <4>2, <4>3
      <3> QED
        BY <1>1, <2>5, <3>1 DEF HandleDelete
    <2>6. CASE HandleHistory(s)
      <3>1. ASSUME NEW r, rows' = [rows EXCEPT ![s] = r],
                   Works(s, "rows", Ok, NoChannel)
            PROVE  TaskFits'
        BY <2>1, <3>1
      <3> QED
        BY <1>1, <2>6, <3>1 DEF HandleHistory
    <2>7. CASE SendRow(s)
      <3> PICK row \in rows[s] :
            /\ rows' = [rows EXCEPT ![s] = @ \ {row}]
            /\ Works(s, "look", Message(row.id, row.channel), NoChannel)
        BY <2>7 DEF SendRow
      <3>1. Fits("look", Message(row.id, row.channel), rows[s] \ {row})
        <4>1. Message(row.id, row.channel) \in Packet
          BY TypeUse, PacketTypes
        <4> QED
          BY <4>1 DEF Message
      <3> HIDE DEF Fits
      <3> QED
        BY <2>1, <3>1
    <2>8. CASE LookAtReactions(s)
      <3>0. rows' = [rows EXCEPT ![s] = rows[s]]
        BY <2>2, <2>8 DEF LookAtReactions
      <3>1. ASSUME NEW some \in ReactionList(task[s].id),
                   Works(s, "tell", Summary(task[s].id, some), NoChannel)
            PROVE  TaskFits'
        <4>1. Summary(task[s].id, some) \in Packet
          <5>1. some \in SUBSET ReactionRow
            BY DEF ReactionList, Limited, ReactionsOn, TypeOK, StoreTypeOK
          <5>2. task[s].id \in Nat
            BY <2>0, <2>8, PacketShape DEF LookAtReactions
          <5> QED
            BY <5>1, <5>2, PacketTypes
        <4>2. Fits("tell", Summary(task[s].id, some), rows[s])
          BY <4>1 DEF Summary
        <4> HIDE DEF Fits
        <4> QED
          BY <2>1, <3>0, <3>1, <4>2
      <3>2. CASE Works(s, "rows", Ok, NoChannel)
        BY <2>1, <3>0, <3>2
      <3> QED
        BY <2>8, <3>1, <3>2 DEF LookAtReactions
    <2>9. CASE TellReactions(s)
      <3>1. rows' = [rows EXCEPT ![s] = rows[s]]
        BY <2>2, <2>9 DEF TellReactions
      <3> QED
        BY <2>1, <2>9, <3>1 DEF TellReactions
    <2>10. ASSUME Returns(s), rows[s] = {}, rows' = rows PROVE TaskFits'
      BY <2>1, <2>2, <2>10 DEF Returns
    <2>11. CASE EndOfHistory(s)
      BY <2>10, <2>11 DEF EndOfHistory
    <2>12. CASE HandleReaction(s)
      <3>1. ASSUME NEW type \in {"MSG_REACTION", "MSG_REACTION_REMOVE"}, NEW c,
                   Dispatch(s, type),
                   Works(s, IF type = "MSG_REACTION" THEN "clear" ELSE "remove",
                         Requested(s), c)
            PROVE  TaskFits'
        <4>1. Requested(s) \in Request /\ Requested(s).type = type
          BY <3>1, DispatchTypes
        <4>2. Fits(IF type = "MSG_REACTION" THEN "clear" ELSE "remove",
                   Requested(s), rows[s])
          BY <2>0, <3>1, <4>1, RequestShape DEF Dispatch
        <4>3. rows' = [rows EXCEPT ![s] = rows[s]]
          BY <2>2, <2>12 DEF HandleReaction
        <4> HIDE DEF Fits
        <4> QED
          BY <2>1, <3>1, <4>2, <4>3
      <3> QED
        BY <1>1, <2>12, <3>1 DEF HandleReaction
    <2>13. CASE ClearReaction(s)
      <3>1. rows' = [rows EXCEPT ![s] = rows[s]]
        BY <2>2, <2>13 DEF ClearReaction
      <3> QED
        BY <2>0, <2>1, <2>13, <3>1 DEF ClearReaction
    <2>14. ASSUME NEW result, Answer(s, result), pc[s] \in {"insert", "remove"},
                  rows' = rows
           PROVE  TaskFits'
      <3>1. CASE Returns(s)
        BY <2>0, <2>10, <2>14, <3>1
      <3>2. CASE Works(s, "select", task[s], to[s])
        BY <2>0, <2>1, <2>2, <2>14, <3>2
      <3> QED
        BY <2>14, <3>1, <3>2 DEF Answer
    <2>15. CASE InsertReaction(s) \/ RemoveReaction(s)
      BY <2>14, <2>15 DEF InsertReaction, RemoveReaction
    <2>16. CASE SelectReactions(s)
      <3>0. rows' = [rows EXCEPT ![s] = rows[s]] /\ rows[s] = {} /\ rows' = rows
        BY <2>0, <2>2, <2>16 DEF SelectReactions
      <3>1. ASSUME NEW some \in ReactionList(task[s].id),
                   Works(s, "lock", Summary(task[s].id, some), to[s])
            PROVE  TaskFits'
        <4>1. Summary(task[s].id, some) \in Packet
          <5>1. some \in SUBSET ReactionRow
            BY DEF ReactionList, Limited, ReactionsOn, TypeOK, StoreTypeOK
          <5>2. task[s].id \in Nat
            BY <2>0, <2>16 DEF SelectReactions
          <5> QED
            BY <5>1, <5>2, PacketTypes
        <4>2. Fits("lock", Summary(task[s].id, some), rows[s])
          BY <3>0, <4>1 DEF Summary
        <4> HIDE DEF Fits
        <4> QED
          BY <2>1, <3>0, <3>1, <4>2
      <3> QED
        BY <2>10, <2>16, <3>0, <3>1 DEF SelectReactions
    <2>17. CASE LockRegistry(s)
      <3>1. rows' = [rows EXCEPT ![s] = rows[s]]
        BY <2>2, <2>17 DEF LockRegistry
      <3> QED
        BY <2>0, <2>1, <2>17, <3>1 DEF LockRegistry
    <2>18. CASE UnlockRegistry(s)
      BY <2>0, <2>10, <2>18 DEF UnlockRegistry
    <2> QED
      BY <2>3, <2>4, <2>5, <2>6, <2>7, <2>8, <2>9, <2>11, <2>12, <2>13, <2>15,
         <2>16, <2>17, <2>18, WorkFrame DEF StepOf
  <1> QED
    BY <1>1, <1>2 DEF vars, workVars

LEMMA CasterStep == TypeOK /\ OneCaster /\ [Next]_vars => OneCaster'
  <1> SUFFICES ASSUME TypeOK, OneCaster, [Next]_vars PROVE OneCaster'
    OBVIOUS
  <1> USE DEF workVars, lockVars
  <1>1. CASE UNCHANGED <<pc, mutex>>
    BY <1>1 DEF OneCaster
  <1>2. CASE Next
    <2> PICK s \in Session : StepOf(s)
      BY <1>2, NextCases
    <2>1. CASE LockRegistry(s)
      <3>1. mutex' = s /\ mutex = NoSession /\ pc' = [pc EXCEPT ![s] = "cast"]
        BY <2>1 DEF LockRegistry, Works
      <3> QED
        BY <3>1, MessagingAssumption DEF OneCaster, TypeOK
    <2>2. CASE UnlockRegistry(s)
      <3>1. pc[s] = "cast" /\ mutex' = NoSession /\ pc' = [pc EXCEPT ![s] = "idle"]
        BY <2>2 DEF UnlockRegistry, Returns, Works
      <3> QED
        BY <3>1 DEF OneCaster, TypeOK
    <2>3. ASSUME NEW place \in PCs \ {"cast"}, NEW what, NEW where,
                 Works(s, place, what, where), mutex' = mutex
          PROVE  OneCaster'
      BY <2>3 DEF Works, OneCaster, TypeOK
    <2>4. ASSUME Returns(s), mutex' = mutex PROVE OneCaster'
      BY <2>3, <2>4 DEF Returns, PCs
    <2>5. CASE HandleSend(s) \/ HandleDelete(s) \/ HandleHistory(s)
      BY <1>1, <2>3, <2>5 DEF HandleSend, HandleDelete, HandleHistory, PCs
    <2>6. CASE SendRow(s) \/ LookAtReactions(s) \/ TellReactions(s) \/ EndOfHistory(s)
      BY <2>3, <2>4, <2>6 DEF SendRow, LookAtReactions, TellReactions, EndOfHistory, PCs
    <2>7. CASE HandleReaction(s)
      <3>1. ASSUME NEW type, NEW what, NEW where,
                   Works(s, IF type = "MSG_REACTION" THEN "clear" ELSE "remove", what, where)
            PROVE  OneCaster'
        <4>1. mutex' = mutex
          BY <2>7 DEF HandleReaction
        <4>2. (IF type = "MSG_REACTION" THEN "clear" ELSE "remove") \in PCs \ {"cast"}
          BY DEF PCs
        <4> QED
          BY <2>3, <3>1, <4>1, <4>2
      <3> QED
        BY <1>1, <2>7, <3>1 DEF HandleReaction
    <2>8. CASE ClearReaction(s) \/ SelectReactions(s)
      BY <2>3, <2>4, <2>8 DEF ClearReaction, SelectReactions, PCs
    <2>9. CASE InsertReaction(s) \/ RemoveReaction(s)
      BY <2>3, <2>4, <2>9 DEF InsertReaction, RemoveReaction, Answer, PCs
    <2>10. CASE SelectChannel(s) \/ TypeLine(s) \/ ClickDelete(s) \/ OpenMenu(s)
                \/ PickFromMenu(s) \/ HandleJoin(s)
                \/ (\E t \in Session : Visit(s, t))
                \/ ReceiveMessage(s) \/ ReceiveDeleted(s) \/ ReceiveSummary(s)
                \/ IgnoreReply(s)
      BY <1>1, <2>10 DEF SelectChannel, TypeLine, ClickDelete, OpenMenu, PickFromMenu,
           HandleJoin, Visit, ReceiveMessage, ReceiveDeleted, ReceiveSummary, IgnoreReply
    <2> QED
      BY <2>1, <2>2, <2>5, <2>6, <2>7, <2>8, <2>9, <2>10 DEF StepOf
  <1> QED
    BY <1>1, <1>2 DEF vars, workVars, lockVars

(* The message table changes by the insertion of a row with the next       *)
(* number, or by the deletion of one.                                      *)
Inserted == \E u \in User, c \in Channel :
              /\ messages' = messages \cup {[id |-> nextMessage, author |-> u, channel |-> c]}
              /\ nextMessage' = nextMessage + 1

RowDeleted == /\ \E row \in messages : messages' = messages \ {row}
              /\ nextMessage' = nextMessage

LEMMA TableStep ==
  ASSUME TypeOK, [Next]_vars
  PROVE  UNCHANGED <<messages, nextMessage>> \/ Inserted \/ RowDeleted
  <1> USE DEF storeVars
  <1>1. CASE Next
    <2> PICK s \in Session : StepOf(s)
      BY <1>1, NextCases
    <2>1. CASE HandleSend(s)
      <3>1. CASE channel[s] = NoChannel
        BY <2>1, <3>1 DEF HandleSend
      <3>2. CASE channel[s] # NoChannel
        <4>1. PICK id \in {nextMessage, Failed} : MessageInsert(UserOf[s], channel[s], id)
          BY <2>1, <3>2 DEF HandleSend
        <4>2. UserOf[s] \in User /\ channel[s] \in Channel
          BY <3>2, TypeUse, MessagingAssumption
        <4> QED
          BY <4>1, <4>2 DEF MessageInsert, Inserted
      <3> QED
        BY <3>1, <3>2
    <2>2. CASE HandleDelete(s)
      BY <2>2 DEF HandleDelete, MessageDelete, RowDeleted
    <2>3. CASE ClearReaction(s) \/ InsertReaction(s) \/ RemoveReaction(s)
      BY <2>3 DEF ClearReaction, InsertReaction, RemoveReaction, ReactionClear,
                  ReactionInsert, ReactionRemove
    <2>4. CASE \/ SelectChannel(s) \/ TypeLine(s) \/ ClickDelete(s) \/ OpenMenu(s)
               \/ PickFromMenu(s) \/ HandleJoin(s) \/ HandleHistory(s)
      BY <2>4 DEF SelectChannel, TypeLine, ClickDelete, OpenMenu, PickFromMenu,
                  HandleJoin, HandleHistory
    <2>5. CASE \/ SendRow(s) \/ LookAtReactions(s) \/ TellReactions(s)
               \/ EndOfHistory(s) \/ HandleReaction(s) \/ SelectReactions(s)
      BY <2>5 DEF SendRow, LookAtReactions, TellReactions, EndOfHistory,
                  HandleReaction, SelectReactions
    <2>6. CASE \/ LockRegistry(s) \/ (\E t \in Session : Visit(s, t)) \/ UnlockRegistry(s)
               \/ ReceiveMessage(s) \/ ReceiveDeleted(s) \/ ReceiveSummary(s)
               \/ IgnoreReply(s)
      BY <2>6 DEF LockRegistry, Visit, UnlockRegistry, ReceiveMessage, ReceiveDeleted,
                  ReceiveSummary, IgnoreReply
    <2> QED
      BY <2>1, <2>2, <2>3, <2>4, <2>5, <2>6 DEF StepOf
  <1> QED
    BY <1>1 DEF vars

LEMMA NumberedStep == TypeOK /\ Numbered /\ [Next]_vars => Numbered'
  <1> SUFFICES ASSUME TypeOK, Numbered, [Next]_vars PROVE Numbered'
    OBVIOUS
  <1>1. CASE UNCHANGED <<messages, nextMessage>>
    BY <1>1 DEF Numbered
  <1>2. CASE Inserted
    BY <1>2 DEF Inserted, Numbered, TypeOK, StoreTypeOK, MessageRow
  <1>3. CASE RowDeleted
    BY <1>3 DEF RowDeleted, Numbered
  <1> QED
    BY <1>1, <1>2, <1>3, TableStep

(* What is true of a message stays true: a deleted one never comes back,   *)
(* for the new row's number is above all that were given out.              *)
Stable == /\ \A m, c : Genuine(m, c) => Genuine(m, c)'
          /\ \A m : Retracted(m) => Retracted(m)'

LEMMA TruthStable == TypeOK /\ Numbered /\ [Next]_vars => Stable
  <1> SUFFICES ASSUME TypeOK, Numbered, [Next]_vars PROVE Stable
    OBVIOUS
  <1>1. CASE UNCHANGED <<messages, nextMessage>>
    BY <1>1 DEF Stable, Genuine, Retracted
  <1>2. CASE Inserted
    BY <1>2 DEF Inserted, Stable, Genuine, Retracted, TypeOK, StoreTypeOK
  <1>3. CASE RowDeleted
    BY <1>3 DEF RowDeleted, Stable, Genuine, Retracted
  <1> QED
    BY <1>1, <1>2, <1>3, TableStep

LEMMA StableTruth ==
  ASSUME Stable, NEW p, Truthful(p)
  PROVE  Truthful(p)'
  BY DEF Stable, Truthful

(* Sending and receiving keep a queue of truths.                           *)
LEMMA SendsTruth ==
  ASSUME TypeOK, InboxTruthful, Stable, NEW s \in Session, NEW p \in Packet,
         Truthful(p)', Sends(s, p)
  PROVE  InboxTruthful'
  <1>1. ASSUME NEW t \in Session, NEW i \in DOMAIN inbox'[t] PROVE \A q : q = inbox'[t][i] => Truthful(q)'
    <2>1. inbox[t] \in Seq(Packet) /\ inbox' = [inbox EXCEPT ![s] = Append(@, p)]
      BY TypeUse DEF Sends
    <2>2. CASE i \in DOMAIN inbox[t]
      <3>1. inbox'[t][i] = inbox[t][i]
        BY <2>1, <2>2 DEF TypeOK
      <3>2. Truthful(inbox[t][i])
        BY <2>2 DEF InboxTruthful
      <3> QED
        BY <3>1, <3>2, StableTruth
    <2>3. CASE i \notin DOMAIN inbox[t]
      <3>0. DOMAIN inbox = Session
        BY DEF TypeOK
      <3>1. t = s
        BY <1>1, <2>1, <2>3, <3>0
      <3>2. inbox'[t] = Append(inbox[t], p)
        BY <2>1, <3>0, <3>1
      <3>3. i = Len(inbox[t]) + 1
        BY <1>1, <2>1, <2>3, <3>2
      <3>4. inbox'[t][i] = p
        BY <2>1, <3>2, <3>3
      <3> QED
        BY <3>4
    <2> QED
      BY <2>2, <2>3
  <1> QED
    BY <1>1 DEF InboxTruthful, Truthful, Genuine, Retracted

LEMMA ReceivesTruth ==
  ASSUME TypeOK, InboxTruthful, NEW s \in Session, NEW type, Receives(s, type)
  PROVE  /\ Truthful(Received(s))
         /\ Stable => InboxTruthful'
  <1>1. inbox[s] \in Seq(Packet) /\ inbox[s] # <<>>
    BY TypeUse DEF Receives
  <1>2. Truthful(Received(s))
    <2>1. Received(s) = inbox[s][1] /\ 1 \in DOMAIN inbox[s]
      BY <1>1, HeadAndTail DEF Received
    <2> QED
      BY <2>1 DEF InboxTruthful
  <1>3. ASSUME Stable, NEW t \in Session, NEW i \in DOMAIN inbox'[t]
        PROVE  \A q : q = inbox'[t][i] => Truthful(q)'
    <2>1. CASE t = s
      <3>1. inbox'[s] = Tail(inbox[s])
        BY DEF Receives, TypeOK
      <3>2. i \in 1..Len(Tail(inbox[s])) /\ i + 1 \in DOMAIN inbox[s]
        BY <1>1, <1>3, <2>1, <3>1, HeadAndTail
      <3>3. inbox'[s][i] = inbox[s][i + 1]
        BY <1>1, <3>1, <3>2, HeadAndTail
      <3>4. Truthful(inbox[s][i + 1])
        BY <3>2 DEF InboxTruthful
      <3> QED
        BY <1>3, <2>1, <3>3, <3>4, StableTruth
    <2>2. CASE t # s
      <3>1. inbox'[t] = inbox[t]
        BY <2>2 DEF Receives, TypeOK
      <3>2. Truthful(inbox[t][i])
        BY <1>3, <3>1 DEF InboxTruthful
      <3> QED
        BY <1>3, <3>1, <3>2, StableTruth
    <2> QED
      BY <2>1, <2>2
  <1>4. Stable => InboxTruthful'
    BY <1>3 DEF InboxTruthful, Truthful, Genuine, Retracted
  <1> QED
    BY <1>2, <1>4

LEMMA InboxFrame ==
  ASSUME InboxTruthful, Stable, UNCHANGED inbox
  PROVE  InboxTruthful'
  <1>1. \A s \in Session : \A i \in DOMAIN inbox[s] :
          \A q : q = inbox[s][i] => Truthful(q)'
    BY StableTruth DEF InboxTruthful
  <1> QED
    BY <1>1 DEF InboxTruthful, Truthful, Genuine, Retracted

LEMMA ReplyTruth == /\ Truthful(Ok) /\ Truthful(Ok)'
                    /\ Truthful(Error) /\ Truthful(Error)'
  BY DEF Ok, Error, Truthful

LEMMA InboxStep ==
  TypeOK /\ TaskFits /\ InboxTruthful /\ TaskTruthful /\ RowsTruthful /\ Stable
    /\ [Next]_vars => InboxTruthful'
  <1> SUFFICES ASSUME TypeOK, TaskFits, InboxTruthful, TaskTruthful, RowsTruthful,
                      Stable, [Next]_vars
               PROVE  InboxTruthful'
    OBVIOUS
  <1> USE DEF queueVars
  <1>1. CASE UNCHANGED inbox
    BY <1>1, InboxFrame
  <1>2. CASE Next
    <2> PICK s \in Session : StepOf(s)
      BY <1>2, NextCases
    <2>1. ASSUME Sends(s, Ok) \/ Sends(s, Error) PROVE InboxTruthful'
      BY <2>1, SendsTruth, PacketTypes, ReplyTruth
    <2>2. CASE HandleJoin(s) \/ HandleSend(s) \/ HandleHistory(s)
      BY <1>1, <2>1, <2>2 DEF HandleJoin, HandleSend, HandleHistory
    <2>3. CASE HandleDelete(s) \/ HandleReaction(s) \/ EndOfHistory(s)
      BY <1>1, <2>1, <2>3 DEF HandleDelete, HandleReaction, EndOfHistory
    <2>4. CASE InsertReaction(s) \/ RemoveReaction(s)
      BY <2>1, <2>4 DEF InsertReaction, RemoveReaction, Answer
    <2>5. CASE SendRow(s)
      <3> PICK row \in rows[s] : Sends(s, Message(row.id, row.channel))
        BY <2>5 DEF SendRow
      <3> PICK p : p = Message(row.id, row.channel)
        OBVIOUS
      <3>1. p \in Packet
        BY TypeUse, PacketTypes
      <3>2. Truthful(p)
        BY DEF RowsTruthful, Truthful, Message
      <3> QED
        BY <3>1, <3>2, StableTruth, SendsTruth
    <2>6. CASE TellReactions(s) \/ \E t \in Session : Visit(s, t)
      <3>1. ASSUME NEW t \in Session, Sends(t, task[s]), pc[s] \in {"tell", "cast"}
            PROVE  InboxTruthful'
        <4> PICK p : p = task[s]
          OBVIOUS
        <4>1. p \in Packet /\ Truthful(p)
          BY <3>1 DEF TaskFits, TaskTruthful
        <4> QED
          BY <3>1, <4>1, StableTruth, SendsTruth
      <3> QED
        BY <1>1, <2>6, <3>1 DEF TellReactions, Visit
    <2>7. CASE \/ ReceiveMessage(s) \/ ReceiveDeleted(s) \/ ReceiveSummary(s)
               \/ IgnoreReply(s)
      BY <2>7, ReceivesTruth DEF ReceiveMessage, ReceiveDeleted, ReceiveSummary, IgnoreReply
    <2>8. CASE \/ SelectChannel(s) \/ TypeLine(s) \/ ClickDelete(s) \/ OpenMenu(s)
               \/ PickFromMenu(s)
      BY <1>1, <2>8 DEF SelectChannel, TypeLine, ClickDelete, OpenMenu, PickFromMenu
    <2>9. CASE \/ LookAtReactions(s) \/ ClearReaction(s) \/ SelectReactions(s)
               \/ LockRegistry(s) \/ UnlockRegistry(s)
      BY <1>1, <2>9 DEF LookAtReactions, ClearReaction, SelectReactions, LockRegistry,
                        UnlockRegistry
    <2> QED
      BY <2>2, <2>3, <2>4, <2>5, <2>6, <2>7, <2>8, <2>9 DEF StepOf
  <1> QED
    BY <1>1, <1>2 DEF vars, queueVars

(* What a thread holds is true: the message it has just inserted, the      *)
(* deletion it has just made, or a row of the history it has read.         *)
LEMMA TaskStep ==
  TypeOK /\ Numbered /\ TaskTruthful /\ RowsTruthful /\ Stable /\ [Next]_vars
    => TaskTruthful'
  <1> SUFFICES ASSUME TypeOK, Numbered, TaskTruthful, RowsTruthful, Stable, [Next]_vars
               PROVE  TaskTruthful'
    OBVIOUS
  <1> USE DEF workVars
  <1>0. \A t \in Session : \A q : q = task[t] => Truthful(q)'
    BY StableTruth DEF TaskTruthful
  <1>1. CASE UNCHANGED <<pc, task, to, rows>>
    BY <1>0, <1>1 DEF TaskTruthful, Truthful, Genuine, Retracted
  <1>2. CASE Next
    <2> PICK s \in Session : StepOf(s)
      BY <1>2, NextCases
    <2>1. ASSUME NEW place, NEW p, NEW where, Works(s, place, p, where), Truthful(p)'
          PROVE  TaskTruthful'
      <3>1. \A t \in Session : \A q : q = task'[t] => Truthful(q)'
        BY <1>0, <2>1 DEF Works, TypeOK
      <3> QED
        BY <3>1 DEF TaskTruthful, Truthful, Genuine, Retracted
    <2>2. ASSUME NEW place, NEW where, Works(s, place, Ok, where)
          PROVE  TaskTruthful'
      BY <2>1, <2>2, ReplyTruth
    <2>3. ASSUME NEW place, NEW where, Works(s, place, task[s], where)
          PROVE  TaskTruthful'
      BY <1>0, <2>1, <2>3
    <2>4. ASSUME NEW place, NEW where, NEW m, NEW some,
                 Works(s, place, Summary(m, some), where)
          PROVE  TaskTruthful'
      BY <2>1, <2>4 DEF Summary, Truthful
    <2>5. CASE HandleSend(s)
      <3>1. ASSUME NEW id, id = nextMessage, channel[s] # NoChannel,
                   MessageInsert(UserOf[s], channel[s], id), id # Failed,
                   Works(s, "lock", Message(id, channel[s]), channel[s])
            PROVE  TaskTruthful'
        <4> PICK p : p = Message(id, channel[s])
          OBVIOUS
        <4>1. messages' = messages \cup
                {[id |-> nextMessage, author |-> UserOf[s], channel |-> channel[s]]}
              /\ nextMessage' = nextMessage + 1
          BY <3>1 DEF MessageInsert
        <4>2. p.type = "MESSAGE" /\ p.id = nextMessage /\ p.channel = channel[s]
          BY <3>1 DEF Message
        <4>3. Truthful(p)'
          BY <4>1, <4>2, TypeUse DEF Truthful, Genuine, Numbered
        <4> QED
          BY <2>1, <3>1, <4>3
      <3> QED
        BY <1>1, <2>5, <3>1, MessagingAssumption, StoreAssumption DEF HandleSend
    <2>6. CASE HandleDelete(s)
      <3> PICK m : m = Requested(s).id
        OBVIOUS
      <3>1. ASSUME NEW c, MessageDelete(UserOf[s], m, c), c # Failed,
                   Works(s, "lock", Deleted(m), c)
            PROVE  TaskTruthful'
        <4> PICK p : p = Deleted(m)
          OBVIOUS
        <4> PICK row \in messages :
              row.id = m /\ messages' = messages \ {row}
          BY <3>1 DEF MessageDelete
        <4>1. m \in 1..(nextMessage - 1) /\ nextMessage' = nextMessage
          BY <3>1, TypeUse DEF Numbered, MessageDelete
        <4>2. \A r \in messages' : r.id # m
          BY DEF Numbered
        <4>3. Truthful(p)'
          BY <4>1, <4>2 DEF Truthful, Deleted, Retracted
        <4> QED
          BY <2>1, <3>1, <4>3
      <3> QED
        BY <1>1, <2>6, <3>1 DEF HandleDelete
    <2>7. CASE SendRow(s)
      <3> PICK row \in rows[s] : Works(s, "look", Message(row.id, row.channel), NoChannel)
        BY <2>7 DEF SendRow
      <3> PICK p : p = Message(row.id, row.channel)
        OBVIOUS
      <3>1. Truthful(p)
        BY DEF RowsTruthful, Truthful, Message
      <3> QED
        BY <2>1, <3>1, StableTruth
    <2>8. CASE HandleReaction(s)
      <3>1. ASSUME NEW type \in {"MSG_REACTION", "MSG_REACTION_REMOVE"}, NEW c, NEW place,
                   Dispatch(s, type), Works(s, place, Requested(s), c)
            PROVE  TaskTruthful'
        <4> PICK p : p = Requested(s)
          OBVIOUS
        <4>1. p.type = type
          BY <3>1, DispatchTypes
        <4>2. Truthful(p)'
          BY <4>1 DEF Truthful
        <4> QED
          BY <2>1, <3>1, <4>2
      <3> QED
        BY <1>1, <2>8, <3>1 DEF HandleReaction
    <2>9. CASE HandleHistory(s) \/ TellReactions(s) \/ EndOfHistory(s) \/ UnlockRegistry(s)
      BY <1>1, <2>2, <2>9 DEF HandleHistory, TellReactions, EndOfHistory, UnlockRegistry, Returns
    <2>10. CASE LookAtReactions(s) \/ SelectReactions(s)
      BY <2>2, <2>4, <2>10 DEF LookAtReactions, SelectReactions, Returns
    <2>11. CASE ClearReaction(s) \/ LockRegistry(s)
      BY <2>3, <2>11 DEF ClearReaction, LockRegistry
    <2>12. CASE InsertReaction(s) \/ RemoveReaction(s)
      BY <2>2, <2>3, <2>12 DEF InsertReaction, RemoveReaction, Answer, Returns
    <2> QED
      BY <1>1, <2>5, <2>6, <2>7, <2>8, <2>9, <2>10, <2>11, <2>12, WorkFrame DEF StepOf
  <1> QED
    BY <1>1, <1>2 DEF vars, workVars

(* The history rows a thread holds were in the table when it read them.    *)
LEMMA RowsStep ==
  TypeOK /\ Numbered /\ RowsTruthful /\ Stable /\ [Next]_vars => RowsTruthful'
  <1> SUFFICES ASSUME TypeOK, Numbered, RowsTruthful, Stable, [Next]_vars
               PROVE  RowsTruthful'
    OBVIOUS
  <1>1. ASSUME \A s \in Session : rows'[s] \subseteq rows[s] \cup messages
        PROVE  RowsTruthful'
    <2>1. \A row \in messages : Genuine(row.id, row.channel)
      BY DEF Numbered, Genuine, TypeOK, StoreTypeOK, MessageRow
    <2>2. ASSUME NEW s \in Session, NEW row \in rows'[s]
          PROVE  \A m, c : m = row.id /\ c = row.channel => Genuine(m, c)'
      BY <1>1, <2>1, <2>2 DEF RowsTruthful, Stable
    <2> QED
      BY <2>2 DEF RowsTruthful, Genuine
  <1>2. CASE UNCHANGED rows
    BY <1>1, <1>2
  <1>3. CASE Next
    <2> PICK s \in Session : StepOf(s)
      BY <1>3, NextCases
    <2>1. CASE HandleHistory(s)
      <3>1. CASE UNCHANGED rows
        BY <1>2, <3>1
      <3>2. CASE rows' = [rows EXCEPT ![s] = Newest(Requested(s).channel)]
        <4>1. Newest(Requested(s).channel) \subseteq messages
          BY DEF Newest
        <4>2. \A t \in Session :
                rows'[t] = rows[t] \/ rows'[t] = Newest(Requested(s).channel)
          BY <3>2 DEF TypeOK
        <4> QED
          BY <1>1, <4>1, <4>2
      <3> QED
        BY <2>1, <3>1, <3>2 DEF HandleHistory
    <2>2. CASE SendRow(s)
      BY <1>1, <2>2 DEF SendRow, TypeOK
    <2>3. CASE \/ HandleSend(s) \/ HandleDelete(s) \/ LookAtReactions(s)
               \/ TellReactions(s) \/ EndOfHistory(s) \/ HandleReaction(s)
               \/ ClearReaction(s) \/ InsertReaction(s) \/ RemoveReaction(s)
      BY <1>2, <2>3 DEF HandleSend, HandleDelete, LookAtReactions, TellReactions,
           EndOfHistory, HandleReaction, ClearReaction, InsertReaction, RemoveReaction
    <2>4. CASE SelectReactions(s) \/ LockRegistry(s) \/ UnlockRegistry(s)
      BY <1>2, <2>4 DEF SelectReactions, LockRegistry, UnlockRegistry
    <2> QED
      BY <1>2, <2>1, <2>2, <2>3, <2>4, WorkFrame DEF StepOf
  <1> QED
    BY <1>2, <1>3 DEF vars

-----------------------------------------------------------------------------
(* The client's message model.                                             *)
LEMMA AddedEntries ==
  ASSUME NEW v \in Seq(MessagePacket), NEW p \in MessagePacket
  PROVE  /\ \A i \in DOMAIN Added(v, p) :
              Added(v, p)[i] = p \/ \E j \in DOMAIN v : Added(v, p)[i] = v[j]
         /\ Holds(Added(v, p), p.id)
         /\ \A n : Holds(v, n) /\ ~Holds(Added(v, p), n) =>
              Full(v) /\ ~Holds(v, p.id) /\ v # <<>> /\ n = v[1].id
  <1>1. CASE Holds(v, p.id)
    BY <1>1 DEF Added
  <1>2. CASE ~Holds(v, p.id) /\ Full(v)
    <2> DEFINE w == Tail(v)
    <2>1. v # <<>>
      BY <1>2, MessagingAssumption DEF Full
    <2>2. /\ w \in Seq(MessagePacket) /\ Len(w) = Len(v) - 1
          /\ \A i \in 1..Len(w) : w[i] = v[i + 1]
      BY <2>1, HeadAndTail
    <2>3. Added(v, p) = Append(w, p)
      BY <1>2 DEF Added
    <2> HIDE DEF w
    <2>4. /\ Len(Append(w, p)) = Len(w) + 1 /\ Append(w, p)[Len(w) + 1] = p
          /\ \A i \in 1..Len(w) : Append(w, p)[i] = w[i]
          /\ DOMAIN Append(w, p) = 1..(Len(w) + 1)
      BY <2>2
    <2>5. \A i \in DOMAIN Append(w, p) :
            Append(w, p)[i] = p \/ \E j \in DOMAIN v : Append(w, p)[i] = v[j]
      <3> TAKE i \in DOMAIN Append(w, p)
      <3>1. CASE i = Len(w) + 1
        BY <2>4, <3>1
      <3>2. CASE i # Len(w) + 1
        <4>1. i \in 1..Len(w) /\ i + 1 \in DOMAIN v
          BY <2>2, <2>4, <3>2
        <4> QED
          BY <2>2, <2>4, <4>1
      <3> QED
        BY <3>1, <3>2
    <2>6. Holds(Append(w, p), p.id)
      BY <2>2, <2>4 DEF Holds
    <2>7. ASSUME NEW n, Holds(v, n), ~Holds(Append(w, p), n) PROVE n = v[1].id
      <3> PICK j \in DOMAIN v : v[j].id = n
        BY <2>7 DEF Holds
      <3>1. CASE j = 1
        BY <3>1
      <3>2. CASE j # 1
        <4>1. j - 1 \in 1..Len(w) /\ w[j - 1] = v[j]
          BY <2>2, <3>2
        <4>2. j - 1 \in DOMAIN Append(w, p) /\ Append(w, p)[j - 1] = v[j]
          BY <2>2, <2>4, <4>1
        <4> QED
          BY <2>7, <4>2 DEF Holds
      <3> QED
        BY <3>1, <3>2
    <2> QED
      BY <1>2, <2>1, <2>3, <2>5, <2>6, <2>7
  <1>3. CASE ~Holds(v, p.id) /\ ~Full(v)
    <2>1. Added(v, p) = Append(v, p)
      BY <1>3 DEF Added
    <2>2. /\ Append(v, p)[Len(v) + 1] = p
          /\ \A i \in 1..Len(v) : Append(v, p)[i] = v[i]
          /\ DOMAIN Append(v, p) = 1..(Len(v) + 1)
          /\ Len(v) \in Nat /\ DOMAIN v = 1..Len(v)
      OBVIOUS
    <2> QED
      BY <2>1, <2>2 DEF Holds
  <1> QED
    BY <1>1, <1>2, <1>3

LEMMA ViewStep ==
  TypeOK /\ InboxTruthful /\ ViewTruthful /\ Stable /\ [Next]_vars => ViewTruthful'
  <1> SUFFICES ASSUME TypeOK, InboxTruthful, ViewTruthful, Stable, [Next]_vars
               PROVE  ViewTruthful'
    OBVIOUS
  <1>1. ASSUME \A s \in Session : \A i \in DOMAIN view'[s] :
                 \/ \E j \in DOMAIN view[s] : view'[s][i] = view[s][j]
                 \/ Genuine(view'[s][i].id, view'[s][i].channel)
        PROVE  ViewTruthful'
    <2>1. \A s \in Session : \A i \in DOMAIN view'[s] :
            \A m, c : m = view'[s][i].id /\ c = view'[s][i].channel => Genuine(m, c)
      BY <1>1 DEF ViewTruthful
    <2>2. \A s \in Session : \A i \in DOMAIN view'[s] :
            \A m, c : m = view'[s][i].id /\ c = view'[s][i].channel => Genuine(m, c)'
      BY <2>1 DEF Stable
    <2> QED
      BY <2>2 DEF ViewTruthful, Genuine
  <1>2. CASE UNCHANGED view
    BY <1>1, <1>2
  <1>3. CASE Next
    <2> PICK s \in Session : StepOf(s)
      BY <1>3, NextCases
    <2>1. CASE ReceiveMessage(s)
      <3>1. /\ Received(s) \in MessagePacket
            /\ Genuine(Received(s).id, Received(s).channel)
        BY <2>1, ReceivesTypes, PacketShape, ReceivesTruth DEF ReceiveMessage, Truthful
      <3>2. \A i \in DOMAIN Added(view[s], Received(s)) :
              \/ Added(view[s], Received(s))[i] = Received(s)
              \/ \E j \in DOMAIN view[s] : Added(view[s], Received(s))[i] = view[s][j]
        BY <3>1, TypeUse, AddedEntries
      <3>3. view' = [view EXCEPT ![s] = Added(view[s], Received(s))]
        BY <2>1 DEF ReceiveMessage
      <3>4. ASSUME NEW t \in Session
            PROVE  \/ view'[t] = view[t]
                   \/ t = s /\ view'[t] = Added(view[s], Received(s))
        BY <3>3 DEF TypeOK
      <3>5. ASSUME NEW t \in Session, NEW i \in DOMAIN view'[t]
            PROVE  \/ Genuine(view'[t][i].id, view'[t][i].channel)
                   \/ \E j \in DOMAIN view[t] : view'[t][i] = view[t][j]
        <4>1. CASE view'[t] = view[t]
          BY <3>5, <4>1
        <4>2. CASE t = s /\ view'[t] = Added(view[s], Received(s))
          BY <3>1, <3>2, <3>5, <4>2
        <4> QED
          BY <3>4, <4>1, <4>2
      <3> QED
        BY <1>1, <3>5
    <2>2. CASE ReceiveDeleted(s)
      <3>1. \A i \in DOMAIN Without(view[s], Received(s).id) :
              \E j \in DOMAIN view[s] : Without(view[s], Received(s).id)[i] = view[s][j]
        BY TypeUse, WithoutTypes
      <3>2. view' = [view EXCEPT ![s] = Without(view[s], Received(s).id)]
        BY <2>2 DEF ReceiveDeleted
      <3> QED
        BY <1>1, <3>1, <3>2 DEF TypeOK
    <2>3. CASE ~ReceiveMessage(s) /\ ~ReceiveDeleted(s)
      <3>1. UNCHANGED view
        BY <2>3 DEF StepOf, SelectChannel, TypeLine, ClickDelete, OpenMenu, PickFromMenu,
             HandleJoin, HandleSend, HandleDelete, HandleHistory, SendRow,
             LookAtReactions, TellReactions, EndOfHistory, HandleReaction, ClearReaction,
             InsertReaction, RemoveReaction, SelectReactions, LockRegistry, Visit,
             UnlockRegistry, ReceiveSummary, IgnoreReply, clientVars
      <3> QED
        BY <1>2, <3>1
    <2> QED
      BY <2>1, <2>2, <2>3
  <1> QED
    BY <1>2, <1>3 DEF vars, clientVars

-----------------------------------------------------------------------------
(* Joins, histories and what has been fetched.                             *)
LEMMA MenuStep == TypeOK /\ MenuOffers /\ [Next]_vars => MenuOffers'
  <1> SUFFICES ASSUME TypeOK, MenuOffers, [Next]_vars PROVE MenuOffers'
    OBVIOUS
  <1>1. CASE UNCHANGED menu
    BY <1>1 DEF MenuOffers
  <1>2. CASE Next
    <2> PICK s \in Session : StepOf(s)
      BY <1>2, NextCases
    <2>1. CASE OpenMenu(s)
      <3> PICK m \in OnScreen(s) :
            menu' = [menu EXCEPT ![s] =
                  IF \E r \in reacts[s] : r.message = m /\ r.user = UserOf[s]
                    THEN {Unreact(m)}
                    ELSE {React(m, e) : e \in Emoji}]
        BY <2>1 DEF OpenMenu
      <3> QED
        BY DEF MenuOffers, TypeOK, Unreact, React
    <2>2. CASE PickFromMenu(s)
      BY <2>2 DEF PickFromMenu, MenuOffers, TypeOK
    <2>3. CASE ~OpenMenu(s) /\ ~PickFromMenu(s)
      <3>1. UNCHANGED menu
        BY <2>3 DEF StepOf, SelectChannel, TypeLine, ClickDelete,
             HandleJoin, HandleSend, HandleDelete, HandleHistory, SendRow,
             LookAtReactions, TellReactions, EndOfHistory, HandleReaction, ClearReaction,
             InsertReaction, RemoveReaction, SelectReactions, LockRegistry, Visit,
             UnlockRegistry, ReceiveMessage, ReceiveDeleted, ReceiveSummary, IgnoreReply,
             clientVars
      <3> QED
        BY <1>1, <3>1
    <2> QED
      BY <2>1, <2>2, <2>3
  <1> QED
    BY <1>1, <1>2 DEF vars, clientVars

(* What HistoryAfterJoin says of one queue.                                *)
Paired(q, c) ==
  \A i \in DOMAIN q :
    q[i].type = "MSG_HISTORY" =>
      IF i = 1 THEN q[i].channel = c
      ELSE q[i - 1].type = "CHANNEL_JOIN" /\ q[i - 1].channel = q[i].channel

LEMMA PairedAppend ==
  ASSUME NEW q \in Seq(Request), NEW c, Paired(q, c), NEW r \in Request,
         r.type # "MSG_HISTORY"
  PROVE  Paired(q \o <<r>>, c)
  <1>1. /\ DOMAIN (q \o <<r>>) = 1..(Len(q) + 1)
        /\ \A i \in 1..Len(q) : (q \o <<r>>)[i] = q[i]
        /\ (q \o <<r>>)[Len(q) + 1] = r
        /\ Len(q) \in Nat /\ DOMAIN q = 1..Len(q)
    OBVIOUS
  <1> DEFINE w == q \o <<r>>
  <1> HIDE DEF w
  <1>2. /\ DOMAIN w = 1..(Len(q) + 1)
        /\ \A i \in 1..Len(q) : w[i] = q[i]
        /\ w[Len(q) + 1] = r
    BY <1>1 DEF w
  <1>3. ASSUME NEW i \in DOMAIN w, w[i].type = "MSG_HISTORY"
        PROVE  IF i = 1 THEN w[i].channel = c
               ELSE w[i - 1].type = "CHANNEL_JOIN" /\ w[i - 1].channel = w[i].channel
    <2>1. i \in 1..Len(q)
      BY <1>1, <1>2, <1>3
    <2>2. CASE i = 1
      BY <1>1, <1>2, <1>3, <2>1, <2>2 DEF Paired
    <2>3. CASE i # 1
      <3>1. i - 1 \in 1..Len(q)
        BY <1>1, <2>1, <2>3
      <3>2. w[i - 1] = q[i - 1] /\ w[i] = q[i]
        BY <1>2, <2>1, <3>1
      <3> QED
        BY <1>1, <1>3, <2>1, <2>3, <3>2 DEF Paired
    <2> QED
      BY <2>2, <2>3
  <1>4. Paired(w, c)
    BY <1>3 DEF Paired
  <1> QED
    BY <1>4 DEF w

LEMMA TwoMore ==
  ASSUME NEW S, NEW q \in Seq(S), NEW o \in Seq(S), Len(o) = 2
  PROVE  /\ Len(q) \in Nat /\ DOMAIN q = 1..Len(q)
         /\ DOMAIN (q \o o) = 1..(Len(q) + 2)
         /\ \A i \in 1..Len(q) : (q \o o)[i] = q[i]
         /\ (q \o o)[Len(q) + 1] = o[1]
         /\ (q \o o)[Len(q) + 2] = o[2]
  <1>0. Len(q \o o) = Len(q) + Len(o)
    BY ConcatProperties
  <1>1. Len(q) \in Nat /\ DOMAIN q = 1..Len(q) /\ Len(q \o o) = Len(q) + 2
    BY <1>0
  <1>2. \A i \in 1..(Len(q) + 2) :
          (q \o o)[i] = IF i <= Len(q) THEN q[i] ELSE o[i - Len(q)]
    BY <1>1, ConcatProperties
  <1>3. (Len(q) + 1) - Len(q) = 1 /\ (Len(q) + 2) - Len(q) = 2
    BY <1>1
  <1>4. q \o o \in Seq(S)
    BY ConcatProperties
  <1>5. DOMAIN (q \o o) = 1..(Len(q) + 2)
    BY <1>1, <1>4
  <1> QED
    BY <1>1, <1>2, <1>3, <1>5

LEMMA PairedOpen ==
  ASSUME NEW q \in Seq(Request), NEW c, Paired(q, c), NEW d \in Channel
  PROVE  Paired(q \o OpenRequests(d), c)
  <1> DEFINE o == OpenRequests(d)
  <1>1. o \in Seq(Request) /\ Len(o) = 2 /\ o[1] = Join(d) /\ o[2] = History(d)
    BY RequestTypes DEF OpenRequests
  <1> HIDE DEF o
  <1> DEFINE w == q \o o
  <1>2. /\ DOMAIN w = 1..(Len(q) + 2)
        /\ \A i \in 1..Len(q) : w[i] = q[i]
        /\ w[Len(q) + 1] = o[1] /\ w[Len(q) + 2] = o[2]
        /\ Len(q) \in Nat /\ DOMAIN q = 1..Len(q)
    BY <1>1, TwoMore
  <1> HIDE DEF w
  <1>3. ASSUME NEW i \in DOMAIN w, w[i].type = "MSG_HISTORY"
        PROVE  IF i = 1 THEN w[i].channel = c
               ELSE w[i - 1].type = "CHANNEL_JOIN" /\ w[i - 1].channel = w[i].channel
    <2>1. CASE i \in 1..Len(q) /\ i = 1
      BY <1>2, <1>3, <2>1 DEF Paired
    <2>2. CASE i \in 1..Len(q) /\ i # 1
      <3>1. i - 1 \in 1..Len(q)
        BY <1>2, <2>2
      <3>2. w[i - 1] = q[i - 1] /\ w[i] = q[i]
        BY <1>2, <2>2, <3>1
      <3> QED
        BY <1>2, <1>3, <2>2, <3>2 DEF Paired
    <2>3. CASE i = Len(q) + 1
      BY <1>1, <1>2, <1>3, <2>3 DEF Join
    <2>4. CASE i = Len(q) + 2
      <3>1. i # 1 /\ i - 1 = Len(q) + 1
        BY <1>2, <2>4
      <3> QED
        BY <1>1, <1>2, <2>4, <3>1 DEF Join, History
    <2> QED
      BY <1>2, <2>1, <2>2, <2>3, <2>4
  <1>4. Paired(w, c)
    BY <1>3 DEF Paired
  <1> QED
    BY <1>4 DEF w, o

(* The request taken from a queue: a history is for the current channel,   *)
(* and behind a join the current channel is the one it names.              *)
LEMMA PairedTail ==
  ASSUME NEW q \in Seq(Request), NEW c, Paired(q, c), q # <<>>
  PROVE  /\ Head(q).type = "MSG_HISTORY" => Head(q).channel = c
         /\ Head(q).type = "CHANNEL_JOIN" => Paired(Tail(q), Head(q).channel)
         /\ Head(q).type # "CHANNEL_JOIN" => Paired(Tail(q), c)
  <1> DEFINE w == Tail(q)
  <1>1. /\ DOMAIN w = 1..(Len(q) - 1) /\ \A i \in 1..(Len(q) - 1) : w[i] = q[i + 1]
        /\ Len(q) \in Nat /\ Len(q) >= 1 /\ Head(q) = q[1] /\ DOMAIN q = 1..Len(q)
    BY HeadAndTail
  <1> HIDE DEF w
  <1>2. Head(q).type = "MSG_HISTORY" => Head(q).channel = c
    <2>1. 1 \in DOMAIN q
      BY <1>1
    <2> QED
      BY <1>1, <2>1 DEF Paired
  <1>3. ASSUME NEW i \in DOMAIN w, i # 1, w[i].type = "MSG_HISTORY"
        PROVE  w[i - 1].type = "CHANNEL_JOIN" /\ w[i - 1].channel = w[i].channel
    <2>1. i + 1 \in DOMAIN q /\ i + 1 # 1 /\ (i + 1) - 1 = i /\ i - 1 \in 1..(Len(q) - 1)
      BY <1>1, <1>3
    <2>2. w[i] = q[i + 1] /\ w[i - 1] = q[i]
      BY <1>1, <1>3, <2>1
    <2> QED
      BY <1>3, <2>1, <2>2 DEF Paired
  <1>4. ASSUME 1 \in DOMAIN w, w[1].type = "MSG_HISTORY"
        PROVE  Head(q).type = "CHANNEL_JOIN" /\ Head(q).channel = w[1].channel
    <2>1. \A i \in DOMAIN q : i # 1 /\ q[i].type = "MSG_HISTORY" =>
            q[i - 1].type = "CHANNEL_JOIN" /\ q[i - 1].channel = q[i].channel
      BY DEF Paired
    <2> PICK k : k = 2
      OBVIOUS
    <2>2. k \in DOMAIN q /\ w[1] = q[k] /\ k # 1 /\ k - 1 = 1
      BY <1>1, <1>4
    <2> QED
      BY <1>1, <1>4, <2>1, <2>2
  <1>5. /\ Head(q).type = "CHANNEL_JOIN" => Paired(w, Head(q).channel)
        /\ Head(q).type # "CHANNEL_JOIN" => Paired(w, c)
    BY <1>3, <1>4 DEF Paired
  <1> QED
    BY <1>2, <1>5 DEF w

LEMMA PairedAll == HistoryAfterJoin <=> \A s \in Session : Paired(outbox[s], channel[s])
  BY DEF HistoryAfterJoin, Paired

LEMMA PairedAllNext ==
  HistoryAfterJoin' <=> \A s \in Session : Paired(outbox'[s], channel'[s])
  BY DEF HistoryAfterJoin, Paired

LEMMA JoinStep ==
  TypeOK /\ MenuOffers /\ HistoryAfterJoin /\ [Next]_vars => HistoryAfterJoin'
  <1> SUFFICES ASSUME TypeOK, MenuOffers, HistoryAfterJoin, [Next]_vars
               PROVE  HistoryAfterJoin'
    OBVIOUS
  <1> USE DEF queueVars
  <1>1. CASE UNCHANGED <<outbox, channel>>
    BY <1>1, PairedAll, PairedAllNext
  <1>2. CASE Next
    <2> PICK s \in Session : StepOf(s)
      BY <1>2, NextCases
    <2>0. Paired(outbox[s], channel[s]) /\ outbox[s] \in Seq(Request)
      BY PairedAll, TypeUse
    <2>1. ASSUME NEW r \in Request, r.type # "MSG_HISTORY", Transmit(s, <<r>>),
                 channel' = channel
          PROVE  HistoryAfterJoin'
      <3>1. outbox' = [outbox EXCEPT ![s] = outbox[s] \o <<r>>]
        BY <2>1 DEF Transmit
      <3>2. Paired(outbox[s] \o <<r>>, channel[s])
        BY <2>0, <2>1, PairedAppend
      <3> QED
        BY <2>1, <3>1, <3>2, PairedAll, PairedAllNext DEF TypeOK
    <2>2. CASE SelectChannel(s)
      <3> PICK c \in Channel : outbox' = [outbox EXCEPT ![s] = outbox[s] \o OpenRequests(c)]
        BY <2>2 DEF SelectChannel, Transmit
      <3>1. Paired(outbox[s] \o OpenRequests(c), channel[s])
        BY <2>0, PairedOpen
      <3>2. channel' = channel
        BY <2>2 DEF SelectChannel
      <3> QED
        BY <3>1, <3>2, PairedAll, PairedAllNext DEF TypeOK
    <2>3. CASE TypeLine(s)
      <3>1. Send \in Request /\ Send.type # "MSG_HISTORY"
        BY RequestTypes DEF Send
      <3> QED
        BY <2>1, <2>3, <3>1 DEF TypeLine
    <2>4. CASE ClickDelete(s)
      <3> PICK m \in OnScreen(s) : Transmit(s, <<Delete(m)>>)
        BY <2>4 DEF ClickDelete
      <3>1. m \in Nat
        <4>1. \A i \in DOMAIN view[s] : view[s][i] \in MessagePacket
          BY TypeUse
        <4> QED
          BY <4>1 DEF OnScreen, MessagePacket
      <3>2. Delete(m) \in Request /\ Delete(m).type # "MSG_HISTORY"
        BY <3>1, RequestTypes DEF Delete
      <3> QED
        BY <2>1, <2>4, <3>2 DEF ClickDelete
    <2>5. CASE PickFromMenu(s)
      <3>1. \A r \in menu[s] : r \in Request /\ r.type # "MSG_HISTORY"
        BY DEF MenuOffers, TypeOK
      <3> QED
        BY <1>1, <2>1, <2>5, <3>1 DEF PickFromMenu
    <2>6. ASSUME NEW type, type # "CHANNEL_JOIN", Dispatch(s, type), channel' = channel
          PROVE  HistoryAfterJoin'
      <3>1. outbox' = [outbox EXCEPT ![s] = Tail(outbox[s])]
        BY <2>6 DEF Dispatch
      <3>2. Paired(Tail(outbox[s]), channel[s])
        BY <2>0, <2>6, PairedTail DEF Dispatch
      <3> QED
        BY <2>6, <3>1, <3>2, PairedAll, PairedAllNext DEF TypeOK
    <2>7. CASE HandleJoin(s)
      <3>1. /\ outbox' = [outbox EXCEPT ![s] = Tail(outbox[s])]
            /\ channel' = [channel EXCEPT ![s] = Head(outbox[s]).channel]
        BY <2>7 DEF HandleJoin, Dispatch, Requested
      <3>2. Paired(Tail(outbox[s]), Head(outbox[s]).channel)
        BY <2>0, <2>7, PairedTail DEF HandleJoin, Dispatch
      <3> QED
        BY <3>1, <3>2, PairedAll, PairedAllNext DEF TypeOK
    <2>8. CASE HandleSend(s) \/ HandleDelete(s) \/ HandleHistory(s) \/ HandleReaction(s)
      BY <2>6, <2>8 DEF HandleSend, HandleDelete, HandleHistory, HandleReaction
    <2>9. CASE \/ OpenMenu(s) \/ SendRow(s) \/ LookAtReactions(s) \/ TellReactions(s)
               \/ EndOfHistory(s) \/ ClearReaction(s) \/ InsertReaction(s)
               \/ RemoveReaction(s) \/ SelectReactions(s)
      BY <1>1, <2>9 DEF OpenMenu, SendRow, LookAtReactions, TellReactions, EndOfHistory,
           ClearReaction, InsertReaction, RemoveReaction, SelectReactions
    <2>10. CASE \/ LockRegistry(s) \/ (\E t \in Session : Visit(s, t)) \/ UnlockRegistry(s)
                \/ ReceiveMessage(s) \/ ReceiveDeleted(s) \/ ReceiveSummary(s)
                \/ IgnoreReply(s)
      BY <1>1, <2>10 DEF LockRegistry, Visit, UnlockRegistry, ReceiveMessage,
           ReceiveDeleted, ReceiveSummary, IgnoreReply
    <2> QED
      BY <2>2, <2>3, <2>4, <2>5, <2>7, <2>8, <2>9, <2>10 DEF StepOf
  <1> QED
    BY <1>1, <1>2 DEF vars, queueVars

(* A session that has fetched a history is in the channel of that history. *)
LEMMA FetchedStep ==
  TypeOK /\ HistoryAfterJoin /\ FetchedHere /\ [Next]_vars => FetchedHere'
  <1> SUFFICES ASSUME TypeOK, HistoryAfterJoin, FetchedHere, [Next]_vars
               PROVE  FetchedHere'
    OBVIOUS
  <1> USE DEF ghostVars
  <1>1. CASE UNCHANGED <<fetched, channel>>
    BY <1>1 DEF FetchedHere
  <1>2. CASE Next
    <2> PICK s \in Session : StepOf(s)
      BY <1>2, NextCases
    <2>1. CASE HandleJoin(s)
      BY <2>1 DEF HandleJoin, FetchedHere, TypeOK
    <2>2. CASE HandleHistory(s)
      <3>1. Requested(s).channel = channel[s]
        <4>1. Paired(outbox[s], channel[s]) /\ outbox[s] \in Seq(Request)
          BY PairedAll, TypeUse
        <4> QED
          BY <2>2, <4>1, PairedTail DEF HandleHistory, Dispatch, Requested
      <3> QED
        BY <2>2, <3>1 DEF HandleHistory, FetchedHere, TypeOK
    <2>3. CASE ReceiveMessage(s)
      BY <2>3 DEF ReceiveMessage, FetchedHere, TypeOK
    <2>4. CASE ~HandleJoin(s) /\ ~HandleHistory(s) /\ ~ReceiveMessage(s)
      <3>1. UNCHANGED <<fetched, channel>>
        BY <2>4 DEF StepOf, SelectChannel, TypeLine, ClickDelete, OpenMenu, PickFromMenu,
             HandleSend, HandleDelete, SendRow, LookAtReactions, TellReactions,
             EndOfHistory, HandleReaction, ClearReaction, InsertReaction, RemoveReaction,
             SelectReactions, LockRegistry, Visit, UnlockRegistry, ReceiveDeleted,
             ReceiveSummary, IgnoreReply
      <3> QED
        BY <1>1, <3>1
    <2> QED
      BY <2>1, <2>2, <2>3, <2>4
  <1> QED
    BY <1>1, <1>2 DEF vars, ghostVars

(* A new message is broadcast to the channel it was posted in.             *)
LEMMA ChannelStep == TypeOK /\ SameChannel /\ [Next]_vars => SameChannel'
  <1> SUFFICES ASSUME TypeOK, SameChannel, [Next]_vars PROVE SameChannel'
    OBVIOUS
  <1> USE DEF workVars
  <1>1. CASE UNCHANGED <<pc, task, to>>
    BY <1>1 DEF SameChannel
  <1>2. CASE Next
    <2> PICK s \in Session : StepOf(s)
      BY <1>2, NextCases
    <2>1. ASSUME NEW place, NEW what, NEW where, Works(s, place, what, where),
                 (place \in {"lock", "cast"} /\ what.type = "MESSAGE") =>
                    where = what.channel
          PROVE  SameChannel'
      BY <2>1 DEF Works, SameChannel, TypeOK
    <2>2. ASSUME NEW place, NEW what, NEW where, Works(s, place, what, where),
                 place \notin {"lock", "cast"}
          PROVE  SameChannel'
      BY <2>1, <2>2
    <2>3. CASE HandleSend(s)
      <3>1. ASSUME NEW id, Works(s, "lock", Message(id, channel[s]), channel[s])
            PROVE  SameChannel'
        BY <2>1, <3>1 DEF Message
      <3> QED
        BY <1>1, <2>3, <3>1 DEF HandleSend
    <2>4. CASE HandleDelete(s)
      <3>1. ASSUME NEW c, NEW m, Works(s, "lock", Deleted(m), c)
            PROVE  SameChannel'
        BY <2>1, <3>1 DEF Deleted
      <3> QED
        BY <1>1, <2>4, <3>1 DEF HandleDelete
    <2>5. CASE SelectReactions(s)
      <3>1. ASSUME NEW some, Works(s, "lock", Summary(task[s].id, some), to[s])
            PROVE  SameChannel'
        BY <2>1, <3>1 DEF Summary
      <3> QED
        BY <2>2, <2>5, <3>1 DEF SelectReactions, Returns
    <2>6. CASE LockRegistry(s)
      <3>1. task[s].type = "MESSAGE" => to[s] = task[s].channel
        BY <2>6 DEF LockRegistry, SameChannel
      <3> QED
        BY <2>1, <2>6, <3>1 DEF LockRegistry
    <2>7. CASE HandleHistory(s) \/ SendRow(s) \/ LookAtReactions(s) \/ TellReactions(s)
      BY <1>1, <2>2, <2>7 DEF HandleHistory, SendRow, LookAtReactions, TellReactions
    <2>8. CASE EndOfHistory(s) \/ ClearReaction(s) \/ UnlockRegistry(s)
      BY <2>2, <2>8 DEF EndOfHistory, ClearReaction, UnlockRegistry, Returns
    <2>9. CASE InsertReaction(s) \/ RemoveReaction(s)
      BY <2>2, <2>9 DEF InsertReaction, RemoveReaction, Answer, Returns
    <2>10. CASE HandleReaction(s)
      <3>1. ASSUME NEW type, NEW what, NEW where,
                   Works(s, IF type = "MSG_REACTION" THEN "clear" ELSE "remove", what, where)
            PROVE  SameChannel'
        BY <2>2, <3>1
      <3> QED
        BY <1>1, <2>10, <3>1 DEF HandleReaction
    <2> QED
      BY <1>1, <2>3, <2>4, <2>5, <2>6, <2>7, <2>8, <2>9, <2>10, WorkFrame DEF StepOf
  <1> QED
    BY <1>1, <1>2 DEF vars, workVars

-----------------------------------------------------------------------------
(* No message is lost.                                                     *)
Queued(s, p) == \E i \in DOMAIN inbox[s] : inbox[s][i] = p

Safe(s, row) == Holds(view[s], row.id) \/ OnItsWay(s, row)

LEMMA SafeParts ==
  ASSUME NEW s \in Session, NEW row
  PROVE  /\ Safe(s, row) <=>
              \/ Holds(view[s], row.id)
              \/ Queued(s, Message(row.id, row.channel))
              \/ row \in rows[s]
              \/ \E t \in Session : Casting(t, s, Message(row.id, row.channel))
         /\ Safe(s, row)' <=>
              \/ Holds(view'[s], row.id)
              \/ Queued(s, Message(row.id, row.channel))'
              \/ row \in rows'[s]
              \/ \E t \in Session : Casting(t, s, Message(row.id, row.channel))'
  BY DEF Safe, OnItsWay, Queued, Casting, Message, Holds

LEMMA QueuedSends ==
  ASSUME TypeOK, NEW s \in Session, NEW p, Sends(s, p)
  PROVE  /\ Queued(s, p)'
         /\ \A t \in Session : \A q : Queued(t, q) => Queued(t, q)'
  <1>1. /\ inbox[s] \in Seq(Packet) /\ inbox' = [inbox EXCEPT ![s] = Append(inbox[s], p)]
        /\ \A t \in Session \ {s} : inbox'[t] = inbox[t]
        /\ inbox'[s] = Append(inbox[s], p)
    BY TypeUse DEF Sends, TypeOK
  <1>2. /\ DOMAIN Append(inbox[s], p) = 1..(Len(inbox[s]) + 1)
        /\ Append(inbox[s], p)[Len(inbox[s]) + 1] = p
        /\ \A i \in DOMAIN inbox[s] : Append(inbox[s], p)[i] = inbox[s][i]
        /\ DOMAIN inbox[s] \subseteq 1..(Len(inbox[s]) + 1)
        /\ Len(inbox[s]) \in Nat
    BY <1>1
  <1> QED
    BY <1>1, <1>2 DEF Queued

LEMMA QueuedReceives ==
  ASSUME TypeOK, NEW s \in Session, NEW type, Receives(s, type)
  PROVE  \A t \in Session : \A q :
           Queued(t, q) => Queued(t, q)' \/ (t = s /\ q = Received(s))
  <1>1. inbox[s] \in Seq(Packet) /\ inbox[s] # <<>>
    BY TypeUse DEF Receives
  <1>2. /\ inbox'[s] = Tail(inbox[s])
        /\ \A t \in Session \ {s} : inbox'[t] = inbox[t]
    BY DEF Receives, TypeOK
  <1>3. ASSUME NEW i \in DOMAIN inbox[s]
        PROVE  \/ inbox[s][i] = Received(s)
               \/ \E j \in DOMAIN inbox'[s] : inbox'[s][j] = inbox[s][i]
    <2>1. CASE i = 1
      BY <1>1, <2>1, HeadAndTail DEF Received
    <2>2. CASE i # 1
      <3>1. i - 1 \in 1..Len(Tail(inbox[s])) /\ (i - 1) + 1 = i
        BY <1>1, <2>2, HeadAndTail
      <3>2. Tail(inbox[s])[i - 1] = inbox[s][i]
        BY <1>1, <3>1, HeadAndTail
      <3>3. i - 1 \in DOMAIN Tail(inbox[s])
        BY <1>1, <3>1, HeadAndTail
      <3> QED
        BY <1>2, <3>2, <3>3
    <2> QED
      BY <2>1, <2>2
  <1> QED
    BY <1>2, <1>3 DEF Queued

(* A thread that was not broadcasting cannot lose a broadcast; what it     *)
(* takes up does not disturb those of the others.                          *)
LEMMA CastingWorks ==
  ASSUME TypeOK, NEW s \in Session, pc[s] \notin {"lock", "cast"},
         NEW place, NEW what, NEW where, Works(s, place, what, where), todo' = todo
  PROVE  \A t, r \in Session : \A q : Casting(t, r, q) => Casting(t, r, q)'
  BY DEF Works, Casting, TypeOK

LEMMA CastingFrame ==
  ASSUME UNCHANGED <<pc, task, todo>>
  PROVE  \A t, r \in Session : \A q : Casting(t, r, q) => Casting(t, r, q)'
  BY DEF Casting

(* Steps that leave the clients' models, and no packet or row, behind.     *)
LEMMA SafeKept ==
  ASSUME NoLostMessage, UNCHANGED <<view, fetched, channel>>, messages' \subseteq messages,
         \A s \in Session : rows[s] \subseteq rows'[s],
         \A s \in Session : \A q : Queued(s, q) => Queued(s, q)',
         \A t, s \in Session : \A q : Casting(t, s, q) => Casting(t, s, q)'
  PROVE  NoLostMessage'
  <1>1. ASSUME NEW s \in Session, fetched[s] # NoChannel, fetched[s] = channel[s],
               NEW row \in messages', row.channel = channel[s]
        PROVE  Safe(s, row)'
    <2>1. Safe(s, row)
      BY <1>1 DEF NoLostMessage, Safe
    <2> QED
      BY <2>1, SafeParts
  <1> QED
    BY <1>1 DEF NoLostMessage, Safe, OnItsWay, Casting, Message, Holds

LEMMA LostUI ==
  ASSUME TypeOK, NoLostMessage, NEW s \in Session,
         \/ SelectChannel(s) \/ TypeLine(s) \/ ClickDelete(s) \/ OpenMenu(s)
         \/ PickFromMenu(s)
  PROVE  NoLostMessage'
  <1>1. UNCHANGED <<view, fetched, channel, messages, rows, inbox, pc, task, todo>>
    BY DEF SelectChannel, TypeLine, ClickDelete, OpenMenu, PickFromMenu, storeVars,
           queueVars, workVars, lockVars, ghostVars
  <1> QED
    BY <1>1, CastingFrame, SafeKept DEF Queued

LEMMA LostJoin ==
  ASSUME TypeOK, FetchedHere, NoLostMessage, NEW s \in Session, HandleJoin(s)
  PROVE  NoLostMessage'
  <1> USE DEF storeVars, workVars, lockVars, clientVars
  <1>1. UNCHANGED <<view, messages, rows, pc, task, todo>> /\ Sends(s, Ok)
    BY DEF HandleJoin
  <1>2. \A t \in Session : fetched'[t] # NoChannel /\ fetched'[t] = channel'[t] =>
          fetched[t] = fetched'[t] /\ channel[t] = channel'[t]
    BY DEF HandleJoin, FetchedHere, TypeOK
  <1>3. ASSUME NEW t \in Session, fetched'[t] # NoChannel, fetched'[t] = channel'[t],
               NEW row \in messages', row.channel = channel'[t]
        PROVE  Safe(t, row)'
    <2>1. Safe(t, row)
      BY <1>1, <1>2, <1>3 DEF NoLostMessage, Safe
    <2>2. \A q : Queued(t, q) => Queued(t, q)'
      BY <1>1, QueuedSends
    <2> QED
      BY <1>1, <2>1, <2>2, SafeParts, CastingFrame
  <1> QED
    BY <1>3 DEF NoLostMessage, Safe, OnItsWay, Casting, Message, Holds

LEMMA LostSend ==
  ASSUME TypeOK, NoLostMessage, NEW s \in Session, HandleSend(s)
  PROVE  NoLostMessage'
  <1> USE DEF storeVars, workVars, lockVars, clientVars, ghostVars
  <1>1. UNCHANGED <<view, rows, todo, fetched, channel>> /\ pc[s] = "idle"
    BY DEF HandleSend, Dispatch
  <1>2. CASE UNCHANGED <<messages, pc, task>> /\ Sends(s, Error)
    BY <1>1, <1>2, QueuedSends, CastingFrame, SafeKept
  <1>3. ASSUME NEW id, MessageInsert(UserOf[s], channel[s], id), id = nextMessage,
               Works(s, "lock", Message(id, channel[s]), channel[s]),
               UNCHANGED inbox, id # Failed
        PROVE  NoLostMessage'
    <2> PICK p : p = Message(id, channel[s])
      OBVIOUS
    <2>1. messages' = messages \cup
            {[id |-> nextMessage, author |-> UserOf[s], channel |-> channel[s]]}
      BY <1>3 DEF MessageInsert
    <2>2. \A t \in Session : \A q : Queued(t, q) => Queued(t, q)'
      BY <1>3 DEF Queued
    <2>3. \A t, r \in Session : \A q : Casting(t, r, q) => Casting(t, r, q)'
      BY <1>1, <1>3, CastingWorks
    <2>4. \A t \in Session : Casting(s, t, p)'
      BY <1>3 DEF Works, Casting, TypeOK
    <2>5. ASSUME NEW t \in Session, fetched[t] # NoChannel, fetched[t] = channel[t],
                 NEW row \in messages', row.channel = channel[t]
          PROVE  Safe(t, row)'
      <3>1. CASE row \in messages
        <4>1. Safe(t, row)
          BY <2>5, <3>1 DEF NoLostMessage, Safe
        <4> QED
          BY <1>1, <2>2, <2>3, <4>1, SafeParts
      <3>2. CASE row \notin messages
        <4>1. Message(row.id, row.channel) = p
          BY <1>3, <2>1, <2>5, <3>2 DEF Message
        <4> QED
          BY <2>4, <4>1, SafeParts
      <3> QED
        BY <3>1, <3>2
    <2> QED
      BY <1>1, <2>5 DEF NoLostMessage, Safe, OnItsWay, Casting, Message, Holds
  <1>4. CASE channel[s] = NoChannel
    BY <1>2, <1>4 DEF HandleSend
  <1>5. CASE channel[s] # NoChannel
    <2> PICK id \in {nextMessage, Failed} :
          /\ MessageInsert(UserOf[s], channel[s], id)
          /\ IF id = Failed
               THEN Sends(s, Error) /\ UNCHANGED workVars
               ELSE /\ Works(s, "lock", Message(id, channel[s]), channel[s])
                    /\ UNCHANGED inbox
      BY <1>5 DEF HandleSend
    <2>1. CASE id = Failed
      <3>1. nextMessage # Failed
        BY StoreAssumption DEF TypeOK, StoreTypeOK
      <3>2. UNCHANGED messages
        BY <2>1, <3>1 DEF MessageInsert
      <3> QED
        BY <1>2, <2>1, <3>2
    <2> QED
      BY <1>3, <2>1
  <1> QED
    BY <1>4, <1>5

LEMMA LostDelete ==
  ASSUME TypeOK, NoLostMessage, NEW s \in Session, HandleDelete(s)
  PROVE  NoLostMessage'
  <1> USE DEF storeVars, workVars, lockVars, clientVars, ghostVars
  <1>1. UNCHANGED <<view, rows, todo, fetched, channel>> /\ pc[s] = "idle"
    BY DEF HandleDelete, Dispatch
  <1>2. messages' \subseteq messages /\ (Sends(s, Ok) \/ Sends(s, Error))
    BY DEF HandleDelete, MessageDelete
  <1>3. \A t, r \in Session : \A q : Casting(t, r, q) => Casting(t, r, q)'
    <2>1. CASE UNCHANGED <<pc, task>>
      BY <1>1, <2>1, CastingFrame
    <2>2. ASSUME NEW m, NEW c, Works(s, "lock", Deleted(m), c)
          PROVE  \A t, r \in Session : \A q : Casting(t, r, q) => Casting(t, r, q)'
      BY <1>1, <2>2, CastingWorks
    <2> QED
      BY <2>1, <2>2 DEF HandleDelete
  <1>4. \A t \in Session : \A q : Queued(t, q) => Queued(t, q)'
    BY <1>2, QueuedSends
  <1> QED
    BY <1>1, <1>2, <1>3, <1>4, SafeKept

LEMMA LostHistory ==
  ASSUME TypeOK, TaskFits, NoLostMessage, NEW s \in Session, HandleHistory(s)
  PROVE  NoLostMessage'
  <1> USE DEF storeVars, workVars, lockVars, clientVars, ghostVars
  <1>1. UNCHANGED <<view, todo, channel, messages>> /\ pc[s] = "idle" /\ rows[s] = {}
    BY DEF HandleHistory, Dispatch, TaskFits
  <1>2. CASE Sends(s, Error) /\ UNCHANGED <<rows, pc, task, fetched>>
    BY <1>1, <1>2, QueuedSends, CastingFrame, SafeKept
  <1>3. CASE /\ rows' = [rows EXCEPT ![s] = Newest(Requested(s).channel)]
             /\ Works(s, "rows", Ok, NoChannel)
             /\ fetched' = [fetched EXCEPT ![s] =
                  IF \A row \in messages : row.channel = Requested(s).channel =>
                                             row \in Newest(Requested(s).channel)
                    THEN Requested(s).channel ELSE @]
             /\ UNCHANGED inbox
    <2>1. \A t, r \in Session : \A q : Casting(t, r, q) => Casting(t, r, q)'
      BY <1>1, <1>3, CastingWorks
    <2>2. \A t \in Session : \A q : Queued(t, q) => Queued(t, q)'
      BY <1>3 DEF Queued
    <2>3. \A t \in Session : rows[t] \subseteq rows'[t]
      BY <1>1, <1>3 DEF TypeOK
    <2>4. ASSUME NEW t \in Session, fetched'[t] # NoChannel, fetched'[t] = channel[t],
                 NEW row \in messages, row.channel = channel[t]
          PROVE  Safe(t, row)'
      <3>1. CASE fetched'[t] = fetched[t]
        <4>1. Safe(t, row)
          BY <2>4, <3>1 DEF NoLostMessage, Safe
        <4> QED
          BY <1>1, <2>1, <2>2, <2>3, <4>1, SafeParts
      <3>2. CASE fetched'[t] # fetched[t]
        <4>1. t = s /\ row \in rows'[s]
          BY <1>3, <2>4, <3>2 DEF TypeOK
        <4> QED
          BY <4>1, SafeParts
      <3> QED
        BY <3>1, <3>2
    <2> QED
      BY <1>1, <2>4 DEF NoLostMessage, Safe, OnItsWay, Casting, Message, Holds
  <1> QED
    BY <1>2, <1>3 DEF HandleHistory

(* The first row of a history goes from the thread's hands to the queue.   *)
LEMMA LostRow ==
  ASSUME TypeOK, NoLostMessage, NEW s \in Session, SendRow(s)
  PROVE  NoLostMessage'
  <1> USE DEF storeVars, workVars, lockVars, clientVars, ghostVars
  <1>1. UNCHANGED <<view, todo, channel, messages, fetched>> /\ pc[s] = "rows"
    BY DEF SendRow
  <1> PICK sent \in rows[s] :
        /\ Sends(s, Message(sent.id, sent.channel))
        /\ rows' = [rows EXCEPT ![s] = @ \ {sent}]
        /\ Works(s, "look", Message(sent.id, sent.channel), NoChannel)
    BY DEF SendRow
  <1>2. \A t, r \in Session : \A q : Casting(t, r, q) => Casting(t, r, q)'
    BY <1>1, CastingWorks
  <1>3. /\ \A t \in Session : \A q : Queued(t, q) => Queued(t, q)'
        /\ Queued(s, Message(sent.id, sent.channel))'
    BY QueuedSends
  <1>4. ASSUME NEW t \in Session, fetched[t] # NoChannel, fetched[t] = channel[t],
               NEW row \in messages, row.channel = channel[t]
        PROVE  Safe(t, row)'
    <2>1. Safe(t, row)
      BY <1>4 DEF NoLostMessage, Safe
    <2>2. CASE t = s /\ row = sent
      BY <1>3, <2>2, SafeParts
    <2>3. CASE ~(t = s /\ row = sent)
      <3>1. row \in rows[t] => row \in rows'[t]
        BY <2>3 DEF TypeOK
      <3> QED
        BY <1>1, <1>2, <1>3, <2>1, <3>1, SafeParts
    <2> QED
      BY <2>2, <2>3
  <1> QED
    BY <1>1, <1>4 DEF NoLostMessage, Safe, OnItsWay, Casting, Message, Holds

(* The rest of a history and of the reaction handlers moves no message.    *)
LEMMA LostOther ==
  ASSUME TypeOK, NoLostMessage, NEW s \in Session,
         \/ LookAtReactions(s) \/ TellReactions(s) \/ EndOfHistory(s)
         \/ HandleReaction(s) \/ ClearReaction(s) \/ InsertReaction(s)
         \/ RemoveReaction(s) \/ SelectReactions(s)
  PROVE  NoLostMessage'
  <1> USE DEF storeVars, workVars, lockVars, clientVars, ghostVars, queueVars
  <1>1. UNCHANGED <<view, todo, channel, messages, fetched, rows>>
    BY DEF LookAtReactions, TellReactions, EndOfHistory, HandleReaction, ClearReaction,
           InsertReaction, RemoveReaction, SelectReactions, ReactionClear,
           ReactionInsert, ReactionRemove
  <1>2. pc[s] \notin {"lock", "cast"}
    BY DEF LookAtReactions, TellReactions, EndOfHistory, HandleReaction, ClearReaction,
           InsertReaction, RemoveReaction, SelectReactions, Dispatch
  <1>3. UNCHANGED <<pc, task>> \/ \E place, what, where : Works(s, place, what, where)
    <2>1. CASE LookAtReactions(s) \/ TellReactions(s) \/ EndOfHistory(s)
      BY <2>1 DEF LookAtReactions, TellReactions, EndOfHistory, Returns
    <2>2. CASE HandleReaction(s) \/ ClearReaction(s) \/ SelectReactions(s)
      BY <2>2 DEF HandleReaction, ClearReaction, SelectReactions, Returns
    <2>3. CASE InsertReaction(s) \/ RemoveReaction(s)
      BY <2>3 DEF InsertReaction, RemoveReaction, Answer, Returns
    <2> QED
      BY <2>1, <2>2, <2>3
  <1>4. \A t, r \in Session : \A q : Casting(t, r, q) => Casting(t, r, q)'
    BY <1>1, <1>2, <1>3, CastingWorks, CastingFrame
  <1>5. UNCHANGED inbox \/ \E p : Sends(s, p)
    BY DEF LookAtReactions, TellReactions, EndOfHistory, HandleReaction, ClearReaction,
           InsertReaction, RemoveReaction, SelectReactions, Answer
  <1>6. \A t \in Session : \A q : Queued(t, q) => Queued(t, q)'
    <2>1. CASE UNCHANGED inbox
      BY <2>1 DEF Queued
    <2>2. CASE \E p : Sends(s, p)
      BY <2>2, QueuedSends
    <2> QED
      BY <1>5, <2>1, <2>2
  <1> QED
    BY <1>1, <1>4, <1>6, SafeKept

(* A broadcast: under the mutex the thread that is in the loop is the only *)
(* one, and a session in the channel is sent the packet when visited.      *)
LEMMA LostCast ==
  ASSUME TypeOK, OneCaster, SameChannel, NoLostMessage, NEW s \in Session,
         LockRegistry(s) \/ (\E t \in Session : Visit(s, t)) \/ UnlockRegistry(s)
  PROVE  NoLostMessage'
  <1> USE DEF storeVars, workVars, lockVars, clientVars, ghostVars, queueVars
  <1>1. UNCHANGED <<view, channel, messages, fetched, rows>>
    BY DEF LockRegistry, Visit, UnlockRegistry
  <1>2. CASE LockRegistry(s)
    <2>1. /\ pc[s] = "lock" /\ pc' = [pc EXCEPT ![s] = "cast"]
          /\ \A t \in Session : task'[t] = task[t]
          /\ todo' = Session /\ UNCHANGED inbox
      BY <1>2 DEF LockRegistry, Works, TypeOK
    <2>2. \A t, r \in Session : \A q : Casting(t, r, q) => Casting(t, r, q)'
      BY <2>1 DEF Casting, TypeOK
    <2> QED
      BY <1>1, <2>1, <2>2, SafeKept DEF Queued
  <1>3. CASE UnlockRegistry(s)
    <2>1. /\ pc[s] = "cast" /\ todo = {} /\ todo' = todo /\ UNCHANGED inbox
          /\ \A t \in Session \ {s} : pc'[t] = pc[t] /\ task'[t] = task[t]
      BY <1>3 DEF UnlockRegistry, Returns, Works, TypeOK
    <2>2. \A t, r \in Session : \A q : Casting(t, r, q) => Casting(t, r, q)'
      BY <2>1 DEF Casting
    <2> QED
      BY <1>1, <2>1, <2>2, SafeKept DEF Queued
  <1>4. ASSUME NEW t \in Session, Visit(s, t) PROVE NoLostMessage'
    <2>1. pc[s] = "cast" /\ todo' = todo \ {t} /\ UNCHANGED <<pc, task, to, mutex>>
      BY <1>4 DEF Visit
    <2>2. \A r \in Session : \A q : Queued(r, q) => Queued(r, q)'
      <3>1. CASE Addressed(s, t)
        <4>1. Sends(t, task[s])
          BY <1>4, <3>1 DEF Visit
        <4> PICK p : p = task[s]
          OBVIOUS
        <4> QED
          BY <4>1, QueuedSends
      <3>2. CASE ~Addressed(s, t)
        BY <1>4, <3>2 DEF Visit, Queued
      <3> QED
        BY <3>1, <3>2
    <2>3. ASSUME NEW r \in Session, fetched[r] # NoChannel, fetched[r] = channel[r],
                 NEW row \in messages, row.channel = channel[r]
          PROVE  Safe(r, row)'
      <3> PICK p : p = Message(row.id, row.channel)
        OBVIOUS
      <3>1. Safe(r, row)
        BY <2>3 DEF NoLostMessage, Safe
      <3>2. CASE \E u \in Session : Casting(u, r, p)
        <4> PICK u \in Session : Casting(u, r, p)
          BY <3>2
        <4>1. CASE r # t \/ pc[u] = "lock"
          <5>1. Casting(u, r, p)'
            BY <2>1, <4>1 DEF Casting
          <5> QED
            BY <5>1, SafeParts
        <4>2. CASE r = t /\ pc[u] # "lock"
          <5>1. pc[u] = "cast" /\ task[u] = p
            BY <4>2 DEF Casting
          <5>2. u = s
            BY <2>1, <5>1 DEF OneCaster
          <5>3. to[s] = row.channel
            BY <2>1, <5>1, <5>2 DEF SameChannel, Message
          <5>4. Sends(t, p)
            BY <1>4, <2>3, <4>2, <5>1, <5>2, <5>3 DEF Visit, Addressed
          <5>5. Queued(r, p)'
            BY <4>2, <5>4, QueuedSends
          <5> QED
            BY <5>5, SafeParts
        <4> QED
          BY <4>1, <4>2
      <3>3. CASE ~\E u \in Session : Casting(u, r, p)
        BY <1>1, <2>2, <3>1, <3>3, SafeParts
      <3> QED
        BY <3>2, <3>3
    <2> QED
      BY <1>1, <2>3 DEF NoLostMessage, Safe, OnItsWay, Casting, Message, Holds
  <1> QED
    BY <1>2, <1>3, <1>4

(* A message leaves a client's model when it has been deleted, or when the *)
(* model is full: then the client has no longer all of its channel.        *)
LEMMA LostReceive ==
  ASSUME TypeOK, InboxTruthful, ViewTruthful, NoLostMessage, NEW s \in Session,
         \/ ReceiveMessage(s) \/ ReceiveDeleted(s) \/ ReceiveSummary(s) \/ IgnoreReply(s)
  PROVE  NoLostMessage'
  <1> USE DEF storeVars, workVars, lockVars, ghostVars
  <1>1. UNCHANGED <<channel, messages, rows, pc, task, todo>>
    BY DEF ReceiveMessage, ReceiveDeleted, ReceiveSummary, IgnoreReply
  <1>2. \A t, r \in Session : \A q : Casting(t, r, q) => Casting(t, r, q)'
    BY <1>1, CastingFrame
  <1>3. CASE ReceiveMessage(s)
    <2>1. /\ Received(s) \in MessagePacket
          /\ \A t \in Session : \A q :
               Queued(t, q) => Queued(t, q)' \/ (t = s /\ q = Received(s))
      BY <1>3, ReceivesTypes, PacketShape, QueuedReceives DEF ReceiveMessage
    <2>2. /\ view'[s] = Added(view[s], Received(s))
          /\ \A t \in Session \ {s} : view'[t] = view[t] /\ fetched'[t] = fetched[t]
          /\ fetched'[s] \in {NoChannel, fetched[s]}
          /\ (Full(view[s]) /\ ~Holds(view[s], Received(s).id)
              /\ Head(view[s]).channel = fetched[s]) => fetched'[s] = NoChannel
      BY <1>3 DEF ReceiveMessage, TypeOK
    <2>3. ASSUME NEW t \in Session, fetched'[t] # NoChannel, fetched'[t] = channel[t],
                 NEW row \in messages, row.channel = channel[t]
          PROVE  Safe(t, row)'
      <3>0. fetched'[t] = fetched[t]
        BY <2>2, <2>3
      <3>1. Safe(t, row)
        BY <2>3, <3>0 DEF NoLostMessage, Safe
      <3>2. CASE t # s
        BY <1>1, <1>2, <2>1, <2>2, <3>1, <3>2, SafeParts
      <3>3. CASE t = s /\ Message(row.id, row.channel) = Received(s)
        <4>1. Received(s).id = row.id
          BY <3>3 DEF Message
        <4>2. Holds(Added(view[s], Received(s)), row.id)
          BY <2>1, <4>1, TypeUse, AddedEntries
        <4> QED
          BY <2>2, <3>3, <4>2, SafeParts
      <3>4. CASE t = s /\ Holds(view[s], row.id)
        <4>1. CASE Holds(view'[s], row.id)
          BY <3>4, <4>1, SafeParts
        <4>2. CASE ~Holds(view'[s], row.id)
          <5>1. /\ Full(view[s]) /\ ~Holds(view[s], Received(s).id)
                /\ view[s] # <<>> /\ row.id = view[s][1].id
            BY <2>1, <2>2, <3>4, <4>2, TypeUse, AddedEntries
          <5>2. view[s] \in Seq(MessagePacket) /\ 1 \in DOMAIN view[s]
                /\ Head(view[s]) = view[s][1]
            BY <5>1, TypeUse, HeadAndTail
          <5>3. row.channel = view[s][1].channel
            BY <5>1, <5>2 DEF ViewTruthful, Genuine
          <5>4. FALSE
            BY <2>2, <2>3, <3>0, <3>4, <5>1, <5>2, <5>3
          <5> QED
            BY <5>4
        <4> QED
          BY <4>1, <4>2
      <3>5. CASE t = s /\ ~Holds(view[s], row.id) /\ Message(row.id, row.channel) # Received(s)
        BY <1>1, <1>2, <2>1, <3>1, <3>5, SafeParts
      <3> QED
        BY <3>2, <3>3, <3>4, <3>5
    <2> QED
      BY <1>1, <2>3 DEF NoLostMessage, Safe, OnItsWay, Casting, Message, Holds
  <1>4. CASE ReceiveDeleted(s) \/ ReceiveSummary(s) \/ IgnoreReply(s)
    <2>1. /\ Received(s).type # "MESSAGE"
          /\ \A t \in Session : \A q :
               Queued(t, q) => Queued(t, q)' \/ (t = s /\ q = Received(s))
      BY <1>4, ReceivesTypes, QueuedReceives DEF ReceiveDeleted, ReceiveSummary, IgnoreReply
    <2>2. \A t \in Session, m \in Nat, c \in Channel :
            Queued(t, Message(m, c)) => Queued(t, Message(m, c))'
      BY <2>1 DEF Message
    <2>3. \A t \in Session : \A row \in messages :
            Holds(view[t], row.id) => Holds(view'[t], row.id)
      <3>1. CASE ReceiveDeleted(s)
        <4>1. \A row \in messages : row.id # Received(s).id
          BY <3>1, ReceivesTypes, ReceivesTruth DEF ReceiveDeleted, Truthful, Retracted
        <4>2. view' = [view EXCEPT ![s] = Without(view[s], Received(s).id)]
          BY <3>1 DEF ReceiveDeleted
        <4>3. \A n : n # Received(s).id /\ Holds(view[s], n) =>
                       Holds(Without(view[s], Received(s).id), n)
          BY TypeUse, WithoutTypes
        <4> QED
          BY <4>1, <4>2, <4>3 DEF TypeOK
      <3>2. CASE ReceiveSummary(s) \/ IgnoreReply(s)
        BY <3>2 DEF ReceiveSummary, IgnoreReply, clientVars
      <3> QED
        BY <1>4, <3>1, <3>2
    <2>4. UNCHANGED fetched
      BY <1>4 DEF ReceiveDeleted, ReceiveSummary, IgnoreReply
    <2>5. ASSUME NEW t \in Session, fetched[t] # NoChannel, fetched[t] = channel[t],
                 NEW row \in messages, row.channel = channel[t]
          PROVE  Safe(t, row)'
      <3>1. Safe(t, row)
        BY <2>5 DEF NoLostMessage, Safe
      <3>2. row.id \in Nat /\ row.channel \in Channel
        BY TypeUse
      <3> QED
        BY <1>1, <1>2, <2>2, <2>3, <3>1, <3>2, SafeParts
    <2> QED
      BY <1>1, <2>4, <2>5 DEF NoLostMessage, Safe, OnItsWay, Casting, Message, Holds
  <1> QED
    BY <1>3, <1>4

LEMMA LostStep ==
  ASSUME TypeOK, TaskFits, InboxTruthful, ViewTruthful, FetchedHere, OneCaster,
         SameChannel, NoLostMessage, [Next]_vars
  PROVE  NoLostMessage'
  <1>1. CASE UNCHANGED vars
    BY <1>1, CastingFrame, SafeKept
       DEF Queued, vars, storeVars, queueVars, workVars, lockVars, clientVars, ghostVars
  <1>2. CASE Next
    BY <1>2, NextCases, LostUI, LostJoin, LostSend, LostDelete, LostHistory, LostRow,
       LostOther, LostCast, LostReceive DEF StepOf
  <1> QED
    BY <1>1, <1>2

-----------------------------------------------------------------------------
(* The invariant and the theorems.                                         *)
LEMMA InvInit == Init => IInv
  <1> SUFFICES ASSUME Init PROVE IInv
    OBVIOUS
  <1>1. TypeOK
    BY TypeInit
  <1>2. Numbered /\ InboxTruthful /\ RowsTruthful /\ ViewTruthful
    BY DEF Init, Numbered, InboxTruthful, RowsTruthful, ViewTruthful
  <1>3. TaskTruthful
    BY ReplyTruth DEF Init, TaskTruthful
  <1>4. MenuOffers /\ HistoryAfterJoin /\ FetchedHere
    BY DEF Init, MenuOffers, HistoryAfterJoin, FetchedHere
  <1>5. OneCaster /\ SameChannel /\ TaskFits
    BY DEF Init, OneCaster, SameChannel, TaskFits
  <1>6. NoLostMessage
    BY DEF Init, NoLostMessage
  <1> QED
    BY <1>1, <1>2, <1>3, <1>4, <1>5, <1>6 DEF IInv

LEMMA InvStep == IInv /\ [Next]_vars => IInv'
  <1> SUFFICES ASSUME IInv, [Next]_vars PROVE IInv'
    OBVIOUS
  <1>1. Stable
    BY TruthStable DEF IInv
  <1> QED
    BY <1>1, TypeStep, NumberedStep, InboxStep, TaskStep, RowsStep, ViewStep, MenuStep,
       JoinStep, FetchedStep, CasterStep, ChannelStep, FitsStep, LostStep DEF IInv

(* Every variable keeps its type and no client's model outgrows its array, *)
(* for any number of sessions, channels, messages and clicks.              *)
THEOREM TypeCorrect == Spec => []TypeOK
  <1>1. IInv => TypeOK
    BY DEF IInv
  <1> QED
    BY <1>1, InvInit, InvStep, PTL DEF Spec

(* A client that has fetched the history of its channel misses no message  *)
(* of it, in whatever order the threads insert, read and broadcast.        *)
THEOREM NoMessageLost == Spec => []NoLostMessage
  <1>1. IInv => NoLostMessage
    BY DEF IInv
  <1> QED
    BY <1>1, InvInit, InvStep, PTL DEF Spec

-----------------------------------------------------------------------------
(* Messaging implements the chat room.                                     *)
Ids(v) == [i \in DOMAIN v |-> v[i].id]

Panes == [s \in Session |-> [i \in DOMAIN view[s] |-> view[s][i].id]]

LEMMA IdsShape ==
  ASSUME NEW v \in Seq(MessagePacket)
  PROVE  /\ Ids(v) \in Seq(Nat) /\ Len(Ids(v)) = Len(v) /\ Len(v) \in Nat
         /\ DOMAIN v = 1..Len(v) /\ DOMAIN Ids(v) = 1..Len(v)
         /\ \A i \in 1..Len(v) : Ids(v)[i] = v[i].id
  <1>0. \A i \in 1..Len(v) : v[i] \in MessagePacket
    OBVIOUS
  <1>1. \A i \in 1..Len(v) : v[i].id \in Nat
    BY <1>0 DEF MessagePacket
  <1> QED
    BY <1>1 DEF Ids

(* Two sequences are equal that have the same length and elements.         *)
LEMMA SameSequence ==
  ASSUME NEW S, NEW q \in Seq(S), NEW w \in Seq(S), Len(q) = Len(w),
         \A i \in 1..Len(q) : q[i] = w[i]
  PROVE  q = w
  OBVIOUS

LEMMA IdsAppend ==
  ASSUME NEW v \in Seq(MessagePacket), NEW p \in MessagePacket
  PROVE  Ids(Append(v, p)) = Append(Ids(v), p.id)
  <1> DEFINE w == Append(v, p)
             u == Append(Ids(v), p.id)
  <1>1. p.id \in Nat
    BY DEF MessagePacket
  <1>2. w \in Seq(MessagePacket) /\ Len(w) = Len(v) + 1 /\ w[Len(v) + 1] = p
        /\ \A i \in 1..Len(v) : w[i] = v[i]
    OBVIOUS
  <1>3. u \in Seq(Nat) /\ Len(u) = Len(v) + 1 /\ u[Len(v) + 1] = p.id
        /\ \A i \in 1..Len(v) : u[i] = Ids(v)[i]
    BY <1>1, IdsShape
  <1> HIDE DEF w, u
  <1>4. ASSUME NEW i \in 1..(Len(v) + 1) PROVE Ids(w)[i] = u[i]
    <2>1. Ids(w)[i] = w[i].id
      BY <1>2, IdsShape
    <2>2. CASE i = Len(v) + 1
      BY <1>2, <1>3, <2>1, <2>2
    <2>3. CASE i \in 1..Len(v)
      BY <1>2, <1>3, <2>1, <2>3, IdsShape
    <2> QED
      BY <2>2, <2>3, IdsShape
  <1>5. Ids(w) \in Seq(Nat) /\ Len(Ids(w)) = Len(w)
    BY <1>2, IdsShape
  <1>6. Ids(w) = u
    BY <1>2, <1>3, <1>4, <1>5, SameSequence
  <1> QED
    BY <1>6 DEF w, u

LEMMA IdsTail ==
  ASSUME NEW v \in Seq(MessagePacket), v # <<>>
  PROVE  Ids(Tail(v)) = Tail(Ids(v))
  <1>1. /\ Tail(v) \in Seq(MessagePacket) /\ Len(Tail(v)) = Len(v) - 1
        /\ \A i \in 1..Len(Tail(v)) : Tail(v)[i] = v[i + 1]
        /\ Len(v) >= 1
    BY HeadAndTail
  <1>2. Ids(v) \in Seq(Nat) /\ Ids(v) # <<>> /\ Len(Ids(v)) = Len(v)
    BY <1>1, IdsShape
  <1>3. /\ Tail(Ids(v)) \in Seq(Nat) /\ Len(Tail(Ids(v))) = Len(v) - 1
        /\ \A i \in 1..Len(Tail(Ids(v))) : Tail(Ids(v))[i] = Ids(v)[i + 1]
    BY <1>2, HeadAndTail
  <1>4. Ids(Tail(v)) \in Seq(Nat) /\ Len(Ids(Tail(v))) = Len(v) - 1
    BY <1>1, IdsShape
  <1>5. ASSUME NEW i \in 1..(Len(v) - 1) PROVE Ids(Tail(v))[i] = Tail(Ids(v))[i]
    <2>1. i + 1 \in 1..Len(v)
      BY <1>1
    <2>2. Ids(Tail(v))[i] = v[i + 1].id
      BY <1>1, IdsShape
    <2>3. Tail(Ids(v))[i] = v[i + 1].id
      BY <1>3, <2>1, IdsShape
    <2> QED
      BY <2>2, <2>3
  <1> QED
    BY <1>3, <1>4, <1>5, SameSequence

LEMMA IdsWithout ==
  ASSUME NEW v \in Seq(MessagePacket), NEW m, Holds(v, m)
  PROVE  \E i \in DOMAIN Ids(v) :
           /\ Ids(v)[i] = m
           /\ Ids(Without(v, m)) =
                [k \in 1..(Len(Ids(v)) - 1) |->
                   IF k < i THEN Ids(v)[k] ELSE Ids(v)[k + 1]]
  <1> DEFINE i == CHOOSE j \in DOMAIN v : v[j].id = m
             w == [k \in 1..(Len(v) - 1) |-> IF k < i THEN v[k] ELSE v[k + 1]]
  <1>1. i \in DOMAIN v /\ v[i].id = m
    BY DEF Holds
  <1>2. Without(v, m) = w
    BY DEF Without
  <1>3. i \in DOMAIN Ids(v) /\ Ids(v)[i] = m
    BY <1>1, IdsShape
  <1> HIDE DEF i
  <1>4. DOMAIN w = 1..(Len(v) - 1)
        /\ \A k \in 1..(Len(v) - 1) : w[k] = IF k < i THEN v[k] ELSE v[k + 1]
    OBVIOUS
  <1> HIDE DEF w
  <1>5. Ids(w) = [k \in 1..(Len(v) - 1) |-> w[k].id]
    BY <1>4 DEF Ids
  <1>6. ASSUME NEW k \in 1..(Len(v) - 1)
        PROVE  w[k].id = IF k < i THEN Ids(v)[k] ELSE Ids(v)[k + 1]
    <2>1. k \in 1..Len(v) /\ k + 1 \in 1..Len(v)
      BY IdsShape
    <2> QED
      BY <1>4, <2>1, IdsShape
  <1>7. Ids(w) = [k \in 1..(Len(v) - 1) |-> IF k < i THEN Ids(v)[k] ELSE Ids(v)[k + 1]]
    BY <1>5, <1>6
  <1> QED
    BY <1>2, <1>3, <1>7, IdsShape

(* The step of a message table: a post or a retraction.                    *)
LEMMA RoomTable ==
  ASSUME TypeOK, Numbered, UNCHANGED view, Inserted \/ RowDeleted
  PROVE  Room!RoomNext
  <1>1. CASE Inserted
    <2> PICK u \in User, c \in Channel :
          messages' = messages \cup {[id |-> nextMessage, author |-> u, channel |-> c]}
      BY <1>1 DEF Inserted
    <2> PICK r : r = [id |-> nextMessage, author |-> u, channel |-> c]
      OBVIOUS
    <2>0. messages' = messages \cup {r} /\ r.id = nextMessage
      OBVIOUS
    <2>1. Posted' = Posted \cup {nextMessage}
      BY <2>0, Zenon DEF Posted
    <2>2. nextMessage' - 1 = nextMessage /\ (nextMessage - 1) + 1 = nextMessage
      BY <1>1 DEF Inserted, TypeOK, StoreTypeOK
    <2> QED
      BY <2>1, <2>2 DEF Room!RoomNext, Room!Post
  <1>2. CASE RowDeleted
    <2> PICK row \in messages : messages' = messages \ {row}
      BY <1>2 DEF RowDeleted
    <2>1. Posted' = Posted \ {row.id} /\ row.id \in Posted
      BY DEF Posted, Numbered
    <2> QED
      BY <1>2, <2>1 DEF RowDeleted, Room!RoomNext, Room!Retract
  <1> QED
    BY <1>1, <1>2

(* A step of a client's model: a message comes, or a retracted one goes.   *)
LEMMA RoomMessage ==
  ASSUME TypeOK, InboxTruthful, NEW s \in Session, ReceiveMessage(s)
  PROVE  Room!RoomNext \/ UNCHANGED Room!roomVars
  <1> USE DEF storeVars
  <1>1. UNCHANGED <<messages, nextMessage>>
    BY DEF ReceiveMessage
  <1> PICK p : p = Received(s)
    OBVIOUS
  <1>2. p \in MessagePacket /\ Genuine(p.id, p.channel)
    BY ReceivesTypes, PacketShape, ReceivesTruth DEF ReceiveMessage, Truthful
  <1>3. view[s] \in Seq(MessagePacket)
    BY TypeUse
  <1>4. view' = [view EXCEPT ![s] = Added(view[s], p)]
    BY DEF ReceiveMessage
  <1>5. CASE Holds(view[s], p.id)
    <2>1. view' = view
      BY <1>4, <1>5 DEF Added, TypeOK
    <2> QED
      BY <1>1, <2>1 DEF Room!roomVars, Posted
  <1>6. CASE ~Holds(view[s], p.id)
    <2> DEFINE w == IF Full(view[s]) THEN Tail(view[s]) ELSE view[s]
               full == Len(Panes[s]) >= MaxMessages
    <2>1. Panes[s] = Ids(view[s]) /\ Len(Panes[s]) = Len(view[s])
      BY <1>3, IdsShape DEF Panes, Ids
    <2>2. Ids(Added(view[s], p)) = Append(IF full THEN Tail(Panes[s]) ELSE Panes[s], p.id)
      <3>1. CASE full
        <4>1. view[s] # <<>> /\ Added(view[s], p) = Append(Tail(view[s]), p)
          BY <1>3, <1>6, <2>1, <3>1, MessagingAssumption DEF Added, Full
        <4>2. Tail(view[s]) \in Seq(MessagePacket)
          BY <1>3, <4>1, HeadAndTail
        <4> QED
          BY <1>2, <1>3, <2>1, <3>1, <4>1, <4>2, IdsAppend, IdsTail
      <3>2. CASE ~full
        <4>1. Added(view[s], p) = Append(view[s], p)
          BY <1>6, <2>1, <3>2 DEF Added, Full
        <4> QED
          BY <1>2, <1>3, <2>1, <3>2, <4>1, IdsAppend
      <3> QED
        BY <3>1, <3>2
    <2>3. Panes' = [Panes EXCEPT ![s] = Ids(Added(view[s], p))]
      BY <1>4 DEF Panes, Ids, TypeOK
    <2>4. Panes' = [Panes EXCEPT ![s] =
                      Append(IF Len(Panes[s]) >= MaxMessages THEN Tail(Panes[s])
                                                             ELSE Panes[s], p.id)]
      BY <2>2, <2>3
    <2>5. p.id \in 1..(nextMessage - 1)
      BY <1>2 DEF Genuine
    <2>6. ~\E i \in DOMAIN Panes[s] : Panes[s][i] = p.id
      BY <1>3, <1>6, <2>1, IdsShape DEF Holds
    <2>7. UNCHANGED <<nextMessage, Posted>>
      BY <1>1 DEF Posted
    <2>8. Room!Show(s)
      BY <2>4, <2>5, <2>6, <2>7 DEF Room!Show, Room!Shows, Panes
    <2> QED
      BY <2>8 DEF Room!RoomNext
  <1> QED
    BY <1>5, <1>6

LEMMA RoomDeleted ==
  ASSUME TypeOK, InboxTruthful, NEW s \in Session, ReceiveDeleted(s)
  PROVE  Room!RoomNext \/ UNCHANGED Room!roomVars
  <1> USE DEF storeVars
  <1>1. UNCHANGED <<messages, nextMessage>>
    BY DEF ReceiveDeleted
  <1> PICK m : m = Received(s).id
    OBVIOUS
  <1>2. m \notin Posted
    BY ReceivesTypes, ReceivesTruth DEF ReceiveDeleted, Truthful, Retracted, Posted
  <1>3. view[s] \in Seq(MessagePacket)
    BY TypeUse
  <1>4. view' = [view EXCEPT ![s] = Without(view[s], m)]
    BY DEF ReceiveDeleted
  <1>5. CASE ~Holds(view[s], m)
    <2>1. view' = view
      BY <1>4, <1>5 DEF Without, TypeOK
    <2> QED
      BY <1>1, <2>1 DEF Room!roomVars, Posted
  <1>6. CASE Holds(view[s], m)
    <2>1. Panes[s] = Ids(view[s])
      BY DEF Panes, Ids
    <2> PICK i \in DOMAIN Ids(view[s]) :
          /\ Ids(view[s])[i] = m
          /\ Ids(Without(view[s], m)) =
               [k \in 1..(Len(Ids(view[s])) - 1) |->
                  IF k < i THEN Ids(view[s])[k] ELSE Ids(view[s])[k + 1]]
      BY <1>3, <1>6, IdsWithout, SMTT(30)
    <2>2. Panes' = [Panes EXCEPT ![s] = Ids(Without(view[s], m))]
      BY <1>4 DEF Panes, Ids, TypeOK
    <2>3. Panes' = [Panes EXCEPT ![s] =
               [k \in 1..(Len(Panes[s]) - 1) |->
                  IF k < i THEN Panes[s][k] ELSE Panes[s][k + 1]]]
      BY <2>1, <2>2
    <2>4. UNCHANGED <<nextMessage, Posted>>
      BY <1>1 DEF Posted
    <2>5. i \in DOMAIN Panes[s] /\ Panes[s][i] \notin Posted
      BY <1>2, <2>1
    <2>6. \E j \in DOMAIN Panes[s] :
            /\ Panes[s][j] \notin Posted
            /\ Panes' = [Panes EXCEPT ![s] =
                 [k \in 1..(Len(Panes[s]) - 1) |->
                    IF k < j THEN Panes[s][k] ELSE Panes[s][k + 1]]]
      BY <2>3, <2>5
    <2>7. Room!Hide(s)
      BY <2>4, <2>6 DEF Room!Hide, Panes
    <2> QED
      BY <2>7 DEF Room!RoomNext
  <1> QED
    BY <1>5, <1>6

LEMMA RoomStep ==
  ASSUME IInv, [Next]_vars
  PROVE  [Room!RoomNext]_(Room!roomVars)
  <1> USE DEF IInv
  <1>1. CASE UNCHANGED <<messages, nextMessage, view>>
    BY <1>1 DEF Room!roomVars, Posted
  <1>2. CASE Next
    <2> PICK s \in Session : StepOf(s)
      BY <1>2, NextCases
    <2>1. CASE ReceiveMessage(s)
      BY <2>1, RoomMessage
    <2>2. CASE ReceiveDeleted(s)
      BY <2>2, RoomDeleted
    <2>3. CASE ~ReceiveMessage(s) /\ ~ReceiveDeleted(s)
      <3>1. UNCHANGED view
        BY <2>3 DEF StepOf, SelectChannel, TypeLine, ClickDelete, OpenMenu, PickFromMenu,
             HandleJoin, HandleSend, HandleDelete, HandleHistory, SendRow,
             LookAtReactions, TellReactions, EndOfHistory, HandleReaction, ClearReaction,
             InsertReaction, RemoveReaction, SelectReactions, LockRegistry, Visit,
             UnlockRegistry, ReceiveSummary, IgnoreReply, clientVars
      <3> QED
        BY <1>1, <3>1, TableStep, RoomTable
    <2> QED
      BY <2>1, <2>2, <2>3
  <1> QED
    BY <1>1, <1>2 DEF vars, storeVars, clientVars

(* The server and its clients implement the chat room: every step is a     *)
(* post, a retraction, a message that comes to a window or a retracted one *)
(* that goes, or shows nowhere.                                            *)
THEOREM RoomImplemented == Spec => ImplementsRoom
  <1>1. Init => Room!RoomInit
    BY DEF Init, Room!RoomInit, Posted
  <1>2. IInv /\ [Next]_vars => [Room!RoomNext]_(Room!roomVars)
    BY RoomStep
  <1> QED
    BY <1>1, <1>2, InvInit, InvStep, PTL DEF Spec, ImplementsRoom, Room!RoomSpec
=============================================================================
