------------------------------ MODULE Messaging ------------------------------
(***************************************************************************)
(* Messages and reactions between authenticated sessions: the handlers of  *)
(* server/src/client_handler.c, one thread per session, the broadcasts of  *)
(* server/src/server.c, the two byte streams of each connection as FIFO    *)
(* queues of packets, and the client's listener thread and local models.   *)
(*                                                                         *)
(* A session is one connection of an authenticated user, registered and    *)
(* served for as long as the behaviour lasts: Registry models connections  *)
(* that come and go, and the table a broadcast walks; here a broadcast     *)
(* visits every session once, in any order.                                *)
(***************************************************************************)
EXTENDS ChatStore, Sequences

CONSTANTS Session,
          UserOf,       \* client->user_id of each session
          NoChannel,    \* channel_id == -1
          NoSession,    \* a free mutex
          MaxMessages,  \* messages the client keeps (MAX_MESSAGES)
          MaxReactions, \* reactions the client keeps (MAX_REACTIONS)
          MaxRequests   \* bound: clicks and lines typed in each session

ASSUME MessagingAssumption == /\ UserOf \in [Session -> User]
                              /\ NoChannel \notin Channel
                              /\ NoSession \notin Session
                              /\ MaxMessages \in Nat \ {0}
                              /\ MaxReactions \in Nat
                              /\ MaxRequests \in Nat

VARIABLES
  channel,  \* client->channel_id
  outbox,   \* requests sent that the server thread has not read
  inbox,    \* packets sent to the client that it has not read
  pc,       \* where the thread of the session is
  task,     \* the packet or request it is working at
  to,       \* the channel it must broadcast to
  rows,     \* history rows it has read and not sent yet
  mutex,    \* the thread holding registry.mutex, or NoSession
  todo,     \* sessions the loop under the mutex has not visited yet
  shown,    \* id of the active channel of the client
  view,     \* global_messages of the client's message model
  reacts,   \* global_reactions of its reaction model
  menu,     \* the requests the buttons of an open reaction menu send
  clicks,   \* requests made, bounded by MaxRequests
  fetched,  \* history: the channel whose whole history the client asked for
  excused   \* history: messages whose deletion the session may not hear of

queueVars  == <<outbox, inbox>>
workVars   == <<pc, task, to>>
lockVars   == <<mutex, todo>>
clientVars == <<shown, view, reacts, menu, clicks>>
ghostVars  == <<fetched, excused>>
vars == <<storeVars, channel, queueVars, workVars, rows, lockVars, clientVars,
          ghostVars>>

-----------------------------------------------------------------------------
(* The packets, without the texts, names and times they carry.             *)
Join(c)     == [type |-> "CHANNEL_JOIN", channel |-> c]
History(c)  == [type |-> "MSG_HISTORY", channel |-> c]
Send        == [type |-> "MSG_SEND"]
Delete(m)   == [type |-> "MSG_DELETE", id |-> m]
React(m, e) == [type |-> "MSG_REACTION", id |-> m, emoji |-> e]
Unreact(m)  == [type |-> "MSG_REACTION_REMOVE", id |-> m]

Request == [type : {"CHANNEL_JOIN", "MSG_HISTORY"}, channel : Channel]
           \cup [type : {"MSG_SEND"}]
           \cup [type : {"MSG_DELETE", "MSG_REACTION_REMOVE"}, id : Nat]
           \cup [type : {"MSG_REACTION"}, id : Nat, emoji : Emoji]

Message(m, c)    == [type |-> "MESSAGE", id |-> m, channel |-> c]
Deleted(m)       == [type |-> "DELMSG", id |-> m]
Summary(m, some) == [type |-> "REACTIONS", id |-> m, some |-> some]
Ok               == [type |-> "SERVER_OK"]
Error            == [type |-> "SERVER_ERROR"]

MessagePacket == [type : {"MESSAGE"}, id : Nat, channel : Channel]

Packet == MessagePacket
          \cup [type : {"DELMSG"}, id : Nat]
          \cup [type : {"REACTIONS"}, id : Nat, some : SUBSET ReactionRow]
          \cup [type : {"SERVER_OK", "SERVER_ERROR"}]

PCs == {"idle", "clear", "insert", "remove", "select",
        "rows", "look", "tell", "lock", "cast"}

TypeOK ==
  /\ StoreTypeOK
  /\ channel \in [Session -> Channel \cup {NoChannel}]
  /\ outbox \in [Session -> Seq(Request)]
  /\ inbox \in [Session -> Seq(Packet)]
  /\ pc \in [Session -> PCs]
  /\ task \in [Session -> Packet \cup Request]
  /\ to \in [Session -> Channel \cup {NoChannel}]
  /\ rows \in [Session -> SUBSET MessageRow]
  /\ mutex \in Session \cup {NoSession}
  /\ todo \subseteq Session
  /\ shown \in [Session -> Channel \cup {NoChannel}]
  /\ view \in [Session -> Seq(MessagePacket)]
  /\ \A s \in Session : Len(view[s]) <= MaxMessages
  /\ reacts \in [Session -> SUBSET ReactionRow]
  /\ menu \in [Session -> SUBSET Request]
  /\ clicks \in [Session -> 0..MaxRequests]
  /\ fetched \in [Session -> Channel \cup {NoChannel}]
  /\ excused \in [Session -> SUBSET Nat]

(* Authenticated sessions before the first channel is opened.              *)
Init ==
  /\ channels = Channel
  /\ messages = {}
  /\ nextMessage = 1
  /\ reactions = {}
  /\ channel = [s \in Session |-> NoChannel]
  /\ outbox = [s \in Session |-> <<>>]
  /\ inbox = [s \in Session |-> <<>>]
  /\ pc = [s \in Session |-> "idle"]
  /\ task = [s \in Session |-> Ok]
  /\ to = [s \in Session |-> NoChannel]
  /\ rows = [s \in Session |-> {}]
  /\ mutex = NoSession
  /\ todo = {}
  /\ shown = [s \in Session |-> NoChannel]
  /\ view = [s \in Session |-> <<>>]
  /\ reacts = [s \in Session |-> {}]
  /\ menu = [s \in Session |-> {}]
  /\ clicks = [s \in Session |-> 0]
  /\ fetched = [s \in Session |-> NoChannel]
  /\ excused = [s \in Session |-> {}]

-----------------------------------------------------------------------------
(* The client's UI thread.  One mouse click or one line typed at a time.   *)

Click(s) == /\ clicks[s] < MaxRequests
            /\ clicks' = [clicks EXCEPT ![s] = @ + 1]

Transmit(s, requests) == outbox' = [outbox EXCEPT ![s] = @ \o requests]

(* A click on a channel: it becomes the active one, and is joined and its  *)
(* history asked for back to back.  (The mutant asks before it joins.)     *)
OpenRequests_HistoryFirst(c) == <<History(c), Join(c)>>
OpenRequests(c) == <<Join(c), History(c)>>

SelectChannel(s) ==
  /\ menu[s] = {}
  /\ Click(s)
  /\ \E c \in Channel :
       /\ shown' = [shown EXCEPT ![s] = c]
       /\ Transmit(s, OpenRequests(c))
  /\ UNCHANGED <<storeVars, channel, inbox, workVars, rows, lockVars, view,
                 reacts, menu, ghostVars>>

TypeLine(s) ==
  /\ shown[s] # NoChannel
  /\ Click(s)
  /\ Transmit(s, <<Send>>)
  /\ UNCHANGED <<storeVars, channel, inbox, workVars, rows, lockVars, shown,
                 view, reacts, menu, ghostVars>>

(* The ids of the messages the active channel shows.                       *)
OnScreen(s) == {view[s][i].id : i \in {j \in DOMAIN view[s] :
                                         view[s][j].channel = shown[s]}}

ClickDelete(s) ==
  /\ menu[s] = {}
  /\ Click(s)
  /\ \E m \in OnScreen(s) : Transmit(s, <<Delete(m)>>)
  /\ UNCHANGED <<storeVars, channel, inbox, workVars, rows, lockVars, shown,
                 view, reacts, menu, ghostVars>>

(* A right click on a message offers to take back a reaction, or to set    *)
(* one; the menu keeps its message and its choice while pushes arrive.     *)
OpenMenu(s) ==
  /\ Click(s)
  /\ \E m \in OnScreen(s) :
       menu' = [menu EXCEPT ![s] =
                  IF \E r \in reacts[s] : r.message = m /\ r.user = UserOf[s]
                    THEN {Unreact(m)}
                    ELSE {React(m, e) : e \in Emoji}]
  /\ UNCHANGED <<storeVars, channel, queueVars, workVars, rows, lockVars,
                 shown, view, reacts, ghostVars>>

(* Any left click closes the menu, on a button or beside it.               *)
PickFromMenu(s) ==
  /\ \/ \E request \in menu[s] : Transmit(s, <<request>>)
     \/ menu[s] # {} /\ UNCHANGED outbox
  /\ menu' = [menu EXCEPT ![s] = {}]
  /\ UNCHANGED <<storeVars, channel, inbox, workVars, rows, lockVars, shown,
                 view, reacts, clicks, ghostVars>>

-----------------------------------------------------------------------------
(* The server: handle_client_packets dispatches the next request of the    *)
(* session once the handler of the one before has returned.  The reply of  *)
(* a handler goes to its own client only, which ignores it here, so that   *)
(* it is sent in the same step as the statement that decides it.           *)

Dispatch(s, type) == /\ pc[s] = "idle"
                     /\ outbox[s] # <<>>
                     /\ Head(outbox[s]).type = type
                     /\ outbox' = [outbox EXCEPT ![s] = Tail(@)]

Requested(s) == Head(outbox[s])

Sends(s, p) == inbox' = [inbox EXCEPT ![s] = Append(@, p)]

Works(s, place, what, where) == /\ pc' = [pc EXCEPT ![s] = place]
                                /\ task' = [task EXCEPT ![s] = what]
                                /\ to' = [to EXCEPT ![s] = where]

Returns(s) == Works(s, "idle", Ok, NoChannel)

(* db_channel_join does nothing and channels are not looked up.            *)
HandleJoin(s) ==
  /\ Dispatch(s, "CHANNEL_JOIN")
  /\ channel' = [channel EXCEPT ![s] = Requested(s).channel]
  /\ Sends(s, Ok)
  /\ fetched' = [fetched EXCEPT ![s] =
                   IF @ = channel[s] /\ @ # Requested(s).channel
                     THEN NoChannel ELSE @]
  /\ excused' = [excused EXCEPT ![s] = (1..(nextMessage - 1)) \ Posted]
  /\ UNCHANGED <<storeVars, workVars, rows, lockVars, clientVars>>

HandleSend(s) ==
  /\ Dispatch(s, "MSG_SEND")
  /\ IF channel[s] = NoChannel
       THEN Sends(s, Error) /\ UNCHANGED <<storeVars, workVars>>
       ELSE \E id \in {nextMessage, Failed} :
              /\ MessageInsert(UserOf[s], channel[s], id)
              /\ IF id = Failed
                   THEN Sends(s, Error) /\ UNCHANGED workVars
                   ELSE /\ Works(s, "lock", Message(id, channel[s]), channel[s])
                        /\ UNCHANGED inbox
  /\ UNCHANGED <<channel, rows, lockVars, clientVars, ghostVars>>

(* Sessions in another channel are not told of a deletion.                 *)
HandleDelete(s) ==
  LET m == Requested(s).id IN
  /\ Dispatch(s, "MSG_DELETE")
  /\ \E c \in Channel \cup {Failed} :
       /\ MessageDelete(UserOf[s], m, c)
       /\ IF c = Failed
            THEN Sends(s, Error) /\ UNCHANGED <<workVars, excused>>
            ELSE /\ Sends(s, Ok)
                 /\ Works(s, "lock", Deleted(m), c)
                 /\ excused' = [t \in Session |->
                      IF channel[t] # c THEN excused[t] \cup {m} ELSE excused[t]]
  /\ UNCHANGED <<channel, rows, lockVars, clientVars, fetched>>

(* The rows are read at once and sent one by one, each followed by a query *)
(* of its reactions and, if it has some, their summary.                    *)
HandleHistory(s) ==
  LET c == Requested(s).channel IN
  /\ Dispatch(s, "MSG_HISTORY")
  /\ \/ /\ rows' = [rows EXCEPT ![s] = Newest(c)]
        /\ Works(s, "rows", Ok, NoChannel)
        /\ fetched' = [fetched EXCEPT ![s] =
             IF \A row \in messages : row.channel = c => row \in Newest(c)
               THEN c ELSE @]
        /\ UNCHANGED inbox
     \/ /\ DbFaults
        /\ Sends(s, Error)
        /\ UNCHANGED <<rows, workVars, fetched>>
  /\ UNCHANGED <<storeVars, channel, lockVars, clientVars, excused>>

SendRow(s) ==
  /\ pc[s] = "rows"
  /\ \E row \in rows[s] :
       /\ \A other \in rows[s] : row.id <= other.id
       /\ Sends(s, Message(row.id, row.channel))
       /\ rows' = [rows EXCEPT ![s] = @ \ {row}]
       /\ Works(s, "look", Message(row.id, row.channel), NoChannel)
  /\ UNCHANGED <<storeVars, channel, outbox, lockVars, clientVars, ghostVars>>

LookAtReactions(s) ==
  /\ pc[s] = "look"
  /\ \/ \E some \in ReactionList(task[s].id) \ {{}} :
          Works(s, "tell", Summary(task[s].id, some), NoChannel)
     \/ /\ DbFaults \/ ReactionsOn(task[s].id) = {}
        /\ Works(s, "rows", Ok, NoChannel)
  /\ UNCHANGED <<storeVars, channel, queueVars, rows, lockVars, clientVars,
                 ghostVars>>

TellReactions(s) ==
  /\ pc[s] = "tell"
  /\ Sends(s, task[s])
  /\ Works(s, "rows", Ok, NoChannel)
  /\ UNCHANGED <<storeVars, channel, outbox, rows, lockVars, clientVars, ghostVars>>

EndOfHistory(s) ==
  /\ pc[s] = "rows" /\ rows[s] = {}
  /\ Sends(s, Ok)
  /\ Returns(s)
  /\ UNCHANGED <<storeVars, channel, outbox, rows, lockVars, clientVars, ghostVars>>

(* Both reaction handlers first look up the channel of the message.        *)
HandleReaction(s) ==
  /\ \E type \in {"MSG_REACTION", "MSG_REACTION_REMOVE"} :
       /\ Dispatch(s, type)
       /\ \E c \in Channel \cup {Failed} :
            /\ ChannelOf(Requested(s).id, c)
            /\ IF c = Failed
                 THEN Sends(s, Error) /\ UNCHANGED workVars
                 ELSE /\ Works(s, IF type = "MSG_REACTION" THEN "clear"
                                                           ELSE "remove",
                               Requested(s), c)
                      /\ UNCHANGED inbox
  /\ UNCHANGED <<storeVars, channel, rows, lockVars, clientVars, ghostVars>>

(* db_reaction_set deletes what the user had, then inserts.                *)
ClearReaction(s) ==
  /\ pc[s] = "clear"
  /\ ReactionClear(UserOf[s], task[s].id)
  /\ Works(s, "insert", task[s], to[s])
  /\ UNCHANGED <<channel, queueVars, rows, lockVars, clientVars, ghostVars>>

(* What follows either statement: an error, or the reply and the summary.  *)
Answer(s, result) ==
  IF result = Failed THEN Sends(s, Error) /\ Returns(s)
                     ELSE Sends(s, Ok) /\ Works(s, "select", task[s], to[s])

InsertReaction(s) ==
  /\ pc[s] = "insert"
  /\ \E result \in {Done, Failed} :
       /\ ReactionInsert(UserOf[s], task[s].id, task[s].emoji, result)
       /\ Answer(s, result)
  /\ UNCHANGED <<channel, outbox, rows, lockVars, clientVars, ghostVars>>

RemoveReaction(s) ==
  /\ pc[s] = "remove"
  /\ \E result \in {Done, Failed} :
       /\ ReactionRemove(UserOf[s], task[s].id, result)
       /\ Answer(s, result)
  /\ UNCHANGED <<channel, outbox, rows, lockVars, clientVars, ghostVars>>

(* The snapshot is taken before the registry is locked.                    *)
SelectReactions(s) ==
  /\ pc[s] = "select"
  /\ \/ \E some \in ReactionList(task[s].id) :
          Works(s, "lock", Summary(task[s].id, some), to[s])
     \/ DbFaults /\ Returns(s)
  /\ UNCHANGED <<storeVars, channel, queueVars, rows, lockVars, clientVars,
                 ghostVars>>

(* broadcast_to_channel: the channel of each session is read when its turn *)
(* comes.                                                                  *)
LockRegistry(s) ==
  /\ pc[s] = "lock" /\ mutex = NoSession
  /\ mutex' = s
  /\ todo' = Session
  /\ Works(s, "cast", task[s], to[s])
  /\ UNCHANGED <<storeVars, channel, queueVars, rows, clientVars, ghostVars>>

Addressed(s, t) == channel[t] = to[s]

(* Thread t has still to broadcast packet p to session s.                  *)
Casting(t, s, p) == task[t] = p /\ (pc[t] = "lock" \/ (pc[t] = "cast" /\ s \in todo))

(* Message m has still to be sent to s: it is in a history s is being sent,*)
(* or a thread that has inserted it waits for the mutex.                   *)
StillToSend(s, m) ==
  \/ \E row \in rows[s] : row.id = m
  \/ \E t \in Session, c \in Channel : Casting(t, s, Message(m, c))

(* A DELMSG that overtakes its message does not count as heard.            *)
Visit(s, t) ==
  /\ pc[s] = "cast" /\ t \in todo
  /\ todo' = todo \ {t}
  /\ IF Addressed(s, t) THEN Sends(t, task[s]) ELSE UNCHANGED inbox
  /\ excused' = [excused EXCEPT ![t] =
       IF task[s].type = "DELMSG" /\ StillToSend(t, task[s].id)
         THEN @ \cup {task[s].id} ELSE @]
  /\ UNCHANGED <<storeVars, channel, outbox, workVars, rows, mutex, clientVars,
                 fetched>>

(* (The mutant returns without ReleaseMutex.)                              *)
UnlockRegistry_Kept(s) ==
  /\ pc[s] = "cast" /\ todo = {}
  /\ Returns(s)
  /\ UNCHANGED <<storeVars, channel, queueVars, rows, lockVars, clientVars,
                 ghostVars>>

UnlockRegistry(s) ==
  /\ pc[s] = "cast" /\ todo = {}
  /\ mutex' = NoSession
  /\ Returns(s)
  /\ UNCHANGED <<storeVars, channel, queueVars, rows, todo, clientVars, ghostVars>>

-----------------------------------------------------------------------------
(* The client's listener thread, one packet at a time.                     *)

Receives(s, type) == /\ inbox[s] # <<>>
                     /\ Head(inbox[s]).type = type
                     /\ inbox' = [inbox EXCEPT ![s] = Tail(@)]

Received(s) == Head(inbox[s])

Holds(v, m) == \E i \in DOMAIN v : v[i].id = m

(* (The mutant tests the count one too late.)                              *)
Full_Late(v) == Len(v) > MaxMessages
Full(v) == Len(v) >= MaxMessages

(* message_model_add: nothing if the id is there, else at the end, and the *)
(* oldest entry goes when the array is full.  (The mutant adds it again.)  *)
Added_Again(v, p) == Append(IF Full(v) THEN Tail(v) ELSE v, p)
Added(v, p) ==
  IF Holds(v, p.id) THEN v
  ELSE Append(IF Full(v) THEN Tail(v) ELSE v, p)

ReceiveMessage(s) ==
  /\ Receives(s, "MESSAGE")
  /\ view' = [view EXCEPT ![s] = Added(@, Received(s))]
  /\ fetched' = [fetched EXCEPT ![s] =
       IF Full(view[s]) /\ ~Holds(view[s], Received(s).id)
          /\ Head(view[s]).channel = @ THEN NoChannel ELSE @]
  /\ UNCHANGED <<storeVars, channel, outbox, workVars, rows, lockVars, shown,
                 reacts, menu, clicks, excused>>

(* message_model_delete_by_id: the entries behind the match move up; the   *)
(* model holds an id once.  (The mutant moves them up from one too late.)  *)
Without_Next(v, m) ==
  IF ~Holds(v, m) THEN v
  ELSE LET i == CHOOSE j \in DOMAIN v : v[j].id = m
       IN  [k \in 1..(Len(v) - 1) |-> IF k <= i THEN v[k] ELSE v[k + 1]]
Without(v, m) ==
  IF ~Holds(v, m) THEN v
  ELSE LET i == CHOOSE j \in DOMAIN v : v[j].id = m
       IN  [k \in 1..(Len(v) - 1) |-> IF k < i THEN v[k] ELSE v[k + 1]]

ReceiveDeleted(s) ==
  /\ Receives(s, "DELMSG")
  /\ view' = [view EXCEPT ![s] = Without(@, Received(s).id)]
  /\ UNCHANGED <<storeVars, channel, outbox, workVars, rows, lockVars, shown,
                 reacts, menu, clicks, ghostVars>>

(* The summary replaces what the client knew of that message, as far as    *)
(* its array has room.                                                     *)
ReceiveSummary(s) ==
  /\ Receives(s, "REACTIONS")
  /\ LET rest == {r \in reacts[s] : r.message # Received(s).id} IN
     \E kept \in Limited(Received(s).some, MaxReactions - Cardinality(rest)) :
       reacts' = [reacts EXCEPT ![s] = rest \cup kept]
  /\ UNCHANGED <<storeVars, channel, outbox, workVars, rows, lockVars, shown,
                 view, menu, clicks, ghostVars>>

IgnoreReply(s) ==
  /\ Receives(s, "SERVER_OK") \/ Receives(s, "SERVER_ERROR")
  /\ UNCHANGED <<storeVars, channel, outbox, workVars, rows, lockVars,
                 clientVars, ghostVars>>

-----------------------------------------------------------------------------
ClientUI(s) == \/ SelectChannel(s) \/ TypeLine(s) \/ ClickDelete(s)
               \/ OpenMenu(s) \/ PickFromMenu(s)

ServerThread(s) ==
  \/ HandleJoin(s) \/ HandleSend(s) \/ HandleDelete(s)
  \/ HandleHistory(s) \/ SendRow(s) \/ LookAtReactions(s) \/ TellReactions(s)
  \/ EndOfHistory(s)
  \/ HandleReaction(s) \/ ClearReaction(s) \/ InsertReaction(s)
  \/ RemoveReaction(s) \/ SelectReactions(s)
  \/ \E t \in Session : Visit(s, t)
  \/ UnlockRegistry(s)

Listener(s) == \/ ReceiveMessage(s) \/ ReceiveDeleted(s)
               \/ ReceiveSummary(s) \/ IgnoreReply(s)

Next == \E s \in Session :
          ClientUI(s) \/ ServerThread(s) \/ LockRegistry(s) \/ Listener(s)

Spec == Init /\ [][Next]_vars

(* The server's threads and the clients' listeners run; a thread waiting   *)
(* for the mutex gets it if it is free again and again.  Users do as they  *)
(* like.                                                                   *)
FairSpec == Spec /\ \A s \in Session : /\ WF_vars(ServerThread(s))
                                       /\ SF_vars(LockRegistry(s))
                                       /\ WF_vars(Listener(s))

-----------------------------------------------------------------------------
(* Where a message posted to the channel of session s may be: shown or     *)
(* kept by its client, among the bytes on their way, in a history being    *)
(* sent, or in the hands of a thread that has still to send it to s.       *)
OnItsWay(s, row) ==
  LET p == Message(row.id, row.channel) IN
  \/ \E i \in DOMAIN inbox[s] : inbox[s][i] = p
  \/ row \in rows[s]
  \/ \E t \in Session : Casting(t, s, p)

(* No message is lost: once a session has fetched the whole history of the *)
(* channel it is in, every message of that channel is in its client or on  *)
(* its way there, whatever the interleaving of JOIN, MSG_HISTORY, inserts  *)
(* and broadcasts, none of which is atomic with another (client_handler.c: *)
(* 156-197, 230-282, 508-526; chat_controller.c:53-67).                    *)
NoLostMessage ==
  \A s \in Session :
    fetched[s] # NoChannel /\ fetched[s] = channel[s] =>
      \A row \in messages :
        row.channel = channel[s] => Holds(view[s], row.id) \/ OnItsWay(s, row)

(* A deletion reaches everyone who shows the message in the channel he is  *)
(* in: a DELMSG for it is on its way, or a thread will broadcast one.  The *)
(* exceptions are a session that was in another channel at the deletion or *)
(* has joined this one since, and a DELMSG broadcast while the message was *)
(* itself still to be sent: in a history being sent row by row, or by a    *)
(* thread of the same user that waits for the mutex with it                *)
(* (handler_msg_delete and handler_msg_history, client_handler.c:199-282). *)
DeletionReaches ==
  \A s \in Session : \A i \in DOMAIN view[s] :
    LET m == view[s][i].id IN
    (view[s][i].channel = channel[s] /\ m \notin Posted /\ m \notin excused[s]) =>
      \/ \E j \in DOMAIN inbox[s] : inbox[s][j] = Deleted(m)
      \/ \E t \in Session : Casting(t, s, Deleted(m))

(* A user has at most one reaction to a message: "A user can only have one *)
(* active reaction per message: clear any existing one first" (db.c:416).  *)
(* The code does not keep it: db_reaction_set deletes and inserts in two   *)
(* statements, another session of the same user may do so in between, and  *)
(* UNIQUE(id_message, id_user, emoji) allows two emojis.                   *)
OneReactionPerUser ==
  \A r1, r2 \in reactions :
    r1.message = r2.message /\ r1.user = r2.user => r1 = r2

(* The abstract chat room the program implements: what is posted is the    *)
(* message table, what a window shows is the client's message model.       *)
Room == INSTANCE ChatRoom WITH
          Window <- Session,
          Capacity <- MaxMessages,
          posts <- nextMessage - 1,
          board <- Posted,
          panes <- [s \in Session |-> [i \in DOMAIN view[s] |-> view[s][i].id]]

(* The handlers, broadcasts and client models implement the chat room: no  *)
(* client shows a message that was never posted, shows one twice although  *)
(* both a push and a history row bring it, or loses one that is still      *)
(* posted (message.c:24-67, client_handler.c:156-282).                     *)
ImplementsRoom == Room!RoomSpec

(* Nothing is on its way: every thread waits for a request and every byte  *)
(* has been read.                                                          *)
Quiet == \A s \in Session : pc[s] = "idle" /\ outbox[s] = <<>> /\ inbox[s] = <<>>

(* Once all is quiet, what a client shows of the reactions to a message of *)
(* its channel is what the table holds: broadcast_reaction_summary says    *)
(* any user's change "is reflected live for everyone"                      *)
(* (client_handler.c:356-358).                                             *)
ReactionsLive ==
  Quiet => \A s \in Session : \A i \in DOMAIN view[s] :
             (view[s][i].channel = channel[s] /\ view[s][i].id \in Posted) =>
               {r \in reacts[s] : r.message = view[s][i].id}
                 = ReactionsOn(view[s][i].id)

(* What is posted arrives: a message of the channel a session stays in is  *)
(* shown by its client in the end, unless it is deleted first.             *)
Delivered ==
  \A s \in Session, m \in 1..(Cardinality(Session) * MaxRequests) :
    (/\ fetched[s] # NoChannel /\ fetched[s] = channel[s]
     /\ \E row \in messages : row.id = m /\ row.channel = channel[s])
    ~> (Holds(view[s], m) \/ m \notin Posted \/ fetched[s] # channel[s])
=============================================================================
