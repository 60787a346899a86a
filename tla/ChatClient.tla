----------------------------- MODULE ChatClient -----------------------------
(***************************************************************************)
(* A window of the client from its login screen on: the state machine of   *)
(* client/view/src/ui_welcome.c, the authentication and chat controllers,  *)
(* the channel model, and the handlers of the server that answer them      *)
(* (server/src/client_handler.c).                                          *)
(*                                                                         *)
(* A reply names no request.  The client takes SERVER_OK and SERVER_ERROR  *)
(* for the answer to whatever it is waiting for: a login, else a creation, *)
(* else a deletion.  Two threads of a window work on its variables without *)
(* a lock, the UI thread and the listener.  A click is split where its     *)
(* request has been sent and the flag that expects the answer is not set.  *)
(***************************************************************************)
EXTENDS ChannelStore, Sequences

CONSTANTS Window,      \* a client process with its connection
          Text,        \* names, and what the client may read for one
          NoName,      \* the name in an unused element of the array
          Cut,         \* a text as far as MAX_NAME_LENGTH has room for it
          Tokens,      \* what strtok finds between the '|' of a name
          Overlong,    \* names that leave no room for the lock in a row
          Truthy,      \* texts that start with '1' or 't'
          MaxChannels, \* elements of the array (MAX_CHANNELS)
          Typed,       \* bound: names typed for new channels
          MaxClicks    \* bound: clicks and lines typed in all windows

(* A row carries its lock as "t" or "f".                                   *)
ASSUME ClientAssumption ==
  /\ Name \cup {"t", "f"} \subseteq Text
  /\ NoName \notin Text
  /\ Cut \in [Text -> Text]
  /\ \A text \in Text : Cut[Cut[text]] = Cut[text]
  /\ Tokens \in [Name -> Seq(Text)]
  /\ Overlong \subseteq Name
  /\ Truthy \subseteq Text /\ "t" \in Truthy /\ "f" \notin Truthy
  /\ MaxChannels \in Nat \ {0}
  /\ Typed \subseteq Name
  /\ MaxClicks \in Nat

VARIABLES
  screen,   \* AppState of ui_welcome.c; "submitting" while the events polled
            \* with the one that submitted the form are not all handled
  result,   \* g_result
  authDone, \* g_auth_done
  userId,   \* g_user_id
  joined,   \* g_first_channel_joined
  joining,  \* the channel the listener is about to join for it, 0 for none
  create,   \* g_pending_create, with its name and privacy
  delete,   \* g_pending_delete and its id
  slot,     \* local_channels
  count,    \* local_channel_count
  active,   \* local_active_channel_index
  ui,       \* what the UI thread has sent and not noted yet
  requests, \* packets sent that the server thread has not read
  replies,  \* packets sent to the client that it has not read
  user,     \* client->user_id on the server
  channel,  \* client->channel_id on the server
  clicks,   \* made so far, bounded by MaxClicks
  rowsEver, \* history: every row table channel has had
  made,     \* history: ids of channels created from the window, as far as
            \* it had room for them
  alone,    \* history: nothing was under way when the form was submitted last
  orderly,  \* history: nothing has come between a login, a creation or a
            \* deletion of the window and its answer
  steady    \* history: the listener has not changed which channel is shown,
            \* nor joined another, since that channel was joined

authVars   == <<screen, result, authDone, userId>>
flagVars   == <<joined, joining, create, delete>>
listVars   == <<slot, count, active>>
queueVars  == <<requests, replies>>
serverVars == <<user, channel>>
ghostVars  == <<rowsEver, made, alone, orderly, steady>>
vars == <<storeVars, authVars, flagVars, listVars, ui, queueVars, serverVars,
          clicks, ghostVars>>

-----------------------------------------------------------------------------
Nobody    == -1  \* user_id and g_user_id before a login
NoChannel == -1  \* channel_id before a join

Auth(u)               == [type |-> "auth", id |-> u]
List                  == [type |-> "list"]
Create(name, private) == [type |-> "create", name |-> name, private |-> private]
Delete(c)             == [type |-> "delete", id |-> c]
Join(c)               == [type |-> "join", id |-> c]
Line(c)               == [type |-> "line", id |-> c]
Other                 == [type |-> "other"]

Request == [type : {"auth"}, id : User]
           \cup [type : {"delete", "join", "line"}, id : Nat]
           \cup [type : {"create"}, name : Name, private : BOOLEAN]
           \cup [type : {"list", "other"}]

(* SERVER_OK carries a user or a channel, or a text that atoi reads as 0.  *)
Ok(n)     == [type |-> "ok", id |-> n]
Error     == [type |-> "error"]
Chan(row) == [type |-> "chan", id |-> row.id, name |-> row.name,
              private |-> row.private]

Reply == [type : {"ok"}, id : Nat] \cup [type : {"error"}]
         \cup [type : {"chan"}, id : Nat \ {0}, name : Name, private : BOOLEAN]

Slots == 1..MaxChannels
Entry == [id : Nat, name : Text \cup {NoName}, private : BOOLEAN]
Blank == [id |-> 0, name |-> NoName, private |-> FALSE]

Pending == [set : {TRUE}, name : Text, private : BOOLEAN]
           \cup [set : {FALSE}, name : Text \cup {NoName}, private : BOOLEAN]

Idle   == [at |-> "idle"]
Arming == [at : {"create"}, name : Name, private : BOOLEAN]
          \cup [at : {"delete"}, slot : Slots]

TypeOK ==
  /\ StoreTypeOK
  /\ screen \in [Window -> {"auth", "submitting", "waiting", "chat"}]
  /\ result \in [Window -> {"pending", "ok", "error"}]
  /\ authDone \in [Window -> BOOLEAN]
  /\ userId \in [Window -> Nat \cup {Nobody}]
  /\ joined \in [Window -> BOOLEAN]
  /\ joining \in [Window -> Nat]
  /\ create \in [Window -> Pending]
  /\ delete \in [Window -> [set : BOOLEAN, id : Nat]]
  /\ slot \in [Window -> [Slots -> Entry]]
  /\ count \in [Window -> 0..MaxChannels]
  /\ active \in [Window -> Slots]
  /\ \A w \in Window : active[w] <= count[w] \/ active[w] = 1
  /\ ui \in [Window -> {Idle} \cup Arming]
  /\ requests \in [Window -> Seq(Request)]
  /\ replies \in [Window -> Seq(Reply)]
  /\ user \in [Window -> User \cup {Nobody}]
  /\ channel \in [Window -> Nat \cup {NoChannel}]
  /\ clicks \in 0..MaxClicks
  /\ rowsEver \subseteq ChannelRow
  /\ made \in [Window -> SUBSET Nat]
  /\ alone \in [Window -> BOOLEAN]
  /\ orderly \in [Window -> BOOLEAN]
  /\ steady \in [Window -> BOOLEAN]

Init ==
  /\ StoreInit
  /\ screen = [w \in Window |-> "auth"]
  /\ result = [w \in Window |-> "pending"]
  /\ authDone = [w \in Window |-> FALSE]
  /\ userId = [w \in Window |-> Nobody]
  /\ joined = [w \in Window |-> FALSE]
  /\ joining = [w \in Window |-> 0]
  /\ create = [w \in Window |-> [set |-> FALSE, name |-> NoName, private |-> FALSE]]
  /\ delete = [w \in Window |-> [set |-> FALSE, id |-> 0]]
  /\ slot = [w \in Window |-> [i \in Slots |-> Blank]]
  /\ count = [w \in Window |-> 0]
  /\ active = [w \in Window |-> 1]
  /\ ui = [w \in Window |-> Idle]
  /\ requests = [w \in Window |-> <<>>]
  /\ replies = [w \in Window |-> <<>>]
  /\ user = [w \in Window |-> Nobody]
  /\ channel = [w \in Window |-> NoChannel]
  /\ clicks = 0
  /\ rowsEver = FirstChannels
  /\ made = [w \in Window |-> {}]
  /\ alone = [w \in Window |-> TRUE]
  /\ orderly = [w \in Window |-> TRUE]
  /\ steady = [w \in Window |-> TRUE]

-----------------------------------------------------------------------------
(* The UI thread.                                                          *)

Unanswered(w) == requests[w] # <<>> \/ replies[w] # <<>>
Expecting(w)  == create[w].set \/ delete[w].set

Click(w) == /\ ui[w] = Idle
            /\ clicks < MaxClicks
            /\ clicks' = clicks + 1

Transmit(w, packets) == requests' = [requests EXCEPT ![w] = @ \o packets]
                        /\ UNCHANGED replies

(* A login, creation or deletion is orderly if nothing else is under way,  *)
(* any other request if none of these is.                                  *)
AskAlone(w)    == orderly' = [orderly EXCEPT ![w] = @ /\ ~Unanswered(w) /\ ~Expecting(w)]
AskMeanwhile(w) == orderly' = [orderly EXCEPT ![w] = @ /\ ~Expecting(w)]

(* The button of the login screen; a registration is answered alike.  The  *)
(* loop that polls events does not look at the state, and a click polled   *)
(* with this one submits the form again.  (The mutant leaves g_auth_done   *)
(* as a login before has set it.)                                          *)
Form(w) == screen[w] \in {"auth", "submitting"}

SubmitAuth(w) ==
  /\ Click(w) /\ Form(w)
  /\ \E u \in User : Transmit(w, <<Auth(u)>>)
  /\ result' = [result EXCEPT ![w] = "pending"]
  /\ authDone' = [authDone EXCEPT ![w] = FALSE]
  /\ screen' = [screen EXCEPT ![w] = "submitting"]
  /\ alone' = [alone EXCEPT ![w] = ~Unanswered(w)]
  /\ AskAlone(w)
  /\ UNCHANGED <<storeVars, userId, flagVars, listVars, ui,
                 serverVars, rowsEver, made, steady>>

PollEnds(w) ==
  /\ screen[w] = "submitting"
  /\ screen' = [screen EXCEPT ![w] = "waiting"]
  /\ UNCHANGED <<storeVars, result, authDone, userId, flagVars,
                 listVars, ui, queueVars, serverVars, clicks, ghostVars>>

(* Polled in every frame while waiting; chat_controller_init.              *)
EnterChat(w) ==
  /\ screen[w] = "waiting" /\ result[w] = "ok"
  /\ screen' = [screen EXCEPT ![w] = "chat"]
  /\ joined' = [joined EXCEPT ![w] = FALSE]
  /\ create' = [create EXCEPT ![w].set = FALSE]
  /\ delete' = [delete EXCEPT ![w].set = FALSE]
  /\ Transmit(w, <<List, Other>>)
  /\ UNCHANGED <<storeVars, result, authDone, userId, joining, listVars, ui,
                 serverVars, clicks, ghostVars>>

BackToAuth(w) ==
  /\ screen[w] = "waiting" /\ result[w] = "error"
  /\ screen' = [screen EXCEPT ![w] = "auth"]
  /\ UNCHANGED <<storeVars, result, authDone, userId, flagVars,
                 listVars, ui, queueVars, serverVars, clicks, ghostVars>>

(* The log-out button leaves the chat loop and tells nobody.               *)
Logout(w) ==
  /\ Click(w) /\ screen[w] = "chat"
  /\ screen' = [screen EXCEPT ![w] = "auth"]
  /\ UNCHANGED <<storeVars, result, authDone, userId, flagVars,
                 listVars, ui, queueVars, serverVars, ghostVars>>

ClickCreate(w) ==
  /\ Click(w) /\ screen[w] = "chat"
  /\ \E name \in Typed, private \in BOOLEAN :
       /\ Transmit(w, <<Create(name, private)>>)
       /\ ui' = [ui EXCEPT ![w] = [at |-> "create", name |-> name, private |-> private]]
  /\ AskAlone(w)
  /\ UNCHANGED <<storeVars, authVars, flagVars, listVars, serverVars, rowsEver, made, alone, steady>>

(* What is noted of the name is what the list has room for.  (The mutant   *)
(* does not note the privacy.)                                             *)
ArmCreate_Public(w) ==
  /\ ui[w].at = "create"
  /\ create' = [create EXCEPT ![w] = [set |-> TRUE, name |-> Cut[ui[w].name],
                                      private |-> FALSE]]
  /\ ui' = [ui EXCEPT ![w] = Idle]
  /\ UNCHANGED <<storeVars, authVars, joined, joining, delete, listVars, queueVars,
                 serverVars, clicks, ghostVars>>
ArmCreate(w) ==
  /\ ui[w].at = "create"
  /\ create' = [create EXCEPT ![w] = [set |-> TRUE, name |-> Cut[ui[w].name],
                                      private |-> ui[w].private]]
  /\ ui' = [ui EXCEPT ![w] = Idle]
  /\ UNCHANGED <<storeVars, authVars, joined, joining, delete, listVars, queueVars,
                 serverVars, clicks, ghostVars>>

(* The trash icon of a channel.  What is noted is the id that its element  *)
(* of the array holds after the request was sent.                          *)
ClickDelete(w) ==
  /\ Click(w) /\ screen[w] = "chat"
  /\ \E i \in 1..count[w] :
       /\ Transmit(w, <<Delete(slot[w][i].id)>>)
       /\ ui' = [ui EXCEPT ![w] = [at |-> "delete", slot |-> i]]
  /\ AskAlone(w)
  /\ UNCHANGED <<storeVars, authVars, flagVars, listVars, serverVars, rowsEver, made, alone, steady>>

ArmDelete(w) ==
  /\ ui[w].at = "delete"
  /\ delete' = [delete EXCEPT ![w] = [set |-> TRUE, id |-> slot[w][ui[w].slot].id]]
  /\ ui' = [ui EXCEPT ![w] = Idle]
  /\ UNCHANGED <<storeVars, authVars, joined, joining, create, listVars, queueVars,
                 serverVars, clicks, ghostVars>>

(* A click on a channel.  (The mutants take a row too many for one; or ask *)
(* for the history only.)                                                  *)
SelectChannel_Beyond(w) ==
  /\ Click(w) /\ screen[w] = "chat" /\ count[w] < MaxChannels
  /\ \E i \in 1..(count[w] + 1) :
       /\ active' = [active EXCEPT ![w] = i]
       /\ Transmit(w, <<Join(slot[w][i].id), Other>>)
  /\ AskMeanwhile(w)
  /\ steady' = [steady EXCEPT ![w] = TRUE]
  /\ UNCHANGED <<storeVars, authVars, flagVars, slot, count, ui, serverVars,
                 rowsEver, made, alone>>
SelectChannel_NoJoin(w) ==
  /\ Click(w) /\ screen[w] = "chat"
  /\ \E i \in 1..count[w] :
       /\ active' = [active EXCEPT ![w] = i]
       /\ Transmit(w, <<Other>>)
  /\ AskMeanwhile(w)
  /\ steady' = [steady EXCEPT ![w] = TRUE]
  /\ UNCHANGED <<storeVars, authVars, flagVars, slot, count, ui, serverVars,
                 rowsEver, made, alone>>
SelectChannel(w) ==
  /\ Click(w) /\ screen[w] = "chat"
  /\ \E i \in 1..count[w] :
       /\ active' = [active EXCEPT ![w] = i]
       /\ Transmit(w, <<Join(slot[w][i].id), Other>>)
  /\ AskMeanwhile(w)
  /\ steady' = [steady EXCEPT ![w] = TRUE]
  /\ UNCHANGED <<storeVars, authVars, flagVars, slot, count, ui, serverVars,
                 rowsEver, made, alone>>

(* The channel the chat shows, if any.                                     *)
Shown(w) == IF count[w] = 0 THEN 0 ELSE slot[w][active[w]].id

(* The line goes out if there is an active channel; the server does not    *)
(* look at which.  (The model leaves it out if the window is not steady.)  *)
TypeLine(w) ==
  /\ Click(w) /\ screen[w] = "chat" /\ count[w] > 0
  /\ Transmit(w, <<Line(IF steady[w] THEN Shown(w) ELSE 0)>>)
  /\ AskMeanwhile(w)
  /\ UNCHANGED <<storeVars, authVars, flagVars, listVars, ui, serverVars,
                 rowsEver, made, alone, steady>>

(* Reactions, deletions of messages and bans: answered, and not expected.  *)
ClickOther(w) ==
  /\ Click(w) /\ screen[w] = "chat"
  /\ Transmit(w, <<Other>>)
  /\ AskMeanwhile(w)
  /\ UNCHANGED <<storeVars, authVars, flagVars, listVars, ui, serverVars,
                 rowsEver, made, alone, steady>>

-----------------------------------------------------------------------------
(* The server's thread of the connection.  A window sends nothing but      *)
(* logins before its session has a user (IdentityRight).                   *)

Serves(w, type) == requests[w] # <<>> /\ Head(requests[w]).type = type

Answers(w, packets) == /\ requests' = [requests EXCEPT ![w] = Tail(@)]
                       /\ replies' = [replies EXCEPT ![w] = @ \o packets]

clientVars == <<authVars, flagVars, listVars, ui, clicks, alone, orderly, steady>>

(* A wrong password, a ban and a failed query are refused; the channel of  *)
(* the connection stays what it was.                                       *)
HandleAuth(w) ==
  /\ Serves(w, "auth")
  /\ \/ /\ user' = [user EXCEPT ![w] = Head(requests[w]).id]
        /\ Answers(w, <<Ok(Head(requests[w]).id)>>)
     \/ Answers(w, <<Error>>) /\ UNCHANGED user
  /\ UNCHANGED <<storeVars, channel, clientVars, rowsEver, made>>

HandleList(w) ==
  /\ Serves(w, "list") /\ user[w] # Nobody
  /\ \/ \E rows \in ChannelList(user[w]) :
          Answers(w, [i \in DOMAIN rows |-> Chan(rows[i])] \o <<Ok(0)>>)
     \/ DbFaults /\ Answers(w, <<Error>>)
  /\ UNCHANGED <<storeVars, serverVars, clientVars, rowsEver, made>>

(* (The mutant confirms without the number.)                               *)
HandleCreate_NoNumber(w) ==
  /\ Serves(w, "create") /\ user[w] # Nobody
  /\ \E n \in {nextChannel, Failed} :
       /\ ChannelInsert(user[w], Head(requests[w]).name, Head(requests[w]).private, n)
       /\ Answers(w, <<IF n = Failed THEN Error ELSE Ok(0)>>)
       /\ made' = IF n = Failed THEN made ELSE [made EXCEPT ![w] = @ \cup {n}]
  /\ rowsEver' = rowsEver \cup channels'
  /\ UNCHANGED <<serverVars, clientVars>>
HandleCreate(w) ==
  /\ Serves(w, "create") /\ user[w] # Nobody
  /\ \E n \in {nextChannel, Failed} :
       /\ ChannelInsert(user[w], Head(requests[w]).name, Head(requests[w]).private, n)
       /\ Answers(w, <<IF n = Failed THEN Error ELSE Ok(n)>>)
       /\ made' = IF n = Failed THEN made ELSE [made EXCEPT ![w] = @ \cup {n}]
  /\ rowsEver' = rowsEver \cup channels'
  /\ UNCHANGED <<serverVars, clientVars>>

(* (The mutant does not answer when it refuses.)                           *)
HandleDelete_Silent(w) ==
  /\ Serves(w, "delete") /\ user[w] # Nobody
  /\ \E n \in {Done, Failed} :
       /\ ChannelDelete(user[w], Head(requests[w]).id, n)
       /\ Answers(w, IF n = Failed THEN <<>> ELSE <<Ok(0)>>)
  /\ UNCHANGED <<serverVars, clientVars, rowsEver, made>>
HandleDelete(w) ==
  /\ Serves(w, "delete") /\ user[w] # Nobody
  /\ \E n \in {Done, Failed} :
       /\ ChannelDelete(user[w], Head(requests[w]).id, n)
       /\ Answers(w, <<IF n = Failed THEN Error ELSE Ok(0)>>)
  /\ UNCHANGED <<serverVars, clientVars, rowsEver, made>>

HandleJoin(w) ==
  /\ Serves(w, "join") /\ user[w] # Nobody
  /\ channel' = [channel EXCEPT ![w] = Head(requests[w]).id]
  /\ Answers(w, <<Ok(0)>>)
  /\ UNCHANGED <<storeVars, user, clientVars, rowsEver, made>>

(* A line that is posted is not answered, its push comes to everybody; one *)
(* from a session without a channel finds none in the table.               *)
HandleLine(w) ==
  /\ Serves(w, "line") /\ user[w] # Nobody
  /\ \/ /\ MessageInsert(channel[w], Done)
        /\ Answers(w, <<>>)
     \/ /\ MessageInsert(channel[w], Failed)
        /\ Answers(w, <<Error>>)
  /\ UNCHANGED <<serverVars, clientVars, rowsEver, made>>

HandleOther(w) ==
  /\ Serves(w, "other") /\ user[w] # Nobody
  /\ \E reply \in {Ok(0), Error} : Answers(w, <<reply>>)
  /\ UNCHANGED <<storeVars, serverVars, clientVars, rowsEver, made>>

-----------------------------------------------------------------------------
(* The listener thread: on_packet_received, and on_server_push behind it.  *)

Packet(w) == Head(replies[w])

(* An answer that overtakes the UI thread on its way to the flag is not    *)
(* orderly.                                                                *)
Receives(w, types) ==
  /\ replies[w] # <<>> /\ Packet(w).type \in types
  /\ joining[w] = 0
  /\ replies' = [replies EXCEPT ![w] = Tail(@)]
  /\ orderly' = [orderly EXCEPT ![w] = @ /\ (ui[w] = Idle \/ Packet(w).type = "chan")]

(* During the auth phase.  (The mutant keeps the identity of a login       *)
(* before.)                                                                *)
ReceiveAuth_First(w) ==
  /\ ~authDone[w] /\ Receives(w, {"ok", "error"})
  /\ \/ /\ Packet(w).type = "ok"
        /\ userId' = [userId EXCEPT ![w] = IF @ = Nobody THEN Packet(w).id ELSE @]
        /\ result' = [result EXCEPT ![w] = "ok"]
        /\ authDone' = [authDone EXCEPT ![w] = TRUE]
     \/ /\ Packet(w).type = "error"
        /\ result' = [result EXCEPT ![w] = "error"]
        /\ UNCHANGED <<userId, authDone>>
  /\ UNCHANGED <<storeVars, screen, flagVars, listVars, ui, requests,
                 serverVars, clicks, rowsEver, made, alone, steady>>
ReceiveAuth(w) ==
  /\ ~authDone[w] /\ Receives(w, {"ok", "error"})
  /\ \/ /\ Packet(w).type = "ok"
        /\ userId' = [userId EXCEPT ![w] = Packet(w).id]
        /\ result' = [result EXCEPT ![w] = "ok"]
        /\ authDone' = [authDone EXCEPT ![w] = TRUE]
     \/ /\ Packet(w).type = "error"
        /\ result' = [result EXCEPT ![w] = "error"]
        /\ UNCHANGED <<userId, authDone>>
  /\ UNCHANGED <<storeVars, screen, flagVars, listVars, ui, requests,
                 serverVars, clicks, rowsEver, made, alone, steady>>

(* channel_model_add.                                                      *)
Full(w) == count[w] >= MaxChannels

Add(w, id, name, private) ==
  IF Full(w) THEN UNCHANGED <<slot, count>>
  ELSE /\ slot' = [slot EXCEPT ![w][count[w] + 1] =
                      [id |-> id, name |-> Cut[name], private |-> private]]
       /\ count' = [count EXCEPT ![w] = @ + 1]

KeepShown(w) ==
  steady' = [steady EXCEPT ![w] = @ /\ Shown(w)' = Shown(w)]

(* The next reply acknowledges a pending creation, whichever it answers.   *)
AckCreate(w) ==
  /\ authDone[w] /\ create[w].set /\ Receives(w, {"ok", "error"})
  /\ create' = [create EXCEPT ![w].set = FALSE]
  /\ IF Packet(w).type = "ok" /\ Packet(w).id > 0
     THEN /\ Add(w, Packet(w).id, create[w].name, create[w].private)
          /\ made' = IF Full(w) THEN [made EXCEPT ![w] = @ \ {Packet(w).id}] ELSE made
     ELSE UNCHANGED <<slot, count, made>>
  /\ UNCHANGED <<storeVars, authVars, joined, joining, delete, active, ui,
                 requests, serverVars, clicks, rowsEver, alone>>
  /\ KeepShown(w)

(* channel_model_delete_by_id: the first element with the id, never the    *)
(* only one.  The ones behind it move up, the last stays where it was, and *)
(* the active index moves only if it would be beyond the end.              *)
Holds(w, i, id) == i <= count[w] /\ slot[w][i].id = id

RemoveAt(w, i) ==
  /\ slot' = [slot EXCEPT ![w] = [j \in Slots |->
                 IF j \in i..(count[w] - 1) THEN slot[w][j + 1] ELSE slot[w][j]]]
  /\ count' = [count EXCEPT ![w] = @ - 1]
  /\ active' = [active EXCEPT ![w] = IF @ > count[w] - 1 THEN count[w] - 1 ELSE @]

RemoveId(w, id) ==
  \/ \E i \in Slots :
       /\ count[w] > 1 /\ Holds(w, i, id)
       /\ \A j \in 1..(i - 1) : ~Holds(w, j, id)
       /\ RemoveAt(w, i)
  \/ /\ count[w] <= 1 \/ \A i \in Slots : ~Holds(w, i, id)
     /\ UNCHANGED listVars

(* Likewise for a pending deletion, if no creation is pending.             *)
AckDelete(w) ==
  /\ authDone[w] /\ ~create[w].set /\ delete[w].set
  /\ Receives(w, {"ok", "error"})
  /\ delete' = [delete EXCEPT ![w].set = FALSE]
  /\ IF Packet(w).type = "ok" THEN RemoveId(w, delete[w].id) ELSE UNCHANGED listVars
  /\ UNCHANGED <<storeVars, authVars, joined, joining, create, ui, requests,
                 serverVars, clicks, rowsEver, made, alone>>
  /\ KeepShown(w)

IgnoreReply(w) ==
  /\ authDone[w] /\ ~Expecting(w) /\ Receives(w, {"ok", "error"})
  /\ UNCHANGED <<storeVars, authVars, flagVars, listVars, ui, requests,
                 serverVars, clicks, rowsEver, made, alone, steady>>

(* CHAN: the row is taken apart at each '|', those of the name included,   *)
(* and what lies behind the id is the name and the lock, if both are there.*)
Lock(private) == IF private THEN "t" ELSE "f"

Fields(row) == Tokens[row.name] \o
               (IF row.name \in Overlong THEN <<>> ELSE <<Lock(row.private)>>)

Legible(row) == Len(Fields(row)) >= 2

(* It is added unless the list has its id; the first one added is joined,  *)
(* also when there was no room for it.                                     *)
Known(w, id) == \E i \in Slots : Holds(w, i, id)

AddChan(w) ==
  /\ Add(w, Packet(w).id, Fields(Packet(w))[1], Fields(Packet(w))[2] \in Truthy)
  /\ joined' = [joined EXCEPT ![w] = TRUE]
  /\ joining' = IF joined[w] THEN joining
                ELSE [joining EXCEPT ![w] = Packet(w).id]

ReceiveChan(w) ==
  /\ Receives(w, {"chan"})
  /\ \/ Legible(Packet(w)) /\ ~Known(w, Packet(w).id) /\ AddChan(w)
     \/ /\ ~Legible(Packet(w)) \/ Known(w, Packet(w).id)
        /\ UNCHANGED <<slot, count, joined, joining>>
  /\ UNCHANGED <<storeVars, authVars, create, delete, active, ui, requests,
                 serverVars, clicks, rowsEver, made, alone>>
  /\ KeepShown(w)

(* The requests go out after the channel is in the list, where a click may *)
(* have come before them.                                                  *)
JoinFirst(w) ==
  /\ joining[w] # 0
  /\ Transmit(w, <<Join(joining[w]), Other>>)
  /\ joining' = [joining EXCEPT ![w] = 0]
  /\ steady' = [steady EXCEPT ![w] = Shown(w) = joining[w]]
  /\ UNCHANGED <<storeVars, authVars, joined, create, delete, listVars, ui,
                 serverVars, clicks, rowsEver, made, alone, orderly>>

-----------------------------------------------------------------------------
UserClicks(w) == \/ SubmitAuth(w) \/ Logout(w) \/ ClickCreate(w)
                 \/ ClickDelete(w) \/ SelectChannel(w) \/ TypeLine(w)
                 \/ ClickOther(w)

UIThread(w) == \/ PollEnds(w) \/ EnterChat(w) \/ BackToAuth(w)
               \/ ArmCreate(w) \/ ArmDelete(w)

ServerThread(w) == \/ HandleAuth(w) \/ HandleList(w) \/ HandleCreate(w)
                   \/ HandleDelete(w) \/ HandleJoin(w) \/ HandleLine(w)
                   \/ HandleOther(w)

Listener(w) == \/ ReceiveAuth(w) \/ AckCreate(w) \/ AckDelete(w)
               \/ IgnoreReply(w) \/ ReceiveChan(w) \/ JoinFirst(w)

Next == \E w \in Window :
          UserClicks(w) \/ UIThread(w) \/ ServerThread(w) \/ Listener(w)

Spec == Init /\ [][Next]_vars

(* The threads of client and server that can run do; users click at will.  *)
FairSpec == Spec /\ \A w \in Window : /\ WF_vars(UIThread(w))
                                      /\ WF_vars(ServerThread(w))
                                      /\ WF_vars(Listener(w))

-----------------------------------------------------------------------------
Settled(w) == ui[w] = Idle /\ ~Unanswered(w) /\ ~Expecting(w)

(* Who the window takes itself for: in the chat its connection has a user, *)
(* whatever the window did before, and g_user_id, on which the ban and     *)
(* reaction menus depend, is that user unless a reply was on its way when  *)
(* the last login was submitted, which the login would take for its own    *)
(* (auth_controller.c:23-43, ui_welcome.c:122-134, 180-231;                *)
(* client_handler.c:133-142).                                              *)
IdentityRight ==
  \A w \in Window : screen[w] = "chat" =>
    user[w] # Nobody /\ (alone[w] => userId[w] = user[w])

(* A row that comes apart as it was put together.                          *)
Plain(row) == Fields(row) = <<row.name, Lock(row.private)>>

(* What the window lists is, or was, a channel with that id, each one once,*)
(* over logouts and logins that do not clear the list; and as much of its  *)
(* name as there is room for and its lock, unless the name has a '|' or is *)
(* too long for a row.  The window has to be orderly: a creation takes its *)
(* id from the reply it gets (chat_controller.c:78-90, 115-145;            *)
(* channel.c:39-50).                                                       *)
ListTruthful ==
  \A w \in Window : orderly[w] =>
    \A i \in 1..count[w] :
      /\ \E row \in rowsEver :
           /\ slot[w][i].id = row.id
           /\ Plain(row) => /\ slot[w][i].name = Cut[row.name]
                            /\ slot[w][i].private = row.private
      /\ \A j \in 1..count[w] : slot[w][i].id = slot[w][j].id => i = j

(* A line is posted to the channel that was shown when it was typed, though*)
(* it does not say which and the server goes by the session's: over logins *)
(* as well, as long as the listener has not moved the window to another    *)
(* channel or the session away from it since the last click on one         *)
(* (client_handler.c:169-175, chat_controller.c:138-145, 503-509).         *)
LinesPlaced ==
  \A w \in Window :
    Serves(w, "line") /\ Head(requests[w]).id # 0
      => channel[w] = Head(requests[w]).id

(* A channel created from an orderly window is in its list once nothing is *)
(* under way, unless it was deleted or found no room: the list learns of   *)
(* it by the reply alone (chat_controller.c:24-26, 79-85, 405-420).        *)
CreationsListed ==
  \A w \in Window : orderly[w] /\ Settled(w) =>
    \A c \in made[w] \cap Ids(channels) : Known(w, c)

Dropped(w) == {c \in Ids(rowsEver) : Known(w, c) /\ ~Known(w, c)'}

(* From an orderly window's list a channel goes only when the server has   *)
(* deleted it: not because it was asked to, nor for another's number       *)
(* (chat_controller.c:95-104, db.c:300-304).                               *)
OrderlyRemoval ==
  [][\A w \in Window : orderly[w]' => Dropped(w) \cap Ids(channels) = {}]_vars

(* "so the channel is only removed locally once the server actually        *)
(* deleted it" (chat_controller.c:31-33), of every window.                 *)
RemovalConfirmed ==
  [][\A w \in Window : Dropped(w) \cap Ids(channels) = {}]_vars

(* A submitted form, after which the screen reads no events, comes to an   *)
(* end: every login and registration is answered, and every answer is seen *)
(* (ui_welcome.c:180-231; client_handler.c:77-144).                        *)
Submitted(w) == screen[w] \in {"submitting", "waiting"}


(* A pending creation or deletion of an orderly window is settled, by an   *)
(* answer of whatever kind, or the window has ceased to be orderly: a flag *)
(* that stayed would take the answer to another request for its own        *)
(* (chat_controller.c:78-104; client_handler.c:461-506).                   *)
PendingSettles ==
  \A w \in Window : Expecting(w) /\ orderly[w] ~> ~Expecting(w) \/ ~orderly[w]
=============================================================================
