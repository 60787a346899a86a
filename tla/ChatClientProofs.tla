--------------------------- MODULE ChatClientProofs ---------------------------
(***************************************************************************)
(* What holds of any number of windows, users, channels and clicks.  The   *)
(* argument: a login submitted alone, and a creation or a deletion of an   *)
(* orderly window, is the only packet between the window and its server    *)
(* thread from the click until its answer has been taken, so that the      *)
(* answer can only be its own.                                             *)
(***************************************************************************)
EXTENDS ChatClient, TLAPS, FiniteSetTheorems

(* Rows come and go, ids are never used again.                             *)
StoreInv ==
  /\ IsFiniteSet(channels)
  /\ channels \subseteq rowsEver
  /\ \A row \in rowsEver : row.id < nextChannel
  /\ \A row, other \in rowsEver : row.id = other.id => row = other

(* A row of the table, now or before.                                      *)
Row(id, name, private) ==
  \E row \in rowsEver : row.id = id /\ row.name = name /\ row.private = private

(* What is listed, or is about to be, for a row.                           *)
Shows(id, name, private) ==
  \E row \in rowsEver :
    /\ row.id = id
    /\ Plain(row) => name = Cut[row.name] /\ private = row.private

Within(packets) == {packets[k] : k \in 1..Len(packets)}

(* A list of channels is rows of the table, and an answer behind them.     *)
RepliesInv(w) ==
  /\ \A reply \in Within(replies[w]) :
       reply.type = "chan" => Row(reply.id, reply.name, reply.private)
  /\ replies[w] # <<>> => replies[w][Len(replies[w])].type # "chan"
  /\ joining[w] # 0 => replies[w] # <<>>

(* Before its first login a window has asked for nothing else.             *)
NobodyInv(w) ==
  user[w] = Nobody =>
    /\ screen[w] # "chat" /\ result[w] # "ok"
    /\ joining[w] = 0 /\ ui[w] = Idle
    /\ \A request \in Within(requests[w]) : request.type = "auth"
    /\ \A reply \in Within(replies[w]) : reply.type = "error"

(* The only packet between window and server is the request, or its answer.*)
Asked(w, request)  == requests[w] = <<request>> /\ replies[w] = <<>>
Answered(w, reply) == requests[w] = <<>> /\ replies[w] = <<reply>>

(* A login that was submitted alone.                                       *)
LoginInv(w) ==
  /\ orderly[w] => alone[w]
  /\ orderly[w] /\ Submitted(w) => ~Expecting(w)
  /\ alone[w] /\ screen[w] = "chat" =>
       /\ authDone[w] /\ userId[w] = user[w]
       /\ \A request \in Within(requests[w]) : request.type # "auth"
  /\ alone[w] /\ Submitted(w) =>
       /\ joining[w] = 0 /\ ui[w] = Idle
       /\ \/ /\ result[w] = "pending" /\ ~authDone[w]
             /\ \/ \E u \in User : Asked(w, Auth(u))
                \/ Answered(w, Ok(user[w])) \/ Answered(w, Error)
          \/ result[w] = "ok" /\ authDone[w] /\ userId[w] = user[w] /\ ~Unanswered(w)
          \/ result[w] = "error" /\ ~Unanswered(w)

(* An orderly creation; what the window has noted of its name and privacy, *)
(* or is about to; and its request.                                        *)
Creating(w) == ui[w].at = "create" \/ create[w].set

NotedName(w) == IF create[w].set THEN create[w].name ELSE Cut[ui[w].name]
NotedLock(w) == IF create[w].set THEN create[w].private ELSE ui[w].private

Asking(w) == \E name \in Name : /\ Cut[name] = NotedName(w)
                                /\ Asked(w, Create(name, NotedLock(w)))

Created(w, n) ==
  /\ Answered(w, Ok(n))
  /\ ~Known(w, n)
  /\ Shows(n, NotedName(w), NotedLock(w))

CreateInv(w) ==
  orderly[w] =>
    /\ Creating(w) =>
         /\ joining[w] = 0 /\ authDone[w] /\ ~delete[w].set
         /\ create[w].set => ui[w] = Idle
         /\ \/ Asking(w) \/ Answered(w, Error)
            \/ \E n \in 1..(nextChannel - 1) : Created(w, n)
    /\ \A request \in Within(requests[w]) : request.type = "create" => Creating(w)

(* An orderly deletion, of the id the window has noted or is about to.     *)
Deleting(w) == ui[w].at = "delete" \/ delete[w].set
Target(w)   == IF delete[w].set THEN delete[w].id ELSE slot[w][ui[w].slot].id

DeleteInv(w) ==
  orderly[w] /\ Deleting(w) =>
    /\ joining[w] = 0 /\ authDone[w] /\ ~create[w].set
    /\ delete[w].set => ui[w] = Idle
    /\ Target(w) < nextChannel
    /\ \/ Asked(w, Delete(Target(w)))
       \/ Answered(w, Error)
       \/ Answered(w, Ok(0)) /\ Target(w) \notin Ids(channels)

(* The list of an orderly window.                                          *)
ListInv(w) ==
  /\ \A c \in made[w] : c < nextChannel
  /\ orderly[w] =>
    /\ \A i \in 1..count[w] : Shows(slot[w][i].id, slot[w][i].name, slot[w][i].private)
    /\ \A i, j \in 1..count[w] : slot[w][i].id = slot[w][j].id => i = j
    /\ \A c \in made[w] \cap Ids(channels) :
         Known(w, c) \/ (Creating(w) /\ Answered(w, Ok(c)))

(* A session at channel first is at channel c after m of the requests.     *)
After(packets, first, m, c) ==
  \/ /\ first = c
     /\ \A k \in 1..m : packets[k].type # "join"
  \/ \E k \in 1..m :
       /\ packets[k].type = "join" /\ packets[k].id = c
       /\ \A j \in (k + 1)..m : packets[j].type # "join"

Reached(w, m, c) == After(requests[w], channel[w], m, c)

LinesInv(w) ==
  /\ \A i \in 1..count[w] : slot[w][i].id # 0
  /\ steady[w] /\ count[w] > 0 => Reached(w, Len(requests[w]), Shown(w))
  /\ \A k \in 1..Len(requests[w]) :
       requests[w][k].type = "line" /\ requests[w][k].id # 0
         => Reached(w, k - 1, requests[w][k].id)

WindowInv(w) == /\ RepliesInv(w) /\ NobodyInv(w) /\ LoginInv(w) /\ CreateInv(w)
                /\ DeleteInv(w) /\ ListInv(w) /\ LinesInv(w)

IInv == TypeOK /\ StoreInv /\ \A w \in Window : WindowInv(w)

-----------------------------------------------------------------------------
(* Packets and sequences of them.                                          *)

LEMMA Constants ==
  /\ User \subseteq Nat \ {0} /\ Nobody = -1 /\ NoChannel = -1
  /\ MaxChannels \in Nat \ {0} /\ MaxClicks \in Nat
  /\ Failed = -1 /\ Done = 0
  /\ Typed \subseteq Name /\ Name \subseteq Text
  /\ \A text \in Text : Cut[text] \in Text /\ Cut[Cut[text]] = Cut[text]
BY StoreAssumption, ClientAssumption DEF Nobody, NoChannel, Failed, Done

LEMMA Requests ==
  /\ \A u \in User : Auth(u) \in Request
  /\ List \in Request /\ Other \in Request
  /\ \A name \in Name, private \in BOOLEAN : Create(name, private) \in Request
  /\ \A c \in Nat : /\ Delete(c) \in Request /\ Join(c) \in Request
                    /\ Line(c) \in Request
BY DEF Request, Auth, List, Other, Create, Delete, Join, Line

LEMMA Parts ==
  ASSUME NEW request \in Request
  PROVE  /\ request.type = "auth" => request.id \in User
         /\ request.type \in {"delete", "join", "line"} => request.id \in Nat
         /\ request.type = "create" => request.name \in Name /\ request.private \in BOOLEAN
BY DEF Request

LEMMA Replies ==
  /\ \A n \in Nat : Ok(n) \in Reply
  /\ Error \in Reply
  /\ \A row \in ChannelRow : Chan(row) \in Reply
BY DEF Reply, Ok, Error, Chan, ChannelRow

LEMMA ReplyParts ==
  ASSUME NEW reply \in Reply
  PROVE  /\ reply.type \in {"ok", "error", "chan"}
         /\ reply.type \in {"ok", "chan"} => reply.id \in Nat
         /\ reply.type = "chan" => /\ reply.id # 0 /\ reply.name \in Name
                                   /\ reply.private \in BOOLEAN
BY DEF Reply

LEMMA HeadOf ==
  ASSUME NEW S, NEW q \in Seq(S), q # <<>>
  PROVE  /\ Head(q) \in S /\ Tail(q) \in Seq(S) /\ Head(q) = q[1]
         /\ Len(q) \in Nat \ {0} /\ Len(Tail(q)) = Len(q) - 1
         /\ \A k \in 1..(Len(q) - 1) : Tail(q)[k] = q[k + 1]
OBVIOUS

LEMMA Joined ==
  ASSUME NEW S, NEW q \in Seq(S), NEW p \in Seq(S)
  PROVE  /\ q \o p \in Seq(S) /\ Len(q \o p) = Len(q) + Len(p)
         /\ Len(q) \in Nat /\ Len(p) \in Nat
         /\ \A k \in 1..Len(q) : (q \o p)[k] = q[k]
         /\ \A k \in (Len(q) + 1)..(Len(q) + Len(p)) : (q \o p)[k] = p[k - Len(q)]
OBVIOUS

LEMMA Updated ==
  ASSUME NEW S, NEW f \in [Window -> S], NEW w \in Window, NEW e \in S
  PROVE  /\ [f EXCEPT ![w] = e] \in [Window -> S]
         /\ [f EXCEPT ![w] = e][w] = e
         /\ \A v \in Window : v # w => [f EXCEPT ![w] = e][v] = f[v]
OBVIOUS

-----------------------------------------------------------------------------
(* The types.                                                              *)

LEMMA TransmitType ==
  ASSUME TypeOK, NEW w \in Window, NEW packets \in Seq(Request), Transmit(w, packets)
  PROVE  requests' \in [Window -> Seq(Request)] /\ replies' \in [Window -> Seq(Reply)]
<1>1. requests[w] \o packets \in Seq(Request)
  <2>1. requests[w] \in Seq(Request)
    BY DEF TypeOK
  <2> QED
    BY <2>1, Joined
<1> QED
  BY <1>1, Updated DEF Transmit, TypeOK

LEMMA AnswersType ==
  ASSUME TypeOK, NEW w \in Window, NEW packets \in Seq(Reply),
         requests[w] # <<>>, Answers(w, packets)
  PROVE  requests' \in [Window -> Seq(Request)] /\ replies' \in [Window -> Seq(Reply)]
<1>1. replies[w] \o packets \in Seq(Reply)
  <2>1. replies[w] \in Seq(Reply)
    BY DEF TypeOK
  <2> QED
    BY <2>1, Joined
<1>2. Tail(requests[w]) \in Seq(Request)
  <2>1. requests[w] \in Seq(Request)
    BY DEF TypeOK
  <2> QED
    BY <2>1, HeadOf
<1> QED
  BY <1>1, <1>2, Updated DEF Answers, TypeOK

LEMMA ReceivesType ==
  ASSUME TypeOK, NEW w \in Window, NEW types, Receives(w, types)
  PROVE  /\ replies' \in [Window -> Seq(Reply)] /\ orderly' \in [Window -> BOOLEAN]
         /\ Packet(w) \in Reply /\ Packet(w).type \in types
<1>1. replies[w] \in Seq(Reply) /\ replies[w] # <<>>
  BY DEF Receives, TypeOK
<1>2. Head(replies[w]) \in Reply /\ Tail(replies[w]) \in Seq(Reply)
  BY <1>1, HeadOf
<1>3. (orderly[w] /\ (ui[w] = Idle \/ Packet(w).type = "chan")) \in BOOLEAN
  OBVIOUS
<1> QED
  BY <1>2, <1>3, Updated DEF Receives, TypeOK, Packet

LEMMA ClickType ==
  ASSUME TypeOK, NEW w \in Window, Click(w)
  PROVE  clicks' \in 0..MaxClicks
BY Constants DEF TypeOK, Click

LEMMA AskType ==
  ASSUME TypeOK, NEW w \in Window, AskAlone(w) \/ AskMeanwhile(w)
  PROVE  orderly' \in [Window -> BOOLEAN]
BY DEF TypeOK, AskAlone, AskMeanwhile

LEMMA CreateUnset ==
  ASSUME TypeOK, NEW w \in Window
  PROVE  LET unset == [create EXCEPT ![w].set = FALSE]
         IN  /\ unset \in [Window -> Pending]
             /\ unset[w].set = FALSE
             /\ \A v \in Window : v # w => unset[v] = create[v]
<1>1. create[w] \in Pending
  BY DEF TypeOK
<1>2. /\ [create[w] EXCEPT !.set = FALSE] \in Pending
      /\ [create[w] EXCEPT !.set = FALSE].set = FALSE
  BY <1>1 DEF Pending
<1>3. create \in [Window -> Pending]
  BY DEF TypeOK
<1> QED
  BY <1>2, <1>3, Updated

LEMMA DeleteUnset ==
  ASSUME TypeOK, NEW w \in Window
  PROVE  LET unset == [delete EXCEPT ![w].set = FALSE]
         IN  /\ unset \in [Window -> [set : BOOLEAN, id : Nat]]
             /\ unset[w].set = FALSE
             /\ \A v \in Window : v # w => unset[v] = delete[v]
<1>1. delete[w] \in [set : BOOLEAN, id : Nat]
  BY DEF TypeOK
<1>2. /\ [delete[w] EXCEPT !.set = FALSE] \in [set : BOOLEAN, id : Nat]
      /\ [delete[w] EXCEPT !.set = FALSE].set = FALSE
  BY <1>1
<1>3. delete \in [Window -> [set : BOOLEAN, id : Nat]]
  BY DEF TypeOK
<1> QED
  BY <1>2, <1>3, Updated

LEMMA ClickTypes ==
  ASSUME TypeOK, NEW w \in Window, UserClicks(w)
  PROVE  TypeOK'
<1>0. /\ Click(w) => clicks' \in 0..MaxClicks
      /\ AskAlone(w) \/ AskMeanwhile(w) => orderly' \in [Window -> BOOLEAN]
  BY ClickType, AskType
<1>1. CASE SubmitAuth(w)
  <2>1. PICK u \in User : Transmit(w, <<Auth(u)>>)
    BY <1>1 DEF SubmitAuth
  <2>2. <<Auth(u)>> \in Seq(Request)
    BY Requests
  <2>3. requests' \in [Window -> Seq(Request)] /\ replies' \in [Window -> Seq(Reply)]
    BY <2>1, <2>2, TransmitType
  <2> QED
    BY <1>0, <1>1, <2>3 DEF SubmitAuth, TypeOK, StoreTypeOK, storeVars, flagVars,
         listVars, serverVars
<1>2. CASE Logout(w)
  BY <1>0, <1>2 DEF Logout, TypeOK, StoreTypeOK, storeVars, flagVars, listVars,
       queueVars, serverVars, ghostVars
<1>3. CASE ClickCreate(w)
  <2>1. PICK name \in Name, private \in BOOLEAN :
          /\ Transmit(w, <<Create(name, private)>>)
          /\ ui' = [ui EXCEPT ![w] = [at |-> "create", name |-> name, private |-> private]]
    BY <1>3, Constants DEF ClickCreate
  <2>2. <<Create(name, private)>> \in Seq(Request)
    BY Requests
  <2>3. requests' \in [Window -> Seq(Request)] /\ replies' \in [Window -> Seq(Reply)]
    BY <2>1, <2>2, TransmitType
  <2>4. ui' \in [Window -> {Idle} \cup Arming]
    <3>1. [at |-> "create", name |-> name, private |-> private] \in {Idle} \cup Arming
      BY DEF Arming
    <3> QED
      BY <2>1, <3>1, Updated DEF TypeOK
  <2> QED
    BY <1>0, <1>3, <2>3, <2>4 DEF ClickCreate, TypeOK, StoreTypeOK, storeVars,
         authVars, flagVars, listVars, serverVars
<1>4. CASE ClickDelete(w)
  <2>1. PICK i \in 1..count[w] :
          /\ Transmit(w, <<Delete(slot[w][i].id)>>)
          /\ ui' = [ui EXCEPT ![w] = [at |-> "delete", slot |-> i]]
    BY <1>4 DEF ClickDelete
  <2>2. i \in Slots
    BY Constants DEF TypeOK, Slots
  <2>3. slot[w][i].id \in Nat
    BY <2>2 DEF TypeOK, Entry
  <2>4. <<Delete(slot[w][i].id)>> \in Seq(Request)
    BY <2>3, Requests
  <2>5. requests' \in [Window -> Seq(Request)] /\ replies' \in [Window -> Seq(Reply)]
    BY <2>1, <2>4, TransmitType
  <2>6. ui' \in [Window -> {Idle} \cup Arming]
    <3>1. [at |-> "delete", slot |-> i] \in {Idle} \cup Arming
      BY <2>2 DEF Arming
    <3> QED
      BY <2>1, <3>1, Updated DEF TypeOK
  <2> QED
    BY <1>0, <1>4, <2>5, <2>6 DEF ClickDelete, TypeOK, StoreTypeOK, storeVars,
         authVars, flagVars, listVars, serverVars
<1>5. CASE SelectChannel(w)
  <2>1. PICK i \in 1..count[w] :
          /\ active' = [active EXCEPT ![w] = i]
          /\ Transmit(w, <<Join(slot[w][i].id), Other>>)
    BY <1>5 DEF SelectChannel
  <2>2. i \in Slots /\ i <= count[w]
    BY Constants DEF TypeOK, Slots
  <2>3. slot[w][i].id \in Nat
    BY <2>2 DEF TypeOK, Entry
  <2>4. <<Join(slot[w][i].id), Other>> \in Seq(Request)
    BY <2>3, Requests
  <2>5. requests' \in [Window -> Seq(Request)] /\ replies' \in [Window -> Seq(Reply)]
    BY <2>1, <2>4, TransmitType
  <2>6. active' \in [Window -> Slots]
        /\ \A v \in Window : active'[v] <= count[v] \/ active'[v] = 1
    <3>1. /\ active' \in [Window -> Slots] /\ active'[w] = i
          /\ \A v \in Window : v # w => active'[v] = active[v]
      BY <2>1, <2>2, Updated DEF TypeOK
    <3> QED
      BY <2>2, <3>1 DEF TypeOK
  <2> QED
    BY <1>0, <1>5, <2>5, <2>6 DEF SelectChannel, TypeOK, StoreTypeOK, storeVars,
         authVars, flagVars, serverVars
<1>6. CASE TypeLine(w)
  <2>1. Shown(w) \in Nat
    BY DEF Shown, TypeOK, Entry
  <2>2. <<Line(IF steady[w] THEN Shown(w) ELSE 0)>> \in Seq(Request)
    BY <2>1, Requests
  <2>3. requests' \in [Window -> Seq(Request)] /\ replies' \in [Window -> Seq(Reply)]
    BY <1>6, <2>2, TransmitType DEF TypeLine
  <2> QED
    BY <1>0, <1>6, <2>3 DEF TypeLine, TypeOK, StoreTypeOK, storeVars, authVars,
         flagVars, listVars, serverVars
<1>7. CASE ClickOther(w)
  <2>1. <<Other>> \in Seq(Request)
    BY Requests
  <2>2. requests' \in [Window -> Seq(Request)] /\ replies' \in [Window -> Seq(Reply)]
    BY <1>7, <2>1, TransmitType DEF ClickOther
  <2> QED
    BY <1>0, <1>7, <2>2 DEF ClickOther, TypeOK, StoreTypeOK, storeVars, authVars,
         flagVars, listVars, serverVars
<1> QED
  BY <1>1, <1>2, <1>3, <1>4, <1>5, <1>6, <1>7 DEF UserClicks

LEMMA UITypes ==
  ASSUME TypeOK, NEW w \in Window, UIThread(w)
  PROVE  TypeOK'
<1>1. CASE EnterChat(w)
  <2>1. <<List, Other>> \in Seq(Request)
    BY Requests
  <2>2. requests' \in [Window -> Seq(Request)] /\ replies' \in [Window -> Seq(Reply)]
    BY <1>1, <2>1, TransmitType DEF EnterChat
  <2>3. /\ create' \in [Window -> Pending]
        /\ delete' \in [Window -> [set : BOOLEAN, id : Nat]]
    BY <1>1, CreateUnset, DeleteUnset DEF EnterChat
  <2> QED
    BY <1>1, <2>2, <2>3 DEF EnterChat, TypeOK, StoreTypeOK, storeVars, listVars,
         serverVars, ghostVars
<1>2. CASE BackToAuth(w)
  BY <1>2 DEF BackToAuth, TypeOK, StoreTypeOK, storeVars, flagVars, listVars,
       queueVars, serverVars, ghostVars
<1>5. CASE PollEnds(w)
  BY <1>5 DEF PollEnds, TypeOK, StoreTypeOK, storeVars, flagVars, listVars,
       queueVars, serverVars, ghostVars
<1>3. CASE ArmCreate(w)
  <2>1. ui[w] \in [at : {"create"}, name : Name, private : BOOLEAN]
    BY <1>3 DEF ArmCreate, TypeOK, Arming, Idle
  <2>2. [set |-> TRUE, name |-> Cut[ui[w].name], private |-> ui[w].private]
          \in Pending
    BY <2>1, Constants DEF Pending
  <2>3. create' \in [Window -> Pending]
    BY <1>3, <2>2, Updated DEF ArmCreate, TypeOK
  <2>4. ui' \in [Window -> {Idle} \cup Arming]
    BY <1>3 DEF ArmCreate, TypeOK
  <2> QED
    BY <1>3, <2>3, <2>4 DEF ArmCreate, TypeOK, StoreTypeOK, storeVars, authVars,
         listVars, queueVars, serverVars, ghostVars
<1>4. CASE ArmDelete(w)
  <2>1. ui[w] \in [at : {"delete"}, slot : Slots]
    BY <1>4 DEF ArmDelete, TypeOK, Arming, Idle
  <2>2. [set |-> TRUE, id |-> slot[w][ui[w].slot].id] \in [set : BOOLEAN, id : Nat]
    BY <2>1 DEF TypeOK, Entry
  <2>3. delete' \in [Window -> [set : BOOLEAN, id : Nat]]
    BY <1>4, <2>2, Updated DEF ArmDelete, TypeOK
  <2>4. ui' \in [Window -> {Idle} \cup Arming]
    BY <1>4 DEF ArmDelete, TypeOK
  <2> QED
    BY <1>4, <2>3, <2>4 DEF ArmDelete, TypeOK, StoreTypeOK, storeVars, authVars,
         listVars, queueVars, serverVars, ghostVars
<1> QED
  BY <1>1, <1>2, <1>3, <1>4, <1>5 DEF UIThread

LEMMA HeadRequest ==
  ASSUME TypeOK, NEW w \in Window, requests[w] # <<>>
  PROVE  /\ Head(requests[w]) \in Request
         /\ Head(requests[w]).type = "auth" => Head(requests[w]).id \in User
         /\ Head(requests[w]).type \in {"delete", "join", "line"}
              => Head(requests[w]).id \in Nat
         /\ Head(requests[w]).type = "create"
              => Head(requests[w]).name \in Name /\ Head(requests[w]).private \in BOOLEAN
<1>1. requests[w] \in Seq(Request)
  BY DEF TypeOK
<1>2. Head(requests[w]) \in Request
  BY <1>1, HeadOf
<1> QED
  BY <1>2, Parts

(* The channels a list returns, in a reply each.                           *)
LEMMA ListReplies ==
  ASSUME TypeOK, IsFiniteSet(channels), NEW u, NEW rows \in ChannelList(u)
  PROVE  /\ [i \in DOMAIN rows |-> Chan(rows[i])] \in Seq(Reply)
         /\ \A i \in DOMAIN rows : rows[i] \in channels
         /\ Len([i \in DOMAIN rows |-> Chan(rows[i])]) \in Nat
         /\ DOMAIN rows = 1..Len([i \in DOMAIN rows |-> Chan(rows[i])])
<1>1. Listed(u) \subseteq channels
  BY DEF Listed, Visible
<1>2. Cardinality(Listed(u)) \in Nat
  BY <1>1, FS_Subset, FS_CardinalityType
<1>3. rows \in [1..Cardinality(Listed(u)) -> Listed(u)]
  BY DEF ChannelList
<1> HIDE DEF Listed
<1>4. PICK n \in Nat : n = Cardinality(Listed(u))
  BY <1>2
<1>5. DOMAIN rows = 1..n /\ \A i \in 1..n : rows[i] \in channels
  BY <1>1, <1>3, <1>4
<1>6. \A i \in 1..n : Chan(rows[i]) \in Reply
  BY <1>5, Replies DEF TypeOK, StoreTypeOK
<1>7. PICK s : s = [i \in 1..n |-> Chan(rows[i])]
  OBVIOUS
<1>8. s \in Seq(Reply) /\ Len(s) = n
  <2> HIDE DEF Chan
  <2> QED
    BY <1>6, <1>7
<1> QED
  BY <1>5, <1>7, <1>8

LEMMA StoreTypes ==
  ASSUME StoreTypeOK
  PROVE  /\ \A u \in User, name \in Name, private \in BOOLEAN : \A n :
              ChannelInsert(u, name, private, n) => StoreTypeOK'
         /\ \A u, c, n : ChannelDelete(u, c, n) => StoreTypeOK'
         /\ \A c, n : MessageInsert(c, n) => StoreTypeOK'
<1>1. ASSUME NEW u \in User, NEW name \in Name, NEW private \in BOOLEAN, NEW n,
             ChannelInsert(u, name, private, n)
      PROVE  StoreTypeOK'
  <2>1. CASE UNCHANGED storeVars
    BY <2>1 DEF storeVars, StoreTypeOK
  <2>2. CASE ~UNCHANGED storeVars
    <3>1. /\ channels' = channels \cup {[id |-> nextChannel, name |-> name,
                                       private |-> private, creator |-> u]}
          /\ nextChannel' = nextChannel + 1 /\ used' = used
      BY <1>1, <2>2 DEF ChannelInsert
    <3>2. [id |-> nextChannel, name |-> name, private |-> private, creator |-> u] \in ChannelRow
      BY DEF StoreTypeOK, ChannelRow
    <3> QED
      BY <3>1, <3>2 DEF StoreTypeOK
  <2> QED
    BY <2>1, <2>2
<1>2. ASSUME NEW u, NEW c, NEW n, ChannelDelete(u, c, n)
      PROVE  StoreTypeOK'
  BY <1>2 DEF ChannelDelete, StoreTypeOK, storeVars
<1>3. ASSUME NEW c, NEW n, MessageInsert(c, n)
      PROVE  StoreTypeOK'
  <2>1. c \in Ids(channels) => c \in Nat
    BY DEF Ids, StoreTypeOK, ChannelRow
  <2> QED
    BY <1>3, <2>1 DEF MessageInsert, StoreTypeOK, storeVars
<1> QED
  BY <1>1, <1>2, <1>3

LEMMA ServerTypes ==
  ASSUME TypeOK, StoreInv, NEW w \in Window, ServerThread(w)
  PROVE  TypeOK'
<1> USE DEF Serves
<1>0. StoreTypeOK /\ channels \subseteq ChannelRow
  BY DEF TypeOK, StoreTypeOK
<1>1. CASE HandleAuth(w)
  <2>1. requests[w] # <<>> /\ Head(requests[w]).id \in User
    BY <1>1, HeadRequest DEF HandleAuth
  <2>2. /\ \/ Answers(w, <<Ok(Head(requests[w]).id)>>) \/ Answers(w, <<Error>>)
        /\ \/ user' = [user EXCEPT ![w] = Head(requests[w]).id] \/ user' = user
    BY <1>1 DEF HandleAuth
  <2>3. <<Ok(Head(requests[w]).id)>> \in Seq(Reply) /\ <<Error>> \in Seq(Reply)
    <3>1. Head(requests[w]).id \in Nat
      BY <2>1, Constants
    <3>2. Ok(Head(requests[w]).id) \in Reply /\ Error \in Reply
      BY <3>1, Replies
    <3> QED
      BY <3>2
  <2>4. requests' \in [Window -> Seq(Request)] /\ replies' \in [Window -> Seq(Reply)]
    BY <2>1, <2>2, <2>3, AnswersType
  <2>5. user' \in [Window -> User \cup {Nobody}]
    <3>1. Head(requests[w]).id \in User \cup {Nobody}
      BY <2>1
    <3>2. user \in [Window -> User \cup {Nobody}]
      BY DEF TypeOK
    <3> QED
      BY <2>2, <3>1, <3>2, Updated
  <2> QED
    BY <1>1, <2>4, <2>5 DEF HandleAuth, TypeOK, StoreTypeOK, storeVars, clientVars,
         authVars, flagVars, listVars
<1>2. CASE HandleList(w)
  <2>1. requests[w] # <<>>
    BY <1>2 DEF HandleList
  <2>2. requests' \in [Window -> Seq(Request)] /\ replies' \in [Window -> Seq(Reply)]
    <3>1. <<Ok(0)>> \in Seq(Reply) /\ <<Error>> \in Seq(Reply)
      BY Replies
    <3>2. ASSUME NEW rows \in ChannelList(user[w])
          PROVE  [i \in DOMAIN rows |-> Chan(rows[i])] \o <<Ok(0)>> \in Seq(Reply)
      <4>1. [i \in DOMAIN rows |-> Chan(rows[i])] \in Seq(Reply)
        BY ListReplies DEF StoreInv
      <4> QED
        BY <3>1, <4>1, Joined
    <3>3. \/ \E rows \in ChannelList(user[w]) :
               Answers(w, [i \in DOMAIN rows |-> Chan(rows[i])] \o <<Ok(0)>>)
          \/ Answers(w, <<Error>>)
      BY <1>2 DEF HandleList
    <3> QED
      BY <2>1, <3>1, <3>2, <3>3, AnswersType
  <2> QED
    BY <1>2, <2>2 DEF HandleList, TypeOK, StoreTypeOK, storeVars, serverVars,
         clientVars, authVars, flagVars, listVars
<1>3. CASE HandleCreate(w)
  <2>1. /\ requests[w] # <<>> /\ Head(requests[w]).name \in Name
        /\ Head(requests[w]).private \in BOOLEAN /\ user[w] \in User
    BY <1>3, HeadRequest DEF HandleCreate, TypeOK
  <2>2. PICK n \in {nextChannel, Failed} :
          /\ ChannelInsert(user[w], Head(requests[w]).name, Head(requests[w]).private, n)
          /\ Answers(w, <<IF n = Failed THEN Error ELSE Ok(n)>>)
          /\ made' = IF n = Failed THEN made ELSE [made EXCEPT ![w] = @ \cup {n}]
    BY <1>3 DEF HandleCreate
  <2>3. StoreTypeOK'
    BY <1>0, <2>1, <2>2, StoreTypes
  <2>4. n # Failed => n \in Nat
    BY <1>0 DEF StoreTypeOK
  <2>5. <<IF n = Failed THEN Error ELSE Ok(n)>> \in Seq(Reply)
    BY <2>4, Replies
  <2>6. requests' \in [Window -> Seq(Request)] /\ replies' \in [Window -> Seq(Reply)]
    BY <2>1, <2>2, <2>5, AnswersType
  <2>7. made' \in [Window -> SUBSET Nat]
    BY <2>2, <2>4 DEF TypeOK
  <2>8. rowsEver' \subseteq ChannelRow
    BY <1>3, <2>3 DEF HandleCreate, TypeOK, StoreTypeOK
  <2> QED
    BY <1>3, <2>3, <2>6, <2>7, <2>8 DEF HandleCreate, TypeOK, serverVars,
         clientVars, authVars, flagVars, listVars
<1>4. CASE HandleDelete(w)
  <2>1. PICK n \in {Done, Failed} :
          /\ ChannelDelete(user[w], Head(requests[w]).id, n)
          /\ Answers(w, <<IF n = Failed THEN Error ELSE Ok(0)>>)
    BY <1>4 DEF HandleDelete
  <2>2. requests[w] # <<>> /\ <<IF n = Failed THEN Error ELSE Ok(0)>> \in Seq(Reply)
    BY <1>4, Replies DEF HandleDelete
  <2>3. requests' \in [Window -> Seq(Request)] /\ replies' \in [Window -> Seq(Reply)]
    BY <2>1, <2>2, AnswersType
  <2>4. StoreTypeOK'
    BY <1>0, <2>1, StoreTypes
  <2> QED
    BY <1>4, <2>3, <2>4 DEF HandleDelete, TypeOK, serverVars, clientVars, authVars,
         flagVars, listVars
<1>5. CASE HandleJoin(w)
  <2>1. requests[w] # <<>> /\ Head(requests[w]).id \in Nat /\ <<Ok(0)>> \in Seq(Reply)
    BY <1>5, HeadRequest, Replies DEF HandleJoin
  <2>2. requests' \in [Window -> Seq(Request)] /\ replies' \in [Window -> Seq(Reply)]
    BY <1>5, <2>1, AnswersType DEF HandleJoin
  <2>3. channel' \in [Window -> Nat \cup {NoChannel}]
    BY <1>5, <2>1, Updated DEF HandleJoin, TypeOK
  <2> QED
    BY <1>5, <2>2, <2>3 DEF HandleJoin, TypeOK, StoreTypeOK, storeVars, clientVars,
         authVars, flagVars, listVars
<1>6. CASE HandleLine(w)
  <2>1. /\ Answers(w, <<>>) \/ Answers(w, <<Error>>)
        /\ \E n : MessageInsert(channel[w], n)
    BY <1>6 DEF HandleLine
  <2>2. requests[w] # <<>> /\ <<>> \in Seq(Reply) /\ <<Error>> \in Seq(Reply)
    BY <1>6, Replies DEF HandleLine
  <2>3. requests' \in [Window -> Seq(Request)] /\ replies' \in [Window -> Seq(Reply)]
    BY <2>1, <2>2, AnswersType
  <2>4. StoreTypeOK'
    BY <1>0, <2>1, StoreTypes
  <2> QED
    BY <1>6, <2>3, <2>4 DEF HandleLine, TypeOK, serverVars, clientVars, authVars,
         flagVars, listVars
<1>7. CASE HandleOther(w)
  <2>1. PICK reply \in {Ok(0), Error} : Answers(w, <<reply>>)
    BY <1>7 DEF HandleOther
  <2>2. requests[w] # <<>> /\ <<reply>> \in Seq(Reply)
    BY <1>7, Replies DEF HandleOther
  <2>3. requests' \in [Window -> Seq(Request)] /\ replies' \in [Window -> Seq(Reply)]
    BY <2>1, <2>2, AnswersType
  <2> QED
    BY <1>7, <2>3 DEF HandleOther, TypeOK, StoreTypeOK, storeVars, serverVars,
         clientVars, authVars, flagVars, listVars
<1> QED
  BY <1>1, <1>2, <1>3, <1>4, <1>5, <1>6, <1>7 DEF ServerThread

LEMMA AddTypes ==
  ASSUME TypeOK, NEW w \in Window, NEW id \in Nat, NEW name, Cut[name] \in Text \cup {NoName},
         NEW private \in BOOLEAN, Add(w, id, name, private), active' = active
  PROVE  /\ slot' \in [Window -> [Slots -> Entry]]
         /\ count' \in [Window -> 0..MaxChannels]
         /\ \A v \in Window : active[v] <= count'[v] \/ active[v] = 1
<1>1. CASE Full(w)
  BY <1>1 DEF Add, TypeOK
<1>2. CASE ~Full(w)
  <2> DEFINE entry == [id |-> id, name |-> Cut[name], private |-> private]
  <2>1. /\ slot' = [slot EXCEPT ![w] = [slot[w] EXCEPT ![count[w] + 1] = entry]]
        /\ count' = [count EXCEPT ![w] = count[w] + 1]
    BY <1>2 DEF Add
  <2>2. entry \in Entry
    BY DEF Entry
  <2>3. count[w] + 1 \in 0..MaxChannels /\ count[w] \in Nat
    BY <1>2, Constants DEF Full, TypeOK
  <2>4. [slot[w] EXCEPT ![count[w] + 1] = entry] \in [Slots -> Entry]
    <3>1. slot[w] \in [Slots -> Entry]
      BY DEF TypeOK
    <3> HIDE DEF entry
    <3> QED
      BY <2>2, <3>1
  <2>5. slot' \in [Window -> [Slots -> Entry]]
    <3> HIDE DEF entry
    <3> QED
      BY <2>1, <2>4, Updated DEF TypeOK
  <2>6. /\ count' \in [Window -> 0..MaxChannels] /\ count'[w] = count[w] + 1
        /\ \A v \in Window : v # w => count'[v] = count[v]
    BY <2>1, <2>3, Updated DEF TypeOK
  <2>7. ASSUME NEW v \in Window PROVE active[v] <= count'[v] \/ active[v] = 1
    <3>1. active[v] <= count[v] \/ active[v] = 1
      BY DEF TypeOK
    <3>2. active[v] \in Nat /\ count[v] \in Nat
      BY DEF TypeOK, Slots
    <3> QED
      BY <2>3, <2>6, <3>1, <3>2
  <2> QED
    BY <2>5, <2>6, <2>7
<1> QED
  BY <1>1, <1>2

LEMMA RemoveTypes ==
  ASSUME TypeOK, NEW w \in Window, NEW id, RemoveId(w, id) \/ UNCHANGED listVars
  PROVE  /\ slot' \in [Window -> [Slots -> Entry]]
         /\ count' \in [Window -> 0..MaxChannels]
         /\ active' \in [Window -> Slots]
         /\ \A v \in Window : active'[v] <= count'[v] \/ active'[v] = 1
<1>1. CASE UNCHANGED listVars
  BY <1>1 DEF listVars, TypeOK
<1>2. CASE \E i \in Slots : count[w] > 1 /\ RemoveAt(w, i)
  <2>1. PICK i \in Slots : count[w] > 1 /\ RemoveAt(w, i)
    BY <1>2
  <2> DEFINE moved == [j \in Slots |-> IF j \in i..(count[w] - 1)
                                       THEN slot[w][j + 1] ELSE slot[w][j]]
             index == IF active[w] > count[w] - 1 THEN count[w] - 1 ELSE active[w]
  <2>2. /\ slot' = [slot EXCEPT ![w] = moved]
        /\ count' = [count EXCEPT ![w] = count[w] - 1]
        /\ active' = [active EXCEPT ![w] = index]
    BY <2>1 DEF RemoveAt
  <2>3. count[w] \in 0..MaxChannels /\ active[w] \in Slots /\ slot[w] \in [Slots -> Entry]
    BY DEF TypeOK
  <2>4. moved \in [Slots -> Entry]
    <3>1. ASSUME NEW j \in Slots, j \in i..(count[w] - 1) PROVE j + 1 \in Slots
      BY <2>3, <3>1, Constants DEF Slots
    <3> QED
      BY <2>3, <3>1
  <2>5. count[w] - 1 \in 0..MaxChannels
    BY <2>1, <2>3, Constants
  <2>6. index \in Slots /\ index <= count[w] - 1
    BY <2>1, <2>3, Constants DEF Slots
  <2> HIDE DEF moved, index
  <2>7. slot' \in [Window -> [Slots -> Entry]]
    BY <2>2, <2>4, Updated DEF TypeOK
  <2>8. /\ count' \in [Window -> 0..MaxChannels] /\ count'[w] = count[w] - 1
        /\ \A v \in Window : v # w => count'[v] = count[v]
    BY <2>2, <2>5, Updated DEF TypeOK
  <2>9. /\ active' \in [Window -> Slots] /\ active'[w] = index
        /\ \A v \in Window : v # w => active'[v] = active[v]
    BY <2>2, <2>6, Updated DEF TypeOK
  <2>10. ASSUME NEW v \in Window PROVE active'[v] <= count'[v] \/ active'[v] = 1
    BY <2>6, <2>8, <2>9 DEF TypeOK
  <2> QED
    BY <2>7, <2>8, <2>9, <2>10
<1> QED
  BY <1>1, <1>2 DEF RemoveId

(* What a row comes apart into.                                            *)
LEMMA FieldsType ==
  ASSUME NEW row, row.name \in Name, row.private \in BOOLEAN
  PROVE  Fields(row) \in Seq(Text) /\ (Legible(row) => Fields(row)[1] \in Text)
<1>1. Tokens[row.name] \in Seq(Text) /\ Lock(row.private) \in Text
  BY ClientAssumption DEF Lock
<1>2. Fields(row) \in Seq(Text)
  BY <1>1 DEF Fields
<1> QED
  BY <1>2 DEF Legible

LEMMA ListenerTypes ==
  ASSUME TypeOK, NEW w \in Window, Listener(w)
  PROVE  TypeOK'
<1>1. CASE ReceiveAuth(w)
  <2>1. /\ replies' \in [Window -> Seq(Reply)] /\ orderly' \in [Window -> BOOLEAN]
        /\ Packet(w) \in Reply
    BY <1>1, ReceivesType DEF ReceiveAuth
  <2>2. userId' \in [Window -> Nat \cup {Nobody}]
    <3>1. \/ Packet(w).type = "ok" /\ userId' = [userId EXCEPT ![w] = Packet(w).id]
          \/ userId' = userId
      BY <1>1 DEF ReceiveAuth
    <3>2. Packet(w).type = "ok" => Packet(w).id \in Nat \cup {Nobody}
      BY <2>1, ReplyParts
    <3>3. userId \in [Window -> Nat \cup {Nobody}]
      BY DEF TypeOK
    <3> QED
      BY <3>1, <3>2, <3>3, Updated
  <2>3. result' \in [Window -> {"pending", "ok", "error"}] /\ authDone' \in [Window -> BOOLEAN]
    BY <1>1 DEF ReceiveAuth, TypeOK
  <2> QED
    BY <1>1, <2>1, <2>2, <2>3 DEF ReceiveAuth, TypeOK, StoreTypeOK, storeVars,
         flagVars, listVars, serverVars
<1>2. CASE AckCreate(w)
  <2>1. /\ replies' \in [Window -> Seq(Reply)] /\ orderly' \in [Window -> BOOLEAN]
        /\ Packet(w) \in Reply
    BY <1>2, ReceivesType DEF AckCreate
  <2>2. create' \in [Window -> Pending]
    BY <1>2, CreateUnset DEF AckCreate
  <2>3. create[w].name \in Text /\ create[w].private \in BOOLEAN
    <3>1. create[w] \in Pending /\ create[w].set
      BY <1>2 DEF AckCreate, TypeOK
    <3> QED
      BY <3>1 DEF Pending
  <2>4. \/ /\ Packet(w).id \in Nat
           /\ Add(w, Packet(w).id, create[w].name, create[w].private)
        \/ UNCHANGED <<slot, count>>
    BY <1>2, <2>1, ReplyParts DEF AckCreate
  <2>5. active' = active
    BY <1>2 DEF AckCreate
  <2>6. /\ slot' \in [Window -> [Slots -> Entry]]
        /\ count' \in [Window -> 0..MaxChannels]
        /\ \A v \in Window : active[v] <= count'[v] \/ active[v] = 1
    <3>1. CASE UNCHANGED <<slot, count>>
      BY <3>1 DEF TypeOK
    <3>2. Cut[create[w].name] \in Text
      BY <2>3, Constants
    <3> QED
      BY <2>3, <2>4, <2>5, <3>1, <3>2, AddTypes
  <2>7. made' \in [Window -> SUBSET Nat]
    <3>1. made' = made \/ made' = [made EXCEPT ![w] = made[w] \ {Packet(w).id}]
      BY <1>2 DEF AckCreate
    <3>2. made \in [Window -> SUBSET Nat]
      BY DEF TypeOK
    <3>3. made[w] \ {Packet(w).id} \in SUBSET Nat
      BY <3>2
    <3> QED
      BY <3>1, <3>2, <3>3, Updated
  <2>8. steady' \in [Window -> BOOLEAN]
    BY <1>2 DEF AckCreate, KeepShown, TypeOK
  <2>9. UNCHANGED <<storeVars, authVars, joined, joining, delete, active, ui,
                    requests, serverVars, clicks, rowsEver, alone>>
    BY <1>2 DEF AckCreate
  <2>10. StoreTypeOK'
    BY <2>9 DEF TypeOK, StoreTypeOK, storeVars
  <2>11. /\ UNCHANGED <<screen, result, authDone, userId, joined, joining, delete>>
         /\ UNCHANGED <<ui, requests, user, channel, clicks, rowsEver, alone>>
    BY <2>9 DEF authVars, serverVars
  <2> QED
    BY <2>1, <2>2, <2>5, <2>6, <2>7, <2>8, <2>10, <2>11 DEF TypeOK
<1>3. CASE AckDelete(w)
  <2>1. /\ replies' \in [Window -> Seq(Reply)] /\ orderly' \in [Window -> BOOLEAN]
    BY <1>3, ReceivesType DEF AckDelete
  <2>2. delete' \in [Window -> [set : BOOLEAN, id : Nat]]
    BY <1>3, DeleteUnset DEF AckDelete
  <2>3. RemoveId(w, delete[w].id) \/ UNCHANGED listVars
    BY <1>3 DEF AckDelete
  <2>4. /\ slot' \in [Window -> [Slots -> Entry]]
        /\ count' \in [Window -> 0..MaxChannels]
        /\ active' \in [Window -> Slots]
        /\ \A v \in Window : active'[v] <= count'[v] \/ active'[v] = 1
    BY <2>3, RemoveTypes
  <2>5. steady' \in [Window -> BOOLEAN]
    BY <1>3 DEF AckDelete, KeepShown, TypeOK
  <2> QED
    BY <1>3, <2>1, <2>2, <2>4, <2>5 DEF AckDelete, TypeOK, StoreTypeOK,
         storeVars, authVars, serverVars
<1>4. CASE IgnoreReply(w)
  <2>1. /\ replies' \in [Window -> Seq(Reply)] /\ orderly' \in [Window -> BOOLEAN]
    BY <1>4, ReceivesType DEF IgnoreReply
  <2> QED
    BY <1>4, <2>1 DEF IgnoreReply, TypeOK, StoreTypeOK, storeVars, authVars, flagVars,
         listVars, serverVars
<1>5. CASE ReceiveChan(w)
  <2>1. /\ replies' \in [Window -> Seq(Reply)] /\ orderly' \in [Window -> BOOLEAN]
        /\ Packet(w) \in Reply /\ Packet(w).type = "chan"
    BY <1>5, ReceivesType DEF ReceiveChan
  <2>2. Packet(w).id \in Nat /\ Packet(w).name \in Name /\ Packet(w).private \in BOOLEAN
    BY <2>1, ReplyParts
  <2>3. active' = active
    BY <1>5 DEF ReceiveChan
  <2>4. \/ /\ Legible(Packet(w))
           /\ Add(w, Packet(w).id, Fields(Packet(w))[1], Fields(Packet(w))[2] \in Truthy)
        \/ UNCHANGED <<slot, count>>
    BY <1>5 DEF ReceiveChan, AddChan
  <2>8. Legible(Packet(w)) => Cut[Fields(Packet(w))[1]] \in Text
    BY <2>2, FieldsType, Constants
  <2>5. /\ slot' \in [Window -> [Slots -> Entry]]
        /\ count' \in [Window -> 0..MaxChannels]
        /\ \A v \in Window : active[v] <= count'[v] \/ active[v] = 1
    <3>1. CASE UNCHANGED <<slot, count>>
      BY <3>1 DEF TypeOK
    <3>2. (Fields(Packet(w))[2] \in Truthy) \in BOOLEAN
      OBVIOUS
    <3> QED
      BY <2>2, <2>3, <2>4, <2>8, <3>1, <3>2, AddTypes
  <2>6. joined' \in [Window -> BOOLEAN] /\ joining' \in [Window -> Nat]
    <3>1. \/ joined' = [joined EXCEPT ![w] = TRUE]
          \/ joined' = joined
      BY <1>5 DEF ReceiveChan, AddChan
    <3>2. \/ joining' = [joining EXCEPT ![w] = Packet(w).id]
          \/ joining' = joining
      BY <1>5 DEF ReceiveChan, AddChan
    <3> QED
      BY <2>2, <3>1, <3>2, Updated DEF TypeOK
  <2>7. steady' \in [Window -> BOOLEAN]
    BY <1>5 DEF ReceiveChan, KeepShown, TypeOK
  <2> QED
    BY <1>5, <2>1, <2>3, <2>5, <2>6, <2>7 DEF ReceiveChan, TypeOK, StoreTypeOK,
         storeVars, authVars, serverVars
<1>6. CASE JoinFirst(w)
  <2>1. joining[w] \in Nat
    BY DEF TypeOK
  <2>2. <<Join(joining[w]), Other>> \in Seq(Request)
    BY <2>1, Requests
  <2>3. requests' \in [Window -> Seq(Request)] /\ replies' \in [Window -> Seq(Reply)]
    BY <1>6, <2>2, TransmitType DEF JoinFirst
  <2>4. steady' \in [Window -> BOOLEAN] /\ joining' \in [Window -> Nat]
    BY <1>6 DEF JoinFirst, TypeOK
  <2> QED
    BY <1>6, <2>3, <2>4 DEF JoinFirst, TypeOK, StoreTypeOK, storeVars, authVars,
         listVars, serverVars
<1> QED
  BY <1>1, <1>2, <1>3, <1>4, <1>5, <1>6 DEF Listener

LEMMA TypesInit == Init => TypeOK /\ StoreInv
<1> SUFFICES ASSUME Init PROVE TypeOK /\ StoreInv
  OBVIOUS
<1> USE Constants
<1>1. Cardinality(FirstChannels) \in Nat
  BY StoreAssumption, FS_CardinalityType
<1>2. StoreTypeOK
  BY <1>1, StoreAssumption DEF Init, StoreInit, StoreTypeOK
<1>3. StoreInv
  <2>1. \A row \in FirstChannels : row.id \in 1..Cardinality(FirstChannels)
    BY StoreAssumption DEF Ids
  <2>2. \A row, other \in FirstChannels : row.id = other.id => row = other
    <3> DEFINE id == [row \in FirstChannels |-> row.id]
    <3>1. id \in Surjection(FirstChannels, 1..Cardinality(FirstChannels))
      <4>1. \A c \in 1..Cardinality(FirstChannels) : \E row \in FirstChannels : row.id = c
        BY StoreAssumption DEF Ids
      <4> QED
        BY <2>1, <4>1 DEF Surjection
    <3>2. Cardinality(1..Cardinality(FirstChannels)) = Cardinality(FirstChannels)
      BY <1>1, FS_Interval
    <3>3. id \in Injection(FirstChannels, 1..Cardinality(FirstChannels))
      <4> HIDE DEF id
      <4> QED
        BY <3>1, <3>2, StoreAssumption, FS_SurjSameCardinalityImpliesInj
    <3> QED
      BY <3>3 DEF Injection, IsInjective
  <2>3. /\ channels = FirstChannels /\ rowsEver = FirstChannels
        /\ nextChannel = Cardinality(FirstChannels) + 1
    BY DEF Init, StoreInit
  <2> QED
    BY <1>1, <2>1, <2>2, <2>3, StoreAssumption DEF StoreInv
<1>4. Blank \in Entry /\ 1 \in Slots
  BY DEF Blank, Entry, Slots
<1>5. create \in [Window -> Pending]
  BY DEF Init, Pending
<1>6. TypeOK
  <2>1. StoreTypeOK /\ rowsEver \subseteq ChannelRow
    BY <1>2, StoreAssumption DEF Init, StoreInit, StoreTypeOK
  <2>2. /\ requests \in [Window -> Seq(Request)] /\ replies \in [Window -> Seq(Reply)]
        /\ slot \in [Window -> [Slots -> Entry]] /\ active \in [Window -> Slots]
    BY <1>4 DEF Init
  <2>3. /\ count \in [Window -> 0..MaxChannels] /\ clicks \in 0..MaxClicks
        /\ \A w \in Window : active[w] <= count[w] \/ active[w] = 1
    BY Constants DEF Init
  <2>4. /\ screen \in [Window -> {"auth", "submitting", "waiting", "chat"}]
        /\ result \in [Window -> {"pending", "ok", "error"}]
        /\ ui \in [Window -> {Idle} \cup Arming]
    BY DEF Init
  <2>5. /\ authDone \in [Window -> BOOLEAN] /\ joined \in [Window -> BOOLEAN]
        /\ alone \in [Window -> BOOLEAN] /\ orderly \in [Window -> BOOLEAN]
        /\ steady \in [Window -> BOOLEAN]
    BY DEF Init
  <2>6. /\ userId \in [Window -> Nat \cup {Nobody}] /\ joining \in [Window -> Nat]
        /\ delete \in [Window -> [set : BOOLEAN, id : Nat]]
        /\ user \in [Window -> User \cup {Nobody}]
        /\ channel \in [Window -> Nat \cup {NoChannel}]
        /\ made \in [Window -> SUBSET Nat]
    BY DEF Init
  <2> QED
    BY <1>5, <2>1, <2>2, <2>3, <2>4, <2>5, <2>6 DEF TypeOK
<1> QED
  BY <1>3, <1>6

(* The table changes by statements.                                        *)
LEMMA StoreCases ==
  ASSUME TypeOK, [Next]_vars
  PROVE  \/ UNCHANGED <<channels, nextChannel, rowsEver>>
         \/ \E u \in User, name \in Name, private \in BOOLEAN : \E n :
              ChannelInsert(u, name, private, n) /\ rowsEver' = rowsEver \cup channels'
         \/ \E u, c, n : ChannelDelete(u, c, n) /\ rowsEver' = rowsEver
<1>1. CASE UNCHANGED vars
  BY <1>1 DEF vars, storeVars, ghostVars
<1>2. ASSUME NEW w \in Window, UserClicks(w)
      PROVE  UNCHANGED <<channels, nextChannel, rowsEver>>
  BY <1>2 DEF UserClicks, SubmitAuth, Logout, ClickCreate, ClickDelete, SelectChannel,
       TypeLine, ClickOther, storeVars, ghostVars
<1>3. ASSUME NEW w \in Window, UIThread(w)
      PROVE  UNCHANGED <<channels, nextChannel, rowsEver>>
  BY <1>3 DEF UIThread, PollEnds, EnterChat, BackToAuth, ArmCreate, ArmDelete, storeVars, ghostVars
<1>4. ASSUME NEW w \in Window, Listener(w)
      PROVE  UNCHANGED <<channels, nextChannel, rowsEver>>
  BY <1>4 DEF Listener, ReceiveAuth, AckCreate, AckDelete, IgnoreReply, ReceiveChan,
       JoinFirst, storeVars
<1>5. ASSUME NEW w \in Window, HandleCreate(w)
      PROVE  \E u \in User, name \in Name, private \in BOOLEAN : \E n :
               ChannelInsert(u, name, private, n) /\ rowsEver' = rowsEver \cup channels'
  <2>1. /\ requests[w] # <<>> /\ Head(requests[w]).name \in Name
        /\ Head(requests[w]).private \in BOOLEAN /\ user[w] \in User
    BY <1>5, HeadRequest DEF HandleCreate, TypeOK, Serves
  <2>2. PICK n : /\ ChannelInsert(user[w], Head(requests[w]).name,
                                  Head(requests[w]).private, n)
                 /\ rowsEver' = rowsEver \cup channels'
    BY <1>5 DEF HandleCreate
  <2> QED
    BY <2>1, <2>2, Zenon
<1>6. ASSUME NEW w \in Window, HandleDelete(w)
      PROVE  \E u, c, n : ChannelDelete(u, c, n) /\ rowsEver' = rowsEver
  BY <1>6, Zenon DEF HandleDelete
<1>7. ASSUME NEW w \in Window, ServerThread(w), ~HandleCreate(w), ~HandleDelete(w)
      PROVE  UNCHANGED <<channels, nextChannel, rowsEver>>
  BY <1>7 DEF ServerThread, HandleAuth, HandleList, HandleJoin, HandleLine, HandleOther,
       MessageInsert, storeVars
<1>8. \/ UNCHANGED vars
      \/ \E w \in Window : UserClicks(w) \/ UIThread(w) \/ ServerThread(w) \/ Listener(w)
  BY DEF Next
<1> QED
  BY <1>1, <1>2, <1>3, <1>4, <1>5, <1>6, <1>7, <1>8, Zenon

(* Rows are remembered, and ids of rows that are new are.                  *)
StoreGrows ==
  /\ rowsEver \subseteq rowsEver'
  /\ nextChannel' \in Nat /\ nextChannel <= nextChannel'
  /\ \A row \in channels' : row \in channels \/ row.id = nextChannel

LEMMA StoreStep ==
  ASSUME TypeOK, StoreInv, [Next]_vars
  PROVE  StoreInv' /\ StoreGrows
<1> USE DEF StoreGrows
<1>0. nextChannel \in Nat
  BY DEF TypeOK, StoreTypeOK
<1>1. CASE UNCHANGED <<channels, nextChannel, rowsEver>>
  BY <1>0, <1>1 DEF StoreInv
<1>2. ASSUME NEW u \in User, NEW name \in Name, NEW private \in BOOLEAN, NEW n,
             ChannelInsert(u, name, private, n), rowsEver' = rowsEver \cup channels'
      PROVE  StoreInv' /\ StoreGrows
  <2>1. CASE UNCHANGED storeVars
    BY <1>0, <1>2, <2>1 DEF StoreInv, storeVars
  <2>2. CASE ~UNCHANGED storeVars
    <3> DEFINE row == [id |-> nextChannel, name |-> name, private |-> private, creator |-> u]
    <3>1. channels' = channels \cup {row} /\ nextChannel' = nextChannel + 1
      BY <1>2, <2>2 DEF ChannelInsert
    <3>2. row.id = nextChannel
      OBVIOUS
    <3> HIDE DEF row
    <3>3. IsFiniteSet(channels')
      BY <3>1, FS_AddElement DEF StoreInv
    <3>4. ASSUME NEW r \in rowsEver' PROVE r.id < nextChannel'
      <4>1. r = row \/ r \in rowsEver
        BY <1>2, <3>1 DEF StoreInv
      <4>2. r \in rowsEver => r.id \in Nat /\ r.id < nextChannel
        BY DEF StoreInv, TypeOK, ChannelRow
      <4> QED
        BY <1>0, <3>1, <3>2, <4>1, <4>2
    <3>5. ASSUME NEW r \in rowsEver', NEW other \in rowsEver', r.id = other.id
          PROVE  r = other
      <4>1. (r = row \/ r \in rowsEver) /\ (other = row \/ other \in rowsEver)
        BY <1>2, <3>1 DEF StoreInv
      <4>2. \A e \in rowsEver : e.id # nextChannel
        BY <1>0 DEF StoreInv, TypeOK, ChannelRow
      <4> QED
        BY <3>2, <3>5, <4>1, <4>2 DEF StoreInv
    <3> QED
      BY <1>0, <1>2, <3>1, <3>2, <3>3, <3>4, <3>5 DEF StoreInv
  <2> QED
    BY <2>1, <2>2
<1>3. ASSUME NEW u, NEW c, NEW n, ChannelDelete(u, c, n), rowsEver' = rowsEver
      PROVE  StoreInv' /\ StoreGrows
  <2>1. channels' \subseteq channels /\ nextChannel' = nextChannel
    BY <1>3 DEF ChannelDelete, storeVars
  <2>2. IsFiniteSet(channels')
    BY <2>1, FS_Subset DEF StoreInv
  <2> QED
    BY <1>0, <1>3, <2>1, <2>2 DEF StoreInv
<1> QED
  BY <1>1, <1>2, <1>3, StoreCases

LEMMA TypesStep ==
  ASSUME TypeOK, StoreInv, [Next]_vars
  PROVE  TypeOK'
<1>1. CASE UNCHANGED vars
  BY <1>1 DEF vars, storeVars, authVars, flagVars, listVars, queueVars, serverVars,
       ghostVars, TypeOK, StoreTypeOK
<1> QED
  BY <1>1, ClickTypes, UITypes, ServerTypes, ListenerTypes DEF Next

(* Every variable keeps its type: the array of channels and the index of   *)
(* the active one keep their bounds, whatever is added and removed         *)
(* (channel_model.c, chat_controller.c:78-145).                            *)
THEOREM TypeCorrect == Spec => []TypeOK
<1>1. Init => TypeOK /\ StoreInv
  BY TypesInit
<1>2. (TypeOK /\ StoreInv) /\ [Next]_vars => (TypeOK /\ StoreInv)'
  BY TypesStep, StoreStep
<1> QED
  BY <1>1, <1>2, PTL DEF Spec

-----------------------------------------------------------------------------
(* What the queues hold.                                                   *)

LEMMA WithinFacts ==
  ASSUME NEW S, NEW q \in Seq(S), NEW p \in Seq(S)
  PROVE  /\ Within(q) \subseteq S
         /\ Within(q \o p) = Within(q) \cup Within(p)
         /\ q # <<>> => Within(Tail(q)) \subseteq Within(q) /\ Head(q) \in Within(q)
<1>1. Within(q) \subseteq S
  BY DEF Within
<1>2. Within(q \o p) \subseteq Within(q) \cup Within(p)
  <2> SUFFICES ASSUME NEW k \in 1..Len(q \o p)
               PROVE  (q \o p)[k] \in Within(q) \cup Within(p)
    BY DEF Within
  <2>1. CASE k <= Len(q)
    <3>1. k \in 1..Len(q) /\ (q \o p)[k] = q[k]
      BY <2>1, Joined
    <3> QED
      BY <3>1 DEF Within
  <2>2. CASE k > Len(q)
    <3>1. /\ k \in (Len(q) + 1)..(Len(q) + Len(p)) /\ k - Len(q) \in 1..Len(p)
          /\ (q \o p)[k] = p[k - Len(q)]
      BY <2>2, Joined
    <3> QED
      BY <3>1 DEF Within
  <2> QED
    BY <2>1, <2>2, Joined
<1>3. Within(q) \cup Within(p) \subseteq Within(q \o p)
  <2>1. ASSUME NEW k \in 1..Len(q) PROVE q[k] \in Within(q \o p)
    <3>1. k \in 1..Len(q \o p) /\ (q \o p)[k] = q[k]
      BY Joined
    <3> QED
      BY <3>1, Zenon DEF Within
  <2>2. ASSUME NEW k \in 1..Len(p) PROVE p[k] \in Within(q \o p)
    <3>1. PICK j : j = Len(q) + k
      OBVIOUS
    <3>2. /\ j \in 1..Len(q \o p) /\ j \in (Len(q) + 1)..(Len(q) + Len(p))
          /\ j - Len(q) = k
      BY <3>1, Joined
    <3>3. (q \o p)[j] = p[k]
      BY <3>2, Joined
    <3> QED
      BY <3>2, <3>3, Zenon DEF Within
  <2> QED
    BY <2>1, <2>2 DEF Within
<1>4. ASSUME q # <<>> PROVE Within(Tail(q)) \subseteq Within(q) /\ Head(q) \in Within(q)
  <2>1. ASSUME NEW k \in 1..Len(Tail(q)) PROVE Tail(q)[k] \in Within(q)
    <3>1. k \in 1..(Len(q) - 1) /\ k + 1 \in 1..Len(q) /\ Tail(q)[k] = q[k + 1]
      BY <1>4, HeadOf
    <3> QED
      BY <3>1, Zenon DEF Within
  <2>2. Head(q) = q[1] /\ 1 \in 1..Len(q)
    BY <1>4, HeadOf
  <2>3. Head(q) \in Within(q)
    BY <2>2, Zenon DEF Within
  <2> QED
    BY <2>1, <2>3 DEF Within
<1> QED
  BY <1>1, <1>2, <1>3, <1>4

LEMMA WithinShort ==
  /\ Within(<<>>) = {}
  /\ \A a : Within(<<a>>) = {a}
  /\ \A a, b : Within(<<a, b>>) = {a, b}
<1>1. Within(<<>>) = {}
  BY DEF Within
<1>2. ASSUME NEW a PROVE Within(<<a>>) = {a}
  <2>1. Len(<<a>>) = 1 /\ <<a>>[1] = a
    OBVIOUS
  <2> QED
    BY <2>1 DEF Within
<1>3. ASSUME NEW a, NEW b PROVE Within(<<a, b>>) = {a, b}
  <2>1. Len(<<a, b>>) = 2 /\ <<a, b>>[1] = a /\ <<a, b>>[2] = b
    OBVIOUS
  <2> QED
    BY <2>1 DEF Within
<1> QED
  BY <1>1, <1>2, <1>3

(* What a thread does to the two queues of its window.                     *)
Sent(w, packets) ==
  requests'[w] = requests[w] \o packets /\ replies'[w] = replies[w]

Served(w, packets) ==
  /\ requests[w] # <<>>
  /\ requests'[w] = Tail(requests[w]) /\ replies'[w] = replies[w] \o packets

Taken(w) ==
  /\ replies[w] # <<>>
  /\ requests'[w] = requests[w] /\ replies'[w] = Tail(replies[w])

LEMMA SentIs ==
  ASSUME TypeOK, NEW w \in Window, NEW packets, Transmit(w, packets)
  PROVE  Sent(w, packets)
BY DEF Transmit, Sent, TypeOK

LEMMA ServedIs ==
  ASSUME TypeOK, NEW w \in Window, NEW packets, requests[w] # <<>>, Answers(w, packets)
  PROVE  Served(w, packets)
BY DEF Answers, Served, TypeOK

LEMMA TakenIs ==
  ASSUME TypeOK, NEW w \in Window, NEW types, Receives(w, types), requests' = requests
  PROVE  /\ Taken(w) /\ joining[w] = 0
         /\ orderly'[w] = (orderly[w] /\ (ui[w] = Idle \/ Packet(w).type = "chan"))
         /\ Packet(w) \in Within(replies[w]) /\ Packet(w).type \in types
<1>1. replies[w] \in Seq(Reply) /\ replies[w] # <<>>
  BY DEF Receives, TypeOK
<1>2. Packet(w) \in Within(replies[w])
  BY <1>1, WithinFacts DEF Packet
<1> QED
  BY <1>2 DEF Receives, Taken, TypeOK

LEMMA QueuesAre ==
  ASSUME TypeOK, NEW w \in Window
  PROVE  requests[w] \in Seq(Request) /\ replies[w] \in Seq(Reply)
BY DEF TypeOK

LEMMA SentWithin ==
  ASSUME TypeOK, NEW w \in Window, NEW packets \in Seq(Request), Sent(w, packets)
  PROVE  /\ Within(requests'[w]) = Within(requests[w]) \cup Within(packets)
         /\ Within(replies'[w]) = Within(replies[w])
BY QueuesAre, WithinFacts DEF Sent

LEMMA ServedWithin ==
  ASSUME TypeOK, NEW w \in Window, NEW packets \in Seq(Reply), Served(w, packets)
  PROVE  /\ Within(requests'[w]) \subseteq Within(requests[w])
         /\ Head(requests[w]) \in Within(requests[w])
         /\ Within(replies'[w]) = Within(replies[w]) \cup Within(packets)
<1>1. requests[w] \in Seq(Request) /\ replies[w] \in Seq(Reply)
  BY QueuesAre
<1>2. Within(replies[w] \o packets) = Within(replies[w]) \cup Within(packets)
  BY <1>1, WithinFacts
<1>3. /\ Within(Tail(requests[w])) \subseteq Within(requests[w])
      /\ Head(requests[w]) \in Within(requests[w])
  BY <1>1, WithinFacts DEF Served
<1> QED
  BY <1>2, <1>3 DEF Served

LEMMA TakenWithin ==
  ASSUME TypeOK, NEW w \in Window, Taken(w)
  PROVE  /\ Within(requests'[w]) = Within(requests[w])
         /\ Within(replies'[w]) \subseteq Within(replies[w])
<1>1. replies[w] \in Seq(Reply)
  BY QueuesAre
<1>2. Within(Tail(replies[w])) \subseteq Within(replies[w])
  BY <1>1, WithinFacts DEF Taken
<1> QED
  BY <1>2 DEF Taken

-----------------------------------------------------------------------------
(* The list a channel is in is closed by an answer.                        *)

LEMMA RowStays ==
  ASSUME StoreGrows, NEW id, NEW name, NEW private, Row(id, name, private)
  PROVE  Row(id, name, private)'
BY DEF StoreGrows, Row

LEMMA ShowsStays ==
  ASSUME StoreGrows, NEW id, NEW name, NEW private, Shows(id, name, private)
  PROVE  Shows(id, name, private)'
BY DEF StoreGrows, Shows, Plain, Fields, Lock

LEMMA ShowsSame ==
  ASSUME rowsEver' = rowsEver
  PROVE  \A id, name, private : Shows(id, name, private)' = Shows(id, name, private)
BY DEF Shows, Plain, Fields, Lock

LEMMA RepliesSame ==
  ASSUME NEW w \in Window, RepliesInv(w), StoreGrows,
         replies'[w] = replies[w], joining'[w] \in {joining[w], 0}
  PROVE  RepliesInv(w)'
BY RowStays DEF RepliesInv

LEMMA RepliesServed ==
  ASSUME TypeOK, NEW w \in Window, RepliesInv(w), StoreGrows, joining'[w] = joining[w],
         NEW packets \in Seq(Reply), Served(w, packets),
         \A reply \in Within(packets) :
           reply.type = "chan" => Row(reply.id, reply.name, reply.private),
         packets # <<>> => packets[Len(packets)].type # "chan"
  PROVE  RepliesInv(w)'
<1>1. replies[w] \in Seq(Reply) /\ replies'[w] = replies[w] \o packets
  BY QueuesAre DEF Served
<1>2. ASSUME NEW reply \in Within(replies'[w]), reply.type = "chan"
      PROVE  Row(reply.id, reply.name, reply.private)'
  <2>1. Row(reply.id, reply.name, reply.private)
    BY <1>2, ServedWithin DEF RepliesInv
  <2> QED
    BY <2>1, RowStays
<1>3. /\ Len(replies'[w]) = Len(replies[w]) + Len(packets)
      /\ Len(replies[w]) \in Nat /\ Len(packets) \in Nat
      /\ \A k \in 1..Len(replies[w]) : replies'[w][k] = replies[w][k]
      /\ \A k \in (Len(replies[w]) + 1)..(Len(replies[w]) + Len(packets)) :
           replies'[w][k] = packets[k - Len(replies[w])]
  BY <1>1, Joined
<1>4. ASSUME replies'[w] # <<>> PROVE replies'[w][Len(replies'[w])].type # "chan"
  <2>1. CASE packets = <<>>
    <3>1. replies'[w] = replies[w]
      BY <1>1, <2>1
    <3> QED
      BY <1>4, <3>1 DEF RepliesInv
  <2>2. CASE packets # <<>>
    <3>1. Len(packets) >= 1
      BY <2>2
    <3>2. replies'[w][Len(replies'[w])] = packets[Len(packets)]
      <4>1. PICK k : k = Len(replies'[w])
        OBVIOUS
      <4>2. /\ k \in (Len(replies[w]) + 1)..(Len(replies[w]) + Len(packets))
            /\ k - Len(replies[w]) = Len(packets)
        BY <1>3, <3>1, <4>1
      <4> QED
        BY <1>3, <4>1, <4>2
    <3> QED
      BY <2>2, <3>2
  <2> QED
    BY <2>1, <2>2
<1>5. joining'[w] # 0 => replies'[w] # <<>>
  <2>1. replies[w] # <<>> => Len(replies'[w]) > 0
    BY <1>1, <1>3
  <2> QED
    BY <2>1 DEF RepliesInv
<1> QED
  BY <1>2, <1>4, <1>5 DEF RepliesInv

LEMMA RepliesTaken ==
  ASSUME TypeOK, NEW w \in Window, RepliesInv(w), StoreGrows, Taken(w),
         joining'[w] # 0 => Head(replies[w]).type = "chan"
  PROVE  RepliesInv(w)'
<1>1. replies[w] \in Seq(Reply) /\ replies[w] # <<>> /\ replies'[w] = Tail(replies[w])
  BY QueuesAre DEF Taken
<1>2. ASSUME NEW reply \in Within(replies'[w]), reply.type = "chan"
      PROVE  Row(reply.id, reply.name, reply.private)'
  <2>1. Row(reply.id, reply.name, reply.private)
    BY <1>2, TakenWithin DEF RepliesInv
  <2> QED
    BY <2>1, RowStays
<1>3. /\ Len(replies'[w]) = Len(replies[w]) - 1 /\ Len(replies[w]) \in Nat \ {0}
      /\ \A k \in 1..(Len(replies[w]) - 1) : replies'[w][k] = replies[w][k + 1]
      /\ Head(replies[w]) = replies[w][1]
  BY <1>1, HeadOf
<1>4. ASSUME replies'[w] # <<>> PROVE replies'[w][Len(replies'[w])].type # "chan"
  <2>1. Len(replies'[w]) \in 1..(Len(replies[w]) - 1)
    <3>1. replies'[w] \in Seq(Reply)
      BY <1>1, HeadOf
    <3>2. Len(replies'[w]) # 0
      BY <1>4, <3>1
    <3>3. PICK n, m : n = Len(replies[w]) /\ m = Len(replies'[w])
      OBVIOUS
    <3>4. n \in Nat \ {0} /\ m = n - 1 /\ m # 0
      BY <1>3, <3>2, <3>3
    <3>5. m \in 1..(n - 1)
      BY <3>4
    <3> QED
      BY <3>3, <3>5
  <2>2. replies'[w][Len(replies'[w])] = replies[w][Len(replies[w])]
    BY <1>3, <2>1
  <2> QED
    BY <1>1, <2>2 DEF RepliesInv
<1>5. joining'[w] # 0 => replies'[w] # <<>>
  <2>1. CASE Head(replies[w]).type = "chan"
    <3>1. Len(replies[w]) # 1
      BY <1>1, <1>3, <2>1 DEF RepliesInv
    <3>2. SUFFICES ASSUME replies'[w] = <<>> PROVE FALSE
      OBVIOUS
    <3>3. Len(replies'[w]) = 0
      BY <3>2
    <3>4. PICK n : n = Len(replies[w])
      OBVIOUS
    <3>5. n \in Nat /\ n # 1 /\ n - 1 = 0
      BY <1>3, <3>1, <3>3, <3>4
    <3> QED
      BY <3>5
  <2> QED
    BY <2>1
<1> QED
  BY <1>2, <1>4, <1>5 DEF RepliesInv

-----------------------------------------------------------------------------
(* The channel of the session.                                             *)

LEMMA AfterLonger ==
  ASSUME NEW q \in Seq(Request), NEW p \in Seq(Request), NEW first, NEW c,
         NEW m \in 0..Len(q), After(q, first, m, c)
  PROVE  After(q \o p, first, m, c)
<1>1. \A k \in 1..Len(q) : (q \o p)[k] = q[k]
  BY Joined
<1>2. \A k \in 1..m : (q \o p)[k] = q[k]
  BY <1>1
<1>3. PICK l : l = q \o p
  OBVIOUS
<1>4. \A k \in 1..m : l[k] = q[k]
  BY <1>2, <1>3
<1>5. CASE first = c /\ \A k \in 1..m : q[k].type # "join"
  BY <1>3, <1>4, <1>5 DEF After
<1>6. ASSUME NEW k \in 1..m, q[k].type = "join", q[k].id = c,
             \A j \in (k + 1)..m : q[j].type # "join"
      PROVE  After(l, first, m, c)
  <2>1. \A j \in (k + 1)..m : l[j].type # "join"
    BY <1>4, <1>6
  <2>2. l[k].type = "join" /\ l[k].id = c
    BY <1>4, <1>6
  <2> QED
    BY <2>1, <2>2 DEF After
<1> QED
  BY <1>3, <1>5, <1>6 DEF After

LEMMA AfterQuiet ==
  ASSUME NEW q \in Seq(Request), NEW first, NEW c, NEW m \in 0..Len(q),
         NEW l \in m..Len(q), After(q, first, m, c),
         \A k \in (m + 1)..l : q[k].type # "join"
  PROVE  After(q, first, l, c)
<1>1. CASE first = c /\ \A k \in 1..m : q[k].type # "join"
  <2>1. \A k \in 1..l : q[k].type # "join"
    BY <1>1
  <2> QED
    BY <1>1, <2>1 DEF After
<1>2. ASSUME NEW k \in 1..m, q[k].type = "join", q[k].id = c,
             \A j \in (k + 1)..m : q[j].type # "join"
      PROVE  After(q, first, l, c)
  <2>1. \A j \in (k + 1)..l : q[j].type # "join"
    BY <1>2
  <2>2. k \in 1..l
    OBVIOUS
  <2> QED
    BY <1>2, <2>1, <2>2 DEF After
<1> QED
  BY <1>1, <1>2 DEF After

LEMMA AfterHead ==
  ASSUME NEW q \in Seq(Request), q # <<>>, NEW first, NEW next, NEW c,
         NEW m \in 1..Len(q), After(q, first, m, c),
         next = IF Head(q).type = "join" THEN Head(q).id ELSE first
  PROVE  After(Tail(q), next, m - 1, c)
<1>1. PICK t : t = Tail(q)
  OBVIOUS
<1>2. /\ Head(q) = q[1]
      /\ Len(q) \in Nat /\ \A k \in 1..(Len(q) - 1) : t[k] = q[k + 1]
  BY <1>1, HeadOf
<1>3. \A k \in 1..(m - 1) : t[k] = q[k + 1]
  BY <1>2
<1>4. CASE first = c /\ \A k \in 1..m : q[k].type # "join"
  <2>1. q[1].type # "join"
    BY <1>4
  <2>2. next = c
    BY <1>2, <1>4, <2>1
  <2>3. \A k \in 1..(m - 1) : t[k].type # "join"
    BY <1>3, <1>4
  <2> QED
    BY <1>1, <2>2, <2>3 DEF After
<1>5. ASSUME NEW k \in 1..m, q[k].type = "join", q[k].id = c,
             \A j \in (k + 1)..m : q[j].type # "join"
      PROVE  After(t, next, m - 1, c)
  <2>1. \A j \in k..(m - 1) : t[j].type # "join"
    <3>1. ASSUME NEW j \in k..(m - 1) PROVE t[j].type # "join"
      <4>1. j \in 1..(m - 1) /\ j + 1 \in (k + 1)..m
        OBVIOUS
      <4> QED
        BY <1>3, <1>5, <4>1
    <3> QED
      BY <3>1
  <2>2. CASE k = 1
    <3>1. next = c
      BY <1>2, <1>5, <2>2
    <3> QED
      BY <2>1, <2>2, <3>1 DEF After
  <2>3. CASE k # 1
    <3>1. PICK j : j = k - 1
      OBVIOUS
    <3>2. j \in 1..(m - 1) /\ j + 1 = k
      BY <2>3, <3>1
    <3>3. t[j].type = "join" /\ t[j].id = c
      BY <1>3, <1>5, <3>2
    <3>4. \A h \in (j + 1)..(m - 1) : t[h].type # "join"
      BY <2>1, <3>2
    <3> QED
      BY <3>2, <3>3, <3>4 DEF After
  <2> QED
    BY <2>2, <2>3
<1> QED
  BY <1>1, <1>4, <1>5 DEF After

ListSame(w) == slot'[w] = slot[w] /\ count'[w] = count[w] /\ active'[w] = active[w]

LEMMA LinesSame ==
  ASSUME NEW w \in Window, LinesInv(w), ListSame(w),
         requests'[w] = requests[w], channel'[w] = channel[w], steady'[w] = steady[w]
  PROVE  LinesInv(w)'
BY DEF LinesInv, ListSame, Reached, Shown

(* The list changes, but neither requests nor the session's channel do.    *)
LEMMA LinesListed ==
  ASSUME TypeOK, TypeOK', NEW w \in Window, LinesInv(w), KeepShown(w),
         requests'[w] = requests[w], channel'[w] = channel[w],
         \A i \in 1..count'[w] : slot'[w][i].id # 0
  PROVE  LinesInv(w)'
<1>1. ASSUME steady'[w], count'[w] > 0
      PROVE  Reached(w, Len(requests[w]), Shown(w))'
  <2>1. steady[w] /\ Shown(w)' = Shown(w)
    BY <1>1 DEF KeepShown, TypeOK
  <2>2. count'[w] \in Nat /\ active'[w] \in Nat \ {0}
        /\ (active'[w] <= count'[w] \/ active'[w] = 1)
    BY DEF TypeOK, Slots
  <2>3. active'[w] \in 1..count'[w]
    BY <1>1, <2>2
  <2>4. Shown(w)' # 0
    BY <1>1, <2>3 DEF Shown
  <2>5. count[w] > 0
    BY <2>1, <2>4 DEF Shown, TypeOK
  <2> QED
    BY <2>1, <2>5 DEF LinesInv, Reached
<1> QED
  BY <1>1 DEF LinesInv, Reached

LEMMA LinesServed ==
  ASSUME TypeOK, NEW w \in Window, LinesInv(w), ListSame(w), NEW packets, Served(w, packets),
         channel'[w] = IF Head(requests[w]).type = "join" THEN Head(requests[w]).id
                                                          ELSE channel[w],
         steady'[w] = steady[w]
  PROVE  LinesInv(w)'
<1>1. PICK q \in Seq(Request) : q = requests[w] /\ q # <<>>
  BY QueuesAre DEF Served
<1>2. PICK t \in Seq(Request) : t = Tail(q)
  BY <1>1, HeadOf
<1>3. requests'[w] = t
  BY <1>1, <1>2 DEF Served
<1>4. PICK n \in Nat \ {0} : n = Len(q)
  BY <1>1, HeadOf
<1>5. Len(t) = n - 1 /\ \A k \in 1..(n - 1) : t[k] = q[k + 1]
  BY <1>1, <1>2, <1>4, HeadOf
<1>6. ASSUME NEW m \in 1..n, NEW c, Reached(w, m, c)
      PROVE  After(t, channel'[w], m - 1, c)
  <2>1. After(q, channel[w], m, c) /\ m \in 1..Len(q)
    BY <1>1, <1>4, <1>6 DEF Reached
  <2>2. channel'[w] = IF Head(q).type = "join" THEN Head(q).id ELSE channel[w]
    BY <1>1
  <2> QED
    BY <1>1, <1>2, <2>1, <2>2, AfterHead
<1>7. ASSUME NEW k \in 1..Len(t), t[k].type = "line", t[k].id # 0
      PROVE  After(t, channel'[w], k - 1, t[k].id)
  <2>1. k + 1 \in 1..n /\ t[k] = q[k + 1] /\ k \in 1..n
    BY <1>5
  <2>2. Reached(w, (k + 1) - 1, q[k + 1].id)
    BY <1>1, <1>4, <1>7, <2>1 DEF LinesInv
  <2>3. (k + 1) - 1 = k
    BY <2>1
  <2> QED
    BY <1>6, <2>1, <2>2, <2>3
<1>8. ASSUME steady[w], count[w] > 0 PROVE After(t, channel'[w], Len(t), Shown(w))
  <2>1. Reached(w, n, Shown(w)) /\ n \in 1..n
    BY <1>1, <1>4, <1>8 DEF LinesInv
  <2> QED
    BY <1>5, <1>6, <2>1
<1>9. Shown(w)' = Shown(w)
  BY DEF Shown, ListSame
<1> QED
  BY <1>3, <1>7, <1>8, <1>9 DEF LinesInv, ListSame, Reached

(* Requests are sent that move the session nowhere.                        *)
LEMMA LinesSent ==
  ASSUME TypeOK, NEW w \in Window, LinesInv(w), ListSame(w),
         NEW packets \in Seq(Request), Sent(w, packets),
         channel'[w] = channel[w], steady'[w] = steady[w],
         \A request \in Within(packets) :
           /\ request.type # "join"
           /\ request.type = "line" /\ request.id # 0
                => steady[w] /\ count[w] > 0 /\ request.id = Shown(w)
  PROVE  LinesInv(w)'
<1>1. PICK q \in Seq(Request) : q = requests[w]
  BY QueuesAre
<1>2. PICK l \in Seq(Request) : l = q \o packets
  BY Joined
<1>3. requests'[w] = l
  BY <1>1, <1>2 DEF Sent
<1>4. PICK n \in Nat, m \in Nat : n = Len(q) /\ m = Len(packets)
  BY Joined
<1>5. /\ Len(l) = n + m
      /\ \A k \in 1..n : l[k] = q[k]
      /\ \A k \in (n + 1)..(n + m) : l[k] = packets[k - n]
  BY <1>2, <1>4, Joined
<1>6. ASSUME NEW k \in (n + 1)..(n + m) PROVE l[k] \in Within(packets)
  <2>1. k - n \in 1..Len(packets) /\ l[k] = packets[k - n]
    BY <1>4, <1>5
  <2> QED
    BY <2>1, Zenon DEF Within
<1>7. ASSUME NEW k \in 0..n, NEW c, Reached(w, k, c) PROVE After(l, channel[w], k, c)
  <2>1. After(q, channel[w], k, c) /\ k \in 0..Len(q)
    BY <1>1, <1>4, <1>7 DEF Reached
  <2> QED
    BY <1>2, <2>1, AfterLonger
<1>8. ASSUME NEW k \in n..(n + m), steady[w], count[w] > 0
      PROVE  After(l, channel[w], k, Shown(w))
  <2>1. Reached(w, n, Shown(w))
    BY <1>1, <1>4, <1>8 DEF LinesInv
  <2>2. After(l, channel[w], n, Shown(w))
    BY <1>7, <2>1
  <2>3. \A j \in (n + 1)..k : l[j].type # "join"
    <3>1. ASSUME NEW j \in (n + 1)..k PROVE l[j].type # "join"
      <4>1. j \in (n + 1)..(n + m)
        OBVIOUS
      <4> QED
        BY <1>6, <4>1
    <3> QED
      BY <3>1
  <2>4. n \in 0..Len(l) /\ k \in n..Len(l)
    BY <1>5
  <2> QED
    BY <2>2, <2>3, <2>4, AfterQuiet
<1>9. ASSUME NEW k \in 1..Len(l), l[k].type = "line", l[k].id # 0
      PROVE  After(l, channel[w], k - 1, l[k].id)
  <2>1. CASE k <= n
    <3>1. k \in 1..n /\ l[k] = q[k] /\ k - 1 \in 0..n
      BY <1>5, <2>1
    <3>2. Reached(w, k - 1, q[k].id)
      BY <1>1, <1>4, <1>9, <3>1 DEF LinesInv
    <3> QED
      BY <1>7, <3>1, <3>2
  <2>2. CASE k > n
    <3>1. k \in (n + 1)..(n + m) /\ k - 1 \in n..(n + m)
      BY <1>5, <2>2
    <3>2. steady[w] /\ count[w] > 0 /\ l[k].id = Shown(w)
      BY <1>6, <1>9, <3>1
    <3> QED
      BY <1>8, <3>1, <3>2
  <2> QED
    BY <1>5, <2>1, <2>2
<1>10. Shown(w)' = Shown(w)
  BY DEF Shown, ListSame
<1>11. ASSUME steady[w], count[w] > 0 PROVE After(l, channel[w], Len(l), Shown(w))
  BY <1>5, <1>8, <1>11
<1> QED
  BY <1>3, <1>9, <1>10, <1>11 DEF LinesInv, ListSame, Reached

(* The session is moved, to what is shown if the window is steady then.    *)
LEMMA LinesMoved ==
  ASSUME TypeOK, NEW w \in Window, LinesInv(w), NEW c \in Nat,
         Sent(w, <<Join(c), Other>>), channel'[w] = channel[w],
         slot'[w] = slot[w], count'[w] = count[w],
         steady'[w] /\ count[w] > 0 => Shown(w)' = c
  PROVE  LinesInv(w)'
<1> DEFINE packets == <<Join(c), Other>>
<1>0. /\ packets \in Seq(Request) /\ Len(packets) = 2
      /\ packets[1].type = "join" /\ packets[1].id = c /\ packets[2].type = "other"
  BY Requests DEF Join, Other
<1>1. PICK q \in Seq(Request) : q = requests[w]
  BY QueuesAre
<1> HIDE DEF packets
<1>2. PICK l \in Seq(Request) : l = q \o packets
  BY <1>0, Joined
<1>3. requests'[w] = l
  BY <1>1, <1>2 DEF Sent, packets
<1>4. PICK n \in Nat : n = Len(q)
  BY <1>0, Joined
<1>5. /\ Len(l) = n + 2
      /\ \A k \in 1..n : l[k] = q[k]
      /\ \A k \in (n + 1)..(n + 2) : l[k] = packets[k - n]
  <2>1. PICK p \in Seq(Request) : p = packets
    BY <1>0
  <2>2. /\ Len(l) = n + Len(p)
        /\ \A k \in 1..n : l[k] = q[k]
        /\ \A k \in (n + 1)..(n + Len(p)) : l[k] = p[k - n]
    BY <1>2, <1>4, <2>1, Joined
  <2>3. Len(p) = 2
    BY <1>0, <2>1
  <2> QED
    BY <2>1, <2>2, <2>3
<1>6. l[n + 1] = packets[1] /\ l[n + 2] = packets[2]
  <2>1. /\ n + 1 \in (n + 1)..(n + 2) /\ n + 2 \in (n + 1)..(n + 2)
        /\ n + 1 - n = 1 /\ n + 2 - n = 2
    OBVIOUS
  <2> QED
    BY <1>5, <2>1
<1>7. After(l, channel[w], n + 2, c)
  <2>1. \A j \in (n + 2)..(n + 2) : l[j].type # "join"
    BY <1>0, <1>6
  <2>2. n + 1 \in 1..(n + 2) /\ (n + 1) + 1 = n + 2
    OBVIOUS
  <2>3. l[n + 1].type = "join" /\ l[n + 1].id = c
    BY <1>0, <1>6
  <2> QED
    BY <2>1, <2>2, <2>3 DEF After
<1>8. ASSUME NEW k \in 1..Len(l), l[k].type = "line", l[k].id # 0
      PROVE  After(l, channel[w], k - 1, l[k].id)
  <2>1. k \in 1..n \/ k = n + 1 \/ k = n + 2
    BY <1>5
  <2>2. k \in 1..n /\ l[k] = q[k] /\ k - 1 \in 0..Len(q)
    BY <1>0, <1>4, <1>5, <1>6, <1>8, <2>1
  <2>3. After(q, channel[w], k - 1, q[k].id)
    BY <1>1, <1>4, <1>8, <2>2 DEF LinesInv, Reached
  <2> QED
    BY <1>0, <1>2, <2>2, <2>3, AfterLonger
<1> QED
  BY <1>3, <1>5, <1>7, <1>8 DEF LinesInv, Reached

-----------------------------------------------------------------------------
(* A step of another window.                                               *)

Same(w) ==
  /\ ListSame(w)
  /\ screen'[w] = screen[w] /\ result'[w] = result[w] /\ authDone'[w] = authDone[w]
  /\ userId'[w] = userId[w] /\ alone'[w] = alone[w] /\ joining'[w] = joining[w]
  /\ create'[w] = create[w] /\ delete'[w] = delete[w] /\ ui'[w] = ui[w]
  /\ requests'[w] = requests[w] /\ replies'[w] = replies[w]
  /\ user'[w] = user[w] /\ channel'[w] = channel[w]
  /\ made'[w] = made[w] /\ orderly'[w] = orderly[w] /\ steady'[w] = steady[w]

LEMMA OthersSame ==
  ASSUME TypeOK, NEW v \in Window, NEW w \in Window, v # w,
         UserClicks(v) \/ UIThread(v) \/ ServerThread(v) \/ Listener(v)
  PROVE  Same(w)
<1> USE DEF TypeOK, Same, ListSame, storeVars, authVars, flagVars, listVars, queueVars,
            serverVars, clientVars, ghostVars
<1>1. CASE SubmitAuth(v) \/ Logout(v) \/ TypeLine(v) \/ ClickOther(v)
  BY <1>1 DEF SubmitAuth, Logout, TypeLine, ClickOther, AskAlone, AskMeanwhile, Transmit
<1>2. CASE ClickCreate(v)
  BY <1>2 DEF ClickCreate, AskAlone, Transmit
<1>3. CASE ClickDelete(v)
  BY <1>3 DEF ClickDelete, AskAlone, Transmit
<1>4. CASE SelectChannel(v)
  <2>1. PICK i, packets :
          /\ active' = [active EXCEPT ![v] = i]
          /\ Transmit(v, packets) /\ AskMeanwhile(v)
          /\ steady' = [steady EXCEPT ![v] = TRUE]
    BY <1>4 DEF SelectChannel
  <2>2. /\ active'[w] = active[w] /\ steady'[w] = steady[w] /\ orderly'[w] = orderly[w]
        /\ requests'[w] = requests[w] /\ replies'[w] = replies[w]
    BY <2>1 DEF Transmit, AskMeanwhile
  <2> QED
    BY <1>4, <2>2 DEF SelectChannel
<1>5. CASE UIThread(v)
  BY <1>5 DEF UIThread, PollEnds, EnterChat, BackToAuth, ArmCreate, ArmDelete, Transmit
<1>6. CASE ServerThread(v)
  <2>1. /\ UNCHANGED <<clientVars>>
        /\ requests'[w] = requests[w] /\ replies'[w] = replies[w]
    BY <1>6 DEF ServerThread, HandleAuth, HandleList, HandleCreate, HandleDelete,
         HandleJoin, HandleLine, HandleOther, Answers
  <2>2. user'[w] = user[w]
    BY <1>6 DEF ServerThread, HandleAuth, HandleList, HandleCreate, HandleDelete,
         HandleJoin, HandleLine, HandleOther
  <2>3. channel'[w] = channel[w]
    BY <1>6 DEF ServerThread, HandleAuth, HandleList, HandleCreate, HandleDelete,
         HandleJoin, HandleLine, HandleOther
  <2>4. made'[w] = made[w]
    BY <1>6 DEF ServerThread, HandleAuth, HandleList, HandleCreate, HandleDelete,
         HandleJoin, HandleLine, HandleOther
  <2> QED
    BY <2>1, <2>2, <2>3, <2>4
<1>7. CASE ReceiveAuth(v) \/ IgnoreReply(v) \/ JoinFirst(v)
  BY <1>7 DEF ReceiveAuth, IgnoreReply, JoinFirst, Transmit, Receives
<1>8. CASE AckCreate(v)
  <2>1. UNCHANGED <<screen, result, authDone, userId, joining, delete, active, ui,
                    requests, user, channel, alone>>
    BY <1>8 DEF AckCreate
  <2>2. /\ replies'[w] = replies[w] /\ orderly'[w] = orderly[w]
        /\ create'[w] = create[w] /\ steady'[w] = steady[w]
    BY <1>8 DEF AckCreate, Receives, KeepShown
  <2>3. slot'[w] = slot[w] /\ count'[w] = count[w] /\ made'[w] = made[w]
    BY <1>8 DEF AckCreate, Add
  <2> QED
    BY <2>1, <2>2, <2>3
<1>9. CASE AckDelete(v)
  <2>1. UNCHANGED <<screen, result, authDone, userId, joining, create, ui,
                    requests, user, channel, made, alone>>
    BY <1>9 DEF AckDelete
  <2>2. /\ replies'[w] = replies[w] /\ orderly'[w] = orderly[w]
        /\ delete'[w] = delete[w] /\ steady'[w] = steady[w]
    BY <1>9 DEF AckDelete, Receives, KeepShown
  <2>3. slot'[w] = slot[w] /\ count'[w] = count[w] /\ active'[w] = active[w]
    BY <1>9 DEF AckDelete, RemoveId, RemoveAt
  <2> QED
    BY <2>1, <2>2, <2>3
<1>10. CASE ReceiveChan(v)
  <2>1. UNCHANGED <<screen, result, authDone, userId, create, delete, active, ui,
                    requests, user, channel, made, alone>>
    BY <1>10 DEF ReceiveChan
  <2>2. /\ replies'[w] = replies[w] /\ orderly'[w] = orderly[w]
        /\ steady'[w] = steady[w]
    BY <1>10 DEF ReceiveChan, Receives, KeepShown
  <2>3. slot'[w] = slot[w] /\ count'[w] = count[w] /\ joining'[w] = joining[w]
    BY <1>10 DEF ReceiveChan, AddChan, Add
  <2> QED
    BY <2>1, <2>2, <2>3
<1> QED
  BY <1>1, <1>2, <1>3, <1>4, <1>5, <1>6, <1>7, <1>8, <1>9, <1>10
     DEF UserClicks, Listener

LEMMA UIKinds ==
  ASSUME TypeOK, NEW w \in Window
  PROVE  /\ ui[w] = Idle \/ ui[w].at \in {"create", "delete"}
         /\ Idle.at = "idle"
         /\ ui[w].at = "create" => ui[w].name \in Name /\ ui[w].private \in BOOLEAN
         /\ ui[w].at = "delete" => ui[w].slot \in Slots
<1>1. \/ ui[w] = Idle
      \/ ui[w] \in [at : {"create"}, name : Name, private : BOOLEAN]
      \/ ui[w] \in [at : {"delete"}, slot : Slots]
  BY DEF TypeOK, Arming
<1> QED
  BY <1>1 DEF Idle

LEMMA NewIds ==
  ASSUME StoreGrows, NEW c, c \in Ids(channels')
  PROVE  c \in Ids(channels) \/ c = nextChannel
BY DEF StoreGrows, Ids

LEMMA SameKeeps ==
  ASSUME TypeOK, StoreInv, StoreGrows, NEW w \in Window, Same(w), WindowInv(w)
  PROVE  WindowInv(w)'
<1> USE DEF Same, ListSame
<1>0. nextChannel \in Nat /\ nextChannel' \in Nat /\ nextChannel <= nextChannel'
  BY DEF TypeOK, StoreTypeOK, StoreGrows
<1>1. RepliesInv(w)'
  BY RepliesSame DEF WindowInv
<1>2. NobodyInv(w)'
  BY DEF WindowInv, NobodyInv
<1>3. LoginInv(w)'
  BY DEF WindowInv, LoginInv, Submitted, Expecting, Unanswered, Asked, Answered
<1>4. CreateInv(w)'
  <2>1. /\ Creating(w)' = Creating(w) /\ NotedName(w)' = NotedName(w) /\ NotedLock(w)' = NotedLock(w)
        /\ \A n : Known(w, n)' = Known(w, n)
    BY DEF Creating, NotedName, NotedLock, Known, Holds
  <2>2. ASSUME NEW n \in 1..(nextChannel - 1), Created(w, n)
        PROVE  n \in 1..(nextChannel' - 1) /\ Created(w, n)'
    <3>1. n \in 1..(nextChannel' - 1)
      BY <1>0
    <3> QED
      BY <2>1, <2>2, <3>1, ShowsStays DEF Created, Answered
  <2>3. \A request : Asked(w, request)' = Asked(w, request) /\ Answered(w, request)' = Answered(w, request)
    BY DEF Asked, Answered
  <2>5. Asking(w)' = Asking(w)
    BY <2>1, <2>3 DEF Asking
  <2> HIDE DEF Same
  <2>4. /\ orderly'[w] = orderly[w] /\ joining'[w] = joining[w] /\ authDone'[w] = authDone[w]
        /\ delete'[w] = delete[w] /\ create'[w] = create[w] /\ ui'[w] = ui[w]
        /\ requests'[w] = requests[w]
    BY DEF Same
  <2> QED
    BY <2>1, <2>2, <2>3, <2>4, <2>5 DEF WindowInv, CreateInv
<1>5. DeleteInv(w)'
  <2>1. Deleting(w)' = Deleting(w) /\ Target(w)' = Target(w)
    BY DEF Deleting, Target
  <2>2. ASSUME Target(w) < nextChannel, Target(w) \notin Ids(channels)
        PROVE  Target(w) \notin Ids(channels')
    BY <1>0, <2>2, NewIds
  <2>3. Target(w) \in Nat => (Target(w) < nextChannel => Target(w) < nextChannel')
    BY <1>0
  <2>4. Deleting(w) => Target(w) \in Nat
    <3>1. CASE delete[w].set
      BY <3>1 DEF Target, TypeOK
    <3>2. CASE ui[w].at = "delete" /\ ~delete[w].set
      <4>1. ui[w].slot \in Slots
        BY <3>2, UIKinds
      <4>2. slot[w] \in [Slots -> Entry]
        BY DEF TypeOK
      <4> QED
        BY <3>2, <4>1, <4>2 DEF Target, Entry
    <3> QED
      BY <3>1, <3>2 DEF Deleting
  <2> QED
    BY <2>1, <2>2, <2>3, <2>4 DEF WindowInv, DeleteInv, Asked, Answered
<1>6. ListInv(w)'
  <2>1. \A c \in made'[w] : c \in Nat /\ c < nextChannel /\ c < nextChannel'
    BY <1>0 DEF WindowInv, ListInv, TypeOK
  <2>2. /\ Creating(w)' = Creating(w)
        /\ \A n : Known(w, n)' = Known(w, n) /\ Answered(w, Ok(n))' = Answered(w, Ok(n))
    BY DEF Creating, Known, Holds, Answered, Ok
  <2>3. \A c \in made'[w] \cap Ids(channels') : c \in made[w] \cap Ids(channels)
    BY <1>0, <2>1, NewIds
  <2>4. ASSUME orderly[w], NEW i \in 1..count[w]
        PROVE  Shows(slot[w][i].id, slot[w][i].name, slot[w][i].private)'
    BY <2>4, ShowsStays DEF WindowInv, ListInv
  <2> QED
    BY <2>1, <2>2, <2>3, <2>4 DEF WindowInv, ListInv
<1>7. LinesInv(w)'
  BY LinesSame DEF WindowInv
<1> QED
  BY <1>1, <1>2, <1>3, <1>4, <1>5, <1>6, <1>7 DEF WindowInv

-----------------------------------------------------------------------------
(* The steps of a window and of its server thread.                         *)

StoreSame == UNCHANGED <<channels, nextChannel, rowsEver>>

AuthSame(w) ==
  /\ screen'[w] = screen[w] /\ result'[w] = result[w]
  /\ authDone'[w] = authDone[w] /\ userId'[w] = userId[w]
  /\ alone'[w] = alone[w]

FlagsSame(w) ==
  /\ joining'[w] = joining[w] /\ ui'[w] = ui[w]
  /\ create'[w] = create[w] /\ delete'[w] = delete[w]

SessionSame(w) ==
  user'[w] = user[w] /\ channel'[w] = channel[w] /\ made'[w] = made[w]

Busy(w) == Creating(w) \/ Deleting(w)

LEMMA NotBusy ==
  ASSUME TypeOK, NEW w \in Window
  PROVE  /\ ui[w] = Idle /\ ~Expecting(w) => ~Busy(w)
         /\ ~Busy(w) => ui[w] = Idle /\ ~Expecting(w)
BY UIKinds DEF Busy, Creating, Deleting, Expecting

LEMMA IdleFlags ==
  ASSUME NEW w \in Window,
         orderly'[w] => /\ ~Busy(w)'
                        /\ \A request \in Within(requests'[w]) : request.type # "create"
  PROVE  CreateInv(w)' /\ DeleteInv(w)'
BY DEF CreateInv, DeleteInv, Busy

LEMMA IdleList ==
  ASSUME NEW w \in Window, ListInv(w), StoreSame,
         slot'[w] = slot[w], count'[w] = count[w], made'[w] = made[w],
         orderly'[w] => orderly[w] /\ ~Busy(w)
  PROVE  ListInv(w)'
<1>1. /\ \A c : Known(w, c)' = Known(w, c)
      /\ \A id, name, private : Shows(id, name, private)' = Shows(id, name, private)
  BY ShowsSame DEF Known, Holds, StoreSame
<1>2. channels' = channels /\ nextChannel' = nextChannel
  BY DEF StoreSame
<1>3. orderly[w] /\ ~Busy(w) => \A c \in made[w] \cap Ids(channels) : Known(w, c)
  BY DEF ListInv, Busy
<1> QED
  BY <1>1, <1>2, <1>3 DEF ListInv

(* No creation is under way where none was asked for.                      *)
LEMMA QuietRequests ==
  ASSUME NEW w \in Window, CreateInv(w), orderly[w], ~Busy(w)
  PROVE  \A request \in Within(requests[w]) : request.type # "create"
BY DEF CreateInv, Busy

LEMMA StoreSameGrows ==
  ASSUME TypeOK, StoreSame
  PROVE  StoreGrows
BY DEF StoreSame, StoreGrows, TypeOK, StoreTypeOK

(* A click that sends what is answered in passing.                         *)
LEMMA MeanwhileKeeps ==
  ASSUME TypeOK, NEW w \in Window, WindowInv(w), StoreSame,
         NEW packets \in Seq(Request), Sent(w, packets),
         \A request \in Within(packets) : request.type \in {"join", "line", "other"},
         screen[w] = "chat", ui[w] = Idle, AuthSame(w), FlagsSame(w), SessionSame(w),
         slot'[w] = slot[w], count'[w] = count[w],
         orderly'[w] = (orderly[w] /\ ~Expecting(w))
  PROVE  /\ RepliesInv(w)' /\ NobodyInv(w)' /\ LoginInv(w)' /\ CreateInv(w)'
         /\ DeleteInv(w)' /\ ListInv(w)'
<1> USE DEF AuthSame, FlagsSame, SessionSame
<1>1. RepliesInv(w)'
  BY RepliesSame, StoreSameGrows DEF WindowInv, Sent
<1>2. user'[w] # Nobody
  BY DEF WindowInv, NobodyInv
<1>3. NobodyInv(w)'
  BY <1>2 DEF NobodyInv
<1>4. Within(requests'[w]) = Within(requests[w]) \cup Within(packets)
  BY SentWithin
<1>5. LoginInv(w)'
  BY <1>4 DEF WindowInv, LoginInv, Submitted
<1>6. orderly'[w] => /\ orderly[w] /\ ~Busy(w) /\ ~Busy(w)'
                     /\ \A request \in Within(requests'[w]) : request.type # "create"
  <2>1. orderly'[w] => orderly[w] /\ ~Busy(w)
    BY NotBusy
  <2>2. ~Busy(w) => ~Busy(w)'
    BY DEF Busy, Creating, Deleting
  <2> QED
    BY <1>4, <2>1, <2>2, QuietRequests DEF WindowInv
<1>7. CreateInv(w)' /\ DeleteInv(w)'
  BY <1>6, IdleFlags
<1>8. ListInv(w)'
  BY <1>6, IdleList DEF WindowInv
<1> QED
  BY <1>1, <1>3, <1>5, <1>7, <1>8

LEMMA ClickOtherKeeps ==
  ASSUME TypeOK, NEW w \in Window, WindowInv(w), ClickOther(w)
  PROVE  WindowInv(w)'
<1>1. <<Other>> \in Seq(Request) /\ Within(<<Other>>) = {Other}
  BY Requests, WithinShort
<1>2. Sent(w, <<Other>>)
  BY SentIs DEF ClickOther
<1>3. /\ screen[w] = "chat" /\ ui[w] = Idle /\ AuthSame(w) /\ FlagsSame(w) /\ SessionSame(w)
      /\ ListSame(w) /\ StoreSame /\ steady'[w] = steady[w]
      /\ orderly'[w] = (orderly[w] /\ ~Expecting(w))
  BY DEF ClickOther, Click, AskMeanwhile, TypeOK, storeVars, authVars, flagVars, listVars,
     serverVars, AuthSame, FlagsSame, SessionSame, ListSame, StoreSame
<1>4. Other.type = "other"
  BY DEF Other
<1>5. LinesInv(w)'
  BY <1>1, <1>2, <1>3, <1>4, LinesSent DEF WindowInv, SessionSame
<1> QED
  BY <1>1, <1>2, <1>3, <1>4, <1>5, MeanwhileKeeps DEF WindowInv, ListSame

LEMMA TypeLineKeeps ==
  ASSUME TypeOK, NEW w \in Window, WindowInv(w), TypeLine(w)
  PROVE  WindowInv(w)'
<1> DEFINE c == IF steady[w] THEN Shown(w) ELSE 0
<1>1. <<Line(c)>> \in Seq(Request) /\ Within(<<Line(c)>>) = {Line(c)}
  <2>1. c \in Nat
    BY DEF Shown, TypeOK, Entry
  <2> HIDE DEF c
  <2> QED
    BY <2>1, Requests, WithinShort
<1>2. Sent(w, <<Line(c)>>)
  BY SentIs DEF TypeLine
<1>3. /\ screen[w] = "chat" /\ ui[w] = Idle /\ AuthSame(w) /\ FlagsSame(w) /\ SessionSame(w)
      /\ ListSame(w) /\ StoreSame /\ steady'[w] = steady[w]
      /\ orderly'[w] = (orderly[w] /\ ~Expecting(w)) /\ count[w] > 0
  BY DEF TypeLine, Click, AskMeanwhile, TypeOK, storeVars, authVars, flagVars, listVars,
     serverVars, AuthSame, FlagsSame, SessionSame, ListSame, StoreSame
<1>4. Line(c).type = "line" /\ Line(c).id = c
  BY DEF Line
<1>5. c # 0 => steady[w] /\ count[w] > 0 /\ c = Shown(w)
  BY <1>3
<1> HIDE DEF c
<1>6. LinesInv(w)'
  BY <1>1, <1>2, <1>3, <1>4, <1>5, LinesSent DEF WindowInv, SessionSame
<1> QED
  BY <1>1, <1>2, <1>3, <1>4, <1>6, MeanwhileKeeps DEF WindowInv, ListSame

LEMMA SelectChannelKeeps ==
  ASSUME TypeOK, NEW w \in Window, WindowInv(w), SelectChannel(w)
  PROVE  WindowInv(w)'
<1>1. PICK i \in 1..count[w] : /\ active' = [active EXCEPT ![w] = i]
                               /\ Transmit(w, <<Join(slot[w][i].id), Other>>)
  BY DEF SelectChannel
<1> DEFINE c == slot[w][i].id
<1>2. c \in Nat /\ i \in Nat
  BY Constants DEF TypeOK, Slots, Entry
<1>3. active'[w] = i
  BY <1>1 DEF TypeOK
<1>4. /\ screen[w] = "chat" /\ ui[w] = Idle /\ AuthSame(w) /\ FlagsSame(w) /\ SessionSame(w)
      /\ slot'[w] = slot[w] /\ count'[w] = count[w] /\ StoreSame
      /\ orderly'[w] = (orderly[w] /\ ~Expecting(w))
  BY DEF SelectChannel, Click, AskMeanwhile, TypeOK, storeVars, authVars, flagVars,
     serverVars, AuthSame, FlagsSame, SessionSame, StoreSame
<1>5. count[w] > 0 => Shown(w)' = c
  BY <1>3, <1>4 DEF Shown
<1> HIDE DEF c
<1>6. /\ <<Join(c), Other>> \in Seq(Request) /\ Within(<<Join(c), Other>>) = {Join(c), Other}
      /\ Sent(w, <<Join(c), Other>>)
  BY <1>1, <1>2, Requests, WithinShort, SentIs DEF c
<1>7. Join(c).type = "join" /\ Other.type = "other"
  BY DEF Join, Other
<1>8. LinesInv(w)'
  BY <1>2, <1>4, <1>5, <1>6, LinesMoved DEF WindowInv, SessionSame
<1> QED
  BY <1>4, <1>6, <1>7, <1>8, MeanwhileKeeps DEF WindowInv

LEMMA JoinFirstKeeps ==
  ASSUME TypeOK, NEW w \in Window, WindowInv(w), JoinFirst(w)
  PROVE  WindowInv(w)'
<1> DEFINE c == joining[w]
<1>1. c \in Nat /\ c # 0
  BY DEF JoinFirst, TypeOK
<1>2. /\ AuthSame(w) /\ SessionSame(w) /\ ListSame(w) /\ StoreSame
      /\ joining'[w] = 0 /\ ui'[w] = ui[w] /\ create'[w] = create[w] /\ delete'[w] = delete[w]
      /\ orderly'[w] = orderly[w] /\ steady'[w] = (Shown(w) = c)
  BY DEF JoinFirst, TypeOK, storeVars, authVars, listVars, serverVars,
     AuthSame, SessionSame, ListSame, StoreSame
<1> HIDE DEF c
<1>3. /\ <<Join(c), Other>> \in Seq(Request) /\ Within(<<Join(c), Other>>) = {Join(c), Other}
      /\ Sent(w, <<Join(c), Other>>)
  BY <1>1, Requests, WithinShort, SentIs DEF JoinFirst, c
<1>4. Join(c).type = "join" /\ Other.type = "other"
  BY DEF Join, Other
<1>5. Within(requests'[w]) = Within(requests[w]) \cup {Join(c), Other}
  BY <1>3, SentWithin
<1>6. RepliesInv(w)'
  BY <1>2, <1>3, RepliesSame, StoreSameGrows DEF WindowInv, Sent
<1>7. NobodyInv(w)'
  BY <1>1, <1>2 DEF WindowInv, NobodyInv, SessionSame, c
<1>8. LoginInv(w)'
  BY <1>1, <1>2, <1>4, <1>5 DEF WindowInv, LoginInv, Submitted, AuthSame, SessionSame, c
<1>9. orderly[w] => ~Busy(w)
  BY <1>1 DEF WindowInv, CreateInv, DeleteInv, Busy, c
<1>10. Busy(w)' = Busy(w)
  BY <1>2 DEF Busy, Creating, Deleting
<1>11. CreateInv(w)' /\ DeleteInv(w)'
  BY <1>2, <1>4, <1>5, <1>9, <1>10, IdleFlags, QuietRequests DEF WindowInv
<1>12. ListInv(w)'
  BY <1>2, <1>9, IdleList DEF WindowInv, ListSame, SessionSame
<1>13. LinesInv(w)'
  <2>1. Shown(w)' = Shown(w)
    BY <1>2 DEF Shown, ListSame
  <2> QED
    BY <1>1, <1>2, <1>3, <2>1, LinesMoved DEF WindowInv, SessionSame, ListSame
<1> QED
  BY <1>6, <1>7, <1>8, <1>11, <1>12, <1>13 DEF WindowInv

(* What an orderly login, creation or deletion finds.                      *)
LEMMA Alone ==
  ASSUME TypeOK, NEW w \in Window, RepliesInv(w), ui[w] = Idle,
         ~Unanswered(w), ~Expecting(w)
  PROVE  requests[w] = <<>> /\ replies[w] = <<>> /\ joining[w] = 0 /\ ~Busy(w)
BY NotBusy DEF Unanswered, RepliesInv

LEMMA EmptyJoined == \A S : \A p \in Seq(S) : <<>> \o p = p
OBVIOUS

LEMMA SubmitAuthKeeps ==
  ASSUME TypeOK, NEW w \in Window, WindowInv(w), SubmitAuth(w)
  PROVE  WindowInv(w)'
<1>1. PICK u \in User : Transmit(w, <<Auth(u)>>)
  BY DEF SubmitAuth
<1>2. /\ <<Auth(u)>> \in Seq(Request) /\ Within(<<Auth(u)>>) = {Auth(u)}
      /\ Sent(w, <<Auth(u)>>) /\ Auth(u).type = "auth"
  BY <1>1, Requests, WithinShort, SentIs DEF Auth
<1>3. /\ Form(w) /\ ui[w] = Idle /\ FlagsSame(w) /\ SessionSame(w)
      /\ ListSame(w) /\ StoreSame /\ steady'[w] = steady[w]
      /\ screen'[w] = "submitting" /\ result'[w] = "pending" /\ authDone'[w] = FALSE
      /\ alone'[w] = ~Unanswered(w)
      /\ orderly'[w] = (orderly[w] /\ ~Unanswered(w) /\ ~Expecting(w))
  BY DEF SubmitAuth, Click, AskAlone, TypeOK, storeVars, flagVars, listVars,
     serverVars, FlagsSame, SessionSame, ListSame, StoreSame
<1>4. Within(requests'[w]) = Within(requests[w]) \cup {Auth(u)}
  BY <1>2, SentWithin
<1>5. orderly'[w] => /\ orderly[w] /\ alone'[w] /\ ~Expecting(w) /\ ~Busy(w)
  BY <1>3, NotBusy
<1>6. RepliesInv(w)'
  BY <1>2, <1>3, RepliesSame, StoreSameGrows DEF WindowInv, Sent, FlagsSame
<1>7. NobodyInv(w)'
  <2>1. Within(replies'[w]) = Within(replies[w])
    BY <1>2, SentWithin
  <2> QED
    BY <1>2, <1>3, <1>4, <2>1 DEF WindowInv, NobodyInv, FlagsSame, SessionSame
<1>8. LoginInv(w)'
  <2>1. alone'[w] => Asked(w, Auth(u))' /\ joining'[w] = 0
    <3>1. alone'[w] => requests[w] = <<>> /\ replies[w] = <<>> /\ joining[w] = 0
      BY <1>3 DEF Unanswered, WindowInv, RepliesInv
    <3>2. <<>> \o <<Auth(u)>> = <<Auth(u)>>
      BY <1>2, EmptyJoined
    <3> QED
      BY <1>2, <1>3, <3>1, <3>2 DEF Sent, Asked, FlagsSame
  <2>2. ui'[w] = Idle /\ (orderly'[w] => ~Expecting(w)')
    BY <1>3, <1>5 DEF FlagsSame, Expecting
  <2> QED
    BY <1>3, <1>5, <2>1, <2>2 DEF LoginInv
<1>9. Busy(w)' = Busy(w)
  BY <1>3 DEF Busy, Creating, Deleting, FlagsSame
<1>10. CreateInv(w)' /\ DeleteInv(w)'
  BY <1>2, <1>4, <1>5, <1>9, IdleFlags, QuietRequests DEF WindowInv
<1>11. ListInv(w)'
  BY <1>3, <1>5, IdleList DEF WindowInv, ListSame, SessionSame
<1>12. LinesInv(w)'
  BY <1>2, <1>3, LinesSent DEF WindowInv, SessionSame
<1> QED
  BY <1>6, <1>7, <1>8, <1>10, <1>11, <1>12 DEF WindowInv

LEMMA LeaveKeeps ==
  ASSUME TypeOK, NEW w \in Window, WindowInv(w),
         Logout(w) \/ BackToAuth(w) \/ PollEnds(w)
  PROVE  WindowInv(w)'
<1>1. /\ FlagsSame(w) /\ SessionSame(w) /\ ListSame(w) /\ StoreSame
      /\ screen'[w] = "auth" \/ (screen[w] = "submitting" /\ screen'[w] = "waiting")
      /\ result'[w] = result[w] /\ alone'[w] = alone[w]
      /\ authDone'[w] = authDone[w] /\ userId'[w] = userId[w]
      /\ requests'[w] = requests[w] /\ replies'[w] = replies[w]
      /\ orderly'[w] = orderly[w] /\ steady'[w] = steady[w]
  BY DEF Logout, BackToAuth, PollEnds, Click, TypeOK, storeVars, flagVars, listVars, queueVars,
     ghostVars, serverVars, FlagsSame, SessionSame, ListSame, StoreSame
<1>2. RepliesInv(w)'
  BY <1>1, RepliesSame, StoreSameGrows DEF WindowInv, FlagsSame
<1>3. NobodyInv(w)'
  BY <1>1 DEF WindowInv, NobodyInv, SessionSame, FlagsSame
<1>6. LoginInv(w)'
  BY <1>1 DEF WindowInv, LoginInv, SessionSame, FlagsSame, Submitted, Asked, Answered,
       Unanswered, Expecting
<1>4. CreateInv(w)' /\ DeleteInv(w)' /\ ListInv(w)'
  <2>1. /\ Creating(w)' = Creating(w) /\ NotedName(w)' = NotedName(w) /\ NotedLock(w)' = NotedLock(w)
        /\ Deleting(w)' = Deleting(w) /\ Target(w)' = Target(w)
        /\ \A n : Known(w, n)' = Known(w, n)
    BY <1>1 DEF Creating, NotedName, NotedLock, Deleting, Target, Known, Holds, FlagsSame, ListSame
  <2>2. /\ \A r : Asked(w, r)' = Asked(w, r) /\ Answered(w, r)' = Answered(w, r)
        /\ \A id, name, private : Shows(id, name, private)' = Shows(id, name, private)
    BY <1>1, ShowsSame DEF Asked, Answered, StoreSame
  <2>3. /\ \A n : Created(w, n)' = Created(w, n)
        /\ Asking(w)' = Asking(w)
    BY <1>1, <2>1, <2>2 DEF Created, Answered, Ok, Asking, Asked, Create
  <2>4. /\ orderly'[w] = orderly[w] /\ joining'[w] = joining[w] /\ authDone'[w] = authDone[w]
        /\ delete'[w] = delete[w] /\ create'[w] = create[w] /\ ui'[w] = ui[w]
        /\ requests'[w] = requests[w] /\ channels' = channels /\ nextChannel' = nextChannel
        /\ slot'[w] = slot[w] /\ count'[w] = count[w] /\ made'[w] = made[w]
    BY <1>1 DEF FlagsSame, ListSame, StoreSame, SessionSame
  <2>5. CreateInv(w)'
    BY <2>1, <2>2, <2>3, <2>4 DEF WindowInv, CreateInv
  <2>6. DeleteInv(w)'
    BY <2>1, <2>2, <2>4 DEF WindowInv, DeleteInv
  <2>7. ListInv(w)'
    BY <2>1, <2>2, <2>4 DEF WindowInv, ListInv
  <2> QED
    BY <2>5, <2>6, <2>7
<1>5. LinesInv(w)'
  BY <1>1, LinesSame DEF WindowInv, SessionSame
<1> QED
  BY <1>2, <1>3, <1>4, <1>5, <1>6 DEF WindowInv

(* A click that asks for a creation or a deletion.                         *)
LEMMA AskAloneKeeps ==
  ASSUME TypeOK, NEW w \in Window, WindowInv(w), StoreSame, Click(w),
         NEW request \in Request, Sent(w, <<request>>),
         request.type \in {"create", "delete"},
         screen[w] = "chat", AuthSame(w), SessionSame(w), ListSame(w),
         joining'[w] = joining[w], create'[w] = create[w], delete'[w] = delete[w],
         steady'[w] = steady[w],
         orderly'[w] = (orderly[w] /\ ~Unanswered(w) /\ ~Expecting(w))
  PROVE  /\ RepliesInv(w)' /\ NobodyInv(w)' /\ LoginInv(w)' /\ ListInv(w)' /\ LinesInv(w)'
         /\ orderly'[w] =>
              /\ orderly[w] /\ Asked(w, request)' /\ joining'[w] = 0 /\ authDone'[w]
              /\ ~create'[w].set /\ ~delete'[w].set
<1> USE DEF AuthSame, SessionSame
<1>1. <<request>> \in Seq(Request) /\ Within(<<request>>) = {request}
  BY WithinShort
<1>2. ui[w] = Idle
  BY DEF Click
<1>3. Within(requests'[w]) = Within(requests[w]) \cup {request}
  BY <1>1, SentWithin
<1>4. ASSUME orderly'[w]
      PROVE  /\ orderly[w] /\ ~Busy(w) /\ Asked(w, request)' /\ joining'[w] = 0
             /\ authDone'[w] /\ ~create'[w].set /\ ~delete'[w].set
  <2>1. requests[w] = <<>> /\ replies[w] = <<>> /\ joining[w] = 0 /\ ~Busy(w)
    BY <1>2, <1>4, Alone DEF WindowInv
  <2>2. <<>> \o <<request>> = <<request>>
    BY <1>1, EmptyJoined
  <2>3. authDone[w]
    BY <1>4 DEF WindowInv, LoginInv
  <2> QED
    BY <1>4, <2>1, <2>2, <2>3 DEF Sent, Asked, Expecting
<1>5. RepliesInv(w)'
  BY RepliesSame, StoreSameGrows DEF WindowInv, Sent
<1>6. NobodyInv(w)'
  BY DEF WindowInv, NobodyInv
<1>7. LoginInv(w)'
  BY <1>3, <1>4 DEF WindowInv, LoginInv, Submitted
<1>8. ListInv(w)'
  BY <1>4, IdleList DEF WindowInv, ListSame
<1>9. LinesInv(w)'
  BY <1>1, LinesSent DEF WindowInv
<1> QED
  BY <1>4, <1>5, <1>6, <1>7, <1>8, <1>9

LEMMA ClickCreateKeeps ==
  ASSUME TypeOK, NEW w \in Window, WindowInv(w), ClickCreate(w)
  PROVE  WindowInv(w)'
<1>1. PICK name \in Name, private \in BOOLEAN :
        /\ Transmit(w, <<Create(name, private)>>)
        /\ ui' = [ui EXCEPT ![w] = [at |-> "create", name |-> name, private |-> private]]
  BY Constants DEF ClickCreate
<1>2. /\ Create(name, private) \in Request /\ Create(name, private).type = "create"
      /\ <<Create(name, private)>> \in Seq(Request)
  BY Requests DEF Create
<1>3. Sent(w, <<Create(name, private)>>)
  BY <1>1, SentIs
<1>4. ui'[w] = [at |-> "create", name |-> name, private |-> private]
  BY <1>1 DEF TypeOK
<1>5. /\ Click(w) /\ screen[w] = "chat" /\ AuthSame(w) /\ SessionSame(w) /\ ListSame(w)
      /\ StoreSame /\ joining'[w] = joining[w] /\ create'[w] = create[w]
      /\ delete'[w] = delete[w] /\ steady'[w] = steady[w]
      /\ orderly'[w] = (orderly[w] /\ ~Unanswered(w) /\ ~Expecting(w))
  BY DEF ClickCreate, AskAlone, TypeOK, storeVars, authVars, flagVars, listVars,
     serverVars, AuthSame, SessionSame, ListSame, StoreSame
<1>6. /\ RepliesInv(w)' /\ NobodyInv(w)' /\ LoginInv(w)' /\ ListInv(w)' /\ LinesInv(w)'
      /\ orderly'[w] =>
           /\ Asked(w, Create(name, private))' /\ joining'[w] = 0 /\ authDone'[w]
           /\ ~create'[w].set /\ ~delete'[w].set
  BY <1>2, <1>3, <1>5, AskAloneKeeps
<1>7. ui'[w].at = "create" /\ ui'[w].name = name /\ ui'[w].private = private
  BY <1>4
<1>8. CreateInv(w)'
  <2>1. orderly'[w] => Asking(w)'
    BY <1>6, <1>7 DEF Asking, Asked, Create, NotedName, NotedLock
  <2> QED
    BY <1>6, <1>7, <2>1 DEF CreateInv, Creating
<1>9. DeleteInv(w)'
  BY <1>6, <1>7 DEF DeleteInv, Deleting
<1> QED
  BY <1>6, <1>8, <1>9 DEF WindowInv

LEMMA ClickDeleteKeeps ==
  ASSUME TypeOK, StoreInv, NEW w \in Window, WindowInv(w), ClickDelete(w)
  PROVE  WindowInv(w)'
<1>1. PICK i \in 1..count[w] :
        /\ Transmit(w, <<Delete(slot[w][i].id)>>)
        /\ ui' = [ui EXCEPT ![w] = [at |-> "delete", slot |-> i]]
  BY DEF ClickDelete
<1>2. PICK c \in Nat : c = slot[w][i].id
  <2>1. i \in Slots
    BY Constants DEF TypeOK, Slots
  <2> QED
    BY <2>1 DEF TypeOK, Entry
<1>3. ui'[w].at = "delete" /\ ui'[w].slot = i
  BY <1>1 DEF TypeOK
<1>4. orderly[w] => c < nextChannel
  BY <1>2 DEF WindowInv, ListInv, Shows, StoreInv
<1>5. /\ Click(w) /\ screen[w] = "chat" /\ AuthSame(w) /\ SessionSame(w) /\ ListSame(w)
      /\ StoreSame /\ joining'[w] = joining[w] /\ create'[w] = create[w]
      /\ delete'[w] = delete[w] /\ steady'[w] = steady[w]
      /\ orderly'[w] = (orderly[w] /\ ~Unanswered(w) /\ ~Expecting(w))
  BY DEF ClickDelete, AskAlone, TypeOK, storeVars, authVars, flagVars, listVars,
     serverVars, AuthSame, SessionSame, ListSame, StoreSame
<1>6. ~delete'[w].set => Target(w)' = c
  BY <1>2, <1>3, <1>5 DEF Target, ListSame
<1>7. /\ Delete(c) \in Request /\ Delete(c).type = "delete" /\ Delete(c).id = c
      /\ <<Delete(c)>> \in Seq(Request)
  BY <1>2, Requests DEF Delete
<1>8. Sent(w, <<Delete(c)>>)
  BY <1>1, <1>2, SentIs
<1>9. /\ RepliesInv(w)' /\ NobodyInv(w)' /\ LoginInv(w)' /\ ListInv(w)' /\ LinesInv(w)'
      /\ orderly'[w] =>
           /\ orderly[w] /\ Asked(w, Delete(c))' /\ joining'[w] = 0 /\ authDone'[w]
           /\ ~create'[w].set /\ ~delete'[w].set
  BY <1>5, <1>7, <1>8, AskAloneKeeps
<1>10. DeleteInv(w)'
  <2>1. orderly'[w] => Asked(w, Delete(Target(w)))' /\ Target(w)' < nextChannel'
    BY <1>2, <1>4, <1>5, <1>6, <1>9 DEF Asked, StoreSame
  <2> QED
    BY <1>9, <2>1 DEF DeleteInv
<1>11. CreateInv(w)'
  <2>1. orderly'[w] => Within(requests'[w]) = {Delete(c)}
    BY <1>7, <1>9, WithinShort DEF Asked
  <2> QED
    BY <1>3, <1>7, <1>9, <2>1 DEF CreateInv, Creating
<1> QED
  BY <1>9, <1>10, <1>11 DEF WindowInv

LEMMA EnterChatKeeps ==
  ASSUME TypeOK, NEW w \in Window, WindowInv(w), EnterChat(w)
  PROVE  WindowInv(w)'
<1>1. /\ screen[w] = "waiting" /\ result[w] = "ok" /\ screen'[w] = "chat"
      /\ authDone'[w] = authDone[w] /\ userId'[w] = userId[w] /\ ui'[w] = ui[w]
      /\ joining'[w] = joining[w] /\ SessionSame(w) /\ ListSame(w) /\ StoreSame
      /\ alone'[w] = alone[w] /\ orderly'[w] = orderly[w] /\ steady'[w] = steady[w]
  BY DEF EnterChat, TypeOK, storeVars, listVars, serverVars, ghostVars,
     SessionSame, ListSame, StoreSame
<1>2. create'[w].set = FALSE /\ delete'[w].set = FALSE
  BY CreateUnset, DeleteUnset DEF EnterChat
<1>3. /\ <<List, Other>> \in Seq(Request) /\ Within(<<List, Other>>) = {List, Other}
      /\ List.type = "list" /\ Other.type = "other"
  BY Requests, WithinShort DEF List, Other
<1>4. Sent(w, <<List, Other>>)
  BY SentIs DEF EnterChat
<1>5. ASSUME alone[w]
      PROVE  /\ authDone[w] /\ userId[w] = user[w] /\ ui[w] = Idle
             /\ Within(requests'[w]) = {List, Other}
  <2>1. authDone[w] /\ userId[w] = user[w] /\ ~Unanswered(w) /\ ui[w] = Idle
    BY <1>1, <1>5 DEF WindowInv, LoginInv, Submitted
  <2>2. Within(requests'[w]) = Within(requests[w]) \cup Within(<<List, Other>>)
    BY <1>3, <1>4, SentWithin
  <2>3. requests[w] = <<>>
    BY <2>1 DEF Unanswered
  <2>4. Within(requests[w]) = {}
    BY <2>3, WithinShort
  <2> QED
    BY <1>3, <2>1, <2>2, <2>4
<1>6. RepliesInv(w)'
  BY <1>1, <1>4, RepliesSame, StoreSameGrows DEF WindowInv, Sent
<1>7. NobodyInv(w)'
  BY <1>1 DEF WindowInv, NobodyInv, SessionSame
<1>8. LoginInv(w)'
  BY <1>1, <1>3, <1>5 DEF WindowInv, LoginInv, SessionSame, Submitted
<1>13. orderly[w] => alone[w] /\ ~Expecting(w)
  BY <1>1 DEF WindowInv, LoginInv, Submitted
<1>9. orderly[w] => ~Busy(w) /\ ~Busy(w)'
  <2>1. orderly[w] => ~Busy(w)
    BY <1>5, <1>13, NotBusy
  <2>2. orderly[w] => ui'[w].at = "idle"
    BY <1>1, <1>5, <1>13, UIKinds
  <2> QED
    BY <1>2, <2>1, <2>2 DEF Busy, Creating, Deleting
<1>10. CreateInv(w)' /\ DeleteInv(w)'
  BY <1>1, <1>3, <1>5, <1>9, <1>13, IdleFlags
<1>11. ListInv(w)'
  BY <1>1, <1>9, IdleList DEF WindowInv, ListSame, SessionSame
<1>12. LinesInv(w)'
  BY <1>1, <1>3, <1>4, LinesSent DEF WindowInv, SessionSame
<1> QED
  BY <1>6, <1>7, <1>8, <1>10, <1>11, <1>12 DEF WindowInv

(* What does not change when a flag is set.                                *)
ArmSame(w) ==
  /\ AuthSame(w) /\ SessionSame(w) /\ ListSame(w) /\ StoreSame
  /\ joining'[w] = joining[w] /\ requests'[w] = requests[w] /\ replies'[w] = replies[w]
  /\ orderly'[w] = orderly[w] /\ steady'[w] = steady[w]

LEMMA ArmKeeps ==
  ASSUME TypeOK, NEW w \in Window, WindowInv(w), ArmSame(w), ui[w] # Idle
  PROVE  RepliesInv(w)' /\ NobodyInv(w)' /\ LoginInv(w)' /\ LinesInv(w)'
<1> USE DEF ArmSame, AuthSame, SessionSame
<1>1. RepliesInv(w)'
  BY RepliesSame, StoreSameGrows DEF WindowInv
<1>2. NobodyInv(w)'
  BY DEF WindowInv, NobodyInv
<1>3. LoginInv(w)'
  BY DEF WindowInv, LoginInv, Submitted
<1>4. LinesInv(w)'
  BY LinesSame DEF WindowInv
<1> QED
  BY <1>1, <1>2, <1>3, <1>4

LEMMA ArmCreateKeeps ==
  ASSUME TypeOK, NEW w \in Window, WindowInv(w), ArmCreate(w)
  PROVE  WindowInv(w)'
<1>1. ArmSame(w) /\ delete'[w] = delete[w] /\ ui[w].at = "create"
  BY DEF ArmCreate, TypeOK, storeVars, authVars, listVars, queueVars, serverVars, ghostVars,
     ArmSame, AuthSame, SessionSame, ListSame, StoreSame
<1>2. ui[w] # Idle /\ ui'[w] = Idle /\ ui'[w].at = "idle"
  BY <1>1, UIKinds DEF ArmCreate, TypeOK
<1>3. create'[w].set /\ create'[w].name = Cut[ui[w].name]
      /\ create'[w].private = ui[w].private
  BY DEF ArmCreate, TypeOK
<1>4. Creating(w) /\ Creating(w)'
  BY <1>1, <1>3 DEF Creating
<1>5. orderly[w] => ~create[w].set
  BY <1>2, <1>4 DEF WindowInv, CreateInv
<1>6. orderly[w] => NotedName(w)' = NotedName(w) /\ NotedLock(w)' = NotedLock(w)
  BY <1>3, <1>5 DEF NotedName, NotedLock
<1>7. /\ \A r : Asked(w, r)' = Asked(w, r) /\ Answered(w, r)' = Answered(w, r)
      /\ \A n : Known(w, n)' = Known(w, n)
      /\ \A id, name, private : Shows(id, name, private)' = Shows(id, name, private)
      /\ \A n : Answered(w, Ok(n))' = Answered(w, Ok(n))
      /\ channels' = channels /\ nextChannel' = nextChannel
  BY <1>1, ShowsSame DEF ArmSame, ListSame, StoreSame, Asked, Answered, Known, Holds, Ok
<1>8. orderly[w] => \A n : Created(w, n) => Created(w, n)'
  BY <1>6, <1>7 DEF Created
<1>9. orderly[w] => Asking(w)' = Asking(w)
  BY <1>1, <1>6 DEF Asking, Asked, ArmSame, Create
<1>10. Answered(w, Error)' = Answered(w, Error)
  BY <1>1 DEF ArmSame, Answered, Error
<1>11. CreateInv(w)'
  <2>1. /\ orderly'[w] = orderly[w] /\ joining'[w] = joining[w] /\ authDone'[w] = authDone[w]
        /\ delete'[w] = delete[w] /\ requests'[w] = requests[w]
    BY <1>1 DEF ArmSame, AuthSame
  <2>2. orderly[w] => /\ joining[w] = 0 /\ authDone[w] /\ ~delete[w].set
                      /\ \/ Asking(w) \/ Answered(w, Error)
                         \/ \E n \in 1..(nextChannel - 1) : Created(w, n)
    BY <1>4 DEF WindowInv, CreateInv
  <2> QED
    BY <1>2, <1>4, <1>7, <1>8, <1>9, <1>10, <2>1, <2>2 DEF CreateInv
<1>12. DeleteInv(w)'
  <2>1. orderly[w] => ~Deleting(w)'
    BY <1>1, <1>2, <1>4 DEF WindowInv, CreateInv, Deleting
  <2> QED
    BY <1>1, <2>1 DEF DeleteInv, ArmSame
<1>13. ListInv(w)'
  <2>1. /\ orderly'[w] = orderly[w] /\ made'[w] = made[w] /\ slot'[w] = slot[w]
        /\ count'[w] = count[w]
    BY <1>1 DEF ArmSame, SessionSame, ListSame
  <2> QED
    BY <1>4, <1>7, <2>1 DEF WindowInv, ListInv
<1> QED
  BY <1>1, <1>2, <1>11, <1>12, <1>13, ArmKeeps DEF WindowInv

LEMMA ArmDeleteKeeps ==
  ASSUME TypeOK, NEW w \in Window, WindowInv(w), ArmDelete(w)
  PROVE  WindowInv(w)'
<1>1. ArmSame(w) /\ create'[w] = create[w] /\ ui[w].at = "delete"
  BY DEF ArmDelete, TypeOK, storeVars, authVars, listVars, queueVars, serverVars, ghostVars,
     ArmSame, AuthSame, SessionSame, ListSame, StoreSame
<1>2. ui[w] # Idle /\ ui'[w] = Idle /\ ui'[w].at = "idle"
  BY <1>1, UIKinds DEF ArmDelete, TypeOK
<1>3. delete'[w].set /\ delete'[w].id = slot[w][ui[w].slot].id
  BY DEF ArmDelete, TypeOK
<1>4. Deleting(w) /\ Deleting(w)'
  BY <1>1, <1>3 DEF Deleting
<1>5. orderly[w] => ~delete[w].set /\ ~Creating(w) /\ ~Creating(w)'
  BY <1>1, <1>2, <1>4 DEF WindowInv, DeleteInv, Creating
<1>6. orderly[w] => Target(w)' = Target(w)
  BY <1>3, <1>5 DEF Target
<1>7. /\ \A n : Known(w, n)' = Known(w, n)
      /\ \A id, name, private : Shows(id, name, private)' = Shows(id, name, private)
      /\ channels' = channels /\ nextChannel' = nextChannel
  BY <1>1, ShowsSame DEF ArmSame, ListSame, StoreSame, Known, Holds
<1>8. orderly[w] => Asked(w, Delete(Target(w)))' = Asked(w, Delete(Target(w)))
  BY <1>1, <1>6 DEF Asked, ArmSame, Delete
<1>9. Answered(w, Error)' = Answered(w, Error) /\ Answered(w, Ok(0))' = Answered(w, Ok(0))
  BY <1>1 DEF ArmSame, Answered, Error, Ok
<1>10. DeleteInv(w)'
  <2>1. orderly'[w] = orderly[w] /\ joining'[w] = joining[w] /\ authDone'[w] = authDone[w]
    BY <1>1 DEF ArmSame, AuthSame
  <2> QED
    BY <1>1, <1>2, <1>4, <1>6, <1>7, <1>8, <1>9, <2>1 DEF WindowInv, DeleteInv
<1>11. CreateInv(w)'
  <2>1. orderly'[w] = orderly[w] /\ requests'[w] = requests[w]
    BY <1>1 DEF ArmSame
  <2> QED
    BY <1>5, <2>1 DEF WindowInv, CreateInv
<1>12. ListInv(w)'
  <2>1. /\ orderly'[w] = orderly[w] /\ made'[w] = made[w] /\ slot'[w] = slot[w]
        /\ count'[w] = count[w]
    BY <1>1 DEF ArmSame, SessionSame, ListSame
  <2> QED
    BY <1>5, <1>7, <2>1 DEF WindowInv, ListInv
<1> QED
  BY <1>1, <1>2, <1>10, <1>11, <1>12, ArmKeeps DEF WindowInv

-----------------------------------------------------------------------------
(* The steps of the server thread.                                         *)

(* What the server reads from a window that submitted its login alone, and *)
(* from an orderly one.                                                    *)
LEMMA OrderlyRequest ==
  ASSUME TypeOK, NEW w \in Window, WindowInv(w), requests[w] # <<>>
  PROVE  /\ orderly[w] => alone[w]
         /\ alone[w] /\ Submitted(w) =>
              /\ result[w] = "pending" /\ ~authDone[w]
              /\ \E u \in User : Asked(w, Auth(u)) /\ Head(requests[w]) = Auth(u)
         /\ alone[w] /\ screen[w] = "chat" => Head(requests[w]).type # "auth"
         /\ orderly[w] /\ Creating(w) =>
              /\ Asking(w)
              /\ \E name \in Name : LET request == Create(name, NotedLock(w))
                                    IN  /\ Cut[name] = NotedName(w)
                                        /\ Asked(w, request) /\ Head(requests[w]) = request
         /\ orderly[w] /\ Head(requests[w]).type = "create" => Creating(w)
         /\ orderly[w] /\ Deleting(w) => LET request == Delete(Target(w))
                           IN  Asked(w, request) /\ Head(requests[w]) = request
<1>1. \A r : Asked(w, r) => Head(requests[w]) = r
  BY DEF Asked
<1>2. \A r : ~Answered(w, r)
  BY DEF Answered
<1>3. Head(requests[w]) \in Within(requests[w])
  BY QueuesAre, WithinFacts
<1>4. alone[w] /\ Submitted(w) =>
        result[w] = "pending" /\ ~authDone[w] /\ \E u \in User : Asked(w, Auth(u))
  BY <1>2 DEF WindowInv, LoginInv, Unanswered
<1>5. alone[w] /\ screen[w] = "chat" => Head(requests[w]).type # "auth"
  BY <1>3 DEF WindowInv, LoginInv
<1>6. orderly[w] /\ Creating(w) => Asking(w)
  BY <1>2 DEF WindowInv, CreateInv, Created
<1>7. orderly[w] /\ Head(requests[w]).type = "create" => Creating(w)
  BY <1>3 DEF WindowInv, CreateInv
<1>8. orderly[w] /\ Deleting(w) => Asked(w, Delete(Target(w)))
  BY <1>2 DEF WindowInv, DeleteInv
<1>9. orderly[w] => alone[w]
  BY DEF WindowInv, LoginInv
<1>10. orderly[w] /\ Creating(w) =>
         \E name \in Name : /\ Cut[name] = NotedName(w)
                            /\ Asked(w, Create(name, NotedLock(w)))
                            /\ Head(requests[w]) = Create(name, NotedLock(w))
  BY <1>1, <1>6 DEF Asking
<1> QED
  BY <1>1, <1>4, <1>5, <1>6, <1>7, <1>8, <1>9, <1>10

LEMMA RequestKinds ==
  /\ \A u : Auth(u).type = "auth" /\ Auth(u).id = u
  /\ \A c : Delete(c).type = "delete" /\ Delete(c).id = c
  /\ \A name, private : /\ Create(name, private).type = "create"
                        /\ Create(name, private).name = name
                        /\ Create(name, private).private = private
BY DEF Auth, Delete, Create

LEMMA ReplyKinds ==
  /\ Error.type = "error" /\ \A n : Ok(n).type = "ok" /\ Ok(n).id = n
  /\ \A row : /\ Chan(row).type = "chan" /\ Chan(row).id = row.id
              /\ Chan(row).name = row.name /\ Chan(row).private = row.private
BY DEF Error, Ok, Chan

(* What the server thread leaves alone.                                    *)
ClientSame(w) ==
  /\ AuthSame(w) /\ FlagsSame(w) /\ ListSame(w)
  /\ orderly'[w] = orderly[w] /\ steady'[w] = steady[w]

(* Answers, but no channels.                                               *)
LEMMA AnswerKeeps ==
  ASSUME TypeOK, NEW w \in Window, WindowInv(w), StoreGrows, ClientSame(w),
         NEW reply \in Reply, Served(w, <<reply>>), reply.type # "chan"
  PROVE  RepliesInv(w)'
<1>1. <<reply>> \in Seq(Reply) /\ Within(<<reply>>) = {reply} /\ Len(<<reply>>) = 1
      /\ <<reply>>[1] = reply
  BY WithinShort
<1>2. joining'[w] = joining[w]
  BY DEF ClientSame, FlagsSame
<1> QED
  BY <1>1, <1>2, RepliesServed DEF WindowInv

(* The queues when the only request is answered.                           *)
LEMMA AskedServed ==
  ASSUME NEW w \in Window, NEW request, Asked(w, request),
         NEW reply \in Reply, Served(w, <<reply>>)
  PROVE  requests'[w] = <<>> /\ replies'[w] = <<reply>>
<1>1. Tail(<<request>>) = <<>>
  OBVIOUS
<1>2. <<>> \o <<reply>> = <<reply>>
  BY EmptyJoined
<1> QED
  BY <1>1, <1>2 DEF Asked, Served

LEMMA HandleAuthKeeps ==
  ASSUME TypeOK, NEW w \in Window, WindowInv(w), HandleAuth(w)
  PROVE  WindowInv(w)'
<1>1. requests[w] # <<>> /\ Head(requests[w]).type = "auth"
  BY DEF HandleAuth, Serves
<1>2. ClientSame(w) /\ StoreSame /\ channel'[w] = channel[w] /\ made'[w] = made[w]
  BY DEF HandleAuth, TypeOK, storeVars, clientVars, authVars, flagVars, listVars,
     ClientSame, AuthSame, FlagsSame, ListSame, StoreSame
<1>3. PICK reply \in Reply :
        /\ Served(w, <<reply>>)
        /\ \/ reply = Ok(Head(requests[w]).id) /\ user'[w] = Head(requests[w]).id
           \/ reply = Error /\ user'[w] = user[w]
  <2>1. CASE /\ user' = [user EXCEPT ![w] = Head(requests[w]).id]
             /\ Answers(w, <<Ok(Head(requests[w]).id)>>)
    <3>1. Head(requests[w]).id \in Nat
      BY <1>1, HeadRequest, Constants
    <3>2. Ok(Head(requests[w]).id) \in Reply /\ Served(w, <<Ok(Head(requests[w]).id)>>)
      BY <1>1, <2>1, <3>1, Replies, ServedIs
    <3>3. user'[w] = Head(requests[w]).id
      BY <2>1 DEF TypeOK
    <3> QED
      BY <3>2, <3>3
  <2>2. CASE Answers(w, <<Error>>) /\ user' = user
    <3>1. Error \in Reply /\ Served(w, <<Error>>)
      BY <1>1, <2>2, Replies, ServedIs
    <3> QED
      BY <2>2, <3>1
  <2> QED
    BY <2>1, <2>2 DEF HandleAuth
<1>4. Head(requests[w]).id \in User
  BY <1>1, HeadRequest
<1>5. reply.type \in {"ok", "error"}
  BY <1>3, ReplyKinds
<1>6. RepliesInv(w)'
  BY <1>2, <1>3, <1>5, AnswerKeeps, StoreSameGrows
<1>7. /\ Within(requests'[w]) \subseteq Within(requests[w])
      /\ Within(replies'[w]) = Within(replies[w]) \cup {reply}
  <2>1. <<reply>> \in Seq(Reply) /\ Within(<<reply>>) = {reply}
    BY WithinShort
  <2> QED
    BY <1>3, <2>1, ServedWithin
<1>8. NobodyInv(w)'
  <2>1. user'[w] = Nobody => user[w] = Nobody /\ reply.type = "error"
    BY <1>3, <1>4, Constants, ReplyKinds
  <2> QED
    BY <1>2, <1>7, <2>1 DEF WindowInv, NobodyInv, ClientSame, AuthSame, FlagsSame
<1>9. /\ alone[w] => screen[w] # "chat"
      /\ orderly[w] => ~Busy(w)
  BY <1>1, OrderlyRequest, RequestKinds DEF Busy
<1>10. LoginInv(w)'
  <2>1. ASSUME alone[w], Submitted(w)
        PROVE  /\ result[w] = "pending" /\ ~authDone[w]
               /\ Answered(w, Ok(user[w]))' \/ Answered(w, Error)'
    <3>1. PICK u \in User : Asked(w, Auth(u)) /\ Head(requests[w]) = Auth(u)
      BY <1>1, <2>1, OrderlyRequest
    <3>2. requests'[w] = <<>> /\ replies'[w] = <<reply>>
      BY <1>3, <3>1, AskedServed
    <3>3. reply = Ok(user'[w]) \/ reply = Error
      BY <1>3
    <3>4. result[w] = "pending" /\ ~authDone[w]
      BY <1>1, <2>1, OrderlyRequest
    <3> QED
      BY <3>2, <3>3, <3>4 DEF Answered, Ok, Error
  <2>2. /\ alone[w] /\ Submitted(w) => joining[w] = 0 /\ ui[w] = Idle
        /\ orderly[w] => alone[w]
        /\ orderly[w] /\ Submitted(w) => ~Expecting(w)
    BY DEF WindowInv, LoginInv
  <2> QED
    BY <1>2, <1>9, <2>1, <2>2
       DEF LoginInv, ClientSame, AuthSame, FlagsSame, Expecting, Submitted
<1>11. Busy(w)' = Busy(w)
  BY <1>2 DEF Busy, Creating, Deleting, ClientSame, FlagsSame
<1>12. CreateInv(w)' /\ DeleteInv(w)'
  BY <1>2, <1>7, <1>9, <1>11, IdleFlags, QuietRequests DEF WindowInv, ClientSame
<1>13. ListInv(w)'
  BY <1>2, <1>9, IdleList DEF WindowInv, ClientSame, ListSame
<1>14. LinesInv(w)'
  BY <1>1, <1>2, <1>3, LinesServed DEF WindowInv, ClientSame
<1> QED
  BY <1>6, <1>8, <1>10, <1>12, <1>13, <1>14 DEF WindowInv

(* A request that neither logs in, creates nor deletes.                    *)
LEMMA QuietKeeps ==
  ASSUME TypeOK, NEW w \in Window, WindowInv(w), StoreSame, ClientSame(w),
         user[w] # Nobody, user'[w] = user[w], made'[w] = made[w],
         NEW packets \in Seq(Reply), Served(w, packets),
         Head(requests[w]).type \in {"list", "join", "line", "other"},
         channel'[w] = IF Head(requests[w]).type = "join" THEN Head(requests[w]).id
                                                          ELSE channel[w],
         \A reply \in Within(packets) :
           reply.type = "chan" => Row(reply.id, reply.name, reply.private),
         packets # <<>> => packets[Len(packets)].type # "chan"
  PROVE  WindowInv(w)'
<1>1. requests[w] # <<>>
  BY DEF Served
<1>2. /\ alone[w] => ~Submitted(w)
      /\ orderly[w] => ~Busy(w)
  BY <1>1, OrderlyRequest, RequestKinds DEF Busy
<1>3. Within(requests'[w]) \subseteq Within(requests[w])
  BY ServedWithin
<1>4. RepliesInv(w)'
  BY RepliesServed, StoreSameGrows DEF WindowInv, ClientSame, FlagsSame
<1>5. NobodyInv(w)'
  BY DEF NobodyInv
<1>6. LoginInv(w)'
  BY <1>2, <1>3 DEF WindowInv, LoginInv, ClientSame, AuthSame, Submitted
<1>7. Busy(w)' = Busy(w)
  BY DEF Busy, Creating, Deleting, ClientSame, FlagsSame
<1>8. CreateInv(w)' /\ DeleteInv(w)'
  BY <1>2, <1>3, <1>7, IdleFlags, QuietRequests DEF WindowInv, ClientSame
<1>9. ListInv(w)'
  BY <1>2, IdleList DEF WindowInv, ClientSame, ListSame
<1>10. LinesInv(w)'
  BY LinesServed DEF WindowInv, ClientSame
<1> QED
  BY <1>4, <1>5, <1>6, <1>8, <1>9, <1>10 DEF WindowInv

LEMMA HandleListKeeps ==
  ASSUME TypeOK, StoreInv, NEW w \in Window, WindowInv(w), HandleList(w)
  PROVE  WindowInv(w)'
<1>1. requests[w] # <<>> /\ Head(requests[w]).type = "list" /\ user[w] # Nobody
  BY DEF HandleList, Serves
<1>2. ClientSame(w) /\ StoreSame /\ SessionSame(w)
  BY DEF HandleList, TypeOK, storeVars, clientVars, authVars, flagVars, listVars,
     serverVars, ClientSame, AuthSame, FlagsSame, ListSame, StoreSame, SessionSame
<1>3. Ok(0) \in Reply /\ Error \in Reply /\ Ok(0).type # "chan" /\ Error.type # "chan"
  BY Replies, ReplyKinds
<1>4. ASSUME NEW rows \in ChannelList(user[w]),
             Answers(w, [i \in DOMAIN rows |-> Chan(rows[i])] \o <<Ok(0)>>)
      PROVE  WindowInv(w)'
  <2>1. PICK chans \in Seq(Reply) : chans = [i \in DOMAIN rows |-> Chan(rows[i])]
    BY ListReplies DEF StoreInv
  <2>2. DOMAIN rows = 1..Len(chans) /\ \A i \in DOMAIN rows : rows[i] \in channels
    BY <2>1, ListReplies DEF StoreInv
  <2>3. ASSUME NEW reply \in Within(chans)
        PROVE  Row(reply.id, reply.name, reply.private)
    <3>1. PICK i \in DOMAIN rows : reply = Chan(rows[i])
      BY <2>1, <2>2 DEF Within
    <3>2. rows[i] \in rowsEver
      BY <2>2 DEF StoreInv
    <3> QED
      BY <3>1, <3>2, ReplyKinds DEF Row
  <2>4. PICK last \in Seq(Reply) : last = <<Ok(0)>>
    <3>1. <<Ok(0)>> \in Seq(Reply)
      BY <1>3
    <3> QED
      BY <3>1
  <2>5. Len(last) = 1 /\ last[1] = Ok(0) /\ Within(last) = {Ok(0)}
    BY <2>4, WithinShort
  <2>6. PICK packets \in Seq(Reply) : packets = chans \o last
    BY Joined
  <2>7. Within(packets) = Within(chans) \cup {Ok(0)}
    BY <2>5, <2>6, WithinFacts
  <2>8. packets[Len(packets)] = Ok(0)
    <3>1. PICK n \in Nat : n = Len(chans)
      BY Joined
    <3>2. /\ Len(packets) = n + Len(last)
          /\ \A k \in (n + 1)..(n + Len(last)) : packets[k] = last[k - n]
      BY <2>6, <3>1, Joined
    <3>3. /\ n + Len(last) = n + 1 /\ n + 1 \in (n + 1)..(n + 1) /\ n + 1 - n = 1
      BY <2>5
    <3>4. packets[n + 1] = last[1]
      BY <3>2, <3>3
    <3> QED
      BY <2>5, <3>2, <3>3, <3>4
  <2>9. Served(w, packets)
    BY <1>1, <1>4, <2>1, <2>4, <2>6, ServedIs
  <2> QED
    BY <1>1, <1>2, <1>3, <2>3, <2>7, <2>8, <2>9, QuietKeeps DEF SessionSame
<1>5. ASSUME Answers(w, <<Error>>) PROVE WindowInv(w)'
  <2>1. /\ <<Error>> \in Seq(Reply) /\ Within(<<Error>>) = {Error}
        /\ Len(<<Error>>) = 1 /\ <<Error>>[1] = Error
    BY <1>3, WithinShort
  <2>2. Served(w, <<Error>>)
    BY <1>1, <1>5, ServedIs
  <2> QED
    BY <1>1, <1>2, <1>3, <2>1, <2>2, QuietKeeps DEF SessionSame
<1> QED
  BY <1>4, <1>5 DEF HandleList

LEMMA HandlePassingKeeps ==
  ASSUME TypeOK, NEW w \in Window, WindowInv(w),
         HandleJoin(w) \/ HandleLine(w) \/ HandleOther(w)
  PROVE  WindowInv(w)'
<1>1. /\ requests[w] # <<>> /\ user[w] # Nobody
      /\ Head(requests[w]).type \in {"join", "line", "other"}
  BY DEF HandleJoin, HandleLine, HandleOther, Serves
<1>2. /\ ClientSame(w) /\ user'[w] = user[w] /\ made'[w] = made[w] /\ StoreSame
      /\ channel'[w] = IF Head(requests[w]).type = "join" THEN Head(requests[w]).id
                                                          ELSE channel[w]
  BY DEF HandleJoin, HandleLine, HandleOther, Serves, MessageInsert, TypeOK, storeVars,
     clientVars, authVars, flagVars, listVars, serverVars, ClientSame, AuthSame,
     FlagsSame, ListSame, StoreSame
<1>3. Ok(0) \in Reply /\ Error \in Reply /\ Ok(0).type # "chan" /\ Error.type # "chan"
  BY Replies, ReplyKinds
<1>4. \/ Answers(w, <<>>)
      \/ \E reply \in {Ok(0), Error} : Answers(w, <<reply>>)
  BY DEF HandleJoin, HandleLine, HandleOther
<1>5. CASE Answers(w, <<>>)
  <2>1. <<>> \in Seq(Reply) /\ Within(<<>>) = {}
    BY WithinShort
  <2>2. Served(w, <<>>)
    BY <1>1, <1>5, ServedIs
  <2> QED
    BY <1>1, <1>2, <2>1, <2>2, QuietKeeps
<1>6. ASSUME NEW reply \in {Ok(0), Error}, Answers(w, <<reply>>) PROVE WindowInv(w)'
  <2>1. /\ <<reply>> \in Seq(Reply) /\ Within(<<reply>>) = {reply}
        /\ Len(<<reply>>) = 1 /\ <<reply>>[1] = reply /\ reply.type # "chan"
    BY <1>3, WithinShort
  <2>2. Served(w, <<reply>>)
    BY <1>1, <1>6, ServedIs
  <2> QED
    BY <1>1, <1>2, <2>1, <2>2, QuietKeeps
<1> QED
  BY <1>4, <1>5, <1>6

LEMMA HandleCreateKeeps ==
  ASSUME TypeOK, StoreInv, StoreGrows, NEW w \in Window, WindowInv(w), HandleCreate(w)
  PROVE  WindowInv(w)'
<1>1. requests[w] # <<>> /\ Head(requests[w]).type = "create" /\ user[w] # Nobody
  BY DEF HandleCreate, Serves
<1>2. /\ ClientSame(w) /\ user'[w] = user[w] /\ channel'[w] = channel[w]
      /\ rowsEver' = rowsEver \cup channels'
  BY DEF HandleCreate, TypeOK, clientVars, authVars, flagVars, listVars, serverVars,
     ClientSame, AuthSame, FlagsSame, ListSame
<1>3. PICK n \in {nextChannel, Failed} :
        /\ ChannelInsert(user[w], Head(requests[w]).name, Head(requests[w]).private, n)
        /\ Answers(w, <<IF n = Failed THEN Error ELSE Ok(n)>>)
        /\ made' = IF n = Failed THEN made ELSE [made EXCEPT ![w] = @ \cup {n}]
  BY DEF HandleCreate
<1>4. nextChannel \in Nat \ {0} /\ nextChannel # Failed
  BY Constants DEF TypeOK, StoreTypeOK
<1>5. PICK reply \in Reply : reply = IF n = Failed THEN Error ELSE Ok(n)
  BY <1>4, Replies
<1>6. Served(w, <<reply>>) /\ reply.type # "chan"
  BY <1>1, <1>3, <1>5, ServedIs, ReplyKinds
<1>7. /\ <<reply>> \in Seq(Reply)
      /\ Within(requests'[w]) \subseteq Within(requests[w])
  <2>1. <<reply>> \in Seq(Reply)
    OBVIOUS
  <2> QED
    BY <1>6, <2>1, ServedWithin
<1>8. RepliesInv(w)'
  BY <1>2, <1>6, AnswerKeeps
<1>9. NobodyInv(w)'
  BY <1>1, <1>2 DEF NobodyInv
<1>10. /\ alone[w] => ~Submitted(w)
       /\ orderly[w] => ~Deleting(w) /\ Creating(w)
  BY <1>1, OrderlyRequest, RequestKinds
<1>11. LoginInv(w)'
  BY <1>2, <1>7, <1>10 DEF WindowInv, LoginInv, ClientSame, AuthSame, Submitted
<1>12. /\ Creating(w)' = Creating(w) /\ NotedName(w)' = NotedName(w) /\ NotedLock(w)' = NotedLock(w) /\ Deleting(w)' = Deleting(w)
       /\ \A c : Known(w, c)' = Known(w, c)
  BY <1>2 DEF Creating, NotedName, NotedLock, Deleting, Known, Holds, ClientSame, FlagsSame, ListSame
<1>13. CASE n = Failed
  <2>1. StoreSame /\ made' = made
    <3>1. UNCHANGED storeVars
      BY <1>3, <1>4, <1>13 DEF ChannelInsert
    <3> QED
      BY <1>2, <1>3, <1>13, <3>1 DEF StoreSame, storeVars, StoreInv
  <2>2. orderly[w] => requests'[w] = <<>> /\ replies'[w] = <<Error>>
    BY <1>1, <1>5, <1>6, <1>10, <1>13, OrderlyRequest, AskedServed
  <2>3. CreateInv(w)'
    <3>1. orderly[w] => Answered(w, Error)'
      BY <2>2 DEF Answered, Error
    <3>2. orderly[w] => \A request \in Within(requests'[w]) : FALSE
      BY <2>2, WithinShort
    <3> QED
      BY <1>2, <1>10, <1>12, <3>1, <3>2 DEF WindowInv, CreateInv, ClientSame, AuthSame,
           FlagsSame
  <2>4. DeleteInv(w)'
    BY <1>2, <1>10, <1>12 DEF DeleteInv, ClientSame
  <2>5. ListInv(w)'
    <3>1. /\ \A id, name, private : Shows(id, name, private)' = Shows(id, name, private)
          /\ channels' = channels /\ nextChannel' = nextChannel
          /\ orderly'[w] = orderly[w] /\ slot'[w] = slot[w] /\ count'[w] = count[w]
      BY <1>2, <2>1, ShowsSame DEF StoreSame, ClientSame, ListSame
    <3>2. orderly[w] => \A c \in made[w] \cap Ids(channels) : Known(w, c)
      BY <1>1 DEF WindowInv, ListInv, Answered
    <3> QED
      BY <1>12, <2>1, <3>1, <3>2 DEF WindowInv, ListInv
  <2>6. LinesInv(w)'
    BY <1>1, <1>2, <1>6, LinesServed DEF WindowInv, ClientSame
  <2> QED
    BY <1>8, <1>9, <1>11, <2>3, <2>4, <2>5, <2>6 DEF WindowInv
<1>14. PICK name, private : name = Head(requests[w]).name /\ private = Head(requests[w]).private
  OBVIOUS
<1>15. CASE n = nextChannel
  <2>1. /\ nextChannel' = n + 1 /\ n \in Nat \ {0} /\ made'[w] = made[w] \cup {n}
        /\ reply = Ok(n)
    <3>1. nextChannel' = nextChannel + 1
      BY <1>3, <1>4, <1>15 DEF ChannelInsert
    <3>2. made' = [made EXCEPT ![w] = made[w] \cup {n}]
      BY <1>3, <1>4, <1>15
    <3> QED
      BY <1>4, <1>5, <1>15, <3>1, <3>2 DEF TypeOK
  <2>2. Shows(n, Cut[name], private)'
    <3> DEFINE row == [id |-> n, name |-> name, private |-> private, creator |-> user[w]]
    <3>1. channels' = channels \cup {row}
      BY <1>3, <1>4, <1>14, <1>15 DEF ChannelInsert
    <3>2. row.id = n /\ row.name = name /\ row.private = private
      OBVIOUS
    <3> HIDE DEF row
    <3>3. PICK r : r = row
      OBVIOUS
    <3>4. r \in rowsEver'
      BY <1>2, <3>1, <3>3
    <3>5. r.id = n /\ r.name = name /\ r.private = private
      BY <3>2, <3>3
    <3> QED
      BY <3>4, <3>5 DEF Shows
  <2>3. ASSUME orderly[w]
        PROVE  /\ requests'[w] = <<>> /\ replies'[w] = <<Ok(n)>>
               /\ NotedName(w)' = Cut[name] /\ NotedLock(w)' = private
               /\ ~Known(w, n)'
    <3>1. PICK nm \in Name : /\ Cut[nm] = NotedName(w)
                             /\ Asked(w, Create(nm, NotedLock(w)))
                             /\ Head(requests[w]) = Create(nm, NotedLock(w))
      BY <1>1, <1>10, <2>3, OrderlyRequest
    <3>2. requests'[w] = <<>> /\ replies'[w] = <<Ok(n)>>
      BY <1>6, <2>1, <3>1, AskedServed
    <3>3. NotedName(w) = Cut[name] /\ NotedLock(w) = private
      BY <1>14, <3>1, RequestKinds
    <3>4. ASSUME NEW i \in Slots, i <= count[w] PROVE slot[w][i].id # n
      <4>1. i \in 1..count[w]
        BY <3>4, Constants DEF Slots, TypeOK
      <4>2. PICK row \in rowsEver : row.id = slot[w][i].id
        BY <2>3, <4>1 DEF WindowInv, ListInv, Shows
      <4>3. row.id \in Nat /\ row.id < n
        BY <1>15 DEF StoreInv, TypeOK, ChannelRow
      <4> QED
        BY <2>1, <4>2, <4>3
    <3>5. ~Known(w, n)
      BY <3>4 DEF Known, Holds
    <3> QED
      BY <1>12, <3>2, <3>3, <3>5
  <2>4. CreateInv(w)'
    <3>1. orderly[w] => Created(w, n)'
      BY <2>2, <2>3 DEF Created, Answered, Ok
    <3>2. orderly[w] => \A request \in Within(requests'[w]) : FALSE
      BY <2>3, WithinShort
    <3>3. n \in 1..(nextChannel' - 1)
      BY <2>1
    <3>4. orderly[w] => /\ joining[w] = 0 /\ authDone[w] /\ ~delete[w].set
                        /\ create[w].set => ui[w] = Idle
      BY <1>10 DEF WindowInv, CreateInv
    <3> QED
      BY <1>2, <1>12, <3>1, <3>2, <3>3, <3>4 DEF CreateInv, ClientSame, AuthSame, FlagsSame
  <2>5. DeleteInv(w)'
    BY <1>2, <1>10, <1>12 DEF DeleteInv, ClientSame
  <2>6. ListInv(w)'
    <3>1. \A c \in made'[w] : c \in Nat /\ c < nextChannel'
      BY <1>4, <1>15, <2>1 DEF WindowInv, ListInv, TypeOK
    <3>2. /\ orderly'[w] = orderly[w] /\ slot'[w] = slot[w] /\ count'[w] = count[w]
      BY <1>2 DEF ClientSame, ListSame
    <3>3. ASSUME orderly[w], NEW i \in 1..count[w]
          PROVE  Shows(slot[w][i].id, slot[w][i].name, slot[w][i].private)'
      <4>1. PICK id, nm, pr : /\ id = slot[w][i].id /\ nm = slot[w][i].name
                              /\ pr = slot[w][i].private
        OBVIOUS
      <4>2. Shows(id, nm, pr)
        BY <3>3, <4>1 DEF WindowInv, ListInv
      <4>3. Shows(id, nm, pr)'
        BY <4>2, ShowsStays
      <4> QED
        BY <3>2, <4>1, <4>3
    <3>4. ASSUME orderly[w], NEW c \in made'[w] \cap Ids(channels')
          PROVE  Known(w, c)' \/ (Creating(w)' /\ Answered(w, Ok(c))')
      <4>1. CASE c = n
        <5>1. Answered(w, Ok(c))'
          BY <2>3, <3>4, <4>1 DEF Answered, Ok
        <5> QED
          BY <1>10, <1>12, <3>4, <5>1
      <4>2. CASE c # n
        <5>1. c \in made[w] \cap Ids(channels)
          BY <1>15, <2>1, <4>2, NewIds
        <5>2. Known(w, c)
          BY <1>1, <3>4, <5>1 DEF WindowInv, ListInv, Answered
        <5> QED
          BY <1>12, <5>2
      <4> QED
        BY <4>1, <4>2
    <3> QED
      BY <3>1, <3>2, <3>3, <3>4 DEF WindowInv, ListInv
  <2>7. LinesInv(w)'
    BY <1>1, <1>2, <1>6, LinesServed DEF WindowInv, ClientSame
  <2> QED
    BY <1>8, <1>9, <1>11, <2>4, <2>5, <2>6, <2>7 DEF WindowInv
<1> QED
  BY <1>13, <1>15

LEMMA HandleDeleteKeeps ==
  ASSUME TypeOK, StoreInv, StoreGrows, NEW w \in Window, WindowInv(w), HandleDelete(w)
  PROVE  WindowInv(w)'
<1>1. requests[w] # <<>> /\ Head(requests[w]).type = "delete" /\ user[w] # Nobody
  BY DEF HandleDelete, Serves
<1>2. /\ ClientSame(w) /\ user'[w] = user[w] /\ channel'[w] = channel[w]
      /\ made'[w] = made[w] /\ rowsEver' = rowsEver
  BY DEF HandleDelete, TypeOK, clientVars, authVars, flagVars, listVars, serverVars,
     ClientSame, AuthSame, FlagsSame, ListSame
<1>3. PICK n \in {Done, Failed} :
        /\ ChannelDelete(user[w], Head(requests[w]).id, n)
        /\ Answers(w, <<IF n = Failed THEN Error ELSE Ok(0)>>)
  BY DEF HandleDelete
<1>4. PICK c : c = Head(requests[w]).id
  OBVIOUS
<1>5. PICK reply \in Reply : reply = IF n = Failed THEN Error ELSE Ok(0)
  BY Replies
<1>6. Served(w, <<reply>>) /\ reply.type # "chan"
  BY <1>1, <1>3, <1>5, ServedIs, ReplyKinds
<1>7. /\ <<reply>> \in Seq(Reply)
      /\ Within(requests'[w]) \subseteq Within(requests[w])
  <2>1. <<reply>> \in Seq(Reply)
    OBVIOUS
  <2> QED
    BY <1>6, <2>1, ServedWithin
<1>8. RepliesInv(w)'
  BY <1>2, <1>6, AnswerKeeps
<1>9. NobodyInv(w)'
  BY <1>1, <1>2 DEF NobodyInv
<1>10. /\ alone[w] => ~Submitted(w)
       /\ orderly[w] => ~Creating(w)
  BY <1>1, OrderlyRequest, RequestKinds
<1>11. LoginInv(w)'
  BY <1>2, <1>7, <1>10 DEF WindowInv, LoginInv, ClientSame, AuthSame, Submitted
<1>12. /\ Creating(w)' = Creating(w) /\ Deleting(w)' = Deleting(w) /\ Target(w)' = Target(w)
       /\ \A d : Known(w, d)' = Known(w, d)
       /\ \A id, name, private : Shows(id, name, private)' = Shows(id, name, private)
  BY <1>2, ShowsSame
     DEF Creating, Deleting, Target, Known, Holds, ClientSame, FlagsSame, ListSame
<1>13. /\ channels' \subseteq channels /\ nextChannel' = nextChannel
       /\ n # Failed => c \notin Ids(channels')
  <2>1. Failed # Done
    BY Constants
  <2>2. CASE n = Failed
    BY <1>3, <2>1, <2>2 DEF ChannelDelete, storeVars
  <2>3. CASE n # Failed
    <3>1. /\ Deletable(user[w], c) # {} /\ nextChannel' = nextChannel
          /\ channels' = channels \ Deletable(user[w], c)
      BY <1>3, <1>4, <2>3 DEF ChannelDelete
    <3>2. PICK row \in Deletable(user[w], c) : row \in channels /\ row.id = c
      BY <3>1 DEF Deletable
    <3>3. \A other \in channels : other.id = c => other = row
      BY <3>2 DEF StoreInv
    <3>4. c \notin Ids(channels')
      BY <3>1, <3>2, <3>3 DEF Ids
    <3> QED
      BY <3>1, <3>4
  <2> QED
    BY <2>2, <2>3
<1>14. Ids(channels') \subseteq Ids(channels)
  BY <1>13 DEF Ids
<1>15. CreateInv(w)'
  BY <1>2, <1>7, <1>10, <1>12 DEF WindowInv, CreateInv, ClientSame
<1>16. DeleteInv(w)'
  <2>1. ASSUME orderly[w], Deleting(w)
        PROVE  /\ Answered(w, Error)' \/ (Answered(w, Ok(0))' /\ Target(w) \notin Ids(channels'))
               /\ joining[w] = 0 /\ authDone[w] /\ ~create[w].set
               /\ delete[w].set => ui[w] = Idle
               /\ Target(w) < nextChannel
    <3>1. /\ Asked(w, Delete(Target(w))) /\ Head(requests[w]) = Delete(Target(w))
      BY <1>1, <2>1, OrderlyRequest
    <3>2. requests'[w] = <<>> /\ replies'[w] = <<reply>>
      BY <1>6, <3>1, AskedServed
    <3>3. Target(w) = c
      BY <1>4, <3>1, RequestKinds
    <3>4. Answered(w, Error)' \/ (Answered(w, Ok(0))' /\ n # Failed)
      BY <1>5, <3>2 DEF Answered, Error, Ok
    <3>5. /\ joining[w] = 0 /\ authDone[w] /\ ~create[w].set
          /\ delete[w].set => ui[w] = Idle
          /\ Target(w) < nextChannel
      BY <2>1 DEF WindowInv, DeleteInv
    <3> QED
      BY <1>13, <3>3, <3>4, <3>5
  <2>2. /\ orderly'[w] = orderly[w] /\ joining'[w] = joining[w] /\ authDone'[w] = authDone[w]
        /\ create'[w] = create[w] /\ delete'[w] = delete[w] /\ ui'[w] = ui[w]
    BY <1>2 DEF ClientSame, AuthSame, FlagsSame
  <2> QED
    BY <1>12, <1>13, <2>1, <2>2 DEF DeleteInv
<1>17. ListInv(w)'
  <2>1. /\ orderly'[w] = orderly[w] /\ slot'[w] = slot[w] /\ count'[w] = count[w]
    BY <1>2 DEF ClientSame, ListSame
  <2>2. orderly[w] => \A d \in made[w] \cap Ids(channels) : Known(w, d)
    BY <1>1 DEF WindowInv, ListInv, Answered
  <2> QED
    BY <1>2, <1>12, <1>13, <1>14, <2>1, <2>2 DEF WindowInv, ListInv
<1>18. LinesInv(w)'
  BY <1>1, <1>2, <1>6, LinesServed DEF WindowInv, ClientSame
<1> QED
  BY <1>8, <1>9, <1>11, <1>15, <1>16, <1>17, <1>18 DEF WindowInv

-----------------------------------------------------------------------------
(* The array of channels.                                                  *)

LEMMA KnownIs ==
  ASSUME TypeOK, NEW w \in Window, NEW id
  PROVE  Known(w, id) <=> \E i \in 1..count[w] : slot[w][i].id = id
BY Constants DEF TypeOK, Slots, Known, Holds

LEMMA AddEffect ==
  ASSUME TypeOK, TypeOK', NEW w \in Window, NEW id, NEW name, NEW private,
         Add(w, id, name, private)
  PROVE  /\ \A i \in 1..count'[w] :
              \/ i \in 1..count[w] /\ slot'[w][i] = slot[w][i]
              \/ /\ i = count[w] + 1 /\ slot'[w][i].id = id
                 /\ slot'[w][i].name = Cut[name] /\ slot'[w][i].private = private
         /\ \A c : Known(w, c) => Known(w, c)'
         /\ Full(w) \/ Known(w, id)'
<1>1. CASE Full(w)
  <2>1. slot' = slot /\ count' = count
    BY <1>1 DEF Add
  <2>2. \A c : Known(w, c)' = Known(w, c)
    BY <2>1 DEF Known, Holds
  <2> QED
    BY <1>1, <2>1, <2>2
<1>2. CASE ~Full(w)
  <2> DEFINE entry == [id |-> id, name |-> Cut[name], private |-> private]
  <2>1. /\ slot' = [slot EXCEPT ![w] = [slot[w] EXCEPT ![count[w] + 1] = entry]]
        /\ count' = [count EXCEPT ![w] = count[w] + 1]
    BY <1>2 DEF Add
  <2>2. PICK n \in Nat : n = count[w] /\ n < MaxChannels
    BY <1>2, Constants DEF Full, TypeOK
  <2>3. slot \in [Window -> [Slots -> Entry]] /\ count \in [Window -> 0..MaxChannels]
    BY DEF TypeOK
  <2>4. entry.id = id /\ entry.name = Cut[name] /\ entry.private = private
    OBVIOUS
  <2> HIDE DEF entry
  <2>5. count'[w] = n + 1 /\ slot'[w] = [slot[w] EXCEPT ![n + 1] = entry]
    BY <2>1, <2>2, <2>3
  <2>6. n + 1 \in Slots /\ 1..n \subseteq Slots
    BY <2>2, Constants DEF Slots
  <2>7. slot[w] \in [Slots -> Entry]
    BY <2>3
  <2>8. slot'[w][n + 1] = entry /\ \A i \in 1..n : slot'[w][i] = slot[w][i]
    BY <2>5, <2>6, <2>7
  <2>9. \A i \in 1..(n + 1) : i \in 1..n \/ i = n + 1
    OBVIOUS
  <2>10. ASSUME NEW c, Known(w, c) PROVE Known(w, c)'
    <3>1. PICK i \in 1..n : slot[w][i].id = c
      BY <2>2, <2>10, KnownIs
    <3>2. i \in Slots /\ i <= count'[w] /\ slot'[w][i].id = c
      BY <2>5, <2>6, <2>8, <3>1
    <3> QED
      BY <3>2 DEF Known, Holds
  <2>11. Known(w, id)'
    <3>1. n + 1 <= count'[w] /\ slot'[w][n + 1].id = id
      BY <2>4, <2>5, <2>8
    <3>2. \E i \in Slots : i <= count'[w] /\ slot'[w][i].id = id
      BY <2>6, <3>1
    <3>3. PICK i \in Slots : i <= count'[w] /\ slot'[w][i].id = id
      BY <3>2
    <3> QED
      BY <2>4, <2>5, <2>6, <2>8, <3>3 DEF Known, Holds
  <2> QED
    BY <2>2, <2>4, <2>5, <2>8, <2>9, <2>10, <2>11
<1> QED
  BY <1>1, <1>2

LEMMA RemoveEffect ==
  ASSUME TypeOK, TypeOK', NEW w \in Window, NEW id, RemoveId(w, id)
  PROVE  /\ \A i \in 1..count'[w] : \E k \in 1..count[w] : slot'[w][i] = slot[w][k]
         /\ (\A i, j \in 1..count[w] : slot[w][i].id = slot[w][j].id => i = j)
              => \A i, j \in 1..count'[w] : slot'[w][i].id = slot'[w][j].id => i = j
         /\ \A c : Known(w, c) /\ c # id => Known(w, c)'
<1>1. CASE UNCHANGED listVars
  <2>1. slot' = slot /\ count' = count
    BY <1>1 DEF listVars
  <2>2. \A c : Known(w, c)' = Known(w, c)
    BY <2>1 DEF Known, Holds
  <2> QED
    BY <2>1, <2>2
<1>2. CASE \E i \in Slots : count[w] > 1 /\ Holds(w, i, id) /\ RemoveAt(w, i)
  <2>1. PICK i \in Slots : count[w] > 1 /\ Holds(w, i, id) /\ RemoveAt(w, i)
    BY <1>2
  <2>2. PICK n \in Nat : n = count[w] /\ n > 1 /\ n <= MaxChannels
    BY <2>1, Constants DEF TypeOK
  <2>3. slot[w][i].id = id /\ i \in 1..n
    BY <2>1, <2>2 DEF Holds, Slots
  <2> DEFINE moved == [j \in Slots |-> IF j \in i..(n - 1) THEN slot[w][j + 1] ELSE slot[w][j]]
  <2>4. slot' = [slot EXCEPT ![w] = moved] /\ count' = [count EXCEPT ![w] = n - 1]
    BY <2>1, <2>2 DEF RemoveAt
  <2>5. slot'[w] = moved /\ count'[w] = n - 1
    <3> HIDE DEF moved
    <3> QED
      BY <2>4 DEF TypeOK
  <2>6. 1..n \subseteq Slots
    BY <2>2, Constants DEF Slots
  <2>7. \A j \in 1..(n - 1) :
          slot'[w][j] = IF j >= i THEN slot[w][j + 1] ELSE slot[w][j]
    BY <2>3, <2>5, <2>6
  <2> HIDE DEF moved
  <2>8. ASSUME NEW j \in 1..(n - 1)
        PROVE  \E k \in 1..n : slot'[w][j] = slot[w][k] /\ k = IF j >= i THEN j + 1 ELSE j
    <3>1. j + 1 \in 1..n /\ j \in 1..n
      OBVIOUS
    <3> QED
      BY <2>3, <2>7, <3>1
  <2>9. ASSUME \A j, k \in 1..n : slot[w][j].id = slot[w][k].id => j = k,
               NEW j \in 1..(n - 1), NEW k \in 1..(n - 1), slot'[w][j].id = slot'[w][k].id
        PROVE  j = k
    <3>1. PICK jj \in 1..n : slot'[w][j] = slot[w][jj] /\ jj = IF j >= i THEN j + 1 ELSE j
      BY <2>8
    <3>2. PICK kk \in 1..n : slot'[w][k] = slot[w][kk] /\ kk = IF k >= i THEN k + 1 ELSE k
      BY <2>8
    <3>3. jj = kk
      BY <2>9, <3>1, <3>2
    <3> QED
      BY <2>3, <3>1, <3>2, <3>3
  <2>10. ASSUME NEW c, Known(w, c), c # id PROVE Known(w, c)'
    <3>1. PICK k \in 1..n : slot[w][k].id = c
      BY <2>2, <2>10, KnownIs
    <3>2. k # i
      BY <2>3, <2>10, <3>1
    <3>3. PICK j : j = IF k > i THEN k - 1 ELSE k
      OBVIOUS
    <3>4. j \in 1..(n - 1) /\ (j >= i => k = j + 1) /\ (~(j >= i) => k = j)
      BY <2>3, <3>2, <3>3
    <3>5. slot'[w][j].id = c
      BY <2>7, <3>1, <3>4
    <3>6. j \in Slots /\ j <= count'[w]
      BY <2>2, <2>5, <2>6, <3>4
    <3> QED
      BY <3>5, <3>6 DEF Known, Holds
  <2> QED
    BY <2>2, <2>5, <2>8, <2>9, <2>10
<1> QED
  BY <1>1, <1>2 DEF RemoveId

-----------------------------------------------------------------------------
(* The steps of the listener.                                              *)

(* What it takes from an orderly window's queue: an answer, if the window  *)
(* waits for one, and then the only one.                                   *)
LEMMA OrderlyReply ==
  ASSUME TypeOK, NEW w \in Window, WindowInv(w), replies[w] # <<>>
  PROVE  /\ orderly[w] => alone[w]
         /\ alone[w] /\ Submitted(w) =>
              /\ result[w] = "pending" /\ ~authDone[w]
              /\ Answered(w, Ok(user[w])) \/ Answered(w, Error)
              /\ Packet(w).type # "chan"
         /\ orderly[w] /\ Creating(w) =>
              \/ Answered(w, Error)
              \/ \E n \in 1..(nextChannel - 1) : Created(w, n)
         /\ orderly[w] /\ Deleting(w) =>
              \/ Answered(w, Error)
              \/ Answered(w, Ok(0)) /\ Target(w) \notin Ids(channels)
         /\ orderly[w] /\ Busy(w) => Packet(w).type # "chan"
<1>1. \A r : ~Asked(w, r)
  BY DEF Asked
<1>2. \A r : Answered(w, r) => Packet(w) = r
  BY DEF Answered, Packet
<1>3. alone[w] /\ Submitted(w) =>
        /\ result[w] = "pending" /\ ~authDone[w]
        /\ Answered(w, Ok(user[w])) \/ Answered(w, Error)
  BY <1>1 DEF WindowInv, LoginInv, Unanswered
<1>4. orderly[w] /\ Creating(w) => \/ Answered(w, Error)
                                   \/ \E n \in 1..(nextChannel - 1) : Created(w, n)
  BY <1>1 DEF WindowInv, CreateInv, Asking
<1>5. orderly[w] /\ Deleting(w) => \/ Answered(w, Error)
                                   \/ Answered(w, Ok(0)) /\ Target(w) \notin Ids(channels)
  BY <1>1 DEF WindowInv, DeleteInv
<1>6. (alone[w] /\ Submitted(w)) \/ (orderly[w] /\ Busy(w)) =>
        Answered(w, Error) \/ \E n : Answered(w, Ok(n))
  BY <1>3, <1>4, <1>5 DEF Busy, Created
<1>7. (alone[w] /\ Submitted(w)) \/ (orderly[w] /\ Busy(w)) => Packet(w).type # "chan"
  BY <1>2, <1>6, ReplyKinds
<1>8. orderly[w] => alone[w]
  BY DEF WindowInv, LoginInv
<1> QED
  BY <1>3, <1>4, <1>5, <1>7, <1>8

(* What the listener leaves alone.                                         *)
ServerSame(w) ==
  /\ StoreSame /\ user'[w] = user[w] /\ channel'[w] = channel[w]
  /\ requests'[w] = requests[w] /\ screen'[w] = screen[w] /\ ui'[w] = ui[w]

LEMMA ReceiveAuthKeeps ==
  ASSUME TypeOK, NEW w \in Window, WindowInv(w), ReceiveAuth(w)
  PROVE  WindowInv(w)'
<1>1. /\ ServerSame(w) /\ FlagsSame(w) /\ ListSame(w) /\ made'[w] = made[w]
      /\ alone'[w] = alone[w] /\ steady'[w] = steady[w] /\ ~authDone[w]
  BY DEF ReceiveAuth, TypeOK, storeVars, flagVars, listVars, serverVars, ServerSame,
     StoreSame, FlagsSame, ListSame
<1>2. /\ Taken(w) /\ joining[w] = 0 /\ Packet(w) \in Within(replies[w])
      /\ Packet(w).type \in {"ok", "error"}
      /\ orderly'[w] => orderly[w] /\ ui[w] = Idle
  <2>1. Receives(w, {"ok", "error"}) /\ requests' = requests
    BY DEF ReceiveAuth
  <2>2. Packet(w).type \in {"ok", "error"}
    BY <2>1, TakenIs
  <2> QED
    BY <2>1, <2>2, TakenIs
<1>3. \/ /\ Packet(w).type = "ok" /\ userId'[w] = Packet(w).id
         /\ result'[w] = "ok" /\ authDone'[w]
      \/ /\ Packet(w).type = "error" /\ result'[w] = "error"
         /\ userId'[w] = userId[w] /\ authDone'[w] = authDone[w]
  BY DEF ReceiveAuth, TypeOK
<1>4. Within(replies'[w]) \subseteq Within(replies[w])
  BY <1>2, TakenWithin
<1>5. RepliesInv(w)'
  BY <1>1, <1>2, RepliesTaken, StoreSameGrows DEF WindowInv, ServerSame, FlagsSame
<1>6. NobodyInv(w)'
  BY <1>1, <1>2, <1>3, <1>4 DEF WindowInv, NobodyInv, ServerSame, FlagsSame
<1>7. /\ alone[w] => screen[w] # "chat"
      /\ orderly[w] => ~Busy(w)
  BY <1>1 DEF WindowInv, LoginInv, CreateInv, DeleteInv, Busy
<1>8. LoginInv(w)'
  <2>1. ASSUME alone[w], Submitted(w)
        PROVE  /\ requests'[w] = <<>> /\ replies'[w] = <<>>
               /\ \/ result'[w] = "ok" /\ authDone'[w] /\ userId'[w] = user[w]
                  \/ result'[w] = "error"
               /\ joining[w] = 0 /\ ui[w] = Idle
    <3>1. PICK r : Answered(w, r) /\ (r = Ok(user[w]) \/ r = Error)
      BY <1>2, <2>1, OrderlyReply DEF Taken
    <3>2. Packet(w) = r /\ Tail(replies[w]) = <<>>
      BY <3>1 DEF Answered, Packet
    <3>3. Packet(w).type = "ok" => Packet(w).id = user[w]
      BY <3>1, <3>2, ReplyKinds
    <3>4. joining[w] = 0 /\ ui[w] = Idle
      BY <2>1 DEF WindowInv, LoginInv
    <3>5. requests'[w] = <<>> /\ replies'[w] = <<>>
      BY <1>2, <3>1, <3>2 DEF Answered, Taken
    <3> QED
      BY <1>3, <3>3, <3>4, <3>5
  <2>2. /\ orderly[w] => alone[w]
        /\ orderly[w] /\ Submitted(w) => ~Expecting(w)
    BY DEF WindowInv, LoginInv
  <2> QED
    BY <1>1, <1>2, <1>7, <2>1, <2>2
       DEF LoginInv, ServerSame, FlagsSame, Unanswered, Expecting, Submitted
<1>9. Busy(w)' = Busy(w)
  BY <1>1 DEF Busy, Creating, Deleting, ServerSame, FlagsSame
<1>10. CreateInv(w)' /\ DeleteInv(w)'
  BY <1>1, <1>2, <1>7, <1>9, IdleFlags, QuietRequests DEF WindowInv, ServerSame
<1>11. ListInv(w)'
  BY <1>1, <1>2, <1>7, IdleList DEF WindowInv, ServerSame, ListSame
<1>12. LinesInv(w)'
  BY <1>1, LinesSame DEF WindowInv, ServerSame
<1> QED
  BY <1>5, <1>6, <1>8, <1>10, <1>11, <1>12 DEF WindowInv

(* What all steps but those of the auth phase have in common.              *)
LEMMA TakenKeeps ==
  ASSUME TypeOK, NEW w \in Window, WindowInv(w), ServerSame(w), AuthSame(w), Taken(w),
         orderly'[w] => orderly[w],
         user[w] # Nobody \/ joining'[w] = joining[w],
         joining'[w] # 0 => Packet(w).type = "chan",
         Packet(w).type = "chan" \/ authDone[w]
  PROVE  RepliesInv(w)' /\ NobodyInv(w)' /\ LoginInv(w)'
<1> USE DEF ServerSame, AuthSame
<1>1. RepliesInv(w)'
  BY RepliesTaken, StoreSameGrows DEF WindowInv, Packet
<1>2. Within(replies'[w]) \subseteq Within(replies[w])
  BY TakenWithin
<1>3. NobodyInv(w)'
  BY <1>2 DEF WindowInv, NobodyInv
<1>4. alone[w] => ~Submitted(w)
  BY OrderlyReply DEF Taken
<1>5. LoginInv(w)'
  BY <1>4 DEF WindowInv, LoginInv, Submitted
<1> QED
  BY <1>1, <1>3, <1>5

LEMMA IgnoreReplyKeeps ==
  ASSUME TypeOK, NEW w \in Window, WindowInv(w), IgnoreReply(w)
  PROVE  WindowInv(w)'
<1>1. /\ ServerSame(w) /\ AuthSame(w) /\ FlagsSame(w) /\ ListSame(w) /\ made'[w] = made[w]
      /\ steady'[w] = steady[w] /\ authDone[w] /\ ~Expecting(w)
  BY DEF IgnoreReply, TypeOK, storeVars, authVars, flagVars, listVars, serverVars,
     ServerSame, StoreSame, AuthSame, FlagsSame, ListSame
<1>2. /\ Taken(w) /\ joining[w] = 0
      /\ orderly'[w] => orderly[w] /\ ui[w] = Idle
  <2>1. Receives(w, {"ok", "error"}) /\ requests' = requests
    BY DEF IgnoreReply
  <2>2. Packet(w).type \in {"ok", "error"}
    BY <2>1, TakenIs
  <2> QED
    BY <2>1, <2>2, TakenIs
<1>3. RepliesInv(w)' /\ NobodyInv(w)' /\ LoginInv(w)'
  BY <1>1, <1>2, TakenKeeps DEF FlagsSame
<1>4. orderly'[w] => orderly[w] /\ ~Busy(w) /\ ~Busy(w)'
  <2>1. orderly'[w] => orderly[w] /\ ~Busy(w)
    BY <1>1, <1>2, NotBusy
  <2>2. Busy(w)' = Busy(w)
    BY <1>1 DEF Busy, Creating, Deleting, ServerSame, FlagsSame
  <2> QED
    BY <2>1, <2>2
<1>5. CreateInv(w)' /\ DeleteInv(w)'
  BY <1>1, <1>4, IdleFlags, QuietRequests DEF WindowInv, ServerSame
<1>6. ListInv(w)'
  BY <1>1, <1>4, IdleList DEF WindowInv, ServerSame, ListSame
<1>7. LinesInv(w)'
  BY <1>1, LinesSame DEF WindowInv, ServerSame
<1> QED
  BY <1>3, <1>5, <1>6, <1>7 DEF WindowInv

LEMMA ReceiveChanKeeps ==
  ASSUME TypeOK, TypeOK', NEW w \in Window, WindowInv(w), ReceiveChan(w)
  PROVE  WindowInv(w)'
<1>1. /\ ServerSame(w) /\ AuthSame(w) /\ made'[w] = made[w]
      /\ create'[w] = create[w] /\ delete'[w] = delete[w] /\ KeepShown(w)
  BY DEF ReceiveChan, TypeOK, storeVars, authVars, serverVars, ServerSame, StoreSame, AuthSame
<1>2. /\ Taken(w) /\ joining[w] = 0 /\ Packet(w) \in Within(replies[w])
      /\ Packet(w).type = "chan" /\ orderly'[w] = orderly[w]
  <2>1. Receives(w, {"chan"}) /\ requests' = requests
    BY DEF ReceiveChan
  <2>2. Packet(w).type \in {"chan"}
    BY <2>1, TakenIs
  <2>3. orderly'[w] = (orderly[w] /\ (ui[w] = Idle \/ Packet(w).type = "chan"))
    BY <2>1, TakenIs
  <2>4. orderly[w] \in BOOLEAN /\ orderly'[w] \in BOOLEAN
    BY DEF TypeOK
  <2> QED
    BY <2>1, <2>2, <2>3, <2>4, TakenIs
<1>3. /\ Packet(w).id \in Nat \ {0} /\ Packet(w).private \in BOOLEAN
      /\ Row(Packet(w).id, Packet(w).name, Packet(w).private)
  <2>1. Packet(w) \in Reply
    BY <1>2, QueuesAre, WithinFacts DEF Taken
  <2>2. Packet(w).id \in Nat \ {0} /\ Packet(w).private \in BOOLEAN
    BY <1>2, <2>1, ReplyParts
  <2> QED
    BY <1>2, <2>2 DEF WindowInv, RepliesInv
<1>4. user[w] # Nobody
  BY <1>2 DEF WindowInv, NobodyInv
<1>5. RepliesInv(w)' /\ NobodyInv(w)' /\ LoginInv(w)'
  BY <1>1, <1>2, <1>4, TakenKeeps
<1>6. orderly[w] => ~Busy(w) /\ ~Busy(w)'
  <2>1. orderly[w] => ~Busy(w)
    BY <1>2, OrderlyReply DEF Taken
  <2>2. Busy(w)' = Busy(w)
    BY <1>1 DEF Busy, Creating, Deleting, ServerSame
  <2> QED
    BY <2>1, <2>2
<1>7. CreateInv(w)' /\ DeleteInv(w)'
  BY <1>1, <1>2, <1>6, IdleFlags, QuietRequests DEF WindowInv, ServerSame
<1>8. PICK id, name, private : /\ id = Packet(w).id /\ name = Fields(Packet(w))[1]
                               /\ private = (Fields(Packet(w))[2] \in Truthy)
  OBVIOUS
<1>9. Shows(id, Cut[name], private)' /\ id # 0
  <2>1. PICK row \in rowsEver : /\ row.id = id /\ row.name = Packet(w).name
                                /\ row.private = Packet(w).private
    BY <1>3, <1>8 DEF Row
  <2>2. Fields(row) = Fields(Packet(w))
    BY <2>1 DEF Fields
  <2>3. Plain(row) => name = row.name /\ private = row.private
    <3>1. SUFFICES ASSUME Plain(row) PROVE name = row.name /\ private = row.private
      OBVIOUS
    <3>2. name = row.name /\ private = (Lock(row.private) \in Truthy)
      BY <1>8, <2>2, <3>1 DEF Plain
    <3>3. row.private \in BOOLEAN
      BY <1>3, <2>1
    <3> QED
      BY <3>2, <3>3, ClientAssumption DEF Lock
  <2>4. Shows(id, Cut[name], private)
    BY <2>1, <2>3 DEF Shows
  <2> QED
    BY <1>1, <1>3, <1>8, <2>4, ShowsSame DEF ServerSame, StoreSame
<1>10. \A nr, nm, pr : Shows(nr, nm, pr)' = Shows(nr, nm, pr)
  BY <1>1, ShowsSame DEF ServerSame, StoreSame
<1>11. CASE UNCHANGED <<slot, count>>
  <2>1. ListInv(w)'
    BY <1>1, <1>2, <1>6, <1>11, IdleList DEF WindowInv, ServerSame
  <2>2. LinesInv(w)'
    BY <1>1, <1>11, LinesListed DEF WindowInv, ServerSame, LinesInv
  <2> QED
    BY <1>5, <1>7, <2>1, <2>2 DEF WindowInv
<1>12. CASE ~Known(w, Packet(w).id) /\ AddChan(w)
  <2>1. ~Known(w, id) /\ Add(w, id, name, private)
    BY <1>8, <1>12 DEF AddChan
  <2>2. /\ \A i \in 1..count'[w] :
             \/ i \in 1..count[w] /\ slot'[w][i] = slot[w][i]
             \/ /\ i = count[w] + 1 /\ slot'[w][i].id = id
                /\ slot'[w][i].name = Cut[name] /\ slot'[w][i].private = private
        /\ \A c : Known(w, c) => Known(w, c)'
    BY <2>1, AddEffect
  <2>3. ListInv(w)'
    <3>1. ASSUME orderly[w], NEW i \in 1..count'[w]
          PROVE  Shows(slot'[w][i].id, slot'[w][i].name, slot'[w][i].private)
      BY <1>9, <1>10, <2>2, <3>1 DEF WindowInv, ListInv
    <3>2. ASSUME orderly[w], NEW i \in 1..count'[w], NEW j \in 1..count'[w],
                 slot'[w][i].id = slot'[w][j].id
          PROVE  i = j
      <4>1. \A k \in 1..count[w] : slot[w][k].id # id
        BY <2>1, KnownIs
      <4> QED
        BY <2>2, <3>2, <4>1 DEF WindowInv, ListInv
    <3>3. orderly[w] => \A c \in made[w] \cap Ids(channels) : Known(w, c)'
      BY <1>6, <2>2 DEF WindowInv, ListInv, Busy
    <3>4. /\ channels' = channels /\ nextChannel' = nextChannel
          /\ made'[w] = made[w] /\ orderly'[w] = orderly[w]
      BY <1>1, <1>2 DEF ServerSame, StoreSame
    <3> QED
      BY <1>10, <3>1, <3>2, <3>3, <3>4 DEF WindowInv, ListInv
  <2>4. LinesInv(w)'
    <3>1. \A i \in 1..count'[w] : slot'[w][i].id # 0
      BY <1>9, <2>2 DEF WindowInv, LinesInv
    <3> QED
      BY <1>1, <3>1, LinesListed DEF WindowInv, ServerSame
  <2> QED
    BY <1>5, <1>7, <2>3, <2>4 DEF WindowInv
<1> QED
  BY <1>11, <1>12 DEF ReceiveChan

LEMMA AckCreateKeeps ==
  ASSUME TypeOK, TypeOK', NEW w \in Window, WindowInv(w), AckCreate(w)
  PROVE  WindowInv(w)'
<1>1. /\ ServerSame(w) /\ AuthSame(w) /\ joining'[w] = joining[w]
      /\ delete'[w] = delete[w] /\ KeepShown(w) /\ create[w].set /\ authDone[w]
  BY DEF AckCreate, TypeOK, storeVars, authVars, serverVars, ServerSame, StoreSame, AuthSame
<1>2. create'[w].set = FALSE
  BY CreateUnset DEF AckCreate
<1>3. /\ Taken(w) /\ joining[w] = 0
      /\ orderly'[w] => orderly[w] /\ ui[w] = Idle
      /\ Packet(w).type \in {"ok", "error"}
  <2>1. Receives(w, {"ok", "error"}) /\ requests' = requests
    BY DEF AckCreate
  <2>2. Packet(w).type \in {"ok", "error"}
    BY <2>1, TakenIs
  <2> QED
    BY <2>1, <2>2, TakenIs
<1>4. RepliesInv(w)' /\ NobodyInv(w)' /\ LoginInv(w)'
  BY <1>1, <1>3, TakenKeeps
<1>5. PICK id, name, private : id = Packet(w).id /\ name = create[w].name
                               /\ private = create[w].private
  OBVIOUS
<1>6. Creating(w) /\ NotedName(w) = name /\ NotedLock(w) = private
  BY <1>1, <1>5 DEF Creating, NotedName, NotedLock
<1>7. orderly[w] => ~delete[w].set
  BY <1>6 DEF WindowInv, CreateInv
<1>8. orderly'[w] => ~Busy(w)'
  <2>1. ui[w] = Idle => ui'[w].at = "idle"
    BY <1>1, UIKinds DEF ServerSame
  <2> QED
    BY <1>1, <1>2, <1>3, <1>7, <2>1 DEF Busy, Creating, Deleting
<1>9. orderly[w] => \/ Answered(w, Error)
                    \/ /\ Answered(w, Ok(id)) /\ id > 0 /\ ~Known(w, id)
                       /\ Shows(id, Cut[name], private) /\ Packet(w) = Ok(id)
  <2>1. ASSUME orderly[w], NEW n \in 1..(nextChannel - 1), Created(w, n)
        PROVE  /\ Answered(w, Ok(id)) /\ id > 0 /\ ~Known(w, id)
               /\ Shows(id, Cut[name], private) /\ Packet(w) = Ok(id)
    <3>1. Packet(w) = Ok(n)
      BY <2>1 DEF Created, Answered, Packet
    <3>2. id = n
      BY <1>5, <3>1, ReplyKinds
    <3>3. n > 0
      BY DEF TypeOK, StoreTypeOK
    <3>4. Shows(n, name, private)
      BY <1>6, <2>1 DEF Created
    <3>5. Shows(n, Cut[name], private)
      BY <3>4, Constants DEF Shows, TypeOK, ChannelRow
    <3> QED
      BY <1>5, <1>6, <2>1, <3>1, <3>2, <3>3, <3>5 DEF Created
  <2> QED
    BY <1>3, <1>6, <2>1, OrderlyReply DEF Taken
<1>10. CreateInv(w)' /\ DeleteInv(w)'
  <2>1. orderly[w] => requests'[w] = <<>>
    BY <1>1, <1>9 DEF Answered, ServerSame
  <2>2. orderly[w] => \A request \in Within(requests'[w]) : request.type # "create"
    BY <2>1, WithinShort
  <2> QED
    BY <1>3, <1>8, <2>2, IdleFlags
<1>11. /\ channels' = channels /\ nextChannel' = nextChannel
       /\ \A nr, nm, pr : Shows(nr, nm, pr)' = Shows(nr, nm, pr)
  BY <1>1, ShowsSame DEF ServerSame, StoreSame
<1>12. CASE UNCHANGED <<slot, count, made>>
            /\ ~(Packet(w).type = "ok" /\ Packet(w).id > 0)
  <2>1. /\ slot'[w] = slot[w] /\ count'[w] = count[w] /\ made'[w] = made[w]
        /\ \A c : Known(w, c)' = Known(w, c)
    BY <1>12 DEF Known, Holds
  <2>2. orderly'[w] => orderly[w] /\ Answered(w, Error)
    BY <1>3, <1>5, <1>9, <1>12, ReplyKinds
  <2>3. Answered(w, Error) => \A c : ~Answered(w, Ok(c))
    <3>1. \A c : <<Error>> # <<Ok(c)>>
      BY DEF Error, Ok
    <3> QED
      BY <3>1 DEF Answered
  <2>4. orderly'[w] => \A c \in made[w] \cap Ids(channels) : Known(w, c)
    BY <2>2, <2>3 DEF WindowInv, ListInv
  <2>5. ListInv(w)'
    BY <1>11, <2>1, <2>2, <2>4 DEF WindowInv, ListInv
  <2>6. LinesInv(w)'
    BY <1>1, <2>1, LinesListed DEF WindowInv, ServerSame, LinesInv
  <2> QED
    BY <1>4, <1>10, <2>5, <2>6 DEF WindowInv
<1>13. CASE /\ Packet(w).type = "ok" /\ Packet(w).id > 0
            /\ Add(w, Packet(w).id, create[w].name, create[w].private)
            /\ made' = IF Full(w) THEN [made EXCEPT ![w] = @ \ {Packet(w).id}] ELSE made
  <2>1. Add(w, id, name, private) /\ id # 0
    <3>1. id # 0
      BY <1>5, <1>13
    <3> QED
      BY <1>5, <1>13, <3>1
  <2>2. /\ \A i \in 1..count'[w] :
             \/ i \in 1..count[w] /\ slot'[w][i] = slot[w][i]
             \/ /\ i = count[w] + 1 /\ slot'[w][i].id = id
                /\ slot'[w][i].name = Cut[name] /\ slot'[w][i].private = private
        /\ \A c : Known(w, c) => Known(w, c)'
        /\ Full(w) \/ Known(w, id)'
    BY <2>1, AddEffect
  <2>3. made'[w] = IF Full(w) THEN made[w] \ {id} ELSE made[w]
    BY <1>5, <1>13 DEF TypeOK
  <2>4. orderly'[w] => /\ orderly[w] /\ Answered(w, Ok(id)) /\ ~Known(w, id)
                       /\ Shows(id, Cut[name], private)
    <3>1. ~Answered(w, Error)
      BY <1>13, ReplyKinds DEF Answered, Packet
    <3> QED
      BY <1>3, <1>9, <3>1
  <2>5. ListInv(w)'
    <3>1. ASSUME orderly'[w], NEW i \in 1..count'[w]
          PROVE  Shows(slot'[w][i].id, slot'[w][i].name, slot'[w][i].private)
      BY <2>2, <2>4, <3>1 DEF WindowInv, ListInv
    <3>2. ASSUME orderly'[w], NEW i \in 1..count'[w], NEW j \in 1..count'[w],
                 slot'[w][i].id = slot'[w][j].id
          PROVE  i = j
      <4>1. \A k \in 1..count[w] : slot[w][k].id # id
        BY <2>4, <3>2, KnownIs
      <4> QED
        BY <2>2, <2>4, <3>2, <4>1 DEF WindowInv, ListInv
    <3>3. ASSUME orderly'[w], NEW c \in made'[w] \cap Ids(channels) PROVE Known(w, c)'
      <4>1. CASE c = id
        BY <2>2, <2>3, <4>1
      <4>2. CASE c # id
        <5>1. ~Answered(w, Ok(c))
          <6>1. Packet(w) = Ok(id)
            BY <2>4, <3>3 DEF Answered, Packet
          <6>2. Ok(id) # Ok(c)
            BY <4>2, ReplyKinds
          <6> QED
            BY <6>1, <6>2 DEF Answered, Packet
        <5>2. Known(w, c)
          BY <2>3, <2>4, <3>3, <5>1 DEF WindowInv, ListInv
        <5> QED
          BY <2>2, <5>2
      <4> QED
        BY <4>1, <4>2
    <3>4. \A c \in made'[w] : c < nextChannel
      BY <2>3 DEF WindowInv, ListInv
    <3> QED
      BY <1>11, <3>1, <3>2, <3>3, <3>4 DEF ListInv
  <2>6. LinesInv(w)'
    <3>1. \A i \in 1..count'[w] : slot'[w][i].id # 0
      BY <2>1, <2>2 DEF WindowInv, LinesInv
    <3> QED
      BY <1>1, <3>1, LinesListed DEF WindowInv, ServerSame
  <2> QED
    BY <1>4, <1>10, <2>5, <2>6 DEF WindowInv
<1> QED
  BY <1>12, <1>13 DEF AckCreate

LEMMA AckDeleteKeeps ==
  ASSUME TypeOK, TypeOK', NEW w \in Window, WindowInv(w), AckDelete(w)
  PROVE  WindowInv(w)'
<1>1. /\ ServerSame(w) /\ AuthSame(w) /\ joining'[w] = joining[w] /\ made'[w] = made[w]
      /\ create'[w] = create[w] /\ KeepShown(w) /\ delete[w].set /\ ~create[w].set
      /\ authDone[w]
  BY DEF AckDelete, TypeOK, storeVars, authVars, serverVars, ServerSame, StoreSame, AuthSame
<1>2. delete'[w].set = FALSE
  BY DeleteUnset DEF AckDelete
<1>3. /\ Taken(w) /\ joining[w] = 0
      /\ orderly'[w] => orderly[w] /\ ui[w] = Idle
      /\ Packet(w).type \in {"ok", "error"}
  <2>1. Receives(w, {"ok", "error"}) /\ requests' = requests
    BY DEF AckDelete
  <2>2. Packet(w).type \in {"ok", "error"}
    BY <2>1, TakenIs
  <2> QED
    BY <2>1, <2>2, TakenIs
<1>4. RepliesInv(w)' /\ NobodyInv(w)' /\ LoginInv(w)'
  BY <1>1, <1>3, TakenKeeps
<1>5. PICK id : id = delete[w].id
  OBVIOUS
<1>6. Deleting(w) /\ Target(w) = id
  BY <1>1, <1>5 DEF Deleting, Target
<1>7. orderly'[w] => ~Creating(w) /\ ~Busy(w)'
  <2>1. ui[w] = Idle => ui[w].at = "idle" /\ ui'[w].at = "idle"
    BY <1>1, UIKinds DEF ServerSame
  <2> QED
    BY <1>1, <1>2, <1>3, <2>1 DEF Busy, Creating, Deleting
<1>8. orderly[w] => \/ Answered(w, Error)
                    \/ Answered(w, Ok(0)) /\ id \notin Ids(channels)
  BY <1>3, <1>6, OrderlyReply DEF Taken
<1>9. CreateInv(w)' /\ DeleteInv(w)'
  <2>1. orderly[w] => requests'[w] = <<>>
    BY <1>1, <1>8 DEF Answered, ServerSame
  <2>2. orderly[w] => \A request \in Within(requests'[w]) : request.type # "create"
    BY <2>1, WithinShort
  <2> QED
    BY <1>3, <1>7, <2>2, IdleFlags
<1>10. /\ channels' = channels /\ nextChannel' = nextChannel
       /\ \A nr, nm, pr : Shows(nr, nm, pr)' = Shows(nr, nm, pr)
  BY <1>1, ShowsSame DEF ServerSame, StoreSame
<1>11. \/ UNCHANGED listVars
       \/ Packet(w).type = "ok" /\ RemoveId(w, id)
  BY <1>5 DEF AckDelete
<1>12. /\ \A i \in 1..count'[w] : \E k \in 1..count[w] : slot'[w][i] = slot[w][k]
       /\ (\A i, j \in 1..count[w] : slot[w][i].id = slot[w][j].id => i = j)
            => \A i, j \in 1..count'[w] : slot'[w][i].id = slot'[w][j].id => i = j
       /\ \A c : Known(w, c) /\ (Packet(w).type # "ok" \/ c # id) => Known(w, c)'
  <2>1. CASE UNCHANGED listVars
    BY <2>1 DEF listVars, Known, Holds
  <2>2. CASE Packet(w).type = "ok" /\ RemoveId(w, id)
    BY <2>2, RemoveEffect
  <2> QED
    BY <1>11, <2>1, <2>2
<1>13. ListInv(w)'
  <2>1. ASSUME orderly'[w], NEW c \in made[w] \cap Ids(channels) PROVE Known(w, c)'
    <3>1. Known(w, c)
      BY <1>3, <1>7, <2>1 DEF WindowInv, ListInv
    <3>2. Packet(w).type # "ok" \/ c # id
      <4>1. Answered(w, Error) => Packet(w).type # "ok"
        BY ReplyKinds DEF Answered, Packet
      <4> QED
        BY <1>3, <1>8, <2>1, <4>1
    <3> QED
      BY <1>12, <3>1, <3>2
  <2>2. ASSUME orderly'[w], NEW i \in 1..count'[w]
        PROVE  Shows(slot'[w][i].id, slot'[w][i].name, slot'[w][i].private)
    BY <1>3, <1>12, <2>2 DEF WindowInv, ListInv
  <2>3. orderly'[w] =>
          \A i, j \in 1..count'[w] : slot'[w][i].id = slot'[w][j].id => i = j
    BY <1>3, <1>12 DEF WindowInv, ListInv
  <2> QED
    BY <1>1, <1>10, <2>1, <2>2, <2>3 DEF WindowInv, ListInv
<1>14. LinesInv(w)'
  <2>1. \A i \in 1..count'[w] : slot'[w][i].id # 0
    BY <1>12 DEF WindowInv, LinesInv
  <2> QED
    BY <1>1, <2>1, LinesListed DEF WindowInv, ServerSame
<1> QED
  BY <1>4, <1>9, <1>13, <1>14 DEF WindowInv

(* Nothing the server still has goes.                                      *)
LEMMA AckDeleteDrops ==
  ASSUME TypeOK, TypeOK', NEW w \in Window, WindowInv(w), AckDelete(w), orderly'[w],
         NEW c \in Ids(channels), Known(w, c)
  PROVE  Known(w, c)'
<1>1. /\ Taken(w) /\ orderly[w] /\ ui[w] = Idle /\ delete[w].set
  <2>1. Receives(w, {"ok", "error"}) /\ requests' = requests
    BY DEF AckDelete
  <2>2. Packet(w).type \in {"ok", "error"}
    BY <2>1, TakenIs
  <2> QED
    BY <2>1, <2>2, TakenIs DEF AckDelete
<1>2. PICK id : id = delete[w].id
  OBVIOUS
<1>3. Deleting(w) /\ Target(w) = id
  BY <1>1, <1>2 DEF Deleting, Target
<1>4. Answered(w, Error) \/ (Answered(w, Ok(0)) /\ id \notin Ids(channels))
  BY <1>1, <1>3, OrderlyReply DEF Taken
<1>5. CASE Packet(w).type = "ok"
  <2>1. ~Answered(w, Error)
    BY <1>5, ReplyKinds DEF Answered, Packet
  <2>2. c # id /\ RemoveId(w, id)
    BY <1>2, <1>4, <1>5, <2>1 DEF AckDelete
  <2> QED
    BY <2>2, RemoveEffect
<1>6. CASE Packet(w).type # "ok"
  <2>1. slot' = slot /\ count' = count
    BY <1>6 DEF AckDelete, listVars
  <2> QED
    BY <2>1 DEF Known, Holds
<1> QED
  BY <1>5, <1>6

LEMMA KnownKept ==
  ASSUME TypeOK, TypeOK', NEW w \in Window, ~AckDelete(w), [Next]_vars, NEW c, Known(w, c)
  PROVE  Known(w, c)'
<1>1. CASE slot'[w] = slot[w] /\ count'[w] = count[w]
  BY <1>1 DEF Known, Holds
<1>2. ASSUME NEW id, NEW name, NEW private, Add(w, id, name, private)
      PROVE  Known(w, c)'
  BY <1>2, AddEffect
<1>3. CASE UNCHANGED vars
  <2>1. slot' = slot /\ count' = count
    BY <1>3 DEF vars, listVars
  <2> QED
    BY <1>1, <2>1
<1>4. ASSUME NEW v \in Window, v # w,
             UserClicks(v) \/ UIThread(v) \/ ServerThread(v) \/ Listener(v)
      PROVE  Known(w, c)'
  BY <1>1, <1>4, OthersSame DEF Same, ListSame
<1>5. CASE UserClicks(w) \/ UIThread(w)
  <2>1. slot' = slot /\ count' = count
    BY <1>5 DEF UserClicks, SubmitAuth, Logout, ClickCreate, ClickDelete, SelectChannel,
         TypeLine, ClickOther, UIThread, PollEnds, EnterChat, BackToAuth, ArmCreate, ArmDelete, listVars
  <2> QED
    BY <1>1, <2>1
<1>6. CASE ServerThread(w)
  <2>1. UNCHANGED clientVars
    BY <1>6 DEF ServerThread, HandleAuth, HandleList, HandleCreate, HandleDelete,
         HandleJoin, HandleLine, HandleOther
  <2> QED
    BY <1>1, <2>1 DEF clientVars, listVars
<1>7. CASE Listener(w)
  <2>1. CASE ReceiveAuth(w) \/ IgnoreReply(w) \/ JoinFirst(w)
    <3>1. slot' = slot /\ count' = count
      BY <2>1 DEF ReceiveAuth, IgnoreReply, JoinFirst, listVars
    <3> QED
      BY <1>1, <3>1
  <2>2. CASE AckCreate(w)
    <3>1. \/ Add(w, Packet(w).id, create[w].name, create[w].private)
          \/ slot' = slot /\ count' = count
      BY <2>2 DEF AckCreate
    <3>2. CASE Add(w, Packet(w).id, create[w].name, create[w].private)
      <4>1. PICK id, name, private : id = Packet(w).id /\ name = create[w].name
                                     /\ private = create[w].private
        OBVIOUS
      <4> QED
        BY <1>2, <3>2, <4>1
    <3> QED
      BY <1>1, <3>1, <3>2
  <2>3. CASE ReceiveChan(w)
    <3>1. \/ Add(w, Packet(w).id, Fields(Packet(w))[1], Fields(Packet(w))[2] \in Truthy)
          \/ slot' = slot /\ count' = count
      BY <2>3 DEF ReceiveChan, AddChan
    <3>2. CASE Add(w, Packet(w).id, Fields(Packet(w))[1], Fields(Packet(w))[2] \in Truthy)
      <4>1. PICK id, name, private : /\ id = Packet(w).id /\ name = Fields(Packet(w))[1]
                                     /\ private = (Fields(Packet(w))[2] \in Truthy)
        OBVIOUS
      <4> QED
        BY <1>2, <3>2, <4>1
    <3> QED
      BY <1>1, <3>1, <3>2
  <2> QED
    BY <1>7, <2>1, <2>2, <2>3 DEF Listener
<1> QED
  BY <1>3, <1>4, <1>5, <1>6, <1>7 DEF Next

-----------------------------------------------------------------------------
(* The invariant.                                                          *)

LEMMA WindowsInit ==
  ASSUME Init, TypeOK, NEW w \in Window
  PROVE  WindowInv(w)
<1>1. /\ screen[w] = "auth" /\ result[w] = "pending" /\ joining[w] = 0 /\ alone[w]
      /\ ~create[w].set /\ ~delete[w].set /\ ui[w] = Idle
      /\ requests[w] = <<>> /\ replies[w] = <<>> /\ count[w] = 0 /\ made[w] = {}
  BY DEF Init
<1>2. ~Busy(w)
  BY <1>1, NotBusy DEF Expecting
<1>3. Within(requests[w]) = {} /\ Within(replies[w]) = {}
  BY <1>1, WithinShort
<1>4. RepliesInv(w) /\ NobodyInv(w) /\ LoginInv(w)
  BY <1>1, <1>3 DEF RepliesInv, NobodyInv, LoginInv, Submitted, Expecting
<1>5. CreateInv(w) /\ DeleteInv(w)
  BY <1>2, <1>3 DEF CreateInv, DeleteInv, Busy
<1>6. 1..count[w] = {}
  BY <1>1
<1>7. ListInv(w)
  BY <1>1, <1>6 DEF ListInv
<1>8. LinesInv(w)
  <2>1. 1..Len(requests[w]) = {}
    BY <1>1
  <2> QED
    BY <1>1, <1>6, <2>1 DEF LinesInv
<1> QED
  BY <1>4, <1>5, <1>7, <1>8 DEF WindowInv

LEMMA ActorKeeps ==
  ASSUME TypeOK, StoreInv, TypeOK', StoreGrows, NEW w \in Window, WindowInv(w),
         UserClicks(w) \/ UIThread(w) \/ ServerThread(w) \/ Listener(w)
  PROVE  WindowInv(w)'
<1>1. CASE UserClicks(w)
  BY <1>1, SubmitAuthKeeps, LeaveKeeps, ClickCreateKeeps, ClickDeleteKeeps,
     SelectChannelKeeps, TypeLineKeeps, ClickOtherKeeps DEF UserClicks
<1>2. CASE UIThread(w)
  BY <1>2, EnterChatKeeps, LeaveKeeps, ArmCreateKeeps, ArmDeleteKeeps DEF UIThread
<1>3. CASE ServerThread(w)
  BY <1>3, HandleAuthKeeps, HandleListKeeps, HandleCreateKeeps, HandleDeleteKeeps,
     HandlePassingKeeps DEF ServerThread
<1>4. CASE Listener(w)
  BY <1>4, ReceiveAuthKeeps, AckCreateKeeps, AckDeleteKeeps, IgnoreReplyKeeps,
     ReceiveChanKeeps, JoinFirstKeeps DEF Listener
<1> QED
  BY <1>1, <1>2, <1>3, <1>4

LEMMA WindowsStep ==
  ASSUME IInv, [Next]_vars
  PROVE  IInv'
<1>1. TypeOK /\ StoreInv /\ \A w \in Window : WindowInv(w)
  BY DEF IInv
<1>2. TypeOK' /\ StoreInv' /\ StoreGrows
  BY <1>1, TypesStep, StoreStep
<1>3. ASSUME NEW w \in Window PROVE WindowInv(w)'
  <2>1. CASE UNCHANGED vars
    <3>1. Same(w)
      BY <2>1 DEF vars, storeVars, authVars, flagVars, listVars, queueVars, serverVars,
           ghostVars, Same, ListSame
    <3> QED
      BY <1>1, <1>2, <3>1, SameKeeps
  <2>2. ASSUME NEW v \in Window,
               UserClicks(v) \/ UIThread(v) \/ ServerThread(v) \/ Listener(v)
        PROVE  WindowInv(w)'
    <3>1. CASE v = w
      BY <1>1, <1>2, <2>2, <3>1, ActorKeeps
    <3>2. CASE v # w
      BY <1>1, <1>2, <2>2, <3>2, OthersSame, SameKeeps
    <3> QED
      BY <3>1, <3>2
  <2> QED
    BY <2>1, <2>2 DEF Next
<1> QED
  BY <1>2, <1>3 DEF IInv

LEMMA Invariant == Spec => []IInv
<1>1. Init => IInv
  BY TypesInit, WindowsInit DEF IInv
<1>2. IInv /\ [Next]_vars => IInv'
  BY WindowsStep
<1> QED
  BY <1>1, <1>2, PTL DEF Spec

-----------------------------------------------------------------------------
(* In the chat the connection of a window has a user, whatever was under   *)
(* way when it logged in; and if nothing was, it is the user the window    *)
(* takes itself for, whatever it did before or since: the one answer that  *)
(* can come while it waits for this login is its own                       *)
(* (auth_controller.c:23-43, ui_welcome.c:122-134, 180-231).               *)
THEOREM IdentityTrue == Spec => []IdentityRight
<1>1. IInv => IdentityRight
  BY DEF IInv, WindowInv, NobodyInv, LoginInv, IdentityRight
<1> QED
  BY <1>1, Invariant, PTL

(* What an orderly window lists is a row the table has or had, and no row  *)
(* twice, however often it logs in again, creates and deletes; under its   *)
(* name, cut to length, and with its lock if the row is one that strtok    *)
(* takes apart as it was put together (chat_controller.c:78-90, 115-145;   *)
(* channel.c:39-50).                                                       *)
THEOREM ListTrue == Spec => []ListTruthful
<1>1. IInv => ListTruthful
  <2> SUFFICES ASSUME IInv, NEW w \in Window, orderly[w], NEW i \in 1..count[w]
               PROVE  /\ \E row \in rowsEver :
                           /\ slot[w][i].id = row.id
                           /\ Plain(row) => /\ slot[w][i].name = Cut[row.name]
                                            /\ slot[w][i].private = row.private
                      /\ \A j \in 1..count[w] : slot[w][i].id = slot[w][j].id => i = j
    BY DEF ListTruthful
  <2>1. Shows(slot[w][i].id, slot[w][i].name, slot[w][i].private)
    BY DEF IInv, WindowInv, ListInv
  <2>2. \A j \in 1..count[w] : slot[w][i].id = slot[w][j].id => i = j
    BY DEF IInv, WindowInv, ListInv
  <2> QED
    BY <2>1, <2>2 DEF Shows
<1> QED
  BY <1>1, Invariant, PTL

(* A line goes to the channel that was shown when it was typed: of the     *)
(* requests before it the last that joins one joins that, or none does and *)
(* the session is there (client_handler.c:169-175, chat_controller.c:      *)
(* 503-509).                                                               *)
THEOREM LinesReach == Spec => []LinesPlaced
<1>1. IInv => LinesPlaced
  <2> SUFFICES ASSUME IInv, NEW w \in Window, Serves(w, "line"), Head(requests[w]).id # 0
               PROVE  channel[w] = Head(requests[w]).id
    BY DEF LinesPlaced
  <2>1. requests[w] \in Seq(Request) /\ requests[w] # <<>>
    BY QueuesAre DEF IInv, Serves
  <2>2. Head(requests[w]) = requests[w][1] /\ 1 \in 1..Len(requests[w])
    BY <2>1, HeadOf
  <2>3. Reached(w, 1 - 1, requests[w][1].id)
    BY <2>2 DEF IInv, WindowInv, LinesInv, Serves
  <2> QED
    BY <2>2, <2>3 DEF Reached, After
<1> QED
  BY <1>1, Invariant, PTL

(* A channel created from an orderly window is in its list once nothing is *)
(* under way, unless it was deleted since or there was no room             *)
(* (chat_controller.c:24-26, 79-85, 405-420).                              *)
THEOREM CreationsFound == Spec => []CreationsListed
<1>1. IInv => CreationsListed
  <2> SUFFICES ASSUME IInv, NEW w \in Window, orderly[w], Settled(w),
                      NEW c \in made[w] \cap Ids(channels)
               PROVE  Known(w, c)
    BY DEF CreationsListed
  <2>1. ~Answered(w, Ok(c))
    <3>1. replies[w] = <<>>
      BY DEF Settled, Unanswered
    <3>2. <<Ok(c)>> # <<>>
      OBVIOUS
    <3> QED
      BY <3>1, <3>2 DEF Answered
  <2> QED
    BY <2>1 DEF IInv, WindowInv, ListInv
<1> QED
  BY <1>1, Invariant, PTL

(* From an orderly window's list goes only a channel the table no longer   *)
(* has: a deletion is acknowledged by its own answer, which says that the  *)
(* channel is gone (chat_controller.c:95-104, db.c:300-304).               *)
THEOREM RemovalOrderly == Spec => OrderlyRemoval
<1>1. IInv /\ IInv' /\ [Next]_vars
        => [\A w \in Window : orderly[w]' => Dropped(w) \cap Ids(channels) = {}]_vars
  <2> SUFFICES ASSUME IInv, IInv', [Next]_vars, NEW w \in Window, orderly[w]',
                      NEW c \in Ids(channels), Known(w, c)
               PROVE  Known(w, c)'
    BY DEF Dropped
  <2>1. TypeOK /\ TypeOK' /\ WindowInv(w)
    BY DEF IInv
  <2> QED
    BY <2>1, AckDeleteDrops, KnownKept
<1> QED
  BY <1>1, Invariant, PTL DEF Spec, OrderlyRemoval
=============================================================================
