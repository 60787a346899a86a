---------------------------- MODULE DeletionProofs ----------------------------
(***************************************************************************)
(* Messaging: a deletion reaches every client that shows the message,      *)
(* for any number of sessions, several of one user among them.             *)
(***************************************************************************)
EXTENDS MessagingProofs

-----------------------------------------------------------------------------
(* A client's model holds an id once, so that one DELMSG takes it away.    *)
Once(v) == \A i, j \in DOMAIN v : v[i].id = v[j].id => i = j

ViewOnce == \A s \in Session : Once(view[s])

LEMMA AddedOnce ==
  ASSUME NEW v \in Seq(MessagePacket), NEW p \in MessagePacket, Once(v)
  PROVE  Once(Added(v, p))
  <1>1. CASE Holds(v, p.id)
    BY <1>1 DEF Added
  <1>2. ASSUME NEW w \in Seq(MessagePacket), Once(w), ~Holds(w, p.id)
        PROVE  Once(Append(w, p))
    <2>1. /\ DOMAIN w = 1..Len(w) /\ Len(w) \in Nat
          /\ DOMAIN Append(w, p) = 1..(Len(w) + 1)
          /\ Append(w, p)[Len(w) + 1] = p
          /\ \A i \in 1..Len(w) : Append(w, p)[i] = w[i]
      OBVIOUS
    <2> QED
      BY <1>2, <2>1 DEF Once, Holds
  <1>3. CASE ~Holds(v, p.id) /\ Full(v)
    <2> DEFINE w == Tail(v)
    <2>1. v # <<>>
      BY <1>3, MessagingAssumption DEF Full
    <2>2. /\ w \in Seq(MessagePacket) /\ Len(w) = Len(v) - 1
          /\ \A i \in 1..Len(w) : w[i] = v[i + 1]
      BY <2>1, HeadAndTail
    <2> HIDE DEF w
    <2>3. \A i \in DOMAIN w : i + 1 \in DOMAIN v /\ w[i] = v[i + 1] /\ i \in Nat
      BY <2>2
    <2>4. Once(w) /\ ~Holds(w, p.id)
      BY <1>3, <2>3 DEF Once, Holds
    <2>5. Once(Append(w, p))
      BY <1>2, <2>2, <2>4
    <2> QED
      BY <1>3, <2>5 DEF Added, w
  <1>4. CASE ~Holds(v, p.id) /\ ~Full(v)
    BY <1>2, <1>4 DEF Added
  <1> QED
    BY <1>1, <1>3, <1>4

LEMMA WithoutOnce ==
  ASSUME NEW v \in Seq(MessagePacket), NEW m, Once(v)
  PROVE  Once(Without(v, m)) /\ ~Holds(Without(v, m), m)
  <1>1. CASE ~Holds(v, m)
    BY <1>1 DEF Without
  <1>2. CASE Holds(v, m)
    <2> DEFINE i == CHOOSE j \in DOMAIN v : v[j].id = m
               w == [k \in 1..(Len(v) - 1) |-> IF k < i THEN v[k] ELSE v[k + 1]]
               from(k) == IF k < i THEN k ELSE k + 1
    <2>1. i \in DOMAIN v /\ v[i].id = m
      BY <1>2 DEF Holds
    <2>2. Without(v, m) = w
      BY <1>2 DEF Without
    <2>3. DOMAIN v = 1..Len(v) /\ Len(v) \in Nat
      OBVIOUS
    <2> HIDE DEF i
    <2>4. ASSUME NEW k \in DOMAIN w
          PROVE  from(k) \in DOMAIN v /\ from(k) # i /\ w[k] = v[from(k)] /\ k \in Nat
      BY <2>1, <2>3
    <2>5. \A k \in DOMAIN w : w[k].id # m
      BY <2>1, <2>4 DEF Once
    <2>6. ASSUME NEW k \in DOMAIN w, NEW l \in DOMAIN w, w[k].id = w[l].id
          PROVE  k = l
      <3>1. from(k) = from(l)
        <4> HIDE DEF from, w
        <4> QED
          BY <2>4, <2>6 DEF Once
      <3>2. k \in Nat /\ l \in Nat /\ i \in Nat
        BY <2>1, <2>3
      <3> QED
        BY <3>1, <3>2
    <2> QED
      BY <2>2, <2>5, <2>6 DEF Once, Holds
  <1> QED
    BY <1>1, <1>2

LEMMA ViewFrame ==
  ASSUME NEW s \in Session, StepOf(s), ~ReceiveMessage(s), ~ReceiveDeleted(s)
  PROVE  UNCHANGED view
  BY DEF StepOf, SelectChannel, TypeLine, ClickDelete, OpenMenu, PickFromMenu,
         HandleJoin, HandleSend, HandleDelete, HandleHistory, SendRow,
         LookAtReactions, TellReactions, EndOfHistory, HandleReaction, ClearReaction,
         InsertReaction, RemoveReaction, SelectReactions, LockRegistry, Visit,
         UnlockRegistry, ReceiveSummary, IgnoreReply, clientVars

LEMMA OnceStep == TypeOK /\ ViewOnce /\ [Next]_vars => ViewOnce'
  <1> SUFFICES ASSUME TypeOK, ViewOnce, [Next]_vars PROVE ViewOnce'
    OBVIOUS
  <1>1. CASE UNCHANGED view
    BY <1>1 DEF ViewOnce, Once
  <1>2. CASE Next
    <2> PICK s \in Session : StepOf(s)
      BY <1>2, NextCases
    <2>1. ASSUME NEW w, Once(w), view' = [view EXCEPT ![s] = w] PROVE ViewOnce'
      <3>1. \A t \in Session : view'[t] = view[t] \/ view'[t] = w
        BY <2>1 DEF TypeOK
      <3> QED
        BY <2>1, <3>1 DEF ViewOnce, Once
    <2>2. CASE ReceiveMessage(s)
      <3>1. Received(s) \in MessagePacket
        BY <2>2, ReceivesTypes, PacketShape DEF ReceiveMessage
      <3>2. Once(Added(view[s], Received(s)))
        BY <3>1, TypeUse, AddedOnce DEF ViewOnce
      <3> QED
        BY <2>1, <2>2, <3>2 DEF ReceiveMessage
    <2>3. CASE ReceiveDeleted(s)
      <3>1. Once(Without(view[s], Received(s).id))
        BY TypeUse, WithoutOnce DEF ViewOnce
      <3> QED
        BY <2>1, <2>3, <3>1 DEF ReceiveDeleted
    <2> QED
      BY <1>1, <2>2, <2>3, ViewFrame
  <1> QED
    BY <1>1, <1>2 DEF vars, clientVars

-----------------------------------------------------------------------------
(* A queue and a deletion: every MESSAGE with the id has the DELMSG behind *)
(* it, and the DELMSG is there if the model shows the message.             *)
In(q, p) == \E i \in DOMAIN q : q[i] = p

IsMessage(p, m) == p.type = "MESSAGE" /\ p.id = m

Answered(q, m) ==
  \A i \in DOMAIN q : IsMessage(q[i], m) =>
    \E j \in DOMAIN q : j > i /\ q[j] = Deleted(m)

Behind(q, v, m) == Answered(q, m) /\ (Holds(v, m) => In(q, Deleted(m)))

LEMMA AppendShape ==
  ASSUME NEW q \in Seq(Packet), NEW p
  PROVE  /\ DOMAIN q = 1..Len(q) /\ Len(q) \in Nat
         /\ DOMAIN Append(q, p) = 1..(Len(q) + 1)
         /\ Append(q, p)[Len(q) + 1] = p
         /\ \A i \in 1..Len(q) : Append(q, p)[i] = q[i]
  OBVIOUS

(* Another packet behind it changes nothing ...                            *)
LEMMA BehindAppend ==
  ASSUME NEW q \in Seq(Packet), NEW p \in Packet, NEW v, NEW m,
         Behind(q, v, m), ~IsMessage(p, m)
  PROVE  Behind(Append(q, p), v, m)
  <1> DEFINE w == Append(q, p)
  <1>1. /\ DOMAIN q = 1..Len(q) /\ Len(q) \in Nat /\ DOMAIN w = 1..(Len(q) + 1)
        /\ w[Len(q) + 1] = p /\ \A i \in 1..Len(q) : w[i] = q[i]
    BY AppendShape
  <1> HIDE DEF w
  <1>2. ASSUME NEW i \in DOMAIN w, IsMessage(w[i], m)
        PROVE  \E j \in DOMAIN w : j > i /\ w[j] = Deleted(m)
    <2>1. i \in DOMAIN q /\ IsMessage(q[i], m)
      BY <1>1, <1>2
    <2> PICK j \in DOMAIN q : j > i /\ q[j] = Deleted(m)
      BY <2>1 DEF Behind, Answered
    <2> QED
      BY <1>1
  <1>3. In(q, Deleted(m)) => In(w, Deleted(m))
    BY <1>1 DEF In
  <1> QED
    BY <1>2, <1>3 DEF Behind, Answered, w

(* ... the DELMSG itself settles it ...                                    *)
LEMMA BehindDeleted ==
  ASSUME NEW q \in Seq(Packet), NEW v, NEW m
  PROVE  Behind(Append(q, Deleted(m)), v, m)
  <1> DEFINE w == Append(q, Deleted(m))
  <1>1. /\ Len(q) \in Nat /\ DOMAIN w = 1..(Len(q) + 1) /\ w[Len(q) + 1] = Deleted(m)
    BY AppendShape
  <1>2. ~IsMessage(Deleted(m), m)
    BY DEF IsMessage, Deleted
  <1> HIDE DEF w
  <1>3. \A i \in DOMAIN w : IsMessage(w[i], m) => Len(q) + 1 > i
    BY <1>1, <1>2
  <1> QED
    BY <1>1, <1>3 DEF Behind, Answered, In, w

(* ... and the client reads the queue from its head.                       *)
LEMMA BehindTail ==
  ASSUME NEW q \in Seq(Packet), q # <<>>, NEW v, NEW w, NEW m, Behind(q, v, m),
         Head(q) # Deleted(m),
         Holds(w, m) => Holds(v, m) \/ IsMessage(Head(q), m)
  PROVE  Behind(Tail(q), w, m)
  <1> DEFINE r == Tail(q)
  <1>1. /\ r \in Seq(Packet) /\ Len(r) = Len(q) - 1 /\ Len(q) >= 1 /\ Len(q) \in Nat
        /\ DOMAIN q = 1..Len(q) /\ DOMAIN r = 1..(Len(q) - 1)
        /\ \A i \in 1..(Len(q) - 1) : r[i] = q[i + 1]
        /\ Head(q) = q[1]
    BY HeadAndTail
  <1> HIDE DEF r
  <1>2. \A j \in DOMAIN q : j > 1 => j - 1 \in DOMAIN r /\ r[j - 1] = q[j]
    BY <1>1
  <1>3. ASSUME NEW i \in DOMAIN r, IsMessage(r[i], m)
        PROVE  \E j \in DOMAIN r : j > i /\ r[j] = Deleted(m)
    <2>1. i \in Nat /\ i + 1 \in DOMAIN q /\ IsMessage(q[i + 1], m)
      BY <1>1, <1>3
    <2> PICK j \in DOMAIN q : j > i + 1 /\ q[j] = Deleted(m)
      BY <2>1 DEF Behind, Answered
    <2>2. j \in Nat /\ j > 1 /\ j - 1 > i
      BY <1>1, <2>1
    <2> QED
      BY <1>2, <2>2
  <1>4. In(q, Deleted(m)) => In(r, Deleted(m))
    BY <1>1, <1>2 DEF In
  <1>5. IsMessage(Head(q), m) => In(r, Deleted(m))
    <2> SUFFICES ASSUME IsMessage(Head(q), m) PROVE In(r, Deleted(m))
      OBVIOUS
    <2> PICK j \in DOMAIN q : j > 1 /\ q[j] = Deleted(m)
      BY <1>1 DEF Behind, Answered
    <2> QED
      BY <1>2 DEF In
  <1> QED
    BY <1>3, <1>4, <1>5 DEF Behind, Answered, r

LEMMA BehindTaken ==
  ASSUME NEW q \in Seq(Packet), q # <<>>, NEW v, NEW w, NEW m, Behind(q, v, m),
         Head(q) = Deleted(m), ~Holds(w, m)
  PROVE  Behind(Tail(q), w, m)
  <1> DEFINE r == Tail(q)
  <1>1. /\ r \in Seq(Packet) /\ Len(r) = Len(q) - 1 /\ Len(q) >= 1 /\ Len(q) \in Nat
        /\ DOMAIN q = 1..Len(q) /\ DOMAIN r = 1..(Len(q) - 1)
        /\ \A i \in 1..(Len(q) - 1) : r[i] = q[i + 1]
    BY HeadAndTail
  <1> HIDE DEF r
  <1>2. ASSUME NEW i \in DOMAIN r, IsMessage(r[i], m)
        PROVE  \E j \in DOMAIN r : j > i /\ r[j] = Deleted(m)
    <2>1. i \in Nat /\ i + 1 \in DOMAIN q /\ IsMessage(q[i + 1], m)
      BY <1>1, <1>2
    <2> PICK j \in DOMAIN q : j > i + 1 /\ q[j] = Deleted(m)
      BY <2>1 DEF Behind, Answered
    <2>2. j \in Nat /\ j - 1 \in DOMAIN r /\ j - 1 > i /\ r[j - 1] = q[j]
      BY <1>1, <2>1
    <2> QED
      BY <2>2
  <1> QED
    BY <1>2 DEF Behind, Answered, r

-----------------------------------------------------------------------------
(* A message that is gone from the table and whose deletion the session    *)
(* must hear of: either a thread has still to broadcast the deletion to    *)
(* the channel the session is in, or it is behind the message, and the     *)
(* message will not be sent again.                                         *)
Gone(s, m) == Retracted(m) /\ m \notin excused[s]

Coming(s, m) == \E t \in Session : Casting(t, s, Deleted(m)) /\ to[t] = channel[s]

Due(s, m) == \/ Coming(s, m)
             \/ Behind(inbox[s], view[s], m) /\ ~StillToSend(s, m)

DeletionComing == \A s \in Session : \A m \in Nat : Gone(s, m) => Due(s, m)

(* A broadcast is not forgotten.                                           *)
LEMMA ComingKept ==
  ASSUME TypeOK, UNCHANGED <<channel, todo>>, NEW s \in Session, pc[s] \notin {"lock", "cast"},
         UNCHANGED workVars \/ \E place, what, where : Works(s, place, what, where)
  PROVE  \A t \in Session : \A m : Coming(t, m) => Coming(t, m)'
  <1>1. CASE UNCHANGED workVars
    BY <1>1 DEF Coming, Casting, workVars, Deleted
  <1>2. CASE \E place, what, where : Works(s, place, what, where)
    <2>1. \A t \in Session \ {s} : pc'[t] = pc[t] /\ task'[t] = task[t] /\ to'[t] = to[t]
      BY <1>2 DEF Works, TypeOK
    <2> QED
      BY <2>1 DEF Coming, Casting, Deleted
  <1> QED
    BY <1>1, <1>2

(* A thread that goes on, with no message to broadcast, sends none.        *)
LEMMA StillKept ==
  ASSUME TypeOK, UNCHANGED <<rows, todo>>, NEW s \in Session,
         \/ UNCHANGED workVars
         \/ \E place, what, where :
              /\ Works(s, place, what, where)
              /\ place \notin {"lock", "cast"} \/ what.type # "MESSAGE"
  PROVE  \A t \in Session : \A m : StillToSend(t, m)' => StillToSend(t, m)
  <1>1. CASE UNCHANGED workVars
    BY <1>1 DEF StillToSend, Casting, workVars, Message
  <1>2. ASSUME NEW place, NEW what, NEW where, Works(s, place, what, where),
               place \notin {"lock", "cast"} \/ what.type # "MESSAGE"
        PROVE  \A t \in Session : \A m : StillToSend(t, m)' => StillToSend(t, m)
    <2>1. /\ \A t \in Session \ {s} : pc'[t] = pc[t] /\ task'[t] = task[t]
          /\ pc'[s] = place /\ task'[s] = what
      BY <1>2 DEF Works, TypeOK
    <2>2. \A m, c : task'[s] = Message(m, c) => pc'[s] \notin {"lock", "cast"}
      BY <1>2, <2>1 DEF Message
    <2> QED
      BY <2>1, <2>2 DEF StillToSend, Casting, Message
  <1> QED
    BY <1>1, <1>2

(* Which messages are gone changes by deletions and joins only.            *)
LEMMA GoneKept ==
  ASSUME TypeOK, Inserted \/ UNCHANGED <<messages, nextMessage>>,
         \A s \in Session : excused[s] \subseteq excused'[s]
  PROVE  \A s \in Session : \A m : Gone(s, m)' => Gone(s, m)
  <1>1. CASE UNCHANGED <<messages, nextMessage>>
    BY <1>1 DEF Gone, Retracted
  <1>2. CASE Inserted
    <2>1. ASSUME NEW m, Retracted(m)' PROVE Retracted(m)
      <3> PICK u \in User, c \in Channel :
            messages' = messages \cup {[id |-> nextMessage, author |-> u, channel |-> c]}
        BY <1>2 DEF Inserted
      <3> PICK new : new = [id |-> nextMessage, author |-> u, channel |-> c]
        OBVIOUS
      <3>1. new \in messages' /\ new.id = nextMessage /\ messages \subseteq messages'
        OBVIOUS
      <3>2. m # nextMessage /\ m \in 1..nextMessage /\ nextMessage \in Nat
        BY <1>2, <2>1, <3>1, TypeUse DEF Retracted, Inserted, TypeOK, StoreTypeOK
      <3> QED
        BY <2>1, <3>1, <3>2 DEF Retracted
    <2> QED
      BY <2>1 DEF Gone
  <1> QED
    BY <1>1, <1>2

(* Steps that send a packet, none that is gone, or nothing.                *)
LEMMA DueSends ==
  ASSUME TypeOK, DeletionComing, UNCHANGED <<view, excused>>,
         Inserted \/ UNCHANGED <<messages, nextMessage>>,
         NEW s \in Session, NEW p \in Packet, Sends(s, p) \/ UNCHANGED inbox,
         \A m : Gone(s, m) /\ IsMessage(p, m) => StillToSend(s, m),
         \A t \in Session : \A m : StillToSend(t, m)' => StillToSend(t, m) \/ m \in Posted',
         \A t \in Session : \A m : Coming(t, m) => Coming(t, m)'
  PROVE  DeletionComing'
  <1>1. \A t \in Session : \/ inbox'[t] = inbox[t]
                           \/ t = s /\ inbox'[t] = Append(inbox[t], p)
    BY DEF Sends, TypeOK
  <1>2. ASSUME NEW t \in Session, NEW m \in Nat, Gone(t, m)' PROVE Due(t, m)'
    <2>1. Gone(t, m)
      BY <1>2, GoneKept
    <2>2. Due(t, m)
      BY <2>1 DEF DeletionComing
    <2>3. ~StillToSend(t, m) => ~StillToSend(t, m)'
      BY <1>2 DEF Gone, Retracted, Posted
    <2>4. Behind(inbox[t], view[t], m) /\ ~StillToSend(t, m)
            => Behind(inbox'[t], view'[t], m)
      <3>1. CASE inbox'[t] = inbox[t]
        BY <3>1
      <3>2. CASE t = s /\ inbox'[t] = Append(inbox[t], p)
        BY <2>1, <3>2, TypeUse, BehindAppend
      <3> QED
        BY <1>1, <3>1, <3>2
    <2>5. Behind(inbox'[t], view'[t], m) => Behind(inbox[t], view[t], m)'
      BY DEF Behind, Answered, In, Holds, IsMessage, Deleted
    <2> QED
      BY <2>2, <2>3, <2>4, <2>5 DEF Due
  <1> QED
    BY <1>2 DEF DeletionComing

(* The client's UI and the rest of a handler, which send at most a reply or *)
(* a summary.                                                              *)
LEMMA DueQuiet ==
  ASSUME TypeOK, TaskFits, DeletionComing, NEW s \in Session,
         \/ SelectChannel(s) \/ TypeLine(s) \/ ClickDelete(s) \/ OpenMenu(s)
         \/ PickFromMenu(s)
         \/ LookAtReactions(s) \/ TellReactions(s) \/ EndOfHistory(s)
         \/ HandleReaction(s) \/ ClearReaction(s) \/ InsertReaction(s)
         \/ RemoveReaction(s) \/ SelectReactions(s)
  PROVE  DeletionComing'
  <1> USE DEF storeVars, lockVars, clientVars, ghostVars, queueVars
  <1>1. UNCHANGED <<view, todo, channel, messages, nextMessage, rows, excused>>
    BY DEF SelectChannel, TypeLine, ClickDelete, OpenMenu, PickFromMenu,
           LookAtReactions, TellReactions, EndOfHistory, HandleReaction, ClearReaction,
           InsertReaction, RemoveReaction, SelectReactions, ReactionClear,
           ReactionInsert, ReactionRemove
  <1>2. \A t \in Session : \A m : Coming(t, m) => Coming(t, m)'
    <2>1. CASE \/ SelectChannel(s) \/ TypeLine(s) \/ ClickDelete(s) \/ OpenMenu(s)
               \/ PickFromMenu(s)
      BY <1>1, <2>1 DEF SelectChannel, TypeLine, ClickDelete, OpenMenu, PickFromMenu,
                        Coming, Casting, workVars, Deleted
    <2>2. CASE LookAtReactions(s) \/ TellReactions(s) \/ EndOfHistory(s)
      BY <1>1, <2>2, ComingKept DEF LookAtReactions, TellReactions, EndOfHistory, Returns
    <2>3. CASE HandleReaction(s) \/ ClearReaction(s) \/ SelectReactions(s)
      BY <1>1, <2>3, ComingKept DEF HandleReaction, ClearReaction, SelectReactions,
                                    Returns, Dispatch
    <2>4. CASE InsertReaction(s) \/ RemoveReaction(s)
      BY <1>1, <2>4, ComingKept DEF InsertReaction, RemoveReaction, Answer, Returns
    <2> QED
      BY <2>1, <2>2, <2>3, <2>4
  <1>6. \A t \in Session : \A m : StillToSend(t, m)' => StillToSend(t, m)
    <2>1. CASE \/ SelectChannel(s) \/ TypeLine(s) \/ ClickDelete(s) \/ OpenMenu(s)
               \/ PickFromMenu(s)
      BY <1>1, <2>1, StillKept DEF SelectChannel, TypeLine, ClickDelete, OpenMenu,
                                   PickFromMenu
    <2>2. CASE LookAtReactions(s) \/ TellReactions(s) \/ EndOfHistory(s)
      BY <1>1, <2>2, StillKept DEF LookAtReactions, TellReactions, EndOfHistory, Returns
    <2>3. CASE HandleReaction(s) \/ ClearReaction(s)
      BY <1>1, <2>3, StillKept DEF HandleReaction, ClearReaction
    <2>4. CASE InsertReaction(s) \/ RemoveReaction(s)
      BY <1>1, <2>4, StillKept DEF InsertReaction, RemoveReaction, Answer, Returns
    <2>5. CASE SelectReactions(s)
      <3>1. \A some : Summary(task[s].id, some).type # "MESSAGE"
        BY DEF Summary
      <3> QED
        BY <1>1, <2>5, <3>1, StillKept DEF SelectReactions, Returns
    <2> QED
      BY <2>1, <2>2, <2>3, <2>4, <2>5
  <1>3. /\ Ok \in Packet /\ Error \in Packet
        /\ \A m : ~IsMessage(Ok, m) /\ ~IsMessage(Error, m)
    BY PacketTypes DEF IsMessage, Ok, Error
  <1>4. CASE UNCHANGED inbox \/ Sends(s, Ok) \/ Sends(s, Error)
    <2>1. \E p \in Packet : (Sends(s, p) \/ UNCHANGED inbox) /\ \A m : ~IsMessage(p, m)
      BY <1>3, <1>4
    <2> QED
      BY <1>1, <1>2, <1>6, <2>1, DueSends
  <1>5. CASE TellReactions(s)
    <2> PICK p : p = task[s]
      OBVIOUS
    <2>1. p \in Packet /\ p.type = "REACTIONS" /\ Sends(s, p)
      BY <1>5 DEF TellReactions, TaskFits
    <2>2. \A m : ~IsMessage(p, m)
      BY <2>1 DEF IsMessage
    <2> QED
      BY <1>1, <1>2, <1>6, <2>1, <2>2, DueSends
  <1> QED
    BY <1>4, <1>5 DEF SelectChannel, TypeLine, ClickDelete, OpenMenu, PickFromMenu,
           LookAtReactions, TellReactions, EndOfHistory, HandleReaction, ClearReaction,
           InsertReaction, RemoveReaction, SelectReactions, Answer

(* Who joins a channel is excused from all earlier deletions.              *)
LEMMA DueJoin ==
  ASSUME TypeOK, TaskFits, DeletionComing, NEW s \in Session, HandleJoin(s)
  PROVE  DeletionComing'
  <1> USE DEF storeVars, workVars, lockVars, clientVars
  <1>1. /\ UNCHANGED <<view, todo, messages, nextMessage, rows, pc, task, to>>
        /\ Sends(s, Ok)
        /\ \A t \in Session \ {s} : channel'[t] = channel[t] /\ excused'[t] = excused[t]
        /\ excused'[s] = (1..(nextMessage - 1)) \ Posted
    BY DEF HandleJoin, TypeOK
  <1>2. ASSUME NEW m \in Nat PROVE ~Gone(s, m)'
    BY <1>1 DEF Gone, Retracted, Posted
  <1>3. ASSUME NEW t \in Session \ {s}, NEW m \in Nat, Gone(t, m)' PROVE Due(t, m)'
    <2>1. Gone(t, m)
      BY <1>1, <1>3 DEF Gone, Retracted
    <2>2. Due(t, m)
      BY <2>1 DEF DeletionComing
    <2>3. inbox'[t] = inbox[t]
      BY <1>1 DEF Sends, TypeOK
    <2> QED
      BY <1>1, <2>2, <2>3 DEF Due, Coming, Casting, Behind, Answered, In, Holds,
                              IsMessage, Deleted, StillToSend, Message
  <1> QED
    BY <1>2, <1>3 DEF DeletionComing

LEMMA DueSend ==
  ASSUME TypeOK, TaskFits, DeletionComing, NEW s \in Session, HandleSend(s),
         Inserted \/ UNCHANGED <<messages, nextMessage>>
  PROVE  DeletionComing'
  <1> USE DEF lockVars, clientVars, ghostVars
  <1>1. UNCHANGED <<view, rows, todo, excused, channel>> /\ pc[s] = "idle"
    BY DEF HandleSend, Dispatch
  <1>2. \A t \in Session : \A m : Coming(t, m) => Coming(t, m)'
    BY <1>1, ComingKept DEF HandleSend
  <1>3. Error \in Packet /\ \A m : ~IsMessage(Error, m)
    BY PacketTypes DEF IsMessage, Error
  <1>4. Sends(s, Error) \/ UNCHANGED inbox
    BY DEF HandleSend
  <1>5. \A t \in Session : \A m : StillToSend(t, m)' => StillToSend(t, m) \/ m \in Posted'
    <2>1. CASE UNCHANGED workVars
      BY <1>1, <2>1, StillKept
    <2>2. CASE ~UNCHANGED workVars
      <3> PICK id \in {nextMessage, Failed} :
            /\ MessageInsert(UserOf[s], channel[s], id)
            /\ Works(s, "lock", Message(id, channel[s]), channel[s])
            /\ id # Failed
        BY <2>2 DEF HandleSend
      <3> PICK new : new = [id |-> id, author |-> UserOf[s], channel |-> channel[s]]
        OBVIOUS
      <3>1. new \in messages' /\ new.id = id
        BY DEF MessageInsert
      <3>2. id \in Posted'
        BY <3>1 DEF Posted
      <3>3. /\ \A t \in Session \ {s} : pc'[t] = pc[t] /\ task'[t] = task[t]
            /\ task'[s] = Message(id, channel[s])
        BY DEF Works, TypeOK
      <3>4. \A m, c : task'[s] = Message(m, c) => m = id
        BY <3>3 DEF Message
      <3>5. ASSUME NEW t \in Session, NEW m, StillToSend(t, m)'
            PROVE  StillToSend(t, m) \/ m = id
        <4>1. CASE \E row \in rows[t] : row.id = m
          BY <4>1 DEF StillToSend
        <4>2. ASSUME NEW u \in Session, NEW c \in Channel, Casting(u, t, Message(m, c))'
              PROVE  StillToSend(t, m) \/ m = id
          <5>1. CASE u = s
            BY <3>4, <4>2, <5>1 DEF Casting, Message
          <5>2. CASE u # s
            <6>1. Casting(u, t, Message(m, c))
              BY <1>1, <3>3, <4>2, <5>2 DEF Casting, Message
            <6> QED
              BY <6>1 DEF StillToSend
          <5> QED
            BY <5>1, <5>2
        <4> QED
          BY <1>1, <3>5, <4>1, <4>2 DEF StillToSend
      <3> QED
        BY <3>2, <3>5
    <2> QED
      BY <2>1, <2>2
  <1> QED
    BY <1>1, <1>2, <1>3, <1>4, <1>5, DueSends

(* A deletion: whoever is in the channel and holds no row of the message   *)
(* will be told.                                                           *)
LEMMA DueDelete ==
  ASSUME TypeOK, TaskFits, DeletionComing, NEW s \in Session, HandleDelete(s)
  PROVE  DeletionComing'
  <1> USE DEF lockVars, clientVars
  <1> PICK m : m = Requested(s).id
    OBVIOUS
  <1>1. UNCHANGED <<view, rows, todo, channel, nextMessage>> /\ pc[s] = "idle"
    BY DEF HandleDelete, Dispatch, MessageDelete
  <1>2. \A t \in Session : \A n : Coming(t, n) => Coming(t, n)'
    BY <1>1, ComingKept DEF HandleDelete
  <1>6. \A t \in Session : \A n : StillToSend(t, n)' => StillToSend(t, n)
    <2>1. Deleted(m).type # "MESSAGE"
      BY DEF Deleted
    <2> QED
      BY <1>1, <2>1, StillKept DEF HandleDelete
  <1>3. /\ Ok \in Packet /\ Error \in Packet
        /\ \A n : ~IsMessage(Ok, n) /\ ~IsMessage(Error, n)
    BY PacketTypes DEF IsMessage, Ok, Error
  <1> PICK c \in Channel \cup {Failed} :
        /\ MessageDelete(UserOf[s], m, c)
        /\ IF c = Failed
             THEN Sends(s, Error) /\ UNCHANGED <<workVars, excused>>
             ELSE /\ Sends(s, Ok)
                  /\ Works(s, "lock", Deleted(m), c)
                  /\ excused' = [t \in Session |->
                       IF channel[t] # c THEN excused[t] \cup {m} ELSE excused[t]]
    BY DEF HandleDelete
  <1>4. CASE c = Failed
    <2>1. UNCHANGED messages
      BY <1>4, TypeUse, StoreAssumption DEF MessageDelete
    <2> QED
      BY <1>1, <1>2, <1>3, <1>4, <1>6, <2>1, DueSends
  <1>5. CASE c # Failed
    <2>1. PICK row \in messages :
            row.id = m /\ row.channel = c /\ messages' = messages \ {row}
      BY <1>5 DEF MessageDelete
    <2>2. \A t \in Session : IF channel[t] # c THEN excused'[t] = excused[t] \cup {m}
                                              ELSE excused'[t] = excused[t]
      BY <1>5
    <2>3. ASSUME NEW t \in Session, NEW n \in Nat, Gone(t, n)', n # m PROVE Due(t, n)'
      <3>1. Gone(t, n)
        BY <1>1, <2>1, <2>2, <2>3 DEF Gone, Retracted
      <3>2. Due(t, n)
        BY <3>1 DEF DeletionComing
      <3>3. inbox'[t] = inbox[t] \/ inbox'[t] = Append(inbox[t], Ok)
        BY <1>5 DEF Sends, TypeOK
      <3>4. Behind(inbox[t], view[t], n) => Behind(inbox'[t], view[t], n)
        BY <1>3, <3>3, TypeUse, BehindAppend
      <3>5. Behind(inbox'[t], view[t], n) => Behind(inbox[t], view[t], n)'
        BY <1>1 DEF Behind, Answered, In, Holds, IsMessage, Deleted
      <3> QED
        BY <1>2, <1>6, <3>2, <3>4, <3>5 DEF Due
    <2>4. ASSUME NEW t \in Session, Gone(t, m)' PROVE Due(t, m)'
      <3>2. channel[t] = c
        BY <2>2, <2>4 DEF Gone
      <3>3. pc'[s] = "lock" /\ task'[s] = Deleted(m) /\ to'[s] = c
        BY <1>5 DEF Works, TypeOK
      <3>4. Coming(t, m)'
        BY <1>1, <3>2, <3>3 DEF Coming, Casting, Deleted
      <3> QED
        BY <3>4 DEF Due
    <2> QED
      BY <2>3, <2>4 DEF DeletionComing
  <1> QED
    BY <1>4, <1>5

(* A history holds rows of the table; what it sends it had still to send.  *)
LEMMA DueHistory ==
  ASSUME TypeOK, TaskFits, DeletionComing, NEW s \in Session,
         HandleHistory(s) \/ SendRow(s)
  PROVE  DeletionComing'
  <1> USE DEF storeVars, lockVars, clientVars, ghostVars
  <1>1. UNCHANGED <<view, todo, channel, messages, nextMessage, excused>>
        /\ pc[s] \notin {"lock", "cast"}
    BY DEF HandleHistory, SendRow, Dispatch
  <1>2. \A t \in Session : \A m : Coming(t, m) => Coming(t, m)'
    <2>1. UNCHANGED workVars \/ \E place, what, where : Works(s, place, what, where)
      BY DEF HandleHistory, SendRow
    <2> QED
      BY <1>1, <2>1, ComingKept
  <1>5. \A t, u \in Session : \A m : \A c \in Channel :
          Casting(u, t, Message(m, c))' => Casting(u, t, Message(m, c))
    <2>1. CASE UNCHANGED workVars
      BY <1>1, <2>1 DEF Casting, Message, workVars
    <2>2. ASSUME NEW place, NEW what, NEW where, Works(s, place, what, where),
                 place \notin {"lock", "cast"}
          PROVE  \A t, u \in Session : \A m : \A c \in Channel :
                   Casting(u, t, Message(m, c))' => Casting(u, t, Message(m, c))
      <3>1. /\ \A u \in Session \ {s} : pc'[u] = pc[u] /\ task'[u] = task[u]
            /\ pc'[s] = place
        BY <2>2 DEF Works, TypeOK
      <3> QED
        BY <1>1, <2>2, <3>1 DEF Casting, Message
    <2> QED
      BY <2>1, <2>2 DEF HandleHistory, SendRow
  <1>3. CASE HandleHistory(s)
    <2>1. Error \in Packet /\ \A m : ~IsMessage(Error, m)
      BY PacketTypes DEF IsMessage, Error
    <2>2. Sends(s, Error) \/ UNCHANGED inbox
      BY <1>3 DEF HandleHistory
    <2>3. ASSUME NEW t \in Session, NEW row \in rows'[t]
          PROVE  row \in rows[t] \/ row \in messages'
      <3>1. \A c : Newest(c) \subseteq messages
        BY DEF Newest
      <3>2. UNCHANGED rows \/ rows' = [rows EXCEPT ![s] = Newest(Requested(s).channel)]
        BY <1>3 DEF HandleHistory
      <3>3. Newest(Requested(s).channel) \subseteq messages
        BY <3>1
      <3> QED
        BY <1>1, <2>3, <3>2, <3>3 DEF TypeOK
    <2>4. \A t \in Session : \A m : StillToSend(t, m)' => StillToSend(t, m) \/ m \in Posted'
      BY <1>5, <2>3 DEF StillToSend, Posted
    <2> QED
      BY <1>1, <1>2, <2>1, <2>2, <2>4, DueSends
  <1>4. CASE SendRow(s)
    <2> PICK row \in rows[s] :
          /\ Sends(s, Message(row.id, row.channel))
          /\ rows' = [rows EXCEPT ![s] = @ \ {row}]
      BY <1>4 DEF SendRow
    <2> PICK p : p = Message(row.id, row.channel)
      OBVIOUS
    <2>1. p \in Packet
      BY TypeUse, PacketTypes
    <2>2. \A m : IsMessage(p, m) => StillToSend(s, m)
      BY DEF IsMessage, Message, StillToSend
    <2>3. \A t \in Session : \A r \in rows'[t] : r \in rows[t]
      BY DEF TypeOK
    <2>4. \A t \in Session : \A m : StillToSend(t, m)' => StillToSend(t, m)
      BY <1>5, <2>3 DEF StillToSend
    <2> QED
      BY <1>1, <1>2, <2>1, <2>2, <2>4, DueSends
  <1> QED
    BY <1>3, <1>4

(* A broadcast.  The session that is visited is sent the deletion if it is *)
(* in the channel.  A message that is sent was still to be sent, so that   *)
(* the thread with its deletion, if it is gone, waits for the mutex.       *)
LEMMA DueCast ==
  ASSUME TypeOK, TaskFits, OneCaster, DeletionComing, NEW s \in Session,
         LockRegistry(s) \/ (\E t \in Session : Visit(s, t)) \/ UnlockRegistry(s)
  PROVE  DeletionComing'
  <1> USE DEF storeVars, workVars, lockVars, clientVars, queueVars
  <1>1. UNCHANGED <<view, channel, messages, nextMessage, rows>>
    BY DEF LockRegistry, Visit, UnlockRegistry
  <1>2. ASSUME UNCHANGED <<inbox, excused>>,
               \A t \in Session : \A m : Coming(t, m) => Coming(t, m)',
               \A t \in Session : \A m : StillToSend(t, m)' => StillToSend(t, m)
        PROVE  DeletionComing'
    <2>1. Ok \in Packet /\ \A m : ~IsMessage(Ok, m)
      BY PacketTypes DEF IsMessage, Ok
    <2> QED
      BY <1>1, <1>2, <2>1, DueSends
  <1>3. CASE LockRegistry(s)
    <2>1. /\ pc[s] = "lock" /\ pc' = [pc EXCEPT ![s] = "cast"]
          /\ \A t \in Session : task'[t] = task[t] /\ to'[t] = to[t]
          /\ todo' = Session /\ UNCHANGED <<inbox, excused>>
      BY <1>3 DEF LockRegistry, Works, TypeOK, ghostVars
    <2>2. \A t \in Session : \A m : Coming(t, m) => Coming(t, m)'
      BY <1>1, <2>1 DEF Coming, Casting, TypeOK, Deleted
    <2>3. \A t \in Session : pc[t] # "cast"
      BY <1>3, MessagingAssumption DEF LockRegistry, OneCaster
    <2>4. \A t \in Session : \A m : StillToSend(t, m)' => StillToSend(t, m)
      BY <1>1, <2>1, <2>3 DEF StillToSend, Casting, TypeOK, Message
    <2> QED
      BY <1>2, <2>1, <2>2, <2>4
  <1>4. CASE UnlockRegistry(s)
    <2>1. /\ pc[s] = "cast" /\ pc'[s] = "idle" /\ todo = {} /\ todo' = todo
          /\ UNCHANGED <<inbox, excused>>
          /\ \A t \in Session \ {s} : pc'[t] = pc[t] /\ task'[t] = task[t] /\ to'[t] = to[t]
      BY <1>4 DEF UnlockRegistry, Returns, Works, TypeOK, ghostVars
    <2>2. \A t \in Session : \A m : Coming(t, m) => Coming(t, m)'
      BY <1>1, <2>1 DEF Coming, Casting, Deleted
    <2>3. \A t \in Session : \A m : StillToSend(t, m)' => StillToSend(t, m)
      BY <1>1, <2>1 DEF StillToSend, Casting, Message
    <2> QED
      BY <1>2, <2>1, <2>2, <2>3
  <1>5. ASSUME NEW t \in Session, Visit(s, t) PROVE DeletionComing'
    <2> PICK p : p = task[s]
      OBVIOUS
    <2>1. /\ pc[s] = "cast" /\ t \in todo /\ todo' = todo \ {t}
          /\ UNCHANGED <<pc, task, to>> /\ p \in Packet
          /\ p.type \in {"MESSAGE", "DELMSG", "REACTIONS"}
      BY <1>5 DEF Visit, TaskFits
    <2>2. IF channel[t] = to[s] THEN Sends(t, p) ELSE UNCHANGED inbox
      BY <1>5 DEF Visit, Addressed
    <2>3. /\ \A r \in Session : excused[r] \subseteq excused'[r]
          /\ \A m : p = Deleted(m) /\ StillToSend(t, m) => m \in excused'[t]
      <3> DEFINE overtaken == p.type = "DELMSG" /\ StillToSend(t, p.id)
      <3>1. excused' = [excused EXCEPT ![t] = IF overtaken THEN @ \cup {p.id} ELSE @]
        BY <1>5 DEF Visit
      <3>2. \A m : p = Deleted(m) => p.type = "DELMSG" /\ p.id = m
        BY DEF Deleted
      <3>3. \A m : p = Deleted(m) /\ StillToSend(t, m) => overtaken
        BY <3>2
      <3> HIDE DEF overtaken
      <3> QED
        BY <3>1, <3>2, <3>3 DEF TypeOK
    <2>4. \A r \in Session : \/ inbox'[r] = inbox[r]
                             \/ r = t /\ inbox'[r] = Append(inbox[r], p)
      BY <2>2, SMTT(30) DEF Sends, TypeOK
    <2>5. \A r \in Session : \A m : StillToSend(r, m)' => StillToSend(r, m)
      BY <1>1, <2>1 DEF StillToSend, Casting, Message
    <2>6. ASSUME NEW r \in Session, NEW m \in Nat, Gone(r, m)' PROVE Due(r, m)'
      <3>1. Gone(r, m) /\ Due(r, m)
        BY <1>1, <2>3, <2>6, GoneKept DEF DeletionComing
      <3>2. Behind(inbox'[r], view[r], m) => Behind(inbox[r], view[r], m)'
        BY <1>1 DEF Behind, Answered, In, Holds, IsMessage, Deleted
      <3>3. CASE Coming(r, m) /\ ~Coming(r, m)'
        <4> PICK u \in Session : Casting(u, r, Deleted(m)) /\ to[u] = channel[r]
          BY <3>3 DEF Coming
        <4>1. r = t /\ pc[u] = "cast" /\ task[u] = Deleted(m)
          BY <1>1, <2>1, <3>3 DEF Coming, Casting, Deleted
        <4>2. u = s
          BY <2>1, <4>1 DEF OneCaster
        <4>3. inbox'[r] = Append(inbox[r], Deleted(m))
          BY <2>2, <4>1, <4>2 DEF Sends, TypeOK
        <4>4. Behind(inbox'[r], view[r], m)
          <5>1. inbox[r] \in Seq(Packet)
            BY TypeUse
          <5>2. Behind(Append(inbox[r], Deleted(m)), view[r], m)
            BY <5>1, BehindDeleted
          <5> QED
            BY <4>3, <5>2
        <4>5. ~StillToSend(r, m)
          BY <2>3, <2>6, <4>1, <4>2 DEF Gone
        <4>6. ~StillToSend(r, m)'
          BY <2>5, <4>5
        <4> QED
          BY <3>2, <4>4, <4>6 DEF Due
      <3>4. CASE Behind(inbox[r], view[r], m) /\ ~StillToSend(r, m)
        <4>1. r = t => ~IsMessage(p, m)
          <5>1. p \in MessagePacket => p = Message(p.id, p.channel) /\ p.channel \in Channel
            BY DEF MessagePacket, Message
          <5>2. IsMessage(p, m) => p \in MessagePacket /\ p.id = m
            BY <2>1, PacketShape DEF IsMessage
          <5>3. \A c \in Channel : p = Message(m, c) => Casting(s, t, Message(m, c))
            BY <2>1 DEF Casting
          <5> QED
            BY <3>4, <5>1, <5>2, <5>3 DEF StillToSend
        <4>2. Behind(inbox'[r], view[r], m)
          <5>1. CASE inbox'[r] = inbox[r]
            BY <3>4, <5>1
          <5>2. CASE r = t /\ inbox'[r] = Append(inbox[r], p)
            <6>1. inbox[r] \in Seq(Packet)
              BY TypeUse
            <6> QED
              BY <2>1, <3>4, <4>1, <5>2, <6>1, BehindAppend
          <5> QED
            BY <2>4, <5>1, <5>2
        <4>3. ~StillToSend(r, m)'
          BY <2>5, <3>4
        <4> QED
          BY <3>2, <4>2, <4>3 DEF Due
      <3>5. CASE Coming(r, m)'
        BY <3>5 DEF Due
      <3> QED
        BY <3>1, <3>3, <3>4, <3>5 DEF Due
    <2> QED
      BY <2>6 DEF DeletionComing
  <1> QED
    BY <1>3, <1>4, <1>5

(* The client reads a packet.                                              *)
LEMMA DueReceive ==
  ASSUME TypeOK, ViewOnce, DeletionComing, NEW s \in Session,
         \/ ReceiveMessage(s) \/ ReceiveDeleted(s) \/ ReceiveSummary(s) \/ IgnoreReply(s)
  PROVE  DeletionComing'
  <1> USE DEF storeVars, workVars, lockVars, ghostVars
  <1>1. UNCHANGED <<channel, messages, nextMessage, rows, pc, task, to, todo, excused>>
    BY DEF ReceiveMessage, ReceiveDeleted, ReceiveSummary, IgnoreReply
  <1>2. /\ inbox[s] \in Seq(Packet) /\ inbox[s] # <<>>
        /\ inbox' = [inbox EXCEPT ![s] = Tail(@)]
        /\ Head(inbox[s]) \in Packet /\ Received(s) = Head(inbox[s])
    BY TypeUse, ReceivesTypes DEF ReceiveMessage, ReceiveDeleted, ReceiveSummary, IgnoreReply,
                                  Receives, Received
  <1>3. /\ inbox'[s] = Tail(inbox[s])
        /\ \A t \in Session \ {s} : inbox'[t] = inbox[t] /\ view'[t] = view[t]
    BY <1>2 DEF TypeOK, ReceiveMessage, ReceiveDeleted, ReceiveSummary, IgnoreReply, clientVars
  <1>4. ASSUME NEW m \in Nat, Head(inbox[s]) = Deleted(m)
        PROVE  ~Holds(view'[s], m)
    <2>1. ReceiveDeleted(s) /\ Received(s).id = m
      BY <1>2, <1>4, ReceivesTypes DEF Deleted, ReceiveMessage, ReceiveSummary, IgnoreReply
    <2>2. view'[s] = Without(view[s], m)
      BY <2>1 DEF ReceiveDeleted, TypeOK
    <2> QED
      BY <2>2, TypeUse, WithoutOnce DEF ViewOnce
  <1>5. ASSUME NEW m, Holds(view'[s], m)
        PROVE  Holds(view[s], m) \/ IsMessage(Head(inbox[s]), m)
    <2>1. CASE ReceiveMessage(s)
      <3>1. Received(s) \in MessagePacket /\ Received(s).type = "MESSAGE"
        BY <2>1, ReceivesTypes, PacketShape DEF ReceiveMessage
      <3>2. view'[s] = Added(view[s], Received(s))
        BY <2>1 DEF ReceiveMessage, TypeOK
      <3>3. \A i \in DOMAIN view'[s] :
              view'[s][i] = Received(s) \/ \E j \in DOMAIN view[s] : view'[s][i] = view[s][j]
        BY <3>1, <3>2, TypeUse, AddedEntries
      <3> QED
        BY <1>2, <1>5, <3>1, <3>3 DEF Holds, IsMessage
    <2>2. CASE ReceiveDeleted(s)
      <3>1. view'[s] = Without(view[s], Received(s).id)
        BY <2>2 DEF ReceiveDeleted, TypeOK
      <3>2. \A i \in DOMAIN view'[s] : \E j \in DOMAIN view[s] : view'[s][i] = view[s][j]
        BY <3>1, TypeUse, WithoutTypes
      <3> QED
        BY <1>5, <3>2 DEF Holds
    <2>3. CASE ReceiveSummary(s) \/ IgnoreReply(s)
      BY <1>5, <2>3 DEF ReceiveSummary, IgnoreReply, clientVars
    <2> QED
      BY <2>1, <2>2, <2>3
  <1>6. ASSUME NEW t \in Session, NEW m \in Nat, Gone(t, m)' PROVE Due(t, m)'
    <2>1. Gone(t, m) /\ Due(t, m)
      BY <1>1, <1>6 DEF Gone, Retracted, DeletionComing
    <2>2. Coming(t, m) => Coming(t, m)'
      BY <1>1 DEF Coming, Casting, Deleted
    <2>3. Behind(inbox'[t], view'[t], m) => Behind(inbox[t], view[t], m)'
      BY DEF Behind, Answered, In, Holds, IsMessage, Deleted
    <2>4. Behind(inbox[t], view[t], m) => Behind(inbox'[t], view'[t], m)
      <3>1. CASE t # s
        BY <1>3, <3>1
      <3>2. CASE t = s /\ Head(inbox[s]) # Deleted(m)
        BY <1>2, <1>3, <1>5, <3>2, BehindTail
      <3>3. CASE t = s /\ Head(inbox[s]) = Deleted(m)
        BY <1>2, <1>3, <1>4, <3>3, BehindTaken
      <3> QED
        BY <3>1, <3>2, <3>3
    <2>5. StillToSend(t, m)' => StillToSend(t, m)
      BY <1>1 DEF StillToSend, Casting, Message
    <2> QED
      BY <2>1, <2>2, <2>3, <2>4, <2>5 DEF Due
  <1> QED
    BY <1>6 DEF DeletionComing

LEMMA DueStep ==
  ASSUME IInv, ViewOnce, DeletionComing, [Next]_vars
  PROVE  DeletionComing'
  <1> USE DEF IInv
  <1>1. CASE UNCHANGED vars
    BY <1>1 DEF DeletionComing, Gone, Retracted, Due, Coming, Casting, Behind, Answered, In,
                Holds, IsMessage, Deleted, StillToSend, Message, vars, storeVars, queueVars, workVars, lockVars,
                clientVars, ghostVars
  <1>2. CASE Next
    <2> PICK s \in Session : StepOf(s)
      BY <1>2, NextCases
    <2>1. CASE HandleSend(s)
      <3>1. Inserted \/ UNCHANGED <<messages, nextMessage>>
        <4>1. UNCHANGED <<messages, nextMessage>> \/ nextMessage' = nextMessage + 1
          BY <2>1, StoreAssumption DEF HandleSend, MessageInsert, storeVars
        <4> QED
          BY <4>1, TableStep, TypeUse DEF RowDeleted
      <3> QED
        BY <2>1, <3>1, DueSend
    <2>2. CASE ~HandleSend(s)
      BY <2>2, DueQuiet, DueJoin, DueDelete, DueHistory, DueCast, DueReceive DEF StepOf
    <2> QED
      BY <2>1, <2>2
  <1> QED
    BY <1>1, <1>2

(* A deletion reaches every client that shows the message in the channel   *)
(* it is in, whoever else is logged in as its author, unless the client    *)
(* was elsewhere when the message was deleted or has joined since, or the  *)
(* DELMSG was broadcast while the message was still to be sent to it       *)
(* (client_handler.c:199-282).                                             *)
THEOREM DeletionsReach == Spec => []DeletionReaches
  <1> DEFINE DInv == IInv /\ ViewOnce /\ DeletionComing
  <1>1. Init => DInv
    <2> SUFFICES ASSUME Init PROVE ViewOnce /\ DeletionComing
      BY InvInit
    <2>1. ViewOnce
      BY DEF Init, ViewOnce, Once
    <2>2. DeletionComing
      BY DEF Init, DeletionComing, Gone, Retracted
    <2> QED
      BY <2>1, <2>2
  <1>2. DInv /\ [Next]_vars => DInv'
    BY InvStep, OnceStep, DueStep DEF IInv
  <1>3. DInv => DeletionReaches
    <2> SUFFICES ASSUME DInv, NEW s \in Session, NEW i \in DOMAIN view[s],
                        view[s][i].id \notin Posted, view[s][i].id \notin excused[s]
                 PROVE  \/ \E j \in DOMAIN inbox[s] : inbox[s][j] = Deleted(view[s][i].id)
                        \/ \E t \in Session : Casting(t, s, Deleted(view[s][i].id))
      BY DEF DeletionReaches
    <2> PICK m : m = view[s][i].id
      OBVIOUS
    <2>1. Gone(s, m) /\ Holds(view[s], m) /\ m \in Nat
      BY DEF IInv, ViewTruthful, Genuine, Gone, Retracted, Posted, Holds
    <2> QED
      BY <2>1 DEF DeletionComing, Due, Coming, Behind, In
  <1> QED
    BY <1>1, <1>2, <1>3, PTL DEF Spec
=============================================================================
