----------------------------- MODULE ChatWindow -----------------------------
(***************************************************************************)
(* The array of messages of a client and the two threads that use it       *)
(* without a lock: the listener thread adds what arrives and deletes what  *)
(* a DELMSG names; the UI thread copies the messages of the active channel *)
(* into a frame, turns a click on the trash icon into an id, and adds the  *)
(* file of a transfer.  client/model/src/message.c, and its callers in     *)
(* chat_controller.c and ui_chat.c.                                        *)
(*                                                                         *)
(* One step is one access to the array that the other thread can tell from *)
(* the next: the moves of a loop and the accesses of a UI scan are steps   *)
(* of their own, a scan by a thread that is about to write is one step.    *)
(* Accesses take place in the order of the source, and a structure is      *)
(* copied in one.                                                          *)
(***************************************************************************)
EXTENDS Integers, Sequences, SequencesExt

CONSTANTS
  Id,           \* the messages of the server
  Channel,
  ChannelOf,    \* the channel of each message
  NoChannel,    \* of a slot that was never written
  MaxMessages,  \* MAX_MESSAGES, 100 in the code
  MaxArrivals,  \* bound on the calls of message_model_add
  MaxTurns      \* bound on the changes of the active channel

ASSUME WindowAssumption ==
  /\ Id \subseteq Nat \ {0}
  /\ ChannelOf \in [Id -> Channel] /\ NoChannel \notin Channel
  /\ MaxMessages \in Nat /\ MaxMessages > 1
  /\ MaxArrivals \in Nat /\ MaxTurns \in Nat

Thread == {"listener", "ui"}

(* A file transfer has the id 0.  The stamp, which the code does not have, *)
(* says which call of message_model_add made the entry.                    *)
Entry == [id : Id \cup {0}, channel : Channel \cup {NoChannel},
          stamp : 0 .. MaxArrivals]

Blank == [id |-> 0, channel |-> NoChannel, stamp |-> 0]

(* Slot MaxMessages + 1 is the memory behind the array.                    *)
Slot == 1 .. MaxMessages + 1

VARIABLES
  slots,     \* global_messages
  count,     \* global_message_count
  op,        \* of each thread: where it is in an add or a delete
  active,    \* the id of the active channel
  ui,        \* what the UI thread does: "events", or a scan and where it is
  rows,      \* active_msgs: the rows of the frame
  hover,     \* hover_message_delete_index + 1: the row with the trash icon
  request,   \* the MSG_DELETE that a click on it sent, 0 for none
  arrivals, turns,
  list,      \* what the array should hold
  moved,     \* since the frame began an entry changed its place, or active
             \* changed
  collided   \* both threads were inside a writing call at once

vars == <<slots, count, op, active, ui, rows, hover, request, arrivals,
          turns, list, moved, collided>>

Idle == [at |-> "idle", i |-> 0, entry |-> Blank]

Events == [at |-> "events", i |-> 0, channel |-> NoChannel, rank |-> 0]

Init ==
  /\ slots = [i \in Slot |-> Blank] /\ count = 0
  /\ op = [t \in Thread |-> Idle]
  /\ active \in Channel
  /\ ui = Events /\ rows = <<>> /\ hover = 0 /\ request = 0
  /\ arrivals = 0 /\ turns = 0
  /\ list = <<>> /\ moved = FALSE /\ collided = FALSE

-----------------------------------------------------------------------------
(* message_model_add and message_model_delete_by_id, by either thread.     *)

InArray(id) == \E i \in 1 .. count : slots[i].id = id

(* What a call should make of the list.                                    *)
Added(entry) ==
  IF entry.id # 0 /\ \E k \in DOMAIN list : list[k].id = entry.id
  THEN list
  ELSE Append(IF Len(list) = MaxMessages THEN Tail(list) ELSE list, entry)

Without(id) ==
  LET places == {k \in DOMAIN list : list[k].id = id}
  IN  IF places = {} THEN list ELSE RemoveAt(list, CHOOSE k \in places : TRUE)

Begin(t, at, i, entry) ==
  op' = [op EXCEPT ![t] = [at |-> at, i |-> i, entry |-> entry]]

(* A call of t while the other thread is inside one.                       *)
Collides(t) == \E u \in Thread \ {t} : op[u].at # "idle"

(* Nothing for a message it has; a full array gives up its first entry.    *)
(* (The mutant compares with > instead of >=.)                             *)
message_model_add_Late(t, id, channel) ==
  /\ op[t].at = "idle" /\ arrivals < MaxArrivals
  /\ arrivals' = arrivals + 1
  /\ LET entry == [id |-> id, channel |-> channel, stamp |-> arrivals + 1]
     IN  /\ list' = Added(entry)
         /\ IF id # 0 /\ InArray(id)
            THEN UNCHANGED op
            ELSE Begin(t, IF count > MaxMessages THEN "evict" ELSE "write",
                       1, entry)
  /\ collided' = (collided \/ Collides(t))
  /\ UNCHANGED <<slots, count, active, ui, rows, hover, request, turns, moved>>
message_model_add(t, id, channel) ==
  /\ op[t].at = "idle" /\ arrivals < MaxArrivals
  /\ arrivals' = arrivals + 1
  /\ LET entry == [id |-> id, channel |-> channel, stamp |-> arrivals + 1]
     IN  /\ list' = Added(entry)
         /\ IF id # 0 /\ InArray(id)
            THEN UNCHANGED op
            ELSE Begin(t, IF count >= MaxMessages THEN "evict" ELSE "write",
                       1, entry)
  /\ collided' = (collided \/ Collides(t))
  /\ UNCHANGED <<slots, count, active, ui, rows, hover, request, turns, moved>>

(* One move of the loop that frees the last slot, or its end.              *)
Evict(t) ==
  /\ op[t].at = "evict"
  /\ moved' = TRUE
  /\ IF op[t].i < MaxMessages
     THEN /\ slots' = [slots EXCEPT ![op[t].i] = slots[op[t].i + 1]]
          /\ op' = [op EXCEPT ![t].i = @ + 1]
          /\ UNCHANGED count
     ELSE /\ count' = MaxMessages - 1
          /\ op' = [op EXCEPT ![t].at = "write"]
          /\ UNCHANGED slots
  /\ UNCHANGED <<active, ui, rows, hover, request, arrivals, turns, list,
                 collided>>

Write(t) ==
  /\ op[t].at = "write"
  /\ slots' = [slots EXCEPT ![count + 1] = op[t].entry]
  /\ op' = [op EXCEPT ![t].at = "count"]
  /\ UNCHANGED <<count, active, ui, rows, hover, request, arrivals, turns,
                 list, moved, collided>>

Count(t) ==
  /\ op[t].at = "count"
  /\ count' = count + 1
  /\ op' = [op EXCEPT ![t] = Idle]
  /\ UNCHANGED <<slots, active, ui, rows, hover, request, arrivals, turns,
                 list, moved, collided>>

(* The first entry with the id, if there is one.                           *)
message_model_delete_by_id(t, id) ==
  /\ op[t].at = "idle" /\ InArray(id)
  /\ Begin(t, "close", CHOOSE i \in 1 .. count :
                         /\ slots[i].id = id
                         /\ \A j \in 1 .. i - 1 : slots[j].id # id, Blank)
  /\ list' = Without(id) /\ collided' = (collided \/ Collides(t))
  /\ UNCHANGED <<slots, count, active, ui, rows, hover, request, arrivals,
                 turns, moved>>

(* One move of the loop that closes the gap, or its end.  (The mutant ends *)
(* it one move early.)                                                     *)
CloseGap_Early(t) ==
  /\ op[t].at = "close"
  /\ moved' = TRUE
  /\ IF op[t].i < count - 1
     THEN /\ slots' = [slots EXCEPT ![op[t].i] = slots[op[t].i + 1]]
          /\ op' = [op EXCEPT ![t].i = @ + 1]
          /\ UNCHANGED count
     ELSE /\ count' = count - 1
          /\ op' = [op EXCEPT ![t] = Idle]
          /\ UNCHANGED slots
  /\ UNCHANGED <<active, ui, rows, hover, request, arrivals, turns, list,
                 collided>>
CloseGap(t) ==
  /\ op[t].at = "close"
  /\ moved' = TRUE
  /\ IF op[t].i < count
     THEN /\ slots' = [slots EXCEPT ![op[t].i] = slots[op[t].i + 1]]
          /\ op' = [op EXCEPT ![t].i = @ + 1]
          /\ UNCHANGED count
     ELSE /\ count' = count - 1
          /\ op' = [op EXCEPT ![t] = Idle]
          /\ UNCHANGED slots
  /\ UNCHANGED <<active, ui, rows, hover, request, arrivals, turns, list,
                 collided>>

Writing(t) == Evict(t) \/ Write(t) \/ Count(t) \/ CloseGap(t)

-----------------------------------------------------------------------------
(* The listener thread: a SERVER_PUSH with a message, or a DELMSG.         *)
Listen == \E id \in Id : \/ message_model_add("listener", id, ChannelOf[id])
                         \/ message_model_delete_by_id("listener", id)

(* The active channel changes: by a click on a channel, or in the listener *)
(* thread when a channel is removed (module ChatClient).                   *)
Activate(channel) ==
  /\ turns < MaxTurns /\ channel # active
  /\ active' = channel /\ moved' = TRUE /\ turns' = turns + 1
  /\ UNCHANGED <<slots, count, op, ui, rows, hover, request, arrivals, list,
                 collided>>

-----------------------------------------------------------------------------
(* The UI thread: run_chat_loop polls events, then draws a frame.          *)

AtEvents == ui.at = "events" /\ op["ui"].at = "idle"

(* The button of the file transfer, once the dialog is closed.             *)
TransferFile == AtEvents /\ message_model_add("ui", 0, active)

(* The next step of a scan for the entries of a channel: an entry of       *)
(* another channel is passed over, and what follows the scan is next.      *)
Scanning(at) == ui.at = at /\ ui.i <= count

Scanned(at) == ui.at = at /\ ui.i > count

Mine == slots[ui.i].channel = ui.channel

BeginFrame ==
  /\ AtEvents
  /\ ui' = [at |-> "frame", i |-> 1, channel |-> active, rank |-> 0]
  /\ rows' = <<>> /\ hover' = 0 /\ request' = 0
  /\ moved' = \E t \in Thread : op[t].at \in {"evict", "close"}
  /\ UNCHANGED <<slots, count, op, active, arrivals, turns, list, collided>>

(* message_model_get_for_channel: the entry is looked at, then copied.     *)
(* (The mutants copy of every channel; or have room for one row less.)     *)
FrameLooks_All ==
  /\ Scanning("frame")
  /\ ui' = IF Len(rows) < MaxMessages
           THEN [ui EXCEPT !.at = "copy"] ELSE [ui EXCEPT !.i = @ + 1]
  /\ UNCHANGED <<slots, count, op, active, rows, hover, request, arrivals,
                 turns, list, moved, collided>>
FrameLooks_Short ==
  /\ Scanning("frame")
  /\ ui' = IF Mine /\ Len(rows) < MaxMessages - 1
           THEN [ui EXCEPT !.at = "copy"] ELSE [ui EXCEPT !.i = @ + 1]
  /\ UNCHANGED <<slots, count, op, active, rows, hover, request, arrivals,
                 turns, list, moved, collided>>
FrameLooks ==
  /\ Scanning("frame")
  /\ ui' = IF Mine /\ Len(rows) < MaxMessages
           THEN [ui EXCEPT !.at = "copy"] ELSE [ui EXCEPT !.i = @ + 1]
  /\ UNCHANGED <<slots, count, op, active, rows, hover, request, arrivals,
                 turns, list, moved, collided>>

FrameCopies ==
  /\ ui.at = "copy"
  /\ rows' = Append(rows, slots[ui.i])
  /\ ui' = [ui EXCEPT !.at = "frame", !.i = @ + 1]
  /\ UNCHANGED <<slots, count, op, active, hover, request, arrivals, turns,
                 list, moved, collided>>

(* The rows are drawn; the mouse is over one of them, or none.             *)
EndFrame ==
  /\ Scanned("frame")
  /\ ui' = Events
  /\ hover' \in 0 .. Len(rows)
  /\ UNCHANGED <<slots, count, op, active, rows, request, arrivals, turns,
                 list, moved, collided>>

(* A click on the icon of the row it was drawn at.                         *)
ClickTrash ==
  /\ AtEvents /\ hover # 0
  /\ ui' = [at |-> "trash", i |-> 1, channel |-> active, rank |-> 0]
  /\ UNCHANGED <<slots, count, op, active, rows, hover, request, arrivals,
                 turns, list, moved, collided>>

(* message_model_get_id_by_index_in_channel: the rank-th entry of the      *)
(* channel is looked for, then its id is read.  (The mutant counts the     *)
(* entry before it compares.)                                              *)
TrashLooks_Next ==
  /\ Scanning("trash")
  /\ ui' = CASE ~Mine                        -> [ui EXCEPT !.i = @ + 1]
             [] Mine /\ ui.rank = hover      -> [ui EXCEPT !.at = "ask"]
             [] OTHER -> [ui EXCEPT !.i = @ + 1, !.rank = @ + 1]
  /\ UNCHANGED <<slots, count, op, active, rows, hover, request, arrivals,
                 turns, list, moved, collided>>
TrashLooks ==
  /\ Scanning("trash")
  /\ ui' = CASE ~Mine                        -> [ui EXCEPT !.i = @ + 1]
             [] Mine /\ ui.rank + 1 = hover  -> [ui EXCEPT !.at = "ask"]
             [] OTHER -> [ui EXCEPT !.i = @ + 1, !.rank = @ + 1]
  /\ UNCHANGED <<slots, count, op, active, rows, hover, request, arrivals,
                 turns, list, moved, collided>>

(* The server is asked to delete the message.  There is no message for a   *)
(* file, nor for a rank that no entry has any more.                        *)
EndTrash ==
  /\ \/ ui.at = "ask" /\ request' = slots[ui.i].id
     \/ Scanned("trash") /\ UNCHANGED request
  /\ ui' = Events /\ hover' = 0
  /\ UNCHANGED <<slots, count, op, active, rows, arrivals, turns, list, moved,
                 collided>>

Draw == BeginFrame \/ FrameLooks \/ FrameCopies \/ EndFrame

Trash == TrashLooks \/ EndTrash

-----------------------------------------------------------------------------
Next == \/ Listen
        \/ \E channel \in Channel : Activate(channel)
        \/ \E t \in Thread : Writing(t)
        \/ TransferFile \/ ClickTrash
        \/ Draw \/ Trash

Spec == Init /\ [][Next]_vars

(* A call runs to its end, and the loop draws frame after frame.           *)
FairSpec ==
  /\ Spec
  /\ \A t \in Thread : WF_vars(Writing(t))
  /\ WF_vars(Draw) /\ WF_vars(Trash)

-----------------------------------------------------------------------------
(* The type of every variable.  No call writes behind the array, unless    *)
(* both threads found room for one more at once (message.c:37-54).         *)
TypeOK ==
  /\ slots \in [Slot -> Entry]
  /\ count \in 0 .. MaxMessages + 1
  /\ count > MaxMessages => collided
  /\ op \in [Thread -> [at : {"idle", "evict", "write", "count", "close"},
                        i : 0 .. MaxMessages + 1, entry : Entry]]
  /\ active \in Channel
  /\ ui \in [at : {"events", "frame", "copy", "trash", "ask"},
             i : 0 .. MaxMessages + 2, channel : Channel \cup {NoChannel},
             rank : 0 .. MaxMessages]
  /\ rows \in Seq(Entry) /\ Len(rows) <= MaxMessages
  /\ hover \in 0 .. Len(rows)
  /\ request \in Id \cup {0}
  /\ arrivals \in 0 .. MaxArrivals /\ turns \in 0 .. MaxTurns
  /\ list \in Seq(Entry) /\ Len(list) <= MaxMessages
  /\ moved \in BOOLEAN /\ collided \in BOOLEAN

(* Between two calls the array holds what one add or delete after another  *)
(* would have left, in the order of arrival: the loops of message.c:37-42  *)
(* and 57-67 lose and double nothing.                                      *)
ArrayIsList ==
  (~collided /\ \A t \in Thread : op[t].at = "idle")
     => list = [i \in 1 .. count |-> slots[i]]

(* A frame shows entries in the order of arrival, whatever is moved under  *)
(* it (message.c:11-22); if nothing was since it began, they are the first *)
(* of the active channel, without a gap.                                   *)
FrameTrue ==
  LET mine  == {slots[i] : i \in {n \in 1 .. count : slots[n].channel = active}}
      shown == {rows[k] : k \in DOMAIN rows}
  IN  ~collided =>
        /\ \A j, k \in DOMAIN rows : j < k => rows[j].stamp <= rows[k].stamp
        /\ ~moved =>
             /\ \A j, k \in DOMAIN rows : j < k => rows[j] # rows[k]
             /\ shown \subseteq mine
             /\ \A row \in shown, entry \in mine :
                  entry.stamp < row.stamp => entry \in shown

(* "hover over it and click the trash icon" (README.md:135): the message   *)
(* asked for is the one drawn under the icon, though the click only keeps  *)
(* its rank (chat_controller.c:523), unless an entry moved or the channel  *)
(* changed since the frame was begun.                                      *)
TrashRight ==
  [][request' \notin {request, 0} /\ ~moved /\ ~collided
       => request' = rows[hover].id]_vars

(* A message that stays, in a channel that stays active, gets on screen.   *)
Shown ==
  \A id \in Id :
    LET due == /\ active = ChannelOf[id] /\ ~collided
               /\ \E k \in DOMAIN list : list[k].id = id
    IN  due ~> (~due \/ \E k \in DOMAIN rows : rows[k].id = id)
=============================================================================
