-------------------------- MODULE ChatWindowProofs --------------------------
(***************************************************************************)
(* What holds of the array of messages for any number of messages,         *)
(* channels and slots, as long as the two threads have not been inside an  *)
(* add or a delete at once: it is the list that one call after another     *)
(* would have left, frames follow the order of arrival, and the trash icon *)
(* deletes the message it was drawn at.                                    *)
(***************************************************************************)
EXTENDS ChatWindow, TLAPS, WellFoundedInduction

Call == [at : {"idle", "evict", "write", "count", "close"},
         i : 0 .. MaxMessages + 1, entry : Entry]

Scans == [at : {"events", "frame", "copy", "trash", "ask"},
          i : 0 .. MaxMessages + 2, channel : Channel \cup {NoChannel},
          rank : 0 .. MaxMessages]

(* How many more entries a thread will count.                              *)
Growth(t) == IF op[t].at \in {"write", "count"} THEN 1 ELSE 0

(* A thread that found room for one more has it, two have one too many.    *)
Room ==
  count + Growth("listener") + Growth("ui")
    <= MaxMessages + (IF collided THEN 1 ELSE 0)

CallFits ==
  \A t \in Thread :
    /\ op[t].at = "evict" => op[t].i \in 1 .. MaxMessages
    /\ op[t].at = "close" => t = "listener" /\ op[t].i >= 1 /\ count >= 1

OneInside ==
  ~collided => \A t, u \in Thread :
                 t # u => op[t].at = "idle" \/ op[u].at = "idle"

ScanFits ==
  /\ ui.at # "events" => ui.i >= 1
  /\ ui.at \in {"copy", "ask"} => ui.i <= MaxMessages + 1
  /\ ui.at = "copy" => Len(rows) < MaxMessages
  /\ ui.at = "trash" => ui.rank < hover

TypeInv == TypeOK /\ Room /\ CallFits /\ OneInside /\ ScanFits

(* The list holds an id once, in the order of arrival.                     *)
ListInOrder ==
  /\ \A j, k \in 1 .. Len(list) : j < k => list[j].stamp < list[k].stamp
  /\ \A j, k \in 1 .. Len(list) : list[j].id = list[k].id /\ list[j].id # 0 => j = k
  /\ \A k \in 1 .. Len(list) : list[k].stamp <= arrivals

(* Where the array and the list agree while a thread is inside a call.     *)
Agree(n) == \A j \in 1 .. n : slots[j] = list[j]

Shifted(i) ==
  /\ Agree(i - 1)
  /\ \A j \in 1 .. i - 1 : list[j].stamp <= slots[i].stamp
  /\ \A j \in i .. Len(list) : slots[i].stamp <= list[j].stamp

Adding(t) ==
  /\ Len(list) >= 1 /\ list[Len(list)] = op[t].entry
  /\ op[t].entry.stamp = arrivals

Inside(t) ==
  /\ op[t].at = "evict" =>
       /\ count = MaxMessages /\ Len(list) = MaxMessages
       /\ Adding(t) /\ Shifted(op[t].i)
       /\ \A j \in op[t].i .. MaxMessages - 1 : slots[j + 1] = list[j]
  /\ op[t].at = "write" => Len(list) = count + 1 /\ Adding(t) /\ Agree(count)
  /\ op[t].at = "count" => Len(list) = count + 1 /\ Adding(t) /\ Agree(count + 1)
  /\ op[t].at = "close" =>
       /\ Len(list) = count - 1 /\ op[t].i <= count /\ Shifted(op[t].i)
       /\ \A j \in op[t].i .. count - 1 : slots[j + 1] = list[j]

AllIdle == \A t \in Thread : op[t].at = "idle"

ArrayInv ==
  ~collided => /\ AllIdle => Len(list) = count /\ Agree(count)
               /\ \A t \in Thread : Inside(t)

IInv == TypeInv /\ ListInOrder /\ ArrayInv

(* Nothing is newer than the last arrival.                                 *)
NoneNewer ==
  /\ \A j \in Slot : slots[j].stamp <= arrivals
  /\ \A r \in 1 .. Len(rows) : rows[r].stamp <= arrivals
  /\ \A t \in Thread : op[t].entry.stamp <= arrivals

(* The rows so far are older than what the scan has not passed.            *)
RowsInOrder ==
  ~collided =>
    /\ \A j, k \in 1 .. Len(rows) : j < k => rows[j].stamp <= rows[k].stamp
    /\ ui.at = "frame" => \A r \in 1 .. Len(rows), j \in ui.i .. count :
                            rows[r].stamp <= slots[j].stamp
    /\ ui.at = "copy" => \A r \in 1 .. Len(rows) : rows[r].stamp <= slots[ui.i].stamp

(* The entry is one of the first n of the array, in the active channel.    *)
Among(entry, n) ==
  \E j \in 1 .. n : j <= count /\ slots[j] = entry /\ entry.channel = active

InRows(entry, n) == \E r \in 1 .. n : rows[r] = entry

(* While nothing moves, the scans see the array as it is.                  *)
StillFrame ==
  /\ Len(rows) <= ui.i - 1 /\ ui.i <= count + 1 /\ ui.channel = active
  /\ \A r \in 1 .. Len(rows) : Among(rows[r], ui.i - 1)
  /\ \A j \in 1 .. ui.i - 1 : slots[j].channel = active => InRows(slots[j], Len(rows))

StillTrash ==
  /\ ui.i <= count + 1 /\ ui.channel = active
  /\ \A r \in 1 .. ui.rank : Among(rows[r], ui.i - 1)
  /\ \A j \in 1 .. ui.i - 1 : slots[j].channel = active => InRows(slots[j], ui.rank)

Strict ==
  /\ \A j, k \in 1 .. count : j < k => slots[j].stamp < slots[k].stamp
  /\ \A j, k \in 1 .. Len(rows) : j < k => rows[j].stamp < rows[k].stamp

NoGap ==
  /\ \A r \in 1 .. Len(rows) : Among(rows[r], count)
  /\ \A r \in 1 .. Len(rows), j \in 1 .. count :
       slots[j].channel = active /\ slots[j].stamp < rows[r].stamp
         => InRows(slots[j], Len(rows))

Still ==
  ~collided /\ ~moved =>
    /\ Strict /\ NoGap
    /\ ui.at \in {"frame", "copy"} => StillFrame
    /\ ui.at = "copy" => ui.i <= count /\ slots[ui.i].channel = active
    /\ ui.at = "trash" => StillTrash
    /\ ui.at = "ask" => ui.i <= count /\ slots[ui.i] = rows[hover]

FrameInv == NoneNewer /\ RowsInOrder /\ Still

-----------------------------------------------------------------------------
(* Sequences.                                                              *)

LEMMA Appended ==
  ASSUME NEW S, NEW q \in Seq(S), NEW e \in S
  PROVE  /\ Append(q, e) \in Seq(S)
         /\ Len(q) \in Nat /\ Len(Append(q, e)) = Len(q) + 1
         /\ \A j \in 1 .. Len(q) : Append(q, e)[j] = q[j]
         /\ Append(q, e)[Len(q) + 1] = e
  OBVIOUS

LEMMA TailOf ==
  ASSUME NEW S, NEW q \in Seq(S), Len(q) >= 1
  PROVE  /\ Tail(q) \in Seq(S) /\ Len(Tail(q)) = Len(q) - 1
         /\ \A j \in 1 .. Len(q) - 1 : Tail(q)[j] = q[j + 1]
  <1>1. q # <<>>
    OBVIOUS
  <1> QED
    BY <1>1

LEMMA Pushed ==
  ASSUME NEW S, NEW q \in Seq(S), NEW e \in S, Len(q) >= 1
  PROVE  /\ Append(Tail(q), e) \in Seq(S) /\ Len(Append(Tail(q), e)) = Len(q)
         /\ \A j \in 1 .. Len(q) - 1 : Append(Tail(q), e)[j] = q[j + 1]
         /\ Append(Tail(q), e)[Len(q)] = e
  <1>1. PICK p : p = Tail(q)
    OBVIOUS
  <1>2. /\ p \in Seq(S) /\ Len(p) = Len(q) - 1 /\ Len(p) + 1 = Len(q)
        /\ \A j \in 1 .. Len(q) - 1 : p[j] = q[j + 1]
    BY <1>1, TailOf
  <1>3. /\ Append(p, e) \in Seq(S) /\ Len(Append(p, e)) = Len(q)
        /\ \A j \in 1 .. Len(q) - 1 : Append(p, e)[j] = p[j]
        /\ Append(p, e)[Len(q)] = e
    BY <1>2, Appended
  <1> QED
    BY <1>1, <1>2, <1>3

(* A set of numbers that is not empty has a least one.                     *)
LEMMA NatMinimum ==
  ASSUME NEW S \in SUBSET Nat, S # {}
  PROVE  \E i \in S : \A j \in S : i <= j
  <1> DEFINE R == OpToRel(<, Nat)
  <1>1. IsWellFoundedOn(R, Nat)
    BY NatLessThanWellFounded, Zenon
  <1>2. \A i, j \in Nat : <<j, i>> \in R <=> j < i
    BY DEF OpToRel
  <1> HIDE DEF R
  <1>3. PICK i \in S : \A j \in S : ~(<<j, i>> \in R)
    BY <1>1, WFMin
  <1>4. \A j \in S : ~(j < i) /\ j \in Nat /\ i \in Nat
    BY <1>2, <1>3
  <1>5. \A j \in S : i <= j
    BY <1>4
  <1> QED
    BY <1>5

LEMMA Joined ==
  ASSUME NEW S, NEW u \in Seq(S), NEW v \in Seq(S)
  PROVE  /\ u \o v \in Seq(S) /\ Len(u \o v) = Len(u) + Len(v)
         /\ \A j \in 1 .. Len(u) : (u \o v)[j] = u[j]
         /\ \A j \in Len(u) + 1 .. Len(u) + Len(v) : (u \o v)[j] = v[j - Len(u)]
  OBVIOUS

LEMMA Removed ==
  ASSUME NEW S, NEW q \in Seq(S), NEW k \in 1 .. Len(q)
  PROVE  /\ RemoveAt(q, k) \in Seq(S) /\ Len(RemoveAt(q, k)) = Len(q) - 1
         /\ \A j \in 1 .. k - 1 : RemoveAt(q, k)[j] = q[j]
         /\ \A j \in k .. Len(q) - 1 : RemoveAt(q, k)[j] = q[j + 1]
  <1> DEFINE front == SubSeq(q, 1, k - 1)  back == SubSeq(q, k + 1, Len(q))
  <1>1. Len(q) \in Nat /\ k \in Nat /\ k - 1 \in 0 .. Len(q)
    OBVIOUS
  <1>2. /\ front \in Seq(S) /\ Len(front) = k - 1
        /\ \A j \in 1 .. k - 1 : front[j] = q[j]
    BY <1>1
  <1>3. /\ back \in Seq(S) /\ Len(back) = Len(q) - k
        /\ \A j \in 1 .. Len(q) - k : back[j] = q[k + j]
    BY <1>1
  <1>4. /\ front \o back \in Seq(S) /\ Len(front \o back) = Len(q) - 1
        /\ \A j \in 1 .. k - 1 : (front \o back)[j] = front[j]
        /\ \A j \in k .. Len(q) - 1 : (front \o back)[j] = back[j - (k - 1)]
    <2> HIDE DEF front, back
    <2>1. /\ Len(front) = k - 1 /\ Len(front) + 1 = k
          /\ Len(front) + Len(back) = Len(q) - 1
      BY <1>1, <1>2, <1>3
    <2>2. /\ front \o back \in Seq(S) /\ Len(front \o back) = Len(front) + Len(back)
          /\ \A j \in 1 .. Len(front) : (front \o back)[j] = front[j]
          /\ \A j \in Len(front) + 1 .. Len(front) + Len(back) :
               (front \o back)[j] = back[j - Len(front)]
      BY <1>2, <1>3, Joined
    <2> QED
      BY <2>1, <2>2
  <1>5. RemoveAt(q, k) = front \o back
    BY DEF RemoveAt
  <1>6. ASSUME NEW j \in k .. Len(q) - 1 PROVE RemoveAt(q, k)[j] = q[j + 1]
    <2>1. j - (k - 1) \in 1 .. Len(q) - k /\ k + (j - (k - 1)) = j + 1
      BY <1>1
    <2> QED
      BY <1>3, <1>4, <1>5, <2>1
  <1> QED
    BY <1>2, <1>4, <1>5, <1>6
-----------------------------------------------------------------------------
(* The steps of the two threads.                                           *)

Add(t) ==
  \E id \in Id \cup {0}, channel \in Channel : message_model_add(t, id, channel)

Delete == \E id \in Id : message_model_delete_by_id("listener", id)

Scan == BeginFrame \/ FrameLooks \/ FrameCopies \/ EndFrame
          \/ ClickTrash \/ TrashLooks \/ EndTrash

LEMMA NextCases ==
  ASSUME TypeOK, Next
  PROVE  \/ \E t \in Thread : Add(t) \/ Evict(t) \/ Write(t) \/ Count(t) \/ CloseGap(t)
         \/ Delete \/ (\E channel \in Channel : Activate(channel)) \/ Scan
  <1>1. "listener" \in Thread /\ "ui" \in Thread
    BY DEF Thread
  <1>2. ASSUME Listen PROVE Add("listener") \/ Delete
    <2> PICK id \in Id : \/ message_model_add("listener", id, ChannelOf[id])
                         \/ message_model_delete_by_id("listener", id)
      BY <1>2 DEF Listen
    <2>1. ChannelOf[id] \in Channel
      BY WindowAssumption
    <2> QED
      BY <2>1 DEF Add, Delete
  <1>3. ASSUME TransferFile PROVE Add("ui")
    BY <1>3 DEF TransferFile, Add, TypeOK
  <1> QED
    BY <1>1, <1>2, <1>3 DEF Next, Scan, Writing, Draw, Trash

(* What a call of message_model_add should make of the list.               *)
LEMMA AddedFacts ==
  ASSUME TypeOK, NEW e \in Entry
  PROVE  /\ Added(e) \in Seq(Entry) /\ Len(Added(e)) <= MaxMessages
         /\ (e.id # 0 /\ \E k \in 1 .. Len(list) : list[k].id = e.id) => Added(e) = list
         /\ ~(e.id # 0 /\ \E k \in 1 .. Len(list) : list[k].id = e.id) =>
              /\ Len(list) = MaxMessages =>
                   /\ Len(Added(e)) = MaxMessages /\ Added(e)[MaxMessages] = e
                   /\ \A j \in 1 .. MaxMessages - 1 : Added(e)[j] = list[j + 1]
              /\ Len(list) # MaxMessages =>
                   /\ Len(Added(e)) = Len(list) + 1 /\ Added(e)[Len(list) + 1] = e
                   /\ \A j \in 1 .. Len(list) : Added(e)[j] = list[j]
  <1> DEFINE held == e.id # 0 /\ \E k \in 1 .. Len(list) : list[k].id = e.id
  <1>1. /\ list \in Seq(Entry) /\ Len(list) <= MaxMessages /\ Len(list) \in Nat
        /\ DOMAIN list = 1 .. Len(list) /\ MaxMessages \in Nat /\ MaxMessages > 1
    BY WindowAssumption DEF TypeOK
  <1>2. CASE held
    BY <1>1, <1>2 DEF Added
  <1>3. CASE ~held /\ Len(list) = MaxMessages
    <2>1. Added(e) = Append(Tail(list), e)
      BY <1>1, <1>3 DEF Added
    <2>2. /\ Added(e) \in Seq(Entry) /\ Len(Added(e)) = Len(list)
          /\ \A j \in 1 .. Len(list) - 1 : Added(e)[j] = list[j + 1]
          /\ Added(e)[Len(list)] = e
      BY <1>1, <1>3, <2>1, Pushed
    <2> QED
      BY <1>1, <1>3, <2>2
  <1>4. CASE ~held /\ Len(list) # MaxMessages
    <2>1. Added(e) = Append(list, e)
      BY <1>1, <1>4 DEF Added
    <2> QED
      <3>1. /\ Added(e) \in Seq(Entry) /\ Len(Added(e)) = Len(list) + 1
            /\ \A j \in 1 .. Len(list) : Added(e)[j] = list[j]
            /\ Added(e)[Len(list) + 1] = e
        BY <1>1, <2>1, Appended
      <3>2. Len(Added(e)) <= MaxMessages
        <4> DEFINE n == Len(list)
        <4>1. n \in Nat /\ n <= MaxMessages /\ n # MaxMessages /\ MaxMessages \in Nat
          BY <1>1, <1>4
        <4> HIDE DEF n
        <4>2. n + 1 <= MaxMessages
          BY <4>1
        <4> QED
          BY <3>1, <4>2 DEF n
      <3> QED
        BY <1>4, <3>1, <3>2, Zenon
  <1> QED
    BY <1>2, <1>3, <1>4

(* And a call of message_model_delete_by_id.                               *)
LEMMA WithoutFacts ==
  ASSUME TypeOK, NEW id
  PROVE  /\ Without(id) \in Seq(Entry) /\ Len(Without(id)) <= Len(list)
         /\ (\A k \in 1 .. Len(list) : list[k].id # id) => Without(id) = list
         /\ (\E k \in 1 .. Len(list) : list[k].id = id) =>
              \E k \in 1 .. Len(list) :
                /\ list[k].id = id
                /\ Len(Without(id)) = Len(list) - 1
                /\ \A j \in 1 .. k - 1 : Without(id)[j] = list[j]
                /\ \A j \in k .. Len(list) - 1 : Without(id)[j] = list[j + 1]
  <1> DEFINE places == {k \in DOMAIN list : list[k].id = id}
             k == CHOOSE n \in places : TRUE
  <1>1. /\ list \in Seq(Entry) /\ Len(list) \in Nat /\ DOMAIN list = 1 .. Len(list)
    BY DEF TypeOK
  <1>2. CASE places = {}
    <2>1. \A n \in 1 .. Len(list) : list[n].id # id
      BY <1>1, <1>2
    <2>2. Without(id) = list
      BY <1>2 DEF Without
    <2>3. Len(Without(id)) <= Len(list)
      BY <1>1, <2>2
    <2> QED
      BY <1>1, <2>1, <2>2, <2>3, Zenon
  <1>3. CASE places # {}
    <2>1. k \in places
      BY <1>3
    <2>2. k \in 1 .. Len(list) /\ list[k].id = id
      BY <1>1, <2>1
    <2>3. Without(id) = RemoveAt(list, k)
      BY <1>3 DEF Without
    <2> HIDE DEF k
    <2>4. /\ Without(id) \in Seq(Entry) /\ Len(Without(id)) = Len(list) - 1
          /\ \A j \in 1 .. k - 1 : Without(id)[j] = list[j]
          /\ \A j \in k .. Len(list) - 1 : Without(id)[j] = list[j + 1]
      BY <1>1, <2>2, <2>3, Removed
    <2> QED
      BY <1>1, <2>2, <2>4
  <1> QED
    BY <1>2, <1>3
-----------------------------------------------------------------------------
(* Types.                                                                  *)

LEMMA Called ==
  ASSUME TypeOK, NEW t \in Thread, NEW c \in Call, op' = [op EXCEPT ![t] = c]
  PROVE  /\ op' \in [Thread -> Call] /\ op'[t] = c
         /\ \A u \in Thread \ {t} : op'[u] = op[u]
  BY DEF TypeOK, Call

LEMMA Constants ==
  /\ MaxMessages \in Nat /\ MaxMessages > 1 /\ MaxArrivals \in Nat /\ MaxTurns \in Nat
  /\ Thread = {"listener", "ui"} /\ Idle \in Call /\ Blank \in Entry
  /\ \A id \in Id : id \in Nat /\ id # 0 /\ ChannelOf[id] \in Channel
  BY WindowAssumption DEF Thread, Idle, Blank, Call, Entry

LEMMA AddTypes ==
  ASSUME TypeInv, NEW t \in Thread, Add(t)
  PROVE  TypeInv'
  <1> USE Constants DEF TypeInv
  <1> PICK id \in Id \cup {0}, channel \in Channel : message_model_add(t, id, channel)
    BY DEF Add
  <1> DEFINE e == [id |-> id, channel |-> channel, stamp |-> arrivals + 1]
             at == IF count >= MaxMessages THEN "evict" ELSE "write"
             c == [at |-> at, i |-> 1, entry |-> e]
  <1>1. /\ op[t].at = "idle" /\ arrivals < MaxArrivals /\ arrivals' = arrivals + 1
        /\ list' = Added(e)
        /\ \/ UNCHANGED op
           \/ op' = [op EXCEPT ![t] = c]
        /\ collided' = (collided \/ \E u \in Thread \ {t} : op[u].at # "idle")
        /\ UNCHANGED <<slots, count, active, ui, rows, hover, request, turns, moved>>
    BY DEF message_model_add, Begin, Collides
  <1>2. e \in Entry /\ c \in Call /\ arrivals' \in 0 .. MaxArrivals
    BY <1>1 DEF TypeOK, Entry, Call
  <1>3. list' \in Seq(Entry) /\ Len(list') <= MaxMessages
    BY <1>1, <1>2, AddedFacts
  <1>4. op' \in [Thread -> Call]
    BY <1>1, <1>2, Called DEF TypeOK, Call
  <1>5. collided' \in BOOLEAN /\ (collided => collided')
    BY <1>1 DEF TypeOK
  <1>6. TypeOK'
    <2>1. arrivals' \in 0 .. MaxArrivals
      BY <1>2
    <2>2. UNCHANGED <<slots, count, active, ui, rows, hover, request, turns, moved>>
      BY <1>1
    <2> HIDE DEF e, c, at
    <2> QED
      BY <1>3, <1>4, <1>5, <2>1, <2>2 DEF TypeOK, Call
  <1>7. \/ UNCHANGED op
        \/ /\ op'[t] = c /\ \A u \in Thread \ {t} : op'[u] = op[u]
    BY <1>1, <1>2, Called
  <1> HIDE DEF e, c
  <1>8. c.at = at /\ c.i = 1
    BY DEF c
  <1>9. Room'
    <2>1. CASE UNCHANGED op
      BY <1>1, <1>5, <2>1 DEF Room, Growth, TypeOK
    <2>2. CASE op'[t] = c /\ \A u \in Thread \ {t} : op'[u] = op[u]
      <3>1. \A u \in Thread \ {t} : collided' \/ op'[u].at = "idle"
        BY <1>1, <2>2
      <3>2. count \in Nat
        BY DEF TypeOK
      <3>3. CASE t = "listener"
        BY <1>1, <1>5, <1>8, <2>2, <3>1, <3>2, <3>3 DEF Room, Growth
      <3>4. CASE t = "ui"
        BY <1>1, <1>5, <1>8, <2>2, <3>1, <3>2, <3>4 DEF Room, Growth
      <3> QED
        BY <3>3, <3>4
    <2> QED
      BY <1>7, <2>1, <2>2
  <1>10. CallFits'
    BY <1>1, <1>7, <1>8 DEF CallFits
  <1>11. OneInside'
    <2>1. ASSUME ~collided' PROVE \A u \in Thread \ {t} : op[u].at = "idle"
      BY <1>1, <2>1
    <2> QED
      BY <1>5, <1>7, <2>1 DEF OneInside
  <1>12. ScanFits'
    BY <1>1 DEF ScanFits
  <1> QED
    BY <1>6, <1>9, <1>10, <1>11, <1>12

(* If some slot holds the id, there is a first.                            *)
LEMMA FirstSlot ==
  ASSUME count \in Nat, NEW id, InArray(id)
  PROVE  \E i \in 1 .. count : slots[i].id = id /\ \A j \in 1 .. i - 1 : slots[j].id # id
  <1> DEFINE holds == {i \in 1 .. count : slots[i].id = id}
  <1>1. holds \subseteq Nat /\ holds # {}
    BY DEF InArray
  <1>2. PICK i \in holds : \A j \in holds : i <= j
    BY <1>1, NatMinimum
  <1> QED
    BY <1>2

LEMMA DeleteTypes ==
  ASSUME TypeInv, Delete
  PROVE  TypeInv'
  <1> USE Constants DEF TypeInv
  <1> PICK id \in Id : message_model_delete_by_id("listener", id)
    BY DEF Delete
  <1>1. PICK i \in 1 .. count :
          /\ op["listener"].at = "idle"
          /\ op' = [op EXCEPT !["listener"] = [at |-> "close", i |-> i, entry |-> Blank]]
          /\ collided' = (collided \/ \E u \in Thread \ {"listener"} : op[u].at # "idle")
          /\ list' = Without(id)
          /\ UNCHANGED <<slots, count, active, ui, rows, hover, request, arrivals,
                         turns, moved>>
    <2>1. \E i \in 1 .. count : slots[i].id = id /\ \A j \in 1 .. i - 1 : slots[j].id # id
      BY FirstSlot DEF message_model_delete_by_id, TypeOK
    <2> QED
      BY <2>1 DEF message_model_delete_by_id, Begin, Collides
  <1> DEFINE c == [at |-> "close", i |-> i, entry |-> Blank]
  <1>2. count \in Nat /\ count >= 1 /\ c \in Call
    BY DEF TypeOK, Call
  <1>3. /\ op' \in [Thread -> Call] /\ op'["listener"] = c
        /\ op'["ui"] = op["ui"]
    BY <1>1, <1>2, Called
  <1>4. list' \in Seq(Entry) /\ Len(list') <= MaxMessages
    <2>1. Len(Without(id)) <= Len(list) /\ Without(id) \in Seq(Entry)
      BY WithoutFacts
    <2>2. Len(list) \in Nat /\ Len(list) <= MaxMessages
      BY DEF TypeOK
    <2>3. Len(Without(id)) \in Nat
      BY <2>1
    <2> QED
      BY <1>1, <2>1, <2>2, <2>3
  <1>5. collided' \in BOOLEAN /\ (collided => collided')
    BY <1>1 DEF TypeOK
  <1>6. TypeOK'
    BY <1>1, <1>3, <1>4, <1>5 DEF TypeOK, Call
  <1> HIDE DEF c
  <1>7. c.at = "close" /\ c.i = i
    BY DEF c
  <1>8. Room'
    BY <1>1, <1>2, <1>3, <1>5, <1>7 DEF Room, Growth
  <1>9. CallFits'
    BY <1>1, <1>2, <1>3, <1>7 DEF CallFits
  <1>10. OneInside'
    BY <1>1, <1>3, <1>5 DEF OneInside
  <1>11. ScanFits'
    BY <1>1 DEF ScanFits
  <1> QED
    BY <1>6, <1>8, <1>9, <1>10, <1>11

(* One step of a thread that is inside a call.                             *)
Step(t) == Evict(t) \/ Write(t) \/ Count(t) \/ CloseGap(t)

LEMMA WritingTypes ==
  ASSUME TypeInv, NEW t \in Thread, Step(t)
  PROVE  TypeInv'
  <1> USE Constants DEF TypeInv
  <1>1. /\ count \in Nat /\ count <= MaxMessages + 1 /\ count + Growth(t) <= MaxMessages + 1
        /\ op[t] \in Call /\ slots \in [Slot -> Entry] /\ Idle.at = "idle"
    BY DEF TypeOK, Room, Growth, Call, Idle
  <1>2. /\ op[t].at # "idle"
        /\ UNCHANGED <<active, ui, rows, hover, request, arrivals, turns, list, collided>>
    BY DEF Step, Evict, Write, Count, CloseGap
  <1>3. PICK c \in Call :
          /\ op' = [op EXCEPT ![t] = c] /\ slots' \in [Slot -> Entry] /\ moved' \in BOOLEAN
          /\ \/ /\ op[t].at = "evict" /\ c.at = "evict" /\ count' = count
                /\ c.i \in 1 .. MaxMessages
             \/ op[t].at = "evict" /\ c.at = "write" /\ count' = MaxMessages - 1
             \/ op[t].at = "write" /\ c.at = "count" /\ count' = count
             \/ op[t].at = "count" /\ c.at = "idle" /\ count' = count + 1
             \/ /\ op[t].at = "close" /\ c.at = "close" /\ count' = count
                /\ c.i >= 1
             \/ op[t].at = "close" /\ c.at = "idle" /\ count' = count - 1
    <2>1. CASE Evict(t) /\ op[t].i < MaxMessages
      <3> DEFINE c == [op[t] EXCEPT !.i = @ + 1]
      <3>1. op[t].i \in 1 .. MaxMessages
        BY <2>1 DEF Evict, CallFits
      <3>2. c \in Call /\ c.at = "evict" /\ c.i \in 1 .. MaxMessages
        BY <1>1, <2>1, <3>1 DEF Evict, Call
      <3>3. op[t].i \in Slot /\ op[t].i + 1 \in Slot
        BY <2>1, <3>1 DEF Slot
      <3>4. op' = [op EXCEPT ![t] = c] /\ slots' \in [Slot -> Entry]
        BY <1>1, <2>1, <3>3 DEF Evict, TypeOK
      <3> QED
        BY <2>1, <3>2, <3>4 DEF Evict
    <2>2. CASE Evict(t) /\ ~(op[t].i < MaxMessages)
      <3> DEFINE c == [op[t] EXCEPT !.at = "write"]
      <3>1. c \in Call /\ c.at = "write" /\ op' = [op EXCEPT ![t] = c]
        BY <1>1, <2>2 DEF Evict, Call, TypeOK
      <3> QED
        BY <1>1, <2>2, <3>1 DEF Evict
    <2>3. CASE Write(t)
      <3> DEFINE c == [op[t] EXCEPT !.at = "count"]
      <3>1. c \in Call /\ c.at = "count" /\ op' = [op EXCEPT ![t] = c]
        BY <1>1, <2>3 DEF Write, Call, TypeOK
      <3>2. count + 1 \in Slot /\ op[t].entry \in Entry
        BY <1>1, <2>3 DEF Write, Slot, Growth, Call
      <3> QED
        BY <1>1, <2>3, <3>1, <3>2 DEF Write, TypeOK
    <2>4. CASE Count(t)
      BY <1>1, <2>4 DEF Count, TypeOK
    <2>5. CASE CloseGap(t) /\ op[t].i < count
      <3> DEFINE c == [op[t] EXCEPT !.i = @ + 1]
      <3>1. op[t].i >= 1 /\ op[t].i \in Nat
        BY <1>1, <2>5 DEF CloseGap, CallFits, Call
      <3>2. c \in Call /\ c.at = "close" /\ c.i >= 1
        BY <1>1, <2>5, <3>1 DEF CloseGap, Call
      <3>3. op[t].i \in Slot /\ op[t].i + 1 \in Slot
        BY <1>1, <2>5, <3>1 DEF Slot
      <3>4. op' = [op EXCEPT ![t] = c] /\ slots' \in [Slot -> Entry]
        BY <1>1, <2>5, <3>3 DEF CloseGap, TypeOK
      <3> QED
        BY <2>5, <3>2, <3>4 DEF CloseGap
    <2>6. CASE CloseGap(t) /\ ~(op[t].i < count)
      BY <1>1, <2>6 DEF CloseGap, TypeOK
    <2> QED
      BY <2>1, <2>2, <2>3, <2>4, <2>5, <2>6 DEF Step
  <1>4. /\ op' \in [Thread -> Call] /\ op'[t] = c
        /\ \A u \in Thread \ {t} : op'[u] = op[u]
    BY <1>3, Called
  <1>5. op[t].at = "close" => t = "listener" /\ count >= 1
    BY DEF CallFits
  <1>6. Room' /\ count' \in Nat
    <2>1. collided \/ \A u \in Thread \ {t} : op[u].at = "idle"
      BY <1>2 DEF OneInside
    <2>2. CASE t = "listener"
      BY <1>1, <1>2, <1>3, <1>4, <1>5, <2>1, <2>2 DEF Room, Growth
    <2>3. CASE t = "ui"
      BY <1>1, <1>2, <1>3, <1>4, <1>5, <2>1, <2>3 DEF Room, Growth
    <2> QED
      BY <2>2, <2>3
  <1>7. count' \in 0 .. MaxMessages + 1 /\ (count' > MaxMessages => collided')
    BY <1>6 DEF Room, Growth
  <1>8. TypeOK'
    BY <1>2, <1>3, <1>4, <1>7 DEF TypeOK, Call
  <1>9. CallFits'
    <2>1. ASSUME NEW u \in Thread \ {t}, op[u].at = "close" PROVE count' >= 1
      <3>1. u = "listener" /\ count >= 1 /\ op[t].at # "close"
        BY <2>1 DEF CallFits
      <3> QED
        BY <1>1, <1>3, <3>1
    <2> QED
      BY <1>1, <1>3, <1>4, <1>5, <2>1 DEF CallFits
  <1>10. OneInside'
    BY <1>2, <1>4 DEF OneInside
  <1>11. ScanFits'
    BY <1>2 DEF ScanFits
  <1> QED
    BY <1>6, <1>8, <1>9, <1>10, <1>11

LEMMA ScanTypes ==
  ASSUME TypeInv, Scan \/ \E channel \in Channel : Activate(channel)
  PROVE  TypeInv'
  <1> USE Constants DEF TypeInv
  <1>1. UNCHANGED <<slots, count, op, arrivals, list, collided>>
    BY DEF Scan, BeginFrame, FrameLooks, FrameCopies, EndFrame, ClickTrash,
           TrashLooks, EndTrash, Activate
  <1>2. Room' /\ CallFits' /\ OneInside'
    BY <1>1 DEF Room, CallFits, OneInside, Growth
  <1> SUFFICES TypeOK' /\ ScanFits'
    BY <1>2
  <1>3. /\ rows \in Seq(Entry) /\ Len(rows) \in Nat /\ Len(rows) <= MaxMessages
        /\ count \in 0 .. MaxMessages + 1 /\ slots \in [Slot -> Entry]
        /\ ui \in Scans /\ hover \in 0 .. Len(rows) /\ active \in Channel
        /\ ui.i \in Nat /\ ui.rank \in Nat /\ count \in Nat
    BY DEF TypeOK, Scans
  <1>4. ASSUME NEW channel \in Channel, Activate(channel) PROVE TypeOK' /\ ScanFits'
    BY <1>1, <1>4 DEF Activate, TypeOK, Scans, ScanFits
  <1>5. CASE BeginFrame
    BY <1>1, <1>3, <1>5 DEF BeginFrame, TypeOK, Scans, ScanFits
  <1>6. CASE FrameLooks
    <2>1. ui.at = "frame" /\ ui.i <= count /\ ui.i >= 1
      BY <1>6 DEF FrameLooks, Scanning, ScanFits
    <2>2. /\ ui' \in Scans /\ ui'.at \in {"frame", "copy"} /\ ui'.i >= 1
          /\ ui'.at = "copy" => ui'.i <= MaxMessages + 1 /\ Len(rows) < MaxMessages
      <3>1. ui.i + 1 \in 0 .. MaxMessages + 2 /\ ui.i + 1 >= 1 /\ ui.i <= MaxMessages + 1
        BY <1>3, <2>1
      <3>2. CASE ui' = [ui EXCEPT !.at = "copy"] /\ Len(rows) < MaxMessages
        <4>1. ui' = [at |-> "copy", i |-> ui.i, channel |-> ui.channel, rank |-> ui.rank]
              /\ ui' \in Scans
          <5>1. ui' = [at |-> "copy", i |-> ui.i, channel |-> ui.channel, rank |-> ui.rank]
            BY <1>3, <3>2 DEF Scans
          <5> QED
            BY <1>3, <3>2, <5>1 DEF Scans
        <4> QED
          BY <2>1, <3>1, <3>2, <4>1
      <3>3. CASE ui' = [ui EXCEPT !.i = @ + 1]
        <4>1. ui' = [at |-> "frame", i |-> ui.i + 1, channel |-> ui.channel, rank |-> ui.rank]
              /\ ui' \in Scans
          <5>1. ui' = [at |-> "frame", i |-> ui.i + 1, channel |-> ui.channel, rank |-> ui.rank]
            BY <1>3, <2>1, <3>1, <3>3 DEF Scans
          <5> QED
            BY <1>3, <2>1, <3>1, <3>3, <5>1 DEF Scans
        <4> QED
          BY <3>1, <4>1
      <3> QED
        BY <1>6, <3>2, <3>3 DEF FrameLooks
    <2>3. UNCHANGED <<active, rows, hover, request, turns, moved>>
      BY <1>6 DEF FrameLooks
    <2>4. TypeOK'
      BY <1>1, <2>2, <2>3 DEF TypeOK, Scans
    <2> QED
      BY <2>2, <2>3, <2>4 DEF ScanFits
  <1>7. CASE FrameCopies
    <2>1. ui.at = "copy" /\ ui.i >= 1 /\ ui.i <= MaxMessages + 1 /\ Len(rows) < MaxMessages
      BY <1>7 DEF FrameCopies, ScanFits
    <2>2. slots[ui.i] \in Entry
      BY <1>3, <2>1 DEF Slot
    <2>3. rows' \in Seq(Entry) /\ Len(rows') = Len(rows) + 1
      BY <1>3, <1>7, <2>2, Appended DEF FrameCopies
    <2>4. Len(rows') <= MaxMessages /\ hover' \in 0 .. Len(rows')
      BY <1>3, <1>7, <2>1, <2>3 DEF FrameCopies
    <2>5. ui.i + 1 \in 0 .. MaxMessages + 2 /\ ui.i + 1 >= 1
      BY <1>3, <2>1
    <2>6. ui' \in Scans /\ ui'.at = "frame" /\ ui'.i >= 1
      BY <1>3, <1>7, <2>1, <2>5 DEF FrameCopies, Scans
    <2> QED
      BY <1>1, <1>3, <1>7, <2>3, <2>4, <2>6 DEF FrameCopies, TypeOK, Scans, ScanFits
  <1>8. CASE EndFrame
    BY <1>1, <1>3, <1>8 DEF EndFrame, Events, TypeOK, Scans, ScanFits
  <1>9. CASE ClickTrash
    BY <1>1, <1>3, <1>9 DEF ClickTrash, TypeOK, Scans, ScanFits
  <1>10. CASE TrashLooks
    <2>1. ui.at = "trash" /\ ui.i <= count /\ ui.i >= 1 /\ ui.rank < hover
      BY <1>10 DEF TrashLooks, Scanning, ScanFits
    <2>2. /\ ui' \in Scans /\ ui'.at \in {"trash", "ask"} /\ ui'.i >= 1
          /\ ui'.at = "ask" => ui'.i <= MaxMessages + 1
          /\ ui'.at = "trash" => ui'.rank < hover
      <3>1. ui.i + 1 \in 0 .. MaxMessages + 2 /\ ui.i <= MaxMessages + 1
        BY <1>3, <2>1
      <3>2. CASE ~Mine
        <4>1. ui' = [ui EXCEPT !.i = @ + 1]
          BY <1>10, <3>2 DEF TrashLooks
        <4>2. ui' = [at |-> "trash", i |-> ui.i + 1, channel |-> ui.channel, rank |-> ui.rank]
              /\ ui' \in Scans
          <5>1. ui' = [at |-> "trash", i |-> ui.i + 1, channel |-> ui.channel, rank |-> ui.rank]
            BY <1>3, <2>1, <3>1, <4>1 DEF Scans
          <5> QED
            BY <1>3, <2>1, <3>1, <4>1, <5>1 DEF Scans
        <4> QED
          BY <1>3, <2>1, <4>2
      <3>3. CASE Mine /\ ui.rank + 1 = hover
        <4>1. ui' = [ui EXCEPT !.at = "ask"]
          BY <1>10, <3>3 DEF TrashLooks
        <4>2. ui' = [at |-> "ask", i |-> ui.i, channel |-> ui.channel, rank |-> ui.rank]
              /\ ui' \in Scans
          <5>1. ui' = [at |-> "ask", i |-> ui.i, channel |-> ui.channel, rank |-> ui.rank]
            BY <1>3, <4>1 DEF Scans
          <5> QED
            BY <1>3, <4>1, <5>1 DEF Scans
        <4> QED
          BY <2>1, <3>1, <4>2
      <3>4. CASE Mine /\ ui.rank + 1 # hover
        <4>1. ui.rank + 1 < hover /\ ui.rank + 1 \in 0 .. MaxMessages
          BY <1>3, <2>1, <3>4
        <4>2. ui' = [ui EXCEPT !.i = @ + 1, !.rank = @ + 1]
          BY <1>10, <3>4 DEF TrashLooks
        <4>3. /\ ui'.at = "trash" /\ ui'.i = ui.i + 1 /\ ui'.rank = ui.rank + 1
              /\ ui' = [at |-> "trash", i |-> ui.i + 1, channel |-> ui.channel,
                        rank |-> ui.rank + 1]
          BY <1>3, <2>1, <4>2 DEF Scans
        <4>4. ui' \in Scans
          BY <1>3, <3>1, <4>1, <4>3 DEF Scans
        <4>5. ui.i + 1 >= 1
          BY <1>3
        <4> QED
          BY <4>1, <4>3, <4>4, <4>5
      <3> QED
        BY <3>2, <3>3, <3>4
    <2>3. UNCHANGED <<active, rows, hover, request, turns, moved>>
      BY <1>10 DEF TrashLooks
    <2>4. TypeOK'
      BY <1>1, <2>2, <2>3 DEF TypeOK, Scans
    <2> QED
      BY <2>2, <2>3, <2>4 DEF ScanFits
  <1>11. CASE EndTrash
    <2>1. ui.at = "ask" => slots[ui.i].id \in Id \cup {0}
      BY <1>3 DEF ScanFits, Slot, Entry
    <2> QED
      BY <1>1, <1>3, <1>11, <2>1 DEF EndTrash, Events, TypeOK, Scans, ScanFits
  <1> QED
    BY <1>4, <1>5, <1>6, <1>7, <1>8, <1>9, <1>10, <1>11 DEF Scan

LEMMA TypesInit == Init => TypeInv
  <1> SUFFICES ASSUME Init PROVE TypeInv
    OBVIOUS
  <1> USE Constants DEF Init
  <1>1. /\ slots \in [Slot -> Entry] /\ op \in [Thread -> Call]
        /\ rows \in Seq(Entry) /\ Len(rows) = 0 /\ list \in Seq(Entry) /\ Len(list) = 0
    OBVIOUS
  <1>2. ui \in Scans
    BY DEF Scans, Events
  <1>3. TypeOK
    <2>1. /\ arrivals \in 0 .. MaxArrivals /\ turns \in 0 .. MaxTurns
          /\ count \in 0 .. MaxMessages + 1 /\ ~(count > MaxMessages)
      OBVIOUS
    <2>2. Len(rows) <= MaxMessages /\ Len(list) <= MaxMessages /\ hover \in 0 .. Len(rows)
      BY <1>1
    <2> QED
      BY <1>1, <1>2, <2>1, <2>2 DEF TypeOK, Call, Scans
  <1>4. Room /\ CallFits /\ OneInside /\ ScanFits
    BY DEF Room, Growth, CallFits, OneInside, ScanFits, Idle, Events
  <1> QED
    BY <1>3, <1>4 DEF TypeInv

LEMMA TypesStep == TypeInv /\ [Next]_vars => TypeInv'
  <1> SUFFICES ASSUME TypeInv, [Next]_vars PROVE TypeInv'
    OBVIOUS
  <1>1. CASE Next
    BY <1>1, NextCases, AddTypes, DeleteTypes, WritingTypes, ScanTypes DEF TypeInv, Step
  <1>2. CASE UNCHANGED vars
    BY <1>2 DEF vars, TypeInv, TypeOK, Room, Growth, CallFits, OneInside, ScanFits
  <1> QED
    BY <1>1, <1>2

(* Every variable keeps its type, and no thread writes behind the array of *)
(* MAX_MESSAGES entries unless both were inside a call at once             *)
(* (message.c:37-54).                                                      *)
THEOREM TypeCorrect == Spec => []TypeOK
  <1>1. TypeInv => TypeOK
    BY DEF TypeInv
  <1> QED
    BY <1>1, TypesInit, TypesStep, PTL DEF Spec
-----------------------------------------------------------------------------
(* The list keeps the order of arrival and holds an id once.               *)

LEMMA Numbers ==
  ASSUME TypeInv
  PROVE  /\ Len(list) \in Nat /\ Len(list) <= MaxMessages /\ Len(rows) \in Nat
         /\ count \in Nat /\ arrivals \in Nat
         /\ count <= MaxMessages + 1 /\ (~collided => count <= MaxMessages)
         /\ \A k \in 1 .. Len(list) : list[k] \in Entry /\ list[k].stamp \in Nat
         /\ \A k \in 1 .. Len(rows) : rows[k] \in Entry /\ rows[k].stamp \in Nat
         /\ \A k \in 1 .. MaxMessages + 1 : slots[k] \in Entry /\ slots[k].stamp \in Nat
         /\ \A t \in Thread :
              op[t] \in Call /\ op[t].entry.stamp \in Nat /\ op[t].i \in Nat
         /\ ui \in Scans /\ ui.i \in Nat /\ ui.rank \in Nat /\ hover \in Nat
  <1>1. \A e \in Entry : e.stamp \in Nat
    BY Constants DEF Entry
  <1>2. \A c \in Call : c.entry \in Entry /\ c.i \in Nat
    BY Constants DEF Call
  <1>3. \A s \in Scans : s.i \in Nat /\ s.rank \in Nat
    BY Constants DEF Scans
  <1>4. /\ list \in Seq(Entry) /\ rows \in Seq(Entry) /\ slots \in [Slot -> Entry]
        /\ op \in [Thread -> Call] /\ ui \in Scans
    BY DEF TypeInv, TypeOK, Call, Scans
  <1> QED
    BY <1>1, <1>2, <1>3, <1>4, Constants DEF TypeInv, TypeOK, Slot

LEMMA AddOrder ==
  ASSUME TypeInv, ListInOrder, NEW t \in Thread, Add(t)
  PROVE  ListInOrder'
  <1> PICK id \in Id \cup {0}, channel \in Channel : message_model_add(t, id, channel)
    BY DEF Add
  <1> DEFINE e == [id |-> id, channel |-> channel, stamp |-> arrivals + 1]
             held == e.id # 0 /\ \E k \in 1 .. Len(list) : list[k].id = e.id
  <1>1. arrivals' = arrivals + 1 /\ list' = Added(e) /\ arrivals < MaxArrivals
    BY DEF message_model_add
  <1>2. e \in Entry /\ e.stamp = arrivals + 1
    <2>1. arrivals \in Nat /\ MaxArrivals \in Nat /\ Id \subseteq Nat
      BY Numbers, WindowAssumption
    <2>2. arrivals + 1 \in 0 .. MaxArrivals
      BY <1>1, <2>1
    <2> QED
      BY <2>2 DEF Entry
  <1>3. /\ MaxMessages \in Nat /\ MaxMessages > 1 /\ arrivals \in Nat /\ Len(list) \in Nat
        /\ \A k \in 1 .. Len(list) : list[k].stamp \in Nat
    BY Constants, Numbers
  <1> HIDE DEF e
  <1>4. CASE held
    <2>1. list' = list
      BY <1>1, <1>2, <1>4, AddedFacts DEF TypeInv
    <2>2. \A k \in 1 .. Len(list) : list[k].stamp <= arrivals'
      BY <1>1, <1>3 DEF ListInOrder
    <2> QED
      BY <2>1, <2>2 DEF ListInOrder
  <1>5. CASE ~held
    <2>1. PICK d \in {0, 1}, n \in Nat :
            /\ Len(list') = n + 1 /\ list'[n + 1] = e /\ n + d = Len(list)
            /\ \A j \in 1 .. n : list'[j] = list[j + d]
      <3>1. CASE Len(list) = MaxMessages
        <4>1. /\ Len(list') = MaxMessages /\ list'[MaxMessages] = e
              /\ \A j \in 1 .. MaxMessages - 1 : list'[j] = list[j + 1]
          BY <1>1, <1>2, <1>5, <3>1, AddedFacts DEF TypeInv
        <4>2. MaxMessages - 1 \in Nat /\ MaxMessages - 1 + 1 = MaxMessages
          BY <1>3
        <4> QED
          BY <3>1, <4>1, <4>2
      <3>2. CASE Len(list) # MaxMessages
        <4>1. /\ Len(list') = Len(list) + 1 /\ list'[Len(list) + 1] = e
              /\ \A j \in 1 .. Len(list) : list'[j] = list[j]
          BY <1>1, <1>2, <1>5, <3>2, AddedFacts DEF TypeInv
        <4>2. Len(list) \in Nat /\ \A j \in 1 .. Len(list) : j + 0 = j
          BY Numbers
        <4> QED
          BY <4>1, <4>2
      <3> QED
        BY <3>1, <3>2
    <2>2. \A j \in 1 .. n : /\ j + d \in 1 .. Len(list) /\ list'[j] = list[j + d]
                            /\ list'[j].stamp \in Nat /\ list'[j].stamp <= arrivals
      <3> TAKE j \in 1 .. n
      <3>1. j + d \in 1 .. n + d /\ list'[j] = list[j + d]
        BY <2>1
      <3>2. j + d \in 1 .. Len(list)
        BY <2>1, <3>1
      <3> QED
        BY <1>3, <3>1, <3>2 DEF ListInOrder
    <2>3. \A j \in 1 .. n + 1 : j = n + 1 \/ j \in 1 .. n
      OBVIOUS
    <2>4. \A j, k \in 1 .. n : j < k => j + d < k + d
      BY <2>1
    <2>5. \A k \in 1 .. Len(list') : list'[k].stamp <= arrivals'
      <3>1. \A k \in 1 .. n : list'[k].stamp <= arrivals'
        BY <1>1, <1>3, <2>2
      <3>2. list'[n + 1].stamp = arrivals' /\ arrivals' <= arrivals'
        BY <1>1, <1>2, <1>3, <2>1
      <3>3. \A k \in 1 .. Len(list') : k = n + 1 \/ k \in 1 .. n
        BY <2>1, <2>3
      <3> QED
        BY <3>1, <3>2, <3>3
    <2>6. \A j, k \in 1 .. Len(list') : j < k => list'[j].stamp < list'[k].stamp
      <3> TAKE j, k \in 1 .. Len(list')
      <3> HAVE j < k
      <3>1. j \in 1 .. n
        BY <2>1
      <3>2. CASE k \in 1 .. n
        BY <2>2, <2>4, <3>1, <3>2 DEF ListInOrder
      <3>3. CASE k = n + 1
        <4>1. list'[k].stamp = arrivals + 1 /\ list'[j].stamp <= arrivals /\ list'[j].stamp \in Nat
          BY <1>2, <2>1, <2>2, <3>1, <3>3
        <4> QED
          BY <1>3, <4>1
      <3> QED
        BY <2>1, <2>3, <3>2, <3>3
    <2>7. \A j, k \in 1 .. Len(list') : list'[j].id = list'[k].id /\ list'[j].id # 0 => j = k
      <3> SUFFICES ASSUME NEW j \in 1 .. Len(list'), NEW k \in 1 .. Len(list'),
                          list'[j].id = list'[k].id, list'[j].id # 0, j < k
                   PROVE  FALSE
        BY <2>1
      <3>1. j \in 1 .. n
        BY <2>1
      <3>2. CASE k \in 1 .. n
        <4>1. j + d \in 1 .. Len(list) /\ k + d \in 1 .. Len(list) /\ j + d # k + d
          BY <2>2, <2>4, <3>1, <3>2
        <4>2. /\ list'[j] = list[j + d] /\ list'[k] = list[k + d]
          BY <2>2, <3>1, <3>2
        <4>3. list[j + d].id = list[k + d].id /\ list[j + d].id # 0
          BY <4>2
        <4> QED
          BY <4>1, <4>3 DEF ListInOrder
      <3>3. CASE k = n + 1
        BY <1>5, <2>1, <2>2, <3>1, <3>3
      <3> QED
        BY <2>1, <2>3, <3>2, <3>3
    <2> QED
      BY <2>5, <2>6, <2>7 DEF ListInOrder
  <1> QED
    BY <1>4, <1>5

LEMMA DeleteOrder ==
  ASSUME TypeInv, ListInOrder, Delete
  PROVE  ListInOrder'
  <1> PICK id \in Id : message_model_delete_by_id("listener", id)
    BY DEF Delete
  <1>1. list' = Without(id) /\ arrivals' = arrivals
    BY DEF message_model_delete_by_id
  <1>2. CASE \A k \in 1 .. Len(list) : list[k].id # id
    BY <1>1, <1>2, WithoutFacts DEF TypeInv, ListInOrder
  <1>3. CASE \E k \in 1 .. Len(list) : list[k].id = id
    <2>1. PICK n \in 1 .. Len(list) :
            /\ Len(list') = Len(list) - 1
            /\ \A j \in 1 .. n - 1 : list'[j] = list[j]
            /\ \A j \in n .. Len(list) - 1 : list'[j] = list[j + 1]
      BY <1>1, <1>3, WithoutFacts DEF TypeInv
    <2> DEFINE old(j) == IF j < n THEN j ELSE j + 1
    <2>2. \A j \in 1 .. Len(list') : old(j) \in 1 .. Len(list) /\ list'[j] = list[old(j)]
      <3> TAKE j \in 1 .. Len(list')
      <3>1. j \in 1 .. Len(list) - 1 /\ Len(list) \in Nat
        BY <2>1, Numbers
      <3>2. j \in 1 .. Len(list) /\ j + 1 \in 1 .. Len(list)
        BY <3>1
      <3>3. j \in 1 .. n - 1 \/ (j \in n .. Len(list) - 1 /\ ~(j < n))
        BY <3>1
      <3> QED
        BY <2>1, <3>2, <3>3
    <2>3. \A j, k \in 1 .. Len(list') : (j < k => old(j) < old(k)) /\ (old(j) = old(k) => j = k)
      BY <2>1, Numbers
    <2> HIDE DEF old
    <2>4. \A k \in 1 .. Len(list') : list'[k].stamp <= arrivals'
      BY <1>1, <2>2 DEF ListInOrder
    <2>5. \A j, k \in 1 .. Len(list') : j < k => list'[j].stamp < list'[k].stamp
      BY <2>2, <2>3 DEF ListInOrder
    <2>6. \A j, k \in 1 .. Len(list') : list'[j].id = list'[k].id /\ list'[j].id # 0 => j = k
      <3> TAKE j, k \in 1 .. Len(list')
      <3> HAVE list'[j].id = list'[k].id /\ list'[j].id # 0
      <3>1. old(j) = old(k)
        BY <2>2 DEF ListInOrder
      <3> QED
        BY <2>3, <3>1
    <2> QED
      BY <2>4, <2>5, <2>6 DEF ListInOrder
  <1> QED
    BY <1>2, <1>3
-----------------------------------------------------------------------------
(* The array and the list.                                                 *)

LEMMA AddArray ==
  ASSUME IInv, NEW t \in Thread, Add(t), ~collided'
  PROVE  ArrayInv'
  <1> PICK id \in Id \cup {0}, channel \in Channel : message_model_add(t, id, channel)
    BY DEF Add
  <1> DEFINE e == [id |-> id, channel |-> channel, stamp |-> arrivals + 1]
             at == IF count >= MaxMessages THEN "evict" ELSE "write"
             c == [at |-> at, i |-> 1, entry |-> e]
             held == e.id # 0 /\ \E k \in 1 .. Len(list) : list[k].id = e.id
  <1>1. /\ op[t].at = "idle" /\ arrivals' = arrivals + 1 /\ arrivals < MaxArrivals
        /\ list' = Added(e) /\ UNCHANGED <<slots, count>>
        /\ IF id # 0 /\ InArray(id) THEN UNCHANGED op ELSE op' = [op EXCEPT ![t] = c]
        /\ ~collided /\ \A u \in Thread \ {t} : op[u].at = "idle"
    BY DEF message_model_add, Begin, Collides
  <1>2. /\ Len(list) = count /\ Agree(count) /\ count \in Nat /\ count <= MaxMessages
        /\ MaxMessages \in Nat /\ MaxMessages > 1 /\ arrivals \in Nat
        /\ \A k \in 1 .. count : list[k].stamp \in Nat /\ list[k].stamp <= arrivals
    BY <1>1, Numbers, Constants DEF IInv, ArrayInv, AllIdle, ListInOrder
  <1>3. e \in Entry /\ e.id = id /\ e.stamp = arrivals + 1 /\ c \in Call
    BY <1>1, <1>2, Constants DEF Entry, Call
  <1>4. held <=> (id # 0 /\ InArray(id))
    BY <1>2, <1>3 DEF InArray, Agree
  <1>5. c.at = at /\ c.i = 1 /\ c.entry = e
    OBVIOUS
  <1>6. CASE held
    <2>1. list' = list /\ UNCHANGED op
      BY <1>1, <1>3, <1>4, <1>6, AddedFacts DEF IInv, TypeInv
    <2>2. \A u \in Thread : op'[u].at = "idle"
      BY <1>1, <2>1
    <2> QED
      BY <1>1, <1>2, <2>1, <2>2 DEF ArrayInv, Inside, Agree
  <1>7. CASE ~held
    <2>1. op'[t] = c /\ \A u \in Thread \ {t} : op'[u].at = "idle"
      BY <1>1, <1>3, <1>4, <1>7, Called DEF IInv, TypeInv
    <2> HIDE DEF e, c, held
    <2>2. CASE count >= MaxMessages
      <3>1. count = MaxMessages /\ c.at = "evict"
        BY <1>2, <1>5, <2>2
      <3>2. /\ Len(list') = MaxMessages /\ list'[MaxMessages] = e
            /\ \A j \in 1 .. MaxMessages - 1 : list'[j] = list[j + 1]
        BY <1>1, <1>2, <1>3, <1>7, <3>1, AddedFacts DEF IInv, TypeInv, held
      <3>3. \A j \in 1 .. MaxMessages - 1 : slots'[j + 1] = list'[j]
        <4>1. \A j \in 1 .. MaxMessages - 1 : j + 1 \in 1 .. count
          BY <1>2, <3>1
        <4> QED
          BY <1>1, <1>2, <3>2, <4>1 DEF Agree
      <3>4. \A j \in 1 .. Len(list') : slots'[1].stamp <= list'[j].stamp
        <4> TAKE j \in 1 .. Len(list')
        <4>1. slots'[1] = list[1] /\ 1 \in 1 .. count
          BY <1>1, <1>2, <3>1 DEF Agree
        <4>2. CASE j = MaxMessages
          BY <1>2, <1>3, <3>2, <4>1, <4>2
        <4>3. CASE j # MaxMessages
          <5>1. list'[j] = list[j + 1] /\ j + 1 \in 1 .. Len(list) /\ 1 \in 1 .. Len(list) /\ 1 < j + 1
            BY <1>2, <3>1, <3>2, <4>3
          <5>2. list[1].stamp < list[j + 1].stamp
            BY <5>1 DEF IInv, ListInOrder
          <5> QED
            BY <1>2, <4>1, <5>1, <5>2
        <4> QED
          BY <4>2, <4>3
      <3>5. Shifted(1)'
        BY <3>4 DEF Shifted, Agree
      <3>6. op'[t].i = 1 /\ op'[t].at = "evict" /\ op'[t].entry = e
        BY <1>5, <2>1, <3>1
      <3>7. Adding(t)'
        BY <1>1, <1>2, <1>3, <3>2, <3>6 DEF Adding
      <3>8. Inside(t)'
        BY <1>1, <3>1, <3>2, <3>3, <3>5, <3>6, <3>7 DEF Inside
      <3> QED
        BY <2>1, <3>6, <3>8 DEF ArrayInv, AllIdle, Inside
    <2>3. CASE ~(count >= MaxMessages)
      <3>1. count # MaxMessages /\ c.at = "write"
        BY <1>2, <1>5, <2>3
      <3>2. /\ Len(list') = count + 1 /\ list'[count + 1] = e
            /\ \A j \in 1 .. count : list'[j] = list[j]
        BY <1>1, <1>2, <1>3, <1>7, <3>1, AddedFacts DEF IInv, TypeInv, held
      <3>3. op'[t].at = "write" /\ op'[t].entry = e
        BY <1>5, <2>1, <3>1
      <3>4. Adding(t)' /\ Agree(count)'
        BY <1>1, <1>2, <1>3, <3>2, <3>3 DEF Adding, Agree
      <3>5. Inside(t)'
        BY <1>1, <3>2, <3>3, <3>4 DEF Inside
      <3> QED
        BY <2>1, <3>3, <3>5 DEF ArrayInv, AllIdle, Inside
    <2> QED
      BY <2>2, <2>3
  <1> QED
    BY <1>6, <1>7

LEMMA DeleteArray ==
  ASSUME IInv, Delete, ~collided'
  PROVE  ArrayInv'
  <1> DEFINE t == "listener"
  <1> PICK id \in Id : message_model_delete_by_id(t, id)
    BY DEF Delete
  <1>1. /\ InArray(id) /\ ~collided /\ op[t].at = "idle"
        /\ \A u \in Thread \ {t} : op[u].at = "idle"
        /\ list' = Without(id) /\ UNCHANGED <<slots, count, arrivals>>
    BY DEF message_model_delete_by_id, Collides
  <1>2. /\ Len(list) = count /\ Agree(count) /\ count \in Nat /\ count <= MaxMessages
        /\ t \in Thread /\ id # 0
        /\ \A k \in 1 .. count : list[k].stamp \in Nat
    BY <1>1, Numbers, Constants DEF IInv, ArrayInv, AllIdle
  <1>3. PICK i \in 1 .. count :
          /\ slots[i].id = id
          /\ op' = [op EXCEPT ![t] = [at |-> "close", i |-> i, entry |-> Blank]]
    <2>1. \E i \in 1 .. count : slots[i].id = id /\ \A j \in 1 .. i - 1 : slots[j].id # id
      BY <1>1, <1>2, FirstSlot
    <2> QED
      BY <2>1 DEF message_model_delete_by_id, Begin
  <1> DEFINE c == [at |-> "close", i |-> i, entry |-> Blank]
  <1>4. c \in Call /\ c.at = "close" /\ c.i = i
    BY <1>2, Constants DEF Call
  <1>5. op'[t] = c /\ \A u \in Thread \ {t} : op'[u].at = "idle"
    BY <1>1, <1>2, <1>3, <1>4, Called DEF IInv, TypeInv
  <1> HIDE DEF c
  <1>6. slots[i] = list[i] /\ list[i].id = id
    BY <1>2, <1>3 DEF Agree
  <1>7. /\ Len(list') = count - 1
        /\ \A j \in 1 .. i - 1 : list'[j] = list[j]
        /\ \A j \in i .. count - 1 : list'[j] = list[j + 1]
    <2>1. PICK n \in 1 .. Len(list) :
            /\ list[n].id = id /\ Len(list') = Len(list) - 1
            /\ \A j \in 1 .. n - 1 : list'[j] = list[j]
            /\ \A j \in n .. Len(list) - 1 : list'[j] = list[j + 1]
      BY <1>1, <1>2, <1>6, WithoutFacts DEF IInv, TypeInv
    <2>2. n = i
      BY <1>2, <1>6, <2>1 DEF IInv, ListInOrder
    <2> QED
      BY <1>2, <2>1, <2>2
  <1>8. \A j, k \in 1 .. count : j < k => list[j].stamp < list[k].stamp
    BY <1>2 DEF IInv, ListInOrder
  <1>9. Shifted(i)'
    <2>1. \A j \in 1 .. i - 1 : j \in 1 .. count /\ j < i
      BY <1>2
    <2>2. \A j \in i .. count - 1 : j + 1 \in 1 .. count /\ i < j + 1
      BY <1>2
    <2>3. Agree(i - 1)'
      BY <1>1, <1>2, <1>7, <2>1 DEF Agree
    <2>4. \A j \in 1 .. i - 1 : list'[j].stamp <= slots'[i].stamp
      BY <1>1, <1>2, <1>6, <1>7, <1>8, <2>1
    <2>5. \A j \in i .. count - 1 : slots'[i].stamp <= list'[j].stamp
      BY <1>1, <1>2, <1>6, <1>7, <1>8, <2>2
    <2> QED
      BY <1>7, <2>3, <2>4, <2>5 DEF Shifted
  <1>10. \A j \in i .. count - 1 : slots'[j + 1] = list'[j]
    <2>1. \A j \in i .. count - 1 : j + 1 \in 1 .. count
      BY <1>2
    <2> QED
      BY <1>1, <1>2, <1>7, <2>1 DEF Agree
  <1>11. op'[t].at = "close" /\ op'[t].i = i /\ i <= count'
    BY <1>1, <1>2, <1>4, <1>5
  <1>12. Inside(t)'
    BY <1>1, <1>7, <1>9, <1>10, <1>11 DEF Inside
  <1> QED
    BY <1>2, <1>5, <1>11, <1>12 DEF ArrayInv, AllIdle, Inside

(* A move to the left in either loop: slot i takes the next one.           *)
LEMMA Moves ==
  ASSUME IInv, NEW i \in 1 .. MaxMessages, NEW n \in Nat, i <= n, n <= Len(list),
         Shifted(i), \A j \in i .. n : slots[j + 1] = list[j],
         slots' = [slots EXCEPT ![i] = slots[i + 1]], UNCHANGED list
  PROVE  Shifted(i + 1)' /\ \A j \in i + 1 .. n : slots'[j + 1] = list'[j]
  <1>1. /\ Len(list) \in Nat /\ n \in Nat /\ MaxMessages \in Nat /\ Len(list) <= MaxMessages
        /\ \A k \in 1 .. Len(list) : list[k].stamp \in Nat
        /\ \A j, k \in 1 .. Len(list) : j < k => list[j].stamp < list[k].stamp
    BY Numbers, Constants DEF IInv, ListInOrder
  <1>2. slots \in [1 .. MaxMessages + 1 -> Entry]
    BY DEF IInv, TypeInv, TypeOK, Slot
  <1>3. /\ slots'[i] = list[i] /\ slots'[i + 1] = list[i] /\ i \in 1 .. Len(list)
        /\ \A k \in 1 .. MaxMessages + 1 : k # i => slots'[k] = slots[k]
    BY <1>1, <1>2
  <1>4. \A j \in 1 .. i - 1 : slots'[j] = list[j]
    BY <1>1, <1>3 DEF Shifted, Agree
  <1>5. \A j \in 1 .. i : slots'[j] = list'[j]
    BY <1>3, <1>4
  <1>6. \A j \in 1 .. i : list'[j].stamp <= slots'[i + 1].stamp
    <2> TAKE j \in 1 .. i
    <2>1. j \in 1 .. Len(list)
      BY <1>1, <1>3
    <2>2. CASE j = i
      BY <1>1, <1>3, <2>2
    <2>3. CASE j < i
      BY <1>1, <1>3, <2>1, <2>3
    <2> QED
      BY <1>1, <2>2, <2>3
  <1>7. \A j \in i + 1 .. Len(list) : slots'[i + 1].stamp <= list'[j].stamp
    <2> TAKE j \in i + 1 .. Len(list)
    <2>1. list[i].stamp < list[j].stamp
      BY <1>1, <1>3
    <2> QED
      BY <1>1, <1>3, <2>1
  <1>8. \A j \in i + 1 .. n : slots'[j + 1] = list'[j]
    BY <1>1, <1>3
  <1>9. i + 1 - 1 = i
    OBVIOUS
  <1> QED
    BY <1>5, <1>6, <1>7, <1>8, <1>9 DEF Shifted, Agree

LEMMA WritingArray ==
  ASSUME IInv, NEW t \in Thread, Step(t), ~collided'
  PROVE  ArrayInv'
  <1>1. /\ op[t].at # "idle" /\ ~collided
        /\ \A u \in Thread \ {t} : op[u].at = "idle"
        /\ UNCHANGED <<list, arrivals>>
    BY DEF Step, Evict, Write, Count, CloseGap, IInv, TypeInv, OneInside
  <1>2. /\ op \in [Thread -> Call] /\ op[t].i \in Nat /\ MaxMessages \in Nat /\ MaxMessages > 1
        /\ slots \in [1 .. MaxMessages + 1 -> Entry] /\ count \in Nat /\ count <= MaxMessages
        /\ op[t].at = "evict" => op[t].i \in 1 .. MaxMessages
        /\ op[t].at = "close" => op[t].i >= 1
    BY <1>1, Numbers, Constants DEF IInv, TypeInv, TypeOK, Call, Slot, CallFits
  <1>3. Inside(t)
    BY <1>1 DEF IInv, ArrayInv
  <1>4. \A u \in Thread \ {t} : op'[u].at = "idle"
    BY <1>1, <1>2 DEF Step, Evict, Write, Count, CloseGap, Idle
  <1>5. SUFFICES \/ op'[t].at # "idle" /\ Inside(t)'
                 \/ op'[t].at = "idle" /\ Len(list') = count' /\ Agree(count)'
    BY <1>4, <1>5 DEF ArrayInv, AllIdle, Inside
  <1>6. CASE Evict(t) /\ op[t].i < MaxMessages
    <2>0. PICK i \in Nat : i = op[t].i
      BY <1>2
    <2>1. /\ slots' = [slots EXCEPT ![i] = slots[i + 1]] /\ count' = count
          /\ op'[t].at = "evict" /\ op'[t].i = i + 1 /\ op'[t].entry = op[t].entry
          /\ op[t].at = "evict"
      BY <1>2, <1>6, <2>0 DEF Evict, Call
    <2>2. /\ count = MaxMessages /\ Len(list) = MaxMessages /\ Adding(t) /\ Shifted(i)
          /\ \A j \in i .. MaxMessages - 1 : slots[j + 1] = list[j]
      BY <1>3, <2>0, <2>1 DEF Inside
    <2>3. i \in 1 .. MaxMessages /\ i <= MaxMessages - 1 /\ MaxMessages - 1 \in Nat
      BY <1>2, <1>6, <2>0, <2>1
    <2>4. PICK n \in Nat : n = MaxMessages - 1
      BY <2>3
    <2>5. Shifted(i + 1)' /\ \A j \in i + 1 .. n : slots'[j + 1] = list'[j]
      <3>1. i <= n /\ n <= Len(list) /\ \A j \in i .. n : slots[j + 1] = list[j]
        BY <1>2, <2>2, <2>3, <2>4
      <3> QED
        BY <1>1, <2>1, <2>2, <2>3, <3>1, Moves
    <2>6. Shifted(op[t].i)'
      BY <2>1, <2>5
    <2>7. Adding(t)'
      BY <1>1, <2>1, <2>2 DEF Adding
    <2> QED
      BY <1>1, <2>1, <2>2, <2>4, <2>5, <2>6, <2>7 DEF Inside
  <1>7. CASE Evict(t) /\ ~(op[t].i < MaxMessages)
    <2>1. /\ UNCHANGED slots /\ count' = MaxMessages - 1
          /\ op'[t].at = "write" /\ op'[t].entry = op[t].entry /\ op[t].i = MaxMessages
          /\ op[t].at = "evict"
      BY <1>2, <1>7 DEF Evict, Call
    <2>2. Len(list) = MaxMessages /\ Adding(t) /\ Agree(MaxMessages - 1)
      BY <1>3, <2>1 DEF Inside, Shifted
    <2>3. Adding(t)' /\ Agree(count)'
      BY <1>1, <2>1, <2>2 DEF Adding, Agree
    <2>4. Len(list') = count' + 1
      BY <1>1, <1>2, <2>1, <2>2
    <2> QED
      BY <2>1, <2>3, <2>4 DEF Inside
  <1>8. CASE Write(t)
    <2>1. /\ slots' = [slots EXCEPT ![count + 1] = op[t].entry] /\ count' = count
          /\ op'[t].at = "count" /\ op'[t].entry = op[t].entry /\ op[t].at = "write"
      BY <1>2, <1>8 DEF Write, Call
    <2>2. Len(list) = count + 1 /\ Adding(t) /\ Agree(count)
      BY <1>3, <2>1 DEF Inside
    <2>3. Adding(t)'
      BY <1>1, <2>1, <2>2 DEF Adding
    <2>4. \A j \in 1 .. count + 1 : slots'[j] = list[j]
      BY <1>2, <2>1, <2>2 DEF Agree, Adding
    <2> QED
      BY <1>1, <2>1, <2>2, <2>3, <2>4 DEF Inside, Agree
  <1>9. CASE Count(t)
    <2>1. count' = count + 1 /\ op'[t].at = "idle" /\ UNCHANGED slots /\ op[t].at = "count"
      BY <1>2, <1>9 DEF Count, Call, Idle
    <2> QED
      BY <1>1, <1>3, <2>1 DEF Inside, Agree
  <1>10. CASE CloseGap(t) /\ op[t].i < count
    <2>0. PICK i \in Nat : i = op[t].i
      BY <1>2
    <2>1. /\ slots' = [slots EXCEPT ![i] = slots[i + 1]] /\ count' = count
          /\ op'[t].at = "close" /\ op'[t].i = i + 1 /\ op[t].at = "close"
      BY <1>2, <1>10, <2>0 DEF CloseGap, Call
    <2>2. /\ Len(list) = count - 1 /\ Shifted(i)
          /\ \A j \in i .. count - 1 : slots[j + 1] = list[j]
      BY <1>3, <2>0, <2>1 DEF Inside
    <2>3. /\ i \in 1 .. MaxMessages /\ i <= count - 1 /\ count - 1 \in Nat
          /\ count - 1 <= Len(list) /\ i + 1 <= count
      BY <1>2, <1>10, <2>0, <2>1, <2>2
    <2>4. PICK n \in Nat : n = count - 1
      BY <2>3
    <2>5. Shifted(i + 1)' /\ \A j \in i + 1 .. n : slots'[j + 1] = list'[j]
      <3>1. i <= n /\ n <= Len(list) /\ \A j \in i .. n : slots[j + 1] = list[j]
        BY <1>2, <2>2, <2>3, <2>4
      <3> QED
        BY <1>1, <2>1, <2>2, <2>3, <3>1, Moves
    <2>6. Shifted(op[t].i)'
      BY <2>1, <2>5
    <2> QED
      BY <1>1, <2>1, <2>2, <2>3, <2>4, <2>5, <2>6 DEF Inside
  <1>11. CASE CloseGap(t) /\ ~(op[t].i < count)
    <2>1. /\ UNCHANGED slots /\ count' = count - 1 /\ op'[t].at = "idle" /\ op[t].at = "close"
      BY <1>2, <1>11 DEF CloseGap, Call, Idle
    <2>2. Len(list) = count - 1 /\ op[t].i <= count /\ Agree(op[t].i - 1)
      BY <1>3, <2>1 DEF Inside, Shifted
    <2>3. op[t].i = count
      BY <1>2, <1>11, <2>2
    <2> QED
      BY <1>1, <2>1, <2>2, <2>3 DEF Agree
  <1> QED
    BY <1>6, <1>7, <1>8, <1>9, <1>10, <1>11 DEF Step

LEMMA ArrayInit == Init => ListInOrder /\ ArrayInv
  BY Constants DEF Init, Idle, ListInOrder, ArrayInv, AllIdle, Agree, Inside

LEMMA ArrayStep == IInv /\ [Next]_vars => ListInOrder' /\ ArrayInv'
  <1> SUFFICES ASSUME IInv, [Next]_vars PROVE ListInOrder' /\ ArrayInv'
    OBVIOUS
  <1>1. CASE UNCHANGED <<slots, count, op, list, arrivals, collided>>
    BY <1>1 DEF IInv, ListInOrder, ArrayInv, AllIdle, Agree, Inside, Adding, Shifted
  <1>2. ASSUME NEW t \in Thread, Add(t) PROVE ListInOrder' /\ ArrayInv'
    <2>1. CASE collided'
      BY <1>2, <2>1, AddOrder DEF ArrayInv, IInv
    <2> QED
      BY <1>2, <2>1, AddOrder, AddArray DEF IInv
  <1>3. CASE Delete
    <2>1. CASE collided'
      BY <1>3, <2>1, DeleteOrder DEF ArrayInv, IInv
    <2> QED
      BY <1>3, <2>1, DeleteOrder, DeleteArray DEF IInv
  <1>4. ASSUME NEW t \in Thread, Step(t) PROVE ListInOrder' /\ ArrayInv'
    <2>1. ListInOrder'
      BY <1>4 DEF Step, Evict, Write, Count, CloseGap, IInv, ListInOrder
    <2>2. CASE collided'
      BY <2>1, <2>2 DEF ArrayInv
    <2> QED
      BY <1>4, <2>1, <2>2, WritingArray
  <1>5. CASE Scan \/ \E channel \in Channel : Activate(channel)
    <2>1. UNCHANGED <<slots, count, op, list, arrivals, collided>>
      BY <1>5 DEF Scan, BeginFrame, FrameLooks, FrameCopies, EndFrame, ClickTrash,
                  TrashLooks, EndTrash, Activate
    <2> QED
      BY <1>1, <2>1
  <1>6. CASE UNCHANGED vars
    BY <1>1, <1>6 DEF vars
  <1> QED
    BY <1>2, <1>3, <1>4, <1>5, <1>6, NextCases DEF IInv, TypeInv, Step

(* Between two calls the array holds what one call after another would     *)
(* have left, in the order of arrival: the loops that evict the oldest     *)
(* entry and that close a gap lose and double nothing, however many slots  *)
(* there are (message.c:37-42 and 57-67), while the two threads are not    *)
(* inside a call at once.                                                  *)
THEOREM ArrayHoldsList == Spec => []ArrayIsList
  <1>1. IInv => ArrayIsList
    <2> SUFFICES ASSUME IInv, ~collided, AllIdle
                 PROVE  list = [i \in 1 .. count |-> slots[i]]
      BY DEF ArrayIsList, AllIdle
    <2>1. Len(list) = count /\ Agree(count) /\ list \in Seq(Entry)
      BY DEF IInv, ArrayInv, TypeInv, TypeOK
    <2> QED
      BY <2>1 DEF Agree
  <1>2. Init => IInv
    BY TypesInit, ArrayInit DEF IInv
  <1>3. IInv /\ [Next]_vars => IInv'
    BY TypesStep, ArrayStep DEF IInv
  <1> QED
    BY <1>1, <1>2, <1>3, PTL DEF Spec
-----------------------------------------------------------------------------
(* The order of the slots.                                                 *)

LEMMA ListStrict ==
  ASSUME IInv
  PROVE  /\ \A j, k \in 1 .. Len(list) : j < k => list[j].stamp < list[k].stamp
         /\ \A k \in 1 .. Len(list) : list[k].stamp \in Nat
  BY Numbers DEF IInv, ListInOrder

LEMMA SlotsStrict ==
  ASSUME IInv, ~collided, \A t \in Thread : op[t].at \notin {"evict", "close"}
  PROVE  \A j, k \in 1 .. count : j < k => slots[j].stamp < slots[k].stamp
  <1>1. count \in Nat /\ Len(list) \in Nat
    BY Numbers DEF IInv
  <1>2. count <= Len(list) /\ \A j \in 1 .. count : slots[j] = list[j]
    <2>1. CASE AllIdle
      BY <1>1, <2>1 DEF IInv, ArrayInv, Agree
    <2>2. CASE ~AllIdle
      <3>1. PICK t \in Thread : op[t].at # "idle" /\ Inside(t)
        BY <2>2 DEF AllIdle, IInv, ArrayInv
      <3>2. op[t].at \in {"write", "count"}
        BY <3>1, Numbers DEF IInv, Call
      <3> QED
        BY <1>1, <3>1, <3>2 DEF Inside, Agree
    <2> QED
      BY <2>1, <2>2
  <1>3. \A j \in 1 .. count : j \in 1 .. Len(list)
    BY <1>1, <1>2
  <1> QED
    BY <1>2, <1>3, ListStrict

LEMMA SlotsOrdered ==
  ASSUME IInv, ~collided
  PROVE  \A j, k \in 1 .. count : j < k => slots[j].stamp <= slots[k].stamp
  <1>1. /\ count \in Nat /\ Len(list) \in Nat /\ count <= MaxMessages /\ MaxMessages \in Nat
        /\ \A k \in 1 .. count : slots[k].stamp \in Nat
    BY Numbers, Constants DEF IInv
  <1>2. CASE \A t \in Thread : op[t].at \notin {"evict", "close"}
    BY <1>1, <1>2, SlotsStrict
  <1>3. ASSUME NEW t \in Thread, op[t].at \in {"evict", "close"}
        PROVE  \A j, k \in 1 .. count : j < k => slots[j].stamp <= slots[k].stamp
    <2>1. Inside(t) /\ op[t].i \in Nat
      BY Numbers DEF IInv, ArrayInv
    <2>2. PICK i \in Nat : i = op[t].i
      BY <2>1
    <2>3. /\ i >= 1 /\ i <= count /\ count - 1 <= Len(list) /\ Shifted(i)
          /\ \A j \in i .. count - 1 : slots[j + 1] = list[j]
      BY <1>1, <1>3, <2>1, <2>2 DEF Inside, IInv, TypeInv, CallFits
    <2>4. \A j \in 1 .. i - 1 : /\ slots[j] = list[j] /\ list[j].stamp <= slots[i].stamp
                                /\ j \in 1 .. Len(list)
      BY <1>1, <2>3 DEF Shifted, Agree
    <2>5. \A k \in i + 1 .. count : /\ slots[k] = list[k - 1] /\ k - 1 \in 1 .. Len(list)
                                    /\ slots[i].stamp <= list[k - 1].stamp
      <3> TAKE k \in i + 1 .. count
      <3>1. /\ k - 1 \in i .. count - 1 /\ k - 1 + 1 = k /\ k - 1 \in i .. Len(list)
            /\ k - 1 \in 1 .. Len(list)
        BY <1>1, <2>3
      <3>2. slots[k - 1 + 1] = list[k - 1]
        BY <2>3, <3>1
      <3> QED
        BY <2>3, <3>1, <3>2 DEF Shifted
    <2> TAKE j, k \in 1 .. count
    <2> HAVE j < k
    <2>6. CASE k <= i
      <3>1. j \in 1 .. i - 1 /\ (k = i \/ k \in 1 .. i - 1)
        BY <2>3, <2>6
      <3> QED
        BY <1>1, <2>4, <3>1, ListStrict
    <2>7. CASE j < i /\ k > i
      <3>1. j \in 1 .. i - 1 /\ k \in i + 1 .. count /\ j < k - 1
        BY <1>1, <2>3, <2>7
      <3>2. list[j].stamp < list[k - 1].stamp
        BY <2>4, <2>5, <3>1, ListStrict
      <3> QED
        BY <1>1, <2>4, <2>5, <3>1, <3>2
    <2>8. CASE j = i
      <3>1. k \in i + 1 .. count
        BY <1>1, <2>8
      <3> QED
        BY <2>5, <2>8, <3>1
    <2>9. CASE j > i
      <3>1. j \in i + 1 .. count /\ k \in i + 1 .. count /\ j - 1 < k - 1
        BY <1>1, <2>9
      <3>2. list[j - 1].stamp < list[k - 1].stamp
        BY <2>5, <3>1, ListStrict
      <3> QED
        BY <1>1, <2>5, <3>1, <3>2
    <2> QED
      BY <2>3, <2>6, <2>7, <2>8, <2>9
  <1> QED
    BY <1>2, <1>3

-----------------------------------------------------------------------------
(* What a step does to the slots that a scan has still to see.             *)

LEMMA SlotsGrow ==
  ASSUME IInv, NoneNewer, ~collided',
         (\E t \in Thread : Add(t) \/ Step(t)) \/ Delete
  PROVE  /\ ~collided /\ arrivals <= arrivals' /\ UNCHANGED <<ui, rows, hover, active>>
         /\ \A j \in 1 .. MaxMessages + 1 : slots[j].stamp <= slots'[j].stamp
         /\ \/ count' <= count
            \/ count' = count + 1 /\ slots'[count + 1].stamp = arrivals /\ count' <= Len(list)
               /\ UNCHANGED slots /\ \A j \in 1 .. count + 1 : slots[j] = list[j]
  <1>1. /\ count \in Nat /\ MaxMessages \in Nat /\ arrivals \in Nat
        /\ \A j \in 1 .. MaxMessages + 1 : slots[j].stamp \in Nat
        /\ slots \in [1 .. MaxMessages + 1 -> Entry]
    BY Numbers, Constants DEF IInv, TypeInv, TypeOK, Slot
  <1>2. ASSUME (\E t \in Thread : Add(t)) \/ Delete
        PROVE  /\ ~collided /\ UNCHANGED <<slots, count, ui, rows, hover, active>>
               /\ arrivals' \in {arrivals, arrivals + 1}
    BY <1>2 DEF Add, Delete, message_model_add, message_model_delete_by_id
  <1>3. ASSUME NEW t \in Thread, Step(t)
        PROVE  /\ ~collided /\ UNCHANGED <<ui, rows, hover, active, arrivals>>
               /\ \A j \in 1 .. MaxMessages + 1 : slots[j].stamp <= slots'[j].stamp
               /\ \/ count' <= count
                  \/ count' = count + 1 /\ slots'[count + 1].stamp = arrivals /\ count' <= Len(list)
                     /\ UNCHANGED slots /\ \A j \in 1 .. count + 1 : slots[j] = list[j]
    <2>1. ~collided /\ UNCHANGED <<ui, rows, hover, active, arrivals>>
      BY <1>3 DEF Step, Evict, Write, Count, CloseGap
    <2>2. Inside(t) /\ op[t].i \in Nat /\ count <= MaxMessages
      BY <2>1, Numbers DEF IInv, ArrayInv
    <2>3. ASSUME NEW i \in 1 .. count - 1, slots' = [slots EXCEPT ![i] = slots[i + 1]]
          PROVE  \A j \in 1 .. MaxMessages + 1 : slots[j].stamp <= slots'[j].stamp
      <3>1. i \in 1 .. count /\ i + 1 \in 1 .. count /\ i < i + 1
        BY <1>1
      <3>2. slots[i].stamp <= slots[i + 1].stamp
        BY <2>1, <3>1, SlotsOrdered
      <3> QED
        BY <1>1, <2>3, <3>2
    <2>4. CASE Evict(t)
      <3>1. count = MaxMessages /\ op[t].i \in 1 .. MaxMessages
        BY <2>2, <2>4 DEF Evict, Inside, IInv, TypeInv, CallFits
      <3>2. CASE op[t].i < MaxMessages
        <4>1. op[t].i \in 1 .. count - 1 /\ count' = count
              /\ slots' = [slots EXCEPT ![op[t].i] = slots[op[t].i + 1]]
          BY <1>1, <2>4, <3>1, <3>2 DEF Evict
        <4>2. \A j \in 1 .. MaxMessages + 1 : slots[j].stamp <= slots'[j].stamp
          BY <2>3, <4>1
        <4> QED
          BY <1>1, <2>1, <4>1, <4>2
      <3>3. CASE ~(op[t].i < MaxMessages)
        BY <1>1, <2>1, <2>4, <3>1, <3>3 DEF Evict
      <3> QED
        BY <3>2, <3>3
    <2>5. CASE Write(t)
      <3>1. op[t].entry.stamp = arrivals /\ count + 1 \in 1 .. MaxMessages + 1
        BY <1>1, <2>2, <2>5 DEF Write, Inside, Adding
      <3>2. slots' = [slots EXCEPT ![count + 1] = op[t].entry] /\ count' = count
        BY <2>5 DEF Write
      <3>3. \A j \in 1 .. MaxMessages + 1 : slots[j].stamp <= arrivals
        BY DEF NoneNewer, Slot
      <3>4. \A j \in 1 .. MaxMessages + 1 : slots[j].stamp <= slots'[j].stamp
        BY <1>1, <3>1, <3>2, <3>3
      <3> QED
        BY <1>1, <2>1, <3>2, <3>4
    <2>6. CASE Count(t)
      <3>1. Len(list) = count + 1 /\ Adding(t) /\ Agree(count + 1)
        BY <2>2, <2>6 DEF Count, Inside
      <3>2. count' = count + 1 /\ UNCHANGED slots
        BY <2>6 DEF Count
      <3>3. slots[count + 1].stamp = arrivals
        BY <1>1, <3>1 DEF Adding, Agree
      <3> QED
        BY <1>1, <2>1, <3>1, <3>2, <3>3 DEF Agree
    <2>7. CASE CloseGap(t)
      <3>1. op[t].i >= 1
        BY <2>7 DEF CloseGap, IInv, TypeInv, CallFits
      <3>2. CASE op[t].i < count
        <4>1. op[t].i \in 1 .. count - 1 /\ count' = count
              /\ slots' = [slots EXCEPT ![op[t].i] = slots[op[t].i + 1]]
          BY <1>1, <2>2, <2>7, <3>1, <3>2 DEF CloseGap
        <4>2. \A j \in 1 .. MaxMessages + 1 : slots[j].stamp <= slots'[j].stamp
          BY <2>3, <4>1
        <4> QED
          BY <1>1, <2>1, <4>1, <4>2
      <3>3. CASE ~(op[t].i < count)
        BY <1>1, <2>1, <2>7, <3>3 DEF CloseGap
      <3> QED
        BY <3>2, <3>3
    <2> QED
      BY <1>3, <2>4, <2>5, <2>6, <2>7 DEF Step
  <1>4. CASE (\E t \in Thread : Add(t)) \/ Delete
    BY <1>1, <1>2, <1>4
  <1>5. CASE \E t \in Thread : Step(t)
    <2>1. arrivals <= arrivals
      BY <1>1
    <2> QED
      BY <1>3, <1>5, <2>1
  <1> QED
    BY <1>4, <1>5

LEMMA NewerStep ==
  ASSUME IInv, NoneNewer, Next
  PROVE  NoneNewer'
  <1> USE Constants
  <1>1. /\ arrivals \in Nat /\ count \in Nat /\ Len(rows) \in Nat /\ rows \in Seq(Entry)
        /\ slots \in [Slot -> Entry] /\ op \in [Thread -> Call] /\ Blank.stamp = 0
        /\ \A j \in Slot : slots[j].stamp \in Nat
        /\ \A j \in 1 .. Len(rows) : rows[j].stamp \in Nat
        /\ \A t \in Thread : op[t].entry.stamp \in Nat
    BY Numbers DEF IInv, TypeInv, TypeOK, Call, Slot, Blank
  <1>2. ASSUME NEW t \in Thread, Add(t) PROVE NoneNewer'
    <2> PICK id \in Id \cup {0}, channel \in Channel : message_model_add(t, id, channel)
      BY <1>2 DEF Add
    <2> DEFINE e == [id |-> id, channel |-> channel, stamp |-> arrivals + 1]
               c == [at |-> IF count >= MaxMessages THEN "evict" ELSE "write",
                     i |-> 1, entry |-> e]
    <2>1. /\ arrivals' = arrivals + 1 /\ UNCHANGED <<slots, rows>>
          /\ UNCHANGED op \/ op' = [op EXCEPT ![t] = c]
      BY DEF message_model_add, Begin
    <2>2. \A u \in Thread : op'[u] = op[u] \/ op'[u].entry.stamp = arrivals + 1
      BY <1>1, <2>1
    <2> QED
      BY <1>1, <2>1, <2>2 DEF NoneNewer
  <1>3. CASE Delete
    <2>1. PICK c : c.entry = Blank /\ op' = [op EXCEPT !["listener"] = c]
                   /\ UNCHANGED <<slots, rows, arrivals>>
      <3>1. PICK id, i : /\ op' = [op EXCEPT !["listener"] = [at |-> "close", i |-> i, entry |-> Blank]]
                         /\ UNCHANGED <<slots, rows, arrivals>>
        BY <1>3 DEF Delete, message_model_delete_by_id, Begin
      <3> DEFINE c == [at |-> "close", i |-> i, entry |-> Blank]
      <3>2. c.entry = Blank
        OBVIOUS
      <3> HIDE DEF c
      <3> QED
        BY <3>1, <3>2 DEF c
    <2> QED
      BY <1>1, <2>1 DEF NoneNewer
  <1>4. ASSUME NEW t \in Thread, Step(t) PROVE NoneNewer'
    <2>1. UNCHANGED <<rows, arrivals>>
      BY <1>4 DEF Step, Evict, Write, Count, CloseGap
    <2>2. \A u \in Thread : op'[u].entry = op[u].entry \/ op'[u].entry = Blank
      BY <1>1, <1>4 DEF Step, Evict, Write, Count, CloseGap, Idle, Call
    <2>3. \A j \in Slot : \/ \E k \in Slot : slots'[j] = slots[k]
                          \/ slots'[j] = op[t].entry
      <3>1. CASE UNCHANGED slots
        BY <3>1
      <3>2. CASE Write(t)
        BY <1>1, <3>2 DEF Write
      <3>3. ASSUME NEW i \in Slot, i + 1 \in Slot, slots' = [slots EXCEPT ![i] = slots[i + 1]]
            PROVE  \A j \in Slot : \E k \in Slot : slots'[j] = slots[k]
        BY <1>1, <3>3
      <3>4. /\ op[t].i \in Nat /\ count <= MaxMessages + 1
            /\ op[t].at = "evict" => op[t].i >= 1
            /\ op[t].at = "close" => op[t].i >= 1
        BY Numbers DEF IInv, TypeInv, CallFits
      <3>5. CASE Evict(t) \/ CloseGap(t)
        <4>1. \/ UNCHANGED slots
              \/ /\ op[t].i \in Slot /\ op[t].i + 1 \in Slot
                 /\ slots' = [slots EXCEPT ![op[t].i] = slots[op[t].i + 1]]
          <5>1. CASE Evict(t)
            BY <1>1, <3>4, <5>1 DEF Evict, Slot
          <5>2. CASE CloseGap(t)
            BY <1>1, <3>4, <5>2 DEF CloseGap, Slot
          <5> QED
            BY <3>5, <5>1, <5>2
        <4> QED
          BY <3>1, <3>3, <4>1
      <3>6. CASE Count(t)
        BY <3>1, <3>6 DEF Count
      <3> QED
        BY <1>4, <3>2, <3>5, <3>6 DEF Step
    <2> QED
      BY <1>1, <2>1, <2>2, <2>3 DEF NoneNewer
  <1>5. CASE Scan \/ \E channel \in Channel : Activate(channel)
    <2>1. UNCHANGED <<slots, op, arrivals>>
      BY <1>5 DEF Scan, BeginFrame, FrameLooks, FrameCopies, EndFrame, ClickTrash,
                  TrashLooks, EndTrash, Activate
    <2>2. \A r \in 1 .. Len(rows') : rows'[r].stamp <= arrivals
      <3>1. CASE FrameCopies
        <4>1. ui.i \in Slot /\ rows' = Append(rows, slots[ui.i])
          BY <3>1, Numbers DEF FrameCopies, IInv, TypeInv, ScanFits, Slot
        <4>2. slots[ui.i] \in Entry
          BY <1>1, <4>1
        <4>3. /\ Len(rows') = Len(rows) + 1 /\ rows'[Len(rows) + 1] = slots[ui.i]
              /\ \A j \in 1 .. Len(rows) : rows'[j] = rows[j]
          BY <1>1, <4>1, <4>2, Appended
        <4>4. \A r \in 1 .. Len(rows') : r = Len(rows) + 1 \/ r \in 1 .. Len(rows)
          BY <1>1, <4>3
        <4> QED
          BY <4>1, <4>3, <4>4 DEF NoneNewer
      <3>2. CASE BeginFrame
        BY <3>2 DEF BeginFrame
      <3>3. CASE UNCHANGED rows
        BY <3>3 DEF NoneNewer
      <3> QED
        BY <1>5, <3>1, <3>2, <3>3 DEF Scan, FrameLooks, EndFrame, ClickTrash, TrashLooks,
                                      EndTrash, Activate
    <2> QED
      BY <2>1, <2>2 DEF NoneNewer
  <1> QED
    BY <1>2, <1>3, <1>4, <1>5, NextCases DEF IInv, TypeInv, Step

LEMMA RowsStep ==
  ASSUME IInv, NoneNewer, RowsInOrder, Next
  PROVE  RowsInOrder'
  <1> SUFFICES ASSUME ~collided' PROVE RowsInOrder'
    BY DEF RowsInOrder
  <1>1. /\ arrivals \in Nat /\ count \in Nat /\ Len(rows) \in Nat /\ rows \in Seq(Entry)
        /\ count <= MaxMessages + 1 /\ MaxMessages \in Nat /\ ui \in Scans /\ ui.i \in Nat
        /\ slots \in [1 .. MaxMessages + 1 -> Entry]
        /\ \A j \in 1 .. MaxMessages + 1 : slots[j].stamp \in Nat
        /\ \A r \in 1 .. Len(rows) : rows[r].stamp \in Nat /\ rows[r].stamp <= arrivals
        /\ ui.at # "events" => ui.i >= 1
        /\ ui.at = "copy" => ui.i <= MaxMessages + 1
    BY Numbers, Constants DEF IInv, TypeInv, TypeOK, Slot, NoneNewer, ScanFits
  <1>2. CASE (\E t \in Thread : Add(t) \/ Step(t)) \/ Delete
    <2>1. /\ ~collided /\ UNCHANGED <<ui, rows>>
          /\ \A j \in 1 .. MaxMessages + 1 : slots[j].stamp <= slots'[j].stamp
          /\ \/ count' <= count
             \/ count' = count + 1 /\ slots'[count + 1].stamp = arrivals
      BY <1>2, SlotsGrow
    <2>2. TypeInv'
      BY <1>2, AddTypes, DeleteTypes, WritingTypes DEF IInv
    <2>3. /\ count' \in Nat /\ count' <= MaxMessages + 1
          /\ \A j \in 1 .. MaxMessages + 1 : slots'[j].stamp \in Nat
      BY <2>2, Numbers, Constants DEF TypeInv, TypeOK, Slot, Entry
    <2>4. ASSUME ui.at = "frame", NEW r \in 1 .. Len(rows), NEW j \in ui.i .. count'
          PROVE  rows[r].stamp <= slots'[j].stamp
      <3>1. j \in 1 .. MaxMessages + 1
        BY <1>1, <2>3, <2>4
      <3>2. CASE j <= count
        <4>1. rows[r].stamp <= slots[j].stamp
          BY <1>1, <2>1, <2>4, <3>2 DEF RowsInOrder
        <4>2. slots[j].stamp <= slots'[j].stamp
          BY <2>1, <3>1
        <4>3. /\ rows[r].stamp \in Nat /\ slots[j].stamp \in Nat /\ slots'[j].stamp \in Nat
          BY <1>1, <2>3, <3>1
        <4> QED
          BY <4>1, <4>2, <4>3
      <3>3. CASE j > count
        BY <1>1, <2>1, <2>3, <3>1, <3>3
      <3> QED
        BY <1>1, <3>1, <3>2, <3>3
    <2>5. ASSUME ui.at = "copy", NEW r \in 1 .. Len(rows)
          PROVE  rows[r].stamp <= slots'[ui.i].stamp
      <3>1. ui.i \in 1 .. MaxMessages + 1 /\ rows[r].stamp <= slots[ui.i].stamp
        BY <1>1, <2>1, <2>5 DEF RowsInOrder
      <3>2. slots[ui.i].stamp <= slots'[ui.i].stamp
        BY <2>1, <3>1
      <3>3. /\ rows[r].stamp \in Nat /\ slots[ui.i].stamp \in Nat
            /\ slots'[ui.i].stamp \in Nat
        BY <1>1, <2>3, <3>1
      <3> QED
        BY <3>1, <3>2, <3>3
    <2> QED
      BY <2>1, <2>4, <2>5 DEF RowsInOrder
  <1>3. ASSUME NEW channel \in Channel, Activate(channel) PROVE RowsInOrder'
    BY <1>3 DEF Activate, RowsInOrder
  <1>4. CASE BeginFrame
    BY <1>4 DEF BeginFrame, RowsInOrder
  <1>5. CASE FrameLooks
    <2>1. /\ ~collided /\ ui.at = "frame" /\ ui.i <= count /\ UNCHANGED <<rows, slots, count>>
          /\ \/ ui'.at = "copy" /\ ui'.i = ui.i
             \/ ui'.at = "frame" /\ ui'.i = ui.i + 1
      BY <1>1, <1>5 DEF FrameLooks, Scanning, Scans
    <2>2. ui.i \in ui.i .. count /\ \A j \in ui.i + 1 .. count : j \in ui.i .. count
      BY <1>1, <2>1
    <2> QED
      BY <2>1, <2>2 DEF RowsInOrder
  <1>6. CASE FrameCopies
    <2>1. /\ ~collided /\ ui.at = "copy" /\ UNCHANGED <<slots, count>>
          /\ rows' = Append(rows, slots[ui.i]) /\ ui'.at = "frame" /\ ui'.i = ui.i + 1
      BY <1>1, <1>6 DEF FrameCopies, Scans
    <2>2. ui.i \in 1 .. MaxMessages + 1 /\ slots[ui.i] \in Entry
      BY <1>1, <2>1
    <2>3. /\ Len(rows') = Len(rows) + 1 /\ rows'[Len(rows) + 1] = slots[ui.i]
          /\ \A r \in 1 .. Len(rows) : rows'[r] = rows[r]
      BY <1>1, <2>1, <2>2, Appended
    <2>4. \A r \in 1 .. Len(rows') : r = Len(rows) + 1 \/ r \in 1 .. Len(rows)
      BY <1>1, <2>3
    <2>5. \A r \in 1 .. Len(rows') : rows'[r].stamp <= slots[ui.i].stamp
      BY <1>1, <2>1, <2>2, <2>3, <2>4 DEF RowsInOrder
    <2>6. \A j, k \in 1 .. Len(rows') : j < k => rows'[j].stamp <= rows'[k].stamp
      <3> TAKE j, k \in 1 .. Len(rows')
      <3> HAVE j < k
      <3>1. j \in 1 .. Len(rows)
        BY <1>1, <2>3
      <3> QED
        BY <2>1, <2>3, <2>4, <2>5, <3>1 DEF RowsInOrder
    <2>7. ASSUME NEW r \in 1 .. Len(rows'), NEW j \in ui'.i .. count'
          PROVE  rows'[r].stamp <= slots'[j].stamp
      <3>1. ui.i \in 1 .. count /\ j \in 1 .. count /\ ui.i < j
        BY <1>1, <2>1, <2>2
      <3>2. slots[ui.i].stamp <= slots[j].stamp
        BY <2>1, <3>1, SlotsOrdered
      <3>3. /\ rows'[r].stamp \in Nat /\ slots[ui.i].stamp \in Nat /\ slots[j].stamp \in Nat
        <4>1. j \in 1 .. MaxMessages + 1
          BY <1>1, <3>1
        <4>2. rows'[r] = slots[ui.i] \/ \E k \in 1 .. Len(rows) : rows'[r] = rows[k]
          BY <2>3, <2>4
        <4> QED
          BY <1>1, <2>2, <4>1, <4>2
      <3> QED
        BY <2>1, <2>5, <3>2, <3>3
    <2> QED
      BY <2>1, <2>6, <2>7 DEF RowsInOrder
  <1>7. CASE EndFrame \/ ClickTrash \/ TrashLooks \/ EndTrash
    <2>1. ~collided /\ UNCHANGED rows
      BY <1>7 DEF EndFrame, ClickTrash, TrashLooks, EndTrash
    <2>2. ui'.at \notin {"frame", "copy"}
      <3>1. CASE EndFrame \/ ClickTrash \/ EndTrash
        BY <3>1 DEF EndFrame, ClickTrash, EndTrash, Events
      <3>2. CASE TrashLooks
        <4>1. ui.at = "trash"
          BY <3>2 DEF TrashLooks, Scanning
        <4>2. \/ ui' = [ui EXCEPT !.i = @ + 1] \/ ui' = [ui EXCEPT !.at = "ask"]
              \/ ui' = [ui EXCEPT !.i = @ + 1, !.rank = @ + 1]
          BY <3>2 DEF TrashLooks
        <4> QED
          BY <1>1, <4>1, <4>2 DEF Scans
      <3> QED
        BY <1>7, <3>1, <3>2
    <2> QED
      BY <2>1, <2>2 DEF RowsInOrder
  <1> QED
    BY <1>2, <1>3, <1>4, <1>5, <1>6, <1>7, NextCases DEF IInv, TypeInv, Step, Scan

-----------------------------------------------------------------------------
(* While nothing moves.                                                    *)

LEMMA StillWriting ==
  ASSUME IInv, NoneNewer, Still,
         (\E t \in Thread : Add(t) \/ Write(t) \/ Count(t)) \/ Delete
  PROVE  Still'
  <1> SUFFICES ASSUME ~collided', ~moved' PROVE Still'
    BY DEF Still
  <1>1. /\ arrivals \in Nat /\ count \in Nat /\ Len(rows) \in Nat
        /\ ui \in Scans /\ ui.i \in Nat /\ ui.rank \in Nat
        /\ slots \in [1 .. MaxMessages + 1 -> Entry]
        /\ \A j \in 1 .. MaxMessages + 1 : slots[j].stamp \in Nat
        /\ \A r \in 1 .. Len(rows) : rows[r].stamp \in Nat /\ rows[r].stamp <= arrivals
        /\ ui.at # "events" => ui.i >= 1
    BY Numbers, Constants DEF IInv, TypeInv, TypeOK, Slot, NoneNewer, ScanFits
  <1>2. /\ ~collided /\ UNCHANGED <<ui, rows, hover, active>>
        /\ \/ count' <= count
           \/ /\ count' = count + 1 /\ slots'[count + 1].stamp = arrivals /\ count' <= Len(list)
              /\ UNCHANGED slots /\ \A j \in 1 .. count + 1 : slots[j] = list[j]
    BY SlotsGrow DEF Step
  <1>3. count <= MaxMessages
    BY <1>2, Numbers DEF IInv
  <1>4. /\ moved' = moved /\ count' \in {count, count + 1}
        /\ \A j \in 1 .. count : slots'[j] = slots[j]
    <2>1. CASE (\E t \in Thread : Add(t)) \/ Delete
      BY <2>1 DEF Add, Delete, message_model_add, message_model_delete_by_id
    <2>2. ASSUME NEW t \in Thread, Write(t)
          PROVE  moved' = moved /\ count' = count /\ \A j \in 1 .. count : slots'[j] = slots[j]
      BY <1>1, <1>3, <2>2, Constants DEF Write
    <2>3. CASE \E t \in Thread : Count(t)
      BY <2>3 DEF Count
    <2> QED
      BY <2>1, <2>2, <2>3
  <1>5. Strict /\ NoGap
    BY <1>2, <1>4 DEF Still
  <1>7. \A j \in 1 .. count' : j \in 1 .. count \/ (j = count + 1 /\ count' = count + 1)
    BY <1>1, <1>4
  <1>8. Strict'
    <2>1. ASSUME NEW j \in 1 .. count', NEW k \in 1 .. count', j < k
          PROVE  slots'[j].stamp < slots'[k].stamp
      <3>1. CASE k \in 1 .. count
        BY <1>4, <1>5, <1>7, <2>1, <3>1 DEF Strict
      <3>2. CASE k = count + 1 /\ count' = count + 1
        <4>1. /\ slots'[j] = list[j] /\ slots'[k] = list[k]
              /\ j \in 1 .. Len(list) /\ k \in 1 .. Len(list)
          <5>1. Len(list) \in Nat /\ j \in 1 .. count + 1 /\ k \in 1 .. count + 1
            BY <1>1, <3>2, Numbers DEF IInv
          <5>2. ~(count' <= count) /\ count' <= Len(list)
            BY <1>1, <1>2, <3>2
          <5>3. /\ j \in 1 .. Len(list) /\ k \in 1 .. Len(list)
            BY <3>2, <5>1, <5>2
          <5> QED
            BY <1>2, <5>1, <5>2, <5>3
        <4> QED
          BY <2>1, <4>1, ListStrict
      <3> QED
        BY <1>7, <3>1, <3>2
    <2> QED
      BY <1>2, <1>5, <2>1 DEF Strict
  <1>9. NoGap'
    <2>1. ASSUME NEW r \in 1 .. Len(rows)
          PROVE  \E j \in 1 .. count' : slots'[j] = rows[r] /\ rows[r].channel = active
      <3>1. PICK j \in 1 .. count : slots[j] = rows[r] /\ rows[r].channel = active
        BY <1>5 DEF NoGap, Among
      <3>2. j \in 1 .. count'
        BY <1>1, <1>4
      <3> QED
        BY <1>4, <3>1, <3>2
    <2>2. ASSUME NEW r \in 1 .. Len(rows), NEW j \in 1 .. count',
                 slots'[j].channel = active, slots'[j].stamp < rows[r].stamp
          PROVE  \E k \in 1 .. Len(rows) : rows[k] = slots'[j]
      <3>1. j # count + 1 \/ count' # count + 1
        BY <1>1, <1>2, <2>2
      <3>2. j \in 1 .. count
        BY <1>7, <3>1
      <3> QED
        BY <1>4, <1>5, <2>2, <3>2 DEF NoGap, InRows
    <2>3. \A j \in 1 .. count' : j <= count'
      BY <1>7, <1>1
    <2> QED
      BY <1>2, <2>1, <2>2, <2>3 DEF NoGap, Among, InRows
  <1>10. ASSUME ui.at # "events", ui.i <= count + 1
         PROVE  /\ \A j \in 1 .. ui.i - 1 : slots'[j] = slots[j]
                /\ ui.i - 1 \in Nat /\ ui.i <= count' + 1
    BY <1>1, <1>4, <1>10
  <1>11. ui.at \in {"frame", "copy"} => StillFrame'
    <2> SUFFICES ASSUME ui.at \in {"frame", "copy"} PROVE StillFrame'
      OBVIOUS
    <2>1. StillFrame /\ ui.at # "events"
      BY <1>2, <1>4 DEF Still
    <2>2. \A r \in 1 .. Len(rows) : Among(rows[r], ui.i - 1)'
      BY <1>1, <1>2, <1>4, <2>1 DEF StillFrame, Among
    <2> QED
      BY <1>2, <1>10, <2>1, <2>2 DEF StillFrame, InRows
  <1>12. ui.at = "trash" => StillTrash'
    <2> SUFFICES ASSUME ui.at = "trash" PROVE StillTrash'
      OBVIOUS
    <2>1. StillTrash /\ ui.at # "events"
      BY <1>2, <1>4 DEF Still
    <2>2. \A r \in 1 .. ui.rank : Among(rows[r], ui.i - 1)'
      BY <1>1, <1>2, <1>4, <2>1 DEF StillTrash, Among
    <2> QED
      BY <1>2, <1>10, <2>1, <2>2 DEF StillTrash, InRows
  <1>13. ui.at \in {"copy", "ask"} => ui.i <= count' /\ slots'[ui.i] = slots[ui.i]
    BY <1>1, <1>2, <1>4 DEF Still
  <1> QED
    BY <1>2, <1>4, <1>8, <1>9, <1>11, <1>12, <1>13 DEF Still

(* The entries in front of one of the active channel are on rows in front  *)
(* of its row, if it has one.                                              *)
LEMMA NextRow ==
  ASSUME IInv, Still, ~collided, ~moved, ui.at = "trash", ui.i <= count,
         slots[ui.i].channel = active
  PROVE  slots[ui.i] = rows[ui.rank + 1]
  <1>1. /\ count \in Nat /\ Len(rows) \in Nat /\ ui.i \in Nat /\ ui.rank \in Nat
        /\ count <= MaxMessages /\ MaxMessages \in Nat /\ ui.i >= 1
        /\ ui.rank + 1 \in 1 .. Len(rows)
        /\ \A j \in 1 .. MaxMessages + 1 : slots[j].stamp \in Nat
    <2>1. /\ count \in Nat /\ Len(rows) \in Nat /\ ui.i \in Nat /\ ui.rank \in Nat
          /\ count <= MaxMessages /\ MaxMessages \in Nat
          /\ \A j \in 1 .. MaxMessages + 1 : slots[j].stamp \in Nat
      BY Numbers, Constants DEF IInv
    <2>2. ui.i >= 1 /\ ui.rank < hover /\ hover \in 0 .. Len(rows)
      BY DEF IInv, TypeInv, TypeOK, ScanFits
    <2> QED
      BY <2>1, <2>2
  <1>2. Strict /\ NoGap /\ StillTrash
    BY DEF Still
  <1> DEFINE n == ui.rank + 1
  <1>3. PICK m \in 1 .. count : slots[m] = rows[n] /\ slots[m].channel = active
    <2>1. Among(rows[n], count)
      BY <1>1, <1>2 DEF NoGap
    <2> QED
      BY <2>1 DEF Among
  <1>4. m >= ui.i
    <2> SUFFICES ASSUME m < ui.i PROVE FALSE
      BY <1>1
    <2>1. m \in 1 .. ui.i - 1
      BY <1>1
    <2>2. PICK r \in 1 .. ui.rank : rows[r] = slots[m]
      BY <1>2, <1>3, <2>1 DEF StillTrash, InRows
    <2>3. r < n /\ r \in 1 .. Len(rows) /\ n \in 1 .. Len(rows)
      BY <1>1
    <2>4. rows[r].stamp < rows[n].stamp
      BY <1>2, <2>3 DEF Strict
    <2> QED
      BY <1>1, <1>3, <2>2, <2>4
  <1>5. m <= ui.i
    <2> SUFFICES ASSUME m > ui.i PROVE FALSE
      BY <1>1
    <2>1. ui.i \in 1 .. count
      BY <1>1
    <2>2. slots[ui.i].stamp < rows[n].stamp
      BY <1>2, <1>3, <2>1 DEF Strict
    <2>3. PICK r \in 1 .. Len(rows) : rows[r] = slots[ui.i]
      BY <1>1, <1>2, <2>1, <2>2 DEF NoGap, InRows
    <2>4. /\ n \in 1 .. Len(rows) /\ slots[ui.i].stamp \in Nat /\ slots[m].stamp \in Nat
          /\ rows[n].stamp = slots[m].stamp
      BY <1>1, <1>3, <2>1
    <2>5. ~(n < r) /\ n # r
      <3>1. n < r => rows[n].stamp < rows[r].stamp
        BY <1>2, <2>4 DEF Strict
      <3> QED
        BY <2>2, <2>3, <2>4, <3>1
    <2>6. r \in 1 .. ui.rank
      BY <1>1, <2>5
    <2>7. PICK j \in 1 .. ui.i - 1 : j <= count /\ slots[j] = rows[r]
      BY <1>2, <2>6 DEF StillTrash, Among
    <2>8. slots[j].stamp < slots[ui.i].stamp
      BY <1>1, <1>2, <2>1, <2>7 DEF Strict
    <2> QED
      BY <2>3, <2>4, <2>7, <2>8
  <1> QED
    BY <1>1, <1>3, <1>4, <1>5

(* Every entry passed by a scan of a frame that has room is a row.         *)
LEMMA StillScan ==
  ASSUME IInv, Still, Scan
  PROVE  Still'
  <1> SUFFICES ASSUME ~collided', ~moved' PROVE Still'
    BY DEF Still
  <1>1. UNCHANGED <<slots, count, op, active, collided>>
    BY DEF Scan, BeginFrame, FrameLooks, FrameCopies, EndFrame, ClickTrash,
           TrashLooks, EndTrash
  <1>2. /\ count \in Nat /\ count <= MaxMessages /\ MaxMessages \in Nat
        /\ Len(rows) \in Nat /\ rows \in Seq(Entry) /\ ui \in Scans /\ ui.i \in Nat
        /\ ui.rank \in Nat /\ (ui.at # "events" => ui.i >= 1) /\ ~collided
        /\ \A j \in 1 .. MaxMessages + 1 : slots[j] \in Entry /\ slots[j].stamp \in Nat
        /\ \A r \in 1 .. Len(rows) : rows[r].stamp \in Nat
    BY <1>1, Numbers, Constants DEF IInv, TypeInv, TypeOK, ScanFits
  <1>3. CASE BeginFrame
    <2>1. \A t \in Thread : op[t].at \notin {"evict", "close"}
      BY <1>3 DEF BeginFrame
    <2>2. \A j, k \in 1 .. count : j < k => slots[j].stamp < slots[k].stamp
      BY <1>2, <2>1, SlotsStrict
    <2>3. /\ ui'.at = "frame" /\ ui'.i = 1 /\ ui'.channel = active
          /\ rows' = <<>> /\ Len(rows') = 0
      BY <1>3 DEF BeginFrame
    <2>4. Strict' /\ NoGap'
      BY <1>1, <2>2, <2>3 DEF Strict, NoGap
    <2>5. StillFrame'
      BY <1>1, <1>2, <2>3 DEF StillFrame
    <2> QED
      BY <2>3, <2>4, <2>5 DEF Still
  <1> SUFFICES ASSUME ~BeginFrame PROVE Still'
    BY <1>3
  <1>4. ~moved /\ Strict /\ NoGap
    BY <1>2 DEF Scan, FrameLooks, FrameCopies, EndFrame, ClickTrash, TrashLooks,
                EndTrash, Still
  <1>5. CASE UNCHANGED <<rows, hover>>
    <2>1. Strict' /\ NoGap'
      BY <1>1, <1>4, <1>5 DEF Strict, NoGap, Among, InRows
    <2>2. CASE FrameLooks
      <3>1. ui.at = "frame" /\ ui.i <= count /\ StillFrame
        BY <1>2, <1>4, <2>2 DEF FrameLooks, Scanning, Still
      <3>2. CASE Mine
        <4>1. Len(rows) < MaxMessages
          BY <1>2, <3>1 DEF StillFrame
        <4>2. ui' = [ui EXCEPT !.at = "copy"]
          BY <2>2, <3>2, <4>1 DEF FrameLooks
        <4>3. ui'.at = "copy" /\ ui'.i = ui.i /\ ui'.channel = ui.channel
          BY <1>2, <4>2 DEF Scans
        <4>4. slots[ui.i].channel = active
          BY <3>1, <3>2 DEF StillFrame, Mine
        <4>5. StillFrame'
          BY <1>1, <1>5, <3>1, <4>3 DEF StillFrame, Among, InRows
        <4> QED
          BY <1>1, <2>1, <3>1, <4>3, <4>4, <4>5 DEF Still
      <3>3. CASE ~Mine
        <4>1. ui' = [ui EXCEPT !.i = @ + 1]
          BY <2>2, <3>3 DEF FrameLooks
        <4>2. ui'.at = "frame" /\ ui'.i = ui.i + 1 /\ ui'.channel = ui.channel
          BY <1>2, <3>1, <4>1 DEF Scans
        <4>3. slots[ui.i].channel # active
          BY <3>1, <3>3 DEF StillFrame, Mine
        <4>4. \A j \in 1 .. ui.i : j = ui.i \/ j \in 1 .. ui.i - 1
          BY <1>2
        <4>5. \A j \in 1 .. ui.i - 1 : j \in 1 .. ui.i
          BY <1>2
        <4>6. /\ ui'.i - 1 = ui.i /\ Len(rows) <= ui.i /\ ui'.i <= count + 1
          BY <1>2, <3>1, <4>2 DEF StillFrame
        <4>7. StillFrame'
          BY <1>1, <1>5, <3>1, <4>2, <4>3, <4>4, <4>5, <4>6 DEF StillFrame, Among, InRows
        <4> QED
          BY <2>1, <4>2, <4>7 DEF Still
      <3> QED
        BY <3>2, <3>3
    <2>3. CASE ClickTrash
      <3>1. ui'.at = "trash" /\ ui'.i = 1 /\ ui'.channel = active /\ ui'.rank = 0
        BY <2>3 DEF ClickTrash
      <3>2. StillTrash'
        BY <1>1, <1>2, <3>1 DEF StillTrash
      <3> QED
        BY <2>1, <3>1, <3>2 DEF Still
    <2>4. CASE TrashLooks
      <3>1. ui.at = "trash" /\ ui.i <= count /\ StillTrash
        BY <1>2, <1>4, <2>4 DEF TrashLooks, Scanning, Still
      <3>2. Mine <=> slots[ui.i].channel = active
        BY <3>1 DEF StillTrash, Mine
      <3>3. /\ \A j \in 1 .. ui.i : j = ui.i \/ j \in 1 .. ui.i - 1
            /\ \A j \in 1 .. ui.i - 1 : j \in 1 .. ui.i
            /\ ui.i + 1 - 1 = ui.i /\ ui.i + 1 <= count + 1 /\ ui.i \in 1 .. ui.i
        BY <1>2, <3>1
      <3>4. CASE ~Mine
        <4>1. ui' = [ui EXCEPT !.i = @ + 1]
          BY <2>4, <3>4 DEF TrashLooks
        <4>2. /\ ui'.at = "trash" /\ ui'.i = ui.i + 1 /\ ui'.channel = ui.channel
              /\ ui'.rank = ui.rank
          BY <1>2, <3>1, <4>1 DEF Scans
        <4>3. StillTrash'
          BY <1>1, <1>5, <3>1, <3>2, <3>3, <3>4, <4>2 DEF StillTrash, Among, InRows
        <4> QED
          BY <2>1, <4>2, <4>3 DEF Still
      <3>5. CASE Mine /\ ui.rank + 1 = hover
        <4>1. ui' = [ui EXCEPT !.at = "ask"]
          BY <2>4, <3>5 DEF TrashLooks
        <4>2. ui'.at = "ask" /\ ui'.i = ui.i
          BY <1>2, <3>1, <4>1 DEF Scans
        <4>3. slots[ui.i] = rows[hover]
          BY <1>2, <1>4, <3>1, <3>2, <3>5, NextRow
        <4> QED
          BY <1>1, <1>5, <2>1, <3>1, <4>2, <4>3 DEF Still
      <3>6. CASE Mine /\ ui.rank + 1 # hover
        <4>1. ui' = [ui EXCEPT !.i = @ + 1, !.rank = @ + 1]
          BY <2>4, <3>6 DEF TrashLooks
        <4>2. /\ ui'.at = "trash" /\ ui'.i = ui.i + 1 /\ ui'.channel = ui.channel
              /\ ui'.rank = ui.rank + 1
          BY <1>2, <3>1, <4>1 DEF Scans
        <4>3. slots[ui.i] = rows[ui.rank + 1] /\ slots[ui.i].channel = active
          BY <1>2, <1>4, <3>1, <3>2, <3>6, NextRow
        <4>4. /\ \A r \in 1 .. ui.rank + 1 : r = ui.rank + 1 \/ r \in 1 .. ui.rank
              /\ \A r \in 1 .. ui.rank : r \in 1 .. ui.rank + 1
              /\ ui.rank + 1 \in 1 .. ui.rank + 1
          BY <1>2
        <4>5. \A r \in 1 .. ui.rank + 1 : Among(rows[r], ui.i)
          BY <3>1, <3>3, <4>3, <4>4 DEF StillTrash, Among
        <4>6. \A j \in 1 .. ui.i : slots[j].channel = active => InRows(slots[j], ui.rank + 1)
          BY <3>1, <3>3, <4>3, <4>4 DEF StillTrash, InRows
        <4>7. StillTrash'
          BY <1>1, <1>5, <3>1, <3>3, <4>2, <4>5, <4>6 DEF StillTrash, Among, InRows
        <4> QED
          BY <2>1, <4>2, <4>7 DEF Still
      <3> QED
        BY <3>4, <3>5, <3>6
    <2>5. CASE EndFrame \/ EndTrash
      BY <2>1, <2>5 DEF EndFrame, EndTrash, Events, Still
    <2>6. CASE FrameCopies
      <3>1. ui.i \in 1 .. MaxMessages + 1 /\ rows' = Append(rows, slots[ui.i])
        BY <1>2, <2>6 DEF FrameCopies, IInv, TypeInv, ScanFits
      <3>2. Len(rows') = Len(rows) + 1
        BY <1>2, <3>1, Appended
      <3> QED
        BY <1>2, <1>5, <3>2
    <2> QED
      BY <2>2, <2>3, <2>4, <2>5, <2>6 DEF Scan
  <1>6. CASE EndFrame \/ EndTrash
    <2>1. UNCHANGED rows /\ ui'.at = "events"
      BY <1>6 DEF EndFrame, EndTrash, Events
    <2>2. Strict' /\ NoGap'
      BY <1>1, <1>4, <2>1 DEF Strict, NoGap, Among, InRows
    <2> QED
      BY <2>1, <2>2 DEF Still
  <1>7. CASE FrameCopies
    <2>1. /\ ui.at = "copy" /\ ui.i <= count /\ slots[ui.i].channel = active /\ StillFrame
          /\ rows' = Append(rows, slots[ui.i])
          /\ ui' = [ui EXCEPT !.at = "frame", !.i = @ + 1]
      BY <1>2, <1>4, <1>7 DEF FrameCopies, Still
    <2>2. ui'.at = "frame" /\ ui'.i = ui.i + 1 /\ ui'.channel = ui.channel
      BY <1>2, <2>1 DEF Scans
    <2> DEFINE n == Len(rows) + 1
    <2>3. /\ ui.i \in 1 .. count /\ slots[ui.i] \in Entry /\ ui.i \in 1 .. ui.i
          /\ \A j \in 1 .. ui.i : j = ui.i \/ j \in 1 .. ui.i - 1
          /\ \A j \in 1 .. ui.i - 1 : j \in 1 .. ui.i
          /\ ui.i + 1 - 1 = ui.i /\ ui.i + 1 <= count + 1 /\ n <= ui.i
      BY <1>2, <2>1 DEF StillFrame
    <2>4. /\ Len(rows') = n /\ rows'[n] = slots[ui.i]
          /\ \A r \in 1 .. Len(rows) : rows'[r] = rows[r]
      BY <1>2, <2>1, <2>3, Appended
    <2>5. /\ \A r \in 1 .. n : r = n \/ r \in 1 .. Len(rows)
          /\ \A r \in 1 .. Len(rows) : r \in 1 .. n
          /\ n \in 1 .. n /\ \A r, s \in 1 .. n : r < s => r \in 1 .. Len(rows)
      BY <1>2
    <2> HIDE DEF n
    <2>6. \A r \in 1 .. n : /\ Among(rows'[r], ui.i)
                            /\ rows'[r] = slots[ui.i] \/ Among(rows'[r], ui.i - 1)
      BY <2>1, <2>3, <2>4, <2>5 DEF StillFrame, Among
    <2>7. \A j \in 1 .. ui.i : slots[j].channel = active => \E r \in 1 .. n : rows'[r] = slots[j]
      BY <2>1, <2>3, <2>4, <2>5 DEF StillFrame, InRows
    <2>8. \A r \in 1 .. Len(rows) : rows[r].stamp < slots[ui.i].stamp
      <3> TAKE r \in 1 .. Len(rows)
      <3>1. PICK j \in 1 .. ui.i - 1 : j <= count /\ slots[j] = rows[r]
        BY <2>1 DEF StillFrame, Among
      <3>2. j \in 1 .. count /\ j < ui.i
        BY <1>2, <3>1
      <3> QED
        BY <1>4, <2>3, <3>1, <3>2 DEF Strict
    <2>9. \A r, s \in 1 .. n : r < s => rows'[r].stamp < rows'[s].stamp
      BY <1>4, <2>4, <2>5, <2>8 DEF Strict
    <2>10. Strict'
      BY <1>1, <1>4, <2>4, <2>9 DEF Strict
    <2>11. \A j \in 1 .. ui.i : j \in 1 .. count
      BY <1>2, <2>1
    <2>12. \A r \in 1 .. n : Among(rows'[r], count)
      BY <2>6, <2>11 DEF Among
    <2>13. ASSUME NEW r \in 1 .. n, NEW j \in 1 .. count,
                  slots[j].channel = active, slots[j].stamp < rows'[r].stamp
           PROVE  \E k \in 1 .. n : rows'[k] = slots[j]
      <3>1. PICK m \in 1 .. ui.i : m <= count /\ slots[m] = rows'[r]
        BY <2>6, <2>13 DEF Among
      <3>2. /\ m \in 1 .. count /\ slots[m].stamp \in Nat /\ slots[j].stamp \in Nat
        BY <1>2, <2>11, <3>1
      <3>3. ~(m < j) /\ m # j
        <4>1. m < j => slots[m].stamp < slots[j].stamp
          BY <1>4, <3>2 DEF Strict
        <4> QED
          BY <2>13, <3>1, <3>2, <4>1
      <3>4. j \in 1 .. ui.i
        BY <1>2, <3>2, <3>3
      <3> QED
        BY <2>7, <2>13, <3>4
    <2>14. NoGap'
      BY <1>1, <2>4, <2>12, <2>13 DEF NoGap, Among, InRows
    <2>15. StillFrame'
      <3>1. ui'.i - 1 = ui.i /\ ui'.i <= count + 1 /\ ui'.channel = active
        BY <2>1, <2>2, <2>3 DEF StillFrame
      <3>2. \A r \in 1 .. n : \E j \in 1 .. ui.i :
              j <= count /\ slots[j] = rows'[r] /\ rows'[r].channel = active
        BY <2>6 DEF Among
      <3> QED
        BY <1>1, <2>3, <2>4, <2>7, <3>1, <3>2 DEF StillFrame, Among, InRows
    <2> QED
      BY <2>2, <2>10, <2>14, <2>15 DEF Still
  <1> QED
    BY <1>5, <1>6, <1>7 DEF Scan, FrameLooks, ClickTrash, TrashLooks

LEMMA FrameInit == Init => FrameInv
  <1> SUFFICES ASSUME Init PROVE FrameInv
    OBVIOUS
  <1>1. /\ Len(rows) = 0 /\ count = 0 /\ arrivals = 0 /\ ui.at = "events"
        /\ \A t \in Thread : op[t].entry.stamp = 0
        /\ \A j \in Slot : slots[j].stamp = 0
    BY DEF Init, Events, Idle, Blank
  <1>2. NoneNewer
    BY <1>1 DEF NoneNewer
  <1>3. RowsInOrder /\ Still
    BY <1>1 DEF RowsInOrder, Still, Strict, NoGap
  <1> QED
    BY <1>2, <1>3 DEF FrameInv

LEMMA FrameStep == IInv /\ FrameInv /\ [Next]_vars => FrameInv'
  <1> SUFFICES ASSUME IInv, FrameInv, [Next]_vars PROVE FrameInv'
    OBVIOUS
  <1>1. CASE Next
    <2>1. Still'
      <3>1. CASE \E channel \in Channel : Activate(channel)
        BY <3>1 DEF Activate, Still
      <3>2. ASSUME NEW t \in Thread, Evict(t) \/ CloseGap(t) PROVE Still'
        BY <3>2 DEF Evict, CloseGap, Still
      <3> QED
        BY <1>1, <3>1, <3>2, StillWriting, StillScan, NextCases DEF IInv, TypeInv, FrameInv
    <2> QED
      BY <1>1, <2>1, NewerStep, RowsStep DEF FrameInv
  <1>2. CASE UNCHANGED vars
    BY <1>2 DEF vars, FrameInv, NoneNewer, RowsInOrder, Still, Strict, NoGap,
                StillFrame, StillTrash, Among, InRows
  <1> QED
    BY <1>1, <1>2

LEMMA FrameInvariant == Spec => [](IInv /\ FrameInv)
  <1>1. Init => IInv /\ FrameInv
    BY TypesInit, ArrayInit, FrameInit DEF IInv
  <1>2. IInv /\ FrameInv /\ [Next]_vars => IInv' /\ FrameInv'
    BY TypesStep, ArrayStep, FrameStep DEF IInv
  <1> QED
    BY <1>1, <1>2, PTL DEF Spec

(* A frame shows entries in the order of arrival, whatever the listener    *)
(* moves under it (message.c:11-22), and if nothing moved since it began   *)
(* they are the first entries of the active channel, without a gap.        *)
THEOREM FramesTrue == Spec => []FrameTrue
  <1>1. IInv /\ FrameInv => FrameTrue
    <2> SUFFICES ASSUME IInv, FrameInv, ~collided PROVE FrameTrue
      BY DEF FrameTrue
    <2>1. /\ DOMAIN rows = 1 .. Len(rows) /\ Len(rows) \in Nat /\ count \in Nat
          /\ \A r \in 1 .. Len(rows) : rows[r].stamp \in Nat
      BY Numbers DEF IInv, TypeInv, TypeOK
    <2>2. \A j, k \in DOMAIN rows : j < k => rows[j].stamp <= rows[k].stamp
      BY <2>1 DEF FrameInv, RowsInOrder
    <2>3. ASSUME ~moved
          PROVE  /\ \A j, k \in DOMAIN rows : j < k => rows[j] # rows[k]
                 /\ \A r \in DOMAIN rows :
                      \E n \in 1 .. count : slots[n].channel = active /\ rows[r] = slots[n]
                 /\ \A r \in DOMAIN rows, n \in 1 .. count :
                      slots[n].channel = active /\ slots[n].stamp < rows[r].stamp
                        => \E k \in DOMAIN rows : slots[n] = rows[k]
      <3>1. Strict /\ NoGap
        BY <2>3 DEF FrameInv, Still
      <3>2. \A j, k \in DOMAIN rows : j < k => rows[j] # rows[k]
        BY <2>1, <3>1 DEF Strict
      <3> QED
        BY <2>1, <3>1, <3>2 DEF NoGap, Among, InRows
    <2> QED
      BY <2>2, <2>3 DEF FrameTrue
  <1> QED
    BY <1>1, FrameInvariant, PTL

(* The message that a click on the trash icon asks the server to delete is *)
(* the one drawn under the icon, though the click keeps its rank and looks *)
(* the id up again (chat_controller.c:523, message.c:69-78), unless an     *)
(* entry moved or the active channel changed since the frame was begun.    *)
THEOREM TrashDeletesDrawn == Spec => TrashRight
  <1>1. IInv /\ FrameInv /\ [Next]_vars
          => [request' \notin {request, 0} /\ ~moved /\ ~collided
                => request' = rows[hover].id]_vars
    <2> SUFFICES ASSUME IInv, FrameInv, Next, request' \notin {request, 0},
                        ~moved, ~collided
                 PROVE  request' = rows[hover].id
      OBVIOUS
    <2>1. ASSUME \E t \in Thread : Add(t) \/ Step(t) PROVE FALSE
      BY <2>1 DEF Add, message_model_add, Step, Evict, Write, Count, CloseGap
    <2>2. ~Delete /\ ~(\E channel \in Channel : Activate(channel))
      BY DEF Delete, message_model_delete_by_id, Activate
    <2>3. EndTrash /\ ui.at = "ask" /\ request' = slots[ui.i].id
      BY <2>1, <2>2, NextCases DEF IInv, TypeInv, Step, Scan, BeginFrame, FrameLooks,
                                   FrameCopies, EndFrame, ClickTrash, TrashLooks, EndTrash
    <2> QED
      BY <2>3 DEF FrameInv, Still
  <1> QED
    BY <1>1, FrameInvariant, PTL DEF Spec, TrashRight
=============================================================================
