--------------------------- MODULE RegistryProofs ---------------------------
(***************************************************************************)
(* Proofs about Registry, for every number of connections, slots and       *)
(* channels.  The inductive invariant says who may be in the table, that   *)
(* broadcasting is holding the mutex, and that the pointer a broadcast has *)
(* read is still in the slot it was read from.                             *)
(***************************************************************************)
EXTENDS Registry, FiniteSetTheorems, TLAPS

(* Holding the mutex and being inside a broadcast are the same thing.      *)
MutexInv == \A c \in Client : pc[c] \in Broadcasting <=> mutex = c

(* A thread owns an allocated block with an open socket until it closes it,*)
(* and it has called registry_remove exactly when it is on its way out.    *)
LifeInv ==
  \A c \in Client :
    /\ live[c] <=> pc[c] # "none"
    /\ open[c] <=> pc[c] \notin {"none", "freeing"}
    /\ left[c] => pc[c] \in {"locking", "closing", "freeing"} \cup Broadcasting
    /\ pc[c] \in {"closing", "freeing"} => left[c]

(* Only clients being served are in the table, each in one slot.           *)
SlotInv ==
  /\ \A i \in Slots :
       slots[i] # NoClient => pc[slots[i]] \in Serving /\ ~left[slots[i]]
  /\ \A i, j \in Slots : slots[i] = slots[j] /\ slots[i] # NoClient => i = j

Occupied == {i \in Slots : slots[i] # NoClient}

CountInv == count = Cardinality(Occupied)

(* The pointer a broadcast works on is the one in its current slot.        *)
HeldInv ==
  \A t \in Client :
    IF pc[t] = "sending"
      THEN /\ cursor[t] \in Slots
           /\ held[t] = slots[cursor[t]]
           /\ held[t] # NoClient
      ELSE held[t] = NoClient

(* Everyone a running broadcast still owes its packet is ahead of it in    *)
(* the table, and addressed by it.                                         *)
OwedOf(t) ==
  \A d \in owed[t] :
    /\ pc[t] \in Broadcasting
    /\ Addressed(d, job[t])
    /\ \E i \in Slots : i >= cursor[t] /\ slots[i] = d

OwedInv == \A t \in Client : OwedOf(t)

IInv == TypeOK /\ MutexInv /\ LifeInv /\ SlotInv /\ CountInv /\ HeldInv /\ OwedInv

-----------------------------------------------------------------------------
(* One step of the system about client c; every step lemma below is proved *)
(* by the case split into these disjuncts.                                 *)
StepOf(c) ==
  \/ Accept(c) \/ SpawnThread(c) \/ SpawnFails(c) \/ RegistryAdd(c)
  \/ HandleLogin(c) \/ HandleLogout(c) \/ HandleJoinOrLeave(c)
  \/ HandleMsgSend(c) \/ HandleUserList(c) \/ HandleOther(c) \/ Reply(c)
  \/ LockRegistry(c) \/ ReadSlot(c) \/ SendHeld(c) \/ UnlockRegistry(c)
  \/ Disconnected(c) \/ RegistryRemove(c) \/ CloseSocket(c) \/ FreeClient(c)
  \/ PeerRead(c) \/ PeerGone(c)

LEMMA NextCases == Next => \E c \in Client : StepOf(c)
BY DEF Next, ThreadStep, Handle, StepOf

-----------------------------------------------------------------------------
THEOREM TypeInit == Init => TypeOK
BY MaxClientsAssumption, SendBufferAssumption DEF Init, TypeOK, PCs, Serving, Slots

LEMMA OccupiedFinite == IsFiniteSet(Occupied) /\ Cardinality(Occupied) \in Nat
<1>1. IsFiniteSet(Slots)
  BY FS_Interval, MaxClientsAssumption DEF Slots
<1> QED
  BY <1>1, FS_Subset, FS_CardinalityType DEF Occupied

LEMMA TypeStep == TypeOK /\ CountInv /\ [Next]_vars => TypeOK'
<1> SUFFICES ASSUME TypeOK, CountInv, [Next]_vars PROVE TypeOK'
  OBVIOUS
<1> USE MaxClientsAssumption, SendBufferAssumption
<1> USE DEF TypeOK, PCs, Serving, Broadcasting, Slots, registryVars, heapVars,
            sessionVars, peerVars, loopVars
<1>1. CASE UNCHANGED vars
  BY <1>1 DEF vars
<1>2. CASE Next
  <2> PICK c \in Client : StepOf(c)
    BY <1>2, NextCases
  <2>1. CASE Accept(c)
    BY <2>1 DEF Accept
  <2>2. CASE SpawnThread(c)
    BY <2>2 DEF SpawnThread
  <2>3. CASE SpawnFails(c)
    BY <2>3 DEF SpawnFails, Forget
  <2>4. CASE RegistryAdd(c)
    BY <2>4 DEF RegistryAdd
  <2>5. CASE HandleLogin(c)
    BY <2>5 DEF HandleLogin, Receive, ForgetDebtTo
  <2>6. CASE HandleLogout(c)
    BY <2>6 DEF HandleLogout, Receive, ForgetDebtTo
  <2>7. CASE HandleJoinOrLeave(c)
    BY <2>7 DEF HandleJoinOrLeave, Receive, ForgetDebtTo
  <2>8. CASE HandleMsgSend(c)
    BY <2>8 DEF HandleMsgSend, Receive
  <2>9. CASE HandleOther(c)
    <3>1. job' \in [Client -> Channel \cup {Roster, RosterFirst, NoJob}]
      BY <2>9 DEF HandleOther
    <3> QED
      BY <2>9, <3>1 DEF HandleOther, Receive
  <2>10. CASE Reply(c)
    BY <2>10 DEF Reply, CanSend, Transmit
  <2>11. CASE LockRegistry(c)
    <3>1. {d \in Registered : Addressed(d, job[c])} \in SUBSET Client
      BY DEF Registered
    <3> QED
      BY <2>11, <3>1 DEF LockRegistry
  <2>12. CASE ReadSlot(c)
    <3>0. slots[cursor[c]] \in Client \cup {NoClient}
      BY <2>12 DEF ReadSlot, LastSlot
    <3>1. held' \in [Client -> Client \cup {NoClient}]
      BY <2>12, <3>0 DEF ReadSlot, LastSlot
    <3>2. cursor' = [cursor EXCEPT ![c] = @ + 1] \/ cursor' = cursor
      BY <2>12 DEF ReadSlot, LastSlot
    <3>3. pc' \in [Client -> PCs]
      <4>1. pc' = pc \/ pc' = [pc EXCEPT ![c] = "sending"]
        BY <2>12 DEF ReadSlot, LastSlot
      <4> QED
        BY <4>1
    <3>4. cursor' \in [Client -> Nat \ {0}]
      <4>1. cursor[c] + 1 \in Nat \ {0}
        OBVIOUS
      <4>2. [cursor EXCEPT ![c] = @ + 1] \in [Client -> Nat \ {0}]
        BY <4>1
      <4> QED
        BY <3>2, <4>2
    <3> QED
      BY <2>12, <3>1, <3>3, <3>4 DEF ReadSlot, LastSlot
  <2>13. CASE SendHeld(c)
    <3>1. inflight' \in [Client -> 0..SendBuffer]
      <4>1. CASE peerUp[held[c]] /\ held[c] \in Client
        <5>1. inflight[held[c]] + 1 \in 0..SendBuffer
          BY <2>13, <4>1 DEF SendHeld, SendAndAdvance, CanSend
        <5> QED
          BY <2>13, <4>1, <5>1 DEF SendHeld, SendAndAdvance, Transmit
      <4>2. CASE ~peerUp[held[c]]
        BY <2>13, <4>2 DEF SendHeld, SendAndAdvance, Transmit
      <4>3. CASE held[c] = NoClient
        <5>1. \/ inflight' = inflight
              \/ inflight' = [inflight EXCEPT ![NoClient] = @ + 1]
          BY <2>13, <4>3 DEF SendHeld, SendAndAdvance, Transmit
        <5>2. [inflight EXCEPT ![NoClient] = @ + 1] = inflight
          BY NoClientAssumption
        <5> QED
          BY <5>1, <5>2
      <4> QED
        BY <4>1, <4>2, <4>3
    <3>2. owed' \in [Client -> SUBSET Client]
      BY <2>13 DEF SendHeld, SendAndAdvance
    <3> QED
      BY <2>13, <3>1, <3>2 DEF SendHeld, SendAndAdvance
  <2>14. CASE UnlockRegistry(c)
    BY <2>14 DEF UnlockRegistry
  <2>15. CASE Disconnected(c)
    BY <2>15 DEF Disconnected
  <2>16. CASE RegistryRemove(c)
    <3>1. CASE UNCHANGED registryVars
      BY <2>16, <3>1 DEF RegistryRemove
    <3>2. CASE ~UNCHANGED registryVars
      <4>1. PICK i \in Slots : /\ slots[i] = c
                              /\ slots' = [slots EXCEPT ![i] = NoClient]
                              /\ count' = count - 1
        BY <2>16, <3>2 DEF RegistryRemove, ClearSlot
      <4>2. i \in Occupied
        BY <4>1, NoClientAssumption DEF Occupied
      <4>3. count # 0
        BY <4>2, OccupiedFinite, FS_EmptySet DEF CountInv
      <4>4. count' \in 0..MaxClients
        BY <4>1, <4>3
      <4> QED
        BY <2>16, <4>1, <4>4 DEF RegistryRemove
    <3> QED
      BY <3>1, <3>2
  <2>17. CASE CloseSocket(c)
    BY <2>17 DEF CloseSocket
  <2>18. CASE FreeClient(c)
    BY <2>18 DEF FreeClient, Forget
  <2>19. CASE PeerRead(c)
    BY <2>19 DEF PeerRead
  <2>20. CASE PeerGone(c)
    BY <2>20 DEF PeerGone
  <2>21. CASE HandleUserList(c)
    BY <2>21 DEF HandleUserList, Receive
  <2> QED
    BY <2>1, <2>2, <2>3, <2>4, <2>5, <2>6, <2>7, <2>8, <2>9, <2>10, <2>11, <2>12,
       <2>13, <2>14, <2>15, <2>16, <2>17, <2>18, <2>19, <2>20, <2>21 DEF StepOf
<1> QED
  BY <1>1, <1>2

LEMMA MutexStep == TypeOK /\ LifeInv /\ MutexInv /\ [Next]_vars => MutexInv'
<1> SUFFICES ASSUME TypeOK, LifeInv, MutexInv, [Next]_vars PROVE MutexInv'
  OBVIOUS
<1> USE NoClientAssumption, MaxClientsAssumption
<1> USE DEF registryVars, heapVars, sessionVars, peerVars, loopVars,
            TypeOK, LifeInv, MutexInv, Broadcasting, Serving, PCs
<1>1. CASE UNCHANGED vars
  BY <1>1 DEF vars
<1>2. CASE Next
  <2> PICK c \in Client : StepOf(c)
    BY <1>2, NextCases
  <2>1. CASE Accept(c)
    BY <2>1 DEF Accept
  <2>2. CASE SpawnThread(c)
    BY <2>2 DEF SpawnThread
  <2>3. CASE SpawnFails(c)
    BY <2>3 DEF SpawnFails, Forget
  <2>4. CASE RegistryAdd(c)
    BY <2>4 DEF RegistryAdd
  <2>5. CASE HandleLogin(c)
    BY <2>5 DEF HandleLogin, Receive, ForgetDebtTo
  <2>6. CASE HandleLogout(c)
    BY <2>6 DEF HandleLogout, Receive, ForgetDebtTo
  <2>7. CASE HandleJoinOrLeave(c)
    BY <2>7 DEF HandleJoinOrLeave, Receive, ForgetDebtTo
  <2>8. CASE HandleMsgSend(c)
    BY <2>8 DEF HandleMsgSend, Receive
  <2>9. CASE HandleOther(c)
    BY <2>9 DEF HandleOther, Receive
  <2>10. CASE Reply(c)
    BY <2>10 DEF Reply
  <2>11. CASE LockRegistry(c)
    BY <2>11 DEF LockRegistry
  <2>12. CASE ReadSlot(c)
    BY <2>12 DEF ReadSlot, LastSlot
  <2>13. CASE SendHeld(c)
    BY <2>13 DEF SendHeld, SendAndAdvance
  <2>14. CASE UnlockRegistry(c)
    BY <2>14 DEF UnlockRegistry
  <2>15. CASE Disconnected(c)
    BY <2>15 DEF Disconnected
  <2>16. CASE RegistryRemove(c)
    BY <2>16 DEF RegistryRemove, ClearSlot
  <2>17. CASE CloseSocket(c)
    BY <2>17 DEF CloseSocket
  <2>18. CASE FreeClient(c)
    BY <2>18 DEF FreeClient, Forget
  <2>19. CASE PeerRead(c)
    BY <2>19 DEF PeerRead
  <2>20. CASE PeerGone(c)
    BY <2>20 DEF PeerGone
  <2>21. CASE HandleUserList(c)
    BY <2>21 DEF HandleUserList, Receive
  <2> QED
    BY <2>1, <2>2, <2>3, <2>4, <2>5, <2>6, <2>7, <2>8, <2>9, <2>10, <2>11, <2>12,
       <2>13, <2>14, <2>15, <2>16, <2>17, <2>18, <2>19, <2>20, <2>21 DEF StepOf
<1> QED
  BY <1>1, <1>2

LEMMA LifeStep == TypeOK /\ LifeInv /\ [Next]_vars => LifeInv'
<1> SUFFICES ASSUME TypeOK, LifeInv, [Next]_vars PROVE LifeInv'
  OBVIOUS
<1> USE NoClientAssumption, MaxClientsAssumption
<1> USE DEF registryVars, heapVars, sessionVars, peerVars, loopVars,
            TypeOK, LifeInv, Broadcasting, Serving, PCs
<1>1. CASE UNCHANGED vars
  BY <1>1 DEF vars
<1>2. CASE Next
  <2> PICK c \in Client : StepOf(c)
    BY <1>2, NextCases
  <2>1. CASE Accept(c)
    BY <2>1 DEF Accept
  <2>2. CASE SpawnThread(c)
    BY <2>2 DEF SpawnThread
  <2>3. CASE SpawnFails(c)
    BY <2>3 DEF SpawnFails, Forget
  <2>4. CASE RegistryAdd(c)
    BY <2>4 DEF RegistryAdd
  <2>5. CASE HandleLogin(c)
    BY <2>5 DEF HandleLogin, Receive, ForgetDebtTo
  <2>6. CASE HandleLogout(c)
    BY <2>6 DEF HandleLogout, Receive, ForgetDebtTo
  <2>7. CASE HandleJoinOrLeave(c)
    BY <2>7 DEF HandleJoinOrLeave, Receive, ForgetDebtTo
  <2>8. CASE HandleMsgSend(c)
    BY <2>8 DEF HandleMsgSend, Receive
  <2>9. CASE HandleOther(c)
    BY <2>9 DEF HandleOther, Receive
  <2>10. CASE Reply(c)
    BY <2>10 DEF Reply
  <2>11. CASE LockRegistry(c)
    BY <2>11 DEF LockRegistry
  <2>12. CASE ReadSlot(c)
    BY <2>12 DEF ReadSlot, LastSlot
  <2>13. CASE SendHeld(c)
    BY <2>13 DEF SendHeld, SendAndAdvance
  <2>14. CASE UnlockRegistry(c)
    <3>1. pc[c] = "reading" /\ live' = live /\ open' = open /\ left' = left
      BY <2>14 DEF UnlockRegistry
    <3>2. CASE left[c]
      <4>1. pc' = [pc EXCEPT ![c] = "closing"]
        BY <2>14, <3>2 DEF UnlockRegistry
      <4> QED
        BY <3>1, <3>2, <4>1
    <3>3. CASE ~left[c]
      <4>1. \/ pc' = [pc EXCEPT ![c] = "replying"]
            \/ pc' = [pc EXCEPT ![c] = "serving"]
        BY <2>14, <3>3 DEF UnlockRegistry
      <4> QED
        BY <3>1, <3>3, <4>1
    <3> QED
      BY <3>2, <3>3
  <2>15. CASE Disconnected(c)
    BY <2>15 DEF Disconnected
  <2>16. CASE RegistryRemove(c)
    BY <2>16 DEF RegistryRemove, ClearSlot
  <2>17. CASE CloseSocket(c)
    BY <2>17 DEF CloseSocket
  <2>18. CASE FreeClient(c)
    BY <2>18 DEF FreeClient, Forget
  <2>19. CASE PeerRead(c)
    BY <2>19 DEF PeerRead
  <2>20. CASE PeerGone(c)
    BY <2>20 DEF PeerGone
  <2>21. CASE HandleUserList(c)
    BY <2>21 DEF HandleUserList, Receive
  <2> QED
    BY <2>1, <2>2, <2>3, <2>4, <2>5, <2>6, <2>7, <2>8, <2>9, <2>10, <2>11, <2>12,
       <2>13, <2>14, <2>15, <2>16, <2>17, <2>18, <2>19, <2>20, <2>21 DEF StepOf
<1> QED
  BY <1>1, <1>2

LEMMA SlotStep == TypeOK /\ LifeInv /\ SlotInv /\ [Next]_vars => SlotInv'
<1> SUFFICES ASSUME TypeOK, LifeInv, SlotInv, [Next]_vars PROVE SlotInv'
  OBVIOUS
<1> USE NoClientAssumption, MaxClientsAssumption
<1> USE DEF registryVars, heapVars, sessionVars, peerVars, loopVars,
            TypeOK, LifeInv, SlotInv, Broadcasting, Serving, PCs, Slots
<1>1. CASE UNCHANGED vars
  BY <1>1 DEF vars
<1>2. CASE Next
  <2> PICK c \in Client : StepOf(c)
    BY <1>2, NextCases
  <2>1. CASE Accept(c)
    BY <2>1 DEF Accept
  <2>2. CASE SpawnThread(c)
    BY <2>2 DEF SpawnThread
  <2>3. CASE SpawnFails(c)
    BY <2>3 DEF SpawnFails, Forget
  <2>4. CASE RegistryAdd(c)
    <3>1. \A j \in Slots : slots[j] # c
      BY <2>4 DEF RegistryAdd
    <3>2. CASE UNCHANGED registryVars
      BY <2>4, <3>2 DEF RegistryAdd
    <3>3. CASE ~UNCHANGED registryVars
      <4>1. PICK i \in Slots : slots[i] = NoClient /\ slots' = [slots EXCEPT ![i] = c]
        BY <2>4, <3>3 DEF RegistryAdd
      <4>2. \A j \in Slots : slots'[j] = IF j = i THEN c ELSE slots[j]
        BY <4>1
      <4>3. \A d \in Client : pc'[d] = IF d = c THEN "serving" ELSE pc[d]
        BY <2>4 DEF RegistryAdd
      <4>4. left' = left /\ ~left[c]
        BY <2>4 DEF RegistryAdd
      <4>5. ASSUME NEW j \in Slots, slots'[j] # NoClient
            PROVE  pc'[slots'[j]] \in Serving /\ ~left'[slots'[j]]
        <5>1. CASE j = i
          <6>1. slots'[j] = c
            BY <4>2, <5>1
          <6>2. pc'[c] = "serving" /\ ~left'[c]
            BY <4>3, <4>4
          <6> QED
            BY <6>1, <6>2
        <5>2. CASE j # i
          <6>1. slots'[j] = slots[j] /\ slots[j] \in Client
            BY <4>2, <4>5, <5>2
          <6>2. pc[slots[j]] \in Serving /\ ~left[slots[j]]
            BY <4>5, <6>1
          <6> QED
            BY <4>3, <4>4, <6>1, <6>2
        <5> QED
          BY <5>1, <5>2
      <4>6. ASSUME NEW j \in Slots, NEW k \in Slots,
                   slots'[j] = slots'[k], slots'[j] # NoClient
            PROVE  j = k
        BY <3>1, <4>2, <4>6, SMTT(30)
      <4> QED
        BY <4>5, <4>6
    <3> QED
      BY <3>2, <3>3
  <2>5. CASE HandleLogin(c)
    BY <2>5 DEF HandleLogin, Receive, ForgetDebtTo
  <2>6. CASE HandleLogout(c)
    BY <2>6 DEF HandleLogout, Receive, ForgetDebtTo
  <2>7. CASE HandleJoinOrLeave(c)
    BY <2>7 DEF HandleJoinOrLeave, Receive, ForgetDebtTo
  <2>8. CASE HandleMsgSend(c)
    BY <2>8 DEF HandleMsgSend, Receive
  <2>9. CASE HandleOther(c)
    BY <2>9 DEF HandleOther, Receive
  <2>10. CASE Reply(c)
    BY <2>10 DEF Reply
  <2>11. CASE LockRegistry(c)
    BY <2>11 DEF LockRegistry
  <2>12. CASE ReadSlot(c)
    BY <2>12 DEF ReadSlot, LastSlot
  <2>13. CASE SendHeld(c)
    BY <2>13 DEF SendHeld, SendAndAdvance
  <2>14. CASE UnlockRegistry(c)
    BY <2>14 DEF UnlockRegistry
  <2>15. CASE Disconnected(c)
    BY <2>15 DEF Disconnected
  <2>16. CASE RegistryRemove(c)
    <3>1. \A j \in Slots : slots'[j] = IF slots[j] = c THEN NoClient ELSE slots[j]
      <4>1. CASE \A i \in Slots : slots[i] # c
        BY <2>16, <4>1 DEF RegistryRemove, ClearSlot
      <4>2. CASE \E i \in Slots : slots[i] = c
        <5>1. PICK i \in Slots : slots[i] = c /\ slots' = [slots EXCEPT ![i] = NoClient]
          BY <2>16, <4>2 DEF RegistryRemove, ClearSlot
        <5>2. \A j \in Slots : slots[j] = c => j = i
          BY <5>1
        <5> QED
          BY <5>1, <5>2
      <4> QED
        BY <4>1, <4>2
    <3>2. \A d \in Client \ {c} : pc'[d] = pc[d] /\ left'[d] = left[d]
      BY <2>16 DEF RegistryRemove, ClearSlot
    <3>3. ASSUME NEW j \in Slots, slots'[j] # NoClient
          PROVE  pc'[slots'[j]] \in Serving /\ ~left'[slots'[j]]
      <4>1. slots'[j] = slots[j] /\ slots[j] \in Client \ {c}
        BY <3>1, <3>3
      <4>2. pc[slots[j]] \in Serving /\ ~left[slots[j]]
        BY <3>3, <4>1
      <4> QED
        BY <3>2, <4>1, <4>2
    <3>4. ASSUME NEW j \in Slots, NEW k \in Slots,
                 slots'[j] = slots'[k], slots'[j] # NoClient
          PROVE  j = k
      BY <3>1, <3>4
    <3> QED
      BY <3>3, <3>4
  <2>17. CASE CloseSocket(c)
    BY <2>17 DEF CloseSocket
  <2>18. CASE FreeClient(c)
    BY <2>18 DEF FreeClient, Forget
  <2>19. CASE PeerRead(c)
    BY <2>19 DEF PeerRead
  <2>20. CASE PeerGone(c)
    BY <2>20 DEF PeerGone
  <2>21. CASE HandleUserList(c)
    BY <2>21 DEF HandleUserList, Receive
  <2> QED
    BY <2>1, <2>2, <2>3, <2>4, <2>5, <2>6, <2>7, <2>8, <2>9, <2>10, <2>11, <2>12,
       <2>13, <2>14, <2>15, <2>16, <2>17, <2>18, <2>19, <2>20, <2>21 DEF StepOf
<1> QED
  BY <1>1, <1>2

LEMMA HeldStep == TypeOK /\ LifeInv /\ MutexInv /\ HeldInv /\ [Next]_vars => HeldInv'
<1> SUFFICES ASSUME TypeOK, LifeInv, MutexInv, HeldInv, [Next]_vars PROVE HeldInv'
  OBVIOUS
<1> USE NoClientAssumption, MaxClientsAssumption
<1> USE DEF registryVars, heapVars, sessionVars, peerVars, loopVars,
            TypeOK, LifeInv, MutexInv, HeldInv, Broadcasting, Serving, PCs, Slots
<1>1. CASE UNCHANGED vars
  BY <1>1 DEF vars
<1>2. CASE Next
  <2> PICK c \in Client : StepOf(c)
    BY <1>2, NextCases
  <2>1. CASE Accept(c)
    BY <2>1 DEF Accept
  <2>2. CASE SpawnThread(c)
    BY <2>2 DEF SpawnThread
  <2>3. CASE SpawnFails(c)
    BY <2>3 DEF SpawnFails, Forget
  <2>4. CASE RegistryAdd(c)
    BY <2>4 DEF RegistryAdd
  <2>5. CASE HandleLogin(c)
    BY <2>5 DEF HandleLogin, Receive, ForgetDebtTo
  <2>6. CASE HandleLogout(c)
    BY <2>6 DEF HandleLogout, Receive, ForgetDebtTo
  <2>7. CASE HandleJoinOrLeave(c)
    BY <2>7 DEF HandleJoinOrLeave, Receive, ForgetDebtTo
  <2>8. CASE HandleMsgSend(c)
    BY <2>8 DEF HandleMsgSend, Receive
  <2>9. CASE HandleOther(c)
    BY <2>9 DEF HandleOther, Receive
  <2>10. CASE Reply(c)
    BY <2>10 DEF Reply
  <2>11. CASE LockRegistry(c)
    BY <2>11 DEF LockRegistry
  <2>12. CASE ReadSlot(c)
    <3>1. slots' = slots /\ cursor[c] \in Slots
      BY <2>12 DEF ReadSlot, LastSlot
    <3>2. \A t \in Client \ {c} :
            pc'[t] = pc[t] /\ cursor'[t] = cursor[t] /\ held'[t] = held[t]
      BY <2>12 DEF ReadSlot, LastSlot
    <3>3. CASE slots[cursor[c]] # NoClient /\ Addressed(slots[cursor[c]], job[c])
      BY <2>12, <3>1, <3>2, <3>3 DEF ReadSlot, LastSlot
    <3>4. CASE ~(slots[cursor[c]] # NoClient /\ Addressed(slots[cursor[c]], job[c]))
      BY <2>12, <3>1, <3>2, <3>4 DEF ReadSlot, LastSlot
    <3> QED
      BY <3>3, <3>4
  <2>13. CASE SendHeld(c)
    BY <2>13 DEF SendHeld, SendAndAdvance
  <2>14. CASE UnlockRegistry(c)
    BY <2>14 DEF UnlockRegistry
  <2>15. CASE Disconnected(c)
    BY <2>15 DEF Disconnected
  <2>16. CASE RegistryRemove(c)
    BY <2>16 DEF RegistryRemove, ClearSlot
  <2>17. CASE CloseSocket(c)
    BY <2>17 DEF CloseSocket
  <2>18. CASE FreeClient(c)
    BY <2>18 DEF FreeClient, Forget
  <2>19. CASE PeerRead(c)
    BY <2>19 DEF PeerRead
  <2>20. CASE PeerGone(c)
    BY <2>20 DEF PeerGone
  <2>21. CASE HandleUserList(c)
    BY <2>21 DEF HandleUserList, Receive
  <2> QED
    BY <2>1, <2>2, <2>3, <2>4, <2>5, <2>6, <2>7, <2>8, <2>9, <2>10, <2>11, <2>12,
       <2>13, <2>14, <2>15, <2>16, <2>17, <2>18, <2>19, <2>20, <2>21 DEF StepOf
<1> QED
  BY <1>1, <1>2

-----------------------------------------------------------------------------
(* Every access to the table that changes it is one of these two.          *)
LEMMA TableWriters ==
  ASSUME [Next]_vars
  PROVE  \/ \E c \in Client : RegistryAdd(c) \/ RegistryRemove(c)
         \/ UNCHANGED registryVars
<1> USE DEF registryVars
<1>1. CASE UNCHANGED vars
  BY <1>1 DEF vars
<1>2. CASE Next
  <2> PICK c \in Client : StepOf(c)
    BY <1>2, NextCases
  <2> QED
    BY DEF StepOf, Receive, Accept, SpawnThread, SpawnFails, HandleLogin,
           HandleLogout, HandleJoinOrLeave, HandleMsgSend, HandleUserList,
           HandleOther, Reply, LockRegistry, ReadSlot, SendHeld, SendAndAdvance, UnlockRegistry,
           Disconnected, CloseSocket, FreeClient, PeerRead, PeerGone
<1> QED
  BY <1>1, <1>2

(* count follows the occupied slots: the slot registry_add fills was free, *)
(* the one registry_remove clears was not, and SlotInv lets it clear only  *)
(* one.                                                                    *)
LEMMA CountStep == TypeOK /\ SlotInv /\ CountInv /\ [Next]_vars => CountInv'
<1> SUFFICES ASSUME TypeOK, SlotInv, CountInv, [Next]_vars PROVE CountInv'
  OBVIOUS
<1> USE NoClientAssumption
<1>1. CASE UNCHANGED registryVars
  BY <1>1 DEF CountInv, Occupied, registryVars
<1>2. ASSUME NEW c \in Client, RegistryAdd(c), ~UNCHANGED registryVars
      PROVE  CountInv'
  <2>1. PICK i \in Slots : /\ slots[i] = NoClient
                           /\ slots' = [slots EXCEPT ![i] = c]
                           /\ count' = count + 1
    BY <1>2 DEF RegistryAdd, registryVars
  <2>2. Occupied' = Occupied \cup {i} /\ i \notin Occupied
    BY <2>1 DEF Occupied, TypeOK
  <2> QED
    BY <2>1, <2>2, OccupiedFinite, FS_AddElement DEF CountInv
<1>3. ASSUME NEW c \in Client, RegistryRemove(c), ~UNCHANGED registryVars
      PROVE  CountInv'
  <2>1. PICK i \in Slots : /\ slots[i] = c
                           /\ slots' = [slots EXCEPT ![i] = NoClient]
                           /\ count' = count - 1
    BY <1>3 DEF RegistryRemove, ClearSlot, registryVars
  <2>2. Occupied' = Occupied \ {i} /\ i \in Occupied
    BY <2>1 DEF Occupied, TypeOK
  <2> QED
    BY <2>1, <2>2, OccupiedFinite, FS_RemoveElement DEF CountInv
<1> QED
  BY <1>1, <1>2, <1>3, TableWriters

(* A client outside the table is owed nothing.                             *)
LEMMA OutsiderNotOwed ==
  ASSUME SlotInv, OwedInv, NEW c \in Client, pc[c] \in {"none", "made"}
  PROVE  \A t \in Client : c \notin owed[t]
<1>1. \A i \in Slots : slots[i] # c
  <2>1. c # NoClient
    BY NoClientAssumption
  <2>2. pc[c] \notin Serving
    BY DEF Serving, Broadcasting
  <2> QED
    BY <2>1, <2>2 DEF SlotInv
<1> QED
  BY <1>1 DEF OwedInv, OwedOf

(* What a thread owes stays in order when the table, its own loop and the  *)
(* sessions of those it owes do not change.                                *)
LEMMA OwedFrame ==
  ASSUME NEW t \in Client, OwedOf(t), slots' = slots, job'[t] = job[t],
         pc[t] \in Broadcasting => pc'[t] \in Broadcasting,
         cursor'[t] = cursor[t], owed'[t] \subseteq owed[t],
         \A d \in owed[t] : auth'[d] = auth[d] /\ channel'[d] = channel[d]
  PROVE  OwedOf(t)'
BY DEF OwedOf, Addressed

LEMMA OwedStep ==
  TypeOK /\ LifeInv /\ MutexInv /\ SlotInv /\ HeldInv /\ OwedInv /\ [Next]_vars => OwedInv'
<1> SUFFICES ASSUME TypeOK, LifeInv, MutexInv, SlotInv, HeldInv, OwedInv, [Next]_vars
             PROVE  OwedInv'
  OBVIOUS
<1> USE NoClientAssumption, MaxClientsAssumption
<1> USE DEF registryVars, heapVars, sessionVars, peerVars, loopVars,
            TypeOK, LifeInv, MutexInv, SlotInv, HeldInv, OwedInv, OwedOf,
            Addressed, Broadcasting, Serving, PCs, Slots
<1>1. CASE UNCHANGED vars
  BY <1>1 DEF vars
<1>2. CASE Next
  <2> PICK c \in Client : StepOf(c)
    BY <1>2, NextCases
  <2>1. CASE Accept(c)
    <3>1. pc[c] \in {"none", "made"}
      BY <2>1 DEF Accept
    <3>2. \A t \in Client : c \notin owed[t]
      BY <3>1, OutsiderNotOwed
    <3>3. /\ \A t \in Client : pc[t] \in Broadcasting => pc'[t] \in Broadcasting
          /\ slots' = slots /\ owed' = owed /\ job' = job /\ cursor' = cursor
      BY <2>1 DEF Accept
    <3>4. \A d \in Client \ {c} : auth'[d] = auth[d] /\ channel'[d] = channel[d]
      BY <2>1 DEF Accept
    <3>5. ASSUME NEW t \in Client PROVE OwedOf(t)'
      <4>1. OwedOf(t) /\ owed[t] \subseteq Client \ {c}
        BY <3>2 DEF OwedInv
      <4> HIDE DEF OwedOf, Broadcasting
      <4> QED
        BY <3>3, <3>4, <4>1, OwedFrame
    <3> QED
      BY <3>5 DEF OwedInv
  <2>2. CASE SpawnThread(c)
    BY <2>2 DEF SpawnThread
  <2>3. CASE SpawnFails(c)
    <3>1. pc[c] \in {"none", "made"}
      BY <2>3 DEF SpawnFails, Forget
    <3>2. \A t \in Client : c \notin owed[t]
      BY <3>1, OutsiderNotOwed
    <3>3. /\ \A t \in Client : pc[t] \in Broadcasting => pc'[t] \in Broadcasting
          /\ slots' = slots /\ owed' = owed /\ job' = job /\ cursor' = cursor
      BY <2>3 DEF SpawnFails, Forget
    <3>4. \A d \in Client \ {c} : auth'[d] = auth[d] /\ channel'[d] = channel[d]
      BY <2>3 DEF SpawnFails, Forget
    <3>5. ASSUME NEW t \in Client PROVE OwedOf(t)'
      <4>1. OwedOf(t) /\ owed[t] \subseteq Client \ {c}
        BY <3>2 DEF OwedInv
      <4> HIDE DEF OwedOf, Broadcasting
      <4> QED
        BY <3>3, <3>4, <4>1, OwedFrame
    <3> QED
      BY <3>5 DEF OwedInv
  <2>4. CASE RegistryAdd(c)
    BY <2>4 DEF RegistryAdd
  <2>5. CASE HandleLogin(c)
    BY <2>5 DEF HandleLogin, Receive, ForgetDebtTo
  <2>6. CASE HandleLogout(c)
    BY <2>6 DEF HandleLogout, Receive, ForgetDebtTo
  <2>7. CASE HandleJoinOrLeave(c)
    BY <2>7 DEF HandleJoinOrLeave, Receive, ForgetDebtTo
  <2>8. CASE HandleMsgSend(c)
    BY <2>8 DEF HandleMsgSend, Receive
  <2>9. CASE HandleOther(c)
    BY <2>9 DEF HandleOther, Receive
  <2>10. CASE Reply(c)
    BY <2>10 DEF Reply
  <2>11. CASE LockRegistry(c)
    <3>1. /\ slots' = slots /\ job' = job /\ auth' = auth /\ channel' = channel
          /\ cursor'[c] = 1 /\ owed'[c] = {d \in Registered : Addressed(d, job[c])}
          /\ pc'[c] \in Broadcasting
      BY <2>11 DEF LockRegistry
    <3>2. OwedOf(c)'
      BY <3>1 DEF OwedOf, Registered, Addressed, Slots
    <3>3. ASSUME NEW t \in Client \ {c} PROVE OwedOf(t)'
      <4>1. pc'[t] = pc[t] /\ cursor'[t] = cursor[t] /\ owed'[t] = owed[t]
        BY <2>11 DEF LockRegistry
      <4>2. OwedOf(t)
        BY DEF OwedInv
      <4> HIDE DEF OwedOf, Broadcasting
      <4> QED
        BY <3>1, <4>1, <4>2, OwedFrame
    <3> HIDE DEF OwedOf
    <3> QED
      BY <3>2, <3>3 DEF OwedInv
  <2>12. CASE ReadSlot(c)
    <3>1. /\ slots' = slots /\ job' = job /\ auth' = auth /\ channel' = channel
          /\ owed' = owed /\ pc[c] \in Broadcasting /\ pc'[c] \in Broadcasting
          /\ cursor[c] \in Slots
      BY <2>12 DEF ReadSlot, LastSlot
    <3>2. ASSUME NEW d \in owed[c]
          PROVE  \E i \in Slots : i >= cursor'[c] /\ slots[i] = d
      <4>1. PICK i \in Slots : i >= cursor[c] /\ slots[i] = d
        BY <3>1 DEF OwedInv, OwedOf
      <4>2. CASE i = cursor[c]
        <5>1. d # NoClient /\ Addressed(d, job[c])
          BY <3>1 DEF OwedInv, OwedOf
        <5>2. cursor' = cursor
          BY <2>12, <4>1, <4>2, <5>1 DEF ReadSlot, LastSlot
        <5> QED
          BY <4>1, <5>2
      <4>3. CASE i > cursor[c]
        <5>1. cursor'[c] \in {cursor[c], cursor[c] + 1}
          BY <2>12 DEF ReadSlot, LastSlot
        <5> QED
          BY <4>1, <4>3, <5>1
      <4> QED
        BY <4>1, <4>2, <4>3
    <3>3. OwedOf(c)'
      <4>1. \A d \in owed[c] : Addressed(d, job[c])
        BY DEF OwedInv, OwedOf
      <4> QED
        BY <3>1, <3>2, <4>1 DEF OwedOf, Addressed
    <3>4. ASSUME NEW t \in Client \ {c} PROVE OwedOf(t)'
      <4>1. pc'[t] = pc[t] /\ cursor'[t] = cursor[t]
        BY <2>12 DEF ReadSlot, LastSlot
      <4>2. OwedOf(t)
        BY DEF OwedInv
      <4> HIDE DEF OwedOf, Broadcasting
      <4> QED
        BY <3>1, <4>1, <4>2, OwedFrame
    <3> HIDE DEF OwedOf
    <3> QED
      BY <3>3, <3>4 DEF OwedInv
  <2>13. CASE SendHeld(c)
    BY <2>13 DEF SendHeld, SendAndAdvance
  <2>14. CASE UnlockRegistry(c)
    BY <2>14 DEF UnlockRegistry
  <2>15. CASE Disconnected(c)
    BY <2>15 DEF Disconnected
  <2>16. CASE RegistryRemove(c)
    BY <2>16 DEF RegistryRemove, ClearSlot
  <2>17. CASE CloseSocket(c)
    BY <2>17 DEF CloseSocket
  <2>18. CASE FreeClient(c)
    BY <2>18 DEF FreeClient, Forget
  <2>19. CASE PeerRead(c)
    BY <2>19 DEF PeerRead
  <2>20. CASE PeerGone(c)
    BY <2>20 DEF PeerGone
  <2>21. CASE HandleUserList(c)
    BY <2>21 DEF HandleUserList, Receive
  <2> QED
    BY <2>1, <2>2, <2>3, <2>4, <2>5, <2>6, <2>7, <2>8, <2>9, <2>10, <2>11, <2>12,
       <2>13, <2>14, <2>15, <2>16, <2>17, <2>18, <2>19, <2>20, <2>21 DEF StepOf
<1> QED
  BY <1>1, <1>2

-----------------------------------------------------------------------------
(* The inductive invariant, from its parts.                                *)
LEMMA InitInv == Init => IInv
<1> SUFFICES ASSUME Init PROVE IInv
  OBVIOUS
<1> USE DEF Init
<1>1. TypeOK
  BY TypeInit
<1>2. MutexInv
  BY NoClientAssumption DEF MutexInv, Broadcasting
<1>3. LifeInv
  BY DEF LifeInv, Broadcasting
<1>4. SlotInv
  BY DEF SlotInv
<1>5. CountInv
  BY FS_EmptySet DEF CountInv, Occupied
<1>6. HeldInv /\ OwedInv
  BY DEF HeldInv, OwedInv, OwedOf
<1> QED
  BY <1>1, <1>2, <1>3, <1>4, <1>5, <1>6 DEF IInv

LEMMA StepInv == IInv /\ [Next]_vars => IInv'
BY TypeStep, MutexStep, LifeStep, SlotStep, CountStep, HeldStep, OwedStep DEF IInv

LEMMA Invariance == Spec => []IInv
BY InitInv, StepInv, PTL DEF Spec

(* Every variable keeps its type, whatever the threads and peers do: the   *)
(* count of the table stays within 0 and MAX_CLIENTS.                      *)
THEOREM TypeCorrect == Spec => []TypeOK
<1>1. IInv => TypeOK
  BY DEF IInv
<1> QED
  BY <1>1, Invariance, PTL

(* No broadcast ever touches a ClientInfo that has been freed or a socket  *)
(* that has been closed: the pointer it holds is in the table (HeldInv),   *)
(* and whoever is in the table is being served (SlotInv, LifeInv).         *)
THEOREM MemorySafety == Spec => []NoUseAfterFree
<1>1. IInv => NoUseAfterFree
  <2> SUFFICES ASSUME IInv, NEW t \in Client
               PROVE  /\ held[t] # NoClient => live[held[t]] /\ open[held[t]]
                      /\ pc[t] = "reading" /\ cursor[t] \in Slots
                           /\ slots[cursor[t]] # NoClient
                         => live[slots[cursor[t]]]
    BY DEF NoUseAfterFree
  <2>1. ASSUME held[t] # NoClient PROVE live[held[t]] /\ open[held[t]]
    <3>1. pc[t] = "sending" /\ cursor[t] \in Slots /\ held[t] = slots[cursor[t]]
      BY <2>1 DEF IInv, HeldInv
    <3>2. held[t] \in Client /\ pc[held[t]] \in Serving
      BY <2>1, <3>1 DEF IInv, TypeOK, SlotInv
    <3> QED
      BY <3>2 DEF IInv, LifeInv, Serving, Broadcasting
  <2>2. ASSUME cursor[t] \in Slots, slots[cursor[t]] # NoClient
        PROVE  live[slots[cursor[t]]]
    <3>1. slots[cursor[t]] \in Client /\ pc[slots[cursor[t]]] \in Serving
      BY <2>2 DEF IInv, TypeOK, SlotInv
    <3> QED
      BY <3>1 DEF IInv, LifeInv, Serving, Broadcasting
  <2> QED
    BY <2>1, <2>2
<1> QED
  BY <1>1, Invariance, PTL

(* The count registry_add tests is the number of occupied slots, and no    *)
(* connection occupies two.                                                *)
THEOREM ConsistentTable == Spec => []RegistryConsistent
<1>1. IInv => RegistryConsistent
  BY DEF IInv, RegistryConsistent, SlotInv, CountInv, Occupied
<1> QED
  BY <1>1, Invariance, PTL

(* A broadcast that is done with the table has served everyone it had to.  *)
THEOREM CompleteBroadcast == Spec => []BroadcastComplete
<1>1. IInv => BroadcastComplete
  <2> SUFFICES ASSUME IInv, NEW t \in Client, cursor[t] > LastSlot, NEW d \in owed[t]
               PROVE  FALSE
    BY DEF BroadcastComplete
  <2>1. PICK i \in Slots : i >= cursor[t]
    BY DEF IInv, OwedInv, OwedOf
  <2> QED
    BY <2>1, MaxClientsAssumption DEF Slots, LastSlot, IInv, TypeOK
<1> QED
  BY <1>1, Invariance, PTL

-----------------------------------------------------------------------------
(* With no more connections than slots, registry_add finds a free one: the *)
(* occupied slots hold distinct connections other than the one being added.*)
LEMMA RoomForAll ==
  ASSUME IsFiniteSet(Client), Cardinality(Client) <= MaxClients,
         IInv, NEW c \in Client, pc[c] = "started"
  PROVE  count < MaxClients /\ \E i \in Slots : slots[i] = NoClient
<1> DEFINE f == [i \in Occupied |-> slots[i]]
<1>1. \A i \in Occupied : slots[i] \in Client \ {c}
  BY DEF Occupied, IInv, TypeOK, SlotInv, Serving, Broadcasting
<1>2. \A i, j \in Occupied : slots[i] = slots[j] => i = j
  BY DEF Occupied, IInv, SlotInv
<1>3. f \in Injection(Occupied, Client \ {c})
  BY <1>1, <1>2 DEF Injection, IsInjective
<1>4. IsFiniteSet(Client \ {c}) /\ Cardinality(Client \ {c}) = Cardinality(Client) - 1
  BY FS_RemoveElement
<1>5. Cardinality(Occupied) <= Cardinality(Client \ {c})
  BY <1>3, <1>4, FS_Injection
<1>6. Cardinality(Client) \in Nat /\ Cardinality(Occupied) \in Nat
  BY FS_CardinalityType, OccupiedFinite
<1>7. Cardinality(Occupied) < MaxClients
  BY <1>4, <1>5, <1>6, MaxClientsAssumption
<1>8. Cardinality(Slots) = MaxClients
  BY FS_Interval, MaxClientsAssumption DEF Slots
<1>9. Occupied # Slots
  BY <1>6, <1>7, <1>8, MaxClientsAssumption
<1> QED
  BY <1>7, <1>9 DEF Occupied, IInv, CountInv

LEMMA ServedStep ==
  ASSUME IsFiniteSet(Client), Cardinality(Client) <= MaxClients
  PROVE  IInv /\ ServedAreRegistered /\ [Next]_vars => ServedAreRegistered'
<1> SUFFICES ASSUME IInv, ServedAreRegistered, [Next]_vars PROVE ServedAreRegistered'
  OBVIOUS
<1>0. TypeOK /\ LifeInv
  BY DEF IInv
<1> USE <1>0, NoClientAssumption
<1> USE DEF registryVars, heapVars, sessionVars, peerVars, loopVars,
            TypeOK, LifeInv, ServedAreRegistered, Registered, Broadcasting,
            Serving, PCs
<1>1. CASE UNCHANGED vars
  BY <1>1 DEF vars
<1>2. CASE Next
  <2> PICK c \in Client : StepOf(c)
    BY <1>2, NextCases
  <2>1. CASE Accept(c)
    BY <2>1 DEF Accept
  <2>2. CASE SpawnThread(c)
    BY <2>2 DEF SpawnThread
  <2>3. CASE SpawnFails(c)
    BY <2>3 DEF SpawnFails, Forget
  <2>4. CASE RegistryAdd(c)
    <3>1. count < MaxClients /\ \E i \in Slots : slots[i] = NoClient
      BY <2>4, RoomForAll DEF RegistryAdd
    <3>2. PICK i \in Slots : slots[i] = NoClient /\ slots' = [slots EXCEPT ![i] = c]
      <4>1. ~(count >= MaxClients \/ \A i \in Slots : slots[i] # NoClient)
        BY <3>1, MaxClientsAssumption
      <4> QED
        BY <2>4, <4>1 DEF RegistryAdd
    <3>3. \A j \in Slots : slots'[j] = IF j = i THEN c ELSE slots[j]
      BY <3>2
    <3>4. Registered \cup {c} \subseteq Registered'
      BY <3>2, <3>3 DEF Registered
    <3>5. left' = left /\ \A d \in Client \ {c} : pc'[d] = pc[d]
      BY <2>4 DEF RegistryAdd
    <3> QED
      BY <3>4, <3>5
  <2>5. CASE HandleLogin(c)
    BY <2>5 DEF HandleLogin, Receive, ForgetDebtTo
  <2>6. CASE HandleLogout(c)
    BY <2>6 DEF HandleLogout, Receive, ForgetDebtTo
  <2>7. CASE HandleJoinOrLeave(c)
    BY <2>7 DEF HandleJoinOrLeave, Receive, ForgetDebtTo
  <2>8. CASE HandleMsgSend(c)
    BY <2>8 DEF HandleMsgSend, Receive
  <2>9. CASE HandleOther(c)
    BY <2>9 DEF HandleOther, Receive
  <2>10. CASE Reply(c)
    BY <2>10 DEF Reply
  <2>11. CASE LockRegistry(c)
    BY <2>11 DEF LockRegistry
  <2>12. CASE ReadSlot(c)
    BY <2>12 DEF ReadSlot, LastSlot
  <2>13. CASE SendHeld(c)
    BY <2>13 DEF SendHeld, SendAndAdvance
  <2>14. CASE UnlockRegistry(c)
    BY <2>14 DEF UnlockRegistry
  <2>15. CASE Disconnected(c)
    BY <2>15 DEF Disconnected
  <2>16. CASE RegistryRemove(c)
    <3>1. left'[c] /\ \A d \in Client \ {c} : pc'[d] = pc[d] /\ left'[d] = left[d]
      BY <2>16 DEF RegistryRemove, ClearSlot
    <3>2. Registered \ {c} \subseteq Registered'
      <4>1. CASE UNCHANGED registryVars
        BY <4>1 DEF Registered
      <4>2. CASE ~UNCHANGED registryVars
        <5>1. PICK i \in Slots : slots[i] = c /\ slots' = [slots EXCEPT ![i] = NoClient]
          BY <2>16, <4>2 DEF RegistryRemove, ClearSlot
        <5> QED
          BY <5>1 DEF Registered
      <4> QED
        BY <4>1, <4>2
    <3> QED
      BY <3>1, <3>2
  <2>17. CASE CloseSocket(c)
    BY <2>17 DEF CloseSocket
  <2>18. CASE FreeClient(c)
    BY <2>18 DEF FreeClient, Forget
  <2>19. CASE PeerRead(c)
    BY <2>19 DEF PeerRead
  <2>20. CASE PeerGone(c)
    BY <2>20 DEF PeerGone
  <2>21. CASE HandleUserList(c)
    BY <2>21 DEF HandleUserList, Receive
  <2> QED
    BY <2>1, <2>2, <2>3, <2>4, <2>5, <2>6, <2>7, <2>8, <2>9, <2>10, <2>11, <2>12,
       <2>13, <2>14, <2>15, <2>16, <2>17, <2>18, <2>19, <2>20, <2>21 DEF StepOf
<1> QED
  BY <1>1, <1>2

(* As long as no more than MAX_CLIENTS connections exist at a time, every  *)
(* connection that is served is in the registry.  Beyond that, one need not*)
(* be: client_thread ignores the -1 of registry_add (server.c:259).        *)
THEOREM EnoughSlots ==
  ASSUME IsFiniteSet(Client), Cardinality(Client) <= MaxClients
  PROVE  Spec => []ServedAreRegistered
<1>1. Init => ServedAreRegistered
  BY DEF Init, ServedAreRegistered, Serving, Broadcasting
<1> QED
  BY <1>1, ServedStep, Invariance, PTL DEF Spec
=============================================================================
