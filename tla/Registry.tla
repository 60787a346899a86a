------------------------------ MODULE Registry ------------------------------
(***************************************************************************)
(* The server's connection registry (server/src/server.c): one thread per  *)
(* connection, a table of MAX_CLIENTS pointers to ClientInfo guarded by    *)
(* one mutex, and broadcasts that walk the table with the mutex held and   *)
(* call the blocking send() on every client they address.                  *)
(*                                                                         *)
(* A Client is an address malloc() can return for a ClientInfo; once freed *)
(* it can be returned again for the next connection, so pointers are       *)
(* reused as in the program.  It also names the thread that serves that    *)
(* connection, which allocates nothing else that is shared.                *)
(***************************************************************************)
EXTENDS Integers, FiniteSets

CONSTANTS Client,       \* addresses of ClientInfo blocks (and their threads)
          Channel,      \* channel ids
          NoChannel,    \* channel_id == -1
          NoClient,     \* the NULL pointer; a free mutex
          Roster,       \* the addressees of broadcast_user_list
          RosterFirst,  \* likewise, of a handler that replies behind it
          NoJob,        \* a thread with nothing to broadcast
          MaxClients,   \* MAX_CLIENTS
          SendBuffer    \* packets the kernel buffers before send() blocks

ASSUME MaxClientsAssumption == MaxClients \in Nat \ {0}
ASSUME SendBufferAssumption == SendBuffer \in Nat \ {0}
ASSUME NoClientAssumption == NoClient \notin Client
ASSUME ChannelAssumption == /\ NoChannel \notin Channel
                            /\ {Roster, RosterFirst, NoJob}
                                 \cap (Channel \cup {NoChannel}) = {}
                            /\ NoJob \notin {Roster, RosterFirst}
                            /\ Roster # RosterFirst

VARIABLES
  slots,     \* reg->clients
  count,     \* reg->count
  mutex,     \* the thread holding reg->mutex, or NoClient
  pc,        \* where each connection thread is
  live,      \* the ClientInfo block is allocated
  open,      \* client->sock is open on the server's side
  auth,      \* client->user_id # -1
  channel,   \* client->channel_id
  left,      \* registry_remove has been called by this thread
  job,       \* what the thread must broadcast: a channel, a roster, NoJob
  cursor,    \* the loop variable i of the thread's broadcast
  held,      \* the pointer c the broadcast loop has read from slot i
  peerUp,    \* the client program has not closed its end
  inflight,  \* packets sent to the peer that it has not read
  owed       \* history: addressees since the lock was taken, still unserved

vars == <<slots, count, mutex, pc, live, open, auth, channel, left, job,
          cursor, held, peerUp, inflight, owed>>

registryVars == <<slots, count>>
sessionVars  == <<auth, channel>>
heapVars     == <<live, open>>
peerVars     == <<peerUp, inflight>>
loopVars     == <<cursor, held>>

Slots == 1..MaxClients

Registered == {slots[i] : i \in Slots} \ {NoClient}

(* The bound of the broadcast loops: they visit every slot, holes included *)
(* (the mutant stops at the number of clients instead).                    *)
LastSlot_Count == count
LastSlot == MaxClients

(* A thread inside WaitForSingleObject .. ReleaseMutex of a broadcast.     *)
Broadcasting == {"reading", "sending"}

(* Where a thread may be while its ClientInfo is in the table.             *)
Serving == {"serving", "replying", "locking", "removing"} \cup Broadcasting

PCs == {"none", "made", "started", "closing", "freeing"} \cup Serving

(* The tests of the two broadcast loops: c->channel_id == channel_id in    *)
(* broadcast_to_channel, c->user_id != -1 in broadcast_user_list.          *)
Addressed(d, j) == IF j \in {Roster, RosterFirst} THEN auth[d] ELSE channel[d] = j

(* send() returns at once when the kernel has room, or with an error when  *)
(* the peer is gone; otherwise it blocks.                                  *)
CanSend(d) == ~peerUp[d] \/ inflight[d] < SendBuffer

Transmit(d) == inflight' = IF peerUp[d] THEN [inflight EXCEPT ![d] = @ + 1]
                                        ELSE inflight

TypeOK ==
  /\ slots \in [Slots -> Client \cup {NoClient}]
  /\ count \in 0..MaxClients
  /\ mutex \in Client \cup {NoClient}
  /\ pc \in [Client -> PCs]
  /\ live \in [Client -> BOOLEAN]
  /\ open \in [Client -> BOOLEAN]
  /\ auth \in [Client -> BOOLEAN]
  /\ channel \in [Client -> Channel \cup {NoChannel}]
  /\ left \in [Client -> BOOLEAN]
  /\ job \in [Client -> Channel \cup {Roster, RosterFirst, NoJob}]
  /\ cursor \in [Client -> Nat \ {0}]
  /\ held \in [Client -> Client \cup {NoClient}]
  /\ peerUp \in [Client -> BOOLEAN]
  /\ inflight \in [Client -> 0..SendBuffer]
  /\ owed \in [Client -> SUBSET Client]

-----------------------------------------------------------------------------
(* registry_init clears the table; no connection exists yet.               *)
Init ==
  /\ slots = [i \in Slots |-> NoClient]
  /\ count = 0
  /\ mutex = NoClient
  /\ pc = [c \in Client |-> "none"]
  /\ live = [c \in Client |-> FALSE]
  /\ open = [c \in Client |-> FALSE]
  /\ auth = [c \in Client |-> FALSE]
  /\ channel = [c \in Client |-> NoChannel]
  /\ left = [c \in Client |-> FALSE]
  /\ job = [c \in Client |-> NoJob]
  /\ cursor = [c \in Client |-> 1]
  /\ held = [c \in Client |-> NoClient]
  /\ peerUp = [c \in Client |-> FALSE]
  /\ inflight = [c \in Client |-> 0]
  /\ owed = [c \in Client |-> {}]

-----------------------------------------------------------------------------
(* The accept loop.                                                        *)

(* accept() and make_client: malloc returns an unused block, the session   *)
(* starts unauthenticated and in no channel.  One accept loop, so one      *)
(* connection at a time is between accept and CreateThread.                *)
Accept(c) ==
  /\ \A d \in Client : pc[d] # "made"
  /\ ~live[c]
  /\ pc' = [pc EXCEPT ![c] = "made"]
  /\ live' = [live EXCEPT ![c] = TRUE]
  /\ open' = [open EXCEPT ![c] = TRUE]
  /\ auth' = [auth EXCEPT ![c] = FALSE]
  /\ channel' = [channel EXCEPT ![c] = NoChannel]
  /\ peerUp' = [peerUp EXCEPT ![c] = TRUE]
  /\ inflight' = [inflight EXCEPT ![c] = 0]
  /\ UNCHANGED <<registryVars, mutex, left, job, loopVars, owed>>

(* The block is freed: nothing it held can be read any more, and what the  *)
(* peer does no longer concerns the server.                                *)
Forget(c) ==
  /\ live' = [live EXCEPT ![c] = FALSE]
  /\ auth' = [auth EXCEPT ![c] = FALSE]
  /\ channel' = [channel EXCEPT ![c] = NoChannel]
  /\ peerUp' = [peerUp EXCEPT ![c] = FALSE]
  /\ inflight' = [inflight EXCEPT ![c] = 0]
  /\ pc' = [pc EXCEPT ![c] = "none"]

SpawnThread(c) ==
  /\ pc[c] = "made"
  /\ pc' = [pc EXCEPT ![c] = "started"]
  /\ UNCHANGED <<registryVars, mutex, heapVars, sessionVars, left, job, loopVars,
                 peerVars, owed>>

(* spawn_client_thread returned -1: server_run closes and frees.           *)
SpawnFails(c) ==
  /\ pc[c] = "made"
  /\ open' = [open EXCEPT ![c] = FALSE]
  /\ Forget(c)
  /\ UNCHANGED <<registryVars, mutex, left, job, loopVars, owed>>

-----------------------------------------------------------------------------
(* The connection thread.                                                  *)

(* registry_add: the first free slot, if count says there is one.  The     *)
(* caller ignores the -1 of a full registry and serves the client anyway.  *)
RegistryAdd(c) ==
  /\ pc[c] = "started"
  /\ mutex = NoClient
  /\ pc' = [pc EXCEPT ![c] = "serving"]
  /\ \/ /\ count < MaxClients
        /\ \E i \in Slots :
             /\ slots[i] = NoClient
             /\ \A j \in 1..(i - 1) : slots[j] # NoClient
             /\ slots' = [slots EXCEPT ![i] = c]
        /\ count' = count + 1
     \/ /\ \/ count >= MaxClients
           \/ \A i \in Slots : slots[i] # NoClient
        /\ UNCHANGED registryVars
  /\ UNCHANGED <<mutex, heapVars, sessionVars, left, job, loopVars, peerVars, owed>>

(* A session field of c changed under a broadcast that may be running: c   *)
(* is no longer a steady addressee of it.                                  *)
ForgetDebtTo(c) == owed' = [t \in Client |-> owed[t] \ {c}]

(* recv() delivered a request and client_handler_dispatch ran its handler  *)
(* up to its first send: what it does to the fields a broadcast reads, and *)
(* what it will reply and broadcast.  Requests may still be buffered when  *)
(* the peer is gone.                                                       *)
Receive(c) ==
  /\ pc[c] = "serving"
  /\ UNCHANGED <<registryVars, mutex, heapVars, left, loopVars, peerVars>>

(* handler_login, handler_register: user_id set, reply, then the roster.   *)
HandleLogin(c) ==
  /\ Receive(c)
  /\ auth' = [auth EXCEPT ![c] = TRUE]
  /\ ForgetDebtTo(c)
  /\ job' = [job EXCEPT ![c] = Roster]
  /\ pc' = [pc EXCEPT ![c] = "replying"]
  /\ UNCHANGED channel

(* handler_logout: user_id and channel_id reset, reply, then the roster.   *)
HandleLogout(c) ==
  /\ Receive(c)
  /\ auth' = [auth EXCEPT ![c] = FALSE]
  /\ channel' = [channel EXCEPT ![c] = NoChannel]
  /\ ForgetDebtTo(c)
  /\ job' = [job EXCEPT ![c] = Roster]
  /\ pc' = [pc EXCEPT ![c] = "replying"]

(* handler_channel_join and handler_channel_leave: channel_id set without  *)
(* the mutex, reply, no broadcast.                                         *)
HandleJoinOrLeave(c) ==
  /\ Receive(c)
  /\ auth[c]
  /\ \E k \in Channel \cup {NoChannel} : channel' = [channel EXCEPT ![c] = k]
  /\ ForgetDebtTo(c)
  /\ pc' = [pc EXCEPT ![c] = "replying"]
  /\ UNCHANGED <<auth, job>>

(* handler_msg_send broadcasts to the sender's own channel, without reply. *)
HandleMsgSend(c) ==
  /\ Receive(c)
  /\ auth[c]
  /\ channel[c] # NoChannel
  /\ job' = [job EXCEPT ![c] = channel[c]]
  /\ pc' = [pc EXCEPT ![c] = "locking"]
  /\ UNCHANGED <<sessionVars, owed>>

(* handler_user_list: the roster first, the reply behind it.               *)
HandleUserList(c) ==
  /\ Receive(c)
  /\ auth[c]
  /\ job' = [job EXCEPT ![c] = RosterFirst]
  /\ pc' = [pc EXCEPT ![c] = "locking"]
  /\ UNCHANGED <<sessionVars, owed>>

(* handler_msg_delete, handler_reaction and handler_reaction_remove reply  *)
(* and broadcast to the channel of the message, handler_user_ban and       *)
(* handler_user_unban reply and broadcast the roster; an error, an         *)
(* unauthorized request or a list ends after the reply.                    *)
HandleOther(c) ==
  /\ Receive(c)
  /\ \/ auth[c] /\ \E k \in Channel \cup {Roster} : job' = [job EXCEPT ![c] = k]
     \/ UNCHANGED job
  /\ pc' = [pc EXCEPT ![c] = "replying"]
  /\ UNCHANGED <<sessionVars, owed>>

(* send_packet: the reply goes to the thread's own socket, with no lock.   *)
Reply(c) ==
  /\ pc[c] = "replying"
  /\ CanSend(c)
  /\ Transmit(c)
  /\ pc' = [pc EXCEPT ![c] = IF job[c] = NoJob THEN "serving" ELSE "locking"]
  /\ UNCHANGED <<registryVars, mutex, heapVars, sessionVars, left, job, loopVars,
                 peerUp, owed>>

-----------------------------------------------------------------------------
(* broadcast_to_channel and broadcast_user_list.                           *)

LockRegistry(c) ==
  /\ pc[c] = "locking"
  /\ mutex = NoClient
  /\ mutex' = c
  /\ pc' = [pc EXCEPT ![c] = "reading"]
  /\ cursor' = [cursor EXCEPT ![c] = 1]
  /\ owed' = [owed EXCEPT ![c] = {d \in Registered : Addressed(d, job[c])}]
  /\ UNCHANGED <<registryVars, heapVars, sessionVars, left, job, held, peerVars>>

(* c = reg->clients[i] and the test on its fields.                         *)
ReadSlot(c) ==
  /\ pc[c] = "reading"
  /\ cursor[c] <= LastSlot
  /\ LET d == slots[cursor[c]] IN
       IF d # NoClient /\ Addressed(d, job[c])
         THEN /\ held' = [held EXCEPT ![c] = d]
              /\ pc' = [pc EXCEPT ![c] = "sending"]
              /\ UNCHANGED cursor
         ELSE /\ cursor' = [cursor EXCEPT ![c] = @ + 1]
              /\ UNCHANGED <<held, pc>>
  /\ UNCHANGED <<registryVars, mutex, heapVars, sessionVars, left, job, peerVars, owed>>

(* send(c->sock, ...) with the mutex held; its result is not looked at     *)
(* (the mutant tries again when it failed).                                *)
SendAndAdvance(c) ==
  /\ CanSend(held[c])
  /\ Transmit(held[c])
  /\ held' = [held EXCEPT ![c] = NoClient]
  /\ cursor' = [cursor EXCEPT ![c] = @ + 1]
  /\ owed' = [owed EXCEPT ![c] = @ \ {held[c]}]
  /\ pc' = [pc EXCEPT ![c] = "reading"]
  /\ UNCHANGED <<registryVars, mutex, heapVars, sessionVars, left, job, peerUp>>

SendHeld_Retry(c) ==
  /\ pc[c] = "sending"
  /\ IF peerUp[held[c]] THEN SendAndAdvance(c) ELSE UNCHANGED vars

SendHeld(c) == pc[c] = "sending" /\ SendAndAdvance(c)

(* ReleaseMutex; the thread replies to a USER_LIST, returns to recv(), or  *)
(* goes on to closesocket.                                                 *)
UnlockRegistry(c) ==
  /\ pc[c] = "reading"
  /\ cursor[c] > LastSlot
  /\ mutex' = NoClient
  /\ job' = [job EXCEPT ![c] = NoJob]
  /\ owed' = [owed EXCEPT ![c] = {}]
  /\ pc' = [pc EXCEPT ![c] = IF left[c] THEN "closing"
                             ELSE IF job[c] = RosterFirst THEN "replying"
                             ELSE "serving"]
  /\ UNCHANGED <<registryVars, heapVars, sessionVars, left, loopVars, peerVars>>

-----------------------------------------------------------------------------
(* The end of client_thread.                                               *)

(* recv() returned 0 or an error: the peer is gone and what it sent before *)
(* has been received, or discarded by a reset (the mutant takes a return   *)
(* of 0 for an empty message and goes on).                                 *)
Disconnected_Ignored(c) == pc[c] = "serving" /\ ~peerUp[c] /\ UNCHANGED vars

Disconnected(c) ==
  /\ pc[c] = "serving"
  /\ ~peerUp[c]
  /\ pc' = [pc EXCEPT ![c] = "removing"]
  /\ UNCHANGED <<registryVars, mutex, heapVars, sessionVars, left, job, loopVars,
                 peerVars, owed>>

(* The loop of registry_remove.  (The mutants forget the count; count down *)
(* behind the loop, found or not; or look only at as many slots as there   *)
(* are clients.)                                                           *)
ClearSlot_LeakCount(c) ==
  /\ slots' = [i \in Slots |-> IF slots[i] = c THEN NoClient ELSE slots[i]]
  /\ UNCHANGED count

ClearSlot_CountAnyway(c) ==
  /\ slots' = [i \in Slots |-> IF slots[i] = c THEN NoClient ELSE slots[i]]
  /\ count' = count - 1

ClearSlot_UpToCount(c) ==
  /\ slots' = [i \in Slots |-> IF slots[i] = c /\ i <= count THEN NoClient
                                                            ELSE slots[i]]
  /\ count' = IF \E i \in 1..count : slots[i] = c THEN count - 1 ELSE count

ClearSlot(c) ==
  \/ \E i \in Slots :
       /\ slots[i] = c
       /\ \A j \in 1..(i - 1) : slots[j] # c
       /\ slots' = [slots EXCEPT ![i] = NoClient]
       /\ count' = count - 1
  \/ /\ \A i \in Slots : slots[i] # c
     /\ UNCHANGED registryVars

(* registry_remove, then broadcast_user_list is called.                    *)
RegistryRemove(c) ==
  /\ pc[c] = "removing"
  /\ mutex = NoClient
  /\ ClearSlot(c)
  /\ left' = [left EXCEPT ![c] = TRUE]
  /\ job' = [job EXCEPT ![c] = Roster]
  /\ pc' = [pc EXCEPT ![c] = "locking"]
  /\ UNCHANGED <<mutex, heapVars, sessionVars, loopVars, peerVars, owed>>

CloseSocket(c) ==
  /\ pc[c] = "closing"
  /\ open' = [open EXCEPT ![c] = FALSE]
  /\ pc' = [pc EXCEPT ![c] = "freeing"]
  /\ UNCHANGED <<registryVars, mutex, live, sessionVars, left, job, loopVars,
                 peerVars, owed>>

FreeClient(c) ==
  /\ pc[c] = "freeing"
  /\ Forget(c)
  /\ left' = [left EXCEPT ![c] = FALSE]
  /\ UNCHANGED <<registryVars, mutex, open, job, loopVars, owed>>

-----------------------------------------------------------------------------
(* The client program at the other end of the socket.                      *)

PeerRead(c) ==
  /\ peerUp[c]
  /\ inflight[c] > 0
  /\ inflight' = [inflight EXCEPT ![c] = @ - 1]
  /\ UNCHANGED <<registryVars, mutex, pc, heapVars, sessionVars, left, job,
                 loopVars, peerUp, owed>>

PeerGone(c) ==
  /\ peerUp[c]
  /\ peerUp' = [peerUp EXCEPT ![c] = FALSE]
  /\ inflight' = [inflight EXCEPT ![c] = 0]
  /\ UNCHANGED <<registryVars, mutex, pc, heapVars, sessionVars, left, job,
                 loopVars, owed>>

-----------------------------------------------------------------------------
Handle(c) == HandleLogin(c) \/ HandleLogout(c) \/ HandleJoinOrLeave(c)
             \/ HandleMsgSend(c) \/ HandleUserList(c) \/ HandleOther(c)

(* Everything the connection thread does by itself.                        *)
ThreadStep(c) ==
  \/ RegistryAdd(c) \/ Handle(c) \/ Reply(c)
  \/ LockRegistry(c) \/ ReadSlot(c) \/ SendHeld(c) \/ UnlockRegistry(c)
  \/ Disconnected(c) \/ RegistryRemove(c) \/ CloseSocket(c) \/ FreeClient(c)

(* Its steps that may have to wait: for the mutex, or for room in a socket.*)
BlockingStep(c) == \/ RegistryAdd(c) \/ LockRegistry(c) \/ RegistryRemove(c)
                   \/ SendHeld(c) \/ Reply(c)

Next ==
  \E c \in Client :
    \/ Accept(c) \/ SpawnThread(c) \/ SpawnFails(c)
    \/ ThreadStep(c)
    \/ PeerRead(c) \/ PeerGone(c)

Spec == Init /\ [][Next]_vars

(* A runnable thread runs; a thread waiting for the mutex gets it when it  *)
(* is released again and again (waiters of a Windows mutex are queued), as *)
(* does a send() blocked on a socket that drains again and again; a        *)
(* gone peer has left finitely many requests, so that recv() ends.         *)
ServerFairness ==
  \A c \in Client :
    /\ WF_vars(ThreadStep(c))
    /\ SF_vars(BlockingStep(c))
    /\ WF_vars(SpawnThread(c) \/ SpawnFails(c))
    /\ SF_vars(Disconnected(c))

FairSpec == Spec /\ ServerFairness

-----------------------------------------------------------------------------
(* Properties.                                                             *)

(* A broadcast only ever uses a ClientInfo that is allocated, and only     *)
(* sends on a socket that is open: client_thread unregisters before it     *)
(* closes and frees, and the mutex keeps the pointer a broadcast has read, *)
(* or is about to read, in the table (server.c:89-119, 250-268).           *)
NoUseAfterFree ==
  \A t \in Client :
    /\ held[t] # NoClient => live[held[t]] /\ open[held[t]]
    /\ pc[t] = "reading" /\ cursor[t] \in Slots /\ slots[cursor[t]] # NoClient
         => live[slots[cursor[t]]]

(* reg->count is the number of occupied slots, and nobody occupies two:    *)
(* otherwise registry_add would turn clients away from a table with room.  *)
RegistryConsistent ==
  /\ count = Cardinality({i \in Slots : slots[i] # NoClient})
  /\ \A i, j \in Slots : slots[i] = slots[j] /\ slots[i] # NoClient => i = j

(* When a broadcast is about to release the mutex it has sent to every     *)
(* client that it addressed from the moment it took the mutex, whatever    *)
(* holes earlier departures left in the table.                             *)
BroadcastComplete ==
  \A t \in Client : pc[t] = "reading" /\ cursor[t] > LastSlot => owed[t] = {}

(* A thread whose client is being served is in the registry, so that it    *)
(* receives the broadcasts ("registry of all currently connected           *)
(* clients", server.h:27).                                                 *)
ServedAreRegistered ==
  \A c \in Client : pc[c] \in Serving /\ ~left[c] => c \in Registered

(* A connected peer stops reading for good, with its buffer full: send()   *)
(* to it blocks, with the mutex held if it is called by a broadcast.       *)
StalledByPeer == \E d \in Client : <>[](peerUp[d] /\ inflight[d] = SendBuffer)

(* With nothing assumed of the clients, a connection whose peer is gone is *)
(* closed and its memory freed, unless some other client stalls the server *)
(* (client_thread, server.c:250-268).                                      *)
ConnectionReclaimed ==
  StalledByPeer \/ \A c \in Client : (live[c] /\ ~peerUp[c]) ~> ~live[c]

(* With nothing assumed of the clients, a thread that wants to broadcast   *)
(* gets the mutex and finishes, unless some client stalls the server       *)
(* (broadcast_to_channel and broadcast_user_list, server.c:104-189).       *)
BroadcastEnds ==
  StalledByPeer \/ \A c \in Client :
                     (pc[c] = "locking") ~> (pc[c] \in {"serving", "closing"})
=============================================================================
