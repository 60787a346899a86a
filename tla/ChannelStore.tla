---------------------------- MODULE ChannelStore ----------------------------
(***************************************************************************)
(* Table channel (data/myDiscord.sql) and the db_ functions that read and  *)
(* write it (server/src/db.c).  An operator is one SQL statement, with the *)
(* result of its function as the last parameter; a statement is atomic.    *)
(* Of table message only the foreign key matters here: which channels have *)
(* messages, and so cannot be deleted.                                     *)
(***************************************************************************)
EXTENDS Integers, FiniteSets

CONSTANTS User,          \* id_user: a SERIAL, like id_channel
          Admin,         \* users whose role is ROLE_ADMIN
          Name,          \* names a channel may have
          FirstChannels, \* rows before the server starts
          FirstUsed,     \* ids of those that have messages
          DbFaults,      \* a statement may fail although nothing forbids it
          ListLimit      \* rows a CHANNEL_LIST returns at most (64)

ChannelRow == [id : Nat \ {0}, name : Name, private : BOOLEAN, creator : User]

Ids(rows) == {row.id : row \in rows}

ASSUME StoreAssumption ==
  /\ User \subseteq Nat \ {0}
  /\ Admin \subseteq User
  /\ FirstChannels \subseteq ChannelRow
  /\ IsFiniteSet(FirstChannels)
  /\ Ids(FirstChannels) = 1..Cardinality(FirstChannels)
  /\ FirstUsed \subseteq Ids(FirstChannels)
  /\ DbFaults \in BOOLEAN
  /\ ListLimit \in Nat \ {0}

VARIABLES channels,    \* table channel
          nextChannel, \* the sequence behind id_channel
          used         \* ids of channels with a row in table message

storeVars == <<channels, nextChannel, used>>

Failed == -1  \* what a db_ function returns then
Done   == 0

StoreTypeOK == /\ channels \subseteq ChannelRow
               /\ nextChannel \in Nat \ {0}
               /\ used \subseteq Nat

StoreInit == /\ channels = FirstChannels
             /\ nextChannel = Cardinality(FirstChannels) + 1
             /\ used = FirstUsed

(* INSERT INTO channel ... RETURNING id_channel.                           *)
ChannelInsert(u, name, private, result) ==
  \/ /\ result = nextChannel
     /\ channels' = channels \cup {[id |-> result, name |-> name,
                                    private |-> private, creator |-> u]}
     /\ nextChannel' = nextChannel + 1
     /\ UNCHANGED used
  \/ DbFaults /\ result = Failed /\ UNCHANGED storeVars

(* DELETE FROM channel: any for an admin, else one's own; the message that *)
(* refers to it forbids it; no row deleted is a failure too.  (The mutant  *)
(* takes the status of the command for its effect.)                        *)
Deletable(u, c) ==
  {row \in channels : row.id = c /\ (u \in Admin \/ row.creator = u)}

ChannelDelete_StatusOnly(u, c, result) ==
  \/ /\ Deletable(u, c) = {} \/ c \notin used
     /\ result = Done
     /\ channels' = channels \ Deletable(u, c)
     /\ UNCHANGED <<nextChannel, used>>
  \/ /\ DbFaults \/ (Deletable(u, c) # {} /\ c \in used)
     /\ result = Failed
     /\ UNCHANGED storeVars
ChannelDelete(u, c, result) ==
  \/ /\ Deletable(u, c) # {} /\ c \notin used
     /\ result = Done
     /\ channels' = channels \ Deletable(u, c)
     /\ UNCHANGED <<nextChannel, used>>
  \/ /\ DbFaults \/ Deletable(u, c) = {} \/ c \in used
     /\ result = Failed
     /\ UNCHANGED storeVars

(* SELECT ... WHERE is_private = false OR id_creator = $1 ORDER BY         *)
(* id_channel, as much of it as the caller's array holds.                  *)
Visible(u) == {row \in channels : ~row.private \/ row.creator = u}

Listed(u) == {row \in Visible(u) :
                Cardinality({r \in Visible(u) : r.id < row.id}) < ListLimit}

ChannelList(u) ==
  {rows \in [1..Cardinality(Listed(u)) -> Listed(u)] :
     \A i, j \in DOMAIN rows : i < j => rows[i].id < rows[j].id}

(* INSERT INTO message, for its effect on the channel.                     *)
MessageInsert(c, result) ==
  \/ /\ c \in Ids(channels)
     /\ result = Done
     /\ used' = used \cup {c}
     /\ UNCHANGED <<channels, nextChannel>>
  \/ /\ DbFaults \/ c \notin Ids(channels)
     /\ result = Failed
     /\ UNCHANGED storeVars
=============================================================================
