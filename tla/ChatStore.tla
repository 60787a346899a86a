------------------------------ MODULE ChatStore ------------------------------
(***************************************************************************)
(* The channel, message and reaction tables (data/myDiscord.sql) and the   *)
(* db_ functions that read and write them (server/src/db.c).  A table is   *)
(* its set of rows; an operator is one SQL statement, with the result the  *)
(* function returns as its last parameter.  A statement is atomic, as it   *)
(* is in PostgreSQL; a function of two statements is two operators.        *)
(***************************************************************************)
EXTENDS Integers, FiniteSets

CONSTANTS User, Channel, Emoji,
          Failed,       \* the -1 of every db_ function
          Done,         \* their 0
          DbFaults,     \* a statement may fail although nothing forbids it
          HistoryLimit, \* rows a MSG_HISTORY returns at most (50)
          SummaryLimit  \* rows of reactions read at most (64)

ASSUME StoreAssumption == /\ HistoryLimit \in Nat \ {0}
                          /\ SummaryLimit \in Nat \ {0}
                          /\ DbFaults \in BOOLEAN
                          /\ Failed \notin Nat \cup Channel
                          /\ Done # Failed

VARIABLES
  channels,     \* ids of the rows of table channel
  messages,     \* rows of table message: id, author and channel
  nextMessage,  \* the sequence behind id_message
  reactions     \* rows of table reaction: message, user and emoji

storeVars == <<channels, messages, nextMessage, reactions>>

MessageRow  == [id : Nat, author : User, channel : Channel]
ReactionRow == [message : Nat, user : User, emoji : Emoji]

StoreTypeOK ==
  /\ channels \subseteq Channel
  /\ messages \subseteq MessageRow
  /\ nextMessage \in Nat \ {0}
  /\ reactions \subseteq ReactionRow

Posted == {row.id : row \in messages}

ReactionsOn(m) == {row \in reactions : row.message = m}

(* The subsets a query limited to n rows may return when no order decides. *)
Limited(rows, n) ==
  {kept \in SUBSET rows :
     Cardinality(kept) = IF Cardinality(rows) < n THEN Cardinality(rows) ELSE n}

-----------------------------------------------------------------------------
(* INSERT INTO message ... RETURNING id_message, with its two foreign keys.*)
MessageInsert(u, c, result) ==
  /\ \/ /\ c \in channels
        /\ result = nextMessage
        /\ messages' = messages \cup {[id |-> result, author |-> u, channel |-> c]}
        /\ nextMessage' = nextMessage + 1
     \/ /\ DbFaults \/ c \notin channels
        /\ result = Failed
        /\ UNCHANGED <<messages, nextMessage>>
  /\ UNCHANGED <<channels, reactions>>

(* SELECT ... ORDER BY sent_at DESC LIMIT: the last messages of a channel. *)
(* The ids are numbered in the order the rows are inserted.                *)
Newest(c) ==
  LET ofChannel == {row \in messages : row.channel = c}
  IN  {row \in ofChannel :
         Cardinality({r \in ofChannel : r.id > row.id}) < HistoryLimit}

(* The test of WHERE id_message = $1 AND id_author = $2.                   *)
Own(u, m) == \E row \in messages : row.id = m /\ row.author = u

(* DELETE FROM message: no rows match, or a row of the reaction table still*)
(* references the message, or it goes; the channel it was in is returned.  *)
MessageDelete(u, m, result) ==
  /\ \/ \E row \in messages :
          /\ row.id = m /\ row.author = u
          /\ ReactionsOn(m) = {}
          /\ result = row.channel
          /\ messages' = messages \ {row}
     \/ /\ DbFaults \/ ~Own(u, m) \/ ReactionsOn(m) # {}
        /\ result = Failed
        /\ UNCHANGED messages
  /\ UNCHANGED <<channels, nextMessage, reactions>>

(* SELECT id_channel FROM message: -1 if the message is not there.         *)
ChannelOf(m, result) ==
  \/ \E row \in messages : row.id = m /\ result = row.channel
  \/ /\ DbFaults \/ m \notin Posted
     /\ result = Failed

(* The first statement of db_reaction_set, whose result it ignores.        *)
ReactionClear(u, m) ==
  /\ \/ reactions' = {row \in reactions : row.message # m \/ row.user # u}
     \/ DbFaults /\ UNCHANGED reactions
  /\ UNCHANGED <<channels, messages, nextMessage>>

(* The second: the message must exist and the row be a new one.            *)
ReactionInsert(u, m, e, result) ==
  LET row == [message |-> m, user |-> u, emoji |-> e] IN
  /\ \/ /\ m \in Posted
        /\ row \notin reactions
        /\ result = Done
        /\ reactions' = reactions \cup {row}
     \/ /\ DbFaults \/ m \notin Posted \/ row \in reactions
        /\ result = Failed
        /\ UNCHANGED reactions
  /\ UNCHANGED <<channels, messages, nextMessage>>

(* DELETE FROM reaction, an error when no row was deleted.                 *)
ReactionRemove(u, m, result) ==
  LET gone == {row \in ReactionsOn(m) : row.user = u} IN
  /\ \/ /\ gone # {}
        /\ result = Done
        /\ reactions' = reactions \ gone
     \/ /\ DbFaults \/ gone = {}
        /\ result = Failed
        /\ UNCHANGED reactions
  /\ UNCHANGED <<channels, messages, nextMessage>>

(* SELECT id_user, emoji FROM reaction: what it may return.               *)
ReactionList(m) == Limited(ReactionsOn(m), SummaryLimit)
=============================================================================
