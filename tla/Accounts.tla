------------------------------ MODULE Accounts ------------------------------
(***************************************************************************)
(* Accounts, bans and the roster: the handlers of registration, login,     *)
(* logout, ban, unban and user list (server/src/client_handler.c), the     *)
(* statements they run (server/src/db.c), and broadcast_user_list, which   *)
(* tells every authenticated client all accounts, who of them is online    *)
(* and who is banned (server/src/server.c).                                *)
(*                                                                         *)
(* A session is a connection with its thread.  What is sent to a client is *)
(* taken to be read at once: every roster replaces the one before, so that *)
(* the order of the connection decides nothing.  A request that is refused *)
(* before it has changed anything is answered with an error and no action. *)
(***************************************************************************)
EXTENDS Integers, FiniteSets

CONSTANTS Session, User,
          NoUser,      \* user_id == -1
          NoSession,   \* a free mutex
          FirstRole,   \* table user before the server starts
          DbFaults,    \* statements that may fail although nothing forbids it
          RosterRoom,  \* accounts that fit in one packet
          MaxRequests  \* bound: requests of all sessions

Roles == {"user", "moderator", "admin"}

Statements == {"is_banned", "ban", "unban", "list_all"}

ASSUME AccountsAssumption == /\ NoUser \notin User
                             /\ NoSession \notin Session
                             /\ FirstRole \in [User -> Roles \cup {"none"}]
                             /\ DbFaults \subseteq Statements
                             /\ RosterRoom \in Nat \ {0}
                             /\ MaxRequests \in Nat

VARIABLES
  role,       \* table user: the role of an account, "none" without one
  blacklist,  \* table blacklist: who is banned, and by whom
  user,       \* client->user_id
  cached,     \* client->role_id
  connected,  \* sessions in the registry
  pc,         \* where the thread of the session is
  subject,    \* the account its request is about, until its broadcast
  listing,    \* accounts it has read and not put in the roster yet
  mutex,      \* the thread holding registry.mutex, or NoSession
  payload,    \* the roster being put together under it
  todo,       \* sessions the loop under it has not visited yet
  roster,     \* the member sidebar of the session's client
  requests    \* requests made, bounded by MaxRequests

tableVars   == <<role, blacklist>>
sessionVars == <<user, cached, connected>>
workVars    == <<pc, subject, listing>>
castVars    == <<mutex, payload, todo>>
clientVars  == <<roster, requests>>
vars == <<tableVars, sessionVars, workVars, castVars, clientVars>>

Ban     == [who : User, by : User]
Account == [who : User, banned : BOOLEAN]
Entry   == [who : User, banned : BOOLEAN, online : BOOLEAN]

PCs == {"idle", "check", "admit", "ban", "unban", "list", "lock", "build", "cast"}

TypeOK ==
  /\ role \in [User -> Roles \cup {"none"}]
  /\ blacklist \subseteq Ban
  /\ user \in [Session -> User \cup {NoUser}]
  /\ cached \in [Session -> Roles \cup {"none"}]
  /\ connected \subseteq Session
  /\ pc \in [Session -> PCs]
  /\ subject \in [Session -> User \cup {NoUser}]
  /\ listing \in [Session -> SUBSET Account]
  /\ mutex \in Session \cup {NoSession}
  /\ payload \subseteq Entry
  /\ Cardinality(payload) <= RosterRoom
  /\ todo \subseteq Session
  /\ roster \in [Session -> SUBSET Entry]
  /\ requests \in 0..MaxRequests

Init ==
  /\ role = FirstRole
  /\ blacklist = {}
  /\ user = [s \in Session |-> NoUser]
  /\ cached = [s \in Session |-> "none"]
  /\ connected = Session
  /\ pc = [s \in Session |-> "idle"]
  /\ subject = [s \in Session |-> NoUser]
  /\ listing = [s \in Session |-> {}]
  /\ mutex = NoSession
  /\ payload = {}
  /\ todo = {}
  /\ roster = [s \in Session |-> {}]
  /\ requests = 0

Accounts == {u \in User : role[u] # "none"}
Banned   == {ban.who : ban \in blacklist}
Online(u) == \E s \in connected : user[s] = u

-----------------------------------------------------------------------------
(* A thread takes a request when the handler of the one before returned.   *)
Asks(s) == /\ pc[s] = "idle" /\ s \in connected
           /\ requests < MaxRequests
           /\ requests' = requests + 1
           /\ UNCHANGED roster

Goes(s, place) == pc' = [pc EXCEPT ![s] = place]

About(s, u) == subject' = [subject EXCEPT ![s] = u] /\ UNCHANGED listing

(* INSERT INTO user: the e-mail address is UNIQUE; always a plain user.    *)
HandleRegister(s) ==
  /\ Asks(s)
  /\ \E u \in User \ Accounts :
       /\ role' = [role EXCEPT ![u] = "user"]
       /\ About(s, u)
  /\ Goes(s, "admit")
  /\ UNCHANGED <<blacklist, sessionVars, castVars>>

(* The account is there and the password is right.                         *)
HandleLogin(s) ==
  /\ Asks(s)
  /\ \E u \in Accounts : About(s, u)
  /\ Goes(s, "check")
  /\ UNCHANGED <<tableVars, sessionVars, castVars>>

(* db_user_is_banned: no row, or a statement that failed, is no ban.  (The *)
(* mutant is a login without the query.)                                   *)
CheckBan_Never(s) ==
  /\ pc[s] = "check"
  /\ Goes(s, "admit")
  /\ UNCHANGED <<tableVars, sessionVars, subject, listing, castVars, clientVars>>
CheckBan(s) ==
  /\ pc[s] = "check"
  /\ \/ /\ "is_banned" \in DbFaults \/ subject[s] \notin Banned
        /\ Goes(s, "admit")
     \/ subject[s] \in Banned /\ Goes(s, "idle")
  /\ UNCHANGED <<tableVars, sessionVars, subject, listing, castVars, clientVars>>

(* The session takes the account and the role it has in the table.  (The   *)
(* mutant keeps the role of an earlier login of the connection.)           *)
Admit_OldRole(s) ==
  /\ pc[s] = "admit"
  /\ user' = [user EXCEPT ![s] = subject[s]]
  /\ cached' = [cached EXCEPT ![s] = IF @ = "none" THEN role[subject[s]] ELSE @]
  /\ Goes(s, "list")
  /\ UNCHANGED <<tableVars, connected, subject, listing, castVars, clientVars>>
Admit(s) ==
  /\ pc[s] = "admit"
  /\ user' = [user EXCEPT ![s] = subject[s]]
  /\ cached' = [cached EXCEPT ![s] = role[subject[s]]]
  /\ Goes(s, "list")
  /\ UNCHANGED <<tableVars, connected, subject, listing, castVars, clientVars>>

(* The role stays behind.  (The mutant tells nobody.)                      *)
HandleLogout_Quiet(s) ==
  /\ Asks(s)
  /\ user' = [user EXCEPT ![s] = NoUser]
  /\ UNCHANGED <<tableVars, cached, connected, workVars, castVars>>
HandleLogout(s) ==
  /\ Asks(s)
  /\ user' = [user EXCEPT ![s] = NoUser]
  /\ Goes(s, "list")
  /\ UNCHANGED <<tableVars, cached, connected, subject, listing, castVars>>

HandleUserList(s) ==
  /\ Asks(s) /\ user[s] # NoUser
  /\ Goes(s, "list")
  /\ UNCHANGED <<tableVars, sessionVars, subject, listing, castVars>>

CanModerate(mine, theirs) == \/ mine = "moderator" /\ theirs = "user"
                             \/ mine = "admin" /\ theirs \in {"user", "moderator"}

(* Ban and unban first look up the role of their target; the role of the   *)
(* session is the one of its login.                                        *)
HandleBan(s) ==
  /\ Asks(s) /\ user[s] # NoUser
  /\ \E u \in Accounts : CanModerate(cached[s], role[u]) /\ About(s, u)
  /\ \E place \in {"ban", "unban"} : Goes(s, place)
  /\ UNCHANGED <<tableVars, sessionVars, castVars>>

InsertBan(s) ==
  /\ pc[s] = "ban"
  /\ \/ /\ blacklist' = blacklist \cup {[who |-> subject[s], by |-> user[s]]}
        /\ Goes(s, "list")
     \/ "ban" \in DbFaults /\ Goes(s, "idle") /\ UNCHANGED blacklist
  /\ UNCHANGED <<role, sessionVars, subject, listing, castVars, clientVars>>

(* DELETE FROM blacklist takes every ban of the account, or there was none.*)
DeleteBan(s) ==
  /\ pc[s] = "unban"
  /\ \/ /\ subject[s] \in Banned
        /\ blacklist' = {ban \in blacklist : ban.who # subject[s]}
        /\ Goes(s, "list")
     \/ /\ "unban" \in DbFaults \/ subject[s] \notin Banned
        /\ Goes(s, "idle")
        /\ UNCHANGED blacklist
  /\ UNCHANGED <<role, sessionVars, subject, listing, castVars, clientVars>>

(* The client has closed its connection: registry_remove.                  *)
Leave(s) ==
  /\ pc[s] = "idle" /\ s \in connected /\ mutex = NoSession
  /\ connected' = connected \ {s}
  /\ Goes(s, "list")
  /\ UNCHANGED <<tableVars, user, cached, subject, listing, castVars, clientVars>>

-----------------------------------------------------------------------------
(* broadcast_user_list: the accounts are read before the mutex is taken.   *)
ListUsers(s) ==
  /\ pc[s] = "list"
  /\ \/ listing' = [listing EXCEPT ![s] =
                      {[who |-> u, banned |-> u \in Banned] : u \in Accounts}]
     \/ "list_all" \in DbFaults /\ listing' = [listing EXCEPT ![s] = {}]
  /\ subject' = [subject EXCEPT ![s] = NoUser]
  /\ Goes(s, "lock")
  /\ UNCHANGED <<tableVars, sessionVars, castVars, clientVars>>

LockRegistry(s) ==
  /\ pc[s] = "lock" /\ mutex = NoSession
  /\ mutex' = s
  /\ Goes(s, "build")
  /\ UNCHANGED <<tableVars, sessionVars, subject, listing, payload, todo, clientVars>>

(* Who is online is read under the mutex, but a session changes its user   *)
(* without it, between two entries.  An entry that does not fit ends the   *)
(* loop; the accounts come by name, whatever order that is.  (The mutant   *)
(* lets one entry too many in.)                                            *)
Full_Late == Cardinality(payload) > RosterRoom
Full == Cardinality(payload) >= RosterRoom

AddEntry(s) ==
  /\ pc[s] = "build" /\ ~Full
  /\ \E account \in listing[s] :
       /\ payload' = payload \cup {[who |-> account.who, banned |-> account.banned,
                                    online |-> Online(account.who)]}
       /\ listing' = [listing EXCEPT ![s] = @ \ {account}]
  /\ UNCHANGED <<tableVars, sessionVars, pc, subject, mutex, todo, clientVars>>

SendRoster(s) ==
  /\ pc[s] = "build" /\ (Full \/ listing[s] = {})
  /\ listing' = [listing EXCEPT ![s] = {}]
  /\ todo' = connected
  /\ Goes(s, "cast")
  /\ UNCHANGED <<tableVars, sessionVars, subject, mutex, payload, clientVars>>

(* The client replaces its member sidebar by what it is sent.              *)
Visit(s, t) ==
  /\ pc[s] = "cast" /\ t \in todo
  /\ todo' = todo \ {t}
  /\ roster' = IF user[t] # NoUser THEN [roster EXCEPT ![t] = payload] ELSE roster
  /\ UNCHANGED <<tableVars, sessionVars, workVars, mutex, payload, requests>>

(* (The mutant returns without ReleaseMutex.)                              *)
UnlockRegistry_Kept(s) ==
  /\ pc[s] = "cast" /\ todo = {}
  /\ Goes(s, "idle")
  /\ UNCHANGED <<tableVars, sessionVars, subject, listing, castVars, clientVars>>
UnlockRegistry(s) ==
  /\ pc[s] = "cast" /\ todo = {}
  /\ mutex' = NoSession
  /\ payload' = {}
  /\ Goes(s, "idle")
  /\ UNCHANGED <<tableVars, sessionVars, subject, listing, todo, clientVars>>

-----------------------------------------------------------------------------
Request(s) == \/ HandleRegister(s) \/ HandleLogin(s) \/ HandleLogout(s)
              \/ HandleUserList(s) \/ HandleBan(s) \/ Leave(s)

ServerThread(s) ==
  \/ CheckBan(s) \/ Admit(s) \/ InsertBan(s) \/ DeleteBan(s)
  \/ ListUsers(s) \/ AddEntry(s) \/ SendRoster(s)
  \/ \E t \in Session : Visit(s, t)
  \/ UnlockRegistry(s)

Next == \E s \in Session : Request(s) \/ ServerThread(s) \/ LockRegistry(s)

Spec == Init /\ [][Next]_vars

(* A thread that can run does; one that waits for the mutex gets it if it  *)
(* is free again and again.  Clients ask what and when they like.          *)
FairSpec == Spec /\ \A s \in Session : /\ WF_vars(ServerThread(s))
                                       /\ SF_vars(LockRegistry(s))

-----------------------------------------------------------------------------
(* Someone is still to broadcast a roster, or is doing it.                 *)
Broadcasting == \E s \in Session : pc[s] \in {"list", "lock", "build", "cast"}

(* Who is online is shown rightly: once no broadcast is under way, every   *)
(* entry in an authenticated client's sidebar says whether the account has *)
(* a session, although a session changes its user without the mutex, on a  *)
(* connection that may log in again as someone else (client_handler.c:     *)
(* 97-107, 133-153; server.c:144-188).                                     *)
OnlineShown ==
  Broadcasting \/ \A s \in connected : user[s] # NoUser =>
                    \A entry \in roster[s] : entry.online = Online(entry.who)

(* "Moderators can ban regular users, admins can also ban moderators, and  *)
(* nobody can ban an admin" (README.md:149): every ban in the table was    *)
(* made by someone entitled to it, with the role of the session the one of *)
(* the user it is logged in as (client_handler.c:97-98, 133-134, 571-651). *)
BansEntitled == \A ban \in blacklist : CanModerate(role[ban.by], role[ban.who])

(* A session is a user's, or a login as that user has passed every check.  *)
Admitted(s, u) == user[s] = u \/ (pc[s] = "admit" /\ subject[s] = u)

(* "A ban stops someone from logging back in, it doesn't disconnect them"  *)
(* (README.md:151): while a ban stands a user who has no session, and no   *)
(* login past the check, gets none, whatever is registered, banned again   *)
(* or lifted meanwhile, as long as the check is not among the statements   *)
(* that fail (client_handler.c:128-131).                                   *)
BanHolds ==
  [][\A u \in Banned \cap Banned' : \A s \in Session :
       Admitted(s, u)' => Admitted(s, u)]_vars

(* Every handler returns, so that its session's next request is heard: no  *)
(* thread waits for the registry mutex for ever, as long as no send blocks *)
(* (module Registry has the sends that do; server.c:144, 188).             *)
HandlersReturn == \A s \in Session : pc[s] # "idle" ~> pc[s] = "idle"

(* Once all handlers have returned every authenticated client shows every  *)
(* account, banned or not: the roster is sent on every login, register,    *)
(* ban, unban and disconnect "so every client's member sidebar stays live" *)
(* (server.c:129-131).                                                     *)
RosterLive ==
  (\A s \in Session : pc[s] = "idle") =>
    \A s \in connected : user[s] # NoUser =>
      {[who |-> entry.who, banned |-> entry.banned] : entry \in roster[s]}
        = {[who |-> u, banned |-> u \in Banned] : u \in Accounts}
=============================================================================
