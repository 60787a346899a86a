--------------------------- MODULE AccountsProofs ---------------------------
(***************************************************************************)
(* Proofs about Accounts for any sessions, users, first roles, size of the *)
(* roster and number of requests.                                          *)
(***************************************************************************)
EXTENDS Accounts, FiniteSetTheorems, TLAPS

(* The thread that puts a roster together or sends it holds the mutex, and *)
(* nothing is left of a roster when the mutex is free.                     *)
MutexHeld ==
  /\ \A s \in Session : pc[s] \in {"build", "cast"} <=> mutex = s
  /\ mutex = NoSession => payload = {} /\ todo = {}
  /\ IsFiniteSet(payload)

(* The account a handler is about exists, and whoever bans may ban.        *)
SubjectFits ==
  \A s \in Session :
    /\ pc[s] \in {"check", "admit", "ban", "unban"} => subject[s] \in Accounts
    /\ pc[s] = "ban" => /\ user[s] # NoUser
                        /\ CanModerate(cached[s], role[subject[s]])

(* An authenticated session has the role of its user.                      *)
RoleCached ==
  \A s \in Session :
    user[s] # NoUser => user[s] \in Accounts /\ cached[s] = role[user[s]]

(* A thread is on its way to read the registry under the mutex: whatever   *)
(* has changed, its roster will show it.                                   *)
RosterDue == \E s \in Session : pc[s] \in {"list", "lock"}

Right(entries) == \A entry \in entries : entry.online = Online(entry.who)

(* What is in the roster being built or sent is right unless another is    *)
(* due, and so is the sidebar of everyone it has been sent to.             *)
PayloadRight == RosterDue \/ Right(payload)

SidebarsRight ==
  \/ RosterDue
  \/ \E s \in Session : pc[s] = "build"
  \/ \A t \in connected \ todo : user[t] # NoUser => Right(roster[t])

IInv == /\ TypeOK
        /\ MutexHeld
        /\ SubjectFits
        /\ RoleCached
        /\ BansEntitled
        /\ PayloadRight
        /\ SidebarsRight

-----------------------------------------------------------------------------
LEMMA InitInv == Init => IInv
  <1> SUFFICES ASSUME Init PROVE IInv
    OBVIOUS
  <1>1. TypeOK
    <2>1. IsFiniteSet(payload) /\ Cardinality(payload) = 0
      BY FS_EmptySet DEF Init
    <2> QED
      BY <2>1, AccountsAssumption DEF Init, TypeOK, PCs
  <1>2. MutexHeld
    BY FS_EmptySet, AccountsAssumption DEF Init, MutexHeld
  <1>3. SubjectFits /\ RoleCached /\ BansEntitled
    BY DEF Init, SubjectFits, RoleCached, BansEntitled
  <1>4. PayloadRight /\ SidebarsRight
    BY DEF Init, PayloadRight, SidebarsRight, Right
  <1> QED
    BY <1>1, <1>2, <1>3, <1>4 DEF IInv

-----------------------------------------------------------------------------
(* The type of what AddEntry puts in the roster, and its number.           *)
LEMMA EntryAdded ==
  ASSUME TypeOK, IsFiniteSet(payload), NEW s \in Session, AddEntry(s)
  PROVE  /\ payload' \subseteq Entry
         /\ IsFiniteSet(payload')
         /\ Cardinality(payload') <= RosterRoom
  <1> PICK account \in listing[s] :
             payload' = payload \cup {[who |-> account.who,
                                       banned |-> account.banned,
                                       online |-> Online(account.who)]}
    BY DEF AddEntry
  <1> DEFINE entry == [who |-> account.who, banned |-> account.banned,
                       online |-> Online(account.who)]
  <1>1. account \in Account
    BY DEF TypeOK
  <1>2. Online(account.who) \in BOOLEAN
    BY DEF Online
  <1>3. entry \in Entry
    BY <1>1, <1>2, Zenon DEF Account, Entry
  <1>4. Cardinality(payload) \in Nat /\ RosterRoom \in Nat
    BY FS_CardinalityType, AccountsAssumption
  <1>5. Cardinality(payload) < RosterRoom
    BY <1>4 DEF AddEntry, Full
  <1> HIDE DEF entry
  <1>6. /\ IsFiniteSet(payload \cup {entry})
        /\ \/ Cardinality(payload \cup {entry}) = Cardinality(payload)
           \/ Cardinality(payload \cup {entry}) = Cardinality(payload) + 1
    BY FS_AddElement
  <1>7. payload' = payload \cup {entry}
    BY DEF entry
  <1>8. payload' \subseteq Entry
    BY <1>3, <1>7 DEF TypeOK
  <1>9. Cardinality(payload') <= RosterRoom
    <2>1. Cardinality(payload \cup {entry}) <= RosterRoom
      BY <1>4, <1>5, <1>6
    <2> QED
      BY <2>1, <1>7, Zenon
  <1> QED
    BY <1>6, <1>7, <1>8, <1>9

LEMMA ListingType ==
  {[who |-> u, banned |-> u \in Banned] : u \in Accounts} \subseteq Account
  <1> SUFFICES ASSUME NEW u \in Accounts
               PROVE  [who |-> u, banned |-> u \in Banned] \in Account
    OBVIOUS
  <1>1. u \in User
    BY DEF Accounts
  <1>2. CASE u \in Banned
    BY <1>1, <1>2 DEF Account
  <1>3. CASE u \notin Banned
    BY <1>1, <1>3 DEF Account
  <1> QED
    BY <1>2, <1>3

LEMMA TypeStep ==
  ASSUME TypeOK, IsFiniteSet(payload), SubjectFits, [Next]_vars
  PROVE  TypeOK'
  <1> USE AccountsAssumption
  <1> USE DEF TypeOK, PCs, tableVars, sessionVars, workVars, castVars, clientVars
  <1>1. CASE UNCHANGED vars
    BY <1>1 DEF vars
  <1>2. ASSUME NEW s \in Session, HandleRegister(s) PROVE TypeOK'
    BY <1>2 DEF HandleRegister, Asks, Goes, About, Accounts, Roles
  <1>3. ASSUME NEW s \in Session, HandleLogin(s) PROVE TypeOK'
    BY <1>3 DEF HandleLogin, Asks, Goes, About, Accounts
  <1>4. ASSUME NEW s \in Session, CheckBan(s) PROVE TypeOK'
    BY <1>4 DEF CheckBan, Goes
  <1>5. ASSUME NEW s \in Session, HandleLogout(s) \/ HandleUserList(s) PROVE TypeOK'
    BY <1>5 DEF HandleLogout, HandleUserList, Asks, Goes
  <1>6. ASSUME NEW s \in Session, HandleBan(s) PROVE TypeOK'
    BY <1>6 DEF HandleBan, Asks, Goes, About, Accounts
  <1>7. ASSUME NEW s \in Session, Leave(s) \/ LockRegistry(s) \/ SendRoster(s)
        PROVE TypeOK'
    BY <1>7 DEF Leave, LockRegistry, SendRoster, Goes
  <1>8. ASSUME NEW s \in Session, DeleteBan(s) PROVE TypeOK'
    BY <1>8 DEF DeleteBan, Goes
  <1>9. ASSUME NEW s \in Session, ListUsers(s) PROVE TypeOK'
    <2> DEFINE all == {[who |-> u, banned |-> u \in Banned] : u \in Accounts}
    <2>1. all \subseteq Account
      BY ListingType
    <2>2. listing' \in [Session -> SUBSET Account]
      <3> HIDE DEF all
      <3> QED
        <4>1. \/ listing' = [listing EXCEPT ![s] = all]
              \/ listing' = [listing EXCEPT ![s] = {}]
          BY <1>9 DEF ListUsers, all
        <4> QED
          BY <4>1, <2>1
    <2> QED
      BY <1>9, <2>2 DEF ListUsers, Goes
  <1>10. ASSUME NEW s \in Session, AddEntry(s) PROVE TypeOK'
    <2>1. /\ payload' \subseteq Entry
          /\ Cardinality(payload') <= RosterRoom
      BY <1>10, EntryAdded
    <2> QED
      BY <1>10, <2>1 DEF AddEntry
  <1>11. ASSUME NEW s \in Session, NEW t \in Session, Visit(s, t) PROVE TypeOK'
    BY <1>11 DEF Visit
  <1>12. ASSUME NEW s \in Session, UnlockRegistry(s) PROVE TypeOK'
    <2>1. Cardinality({}) = 0
      BY FS_EmptySet
    <2> QED
      BY <1>12, <2>1 DEF UnlockRegistry, Goes
  <1>13. ASSUME NEW s \in Session, Admit(s) PROVE TypeOK'
    BY <1>13 DEF Admit, Goes, SubjectFits, Accounts
  <1>14. ASSUME NEW s \in Session, InsertBan(s) PROVE TypeOK'
    BY <1>14 DEF InsertBan, Goes, Ban, SubjectFits, Accounts
  <1> QED
    BY <1>1, <1>2, <1>3, <1>4, <1>5, <1>6, <1>7, <1>8, <1>9, <1>10, <1>11,
       <1>12, <1>13, <1>14 DEF Next, Request, ServerThread

-----------------------------------------------------------------------------
LEMMA MutexStep ==
  ASSUME TypeOK, MutexHeld, [Next]_vars
  PROVE  MutexHeld'
  <1> USE AccountsAssumption
  <1> USE DEF MutexHeld, TypeOK, tableVars, sessionVars, workVars, castVars,
              clientVars, Goes
  <1>1. CASE UNCHANGED vars
    BY <1>1 DEF vars
  <1>2. ASSUME NEW s \in Session, Request(s) PROVE MutexHeld'
    <2>1. /\ pc[s] = "idle"
          /\ \E place \in {"check", "admit", "ban", "unban", "list"} :
               pc' = [pc EXCEPT ![s] = place]
          /\ UNCHANGED castVars
      BY <1>2 DEF Request, HandleRegister, HandleLogin, HandleLogout,
                  HandleUserList, HandleBan, Leave, Asks
    <2> QED
      BY <2>1
  <1>3. ASSUME NEW s \in Session,
               CheckBan(s) \/ Admit(s) \/ InsertBan(s) \/ DeleteBan(s) \/ ListUsers(s)
        PROVE  MutexHeld'
    <2>1. /\ pc[s] \notin {"build", "cast"}
          /\ \E place \in {"idle", "admit", "list", "lock"} :
               pc' = [pc EXCEPT ![s] = place]
          /\ UNCHANGED castVars
      BY <1>3 DEF CheckBan, Admit, InsertBan, DeleteBan, ListUsers
    <2> QED
      BY <2>1
  <1>4. ASSUME NEW s \in Session, LockRegistry(s) PROVE MutexHeld'
    BY <1>4 DEF LockRegistry
  <1>5. ASSUME NEW s \in Session, AddEntry(s) PROVE MutexHeld'
    <2>1. IsFiniteSet(payload')
      BY <1>5, EntryAdded
    <2> QED
      BY <1>5, <2>1 DEF AddEntry
  <1>6. ASSUME NEW s \in Session, SendRoster(s) PROVE MutexHeld'
    BY <1>6 DEF SendRoster
  <1>7. ASSUME NEW s \in Session, NEW t \in Session, Visit(s, t) PROVE MutexHeld'
    BY <1>7 DEF Visit
  <1>8. ASSUME NEW s \in Session, UnlockRegistry(s) PROVE MutexHeld'
    BY <1>8, FS_EmptySet DEF UnlockRegistry
  <1> QED
    BY <1>1, <1>2, <1>3, <1>4, <1>5, <1>6, <1>7, <1>8 DEF Next, ServerThread

(* No action but Admit and HandleLogout sets user_id, none but Admit sets  *)
(* the role of a session, and only a registration changes table user.      *)
LEMMA RolesAndBans ==
  ASSUME TypeOK, SubjectFits, RoleCached, BansEntitled, [Next]_vars
  PROVE  SubjectFits' /\ RoleCached' /\ BansEntitled'
  <1> USE AccountsAssumption
  <1> DEFINE Kept == SubjectFits' /\ RoleCached' /\ BansEntitled'
  <1> USE DEF SubjectFits, RoleCached, BansEntitled, TypeOK, Accounts,
              tableVars, sessionVars, workVars, castVars, clientVars, Goes, About
  <1>1. CASE UNCHANGED vars
    BY <1>1 DEF vars
  <1>2. ASSUME NEW s \in Session, HandleRegister(s) PROVE Kept
    <2>1. PICK u \in User : /\ role[u] = "none"
                            /\ role' = [role EXCEPT ![u] = "user"]
                            /\ subject' = [subject EXCEPT ![s] = u]
      BY <1>2 DEF HandleRegister
    <2>2. BansEntitled'
      BY <1>2, <2>1 DEF HandleRegister, Ban, CanModerate
    <2>3. SubjectFits'
      BY <1>2, <2>1 DEF HandleRegister, Asks, CanModerate
    <2>4. RoleCached'
      BY <1>2, <2>1 DEF HandleRegister
    <2> QED
      BY <2>2, <2>3, <2>4
  <1>3. ASSUME NEW s \in Session, HandleLogin(s) PROVE Kept
    BY <1>3 DEF HandleLogin, Asks
  <1>4. ASSUME NEW s \in Session, CheckBan(s) PROVE Kept
    BY <1>4 DEF CheckBan
  <1>5. ASSUME NEW s \in Session, Admit(s) PROVE Kept
    BY <1>5 DEF Admit
  <1>6. ASSUME NEW s \in Session, HandleLogout(s) \/ HandleUserList(s) PROVE Kept
    BY <1>6 DEF HandleLogout, HandleUserList, Asks
  <1>7. ASSUME NEW s \in Session, HandleBan(s) PROVE Kept
    BY <1>7 DEF HandleBan, Asks
  <1>8. ASSUME NEW s \in Session, InsertBan(s) PROVE Kept
    BY <1>8 DEF InsertBan
  <1>9. ASSUME NEW s \in Session, DeleteBan(s) PROVE Kept
    BY <1>9 DEF DeleteBan
  <1>10. ASSUME NEW s \in Session,
                \/ Leave(s) \/ ListUsers(s) \/ LockRegistry(s) \/ SendRoster(s)
                \/ UnlockRegistry(s)
         PROVE  Kept
    BY <1>10 DEF Leave, ListUsers, LockRegistry, SendRoster, UnlockRegistry
  <1>11. ASSUME NEW s \in Session, AddEntry(s) \/ \E t \in Session : Visit(s, t)
         PROVE  Kept
    BY <1>11 DEF AddEntry, Visit
  <1> QED
    BY <1>1, <1>2, <1>3, <1>4, <1>5, <1>6, <1>7, <1>8, <1>9, <1>10, <1>11
    DEF Next, Request, ServerThread

-----------------------------------------------------------------------------
(* What makes an entry right changes with user_id and the registry only.   *)
LEMMA OnlineKept ==
  ASSUME UNCHANGED <<user, connected>>
  PROVE  /\ \A u : Online(u)' = Online(u)
         /\ \A entries : Right(entries) =>
                           \A entry \in entries : entry.online = Online(entry.who)'
  BY DEF Online, Right

(* A step that leaves the rosters and what they tell alone.                *)
LEMMA RosterUntouched ==
  ASSUME PayloadRight, SidebarsRight,
         UNCHANGED <<user, connected, payload, todo, roster>>,
         RosterDue => RosterDue',
         (\E s \in Session : pc[s] = "build")
           => RosterDue' \/ \E s \in Session : pc'[s] = "build"
  PROVE  PayloadRight' /\ SidebarsRight'
  BY OnlineKept DEF PayloadRight, SidebarsRight, Right

LEMMA RosterStep ==
  ASSUME TypeOK, MutexHeld, PayloadRight, SidebarsRight, [Next]_vars
  PROVE  PayloadRight' /\ SidebarsRight'
  <1> USE AccountsAssumption
  <1> DEFINE Kept == PayloadRight' /\ SidebarsRight'
  <1> USE DEF tableVars, sessionVars, workVars, castVars, clientVars, Goes
  <1>0. pc \in [Session -> PCs]
    BY DEF TypeOK
  <1>1. CASE UNCHANGED vars
    BY <1>1, RosterUntouched DEF vars, RosterDue
  <1>2. ASSUME NEW s \in Session,
               \/ HandleRegister(s) \/ HandleLogin(s) \/ HandleUserList(s)
               \/ HandleBan(s) \/ CheckBan(s) \/ InsertBan(s) \/ DeleteBan(s)
        PROVE  Kept
    <2>1. /\ pc[s] \in {"idle", "check", "ban", "unban"}
          /\ \E place \in PCs : pc' = [pc EXCEPT ![s] = place]
          /\ UNCHANGED <<user, connected, payload, todo, roster>>
      BY <1>2 DEF HandleRegister, HandleLogin, HandleUserList, HandleBan,
                  CheckBan, InsertBan, DeleteBan, Asks, PCs
    <2>2. /\ RosterDue => RosterDue'
          /\ (\E t \in Session : pc[t] = "build")
               => \E t \in Session : pc'[t] = "build"
      BY <1>0, <2>1 DEF RosterDue
    <2> QED
      BY <2>1, <2>2, RosterUntouched
  <1>3. ASSUME NEW s \in Session,
               Admit(s) \/ HandleLogout(s) \/ Leave(s) \/ ListUsers(s)
        PROVE  Kept
    <2>1. pc' = [pc EXCEPT ![s] = "list"] \/ pc' = [pc EXCEPT ![s] = "lock"]
      BY <1>3 DEF Admit, HandleLogout, Leave, ListUsers
    <2>2. RosterDue'
      BY <1>0, <2>1 DEF RosterDue
    <2> QED
      BY <2>2 DEF PayloadRight, SidebarsRight
  <1>4. ASSUME NEW s \in Session, LockRegistry(s) PROVE Kept
    <2>1. payload' = {}
      BY <1>4 DEF LockRegistry, MutexHeld
    <2>2. pc'[s] = "build"
      BY <1>0, <1>4 DEF LockRegistry
    <2> QED
      BY <2>1, <2>2 DEF PayloadRight, SidebarsRight, Right
  <1>5. ASSUME NEW s \in Session, AddEntry(s) PROVE Kept
    <2>1. pc' = pc /\ pc[s] = "build" /\ UNCHANGED <<user, connected>>
      BY <1>5 DEF AddEntry
    <2>2. \A entry \in payload' :
            entry \in payload \/ entry.online = Online(entry.who)
      BY <1>5 DEF AddEntry
    <2> QED
      BY <2>1, <2>2, OnlineKept DEF PayloadRight, SidebarsRight, RosterDue, Right
  <1>6. ASSUME NEW s \in Session, SendRoster(s) PROVE Kept
    <2>1. /\ pc[s] = "build" /\ pc' = [pc EXCEPT ![s] = "cast"]
          /\ todo' = connected /\ payload' = payload
          /\ UNCHANGED <<user, connected>>
      BY <1>6 DEF SendRoster
    <2>2. RosterDue => RosterDue'
      BY <1>0, <2>1 DEF RosterDue
    <2> QED
      BY <2>1, <2>2, OnlineKept DEF PayloadRight, SidebarsRight, Right
  <1>7. ASSUME NEW s \in Session, NEW t \in Session, Visit(s, t) PROVE Kept
    <2>1. /\ pc' = pc /\ payload' = payload
          /\ todo' = todo \ {t}
          /\ UNCHANGED <<user, connected>>
          /\ roster' = IF user[t] # NoUser THEN [roster EXCEPT ![t] = payload]
                                           ELSE roster
      BY <1>7 DEF Visit
    <2>2. \A r \in Session : pc[r] # "build"
      BY <1>7 DEF Visit, MutexHeld
    <2>3. RosterDue' <=> RosterDue
      BY <2>1 DEF RosterDue
    <2>4. PayloadRight'
      BY <2>1, <2>3, OnlineKept DEF PayloadRight, Right
    <2>5. ASSUME ~RosterDue, NEW r \in connected' \ todo', user'[r] # NoUser
          PROVE  Right(roster[r])'
      <3>1. CASE r = t
        <4>1. roster'[r] = payload
          BY <2>1, <2>5, <3>1 DEF TypeOK
        <4> QED
          BY <2>1, <2>5, <4>1, OnlineKept DEF PayloadRight, Right
      <3>2. CASE r # t
        <4>1. roster'[r] = roster[r] /\ r \in connected \ todo
          BY <2>1, <2>5, <3>2 DEF TypeOK
        <4> QED
          BY <2>1, <2>2, <2>5, <4>1, OnlineKept DEF SidebarsRight, Right
      <3> QED
        BY <3>1, <3>2
    <2> QED
      BY <2>3, <2>4, <2>5 DEF SidebarsRight
  <1>8. ASSUME NEW s \in Session, UnlockRegistry(s) PROVE Kept
    <2>1. /\ pc[s] = "cast" /\ pc' = [pc EXCEPT ![s] = "idle"]
          /\ payload' = {}
          /\ UNCHANGED <<user, connected, todo, roster>>
      BY <1>8 DEF UnlockRegistry
    <2>2. RosterDue => RosterDue'
      BY <1>0, <2>1 DEF RosterDue
    <2>3. \A r \in Session : pc[r] # "build"
      BY <2>1 DEF MutexHeld
    <2> QED
      BY <2>1, <2>2, <2>3, OnlineKept DEF PayloadRight, SidebarsRight, Right
  <1> QED
    BY <1>1, <1>2, <1>3, <1>4, <1>5, <1>6, <1>7, <1>8
    DEF Next, Request, ServerThread

-----------------------------------------------------------------------------
LEMMA Invariant == Spec => []IInv
  <1>1. IInv /\ [Next]_vars => IInv'
    <2> SUFFICES ASSUME IInv, [Next]_vars PROVE IInv'
      OBVIOUS
    <2>1. IsFiniteSet(payload)
      BY DEF IInv, MutexHeld
    <2> QED
      BY <2>1, TypeStep, MutexStep, RolesAndBans, RosterStep DEF IInv
  <1> QED
    BY InitInv, <1>1, PTL DEF Spec

(* Every variable keeps its type, and a roster never outgrows its packet   *)
(* (server.c:166-175).                                                     *)
THEOREM TypeCorrect == Spec => []TypeOK
  <1>1. IInv => TypeOK
    BY DEF IInv
  <1> QED
    BY Invariant, <1>1, PTL

(* Every ban in the table was made by someone entitled to it               *)
(* (client_handler.c:565-651).                                             *)
THEOREM EntitledBans == Spec => []BansEntitled
  <1>1. IInv => BansEntitled
    BY DEF IInv
  <1> QED
    BY Invariant, <1>1, PTL

(* When no broadcast is under way, every member sidebar is right about who *)
(* is online (server.c:144-188).                                           *)
THEOREM SidebarsTellWhoIsOnline == Spec => []OnlineShown
  <1>1. IInv => OnlineShown
    <2> SUFFICES ASSUME IInv, ~Broadcasting PROVE OnlineShown
      BY DEF OnlineShown
    <2>1. ~RosterDue /\ \A s \in Session : pc[s] \notin {"build", "cast"}
      BY DEF Broadcasting, RosterDue
    <2>2. todo = {}
      BY <2>1 DEF IInv, MutexHeld, TypeOK
    <2> QED
      BY <2>1, <2>2 DEF IInv, SidebarsRight, OnlineShown, Right
  <1> QED
    BY Invariant, <1>1, PTL

(* As long as the ban query does not fail, a ban keeps its user from       *)
(* logging in (client_handler.c:128-131, db.c:137-150).                    *)
THEOREM BansHold ==
  ASSUME "is_banned" \notin DbFaults
  PROVE  Spec => BanHolds
  <1>1. IInv /\ [Next]_vars =>
          [\A u \in Banned \cap Banned' : \A s \in Session :
             Admitted(s, u)' => Admitted(s, u)]_vars
    <2> SUFFICES ASSUME IInv, Next, NEW u \in Banned, NEW t \in Session,
                        Admitted(t, u)'
                 PROVE  Admitted(t, u)
      OBVIOUS
    <2> USE DEF IInv, TypeOK, Admitted, tableVars, sessionVars, workVars,
                castVars, clientVars, Goes, About
    <2>1. role[u] # "none"
      BY DEF BansEntitled, Banned, CanModerate
    <2>2. u \in User
      BY DEF Banned, Ban
    <2>3. ASSUME NEW s \in Session, HandleRegister(s) PROVE Admitted(t, u)
      BY <2>1, <2>2, <2>3 DEF HandleRegister, Accounts
    <2>4. ASSUME NEW s \in Session, CheckBan(s) PROVE Admitted(t, u)
      BY <2>4 DEF CheckBan
    <2>5. ASSUME NEW s \in Session, Admit(s) PROVE Admitted(t, u)
      BY <2>5 DEF Admit
    <2>6. ASSUME NEW s \in Session, HandleLogout(s) PROVE Admitted(t, u)
      BY <2>2, <2>6, AccountsAssumption DEF HandleLogout
    <2>7. ASSUME NEW s \in Session,
                 \/ HandleLogin(s) \/ HandleUserList(s) \/ HandleBan(s)
                 \/ InsertBan(s) \/ DeleteBan(s) \/ Leave(s) \/ ListUsers(s)
          PROVE  Admitted(t, u)
      BY <2>7 DEF HandleLogin, HandleUserList, HandleBan, InsertBan, DeleteBan,
                  Leave, ListUsers
    <2>8. ASSUME NEW s \in Session,
                 \/ LockRegistry(s) \/ AddEntry(s) \/ SendRoster(s)
                 \/ UnlockRegistry(s) \/ \E r \in Session : Visit(s, r)
          PROVE  Admitted(t, u)
      BY <2>8 DEF LockRegistry, AddEntry, SendRoster, UnlockRegistry, Visit
    <2> QED
      BY <2>3, <2>4, <2>5, <2>6, <2>7, <2>8 DEF Next, Request, ServerThread
  <1> QED
    BY Invariant, <1>1, PTL DEF Spec, BanHolds
=============================================================================
