----------------------- MODULE RealtimeSessions_proofs -----------------------
(***************************************************************************)
(* Proofs about RealtimeSessions: nobody slips into the CRM rooms behind a  *)
(* revocation, and whoever sits in them is watched.                         *)
(*                                                                         *)
(* The argument follows one socket.  From the moment its account is read it *)
(* is in the room revocations address, so a revocation that arrives on its  *)
(* server disconnects it, and what it read is still true unless a           *)
(* revocation is under way (ReadIsCurrent).  Admission only turns what was  *)
(* read into rooms.                                                         *)
(***************************************************************************)
EXTENDS RealtimeSessions, TLAPS

\* A socket that is connected is somewhere in its handshake or open, and can be reached.
Reachable(s) ==
  /\ socket[s].connected => "SESSION" \in socket[s].rooms /\ socket[s].at # "CLOSED"
  /\ ~ socket[s].connected => socket[s].rooms = {} /\ socket[s].at # "OPEN"
  /\ socket[s].at \in {"JOINED", "READ"} => socket[s].rooms \subseteq {"SESSION"}

\* The map holds exactly the open sockets.
MapIsOpen(s) == s \in sessions <=> socket[s].at = "OPEN"

\* What a socket in its handshake read of the account still gives access, unless a revocation is
\* under way.
ReadIsCurrent(s) ==
  socket[s].connected /\ socket[s].at = "READ" /\ ~ socket[s].row.deleted =>
    \/ /\ ~ users[socket[s].user].deleted
       /\ users[socket[s].user].role = socket[s].row.role
    \/ Underway(socket[s].server, socket[s].user)

\* The same of a socket that was admitted.
AdmittedIsCurrent(s) ==
  socket[s].connected /\ socket[s].at \in {"JOINING", "LAST", "OPEN"} =>
    Entitled(s) \/ Underway(socket[s].server, socket[s].user)

SocketInv(s) == Reachable(s) /\ MapIsOpen(s) /\ ReadIsCurrent(s) /\ AdmittedIsCurrent(s)

\* The inductive invariant.
IInv == TypeOK /\ \A s \in Sockets : SocketInv(s)

\* It implies the two invariants of the gateway.
LEMMA IInvImplies == IInv => NoneSlipsThrough /\ EveryHolderWatched
<1> SUFFICES ASSUME IInv PROVE NoneSlipsThrough /\ EveryHolderWatched
  OBVIOUS
<1>1. ASSUME NEW s \in Sockets, HoldsCrmRooms(s)
      PROVE  socket[s].connected /\ socket[s].at \in {"JOINING", "LAST", "OPEN"}
  <2>1. socket[s].at \in Handshakes /\ socket[s].connected \in BOOLEAN
    BY DEF IInv, TypeOK
  <2> QED
    BY <1>1, <2>1 DEF IInv, SocketInv, Reachable, HoldsCrmRooms, Handshakes, CrmRooms
<1>2. NoneSlipsThrough
  BY <1>1 DEF IInv, SocketInv, AdmittedIsCurrent, NoneSlipsThrough
<1>3. EveryHolderWatched
  BY <1>1 DEF IInv, SocketInv, MapIsOpen, Reachable, TypeOK, EveryHolderWatched
<1> QED
  BY <1>2, <1>3

SocketRows == [at: Handshakes, server: Servers, user: Users, row: Accounts, role: Roles,
               rooms: SUBSET Rooms, connected: BOOLEAN, expired: BOOLEAN]

\* A closed socket, and an idle cron.
LEMMA FreshRows ==
  /\ Closed \in SocketRows
  /\ Closed.at = "CLOSED" /\ ~ Closed.connected /\ Closed.rooms = {}
  /\ Idle \in [at: {"IDLE", "QUERYING", "DECIDING"}, batch: SUBSET Sockets, rows: [Users -> Accounts]]
<1>1. (CHOOSE n \in Servers : TRUE) \in Servers /\ (CHOOSE u \in Users : TRUE) \in Users
  BY SessionsAssumption
<1>2. NoAccount \in Accounts
  BY DEF NoAccount, Accounts, Roles
<1> QED
  BY <1>1, <1>2 DEF Closed, Idle, Handshakes, Roles, SocketRows

LEMMA InitInv == Init => IInv
<1> SUFFICES ASSUME Init PROVE IInv
  OBVIOUS
<1>1. TypeOK
  <2>1. users \in [Users -> Accounts]
    <3>1. \A r \in CrmRoles : [deleted |-> FALSE, role |-> r] \in Accounts
      BY DEF Accounts, Roles
    <3> QED
      BY <3>1 DEF Init
  <2> QED
    BY <2>1, FreshRows, SessionsAssumption DEF Init, TypeOK, SocketRows
<1>2. \A s \in Sockets : socket[s] = Closed
  BY DEF Init
<1>3. sessions = {}
  BY DEF Init
<1> QED
  BY <1>1, <1>2, <1>3, FreshRows
  DEF IInv, SocketInv, Reachable, MapIsOpen, ReadIsCurrent, AdmittedIsCurrent

\* A socket nothing happened to stays as good as it was while no revocation for it is lost.
LEMMA Untouched ==
  ASSUME NEW s \in Sockets, SocketInv(s), socket'[s] = socket[s],
         s \in sessions' <=> s \in sessions, UNCHANGED users,
         Underway(socket[s].server, socket[s].user)
           => Underway(socket[s].server, socket[s].user)'
  PROVE  SocketInv(s)'
BY DEF SocketInv, Reachable, MapIsOpen, ReadIsCurrent, AdmittedIsCurrent, Entitled

\* A handler that returns leaves a closed socket.
LEMMA ClosedSocket ==
  ASSUME NEW s \in Sockets, socket'[s] = Closed, s \notin sessions'
  PROVE  SocketInv(s)'
BY FreshRows DEF SocketInv, Reachable, MapIsOpen, ReadIsCurrent, AdmittedIsCurrent

\* Disconnecting any sockets keeps the invariant while no revocation for the others is lost.
LEMMA DisconnectStep ==
  ASSUME IInv, NEW gone \in SUBSET Sockets, Disconnect(gone), UNCHANGED users,
         \A s \in Sockets \ gone :
           socket[s].connected /\ Underway(socket[s].server, socket[s].user)
             => Underway(socket[s].server, socket[s].user)'
  PROVE  /\ \A s \in Sockets : SocketInv(s)'
         /\ socket' \in [Sockets -> SocketRows]
         /\ sessions' \subseteq Sockets
<1>1. ASSUME NEW s \in Sockets
      PROVE  SocketInv(s)' /\ socket'[s] \in SocketRows
  <2>1. socket[s] \in SocketRows
    BY DEF IInv, TypeOK, SocketRows
  <2>2. CASE s \in gone
    <3>1. socket'[s] = Disconnected(socket[s]) /\ s \notin sessions'
      BY <2>2 DEF Disconnect
    <3>2. /\ Disconnected(socket[s]) \in SocketRows
          /\ ~ Disconnected(socket[s]).connected
          /\ Disconnected(socket[s]).rooms = {}
          /\ Disconnected(socket[s]).at # "OPEN"
      BY <2>1 DEF Disconnected, SocketRows, Handshakes
    <3> QED
      BY <3>1, <3>2 DEF SocketInv, Reachable, MapIsOpen, ReadIsCurrent, AdmittedIsCurrent
  <2>3. CASE s \notin gone
    <3>1. socket'[s] = socket[s] /\ (s \in sessions' <=> s \in sessions)
      BY <2>3 DEF Disconnect
    <3>2. CASE socket[s].connected
      BY <2>1, <2>3, <3>1, <3>2, Untouched DEF IInv
    <3>3. CASE ~ socket[s].connected
      BY <2>1, <3>1, <3>3
      DEF IInv, SocketInv, Reachable, MapIsOpen, ReadIsCurrent, AdmittedIsCurrent
    <3> QED
      BY <3>2, <3>3
  <2> QED
    BY <2>2, <2>3
<1>2. DOMAIN socket' = Sockets /\ socket' = [s \in Sockets |-> socket'[s]]
  BY DEF Disconnect
<1> QED
  BY <1>1, <1>2 DEF Disconnect, IInv, TypeOK

\* The handler of one socket returns.
LEMMA GiveUpStep ==
  ASSUME IInv, NEW s \in Sockets, GiveUp(s),
         UNCHANGED <<users, calls, wire, cron, missed, edits>>, faults' \in 0..MaxFaults
  PROVE  IInv'
<1>1. socket' \in [Sockets -> SocketRows] /\ sessions' \subseteq Sockets
  BY FreshRows DEF IInv, TypeOK, GiveUp, SocketRows
<1>2. TypeOK'
  BY <1>1 DEF IInv, TypeOK, SocketRows
<1>3. socket'[s] = Closed /\ s \notin sessions'
  BY DEF GiveUp, IInv, TypeOK
<1>4. ASSUME NEW x \in Sockets, x # s PROVE SocketInv(x)'
  <2>1. socket'[x] = socket[x] /\ (x \in sessions' <=> x \in sessions)
    BY <1>4 DEF GiveUp, IInv, TypeOK
  <2> QED
    BY <2>1, Untouched DEF IInv, Underway
<1> QED
  BY <1>2, <1>3, <1>4, ClosedSocket DEF IInv

\* A step of one handshake that goes on, to row k.
LEMMA HandshakeGoesOn ==
  ASSUME IInv, NEW s \in Sockets, NEW k \in SocketRows, socket' = [socket EXCEPT ![s] = k],
         sessions' \in SUBSET Sockets, \A x \in Sockets \ {s} : x \in sessions' <=> x \in sessions,
         UNCHANGED <<users, calls, wire, cron, missed, edits, faults>>,
         SocketInv(s)'
  PROVE  IInv'
<1>1. TypeOK'
  BY DEF IInv, TypeOK, SocketRows
<1>2. ASSUME NEW x \in Sockets, x # s PROVE SocketInv(x)'
  <2>1. socket'[x] = socket[x] /\ (x \in sessions' <=> x \in sessions)
    BY <1>2 DEF IInv, TypeOK
  <2>2. Underway(socket[x].server, socket[x].user) = Underway(socket[x].server, socket[x].user)'
    BY <2>1 DEF Underway
  <2>3. SocketInv(x)
    BY DEF IInv
  <2> QED
    BY <2>1, <2>2, <2>3, Untouched
<1> QED
  BY <1>1, <1>2 DEF IInv

LEMMA ConnectStep ==
  ASSUME IInv, NEW s \in Sockets, NEW u \in Users, NEW n \in Servers, Connect(s, u, n)
  PROVE  IInv'
<1> DEFINE k == [Closed EXCEPT !.at = "JOINED", !.server = n, !.user = u,
                               !.rooms = FirstRooms, !.connected = TRUE]
<1>1. k \in SocketRows
  BY FreshRows DEF SocketRows, Handshakes, FirstRooms, Rooms
<1>2. k.at = "JOINED" /\ k.connected /\ k.rooms = {"SESSION"}
  BY FreshRows DEF SocketRows, FirstRooms
<1> HIDE DEF k
<1>3. socket' = [socket EXCEPT ![s] = k] /\ socket'[s] = k /\ s \notin sessions'
  BY DEF Connect, IInv, TypeOK, SocketInv, MapIsOpen, k
<1>4. SocketInv(s)'
  BY <1>2, <1>3 DEF SocketInv, Reachable, MapIsOpen, ReadIsCurrent, AdmittedIsCurrent
<1> QED
  BY <1>1, <1>3, <1>4, HandshakeGoesOn DEF Connect, IInv, TypeOK

LEMMA ReadAccountStep ==
  ASSUME IInv, NEW s \in Sockets, ReadAccount(s)
  PROVE  IInv'
<1>1. CASE ~ socket[s].connected
  BY <1>1, GiveUpStep DEF ReadAccount, IInv, TypeOK
<1>2. CASE socket[s].connected
  <2> DEFINE k == [socket[s] EXCEPT !.at = "READ", !.row = users[socket[s].user]]
  <2>1. socket[s] \in SocketRows /\ users[socket[s].user] \in Accounts
    BY DEF IInv, TypeOK, SocketRows
  <2>2. /\ k \in SocketRows
        /\ k.at = "READ" /\ k.row = users[socket[s].user] /\ k.user = socket[s].user
        /\ k.rooms = socket[s].rooms /\ k.connected = socket[s].connected
    BY <2>1 DEF SocketRows, Handshakes
  <2> HIDE DEF k
  <2>3. socket' = [socket EXCEPT ![s] = k]
    BY <1>2 DEF ReadAccount, IInv, TypeOK, k
  <2>4. socket'[s] = k /\ s \notin sessions' /\ users' = users
    BY <1>2, <2>3 DEF ReadAccount, IInv, TypeOK, SocketInv, MapIsOpen
  <2>5. SocketInv(s)
    BY DEF IInv
  <2>6. SocketInv(s)'
    BY <1>2, <2>1, <2>2, <2>4, <2>5
    DEF ReadAccount, SocketInv, Reachable, MapIsOpen, ReadIsCurrent, AdmittedIsCurrent
  <2> QED
    BY <1>2, <2>2, <2>3, <2>6, HandshakeGoesOn DEF ReadAccount, IInv, TypeOK
<1> QED
  BY <1>1, <1>2

\* Admission: the rooms are those of the role that was read.
LEMMA AdmitStep ==
  ASSUME IInv, NEW s \in Sockets, Admit(s)
  PROVE  IInv'
<1>1. CASE ~ Admitted(socket[s])
  BY <1>1, GiveUpStep DEF Admit, IInv, TypeOK
<1>2. CASE Admitted(socket[s])
  <2> DEFINE old == socket[s]
             more == IF old.row.role = "SALES_MANAGER" THEN {"UNASSIGNED"} ELSE {"EXPERT_OWN"}
             k == [old EXCEPT !.role = old.row.role,
                     !.at = IF old.row.role = "SALES_MANAGER" THEN "JOINING" ELSE "LAST",
                     !.rooms = @ \cup more]
  <2>1. old \in SocketRows
    BY DEF IInv, TypeOK, SocketRows
  <2>2. /\ k \in SocketRows
        /\ k.at \in {"JOINING", "LAST"} /\ k.role = old.row.role /\ k.user = old.user
        /\ k.server = old.server
        /\ k.rooms = old.rooms \cup more /\ k.connected = old.connected
    BY <2>1 DEF SocketRows, Handshakes, Accounts, Rooms, CrmRooms
  <2> HIDE DEF k
  <2>3. socket' = [socket EXCEPT ![s] = k]
    BY <1>2 DEF Admit, k
  <2>4. socket'[s] = k /\ s \notin sessions' /\ users' = users
    BY <1>2, <2>3 DEF Admit, IInv, TypeOK, SocketInv, MapIsOpen
  <2>5. SocketInv(s)
    BY DEF IInv
  <2>6. Entitled(s)' \/ Underway(socket[s].server, socket[s].user)'
    BY <1>2, <2>2, <2>4, <2>5
    DEF Admit, Admitted, SocketInv, ReadIsCurrent, Entitled, Underway
  <2>7. SocketInv(s)'
    BY <1>2, <2>2, <2>4, <2>5, <2>6
    DEF Admit, Admitted, SocketInv, Reachable, MapIsOpen, ReadIsCurrent, AdmittedIsCurrent
  <2> QED
    BY <1>2, <2>2, <2>3, <2>7, HandshakeGoesOn DEF Admit, IInv, TypeOK
<1> QED
  BY <1>1, <1>2

LEMMA JoinOwnRoomStep ==
  ASSUME IInv, NEW s \in Sockets, JoinOwnRoom(s)
  PROVE  IInv'
<1>1. CASE ~ socket[s].connected
  BY <1>1, GiveUpStep DEF JoinOwnRoom, IInv, TypeOK
<1>2. CASE socket[s].connected
  <2> DEFINE k == [socket[s] EXCEPT !.at = "LAST", !.rooms = @ \cup {"SALES_OWN"}]
  <2>1. socket[s] \in SocketRows
    BY DEF IInv, TypeOK, SocketRows
  <2>2. /\ k \in SocketRows
        /\ k.at = "LAST" /\ k.user = socket[s].user /\ k.server = socket[s].server
        /\ k.role = socket[s].role
        /\ k.rooms = socket[s].rooms \cup {"SALES_OWN"} /\ k.connected = socket[s].connected
    BY <2>1 DEF SocketRows, Handshakes, Rooms, CrmRooms
  <2> HIDE DEF k
  <2>3. socket' = [socket EXCEPT ![s] = k]
    BY <1>2 DEF JoinOwnRoom, IInv, TypeOK, k
  <2>4. socket'[s] = k /\ s \notin sessions' /\ users' = users
    BY <1>2, <2>3 DEF JoinOwnRoom, IInv, TypeOK, SocketInv, MapIsOpen
  <2>5. SocketInv(s)
    BY DEF IInv
  <2>6. Entitled(s)' \/ Underway(socket[s].server, socket[s].user)'
    BY <1>2, <2>2, <2>4, <2>5 DEF JoinOwnRoom, SocketInv, AdmittedIsCurrent, Entitled, Underway
  <2>7. SocketInv(s)'
    BY <1>2, <2>2, <2>4, <2>5, <2>6
    DEF JoinOwnRoom, SocketInv, Reachable, MapIsOpen, ReadIsCurrent, AdmittedIsCurrent
  <2> QED
    BY <1>2, <2>2, <2>3, <2>7, HandshakeGoesOn DEF JoinOwnRoom, IInv, TypeOK
<1> QED
  BY <1>1, <1>2

\* The last check: only a socket that is still there enters the map.
LEMMA RegisterStep ==
  ASSUME IInv, NEW s \in Sockets, Register(s)
  PROVE  IInv'
<1>1. CASE ~ socket[s].connected
  BY <1>1, GiveUpStep DEF Register, StillThere, IInv, TypeOK
<1>2. CASE socket[s].connected
  <2> DEFINE k == [socket[s] EXCEPT !.at = "OPEN"]
  <2>1. socket[s] \in SocketRows
    BY DEF IInv, TypeOK, SocketRows
  <2>2. /\ k \in SocketRows
        /\ k.at = "OPEN" /\ k.user = socket[s].user /\ k.server = socket[s].server
        /\ k.role = socket[s].role
        /\ k.rooms = socket[s].rooms /\ k.connected = socket[s].connected
    BY <2>1 DEF SocketRows, Handshakes
  <2> HIDE DEF k
  <2>3. socket' = [socket EXCEPT ![s] = k]
    BY <1>2 DEF Register, StillThere, IInv, TypeOK, k
  <2>4. socket'[s] = k /\ sessions' = sessions \cup {s} /\ users' = users
    BY <1>2, <2>3 DEF Register, StillThere, IInv, TypeOK
  <2>5. SocketInv(s)
    BY DEF IInv
  <2>6. Entitled(s)' \/ Underway(socket[s].server, socket[s].user)'
    BY <1>2, <2>2, <2>4, <2>5 DEF Register, SocketInv, AdmittedIsCurrent, Entitled, Underway
  <2>7. SocketInv(s)'
    BY <1>2, <2>2, <2>4, <2>5, <2>6
    DEF Register, SocketInv, Reachable, MapIsOpen, ReadIsCurrent, AdmittedIsCurrent
  <2> QED
    BY <1>2, <2>2, <2>3, <2>4, <2>7, HandshakeGoesOn DEF Register, StillThere, IInv, TypeOK
<1> QED
  BY <1>1, <1>2

LEMMA HandshakeFailsStep ==
  ASSUME IInv, NEW s \in Sockets, HandshakeFails(s)
  PROVE  IInv'
<1>1. faults' \in 0..MaxFaults
  BY SessionsAssumption DEF HandshakeFails, Fault, IInv, TypeOK
<1> QED
  BY <1>1, GiveUpStep DEF HandshakeFails

\* The client leaves, or the expiry timer fires: one socket is disconnected.
LEMMA LeavesStep ==
  ASSUME IInv, NEW s \in Sockets, ClientLeaves(s) \/ ExpiryTimer(s)
  PROVE  IInv'
<1>1. /\ Disconnect({s})
      /\ UNCHANGED <<users, calls, wire, cron, missed, edits, faults>>
  BY DEF ClientLeaves, ExpiryTimer
<1>2. {s} \in SUBSET Sockets
  OBVIOUS
<1>3. ASSUME NEW x \in Sockets \ {s}, Underway(socket[x].server, socket[x].user)
      PROVE  Underway(socket[x].server, socket[x].user)'
  <2>1. socket'[x] = socket[x]
    BY <1>1 DEF Disconnect
  <2> QED
    BY <1>1, <1>3, <2>1 DEF Underway
<1>4. /\ \A x \in Sockets : SocketInv(x)'
      /\ socket' \in [Sockets -> SocketRows] /\ sessions' \subseteq Sockets
  BY <1>1, <1>2, <1>3, DisconnectStep
<1> QED
  BY <1>1, <1>4 DEF IInv, TypeOK, SocketRows

LEMMA TokenExpiresStep ==
  ASSUME IInv, NEW s \in Sockets, TokenExpires(s)
  PROVE  IInv'
<1> DEFINE k == [socket[s] EXCEPT !.expired = TRUE]
<1>1. socket[s] \in SocketRows
  BY DEF IInv, TypeOK, SocketRows
<1>2. /\ k \in SocketRows
      /\ k.at = socket[s].at /\ k.row = socket[s].row /\ k.role = socket[s].role
      /\ k.user = socket[s].user /\ k.server = socket[s].server
      /\ k.rooms = socket[s].rooms /\ k.connected = socket[s].connected
  BY <1>1 DEF SocketRows
<1> HIDE DEF k
<1>3. socket' = [socket EXCEPT ![s] = k]
  BY DEF TokenExpires, IInv, TypeOK, k
<1>4. socket'[s] = k /\ sessions' = sessions /\ users' = users
  BY <1>3 DEF TokenExpires, IInv, TypeOK
<1>5. SocketInv(s) /\ UNCHANGED <<calls, wire, missed>>
  BY DEF IInv, TokenExpires
<1>6. ReadIsCurrent(s)'
  BY <1>2, <1>4, <1>5 DEF SocketInv, ReadIsCurrent, Underway
<1>7. AdmittedIsCurrent(s)'
  BY <1>2, <1>4, <1>5 DEF SocketInv, AdmittedIsCurrent, Entitled, Underway
<1>8. SocketInv(s)'
  BY <1>2, <1>4, <1>5, <1>6, <1>7 DEF SocketInv, Reachable, MapIsOpen
<1> QED
  BY <1>2, <1>3, <1>8, HandshakeGoesOn DEF TokenExpires, IInv, TypeOK

\* A step that touches neither a socket nor a row, and loses no revocation.
LEMMA NobodyMoved ==
  ASSUME IInv, UNCHANGED <<users, socket, sessions>>,
         \A s \in Sockets : Underway(socket[s].server, socket[s].user)
                              => Underway(socket[s].server, socket[s].user)'
  PROVE  \A s \in Sockets : SocketInv(s)'
<1> SUFFICES ASSUME NEW s \in Sockets PROVE SocketInv(s)'
  OBVIOUS
<1>1. SocketInv(s) /\ socket'[s] = socket[s]
  BY DEF IInv
<1> QED
  BY <1>1, Untouched

\* An account change: the administrator's server owes the user a revocation from then on.
LEMMA ChangeStep ==
  ASSUME IInv, NEW u \in Users, NEW n \in Servers, NEW row \in Accounts,
         users' = [users EXCEPT ![u] = row], RevokesAfter(u, n), Edit,
         UNCHANGED <<socket, sessions, wire, cron, missed, faults>>
  PROVE  IInv'
<1>1. TypeOK'
  BY SessionsAssumption DEF IInv, TypeOK, RevokesAfter, Edit
<1>2. ASSUME NEW s \in Sockets PROVE SocketInv(s)'
  <2>1. SocketInv(s) /\ socket'[s] = socket[s]
    BY DEF IInv
  <2>2. CASE socket[s].user = u
    <3>1. Underway(socket[s].server, socket[s].user)'
      BY <2>1, <2>2 DEF RevokesAfter, Underway
    <3> QED
      BY <2>1, <3>1 DEF SocketInv, Reachable, MapIsOpen, ReadIsCurrent, AdmittedIsCurrent
  <2>3. CASE socket[s].user # u
    <3>1. socket[s].user \in Users
      BY DEF IInv, TypeOK
    <3>2. users'[socket[s].user] = users[socket[s].user]
      BY <2>3, <3>1 DEF IInv, TypeOK
    <3>3. Underway(socket[s].server, socket[s].user)
            => Underway(socket[s].server, socket[s].user)'
      BY <2>1 DEF RevokesAfter, Underway
    <3> QED
      BY <2>1, <3>2, <3>3
      DEF SocketInv, Reachable, MapIsOpen, ReadIsCurrent, AdmittedIsCurrent, Entitled
  <2> QED
    BY <2>2, <2>3
<1> QED
  BY <1>1, <1>2 DEF IInv

LEMMA BlockStep ==
  ASSUME IInv, NEW u \in Users, NEW n \in Servers, Block(u, n)
  PROVE  IInv'
<1> DEFINE row == [users[u] EXCEPT !.deleted = TRUE]
<1>1. users[u] \in Accounts /\ users \in [Users -> Accounts]
  BY DEF IInv, TypeOK
<1>2. row \in Accounts
  BY <1>1 DEF Accounts
<1>3. users' = [users EXCEPT ![u] = row]
  BY <1>1 DEF Block
<1> QED
  BY <1>2, <1>3, ChangeStep DEF Block

LEMMA ChangeRoleStep ==
  ASSUME IInv, NEW u \in Users, NEW n \in Servers, NEW r \in Roles, ChangeRole(u, r, n)
  PROVE  IInv'
<1> DEFINE row == [users[u] EXCEPT !.role = r]
<1>1. users[u] \in Accounts /\ users \in [Users -> Accounts]
  BY DEF IInv, TypeOK
<1>2. row \in Accounts
  BY <1>1 DEF Accounts
<1>3. users' = [users EXCEPT ![u] = row]
  BY <1>1 DEF ChangeRole
<1> QED
  BY <1>2, <1>3, ChangeStep DEF ChangeRole

\* An account that comes back takes nobody's access away.
LEMMA UnblockStep ==
  ASSUME IInv, NEW u \in Users, Unblock(u)
  PROVE  IInv'
<1>1. users[u] \in Accounts /\ users \in [Users -> Accounts]
  BY DEF IInv, TypeOK
<1>2. /\ users' \in [Users -> Accounts]
      /\ \A x \in Users : /\ users'[x].role = users[x].role
                          /\ ~ users[x].deleted => ~ users'[x].deleted
  BY <1>1 DEF Unblock, Accounts
<1>3. TypeOK'
  BY <1>2, SessionsAssumption DEF Unblock, IInv, TypeOK, Edit
<1>4. ASSUME NEW s \in Sockets PROVE SocketInv(s)'
  <2>1. SocketInv(s) /\ socket'[s] = socket[s] /\ socket[s].user \in Users
    BY DEF IInv, TypeOK, Unblock
  <2>2. Underway(socket[s].server, socket[s].user)
          => Underway(socket[s].server, socket[s].user)'
    BY <2>1 DEF Unblock, Underway
  <2> QED
    BY <1>2, <2>1, <2>2
    DEF Unblock, SocketInv, Reachable, MapIsOpen, ReadIsCurrent, AdmittedIsCurrent, Entitled
<1> QED
  BY <1>3, <1>4 DEF IInv

\* The revocation runs: it disconnects the user's sockets of this server, each of which is in
\* the room it addresses, and is on its way to the other servers.
LEMMA RevokeUserStep ==
  ASSUME IInv, NEW n \in Servers, NEW u \in Users, RevokeUser(n, u)
  PROVE  IInv'
<1>1. Reached(n, u) \in SUBSET Sockets
  BY DEF Reached
<1>2. ASSUME NEW s \in Sockets \ Reached(n, u), socket[s].connected,
             Underway(socket[s].server, socket[s].user)
      PROVE  Underway(socket[s].server, socket[s].user)'
  <2>1. socket'[s] = socket[s] /\ socket[s].server \in Servers
    BY DEF RevokeUser, Disconnect, IInv, TypeOK
  <2>2. ~ (socket[s].server = n /\ socket[s].user = u)
    BY <1>2 DEF Reached, IInv, SocketInv, Reachable
  <2>3. CASE socket[s].user = u
    BY <2>1, <2>2, <2>3 DEF RevokeUser, Underway
  <2>4. CASE socket[s].user # u
    BY <1>2, <2>1, <2>4 DEF RevokeUser, Underway
  <2> QED
    BY <2>3, <2>4
<1>3. /\ \A x \in Sockets : SocketInv(x)'
      /\ socket' \in [Sockets -> SocketRows] /\ sessions' \subseteq Sockets
  BY <1>1, <1>2, DisconnectStep DEF RevokeUser
<1>4. calls' \subseteq Servers \X Users /\ wire' \subseteq Servers \X Users
  BY DEF RevokeUser, IInv, TypeOK
<1> QED
  BY <1>3, <1>4 DEF RevokeUser, IInv, TypeOK, SocketRows

LEMMA DeliverStep ==
  ASSUME IInv, NEW n \in Servers, NEW u \in Users, DeliverRevocation(n, u)
  PROVE  IInv'
<1>1. Reached(n, u) \in SUBSET Sockets
  BY DEF Reached
<1>2. ASSUME NEW s \in Sockets \ Reached(n, u), socket[s].connected,
             Underway(socket[s].server, socket[s].user)
      PROVE  Underway(socket[s].server, socket[s].user)'
  <2>1. socket'[s] = socket[s]
    BY DEF DeliverRevocation, Disconnect
  <2>2. ~ (socket[s].server = n /\ socket[s].user = u)
    BY <1>2 DEF Reached, IInv, SocketInv, Reachable
  <2> QED
    BY <1>2, <2>1, <2>2 DEF DeliverRevocation, Underway
<1>3. /\ \A x \in Sockets : SocketInv(x)'
      /\ socket' \in [Sockets -> SocketRows] /\ sessions' \subseteq Sockets
  BY <1>1, <1>2, DisconnectStep DEF DeliverRevocation
<1> QED
  BY <1>3 DEF DeliverRevocation, IInv, TypeOK, SocketRows

LEMMA LoseStep ==
  ASSUME IInv, NEW n \in Servers, NEW u \in Users, LoseRevocation(n, u)
  PROVE  IInv'
<1>1. TypeOK'
  BY SessionsAssumption DEF LoseRevocation, Fault, IInv, TypeOK
<1>2. \A s \in Sockets : Underway(socket[s].server, socket[s].user)
                           => Underway(socket[s].server, socket[s].user)'
  BY DEF LoseRevocation, Underway
<1> QED
  BY <1>1, <1>2, NobodyMoved DEF LoseRevocation, IInv

\* The cron disconnects sockets and changes nothing else.
LEMMA CronStep ==
  ASSUME IInv, NEW n \in Servers, Revalidation(n)
  PROVE  IInv'
<1>1. CASE StartRevalidation(n) \/ ReadAccounts(n)
  <2>1. cron[n] \in [at: {"IDLE", "QUERYING", "DECIDING"}, batch: SUBSET Sockets,
                     rows: [Users -> Accounts]]
    BY DEF IInv, TypeOK
  <2>2. Local(n) \in SUBSET Sockets
    BY DEF Local, IInv, TypeOK
  <2>3. cron' \in [Servers -> [at: {"IDLE", "QUERYING", "DECIDING"}, batch: SUBSET Sockets,
                               rows: [Users -> Accounts]]]
    <3>1. CASE StartRevalidation(n)
      BY <2>2, <3>1, FreshRows DEF StartRevalidation, IInv, TypeOK
    <3>2. CASE ReadAccounts(n)
      BY <2>1, <3>2 DEF ReadAccounts, IInv, TypeOK
    <3> QED
      BY <1>1, <3>1, <3>2
  <2>5. TypeOK'
    BY <1>1, <2>3 DEF StartRevalidation, ReadAccounts, IInv, TypeOK
  <2>4. \A s \in Sockets : Underway(socket[s].server, socket[s].user)
                             => Underway(socket[s].server, socket[s].user)'
    BY <1>1 DEF StartRevalidation, ReadAccounts, Underway
  <2> QED
    BY <1>1, <2>4, <2>5, NobodyMoved DEF StartRevalidation, ReadAccounts, IInv
<1>2. CASE Revalidate(n)
  <2> DEFINE gone == {s \in cron[n].batch :
                        LosesAccess(socket[s], cron[n].rows[socket[s].user])}
  <2>1. gone \in SUBSET Sockets
    BY DEF IInv, TypeOK
  <2>2. Disconnect(gone) /\ UNCHANGED <<users, calls, wire, missed, edits, faults>>
    BY <1>2 DEF Revalidate
  <2> HIDE DEF gone
  <2>3. ASSUME NEW s \in Sockets \ gone, Underway(socket[s].server, socket[s].user)
        PROVE  Underway(socket[s].server, socket[s].user)'
    <3>1. socket'[s] = socket[s]
      BY <2>2 DEF Disconnect
    <3> QED
      BY <2>2, <2>3, <3>1 DEF Underway
  <2>4. /\ \A x \in Sockets : SocketInv(x)'
        /\ socket' \in [Sockets -> SocketRows] /\ sessions' \subseteq Sockets
    BY <2>1, <2>2, <2>3, DisconnectStep
  <2> QED
    BY <1>2, <2>2, <2>4, FreshRows DEF Revalidate, IInv, TypeOK, SocketRows
<1> QED
  BY <1>1, <1>2 DEF Revalidation

LEMMA CronFailsStep ==
  ASSUME IInv, NEW n \in Servers, RevalidationFails(n)
  PROVE  IInv'
<1>1. cron[n].batch \in SUBSET Sockets
  BY DEF IInv, TypeOK
<1>2. Disconnect(cron[n].batch) /\ UNCHANGED <<users, calls, wire, missed, edits>>
  BY DEF RevalidationFails
<1>3. ASSUME NEW s \in Sockets \ cron[n].batch, Underway(socket[s].server, socket[s].user)
      PROVE  Underway(socket[s].server, socket[s].user)'
  <2>1. socket'[s] = socket[s]
    BY <1>2 DEF Disconnect
  <2> QED
    BY <1>2, <1>3, <2>1 DEF Underway
<1>4. /\ \A x \in Sockets : SocketInv(x)'
      /\ socket' \in [Sockets -> SocketRows] /\ sessions' \subseteq Sockets
  BY <1>1, <1>2, <1>3, DisconnectStep
<1> QED
  BY <1>2, <1>4, FreshRows, SessionsAssumption
  DEF RevalidationFails, Fault, IInv, TypeOK, SocketRows

\* A process ends: its sockets with it, and every server misses the revocations it owed.
LEMMA StopStep ==
  ASSUME IInv, NEW n \in Servers, ServerStops(n)
  PROVE  IInv'
<1>1. socket' \in [Sockets -> SocketRows]
  BY FreshRows DEF ServerStops, IInv, TypeOK, SocketRows
<1>2. /\ calls' \subseteq Servers \X Users /\ wire' \subseteq Servers \X Users
      /\ missed' \subseteq Servers \X Users /\ sessions' \subseteq Sockets
  BY DEF ServerStops, IInv, TypeOK
<1>3. TypeOK'
  BY <1>1, <1>2, FreshRows, SessionsAssumption
  DEF ServerStops, Fault, IInv, TypeOK, SocketRows
<1>4. ASSUME NEW s \in Sockets PROVE SocketInv(s)'
  <2>1. CASE socket[s].server = n
    <3>1. socket'[s] = Closed
      BY <2>1 DEF ServerStops
    <3>2. s \notin sessions'
      BY <2>1 DEF ServerStops, Local
    <3> QED
      BY <3>1, <3>2, ClosedSocket
  <2>2. CASE socket[s].server # n
    <3>1. socket'[s] = socket[s] /\ (s \in sessions' <=> s \in sessions) /\ UNCHANGED users
      BY <2>2 DEF ServerStops, Local
    <3>2. socket[s].server \in Servers /\ socket[s].user \in Users
      BY DEF IInv, TypeOK
    <3>3. ASSUME Underway(socket[s].server, socket[s].user)
          PROVE  Underway(socket[s].server, socket[s].user)'
      <4>1. CASE <<socket[s].server, socket[s].user>> \in wire \cup missed
        BY <2>2, <3>1, <4>1 DEF ServerStops, Underway
      <4>2. ASSUME NEW m \in Servers, <<m, socket[s].user>> \in calls
            PROVE  Underway(socket[s].server, socket[s].user)'
        <5>1. CASE m = n
          <6>1. <<m, socket[s].user>> \in calls \ calls'
            BY <4>2, <5>1 DEF ServerStops
          <6>2. <<m, socket[s].user>>[2] = socket[s].user
            OBVIOUS
          <6>3. socket[s].user \in {c[2] : c \in calls \ calls'}
            BY <6>1, <6>2
          <6> QED
            BY <3>1, <3>2, <6>3 DEF ServerStops, Underway
        <5>2. CASE m # n
          BY <3>1, <4>2, <5>2 DEF ServerStops, Underway
        <5> QED
          BY <5>1, <5>2
      <4> QED
        BY <3>3, <4>1, <4>2 DEF Underway
    <3>4. SocketInv(s)
      BY DEF IInv
    <3> QED
      BY <3>1, <3>3, <3>4, Untouched
  <2> QED
    BY <2>1, <2>2
<1> QED
  BY <1>3, <1>4 DEF IInv

LEMMA NextInv == IInv /\ [Next]_vars => IInv'
<1> SUFFICES ASSUME IInv, [Next]_vars PROVE IInv'
  OBVIOUS
<1>1. ASSUME NEW s \in Sockets, NEW u \in Users, NEW n \in Servers, Connect(s, u, n)
      PROVE  IInv'
  BY <1>1, ConnectStep
<1>2. ASSUME NEW s \in Sockets, Handshake(s)
      PROVE  IInv'
  BY <1>2, ReadAccountStep, AdmitStep, JoinOwnRoomStep, RegisterStep DEF Handshake
<1>3. ASSUME NEW s \in Sockets,
             HandshakeFails(s) \/ ClientLeaves(s) \/ TokenExpires(s) \/ ExpiryTimer(s)
      PROVE  IInv'
  BY <1>3, HandshakeFailsStep, LeavesStep, TokenExpiresStep
<1>4. ASSUME NEW n \in Servers, NEW u \in Users,
             \/ Block(u, n) \/ (\E r \in Roles : ChangeRole(u, r, n))
             \/ RevokeUser(n, u) \/ DeliverRevocation(n, u) \/ LoseRevocation(n, u)
      PROVE  IInv'
  BY <1>4, BlockStep, ChangeRoleStep, RevokeUserStep, DeliverStep, LoseStep
<1>5. ASSUME NEW u \in Users, Unblock(u)
      PROVE  IInv'
  BY <1>5, UnblockStep
<1>6. ASSUME NEW n \in Servers, Revalidation(n) \/ RevalidationFails(n) \/ ServerStops(n)
      PROVE  IInv'
  BY <1>6, CronStep, CronFailsStep, StopStep
<1>7. CASE UNCHANGED vars
  <2>1. TypeOK'
    BY <1>7 DEF vars, IInv, TypeOK
  <2>2. \A s \in Sockets : Underway(socket[s].server, socket[s].user)
                             => Underway(socket[s].server, socket[s].user)'
    BY <1>7 DEF vars, Underway
  <2> QED
    BY <1>7, <2>1, <2>2, NobodyMoved DEF vars, IInv
<1> QED
  BY <1>1, <1>2, <1>3, <1>4, <1>5, <1>6, <1>7 DEF Next

\* The invariant above holds in every reachable state.
THEOREM Invariance == Spec => []IInv
<1> QED
  BY InitInv, NextInv, PTL DEF Spec

\* A socket in the CRM rooms whose user lost the account or the role has a revocation under
\* way, or one was lost: no interleaving of handleConnection with blockUser or
\* updateAdminUser lets it in behind the revocation.
THEOREM NobodySlipsThrough == Spec => []NoneSlipsThrough
<1> QED
  BY Invariance, IInvImplies, PTL

\* Every session of the map is a connected socket, and every socket that sits in CRM rooms
\* after its handshake is in the map, with its timer and under the eyes of the cron.
THEOREM HoldersAreWatched == Spec => []EveryHolderWatched
<1> QED
  BY Invariance, IInvImplies, PTL
=============================================================================
