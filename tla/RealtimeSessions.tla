-------------------------- MODULE RealtimeSessions --------------------------
(***************************************************************************)
(* The CRM sockets of lead/realtime/lead-realtime.gateway.ts and the two    *)
(* administrator calls that take access away (admin.controller.ts blockUser *)
(* and admin.service.ts updateAdminUser).                                   *)
(*                                                                         *)
(* A handshake waits for the database between reading an account and using *)
(* what it read, while an administrator changes the account on another     *)
(* server: a change is committed first and revokes the user's sockets       *)
(* afterwards, at once on the administrator's server and by a message of    *)
(* the Redis adapter on the others.  The message, or the call itself, may   *)
(* be lost; the cron that revalidates the open sessions is the safety net.  *)
(***************************************************************************)
EXTENDS Naturals, FiniteSets

CONSTANTS Users, Sockets, Servers,
          MaxEdits,     \* account changes
          MaxFaults     \* failed reads, lost messages, processes that die

ASSUME SessionsAssumption ==
  Users # {} /\ Servers # {} /\ MaxEdits \in Nat /\ MaxFaults \in Nat

CrmRoles == {"SALES_MANAGER", "EXPERT"}
Roles == CrmRoles \cup {"STUDENT"}
Accounts == [deleted: BOOLEAN, role: Roles]
NoAccount == [deleted |-> TRUE, role |-> "STUDENT"]

\* The rooms of one socket: the one revocations address, and those CRM events go to.
CrmRooms == {"UNASSIGNED", "SALES_OWN", "EXPERT_OWN"}
Rooms == CrmRooms \cup {"SESSION"}

VARIABLES
  users,      \* the account rows
  socket,     \* per socket: how far its handshake is, what it read, its rooms
  sessions,   \* the sockets the gateways' maps know, each with its expiry timer
  calls,      \* <<server, user>>: a committed change whose revokeUser() is still to run
  wire,       \* <<server, user>>: a revocation the adapter has still to deliver there
  cron,       \* per server: the revalidation under way
  missed,     \* history: <<server, user>> a revocation never reached
  edits, faults

vars == <<users, socket, sessions, calls, wire, cron, missed, edits, faults>>

Handshakes == {"CLOSED", "JOINED", "READ", "JOINING", "LAST", "OPEN"}

Closed == [at |-> "CLOSED", server |-> CHOOSE n \in Servers : TRUE,
           user |-> CHOOSE u \in Users : TRUE, row |-> NoAccount,
           role |-> "STUDENT", rooms |-> {}, connected |-> FALSE, expired |-> FALSE]

Idle == [at |-> "IDLE", batch |-> {}, rows |-> [u \in Users |-> NoAccount]]

TypeOK ==
  /\ users \in [Users -> Accounts]
  /\ socket \in [Sockets -> [at: Handshakes, server: Servers, user: Users, row: Accounts,
                            role: Roles, rooms: SUBSET Rooms, connected: BOOLEAN,
                            expired: BOOLEAN]]
  /\ sessions \subseteq Sockets
  /\ calls \subseteq Servers \X Users
  /\ wire \subseteq Servers \X Users
  /\ missed \subseteq Servers \X Users
  /\ cron \in [Servers -> [at: {"IDLE", "QUERYING", "DECIDING"}, batch: SUBSET Sockets,
                          rows: [Users -> Accounts]]]
  /\ edits \in 0..MaxEdits
  /\ faults \in 0..MaxFaults

Init ==
  /\ users \in [Users -> {[deleted |-> FALSE, role |-> r] : r \in CrmRoles}]
  /\ socket = [s \in Sockets |-> Closed]
  /\ sessions = {}
  /\ calls = {}
  /\ wire = {}
  /\ cron = [n \in Servers |-> Idle]
  /\ missed = {}
  /\ edits = 0
  /\ faults = 0

Fault == faults < MaxFaults /\ faults' = faults + 1

\* A disconnected socket has left its rooms; a handshake of it that is still waiting
\* finds that out when it goes on.
Disconnected(k) == [k EXCEPT !.connected = FALSE, !.rooms = {},
                             !.at = IF @ = "OPEN" THEN "CLOSED" ELSE @]

\* The disconnect hook takes the socket out of the map, and its timer with it.
Disconnect(gone) ==
  /\ socket' = [s \in Sockets |-> IF s \in gone THEN Disconnected(socket[s]) ELSE socket[s]]
  /\ sessions' = sessions \ gone

\* The handler returns, with the socket closed if it was not already.
GiveUp(s) ==
  /\ socket' = [socket EXCEPT ![s] = Closed]
  /\ sessions' = sessions \ {s}

(* --------------------------- the handshake ------------------------------ *)

FirstRooms == {"SESSION"}

\* A verified, unexpired token; the socket joins the room revocations address.  A
\* socket's name is used again when nothing refers to the earlier one any more.
Connect(s, u, n) ==
  /\ socket[s].at = "CLOSED"
  /\ \A m \in Servers : s \notin cron[m].batch
  /\ socket' = [socket EXCEPT ![s] = [Closed EXCEPT !.at = "JOINED", !.server = n,
                  !.user = u, !.rooms = FirstRooms, !.connected = TRUE]]
  /\ UNCHANGED <<users, sessions, calls, wire, cron, missed, edits, faults>>

ReadAccount(s) ==
  /\ socket[s].at = "JOINED"
  /\ IF socket[s].connected
     THEN /\ socket' = [socket EXCEPT ![s].at = "READ", ![s].row = users[socket[s].user]]
          /\ UNCHANGED sessions
     ELSE GiveUp(s)
  /\ UNCHANGED <<users, calls, wire, cron, missed, edits, faults>>

\* The account is the one that was read; whether the socket is still there is not.
Admitted(k) == ~ k.row.deleted /\ k.row.role \in CrmRoles /\ k.connected /\ ~ k.expired

Admit(s) ==
  /\ socket[s].at = "READ"
  /\ LET k == socket[s] IN
       IF Admitted(k)
       THEN /\ socket' = [socket EXCEPT ![s] =
                 [k EXCEPT !.role = k.row.role,
                    !.at = IF k.row.role = "SALES_MANAGER" THEN "JOINING" ELSE "LAST",
                    !.rooms = @ \cup (IF k.row.role = "SALES_MANAGER" THEN {"UNASSIGNED"}
                                      ELSE {"EXPERT_OWN"})]]
            /\ UNCHANGED sessions
       ELSE GiveUp(s)
  /\ UNCHANGED <<users, calls, wire, cron, missed, edits, faults>>

JoinOwnRoom(s) ==
  /\ socket[s].at = "JOINING"
  /\ IF socket[s].connected
     THEN /\ socket' = [socket EXCEPT ![s].at = "LAST", ![s].rooms = @ \cup {"SALES_OWN"}]
          /\ UNCHANGED sessions
     ELSE GiveUp(s)
  /\ UNCHANGED <<users, calls, wire, cron, missed, edits, faults>>

\* bug: the disconnected socket is not noticed.
Whatever(k) == TRUE

StillThere(k) == k.connected

\* The session is entered in the map, with its timer, only if the socket is still there.
Register(s) ==
  /\ socket[s].at = "LAST"
  /\ IF StillThere(socket[s])
     THEN /\ socket' = [socket EXCEPT ![s].at = "OPEN"]
          /\ sessions' = sessions \cup {s}
     ELSE GiveUp(s)
  /\ UNCHANGED <<users, calls, wire, cron, missed, edits, faults>>

\* A read that fails, or anything else that throws, closes the socket.
HandshakeFails(s) ==
  /\ socket[s].at \in {"JOINED", "READ", "JOINING"}
  /\ Fault
  /\ GiveUp(s)
  /\ UNCHANGED <<users, calls, wire, cron, missed, edits>>

(* ------------------------ the life of a session ------------------------- *)

ClientLeaves(s) ==
  /\ socket[s].connected
  /\ Disconnect({s})
  /\ UNCHANGED <<users, calls, wire, cron, missed, edits, faults>>

TokenExpires(s) ==
  /\ socket[s].connected /\ ~ socket[s].expired
  /\ socket' = [socket EXCEPT ![s].expired = TRUE]
  /\ UNCHANGED <<users, sessions, calls, wire, cron, missed, edits, faults>>

ExpiryTimer(s) ==
  /\ s \in sessions /\ socket[s].expired
  /\ Disconnect({s})
  /\ UNCHANGED <<users, calls, wire, cron, missed, edits, faults>>

(* -------------------------- the administrator --------------------------- *)

Edit == edits < MaxEdits /\ edits' = edits + 1

RevokesAfter(u, n) == calls' = calls \cup {<<n, u>>}

\* The row is written; revokeUser() is the next thing this server does for the call.
Block(u, n) ==
  /\ Edit
  /\ users' = [users EXCEPT ![u].deleted = TRUE]
  /\ RevokesAfter(u, n)
  /\ UNCHANGED <<socket, sessions, wire, cron, missed, faults>>

ChangeRole(u, r, n) ==
  /\ Edit
  /\ users' = [users EXCEPT ![u].role = r]
  /\ RevokesAfter(u, n)
  /\ UNCHANGED <<socket, sessions, wire, cron, missed, faults>>

Unblock(u) ==
  /\ Edit
  /\ users' = [users EXCEPT ![u].deleted = FALSE]
  /\ UNCHANGED <<socket, sessions, calls, wire, cron, missed, faults>>

\* bug: disconnects only the sessions already in the map.
ReachedSessions(n, u) == {s \in sessions : socket[s].server = n /\ socket[s].user = u}

\* Whom a revocation reaches on a server: everyone in the user's session room there.
Reached(n, u) == {s \in Sockets : /\ socket[s].server = n
                                  /\ socket[s].user = u
                                  /\ "SESSION" \in socket[s].rooms}

RevokeUser(n, u) ==
  /\ <<n, u>> \in calls
  /\ calls' = calls \ {<<n, u>>}
  /\ wire' = wire \cup ((Servers \ {n}) \X {u})
  /\ Disconnect(Reached(n, u))
  /\ UNCHANGED <<users, cron, missed, edits, faults>>

DeliverRevocation(n, u) ==
  /\ <<n, u>> \in wire
  /\ wire' = wire \ {<<n, u>>}
  /\ Disconnect(Reached(n, u))
  /\ UNCHANGED <<users, calls, cron, missed, edits, faults>>

LoseRevocation(n, u) ==
  /\ <<n, u>> \in wire
  /\ Fault
  /\ wire' = wire \ {<<n, u>>}
  /\ missed' = missed \cup {<<n, u>>}
  /\ UNCHANGED <<users, socket, sessions, calls, cron, edits>>

(* ------------------------- the revalidation cron ------------------------ *)

Local(n) == {s \in sessions : socket[s].server = n}

\* Every 30 seconds, and never twice at once on a server (waitForCompletion).
StartRevalidation(n) ==
  /\ cron[n].at = "IDLE"
  /\ Local(n) # {}
  /\ cron' = [cron EXCEPT ![n] = [Idle EXCEPT !.at = "QUERYING", !.batch = Local(n)]]
  /\ UNCHANGED <<users, socket, sessions, calls, wire, missed, edits, faults>>

ReadAccounts(n) ==
  /\ cron[n].at = "QUERYING"
  /\ cron' = [cron EXCEPT ![n].at = "DECIDING", ![n].rows = users]
  /\ UNCHANGED <<users, socket, sessions, calls, wire, missed, edits, faults>>

\* bug: looks only for blocked users and spent tokens.
LosesAccessIfBlocked(k, row) == row.deleted \/ k.expired

LosesAccess(k, row) == row.deleted \/ row.role # k.role \/ k.expired

Revalidate(n) ==
  /\ cron[n].at = "DECIDING"
  /\ Disconnect({s \in cron[n].batch : LosesAccess(socket[s], cron[n].rows[socket[s].user])})
  /\ cron' = [cron EXCEPT ![n] = Idle]
  /\ UNCHANGED <<users, calls, wire, missed, edits, faults>>

\* Without an answer nobody's access is known: the batch is disconnected.
RevalidationFails(n) ==
  /\ cron[n].at = "QUERYING"
  /\ Fault
  /\ Disconnect(cron[n].batch)
  /\ cron' = [cron EXCEPT ![n] = Idle]
  /\ UNCHANGED <<users, calls, wire, missed, edits>>

\* A process ends: its sockets with it, and the revocations it had still to send.
ServerStops(n) ==
  /\ Fault
  /\ socket' = [s \in Sockets |-> IF socket[s].server = n THEN Closed ELSE socket[s]]
  /\ sessions' = sessions \ Local(n)
  /\ cron' = [cron EXCEPT ![n] = Idle]
  /\ calls' = {c \in calls : c[1] # n}
  /\ wire' = {w \in wire : w[1] # n}
  /\ missed' = missed \cup (Servers \X {c[2] : c \in calls \ calls'})
  /\ UNCHANGED <<users, edits>>

Handshake(s) == ReadAccount(s) \/ Admit(s) \/ JoinOwnRoom(s) \/ Register(s)
Revalidation(n) == StartRevalidation(n) \/ ReadAccounts(n) \/ Revalidate(n)

Next ==
  \/ \E s \in Sockets : \/ \E u \in Users, n \in Servers : Connect(s, u, n)
                        \/ Handshake(s) \/ HandshakeFails(s)
                        \/ ClientLeaves(s) \/ TokenExpires(s) \/ ExpiryTimer(s)
  \/ \E n \in Servers, u \in Users :
       \/ Block(u, n) \/ (\E r \in Roles : ChangeRole(u, r, n))
       \/ RevokeUser(n, u) \/ DeliverRevocation(n, u) \/ LoseRevocation(n, u)
  \/ \E u \in Users : Unblock(u)
  \/ \E n \in Servers : Revalidation(n) \/ RevalidationFails(n) \/ ServerStops(n)

Spec == Init /\ [][Next]_vars

\* A handshake that has begun goes on, timers fire, and every server's cron keeps
\* running.  Nothing is promised of a message between servers or of a process.
Fairness ==
  /\ \A s \in Sockets : WF_vars(Handshake(s)) /\ WF_vars(ExpiryTimer(s))
  /\ \A n \in Servers : WF_vars(Revalidation(n))

FairSpec == Spec /\ Fairness

(* ------------------------------ properties ------------------------------ *)

HoldsCrmRooms(s) == socket[s].rooms \cap CrmRooms # {}

Entitled(s) == LET row == users[socket[s].user] IN
  ~ row.deleted /\ row.role = socket[s].role

Underway(n, u) == <<n, u>> \in wire \cup missed \/ \E m \in Servers : <<m, u>> \in calls

\* A socket in the CRM rooms whose user was blocked or given another role has a
\* revocation on its way, unless that very revocation was lost: no interleaving of a
\* handshake with the change lets it in behind the revocation
\* (handleConnection, "closing the block-versus-handshake race").
NoneSlipsThrough ==
  \A s \in Sockets : HoldsCrmRooms(s) /\ ~ Entitled(s)
                       => Underway(socket[s].server, socket[s].user)

\* The map and the sockets agree when no handshake is under way: each session is a
\* connected socket, and each socket that sits in CRM rooms has its timer and is seen
\* by the cron.
EveryHolderWatched ==
  /\ \A s \in sessions : socket[s].connected
  /\ \A s \in Sockets : HoldsCrmRooms(s) /\ socket[s].at \notin {"JOINING", "LAST"}
                          => s \in sessions

\* Even when the revocation was lost, a socket that is no longer entitled, or whose
\* token ran out, ends up without CRM rooms (or its user gets the access back): the
\* cron and the timers do what the message did not.
AccessEnds ==
  \A s \in Sockets : HoldsCrmRooms(s) /\ (~ Entitled(s) \/ socket[s].expired)
                       ~> ~ HoldsCrmRooms(s) \/ (Entitled(s) /\ ~ socket[s].expired)

=============================================================================
