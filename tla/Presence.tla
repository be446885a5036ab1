------------------------------ MODULE Presence ------------------------------
(***************************************************************************)
(* The WebSocket connections of one user: the Redis set ws:online:<uid>    *)
(* that every server instance shares, the handshake and the disconnect     *)
(* handler of each socket, its 60 s timer, and what the watchers of the    *)
(* presence room are told.  A socket may drop at any await of its          *)
(* handshake, and the disconnect handler then runs in its midst.           *)
(*                                                                         *)
(* A process sends its Redis commands over one connection, so the SREM of  *)
(* a socket reaches Redis after its SADD; a reply is handled later than    *)
(* the command took effect.  An announcement reaches the watchers at once. *)
(***************************************************************************)
EXTENDS Integers, FiniteSets

CONSTANTS
  Socket,          \* socket ids; one is never used twice
  MaxConnections,  \* MAX_CONNECTIONS_PER_USER
  Ttl,             \* EXPIRE of the set, in timer periods (300 s / 60 s)
  MaxPresenceFaults        \* bound on failing calls and crashes

ASSUME PresenceAssumption ==
  /\ MaxConnections \in Nat \ {0}
  /\ MaxPresenceFaults \in Nat
  /\ Ttl \in Nat /\ Ttl > MaxPresenceFaults + 1

VARIABLES
  online,   \* members of ws:online:<uid>
  ttl,      \* periods until it expires; 0 when it is empty
  sock,     \* sock[s]: socket s and the state of its handlers
  shownOnline,    \* the last presence:update said that the user is online
  presenceFaults

presenceVars == <<online, ttl, sock, shownOnline, presenceFaults>>

HandshakePc == {"auth", "register", "registered", "full", "compensate", "load"}

SockState ==
  [pc         : {"new", "open", "over"} \cup HandshakePc,   \* handleConnection
   connected  : BOOLEAN,
   identified : BOOLEAN,                          \* client.data.userId is set
   first      : BOOLEAN,                          \* the set was empty before
   timer      : {"off", "set", "due", "check"},   \* the 60 s timer and its callback
   removal    : {"none", "sent", "last"}]         \* handleDisconnect

PresenceTypeOK ==
  /\ online \subseteq Socket
  /\ ttl \in 0..Ttl /\ (ttl = 0 <=> online = {})
  /\ sock \in [Socket -> SockState]
  /\ shownOnline \in BOOLEAN
  /\ presenceFaults \in 0..MaxPresenceFaults

PresenceInit ==
  /\ online = {} /\ ttl = 0 /\ shownOnline = FALSE /\ presenceFaults = 0
  /\ sock = [s \in Socket |-> [pc |-> "new", connected |-> FALSE, identified |-> FALSE,
                               first |-> FALSE, timer |-> "off", removal |-> "none"]]

-----------------------------------------------------------------------------
SockAt(s, pc) == sock[s].pc = pc
SockBecomes(s, state) == sock' = [sock EXCEPT ![s] = state]
SockGoes(s, pc) == SockBecomes(s, [sock[s] EXCEPT !.pc = pc])

\* The lifetime of the set when it becomes members and t is its expiry.
Alive(members, t) == IF members = {} THEN 0 ELSE t

\* removeOnlineSocket: SREM, and DEL of an empty set.
RemoveOnline(s) ==
  /\ online' = online \ {s}
  /\ ttl' = Alive(online', ttl)

PresenceFault == presenceFaults < MaxPresenceFaults /\ presenceFaults' = presenceFaults + 1

(* handleDisconnect: the timer is cleared, a callback of it that has begun goes
   on; without an identity there is nothing to remove.                        *)
Dropped(st) ==
  [st EXCEPT !.connected = FALSE,
             !.timer = IF @ = "check" THEN "check" ELSE "off",
             !.removal = IF st.identified THEN "sent" ELSE "none"]

\* client.disconnect() by the server; a socket that has dropped is left as it is.
Disconnected(st) == IF st.connected THEN Dropped(st) ELSE st

Refuse(s) == SockBecomes(s, [Disconnected(sock[s]) EXCEPT !.pc = "over"])

-----------------------------------------------------------------------------
ConnectSocket(s) ==
  /\ SockAt(s, "new")
  /\ SockBecomes(s, [sock[s] EXCEPT !.pc = "auth", !.connected = TRUE])
  /\ UNCHANGED <<online, ttl, shownOnline, presenceFaults>>

\* The client leaves, or its heartbeat stops, whatever the handlers are doing.
Drop(s) ==
  /\ sock[s].connected
  /\ SockBecomes(s, Dropped(sock[s]))
  /\ UNCHANGED <<online, ttl, shownOnline, presenceFaults>>

AuthRefused(s) ==
  /\ SockAt(s, "auth")
  /\ Refuse(s)
  /\ UNCHANGED <<online, ttl, shownOnline, presenceFaults>>

\* Faulty: the identity is not left on the socket for the disconnect handler.
AuthenticateAnonymous(s) ==
  /\ SockAt(s, "auth")
  /\ SockGoes(s, IF sock[s].connected THEN "register" ELSE "over")
  /\ UNCHANGED <<online, ttl, shownOnline, presenceFaults>>

Authenticate(s) ==
  /\ SockAt(s, "auth")
  /\ SockBecomes(s, [sock[s] EXCEPT !.identified = TRUE,
                               !.pc = IF sock[s].connected THEN "register" ELSE "over"])
  /\ UNCHANGED <<online, ttl, shownOnline, presenceFaults>>

\* SCARD, SADD and EXPIRE in one script.
Register(s) ==
  /\ SockAt(s, "register")
  /\ IF Cardinality(online) >= MaxConnections
     THEN SockGoes(s, "full") /\ UNCHANGED <<online, ttl>>
     ELSE /\ online' = online \cup {s} /\ ttl' = Ttl
          /\ SockBecomes(s, [sock[s] EXCEPT !.pc = "registered", !.first = online = {}])
  /\ UNCHANGED <<shownOnline, presenceFaults>>

RefuseFull(s) ==
  /\ SockAt(s, "full")
  /\ Refuse(s)
  /\ UNCHANGED <<online, ttl, shownOnline, presenceFaults>>

\* The reply: the socket may have dropped since the script was sent.
RegisterReplies(s) ==
  /\ SockAt(s, "registered")
  /\ SockGoes(s, IF sock[s].connected THEN "load" ELSE "compensate")
  /\ UNCHANGED <<online, ttl, shownOnline, presenceFaults>>

CompensateRegister(s) ==
  /\ SockAt(s, "compensate")
  /\ RemoveOnline(s) /\ SockGoes(s, "over")
  /\ UNCHANGED <<shownOnline, presenceFaults>>

\* Faulty: a socket that dropped meanwhile is announced and gets a timer.
OpenUnchecked(s) ==
  /\ SockAt(s, "load")
  /\ shownOnline' = (shownOnline \/ sock[s].first)
  /\ SockBecomes(s, [sock[s] EXCEPT !.pc = "open", !.timer = "set"])
  /\ UNCHANGED <<online, ttl, presenceFaults>>

\* The account is fine.  Only the socket that found the set empty is announced.
Open(s) ==
  /\ SockAt(s, "load")
  /\ IF sock[s].connected
     THEN /\ shownOnline' = (shownOnline \/ sock[s].first)
          /\ SockBecomes(s, [sock[s] EXCEPT !.pc = "open", !.timer = "set"])
     ELSE UNCHANGED shownOnline /\ SockGoes(s, "over")
  /\ UNCHANGED <<online, ttl, presenceFaults>>

\* The account is disabled or deleted, or the database does not answer.
AccountRefused(s) ==
  /\ SockAt(s, "load")
  /\ Refuse(s)
  /\ UNCHANGED <<online, ttl, shownOnline, presenceFaults>>

-----------------------------------------------------------------------------
\* The disconnect handler's SREM takes effect, after the socket's own SADD ...
RemoveMember(s) ==
  /\ sock[s].removal = "sent" /\ ~SockAt(s, "register")
  /\ RemoveOnline(s)
  /\ SockBecomes(s, [sock[s] EXCEPT !.removal = IF online' = {} THEN "last" ELSE "none"])
  /\ UNCHANGED <<shownOnline, presenceFaults>>

\* ... and the handler learns that no connection is left.
AnnounceOffline(s) ==
  /\ sock[s].removal = "last"
  /\ shownOnline' = FALSE
  /\ SockBecomes(s, [sock[s] EXCEPT !.removal = "none"])
  /\ UNCHANGED <<online, ttl, presenceFaults>>

-----------------------------------------------------------------------------
SocketTimerFires(s) ==
  /\ sock[s].timer = "due"
  /\ SockBecomes(s, [sock[s] EXCEPT !.timer = "check"])
  /\ UNCHANGED <<online, ttl, shownOnline, presenceFaults>>

CallbackOver(st) == [st EXCEPT !.timer = IF st.connected THEN "set" ELSE "off"]

\* The token has expired or was revoked, or the account is gone.
Kick(s) ==
  /\ sock[s].timer = "check"
  /\ SockBecomes(s, CallbackOver(Disconnected(sock[s])))
  /\ UNCHANGED <<online, ttl, shownOnline, presenceFaults>>

\* Faulty: the set is not kept alive.
RenewNothing(s) ==
  /\ sock[s].timer = "check"
  /\ SockBecomes(s, CallbackOver(sock[s]))
  /\ UNCHANGED <<online, ttl, shownOnline, presenceFaults>>

\* refreshOnlineTtl: the expiry of the whole set, whoever is in it.
Renew(s) ==
  /\ sock[s].timer = "check"
  /\ ttl' = Alive(online, Ttl)
  /\ SockBecomes(s, CallbackOver(sock[s]))
  /\ UNCHANGED <<online, shownOnline, presenceFaults>>

-----------------------------------------------------------------------------
\* A call to Redis fails, executed or not.
RegisterFails(s) ==
  /\ SockAt(s, "register") /\ PresenceFault
  /\ \/ UNCHANGED <<online, ttl>>
     \/ /\ Cardinality(online) < MaxConnections
        /\ online' = online \cup {s} /\ ttl' = Ttl
  /\ Refuse(s)
  /\ UNCHANGED shownOnline

CompensateFails(s) ==
  /\ SockAt(s, "compensate") /\ PresenceFault
  /\ UNCHANGED <<online, ttl>> \/ RemoveOnline(s)
  /\ SockGoes(s, "over")
  /\ UNCHANGED shownOnline

\* An SREM that fails is announced as if it had been the last connection.
RemoveFails(s) ==
  /\ sock[s].removal = "sent" /\ ~SockAt(s, "register") /\ PresenceFault
  /\ UNCHANGED <<online, ttl>> \/ RemoveOnline(s)
  /\ SockBecomes(s, [sock[s] EXCEPT !.removal = "last"])
  /\ UNCHANGED shownOnline

RenewFails(s) ==
  /\ sock[s].timer = "check" /\ PresenceFault
  /\ SockBecomes(s, CallbackOver(sock[s]))
  /\ UNCHANGED <<online, ttl, shownOnline>>

\* The instance that serves these sockets dies: they drop, and no handler runs on.
Crash(served) ==
  /\ served # {} /\ \A s \in served : ~SockAt(s, "new")
  /\ PresenceFault
  /\ sock' = [s \in Socket |->
       IF s \in served
       THEN [sock[s] EXCEPT !.pc = "over", !.connected = FALSE, !.timer = "off",
                            !.removal = "none"]
       ELSE sock[s]]
  /\ UNCHANGED <<online, ttl, shownOnline>>

-----------------------------------------------------------------------------
SocketSettled(s) == /\ sock[s].pc \notin HandshakePc
              /\ sock[s].timer \in {"off", "set"}
              /\ sock[s].removal = "none"

Calm == \A s \in Socket : SocketSettled(s)

\* Faulty: the set never expires.
MinuteForever ==
  /\ Calm
  /\ sock' = [s \in Socket |->
       [sock[s] EXCEPT !.timer = IF @ = "set" THEN "due" ELSE @]]
  /\ UNCHANGED <<online, ttl, shownOnline, presenceFaults>>

\* 60 s go by: longer than any handler takes.
Minute ==
  /\ Calm
  /\ ttl' = IF ttl = 0 THEN 0 ELSE ttl - 1
  /\ online' = IF ttl' = 0 THEN {} ELSE online
  /\ sock' = [s \in Socket |->
       [sock[s] EXCEPT !.timer = IF @ = "set" THEN "due" ELSE @]]
  /\ UNCHANGED <<shownOnline, presenceFaults>>

HandshakeStep(s) ==
  \/ AuthRefused(s) \/ Authenticate(s) \/ Register(s) \/ RefuseFull(s)
  \/ RegisterReplies(s) \/ CompensateRegister(s) \/ Open(s) \/ AccountRefused(s)
RemovalStep(s) == RemoveMember(s) \/ AnnounceOffline(s)
TimerStep(s)   == SocketTimerFires(s) \/ Kick(s) \/ Renew(s)
FaultStep(s)   == RegisterFails(s) \/ CompensateFails(s) \/ RemoveFails(s) \/ RenewFails(s)

PresenceNext ==
  \/ \E s \in Socket : \/ ConnectSocket(s) \/ Drop(s) \/ HandshakeStep(s)
                       \/ RemovalStep(s) \/ TimerStep(s) \/ FaultStep(s)
  \/ \E served \in SUBSET Socket : Crash(served)
  \/ Minute

PresenceSpec == PresenceInit /\ [][PresenceNext]_presenceVars

\* Handlers that have begun finish, and time passes; clients may stay or leave.
PresenceFairness ==
  /\ \A s \in Socket : /\ WF_presenceVars(HandshakeStep(s)) /\ WF_presenceVars(RemovalStep(s))
                       /\ WF_presenceVars(TimerStep(s))
  /\ WF_presenceVars(Minute)

PresenceFairSpec == PresenceSpec /\ PresenceFairness

-----------------------------------------------------------------------------
\* In the set without a connection, and nothing that runs will take it out.
Ghost(s) ==
  /\ s \in online /\ ~sock[s].connected
  /\ sock[s].removal # "sent" /\ sock[s].pc \notin {"registered", "compensate"}

(* As long as no Redis call fails and no instance dies, a socket that drops
   leaves the set, at whichever await of its handshake it drops: the identity
   is stored before the SADD, and the socket is looked at again after the token
   was verified and after the SADD.                                           *)
NoGhosts == presenceFaults = 0 => \A s \in Socket : ~Ghost(s)

(* A socket that is open is in the set, so that pushToUser reaches it, although
   the set expires: the timers of the user's sockets keep it alive even if some
   of their calls fail.  And the set never outgrows MAX_CONNECTIONS_PER_USER,
   so that no more of the user's sockets are open than that.                  *)
OpenIsReachable ==
  /\ \A s \in Socket : SockAt(s, "open") /\ sock[s].connected => s \in online
  /\ Cardinality(online) <= MaxConnections

(* Watchers are not left with a user shown online who has no connection: a
   socket that dropped is not announced, and whoever empties the set says so.
   Failures are announced too; only a crash goes unannounced.                 *)
NotShownInVain ==
  presenceFaults = 0 /\ Calm /\ shownOnline => \E s \in Socket : sock[s].connected

(* Watchers are told when the user comes online and when the last connection
   is gone, so when all is calm they see the user online if a socket is open.  *)
ShownWhenOpen ==
  Calm /\ (\E s \in Socket : SockAt(s, "open") /\ sock[s].connected) => shownOnline

\* Once a user has no connection left, the set is emptied or expires.
Absent == \A s \in Socket : ~sock[s].connected
SetEmpties == Absent ~> (online = {} \/ ~Absent)
=============================================================================
