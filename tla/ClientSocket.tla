---------------------------- MODULE ClientSocket ----------------------------
(***************************************************************************)
(* The web client's one WebSocket (WsClient), the page that mounts it and  *)
(* shows whether it is connected, and the store it takes its token from.   *)
(*                                                                         *)
(* The gateway refuses a socket only after socket.io has connected it: the *)
(* client first sees 'connect', then 'error' with a code, at once followed *)
(* by 'disconnect'.  The 10 s cooldown that 'error' has begun or found is  *)
(* therefore still on in 'disconnect', which starts no second refresh.     *)
(*                                                                         *)
(* Delays, 1 s doubled up to 60 s, are left out: a timer fires at some     *)
(* later step.  The library's own five attempts are one state, "trying".   *)
(***************************************************************************)
EXTENDS Naturals

CONSTANTS
  MaxManual,       \* MAX_MANUAL_RECONNECT
  MaxSocketFaults  \* bound on losses of the network and of tokens, on refusals
                   \* for another reason and on failing refreshes

ASSUME SocketAssumption == MaxManual \in Nat \ {0} /\ MaxSocketFaults \in Nat

VARIABLES
  page,      \* the page with useWebSocket is mounted
  auth,      \* isAuthenticated, and a token in the store
  token,     \* the server takes the store's token
  socket,    \* "dead": refused, or out of attempts; the object is still there
  honoured,  \* the server takes the token the open socket was opened with
  timer,     \* reconnectTimer is set
  attempts,  \* reconnectAttempts
  refreshing,
  cooling,   \* lastRefreshAt is less than REFRESH_COOLDOWN ago
  shown,     \* connected, as the page shows it
  link,      \* the network carries
  refusing,  \* the server refuses: too many connections, no Redis, account
  socketFaults

socketVars == <<page, auth, token, socket, honoured, timer, attempts, refreshing,
                cooling, shown, link, refusing, socketFaults>>
storeVars == <<page, auth, token>>
refreshVars == <<refreshing, cooling>>
worldVars == <<link, refusing, socketFaults>>

SocketTypeOK ==
  /\ {page, auth, token, honoured, timer, refreshing, cooling, shown, link, refusing} \subseteq BOOLEAN
  /\ socket \in {"none", "trying", "open", "dead"}
  /\ attempts \in 0..MaxManual /\ socketFaults \in 0..MaxSocketFaults

SocketInit ==
  /\ page = FALSE /\ auth \in BOOLEAN /\ token = auth
  /\ socket = "none" /\ honoured = FALSE
  /\ timer = FALSE /\ attempts = 0 /\ refreshing = FALSE /\ cooling = FALSE /\ shown = FALSE
  /\ link = TRUE /\ refusing = FALSE /\ socketFaults = 0

SocketFault == socketFaults < MaxSocketFaults /\ socketFaults' = socketFaults + 1

-----------------------------------------------------------------------------
(* What the handlers share. *)

\* connect(token): the timer goes; an open socket is kept, any other is replaced.
Connect ==
  /\ timer' = FALSE
  /\ socket' = IF socket = "open" /\ honoured = token THEN socket ELSE "trying"
  /\ honoured' = (socket = "open" /\ honoured /\ token)

CloseSocket == socket' = "none" /\ honoured' = FALSE /\ timer' = FALSE

\* scheduleReconnect: nothing once the attempts are used up.
Schedule ==
  /\ timer' = (attempts < MaxManual)
  /\ attempts' = IF attempts < MaxManual THEN attempts + 1 ELSE attempts

\* maybeRefreshToken, for AUTH_FAILED.
MaybeRefresh ==
  IF cooling THEN UNCHANGED refreshVars ELSE refreshing' = TRUE /\ cooling' = TRUE

-----------------------------------------------------------------------------
(* The page and the store. *)

\* The effects of useWebSocket: connect, then listen; provider and refresher are set.
Mount ==
  /\ ~page /\ auth /\ page' = TRUE /\ Connect /\ shown' = FALSE
  /\ UNCHANGED <<auth, token, attempts, refreshVars, worldVars>>

\* Faulty: the socket goes, its timer stays.
UnmountKeepsTimer ==
  /\ page /\ page' = FALSE /\ socket' = "none" /\ honoured' = FALSE /\ shown' = FALSE
  /\ UNCHANGED <<auth, token, timer, attempts, refreshVars, worldVars>>

\* The last effect's clean-up: disconnect().
Unmount ==
  /\ page /\ page' = FALSE /\ CloseSocket /\ shown' = FALSE
  /\ UNCHANGED <<auth, token, attempts, refreshVars, worldVars>>

\* The store is cleared, here or from another tab; AuthenticatedLayout then unmounts the page.
LogOut ==
  /\ auth /\ auth' = FALSE /\ token' = FALSE
  /\ UNCHANGED <<page, socket, honoured, timer, attempts, refreshVars, shown, worldVars>>

LogIn ==
  /\ ~auth /\ ~page /\ auth' = TRUE /\ token' = TRUE
  /\ UNCHANGED <<page, socket, honoured, timer, attempts, refreshVars, shown, worldVars>>

-----------------------------------------------------------------------------
(* The socket. *)

\* 'connect': auth takes the token from the store as it is now.
Handshake ==
  /\ socket = "trying" /\ link
  /\ socket' = "open" /\ honoured' = token /\ attempts' = 0 /\ shown' = page
  /\ UNCHANGED <<storeVars, timer, refreshVars, worldVars>>

\* 'reconnect_failed'.  A failing handshake's text ("websocket error") asks for no refresh.
TriesFail ==
  /\ socket = "trying" /\ ~link /\ socket' = "dead" /\ Schedule
  /\ UNCHANGED <<storeVars, honoured, refreshVars, shown, worldVars>>

\* 'error' with AUTH_FAILED, on connecting or at the 60 s recheck, and 'disconnect'.
KickedForToken ==
  /\ socket = "open" /\ link /\ ~honoured
  /\ MaybeRefresh /\ socket' = "dead" /\ Schedule /\ shown' = FALSE
  /\ UNCHANGED <<storeVars, honoured, worldVars>>

\* 'error' with another code.
KickedForOther ==
  /\ socket = "open" /\ link /\ refusing
  /\ socket' = "dead" /\ honoured' = FALSE /\ Schedule /\ shown' = FALSE
  /\ UNCHANGED <<storeVars, refreshVars, worldVars>>

\* 'disconnect' for any other reason: socket.io reconnects by itself.
TransportLost ==
  /\ socket = "open" /\ socket' = "trying" /\ honoured' = FALSE /\ shown' = FALSE
  /\ \/ ~link /\ UNCHANGED worldVars
     \/ SocketFault /\ UNCHANGED <<link, refusing>>
  /\ UNCHANGED <<storeVars, timer, attempts, refreshVars>>

\* Faulty: socket.io is left to reconnect a socket that the client has closed itself.
PongTimeoutOnly ==
  /\ socket = "open" /\ ~link /\ CloseSocket
  /\ UNCHANGED <<storeVars, attempts, refreshVars, shown, worldVars>>

\* No pong within 5 s.  closeSocket removes the listeners first: the page is not told.
PongTimeout ==
  /\ socket = "open" /\ ~link
  /\ socket' = "none" /\ honoured' = FALSE /\ Schedule
  /\ UNCHANGED <<storeVars, refreshVars, shown, worldVars>>

\* The token provider is asked now; logged out, it has none.
TimerFires ==
  /\ timer
  /\ IF auth THEN Connect ELSE timer' = FALSE /\ UNCHANGED <<socket, honoured>>
  /\ UNCHANGED <<storeVars, attempts, refreshVars, shown, worldVars>>

-----------------------------------------------------------------------------
(* The refresh that a refusal asked for (ClientRefresh). *)

RefreshGives ==
  /\ refreshing /\ refreshing' = FALSE
  /\ token' = auth                     \* nothing is written back after a logout
  /\ UNCHANGED <<page, auth, socket, honoured, timer, attempts, cooling, shown, worldVars>>

\* 401 clears the store; any other failure gives null.
RefreshFails ==
  /\ refreshing /\ refreshing' = FALSE /\ SocketFault
  /\ \/ auth' = FALSE /\ token' = FALSE
     \/ UNCHANGED <<auth, token>>
  /\ UNCHANGED <<page, socket, honoured, timer, attempts, cooling, shown, link, refusing>>

CooldownEnds ==
  /\ cooling /\ cooling' = FALSE
  /\ UNCHANGED <<storeVars, socket, honoured, timer, attempts, refreshing, shown, worldVars>>

-----------------------------------------------------------------------------
(* The world. *)

\* The socket's token expires or is revoked, and the store's unless it is newer.
TokenDies ==
  /\ auth /\ SocketFault /\ honoured' = FALSE /\ token' \in {token, FALSE}
  /\ UNCHANGED <<page, auth, socket, timer, attempts, refreshVars, shown, link, refusing>>

WorldFails ==
  /\ SocketFault
  /\ \/ link /\ link' = FALSE /\ UNCHANGED refusing
     \/ ~refusing /\ refusing' = TRUE /\ UNCHANGED link
  /\ UNCHANGED <<storeVars, socket, honoured, timer, attempts, refreshVars, shown>>

WorldHeals ==
  /\ \/ ~link /\ link' = TRUE /\ UNCHANGED refusing
     \/ refusing /\ refusing' = FALSE /\ UNCHANGED link
  /\ UNCHANGED <<storeVars, socket, honoured, timer, attempts, refreshVars, shown, socketFaults>>

SocketNext ==
  \/ Mount \/ Unmount \/ LogOut \/ LogIn
  \/ Handshake \/ TriesFail \/ KickedForToken \/ KickedForOther \/ TransportLost
  \/ PongTimeout \/ TimerFires
  \/ RefreshGives \/ RefreshFails \/ CooldownEnds
  \/ TokenDies \/ WorldFails \/ WorldHeals

SocketSpec == SocketInit /\ [][SocketNext]_socketVars

\* Timers fire, a refresh is answered or times out, the gateway rechecks every 60 s, and
\* what is wrong with the network or the server is put right.
SocketFairness ==
  /\ WF_socketVars(Handshake \/ TriesFail)
  /\ WF_socketVars(KickedForToken) /\ WF_socketVars(KickedForOther)
  /\ WF_socketVars(TransportLost \/ PongTimeout)
  /\ WF_socketVars(TimerFires) /\ WF_socketVars(RefreshGives \/ RefreshFails)
  /\ WF_socketVars(CooldownEnds) /\ WF_socketVars(WorldHeals)

FairSocketSpec == SocketSpec /\ SocketFairness

-----------------------------------------------------------------------------
(* There is one way back: while a timer is set no socket is open or trying, which its
   firing would cut, and no socket and no timer outlive the page.                   *)
OneWayBack ==
  /\ timer => page /\ socket \in {"none", "dead"}
  /\ ~page => socket = "none"

GivenUp == socket \in {"none", "dead"} /\ ~timer /\ attempts = MaxManual

(* A mounted page of a logged-in user gets a socket the server keeps, whatever the
   network, the tokens and the gateway did before, unless the client has given up.  *)
SocketComesBack ==
  page /\ auth ~>
    ~page \/ ~auth \/ GivenUp \/ (socket = "open" /\ honoured /\ link /\ ~refusing)
=============================================================================
