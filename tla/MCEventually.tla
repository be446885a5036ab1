---------------------------- MODULE MCEventually ----------------------------
(***************************************************************************)
(* The components that run by themselves and of which something must come  *)
(* in the end, for TLC: in a behaviour one of them acts, under the         *)
(* fairness of its own module, and the others stay as they are.            *)
(***************************************************************************)
EXTENDS FileVault, BackupWatch, Throttle, ClientSocket, Presence, Navigation, Listing

VARIABLE moving

eventuallyVars == <<moving, vars, watchVars, throttleVars, socketVars, presenceVars, navVars, listVars>>

\* Of a component that stays as it is nothing is outstanding (a counter at 0, no page):
\* for the watch, a moment after a backup.
WatchAtRest ==
  /\ hour = 0 /\ cronDue = FALSE /\ daily = 0 /\ manual = Life
  /\ check = [i \in Instance |-> [pc |-> "idle", alert |-> "missing"]]
  /\ claimed = {} /\ reported = {} /\ watchFaults = 0

\* For the client, a page that asks for nothing.
NavAtRest ==
  /\ path = "open" /\ phase = "shown" /\ calls = {}
  /\ loggedIn = FALSE /\ accessToken = "none" /\ me = NoMe
  /\ boot = "over" /\ cookie = FALSE /\ account = [must |-> FALSE, perm |-> TRUE] /\ ready = TRUE

EventuallyInit ==
  /\ moving \in {"files", "watch", "throttle", "socket", "presence", "navigation", "listing"}
  /\ Init /\ (moving # "files" => crossVolume /\ row.state = "none")
  /\ IF moving = "watch" THEN WatchInit ELSE WatchAtRest
  /\ ThrottleInit
  /\ SocketInit /\ (moving # "socket" => auth)
  /\ PresenceInit
  /\ IF moving = "navigation" THEN NavInit ELSE NavAtRest
  /\ ListingInit /\ (moving # "listing" => mounted = "all" /\ rows = 0)

FilesMove == moving = "files" /\ Next /\ UNCHANGED <<watchVars, throttleVars, socketVars, presenceVars, navVars, listVars>>
WatchMoves == moving = "watch" /\ WatchNext /\ UNCHANGED <<vars, throttleVars, socketVars, presenceVars, navVars, listVars>>
ThrottleMoves == moving = "throttle" /\ ThrottleNext /\ UNCHANGED <<vars, watchVars, socketVars, presenceVars, navVars, listVars>>
SocketMoves == moving = "socket" /\ SocketNext /\ UNCHANGED <<vars, watchVars, throttleVars, presenceVars, navVars, listVars>>
PresenceMoves == moving = "presence" /\ PresenceNext /\ UNCHANGED <<vars, watchVars, throttleVars, socketVars, navVars, listVars>>
NavigationMoves == moving = "navigation" /\ NavNext /\ UNCHANGED <<vars, watchVars, throttleVars, socketVars, presenceVars, listVars>>
ListingMoves == moving = "listing" /\ ListingNext /\ UNCHANGED <<vars, watchVars, throttleVars, socketVars, presenceVars, navVars>>

EventuallyNext ==
  /\ UNCHANGED moving
  /\ \/ FilesMove
     \/ WatchMoves
     \/ ThrottleMoves
     \/ SocketMoves
     \/ PresenceMoves
     \/ NavigationMoves
     \/ ListingMoves

\* The fairness each module states, while it is its turn to move.
FilesGoOn ==
  /\ \A r \in Request : WF_vars(moving = "files" /\ Proceeds(r))
  /\ WF_vars(moving = "files" /\ CleanerStep) /\ WF_vars(moving = "files" /\ PurgerStep)
  /\ WF_vars(moving = "files" /\ TimePasses)

WatchGoesOn ==
  /\ WF_watchVars(moving = "watch" /\ \E i \in Instance : CheckStep(i))
  /\ WF_watchVars(moving = "watch" /\ CronLeavesNothing)
  /\ WF_watchVars(moving = "watch" /\ HourPasses)

ThrottleGoesOn == WF_throttleVars(moving = "throttle" /\ ThrottleTick)

SocketGoesOn ==
  /\ WF_socketVars(moving = "socket" /\ (Handshake \/ TriesFail))
  /\ WF_socketVars(moving = "socket" /\ KickedForToken)
  /\ WF_socketVars(moving = "socket" /\ KickedForOther)
  /\ WF_socketVars(moving = "socket" /\ (TransportLost \/ PongTimeout))
  /\ WF_socketVars(moving = "socket" /\ TimerFires)
  /\ WF_socketVars(moving = "socket" /\ (RefreshGives \/ RefreshFails))
  /\ WF_socketVars(moving = "socket" /\ CooldownEnds)
  /\ WF_socketVars(moving = "socket" /\ WorldHeals)

PresenceGoesOn ==
  /\ \A s \in Socket : /\ WF_presenceVars(moving = "presence" /\ HandshakeStep(s))
                       /\ WF_presenceVars(moving = "presence" /\ RemovalStep(s))
                       /\ WF_presenceVars(moving = "presence" /\ TimerStep(s))
  /\ WF_presenceVars(moving = "presence" /\ Minute)

NavigationGoesOn == WF_navVars(moving = "navigation" /\ Automatic)

ListingGoesOn ==
  /\ WF_listVars(moving = "listing" /\ Fallback) /\ WF_listVars(moving = "listing" /\ Invalidate)
  /\ WF_listVars(moving = "listing" /\ LoopStep)
  /\ \A p \in ListPage : WF_listVars(moving = "listing" /\ Arrives(p))

EventuallySpec ==
  /\ EventuallyInit /\ [][EventuallyNext]_eventuallyVars
  /\ FilesGoOn /\ WatchGoesOn /\ ThrottleGoesOn
  /\ SocketGoesOn /\ PresenceGoesOn /\ NavigationGoesOn /\ ListingGoesOn

(* Every variable of these components keeps its type. *)
EventuallyTypeOK ==
  /\ TypeOK /\ WatchTypeOK /\ ThrottleTypeOK /\ SocketTypeOK /\ PresenceTypeOK /\ NavTypeOK
  /\ ListingTypeOK
=============================================================================
