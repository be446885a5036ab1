-------------------------- MODULE Presence_proofs ---------------------------
(***************************************************************************)
(* Proofs about Presence, for any number of sockets, any limit of          *)
(* connections and any number of failures that the life of the set allows. *)
(***************************************************************************)
EXTENDS Presence, FiniteSetTheorems, TLAPS

USE PresenceAssumption

-----------------------------------------------------------------------------
(* What holds of a socket s in state st when the set is on: it is identified
   before it can be in the set, a connected socket has no removal under way and
   its handshake is not over, and one that dropped at its SADD is to be removed. *)
Identified == {"register", "registered", "full", "compensate", "load", "open"}

Sound(s, st, on) ==
  /\ st.pc \in {"new", "auth"} => ~st.identified
  /\ st.pc = "new" => ~st.connected /\ st.removal = "none"
  /\ st.pc # "open" => st.timer = "off"
  /\ st.pc \in {"register", "full"} => s \notin on
  /\ st.pc \in Identified \/ s \in on => st.identified
  /\ st.connected => st.removal = "none" /\ st.pc \notin {"new", "over", "compensate"}
  /\ st.pc = "register" => st.connected \/ st.removal = "sent"

(* A registered socket is in the set; of the set's life t no more has gone than one
   period for each of the f failures, and one for the renewal that is due.        *)
Leased(s, st, on, t, f) ==
  st.connected /\ st.pc \in {"registered", "load", "open"} =>
    /\ s \in on
    /\ st.pc = "open" => st.timer # "off"
    /\ t + f + 1 >= Ttl
    /\ st.timer \notin {"due", "check"} => t + f >= Ttl

Pending == {"sent", "last"}

(* Without failures the set has no ghosts, and whoever empties it says so. *)
Unfailing ==
  /\ \A s \in online : sock[s].connected \/ sock[s].removal = "sent"
  /\ shownOnline => online # {} \/ \E s \in Socket : sock[s].removal \in Pending

PresenceTyped ==
  /\ sock \in [Socket -> SockState] /\ shownOnline \in BOOLEAN
  /\ presenceFaults \in 0..MaxPresenceFaults

SetBounded ==
  /\ online \subseteq Socket /\ IsFiniteSet(online) /\ Cardinality(online) <= MaxConnections
  /\ ttl \in 0..Ttl /\ (ttl = 0 <=> online = {})

PresenceInv ==
  /\ PresenceTyped /\ SetBounded
  /\ \A s \in Socket : Sound(s, sock[s], online) /\ Leased(s, sock[s], online, ttl, presenceFaults)
  /\ presenceFaults = 0 => Unfailing

-----------------------------------------------------------------------------
\* How the set may change when s acts.
SetKept == online' = online /\ ttl' = ttl
SetRenewed == online' = online /\ ttl' = Alive(online, Ttl)
SetLeft(s) == online' = online \ {s} /\ ttl' = Alive(online', ttl)
SetJoined(s) == online' = online \cup {s} /\ Cardinality(online) < MaxConnections /\ ttl' = Ttl

LEMMA SetChanges ==
  ASSUME SetBounded, NEW s \in Socket, SetKept \/ SetRenewed \/ SetLeft(s) \/ SetJoined(s)
  PROVE  /\ SetBounded'
         /\ \A q \in Socket \ {s} : q \in online' <=> q \in online
         /\ online' # {} /\ ~SetJoined(s) => ttl' >= ttl
         /\ ttl' \in Nat /\ ttl \in Nat
         /\ SetJoined(s) => ttl' >= ttl
  <1>1. CASE SetKept
    BY <1>1 DEF SetKept, SetBounded
  <1>2. CASE SetRenewed
    BY <1>2 DEF SetRenewed, SetBounded, Alive
  <1>3. CASE SetLeft(s)
    <2>1. IsFiniteSet(online') /\ Cardinality(online') <= Cardinality(online)
          /\ Cardinality(online') \in Nat /\ Cardinality(online) \in Nat
      <3>1. IsFiniteSet(online) /\ online' = online \ {s}
        BY <1>3 DEF SetLeft, SetBounded
      <3>2. IsFiniteSet(online \ {s}) /\ online \ {s} \subseteq online
        BY <3>1, FS_RemoveElement
      <3>3. Cardinality(online \ {s}) <= Cardinality(online)
        BY <3>1, <3>2, FS_Subset
      <3>4. QED
        BY <3>1, <3>2, <3>3, FS_CardinalityType
    <2>2. Cardinality(online') <= MaxConnections
      BY <2>1 DEF SetBounded
    <2>3. online' \subseteq Socket /\ \A q \in Socket \ {s} : q \in online' <=> q \in online
      BY <1>3 DEF SetLeft, SetBounded
    <2>4. ttl \in 0..Ttl /\ ttl' \in 0..Ttl /\ (ttl' = 0 <=> online' = {}) /\ (online' # {} => ttl' = ttl)
      BY <1>3 DEF SetLeft, SetBounded, Alive
    <2>5. ~SetJoined(s) \/ ttl' = Ttl
      BY DEF SetJoined
    <2>6. QED
      BY <2>1, <2>2, <2>3, <2>4, <2>5 DEF SetBounded
  <1>4. CASE SetJoined(s)
    <2>1. IsFiniteSet(online') /\ Cardinality(online') <= Cardinality(online) + 1
          /\ Cardinality(online') \in Nat /\ Cardinality(online) \in Nat
      <3>1. IsFiniteSet(online) /\ online' = online \cup {s}
        BY <1>4 DEF SetJoined, SetBounded
      <3>2. IsFiniteSet(online \cup {s})
            /\ (Cardinality(online \cup {s}) = Cardinality(online) \/ Cardinality(online \cup {s}) = Cardinality(online) + 1)
        BY <3>1, FS_AddElement
      <3>3. QED
        BY <3>1, <3>2, FS_CardinalityType
    <2>2. Cardinality(online') <= MaxConnections
      BY <1>4, <2>1 DEF SetJoined
    <2>3. QED
      BY <1>4, <2>1, <2>2 DEF SetJoined, SetBounded
  <1>5. QED
    BY <1>1, <1>2, <1>3, <1>4

LEMMA LeaseLasts ==
  ASSUME NEW s, NEW st, NEW on, NEW on2, NEW t \in Nat, NEW t2 \in Nat, NEW f \in Nat, NEW f2 \in Nat,
         Leased(s, st, on, t, f), f2 >= f, s \in on => s \in on2 /\ t2 >= t
  PROVE  Leased(s, st, on2, t2, f2)
  <1>1. s \in on /\ t + f + 1 >= Ttl => t2 + f2 + 1 >= Ttl
    OBVIOUS
  <1>2. s \in on /\ t + f >= Ttl => t2 + f2 >= Ttl
    OBVIOUS
  <1>3. QED
    BY <1>1, <1>2 DEF Leased

LEMMA FailureLasts ==
  ASSUME NEW t \in Nat, NEW f \in Nat, NEW f2 \in Nat, f2 > f, t + f + 1 >= Ttl
  PROVE  t + f2 >= Ttl /\ t + f2 + 1 >= Ttl
  OBVIOUS

\* A step of s: what has to be shown of s alone, and the others stay as they were.
LEMMA OneSocketMoves ==
  ASSUME PresenceInv, NEW s \in Socket, NEW st \in SockState, SockBecomes(s, st),
         SetKept \/ SetRenewed \/ SetLeft(s) \/ SetJoined(s),
         presenceFaults' \in 0..MaxPresenceFaults, presenceFaults' >= presenceFaults,
         shownOnline' \in BOOLEAN,
         Sound(s, st, online'), Leased(s, st, online', ttl', presenceFaults'),
         s \in online' /\ presenceFaults' = 0 => st.connected \/ st.removal = "sent",
         shownOnline' /\ online' = {} /\ presenceFaults' = 0 =>
           shownOnline /\ (st.removal \in Pending \/ (online = {} /\ sock[s].removal \notin Pending))
  PROVE  PresenceInv'
  <1>0. /\ PresenceTyped /\ SetBounded /\ (presenceFaults = 0 => Unfailing)
        /\ presenceFaults \in Nat /\ presenceFaults' \in Nat
    BY DEF PresenceInv, PresenceTyped
  <1>1. /\ sock' \in [Socket -> SockState]
        /\ \A q \in Socket : sock'[q] = IF q = s THEN st ELSE sock[q]
    BY <1>0 DEF SockBecomes, PresenceTyped
  <1>2. /\ SetBounded' /\ \A q \in Socket \ {s} : q \in online' <=> q \in online
        /\ online' # {} => ttl' >= ttl
        /\ ttl' \in Nat /\ ttl \in Nat
    BY <1>0, SetChanges
  <1>3. ASSUME NEW q \in Socket
        PROVE  Sound(q, sock'[q], online') /\ Leased(q, sock'[q], online', ttl', presenceFaults')
    <2>1. CASE q = s
      BY <1>1, <2>1
    <2>2. CASE q # s
      <3>1. Sound(q, sock[q], online) /\ Leased(q, sock[q], online, ttl, presenceFaults)
        BY DEF PresenceInv
      <3>2. Sound(q, sock[q], online')
        BY <1>2, <2>2, <3>1 DEF Sound
      <3>3. Leased(q, sock[q], online', ttl', presenceFaults')
        <4>1. q \in online => q \in online' /\ ttl' >= ttl
          BY <1>2, <2>2
        <4>2. QED
          BY <1>0, <1>2, <3>1, <4>1, LeaseLasts
      <3>4. QED
        BY <1>1, <2>2, <3>2, <3>3
    <2>3. QED
      BY <2>1, <2>2
  <1>4. ASSUME presenceFaults' = 0 PROVE Unfailing'
    <2>1. presenceFaults = 0 /\ Unfailing
      BY <1>0, <1>4
    <2>2. \A q \in online' : sock'[q].connected \/ sock'[q].removal = "sent"
      BY <1>1, <1>2, <1>4, <2>1 DEF Unfailing, SetBounded
    <2>3. shownOnline' /\ online' = {} => \E q \in Socket : sock'[q].removal \in Pending
      BY <1>1, <1>4, <2>1 DEF Unfailing
    <2>4. QED
      BY <2>2, <2>3 DEF Unfailing
  <1>5. QED
    BY <1>1, <1>2, <1>3, <1>4 DEF PresenceInv, PresenceTyped

LEMMA StateOf ==
  ASSUME PresenceInv, NEW s \in Socket
  PROVE  /\ sock[s] \in SockState /\ Sound(s, sock[s], online)
         /\ Leased(s, sock[s], online, ttl, presenceFaults)
         /\ presenceFaults \in 0..MaxPresenceFaults /\ shownOnline \in BOOLEAN
         /\ ttl \in 0..Ttl /\ (ttl = 0 <=> online = {})
         /\ presenceFaults = 0 /\ s \in online => sock[s].connected \/ sock[s].removal = "sent"
  BY DEF PresenceInv, PresenceTyped, SetBounded, Unfailing

\* A step of s that leaves the set and the announcement alone.
LEMMA SocketOnly ==
  ASSUME PresenceInv, NEW s \in Socket, NEW st \in SockState, SockBecomes(s, st),
         UNCHANGED <<online, ttl, shownOnline>>,
         presenceFaults' \in 0..MaxPresenceFaults, presenceFaults' >= presenceFaults,
         Sound(s, st, online), Leased(s, st, online, ttl, presenceFaults'),
         s \in online /\ ~st.connected =>
           st.removal = "sent" \/ (~sock[s].connected /\ st.removal = sock[s].removal),
         sock[s].removal \in Pending => st.removal \in Pending
  PROVE  PresenceInv'
  <1>1. SetKept
    BY DEF SetKept
  <1>2. presenceFaults' = 0 => presenceFaults = 0
    BY StateOf
  <1>3. s \in online' /\ presenceFaults' = 0 => st.connected \/ st.removal = "sent"
    BY <1>2, StateOf
  <1>4. shownOnline' \in BOOLEAN
    BY StateOf
  <1>5. Sound(s, st, online') /\ Leased(s, st, online', ttl', presenceFaults')
    OBVIOUS
  <1>6. shownOnline' /\ online' = {} /\ presenceFaults' = 0 =>
          shownOnline /\ (st.removal \in Pending \/ (online = {} /\ sock[s].removal \notin Pending))
    OBVIOUS
  <1>7. QED
    BY <1>1, <1>3, <1>4, <1>5, <1>6, OneSocketMoves

LEMMA DroppedIs ==
  ASSUME NEW st \in SockState
  PROVE  /\ Dropped(st) \in SockState /\ ~Dropped(st).connected
         /\ Dropped(st).pc = st.pc /\ Dropped(st).identified = st.identified
         /\ Dropped(st).timer = IF st.timer = "check" THEN "check" ELSE "off"
         /\ Dropped(st).removal = IF st.identified THEN "sent" ELSE "none"
  BY DEF Dropped, SockState

LEMMA DisconnectedIs ==
  ASSUME NEW st \in SockState
  PROVE  /\ Disconnected(st) \in SockState /\ ~Disconnected(st).connected
         /\ Disconnected(st).pc = st.pc /\ Disconnected(st).identified = st.identified
         /\ st.connected => Disconnected(st).removal = IF st.identified THEN "sent" ELSE "none"
         /\ ~st.connected => Disconnected(st).removal = st.removal
         /\ Disconnected(st).timer \in {st.timer, "off"}
  BY DroppedIs DEF Disconnected

LEMMA PcIs ==
  ASSUME NEW st \in SockState, NEW pc \in {"new", "open", "over"} \cup HandshakePc
  PROVE  LET to == [st EXCEPT !.pc = pc]
         IN  /\ to \in SockState /\ to.pc = pc
             /\ to.connected = st.connected /\ to.identified = st.identified
             /\ to.timer = st.timer /\ to.removal = st.removal
  BY DEF SockState

LEMMA CallbackOverIs ==
  ASSUME NEW st \in SockState
  PROVE  /\ CallbackOver(st) \in SockState /\ CallbackOver(st).pc = st.pc
         /\ CallbackOver(st).connected = st.connected
         /\ CallbackOver(st).identified = st.identified
         /\ CallbackOver(st).removal = st.removal
         /\ CallbackOver(st).timer = IF st.connected THEN "set" ELSE "off"
  BY DEF CallbackOver, SockState

LEMMA ConnectStep ==
  ASSUME PresenceInv, NEW s \in Socket, ConnectSocket(s)
  PROVE  PresenceInv'
  <1> DEFINE st == [sock[s] EXCEPT !.pc = "auth", !.connected = TRUE]
  <1>1. sock[s] \in SockState /\ Sound(s, sock[s], online) /\ sock[s].pc = "new"
        /\ presenceFaults \in 0..MaxPresenceFaults
    BY StateOf DEF ConnectSocket, SockAt
  <1>2. /\ st \in SockState /\ st.pc = "auth" /\ st.connected /\ st.identified = sock[s].identified
        /\ st.removal = sock[s].removal /\ st.timer = sock[s].timer
    BY <1>1 DEF SockState, HandshakePc
  <1>3. SockBecomes(s, st) /\ UNCHANGED <<online, ttl, shownOnline, presenceFaults>>
    BY DEF ConnectSocket
  <1> HIDE DEF st
  <1>4. Sound(s, st, online) /\ Leased(s, st, online, ttl, presenceFaults')
    BY <1>1, <1>2 DEF Sound, Leased, Identified
  <1>5. QED
    BY <1>1, <1>2, <1>3, <1>4, SocketOnly

LEMMA DropStep ==
  ASSUME PresenceInv, NEW s \in Socket, Drop(s)
  PROVE  PresenceInv'
  <1> DEFINE st == Dropped(sock[s])
  <1>1. sock[s] \in SockState /\ Sound(s, sock[s], online) /\ sock[s].connected
        /\ presenceFaults \in 0..MaxPresenceFaults
    BY StateOf DEF Drop
  <1>2. /\ st \in SockState /\ st.pc = sock[s].pc /\ ~st.connected /\ st.identified = sock[s].identified
        /\ st.removal = IF st.identified THEN "sent" ELSE "none"
        /\ st.timer \in {sock[s].timer, "off"}
    BY <1>1, DroppedIs
  <1>3. SockBecomes(s, st) /\ UNCHANGED <<online, ttl, shownOnline, presenceFaults>>
    BY DEF Drop
  <1> HIDE DEF st
  <1>4. Sound(s, st, online) /\ Leased(s, st, online, ttl, presenceFaults')
    BY <1>1, <1>2 DEF Sound, Leased, Identified
  <1>5. s \in online => st.removal = "sent"
    BY <1>1, <1>2 DEF Sound
  <1>6. sock[s].removal \notin Pending
    BY <1>1 DEF Sound, Pending
  <1>7. QED
    BY <1>1, <1>2, <1>3, <1>4, <1>5, <1>6, SocketOnly

\* The server disconnects s and its handshake is over.
LEMMA RefuseStep ==
  ASSUME PresenceInv, NEW s \in Socket, Refuse(s), sock[s].pc \notin {"new", "open"},
         presenceFaults' \in 0..MaxPresenceFaults, presenceFaults' >= presenceFaults,
         UNCHANGED shownOnline,
         \/ SetKept
         \/ SetJoined(s) /\ SockAt(s, "register")
  PROVE  PresenceInv'
  <1> DEFINE gone == Disconnected(sock[s])
             st == [gone EXCEPT !.pc = "over"]
  <1>1. /\ sock[s] \in SockState /\ Sound(s, sock[s], online) /\ presenceFaults \in 0..MaxPresenceFaults
        /\ sock[s].timer = "off" /\ shownOnline \in BOOLEAN
        /\ presenceFaults = 0 /\ s \in online => sock[s].connected \/ sock[s].removal = "sent"
    BY StateOf DEF Sound
  <1>2. /\ gone \in SockState /\ ~gone.connected /\ gone.identified = sock[s].identified
        /\ gone.timer = "off"
        /\ sock[s].connected => gone.removal = IF sock[s].identified THEN "sent" ELSE "none"
        /\ ~sock[s].connected => gone.removal = sock[s].removal
    BY <1>1, DisconnectedIs
  <1>3. SockBecomes(s, st)
    BY DEF Refuse
  <1> HIDE DEF gone
  <1>4. /\ st \in SockState /\ st.pc = "over" /\ ~st.connected /\ st.identified = sock[s].identified
        /\ st.timer = "off"
        /\ sock[s].connected => st.removal = IF st.identified THEN "sent" ELSE "none"
        /\ ~sock[s].connected => st.removal = sock[s].removal
    BY <1>2, PcIs
  <1> HIDE DEF st
  <1>5. s \in online' => st.identified
    <2>1. CASE SetKept
      BY <1>1, <1>4, <2>1 DEF Sound, SetKept
    <2>2. CASE SockAt(s, "register")
      BY <1>1, <1>4, <2>2 DEF Sound, SockAt, Identified
    <2>3. QED
      BY <2>1, <2>2
  <1>6. Sound(s, st, online') /\ Leased(s, st, online', ttl', presenceFaults')
    BY <1>4, <1>5 DEF Sound, Leased, Identified
  <1>7. s \in online' /\ presenceFaults' = 0 => st.removal = "sent"
    <2>1. s \in online' /\ ~sock[s].connected /\ presenceFaults' = 0 => sock[s].removal = "sent"
      BY <1>1 DEF Sound, SetKept, SetJoined, SockAt
    <2>2. QED
      BY <1>1, <1>4, <1>5, <2>1 DEF Sound
  <1>8. sock[s].removal \in Pending => st.removal \in Pending
    BY <1>1, <1>4 DEF Sound, Pending
  <1>9. online' = {} => online = {}
    BY DEF SetKept, SetJoined
  <1>10. QED
    BY <1>1, <1>4, <1>3, <1>6, <1>7, <1>8, <1>9, OneSocketMoves

\* The set kept.
LEMMA KeptIsKept == ASSUME UNCHANGED <<online, ttl>> PROVE SetKept
  BY DEF SetKept

LEMMA HandshakeInductive ==
  ASSUME PresenceInv, NEW s \in Socket, HandshakeStep(s)
  PROVE  PresenceInv'
  <1>1. /\ sock[s] \in SockState /\ Sound(s, sock[s], online)
        /\ Leased(s, sock[s], online, ttl, presenceFaults)
        /\ presenceFaults \in 0..MaxPresenceFaults /\ shownOnline \in BOOLEAN
        /\ presenceFaults = 0 /\ s \in online => sock[s].connected \/ sock[s].removal = "sent"
        /\ ttl \in 0..Ttl /\ (ttl = 0 <=> online = {})
    BY StateOf
  <1>2. CASE AuthRefused(s) \/ RefuseFull(s) \/ AccountRefused(s)
    <2>1. Refuse(s) /\ sock[s].pc \notin {"new", "open"} /\ UNCHANGED <<online, ttl, shownOnline, presenceFaults>>
      BY <1>2 DEF AuthRefused, RefuseFull, AccountRefused, SockAt
    <2>2. QED
      BY <1>1, <2>1, KeptIsKept, RefuseStep
  <1>3. CASE Authenticate(s)
    <2> DEFINE st == [sock[s] EXCEPT !.identified = TRUE,
                                     !.pc = IF sock[s].connected THEN "register" ELSE "over"]
    <2>1. /\ st \in SockState /\ st.pc = IF sock[s].connected THEN "register" ELSE "over"
          /\ st.identified /\ st.connected = sock[s].connected /\ st.removal = sock[s].removal
          /\ st.timer = sock[s].timer
      BY <1>1 DEF SockState, HandshakePc
    <2>2. SockBecomes(s, st) /\ sock[s].pc = "auth"
          /\ UNCHANGED <<online, ttl, shownOnline, presenceFaults>>
      BY <1>3 DEF Authenticate, SockAt
    <2> HIDE DEF st
    <2>3. s \notin online
      BY <1>1, <2>2 DEF Sound
    <2>4. Sound(s, st, online) /\ Leased(s, st, online, ttl, presenceFaults')
      BY <1>1, <2>1, <2>2, <2>3 DEF Sound, Leased, Identified
    <2>5. QED
      BY <1>1, <2>1, <2>2, <2>3, <2>4, SocketOnly
  <1>4. CASE Register(s)
    <2>0. sock[s].pc = "register" /\ UNCHANGED <<shownOnline, presenceFaults>>
      BY <1>4 DEF Register, SockAt
    <2>1. CASE Cardinality(online) >= MaxConnections
      <3> DEFINE st == [sock[s] EXCEPT !.pc = "full"]
      <3>1. /\ st \in SockState /\ st.pc = "full" /\ st.connected = sock[s].connected
            /\ st.identified = sock[s].identified /\ st.removal = sock[s].removal
            /\ st.timer = sock[s].timer
        BY <1>1, PcIs DEF HandshakePc
      <3>2. SockBecomes(s, st) /\ UNCHANGED <<online, ttl>>
        BY <1>4, <2>1 DEF Register, SockGoes
      <3> HIDE DEF st
      <3>3. Sound(s, st, online) /\ Leased(s, st, online, ttl, presenceFaults')
        BY <1>1, <2>0, <3>1 DEF Sound, Leased, Identified
      <3>4. s \notin online
        BY <1>1, <2>0 DEF Sound
      <3>5. QED
        BY <1>1, <2>0, <3>1, <3>2, <3>3, <3>4, SocketOnly
    <2>2. CASE ~(Cardinality(online) >= MaxConnections)
      <3> DEFINE st == [sock[s] EXCEPT !.pc = "registered", !.first = online = {}]
      <3>1. /\ st \in SockState /\ st.pc = "registered" /\ st.connected = sock[s].connected
            /\ st.identified = sock[s].identified /\ st.removal = sock[s].removal
            /\ st.timer = sock[s].timer
        BY <1>1 DEF SockState, HandshakePc
      <3>2. SockBecomes(s, st) /\ online' = online \cup {s} /\ ttl' = Ttl
        BY <1>4, <2>2 DEF Register
      <3> HIDE DEF st
      <3>3. Cardinality(online) < MaxConnections
        <4>1. Cardinality(online) \in Nat
          BY FS_CardinalityType DEF PresenceInv, SetBounded
        <4>2. QED
          BY <2>2, <4>1
      <3>4. SetJoined(s)
        BY <3>2, <3>3 DEF SetJoined
      <3>5. Sound(s, st, online')
        BY <1>1, <2>0, <3>1, <3>2 DEF Sound, Identified
      <3>6. Ttl + presenceFaults + 1 >= Ttl /\ Ttl + presenceFaults >= Ttl /\ presenceFaults' = presenceFaults
        BY <1>1, <2>0
      <3>7. Leased(s, st, online', ttl', presenceFaults')
        BY <3>1, <3>2, <3>6 DEF Leased
      <3>8. st.connected \/ st.removal = "sent"
        BY <1>1, <2>0, <3>1 DEF Sound
      <3>9. online' # {}
        BY <3>2
      <3>10. /\ presenceFaults' \in 0..MaxPresenceFaults /\ presenceFaults' >= presenceFaults
             /\ shownOnline' \in BOOLEAN /\ st \in SockState /\ SockBecomes(s, st)
        BY <1>1, <2>0, <3>1, <3>2
      <3>11. QED
        BY <3>4, <3>5, <3>7, <3>8, <3>9, <3>10, OneSocketMoves
    <2>3. QED
      BY <2>1, <2>2
  <1>5. CASE RegisterReplies(s)
    <2> DEFINE pc == IF sock[s].connected THEN "load" ELSE "compensate"
               st == [sock[s] EXCEPT !.pc = pc]
    <2>1. pc \in HandshakePc
      BY DEF HandshakePc
    <2>2. /\ st \in SockState /\ st.pc = pc /\ st.connected = sock[s].connected
          /\ st.identified = sock[s].identified /\ st.removal = sock[s].removal /\ st.timer = sock[s].timer
      BY <1>1, <2>1, PcIs
    <2>3. SockBecomes(s, st) /\ sock[s].pc = "registered"
          /\ UNCHANGED <<online, ttl, shownOnline, presenceFaults>>
      BY <1>5 DEF RegisterReplies, SockGoes, SockAt
    <2>4. pc = IF st.connected THEN "load" ELSE "compensate"
      BY <2>2
    <2> HIDE DEF st, pc
    <2>5. Sound(s, st, online) /\ Leased(s, st, online, ttl, presenceFaults')
      BY <1>1, <2>2, <2>3, <2>4 DEF Sound, Leased, Identified
    <2>6. QED
      BY <1>1, <2>2, <2>3, <2>5, StateOf, SocketOnly
  <1>6. CASE CompensateRegister(s)
    <2> DEFINE st == [sock[s] EXCEPT !.pc = "over"]
    <2>1. /\ st \in SockState /\ st.pc = "over" /\ st.connected = sock[s].connected
          /\ st.identified = sock[s].identified /\ st.removal = sock[s].removal
            /\ st.timer = sock[s].timer
      BY <1>1, PcIs
    <2>2. SockBecomes(s, st) /\ sock[s].pc = "compensate" /\ SetLeft(s)
          /\ UNCHANGED <<shownOnline, presenceFaults>>
      BY <1>6 DEF CompensateRegister, SockGoes, SockAt, RemoveOnline, SetLeft
    <2> HIDE DEF st
    <2>3. ~st.connected /\ s \notin online' /\ (s \in online => online # {})
      BY <1>1, <2>1, <2>2 DEF Sound, SetLeft
    <2>4. Sound(s, st, online') /\ Leased(s, st, online', ttl', presenceFaults')
      BY <1>1, <2>1, <2>2, <2>3 DEF Sound, Leased, Identified
    <2>5. shownOnline' /\ online' = {} /\ presenceFaults' = 0 =>
            shownOnline /\ (st.removal \in Pending \/ (online = {} /\ sock[s].removal \notin Pending))
      <3>1. online' = {} => online \in {{}, {s}}
        BY <2>2 DEF SetLeft
      <3>2. presenceFaults = 0 /\ s \in online => sock[s].removal = "sent"
        BY <1>1, <2>1, <2>3
      <3>3. QED
        BY <2>1, <2>2, <3>1, <3>2 DEF Pending
    <2>6. QED
      BY <1>1, <2>1, <2>2, <2>3, <2>4, <2>5, OneSocketMoves
  <1>7. CASE Open(s)
    <2>0. sock[s].pc = "load" /\ UNCHANGED <<online, ttl, presenceFaults>>
      BY <1>7 DEF Open, SockAt
    <2>1. CASE sock[s].connected
      <3> DEFINE st == [sock[s] EXCEPT !.pc = "open", !.timer = "set"]
      <3>1. /\ st \in SockState /\ st.pc = "open" /\ st.connected = sock[s].connected /\ st.timer = "set"
            /\ st.identified = sock[s].identified /\ st.removal = sock[s].removal
        BY <1>1 DEF SockState
      <3>2. SockBecomes(s, st) /\ shownOnline' = (shownOnline \/ sock[s].first)
        BY <1>7, <2>1 DEF Open
      <3> HIDE DEF st
      <3>3. s \in online
        BY <1>1, <2>0, <2>1 DEF Leased
      <3>4. Sound(s, st, online)
        BY <1>1, <2>0, <2>1, <3>1 DEF Sound, Identified
      <3>5. Leased(s, st, online', ttl', presenceFaults')
        BY <1>1, <2>0, <2>1, <3>1, <3>3 DEF Leased, Sound
      <3>6. /\ presenceFaults' \in 0..MaxPresenceFaults /\ presenceFaults' >= presenceFaults
            /\ shownOnline' \in BOOLEAN /\ SetKept /\ online' = online
        BY <1>1, <2>0, <3>2, KeptIsKept
      <3>7. st.connected /\ online' # {}
        BY <2>0, <2>1, <3>1, <3>3
      <3>8. QED
        BY <3>1, <3>2, <3>4, <3>5, <3>6, <3>7, OneSocketMoves
    <2>2. CASE ~sock[s].connected
      <3> DEFINE st == [sock[s] EXCEPT !.pc = "over"]
      <3>1. /\ st \in SockState /\ st.pc = "over" /\ st.connected = sock[s].connected
            /\ st.identified = sock[s].identified /\ st.removal = sock[s].removal
            /\ st.timer = sock[s].timer
        BY <1>1, PcIs
      <3>2. SockBecomes(s, st) /\ UNCHANGED shownOnline
        BY <1>7, <2>2 DEF Open, SockGoes
      <3> HIDE DEF st
      <3>3. Sound(s, st, online) /\ Leased(s, st, online, ttl, presenceFaults')
        BY <1>1, <2>0, <2>2, <3>1 DEF Sound, Leased, Identified
      <3>4. QED
        BY <1>1, <2>0, <2>2, <3>1, <3>2, <3>3, SocketOnly
    <2>3. QED
      BY <2>1, <2>2
  <1>8. QED
    BY <1>2, <1>3, <1>4, <1>5, <1>6, <1>7 DEF HandshakeStep

LEMMA RemovalIs ==
  ASSUME NEW st \in SockState, NEW removal \in {"none", "sent", "last"}
  PROVE  LET to == [st EXCEPT !.removal = removal]
         IN  /\ to \in SockState /\ to.pc = st.pc /\ to.connected = st.connected
             /\ to.identified = st.identified /\ to.timer = st.timer /\ to.removal = removal
  BY DEF SockState

\* The SREM of s takes effect, or not; the answer is removal.
LEMMA SremStep ==
  ASSUME PresenceInv, NEW s \in Socket, NEW removal \in {"none", "last"},
         sock[s].removal = "sent", ~SockAt(s, "register"),
         SockBecomes(s, [sock[s] EXCEPT !.removal = removal]),
         UNCHANGED shownOnline,
         presenceFaults' \in 0..MaxPresenceFaults, presenceFaults' >= presenceFaults,
         SetKept \/ SetLeft(s),
         presenceFaults' = 0 => SetLeft(s) /\ (online' = {} => removal = "last")
  PROVE  PresenceInv'
  <1> DEFINE st == [sock[s] EXCEPT !.removal = removal]
  <1>1. /\ sock[s] \in SockState /\ Sound(s, sock[s], online) /\ shownOnline \in BOOLEAN
        /\ sock[s].pc # "register"
    BY StateOf DEF SockAt
  <1>2. /\ st \in SockState /\ st.pc = sock[s].pc /\ st.connected = sock[s].connected
        /\ st.identified = sock[s].identified /\ st.timer = sock[s].timer /\ st.removal = removal
    <2>1. removal \in {"none", "sent", "last"}
      OBVIOUS
    <2>2. QED
      BY <1>1, <2>1, RemovalIs
  <1>3. SockBecomes(s, st)
    OBVIOUS
  <1> HIDE DEF st
  <1>4. ~st.connected /\ sock[s].pc # "new"
    BY <1>1, <1>2 DEF Sound
  <1>5. s \in online' => s \in online
    BY DEF SetKept, SetLeft
  <1>6. Sound(s, st, online')
    BY <1>1, <1>2, <1>4, <1>5 DEF Sound, Identified
  <1>7. Leased(s, st, online', ttl', presenceFaults')
    BY <1>4 DEF Leased
  <1>8. presenceFaults' = 0 => s \notin online'
    BY DEF SetLeft
  <1>9. shownOnline' /\ online' = {} /\ presenceFaults' = 0 =>
          shownOnline /\ (st.removal \in Pending \/ (online = {} /\ sock[s].removal \notin Pending))
    BY <1>2 DEF Pending
  <1>10. shownOnline' \in BOOLEAN
    BY <1>1
  <1>11. QED
    BY <1>2, <1>3, <1>6, <1>7, <1>8, <1>9, <1>10, OneSocketMoves

LEMMA RemovalInductive ==
  ASSUME PresenceInv, NEW s \in Socket, RemovalStep(s) \/ RemoveFails(s)
  PROVE  PresenceInv'
  <1>1. /\ sock[s] \in SockState /\ Sound(s, sock[s], online)
        /\ presenceFaults \in 0..MaxPresenceFaults /\ shownOnline \in BOOLEAN
        /\ presenceFaults = 0 /\ s \in online => sock[s].connected \/ sock[s].removal = "sent"
    BY StateOf
  <1>2. CASE RemoveMember(s)
    <2> DEFINE removal == IF online' = {} THEN "last" ELSE "none"
    <2>1. /\ removal \in {"none", "last"} /\ (online' = {} => removal = "last")
          /\ SockBecomes(s, [sock[s] EXCEPT !.removal = removal])
      BY <1>2 DEF RemoveMember
    <2> HIDE DEF removal
    <2>2. /\ sock[s].removal = "sent" /\ ~SockAt(s, "register") /\ SetLeft(s)
          /\ UNCHANGED <<shownOnline, presenceFaults>>
      BY <1>2 DEF RemoveMember, RemoveOnline, SetLeft
    <2>3. presenceFaults' \in 0..MaxPresenceFaults /\ presenceFaults' >= presenceFaults
      BY <1>1, <2>2
    <2>4. QED
      BY <2>1, <2>2, <2>3, SremStep
  <1>3. CASE RemoveFails(s)
    <2>1. /\ sock[s].removal = "sent" /\ ~SockAt(s, "register") /\ (SetKept \/ SetLeft(s))
          /\ UNCHANGED shownOnline /\ SockBecomes(s, [sock[s] EXCEPT !.removal = "last"])
      BY <1>3 DEF RemoveFails, RemoveOnline, SetLeft, SetKept
    <2>2. /\ presenceFaults' \in 0..MaxPresenceFaults /\ presenceFaults' >= presenceFaults
          /\ presenceFaults' # 0
      BY <1>1, <1>3 DEF RemoveFails, PresenceFault
    <2>3. QED
      BY <2>1, <2>2, SremStep
  <1>4. CASE AnnounceOffline(s)
    <2> DEFINE st == [sock[s] EXCEPT !.removal = "none"]
    <2>1. /\ st \in SockState /\ st.pc = sock[s].pc /\ st.connected = sock[s].connected
          /\ st.identified = sock[s].identified /\ st.timer = sock[s].timer /\ st.removal = "none"
      BY <1>1, RemovalIs
    <2>2. /\ SockBecomes(s, st) /\ sock[s].removal = "last" /\ shownOnline' = FALSE
          /\ UNCHANGED <<online, ttl, presenceFaults>>
      BY <1>4 DEF AnnounceOffline
    <2> HIDE DEF st
    <2>3. ~st.connected
      BY <1>1, <2>1, <2>2 DEF Sound
    <2>4. Sound(s, st, online') /\ Leased(s, st, online', ttl', presenceFaults')
      BY <1>1, <2>1, <2>2, <2>3 DEF Sound, Leased, Identified
    <2>5. presenceFaults' = 0 => s \notin online'
      BY <1>1, <2>1, <2>2, <2>3
    <2>6. presenceFaults' \in 0..MaxPresenceFaults /\ presenceFaults' >= presenceFaults
      BY <1>1, <2>2
    <2>7. ~shownOnline' /\ shownOnline' \in BOOLEAN
      BY <2>2
    <2>8. QED
      BY <2>1, <2>2, <2>4, <2>5, <2>6, <2>7, KeptIsKept, OneSocketMoves
  <1>5. QED
    BY <1>2, <1>3, <1>4 DEF RemovalStep

\* The callback of the timer of s ends in state to: as it was, or disconnected.
LEMMA CallbackStep ==
  ASSUME PresenceInv, NEW s \in Socket, sock[s].timer = "check",
         NEW to \in {sock[s], Disconnected(sock[s])}, SockBecomes(s, CallbackOver(to)),
         UNCHANGED shownOnline, presenceFaults' \in 0..MaxPresenceFaults,
         \/ SetKept /\ (presenceFaults' > presenceFaults \/ ~to.connected)
         \/ SetRenewed,
         presenceFaults' >= presenceFaults
  PROVE  PresenceInv'
  <1> DEFINE st == CallbackOver(to)
  <1>1. /\ sock[s] \in SockState /\ Sound(s, sock[s], online) /\ shownOnline \in BOOLEAN
        /\ Leased(s, sock[s], online, ttl, presenceFaults)
        /\ presenceFaults \in 0..MaxPresenceFaults
        /\ presenceFaults = 0 /\ s \in online => sock[s].connected \/ sock[s].removal = "sent"
        /\ ttl \in 0..Ttl
    BY StateOf
  <1>2. /\ to \in SockState /\ to.pc = sock[s].pc /\ to.identified = sock[s].identified
        /\ to.connected => to = sock[s]
        /\ sock[s].connected /\ ~to.connected => to.removal = IF to.identified THEN "sent" ELSE "none"
        /\ ~sock[s].connected => to.removal = sock[s].removal
    BY <1>1, DisconnectedIs
  <1>3. /\ st \in SockState /\ st.pc = sock[s].pc /\ st.identified = sock[s].identified
        /\ st.connected = to.connected /\ st.removal = to.removal
        /\ st.timer = IF to.connected THEN "set" ELSE "off"
    BY <1>2, CallbackOverIs
  <1>4. SockBecomes(s, st)
    OBVIOUS
  <1> HIDE DEF st
  <1>5. sock[s].pc = "open" /\ online' = online
    BY <1>1 DEF Sound, SetKept, SetRenewed
  <1>6. Sound(s, st, online')
    BY <1>1, <1>2, <1>3, <1>5 DEF Sound, Identified
  <1>7. ASSUME st.connected PROVE s \in online /\ ttl' + presenceFaults' >= Ttl /\ ttl' + presenceFaults' + 1 >= Ttl
    <2>1. s \in online /\ ttl + presenceFaults + 1 >= Ttl
      BY <1>1, <1>2, <1>3, <1>5, <1>7 DEF Leased
    <2>2. CASE SetRenewed
      <3>1. ttl' = Ttl
        BY <2>1, <2>2 DEF SetRenewed, Alive
      <3>2. QED
        BY <1>1, <2>1, <3>1
    <2>3. CASE SetKept /\ presenceFaults' > presenceFaults
      <3>1. ttl' = ttl
        BY <2>3 DEF SetKept
      <3>2. ttl \in Nat /\ presenceFaults \in Nat /\ presenceFaults' \in Nat
        BY <1>1
      <3>3. ttl + presenceFaults' >= Ttl /\ ttl + presenceFaults' + 1 >= Ttl
        BY <2>1, <2>3, <3>2, FailureLasts
      <3>4. QED
        BY <2>1, <3>1, <3>3
    <2>4. QED
      BY <1>3, <1>7, <2>2, <2>3
  <1>8. Leased(s, st, online', ttl', presenceFaults')
    BY <1>3, <1>5, <1>7 DEF Leased
  <1>9. s \in online' /\ presenceFaults' = 0 => st.connected \/ st.removal = "sent"
    <2>1. presenceFaults' = 0 => presenceFaults = 0
      BY <1>1
    <2>2. QED
      BY <1>1, <1>2, <1>3, <1>5, <2>1 DEF Sound
  <1>10. sock[s].removal \in Pending => st.removal \in Pending
    BY <1>1, <1>2, <1>3 DEF Sound, Pending
  <1>11. shownOnline' \in BOOLEAN
    BY <1>1
  <1>12. QED
    BY <1>3, <1>4, <1>5, <1>6, <1>8, <1>9, <1>10, <1>11, OneSocketMoves

LEMMA TimerInductive ==
  ASSUME PresenceInv, NEW s \in Socket, TimerStep(s) \/ RenewFails(s)
  PROVE  PresenceInv'
  <1>1. /\ sock[s] \in SockState /\ Sound(s, sock[s], online) /\ shownOnline \in BOOLEAN
        /\ Leased(s, sock[s], online, ttl, presenceFaults)
        /\ presenceFaults \in 0..MaxPresenceFaults
    BY StateOf
  <1>2. CASE SocketTimerFires(s)
    <2> DEFINE st == [sock[s] EXCEPT !.timer = "check"]
    <2>1. /\ st \in SockState /\ st.pc = sock[s].pc /\ st.connected = sock[s].connected
          /\ st.identified = sock[s].identified /\ st.timer = "check" /\ st.removal = sock[s].removal
      BY <1>1 DEF SockState
    <2>2. SockBecomes(s, st) /\ sock[s].timer = "due" /\ UNCHANGED <<online, ttl, shownOnline, presenceFaults>>
      BY <1>2 DEF SocketTimerFires
    <2> HIDE DEF st
    <2>3. Sound(s, st, online) /\ Leased(s, st, online, ttl, presenceFaults')
      BY <1>1, <2>1, <2>2 DEF Sound, Leased, Identified
    <2>4. s \in online /\ ~st.connected => ~sock[s].connected /\ st.removal = sock[s].removal
      BY <2>1
    <2>5. QED
      BY <1>1, <2>1, <2>2, <2>3, <2>4, SocketOnly
  <1>3. CASE Kick(s)
    <2>1. ~Disconnected(sock[s]).connected
      BY <1>1, DisconnectedIs
    <2>2. SetKept /\ presenceFaults' = presenceFaults /\ UNCHANGED shownOnline
      BY <1>3 DEF Kick, SetKept
    <2>3. QED
      BY <1>1, <1>3, <2>1, <2>2, CallbackStep DEF Kick
  <1>4. CASE Renew(s)
    <2>1. SetRenewed /\ presenceFaults' = presenceFaults /\ UNCHANGED shownOnline
      BY <1>4 DEF Renew, SetRenewed
    <2>2. QED
      BY <1>1, <1>4, <2>1, CallbackStep DEF Renew
  <1>5. CASE RenewFails(s)
    <2>1. SetKept /\ UNCHANGED shownOnline
      BY <1>5 DEF RenewFails, SetKept
    <2>2. presenceFaults' \in 0..MaxPresenceFaults /\ presenceFaults' > presenceFaults
      BY <1>1, <1>5 DEF RenewFails, PresenceFault
    <2>3. presenceFaults' >= presenceFaults
      BY <1>1, <2>2
    <2>4. QED
      BY <1>5, <2>1, <2>2, <2>3, CallbackStep DEF RenewFails
  <1>6. QED
    BY <1>2, <1>3, <1>4, <1>5 DEF TimerStep

LEMMA FailureInductive ==
  ASSUME PresenceInv, NEW s \in Socket, RegisterFails(s) \/ CompensateFails(s)
  PROVE  PresenceInv'
  <1>1. /\ sock[s] \in SockState /\ Sound(s, sock[s], online)
        /\ presenceFaults \in 0..MaxPresenceFaults /\ shownOnline \in BOOLEAN
    BY StateOf
  <1>2. PresenceFault /\ UNCHANGED shownOnline
    BY DEF RegisterFails, CompensateFails
  <1>3. presenceFaults' \in 0..MaxPresenceFaults /\ presenceFaults' >= presenceFaults /\ presenceFaults' # 0
    BY <1>1, <1>2 DEF PresenceFault
  <1>4. CASE RegisterFails(s)
    <2>1. Refuse(s) /\ sock[s].pc = "register" /\ (SetKept \/ SetJoined(s))
      BY <1>4 DEF RegisterFails, SockAt, SetKept, SetJoined
    <2>2. QED
      BY <1>2, <1>3, <2>1, RefuseStep DEF SockAt
  <1>5. CASE CompensateFails(s)
    <2> DEFINE st == [sock[s] EXCEPT !.pc = "over"]
    <2>1. /\ st \in SockState /\ st.pc = "over" /\ st.connected = sock[s].connected
          /\ st.identified = sock[s].identified /\ st.removal = sock[s].removal
          /\ st.timer = sock[s].timer
      BY <1>1, PcIs
    <2>2. SockBecomes(s, st) /\ sock[s].pc = "compensate" /\ (SetKept \/ SetLeft(s))
      BY <1>5 DEF CompensateFails, SockGoes, SockAt, RemoveOnline, SetLeft, SetKept
    <2> HIDE DEF st
    <2>3. s \in online' => s \in online
      BY <2>2 DEF SetKept, SetLeft
    <2>4. Sound(s, st, online') /\ Leased(s, st, online', ttl', presenceFaults')
      BY <1>1, <2>1, <2>2, <2>3 DEF Sound, Leased, Identified
    <2>5. shownOnline' \in BOOLEAN
      BY <1>1, <1>2
    <2>6. QED
      BY <1>3, <2>1, <2>2, <2>4, <2>5, OneSocketMoves
  <1>6. QED
    BY <1>4, <1>5

LEMMA CrashInductive ==
  ASSUME PresenceInv, NEW served \in SUBSET Socket, Crash(served)
  PROVE  PresenceInv'
  <1>1. PresenceTyped /\ SetBounded /\ presenceFaults \in Nat
    BY DEF PresenceInv, PresenceTyped
  <1>2. presenceFaults' \in 0..MaxPresenceFaults /\ presenceFaults' = presenceFaults + 1 /\ presenceFaults' # 0
    <2>1. presenceFaults \in 0..MaxPresenceFaults
      BY <1>1 DEF PresenceTyped
    <2>2. PresenceFault
      BY DEF Crash
    <2>3. QED
      BY <2>1, <2>2 DEF PresenceFault
  <1>3. ASSUME NEW q \in Socket
        PROVE  /\ sock'[q] \in SockState
               /\ q \notin served => sock'[q] = sock[q]
               /\ q \in served =>
                    /\ sock'[q].pc = "over" /\ ~sock'[q].connected /\ sock'[q].timer = "off"
                    /\ sock'[q].identified = sock[q].identified
    BY <1>1, <1>3 DEF Crash, PresenceTyped, SockState
  <1>4. PresenceTyped'
    <2>1. sock' \in [Socket -> SockState]
      BY <1>3 DEF Crash
    <2>2. shownOnline' = shownOnline
      BY DEF Crash
    <2>3. QED
      BY <1>1, <1>2, <2>1, <2>2 DEF PresenceTyped
  <1>5. SetBounded' /\ UNCHANGED <<online, ttl>> /\ ttl \in Nat
    <2>1. online' = online /\ ttl' = ttl
      BY DEF Crash
    <2>2. SetBounded'
      BY <1>1, <2>1 DEF SetBounded
    <2>3. ttl \in Nat
      BY <1>1 DEF SetBounded
    <2>4. QED
      BY <2>1, <2>2, <2>3
  <1>6. ASSUME NEW q \in Socket
        PROVE  Sound(q, sock'[q], online') /\ Leased(q, sock'[q], online', ttl', presenceFaults')
    <2>1. Sound(q, sock[q], online) /\ Leased(q, sock[q], online, ttl, presenceFaults)
      BY StateOf
    <2>2. CASE q \in served
      BY <1>3, <1>5, <2>1, <2>2 DEF Sound, Leased, Identified
    <2>3. CASE q \notin served
      <3>1. presenceFaults' \in Nat /\ presenceFaults' >= presenceFaults /\ ttl >= ttl
        BY <1>1, <1>2, <1>5
      <3>2. Leased(q, sock[q], online, ttl, presenceFaults')
        BY <1>1, <1>5, <2>1, <3>1, LeaseLasts
      <3>3. QED
        BY <1>3, <1>5, <2>1, <2>3, <3>2
    <2>4. QED
      BY <2>2, <2>3
  <1>7. QED
    BY <1>2, <1>4, <1>5, <1>6 DEF PresenceInv

LEMMA MinuteInductive == ASSUME PresenceInv, Minute PROVE PresenceInv'
  <1>1. /\ PresenceTyped /\ SetBounded /\ presenceFaults \in 0..MaxPresenceFaults
        /\ ttl \in 0..Ttl /\ IsFiniteSet(online)
    BY DEF PresenceInv, PresenceTyped, SetBounded
  <1>2. presenceFaults' = presenceFaults /\ shownOnline' = shownOnline
    BY DEF Minute
  <1>3. ASSUME NEW q \in Socket
        PROVE  /\ sock'[q] \in SockState /\ sock'[q].pc = sock[q].pc
               /\ sock'[q].connected = sock[q].connected /\ sock'[q].identified = sock[q].identified
               /\ sock'[q].removal = sock[q].removal
               /\ sock'[q].timer = IF sock[q].timer = "set" THEN "due" ELSE sock[q].timer
    BY <1>1, <1>3 DEF Minute, PresenceTyped, SockState
  <1>4. PresenceTyped'
    <2>1. sock' \in [Socket -> SockState]
      BY <1>3 DEF Minute
    <2>2. QED
      BY <1>1, <1>2, <2>1 DEF PresenceTyped
  <1>5. /\ online' \in {{}, online} /\ ttl' \in 0..Ttl
        /\ ttl > 1 => ttl' = ttl - 1 /\ online' = online
        /\ ttl' = 0 <=> online' = {}
    BY <1>1 DEF Minute, SetBounded
  <1>6. SetBounded'
    <2>1. IsFiniteSet({}) /\ Cardinality({}) = 0
      BY FS_EmptySet
    <2>2. QED
      <3>1. CASE online' = {}
        BY <1>1, <1>5, <2>1, <3>1 DEF SetBounded
      <3>2. CASE online' = online
        BY <1>1, <1>5, <3>2 DEF SetBounded
      <3>3. QED
        BY <1>5, <3>1, <3>2
  <1>7. ASSUME NEW q \in Socket
        PROVE  /\ Sound(q, sock'[q], online') /\ Leased(q, sock'[q], online', ttl', presenceFaults')
               /\ sock[q].connected => q \in online'
    <2>1. /\ Sound(q, sock[q], online) /\ Leased(q, sock[q], online, ttl, presenceFaults)
          /\ sock[q] \in SockState
      BY StateOf
    <2>2. sock[q].pc \notin HandshakePc /\ sock[q].timer \in {"off", "set"}
      BY DEF Minute, Calm, SocketSettled
    <2>3. Sound(q, sock'[q], online')
      BY <1>3, <1>5, <2>1, <2>2 DEF Sound
    <2>4. CASE ~sock[q].connected
      BY <1>3, <2>3, <2>4 DEF Leased
    <2>5. CASE sock[q].connected
      <3>1. sock[q].pc = "open" /\ sock[q].timer = "set"
        BY <2>1, <2>2, <2>5 DEF Sound, Leased, HandshakePc, SockState
      <3>2. q \in online /\ ttl + presenceFaults >= Ttl
        BY <2>1, <2>5, <3>1 DEF Leased
      <3>3. ttl > 1 /\ (ttl - 1) + presenceFaults + 1 >= Ttl
        BY <1>1, <3>2
      <3>4. q \in online' /\ ttl' + presenceFaults' + 1 >= Ttl
        BY <1>2, <1>5, <3>2, <3>3
      <3>5. sock'[q].pc = "open" /\ sock'[q].timer = "due"
        BY <1>3, <3>1
      <3>6. QED
        BY <2>3, <3>4, <3>5 DEF Leased
    <2>6. QED
      BY <2>4, <2>5
  <1>8. ASSUME presenceFaults' = 0 PROVE Unfailing'
    <2>1. Unfailing /\ Calm
      BY <1>2, <1>8 DEF PresenceInv, Minute
    <2>2. \A q \in online : q \in Socket /\ sock[q].connected
      BY <1>1, <2>1 DEF Unfailing, Calm, SocketSettled, SetBounded
    <2>3. online' = online
      BY <1>5, <1>7, <2>2
    <2>4. QED
      BY <1>2, <1>3, <2>1, <2>2, <2>3 DEF Unfailing
  <1>9. QED
    BY <1>4, <1>6, <1>7, <1>8 DEF PresenceInv

LEMMA PresenceInductive == PresenceSpec => []PresenceInv
  <1>1. PresenceInit => PresenceInv
    <2> SUFFICES ASSUME PresenceInit PROVE PresenceInv
      OBVIOUS
    <2>1. /\ \A s \in Socket : /\ sock[s] \in SockState /\ sock[s].pc = "new" /\ ~sock[s].connected
                               /\ ~sock[s].identified /\ sock[s].timer = "off" /\ sock[s].removal = "none"
          /\ sock \in [Socket -> SockState]
      BY DEF PresenceInit, SockState
    <2>2. \A s \in Socket : Sound(s, sock[s], online) /\ Leased(s, sock[s], online, ttl, presenceFaults)
      BY <2>1 DEF PresenceInit, Sound, Leased, Identified
    <2>3. SetBounded
      BY FS_EmptySet DEF PresenceInit, SetBounded
    <2>4. Unfailing
      BY DEF PresenceInit, Unfailing
    <2>5. PresenceTyped
      <3>1. presenceFaults \in 0..MaxPresenceFaults
        BY DEF PresenceInit
      <3>2. shownOnline \in BOOLEAN
        BY DEF PresenceInit
      <3>3. QED
        BY <2>1, <3>1, <3>2 DEF PresenceTyped
    <2>6. QED
      BY <2>2, <2>3, <2>4, <2>5 DEF PresenceInv
  <1>2. PresenceInv /\ [PresenceNext]_presenceVars => PresenceInv'
    <2> SUFFICES ASSUME PresenceInv, [PresenceNext]_presenceVars PROVE PresenceInv'
      OBVIOUS
    <2>1. CASE UNCHANGED presenceVars
      BY <2>1 DEF presenceVars, PresenceInv, PresenceTyped, SetBounded, Unfailing
    <2>2. QED
      BY <2>1, ConnectStep, DropStep, HandshakeInductive, RemovalInductive, TimerInductive,
         FailureInductive, CrashInductive, MinuteInductive DEF PresenceNext, FaultStep
  <1>3. QED
    BY <1>1, <1>2, PTL DEF PresenceSpec

(* Every state the gateway and Redis reach has the types of PresenceTypeOK, and
   the set has a life left exactly when it has members.                       *)
THEOREM PresenceTypeCorrect == PresenceSpec => []PresenceTypeOK
  <1>1. PresenceInv => PresenceTypeOK
    BY DEF PresenceInv, PresenceTyped, SetBounded, PresenceTypeOK
  <1>2. QED
    BY <1>1, PresenceInductive, PTL

(* As long as no Redis call fails and no instance dies, no socket is left in the
   set of online sockets after it dropped, at whichever await it dropped.      *)
THEOREM NoGhostsWithoutFailures == PresenceSpec => []NoGhosts
  <1>1. PresenceInv => NoGhosts
    BY DEF PresenceInv, Unfailing, NoGhosts, Ghost
  <1>2. QED
    BY <1>1, PresenceInductive, PTL

(* Whatever fails, a socket that is open is in the set pushToUser reads, and the
   set never outgrows MAX_CONNECTIONS_PER_USER.                                *)
THEOREM OpenSocketsAreReachable == PresenceSpec => []OpenIsReachable
  <1>1. PresenceInv => OpenIsReachable
    BY DEF PresenceInv, SetBounded, Leased, OpenIsReachable, SockAt
  <1>2. QED
    BY <1>1, PresenceInductive, PTL

(* Without failures, the watchers see a user online only if he has a connection
   once every handler has finished: whoever empties the set announces it.      *)
THEOREM ShownForAReason == PresenceSpec => []NotShownInVain
  <1>1. PresenceInv => NotShownInVain
    <2> SUFFICES ASSUME PresenceInv, presenceFaults = 0, Calm, shownOnline
                 PROVE  \E s \in Socket : sock[s].connected
      BY DEF NotShownInVain
    <2>1. Unfailing /\ online \subseteq Socket
      BY DEF PresenceInv, SetBounded
    <2>2. \A s \in Socket : sock[s].removal = "none"
      BY DEF Calm, SocketSettled
    <2>3. QED
      BY <2>1, <2>2 DEF Unfailing, Pending
  <1>2. QED
    BY <1>1, PresenceInductive, PTL
=============================================================================
