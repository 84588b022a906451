---------------------------- MODULE TCPListener ----------------------------
(***************************************************************************)
(* Passive opening: the registry of listeners of the engine and the        *)
(* sessions it creates (TCPListener.cpp, the listener functions of         *)
(* SimulationEngine.cpp, and the case of PacketReceivedEvent::execute for  *)
(* a SYN that belongs to no session).                                      *)
(*                                                                         *)
(* What a session does between its creation and the moment both of its     *)
(* connections are CLOSED is the subject of TCPSession; here it is open or *)
(* closed.  Sessions are never removed from the engine's map.              *)
(***************************************************************************)
EXTENDS Integers, FiniteSets

CONSTANTS
  Node,
  Backlog,      \* backlogs a listener may be started with or set to
  MaxSessions   \* bound: sessions created

ASSUME ListenerAssumption == Backlog \subseteq Int /\ MaxSessions \in Nat

SessionId == 0 .. MaxSessions - 1

Listener == [listening : BOOLEAN, backlog : Backlog, active : SUBSET SessionId]

Session == [source : Node, destination : Node, state : {"open", "closed"}]

VARIABLES
  listeners,       \* listeners_: a map from some nodes to their listener
  sessions,        \* a map from the identifiers given out to their session
  nextSessionId,   \* next_session_id
  answer           \* what became of the last SYN without a session

vars == <<listeners, sessions, nextSessionId, answer>>

Answer == {"none", "accepted", "reset"}

HasListener(n) == n \in DOMAIN listeners /\ listeners[n].listening

\* Mutant: the session that fills the backlog is one too many.
HasRoomOffByOne(l) == l.backlog <= 0 \/ Cardinality(l.active) <= l.backlog

\* A backlog of 0 or less is no limit.
HasRoom(l) == l.backlog <= 0 \/ Cardinality(l.active) < l.backlog

Init ==
  /\ listeners = <<>>
  /\ sessions = <<>>
  /\ nextSessionId = 0
  /\ answer = "none"

\* map::emplace: a second listener on a node does not replace the first.
StartTCPListen(n, backlog) ==
  /\ n \notin DOMAIN listeners
  /\ listeners' = [m \in DOMAIN listeners \union {n} |->
                     IF m = n
                       THEN [listening |-> TRUE, backlog |-> backlog, active |-> {}]
                       ELSE listeners[m]]
  /\ UNCHANGED <<sessions, nextSessionId, answer>>

SetListening(n, v) ==
  /\ n \in DOMAIN listeners
  /\ listeners' = [listeners EXCEPT ![n].listening = v]
  /\ UNCHANGED <<sessions, nextSessionId, answer>>

SetBacklog(n, backlog) ==
  /\ n \in DOMAIN listeners
  /\ listeners' = [listeners EXCEPT ![n].backlog = backlog]
  /\ UNCHANGED <<sessions, nextSessionId, answer>>

\* Mutant: the identifier is given out again.
CreateTCPSessionSameId(source, destination) ==
  /\ nextSessionId < MaxSessions
  /\ nextSessionId' = nextSessionId
  /\ sessions' = [id \in DOMAIN sessions \union {nextSessionId} |->
                    IF id = nextSessionId
                      THEN [source |-> source, destination |-> destination,
                            state |-> "open"]
                      ELSE sessions[id]]

CreateTCPSession(source, destination) ==
  /\ nextSessionId < MaxSessions
  /\ nextSessionId' = nextSessionId + 1
  /\ sessions' = [id \in DOMAIN sessions \union {nextSessionId} |->
                    IF id = nextSessionId
                      THEN [source |-> source, destination |-> destination,
                            state |-> "open"]
                      ELSE sessions[id]]

\* startTCPConnection: an active opening, which no listener counts.
StartTCPConnection(source, destination) ==
  /\ source # destination
  /\ CreateTCPSession(source, destination)
  /\ UNCHANGED <<listeners, answer>>

\* A SYN of no known session arrives and the listener there takes it.
Accept(source, destination) ==
  /\ source # destination
  /\ HasListener(destination)
  /\ HasRoom(listeners[destination])
  /\ CreateTCPSession(source, destination)
  /\ listeners' = [listeners EXCEPT ![destination].active = @ \union {nextSessionId}]
  /\ answer' = "accepted"

\* It is answered with a RST: nobody listens, or the backlog is full.
Refuse(source, destination) ==
  /\ source # destination
  /\ ~ (HasListener(destination) /\ HasRoom(listeners[destination]))
  /\ answer' = "reset"
  /\ UNCHANGED <<listeners, sessions, nextSessionId>>

\* Both connections reach CLOSED.  No one calls untrackSession.
SessionCloses(id) ==
  /\ id \in DOMAIN sessions
  /\ sessions[id].state = "open"
  /\ sessions' = [sessions EXCEPT ![id].state = "closed"]
  /\ UNCHANGED <<listeners, nextSessionId, answer>>

Next ==
  \/ \E n \in Node, b \in Backlog : StartTCPListen(n, b) \/ SetBacklog(n, b)
  \/ \E n \in Node, v \in BOOLEAN : SetListening(n, v)
  \/ \E s, d \in Node : StartTCPConnection(s, d) \/ Accept(s, d) \/ Refuse(s, d)
  \/ \E id \in SessionId : SessionCloses(id)

Spec == Init /\ [][Next]_vars

-----------------------------------------------------------------------------

\* The sessions accepted by the listener of node n that are still open.
Open(n) == {id \in listeners[n].active : sessions[id].state = "open"}

\* Types; identifiers are given out once, in order, and a listener only counts
\* sessions that lead to its node.
TypeOK ==
  /\ nextSessionId \in 0 .. MaxSessions
  /\ DOMAIN listeners \subseteq Node
  /\ \A n \in DOMAIN listeners : listeners[n] \in Listener
  /\ DOMAIN sessions = 0 .. nextSessionId - 1
  /\ \A id \in DOMAIN sessions : sessions[id] \in Session
  /\ \A n \in DOMAIN listeners :
       \A id \in listeners[n].active :
         id \in DOMAIN sessions /\ sessions[id].destination = n
  /\ answer \in Answer

(***************************************************************************)
(* A listener whose backlog is full takes no further session, whatever     *)
(* closes, restarts and changes of the backlog came before: the sessions   *)
(* it has open grow only below its backlog (TCPListener::accept).          *)
(***************************************************************************)
BacklogRespected ==
  [][\A n \in DOMAIN listeners :
       Cardinality(Open(n)') > Cardinality(Open(n)) =>
         /\ listeners[n].listening
         /\ listeners[n].backlog <= 0
              \/ Cardinality(Open(n)) < listeners[n].backlog]_vars

(***************************************************************************)
(* getActiveConnections is the number of currently open (not yet CLOSED)   *)
(* sessions the listener accepted (TCPListener.hpp).                       *)
(***************************************************************************)
ActiveConnectionsAreOpen ==
  \A n \in DOMAIN listeners : listeners[n].active = Open(n)

=============================================================================
