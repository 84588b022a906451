------------------------- MODULE TCPListenerProofs -------------------------
(***************************************************************************)
(* The registry of listeners, for any set of nodes, any backlogs and any   *)
(* number of sessions.                                                     *)
(***************************************************************************)
EXTENDS TCPListener, FiniteSetTheorems, TLAPS

-----------------------------------------------------------------------------

LEMMA InitTypeOK == Init => TypeOK
<1> SUFFICES ASSUME Init PROVE TypeOK
  OBVIOUS
<1>1. DOMAIN listeners = {} /\ DOMAIN sessions = {}
  BY DEF Init
<1>2. nextSessionId = 0 /\ answer \in Answer
  BY DEF Init, Answer
<1>3. DOMAIN sessions = 0 .. nextSessionId - 1 /\ nextSessionId \in 0 .. MaxSessions
  BY <1>1, <1>2, ListenerAssumption
<1> QED
  BY <1>1, <1>2, <1>3 DEF TypeOK

\* The new session takes the next identifier, which no listener counts yet.
LEMMA CreateTCPSessionType ==
  ASSUME TypeOK, NEW s \in Node, NEW d \in Node, CreateTCPSession(s, d)
  PROVE  /\ nextSessionId \in SessionId
         /\ nextSessionId' \in 0 .. MaxSessions
         /\ DOMAIN sessions' = 0 .. nextSessionId' - 1
         /\ \A id \in DOMAIN sessions' : sessions'[id] \in Session
         /\ \A id \in DOMAIN sessions : id \in DOMAIN sessions' /\ sessions'[id] = sessions[id]
         /\ nextSessionId \in DOMAIN sessions'
         /\ sessions'[nextSessionId].destination = d
<1>1. /\ nextSessionId < MaxSessions /\ nextSessionId \in Nat /\ MaxSessions \in Nat
      /\ nextSessionId' = nextSessionId + 1
      /\ DOMAIN sessions = 0 .. nextSessionId - 1
  BY ListenerAssumption DEF TypeOK, CreateTCPSession
<1>2. /\ nextSessionId \in SessionId
      /\ nextSessionId' \in 0 .. MaxSessions
      /\ DOMAIN sessions \union {nextSessionId} = 0 .. nextSessionId' - 1
      /\ nextSessionId \notin DOMAIN sessions
  BY <1>1 DEF SessionId
<1>3. /\ DOMAIN sessions' = DOMAIN sessions \union {nextSessionId}
      /\ \A id \in DOMAIN sessions : sessions'[id] = sessions[id]
      /\ sessions'[nextSessionId] =
           [source |-> s, destination |-> d, state |-> "open"]
  BY <1>2 DEF CreateTCPSession
<1>4. sessions'[nextSessionId] \in Session
  BY <1>3 DEF Session
<1> QED
  BY <1>2, <1>3, <1>4 DEF TypeOK

LEMMA NextTypeOK ==
  ASSUME TypeOK, [Next]_vars
  PROVE  TypeOK'
<1>1. ASSUME NEW n \in Node, NEW b \in Backlog, StartTCPListen(n, b)
      PROVE  TypeOK'
  <2>1. [listening |-> TRUE, backlog |-> b, active |-> {}] \in Listener
    BY DEF Listener
  <2>2. /\ DOMAIN listeners' = DOMAIN listeners \union {n}
        /\ listeners'[n] = [listening |-> TRUE, backlog |-> b, active |-> {}]
        /\ \A m \in DOMAIN listeners : m # n => listeners'[m] = listeners[m]
    BY <1>1 DEF StartTCPListen
  <2> QED
    BY <1>1, <2>1, <2>2 DEF TypeOK, StartTCPListen
<1>2. ASSUME NEW n \in Node, NEW b \in Backlog, SetBacklog(n, b)
      PROVE  TypeOK'
  <2>1. [listeners[n] EXCEPT !.backlog = b] \in Listener
    BY <1>2 DEF TypeOK, SetBacklog, Listener
  <2> QED
    BY <1>2, <2>1 DEF TypeOK, SetBacklog, Listener
<1>3. ASSUME NEW n \in Node, NEW v \in BOOLEAN, SetListening(n, v)
      PROVE  TypeOK'
  <2>1. [listeners[n] EXCEPT !.listening = v] \in Listener
    BY <1>3 DEF TypeOK, SetListening, Listener
  <2> QED
    BY <1>3, <2>1 DEF TypeOK, SetListening, Listener
<1>4. ASSUME NEW s \in Node, NEW d \in Node, StartTCPConnection(s, d)
      PROVE  TypeOK'
  BY <1>4, CreateTCPSessionType DEF TypeOK, StartTCPConnection
<1>5. ASSUME NEW s \in Node, NEW d \in Node, Accept(s, d)
      PROVE  TypeOK'
  <2>1. /\ d \in DOMAIN listeners /\ listeners[d] \in Listener
        /\ CreateTCPSession(s, d)
        /\ listeners' = [listeners EXCEPT ![d].active = @ \union {nextSessionId}]
        /\ answer' \in Answer
    BY <1>5 DEF TypeOK, Accept, HasListener, Answer
  <2>2. nextSessionId \in SessionId
    BY <2>1, CreateTCPSessionType
  <2>3. [listeners[d] EXCEPT !.active = @ \union {nextSessionId}] \in Listener
    BY <2>1, <2>2 DEF Listener
  <2>4. /\ DOMAIN listeners' = DOMAIN listeners
        /\ \A n \in DOMAIN listeners : listeners'[n] \in Listener
        /\ \A n \in DOMAIN listeners : n # d => listeners'[n] = listeners[n]
        /\ listeners'[d].active = listeners[d].active \union {nextSessionId}
    BY <2>1, <2>3 DEF TypeOK, Listener
  <2>5. \A n \in DOMAIN listeners' : \A id \in listeners'[n].active :
          id \in DOMAIN sessions' /\ sessions'[id].destination = n
    BY <2>1, <2>4, CreateTCPSessionType DEF TypeOK
  <2> QED
    BY <2>1, <2>4, <2>5, CreateTCPSessionType DEF TypeOK
<1>6. ASSUME NEW s \in Node, NEW d \in Node, Refuse(s, d)
      PROVE  TypeOK'
  BY <1>6 DEF TypeOK, Refuse, Answer
<1>7. ASSUME NEW id \in SessionId, SessionCloses(id)
      PROVE  TypeOK'
  <2>1. [sessions[id] EXCEPT !.state = "closed"] \in Session
    BY <1>7 DEF TypeOK, SessionCloses, Session
  <2>2. /\ DOMAIN sessions' = DOMAIN sessions
        /\ \A x \in DOMAIN sessions : sessions'[x] \in Session
        /\ \A x \in DOMAIN sessions : sessions'[x].destination = sessions[x].destination
    BY <1>7, <2>1 DEF TypeOK, SessionCloses, Session
  <2> QED
    BY <1>7, <2>2 DEF TypeOK, SessionCloses
<1>8. CASE UNCHANGED vars
  BY <1>8 DEF TypeOK, vars
<1> QED
  BY <1>1, <1>2, <1>3, <1>4, <1>5, <1>6, <1>7, <1>8 DEF Next

(***************************************************************************)
(* Session identifiers are given out once and in order, and a listener     *)
(* counts only sessions that exist and lead to its node, whatever sequence *)
(* of openings, closes and backlog changes (createTCPSession,              *)
(* acceptOnListener).                                                      *)
(***************************************************************************)
THEOREM ListenerTypeCorrect == Spec => []TypeOK
BY InitTypeOK, NextTypeOK, PTL DEF Spec

-----------------------------------------------------------------------------
(* The backlog. *)

\* What Open(n) is made of is finite.
LEMMA ActiveFinite ==
  ASSUME TypeOK, NEW n \in DOMAIN listeners
  PROVE  /\ IsFiniteSet(listeners[n].active)
         /\ IsFiniteSet(Open(n))
         /\ Cardinality(Open(n)) \in Nat
         /\ Cardinality(listeners[n].active) \in Nat
         /\ Cardinality(Open(n)) <= Cardinality(listeners[n].active)
<1>1. listeners[n].active \subseteq SessionId /\ Open(n) \subseteq listeners[n].active
  BY DEF TypeOK, Listener, Open
<1>2. IsFiniteSet(SessionId)
  BY FS_Interval, ListenerAssumption DEF SessionId
<1>3. IsFiniteSet(listeners[n].active)
  BY <1>1, <1>2, FS_Subset
<1> QED
  BY <1>1, <1>3, FS_Subset, FS_CardinalityType

\* A step that opens no session of n.
LEMMA OpensNothing ==
  ASSUME TypeOK, NEW n \in DOMAIN listeners, Open(n)' \subseteq Open(n)
  PROVE  ~ (Cardinality(Open(n)') > Cardinality(Open(n)))
<1>1. /\ IsFiniteSet(Open(n)) /\ Cardinality(Open(n)) \in Nat
  BY ActiveFinite
<1>2. Cardinality(Open(n)') \in Nat /\ Cardinality(Open(n)') <= Cardinality(Open(n))
  BY <1>1, FS_Subset, FS_CardinalityType
<1> QED
  BY <1>1, <1>2

\* The new session counts at no listener but the one that accepted it.
LEMMA CreateTCPSessionOpens ==
  ASSUME TypeOK, NEW s \in Node, NEW d \in Node, CreateTCPSession(s, d),
         NEW n \in DOMAIN listeners, listeners'[n].active = listeners[n].active
  PROVE  Open(n)' \subseteq Open(n)
<1>1. \A id \in DOMAIN sessions : sessions'[id] = sessions[id]
  BY CreateTCPSessionType
<1> QED
  BY <1>1 DEF Open, TypeOK

LEMMA NextBacklog ==
  ASSUME TypeOK, [Next]_vars, NEW n \in DOMAIN listeners,
         Cardinality(Open(n)') > Cardinality(Open(n))
  PROVE  /\ listeners[n].listening
         /\ listeners[n].backlog <= 0
              \/ Cardinality(Open(n)) < listeners[n].backlog
<1> DEFINE Goal == /\ listeners[n].listening
                   /\ listeners[n].backlog <= 0
                        \/ Cardinality(Open(n)) < listeners[n].backlog
<1>0. ~ (Open(n)' \subseteq Open(n))
  BY OpensNothing
<1>1. ASSUME UNCHANGED sessions, listeners'[n].active = listeners[n].active
      PROVE  FALSE
  BY <1>0, <1>1 DEF Open
<1>2. ASSUME NEW m \in Node, NEW b \in Backlog, StartTCPListen(m, b) \/ SetBacklog(m, b)
      PROVE  Goal
  <2>1. UNCHANGED sessions /\ listeners'[n].active = listeners[n].active
    BY <1>2 DEF StartTCPListen, SetBacklog, TypeOK, Listener
  <2> QED
    BY <1>1, <2>1
<1>3. ASSUME NEW m \in Node, NEW v \in BOOLEAN, SetListening(m, v)
      PROVE  Goal
  <2>1. UNCHANGED sessions /\ listeners'[n].active = listeners[n].active
    BY <1>3 DEF SetListening, TypeOK, Listener
  <2> QED
    BY <1>1, <2>1
<1>4. ASSUME NEW s \in Node, NEW d \in Node, StartTCPConnection(s, d)
      PROVE  Goal
  BY <1>0, <1>4, CreateTCPSessionOpens DEF StartTCPConnection
<1>5. ASSUME NEW s \in Node, NEW d \in Node, Accept(s, d)
      PROVE  Goal
  <2>1. CASE n # d
    <3>1. listeners'[n].active = listeners[n].active /\ CreateTCPSession(s, d)
      BY <1>5, <2>1 DEF Accept
    <3> QED
      BY <1>0, <3>1, CreateTCPSessionOpens
  <2>2. CASE n = d
    <3>1. listeners[n].listening /\ HasRoom(listeners[n])
      BY <1>5, <2>2 DEF Accept, HasListener
    <3>2. listeners[n].backlog \in Int
      BY ListenerAssumption DEF TypeOK, Listener
    <3> QED
      BY <3>1, <3>2, ActiveFinite DEF HasRoom
  <2> QED
    BY <2>1, <2>2
<1>6. ASSUME NEW s \in Node, NEW d \in Node, Refuse(s, d)
      PROVE  Goal
  BY <1>1, <1>6 DEF Refuse
<1>7. ASSUME NEW id \in SessionId, SessionCloses(id)
      PROVE  Goal
  <2>1. /\ listeners' = listeners
        /\ \A x \in DOMAIN sessions : x # id => sessions'[x] = sessions[x]
        /\ sessions'[id].state = "closed"
    BY <1>7 DEF SessionCloses, TypeOK, Session
  <2>2. Open(n)' \subseteq Open(n)
    BY <2>1 DEF Open, TypeOK
  <2> QED
    BY <1>0, <2>2
<1>8. CASE UNCHANGED vars
  BY <1>1, <1>8 DEF vars
<1> QED
  BY <1>2, <1>3, <1>4, <1>5, <1>6, <1>7, <1>8 DEF Next

(***************************************************************************)
(* A listener takes no session beyond its backlog: for any number of nodes *)
(* and sessions, a step by which the sessions open at a listener become    *)
(* more finds it listening and with room (TCPListener::accept).            *)
(***************************************************************************)
THEOREM BacklogNeverExceeded == Spec => BacklogRespected
<1>1. ASSUME TypeOK, [Next]_vars
      PROVE  \A n \in DOMAIN listeners :
               Cardinality(Open(n)') > Cardinality(Open(n)) =>
                 /\ listeners[n].listening
                 /\ listeners[n].backlog <= 0
                      \/ Cardinality(Open(n)) < listeners[n].backlog
  BY <1>1, NextBacklog
<1> QED
  BY <1>1, ListenerTypeCorrect, PTL DEF Spec, BacklogRespected

=============================================================================
