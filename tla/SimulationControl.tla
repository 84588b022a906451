------------------------- MODULE SimulationControl -------------------------
(***************************************************************************)
(* The main loop of the GUI (visualizeWindow) and its controls: what the   *)
(* buttons, a drag and the loading of a topology do to the engine, to the  *)
(* state shown and to the animation, between the events the loop runs.     *)
(*                                                                         *)
(* A frame first runs the events that are due, at most EventsPerFrame of   *)
(* them, then offers the controls.  The user may do nothing in a frame, so *)
(* a control is an action of its own; time passes between frames as it     *)
(* likes.                                                                  *)
(*                                                                         *)
(* The engine's queue holds two kinds of events: arrivals of packets, and  *)
(* events of sessions.  Executing either may send a packet over a link and *)
(* schedule an event of a session; what it decides is the subject of       *)
(* TCPSession.  Packets go one hop, which suffices for the links' queues;  *)
(* Network has the routes.                                                 *)
(***************************************************************************)
EXTENDS Link, FiniteSets

CONSTANTS
  Topologies,      \* topologies to load: sequences of links
  EventsPerFrame,  \* safetyCounter's limit, 1000
  MaxEvents,       \* bound: events scheduled by one engine
  MaxTime,         \* bound: visual time
  MaxResets,       \* bound: engines made by Reset
  MaxLoads         \* bound: topologies loaded

ASSUME ControlAssumption ==
  /\ EventsPerFrame \in Nat \ {0}
  /\ MaxEvents \in Nat /\ MaxTime \in Nat
  /\ MaxResets \in Nat /\ MaxLoads \in Nat

ASSUME TopologiesAssumption ==
  \A t \in Topologies : t \in Seq(LinkRecords(Nat)) /\ \A i \in DOMAIN t : Idle(t[i])

VARIABLES
  state,       \* SimulationState
  autoStart,   \* KNS_AUTO_START
  lossy,       \* the loss slider is above 0
  links,       \* the topology's Link objects, which copies of it share
  engine,      \* the SimulationEngine
  inFrame,     \* the loop that runs events is on
  processed,   \* safetyCounter
  visualTime,
  animated,    \* packets of visualManager, pending or active
  abandoned,   \* history: slots occupied when a Reset dropped the engine
  resets, loads

history == <<abandoned, resets, loads>>
vars == <<state, autoStart, lossy, links, engine, inFrame, processed, visualTime,
          animated, history>>

SimulationState == {"Ready", "Running", "Paused", "Finished"}

\* offset counts sessions, of which each starts one unit after the last;
\* observed says that configureEngine has set the packet observer.
NewEngine ==
  [clock |-> 0, events |-> {}, scheduled |-> 0, offset |-> 0, observed |-> FALSE]

Configured(e) == [e EXCEPT !.observed = TRUE]

\* Mutant: the links keep the loss probability of their file.
WithLossOfFile(ls, loss) == ls

\* configureEngine's setGlobalLossProb: it reaches the Link objects, not copies.
WithLoss(ls, loss) == [i \in DOMAIN ls |-> [ls[i] EXCEPT !.lossy = loss]]

\* An event of a session between two nodes has link 0.
SessionEvent(at, id, a, b) ==
  [at |-> at, id |-> id, link |-> 0, from |-> a, to |-> b, departure |-> 0]

Arrival(id, i, t) ==
  [at |-> t.arrival, id |-> id, link |-> i, from |-> t.from, to |-> t.to,
   departure |-> t.departure]

Transmission(ev) ==
  [from |-> ev.from, to |-> ev.to, departure |-> ev.departure, arrival |-> ev.at]

\* EventQueue's order: by time, then as scheduled.
IsNext(e, ev) ==
  \A o \in e.events : ev.at < o.at \/ (ev.at = o.at /\ ev.id <= o.id)

Room(e) == e.scheduled < MaxEvents

\* schedule
WithEvent(e, ev) == [e EXCEPT !.events = @ \union {ev}, !.scheduled = @ + 1]

Plan(ls) == {<<ls[i].a, ls[i].b>> : i \in DOMAIN ls}

Before(p, q) == p[1] < q[1] \/ (p[1] = q[1] /\ p[2] < q[2])

Place(p, pairs) == Cardinality({q \in pairs : Before(q, p)})

Handshakes(e, pairs) ==
  {SessionEvent(e.clock + e.offset + Place(p, pairs), e.scheduled + Place(p, pairs),
                p[1], p[2]) : p \in pairs}

\* startTCPConnection for a set of pairs, in order.
Started(e, pairs) ==
  [e EXCEPT !.events = @ \union Handshakes(e, pairs),
            !.scheduled = @ + Cardinality(pairs),
            !.offset = @ + Cardinality(pairs)]

\* generatePackets; an empty topology has no pairs.
Generated(e, ls) == Started(e, Plan(ls))

NoneAbandoned(ls) == [i \in DOMAIN ls |-> [s \in Slot |-> 0]]

StateFor(e, started) == IF e.events # {} THEN started ELSE "Ready"

\* main and the beginning of visualizeWindow.  Unlike a topology loaded later,
\* the first one gets its traffic whatever autoStart says.
Init ==
  /\ autoStart \in BOOLEAN
  /\ lossy = FALSE
  /\ links \in {WithLoss(t, FALSE) : t \in Topologies}
  /\ engine = Generated(Configured(NewEngine), links)
  /\ state = StateFor(engine, IF autoStart THEN "Running" ELSE "Paused")
  /\ inFrame = FALSE
  /\ processed = 0
  /\ visualTime = 0
  /\ animated = {}
  /\ abandoned = NoneAbandoned(links)
  /\ resets = 0
  /\ loads = 0

-----------------------------------------------------------------------------
(* Events. *)

\* What executing an event leaves: the engine, its links, the packets shown.
Effect(e, ls, shown) == [engine |-> e, links |-> ls, animated |-> shown]

\* sendPacket over link i: refused, lost on the way, or under way.
SendEffects(e, ls, i, from) ==
  LET l == ls[i]
      departure == NextAvailableTime(l, from, e.clock)
      t == [from |-> from, to |-> OtherNode(l, from), departure |-> departure,
            arrival |-> departure + TravelTime(l)]
      reserved == ReserveTransmission(l, from, departure)
      shown == IF e.observed THEN animated \union {t} ELSE animated
  IN  IF ~ CanQueue(l, from)
        THEN {Effect(e, ls, animated)}
        ELSE {Effect(WithEvent(e, Arrival(e.scheduled, i, t)),
                     [ls EXCEPT ![i] = EnqueueTransmission(reserved, t)], shown)}
               \union
               IF l.lossy THEN {Effect(e, [ls EXCEPT ![i] = reserved], animated)} ELSE {}

\* An event of a session may be one of either end; an arrival is answered, if
\* at all, by the node it reaches.
Senders(ev) == IF ev.link = 0 THEN {ev.from, ev.to} ELSE {ev.to}

\* A timer of the session, or nothing.
Timed(e, ev) ==
  {e} \union
  IF Room(e)
    THEN {WithEvent(e, SessionEvent(e.clock + 1, e.scheduled, ev.from, ev.to))}
    ELSE {}

Sent(e, ls, ev) ==
  {Effect(e, ls, animated)} \union
  UNION {SendEffects(e, ls, i, n) :
           i \in {j \in DOMAIN ls : Room(e) /\ Joins(ls[j], ev.from, ev.to)},
           n \in Senders(ev)}

\* Mutant: the slot is released with the packet's answer, when there is one.
ReleasedNone(ls, ev) == ls

\* PacketReceivedEvent first releases the slot of its link.
Released(ls, ev) ==
  IF ev.link = 0
    THEN ls
    ELSE [ls EXCEPT ![ev.link] = DequeueTransmission(@, Transmission(ev))]

\* processEvent
ProcessEvent ==
  \E ev \in {o \in engine.events : IsNext(engine, o)} :
    LET popped == [engine EXCEPT !.clock = ev.at, !.events = @ \ {ev}] IN
    \E e \in Timed(popped, ev) : \E effect \in Sent(e, Released(links, ev), ev) :
      /\ engine' = effect.engine
      /\ links' = effect.links
      /\ animated' = effect.animated

-----------------------------------------------------------------------------
(* The part of a frame that runs the simulation. *)

\* Mutant: a packet is taken off the screen when it departs.
UpdatedEarly(shown, time) == {p \in shown : time < p.departure}

\* visualManager.update
Updated(shown, time) == {p \in shown : time < p.arrival}

BeginFrame ==
  /\ ~ inFrame
  /\ state = "Running"
  /\ inFrame' = TRUE
  /\ processed' = 0
  /\ visualTime' \in IF visualTime < MaxTime THEN visualTime + 1 .. MaxTime ELSE {MaxTime}
  /\ UNCHANGED <<state, autoStart, lossy, links, engine, animated, history>>

RunsOn ==
  /\ \E ev \in engine.events : visualTime >= ev.at
  /\ processed < EventsPerFrame

RunEvent ==
  /\ inFrame
  /\ RunsOn
  /\ ProcessEvent
  /\ processed' = processed + 1
  /\ UNCHANGED <<state, autoStart, lossy, inFrame, visualTime, history>>

\* Mutant: nobody looks whether the queue has run empty.
StateAfterFrameSame == state

StateAfterFrame == IF engine.events = {} THEN "Finished" ELSE state

EndFrame ==
  /\ inFrame
  /\ ~ RunsOn
  /\ inFrame' = FALSE
  /\ processed' = 0
  /\ state' = StateAfterFrame
  /\ animated' = Updated(animated, visualTime)
  /\ UNCHANGED <<autoStart, lossy, links, engine, visualTime, history>>

\* A frame while nothing runs.
Redraw ==
  /\ ~ inFrame
  /\ state # "Running"
  /\ animated' = Updated(animated, visualTime)
  /\ UNCHANGED <<state, autoStart, lossy, links, engine, inFrame, processed,
                 visualTime, history>>

-----------------------------------------------------------------------------
(* The controls. *)

Control ==
  /\ ~ inFrame
  /\ UNCHANGED <<autoStart, inFrame, processed>>

Start ==
  /\ Control
  /\ state = "Ready"
  /\ engine' = IF engine.events = {} THEN Generated(engine, links) ELSE engine
  /\ state' = StateFor(engine', "Running")
  /\ UNCHANGED <<lossy, links, visualTime, animated, history>>

Pause ==
  /\ Control
  /\ state = "Running"
  /\ state' = "Paused"
  /\ UNCHANGED <<lossy, links, engine, visualTime, animated, history>>

Resume ==
  /\ Control
  /\ state = "Paused"
  /\ engine.events # {}
  /\ state' = "Running"
  /\ UNCHANGED <<lossy, links, engine, visualTime, animated, history>>

\* Mutant: the queue is not looked at after the step.
StateAfterStepPaused(e) == "Paused"

StateAfterStep(e) == IF e.events = {} THEN "Finished" ELSE "Paused"

\* One event, however far ahead of the visual time.
Step ==
  /\ Control
  /\ state = "Paused"
  /\ ProcessEvent
  /\ state' = StateAfterStep(engine')
  /\ UNCHANGED <<lossy, visualTime, history>>

\* Reset makes a new engine of the same topology, and no more: the observers,
\* the visual time, the animation and the links are left as they are.
ResetEngine ==
  /\ Control
  /\ state \in {"Running", "Paused", "Finished"}
  /\ resets < MaxResets
  /\ resets' = resets + 1
  /\ engine' = NewEngine
  /\ state' = "Ready"
  /\ abandoned' = [i \in DOMAIN links |-> [s \in Slot |-> Len(links[i].queue[s])]]
  /\ UNCHANGED <<lossy, links, visualTime, animated, loads>>

SlideLoss(loss) ==
  /\ Control
  /\ lossy' = loss
  /\ links' = WithLoss(links, loss)
  /\ UNCHANGED <<state, engine, visualTime, animated, history>>

\* A drag from one node to another starts a session, and pauses the
\* simulation whatever state it was in.
Drag(a, b) ==
  /\ Control
  /\ Room(engine)
  /\ engine' = Started(engine, {<<a, b>>})
  /\ state' = "Paused"
  /\ UNCHANGED <<lossy, links, visualTime, animated, history>>

\* A file that does not load changes nothing.
Load(topology) ==
  /\ Control
  /\ loads < MaxLoads
  /\ loads' = loads + 1
  /\ links' = WithLoss(topology, lossy)
  /\ engine' = IF autoStart THEN Generated(Configured(NewEngine), topology)
                            ELSE Configured(NewEngine)
  /\ state' = StateFor(engine', "Paused")
  /\ visualTime' = 0
  /\ animated' = {}
  /\ abandoned' = NoneAbandoned(topology)
  /\ UNCHANGED <<lossy, resets>>

Frame == BeginFrame \/ RunEvent \/ EndFrame

Next ==
  \/ Frame
  \/ Redraw
  \/ Start \/ Pause \/ Resume \/ Step \/ ResetEngine
  \/ \E loss \in BOOLEAN : SlideLoss(loss)
  \/ \E i \in DOMAIN links :
       Drag(links[i].a, links[i].b) \/ Drag(links[i].b, links[i].a)
  \/ \E topology \in Topologies : Load(topology)

Spec == Init /\ [][Next]_vars

\* The window goes on drawing frames; the user owes nothing.
FairSpec == Spec /\ WF_vars(Frame)

-----------------------------------------------------------------------------

Event == [at : Nat, id : Nat, link : Nat, from : Nat, to : Nat, departure : Nat]

TypeOK ==
  /\ state \in SimulationState
  /\ autoStart \in BOOLEAN /\ lossy \in BOOLEAN /\ inFrame \in BOOLEAN
  /\ links \in Seq(LinkRecords(Nat))
  /\ \A i \in DOMAIN links : links[i].lossy = lossy
  /\ engine \in [clock : Nat, events : SUBSET Event, scheduled : Nat, offset : Nat,
                 observed : BOOLEAN]
  /\ \A ev \in engine.events : ev.id < engine.scheduled /\ ev.link \in DOMAIN links \union {0}
  /\ processed \in 0 .. EventsPerFrame
  /\ visualTime \in 0 .. MaxTime
  /\ animated \subseteq [from : Nat, to : Nat, departure : Nat, arrival : Nat]
  /\ abandoned \in [DOMAIN links -> [Slot -> Nat]]
  /\ resets \in 0 .. MaxResets /\ loads \in 0 .. MaxLoads

(***************************************************************************)
(* Between frames the simulation runs or is paused exactly when there is   *)
(* an event to run, so the user never meets a Resume or a Step that does   *)
(* nothing, nor a Ready simulation with traffic of its own: whatever the   *)
(* order of frames, buttons, drags, resets and loads.                      *)
(***************************************************************************)
EventsMatchState ==
  ~ inFrame => (engine.events # {} <=> state \in {"Running", "Paused"})

(***************************************************************************)
(* The queues of the links hold the packets of the current engine, and for *)
(* ever also those that were on the way at the last Reset: the topology    *)
(* given to the new engine has the same Link objects, and the arrivals     *)
(* that would release their slots are gone with the old queue.  Only       *)
(* loading a topology frees them.                                          *)
(***************************************************************************)
SlotsHeld ==
  \A i \in DOMAIN links, s \in Slot :
    Len(links[i].queue[s]) =
      abandoned[i][s] + Cardinality({ev \in engine.events :
                                       ev.link = i /\ SlotOf(links[i], ev.from) = s})

(***************************************************************************)
(* The GUI renders packets in sync with simulation time (README.md, as     *)
(* long as the engine has its observer): a packet on the way is shown      *)
(* until the visual time reaches its arrival, also when Step has run ahead *)
(* of it.                                                                  *)
(***************************************************************************)
InFlightShown ==
  engine.observed =>
    \A ev \in engine.events :
      ev.link # 0 /\ visualTime < ev.at => Transmission(ev) \in animated

(***************************************************************************)
(* A running simulation finishes, unless the user stops it: the limit on   *)
(* the events of one frame only defers the others.                         *)
(***************************************************************************)
RunEnds == state = "Running" ~> state # "Running"

=============================================================================
