------------------------------ MODULE Routing ------------------------------
(***************************************************************************)
(* Routing tables (Routing.cpp): Dijkstra's algorithm from one source, for *)
(* each of the four metrics, and the next hop towards every destination.   *)
(*                                                                         *)
(* The adjacency list of a node holds its links in the order they were     *)
(* created, which is the order of their identifiers.  Distances are        *)
(* integers: the metric delay / bandwidth is scaled by PacketSize, which   *)
(* every bandwidth is assumed to divide.                                   *)
(***************************************************************************)
EXTENDS Link, FiniteSets

CONSTANTS
  NumNodes,   \* nodes are numbered from 0, and never renumbered
  Infinity    \* a number above every distance

ASSUME RoutingAssumption == NumNodes \in Nat /\ Infinity \in Nat \ {0}

Node == 0 .. NumNodes - 1

NoHop == -1

RoutingMetric == {"Delay", "Bandwidth", "HopCount", "DelayBandwidth"}

Maximise(metric) == metric = "Bandwidth"

\* Distance of an unreachable node, and of the source from itself.
Worst(metric) == IF Maximise(metric) THEN 0 ELSE Infinity
Zero(metric) == IF Maximise(metric) THEN Infinity ELSE 0

Better(metric, candidate, current) ==
  IF Maximise(metric) THEN candidate > current ELSE candidate < current

LinkCost(metric, l) ==
  CASE metric = "Delay"          -> l.delay
    [] metric = "Bandwidth"      -> l.bandwidth
    [] metric = "HopCount"       -> 1
    [] metric = "DelayBandwidth" -> l.delay * (PacketSize \div l.bandwidth)

\* As every cost: Infinity is the greatest of the doubles.
FiniteCosts(l) == \A metric \in RoutingMetric : LinkCost(metric, l) <= Infinity

Combine(metric, distance, cost) ==
  IF Maximise(metric)
    THEN IF cost < distance THEN cost ELSE distance
    ELSE IF distance = Infinity THEN Infinity ELSE distance + cost

\* The links from u that are up.
UpLinks(links, u) == {id \in DOMAIN links : links[id].up /\ TouchesNode(links[id], u)}

-----------------------------------------------------------------------------
(* buildDijkstra.  The heap holds pairs of a distance and a node in the    *)
(* order they were pushed.                                                 *)

\* Mutant: of several equal distances the one pushed last is popped.
TopLatest(metric, heap) ==
  CHOOSE i \in DOMAIN heap :
    \A j \in DOMAIN heap \ {i} :
      \/ Better(metric, heap[i][1], heap[j][1])
      \/ heap[i][1] = heap[j][1] /\ i > j

\* The best distance, and the lowest node among equals.
Top(metric, heap) ==
  CHOOSE i \in DOMAIN heap :
    \A j \in DOMAIN heap :
      \/ Better(metric, heap[i][1], heap[j][1])
      \/ heap[i][1] = heap[j][1] /\ heap[i][2] <= heap[j][2]

Relax(metric, links, s, u, id) ==
  LET v == OtherNode(links[id], u)
      distance == Combine(metric, s.dist[u], LinkCost(metric, links[id]))
  IN  IF Better(metric, distance, s.dist[v])
        THEN [dist   |-> [s.dist EXCEPT ![v] = distance],
              parent |-> [s.parent EXCEPT ![v] = u],
              heap   |-> Append(s.heap, <<distance, v>>)]
        ELSE s

\* One turn of the loop; an entry that was improved since is skipped.  The fold
\* takes the greatest identifier last: the order of the adjacency list.
Turn(metric, links, s) ==
  IF s.heap = <<>> THEN s
  ELSE LET top == Top(metric, s.heap)
           u == s.heap[top][2]
           popped == [s EXCEPT !.heap = RemoveAt(@, top)]
       IN  IF s.heap[top][1] # s.dist[u]
             THEN popped
             ELSE MapThenFoldSet(LAMBDA id, r : Relax(metric, links, r, u, id), popped,
                                 LAMBDA id : id, Max, UpLinks(links, u))

\* Turns after which the heap is empty: each node is expanded at most once,
\* and each end of a link then pushes at most one entry.
MaxTurns(links) == 1 + 2 * Cardinality(DOMAIN links)

BuildDijkstra(metric, links, src) ==
  LET start == [dist   |-> [n \in Node |-> IF n = src THEN Zero(metric)
                                                      ELSE Worst(metric)],
                parent |-> [n \in Node |-> NoHop],
                heap   |-> << <<Zero(metric), src>> >>]
      After[turns \in 0 .. MaxTurns(links)] ==
        IF turns = 0 THEN start ELSE Turn(metric, links, After[turns - 1])
  IN  After[MaxTurns(links)]

-----------------------------------------------------------------------------
(* buildRoutingTable. *)

\* The child of src on the way to d, found by following the parents from d.
FirstHop(parent, src, d) ==
  LET Ancestor[k \in 0 .. NumNodes] ==
        IF k = 0 THEN d
        ELSE LET n == Ancestor[k - 1]
             IN  IF n = NoHop \/ parent[n] = src THEN n ELSE parent[n]
  IN  Ancestor[NumNodes]

BuildRoutingTable(metric, links, src) ==
  LET result == BuildDijkstra(metric, links, src)
  IN  [d \in Node |-> IF d = src \/ result.dist[d] = Worst(metric)
                        THEN NoHop
                        ELSE FirstHop(result.parent, src, d)]

\* rebuildRoutingTables.
RoutingTables(metric, links) ==
  [src \in Node |-> BuildRoutingTable(metric, links, src)]

-----------------------------------------------------------------------------
(* The reference definition. *)

\* The best distance between any two nodes over links that are up, by way of
\* more and more inner nodes (Floyd and Warshall).
BestDistances(metric, links) ==
  LET Pick(x, y) == IF Better(metric, x, y) THEN x ELSE y
      Direct(m, n) ==
        LET costs == {LinkCost(metric, links[id]) :
                        id \in {i \in DOMAIN links : links[i].up /\ Joins(links[i], m, n)}}
        IN  IF m = n THEN Zero(metric)
            ELSE IF costs = {} THEN Worst(metric)
            ELSE CHOOSE c \in costs : \A o \in costs : ~ Better(metric, o, c)
      Via[inner \in SUBSET Node] ==
        IF inner = {} THEN [m \in Node |-> [n \in Node |-> Direct(m, n)]]
        ELSE LET u == CHOOSE n \in inner : TRUE
                 D == Via[inner \ {u}]
             IN  [m \in Node |-> [n \in Node |->
                    Pick(Combine(metric, D[m][u], D[u][n]), D[m][n])]]
  IN  Via[Node]

=============================================================================
