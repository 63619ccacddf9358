------------------------- MODULE LogCollectorProofs -------------------------
(***************************************************************************)
(* For every number of threads, log statements and messages: poll handles  *)
(* messages by the statements that logged them, its heap has only buffers  *)
(* that exist, and what comes out is what LogMerge promises.  The first    *)
(* part is about adjustHeap alone, for heaps of every size: it permutes    *)
(* the nodes, and brings a node that is too late for its place down to     *)
(* where it belongs; so the message at the root of a heap is the earliest. *)
(***************************************************************************)
EXTENDS LogCollector, TLAPS, FiniteSetTheorems, WellFoundedInduction

-----------------------------------------------------------------------------
(* The heap                                                                *)

Headers == AllMsgs \cup {NoMsg}
Nodes == [tb : Threads, header : Headers]

(* From place first on, no node is later than its children.                *)
HeapFrom(first, nodes) ==
  \A k \in DOMAIN nodes : k >= first =>
    \A c \in Children(k, nodes) : ~ Earlier(nodes[c].header, nodes[k].header)

(* Every set of natural numbers has a least element.                       *)
LEMMA Least ==
  ASSUME NEW S \in SUBSET Nat, S # {}
  PROVE  \E m \in S : \A n \in S : m <= n
<1> DEFINE R == {ss \in Nat \X Nat : ss[1] < ss[2]}
<1>1. R = OpToRel(<, Nat)
  BY Zenon DEF OpToRel
<1>2. IsWellFoundedOn(R, Nat)
  BY <1>1, NatLessThanWellFounded, Zenon
<1>3. \A x, y \in S : <<y, x>> \notin R => x <= y
  OBVIOUS
<1> HIDE DEF R
<1>4. PICK m \in S : \A n \in S : ~ (<<n, m>> \in R)
  BY <1>2, WFMin
<1> QED BY <1>3, <1>4

(* Earlier is an order of messages, with NoMsg last and ties.              *)
LEMMA EarlierOrders ==
  ASSUME NEW f \in Headers, NEW g \in Headers, NEW h \in Headers
  PROVE  /\ ~ Earlier(h, h)
         /\ Earlier(f, g) => ~ Earlier(g, f)
         /\ ~ Earlier(f, g) /\ ~ Earlier(g, h) => ~ Earlier(f, h)
BY CollectorAssumption DEF Headers, AllMsgs, NoMsg, Earlier

(* The nodes of a sequence are nodes.                                      *)
LEMMA NodesOfSequence ==
  ASSUME NEW nodes \in Seq(Nodes)
  PROVE  /\ Len(nodes) \in Nat /\ DOMAIN nodes = 1 .. Len(nodes)
         /\ \A k \in DOMAIN nodes : /\ nodes[k] \in Nodes /\ nodes[k].tb \in Threads
                                    /\ nodes[k].header \in Headers
<1>1. \A node \in Nodes : node.tb \in Threads /\ node.header \in Headers
  BY DEF Nodes
<1>2. /\ Len(nodes) \in Nat /\ DOMAIN nodes = 1 .. Len(nodes)
      /\ \A k \in DOMAIN nodes : nodes[k] \in Nodes
  OBVIOUS
<1> QED BY <1>1, <1>2

(* A node goes down to at most one place, a child.                         *)
LEMMA SinksToOne ==
  ASSUME NEW nodes \in Seq(Nodes), NEW node \in Nodes, NEW k \in DOMAIN nodes,
         NEW c \in SinksTo(k, node, nodes)
  PROVE  /\ c \in Children(k, nodes) /\ c \in DOMAIN nodes /\ c > k
         /\ \A d \in SinksTo(k, node, nodes) : d = c
         /\ Earlier(nodes[c].header, node.header)
         /\ \A d \in Children(k, nodes) : ~ Earlier(nodes[d].header, nodes[c].header)
<1>1. /\ c \in Children(k, nodes) /\ Earlier(nodes[c].header, node.header)
      /\ \A d \in Children(k, nodes) \ {c} :
          IF d < c THEN Earlier(nodes[c].header, nodes[d].header)
                   ELSE ~ Earlier(nodes[d].header, nodes[c].header)
  BY DEF SinksTo
<1>2. k \in Nat \ {0} /\ DOMAIN nodes \subseteq Nat
  BY NodesOfSequence
<1>3. c \in DOMAIN nodes /\ c > k
  BY <1>1, <1>2 DEF Children
<1>4. ASSUME NEW d \in Children(k, nodes)
      PROVE  d \in Nat /\ nodes[d].header \in Headers /\ nodes[c].header \in Headers
  BY <1>2, <1>3, NodesOfSequence DEF Children
<1>5. ASSUME NEW d \in Children(k, nodes)
      PROVE  ~ Earlier(nodes[d].header, nodes[c].header)
  <2>1. CASE d = c
    BY <2>1, <1>4, EarlierOrders
  <2>2. CASE d # c
    BY <2>2, <1>1, <1>4, EarlierOrders
  <2> QED BY <2>1, <2>2
<1>6. ASSUME NEW d \in SinksTo(k, node, nodes), d # c
      PROVE  FALSE
  <2>1. /\ d \in Children(k, nodes)
        /\ IF c < d THEN Earlier(nodes[d].header, nodes[c].header)
                    ELSE ~ Earlier(nodes[c].header, nodes[d].header)
    BY <1>1, <1>6 DEF SinksTo
  <2>2. IF d < c THEN Earlier(nodes[c].header, nodes[d].header)
                 ELSE ~ Earlier(nodes[d].header, nodes[c].header)
    BY <1>1, <1>6, <2>1
  <2>3. c \in Nat /\ d \in Nat
    BY <1>2, <1>3, <1>4, <2>1
  <2> QED BY <2>1, <2>2, <2>3, <1>6
<1> QED BY <1>1, <1>3, <1>5, <1>6

(* A node stays where no child is earlier.                                 *)
LEMMA SinkingStops ==
  ASSUME NEW nodes \in Seq(Nodes), NEW node \in Nodes, NEW k \in DOMAIN nodes,
         SinksTo(k, node, nodes) = {}, NEW c \in Children(k, nodes)
  PROVE  ~ Earlier(nodes[c].header, node.header)
<1>1. k \in Nat \ {0} /\ DOMAIN nodes \subseteq Nat /\ node.header \in Headers
  BY NodesOfSequence DEF Nodes
<1> DEFINE a == 2 * k
           b == 2 * k + 1
           h(d) == nodes[d].header
           Early(d) == d \in DOMAIN nodes /\ Earlier(h(d), node.header)
<1>2. \A d \in DOMAIN nodes : h(d) \in Headers
  BY NodesOfSequence
<1>3. c \in {a, b} /\ c \in DOMAIN nodes
  BY DEF Children
<1>4. SUFFICES ASSUME Early(c) PROVE FALSE
  BY <1>3
<1>5. CASE Early(a) /\ ~ (Early(b) /\ Earlier(h(b), h(a)))
  <2>1. b \in DOMAIN nodes => ~ Earlier(h(b), h(a))
    BY <1>1, <1>2, <1>5, EarlierOrders
  <2>2. a \in SinksTo(k, node, nodes)
    BY <1>1, <1>5, <2>1 DEF SinksTo, Children
  <2> QED BY <2>2
<1>6. CASE Early(b) /\ (~ Early(a) \/ Earlier(h(b), h(a)))
  <2>1. a \in DOMAIN nodes => Earlier(h(b), h(a))
    BY <1>1, <1>2, <1>6, EarlierOrders
  <2>2. b \in SinksTo(k, node, nodes)
    BY <1>1, <1>6, <2>1 DEF SinksTo, Children
  <2> QED BY <2>2
<1> QED BY <1>3, <1>4, <1>5, <1>6

-----------------------------------------------------------------------------
(* The way of a node                                                       *)

Down(k, first, nodes) == SinksTo(k, nodes[first], nodes)

(* The same of the node that comes down from first.                        *)
LEMMA DownOne ==
  ASSUME NEW nodes \in Seq(Nodes), NEW first \in DOMAIN nodes, NEW k \in DOMAIN nodes,
         NEW c \in Down(k, first, nodes)
  PROVE  /\ c \in Children(k, nodes) /\ c \in DOMAIN nodes /\ c > k
         /\ \A d \in Down(k, first, nodes) : d = c
         /\ Earlier(nodes[c].header, nodes[first].header)
         /\ \A d \in Children(k, nodes) : ~ Earlier(nodes[d].header, nodes[c].header)
BY SinksToOne, NodesOfSequence DEF Down

(* The way begins at first, and goes on while the node sinks.              *)
LEMMA WayGoesOn ==
  ASSUME NEW nodes \in Seq(Nodes), NEW first \in DOMAIN nodes
  PROVE  /\ Way(first, nodes) \subseteq DOMAIN nodes
         /\ first \in Way(first, nodes)
         /\ \A k \in Way(first, nodes) : Down(k, first, nodes) \subseteq Way(first, nodes)
<1>1. Way(first, nodes) \subseteq DOMAIN nodes /\ first \in Way(first, nodes)
  BY DEF Way
<1>2. ASSUME NEW k \in Way(first, nodes), NEW c \in Down(k, first, nodes)
      PROVE  c \in Way(first, nodes)
  <2>1. c \in DOMAIN nodes
    BY <1>1, <1>2, DownOne
  <2>2. ASSUME NEW places \in SUBSET DOMAIN nodes, first \in places,
               \A j \in places : SinksTo(j, nodes[first], nodes) \subseteq places
        PROVE  c \in places
    <3>1. k \in places
      BY <2>2 DEF Way
    <3> QED BY <1>2, <2>2, <3>1 DEF Down
  <2> QED BY <2>1, <2>2 DEF Way
<1> QED BY <1>1, <1>2

(* It has no other places.                                                 *)
LEMMA WayLeast ==
  ASSUME NEW nodes \in Seq(Nodes), NEW first \in DOMAIN nodes,
         NEW places \in SUBSET DOMAIN nodes, first \in places,
         \A k \in places : Down(k, first, nodes) \subseteq places
  PROVE  Way(first, nodes) \subseteq places
BY DEF Way, Down

(* A place of the way is first, or the node came down to it.               *)
LEMMA WayParent ==
  ASSUME NEW nodes \in Seq(Nodes), NEW first \in DOMAIN nodes, NEW k \in Way(first, nodes)
  PROVE  /\ k >= first
         /\ k # first => \E p \in Way(first, nodes) : k \in Down(p, first, nodes)
<1> DEFINE W == Way(first, nodes)
           places == {j \in W : /\ j >= first
                                /\ j # first => \E p \in W : j \in Down(p, first, nodes)}
<1>1. /\ W \subseteq DOMAIN nodes /\ first \in W
      /\ \A j \in W : Down(j, first, nodes) \subseteq W
  BY WayGoesOn
<1>2. DOMAIN nodes \subseteq Nat
  BY NodesOfSequence
<1>3. ASSUME NEW j \in places, NEW c \in Down(j, first, nodes)
      PROVE  c \in places
  <2>1. c \in W /\ j \in W /\ j >= first
    BY <1>1, <1>3
  <2>2. c > j
    BY <1>1, <1>3, <2>1, DownOne
  <2>3. c >= first
    BY <1>1, <1>2, <2>1, <2>2
  <2> QED BY <2>1, <2>3, <1>3
<1>4. first \in places /\ places \in SUBSET DOMAIN nodes
  BY <1>1, <1>2
<1> HIDE DEF places
<1>5. W \subseteq places
  BY <1>3, <1>4, WayLeast
<1> QED BY <1>5 DEF places

(* A place that is not the last on the way is followed by one that does    *)
(* not pass by the others: the way is a line.                              *)
LEMMA WayLine ==
  ASSUME NEW nodes \in Seq(Nodes), NEW first \in DOMAIN nodes, NEW k \in Way(first, nodes)
  PROVE  \A j \in Way(first, nodes) : j < k => \E c \in Down(j, first, nodes) : c <= k
<1> DEFINE W == Way(first, nodes)
           D(j) == Down(j, first, nodes)
           places == {m \in W : \A j \in W : j < m => \E c \in D(j) : c <= m}
<1>1. /\ W \subseteq DOMAIN nodes /\ first \in W
      /\ \A j \in W : D(j) \subseteq W
  BY WayGoesOn
<1>2. DOMAIN nodes \subseteq Nat
  BY NodesOfSequence
<1>3. \A j \in W : j >= first
  BY WayParent
<1>4. first \in places /\ places \in SUBSET DOMAIN nodes
  BY <1>1, <1>2, <1>3
<1>5. ASSUME NEW m \in places, NEW c \in D(m)
      PROVE  c \in places
  <2>1. c \in W /\ m \in W /\ c > m /\ c \in Children(m, nodes)
    BY <1>1, <1>5, DownOne
  <2>2. ASSUME NEW j \in W, j < c
        PROVE  \E d \in D(j) : d <= c
    <3>1. c \in Nat /\ m \in Nat /\ j \in Nat
      BY <1>1, <1>2, <2>1
    <3>2. CASE j < m
      <4>1. PICK d \in D(j) : d <= m
        BY <3>2, <1>5
      <4>2. d \in Nat
        BY <4>1, <1>1, <1>2
      <4> QED BY <4>1, <4>2, <3>1, <2>1
    <3>3. CASE j = m
      BY <3>3, <3>1, <1>5
    <3>4. CASE j > m
      <4>1. j # first
        BY <3>4, <3>1, <2>1, <1>1, <1>2, <1>3
      <4>2. PICK p \in W : j \in D(p)
        BY <4>1, WayParent
      <4>3. j \in Children(p, nodes) /\ j > p /\ \A d \in D(p) : d = j
        BY <4>2, <1>1, DownOne
      <4>4. p \in Nat
        BY <1>1, <1>2
      <4>5. p <= m
        BY <4>3, <4>4, <3>1, <2>1, <2>2 DEF Children
      <4>6. p # m
        BY <4>3, <2>2, <1>5, <3>1
      <4>7. PICK d \in D(p) : d <= m
        BY <4>4, <4>5, <4>6, <3>1, <1>5
      <4> QED BY <4>3, <4>7, <3>4, <3>1
    <3> QED BY <3>1, <3>2, <3>3, <3>4
  <2> QED BY <2>1, <2>2
<1> HIDE DEF places
<1>6. W \subseteq places
  BY <1>4, <1>5, WayLeast
<1> QED BY <1>6 DEF places

(* The way ends at exactly one place.                                      *)
LEMMA WayEnds ==
  ASSUME NEW nodes \in Seq(Nodes), NEW first \in DOMAIN nodes
  PROVE  \E k \in Way(first, nodes) :
           \A j \in Way(first, nodes) : Down(j, first, nodes) = {} <=> j = k
<1> DEFINE W == Way(first, nodes)
           n == Len(nodes)
           S == {m \in 0 .. n : n - m \in W}
<1>1. /\ W \subseteq DOMAIN nodes /\ first \in W
      /\ \A j \in W : Down(j, first, nodes) \subseteq W
  BY WayGoesOn
<1>2. DOMAIN nodes = 1 .. n /\ n \in Nat
  BY NodesOfSequence
<1>3. S \in SUBSET Nat /\ n - first \in S
  BY <1>1, <1>2
<1> HIDE DEF S
<1>4. PICK m \in S : \A l \in S : m <= l
  BY <1>3, Least
<1> USE DEF S
<1>5. n - m \in W /\ m \in Nat
  BY <1>2, <1>4
<1>6. Down(n - m, first, nodes) = {}
  <2> SUFFICES ASSUME NEW c \in Down(n - m, first, nodes) PROVE FALSE
    OBVIOUS
  <2>1. c \in W /\ c > n - m
    BY <1>1, <1>5, DownOne
  <2>2. n - c \in S /\ n - c < m
    BY <2>1, <1>1, <1>2, <1>4
  <2> QED BY <2>2, <1>2, <1>4
<1>7. ASSUME NEW j \in W, Down(j, first, nodes) = {}
      PROVE  j = n - m
  <2>1. j \in Nat /\ n - m \in Nat
    BY <1>1, <1>2, <1>5
  <2>2. ~ (j < n - m)
    BY <1>5, <1>7, WayLine
  <2>3. ~ (n - m < j)
    BY <1>5, <1>6, <1>7, WayLine
  <2> QED BY <2>1, <2>2, <2>3
<1> QED BY <1>5, <1>6, <1>7

-----------------------------------------------------------------------------
(* What adjustHeap does                                                    *)

(* The node at k afterwards was there before.                              *)
Source(k, first, nodes) ==
  IF k \notin Way(first, nodes) THEN k
  ELSE IF Down(k, first, nodes) = {} THEN first
  ELSE CHOOSE c \in Down(k, first, nodes) : TRUE

(* The node that adjustHeap puts at k was at Source(k).                    *)
LEMMA SourceIsPlace ==
  ASSUME NEW nodes \in Seq(Nodes), NEW first \in DOMAIN nodes, NEW k \in DOMAIN nodes
  PROVE  /\ Source(k, first, nodes) \in DOMAIN nodes
         /\ adjustHeap(first, nodes)[k] = nodes[Source(k, first, nodes)]
         /\ k \in Way(first, nodes) /\ Down(k, first, nodes) # {} =>
              Source(k, first, nodes) \in Down(k, first, nodes)
<1>1. \A c \in Down(k, first, nodes) : c \in DOMAIN nodes
  BY DownOne
<1>2. adjustHeap(first, nodes)[k] = nodes[Source(k, first, nodes)]
  BY DEF adjustHeap, Source, Down
<1>3. Down(k, first, nodes) # {} =>
        (CHOOSE c \in Down(k, first, nodes) : TRUE) \in Down(k, first, nodes)
  OBVIOUS
<1> QED BY <1>1, <1>2, <1>3 DEF Source

(* Nodes are moved, not lost or doubled.                                   *)
LEMMA AdjustPermutes ==
  ASSUME NEW nodes \in Seq(Nodes), NEW first \in DOMAIN nodes
  PROVE  /\ \A j, k \in DOMAIN nodes :
              Source(j, first, nodes) = Source(k, first, nodes) => j = k
         /\ \A j \in DOMAIN nodes : \E k \in DOMAIN nodes : Source(k, first, nodes) = j
<1> DEFINE W == Way(first, nodes)
           D(j) == Down(j, first, nodes)
           src(k) == Source(k, first, nodes)
<1>1. /\ W \subseteq DOMAIN nodes /\ first \in W
      /\ \A j \in W : D(j) \subseteq W
  BY WayGoesOn
<1>2. DOMAIN nodes \subseteq Nat
  BY NodesOfSequence
<1>3. PICK last \in W : \A j \in W : D(j) = {} <=> j = last
  BY WayEnds
<1>4. \A k \in DOMAIN nodes \ W : src(k) = k
  BY DEF Source
<1>5. src(last) = first
  BY <1>1, <1>3 DEF Source
<1>6. ASSUME NEW k \in W, k # last
      PROVE  /\ src(k) \in D(k) /\ src(k) \in W /\ src(k) # first
             /\ src(k) \in Children(k, nodes) /\ \A d \in D(k) : d = src(k)
  <2>1. src(k) \in D(k)
    BY <1>1, <1>3, <1>6, SourceIsPlace
  <2>2. src(k) \in W /\ src(k) > k /\ k >= first
    BY <1>1, <1>6, <2>1, DownOne, WayParent
  <2>3. src(k) \in Children(k, nodes) /\ \A d \in D(k) : d = src(k)
    BY <1>1, <2>1, DownOne
  <2>4. src(k) # first
    BY <1>1, <1>2, <2>2
  <2> QED BY <2>1, <2>2, <2>3, <2>4
<1>7. ASSUME NEW j \in DOMAIN nodes, NEW k \in DOMAIN nodes, src(j) = src(k)
      PROVE  j = k
  <2>1. CASE j \notin W \/ k \notin W
    <3>1. \A l \in DOMAIN nodes : src(l) \in W <=> l \in W
      BY <1>1, <1>4, <1>5, <1>6
    <3> QED BY <2>1, <3>1, <1>4, <1>7
  <2>2. CASE j \in W /\ k \in W /\ (j = last \/ k = last)
    BY <2>2, <1>5, <1>6, <1>7
  <2>3. CASE j \in W \ {last} /\ k \in W \ {last}
    <3>1. src(j) \in Children(j, nodes) /\ src(j) \in Children(k, nodes)
      BY <2>3, <1>6, <1>7
    <3>2. j \in Nat /\ k \in Nat
      BY <1>2
    <3> QED BY <3>1, <3>2 DEF Children
  <2> QED BY <2>1, <2>2, <2>3
<1>8. ASSUME NEW j \in DOMAIN nodes
      PROVE  \E k \in DOMAIN nodes : src(k) = j
  <2>1. CASE j \notin W
    BY <2>1, <1>4
  <2>2. CASE j = first
    BY <2>2, <1>1, <1>5
  <2>3. CASE j \in W /\ j # first
    <3>1. PICK p \in W : j \in D(p)
      BY <2>3, WayParent
    <3>2. p # last
      BY <3>1, <1>3
    <3> QED BY <3>1, <3>2, <1>1, <1>6
  <2> QED BY <2>1, <2>2, <2>3
<1> QED BY <1>7, <1>8

(* adjustHeap returns as many nodes as it was given.                       *)
LEMMA AdjustType ==
  ASSUME NEW nodes \in Seq(Nodes), NEW first \in DOMAIN nodes
  PROVE  /\ adjustHeap(first, nodes) \in Seq(Nodes)
         /\ DOMAIN adjustHeap(first, nodes) = DOMAIN nodes
         /\ Len(adjustHeap(first, nodes)) = Len(nodes)
<1>1. DOMAIN nodes = 1 .. Len(nodes) /\ Len(nodes) \in Nat
  BY NodesOfSequence
<1>2. DOMAIN adjustHeap(first, nodes) = DOMAIN nodes
  BY DEF adjustHeap
<1>3. \A k \in DOMAIN nodes : adjustHeap(first, nodes)[k] \in Nodes
  BY SourceIsPlace, NodesOfSequence
<1>4. adjustHeap(first, nodes) = [k \in DOMAIN nodes |-> adjustHeap(first, nodes)[k]]
  BY DEF adjustHeap
<1>5. adjustHeap(first, nodes) \in [1 .. Len(nodes) -> Nodes]
  BY <1>1, <1>3, <1>4
<1> QED BY <1>1, <1>2, <1>5

(* If the nodes below first are in order, those from first on are in order *)
(* afterwards.                                                             *)
LEMMA AdjustOrders ==
  ASSUME NEW nodes \in Seq(Nodes), NEW first \in DOMAIN nodes, HeapFrom(first + 1, nodes)
  PROVE  HeapFrom(first, adjustHeap(first, nodes))
<1> DEFINE W == Way(first, nodes)
           D(j) == Down(j, first, nodes)
           src(k) == Source(k, first, nodes)
           h(k) == nodes[k].header
<1>1. /\ W \subseteq DOMAIN nodes /\ first \in W
      /\ \A j \in W : D(j) \subseteq W
  BY WayGoesOn
<1>2. DOMAIN nodes \subseteq Nat
  BY NodesOfSequence
<1>3. \A k \in DOMAIN nodes : h(k) \in Headers
  BY NodesOfSequence
<1>4. \A k \in DOMAIN nodes : k > first =>
        \A c \in Children(k, nodes) : c \in DOMAIN nodes /\ ~ Earlier(h(c), h(k))
  <2>1. \A k \in DOMAIN nodes : k > first => k >= first + 1
    BY <1>1, <1>2
  <2> QED BY <2>1 DEF HeapFrom, Children
<1>5. \A k \in DOMAIN nodes :
         src(k) \in DOMAIN nodes /\ adjustHeap(first, nodes)[k] = nodes[src(k)]
  BY SourceIsPlace
<1>6. SUFFICES ASSUME NEW k \in DOMAIN nodes, k >= first, NEW c \in Children(k, nodes)
               PROVE  ~ Earlier(h(src(c)), h(src(k)))
  <2>1. DOMAIN adjustHeap(first, nodes) = DOMAIN nodes
    BY AdjustType
  <2>2. \A k \in DOMAIN nodes : Children(k, adjustHeap(first, nodes)) = Children(k, nodes)
    BY <2>1 DEF Children
  <2> QED BY <1>5, <1>6, <2>1, <2>2 DEF HeapFrom, Children
<1>7. c \in DOMAIN nodes /\ c > k /\ k \in Nat /\ c \in Nat /\ first \in Nat
  BY <1>1, <1>2, <1>6, NodesOfSequence DEF Children
<1>8. c \in W => k \in W /\ c \in D(k)
  <2> SUFFICES ASSUME c \in W PROVE k \in W /\ c \in D(k)
    OBVIOUS
  <2>1. c # first
    BY <1>6, <1>7
  <2>2. PICK p \in W : c \in D(p)
    BY <2>1, WayParent
  <2>3. c \in Children(p, nodes) /\ p \in Nat
    BY <2>2, <1>1, <1>2, DownOne
  <2>4. p = k
    BY <2>3, <1>6, <1>7 DEF Children
  <2> QED BY <2>2, <2>4
<1>9. CASE k \notin W
  <2>1. k > first /\ src(k) = k /\ src(c) = c
    BY <1>1, <1>6, <1>7, <1>8, <1>9 DEF Source
  <2> QED BY <2>1, <1>4, <1>6
<1>10. CASE k \in W /\ D(k) = {}
  <2>1. src(k) = first /\ src(c) = c
    BY <1>8, <1>10 DEF Source
  <2>2. ~ Earlier(h(c), h(first))
    BY <1>1, <1>6, <1>7, <1>10, SinkingStops DEF Down
  <2> QED BY <2>1, <2>2
<1>11. CASE k \in W /\ D(k) # {}
  <2>1. src(k) \in D(k)
    BY <1>1, <1>11, SourceIsPlace
  <2>2. /\ \A d \in D(k) : d = src(k)
        /\ src(k) \in W /\ src(k) > k /\ src(k) \in DOMAIN nodes
        /\ Earlier(h(src(k)), h(first))
        /\ \A d \in Children(k, nodes) : ~ Earlier(h(d), h(src(k)))
    BY <1>1, <1>11, <2>1, DownOne
  <2>3. CASE c \notin W
    BY <2>2, <2>3, <1>6 DEF Source
  <2>4. CASE c \in W /\ D(c) = {}
    <3>1. src(c) = first /\ c = src(k)
      BY <2>4, <2>2, <1>8 DEF Source
    <3> QED BY <3>1, <2>2, <1>1, <1>3, EarlierOrders
  <2>5. CASE c \in W /\ D(c) # {}
    <3>1. c = src(k) /\ c > first
      BY <2>5, <2>2, <1>6, <1>7, <1>8
    <3>2. src(c) \in D(c) /\ src(c) \in Children(c, nodes)
      BY <2>5, <1>1, SourceIsPlace, DownOne
    <3> QED BY <3>1, <3>2, <1>4, <1>7
  <2> QED BY <2>3, <2>4, <2>5
<1> QED BY <1>9, <1>10, <1>11

(* The root of a heap is the earliest.                                     *)
LEMMA RootEarliest ==
  ASSUME NEW nodes \in Seq(Nodes), HeapFrom(1, nodes), NEW k \in DOMAIN nodes
  PROVE  ~ Earlier(nodes[k].header, nodes[1].header)
<1> DEFINE h(j) == nodes[j].header
           S == {j \in DOMAIN nodes : Earlier(h(j), h(1))}
<1> SUFFICES ASSUME S # {} PROVE FALSE
  OBVIOUS
<1>1. DOMAIN nodes = 1 .. Len(nodes) /\ Len(nodes) \in Nat /\ 1 \in DOMAIN nodes
  BY NodesOfSequence
<1>2. \A j \in DOMAIN nodes : h(j) \in Headers
  BY NodesOfSequence
<1>3. S \in SUBSET Nat
  BY <1>1
<1> HIDE DEF S
<1>4. PICK m \in S : \A n \in S : m <= n
  BY <1>3, Least
<1> USE DEF S
<1>5. m \in DOMAIN nodes /\ Earlier(h(m), h(1)) /\ m # 1
  BY <1>1, <1>2, <1>4, EarlierOrders
<1> DEFINE p == m \div 2
<1>6. p \in DOMAIN nodes /\ p < m /\ m \in Children(p, nodes)
  BY <1>1, <1>5 DEF Children
<1>7. ~ Earlier(h(m), h(p))
  BY <1>1, <1>6 DEF HeapFrom
<1>8. Earlier(h(p), h(1))
  BY <1>1, <1>2, <1>5, <1>6, <1>7, EarlierOrders
<1> QED BY <1>1, <1>4, <1>6, <1>8

-----------------------------------------------------------------------------
(* The inductive invariant                                                 *)

Held == {"live", "shouldDeallocate"}
Collecting == {"front", "dealloc", "heap", "handle"}
Writing(t) == tpc[t] \in {"register", "insert", "push"}

(* Where poll is, and what is in order there.                              *)
Shape ==
  /\ ppc \in {"idle", "infos", "buffers"} => i = 1
  /\ ppc = "dealloc" => i \in DOMAIN bgThreadBuffers /\ bgThreadBuffers[i].header = NoMsg
  /\ ppc = "heap" => i \in DOMAIN bgThreadBuffers /\ HeapFrom(i + 1, bgThreadBuffers)
  /\ ppc = "handle" => bgThreadBuffers # << >> /\ HeapFrom(1, bgThreadBuffers)

(* A node is about the oldest message of its thread, or about none yet.    *)
Fronts ==
  \A k \in DOMAIN bgThreadBuffers :
    bgThreadBuffers[k].header \in {NoMsg, Oldest(bgThreadBuffers[k].tb)}

(* A buffer is in one of the two lists, once, as long as it exists.        *)
Buffers ==
  /\ \A j, k \in DOMAIN bgThreadBuffers :
       bgThreadBuffers[j].tb = bgThreadBuffers[k].tb => j = k
  /\ \A j, k \in DOMAIN threadBuffers : threadBuffers[j] = threadBuffers[k] => j = k
  /\ \A j \in DOMAIN bgThreadBuffers, k \in DOMAIN threadBuffers :
       bgThreadBuffers[j].tb # threadBuffers[k]
  /\ \A t \in Threads :
       threadBuffer[t] \in Held <=>
         \/ \E k \in DOMAIN bgThreadBuffers : bgThreadBuffers[k].tb = t
         \/ \E k \in DOMAIN threadBuffers : threadBuffers[k] = t
  /\ Fronts
  /\ \A t \in Threads : threadBuffer[t] \notin Held => queue[t] = << >>
  /\ \A t \in Threads :
       threadBuffer[t] \in {"shouldDeallocate", "deleted"} => tpc[t] = "ended"

(* A statement with an id, also before it is in a list.                    *)
HasId(s, id) ==
  \/ id < Len(bgLogInfos) /\ bgLogInfos[id + 1] = s
  \/ \E k \in DOMAIN logInfos : id + 1 = Len(bgLogInfos) + k /\ logInfos[k] = s
  \/ /\ id = Len(bgLogInfos) + Len(logInfos)
     /\ \E t \in Threads : tpc[t] = "insert" /\ msg[t].stmt = s

Places == {p \in (Statements \cup {Once}) \X Nat : HasId(p[1], p[2])}

Numbered(m) == <<m.stmt, m.logId>> \in Places /\ (m.stmt = Once => m.logId = 1)

(* One thread at a time is inserting the statement it has numbered.        *)
Inserting ==
  /\ \A t, u \in Threads : tpc[t] = "insert" /\ tpc[u] = "insert" => t = u
  /\ \A t \in Threads : tpc[t] = "insert" => msg[t].logId = Len(bgLogInfos) + Len(logInfos)
  /\ \A t \in Threads : tpc[t] \in {"register", "insert"} => msg[t].stmt \in Statements

(* Every id stands for one statement and every statement has one id.       *)
Ids ==
  /\ Len(bgLogInfos) >= 4
  /\ \A k \in DOMAIN bgLogInfos :
       IF k <= 4 THEN bgLogInfos[k] = Once ELSE bgLogInfos[k] \in Statements
  /\ \A s \in Statements : logId[s] # 0 => <<s, logId[s]>> \in Places
  /\ \A s \in Statements, id \in Nat : <<s, id>> \in Places => logId[s] = id

(* Every message carries the id of its statement.                          *)
Carried ==
  /\ \A t \in Threads : tpc[t] \in {"insert", "push"} => Numbered(msg[t])
  /\ \A t \in Threads : \A k \in DOMAIN queue[t] : Numbered(queue[t][k])

Numbers == Inserting /\ Ids /\ Carried

(* What is being written is younger than what its thread has in its queue, *)
(* and has a time stamp of its own.                                        *)
Written ==
  /\ \A t \in Threads : Writing(t) => msg[t] \in AllMsgs /\ msg[t].tsc <= now
  /\ \A t, u \in Threads : Writing(t) /\ Writing(u) /\ t # u => msg[t].tsc # msg[u].tsc
  /\ \A t, u \in Threads : Writing(t) =>
       \A k \in DOMAIN queue[u] :
         /\ queue[u][k].tsc # msg[t].tsc
         /\ t = u => queue[u][k].tsc < msg[t].tsc
  /\ \A t \in Threads : Writing(t) => \A m \in waiting : m.tsc # msg[t].tsc

(* The messages of a thread come one after the other.                      *)
Ordered ==
  /\ \A t \in Threads : \A k \in DOMAIN queue[t] : queue[t][k].tsc <= now
  /\ \A t \in Threads : \A j, k \in DOMAIN queue[t] : j < k => queue[t][j].tsc < queue[t][k].tsc
  /\ \A m \in waiting : m.tsc <= now

Times == Written /\ Ordered

Clear(t) == Contents(queue[t]) \cap waiting = {}

(* The nodes that poll has looked at.                                      *)
Seen(k) ==
  \/ ppc = "front" /\ k < i
  \/ ppc = "dealloc" /\ k <= i
  \/ ppc \in {"heap", "handle"}

(* A thread without a message in the heap has none that poll must handle.  *)
Waited ==
  /\ \A k \in DOMAIN bgThreadBuffers :
       Seen(k) /\ bgThreadBuffers[k].header = NoMsg => Clear(bgThreadBuffers[k].tb)
  /\ ppc \in Collecting => \A k \in DOMAIN threadBuffers : Clear(threadBuffers[k])

IInv == TypeOK /\ Shape /\ Buffers /\ Numbers /\ Times /\ Waited

-----------------------------------------------------------------------------
(* Types                                                                   *)

(* A node without a message, and a statement logged once, are told apart.  *)
LEMMA Messages ==
  /\ NoMsg \notin AllMsgs
  /\ Once \notin Statements
  /\ \A m \in AllMsgs : m.tsc \in Nat /\ m.logId \in Nat /\ m.stmt \in Statements \cup {Once}
BY CollectorAssumption DEF NoMsg, AllMsgs, Once

(* The node at the root is about the oldest message of its thread.         *)
LEMMA RootNode ==
  ASSUME IInv, Handle
  PROVE  /\ 1 \in DOMAIN bgThreadBuffers
         /\ bgThreadBuffers[1] \in Nodes
         /\ bgThreadBuffers[1].tb \in Threads
         /\ queue[bgThreadBuffers[1].tb] \in Seq(AllMsgs)
         /\ queue[bgThreadBuffers[1].tb] # << >>
         /\ bgThreadBuffers[1].header = Head(queue[bgThreadBuffers[1].tb])
         /\ bgThreadBuffers[1].header \in AllMsgs
<1>1. bgThreadBuffers \in Seq(Nodes) /\ bgThreadBuffers # << >>
  BY DEF IInv, TypeOK, Shape, Handle, Nodes, Headers
<1>2. 1 \in DOMAIN bgThreadBuffers /\ bgThreadBuffers[1] \in Nodes
  BY <1>1
<1>3. bgThreadBuffers[1].tb \in Threads /\ bgThreadBuffers[1].header \in Headers
  BY <1>2 DEF Nodes
<1>4. queue[bgThreadBuffers[1].tb] \in Seq(AllMsgs)
  BY <1>3 DEF IInv, TypeOK
<1>5. bgThreadBuffers[1].header # NoMsg
  BY DEF Handle, MayHandle
<1>6. bgThreadBuffers[1].header = Oldest(bgThreadBuffers[1].tb)
  BY <1>2, <1>5 DEF IInv, Buffers, Fronts
<1>7. /\ queue[bgThreadBuffers[1].tb] # << >>
      /\ bgThreadBuffers[1].header = Head(queue[bgThreadBuffers[1].tb])
  BY <1>5, <1>6 DEF Oldest
<1> QED BY <1>2, <1>3, <1>4, <1>5, <1>7 DEF Headers

ThreadTypes ==
  /\ now \in 0 .. MaxLogs
  /\ tpc \in [Threads -> {"idle", "register", "insert", "push", "ended"}]
  /\ msg \in [Threads -> AllMsgs \cup {NoMsg}]
  /\ threadBuffer \in [Threads -> {"none", "live", "shouldDeallocate", "deleted"}]
  /\ queue \in [Threads -> Seq(AllMsgs)]
  /\ logId \in [Statements -> Nat]
  /\ logInfos \in Seq(Statements)
  /\ threadBuffers \in Seq(Threads)

PollTypes ==
  /\ bgLogInfos \in Seq(Statements \cup {Once})
  /\ ppc \in {"idle", "infos", "buffers", "front", "dealloc", "heap", "handle"}
  /\ tsc \in Nat /\ i \in Nat \ {0}
  /\ bgThreadBuffers \in Seq([tb : Threads, header : AllMsgs \cup {NoMsg}])
  /\ waiting \subseteq AllMsgs
  /\ out \in Seq(AllMsgs) /\ Len(out) <= 1

SinkTypes ==
  /\ outputFp \in Files \cup {stdout, nullptr}
  /\ fpos \in Nat /\ membuf \in 0 .. FlushBufSize - 1
  /\ nextFlushTime \in {"max", "future", "past"}
  /\ file \in [Files -> Nat] /\ sets \in 0 .. MaxSets

(* The type invariant, by what the lemmas below need of it.                *)
LEMMA TypeParts == TypeOK <=> ThreadTypes /\ PollTypes /\ SinkTypes
BY DEF TypeOK, ThreadTypes, PollTypes, SinkTypes

(* The parts of the type invariant are preserved; the stronger parts of the *)
(* invariant are needed, as a message that is written or handled must exist. *)
LEMMA ThreadTypesStep ==
  ASSUME IInv, [Next]_vars
  PROVE  ThreadTypes'
<1> USE DEF ThreadTypes, threadVars, sharedVars
<1>1. ThreadTypes
  BY TypeParts DEF IInv
<1>2. MaxLogs \in Nat /\ NoMsg \notin AllMsgs
  BY CollectorAssumption, Messages
<1>3. CASE UNCHANGED <<threadVars, sharedVars>>
  BY <1>1, <1>3
<1>4. ASSUME NEW t \in Threads, Preallocate(t) PROVE ThreadTypes'
  BY <1>1, <1>4 DEF Preallocate
<1>5. ASSUME NEW t \in Threads, NEW s \in Statements, Log(t, s) PROVE ThreadTypes'
  <2>1. [tsc |-> now', logId |-> logId[s], stmt |-> s] \in AllMsgs
    BY <1>1, <1>2, <1>5 DEF Log, AllMsgs
  <2> QED BY <1>1, <1>2, <1>5, <2>1 DEF Log
<1>6. ASSUME NEW t \in Threads, LogOnce(t) PROVE ThreadTypes'
  <2>1. [tsc |-> now', logId |-> 1, stmt |-> Once] \in AllMsgs
    BY <1>1, <1>2, <1>6 DEF LogOnce, AllMsgs
  <2> QED BY <1>1, <1>2, <1>6, <2>1 DEF LogOnce
<1>7. ASSUME NEW t \in Threads, RegisterLogInfo(t) PROVE ThreadTypes'
  <2>1. /\ Len(logInfos) + Len(bgLogInfos) \in Nat
        /\ msg[t].stmt \in Statements /\ msg[t] \in AllMsgs
    BY <1>7, TypeParts DEF IInv, PollTypes, Numbers, Inserting, Times, Written, Writing, RegisterLogInfo
  <2>2. \A id \in Nat : [msg[t] EXCEPT !.logId = id] \in AllMsgs
    BY <2>1 DEF AllMsgs
  <2>3. logId[msg[t].stmt] \in Nat
    BY <1>1, <2>1
  <2>4. \A id \in Nat : [msg EXCEPT ![t].logId = id] \in [Threads -> AllMsgs \cup {NoMsg}]
    BY <1>1, <2>2
  <2>5. msg' \in [Threads -> AllMsgs \cup {NoMsg}] /\ logId' \in [Statements -> Nat]
    BY <1>1, <1>7, <2>1, <2>3, <2>4 DEF RegisterLogInfo
  <2> QED BY <1>1, <1>7, <2>5 DEF RegisterLogInfo
<1>8. ASSUME NEW t \in Threads, InsertLogInfo(t) PROVE ThreadTypes'
  <2>1. msg[t].stmt \in Statements
    BY <1>8 DEF IInv, Numbers, Inserting, InsertLogInfo
  <2> QED BY <1>1, <1>8, <2>1 DEF InsertLogInfo
<1>9. ASSUME NEW t \in Threads, Push(t) PROVE ThreadTypes'
  <2>1. msg[t] \in AllMsgs /\ queue[t] \in Seq(AllMsgs)
    BY <1>1, <1>9 DEF IInv, Times, Written, Writing, Push
  <2>2. Append(queue[t], msg[t]) \in Seq(AllMsgs)
    BY <2>1
  <2>3. queue' \in [Threads -> Seq(AllMsgs)]
    BY <1>1, <1>9, <2>2 DEF Push
  <2> QED BY <1>1, <1>9, <2>3 DEF Push
<1>10. ASSUME NEW t \in Threads, ThreadEnds(t) PROVE ThreadTypes'
  BY <1>1, <1>10 DEF ThreadEnds
<1>11. CASE TakeLogInfos
  BY <1>1, <1>11 DEF TakeLogInfos
<1>12. CASE TakeThreadBuffers
  BY <1>1, <1>12 DEF TakeThreadBuffers
<1>13. CASE Deallocate
  <2>1. << >> \in Seq(AllMsgs)
    OBVIOUS
  <2>2. queue' \in [Threads -> Seq(AllMsgs)]
    BY <1>1, <1>13, <2>1 DEF Deallocate
  <2>3. threadBuffer' \in [Threads -> {"none", "live", "shouldDeallocate", "deleted"}]
    BY <1>1, <1>13 DEF Deallocate
  <2> QED BY <1>1, <1>13, <2>2, <2>3 DEF Deallocate
<1>14. CASE Handle
  <2>1. Tail(queue[bgThreadBuffers[1].tb]) \in Seq(AllMsgs)
    BY <1>14, RootNode
  <2> QED BY <1>1, <1>14, <2>1 DEF Handle
<1>15. CASE PollBegin \/ Front \/ BuildHeap \/ Heapify \/ NoBuffers \/ Elapse
  BY <1>3, <1>15 DEF PollBegin, Front, BuildHeap, Heapify, NoBuffers, PollReturns, Elapse
<1>16. ASSUME NEW forceFlush \in BOOLEAN, PollEnd(forceFlush) PROVE ThreadTypes'
  BY <1>3, <1>16 DEF PollEnd, PollReturns
<1>17. CASE Sink
  BY <1>3, <1>17 DEF Sink, CloseOutput, CloseLogFile, SetLogFile, SetStdout
<1>18. CASE UNCHANGED vars
  BY <1>3, <1>18 DEF vars
<1> QED BY <1>4, <1>5, <1>6, <1>7, <1>8, <1>9, <1>10, <1>11, <1>12, <1>13, <1>14, <1>15,
           <1>16, <1>17, <1>18 DEF Next, Thread, Poll

(* The heap without a node whose buffer is deleted.                        *)
LEMMA WithoutNode ==
  ASSUME NEW nodes \in Seq(Nodes), NEW k \in DOMAIN nodes
  PROVE  /\ Without(k, nodes) \in Seq(Nodes)
         /\ Len(Without(k, nodes)) = Len(nodes) - 1
         /\ \A j \in DOMAIN Without(k, nodes) :
              /\ j \in DOMAIN nodes
              /\ Without(k, nodes)[j] = IF j = k THEN nodes[Len(nodes)] ELSE nodes[j]
<1> DEFINE n == Len(nodes)
           moved == [nodes EXCEPT ![k] = nodes[n]]
<1>1. n \in Nat /\ DOMAIN nodes = 1 .. n /\ n \in DOMAIN nodes
  BY NodesOfSequence
<1>2. /\ moved \in Seq(Nodes) /\ Len(moved) = n
      /\ \A j \in 1 .. n : moved[j] = IF j = k THEN nodes[n] ELSE nodes[j]
  BY <1>1, NodesOfSequence
<1> HIDE DEF moved
<1>3. /\ SubSeq(moved, 1, n - 1) \in Seq(Nodes)
      /\ Len(SubSeq(moved, 1, n - 1)) = n - 1
      /\ \A j \in 1 .. n - 1 : SubSeq(moved, 1, n - 1)[j] = moved[j]
  BY <1>1, <1>2
<1> QED BY <1>1, <1>2, <1>3 DEF Without, moved

(* A node that is given another header.                                    *)
LEMMA NewHeader ==
  ASSUME NEW nodes \in Seq(Nodes), NEW k \in DOMAIN nodes, NEW header \in Headers
  PROVE  /\ [nodes EXCEPT ![k].header = header] \in Seq(Nodes)
         /\ DOMAIN [nodes EXCEPT ![k].header = header] = DOMAIN nodes
         /\ \A j \in DOMAIN nodes :
              /\ [nodes EXCEPT ![k].header = header][j].tb = nodes[j].tb
              /\ [nodes EXCEPT ![k].header = header][j].header =
                   IF j = k THEN header ELSE nodes[j].header
<1> DEFINE node == [nodes[k] EXCEPT !.header = header]
<1>1. Len(nodes) \in Nat /\ DOMAIN nodes = 1 .. Len(nodes)
  BY NodesOfSequence
<1>2. nodes[k] \in Nodes /\ \A j \in DOMAIN nodes : nodes[j] \in Nodes
  BY NodesOfSequence
<1>3. node \in Nodes /\ node.tb = nodes[k].tb /\ node.header = header
  BY <1>2 DEF Nodes
<1> HIDE DEF node
<1>4. [nodes EXCEPT ![k].header = header] = [nodes EXCEPT ![k] = node]
  BY DEF node
<1>5. [nodes EXCEPT ![k] = node] \in Seq(Nodes)
  BY <1>1, <1>3
<1> QED BY <1>1, <1>2, <1>3, <1>4, <1>5

(* A sequence and what is appended to it.                                  *)
LEMMA Concatenated ==
  ASSUME NEW S, NEW f \in Seq(S), NEW g \in Seq(S)
  PROVE  /\ f \o g \in Seq(S) /\ Len(f \o g) = Len(f) + Len(g)
         /\ \A k \in 1 .. Len(f) : (f \o g)[k] = f[k]
         /\ \A k \in 1 .. Len(g) : (f \o g)[Len(f) + k] = g[k]
OBVIOUS

(* The nodes that poll makes of new buffers.                               *)
LEMMA NewNodes ==
  ASSUME NEW buffers \in Seq(Threads), NEW nodes \in Seq(Nodes)
  PROVE  LET all == nodes \o [k \in DOMAIN buffers |-> HeapNode(buffers[k])] IN
         /\ all \in Seq(Nodes)
         /\ Len(all) = Len(nodes) + Len(buffers)
         /\ \A k \in 1 .. Len(nodes) : all[k] = nodes[k]
         /\ \A k \in 1 .. Len(buffers) :
              all[Len(nodes) + k].tb = buffers[k] /\ all[Len(nodes) + k].header = NoMsg
<1> DEFINE new == [k \in DOMAIN buffers |-> HeapNode(buffers[k])]
<1>1. \A t \in Threads : HeapNode(t) \in Nodes /\ HeapNode(t).tb = t /\ HeapNode(t).header = NoMsg
  BY DEF HeapNode, Nodes, Headers
<1>2. Len(buffers) \in Nat /\ DOMAIN buffers = 1 .. Len(buffers) /\ \A k \in DOMAIN buffers : buffers[k] \in Threads
  OBVIOUS
<1>3. new \in [1 .. Len(buffers) -> Nodes] /\ \A k \in DOMAIN buffers : new[k] = HeapNode(buffers[k])
  BY <1>1, <1>2
<1> HIDE DEF new
<1>4. new \in Seq(Nodes) /\ Len(new) = Len(buffers)
  BY <1>2, <1>3
<1>5. nodes \o new \in Seq(Nodes) /\ Len(nodes \o new) = Len(nodes) + Len(new)
  BY <1>4
<1>6. \A k \in 1 .. Len(nodes) : (nodes \o new)[k] = nodes[k]
  BY <1>4, Concatenated, Zenon
<1>7. \A k \in 1 .. Len(new) : (nodes \o new)[Len(nodes) + k] = new[k]
  BY <1>4, Concatenated, SMT
<1>8. \A k \in 1 .. Len(buffers) :
        /\ (nodes \o new)[Len(nodes) + k].tb = buffers[k]
        /\ (nodes \o new)[Len(nodes) + k].header = NoMsg
  BY <1>1, <1>2, <1>3, <1>4, <1>7
<1>9. Len(nodes \o new) = Len(nodes) + Len(buffers)
  BY <1>4, <1>5
<1> QED BY <1>5, <1>6, <1>8, <1>9, Zenon DEF new

(* What belongs to poll keeps its types.                                   *)
LEMMA PollTypesStep ==
  ASSUME IInv, [Next]_vars
  PROVE  PollTypes'
<1> USE DEF PollTypes, pollVars, history
<1>1. PollTypes /\ ThreadTypes
  BY TypeParts DEF IInv
<1>2. bgThreadBuffers \in Seq(Nodes) /\ Seq(Nodes) = Seq([tb : Threads, header : AllMsgs \cup {NoMsg}])
  BY <1>1 DEF Nodes, Headers
<1>3. CASE UNCHANGED <<pollVars, history>>
  BY <1>1, <1>3
<1>4. CASE PollBegin
  <2>1. \A t \in Threads : Contents(queue[t]) \subseteq AllMsgs
    BY <1>1 DEF ThreadTypes, Contents
  <2>2. Queued \subseteq AllMsgs
    BY <2>1 DEF Queued
  <2> QED BY <1>1, <1>4, <2>2 DEF PollBegin, ThreadTypes
<1>5. CASE TakeLogInfos
  BY <1>1, <1>5 DEF TakeLogInfos, ThreadTypes
<1>6. CASE TakeThreadBuffers
  <2>2. bgThreadBuffers' \in Seq(Nodes)
    BY <1>1, <1>2, <1>6, NewNodes DEF TakeThreadBuffers, ThreadTypes
  <2> QED BY <1>1, <1>2, <1>6, <2>2 DEF TakeThreadBuffers
<1>7. CASE Front
  <2>1. Oldest(bgThreadBuffers[i].tb) \in Headers
    BY <1>1, <1>2, <1>7, NodesOfSequence DEF Front, ThreadTypes, Oldest, Headers
  <2>2. [bgThreadBuffers EXCEPT ![i].header = Oldest(bgThreadBuffers[i].tb)] \in Seq(Nodes)
    BY <1>2, <1>7, <2>1, NewHeader DEF Front
  <2>3. bgThreadBuffers' \in Seq(Nodes)
    BY <1>2, <1>7, <2>2 DEF Front
  <2>4. i' \in Nat \ {0}
    BY <1>1, <1>7 DEF Front
  <2> QED BY <1>1, <1>2, <1>7, <2>3, <2>4 DEF Front
<1>8. CASE Deallocate
  <2>1. Without(i, bgThreadBuffers) \in Seq(Nodes)
    BY <1>2, <1>8, WithoutNode DEF IInv, Shape, Deallocate
  <2>2. bgThreadBuffers' \in Seq(Nodes) /\ i' \in Nat \ {0}
    BY <1>1, <1>2, <1>8, <2>1 DEF Deallocate
  <2> QED BY <1>1, <1>2, <1>8, <2>2 DEF Deallocate
<1>9. CASE BuildHeap
  <2>1. 1 + Len(bgThreadBuffers) \div 2 \in Nat \ {0}
    BY <1>2, NodesOfSequence
  <2> QED BY <1>1, <1>9, <2>1 DEF BuildHeap
<1>10. CASE Heapify
  <2>1. bgThreadBuffers' \in Seq(Nodes)
    BY <1>2, <1>10, AdjustType DEF IInv, Shape, Heapify
  <2> QED BY <1>1, <1>2, <1>10, <2>1 DEF Heapify
<1>11. CASE Handle
  <2> DEFINE q == queue'[bgThreadBuffers[1].tb]
             header == IF q = << >> THEN NoMsg ELSE Head(q)
             nodes == [bgThreadBuffers EXCEPT ![1].header = header]
  <2>1. q \in Seq(AllMsgs)
    BY <1>11, RootNode, ThreadTypesStep DEF ThreadTypes
  <2>2. header \in Headers
    BY <2>1 DEF Headers
  <2> HIDE DEF header
  <2>3. nodes \in Seq(Nodes) /\ 1 \in DOMAIN nodes
    BY <1>2, <1>11, <2>2, RootNode, NewHeader
  <2> HIDE DEF nodes
  <2>4. adjustHeap(1, nodes) \in Seq(Nodes)
    BY <2>3, AdjustType
  <2>5. bgThreadBuffers' \in Seq(Nodes)
    BY <1>11, <2>4 DEF Handle, nodes, header
  <2>6. out' \in Seq(AllMsgs) /\ Len(out') <= 1
    BY <1>11, RootNode DEF Handle
  <2> QED BY <1>1, <1>2, <1>11, <2>5, <2>6 DEF Handle
<1>12. CASE PollReturns
  BY <1>1, <1>12 DEF PollReturns
<1>13. ASSUME NEW t \in Threads, Thread(t) PROVE PollTypes'
  BY <1>3, <1>13 DEF Thread, Preallocate, Log, LogOnce, RegisterLogInfo, InsertLogInfo, Push, ThreadEnds
<1>14. CASE Elapse \/ Sink
  BY <1>3, <1>14 DEF Elapse, Sink, CloseOutput, CloseLogFile, SetLogFile, SetStdout
<1>15. CASE UNCHANGED vars
  BY <1>3, <1>15 DEF vars
<1> QED BY <1>4, <1>5, <1>6, <1>7, <1>8, <1>9, <1>10, <1>11, <1>12, <1>13, <1>14, <1>15
        DEF Next, Poll, PollEnd, NoBuffers

(* What belongs to the sink keeps its types.                               *)
LEMMA SinkTypesStep ==
  ASSUME IInv, [Next]_vars
  PROVE  SinkTypes'
<1> USE DEF SinkTypes, sinkVars
<1>1. SinkTypes /\ FlushBufSize \in Nat \ {0} /\ MaxSets \in Nat
  BY TypeParts, CollectorAssumption DEF IInv
<1>2. CASE UNCHANGED sinkVars
  BY <1>1, <1>2
<1>3. ASSUME NEW n \in Nat, FlushLogFile(n)
      PROVE  fpos' \in Nat /\ membuf' = 0 /\ nextFlushTime' = "max" /\ file' \in [Files -> Nat]
  BY <1>1, <1>3 DEF FlushLogFile, manageFp
<1>4. CASE Handle
  <2>1. CASE FlushLogFile(membuf + 1)
    BY <1>1, <1>3, <1>4, <2>1 DEF Handle
  <2>2. CASE ~ FlushLogFile(membuf + 1)
    <3>1. \E stmt : ~ FlushNow(membuf + 1, stmt)
      BY <1>4, <2>2 DEF Handle
    <3>2. membuf + 1 \in 0 .. FlushBufSize - 1
      BY <1>1, <3>1 DEF FlushNow
    <3> QED BY <1>1, <1>4, <2>2, <3>2 DEF Handle
  <2> QED BY <2>1, <2>2
<1>5. CASE NoBuffers
  BY <1>1, <1>5 DEF NoBuffers, PollReturns
<1>6. ASSUME NEW forceFlush \in BOOLEAN, PollEnd(forceFlush) PROVE SinkTypes'
  <2>1. CASE FlushLogFile(membuf)
    BY <1>1, <1>3, <1>6, <2>1 DEF PollEnd, PollReturns
  <2>2. CASE ~ FlushLogFile(membuf)
    BY <1>1, <1>6, <2>2 DEF PollEnd, PollReturns, Delayed
  <2> QED BY <2>1, <2>2
<1>7. CASE Elapse
  BY <1>1, <1>7 DEF Elapse
<1>8. CASE Sink
  <2>1. sets' \in 0 .. MaxSets
    BY <1>1, <1>8 DEF Sink
  <2>2. ASSUME CloseOutput
        PROVE  membuf' \in 0 .. FlushBufSize - 1 /\ file' \in [Files -> Nat]
               /\ nextFlushTime' \in {"max", "future", "past"}
    BY <1>1, <2>2 DEF CloseOutput, manageFp
  <2>3. CASE CloseLogFile \/ SetStdout
    BY <1>1, <2>1, <2>2, <2>3 DEF CloseLogFile, SetStdout
  <2>4. ASSUME NEW f \in Files, SetLogFile(f) PROVE SinkTypes'
    <3>1. fpos' \in Nat
      BY <1>1, <2>4 DEF SetLogFile
    <3> QED BY <1>1, <2>1, <2>2, <2>4, <3>1 DEF SetLogFile
  <2> QED BY <1>8, <2>3, <2>4 DEF Sink
<1>9. CASE PollBegin \/ TakeLogInfos \/ TakeThreadBuffers \/ Front \/ Deallocate \/ BuildHeap \/ Heapify
  BY <1>2, <1>9 DEF PollBegin, TakeLogInfos, TakeThreadBuffers, Front, Deallocate, BuildHeap, Heapify
<1>10. ASSUME NEW t \in Threads, Thread(t) PROVE SinkTypes'
  BY <1>2, <1>10 DEF Thread, Preallocate, Log, LogOnce, RegisterLogInfo, InsertLogInfo, Push, ThreadEnds
<1>11. CASE UNCHANGED vars
  BY <1>2, <1>11 DEF vars
<1> QED BY <1>4, <1>5, <1>6, <1>7, <1>8, <1>9, <1>10, <1>11 DEF Next, Poll

-----------------------------------------------------------------------------
(* Buffers                                                                 *)

Distinct(nodes) == \A j, k \in DOMAIN nodes : nodes[j].tb = nodes[k].tb => j = k

(* adjustHeap keeps what holds of every node, and every node.              *)
LEMMA AdjustKeeps ==
  ASSUME NEW nodes \in Seq(Nodes), NEW first \in DOMAIN nodes
  PROVE  LET all == adjustHeap(first, nodes) IN
         /\ all \in Seq(Nodes) /\ DOMAIN all = DOMAIN nodes
         /\ \A k \in DOMAIN nodes : \E j \in DOMAIN nodes : all[k] = nodes[j]
         /\ \A j \in DOMAIN nodes : \E k \in DOMAIN nodes : all[k] = nodes[j]
         /\ Distinct(nodes) => Distinct(all)
<1> DEFINE all == adjustHeap(first, nodes)
<1>1. all \in Seq(Nodes) /\ DOMAIN all = DOMAIN nodes
  BY AdjustType
<1>2. \A k \in DOMAIN nodes :
        /\ Source(k, first, nodes) \in DOMAIN nodes
        /\ all[k] = nodes[Source(k, first, nodes)]
  BY SourceIsPlace
<1>3. ASSUME NEW j \in DOMAIN nodes PROVE \E k \in DOMAIN nodes : all[k] = nodes[j]
  <2>1. PICK k \in DOMAIN nodes : Source(k, first, nodes) = j
    BY AdjustPermutes
  <2> QED BY <1>2, <2>1
<1>4. ASSUME Distinct(nodes), NEW j \in DOMAIN nodes, NEW k \in DOMAIN nodes, all[j].tb = all[k].tb
      PROVE  j = k
  <2>1. Source(j, first, nodes) = Source(k, first, nodes)
    BY <1>2, <1>4 DEF Distinct
  <2> QED BY <2>1, AdjustPermutes
<1> HIDE DEF all
<1>5. Distinct(nodes) => Distinct(all)
  BY <1>1, <1>4 DEF Distinct
<1> QED BY <1>1, <1>2, <1>3, <1>5 DEF all

(* So does taking out a node, except that node.                            *)
LEMMA WithoutKeeps ==
  ASSUME NEW nodes \in Seq(Nodes), NEW k \in DOMAIN nodes
  PROVE  LET all == Without(k, nodes) IN
         /\ all \in Seq(Nodes)
         /\ \A j \in DOMAIN all : \E m \in DOMAIN nodes : m # k /\ all[j] = nodes[m]
         /\ \A m \in DOMAIN nodes : m # k => \E j \in DOMAIN all : all[j] = nodes[m]
         /\ Distinct(nodes) => Distinct(all)
<1> DEFINE all == Without(k, nodes)
           n == Len(nodes)
           From(j) == IF j = k THEN n ELSE j
<1>1. /\ all \in Seq(Nodes) /\ Len(all) = n - 1
      /\ \A j \in DOMAIN all : all[j] = IF j = k THEN nodes[n] ELSE nodes[j]
  BY WithoutNode
<1>2. n \in Nat /\ DOMAIN nodes = 1 .. n /\ DOMAIN all = 1 .. n - 1 /\ k \in 1 .. n
  BY <1>1, NodesOfSequence
<1> HIDE DEF all, n
<1>3. \A j \in 1 .. n - 1 : From(j) \in 1 .. n /\ From(j) # k /\ all[j] = nodes[From(j)]
  BY <1>1, <1>2
<1>4. \A m \in 1 .. n : m # k => \E j \in 1 .. n - 1 : From(j) = m
  <2> SUFFICES ASSUME NEW m \in 1 .. n, m # k PROVE \E j \in 1 .. n - 1 : From(j) = m
    OBVIOUS
  <2>1. CASE m = n
    <3>1. k \in 1 .. n - 1 /\ From(k) = m
      BY <2>1, <1>2
    <3> QED BY <3>1
  <2>2. CASE m # n
    <3>1. m \in 1 .. n - 1 /\ From(m) = m
      BY <2>2, <1>2
    <3> QED BY <3>1
  <2> QED BY <2>1, <2>2
<1>5. \A j, m \in 1 .. n - 1 : From(j) = From(m) => j = m
  BY <1>2
<1> HIDE DEF From
<1>6. Distinct(nodes) => Distinct(all)
  BY <1>2, <1>3, <1>5 DEF Distinct
<1>7. \A j \in DOMAIN all : \E m \in DOMAIN nodes : m # k /\ all[j] = nodes[m]
  BY <1>2, <1>3
<1>8. \A m \in DOMAIN nodes : m # k => \E j \in DOMAIN all : all[j] = nodes[m]
  BY <1>2, <1>3, <1>4
<1> QED BY <1>1, <1>6, <1>7, <1>8 DEF all

(* A buffer stays in one list, whoever moves, adds or deletes nodes.       *)
LEMMA BuffersStep ==
  ASSUME IInv, [Next]_vars
  PROVE  Buffers'
<1> USE DEF threadVars, sharedVars, pollVars, sinkVars, history
<1>1. /\ ThreadTypes /\ PollTypes /\ ThreadTypes' /\ PollTypes'
      /\ Buffers
      /\ bgThreadBuffers \in Seq(Nodes) /\ bgThreadBuffers' \in Seq(Nodes)
  BY TypeParts, ThreadTypesStep, PollTypesStep DEF IInv, PollTypes, Nodes, Headers
<1>2. CASE UNCHANGED <<bgThreadBuffers, threadBuffers, threadBuffer, queue, tpc>>
  BY <1>1, <1>2 DEF Buffers, Fronts, Oldest
<1>3. ASSUME NEW t \in Threads, tpc[t] # "ended",
             UNCHANGED <<bgThreadBuffers, threadBuffers, threadBuffer, queue>>,
             \A u \in Threads \ {t} : tpc'[u] = tpc[u]
      PROVE  Buffers'
  <2>1. threadBuffer[t] \notin {"shouldDeallocate", "deleted"}
    BY <1>1, <1>3 DEF Buffers
  <2> QED BY <1>1, <1>3, <2>1 DEF Buffers, Fronts, Oldest
<1>4. ASSUME NEW t \in Threads, \/ \E s \in Statements : Log(t, s)
                                \/ LogOnce(t) \/ RegisterLogInfo(t) \/ InsertLogInfo(t)
      PROVE  Buffers'
  BY <1>1, <1>3, <1>4 DEF Log, LogOnce, RegisterLogInfo, InsertLogInfo, ThreadTypes
<1>5. ASSUME NEW t \in Threads, Preallocate(t)
      PROVE  Buffers'
  <2>1. /\ threadBuffer[t] = "none" /\ threadBuffers' = Append(threadBuffers, t)
        /\ threadBuffer'[t] = "live" /\ \A u \in Threads \ {t} : threadBuffer'[u] = threadBuffer[u]
        /\ UNCHANGED <<bgThreadBuffers, queue, tpc>>
    BY <1>1, <1>5 DEF Preallocate, ThreadTypes
  <2>2. /\ Len(threadBuffers) \in Nat
        /\ DOMAIN threadBuffers = 1 .. Len(threadBuffers)
        /\ DOMAIN threadBuffers' = 1 .. Len(threadBuffers) + 1
        /\ \A k \in DOMAIN threadBuffers : threadBuffers'[k] = threadBuffers[k]
        /\ threadBuffers'[Len(threadBuffers) + 1] = t
    BY <1>1, <2>1 DEF ThreadTypes
  <2>3. /\ \A k \in DOMAIN bgThreadBuffers : bgThreadBuffers[k].tb # t
        /\ \A k \in DOMAIN threadBuffers : threadBuffers[k] # t
    BY <1>1, <2>1 DEF Buffers, Held
  <2>4. \A j, k \in DOMAIN threadBuffers' : threadBuffers'[j] = threadBuffers'[k] => j = k
    BY <1>1, <2>2, <2>3 DEF Buffers
  <2>5. \A u \in Threads : (\E k \in DOMAIN threadBuffers' : threadBuffers'[k] = u)
                              <=> u = t \/ \E k \in DOMAIN threadBuffers : threadBuffers[k] = u
    BY <2>2
  <2>6. \A j \in DOMAIN bgThreadBuffers, k \in DOMAIN threadBuffers' :
          bgThreadBuffers[j].tb # threadBuffers'[k]
    BY <1>1, <2>2, <2>3 DEF Buffers
  <2> QED BY <1>1, <2>1, <2>4, <2>5, <2>6 DEF Buffers, Fronts, Held, Oldest
<1>6. ASSUME NEW t \in Threads, Push(t)
      PROVE  Buffers'
  <2>1. /\ threadBuffer[t] = "live" /\ tpc[t] # "ended" /\ tpc' = [tpc EXCEPT ![t] = "idle"]
        /\ UNCHANGED <<bgThreadBuffers, threadBuffers, threadBuffer>>
        /\ \A u \in Threads \ {t} : queue'[u] = queue[u]
        /\ queue'[t] = queue[t] \/ queue'[t] = Append(queue[t], msg[t])
    BY <1>1, <1>6 DEF Push, ThreadTypes
  <2>2. queue[t] \in Seq(AllMsgs)
    BY <1>1 DEF ThreadTypes
  <2>3. Oldest(t)' = Oldest(t) \/ Oldest(t) = NoMsg
    BY <2>1, <2>2 DEF Oldest
  <2>4. \A u \in Threads \ {t} : Oldest(u)' = Oldest(u)
    BY <2>1 DEF Oldest
  <2>5. Fronts'
    BY <1>1, <2>1, <2>3, <2>4, NodesOfSequence DEF Buffers, Fronts
  <2>6. \A u \in Threads : threadBuffer'[u] \notin Held => queue'[u] = << >>
    BY <1>1, <2>1 DEF Buffers, Held
  <2>7. \A u \in Threads :
          threadBuffer'[u] \in {"shouldDeallocate", "deleted"} => tpc'[u] = "ended"
    BY <1>1, <2>1 DEF Buffers, ThreadTypes
  <2> QED BY <1>1, <2>1, <2>5, <2>6, <2>7 DEF Buffers
<1>7. ASSUME NEW t \in Threads, ThreadEnds(t)
      PROVE  Buffers'
  <2>1. /\ tpc'[t] = "ended" /\ \A u \in Threads \ {t} : tpc'[u] = tpc[u]
        /\ UNCHANGED <<bgThreadBuffers, threadBuffers, queue>>
        /\ \A u \in Threads \ {t} : threadBuffer'[u] = threadBuffer[u]
        /\ threadBuffer'[t] \in Held <=> threadBuffer[t] \in Held
    BY <1>1, <1>7 DEF ThreadEnds, ThreadTypes, Held
  <2> QED BY <1>1, <2>1 DEF Buffers, Fronts, Oldest
<1>8. CASE TakeThreadBuffers
  <2> DEFINE n == Len(bgThreadBuffers)
             b == Len(threadBuffers)
  <2>1. /\ threadBuffers' = << >> /\ UNCHANGED <<threadBuffer, queue, tpc>>
        /\ Len(bgThreadBuffers') = n + b
        /\ \A k \in 1 .. n : bgThreadBuffers'[k] = bgThreadBuffers[k]
        /\ \A k \in 1 .. b : /\ bgThreadBuffers'[n + k].tb = threadBuffers[k]
                              /\ bgThreadBuffers'[n + k].header = NoMsg
    <3>1. /\ threadBuffers' = << >> /\ UNCHANGED <<threadBuffer, queue, tpc>>
          /\ bgThreadBuffers' =
               bgThreadBuffers \o [k \in DOMAIN threadBuffers |-> HeapNode(threadBuffers[k])]
      BY <1>8 DEF TakeThreadBuffers
    <3>2. threadBuffers \in Seq(Threads)
      BY <1>1 DEF ThreadTypes
    <3> DEFINE all == bgThreadBuffers \o [k \in DOMAIN threadBuffers |-> HeapNode(threadBuffers[k])]
    <3>3. /\ Len(all) = n + b
          /\ \A k \in 1 .. n : all[k] = bgThreadBuffers[k]
          /\ \A k \in 1 .. b : all[n + k].tb = threadBuffers[k] /\ all[n + k].header = NoMsg
      BY <1>1, <3>2, NewNodes, Zenon
    <3>4. bgThreadBuffers' = all
      BY <3>1
    <3> HIDE DEF all
    <3> QED BY <3>1, <3>3, <3>4
  <2>2. /\ n \in Nat /\ b \in Nat /\ DOMAIN bgThreadBuffers = 1 .. n
        /\ DOMAIN threadBuffers = 1 .. b /\ DOMAIN bgThreadBuffers' = 1 .. n + b
        /\ DOMAIN threadBuffers' = {}
    BY <1>1, <2>1, NodesOfSequence DEF ThreadTypes
  <2>3. ASSUME NEW k \in DOMAIN bgThreadBuffers'
        PROVE  \/ k \in 1 .. n /\ bgThreadBuffers'[k] = bgThreadBuffers[k]
               \/ /\ k - n \in 1 .. b /\ bgThreadBuffers'[k].tb = threadBuffers[k - n]
                  /\ bgThreadBuffers'[k].header = NoMsg
    <3>1. CASE k \in 1 .. n
      BY <3>1, <2>1
    <3>2. CASE k \notin 1 .. n
      <4>1. k - n \in 1 .. b /\ k = n + (k - n)
        BY <3>2, <2>2, <2>3
      <4> QED BY <4>1, <2>1
    <3> QED BY <3>1, <3>2
  <2>4. \A j, k \in DOMAIN bgThreadBuffers' :
          bgThreadBuffers'[j].tb = bgThreadBuffers'[k].tb => j = k
    BY <1>1, <2>2, <2>3 DEF Buffers
  <2>5. \A t \in Threads :
          (\E k \in DOMAIN bgThreadBuffers' : bgThreadBuffers'[k].tb = t)
            <=> \/ \E k \in DOMAIN bgThreadBuffers : bgThreadBuffers[k].tb = t
                \/ \E k \in DOMAIN threadBuffers : threadBuffers[k] = t
    <3>1. \A k \in 1 .. n : k \in DOMAIN bgThreadBuffers'
      BY <2>2
    <3>2. \A k \in 1 .. b : n + k \in DOMAIN bgThreadBuffers'
      BY <2>2
    <3> QED BY <2>1, <2>2, <2>3, <3>1, <3>2
  <2>6. Fronts'
    BY <1>1, <2>1, <2>2, <2>3 DEF Buffers, Fronts, Oldest
  <2>7. \A j \in DOMAIN bgThreadBuffers, k \in DOMAIN threadBuffers :
          bgThreadBuffers[j].tb # threadBuffers[k]
    BY <1>1 DEF Buffers
  <2> QED BY <1>1, <2>1, <2>2, <2>4, <2>5, <2>6 DEF Buffers
<1>9. CASE Front
  <2>1. CASE UNCHANGED bgThreadBuffers
    BY <1>2, <1>9, <2>1 DEF Front
  <2>2. CASE bgThreadBuffers' # bgThreadBuffers
    <3> DEFINE header == Oldest(bgThreadBuffers[i].tb)
    <3>1. /\ bgThreadBuffers' = [bgThreadBuffers EXCEPT ![i].header = header]
          /\ i \in DOMAIN bgThreadBuffers
          /\ UNCHANGED <<threadBuffers, threadBuffer, queue, tpc>>
      BY <1>9, <2>2 DEF Front
    <3>2. header \in Headers
      BY <1>1, <3>1, NodesOfSequence DEF ThreadTypes, Oldest, Headers
    <3>3. /\ DOMAIN bgThreadBuffers' = DOMAIN bgThreadBuffers
          /\ \A j \in DOMAIN bgThreadBuffers :
               /\ bgThreadBuffers'[j].tb = bgThreadBuffers[j].tb
               /\ bgThreadBuffers'[j].header = IF j = i THEN header ELSE bgThreadBuffers[j].header
      BY <1>1, <3>1, <3>2, NewHeader
    <3> QED BY <1>1, <3>1, <3>3 DEF Buffers, Fronts, Oldest
  <2> QED BY <2>1, <2>2
<1>12. CASE PollBegin \/ TakeLogInfos \/ BuildHeap \/ NoBuffers \/ Elapse \/ Sink
              \/ \E forceFlush \in BOOLEAN : PollEnd(forceFlush)
  BY <1>2, <1>12 DEF PollBegin, TakeLogInfos, BuildHeap, NoBuffers, PollReturns, PollEnd,
                     Elapse, Sink, CloseOutput, CloseLogFile, SetLogFile, SetStdout
<1>13. CASE UNCHANGED vars
  BY <1>2, <1>13 DEF vars
<1>10. CASE Deallocate
  <2> DEFINE t == bgThreadBuffers[i].tb
             n == Len(bgThreadBuffers)
  <2>1. CASE UNCHANGED <<threadBuffer, queue, bgThreadBuffers>>
    BY <1>2, <1>10, <2>1 DEF Deallocate
  <2>2. CASE threadBuffer[t] = "shouldDeallocate"
    <3>1. i \in DOMAIN bgThreadBuffers /\ t \in Threads
      BY <1>1, <1>10, NodesOfSequence DEF IInv, Shape, Deallocate
    <3>2. /\ bgThreadBuffers' = Without(i, bgThreadBuffers)
          /\ threadBuffer'[t] = "deleted" /\ queue'[t] = << >>
          /\ \A u \in Threads \ {t} : threadBuffer'[u] = threadBuffer[u] /\ queue'[u] = queue[u]
          /\ UNCHANGED <<threadBuffers, tpc>>
      BY <1>1, <1>10, <2>2, <3>1 DEF Deallocate, ThreadTypes
    <3>3. Distinct(bgThreadBuffers)
      BY <1>1 DEF Buffers, Distinct
    <3>4. \A j \in DOMAIN bgThreadBuffers' :
            \E m \in DOMAIN bgThreadBuffers : m # i /\ bgThreadBuffers'[j] = bgThreadBuffers[m]
      BY <1>1, <3>1, <3>2, WithoutKeeps
    <3>5. \A m \in DOMAIN bgThreadBuffers :
            m # i => \E j \in DOMAIN bgThreadBuffers' : bgThreadBuffers'[j] = bgThreadBuffers[m]
      BY <1>1, <3>1, <3>2, WithoutKeeps
    <3>6. \A k \in DOMAIN bgThreadBuffers : bgThreadBuffers[k].tb = t <=> k = i
      BY <3>1, <3>3 DEF Distinct
    <3>7. \A j, k \in DOMAIN bgThreadBuffers' :
            bgThreadBuffers'[j].tb = bgThreadBuffers'[k].tb => j = k
      BY <1>1, <3>1, <3>2, <3>3, WithoutKeeps DEF Distinct
    <3>8. \A u \in Threads :
            (\E k \in DOMAIN bgThreadBuffers' : bgThreadBuffers'[k].tb = u)
              <=> u # t /\ \E k \in DOMAIN bgThreadBuffers : bgThreadBuffers[k].tb = u
      BY <3>1, <3>4, <3>5, <3>6
    <3>9. \A k \in DOMAIN threadBuffers : threadBuffers[k] # t
      BY <1>1, <3>1 DEF Buffers
    <3>10. \A u \in Threads \ {t} : Oldest(u)' = Oldest(u)
      BY <3>2 DEF Oldest
    <3>11. Fronts'
      BY <1>1, <3>4, <3>6, <3>10, NodesOfSequence DEF Buffers, Fronts
    <3>12. \A u \in Threads : threadBuffer'[u] \notin Held => queue'[u] = << >>
      BY <1>1, <3>1, <3>2 DEF Buffers
    <3>13. \A u \in Threads :
             threadBuffer'[u] \in {"shouldDeallocate", "deleted"} => tpc'[u] = "ended"
      BY <1>1, <2>2, <3>1, <3>2 DEF Buffers
    <3>14. \A u \in Threads :
             threadBuffer'[u] \in Held <=>
               \/ \E k \in DOMAIN bgThreadBuffers' : bgThreadBuffers'[k].tb = u
               \/ \E k \in DOMAIN threadBuffers' : threadBuffers'[k] = u
      BY <1>1, <3>1, <3>2, <3>8, <3>9 DEF Buffers, Held
    <3>15. \A j \in DOMAIN bgThreadBuffers', k \in DOMAIN threadBuffers' :
             bgThreadBuffers'[j].tb # threadBuffers'[k]
      BY <1>1, <3>2, <3>4 DEF Buffers
    <3>16. \A j, k \in DOMAIN threadBuffers' : threadBuffers'[j] = threadBuffers'[k] => j = k
      BY <1>1, <3>2 DEF Buffers
    <3> QED BY <3>7, <3>11, <3>12, <3>13, <3>14, <3>15, <3>16 DEF Buffers
  <2> QED BY <1>10, <2>1, <2>2 DEF Deallocate
<1>11. CASE Heapify
  <2>1. /\ bgThreadBuffers' = adjustHeap(i, bgThreadBuffers) /\ i \in DOMAIN bgThreadBuffers
        /\ UNCHANGED <<threadBuffers, threadBuffer, queue, tpc>>
    BY <1>11 DEF IInv, Shape, Heapify
  <2>2. Distinct(bgThreadBuffers)
    BY <1>1 DEF Buffers, Distinct
  <2>3. /\ Distinct(bgThreadBuffers')
        /\ \A k \in DOMAIN bgThreadBuffers' :
             \E j \in DOMAIN bgThreadBuffers : bgThreadBuffers'[k] = bgThreadBuffers[j]
        /\ \A j \in DOMAIN bgThreadBuffers :
             \E k \in DOMAIN bgThreadBuffers' : bgThreadBuffers'[k] = bgThreadBuffers[j]
    <3>1. /\ DOMAIN bgThreadBuffers' = DOMAIN bgThreadBuffers
          /\ Distinct(bgThreadBuffers')
      BY <1>1, <2>1, <2>2, AdjustKeeps
    <3>2. \A k \in DOMAIN bgThreadBuffers :
            \E j \in DOMAIN bgThreadBuffers : bgThreadBuffers'[k] = bgThreadBuffers[j]
      BY <1>1, <2>1, AdjustKeeps
    <3>3. \A j \in DOMAIN bgThreadBuffers :
            \E k \in DOMAIN bgThreadBuffers : bgThreadBuffers'[k] = bgThreadBuffers[j]
      BY <1>1, <2>1, AdjustKeeps
    <3> QED BY <3>1, <3>2, <3>3
  <2>4. Fronts'
    <3>1. \A j \in DOMAIN bgThreadBuffers :
            bgThreadBuffers[j].header \in {NoMsg, Oldest(bgThreadBuffers[j].tb)}
      BY <1>1 DEF Buffers, Fronts
    <3> QED BY <2>1, <2>3, <3>1 DEF Fronts, Oldest
  <2>5. \A u : (\E k \in DOMAIN bgThreadBuffers' : bgThreadBuffers'[k].tb = u)
                  <=> \E k \in DOMAIN bgThreadBuffers : bgThreadBuffers[k].tb = u
    BY <2>3
  <2>6. \A j \in DOMAIN bgThreadBuffers', k \in DOMAIN threadBuffers' :
          bgThreadBuffers'[j].tb # threadBuffers'[k]
    <3>1. \A j \in DOMAIN bgThreadBuffers, k \in DOMAIN threadBuffers :
            bgThreadBuffers[j].tb # threadBuffers[k]
      BY <1>1 DEF Buffers
    <3> QED BY <2>1, <2>5, <3>1
  <2>7. /\ \A j, k \in DOMAIN threadBuffers' : threadBuffers'[j] = threadBuffers'[k] => j = k
        /\ \A u \in Threads : threadBuffer'[u] \notin Held => queue'[u] = << >>
        /\ \A u \in Threads :
             threadBuffer'[u] \in {"shouldDeallocate", "deleted"} => tpc'[u] = "ended"
        /\ \A u \in Threads :
             threadBuffer'[u] \in Held <=>
               \/ \E k \in DOMAIN bgThreadBuffers' : bgThreadBuffers'[k].tb = u
               \/ \E k \in DOMAIN threadBuffers' : threadBuffers'[k] = u
    BY <1>1, <2>1, <2>5 DEF Buffers
  <2> QED BY <2>3, <2>4, <2>6, <2>7 DEF Buffers, Distinct
<1>14. CASE Handle
  <2>1. PICK t \in Threads : /\ 1 \in DOMAIN bgThreadBuffers /\ t = bgThreadBuffers[1].tb
                             /\ queue[t] \in Seq(AllMsgs) /\ queue[t] # << >>
    BY <1>14, RootNode
  <2>2. /\ bgThreadBuffers' =
             adjustHeap(1, [bgThreadBuffers EXCEPT ![1].header =
                              IF queue'[t] = << >> THEN NoMsg ELSE Head(queue'[t])])
        /\ queue' = [queue EXCEPT ![t] = Tail(@)]
        /\ UNCHANGED <<threadBuffers, threadBuffer, tpc>>
    BY <1>14, <2>1 DEF Handle
  <2>3. queue'[t] \in Seq(AllMsgs) /\ \A u \in Threads \ {t} : queue'[u] = queue[u]
    BY <1>1, <2>1, <2>2 DEF ThreadTypes
  <2>4. PICK next \in Headers : next = IF queue'[t] = << >> THEN NoMsg ELSE Head(queue'[t])
    BY <2>3 DEF Headers
  <2>5. PICK handed \in Seq(Nodes) :
             /\ DOMAIN handed = DOMAIN bgThreadBuffers
             /\ \A j \in DOMAIN bgThreadBuffers :
                  /\ handed[j].tb = bgThreadBuffers[j].tb
                  /\ handed[j].header = IF j = 1 THEN next ELSE bgThreadBuffers[j].header
             /\ bgThreadBuffers' = adjustHeap(1, handed)
    <3>1. bgThreadBuffers' = adjustHeap(1, [bgThreadBuffers EXCEPT ![1].header = next])
      BY <2>2, <2>4
    <3>2. /\ [bgThreadBuffers EXCEPT ![1].header = next] \in Seq(Nodes)
          /\ DOMAIN [bgThreadBuffers EXCEPT ![1].header = next] = DOMAIN bgThreadBuffers
          /\ \A j \in DOMAIN bgThreadBuffers :
               /\ [bgThreadBuffers EXCEPT ![1].header = next][j].tb = bgThreadBuffers[j].tb
               /\ [bgThreadBuffers EXCEPT ![1].header = next][j].header =
                    IF j = 1 THEN next ELSE bgThreadBuffers[j].header
      BY <1>1, <2>1, <2>4, NewHeader
    <3> QED BY <3>1, <3>2, Zenon
  <2>6. Distinct(bgThreadBuffers) /\ Distinct(handed)
    BY <1>1, <2>5 DEF Buffers, Distinct
  <2>7. /\ Distinct(bgThreadBuffers')
        /\ \A k \in DOMAIN bgThreadBuffers' :
             \E j \in DOMAIN handed : bgThreadBuffers'[k] = handed[j]
        /\ \A j \in DOMAIN handed :
             \E k \in DOMAIN bgThreadBuffers' : bgThreadBuffers'[k] = handed[j]
    <3>1. 1 \in DOMAIN handed
      BY <2>1, <2>5
    <3>2. DOMAIN bgThreadBuffers' = DOMAIN handed /\ Distinct(bgThreadBuffers')
      BY <2>5, <2>6, <3>1, AdjustKeeps
    <3>3. \A k \in DOMAIN handed : \E j \in DOMAIN handed : bgThreadBuffers'[k] = handed[j]
      BY <2>5, <3>1, AdjustKeeps
    <3>4. \A j \in DOMAIN handed : \E k \in DOMAIN handed : bgThreadBuffers'[k] = handed[j]
      BY <2>5, <3>1, AdjustKeeps
    <3> QED BY <3>2, <3>3, <3>4
  <2>8. \A j \in DOMAIN handed : handed[j].header \in {NoMsg, Oldest(handed[j].tb)'}
    <3>1. \A j \in DOMAIN handed : j # 1 => handed[j].tb \in Threads \ {t}
      BY <1>1, <2>1, <2>5, <2>6, NodesOfSequence DEF Distinct
    <3>2. \A u \in Threads \ {t} : Oldest(u)' = Oldest(u)
      BY <2>3 DEF Oldest
    <3>3. \A j \in DOMAIN handed : j # 1 => handed[j].header \in {NoMsg, Oldest(handed[j].tb)}
      BY <1>1, <2>5 DEF Buffers, Fronts
    <3>4. handed[1].tb = t /\ handed[1].header = Oldest(t)'
      BY <2>1, <2>4, <2>5 DEF Oldest
    <3> QED BY <3>1, <3>2, <3>3, <3>4
  <2>9. Fronts'
    BY <2>7, <2>8 DEF Fronts, Oldest
  <2>10. \A u \in Threads : threadBuffer'[u] \notin Held => queue'[u] = << >>
    <3>1. threadBuffer[t] \in Held
      BY <1>1, <2>1 DEF Buffers
    <3> QED BY <1>1, <2>2, <2>3, <3>1 DEF Buffers
  <2>11. \A u : (\E k \in DOMAIN bgThreadBuffers' : bgThreadBuffers'[k].tb = u)
                  <=> \E k \in DOMAIN bgThreadBuffers : bgThreadBuffers[k].tb = u
    BY <2>5, <2>7
  <2>12. \A j \in DOMAIN bgThreadBuffers', k \in DOMAIN threadBuffers' :
           bgThreadBuffers'[j].tb # threadBuffers'[k]
    <3>1. \A j \in DOMAIN bgThreadBuffers, k \in DOMAIN threadBuffers :
            bgThreadBuffers[j].tb # threadBuffers[k]
      BY <1>1 DEF Buffers
    <3>2. UNCHANGED threadBuffers
      BY <2>2
    <3>3. ASSUME NEW j \in DOMAIN bgThreadBuffers'
          PROVE  \E k \in DOMAIN bgThreadBuffers : bgThreadBuffers[k].tb = bgThreadBuffers'[j].tb
      BY <2>11
    <3> QED BY <3>1, <3>2, <3>3, Zenon
  <2>13. /\ \A j, k \in DOMAIN threadBuffers' : threadBuffers'[j] = threadBuffers'[k] => j = k
         /\ \A u \in Threads :
              threadBuffer'[u] \in {"shouldDeallocate", "deleted"} => tpc'[u] = "ended"
         /\ \A u \in Threads :
              threadBuffer'[u] \in Held <=>
                \/ \E k \in DOMAIN bgThreadBuffers' : bgThreadBuffers'[k].tb = u
                \/ \E k \in DOMAIN threadBuffers' : threadBuffers'[k] = u
    BY <1>1, <2>2, <2>11 DEF Buffers
  <2> QED BY <2>7, <2>9, <2>10, <2>12, <2>13 DEF Buffers, Distinct
<1> QED BY <1>4, <1>5, <1>6, <1>7, <1>8, <1>9, <1>10, <1>11, <1>12, <1>13, <1>14
        DEF Next, Thread, Poll

-----------------------------------------------------------------------------
(* The heap                                                                *)

(* Building the heap from its end and handling at its root keep the order. *)
LEMMA ShapeStep ==
  ASSUME IInv, [Next]_vars
  PROVE  Shape'
<1>1. /\ bgThreadBuffers \in Seq(Nodes) /\ bgThreadBuffers' \in Seq(Nodes)
      /\ i \in Nat \ {0} /\ Shape
  BY TypeParts, PollTypesStep DEF IInv, PollTypes, Nodes, Headers
<1>2. CASE UNCHANGED pollVars
  BY <1>1, <1>2 DEF Shape, pollVars
<1>3. CASE ppc' = "front" \/ (ppc' \in {"idle", "infos", "buffers"} /\ i' = 1)
  BY <1>3 DEF Shape
<1>4. CASE Front
  <2>1. CASE ppc' = "dealloc"
    <3>1. /\ i \in DOMAIN bgThreadBuffers /\ i' = i
          /\ bgThreadBuffers' = [bgThreadBuffers EXCEPT ![i].header = NoMsg]
      BY <1>4, <2>1 DEF Front
    <3> DEFINE looked == [bgThreadBuffers EXCEPT ![i].header = NoMsg]
    <3>2. NoMsg \in Headers
      BY DEF Headers
    <3>3. /\ DOMAIN looked = DOMAIN bgThreadBuffers
          /\ \A j \in DOMAIN bgThreadBuffers :
               looked[j].header = IF j = i THEN NoMsg ELSE bgThreadBuffers[j].header
      BY <1>1, <3>1, <3>2, NewHeader
    <3> HIDE DEF looked
    <3>4. bgThreadBuffers' = looked
      BY <3>1 DEF looked
    <3>5. i \in DOMAIN bgThreadBuffers' /\ bgThreadBuffers'[i].header = NoMsg
      BY <3>1, <3>3, <3>4
    <3> QED BY <2>1, <3>1, <3>5 DEF Shape
  <2> QED BY <1>3, <1>4, <2>1 DEF Front
<1>5. CASE BuildHeap
  <2> DEFINE n == Len(bgThreadBuffers)
  <2>1. /\ bgThreadBuffers' = bgThreadBuffers /\ i' = 1 + n \div 2 /\ ppc' = "heap"
        /\ n \in Nat \ {0} /\ DOMAIN bgThreadBuffers = 1 .. n
    BY <1>1, <1>5, NodesOfSequence DEF BuildHeap
  <2> HIDE DEF n
  <2>2. i' \in 1 .. n
    BY <2>1
  <2>3. \A k \in 1 .. n : k >= i' + 1 => Children(k, bgThreadBuffers) = {}
    <3>1. \A k \in 1 .. n : k >= 1 + n \div 2 + 1 => 2 * k > n
      BY <2>1
    <3> QED BY <2>1, <3>1 DEF Children
  <2> QED BY <2>1, <2>2, <2>3 DEF Shape, HeapFrom
<1>6. CASE Heapify
  <2>1. /\ i \in DOMAIN bgThreadBuffers /\ HeapFrom(i + 1, bgThreadBuffers)
        /\ bgThreadBuffers' = adjustHeap(i, bgThreadBuffers)
    BY <1>1, <1>6 DEF Shape, Heapify
  <2>2. HeapFrom(i, bgThreadBuffers') /\ DOMAIN bgThreadBuffers' = DOMAIN bgThreadBuffers
    BY <1>1, <2>1, AdjustOrders, AdjustType
  <2>3. CASE i = 1
    <3>1. ppc' = "handle" /\ bgThreadBuffers' # << >>
      BY <1>1, <1>6, <2>1, <2>2, <2>3 DEF Heapify
    <3> QED BY <2>2, <2>3, <3>1 DEF Shape
  <2>4. CASE i # 1
    <3>1. i' = i - 1 /\ ppc' = "heap"
      BY <1>6, <2>4 DEF Heapify
    <3>2. i' \in DOMAIN bgThreadBuffers' /\ i' + 1 = i
      BY <1>1, <2>1, <2>2, <2>4, <3>1, NodesOfSequence
    <3> QED BY <2>2, <3>1, <3>2 DEF Shape
  <2> QED BY <2>3, <2>4
<1>7. CASE Handle
  <2>1. PICK t \in Threads : /\ 1 \in DOMAIN bgThreadBuffers /\ t = bgThreadBuffers[1].tb
                             /\ queue[t] \in Seq(AllMsgs) /\ queue[t] # << >>
    BY <1>7, RootNode
  <2>2. /\ ppc = "handle" /\ ppc' = "handle" /\ i' = i
        /\ bgThreadBuffers' =
             adjustHeap(1, [bgThreadBuffers EXCEPT ![1].header =
                              IF queue'[t] = << >> THEN NoMsg ELSE Head(queue'[t])])
        /\ queue' = [queue EXCEPT ![t] = Tail(@)]
    BY <1>7, <2>1 DEF Handle
  <2>3. queue'[t] \in Seq(AllMsgs)
    BY <2>1, <2>2, TypeParts DEF IInv, ThreadTypes
  <2>4. PICK next \in Headers : next = IF queue'[t] = << >> THEN NoMsg ELSE Head(queue'[t])
    BY <2>3 DEF Headers
  <2>5. PICK handed \in Seq(Nodes) :
             /\ DOMAIN handed = DOMAIN bgThreadBuffers
             /\ \A j \in DOMAIN bgThreadBuffers :
                  j # 1 => handed[j].header = bgThreadBuffers[j].header
             /\ bgThreadBuffers' = adjustHeap(1, handed)
    <3>1. bgThreadBuffers' = adjustHeap(1, [bgThreadBuffers EXCEPT ![1].header = next])
      BY <2>2, <2>4
    <3>2. /\ [bgThreadBuffers EXCEPT ![1].header = next] \in Seq(Nodes)
          /\ DOMAIN [bgThreadBuffers EXCEPT ![1].header = next] = DOMAIN bgThreadBuffers
          /\ \A j \in DOMAIN bgThreadBuffers :
               j # 1 => [bgThreadBuffers EXCEPT ![1].header = next][j].header = bgThreadBuffers[j].header
      BY <1>1, <2>1, <2>4, NewHeader
    <3> QED BY <3>1, <3>2, Zenon
  <2>6. HeapFrom(1, bgThreadBuffers)
    BY <1>1, <2>2 DEF Shape
  <2>7. HeapFrom(1 + 1, handed)
    <3> SUFFICES ASSUME NEW k \in DOMAIN handed, k >= 1 + 1, NEW c \in Children(k, handed)
                 PROVE  ~ Earlier(handed[c].header, handed[k].header)
      BY DEF HeapFrom
    <3>1. k \in Nat /\ k \in DOMAIN bgThreadBuffers /\ c \in Children(k, bgThreadBuffers)
      BY <2>5, NodesOfSequence DEF Children
    <3>2. c \in DOMAIN bgThreadBuffers /\ c # 1 /\ k # 1
      BY <3>1 DEF Children
    <3>3. ~ Earlier(bgThreadBuffers[c].header, bgThreadBuffers[k].header)
      BY <2>6, <3>1 DEF HeapFrom
    <3> QED BY <2>5, <3>1, <3>2, <3>3
  <2>8. 1 \in DOMAIN handed
    BY <2>1, <2>5
  <2>9. HeapFrom(1, bgThreadBuffers') /\ DOMAIN bgThreadBuffers' = DOMAIN handed
    BY <2>5, <2>7, <2>8, AdjustOrders, AdjustType
  <2>10. bgThreadBuffers' # << >>
    BY <2>8, <2>9
  <2> QED BY <2>2, <2>9, <2>10 DEF Shape
<1>8. CASE PollBegin \/ TakeLogInfos \/ TakeThreadBuffers \/ Deallocate \/ NoBuffers
              \/ \E forceFlush \in BOOLEAN : PollEnd(forceFlush)
  BY <1>1, <1>3, <1>8 DEF Shape, PollBegin, TakeLogInfos, TakeThreadBuffers, Deallocate,
                    NoBuffers, PollEnd, PollReturns
<1>9. CASE Elapse \/ Sink \/ UNCHANGED vars
  BY <1>2, <1>9 DEF Elapse, Sink, CloseOutput, CloseLogFile, SetLogFile, SetStdout, vars
<1>10. ASSUME NEW t \in Threads, Thread(t) PROVE Shape'
  BY <1>2, <1>10 DEF Thread, Preallocate, Log, LogOnce, RegisterLogInfo, InsertLogInfo, Push,
                     ThreadEnds
<1> QED BY <1>4, <1>5, <1>6, <1>7, <1>8, <1>9, <1>10 DEF Next, Poll

-----------------------------------------------------------------------------
(* The ids of statements                                                   *)

(* Ids stay unique while threads number statements and poll moves the list. *)
LEMMA NumbersStep ==
  ASSUME IInv, [Next]_vars
  PROVE  Numbers'
<1> USE DEF Numbers
<1> DEFINE total == Len(bgLogInfos) + Len(logInfos)
<1>1. ThreadTypes /\ PollTypes /\ ThreadTypes' /\ PollTypes' /\ Numbers /\ Times
  BY TypeParts, ThreadTypesStep, PollTypesStep DEF IInv
<1>2. /\ bgLogInfos \in Seq(Statements \cup {Once}) /\ logInfos \in Seq(Statements)
      /\ Len(bgLogInfos) \in Nat /\ Len(logInfos) \in Nat /\ total \in Nat
      /\ DOMAIN bgLogInfos = 1 .. Len(bgLogInfos) /\ DOMAIN logInfos = 1 .. Len(logInfos)
  BY <1>1 DEF ThreadTypes, PollTypes
<1>3. /\ \A t \in Threads : Writing(t) => msg[t].logId \in Nat /\ msg[t].stmt \in Statements \cup {Once}
      /\ \A t \in Threads : \A k \in DOMAIN queue[t] :
           queue[t][k].logId \in Nat /\ queue[t][k].stmt \in Statements \cup {Once}
  <2>1. \A t \in Threads : \A k \in DOMAIN queue[t] : queue[t][k] \in AllMsgs
    BY <1>1 DEF ThreadTypes
  <2> QED BY <1>1, <2>1, Messages DEF Times, Written
<1>4. CASE UNCHANGED <<bgLogInfos, logInfos, tpc, msg, logId, queue>>
  BY <1>1, <1>4 DEF Inserting, Ids, Carried, Numbered, Places, HasId
<1>5. ASSUME NEW t \in Threads, NEW s \in Statements, Log(t, s) PROVE Numbers'
  <2>1. /\ tpc[t] = "idle" /\ tpc'[t] \in {"register", "push"} /\ (tpc'[t] = "push" => logId[s] # 0)
        /\ msg'[t].logId = logId[s] /\ msg'[t].stmt = s
        /\ \A u \in Threads \ {t} : tpc'[u] = tpc[u] /\ msg'[u] = msg[u]
        /\ UNCHANGED <<bgLogInfos, logInfos, logId, queue>>
    BY <1>1, <1>5 DEF Log, ThreadTypes, sharedVars, pollVars
  <2>2. Places' = Places
    <3>1. \A u \in Threads : tpc[u] = "insert" <=> tpc'[u] = "insert"
      BY <2>1
    <3>2. \A u \in Threads : tpc[u] = "insert" => msg'[u] = msg[u]
      BY <2>1
    <3> QED BY <2>1, <3>1, <3>2 DEF Places, HasId
  <2>3. Inserting'
    BY <1>1, <2>1 DEF Inserting
  <2>4. Ids'
    BY <1>1, <2>1, <2>2 DEF Ids
  <2>5. tpc'[t] = "push" => Numbered(msg[t])'
    BY <1>1, <2>1, <2>2, Messages DEF Ids, Numbered
  <2>6. Carried'
    BY <1>1, <2>1, <2>2, <2>5 DEF Carried, Numbered
  <2> QED BY <2>3, <2>4, <2>6
<1>6. ASSUME NEW t \in Threads, LogOnce(t) PROVE Numbers'
  <2>1. /\ tpc[t] = "idle" /\ tpc'[t] = "push"
        /\ msg'[t].logId = 1 /\ msg'[t].stmt = Once
        /\ \A u \in Threads \ {t} : tpc'[u] = tpc[u] /\ msg'[u] = msg[u]
        /\ UNCHANGED <<bgLogInfos, logInfos, logId, queue>>
    BY <1>1, <1>6 DEF LogOnce, ThreadTypes, sharedVars, pollVars
  <2>2. Places' = Places
    <3>1. \A u \in Threads : tpc[u] = "insert" <=> tpc'[u] = "insert"
      BY <2>1
    <3>2. \A u \in Threads : tpc[u] = "insert" => msg'[u] = msg[u]
      BY <2>1
    <3> QED BY <2>1, <3>1, <3>2 DEF Places, HasId
  <2>3. Inserting'
    BY <1>1, <2>1 DEF Inserting
  <2>4. Ids'
    BY <1>1, <2>1, <2>2 DEF Ids
  <2>5. <<Once, 1>> \in Places
    <3>1. 1 < Len(bgLogInfos) /\ bgLogInfos[1 + 1] = Once
      BY <1>1, <1>2 DEF Ids
    <3> QED BY <3>1 DEF Places, HasId
  <2>6. Carried'
    BY <1>1, <2>1, <2>2, <2>5 DEF Carried, Numbered
  <2> QED BY <2>3, <2>4, <2>6
<1>7. ASSUME NEW t \in Threads, RegisterLogInfo(t) PROVE Numbers'
  <2> DEFINE s == msg[t].stmt
  <2>1. /\ tpc[t] = "register" /\ s \in Statements /\ \A u \in Threads : tpc[u] # "insert"
        /\ s # Once
    BY <1>1, <1>7, Messages DEF Inserting, RegisterLogInfo, logInfoMutexFree
  <2>2. /\ UNCHANGED <<bgLogInfos, logInfos, queue>>
        /\ \A u \in Threads \ {t} : tpc'[u] = tpc[u] /\ msg'[u] = msg[u]
        /\ msg'[t].stmt = s
    <3>1. msg[t] \in AllMsgs
      BY <1>1, <2>1 DEF Times, Written, Writing
    <3>2. \A id : [msg[t] EXCEPT !.logId = id].stmt = msg[t].stmt
      BY <3>1 DEF AllMsgs
    <3>3. PICK id : msg' = [msg EXCEPT ![t].logId = id]
      BY <1>7 DEF RegisterLogInfo
    <3>4. msg'[t] = [msg[t] EXCEPT !.logId = id] /\ \A u \in Threads \ {t} : msg'[u] = msg[u]
      BY <1>1, <3>3 DEF ThreadTypes
    <3>5. /\ UNCHANGED <<bgLogInfos, logInfos, queue>>
          /\ \A u \in Threads \ {t} : tpc'[u] = tpc[u]
      BY <1>1, <1>7 DEF RegisterLogInfo, ThreadTypes, sharedVars, pollVars
    <3> QED BY <3>2, <3>4, <3>5
  <2>3. CASE logId[s] # 0
    <3>1. /\ tpc'[t] = "push" /\ msg'[t].logId = logId[s] /\ logId' = logId
      <4>1. "logId" \in DOMAIN msg[t]
        BY <1>1, <2>1 DEF Times, Written, Writing, AllMsgs
      <4> QED BY <1>1, <1>7, <2>3, <4>1 DEF RegisterLogInfo, ThreadTypes
    <3>2. Places' = Places
      <4>1. \A u \in Threads : tpc[u] # "insert" /\ tpc'[u] # "insert"
        BY <2>1, <2>2, <3>1
      <4> QED BY <2>2, <4>1 DEF Places, HasId
    <3>3. Inserting'
      BY <1>1, <2>1, <2>2, <3>1 DEF Inserting
    <3>4. Ids'
      BY <1>1, <2>2, <3>1, <3>2 DEF Ids
    <3>5. <<s, logId[s]>> \in Places
      BY <1>1, <2>1, <2>3 DEF Ids
    <3>6. Carried'
      BY <1>1, <2>1, <2>2, <3>1, <3>2, <3>5 DEF Carried, Numbered
    <3> QED BY <3>3, <3>4, <3>6
  <2>4. CASE logId[s] = 0
    <3>1. /\ tpc'[t] = "insert" /\ msg'[t].logId = total
          /\ logId' = [logId EXCEPT ![s] = total]
      <4>1. "logId" \in DOMAIN msg[t]
        BY <1>1, <2>1 DEF Times, Written, Writing, AllMsgs
      <4> QED BY <1>1, <1>2, <1>7, <2>4, <4>1 DEF RegisterLogInfo, ThreadTypes
    <3>2. total # 0 /\ total \in Nat
      BY <1>1, <1>2 DEF Ids
    <3>3. \A id \in Nat : <<s, id>> \notin Places
      <4> SUFFICES ASSUME NEW id \in Nat, <<s, id>> \in Places PROVE FALSE
        OBVIOUS
      <4>1. id = 0 /\ HasId(s, id)
        BY <1>1, <2>1, <2>4 DEF Ids, Places
      <4>2. bgLogInfos[1] = Once /\ Len(bgLogInfos) >= 4
        BY <1>1, <1>2 DEF Ids
      <4> QED BY <1>2, <2>1, <4>1, <4>2 DEF HasId
    <3>4. Places' = Places \cup {<<s, total>>}
      <4>1. \A u \in Threads : tpc[u] # "insert"
        BY <2>1
      <4>2. \A u \in Threads : tpc'[u] = "insert" <=> u = t
        BY <2>1, <2>2, <3>1
      <4>3. ASSUME NEW r, NEW id
            PROVE  HasId(r, id)' <=> (HasId(r, id) \/ (r = s /\ id = total))
        <5>1. (\E u \in Threads : tpc'[u] = "insert" /\ msg'[u].stmt = r) <=> r = s
          BY <2>2, <4>2
        <5>2. ~ \E u \in Threads : tpc[u] = "insert" /\ msg[u].stmt = r
          BY <4>1
        <5> QED BY <2>2, <5>1, <5>2 DEF HasId
      <4>4. \A p \in (Statements \cup {Once}) \X Nat :
              p \in Places' <=> (p \in Places \/ p = <<s, total>>)
        BY <4>3 DEF Places
      <4>5. <<s, total>> \in (Statements \cup {Once}) \X Nat
        BY <2>1, <3>2
      <4> QED BY <4>4, <4>5 DEF Places
    <3> HIDE DEF total
    <3>5. Inserting'
      BY <1>1, <2>1, <2>2, <3>1 DEF Inserting, total
    <3>6. logId'[s] = total /\ \A r \in Statements \ {s} : logId'[r] = logId[r]
      BY <1>1, <2>1, <3>1 DEF ThreadTypes
    <3>7. Ids'
      BY <1>1, <2>1, <2>2, <3>2, <3>3, <3>4, <3>6 DEF Ids
    <3>8. Carried'
      BY <1>1, <2>1, <2>2, <3>1, <3>4 DEF Carried, Numbered
    <3> QED BY <3>5, <3>7, <3>8
  <2> QED BY <2>3, <2>4
<1>8. ASSUME NEW t \in Threads, InsertLogInfo(t) PROVE Numbers'
  <2>1. PICK s \in Statements : s = msg[t].stmt /\ tpc[t] = "insert" /\ msg[t].logId = total
    BY <1>1, <1>8 DEF Inserting, InsertLogInfo
  <2>2. /\ logInfos' = Append(logInfos, s) /\ tpc'[t] = "push"
        /\ \A u \in Threads \ {t} : tpc'[u] = tpc[u]
        /\ UNCHANGED <<bgLogInfos, msg, logId, queue>>
    BY <1>1, <1>8, <2>1 DEF InsertLogInfo, ThreadTypes, pollVars
  <2>3. \A u \in Threads : (tpc[u] = "insert" <=> u = t) /\ tpc'[u] # "insert"
    BY <1>1, <2>1, <2>2 DEF Inserting
  <2>4. /\ Len(logInfos') = Len(logInfos) + 1
        /\ DOMAIN logInfos' = 1 .. Len(logInfos) + 1
        /\ \A k \in 1 .. Len(logInfos) : logInfos'[k] = logInfos[k]
        /\ logInfos'[Len(logInfos) + 1] = s
    BY <1>2, <2>2
  <2>5. Places' = Places
    <3>1. ASSUME NEW r, NEW id \in Nat
          PROVE  HasId(r, id)' <=> HasId(r, id)
      <4>1. (\E u \in Threads : tpc[u] = "insert" /\ msg[u].stmt = r) <=> r = s
        BY <2>1, <2>3
      <4>2. ~ \E u \in Threads : tpc'[u] = "insert" /\ msg'[u].stmt = r
        BY <2>3
      <4>3. (\E k \in DOMAIN logInfos' : id + 1 = Len(bgLogInfos) + k /\ logInfos'[k] = r)
              <=> \/ \E k \in DOMAIN logInfos : id + 1 = Len(bgLogInfos) + k /\ logInfos[k] = r
                  \/ id = total /\ s = r
        <5>1. ASSUME NEW k \in 1 .. Len(logInfos) + 1, id + 1 = Len(bgLogInfos) + k, logInfos'[k] = r
              PROVE  \/ \E l \in DOMAIN logInfos : id + 1 = Len(bgLogInfos) + l /\ logInfos[l] = r
                     \/ id = total /\ s = r
          <6>1. CASE k = Len(logInfos) + 1
            BY <1>2, <2>4, <5>1, <6>1
          <6>2. CASE k # Len(logInfos) + 1
            <7>1. k \in DOMAIN logInfos /\ logInfos[k] = r
              BY <1>2, <2>4, <5>1, <6>2
            <7> QED BY <5>1, <7>1
          <6> QED BY <6>1, <6>2
        <5>2. ASSUME NEW k \in DOMAIN logInfos, id + 1 = Len(bgLogInfos) + k, logInfos[k] = r
              PROVE  \E l \in DOMAIN logInfos' : id + 1 = Len(bgLogInfos) + l /\ logInfos'[l] = r
          BY <1>2, <2>4, <5>2
        <5>3. ASSUME id = total, s = r
              PROVE  \E l \in DOMAIN logInfos' : id + 1 = Len(bgLogInfos) + l /\ logInfos'[l] = r
          <6>1. Len(logInfos) + 1 \in DOMAIN logInfos' /\ id + 1 = Len(bgLogInfos) + (Len(logInfos) + 1)
            BY <1>2, <2>4, <5>3
          <6> QED BY <2>4, <5>3, <6>1
        <5> QED BY <2>4, <5>1, <5>2, <5>3
      <4> QED BY <2>2, <4>1, <4>2, <4>3 DEF HasId
    <3> QED BY <3>1 DEF Places
  <2>6. Inserting'
    BY <1>1, <2>2, <2>3 DEF Inserting
  <2>7. Ids'
    BY <1>1, <2>2, <2>5 DEF Ids
  <2>8. Carried'
    BY <1>1, <2>1, <2>2, <2>5 DEF Carried, Numbered
  <2> QED BY <2>6, <2>7, <2>8
<1>9. ASSUME NEW t \in Threads, tpc[t] # "insert", tpc'[t] \in {"idle", "ended"},
             \A u \in Threads \ {t} : tpc'[u] = tpc[u] /\ msg'[u] = msg[u],
             UNCHANGED <<bgLogInfos, logInfos, logId>>
      PROVE  Places' = Places /\ Inserting' /\ Ids'
  <2>1. Places' = Places
    <3>1. \A u \in Threads : tpc[u] = "insert" <=> tpc'[u] = "insert"
      BY <1>9
    <3>2. \A u \in Threads : tpc[u] = "insert" => msg'[u] = msg[u]
      BY <1>9
    <3> QED BY <1>9, <3>1, <3>2 DEF Places, HasId
  <2>2. Inserting'
    BY <1>1, <1>9 DEF Inserting
  <2>3. Ids'
    BY <1>1, <1>9, <2>1 DEF Ids
  <2> QED BY <2>1, <2>2, <2>3
<1>10. ASSUME NEW t \in Threads, Push(t) PROVE Numbers'
  <2>1. /\ tpc[t] = "push" /\ tpc'[t] = "idle"
        /\ \A u \in Threads \ {t} : tpc'[u] = tpc[u] /\ msg'[u] = msg[u]
        /\ UNCHANGED <<bgLogInfos, logInfos, logId>>
        /\ \A u \in Threads \ {t} : queue'[u] = queue[u]
        /\ queue'[t] = queue[t] \/ queue'[t] = Append(queue[t], msg[t])
    BY <1>1, <1>10 DEF Push, ThreadTypes, sharedVars, pollVars
  <2>2. Places' = Places /\ Inserting' /\ Ids'
    BY <1>9, <2>1
  <2>3. \A k \in DOMAIN queue'[t] : queue'[t][k] = msg[t] \/ (k \in DOMAIN queue[t] /\ queue'[t][k] = queue[t][k])
    <3>1. queue[t] \in Seq(AllMsgs)
      BY <1>1 DEF ThreadTypes
    <3> QED BY <2>1, <3>1
  <2>4. Numbered(msg[t])
    BY <1>1, <2>1 DEF Carried
  <2>5. \A u \in Threads : \A k \in DOMAIN queue'[u] : Numbered(queue'[u][k])
    BY <1>1, <2>1, <2>3, <2>4 DEF Carried
  <2>6. Carried'
    BY <1>1, <2>1, <2>2, <2>5 DEF Carried, Numbered
  <2> QED BY <2>2, <2>6
<1>11. ASSUME NEW t \in Threads, ThreadEnds(t) PROVE Numbers'
  <2>1. /\ tpc[t] = "idle" /\ tpc'[t] = "ended"
        /\ \A u \in Threads \ {t} : tpc'[u] = tpc[u] /\ msg'[u] = msg[u]
        /\ UNCHANGED <<bgLogInfos, logInfos, logId, msg, queue>>
    BY <1>1, <1>11 DEF ThreadEnds, ThreadTypes, sharedVars, pollVars
  <2>2. Places' = Places /\ Inserting' /\ Ids'
    BY <1>9, <2>1
  <2>3. Carried'
    BY <1>1, <2>1, <2>2 DEF Carried, Numbered
  <2> QED BY <2>2, <2>3
<1>12. CASE TakeLogInfos
  <2>1. /\ bgLogInfos' = bgLogInfos \o logInfos /\ logInfos' = << >>
        /\ UNCHANGED <<tpc, msg, logId, queue>>
        /\ (logInfos # << >> => \A t \in Threads : tpc[t] # "insert")
    BY <1>12 DEF TakeLogInfos, logInfoMutexFree, threadVars
  <2>2. /\ Len(bgLogInfos') = Len(bgLogInfos) + Len(logInfos)
        /\ DOMAIN bgLogInfos' = 1 .. Len(bgLogInfos) + Len(logInfos)
        /\ DOMAIN logInfos' = {} /\ Len(logInfos') = 0
        /\ \A k \in 1 .. Len(bgLogInfos) : bgLogInfos'[k] = bgLogInfos[k]
        /\ \A k \in 1 .. Len(logInfos) : bgLogInfos'[Len(bgLogInfos) + k] = logInfos[k]
    <3>1. logInfos \in Seq(Statements \cup {Once})
      BY <1>2
    <3> QED BY <1>2, <2>1, <3>1, Concatenated
  <2>3. \A t \in Threads : tpc[t] = "insert" => Len(logInfos) = 0
    BY <1>2, <2>1
  <2>4. Places' = Places
    <3> SUFFICES ASSUME NEW r, NEW id \in Nat PROVE HasId(r, id)' <=> HasId(r, id)
      BY DEF Places
    <3>1. (id < total /\ bgLogInfos'[id + 1] = r)
            <=> \/ id < Len(bgLogInfos) /\ bgLogInfos[id + 1] = r
                \/ \E k \in DOMAIN logInfos : id + 1 = Len(bgLogInfos) + k /\ logInfos[k] = r
      <4>1. CASE id < Len(bgLogInfos)
        BY <1>2, <2>2, <4>1
      <4>2. CASE id >= Len(bgLogInfos)
        <5>1. PICK j \in Int : j = id + 1 - Len(bgLogInfos)
          <6>1. id + 1 - Len(bgLogInfos) \in Int
            BY <1>2
          <6> QED BY <6>1
        <5>2. /\ id < total <=> j \in DOMAIN logInfos
              /\ id + 1 = Len(bgLogInfos) + j /\ ~ (id < Len(bgLogInfos))
              /\ \A k \in DOMAIN logInfos : id + 1 = Len(bgLogInfos) + k <=> k = j
          BY <1>2, <4>2, <5>1
        <5>3. j \in DOMAIN logInfos => bgLogInfos'[id + 1] = logInfos[j]
          BY <1>2, <2>2, <5>2
        <5> HIDE DEF total
        <5> QED BY <5>2, <5>3
      <4> QED BY <1>2, <4>1, <4>2
    <3>2. (id = total + 0 /\ \E t \in Threads : tpc[t] = "insert" /\ msg[t].stmt = r)
            <=> (id = total /\ \E t \in Threads : tpc[t] = "insert" /\ msg[t].stmt = r)
      BY <1>2
    <3> QED BY <2>1, <2>2, <3>1, <3>2 DEF HasId
  <2>5. Inserting'
    BY <1>1, <1>2, <2>1, <2>2 DEF Inserting
  <2>6. \A k \in DOMAIN bgLogInfos' :
          IF k <= 4 THEN bgLogInfos'[k] = Once ELSE bgLogInfos'[k] \in Statements
    <3> SUFFICES ASSUME NEW k \in 1 .. total
                 PROVE  IF k <= 4 THEN bgLogInfos'[k] = Once ELSE bgLogInfos'[k] \in Statements
      BY <2>2
    <3>1. CASE k <= Len(bgLogInfos)
      <4>1. k \in DOMAIN bgLogInfos /\ bgLogInfos'[k] = bgLogInfos[k]
        BY <1>2, <2>2, <3>1
      <4> QED BY <1>1, <4>1 DEF Ids
    <3>2. CASE k > Len(bgLogInfos)
      <4>1. k - Len(bgLogInfos) \in 1 .. Len(logInfos) /\ k = Len(bgLogInfos) + (k - Len(bgLogInfos))
        BY <1>2, <3>2
      <4>2. bgLogInfos'[k] = logInfos[k - Len(bgLogInfos)]
        BY <2>2, <4>1
      <4>3. bgLogInfos'[k] \in Statements
        BY <1>2, <4>1, <4>2
      <4>4. k > 4
        BY <1>1, <1>2, <3>2 DEF Ids
      <4> QED BY <4>3, <4>4
    <3> QED BY <1>2, <3>1, <3>2
  <2>7. Ids'
    BY <1>1, <1>2, <2>1, <2>2, <2>4, <2>6 DEF Ids
  <2>8. Carried'
    BY <1>1, <2>1, <2>4 DEF Carried, Numbered
  <2> QED BY <2>5, <2>7, <2>8
<1>13. ASSUME NEW t \in Threads, UNCHANGED <<bgLogInfos, logInfos, tpc, msg, logId>>,
              queue'[t] \in {<< >>, Tail(queue[t])}, queue[t] # << >> \/ queue'[t] = << >>,
              \A u \in Threads \ {t} : queue'[u] = queue[u]
       PROVE  Numbers'
  <2>1. Places' = Places
    BY <1>13 DEF Places, HasId
  <2>2. Inserting' /\ Ids'
    BY <1>1, <1>13, <2>1 DEF Inserting, Ids
  <2>3. \A k \in DOMAIN queue'[t] : \E j \in DOMAIN queue[t] : queue'[t][k] = queue[t][j]
    <3>1. queue[t] \in Seq(AllMsgs)
      BY <1>1 DEF ThreadTypes
    <3>2. CASE queue'[t] = << >>
      BY <3>2
    <3>3. CASE queue'[t] = Tail(queue[t]) /\ queue[t] # << >>
      <4>1. \A k \in DOMAIN queue'[t] : k + 1 \in DOMAIN queue[t] /\ queue'[t][k] = queue[t][k + 1]
        BY <3>1, <3>3
      <4> QED BY <4>1
    <3> QED BY <1>13, <3>2, <3>3
  <2>4. \A u \in Threads : \A k \in DOMAIN queue'[u] : Numbered(queue'[u][k])
    BY <1>1, <1>13, <2>3 DEF Carried
  <2>5. Carried'
    BY <1>1, <1>13, <2>1, <2>4 DEF Carried, Numbered
  <2> QED BY <2>2, <2>5
<1>14. CASE Deallocate
  <2>1. CASE UNCHANGED queue
    BY <1>4, <1>14, <2>1 DEF Deallocate, sharedVars
  <2>2. CASE queue' # queue
    <3>1. bgThreadBuffers[i].tb \in Threads
      BY <1>1, <1>14, NodesOfSequence DEF IInv, Shape, Deallocate, PollTypes, Nodes, Headers
    <3>2. /\ queue' = [queue EXCEPT ![bgThreadBuffers[i].tb] = << >>]
          /\ UNCHANGED <<bgLogInfos, logInfos, tpc, msg, logId>>
      BY <1>14, <2>2 DEF Deallocate, sharedVars
    <3>3. queue'[bgThreadBuffers[i].tb] = << >>
          /\ \A u \in Threads \ {bgThreadBuffers[i].tb} : queue'[u] = queue[u]
      BY <1>1, <3>1, <3>2 DEF ThreadTypes
    <3> QED BY <1>13, <3>1, <3>2, <3>3
  <2> QED BY <2>1, <2>2
<1>15. CASE Handle
  <2>1. PICK t \in Threads : t = bgThreadBuffers[1].tb /\ queue[t] # << >>
    BY <1>15, RootNode
  <2>2. queue' = [queue EXCEPT ![t] = Tail(@)] /\ UNCHANGED <<bgLogInfos, logInfos, tpc, msg, logId>>
    BY <1>15, <2>1 DEF Handle, sharedVars
  <2>3. queue'[t] = Tail(queue[t]) /\ \A u \in Threads \ {t} : queue'[u] = queue[u]
    BY <1>1, <2>2 DEF ThreadTypes
  <2> QED BY <1>13, <2>1, <2>2, <2>3
<1>16. CASE PollBegin \/ TakeThreadBuffers \/ Front \/ BuildHeap \/ Heapify \/ NoBuffers
               \/ \E forceFlush \in BOOLEAN : PollEnd(forceFlush)
  BY <1>4, <1>16 DEF PollBegin, TakeThreadBuffers, Front, BuildHeap, Heapify, NoBuffers, PollEnd,
                     PollReturns, threadVars, sharedVars
<1>17. CASE Elapse \/ Sink \/ UNCHANGED vars
  BY <1>4, <1>17 DEF Elapse, Sink, CloseOutput, CloseLogFile, SetLogFile, SetStdout, vars, threadVars,
                     sharedVars, pollVars
<1>18. ASSUME NEW t \in Threads, Preallocate(t) PROVE Numbers'
  BY <1>4, <1>18 DEF Preallocate, pollVars
<1> QED BY <1>5, <1>6, <1>7, <1>8, <1>10, <1>11, <1>12, <1>14, <1>15, <1>16, <1>17, <1>18
        DEF Next, Thread, Poll

-----------------------------------------------------------------------------
(* Time stamps                                                             *)

(* Time stamps stay unique and ordered.                                    *)
LEMMA TimesStep ==
  ASSUME IInv, [Next]_vars
  PROVE  Times'
<1> USE DEF Times
<1>1. ThreadTypes /\ PollTypes /\ ThreadTypes' /\ Times /\ now \in Nat
  BY TypeParts, ThreadTypesStep, CollectorAssumption DEF IInv, ThreadTypes
<1>2. /\ \A t \in Threads : queue[t] \in Seq(AllMsgs)
      /\ \A t \in Threads : \A k \in DOMAIN queue[t] : queue[t][k].tsc \in Nat /\ k \in Nat
      /\ \A m \in waiting : m.tsc \in Nat
      /\ \A t \in Threads : Writing(t) => msg[t].tsc \in Nat
  <2>1. \A t \in Threads : \A k \in DOMAIN queue[t] : queue[t][k] \in AllMsgs /\ k \in Nat
    BY <1>1 DEF ThreadTypes
  <2> QED BY <1>1, <2>1, Messages DEF ThreadTypes, PollTypes, Written
<1>3. CASE UNCHANGED <<now, tpc, msg, queue, waiting>>
  BY <1>1, <1>3 DEF Written, Ordered, Writing
<1>4. ASSUME NEW t \in Threads, (\E s \in Statements : Log(t, s)) \/ LogOnce(t) PROVE Times'
  <2>1. /\ tpc'[t] \in {"register", "push"} /\ msg'[t].tsc = now + 1 /\ msg'[t] # NoMsg
        /\ now' = now + 1
        /\ \A u \in Threads \ {t} : tpc'[u] = tpc[u] /\ msg'[u] = msg[u]
        /\ UNCHANGED <<queue, waiting>>
    <3>1. \A id, s : [tsc |-> now + 1, logId |-> id, stmt |-> s] # NoMsg
      BY <1>1 DEF NoMsg
    <3> QED BY <1>1, <1>4, <3>1 DEF Log, LogOnce, ThreadTypes, history
  <2>2. msg'[t] \in AllMsgs
    BY <1>1, <2>1 DEF ThreadTypes
  <2>3. \A u \in Threads \ {t} : Writing(u)' <=> Writing(u)
    BY <2>1 DEF Writing
  <2>4. Written'
    <3>1. \A u \in Threads : Writing(u)' => msg'[u] \in AllMsgs /\ msg'[u].tsc <= now'
      BY <1>1, <1>2, <2>1, <2>2, <2>3 DEF Written
    <3>2. \A u, v \in Threads : Writing(u)' /\ Writing(v)' /\ u # v => msg'[u].tsc # msg'[v].tsc
      BY <1>1, <1>2, <2>1, <2>3 DEF Written
    <3>3. \A u, v \in Threads : Writing(u)' =>
            \A k \in DOMAIN queue'[v] :
              /\ queue'[v][k].tsc # msg'[u].tsc
              /\ u = v => queue'[v][k].tsc < msg'[u].tsc
      BY <1>1, <1>2, <2>1, <2>3 DEF Written, Ordered
    <3>4. \A u \in Threads : Writing(u)' => \A m \in waiting' : m.tsc # msg'[u].tsc
      BY <1>1, <1>2, <2>1, <2>3 DEF Written, Ordered
    <3> QED BY <3>1, <3>2, <3>3, <3>4 DEF Written
  <2>5. Ordered'
    BY <1>1, <1>2, <2>1 DEF Ordered
  <2> QED BY <2>4, <2>5
<1>5. ASSUME NEW t \in Threads, RegisterLogInfo(t) \/ InsertLogInfo(t) PROVE Times'
  <2>1. /\ tpc[t] \in {"register", "insert"} /\ tpc'[t] \in {"insert", "push"}
        /\ \A u \in Threads \ {t} : tpc'[u] = tpc[u] /\ msg'[u] = msg[u]
        /\ UNCHANGED <<now, queue, waiting>>
    BY <1>1, <1>5 DEF RegisterLogInfo, InsertLogInfo, ThreadTypes, history
  <2>2. msg'[t].tsc = msg[t].tsc /\ msg'[t] \in AllMsgs
    <3>1. msg[t] \in AllMsgs
      BY <1>1, <2>1 DEF Written, Writing
    <3>2. \A id : [msg[t] EXCEPT !.logId = id].tsc = msg[t].tsc
      BY <3>1 DEF AllMsgs
    <3>3. msg' = msg \/ \E id : msg' = [msg EXCEPT ![t].logId = id]
      BY <1>5 DEF RegisterLogInfo, InsertLogInfo
    <3>4. msg'[t] = msg[t] \/ \E id : msg'[t] = [msg[t] EXCEPT !.logId = id]
      <4>1. t \in DOMAIN msg
        BY <1>1 DEF ThreadTypes
      <4>2. CASE msg' = msg
        BY <4>2
      <4>3. ASSUME NEW id, msg' = [msg EXCEPT ![t].logId = id]
            PROVE  msg'[t] = [msg[t] EXCEPT !.logId = id]
        BY <4>1, <4>3
      <4> QED BY <3>3, <4>2, <4>3
    <3>5. msg'[t].tsc = msg[t].tsc
      BY <3>2, <3>4
    <3>6. msg'[t] # NoMsg
      BY <3>1, <3>5 DEF AllMsgs, NoMsg
    <3> QED BY <1>1, <3>5, <3>6 DEF ThreadTypes
  <2>3. \A u \in Threads : Writing(u)' <=> Writing(u)
    BY <2>1 DEF Writing
  <2>4. \A u \in Threads : msg'[u].tsc = msg[u].tsc
    BY <2>1, <2>2
  <2>5. \A u \in Threads : Writing(u) => msg'[u] \in AllMsgs
    BY <1>1, <2>1, <2>2 DEF Written
  <2>6. Written'
    BY <1>1, <2>1, <2>3, <2>4, <2>5 DEF Written
  <2>7. Ordered'
    BY <1>1, <2>1 DEF Ordered
  <2> QED BY <2>6, <2>7
<1>6. ASSUME NEW t \in Threads, Push(t) PROVE Times'
  <2>1. /\ tpc[t] = "push" /\ tpc'[t] = "idle"
        /\ \A u \in Threads \ {t} : tpc'[u] = tpc[u] /\ msg'[u] = msg[u] /\ queue'[u] = queue[u]
        /\ queue'[t] = queue[t] \/ queue'[t] = Append(queue[t], msg[t])
        /\ UNCHANGED <<now, waiting>>
    BY <1>1, <1>6 DEF Push, ThreadTypes, history
  <2>2. Writing(t) /\ ~ Writing(t)' /\ \A u \in Threads \ {t} : Writing(u)' <=> Writing(u)
    BY <2>1 DEF Writing
  <2>3. \A k \in DOMAIN queue'[t] :
          \/ k \in DOMAIN queue[t] /\ queue'[t][k] = queue[t][k]
          \/ /\ queue'[t][k] = msg[t] /\ k = Len(queue[t]) + 1
             /\ \A j \in DOMAIN queue[t] : j < k
    BY <1>2, <2>1
  <2>4. \A u \in Threads : \A k \in DOMAIN queue'[u] :
          \/ k \in DOMAIN queue[u] /\ queue'[u][k] = queue[u][k]
          \/ u = t /\ queue'[u][k] = msg[t]
    BY <2>1, <2>3
  <2>5. Written'
    <3>1. \A u \in Threads : Writing(u)' => u # t /\ Writing(u) /\ msg'[u] = msg[u]
      BY <2>1, <2>2
    <3>2. \A u, v \in Threads : Writing(u)' =>
            \A k \in DOMAIN queue'[v] :
              /\ queue'[v][k].tsc # msg'[u].tsc
              /\ u = v => queue'[v][k].tsc < msg'[u].tsc
      BY <1>1, <2>1, <2>2, <2>4, <3>1 DEF Written
    <3> QED BY <1>1, <2>1, <3>1, <3>2 DEF Written
  <2>6. \A u \in Threads : \A k \in DOMAIN queue'[u] : queue'[u][k].tsc <= now
    BY <1>1, <2>2, <2>4 DEF Written, Ordered
  <2>7. ASSUME NEW j \in DOMAIN queue'[t], NEW k \in DOMAIN queue'[t], j < k
        PROVE  queue'[t][j].tsc < queue'[t][k].tsc
    <3>1. j \in DOMAIN queue[t] /\ queue'[t][j] = queue[t][j]
      <4>1. \A m \in DOMAIN queue'[t] : m \in Nat /\ m <= Len(queue[t]) + 1
        BY <1>2, <2>1
      <4> QED BY <1>2, <2>3, <2>7, <4>1
    <3>2. CASE k \in DOMAIN queue[t] /\ queue'[t][k] = queue[t][k]
      BY <1>1, <2>7, <3>1, <3>2 DEF Ordered
    <3>3. CASE queue'[t][k] = msg[t]
      BY <1>1, <2>2, <3>1, <3>3 DEF Written
    <3> QED BY <2>3, <3>2, <3>3
  <2>8. Ordered'
    BY <1>1, <2>1, <2>6, <2>7 DEF Ordered
  <2> QED BY <2>5, <2>8
<1>7. ASSUME NEW t \in Threads, ThreadEnds(t) PROVE Times'
  <2>1. (\A u \in Threads : Writing(u)' <=> Writing(u)) /\ UNCHANGED <<now, msg, queue, waiting>>
    BY <1>1, <1>7 DEF ThreadEnds, ThreadTypes, Writing, history
  <2> QED BY <1>1, <2>1 DEF Written, Ordered
<1>8. CASE PollBegin
  <2>1. waiting' = Queued /\ UNCHANGED <<now, tpc, msg, queue>>
    BY <1>8 DEF PollBegin, threadVars
  <2>2. \A m \in waiting' : \E u \in Threads : \E k \in DOMAIN queue[u] : m = queue[u][k]
    BY <2>1 DEF Queued, Contents
  <2>3. Written'
    BY <1>1, <2>1, <2>2 DEF Written, Writing
  <2>4. Ordered'
    BY <1>1, <2>1, <2>2 DEF Ordered
  <2> QED BY <2>3, <2>4
<1>9. CASE NoBuffers \/ \E forceFlush \in BOOLEAN : PollEnd(forceFlush)
  <2>1. waiting' = {} /\ UNCHANGED <<now, tpc, msg, queue>>
    BY <1>9 DEF NoBuffers, PollEnd, PollReturns, threadVars
  <2> QED BY <1>1, <2>1 DEF Written, Ordered, Writing
<1>10. ASSUME NEW t \in Threads, UNCHANGED <<now, tpc, msg, waiting>>,
              queue'[t] \in {<< >>, Tail(queue[t])}, queue[t] # << >> \/ queue'[t] = << >>,
              \A u \in Threads \ {t} : queue'[u] = queue[u]
       PROVE  Times'
  <2>1. PICK n \in Nat : \A k \in DOMAIN queue'[t] :
                           k + n \in DOMAIN queue[t] /\ queue'[t][k] = queue[t][k + n]
    <3>1. CASE queue'[t] = << >>
      BY <3>1
    <3>2. CASE queue'[t] = Tail(queue[t]) /\ queue[t] # << >>
      <4>1. \A k \in DOMAIN queue'[t] : k + 1 \in DOMAIN queue[t] /\ queue'[t][k] = queue[t][k + 1]
        BY <1>2, <3>2
      <4> QED BY <4>1
    <3> QED BY <1>10, <3>1, <3>2
  <2>2. Written'
    <3>1. \A u, v \in Threads : Writing(u) =>
            \A k \in DOMAIN queue'[v] :
              /\ queue'[v][k].tsc # msg[u].tsc
              /\ u = v => queue'[v][k].tsc < msg[u].tsc
      BY <1>1, <1>10, <2>1 DEF Written
    <3> QED BY <1>1, <1>10, <3>1 DEF Written, Writing
  <2>3. \A u \in Threads : \A k \in DOMAIN queue'[u] : queue'[u][k].tsc <= now
    BY <1>1, <1>10, <2>1 DEF Ordered
  <2>4. \A j, k \in DOMAIN queue'[t] : j < k => queue'[t][j].tsc < queue'[t][k].tsc
    <3>1. \A k \in DOMAIN queue'[t] : k \in Nat
      BY <1>1 DEF ThreadTypes
    <3>2. \A j, k \in DOMAIN queue'[t] : j < k => j + n < k + n
      BY <3>1
    <3> QED BY <1>1, <2>1, <3>2 DEF Ordered
  <2>5. Ordered'
    BY <1>1, <1>10, <2>3, <2>4 DEF Ordered
  <2> QED BY <2>2, <2>5
<1>11. CASE Deallocate
  <2>1. CASE UNCHANGED queue
    BY <1>3, <1>11, <2>1 DEF Deallocate, history
  <2>2. CASE queue' # queue
    <3>1. bgThreadBuffers[i].tb \in Threads
      BY <1>1, <1>11, NodesOfSequence DEF IInv, Shape, Deallocate, PollTypes, Nodes, Headers
    <3>2. /\ queue' = [queue EXCEPT ![bgThreadBuffers[i].tb] = << >>]
          /\ UNCHANGED <<now, tpc, msg, waiting>>
      BY <1>11, <2>2 DEF Deallocate, history
    <3>3. queue'[bgThreadBuffers[i].tb] = << >>
          /\ \A u \in Threads \ {bgThreadBuffers[i].tb} : queue'[u] = queue[u]
      BY <1>1, <3>1, <3>2 DEF ThreadTypes
    <3> QED BY <1>10, <3>1, <3>2, <3>3
  <2> QED BY <2>1, <2>2
<1>12. CASE Handle
  <2>1. PICK t \in Threads : t = bgThreadBuffers[1].tb /\ queue[t] # << >>
    BY <1>12, RootNode
  <2>2. queue' = [queue EXCEPT ![t] = Tail(@)] /\ UNCHANGED <<now, tpc, msg, waiting>>
    BY <1>12, <2>1 DEF Handle
  <2>3. queue'[t] = Tail(queue[t]) /\ \A u \in Threads \ {t} : queue'[u] = queue[u]
    BY <1>1, <2>2 DEF ThreadTypes
  <2> QED BY <1>10, <2>1, <2>2, <2>3
<1>13. CASE TakeLogInfos \/ TakeThreadBuffers \/ Front \/ BuildHeap \/ Heapify
  BY <1>3, <1>13 DEF TakeLogInfos, TakeThreadBuffers, Front, BuildHeap, Heapify, threadVars, history
<1>14. CASE Elapse \/ Sink \/ UNCHANGED vars
  BY <1>3, <1>14 DEF Elapse, Sink, CloseOutput, CloseLogFile, SetLogFile, SetStdout, vars, threadVars, history
<1>15. ASSUME NEW t \in Threads, Preallocate(t) PROVE Times'
  BY <1>3, <1>15 DEF Preallocate, history
<1> QED BY <1>4, <1>5, <1>6, <1>7, <1>8, <1>9, <1>11, <1>12, <1>13, <1>14, <1>15
        DEF Next, Thread, Poll

-----------------------------------------------------------------------------
(* What waits                                                              *)

(* What waits stays visible to the heap.                                   *)
LEMMA WaitedStep ==
  ASSUME IInv, [Next]_vars
  PROVE  Waited'
<1>1. /\ ThreadTypes /\ PollTypes /\ Shape /\ Buffers /\ Times /\ Waited
      /\ bgThreadBuffers \in Seq(Nodes) /\ i \in Nat \ {0}
      /\ \A t \in Threads : queue[t] \in Seq(AllMsgs)
      /\ \A k \in DOMAIN threadBuffers : threadBuffers[k] \in Threads
  BY TypeParts DEF IInv, ThreadTypes, PollTypes, Nodes, Headers
<1>2. ASSUME \A t \in Threads : Clear(t) => Clear(t)',
             UNCHANGED <<ppc, i, bgThreadBuffers, threadBuffers>>
      PROVE  Waited'
  <2>1. \A k : Seen(k)' <=> Seen(k)
    BY <1>2 DEF Seen
  <2>2. \A k \in DOMAIN bgThreadBuffers' :
          Seen(k)' /\ bgThreadBuffers'[k].header = NoMsg => Clear(bgThreadBuffers[k].tb)'
    BY <1>1, <1>2, <2>1, NodesOfSequence DEF Waited
  <2>3. ppc' \in Collecting => \A k \in DOMAIN threadBuffers' : Clear(threadBuffers[k])'
    BY <1>1, <1>2 DEF Waited
  <2> QED BY <2>2, <2>3 DEF Waited
<1>3. CASE UNCHANGED <<ppc, i, bgThreadBuffers, threadBuffers, queue, waiting>>
  BY <1>2, <1>3 DEF Clear
<1>4. ASSUME NEW t \in Threads, Push(t) PROVE Waited'
  <2>1. /\ UNCHANGED <<ppc, i, bgThreadBuffers, threadBuffers, waiting>>
        /\ Writing(t)
        /\ \A u \in Threads \ {t} : queue'[u] = queue[u]
        /\ queue'[t] = queue[t] \/ queue'[t] = Append(queue[t], msg[t])
    BY <1>1, <1>4 DEF Push, ThreadTypes, sharedVars, pollVars, history, Writing
  <2>2. msg[t] \notin waiting
    BY <1>1, <2>1 DEF Times, Written
  <2>3. Contents(queue'[t]) \subseteq Contents(queue[t]) \cup {msg[t]}
    <3>1. queue[t] \in Seq(AllMsgs)
      BY <1>1
    <3>2. \A k \in DOMAIN queue'[t] :
            queue'[t][k] = msg[t] \/ (k \in DOMAIN queue[t] /\ queue'[t][k] = queue[t][k])
      BY <2>1, <3>1
    <3> QED BY <3>2 DEF Contents
  <2>4. \A u \in Threads : Clear(u) => Clear(u)'
    BY <2>1, <2>2, <2>3 DEF Clear
  <2> QED BY <1>2, <2>1, <2>4
<1>5. ASSUME NEW t \in Threads, Preallocate(t) PROVE Waited'
  <2>1. /\ UNCHANGED <<ppc, i, bgThreadBuffers, waiting, queue>>
        /\ threadBuffers' = Append(threadBuffers, t) /\ queue[t] = << >>
    BY <1>1, <1>5 DEF Preallocate, pollVars, history, Buffers, Held
  <2>2. Clear(t)
    BY <2>1 DEF Clear, Contents
  <2>3. \A k \in DOMAIN threadBuffers' :
          threadBuffers'[k] = t \/ (k \in DOMAIN threadBuffers /\ threadBuffers'[k] = threadBuffers[k])
    <3>1. /\ Len(threadBuffers) \in Nat
          /\ DOMAIN threadBuffers = 1 .. Len(threadBuffers)
          /\ DOMAIN threadBuffers' = 1 .. Len(threadBuffers) + 1
          /\ \A k \in DOMAIN threadBuffers : threadBuffers'[k] = threadBuffers[k]
          /\ threadBuffers'[Len(threadBuffers) + 1] = t
      BY <1>1, <2>1 DEF ThreadTypes
    <3> QED BY <3>1
  <2> QED BY <1>1, <2>1, <2>2, <2>3 DEF Waited, Seen, Clear
<1>6. CASE ppc' \in {"idle", "infos", "buffers"}
  BY <1>6 DEF Waited, Seen, Collecting
<1>7. CASE TakeThreadBuffers
  <2>1. ppc' = "front" /\ i' = 1 /\ threadBuffers' = << >>
    BY <1>1, <1>7 DEF TakeThreadBuffers, Shape
  <2>2. \A k \in DOMAIN bgThreadBuffers' : ~ Seen(k)'
    <3>1. bgThreadBuffers' \in Seq(Nodes)
      BY PollTypesStep DEF PollTypes, Nodes, Headers
    <3> QED BY <2>1, <3>1, NodesOfSequence DEF Seen
  <2> QED BY <2>1, <2>2 DEF Waited
<1>8. CASE Front
  <2>1. /\ i \in DOMAIN bgThreadBuffers /\ ppc = "front"
        /\ UNCHANGED <<threadBuffers, queue, waiting>>
    BY <1>8 DEF Front, threadVars, sharedVars, history
  <2>2. CASE bgThreadBuffers[i].header # NoMsg
    <3>1. i' = i + 1 /\ UNCHANGED <<ppc, bgThreadBuffers>>
      BY <1>8, <2>2 DEF Front
    <3>2. \A k \in DOMAIN bgThreadBuffers : Seen(k)' => Seen(k) \/ k = i
      BY <1>1, <2>1, <3>1, NodesOfSequence DEF Seen
    <3> QED BY <1>1, <2>1, <2>2, <3>1, <3>2 DEF Waited, Clear
  <2>3. CASE bgThreadBuffers[i].header = NoMsg
    <3>1. PICK header \in Headers :
            /\ header = Oldest(bgThreadBuffers[i].tb)
            /\ bgThreadBuffers' = [bgThreadBuffers EXCEPT ![i].header = header]
            /\ IF header = NoMsg THEN ppc' = "dealloc" /\ i' = i
                                 ELSE i' = i + 1 /\ ppc' = ppc
      <4>1. Oldest(bgThreadBuffers[i].tb) \in Headers
        BY <1>1, <2>1, NodesOfSequence DEF Oldest, Headers
      <4> QED BY <1>8, <2>3, <4>1 DEF Front
    <3>2. /\ DOMAIN bgThreadBuffers' = DOMAIN bgThreadBuffers
          /\ \A j \in DOMAIN bgThreadBuffers :
               /\ bgThreadBuffers'[j].tb = bgThreadBuffers[j].tb
               /\ bgThreadBuffers'[j].header = IF j = i THEN header ELSE bgThreadBuffers[j].header
      BY <1>1, <2>1, <3>1, NewHeader
    <3>3. \A k \in DOMAIN bgThreadBuffers : Seen(k)' => Seen(k) \/ k = i
      BY <1>1, <2>1, <3>1, NodesOfSequence DEF Seen
    <3>4. header = NoMsg => Clear(bgThreadBuffers[i].tb)
      <4>1. queue[bgThreadBuffers[i].tb] \in Seq(AllMsgs)
        BY <1>1, <2>1, NodesOfSequence
      <4>2. header = NoMsg => queue[bgThreadBuffers[i].tb] = << >>
        BY <3>1, <4>1, Messages DEF Oldest
      <4> QED BY <4>2 DEF Clear, Contents
    <3>5. ppc' \in Collecting => ppc \in Collecting
      BY <2>1 DEF Collecting
    <3> QED BY <1>1, <2>1, <3>1, <3>2, <3>3, <3>4, <3>5 DEF Waited, Clear
  <2> QED BY <2>2, <2>3
<1>9. CASE BuildHeap
  <2>1. \A k \in DOMAIN bgThreadBuffers : Seen(k)
    <3>1. ppc = "front" /\ i \notin DOMAIN bgThreadBuffers
      BY <1>9 DEF BuildHeap
    <3> QED BY <1>1, <3>1, NodesOfSequence DEF Seen
  <2>2. ppc \in Collecting /\ UNCHANGED <<threadBuffers, bgThreadBuffers, queue, waiting>>
    BY <1>9 DEF BuildHeap, threadVars, sharedVars, history, Collecting
  <2> QED BY <1>1, <2>1, <2>2 DEF Waited, Clear
<1>10. ASSUME ppc \in {"heap", "handle"}, UNCHANGED threadBuffers,
              NEW nodes \in Seq(Nodes), NEW first \in DOMAIN nodes,
              bgThreadBuffers' = adjustHeap(first, nodes),
              \A t \in Threads : Clear(t) => Clear(t)',
              \A j \in DOMAIN nodes : nodes[j].header = NoMsg => Clear(nodes[j].tb)'
       PROVE  Waited'
  <2>1. DOMAIN bgThreadBuffers' = DOMAIN nodes
    BY <1>10, AdjustKeeps
  <2>2. \A k \in DOMAIN nodes : \E j \in DOMAIN nodes : bgThreadBuffers'[k] = nodes[j]
    BY <1>10, AdjustKeeps
  <2>3. (\A k \in DOMAIN bgThreadBuffers :
           bgThreadBuffers[k].header = NoMsg => Clear(bgThreadBuffers[k].tb))'
    BY <1>10, <2>1, <2>2 DEF Clear
  <2>4. (\A k \in DOMAIN threadBuffers : Clear(threadBuffers[k]))'
    <3>1. \A k \in DOMAIN threadBuffers : Clear(threadBuffers[k])
      BY <1>1, <1>10 DEF Waited, Collecting
    <3> QED BY <1>1, <1>10, <3>1 DEF Clear
  <2> QED BY <2>3, <2>4 DEF Waited
<1>11. CASE Heapify
  <2>1. /\ ppc = "heap" /\ i \in DOMAIN bgThreadBuffers
        /\ bgThreadBuffers' = adjustHeap(i, bgThreadBuffers)
        /\ UNCHANGED <<threadBuffers, queue, waiting>>
    BY <1>1, <1>11 DEF Heapify, Shape, threadVars, sharedVars, history
  <2>2. \A t : Clear(t)' <=> Clear(t)
    BY <2>1 DEF Clear
  <2>3. \A j \in DOMAIN bgThreadBuffers :
          bgThreadBuffers[j].header = NoMsg => Clear(bgThreadBuffers[j].tb)
    BY <1>1, <2>1 DEF Waited, Seen
  <2>4. PICK nodes \in Seq(Nodes) : nodes = bgThreadBuffers
    BY <1>1
  <2>5. PICK first \in DOMAIN nodes : first = i
    BY <2>1, <2>4
  <2>6. \A j \in DOMAIN nodes : nodes[j].header = NoMsg => Clear(nodes[j].tb)'
    BY <2>2, <2>3, <2>4
  <2> QED BY <1>10, <2>1, <2>2, <2>4, <2>5, <2>6
<1>12. CASE Handle
  <2>1. PICK t \in Threads : /\ 1 \in DOMAIN bgThreadBuffers /\ t = bgThreadBuffers[1].tb
                             /\ queue[t] \in Seq(AllMsgs) /\ queue[t] # << >>
    BY <1>12, RootNode
  <2>2. /\ ppc = "handle"
        /\ bgThreadBuffers' =
             adjustHeap(1, [bgThreadBuffers EXCEPT ![1].header =
                              IF queue'[t] = << >> THEN NoMsg ELSE Head(queue'[t])])
        /\ queue' = [queue EXCEPT ![t] = Tail(@)]
        /\ UNCHANGED <<threadBuffers, waiting>>
    BY <1>12, <2>1 DEF Handle, sharedVars
  <2>3. queue'[t] = Tail(queue[t]) /\ \A u \in Threads \ {t} : queue'[u] = queue[u]
    BY <1>1, <2>1, <2>2 DEF ThreadTypes
  <2>4. queue'[t] \in Seq(AllMsgs) /\ Contents(queue'[t]) \subseteq Contents(queue[t])
    BY <2>1, <2>3 DEF Contents
  <2>5. \A u \in Threads : Clear(u) => Clear(u)'
    BY <2>2, <2>3, <2>4 DEF Clear
  <2>6. PICK next \in Headers : next = IF queue'[t] = << >> THEN NoMsg ELSE Head(queue'[t])
    BY <2>4 DEF Headers
  <2>7. PICK handed \in Seq(Nodes) :
             /\ DOMAIN handed = DOMAIN bgThreadBuffers
             /\ \A j \in DOMAIN bgThreadBuffers :
                  /\ handed[j].tb = bgThreadBuffers[j].tb
                  /\ handed[j].header = IF j = 1 THEN next ELSE bgThreadBuffers[j].header
             /\ bgThreadBuffers' = adjustHeap(1, handed)
    <3>1. bgThreadBuffers' = adjustHeap(1, [bgThreadBuffers EXCEPT ![1].header = next])
      BY <2>2, <2>6
    <3>2. /\ [bgThreadBuffers EXCEPT ![1].header = next] \in Seq(Nodes)
          /\ DOMAIN [bgThreadBuffers EXCEPT ![1].header = next] = DOMAIN bgThreadBuffers
          /\ \A j \in DOMAIN bgThreadBuffers :
               /\ [bgThreadBuffers EXCEPT ![1].header = next][j].tb = bgThreadBuffers[j].tb
               /\ [bgThreadBuffers EXCEPT ![1].header = next][j].header =
                    IF j = 1 THEN next ELSE bgThreadBuffers[j].header
      BY <1>1, <2>1, <2>6, NewHeader
    <3> QED BY <3>1, <3>2, Zenon
  <2>8. \A j \in DOMAIN handed : handed[j].header = NoMsg => Clear(handed[j].tb)'
    <3>1. \A j \in DOMAIN handed :
            j # 1 /\ handed[j].header = NoMsg => Clear(handed[j].tb) /\ handed[j].tb \in Threads
      BY <1>1, <2>2, <2>7, NodesOfSequence DEF Waited, Seen
    <3>2. handed[1].tb = t /\ handed[1].header = next
      BY <2>1, <2>7
    <3>3. next = NoMsg => queue'[t] = << >>
      BY <2>4, <2>6, Messages
    <3>4. next = NoMsg => Clear(t)'
      BY <3>3 DEF Clear, Contents
    <3> QED BY <2>5, <3>1, <3>2, <3>4
  <2>9. 1 \in DOMAIN handed
    BY <2>1, <2>7
  <2> QED BY <1>10, <2>2, <2>5, <2>7, <2>8, <2>9
<1>13. CASE Deallocate
  <2>1. CASE bgThreadBuffers' = bgThreadBuffers /\ queue' = queue /\ i' = i + 1
    <3>1. ppc = "dealloc" /\ ppc' = "front" /\ UNCHANGED <<threadBuffers, waiting>>
      BY <1>13 DEF Deallocate, sharedVars, history
    <3>2. \A k \in DOMAIN bgThreadBuffers : Seen(k)' => Seen(k)
      BY <1>1, <2>1, <3>1, NodesOfSequence DEF Seen
    <3> QED BY <1>1, <2>1, <3>1, <3>2 DEF Waited, Clear, Collecting
  <2>2. CASE ~ (bgThreadBuffers' = bgThreadBuffers /\ queue' = queue /\ i' = i + 1)
    <3>1. PICK t \in Threads : i \in DOMAIN bgThreadBuffers /\ t = bgThreadBuffers[i].tb
      BY <1>1, <1>13, NodesOfSequence DEF Shape, Deallocate
    <3>2. /\ ppc = "dealloc" /\ ppc' = "front" /\ i' = i
          /\ queue' = [queue EXCEPT ![t] = << >>]
          /\ bgThreadBuffers' = Without(i, bgThreadBuffers)
          /\ UNCHANGED <<threadBuffers, waiting>>
      BY <1>13, <2>2, <3>1 DEF Deallocate, sharedVars, history
    <3>3. queue'[t] = << >> /\ \A u \in Threads \ {t} : queue'[u] = queue[u]
      BY <1>1, <3>2 DEF ThreadTypes
    <3>4. \A u \in Threads : Clear(u) => Clear(u)'
      BY <3>2, <3>3 DEF Clear, Contents
    <3>5. \A k \in DOMAIN bgThreadBuffers' :
            k # i => k \in DOMAIN bgThreadBuffers /\ bgThreadBuffers'[k] = bgThreadBuffers[k]
      BY <1>1, <3>1, <3>2, WithoutNode
    <3>6. \A k \in DOMAIN bgThreadBuffers' : Seen(k)' => k # i /\ Seen(k)
      <4>1. bgThreadBuffers' \in Seq(Nodes)
        BY PollTypesStep DEF PollTypes, Nodes, Headers
      <4> QED BY <1>1, <3>2, <4>1, NodesOfSequence DEF Seen
    <3>7. \A k \in DOMAIN bgThreadBuffers' :
            Seen(k)' /\ bgThreadBuffers'[k].header = NoMsg =>
              bgThreadBuffers'[k].tb \in Threads /\ Clear(bgThreadBuffers[k].tb)
              /\ bgThreadBuffers'[k].tb = bgThreadBuffers[k].tb
      BY <1>1, <3>5, <3>6, NodesOfSequence DEF Waited
    <3>8. (\A k \in DOMAIN bgThreadBuffers :
             Seen(k) /\ bgThreadBuffers[k].header = NoMsg => Clear(bgThreadBuffers[k].tb))'
      BY <3>4, <3>7 DEF Clear
    <3>9. (\A k \in DOMAIN threadBuffers : Clear(threadBuffers[k]))'
      <4>1. \A k \in DOMAIN threadBuffers : Clear(threadBuffers[k])
        BY <1>1, <3>2 DEF Waited, Collecting
      <4> QED BY <1>1, <3>2, <3>4, <4>1 DEF Clear
    <3> QED BY <3>8, <3>9 DEF Waited
  <2> QED BY <2>1, <2>2
<1>14. CASE PollBegin \/ TakeLogInfos \/ NoBuffers \/ \E forceFlush \in BOOLEAN : PollEnd(forceFlush)
  BY <1>6, <1>14 DEF PollBegin, TakeLogInfos, NoBuffers, PollEnd, PollReturns
<1>15. CASE Elapse \/ Sink \/ UNCHANGED vars
  BY <1>3, <1>15 DEF Elapse, Sink, CloseOutput, CloseLogFile, SetLogFile, SetStdout, vars, threadVars,
                     sharedVars, pollVars, history
<1>16. ASSUME NEW t \in Threads, \/ \E s \in Statements : Log(t, s)
                                 \/ LogOnce(t) \/ RegisterLogInfo(t) \/ InsertLogInfo(t) \/ ThreadEnds(t)
       PROVE  Waited'
  BY <1>3, <1>16 DEF Log, LogOnce, RegisterLogInfo, InsertLogInfo, ThreadEnds, sharedVars, pollVars,
                     history
<1> QED BY <1>4, <1>5, <1>7, <1>8, <1>9, <1>11, <1>12, <1>13, <1>14, <1>15, <1>16
        DEF Next, Thread, Poll

-----------------------------------------------------------------------------
(* The theorems                                                            *)

(* The invariant holds initially.                                          *)
LEMMA InitIInv == Init => IInv
<1> SUFFICES ASSUME Init PROVE IInv
  OBVIOUS
<1> USE CollectorAssumption, Messages DEF Init
<1>1. ThreadTypes
  <2>1. << >> \in Seq(AllMsgs)
    OBVIOUS
  <2> QED BY <2>1 DEF ThreadTypes
<1>2. PollTypes
  BY DEF PollTypes, Once4
<1>3. SinkTypes
  BY DEF SinkTypes
<1>4. Shape
  BY DEF Shape
<1>5. Buffers
  BY DEF Buffers, Fronts, Held
<1>6. Len(bgLogInfos) = 4 /\ DOMAIN bgLogInfos = 1 .. 4 /\ \A k \in 1 .. 4 : bgLogInfos[k] = Once
  BY DEF Once4
<1>7. Ids
  <2>1. \A s \in Statements, id \in Nat : <<s, id>> \notin Places
    BY <1>6 DEF Places, HasId
  <2> QED BY <1>6, <2>1 DEF Ids
<1>8. Inserting /\ Carried
  BY DEF Inserting, Carried
<1>9. Times
  BY DEF Times, Written, Ordered, Writing
<1>10. Waited
  BY DEF Waited, Seen, Collecting
<1> QED BY <1>1, <1>2, <1>3, <1>4, <1>5, <1>7, <1>8, <1>9, <1>10, TypeParts DEF IInv, Numbers

(* Every step preserves it.                                                *)
LEMMA StepIInv == IInv /\ [Next]_vars => IInv'
<1> SUFFICES ASSUME IInv, [Next]_vars PROVE IInv'
  OBVIOUS
<1>1. ThreadTypes' /\ PollTypes' /\ SinkTypes'
  BY ThreadTypesStep, PollTypesStep, SinkTypesStep
<1>2. TypeOK'
  BY <1>1 DEF TypeOK, ThreadTypes, PollTypes, SinkTypes
<1> QED BY <1>2, ShapeStep, BuffersStep, NumbersStep, TimesStep, WaitedStep DEF IInv

(* The inductive invariant holds in every state of the collector.          *)
THEOREM Inductive == Spec => []IInv
BY InitIInv, StepIInv, PTL DEF Spec

(* The variables keep their types; membuf never holds flushBufSize or more *)
(* between two steps.                                                      *)
THEOREM TypeCorrect == Spec => []TypeOK
<1>1. IInv => TypeOK
  BY DEF IInv
<1> QED BY <1>1, Inductive, PTL

(* A message that poll handles is formatted by the statement that logged   *)
(* it, whatever the threads register meanwhile.                            *)
THEOREM KnownWhenHandledHolds == Spec => []KnownWhenHandled
<1>1. IInv => KnownWhenHandled
  <2> SUFFICES ASSUME IInv, ppc = "handle", MayHandle(bgThreadBuffers[1].header)
               PROVE  bgLogInfos[bgThreadBuffers[1].header.logId + 1] = bgThreadBuffers[1].header.stmt
    BY DEF KnownWhenHandled
  <2>1. PICK h : h = bgThreadBuffers[1].header
    OBVIOUS
  <2>2. PICK t \in Threads : 1 \in DOMAIN bgThreadBuffers /\ bgThreadBuffers[1].tb = t /\ h # NoMsg
    <3>1. bgThreadBuffers \in Seq(Nodes) /\ bgThreadBuffers # << >>
      BY TypeParts DEF IInv, Shape, PollTypes, Nodes, Headers
    <3> QED BY <2>1, <3>1, NodesOfSequence DEF MayHandle
  <2>3. h \in AllMsgs /\ Numbered(h)
    <3>1. queue[t] \in Seq(AllMsgs)
      BY TypeParts DEF IInv, ThreadTypes
    <3>2. h = Head(queue[t]) /\ queue[t] # << >>
      BY <2>1, <2>2 DEF IInv, Buffers, Fronts, Oldest
    <3>3. 1 \in DOMAIN queue[t] /\ h = queue[t][1] /\ h \in AllMsgs
      BY <3>1, <3>2
    <3> QED BY <3>3 DEF IInv, Numbers, Carried
  <2>4. h.logId < Len(bgLogInfos) /\ h.logId \in Nat /\ Len(bgLogInfos) \in Nat
    BY <2>1, <2>3, Messages, TypeParts DEF IInv, PollTypes, MayHandle
  <2>5. HasId(h.stmt, h.logId)
    BY <2>3 DEF Numbered, Places
  <2>6. bgLogInfos[h.logId + 1] = h.stmt
    BY <2>4, <2>5, TypeParts DEF HasId, IInv, ThreadTypes
  <2> QED BY <2>1, <2>6
<1> QED BY <1>1, Inductive, PTL

(* poll's nodes are about buffers that exist, one node each, and a deleted *)
(* buffer is never used again.                                             *)
THEOREM HeapIsLiveHolds == Spec => []HeapIsLive
<1>1. IInv => HeapIsLive
  <2> SUFFICES ASSUME IInv, NEW t \in Threads
               PROVE  IF NodeOf(t) = {}
                      THEN threadBuffer[t] \in {"none", "deleted"} \/ t \in Contents(threadBuffers)
                      ELSE \E k \in NodeOf(t) :
                             /\ NodeOf(t) = {k}
                             /\ threadBuffer[t] \in {"live", "shouldDeallocate"}
                             /\ bgThreadBuffers[k].header \in {NoMsg, Oldest(t)}
    BY DEF HeapIsLive
  <2>1. Buffers /\ threadBuffer[t] \in {"none", "live", "shouldDeallocate", "deleted"}
    BY TypeParts DEF IInv, ThreadTypes
  <2>2. CASE NodeOf(t) = {}
    BY <2>1, <2>2 DEF Buffers, NodeOf, Contents, Held
  <2>3. CASE NodeOf(t) # {}
    <3>1. PICK k \in DOMAIN bgThreadBuffers : bgThreadBuffers[k].tb = t
      BY <2>3 DEF NodeOf
    <3>2. NodeOf(t) = {k}
      BY <2>1, <3>1 DEF Buffers, NodeOf
    <3>3. threadBuffer[t] \in Held
      BY <2>1, <3>1 DEF Buffers
    <3>4. bgThreadBuffers[k].header \in {NoMsg, Oldest(t)}
      BY <2>1, <3>1 DEF Buffers, Fronts
    <3> QED BY <2>3, <3>2, <3>3, <3>4 DEF Held
  <2> QED BY <2>2, <2>3
<1> QED BY <1>1, Inductive, PTL

-----------------------------------------------------------------------------
(* The refinement                                                          *)

(* There are no more ids than statements.                                  *)
LEMMA IdBound ==
  ASSUME IInv, NEW m \in AllMsgs, Numbered(m)
  PROVE  m.logId <= 3 + Cardinality(Statements)
<1> DEFINE id == m.logId
<1>1. /\ bgLogInfos \in Seq(Statements \cup {Once}) /\ logInfos \in Seq(Statements)
      /\ Len(bgLogInfos) \in Nat /\ Len(logInfos) \in Nat /\ Len(bgLogInfos) >= 4
      /\ DOMAIN bgLogInfos = 1 .. Len(bgLogInfos) /\ DOMAIN logInfos = 1 .. Len(logInfos)
  BY TypeParts DEF IInv, ThreadTypes, PollTypes, Numbers, Ids
<1>2. id \in Nat /\ HasId(m.stmt, id)
  BY Messages DEF Numbered, Places
<1> HIDE DEF id
<1>3. ASSUME NEW j \in 4 .. id
      PROVE  \E s \in Statements : <<s, j>> \in Places
  <2>1. CASE j < Len(bgLogInfos)
    <3>1. j + 1 \in DOMAIN bgLogInfos /\ ~ (j + 1 <= 4) /\ j \in Nat
      BY <1>1, <1>2, <2>1
    <3>2. bgLogInfos[j + 1] \in Statements
      BY <3>1 DEF IInv, Numbers, Ids
    <3>3. HasId(bgLogInfos[j + 1], j)
      BY <2>1 DEF HasId
    <3> QED BY <3>1, <3>2, <3>3 DEF Places
  <2>2. CASE j >= Len(bgLogInfos) /\ j < Len(bgLogInfos) + Len(logInfos)
    <3>1. PICK k \in DOMAIN logInfos : j + 1 = Len(bgLogInfos) + k
      <4>1. /\ j + 1 - Len(bgLogInfos) \in DOMAIN logInfos
            /\ j + 1 = Len(bgLogInfos) + (j + 1 - Len(bgLogInfos))
        BY <1>1, <1>2, <2>2
      <4> QED BY <4>1
    <3>2. logInfos[k] \in Statements /\ j \in Nat
      BY <1>1, <1>2
    <3>3. HasId(logInfos[k], j)
      BY <3>1 DEF HasId
    <3> QED BY <3>2, <3>3 DEF Places
  <2>3. CASE j >= Len(bgLogInfos) + Len(logInfos)
    <3>1. j = Len(bgLogInfos) + Len(logInfos) /\ j = id
      BY <1>1, <1>2, <2>3 DEF HasId
    <3>2. PICK t \in Threads : tpc[t] = "insert"
      BY <1>1, <1>2, <3>1 DEF HasId
    <3>3. msg[t].stmt \in Statements
      BY <3>2 DEF IInv, Numbers, Inserting
    <3>4. HasId(msg[t].stmt, j) /\ j \in Nat
      BY <1>2, <3>1, <3>2 DEF HasId
    <3> QED BY <3>3, <3>4 DEF Places
  <2>4. j \in Nat /\ Len(bgLogInfos) + Len(logInfos) \in Nat
    BY <1>1, <1>2
  <2>5. \/ j < Len(bgLogInfos) \/ j >= Len(bgLogInfos) + Len(logInfos)
        \/ j >= Len(bgLogInfos) /\ j < Len(bgLogInfos) + Len(logInfos)
    BY <1>1, <2>4
  <2> QED BY <2>1, <2>2, <2>3, <2>5, Zenon
<1> DEFINE stmt == [j \in 4 .. id |-> CHOOSE s \in Statements : <<s, j>> \in Places]
<1>4. stmt \in [4 .. id -> Statements] /\ \A j \in 4 .. id : <<stmt[j], j>> \in Places
  BY <1>3
<1> HIDE DEF stmt
<1>5. \A j, k \in 4 .. id : stmt[j] = stmt[k] => j = k
  <2> SUFFICES ASSUME NEW j \in 4 .. id, NEW k \in 4 .. id, stmt[j] = stmt[k] PROVE j = k
    OBVIOUS
  <2>1. logId[stmt[j]] = j /\ logId[stmt[k]] = k
    <3>1. j \in Nat /\ k \in Nat
      BY <1>2
    <3> QED BY <1>4, <3>1 DEF IInv, Numbers, Ids
  <2> QED BY <2>1
<1>6. IsFiniteSet(Statements) /\ Cardinality(Statements) \in Nat
  BY CollectorAssumption, FS_CardinalityType
<1>7. IsFiniteSet(4 .. id) /\ Cardinality(4 .. id) = IF 4 > id THEN 0 ELSE id - 4 + 1
  BY <1>2, FS_Interval
<1>8. ~ (Cardinality(Statements) < Cardinality(4 .. id))
  <2> SUFFICES ASSUME Cardinality(Statements) < Cardinality(4 .. id) PROVE FALSE
    OBVIOUS
  <2>1. \E x, y \in 4 .. id : x # y /\ stmt[x] = stmt[y]
    BY <1>4, <1>6, <1>7, FS_PigeonHole, Zenon
  <2> QED BY <1>5, <2>1
<1> QED BY <1>2, <1>6, <1>7, <1>8 DEF id

(* A message that is pushed is one LogMerge knows.                         *)
LEMMA PushSimulates ==
  ASSUME IInv, NEW t \in Threads, Push(t)
  PROVE  [Merge!Next]_(Merge!vars)
<1>1. /\ tpc[t] = "push" /\ tpc' = [tpc EXCEPT ![t] = "idle"]
      /\ tpc \in [Threads -> {"idle", "register", "insert", "push", "ended"}]
      /\ UNCHANGED <<waiting, out>>
      /\ queue' \in {queue, [queue EXCEPT ![t] = Append(@, msg[t])]}
  BY TypeParts DEF Push, IInv, ThreadTypes, history
<1>2. {u \in Threads : tpc'[u] # "ended"} = {u \in Threads : tpc[u] # "ended"}
  BY <1>1
<1>3. CASE queue' = queue
  BY <1>1, <1>2, <1>3 DEF Merge!vars
<1>4. CASE queue' = [queue EXCEPT ![t] = Append(@, msg[t])]
  <2>1. msg[t] \in AllMsgs /\ Numbered(msg[t])
    BY <1>1 DEF IInv, Numbers, Carried, Times, Written, Writing
  <2>2. /\ msg[t].logId <= 3 + Cardinality(Statements) /\ msg[t].logId \in Nat
        /\ Cardinality(Statements) \in Nat
    BY <2>1, IdBound, Messages, CollectorAssumption, FS_CardinalityType
  <2>3. msg[t] \in [tsc : 1 .. MaxLogs, logId : 0 .. 3 + Cardinality(Statements),
                    stmt : Statements \cup {Once}]
    BY <2>1, <2>2 DEF AllMsgs
  <2>4. Merge!Log(t, msg[t])
    BY <1>1, <1>2, <1>4 DEF Merge!Log
  <2> QED BY <2>3, <2>4 DEF Merge!Next
<1> QED BY <1>1, <1>3, <1>4

(* What poll takes from the root is no younger than what waited.           *)
LEMMA HandleSimulates ==
  ASSUME IInv, Handle
  PROVE  [Merge!Next]_(Merge!vars)
<1>1. PICK t \in Threads : /\ bgThreadBuffers[1].tb = t /\ queue[t] # << >>
                           /\ 1 \in DOMAIN bgThreadBuffers
                           /\ bgThreadBuffers[1].header = Head(queue[t])
                           /\ bgThreadBuffers[1].header \in AllMsgs
  BY RootNode
<1>2. /\ ppc = "handle" /\ HeapFrom(1, bgThreadBuffers) /\ bgThreadBuffers \in Seq(Nodes)
      /\ \A u \in Threads : queue[u] \in Seq(AllMsgs)
      /\ waiting \subseteq AllMsgs
  BY TypeParts DEF Handle, IInv, Shape, ThreadTypes, PollTypes, Nodes, Headers
<1>3. /\ out' = <<Head(queue[t])>> /\ queue' = [queue EXCEPT ![t] = Tail(@)]
      /\ UNCHANGED <<waiting, tpc>>
  BY <1>1 DEF Handle
<1>4. ASSUME NEW u \in Threads, NEW m \in Contents(queue[u]) \cap waiting
      PROVE  Head(queue[t]).tsc <= m.tsc
  <2>1. PICK p \in DOMAIN queue[u] : m = queue[u][p]
    BY DEF Contents
  <2>2. queue[u] # << >> /\ ~ Clear(u)
    BY <1>2, <1>4, <2>1 DEF Clear
  <2>3. PICK k \in DOMAIN bgThreadBuffers : bgThreadBuffers[k].tb = u
    <3>1. threadBuffer[u] \in Held
      BY <2>2 DEF IInv, Buffers
    <3>2. \A k \in DOMAIN threadBuffers : threadBuffers[k] # u
      BY <1>2, <2>2 DEF IInv, Waited, Collecting
    <3> QED BY <3>1, <3>2 DEF IInv, Buffers
  <2>4. bgThreadBuffers[k].header # NoMsg
    BY <1>2, <2>2, <2>3 DEF IInv, Waited, Seen
  <2>5. bgThreadBuffers[k].header = Head(queue[u])
    BY <2>2, <2>3, <2>4 DEF IInv, Buffers, Fronts, Oldest
  <2>6. ~ Earlier(Head(queue[u]), Head(queue[t]))
    BY <1>1, <1>2, <2>5, RootEarliest
  <2>7. /\ Head(queue[u]) = queue[u][1] /\ 1 \in DOMAIN queue[u]
        /\ p \in Nat /\ 1 <= p /\ queue[u][p] \in AllMsgs /\ queue[u][1] \in AllMsgs
    BY <1>2, <2>1, <2>2
  <2>8. /\ Head(queue[u]).tsc \in Nat /\ Head(queue[t]).tsc \in Nat /\ m.tsc \in Nat
        /\ Head(queue[u]) # NoMsg
    BY <1>1, <2>1, <2>7, Messages
  <2>9. Head(queue[t]).tsc <= Head(queue[u]).tsc
    BY <2>6, <2>8 DEF Earlier
  <2>10. Head(queue[u]).tsc <= m.tsc
    <3>1. CASE p = 1
      BY <2>1, <2>7, <2>8, <3>1
    <3>2. CASE p # 1
      <4>1. queue[u][1].tsc < queue[u][p].tsc
        BY <2>7, <3>2 DEF IInv, Times, Ordered
      <4> QED BY <2>1, <2>7, <2>8, <4>1
    <3> QED BY <3>1, <3>2
  <2> QED BY <2>8, <2>9, <2>10
<1>5. Merge!GiveOut(t)
  BY <1>1, <1>3, <1>4 DEF Merge!GiveOut, Merge!Contents, Contents
<1> QED BY <1>5 DEF Merge!Next

(* A buffer is deleted when nothing in it waited.                          *)
LEMMA DeallocateSimulates ==
  ASSUME IInv, Deallocate
  PROVE  [Merge!Next]_(Merge!vars)
<1>1. UNCHANGED <<waiting, out, tpc>>
  BY DEF Deallocate, history
<1>2. CASE queue' = queue
  BY <1>1, <1>2 DEF Merge!vars
<1>3. CASE queue' # queue
  <2>1. PICK t \in Threads : /\ i \in DOMAIN bgThreadBuffers /\ t = bgThreadBuffers[i].tb
                             /\ bgThreadBuffers[i].header = NoMsg
    BY TypeParts, NodesOfSequence DEF Deallocate, IInv, Shape, PollTypes, Nodes, Headers
  <2>2. threadBuffer[t] = "shouldDeallocate" /\ queue' = [queue EXCEPT ![t] = << >>]
    BY <1>3, <2>1 DEF Deallocate
  <2>3. tpc[t] = "ended"
    BY <2>2 DEF IInv, Buffers
  <2>4. Clear(t)
    <3>1. Seen(i)
      BY TypeParts DEF Seen, Deallocate, IInv, PollTypes
    <3> QED BY <2>1, <3>1 DEF IInv, Waited
  <2>5. Merge!Lose(t)
    BY <1>1, <2>2, <2>3, <2>4 DEF Merge!Lose, Merge!Contents, Clear, Contents
  <2> QED BY <2>5 DEF Merge!Next
<1> QED BY <1>2, <1>3

(* Every step of the collector is one of LogMerge or changes nothing there. *)
LEMMA StepSimulates ==
  ASSUME IInv, [Next]_vars
  PROVE  [Merge!Next]_(Merge!vars)
<1>1. tpc \in [Threads -> {"idle", "register", "insert", "push", "ended"}]
  BY TypeParts DEF IInv, ThreadTypes
<1>2. CASE UNCHANGED <<queue, waiting, out, tpc>>
  BY <1>2 DEF Merge!vars
<1>3. ASSUME NEW t \in Threads, \/ \E s \in Statements : Log(t, s)
                                \/ LogOnce(t) \/ RegisterLogInfo(t) \/ InsertLogInfo(t)
      PROVE  [Merge!Next]_(Merge!vars)
  <2>1. /\ tpc[t] # "ended" /\ tpc'[t] # "ended" /\ \A u \in Threads \ {t} : tpc'[u] = tpc[u]
        /\ UNCHANGED <<queue, waiting, out>>
    BY <1>1, <1>3 DEF Log, LogOnce, RegisterLogInfo, InsertLogInfo, history
  <2>2. {u \in Threads : tpc'[u] # "ended"} = {u \in Threads : tpc[u] # "ended"}
    BY <2>1
  <2> QED BY <2>1, <2>2 DEF Merge!vars
<1>4. ASSUME NEW t \in Threads, ThreadEnds(t) PROVE [Merge!Next]_(Merge!vars)
  <2>1. /\ tpc'[t] = "ended" /\ \A u \in Threads \ {t} : tpc'[u] = tpc[u]
        /\ UNCHANGED <<queue, waiting, out>>
    BY <1>1, <1>4 DEF ThreadEnds, history
  <2>2. {u \in Threads : tpc'[u] # "ended"} = {u \in Threads : tpc[u] # "ended"} \ {t}
    BY <2>1
  <2>3. Merge!End(t)
    BY <2>1, <2>2 DEF Merge!End
  <2> QED BY <2>3 DEF Merge!Next
<1>5. CASE PollBegin
  <2>1. waiting' = Queued /\ UNCHANGED <<queue, out, tpc>>
    BY <1>5 DEF PollBegin, threadVars
  <2>2. Queued = UNION {Merge!Contents(t) : t \in Threads}
    BY DEF Queued, Contents, Merge!Contents
  <2>3. Merge!Begin
    BY <2>1, <2>2 DEF Merge!Begin
  <2> QED BY <2>3 DEF Merge!Next
<1>6. CASE NoBuffers \/ \E forceFlush \in BOOLEAN : PollEnd(forceFlush)
  <2>1. waiting' = {} /\ out' = << >> /\ UNCHANGED <<queue, tpc>>
    BY <1>6 DEF NoBuffers, PollEnd, PollReturns, threadVars
  <2>2. Merge!Finish
    BY <2>1 DEF Merge!Finish
  <2> QED BY <2>2 DEF Merge!Next
<1>7. CASE TakeLogInfos \/ TakeThreadBuffers \/ Front \/ BuildHeap \/ Heapify
  BY <1>2, <1>7 DEF TakeLogInfos, TakeThreadBuffers, Front, BuildHeap, Heapify, threadVars, history
<1>8. CASE Elapse \/ Sink \/ UNCHANGED vars
  BY <1>2, <1>8 DEF Elapse, Sink, CloseOutput, CloseLogFile, SetLogFile, SetStdout, vars, threadVars, history
<1>9. ASSUME NEW t \in Threads, Preallocate(t) PROVE [Merge!Next]_(Merge!vars)
  BY <1>2, <1>9 DEF Preallocate, history
<1> QED BY <1>3, <1>4, <1>5, <1>6, <1>7, <1>8, <1>9, PushSimulates, HandleSimulates,
           DeallocateSimulates DEF Next, Thread, Poll

(* The collector implements the merge of its threads.                      *)
THEOREM Refinement == Spec => ImplementsLogMerge
<1>1. Init => Merge!Init
  <2> SUFFICES ASSUME Init PROVE Merge!Init
    OBVIOUS
  <2>1. {t \in Threads : tpc[t] # "ended"} = Threads
    BY DEF Init
  <2> QED BY <2>1 DEF Init, Merge!Init
<1>2. IInv /\ [Next]_vars => [Merge!Next]_(Merge!vars)
  BY StepSimulates
<1> QED BY <1>1, <1>2, Inductive, PTL DEF Spec, ImplementsLogMerge, Merge!Spec
=============================================================================
