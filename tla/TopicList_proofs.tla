-------------------------- MODULE TopicList_proofs --------------------------
(***************************************************************************)
(* Proofs about the list of topics, for every heap and all filters and     *)
(* names.                                                                  *)
(*                                                                         *)
(* The argument: beside the pointers there is a sequence of nodes along    *)
(* which they lead.  Walk then passes its nodes in their order, since only *)
(* one function follows the pointers, so what the model reads off a walk   *)
(* is read off the sequence.  Subscribe puts a node before it, a removal   *)
(* takes some out of it, and the renewal has a place on it.  The match of  *)
(* a topic is treated likewise: only one function compares level by level, *)
(* and where the filter is not longer than the name, the rules of MQTT are *)
(* one.                                                                    *)
(***************************************************************************)
EXTENDS TopicList, FiniteSetTheorems, WellFoundedInduction, TLAPS

(* A set of natural numbers that is not empty has a least member: the      *)
(* induction of this module, by least counterexample.                      *)
LEMMA LeastOf ==
    ASSUME NEW S \in SUBSET Nat, S # {}
    PROVE  \E m \in S : \A k \in S : m <= k
<1>1. PICK m \in S : \A k \in S : ~(<<k, m>> \in OpToRel(<, Nat))
  BY NatLessThanWellFounded, WFMin
<1>2. \A k \in S : m <= k
  <2> TAKE k \in S
  <2>1. k \in Nat /\ m \in Nat
    OBVIOUS
  <2>2. ~(k < m)
    BY <1>1, <2>1 DEF OpToRel
  <2> QED
    BY <2>1, <2>2
<1> QED
  BY <1>2

-----------------------------------------------------------------------------
(* A list is given by its length n and its nodes s; behind the last node   *)
(* is NULL, as in the code.                                                *)
Item(n, s, i) == IF i \in 1 .. n THEN s[i] ELSE NULL

(* nx leads from each node of s to the next, and no node comes twice.      *)
Path(n, s, nx) ==
    /\ s \in [1 .. n -> Nodes]
    /\ \A i, j \in 1 .. n : s[i] = s[j] => i = j
    /\ \A i \in 1 .. n : nx[s[i]] = Item(n, s, i + 1)

(* Walk as an operator of the first node h and of the pointers nx, which   *)
(* stand for the values in a state or in the next one.                     *)
Steps == 0 .. Cardinality(Nodes)

After(nx, n) == IF n \in Nodes THEN nx[n] ELSE NULL

IsWalk(at, h, nx) ==
    at = [k \in Steps |-> IF k = 0 THEN h ELSE After(nx, at[k - 1])]

WalkFrom(h, nx) == CHOOSE at : IsWalk(at, h, nx)

(* The number of nodes is a natural number.                                *)
LEMMA StepsFinite == Cardinality(Nodes) \in Nat
BY FS_CardinalityType, TopicListAssumption

(* w has the nodes of s in their order and NULL after them.                *)
IsItems(w, n, s) == w = [k \in Steps |-> Item(n, s, k + 1)]

(* Only one function goes along the pointers nx from h: two would differ   *)
(* first at a step whose predecessor they share.                           *)
LEMMA WalkUnique ==
    ASSUME NEW h, NEW nx, NEW at, NEW bt, IsWalk(at, h, nx), IsWalk(bt, h, nx)
    PROVE  at = bt
<1> DEFINE S == {k \in Steps : at[k] # bt[k]}
<1>1. /\ at = [k \in Steps |-> at[k]]
      /\ bt = [k \in Steps |-> bt[k]]
  BY DEF IsWalk
<1>2. /\ \A k \in Steps : at[k] = IF k = 0 THEN h ELSE After(nx, at[k - 1])
      /\ \A k \in Steps : bt[k] = IF k = 0 THEN h ELSE After(nx, bt[k - 1])
  BY DEF IsWalk
<1>3. SUFFICES ASSUME S # {} PROVE FALSE
  BY <1>1
<1>4. PICK m \in S : \A k \in S : m <= k
  <2>1. S \in SUBSET Nat
    BY StepsFinite DEF Steps
  <2> HIDE DEF S
  <2> QED
    BY <1>3, <2>1, LeastOf
<1>5. m # 0
  BY <1>2, <1>4
<1>6. m - 1 \in Steps /\ m - 1 \notin S
  BY <1>4, <1>5, StepsFinite DEF Steps
<1>7. at[m - 1] = bt[m - 1]
  BY <1>6
<1> QED
  BY <1>2, <1>4, <1>5, <1>7

(* A walk along the pointers of a path passes the nodes of the path in     *)
(* their order and then stays at NULL.                                     *)
LEMMA WalkOfItems ==
    ASSUME NEW nx, NEW n \in Steps, NEW s, Path(n, s, nx)
    PROVE  IsItems(WalkFrom(Item(n, s, 1), nx), n, s)
<1> USE DEF Path
<1> DEFINE h == Item(n, s, 1)
<1> DEFINE f == [k \in Steps |-> Item(n, s, k + 1)]
<1>1. \A k \in Steps : f[k] = IF k = 0 THEN h ELSE After(nx, f[k - 1])
  <2> TAKE k \in Steps
  <2>1. CASE k = 0
    BY <2>1
  <2>2. CASE k # 0
    <3>1. k - 1 \in Steps /\ k \in Nat /\ n \in Nat
      BY <2>2, StepsFinite DEF Steps
    <3>2. f[k - 1] = Item(n, s, k)
      BY <3>1
    <3>3. f[k] = Item(n, s, k + 1)
      OBVIOUS
    <3>4. CASE k \in 1 .. n
      <4>1. Item(n, s, k) = s[k] /\ s[k] \in Nodes
        BY <3>4 DEF Item
      <4> QED
        BY <2>2, <3>2, <3>3, <3>4, <4>1 DEF After
    <3>5. CASE k \notin 1 .. n
      <4>1. Item(n, s, k) = NULL /\ Item(n, s, k + 1) = NULL
        BY <3>5, <2>2, <3>1 DEF Item
      <4> QED
        BY <2>2, <3>2, <3>3, <4>1, TopicListAssumption DEF After
    <3> QED
      BY <3>4, <3>5
  <2> QED
    BY <2>1, <2>2
<1>2. IsWalk(f, h, nx)
  <2> HIDE DEF f
  <2>1. f = [k \in Steps |-> f[k]]
    BY DEF f
  <2> QED
    BY <1>1, <2>1 DEF IsWalk
<1> DEFINE w == WalkFrom(h, nx)
<1>3. IsWalk(w, h, nx)
  BY <1>2 DEF WalkFrom
<1> HIDE DEF f, w
<1>4. w = f
  BY <1>2, <1>3, WalkUnique
<1> QED
  BY <1>4 DEF f, w, IsItems

(* A path has at most as many nodes as the heap.                           *)
LEMMA ChainFits ==
    ASSUME NEW n \in Nat, NEW s, NEW nx, Path(n, s, nx)
    PROVE  n <= Cardinality(Nodes)
<1>1. s \in Injection(1 .. n, Nodes)
  BY DEF Path, Injection, IsInjective
<1>2. Cardinality(1 .. n) <= Cardinality(Nodes)
  BY <1>1, FS_Injection, TopicListAssumption
<1>3. Cardinality(1 .. n) = n
  BY FS_Interval
<1> QED
  BY <1>2, <1>3


(* The first n nodes of s; the nodes before x in w.                        *)
NodesOf(n, s) == {s[i] : i \in 1 .. n}

BeforeIn(w, x) ==
    LET k == CHOOSE i \in DOMAIN w : w[i] = x
    IN  {w[i] : i \in 0 .. k} \ {x}

(* What is read off a walk that passes the nodes of s: it ends, and what   *)
(* it says of the nodes and of those before one of them.                   *)
LEMMA ItemsSeen ==
    ASSUME NEW n \in Steps, NEW s, NEW nx, Path(n, s, nx),
           NEW w, IsItems(w, n, s)
    PROVE  /\ w[Cardinality(Nodes)] = NULL
           /\ {w[k] : k \in DOMAIN w} \ {NULL} = NodesOf(n, s)
           /\ \A i \in 1 .. n : BeforeIn(w, s[i]) = NodesOf(i - 1, s)
<1>0. s \in [1 .. n -> Nodes] /\ \A i, j \in 1 .. n : s[i] = s[j] => i = j
  BY DEF Path
<1> USE <1>0
<1>1. n \in Nat /\ n <= Cardinality(Nodes) /\ Cardinality(Nodes) \in Nat
  BY StepsFinite DEF Steps
<1>2. DOMAIN w = Steps /\ \A k \in Steps : w[k] = Item(n, s, k + 1)
  BY DEF IsItems
<1>3. \A i \in 1 .. n : i - 1 \in Steps /\ w[i - 1] = s[i]
  BY <1>1, <1>2 DEF Steps, Item
<1>4. \A k \in Steps : w[k] # NULL => k + 1 \in 1 .. n /\ w[k] = s[k + 1]
  BY <1>1, <1>2 DEF Steps, Item
<1>5. NULL \notin {s[i] : i \in 1 .. n}
  BY TopicListAssumption
<1>6. w[Cardinality(Nodes)] = NULL
  BY <1>1, <1>2 DEF Steps, Item
<1>7. {w[k] : k \in DOMAIN w} \ {NULL} = {s[i] : i \in 1 .. n}
  <2>1. \A x \in {w[k] : k \in DOMAIN w} \ {NULL} : \E i \in 1 .. n : x = s[i]
    BY <1>2, <1>4
  <2>2. \A i \in 1 .. n : s[i] \in {w[k] : k \in DOMAIN w} \ {NULL}
    BY <1>2, <1>3, <1>5
  <2> QED
    BY <2>1, <2>2
<1>8. ASSUME NEW i \in 1 .. n
      PROVE  /\ (CHOOSE k \in DOMAIN w : w[k] = s[i]) = i - 1
             /\ {w[k] : k \in 0 .. i - 1} \ {s[i]} = {s[k] : k \in 1 .. i - 1}
  <2>1. \A k \in DOMAIN w : w[k] = s[i] <=> k = i - 1
    <3> TAKE k \in DOMAIN w
    <3>1. k \in Nat
      BY <1>1, <1>2 DEF Steps
    <3>2. w[k] = s[i] => k + 1 = i
      BY <1>2, <1>4, <1>5
    <3> QED
      BY <1>1, <1>3, <3>1, <3>2
  <2>2. i - 1 \in DOMAIN w
    BY <1>2, <1>3
  <2>3. (CHOOSE k \in DOMAIN w : w[k] = s[i]) = i - 1
    BY <2>1, <2>2
  <2>4. \A k \in 0 .. i - 1 : k + 1 \in 1 .. n /\ k \in Steps /\ w[k] = s[k + 1]
    BY <1>1, <1>2 DEF Steps, Item
  <2>5. \A k \in 1 .. i - 1 :
            k - 1 \in 0 .. i - 1 /\ w[k - 1] = s[k] /\ s[k] # s[i]
    BY <1>1, <1>3
  <2>6. {w[k] : k \in 0 .. i - 1} \ {s[i]} \subseteq {s[k] : k \in 1 .. i - 1}
    <3> SUFFICES ASSUME NEW x \in {w[k] : k \in 0 .. i - 1} \ {s[i]}
                 PROVE  x \in {s[k] : k \in 1 .. i - 1}
      OBVIOUS
    <3>1. PICK k \in 0 .. i - 1 : x = w[k] /\ w[k] # s[i]
      OBVIOUS
    <3>2. k + 1 # i
      BY <2>4, <3>1
    <3>3. k + 1 \in 1 .. i - 1 /\ x = s[k + 1]
      BY <1>1, <2>4, <3>1, <3>2
    <3> QED
      BY <3>3
  <2>7. {s[k] : k \in 1 .. i - 1} \subseteq {w[k] : k \in 0 .. i - 1} \ {s[i]}
    BY <2>5
  <2> QED
    BY <2>3, <2>6, <2>7
<1>9. \A i \in 1 .. n : BeforeIn(w, s[i]) = NodesOf(i - 1, s)
  BY <1>8 DEF BeforeIn, NodesOf
<1> QED
  BY <1>6, <1>7, <1>9 DEF NodesOf

(* The list in memory: the pointers lead along s, every node has its       *)
(* filter and all but the first are in use.  The first is not after a      *)
(* subscription that failed (mqtt_user.c 736).                             *)
Chain(n, s) ==
    /\ Path(n, s, next)
    /\ head = Item(n, s, 1)
    /\ \A i \in 1 .. n : /\ topic[s[i]] \in Filters
                         /\ i # 1 => s[i] \in allocated

(* Walk, in a state and in the next one, is the walk from head along next. *)
LEMMA WalkIs ==
    /\ Walk = WalkFrom(head, next)
    /\ Walk' = WalkFrom(head', next')
BY DEF Walk, WalkFrom, IsWalk, Follow, After, Steps

(* Where the list is s, the operators of TopicList that walk it give the   *)
(* nodes of s.                                                             *)
LEMMA ChainSeen ==
    ASSUME NEW n \in Steps, NEW s, Chain(n, s)
    PROVE  /\ Walk[Cardinality(Nodes)] = NULL
           /\ Linked = NodesOf(n, s)
           /\ \A i \in 1 .. n : Before(s[i]) = NodesOf(i - 1, s)
<1>1. Path(n, s, next) /\ head = Item(n, s, 1)
  BY DEF Chain
<1>2. IsItems(Walk, n, s)
  BY <1>1, WalkOfItems, WalkIs
<1> HIDE DEF Walk
<1>3. /\ Walk[Cardinality(Nodes)] = NULL
      /\ {Walk[k] : k \in DOMAIN Walk} \ {NULL} = NodesOf(n, s)
      /\ \A i \in 1 .. n : BeforeIn(Walk, s[i]) = NodesOf(i - 1, s)
  BY <1>1, <1>2, ItemsSeen
<1>4. \A i \in 1 .. n : Before(s[i]) = BeforeIn(Walk, s[i])
  BY DEF Before, BeforeIn
<1> QED
  BY <1>3, <1>4 DEF Linked

(* The same of the nodes of the list after a step.                         *)
LEMMA ChainSeenNext ==
    ASSUME NEW n \in Steps, NEW s, Chain(n, s)'
    PROVE  Linked' = NodesOf(n, s)
<1>1. Path(n, s, next') /\ head' = Item(n, s, 1)
  BY DEF Chain
<1>2. IsItems(Walk', n, s)
  BY <1>1, WalkOfItems, WalkIs
<1>3. {Walk'[k] : k \in DOMAIN Walk'} \ {NULL} = NodesOf(n, s)
  BY <1>1, <1>2, ItemsSeen
<1> QED
  BY <1>3 DEF Linked

-----------------------------------------------------------------------------
(* Nodes j + 1 to i are left out.                                          *)
Splice(n, s, j, i) ==
    [k \in 1 .. j + n - i |-> IF k <= j THEN s[k] ELSE s[k - j + i]]

(* If the pointer of node j is set to the one of node i, and the others    *)
(* but those of the nodes between stay, the pointers lead along the list   *)
(* without nodes j + 1 to i.                                               *)
LEMMA SplicedPath ==
    ASSUME NEW n \in Nat, NEW s, NEW nx, Path(n, s, nx),
           NEW i \in 1 .. n, NEW j \in 0 .. i - 1,
           NEW ny,
           \A k \in 1 .. n : k < j \/ i < k => ny[s[k]] = nx[s[k]],
           j # 0 => ny[s[j]] = nx[s[i]]
    PROVE  /\ Path(j + n - i, Splice(n, s, j, i), ny)
           /\ \A k \in 1 .. j + n - i :
                 /\ Splice(n, s, j, i)[k] # s[i]
                 /\ \E m \in k .. n : Splice(n, s, j, i)[k] = s[m]
           /\ \A k \in 1 .. j + n - i + 1 :
                 Item(j + n - i, Splice(n, s, j, i), k)
                     = Item(n, s, IF k <= j THEN k ELSE k - j + i)
<1> DEFINE l == j + n - i
           t == Splice(n, s, j, i)
           At(k) == IF k <= j THEN k ELSE k - j + i
<1>0. /\ s \in [1 .. n -> Nodes]
      /\ \A a, b \in 1 .. n : s[a] = s[b] => a = b
      /\ \A a \in 1 .. n : nx[s[a]] = Item(n, s, a + 1)
  BY DEF Path
<1>1. l \in Nat /\ i \in Nat /\ j \in Nat /\ j < i /\ i <= n /\ l < n
  OBVIOUS
<1>2. \A k \in 1 .. l : At(k) \in 1 .. n /\ t[k] = s[At(k)] /\ At(k) # i
  BY <1>1 DEF Splice
<1>3. \A k \in 1 .. l : k <= At(k)
  BY <1>1
<1>4. \A a, b \in 1 .. l : At(a) = At(b) => a = b
  BY <1>1
<1>5. \A k \in 1 .. l + 1 : Item(l, t, k) = Item(n, s, At(k))
  <2> TAKE k \in 1 .. l + 1
  <2>1. CASE k \in 1 .. l
    BY <1>2, <2>1 DEF Item
  <2>2. CASE k = l + 1
    <3>1. k \notin 1 .. l /\ At(k) \notin 1 .. n
      BY <1>1, <2>2
    <3> QED
      BY <3>1 DEF Item
  <2> QED
    BY <1>1, <2>1, <2>2
<1>6. \A k \in 1 .. l : ny[t[k]] = Item(l, t, k + 1)
  <2> TAKE k \in 1 .. l
  <2>1. k + 1 \in 1 .. l + 1 /\ k \in Nat
    BY <1>1
  <2>2. Item(l, t, k + 1) = Item(n, s, At(k + 1))
    BY <1>5, <2>1
  <2>3. CASE k = j
    <3>1. At(k + 1) = i + 1 /\ t[k] = s[j]
      BY <1>1, <1>2, <2>3
    <3>2. nx[s[i]] = Item(n, s, i + 1)
      BY <1>0
    <3>3. j # 0
      BY <2>3
    <3> QED
      BY <2>2, <3>1, <3>2, <3>3
  <2>4. CASE k # j
    <3>1. At(k + 1) = At(k) + 1
      BY <1>1, <2>1, <2>4
    <3>2. At(k) < j \/ i < At(k)
      BY <1>1, <2>1, <2>4
    <3>3. At(k) \in 1 .. n /\ t[k] = s[At(k)]
      BY <1>2
    <3> HIDE DEF At
    <3>4. ny[s[At(k)]] = nx[s[At(k)]]
      BY <3>2, <3>3
    <3>5. nx[s[At(k)]] = Item(n, s, At(k) + 1)
      BY <1>0, <3>3
    <3> QED
      BY <2>2, <3>1, <3>3, <3>4, <3>5
  <2> QED
    BY <2>3, <2>4
<1>7. t \in [1 .. l -> Nodes]
  <2>1. t = [k \in 1 .. l |-> s[At(k)]]
    BY <1>2 DEF Splice
  <2> HIDE DEF t, At
  <2> QED
    BY <1>0, <1>2, <2>1
<1>8. \A a, b \in 1 .. l : t[a] = t[b] => a = b
  <2> HIDE DEF t, At
  <2> QED
    BY <1>0, <1>2, <1>4
<1>9. Path(l, t, ny)
  <2> HIDE DEF t
  <2> QED
    BY <1>6, <1>7, <1>8 DEF Path
<1>10. \A k \in 1 .. l : /\ t[k] # s[i]
                         /\ \E m \in k .. n : t[k] = s[m]
  <2> TAKE k \in 1 .. l
  <2>1. t[k] # s[i]
    <3> HIDE DEF t, At
    <3> QED
      BY <1>0, <1>2
  <2>2. At(k) \in k .. n /\ t[k] = s[At(k)]
    BY <1>1, <1>2, <1>3
  <2> HIDE DEF t, At
  <2> QED
    BY <2>1, <2>2
<1> QED
  BY <1>5, <1>9, <1>10

-----------------------------------------------------------------------------
(* The filters of the first i nodes.                                       *)
TopicsUpTo(s, i) == {topic[s[j]] : j \in 1 .. i}

(* The renewal is at node i, or behind the last, and prev is a node before *)
(* it unless it is at the first.  As long as the session lasts the server  *)
(* has the filters of the nodes before.                                    *)
Renewal(n, s) ==
    \E i \in 1 .. n + 1 :
       /\ curr = Item(n, s, i)
       /\ i \in 2 .. n => \E j \in 1 .. i - 1 : prev = s[j]
       /\ session = "open" => subscribed = TopicsUpTo(s, i - 1)

(* What TypeOK says without walking.                                       *)
Types ==
    /\ moduleState \in {"IDLE", "INITIALIZED", "CONNECTED"}
    /\ {curr, prev, called} \subseteq Nodes \cup {NULL}
    /\ next \in [Nodes -> Nodes \cup {NULL}]
    /\ topic \in [Nodes -> Filters \cup {<< >>}]
    /\ allocated \subseteq Nodes
    /\ app \in {"idle", "connack", "renew"}
    /\ session \in {"closed", "open"} /\ subscribed \subseteq Filters

(* A session is open only while the module is connected; none, or a new    *)
(* one, has no subscription yet; the renewal starts from a readable list   *)
(* (mqtt_user.c 340-352).                                                  *)
SessionInv ==
    /\ session = "open" => moduleState = "CONNECTED"
    /\ session = "closed" \/ app = "connack" => subscribed = {}
    /\ app = "renew" => Readable

(* There is a list in memory, and the renewal, if it is under way, is on   *)
(* it.                                                                     *)
ListInv == \E n \in 0 .. Cardinality(Nodes) : \E s \in [1 .. n -> Nodes] :
               /\ Chain(n, s)
               /\ app = "renew" => Renewal(n, s)

(* The inductive invariant.                                                *)
IInv == Types /\ SessionInv /\ ListInv

-----------------------------------------------------------------------------
(* The first node is the head, and no other is.                            *)
LEMMA HeadIsFirst ==
    ASSUME NEW n \in Steps, NEW s, Chain(n, s)
    PROVE  /\ n \in Nat
           /\ s \in [1 .. n -> Nodes]
           /\ n = 0 => head = NULL
           /\ n # 0 => head = s[1] /\ head \in Nodes
           /\ \A i \in 1 .. n : s[i] = head <=> i = 1
<1>1. n \in Nat
  BY StepsFinite DEF Steps
<1>2. /\ s \in [1 .. n -> Nodes]
      /\ \A a, b \in 1 .. n : s[a] = s[b] => a = b
      /\ head = Item(n, s, 1)
  BY DEF Chain, Path
<1>3. CASE n = 0
  BY <1>2, <1>3 DEF Item
<1>4. CASE n # 0
  <2>1. 1 \in 1 .. n
    BY <1>1, <1>4
  <2>2. head = s[1] /\ s[1] \in Nodes
    BY <1>2, <2>1 DEF Item
  <2> QED
    BY <1>1, <1>2, <1>4, <2>1, <2>2
<1> QED
  BY <1>3, <1>4

(* The length of a path is the number of a step of the walk.               *)
LEMMA PathInSteps ==
    ASSUME NEW n \in Nat, NEW s, NEW nx, Path(n, s, nx)
    PROVE  n \in Steps
BY ChainFits, StepsFinite DEF Steps

(* Taking node i out by the pointer of node j leaves the list without      *)
(* nodes j + 1 to i; at the head nothing is before i.                      *)
LEMMA UnlinkChain ==
    ASSUME NEW n \in Steps, NEW s, Chain(n, s), Types,
           NEW i \in 1 .. n, NEW j \in 0 .. i - 1, i # 1 => j # 0,
           NEW p, i # 1 => p = s[j],
           Unlink(s[i], p), Free({s[i]})
    PROVE  /\ j + n - i \in Steps
           /\ Chain(j + n - i, Splice(n, s, j, i))'
<1> DEFINE l == j + n - i
           t == Splice(n, s, j, i)
<1>1. /\ Path(n, s, next) /\ s \in [1 .. n -> Nodes]
      /\ \A a, b \in 1 .. n : s[a] = s[b] => a = b
      /\ \A a \in 1 .. n : next[s[a]] = Item(n, s, a + 1)
      /\ next \in [Nodes -> Nodes \cup {NULL}]
      /\ topic \in [Nodes -> Filters \cup {<< >>}]
  BY DEF Chain, Path, Types
<1>2. /\ n \in Nat /\ i \in Nat /\ j \in Nat /\ l \in Nat
      /\ n # 0
      /\ s[i] = head <=> i = 1
      /\ head = s[1] /\ head = Item(n, s, 1)
  <2>1. n \in Nat /\ i \in Nat /\ j \in Nat /\ l \in Nat /\ n # 0
    BY StepsFinite DEF Steps
  <2>2. head = Item(n, s, 1)
    BY DEF Chain
  <2> HIDE DEF l
  <2> QED
    BY <2>1, <2>2, HeadIsFirst
<1>3. /\ \A k \in 1 .. n : k < j \/ i < k => next'[s[k]] = next[s[k]]
      /\ j # 0 => next'[s[j]] = next[s[i]]
  <2>1. CASE i = 1
    <3>1. \A x \in Nodes : x # s[i] => next'[x] = next[x]
      BY <1>2, <2>1 DEF Unlink, Cleared
    <3> QED
      BY <1>1, <1>2, <2>1, <3>1
  <2>2. CASE i # 1
    <3>1. s[i] # head /\ p = s[j] /\ p \in Nodes /\ s[i] \in Nodes
      BY <1>1, <1>2, <2>2
    <3>2. \A x \in Nodes : x # s[i] =>
              next'[x] = [next EXCEPT ![p] = next[s[i]]][x]
      BY <3>1 DEF Unlink, Cleared
    <3>3. \A x \in Nodes : x # s[i] =>
              next'[x] = IF x = p THEN next[s[i]] ELSE next[x]
      BY <1>1, <3>1, <3>2
    <3>4. \A k \in 1 .. n : k < j \/ i < k =>
              s[k] \in Nodes /\ s[k] # s[i] /\ s[k] # s[j]
      BY <1>1, <1>2, <2>2
    <3>5. s[j] # s[i]
      BY <1>1, <1>2, <2>2
    <3> QED
      BY <3>1, <3>3, <3>4, <3>5
  <2> QED
    BY <2>1, <2>2
<1>4. /\ Path(l, t, next')
      /\ \A k \in 1 .. l : t[k] # s[i] /\ \E m \in k .. n : t[k] = s[m]
      /\ \A k \in 1 .. l + 1 :
            Item(l, t, k) = Item(n, s, IF k <= j THEN k ELSE k - j + i)
  <2>1. /\ Path(j + n - i, Splice(n, s, j, i), next')
        /\ \A k \in 1 .. j + n - i :
              /\ Splice(n, s, j, i)[k] # s[i]
              /\ \E m \in k .. n : Splice(n, s, j, i)[k] = s[m]
        /\ \A k \in 1 .. j + n - i + 1 :
              Item(j + n - i, Splice(n, s, j, i), k)
                  = Item(n, s, IF k <= j THEN k ELSE k - j + i)
    <3>1. n \in Nat /\ Path(n, s, next)
      BY <1>1, <1>2
    <3> QED
      BY <3>1, <1>3, SplicedPath
  <2> QED
    BY <2>1
<1>5. head' = Item(l, t, 1)
  <2>1. Item(l, t, 1) = Item(n, s, IF 1 <= j THEN 1 ELSE 1 - j + i)
    <3>1. 1 \in 1 .. l + 1
      BY <1>2
    <3> HIDE DEF l, t
    <3> QED
      BY <1>4, <3>1
  <2>2. CASE i = 1
    <3>1. j = 0
      BY <2>2
    <3>2. Item(l, t, 1) = Item(n, s, i + 1)
      BY <1>2, <2>1, <3>1
    <3>3. head' = next[s[i]]
      BY <1>2, <2>2 DEF Unlink
    <3> QED
      BY <1>1, <3>2, <3>3
  <2>3. CASE i # 1
    <3>1. 1 <= j
      BY <1>2, <2>3
    <3>2. head' = head
      BY <1>2, <2>3 DEF Unlink
    <3> QED
      BY <1>2, <2>1, <3>1, <3>2
  <2> QED
    BY <2>2, <2>3
<1>6. ASSUME NEW k \in 1 .. l
      PROVE  /\ topic'[t[k]] \in Filters
             /\ k # 1 => t[k] \in allocated'
  <2> HIDE DEF l, t
  <2>1. PICK m \in k .. n : t[k] = s[m]
    BY <1>4
  <2>2. m \in 1 .. n /\ (k # 1 => m # 1)
    BY <1>2
  <2>3. t[k] # s[i] /\ t[k] \in Nodes
    BY <1>1, <1>4, <2>1, <2>2
  <2>4. topic'[t[k]] = topic[t[k]]
    BY <2>3 DEF Free, Cleared
  <2>5. topic[s[m]] \in Filters /\ (m # 1 => s[m] \in allocated)
    BY <2>2 DEF Chain
  <2> QED
    BY <2>1, <2>2, <2>3, <2>4, <2>5 DEF Free
<1>7. l \in Steps
  <2> HIDE DEF l, t
  <2> QED
    BY <1>2, <1>4, PathInSteps
<1> HIDE DEF l, t
<1>8. Chain(l, t)'
  BY <1>4, <1>5, <1>6 DEF Chain
<1> QED
  BY <1>7, <1>8 DEF l, t

(* What is to be shown of the list after a step.                           *)
LEMMA ListInvIntro ==
    ASSUME NEW n \in Steps, NEW s, Chain(n, s)',
           app' = "renew" => Renewal(n, s)'
    PROVE  ListInv'
<1>1. s \in [1 .. n -> Nodes]
  BY DEF Chain, Path
<1> QED
  BY <1>1 DEF ListInv, Steps

(* Where the pointers stay and nothing is freed, the list is the same.     *)
LEMMA ChainKept ==
    ASSUME NEW n, NEW s, Chain(n, s), UNCHANGED <<head, next, topic>>,
           allocated \subseteq allocated'
    PROVE  Chain(n, s)'
BY DEF Chain

(* So is the place of the renewal, also when the session is lost.          *)
LEMMA RenewalKept ==
    ASSUME NEW n, NEW s, Renewal(n, s), UNCHANGED <<topic, curr, prev>>,
           session' = "open" => session = "open" /\ subscribed' = subscribed
    PROVE  Renewal(n, s)'
<1>1. PICK i \in 1 .. n + 1 :
          /\ curr = Item(n, s, i)
          /\ i \in 2 .. n => \E j \in 1 .. i - 1 : prev = s[j]
          /\ session = "open" => subscribed = TopicsUpTo(s, i - 1)
  BY DEF Renewal
<1>2. TopicsUpTo(s, i - 1)' = TopicsUpTo(s, i - 1)
  BY DEF TopicsUpTo
<1> QED
  BY <1>1, <1>2 DEF Renewal

(* Outside the renewal the list is all there is to show.                   *)
LEMMA ListInvIdle ==
    ASSUME NEW n \in Steps, NEW s, Chain(n, s)', app' # "renew"
    PROVE  ListInv'
BY ListInvIntro

(* A head that is NULL is the empty list (MQTT_IF_Deinit).                 *)
LEMMA EmptyChain ==
    ASSUME head' = NULL
    PROVE  0 \in Steps /\ Chain(0, [k \in 1 .. 0 |-> NULL])'
<1> DEFINE s == [k \in 1 .. 0 |-> NULL]
<1>1. 0 \in Steps
  BY StepsFinite DEF Steps
<1>2. Path(0, s, next') /\ NULL = Item(0, s, 1)
  BY DEF Path, Item
<1> QED
  BY <1>1, <1>2 DEF Chain

(* The invariant holds before MQTT_IF_Init.                                *)
LEMMA InitIInv == Init => IInv
<1> SUFFICES ASSUME Init PROVE IInv
  OBVIOUS
<1>1. Types
  BY DEF Init, Types
<1>2. SessionInv
  BY DEF Init, SessionInv
<1>3. ListInv
  <2> DEFINE s == [k \in 1 .. 0 |-> NULL]
  <2>1. 0 \in Steps
    BY StepsFinite DEF Steps
  <2>2. Path(0, s, next) /\ NULL = Item(0, s, 1) /\ s \in [1 .. 0 -> Nodes]
    BY DEF Path, Item
  <2>3. Chain(0, s)
    BY <2>2 DEF Chain, Init
  <2> HIDE DEF s
  <2> QED
    BY <2>1, <2>2, <2>3 DEF ListInv, Init, Steps
<1> QED
  BY <1>1, <1>2, <1>3 DEF IInv

(* x, with the topic f, becomes the first node.                            *)
PutFirst(x, f) ==
    /\ next' = [next EXCEPT ![x] = head]
    /\ topic' = [topic EXCEPT ![x] = f]
    /\ head' = x
    /\ allocated \subseteq allocated'

(* The list with x before the others.                                      *)
Prepended(x, n, s) == [k \in 1 .. n + 1 |-> IF k = 1 THEN x ELSE s[k - 1]]

(* Putting a new node first gives the list with that node before the       *)
(* others, for a node that malloc gives is not in the list.                *)
LEMMA ConsChain ==
    ASSUME NEW n \in Steps, NEW s, Chain(n, s), Types, Readable,
           NEW x \in Nodes \ allocated, NEW f \in Filters,
           PutFirst(x, f)
    PROVE  /\ n + 1 \in Steps
           /\ Chain(n + 1, Prepended(x, n, s))'
           /\ Prepended(x, n, s)[1] = x
           /\ \A k \in 1 .. n : Prepended(x, n, s)[k + 1] = s[k] /\ s[k] # x
<1> USE DEF PutFirst
<1> DEFINE t == Prepended(x, n, s)
<1>1. /\ n \in Nat /\ Path(n, s, next) /\ head = Item(n, s, 1)
      /\ s \in [1 .. n -> Nodes]
      /\ \A a, b \in 1 .. n : s[a] = s[b] => a = b
      /\ \A a \in 1 .. n : next[s[a]] = Item(n, s, a + 1)
  BY StepsFinite DEF Chain, Path, Steps
<1>2. \A k \in 1 .. n : s[k] \in allocated /\ s[k] # x
  <2>1. \A k \in 1 .. n : k # 1 => s[k] \in allocated
    BY DEF Chain
  <2>2. 1 \in 1 .. n => s[1] \in allocated
    BY <1>1, TopicListAssumption DEF Readable, Item
  <2> QED
    BY <2>1, <2>2
<1>3. /\ t[1] = x
      /\ \A k \in 1 .. n : t[k + 1] = s[k]
      /\ \A k \in 1 .. n + 1 : k # 1 => k - 1 \in 1 .. n /\ t[k] = s[k - 1]
      /\ t \in [1 .. n + 1 -> Nodes]
  BY <1>1 DEF Prepended
<1> HIDE DEF t
<1>4. \A a, b \in 1 .. n + 1 : t[a] = t[b] => a = b
  <2> TAKE a, b \in 1 .. n + 1
  <2>1. CASE a # 1 /\ b # 1
    BY <1>1, <1>3, <2>1
  <2>2. CASE a = 1 \/ b = 1
    BY <1>2, <1>3, <2>2
  <2> QED
    BY <2>1, <2>2
<1>5. /\ next'[x] = head /\ topic'[x] = f
      /\ \A k \in 1 .. n : next'[s[k]] = next[s[k]] /\ topic'[s[k]] = topic[s[k]]
  BY <1>1, <1>2 DEF Types
<1>6. \A k \in 1 .. n + 1 : Item(n + 1, t, k + 1) = Item(n, s, k)
  BY <1>1, <1>3 DEF Item
<1>7. \A k \in 1 .. n + 1 : next'[t[k]] = Item(n + 1, t, k + 1)
  <2> TAKE k \in 1 .. n + 1
  <2>1. CASE k = 1
    BY <1>1, <1>3, <1>5, <1>6, <2>1
  <2>2. CASE k # 1
    <3>1. next[s[k - 1]] = Item(n, s, k)
      BY <1>1, <1>3, <2>2
    <3> QED
      BY <1>3, <1>5, <1>6, <2>2, <3>1
  <2> QED
    BY <2>1, <2>2
<1>8. Path(n + 1, t, next')
  BY <1>3, <1>4, <1>7 DEF Path
<1>9. n + 1 \in Steps
  BY <1>1, <1>8, PathInSteps
<1>10. head' = Item(n + 1, t, 1)
  BY <1>1, <1>3 DEF Item
<1>11. \A k \in 1 .. n + 1 : /\ topic'[t[k]] \in Filters
                             /\ k # 1 => t[k] \in allocated'
  <2> TAKE k \in 1 .. n + 1
  <2>1. CASE k = 1
    BY <1>3, <1>5, <2>1
  <2>2. CASE k # 1
    <3>1. k - 1 \in 1 .. n /\ t[k] = s[k - 1]
      BY <1>3, <2>2
    <3>2. topic[s[k - 1]] \in Filters
      BY <3>1 DEF Chain
    <3> QED
      BY <1>2, <1>5, <3>1, <3>2
  <2> QED
    BY <2>1, <2>2
<1>12. Chain(n + 1, t)'
  BY <1>8, <1>10, <1>11 DEF Chain
<1> QED
  BY <1>2, <1>3, <1>9, <1>12 DEF t

(* The nodes that are left when j + 1 to i are out.                        *)
SplicedSet(n, s, j, i) == NodesOf(j, s) \cup {s[k] : k \in i + 1 .. n}

(* They are the nodes of the spliced list.                                 *)
LEMMA SplicedNodes ==
    ASSUME NEW n \in Nat, NEW s, NEW i \in 1 .. n, NEW j \in 0 .. i - 1
    PROVE  NodesOf(j + n - i, Splice(n, s, j, i)) = SplicedSet(n, s, j, i)
<1> DEFINE l == j + n - i
           t == Splice(n, s, j, i)
<1>1. \A k \in 1 .. l : \/ k \in 1 .. j /\ t[k] = s[k]
                        \/ k - j + i \in i + 1 .. n /\ t[k] = s[k - j + i]
  BY DEF Splice
<1>2. \A k \in 1 .. j : k \in 1 .. l /\ t[k] = s[k]
  BY DEF Splice
<1>3. \A k \in i + 1 .. n : k - i + j \in 1 .. l /\ t[k - i + j] = s[k]
  BY DEF Splice
<1> HIDE DEF l, t
<1>4. {t[k] : k \in 1 .. l} = {s[k] : k \in 1 .. j} \cup {s[k] : k \in i + 1 .. n}
  <2>1. \A k \in 1 .. l :
            t[k] \in {s[m] : m \in 1 .. j} \cup {s[m] : m \in i + 1 .. n}
    BY <1>1
  <2>2. \A k \in 1 .. j : s[k] \in {t[m] : m \in 1 .. l}
    BY <1>2
  <2>3. \A k \in i + 1 .. n : s[k] \in {t[m] : m \in 1 .. l}
    BY <1>3
  <2> QED
    BY <2>1, <2>2, <2>3
<1> QED
  BY <1>4 DEF l, t, NodesOf, SplicedSet

(* The node before another is the one that is found by its pointer.        *)
LEMMA PredOf ==
    ASSUME NEW n \in Steps, NEW s, Chain(n, s), NEW i \in 1 .. n, i # 1
    PROVE  Pred(s[i]) = s[i - 1]
<1>1. /\ n \in Nat
      /\ s \in [1 .. n -> Nodes]
      /\ \A a, b \in 1 .. n : s[a] = s[b] => a = b
      /\ \A a \in 1 .. n : next[s[a]] = Item(n, s, a + 1)
  BY StepsFinite DEF Chain, Path, Steps
<1>2. Linked = NodesOf(n, s)
  BY ChainSeen
<1>3. \A k \in 1 .. n : next[s[k]] = s[i] <=> k = i - 1
  <2> TAKE k \in 1 .. n
  <2>1. CASE k = n
    BY <1>1, <2>1, TopicListAssumption DEF Item
  <2>2. CASE k # n
    BY <1>1, <2>2 DEF Item
  <2> QED
    BY <2>1, <2>2
<1>4. i - 1 \in 1 .. n
  BY <1>1
<1>5. \A p \in Linked : next[p] = s[i] <=> p = s[i - 1]
  BY <1>1, <1>2, <1>3, <1>4 DEF NodesOf
<1>6. s[i - 1] \in Linked
  BY <1>2, <1>4 DEF NodesOf
<1> QED
  BY <1>5, <1>6 DEF Pred

(* MQTT_IF_Unsubscribe takes exactly the node it has found out of the list *)
(* (mqtt_user.c 772-801).                                                  *)
LEMMA Unlinked ==
    ASSUME NEW n \in Steps, NEW s, Chain(n, s), Types, NEW i \in 1 .. n,
           Unlink(s[i], Pred(s[i])), Free({s[i]})
    PROVE  /\ \E m \in Steps : \E t : Chain(m, t)'
           /\ Linked' = Linked \ {s[i]}
<1> DEFINE l == i - 1 + n - i
           t == Splice(n, s, i - 1, i)
<1>1. n \in Nat /\ i \in Nat /\ i - 1 \in 0 .. i - 1 /\ (i # 1 => i - 1 # 0)
  BY StepsFinite DEF Steps
<1>2. i # 1 => Pred(s[i]) = s[i - 1]
  BY PredOf
<1>3. l \in Steps /\ Chain(l, t)'
  <2> DEFINE p == Pred(s[i])
             j == i - 1
  <2>1. /\ j \in 0 .. i - 1 /\ (i # 1 => j # 0)
        /\ i # 1 => p = s[j]
        /\ Unlink(s[i], p)
    BY <1>1, <1>2
  <2> HIDE DEF p, j
  <2>2. j + n - i \in Steps /\ Chain(j + n - i, Splice(n, s, j, i))'
    BY <2>1, UnlinkChain
  <2> QED
    BY <2>2 DEF j
<1>4. Linked = NodesOf(n, s) /\ Linked' = NodesOf(l, t)
  <2> HIDE DEF l, t
  <2> QED
    BY <1>3, ChainSeen, ChainSeenNext
<1>5. NodesOf(l, t) = SplicedSet(n, s, i - 1, i)
  BY <1>1, SplicedNodes
<1>6. \A a, b \in 1 .. n : s[a] = s[b] => a = b
  BY DEF Chain, Path
<1>7. SplicedSet(n, s, i - 1, i) = NodesOf(n, s) \ {s[i]}
  BY <1>1, <1>6 DEF NodesOf, SplicedSet
<1> HIDE DEF l, t
<1> QED
  BY <1>3, <1>4, <1>5, <1>7

-----------------------------------------------------------------------------
(* What a walk finds is a node of the list, or NULL.                       *)
LEMMA MatchesAreLinked ==
    ASSUME NEW p
    PROVE  FirstMatch(p) \subseteq Linked \cup {NULL}
BY DEF FirstMatch

(* The nodes of the list are nodes of the heap and have their filters.     *)
LEMMA LinkedNodes ==
    ASSUME NEW n \in Steps, NEW s, Chain(n, s)
    PROVE  Linked \subseteq Nodes /\ \A x \in Linked : topic[x] \in Filters
<1>1. Linked = NodesOf(n, s)
  BY ChainSeen
<1> QED
  BY <1>1 DEF Chain, Path, NodesOf

(* A subscription of the renewal that fails takes nodes j + 1 to i out,    *)
(* where prev is node j and curr node i; the renewal goes on at the one    *)
(* after the next, or at the new head (mqtt_user.c 363-379).               *)
LEMMA FailedRenewal ==
    ASSUME NEW n \in Steps, NEW s, Chain(n, s), Types, SessionInv,
           Renewal(n, s), AppSubscribeFails
    PROVE  \E i \in 1 .. n, j \in Nat :
              /\ j < i /\ curr = s[i] /\ (i # 1 => j # 0 /\ prev = s[j])
              /\ j + n - i \in Steps
              /\ Chain(j + n - i, Splice(n, s, j, i))'
              /\ Renewal(j + n - i, Splice(n, s, j, i))'
<1>1. PICK i \in 1 .. n + 1 :
          /\ curr = Item(n, s, i)
          /\ i \in 2 .. n => \E j \in 1 .. i - 1 : prev = s[j]
  BY DEF Renewal
<1>2. /\ n \in Nat /\ Path(n, s, next) /\ s \in [1 .. n -> Nodes]
      /\ \A a \in 1 .. n : next[s[a]] = Item(n, s, a + 1)
      /\ head = Item(n, s, 1)
      /\ n # 0 => head = s[1]
      /\ \A a \in 1 .. n : s[a] = head <=> a = 1
  BY StepsFinite, HeadIsFirst DEF Chain, Path, Steps
<1>3. i \in 1 .. n /\ curr = s[i]
  BY <1>1 DEF AppSubscribeFails, Item
<1>4. PICK j \in Nat : j < i /\ (i # 1 => j # 0 /\ prev = s[j])
  <2>1. CASE i = 1
    BY <2>1
  <2>2. CASE i # 1
    BY <1>1, <1>3, <2>2
  <2> QED
    BY <2>1, <2>2
<1> DEFINE l == j + n - i
           t == Splice(n, s, j, i)
<1>5. j \in 0 .. i - 1
  BY <1>3, <1>4
<1>6. l \in Steps /\ Chain(l, t)'
  BY <1>3, <1>4, <1>5, UnlinkChain DEF AppSubscribeFails
<1>7. \A k \in 1 .. l + 1 :
          Item(l, t, k) = Item(n, s, IF k <= j THEN k ELSE k - j + i)
  <2>1. \A k \in 1 .. l : t[k] = s[IF k <= j THEN k ELSE k - j + i]
    BY DEF Splice
  <2>2. \A k \in 1 .. l : (IF k <= j THEN k ELSE k - j + i) \in 1 .. n
    BY <1>2, <1>3, <1>4
  <2>3. \A k \in 1 .. l + 1 : k \notin 1 .. l =>
            (IF k <= j THEN k ELSE k - j + i) \notin 1 .. n
    BY <1>2, <1>3, <1>4
  <2> HIDE DEF l, t
  <2> QED
    BY <2>1, <2>2, <2>3 DEF Item
<1>8. l \in Nat
  BY <1>2, <1>3, <1>4
<1>9. j # 0 => t[j] = s[j] /\ j \in 1 .. l
  BY <1>2, <1>3, <1>4 DEF Splice
<1>10. session' = "closed"
  BY DEF AppSubscribeFails, server
<1>11. Renewal(l, t)'
  <2> HIDE DEF l, t
  <2>1. CASE i = 1
    <3>1. j = 0 /\ curr' = next[curr] /\ curr = head
      BY <1>2, <1>3, <1>4, <2>1 DEF AppSubscribeFails, AfterFailure
    <3>2. curr' = Item(n, s, 2)
      BY <1>2, <1>3, <2>1, <3>1
    <3>3. 1 \in 1 .. l + 1 /\ Item(l, t, 1) = Item(n, s, 2)
      BY <1>7, <1>8, <2>1, <3>1
    <3> QED
      BY <1>10, <3>2, <3>3 DEF Renewal
  <2>2. CASE i = n /\ i # 1
    <3>1. curr' = Follow(next[curr]) /\ next[curr] = NULL
      BY <1>2, <1>3, <2>2 DEF AppSubscribeFails, AfterFailure, Item
    <3>2. curr' = NULL
      BY <3>1, TopicListAssumption DEF Follow
    <3>3. l + 1 \in 1 .. l + 1 /\ l + 1 \notin 2 .. l /\ l + 1 \notin 1 .. l
      BY <1>8
    <3>4. Item(l, t, l + 1) = NULL
      BY <3>3 DEF Item
    <3> QED
      BY <1>10, <3>2, <3>3, <3>4 DEF Renewal
  <2>3. CASE i # n /\ i # 1
    <3>1. curr' = Follow(next[curr]) /\ prev' = prev
      BY <1>2, <1>3, <2>3 DEF AppSubscribeFails, AfterFailure
    <3>2. i + 1 \in 1 .. n
      BY <1>2, <1>3, <2>3
    <3>3. next[curr] = s[i + 1]
      BY <1>2, <1>3, <3>2 DEF Item
    <3>4. curr' = Item(n, s, i + 2)
      BY <1>2, <3>1, <3>2, <3>3 DEF Follow
    <3>5. j + 2 \in 1 .. l + 1 /\ ~(j + 2 <= j) /\ j + 2 - j + i = i + 2
      BY <1>2, <1>3, <1>4, <2>3 DEF l
    <3>6. Item(l, t, j + 2) = Item(n, s, i + 2)
      BY <1>7, <3>5
    <3>7. j \in 1 .. j + 2 - 1 /\ prev' = t[j]
      BY <1>4, <1>9, <2>3, <3>1
    <3> QED
      BY <1>10, <3>4, <3>5, <3>6, <3>7 DEF Renewal
  <2> QED
    BY <2>1, <2>2, <2>3
<1> QED
  BY <1>3, <1>4, <1>6, <1>11

-----------------------------------------------------------------------------
(* MQTT_IF_Deinit leaves the empty list.                                   *)
LEMMA DeinitStep ==
    ASSUME IInv, MQTT_IF_Deinit
    PROVE  IInv'
<1>1. app' = app /\ app = "idle" /\ moduleState' = "IDLE"
  BY DEF MQTT_IF_Deinit, renewal
<1>2. Types'
  <2>1. /\ next' \in [Nodes -> Nodes \cup {NULL}]
        /\ topic' \in [Nodes -> Filters \cup {<< >>}]
        /\ allocated' \subseteq Nodes
    BY DEF IInv, Types, MQTT_IF_Deinit, DeinitFrees, Free, Cleared
  <2> QED
    BY <2>1 DEF IInv, Types, MQTT_IF_Deinit, renewal, server
<1>3. SessionInv'
  BY <1>1 DEF IInv, Types, SessionInv, MQTT_IF_Deinit, server
<1>4. ListInv'
  <2> DEFINE s == [k \in 1 .. 0 |-> NULL]
  <2>1. 0 \in Steps /\ Chain(0, s)'
    BY EmptyChain DEF MQTT_IF_Deinit
  <2> HIDE DEF s
  <2> QED
    BY <1>1, <2>1, ListInvIdle
<1> QED
  BY <1>2, <1>3, <1>4 DEF IInv

(* MQTT_IF_Subscribe adds one node, which was not in the list, with its    *)
(* filter.                                                                 *)
LEMMA SubscribeStep ==
    ASSUME IInv, NEW f \in Filters, MQTT_IF_Subscribe(f)
    PROVE  /\ IInv'
           /\ \E x \in Nodes \ Linked :
                 /\ Linked' = Linked \cup {x}
                 /\ topic' = [topic EXCEPT ![x] = f]
<1>1. PICK x \in Nodes \ allocated :
          /\ next' = [next EXCEPT ![x] = head]
          /\ topic' = [topic EXCEPT ![x] = f]
          /\ head' = x
          /\ IF moduleState = "CONNECTED" /\ session = "closed"
                THEN UNCHANGED <<allocated, subscribed>>
                ELSE /\ allocated' = allocated \cup {x}
                     /\ subscribed' = IF session = "open"
                                         THEN subscribed \cup {f}
                                         ELSE subscribed
  BY DEF MQTT_IF_Subscribe, CopyTopic
<1>2. PICK n, s : n \in Steps /\ Chain(n, s)
  BY DEF IInv, ListInv, Steps
<1>3. Readable /\ app = "idle" /\ app' = "idle"
  BY DEF MQTT_IF_Subscribe, renewal
<1> DEFINE t == Prepended(x, n, s)
<1>4. /\ n + 1 \in Steps
      /\ Chain(n + 1, t)'
      /\ t[1] = x
      /\ \A k \in 1 .. n : t[k + 1] = s[k] /\ s[k] # x
  <2>1. PutFirst(x, f)
    BY <1>1 DEF PutFirst
  <2>2. Types /\ x \in Nodes \ allocated
    BY <1>1 DEF IInv
  <2> QED
    BY <1>2, <1>3, <2>1, <2>2, ConsChain
<1> HIDE DEF t
<1>5. n \in Nat
  BY <1>2, StepsFinite DEF Steps
<1>6. Linked = NodesOf(n, s) /\ Linked' = NodesOf(n + 1, t)
  BY <1>2, <1>4, ChainSeen, ChainSeenNext
<1>7. NodesOf(n + 1, t) = NodesOf(n, s) \cup {x} /\ x \notin NodesOf(n, s)
  <2>1. \A k \in 1 .. n + 1 : k = 1 \/ k - 1 \in 1 .. n
    BY <1>5
  <2>2. \A k \in 1 .. n + 1 : t[k] = x \/ \E m \in 1 .. n : t[k] = s[m]
    <3> TAKE k \in 1 .. n + 1
    <3>1. CASE k = 1
      BY <1>4, <3>1
    <3>2. CASE k # 1
      <4>1. k - 1 \in 1 .. n /\ t[(k - 1) + 1] = s[k - 1] /\ (k - 1) + 1 = k
        BY <1>4, <2>1, <3>2
      <4> QED
        BY <4>1
    <3> QED
      BY <3>1, <3>2
  <2>3. 1 \in 1 .. n + 1 /\ \A k \in 1 .. n : k + 1 \in 1 .. n + 1
    BY <1>5
  <2> QED
    BY <1>4, <2>2, <2>3 DEF NodesOf
<1>8. Types'
  <2>1. /\ next' \in [Nodes -> Nodes \cup {NULL}]
        /\ topic' \in [Nodes -> Filters \cup {<< >>}]
    <3>1. head \in Nodes \cup {NULL}
      BY <1>2, HeadIsFirst
    <3> QED
      BY <1>1, <3>1 DEF IInv, Types
  <2>2. allocated' \subseteq Nodes /\ subscribed' \subseteq Filters
    BY <1>1 DEF IInv, Types
  <2> QED
    BY <2>1, <2>2 DEF IInv, Types, MQTT_IF_Subscribe, renewal
<1>9. SessionInv'
  BY <1>1, <1>3 DEF IInv, Types, SessionInv, MQTT_IF_Subscribe
<1>10. ListInv'
  BY <1>3, <1>4, ListInvIdle
<1> QED
  BY <1>1, <1>6, <1>7, <1>8, <1>9, <1>10 DEF IInv

(* Unlinking keeps the types of the fields of the nodes.                   *)
LEMMA UnlinkTypes ==
    ASSUME Types, NEW n \in Nodes, NEW p, Unlink(n, p), Free({n})
    PROVE  /\ next' \in [Nodes -> Nodes \cup {NULL}]
           /\ topic' \in [Nodes -> Filters \cup {<< >>}]
           /\ allocated' \subseteq Nodes
<1>1. (IF n = head THEN next ELSE [next EXCEPT ![p] = next[n]])
          \in [Nodes -> Nodes \cup {NULL}]
  BY DEF Types
<1>2. next' \in [Nodes -> Nodes \cup {NULL}]
  <2> DEFINE u == IF n = head THEN next ELSE [next EXCEPT ![p] = next[n]]
  <2>1. next' = Cleared(u, {n}, NULL) /\ u \in [Nodes -> Nodes \cup {NULL}]
    BY <1>1 DEF Unlink
  <2> HIDE DEF u
  <2> QED
    BY <2>1 DEF Cleared
<1> QED
  BY <1>2 DEF Types, Free, Cleared

(* MQTT_IF_Unsubscribe finds nothing and changes nothing, or takes one     *)
(* node out and frees it.                                                  *)
LEMMA UnsubscribeStep ==
    ASSUME IInv, NEW f \in Filters, MQTT_IF_Unsubscribe(f)
    PROVE  /\ IInv'
           /\ \/ NULL \in FirstMatch(f) /\ UNCHANGED list
              \/ \E x \in FirstMatch(f) \cap Linked :
                    Linked' = Linked \ {x} /\ Free({x})
<1>1. PICK n, s : n \in Steps /\ Chain(n, s)
  BY DEF IInv, ListInv, Steps
<1>2. /\ app = "idle" /\ app' = "idle" /\ session = "open" /\ session' = "open"
      /\ moduleState' = moduleState
  BY DEF MQTT_IF_Unsubscribe, renewal
<1>3. SessionInv'
  BY <1>2 DEF IInv, SessionInv
<1>4. PICK x \in FirstMatch(f) :
          IF x = NULL THEN UNCHANGED list ELSE Unlink(x, Pred(x)) /\ Free({x})
  BY DEF MQTT_IF_Unsubscribe
<1>5. /\ Linked = NodesOf(n, s) /\ Linked \subseteq Nodes
      /\ x \in Linked \cup {NULL}
  BY <1>1, <1>4, ChainSeen, LinkedNodes, MatchesAreLinked
<1>6. CASE x = NULL
  <2>1. Types'
    BY <1>4, <1>6 DEF IInv, Types, MQTT_IF_Unsubscribe, list, renewal
  <2>2. Chain(n, s)'
    BY <1>1, <1>4, <1>6, ChainKept DEF list
  <2>3. ListInv'
    BY <1>1, <1>2, <2>2, ListInvIdle
  <2> QED
    BY <1>3, <1>4, <1>6, <2>1, <2>3 DEF IInv
<1>7. CASE x # NULL
  <2>1. PICK i \in 1 .. n : x = s[i]
    BY <1>5, <1>7 DEF NodesOf
  <2>2. Unlink(s[i], Pred(s[i])) /\ Free({s[i]})
    BY <1>4, <1>7, <2>1
  <2>3. /\ \E m \in Steps : \E t : Chain(m, t)'
        /\ Linked' = Linked \ {s[i]}
    BY <1>1, <2>2, Unlinked DEF IInv
  <2>4. ListInv'
    BY <1>2, <2>3, ListInvIdle
  <2>5. Types'
    <3>1. x \in Nodes
      BY <1>5, <1>7
    <3>2. /\ next' \in [Nodes -> Nodes \cup {NULL}]
          /\ topic' \in [Nodes -> Filters \cup {<< >>}]
          /\ allocated' \subseteq Nodes
      BY <1>4, <1>7, <3>1, UnlinkTypes DEF IInv
    <3> QED
      BY <3>2 DEF IInv, Types, MQTT_IF_Unsubscribe, renewal
  <2> QED
    BY <1>3, <1>4, <1>5, <1>7, <2>1, <2>2, <2>3, <2>4, <2>5 DEF IInv
<1> QED
  BY <1>6, <1>7

(* The renewal stays on the list when a subscription fails, and the head   *)
(* stays in use.                                                           *)
LEMMA AppSubscribeFailsStep ==
    ASSUME IInv, AppSubscribeFails
    PROVE  IInv'
<1>1. app = "renew" /\ app' = app
  BY DEF AppSubscribeFails
<1>2. PICK n, s : n \in Steps /\ Chain(n, s) /\ Renewal(n, s)
  BY <1>1 DEF IInv, ListInv, Steps
<1>3. PICK i \in 1 .. n, j \in Nat :
              /\ j < i /\ curr = s[i] /\ (i # 1 => j # 0 /\ prev = s[j])
              /\ j + n - i \in Steps
              /\ Chain(j + n - i, Splice(n, s, j, i))'
              /\ Renewal(j + n - i, Splice(n, s, j, i))'
  BY <1>2, FailedRenewal DEF IInv
<1>4. ListInv'
  BY <1>3, ListInvIntro
<1>5. /\ n \in Nat /\ curr \in Nodes
      /\ head = Item(n, s, 1)
      /\ \A a, b \in 1 .. n : s[a] = s[b] => a = b
      /\ s \in [1 .. n -> Nodes]
      /\ \A a \in 1 .. n : next[s[a]] = Item(n, s, a + 1)
      /\ \A a \in 1 .. n : a # 1 => s[a] \in allocated
      /\ s[i] = head <=> i = 1
      /\ head = s[1]
  <2>1. /\ n \in Nat /\ n # 0
        /\ n # 0 => head = s[1]
        /\ \A a \in 1 .. n : s[a] = head <=> a = 1
    BY <1>2, StepsFinite, HeadIsFirst DEF Steps
  <2>2. /\ head = Item(n, s, 1)
        /\ \A a, b \in 1 .. n : s[a] = s[b] => a = b
        /\ s \in [1 .. n -> Nodes]
        /\ \A a \in 1 .. n : next[s[a]] = Item(n, s, a + 1)
        /\ \A a \in 1 .. n : a # 1 => s[a] \in allocated
    BY <1>2 DEF Chain, Path
  <2> QED
    BY <1>3, <2>1, <2>2
<1>6. Types'
  <2>1. /\ next' \in [Nodes -> Nodes \cup {NULL}]
        /\ topic' \in [Nodes -> Filters \cup {<< >>}]
        /\ allocated' \subseteq Nodes
    BY <1>5, UnlinkTypes DEF IInv, AppSubscribeFails
  <2>2. {curr', prev', called'} \subseteq Nodes \cup {NULL}
    BY <1>5 DEF IInv, Types, AppSubscribeFails, AfterFailure, Follow
  <2> QED
    BY <2>1, <2>2 DEF IInv, Types, AppSubscribeFails, server
<1>7. Readable'
  <2>1. allocated' = allocated \ {s[i]}
    BY <1>3 DEF AppSubscribeFails, Free
  <2>2. head = NULL \/ head \in allocated
    BY <1>1 DEF IInv, SessionInv, Readable
  <2>3. CASE i = 1
    <3>1. head' = Item(n, s, 2)
      BY <1>3, <1>5, <2>3 DEF AppSubscribeFails, Unlink
    <3>2. 2 \in 1 .. n => s[2] \in allocated /\ s[2] # s[1]
      BY <1>5, <2>3
    <3> QED
      BY <2>1, <2>3, <3>1, <3>2 DEF Readable, Item
  <2>4. CASE i # 1
    <3>1. head' = head /\ head # s[i]
      BY <1>3, <1>5, <2>4 DEF AppSubscribeFails, Unlink
    <3> QED
      BY <2>1, <2>2, <3>1 DEF Readable
  <2> QED
    BY <2>3, <2>4
<1>8. SessionInv'
  BY <1>1, <1>7 DEF IInv, SessionInv, AppSubscribeFails, server
<1> QED
  BY <1>4, <1>6, <1>8 DEF IInv

(* The renewal starts at the head, with nothing subscribed to.             *)
LEMMA AppConnackStep ==
    ASSUME IInv, AppConnack
    PROVE  IInv'
<1>1. PICK n, s : n \in Steps /\ Chain(n, s)
  BY DEF IInv, ListInv, Steps
<1>2. Chain(n, s)'
  BY <1>1, ChainKept DEF AppConnack, list
<1>3. n \in Nat /\ head = Item(n, s, 1) /\ head \in Nodes \cup {NULL}
  BY <1>1, StepsFinite, HeadIsFirst DEF Steps, Chain
<1>4. Renewal(n, s)'
  <2>1. subscribed' = {} /\ curr' = Item(n, s, 1)
    BY <1>3 DEF IInv, SessionInv, AppConnack, server
  <2>2. TopicsUpTo(s, 1 - 1)' = {}
    BY DEF TopicsUpTo
  <2>3. 1 \in 1 .. n + 1 /\ 1 \notin 2 .. n
    BY <1>3
  <2> QED
    BY <2>1, <2>2, <2>3 DEF Renewal
<1>5. ListInv'
  BY <1>1, <1>2, <1>4, ListInvIntro
<1>6. Types'
  BY <1>3 DEF IInv, Types, AppConnack, list, server
<1>7. SessionInv'
  BY DEF IInv, SessionInv, AppConnack, list, server, Readable
<1> QED
  BY <1>5, <1>6, <1>7 DEF IInv

(* A SUBACK takes the renewal one node on, and the server has the filter   *)
(* of that node too.                                                       *)
LEMMA AppSubscribedStep ==
    ASSUME IInv, AppSubscribed
    PROVE  IInv'
<1>1. app = "renew" /\ app' = "renew" /\ session = "open" /\ session' = "open"
  BY DEF AppSubscribed
<1>2. PICK n, s : n \in Steps /\ Chain(n, s) /\ Renewal(n, s)
  BY <1>1 DEF IInv, ListInv, Steps
<1>3. PICK i \in 1 .. n + 1 :
          /\ curr = Item(n, s, i)
          /\ session = "open" => subscribed = TopicsUpTo(s, i - 1)
  BY <1>2 DEF Renewal
<1>4. n \in Nat /\ i \in 1 .. n /\ curr = s[i]
  BY <1>2, <1>3, StepsFinite DEF AppSubscribed, Item, Steps
<1>5. /\ next[s[i]] = Item(n, s, i + 1) /\ s[i] \in Nodes
      /\ topic[s[i]] \in Filters
  BY <1>2, <1>4 DEF Chain, Path
<1>6. Chain(n, s)'
  BY <1>2, ChainKept DEF AppSubscribed, list
<1>7. subscribed' = TopicsUpTo(s, i)'
  <2>1. subscribed' = TopicsUpTo(s, i - 1) \cup {topic[s[i]]}
    BY <1>1, <1>3, <1>4 DEF AppSubscribed
  <2>2. TopicsUpTo(s, i) = TopicsUpTo(s, i - 1) \cup {topic[s[i]]}
    <3>1. \A j \in 1 .. i : j = i \/ j \in 1 .. i - 1
      BY <1>4
    <3>2. i \in 1 .. i /\ 1 .. i - 1 \subseteq 1 .. i
      BY <1>4
    <3> QED
      BY <3>1, <3>2 DEF TopicsUpTo
  <2>3. TopicsUpTo(s, i)' = TopicsUpTo(s, i)
    BY DEF TopicsUpTo, AppSubscribed, list
  <2> QED
    BY <2>1, <2>2, <2>3
<1>8. Renewal(n, s)'
  <2>1. i + 1 \in 1 .. n + 1 /\ i \in 1 .. (i + 1) - 1 /\ (i + 1) - 1 = i
    BY <1>4
  <2>2. prev' = s[i] /\ curr' = Item(n, s, i + 1)
    BY <1>4, <1>5 DEF AppSubscribed
  <2> QED
    BY <1>7, <2>1, <2>2 DEF Renewal
<1>9. ListInv'
  BY <1>2, <1>6, <1>8, ListInvIntro
<1>10. Types'
  <2>1. next[curr] \in Nodes \cup {NULL}
    BY <1>4, <1>5 DEF IInv, Types
  <2>2. subscribed' \subseteq Filters
    BY <1>4, <1>5 DEF IInv, Types, AppSubscribed
  <2> QED
    BY <1>4, <1>5, <2>1, <2>2 DEF IInv, Types, AppSubscribed, list
<1>11. SessionInv'
  BY <1>1 DEF IInv, SessionInv, AppSubscribed, list, Readable
<1> QED
  BY <1>9, <1>10, <1>11 DEF IInv

(* The steps that only read the list, or do not touch it.                  *)
LEMMA ListReadStep ==
    ASSUME IInv,
           \/ MQTT_IF_Init \/ MQTT_IF_Connect \/ MQTT_IF_Disconnect
           \/ SessionLost \/ ContextEnd \/ AppRenewed
           \/ \E m \in Names : AppMessage(m)
           \/ UNCHANGED vars
    PROVE  IInv'
<1> USE DEF IInv, vars, list, renewal, server
<1>1. ListInv'
  <2>1. UNCHANGED <<list, curr>>
    BY DEF MQTT_IF_Init, MQTT_IF_Connect, MQTT_IF_Disconnect, SessionLost,
           ContextEnd, AppRenewed, AppMessage
  <2>2. /\ app' = "renew" => app = "renew" /\ prev' = prev
        /\ app' = "renew" /\ session' = "open" =>
              session = "open" /\ subscribed' = subscribed
    BY DEF MQTT_IF_Init, MQTT_IF_Connect, MQTT_IF_Disconnect, SessionLost,
           ContextEnd, AppRenewed, AppMessage
  <2>3. PICK n, s : /\ n \in Steps /\ Chain(n, s)
                    /\ app = "renew" => Renewal(n, s)
    BY DEF ListInv, Steps
  <2>4. Chain(n, s)'
    BY <2>1, <2>3, ChainKept
  <2>5. app' = "renew" => Renewal(n, s)'
    BY <2>1, <2>2, <2>3, RenewalKept
  <2> QED
    BY <2>3, <2>4, <2>5, ListInvIntro
<1>2. Types'
  <2>1. CASE \E m \in Names : AppMessage(m)
    <3>1. PICK n, s : n \in Steps /\ Chain(n, s)
      BY DEF ListInv, Steps
    <3>2. called' \in Nodes \cup {NULL}
      BY <2>1, <3>1, LinkedNodes, MatchesAreLinked DEF AppMessage
    <3> QED
      BY <2>1, <3>2 DEF Types, AppMessage
  <2>2. CASE ~ \E m \in Names : AppMessage(m)
    BY <2>2 DEF Types, MQTT_IF_Init, MQTT_IF_Connect, MQTT_IF_Disconnect,
                SessionLost, ContextEnd, AppRenewed
  <2> QED
    BY <2>1, <2>2
<1>3. SessionInv'
  BY DEF Types, SessionInv, Readable, MQTT_IF_Init, MQTT_IF_Connect,
         MQTT_IF_Disconnect, SessionLost, ContextEnd, AppRenewed, AppMessage
<1> QED
  BY <1>1, <1>2, <1>3

(* A node that is lost for want of memory is not in the list.              *)
LEMMA SubscribeWithoutMemoryStep ==
    ASSUME IInv, SubscribeWithoutMemory
    PROVE  IInv'
<1> USE DEF IInv, SubscribeWithoutMemory, renewal, server
<1>1. PICK n, s : n \in Steps /\ Chain(n, s)
  BY DEF ListInv, Steps
<1>2. Chain(n, s)'
  BY <1>1, ChainKept
<1>3. ListInv'
  BY <1>1, <1>2, ListInvIdle
<1>4. Types'
  BY DEF Types
<1>5. SessionInv'
  BY DEF SessionInv
<1> QED
  BY <1>3, <1>4, <1>5

(* Every step keeps the invariant.                                         *)
LEMMA NextIInv == IInv /\ [Next]_vars => IInv'
<1> SUFFICES ASSUME IInv, [Next]_vars PROVE IInv'
  OBVIOUS
<1>1. CASE \/ MQTT_IF_Init \/ MQTT_IF_Connect \/ MQTT_IF_Disconnect
           \/ SessionLost \/ ContextEnd \/ AppRenewed
           \/ \E m \in Names : AppMessage(m)
           \/ UNCHANGED vars
  BY <1>1, ListReadStep
<1>2. CASE MQTT_IF_Deinit
  BY <1>2, DeinitStep
<1>3. CASE SubscribeWithoutMemory
  BY <1>3, SubscribeWithoutMemoryStep
<1>4. ASSUME NEW f \in Filters, MQTT_IF_Subscribe(f)
      PROVE  IInv'
  BY <1>4, SubscribeStep
<1>5. ASSUME NEW f \in Filters, MQTT_IF_Unsubscribe(f)
      PROVE  IInv'
  BY <1>5, UnsubscribeStep
<1>6. CASE AppConnack
  BY <1>6, AppConnackStep
<1>7. CASE AppSubscribed
  BY <1>7, AppSubscribedStep
<1>8. CASE AppSubscribeFails
  BY <1>8, AppSubscribeFailsStep
<1> QED
  BY <1>1, <1>2, <1>3, <1>4, <1>5, <1>6, <1>7, <1>8 DEF Next

(* IInv holds of every run of MQTT_IF_Init, Deinit, Subscribe, Unsubscribe *)
(* and of the renewal, for every heap and all filters.                     *)
THEOREM Invariance == Spec => []IInv
BY InitIInv, NextIInv, PTL DEF Spec

-----------------------------------------------------------------------------
(* The invariant says what TypeOK and ListSound say.                       *)
LEMMA IInvSound == IInv => TypeOK /\ ListSound
<1> SUFFICES ASSUME IInv PROVE TypeOK /\ ListSound
  OBVIOUS
<1>1. PICK n, s : n \in Steps /\ Chain(n, s) /\ (app = "renew" => Renewal(n, s))
  BY DEF IInv, ListInv, Steps
<1>2. /\ n \in Nat /\ s \in [1 .. n -> Nodes]
      /\ n = 0 => head = NULL
      /\ n # 0 => head = s[1] /\ head \in Nodes
      /\ \A i \in 1 .. n : i # 1 => s[i] \in allocated
  BY <1>1, HeadIsFirst DEF Chain
<1>3. /\ Walk[Cardinality(Nodes)] = NULL
      /\ Linked = NodesOf(n, s)
      /\ \A i \in 1 .. n : Before(s[i]) = NodesOf(i - 1, s)
      /\ \A x \in Linked : topic[x] \in Filters
  BY <1>1, ChainSeen, LinkedNodes
<1>4. TypeOK
  BY <1>2, <1>3 DEF TypeOK, IInv, Types
<1>5. ListSound
  <2> SUFFICES ASSUME Readable PROVE ListSound
    BY DEF ListSound
  <2>1. Linked \subseteq allocated
    <3>1. 1 \in 1 .. n => s[1] \in allocated
      BY <1>2, TopicListAssumption DEF Readable
    <3> QED
      BY <1>2, <1>3, <3>1 DEF NodesOf
  <2>2. ASSUME app = "renew", curr # NULL
        PROVE  curr \in Linked /\ (curr = head \/ prev \in Before(curr))
    <3>1. PICK i \in 1 .. n + 1 :
              /\ curr = Item(n, s, i)
              /\ i \in 2 .. n => \E j \in 1 .. i - 1 : prev = s[j]
      BY <1>1, <2>2 DEF Renewal
    <3>2. i \in 1 .. n /\ curr = s[i]
      BY <2>2, <3>1 DEF Item
    <3>3. curr = head \/ prev \in NodesOf(i - 1, s)
      <4>1. CASE i = 1
        BY <1>2, <3>2, <4>1
      <4>2. CASE i # 1
        <5>1. i \in 2 .. n
          BY <1>2, <3>2, <4>2
        <5> QED
          BY <3>1, <5>1 DEF NodesOf
      <4> QED
        BY <4>1, <4>2
    <3> QED
      BY <1>3, <3>2, <3>3 DEF NodesOf
  <2> QED
    BY <1>3, <2>1, <2>2 DEF ListSound
<1> QED
  BY <1>4, <1>5

(* The variables keep their types, and every node of the list has its      *)
(* filter (mqtt_user.c 718-726).                                           *)
THEOREM TypeCorrect == Spec => []TypeOK
BY Invariance, IInvSound, PTL

(* As long as no freed node is at the head, the list ends, all of it is    *)
(* memory in use, and the renewal has a node of it before the one it is at *)
(* (mqtt_user.c 352-386, 772-801).                                         *)
THEOREM ListSoundHolds == Spec => []ListSound
BY Invariance, IInvSound, PTL

(* Where the pointers stay, the nodes of the list do.                      *)
LEMMA LinkedKept ==
    ASSUME IInv, UNCHANGED <<head, next, topic>>, allocated \subseteq allocated'
    PROVE  Linked' = Linked
<1>1. PICK n, s : n \in Steps /\ Chain(n, s)
  BY DEF IInv, ListInv, Steps
<1>2. Chain(n, s)'
  BY <1>1, ChainKept
<1> QED
  BY <1>1, <1>2, ChainSeen, ChainSeenNext

(* These steps leave the pointers alone and free nothing.                  *)
LEMMA OthersKeepList ==
    ASSUME \/ MQTT_IF_Init \/ MQTT_IF_Connect \/ MQTT_IF_Disconnect
           \/ SessionLost \/ ContextEnd \/ SubscribeWithoutMemory
           \/ AppConnack \/ AppSubscribed \/ AppRenewed
           \/ \E m \in Names : AppMessage(m)
           \/ UNCHANGED vars
    PROVE  UNCHANGED <<head, next, topic>> /\ allocated \subseteq allocated'
BY DEF MQTT_IF_Init, MQTT_IF_Connect, MQTT_IF_Disconnect, SessionLost, ContextEnd,
       SubscribeWithoutMemory, AppConnack, AppSubscribed, AppRenewed, AppMessage,
       vars, list

(* The nodes of a readable list are in use.                                *)
LEMMA LinkedAllocated == IInv /\ Readable => Linked \subseteq allocated
BY IInvSound DEF ListSound

(* Every node that leaves the list in a step is freed in it, but for the   *)
(* renewal after a failure.                                                *)
LEMMA NodesFreedStep ==
    ASSUME IInv, [Next]_vars
    PROVE  \/ Linked \subseteq Linked' \cup (allocated \ allocated')
           \/ app = "renew" /\ next[prev] # curr
<1>1. CASE \/ MQTT_IF_Init \/ MQTT_IF_Connect \/ MQTT_IF_Disconnect
           \/ SessionLost \/ ContextEnd \/ SubscribeWithoutMemory
           \/ AppConnack \/ AppSubscribed \/ AppRenewed
           \/ \E m \in Names : AppMessage(m)
           \/ UNCHANGED vars
  BY <1>1, OthersKeepList, LinkedKept
<1>2. CASE MQTT_IF_Deinit
  <2>1. Linked \subseteq allocated
    BY <1>2, LinkedAllocated DEF MQTT_IF_Deinit
  <2>2. allocated' = allocated \ Linked
    BY <1>2 DEF MQTT_IF_Deinit, DeinitFrees, Free
  <2> QED
    BY <2>1, <2>2
<1>3. ASSUME NEW f \in Filters, MQTT_IF_Subscribe(f)
      PROVE  Linked \subseteq Linked'
  BY <1>3, SubscribeStep
<1>4. ASSUME NEW f \in Filters, MQTT_IF_Unsubscribe(f)
      PROVE  Linked \subseteq Linked' \cup (allocated \ allocated')
  <2>1. Linked \subseteq allocated
    BY <1>4, LinkedAllocated DEF MQTT_IF_Unsubscribe
  <2>2. CASE UNCHANGED list
    BY <2>2, LinkedKept DEF list
  <2>3. CASE \E x \in FirstMatch(f) \cap Linked :
                Linked' = Linked \ {x} /\ Free({x})
    BY <2>1, <2>3 DEF Free
  <2> QED
    BY <1>4, <2>2, <2>3, UnsubscribeStep
<1>5. CASE AppSubscribeFails
  <2>1. app = "renew" /\ Linked \subseteq allocated
    BY <1>5, LinkedAllocated DEF AppSubscribeFails, IInv, SessionInv
  <2>2. PICK n, s : n \in Steps /\ Chain(n, s) /\ Renewal(n, s)
    BY <2>1 DEF IInv, ListInv, Steps
  <2>3. PICK i \in 1 .. n, j \in Nat :
              /\ j < i /\ curr = s[i] /\ (i # 1 => j # 0 /\ prev = s[j])
              /\ j + n - i \in Steps
              /\ Chain(j + n - i, Splice(n, s, j, i))'
    BY <1>5, <2>2, FailedRenewal DEF IInv
  <2>4. n \in Nat /\ j \in 0 .. i - 1
    BY <2>2, <2>3, StepsFinite DEF Steps
  <2>5. /\ \A a, b \in 1 .. n : s[a] = s[b] => a = b
        /\ \A a \in 1 .. n : next[s[a]] = Item(n, s, a + 1)
    BY <2>2 DEF Chain, Path
  <2>6. Linked = NodesOf(n, s)
    BY <2>2, ChainSeen
  <2>7. Linked' = NodesOf(j, s) \cup {s[k] : k \in i + 1 .. n}
    <3>1. Linked' = NodesOf(j + n - i, Splice(n, s, j, i))
      BY <2>3, ChainSeenNext
    <3>2. NodesOf(j + n - i, Splice(n, s, j, i)) = SplicedSet(n, s, j, i)
      BY <2>3, <2>4, SplicedNodes
    <3> QED
      BY <3>1, <3>2 DEF SplicedSet
  <2>8. allocated' = allocated \ {s[i]}
    BY <1>5, <2>3 DEF AppSubscribeFails, Free
  <2>9. CASE j = i - 1
    <3>1. \A k \in 1 .. n : k \in 1 .. j \/ k = i \/ k \in i + 1 .. n
      BY <2>4, <2>9
    <3> QED
      BY <2>1, <2>6, <2>7, <2>8, <3>1 DEF NodesOf
  <2>10. CASE j # i - 1
    <3>1. i # 1 /\ j \in 1 .. n /\ j + 1 \in 1 .. n /\ j + 1 # i
      BY <2>3, <2>4, <2>10
    <3>2. next[prev] = s[j + 1]
      BY <2>3, <2>5, <3>1 DEF Item
    <3> QED
      BY <2>1, <2>3, <2>5, <3>1, <3>2
  <2> QED
    BY <2>9, <2>10
<1> QED
  BY <1>1, <1>2, <1>3, <1>4, <1>5 DEF Next

(* A node that leaves the list is freed in the same call, except the one   *)
(* the renewal has skipped (mqtt_user.c 373-375).                          *)
THEOREM NodesFreedHolds == Spec => NodesFreed
BY Invariance, NodesFreedStep, PTL DEF Spec, NodesFreed

-----------------------------------------------------------------------------
(* One step of MQTTHelperTopicMatching at level i, where g has the results *)
(* from the later levels; and the function it defines.                     *)
Compared(g, s, p, i) ==
    IF s[i] = "#" THEN {TRUE}
    ELSE IF i > Len(p) THEN BOOLEAN
    ELSE IF s[i] # "+" /\ (s[i] # p[i] \/ (i = Len(s)) # (i = Len(p)))
         THEN {FALSE}
    ELSE IF i = Len(s) THEN {AtTheEnd(s, p)}
    ELSE g[i + 1]

Compares(g, s, p) == g = [i \in 1 .. Len(s) |-> Compared(g, s, p, i)]

Comparison(s, p) == CHOOSE g : Compares(g, s, p)

(* The match is what the comparison gives at the first level.              *)
LEMMA MatchingIsComparison ==
    ASSUME NEW s, NEW p
    PROVE  MQTTHelperTopicMatching(s, p) = Comparison(s, p)[1]
BY DEF MQTTHelperTopicMatching, Comparison, Compares, Compared

(* Only one function compares level by level: two would differ last at a   *)
(* level whose successor they share.                                       *)
LEMMA ComparisonUnique ==
    ASSUME NEW s, NEW p, Len(s) \in Nat,
           NEW g, NEW h, Compares(g, s, p), Compares(h, s, p)
    PROVE  g = h
<1> DEFINE S == {k \in Nat : k < Len(s) /\ g[Len(s) - k] # h[Len(s) - k]}
<1>1. /\ g = [i \in 1 .. Len(s) |-> g[i]]
      /\ h = [i \in 1 .. Len(s) |-> h[i]]
  BY DEF Compares
<1>2. /\ \A i \in 1 .. Len(s) : g[i] = Compared(g, s, p, i)
      /\ \A i \in 1 .. Len(s) : h[i] = Compared(h, s, p, i)
  BY DEF Compares
<1>3. CASE S = {}
  <2>1. \A i \in 1 .. Len(s) : g[i] = h[i]
    <3> TAKE i \in 1 .. Len(s)
    <3>1. Len(s) - i \in Nat /\ Len(s) - i < Len(s) /\ Len(s) - (Len(s) - i) = i
      OBVIOUS
    <3> DEFINE k == Len(s) - i
    <3>2. k \in Nat /\ k < Len(s) /\ k \notin S /\ Len(s) - k = i
      BY <1>3, <3>1
    <3> QED
      BY <3>2
  <2> QED
    BY <1>1, <2>1
<1>4. CASE S # {}
  <2>1. S \in SUBSET Nat
    OBVIOUS
  <2>2. PICK k \in S : \A m \in S : k <= m
    <3> HIDE DEF S
    <3> QED
      BY <1>4, <2>1, LeastOf
  <2> DEFINE i == Len(s) - k
  <2>3. i \in 1 .. Len(s) /\ g[i] # h[i]
    BY <2>2
  <2>4. i # Len(s) => g[i + 1] = h[i + 1]
    <3>1. SUFFICES ASSUME i # Len(s) PROVE g[i + 1] = h[i + 1]
      OBVIOUS
    <3>2. k - 1 \in Nat /\ k - 1 < Len(s) /\ Len(s) - (k - 1) = i + 1
      BY <2>2, <3>1
    <3>3. k - 1 \notin S
      BY <2>2, <3>2
    <3> QED
      BY <3>2, <3>3
  <2>5. Compared(g, s, p, i) = Compared(h, s, p, i)
    <3> HIDE DEF i
    <3> QED
      BY <2>4 DEF Compared
  <2> HIDE DEF i
  <2> QED
    BY <1>2, <2>3, <2>5
<1> QED
  BY <1>3, <1>4

(* For a filter with no more levels than the name, MQTTHelperTopicMatching *)
(* (mqtt_user.c 235-257) gives one answer, and it is that of the rules of  *)
(* MQTT.                                                                   *)
THEOREM MatchingIsFits ==
    ASSUME NEW f \in Seq(Levels) \ {<< >>}, NEW m \in Seq(Levels) \ {<< >>},
           \A i \in 1 .. Len(f) : f[i] = "#" => i = Len(f),
           Len(f) <= Len(m)
    PROVE  MQTTHelperTopicMatching(f, m) =
               IF Fits(f, m) THEN {TRUE} ELSE {FALSE}
<1> DEFINE N == IF f[Len(f)] = "#" THEN Len(f) - 1 ELSE Len(f)
           Rest(i) == /\ N = Len(f) => Len(f) = Len(m)
                      /\ \A j \in i .. N : f[j] \in {"+", m[j]}
           g == [i \in 1 .. Len(f) |-> IF Rest(i) THEN {TRUE} ELSE {FALSE}]
<1>1. /\ Len(f) \in Nat /\ Len(f) # 0 /\ Len(m) \in Nat
      /\ N \in Nat /\ N <= Len(f)
      /\ 1 \in 1 .. Len(f)
  OBVIOUS
<1>2. Fits(f, m) <=> Rest(1)
  BY <1>1 DEF Fits
<1>3. \A i \in 1 .. Len(f) :
          Compared(g, f, m, i) = IF Rest(i) THEN {TRUE} ELSE {FALSE}
  <2> TAKE i \in 1 .. Len(f)
  <2>0. i \in Nat /\ ~(i > Len(m)) /\ AtTheEnd(f, m) = (Len(f) = Len(m))
    BY <1>1 DEF AtTheEnd
  <2>1. CASE f[i] = "#"
    <3>1. i = Len(f) /\ N = Len(f) - 1
      BY <2>1
    <3>2. Rest(i)
      BY <1>1, <3>1
    <3>3. Compared(g, f, m, i) = {TRUE}
      BY <2>1 DEF Compared
    <3> QED
      BY <3>2, <3>3
  <2>2. CASE /\ f[i] # "#" /\ f[i] # "+"
             /\ f[i] # m[i] \/ (i = Len(f)) # (i = Len(m))
    <3>1. i <= N
      BY <1>1, <2>2
    <3>2. ~Rest(i)
      <4>1. CASE f[i] # m[i]
        BY <1>1, <2>2, <3>1, <4>1
      <4>2. CASE (i = Len(f)) # (i = Len(m))
        BY <1>1, <2>0, <2>2, <4>2
      <4> QED
        BY <2>2, <4>1, <4>2
    <3>3. Compared(g, f, m, i) = {FALSE}
      BY <2>0, <2>2 DEF Compared
    <3> QED
      BY <3>2, <3>3
  <2>3. CASE /\ f[i] # "#" /\ i = Len(f)
             /\ ~(f[i] # "+" /\ (f[i] # m[i] \/ (i = Len(f)) # (i = Len(m))))
    <3>1. N = Len(f) /\ \A j \in i .. N : j = i
      BY <1>1, <2>3
    <3>2. f[i] \in {"+", m[i]}
      BY <2>3
    <3>3. Rest(i) <=> Len(f) = Len(m)
      BY <3>1, <3>2
    <3>4. Compared(g, f, m, i) = {AtTheEnd(f, m)}
      BY <2>0, <2>3 DEF Compared
    <3>5. CASE Len(f) = Len(m)
      <4>1. AtTheEnd(f, m) = TRUE
        BY <3>5 DEF AtTheEnd
      <4> QED
        BY <3>3, <3>4, <3>5, <4>1
    <3>6. CASE Len(f) # Len(m)
      <4>1. AtTheEnd(f, m) = FALSE
        BY <3>6 DEF AtTheEnd
      <4> QED
        BY <3>3, <3>4, <3>6, <4>1
    <3> QED
      BY <3>5, <3>6
  <2>4. CASE /\ f[i] # "#" /\ i # Len(f)
             /\ ~(f[i] # "+" /\ (f[i] # m[i] \/ (i = Len(f)) # (i = Len(m))))
    <3>1. i + 1 \in 1 .. Len(f) /\ i <= N
      BY <1>1, <2>4
    <3>2. f[i] \in {"+", m[i]}
      BY <2>4
    <3>3. Rest(i) <=> Rest(i + 1)
      <4>1. \A j \in i .. N : j = i \/ j \in i + 1 .. N
        BY <1>1
      <4>2. \A j \in i + 1 .. N : j \in i .. N
        BY <1>1
      <4> HIDE DEF N
      <4> QED
        BY <3>2, <4>1, <4>2
    <3>4. Compared(g, f, m, i) = g[i + 1]
      <4> HIDE DEF g
      <4> QED
        BY <2>0, <2>4 DEF Compared
    <3>5. g[i + 1] = IF Rest(i + 1) THEN {TRUE} ELSE {FALSE}
      <4> HIDE DEF Rest
      <4> QED
        BY <3>1
    <3> HIDE DEF g, Rest
    <3> QED
      BY <3>3, <3>4, <3>5
  <2> QED
    BY <2>1, <2>2, <2>3, <2>4
<1>4. Compares(g, f, m)
  <2>1. \A i \in 1 .. Len(f) : g[i] = Compared(g, f, m, i)
    <3>1. \A i \in 1 .. Len(f) : g[i] = IF Rest(i) THEN {TRUE} ELSE {FALSE}
      <4> HIDE DEF Rest
      <4> QED
        OBVIOUS
    <3> HIDE DEF g, Rest
    <3> QED
      BY <1>3, <3>1
  <2>2. g = [i \in 1 .. Len(f) |-> g[i]]
    <3> HIDE DEF Rest
    <3> QED
      OBVIOUS
  <2> HIDE DEF g
  <2> QED
    BY <2>1, <2>2 DEF Compares
<1>5. Compares(Comparison(f, m), f, m)
  BY <1>4 DEF Comparison
<1>6. Comparison(f, m) = g
  <2> HIDE DEF g
  <2> QED
    BY <1>1, <1>4, <1>5, ComparisonUnique
<1>7. g[1] = IF Rest(1) THEN {TRUE} ELSE {FALSE}
  <2> HIDE DEF Rest
  <2> QED
    BY <1>1
<1> HIDE DEF g, Rest
<1> QED
  BY <1>2, <1>6, <1>7, MatchingIsComparison

(* So of such a filter in the list.                                        *)
LEMMA MatchOrMiss ==
    ASSUME NEW n, topic[n] \in Filters, NEW m \in Filters \cup Names,
           Len(topic[n]) <= Len(m)
    PROVE  /\ MayMatch(n, m) <=> Fits(topic[n], m)
           /\ MayMiss(n, m) <=> ~Fits(topic[n], m)
<1> DEFINE f == topic[n]
<1>1. /\ f \in Seq(Levels) \ {<< >>} /\ m \in Seq(Levels) \ {<< >>}
      /\ \A i \in 1 .. Len(f) : f[i] = "#" => i = Len(f)
      /\ Len(f) <= Len(m)
  BY TopicListAssumption
<1>2. MQTTHelperTopicMatching(f, m) = IF Fits(f, m) THEN {TRUE} ELSE {FALSE}
  <2> HIDE DEF f
  <2> QED
    BY <1>1, MatchingIsFits
<1> QED
  BY <1>2 DEF MayMatch, MayMiss

(* A filter taken as a name matches itself, wildcards included: this is    *)
(* how MQTT_IF_Unsubscribe finds its node.                                 *)
LEMMA MatchesItself ==
    ASSUME NEW n, topic[n] \in Filters
    PROVE  MayMatch(n, topic[n]) /\ ~MayMiss(n, topic[n])
<1> DEFINE f == topic[n]
<1>1. f \in Seq(Levels) \ {<< >>}
  BY TopicListAssumption
<1>2. Fits(f, f)
  <2> HIDE DEF f
  <2> QED
    BY <1>1 DEF Fits
<1>3. Len(f) <= Len(f)
  BY <1>1
<1> QED
  BY <1>2, <1>3, MatchOrMiss

(* LinkedNodes, from the invariant.                                        *)
LEMMA LinkedHaveTopics ==
    ASSUME IInv
    PROVE  Linked \subseteq Nodes /\ \A x \in Linked : topic[x] \in Filters
<1>1. PICK n, s : n \in Steps /\ Chain(n, s)
  BY DEF IInv, ListInv, Steps
<1> QED
  BY <1>1, LinkedNodes

(* A message finds the first node whose filter it fits.                    *)
LEMMA DeliversStep ==
    ASSUME IInv, NEW m \in Names, AppMessage(m),
           \A n \in Linked : Len(topic[n]) <= Len(m)
    PROVE  IF \E n \in Linked : Fits(topic[n], m)
              THEN called' # NULL /\ Fits(topic[called'], m)
              ELSE called' = NULL
<1>1. called' \in FirstMatch(m)
  BY DEF AppMessage
<1>2. \A n \in Linked : /\ MayMatch(n, m) <=> Fits(topic[n], m)
                        /\ MayMiss(n, m) <=> ~Fits(topic[n], m)
  BY LinkedHaveTopics, MatchOrMiss
<1>3. NULL \notin Linked
  BY DEF Linked
<1>4. \/ called' \in Linked /\ MayMatch(called', m)
      \/ called' = NULL /\ \A b \in Linked : MayMiss(b, m)
  BY <1>1 DEF FirstMatch
<1> HIDE DEF Linked
<1> QED
  BY <1>2, <1>3, <1>4

(* A message goes to the callback of a filter it fits if there is one, and *)
(* to none otherwise (mqtt_user.c 235-257, 277-296), where no filter of    *)
(* the list has more levels than the message: for every list, all filters  *)
(* and all names.                                                          *)
THEOREM DeliversToSubscriberHolds == Spec => DeliversToSubscriber
<1>1. IInv /\ [Next]_vars =>
          [\A m \in Names :
              AppMessage(m) /\ (\A n \in Linked : Len(topic[n]) <= Len(m)) =>
                 IF \E n \in Linked : Fits(topic[n], m)
                    THEN called' # NULL /\ Fits(topic[called'], m)
                    ELSE called' = NULL]_vars
  BY DeliversStep
<1> QED
  BY <1>1, Invariance, PTL DEF Spec, DeliversToSubscriber

-----------------------------------------------------------------------------
(* MQTT_IF_Unsubscribe of a filter that matches its own node alone takes   *)
(* away the same filter here and at the server.                            *)
LEMMA InStepUnsubscribe ==
    ASSUME IInv, InStep, NEW f \in Filters, MQTT_IF_Unsubscribe(f),
           ~Ambiguous(f)
    PROVE  InStep'
<1>1. /\ subscribed = TopicsListed
      /\ subscribed' = subscribed \ {f}
  BY DEF InStep, MQTT_IF_Unsubscribe, TopicsListed
<1>2. \A x \in Linked : topic[x] = f => MayMatch(x, f) /\ ~MayMiss(x, f)
  BY LinkedHaveTopics, MatchesItself
<1>3. CASE NULL \in FirstMatch(f) /\ UNCHANGED list
  <2>1. NULL \notin Linked
    BY DEF Linked
  <2>2. \A x \in Linked : MayMiss(x, f)
    BY <1>3, <2>1 DEF FirstMatch
  <2>3. f \notin TopicsListed
    BY <1>2, <2>2 DEF TopicsListed
  <2>4. Linked' = Linked /\ topic' = topic
    BY <1>3, LinkedKept DEF list
  <2> QED
    BY <1>1, <2>3, <2>4 DEF InStep, TopicsListed
<1>4. CASE \E x \in FirstMatch(f) \cap Linked :
              Linked' = Linked \ {x} /\ Free({x})
  <2>1. PICK x \in FirstMatch(f) \cap Linked :
            Linked' = Linked \ {x} /\ Free({x})
    BY <1>4
  <2>2. x \in Linked /\ MayMatch(x, f)
    BY <2>1, LinkedHaveTopics, TopicListAssumption DEF FirstMatch
  <2>3. topic[x] = f /\ \A y \in Linked : topic[y] = f => y = x
    BY <2>2 DEF Ambiguous
  <2>4. \A y \in Linked' : topic'[y] = topic[y]
    BY <2>1, LinkedHaveTopics DEF Free, Cleared
  <2>5. {topic'[y] : y \in Linked'} = {topic[y] : y \in Linked \ {x}}
    BY <2>1, <2>4
  <2>6. {topic[y] : y \in Linked \ {x}} = TopicsListed \ {f}
    BY <2>2, <2>3 DEF TopicsListed
  <2> QED
    BY <1>1, <2>5, <2>6 DEF InStep, TopicsListed
<1> QED
  BY <1>3, <1>4, UnsubscribeStep

(* MQTT_IF_Subscribe adds the same filter here and at the server.          *)
LEMMA InStepSubscribe ==
    ASSUME IInv, InStep, NEW f \in Filters, MQTT_IF_Subscribe(f)
    PROVE  InStep'
<1> SUFFICES ASSUME session' = "open" PROVE InStep'
  BY DEF InStep
<1>1. /\ session = "open"
      /\ subscribed = TopicsListed
      /\ subscribed' = subscribed \cup {f}
  BY DEF InStep, MQTT_IF_Subscribe, TopicsListed
<1>2. PICK x \in Nodes \ Linked :
                 /\ Linked' = Linked \cup {x}
                 /\ topic' = [topic EXCEPT ![x] = f]
  BY SubscribeStep
<1>3. topic'[x] = f /\ \A y \in Linked : topic'[y] = topic[y]
  BY <1>2, LinkedHaveTopics DEF IInv, Types
<1>4. {topic'[y] : y \in Linked'} = {topic[y] : y \in Linked} \cup {f}
  BY <1>2, <1>3
<1> QED
  BY <1>1, <1>4 DEF InStep, TopicsListed

(* When the renewal is at the end and the session still open, the server   *)
(* has every filter of the list.                                           *)
LEMMA InStepRenewed ==
    ASSUME IInv, AppRenewed
    PROVE  InStep'
<1> SUFFICES ASSUME session' = "open" PROVE InStep'
  BY DEF InStep
<1>1. /\ app = "renew" /\ session = "open" /\ curr = NULL
      /\ subscribed' = subscribed /\ UNCHANGED list
  BY DEF AppRenewed, server
<1>2. PICK n, s : n \in Steps /\ Chain(n, s) /\ Renewal(n, s)
  BY <1>1 DEF IInv, ListInv, Steps
<1>3. PICK i \in 1 .. n + 1 :
          curr = Item(n, s, i) /\ subscribed = TopicsUpTo(s, i - 1)
  BY <1>1, <1>2 DEF Renewal
<1>4. i - 1 = n
  <2>1. i \notin 1 .. n
    BY <1>1, <1>2, <1>3, TopicListAssumption DEF Item, Chain, Path
  <2> QED
    BY <1>2, <2>1, StepsFinite DEF Steps
<1>5. Linked = NodesOf(n, s) /\ Linked' = Linked
  BY <1>1, <1>2, ChainSeen, LinkedKept DEF list
<1>6. TopicsUpTo(s, n) = {topic[y] : y \in NodesOf(n, s)}
  BY DEF TopicsUpTo, NodesOf
<1>7. topic' = topic
  BY <1>1 DEF list
<1> QED
  BY <1>1, <1>3, <1>4, <1>5, <1>6, <1>7 DEF InStep, TopicsListed

(* Every step keeps list and server in step, except for an ambiguous       *)
(* MQTT_IF_Unsubscribe.                                                    *)
LEMMA InStepStep ==
    ASSUME IInv, [Next]_vars, InStep
    PROVE  \/ InStep'
           \/ \E f \in Filters : MQTT_IF_Unsubscribe(f) /\ Ambiguous(f)
<1>1. CASE (\E m \in Names : AppMessage(m)) \/ UNCHANGED vars
  <2>1. UNCHANGED <<list, app, session, subscribed>>
    BY <1>1 DEF AppMessage, vars, renewal, server
  <2>2. Linked' = Linked /\ topic' = topic
    BY <2>1, LinkedKept DEF list
  <2> QED
    BY <2>1, <2>2 DEF InStep, TopicsListed, Readable, list
<1>2. CASE \/ MQTT_IF_Connect \/ MQTT_IF_Disconnect \/ SessionLost
           \/ AppConnack \/ AppSubscribed \/ AppSubscribeFails
  BY <1>2 DEF InStep, IInv, SessionInv, MQTT_IF_Connect, MQTT_IF_Disconnect,
              SessionLost, AppConnack, AppSubscribed, AppSubscribeFails
<1>3. CASE MQTT_IF_Init \/ ContextEnd \/ MQTT_IF_Deinit
  BY <1>3 DEF InStep, IInv, SessionInv, Types, MQTT_IF_Init, ContextEnd,
              MQTT_IF_Deinit, server
<1>4. CASE SubscribeWithoutMemory
  <2>1. /\ Readable /\ app = "idle" /\ UNCHANGED <<head, next, topic>>
        /\ allocated \subseteq allocated'
        /\ session' = session /\ subscribed' = subscribed
    BY <1>4 DEF SubscribeWithoutMemory, server
  <2>2. Linked' = Linked
    BY <2>1, LinkedKept
  <2> QED
    BY <2>1, <2>2 DEF InStep, TopicsListed
<1>5. ASSUME NEW f \in Filters, MQTT_IF_Subscribe(f)
      PROVE  InStep'
  BY <1>5, InStepSubscribe
<1>6. ASSUME NEW f \in Filters, MQTT_IF_Unsubscribe(f)
      PROVE  InStep' \/ Ambiguous(f)
  BY <1>6, InStepUnsubscribe
<1>7. CASE AppRenewed
  BY <1>7, InStepRenewed
<1> QED
  BY <1>1, <1>2, <1>3, <1>4, <1>5, <1>6, <1>7 DEF Next

(* Topics leave the list by MQTT_IF_Unsubscribe, MQTT_IF_Deinit and a      *)
(* renewal whose session is lost.                                          *)
LEMMA TopicsHeldStep ==
    ASSUME IInv, [Next]_vars
    PROVE  \/ TopicsListed \subseteq TopicsListed'
           \/ \E f \in Filters : MQTT_IF_Unsubscribe(f)
           \/ MQTT_IF_Deinit
           \/ app = "renew" /\ session = "closed"
<1>1. ASSUME UNCHANGED <<head, next, topic>>, allocated \subseteq allocated'
      PROVE  TopicsListed' = TopicsListed
  BY <1>1, LinkedKept DEF TopicsListed
<1>2. CASE \/ MQTT_IF_Init \/ MQTT_IF_Connect \/ MQTT_IF_Disconnect
           \/ SessionLost \/ ContextEnd \/ SubscribeWithoutMemory
           \/ AppConnack \/ AppSubscribed \/ AppRenewed
           \/ \E m \in Names : AppMessage(m)
           \/ UNCHANGED vars
  <2>1. UNCHANGED <<head, next, topic>> /\ allocated \subseteq allocated'
    BY <1>2, OthersKeepList
  <2> QED
    BY <1>1, <2>1
<1>3. ASSUME NEW f \in Filters, MQTT_IF_Subscribe(f)
      PROVE  TopicsListed \subseteq TopicsListed'
  <2>1. PICK x \in Nodes \ Linked :
                   /\ Linked' = Linked \cup {x}
                   /\ topic' = [topic EXCEPT ![x] = f]
    BY <1>3, SubscribeStep
  <2>2. \A y \in Linked : topic'[y] = topic[y]
    BY <2>1, LinkedHaveTopics DEF IInv, Types
  <2> QED
    BY <2>1, <2>2 DEF TopicsListed
<1>4. CASE AppSubscribeFails
  BY <1>4 DEF AppSubscribeFails
<1> QED
  BY <1>2, <1>3, <1>4 DEF Next

(* On a connection the server has the filters of the list after every call *)
(* and every renewal (mqtt_user.c 359-389), and only an ambiguous          *)
(* MQTT_IF_Unsubscribe parts them (779); topics leave the list only by     *)
(* MQTT_IF_Unsubscribe, MQTT_IF_Deinit and a renewal whose session is      *)
(* lost: for every heap and all filters.                                   *)
THEOREM StaysInStepHolds == Spec => StaysInStep
<1>1. IInv /\ [Next]_vars =>
          [/\ InStep => \/ InStep'
                        \/ \E f \in Filters :
                              MQTT_IF_Unsubscribe(f) /\ Ambiguous(f)
           /\ \/ TopicsListed \subseteq TopicsListed'
              \/ \E f \in Filters : MQTT_IF_Unsubscribe(f)
              \/ MQTT_IF_Deinit
              \/ app = "renew" /\ session = "closed"]_vars
  BY InStepStep, TopicsHeldStep
<1> QED
  BY <1>1, Invariance, PTL DEF Spec, StaysInStep
=============================================================================
