--------------------------- MODULE UsbHub_proofs ---------------------------
(***************************************************************************)
(* Proofs about UsbHub: at any point of a walk of the tree, whatever was   *)
(* plugged in, pulled out or reported meanwhile, every hub has one watch,  *)
(* the flagged ones are yet to be scanned, addresses name one device, the  *)
(* blocks are one tree, and none is taken away whose device answers.       *)
(*                                                                         *)
(* HubInv, about the driver's side, is the inductive invariant of the      *)
(* first four.  WireInv adds what relates the tree to the wires.  What is  *)
(* below a hub takes a fixed number of steps of children, so facts about   *)
(* it are proved by induction over steps, which is here about membership   *)
(* in a set of natural numbers (SetInduction).                             *)
(***************************************************************************)
EXTENDS UsbHub, TLAPS, FiniteSetTheorems, SequenceTheorems,
        WellFoundedInduction

-----------------------------------------------------------------------------
(* A set of natural numbers that is not empty has a smallest member, ...   *)
LEMMA SmallestIn ==
  ASSUME NEW T, T \subseteq Nat, T # {}
  PROVE  \E x \in T : \A y \in T : x <= y
<1> DEFINE R == {ss \in Nat \X Nat : ss[1] < ss[2]}
<1>1. IsWellFoundedOn(R, Nat)
  BY NatLessThanWellFounded, Zenon DEF OpToRel
<1>2. PICK x \in T : \A y \in T : ~ (<<y, x>> \in R)
  <2> HIDE DEF R
  <2> QED
    BY <1>1, WFMin
<1>3. \A y \in T : ~(y < x)
  BY <1>2
<1> QED
  BY <1>3

(* ... so a set that holds 0 and the successors of its members holds them  *)
(* all.                                                                    *)
LEMMA SetInduction ==
  ASSUME NEW S, 0 \in S, \A n \in Nat : n \in S => n + 1 \in S
  PROVE  \A n \in Nat : n \in S
<1> DEFINE T == Nat \ S
<1>1. SUFFICES ASSUME T # {} PROVE FALSE
  OBVIOUS
<1>2. PICK x \in T : \A y \in T : x <= y
  BY <1>1, SmallestIn
<1>3. x # 0 /\ x \in Nat /\ x - 1 \in Nat /\ x - 1 < x /\ (x - 1) + 1 = x
  OBVIOUS
<1>4. x - 1 \in S
  BY <1>2, <1>3
<1> QED
  BY <1>3, <1>4

(* What one more step of children adds.                                    *)
KidsOf(A) == UNION {Kids(x) : x \in A}

(* g lists what is reached from n in 0 to N steps, as the function in      *)
(* Reach does.                                                             *)
Chain(g, n, N) ==
  g = [k \in 0..N |-> IF k = 0 THEN {n}
                      ELSE g[k - 1] \cup UNION {Kids(x) : x \in g[k - 1]}]

(* There is such a list for any number of steps.                           *)
LEMMA StepsExist ==
  ASSUME NEW n, NEW N \in Nat
  PROVE  \E g : Chain(g, n, N)
<1> DEFINE Next1(g, k) == IF k = 0 THEN {n} ELSE g[k - 1] \cup UNION {Kids(x) : x \in g[k - 1]}
           S == {m \in Nat : \E g : g = [k \in 0..m |-> Next1(g, k)]}
<1>1. 0 \in S
  <2>1. [k \in 0..0 |-> {n}] = [k \in 0..0 |-> Next1([j \in 0..0 |-> {n}], k)]
    OBVIOUS
  <2> QED
    BY <2>1
<1>2. ASSUME NEW m \in Nat, m \in S PROVE m + 1 \in S
  <2>1. PICK g : g = [k \in 0..m |-> Next1(g, k)]
    BY <1>2
  <2> DEFINE h == [k \in 0..(m + 1) |-> IF k = m + 1 THEN Next1(g, k) ELSE g[k]]
  <2>2. \A k \in 0..m : h[k] = g[k]
    OBVIOUS
  <2>3. \A k \in 0..(m + 1) : k # 0 => k - 1 \in 0..m
    OBVIOUS
  <2>4. \A k \in 0..(m + 1) : Next1(h, k) = Next1(g, k)
    <3> HIDE DEF h
    <3> QED
      BY <2>2, <2>3
  <2>5. \A k \in 0..m : g[k] = Next1(g, k)
    <3> HIDE DEF Next1
    <3> QED
      BY <2>1
  <2>6. h = [k \in 0..(m + 1) |-> Next1(h, k)]
    <3>1. \A k \in 0..(m + 1) : h[k] = Next1(h, k)
      <4> HIDE DEF Next1
      <4> QED
        BY <2>4, <2>5
    <3> QED
      BY <3>1
  <2> QED
    <3> HIDE DEF h, Next1
    <3> QED
      BY <2>6
<1>3. N \in S
  <2> HIDE DEF S
  <2> QED
    BY <1>1, <1>2, SetInduction
<1> QED
  BY <1>3 DEF Chain

(* Below(n) is the last of its steps.                                      *)
LEMMA BelowSteps ==
  ASSUME NEW n, Cardinality(Dev) \in Nat
  PROVE  \E f : /\ f[0] = {n}
                /\ \A k \in 1..Cardinality(Dev) : f[k] = f[k - 1] \cup KidsOf(f[k - 1])
                /\ Below(n) = f[Cardinality(Dev)]
<1> DEFINE N == Cardinality(Dev)
           f[k \in 0..N] == IF k = 0 THEN {n} ELSE f[k - 1] \cup UNION {Kids(x) : x \in f[k - 1]}
<1>1. Chain(f, n, N)
  <2>1. N \in Nat
    OBVIOUS
  <2>2. \E g : Chain(g, n, N)
    BY <2>1, StepsExist, Zenon
  <2> HIDE DEF N
  <2> QED
    BY <2>2, Zenon DEF Chain
<1>2. Below(n) = f[N]
  BY DEF Below, Reach
<1> HIDE DEF f, N
<1>3. N \in Nat
  BY DEF N
<1>4. f[0] = {n} /\ \A k \in 1..N : f[k] = f[k - 1] \cup KidsOf(f[k - 1])
  BY <1>1, <1>3 DEF KidsOf, Chain
<1> QED
  BY <1>2, <1>4 DEF N

(* The number of blocks is a number.                                       *)
LEMMA DevCount == Cardinality(Dev) \in Nat
BY HubAssumption, FS_CardinalityType

(* Below(n) is in every set that holds n and the children of its members.  *)
LEMMA BelowLeast ==
  ASSUME NEW n, NEW S, n \in S, \A x \in S : Kids(x) \subseteq S
  PROVE  Below(n) \subseteq S
<1> DEFINE N == Cardinality(Dev)
<1>1. PICK f : /\ f[0] = {n}
               /\ \A k \in 1..N : f[k] = f[k - 1] \cup KidsOf(f[k - 1])
               /\ Below(n) = f[N]
  BY DevCount, BelowSteps
<1>2. N \in Nat
  BY DevCount
<1> HIDE DEF N
<1> DEFINE T == {k \in Nat : k <= N => f[k] \subseteq S}
<1>3. 0 \in T
  BY <1>1
<1>4. ASSUME NEW k \in Nat, k \in T PROVE k + 1 \in T
  <2>1. SUFFICES ASSUME k + 1 <= N PROVE f[k + 1] \subseteq S
    OBVIOUS
  <2>2. f[k] \subseteq S /\ f[k + 1] = f[k] \cup KidsOf(f[k])
    BY <1>1, <1>2, <1>4, <2>1
  <2> QED
    BY <2>2 DEF KidsOf
<1>5. N \in T
  <2> HIDE DEF T
  <2> QED
    BY <1>2, <1>3, <1>4, SetInduction
<1> QED
  BY <1>1, <1>2, <1>5

(* A hub is below itself.                                                  *)
LEMMA BelowSelf ==
  ASSUME NEW n
  PROVE  n \in Below(n)
<1> DEFINE N == Cardinality(Dev)
<1>1. PICK f : /\ f[0] = {n}
               /\ \A k \in 1..N : f[k] = f[k - 1] \cup KidsOf(f[k - 1])
               /\ Below(n) = f[N]
  BY DevCount, BelowSteps
<1>2. N \in Nat
  BY DevCount
<1> HIDE DEF N
<1> DEFINE T == {k \in Nat : k <= N => n \in f[k]}
<1>3. 0 \in T
  BY <1>1
<1>4. ASSUME NEW k \in Nat, k \in T PROVE k + 1 \in T
  <2>1. SUFFICES ASSUME k + 1 <= N PROVE n \in f[k + 1]
    OBVIOUS
  <2>2. n \in f[k] /\ f[k + 1] = f[k] \cup KidsOf(f[k])
    BY <1>1, <1>2, <1>4, <2>1
  <2> QED
    BY <2>2
<1>5. N \in T
  <2> HIDE DEF T
  <2> QED
    BY <1>2, <1>3, <1>4, SetInduction
<1> QED
  BY <1>1, <1>2, <1>5

(* As many steps as there are blocks reach all that is below n: each step  *)
(* but the last reaches a block no step before has.                        *)
LEMMA BelowClosed ==
  ASSUME NEW n, \A x \in Dev \cup {n} : Kids(x) \subseteq Dev
  PROVE  \A x \in Below(n) : Kids(x) \subseteq Below(n)
<1> DEFINE N == Cardinality(Dev)
           U == Dev \cup {n}
<1>1. PICK f : /\ f[0] = {n}
               /\ \A k \in 1..N : f[k] = f[k - 1] \cup KidsOf(f[k - 1])
               /\ Below(n) = f[N]
  BY DevCount, BelowSteps
<1>2. /\ N \in Nat
      /\ IsFiniteSet(U) /\ Cardinality(U) \in Nat /\ Cardinality(U) <= N + 1
  <2>1. IsFiniteSet(Dev) /\ N \in Nat
    BY DevCount, HubAssumption
  <2>2. IsFiniteSet(U) /\ Cardinality(U) = IF n \in Dev THEN N ELSE N + 1
    BY <2>1, FS_AddElement
  <2> QED
    BY <2>1, <2>2
<1>0. \A A : A \subseteq U => KidsOf(A) \subseteq Dev
  BY DEF KidsOf
<1> HIDE DEF N
<1> DEFINE Closed(A) == KidsOf(A) \subseteq A
           T == {k \in Nat : k <= N => /\ f[k] \subseteq U
                                       /\ Closed(f[k]) \/ Cardinality(f[k]) >= k + 1}
<1>3. 0 \in T
  <2>1. Cardinality(f[0]) = 1 /\ f[0] \subseteq U
    BY <1>1, FS_Singleton
  <2> QED
    BY <2>1
<1>4. ASSUME NEW k \in Nat, k \in T PROVE k + 1 \in T
  <2>1. SUFFICES ASSUME k + 1 <= N
                 PROVE  /\ f[k + 1] \subseteq U
                        /\ Closed(f[k + 1]) \/ Cardinality(f[k + 1]) >= k + 2
    OBVIOUS
  <2>2. /\ f[k] \subseteq U /\ f[k + 1] = f[k] \cup KidsOf(f[k])
        /\ Closed(f[k]) \/ Cardinality(f[k]) >= k + 1
    BY <1>1, <1>2, <1>4, <2>1
  <2>3. f[k + 1] \subseteq U
    BY <1>0, <2>2
  <2>4. CASE Closed(f[k])
    <3>1. f[k + 1] = f[k]
      BY <2>2, <2>4
    <3> QED
      BY <2>3, <2>4, <3>1
  <2>5. CASE ~Closed(f[k])
    <3>1. PICK c \in f[k + 1] : c \notin f[k]
      BY <2>2, <2>5
    <3>2. /\ IsFiniteSet(f[k]) /\ Cardinality(f[k]) \in Nat
          /\ IsFiniteSet(f[k + 1]) /\ Cardinality(f[k + 1]) \in Nat
      BY <1>2, <2>2, <2>3, FS_Subset, FS_CardinalityType
    <3>3. Cardinality(f[k] \cup {c}) = Cardinality(f[k]) + 1
      BY <3>1, <3>2, FS_AddElement
    <3>4. Cardinality(f[k] \cup {c}) <= Cardinality(f[k + 1])
      <4>1. f[k] \cup {c} \in SUBSET f[k + 1]
        BY <2>2, <3>1
      <4> QED
        BY <3>2, <4>1, FS_Subset
    <3>5. Cardinality(f[k]) >= k + 1
      BY <2>2, <2>5
    <3>6. Cardinality(f[k + 1]) >= k + 2
      BY <3>2, <3>3, <3>4, <3>5
    <3> QED
      BY <2>3, <3>6
  <2> QED
    BY <2>4, <2>5
<1>5. N \in T
  <2> HIDE DEF T
  <2> QED
    BY <1>2, <1>3, <1>4, SetInduction
<1>6. f[N] \subseteq U /\ (Closed(f[N]) \/ Cardinality(f[N]) >= N + 1)
  BY <1>2, <1>5
<1>7. Closed(f[N])
  <2>1. CASE Cardinality(f[N]) >= N + 1
    <3>1. Cardinality(f[N]) <= Cardinality(U) /\ Cardinality(f[N]) \in Nat
      BY <1>2, <1>6, FS_Subset, FS_CardinalityType
    <3>2. Cardinality(U) = Cardinality(f[N])
      BY <1>2, <2>1, <3>1
    <3>3. f[N] = U
      BY <1>2, <1>6, <3>2, FS_Subset
    <3> QED
      BY <1>0, <3>3
  <2> QED
    BY <1>6, <2>1
<1> QED
  BY <1>1, <1>7 DEF KidsOf

-----------------------------------------------------------------------------
(* A usbdev_t block.                                                       *)
Record == [used : BOOLEAN, hub : BOOLEAN, drv : BOOLEAN, addr : 0..MaxAddr,
           slot : [Port -> Dev \cup {NoDev}]]

(* The driver waits or works inside usbhub_scan_ports, or follows a null   *)
(* pointer there.                                                          *)
Busy == {"power", "status", "clear", "reset", "resetting", "identify",
         "configure", "remove", "queue", "null_dev", "null_descr"}

(* The types of what the properties are about; the hardware is left free.  *)
HubType ==
  /\ intreq \in [Node -> Nat]
  /\ flag \in [Node -> BOOLEAN]
  /\ busScan \in BOOLEAN
  /\ node \in [Node -> Record]
  /\ table \in [1..MaxAddr -> Node \cup {NoDev}]
  /\ pc \in Busy \cup {"main", "walk"}
  /\ walk \in Seq(Node \X (0..NPorts))
  /\ port \in Port
  /\ new \in Dev \cup {NoDev}

(* Blocks hang in slots of hubs in use, each in one slot; nothing hangs in *)
(* a block that is not in use, and the one being made hangs nowhere yet.   *)
Hung ==
  /\ \A n \in Node, p \in Port : node[n].slot[p] # NoDev =>
       /\ node[n].used /\ node[n].hub
       /\ node[node[n].slot[p]].used /\ node[n].slot[p] # new
  /\ \A m, n \in Node, p, q \in Port :
       node[m].slot[p] = node[n].slot[q] /\ node[m].slot[p] # NoDev => m = n /\ p = q
  /\ node[Root].used /\ node[Root].hub

(* A block is under construction just while its device is being identified *)
(* and configured: it is in use, and no child, watch or flag of a former   *)
(* life is left in it.                                                     *)
Making ==
  /\ new # NoDev <=> pc \in {"identify", "configure"}
  /\ new # NoDev => /\ node[new].used /\ intreq[new] = 0 /\ ~flag[new]
                    /\ \A p \in Port : node[new].slot[p] = NoDev
                    /\ pc = "identify" => node[new].addr = 0

(* The calls of usbhub_map_tree1 are a path down from the root hub.        *)
Path ==
  /\ walk = <<>> <=> pc = "main"
  /\ walk # <<>> => walk[1][1] = Root
  /\ \A i \in 1..Len(walk) : i < Len(walk) =>
        /\ walk[i][2] \in Port
        /\ node[walk[i][1]].slot[walk[i][2]] = walk[i + 1][1]
  /\ \A i, j \in 1..Len(walk) : walk[i][1] = walk[j][1] => i = j
  /\ \A i \in 1..Len(walk) : node[walk[i][1]].used /\ node[walk[i][1]].hub

(* Of its request, its flag and its scan a hub has at most one, and none   *)
(* if it is not in use.                                                    *)
Watched(n) ==
  /\ intreq[n] \in {0, 1}
  /\ intreq[n] = 1 => ~flag[n] /\ ~Scanning(n)
  /\ flag[n] => ~Scanning(n)
  /\ flag[n] \/ intreq[n] = 1 => node[n].used /\ node[n].hub

(* The root hub always has one of the three.                               *)
Watches ==
  /\ \A n \in Node : Watched(n)
  /\ intreq[Root] = 1 \/ flag[Root] \/ Scanning(Root)

(* A block in use is in the tree, displaced or being made.                 *)
InUse ==
  \A n \in Node : node[n].used => n \in Below(Root) \cup displaced \cup {new}

(* The inductive invariant.                                                *)
HubInv ==
  /\ HubType /\ Hung /\ Making /\ Path
  /\ Watches /\ InUse /\ Addressed /\ ScanReached

(* What the assumptions say of the names.                                  *)
LEMMA Names ==
  /\ Root \in Node /\ Dev \subseteq Node /\ NoDev \notin Node
  /\ "default" \notin Node /\ NoDev # "default" /\ Root \notin Gadget
  /\ Root \notin Dev /\ Node = Dev \cup {Root} /\ NPorts \in 1..7 /\ Port = 1..NPorts
BY HubAssumption DEF Node, Gadget, Port

(* The children of a block are what its slots hold.                        *)
LEMMA KidsOfBlock ==
  ASSUME HubType, NEW n \in Node
  PROVE  /\ Kids(n) \subseteq Dev
         /\ \A y : y \in Kids(n) <=> y # NoDev /\ \E p \in Port : node[n].slot[p] = y
BY Names DEF HubType, Record, Kids

(* What Below is, as formulas that can be primed.                          *)
LeastClosed ==
  \A n : /\ n \in Below(n)
         /\ \A S : n \in S /\ (\A x \in S : Kids(x) \subseteq S) => Below(n) \subseteq S

BlocksClosed ==
  HubType => \A n \in Node : /\ Below(n) \subseteq Dev \cup {n}
                             /\ \A x \in Below(n) : Kids(x) \subseteq Below(n)

(* Both for all hubs, in this state and in the next.                       *)
LEMMA BelowFacts == LeastClosed
<1>1. SUFFICES ASSUME NEW n
               PROVE  /\ n \in Below(n)
                      /\ \A S : n \in S /\ (\A x \in S : Kids(x) \subseteq S) => Below(n) \subseteq S
  BY DEF LeastClosed
<1> QED
  BY BelowSelf, BelowLeast, Zenon DEF LeastClosed

LEMMA BelowFactsNext ==
  \A n : /\ n \in Below(n)'
         /\ \A S : n \in S /\ (\A x \in S : Kids(x)' \subseteq S) => Below(n)' \subseteq S
<1>1. LeastClosed'
  BY BelowFacts, PTL
<1> QED
  BY <1>1 DEF LeastClosed

(* The same with the types of HubType.                                     *)
LEMMA BelowBlock ==
  ASSUME HubType, NEW n \in Node
  PROVE  /\ Below(n) \subseteq Dev \cup {n}
         /\ \A x \in Below(n) : Kids(x) \subseteq Below(n)
<1>1. \A x \in Dev \cup {n} : Kids(x) \subseteq Dev
  BY KidsOfBlock, Names
<1>2. \A x \in Dev \cup {n} : Kids(x) \subseteq Dev \cup {n}
  BY <1>1
<1> QED
  BY <1>1, <1>2, BelowClosed, BelowLeast

LEMMA BelowBlocks == BlocksClosed
BY BelowBlock DEF BlocksClosed

LEMMA BelowBlockNext ==
  ASSUME HubType', NEW n \in Node
  PROVE  /\ Below(n)' \subseteq Dev \cup {n}
         /\ \A x \in Below(n)' : Kids(x)' \subseteq Below(n)'
<1>1. BlocksClosed'
  BY BelowBlocks, PTL
<1> QED
  BY <1>1 DEF BlocksClosed

LEMMA KidsOfBlockNext ==
  ASSUME HubType', NEW n \in Node
  PROVE  /\ Kids(n)' \subseteq Dev
         /\ \A y : y \in Kids(n)' <=> y # NoDev /\ \E p \in Port : node'[n].slot[p] = y
BY Names DEF HubType, Record, Kids

(* Below a hub are the hub and what is below its children.                 *)
LEMMA BelowSplit ==
  ASSUME HubType, NEW n \in Node, NEW x \in Below(n), x # n
  PROVE  \E c \in Kids(n) : x \in Below(c)
<1> DEFINE S == {n} \cup UNION {Below(c) : c \in Kids(n)}
<1>1. \A y \in S : Kids(y) \subseteq S
  <2>1. Kids(n) \subseteq S
    BY BelowFacts DEF LeastClosed
  <2>2. ASSUME NEW c \in Kids(n), NEW y \in Below(c) PROVE Kids(y) \subseteq Below(c)
    BY BelowBlock, KidsOfBlock, Names
  <2> QED
    BY <2>1, <2>2
<1>2. Below(n) \subseteq S
  <2> HIDE DEF S
  <2>1. n \in S
    BY DEF S
  <2> QED
    BY <1>1, <2>1, BelowFacts DEF LeastClosed
<1> QED
  BY <1>2

(* A part of the tree is taken out and something without children put in.  *)
LEMMA CutTree ==
  ASSUME HubType, HubType', NEW cut \in SUBSET Dev, NEW add \in SUBSET Dev,
         \A y \in cut : Kids(y) \subseteq cut,
         \A y \in Node \ cut : Kids(y) \subseteq Kids(y)' \cup cut,
         \A y \in Node \ cut : Kids(y)' \subseteq (Kids(y) \ cut) \cup add,
         \A y \in add : Kids(y)' = {}
  PROVE  /\ \A x \in Node : Below(x) \subseteq Below(x)' \cup cut
         /\ Below(Root)' \subseteq (Below(Root) \ cut) \cup add
<1>1. ASSUME NEW x \in Node PROVE Below(x) \subseteq Below(x)' \cup cut
  <2>1. PICK B : B = Below(x)'
    OBVIOUS
  <2>2. x \in B /\ B \subseteq Node /\ \A y \in B : Kids(y)' \subseteq B
    BY <2>1, BelowFactsNext, BelowBlockNext, Names
  <2>3. \A y \in B \cup cut : Kids(y) \subseteq B \cup cut
    BY <2>2
  <2>4. Below(x) \subseteq B \cup cut
    BY <2>2, <2>3, BelowFacts DEF LeastClosed
  <2> QED
    BY <2>1, <2>4
<1>2. Below(Root)' \subseteq (Below(Root) \ cut) \cup add
  <2>1. PICK B : B = Below(Root)
    OBVIOUS
  <2>2. Root \in B /\ B \subseteq Node /\ \A y \in B : Kids(y) \subseteq B
    BY <2>1, BelowFacts, BelowBlock, Names DEF LeastClosed
  <2>3. Root \in (B \ cut) \cup add
    BY <2>2, Names
  <2>4. \A y \in (B \ cut) \cup add : Kids(y)' \subseteq (B \ cut) \cup add
    BY <2>2
  <2>5. Below(Root)' \subseteq (B \ cut) \cup add
    BY <2>3, <2>4, BelowFactsNext
  <2> QED
    BY <2>1, <2>5
<1> QED
  BY <1>1, <1>2

(* No slot changes: what is below what stays.                              *)
LEMMA SameBelow ==
  ASSUME HubType, HubType', \A n \in Node : node'[n].slot = node[n].slot
  PROVE  /\ \A x \in Node : Below(x) \subseteq Below(x)'
         /\ Below(Root)' = Below(Root)
<1>1. \A y \in Node : Kids(y)' = Kids(y)
  BY DEF Kids
<1>2. /\ \A x \in Node : Below(x) \subseteq Below(x)' \cup {}
      /\ Below(Root)' \subseteq (Below(Root) \ {}) \cup {}
  <2>1. /\ \A y \in {} : Kids(y) \subseteq {}
        /\ \A y \in Node \ {} : Kids(y) \subseteq Kids(y)' \cup {}
        /\ \A y \in Node \ {} : Kids(y)' \subseteq (Kids(y) \ {}) \cup {}
        /\ \A y \in {} : Kids(y)' = {}
    BY <1>1
  <2> QED
    BY <2>1, CutTree
<1> QED
  BY <1>2, Names

(* What is below a slot of a hub: it holds the parents of all its members  *)
(* but the first.                                                          *)
LEMMA Subtree ==
  ASSUME HubType, Hung, NEW h \in Node, NEW q \in Port, node[h].slot[q] # NoDev
  PROVE  LET cut == Below(node[h].slot[q])
         IN  /\ cut \subseteq Dev /\ node[h].slot[q] \in cut
             /\ \A y \in cut : Kids(y) \subseteq cut
             /\ \A x \in Node, p \in Port :
                  node[x].slot[p] \in cut => x \in cut \/ (x = h /\ p = q)
<1>1. PICK old : old = node[h].slot[q]
  OBVIOUS
<1>2. PICK cut : cut = Below(old)
  OBVIOUS
<1>3. old \in Dev
  BY <1>1, KidsOfBlock
<1>4. cut \subseteq Dev /\ old \in cut /\ \A y \in cut : Kids(y) \subseteq cut
  BY <1>2, <1>3, BelowBlock, BelowFacts, Names DEF LeastClosed
<1> DEFINE S == {old} \cup {y \in cut : \E x \in cut : y \in Kids(x)}
<1>5. \A y \in S : Kids(y) \subseteq S
  BY <1>4
<1>6. cut \subseteq S
  <2>1. old \in S
    OBVIOUS
  <2> HIDE DEF S
  <2> QED
    BY <1>2, <1>5, <2>1, BelowFacts DEF LeastClosed
<1>7. ASSUME NEW x \in Node, NEW p \in Port, node[x].slot[p] \in cut
      PROVE  x \in cut \/ (x = h /\ p = q)
  <2>1. node[x].slot[p] # NoDev
    BY <1>4, <1>7, Names
  <2>2. CASE node[x].slot[p] = old
    BY <1>1, <2>1, <2>2 DEF Hung
  <2>3. CASE node[x].slot[p] # old
    <3>1. PICK z \in cut : node[x].slot[p] \in Kids(z)
      BY <1>6, <1>7, <2>3
    <3>2. z \in Node
      BY <1>4, Names
    <3>3. PICK r \in Port : node[z].slot[r] = node[x].slot[p]
      BY <3>1, <3>2, KidsOfBlock
    <3> QED
      BY <2>1, <3>2, <3>3 DEF Hung
  <2> QED
    BY <2>2, <2>3
<1> QED
  BY <1>1, <1>2, <1>4, <1>7

-----------------------------------------------------------------------------
(* Places of usbhub_scan_ports with no device under construction.          *)
Plain == Busy \ {"identify", "configure"}

(* The frames of the walk, and the last of them.                           *)
LEMMA Frame ==
  ASSUME HubType, NEW i \in 1..Len(walk)
  PROVE  walk[i][1] \in Node /\ walk[i][2] \in 0..NPorts
BY DEF HubType

LEMMA LastFrame ==
  ASSUME HubType, walk # <<>>
  PROVE  Len(walk) \in Nat /\ Len(walk) \in 1..Len(walk) /\ Scanned \in Node
<1>1. Len(walk) \in Nat /\ Len(walk) # 0
  BY DEF HubType
<1> QED
  BY <1>1, Frame DEF Scanned

(* No hub of the walk is below the hub the walk has come to.               *)
LEMMA WalkOutside ==
  ASSUME HubType, Hung, Path, walk # <<>>, NEW q \in Port, node[Scanned].slot[q] # NoDev
  PROVE  \A i \in 1..Len(walk) : walk[i][1] \notin Below(node[Scanned].slot[q])
<1>1. PICK cut : cut = Below(node[Scanned].slot[q])
  OBVIOUS
<1>2. Scanned \in Node /\ Len(walk) \in Nat
  BY LastFrame
<1>3. /\ cut \subseteq Dev
      /\ \A x \in Node, p \in Port :
           node[x].slot[p] \in cut => x \in cut \/ (x = Scanned /\ p = q)
  BY <1>1, <1>2, Subtree
<1> DEFINE T == {i \in 1..Len(walk) : walk[i][1] \in cut}
<1>4. SUFFICES ASSUME T # {} PROVE FALSE
  BY <1>1
<1>5. PICK i \in T : \A j \in T : i <= j
  <2>1. T \subseteq Nat
    BY <1>2
  <2> HIDE DEF T
  <2> QED
    BY <1>4, <2>1, SmallestIn
<1>6. i # 1
  BY <1>3, <1>5, Names DEF Path
<1>7. i - 1 \in 1..Len(walk) /\ i - 1 < Len(walk) /\ (i - 1) + 1 = i /\ i - 1 # Len(walk)
  BY <1>2, <1>5, <1>6
<1>8. walk[i - 1][1] \notin cut
  BY <1>5, <1>7
<1>9. walk[i - 1][1] = Scanned
  BY <1>3, <1>5, <1>7, <1>8, Frame DEF Path
<1>10. walk[i - 1][1] = walk[Len(walk)][1] /\ Len(walk) \in 1..Len(walk)
  BY <1>9, LastFrame DEF Scanned
<1> QED
  BY <1>7, <1>10 DEF Path

(* The walk does not leave the tree.                                       *)
LEMMA WalkBelow ==
  ASSUME HubType, Path
  PROVE  \A i \in 1..Len(walk) : walk[i][1] \in Below(Root)
<1> DEFINE T == {i \in 1..Len(walk) : walk[i][1] \notin Below(Root)}
<1>1. SUFFICES ASSUME T # {} PROVE FALSE
  OBVIOUS
<1>2. PICK i \in T : \A j \in T : i <= j
  <2>1. T \subseteq Nat
    BY DEF HubType
  <2> HIDE DEF T
  <2> QED
    BY <1>1, <2>1, SmallestIn
<1>3. i # 1
  BY <1>2, BelowFacts DEF Path, LeastClosed
<1>4. i - 1 \in 1..Len(walk) /\ i - 1 < Len(walk) /\ (i - 1) + 1 = i
  BY <1>2, <1>3 DEF HubType
<1>5. walk[i - 1][1] \in Below(Root)
  BY <1>2, <1>4
<1>6. walk[i][1] \in Kids(walk[i - 1][1])
  <2>1. walk[i - 1][1] \in Node /\ walk[i][1] \in Node
    BY <1>2, <1>4, Frame
  <2>2. node[walk[i - 1][1]].slot[walk[i - 1][2]] = walk[i][1] /\ walk[i - 1][2] \in Port
    BY <1>4 DEF Path
  <2> QED
    BY <2>1, <2>2, KidsOfBlock, Names
<1> QED
  BY <1>2, <1>5, <1>6, BelowBlock, Names

(* What the walk has yet to come to stays, but for what was taken away.    *)
LEMMA AheadKept ==
  ASSUME HubType, HubType', walk' = walk, NEW cut,
         \A x \in Node : Below(x) \subseteq Below(x)' \cup cut,
         \A i \in 1..Len(walk), p \in Port :
           node[walk[i][1]].slot[p] # NoDev =>
             \/ node'[walk[i][1]].slot[p] = node[walk[i][1]].slot[p]
             \/ Below(node[walk[i][1]].slot[p]) \subseteq cut
  PROVE  Ahead \subseteq Ahead' \cup cut
<1>1. SUFFICES ASSUME NEW n \in Ahead, n \notin cut PROVE n \in Ahead'
  OBVIOUS
<1>0. PICK i \in DOMAIN walk :
        \E p \in Later(walk[i][1], walk[i][2]) : n \in Below(node[walk[i][1]].slot[p])
  BY DEF Ahead
<1>2. PICK p \in Later(walk[i][1], walk[i][2]) : n \in Below(node[walk[i][1]].slot[p])
  BY <1>0
<1>3. DOMAIN walk = 1..Len(walk)
  BY DEF HubType
<1>4. PICK h, k, c : h = walk[i][1] /\ k = walk[i][2] /\ c = node[h].slot[p]
  OBVIOUS
<1>5. p \in Port /\ p > k /\ c # NoDev /\ n \in Below(c)
  BY <1>2, <1>4 DEF Later
<1>6. h \in Node /\ c \in Dev
  BY <1>2, <1>3, <1>4, <1>5, Frame, KidsOfBlock
<1>7. node'[h].slot[p] = c /\ n \in Below(c)'
  BY <1>1, <1>2, <1>3, <1>4, <1>5, <1>6, Names
<1>8. p \in Later(walk[i][1], walk[i][2])'
  BY <1>4, <1>5, <1>7 DEF Later
<1>9. n \in Below(node[walk[i][1]].slot[p])'
  BY <1>4, <1>7
<1> QED
  BY <1>0, <1>8, <1>9 DEF Ahead

(* Flags go up for the next walk only, or stay up for what this one has    *)
(* yet to come to.                                                         *)
LEMMA ReachedKept ==
  ASSUME HubType, HubType', ScanReached, NEW cut, NEW add,
         Ahead \subseteq Ahead' \cup cut,
         Below(Root)' \subseteq (Below(Root) \ cut) \cup add,
         busScan => busScan',
         \A n \in Node : flag'[n] => busScan' \/ (flag[n] /\ n \notin add)
  PROVE  ScanReached'
<1>1. SUFFICES ASSUME NEW n \in Below(Root)', flag'[n] PROVE busScan' \/ n \in Ahead'
  BY DEF ScanReached
<1>2. n \in Node
  BY BelowBlockNext, Names
<1> QED
  BY <1>1, <1>2 DEF ScanReached

(* The blocks stay as they are.                                            *)
LEMMA SameBlocks ==
  ASSUME HubInv, HubType', UNCHANGED <<node, table, displaced, new>>
  PROVE  /\ Hung' /\ InUse' /\ Addressed'
         /\ \A x \in Node : Below(x) \subseteq Below(x)'
         /\ Below(Root)' = Below(Root)
<1>1. HubType /\ Hung /\ InUse /\ Addressed
  BY DEF HubInv
<1>2. /\ \A x \in Node : Below(x) \subseteq Below(x)'
      /\ Below(Root)' = Below(Root)
  BY <1>1, SameBelow
<1>3. Hung'
  BY <1>1 DEF Hung
<1>4. InUse'
  BY <1>1, <1>2 DEF InUse
<1>5. Addressed'
  BY <1>1 DEF Addressed
<1> QED
  BY <1>2, <1>3, <1>4, <1>5

(* Neither the blocks nor the walk change, and flags go up with the bus's. *)
LEMMA SameWalk ==
  ASSUME HubInv, HubType', UNCHANGED <<node, table, displaced, new, walk>>,
         pc' = "main" <=> pc = "main",
         busScan => busScan',
         \A n \in Node : flag'[n] => busScan' \/ flag[n]
  PROVE  Hung' /\ InUse' /\ Addressed' /\ Path' /\ ScanReached'
<1>1. HubType /\ Path /\ ScanReached
  BY DEF HubInv
<1>2. /\ Hung' /\ InUse' /\ Addressed'
      /\ \A x \in Node : Below(x) \subseteq Below(x)'
      /\ Below(Root)' = Below(Root)
  BY SameBlocks
<1>3. Path'
  BY <1>1 DEF Path
<1>4. Ahead \subseteq Ahead' \cup {}
  BY <1>1, <1>2, AheadKept
<1>5. Below(Root)' \subseteq (Below(Root) \ {}) \cup {}
  BY <1>2
<1>6. ScanReached'
  BY <1>1, <1>4, <1>5, ReachedKept
<1> QED
  BY <1>2, <1>3, <1>6

(* The steps of the user, of the wires, and of usbhub_scan_ports between   *)
(* its looks at the tree.                                                  *)
LEMMA Steady ==
  ASSUME HubInv, UNCHANGED <<intreq, flag, busScan, node, table, displaced, walk, new>>,
         port' \in Port, pc' = pc \/ (pc \in Plain /\ pc' \in Plain)
  PROVE  HubInv'
<1>1. HubType /\ Making /\ Watches
  BY DEF HubInv
<1>2. HubType'
  BY <1>1 DEF HubType, Plain
<1>3. /\ pc' = "main" <=> pc = "main"
      /\ pc' \in {"main", "walk"} <=> pc \in {"main", "walk"}
      /\ pc' \in {"identify", "configure"} <=> pc \in {"identify", "configure"}
      /\ pc' = "identify" <=> pc = "identify"
  BY DEF Plain, Busy
<1>4. Hung' /\ InUse' /\ Addressed' /\ Path' /\ ScanReached'
  BY <1>2, <1>3, SameWalk
<1>5. Making'
  BY <1>1, <1>3 DEF Making
<1>6. \A n \in Node : Scanning(n)' <=> Scanning(n)
  BY <1>3 DEF Scanning, Scanned
<1>7. Watches'
  BY <1>1, <1>6, Names DEF Watches, Watched
<1> QED
  BY <1>2, <1>4, <1>5, <1>7 DEF HubInv

-----------------------------------------------------------------------------
(* A hub's interrupt request completes, with a report or without.          *)
LEMMA ReportInv ==
  ASSUME HubInv, NEW h \in Node, intreq[h] > 0,
         UNCHANGED <<node, table, displaced, walk, port, new, pc>>,
         intreq' = [intreq EXCEPT ![h] = @ - 1],
         \/ flag' = [flag EXCEPT ![h] = TRUE] /\ busScan' = TRUE
         \/ h # Root /\ UNCHANGED <<flag, busScan>>
  PROVE  HubInv'
<1>1. HubType /\ Making /\ Watches
  BY DEF HubInv
<1>2. intreq[h] = 1 /\ ~flag[h] /\ ~Scanning(h) /\ node[h].used /\ node[h].hub /\ h # new
  <2>1. Watched(h)
    BY <1>1 DEF Watches
  <2>2. intreq[h] = 1
    BY <2>1 DEF Watched
  <2>3. h # new
    BY <1>1, <2>2, Names DEF Making
  <2> QED
    BY <2>1, <2>2, <2>3 DEF Watched
<1>0. intreq' = [intreq EXCEPT ![h] = 0]
  BY <1>2
<1>3. intreq' \in [Node -> Nat] /\ flag' \in [Node -> BOOLEAN] /\ busScan' \in BOOLEAN
  <2>1. intreq' \in [Node -> Nat]
    BY <1>0, <1>1 DEF HubType
  <2>2. flag' \in [Node -> BOOLEAN]
    BY <1>1 DEF HubType
  <2>3. busScan' \in BOOLEAN
    BY <1>1 DEF HubType
  <2> QED
    BY <2>1, <2>2, <2>3
<1>4. HubType'
  BY <1>1, <1>3 DEF HubType
<1>5. Hung' /\ InUse' /\ Addressed' /\ Path' /\ ScanReached'
  BY <1>1, <1>4, SameWalk DEF HubType
<1>6. \A n \in Node : Scanning(n)' <=> Scanning(n)
  BY DEF Scanning, Scanned
<1>7. \A n \in Node : n # h => intreq'[n] = intreq[n] /\ flag'[n] = flag[n]
  BY <1>1 DEF HubType
<1>8. intreq'[h] = 0 /\ (flag'[h] \/ (h # Root /\ ~flag'[h]))
  <2>1. intreq'[h] = 0
    BY <1>0, <1>1 DEF HubType
  <2>2. CASE flag' = [flag EXCEPT ![h] = TRUE]
    <3>1. flag'[h] = TRUE
      BY <1>1, <2>2 DEF HubType
    <3> QED
      BY <2>1, <3>1, Zenon
  <2>3. CASE h # Root /\ flag' = flag
    BY <1>2, <2>1, <2>3
  <2> QED
    BY <2>2, <2>3
<1>9. Making'
  BY <1>1, <1>2, <1>7, Names DEF Making, HubType
<1>10. Watches'
  BY <1>1, <1>2, <1>6, <1>7, <1>8, Names DEF Watches, Watched
<1> QED
  BY <1>4, <1>5, <1>9, <1>10 DEF HubInv

(* ohci_intr tells the root hub, or drops what it saw.                     *)
LEMMA PollInv ==
  ASSUME HubInv, Poll
  PROVE  HubInv'
<1>1. HubType
  BY DEF HubInv
<1>2. CASE UNCHANGED noteVars
  BY <1>1, <1>2, Steady DEF Poll, treeVars, scanVars, noteVars, HubType
<1>3. CASE UNCHANGED <<intreq, flag, busScan>>
  BY <1>1, <1>3, Steady DEF Poll, treeVars, scanVars, HubType
<1>4. CASE intreq[Root] > 0 /\ Callback(Root)
  BY <1>1, <1>4, ReportInv, Names DEF Poll, Callback, treeVars, scanVars
<1> QED
  BY <1>2, <1>3, <1>4 DEF Poll, Intr

(* Another hub reports, or its request ends because it is gone.            *)
LEMMA HubReportInv ==
  ASSUME HubInv, NEW n \in Node, HubReport(n)
  PROVE  HubInv'
BY ReportInv DEF HubReport, Callback, treeVars, scanVars

(* usb_daemon begins a walk at the root hub.                               *)
LEMMA DaemonInv ==
  ASSUME HubInv, Daemon
  PROVE  HubInv'
<1>1. HubType /\ Hung /\ Making /\ Path /\ Watches
  BY DEF HubInv
<1>2. /\ pc = "main" /\ walk = <<>> /\ walk' = Append(<<>>, <<Root, 0>>)
      /\ flag' = [flag EXCEPT ![Root] = FALSE]
      /\ pc' = IF flag[Root] THEN "power" ELSE "walk"
      /\ busScan' = FALSE
      /\ UNCHANGED <<node, table, displaced, new, intreq, port>>
  BY <1>1 DEF Daemon, Visit, treeVars, Path
<1>3. Len(walk') = 1 /\ walk'[1] = <<Root, 0>> /\ walk' \in Seq(Node \X (0..NPorts)) /\ walk' # <<>>
  <2>1. <<Root, 0>> \in Node \X (0..NPorts)
    BY Names
  <2>2. walk' = << <<Root, 0>> >>
    BY <1>2
  <2> QED
    BY <2>1, <2>2
<1>4. HubType'
  BY <1>1, <1>2, <1>3 DEF HubType, Busy
<1>5. /\ Hung' /\ InUse' /\ Addressed'
      /\ \A x \in Node : Below(x) \subseteq Below(x)'
      /\ Below(Root)' = Below(Root)
  BY <1>2, <1>4, SameBlocks
<1>6. Path'
  BY <1>1, <1>2, <1>3 DEF Path, Hung
<1>7. \A n \in Node : ~Scanning(n) /\ (Scanning(n)' <=> n = Root /\ flag[Root])
  BY <1>2, <1>3 DEF Scanning, Scanned
<1>8. flag'[Root] = FALSE /\ \A n \in Node : n # Root => flag'[n] = flag[n]
  BY <1>1, <1>2, Names DEF HubType
<1>9. Watches'
  BY <1>1, <1>2, <1>7, <1>8, Names DEF Watches, Watched
<1>10. Making'
  BY <1>1, <1>2, Names DEF Making
<1>11. ASSUME NEW n \in Below(Root), flag'[n] PROVE n \in Ahead'
  <2>1. n # Root
    BY <1>8, <1>11
  <2>2. PICK c \in Kids(Root) : n \in Below(c)
    BY <1>1, <2>1, BelowSplit, Names
  <2>3. PICK p \in Port : node[Root].slot[p] = c /\ c # NoDev /\ c \in Node
    BY <1>1, KidsOfBlock, Names
  <2>4. p \in Later(Root, 0)'
    BY <1>2, <2>3, Names DEF Later
  <2>5. n \in Below(c)' /\ node'[Root].slot[p] = c
    BY <1>2, <1>5, <2>2, <2>3
  <2>6. 1 \in DOMAIN walk' /\ walk'[1][1] = Root /\ walk'[1][2] = 0
    BY <1>3
  <2> QED
    BY <2>4, <2>5, <2>6 DEF Ahead
<1>12. ScanReached'
  BY <1>5, <1>11 DEF ScanReached
<1> QED
  BY <1>4, <1>5, <1>6, <1>9, <1>10, <1>12 DEF HubInv

(* The frames below the last one.                                          *)
LEMMA FramesSeq ==
  ASSUME HubType, walk # <<>>
  PROVE  /\ Frames \in Seq(Node \X (0..NPorts)) /\ Len(Frames) = Len(walk) - 1
         /\ \A i \in 1..(Len(walk) - 1) : Frames[i] = walk[i]
<1>1. walk \in Seq(Node \X (0..NPorts)) /\ Len(walk) \in Nat /\ Len(walk) - 1 \in 0..Len(walk)
  BY LastFrame DEF HubType
<1>2. Frames = [i \in 1..(Len(walk) - 1) |-> walk[i]]
  BY <1>1 DEF Frames
<1>3. \A i \in 1..(Len(walk) - 1) : walk[i] \in Node \X (0..NPorts)
  BY <1>1
<1>4. Len(Frames) = Len(walk) - 1 /\ \A i \in 1..(Len(walk) - 1) : Frames[i] = walk[i]
  BY <1>1, <1>2
<1>5. Frames \in Seq(Node \X (0..NPorts))
  BY <1>1, SubSeqProperties DEF Frames
<1> QED
  BY <1>4, <1>5

(* A hub that has no later child is left.                                  *)
LEMMA AscendInv ==
  ASSUME HubInv, Ascend
  PROVE  HubInv'
<1>1. HubType /\ Hung /\ Making /\ Path /\ Watches /\ ScanReached
  BY DEF HubInv
<1>2. /\ pc = "walk" /\ walk # <<>> /\ walk' = Frames
      /\ pc' = IF Frames = <<>> THEN "main" ELSE "walk"
      /\ Later(Scanned, walk[Len(walk)][2]) = {}
      /\ UNCHANGED <<node, table, displaced, new, intreq, flag, busScan, port>>
  BY <1>1 DEF Ascend, treeVars, noteVars, Path
<1>3. /\ walk' \in Seq(Node \X (0..NPorts)) /\ Len(walk') = Len(walk) - 1
      /\ \A i \in 1..(Len(walk) - 1) : walk'[i] = walk[i]
      /\ Len(walk) \in Nat /\ Len(walk) > 0
  BY <1>1, <1>2, FramesSeq, LastFrame
<1>4. HubType'
  BY <1>1, <1>2, <1>3 DEF HubType
<1>5. /\ Hung' /\ InUse' /\ Addressed'
      /\ \A x \in Node : Below(x) \subseteq Below(x)'
      /\ Below(Root)' = Below(Root)
  BY <1>2, <1>4, SameBlocks
<1>6. Path'
  <2>1. Len(walk') \in Nat /\ (walk' = <<>> <=> Len(walk') = 0)
    <3>1. PICK w : w = walk'
      OBVIOUS
    <3>2. w \in Seq(Node \X (0..NPorts)) /\ Len(w) \in Nat
      BY <1>3, <3>1
    <3>3. w = <<>> <=> Len(w) = 0
      BY <3>2, EmptySeq
    <3> QED
      BY <3>1, <3>2, <3>3
  <2>2. \A i \in 1..Len(walk') : i \in 1..Len(walk) /\ walk'[i] = walk[i]
    BY <1>3
  <2>3. walk' = <<>> <=> pc' = "main"
    BY <1>2
  <2>4. walk' # <<>> => walk'[1][1] = Root
    BY <1>1, <1>2, <1>3, <2>1, <2>2 DEF Path
  <2>5. \A i \in 1..Len(walk') : i < Len(walk') =>
          i < Len(walk) /\ i + 1 \in 1..Len(walk')
    <3>1. PICK L \in Nat : L = Len(walk') /\ Len(walk) = L + 1
      BY <1>3
    <3> QED
      BY <3>1
  <2>6. \A i \in 1..Len(walk') : i < Len(walk') =>
          /\ walk'[i][2] \in Port
          /\ node'[walk'[i][1]].slot[walk'[i][2]] = walk'[i + 1][1]
    BY <1>1, <1>2, <2>2, <2>5 DEF Path
  <2>7. \A i, j \in 1..Len(walk') : walk'[i][1] = walk'[j][1] => i = j
    BY <1>1, <2>2 DEF Path
  <2>8. \A i \in 1..Len(walk') : node'[walk'[i][1]].used /\ node'[walk'[i][1]].hub
    BY <1>1, <1>2, <2>2 DEF Path
  <2> QED
    BY <2>3, <2>4, <2>6, <2>7, <2>8 DEF Path
<1>7. \A n \in Node : ~Scanning(n) /\ ~Scanning(n)'
  BY <1>2 DEF Scanning
<1>8. Watches'
  BY <1>1, <1>2, <1>7, Names DEF Watches, Watched
<1>9. Making'
  BY <1>1, <1>2, Names DEF Making
<1>10. Ahead \subseteq Ahead'
  <2>1. SUFFICES ASSUME NEW n \in Ahead PROVE n \in Ahead'
    OBVIOUS
  <2>2. PICK i \in DOMAIN walk :
          \E p \in Later(walk[i][1], walk[i][2]) : n \in Below(node[walk[i][1]].slot[p])
    BY DEF Ahead
  <2>3. PICK p \in Later(walk[i][1], walk[i][2]) : n \in Below(node[walk[i][1]].slot[p])
    BY <2>2
  <2>4. i \in 1..Len(walk) /\ i # Len(walk)
    <3>1. DOMAIN walk = 1..Len(walk)
      BY <1>1 DEF HubType
    <3>2. i # Len(walk)
      BY <1>2, <2>3 DEF Scanned
    <3> QED
      BY <2>2, <3>1, <3>2
  <2>5. i \in 1..(Len(walk) - 1)
    BY <1>3, <2>4
  <2>6. i \in DOMAIN walk' /\ walk'[i] = walk[i]
    <3>1. DOMAIN walk' = 1..(Len(walk) - 1)
      BY <1>3
    <3> QED
      BY <1>3, <2>5, <3>1
  <2>7. PICK h, k, c : h = walk[i][1] /\ k = walk[i][2] /\ c = node[h].slot[p]
    OBVIOUS
  <2>8. p \in Port /\ p > k /\ c # NoDev /\ n \in Below(c)
    BY <2>3, <2>7 DEF Later
  <2>9. h \in Node /\ c \in Node
    BY <1>1, <2>4, <2>7, <2>8, Frame, KidsOfBlock, Names
  <2>10. n \in Below(c)' /\ node'[h].slot[p] = c
    BY <1>2, <1>5, <2>7, <2>8, <2>9
  <2>11. p \in Later(h, k)'
    BY <2>8, <2>10 DEF Later
  <2> QED
    BY <2>6, <2>7, <2>10, <2>11 DEF Ahead
<1>11. ScanReached'
  BY <1>1, <1>2, <1>5, <1>10 DEF ScanReached
<1> QED
  BY <1>4, <1>5, <1>6, <1>8, <1>9, <1>11 DEF HubInv

(* The walk when a child is passed, and when it is a hub and is visited.   *)
Passed(n, p) == Append(Frames, <<n, p>>)
Visited(n, p, c) == Append(Passed(n, p), <<c, 0>>)

(* The frames after a step down.                                           *)
LEMMA DeeperSeq ==
  ASSUME HubType, walk # <<>>, NEW p \in Port, NEW c \in Node, NEW n \in Node
  PROVE  /\ Passed(n, p) \in Seq(Node \X (0..NPorts))
         /\ Visited(n, p, c) \in Seq(Node \X (0..NPorts))
         /\ Len(Passed(n, p)) = Len(walk) /\ Len(Visited(n, p, c)) = Len(walk) + 1
         /\ \A i \in 1..(Len(walk) - 1) :
              Passed(n, p)[i] = walk[i] /\ Visited(n, p, c)[i] = walk[i]
         /\ Passed(n, p)[Len(walk)] = <<n, p>> /\ Visited(n, p, c)[Len(walk)] = <<n, p>>
         /\ Visited(n, p, c)[Len(walk) + 1] = <<c, 0>>
<1> DEFINE F == Node \X (0..NPorts)
<1>1. <<n, p>> \in F /\ <<c, 0>> \in F
  BY LastFrame, Names
<1>2. PICK u, v, w, L : u = Frames /\ v = Passed(n, p) /\ w = Visited(n, p, c) /\ L = Len(walk)
  OBVIOUS
<1>3. u \in Seq(F) /\ Len(u) = L - 1 /\ \A i \in 1..(L - 1) : u[i] = walk[i]
  BY <1>2, FramesSeq
<1>4. L \in Nat /\ L > 0
  BY <1>2, LastFrame
<1> HIDE DEF F
<1>5. v \in Seq(F) /\ Len(v) = L /\ v[L] = <<n, p>> /\ \A i \in 1..(L - 1) : v[i] = u[i]
  BY <1>1, <1>2, <1>3, <1>4, AppendProperties DEF Passed
<1>6. w \in Seq(F) /\ Len(w) = L + 1 /\ w[L + 1] = <<c, 0>> /\ \A i \in 1..L : w[i] = v[i]
  <2>1. w = Append(v, <<c, 0>>)
    BY <1>2 DEF Visited
  <2> QED
    BY <1>1, <1>4, <1>5, <2>1, AppendProperties
<1>7. \A i \in 1..(L - 1) : v[i] = walk[i] /\ w[i] = walk[i]
  BY <1>3, <1>4, <1>5, <1>6
<1>8. w[L] = <<n, p>>
  BY <1>4, <1>5, <1>6
<1> QED
  BY <1>2, <1>5, <1>6, <1>7, <1>8, Zenon DEF F

(* The next child is looked at, and visited if it is a hub.                *)
LEMMA DescendInv ==
  ASSUME HubInv, Descend
  PROVE  HubInv'
<1>1. HubType /\ Hung /\ Making /\ Path /\ Watches /\ ScanReached
  BY DEF HubInv
<1>2. pc = "walk" /\ walk # <<>>
  BY <1>1 DEF Descend, Path
<1>3. PICK L \in Nat : L = Len(walk) /\ L > 0
  BY <1>1, <1>2, LastFrame
<1>4. PICK n, i : n = Scanned /\ i = walk[L][2]
  OBVIOUS
<1>5. PICK p \in Later(n, i) :
        /\ \A q \in Later(n, i) : p <= q
        /\ LET frames == Append(Frames, <<n, p>>)
               c == node[n].slot[p]
           IN  IF node[c].hub THEN Visit(frames, c)
               ELSE walk' = frames /\ UNCHANGED <<flag, pc>>
  BY <1>3, <1>4 DEF Descend
<1>6. PICK c : c = node[n].slot[p]
  OBVIOUS
<1>7. UNCHANGED <<node, table, displaced, new, intreq, busScan, port>>
  BY DEF Descend, treeVars
<1>8. /\ n \in Node /\ walk[L][1] = n /\ walk[L][2] = i /\ i \in 0..NPorts
      /\ p \in Port /\ p > i /\ c # NoDev /\ c \in Dev /\ c \in Node
  BY <1>1, <1>2, <1>3, <1>4, <1>5, <1>6, LastFrame, Frame, KidsOfBlock, Names DEF Later, Scanned
<1>9. PICK v, w : v = Passed(n, p) /\ w = Visited(n, p, c)
  OBVIOUS
<1>10. /\ v \in Seq(Node \X (0..NPorts)) /\ Len(v) = L
       /\ w \in Seq(Node \X (0..NPorts)) /\ Len(w) = L + 1
       /\ \A j \in 1..(L - 1) : v[j] = walk[j] /\ w[j] = walk[j]
       /\ v[L] = <<n, p>> /\ w[L] = <<n, p>> /\ w[L + 1] = <<c, 0>>
  <2>1. /\ Passed(n, p) \in Seq(Node \X (0..NPorts))
        /\ Visited(n, p, c) \in Seq(Node \X (0..NPorts))
        /\ Len(Passed(n, p)) = Len(walk) /\ Len(Visited(n, p, c)) = Len(walk) + 1
        /\ \A j \in 1..(Len(walk) - 1) :
             Passed(n, p)[j] = walk[j] /\ Visited(n, p, c)[j] = walk[j]
        /\ Passed(n, p)[Len(walk)] = <<n, p>> /\ Visited(n, p, c)[Len(walk)] = <<n, p>>
        /\ Visited(n, p, c)[Len(walk) + 1] = <<c, 0>>
    BY <1>1, <1>2, <1>8, DeeperSeq, Zenon
  <2> QED
    BY <1>3, <1>9, <2>1, Zenon
<1>11. ASSUME walk' = v \/ walk' = w
       PROVE  /\ walk' \in Seq(Node \X (0..NPorts)) /\ walk' # <<>>
              /\ L \in 1..Len(walk') /\ 1..L \subseteq 1..Len(walk')
              /\ DOMAIN walk' = 1..Len(walk')
              /\ \A j \in 1..(L - 1) : walk'[j] = walk[j]
              /\ walk'[L] = <<n, p>>
              /\ \A j \in 1..L : walk'[j][1] = walk[j][1]
  <2>1. PICK z : z = walk' /\ (z = v \/ z = w)
    BY <1>11
  <2>2. /\ z \in Seq(Node \X (0..NPorts)) /\ Len(z) \in {L, L + 1} /\ DOMAIN z = 1..Len(z)
        /\ \A j \in 1..(L - 1) : z[j] = walk[j]
        /\ z[L] = <<n, p>>
    <3>1. CASE z = v
      <4>1. z \in Seq(Node \X (0..NPorts)) /\ Len(z) = L /\ z[L] = <<n, p>>
        BY <1>10, <3>1, Zenon
      <4>2. DOMAIN z = 1..Len(z)
        BY <4>1, LenProperties, Zenon
      <4>3. \A j \in 1..(L - 1) : z[j] = walk[j]
        BY <1>10, <3>1, Zenon
      <4> QED
        BY <4>1, <4>2, <4>3, Zenon
    <3>2. CASE z = w
      <4>1. z \in Seq(Node \X (0..NPorts)) /\ Len(z) = L + 1 /\ z[L] = <<n, p>>
        BY <1>10, <3>2, Zenon
      <4>2. DOMAIN z = 1..Len(z)
        BY <4>1, LenProperties, Zenon
      <4>3. \A j \in 1..(L - 1) : z[j] = walk[j]
        BY <1>10, <3>2, Zenon
      <4> QED
        BY <4>1, <4>2, <4>3, Zenon
    <3> QED
      BY <2>1, <3>1, <3>2, Zenon
  <2>3. L \in 1..Len(z) /\ 1..L \subseteq 1..Len(z) /\ Len(z) # 0
    <3>1. \A M : M \in {L, L + 1} => L \in 1..M /\ 1..L \subseteq 1..M /\ M # 0
      BY <1>3
    <3> QED
      BY <2>2, <3>1, Zenon
  <2>4. z # <<>>
    BY <2>3, EmptySeq, Zenon
  <2>5. \A j \in 1..L : z[j][1] = walk[j][1]
    <3>1. ASSUME NEW j \in 1..L PROVE z[j][1] = walk[j][1]
      <4>1. CASE j = L
        <5>1. <<n, p>>[1] = n
          OBVIOUS
        <5> QED
          BY <1>8, <2>2, <4>1, <5>1, Zenon
      <4>2. CASE j # L
        <5>1. j \in 1..(L - 1)
          BY <1>3, <4>2
        <5> QED
          BY <2>2, <5>1, Zenon
      <4> QED
        BY <4>1, <4>2
    <3> QED
      BY <3>1
  <2> QED
    BY <2>1, <2>2, <2>3, <2>4, <2>5, Zenon
<1>12. ASSUME HubType', \A x \in Node : Below(x) \subseteq Below(x)', walk' = v \/ walk' = w,
              NEW x \in Ahead, x \notin Below(c)
       PROVE  x \in Ahead'
  <2>1. PICK j \in DOMAIN walk :
          \E q \in Later(walk[j][1], walk[j][2]) : x \in Below(node[walk[j][1]].slot[q])
    BY DEF Ahead
  <2>2. PICK q \in Later(walk[j][1], walk[j][2]) : x \in Below(node[walk[j][1]].slot[q])
    BY <2>1
  <2>3. PICK h, k, d : h = walk[j][1] /\ k = walk[j][2] /\ d = node[h].slot[q]
    OBVIOUS
  <2>4. q \in Port /\ q > k /\ d # NoDev /\ x \in Below(d)
    BY <2>2, <2>3 DEF Later
  <2>5. j \in 1..L
    BY <1>1, <1>3 DEF HubType
  <2>6. h \in Node /\ d \in Node
    BY <1>1, <1>3, <2>3, <2>4, <2>5, Frame, KidsOfBlock, Names
  <2>7. x \in Below(d)' /\ node'[h].slot[q] = d
    BY <1>7, <1>12, <2>3, <2>4, <2>6
  <2>8. j \in DOMAIN walk' /\ walk'[j][1] = h
    BY <1>11, <1>12, <2>3, <2>5
  <2>9. walk'[j][2] < q
    <3>1. CASE j = L
      <4>1. h = n /\ k = i
        BY <1>8, <2>3, <3>1
      <4>2. q # p
        BY <1>6, <1>12, <2>3, <2>4, <4>1
      <4>3. p <= q
        BY <1>5, <2>2, <2>3, <4>1
      <4>4. p < q
        BY <1>8, <2>4, <4>2, <4>3, Names
      <4> QED
        BY <1>11, <1>12, <3>1, <4>4
    <3>2. CASE j # L
      <4>1. walk'[j] = walk[j]
        BY <1>3, <1>11, <1>12, <2>5, <3>2
      <4> QED
        BY <2>3, <2>4, <4>1
    <3> QED
      BY <3>1, <3>2
  <2>10. q \in Later(walk[j][1], walk[j][2])'
    BY <2>4, <2>7, <2>8, <2>9 DEF Later
  <2> QED
    BY <2>3, <2>7, <2>8, <2>10 DEF Ahead
<1>13. CASE ~node[c].hub
  <2>1. walk' = v /\ UNCHANGED <<flag, pc>>
    BY <1>5, <1>6, <1>9, <1>13 DEF Passed
  <2>2. Kids(c) = {}
    BY <1>1, <1>8, <1>13, KidsOfBlock DEF Hung
  <2>3. HubType'
    BY <1>1, <1>7, <1>11, <2>1 DEF HubType
  <2>4. /\ Hung' /\ InUse' /\ Addressed'
        /\ \A x \in Node : Below(x) \subseteq Below(x)'
        /\ Below(Root)' = Below(Root)
    BY <1>7, <2>3, SameBlocks
  <2>5. Making'
    BY <1>1, <1>7, <2>1 DEF Making
  <2>6. Path'
    <3>1. Len(walk') = L /\ walk' # <<>>
      BY <1>10, <1>11, <2>1
    <3>2. walk'[1][1] = Root
      BY <1>1, <1>2, <1>3, <1>11, <2>1 DEF Path
    <3>3. \A j \in 1..L : j < L => /\ walk'[j][2] \in Port
                                   /\ node'[walk'[j][1]].slot[walk'[j][2]] = walk'[j + 1][1]
      <4>1. \A j \in 1..L : j < L => j \in 1..(L - 1) /\ j + 1 \in 1..L
        BY <1>3
      <4> QED
        BY <1>1, <1>3, <1>7, <1>11, <2>1, <4>1 DEF Path
    <3>4. \A j, k \in 1..L : walk'[j][1] = walk'[k][1] => j = k
      BY <1>1, <1>3, <1>11, <2>1 DEF Path
    <3>5. \A j \in 1..L : node'[walk'[j][1]].used /\ node'[walk'[j][1]].hub
      BY <1>1, <1>3, <1>7, <1>11, <2>1 DEF Path
    <3> QED
      BY <1>2, <2>1, <3>1, <3>2, <3>3, <3>4, <3>5 DEF Path
  <2>7. Watches'
    <3>1. \A x \in Node : ~Scanning(x) /\ ~Scanning(x)'
      BY <1>2, <2>1 DEF Scanning
    <3> QED
      BY <1>1, <1>7, <2>1, <3>1, Names DEF Watches, Watched
  <2>8. ScanReached'
    <3>1. ~flag[c]
      BY <1>1, <1>8, <1>13 DEF Watches, Watched
    <3>2. Below(c) \subseteq {c}
      BY <2>2, BelowFacts DEF LeastClosed
    <3>3. ASSUME NEW x \in Below(Root), flag[x], ~busScan PROVE x \in Ahead'
      BY <1>1, <1>12, <2>1, <2>3, <2>4, <3>1, <3>2, <3>3 DEF ScanReached
    <3> QED
      BY <1>7, <2>1, <2>4, <3>3 DEF ScanReached
  <2> QED
    BY <2>3, <2>4, <2>5, <2>6, <2>7, <2>8 DEF HubInv
<1>14. CASE node[c].hub
  <2>1. /\ walk' = w /\ flag' = [flag EXCEPT ![c] = FALSE]
        /\ pc' = IF flag[c] THEN "power" ELSE "walk"
    BY <1>5, <1>6, <1>9, <1>14 DEF Visit, Visited, Passed
  <2>2. Len(walk') = L + 1 /\ walk'[L + 1] = <<c, 0>> /\ walk' # <<>>
    BY <1>10, <1>11, <2>1
  <2>3. HubType'
    BY <1>1, <1>7, <1>11, <2>1 DEF HubType, Busy
  <2>4. /\ Hung' /\ InUse' /\ Addressed'
        /\ \A x \in Node : Below(x) \subseteq Below(x)'
        /\ Below(Root)' = Below(Root)
    BY <1>7, <2>3, SameBlocks
  <2>5. ~flag'[c] /\ \A x \in Node : x # c => flag'[x] = flag[x]
    BY <1>1, <1>8, <2>1 DEF HubType
  <2>6. Making'
    BY <1>1, <1>2, <1>7, <2>1, <2>5, Names DEF Making, HubType
  <2>7. Path'
    <3>1. \A j \in 1..(L + 1) : j \in 1..L \/ j = L + 1
      BY <1>3
    <3>2. walk'[1][1] = Root
      BY <1>1, <1>2, <1>3, <1>11, <2>1 DEF Path
    <3>3. \A j \in 1..(L + 1) : j < L + 1 =>
             /\ walk'[j][2] \in Port
             /\ node'[walk'[j][1]].slot[walk'[j][2]] = walk'[j + 1][1]
      <4>1. ASSUME NEW j \in 1..L, j # L
            PROVE  /\ walk'[j][2] \in Port
                   /\ node'[walk'[j][1]].slot[walk'[j][2]] = walk'[j + 1][1]
        <5>1. j \in 1..(L - 1) /\ j + 1 \in 1..L /\ j < L
          BY <1>3, <4>1
        <5> QED
          BY <1>1, <1>3, <1>7, <1>11, <2>1, <4>1, <5>1 DEF Path
      <4>2. /\ walk'[L][2] \in Port
            /\ node'[walk'[L][1]].slot[walk'[L][2]] = walk'[L + 1][1]
        BY <1>6, <1>7, <1>8, <1>11, <2>1, <2>2
      <4>3. \A j \in 1..(L + 1) : j < L + 1 => j \in 1..L
        BY <1>3
      <4> QED
        BY <4>1, <4>2, <4>3
    <3>4. \A j \in 1..L : walk[j][1] # c
      <4>1. node[Scanned].slot[p] = c
        BY <1>4, <1>6
      <4>2. \A j \in 1..Len(walk) : walk[j][1] \notin Below(c)
        BY <1>1, <1>2, <1>8, <4>1, WalkOutside
      <4> QED
        BY <1>3, <4>2, BelowFacts DEF LeastClosed
    <3>5. \A j, k \in 1..(L + 1) : walk'[j][1] = walk'[k][1] => j = k
      <4>1. \A j, k \in 1..L : walk'[j][1] = walk'[k][1] => j = k
        BY <1>1, <1>3, <1>11, <2>1 DEF Path
      <4>2. \A j \in 1..L : walk'[j][1] # c
        BY <1>11, <2>1, <3>4
      <4>3. walk'[L + 1][1] = c
        BY <2>2
      <4> QED
        BY <3>1, <4>1, <4>2, <4>3
    <3>6. \A j \in 1..(L + 1) : node'[walk'[j][1]].used /\ node'[walk'[j][1]].hub
      <4>1. node[c].used
        BY <1>1, <1>6, <1>8 DEF Hung
      <4> QED
        BY <1>1, <1>3, <1>7, <1>11, <1>14, <2>1, <2>2, <3>1, <4>1 DEF Path
    <3>7. pc' # "main"
      BY <2>1
    <3> QED
      BY <2>2, <3>2, <3>3, <3>5, <3>6, <3>7 DEF Path
  <2>8. Watches'
    <3>1. \A x \in Node : ~Scanning(x) /\ (Scanning(x)' <=> x = c /\ flag[c])
      BY <1>2, <2>1, <2>2 DEF Scanning, Scanned
    <3> QED
      BY <1>1, <1>7, <1>8, <2>5, <3>1, Names DEF Watches, Watched
  <2>9. ScanReached'
    <3>1. ASSUME NEW x \in Below(c), x # c PROVE x \in Ahead'
      <4>1. PICK d \in Kids(c) : x \in Below(d)
        BY <1>1, <1>8, <3>1, BelowSplit
      <4>2. PICK q \in Port : node[c].slot[q] = d /\ d # NoDev /\ d \in Node
        BY <1>1, <1>8, <4>1, KidsOfBlock, Names
      <4>3. q \in Later(c, 0)'
        BY <1>7, <4>2, Names DEF Later
      <4>4. x \in Below(d)' /\ node'[c].slot[q] = d
        BY <1>7, <2>4, <4>1, <4>2
      <4>5. L + 1 \in DOMAIN walk' /\ walk'[L + 1][1] = c /\ walk'[L + 1][2] = 0
        BY <1>3, <1>11, <2>1, <2>2
      <4> QED
        BY <4>3, <4>4, <4>5 DEF Ahead
    <3>2. ASSUME NEW x \in Below(Root), flag'[x], ~busScan PROVE x \in Ahead'
      <4>1. x \in Node /\ x # c /\ flag[x]
        BY <1>1, <2>5, <3>2, BelowBlock, Names
      <4> QED
        BY <1>1, <1>12, <2>1, <2>3, <2>4, <3>1, <3>2, <4>1 DEF ScanReached
    <3> QED
      BY <1>7, <2>4, <3>2 DEF ScanReached
  <2> QED
    BY <2>3, <2>4, <2>6, <2>7, <2>8, <2>9 DEF HubInv
<1> QED
  BY <1>13, <1>14

(* The scan ends with the hub's interrupt request queued.                  *)
LEMMA QueueIntrInv ==
  ASSUME HubInv, QueueIntr
  PROVE  HubInv'
<1>1. HubType /\ Making /\ Path /\ Watches
  BY DEF HubInv
<1>2. /\ pc = "queue" /\ pc' = "walk"
      /\ intreq' = [intreq EXCEPT ![Scanned] = @ + 1]
      /\ UNCHANGED <<flag, busScan, node, table, displaced, walk, port, new>>
  BY DEF QueueIntr, treeVars, scanVars
<1>3. walk # <<>> /\ Scanned \in Node /\ Scanning(Scanned)
  BY <1>1, <1>2, LastFrame DEF Path, Scanning
<1>4. intreq[Scanned] = 0 /\ ~flag[Scanned]
  BY <1>1, <1>3 DEF Watches, Watched
<1>5. node[Scanned].used /\ node[Scanned].hub
  BY <1>1, <1>3, LastFrame DEF Path, Scanned
<1>6. HubType'
  BY <1>1, <1>2, <1>3 DEF HubType
<1>7. Hung' /\ InUse' /\ Addressed' /\ Path' /\ ScanReached'
  BY <1>2, <1>6, SameWalk
<1>8. Making'
  BY <1>1, <1>2 DEF Making
<1>9. Watches'
  <2>1. \A n \in Node : ~Scanning(n)' /\ (Scanning(n) <=> n = Scanned)
    BY <1>2 DEF Scanning
  <2>2. intreq'[Scanned] = 1 /\ \A n \in Node : n # Scanned => intreq'[n] = intreq[n]
    BY <1>1, <1>2, <1>3, <1>4 DEF HubType
  <2>3. ASSUME NEW n \in Node PROVE Watched(n)'
    <3>1. CASE n = Scanned
      BY <1>2, <1>4, <1>5, <2>1, <2>2, <3>1 DEF Watched
    <3>2. CASE n # Scanned
      BY <1>1, <1>2, <2>1, <2>2, <3>2 DEF Watches, Watched
    <3> QED
      BY <3>1, <3>2
  <2>4. intreq'[Root] = 1 \/ flag'[Root]
    BY <1>1, <1>2, <2>1, <2>2, Names DEF Watches
  <2> QED
    BY <2>3, <2>4 DEF Watches
<1> QED
  BY <1>6, <1>7, <1>8, <1>9 DEF HubInv

(* A block is taken for the new device.                                    *)
LEMMA CreateDeviceInv ==
  ASSUME HubInv, CreateDevice
  PROVE  HubInv'
<1>1. HubType /\ Hung /\ Making /\ Path /\ Watches /\ InUse /\ Addressed /\ ScanReached
  BY DEF HubInv
<1>2. PICK d : /\ d \in Dev /\ ~node[d].used /\ pc = "resetting" /\ pc' = "identify"
               /\ node' = [node EXCEPT ![d] = [Blank EXCEPT !.used = TRUE]]
               /\ new' = d
               /\ UNCHANGED <<intreq, flag, busScan, table, displaced, walk, port>>
  BY DEF CreateDevice
<1>3. /\ node'[d] = [used |-> TRUE, hub |-> FALSE, drv |-> FALSE, addr |-> 0, slot |-> NoSlots]
      /\ \A n \in Node : n # d => node'[n] = node[n]
      /\ d \in Node /\ d # NoDev
  BY <1>1, <1>2, Names DEF HubType, Blank
<1>4. HubType'
  <2>1. 0 \in 0..MaxAddr /\ NoSlots \in [Port -> Dev \cup {NoDev}]
    BY HubAssumption DEF NoSlots
  <2>2. node'[d] \in Record
    BY <1>3, <2>1 DEF Record
  <2>3. node' \in [Node -> Record]
    BY <1>1, <1>2, <1>3, <2>2 DEF HubType
  <2> QED
    BY <1>1, <1>2, <2>3 DEF HubType, Busy
<1>5. \A n \in Node : node'[n].slot = node[n].slot
  <2>1. \A p \in Port : node[d].slot[p] = NoDev
    BY <1>1, <1>2, <1>3 DEF Hung
  <2>2. node[d].slot \in [Port -> Dev \cup {NoDev}]
    BY <1>1, <1>3 DEF HubType, Record
  <2>3. node[d].slot = NoSlots
    BY <2>1, <2>2 DEF NoSlots
  <2> QED
    BY <1>3, <2>3
<1>6. /\ \A x \in Node : Below(x) \subseteq Below(x)'
      /\ Below(Root)' = Below(Root)
  BY <1>1, <1>4, <1>5, SameBelow
<1>7. \A n \in Node : node[n].used => n # d /\ node'[n] = node[n]
  BY <1>2, <1>3
<1>8. \A n \in Node, p \in Port : node[n].slot[p] \in Dev \cup {NoDev}
  BY <1>1 DEF HubType, Record
<1>9. Hung'
  BY <1>1, <1>2, <1>5, <1>7, <1>8, Names DEF Hung
<1>10. Watches'
  <2>1. \A n \in Node : Scanning(n)' <=> Scanning(n)
    BY <1>2 DEF Scanning, Scanned
  <2> QED
    BY <1>1, <1>2, <1>7, <2>1, Names DEF Watches, Watched
<1>11. Making'
  <2>1. \A p \in Port : node'[d].slot[p] = NoDev
    BY <1>3 DEF NoSlots
  <2>2. intreq[d] = 0 /\ ~flag[d]
    BY <1>1, <1>2, <1>3 DEF Watches, Watched
  <2> QED
    BY <1>2, <1>3, <2>1, <2>2 DEF Making
<1>12. Path'
  <2>1. \A i \in 1..Len(walk) : walk[i][1] \in Node /\ node'[walk[i][1]] = node[walk[i][1]]
    BY <1>1, <1>7, Frame DEF Path
  <2> QED
    BY <1>1, <1>2, <2>1 DEF Path
<1>13. InUse'
  <2>1. new = NoDev
    BY <1>1, <1>2 DEF Making
  <2> QED
    BY <1>1, <1>2, <1>3, <1>6, <2>1, Names DEF InUse
<1>14. Addressed'
  <2>1. \A a \in DOMAIN table : table[a] # NoDev => table[a] \in Node
    BY <1>1 DEF HubType
  <2> QED
    BY <1>1, <1>2, <1>3, <1>7, <2>1 DEF Addressed
<1>15. ScanReached'
  <2>1. \A x \in Node : Below(x) \subseteq Below(x)' \cup {}
    BY <1>6
  <2>2. \A i \in 1..Len(walk), p \in Port :
          node[walk[i][1]].slot[p] # NoDev =>
             \/ node'[walk[i][1]].slot[p] = node[walk[i][1]].slot[p]
             \/ Below(node[walk[i][1]].slot[p]) \subseteq {}
    BY <1>1, <1>5, Frame
  <2>3. Ahead \subseteq Ahead' \cup {}
    BY <1>1, <1>2, <1>4, <2>1, <2>2, AheadKept
  <2>4. Below(Root)' \subseteq (Below(Root) \ {}) \cup {}
    BY <1>6
  <2> QED
    BY <1>1, <1>2, <1>4, <2>3, <2>4, ReachedKept
<1> QED
  BY <1>4, <1>9, <1>10, <1>11, <1>12, <1>13, <1>14, <1>15 DEF HubInv

(* There are more addresses than devices: the new one, which has none yet, *)
(* gets one that is free.                                                  *)
LEMMA FreeAddress ==
  ASSUME HubType, Addressed, new \in Dev, node[new].addr = 0
  PROVE  NewAddress \in 1..MaxAddr /\ table[NewAddress] = NoDev
<1>1. MaxAddr \in Nat /\ MaxAddr > Cardinality(Dev) /\ IsFiniteSet(Dev) /\ Cardinality(Dev) \in Nat
  BY HubAssumption, DevCount
<1>2. table \in [1..MaxAddr -> Node \cup {NoDev}] /\ DOMAIN table = 1..MaxAddr
  BY DEF HubType
<1> DEFINE T == {a \in 1..MaxAddr : table[a] = NoDev}
           U == Node \ {new}
<1>3. T # {}
  <2>1. SUFFICES ASSUME \A a \in 1..MaxAddr : table[a] # NoDev PROVE FALSE
    OBVIOUS
  <2>2. IsFiniteSet(U) /\ Cardinality(U) = Cardinality(Dev)
    <3>1. IsFiniteSet(Node) /\ Cardinality(Node) = Cardinality(Dev) + 1
      BY <1>1, Names, FS_AddElement
    <3> QED
      <4>1. new \in Node
        BY Names
      <4>2. IsFiniteSet(U) /\ Cardinality(U) = Cardinality(Node) - 1
        BY <3>1, <4>1, FS_RemoveElement
      <4> QED
        BY <1>1, <3>1, <4>2
  <2>3. table \in [1..MaxAddr -> U]
    BY <1>2, <2>1 DEF Addressed
  <2>4. IsFiniteSet(1..MaxAddr) /\ Cardinality(1..MaxAddr) = MaxAddr
    <3>1. 1 \in Int /\ MaxAddr \in Int /\ (IF 1 > MaxAddr THEN 0 ELSE MaxAddr - 1 + 1) = MaxAddr
      BY <1>1
    <3> QED
      BY <3>1, FS_Interval
  <2>5. PICK a, b \in 1..MaxAddr : a # b /\ table[a] = table[b]
    <3>1. Cardinality(U) < Cardinality(1..MaxAddr)
      BY <1>1, <2>2, <2>4
    <3>2. PICK A, B, f : A = 1..MaxAddr /\ B = U /\ f = table
      OBVIOUS
    <3>3. /\ IsFiniteSet(A) /\ IsFiniteSet(B) /\ f \in [A -> B]
          /\ Cardinality(B) < Cardinality(A)
      BY <2>2, <2>3, <2>4, <3>1, <3>2, Zenon
    <3>4. \E x, y \in A : x # y /\ f[x] = f[y]
      BY <3>3, FS_PigeonHole, Zenon
    <3> QED
      BY <3>2, <3>4
  <2> QED
    BY <1>2, <2>1, <2>5 DEF Addressed
<1>4. PICK a \in T : \A b \in T : a <= b
  <2>1. T \subseteq Nat
    BY <1>1
  <2> HIDE DEF T
  <2> QED
    BY <1>3, <2>1, SmallestIn
<1>5. a \in DOMAIN table /\ table[a] = NoDev /\ \A b \in 1..a - 1 : table[b] # NoDev
  <2>1. \A b \in 1..a - 1 : b \in 1..MaxAddr /\ ~(a <= b)
    BY <1>1, <1>4
  <2> QED
    BY <1>2, <1>4, <2>1
<1>6. NewAddress \in DOMAIN table /\ table[NewAddress] = NoDev
  BY <1>5, Zenon DEF NewAddress
<1> QED
  BY <1>2, <1>6

-----------------------------------------------------------------------------
(* The block being made is not on the walk.                                *)
LEMMA NewOutside ==
  ASSUME HubType, Hung, Path, new \in Dev
  PROVE  \A i \in 1..Len(walk) : walk[i][1] \in Node /\ walk[i][1] # new
<1>1. SUFFICES ASSUME NEW i \in 1..Len(walk)
               PROVE  walk[i][1] \in Node /\ walk[i][1] # new
  OBVIOUS
<1>2. walk[i][1] \in Node
  BY Frame
<1>3. CASE i = 1
  <2>1. walk # <<>>
    BY <1>3, EmptySeq DEF HubType
  <2> QED
    BY <1>2, <1>3, <2>1, Names DEF Path
<1>4. CASE i # 1
  <2>1. i - 1 \in 1..Len(walk) /\ i - 1 < Len(walk) /\ (i - 1) + 1 = i
    <3>1. Len(walk) \in Nat
      BY DEF HubType
    <3> QED
      BY <1>4, <3>1
  <2>2. /\ walk[i - 1][2] \in Port /\ walk[i - 1][1] \in Node
        /\ node[walk[i - 1][1]].slot[walk[i - 1][2]] = walk[i][1]
    BY <2>1, Frame DEF Path
  <2> QED
    BY <1>2, <2>2, Names DEF Hung
<1> QED
  BY <1>3, <1>4

(* The new device gets its address and says whether it is a hub.           *)
LEMMA IdentifyInv ==
  ASSUME HubInv, Identify
  PROVE  HubInv'
<1>1. HubType /\ Hung /\ Making /\ Path /\ Watches /\ InUse /\ Addressed /\ ScanReached
  BY DEF HubInv
<1>2. PICK A : A = NewAddress
  OBVIOUS
<1>3. PICK hub \in SaysHub(new) :
         node' = [node EXCEPT ![new].addr = A, ![new].hub = hub]
  BY <1>2 DEF Identify
<1>4. /\ pc = "identify" /\ pc' = "configure"
      /\ table' = [table EXCEPT ![A] = new]
      /\ UNCHANGED <<intreq, flag, busScan, displaced, walk, port, new>>
  BY <1>2 DEF Identify, SetAddress, noteVars, scanVars
<1>5. /\ new \in Dev /\ new \in Node /\ new # NoDev
      /\ node[new].used /\ intreq[new] = 0 /\ ~flag[new] /\ node[new].addr = 0
      /\ \A p \in Port : node[new].slot[p] = NoDev
  BY <1>1, <1>4, Names DEF HubType, Making
<1>6. A \in 1..MaxAddr /\ table[A] = NoDev
  BY <1>1, <1>2, <1>5, FreeAddress
<1>7. hub \in BOOLEAN
  <2>1. CASE Answers(new)
    <3>1. hub = (UnitOf(new) \in Hub)
      BY <1>3, <2>1 DEF SaysHub, Requested
    <3> QED
      BY <3>1
  <2>2. CASE ~Answers(new)
    BY <1>3, <2>2 DEF SaysHub, Requested
  <2> QED
    BY <2>1, <2>2
<1>8. /\ node'[new].used = node[new].used /\ node'[new].slot = node[new].slot
      /\ node'[new].addr = A /\ node'[new].hub = hub /\ node'[new] \in Record
      /\ \A n \in Node : n # new => node'[n] = node[n]
      /\ DOMAIN node' = Node
  <2>1. node[new] \in Record /\ node \in [Node -> Record]
    BY <1>1, <1>5 DEF HubType
  <2>2. node'[new] = [node[new] EXCEPT !.addr = A, !.hub = hub]
    BY <1>3, <1>5, <2>1
  <2>3. node'[new] = [used |-> node[new].used, hub |-> hub, drv |-> node[new].drv,
                      addr |-> A, slot |-> node[new].slot]
    BY <2>1, <2>2 DEF Record
  <2>4. A \in 0..MaxAddr
    BY <1>6
  <2>5. node'[new] \in Record
    BY <1>7, <2>1, <2>3, <2>4 DEF Record
  <2>6. DOMAIN node' = Node /\ \A n \in Node : n # new => node'[n] = node[n]
    BY <1>3, <2>1
  <2> QED
    BY <2>3, <2>5, <2>6
<1>9. HubType'
  <2>1. node' \in [Node -> Record]
    <3>1. \A n \in Node : node'[n] \in Record
      BY <1>1, <1>8 DEF HubType
    <3>2. node' = [n \in Node |-> node'[n]]
      BY <1>1, <1>3 DEF HubType
    <3> QED
      BY <3>1, <3>2
  <2>2. table' \in [1..MaxAddr -> Node \cup {NoDev}]
    BY <1>1, <1>4, <1>5 DEF HubType
  <2> QED
    BY <1>1, <1>4, <2>1, <2>2 DEF HubType, Busy
<1>10. \A n \in Node : node'[n].slot = node[n].slot /\ node'[n].used = node[n].used
  BY <1>8
<1>11. /\ \A x \in Node : Below(x) \subseteq Below(x)'
       /\ Below(Root)' = Below(Root)
  BY <1>1, <1>9, <1>10, SameBelow
<1>12. \A n \in Node, p \in Port : node[n].slot[p] \in Dev \cup {NoDev}
  BY <1>1 DEF HubType, Record
<1>13. Hung'
  <2>1. \A n \in Node, p \in Port : node[n].slot[p] # NoDev => n # new
    BY <1>5
  <2>2. Root # new
    BY <1>5, Names
  <2> QED
    BY <1>1, <1>4, <1>8, <1>10, <1>12, <2>1, <2>2, Names DEF Hung
<1>14. Watches'
  <2>1. \A n \in Node : Scanning(n)' <=> Scanning(n)
    BY <1>4 DEF Scanning, Scanned
  <2>2. ASSUME NEW n \in Node PROVE Watched(n)'
    <3>1. CASE n = new
      BY <1>1, <1>4, <1>5, <2>1, <3>1 DEF Watches, Watched
    <3>2. CASE n # new
      BY <1>1, <1>4, <1>8, <2>1, <3>2 DEF Watches, Watched
    <3> QED
      BY <3>1, <3>2
  <2> QED
    BY <1>1, <1>4, <2>1, <2>2, Names DEF Watches
<1>15. Making'
  BY <1>4, <1>5, <1>8 DEF Making
<1>16. Path'
  <2>1. \A i \in 1..Len(walk) : walk[i][1] \in Node /\ node'[walk[i][1]] = node[walk[i][1]]
    BY <1>1, <1>5, <1>8, NewOutside
  <2> QED
    BY <1>1, <1>4, <2>1 DEF Path
<1>17. InUse'
  BY <1>1, <1>4, <1>10, <1>11 DEF InUse
<1>18. Addressed'
  <2>1. \A a \in 1..MaxAddr : table[a] # NoDev => table[a] \in Node /\ table[a] # new
    BY <1>1, <1>5, Names DEF HubType, Addressed
  <2>2. \A n \in Node : node[n].addr \in 0..MaxAddr
    BY <1>1 DEF HubType, Record
  <2>3. DOMAIN table = 1..MaxAddr /\ DOMAIN table' = 1..MaxAddr /\ table'[A] = new
        /\ \A a \in 1..MaxAddr : a # A => table'[a] = table[a]
    BY <1>1, <1>4, <1>6 DEF HubType
  <2>4. ASSUME NEW n \in Node, node'[n].used, node'[n].addr # 0
        PROVE  table'[node'[n].addr] = n
    <3>1. CASE n = new
      BY <1>8, <2>3, <3>1
    <3>2. CASE n # new
      <4>1. node'[n] = node[n] /\ table[node[n].addr] = n /\ node[n].addr \in 1..MaxAddr
        BY <1>1, <1>8, <2>2, <2>4, <3>2 DEF Addressed
      <4>2. node[n].addr # A
        BY <1>6, <4>1, Names
      <4> QED
        BY <2>3, <4>1, <4>2
    <3> QED
      BY <3>1, <3>2
  <2>5. ASSUME NEW a \in 1..MaxAddr, table'[a] # NoDev
        PROVE  node'[table'[a]].used /\ node'[table'[a]].addr = a
    <3>1. CASE a = A
      BY <1>5, <1>8, <2>3, <3>1
    <3>2. CASE a # A
      BY <1>1, <1>8, <2>1, <2>3, <2>5, <3>2 DEF Addressed
    <3> QED
      BY <3>1, <3>2
  <2> QED
    BY <2>3, <2>4, <2>5 DEF Addressed
<1>19. ScanReached'
  <2>1. \A x \in Node : Below(x) \subseteq Below(x)' \cup {}
    BY <1>11
  <2>2. \A i \in 1..Len(walk), p \in Port :
          node[walk[i][1]].slot[p] # NoDev =>
             \/ node'[walk[i][1]].slot[p] = node[walk[i][1]].slot[p]
             \/ Below(node[walk[i][1]].slot[p]) \subseteq {}
    BY <1>1, <1>10, Frame
  <2>3. Ahead \subseteq Ahead' \cup {}
    BY <1>1, <1>4, <1>9, <2>1, <2>2, AheadKept
  <2>4. Below(Root)' \subseteq (Below(Root) \ {}) \cup {}
    BY <1>11
  <2> QED
    BY <1>1, <1>4, <1>9, <2>3, <2>4, ReachedKept
<1> QED
  BY <1>9, <1>13, <1>14, <1>15, <1>16, <1>17, <1>18, <1>19 DEF HubInv

-----------------------------------------------------------------------------
(* usbhub_scan_ports goes on with the next port or ends.                   *)
LEMMA NextPortPlaces ==
  ASSUME HubType, NextPort
  PROVE  port' \in Port /\ pc' \in {"status", "queue"}
BY Names DEF HubType, NextPort

(* The device gets its slot, and with it hangs in the tree; what was in    *)
(* the slot is lost to it.                                                 *)
LEMMA ConfigureInv ==
  ASSUME HubInv, Configure
  PROVE  /\ HubInv'
         /\ \A m \in Node : node'[m].used = node[m].used
         /\ \A m \in Node, p \in Port :
              node'[m].slot[p] = IF m = Scanned /\ p = port THEN new ELSE node[m].slot[p]
         /\ \A m \in Below(Root)' :
              m = new \/ (m \in Below(Root) /\ m # node[Scanned].slot[port])
<1>1. HubType /\ Hung /\ Making /\ Path /\ Watches /\ InUse /\ Addressed /\ ScanReached
  BY DEF HubInv
<1>2. pc = "configure" /\ walk # <<>>
  BY <1>1 DEF Configure, Path
<1>3. PICK n, q, d : n = Scanned /\ q = port /\ d = new
  OBVIOUS
<1>4. PICK old : old = node[n].slot[q]
  OBVIOUS
<1>5. PICK drv \in HasDriver(d) :
         node' = [node EXCEPT ![n].slot[q] = d, ![d].drv = drv]
  BY <1>3 DEF Configure
<1>6. /\ displaced' = IF old = NoDev THEN displaced ELSE displaced \cup Below(old)
      /\ new' = NoDev
      /\ UNCHANGED <<intreq, table, walk>>
  BY <1>3, <1>4 DEF Configure
<1>7. \/ pc' = "null_descr" /\ UNCHANGED <<port, flag, busScan>>
      \/ NextPort /\ Attached(d)
  BY <1>3 DEF Configure
<1>8. drv \in BOOLEAN
  BY <1>5 DEF HasDriver, Requested
<1>9. /\ n \in Node /\ q \in Port /\ d \in Dev /\ d \in Node /\ d # NoDev
      /\ node[d].used /\ intreq[d] = 0 /\ ~flag[d]
      /\ \A p \in Port : node[d].slot[p] = NoDev
  BY <1>1, <1>2, <1>3, LastFrame, Names DEF HubType, Making
<1>10. n # d /\ node[n].used /\ node[n].hub /\ Len(walk) \in 1..Len(walk)
  BY <1>1, <1>2, <1>3, <1>9, LastFrame, NewOutside DEF Scanned, Path
<1>11. /\ \A m \in Node : /\ node'[m].used = node[m].used /\ node'[m].hub = node[m].hub
                          /\ node'[m].addr = node[m].addr /\ node'[m] \in Record
       /\ \A m \in Node : m # n => node'[m].slot = node[m].slot
       /\ \A p \in Port : node'[n].slot[p] = IF p = q THEN d ELSE node[n].slot[p]
       /\ node' \in [Node -> Record]
  <2>1. node \in [Node -> Record] /\ node[n] \in Record /\ node[d] \in Record
    BY <1>1, <1>9 DEF HubType
  <2>2. /\ node'[n] = [node[n] EXCEPT !.slot[q] = d]
        /\ node'[d] = [node[d] EXCEPT !.drv = drv]
        /\ \A m \in Node : m # n /\ m # d => node'[m] = node[m]
        /\ DOMAIN node' = Node
    BY <1>5, <1>9, <1>10, <2>1
  <2>3. PICK s : s = [node[n].slot EXCEPT ![q] = d]
    OBVIOUS
  <2>4. s \in [Port -> Dev \cup {NoDev}] /\ \A p \in Port : s[p] = IF p = q THEN d ELSE node[n].slot[p]
    BY <1>9, <2>1, <2>3 DEF Record
  <2>5. node'[n] = [used |-> node[n].used, hub |-> node[n].hub, drv |-> node[n].drv,
                    addr |-> node[n].addr, slot |-> s]
    BY <2>1, <2>2, <2>3 DEF Record
  <2>6. node'[d] = [used |-> node[d].used, hub |-> node[d].hub, drv |-> drv,
                    addr |-> node[d].addr, slot |-> node[d].slot]
    BY <2>1, <2>2 DEF Record
  <2>7. node'[n] \in Record
    BY <2>1, <2>4, <2>5 DEF Record
  <2>8. node'[d] \in Record
    BY <1>8, <2>1, <2>6 DEF Record
  <2>9. \A m \in Node : node'[m] \in Record
    BY <2>1, <2>2, <2>7, <2>8
  <2>10. node' = [m \in Node |-> node'[m]]
    BY <1>5, <2>1
  <2>11. \A m \in Node : /\ node'[m].used = node[m].used /\ node'[m].hub = node[m].hub
                         /\ node'[m].addr = node[m].addr
    BY <2>2, <2>5, <2>6
  <2>12. \A m \in Node : m # n => node'[m].slot = node[m].slot
    BY <2>2, <2>6
  <2>13. \A p \in Port : node'[n].slot[p] = IF p = q THEN d ELSE node[n].slot[p]
    BY <2>4, <2>5
  <2> QED
    BY <2>9, <2>10, <2>11, <2>12, <2>13
<1>12. /\ port' \in Port /\ pc' \in {"status", "queue", "null_descr"}
       /\ flag' \in [Node -> BOOLEAN] /\ busScan' \in BOOLEAN
       /\ \A m \in Node : m # d => flag'[m] = flag[m]
       /\ flag'[d] => node[d].hub /\ busScan'
       /\ busScan => busScan'
  <2>1. CASE pc' = "null_descr" /\ UNCHANGED <<port, flag, busScan>>
    BY <1>1, <1>9, <2>1 DEF HubType
  <2>2. CASE NextPort /\ Attached(d)
    <3>1. node[d].hub \in BOOLEAN /\ flag \in [Node -> BOOLEAN] /\ busScan \in BOOLEAN
      BY <1>1, <1>9 DEF HubType, Record
    <3>2. flag' = [flag EXCEPT ![d] = node[d].hub] /\ busScan' = (busScan \/ node[d].hub)
      BY <2>2 DEF Attached
    <3> QED
      BY <1>1, <1>9, <2>2, <3>1, <3>2, NextPortPlaces
  <2> QED
    BY <1>7, <2>1, <2>2
<1>13. HubType'
  BY <1>1, <1>6, <1>11, <1>12, Names DEF HubType, Busy
<1>0. PICK cut : cut = IF old = NoDev THEN {} ELSE Below(old)
  OBVIOUS
<1>14. /\ cut = IF old = NoDev THEN {} ELSE Below(old)
       /\ cut \subseteq Dev
       /\ old # NoDev => old \in cut
       /\ displaced' = displaced \cup cut
       /\ \A y \in cut : Kids(y) \subseteq cut
       /\ \A x \in Node, p \in Port :
            node[x].slot[p] \in cut => x \in cut \/ (x = n /\ p = q)
       /\ \A i \in 1..Len(walk) : walk[i][1] \notin cut
  <2>1. CASE old = NoDev
    <3>1. cut = {} /\ displaced' = displaced
      BY <1>0, <1>6, <2>1
    <3> QED
      BY <1>0, <2>1, <3>1
  <2>2. CASE old # NoDev
    <3>1. PICK C : C = Below(old) /\ cut = C
      BY <1>0, <2>2
    <3>2. /\ C \subseteq Dev /\ old \in C
          /\ \A y \in C : Kids(y) \subseteq C
          /\ \A x \in Node, p \in Port :
               node[x].slot[p] \in C => x \in C \/ (x = n /\ p = q)
      BY <1>1, <1>4, <1>9, <2>2, <3>1, Subtree
    <3>3. \A i \in 1..Len(walk) : walk[i][1] \notin C
      BY <1>1, <1>2, <1>3, <1>4, <1>9, <2>2, <3>1, WalkOutside
    <3>4. displaced' = displaced \cup C
      BY <1>6, <2>2, <3>1
    <3> QED
      BY <1>0, <3>1, <3>2, <3>3, <3>4
  <2> QED
    BY <2>1, <2>2
<1>15. n \notin cut
  BY <1>3, <1>10, <1>14 DEF Scanned
<1>16. \A y \in Node : y # n => Kids(y)' = Kids(y)
  BY <1>11 DEF Kids
<1>17. /\ Kids(n) \subseteq Kids(n)' \cup cut /\ Kids(n)' \subseteq (Kids(n) \ cut) \cup {d}
       /\ d \in Kids(n)' /\ Kids(d)' = {}
  <2>1. \A y : y \in Kids(n) <=> y # NoDev /\ \E p \in Port : node[n].slot[p] = y
    BY <1>1, <1>9, KidsOfBlock
  <2>2. \A y : y \in Kids(n)' <=> y # NoDev /\ \E p \in Port : node'[n].slot[p] = y
    BY <1>9, <1>13, KidsOfBlockNext
  <2>3. \A y : y \in Kids(d)' <=> y # NoDev /\ \E p \in Port : node'[d].slot[p] = y
    BY <1>9, <1>13, KidsOfBlockNext
  <2>4. Kids(n) \subseteq Kids(n)' \cup cut
    BY <1>4, <1>11, <1>14, <2>1, <2>2
  <2>5. Kids(n)' \subseteq (Kids(n) \ cut) \cup {d}
    BY <1>9, <1>11, <1>14, <1>15, <2>1, <2>2
  <2>6. d \in Kids(n)' /\ Kids(d)' = {}
    BY <1>9, <1>10, <1>11, <2>2, <2>3
  <2> QED
    BY <2>4, <2>5, <2>6
<1>18. \A y \in Node \ cut : y # n => Kids(y) \subseteq Kids(y) \ cut
  <2>1. ASSUME NEW y \in Node, y \notin cut, y # n, NEW z \in Kids(y), z \in cut PROVE FALSE
    <3>1. PICK p \in Port : node[y].slot[p] = z
      BY <1>1, <2>1, KidsOfBlock
    <3> QED
      BY <1>14, <2>1, <3>1
  <2> QED
    BY <2>1
<1>19. /\ \A x \in Node : Below(x) \subseteq Below(x)' \cup cut
       /\ Below(Root)' \subseteq (Below(Root) \ cut) \cup {d}
  <2>1. cut \in SUBSET Dev /\ {d} \in SUBSET Dev
    BY <1>9, <1>14
  <2>2. \A y \in cut : Kids(y) \subseteq cut
    BY <1>14
  <2>3. \A y \in Node \ cut : Kids(y) \subseteq Kids(y)' \cup cut
    BY <1>16, <1>17
  <2>4. \A y \in Node \ cut : Kids(y)' \subseteq (Kids(y) \ cut) \cup {d}
    BY <1>16, <1>17, <1>18
  <2>5. \A y \in {d} : Kids(y)' = {}
    BY <1>17
  <2> QED
    BY <1>1, <1>13, <2>1, <2>2, <2>3, <2>4, <2>5, CutTree
<1>20. d \in Below(Root)'
  <2>1. n \in Below(Root)
    BY <1>1, <1>3, <1>10, WalkBelow DEF Scanned
  <2>2. n \in Below(Root)'
    BY <1>15, <1>19, <2>1, Names
  <2> QED
    BY <1>13, <1>17, <2>2, BelowBlockNext, Names
<1>21. Hung'
  <2>1. \A m \in Node, p \in Port : node'[m].slot[p] # NoDev =>
          \/ m = n /\ p = q /\ node'[m].slot[p] = d
          \/ ~(m = n /\ p = q) /\ node'[m].slot[p] = node[m].slot[p] /\ node[m].slot[p] # d
    BY <1>1, <1>3, <1>9, <1>11 DEF Hung
  <2>2. ASSUME NEW m \in Node, NEW p \in Port, node'[m].slot[p] # NoDev
        PROVE  /\ node'[m].used /\ node'[m].hub
               /\ node'[node'[m].slot[p]].used /\ node'[m].slot[p] # new'
    <3>1. \A x \in Node, r \in Port : node[x].slot[r] \in Dev \cup {NoDev}
      BY <1>1 DEF HubType, Record
    <3>2. PICK c : c = node'[m].slot[p] /\ c # NoDev
      BY <2>2
    <3>3. CASE m = n /\ p = q /\ c = d
      <4>1. node'[m].used /\ node'[m].hub /\ node'[c].used /\ c # new'
        BY <1>6, <1>9, <1>10, <1>11, <3>3
      <4> QED
        BY <3>2, <4>1
    <3>4. CASE c = node[m].slot[p]
      <4>1. c \in Node /\ node[m].used /\ node[m].hub /\ node[c].used
        BY <1>1, <3>1, <3>2, <3>4, Names DEF Hung
      <4>2. node'[m].used /\ node'[m].hub /\ node'[c].used /\ c # new'
        BY <1>6, <1>11, <3>2, <4>1
      <4> QED
        BY <3>2, <4>2
    <3> QED
      BY <2>1, <2>2, <3>2, <3>3, <3>4
  <2>3. ASSUME NEW m \in Node, NEW k \in Node, NEW p \in Port, NEW r \in Port,
               node'[m].slot[p] = node'[k].slot[r], node'[m].slot[p] # NoDev
        PROVE  m = k /\ p = r
    BY <1>1, <2>1, <2>3 DEF Hung
  <2> QED
    BY <1>1, <1>11, <2>2, <2>3, Names DEF Hung
<1>22. Making'
  BY <1>6, <1>12 DEF Making
<1>23. Path'
  <2>1. \A i \in 1..Len(walk) : /\ walk[i][1] \in Node
                                /\ i < Len(walk) => node'[walk[i][1]].slot = node[walk[i][1]].slot
    <3>1. \A i \in 1..Len(walk) : i < Len(walk) => walk[i][1] # n
      BY <1>1, <1>3, <1>10 DEF Path, Scanned, HubType
    <3> QED
      BY <1>1, <1>11, <3>1, Frame
  <2> QED
    BY <1>1, <1>2, <1>6, <1>11, <1>12, <2>1 DEF Path
<1>24. Watches'
  <2>1. \A m \in Node : Scanning(m)' <=> Scanning(m)
    BY <1>2, <1>6, <1>12 DEF Scanning, Scanned
  <2>2. ~Scanning(d)
    BY <1>3, <1>10 DEF Scanning
  <2>3. ASSUME NEW m \in Node PROVE Watched(m)'
    <3>1. CASE m = d
      BY <1>6, <1>9, <1>11, <1>12, <2>1, <2>2, <3>1 DEF Watched
    <3>2. CASE m # d
      BY <1>1, <1>6, <1>11, <1>12, <2>1, <3>2 DEF Watches, Watched
    <3> QED
      BY <3>1, <3>2
  <2> QED
    BY <1>1, <1>6, <1>9, <1>12, <2>1, <2>3, Names DEF Watches
<1>25. InUse'
  <2>1. ASSUME NEW m \in Node, node'[m].used
        PROVE  m \in Below(Root)' \cup displaced'
    <3>1. m \in Below(Root) \cup displaced \cup {d}
      BY <1>1, <1>3, <1>11, <2>1 DEF InUse
    <3> QED
      BY <1>14, <1>19, <1>20, <3>1, Names
  <2> QED
    BY <2>1 DEF InUse
<1>26. Addressed'
  <2>1. \A a \in DOMAIN table : table[a] # NoDev => table[a] \in Node
    BY <1>1 DEF HubType
  <2> QED
    BY <1>1, <1>6, <1>11, <2>1 DEF Addressed
<1>27. ScanReached'
  <2>1. \A i \in 1..Len(walk), p \in Port :
          node[walk[i][1]].slot[p] # NoDev =>
             \/ node'[walk[i][1]].slot[p] = node[walk[i][1]].slot[p]
             \/ Below(node[walk[i][1]].slot[p]) \subseteq cut
    <3>1. ASSUME NEW h \in Node, NEW p \in Port, node[h].slot[p] # NoDev
          PROVE  node'[h].slot[p] = node[h].slot[p] \/ Below(node[h].slot[p]) \subseteq cut
      BY <1>4, <1>11, <1>14, <3>1
    <3> QED
      BY <1>1, <3>1, Frame
  <2>2. Ahead \subseteq Ahead' \cup cut
    BY <1>1, <1>6, <1>13, <1>19, <2>1, AheadKept
  <2>3. \A m \in Node : flag'[m] => busScan' \/ (flag[m] /\ m \notin {d})
    BY <1>12
  <2> QED
    BY <1>1, <1>12, <1>13, <1>19, <2>2, <2>3, ReachedKept
<1>30. HubInv'
  BY <1>13, <1>21, <1>22, <1>23, <1>24, <1>25, <1>26, <1>27 DEF HubInv
<1>31. \A m \in Node, p \in Port :
         node'[m].slot[p] = IF m = Scanned /\ p = port THEN new ELSE node[m].slot[p]
  BY <1>3, <1>9, <1>11
<1>32. \A m \in Below(Root)' :
         m = new \/ (m \in Below(Root) /\ m # node[Scanned].slot[port])
  <2>1. NoDev \notin Below(Root)
    BY <1>1, BelowBlock, Names
  <2> QED
    BY <1>3, <1>4, <1>14, <1>19, <2>1
<1> QED
  BY <1>11, <1>30, <1>31, <1>32

(* A device that is gone is taken out with all that is below it.           *)
LEMMA RemoveInv ==
  ASSUME HubInv, Remove
  PROVE  /\ HubInv'
         /\ \A m \in Node : m \notin Below(node[Scanned].slot[port]) =>
              node'[m].used = node[m].used
         /\ \A m \in Node, p \in Port :
              node'[m].slot[p] = node[m].slot[p] \/ node'[m].slot[p] = NoDev
         /\ \A m \in Below(Root)' :
              m \in Below(Root) /\ m \notin Below(node[Scanned].slot[port])
<1>1. HubType /\ Hung /\ Making /\ Path /\ Watches /\ InUse /\ Addressed /\ ScanReached
  BY DEF HubInv
<1>2. pc = "remove" /\ walk # <<>>
  BY <1>1 DEF Remove, Path
<1>3. PICK n, q, d, gone : n = Scanned /\ q = port /\ d = node[n].slot[q] /\ gone = Below(d)
  OBVIOUS
<1>4. PICK told \in BOOLEAN :
        /\ told => intreq[Root] > 0
        /\ busScan' = (busScan \/ told)
        /\ flag' = [m \in Node |-> m \notin gone /\ (flag[m] \/ (m = Root /\ told))]
        /\ intreq' = [m \in Node |-> IF m \in gone THEN 0
                                     ELSE IF m = Root /\ told THEN intreq[m] - 1
                                     ELSE intreq[m]]
  <2>1. PICK t : t = ((rhsc /\ \E m \in gone : node[m].drv) /\ Seen /\ intreq[Root] > 0)
    OBVIOUS
  <2>2. t \in BOOLEAN /\ (t => intreq[Root] > 0)
    BY <2>1
  <2>3. /\ busScan' = (busScan \/ t)
        /\ flag' = [m \in Node |-> m \notin gone /\ (flag[m] \/ (m = Root /\ t))]
        /\ intreq' = [m \in Node |-> IF m \in gone THEN 0
                                     ELSE IF m = Root /\ t THEN intreq[m] - 1
                                     ELSE intreq[m]]
    BY <1>3, <2>1 DEF Remove, Doomed
  <2> QED
    BY <2>2, <2>3
<1>5. /\ d # NoDev /\ NextPort
      /\ node' = [m \in Node |-> IF m \in gone THEN Blank
                                 ELSE IF m = n THEN [node[n] EXCEPT !.slot[q] = NoDev]
                                 ELSE node[m]]
      /\ table' = [a \in DOMAIN table |-> IF table[a] \in gone THEN NoDev ELSE table[a]]
      /\ displaced' = displaced \ gone
      /\ UNCHANGED <<walk, new>>
  BY <1>3 DEF Remove, Destroy, Doomed
<1>6. n \in Node /\ q \in Port /\ Len(walk) \in 1..Len(walk) /\ new = NoDev
  BY <1>1, <1>2, <1>3, LastFrame DEF HubType, Making
<1>7. /\ gone \subseteq Dev /\ d \in gone
      /\ \A y \in gone : Kids(y) \subseteq gone
      /\ \A x \in Node, p \in Port :
           node[x].slot[p] \in gone => x \in gone \/ (x = n /\ p = q)
  BY <1>1, <1>3, <1>5, <1>6, Subtree
<1>8. /\ \A i \in 1..Len(walk) : walk[i][1] \notin gone
      /\ n \notin gone /\ Root \notin gone
  <2>1. \A i \in 1..Len(walk) : walk[i][1] \notin gone
    BY <1>1, <1>2, <1>3, <1>5, <1>6, WalkOutside
  <2> QED
    BY <1>3, <1>6, <1>7, <2>1, Names DEF Scanned
<1>9. /\ \A m \in Node \ gone : /\ node'[m].used = node[m].used /\ node'[m].hub = node[m].hub
                                /\ node'[m].addr = node[m].addr
      /\ \A m \in gone : ~node'[m].used /\ \A p \in Port : node'[m].slot[p] = NoDev
      /\ \A m \in Node \ gone : m # n => node'[m].slot = node[m].slot
      /\ \A p \in Port : node'[n].slot[p] = IF p = q THEN NoDev ELSE node[n].slot[p]
      /\ node' \in [Node -> Record]
  <2>1. node \in [Node -> Record] /\ node[n] \in Record
    BY <1>1, <1>6 DEF HubType
  <2>2. /\ node'[n] = [node[n] EXCEPT !.slot[q] = NoDev]
        /\ \A m \in gone : node'[m] = Blank
        /\ \A m \in Node \ gone : m # n => node'[m] = node[m]
    BY <1>5, <1>6, <1>7, <1>8, Names
  <2>3. PICK s : s = [node[n].slot EXCEPT ![q] = NoDev]
    OBVIOUS
  <2>4. s \in [Port -> Dev \cup {NoDev}] /\ \A p \in Port : s[p] = IF p = q THEN NoDev ELSE node[n].slot[p]
    BY <1>6, <2>1, <2>3 DEF Record
  <2>5. node'[n] = [used |-> node[n].used, hub |-> node[n].hub, drv |-> node[n].drv,
                    addr |-> node[n].addr, slot |-> s]
    BY <2>1, <2>2, <2>3 DEF Record
  <2>6. node'[n] \in Record
    BY <2>1, <2>4, <2>5 DEF Record
  <2>7. Blank \in Record /\ ~Blank.used /\ \A p \in Port : Blank.slot[p] = NoDev
    BY HubAssumption DEF Blank, NoSlots, Record
  <2>8. \A m \in Node : node'[m] \in Record
    BY <2>1, <2>2, <2>6, <2>7
  <2>9. node' = [m \in Node |-> node'[m]]
    BY <1>5
  <2>10. \A m \in Node \ gone : /\ node'[m].used = node[m].used /\ node'[m].hub = node[m].hub
                                /\ node'[m].addr = node[m].addr
    BY <2>2, <2>5
  <2>11. \A m \in gone : ~node'[m].used /\ \A p \in Port : node'[m].slot[p] = NoDev
    BY <2>2, <2>7
  <2>12. \A p \in Port : node'[n].slot[p] = IF p = q THEN NoDev ELSE node[n].slot[p]
    BY <2>4, <2>5
  <2> QED
    BY <2>2, <2>8, <2>9, <2>10, <2>11, <2>12
<1>10. /\ port' \in Port /\ pc' \in {"status", "queue"}
  BY <1>1, <1>5, NextPortPlaces
<1>11. /\ \A m \in Node : flag'[m] => m \notin gone /\ (flag[m] \/ (m = Root /\ told))
       /\ \A m \in Node : m \notin gone /\ (flag[m] \/ (m = Root /\ told)) => flag'[m]
       /\ \A m \in Node : intreq'[m] = IF m \in gone THEN 0
                                       ELSE IF m = Root /\ told THEN intreq[m] - 1
                                       ELSE intreq[m]
  BY <1>4
<1>12. told => intreq[Root] = 1
  BY <1>1, <1>4, Names DEF Watches, Watched
<1>13. HubType'
  <2>1. intreq' \in [Node -> Nat]
    <3>1. ASSUME NEW m \in Node PROVE intreq'[m] \in Nat
      <4>1. intreq[m] \in Nat
        BY <1>1 DEF HubType
      <4>2. CASE m \in gone
        BY <1>11, <4>2
      <4>3. CASE m \notin gone /\ m = Root /\ told
        <5>1. intreq[m] = 1 /\ intreq'[m] = intreq[m] - 1
          BY <1>11, <1>12, <4>3
        <5> QED
          BY <5>1
      <4>4. CASE m \notin gone /\ ~(m = Root /\ told)
        BY <1>11, <4>1, <4>4
      <4> QED
        BY <4>2, <4>3, <4>4
    <3>2. intreq' = [m \in Node |-> intreq'[m]]
      BY <1>4
    <3> QED
      BY <3>1, <3>2
  <2>2. flag' \in [Node -> BOOLEAN]
    BY <1>1, <1>4 DEF HubType
  <2>3. busScan' \in BOOLEAN
    BY <1>1, <1>4 DEF HubType
  <2>4. table' \in [1..MaxAddr -> Node \cup {NoDev}]
    BY <1>1, <1>5 DEF HubType
  <2> QED
    BY <1>1, <1>5, <1>9, <1>10, <2>1, <2>2, <2>3, <2>4 DEF HubType, Busy
<1>14. \A y \in Node \ gone : y # n => Kids(y)' = Kids(y)
  BY <1>9 DEF Kids
<1>15. Kids(n) \subseteq Kids(n)' \cup gone /\ Kids(n)' \subseteq Kids(n) \ gone
  <2>1. \A y : y \in Kids(n) <=> y # NoDev /\ \E p \in Port : node[n].slot[p] = y
    BY <1>1, <1>6, KidsOfBlock
  <2>2. \A y : y \in Kids(n)' <=> y # NoDev /\ \E p \in Port : node'[n].slot[p] = y
    BY <1>6, <1>13, KidsOfBlockNext
  <2>3. Kids(n) \subseteq Kids(n)' \cup gone
    BY <1>3, <1>7, <1>9, <2>1, <2>2
  <2>4. Kids(n)' \subseteq Kids(n) \ gone
    BY <1>6, <1>7, <1>8, <1>9, <2>1, <2>2
  <2> QED
    BY <2>3, <2>4
<1>16. \A y \in Node \ gone : y # n => Kids(y) \subseteq Kids(y) \ gone
  <2>1. ASSUME NEW y \in Node, y \notin gone, y # n, NEW z \in Kids(y), z \in gone PROVE FALSE
    <3>1. PICK p \in Port : node[y].slot[p] = z
      BY <1>1, <2>1, KidsOfBlock
    <3> QED
      BY <1>7, <2>1, <3>1
  <2> QED
    BY <2>1
<1>17. /\ \A x \in Node : Below(x) \subseteq Below(x)' \cup gone
       /\ Below(Root)' \subseteq (Below(Root) \ gone) \cup {}
  <2>1. gone \in SUBSET Dev /\ {} \in SUBSET Dev
    BY <1>7
  <2>2. \A y \in gone : Kids(y) \subseteq gone
    BY <1>7
  <2>3. \A y \in Node \ gone : Kids(y) \subseteq Kids(y)' \cup gone
    BY <1>14, <1>15
  <2>4. \A y \in Node \ gone : Kids(y)' \subseteq (Kids(y) \ gone) \cup {}
    BY <1>14, <1>15, <1>16
  <2>5. \A y \in {} : Kids(y)' = {}
    OBVIOUS
  <2> QED
    BY <1>1, <1>13, <2>1, <2>2, <2>3, <2>4, <2>5, CutTree
<1>18. Hung'
  <2>1. ASSUME NEW m \in Node, NEW p \in Port, node'[m].slot[p] # NoDev
        PROVE  /\ m \notin gone /\ node'[m].slot[p] = node[m].slot[p]
               /\ node[m].slot[p] \in Node /\ node[m].slot[p] \notin gone
    <3>1. m \notin gone
      BY <1>9, <2>1
    <3>2. node'[m].slot[p] = node[m].slot[p] /\ ~(m = n /\ p = q)
      BY <1>6, <1>9, <2>1, <3>1
    <3>3. node[m].slot[p] \in Node
      BY <1>1, <2>1, <3>2, Names DEF HubType, Record
    <3> QED
      BY <1>7, <3>1, <3>2, <3>3
  <2>2. ASSUME NEW m \in Node, NEW p \in Port, node'[m].slot[p] # NoDev
        PROVE  /\ node'[m].used /\ node'[m].hub
               /\ node'[node'[m].slot[p]].used /\ node'[m].slot[p] # new'
    <3>1. PICK c : c = node[m].slot[p]
      OBVIOUS
    <3>2. m \notin gone /\ c \in Node /\ c \notin gone /\ node'[m].slot[p] = c /\ c # NoDev
      BY <2>1, <2>2, <3>1
    <3>3. node[m].used /\ node[m].hub /\ node[c].used /\ c # new
      BY <1>1, <3>1, <3>2 DEF Hung
    <3>4. node'[m].used /\ node'[m].hub /\ node'[c].used /\ c # new'
      BY <1>5, <1>9, <3>2, <3>3
    <3>5. node'[m].slot[p] = c
      BY <3>2
    <3> QED
      BY <3>4, <3>5, Zenon
  <2>3. ASSUME NEW m \in Node, NEW k \in Node, NEW p \in Port, NEW r \in Port,
               node'[m].slot[p] = node'[k].slot[r], node'[m].slot[p] # NoDev
        PROVE  m = k /\ p = r
    BY <1>1, <2>1, <2>3 DEF Hung
  <2> QED
    BY <1>1, <1>8, <1>9, <2>2, <2>3, Names DEF Hung
<1>19. Making'
  BY <1>5, <1>6, <1>10 DEF Making
<1>20. Path'
  <2>1. \A i \in 1..Len(walk) : /\ walk[i][1] \in Node /\ walk[i][1] \notin gone
                                /\ i < Len(walk) => node'[walk[i][1]].slot = node[walk[i][1]].slot
    <3>1. \A i \in 1..Len(walk) : i < Len(walk) => walk[i][1] # n
      BY <1>1, <1>3, <1>6 DEF Path, Scanned, HubType
    <3> QED
      BY <1>1, <1>8, <1>9, <3>1, Frame
  <2> QED
    BY <1>1, <1>2, <1>5, <1>9, <1>10, <2>1 DEF Path
<1>21. Watches'
  <2>1. \A m \in Node : Scanning(m)' <=> Scanning(m)
    BY <1>2, <1>5, <1>10 DEF Scanning, Scanned
  <2>2. ASSUME NEW m \in Node PROVE Watched(m)'
    <3>0. Watched(m)
      BY <1>1 DEF Watches
    <3>1. CASE m \in gone
      <4>1. ~flag'[m] /\ intreq'[m] = 0
        BY <1>11, <3>1
      <4> QED
        BY <4>1 DEF Watched
    <3>2. CASE m \notin gone /\ m = Root /\ told
      <4>1. intreq'[m] = 0 /\ intreq[m] = 1
        BY <1>11, <1>12, <3>2
      <4>2. ~Scanning(m) /\ node'[m].used /\ node'[m].hub
        BY <1>9, <3>0, <3>2, <4>1 DEF Watched
      <4> QED
        BY <2>1, <4>1, <4>2 DEF Watched
    <3>3. CASE m \notin gone /\ ~(m = Root /\ told)
      <4>1. intreq'[m] = intreq[m] /\ (flag'[m] <=> flag[m])
        BY <1>11, <3>3
      <4>2. node'[m].used = node[m].used /\ node'[m].hub = node[m].hub
        BY <1>9, <3>3
      <4> QED
        BY <2>1, <3>0, <4>1, <4>2 DEF Watched
    <3> QED
      BY <3>1, <3>2, <3>3
  <2>3. intreq'[Root] = 1 \/ flag'[Root] \/ Scanning(Root)'
    BY <1>1, <1>8, <1>11, <2>1, Names DEF Watches
  <2> QED
    BY <2>2, <2>3 DEF Watches
<1>22. InUse'
  <2>1. ASSUME NEW m \in Node, node'[m].used
        PROVE  m \in Below(Root)' \cup displaced'
    <3>1. m \notin gone /\ m \in Below(Root) \cup displaced
      BY <1>1, <1>6, <1>9, <2>1, Names DEF InUse
    <3> QED
      BY <1>5, <1>17, <3>1, Names
  <2> QED
    BY <2>1 DEF InUse
<1>23. Addressed'
  <2>1. DOMAIN table' = DOMAIN table /\ DOMAIN table = 1..MaxAddr
    BY <1>1, <1>5 DEF HubType
  <2>2. ASSUME NEW a \in DOMAIN table, table'[a] # NoDev
        PROVE  node'[table'[a]].used /\ node'[table'[a]].addr = a
    <3>1. table'[a] = table[a] /\ table[a] \notin gone /\ table[a] \in Node
      BY <1>1, <1>5, <2>2 DEF HubType
    <3> QED
      BY <1>1, <1>9, <2>2, <3>1 DEF Addressed
  <2>3. ASSUME NEW m \in Node, node'[m].used, node'[m].addr # 0
        PROVE  table'[node'[m].addr] = m
    <3>1. m \notin gone /\ node[m].used /\ node'[m].addr = node[m].addr
      BY <1>9, <2>3
    <3>2. table[node[m].addr] = m /\ node[m].addr \in 1..MaxAddr
      <4>1. node[m].addr \in 0..MaxAddr
        BY <1>1 DEF HubType, Record
      <4> QED
        BY <1>1, <2>3, <3>1, <4>1, HubAssumption DEF Addressed
    <3> QED
      BY <1>5, <2>1, <3>1, <3>2
  <2> QED
    BY <2>1, <2>2, <2>3 DEF Addressed
<1>24. ScanReached'
  <2>1. \A i \in 1..Len(walk), p \in Port :
          node[walk[i][1]].slot[p] # NoDev =>
             \/ node'[walk[i][1]].slot[p] = node[walk[i][1]].slot[p]
             \/ Below(node[walk[i][1]].slot[p]) \subseteq gone
    <3>1. ASSUME NEW h \in Node, h \notin gone, NEW p \in Port, node[h].slot[p] # NoDev
          PROVE  node'[h].slot[p] = node[h].slot[p] \/ Below(node[h].slot[p]) \subseteq gone
      BY <1>3, <1>9, <3>1
    <3> QED
      BY <1>1, <1>8, <3>1, Frame
  <2>2. Ahead \subseteq Ahead' \cup gone
    BY <1>1, <1>5, <1>13, <1>17, <2>1, AheadKept
  <2>3. \A m \in Node : flag'[m] => busScan' \/ (flag[m] /\ m \notin {})
    BY <1>4, <1>11
  <2>4. busScan => busScan'
    BY <1>4
  <2> QED
    BY <1>1, <1>13, <1>17, <2>2, <2>3, <2>4, ReachedKept
<1>25. HubInv'
  BY <1>13, <1>18, <1>19, <1>20, <1>21, <1>22, <1>23, <1>24 DEF HubInv
<1>26. \A m \in Node, p \in Port :
         node'[m].slot[p] = node[m].slot[p] \/ node'[m].slot[p] = NoDev
  <2>1. ASSUME NEW m \in Node, NEW p \in Port
        PROVE  node'[m].slot[p] = node[m].slot[p] \/ node'[m].slot[p] = NoDev
    <3>1. CASE m \in gone
      BY <1>9, <3>1
    <3>2. CASE m \notin gone /\ m = n
      BY <1>9, <3>2
    <3>3. CASE m \notin gone /\ m # n
      BY <1>9, <3>3
    <3> QED
      BY <3>1, <3>2, <3>3
  <2> QED
    BY <2>1
<1> QED
  BY <1>3, <1>9, <1>17, <1>25, <1>26

-----------------------------------------------------------------------------
(* The invariant holds at first, ...                                       *)
LEMMA HubInit == Init => HubInv
<1>1. SUFFICES ASSUME Init PROVE HubInv
  OBVIOUS
<1>2. /\ node[Root] = [used |-> TRUE, hub |-> TRUE, drv |-> TRUE, addr |-> 1, slot |-> NoSlots]
      /\ \A n \in Node : n # Root => node[n] = Blank
      /\ intreq = [n \in Node |-> 0] /\ flag = [n \in Node |-> n = Root] /\ busScan = TRUE
      /\ table = [a \in 1..MaxAddr |-> IF a = 1 THEN Root ELSE NoDev]
      /\ pc = "main" /\ walk = <<>> /\ port = 1 /\ new = NoDev
  BY <1>1, Names DEF Init, Blank
<1>3. MaxAddr \in Nat /\ MaxAddr > 0 /\ 1 \in 1..MaxAddr
  BY HubAssumption, DevCount
<1>4. /\ \A p \in Port : NoSlots[p] = NoDev /\ Blank.slot[p] = NoDev
      /\ ~Blank.used /\ Blank.addr = 0 /\ Blank \in Record /\ node[Root] \in Record
  BY <1>2, <1>3 DEF Blank, NoSlots, Record
<1>5. HubType
  <2>1. node \in [Node -> Record]
    <3>1. \A n \in Node : node[n] \in Record
      BY <1>2, <1>4
    <3>2. DOMAIN node = Node /\ node = [n \in Node |-> node[n]]
      BY <1>1 DEF Init
    <3> QED
      BY <3>1, <3>2
  <2>2. walk \in Seq(Node \X (0..NPorts))
    BY <1>2
  <2>3. port \in Port
    BY <1>2, Names
  <2> QED
    BY <1>2, <2>1, <2>2, <2>3, Names DEF HubType
<1>6. \A n \in Node, p \in Port : node[n].slot[p] = NoDev
  BY <1>2, <1>4
<1>7. Hung
  BY <1>2, <1>6, Names DEF Hung
<1>8. Making
  BY <1>2 DEF Making
<1>9. Path
  BY <1>2 DEF Path
<1>10. Watches
  <2>1. \A n \in Node : /\ ~Scanning(n) /\ intreq[n] = 0
                        /\ flag[n] <=> n = Root
    BY <1>2 DEF Scanning
  <2>2. node[Root].used /\ node[Root].hub
    BY <1>2
  <2>3. ASSUME NEW n \in Node PROVE Watched(n)
    BY <2>1, <2>2 DEF Watched
  <2>4. flag[Root]
    BY <2>1, Names
  <2> QED
    BY <2>3, <2>4 DEF Watches
<1>11. InUse
  BY <1>2, <1>4, BelowFacts DEF InUse, LeastClosed
<1>12. Addressed
  BY <1>2, <1>3, <1>4, Names DEF Addressed
<1>13. ScanReached
  BY <1>2 DEF ScanReached
<1> QED
  BY <1>5, <1>7, <1>8, <1>9, <1>10, <1>11, <1>12, <1>13 DEF HubInv

(* ... is kept by every step, ...                                          *)
LEMMA HubStep ==
  ASSUME HubInv, [Next]_vars
  PROVE  HubInv'
<1>0. HubType
  BY DEF HubInv
<1>1. ASSUME UNCHANGED <<noteVars, treeVars, pc, scanVars>> PROVE HubInv'
  BY <1>0, <1>1, Steady DEF noteVars, treeVars, scanVars, HubType
<1>2. CASE UNCHANGED vars \/ Undefined
  BY <1>1, <1>2 DEF vars, Undefined
<1>3. CASE \E g \in Gadget, x \in Place : Plug(g, x)
  BY <1>1, <1>3 DEF Plug
<1>4. CASE \E g \in Gadget : Unplug(g)
  BY <1>1, <1>4 DEF Unplug
<1>5. CASE \E x \in Place : ResetEnds(x)
  BY <1>1, <1>5 DEF ResetEnds
<1>6. CASE \E n \in Node : HubReport(n)
  BY <1>6, HubReportInv
<1>7. ASSUME UNCHANGED <<intreq, flag, busScan, node, table, displaced, walk, new>>,
             pc \in Plain, pc' \in Plain, port' \in Port
      PROVE  HubInv'
  BY <1>7, Steady
<1>8. CASE PowerOn
  BY <1>7, <1>8, Names DEF PowerOn, Plain, Busy, noteVars, treeVars
<1>9. CASE ReadStatus \/ StillResetting
  BY <1>0, <1>7, <1>9 DEF ReadStatus, StillResetting, Plain, Busy, noteVars, treeVars, HubType
<1>10. CASE ClearChanges
  <2>1. port' \in Port /\ pc' \in Plain
    BY <1>0, <1>10, NextPortPlaces DEF ClearChanges, Plain, Busy, HubType
  <2> QED
    BY <1>7, <1>10, <2>1 DEF ClearChanges, Plain, Busy, treeVars
<1>11. CASE StartReset \/ RemoveNothing
  BY <1>0, <1>7, <1>11 DEF StartReset, RemoveNothing, Plain, Busy, noteVars, treeVars, scanVars, HubType
<1> QED
  BY <1>2, <1>3, <1>4, <1>5, <1>6, <1>8, <1>9, <1>10, <1>11, PollInv, DaemonInv, DescendInv,
     AscendInv, CreateDeviceInv, IdentifyInv, ConfigureInv, RemoveInv, QueueIntrInv
     DEF Next, Scan

(* ... and so holds throughout.                                            *)
LEMMA HubInvariance == Spec => []HubInv
<1>1. HubInv /\ [Next]_vars => HubInv'
  BY HubStep
<1> QED
  BY HubInit, <1>1, PTL DEF Spec

(* Counting as WatchExact does.                                            *)
LEMMA CountOne ==
  ASSUME NEW P \in BOOLEAN
  PROVE  Cardinality({k \in {1} : P}) = IF P THEN 1 ELSE 0
<1>1. CASE P
  <2>1. {k \in {1} : P} = {1}
    BY <1>1
  <2> QED
    BY <1>1, <2>1, FS_Singleton
<1>2. CASE ~P
  <2>1. {k \in {1} : P} = {}
    BY <1>2
  <2> QED
    BY <1>2, <2>1, FS_EmptySet
<1> QED
  BY <1>1, <1>2

(* However reports, scans and removals interleave, a hub is watched by at  *)
(* most one interrupt request, none is queued while its scan runs or is    *)
(* pending, a freed block has none, and the root hub's is never lost:      *)
(* usbhub_queue_intreq puts back just what usbhub_ireq_callback took.      *)
THEOREM WatchedOnce == Spec => []WatchExact
<1>1. HubInv => WatchExact
  <2>1. SUFFICES ASSUME HubInv, NEW n \in Node
                 PROVE  LET watches == intreq[n] + Cardinality({k \in {1} : flag[n]})
                                         + Cardinality({k \in {1} : Scanning(n)})
                        IN  /\ watches <= 1
                            /\ ~node[n].used => watches = 0
                            /\ n = Root => watches = 1
    BY DEF WatchExact
  <2>2. PICK a, b, i : a = flag[n] /\ b = Scanning(n) /\ i = intreq[n]
    OBVIOUS
  <2>3. a \in BOOLEAN /\ b \in BOOLEAN
    BY <2>1, <2>2 DEF HubInv, HubType, Scanning
  <2>4. /\ Watched(n) /\ (n = Root => intreq[n] = 1 \/ flag[n] \/ Scanning(n))
        /\ Scanning(n) => node[n].used
    <3>1. ASSUME Scanning(n) PROVE node[n].used
      <4>1. walk # <<>> /\ n = walk[Len(walk)][1]
        BY <2>1, <3>1 DEF HubInv, Path, Scanning, Scanned
      <4> QED
        BY <2>1, <4>1, LastFrame DEF HubInv, Path
    <3> QED
      BY <2>1, <3>1 DEF HubInv, Watches
  <2>5. Cardinality({k \in {1} : a}) = (IF a THEN 1 ELSE 0)
        /\ Cardinality({k \in {1} : b}) = (IF b THEN 1 ELSE 0)
    BY <2>3, CountOne
  <2>6. /\ i \in {0, 1} /\ (i = 1 => ~a /\ ~b) /\ (a => ~b)
        /\ a \/ i = 1 \/ b => node[n].used
        /\ n = Root => i = 1 \/ a \/ b
    BY <2>2, <2>4 DEF Watched
  <2>7. PICK x, y : x = Cardinality({k \in {1} : a}) /\ y = Cardinality({k \in {1} : b})
    OBVIOUS
  <2>8. /\ i + x + y <= 1
        /\ ~node[n].used => i + x + y = 0
        /\ n = Root => i + x + y = 1
    BY <2>3, <2>5, <2>6, <2>7
  <2> QED
    BY <2>2, <2>7, <2>8, Zenon
<1> QED
  BY <1>1, HubInvariance, PTL

(* A flag that comes up at any point of a walk is not overlooked:          *)
(* usbhub_map_tree1 has yet to come to the hub, or UB_FLG_NEEDSCAN makes   *)
(* usb_daemon walk again.                                                  *)
THEOREM FlagsReached == Spec => []ScanReached
<1>1. HubInv => ScanReached
  BY DEF HubInv
<1> QED
  BY <1>1, HubInvariance, PTL

(* usb_set_address gives each device an address of its own, and            *)
(* usb_destroy_device takes exactly its entry of ub_devices[] away.        *)
THEOREM AddressesRight == Spec => []Addressed
<1>1. HubInv => Addressed
  BY DEF HubInv
<1> QED
  BY <1>1, HubInvariance, PTL

(* Through plugging in and out in the middle of a walk the blocks stay one *)
(* tree: each in one slot of one hub in use, none in use and unreachable   *)
(* but the displaced one and the one being made, and no freed one on the   *)
(* walk.                                                                   *)
THEOREM TreeWhole == Spec => []TreeSound
<1>1. HubInv => TreeSound
  <2>1. SUFFICES ASSUME HubInv PROVE TreeSound
    OBVIOUS
  <2>2. PICK slots : slots = {u \in Node \X Port : node[u[1]].slot[u[2]] # NoDev}
    OBVIOUS
  <2>3. \A u \in slots : u[1] \in Node /\ u[2] \in Port /\ u = <<u[1], u[2]>>
                         /\ node[u[1]].slot[u[2]] # NoDev
    BY <2>2
  <2>4. \A u \in slots : /\ node[u[1]].used /\ node[u[1]].hub
                         /\ node[node[u[1]].slot[u[2]]].used
    BY <2>1, <2>3 DEF HubInv, Hung
  <2>5. \A u, v \in slots : u # v => node[u[1]].slot[u[2]] # node[v[1]].slot[v[2]]
    BY <2>1, <2>3 DEF HubInv, Hung
  <2>6. \A n \in Node : node[n].used => n \in Below(Root) \cup displaced \cup {new}
    BY <2>1 DEF HubInv, InUse
  <2>7. \A i \in DOMAIN walk : node[walk[i][1]].used
    BY <2>1 DEF HubInv, Path, HubType
  <2> QED
    BY <2>2, <2>4, <2>5, <2>6, <2>7 DEF TreeSound
<1> QED
  BY <1>1, HubInvariance, PTL

-----------------------------------------------------------------------------
(* The wires.                                                              *)

(* What one more step of wires adds.                                       *)
PluggedOf(A) == UNION {PluggedInto(x) : x \in A}

(* The same steps for Under.                                               *)
UpChain(g, n, N) ==
  g = [k \in 0..N |-> IF k = 0 THEN {n}
                      ELSE g[k - 1] \cup UNION {PluggedInto(x) : x \in g[k - 1]}]

(* The number of gadgets is a number.                                      *)
LEMMA GadgetCount == Cardinality(Gadget) \in Nat
BY HubAssumption, FS_CardinalityType

(* There is such a list for any number of steps, ...                       *)
LEMMA UpStepsExist ==
  ASSUME NEW n, NEW N \in Nat
  PROVE  \E g : UpChain(g, n, N)
<1> DEFINE Next1(g, k) == IF k = 0 THEN {n} ELSE g[k - 1] \cup UNION {PluggedInto(x) : x \in g[k - 1]}
           S == {m \in Nat : \E g : g = [k \in 0..m |-> Next1(g, k)]}
<1>1. 0 \in S
  <2>1. [k \in 0..0 |-> {n}] = [k \in 0..0 |-> Next1([j \in 0..0 |-> {n}], k)]
    OBVIOUS
  <2> QED
    BY <2>1
<1>2. ASSUME NEW m \in Nat, m \in S PROVE m + 1 \in S
  <2>1. PICK g : g = [k \in 0..m |-> Next1(g, k)]
    BY <1>2
  <2> DEFINE h == [k \in 0..(m + 1) |-> IF k = m + 1 THEN Next1(g, k) ELSE g[k]]
  <2>2. \A k \in 0..m : h[k] = g[k]
    OBVIOUS
  <2>3. \A k \in 0..(m + 1) : k # 0 => k - 1 \in 0..m
    OBVIOUS
  <2>4. \A k \in 0..(m + 1) : Next1(h, k) = Next1(g, k)
    <3> HIDE DEF h
    <3> QED
      BY <2>2, <2>3
  <2>5. \A k \in 0..m : g[k] = Next1(g, k)
    <3> HIDE DEF Next1
    <3> QED
      BY <2>1
  <2>6. h = [k \in 0..(m + 1) |-> Next1(h, k)]
    <3>1. \A k \in 0..(m + 1) : h[k] = Next1(h, k)
      <4> HIDE DEF Next1
      <4> QED
        BY <2>4, <2>5
    <3> QED
      BY <3>1
  <2> QED
    <3> HIDE DEF h, Next1
    <3> QED
      BY <2>6
<1>3. N \in S
  <2> HIDE DEF S
  <2> QED
    BY <1>1, <1>2, SetInduction
<1> QED
  BY <1>3 DEF UpChain

(* ... and Under(n) is the last of its steps.                              *)
LEMMA UnderSteps ==
  ASSUME NEW n, Cardinality(Gadget) \in Nat
  PROVE  \E f : /\ f[0] = {n}
                /\ \A k \in 1..Cardinality(Gadget) : f[k] = f[k - 1] \cup PluggedOf(f[k - 1])
                /\ Under(n) = f[Cardinality(Gadget)]
<1> DEFINE N == Cardinality(Gadget)
           f[k \in 0..N] == IF k = 0 THEN {n} ELSE f[k - 1] \cup UNION {PluggedInto(x) : x \in f[k - 1]}
<1>1. UpChain(f, n, N)
  <2>1. N \in Nat
    OBVIOUS
  <2>2. \E g : UpChain(g, n, N)
    BY <2>1, UpStepsExist, Zenon
  <2> HIDE DEF N
  <2> QED
    BY <2>2, Zenon DEF UpChain
<1>2. Under(n) = f[N]
  BY DEF Under, Reach
<1> HIDE DEF f, N
<1>3. N \in Nat
  BY DEF N
<1>4. f[0] = {n} /\ \A k \in 1..N : f[k] = f[k - 1] \cup PluggedOf(f[k - 1])
  BY <1>1, <1>3 DEF PluggedOf, UpChain
<1> QED
  BY <1>2, <1>4 DEF N

(* A gadget that is plugged into another hangs on all that one hangs on:   *)
(* there are as many steps as gadgets, and each but the last reaches a new *)
(* one.                                                                    *)
LEMMA UnderClosed ==
  ASSUME NEW x \in Gadget
  PROVE  /\ x \in Under(x) /\ Under(x) \subseteq Gadget
         /\ \A g \in Gadget : at[g] # Nowhere /\ at[g][1] \in Under(x) => g \in Under(x)
<1> DEFINE N == Cardinality(Gadget)
<1>1. PICK f : /\ f[0] = {x}
               /\ \A k \in 1..N : f[k] = f[k - 1] \cup PluggedOf(f[k - 1])
               /\ Under(x) = f[N]
  BY GadgetCount, UnderSteps
<1>2. N \in Nat /\ IsFiniteSet(Gadget) /\ N = Cardinality(Gadget)
  BY GadgetCount, HubAssumption
<1>3. \A A : PluggedOf(A) \subseteq Gadget
  BY DEF PluggedOf, PluggedInto
<1> HIDE DEF N
<1> DEFINE Closed(A) == PluggedOf(A) \subseteq A
           T == {k \in Nat : k <= N => /\ x \in f[k] /\ f[k] \subseteq Gadget
                                       /\ Closed(f[k]) \/ Cardinality(f[k]) >= k + 1}
<1>4. 0 \in T
  <2>1. Cardinality(f[0]) = 1 /\ f[0] \subseteq Gadget /\ x \in f[0]
    BY <1>1, FS_Singleton
  <2> QED
    BY <2>1
<1>5. ASSUME NEW k \in Nat, k \in T PROVE k + 1 \in T
  <2>1. SUFFICES ASSUME k + 1 <= N
                 PROVE  /\ x \in f[k + 1] /\ f[k + 1] \subseteq Gadget
                        /\ Closed(f[k + 1]) \/ Cardinality(f[k + 1]) >= k + 2
    OBVIOUS
  <2>2. /\ f[k] \subseteq Gadget /\ x \in f[k] /\ f[k + 1] = f[k] \cup PluggedOf(f[k])
        /\ Closed(f[k]) \/ Cardinality(f[k]) >= k + 1
    BY <1>1, <1>2, <1>5, <2>1
  <2>3. f[k + 1] \subseteq Gadget /\ x \in f[k + 1]
    BY <1>3, <2>2
  <2>4. CASE Closed(f[k])
    <3>1. f[k + 1] = f[k]
      BY <2>2, <2>4
    <3> QED
      BY <2>3, <2>4, <3>1
  <2>5. CASE ~Closed(f[k])
    <3>1. PICK c \in f[k + 1] : c \notin f[k]
      BY <2>2, <2>5
    <3>2. /\ IsFiniteSet(f[k]) /\ Cardinality(f[k]) \in Nat
          /\ IsFiniteSet(f[k + 1]) /\ Cardinality(f[k + 1]) \in Nat
      BY <1>2, <2>2, <2>3, FS_Subset, FS_CardinalityType
    <3>3. Cardinality(f[k] \cup {c}) = Cardinality(f[k]) + 1
      BY <3>1, <3>2, FS_AddElement
    <3>4. Cardinality(f[k] \cup {c}) <= Cardinality(f[k + 1])
      <4>1. f[k] \cup {c} \in SUBSET f[k + 1]
        BY <2>2, <3>1
      <4> QED
        BY <3>2, <4>1, FS_Subset
    <3>5. Cardinality(f[k]) >= k + 1
      BY <2>2, <2>5
    <3>6. Cardinality(f[k + 1]) >= k + 2
      BY <3>2, <3>3, <3>4, <3>5
    <3> QED
      BY <2>3, <3>6
  <2> QED
    BY <2>4, <2>5
<1>6. N \in T
  <2> HIDE DEF T
  <2> QED
    BY <1>2, <1>4, <1>5, SetInduction
<1>7. x \in f[N] /\ f[N] \subseteq Gadget /\ (Closed(f[N]) \/ Cardinality(f[N]) >= N + 1)
  BY <1>2, <1>6
<1>8. Closed(f[N])
  <2>1. Cardinality(f[N]) <= N /\ Cardinality(f[N]) \in Nat
    BY <1>2, <1>7, FS_Subset, FS_CardinalityType
  <2> QED
    BY <1>2, <1>7, <2>1
<1>9. ASSUME NEW g \in Gadget, at[g] # Nowhere, at[g][1] \in f[N] PROVE g \in f[N]
  <2>1. g \in PluggedOf(f[N])
    BY <1>9 DEF PluggedOf, PluggedInto
  <2> QED
    BY <1>8, <2>1
<1> QED
  BY <1>1, <1>7, <1>9

(* Every block of the tree but the root hub is in a slot of another.       *)
LEMMA HasParent ==
  ASSUME HubType, NEW c \in Below(Root), c # Root
  PROVE  \E m \in Below(Root), q \in Port : node[m].slot[q] = c
<1> DEFINE S == {Root} \cup {y \in Node : \E m \in Below(Root), q \in Port : node[m].slot[q] = y}
<1>1. Below(Root) \subseteq Node
  BY BelowBlock, Names
<1>2. Root \in Below(Root)
  BY BelowSelf
<1>3. ASSUME NEW y \in Below(Root), NEW z \in Kids(y) PROVE z \in S
  <2>1. y \in Node
    BY <1>1, <1>3
  <2> QED
    BY <1>3, <2>1, KidsOfBlock, Names
<1> DEFINE R == S \cap Below(Root)
<1>4. \A y \in R : Kids(y) \subseteq R
  <2>1. \A y \in Below(Root) : Kids(y) \subseteq Below(Root)
    BY BelowBlock, Names
  <2> HIDE DEF S
  <2> QED
    BY <1>3, <2>1
<1>5. Below(Root) \subseteq R
  <2>1. Root \in R
    BY <1>2
  <2> HIDE DEF R
  <2> QED
    BY <1>4, <2>1, BelowLeast
<1> QED
  BY <1>5

-----------------------------------------------------------------------------
(* u is what answers to the address of n: for a device in use at most one  *)
(* gadget does.                                                            *)
Serves(u, n) == \/ n = Root /\ u = Root
                \/ n \in Dev /\ u \in Gadget /\ mine[u] = n

(* Gadget g hangs on port p of what answers for n.                         *)
Hangs(g, n, p) == \E u : Serves(u, n) /\ at[g] = <<u, p>>

(* One gadget per place, one address per gadget, and an address only while *)
(* plugged in.                                                             *)
Wired ==
  /\ at \in [Gadget -> Place \cup {Nowhere}]
  /\ mine \in [Gadget -> Dev \cup {NoDev, "default"}]
  /\ \A g, h \in Gadget : at[g] = at[h] /\ at[g] # Nowhere => g = h
  /\ \A g, h \in Gadget : mine[g] = mine[h] /\ mine[g] \in Dev => g = h
  /\ \A g \in Gadget : mine[g] # NoDev => at[g] # Nowhere
  /\ \A g \in Gadget : mine[g] \in Dev => node[mine[g]].used

(* Only the port that is being scanned is ever in reset.                   *)
OnePort ==
  \A x \in resetting : /\ pc = "resetting" /\ x \in Place
                       /\ \E u : Serves(u, Scanned) /\ x = <<u, port>>

(* The ports of a hub that is being scanned have power.                    *)
Powered ==
  pc \in Busy \ {"power"} =>
    \A u, p : Serves(u, Scanned) /\ p \in Port /\ <<u, p>> \in Place => <<u, p>> \in powered

(* The hub that hung in the port until its reset, and is about to be lost. *)
Lost(n) == /\ pc \in {"resetting", "identify", "configure"} /\ resetting = {}
           /\ n = node[Scanned].slot[port]

(* A device of the tree that answers hangs where the tree says, on a hub   *)
(* that answers too.                                                       *)
Placed ==
  \A n \in Below(Root), p \in Port, g \in Gadget :
    mine[g] \in Dev /\ mine[g] = node[n].slot[p] /\ ~Lost(n) => Hangs(g, n, p)

(* So does the one that is being made.                                     *)
Fresh == new # NoDev => \A g \in Gadget : mine[g] = new => Hangs(g, Scanned, port)

(* A port that showed no connection has no device that answers.            *)
Absent ==
  (pc = "clear" /\ "connect" \in cur.chg /\ ~cur.conn) \/ pc = "remove" =>
    \A g \in Gadget : mine[g] \in Dev => mine[g] # node[Scanned].slot[port]

(* The inductive invariant of the wires.                                   *)
WireInv == Wired /\ OnePort /\ Powered /\ Placed /\ Fresh /\ Absent

(* What answers for a device, and where the hub's ports are.               *)
LEMMA ServesOne ==
  ASSUME Wired
  PROVE  /\ \A u, v, n : Serves(u, n) /\ Serves(v, n) => u = v
         /\ \A u, m, n : Serves(u, m) /\ Serves(u, n) => m = n
         /\ \A n \in Node : Answers(n) => Serves(UnitOf(n), n)
         /\ \A u, n : n \in Node /\ Serves(u, n) => Answers(n) /\ UnitOf(n) = u
<1>1. \A u, v, n : Serves(u, n) /\ Serves(v, n) => u = v
  BY Names DEF Serves, Wired
<1>2. \A u, m, n : Serves(u, m) /\ Serves(u, n) => m = n
  BY Names DEF Serves, Wired
<1>3. ASSUME NEW n \in Node, Answers(n) PROVE Serves(UnitOf(n), n)
  <2>1. CASE n = Root
    BY <2>1 DEF UnitOf, Serves
  <2>2. CASE n # Root
    <3>1. UnitOf(n) \in Gadget /\ mine[UnitOf(n)] = n
      BY <1>3, <2>2 DEF UnitOf, Answers
    <3> QED
      BY <2>2, <3>1, Names DEF Serves
  <2> QED
    BY <2>1, <2>2
<1>4. ASSUME NEW u, NEW n \in Node, Serves(u, n) PROVE Answers(n) /\ UnitOf(n) = u
  <2>1. Answers(n)
    BY <1>4 DEF Serves, Answers
  <2> QED
    BY <1>1, <1>3, <1>4, <2>1
<1> QED
  BY <1>1, <1>2, <1>3, <1>4

(* A step of the driver that leaves the tree and the wires alone and is    *)
(* not about a reset.                                                      *)
LEMMA MovedWire ==
  ASSUME HubInv, HubType', WireInv, UNCHANGED <<at, mine, resetting, node, new>>,
         pc \notin {"resetting", "identify", "configure"},
         pc' \notin {"resetting", "identify", "configure"}
  PROVE  Wired' /\ OnePort' /\ Placed' /\ Fresh' /\ (Powered' /\ Absent' => WireInv')
<1>1. HubType /\ Making /\ Wired /\ OnePort /\ Placed
  BY DEF HubInv, WireInv
<1>2. \A u, n : Serves(u, n)' <=> Serves(u, n)
  BY DEF Serves
<1>3. Wired'
  BY <1>1 DEF Wired
<1>4. OnePort'
  BY <1>1 DEF OnePort
<1>5. Below(Root)' = Below(Root)
  BY <1>1, SameBelow
<1>6. Placed'
  <2>1. \A n : ~Lost(n)
    BY DEF Lost
  <2>2. ASSUME NEW n \in Below(Root)', NEW p \in Port, NEW g \in Gadget,
               mine'[g] \in Dev, mine'[g] = node'[n].slot[p]
        PROVE  Hangs(g, n, p)'
    <3>1. Hangs(g, n, p)
      BY <1>1, <1>5, <2>1, <2>2 DEF Placed
    <3> QED
      BY <1>2, <3>1 DEF Hangs
  <2> QED
    BY <2>2 DEF Placed
<1>7. Fresh'
  BY <1>1 DEF Making, Fresh
<1> QED
  BY <1>3, <1>4, <1>6, <1>7 DEF WireInv

-----------------------------------------------------------------------------
(* The hub that is being scanned is one of the tree.                       *)
LEMMA ScannedHub ==
  ASSUME HubInv, pc # "main"
  PROVE  Scanned \in Node /\ port \in Port /\ Scanned \in Below(Root) /\ node[Scanned].used
<1>1. HubType /\ Path /\ walk # <<>>
  BY DEF HubInv, Path
<1>2. Len(walk) \in 1..Len(walk) /\ Scanned \in Node
  BY <1>1, LastFrame
<1> QED
  BY <1>1, <1>2, WalkBelow DEF Scanned, Path, HubType

(* A step that leaves the wires, the blocks' slots and the place of the    *)
(* driver alone.                                                           *)
LEMMA SameWire ==
  ASSUME HubInv, HubType', WireInv,
         UNCHANGED <<at, mine, powered, resetting, walk, port, new>>,
         \A n \in Node : node'[n].slot = node[n].slot /\ node'[n].used = node[n].used,
         \/ pc' = pc /\ (pc = "clear" => cur' = cur)
         \/ pc = "identify" /\ pc' = "configure"
  PROVE  WireInv'
<1>1. HubType /\ Making /\ Wired /\ OnePort /\ Placed /\ Powered /\ Fresh /\ Absent
  BY DEF HubInv, WireInv
<1>2. \A u, n : Serves(u, n)' <=> Serves(u, n)
  BY DEF Serves
<1>3. Scanned' = Scanned
  BY DEF Scanned
<1>4. Wired'
  <2>1. \A g \in Gadget : mine[g] \in Dev => node'[mine[g]].used
    BY <1>1, Names DEF Wired
  <2> QED
    BY <1>1, <2>1 DEF Wired
<1>5. OnePort'
  <2>1. ASSUME NEW x \in resetting
        PROVE  /\ pc = "resetting" /\ pc' = "resetting" /\ x \in Place
               /\ \E u : Serves(u, Scanned) /\ x = <<u, port>>
    BY <1>1, <2>1 DEF OnePort
  <2> QED
    BY <1>2, <1>3, <2>1 DEF OnePort
<1>6. Powered'
  BY <1>1, <1>2, <1>3 DEF Powered, Busy
<1>7. pc # "main" => node'[Scanned].slot[port] = node[Scanned].slot[port]
  BY ScannedHub
<1>8. Below(Root)' = Below(Root)
  BY <1>1, SameBelow
<1>9. \A n : Lost(n) => Lost(n)'
  BY <1>3, <1>7 DEF Lost
<1>10. Placed'
  <2>1. ASSUME NEW n \in Below(Root)', NEW p \in Port, NEW g \in Gadget,
               mine'[g] \in Dev, mine'[g] = node'[n].slot[p], ~Lost(n)'
        PROVE  Hangs(g, n, p)'
    <3>1. n \in Node
      BY <1>1, <1>8, <2>1, BelowBlock, Names
    <3>2. Hangs(g, n, p)
      BY <1>1, <1>8, <1>9, <2>1, <3>1 DEF Placed
    <3> QED
      BY <1>2, <3>2 DEF Hangs
  <2> QED
    BY <2>1 DEF Placed
<1>11. Fresh'
  BY <1>1, <1>2, <1>3 DEF Fresh, Hangs
<1>12. Absent'
  BY <1>1, <1>3, <1>7 DEF Absent
<1> QED
  BY <1>4, <1>5, <1>6, <1>10, <1>11, <1>12 DEF WireInv

(* The daemon's walk, up to the scan of a hub and after it.                *)
LEMMA WalkWire ==
  ASSUME HubInv, HubType', WireInv, Daemon \/ Descend \/ Ascend \/ QueueIntr
  PROVE  WireInv'
<1>1. /\ UNCHANGED <<at, mine, resetting, node, new>>
      /\ pc \in {"main", "walk", "queue"} /\ pc' \in {"main", "walk", "power"}
  <2>1. CASE Daemon
    BY <2>1 DEF Daemon, Visit, wireVars, portVars, treeVars
  <2>2. CASE Descend
    <3>1. pc = "walk" /\ UNCHANGED <<at, mine, resetting, node, new>>
      BY <2>2 DEF Descend, wireVars, portVars, treeVars
    <3>2. pc' \in {"main", "walk", "power"}
      BY <2>2, <3>1 DEF Descend, Visit
    <3> QED
      BY <3>1, <3>2
  <2>3. CASE Ascend
    BY <2>3 DEF Ascend, wireVars, portVars, treeVars
  <2>4. CASE QueueIntr
    BY <2>4 DEF QueueIntr, wireVars, portVars, treeVars, scanVars
  <2> QED
    BY <2>1, <2>2, <2>3, <2>4
<1>2. Powered' /\ Absent'
  BY <1>1 DEF Powered, Absent, Busy
<1> QED
  BY <1>1, <1>2, MovedWire

(* usbhub_scan_ports turns the power on.                                   *)
LEMMA PowerOnWire ==
  ASSUME HubInv, HubType', WireInv, PowerOn
  PROVE  WireInv'
<1>1. /\ UNCHANGED <<at, mine, resetting, node, new, walk>> /\ pc = "power" /\ pc' = "status"
      /\ Answers(Scanned) => powered' = powered \cup ({x \in Place : x[1] = UnitOf(Scanned)} \ powered)
  BY DEF PowerOn, treeVars
<1>2. Powered'
  <2>1. ASSUME NEW u, NEW p \in Port, Serves(u, Scanned), <<u, p>> \in Place
        PROVE  <<u, p>> \in powered'
    <3>1. Answers(Scanned) /\ UnitOf(Scanned) = u
      BY <1>1, <2>1, ScannedHub, ServesOne DEF WireInv
    <3> QED
      BY <1>1, <2>1, <3>1
  <2>2. Scanned' = Scanned /\ \A u, n : Serves(u, n)' <=> Serves(u, n)
    BY <1>1 DEF Scanned, Serves
  <2> QED
    BY <2>1, <2>2 DEF Powered
<1>3. Absent'
  BY <1>1 DEF Absent
<1> QED
  BY <1>1, <1>2, <1>3, MovedWire

(* A port that says it has no connection has no gadget, or its hub does    *)
(* not answer; so no device below the port does.                           *)
LEMMA ReadStatusWire ==
  ASSUME HubInv, HubType', WireInv, ReadStatus
  PROVE  WireInv'
<1>1. /\ UNCHANGED <<at, mine, powered, resetting, node, new, walk, port>>
      /\ pc = "status" /\ pc' = "clear" /\ cur' = Observed(Scanned, port)
  BY DEF ReadStatus, wireVars, portVars, treeVars
<1>2. Wired /\ Powered /\ Placed
  BY DEF WireInv
<1>3. Scanned \in Node /\ port \in Port /\ Scanned \in Below(Root)
  BY <1>1, ScannedHub
<1>4. Scanned' = Scanned /\ \A u, n : Serves(u, n)' <=> Serves(u, n)
  BY <1>1 DEF Scanned, Serves
<1>5. Powered'
  BY <1>1, <1>2, <1>4 DEF Powered, Busy
<1>6. Absent'
  <2>1. ASSUME NEW g \in Gadget, mine[g] \in Dev, mine[g] = node[Scanned].slot[port]
        PROVE  cur'.conn
    <3>1. ~Lost(Scanned)
      BY <1>1 DEF Lost
    <3>2. PICK u : Serves(u, Scanned) /\ at[g] = <<u, port>>
      BY <1>2, <1>3, <2>1, <3>1 DEF Placed, Hangs
    <3>3. Answers(Scanned) /\ PlaceOf(Scanned, port) = <<u, port>>
      BY <1>2, <1>3, <3>2, ServesOne DEF PlaceOf
    <3>4. cur' = PortSays(<<u, port>>)
      BY <1>1, <3>3 DEF Observed, Requested
    <3>5. <<u, port>> \in Place
      <4>1. at[g] \in Place \cup {Nowhere} /\ at[g] # Nowhere
        BY <1>2, <2>1, Names DEF Wired
      <4> QED
        BY <3>2, <4>1
    <3>6. <<u, port>> \in powered
      BY <1>1, <1>2, <1>3, <3>2, <3>5 DEF Powered, Busy
    <3>7. Occupant(<<u, port>>) # {}
      BY <3>2 DEF Occupant
    <3> QED
      BY <3>4, <3>6, <3>7 DEF PortSays
  <2> QED
    BY <1>1, <1>4, <2>1 DEF Absent
<1> QED
  BY <1>1, <1>5, <1>6, MovedWire

(* What it saw is cleared, and decides where it goes on.                   *)
LEMMA ClearChangesWire ==
  ASSUME HubInv, HubType', WireInv, ClearChanges
  PROVE  WireInv'
<1>1. /\ UNCHANGED <<at, mine, powered, resetting, node, new, walk>> /\ pc = "clear"
      /\ \/ "connect" \in cur.chg /\ cur.conn /\ pc' = "reset" /\ port' = port
         \/ "connect" \in cur.chg /\ ~cur.conn /\ pc' = "remove" /\ port' = port
         \/ pc' \in {"status", "queue"}
  BY DEF ClearChanges, NextPort, wireVars, treeVars
<1>2. Powered /\ Absent
  BY DEF WireInv
<1>3. Scanned' = Scanned /\ \A u, n : Serves(u, n)' <=> Serves(u, n)
  BY <1>1 DEF Scanned, Serves
<1>4. Powered'
  BY <1>1, <1>2, <1>3 DEF Powered, Busy
<1>5. Absent'
  BY <1>1, <1>2, <1>3 DEF Absent
<1> QED
  BY <1>1, <1>4, <1>5, MovedWire

(* The port goes into reset.                                               *)
LEMMA StartResetWire ==
  ASSUME HubInv, HubType', WireInv, StartReset
  PROVE  WireInv'
<1>1. /\ UNCHANGED <<at, mine, powered, node, new, walk, port>>
      /\ pc = "reset" /\ pc' = "resetting"
      /\ \/ resetting' = resetting
         \/ /\ Answers(Scanned) /\ Occupant(PlaceOf(Scanned, port)) # {}
            /\ resetting' = resetting \cup {PlaceOf(Scanned, port)}
  BY DEF StartReset, Raise, wireVars, portVars, treeVars, scanVars
<1>2. HubType /\ Making /\ Wired /\ OnePort /\ Placed /\ Powered
  BY DEF HubInv, WireInv
<1>3. Scanned' = Scanned /\ \A u, n : Serves(u, n)' <=> Serves(u, n)
  BY <1>1 DEF Scanned, Serves
<1>4. Wired'
  BY <1>1, <1>2 DEF Wired
<1>5. OnePort'
  <2>1. resetting = {}
    BY <1>1, <1>2 DEF OnePort
  <2>2. ASSUME NEW x \in resetting'
        PROVE  x \in Place /\ \E u : Serves(u, Scanned) /\ x = <<u, port>>
    <3>1. Answers(Scanned) /\ Occupant(x) # {} /\ x = <<UnitOf(Scanned), port>>
      BY <1>1, <2>1, <2>2 DEF PlaceOf
    <3>2. Serves(UnitOf(Scanned), Scanned) /\ port \in Port
      BY <1>1, <1>2, <3>1, ScannedHub, ServesOne
    <3>3. x \in (Gadget \cup {Root}) \X Port /\ x # Nowhere
      <4>1. UnitOf(Scanned) \in Gadget \cup {Root}
        BY <3>2 DEF Serves
      <4> QED
        BY <3>1, <3>2, <4>1, HubAssumption
    <3>4. x \in Place
      BY <1>2, <3>1, <3>3 DEF Occupant, Wired
    <3> QED
      BY <3>1, <3>2, <3>4
  <2> QED
    BY <1>1, <1>3, <2>2 DEF OnePort
<1>6. Powered'
  BY <1>1, <1>2, <1>3 DEF Powered, Busy
<1>7. Below(Root)' = Below(Root)
  BY <1>1, <1>2, SameBelow
<1>8. Placed'
  <2>1. \A n : ~Lost(n)
    BY <1>1 DEF Lost
  <2>2. ASSUME NEW n \in Below(Root)', NEW p \in Port, NEW g \in Gadget,
               mine'[g] \in Dev, mine'[g] = node'[n].slot[p]
        PROVE  Hangs(g, n, p)'
    <3>1. Hangs(g, n, p)
      BY <1>1, <1>2, <1>7, <2>1, <2>2 DEF Placed
    <3> QED
      BY <1>1, <1>3, <3>1 DEF Hangs
  <2> QED
    BY <2>2 DEF Placed
<1>9. Fresh' /\ Absent'
  BY <1>1, <1>2 DEF Making, Fresh, Absent
<1> QED
  BY <1>4, <1>5, <1>6, <1>8, <1>9 DEF WireInv

(* A gadget that is plugged in answers to nothing yet.                     *)
LEMMA PlugWire ==
  ASSUME HubInv, WireInv, NEW g \in Gadget, NEW x \in Place, Plug(g, x)
  PROVE  WireInv'
<1>1. /\ at[g] = Nowhere /\ Occupant(x) = {} /\ at' = [at EXCEPT ![g] = x]
      /\ UNCHANGED <<powered, mine, resetting, node, pc, walk, port, new, cur>>
  BY DEF Plug, treeVars, scanVars
<1>2. Wired /\ OnePort /\ Powered /\ Placed /\ Fresh /\ Absent
  BY DEF WireInv
<1>3. Scanned' = Scanned /\ \A u, n : Serves(u, n)' <=> Serves(u, n)
  BY <1>1 DEF Scanned, Serves
<1>4. /\ at' \in [Gadget -> Place \cup {Nowhere}] /\ mine[g] = NoDev
      /\ at'[g] = x /\ \A h \in Gadget : h # g => at'[h] = at[h] /\ at[h] # x
  BY <1>1, <1>2 DEF Wired, Occupant
<1>5. Wired'
  <2>1. x # Nowhere
    BY HubAssumption DEF Place, Gadget
  <2>2. \A h, k \in Gadget : at'[h] = at'[k] /\ at'[h] # Nowhere => h = k
    BY <1>2, <1>4 DEF Wired
  <2>3. \A h \in Gadget : mine[h] # NoDev => at'[h] # Nowhere
    BY <1>2, <1>4 DEF Wired
  <2> QED
    BY <1>1, <1>2, <1>4, <2>2, <2>3 DEF Wired
<1>6. OnePort'
  BY <1>1, <1>2, <1>3 DEF OnePort
<1>7. Powered'
  BY <1>1, <1>2, <1>3 DEF Powered
<1>8. \A h \in Gadget : \A n, p : mine[h] # NoDev /\ Hangs(h, n, p) => Hangs(h, n, p)'
  BY <1>3, <1>4 DEF Hangs
<1>9. Below(Root)' = Below(Root) /\ \A n : Lost(n)' <=> Lost(n)
  BY <1>1, <1>3 DEF Below, Reach, Kids, Lost
<1>10. Placed'
  <2>1. ASSUME NEW n \in Below(Root), NEW p \in Port, NEW h \in Gadget,
               mine[h] \in Dev, mine[h] = node[n].slot[p], ~Lost(n)
        PROVE  Hangs(h, n, p)'
    <3>1. Hangs(h, n, p) /\ mine[h] # NoDev
      BY <1>2, <2>1, Names DEF Placed
    <3> QED
      BY <1>8, <3>1
  <2> QED
    BY <1>1, <1>9, <2>1 DEF Placed
<1>11. Fresh'
  <2>1. PICK n, p : n = Scanned /\ p = port
    OBVIOUS
  <2>2. ASSUME new # NoDev, NEW h \in Gadget, mine[h] = new PROVE Hangs(h, n, p)'
    BY <1>2, <1>8, <2>1, <2>2 DEF Fresh
  <2>3. n = Scanned' /\ p = port'
    BY <1>1, <1>3, <2>1
  <2> QED
    BY <1>1, <2>2, <2>3 DEF Fresh
<1>12. Absent'
  BY <1>1, <1>2, <1>3 DEF Absent
<1> QED
  BY <1>5, <1>6, <1>7, <1>10, <1>11, <1>12 DEF WireInv

(* A gadget is pulled out: with it goes the address of all that hangs on   *)
(* it, so what still answers has not moved, nor has what it hangs on.      *)
LEMMA UnplugWire ==
  ASSUME HubInv, WireInv, NEW g \in Gadget, Unplug(g)
  PROVE  WireInv'
<1> DEFINE U == Under(g)
<1>1. /\ at[g] # Nowhere /\ at' = [at EXCEPT ![g] = Nowhere]
      /\ mine' = [h \in Gadget |-> IF h \in U THEN NoDev ELSE mine[h]]
      /\ powered' = powered \ {y \in Place : y[1] \in U}
      /\ resetting' = resetting \ ({y \in Place : y[1] \in U} \cup {at[g]})
      /\ UNCHANGED <<node, pc, walk, port, new, cur>>
  BY DEF Unplug, treeVars, scanVars
<1>2. Wired /\ OnePort /\ Powered /\ Placed /\ Fresh /\ Absent
  BY DEF WireInv
<1>3. g \in U /\ \A h \in Gadget : at[h] # Nowhere /\ at[h][1] \in U => h \in U
  BY UnderClosed
<1> HIDE DEF U
<1>4. /\ \A h \in Gadget : h \notin U => mine'[h] = mine[h] /\ at'[h] = at[h]
      /\ \A h \in Gadget : h \in U => mine'[h] = NoDev
      /\ \A h \in Gadget : at'[h] = at[h] \/ at'[h] = Nowhere
      /\ at' \in [Gadget -> Place \cup {Nowhere}]
      /\ mine' \in [Gadget -> Dev \cup {NoDev, "default"}]
  BY <1>1, <1>2, <1>3 DEF Wired
<1>5. Scanned' = Scanned
  BY <1>1 DEF Scanned
<1>6. \A u, n : Serves(u, n)' <=> Serves(u, n) /\ (n = Root \/ u \notin U)
  BY <1>4, Names DEF Serves
<1>7. Wired'
  <2>1. \A h, k \in Gadget : at'[h] = at'[k] /\ at'[h] # Nowhere => h = k
    BY <1>2, <1>4 DEF Wired
  <2>2. \A h, k \in Gadget : mine'[h] = mine'[k] /\ mine'[h] \in Dev => h = k
    BY <1>2, <1>4, Names DEF Wired
  <2>3. \A h \in Gadget : mine'[h] # NoDev => at'[h] # Nowhere
    BY <1>2, <1>4 DEF Wired
  <2>4. \A h \in Gadget : mine'[h] \in Dev => node'[mine'[h]].used
    BY <1>1, <1>2, <1>4, Names DEF Wired
  <2> QED
    BY <1>4, <2>1, <2>2, <2>3, <2>4 DEF Wired
<1>8. ASSUME NEW h \in Gadget, NEW n \in Node, NEW p, h \notin U, at[h] # Nowhere, Hangs(h, n, p)
      PROVE  Hangs(h, n, p)'
  <2>1. PICK u : Serves(u, n) /\ at[h] = <<u, p>>
    BY <1>8 DEF Hangs
  <2>2. at[h][1] = u
    BY <2>1
  <2>3. u \notin U /\ at'[h] = at[h]
    BY <1>3, <1>4, <1>8, <2>2
  <2> QED
    BY <1>6, <2>1, <2>3 DEF Hangs
<1>9. OnePort'
  <2>1. ASSUME NEW y \in resetting'
        PROVE  pc' = "resetting" /\ y \in Place /\ \E u : Serves(u, Scanned)' /\ y = <<u, port>>
    <3>1. y \in resetting /\ ~(y \in Place /\ y[1] \in U)
      BY <1>1, <2>1
    <3>2. PICK u : Serves(u, Scanned) /\ y = <<u, port>>
      BY <1>2, <3>1 DEF OnePort
    <3>3. pc = "resetting" /\ y \in Place
      BY <1>2, <3>1 DEF OnePort
    <3>4. u \notin U
      BY <3>1, <3>2, <3>3
    <3> QED
      BY <1>1, <1>5, <1>6, <3>2, <3>3, <3>4
  <2> QED
    BY <1>1, <1>5, <2>1 DEF OnePort
<1>10. Powered'
  <2>1. ASSUME pc \in Busy \ {"power"}, NEW u, NEW p \in Port, Serves(u, Scanned)', <<u, p>> \in Place
        PROVE  <<u, p>> \in powered'
    <3>1. Serves(u, Scanned) /\ (Scanned = Root \/ u \notin U)
      BY <1>5, <1>6, <2>1
    <3>2. u \notin U
      <4>1. U \subseteq Gadget
        BY UnderClosed DEF U
      <4> QED
        BY <3>1, <4>1, Names DEF Serves
    <3>3. <<u, p>> \in powered
      BY <1>2, <2>1, <3>1 DEF Powered
    <3> QED
      BY <1>1, <3>2, <3>3
  <2> QED
    BY <1>1, <2>1 DEF Powered
<1>11. \A n : Lost(n) => Lost(n)'
  BY <1>1, <1>5 DEF Lost
<1>12. Below(Root)' = Below(Root) /\ Below(Root) \subseteq Node
  <2>1. HubType
    BY DEF HubInv
  <2>2. Below(Root) \subseteq Node
    BY <2>1, BelowBlock, Names
  <2> QED
    BY <1>1, <2>2 DEF Below, Reach, Kids
<1>13. Placed'
  <2>1. ASSUME NEW n \in Below(Root), NEW p \in Port, NEW h \in Gadget,
               mine'[h] \in Dev, mine'[h] = node[n].slot[p], ~Lost(n)'
        PROVE  Hangs(h, n, p)'
    <3>1. h \notin U /\ mine[h] = mine'[h]
      BY <1>4, <2>1, Names
    <3>2. Hangs(h, n, p) /\ at[h] # Nowhere
      BY <1>2, <1>11, <2>1, <3>1, Names DEF Placed, Wired
    <3> QED
      BY <1>8, <1>12, <2>1, <3>1, <3>2
  <2> QED
    BY <1>1, <1>12, <2>1 DEF Placed
<1>14. Fresh'
  <2>1. PICK n, p : n = Scanned /\ p = port
    OBVIOUS
  <2>2. ASSUME new # NoDev, NEW h \in Gadget, mine'[h] = new PROVE Hangs(h, n, p)'
    <3>1. h \notin U /\ mine[h] = new
      BY <1>4, <2>2
    <3>2. Hangs(h, n, p) /\ at[h] # Nowhere
      BY <1>2, <2>1, <2>2, <3>1 DEF Fresh, Wired
    <3>3. n \in Node
      <4>1. pc # "main"
        BY <2>2 DEF HubInv, Making
      <4> QED
        BY <2>1, <4>1, ScannedHub
    <3> QED
      BY <1>8, <3>1, <3>2, <3>3
  <2>3. n = Scanned' /\ p = port'
    BY <1>1, <1>5, <2>1
  <2> QED
    BY <1>1, <2>2, <2>3 DEF Fresh
<1>15. Absent'
  <2>1. \A h \in Gadget : mine'[h] \in Dev => mine'[h] = mine[h]
    BY <1>4, Names
  <2> QED
    BY <1>1, <1>2, <1>5, <2>1 DEF Absent
<1> QED
  BY <1>7, <1>9, <1>10, <1>13, <1>14, <1>15 DEF WireInv

(* The gadget in the port that is being scanned answers to address 0: if   *)
(* it was a hub of the tree, it is the one that is about to be lost.       *)
LEMMA ResetEndsWire ==
  ASSUME HubInv, WireInv, NEW x \in Place, ResetEnds(x)
  PROVE  WireInv'
<1>1. /\ x \in resetting /\ resetting' = resetting \ {x}
      /\ mine' = [g \in Gadget |-> IF at[g] = x THEN "default" ELSE mine[g]]
      /\ UNCHANGED <<at, powered, node, pc, walk, port, new, cur>>
  BY DEF ResetEnds, treeVars, scanVars
<1>2. HubType /\ Hung /\ Making /\ Wired /\ OnePort /\ Powered /\ Placed /\ Absent
  BY DEF HubInv, WireInv
<1>3. PICK n0, u0, p0 : n0 = Scanned /\ Serves(u0, n0) /\ x = <<u0, p0>> /\ p0 = port
  BY <1>1, <1>2 DEF OnePort
<1>4. pc = "resetting" /\ new = NoDev /\ resetting' = {}
  <2>1. pc = "resetting" /\ new = NoDev
    BY <1>1, <1>2 DEF OnePort, Making
  <2>2. \A y \in resetting : y = x
    BY <1>2, <1>3, ServesOne DEF OnePort
  <2> QED
    BY <1>1, <2>1, <2>2
<1>5. n0 \in Node /\ p0 \in Port /\ n0 \in Below(Root) /\ Scanned' = n0
  BY <1>1, <1>3, <1>4, ScannedHub DEF Scanned
<1>6. /\ mine' \in [Gadget -> Dev \cup {NoDev, "default"}]
      /\ \A g \in Gadget : at[g] # x => mine'[g] = mine[g]
      /\ \A g \in Gadget : at[g] = x => mine'[g] = "default"
      /\ \A g \in Gadget : mine'[g] \in Dev => mine'[g] = mine[g] /\ at[g] # x
      /\ x # Nowhere
  BY <1>1, <1>2, Names, HubAssumption DEF Wired, Place, Gadget
<1>7. /\ \A u, n : Serves(u, n)' => Serves(u, n)
      /\ \A u, n : Serves(u, n) => Serves(u, n)' \/ (u \in Gadget /\ n \in Dev /\ at[u] = x)
  BY <1>6 DEF Serves
<1>8. Wired'
  <2>1. \A g, h \in Gadget : mine'[g] = mine'[h] /\ mine'[g] \in Dev => g = h
    BY <1>2, <1>6 DEF Wired
  <2>2. \A g \in Gadget : mine'[g] # NoDev => at[g] # Nowhere
    BY <1>2, <1>6 DEF Wired
  <2>3. \A g \in Gadget : mine'[g] \in Dev => node[mine'[g]].used
    BY <1>2, <1>6 DEF Wired
  <2> QED
    BY <1>1, <1>2, <1>6, <2>1, <2>2, <2>3 DEF Wired
<1>9. OnePort'
  BY <1>4 DEF OnePort
<1>10. Powered'
  BY <1>1, <1>2, <1>3, <1>5, <1>7 DEF Powered
<1>11. Below(Root)' = Below(Root) /\ Below(Root) \subseteq Node
  <2>1. Below(Root) \subseteq Node
    BY <1>2, BelowBlock, Names
  <2> QED
    BY <1>1, <2>1 DEF Below, Reach, Kids
<1>12. \A n : ~Lost(n)
  BY <1>1 DEF Lost
<1>13. Placed'
  <2>1. ASSUME NEW n \in Below(Root), NEW p \in Port, NEW g \in Gadget,
               mine'[g] \in Dev, mine'[g] = node[n].slot[p], ~Lost(n)'
        PROVE  Hangs(g, n, p)'
    <3>1. PICK u : Serves(u, n) /\ at[g] = <<u, p>>
      BY <1>2, <1>6, <1>12, <2>1 DEF Placed, Hangs
    <3>2. ASSUME u \in Gadget, n \in Dev, at[u] = x PROVE FALSE
      <4>1. n # Root /\ mine[u] = n
        BY <3>1, <3>2, Names DEF Serves
      <4>2. PICK m \in Below(Root) : \E q \in Port : node[m].slot[q] = n
        BY <1>2, <2>1, <4>1, HasParent
      <4>3. PICK q \in Port : node[m].slot[q] = n
        BY <4>2
      <4>4. PICK v : Serves(v, m) /\ at[u] = <<v, q>>
        BY <1>2, <1>12, <3>2, <4>1, <4>3 DEF Placed, Hangs
      <4>5. v = u0 /\ q = p0
        BY <1>3, <3>2, <4>4
      <4>6. m = n0
        BY <1>2, <1>3, <4>4, <4>5, ServesOne
      <4>7. n = node'[Scanned'].slot[port']
        BY <1>1, <1>3, <1>5, <4>3, <4>5, <4>6
      <4>8. Lost(n)'
        BY <1>1, <1>4, <4>7 DEF Lost
      <4> QED
        BY <2>1, <4>8
    <3>3. Serves(u, n)'
      BY <1>7, <3>1, <3>2
    <3> QED
      BY <1>1, <3>1, <3>3 DEF Hangs
  <2> QED
    BY <1>1, <1>11, <2>1 DEF Placed
<1>14. Fresh' /\ Absent'
  BY <1>1, <1>4 DEF Fresh, Absent
<1> QED
  BY <1>8, <1>9, <1>10, <1>13, <1>14 DEF WireInv

(* The gadget in the port gets the address of the new block.               *)
LEMMA CreateDeviceWire ==
  ASSUME HubInv, HubInv', WireInv, CreateDevice
  PROVE  WireInv'
<1>1. PICK d, n, p, x : d = new' /\ n = Scanned /\ p = port /\ x = PlaceOf(n, p)
  OBVIOUS
<1>2. /\ pc = "resetting" /\ pc' = "identify" /\ d \in Dev /\ ~node[d].used
      /\ node' = [node EXCEPT ![d] = [Blank EXCEPT !.used = TRUE]]
      /\ mine' = [g \in Gadget |-> IF mine[g] = "default" /\ Answers(n) /\ at[g] = x
                                   THEN d ELSE mine[g]]
      /\ UNCHANGED <<at, powered, resetting, walk, port>>
  <2>1. \A S : S # {} => (CHOOSE y \in S : TRUE) \in S
    OBVIOUS
  <2> QED
    BY <1>1, <2>1 DEF CreateDevice
<1>3. HubType /\ HubType' /\ Hung /\ Making /\ Wired /\ OnePort /\ Powered /\ Placed
  BY DEF HubInv, WireInv
<1>4. n \in Node /\ p \in Port /\ n \in Below(Root) /\ node[n].used /\ n # d /\ Scanned' = n
  BY <1>1, <1>2, ScannedHub DEF Scanned
<1>5. resetting = {}
  <2>1. ASSUME NEW y \in resetting PROVE FALSE
    <3>1. PICK u : Serves(u, n) /\ y = <<u, p>>
      BY <1>1, <1>3, <2>1 DEF OnePort
    <3>2. Answers(n) /\ x = y
      BY <1>1, <1>3, <1>4, <3>1, ServesOne DEF PlaceOf
    <3>3. Observed(n, p).rst
      BY <1>1, <2>1, <3>2 DEF Observed, Requested, PortSays
    <3> QED
      BY <1>1, <3>3 DEF CreateDevice
  <2> QED
    BY <2>1
<1>6. /\ \A m \in Node : m # d => node'[m] = node[m]
      /\ node'[d].used /\ \A q \in Port : node'[d].slot[q] = NoDev
  BY <1>2, <1>3, Names DEF HubType, Blank, NoSlots
<1>7. /\ \A g \in Gadget : mine[g] # d
      /\ \A g \in Gadget : mine'[g] = mine[g]
                           \/ (mine'[g] = d /\ mine[g] = "default" /\ Answers(n) /\ at[g] = x)
      /\ \A g \in Gadget : mine[g] \in Node => mine'[g] = mine[g]
      /\ mine' \in [Gadget -> Dev \cup {NoDev, "default"}]
  BY <1>2, <1>3, Names DEF Wired
<1>8. /\ \A u, m : m # d => (Serves(u, m)' <=> Serves(u, m))
  BY <1>7, Names DEF Serves
<1>9. Wired'
  <2>1. \A g \in Gadget : mine'[g] # NoDev => at[g] # Nowhere
    BY <1>3, <1>7, Names DEF Wired
  <2>2. \A g, h \in Gadget : mine'[g] = mine'[h] /\ mine'[g] \in Dev => g = h
    <3>1. ASSUME NEW g \in Gadget, NEW h \in Gadget, mine'[g] = mine'[h], mine'[g] \in Dev
          PROVE  g = h
      <4>1. CASE mine'[g] = d
        <5>1. at[g] = x /\ at[h] = x
          BY <1>7, <3>1, <4>1
        <5>2. at[g] # Nowhere
          BY <2>1, <3>1, Names
        <5> QED
          BY <1>3, <5>1, <5>2 DEF Wired
      <4>2. CASE mine'[g] # d
        BY <1>3, <1>7, <3>1, <4>2 DEF Wired
      <4> QED
        BY <4>1, <4>2
    <3> QED
      BY <3>1
  <2>3. \A g \in Gadget : mine'[g] \in Dev => node'[mine'[g]].used
    BY <1>3, <1>6, <1>7, Names DEF Wired
  <2> QED
    BY <1>2, <1>3, <1>7, <2>1, <2>2, <2>3 DEF Wired
<1>10. OnePort'
  BY <1>2, <1>5 DEF OnePort
<1>11. Powered'
  BY <1>1, <1>2, <1>3, <1>4, <1>8 DEF Powered, Busy
<1>12. \A m \in Below(Root)' : m \in Node /\ (m \in Below(Root) \/ m = d)
  <2>1. Below(Root)' \subseteq (Below(Root) \ {}) \cup {d}
    <3>1. \A y \in Node : y # d => Kids(y)' = Kids(y)
      BY <1>6 DEF Kids
    <3>2. Kids(d)' = {}
      BY <1>6 DEF Kids
    <3>3. Kids(d) = {}
      <4>1. d \in Node
        BY <1>2, Names
      <4>2. \A q \in Port : node[d].slot[q] = NoDev
        BY <1>2, <1>3, <4>1 DEF Hung
      <4> QED
        BY <4>2 DEF Kids
    <3>4. /\ \A y \in {} : Kids(y) \subseteq {}
          /\ \A y \in Node \ {} : Kids(y) \subseteq Kids(y)' \cup {}
          /\ \A y \in Node \ {} : Kids(y)' \subseteq (Kids(y) \ {}) \cup {d}
          /\ \A y \in {d} : Kids(y)' = {}
      BY <3>1, <3>2, <3>3
    <3>5. {} \in SUBSET Dev /\ {d} \in SUBSET Dev
      BY <1>2
    <3> QED
      BY <1>3, <3>4, <3>5, CutTree
  <2>2. Below(Root) \subseteq Node
    BY <1>3, BelowBlock, Names
  <2> QED
    BY <1>2, <2>1, <2>2, Names
<1>13. \A m : m # d /\ Lost(m) => Lost(m)'
  BY <1>1, <1>2, <1>4, <1>6 DEF Lost
<1>14. Placed'
  <2>1. ASSUME NEW m \in Below(Root)', NEW q \in Port, NEW g \in Gadget,
               mine'[g] \in Dev, mine'[g] = node'[m].slot[q], ~Lost(m)'
        PROVE  Hangs(g, m, q)'
    <3>1. m # d /\ m \in Below(Root) /\ m \in Node
      BY <1>6, <1>12, <2>1, Names
    <3>2. mine'[g] = node[m].slot[q]
      BY <1>6, <2>1, <3>1
    <3>3. mine'[g] # d
      BY <1>2, <1>3, <2>1, <3>1, <3>2, Names DEF Hung
    <3>4. mine[g] = mine'[g]
      BY <1>7, <3>3
    <3>5. Hangs(g, m, q)
      BY <1>3, <1>13, <2>1, <3>1, <3>2, <3>4 DEF Placed
    <3> QED
      BY <1>2, <1>8, <3>1, <3>5 DEF Hangs
  <2> QED
    BY <2>1 DEF Placed
<1>15. Fresh'
  <2>1. ASSUME NEW g \in Gadget, mine'[g] = d PROVE Hangs(g, n, p)'
    <3>1. PICK u : u = UnitOf(n)
      OBVIOUS
    <3>2. Answers(n) /\ at[g] = <<u, p>>
      BY <1>1, <1>7, <2>1, <3>1 DEF PlaceOf
    <3>3. Serves(u, n)
      BY <1>3, <1>4, <3>1, <3>2, ServesOne
    <3>4. Serves(u, n)' /\ at'[g] = <<u, p>>
      BY <1>2, <1>4, <1>8, <3>2, <3>3
    <3> QED
      BY <3>4 DEF Hangs
  <2> QED
    BY <1>1, <1>2, <1>4, <2>1 DEF Fresh
<1>16. Absent'
  BY <1>2 DEF Absent
<1> QED
  BY <1>9, <1>10, <1>11, <1>14, <1>15, <1>16 DEF WireInv

(* The new device gets its slot.                                           *)
LEMMA ConfigureWire ==
  ASSUME HubInv, WireInv, Configure
  PROVE  WireInv'
<1>1. /\ pc = "configure" /\ pc' \in {"status", "queue", "null_descr"} /\ new' = NoDev
      /\ UNCHANGED <<at, mine, powered, resetting, walk>>
  BY DEF Configure, NextPort, wireVars, portVars
<1>2. HubType /\ Hung /\ Making /\ Wired /\ OnePort /\ Powered /\ Placed /\ Fresh
  BY DEF HubInv, WireInv
<1>3. PICK d, n, q : d = new /\ n = Scanned /\ q = port
  OBVIOUS
<1>4. n \in Node /\ q \in Port /\ Scanned' = n /\ d \in Dev /\ d # NoDev
  BY <1>1, <1>2, <1>3, ScannedHub, Names DEF Scanned, Making, HubType
<1>5. /\ \A m \in Node : node'[m].used = node[m].used
      /\ \A m \in Node, p \in Port :
           node'[m].slot[p] = IF m = n /\ p = q THEN d ELSE node[m].slot[p]
      /\ \A m \in Below(Root)' : m = d \/ (m \in Below(Root) /\ m # node[n].slot[q])
      /\ HubType'
  BY <1>3, ConfigureInv DEF HubInv
<1>6. \A u, m : Serves(u, m)' <=> Serves(u, m)
  BY <1>1 DEF Serves
<1>7. Wired'
  BY <1>1, <1>2, <1>5, Names DEF Wired
<1>8. OnePort'
  BY <1>1, <1>2 DEF OnePort
<1>9. Powered'
  BY <1>1, <1>2, <1>3, <1>4, <1>6 DEF Powered, Busy
<1>10. Placed'
  <2>1. ASSUME NEW m \in Below(Root)', NEW p \in Port, NEW g \in Gadget,
               mine[g] \in Dev, mine[g] = node'[m].slot[p]
        PROVE  Hangs(g, m, p)
    <3>1. m \in Node
      <4>1. Below(Root) \subseteq Node
        BY <1>2, BelowBlock, Names
      <4> QED
        BY <1>4, <1>5, <2>1, <4>1, Names
    <3>2. CASE m = n /\ p = q
      BY <1>2, <1>3, <1>4, <1>5, <2>1, <3>1, <3>2 DEF Fresh
    <3>3. CASE ~(m = n /\ p = q)
      <4>1. mine[g] = node[m].slot[p]
        BY <1>5, <2>1, <3>1, <3>3
      <4>2. m # d
        BY <1>2, <1>3, <1>4, <2>1, <4>1, Names DEF Making
      <4>3. m \in Below(Root) /\ ~Lost(m)
        BY <1>3, <1>5, <2>1, <4>2 DEF Lost
      <4> QED
        BY <1>2, <2>1, <4>1, <4>3 DEF Placed
    <3> QED
      BY <3>2, <3>3
  <2>2. ASSUME NEW m, NEW p, NEW g, Hangs(g, m, p) PROVE Hangs(g, m, p)'
    BY <1>1, <1>6, <2>2 DEF Hangs
  <2> QED
    BY <1>1, <2>1, <2>2 DEF Placed
<1>11. Fresh' /\ Absent'
  BY <1>1 DEF Fresh, Absent
<1> QED
  BY <1>7, <1>8, <1>9, <1>10, <1>11 DEF WireInv

(* What hangs below a device that does not answer does not answer.         *)
LEMMA DoomedSilent ==
  ASSUME HubInv, WireInv, Remove
  PROVE  \A m \in Below(node[Scanned].slot[port]), g \in Gadget : mine[g] # m
<1>1. HubType /\ Hung /\ Wired /\ Placed /\ Absent
  BY DEF HubInv, WireInv
<1>2. PICK d, n, q : d = node[n].slot[q] /\ n = Scanned /\ q = port
  OBVIOUS
<1>3. pc = "remove" /\ d # NoDev
  BY <1>2 DEF Remove
<1>4. n \in Node /\ q \in Port /\ n \in Below(Root)
  BY <1>2, <1>3, ScannedHub
<1>5. d \in Dev /\ d \in Kids(n) /\ d \in Node
  BY <1>1, <1>2, <1>3, <1>4, KidsOfBlock, Names
<1>6. /\ \A y \in Below(Root) : Kids(y) \subseteq Below(Root)
      /\ \A y \in Below(d) : Kids(y) \subseteq Below(d)
      /\ Below(d) \subseteq Dev \cup {d}
  BY <1>1, <1>5, BelowBlock, Names
<1>7. Below(d) \subseteq Below(Root)
  BY <1>4, <1>5, <1>6, BelowLeast
<1> DEFINE S == {m \in Below(d) : \A g \in Gadget : mine[g] # m}
<1>8. d \in S
  BY <1>1, <1>2, <1>3, <1>5, BelowSelf DEF Absent
<1>9. ASSUME NEW y \in S, NEW z \in Kids(y) PROVE z \in S
  <2>1. y \in Below(d) /\ y \in Below(Root) /\ y \in Dev /\ z \in Below(d) /\ z \in Dev
    BY <1>5, <1>6, <1>7, <1>9
  <2>2. ASSUME NEW g \in Gadget, mine[g] = z PROVE FALSE
    <3>1. PICK p \in Port : node[y].slot[p] = z
      BY <1>1, <1>9, <2>1, KidsOfBlock, Names
    <3>2. Hangs(g, y, p)
      BY <1>1, <1>3, <2>1, <2>2, <3>1 DEF Placed, Lost
    <3>3. PICK u : Serves(u, y)
      BY <3>2 DEF Hangs
    <3>4. u \in Gadget /\ mine[u] = y
      BY <2>1, <3>3, Names DEF Serves
    <3> QED
      BY <1>9, <3>4
  <2> QED
    BY <2>1, <2>2
<1>10. Below(d) \subseteq S
  <2> HIDE DEF S
  <2> QED
    BY <1>8, <1>9, BelowLeast
<1> QED
  BY <1>2, <1>10

(* The devices that are taken away are those that do not answer.           *)
LEMMA RemoveWire ==
  ASSUME HubInv, WireInv, Remove
  PROVE  WireInv'
<1>1. /\ pc = "remove" /\ pc' \in {"status", "queue"}
      /\ UNCHANGED <<at, mine, powered, resetting, walk, new>>
  BY DEF Remove, NextPort, wireVars
<1>2. HubType /\ Hung /\ Making /\ Wired /\ OnePort /\ Powered /\ Placed
  BY DEF HubInv, WireInv
<1>3. PICK gone : gone = Below(node[Scanned].slot[port])
  OBVIOUS
<1>4. /\ \A m \in Node : m \notin gone => node'[m].used = node[m].used
      /\ \A m \in Node, p \in Port :
           node'[m].slot[p] = node[m].slot[p] \/ node'[m].slot[p] = NoDev
      /\ \A m \in Below(Root)' : m \in Below(Root)
      /\ HubType'
  BY <1>3, RemoveInv DEF HubInv
<1>5. \A m \in gone, g \in Gadget : mine[g] # m
  BY <1>3, DoomedSilent
<1>6. /\ \A u, m : Serves(u, m)' <=> Serves(u, m)
      /\ \A m, p, g : Hangs(g, m, p)' <=> Hangs(g, m, p)
      /\ Scanned' = Scanned
  BY <1>1 DEF Serves, Hangs, Scanned
<1>7. Wired'
  <2>1. \A g \in Gadget : mine[g] \in Dev => node'[mine[g]].used
    BY <1>2, <1>4, <1>5, Names DEF Wired
  <2> QED
    BY <1>1, <1>2, <2>1 DEF Wired
<1>8. OnePort'
  BY <1>1, <1>2 DEF OnePort
<1>9. Powered'
  BY <1>1, <1>2, <1>6 DEF Powered, Busy
<1>10. Placed'
  <2>1. ASSUME NEW m \in Below(Root)', NEW p \in Port, NEW g \in Gadget,
               mine[g] \in Dev, mine[g] = node'[m].slot[p]
        PROVE  Hangs(g, m, p)'
    <3>1. m \in Node /\ m \in Below(Root)
      <4>1. Below(Root) \subseteq Node
        BY <1>2, BelowBlock, Names
      <4> QED
        BY <1>4, <2>1, <4>1
    <3>2. mine[g] = node[m].slot[p]
      BY <1>4, <2>1, <3>1, Names
    <3>3. Hangs(g, m, p)
      BY <1>1, <1>2, <2>1, <3>1, <3>2 DEF Placed, Lost
    <3> QED
      BY <1>6, <3>3
  <2> QED
    BY <1>1, <2>1 DEF Placed
<1>11. Fresh' /\ Absent'
  BY <1>1, <1>2 DEF Fresh, Absent, Making
<1> QED
  BY <1>7, <1>8, <1>9, <1>10, <1>11 DEF WireInv

(* WireInv is inductive relative to HubInv.                                *)
LEMMA WireInit == Init => WireInv
<1>1. SUFFICES ASSUME Init PROVE WireInv
  OBVIOUS
<1>2. /\ at \in [Gadget -> {Nowhere}] /\ mine = [g \in Gadget |-> NoDev]
      /\ resetting = {} /\ pc = "main" /\ new = NoDev
  BY <1>1 DEF Init
<1>3. Wired
  BY <1>2, Names DEF Wired
<1>4. OnePort /\ Powered /\ Placed /\ Fresh /\ Absent
  BY <1>2, Names DEF OnePort, Powered, Placed, Fresh, Absent, Busy
<1> QED
  BY <1>3, <1>4 DEF WireInv

LEMMA WireStep ==
  ASSUME HubInv, WireInv, [Next]_vars
  PROVE  WireInv'
<1>1. HubInv' /\ HubType' /\ HubType /\ Making
  BY HubStep DEF HubInv
<1>2. ASSUME UNCHANGED <<at, mine, powered, resetting, walk, port, new, node, pc>>,
             pc = "clear" => cur' = cur
      PROVE  WireInv'
  BY <1>1, <1>2, SameWire
<1>3. CASE UNCHANGED vars \/ Undefined
  BY <1>2, <1>3 DEF vars, Undefined, wireVars, portVars, treeVars, scanVars
<1>4. CASE \E g \in Gadget, x \in Place : Plug(g, x)
  BY <1>4, PlugWire
<1>5. CASE \E g \in Gadget : Unplug(g)
  BY <1>5, UnplugWire
<1>6. CASE \E x \in Place : ResetEnds(x)
  BY <1>6, ResetEndsWire
<1>7. CASE Poll \/ \E n \in Node : HubReport(n)
  BY <1>2, <1>7 DEF Poll, HubReport, wireVars, portVars, treeVars, scanVars
<1>8. CASE StillResetting
  BY <1>2, <1>8 DEF StillResetting, wireVars, portVars, treeVars
<1>9. CASE RemoveNothing
  <2>1. /\ UNCHANGED <<at, mine, powered, resetting, node, new, walk, port, cur>>
        /\ pc = "remove" /\ pc' = "null_dev"
    BY <1>9 DEF RemoveNothing, wireVars, portVars, treeVars, scanVars
  <2>2. Powered' /\ Absent'
    <3>1. Scanned' = Scanned /\ \A u, n : Serves(u, n)' <=> Serves(u, n)
      BY <2>1 DEF Scanned, Serves
    <3>2. Powered
      BY DEF WireInv
    <3> QED
      BY <2>1, <3>1, <3>2 DEF Powered, Absent, Busy
  <2> QED
    BY <1>1, <2>1, <2>2, MovedWire
<1>10. CASE Identify
  <2>1. /\ UNCHANGED <<at, mine, powered, resetting, walk, port, new>>
        /\ pc = "identify" /\ pc' = "configure"
    BY <1>10 DEF Identify, wireVars, portVars, scanVars
  <2>2. PICK a, hub : node' = [node EXCEPT ![new].addr = a, ![new].hub = hub]
    BY <1>10 DEF Identify
  <2>3. \A n \in Node : node'[n].slot = node[n].slot /\ node'[n].used = node[n].used
    BY <1>1, <2>2 DEF HubType, Record
  <2> QED
    BY <1>1, <2>1, <2>3, SameWire
<1> QED
  BY <1>1, <1>3, <1>4, <1>5, <1>6, <1>7, <1>8, <1>9, <1>10, WalkWire, PowerOnWire,
     ReadStatusWire, ClearChangesWire, StartResetWire, CreateDeviceWire, ConfigureWire,
     RemoveWire DEF Next, Scan

(* However often a device is pulled out and another put in, the disconnect *)
(* branch of usbhub_scan_ports, which takes a whole subtree on the word of *)
(* one port, never takes a device that still answers to its address.       *)
THEOREM GoneRemoved == Spec => RemovesOnlyGone
<1>1. Init => HubInv /\ WireInv
  BY HubInit, WireInit
<1>2. HubInv /\ WireInv /\ [Next]_vars => (HubInv /\ WireInv)'
  BY HubStep, WireStep
<1>3. HubInv /\ WireInv /\ [Next]_vars
        => [\A d \in Dev : node[d].used /\ Answers(d) => node'[d].used]_vars
  <2>1. SUFFICES ASSUME HubInv, WireInv, [Next]_vars, NEW d \in Dev, node[d].used, Answers(d)
                 PROVE  node'[d].used
    OBVIOUS
  <2>2. d \in Node /\ HubType
    BY <2>1, Names DEF HubInv
  <2>3. CASE UNCHANGED node
    BY <2>1, <2>3
  <2>4. CASE Remove
    <3>1. d \notin Below(node[Scanned].slot[port])
      BY <2>1, <2>2, <2>4, DoomedSilent, Names DEF Answers
    <3> QED
      BY <2>1, <2>2, <2>4, <3>1, RemoveInv
  <2>5. CASE CreateDevice
    <3>1. PICK c : node' = [node EXCEPT ![c] = [Blank EXCEPT !.used = TRUE]]
      BY <2>5 DEF CreateDevice
    <3> QED
      BY <2>1, <2>2, <3>1 DEF HubType, Blank
  <2>6. CASE Identify
    <3>1. PICK a, hub : node' = [node EXCEPT ![new].addr = a, ![new].hub = hub]
      BY <2>6 DEF Identify
    <3> QED
      BY <2>1, <2>2, <3>1 DEF HubType, Record
  <2>7. CASE Configure
    BY <2>1, <2>2, <2>7, ConfigureInv
  <2> QED
    BY <2>1, <2>3, <2>4, <2>5, <2>6, <2>7
       DEF Next, Scan, vars, treeVars, Plug, Unplug, ResetEnds, Poll, HubReport, Daemon,
           Descend, Ascend, PowerOn, ReadStatus, ClearChanges, StartReset, StillResetting,
           RemoveNothing, QueueIntr, Undefined
<1> QED
  BY <1>1, <1>2, <1>3, PTL DEF Spec, RemovesOnlyGone

=============================================================================
