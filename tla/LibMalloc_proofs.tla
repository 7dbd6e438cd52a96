-------------------------- MODULE LibMalloc_proofs --------------------------
(***************************************************************************)
(* Proofs about the heap, for every pool, size and alignment.              *)
(***************************************************************************)
EXTENDS LibMalloc, TLAPS

(* The nodes lie one behind the other, in the order of their addresses.    *)
NodesApart ==
  \A a, b \in DOMAIN node : a < b => Finish(a) <= b

(* A piece of the program's lies in the memory of the node its back        *)
(* pointer names, and is the only one there.                               *)
Home(b) == back[b.ptr - 1]

Housed(b) ==
  /\ b.ptr - 1 \in DOMAIN back
  /\ Home(b) \in DOMAIN node
  /\ ~node[Home(b)].free
  /\ node[Home(b)].data = b.ptr
  /\ Data(Home(b)) <= b.ptr
  /\ b.ptr + b.len <= Finish(Home(b))

(* What is allocated is the program's.                                     *)
Used ==
  \A a \in DOMAIN node :
    ~node[a].free => \E b \in live : b.ptr = node[a].data

IInv ==
  /\ TypeOK
  /\ Consistent
  /\ NodesApart
  /\ Used
  /\ \A b \in live : Housed(b)
  /\ \A b, c \in live : b.ptr = c.ptr => b = c

(* No two free nodes are neighbours; while kmemcompact runs, none behind   *)
(* which its loop has gone in a pass that has joined nothing so far.       *)
Settled ==
  /\ pc = "idle" => \A a \in DOMAIN node : ~Joins(a)
  /\ pc = "compact" /\ ~compacted =>
       \A a \in DOMAIN node : m = Null \/ a < m => ~Joins(a)

-----------------------------------------------------------------------------
(* The arithmetic of kmalloc.                                              *)

LEMMA OffRange ==
  ASSUME NEW x \in Nat, NEW al \in Nat \ {0}
  PROVE  Off(x, al) \in 0 .. (al - 1)
  BY DEF Off

LEMMA WantedRange ==
  ASSUME NEW w \in Wanted
  PROVE  Words(w[1]) \in Nat \ {0} /\ Align(w[2]) \in Nat \ {0}
<1>1. w[1] \in Nat /\ w[2] \in Nat
  BY PoolAssumption
<1> QED
  BY <1>1 DEF Words, Align

(* What kmalloc takes from a node that fits lies inside it; and so does a  *)
(* node behind that, if enough is left over.                               *)
LEMMA FitFacts ==
  ASSUME NEW a \in Nat, NEW len \in Nat, NEW n \in Nat \ {0}, NEW al \in Nat \ {0},
         len >= RealSize(a, n, al)
  PROVE  /\ AlignUp(Data(a), al) \in Nat
         /\ Data(a) <= AlignUp(Data(a), al)
         /\ AlignUp(Data(a), al) + n <= Data(a) + len
         /\ len - RealSize(a, n, al) >= MinBlk
              => AlignUp(Data(a), al) + n + Header <= Data(a) + len
<1>1. Data(a) \in Nat
  BY DEF Data, Header
<1>2. Off(Data(a), al) \in 0 .. (al - 1)
  BY <1>1, OffRange
<1> DEFINE o == Off(Data(a), al)
<1>3. o \in 0 .. (al - 1)
  BY <1>2
<1>4. /\ AlignUp(Data(a), al) = IF o = 0 THEN Data(a) ELSE Data(a) + al - o
      /\ RealSize(a, n, al) = n + (IF o = 0 THEN 0 ELSE n + (al - o))
  BY DEF AlignUp, RealSize
<1> HIDE DEF o
<1> QED
  BY <1>1, <1>3, <1>4 DEF MinBlk, Header

-----------------------------------------------------------------------------
LEMMA InitInv == Init => IInv
<1> SUFFICES ASSUME Init PROVE IInv
  OBVIOUS
<1>1. DOMAIN node = {Base} /\ node[Base] = [next |-> Null, length |-> Size - Header,
                               free |-> TRUE, data |-> Data(Base)]
  BY DEF Init
<1>2. TypeOK
  <2>1. node \in [DOMAIN node -> [next : DOMAIN node \cup {Null}, length : Nat,
                               free : BOOLEAN, data : Nat]]
    BY <1>1, PoolAssumption DEF Init, Header, Data
  <2>2. DOMAIN back = {} /\ back \in [DOMAIN back -> Nat]
    BY DEF Init
  <2>3. Base \in DOMAIN node /\ DOMAIN node \subseteq Base .. End
    BY <1>1, PoolAssumption DEF End
  <2>4. /\ live \subseteq [ptr : Nat, len : Nat \ {0}, align : Nat \ {0}]
        /\ pc \in {"idle", "compact"} /\ m \in DOMAIN node \cup {Null}
        /\ compacted \in BOOLEAN
    BY DEF Init
  <2>5. DOMAIN back \subseteq Nat
    BY <2>2
  <2> QED
    BY <2>1, <2>2, <2>3, <2>4, <2>5 DEF TypeOK
<1>3. Consistent
  BY <1>1, PoolAssumption DEF Consistent, Finish, Data, Header, End, Null
<1>4. NodesApart
  BY <1>1, PoolAssumption DEF NodesApart
<1>5. Used
  BY <1>1 DEF Used
<1> QED
  BY <1>2, <1>3, <1>4, <1>5 DEF Init, IInv

(* Every node lies in the pool.                                            *)
LEMMA NodeInPool ==
  ASSUME TypeOK, Consistent, NEW a \in DOMAIN node
  PROVE  /\ a \in Nat /\ Base <= a
         /\ node[a].length \in Nat /\ node[a].data \in Nat
         /\ node[a].next \in DOMAIN node \cup {Null}
         /\ node[a].free \in BOOLEAN
         /\ Finish(a) \in Nat /\ Finish(a) <= End
         /\ Data(a) \in Nat /\ Data(a) = a + Header /\ Data(a) <= Finish(a)
<1>1. a \in Base .. End /\ Base \in Nat /\ End \in Nat
  BY PoolAssumption DEF TypeOK, End
<1>2. node[a] \in [next : DOMAIN node \cup {Null}, length : Nat,
                   free : BOOLEAN, data : Nat]
  BY DEF TypeOK
<1>3. Finish(a) = a + Header + node[a].length
  BY DEF Finish, Data
<1>4. Finish(a) <= End
  <2>1. CASE node[a].next = Null
    BY <2>1, <1>1 DEF Consistent
  <2>2. CASE node[a].next # Null
    <3>1. Finish(a) \in DOMAIN node
      BY <2>2, <1>2 DEF Consistent
    <3> QED
      BY <3>1, <1>1 DEF TypeOK
  <2> QED
    BY <2>1, <2>2
<1> QED
  BY <1>1, <1>2, <1>3, <1>4 DEF Data, Header

(* Pieces of different nodes are different nodes' memory, so nothing of    *)
(* the program's lies over anything else.                                  *)
LEMMA HousedApart == IInv => BlocksApart
<1> SUFFICES ASSUME IInv, NEW b \in live PROVE
      /\ Base <= b.ptr /\ b.ptr + b.len <= End
      /\ \A c \in live \ {b} : Apart(b.ptr, b.len, c.ptr, c.len)
      /\ \A a \in DOMAIN node : Apart(b.ptr, b.len, a, Header)
      /\ \A c \in live : Apart(b.ptr, b.len, c.ptr - 1, 1)
  BY DEF BlocksApart
<1> DEFINE h == Home(b)
<1>1. \A c \in live : /\ c.ptr \in Nat /\ c.len \in Nat \ {0}
                      /\ Home(c) \in DOMAIN node /\ node[Home(c)].data = c.ptr
                      /\ Data(Home(c)) <= c.ptr
                      /\ c.ptr + c.len <= Finish(Home(c))
  BY DEF IInv, TypeOK, Housed
<1>2. \A a \in DOMAIN node : /\ a \in Nat /\ Base <= a
                             /\ Finish(a) \in Nat /\ Finish(a) <= End
                             /\ Data(a) = a + Header /\ Data(a) <= Finish(a)
  BY NodeInPool DEF IInv
<1>3. \A a, c \in DOMAIN node : a < c => Finish(a) <= c
  BY DEF IInv, NodesApart
<1>4. Base \in Nat /\ End \in Nat
  BY PoolAssumption DEF End
<1>5. \A c \in live \ {b} : Home(c) # h
  BY <1>1 DEF IInv
<1>6. h \in DOMAIN node
  BY <1>1
<1> HIDE DEF h
<1>7. /\ b.ptr \in Nat /\ b.len \in Nat \ {0}
      /\ Data(h) <= b.ptr /\ b.ptr + b.len <= Finish(h)
  BY <1>1 DEF h
<1>8. Base <= b.ptr /\ b.ptr + b.len <= End
  BY <1>2, <1>4, <1>6, <1>7 DEF Header
<1>9. ASSUME NEW c \in live, c # b
      PROVE  Apart(b.ptr, b.len, c.ptr, c.len) /\ Apart(b.ptr, b.len, c.ptr - 1, 1)
  <2> DEFINE k == Home(c)
  <2>1. k \in DOMAIN node /\ k # h /\ c.ptr \in Nat /\ c.len \in Nat
        /\ Data(k) <= c.ptr /\ c.ptr + c.len <= Finish(k)
    BY <1>1, <1>5, <1>9
  <2> HIDE DEF k
  <2>2. k < h \/ h < k
    BY <1>2, <1>6, <2>1
  <2>3. CASE k < h
    BY <1>2, <1>3, <1>6, <1>7, <2>1, <2>3 DEF Apart, Header
  <2>4. CASE h < k
    BY <1>2, <1>3, <1>6, <1>7, <2>1, <2>4 DEF Apart, Header
  <2> QED
    BY <2>2, <2>3, <2>4
<1>10. Apart(b.ptr, b.len, b.ptr - 1, 1)
  BY <1>7 DEF Apart
<1>11. ASSUME NEW a \in DOMAIN node PROVE Apart(b.ptr, b.len, a, Header)
  <2>1. a < h \/ a = h \/ h < a
    BY <1>2, <1>6
  <2>2. CASE a < h
    BY <1>2, <1>3, <1>6, <1>7, <2>2 DEF Apart, Header
  <2>3. CASE a = h
    BY <1>2, <1>6, <1>7, <2>3 DEF Apart, Header
  <2>4. CASE h < a
    BY <1>2, <1>3, <1>6, <1>7, <2>4 DEF Apart, Header
  <2> QED
    BY <2>1, <2>2, <2>3, <2>4
<1> QED
  BY <1>8, <1>9, <1>10, <1>11

-----------------------------------------------------------------------------
(* Giving memory back makes a node free that no other piece lives in.      *)
LEMMA KfreeInv ==
  ASSUME IInv, NEW b \in live, Kfree(b)
  PROVE  IInv'
<1> DEFINE a == Home(b)
<1>1. /\ b.ptr \in Nat /\ a \in DOMAIN node /\ ~node[a].free
      /\ node[a].data = b.ptr /\ b.ptr - 1 \in DOMAIN back
  BY DEF IInv, Housed, TypeOK
<1>2. b.ptr \in Base .. (End - 1)
  <2>1. Base <= b.ptr /\ b.ptr + b.len <= End
    BY HousedApart DEF BlocksApart
  <2> QED
    BY <2>1, PoolAssumption DEF IInv, TypeOK, End
<1>3. /\ live' = live \ {b}
      /\ back' = [x \in DOMAIN back \ {b.ptr - 1} |-> back[x]]
      /\ node' = [node EXCEPT ![a].free = TRUE]
      /\ pc' = "compact" /\ m' = Base /\ compacted' = FALSE
  BY <1>1, <1>2 DEF Kfree, Home
<1> HIDE DEF a
<1>4. /\ DOMAIN node' = DOMAIN node
      /\ \A x \in DOMAIN node : /\ node'[x].next = node[x].next
                                /\ node'[x].length = node[x].length
                                /\ node'[x].data = node[x].data
                                /\ x # a => node'[x].free = node[x].free
      /\ node'[a].free
  BY <1>1, <1>3 DEF IInv, TypeOK
<1>5. \A x \in DOMAIN node : Finish(x)' = Finish(x) /\ Data(x)' = Data(x)
  BY <1>4 DEF Finish, Data
<1>6. TypeOK'
  <2>1. node' \in [DOMAIN node' -> [next : DOMAIN node' \cup {Null}, length : Nat,
                               free : BOOLEAN, data : Nat]]
    BY <1>1, <1>3, <1>4 DEF IInv, TypeOK
  <2>2. DOMAIN back' \subseteq Nat /\ back' \in [DOMAIN back' -> Nat]
    BY <1>3 DEF IInv, TypeOK
  <2> QED
    BY <1>3, <1>4, <2>1, <2>2 DEF IInv, TypeOK
(* Another allocated node keeps its back pointer, as its data are others.  *)
<1>7. ASSUME NEW x \in DOMAIN node, x # a, ~node[x].free
      PROVE  /\ node[x].data - 1 \in DOMAIN back'
             /\ back'[node[x].data - 1] = x
             /\ node[x].data # b.ptr
  <2>1. node[x].data - 1 \in DOMAIN back /\ back[node[x].data - 1] = x
    BY <1>7 DEF IInv, Consistent
  <2>2. node[x].data # b.ptr
    BY <1>7, <2>1 DEF Home, a
  <2>3. node[x].data \in Nat
    BY DEF IInv, TypeOK
  <2> QED
    BY <1>1, <1>3, <2>1, <2>2, <2>3
<1>8. Consistent'
  <2> SUFFICES ASSUME NEW x \in DOMAIN node
               PROVE  /\ Finish(x) = IF node[x].next = Null THEN End ELSE node[x].next
                      /\ node[x].data >= x
                      /\ ~node'[x].free => /\ node[x].data - 1 \in DOMAIN back'
                                           /\ back'[node[x].data - 1] = x
    BY <1>4, <1>5 DEF Consistent
  <2> QED
    BY <1>4, <1>7 DEF IInv, Consistent
<1>9. NodesApart'
  BY <1>4, <1>5 DEF IInv, NodesApart
<1>10. ASSUME NEW c \in live' PROVE Housed(c)'
  <2>1. c \in live /\ c # b /\ c.ptr # b.ptr /\ Housed(c)
        /\ c.ptr \in Nat
    BY <1>3 DEF IInv, TypeOK
  <2>2. c.ptr - 1 \in DOMAIN back' /\ back'[c.ptr - 1] = back[c.ptr - 1]
    BY <1>1, <1>3, <2>1 DEF Housed
  <2>3. Home(c) # a
    BY <1>1, <2>1 DEF Housed
  <2>4. Home(c)' = Home(c)
    BY <2>2 DEF Home
  <2> QED
    BY <1>4, <1>5, <2>1, <2>2, <2>3, <2>4 DEF Housed
<1>11. Used'
  <2> SUFFICES ASSUME NEW x \in DOMAIN node, ~node'[x].free
               PROVE  \E c \in live' : c.ptr = node'[x].data
    BY <1>4 DEF Used
  <2>1. x # a /\ ~node[x].free /\ node'[x].data = node[x].data
    BY <1>4
  <2>2. PICK c \in live : c.ptr = node[x].data
    BY <2>1 DEF IInv, Used
  <2>3. c # b
    BY <1>7, <2>1, <2>2
  <2>4. c \in live'
    BY <1>3, <2>3
  <2> QED
    BY <2>1, <2>2, <2>4
<1> QED
  BY <1>3, <1>6, <1>8, <1>9, <1>10, <1>11 DEF IInv

(* kmemcompact: only a free node disappears, into the one before it.       *)
LEMMA JoinNextInv ==
  ASSUME IInv, pc = "compact", m # Null, JoinNext, UNCHANGED <<back, live, pc>>,
         NEW k, NEW n, k = m, n = node[m].next
  PROVE  IInv'
<1>1. /\ k \in DOMAIN node /\ n \in DOMAIN node
      /\ node[k].free /\ node[n].free
      /\ n = Finish(k)
  <2>1. k \in DOMAIN node /\ n # Null /\ node[k].free /\ node[n].free
    BY DEF JoinNext, Joins, IInv, TypeOK
  <2>2. n \in DOMAIN node
    BY <2>1, NodeInPool DEF IInv
  <2> QED
    BY <2>1, <2>2 DEF IInv, Consistent
<1>2. /\ node' = [x \in DOMAIN node \ {n} |->
                    IF x = k THEN Joined(k) ELSE node[x]]
      /\ m' = node[n].next /\ compacted' = TRUE
  BY DEF JoinNext
<1>2a. Joined(k) = [next |-> node[n].next,
                   length |-> node[k].length + Header + node[n].length,
                   free |-> node[k].free, data |-> node[k].data]
  BY DEF Joined
<1>3. \A a \in DOMAIN node : /\ a \in Nat /\ Base <= a
                             /\ node[a].length \in Nat
                             /\ Finish(a) = a + Header + node[a].length
                             /\ Finish(a) \in Nat /\ Data(a) = a + Header
  BY NodeInPool DEF IInv, Finish, Data
<1>4. k < n
  BY <1>1, <1>3 DEF Header
<1>5. /\ DOMAIN node' = DOMAIN node \ {n}
      /\ \A x \in DOMAIN node' : x # k => node'[x] = node[x]
      /\ node'[k].next = node[n].next
      /\ node'[k].length = node[k].length + Header + node[n].length
      /\ node'[k].free = node[k].free /\ node'[k].data = node[k].data
  <2>1. k # n /\ k \in DOMAIN node \ {n}
    BY <1>1, <1>3, <1>4
  <2>2. node'[k] = Joined(k)
    BY <1>2, <2>1
  <2> QED
    BY <1>2, <1>2a, <2>2
<1>6. /\ \A x \in DOMAIN node' : x # k => Finish(x)' = Finish(x)
      /\ Finish(k)' = Finish(n)
      /\ \A x \in DOMAIN node' : Data(x)' = Data(x)
  <2>1. Finish(k)' = k + Header + (node[k].length + Header + node[n].length)
    BY <1>5 DEF Finish, Data
  <2>2. Finish(n) = n + Header + node[n].length /\ n = k + Header + node[k].length
    BY <1>1, <1>3
  <2> QED
    BY <1>1, <1>3, <1>5, <2>1, <2>2 DEF Finish, Data, Header
(* Nobody else points to the node that goes.                               *)
<1>7. \A x \in DOMAIN node : x # k => node[x].next # n
  <2> SUFFICES ASSUME NEW x \in DOMAIN node, x # k, node[x].next = n PROVE FALSE
    OBVIOUS
  <2>1. n # Null
    BY <1>1, <1>3, PoolAssumption DEF Null
  <2>2. Finish(x) = n
    BY <2>1 DEF IInv, Consistent
  <2>3. x < n
    BY <1>1, <1>3, <2>2 DEF Header
  <2>4. CASE x < k
    BY <1>1, <1>3, <1>4, <2>2, <2>4 DEF IInv, NodesApart
  <2>5. CASE k < x
    BY <1>1, <1>3, <2>3, <2>5 DEF IInv, NodesApart
  <2> QED
    BY <1>1, <1>3, <2>4, <2>5
<1>8. TypeOK'
  <2>1. node[n].next \in DOMAIN node' \cup {Null}
    <3>1. node[n].next \in DOMAIN node \cup {Null}
      BY <1>1 DEF IInv, TypeOK
    <3>2. node[n].next # n
      BY <1>1, <1>3, <1>4, <1>7
    <3> QED
      BY <1>5, <3>1, <3>2
  <2>2. ASSUME NEW x \in DOMAIN node'
        PROVE  node'[x] \in [next : DOMAIN node' \cup {Null}, length : Nat,
                             free : BOOLEAN, data : Nat]
    <3>1. node[x] \in [next : DOMAIN node \cup {Null}, length : Nat,
                       free : BOOLEAN, data : Nat]
      BY <1>5, <2>2 DEF IInv, TypeOK
    <3>2. CASE x # k
      BY <1>5, <1>7, <2>2, <3>1, <3>2
    <3>3. CASE x = k
      <4>1. node[k].length + Header + node[n].length \in Nat
        BY <1>1, <1>3 DEF Header
      <4> QED
        BY <1>1, <1>2, <1>2a, <1>4, <2>1, <3>1, <3>3, <4>1
    <3> QED
      BY <3>2, <3>3
  <2>3. node' \in [DOMAIN node' -> [next : DOMAIN node' \cup {Null}, length : Nat,
                               free : BOOLEAN, data : Nat]]
    BY <1>2, <1>5, <2>2
  <2>4. Base \in DOMAIN node' /\ DOMAIN node' \subseteq Base .. End
    BY <1>1, <1>3, <1>4, <1>5, PoolAssumption DEF IInv, TypeOK
  <2> QED
    BY <1>2, <2>1, <2>3, <2>4 DEF IInv, TypeOK
<1>9. Consistent'
  <2> SUFFICES ASSUME NEW x \in DOMAIN node'
               PROVE  /\ Finish(x)' = IF node'[x].next = Null THEN End ELSE node'[x].next
                      /\ node'[x].data >= x
                      /\ ~node'[x].free => /\ node'[x].data - 1 \in DOMAIN back
                                           /\ back[node'[x].data - 1] = x
    BY DEF Consistent
  <2>1. CASE x # k
    BY <1>5, <1>6, <2>1 DEF IInv, Consistent
  <2>2. CASE x = k
    BY <1>1, <1>5, <1>6, <2>2 DEF IInv, Consistent
  <2> QED
    BY <2>1, <2>2
<1>10. NodesApart'
  <2> SUFFICES ASSUME NEW x \in DOMAIN node', NEW y \in DOMAIN node', x < y
               PROVE  Finish(x)' <= y
    BY DEF NodesApart
  <2>1. CASE x # k
    BY <1>5, <1>6, <2>1 DEF IInv, NodesApart
  <2>2. CASE x = k
    <3>1. n <= y
      BY <1>1, <1>5, <2>2 DEF IInv, NodesApart
    <3>2. n < y
      BY <1>1, <1>3, <1>5, <3>1
    <3> QED
      BY <1>1, <1>5, <1>6, <2>2, <3>2 DEF IInv, NodesApart
  <2> QED
    BY <2>1, <2>2
<1>11. ASSUME NEW b \in live PROVE Housed(b)'
  <2>1. Housed(b) /\ Home(b) # k /\ Home(b) # n
    BY <1>1 DEF IInv, Housed
  <2>2. Home(b)' = Home(b) /\ Home(b) \in DOMAIN node'
    BY <1>5, <2>1 DEF Home, Housed
  <2> QED
    BY <1>5, <1>6, <2>1, <2>2 DEF Housed
<1>12. Used'
  <2> SUFFICES ASSUME NEW x \in DOMAIN node', ~node'[x].free
               PROVE  \E b \in live : b.ptr = node'[x].data
    BY DEF Used
  <2>1. x \in DOMAIN node /\ x # k /\ node'[x] = node[x]
    BY <1>1, <1>5
  <2> QED
    BY <2>1 DEF IInv, Used
<1> QED
  BY <1>8, <1>9, <1>10, <1>11, <1>12 DEF IInv

(* Steps that leave the nodes and the pieces as they are.                  *)
LEMMA SameNodes ==
  ASSUME IInv, UNCHANGED <<node, back, live>>, m' \in DOMAIN node \cup {Null},
         pc' \in {"idle", "compact"}, compacted' \in BOOLEAN
  PROVE  IInv'
<1>1. TypeOK'
  BY DEF IInv, TypeOK
<1>2. Consistent' /\ NodesApart' /\ Used'
  BY DEF IInv, Consistent, NodesApart, Used, Finish
<1>3. \A b \in live : Housed(b)'
  BY DEF IInv, Housed, Home, Finish
<1> QED
  BY <1>1, <1>2, <1>3 DEF IInv

LEMMA CompactInv ==
  ASSUME IInv, Compact \/ EndOfPass
  PROVE  IInv'
<1>1. CASE Compact /\ JoinNext
  BY <1>1, JoinNextInv DEF Compact
<1>2. CASE Compact /\ KeepNext
  <2>1. m \in DOMAIN node
    BY <1>2 DEF Compact, IInv, TypeOK
  <2>2. node[m].next \in DOMAIN node \cup {Null}
    BY <2>1, NodeInPool DEF IInv
  <2> QED
    BY <1>2, <2>2, SameNodes DEF Compact, KeepNext, IInv, TypeOK
<1>3. CASE EndOfPass
  BY <1>3, SameNodes DEF EndOfPass, IInv, TypeOK
<1> QED
  BY <1>1, <1>2, <1>3 DEF Compact

-----------------------------------------------------------------------------
(* kmalloc: whatever it does with the nodes, if they still tile the pool   *)
(* and node a, which was free, has the new piece in its memory, then every *)
(* piece has its own node.                                                 *)
Tiled ==
  /\ Base \in DOMAIN node /\ DOMAIN node \subseteq Base .. End
  /\ node \in [DOMAIN node -> [next : DOMAIN node \cup {Null}, length : Nat,
                               free : BOOLEAN, data : Nat]]
  /\ \A x \in DOMAIN node :
       /\ Finish(x) = IF node[x].next = Null THEN End ELSE node[x].next
       /\ node[x].data >= x
  /\ NodesApart

LEMMA PlaceInv ==
  ASSUME IInv, Tiled', NEW a \in DOMAIN node, NEW p \in Nat, NEW n \in Nat \ {0},
         NEW al \in Nat \ {0}, node[a].free,
         DOMAIN node \subseteq DOMAIN node',
         \A x \in DOMAIN node \ {a} : node'[x] = node[x],
         \A x \in DOMAIN node' \ DOMAIN node : node'[x].free,
         ~node'[a].free, node'[a].data = p,
         Data(a) <= p, p + n <= Finish(a), p + n <= Finish(a)',
         back' = [x \in DOMAIN back \cup {p - 1} |->
                    IF x = p - 1 THEN a ELSE back[x]],
         live' = live \cup {[ptr |-> p, len |-> n, align |-> al]},
         UNCHANGED <<pc, m, compacted>>
  PROVE  IInv'
<1> DEFINE blk == [ptr |-> p, len |-> n, align |-> al]
<1>1. \A x \in DOMAIN node : /\ x \in Nat /\ node[x].data \in Nat
                             /\ Finish(x) \in Nat
                             /\ Data(x) = x + Header /\ Data(x) <= Finish(x)
  BY NodeInPool DEF IInv
<1>2. \A x, y \in DOMAIN node : x < y => Finish(x) <= y
  BY DEF IInv, NodesApart
<1>3. \A x \in DOMAIN node \ {a} : Finish(x)' = Finish(x) /\ Data(x)' = Data(x)
  BY DEF Finish, Data
(* No other piece begins where the new one does.                           *)
<1>4. ASSUME NEW b \in live
      PROVE  /\ Housed(b) /\ b.ptr \in Nat /\ b.ptr # p
             /\ Home(b) \in DOMAIN node \ {a}
  <2> DEFINE h == Home(b)
  <2>1. Housed(b) /\ b.ptr \in Nat /\ b.len \in Nat \ {0}
    BY DEF IInv, TypeOK
  <2>2. h \in DOMAIN node /\ h # a /\ Data(h) <= b.ptr /\ b.ptr + b.len <= Finish(h)
    BY <2>1 DEF Housed
  <2> HIDE DEF h
  <2>3. h < a \/ a < h
    BY <1>1, <2>2
  <2>4. b.ptr # p
    <3>1. CASE h < a
      BY <1>1, <1>2, <2>1, <2>2, <3>1 DEF Header
    <3>2. CASE a < h
      BY <1>1, <1>2, <2>1, <2>2, <3>2 DEF Header
    <3> QED
      BY <2>3, <3>1, <3>2
  <2> QED
    BY <2>1, <2>2, <2>4 DEF h
<1>5. TypeOK'
  <2>1. DOMAIN back' \subseteq Nat /\ back' \in [DOMAIN back' -> Nat]
    <3>1. a \in Nat /\ p - 1 \in Nat
      BY <1>1 DEF Header
    <3> QED
      BY <3>1 DEF IInv, TypeOK
  <2>2. live' \subseteq [ptr : Nat, len : Nat \ {0}, align : Nat \ {0}]
    BY DEF IInv, TypeOK
  <2>3. m' \in DOMAIN node' \cup {Null}
    BY DEF IInv, TypeOK
  <2> QED
    BY <2>1, <2>2, <2>3 DEF IInv, TypeOK, Tiled
<1>6. ASSUME NEW x \in DOMAIN node', ~node'[x].free
      PROVE  /\ node'[x].data - 1 \in DOMAIN back'
             /\ back'[node'[x].data - 1] = x
  <2>1. CASE x = a
    BY <2>1
  <2>2. CASE x # a
    <3>1. x \in DOMAIN node /\ node'[x] = node[x]
      BY <1>6, <2>2
    <3>2. node[x].data - 1 \in DOMAIN back /\ back[node[x].data - 1] = x
      BY <1>6, <3>1 DEF IInv, Consistent
    <3>3. node[x].data # p
      BY <1>4, <1>6, <3>1 DEF IInv, Used
    <3> QED
      BY <1>1, <3>1, <3>2, <3>3
  <2> QED
    BY <2>1, <2>2
<1>7. Consistent'
  BY <1>6 DEF Tiled, Consistent
<1>8. ASSUME NEW b \in live' PROVE Housed(b)'
  <2>1. CASE b \in live
    <3>1. b.ptr - 1 \in DOMAIN back' /\ Home(b)' = Home(b)
      BY <1>4, <2>1 DEF Housed, Home
    <3> QED
      BY <1>3, <1>4, <2>1, <3>1 DEF Housed
  <2>2. CASE b = blk
    <3>1. b.ptr = p /\ b.len = n
      BY <2>2
    <3>2. p - 1 \in DOMAIN back' /\ Home(b)' = a
      BY <3>1 DEF Home
    <3>3. Data(a)' = Data(a)
      BY DEF Data
    <3> QED
      BY <3>1, <3>2, <3>3 DEF Housed
  <2> QED
    BY <2>1, <2>2
<1>9. \A b, c \in live' : b.ptr = c.ptr => b = c
  <2>1. blk.ptr = p
    OBVIOUS
  <2> QED
    BY <1>4, <2>1 DEF IInv
<1>10. Used'
  <2> SUFFICES ASSUME NEW x \in DOMAIN node', ~node'[x].free
               PROVE  \E b \in live' : b.ptr = node'[x].data
    BY DEF Used
  <2>1. CASE x = a
    <3>1. blk \in live' /\ blk.ptr = node'[x].data
      BY <2>1
    <3> QED
      BY <3>1
  <2>2. CASE x # a
    BY <2>2 DEF IInv, Used
  <2> QED
    BY <2>1, <2>2
<1> QED
  BY <1>5, <1>7, <1>8, <1>9, <1>10 DEF IInv, Tiled

LEMMA KmallocInv ==
  ASSUME IInv, Settled, NEW n \in Nat \ {0}, NEW al \in Nat \ {0}, Kmalloc(n, al)
  PROVE  IInv' /\ Settled'
<1>1. PICK a \in DOMAIN node :
        LET p == AlignUp(Data(a), al)
        IN  /\ Fits(a, n, al)
            /\ \A b \in DOMAIN node : Fits(b, n, al) => a <= b
            /\ back' = [x \in DOMAIN back \cup {p - 1} |->
                          IF x = p - 1 THEN a ELSE back[x]]
            /\ IF node[a].length - RealSize(a, n, al) < MinBlk
               THEN Take(a, p) ELSE Split(a, p, p + n)
            /\ live' = live \cup {[ptr |-> p, len |-> n, align |-> al]}
  BY DEF Kmalloc
<1>2. \A x \in DOMAIN node : /\ x \in Nat /\ Base <= x /\ x <= End
                             /\ node[x].length \in Nat /\ node[x].data \in Nat
                             /\ node[x].next \in DOMAIN node \cup {Null}
                             /\ Finish(x) = x + Header + node[x].length
                             /\ Finish(x) \in Nat /\ Finish(x) <= End
                             /\ Data(x) = x + Header /\ Data(x) <= Finish(x)
  BY NodeInPool, PoolAssumption DEF IInv, TypeOK, Finish, Data
<1>3. \A x, y \in DOMAIN node : x < y => Finish(x) <= y
  BY DEF IInv, NodesApart
<1> DEFINE p == AlignUp(Data(a), al)
           f == p + n
           len == node[a].length
<1>4. node[a].free /\ len >= RealSize(a, n, al)
  BY <1>1 DEF Fits
<1>5. /\ p \in Nat /\ Data(a) <= p /\ p + n <= Data(a) + len
      /\ len - RealSize(a, n, al) >= MinBlk => p + n + Header <= Data(a) + len
  BY <1>2, <1>4, FitFacts
<1>6. RealSize(a, n, al) \in Nat
  <2>1. Off(Data(a), al) \in 0 .. (al - 1)
    BY <1>2, OffRange DEF Header
  <2> QED
    BY <2>1 DEF RealSize
<1>7. UNCHANGED <<pc, m, compacted>>
  BY DEF Kmalloc
<1>8. /\ back' = [x \in DOMAIN back \cup {p - 1} |-> IF x = p - 1 THEN a ELSE back[x]]
      /\ live' = live \cup {[ptr |-> p, len |-> n, align |-> al]}
      /\ IF len - RealSize(a, n, al) < MinBlk THEN Take(a, p) ELSE Split(a, p, f)
  BY <1>1
<1>9. p + n <= Finish(a)
  BY <1>2, <1>5 DEF Finish
<1>9a. \A x \in DOMAIN node : ~Joins(x)
  BY DEF Kmalloc, Settled
<1> HIDE DEF p, f
<1>10. CASE Take(a, p)
  <2>1. /\ DOMAIN node' = DOMAIN node
        /\ \A x \in DOMAIN node \ {a} : node'[x] = node[x]
        /\ node'[a] = [next |-> node[a].next, length |-> node[a].length,
                       free |-> FALSE, data |-> p]
    BY <1>10 DEF Take, IInv, TypeOK
  <2>2. \A x \in DOMAIN node : Finish(x)' = Finish(x)
    BY <2>1 DEF Finish, Data
  <2>3. Tiled'
    <3>1. node' \in [DOMAIN node' -> [next : DOMAIN node' \cup {Null}, length : Nat,
                               free : BOOLEAN, data : Nat]]
      BY <1>2, <1>5, <1>10, <2>1 DEF Take, IInv, TypeOK
    <3>2. NodesApart'
      BY <1>3, <2>1, <2>2 DEF NodesApart
    <3>3. ASSUME NEW x \in DOMAIN node
          PROVE  /\ Finish(x)' = IF node'[x].next = Null THEN End ELSE node'[x].next
                 /\ node'[x].data >= x
      BY <1>2, <1>5, <2>1, <2>2 DEF IInv, Consistent, Header
    <3> QED
      BY <2>1, <3>1, <3>2, <3>3 DEF IInv, TypeOK, Tiled
  <2>4. node'[a].data = p /\ ~node'[a].free
    BY <2>1
  <2>5. IInv'
    BY <1>4, <1>5, <1>7, <1>8, <1>9, <2>1, <2>2, <2>3, <2>4, PlaceInv
  <2>6. ASSUME NEW x \in DOMAIN node', Joins(x)' PROVE FALSE
    <3>1. x # a /\ node'[x].next # a
      BY <2>4, <2>6 DEF Joins
    <3>2. node'[x] = node[x] /\ node[x].next \in DOMAIN node \cup {Null}
      BY <1>2, <2>1, <3>1
    <3> QED
      BY <1>9a, <2>1, <2>6, <3>1, <3>2 DEF Joins
  <2> QED
    BY <1>7, <2>5, <2>6 DEF Settled, Kmalloc
<1>11. CASE Split(a, p, f) /\ len - RealSize(a, n, al) >= MinBlk
  <2>1. f \in Nat /\ f = p + n /\ f + Header <= Finish(a) /\ Data(a) <= p
    BY <1>2, <1>5, <1>11 DEF f
  <2>2. a < f /\ Base <= f /\ f <= End
    <3>1. Base \in Nat /\ End \in Nat
      BY PoolAssumption DEF End
    <3> QED
      BY <1>2, <1>5, <2>1, <3>1 DEF Header
  <2>3. f \notin DOMAIN node /\ \A x \in DOMAIN node : x # a => x < a \/ Finish(a) <= x
    BY <1>2, <1>3, <2>1, <2>2 DEF Header
  <2>4. /\ DOMAIN node' = DOMAIN node \cup {f}
        /\ \A x \in DOMAIN node \ {a} : node'[x] = node[x]
        /\ node'[a] = [next |-> f, length |-> f - Data(a), free |-> FALSE, data |-> p]
        /\ node'[f] = [next |-> node[a].next, length |-> Rest(a, f),
                       free |-> TRUE, data |-> Data(f)]
    BY <1>11, <2>2, <2>3 DEF Split
  <2>5. /\ \A x \in DOMAIN node \ {a} : Finish(x)' = Finish(x)
        /\ Finish(a)' = f
        /\ Finish(f)' = Finish(a)
    <3>1. Finish(a)' = a + Header + (f - (a + Header))
      BY <2>4 DEF Finish, Data
    <3>2. Finish(f)' = f + Header + (Finish(a) - (f + Header))
      BY <2>4 DEF Finish, Data, Rest
    <3> QED
      BY <1>2, <2>1, <2>4, <3>1, <3>2 DEF Finish, Data, Header
  <2>6. Tiled'
    <3>1. node' \in [DOMAIN node' -> [next : DOMAIN node' \cup {Null}, length : Nat,
                               free : BOOLEAN, data : Nat]]
      <4>1. ASSUME NEW x \in DOMAIN node \ {a}
            PROVE  node'[x] \in [next : DOMAIN node' \cup {Null}, length : Nat,
                                 free : BOOLEAN, data : Nat]
        BY <2>4 DEF IInv, TypeOK
      <4>2. f - Data(a) \in Nat /\ Rest(a, f) \in Nat /\ Data(f) \in Nat
        BY <1>2, <1>5, <2>1, <2>2 DEF Rest, Data, Header
      <4>3. node[a].next \in DOMAIN node \cup {Null}
        BY <1>2
      <4>4. /\ node'[a] \in [next : DOMAIN node' \cup {Null}, length : Nat,
                             free : BOOLEAN, data : Nat]
            /\ node'[f] \in [next : DOMAIN node' \cup {Null}, length : Nat,
                             free : BOOLEAN, data : Nat]
        BY <1>5, <2>4, <4>2, <4>3
      <4>5. node' = [x \in DOMAIN node' |-> node'[x]]
        BY <1>11 DEF Split
      <4> QED
        BY <2>4, <4>1, <4>4, <4>5
    <3>2. NodesApart'
      <4> SUFFICES ASSUME NEW x \in DOMAIN node', NEW y \in DOMAIN node', x < y
                   PROVE  Finish(x)' <= y
        BY DEF NodesApart
      <4>1. CASE x = f
        BY <1>2, <2>1, <2>2, <2>3, <2>4, <2>5, <4>1
      <4>2. CASE x = a
        BY <1>2, <2>1, <2>2, <2>3, <2>4, <2>5, <4>2 DEF Header
      <4>3. CASE x \in DOMAIN node \ {a} /\ y = f
        BY <1>2, <1>3, <2>1, <2>2, <2>3, <2>5, <4>3 DEF Header
      <4>4. CASE x \in DOMAIN node \ {a} /\ y # f
        BY <1>3, <2>4, <2>5, <4>4
      <4> QED
        BY <2>4, <4>1, <4>2, <4>3, <4>4
    <3>3. ASSUME NEW x \in DOMAIN node'
          PROVE  /\ Finish(x)' = IF node'[x].next = Null THEN End ELSE node'[x].next
                 /\ node'[x].data >= x
      <4>1. CASE x = f
        BY <1>2, <2>1, <2>4, <2>5, <4>1 DEF IInv, Consistent, Data, Header
      <4>2. CASE x = a
        <5>1. Finish(a)' = f /\ node'[a].next = f /\ node'[a].data = p
          BY <2>4, <2>5
        <5>2. f # Null
          BY <2>1, <2>2, PoolAssumption DEF Null
        <5>3. p >= a
          BY <1>2, <1>5 DEF Header
        <5> QED
          BY <4>2, <5>1, <5>2, <5>3
      <4>3. CASE x \in DOMAIN node \ {a}
        BY <2>4, <2>5, <4>3 DEF IInv, Consistent
      <4> QED
        BY <2>4, <4>1, <4>2, <4>3
    <3>4. Base \in DOMAIN node' /\ DOMAIN node' \subseteq Base .. End
      BY <2>1, <2>2, <2>4, PoolAssumption DEF IInv, TypeOK, End
    <3> QED
      BY <3>1, <3>2, <3>3, <3>4 DEF Tiled
  <2>7. /\ node'[a].data = p /\ ~node'[a].free
        /\ \A x \in DOMAIN node' \ DOMAIN node : node'[x].free
        /\ p + n <= Finish(a)'
    BY <2>1, <2>4, <2>5
  <2>8. IInv'
    BY <1>4, <1>5, <1>7, <1>8, <1>9, <2>4, <2>6, <2>7, PlaceInv
  <2>9. ASSUME NEW x \in DOMAIN node', Joins(x)' PROVE FALSE
    <3>1. x # a /\ node'[x].next # a
      BY <2>4, <2>9 DEF Joins
    <3>2. CASE x = f
      <4>1. node[a].next # Null /\ node[a].next \in DOMAIN node \ {a}
        BY <1>2, <2>4, <2>9, <3>1, <3>2 DEF Joins
      <4>2. node'[node[a].next].free
        BY <2>4, <2>9, <3>2 DEF Joins
      <4> QED
        BY <1>4, <1>9a, <2>4, <4>1, <4>2 DEF Joins
    <3>3. CASE x # f
      <4>1. /\ x \in DOMAIN node /\ node'[x] = node[x]
            /\ node[x].next \in DOMAIN node \cup {Null}
        BY <1>2, <2>4, <3>1, <3>3
      <4> QED
        BY <1>9a, <2>4, <2>9, <3>1, <4>1 DEF Joins
    <3> QED
      BY <3>2, <3>3
  <2> QED
    BY <1>7, <2>8, <2>9 DEF Settled, Kmalloc
<1> QED
  BY <1>2, <1>6, <1>8, <1>10, <1>11 DEF MinBlk

-----------------------------------------------------------------------------
(* The other steps leave no two free neighbours behind them either.        *)
LEMMA SettledKept ==
  ASSUME IInv, Settled, (\E b \in live : Kfree(b)) \/ Compact \/ EndOfPass
  PROVE  Settled'
<1>1. ASSUME NEW b \in live, Kfree(b) PROVE Settled'
  <2>1. IInv' /\ TypeOK'
    BY <1>1, KfreeInv DEF IInv
  <2>2. pc' = "compact" /\ m' = Base /\ compacted' = FALSE
    <3>1. Housed(b) /\ b.ptr \in Nat /\ b.len \in Nat \ {0}
      BY DEF IInv, TypeOK
    <3>2. Base <= b.ptr /\ b.ptr + b.len <= End
      BY HousedApart DEF BlocksApart
    <3>3. b.ptr \in Base .. (End - 1)
      BY <3>1, <3>2, PoolAssumption DEF End
    <3> QED
      BY <1>1, <3>1, <3>3 DEF Kfree, Housed, Home
  <2>3. \A x \in DOMAIN node' : ~(x < Base) /\ m' # Null
    BY <2>1, <2>2, PoolAssumption DEF TypeOK, Null, End
  <2> QED
    BY <2>2, <2>3 DEF Settled
<1>2. CASE Compact /\ JoinNext
  BY <1>2 DEF Compact, JoinNext, Settled
<1>3. CASE Compact /\ KeepNext
  <2>1. /\ UNCHANGED <<node, pc, compacted>> /\ pc = "compact"
        /\ m \in DOMAIN node /\ ~Joins(m) /\ m' = node[m].next
    BY <1>3 DEF Compact, KeepNext, IInv, TypeOK
  <2>2. ASSUME ~compacted, NEW x \in DOMAIN node, m' = Null \/ x < m'
        PROVE  ~Joins(x)
    <3>1. CASE x < m
      BY <2>1, <2>2, <3>1 DEF Settled
    <3>2. CASE m < x
      <4>1. Finish(m) <= x
        BY <2>1, <3>2 DEF IInv, NodesApart
      <4>2. Finish(m) = IF m' = Null THEN End ELSE m'
        BY <2>1 DEF IInv, Consistent
      <4>3. Finish(x) <= End /\ x < Finish(x) /\ x \in Nat /\ Finish(x) \in Nat
        BY NodeInPool DEF IInv, Header
      <4>4. m' = Null \/ m' \in Nat
        BY <2>1, NodeInPool DEF IInv
      <4> QED
        BY <2>2, <4>1, <4>2, <4>3, <4>4, PoolAssumption DEF End
    <3>3. x \in Nat /\ m \in Nat
      BY <2>1, NodeInPool DEF IInv
    <3> QED
      BY <2>1, <3>1, <3>2, <3>3
  <2>3. \A x \in DOMAIN node : Joins(x)' = Joins(x)
    BY <2>1 DEF Joins
  <2> QED
    BY <2>1, <2>2, <2>3 DEF Settled
<1>4. CASE EndOfPass
  <2>1. UNCHANGED node /\ pc = "compact" /\ m = Null
    BY <1>4 DEF EndOfPass
  <2>2. \A x \in DOMAIN node : Joins(x)' = Joins(x) /\ ~(x < Base)
    BY <2>1, PoolAssumption DEF Joins, IInv, TypeOK, End
  <2>3. CASE compacted
    BY <1>4, <2>1, <2>2, <2>3, PoolAssumption DEF EndOfPass, Settled, Null
  <2>4. CASE ~compacted
    BY <1>4, <2>1, <2>2, <2>4 DEF EndOfPass, Settled
  <2> QED
    BY <2>3, <2>4 DEF IInv, TypeOK
<1> QED
  BY <1>1, <1>2, <1>3, <1>4 DEF Compact

LEMMA Inductive == Spec => [](IInv /\ Settled)
<1>1. Init => IInv /\ Settled
  <2>1. Init => Settled
    BY DEF Init, Settled, Joins
  <2> QED
    BY <2>1, InitInv
<1>2. IInv /\ Settled /\ [Next]_vars => IInv' /\ Settled'
  <2> SUFFICES ASSUME IInv, Settled, [Next]_vars PROVE IInv' /\ Settled'
    OBVIOUS
  <2>1. ASSUME NEW w \in Wanted, Kmalloc(Words(w[1]), Align(w[2]))
        PROVE  IInv' /\ Settled'
    BY <2>1, WantedRange, KmallocInv
  <2>2. ASSUME NEW b \in live, Kfree(b) PROVE IInv' /\ Settled'
    BY <2>2, KfreeInv, SettledKept
  <2>3. CASE Compact \/ EndOfPass
    BY <2>3, CompactInv, SettledKept
  <2>4. CASE UNCHANGED vars
    <3>1. UNCHANGED <<node, back, live>> /\ UNCHANGED <<pc, m, compacted>>
      BY <2>4 DEF vars
    <3>2. IInv'
      BY <3>1, SameNodes DEF IInv, TypeOK
    <3>3. Settled'
      BY <3>1 DEF Settled, Joins
    <3> QED
      BY <3>2, <3>3
  <2> QED
    BY <2>1, <2>2, <2>3, <2>4 DEF Next
<1> QED
  BY <1>1, <1>2, PTL DEF Spec

-----------------------------------------------------------------------------
(* The variables of the heap keep their types, and kmemcompact never       *)
(* stands on a node that it has joined to another.                         *)
THEOREM HeapTypeCorrect == Spec => []TypeOK
<1>1. IInv /\ Settled => TypeOK
  BY DEF IInv
<1> QED
  BY <1>1, Inductive, PTL

(* Whatever sizes and alignments kmalloc is asked for, kmemchk would find  *)
(* "pool is consistent" after every step of every call.                    *)
THEOREM HeapConsistent == Spec => []Consistent
<1>1. IInv /\ Settled => Consistent
  BY DEF IInv
<1> QED
  BY <1>1, Inductive, PTL

(* What kmalloc has handed out is in the pool, and the program cannot      *)
(* write to two pieces or to a header or a back pointer through it.        *)
THEOREM PiecesApart == Spec => []BlocksApart
<1>1. IInv /\ Settled => BlocksApart
  BY HousedApart
<1> QED
  BY <1>1, Inductive, PTL

(* After each call every node is free or in use, and kmemcompact has left  *)
(* no two free ones next to each other.                                    *)
THEOREM HeapNothingLost == Spec => []NothingLost
<1>1. IInv /\ Settled => NothingLost
  BY DEF IInv, Settled, Used, NothingLost
<1> QED
  BY <1>1, Inductive, PTL

-----------------------------------------------------------------------------
LEMMA AlignUpAligns ==
  ASSUME NEW x \in Nat, NEW al \in Nat \ {0}
  PROVE  AlignUp(x, al) % al = 0
<1>1. (x + al - (x % al)) % al = 0
  BY SMTT(60)
<1>2. CASE x % al = 0
  BY <1>2, Zenon DEF AlignUp, Off
<1>3. CASE x % al # 0
  <2>1. AlignUp(x, al) = x + al - (x % al)
    BY <1>3 DEF AlignUp, Off
  <2> QED
    BY <1>1, <2>1, Zenon
<1> QED
  BY <1>2, <1>3

(* kmalloc returns memory aligned as it was asked to (for a power of two,  *)
(* its masks are the remainders of the model): ohci.c relies on it.        *)
THEOREM PiecesAligned == Spec => []Aligned
<1>1. Init => Aligned
  BY DEF Init, Aligned
<1>2. IInv /\ Aligned /\ [Next]_vars => Aligned'
  <2> SUFFICES ASSUME IInv, Aligned, [Next]_vars PROVE Aligned'
    OBVIOUS
  <2>1. ASSUME NEW w \in Wanted, Kmalloc(Words(w[1]), Align(w[2])) PROVE Aligned'
    <3> DEFINE n == Words(w[1])
               al == Align(w[2])
    <3>1. n \in Nat \ {0} /\ al \in Nat \ {0}
      BY WantedRange
    <3> HIDE DEF n, al
    <3>2. PICK a \in DOMAIN node :
            live' = live \cup {[ptr |-> AlignUp(Data(a), al), len |-> n, align |-> al]}
      BY <2>1 DEF Kmalloc, n, al
    <3>3. AlignUp(Data(a), al) % al = 0
      BY <3>1, NodeInPool, AlignUpAligns DEF IInv
    <3> QED
      BY <3>2, <3>3 DEF Aligned
  <2>2. CASE (\E b \in live : Kfree(b)) \/ Compact \/ EndOfPass \/ UNCHANGED vars
    <3>1. live' \subseteq live
      BY <2>2 DEF Kfree, Compact, EndOfPass, vars
    <3> QED
      BY <3>1 DEF Aligned
  <2> QED
    BY <2>1, <2>2 DEF Next
<1>3. IInv /\ Settled => IInv
  OBVIOUS
<1> QED
  BY <1>1, <1>2, Inductive, PTL DEF Spec
=============================================================================
