----------------------------- MODULE LibMalloc -----------------------------
(***************************************************************************)
(* The heap of the USB stack: libxenon/drivers/nocfe/lib_malloc.c.         *)
(*                                                                         *)
(* Addresses and lengths count words of 4 bytes, the size of a pointer.    *)
(* The pool is tiled with memnodes, each a header of six words and the     *)
(* memory behind it.  The word just before what kmalloc hands out points   *)
(* back to the header: the two lie apart when the memory had to be aligned.*)
(* A call runs to its end on one thread; kmemcompact is modelled one turn  *)
(* of its loop at a time.                                                  *)
(***************************************************************************)
EXTENDS Integers, FiniteSets

CONSTANTS
  Base,        \* the address of the pool, pool->base
  Size,        \* its length
  Wanted       \* calls the program makes: pairs of a size and an alignment

Header == 6    \* sizeof(memnode_t)
MinBlk == 16   \* MINBLKSIZE
Null == 0
End == Base + Size

ASSUME PoolAssumption ==
  /\ Base \in Nat \ {0}
  /\ Size \in Nat /\ Size > Header
  /\ Wanted \subseteq Nat \X Nat

VARIABLES
  node,        \* the sealed memnodes: those on the list that starts at Base
  back,        \* the back pointers in use, by the address they are stored at
  live,        \* what the program has got and not given back
  pc,          \* whether kmemcompact is running
  m,           \* where it is in the list
  compacted    \* whether it has joined nodes since it last began

vars == <<node, back, live, pc, m, compacted>>

Data(a) == a + Header                 \* memnode_data
Finish(a) == Data(a) + node[a].length \* the first address behind node a

(* kmem_init and kmeminit.                                                 *)
Init ==
  /\ node = [a \in {Base} |-> [next |-> Null, length |-> Size - Header,
                               free |-> TRUE, data |-> Data(Base)]]
  /\ back = [x \in {} |-> Null]
  /\ live = {}
  /\ pc = "idle" /\ m = Null /\ compacted = FALSE

-----------------------------------------------------------------------------
(* kmalloc.                                                                *)

(* The sizes and alignments it is called with are in bytes.                *)
Words(size) == IF size = 0 THEN 1 ELSE (size + 3) \div 4
Align(align) == IF align < 4 THEN 2 ELSE align \div 4

(* How far memory at x is from being aligned, and the next place that is.  *)
Off(x, al) == x % al

(* Mutation: the low bits stay. *)
AlignUp_Unmasked(x, al) == IF Off(x, al) = 0 THEN x ELSE x + al

AlignUp(x, al) == IF Off(x, al) = 0 THEN x ELSE x + al - Off(x, al)

(* Mutation: the room that aligning takes is forgotten. *)
RealSize_NoExtra(a, n, al) == n

(* realsize: more than needed, if the memory of node a is not aligned.     *)
RealSize(a, n, al) ==
  n + (IF Off(Data(a), al) = 0 THEN 0 ELSE n + (al - Off(Data(a), al)))

Fits(a, n, al) == node[a].free /\ node[a].length >= RealSize(a, n, al)

(* Mutation: the header of the new node is not counted. *)
Rest_NoHeader(a, new) == Finish(a) - new

(* What is left of node a when a node is put at address new.               *)
Rest(a, new) == Finish(a) - Data(new)

(* The node's memory goes to the program as a whole ...                    *)
Take(a, p) ==
  node' = [node EXCEPT ![a] = [next |-> node[a].next, length |-> node[a].length,
                               free |-> FALSE, data |-> p]]

(* ... or the part behind what it wants becomes a node of its own.         *)
Split(a, p, new) ==
  node' = [x \in DOMAIN node \cup {new} |->
             IF x = a THEN [next |-> new, length |-> new - Data(a),
                            free |-> FALSE, data |-> p]
             ELSE IF x = new THEN [next |-> node[a].next,
                                   length |-> Rest(a, new),
                                   free |-> TRUE, data |-> Data(new)]
             ELSE node[x]]

(* The first node with room enough is used, at address a.  With no such    *)
(* node the result is NULL and nothing changes.                            *)
Kmalloc(n, al) ==
  /\ pc = "idle"
  /\ \E a \in DOMAIN node :
       LET p == AlignUp(Data(a), al)
       IN  /\ Fits(a, n, al)
           /\ \A b \in DOMAIN node : Fits(b, n, al) => a <= b
           /\ back' = [x \in DOMAIN back \cup {p - 1} |->
                         IF x = p - 1 THEN a ELSE back[x]]
           /\ IF node[a].length - RealSize(a, n, al) < MinBlk
              THEN Take(a, p) ELSE Split(a, p, p + n)
           /\ live' = live \cup {[ptr |-> p, len |-> n, align |-> al]}
  /\ UNCHANGED <<pc, m, compacted>>

-----------------------------------------------------------------------------
(* kfree, of something kmalloc returned.  Its back pointer stays where it  *)
(* is, but nobody reads it again.                                          *)
Kfree(b) ==
  LET a == back[b.ptr - 1]
  IN  /\ pc = "idle"
      /\ live' = live \ {b}
      /\ back' = [x \in DOMAIN back \ {b.ptr - 1} |-> back[x]]
      /\ IF b.ptr \in Base .. (End - 1) /\ a \in DOMAIN node
         THEN /\ node' = [node EXCEPT ![a].free = TRUE]
              /\ pc' = "compact" /\ m' = Base /\ compacted' = FALSE
         ELSE UNCHANGED <<node, pc, m, compacted>>

-----------------------------------------------------------------------------
(* kmemcompact.                                                            *)

(* Node a and the one behind it are free.                                  *)
Joins(a) ==
  LET n == node[a].next
  IN  n # Null /\ node[a].free /\ node[n].free

(* What node a is once it has taken in the node behind it.                 *)
Joined(a) ==
  LET n == node[a].next
  IN  [next |-> node[n].next,
       length |-> node[a].length + Header + node[n].length,
       free |-> node[a].free, data |-> node[a].data]

(* Mutation: the loop goes on with the node that was joined. *)
JoinNext_Lingers ==
  LET n == node[m].next
  IN  /\ Joins(m)
      /\ node' = [x \in DOMAIN node \ {n} |->
                    IF x = m THEN Joined(m) ELSE node[x]]
      /\ m' = n
      /\ compacted' = TRUE

(* The node behind m becomes a part of it and loses its seal; the loop     *)
(* goes on with the one behind that.                                       *)
JoinNext ==
  LET n == node[m].next
  IN  /\ Joins(m)
      /\ node' = [x \in DOMAIN node \ {n} |->
                    IF x = m THEN Joined(m) ELSE node[x]]
      /\ m' = node[n].next
      /\ compacted' = TRUE

KeepNext ==
  /\ ~Joins(m)
  /\ m' = node[m].next
  /\ UNCHANGED <<node, compacted>>

Compact ==
  /\ pc = "compact" /\ m # Null
  /\ JoinNext \/ KeepNext
  /\ UNCHANGED <<back, live, pc>>

(* Mutation: one pass is taken to be enough. *)
EndOfPass_Last ==
  /\ pc = "compact" /\ m = Null
  /\ pc' = "idle"
  /\ UNCHANGED <<node, back, live, m, compacted>>

(* At the end of the list it begins anew if it has joined anything.        *)
EndOfPass ==
  /\ pc = "compact" /\ m = Null
  /\ IF compacted THEN m' = Base /\ compacted' = FALSE /\ UNCHANGED pc
     ELSE pc' = "idle" /\ UNCHANGED <<m, compacted>>
  /\ UNCHANGED <<node, back, live>>

-----------------------------------------------------------------------------
Next ==
  \/ \E w \in Wanted : Kmalloc(Words(w[1]), Align(w[2]))
  \/ \E b \in live : Kfree(b)
  \/ Compact \/ EndOfPass

Spec == Init /\ [][Next]_vars

-----------------------------------------------------------------------------
(* Properties.                                                             *)

(* Types of all variables; the loop of kmemcompact stands on a node of the *)
(* list or at its end.                                                     *)
TypeOK ==
  /\ Base \in DOMAIN node /\ DOMAIN node \subseteq Base .. End
  /\ node \in [DOMAIN node -> [next : DOMAIN node \cup {Null}, length : Nat,
                               free : BOOLEAN, data : Nat]]
  /\ DOMAIN back \subseteq Nat /\ back \in [DOMAIN back -> Nat]
  /\ live \subseteq [ptr : Nat, len : Nat \ {0}, align : Nat \ {0}]
  /\ pc \in {"idle", "compact"}
  /\ m \in DOMAIN node \cup {Null}
  /\ compacted \in BOOLEAN

(* What kmemchk checks, "pool is consistent": each node ends where the     *)
(* next one begins, the last one at the end of the pool, and what is       *)
(* allocated points back to its node.                                      *)
Consistent ==
  \A a \in DOMAIN node :
    /\ Finish(a) = IF node[a].next = Null THEN End ELSE node[a].next
    /\ node[a].data >= a
    /\ ~node[a].free => /\ node[a].data - 1 \in DOMAIN back
                        /\ back[node[a].data - 1] = a

(* What the program holds lies in the pool, aligned as it was asked for,   *)
(* with no two of its pieces over each other or over a word of the heap's  *)
(* own: a header, or the back pointer of a piece.                          *)
Apart(x, k, y, l) == x + k <= y \/ y + l <= x

BlocksApart ==
  \A b \in live :
    /\ Base <= b.ptr /\ b.ptr + b.len <= End
    /\ \A c \in live \ {b} : Apart(b.ptr, b.len, c.ptr, c.len)
    /\ \A a \in DOMAIN node : Apart(b.ptr, b.len, a, Header)
    /\ \A c \in live : Apart(b.ptr, b.len, c.ptr - 1, 1)

Aligned == \A b \in live : b.ptr % b.align = 0

(* Nothing is lost: between calls a node is free or holds a piece of the   *)
(* program's, and no two free nodes are neighbours, so that a program that *)
(* has given everything back finds the pool as it was.                     *)
NothingLost ==
  pc = "idle" =>
    \A a \in DOMAIN node :
      /\ ~Joins(a)
      /\ node[a].free \/ \E b \in live : b.ptr = node[a].data
=============================================================================
