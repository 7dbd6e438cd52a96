------------------------- MODULE XenosFrames_proofs -------------------------
(***************************************************************************)
(* Vertex buffers and frames: what Xe_Sync gives back to the pool the GPU  *)
(* has finished with, as long as no command looks like the number of a     *)
(* frame; and the rings: the GPU finds its commands, as long as a frame's  *)
(* commands fit.                                                           *)
(***************************************************************************)
EXTENDS XenosProgram, SequenceTheorems, TLAPS

(* Vertices in a buffer. *)
Fill == [vb : Nat, words : Int]
Segments == [base : Int, len : Int, serial : Int, draws : SUBSET Fill, step : Int]
Heads == Seq(Fill)

(* Draws that are under way, sent or among the commands to be sent, read    *)
(* only from buffers of S.                                                  *)
ReadOnly(S) ==
  /\ \A x \in cmds : x.vb \in S
  /\ \A k \in DOMAIN queue : \A x \in queue[k].draws : x.vb \in S

(* Four lists that share no buffer and name none twice. *)
Apart(p, a, b, h) ==
  /\ IsInjective(p) /\ IsInjective(a) /\ IsInjective(b) /\ IsInjective(h)
  /\ ToSet(p) \cap ToSet(a) = {} /\ ToSet(p) \cap ToSet(b) = {} /\ ToSet(p) \cap ToSet(h) = {}
  /\ ToSet(a) \cap ToSet(b) = {} /\ ToSet(a) \cap ToSet(h) = {} /\ ToSet(b) \cap ToSet(h) = {}

FramesTyped ==
  /\ cpu \in {"reset", "ucodes", "ringtest", "master", "init", "run", "wait", "fatal"}
  /\ wptr \in Int /\ last \in Int /\ serial \in Int /\ word0 \in Int
  /\ frame \in Nat /\ made \in Nat /\ cmds \subseteq Fill
  /\ queue \in Seq(Segments)
  /\ head \in Heads /\ built \in Heads
  /\ pool \in Seq(Nat) /\ after \in Seq(Nat)

(* The word of the scratch register is the number of an earlier frame, or a *)
(* command; while Xe_Sync waits, the one segment that will write this       *)
(* frame's number is the last of the queue.                                 *)
Behind == word0 < frame \/ word0 = Header

WordBehind ==
  /\ frame <= MaxFrames
  /\ cpu = "wait" => /\ frame < MaxFrames /\ cmds = {}
                     /\ \A k \in DOMAIN queue : queue[k].step = IF k = Len(queue) THEN frame ELSE -1
                     /\ queue # <<>> => Behind
  /\ cpu \notin {"wait", "fatal"} => Behind /\ \A k \in DOMAIN queue : queue[k].step = -1

(* Buffers that draws under way read from are neither in the pool nor being *)
(* filled, and no buffer is in two places.                                  *)
BuffersApart ==
  /\ Apart(pool, after, Ids(built), Ids(head))
  /\ ToSet(pool) \cup ToSet(after) \cup ToSet(Ids(built)) \cup ToSet(Ids(head)) \subseteq 1 .. made
  /\ ReadOnly(ToSet(after) \cup ToSet(Ids(built)))

FramesInv == FramesTyped /\ WordBehind /\ BuffersApart
-----------------------------------------------------------------------------
(* Lists of buffers. *)
LEMMA Joined ==
  ASSUME NEW s \in Seq(Nat), NEW t \in Seq(Nat)
  PROVE  /\ s \o t \in Seq(Nat)
         /\ ToSet(s \o t) = ToSet(s) \cup ToSet(t)
         /\ IsInjective(s \o t) <=> IsInjective(s) /\ IsInjective(t) /\ ToSet(s) \cap ToSet(t) = {}
<1> DEFINE u == s \o t
           m == Len(s)
           n == Len(t)
<1>1. /\ u \in Seq(Nat) /\ DOMAIN u = 1 .. m + n /\ DOMAIN s = 1 .. m /\ DOMAIN t = 1 .. n
      /\ m \in Nat /\ n \in Nat
      /\ \A i \in 1 .. m : u[i] = s[i]
      /\ \A i \in 1 .. n : u[m + i] = t[i]
  OBVIOUS
<1> HIDE DEF u, m, n
<1>2. \A i \in 1 .. m + n : i \in 1 .. m \/ \E k \in 1 .. n : i = m + k
  <2> SUFFICES ASSUME NEW i \in 1 .. m + n, i \notin 1 .. m
               PROVE  i - m \in 1 .. n /\ i = m + (i - m)
    OBVIOUS
  <2> QED BY <1>1
<1>3. /\ \A i \in 1 .. m : i \in 1 .. m + n
      /\ \A i \in 1 .. n : m + i \in 1 .. m + n
      /\ \A i \in 1 .. m, j \in 1 .. n : i # m + j
      /\ \A i, j \in 1 .. n : m + i = m + j => i = j
  BY <1>1
<1>4. ToSet(u) = ToSet(s) \cup ToSet(t)
  <2>1. /\ ToSet(u) = {u[i] : i \in 1 .. m + n}
        /\ ToSet(s) = {s[i] : i \in 1 .. m} /\ ToSet(t) = {t[i] : i \in 1 .. n}
    BY <1>1 DEF ToSet
  <2>2. ASSUME NEW i \in 1 .. m + n PROVE u[i] \in ToSet(s) \cup ToSet(t)
    <3>1. CASE i \in 1 .. m
      BY <1>1, <2>1, <3>1
    <3>2. CASE \E k \in 1 .. n : i = m + k
      BY <1>1, <2>1, <3>2
    <3> QED BY <1>2, <3>1, <3>2
  <2>3. ASSUME NEW i \in 1 .. m PROVE s[i] \in ToSet(u)
    BY <1>1, <1>3, <2>1
  <2>4. ASSUME NEW i \in 1 .. n PROVE t[i] \in ToSet(u)
    <3>1. t[i] = u[m + i] /\ m + i \in 1 .. m + n
      BY <1>1, <1>3
    <3> QED BY <2>1, <3>1
  <2> QED BY <2>1, <2>2, <2>3, <2>4
<1>5. ASSUME IsInjective(u) PROVE IsInjective(s) /\ IsInjective(t) /\ ToSet(s) \cap ToSet(t) = {}
  <2>0. \A i, j \in 1 .. m + n : u[i] = u[j] => i = j
    BY <1>1, <1>5 DEF IsInjective
  <2>1. IsInjective(s)
    BY <1>1, <1>3, <2>0 DEF IsInjective
  <2>2. IsInjective(t)
    <3> SUFFICES ASSUME NEW i \in 1 .. n, NEW j \in 1 .. n, t[i] = t[j] PROVE i = j
      BY <1>1 DEF IsInjective
    <3>1. u[m + i] = u[m + j] /\ m + i \in 1 .. m + n /\ m + j \in 1 .. m + n
      BY <1>1, <1>3
    <3>2. m + i = m + j
      BY <2>0, <3>1
    <3> QED BY <1>3, <3>2
  <2>3. ToSet(s) \cap ToSet(t) = {}
    <3> SUFFICES ASSUME NEW i \in 1 .. m, NEW j \in 1 .. n, s[i] = t[j] PROVE FALSE
      BY <1>1 DEF ToSet
    <3>1. u[i] = u[m + j] /\ i \in 1 .. m + n /\ m + j \in 1 .. m + n
      BY <1>1, <1>3
    <3>2. i = m + j
      BY <2>0, <3>1
    <3> QED BY <1>3, <3>2
  <2> QED BY <2>1, <2>2, <2>3
<1>6. ASSUME IsInjective(s), IsInjective(t), ToSet(s) \cap ToSet(t) = {} PROVE IsInjective(u)
  <2> SUFFICES ASSUME NEW i \in 1 .. m + n, NEW j \in 1 .. m + n, u[i] = u[j] PROVE i = j
    BY <1>1 DEF IsInjective
  <2>1. CASE i \in 1 .. m /\ j \in 1 .. m
    BY <1>1, <1>6, <2>1 DEF IsInjective
  <2>2. ASSUME NEW k \in 1 .. n, NEW l \in 1 .. n, i = m + k, j = m + l PROVE i = j
    <3>1. t[k] = t[l]
      BY <1>1, <2>2
    <3> QED BY <1>1, <1>6, <2>2, <3>1 DEF IsInjective
  <2>3. ASSUME NEW l \in 1 .. n, i \in 1 .. m, j = m + l PROVE i = j
    <3>1. s[i] = t[l]
      BY <1>1, <2>3
    <3> QED BY <1>1, <1>6, <2>3, <3>1 DEF ToSet
  <2>4. ASSUME NEW l \in 1 .. n, j \in 1 .. m, i = m + l PROVE i = j
    <3>1. s[j] = t[l]
      BY <1>1, <2>4
    <3> QED BY <1>1, <1>6, <2>4, <3>1 DEF ToSet
  <2> QED BY <1>2, <2>1, <2>2, <2>3, <2>4
<1> QED BY <1>1, <1>4, <1>5, <1>6 DEF u

LEMMA NoneLeft == <<>> \in Seq(Nat) /\ ToSet(<<>>) = {} /\ IsInjective(<<>>)
  BY DEF ToSet, IsInjective

(* Taking k buffers: from the front of the pool, then new ones. *)
LEMMA TakenApart ==
  ASSUME NEW k \in Nat, pool \in Seq(Nat), made \in Nat, IsInjective(pool), ToSet(pool) \subseteq 1 .. made,
         NEW r, r = SubSeq(pool, k + 1, Len(pool)),
         NEW m, m = IF k <= Len(pool) THEN made ELSE made + k - Len(pool)
  PROVE  /\ Allocated(k) \in Seq(Nat) /\ r \in Seq(Nat) /\ m \in Nat /\ made <= m
         /\ IsInjective(Allocated(k)) /\ IsInjective(r)
         /\ ToSet(Allocated(k)) \cap ToSet(r) = {}
         /\ ToSet(r) \subseteq ToSet(pool)
         /\ ToSet(Allocated(k)) \subseteq ToSet(pool) \cup (made + 1 .. m)
<1> DEFINE a == Allocated(k)
           l == Len(pool)
<1>1. l \in Nat /\ DOMAIN pool = 1 .. l /\ \A i \in 1 .. l : pool[i] \in 1 .. made
  BY DEF ToSet
<1>2. DOMAIN a = 1 .. k /\ \A i \in 1 .. k : a[i] = IF i <= l THEN pool[i] ELSE made + i - l
  BY DEF Allocated
<1>3. a \in Seq(Nat)
  BY <1>1 DEF Allocated
<1>4. /\ r \in Seq(Nat) /\ DOMAIN r = 1 .. l - k
      /\ \A i \in 1 .. l - k : r[i] = pool[i + k] /\ i + k \in 1 .. l /\ i + k \notin 1 .. k
  <2>1. r \in Seq(Nat) /\ Len(r) = IF k + 1 <= l THEN l - k ELSE 0
    BY <1>1, SubSeqProperties
  <2>2. DOMAIN r = 1 .. l - k
    BY <1>1, <2>1
  <2>3. \A i \in 1 .. l - k : r[i] = pool[i + k]
    BY <1>1
  <2> QED BY <1>1, <2>1, <2>2, <2>3
<1> HIDE DEF a, l
<1>5. m \in Nat /\ made <= m
  BY <1>1 DEF l
<1>6. \A i, j \in 1 .. l : pool[i] = pool[j] => i = j
  BY <1>1 DEF IsInjective
<1>7. IsInjective(a)
  <2> SUFFICES ASSUME NEW i \in 1 .. k, NEW j \in 1 .. k, a[i] = a[j] PROVE i = j
    BY <1>2 DEF IsInjective
  <2>1. CASE i <= l /\ j <= l
    BY <1>1, <1>2, <1>6, <2>1
  <2>2. CASE ~(i <= l /\ j <= l)
    BY <1>1, <1>2, <2>2
  <2> QED BY <2>1, <2>2
<1>8. IsInjective(r) /\ ToSet(r) \subseteq ToSet(pool)
  <2>1. IsInjective(r)
    <3> SUFFICES ASSUME NEW i \in 1 .. l - k, NEW j \in 1 .. l - k, r[i] = r[j] PROVE i = j
      BY <1>4 DEF IsInjective
    <3>1. pool[i + k] = pool[j + k] /\ i + k \in 1 .. l /\ j + k \in 1 .. l
      BY <1>4
    <3>2. i + k = j + k
      BY <1>6, <3>1
    <3> QED BY <1>1, <3>2
  <2>2. ToSet(r) \subseteq ToSet(pool)
    BY <1>1, <1>4 DEF ToSet
  <2> QED BY <2>1, <2>2
<1>9. ToSet(a) \cap ToSet(r) = {}
  <2> SUFFICES ASSUME NEW i \in 1 .. k, NEW j \in 1 .. l - k, a[i] = r[j] PROVE FALSE
    BY <1>2, <1>4 DEF ToSet
  <2>1. r[j] = pool[j + k] /\ j + k \in 1 .. l /\ j + k # i
    BY <1>4
  <2>2. CASE i <= l
    BY <1>1, <1>2, <1>6, <2>1, <2>2
  <2>3. CASE ~(i <= l)
    BY <1>1, <1>2, <2>1, <2>3
  <2> QED BY <2>2, <2>3
<1>10. ToSet(a) \subseteq ToSet(pool) \cup (made + 1 .. m)
  <2> SUFFICES ASSUME NEW i \in 1 .. k PROVE a[i] \in ToSet(pool) \cup (made + 1 .. m)
    BY <1>2 DEF ToSet
  <2>1. CASE i <= l
    <3>1. a[i] = pool[i] /\ i \in DOMAIN pool
      BY <1>1, <1>2, <2>1
    <3> QED BY <3>1 DEF ToSet
  <2>2. CASE ~(i <= l)
    <3>1. a[i] = made + i - l /\ m = made + k - l
      BY <1>1, <1>2, <2>2 DEF l
    <3> QED BY <1>1, <2>2, <3>1
  <2> QED BY <2>1, <2>2
<1> QED BY <1>3, <1>4, <1>5, <1>7, <1>8, <1>9, <1>10 DEF a
-----------------------------------------------------------------------------
(* The steps. *)
LEMMA IdsTyped ==
  ASSUME NEW h \in Heads
  PROVE  /\ Ids(h) \in Seq(Nat) /\ Len(Ids(h)) = Len(h) /\ Len(h) \in Nat
         /\ \A x \in ToSet(h) : x \in Fill /\ x.vb \in ToSet(Ids(h))
<1>1. Len(h) \in Nat /\ DOMAIN h = 1 .. Len(h) /\ \A i \in 1 .. Len(h) : h[i].vb \in Nat
  <2>1. \A i \in 1 .. Len(h) : h[i] \in Fill
    BY ElementOfSeq DEF Heads
  <2>2. Len(h) \in Nat /\ DOMAIN h = 1 .. Len(h)
    BY DEF Heads
  <2> QED BY <2>1, <2>2 DEF Fill
<1>2. ASSUME NEW x \in ToSet(h) PROVE x \in Fill /\ x.vb \in ToSet(Ids(h))
  <2>1. PICK i \in 1 .. Len(h) : x = h[i]
    BY <1>1 DEF ToSet
  <2>2. h[i] \in Fill
    BY <2>1, ElementOfSeq DEF Heads
  <2>3. i \in DOMAIN Ids(h) /\ Ids(h)[i] = x.vb
    BY <1>1, <2>1 DEF Ids
  <2> QED BY <2>1, <2>2, <2>3 DEF ToSet
<1> QED BY <1>1, <1>2 DEF Ids

(* Lists of no buffers have no names. *)
LEMMA NoFill == <<>> \in Heads /\ Ids(<<>>) = <<>>
  BY DEF Heads, Ids

LEMMA FramesStart == FramesInit => FramesInv
<1> SUFFICES ASSUME FramesInit PROVE FramesInv
  OBVIOUS
<1>1. Ids(head) = <<>> /\ Ids(built) = <<>> /\ queue = <<>> /\ DOMAIN queue = {}
  BY NoFill DEF FramesInit
<1>2. FramesTyped
  BY NoFill DEF FramesInit, FramesTyped
<1>3. WordBehind
  BY <1>1, FramesAssumption DEF FramesInit, WordBehind, Behind, FramesAssumption
<1>4. BuffersApart
  BY <1>1, NoneLeft DEF FramesInit, BuffersApart, Apart, ReadOnly
<1> QED BY <1>2, <1>3, <1>4 DEF FramesInv

(* What Put writes into the first word. *)
LEMMA WordPut ==
  ASSUME NEW n, Put(n)
  PROVE  word0' = word0 \/ word0' = Header
  BY DEF Put

(* Commands of a program that is not waiting: draws of buffers that nobody *)
(* else may fill.                                                          *)
LEMMA EmitKept ==
  ASSUME FramesTyped, WordBehind, NEW n \in Nat, NEW vbs \in SUBSET Fill, Emit(n, vbs)
  PROVE  /\ cpu = "run" /\ cpu' = "run" /\ wptr' \in Int /\ word0' \in Int /\ cmds' = cmds \cup vbs
         /\ cmds' \subseteq Fill
         /\ UNCHANGED <<last, serial, queue, frame>>
         /\ WordBehind'
<1>1. /\ cpu = "run" /\ cpu' = "run" /\ wptr' = wptr + n /\ cmds' = cmds \cup vbs
      /\ UNCHANGED <<last, serial, queue, frame>>
  BY DEF Emit
<1>2. word0' = word0 \/ word0' = Header
  BY WordPut DEF Emit
<1>3. word0' \in Int
  BY <1>2, FramesAssumption DEF FramesTyped, FramesAssumption
<1>4. WordBehind'
  BY <1>1, <1>2 DEF WordBehind, Behind
<1> QED BY <1>1, <1>3, <1>4 DEF FramesTyped

LEMMA CommandKept ==
  ASSUME FramesInv, NEW n \in Commands, Command(n)
  PROVE  FramesInv'
<1>1. n \in Nat
  BY FramesAssumption DEF FramesAssumption
<1>2. Emit(n, {}) /\ UNCHANGED <<head, pool, after, built, made>>
  BY DEF Command
<1>3. {} \in SUBSET Fill
  OBVIOUS
<1> QED BY <1>1, <1>2, <1>3, EmitKept DEF FramesInv, FramesTyped, BuffersApart, Apart, ReadOnly, Ids

(* The steps of Xe_Init. *)
LEMMA StartKept ==
  ASSUME FramesInv, StartNext
  PROVE  FramesInv'
<1>1. CASE Reset \/ LoadUcodes \/ RingTest \/ MasterInit
  <2>1. /\ UNCHANGED <<wptr, last, word0, serial, queue, cmds, frame, head, built, pool, after, made>>
        /\ cpu \in {"reset", "ucodes", "ringtest", "master"}
        /\ cpu' \in {"reset", "ucodes", "ringtest", "master", "init", "fatal"}
    BY <1>1 DEF Reset, LoadUcodes, RingTest, MasterInit, Starting
  <2> QED BY <2>1 DEF FramesInv, FramesTyped, WordBehind, Behind, BuffersApart, Apart, ReadOnly, Ids
<1>2. CASE FirstCommands
  <2>1. /\ UNCHANGED <<last, serial, queue, cmds, frame, head, built, pool, after, made>>
        /\ cpu = "init" /\ cpu' = "run" /\ wptr' = wptr + 1
    BY <1>2 DEF FirstCommands
  <2>2. word0' = word0 \/ word0' = Header
    BY <1>2, WordPut DEF FirstCommands
  <2>3. word0' \in Int
    BY <2>2, FramesAssumption DEF FramesInv, FramesTyped, FramesAssumption
  <2>4. WordBehind'
    BY <2>1, <2>2 DEF FramesInv, WordBehind, Behind
  <2>5. FramesTyped'
    BY <2>1, <2>3 DEF FramesInv, FramesTyped
  <2>6. BuffersApart'
    BY <2>1 DEF FramesInv, BuffersApart, Apart, ReadOnly, Ids
  <2> QED BY <2>4, <2>5, <2>6 DEF FramesInv
<1> QED BY <1>1, <1>2 DEF StartNext

LEMMA NextStartInt ==
  ASSUME NEW w \in Int
  PROVE  NextStart(Aligned(w)) \in Int
<1>1. Aligned(w) \in Int
  BY FramesAssumption DEF Aligned, FramesAssumption
<1> QED BY <1>1 DEF NextStart

(* A segment is sent: its draws are under way as before. *)
LEMMA KickKept ==
  ASSUME FramesInv, cpu = "run", NEW n \in Nat, NEW step \in Int, NEW then,
         \/ step = -1 /\ then = "run"
         \/ step = frame /\ then = "wait" /\ frame < MaxFrames,
         Kick(n, step, then)
  PROVE  FramesInv'
<1>1. /\ UNCHANGED <<frame, head, built, pool, after, made>>
      /\ word0' = word0 \/ word0' = Header
  BY WordPut DEF Kick
<1>2. word0' \in Int
  BY <1>1, FramesAssumption DEF FramesInv, FramesTyped, FramesAssumption
<1>3. CASE Aligned(wptr + n) >= Size
  <2>1. cpu' = "fatal" /\ wptr' = wptr + n /\ UNCHANGED <<last, serial, queue, cmds>>
    BY <1>3 DEF Kick
  <2>2. FramesTyped' /\ WordBehind'
    BY <1>1, <1>2, <2>1 DEF FramesInv, FramesTyped, WordBehind
  <2>3. BuffersApart'
    BY <1>1, <2>1 DEF FramesInv, BuffersApart, Apart, ReadOnly, Ids
  <2> QED BY <2>2, <2>3 DEF FramesInv
<1>4. CASE ~(Aligned(wptr + n) >= Size)
  <2> DEFINE seg == [base |-> last, len |-> wptr + n - last, serial |-> serial,
                     draws |-> cmds, step |-> step]
             l == Len(queue)
  <2>1. /\ cpu' = then /\ queue' = Append(queue, seg)
        /\ serial' = (serial % (Primary + 2)) + 1
        /\ last' = NextStart(Aligned(wptr + n)) /\ wptr' = last' /\ cmds' = {}
    BY <1>4 DEF Kick
  <2>2. seg \in Segments /\ queue \in Seq(Segments)
    BY DEF Segments, FramesInv, FramesTyped
  <2>3. seg.draws = cmds /\ seg.step = step
    OBVIOUS
  <2> HIDE DEF seg
  <2>4. /\ queue' \in Seq(Segments) /\ Len(queue') = l + 1 /\ l \in Nat
        /\ DOMAIN queue = 1 .. l /\ DOMAIN queue' = 1 .. l + 1
        /\ \A k \in 1 .. l : queue'[k] = queue[k]
        /\ queue'[l + 1] = seg
    BY <2>1, <2>2
  <2> HIDE DEF l
  <2>5. \A k \in 1 .. l + 1 : k \in 1 .. l \/ k = l + 1
    BY <2>4
  <2>6. serial' \in Int /\ last' \in Int /\ wptr' \in Int
    <3>1. serial' \in Int
      BY <2>1, FramesAssumption DEF FramesInv, FramesTyped, FramesAssumption
    <3>2. wptr + n \in Int
      BY DEF FramesInv, FramesTyped
    <3> QED BY <2>1, <3>1, <3>2, NextStartInt
  <2>7. FramesTyped'
    BY <1>1, <1>2, <2>1, <2>4, <2>6 DEF FramesInv, FramesTyped
  <2>8. ReadOnly(ToSet(after) \cup ToSet(Ids(built)))'
    BY <1>1, <2>1, <2>3, <2>4, <2>5 DEF FramesInv, BuffersApart, ReadOnly
  <2>9. BuffersApart'
    BY <1>1, <2>8 DEF FramesInv, BuffersApart, Apart, Ids
  <2>10. \A k \in 1 .. l : queue'[k].step = -1
    BY <2>4 DEF FramesInv, WordBehind
  <2>11. WordBehind'
    <3>1. Behind'
      BY <1>1 DEF FramesInv, WordBehind, Behind
    <3>2. CASE step = -1 /\ then = "run"
      <4>1. \A k \in DOMAIN queue' : queue'[k].step = -1
        BY <2>3, <2>4, <2>5, <2>10, <3>2
      <4> QED BY <1>1, <2>1, <3>1, <3>2, <4>1 DEF FramesInv, WordBehind
    <3>3. CASE step = frame /\ then = "wait" /\ frame < MaxFrames
      <4>1. \A k \in DOMAIN queue' : queue'[k].step = IF k = Len(queue') THEN frame ELSE -1
        <5> SUFFICES ASSUME NEW k \in 1 .. l + 1
                     PROVE  queue'[k].step = IF k = l + 1 THEN frame ELSE -1
          BY <2>4
        <5>1. CASE k = l + 1
          BY <2>3, <2>4, <3>3, <5>1
        <5>2. CASE k # l + 1
          BY <2>5, <2>10, <5>2
        <5> QED BY <5>1, <5>2
      <4> QED BY <1>1, <2>1, <3>1, <3>3, <4>1 DEF FramesInv, WordBehind
    <3> QED BY <3>2, <3>3
  <2> QED BY <2>7, <2>9, <2>11 DEF FramesInv
<1> QED BY <1>3, <1>4

LEMMA SendKept ==
  ASSUME FramesInv, Execute \/ SyncStart
  PROVE  FramesInv'
<1>1. CASE Execute
  <2>1. cpu = "run" /\ Kick(IdleWords, -1, "run") /\ IdleWords \in Nat /\ -1 \in Int
    BY <1>1 DEF Execute, IdleWords
  <2> QED BY <2>1, KickKept
<1>2. CASE SyncStart
  <2>1. /\ cpu = "run" /\ frame < MaxFrames /\ Kick(StepWords + IdleWords, frame, "wait")
        /\ StepWords + IdleWords \in Nat /\ frame \in Int
    BY <1>2 DEF SyncStart, StepWords, IdleWords, FramesInv, FramesTyped
  <2> QED BY <2>1, KickKept
<1> QED BY <1>1, <1>2

(* The GPU works a segment off. *)
LEMMA SegmentKept ==
  ASSUME FramesInv, GpuSegment
  PROVE  FramesInv'
<1> DEFINE l == Len(queue)
<1>1. /\ queue # <<>> /\ queue' = Tail(queue)
      /\ word0' = IF Head(queue).step < 0 THEN word0 ELSE Head(queue).step
      /\ UNCHANGED <<cpu, wptr, last, serial, cmds, frame, head, built, pool, after, made>>
  BY DEF GpuSegment
<1>2. queue \in Seq(Segments)
  BY DEF FramesInv, FramesTyped
<1>3. /\ l \in Nat /\ l >= 1 /\ DOMAIN queue = 1 .. l
      /\ Head(queue) = queue[1]
      /\ queue' \in Seq(Segments) /\ Len(queue') = l - 1 /\ DOMAIN queue' = 1 .. l - 1
      /\ \A k \in 1 .. l - 1 : queue'[k] = queue[k + 1] /\ k + 1 \in 1 .. l
  BY <1>1, <1>2
<1>4. queue[1].step \in Int
  <2>1. queue[1] \in Segments
    BY <1>2, <1>3, ElementOfSeq
  <2> QED BY <2>1 DEF Segments
<1> HIDE DEF l
<1>5. FramesTyped'
  BY <1>1, <1>3, <1>4 DEF FramesInv, FramesTyped
<1>6. BuffersApart'
  <2>1. ReadOnly(ToSet(after) \cup ToSet(Ids(built)))'
    BY <1>1, <1>3 DEF FramesInv, BuffersApart, ReadOnly
  <2> QED BY <1>1, <2>1 DEF FramesInv, BuffersApart, Apart, Ids
<1>7. WordBehind'
  <2>1. CASE cpu = "fatal"
    BY <1>1, <2>1 DEF FramesInv, WordBehind
  <2>2. CASE cpu = "wait"
    <3>1. \A k \in 1 .. l : queue[k].step = IF k = l THEN frame ELSE -1
      BY <1>3, <2>2 DEF FramesInv, WordBehind, l
    <3>2. \A k \in 1 .. l - 1 : queue'[k].step = IF k = l - 1 THEN frame ELSE -1
      <4> SUFFICES ASSUME NEW k \in 1 .. l - 1
                   PROVE  queue'[k].step = IF k = l - 1 THEN frame ELSE -1
        OBVIOUS
      <4>1. queue'[k].step = IF k + 1 = l THEN frame ELSE -1
        BY <1>3, <3>1
      <4> QED BY <1>3, <4>1
    <3>3. queue' # <<>> => Behind'
      <4>1. queue' # <<>> => l # 1
        BY <1>3
      <4>2. l # 1 => word0' = word0
        BY <1>1, <1>3, <3>1
      <4>3. Behind
        BY <1>1, <2>2 DEF FramesInv, WordBehind
      <4> QED BY <1>1, <4>1, <4>2, <4>3 DEF Behind
    <3> QED BY <1>1, <1>3, <2>2, <3>2, <3>3 DEF FramesInv, WordBehind
  <2>3. CASE cpu \notin {"wait", "fatal"}
    <3>1. Behind /\ \A k \in 1 .. l : queue[k].step = -1
      BY <1>3, <2>3 DEF FramesInv, WordBehind
    <3>2. word0' = word0 /\ \A k \in 1 .. l - 1 : queue'[k].step = -1
      BY <1>1, <1>3, <3>1
    <3>3. Behind'
      BY <1>1, <3>1, <3>2 DEF Behind
    <3> QED BY <1>1, <1>3, <2>3, <3>2, <3>3 DEF FramesInv, WordBehind
  <2> QED BY <2>1, <2>2, <2>3
<1> QED BY <1>5, <1>6, <1>7 DEF FramesInv

(* Xe_Sync ends: the GPU has nothing left to do. *)
LEMMA DoneKept ==
  ASSUME Header \notin 0 .. MaxFrames, FramesInv, SyncDone
  PROVE  FramesInv'
<1>1. /\ cpu = "wait" /\ word0 = frame /\ cpu' = "run" /\ frame' = frame + 1
      /\ pool' = pool \o after /\ after' = <<>>
      /\ UNCHANGED <<wptr, last, word0, serial, queue, cmds, head, built, made>>
  BY DEF SyncDone, Reached, Reclaimed
<1>2. frame \in 0 .. MaxFrames /\ frame < MaxFrames
  BY <1>1, FramesAssumption DEF FramesInv, FramesTyped, WordBehind, FramesAssumption
<1>3. queue = <<>> /\ cmds = {} /\ DOMAIN queue = {}
  BY <1>1, <1>2 DEF FramesInv, WordBehind, Behind
<1>4. FramesTyped'
  BY <1>1, <1>3, Joined, NoneLeft DEF FramesInv, FramesTyped
<1>5. WordBehind'
  BY <1>1, <1>2, <1>3, FramesAssumption DEF WordBehind, Behind, FramesAssumption
<1>6. BuffersApart'
  <2>1. Apart(pool, after, Ids(built), Ids(head)) /\ pool \in Seq(Nat) /\ after \in Seq(Nat)
    BY DEF FramesInv, FramesTyped, BuffersApart
  <2>2. IsInjective(pool \o after) /\ ToSet(pool \o after) = ToSet(pool) \cup ToSet(after)
    BY <2>1, Joined DEF Apart
  <2>3. Apart(pool \o after, <<>>, Ids(built), Ids(head))
    BY <2>1, <2>2, NoneLeft DEF Apart
  <2>4. ReadOnly(ToSet(after) \cup ToSet(Ids(built)))'
    BY <1>1, <1>3 DEF ReadOnly
  <2>5. Ids(head)' = Ids(head) /\ Ids(built)' = Ids(built)
    BY <1>1 DEF Ids
  <2> QED BY <1>1, <2>2, <2>3, <2>4, <2>5, NoneLeft DEF FramesInv, BuffersApart
<1> QED BY <1>4, <1>5, <1>6 DEF FramesInv

LEMMA IdleKept ==
  ASSUME FramesInv, SyncTimeout \/ VBBegin
  PROVE  FramesInv'
<1>1. /\ UNCHANGED <<wptr, last, word0, serial, queue, cmds, frame, head, built, pool, after, made>>
      /\ cpu' = "fatal" \/ cpu' = cpu
  BY DEF SyncTimeout, VBBegin, OnlyBuffers
<1> QED BY <1>1 DEF FramesInv, FramesTyped, WordBehind, Behind, BuffersApart, Apart, ReadOnly, Ids
-----------------------------------------------------------------------------
(* Vertices. *)
LEMMA MoreNat ==
  ASSUME FramesTyped, NEW n \in Nat
  PROVE  More(n) \in Nat
<1> DEFINE left == IF head = <<>> THEN 0 ELSE Space - Last(head).words
<1>1. left \in Int
  <2>1. CASE head # <<>>
    <3>1. Len(head) \in 1 .. Len(head)
      BY <2>1 DEF FramesTyped, Heads
    <3>2. head[Len(head)] \in Fill
      BY <3>1, ElementOfSeq DEF FramesTyped, Heads
    <3>3. Space \in Nat /\ Last(head).words \in Int
      BY <3>2, FramesAssumption DEF Last, FramesAssumption, Fill
    <3> QED BY <2>1, <3>3
  <2> QED BY <2>1
<1>2. More(n) = IF n <= left THEN 0 ELSE (n - left + Space - 1) \div Space
  BY DEF More
<1> HIDE DEF left
<1>3. CASE n <= left
  BY <1>2, <1>3
<1>4. CASE ~(n <= left)
  <2>1. Space \in Nat \ {0} /\ n - left + Space - 1 \in Nat
    BY <1>1, <1>4, FramesAssumption DEF FramesAssumption
  <2>2. (n - left + Space - 1) \div Space \in Nat
    BY <2>1
  <2> QED BY <1>2, <1>4, <2>2
<1> QED BY <1>3, <1>4

LEMMA WithWordsIds ==
  ASSUME NEW s \in Seq(Nat), NEW n \in Int
  PROVE  WithWords(s, n) \in Heads /\ Ids(WithWords(s, n)) = s
<1>1. Len(s) \in Nat /\ DOMAIN s = 1 .. Len(s) /\ \A i \in 1 .. Len(s) : s[i] \in Nat
  OBVIOUS
<1> DEFINE w == WithWords(s, n)
<1>2. Space * (Len(s) - 1) \in Int /\ Space \in Int
  BY <1>1, FramesAssumption DEF FramesAssumption
<1>3. \A i \in 1 .. Len(s) :
        [vb |-> s[i], words |-> IF i < Len(s) THEN Space ELSE n - Space * (Len(s) - 1)] \in Fill
  BY <1>1, <1>2 DEF Fill
<1>4. w \in Heads
  BY <1>1, <1>3 DEF WithWords, Heads
<1>5. DOMAIN w = 1 .. Len(s) /\ \A i \in 1 .. Len(s) : w[i].vb = s[i]
  BY DEF WithWords
<1> HIDE DEF w
<1>6. Ids(w) = [i \in 1 .. Len(s) |-> s[i]]
  BY <1>5 DEF Ids
<1>7. Ids(w) = s
  BY <1>1, <1>6
<1> QED BY <1>4, <1>7 DEF w

LEMMA WordsInt ==
  ASSUME FramesTyped
  PROVE  Words(head) \in Int
<1>1. CASE head # <<>>
  <2>1. Len(head) \in 1 .. Len(head)
    BY <1>1 DEF FramesTyped, Heads
  <2>2. head[Len(head)] \in Fill
    BY <2>1, ElementOfSeq DEF FramesTyped, Heads
  <2>3. Last(head).words \in Int /\ Space * (Len(head) - 1) \in Int
    BY <2>1, <2>2, FramesAssumption DEF Last, FramesAssumption, Fill
  <2> QED BY <1>1, <2>3 DEF Words
<1> QED BY <1>1 DEF Words

LEMMA PutKept ==
  ASSUME FramesInv, NEW n \in Puts, VBPut(n)
  PROVE  FramesInv'
<1> DEFINE k == More(n)
           a == Allocated(k)
           r == SubSeq(pool, k + 1, Len(pool))
           new == IF k <= Len(pool) THEN 0 ELSE k - Len(pool)
           ids == Ids(head) \o a
<1>1. n \in Nat /\ k \in Nat /\ pool \in Seq(Nat) /\ made \in Nat /\ Len(pool) \in Nat
  BY FramesAssumption, MoreNat DEF FramesAssumption, FramesInv, FramesTyped
<1> HIDE DEF k
<1>2. UNCHANGED <<wptr, last, word0, serial, queue, cmds, frame, built, after>> /\ cpu = "run"
  BY DEF VBPut, OnlyBuffers
<1>3. CASE NoMemory(new)
  <2>1. cpu' = "fatal" /\ UNCHANGED <<head, pool, made>>
    BY <1>3 DEF VBPut, k
  <2> QED BY <1>2, <2>1 DEF FramesInv, FramesTyped, WordBehind, BuffersApart, Apart, ReadOnly, Ids
<1>4. CASE ~NoMemory(new)
  <2>1. /\ head' = WithWords(ids, Words(head) + n) /\ pool' = r /\ made' = made + new /\ cpu' = cpu
    BY <1>4 DEF VBPut, k
  <2>2. made + new = IF k <= Len(pool) THEN made ELSE made + k - Len(pool)
    BY <1>1
  <2> HIDE DEF new
  <2>3. /\ IsInjective(pool) /\ ToSet(pool) \subseteq 1 .. made
        /\ Apart(pool, after, Ids(built), Ids(head))
        /\ ToSet(pool) \cup ToSet(after) \cup ToSet(Ids(built)) \cup ToSet(Ids(head)) \subseteq 1 .. made
    BY DEF FramesInv, BuffersApart, Apart
  <2>4. /\ a \in Seq(Nat) /\ r \in Seq(Nat) /\ made' \in Nat /\ made <= made'
        /\ IsInjective(a) /\ IsInjective(r)
        /\ ToSet(a) \cap ToSet(r) = {}
        /\ ToSet(r) \subseteq ToSet(pool)
        /\ ToSet(a) \subseteq ToSet(pool) \cup (made + 1 .. made')
    BY <1>1, <2>1, <2>2, <2>3, TakenApart
  <2> HIDE DEF a, r
  <2>5. Ids(head) \in Seq(Nat)
    BY IdsTyped DEF FramesInv, FramesTyped
  <2>6. 1 .. made \cap (made + 1 .. made') = {} /\ 1 .. made \subseteq 1 .. made'
        /\ made + 1 .. made' \subseteq 1 .. made'
    BY <1>1, <2>4
  <2>7. ToSet(Ids(head)) \cap ToSet(a) = {}
    BY <2>3, <2>4, <2>6 DEF Apart
  <2>8. /\ ids \in Seq(Nat) /\ IsInjective(ids)
        /\ ToSet(ids) = ToSet(Ids(head)) \cup ToSet(a)
    BY <2>3, <2>4, <2>5, <2>7, Joined DEF Apart
  <2> HIDE DEF ids
  <2>9. head' \in Heads /\ Ids(head') = ids
    <3>1. Words(head) + n \in Int
      BY <1>1, WordsInt DEF FramesInv
    <3> QED BY <2>1, <2>8, <3>1, WithWordsIds
  <2>10. FramesTyped' /\ WordBehind'
    BY <1>2, <2>1, <2>4, <2>9 DEF FramesInv, FramesTyped, WordBehind, Behind
  <2>11. Apart(r, after, Ids(built), ids)
    BY <2>3, <2>4, <2>6, <2>8 DEF Apart
  <2>12. ToSet(r) \cup ToSet(after) \cup ToSet(Ids(built)) \cup ToSet(ids) \subseteq 1 .. made'
    BY <2>3, <2>4, <2>6, <2>8
  <2>13. BuffersApart'
    <3>1. Ids(head)' = ids
      BY <2>9 DEF Ids
    <3>2. ReadOnly(ToSet(after) \cup ToSet(Ids(built)))'
      BY <1>2 DEF FramesInv, BuffersApart, ReadOnly, Ids
    <3>3. Ids(built)' = Ids(built)
      BY <1>2 DEF Ids
    <3> QED BY <1>2, <2>1, <2>11, <2>12, <3>1, <3>2, <3>3 DEF BuffersApart
  <2> QED BY <2>10, <2>13 DEF FramesInv
<1> QED BY <1>3, <1>4

(* VBEnd and Xe_Draw: buffers that are filled belong to the program, and   *)
(* only its draws read them.                                               *)
LEMMA BuiltKept ==
  ASSUME FramesInv, VBEnd \/ DrawBuilt
  PROVE  FramesInv'
<1>0. /\ Apart(pool, after, Ids(built), Ids(head)) /\ Ids(head) \in Seq(Nat) /\ Len(head) \in Nat
      /\ ToSet(pool) \cup ToSet(after) \cup ToSet(Ids(built)) \cup ToSet(Ids(head)) \subseteq 1 .. made
      /\ ReadOnly(ToSet(after) \cup ToSet(Ids(built)))
      /\ Ids(built) \in Seq(Nat) /\ Len(built) \in Nat /\ built \in Heads
      /\ head \in Heads /\ made \in Nat
      /\ \A x \in ToSet(built) : x \in Fill /\ x.vb \in ToSet(Ids(built))
  BY IdsTyped DEF FramesInv, FramesTyped, BuffersApart
<1>1. CASE VBEnd
  <2>1. /\ Emit(Len(head), {}) /\ built = <<>> /\ built' = head /\ head' = <<>>
        /\ UNCHANGED <<pool, after, made>>
    BY <1>1 DEF VBEnd
  <2>2. /\ cpu' = "run" /\ wptr' \in Int /\ word0' \in Int /\ cmds' = cmds /\ WordBehind'
        /\ UNCHANGED <<last, serial, queue, frame>>
    <3>1. {} \in SUBSET Fill
      OBVIOUS
    <3>2. cmds' = cmds \cup {}
      BY <1>0, <2>1, <3>1, EmitKept DEF FramesInv
    <3> QED BY <1>0, <2>1, <3>1, <3>2, EmitKept DEF FramesInv
  <2>3. <<>> \in Heads /\ Ids(head)' = <<>> /\ Ids(built) = <<>> /\ Ids(built)' = Ids(head)
    BY <2>1, NoFill DEF Ids
  <2>4. FramesTyped'
    BY <1>0, <2>1, <2>2, <2>3 DEF FramesInv, FramesTyped
  <2>5. Apart(pool, after, Ids(head), <<>>)
    BY <1>0, NoneLeft DEF Apart
  <2>6. ReadOnly(ToSet(after) \cup ToSet(Ids(built)))'
    BY <1>0, <2>1, <2>2, <2>3, NoneLeft DEF ReadOnly
  <2>7. BuffersApart'
    BY <1>0, <2>1, <2>3, <2>5, <2>6, NoneLeft DEF BuffersApart
  <2> QED BY <2>2, <2>4, <2>7 DEF FramesInv
<1>2. CASE DrawBuilt
  <2>1. Emit(Len(built), ToSet(built)) /\ UNCHANGED <<head, built, pool, after, made>>
    BY <1>2 DEF DrawBuilt
  <2>2. ToSet(built) \in SUBSET Fill
    BY <1>0
  <2>3. /\ cpu' = "run" /\ wptr' \in Int /\ word0' \in Int /\ cmds' = cmds \cup ToSet(built)
        /\ cmds' \subseteq Fill /\ WordBehind'
        /\ UNCHANGED <<last, serial, queue, frame>>
    BY <1>0, <2>1, <2>2, EmitKept DEF FramesInv
  <2>4. FramesTyped'
    BY <2>1, <2>3 DEF FramesInv, FramesTyped
  <2>5. ReadOnly(ToSet(after) \cup ToSet(Ids(built)))'
    BY <1>0, <2>1, <2>3 DEF ReadOnly, Ids
  <2>6. BuffersApart'
    BY <1>0, <2>1, <2>5 DEF BuffersApart, Ids
  <2> QED BY <2>3, <2>4, <2>6 DEF FramesInv
<1> QED BY <1>1, <1>2

(* Xe_VBPoolAdd: the list waits for the end of the frame. *)
LEMMA AddKept ==
  ASSUME FramesInv, VBPoolAdd
  PROVE  FramesInv'
<1>1. /\ after' = after \o Ids(built) /\ built' = <<>>
      /\ UNCHANGED <<cpu, wptr, last, word0, serial, queue, cmds, frame, head, pool, made>>
  BY DEF VBPoolAdd, OnlyBuffers
<1>2. /\ Apart(pool, after, Ids(built), Ids(head)) /\ after \in Seq(Nat) /\ Ids(built) \in Seq(Nat)
      /\ ToSet(pool) \cup ToSet(after) \cup ToSet(Ids(built)) \cup ToSet(Ids(head)) \subseteq 1 .. made
      /\ ReadOnly(ToSet(after) \cup ToSet(Ids(built)))
  BY IdsTyped DEF FramesInv, FramesTyped, BuffersApart
<1>3. /\ after' \in Seq(Nat) /\ IsInjective(after') /\ ToSet(after') = ToSet(after) \cup ToSet(Ids(built))
  BY <1>1, <1>2, Joined DEF Apart
<1>8. Ids(built)' = <<>> /\ <<>> \in Heads
  BY <1>1, NoFill DEF Ids
<1>4. FramesTyped' /\ WordBehind'
  BY <1>1, <1>3, <1>8 DEF FramesInv, FramesTyped, WordBehind, Behind
<1>5. Apart(pool, after', <<>>, Ids(head))
  BY <1>2, <1>3, NoneLeft DEF Apart
<1>6. ReadOnly(ToSet(after) \cup ToSet(Ids(built)))'
  BY <1>1, <1>2, <1>3, <1>8, NoneLeft DEF ReadOnly
<1>7. BuffersApart'
  BY <1>1, <1>2, <1>3, <1>5, <1>6, <1>8, NoneLeft DEF BuffersApart, Ids
<1> QED BY <1>4, <1>7 DEF FramesInv

(* Xe_ResolveInto: a buffer goes from the pool to those of this frame. *)
LEMMA ResolveKept ==
  ASSUME FramesInv, ResolveInto
  PROVE  FramesInv'
<1> DEFINE a == Allocated(1)
           r == SubSeq(pool, 1 + 1, Len(pool))
           d == {[vb |-> a[1], words |-> RectWords]}
<1>1. /\ Emit(2, d) /\ after' = after \o a /\ pool' = r
      /\ made' = IF pool = <<>> THEN made + 1 ELSE made
      /\ UNCHANGED <<head, built>>
  BY DEF ResolveInto
<1>2. /\ Apart(pool, after, Ids(built), Ids(head)) /\ pool \in Seq(Nat) /\ after \in Seq(Nat) /\ made \in Nat
      /\ ToSet(pool) \cup ToSet(after) \cup ToSet(Ids(built)) \cup ToSet(Ids(head)) \subseteq 1 .. made
      /\ ReadOnly(ToSet(after) \cup ToSet(Ids(built)))
  BY DEF FramesInv, FramesTyped, BuffersApart
<1>3. made' = IF 1 <= Len(pool) THEN made ELSE made + 1 - Len(pool)
  BY <1>1, <1>2
<1>4. /\ a \in Seq(Nat) /\ r \in Seq(Nat) /\ made' \in Nat /\ made <= made'
      /\ IsInjective(a) /\ IsInjective(r)
      /\ ToSet(a) \cap ToSet(r) = {}
      /\ ToSet(r) \subseteq ToSet(pool)
      /\ ToSet(a) \subseteq ToSet(pool) \cup (made + 1 .. made')
  BY <1>2, <1>3, TakenApart DEF Apart
<1>15. Len(a) = 1 /\ DOMAIN a = 1 .. 1
  BY DEF Allocated
<1>16. a[1] \in ToSet(a) /\ a[1] \in Nat
  BY <1>4, <1>15 DEF ToSet
<1> HIDE DEF a, r
<1>5. 1 .. made \cap (made + 1 .. made') = {} /\ 1 .. made \subseteq 1 .. made'
      /\ made + 1 .. made' \subseteq 1 .. made' /\ 1 .. made' \subseteq Nat
  BY <1>2, <1>4
<1>6. ToSet(after) \cap ToSet(a) = {} /\ ToSet(Ids(built)) \cap ToSet(a) = {} /\ ToSet(Ids(head)) \cap ToSet(a) = {}
  BY <1>2, <1>4, <1>5 DEF Apart
<1>7. /\ after' \in Seq(Nat) /\ IsInjective(after') /\ ToSet(after') = ToSet(after) \cup ToSet(a)
  BY <1>1, <1>2, <1>4, <1>6, Joined DEF Apart
<1>8. d \in SUBSET Fill /\ \A x \in d : x.vb \in ToSet(a)
  BY <1>16 DEF Fill, RectWords
<1> HIDE DEF d
<1>9. /\ cpu' = "run" /\ wptr' \in Int /\ word0' \in Int /\ cmds' = cmds \cup d
      /\ cmds' \subseteq Fill /\ WordBehind'
      /\ UNCHANGED <<last, serial, queue, frame>>
  BY <1>1, <1>8, EmitKept DEF FramesInv
<1>10. FramesTyped'
  BY <1>1, <1>4, <1>7, <1>9 DEF FramesInv, FramesTyped
<1>11. Apart(r, after', Ids(built), Ids(head))
  BY <1>2, <1>4, <1>6, <1>7 DEF Apart
<1>12. ToSet(r) \cup ToSet(after') \cup ToSet(Ids(built)) \cup ToSet(Ids(head)) \subseteq 1 .. made'
  BY <1>2, <1>4, <1>5, <1>7
<1>13. ReadOnly(ToSet(after) \cup ToSet(Ids(built)))'
  BY <1>1, <1>2, <1>7, <1>8, <1>9 DEF ReadOnly, Ids
<1>14. BuffersApart'
  BY <1>1, <1>11, <1>12, <1>13 DEF BuffersApart, Ids
<1> QED BY <1>9, <1>10, <1>14 DEF FramesInv
-----------------------------------------------------------------------------
LEMMA FramesStep ==
  ASSUME Header \notin 0 .. MaxFrames
  PROVE  FramesInv /\ [Next]_vars => FramesInv'
<1> SUFFICES ASSUME FramesInv, [Next]_vars PROVE FramesInv'
  OBVIOUS
<1>1. CASE UNCHANGED fvars
  BY <1>1 DEF fvars, FramesInv, FramesTyped, WordBehind, Behind, BuffersApart, Apart, ReadOnly, Ids
<1>2. CASE StartNext
  BY <1>2, StartKept
<1>3. CASE FramesNext
  <2>1. CASE \E n \in Commands : Command(n)
    BY <2>1, CommandKept
  <2>2. CASE \E n \in Puts : VBPut(n)
    BY <2>2, PutKept
  <2> QED BY <1>3, <2>1, <2>2, SendKept, DoneKept, IdleKept, SegmentKept, BuiltKept, AddKept, ResolveKept
          DEF FramesNext
<1> QED BY <1>1, <1>2, <1>3
        DEF Next, Video, StartGpu, Start, StartEdram, Calibrate, StartFrames, Frames, State, vars

(* Buffers that are filled as far as their memory goes lie apart. *)
LEMMA MemoryApart ==
  ASSUME NEW x \in Fill, NEW y \in Fill, x.vb # y.vb, Overlap(x, y)
  PROVE  Overrun(x) \/ Overrun(y)
<1>1. ASSUME NEW a \in Nat, NEW b \in Nat, a < b
      PROVE  (a - 1) * Stride + Stride <= (b - 1) * Stride
  <2>1. Stride \in Nat /\ b - a - 1 \in Nat
    BY <1>1, FramesAssumption DEF FramesAssumption
  <2>2. (b - 1) * Stride = (a - 1) * Stride + Stride + (b - a - 1) * Stride
    BY <2>1
  <2>3. (b - a - 1) * Stride >= 0 /\ (a - 1) * Stride \in Int /\ (b - a - 1) * Stride \in Int
    BY <2>1
  <2> QED BY <2>1, <2>2, <2>3
<1> DEFINE fx == (x.vb - 1) * Stride
           fy == (y.vb - 1) * Stride
<1>2. /\ x.vb \in Nat /\ y.vb \in Nat /\ x.words \in Int /\ y.words \in Int
      /\ Stride \in Nat /\ fx \in Int /\ fy \in Int
  BY FramesAssumption DEF FramesAssumption, Fill
<1>3. fx + Stride <= fy \/ fy + Stride <= fx
  BY <1>1, <1>2
<1>4. fx < fy + y.words /\ fy < fx + x.words
  BY DEF Overlap, First
<1> HIDE DEF fx, fy
<1> QED BY <1>2, <1>3, <1>4 DEF Overrun

LEMMA InvSafe == FramesInv => ReuseSafe
<1> SUFFICES ASSUME FramesInv PROVE ReuseSafe
  OBVIOUS
<1> DEFINE b == Ids(built)
           h == Ids(head)
<1>1. /\ Apart(pool, after, b, h) /\ h \in Seq(Nat)
      /\ pool \in Seq(Nat) /\ after \in Seq(Nat) /\ b \in Seq(Nat)
      /\ \A k \in DOMAIN queue : \A d \in queue[k].draws : d.vb \in ToSet(after) \cup ToSet(b)
      /\ \A x \in ToSet(head) : x \in Fill /\ x.vb \in ToSet(h)
  BY IdsTyped DEF FramesInv, FramesTyped, BuffersApart, ReadOnly
<1>2. ASSUME NEW k \in DOMAIN queue, NEW d \in queue[k].draws
      PROVE  /\ d.vb \notin ToSet(pool)
             /\ \A x \in ToSet(head) :
                  d.vb # x.vb /\ (Overlap(d, x) => Overrun(d) \/ Overrun(x))
  <2>1. d \in Fill
    <3>1. queue[k] \in Segments
      BY ElementOfSeq DEF FramesInv, FramesTyped
    <3> QED BY <3>1 DEF Segments
  <2>2. d.vb \notin ToSet(pool) /\ d.vb \notin ToSet(h)
    BY <1>1, <1>2 DEF Apart
  <2>3. ASSUME NEW x \in ToSet(head)
        PROVE  d.vb # x.vb /\ (Overlap(d, x) => Overrun(d) \/ Overrun(x))
    <3>1. x \in Fill /\ d.vb # x.vb
      BY <1>1, <2>2
    <3> QED BY <2>1, <3>1, MemoryApart
  <2> QED BY <2>2, <2>3
<1> HIDE DEF b, h
<1> DEFINE pa == pool \o after
           pab == pa \o b
           pabh == pab \o h
<1>3. pa \in Seq(Nat) /\ IsInjective(pa) /\ ToSet(pa) = ToSet(pool) \cup ToSet(after)
  BY <1>1, Joined DEF Apart
<1> HIDE DEF pa
<1>4. pab \in Seq(Nat) /\ IsInjective(pab) /\ ToSet(pab) = ToSet(pool) \cup ToSet(after) \cup ToSet(b)
  <2>1. ToSet(pa) \cap ToSet(b) = {}
    BY <1>1, <1>3 DEF Apart
  <2> QED BY <1>1, <1>3, <2>1, Joined DEF Apart
<1> HIDE DEF pab
<1>5. IsInjective(pabh)
  <2>1. ToSet(pab) \cap ToSet(h) = {}
    BY <1>1, <1>4 DEF Apart
  <2> QED BY <1>1, <1>4, <2>1, Joined DEF Apart
<1> QED BY <1>2, <1>5 DEF ReuseSafe, pabh, pab, pa, b, h

(* No buffer that a draw the GPU has yet to make reads from is given out   *)
(* for new vertices, and none is in two lists (drivers/xenos/xe.c,         *)
(* Xe_VBReclaim behind Xe_pDebugSync), for any sizes of the rings and any  *)
(* calls, unless the first word of a command is the number of a frame:     *)
(* the wait looks at the word it lies in.  So new vertices fall on those   *)
(* of such a draw for one reason only: a buffer is filled beyond its       *)
(* memory, which Xe_VBPut does (the run Xenos_vertices).                   *)
THEOREM BuffersReusedSafely ==
  ASSUME Header \notin 0 .. MaxFrames
  PROVE  Spec => []ReuseSafe
<1>1. Init => FramesInv
  BY FramesStart DEF Init
<1> QED BY <1>1, FramesStep, InvSafe, PTL DEF Spec
-----------------------------------------------------------------------------
(* The rings: between two calls of Xe_Sync no word is written that the GPU *)
(* has yet to read, as long as what a program writes in between fits in    *)
(* front of the guard.                                                     *)

LongEnough == FrameWords \in Nat /\ FrameWords + Guard <= Size

Busy == cpu \notin {"wait", "fatal"}

RingTyped ==
  /\ ring \in [0 .. Size - 1 -> Int]
  /\ serial \in 1 .. Primary + 2
  /\ wptr \in Nat /\ last \in Nat /\ used \in Nat
  /\ cpu \in {"reset", "ucodes", "ringtest", "master", "init"} => wptr = 0 /\ last = 0 /\ queue = <<>>

(* The names of the segments go round, and the queued ones have the last   *)
(* that were given.                                                        *)
Turn(s) == IF s <= 0 THEN s + Primary + 2 ELSE s

Named ==
  /\ Len(queue) <= Primary + 1
  /\ Busy => Len(queue) <= Primary
  /\ \A k \in 1 .. Len(queue) : queue[k].serial = Turn(serial - (Len(queue) + 1 - k))

(* Segments lie in the ring, and one that writes to the first word is the  *)
(* last that is queued.                                                    *)
Sent ==
  \A k \in 1 .. Len(queue) :
    /\ queue[k].base >= 0 /\ queue[k].len >= 0 /\ queue[k].base + queue[k].len < Size
    /\ k < Len(queue) => queue[k].step = -1

(* Commands to be sent are all there; Xe_Sync waits with none.             *)
Unsent ==
  /\ Busy => \A i \in last .. wptr - 1 : i < Size => ring[i] = serial
  /\ cpu = "wait" => wptr = last /\ last <= Size - Guard

(* What was written since Xe_Sync left the ring at s lies behind s, ...    *)
Straight(s) ==
  /\ s <= last /\ last <= wptr /\ wptr <= s + used + 1
  /\ \A k \in 1 .. Len(queue) : queue[k].base >= s /\ queue[k].base + queue[k].len <= last

(* ... or went on to e, beyond the guard, and from the beginning.          *)
Wrapped(s, e) ==
  /\ last <= wptr /\ wptr + e - s <= used + 1
  /\ \A k \in 1 .. Len(queue) : queue[k].base >= s \/ queue[k].base + queue[k].len <= last

Behindhand(s) == Straight(s) \/ \E e \in Int : e > Size - Guard /\ Wrapped(s, e)

Room == Busy /\ used <= FrameWords => \E s \in 0 .. Size - Guard : Behindhand(s)

RingInv == RingTyped /\ Named /\ Sent /\ Unsent /\ Room /\ RingIntact

LEMMA AlignedUp ==
  ASSUME NEW w \in Nat
  PROVE  Aligned(w) \in Nat /\ w <= Aligned(w) /\ Aligned(w) < w + Align /\ Aligned(1) = Align
<1>1. Align \in Nat \ {0}
  BY FramesAssumption DEF FramesAssumption
<1>2. (-w) % Align \in 0 .. Align - 1
  BY <1>1
<1>3. (-1) % Align = Align - 1
  BY <1>1
<1> QED BY <1>1, <1>2, <1>3 DEF Aligned

LEMMA NextTurn ==
  ASSUME NEW s \in 1 .. Primary + 2
  PROVE  (s % (Primary + 2)) + 1 = IF s = Primary + 2 THEN 1 ELSE s + 1
<1>1. Primary + 2 \in Nat \ {0}
  BY FramesAssumption DEF FramesAssumption
<1> DEFINE m == Primary + 2
<1>2. m % m = 0
  BY <1>1
<1>3. \A t \in 0 .. m - 1 : t % m = t
  BY <1>1
<1>4. CASE s = m
  BY <1>1, <1>2, <1>4
<1>5. CASE s # m
  <2>1. s \in 0 .. m - 1
    BY <1>1, <1>5
  <2> QED BY <1>3, <1>5, <2>1
<1> QED BY <1>4, <1>5

LEMMA Numbers ==
  ASSUME FramesTyped, RingTyped
  PROVE  /\ Size \in Nat /\ Guard \in Nat /\ Guard >= 1 /\ Size - Guard >= 0 /\ Primary \in Nat /\ Primary >= 1
         /\ Align \in Nat /\ Align >= 1
         /\ wptr \in Nat /\ last \in Nat /\ used \in Nat /\ serial \in Int
         /\ Len(queue) \in Nat /\ DOMAIN queue = 1 .. Len(queue)
         /\ \A k \in 1 .. Len(queue) : /\ queue[k].base \in Int /\ queue[k].len \in Int
                                       /\ queue[k].serial \in Int /\ queue[k].step \in Int
<1>1. queue \in Seq(Segments)
  BY DEF FramesTyped
<1>2. Len(queue) \in Nat /\ DOMAIN queue = 1 .. Len(queue)
  BY <1>1
<1>3. \A k \in 1 .. Len(queue) : queue[k] \in Segments
  BY <1>1, ElementOfSeq
<1>4. \A x \in Segments : x.base \in Int /\ x.len \in Int /\ x.serial \in Int /\ x.step \in Int
  BY DEF Segments
<1> QED BY <1>2, <1>3, <1>4, FramesAssumption DEF FramesAssumption, RingTyped, FramesTyped

LEMMA RingStart ==
  ASSUME LongEnough
  PROVE  FramesInit => RingInv
<1> SUFFICES ASSUME FramesInit PROVE RingInv
  OBVIOUS
<1>1. Size \in Nat /\ Guard \in 1 .. Size /\ Primary \in Nat
  BY FramesAssumption DEF FramesAssumption
<1>2. Len(queue) = 0 /\ DOMAIN queue = {} /\ 1 .. Len(queue) = {}
  BY DEF FramesInit
<1>3. RingTyped
  BY <1>1 DEF FramesInit, RingTyped
<1>4. Named /\ Sent /\ RingIntact
  BY <1>1, <1>2 DEF Named, Sent, RingIntact
<1>5. Unsent
  BY DEF FramesInit, Unsent
<1>6. Room
  <2>1. Straight(0)
    BY <1>2 DEF FramesInit, Straight
  <2>2. 0 \in 0 .. Size - Guard
    BY <1>1
  <2> QED BY <2>1, <2>2 DEF Room, Behindhand
<1> QED BY <1>3, <1>4, <1>5, <1>6 DEF RingInv

(* Words are written in front of what the GPU has to read.                 *)
LEMMA PutFree ==
  ASSUME LongEnough, FramesTyped, RingInv, Busy, NEW n \in Nat, used + n <= FrameWords,
         NEW s \in 0 .. Size - Guard, Behindhand(s),
         NEW k \in 1 .. Len(queue)
  PROVE  queue[k].base + queue[k].len <= wptr \/ wptr + n <= queue[k].base
<1>0. /\ queue[k].base \in Int /\ queue[k].len \in Int /\ wptr \in Nat /\ last \in Nat /\ used \in Nat
      /\ Size \in Nat /\ Guard \in Nat
  BY Numbers DEF RingInv
<1>1. CASE Straight(s)
  <2>1. last <= wptr /\ queue[k].base + queue[k].len <= last
    BY <1>1 DEF Straight
  <2>2. \A b, l \in Int, x, w \in Nat : x <= w /\ b + l <= x => b + l <= w
    OBVIOUS
  <2>3. queue[k].base + queue[k].len <= wptr
    BY <1>0, <2>1, <2>2
  <2> QED BY <2>3
<1>2. ASSUME NEW e \in Int, e > Size - Guard, Wrapped(s, e)
      PROVE  queue[k].base + queue[k].len <= wptr \/ wptr + n <= queue[k].base
  <2>1. last <= wptr /\ wptr + e - s <= used + 1
        /\ (queue[k].base >= s \/ queue[k].base + queue[k].len <= last)
    BY <1>2 DEF Wrapped
  <2>2. FrameWords \in Nat /\ FrameWords + Guard <= Size /\ used + n <= FrameWords /\ s \in Int
    BY <1>0 DEF LongEnough
  <2>3. \A w, u, f, z, g \in Nat, t \in Int :
          w + e - t <= u + 1 /\ e > z - g /\ f + g <= z /\ u + n <= f => w + n <= t
    OBVIOUS
  <2>4. wptr + n <= s
    BY <1>0, <1>2, <2>1, <2>2, <2>3
  <2> QED BY <1>0, <2>1, <2>2, <2>4
<1> QED BY <1>1, <1>2 DEF Behindhand

LEMMA PutRing ==
  ASSUME LongEnough, FramesTyped, RingInv, Busy, NEW n \in Nat, Put(n)
  PROVE  /\ ring' \in [0 .. Size - 1 -> Int]
         /\ \A k \in 1 .. Len(queue) :
              \A i \in queue[k].base .. queue[k].base + queue[k].len - 1 : ring'[i] = queue[k].serial
         /\ \A i \in last .. wptr + n - 1 : i < Size => ring'[i] = serial
         /\ used + n <= FrameWords
<1>1. /\ used + n <= FrameWords
      /\ ring' = [i \in 0 .. Size - 1 |-> IF wptr <= i /\ i < wptr + n THEN serial ELSE ring[i]]
  BY DEF Put
<1>2. /\ ring \in [0 .. Size - 1 -> Int] /\ serial \in Int /\ wptr \in Nat /\ last \in Nat /\ used \in Nat
      /\ Size \in Nat /\ Len(queue) \in Nat /\ DOMAIN queue = 1 .. Len(queue)
  BY Numbers DEF RingInv, RingTyped
<1>3. ring' \in [0 .. Size - 1 -> Int]
  BY <1>1, <1>2
<1>4. \E s \in 0 .. Size - Guard : Behindhand(s)
  <2>1. used <= FrameWords
    BY <1>1, <1>2 DEF LongEnough
  <2> QED BY <2>1 DEF RingInv, Room
<1>5. PICK s \in 0 .. Size - Guard : Behindhand(s)
  BY <1>4
<1>6. ASSUME NEW k \in 1 .. Len(queue), NEW i \in queue[k].base .. queue[k].base + queue[k].len - 1
      PROVE  ring'[i] = queue[k].serial
  <2>1. queue[k].base + queue[k].len <= wptr \/ wptr + n <= queue[k].base
    BY <1>1, <1>5, PutFree
  <2>2. /\ queue[k].base \in Int /\ queue[k].len \in Int
        /\ queue[k].base >= 0 /\ queue[k].base + queue[k].len < Size
    BY Numbers DEF RingInv, Sent
  <2>3. i \in 0 .. Size - 1 /\ ~(wptr <= i /\ i < wptr + n)
    <3>1. i \in Int /\ queue[k].base <= i /\ i < queue[k].base + queue[k].len
      BY <2>2
    <3>2. \A b, l \in Int, w, z \in Nat :
            /\ b >= 0 /\ b + l < z /\ b <= i /\ i < b + l /\ (b + l <= w \/ w + n <= b)
            => i \in 0 .. z - 1 /\ ~(w <= i /\ i < w + n)
      BY <3>1
    <3> QED BY <1>2, <2>1, <2>2, <3>1, <3>2
  <2>4. ring[i] = queue[k].serial
    BY <1>2 DEF RingInv, RingIntact
  <2> QED BY <1>1, <2>3, <2>4
<1>7. ASSUME NEW i \in last .. wptr + n - 1, i < Size
      PROVE  ring'[i] = serial
  <2>1. i \in 0 .. Size - 1
    BY <1>2, <1>7
  <2>2. i < wptr => ring[i] = serial
    <3>1. i < wptr => i \in last .. wptr - 1
      BY <1>2
    <3> QED BY <1>7, <3>1 DEF RingInv, Unsent
  <2> QED BY <1>1, <1>2, <2>1, <2>2
<1> QED BY <1>1, <1>3, <1>6, <1>7

(* Commands that are written and not sent yet. *)
LEMMA WroteRing ==
  ASSUME LongEnough, FramesTyped, RingInv, Busy, NEW n \in Nat, Put(n), cpu' = "run",
         wptr' = wptr + n, used' \in Nat, UNCHANGED <<last, serial, queue>>
  PROVE  RingTyped' /\ Named' /\ Sent' /\ Unsent' /\ RingIntact'
<1>1. /\ ring' \in [0 .. Size - 1 -> Int]
      /\ \A k \in 1 .. Len(queue) :
           \A i \in queue[k].base .. queue[k].base + queue[k].len - 1 : ring'[i] = queue[k].serial
      /\ \A i \in last .. wptr + n - 1 : i < Size => ring'[i] = serial
  BY PutRing
<1>2. wptr' \in Nat /\ DOMAIN queue = 1 .. Len(queue)
  <2>1. wptr \in Nat /\ DOMAIN queue = 1 .. Len(queue)
    BY Numbers DEF RingInv
  <2> QED BY <2>1
<1>3. RingTyped'
  BY <1>1, <1>2 DEF RingInv, RingTyped
<1>4. Named' /\ Sent'
  BY DEF RingInv, Named, Sent, Busy, Turn
<1>5. Unsent'
  <2>1. \A i \in last' .. wptr' - 1 : i < Size => ring'[i] = serial'
    <3>1. wptr \in Nat
      BY Numbers DEF RingInv
    <3>2. last' = last /\ serial' = serial /\ wptr' - 1 = wptr + n - 1
      BY <3>1
    <3> QED BY <1>1, <3>2, Zenon
  <2> QED BY <2>1 DEF Unsent
<1>6. RingIntact'
  BY <1>1, <1>2 DEF RingIntact
<1> QED BY <1>3, <1>4, <1>5, <1>6

LEMMA EmitRing ==
  ASSUME LongEnough, FramesTyped, RingInv, NEW n \in Nat, NEW vbs, Emit(n, vbs)
  PROVE  RingInv'
<1>1. /\ Put(n) /\ cpu = "run" /\ cpu' = "run" /\ wptr' = wptr + n /\ used' = used + n
      /\ UNCHANGED <<last, serial, queue>>
  BY DEF Emit
<1>2. wptr \in Nat /\ last \in Nat /\ used \in Nat /\ Busy
  BY <1>1, Numbers DEF RingInv, Busy
<1>3. used' \in Nat
  BY <1>1, <1>2
<1>4. used + n <= FrameWords /\ FrameWords \in Nat
  BY <1>1 DEF Put, LongEnough
<1>5. PICK s \in 0 .. Size - Guard : Behindhand(s)
  BY <1>2, <1>4 DEF RingInv, Room
<1>6. s \in Int
  OBVIOUS
<1>7. Behindhand(s)'
  <2>1. CASE Straight(s)
    <3>1. wptr + n <= s + (used + n) + 1 /\ last <= wptr + n
      <4>1. wptr <= s + used + 1 /\ last <= wptr
        BY <2>1 DEF Straight
      <4> QED BY <1>2, <1>6, <4>1
    <3>2. Straight(s)'
      BY <1>1, <2>1, <3>1 DEF Straight
    <3> QED BY <3>2 DEF Behindhand
  <2>2. ASSUME NEW e \in Int, e > Size - Guard, Wrapped(s, e) PROVE Behindhand(s)'
    <3>1. (wptr + n) + e - s <= (used + n) + 1 /\ last <= wptr + n
      <4>1. wptr + e - s <= used + 1 /\ last <= wptr
        BY <2>2 DEF Wrapped
      <4> QED BY <1>2, <1>6, <4>1
    <3>2. Wrapped(s, e)'
      BY <1>1, <2>2, <3>1 DEF Wrapped
    <3> QED BY <2>2, <3>2 DEF Behindhand
  <2> QED BY <1>5, <2>1, <2>2 DEF Behindhand
<1>8. Room'
  BY <1>7 DEF Room
<1> QED BY <1>1, <1>2, <1>3, <1>8, WroteRing DEF RingInv

LEMMA StartRing ==
  ASSUME LongEnough, FramesTyped, RingInv, StartNext
  PROVE  RingInv'
<1>1. CASE Reset \/ LoadUcodes \/ RingTest \/ MasterInit
  <2>1. /\ UNCHANGED <<wptr, last, ring, serial, queue, used>>
        /\ cpu \in {"reset", "ucodes", "ringtest", "master"}
        /\ cpu' \in {"reset", "ucodes", "ringtest", "master", "init", "fatal"}
    BY <1>1 DEF Reset, LoadUcodes, RingTest, MasterInit, Starting
  <2>2. Busy /\ cpu' # "wait"
    BY <2>1 DEF Busy
  <2>3. RingTyped'
    BY <2>1 DEF RingInv, RingTyped
  <2>4. Named' /\ Sent'
    BY <2>1, <2>2 DEF RingInv, Named, Sent, Turn
  <2>5. Unsent'
    BY <2>1, <2>2 DEF RingInv, Unsent
  <2>6. Room'
    BY <2>1, <2>2 DEF RingInv, Room, Behindhand, Straight, Wrapped
  <2>7. RingIntact'
    BY <2>1 DEF RingInv, RingIntact
  <2> QED BY <2>3, <2>4, <2>5, <2>6, <2>7 DEF RingInv
<1>2. CASE FirstCommands
  <2>1. /\ UNCHANGED <<last, serial, queue, used>> /\ Put(1)
        /\ cpu = "init" /\ cpu' = "run" /\ wptr' = wptr + 1
    BY <1>2 DEF FirstCommands
  <2>2. Busy /\ used' \in Nat /\ wptr = 0 /\ last = 0 /\ queue = <<>> /\ Size \in Nat /\ Guard \in Nat
        /\ Size - Guard >= 0
    BY <2>1, Numbers DEF Busy, RingInv, RingTyped
  <2>3. RingTyped' /\ Named' /\ Sent' /\ Unsent' /\ RingIntact'
    BY <2>1, <2>2, WroteRing
  <2>4. Straight(0)'
    <3>1. 1 .. Len(queue)' = {}
      BY <2>1, <2>2
    <3> QED BY <2>1, <2>2, <3>1 DEF Straight
  <2>5. Room'
    BY <2>2, <2>4 DEF Room, Behindhand
  <2> QED BY <2>3, <2>5 DEF RingInv
<1> QED BY <1>1, <1>2 DEF StartNext

(* The place the next segment begins at: behind the one just sent, or at   *)
(* the beginning of the ring.                                              *)
LEMMA KickRoom ==
  ASSUME LongEnough, FramesTyped, RingInv, Busy, NEW n \in Nat, used + n <= FrameWords,
         NEW w, w = Aligned(wptr + n), w < Size,
         NEW u \in Nat, w <= wptr + (u - used)
  PROVE  LET next == NextStart(w)
             old == 1 .. Len(queue)
         IN /\ next \in Nat /\ next <= Size - Guard
            /\ u <= FrameWords =>
                 \E s \in 0 .. Size - Guard :
                   \/ /\ s <= next /\ next <= s + u + 1 /\ s <= last /\ wptr + n <= next
                      /\ \A k \in old : queue[k].base >= s /\ queue[k].base + queue[k].len <= next
                   \/ \E e \in Int :
                        /\ e > Size - Guard /\ next + e - s <= u + 1
                        /\ last >= s \/ wptr + n <= next
                        /\ \A k \in old : queue[k].base >= s \/ queue[k].base + queue[k].len <= next
<1>1. /\ wptr \in Nat /\ last \in Nat /\ used \in Nat /\ Size \in Nat /\ Guard \in Nat /\ Size - Guard >= 0
      /\ wptr + n \in Nat
      /\ \A k \in 1 .. Len(queue) : queue[k].base \in Int /\ queue[k].len \in Int
  <2>1. RingTyped
    BY DEF RingInv
  <2>2. wptr \in Nat
    BY <2>1, Numbers
  <2>3. \A x \in Nat : x + n \in Nat
    OBVIOUS
  <2>4. wptr + n \in Nat
    BY <2>2, <2>3
  <2> QED BY <2>1, <2>4, Numbers
<1>2. w \in Nat /\ wptr + n <= w
  BY <1>1, AlignedUp
<1>3. FrameWords \in Nat /\ FrameWords + Guard <= Size
  BY DEF LongEnough
<1>4. PICK s \in 0 .. Size - Guard : Behindhand(s)
  <2>1. used <= FrameWords
    BY <1>1, <1>3
  <2> QED BY <2>1 DEF RingInv, Room
<1>5. s \in Nat /\ s <= Size - Guard
  BY <1>1
<1>6. last <= wptr
  BY <1>4 DEF Behindhand, Straight, Wrapped
<1>7. CASE w <= Size - Guard
  <2>1. NextStart(w) = w
    BY <1>1, <1>2, <1>7 DEF NextStart
  <2>2. CASE Straight(s)
    <3>1. s <= last /\ wptr <= s + used + 1
          /\ \A k \in 1 .. Len(queue) : queue[k].base >= s /\ queue[k].base + queue[k].len <= last
      BY <2>2 DEF Straight
    <3>2. s <= w /\ w <= s + u + 1 /\ last <= w
      BY <1>1, <1>2, <1>5, <1>6, <3>1
    <3>3. \A k \in 1 .. Len(queue) : queue[k].base >= s /\ queue[k].base + queue[k].len <= w
      <4> SUFFICES ASSUME NEW k \in 1 .. Len(queue) PROVE queue[k].base + queue[k].len <= w
        BY <3>1
      <4>1. \A b, l \in Int : b + l <= last => b + l <= w
        BY <1>1, <1>2, <3>2
      <4> QED BY <1>1, <3>1, <4>1
    <3> QED BY <1>2, <1>7, <2>1, <3>1, <3>2, <3>3
  <2>3. ASSUME NEW e \in Int, e > Size - Guard, Wrapped(s, e)
        PROVE  /\ w + e - s <= u + 1
               /\ \A k \in 1 .. Len(queue) : queue[k].base >= s \/ queue[k].base + queue[k].len <= w
    <3>1. wptr + e - s <= used + 1
          /\ \A k \in 1 .. Len(queue) : queue[k].base >= s \/ queue[k].base + queue[k].len <= last
      BY <2>3 DEF Wrapped
    <3>2. w + e - s <= u + 1 /\ last <= w
      BY <1>1, <1>2, <1>5, <1>6, <3>1
    <3>3. \A k \in 1 .. Len(queue) : queue[k].base >= s \/ queue[k].base + queue[k].len <= w
      <4> SUFFICES ASSUME NEW k \in 1 .. Len(queue), ~(queue[k].base >= s)
                   PROVE  queue[k].base + queue[k].len <= w
        OBVIOUS
      <4>1. \A b, l \in Int : b + l <= last => b + l <= w
        BY <1>1, <1>2, <3>2
      <4> QED BY <1>1, <3>1, <4>1
    <3> QED BY <3>2, <3>3
  <2>4. CASE \E e \in Int : e > Size - Guard /\ Wrapped(s, e)
    BY <1>2, <1>7, <2>1, <2>3, <2>4
  <2> QED BY <1>4, <2>2, <2>4 DEF Behindhand
<1>8. CASE ~(w <= Size - Guard)
  <2>1. NextStart(w) = 0 /\ w > Size - Guard /\ w \in Int
    <3>1. w \in Int /\ Size - Guard \in Int
      BY <1>1, <1>2
    <3>2. w > Size - Guard
      BY <1>8, <3>1
    <3> QED BY <3>1, <3>2 DEF NextStart
  <2>2. CASE Straight(s)
    <3>1. s <= last /\ wptr <= s + used + 1
          /\ \A k \in 1 .. Len(queue) : queue[k].base >= s
      BY <2>2 DEF Straight
    <3>2. 0 + w - s <= u + 1
      BY <1>1, <1>2, <1>5, <3>1
    <3>3. /\ w > Size - Guard /\ 0 + w - s <= u + 1
          /\ last >= s \/ wptr + n <= 0
          /\ \A k \in 1 .. Len(queue) : queue[k].base >= s \/ queue[k].base + queue[k].len <= 0
      BY <1>1, <1>5, <2>1, <3>1, <3>2
    <3>4. NextStart(w) \in Nat /\ NextStart(w) <= Size - Guard
      <4>1. \A y \in Int : y >= 0 => 0 <= y
        OBVIOUS
      <4> QED BY <1>1, <2>1, <4>1
    <3> QED BY <2>1, <3>3, <3>4
  <2>3. ASSUME NEW e \in Int, e > Size - Guard, Wrapped(s, e)
        PROVE  ~(u <= FrameWords)
    <3>1. wptr + e - s <= used + 1
      BY <2>3 DEF Wrapped
    <3> QED BY <1>1, <1>2, <1>3, <1>5, <2>1, <2>3, <3>1
  <2>4. CASE \E e \in Int : e > Size - Guard /\ Wrapped(s, e)
    BY <1>1, <2>1, <2>3, <2>4
  <2> QED BY <1>4, <2>2, <2>4 DEF Behindhand
<1> QED BY <1>7, <1>8

LEMMA LastBefore ==
  ASSUME LongEnough, FramesTyped, RingInv, Busy, NEW n \in Nat, used + n <= FrameWords
  PROVE  last <= wptr
<1>1. used <= FrameWords
  <2>1. \A u \in Nat : u + n <= FrameWords => u <= FrameWords
    BY DEF LongEnough
  <2> QED BY <2>1, Numbers DEF RingInv
<1>2. PICK s \in 0 .. Size - Guard : Behindhand(s)
  BY <1>1 DEF RingInv, Room
<1> QED BY <1>2 DEF Behindhand, Straight, Wrapped

(* A segment's name is a new one: the next of the names that go round.     *)
LEMMA KickNamed ==
  ASSUME FramesTyped, RingTyped, Named, Len(queue) <= Primary, NEW seg, seg.serial = serial,
         queue' = Append(queue, seg), Len(queue') = Len(queue) + 1,
         \A k \in 1 .. Len(queue) : queue'[k] = queue[k],
         queue'[Len(queue) + 1] = seg,
         serial' = (serial % (Primary + 2)) + 1,
         Busy' => Len(queue) < Primary
  PROVE  Named' /\ serial' \in 1 .. Primary + 2
<1> DEFINE l == Len(queue)
<1>1. l \in Nat /\ Primary \in Nat /\ serial \in 1 .. Primary + 2
  BY Numbers DEF RingTyped
<1>2. serial' = IF serial = Primary + 2 THEN 1 ELSE serial + 1
  BY <1>1, NextTurn
<1>3. serial' \in 1 .. Primary + 2
  BY <1>1, <1>2
<1>4. l + 1 <= Primary + 1 /\ (Busy' => l + 1 <= Primary)
  BY <1>1
<1>5. ASSUME NEW k \in 1 .. l + 1
      PROVE  queue'[k].serial = Turn(serial' - ((l + 1) + 1 - k))
  <2>1. k \in Int /\ 1 <= k /\ k <= l + 1 /\ l <= Primary
    BY <1>1
  <2>2. CASE k = l + 1
    <3>1. queue'[k].serial = serial
      BY <2>2
    <3>2. serial = Turn(serial' - ((l + 1) + 1 - k))
      BY <1>1, <1>2, <2>2 DEF Turn
    <3> QED BY <3>1, <3>2
  <2>3. CASE k # l + 1
    <3>1. k \in 1 .. l
      BY <1>1, <2>1, <2>3
    <3>2. queue'[k].serial = Turn(serial - (l + 1 - k))
      BY <3>1 DEF Named
    <3>3. Turn(serial - (l + 1 - k)) = Turn(serial' - ((l + 1) + 1 - k))
      <4>1. CASE serial = Primary + 2
        <5>1. serial' = 1
          BY <1>2, <4>1
        <5>2. /\ serial - (l + 1 - k) = Primary + 1 - l + k /\ Primary + 1 - l + k > 0
              /\ 1 - ((l + 1) + 1 - k) = k - 1 - l /\ k - 1 - l <= 0
              /\ k - 1 - l + Primary + 2 = Primary + 1 - l + k
          BY <1>1, <2>1, <4>1
        <5>3. Turn(Primary + 1 - l + k) = Primary + 1 - l + k
          BY <1>1, <2>1, <5>2 DEF Turn
        <5>4. Turn(k - 1 - l) = Primary + 1 - l + k
          BY <1>1, <2>1, <5>2 DEF Turn
        <5> QED BY <5>1, <5>2, <5>3, <5>4
      <4>2. CASE serial # Primary + 2
        <5>1. serial' = serial + 1
          BY <1>2, <4>2
        <5>2. serial - (l + 1 - k) = (serial + 1) - ((l + 1) + 1 - k)
          BY <1>1, <2>1
        <5> QED BY <5>1, <5>2
      <4> QED BY <4>1, <4>2
    <3> QED BY <3>2, <3>3
  <2> QED BY <2>2, <2>3
<1>6. \A k \in 1 .. Len(queue') : queue'[k].serial = Turn(serial' - (Len(queue') + 1 - k))
  BY <1>5
<1>7. Named'
  BY <1>4, <1>6 DEF Named, Turn
<1> QED BY <1>3, <1>7

LEMMA KickRing ==
  ASSUME LongEnough, FramesInv, RingInv, cpu = "run", NEW n \in Nat, NEW step \in Int, NEW then,
         \/ n = 1 /\ step = -1 /\ then = "run" /\ Len(queue) < Primary /\ used' = used + Aligned(1)
         \/ then = "wait" /\ used' = used,
         Kick(n, step, then)
  PROVE  RingInv'
<1> DEFINE w == Aligned(wptr + n)
           l == Len(queue)
<1>1. Busy /\ Put(n) /\ FramesTyped /\ RingTyped /\ WordBehind
  BY DEF Busy, Kick, FramesInv, RingInv
<1>2. /\ ring' \in [0 .. Size - 1 -> Int]
      /\ \A k \in 1 .. Len(queue) :
           \A i \in queue[k].base .. queue[k].base + queue[k].len - 1 : ring'[i] = queue[k].serial
      /\ \A i \in last .. wptr + n - 1 : i < Size => ring'[i] = serial
      /\ used + n <= FrameWords
  BY <1>1, PutRing
<1>3. /\ wptr \in Nat /\ last \in Nat /\ used \in Nat /\ Size \in Nat /\ Guard \in Nat /\ Primary \in Nat
      /\ l \in Nat /\ DOMAIN queue = 1 .. l
      /\ last <= wptr
  BY <1>1, <1>2, Numbers, LastBefore
<1>4. wptr + n \in Nat /\ wptr <= wptr + n
  BY <1>3
<1>5. w \in Nat /\ wptr + n <= w /\ w < wptr + n + Align /\ Aligned(1) = Align /\ Align \in Nat
  BY <1>4, AlignedUp, FramesAssumption DEF FramesAssumption
<1>6. l <= Primary
  BY <1>1 DEF RingInv, Named
<1>7. used' \in Nat
  <2>1. used' = used \/ used' = used + Align
    BY <1>5
  <2>2. used + Align \in Nat
    BY <1>3, <1>5
  <2> QED BY <1>3, <2>1, <2>2, Zenon
<1> HIDE DEF w
<1>8. CASE w >= Size
  <2>1. cpu' = "fatal" /\ wptr' = wptr + n /\ UNCHANGED <<last, serial, queue>>
    BY <1>8 DEF Kick, w
  <2>2. RingTyped'
    BY <1>1, <1>2, <1>4, <1>7, <2>1 DEF RingTyped
  <2>3. Named' /\ Sent'
    BY <2>1 DEF RingInv, Named, Sent, Turn, Busy
  <2>4. Unsent' /\ Room'
    BY <2>1 DEF Unsent, Room, Busy
  <2>5. RingIntact'
    BY <1>2, <1>3, <2>1 DEF RingIntact
  <2> QED BY <2>2, <2>3, <2>4, <2>5 DEF RingInv
<1>9. CASE ~(w >= Size)
  <2> DEFINE seg == [base |-> last, len |-> wptr + n - last, serial |-> serial,
                     draws |-> cmds, step |-> step]
             next == NextStart(w)
  <2>1. /\ cpu' = then /\ queue' = Append(queue, seg)
        /\ serial' = (serial % (Primary + 2)) + 1
        /\ last' = next /\ wptr' = last'
    BY <1>9 DEF Kick, w
  <2>2. seg \in Segments /\ queue \in Seq(Segments)
    BY <1>1, <1>3 DEF Segments, FramesTyped
  <2>3. seg.base = last /\ seg.len = wptr + n - last /\ seg.serial = serial /\ seg.step = step
    OBVIOUS
  <2> HIDE DEF seg
  <2>4. /\ Len(queue') = l + 1 /\ DOMAIN queue' = 1 .. l + 1
        /\ \A k \in 1 .. l : queue'[k] = queue[k]
        /\ queue'[l + 1] = seg
    BY <2>1, <2>2, <1>3
  <2>5. \A k \in 1 .. l + 1 : k \in 1 .. l \/ k = l + 1
    BY <1>3
  <2>6. seg.base + seg.len = wptr + n /\ seg.len >= 0 /\ w < Size
    <3>1. \A x, y, z \in Nat : x <= y => x + (y - x) = y /\ y - x >= 0
      OBVIOUS
    <3>2. last <= wptr + n /\ wptr + (n - last) = (wptr + n) - last
      BY <1>3, <1>4
    <3>3. last + (wptr + n - last) = wptr + n /\ wptr + n - last >= 0
      BY <1>3, <1>4, <3>1, <3>2
    <3>4. w < Size
      BY <1>3, <1>5, <1>9
    <3> QED BY <2>3, <3>3, <3>4
  <2>7. Named' /\ serial' \in 1 .. Primary + 2
    <3>1. Named
      BY DEF RingInv
    <3>2. Busy' => Len(queue) < Primary
      BY <2>1 DEF Busy
    <3> QED BY <1>1, <1>6, <2>1, <2>3, <2>4, <3>1, <3>2, KickNamed
  <2>8. Sent'
    <3> SUFFICES ASSUME NEW k \in 1 .. l + 1
                 PROVE  /\ queue'[k].base >= 0 /\ queue'[k].len >= 0 /\ queue'[k].base + queue'[k].len < Size
                        /\ k < l + 1 => queue'[k].step = -1
      BY <2>4 DEF Sent
    <3>1. CASE k \in 1 .. l
      <4>1. queue[k].step = -1
        BY <1>1, <1>3, <3>1 DEF WordBehind
      <4> QED BY <2>4, <3>1, <4>1 DEF RingInv, Sent
    <3>2. CASE k = l + 1
      <4>1. last >= 0 /\ wptr + n < Size /\ ~(k < l + 1)
        BY <1>3, <1>4, <1>5, <2>6, <3>2
      <4> QED BY <2>3, <2>4, <2>6, <3>2, <4>1
    <3> QED BY <2>5, <3>1, <3>2
  <2>9. RingIntact'
    <3> SUFFICES ASSUME NEW k \in 1 .. l + 1, NEW i \in queue'[k].base .. queue'[k].base + queue'[k].len - 1
                 PROVE  ring'[i] = queue'[k].serial
      BY <2>4 DEF RingIntact
    <3>1. CASE k \in 1 .. l
      BY <1>2, <2>4, <3>1
    <3>2. CASE k = l + 1
      <4>1. i \in seg.base .. seg.base + seg.len - 1 /\ seg.len \in Int
        BY <2>2, <2>4, <3>2 DEF Segments
      <4>2. i \in last .. (wptr + n) - 1
        <5>1. last + seg.len - 1 = (wptr + n) - 1
          BY <1>3, <1>4, <2>3, <2>6, <4>1
        <5> QED BY <2>3, <4>1, <5>1
      <4>3. i \in last .. wptr + n - 1 /\ i < Size
        <5>1. (wptr + n) - 1 = wptr + n - 1 /\ (wptr + n) - 1 < Size
          BY <1>3, <1>4, <1>5, <2>6
        <5> QED BY <1>3, <1>4, <4>2, <5>1
      <4> QED BY <1>2, <2>3, <2>4, <3>2, <4>3
    <3> QED BY <2>5, <3>1, <3>2
  <2>10. next \in Nat /\ next <= Size - Guard
    <3> DEFINE u == used + (w - wptr)
    <3>1. u \in Nat /\ w <= wptr + (u - used)
      <4>1. \A x, y, z, t \in Nat : x <= y /\ y <= z => t + (z - x) \in Nat /\ z <= x + ((t + (z - x)) - t)
        OBVIOUS
      <4> QED BY <1>3, <1>4, <1>5, <4>1
    <3> HIDE DEF u
    <3> QED BY <1>1, <1>2, <2>6, <3>1, KickRoom DEF w
  <2>11. RingTyped'
    <3>1. cpu' \in {"run", "wait"}
      BY <2>1
    <3> QED BY <1>2, <1>7, <2>1, <2>7, <2>10, <3>1 DEF RingTyped
  <2>12. Unsent'
    <3>1. last' .. wptr' - 1 = {}
      BY <2>1, <2>10
    <3> QED BY <2>1, <2>10, <3>1 DEF Unsent
  <2>13. Room'
    <3>1. CASE then = "wait"
      BY <2>1, <3>1 DEF Room, Busy
    <3>2. CASE n = 1 /\ used' = used + Aligned(1)
      <4>1. w <= wptr + (used' - used)
        <5>1. used' - used = Align
          BY <1>3, <1>5, <3>2
        <5>2. w < wptr + 1 + Align
          BY <1>5, <3>2
        <5> QED BY <1>3, <1>5, <5>1, <5>2
      <4>2. used' <= FrameWords =>
              \E s \in 0 .. Size - Guard :
                \/ /\ s <= next /\ next <= s + used' + 1 /\ s <= last /\ wptr + n <= next
                   /\ \A k \in 1 .. l : queue[k].base >= s /\ queue[k].base + queue[k].len <= next
                \/ \E e \in Int :
                     /\ e > Size - Guard /\ next + e - s <= used' + 1
                     /\ last >= s \/ wptr + n <= next
                     /\ \A k \in 1 .. l : queue[k].base >= s \/ queue[k].base + queue[k].len <= next
        BY <1>1, <1>2, <1>7, <2>6, <4>1, KickRoom DEF w
      <4>3. ASSUME NEW s \in 0 .. Size - Guard,
                   s <= next, next <= s + used' + 1, s <= last, wptr + n <= next,
                   \A k \in 1 .. l : queue[k].base >= s /\ queue[k].base + queue[k].len <= next
            PROVE  Straight(s)'
        <5>1. \A k \in 1 .. l + 1 : queue'[k].base >= s /\ queue'[k].base + queue'[k].len <= next
          <6> SUFFICES ASSUME NEW k \in 1 .. l + 1
                       PROVE  queue'[k].base >= s /\ queue'[k].base + queue'[k].len <= next
            OBVIOUS
          <6>1. CASE k \in 1 .. l
            BY <2>4, <4>3, <6>1
          <6>2. CASE k = l + 1
            <7>1. last >= s
              BY <1>3, <4>3
            <7> QED BY <2>3, <2>4, <2>6, <4>3, <6>2, <7>1
          <6> QED BY <2>5, <6>1, <6>2
        <5>2. next <= next
          BY <2>10
        <5> QED BY <2>1, <2>4, <4>3, <5>1, <5>2 DEF Straight
      <4>4. ASSUME NEW s \in 0 .. Size - Guard, NEW e \in Int,
                   e > Size - Guard, next + e - s <= used' + 1,
                   last >= s \/ wptr + n <= next,
                   \A k \in 1 .. l : queue[k].base >= s \/ queue[k].base + queue[k].len <= next
            PROVE  Wrapped(s, e)'
        <5>1. \A k \in 1 .. l + 1 : queue'[k].base >= s \/ queue'[k].base + queue'[k].len <= next
          <6> SUFFICES ASSUME NEW k \in 1 .. l + 1
                       PROVE  queue'[k].base >= s \/ queue'[k].base + queue'[k].len <= next
            OBVIOUS
          <6>1. CASE k \in 1 .. l
            BY <2>4, <4>4, <6>1
          <6>2. CASE k = l + 1
            BY <2>3, <2>4, <2>6, <4>4, <6>2
          <6> QED BY <2>5, <6>1, <6>2
        <5>2. next <= next
          BY <2>10
        <5> QED BY <2>1, <2>4, <4>4, <5>1, <5>2 DEF Wrapped
      <4>5. used' <= FrameWords => \E s \in 0 .. Size - Guard : Behindhand(s)'
        BY <4>2, <4>3, <4>4 DEF Behindhand
      <4> QED BY <4>5 DEF Room
    <3> QED BY <3>1, <3>2
  <2> QED BY <2>7, <2>8, <2>9, <2>11, <2>12, <2>13 DEF RingInv
<1> QED BY <1>8, <1>9

LEMMA SendRing ==
  ASSUME LongEnough, FramesInv, RingInv, Execute \/ SyncStart
  PROVE  RingInv'
<1>1. CASE Execute
  <2>1. cpu = "run" /\ Kick(1, -1, "run") /\ Len(queue) < Primary /\ used' = used + Aligned(1)
        /\ 1 \in Nat /\ -1 \in Int
    BY <1>1 DEF Execute, IdleWords
  <2> QED BY <2>1, KickRing
<1>2. CASE SyncStart
  <2>1. /\ cpu = "run" /\ Kick(StepWords + IdleWords, frame, "wait") /\ used' = used
        /\ StepWords + IdleWords \in Nat /\ frame \in Int
    BY <1>2 DEF SyncStart, StepWords, IdleWords, FramesInv, FramesTyped
  <2> QED BY <2>1, KickRing
<1> QED BY <1>1, <1>2

(* The GPU works a segment off: the words it read are no other segment's,  *)
(* and the first word is written to when there is no other.                *)
LEMMA SegmentRing ==
  ASSUME FramesInv, RingInv, GpuSegment
  PROVE  RingInv'
<1> DEFINE l == Len(queue)
           first == Head(queue)
<1>1. /\ queue # <<>> /\ queue' = Tail(queue)
      /\ ring' = [i \in DOMAIN ring |-> IF ring[i] = first.serial THEN 0
                                         ELSE IF i = 0 /\ first.step >= 0 THEN 0 ELSE ring[i]]
      /\ UNCHANGED <<cpu, wptr, last, serial, used>>
  BY DEF GpuSegment
<1>2. FramesTyped /\ RingTyped /\ Named /\ Sent /\ WordBehind
  BY DEF FramesInv, RingInv
<1>3. queue \in Seq(Segments)
  BY <1>2 DEF FramesTyped
<1>4. /\ l \in Nat /\ l >= 1 /\ DOMAIN queue = 1 .. l /\ first = queue[1]
      /\ Len(queue') = l - 1 /\ DOMAIN queue' = 1 .. l - 1
      /\ \A k \in 1 .. l - 1 : queue'[k] = queue[k + 1] /\ k + 1 \in 1 .. l
  BY <1>1, <1>3
<1> HIDE DEF l, first
<1>5. /\ Size \in Nat /\ Primary \in Nat /\ serial \in 1 .. Primary + 2 /\ l <= Primary + 1
      /\ ring \in [0 .. Size - 1 -> Int]
  BY <1>2, Numbers DEF RingTyped, Named, l
<1>6. 1 \in 1 .. l
  BY <1>4
<1>7. \A k \in 1 .. l : queue[k].serial = Turn(serial - (l + 1 - k))
  BY <1>2 DEF Named, l
<1>8. first.serial = Turn(serial - l)
  <2>1. serial - (l + 1 - 1) = serial - l
    BY <1>4, <1>5
  <2>2. queue[1].serial = Turn(serial - (l + 1 - 1))
    BY <1>6, <1>7
  <2> QED BY <1>4, <2>1, <2>2
<1>9. first.serial # serial
  <2>1. Turn(serial - l) # serial
    BY <1>4, <1>5 DEF Turn
  <2> QED BY <1>8, <2>1
<1>10. ASSUME NEW k \in 1 .. l - 1
       PROVE  /\ queue'[k].serial # first.serial
              /\ queue'[k].serial = Turn(serial - ((l - 1) + 1 - k))
  <2>1. k \in Int /\ 1 <= k /\ k <= l - 1
    BY <1>4
  <2>2. queue'[k].serial = Turn(serial - (l + 1 - (k + 1)))
    BY <1>4, <1>7
  <2>3. l + 1 - (k + 1) = l - k /\ (l - 1) + 1 - k = l - k
    BY <1>4, <2>1
  <2>4. Turn(serial - (l - k)) # Turn(serial - l)
    BY <1>4, <1>5, <2>1 DEF Turn
  <2> QED BY <1>8, <2>2, <2>3, <2>4
<1>11. RingTyped'
  <2>1. ring' \in [0 .. Size - 1 -> Int]
    BY <1>1, <1>5
  <2>2. cpu \notin {"reset", "ucodes", "ringtest", "master", "init"}
    BY <1>1, <1>2 DEF RingTyped
  <2> QED BY <1>1, <1>2, <2>1, <2>2 DEF RingTyped
<1>12. Named'
  <2>1. Len(queue') <= Primary + 1 /\ (Busy' => Len(queue') <= Primary)
    <3>1. Busy' => l <= Primary
      BY <1>1, <1>2 DEF Busy, Named, l
    <3> QED BY <1>4, <1>5, <3>1
  <2>2. \A k \in 1 .. Len(queue') : queue'[k].serial = Turn(serial - (Len(queue') + 1 - k))
    BY <1>4, <1>10
  <2> QED BY <1>1, <2>1, <2>2 DEF Named, Turn
<1>13. Sent'
  <2> SUFFICES ASSUME NEW k \in 1 .. l - 1
               PROVE  /\ queue'[k].base >= 0 /\ queue'[k].len >= 0 /\ queue'[k].base + queue'[k].len < Size
                      /\ k < l - 1 => queue'[k].step = -1
    BY <1>4 DEF Sent
  <2>1. k < l - 1 => k + 1 < l
    BY <1>4
  <2>2. queue'[k] = queue[k + 1] /\ k + 1 \in 1 .. Len(queue)
    BY <1>4 DEF l
  <2> QED BY <1>2, <2>1, <2>2 DEF Sent, l
<1>14. first.step >= 0 => l = 1
  <2>1. 1 < l => first.step = -1
    BY <1>2, <1>4, <1>6 DEF Sent, l
  <2> QED BY <1>4, <2>1
<1>15. RingIntact'
  <2> SUFFICES ASSUME NEW k \in 1 .. l - 1, NEW i \in queue'[k].base .. queue'[k].base + queue'[k].len - 1
               PROVE  ring'[i] = queue'[k].serial
    BY <1>4 DEF RingIntact
  <2>1. queue'[k] = queue[k + 1] /\ k + 1 \in 1 .. l /\ k + 1 \in 1 .. Len(queue)
    BY <1>4 DEF l
  <2>2. /\ queue[k + 1].base >= 0 /\ queue[k + 1].base + queue[k + 1].len < Size
        /\ queue[k + 1].base \in Int /\ queue[k + 1].len \in Int
    BY <1>2, <2>1, Numbers DEF Sent
  <2>3. i \in 0 .. Size - 1
    BY <1>5, <2>1, <2>2
  <2>4. ring[i] = queue[k + 1].serial
    BY <1>4, <2>1 DEF RingInv, RingIntact
  <2>5. ring[i] # first.serial
    BY <1>10, <2>1, <2>4
  <2>6. ~(first.step >= 0)
    BY <1>4, <1>14
  <2>7. DOMAIN ring = 0 .. Size - 1
    BY <1>5
  <2> QED BY <1>1, <2>1, <2>3, <2>4, <2>5, <2>6, <2>7
<1>16. Unsent'
  <2>1. ASSUME Busy, NEW i \in last .. wptr - 1, i < Size
        PROVE  ring'[i] = serial
    <3>1. last \in Nat /\ wptr \in Nat
      BY <1>2 DEF RingTyped
    <3>2. i \in 0 .. Size - 1
      BY <1>5, <2>1, <3>1
    <3>3. ring[i] = serial
      BY <2>1 DEF RingInv, Unsent
    <3>4. ~(first.step >= 0)
      BY <1>2, <1>4, <1>6, <2>1 DEF WordBehind, Busy
    <3> QED BY <1>1, <1>5, <1>9, <3>2, <3>3, <3>4
  <2>2. Busy' <=> Busy
    BY <1>1 DEF Busy
  <2>3. cpu' = "wait" => wptr' = last' /\ last' <= Size - Guard
    BY <1>1 DEF RingInv, Unsent
  <2>4. Busy' => \A i \in last' .. wptr' - 1 : i < Size => ring'[i] = serial'
    BY <1>1, <2>1, <2>2
  <2> QED BY <2>3, <2>4 DEF Unsent
<1>17. Room'
  <2>1. ASSUME NEW s, Straight(s) PROVE Straight(s)'
    <3>1. \A k \in 1 .. l - 1 : queue'[k].base >= s /\ queue'[k].base + queue'[k].len <= last
      BY <1>4, <2>1 DEF Straight, l
    <3> QED BY <1>1, <1>4, <2>1, <3>1 DEF Straight
  <2>2. ASSUME NEW s, NEW e, Wrapped(s, e) PROVE Wrapped(s, e)'
    <3>1. \A k \in 1 .. l - 1 : queue'[k].base >= s \/ queue'[k].base + queue'[k].len <= last
      BY <1>4, <2>2 DEF Wrapped, l
    <3> QED BY <1>1, <1>4, <2>2, <3>1 DEF Wrapped
  <2>3. \A s : Behindhand(s) => Behindhand(s)'
    BY <2>1, <2>2 DEF Behindhand
  <2> QED BY <1>1, <2>3 DEF RingInv, Room, Busy
<1> QED BY <1>11, <1>12, <1>13, <1>15, <1>16, <1>17 DEF RingInv

(* Xe_Sync ends with all read, and the count begins anew. *)
LEMMA DoneRing ==
  ASSUME Header \notin 0 .. MaxFrames, LongEnough, FramesInv, RingInv, SyncDone
  PROVE  RingInv'
<1>1. /\ cpu = "wait" /\ word0 = frame /\ cpu' = "run" /\ used' = 0
      /\ UNCHANGED <<wptr, last, ring, serial, queue>>
  BY DEF SyncDone, Reached
<1>2. frame \in 0 .. MaxFrames /\ frame < MaxFrames
  BY <1>1, FramesAssumption DEF FramesInv, FramesTyped, WordBehind, FramesAssumption
<1>3. queue = <<>>
  BY <1>1, <1>2 DEF FramesInv, WordBehind, Behind
<1>4. Len(queue) = 0 /\ DOMAIN queue = {} /\ 1 .. Len(queue) = {}
  BY <1>3
<1>5. /\ Size \in Nat /\ Guard \in Nat /\ Primary \in Nat /\ wptr \in Nat /\ last \in Nat
      /\ wptr = last /\ last <= Size - Guard
  BY <1>1, Numbers DEF FramesInv, RingInv, Unsent
<1>6. RingTyped'
  BY <1>1 DEF RingInv, RingTyped
<1>7. Named' /\ Sent' /\ RingIntact'
  BY <1>1, <1>4, <1>5 DEF Named, Sent, RingIntact
<1>8. Unsent'
  <2>1. last .. wptr - 1 = {}
    BY <1>5
  <2> QED BY <1>1, <2>1 DEF Unsent
<1>9. Room'
  <2>1. last <= last /\ last <= last + 0 + 1 /\ last \in 0 .. Size - Guard
    BY <1>5
  <2>2. \E s \in 0 .. Size - Guard : Straight(s)'
    BY <1>1, <1>4, <1>5, <2>1 DEF Straight
  <2> QED BY <2>2 DEF Room, Behindhand
<1> QED BY <1>6, <1>7, <1>8, <1>9 DEF RingInv

(* What leaves the rings alone. *)
LEMMA AloneRing ==
  ASSUME RingInv, UNCHANGED <<wptr, last, ring, serial, queue, used>>,
         cpu' = cpu \/ cpu' = "fatal"
  PROVE  RingInv'
<1>1. RingTyped' /\ RingIntact'
  BY DEF RingInv, RingTyped, RingIntact
<1>2. Named' /\ Sent' /\ Unsent'
  BY DEF RingInv, Named, Turn, Sent, Unsent, Busy
<1>3. Room'
  BY DEF RingInv, Room, Behindhand, Straight, Wrapped, Busy
<1> QED BY <1>1, <1>2, <1>3 DEF RingInv

LEMMA RingStep ==
  ASSUME Header \notin 0 .. MaxFrames, LongEnough
  PROVE  FramesInv /\ RingInv /\ [Next]_vars => RingInv'
<1> SUFFICES ASSUME FramesInv, RingInv, [Next]_vars PROVE RingInv'
  OBVIOUS
<1>0. FramesTyped
  BY DEF FramesInv
<1>1. CASE UNCHANGED fvars
  BY <1>1, AloneRing DEF fvars
<1>2. CASE StartNext
  BY <1>0, <1>2, StartRing
<1>3. CASE FramesNext
  <2>1. ASSUME NEW n \in Commands, Command(n) PROVE RingInv'
    <3>1. n \in Nat
      BY FramesAssumption DEF FramesAssumption
    <3> QED BY <1>0, <2>1, <3>1, EmitRing DEF Command
  <2>2. ASSUME NEW n \in Puts, VBPut(n) PROVE RingInv'
    <3>1. (cpu' = cpu \/ cpu' = "fatal") /\ OnlyBuffers
      BY <2>2 DEF VBPut
    <3> QED BY <3>1, AloneRing DEF OnlyBuffers
  <2>3. CASE VBEnd \/ DrawBuilt \/ ResolveInto
    <3>1. \E n \in Nat, vbs \in {{}, ToSet(built), {[vb |-> Allocated(1)[1], words |-> RectWords]}} : Emit(n, vbs)
      <4>1. Len(head) \in Nat /\ Len(built) \in Nat /\ 2 \in Nat
        BY <1>0, IdsTyped DEF FramesTyped
      <4> QED BY <2>3, <4>1 DEF VBEnd, DrawBuilt, ResolveInto
    <3> QED BY <1>0, <3>1, EmitRing
  <2>4. CASE SyncTimeout \/ VBBegin \/ VBPoolAdd
    <3>1. /\ UNCHANGED <<wptr, last, ring, serial, queue, used>>
          /\ cpu' = cpu \/ cpu' = "fatal"
      BY <2>4 DEF SyncTimeout, VBBegin, VBPoolAdd, OnlyBuffers
    <3> QED BY <3>1, AloneRing
  <2> QED BY <1>3, <2>1, <2>2, <2>3, <2>4, SendRing, DoneRing, SegmentRing DEF FramesNext
<1> QED BY <1>1, <1>2, <1>3
        DEF Next, Video, StartGpu, Start, StartEdram, Calibrate, StartFrames, Frames, State, vars

(* The GPU finds every segment as it was sent (drivers/xenos/xe.c, rput32  *)
(* and Xe_pRBKick, which look at no read pointer), for any sizes of the    *)
(* rings and any calls, as long as what a program writes between two calls *)
(* of Xe_Sync fits in front of the guard: without that a long frame goes   *)
(* round the ring.  Header is as above: a wait that ends early would begin *)
(* the count too soon.                                                     *)
THEOREM SegmentsIntact ==
  ASSUME Header \notin 0 .. MaxFrames, LongEnough
  PROVE  Spec => []RingIntact
<1>1. Init => FramesInv /\ RingInv
  BY FramesStart, RingStart DEF Init
<1>2. FramesInv /\ RingInv /\ [Next]_vars => (FramesInv /\ RingInv)'
  BY FramesStep, RingStep
<1>3. FramesInv /\ RingInv => RingIntact
  BY DEF RingInv
<1> QED BY <1>1, <1>2, <1>3, PTL DEF Spec
=============================================================================
