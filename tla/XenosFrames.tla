---------------------------- MODULE XenosFrames ----------------------------
(***************************************************************************)
(* The command rings of the GPU and the vertex buffers of a frame          *)
(* (drivers/xenos/xe.c).  Commands are written to the secondary ring;      *)
(* Xe_Execute sends what was written as a segment to the primary ring,     *)
(* which the GPU works through behind the CPU.  Xe_Sync waits for a word   *)
(* that the GPU writes back, and gives the frame's vertex buffers back to  *)
(* their pool.  Nothing else looks at what the GPU has done.               *)
(***************************************************************************)
EXTENDS Integers, Sequences, FiniteSets, SequencesExt

CONSTANTS
  Size,       \* words of the secondary ring
  Guard,      \* words kept free behind the place where the ring wraps
  Align,      \* words a segment is aligned to
  Primary,    \* segments the primary ring holds
  Commands,   \* lengths of the commands a program gives
  Puts,       \* words of vertices a program puts at a time
  Space,      \* words VBPut fills a buffer with: vb->space, 0x10000
  Stride,     \* words from a buffer's memory to that of the next: 0x10000 bytes and a page
  MaxBuffers, \* bound: buffers the GPU's memory has room for
  FrameWords, \* bound: words a program writes between two calls of Xe_Sync
  MaxFrames,  \* bound: calls of Xe_Sync
  Header      \* first word of a command, among the numbers of frames

ASSUME FramesAssumption ==
  /\ Size \in Nat /\ Guard \in 1 .. Size /\ Align \in Nat \ {0}
  /\ Primary \in Nat \ {0} /\ Space \in Nat \ {0} /\ Stride \in Nat \ {0}
  /\ Commands \subseteq Nat /\ Puts \subseteq Nat
  /\ MaxFrames \in Nat /\ Header \in Nat

VARIABLES
  cpu,      \* "reset", "ucodes", "ringtest", "master", "init" in Xe_Init; "run", "wait" in Xe_Sync; "fatal"
  wptr, last, \* rb_secondary_wptr, last_wptr
  ring,     \* the segment a word of the ring belongs to, 0 when the GPU has read it
  word0,    \* the first word, where the GPU writes its scratch register to
  serial,   \* the name of the segment being written
  queue,    \* segments the GPU has not worked through: the primary ring
  cmds,     \* what the draws among the commands that are not sent yet read
  used,     \* words since Xe_Sync
  frame,    \* frameidx
  head,     \* vb_head: buffers of the vertices being put, with the words in each
  pitch,    \* between VBBegin and VBEnd
  built,    \* the list VBEnd gave to the program, in the same way
  pool, after, \* vb_pool, vb_pool_after_frame
  made      \* buffers created

fvars == <<cpu, wptr, last, ring, word0, serial, queue, cmds, used, frame,
           head, pitch, built, pool, after, made>>

\* Words Xe_Execute and Xe_pDebugSync add to the segment they send.
IdleWords == 1
StepWords == 1

\* Xe_Init, with Xe_pRBAlloc: empty rings.  The secondary ring begins where the
\* scratch register is written back to.
FramesInit ==
  /\ cpu = "reset"
  /\ wptr = 0 /\ last = 0
  /\ ring = [i \in 0 .. Size - 1 |-> 0]
  /\ word0 = -1
  /\ serial = 1 /\ queue = <<>>
  /\ cmds = {}
  /\ used = 0
  /\ frame = 0
  /\ head = <<>> /\ pitch = FALSE /\ built = <<>>
  /\ pool = <<>> /\ after = <<>> /\ made = 0
-----------------------------------------------------------------------------
(* Writing commands: rput32, rput. *)

\* n words, for the next segment; those behind the ring are lost in the memory
\* that follows it.
Put(n) ==
  /\ used + n <= FrameWords
  /\ ring' = [i \in 0 .. Size - 1 |-> IF wptr <= i /\ i < wptr + n THEN serial ELSE ring[i]]
  /\ word0' = IF wptr = 0 /\ n > 0 THEN Header ELSE word0

Emit(n, vbs) ==
  /\ cpu = "run"
  /\ Put(n)
  /\ used' = used + n
  /\ wptr' = wptr + n
  /\ cmds' = cmds \cup vbs
  /\ UNCHANGED <<cpu, last, serial, queue, frame>>

\* State, and draws of buffers that are the program's own.
Command(n) == Emit(n, {}) /\ UNCHANGED <<head, pitch, built, pool, after, made>>
-----------------------------------------------------------------------------
(* Starting the GPU: what Xe_Init does after it has allocated the rings. *)

Starting(from, to) ==
  /\ cpu = from
  /\ cpu' \in to
  /\ UNCHANGED <<wptr, last, ring, word0, serial, queue, cmds, used, frame,
                 head, pitch, built, pool, after, made>>

\* Xe_pReset: resets until the GPU is not busy, then looks at the outcome.
Reset == Starting("reset", {"reset", "ucodes", "fatal"})

\* Xe_pSetupRingbuffer and Xe_pLoadUcodes: the primary ring, and the microcode,
\* which is read back.
LoadUcodes == Starting("ucodes", {"ringtest", "fatal"})

\* Xe_pInit0: the ring once more; the GPU is not busy and both pointers are 0.
RingTest == Starting("ringtest", {"master", "fatal"})

\* The rest of Xe_pSetup and Xe_pMasterInit, and Xe_pEnableWriteback.
MasterInit == Starting("master", {"init"})

\* Xe_pGInit: the first commands, which are sent with those of the first frame.
FirstCommands ==
  /\ cpu = "init"
  /\ cpu' = "run"
  /\ Put(1)
  /\ wptr' = wptr + 1
  /\ UNCHANGED <<last, serial, queue, cmds, used, frame, head, pitch, built, pool, after, made>>
-----------------------------------------------------------------------------
(* Sending: Xe_pRBKick with KickSegment and CommitPrimary. *)

\* Segments are aligned to 128 bytes.
Aligned(w) == w + ((-w) % Align)

\* The ring starts again behind every segment but a long one.
NextStart_Reversed(w) == IF w < Size - Guard THEN 0 ELSE w

\* The ring starts again when the guard is touched.
NextStart(w) == IF w > Size - Guard THEN 0 ELSE w

\* n more words, and the segment up to them is sent.  The check comes after the
\* words are written: a ring that is overrun ends the program.
Kick(n, step, then) ==
  /\ Put(n)
  /\ IF Aligned(wptr + n) >= Size
     THEN /\ cpu' = "fatal"
          /\ wptr' = wptr + n
          /\ UNCHANGED <<last, serial, queue, cmds>>
     ELSE /\ cpu' = then
          /\ queue' = Append(queue, [base |-> last, len |-> wptr + n - last, serial |-> serial,
                                     draws |-> cmds, step |-> step])
          /\ serial' = (serial % (Primary + 2)) + 1    \* not one that is queued
          /\ last' = NextStart(Aligned(wptr + n))
          /\ wptr' = last'
          /\ cmds' = {}
  /\ UNCHANGED <<frame, head, pitch, built, pool, after, made>>

\* Xe_Execute: wait for idle, kick.  The driver does not look at the GPU's read
\* pointer; that the primary ring has room is up to the program.
Execute ==
  /\ cpu = "run"
  /\ Len(queue) < Primary
  /\ Kick(IdleWords, -1, "run")
  /\ used' = used + Aligned(IdleWords)

\* Xe_pDebugSync up to its loop: the number of the frame for the scratch
\* register, then as Xe_Execute.
SyncStart ==
  /\ cpu = "run" /\ frame < MaxFrames
  /\ Kick(StepWords + IdleWords, frame, "wait")
  /\ UNCHANGED used

Reached(w) == w = frame

\* Xe_VBReclaim.
Reclaimed == pool \o after

\* The end of the loop, and what Xe_Sync does then.
SyncDone ==
  /\ cpu = "wait" /\ Reached(word0)
  /\ cpu' = "run"
  /\ frame' = frame + 1
  /\ pool' = Reclaimed
  /\ after' = <<>>
  /\ used' = 0
  /\ UNCHANGED <<wptr, last, ring, word0, serial, queue, cmds, head, pitch, built, made>>

\* The GPU has not answered in 2^24 turns.
SyncTimeout ==
  /\ cpu = "wait" /\ ~Reached(word0)
  /\ cpu' = "fatal"
  /\ UNCHANGED <<wptr, last, ring, word0, serial, queue, cmds, used, frame,
                 head, pitch, built, pool, after, made>>

\* The GPU works a segment off.  The scratch register is written back to the
\* first word of the ring: SCRATCH_WRITEBACK is where Xe_pAlloc put it.
GpuSegment ==
  /\ queue # <<>>
  /\ queue' = Tail(queue)
  /\ word0' = IF Head(queue).step < 0 THEN word0 ELSE Head(queue).step
  /\ ring' = [i \in DOMAIN ring |-> IF ring[i] = Head(queue).serial THEN 0
                                     ELSE IF i = 0 /\ Head(queue).step >= 0 THEN 0 ELSE ring[i]]
  /\ UNCHANGED <<cpu, wptr, last, serial, cmds, used, frame, head, pitch, built, pool, after, made>>
-----------------------------------------------------------------------------
(* Vertices of a frame. *)

OnlyBuffers == UNCHANGED <<wptr, last, ring, word0, serial, queue, cmds, used, frame>>

\* Xe_VBBegin: fatal when vertices are being put already.
VBBegin ==
  /\ cpu = "run"
  /\ pitch' = TRUE
  /\ cpu' = IF head # <<>> THEN "fatal" ELSE cpu
  /\ UNCHANGED <<head, built, pool, after, made>> /\ OnlyBuffers

\* Buffers that n more words need beyond the current one.
More(n) ==
  LET left == IF head = <<>> THEN 0 ELSE Space - Last(head).words
  IN IF n <= left THEN 0 ELSE (n - left + Space - 1) \div Space

\* Xe_pAlloc: the memory behind the rings is given out and never taken back.
NoMemory(new) == made + new > MaxBuffers

\* Xe_VBPoolAlloc, k times: from the front of the pool, then new ones.
Allocated(k) ==
  [i \in 1 .. k |-> IF i <= Len(pool) THEN pool[i] ELSE made + i - Len(pool)]

\* The words of the list after n more: every buffer but the last is full.
WithWords(list, n) ==
  [i \in 1 .. Len(list) |-> [vb |-> list[i], words |-> IF i < Len(list) THEN Space
                                                     ELSE n - Space * (Len(list) - 1)]]

Ids(h) == [i \in DOMAIN h |-> h[i].vb]
Words(h) == IF h = <<>> THEN 0 ELSE Space * (Len(h) - 1) + Last(h).words

\* Xe_VBPut: fatal when there is no memory for a buffer.
VBPut(n) ==
  /\ cpu = "run" /\ pitch
  /\ LET k == More(n)
         new == IF k <= Len(pool) THEN 0 ELSE k - Len(pool)
     IN IF NoMemory(new)
        THEN cpu' = "fatal" /\ UNCHANGED <<head, pool, made>>
        ELSE /\ head' = WithWords(Ids(head) \o Allocated(k), Words(head) + n)
             /\ pool' = SubSeq(pool, k + 1, Len(pool))
             /\ made' = made + new
             /\ UNCHANGED cpu
  /\ UNCHANGED <<pitch, built, after>> /\ OnlyBuffers

\* Xe_VBEnd: a command per buffer, for the GPU's cache.
VBEnd ==
  /\ pitch /\ built = <<>>
  /\ Emit(Len(head), {})
  /\ built' = head
  /\ head' = <<>> /\ pitch' = FALSE
  /\ UNCHANGED <<pool, after, made>>

\* Xe_Draw of the list, buffer by buffer.
DrawBuilt ==
  /\ built # <<>>
  /\ Emit(Len(built), ToSet(built))
  /\ UNCHANGED <<head, pitch, built, pool, after, made>>

\* The list is free for the next vertices at once.
VBPoolAdd_Now ==
  /\ cpu = "run" /\ built # <<>>
  /\ pool' = pool \o Ids(built)
  /\ built' = <<>>
  /\ UNCHANGED <<cpu, head, pitch, after, made>> /\ OnlyBuffers

VBPoolAdd ==
  /\ cpu = "run" /\ built # <<>>
  /\ after' = after \o Ids(built)
  /\ built' = <<>>
  /\ UNCHANGED <<cpu, head, pitch, pool, made>> /\ OnlyBuffers

\* Three corners: a buffer's memory holds many of them.
RectWords == 1

\* Xe_ResolveInto, Xe_Clear and Xe_Resolve: Begin, Put and End with a rectangle
\* of its own, which is in the pool's hands before the commands that draw it.
ResolveInto ==
  /\ head = <<>>                            \* Xe_Fatal otherwise: see VBBegin
  /\ pool # <<>> \/ ~NoMemory(1)
  /\ LET vbs == Allocated(1)
     IN /\ Emit(2, {[vb |-> vbs[1], words |-> RectWords]})
        /\ after' = after \o vbs
  /\ pool' = SubSeq(pool, 2, Len(pool))
  /\ made' = IF pool = <<>> THEN made + 1 ELSE made
  /\ pitch' = FALSE
  /\ UNCHANGED <<head, built>>

\* Xe_Init.
StartNext == Reset \/ LoadUcodes \/ RingTest \/ MasterInit \/ FirstCommands

FramesNext ==
  \/ \E n \in Commands : Command(n)
  \/ Execute \/ SyncStart \/ SyncDone \/ SyncTimeout
  \/ GpuSegment
  \/ VBBegin \/ (\E n \in Puts : VBPut(n)) \/ VBEnd \/ DrawBuilt \/ VBPoolAdd
  \/ ResolveInto
-----------------------------------------------------------------------------
\* The GPU finds every segment as it was sent: neither a ring that wraps, nor
\* the word the GPU writes back, nor a frame that is sent in pieces overwrites
\* commands it has yet to read.
RingIntact ==
  \A k \in DOMAIN queue :
    \A i \in queue[k].base .. queue[k].base + queue[k].len - 1 : ring[i] = queue[k].serial

\* The memory that vertices are in.  Xe_pAlloc places one buffer behind the
\* other; what else a program allocates only moves them further apart.
First(x) == (x.vb - 1) * Stride
Overlap(x, y) == First(x) < First(y) + y.words /\ First(y) < First(x) + x.words

\* More words in a buffer than it has memory for.
Overrun(x) == x.words > Stride

\* No buffer that a draw the GPU has yet to make reads from is given out for
\* new vertices, nor is one in two lists: what Xe_Sync hands back is finished.
\* New vertices fall on those of such a draw only when a buffer is overrun.
ReuseSafe ==
  /\ \A k \in DOMAIN queue : \A d \in queue[k].draws :
       /\ d.vb \notin ToSet(pool)
       /\ \A h \in ToSet(head) :
            d.vb # h.vb /\ (Overlap(d, h) => Overrun(d) \/ Overrun(h))
  /\ IsInjective(pool \o after \o Ids(built) \o Ids(head))

\* Buffers whose vertices are being put, or are still to be drawn.
Held == ToSet(head) \cup ToSet(built) \cup cmds
          \cup UNION {queue[k].draws : k \in DOMAIN queue}

\* The vertices of two buffers lie apart: space is "in DWORDs" (xe.h:198), as
\* VBPut takes it.  But Xe_CreateVertexBuffer allocates that many bytes.
VerticesApart == \A x, y \in Held : x.vb # y.vb => ~Overlap(x, y)
=============================================================================
