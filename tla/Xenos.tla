------------------------------- MODULE Xenos -------------------------------
(***************************************************************************)
(* The state block of the GPU driver (drivers/xenos/xe.c).  The program    *)
(* sets state in struct XenosDevice; the driver notes in "dirty",          *)
(* "alu_dirty" and "fetch_dirty" what the GPU does not have yet, and       *)
(* uploads that much before a draw (Xe_pSetState).  Resolving and clearing *)
(* draw with registers of their own.  Buffers are locked while the         *)
(* program writes to them, and synchronised when they are unlocked.        *)
(*                                                                         *)
(* Command words go to the GPU in order (XenosFrames has the ring), so an  *)
(* upload is shown as a change of the registers of the GPU.                *)
(***************************************************************************)
EXTENDS XenosShader, FiniteSets

CONSTANTS
  Fields,       \* fields of the control packet the program sets
  Values,       \* values it gives to fields, constants and textures
  Floats,       \* numbers of the float constants it uses: pixel shaders from 256 on
  FloatCalls,   \* <<start, count>> of the calls that set them
  Textures,     \* indices of the textures it uses
  Buffers,      \* vertex buffers
  VShaders, PShaders, \* shaders
  Literals,     \* for each shader the <<start, count>> of its own constants, in floats
  Integers_,    \* the shaders that have integer constants
  Instances,    \* indices of instances of a vertex shader
  Raw,          \* the fetches of the vertex shaders as compiled
  Formats,      \* vertex formats the program patches them for
  MaxCalls,     \* bound: calls between two draws
  MaxDraws,     \* bound: draws
  None          \* no shader, no texture, no buffer

\* The values have to differ from each other; the constants are in the array of 512.
ASSUME XenosAssumption ==
  /\ Floats \subseteq 0 .. 511
  /\ Textures \subseteq 0 .. 30
  /\ FloatCalls \subseteq Nat \X Nat
  /\ Literals \in [VShaders \cup PShaders -> Nat \X Nat]
  /\ Raw \in Seq(VFetch) /\ Formats \subseteq VBFFormat
  /\ None \notin Values \cup Buffers \cup VShaders \cup PShaders \cup Formats \cup {Raw}
  /\ MaxCalls \in Nat /\ MaxDraws \in Nat

VARIABLES
  xe,       \* struct XenosDevice; and missed: the textures set with other bits than theirs
  regs,      \* the registers of the GPU
  clobbered,\* the GPU has resolved since the state was invalidated last
  bufs,     \* vertex buffers: lock, and what CPU and GPU caches still hide
  code,     \* code[i]: the fetches of instance i of the vertex shaders, or None
  patched,  \* patched[i]: the format they were patched for
  drawn,    \* the last draw: what was set, what the GPU had, what it read
  calls,    \* calls since then
  draws     \* draws until now

xvars == <<xe, regs, clobbered, bufs, code, patched, drawn, calls, draws>>

\* The bits of "dirty".  DIRTY_MISC is tested nowhere.
Flags == {"ALU", "FETCH", "CLIP", "INTEGER", "CONTROL", "SHADER", "MISC"}
\* The place of stream 0 among the fetch constants: 95 of 96, two words each.
Stream == 31
FetchGroups == Textures \cup {Stream}
\* What Xe_pSetState sends with every draw: stencil words, alpha reference, render target.
Misc == {"stencil", "alpharef", "target"}
-----------------------------------------------------------------------------
(* What the setters mark. *)

\* The bits set from base for len things of which a bit covers per.
Groups(base, len, per) == {g \in 0 .. 31 : base \div per <= g /\ g * per < base + len}

\* Xe_DirtyAluConstant: sixteen constants a bit.
DirtyAluConstant(x, base, len) ==
  [x EXCEPT !.alu_dirty = @ \cup Groups(base, len, 16), !.dirty = @ \cup {"ALU"}]

\* Xe_DirtyFetch: three fetch constants a bit.
DirtyFetch(x, base, len) ==
  [x EXCEPT !.fetch_dirty = @ \cup Groups(base, len, 3), !.dirty = @ \cup {"FETCH"}]

\* Xe_pGInit, GInit0 to GInit10: the registers a fresh GPU is given.
GInit ==
  [control |-> [f \in Fields |-> "start"], misc |-> [m \in Misc |-> "start"],
   alu |-> [r \in Floats |-> "start"], fetch |-> [g \in FetchGroups |-> "start"],
   ints |-> "start", ps |-> "start", vs |-> "start"]

\* Xe_Init: the block is cleared.
StateInit ==
  /\ xe = [control |-> [f \in Fields |-> "zero"], misc |-> [m \in Misc |-> "zero"],
           alu |-> [r \in Floats |-> "zero"], fetch |-> [g \in FetchGroups |-> None],
           ints |-> None, ps |-> None, vs |-> None, vs_index |-> 0,
           dirty |-> {}, alu_dirty |-> {}, fetch_dirty |-> {}, missed |-> {}]
  /\ regs = GInit
  /\ clobbered = TRUE
  /\ bufs = [b \in Buffers |-> [lock |-> {}, unsynced |-> FALSE, stale |-> FALSE]]
  /\ code = [i \in Instances |-> None]
  /\ patched = [i \in Instances |-> None]
  /\ drawn = None
  /\ calls = 0
  /\ draws = 0

\* The program makes one more call before it draws.
Call ==
  /\ calls < MaxCalls /\ draws < MaxDraws
  /\ calls' = calls + 1
  /\ drawn' = None
  /\ UNCHANGED draws

OnlyState == UNCHANGED <<regs, clobbered, bufs, code, patched>>

\* Xe_SetZFunc to Xe_SetStencilOp: each writes some fields of the packet.
SetControl(f, v) ==
  /\ Call
  /\ xe' = [xe EXCEPT !.control[f] = v, !.dirty = @ \cup {"CONTROL"}]
  /\ OnlyState

\* Xe_SetAlphaRef, Xe_SetStencilRef, ...Mask, ...WriteMask.
SetMisc(m, v) ==
  /\ Call
  /\ xe' = [xe EXCEPT !.misc[m] = v, !.dirty = @ \cup {"MISC"}]
  /\ OnlyState

\* The size of the target and its layout in the embedded memory; no bit is marked.
SetRenderTarget(v) ==
  /\ Call
  /\ xe' = [xe EXCEPT !.misc["target"] = v]
  /\ OnlyState

\* Only the group of the first constant is marked.
SetFloats_FirstGroup(start, count, v) ==
  /\ Call
  /\ xe' = DirtyAluConstant([xe EXCEPT !.alu = [r \in Floats |->
                               IF r \in start .. start + count - 1 THEN v ELSE @[r]]], start, 1)
  /\ OnlyState

\* Xe_SetVertexShaderConstantF; Xe_SetPixelShaderConstantF adds 256 to start.
SetFloats(start, count, v) ==
  /\ Call
  /\ xe' = DirtyAluConstant([xe EXCEPT !.alu = [r \in Floats |->
                               IF r \in start .. start + count - 1 THEN v ELSE @[r]]], start, count)
  /\ OnlyState

\* Xe_SetTexture marks from index + index * 3 on: the group of texture i is
\* among the marked ones up to i = 2, from 3 on others are marked instead.
TextureGroups(i) == Groups(i + i * 3, 3, 3)

SetTexture(i, t) ==
  /\ Call
  /\ xe' = DirtyFetch([xe EXCEPT !.fetch[i] = t, !.missed = @ \cup ({i} \ TextureGroups(i))], i + i * 3, 3)
  /\ OnlyState

\* Xe_SetStreamSource as Xe_Draw and the program call it, for stream 0.
WithStream(x, b) == DirtyFetch([x EXCEPT !.fetch[Stream] = b], 95, 1)

SetStreamSource(b) ==
  /\ Call
  /\ bufs[b].lock = {}                       \* Xe_Fatal otherwise
  /\ xe' = WithStream(xe, b)
  /\ OnlyState

\* Xe_SetShader.  An instance is set only when it exists (assert).
SetPixelShader(sh) ==
  /\ Call
  /\ xe' = IF xe.ps = sh THEN xe ELSE [xe EXCEPT !.ps = sh, !.dirty = @ \cup {"SHADER"}]
  /\ OnlyState

SetVertexShader(sh, i) ==
  /\ Call
  /\ code[i] # None
  /\ xe' = IF xe.vs = sh /\ xe.vs_index = i THEN xe
           ELSE [xe EXCEPT !.vs = sh, !.vs_index = i, !.dirty = @ \cup {"SHADER"}]
  /\ OnlyState

\* Xe_pInitControl.
InitControl(x) ==
  [x EXCEPT !.control = [f \in Fields |-> "initial"], !.misc.stencil = "initial",
            !.dirty = @ \cup {"CONTROL", "MISC"}]

InvalidateState ==
  /\ Call
  /\ xe' = InitControl([xe EXCEPT !.dirty = Flags, !.alu_dirty = 0 .. 31, !.fetch_dirty = 0 .. 31])
  /\ clobbered' = FALSE
  /\ UNCHANGED <<regs, bufs, code, patched>>
-----------------------------------------------------------------------------
(* Shaders and their instances. *)

\* Xe_InstantiateShader: a copy in GPU memory, at a new place.
Instantiate(i) ==
  /\ Call
  /\ xe.vs_index # i \/ xe.vs = None         \* not under a shader that is set
  /\ code' = [code EXCEPT ![i] = Raw]
  /\ patched' = [patched EXCEPT ![i] = None]
  /\ UNCHANGED <<xe, regs, clobbered, bufs>>

\* Xe_ShaderApplyVFetchPatches, once for an instance: a second format needs an
\* instance of its own (xe.h).
ApplyPatches(i, fmt) ==
  /\ Call
  /\ xe.vs_index # i \/ xe.vs = None
  /\ code[i] # None /\ patched[i] = None /\ Fits(code[i], fmt)
  /\ code' = [code EXCEPT ![i] = Patched(@, fmt)]
  /\ patched' = [patched EXCEPT ![i] = fmt]
  /\ UNCHANGED <<xe, regs, clobbered, bufs>>

\* Xe_pUploadShaderConstants: the constants of a shader become state.  A count
\* is of floats where it is copied, of constants where it is marked.
WithConstants(x, sh) ==
  IF sh = None THEN x
  ELSE LET lit == Literals[sh]
           marked == DirtyAluConstant([x EXCEPT !.alu = [r \in Floats |->
                       IF r \in lit[1] .. lit[1] + (lit[2] \div 4) - 1 THEN sh ELSE @[r]]], lit[1], lit[2])
       IN IF sh \in Integers_ THEN [marked EXCEPT !.ints = sh, !.dirty = @ \cup {"INTEGER"}] ELSE marked
-----------------------------------------------------------------------------
(* Xe_pSetState: everything that is dirty goes to the GPU. *)

\* Xe_pUploadShader: code and program control, and the constants of both.
ShaderUploaded(x) ==
  IF "SHADER" \in x.dirty THEN WithConstants(WithConstants(x, x.ps), x.vs) ELSE x

\* The other uploads, in the order of the code, of state that is final.
Uploaded(x, g) ==
  [control |-> IF "CONTROL" \in x.dirty THEN x.control ELSE g.control,
   misc    |-> x.misc,
   alu     |-> [r \in Floats |-> IF "ALU" \in x.dirty /\ r \div 16 \in x.alu_dirty
                                 THEN x.alu[r] ELSE g.alu[r]],
   fetch   |-> [k \in FetchGroups |-> IF "FETCH" \in x.dirty /\ k \in x.fetch_dirty
                                      THEN x.fetch[k] ELSE g.fetch[k]],
   ints    |-> IF "INTEGER" \in x.dirty THEN x.ints ELSE g.ints,
   ps      |-> IF "SHADER" \in x.dirty /\ x.ps # None THEN x.ps ELSE g.ps,
   vs      |-> IF "SHADER" \in x.dirty /\ x.vs # None THEN <<x.vs, x.vs_index>> ELSE g.vs]

\* The missed textures whose group the upload does not take along either.
Left(x) == IF "FETCH" \in x.dirty THEN x.missed \ x.fetch_dirty ELSE x.missed

Clean(x) == [x EXCEPT !.dirty = {}, !.alu_dirty = {}, !.fetch_dirty = {}, !.missed = Left(x)]

\* shaded is the state as Xe_pUploadShader leaves it, with the shaders' constants.
StateSet(shaded) ==
  /\ regs' = Uploaded(shaded, regs)
  /\ xe' = Clean(shaded)
  /\ drawn' = [set |-> shaded, had |-> regs', from |-> bufs]

\* A frame starts with Xe_InvalidateState (the cube example), and nothing else
\* restores what a resolve or a clear has overwritten.
MayDraw ==
  /\ ~clobbered
  /\ xe.ps # None /\ xe.vs # None
  /\ draws < MaxDraws
  /\ draws' = draws + 1
  /\ calls' = 0

\* Xe_DrawPrimitive and Xe_DrawIndexedPrimitive.  They do not look at locks.
DrawPrimitive ==
  /\ MayDraw
  /\ xe.fetch[Stream] # None
  /\ bufs[xe.fetch[Stream]].lock = {}        \* as the messages of Xe_Draw demand
  /\ StateSet(ShaderUploaded(xe))
  /\ UNCHANGED <<clobbered, bufs, code, patched>>

\* Xe_Draw of a buffer: it becomes the stream first.
Draw(b) ==
  /\ MayDraw
  /\ bufs[b].lock = {}                       \* Xe_Fatal otherwise
  /\ StateSet(ShaderUploaded(WithStream(xe, b)))
  /\ UNCHANGED <<clobbered, bufs, code, patched>>

\* Xe_ResolveInto, and Xe_Clear, which resolves into nothing: registers, shader
\* and the first fetch constants are those of the resolve afterwards.
Resolve ==
  /\ Call
  /\ regs' = [regs EXCEPT !.control = [f \in Fields |-> "resolve"], !.misc = [m \in Misc |-> "resolve"],
                        !.ps = "resolve", !.vs = "resolve",
                        !.fetch = [k \in FetchGroups |-> IF k = 0 THEN "resolve" ELSE @[k]]]
  /\ clobbered' = TRUE
  /\ xe' = [xe EXCEPT !.dirty = @ \cup {"MISC"}]
  /\ UNCHANGED <<bufs, code, patched>>
-----------------------------------------------------------------------------
(* Locks. *)

\* Xe_pLock ends the program otherwise.
MayLock(b, flags) == bufs[b].lock = {} /\ flags # {}

\* Xe_VB_Lock; Xe_VB_Unlock is below.
Lock(b, flags) ==
  /\ Call
  /\ MayLock(b, flags)
  /\ bufs' = [bufs EXCEPT ![b].lock = flags]
  /\ UNCHANGED <<xe, regs, clobbered, code, patched>>

\* The program writes to a buffer it has locked for writing: its cache has the
\* words, and the cache of the GPU may have older ones.
WriteVB(b) ==
  /\ Call
  /\ "WRITE" \in bufs[b].lock
  /\ bufs' = [bufs EXCEPT ![b].unsynced = TRUE, ![b].stale = TRUE]
  /\ UNCHANGED <<xe, regs, clobbered, code, patched>>

\* The GPU's cache is not invalidated.
Unlock_CpuOnly(b) ==
  /\ Call
  /\ bufs[b].lock # {}
  /\ bufs' = [bufs EXCEPT ![b] = IF "WRITE" \in @.lock
                                 THEN [@ EXCEPT !.lock = {}, !.unsynced = FALSE]
                                 ELSE [@ EXCEPT !.lock = {}]]
  /\ UNCHANGED <<xe, regs, clobbered, code, patched>>

\* Xe_pUnlock: both caches are settled when the lock was for writing.
Unlock(b) ==
  /\ Call
  /\ bufs[b].lock # {}                       \* Xe_Fatal otherwise
  /\ bufs' = [bufs EXCEPT ![b] = IF "WRITE" \in @.lock
                                 THEN [lock |-> {}, unsynced |-> FALSE, stale |-> FALSE]
                                 ELSE [@ EXCEPT !.lock = {}]]
  /\ UNCHANGED <<xe, regs, clobbered, code, patched>>

StateNext ==
  \/ \E f \in Fields, v \in Values : SetControl(f, v)
  \/ \E m \in Misc \ {"target"}, v \in Values : SetMisc(m, v)
  \/ \E v \in Values : SetRenderTarget(v)
  \/ \E c \in FloatCalls, v \in Values : SetFloats(c[1], c[2], v)
  \/ \E i \in Textures, t \in Values : SetTexture(i, t)
  \/ \E b \in Buffers : SetStreamSource(b)
  \/ \E sh \in PShaders : SetPixelShader(sh)
  \/ \E sh \in VShaders, i \in Instances : SetVertexShader(sh, i)
  \/ InvalidateState
  \/ \E i \in Instances : Instantiate(i)
  \/ \E i \in Instances, fmt \in Formats : ApplyPatches(i, fmt)
  \/ DrawPrimitive
  \/ \E b \in Buffers : Draw(b)
  \/ Resolve
  \/ \E b \in Buffers, flags \in SUBSET {"READ", "WRITE"} : Lock(b, flags)
  \/ \E b \in Buffers : WriteVB(b)
  \/ \E b \in Buffers : Unlock(b)

-----------------------------------------------------------------------------
(* What the driver promises. *)

\* At a draw the GPU has every piece of state the program has set, however few
\* of the dirty bits the calls since the last draw have marked: what is not
\* uploaded again is what the registers still hold.  Xe_SetTexture marks other
\* groups than the texture's own from index 3 on (fetch_dirty is "3 * 2 per bit",
\* xe.h:226, and xe.c:1707 counts four to an index): such a texture is excepted
\* until some other call has had its group uploaded.
DrawnAsSet ==
  drawn # None =>
    /\ drawn.had.control = drawn.set.control
    /\ drawn.had.misc = drawn.set.misc
    /\ drawn.had.alu = drawn.set.alu
    /\ \A k \in FetchGroups \ Left(drawn.set) : drawn.had.fetch[k] = drawn.set.fetch[k]
    /\ drawn.had.ints = drawn.set.ints
    /\ drawn.had.ps = drawn.set.ps
    /\ drawn.had.vs = <<drawn.set.vs, drawn.set.vs_index>>

\* The vertices of a draw are those the program wrote: none is left in the
\* cache of the CPU, and the cache of the GPU holds no older one.
DrawsFresh ==
  drawn # None =>
    LET b == drawn.had.fetch[Stream]
    IN b \in Buffers => ~drawn.from[b].unsynced /\ ~drawn.from[b].stale

\* A patched instance fetches from the program's vertices what the shader was
\* compiled to fetch from its own: each component from the place the format
\* gives it, and 0 or 1 for those the format has not.
PatchedRight ==
  \A i \in Instances : patched[i] # None => FetchesRight(code[i], Raw, patched[i])
=============================================================================
