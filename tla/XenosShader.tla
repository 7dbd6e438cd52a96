---------------------------- MODULE XenosShader ----------------------------
(***************************************************************************)
(* Vertex fetches of a shader (drivers/xenos/xe.c).  A shader is compiled  *)
(* for a made-up vertex format; Xe_ShaderApplyVFetchPatches rewrites its   *)
(* fetch instructions for the format the program really uses.  The words   *)
(* of an instruction are a record of the fields the code masks and sets.   *)
(***************************************************************************)
EXTENDS Integers, Sequences, FiniteSetsExt

\* XE_TYPE_* of xe.h: bytes and components of an element.
Bytes == [UBYTE4 |-> 4, FLOAT2 |-> 8, FLOAT3 |-> 12, FLOAT4 |-> 16]
Components == [UBYTE4 |-> 4, FLOAT2 |-> 2, FLOAT3 |-> 3, FLOAT4 |-> 4]

\* A fetch instruction and a vertex format.
VFetch == [usage : STRING, index : Nat, offset : Nat, stride : Nat,
           format : DOMAIN Bytes, swizzle : [0 .. 3 -> 0 .. 7]]
VBFFormat == Seq([usage : STRING, index : Nat, fmt : DOMAIN Bytes])

\* Xe_VBFCalcStride, in bytes, of the first n elements of a format.
CalcStride(fmt, n) ==
  LET total_size[i \in 0 .. Len(fmt)] ==
        IF i = 0 THEN 0 ELSE total_size[i - 1] + Bytes[fmt[i].fmt]
  IN total_size[n]

\* The elements that have the usage and index an instruction asks for; the
\* code takes the first and ends the program when there is none.
Wanted(vf, fmt) == {j \in 1 .. Len(fmt) : fmt[j].usage = vf.usage /\ fmt[j].index = vf.index}

\* A component the element does not have becomes the constant 0, and the last
\* one the constant 1.  4 and 5 stand for these in a swizzle.
Swizzled(sw, n) == IF sw < 4 /\ sw >= n THEN IF sw = 3 THEN 5 ELSE 4 ELSE sw

\* The loop leaves out the offset of the elements before the one it found.
PatchAt_NoOffset(vf, fmt, j) ==
  [vf EXCEPT !.stride = CalcStride(fmt, Len(fmt)) \div 4, !.format = fmt[j].fmt,
             !.swizzle = [c \in 0 .. 3 |-> Swizzled(@[c], Components[fmt[j].fmt])]]

\* The instruction, rewritten for element j of the format.
PatchAt(vf, fmt, j) ==
  [vf EXCEPT !.offset  = CalcStride(fmt, j - 1) \div 4,
             !.stride  = CalcStride(fmt, Len(fmt)) \div 4,
             !.format  = fmt[j].fmt,
             !.swizzle = [c \in 0 .. 3 |-> Swizzled(@[c], Components[fmt[j].fmt])]]

\* Xe_ShaderApplyVFetchPatches: all fetches of an instance.
Patched(code, fmt) ==
  [i \in DOMAIN code |-> PatchAt(code[i], fmt, Min(Wanted(code[i], fmt)))]

\* The format has an element for every fetch of the code.
Fits(code, fmt) == \A i \in DOMAIN code : Wanted(code[i], fmt) # {}
-----------------------------------------------------------------------------
\* A vertex in memory: word w of it holds these components of an element.
Layout(fmt, w) ==
  {p \in (1 .. Len(fmt)) \X (0 .. 3) :
     LET e == fmt[p[1]].fmt
     IN /\ p[2] < Components[e]
        /\ w = CalcStride(fmt, p[1] - 1) \div 4 + (IF e = "UBYTE4" THEN 0 ELSE p[2])}

\* What the GPU fetches for component c: a constant, or a component of the
\* vertex at the instruction's offset, of the instruction's format.
Fetched(vf, fmt, c) ==
  LET sw == vf.swizzle[c]
  IN IF sw >= 4 THEN {sw}
     ELSE {p \in Layout(fmt, vf.offset + (IF vf.format = "UBYTE4" THEN 0 ELSE sw)) : p[2] = sw}

\* What xe.h promises for a component of the shader that was compiled as raw:
\* the component of the wanted element, or 0 or 1 "according to the swizzling".
Promised(raw, fmt, c) ==
  LET j == Min(Wanted(raw, fmt))
      sw == raw.swizzle[c]
  IN IF sw >= 4 THEN {sw}
     ELSE IF sw < Components[fmt[j].fmt] THEN {<<j, sw>>}
     ELSE IF sw = 3 THEN {5} ELSE {4}

\* Every fetch of the code delivers what was promised, vertex by vertex.
FetchesRight(code, raw, fmt) ==
  \A i \in DOMAIN code :
    /\ code[i].stride * 4 = CalcStride(fmt, Len(fmt))
    /\ \A c \in 0 .. 3 : Fetched(code[i], fmt, c) = Promised(raw[i], fmt, c)
=============================================================================
