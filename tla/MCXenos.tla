------------------------------ MODULE MCXenos ------------------------------
(* Values of the constants of XenosProgram: two formats that share one shader. *)
EXTENDS XenosProgram

\* Chips that read the same in every sample, and one whose readings change.
MCWaves == {{1}, {12}, {2, 3}}

\* Checksums: all right; part 0, part 2, or all of 0, 2 and 5 wrong.
MCMismatches == {{}, {13, 14}, {16, 22, 12}, {13, 14, 16, 19, 20, 22}}

MCFloatCalls == {<<15, 2>>, <<256, 1>>}

\* The vertex shader defines a constant of its own, the first pixel shader
\* one of the numbers the program sets as well.
MCLiterals == [s \in VShaders \cup PShaders |-> IF s \in VShaders THEN <<16, 4>> ELSE <<256, 4>>]

\* A shader that fetches a position as xyzw and a color as zyxw.
XYZW == [c \in 0 .. 3 |-> c]
ZYX1 == [c \in 0 .. 3 |-> IF c = 3 THEN 5 ELSE 2 - c]
Fetch(usage, sw) == [usage |-> usage, index |-> 0, offset |-> 0, stride |-> 0,
                     format |-> "FLOAT4", swizzle |-> sw]
MCRaw == <<Fetch("position", XYZW), Fetch("color", ZYX1), Fetch("normal", XYZW)>>

Element(usage, fmt) == [usage |-> usage, index |-> 0, fmt |-> fmt]
MCFormats == {
  <<Element("position", "FLOAT3"), Element("normal", "FLOAT3"), Element("color", "UBYTE4")>>,
  <<Element("color", "FLOAT4"), Element("position", "FLOAT2"), Element("normal", "FLOAT2")>>,
  <<Element("position", "FLOAT3"), Element("color", "UBYTE4")>>}
=============================================================================
