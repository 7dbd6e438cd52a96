------------------------------- MODULE Edram -------------------------------
(***************************************************************************)
(* Calibration of the GPU's embedded memory (drivers/xenos/edram.c).  The  *)
(* two sides of the link to the memory chips choose, chip by chip, the     *)
(* phase at which they sample (edram_p2); then a test picture is drawn     *)
(* with different delays until the checksums of all its parts are right    *)
(* (edram_init).                                                           *)
(*                                                                         *)
(* One chip stands for the nine (six) of a side: they are sampled in the   *)
(* same reads and never compared with each other.                          *)
(***************************************************************************)
EXTENDS Integers, Sequences, FiniteSets, FiniteSetsExt

CONSTANTS
  Waves,     \* for a chip: the readings its four samples may give, bits 0 .. 3
  Rounds,    \* bound: samples of a chip, 50 in the code
  Mismatches,\* sets of checksums that may be wrong at once
  LastBase,  \* bound: the last base delay tried, 0x12 in the code
  Parts,     \* parts of the picture that get a delay of their own, of 0 .. 5
  Tries      \* bound: attempts, 4 in the code

ASSUME EdramAssumption ==
  /\ \A w \in Waves : w # {} /\ w \subseteq 0 .. 15
  /\ Rounds \in Nat \ {0} /\ Tries \in Nat
  /\ LastBase \in 11 .. 18 /\ Parts \subseteq 0 .. 5

VARIABLES
  st,       \* where edram_init is
  tries,    \* attempts left
  newer,    \* the revision that has the newer table
  wave,     \* wave[side]: the readings of the chip
  seen,     \* of the sampling: rounds, first and last reading, phases left, stable
  cfg,      \* cfg[side]: the phase setting written
  nibble, base, \* var_1, var_2
  reg,      \* the registers that hold them; drawing: edram_4c has set those the picture is drawn with
  mem,      \* the texture in memory: "test", "debug" or "old"
  crc,      \* the checksum counters: what was drawn since they were cleared, and with which registers
  fail,     \* what determine_broken said
  wrong,    \* the checksums that were wrong
  part      \* ixxx

evars == <<st, tries, newer, wave, seen, cfg, nibble, base, reg, mem, crc, fail, wrong, part>>

Sides == {"edram", "gpu"}
-----------------------------------------------------------------------------
(* Phases. *)

\* The ones of useful[64], rows of 16 for the phases 0 to 3.
Useful == {1, 3, 9, 11,  18, 19, 22, 23,  36, 38, 44, 46,  56, 57, 60, 61}

\* defaults, data6_old, data6_new (data7 is the same); the first is for 0.
Defaults == <<11, 7, 15, 13>>
Data6Old == <<1, 3, 0, 3, 1, 1, 0, 0, 2, 2, 1, 3, 1, 2, 1, 1>>
Data6New == <<0, 2, 3, 2, 0, 0, 3, 3, 1, 1, 0, 2, 0, 1, 0, 0>>

\* data7 on the side of the GPU; by revision on the side of the memory.
Data(side) == IF side = "edram" /\ ~newer THEN Data6Old ELSE Data6New

\* edram_p3, edram_p4: the bit of a chip at each phase, put together again.
Gathered(r) ==
  LET bit(phase) == (r \div 2^phase) % 2
  IN bit(0) + 2 * bit(1) + 4 * bit(2) + 8 * bit(3)

Fresh == [round |-> 0, first |-> 0, last |-> 0, left |-> 0 .. 3, stable |-> TRUE]

\* One turn of the outer loop.  The index of useful is as the code has it.
Sampled(s, v) ==
  [round  |-> s.round + 1,
   first  |-> IF s.round = 0 THEN v ELSE s.first,
   last   |-> v,
   left   |-> {ph \in s.left : v + ph * 4 \in Useful},
   stable |-> s.stable /\ (s.round = 0 \/ v = s.first)]

\* The setting: of the last reading, or of the one phase left to a chip whose
\* readings changed.
Setting(side, s) ==
  LET v == IF ~s.stable /\ Cardinality(s.left) = 1
           THEN Defaults[(CHOOSE ph \in s.left : TRUE) + 1] ELSE s.last
  IN Data(side)[v + 1]
-----------------------------------------------------------------------------
(* Checksums: determine_broken. *)

Masks == [p \in 0 .. 5 |-> CASE p = 0 -> {13, 14} [] p = 1 -> {15, 16} [] p = 2 -> {16, 22}
                             [] p = 3 -> {13, 19} [] p = 4 -> {20, 21, 22} [] p = 5 -> {19, 20}]

determine_broken(v0) == {p \in Parts : Masks[p] \subseteq v0}

EdramInit ==
  /\ st = "retry"
  /\ tries = Tries
  /\ newer = FALSE
  /\ wave = [s \in Sides |-> {}]
  /\ seen = Fresh
  /\ cfg = [s \in Sides |-> 0]
  /\ nibble = [p \in Parts |-> 1]
  /\ base = 11
  /\ reg = [nibble |-> nibble, base |-> 0, drawing |-> FALSE]
  /\ mem = "old"
  /\ crc = [of |-> "other", with |-> reg]
  /\ fail = {} /\ wrong = {} /\ part = 0

Settings == <<nibble, base, reg, mem, crc, fail, wrong, part>>

\* The start of edram_p2: the memory must hold two patterns, or the program
\* ends; then both ends of the link are put into training.
Linked == {"edram", "aborted"}

\* edram_init_state1: the chips are reset and the revision read.
Retry ==
  /\ st = "retry" /\ tries > 0
  /\ tries' = tries - 1
  /\ newer' \in BOOLEAN
  /\ wave' \in [Sides -> Waves]
  /\ st' \in Linked
  /\ seen' = Fresh
  /\ UNCHANGED cfg /\ UNCHANGED Settings

\* Xe_Fatal, "again and again".
GiveUp ==
  /\ st = "retry" /\ tries = 0
  /\ st' = "fatal"
  /\ UNCHANGED <<tries, newer, wave, seen, cfg>> /\ UNCHANGED Settings

Sample(side) ==
  /\ st = side /\ seen.round < Rounds
  /\ \E r \in wave[side] : seen' = Sampled(seen, Gathered(r))
  /\ UNCHANGED <<st, tries, newer, wave, cfg>> /\ UNCHANGED Settings

Chosen(side, next) ==
  /\ st = side /\ seen.round = Rounds
  /\ cfg' = [cfg EXCEPT ![side] = Setting(side, seen)]
  /\ seen' = Fresh
  /\ st' = next
  /\ UNCHANGED <<tries, newer, wave>> /\ UNCHANGED Settings

\* The setting is written to register 0x5002, and the other end is trained.
ChooseEdram == Chosen("edram", "gpu")

\* The setting is written to register 0x3c5c, and training ends.  The ping test
\* is not reached with the arguments edram_init_state1 passes.
ChooseGpu == Chosen("gpu", "ready")
-----------------------------------------------------------------------------
(* Drawing the test picture.  h is the hardware: registers, texture, counters. *)

\* edram_pc.
Cleared(h) == [h EXCEPT !.crc = [of |-> "nothing", with |-> h.reg]]

\* edram_4c: every register the pictures are drawn with, none of them drawn.
DrawingSet(h) == [h EXCEPT !.reg.drawing = TRUE]

\* edram_72c draws into the memory under test.
Drawn(h) == [h EXCEPT !.crc.of = "other"]

\* edram_974, edram_9e4 and Xe_pDebugSync: the picture, if the texture has it,
\* and if nothing else was drawn since the counters were cleared.
TestPicture(h) ==
  [h EXCEPT !.crc.of = IF h.crc.of = "nothing" /\ h.crc.with = h.reg /\ h.mem = "test" /\ h.reg.drawing
                       THEN "test" ELSE "other",
            !.mem = "old"]

WithBase(h, b) == [h EXCEPT !.reg.base = b]
WithNibble(h, n) == [h EXCEPT !.reg.nibble = n]
Textured(h, m) == [h EXCEPT !.mem = m]

\* State 4 and the checksums, as both loops have it.
Measured(h, b) == TestPicture(Cleared(WithBase(Textured(h, "test"), b)))

\* With a part's delay: the debug texture is drawn first.
Remeasured(h, n, b) == Measured(Drawn(Cleared(WithNibble(Textured(h, "debug"), n))), b)

Hardware == [reg |-> reg, mem |-> mem, crc |-> crc]
SetHardware(h) == reg' = h.reg /\ mem' = h.mem /\ crc' = h.crc

\* State 2: the delays that every attempt starts from.
Prepare ==
  /\ st = "ready"
  /\ nibble' = [p \in Parts |-> 1]
  /\ base' = 11
  /\ SetHardware(WithBase(DrawingSet(Cleared(WithNibble(Textured(Hardware, "debug"), nibble'))), 11))
  /\ st' = "base"
  /\ UNCHANGED <<tries, newer, wave, seen, cfg, fail, wrong, part>>

\* The loop over var_2, which ends early when a part is right.
TryBase ==
  /\ st = "base"
  /\ IF base > LastBase
     THEN st' = "fix" /\ UNCHANGED <<base, reg, mem, crc, fail, wrong>>
     ELSE \E w \in Mismatches :
            /\ SetHardware(Measured(Hardware, base))
            /\ wrong' = w
            /\ fail' = determine_broken(w)
            /\ IF fail' # Parts THEN st' = "fix" /\ UNCHANGED base
                                ELSE st' = "base" /\ base' = base + 1
  /\ part' = 0
  /\ UNCHANGED <<tries, newer, wave, seen, cfg, nibble>>

EndPart == IF Parts = {} THEN 0 ELSE Max(Parts) + 1

\* fix_xxx: a part that is not broken is passed over.
PassOver ==
  /\ st = "fix" /\ part < EndPart
  /\ part \notin fail
  /\ part' = part + 1
  /\ UNCHANGED <<st, tries, newer, wave, seen, cfg, nibble, base, reg, mem, crc, fail, wrong>>

StartFix ==
  /\ st = "fix" /\ part < EndPart
  /\ part \in fail
  /\ st' = "nibble"
  /\ nibble' = [nibble EXCEPT ![part] = 0]
  /\ UNCHANGED <<tries, newer, wave, seen, cfg, base, reg, mem, crc, fail, wrong, part>>

\* The parts that were right before are taken for right.
StillBroken_Mine(w) == IF part \in determine_broken(w) THEN fail ELSE fail \ {part}

StillBroken(w) == determine_broken(w)

\* The loop over vxxx.
TryNibble ==
  /\ st = "nibble"
  /\ \E w \in Mismatches :
       /\ SetHardware(Remeasured(Hardware, nibble, base))
       /\ wrong' = w
       /\ fail' = StillBroken(w)
       /\ IF part \notin fail'
          THEN st' = "fix" /\ part' = part + 1 /\ UNCHANGED nibble
          ELSE IF nibble[part] < 3
          THEN UNCHANGED <<st, part>> /\ nibble' = [nibble EXCEPT ![part] = @ + 1]
          ELSE st' = "fix" /\ part' = EndPart /\ UNCHANGED nibble   \* can't fix that
  /\ UNCHANGED <<tries, newer, wave, seen, cfg, base>>

Judge ==
  /\ st = "fix" /\ part = EndPart
  /\ st' = IF fail = {} THEN "worked" ELSE "retry"
  /\ UNCHANGED <<tries, newer, wave, seen, cfg>> /\ UNCHANGED Settings

EdramNext ==
  \/ Retry \/ GiveUp
  \/ (\E side \in Sides : Sample(side)) \/ ChooseEdram \/ ChooseGpu
  \/ Prepare \/ TryBase \/ PassOver \/ StartFix \/ TryNibble \/ Judge

EdramEnded == st \in {"worked", "fatal", "aborted"}
-----------------------------------------------------------------------------
\* The phases at which a steady chip can be sampled: it reads 1 there, and 0
\* half a period away.
Eye(r) == {ph \in 0 .. 3 : (r \div 2^ph) % 2 = 1 /\ (r \div 2^((ph + 2) % 4)) % 2 = 0}

\* A chip whose readings do not change is sampled inside its eye: the tables
\* and the way a reading is gathered agree on what a phase is.
EyesOpen ==
  st = "ready" =>
    \A s \in Sides : \A r \in 0 .. 15 :
      wave[s] = {r} /\ Eye(r) # {} =>
        \E ph \in Eye(r) : cfg[s] = Data(s)[Defaults[ph + 1] + 1]

\* edram_init returns only with delays in the registers with which, in the same
\* measurement, every part of the test picture was right, and what was measured
\* was the test picture and nothing else.
NothingBroken ==
  st = "worked" =>
    /\ determine_broken(wrong) = {}
    /\ crc.of = "test" /\ crc.with = reg
    /\ reg.nibble = nibble /\ reg.base = base
=============================================================================
