----------------------------- MODULE XenosVideo -----------------------------
(***************************************************************************)
(* Bringing up the picture: xenos_init (drivers/xenos/xenos.c), and the    *)
(* mailbox of the system controller it talks through                       *)
(* (drivers/xenon_smc/xenon_smc.c).  The video encoder ("ANA") is behind   *)
(* the controller; every access is a message and an answer, and between    *)
(* the answers the controller sends messages of its own: buttons, the      *)
(* remote control, the cover of the drive.                                 *)
(*                                                                         *)
(* The driver is a straight program, here a sequence of steps.             *)
(***************************************************************************)
EXTENDS Naturals, Sequences

CONSTANTS
  ClockRegs,   \* the encoder registers 0xD5 .. 0xC that a mode sets
  GivenModes,  \* modes a program asks for; or xenos_autoset_mode chooses one
  MaxBulk,     \* bound: messages of the controller's own
  MaxErrors    \* bound: accesses to the encoder that fail

ASSUME VideoAssumption == MaxBulk \in Nat /\ MaxErrors \in Nat

VARIABLES
  mode,    \* the mode, "auto" until the AV pack is known
  pc,      \* the step the program is at
  talk,    \* "send", or "receive" when it waits for an answer
  inbox,   \* messages from the controller, oldest first
  smc,     \* step whose message the controller has to answer, 0 for none
  tmp,     \* the word read last
  ana,     \* registers of the encoder
  gpu,     \* groups of registers of the display controller
  stray,   \* a register that was written by mistake
  failed,  \* an access to the encoder failed
  events, errors

vvars == <<mode, pc, talk, inbox, smc, tmp, ana, gpu, stray, failed, events, errors>>
-----------------------------------------------------------------------------
(* The program.  A checked step goes to ana_error when it fails. *)

Ask(what)           == [op |-> what]
Read(a, checked)    == [op |-> "read", addr |-> a, checked |-> checked]
Write(a, v, checked) == [op |-> "write", addr |-> a, val |-> v, checked |-> checked]
Gpu(group, v)       == [op |-> "gpu", addr |-> group, val |-> v]
Wait(what)          == [op |-> "wait", addr |-> what]

\* xenos_init_phase0, xenos_init_phase1: clocks; an assertion about them.
Phases == <<[op |-> "clocks"]>>

\* xenos_autoset_mode.
Autoset == <<Ask("avpack"), Ask("leds")>>

\* f1, xenos_ana_preinit: the encoder off, its clock held.
Preinit == <<
  Read("0", FALSE), Write("0", "tmp", FALSE), Gpu("scanout", "hold"), Wait("281c"),
  Write("0", "off", FALSE), Write("D7", "ff", FALSE), Gpu("scanout", "off"),
  Read("D9", FALSE), Write("D9", "held", FALSE)>>

\* xenos_init_ana_new without the release of the clock.
AnaNew_Held == <<
  Read("FE", TRUE), Read("D9", TRUE), Write("D9", "tmp", TRUE), Write("0", "off", FALSE),
  [op |-> "clockregs"], Write("0", "60", TRUE),
  Gpu("sync", "off"), [op |-> "picture"], Gpu("sync", "old"), Write("0", "mode", FALSE)>>

\* xenos_init_ana_new: the release, the registers of the mode, the picture
\* registers through the GPU, the encoder on.
AnaNew == <<
  Read("FE", TRUE), Read("D9", TRUE), Write("D9", "released", TRUE), Write("0", "off", FALSE),
  [op |-> "clockregs"], Write("0", "60", TRUE),
  Gpu("sync", "off"), [op |-> "picture"], Gpu("sync", "old"), Write("0", "mode", FALSE)>>

\* xenos_set_mode_f1, xenos_set_mode_f2.
ModeF1 == <<Gpu("crtc", "mode")>>
ModeF2 == <<Gpu("surface", "mode"), Gpu("scaler", "mode"), Wait("64a0")>>

Script ==
  Phases \o Autoset \o <<Gpu("sync", "on")>> \o Preinit \o AnaNew \o ModeF1 \o ModeF2
    \o <<Gpu("scanout", "mode"), Gpu("sync", "mode"), Gpu("colors", "mode"), Write("DF", "off", FALSE)>>

Done == Len(Script) + 1
Stopped == Done + 1          \* by an assertion

\* Where ana_error goes: xenos_set_mode carries on.
AfterAna == Len(Phases) + Len(Autoset) + 1 + Len(Preinit) + Len(AnaNew) + 1

Step == Script[pc]
AnaRegs == {"0", "D7", "D9", "DF", "FE"} \cup ClockRegs
GpuGroups == {"scanout", "sync", "crtc", "surface", "scaler", "colors", "picture"}

VideoInit ==
  /\ mode \in GivenModes \cup {"auto"}
  /\ pc = 1
  /\ talk = "send"
  /\ inbox = <<>> /\ smc = 0
  /\ tmp = "garbage"
  /\ ana = [a \in AnaRegs |-> "reset"]
  /\ gpu = [g \in GpuGroups |-> "reset"]
  /\ stray = "none"
  /\ failed = FALSE
  /\ events = 0 /\ errors = 0
-----------------------------------------------------------------------------
(* The controller. *)

\* An access to the encoder succeeds or fails.  While the mode's registers are
\* written (0xD5 .. 0xC) one message stands for the seven.
Written(regs, s, ok) ==
  CASE ok /\ s.op = "write"     -> [regs EXCEPT ![s.addr] = CASE s.val = "mode" -> mode
                                                              [] s.val = "tmp" -> tmp
                                                              [] OTHER -> s.val]
    [] ok /\ s.op = "clockregs" -> [a \in AnaRegs |-> IF a \in ClockRegs THEN mode ELSE regs[a]]
    [] OTHER                    -> regs

SmcAnswer ==
  /\ smc # 0
  /\ \E ok \in BOOLEAN :
       /\ ok \/ (errors < MaxErrors /\ Script[smc].op # "avpack")
       /\ errors' = IF ok THEN errors ELSE errors + 1
       /\ ana' = Written(ana, Script[smc], ok)
       /\ inbox' = Append(inbox, [kind |-> "answer", ok |-> ok])
  /\ smc' = 0
  /\ UNCHANGED <<mode, pc, talk, tmp, gpu, stray, failed, events>>

\* Power button, remote control or cover: message type 0x83.
SmcEvent ==
  /\ events < MaxBulk
  /\ events' = events + 1
  /\ inbox' = Append(inbox, [kind |-> "bulk", ok |-> TRUE])
  /\ UNCHANGED <<mode, pc, talk, smc, tmp, ana, gpu, stray, failed, errors>>
-----------------------------------------------------------------------------
(* xenon_smc_send_message, xenon_smc_receive_response. *)

Asks == {"avpack", "read", "write", "clockregs"}

\* xenon_smc_ana_read, xenon_smc_ana_write, xenon_smc_read_avpack: the message.
Send ==
  /\ pc < Done /\ talk = "send" /\ Step.op \in Asks
  /\ ~(Step.op = "avpack" /\ mode # "auto")
  /\ smc = 0
  /\ smc' = pc
  /\ talk' = "receive"
  /\ UNCHANGED <<mode, pc, inbox, tmp, ana, gpu, stray, failed, events, errors>>

\* xenon_smc_handle_bulk: printed, and the wait goes on.
HandleBulk ==
  /\ talk = "receive" /\ inbox # <<>>
  /\ Head(inbox).kind = "bulk"
  /\ inbox' = Tail(inbox)
  /\ UNCHANGED <<mode, pc, talk, smc, tmp, ana, gpu, stray, failed, events, errors>>

IsAnswer_Any(msg) == TRUE

\* What xenon_smc_receive_response takes for the answer.
IsAnswer(msg) == msg.kind # "bulk"

\* The switch of xenos_autoset_mode: composite, HDTV and no AV pack are alike.
ModeFor(avpack) == IF avpack = "vga" THEN "vga" ELSE "pal60"

ReceiveResponse ==
  /\ talk = "receive" /\ inbox # <<>>
  /\ IsAnswer(Head(inbox))
  /\ inbox' = Tail(inbox)
  /\ talk' = "send"
  /\ failed' = (failed \/ ~Head(inbox).ok)
  /\ tmp' = IF Step.op = "read" /\ Head(inbox).ok THEN ana[Step.addr] ELSE tmp
  /\ IF Step.op = "avpack"
     THEN \E a \in {"composite", "vga", "unknown"} :
            /\ mode' = ModeFor(a)
            /\ pc' = IF a = "unknown" THEN pc + 1 ELSE pc + 2
     ELSE /\ UNCHANGED mode
          /\ pc' = IF ~Head(inbox).ok /\ (Step.op = "clockregs" \/ Step.checked)
                   THEN AfterAna ELSE pc + 1
  /\ UNCHANGED <<smc, ana, gpu, stray, events, errors>>

\* xenos_init with a mode: no question about the AV pack.
ModeGiven ==
  /\ pc < Done /\ talk = "send" /\ Step.op = "avpack" /\ mode # "auto"
  /\ pc' = pc + 2
  /\ UNCHANGED <<mode, talk, inbox, smc, tmp, ana, gpu, stray, failed, events, errors>>

\* xenon_smc_set_led shows an unknown AV pack: messages without an answer.
SetLeds ==
  /\ pc < Done /\ talk = "send" /\ Step.op = "leds"
  /\ pc' = pc + 1
  /\ UNCHANGED <<mode, talk, inbox, smc, tmp, ana, gpu, stray, failed, events, errors>>
-----------------------------------------------------------------------------
(* Steps on registers of the GPU. *)

\* xenos_init_phase1 asserts two clocks.
Clocks ==
  /\ pc < Done /\ Step.op = "clocks"
  /\ pc' \in {pc + 1, Stopped}
  /\ UNCHANGED <<mode, talk, inbox, smc, tmp, ana, gpu, stray, failed, events, errors>>

WriteGpu ==
  /\ pc < Done /\ Step.op = "gpu"
  /\ gpu' = [gpu EXCEPT ![Step.addr] = IF Step.val = "mode" THEN mode ELSE Step.val]
  /\ pc' = pc + 1
  /\ UNCHANGED <<mode, talk, inbox, smc, tmp, ana, stray, failed, events, errors>>

\* The loops over addr_2 and addr_8, and the runs 0x26 .. 0x57, xenos_ana_write
\* each.  The last loop makes seventeen turns over sixteen addresses: the
\* address of the last is whatever lies behind the array.
WritePicture ==
  /\ pc < Done /\ Step.op = "picture"
  /\ gpu' = [gpu EXCEPT !["picture"] = mode]
  /\ \E r \in AnaRegs \cup {"none"} :
       /\ stray' = r
       /\ ana' = IF r = "none" THEN ana ELSE [ana EXCEPT ![r] = "stray"]
  /\ pc' = pc + 1
  /\ UNCHANGED <<mode, talk, inbox, smc, tmp, failed, events, errors>>

\* Loops that wait for a bit of a register, without a limit.
HardwareReady ==
  /\ pc < Done /\ Step.op = "wait"
  /\ pc' = pc + 1
  /\ UNCHANGED <<mode, talk, inbox, smc, tmp, ana, gpu, stray, failed, events, errors>>

Driver ==
  \/ Send \/ HandleBulk \/ ReceiveResponse \/ ModeGiven \/ SetLeds
  \/ Clocks \/ WriteGpu \/ WritePicture \/ HardwareReady

VideoNext == Driver \/ SmcAnswer \/ SmcEvent

VideoEnded == pc \in {Done, Stopped}
-----------------------------------------------------------------------------
\* A driver that goes on has had the answer to its own message, whatever the
\* controller had to say in between: no register value and no error is left to
\* be taken for the answer to a later access.
AnswersOwn ==
  talk = "send" => smc = 0 /\ \A i \in DOMAIN inbox : inbox[i].kind = "bulk"

\* When the mode is set and no access has failed, the encoder and the display
\* controller agree on it: every register of the mode is that mode's, the clock
\* that xenos_ana_preinit held is released and the encoder is on.  A register
\* the stray write hit is left out.
PictureWhole ==
  pc = Done /\ ~failed =>
    /\ \A a \in ClockRegs \cup {"0"} : a # stray => ana[a] = mode
    /\ stray # "D9" => ana["D9"] = "released"
    /\ \A g \in GpuGroups : gpu[g] = mode
=============================================================================
