------------------------ MODULE XenosProgram_proofs ------------------------
(***************************************************************************)
(* Bringing up the GPU.  The mailbox of the system controller: an answer   *)
(* is the answer to its question, however many messages of its own the     *)
(* controller sends.  The picture: when nothing has failed, the registers  *)
(* of the encoder and of the display controller are those of one mode.     *)
(* And the calibration of the embedded memory: steady chips are sampled    *)
(* inside their eyes, and what edram_init returns with has been measured   *)
(* as a whole, at the delays the registers then hold.                      *)
(* Then drawing: a draw finds in the registers all the state that was set, *)
(* and its vertices as they were written, and what a patched shader reads  *)
(* of them.                                                                *)
(***************************************************************************)
EXTENDS XenosProgram, TLAPS, WellFoundedInduction

Message == [kind : {"answer", "bulk"}, ok : BOOLEAN]

OnlyBulk(q) == \A i \in DOMAIN q : q[i].kind = "bulk"
OneAnswer(q) == \A i, j \in DOMAIN q : q[i].kind = "answer" /\ q[j].kind = "answer" => i = j

(* The inductive invariant: while the controller still has a question, its *)
(* answer is not in the mailbox, and after that at most one is, which the  *)
(* driver waits for.                                                       *)
MailInv ==
  /\ inbox \in Seq(Message)
  /\ talk \in {"send", "receive"}
  /\ talk = "send" => smc = 0 /\ OnlyBulk(inbox)
  /\ smc # 0 => OnlyBulk(inbox)
  /\ OneAnswer(inbox)

LEMMA MailInit == VideoInit => MailInv
  BY DEF VideoInit, MailInv, OnlyBulk, OneAnswer

(* A message is put behind the others: an answer only to a question. *)
LEMMA MailAppend ==
  ASSUME NEW q \in Seq(Message), NEW m \in Message, OnlyBulk(q) \/ m.kind = "bulk", OneAnswer(q)
  PROVE  /\ Append(q, m) \in Seq(Message)
         /\ OneAnswer(Append(q, m))
         /\ OnlyBulk(q) /\ m.kind = "bulk" => OnlyBulk(Append(q, m))
<1>1. /\ Append(q, m) \in Seq(Message)
      /\ Len(Append(q, m)) = Len(q) + 1 /\ Len(q) \in Nat
      /\ DOMAIN q = 1 .. Len(q) /\ DOMAIN Append(q, m) = 1 .. Len(q) + 1
      /\ \A i \in 1 .. Len(q) : Append(q, m)[i] = q[i]
      /\ Append(q, m)[Len(q) + 1] = m
  OBVIOUS
<1>2. \A i \in 1 .. Len(q) + 1 : i \in 1 .. Len(q) \/ i = Len(q) + 1
  BY <1>1
<1> QED BY <1>1, <1>2 DEF OneAnswer, OnlyBulk

(* The first message is taken away: after an answer only bulk is left. *)
LEMMA MailTail ==
  ASSUME NEW q \in Seq(Message), q # <<>>, OneAnswer(q)
  PROVE  /\ Head(q) \in Message
         /\ Tail(q) \in Seq(Message)
         /\ OneAnswer(Tail(q))
         /\ OnlyBulk(q) \/ Head(q).kind # "bulk" => OnlyBulk(Tail(q))
<1>1. /\ Tail(q) \in Seq(Message) /\ Len(q) \in Nat /\ Len(q) >= 1
      /\ DOMAIN q = 1 .. Len(q) /\ DOMAIN Tail(q) = 1 .. Len(q) - 1
      /\ \A i \in 1 .. Len(q) - 1 : Tail(q)[i] = q[i + 1]
      /\ Head(q) = q[1] /\ 1 \in DOMAIN q
  OBVIOUS
<1>2. \A i \in DOMAIN q : q[i] \in Message
  BY <1>1
<1>3. \A i \in 1 .. Len(q) - 1 : i + 1 \in DOMAIN q /\ i + 1 # 1
  BY <1>1
<1>4. OneAnswer(Tail(q))
  <2>1. ASSUME NEW i \in DOMAIN Tail(q), NEW j \in DOMAIN Tail(q),
               Tail(q)[i].kind = "answer", Tail(q)[j].kind = "answer"
        PROVE  i = j
    <3>1. q[i + 1].kind = "answer" /\ q[j + 1].kind = "answer"
      BY <1>1, <2>1
    <3>2. i + 1 = j + 1
      BY <1>1, <1>3, <2>1, <3>1 DEF OneAnswer
    <3> QED BY <1>1, <3>2
  <2> QED BY <2>1 DEF OneAnswer
<1>5. ASSUME OnlyBulk(q) PROVE OnlyBulk(Tail(q))
  BY <1>1, <1>3, <1>5 DEF OnlyBulk
<1>6. ASSUME Head(q).kind # "bulk" PROVE OnlyBulk(Tail(q))
  <2>1. q[1].kind = "answer"
    BY <1>1, <1>2, <1>6 DEF Message
  <2>2. ASSUME NEW i \in DOMAIN Tail(q) PROVE Tail(q)[i].kind = "bulk"
    <3>1. q[i + 1].kind # "answer"
      BY <1>1, <1>3, <2>1, <2>2 DEF OneAnswer
    <3> QED BY <1>1, <1>2, <1>3, <2>2, <3>1 DEF Message
  <2> QED BY <2>2 DEF OnlyBulk
<1> QED BY <1>1, <1>2, <1>4, <1>5, <1>6


(* The controller's side: a question is answered, or an event is reported. *)
LEMMA MailAnswer ==
  ASSUME MailInv, SmcAnswer PROVE MailInv'
<1>1. PICK ok \in BOOLEAN : inbox' = Append(inbox, [kind |-> "answer", ok |-> ok])
  BY DEF SmcAnswer
<1>2. OnlyBulk(inbox) /\ smc' = 0 /\ talk = "receive" /\ talk' = talk
  BY DEF SmcAnswer, MailInv
<1>3. [kind |-> "answer", ok |-> ok] \in Message
  BY DEF Message
<1> QED BY <1>1, <1>2, <1>3, MailAppend DEF MailInv

LEMMA MailEvent ==
  ASSUME MailInv, SmcEvent PROVE MailInv'
<1>1. /\ inbox' = Append(inbox, [kind |-> "bulk", ok |-> TRUE])
      /\ talk' = talk /\ smc' = smc
  BY DEF SmcEvent
<1>2. [kind |-> "bulk", ok |-> TRUE] \in Message
  BY DEF Message
<1> QED BY <1>1, <1>2, MailAppend DEF MailInv

(* The driver's side. *)
LEMMA MailTaken ==
  ASSUME MailInv, HandleBulk \/ ReceiveResponse PROVE MailInv'
<1>1. /\ inbox # <<>> /\ inbox' = Tail(inbox) /\ smc' = smc /\ talk = "receive"
      /\ talk' = "send" => IsAnswer(Head(inbox))
      /\ talk' \in {"send", "receive"}
  BY DEF HandleBulk, ReceiveResponse, MailInv
<1>2. /\ inbox' \in Seq(Message) /\ OneAnswer(inbox')
      /\ OnlyBulk(inbox) \/ Head(inbox).kind # "bulk" => OnlyBulk(inbox')
      /\ Head(inbox) \in Message
  BY <1>1, MailTail DEF MailInv
<1>3. OnlyBulk(inbox) => Head(inbox).kind = "bulk"
  BY <1>1 DEF OnlyBulk, MailInv
<1> QED BY <1>1, <1>2, <1>3 DEF MailInv, IsAnswer

LEMMA MailElse ==
  ASSUME MailInv,
         Send \/ ModeGiven \/ SetLeds \/ Clocks \/ WriteGpu \/ WritePicture \/ HardwareReady
  PROVE  MailInv'
<1>1. CASE Send
  BY <1>1 DEF Send, MailInv
<1>2. CASE ModeGiven \/ SetLeds
  BY <1>2 DEF ModeGiven, SetLeds, MailInv
<1>3. CASE Clocks \/ WriteGpu \/ WritePicture \/ HardwareReady
  BY <1>3 DEF Clocks, WriteGpu, WritePicture, HardwareReady, MailInv
<1> QED BY <1>1, <1>2, <1>3

LEMMA MailStep ==
  ASSUME MailInv, [Next]_vars PROVE MailInv'
<1>1. CASE Video
  <2>1. VideoNext
    BY <1>1 DEF Video
  <2> QED BY <2>1, MailAnswer, MailEvent, MailTaken, MailElse DEF VideoNext, Driver
<1>2. CASE StartGpu
  BY <1>2 DEF StartGpu, MailInv, OnlyBulk, OneAnswer
<1>3. CASE Start \/ StartEdram \/ Calibrate \/ StartFrames \/ Frames \/ State
  <2>1. inbox' = inbox /\ talk' = talk /\ smc' = smc
    BY <1>3 DEF Start, StartEdram, Calibrate, StartFrames, Frames, State, vvars
  <2> QED BY <2>1 DEF MailInv
<1>4. CASE UNCHANGED vars
  BY <1>4 DEF MailInv, vars, vvars
<1> QED BY <1>1, <1>2, <1>3, <1>4 DEF Next

(* Whatever the controller says unasked, and however often it refuses an   *)
(* access: a driver that goes on has had the answer to its own question,   *)
(* and none is left that the next access could take for its own.           *)
THEOREM AnswersAreOwn == Spec => []AnswersOwn
<1>1. Init => MailInv
  BY MailInit DEF Init
<1>2. MailInv => AnswersOwn
  BY DEF MailInv, AnswersOwn, OnlyBulk
<1> QED BY <1>1, <1>2, MailStep, PTL DEF Spec
-----------------------------------------------------------------------------
(* The picture: what the steps before p have left in the registers of the  *)
(* encoder and of the display controller, by the number of the step.       *)

AnaAt(p) ==
  /\ p <= 21 => stray = "none"
  /\ p >= 17 /\ stray # "D9" => ana["D9"] = "released"
  /\ p >= 19 => \A a \in ClockRegs \ {"0"} : p <= 21 \/ a # stray => ana[a] = mode
  /\ p >= 24 => ana["0"] = mode

GpuAt(p) ==
  /\ p >= 22 => gpu["picture"] = mode
  /\ p >= 25 => gpu["crtc"] = mode
  /\ p >= 26 => gpu["surface"] = mode
  /\ p >= 27 => gpu["scaler"] = mode
  /\ p >= 29 => gpu["scanout"] = mode
  /\ p >= 30 => gpu["sync"] = mode
  /\ p >= 31 => gpu["colors"] = mode

(* The controller has done what it was asked for and says so. *)
Says(q) == \E i \in DOMAIN q : q[i].kind = "answer" /\ q[i].ok
Answered == talk = "receive" /\ Says(inbox)

PictureInv ==
  /\ pc \in 1 .. Stopped
  /\ talk = "receive" => pc < Done /\ Step.op \in Asks /\ (smc # 0 => smc = pc)
  /\ DOMAIN ana = AnaRegs /\ DOMAIN gpu = GpuGroups
  /\ ~failed /\ pc # Stopped => GpuAt(pc) /\ AnaAt(IF Answered THEN pc + 1 ELSE pc)

(* z is two sequences one after the other. *)
Joined(D, s, t, z) ==
  /\ z \in Seq(D) /\ Len(z) = Len(s) + Len(t)
  /\ \A i \in 1 .. Len(s) : z[i] = s[i]
  /\ \A i \in 1 .. Len(t) : z[Len(s) + i] = t[i]

LEMMA Joint ==
  ASSUME NEW D, NEW s \in Seq(D), NEW t \in Seq(D), NEW z, z = s \o t
  PROVE  Joined(D, s, t, z)
  BY DEF Joined

(* The steps by their numbers. *)
LEMMA ScriptIs ==
  /\ Len(Script) = 31 /\ Done = 32 /\ Stopped = 33 /\ AfterAna = 24
  /\ Script[1] = [op |-> "clocks"]
  /\ Script[2] = Ask("avpack") /\ Script[3] = Ask("leds")
  /\ Script[4] = Gpu("sync", "on")
  /\ Script[5] = Read("0", FALSE) /\ Script[6] = Write("0", "tmp", FALSE)
  /\ Script[7] = Gpu("scanout", "hold") /\ Script[8] = Wait("281c")
  /\ Script[9] = Write("0", "off", FALSE) /\ Script[10] = Write("D7", "ff", FALSE)
  /\ Script[11] = Gpu("scanout", "off")
  /\ Script[12] = Read("D9", FALSE) /\ Script[13] = Write("D9", "held", FALSE)
  /\ Script[14] = Read("FE", TRUE) /\ Script[15] = Read("D9", TRUE)
  /\ Script[16] = Write("D9", "released", TRUE) /\ Script[17] = Write("0", "off", FALSE)
  /\ Script[18] = [op |-> "clockregs"] /\ Script[19] = Write("0", "60", TRUE)
  /\ Script[20] = Gpu("sync", "off") /\ Script[21] = [op |-> "picture"]
  /\ Script[22] = Gpu("sync", "old") /\ Script[23] = Write("0", "mode", FALSE)
  /\ Script[24] = Gpu("crtc", "mode")
  /\ Script[25] = Gpu("surface", "mode") /\ Script[26] = Gpu("scaler", "mode") /\ Script[27] = Wait("64a0")
  /\ Script[28] = Gpu("scanout", "mode") /\ Script[29] = Gpu("sync", "mode")
  /\ Script[30] = Gpu("colors", "mode") /\ Script[31] = Write("DF", "off", FALSE)
<1> DEFINE e == <<Gpu("scanout", "mode"), Gpu("sync", "mode"), Gpu("colors", "mode"), Write("DF", "off", FALSE)>>
           g == <<Gpu("sync", "on")>>
           a == Phases \o Autoset
           b == a \o g
           c == b \o Preinit
           d == c \o AnaNew
           f == d \o ModeF1
           h == f \o ModeF2
           D == {[op |-> "clocks"], Ask("avpack"), Ask("leds"), Gpu("sync", "on"),
                 Read("0", FALSE), Write("0", "tmp", FALSE), Gpu("scanout", "hold"), Wait("281c"),
                 Write("0", "off", FALSE), Write("D7", "ff", FALSE), Gpu("scanout", "off"),
                 Read("D9", FALSE), Write("D9", "held", FALSE), Read("FE", TRUE), Read("D9", TRUE),
                 Write("D9", "released", TRUE), [op |-> "clockregs"], Write("0", "60", TRUE),
                 Gpu("sync", "off"), [op |-> "picture"], Gpu("sync", "old"), Write("0", "mode", FALSE),
                 Gpu("crtc", "mode"), Gpu("surface", "mode"), Gpu("scaler", "mode"), Wait("64a0"),
                 Gpu("scanout", "mode"), Gpu("sync", "mode"), Gpu("colors", "mode"), Write("DF", "off", FALSE)}
<1>0. Script = h \o e
  BY DEF Script
<1>1. /\ Phases \in Seq(D) /\ Len(Phases) = 1 /\ Phases[1] = [op |-> "clocks"]
  BY DEF Phases
<1>2. /\ Autoset \in Seq(D) /\ Len(Autoset) = 2 /\ Autoset[1] = Ask("avpack") /\ Autoset[2] = Ask("leds")
  BY DEF Autoset
<1>3. /\ g \in Seq(D) /\ Len(g) = 1 /\ g[1] = Gpu("sync", "on")
  OBVIOUS
<1>4. /\ Len(Preinit) = 9
      /\ Preinit[1] = Read("0", FALSE) /\ Preinit[2] = Write("0", "tmp", FALSE)
      /\ Preinit[3] = Gpu("scanout", "hold") /\ Preinit[4] = Wait("281c")
      /\ Preinit[5] = Write("0", "off", FALSE) /\ Preinit[6] = Write("D7", "ff", FALSE)
      /\ Preinit[7] = Gpu("scanout", "off")
      /\ Preinit[8] = Read("D9", FALSE) /\ Preinit[9] = Write("D9", "held", FALSE)
  BY DEF Preinit
<1>5. Preinit \in Seq(D)
  BY DEF Preinit
<1>6. /\ Len(AnaNew) = 10
      /\ AnaNew[1] = Read("FE", TRUE) /\ AnaNew[2] = Read("D9", TRUE)
      /\ AnaNew[3] = Write("D9", "released", TRUE) /\ AnaNew[4] = Write("0", "off", FALSE)
      /\ AnaNew[5] = [op |-> "clockregs"] /\ AnaNew[6] = Write("0", "60", TRUE)
      /\ AnaNew[7] = Gpu("sync", "off") /\ AnaNew[8] = [op |-> "picture"]
      /\ AnaNew[9] = Gpu("sync", "old") /\ AnaNew[10] = Write("0", "mode", FALSE)
  BY DEF AnaNew
<1>7. AnaNew \in Seq(D)
  BY DEF AnaNew
<1>8. /\ ModeF1 \in Seq(D) /\ Len(ModeF1) = 1 /\ ModeF1[1] = Gpu("crtc", "mode")
  BY DEF ModeF1
<1>9. /\ ModeF2 \in Seq(D) /\ Len(ModeF2) = 3 /\ ModeF2[1] = Gpu("surface", "mode")
      /\ ModeF2[2] = Gpu("scaler", "mode") /\ ModeF2[3] = Wait("64a0")
  BY DEF ModeF2
<1>10. /\ Len(e) = 4
       /\ e[1] = Gpu("scanout", "mode") /\ e[2] = Gpu("sync", "mode")
       /\ e[3] = Gpu("colors", "mode") /\ e[4] = Write("DF", "off", FALSE)
  OBVIOUS
<1>11. e \in Seq(D)
  OBVIOUS
<1>12. AfterAna = 24
  BY <1>1, <1>2, <1>4, <1>6 DEF AfterAna
<1> HIDE DEF e, g, D
<1>13. /\ a \in Seq(D) /\ Len(a) = 3 /\ a[1] = Phases[1] /\ a[2] = Autoset[1] /\ a[3] = Autoset[2]
  <2>0. /\ Phases \in Seq(D) /\ Autoset \in Seq(D) /\ Len(Phases) = 1 /\ Len(Autoset) = 2
    BY <1>1, <1>2
  <2>00. Joined(D, Phases, Autoset, a)
    BY <2>0, Joint, Zenon
  <2>1. /\ a \in Seq(D) /\ Len(a) = 1 + 2 /\ \A i \in 1 .. 1 : a[i] = Phases[i]
        /\ \A i \in 1 .. 2 : a[1 + i] = Autoset[i]
    BY <2>0, <2>00, Zenon DEF Joined
  <2> HIDE DEF a
  <2>2. a[1 + 1] = Autoset[1] /\ a[1 + 2] = Autoset[2] /\ a[1] = Phases[1]
    BY <2>1
  <2> QED BY <2>1, <2>2
<1> HIDE DEF a
<1>14. /\ b \in Seq(D) /\ Len(b) = 4 /\ \A i \in 1 .. 3 : b[i] = a[i]
       /\ b[4] = g[1]
  <2>0. /\ a \in Seq(D) /\ g \in Seq(D) /\ Len(a) = 3 /\ Len(g) = 1
    BY <1>13, <1>3
  <2>00. Joined(D, a, g, b)
    BY <2>0, Joint, Zenon
  <2>1. /\ b \in Seq(D) /\ Len(b) = 3 + 1 /\ \A i \in 1 .. 3 : b[i] = a[i]
        /\ \A i \in 1 .. 1 : b[3 + i] = g[i]
    BY <2>0, <2>00, Zenon DEF Joined
  <2> HIDE DEF b
  <2>2. b[3 + 1] = g[1]
    BY <2>1
  <2> QED BY <2>1, <2>2
<1> HIDE DEF b
<1>15. /\ c \in Seq(D) /\ Len(c) = 13 /\ \A i \in 1 .. 4 : c[i] = b[i]
       /\ \A i \in 1 .. 9 : c[4 + i] = Preinit[i]
  <2>0. /\ b \in Seq(D) /\ Preinit \in Seq(D) /\ Len(b) = 4 /\ Len(Preinit) = 9
    BY <1>14, <1>4, <1>5
  <2>00. Joined(D, b, Preinit, c)
    BY <2>0, Joint, Zenon
  <2>1. /\ c \in Seq(D) /\ Len(c) = 4 + 9 /\ \A i \in 1 .. 4 : c[i] = b[i]
        /\ \A i \in 1 .. 9 : c[4 + i] = Preinit[i]
    BY <2>0, <2>00, Zenon DEF Joined
  <2> HIDE DEF c
  <2> QED BY <2>1
<1> HIDE DEF c
<1>16. /\ d \in Seq(D) /\ Len(d) = 23 /\ \A i \in 1 .. 13 : d[i] = c[i]
       /\ \A i \in 1 .. 10 : d[13 + i] = AnaNew[i]
  <2>0. /\ c \in Seq(D) /\ AnaNew \in Seq(D) /\ Len(c) = 13 /\ Len(AnaNew) = 10
    BY <1>15, <1>6, <1>7
  <2>00. Joined(D, c, AnaNew, d)
    BY <2>0, Joint, Zenon
  <2>1. /\ d \in Seq(D) /\ Len(d) = 13 + 10 /\ \A i \in 1 .. 13 : d[i] = c[i]
        /\ \A i \in 1 .. 10 : d[13 + i] = AnaNew[i]
    BY <2>0, <2>00, Zenon DEF Joined
  <2> HIDE DEF d
  <2> QED BY <2>1
<1> HIDE DEF d
<1>17. /\ f \in Seq(D) /\ Len(f) = 24 /\ \A i \in 1 .. 23 : f[i] = d[i]
       /\ \A i \in 1 .. 1 : f[23 + i] = ModeF1[i]
  <2>0. /\ d \in Seq(D) /\ ModeF1 \in Seq(D) /\ Len(d) = 23 /\ Len(ModeF1) = 1
    BY <1>16, <1>8
  <2>00. Joined(D, d, ModeF1, f)
    BY <2>0, Joint, Zenon
  <2>1. /\ f \in Seq(D) /\ Len(f) = 23 + 1 /\ \A i \in 1 .. 23 : f[i] = d[i]
        /\ \A i \in 1 .. 1 : f[23 + i] = ModeF1[i]
    BY <2>0, <2>00, Zenon DEF Joined
  <2> HIDE DEF f
  <2> QED BY <2>1
<1> HIDE DEF f
<1>18. /\ h \in Seq(D) /\ Len(h) = 27 /\ \A i \in 1 .. 24 : h[i] = f[i]
       /\ \A i \in 1 .. 3 : h[24 + i] = ModeF2[i]
  <2>0. /\ f \in Seq(D) /\ ModeF2 \in Seq(D) /\ Len(f) = 24 /\ Len(ModeF2) = 3
    BY <1>17, <1>9
  <2>00. Joined(D, f, ModeF2, h)
    BY <2>0, Joint, Zenon
  <2>1. /\ h \in Seq(D) /\ Len(h) = 24 + 3 /\ \A i \in 1 .. 24 : h[i] = f[i]
        /\ \A i \in 1 .. 3 : h[24 + i] = ModeF2[i]
    BY <2>0, <2>00, Zenon DEF Joined
  <2> HIDE DEF h
  <2> QED BY <2>1
<1> HIDE DEF h
<1>19. /\ Len(Script) = 31 /\ \A i \in 1 .. 27 : Script[i] = h[i]
       /\ \A i \in 1 .. 4 : Script[27 + i] = e[i]
  <2>0. /\ h \in Seq(D) /\ e \in Seq(D) /\ Len(h) = 27 /\ Len(e) = 4
    BY <1>0, <1>18, <1>10, <1>11
  <2>00. Joined(D, h, e, Script)
    BY <2>0, <1>0, Joint, Zenon
  <2>1. /\ Len(Script) = 27 + 4 /\ \A i \in 1 .. 27 : Script[i] = h[i]
        /\ \A i \in 1 .. 4 : Script[27 + i] = e[i]
    BY <2>0, <2>00, Zenon DEF Joined
  <2> QED BY <2>1
<1> HIDE DEF a, b, c, d, f, h
<1>20. /\ \A i \in 1 .. 24 : Script[i] = f[i]
       /\ \A i \in 1 .. 23 : Script[i] = d[i]
       /\ \A i \in 1 .. 13 : Script[i] = c[i]
       /\ \A i \in 1 .. 4 : Script[i] = b[i]
       /\ \A i \in 1 .. 3 : Script[i] = a[i]
  <2>0. /\ \A i \in 1 .. 24 : i \in 1 .. 27
        /\ \A i \in 1 .. 23 : i \in 1 .. 24
        /\ \A i \in 1 .. 13 : i \in 1 .. 23
        /\ \A i \in 1 .. 4 : i \in 1 .. 13
        /\ \A i \in 1 .. 3 : i \in 1 .. 4
    OBVIOUS
  <2>1. \A i \in 1 .. 24 : Script[i] = f[i]
    BY <2>0, <1>18, <1>19, Zenon
  <2>2. \A i \in 1 .. 23 : Script[i] = d[i]
    BY <2>0, <2>1, <1>17, Zenon
  <2>3. \A i \in 1 .. 13 : Script[i] = c[i]
    BY <2>0, <2>2, <1>16, Zenon
  <2>4. \A i \in 1 .. 4 : Script[i] = b[i]
    BY <2>0, <2>3, <1>15, Zenon
  <2>5. \A i \in 1 .. 3 : Script[i] = a[i]
    BY <2>0, <2>4, <1>14, Zenon
  <2> QED BY <2>1, <2>2, <2>3, <2>4, <2>5
<1>21. /\ Script[1] = a[1] /\ Script[2] = a[2] /\ Script[3] = a[3] /\ Script[4] = b[4]
       /\ Script[24] = ModeF1[1]
       /\ Script[25] = ModeF2[1] /\ Script[26] = ModeF2[2] /\ Script[27] = ModeF2[3]
       /\ Script[28] = e[1] /\ Script[29] = e[2] /\ Script[30] = e[3] /\ Script[31] = e[4]
  <2>1. /\ Script[24] = f[24] /\ f[23 + 1] = ModeF1[1]
        /\ Script[25] = h[25] /\ Script[26] = h[26] /\ Script[27] = h[27]
        /\ h[24 + 1] = ModeF2[1] /\ h[24 + 2] = ModeF2[2] /\ h[24 + 3] = ModeF2[3]
    BY <1>17, <1>18, <1>19, <1>20
  <2>2. /\ Script[27 + 1] = e[1] /\ Script[27 + 2] = e[2] /\ Script[27 + 3] = e[3] /\ Script[27 + 4] = e[4]
    BY <1>19
  <2> QED BY <1>20, <2>1, <2>2
<1>22. /\ Script[5] = Preinit[1] /\ Script[6] = Preinit[2] /\ Script[7] = Preinit[3] /\ Script[8] = Preinit[4]
       /\ Script[9] = Preinit[5] /\ Script[10] = Preinit[6] /\ Script[11] = Preinit[7]
       /\ Script[12] = Preinit[8] /\ Script[13] = Preinit[9]
  <2>1. \A i \in 1 .. 9 : Script[4 + i] = Preinit[i]
    <3>1. \A i \in 1 .. 9 : 4 + i \in 1 .. 13
      OBVIOUS
    <3> QED BY <1>15, <1>20, <3>1, Zenon
  <2> QED BY <2>1
<1>23. /\ Script[14] = AnaNew[1] /\ Script[15] = AnaNew[2] /\ Script[16] = AnaNew[3] /\ Script[17] = AnaNew[4]
       /\ Script[18] = AnaNew[5] /\ Script[19] = AnaNew[6] /\ Script[20] = AnaNew[7] /\ Script[21] = AnaNew[8]
       /\ Script[22] = AnaNew[9] /\ Script[23] = AnaNew[10]
  <2>1. \A i \in 1 .. 10 : Script[13 + i] = AnaNew[i]
    <3>1. \A i \in 1 .. 10 : 13 + i \in 1 .. 23
      OBVIOUS
    <3> QED BY <1>16, <1>20, <3>1, Zenon
  <2> QED BY <2>1
<1>24. Done = 32 /\ Stopped = 33
  BY <1>19 DEF Done, Stopped
<1> QED BY <1>1, <1>2, <1>3, <1>4, <1>6, <1>8, <1>9, <1>10, <1>12, <1>13, <1>14, <1>19, <1>21, <1>22, <1>23, <1>24

(* Where the program is, by what it does there. *)
LEMMA StepIs ==
  ASSUME pc \in 1 .. 31
  PROVE  /\ Step.op = "clocks" => pc = 1
         /\ Step.op = "avpack" => pc = 2
         /\ Step.op = "leds" => pc = 3
         /\ Step.op = "wait" => pc \in {8, 27}
         /\ Step.op = "picture" => pc = 21
         /\ Step.op = "clockregs" => pc = 18
         /\ Step.op = "gpu" => pc \in {4, 7, 11, 20, 22, 24, 25, 26, 28, 29, 30}
         /\ Step.op = "read" => pc \in {5, 12, 14, 15}
         /\ Step.op = "write" => pc \in {6, 9, 10, 13, 16, 17, 19, 23, 31}
<1>1. CASE pc \in 1 .. 8
  BY <1>1, ScriptIs DEF Step, Ask, Read, Write, Gpu, Wait
<1>2. CASE pc \in 9 .. 16
  BY <1>2, ScriptIs DEF Step, Ask, Read, Write, Gpu, Wait
<1>3. CASE pc \in 17 .. 24
  BY <1>3, ScriptIs DEF Step, Ask, Read, Write, Gpu, Wait
<1>4. CASE pc \in 25 .. 31
  BY <1>4, ScriptIs DEF Step, Ask, Read, Write, Gpu, Wait
<1> QED BY <1>1, <1>2, <1>3, <1>4

(* What a mailbox says when a message is added or taken away. *)
LEMMA SaysAppend ==
  ASSUME NEW q \in Seq(Message), NEW m \in Message
  PROVE  Says(Append(q, m)) <=> Says(q) \/ (m.kind = "answer" /\ m.ok)
<1>1. /\ Len(q) \in Nat
      /\ DOMAIN q = 1 .. Len(q) /\ DOMAIN Append(q, m) = 1 .. Len(q) + 1
      /\ \A i \in 1 .. Len(q) : Append(q, m)[i] = q[i]
      /\ Append(q, m)[Len(q) + 1] = m
  OBVIOUS
<1>2. /\ \A i \in 1 .. Len(q) + 1 : i \in 1 .. Len(q) \/ i = Len(q) + 1
      /\ \A i \in 1 .. Len(q) : i \in 1 .. Len(q) + 1
      /\ Len(q) + 1 \in 1 .. Len(q) + 1
  BY <1>1
<1> QED BY <1>1, <1>2, Zenon DEF Says

LEMMA SaysTail ==
  ASSUME NEW q \in Seq(Message), q # <<>>
  PROVE  /\ Head(q).kind = "bulk" => (Says(Tail(q)) <=> Says(q))
         /\ Head(q).kind = "answer" /\ Head(q).ok => Says(q)
<1>1. /\ Len(q) \in Nat /\ Len(q) >= 1
      /\ DOMAIN q = 1 .. Len(q) /\ DOMAIN Tail(q) = 1 .. Len(q) - 1
      /\ \A i \in 1 .. Len(q) - 1 : Tail(q)[i] = q[i + 1]
      /\ Head(q) = q[1] /\ 1 \in DOMAIN q
  OBVIOUS
<1>2. /\ \A i \in 1 .. Len(q) - 1 : i + 1 \in 1 .. Len(q)
      /\ \A i \in 1 .. Len(q) : i = 1 \/ (i - 1 \in 1 .. Len(q) - 1 /\ (i - 1) + 1 = i)
  BY <1>1
<1>3. "bulk" # "answer"
  OBVIOUS
<1>4. ASSUME Head(q).kind = "bulk", Says(q) PROVE Says(Tail(q))
  <2>1. PICK i \in 1 .. Len(q) : q[i].kind = "answer" /\ q[i].ok
    BY <1>1, <1>4, Zenon DEF Says
  <2>2. i # 1
    BY <1>1, <1>3, <1>4, <2>1
  <2>3. i - 1 \in 1 .. Len(q) - 1 /\ Tail(q)[i - 1] = q[i]
    BY <1>1, <1>2, <2>2
  <2> QED BY <1>1, <2>1, <2>3, Zenon DEF Says
<1>5. ASSUME Says(Tail(q)) PROVE Says(q)
  BY <1>1, <1>2, <1>5, Zenon DEF Says
<1> QED BY <1>1, <1>4, <1>5, Zenon DEF Says

LEMMA SaysNothing ==
  ASSUME NEW q, OnlyBulk(q) PROVE ~Says(q)
<1>1. "bulk" # "answer"
  OBVIOUS
<1> QED BY <1>1, Zenon DEF OnlyBulk, Says

LEMMA PictureInit == VideoInit => PictureInv
<1> SUFFICES ASSUME VideoInit PROVE PictureInv
  OBVIOUS
<1>1. ~Answered
  BY DEF VideoInit, Answered
<1>2. AnaAt(1) /\ GpuAt(1)
  BY DEF VideoInit, AnaAt, GpuAt
<1>3. AnaAt(IF Answered THEN pc + 1 ELSE pc) /\ GpuAt(pc)
  BY <1>1, <1>2 DEF VideoInit
<1> QED BY <1>3, ScriptIs DEF VideoInit, PictureInv

(* The driver takes a step that is not about the encoder. *)
LEMMA PictureElse ==
  ASSUME MailInv, PictureInv, ModeGiven \/ SetLeds \/ Clocks \/ HardwareReady
  PROVE  PictureInv'
<1>1. /\ talk = "send" /\ talk' = "send"
      /\ UNCHANGED <<mode, ana, gpu, stray, failed>>
      /\ pc \in 1 .. 31 /\ (pc' \in {pc + 1, Stopped} \/ (pc = 2 /\ pc' = 4))
      /\ pc \in {1, 2, 3, 8, 27}
  <2>1. pc \in 1 .. 31 /\ talk \in {"send", "receive"} /\ (talk = "receive" => Step.op \in Asks)
    BY ScriptIs DEF PictureInv, MailInv, ModeGiven, SetLeds, Clocks, HardwareReady
  <2>2. CASE ModeGiven
    BY <2>1, <2>2, StepIs DEF ModeGiven
  <2>3. CASE SetLeds
    BY <2>1, <2>3, StepIs DEF SetLeds
  <2>4. CASE Clocks
    BY <2>1, <2>4, StepIs DEF Clocks, Asks
  <2>5. CASE HardwareReady
    BY <2>1, <2>5, StepIs DEF HardwareReady, Asks
  <2> QED BY <2>2, <2>3, <2>4, <2>5
<1>2. ~Answered /\ ~Answered'
  BY <1>1 DEF Answered
<1>3. pc' \in 1 .. 33 /\ pc' # 0
  BY <1>1, ScriptIs
<1>4. ASSUME ~failed', pc' # Stopped PROVE GpuAt(pc)' /\ AnaAt(pc)'
  <2>1. GpuAt(pc) /\ AnaAt(pc)
    BY <1>1, <1>2, <1>4, ScriptIs DEF PictureInv
  <2>2. GpuAt(pc)'
    BY <1>1, <1>4, <2>1, ScriptIs DEF GpuAt
  <2>3. AnaAt(pc)'
    BY <1>1, <1>4, <2>1, ScriptIs DEF AnaAt
  <2> QED BY <2>2, <2>3
<1>5. DOMAIN ana' = AnaRegs /\ DOMAIN gpu' = GpuGroups /\ talk' # "receive"
  BY <1>1 DEF PictureInv
<1> QED BY <1>2, <1>3, <1>4, <1>5, ScriptIs DEF PictureInv

(* The registers of the display controller, a group at a step. *)
LEMMA PictureGpu ==
  ASSUME MailInv, PictureInv, WriteGpu
  PROVE  PictureInv'
<1>1. /\ talk = "send" /\ talk' = "send"
      /\ UNCHANGED <<mode, ana, stray, failed>>
      /\ pc \in 1 .. 31 /\ pc' = pc + 1
      /\ gpu' = [gpu EXCEPT ![Step.addr] = IF Step.val = "mode" THEN mode ELSE Step.val]
      /\ pc \in {4, 7, 11, 20, 22, 24, 25, 26, 28, 29, 30}
  <2>1. pc \in 1 .. 31 /\ talk \in {"send", "receive"} /\ (talk = "receive" => Step.op \in Asks)
    BY ScriptIs DEF PictureInv, MailInv, WriteGpu
  <2> QED BY <2>1, StepIs DEF WriteGpu, Asks
<1>2. ~Answered /\ ~Answered'
  BY <1>1 DEF Answered
<1>3. pc' \in 1 .. 33 /\ DOMAIN gpu = GpuGroups
  BY <1>1, ScriptIs DEF PictureInv
<1>4. ASSUME ~failed' PROVE GpuAt(pc)' /\ AnaAt(pc)'
  <2>1. GpuAt(pc) /\ AnaAt(pc)
    BY <1>1, <1>2, <1>4, ScriptIs DEF PictureInv
  <2>2. AnaAt(pc)'
    BY <1>1, <2>1 DEF AnaAt
  <2>3. GpuAt(pc)'
    <3>1. CASE pc \in {4, 7, 11, 20}
      BY <1>1, <3>1 DEF GpuAt
    <3>2. CASE pc \in {22, 24, 25, 26, 28, 29, 30}
      <4>1. /\ pc = 22 => Step.addr = "sync"
            /\ pc = 24 => Step.addr = "crtc" /\ Step.val = "mode"
            /\ pc = 25 => Step.addr = "surface" /\ Step.val = "mode"
            /\ pc = 26 => Step.addr = "scaler" /\ Step.val = "mode"
            /\ pc = 28 => Step.addr = "scanout" /\ Step.val = "mode"
            /\ pc = 29 => Step.addr = "sync" /\ Step.val = "mode"
            /\ pc = 30 => Step.addr = "colors" /\ Step.val = "mode"
        BY ScriptIs DEF Step, Gpu
      <4>2. Step.addr \in GpuGroups /\ {"scanout", "sync", "crtc", "surface", "scaler", "colors", "picture"} \subseteq GpuGroups
        BY <3>2, <4>1 DEF GpuGroups
      <4>3. /\ gpu'[Step.addr] = IF Step.val = "mode" THEN mode ELSE Step.val
            /\ \A g \in GpuGroups : g # Step.addr => gpu'[g] = gpu[g]
        BY <1>1, <1>3, <4>2
      <4>4. CASE pc \in {22, 24, 25}
        BY <1>1, <2>1, <4>1, <4>2, <4>3, <4>4 DEF GpuAt
      <4>5. CASE pc \in {26, 28}
        BY <1>1, <2>1, <4>1, <4>2, <4>3, <4>5 DEF GpuAt
      <4>6. CASE pc \in {29, 30}
        BY <1>1, <2>1, <4>1, <4>2, <4>3, <4>6 DEF GpuAt
      <4> QED BY <3>2, <4>4, <4>5, <4>6
    <3> QED BY <1>1, <3>1, <3>2
  <2> QED BY <2>2, <2>3
<1>5. DOMAIN ana' = AnaRegs /\ DOMAIN gpu' = GpuGroups /\ talk' # "receive"
  BY <1>1, <1>3 DEF PictureInv
<1> QED BY <1>2, <1>3, <1>4, <1>5, ScriptIs DEF PictureInv

(* The picture registers, and what the turn too many hits. *)
LEMMA PicturePicture ==
  ASSUME MailInv, PictureInv, WritePicture
  PROVE  PictureInv'
<1>1. PICK r \in AnaRegs \cup {"none"} :
        stray' = r /\ ana' = IF r = "none" THEN ana ELSE [ana EXCEPT ![r] = "stray"]
  BY DEF WritePicture
<1>2. /\ talk = "send" /\ talk' = "send"
      /\ UNCHANGED <<mode, failed>>
      /\ pc = 21 /\ pc' = 22
      /\ gpu' = [gpu EXCEPT !["picture"] = mode]
  <2>1. pc \in 1 .. 31 /\ talk \in {"send", "receive"} /\ (talk = "receive" => Step.op \in Asks)
    BY ScriptIs DEF PictureInv, MailInv, WritePicture
  <2> QED BY <2>1, StepIs DEF WritePicture, Asks
<1>3. ~Answered /\ ~Answered'
  BY <1>2 DEF Answered
<1>4. /\ DOMAIN gpu = GpuGroups /\ DOMAIN ana = AnaRegs
      /\ "picture" \in GpuGroups /\ ClockRegs \subseteq AnaRegs /\ "D9" \in AnaRegs
  BY DEF PictureInv, GpuGroups, AnaRegs
<1>5. DOMAIN gpu' = GpuGroups /\ gpu'["picture"] = mode
  BY <1>2, <1>4
<1>6. DOMAIN ana' = AnaRegs /\ \A a \in AnaRegs : a # r => ana'[a] = ana[a]
  BY <1>1, <1>4
<1>7. ASSUME ~failed' PROVE GpuAt(pc)' /\ AnaAt(pc)'
  <2>1. AnaAt(pc)
    BY <1>2, <1>3, <1>7, ScriptIs DEF PictureInv
  <2>2. /\ stray = "none" /\ ana["D9"] = "released"
        /\ \A a \in ClockRegs \ {"0"} : ana[a] = mode
    BY <1>2, <2>1 DEF AnaAt
  <2>3. AnaAt(pc)'
    BY <1>1, <1>2, <1>4, <1>6, <2>2 DEF AnaAt
  <2>4. GpuAt(pc)'
    BY <1>2, <1>5 DEF GpuAt
  <2> QED BY <2>3, <2>4
<1> QED BY <1>2, <1>3, <1>5, <1>6, <1>7, ScriptIs DEF PictureInv

(* The driver asks, and passes over what the controller says of itself. *)
LEMMA PictureAsks ==
  ASSUME MailInv, PictureInv, Send \/ HandleBulk \/ SmcEvent
  PROVE  PictureInv'
<1>1. /\ UNCHANGED <<mode, pc, ana, gpu, stray, failed>>
      /\ talk' = "receive" => pc < Done /\ Step.op \in Asks /\ (smc' # 0 => smc' = pc)
  BY DEF Send, HandleBulk, SmcEvent, PictureInv
<1>2. Answered' <=> Answered
  <2>1. CASE Send
    <3>1. OnlyBulk(inbox) /\ inbox' = inbox /\ talk = "send"
      BY <2>1 DEF Send, MailInv
    <3> QED BY <3>1, SaysNothing DEF Answered
  <2>2. CASE HandleBulk
    BY <2>2, SaysTail DEF HandleBulk, MailInv, Answered
  <2>3. CASE SmcEvent
    <3>1. [kind |-> "bulk", ok |-> TRUE] \in Message
      BY DEF Message
    <3> QED BY <2>3, <3>1, SaysAppend DEF SmcEvent, MailInv, Answered
  <2> QED BY <2>1, <2>2, <2>3
<1>3. Step' = Step
  BY <1>1 DEF Step
<1>5. GpuAt(pc)' <=> GpuAt(pc)
  BY <1>1 DEF GpuAt
<1>6. AnaAt(IF Answered THEN pc + 1 ELSE pc)' <=> AnaAt(IF Answered THEN pc + 1 ELSE pc)
  BY <1>1, <1>2 DEF AnaAt
<1> QED BY <1>1, <1>3, <1>5, <1>6 DEF PictureInv

(* The controller answers: the access is done, or it has failed and the    *)
(* answer says so.                                                         *)
LEMMA PictureAnswer ==
  ASSUME ClockRegs \cap {"D9", "DF"} = {}, MailInv, PictureInv, SmcAnswer
  PROVE  PictureInv'
<1>1. PICK ok \in BOOLEAN : /\ ana' = Written(ana, Script[smc], ok)
                            /\ inbox' = Append(inbox, [kind |-> "answer", ok |-> ok])
  BY DEF SmcAnswer
<1>2. /\ UNCHANGED <<mode, pc, talk, gpu, stray, failed>> /\ smc' = 0
      /\ talk = "receive" /\ smc = pc /\ pc \in 1 .. 31 /\ Step.op \in Asks /\ OnlyBulk(inbox)
  BY ScriptIs DEF SmcAnswer, MailInv, PictureInv
<1>3. ~Answered /\ (Answered' <=> ok)
  <2>1. [kind |-> "answer", ok |-> ok] \in Message
    BY DEF Message
  <2> QED BY <1>1, <1>2, <2>1, SaysAppend, SaysNothing DEF MailInv, Answered
<1>4. Step' = Step /\ ana' = Written(ana, Step, ok)
  BY <1>1, <1>2 DEF Step
<1>5. DOMAIN ana = AnaRegs /\ DOMAIN ana' = AnaRegs
  BY <1>4 DEF PictureInv, Written
<1>6. ASSUME ~failed PROVE GpuAt(pc) /\ AnaAt(pc) /\ (ok => AnaAt(pc + 1)')
  <2>1. GpuAt(pc) /\ AnaAt(pc)
    BY <1>2, <1>3, <1>6, ScriptIs DEF PictureInv
  <2>2. CASE ~ok
    BY <2>1, <2>2
  <2>3. CASE ok /\ pc \in {2, 5, 12, 14, 15}
    <3>1. ana' = ana
      BY <1>4, <2>3, ScriptIs DEF Written, Step, Ask, Read
    <3> QED BY <1>2, <2>1, <2>3, <3>1 DEF AnaAt
  <2>4. CASE ok /\ pc = 18
    <3>1. ana' = [a \in AnaRegs |-> IF a \in ClockRegs THEN mode ELSE ana[a]]
      BY <1>4, <2>4, ScriptIs DEF Written, Step
    <3>2. ana'["D9"] = ana["D9"] /\ \A a \in ClockRegs : ana'[a] = mode
      BY <3>1 DEF AnaRegs
    <3> QED BY <1>2, <2>1, <2>4, <3>2 DEF AnaAt
  <2>5. CASE ok /\ pc \in {6, 9, 10, 13, 16, 17, 19, 23, 31}
    <3>1. ana' = [ana EXCEPT ![Step.addr] = CASE Step.val = "mode" -> mode
                                              [] Step.val = "tmp" -> tmp
                                              [] OTHER -> Step.val]
      <4>1. Step.op = "write"
        BY <2>5, ScriptIs DEF Step, Write
      <4> QED BY <1>4, <2>5, <4>1 DEF Written
    <3>2. \A a \in AnaRegs : a # Step.addr => ana'[a] = ana[a]
      BY <1>5, <3>1
    <3>3. {"0", "D9"} \subseteq AnaRegs /\ ClockRegs \subseteq AnaRegs
      BY DEF AnaRegs
    <3>4. CASE pc \in {6, 9, 10, 13}
      BY <1>2, <2>1, <3>4 DEF AnaAt
    <3>5. CASE pc = 16
      <4>1. Step.addr = "D9" /\ Step.val = "released"
        BY <3>5, ScriptIs DEF Step, Write
      <4>2. ana'["D9"] = "released"
        BY <1>5, <3>1, <3>3, <4>1
      <4> QED BY <1>2, <2>1, <3>5, <4>2 DEF AnaAt
    <3>6. CASE pc \in {17, 19}
      <4>1. Step.addr = "0"
        BY <3>6, ScriptIs DEF Step, Write
      <4>2. ana'["D9"] = ana["D9"] /\ \A a \in ClockRegs \ {"0"} : ana'[a] = ana[a]
        BY <3>2, <3>3, <4>1
      <4> QED BY <1>2, <2>1, <3>6, <4>2 DEF AnaAt
    <3>7. CASE pc = 23
      <4>1. Step.addr = "0" /\ Step.val = "mode"
        BY <3>7, ScriptIs DEF Step, Write
      <4>2. ana'["D9"] = ana["D9"] /\ \A a \in ClockRegs \ {"0"} : ana'[a] = ana[a]
        BY <3>2, <3>3, <4>1
      <4>3. ana'["0"] = mode
        BY <1>5, <3>1, <3>3, <4>1
      <4> QED BY <1>2, <2>1, <3>7, <4>2, <4>3 DEF AnaAt
    <3>8. CASE pc = 31
      <4>1. Step.addr = "DF"
        BY <3>8, ScriptIs DEF Step, Write
      <4>2. ana'["D9"] = ana["D9"] /\ ana'["0"] = ana["0"] /\ \A a \in ClockRegs : ana'[a] = ana[a]
        BY <3>2, <3>3, <4>1
      <4> QED BY <1>2, <2>1, <3>8, <4>2 DEF AnaAt
    <3> QED BY <2>5, <3>4, <3>5, <3>6, <3>7, <3>8
  <2> QED BY <1>2, <2>2, <2>3, <2>4, <2>5, StepIs DEF Asks
<1>7. ~ok => ana' = ana
  BY <1>4 DEF Written
<1>8. ASSUME ~failed' PROVE GpuAt(pc)' /\ AnaAt(IF Answered THEN pc + 1 ELSE pc)'
  <2>1. GpuAt(pc)'
    BY <1>2, <1>6, <1>8 DEF GpuAt
  <2>2. CASE ok
    BY <1>2, <1>3, <1>6, <1>8, <2>1, <2>2 DEF AnaAt
  <2>3. CASE ~ok
    BY <1>2, <1>3, <1>6, <1>7, <1>8, <2>1, <2>3 DEF AnaAt
  <2> QED BY <2>2, <2>3
<1>9. /\ pc' \in 1 .. Stopped /\ DOMAIN gpu' = GpuGroups
      /\ talk' = "receive" => pc' < Done /\ Step' \in {Step} /\ smc' = 0
  BY <1>2, <1>4, ScriptIs DEF PictureInv
<1> QED BY <1>2, <1>4, <1>5, <1>8, <1>9 DEF PictureInv

(* The driver has the answer, and goes on, or gives up on the encoder.     *)
LEMMA PictureHeard ==
  ASSUME MailInv, PictureInv, ReceiveResponse
  PROVE  PictureInv'
<1>1. /\ UNCHANGED <<smc, ana, gpu, stray>> /\ talk = "receive" /\ talk' = "send"
      /\ pc \in 1 .. 31 /\ Step.op \in Asks
  <2>1. UNCHANGED <<smc, ana, gpu, stray>> /\ talk = "receive" /\ talk' = "send"
    BY DEF ReceiveResponse
  <2> QED BY <2>1, ScriptIs DEF PictureInv
<1>2. /\ pc' \in {pc + 1, AfterAna} \/ (pc = 2 /\ pc' \in {pc + 1, pc + 2})
      /\ Head(inbox).ok => pc' = pc + 1 \/ (pc = 2 /\ pc' = 4)
      /\ pc # 2 => mode' = mode
      /\ failed' = (failed \/ ~Head(inbox).ok)
  <2>1. CASE Step.op = "avpack"
    BY <1>1, <2>1, StepIs DEF ReceiveResponse
  <2>2. CASE Step.op # "avpack"
    BY <1>1, <2>2 DEF ReceiveResponse
  <2> QED BY <2>1, <2>2
<1>3. Head(inbox).ok => Answered
  <2>1. Head(inbox).kind = "answer"
    BY MailTail DEF ReceiveResponse, IsAnswer, MailInv, Message
  <2> QED BY <1>1, <2>1, SaysTail DEF ReceiveResponse, MailInv, Answered
<1>4. ~Answered'
  BY <1>1 DEF Answered
<1>5. pc' \in 1 .. 33
  BY <1>1, <1>2, ScriptIs
<1>6. ASSUME ~failed' PROVE GpuAt(pc)' /\ AnaAt(pc)'
  <2>1. ~failed /\ Answered /\ (pc' = pc + 1 \/ (pc = 2 /\ pc' = 4))
    BY <1>2, <1>3, <1>6
  <2>2. GpuAt(pc) /\ AnaAt(pc + 1)
    BY <1>1, <2>1, ScriptIs DEF PictureInv
  <2>3. pc \in {2, 5, 12, 14, 15, 18, 6, 9, 10, 13, 16, 17, 19, 23, 31}
    BY <1>1, StepIs DEF Asks
  <2>4. GpuAt(pc)'
    BY <1>1, <1>2, <2>1, <2>2, <2>3 DEF GpuAt
  <2>5. AnaAt(pc)'
    BY <1>1, <1>2, <2>1, <2>2, <2>3 DEF AnaAt
  <2> QED BY <2>4, <2>5
<1> QED BY <1>1, <1>4, <1>5, <1>6, ScriptIs DEF PictureInv

LEMMA PictureStep ==
  ASSUME ClockRegs \cap {"D9", "DF"} = {}, MailInv, PictureInv, [Next]_vars
  PROVE  PictureInv'
<1>1. CASE Video
  <2>1. VideoNext
    BY <1>1 DEF Video
  <2> QED BY <2>1, PictureElse, PictureGpu, PicturePicture, PictureAsks, PictureAnswer, PictureHeard
          DEF VideoNext, Driver
<1>2. CASE StartGpu
  BY <1>2, ScriptIs DEF StartGpu, PictureInv
<1>3. CASE Start \/ StartEdram \/ Calibrate \/ StartFrames \/ Frames \/ State \/ UNCHANGED vars
  <2>1. vvars' = vvars
    BY <1>3 DEF Start, StartEdram, Calibrate, StartFrames, Frames, State, vars
  <2> QED BY <2>1 DEF vvars, PictureInv, Answered, Says, GpuAt, AnaAt, Step
<1> QED BY <1>1, <1>2, <1>3 DEF Next

(* However the answers and the controller's own messages are interleaved,  *)
(* and wherever the stray write hits: if no access has failed, a mode that *)
(* is set is set everywhere.  The registers of the mode are the seven that *)
(* xenos_init_ana_new writes in a loop: its table holds 0xD5 to 0xC, and   *)
(* neither the clock nor the register that the last access switches off.   *)
THEOREM PictureSet ==
  ASSUME ClockRegs \cap {"D9", "DF"} = {}
  PROVE  Spec => []PictureWhole
<1>1. Init => MailInv /\ PictureInv
  BY MailInit, PictureInit DEF Init
<1>2. MailInv /\ PictureInv /\ [Next]_vars => MailInv' /\ PictureInv'
  BY MailStep, PictureStep
<1>3. PictureInv => PictureWhole
  <2> SUFFICES ASSUME PictureInv, pc = Done, ~failed
               PROVE  /\ \A a \in ClockRegs \cup {"0"} : a # stray => ana[a] = mode
                      /\ stray # "D9" => ana["D9"] = "released"
                      /\ \A g \in GpuGroups : gpu[g] = mode
    BY DEF PictureWhole
  <2>1. ~Answered /\ pc = 32
    BY ScriptIs DEF PictureInv, Answered
  <2>2. GpuAt(pc) /\ AnaAt(pc)
    BY <2>1, ScriptIs DEF PictureInv
  <2> QED BY <2>1, <2>2 DEF GpuAt, AnaAt, GpuGroups
<1> QED BY <1>1, <1>2, <1>3, PTL DEF Spec
-----------------------------------------------------------------------------
Nibbles == [Parts -> 0 .. 3]
Delays == [nibble : Nibbles, base : Nat, drawing : BOOLEAN]
Machines == [reg : Delays, mem : {"test", "debug", "old"},
             crc : [of : {"nothing", "test", "other"}, with : Delays]]

(* The last measurement was of the test picture, at the delays of h. *)
Pictured(h) == h.crc.of = "test" /\ h.crc.with = h.reg

(* It was made at the delays the loops stand at, and fail says what it said. *)
InForce ==
  /\ Pictured(Hardware)
  /\ reg.nibble = nibble /\ reg.base = base
  /\ fail = determine_broken(wrong)

(* The inductive invariant.  When no base delay is left nothing has been   *)
(* measured at the one the loop stands at, but then every part is broken,  *)
(* and the first of them is measured again before any other is looked at.  *)
CalibrationInv ==
  /\ Hardware \in Machines /\ nibble \in Nibbles /\ base \in Nat /\ fail \subseteq Parts
  /\ st \in {"base", "fix", "nibble"} => reg.drawing = TRUE
  /\ st = "base" => reg.nibble = nibble /\ (base > LastBase => fail = Parts)
  /\ st \in {"fix", "worked"} => InForce \/ fail = Parts
  /\ st = "nibble" => part \in fail
  /\ st = "worked" => fail = {}

LEMMA BrokenParts == ASSUME NEW v PROVE determine_broken(v) \subseteq Parts
  BY DEF determine_broken

(* Drawing the test picture, whatever was drawn before. *)
LEMMA MeasuredPictured ==
  ASSUME NEW h \in Machines, NEW b \in Nat, h.reg.drawing = TRUE
  PROVE  /\ Measured(h, b) \in Machines
         /\ Pictured(Measured(h, b))
         /\ Measured(h, b).reg = [h.reg EXCEPT !.base = b]
<1> DEFINE t == Textured(h, "test")
           d == WithBase(t, b)
           c == Cleared(d)
<1>1. t \in Machines /\ t.reg = h.reg /\ t.mem = "test"
  BY DEF Textured, Machines
<1> HIDE DEF t
<1>2. d \in Machines /\ d.reg = [h.reg EXCEPT !.base = b] /\ d.mem = "test"
  BY <1>1 DEF WithBase, Machines, Delays
<1> HIDE DEF d
<1>3. c \in Machines /\ c.reg = d.reg /\ c.mem = "test" /\ c.crc = [of |-> "nothing", with |-> d.reg]
  BY <1>2 DEF Cleared, Machines
<1>4. c.reg.drawing = TRUE
  BY <1>2, <1>3 DEF Machines, Delays
<1> HIDE DEF c
<1>5. /\ TestPicture(c) \in Machines /\ TestPicture(c).reg = c.reg
      /\ TestPicture(c).crc = [of |-> "test", with |-> c.reg]
  <2> DEFINE q == [of |-> "test", with |-> c.reg]
  <2>1. c.crc.of = "nothing" /\ c.crc.with = c.reg
    BY <1>3
  <2>2. [c.crc EXCEPT !.of = "test"] = q
    BY <1>3
  <2>3. TestPicture(c) = [c EXCEPT !.crc = q, !.mem = "old"]
    BY <1>3, <1>4, <2>1, <2>2 DEF TestPicture
  <2>4. q \in [of : {"nothing", "test", "other"}, with : Delays]
    BY <1>3 DEF Machines
  <2> HIDE DEF q
  <2> QED BY <1>3, <2>3, <2>4 DEF Machines, q
<1>6. Measured(h, b) = TestPicture(c)
  BY DEF Measured, c, d, t
<1> QED BY <1>2, <1>3, <1>5, <1>6 DEF Pictured

(* The same behind the debug texture and the delays n of the parts. *)
LEMMA RemeasuredPictured ==
  ASSUME NEW h \in Machines, NEW n \in Nibbles, NEW b \in Nat, h.reg.drawing = TRUE
  PROVE  /\ Remeasured(h, n, b) \in Machines
         /\ Pictured(Remeasured(h, n, b))
         /\ Remeasured(h, n, b).reg = [nibble |-> n, base |-> b, drawing |-> TRUE]
<1> DEFINE t == Textured(h, "debug")
           d == WithNibble(t, n)
           c == Cleared(d)
           o == Drawn(c)
<1>1. t \in Machines /\ t.reg = h.reg
  BY DEF Textured, Machines
<1> HIDE DEF t
<1>2. d \in Machines /\ d.reg = [h.reg EXCEPT !.nibble = n]
  BY <1>1 DEF WithNibble, Machines, Delays
<1> HIDE DEF d
<1>3. c \in Machines /\ c.reg = d.reg
  BY <1>2 DEF Cleared, Machines
<1> HIDE DEF c
<1>4. o \in Machines /\ o.reg = d.reg
  BY <1>3 DEF Drawn, Machines
<1>5. o.reg.drawing = TRUE
  BY <1>2, <1>4 DEF Machines, Delays
<1> HIDE DEF o
<1>6. Remeasured(h, n, b) = Measured(o, b)
  BY DEF Remeasured, o, c, d, t
<1>7. /\ Measured(o, b) \in Machines /\ Pictured(Measured(o, b))
      /\ Measured(o, b).reg = [o.reg EXCEPT !.base = b]
  BY <1>4, <1>5, MeasuredPictured
<1>8. [o.reg EXCEPT !.base = b] = [nibble |-> n, base |-> b, drawing |-> TRUE]
  <2>1. o.reg \in Delays /\ o.reg.nibble = n
    BY <1>2, <1>4 DEF Machines, Delays
  <2> DEFINE r == [o.reg EXCEPT !.base = b]
  <2>2. r \in Delays /\ r.nibble = n /\ r.base = b /\ r.drawing = TRUE
    BY <1>5, <2>1 DEF Delays
  <2> HIDE DEF r
  <2>3. r = [nibble |-> r.nibble, base |-> r.base, drawing |-> r.drawing]
    BY <2>2 DEF Delays
  <2> QED BY <2>2, <2>3 DEF r
<1> QED BY <1>6, <1>7, <1>8
-----------------------------------------------------------------------------
LEMMA CalibrationStarts == EdramInit => CalibrationInv
<1> SUFFICES ASSUME EdramInit PROVE CalibrationInv
  OBVIOUS
<1>1. nibble \in Nibbles
  BY DEF EdramInit, Nibbles
<1>2. reg \in Delays
  BY <1>1 DEF EdramInit, Delays
<1>3. Hardware \in Machines
  BY <1>2 DEF EdramInit, Hardware, Machines
<1> QED BY <1>1, <1>3 DEF EdramInit, CalibrationInv

(* The steps before the test picture. *)
LEMMA LinkKept ==
  ASSUME CalibrationInv, Retry \/ GiveUp \/ (\E side \in Sides : Sample(side)) \/ ChooseEdram \/ ChooseGpu
  PROVE  CalibrationInv'
<1>1. UNCHANGED Settings
  BY DEF Retry, GiveUp, Sample, ChooseEdram, ChooseGpu, Chosen
<1>2. st' \notin {"base", "fix", "nibble", "worked"}
  BY DEF Retry, GiveUp, Sample, ChooseEdram, ChooseGpu, Chosen, Linked, Sides
<1> QED BY <1>1, <1>2 DEF Settings, CalibrationInv, Hardware

LEMMA PrepareKept ==
  ASSUME CalibrationInv, Prepare
  PROVE  CalibrationInv'
<1> DEFINE n == [p \in Parts |-> 1]
           t == Textured(Hardware, "debug")
           d == WithNibble(t, n)
           c == Cleared(d)
           s == DrawingSet(c)
           h == WithBase(s, 11)
<1>0. n \in Nibbles
  BY DEF Nibbles
<1>1. t \in Machines
  BY DEF Textured, Machines, CalibrationInv
<1> HIDE DEF n, t
<1>2. d \in Machines /\ d.reg.nibble = n
  BY <1>0, <1>1 DEF WithNibble, Machines, Delays
<1> HIDE DEF d
<1>3. c \in Machines /\ c.reg.nibble = n
  BY <1>2 DEF Cleared, Machines
<1> HIDE DEF c
<1>4. s \in Machines /\ s.reg.drawing = TRUE /\ s.reg.nibble = n
  BY <1>3 DEF DrawingSet, Machines, Delays
<1> HIDE DEF s
<1>5. h \in Machines /\ h.reg.drawing = TRUE /\ h.reg.nibble = n
  BY <1>4 DEF WithBase, Machines, Delays
<1> HIDE DEF h
<1>6. /\ st' = "base" /\ nibble' = n /\ base' = 11 /\ fail' = fail
      /\ reg' = h.reg /\ mem' = h.mem /\ crc' = h.crc
  BY DEF Prepare, SetHardware, h, s, c, d, t, n
<1>7. Hardware' = h
  BY <1>5, <1>6 DEF Hardware, Machines
<1> QED BY <1>0, <1>5, <1>6, <1>7, EdramAssumption DEF CalibrationInv, EdramAssumption

(* A turn of the loop over the base delays. *)
LEMMA BaseKept ==
  ASSUME CalibrationInv, TryBase
  PROVE  CalibrationInv'
<1>1. CASE base > LastBase
  <2>1. /\ st' = "fix" /\ nibble' = nibble
        /\ base' = base /\ reg' = reg /\ mem' = mem /\ crc' = crc /\ fail' = fail
    BY <1>1 DEF TryBase
  <2>2. fail = Parts /\ reg.drawing = TRUE
    BY <1>1 DEF TryBase, CalibrationInv
  <2> QED BY <2>1, <2>2 DEF CalibrationInv, Hardware
<1>2. CASE ~(base > LastBase)
  <2>1. PICK w \in Mismatches :
          /\ SetHardware(Measured(Hardware, base))
          /\ wrong' = w
          /\ fail' = determine_broken(w)
          /\ IF fail' # Parts THEN st' = "fix" /\ UNCHANGED base
                              ELSE st' = "base" /\ base' = base + 1
    BY <1>2 DEF TryBase
  <2> DEFINE h == Measured(Hardware, base)
  <2>2. Hardware \in Machines /\ Hardware.reg = reg /\ reg.drawing = TRUE /\ reg \in Delays
    BY DEF CalibrationInv, TryBase, Hardware, Machines
  <2>3. h \in Machines /\ Pictured(h) /\ h.reg = [reg EXCEPT !.base = base]
    BY <2>2, MeasuredPictured DEF CalibrationInv
  <2> HIDE DEF h
  <2>4. reg' = h.reg /\ mem' = h.mem /\ crc' = h.crc /\ Hardware' = h /\ nibble' = nibble
    BY <2>1, <2>3 DEF SetHardware, Hardware, Machines, h, TryBase
  <2>5. h.reg.drawing = TRUE /\ h.reg.base = base /\ h.reg.nibble = reg.nibble
    BY <2>2, <2>3 DEF Delays
  <2>6. fail' \subseteq Parts /\ base' \in Nat
    BY <2>1, BrokenParts DEF CalibrationInv
  <2>7. reg.nibble = nibble
    BY DEF CalibrationInv, TryBase
  <2>8. CASE fail' = Parts
    BY <2>1, <2>3, <2>4, <2>5, <2>6, <2>8, <2>7 DEF CalibrationInv
  <2>9. CASE fail' # Parts
    <3>1. st' = "fix" /\ base' = base
      BY <2>1, <2>9
    <3>2. InForce'
      BY <2>1, <2>3, <2>4, <2>5, <2>7, <3>1 DEF InForce, Pictured
    <3> QED BY <2>3, <2>4, <2>5, <2>6, <3>1, <3>2 DEF CalibrationInv
  <2> QED BY <2>8, <2>9
<1> QED BY <1>1, <1>2

LEMMA PartsKept ==
  ASSUME CalibrationInv, PassOver \/ StartFix \/ Judge
  PROVE  CalibrationInv'
<1>1. CASE PassOver
  BY <1>1 DEF PassOver, CalibrationInv, Hardware, InForce, Pictured
<1>2. CASE StartFix
  <2>1. nibble' \in Nibbles
    BY <1>2 DEF StartFix, CalibrationInv, Nibbles
  <2> QED BY <1>2, <2>1 DEF StartFix, CalibrationInv, Hardware
<1>3. CASE Judge
  BY <1>3 DEF Judge, Settings, CalibrationInv, Hardware, InForce, Pictured
<1> QED BY <1>1, <1>2, <1>3

(* A turn of the loop over the delays of one part. *)
LEMMA NibbleKept ==
  ASSUME CalibrationInv, TryNibble
  PROVE  CalibrationInv'
<1>1. PICK w \in Mismatches :
        /\ SetHardware(Remeasured(Hardware, nibble, base))
        /\ wrong' = w
        /\ fail' = determine_broken(w)
        /\ IF part \notin fail'
           THEN st' = "fix" /\ part' = part + 1 /\ UNCHANGED nibble
           ELSE IF nibble[part] < 3
           THEN UNCHANGED <<st, part>> /\ nibble' = [nibble EXCEPT ![part] = @ + 1]
           ELSE st' = "fix" /\ part' = EndPart /\ UNCHANGED nibble
  BY DEF TryNibble, StillBroken
<1> DEFINE h == Remeasured(Hardware, nibble, base)
<1>2. Hardware \in Machines /\ Hardware.reg.drawing = TRUE /\ nibble \in Nibbles /\ base \in Nat
  BY DEF CalibrationInv, TryNibble, Hardware
<1>3. h \in Machines /\ Pictured(h) /\ h.reg = [nibble |-> nibble, base |-> base, drawing |-> TRUE]
  BY <1>2, RemeasuredPictured
<1> HIDE DEF h
<1>4. reg' = h.reg /\ mem' = h.mem /\ crc' = h.crc /\ Hardware' = h /\ base' = base
  BY <1>1, <1>3 DEF SetHardware, Hardware, Machines, h, TryNibble
<1>5. fail' \subseteq Parts
  BY <1>1, BrokenParts
<1>6. CASE st' = "fix"
  <2>1. nibble' = nibble
    BY <1>1, <1>6 DEF TryNibble
  <2>2. InForce'
    BY <1>1, <1>3, <1>4, <2>1 DEF InForce, Pictured
  <2> QED BY <1>2, <1>3, <1>4, <1>5, <1>6, <2>1, <2>2 DEF CalibrationInv
<1>7. CASE st' # "fix"
  <2>1. st' = "nibble" /\ part' = part /\ part \in fail' /\ nibble[part] < 3
        /\ nibble' = [nibble EXCEPT ![part] = @ + 1]
    BY <1>1, <1>7 DEF TryNibble
  <2>2. nibble' \in Nibbles
    BY <1>2, <1>5, <2>1 DEF Nibbles
  <2> QED BY <1>3, <1>4, <1>5, <1>2, <2>1, <2>2 DEF CalibrationInv
<1> QED BY <1>6, <1>7
-----------------------------------------------------------------------------
LEMMA CalibrationStep == CalibrationInv /\ [Next]_vars => CalibrationInv'
<1> SUFFICES ASSUME CalibrationInv, [Next]_vars PROVE CalibrationInv'
  OBVIOUS
<1>1. CASE UNCHANGED evars
  BY <1>1 DEF evars, CalibrationInv, Hardware, InForce, Pictured
<1>2. CASE EdramNext
  BY <1>2, LinkKept, PrepareKept, BaseKept, PartsKept, NibbleKept DEF EdramNext
<1>3. CASE StartFrames
  <2>1. st' = "done" /\ nibble' = [p \in Parts |-> 1] /\ base' = 11 /\ fail' = {}
        /\ reg' = [nibble |-> nibble', base |-> 0, drawing |-> FALSE] /\ mem' = "old"
        /\ crc' = [of |-> "other", with |-> reg']
    BY <1>3 DEF StartFrames
  <2>2. nibble' \in Nibbles
    BY <2>1 DEF Nibbles
  <2>3. reg' \in Delays
    BY <2>1, <2>2 DEF Delays
  <2>4. Hardware' \in Machines
    BY <2>1, <2>3 DEF Hardware, Machines
  <2> QED BY <2>1, <2>2, <2>4 DEF CalibrationInv
<1> QED BY <1>1, <1>2, <1>3 DEF Next, Video, StartGpu, Start, StartEdram, Calibrate, Frames, State, vars

(* edram_init returns only with delays in the registers at which every     *)
(* part of the test picture was right in one measurement, and that one was *)
(* of the test picture alone (drivers/xenos/edram.c, the loops of          *)
(* edram_init_state1).  With no part at all the loop over the base delays  *)
(* would end beyond the last one measured.                                 *)
THEOREM MeasuredAsLeft ==
  ASSUME Parts # {}
  PROVE  Spec => []NothingBroken
<1>1. Init => CalibrationInv
  BY CalibrationStarts DEF Init
<1>2. CalibrationInv => NothingBroken
  BY DEF CalibrationInv, NothingBroken, InForce, Pictured, Hardware
<1> QED BY <1>1, <1>2, CalibrationStep, PTL DEF Spec
-----------------------------------------------------------------------------
(* The phases.  A reading is put together again as it was taken.           *)
LEMMA GatheredAgain == \A r \in 0 .. 15 : Gathered(r) = r
  BY DEF Gathered

(* Where the eye of a reading is, phase by phase.                          *)
LEMMA EyeAt ==
  ASSUME NEW r \in 0 .. 15
  PROVE  /\ Eye(r) \subseteq 0 .. 3
         /\ 0 \in Eye(r) <=> (r \div 1) % 2 = 1 /\ (r \div 4) % 2 = 0
         /\ 1 \in Eye(r) <=> (r \div 2) % 2 = 1 /\ (r \div 8) % 2 = 0
         /\ 2 \in Eye(r) <=> (r \div 4) % 2 = 1 /\ (r \div 1) % 2 = 0
         /\ 3 \in Eye(r) <=> (r \div 8) % 2 = 1 /\ (r \div 2) % 2 = 0
<1>1. /\ 2^0 = 1 /\ 2^1 = 2 /\ 2^2 = 4 /\ 2^3 = 8
      /\ (0 + 2) % 4 = 2 /\ (1 + 2) % 4 = 3 /\ (2 + 2) % 4 = 0 /\ (3 + 2) % 4 = 1
  OBVIOUS
<1>2. Eye(r) \subseteq 0 .. 3
  BY DEF Eye
<1>3. \A ph \in 0 .. 3 : ph \in Eye(r) <=> (r \div 2^ph) % 2 = 1 /\ (r \div 2^((ph + 2) % 4)) % 2 = 0
  BY DEF Eye
<1>4. 0 \in 0 .. 3 /\ 1 \in 0 .. 3 /\ 2 \in 0 .. 3 /\ 3 \in 0 .. 3
  OBVIOUS
<1> QED BY <1>1, <1>2, <1>3, <1>4, Zenon

(* Both tables give a reading the setting of a phase inside its eye.       *)
LEMMA TablesAgree ==
  ASSUME NEW r \in 0 .. 15, Eye(r) # {}, NEW s
  PROVE  \E ph \in Eye(r) : Data(s)[r + 1] = Data(s)[Defaults[ph + 1] + 1]
<1>0. Defaults[1] = 11 /\ Defaults[2] = 7 /\ Defaults[3] = 15 /\ Defaults[4] = 13
  BY DEF Defaults
<1>1. ASSUME NEW T, T = Data6Old \/ T = Data6New
      PROVE  /\ \A q \in {1, 3, 11} : T[q + 1] = T[11 + 1]
             /\ \A q \in {2, 6, 7} : T[q + 1] = T[7 + 1]
             /\ \A q \in {4, 12, 14} : T[q + 1] = T[15 + 1]
             /\ \A q \in {8, 9, 13} : T[q + 1] = T[13 + 1]
  BY <1>1 DEF Data6Old, Data6New
<1>2. CASE r \in {1, 3, 11}
  <2>1. 0 \in Eye(r)
    BY <1>2, EyeAt
  <2> QED BY <1>0, <1>1, <1>2, <2>1 DEF Data
<1>3. CASE r \in {2, 6, 7}
  <2>1. 1 \in Eye(r)
    BY <1>3, EyeAt
  <2> QED BY <1>0, <1>1, <1>3, <2>1 DEF Data
<1>4. CASE r \in {4, 12, 14}
  <2>1. 2 \in Eye(r)
    BY <1>4, EyeAt
  <2> QED BY <1>0, <1>1, <1>4, <2>1 DEF Data
<1>5. CASE r \in {8, 9, 13}
  <2>1. 3 \in Eye(r)
    BY <1>5, EyeAt
  <2> QED BY <1>0, <1>1, <1>5, <2>1 DEF Data
<1>6. r \notin {0, 5, 10, 15}
  <2>1. SUFFICES ASSUME r \in {0, 5, 10, 15} PROVE Eye(r) = {}
    OBVIOUS
  <2> QED BY <2>1, EyeAt
<1> QED BY <1>2, <1>3, <1>4, <1>5, <1>6

(* The setting of a side is the one its table has for a reading that did   *)
(* not change, and while a side is sampled all readings are that one.      *)
Chip(s) == \A r : wave[s] = {r} => cfg[s] = Data(s)[Gathered(r) + 1]
Steady(r) == seen.stable = TRUE /\ (seen.round # 0 => seen.first = Gathered(r) /\ seen.last = Gathered(r))

LinkInv ==
  /\ DOMAIN cfg = Sides
  /\ st \in Sides => seen.round \in Nat /\ \A r : wave[st] = {r} => Steady(r)
  /\ st \in {"gpu", "ready"} => Chip("edram")
  /\ st = "ready" => Chip("gpu")

LEMMA LinkStarts == EdramInit => LinkInv
  BY DEF EdramInit, LinkInv, Sides

LEMMA SampleKept ==
  ASSUME LinkInv, NEW side \in Sides, Sample(side)
  PROVE  LinkInv'
<1>1. PICK r \in wave[side] : seen' = Sampled(seen, Gathered(r))
  BY DEF Sample
<1>2. /\ st = side /\ st' = st /\ wave' = wave /\ cfg' = cfg /\ newer' = newer
      /\ side # "ready"
  BY DEF Sample, Sides
<1>3. /\ seen'.round = seen.round + 1 /\ seen'.last = Gathered(r)
      /\ seen'.first = (IF seen.round = 0 THEN Gathered(r) ELSE seen.first)
      /\ seen'.stable = (seen.stable /\ (seen.round = 0 \/ Gathered(r) = seen.first))
  BY <1>1 DEF Sampled
<1>4. seen.round \in Nat /\ seen'.round \in Nat
  BY <1>2, <1>3 DEF LinkInv
<1>5. ASSUME NEW q, wave[st] = {q} PROVE Steady(q)'
  <2>1. r = q /\ Steady(q)
    BY <1>2, <1>5 DEF LinkInv
  <2> QED BY <1>3, <1>4, <2>1 DEF Steady
<1>6. Chip("edram") => Chip("edram")'
  BY <1>2 DEF Chip, Data
<1> QED BY <1>2, <1>4, <1>5, <1>6 DEF LinkInv

LEMMA ChosenKept ==
  ASSUME LinkInv, ChooseEdram \/ ChooseGpu
  PROVE  LinkInv'
<1>1. PICK side \in Sides : /\ Chosen(side, IF side = "edram" THEN "gpu" ELSE "ready")
  BY DEF ChooseEdram, ChooseGpu, Sides
<1>2. /\ st = side /\ seen.round = Rounds /\ wave' = wave /\ newer' = newer /\ seen' = Fresh
      /\ cfg' = [cfg EXCEPT ![side] = Setting(side, seen)]
      /\ st' = IF side = "edram" THEN "gpu" ELSE "ready"
  BY <1>1 DEF Chosen
<1>3. DOMAIN cfg' = Sides /\ cfg'[side] = Setting(side, seen) /\ \A s \in Sides : s # side => cfg'[s] = cfg[s]
  BY <1>2 DEF LinkInv
<1>4. Chip(side)'
  <2> SUFFICES ASSUME NEW r, wave[side] = {r} PROVE cfg'[side] = Data(side)[Gathered(r) + 1]
    BY <1>2 DEF Chip, Data
  <2>1. Steady(r) /\ seen.round # 0
    BY <1>2, EdramAssumption DEF LinkInv, EdramAssumption
  <2> QED BY <1>3, <2>1 DEF Steady, Setting
<1>5. Fresh.round = 0 /\ Fresh.stable = TRUE
  BY DEF Fresh
<1>6. CASE side = "edram"
  BY <1>2, <1>3, <1>4, <1>5, <1>6 DEF LinkInv, Steady
<1>7. CASE side = "gpu"
  <2>1. Chip("edram")'
    BY <1>2, <1>3, <1>7 DEF LinkInv, Chip, Data, Sides
  <2> QED BY <1>2, <1>3, <1>4, <1>7, <2>1 DEF LinkInv, Sides
<1> QED BY <1>6, <1>7 DEF Sides

LEMMA LinkElse ==
  ASSUME LinkInv,
         Retry \/ GiveUp \/ Prepare \/ TryBase \/ PassOver \/ StartFix \/ TryNibble \/ Judge
  PROVE  LinkInv'
<1>1. CASE Retry
  BY <1>1 DEF Retry, LinkInv, Linked, Sides, Fresh, Steady
<1>2. CASE GiveUp \/ Prepare \/ TryBase \/ PassOver \/ StartFix \/ TryNibble \/ Judge
  <2>1. cfg' = cfg /\ st' \in {"fatal", "base", "fix", "nibble", "worked", "retry"}
    BY <1>2 DEF GiveUp, Prepare, TryBase, PassOver, StartFix, TryNibble, Judge, LinkInv
  <2> QED BY <2>1 DEF LinkInv, Sides
<1> QED BY <1>1, <1>2

LEMMA LinkStep == LinkInv /\ [Next]_vars => LinkInv'
<1> SUFFICES ASSUME LinkInv, [Next]_vars PROVE LinkInv'
  OBVIOUS
<1>1. CASE UNCHANGED evars
  BY <1>1 DEF evars, LinkInv, Chip, Steady, Data
<1>2. CASE EdramNext
  BY <1>2, SampleKept, ChosenKept, LinkElse DEF EdramNext
<1>3. CASE StartFrames
  BY <1>3 DEF StartFrames, LinkInv, Sides
<1> QED BY <1>1, <1>2, <1>3 DEF Next, Video, StartGpu, Start, StartEdram, Calibrate, Frames, State, vars

(* A chip that reads the same in every sample is sampled where it reads    *)
(* steadily, at either side and by either table (edram_p2), and what       *)
(* edram_init returns with was measured as a whole.                        *)
THEOREM LinkCalibrated ==
  ASSUME Parts # {}
  PROVE  Spec => []Calibrated
<1>1. Init => LinkInv
  BY LinkStarts DEF Init
<1>2. LinkInv => EyesOpen
  <2> SUFFICES ASSUME LinkInv, st = "ready", NEW s \in Sides, NEW r \in 0 .. 15, wave[s] = {r}, Eye(r) # {}
               PROVE  \E ph \in Eye(r) : cfg[s] = Data(s)[Defaults[ph + 1] + 1]
    BY DEF EyesOpen
  <2>1. cfg[s] = Data(s)[r + 1]
    BY GatheredAgain DEF LinkInv, Chip, Sides
  <2> QED BY <2>1, TablesAgree
<1>3. Spec => []EyesOpen
  BY <1>1, <1>2, LinkStep, PTL DEF Spec
<1>4. Spec => []NothingBroken
  BY MeasuredAsLeft
<1> QED BY <1>3, <1>4, PTL DEF Calibrated

-----------------------------------------------------------------------------
(* The dirty bits of the driver, vertex buffers and vertex fetches.        *)
(* Types. *)
SetValues == Values \cup {"zero", "initial"}
RegValues == SetValues \cup {"start", "resolve"}
Shaders == VShaders \cup PShaders
FetchValues == Values \cup Buffers \cup {None, "start", "resolve"}
Places == Instances \cup {0}

Block ==
  [control : [Fields -> SetValues], misc : [Misc -> SetValues],
   alu : [Floats -> SetValues \cup Shaders], fetch : [FetchGroups -> FetchValues],
   ints : Shaders \cup {None}, ps : PShaders \cup {None}, vs : VShaders \cup {None},
   vs_index : Places, dirty : SUBSET Flags,
   alu_dirty : SUBSET (0 .. 31), fetch_dirty : SUBSET (0 .. 31), missed : SUBSET Textures]

Registers ==
  [control : [Fields -> RegValues], misc : [Misc -> RegValues],
   alu : [Floats -> RegValues \cup Shaders], fetch : [FetchGroups -> FetchValues],
   ints : Shaders \cup {None, "start"}, ps : PShaders \cup {None, "start", "resolve"},
   vs : {"start", "resolve"} \cup (VShaders \X Places)]

BufferStates ==
  [Buffers -> [lock : SUBSET {"READ", "WRITE"}, unsynced : BOOLEAN, stale : BOOLEAN]]

(* What the registers do not have yet is marked, but for the textures of   *)
(* which Xe_SetTexture has marked other groups.                            *)
Marked(x, g) ==
  /\ "CONTROL" \in x.dirty \/ g.control = x.control
  /\ \A r \in Floats : ("ALU" \in x.dirty /\ r \div 16 \in x.alu_dirty) \/ g.alu[r] = x.alu[r]
  /\ \A k \in FetchGroups \ x.missed :
       ("FETCH" \in x.dirty /\ k \in x.fetch_dirty) \/ g.fetch[k] = x.fetch[k]
  /\ "INTEGER" \in x.dirty \/ g.ints = x.ints
  /\ "SHADER" \in x.dirty \/ /\ x.ps # None => g.ps = x.ps
                             /\ x.vs # None => g.vs = <<x.vs, x.vs_index>>

(* A buffer whose words some cache still hides is locked for writing. *)
Settled == \A b \in Buffers : bufs[b].unsynced \/ bufs[b].stale => "WRITE" \in bufs[b].lock

(* The last draw. *)
DrawnRight ==
  drawn # None =>
    /\ drawn.set \in Block /\ drawn.had \in Registers
    /\ drawn.had.control = drawn.set.control
    /\ drawn.had.misc = drawn.set.misc
    /\ drawn.had.alu = drawn.set.alu
    /\ \A k \in FetchGroups \ Left(drawn.set) : drawn.had.fetch[k] = drawn.set.fetch[k]
    /\ drawn.had.ints = drawn.set.ints
    /\ drawn.had.ps = drawn.set.ps
    /\ drawn.had.vs = <<drawn.set.vs, drawn.set.vs_index>>
    /\ drawn.set.fetch[Stream] \in Buffers =>
         ~drawn.from[drawn.set.fetch[Stream]].unsynced /\ ~drawn.from[drawn.set.fetch[Stream]].stale

(* The inductive invariant.  After a resolve the registers are anything    *)
(* until Xe_InvalidateState has marked all of the state.                   *)
StateInv ==
  /\ xe \in Block /\ regs \in Registers /\ bufs \in BufferStates
  /\ clobbered \in BOOLEAN
  /\ ~clobbered => Marked(xe, regs)
  /\ Settled
  /\ DrawnRight
-----------------------------------------------------------------------------
LEMMA StateStart == StateInit => StateInv
<1> SUFFICES ASSUME StateInit PROVE StateInv
  OBVIOUS
<1>1. xe \in Block
  BY DEF StateInit, Block, SetValues, FetchValues, Places, Flags
<1>2. regs \in Registers
  BY DEF StateInit, GInit, Registers, RegValues, FetchValues
<1>3. bufs \in BufferStates /\ Settled /\ clobbered = TRUE /\ DrawnRight
  BY DEF StateInit, BufferStates, Settled, DrawnRight
<1> QED BY <1>1, <1>2, <1>3 DEF StateInv

(* What Xe_DirtyAluConstant and Xe_DirtyFetch mark. *)
LEMMA AluMarks ==
  ASSUME NEW x \in Block, NEW low \in Nat, NEW len \in Nat
  PROVE  /\ DirtyAluConstant(x, low, len) \in Block
         /\ DirtyAluConstant(x, low, len) =
              [x EXCEPT !.alu_dirty = x.alu_dirty \cup Groups(low, len, 16), !.dirty = x.dirty \cup {"ALU"}]
         /\ \A r \in Floats : r \in low .. low + len - 1 => r \div 16 \in Groups(low, len, 16)
<1>1. Groups(low, len, 16) \subseteq 0 .. 31
  BY DEF Groups
<1>2. ASSUME NEW r \in Floats, r \in low .. low + len - 1 PROVE r \div 16 \in Groups(low, len, 16)
  <2>1. r \in 0 .. 511
    BY XenosAssumption DEF XenosAssumption
  <2>2. r \div 16 \in 0 .. 31 /\ low \div 16 <= r \div 16 /\ (r \div 16) * 16 <= r
    BY <2>1, <1>2
  <2> QED BY <2>1, <2>2, <1>2 DEF Groups
<1> QED BY <1>1, <1>2 DEF DirtyAluConstant, Block, Flags

LEMMA FetchMarks ==
  ASSUME NEW x \in Block, NEW low \in Nat, NEW len \in Nat
  PROVE  /\ DirtyFetch(x, low, len) \in Block
         /\ DirtyFetch(x, low, len) =
              [x EXCEPT !.fetch_dirty = x.fetch_dirty \cup Groups(low, len, 3), !.dirty = x.dirty \cup {"FETCH"}]
<1>1. Groups(low, len, 3) \subseteq 0 .. 31
  BY DEF Groups
<1> QED BY <1>1 DEF DirtyFetch, Block, Flags
-----------------------------------------------------------------------------
(* The setters change the block only, and no draw is on record after them. *)
LEMMA Setter ==
  ASSUME StateInv, Call, OnlyState, xe' \in Block, ~clobbered => Marked(xe', regs)
  PROVE  StateInv'
<1>1. drawn' = None /\ regs' = regs /\ clobbered' = clobbered /\ bufs' = bufs
  BY DEF Call, OnlyState
<1> QED BY <1>1 DEF StateInv, Settled, DrawnRight

LEMMA ControlSet ==
  ASSUME StateInv, NEW f \in Fields, NEW v \in Values, SetControl(f, v)
  PROVE  StateInv'
<1>1. xe' = [xe EXCEPT !.control[f] = v, !.dirty = @ \cup {"CONTROL"}]
  BY DEF SetControl
<1>2. xe' \in Block
  BY <1>1 DEF StateInv, Block, SetValues, Flags
<1>3. ~clobbered => Marked(xe', regs)
  BY <1>1 DEF StateInv, Block, Marked
<1> QED BY <1>2, <1>3, Setter DEF SetControl

LEMMA MiscSet ==
  ASSUME StateInv, NEW m \in Misc, NEW v \in Values, SetMisc(m, v) \/ SetRenderTarget(v)
  PROVE  StateInv'
<1>1. /\ xe' \in Block
      /\ \A n \in {"control", "alu", "fetch", "ints", "ps", "vs", "vs_index", "alu_dirty", "fetch_dirty", "missed"} :
           xe'[n] = xe[n]
      /\ xe.dirty \subseteq xe'.dirty
  <2>1. CASE SetMisc(m, v)
    BY <2>1 DEF SetMisc, StateInv, Block, SetValues, Flags, Misc
  <2>2. CASE SetRenderTarget(v)
    BY <2>2 DEF SetRenderTarget, StateInv, Block, SetValues, Flags, Misc
  <2> QED BY <2>1, <2>2
<1>2. ~clobbered => Marked(xe', regs)
  BY <1>1 DEF StateInv, Marked
<1> QED BY <1>1, <1>2, Setter DEF SetMisc, SetRenderTarget

LEMMA FloatsSet ==
  ASSUME StateInv, NEW c \in FloatCalls, NEW v \in Values, SetFloats(c[1], c[2], v)
  PROVE  StateInv'
<1> DEFINE x == [xe EXCEPT !.alu = [r \in Floats |-> IF r \in c[1] .. c[1] + c[2] - 1 THEN v ELSE @[r]]]
<1>1. c[1] \in Nat /\ c[2] \in Nat
  BY XenosAssumption DEF XenosAssumption
<1>2. x \in Block
  BY DEF StateInv, Block, SetValues
<1>3. xe' = DirtyAluConstant(x, c[1], c[2])
  BY DEF SetFloats
<1>4. /\ xe' \in Block
      /\ xe' = [x EXCEPT !.alu_dirty = x.alu_dirty \cup Groups(c[1], c[2], 16), !.dirty = x.dirty \cup {"ALU"}]
      /\ \A r \in Floats : r \in c[1] .. c[1] + c[2] - 1 => r \div 16 \in Groups(c[1], c[2], 16)
  BY <1>1, <1>2, <1>3, AluMarks
<1>5. ~clobbered => Marked(xe', regs)
  <2>1. /\ \A n \in {"control", "fetch", "ints", "ps", "vs", "vs_index", "fetch_dirty", "missed"} : xe'[n] = xe[n]
        /\ xe'.dirty = xe.dirty \cup {"ALU"}
        /\ xe'.alu_dirty = xe.alu_dirty \cup Groups(c[1], c[2], 16)
        /\ \A r \in Floats : r \notin c[1] .. c[1] + c[2] - 1 => xe'.alu[r] = xe.alu[r]
    BY <1>2, <1>4 DEF StateInv, Block
  <2> QED BY <1>4, <2>1 DEF StateInv, Marked
<1> QED BY <1>4, <1>5, Setter DEF SetFloats

LEMMA TextureSet ==
  ASSUME StateInv, NEW i \in Textures, NEW t \in Values, SetTexture(i, t)
  PROVE  StateInv'
<1> DEFINE x == [xe EXCEPT !.fetch[i] = t, !.missed = @ \cup ({i} \ TextureGroups(i))]
<1>1. i \in 0 .. 30 /\ i \in FetchGroups /\ i # Stream
  BY XenosAssumption DEF XenosAssumption, FetchGroups, Stream
<1>2. x \in Block
  BY DEF StateInv, Block, FetchValues
<1>3. /\ xe' \in Block
      /\ xe' = [x EXCEPT !.fetch_dirty = x.fetch_dirty \cup Groups(i + i * 3, 3, 3), !.dirty = x.dirty \cup {"FETCH"}]
  <2>1. xe' = DirtyFetch(x, i + i * 3, 3)
    BY DEF SetTexture
  <2>2. i + i * 3 \in Nat
    BY <1>1
  <2> QED BY <1>2, <2>1, <2>2, FetchMarks
<1>4. ~clobbered => Marked(xe', regs)
  <2>1. /\ \A n \in {"control", "alu", "ints", "ps", "vs", "vs_index", "alu_dirty"} : xe'[n] = xe[n]
        /\ xe'.dirty = xe.dirty \cup {"FETCH"}
        /\ xe'.fetch_dirty = xe.fetch_dirty \cup TextureGroups(i)
        /\ xe'.missed = xe.missed \cup ({i} \ TextureGroups(i))
        /\ \A k \in FetchGroups : k # i => xe'.fetch[k] = xe.fetch[k]
    BY <1>2, <1>3 DEF StateInv, Block, TextureGroups
  <2>2. i \notin xe'.missed => i \in xe'.fetch_dirty
    BY <2>1
  <2> QED BY <2>1, <2>2 DEF StateInv, Marked
<1> QED BY <1>3, <1>4, Setter DEF SetTexture

(* A buffer becomes the stream. *)
LEMMA StreamMarks ==
  ASSUME NEW x \in Block, NEW b \in Buffers
  PROVE  /\ WithStream(x, b) \in Block
         /\ \A n \in {"control", "misc", "alu", "ints", "ps", "vs", "vs_index", "alu_dirty"} :
              WithStream(x, b)[n] = x[n]
         /\ WithStream(x, b).fetch[Stream] = b
         /\ \A g : Marked(x, g) => Marked(WithStream(x, b), g)
<1> DEFINE y == [x EXCEPT !.fetch[Stream] = b]
           z == WithStream(x, b)
<1>1. y \in Block /\ Stream \in FetchGroups
  BY DEF Block, FetchValues, FetchGroups
<1>2. /\ z \in Block
      /\ z = [y EXCEPT !.fetch_dirty = y.fetch_dirty \cup Groups(95, 1, 3), !.dirty = y.dirty \cup {"FETCH"}]
  BY <1>1, FetchMarks DEF WithStream
<1>3. Stream \in Groups(95, 1, 3)
  BY DEF Groups, Stream
<1>4. /\ \A n \in {"control", "misc", "alu", "ints", "ps", "vs", "vs_index", "alu_dirty"} : z[n] = x[n]
      /\ z.dirty = x.dirty \cup {"FETCH"}
      /\ z.fetch_dirty = x.fetch_dirty \cup Groups(95, 1, 3) /\ z.missed = x.missed
      /\ \A k \in FetchGroups : z.fetch[k] = IF k = Stream THEN b ELSE x.fetch[k]
  BY <1>1, <1>2 DEF Block
<1>5. ASSUME NEW g, Marked(x, g) PROVE Marked(z, g)
  BY <1>3, <1>4, <1>5 DEF Marked
<1> QED BY <1>1, <1>2, <1>4, <1>5

LEMMA StreamSet ==
  ASSUME StateInv, NEW b \in Buffers, SetStreamSource(b)
  PROVE  StateInv'
<1>1. xe' = WithStream(xe, b)
  BY DEF SetStreamSource
<1> QED BY <1>1, StreamMarks, Setter DEF SetStreamSource, StateInv

LEMMA ShaderSet ==
  ASSUME StateInv,
         \/ \E sh \in PShaders : SetPixelShader(sh)
         \/ \E sh \in VShaders, i \in Instances : SetVertexShader(sh, i)
  PROVE  StateInv'
<1>1. CASE \E sh \in PShaders : SetPixelShader(sh)
  <2>1. PICK sh \in PShaders : SetPixelShader(sh)
    BY <1>1
  <2>2. xe' \in Block /\ (~clobbered => Marked(xe', regs))
    BY <2>1 DEF SetPixelShader, StateInv, Block, Flags, Marked
  <2> QED BY <2>1, <2>2, Setter DEF SetPixelShader
<1>2. CASE \E sh \in VShaders, i \in Instances : SetVertexShader(sh, i)
  <2>1. PICK sh \in VShaders, i \in Instances : SetVertexShader(sh, i)
    BY <1>2
  <2>2. xe' \in Block /\ (~clobbered => Marked(xe', regs))
    BY <2>1 DEF SetVertexShader, StateInv, Block, Flags, Places, Marked
  <2> QED BY <2>1, <2>2, Setter DEF SetVertexShader
<1> QED BY <1>1, <1>2

LEMMA Invalidated ==
  ASSUME StateInv, InvalidateState
  PROVE  StateInv'
<1> DEFINE y == [xe EXCEPT !.dirty = Flags, !.alu_dirty = 0 .. 31, !.fetch_dirty = 0 .. 31]
<1>1. y \in Block /\ y.dirty = Flags /\ y.alu_dirty = 0 .. 31 /\ y.fetch_dirty = 0 .. 31
  BY DEF StateInv, Block
<1>2. xe' \in Block /\ xe'.dirty = Flags /\ xe'.alu_dirty = 0 .. 31 /\ xe'.fetch_dirty = 0 .. 31
  <2>1. xe' = InitControl(y)
    BY DEF InvalidateState
  <2> HIDE DEF y
  <2>2. xe' = [y EXCEPT !.control = [f \in Fields |-> "initial"], !.misc.stencil = "initial",
                        !.dirty = y.dirty \cup {"CONTROL", "MISC"}]
    BY <2>1 DEF InitControl
  <2>3. xe' \in Block
    BY <1>1, <2>2 DEF Block, Flags, SetValues
  <2>4. xe'.dirty = y.dirty \cup {"CONTROL", "MISC"} /\ xe'.alu_dirty = y.alu_dirty /\ xe'.fetch_dirty = y.fetch_dirty
    BY <1>1, <2>2 DEF Block
  <2> QED BY <1>1, <2>3, <2>4 DEF Flags
<1>3. \A r \in Floats : r \div 16 \in 0 .. 31
  <2>1. \A r \in 0 .. 511 : r \div 16 \in 0 .. 31
    OBVIOUS
  <2>2. Floats \subseteq 0 .. 511
    BY XenosAssumption, Zenon DEF XenosAssumption
  <2> QED BY <2>1, <2>2
<1>4. FetchGroups \subseteq 0 .. 31
  BY XenosAssumption DEF XenosAssumption, FetchGroups, Stream
<1>5. Marked(xe', regs)
  BY <1>2, <1>3, <1>4 DEF Marked, Flags
<1>6. drawn' = None /\ regs' = regs /\ bufs' = bufs /\ clobbered' = FALSE
  BY DEF InvalidateState, Call
<1> QED BY <1>2, <1>5, <1>6 DEF StateInv, Settled, DrawnRight
-----------------------------------------------------------------------------
(* Shaders, locks and resolves. *)

LEMMA CodeChanged ==
  ASSUME StateInv, NEW i \in Instances,
         Instantiate(i) \/ \E fmt \in Formats : ApplyPatches(i, fmt)
  PROVE  StateInv'
<1>1. drawn' = None /\ xe' = xe /\ regs' = regs /\ clobbered' = clobbered /\ bufs' = bufs
  BY DEF Instantiate, ApplyPatches, Call
<1> QED BY <1>1 DEF StateInv, Settled, DrawnRight

LEMMA BuffersChanged ==
  ASSUME StateInv, NEW b \in Buffers,
         \/ \E flags \in SUBSET {"READ", "WRITE"} : Lock(b, flags)
         \/ WriteVB(b) \/ Unlock(b)
  PROVE  StateInv'
<1>1. drawn' = None /\ xe' = xe /\ regs' = regs /\ clobbered' = clobbered
  BY DEF Lock, WriteVB, Unlock, Call
<1>2. bufs' \in BufferStates /\ Settled'
  <2>1. CASE \E flags \in SUBSET {"READ", "WRITE"} : Lock(b, flags)
    BY <2>1 DEF Lock, MayLock, StateInv, BufferStates, Settled
  <2>2. CASE WriteVB(b)
    BY <2>2 DEF WriteVB, StateInv, BufferStates, Settled
  <2>3. CASE Unlock(b)
    BY <2>3 DEF Unlock, StateInv, BufferStates, Settled
  <2> QED BY <2>1, <2>2, <2>3
<1> QED BY <1>1, <1>2 DEF StateInv, DrawnRight

LEMMA Resolved ==
  ASSUME StateInv, Resolve
  PROVE  StateInv'
<1>1. drawn' = None /\ clobbered' = TRUE /\ bufs' = bufs
  BY DEF Resolve, Call
<1>2. xe' \in Block
  BY DEF Resolve, StateInv, Block, Flags
<1>3. regs' \in Registers
  BY DEF Resolve, StateInv, Registers, RegValues, FetchValues
<1> QED BY <1>1, <1>2, <1>3 DEF StateInv, Settled, DrawnRight
-----------------------------------------------------------------------------
(* Drawing: the shaders' own constants become state, and are marked. *)
LEMMA ConstantsMarked ==
  ASSUME NEW x \in Block, NEW sh \in Shaders \cup {None}
  PROVE  /\ WithConstants(x, sh) \in Block
         /\ \A n \in {"control", "misc", "fetch", "ps", "vs", "vs_index", "fetch_dirty", "missed"} :
              WithConstants(x, sh)[n] = x[n]
         /\ x.dirty \subseteq WithConstants(x, sh).dirty
         /\ \A g : Marked(x, g) => Marked(WithConstants(x, sh), g)
<1>1. CASE sh = None
  BY <1>1 DEF WithConstants
<1>2. CASE sh # None
  <2> DEFINE lit == Literals[sh]
             y == [x EXCEPT !.alu = [r \in Floats |->
                     IF r \in lit[1] .. lit[1] + (lit[2] \div 4) - 1 THEN sh ELSE @[r]]]
             z == DirtyAluConstant(y, lit[1], lit[2])
             w == WithConstants(x, sh)
  <2>1. lit[1] \in Nat /\ lit[2] \in Nat
    BY <1>2, XenosAssumption DEF XenosAssumption, Shaders
  <2>2. y \in Block
    BY <1>2 DEF Block
  <2>3. /\ z \in Block
        /\ z = [y EXCEPT !.alu_dirty = y.alu_dirty \cup Groups(lit[1], lit[2], 16), !.dirty = y.dirty \cup {"ALU"}]
        /\ \A r \in Floats : r \in lit[1] .. lit[1] + lit[2] - 1 => r \div 16 \in Groups(lit[1], lit[2], 16)
    BY <2>1, <2>2, AluMarks
  <2>4. /\ \A n \in {"control", "misc", "fetch", "ints", "ps", "vs", "vs_index", "fetch_dirty", "missed"} : z[n] = x[n]
        /\ z.dirty = x.dirty \cup {"ALU"}
        /\ z.alu_dirty = x.alu_dirty \cup Groups(lit[1], lit[2], 16)
        /\ \A r \in Floats : r \notin lit[1] .. lit[1] + (lit[2] \div 4) - 1 => z.alu[r] = x.alu[r]
    <3>1. /\ \A n \in {"control", "misc", "fetch", "ints", "ps", "vs", "vs_index", "fetch_dirty", "missed",
                        "alu_dirty", "dirty"} : y[n] = x[n]
          /\ \A r \in Floats : r \notin lit[1] .. lit[1] + (lit[2] \div 4) - 1 => y.alu[r] = x.alu[r]
      BY DEF Block
    <3> HIDE DEF y
    <3>2. /\ \A n \in {"control", "misc", "fetch", "ints", "ps", "vs", "vs_index", "fetch_dirty", "missed", "alu"} :
               z[n] = y[n]
          /\ z.dirty = y.dirty \cup {"ALU"}
          /\ z.alu_dirty = y.alu_dirty \cup Groups(lit[1], lit[2], 16)
      <4> HIDE DEF z
      <4> QED BY <2>2, <2>3 DEF Block
    <3> QED BY <3>1, <3>2
  <2>5. \A r \in Floats : r \in lit[1] .. lit[1] + (lit[2] \div 4) - 1 => r \in lit[1] .. lit[1] + lit[2] - 1
    <3>1. lit[2] \div 4 \in Nat /\ lit[2] \div 4 <= lit[2]
      BY <2>1
    <3> QED BY <2>1, <3>1
  <2>6. w = IF sh \in Integers_ THEN [z EXCEPT !.ints = sh, !.dirty = @ \cup {"INTEGER"}] ELSE z
    BY <1>2 DEF WithConstants
  <2> HIDE DEF lit, y, z, w
  <2>7. /\ w \in Block
        /\ \A n \in {"control", "misc", "alu", "fetch", "ps", "vs", "vs_index", "alu_dirty", "fetch_dirty", "missed"} :
             w[n] = z[n]
        /\ w.dirty \subseteq z.dirty \cup {"INTEGER"} /\ z.dirty \subseteq w.dirty
        /\ "INTEGER" \in w.dirty \/ w.ints = z.ints
    <3>1. CASE sh \in Integers_
      BY <1>2, <2>3, <2>6, <3>1 DEF Block, Flags
    <3>2. CASE sh \notin Integers_
      BY <2>3, <2>6, <3>2
    <3> QED BY <3>1, <3>2
  <2>8. ASSUME NEW g, Marked(x, g) PROVE Marked(w, g)
    BY <2>3, <2>4, <2>5, <2>7, <2>8 DEF Marked
  <2> QED BY <2>4, <2>7, <2>8 DEF w
<1> QED BY <1>1, <1>2

LEMMA ShadersUploaded ==
  ASSUME NEW x \in Block
  PROVE  /\ ShaderUploaded(x) \in Block
         /\ \A n \in {"control", "misc", "fetch", "ps", "vs", "vs_index", "fetch_dirty", "missed"} :
              ShaderUploaded(x)[n] = x[n]
         /\ \A g : Marked(x, g) => Marked(ShaderUploaded(x), g)
<1> DEFINE y == WithConstants(x, x.ps)
           z == WithConstants(y, x.vs)
<1>1. x.ps \in Shaders \cup {None} /\ x.vs \in Shaders \cup {None}
  BY DEF Block, Shaders
<1>2. /\ y \in Block
      /\ \A n \in {"control", "misc", "fetch", "ps", "vs", "vs_index", "fetch_dirty", "missed"} : y[n] = x[n]
      /\ \A g : Marked(x, g) => Marked(y, g)
  BY <1>1, ConstantsMarked
<1> HIDE DEF y
<1>3. /\ z \in Block
      /\ \A n \in {"control", "misc", "fetch", "ps", "vs", "vs_index", "fetch_dirty", "missed"} : z[n] = y[n]
      /\ \A g : Marked(y, g) => Marked(z, g)
  BY <1>1, <1>2, ConstantsMarked
<1>4. ShaderUploaded(x) = IF "SHADER" \in x.dirty THEN z ELSE x
  BY DEF ShaderUploaded, y
<1> HIDE DEF z
<1> QED BY <1>2, <1>3, <1>4

(* After the uploads the registers have the block's state. *)
LEMMA UploadedAll ==
  ASSUME NEW x \in Block, NEW g \in Registers, Marked(x, g), x.ps # None, x.vs # None
  PROVE  LET u == Uploaded(x, g)
         IN /\ u \in Registers
            /\ u.control = x.control /\ u.misc = x.misc /\ u.alu = x.alu /\ u.ints = x.ints
            /\ \A k \in FetchGroups \ Left(x) : u.fetch[k] = x.fetch[k]
            /\ u.ps = x.ps /\ u.vs = <<x.vs, x.vs_index>>
<1> DEFINE u == Uploaded(x, g)
<1>1. /\ x.control \in [Fields -> SetValues] /\ x.misc \in [Misc -> SetValues]
      /\ x.alu \in [Floats -> SetValues \cup Shaders] /\ x.fetch \in [FetchGroups -> FetchValues]
      /\ x.ints \in Shaders \cup {None} /\ x.ps \in PShaders /\ x.vs \in VShaders /\ x.vs_index \in Places
      /\ g.control \in [Fields -> RegValues] /\ g.alu \in [Floats -> RegValues \cup Shaders]
      /\ g.fetch \in [FetchGroups -> FetchValues] /\ g.ints \in Shaders \cup {None, "start"}
  BY DEF Block, Registers
<1>2. /\ u.control = x.control /\ u.misc = x.misc /\ u.ints = x.ints
      /\ u.ps = x.ps /\ u.vs = <<x.vs, x.vs_index>>
  BY DEF Uploaded, Marked
<1>3. u.alu = x.alu
  <2>1. u.alu = [r \in Floats |-> IF "ALU" \in x.dirty /\ r \div 16 \in x.alu_dirty THEN x.alu[r] ELSE g.alu[r]]
    BY DEF Uploaded
  <2>2. \A r \in Floats : u.alu[r] = x.alu[r]
    BY <2>1 DEF Marked
  <2> QED BY <1>1, <2>1, <2>2
<1>4. /\ u.fetch \in [FetchGroups -> FetchValues]
      /\ \A k \in FetchGroups \ Left(x) : u.fetch[k] = x.fetch[k]
  <2>1. u.fetch = [k \in FetchGroups |-> IF "FETCH" \in x.dirty /\ k \in x.fetch_dirty THEN x.fetch[k] ELSE g.fetch[k]]
    BY DEF Uploaded
  <2> QED BY <1>1, <2>1 DEF Marked, Left
<1>5. u = [control |-> u.control, misc |-> u.misc, alu |-> u.alu, fetch |-> u.fetch,
           ints |-> u.ints, ps |-> u.ps, vs |-> u.vs]
  BY DEF Uploaded
<1>6. /\ u.control \in [Fields -> RegValues] /\ u.misc \in [Misc -> RegValues]
      /\ u.alu \in [Floats -> RegValues \cup Shaders]
  BY <1>1, <1>2, <1>3 DEF RegValues
<1>7. u \in Registers
  <2>1. u.ints \in Shaders \cup {None, "start"} /\ u.ps \in PShaders \cup {None, "start", "resolve"}
        /\ u.vs \in {"start", "resolve"} \cup (VShaders \X Places)
    BY <1>1, <1>2
  <2> HIDE DEF u
  <2> QED BY <1>4, <1>5, <1>6, <2>1 DEF Registers
<1> QED BY <1>2, <1>3, <1>4, <1>7

(* A draw of stream b, from a state in which what is not marked is there. *)
LEMMA DrawStep ==
  ASSUME StateInv, ~clobbered, NEW x \in Block, Marked(x, regs), x.ps # None, x.vs # None,
         x.fetch[Stream] \in Buffers => bufs[x.fetch[Stream]].lock = {},
         StateSet(ShaderUploaded(x)), UNCHANGED <<clobbered, bufs>>
  PROVE  StateInv'
<1> DEFINE y == ShaderUploaded(x)
<1>1. /\ y \in Block /\ Marked(y, regs) /\ y.ps # None /\ y.vs # None
      /\ y.fetch = x.fetch
  BY ShadersUploaded
<1>2. /\ regs' = Uploaded(y, regs) /\ xe' = Clean(y)
      /\ drawn' = [set |-> y, had |-> regs', from |-> bufs]
  BY DEF StateSet
<1> HIDE DEF y
<1>3. /\ regs' \in Registers
      /\ regs'.control = y.control /\ regs'.misc = y.misc /\ regs'.alu = y.alu /\ regs'.ints = y.ints
      /\ \A k \in FetchGroups \ Left(y) : regs'.fetch[k] = y.fetch[k]
      /\ regs'.ps = y.ps /\ regs'.vs = <<y.vs, y.vs_index>>
  BY <1>1, <1>2, UploadedAll DEF StateInv
<1>4. /\ xe' \in Block
      /\ \A n \in {"control", "misc", "alu", "fetch", "ints", "ps", "vs", "vs_index"} : xe'[n] = y[n]
      /\ xe'.missed = Left(y)
  BY <1>1, <1>2 DEF Clean, Left, Block
<1>5. Marked(xe', regs')
  BY <1>3, <1>4 DEF Marked
<1>6. y.fetch[Stream] \in Buffers => ~bufs[y.fetch[Stream]].unsynced /\ ~bufs[y.fetch[Stream]].stale
  BY <1>1 DEF StateInv, Settled
<1>7. DrawnRight'
  <2>1. /\ drawn'.set = y /\ drawn'.had = regs' /\ drawn'.from = bufs
    BY <1>2
  <2> QED BY <1>1, <1>3, <1>6, <2>1 DEF DrawnRight
<1> QED BY <1>3, <1>4, <1>5, <1>7 DEF StateInv, Settled

LEMMA Drew ==
  ASSUME StateInv, DrawPrimitive \/ \E b \in Buffers : Draw(b)
  PROVE  StateInv'
<1>1. CASE DrawPrimitive
  <2>1. /\ ~clobbered /\ xe.ps # None /\ xe.vs # None
        /\ bufs[xe.fetch[Stream]].lock = {}
        /\ StateSet(ShaderUploaded(xe)) /\ UNCHANGED <<clobbered, bufs>>
    BY <1>1 DEF DrawPrimitive, MayDraw
  <2> QED BY <2>1, DrawStep DEF StateInv
<1>2. CASE \E b \in Buffers : Draw(b)
  <2>1. PICK b \in Buffers : Draw(b)
    BY <1>2
  <2> DEFINE x == WithStream(xe, b)
  <2>2. /\ ~clobbered /\ xe.ps # None /\ xe.vs # None /\ bufs[b].lock = {}
        /\ StateSet(ShaderUploaded(x)) /\ UNCHANGED <<clobbered, bufs>>
    BY <2>1 DEF Draw, MayDraw
  <2>3. /\ x \in Block /\ x.ps = xe.ps /\ x.vs = xe.vs /\ x.fetch[Stream] = b
        /\ Marked(x, regs)
    BY <2>2, StreamMarks DEF StateInv
  <2> HIDE DEF x
  <2> QED BY <2>2, <2>3, DrawStep
<1> QED BY <1>1, <1>2

LEMMA StateStep ==
  ASSUME StateInv, [Next]_vars PROVE StateInv'
<1>1. CASE State
  <2>1. StateNext
    BY <1>1 DEF State
  <2>2. CASE \E f \in Fields, v \in Values : SetControl(f, v)
    BY <2>2, ControlSet
  <2>3. CASE \/ \E m \in Misc \ {"target"}, v \in Values : SetMisc(m, v)
             \/ \E v \in Values : SetRenderTarget(v)
    <3>1. "target" \in Misc
      BY DEF Misc
    <3> QED BY <2>3, <3>1, MiscSet
  <2>4. CASE \E c \in FloatCalls, v \in Values : SetFloats(c[1], c[2], v)
    BY <2>4, FloatsSet
  <2>5. CASE \E i \in Textures, t \in Values : SetTexture(i, t)
    BY <2>5, TextureSet
  <2>6. CASE \E b \in Buffers : SetStreamSource(b)
    BY <2>6, StreamSet
  <2>7. CASE \/ \E sh \in PShaders : SetPixelShader(sh)
             \/ \E sh \in VShaders, i \in Instances : SetVertexShader(sh, i)
    BY <2>7, ShaderSet
  <2>8. CASE InvalidateState
    BY <2>8, Invalidated
  <2>9. CASE \/ \E i \in Instances : Instantiate(i)
             \/ \E i \in Instances, fmt \in Formats : ApplyPatches(i, fmt)
    BY <2>9, CodeChanged
  <2>10. CASE DrawPrimitive \/ \E b \in Buffers : Draw(b)
    BY <2>10, Drew
  <2>11. CASE Resolve
    BY <2>11, Resolved
  <2>12. CASE \/ \E b \in Buffers, flags \in SUBSET {"READ", "WRITE"} : Lock(b, flags)
              \/ \E b \in Buffers : WriteVB(b)
              \/ \E b \in Buffers : Unlock(b)
    BY <2>12, BuffersChanged
  <2> QED BY <2>1, <2>2, <2>3, <2>4, <2>5, <2>6, <2>7, <2>8, <2>9, <2>10, <2>11, <2>12 DEF StateNext
<1>2. CASE Video \/ StartGpu \/ Start \/ StartEdram \/ Calibrate \/ StartFrames \/ Frames \/ UNCHANGED vars
  <2>1. xe' = xe /\ regs' = regs /\ bufs' = bufs /\ clobbered' = clobbered /\ drawn' = drawn
    BY <1>2 DEF Video, StartGpu, Start, StartEdram, Calibrate, StartFrames, Frames, vars, xvars
  <2> QED BY <2>1 DEF StateInv, Settled, DrawnRight
<1> QED BY <1>1, <1>2 DEF Next

LEMMA StateAlways == Spec => []StateInv
<1>1. Init => StateInv
  BY StateStart DEF Init
<1> QED BY <1>1, StateStep, PTL DEF Spec

(* Whatever a program sets, in whatever order and with whatever shaders,   *)
(* a draw finds all of it in the registers of the GPU, although only what  *)
(* the dirty bits say is uploaded.  Of the textures that is so for those   *)
(* whose group has been marked since they were set: Xe_SetTexture does so  *)
(* itself up to index 2 (xe.c:1707), beyond only other calls do.           *)
THEOREM DrawsAsSet == Spec => []DrawnAsSet
<1>1. StateInv => DrawnAsSet
  BY DEF StateInv, DrawnRight, DrawnAsSet
<1> QED BY <1>1, StateAlways, PTL

(* A draw reads the vertices as the program wrote them, whatever buffers   *)
(* are locked, written and unlocked and become the stream in between.      *)
THEOREM VerticesFresh == Spec => []DrawsFresh
<1>1. StateInv => DrawsFresh
  <2> SUFFICES ASSUME StateInv, drawn # None PROVE DrawsFresh
    BY DEF DrawsFresh
  <2>1. Stream \in FetchGroups \ Left(drawn.set)
    <3>1. Stream \in FetchGroups /\ Stream \notin Textures
      BY XenosAssumption DEF XenosAssumption, FetchGroups, Stream
    <3>2. Left(drawn.set) \subseteq Textures
      BY DEF StateInv, DrawnRight, Block, Left
    <3> QED BY <3>1, <3>2
  <2>2. drawn.had.fetch[Stream] = drawn.set.fetch[Stream]
    BY <2>1 DEF StateInv, DrawnRight
  <2> QED BY <2>2 DEF StateInv, DrawnRight, DrawsFresh
<1> QED BY <1>1, StateAlways, PTL
-----------------------------------------------------------------------------
(* Vertex fetches.  Counting: a set of numbers that is not empty has a     *)
(* smallest, and one with 0 and the successor of each member has them all. *)
LEMMA SmallestIn ==
  ASSUME NEW T, T \subseteq Nat, T # {}
  PROVE  \E x \in T : \A y \in T : x <= y
<1> DEFINE R == {ss \in Nat \X Nat : ss[1] < ss[2]}
<1>1. IsWellFoundedOn(R, Nat)
  BY NatLessThanWellFounded, Zenon DEF OpToRel
<1>2. PICK x \in T : \A y \in T : ~(<<y, x>> \in R)
  <2> HIDE DEF R
  <2> QED BY <1>1, WFMin
<1>3. \A y \in T : ~(y < x)
  BY <1>2
<1> QED BY <1>3

LEMMA Counting ==
  ASSUME NEW S, 0 \in S, \A n \in Nat : n \in S => n + 1 \in S
  PROVE  \A n \in Nat : n \in S
<1> DEFINE T == Nat \ S
<1>1. SUFFICES ASSUME T # {} PROVE FALSE
  OBVIOUS
<1>2. PICK x \in T : \A y \in T : x <= y
  BY <1>1, SmallestIn
<1>3. x # 0 /\ x \in Nat /\ x - 1 \in Nat /\ x - 1 < x /\ (x - 1) + 1 = x
  OBVIOUS
<1>4. x - 1 \in S
  BY <1>2, <1>3
<1> QED BY <1>3, <1>4

(* The sizes that Xe_VBFCalcStride adds up. *)
Size1(fmt, g, i) == IF i = 0 THEN 0 ELSE g[i - 1] + Bytes[fmt[i].fmt]

LEMMA SizesExist ==
  ASSUME NEW fmt, NEW N \in Nat
  PROVE  \E g : g = [i \in 0 .. N |-> Size1(fmt, g, i)]
<1> DEFINE S == {m \in Nat : \E g : g = [i \in 0 .. m |-> Size1(fmt, g, i)]}
<1>1. 0 \in S
  <2>1. [i \in 0 .. 0 |-> 0] = [i \in 0 .. 0 |-> Size1(fmt, [j \in 0 .. 0 |-> 0], i)]
    BY DEF Size1
  <2> QED BY <2>1
<1>2. ASSUME NEW m \in Nat, m \in S PROVE m + 1 \in S
  <2>1. PICK g : g = [i \in 0 .. m |-> Size1(fmt, g, i)]
    BY <1>2
  <2> DEFINE h == [i \in 0 .. (m + 1) |-> IF i = m + 1 THEN Size1(fmt, g, i) ELSE g[i]]
  <2>2. \A i \in 0 .. m : h[i] = g[i]
    OBVIOUS
  <2>3. \A i \in 0 .. (m + 1) : i # 0 => i - 1 \in 0 .. m
    OBVIOUS
  <2>4. \A i \in 0 .. (m + 1) : Size1(fmt, h, i) = Size1(fmt, g, i)
    <3> HIDE DEF h
    <3> QED BY <2>2, <2>3 DEF Size1
  <2>5. \A i \in 0 .. m : g[i] = Size1(fmt, g, i)
    BY <2>1
  <2>6. h = [i \in 0 .. (m + 1) |-> Size1(fmt, h, i)]
    BY <2>4, <2>5
  <2> QED
    <3> HIDE DEF h
    <3> QED BY <2>6
<1>3. N \in S
  <2> HIDE DEF S
  <2> QED BY <1>1, <1>2, Counting
<1> QED BY <1>3

Elements == [usage : STRING, index : Nat, fmt : DOMAIN Bytes]
SizeInWords == [UBYTE4 |-> 1, FLOAT2 |-> 2, FLOAT3 |-> 3, FLOAT4 |-> 4]

(* Each element begins where the one before it ends, on a word.            *)
LEMMA StrideAdds ==
  ASSUME NEW fmt \in VBFFormat
  PROVE  /\ CalcStride(fmt, 0) = 0
         /\ \A i \in 1 .. Len(fmt) : CalcStride(fmt, i) = CalcStride(fmt, i - 1) + Bytes[fmt[i].fmt]
<1> DEFINE total_size[i \in 0 .. Len(fmt)] ==
             IF i = 0 THEN 0 ELSE total_size[i - 1] + Bytes[fmt[i].fmt]
<1>1. total_size = [i \in 0 .. Len(fmt) |-> Size1(fmt, total_size, i)]
  <2>1. Len(fmt) \in Nat
    BY DEF VBFFormat
  <2>2. \E g : g = [i \in 0 .. Len(fmt) |-> Size1(fmt, g, i)]
    BY <2>1, SizesExist, Zenon
  <2> QED BY <2>2, Zenon DEF Size1
<1>2. \A n : CalcStride(fmt, n) = total_size[n]
  BY DEF CalcStride
<1> HIDE DEF total_size
<1>3. \A i \in 0 .. Len(fmt) : total_size[i] = Size1(fmt, total_size, i)
  BY <1>1
<1>4. 0 \in 0 .. Len(fmt) /\ \A i \in 1 .. Len(fmt) : i \in 0 .. Len(fmt) /\ i # 0
  BY DEF VBFFormat
<1> QED BY <1>2, <1>3, <1>4 DEF Size1

LEMMA ElementSizes ==
  ASSUME NEW e \in DOMAIN Bytes
  PROVE  /\ SizeInWords[e] \in 1 .. 4
         /\ Bytes[e] = 4 * SizeInWords[e]
         /\ Components[e] \in 2 .. 4
         /\ e # "UBYTE4" => Components[e] = SizeInWords[e]
  BY DEF Bytes, SizeInWords, Components

(* The word an element begins at, ... *)
Begins(fmt, i) == CalcStride(fmt, i - 1) \div 4

(* ... and that the element before it ends there.                          *)
LEMMA StrideWords ==
  ASSUME NEW fmt \in VBFFormat
  PROVE  /\ Len(fmt) \in Nat /\ \A i \in 1 .. Len(fmt) : fmt[i].fmt \in DOMAIN Bytes
         /\ \A i \in 1 .. Len(fmt) + 1 : Begins(fmt, i) \in Nat /\ CalcStride(fmt, i - 1) = 4 * Begins(fmt, i)
         /\ \A i \in 1 .. Len(fmt) : Begins(fmt, i + 1) = Begins(fmt, i) + SizeInWords[fmt[i].fmt]
<1>1. Len(fmt) \in Nat /\ \A i \in 1 .. Len(fmt) : fmt[i].fmt \in DOMAIN Bytes
  <2>1. fmt \in Seq(Elements)
    BY Zenon DEF VBFFormat, Elements
  <2>2. Len(fmt) \in Nat /\ \A i \in 1 .. Len(fmt) : fmt[i] \in Elements
    BY <2>1
  <2>3. \A x \in Elements : x.fmt \in DOMAIN Bytes
    BY Zenon DEF Elements
  <2> QED BY <2>2, <2>3
<1> DEFINE C(i) == CalcStride(fmt, i)
           z(i) == SizeInWords[fmt[i].fmt]
           S == {n \in Nat : n <= Len(fmt) => \E w \in Nat : C(n) = 4 * w}
<1>2. C(0) = 0 /\ \A i \in 1 .. Len(fmt) : C(i) = C(i - 1) + 4 * z(i) /\ z(i) \in 1 .. 4
  <2>1. \A i \in 1 .. Len(fmt) : Bytes[fmt[i].fmt] = 4 * z(i) /\ z(i) \in 1 .. 4
    BY <1>1, ElementSizes, Zenon
  <2>2. C(0) = 0 /\ \A i \in 1 .. Len(fmt) : C(i) = C(i - 1) + Bytes[fmt[i].fmt]
    BY StrideAdds, Zenon
  <2> HIDE DEF C, z
  <2> QED BY <2>1, <2>2
<1> HIDE DEF C, z
<1>3. 0 \in S
  BY <1>2
<1>4. ASSUME NEW n \in Nat, n \in S PROVE n + 1 \in S
  <2> SUFFICES ASSUME n + 1 <= Len(fmt) PROVE \E w \in Nat : C(n + 1) = 4 * w
    OBVIOUS
  <2>1. PICK w \in Nat : C(n) = 4 * w
    BY <1>1, <1>4
  <2>2. n + 1 \in 1 .. Len(fmt) /\ (n + 1) - 1 = n
    BY <1>1
  <2>3. C(n + 1) = 4 * w + 4 * z(n + 1) /\ z(n + 1) \in 1 .. 4
    BY <1>2, <2>1, <2>2
  <2>4. w + z(n + 1) \in Nat /\ C(n + 1) = 4 * (w + z(n + 1))
    BY <2>3
  <2> QED BY <2>4
<1>5. \A n \in Nat : n \in S
  <2> HIDE DEF S
  <2> QED BY <1>3, <1>4, Counting
<1>6. \A n \in 0 .. Len(fmt) : C(n) \div 4 \in Nat /\ C(n) = 4 * (C(n) \div 4)
  <2> SUFFICES ASSUME NEW n \in 0 .. Len(fmt) PROVE C(n) \div 4 \in Nat /\ C(n) = 4 * (C(n) \div 4)
    OBVIOUS
  <2>1. PICK w \in Nat : C(n) = 4 * w
    BY <1>5
  <2> QED BY <2>1
<1>7. \A i \in 1 .. Len(fmt) + 1 : i - 1 \in 0 .. Len(fmt)
  BY <1>1
<1>8. \A i \in 1 .. Len(fmt) + 1 : Begins(fmt, i) \in Nat /\ CalcStride(fmt, i - 1) = 4 * Begins(fmt, i)
  BY <1>6, <1>7 DEF C, Begins
<1>9. ASSUME NEW i \in 1 .. Len(fmt) PROVE Begins(fmt, i + 1) = Begins(fmt, i) + z(i)
  <2>1. i + 1 \in 1 .. Len(fmt) + 1 /\ i \in 1 .. Len(fmt) + 1 /\ (i + 1) - 1 = i
    BY <1>1
  <2>2. C(i) = 4 * Begins(fmt, i + 1) /\ C(i - 1) = 4 * Begins(fmt, i)
    BY <1>8, <2>1 DEF C
  <2>3. C(i) = C(i - 1) + 4 * z(i) /\ z(i) \in 1 .. 4
    BY <1>2
  <2>4. Begins(fmt, i + 1) \in Nat /\ Begins(fmt, i) \in Nat
    BY <1>8, <2>1
  <2> QED BY <2>2, <2>3, <2>4
<1> QED BY <1>1, <1>8, <1>9 DEF z

(* Elements lie in the order of the format, so none shares a word.         *)
LEMMA ElementsApart ==
  ASSUME NEW fmt \in VBFFormat, NEW i \in 1 .. Len(fmt), NEW k \in 1 .. Len(fmt), i < k
  PROVE  Begins(fmt, i) + SizeInWords[fmt[i].fmt] <= Begins(fmt, k)
<1> DEFINE S == {n \in Nat : i + 1 + n <= Len(fmt) => Begins(fmt, i + 1) <= Begins(fmt, i + 1 + n)}
<1>0. Len(fmt) \in Nat
  BY StrideWords
<1>1. 0 \in S
  <2>1. i + 1 \in 1 .. Len(fmt) + 1 /\ i + 1 + 0 = i + 1
    BY <1>0
  <2>2. Begins(fmt, i + 1) \in Nat
    BY <2>1, StrideWords
  <2> QED BY <2>1, <2>2
<1>2. ASSUME NEW n \in Nat, n \in S PROVE n + 1 \in S
  <2> SUFFICES ASSUME i + 1 + (n + 1) <= Len(fmt) PROVE Begins(fmt, i + 1) <= Begins(fmt, i + 1 + (n + 1))
    OBVIOUS
  <2>1. /\ i + 1 + n \in 1 .. Len(fmt) /\ i + 1 + (n + 1) = (i + 1 + n) + 1 /\ i + 1 \in 1 .. Len(fmt) + 1
        /\ i + 1 + n \in 1 .. Len(fmt) + 1
    BY <1>0
  <2>2. Begins(fmt, i + 1) <= Begins(fmt, i + 1 + n)
    BY <1>2, <2>1
  <2>3. /\ Begins(fmt, (i + 1 + n) + 1) = Begins(fmt, i + 1 + n) + SizeInWords[fmt[i + 1 + n].fmt]
        /\ Begins(fmt, i + 1) \in Nat /\ Begins(fmt, i + 1 + n) \in Nat
        /\ fmt[i + 1 + n].fmt \in DOMAIN Bytes
    BY <2>1, StrideWords
  <2>4. SizeInWords[fmt[i + 1 + n].fmt] \in 1 .. 4
    BY <2>3, ElementSizes, Zenon
  <2> QED BY <2>1, <2>2, <2>3, <2>4
<1>3. k - (i + 1) \in S
  <2>1. k - (i + 1) \in Nat
    BY <1>0
  <2> HIDE DEF S
  <2> QED BY <1>1, <1>2, <2>1, Counting
<1>4. i + 1 + (k - (i + 1)) = k
  OBVIOUS
<1>5. Begins(fmt, i + 1) <= Begins(fmt, k)
  BY <1>3, <1>4
<1> QED BY <1>5, StrideWords

(* The word of component s of an element: bytes share one.                 *)
Place(fmt, i, s) == Begins(fmt, i) + (IF fmt[i].fmt = "UBYTE4" THEN 0 ELSE s)

LEMMA PlacesApart ==
  ASSUME NEW fmt \in VBFFormat, NEW i \in 1 .. Len(fmt), NEW k \in 1 .. Len(fmt), NEW s \in 0 .. 3,
         s < Components[fmt[i].fmt], s < Components[fmt[k].fmt], i < k
  PROVE  Place(fmt, i, s) < Place(fmt, k, s)
<1>1. /\ Len(fmt) \in Nat
      /\ fmt[i].fmt \in DOMAIN Bytes
      /\ i \in 1 .. Len(fmt) + 1 /\ k \in 1 .. Len(fmt) + 1
  BY StrideWords
<1>2. Begins(fmt, i) \in Nat /\ Begins(fmt, k) \in Nat
  BY <1>1, StrideWords
<1>3. Begins(fmt, i) + SizeInWords[fmt[i].fmt] <= Begins(fmt, k)
  BY ElementsApart
<1>4. /\ SizeInWords[fmt[i].fmt] \in 1 .. 4
      /\ fmt[i].fmt # "UBYTE4" => s < SizeInWords[fmt[i].fmt]
  BY <1>1, ElementSizes, Zenon
<1>5. Place(fmt, i, s) < Begins(fmt, k)
  BY <1>2, <1>3, <1>4 DEF Place
<1>6. Begins(fmt, k) <= Place(fmt, k, s)
  BY <1>2 DEF Place
<1>7. Place(fmt, i, s) \in Int /\ Place(fmt, k, s) \in Int
  BY <1>2 DEF Place
<1> QED BY <1>2, <1>5, <1>6, <1>7

(* What the GPU fetches with one instruction that is patched for element j. *)
LEMMA FetchOne ==
  ASSUME NEW fmt \in VBFFormat, NEW raw \in VFetch, NEW j \in 1 .. Len(fmt), NEW c \in 0 .. 3,
         NEW sw, sw = raw.swizzle[c]
  PROVE  Fetched(PatchAt(raw, fmt, j), fmt, c) =
           IF sw >= 4 THEN {sw}
           ELSE IF sw < Components[fmt[j].fmt] THEN {<<j, sw>>}
           ELSE IF sw = 3 THEN {5} ELSE {4}
<1> DEFINE vf == PatchAt(raw, fmt, j)
           e == fmt[j].fmt
<1>1. e \in DOMAIN Bytes /\ Len(fmt) \in Nat
  BY StrideWords
<1>2. Components[e] \in 2 .. 4
  BY <1>1, ElementSizes, Zenon
<1>3. sw \in 0 .. 7
  BY DEF VFetch
<1>4. /\ vf.offset = Begins(fmt, j)
      /\ vf.format = e
      /\ vf.swizzle = [d \in 0 .. 3 |-> Swizzled(raw.swizzle[d], Components[e])]
  BY DEF PatchAt, VFetch, Begins
<1>5. vf.swizzle[c] = Swizzled(sw, Components[e])
  BY <1>4
<1> DEFINE got == Swizzled(sw, Components[e])
<1>6. Fetched(vf, fmt, c) =
        IF got >= 4 THEN {got}
        ELSE {p \in Layout(fmt, Begins(fmt, j) + (IF e = "UBYTE4" THEN 0 ELSE got)) : p[2] = got}
  BY <1>4, <1>5, Zenon DEF Fetched
<1>7. CASE sw >= 4
  <2>1. got = sw
    BY <1>2, <1>3, <1>7 DEF Swizzled
  <2> HIDE DEF got
  <2> QED BY <1>6, <1>7, <2>1, Zenon
<1>8. CASE ~(sw >= 4) /\ ~(sw < Components[e])
  <2>1. got = (IF sw = 3 THEN 5 ELSE 4)
    BY <1>2, <1>3, <1>8 DEF Swizzled
  <2> QED BY <1>6, <1>8, <2>1
<1>9. CASE ~(sw >= 4) /\ sw < Components[e]
  <2>1. got = sw /\ sw \in 0 .. 3
    BY <1>2, <1>3, <1>9 DEF Swizzled
  <2> HIDE DEF got
  <2>2. Fetched(vf, fmt, c) = {p \in Layout(fmt, Place(fmt, j, sw)) : p[2] = sw}
    BY <1>6, <1>9, <2>1 DEF Place
  <2>3. \A p : p \in Layout(fmt, Place(fmt, j, sw)) <=>
                 /\ p \in (1 .. Len(fmt)) \X (0 .. 3)
                 /\ p[2] < Components[fmt[p[1]].fmt]
                 /\ Place(fmt, j, sw) = Place(fmt, p[1], p[2])
    BY Zenon DEF Layout, Place, Begins
  <2>4. <<j, sw>> \in Layout(fmt, Place(fmt, j, sw))
    <3>1. <<j, sw>> \in (1 .. Len(fmt)) \X (0 .. 3) /\ <<j, sw>>[1] = j /\ <<j, sw>>[2] = sw
      BY <2>1
    <3> QED BY <1>9, <2>3, <3>1
  <2>5. ASSUME NEW p, p \in Layout(fmt, Place(fmt, j, sw)), p[2] = sw PROVE p = <<j, sw>>
    <3>1. /\ p[1] \in 1 .. Len(fmt) /\ p = <<p[1], p[2]>>
          /\ sw < Components[fmt[p[1]].fmt]
          /\ Place(fmt, j, sw) = Place(fmt, p[1], sw)
      BY <2>3, <2>5
    <3> DEFINE i == p[1]
    <3> HIDE DEF i
    <3>2. ~(Place(fmt, j, sw) < Place(fmt, j, sw))
      <4>1. Begins(fmt, j) \in Nat
        <5>1. j \in 1 .. Len(fmt) + 1
          BY <1>1
        <5> QED BY <5>1, StrideWords
      <4>2. Place(fmt, j, sw) \in Int
        BY <2>1, <4>1 DEF Place
      <4> QED BY <4>2
    <3>3. ~(i < j)
      BY <1>9, <2>1, <3>1, <3>2, PlacesApart, Zenon DEF i
    <3>4. ~(j < i)
      BY <1>9, <2>1, <3>1, <3>2, PlacesApart, Zenon DEF i
    <3>5. i = j
      BY <1>1, <3>1, <3>3, <3>4 DEF i
    <3> QED BY <2>5, <3>1, <3>5 DEF i
  <2>6. Fetched(vf, fmt, c) = {<<j, sw>>}
    <3>1. <<j, sw>>[2] = sw
      OBVIOUS
    <3> QED BY <2>2, <2>4, <2>5, <3>1
  <2> QED BY <1>9, <2>6
<1> QED BY <1>7, <1>8, <1>9

(* The code takes the first of the elements it looks for.                  *)
LEMMA FirstWanted ==
  ASSUME NEW fmt \in VBFFormat, NEW raw, Wanted(raw, fmt) # {}
  PROVE  Min(Wanted(raw, fmt)) \in 1 .. Len(fmt)
<1>1. Wanted(raw, fmt) \subseteq 1 .. Len(fmt) /\ Wanted(raw, fmt) \subseteq Nat
  BY DEF Wanted
<1>2. \E x \in Wanted(raw, fmt) : \A y \in Wanted(raw, fmt) : x <= y
  BY <1>1, SmallestIn, Zenon
<1>3. Min(Wanted(raw, fmt)) \in Wanted(raw, fmt)
  BY <1>2, Zenon DEF Min
<1> QED BY <1>1, <1>3

LEMMA PatchRight ==
  ASSUME NEW fmt \in VBFFormat, NEW raw \in Seq(VFetch), Fits(raw, fmt)
  PROVE  FetchesRight(Patched(raw, fmt), raw, fmt)
<1> SUFFICES ASSUME NEW i \in DOMAIN raw
             PROVE  /\ Patched(raw, fmt)[i].stride * 4 = CalcStride(fmt, Len(fmt))
                    /\ \A c \in 0 .. 3 : Fetched(Patched(raw, fmt)[i], fmt, c) = Promised(raw[i], fmt, c)
  BY Zenon DEF FetchesRight, Patched
<1> DEFINE j == Min(Wanted(raw[i], fmt))
<1>1. Patched(raw, fmt)[i] = PatchAt(raw[i], fmt, j)
  BY Zenon DEF Patched
<1>2. raw[i] \in VFetch
  <2> HIDE DEF j
  <2>1. \A V, t : t \in Seq(V) => \A n \in DOMAIN t : t[n] \in V
    OBVIOUS
  <2> QED BY <2>1, Zenon
<1>3. j \in 1 .. Len(fmt)
  BY FirstWanted, Zenon DEF Fits
<1>4. Patched(raw, fmt)[i].stride * 4 = CalcStride(fmt, Len(fmt))
  <2>1. PatchAt(raw[i], fmt, j).stride = CalcStride(fmt, Len(fmt)) \div 4
    <3> HIDE DEF j
    <3> QED BY <1>2 DEF PatchAt, VFetch
  <2>2. Len(fmt) \in Nat /\ Len(fmt) + 1 \in 1 .. Len(fmt) + 1 /\ (Len(fmt) + 1) - 1 = Len(fmt)
    BY StrideWords
  <2>3. Begins(fmt, Len(fmt) + 1) \in Nat /\ CalcStride(fmt, Len(fmt)) = 4 * Begins(fmt, Len(fmt) + 1)
    BY <2>2, StrideWords
  <2>4. Begins(fmt, Len(fmt) + 1) = CalcStride(fmt, Len(fmt)) \div 4
    BY <2>2 DEF Begins
  <2> HIDE DEF j
  <2> QED BY <1>1, <2>1, <2>3, <2>4
<1>5. \A c \in 0 .. 3 : Fetched(Patched(raw, fmt)[i], fmt, c) = Promised(raw[i], fmt, c)
  <2> SUFFICES ASSUME NEW c \in 0 .. 3
               PROVE  Fetched(Patched(raw, fmt)[i], fmt, c) = Promised(raw[i], fmt, c)
    OBVIOUS
  <2> DEFINE sw == raw[i].swizzle[c]
  <2> HIDE DEF j
  <2>1. Fetched(PatchAt(raw[i], fmt, j), fmt, c) =
          IF sw >= 4 THEN {sw}
          ELSE IF sw < Components[fmt[j].fmt] THEN {<<j, sw>>}
          ELSE IF sw = 3 THEN {5} ELSE {4}
    BY <1>2, <1>3, FetchOne, Zenon
  <2> QED BY <1>1, <2>1, Zenon DEF Promised, j
<1> QED BY <1>4, <1>5

(* An instance is compiled code, or that code patched for its format.      *)
CodeInv ==
  /\ code \in [Instances -> {None, Raw} \cup {Patched(Raw, fmt) : fmt \in Formats}]
  /\ patched \in [Instances -> {None} \cup Formats]
  /\ \A i \in Instances :
       IF patched[i] = None THEN code[i] \in {None, Raw}
       ELSE code[i] = Patched(Raw, patched[i]) /\ Fits(Raw, patched[i])

LEMMA CodeStep == CodeInv /\ [StateNext]_xvars => CodeInv'
<1> SUFFICES ASSUME CodeInv, [StateNext]_xvars PROVE CodeInv'
  OBVIOUS
<1>1. CASE UNCHANGED <<code, patched>>
  BY <1>1 DEF CodeInv
<1>2. ASSUME NEW i \in Instances, Instantiate(i) PROVE CodeInv'
  BY <1>2 DEF CodeInv, Instantiate
<1>3. ASSUME NEW i \in Instances, NEW fmt \in Formats, ApplyPatches(i, fmt) PROVE CodeInv'
  <2>1. code[i] = Raw /\ Fits(Raw, fmt)
    BY <1>3 DEF ApplyPatches, CodeInv
  <2>2. /\ code' = [code EXCEPT ![i] = Patched(Raw, fmt)]
        /\ patched' = [patched EXCEPT ![i] = fmt]
    BY <1>3, <2>1 DEF ApplyPatches
  <2>3. fmt # None
    BY XenosAssumption, Zenon DEF XenosAssumption
  <2> QED BY <2>1, <2>2, <2>3 DEF CodeInv
<1> QED BY <1>1, <1>2, <1>3, Zenon
    DEF StateNext, xvars, SetControl, SetMisc, SetRenderTarget, SetFloats, SetTexture, SetStreamSource,
        SetPixelShader, SetVertexShader, InvalidateState, DrawPrimitive, Draw, Resolve, Lock, WriteVB,
        Unlock, OnlyState

(* An instance of a vertex shader fetches, after it was patched for a       *)
(* format, what the shader was compiled to fetch, for all formats and all   *)
(* shaders.                                                                 *)
THEOREM PatchesRight == Spec => []PatchedRight
<1>1. Init => CodeInv
  BY DEF Init, StateInit, CodeInv
<1>2. CodeInv /\ [Next]_vars => CodeInv'
  <2>1. [Next]_vars => [StateNext]_xvars
    BY Zenon DEF Next, vars, xvars, Video, StartGpu, Start, StartEdram, Calibrate, StartFrames, Frames, State
  <2> QED BY <2>1, CodeStep, Zenon
<1>3. CodeInv => PatchedRight
  <2> SUFFICES ASSUME CodeInv, NEW i \in Instances, patched[i] # None
               PROVE  FetchesRight(code[i], Raw, patched[i])
    BY Zenon DEF PatchedRight
  <2>1. patched[i] \in Formats /\ code[i] = Patched(Raw, patched[i]) /\ Fits(Raw, patched[i])
    BY DEF CodeInv
  <2>2. patched[i] \in VBFFormat /\ Raw \in Seq(VFetch)
    BY <2>1, XenosAssumption, Zenon DEF XenosAssumption
  <2> QED BY <2>1, <2>2, PatchRight, Zenon
<1> QED BY <1>1, <1>2, <1>3, PTL DEF Spec
=============================================================================
