------------------------------ MODULE UsbMass ------------------------------
(***************************************************************************)
(* USB sticks: the bulk-only transport of drivers/usb/usbmass.c, with what *)
(* drivers/usb/usbd.c does for it.  A command has three phases: the block  *)
(* that names it, its data, its status.  A read queues the three requests  *)
(* at once and then waits for one after the other; a stick that stalls is  *)
(* freed again and asked for the sense.                                    *)
(*                                                                         *)
(* The controller (module UsbOhci has its lists) is reduced to what passes *)
(* between the two bulk lists and the stick: it serves the lists while its *)
(* flag is set, and looks at every frame whether to keep it set.  A stick  *)
(* may be pulled out at any moment; nothing scans the ports in the middle  *)
(* of a read, as usb_wait_request only polls the controller.               *)
(***************************************************************************)
EXTENDS Integers, Sequences, FiniteSets, SequencesExt

CONSTANTS
  Ports,            \* ports for sticks
  MaxPiece,         \* MAX_SECTOR_PER_REQUEST
  MaxPlugs,         \* bound: sticks plugged in
  MaxStalls,        \* bound: commands a stick fails
  MaxErrors         \* bound: transfers that fail on the wire

ASSUME MassAssumption ==
  /\ MaxPiece \in Nat \ {0}
  /\ MaxPlugs \in Nat /\ MaxStalls \in Nat /\ MaxErrors \in Nat

VARIABLES
  plug,             \* plug[p]: the stick in port p, 0 without one; sticks are numbered
  plugs, stalls, errors,
  dev,              \* dev[p]: the stick's side of the transport
  list, halted,     \* list[p]: the requests on the bulk lists; halted[p]: their H bits
  blf,              \* the controller serves the bulk lists
  status,           \* status[u]: condition code of request u of the call, "" in progress
  rd,               \* usbmass_read in progress, and what it returned
  bad               \* history, bad[p]: a transfer of the stick failed otherwise than by
                    \* a stall of the data

mvars == <<plug, plugs, stalls, errors, dev, list, halted, blf, status, rd, bad>>

Ends == {"out", "in"}
Ready == [st |-> "cbw", cmd |-> <<>>, fails |-> FALSE, halt |-> FALSE]
Unused == [e \in Ends |-> <<>>]
Running == [e \in Ends |-> FALSE]
Requests == 1 .. 6  \* 1, 2, 3: of usbmass_read_sector; 4, 5, 6: of usbmass_request_sense
NoStatus == [u \in Requests |-> ""]
NotReading == [pc |-> "idle"]
STALL == "stall"

MassInit ==
  /\ plug = [p \in Ports |-> 0] /\ plugs = 0 /\ stalls = 0 /\ errors = 0
  /\ dev = [p \in Ports |-> Ready]
  /\ list = [p \in Ports |-> Unused] /\ halted = [p \in Ports |-> Running]
  /\ blf = FALSE /\ status = NoStatus
  /\ rd = NotReading
  /\ bad = [p \in Ports |-> FALSE]
-----------------------------------------------------------------------------
(* The user. *)

PlugIn(p) ==
  /\ plug[p] = 0 /\ plugs < MaxPlugs
  /\ plugs' = plugs + 1
  /\ plug' = [plug EXCEPT ![p] = plugs']
  /\ dev' = [dev EXCEPT ![p] = Ready]
  /\ UNCHANGED <<stalls, errors, list, halted, blf, status, rd, bad>>

PullOut(p) ==
  /\ plug[p] # 0
  /\ plug' = [plug EXCEPT ![p] = 0]
  /\ dev' = [dev EXCEPT ![p] = Ready]
  /\ UNCHANGED <<plugs, stalls, errors, list, halted, blf, status, rd, bad>>
-----------------------------------------------------------------------------
(* The wire.  A request on a list: u its number, 0 after the call that made *)
(* it has returned; what its phase; cmd the command, in its first phase.    *)

\* The stick the driver talks to is there, and is the one it has set up.
Answering(p) == plug[p] # 0 /\ (rd.pc = "idle" \/ p # rd.port \/ plug[p] = rd.stick)

\* What the stick answers to the request at the head of a list, as the
\* condition code and the stick's state after it.  A stick that is waiting for
\* its status to be taken, or for a command, does not answer the other phase.
Accepts(p, e, q) ==
  LET d == dev[p]
  IN IF d.halt /\ e = "in" THEN {<<STALL, d>>} ELSE
     CASE e = "out" /\ d.st = "cbw" ->
            {<<"ok", [d EXCEPT !.st = "data", !.cmd = q.cmd]>>}
       [] e = "in" /\ d.st = "data" /\ q.what = "data" ->
            {<<"ok", [d EXCEPT !.st = "csw"]>>}
              \cup (IF d.cmd[1] = "read" /\ stalls < MaxStalls
                    THEN {<<STALL, [d EXCEPT !.st = "csw", !.fails = TRUE, !.halt = TRUE]>>,
                          <<"short", [d EXCEPT !.st = "csw", !.fails = TRUE]>>}
                    ELSE {})
       [] e = "in" /\ d.st = "data" /\ q.what = "csw" -> {<<"overrun", d>>}
       [] e = "in" /\ d.st = "csw" /\ q.what = "data" -> {<<"short", Ready>>}
       [] e = "in" /\ d.st = "csw" /\ q.what = "csw" ->
            {<<IF d.fails THEN "fail" ELSE "ok", Ready>>}
              \cup (IF d.cmd[1] = "read" /\ ~d.fails /\ stalls < MaxStalls
                    THEN {<<STALL, [d EXCEPT !.fails = TRUE, !.halt = TRUE]>>} ELSE {})
       [] OTHER -> {}

\* A transfer that ends is handed over, and the next poll completes the request;
\* an error stops the list it is on.
Ended(p, e, cc) ==
  LET q == Head(list[p][e])
  IN /\ list' = [list EXCEPT ![p][e] = Tail(@)]
     /\ halted' = [halted EXCEPT ![p][e] = cc \notin {"ok", "short", "fail"}]
     /\ status' = IF q.u = 0 THEN status ELSE [status EXCEPT ![q.u] = cc]
     /\ rd' = IF q.u = 2 /\ cc = "ok" THEN [rd EXCEPT !.data = dev[p].cmd] ELSE rd

HcServes(p, e) == blf /\ list[p][e] # <<>> /\ ~halted[p][e]

HcTransfer(p, e) ==
  /\ HcServes(p, e) /\ Answering(p)
  /\ \E a \in Accepts(p, e, Head(list[p][e])) :
       /\ Ended(p, e, a[1])
       /\ dev' = [dev EXCEPT ![p] = a[2]]
       /\ stalls' = IF a[2].fails /\ ~dev[p].fails THEN stalls + 1 ELSE stalls
       /\ bad' = [bad EXCEPT ![p] = @ \/ a[1] = "overrun"
                                      \/ (a[1] = STALL /\ Head(list[p][e]).what = "csw")]
  /\ UNCHANGED <<plug, plugs, errors, blf>>

\* Three tries without an answer, or a fault of the line.
HcError(p, e) ==
  /\ HcServes(p, e)
  /\ IF Answering(p) THEN errors < MaxErrors /\ errors' = errors + 1
                     ELSE errors' = errors
  /\ Ended(p, e, "error")
  /\ bad' = [bad EXCEPT ![p] = TRUE]
  /\ UNCHANGED <<plug, plugs, stalls, dev, blf>>

Serviceable == \E p \in Ports, e \in Ends : list[p][e] # <<>> /\ ~halted[p][e]

\* At the end of a frame the flag stays set if the lists have something to serve.
HcFrame ==
  /\ blf /\ ~Serviceable
  /\ blf' = FALSE
  /\ UNCHANGED <<plug, plugs, stalls, errors, dev, list, halted, status, rd, bad>>
-----------------------------------------------------------------------------
(* The driver.  ohci_xfer starts a stopped list again when it adds to it.  *)

Queue(p, qs) ==
  /\ list' = [list EXCEPT ![p] = [e \in Ends |-> @[e] \o qs[e]]]
  /\ halted' = [halted EXCEPT ![p] = [e \in Ends |-> @[e] /\ qs[e] = <<>>]]
  /\ blf' = TRUE

Request(u, what, cmd) == [u |-> u, what |-> what, cmd |-> cmd]

DriverOnly == UNCHANGED <<plug, plugs, stalls, errors, dev, bad>>

\* usbmass_read of num sectors from lba.
StartStick(p, stick, lba, num) ==
  rd' = [pc |-> "piece", port |-> p, stick |-> stick, lba |-> lba, num |-> num,
         from |-> lba, asked |-> num, data |-> <<>>, got |-> <<>>]

PieceSize == IF rd.num > MaxPiece THEN MaxPiece ELSE rd.num

\* usbmass_read_sector, to its first wait.
ReadSector ==
  /\ rd.pc = "piece" /\ rd.num > 0
  /\ LET cmd == <<"read", rd.lba, PieceSize>>
     IN Queue(rd.port, [out |-> <<Request(1, "cbw", cmd)>>,
                        in |-> <<Request(2, "data", <<>>), Request(3, "csw", <<>>)>>])
  /\ status' = NoStatus
  /\ rd' = [rd EXCEPT !.pc = "wait1", !.data = <<>>]
  /\ DriverOnly

\* The requests of a call that returns are freed or forgotten.
Forget ==
  list' = [list EXCEPT ![rd.port] =
       [e \in Ends |-> [i \in DOMAIN @[e] |-> [@[e][i] EXCEPT !.u = 0]]]]

\* One piece was read: the next one, or the number of sectors is returned.
PieceRead ==
  rd' = [rd EXCEPT !.pc = "piece", !.lba = @ + PieceSize, !.num = @ - PieceSize,
                   !.got = Append(@, rd.data)]

PieceFailed == rd' = [rd EXCEPT !.pc = "ret"]

Await(at, u) == rd.pc = at /\ status[u] # ""

\* A stall is the only status that counts; it makes usbmass_stall_recovery run.
Wait(at, u, next) ==
  /\ Await(at, u) /\ (u = 3 => status[u] = STALL)
  /\ rd' = [rd EXCEPT !.pc = IF status[u] = STALL THEN "clear" ELSE next]
  /\ UNCHANGED <<list, halted, blf, status>> /\ DriverOnly

\* The third wait also returns the status of the command, 0 when it was not read.
WaitStatus ==
  /\ Await("wait3", 3) /\ status[3] # STALL
  /\ IF status[3] = "fail" THEN PieceFailed ELSE PieceRead
  /\ Forget
  /\ UNCHANGED <<plug, plugs, stalls, errors, dev, halted, blf, status, bad>>

Waits ==
  \/ Wait("wait1", 1, "wait2") \/ Wait("wait2", 2, "wait3")
  \/ Wait("wait3", 3, "clear")

\* usb_clear_stall, first the host's side of the in pipe; ohci_ept_cleartoggle
\* tells the controller of the control list only.
ClearHalt_No == halted' = halted

ClearHalt == halted' = [halted EXCEPT ![rd.port]["in"] = FALSE]

ClearToggle ==
  /\ rd.pc = "clear"
  /\ ClearHalt
  /\ rd' = [rd EXCEPT !.pc = "feature"]
  /\ UNCHANGED <<list, blf, status>> /\ DriverOnly

\* Then the stick's, by a control request whose result nobody looks at.
ClearFeature ==
  /\ rd.pc = "feature"
  /\ dev' = IF plug[rd.port] = rd.stick THEN [dev EXCEPT ![rd.port].halt = FALSE] ELSE dev
  /\ rd' = [rd EXCEPT !.pc = "sense4"]
  /\ UNCHANGED <<plug, plugs, stalls, errors, list, halted, blf, status, bad>>

\* usbmass_request_sense: one phase after the other, each waited for.
SensePhase(at, u, what, next) ==
  /\ rd.pc = at
  /\ Queue(rd.port, IF what = "cbw" THEN [out |-> <<Request(u, what, <<"sense">>)>>, in |-> <<>>]
                     ELSE [out |-> <<>>, in |-> <<Request(u, what, <<>>)>>])
  /\ rd' = [rd EXCEPT !.pc = next]
  /\ UNCHANGED status /\ DriverOnly

RequestSense_Skip ==
  /\ rd.pc = "sense4"
  /\ PieceFailed /\ Forget
  /\ UNCHANGED <<plug, plugs, stalls, errors, dev, halted, blf, status, bad>>

RequestSense ==
  \/ SensePhase("sense4", 4, "cbw", "wait4")
  \/ SensePhase("sense5", 5, "data", "wait5")
  \/ SensePhase("sense6", 6, "csw", "wait6")

\* Whatever became of them: the piece has failed.
SenseWait(at, u, next) ==
  /\ Await(at, u) /\ (u = 3 => status[u] = STALL)
  /\ rd' = [rd EXCEPT !.pc = next]
  /\ UNCHANGED <<list, halted, blf, status>> /\ DriverOnly

SenseDone ==
  /\ Await("wait6", 6)
  /\ PieceFailed /\ Forget
  /\ UNCHANGED <<plug, plugs, stalls, errors, dev, halted, blf, status, bad>>

SenseWaits == SenseWait("wait4", 4, "sense5") \/ SenseWait("wait5", 5, "sense6") \/ SenseDone

\* usb_find_cfg_descr: a configuration is the sequence of its descriptors.
NoDescriptor == [type |-> ""]

usb_find_cfg_descr(config, type, idx) ==
  LET of == SelectSeq(config, LAMBDA d : d.type = type)
  IN IF idx < Len(of) THEN of[idx + 1] ELSE NoDescriptor

\* What usbmass_attach wants of it: SCSI commands over the bulk-only transport,
\* and among the first two endpoints one in each direction.  Where there is no
\* second one it looks at address 0 for the direction, and takes it for none.
Understood(config) ==
  LET interface == usb_find_cfg_descr(config, "interface", 0)
      endpoints == {usb_find_cfg_descr(config, "endpoint", i) : i \in {0, 1}} \ {NoDescriptor}
  IN /\ interface # NoDescriptor
     /\ interface.subclass = "SCSI" /\ interface.protocol = "bulk-only"
     /\ {x.dir : x \in endpoints} = Ends

\* The pipes of a stick that is detached are destroyed, with what is on them.
PipesGone(p) ==
  /\ list' = [list EXCEPT ![p] = Unused]
  /\ halted' = [halted EXCEPT ![p] = Running]
  /\ bad' = [bad EXCEPT ![p] = FALSE]

ReadReturns ==
  /\ rd.pc = "piece" /\ rd.num = 0
  /\ rd' = [rd EXCEPT !.pc = "ret"]
  /\ UNCHANGED <<list, halted, blf, status>> /\ DriverOnly

MassDriver ==
  ReadSector \/ Waits \/ WaitStatus \/ ClearToggle \/ ClearFeature \/ RequestSense
    \/ SenseWaits \/ ReadReturns

HcStep == HcFrame \/ \E p \in Ports, e \in Ends : HcTransfer(p, e) \/ HcError(p, e)

MassStep == MassDriver \/ HcStep
-----------------------------------------------------------------------------
\* The sectors a call has read are the ones it was asked for, in order, and the
\* stick can take the next command: nothing is queued, and it neither is halted
\* nor keeps a status.  An error of the wire is taken for success, and the status
\* is not read again when it is stalled (as the bulk-only transport demands): both
\* void this.
StickSound ==
  rd.pc = "ret" /\ ~bad[rd.port] =>
    /\ list[rd.port] = Unused
    /\ plug[rd.port] = rd.stick => dev[rd.port] = Ready
    /\ \A i \in DOMAIN rd.got :
         rd.got[i][1] = "read" /\ rd.got[i][2] = rd.from + (i - 1) * MaxPiece
    /\ rd.lba = rd.from + rd.asked - rd.num

\* A read that was begun ends, also when the stick stalls its data; not always when
\* a transfer fails in another way, or for want of a stick.
ReadEnds == rd.pc = "piece" ~> (rd.pc \in {"ret", "idle"} \/ \E p \in Ports : bad[p])
=============================================================================
