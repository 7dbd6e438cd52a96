------------------------------ MODULE UsbOhci ------------------------------
(***************************************************************************)
(* The OHCI transfer engine: libxenon/drivers/usb/ohci.c together with the *)
(* request and pipe routines of libxenon/drivers/usb/usbd.c and the way    *)
(* usbhub.c takes a device off the bus.                                    *)
(*                                                                         *)
(* Two actors share the endpoint descriptors (EDs) and the transfer        *)
(* descriptors (TDs): the driver, one thread that polls, and the host      *)
(* controller (HC), which retires TDs, links them on an internal done      *)
(* queue and hands that queue over through the HCCA at frame boundaries.   *)
(*                                                                         *)
(* An ED's TD list is the sequence queue[e]: the head pointer is its first *)
(* element, the tail pointer (the dummy TD every ED owns) its last one.    *)
(* A free ED has the empty sequence.  Each element of Dev stands for one   *)
(* attachment of a device, that is, for one block of usbdev_t memory.      *)
(*                                                                         *)
(* The head pointer is the word both actors write: the HC as it retires a  *)
(* TD, the driver as it clears the H bit, by a load and a store.  A TD the *)
(* HC retires between the two is linked again; the model takes that step   *)
(* and stops there ("lost_head").                                          *)
(***************************************************************************)
EXTENDS Integers, Sequences, FiniteSets

CONSTANTS
  Dev,          \* attachments of devices (usbdev_t blocks)
  Removable,    \* those the user may unplug
  Ept,          \* the pool of endpoint descriptors
  Td,           \* the pool of transfer descriptors
  Pipe,         \* indices into ud_pipes[]; 0 is the control pipe
  Req,          \* usbreq_t blocks
  IntrReq,      \* requests with the input drivers' callback
  IntrPipe,     \* the interrupt pipes those requests go to
  MaxTds,       \* most TDs one request is cut into
  Buses,        \* bounds: the pipes devices have, the requests their drivers
                \* make, and the TDs these leave in the pool
  NoDev, NoEpt, NoReq

ASSUME ConstAssumption ==
  /\ IsFiniteSet(Td)
  /\ Pipe \subseteq Nat /\ 0 \in Pipe
  /\ IntrPipe \subseteq Pipe \ {0}
  /\ IntrReq \subseteq Req
  /\ Removable \subseteq Dev
  /\ MaxTds \in Nat \ {0}
  /\ Buses \subseteq [pipes : SUBSET Pipe, req : SUBSET Req, spare : Nat]
  /\ NoDev \notin Dev /\ NoEpt \notin Ept /\ NoReq \notin Req

VARIABLES
  dev,       \* life of each attachment
  pipes,     \* ud_pipes[]: the ED behind each pipe, NoEpt for a NULL entry
  freeEpt,   \* ohci_endpoint_freelist, as a set
  freeTd,    \* ohci_transfer_freelist, as a set
  queue,     \* the TDs linked on each ED, head first, dummy tail last
  halted,    \* the H bit of each ED's head pointer
  clr,       \* the ED whose H bit the driver is clearing, NoEpt for none
  seen,      \* the list as it hangs from the head pointer it has loaded
  ref,       \* t_ref of each TD (NoReq for NULL and for a TD on the free list)
  cc,        \* condition code the HC stored in each TD
  doneq,     \* the HC's internal done queue, newest first
  dqic,      \* its DoneQueueInterruptCounter, 7 when nothing is due
  hcca,      \* hcca_donehead: the queue handed over, newest first
  wdh,       \* the WritebackDoneHead bit of R_OHCI_INTSTATUS
  req,       \* the requests
  behind,    \* history: a TD failed with TDs of the request behind it
  bus,       \* what there is of devices and drivers
  pc,        \* where the driver is
  work,      \* rest of the list ohci_intr_procdoneq is walking
  rmdev,     \* the device being removed, NoDev for none
  idx,       \* the loop variable of usb_destroy_all_pipes
  frames     \* frame boundaries ohci_ept_delete has seen

hcVars   == <<doneq, dqic, hcca, wdh>>
poolVars == <<pipes, freeEpt>>
drvVars  == <<pc, work, rmdev, idx, frames>>
clrVars  == <<clr, seen>>
vars == <<dev, poolVars, freeTd, queue, halted, clrVars, ref, cc, hcVars, req,
          behind, bus, drvVars>>

(* Completion codes.  Nothing in the engine tells one error of the HC from *)
(* another; K_OHCI_CC_CANCELLED is the driver's own.                       *)
Cond   == {"noerr", "error"}
Status == Cond \cup {"cancelled"}

(* The set of TDs linked on a list. *)
Cells(s) == {s[i] : i \in DOMAIN s}

IdleReq == [st |-> "free", dev |-> NoDev, pipe |-> 0, tdcount |-> 0,
            status |-> "noerr"]

EptOf(r) == pipes[req[r].dev][req[r].pipe]

(* The ED ohci_ept_delete is at while a device is being removed.           *)
Doomed == pipes[rmdev][idx]

-----------------------------------------------------------------------------
(* ohci_create, _ohci_initpools: every descriptor is on its free list.     *)
Init ==
  /\ dev = [d \in Dev |-> "absent"]
  /\ pipes = [d \in Dev |-> [p \in Pipe |-> NoEpt]]
  /\ freeEpt = Ept
  /\ freeTd = Td
  /\ queue = [e \in Ept |-> <<>>]
  /\ halted = [e \in Ept |-> FALSE]
  /\ clr = NoEpt /\ seen = <<>>
  /\ ref = [t \in Td |-> NoReq]
  /\ cc = [t \in Td |-> "noerr"]
  /\ doneq = <<>> /\ hcca = <<>>
  /\ dqic = 7
  /\ wdh = FALSE
  /\ req = [r \in Req |-> IdleReq]
  /\ behind = [r \in Req |-> FALSE]
  /\ bus \in Buses
  /\ pc = "idle"
  /\ work = <<>>
  /\ rmdev = NoDev
  /\ idx = 0
  /\ frames = 0

-----------------------------------------------------------------------------
(* Opening pipes.                                                          *)

(* What _ohci_allocxfer may hand out for n calls.  It returns NULL when    *)
(* the pool is empty and no caller looks: the model never lets the driver  *)
(* empty the pool (Reserve), so that what a callback takes for its next    *)
(* transfer is always there.                                               *)
Reserve(ts) == Cardinality(freeTd \ Cells(ts)) > bus.spare
Injective(ts) == \A i, j \in DOMAIN ts : ts[i] = ts[j] => i = j
Allotments(n) == {ts \in [1..n -> freeTd] : Injective(ts) /\ Reserve(ts)}
Available(n) == Allotments(n) # {}

(* The order of the free list is nothing a property can see: the choice is *)
(* a fixed one.                                                            *)
Allot(n) == CHOOSE ts \in Allotments(n) : TRUE

(* The driver's thread is in its main loop, not in ohci_xfer or            *)
(* ohci_ept_cleartoggle ...                                                *)
Idle == pc = "idle" /\ clr = NoEpt

(* ... and waits for nothing.                                              *)
Settled ==
  /\ Idle
  /\ \A r \in Req \ IntrReq : req[r].st = "free"

(* usb_create_pipe and ohci_ept_create: take an ED and its dummy tail TD.  *)
(* Neither allocation is checked by the code.  The model opens a pipe only *)
(* when an ED is free and a TD is left over afterwards.                    *)
CreatePipe(d, p) ==
  /\ pipes[d][p] = NoEpt
  /\ freeEpt # {} /\ Available(1)
  /\ LET e == CHOOSE x \in freeEpt : TRUE
         ts == Allot(1)
     IN  /\ pipes' = [pipes EXCEPT ![d][p] = e]
         /\ freeEpt' = freeEpt \ {e}
         /\ freeTd' = freeTd \ Cells(ts)
         /\ queue' = [queue EXCEPT ![e] = ts]
         /\ halted' = [halted EXCEPT ![e] = FALSE]
  /\ UNCHANGED <<clrVars, ref, cc, hcVars, req, behind, bus, drvVars>>

(* usb_create_device: a new device starts with its control pipe.           *)
Attach(d) ==
  /\ Settled
  /\ dev[d] = "absent"
  /\ dev' = [dev EXCEPT ![d] = "present"]
  /\ CreatePipe(d, 0)

(* usb_open_pipe, called by a class driver's attach method.                *)
OpenPipe(d, p) ==
  /\ Settled
  /\ dev[d] = "present"
  /\ p # 0 /\ p \in bus.pipes
  /\ CreatePipe(d, p)
  /\ UNCHANGED dev

-----------------------------------------------------------------------------
(* Queueing a request.                                                     *)

(* The loop of ohci_xfer: the TDs ts are appended to the ED's list, the    *)
(* old dummy carries the first piece and the last new TD is the new dummy; *)
(* then the tail pointer is stored, before which the HC sees none of it.   *)
(* What is left to do is to clear the H bit.                               *)

(* Mutation: the new dummy gets the reference too. *)
Xfer_MarksDummy(r, e, ts) ==
  LET new == queue[e] \o ts
  IN  /\ queue' = [queue EXCEPT ![e] = new]
      /\ ref' = [t \in Td |-> IF t \in Cells(new) THEN r ELSE ref[t]]
      /\ clr' = e

Xfer(r, e, ts) ==
  LET new == queue[e] \o ts
      pieces == {new[i] : i \in Len(queue[e])..(Len(new) - 1)}
  IN  /\ queue' = [queue EXCEPT ![e] = new]
      /\ ref' = [t \in Td |-> IF t \in pieces THEN r ELSE ref[t]]
      /\ clr' = e

(* ed_headp &= ~HALT, at the end of ohci_xfer and in ohci_ept_cleartoggle: *)
(* the head pointer is loaded ...                                          *)
LoadHead ==
  /\ clr # NoEpt /\ seen = <<>>
  /\ seen' = queue[clr]
  /\ UNCHANGED <<dev, poolVars, freeTd, queue, halted, clr, ref, cc, hcVars,
                 req, behind, bus, drvVars>>

(* Mutation: the H bit stays. *)
ClearHalt_Stays == UNCHANGED halted

ClearHalt == halted' = [halted EXCEPT ![clr] = FALSE]

(* ... and stored without its H bit.  If the HC has moved on meanwhile the *)
(* store takes it back to TDs that are on the done queue already, through  *)
(* whose link fields it would go on: nothing is modelled after that.       *)
StoreHead ==
  /\ clr # NoEpt /\ seen # <<>>
  /\ queue' = [queue EXCEPT ![clr] = seen]
  /\ ClearHalt
  /\ clr' = NoEpt /\ seen' = <<>>
  /\ pc' = IF queue[clr] = seen THEN pc ELSE "lost_head"
  /\ UNCHANGED <<dev, poolVars, freeTd, ref, cc, hcVars, req, behind, bus,
                 work, rmdev, idx, frames>>

(* usb_make_request, usb_queue_request and ohci_xfer for a request of n    *)
(* pieces on pipe p of device d.  Input drivers keep one request of one TD *)
(* on their interrupt pipe; everything else waits in usb_wait_request.     *)
Submit(d, p, r, n) ==
  /\ Idle
  /\ dev[d] = "present"
  /\ pipes[d][p] # NoEpt
  /\ r \in bus.req /\ req[r].st = "free"
  /\ r \in IntrReq <=> p \in IntrPipe
  /\ r \in IntrReq => n = 1 /\ \A x \in IntrReq : req[x].st = "busy" =>
                                   <<req[x].dev, req[x].pipe>> # <<d, p>>
  /\ Available(n)
  /\ Xfer(r, pipes[d][p], Allot(n))
  /\ freeTd' = freeTd \ Cells(Allot(n))
  /\ req' = [req EXCEPT ![r] = [st |-> "busy", dev |-> d, pipe |-> p,
                                tdcount |-> n, status |-> "noerr"]]
  /\ UNCHANGED <<dev, poolVars, halted, seen, cc, hcVars, behind, bus,
                 drvVars>>

(* The end of usb_sync_request: the caller has the status and frees the    *)
(* request; after an error it may clear the halt of its pipe, while that   *)
(* is open (usb_clear_stall and ohci_ept_cleartoggle): the HC goes on with *)
(* the ED.                                                                 *)
SyncReturn(r) ==
  /\ Idle
  /\ req[r].st = "done"
  /\ req' = [req EXCEPT ![r] = IdleReq]
  /\ \/ UNCHANGED clr
     \/ req[r].status # "noerr" /\ clr' \in (Ept \ freeEpt) \cap {EptOf(r)}
  /\ UNCHANGED <<dev, poolVars, freeTd, queue, halted, seen, ref, cc, hcVars,
                 behind, bus, drvVars>>

-----------------------------------------------------------------------------
(* The host controller.                                                    *)

(* An ED the HC may work on: not halted, and not the one ohci_ept_delete   *)
(* has told it to skip, except for what is in flight in that very frame.   *)
(* Which list it is at, and whether it was prodded to look there, is left  *)
(* open.                                                                   *)
Serviced(e) ==
  /\ ~halted[e]
  /\ pc # "lost_head"
  /\ pc = "skip" /\ frames > 0 => e # Doomed

(* Request r has TDs on ED e behind the first.                             *)
Waiting(e, r) == \E t \in Cells(Tail(queue[e])) : ref[t] = r

(* The TD at the head of ED e finishes with condition code c: it moves to  *)
(* the front of the done queue; an error halts the ED.  All TDs ask for an *)
(* interrupt delay of one frame.                                           *)
HcRetire(e, c) ==
  /\ Len(queue[e]) > 1
  /\ Serviced(e)
  /\ LET t == Head(queue[e])
     IN  /\ cc' = [cc EXCEPT ![t] = c]
         /\ doneq' = <<t>> \o doneq
  /\ behind' = [r \in Req |-> behind[r] \/ (c # "noerr" /\ Waiting(e, r))]
  /\ queue' = [queue EXCEPT ![e] = Tail(@)]
  /\ halted' = [halted EXCEPT ![e] = c # "noerr"]
  /\ dqic' = IF dqic = 7 THEN 1 ELSE dqic
  /\ UNCHANGED <<dev, poolVars, freeTd, clrVars, ref, hcca, wdh, req, bus,
                 drvVars>>

(* A frame boundary: the counter runs down, and once it is zero the done   *)
(* queue is handed over, unless the driver has not taken the previous one. *)
(* Frames in which nothing changes are left out.                           *)
HcFrame ==
  LET handOver == dqic = 0 /\ ~wdh
  IN  /\ pc # "lost_head"
      /\ \/ handOver
         \/ dqic = 1
         \/ pc = "skip" /\ frames < 2
      /\ doneq' = IF handOver THEN <<>> ELSE doneq
      /\ hcca' = IF handOver THEN doneq ELSE hcca
      /\ wdh' = (wdh \/ handOver)
      /\ dqic' = CASE handOver -> 7 [] dqic = 1 -> 0 [] OTHER -> dqic
      /\ frames' = IF pc = "skip" /\ frames < 2 THEN frames + 1 ELSE frames
      /\ UNCHANGED <<dev, poolVars, freeTd, queue, halted, clrVars, ref, cc,
                     req, behind, bus, pc, work, rmdev, idx>>

-----------------------------------------------------------------------------
(* The driver's completion path.                                           *)

(* ohci_intr when WDH is set: take the list and acknowledge.               *)
TakeDoneHead ==
  /\ work' = hcca
  /\ hcca' = <<>>
  /\ wdh' = FALSE
  /\ pc' = "proc"

(* usb_poll from the main loop or from usb_wait_request.                   *)
Poll ==
  /\ Idle
  /\ wdh
  /\ TakeDoneHead
  /\ UNCHANGED <<dev, poolVars, freeTd, queue, halted, clrVars, ref, cc, doneq,
                 dqic, req, behind, bus, rmdev, idx, frames>>

(* One TD of the list: ohci_intr_procdoneq up to _ohci_freexfer.           *)
AtWork(t) ==
  /\ pc = "proc" /\ clr = NoEpt
  /\ work # <<>> /\ t = Head(work)
  /\ UNCHANGED <<dev, poolVars, halted, seen, hcVars, bus, rmdev, idx, frames>>

(* Where the driver goes on once the list is done: the caller of usb_poll. *)
NextWork ==
  /\ work' = Tail(work)
  /\ pc' = IF Len(work) > 1 THEN "proc"
           ELSE IF rmdev = NoDev THEN "idle" ELSE "detach"

(* Mutation: the TD is not put back. *)
FreeXfer_Leak(t) ==
  /\ freeTd' = freeTd
  /\ ref' = [ref EXCEPT ![t] = NoReq]
  /\ cc' = [cc EXCEPT ![t] = "noerr"]

(* _ohci_freexfer; that _ohci_allocxfer clears t_ref and td_control the    *)
(* next time is done here, where the values die.                           *)
FreeXfer(t) ==
  /\ freeTd' = freeTd \cup {t}
  /\ ref' = [ref EXCEPT ![t] = NoReq]
  /\ cc' = [cc EXCEPT ![t] = "noerr"]

(* Mutation: the first TD that is back completes the request. *)
LastTd_NotCounted(r) == req[r].tdcount > 0

(* Was this the request's last TD?                                         *)
LastTd(r) == req[r].tdcount = 1

(* Other TDs of the request are still out.                                 *)
ProcPiece(t) ==
  LET r == ref[t]
  IN  /\ AtWork(t)
      /\ req[r].tdcount > 1
      /\ req' = [req EXCEPT ![r].tdcount = @ - 1, ![r].status = cc[t]]
      /\ NextWork
      /\ FreeXfer(t)
      /\ UNCHANGED <<queue, clr, behind>>

(* usb_complete_request for a request without callback: ur_inprogress is   *)
(* cleared and the waiter finds the status of the TD processed last.       *)
Done(r, status) ==
  req' = [req EXCEPT ![r].st = "done", ![r].tdcount = 0, ![r].status = status]

(* Mutation: the HC's status is kept. *)
Reported_AsIs(r, c) == c

(* The status the completion reports: "cancelled" for a device on its way  *)
(* out, whatever the HC said.                                              *)
Reported(r, c) == IF dev[req[r].dev] = "removing" THEN "cancelled" ELSE c

ProcSync(t) ==
  LET r == ref[t]
  IN  /\ AtWork(t)
      /\ r \notin IntrReq /\ LastTd(r)
      /\ Done(r, Reported(r, cc[t]))
      /\ behind' = [behind EXCEPT ![r] = FALSE]
      /\ NextWork
      /\ FreeXfer(t)
      /\ UNCHANGED <<queue, clr>>

(* The interrupt callbacks (usbhid_ireq_callback, usbctrl_ireq_callback):  *)
(* a cancelled request is freed.                                           *)
ProcIntrCancelled(t) ==
  LET r == ref[t]
  IN  /\ AtWork(t)
      /\ r \in IntrReq /\ LastTd(r)
      /\ dev[req[r].dev] # "freed"
      /\ Reported(r, cc[t]) = "cancelled"
      /\ req' = [req EXCEPT ![r] = IdleReq]
      /\ NextWork
      /\ FreeXfer(t)
      /\ UNCHANGED <<queue, clr, behind>>

(* Any other is queued again on the pipe it came from, before the TD that  *)
(* carried it is freed (which is done here although the H bit is still to  *)
(* be cleared: no other actor sees the free list).  If that pipe were      *)
(* closed the callback would use freed memory, after which nothing is      *)
(* modelled.                                                               *)
Requeue(r, e, t) ==
  LET n == CHOOSE x \in freeTd : TRUE
  IN  /\ freeTd # {}
      /\ queue' = [queue EXCEPT ![e] = Append(@, n)]
      /\ clr' = e
      /\ freeTd' = (freeTd \ {n}) \cup {t}
      /\ ref' = [ref EXCEPT ![queue[e][Len(queue[e])]] = r, ![t] = NoReq]
      /\ cc' = [cc EXCEPT ![t] = "noerr"]
      /\ req' = [req EXCEPT ![r].status = "noerr"]
      /\ NextWork

ProcIntrAgain(t) ==
  LET r == ref[t]
  IN  /\ AtWork(t)
      /\ r \in IntrReq /\ LastTd(r)
      /\ dev[req[r].dev] # "freed"
      /\ Reported(r, cc[t]) # "cancelled"
      /\ UNCHANGED behind
      /\ IF EptOf(r) # NoEpt THEN Requeue(r, EptOf(r), t)
         ELSE /\ pc' = "stale_pipe"
              /\ UNCHANGED <<work, freeTd, queue, clr, ref, cc, req>>

(* The test of UD_FLAG_REMOVING reads freed memory once the device is gone.*)
ProcNoDevice(t) ==
  LET r == ref[t]
  IN  /\ AtWork(t)
      /\ LastTd(r)
      /\ dev[req[r].dev] = "freed"
      /\ pc' = "stale_dev"
      /\ UNCHANGED <<work, freeTd, queue, clr, ref, cc, req, behind>>

-----------------------------------------------------------------------------
(* Taking a device off the bus (the disconnect branch of usbhub_scan_ports)*)

(* usbhub_markdetached, then usb_destroy_all_pipes begins.  The scan runs  *)
(* from usb_daemon, when the driver waits for no request.                  *)
Unplug(d) ==
  /\ Settled
  /\ d \in Removable /\ dev[d] = "present"
  /\ dev' = [dev EXCEPT ![d] = "removing"]
  /\ rmdev' = d
  /\ pc' = "destroy"
  /\ UNCHANGED <<poolVars, freeTd, queue, halted, clrVars, ref, cc, hcVars,
                 req, behind, bus, work, idx, frames>>

OpenPipes == {p \in Pipe : pipes[rmdev][p] # NoEpt}

(* Mutation: the pipe before is deleted. *)
ToNextPipe_OffByOne ==
  \E p \in OpenPipes : (\A q \in OpenPipes : p <= q) /\ idx' = p - 1

(* The loop of usb_destroy_all_pipes skips the entries that are NULL.      *)
ToNextPipe ==
  \E p \in OpenPipes : (\A q \in OpenPipes : p <= q) /\ idx' = p

(* ohci_ept_delete on the next open pipe: set SKIP, then wait for the      *)
(* frame number to change twice.                                           *)
DestroyPipe ==
  /\ pc = "destroy"
  /\ ToNextPipe
  /\ pc' = "skip"
  /\ frames' = 0
  /\ UNCHANGED <<dev, poolVars, freeTd, queue, halted, clrVars, ref, cc,
                 hcVars, req, behind, bus, work, rmdev>>

(* After the wait it takes the TDs off the ED one by one.  A request none  *)
(* of whose TDs is anywhere else completes as cancelled, and a callback    *)
(* then frees it ...                                                       *)
Drained(r) ==
  IF req[r].tdcount > 1
  THEN [req[r] EXCEPT !.tdcount = @ - 1, !.status = "cancelled"]
  ELSE IF r \in IntrReq THEN IdleReq
  ELSE [req[r] EXCEPT !.st = "done", !.tdcount = 0, !.status = "cancelled"]

DrainTd ==
  LET t == Head(queue[Doomed])
      r == ref[t]
  IN  /\ pc = "skip" /\ frames = 2
      /\ Len(queue[Doomed]) > 1
      /\ queue' = [queue EXCEPT ![Doomed] = Tail(@)]
      /\ req' = [req EXCEPT ![r] = Drained(r)]
      /\ FreeXfer(t)
      /\ UNCHANGED <<dev, poolVars, halted, clrVars, hcVars, behind, bus,
                     drvVars>>

(* Mutation: the ED is not put back. *)
ReleaseEpt_Leak(e) == freeEpt' = freeEpt

(* _ohci_freeept.                                                          *)
ReleaseEpt(e) == freeEpt' = freeEpt \cup {e}

(* ... and frees the dummy, the ED and the pipe.                           *)
FreeEpt ==
  LET e == Doomed
  IN  /\ pc = "skip" /\ frames = 2
      /\ Len(queue[e]) = 1
      /\ FreeXfer(Head(queue[e]))
      /\ queue' = [queue EXCEPT ![e] = <<>>]
      /\ ReleaseEpt(e)
      /\ pipes' = [pipes EXCEPT ![rmdev][idx] = NoEpt]
      /\ pc' = "destroy"
      /\ idx' = 0 /\ frames' = 0
      /\ UNCHANGED <<dev, halted, clrVars, hcVars, req, behind, bus, work,
                     rmdev>>

(* No pipe is left: usbhub_scan_ports polls once ...                       *)
LastPoll ==
  /\ pc = "destroy"
  /\ OpenPipes = {}
  /\ IF wdh THEN TakeDoneHead
     ELSE pc' = "detach" /\ UNCHANGED <<work, hcca, wdh>>
  /\ UNCHANGED <<dev, poolVars, freeTd, queue, halted, clrVars, ref, cc, doneq,
                 dqic, req, behind, bus, rmdev, idx, frames>>

(* ... and usb_destroy_device frees the device.                            *)
Detach ==
  /\ pc = "detach" /\ clr = NoEpt
  /\ dev' = [dev EXCEPT ![rmdev] = "freed"]
  /\ rmdev' = NoDev
  /\ pc' = "idle"
  /\ UNCHANGED <<poolVars, freeTd, queue, halted, clrVars, ref, cc, hcVars,
                 req, behind, bus, work, idx, frames>>

(* Where the code has used freed memory, or put a retired TD back on its   *)
(* ED, the model stops.                                                    *)
Stopped == pc \in {"stale_pipe", "stale_dev", "lost_head"}
Undefined ==
  /\ Stopped
  /\ UNCHANGED vars

-----------------------------------------------------------------------------
ProcTd(t) ==
  \/ ProcPiece(t) \/ ProcSync(t)
  \/ ProcIntrCancelled(t) \/ ProcIntrAgain(t)
  \/ ProcNoDevice(t)

Next ==
  \/ \E d \in Dev : Attach(d) \/ Unplug(d)
  \/ \E d \in Dev, p \in Pipe : OpenPipe(d, p)
  \/ \E d \in Dev, p \in Pipe, r \in Req, n \in 1..MaxTds : Submit(d, p, r, n)
  \/ \E r \in Req : SyncReturn(r)
  \/ LoadHead \/ StoreHead
  \/ \E e \in Ept, c \in Cond : HcRetire(e, c)
  \/ HcFrame
  \/ Poll
  \/ \E t \in Td : ProcTd(t)
  \/ DestroyPipe \/ DrainTd \/ FreeEpt \/ LastPoll \/ Detach
  \/ Undefined

Spec == Init /\ [][Next]_vars

(* Fairness: the caller of usb_wait_request polls without pause and a      *)
(* removal runs to its end (one thread, no blocking call), frames go by,   *)
(* and the HC gets every transfer that somebody waits for over with, if    *)
(* only by an error after three attempts.  Not so an interrupt transfer: a *)
(* device with nothing to say answers NAK for ever.                        *)
Driver == LoadHead \/ StoreHead \/ Poll \/ (\E t \in Td : ProcTd(t))
          \/ DestroyPipe \/ DrainTd \/ FreeEpt \/ LastPoll \/ Detach
Awaited(e) ==
  \E c \in Cond : HcRetire(e, c) /\ ref[Head(queue[e])] \notin IntrReq

FairSpec == /\ Spec
            /\ WF_vars(Driver) /\ WF_vars(HcFrame)
            /\ \A e \in Ept : WF_vars(Awaited(e))

-----------------------------------------------------------------------------
(* Properties.                                                             *)

(* Types of all variables.                                                 *)
TypeOK ==
  /\ dev \in [Dev -> {"absent", "present", "removing", "freed"}]
  /\ pipes \in [Dev -> [Pipe -> Ept \cup {NoEpt}]]
  /\ freeEpt \subseteq Ept
  /\ freeTd \subseteq Td
  /\ queue \in [Ept -> Seq(Td)]
  /\ halted \in [Ept -> BOOLEAN]
  /\ clr \in Ept \cup {NoEpt} /\ seen \in Seq(Td)
  /\ ref \in [Td -> Req \cup {NoReq}]
  /\ cc \in [Td -> Cond]
  /\ doneq \in Seq(Td) /\ hcca \in Seq(Td) /\ work \in Seq(Td)
  /\ dqic \in {0, 1, 7}
  /\ wdh \in BOOLEAN
  /\ req \in [Req -> [st : {"free", "busy", "done"}, dev : Dev \cup {NoDev},
                      pipe : Pipe, tdcount : Nat, status : Status]]
  /\ behind \in [Req -> BOOLEAN] /\ bus \in Buses
  /\ pc \in {"idle", "proc", "destroy", "skip", "detach", "stale_pipe",
             "stale_dev", "lost_head"}
  /\ rmdev \in Dev \cup {NoDev}
  /\ idx \in Pipe
  /\ frames \in 0..2

(* The TDs on some ED, and those between the HC and the end of their       *)
(* processing, newest first.                                               *)
Linked == UNION {Cells(queue[e]) : e \in Ept}
Retired == doneq \o hcca \o work

(* Every TD has exactly one owner: the free list, one ED, or one place on  *)
(* the way through the done queue.  A TD in two places would be reused     *)
(* while the HC still writes it; one in none is lost to a pool that is     *)
(* never refilled.  It holds until StoreHead puts a retired TD back, which *)
(* RetiredOnce is about.                                                   *)
TdOwned ==
  pc # "lost_head" =>
    /\ Td = freeTd \cup Linked \cup Cells(Retired)
    /\ freeTd \cap Linked = {}
    /\ Cells(Retired) \cap (freeTd \cup Linked) = {}
    /\ Injective(Retired)
    /\ \A e \in Ept : Injective(queue[e])
    /\ \A e, f \in Ept : e # f => Cells(queue[e]) \cap Cells(queue[f]) = {}

(* A TD the HC has retired is on the done queue only (ohci.c:947-949, "As  *)
(* descriptors are retired, the hardware links them to the "done" queue"); *)
(* what the driver does at the end of ohci_xfer is to "Clear halted state" *)
(* (ohci.c:1703) and nothing else.                                         *)
RetiredOnce == Cells(Retired) \cap Linked = {}

(* ur_tdcount is the number of TDs that refer to the request, and only a   *)
(* request in progress has any: none completes while the HC may still      *)
(* write into its buffer, none is left with a count that never runs out.   *)
(* (A TD put back by StoreHead is retired, and counted, twice.)            *)
TdCountExact ==
  \A r \in Req :
    /\ req[r].tdcount = Cardinality({t \in Td : ref[t] = r})
    /\ req[r].st = "busy" <=> req[r].tdcount > 0

(* Each ED is free, with nothing linked on it, or behind exactly one pipe, *)
(* with at least the dummy TD that ohci_xfer writes the next transfer to.  *)
EptOwned ==
  \A e \in Ept :
    LET users == {u \in Dev \X Pipe : pipes[u[1]][u[2]] = e}
    IN  IF e \in freeEpt THEN users = {} /\ queue[e] = <<>>
        ELSE (\E u \in users : users = {u}) /\ queue[e] # <<>>

(* A callback never queues its request on a pipe that is closed: the       *)
(* conversion of the status to "cancelled" in ohci_intr_procdoneq prevents *)
(* it for the TDs that were already retired when the removal began.        *)
NoStalePipe == pc # "stale_pipe"

(* A removed device has no request left: usb/README, "When a device is     *)
(* removed, pending transfer requests will be canceled".                   *)
RemovalCancels ==
  \A r \in Req : req[r].st = "busy" => dev[req[r].dev] # "freed"

(* A wait in usb_wait_request ends, unless a TD ahead of it on its ED has  *)
(* failed: that ED is halted until somebody queues more on it.  (Nor where *)
(* the model has stopped.)                                                 *)
WaitEnds ==
  \A r \in Req \ IntrReq :
    req[r].st = "busy" ~> req[r].st = "done" \/ behind[r] \/ Stopped

(* The engine implements what usbd.c promises of a request.                *)
Request == INSTANCE UsbRequest WITH
  st <- [r \in Req |-> req[r].st],
  status <- [r \in Req |-> IF req[r].st = "done" THEN req[r].status ELSE "noerr"],
  held <- {ref[t] : t \in Td} \ {NoReq},
  leaving <- {r \in Req : req[r].st = "busy" /\ dev[req[r].dev] = "removing"}
ImplementsRequest == Request!Spec
=============================================================================
