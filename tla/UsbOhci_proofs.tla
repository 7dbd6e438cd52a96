--------------------------- MODULE UsbOhci_proofs ---------------------------
(***************************************************************************)
(* Proofs about the transfer engine, for every number of devices, pipes,   *)
(* descriptors and requests: callbacks and pipes, the owners of            *)
(* descriptors and the counts of requests, and the refinement.             *)
(***************************************************************************)
EXTENDS UsbOhci, FiniteSetTheorems, TLAPS

(* The progress of a removal: one device at a time, and where the driver   *)
(* stands says whether there is one.                                       *)
OneRemoval ==
  /\ \A d \in Dev : dev[d] = "removing" <=> d = rmdev
  /\ pc = "idle" => rmdev = NoDev
  /\ pc \in {"destroy", "skip", "detach"} => rmdev \in Dev
  /\ pc = "skip" => Doomed # NoEpt

(* A request with TDs under way belongs to a device that has been attached *)
(* and, while that device is present, to an open pipe of it.               *)
PipeBehind(r) ==
  req[r].tdcount > 0 =>
    /\ req[r].dev \in Dev
    /\ dev[req[r].dev] # "absent"
    /\ dev[req[r].dev] = "present" => EptOf(r) # NoEpt

IInv ==
  /\ TypeOK
  /\ OneRemoval
  /\ \A r \in Req : PipeBehind(r)
  /\ NoStalePipe

(* What _ohci_allocxfer hands out: a list of n distinct free TDs.          *)
LEMMA AllotFacts ==
  ASSUME NEW n \in Nat, freeTd \subseteq Td, Available(n)
  PROVE  /\ Allot(n) \in [1..n -> freeTd]
         /\ Allot(n) \in Seq(Td)
         /\ Len(Allot(n)) = n
<1>1. Allot(n) \in Allotments(n)
  BY DEF Available, Allot
<1>2. Allot(n) \in [1..n -> freeTd]
  BY <1>1 DEF Allotments
<1> QED
  BY <1>2

(* The empty list.                                                         *)
LEMMA NoCells == Cells(<<>>) = {} /\ Injective(<<>>) /\ <<>> \in Seq(Td) /\ Len(<<>>) = 0
  BY DEF Cells, Injective

LEMMA InitInv == Init => IInv
<1> SUFFICES ASSUME Init PROVE IInv
  OBVIOUS
<1>1. TypeOK
  <2>1. dev \in [Dev -> {"absent", "present", "removing", "freed"}]
        /\ pipes \in [Dev -> [Pipe -> Ept \cup {NoEpt}]]
        /\ freeEpt \subseteq Ept /\ freeTd \subseteq Td
        /\ queue \in [Ept -> Seq(Td)]
    BY DEF Init
  <2>2. /\ halted \in [Ept -> BOOLEAN] /\ ref \in [Td -> Req \cup {NoReq}]
        /\ cc \in [Td -> Cond]
        /\ doneq \in Seq(Td) /\ hcca \in Seq(Td) /\ work \in Seq(Td)
    BY DEF Init, Cond
  <2>3. req \in [Req -> [st : {"free", "busy", "done"}, dev : Dev \cup {NoDev},
                         pipe : Pipe, tdcount : Nat, status : Status]]
    BY ConstAssumption DEF Init, IdleReq, Status, Cond
  <2>4. /\ behind \in [Req -> BOOLEAN] /\ bus \in Buses /\ wdh \in BOOLEAN
        /\ clr \in Ept \cup {NoEpt}
    BY DEF Init
  <2>6. seen \in Seq(Td)
    BY DEF Init
  <2>5. /\ dqic \in {0, 1, 7} /\ frames \in 0..2 /\ idx \in Pipe
        /\ rmdev \in Dev \cup {NoDev}
        /\ pc \in {"idle", "proc", "destroy", "skip", "detach", "stale_pipe",
                  "stale_dev", "lost_head"}
    BY ConstAssumption DEF Init
  <2> QED
    BY <2>1, <2>2, <2>3, <2>4, <2>5, <2>6 DEF TypeOK
<1>2. OneRemoval
  BY ConstAssumption DEF Init, OneRemoval
<1>3. ASSUME NEW r \in Req PROVE PipeBehind(r)
  BY DEF Init, IdleReq, PipeBehind
<1> QED
  BY <1>1, <1>2, <1>3 DEF IInv, NoStalePipe, Init

(* Opening a pipe, for a device that is or becomes present.                *)
LEMMA CreatePipeInv ==
  ASSUME IInv, NEW d \in Dev, NEW p \in Pipe, CreatePipe(d, p), pc = "idle",
         \/ dev[d] = "absent" /\ dev' = [dev EXCEPT ![d] = "present"]
         \/ dev[d] = "present" /\ dev' = dev
  PROVE  IInv'
<1> DEFINE e == CHOOSE x \in freeEpt : TRUE
<1>1. Available(1) /\ Allot(1) \in [1..1 -> freeTd] /\ Allot(1) \in Seq(Td)
  BY AllotFacts DEF CreatePipe, IInv, TypeOK
<1>2. e \in freeEpt /\ e \in Ept
  BY DEF CreatePipe, IInv, TypeOK
<1> HIDE DEF e
<1>3. /\ pipes' = [pipes EXCEPT ![d][p] = e]
      /\ freeEpt' = freeEpt \ {e}
      /\ freeTd' = freeTd \ Cells(Allot(1))
      /\ queue' = [queue EXCEPT ![e] = Allot(1)]
      /\ halted' = [halted EXCEPT ![e] = FALSE]
      /\ UNCHANGED <<clr, seen, ref, cc, doneq, dqic, hcca, wdh, req, behind, bus,
                     pc, work, rmdev, idx, frames>>
  BY DEF CreatePipe, e, clrVars, hcVars, drvVars
<1>4. TypeOK'
  <2>1. dev' \in [Dev -> {"absent", "present", "removing", "freed"}]
    BY DEF IInv, TypeOK
  <2>2. pipes' \in [Dev -> [Pipe -> Ept \cup {NoEpt}]]
    BY <1>2, <1>3 DEF IInv, TypeOK
  <2>3. queue' \in [Ept -> Seq(Td)] /\ halted' \in [Ept -> BOOLEAN]
    BY <1>1, <1>2, <1>3 DEF IInv, TypeOK
  <2> QED
    BY <1>3, <2>1, <2>2, <2>3 DEF IInv, TypeOK
<1>5. OneRemoval'
  BY <1>3, ConstAssumption DEF IInv, TypeOK, OneRemoval
<1>6. ASSUME NEW r \in Req PROVE PipeBehind(r)'
  <2>1. req[r].tdcount > 0 => req[r].dev \in Dev /\ dev[req[r].dev] # "absent"
                              /\ (dev[req[r].dev] = "present" => EptOf(r) # NoEpt)
    BY DEF IInv, PipeBehind
  <2>2. req[r].pipe \in Pipe
    BY DEF IInv, TypeOK
  <2>3. ASSUME req[r].dev \in Dev, EptOf(r) # NoEpt
        PROVE  pipes'[req[r].dev][req[r].pipe] # NoEpt
    BY <1>2, <1>3, <2>2, <2>3, ConstAssumption DEF IInv, TypeOK, EptOf
  <2> QED
    BY <1>3, <2>1, <2>3 DEF IInv, TypeOK, PipeBehind, EptOf
<1> QED
  BY <1>3, <1>4, <1>5, <1>6 DEF IInv, NoStalePipe

(* What every action that leaves devices and pipes alone must show.        *)
LEMMA SameDevices ==
  ASSUME IInv, TypeOK', UNCHANGED <<dev, pipes, rmdev, idx>>,
         pc' = "idle" => rmdev = NoDev,
         pc' \in {"destroy", "skip", "detach"} => rmdev \in Dev,
         pc' = "skip" => pc = "skip",
         NoStalePipe',
         \A r \in Req : req'[r].tdcount > 0 =>
            \/ /\ req[r].tdcount > 0
               /\ req'[r].dev = req[r].dev /\ req'[r].pipe = req[r].pipe
            \/ /\ req'[r].dev \in Dev /\ dev[req'[r].dev] = "present"
               /\ pipes[req'[r].dev][req'[r].pipe] # NoEpt
  PROVE  IInv'
<1>1. OneRemoval'
  BY DEF IInv, OneRemoval, Doomed
<1>2. ASSUME NEW r \in Req PROVE PipeBehind(r)'
  BY DEF IInv, PipeBehind, EptOf
<1> QED
  BY <1>1, <1>2 DEF IInv

-----------------------------------------------------------------------------
(* One lemma per group of actions.                                         *)

LEMMA SubmitInv ==
  ASSUME IInv, NEW d \in Dev, NEW p \in Pipe, NEW r \in Req, NEW n \in 1..MaxTds,
         Submit(d, p, r, n)
  PROVE  IInv'
<1> DEFINE e == pipes[d][p]
<1>1. n \in Nat /\ e \in Ept
  <2>1. e \in Ept \cup {NoEpt} /\ e # NoEpt
    BY DEF IInv, TypeOK, Submit
  <2> QED
    BY <2>1, ConstAssumption
<1>2. Allot(n) \in Seq(Td)
  BY <1>1, AllotFacts DEF Submit, IInv, TypeOK
<1>3. TypeOK'
  <2>1. queue' \in [Ept -> Seq(Td)] /\ clr' \in Ept
        /\ ref' \in [Td -> Req \cup {NoReq}]
    BY <1>1, <1>2 DEF Submit, Xfer, IInv, TypeOK
  <2>2. req' \in [Req -> [st : {"free", "busy", "done"}, dev : Dev \cup {NoDev},
                          pipe : Pipe, tdcount : Nat, status : Status]]
    BY <1>1 DEF Submit, IInv, TypeOK, Status, Cond
  <2>3. freeTd' \subseteq Td /\ behind' \in [Req -> BOOLEAN]
    BY DEF Submit, IInv, TypeOK
  <2> QED
    BY <2>1, <2>2, <2>3 DEF Submit, IInv, TypeOK, poolVars, hcVars, drvVars
<1>4. ASSUME NEW x \in Req, req'[x].tdcount > 0
      PROVE  \/ /\ req[x].tdcount > 0
                /\ req'[x].dev = req[x].dev /\ req'[x].pipe = req[x].pipe
             \/ /\ req'[x].dev \in Dev /\ dev[req'[x].dev] = "present"
                /\ pipes[req'[x].dev][req'[x].pipe] # NoEpt
  BY <1>4 DEF Submit, IInv, TypeOK
<1> QED
  BY <1>3, <1>4, SameDevices
     DEF Submit, poolVars, drvVars, IInv, OneRemoval, NoStalePipe

LEMMA SyncReturnInv ==
  ASSUME IInv, NEW r \in Req, SyncReturn(r)
  PROVE  IInv'
<1>1. TypeOK'
  <2>1. clr' \in Ept \cup {NoEpt}
    BY DEF SyncReturn, IInv, TypeOK
  <2>2. req' \in [Req -> [st : {"free", "busy", "done"}, dev : Dev \cup {NoDev},
                          pipe : Pipe, tdcount : Nat, status : Status]]
    BY ConstAssumption DEF SyncReturn, IInv, TypeOK, IdleReq, Status, Cond
  <2> QED
    BY <2>1, <2>2 DEF SyncReturn, IInv, TypeOK, poolVars, hcVars, drvVars
<1>2. ASSUME NEW x \in Req, req'[x].tdcount > 0
      PROVE  /\ req[x].tdcount > 0
             /\ req'[x].dev = req[x].dev /\ req'[x].pipe = req[x].pipe
  BY <1>2 DEF SyncReturn, IInv, TypeOK, IdleReq
<1> QED
  BY <1>1, <1>2, SameDevices
     DEF SyncReturn, poolVars, drvVars, IInv, OneRemoval, NoStalePipe

LEMMA HcRetireInv ==
  ASSUME IInv, NEW e \in Ept, NEW c \in Cond, HcRetire(e, c)
  PROVE  IInv'
<1> DEFINE t == Head(queue[e])
<1>1. queue[e] \in Seq(Td) /\ Len(queue[e]) > 1
  BY DEF HcRetire, IInv, TypeOK
<1>2. t \in Td /\ Tail(queue[e]) \in Seq(Td)
  BY <1>1
<1>3. TypeOK'
  <2>1. queue' \in [Ept -> Seq(Td)] /\ halted' \in [Ept -> BOOLEAN]
        /\ cc' \in [Td -> Cond]
    BY <1>2 DEF HcRetire, IInv, TypeOK
  <2>2. doneq' \in Seq(Td) /\ dqic' \in {0, 1, 7}
    BY <1>2 DEF HcRetire, IInv, TypeOK
  <2>3. behind' \in [Req -> BOOLEAN]
    BY DEF HcRetire, IInv, TypeOK
  <2> QED
    BY <2>1, <2>2, <2>3 DEF HcRetire, IInv, TypeOK, poolVars, drvVars, clrVars
<1> QED
  BY <1>3, SameDevices
     DEF HcRetire, poolVars, drvVars, IInv, OneRemoval, NoStalePipe

LEMMA HcFrameInv ==
  ASSUME IInv, HcFrame
  PROVE  IInv'
<1>1. TypeOK'
  <2>1. doneq' \in Seq(Td) /\ hcca' \in Seq(Td)
    BY DEF HcFrame, IInv, TypeOK
  <2>2. dqic' \in {0, 1, 7} /\ wdh' \in BOOLEAN /\ frames' \in 0..2
    BY DEF HcFrame, IInv, TypeOK
  <2> QED
    BY <2>1, <2>2 DEF HcFrame, IInv, TypeOK, poolVars, clrVars
<1>2. UNCHANGED <<dev, pipes, rmdev, idx, pc, req>>
  BY DEF HcFrame, poolVars
<1>3. /\ pc' = "idle" => rmdev = NoDev
      /\ pc' \in {"destroy", "skip", "detach"} => rmdev \in Dev
      /\ NoStalePipe'
  BY <1>2 DEF IInv, OneRemoval, NoStalePipe
<1> QED
  BY <1>1, <1>2, <1>3, SameDevices

LEMMA PollInv ==
  ASSUME IInv, Poll \/ LastPoll
  PROVE  IInv'
<1>1. TypeOK'
  <2>1. /\ work' \in Seq(Td) /\ hcca' \in Seq(Td) /\ wdh' \in BOOLEAN
        /\ pc' \in {"proc", "detach"}
    <3>1. \/ work' = hcca /\ hcca' = <<>> /\ wdh' = FALSE /\ pc' = "proc"
          \/ work' = work /\ hcca' = hcca /\ wdh' = wdh /\ pc' = "detach"
      BY Zenon DEF Poll, LastPoll, TakeDoneHead
    <3>2. wdh' \in BOOLEAN
      BY <3>1, Zenon DEF IInv, TypeOK
    <3>3. work' \in Seq(Td) /\ hcca' \in Seq(Td) /\ pc' \in {"proc", "detach"}
      <4>1. <<>> \in Seq(Td)
        OBVIOUS
      <4>2. work \in Seq(Td) /\ hcca \in Seq(Td)
        BY DEF IInv, TypeOK
      <4> QED
        BY <3>1, <4>1, <4>2, Zenon
    <3> QED
      BY <3>2, <3>3
  <2>2. UNCHANGED <<dev, pipes, freeEpt, freeTd, queue, halted, clr, seen, ref,
                    cc, doneq, dqic, req, behind, bus, rmdev, idx, frames>>
    BY DEF Poll, LastPoll, poolVars, clrVars
  <2> QED
    BY <2>1, <2>2 DEF IInv, TypeOK
<1> QED
  BY <1>1, SameDevices
     DEF Poll, LastPoll, TakeDoneHead, poolVars, IInv, OneRemoval, NoStalePipe

(* What is common to the steps of ohci_intr_procdoneq that finish with a   *)
(* TD.                                                                     *)
LEMMA ProcCommon ==
  ASSUME IInv, NEW t \in Td, AtWork(t), NextWork,
         freeTd' \subseteq Td, queue' \in [Ept -> Seq(Td)],
         clr' \in Ept \cup {NoEpt}, behind' \in [Req -> BOOLEAN],
         ref' \in [Td -> Req \cup {NoReq}], cc' \in [Td -> Cond],
         req' \in [Req -> [st : {"free", "busy", "done"}, dev : Dev \cup {NoDev},
                           pipe : Pipe, tdcount : Nat, status : Status]],
         \A r \in Req : req'[r].tdcount > 0 =>
            /\ req[r].tdcount > 0
            /\ req'[r].dev = req[r].dev /\ req'[r].pipe = req[r].pipe
  PROVE  IInv'
<1>1. UNCHANGED <<dev, pipes, freeEpt, halted, seen, doneq, dqic, hcca, wdh,
                  bus, rmdev, idx, frames>>
  BY DEF AtWork, poolVars, hcVars
<1>2. work' \in Seq(Td) /\ pc' \in {"proc", "idle", "detach"}
      /\ (pc' = "idle" => rmdev = NoDev) /\ (pc' = "detach" => rmdev # NoDev)
  BY DEF AtWork, NextWork, IInv, TypeOK
<1>3. TypeOK'
  BY <1>1, <1>2 DEF IInv, TypeOK
<1> QED
  BY <1>1, <1>2, <1>3, SameDevices DEF IInv, TypeOK, NoStalePipe

LEMMA FreeXferType ==
  ASSUME TypeOK, NEW t \in Td, FreeXfer(t)
  PROVE  /\ freeTd' \subseteq Td
         /\ ref' \in [Td -> Req \cup {NoReq}]
         /\ cc' \in [Td -> Cond]
  BY DEF TypeOK, FreeXfer, Cond

(* The status a completion reports is a completion status.                 *)
LEMMA ReportedType ==
  ASSUME TypeOK, NEW t \in Td, NEW r
  PROVE  Reported(r, cc[t]) \in Status
  BY DEF TypeOK, Reported, Status

LEMMA ProcTdInv ==
  ASSUME IInv, NEW t \in Td, ProcTd(t)
  PROVE  IInv'
<1> DEFINE r == ref[t]
           RequestType == [st : {"free", "busy", "done"}, dev : Dev \cup {NoDev},
                           pipe : Pipe, tdcount : Nat, status : Status]
<1>0. TypeOK /\ req \in [Req -> RequestType]
  BY DEF IInv, TypeOK
<1>1. CASE ProcPiece(t)
  <2>1. req' \in [Req -> RequestType]
    <3>1. cc[t] \in Status /\ (r \in Req => req[r].tdcount - 1 \in Nat)
      BY <1>0, <1>1 DEF ProcPiece, TypeOK, Status
    <3>2. ASSUME NEW x \in Req PROVE req'[x] \in RequestType
      <4>1. CASE x = r
        <5>1. req[r] \in RequestType
          BY <1>0, <4>1
        <5>2. req'[x] = [req[r] EXCEPT !.tdcount = @ - 1, !.status = cc[t]]
          BY <1>0, <1>1, <4>1 DEF ProcPiece
        <5>3. req'[x] = [st |-> req[r].st, dev |-> req[r].dev, pipe |-> req[r].pipe,
                         tdcount |-> req[r].tdcount - 1, status |-> cc[t]]
          BY <5>1, <5>2
        <5> QED
          BY <3>1, <4>1, <5>1, <5>3
      <4>2. CASE x # r
        BY <1>0, <1>1, <4>2 DEF ProcPiece
      <4> QED
        BY <4>1, <4>2
    <3>3. req' = [x \in Req |-> req'[x]]
      BY <1>0, <1>1 DEF ProcPiece
    <3> QED
      BY <3>2, <3>3
  <2>2. ASSUME NEW x \in Req, req'[x].tdcount > 0
        PROVE  /\ req[x].tdcount > 0
               /\ req'[x].dev = req[x].dev /\ req'[x].pipe = req[x].pipe
    BY <1>0, <1>1, <2>2 DEF ProcPiece
  <2>3. AtWork(t) /\ NextWork /\ FreeXfer(t) /\ UNCHANGED <<queue, clr, behind>>
    BY <1>1 DEF ProcPiece
  <2>4. /\ freeTd' \subseteq Td /\ ref' \in [Td -> Req \cup {NoReq}]
        /\ cc' \in [Td -> Cond]
    BY <1>0, <2>3, FreeXferType
  <2>5. /\ queue' \in [Ept -> Seq(Td)] /\ clr' \in Ept \cup {NoEpt}
        /\ behind' \in [Req -> BOOLEAN]
    BY <1>0, <2>3 DEF TypeOK
  <2> QED
    BY <2>1, <2>2, <2>3, <2>4, <2>5, ProcCommon
<1>2. CASE ProcSync(t)
  <2>1. req' \in [Req -> RequestType]
    <3>1. Done(r, Reported(r, cc[t])) /\ Reported(r, cc[t]) \in Status
      BY <1>0, <1>2, ReportedType DEF ProcSync
    <3>2. ASSUME NEW x \in Req PROVE req'[x] \in RequestType
      <4>1. CASE x = r
        <5>1. req[r] \in RequestType
          BY <1>0, <4>1
        <5>2. req'[r] = [req[r] EXCEPT !.st = "done", !.tdcount = 0,
                                       !.status = Reported(r, cc[t])]
          BY <1>0, <3>1, <4>1 DEF Done
        <5> DEFINE s == Reported(r, cc[t])
        <5>3. s \in Status
          BY <3>1
        <5>4. req'[x] = [req[r] EXCEPT !.st = "done", !.tdcount = 0, !.status = s]
          BY <4>1, <5>2
        <5>5. req[r].dev \in Dev \cup {NoDev} /\ req[r].pipe \in Pipe
          BY <5>1
        <5>6. req'[x] = [st |-> "done", dev |-> req[r].dev, pipe |-> req[r].pipe,
                         tdcount |-> 0, status |-> s]
          BY <5>1, <5>4
        <5> HIDE DEF s
        <5> QED
          BY <5>3, <5>5, <5>6
      <4>2. CASE x # r
        BY <1>0, <3>1, <4>2 DEF Done
      <4> QED
        BY <4>1, <4>2
    <3>3. req' = [x \in Req |-> req'[x]]
      BY <1>0, <3>1 DEF Done
    <3> QED
      BY <3>2, <3>3
  <2>2. ASSUME NEW x \in Req, req'[x].tdcount > 0
        PROVE  /\ req[x].tdcount > 0
               /\ req'[x].dev = req[x].dev /\ req'[x].pipe = req[x].pipe
    BY <1>0, <1>2, <2>2 DEF ProcSync, Done
  <2>3. AtWork(t) /\ NextWork /\ FreeXfer(t) /\ UNCHANGED <<queue, clr>>
        /\ behind' = [behind EXCEPT ![r] = FALSE]
    BY <1>2 DEF ProcSync
  <2>4. /\ freeTd' \subseteq Td /\ ref' \in [Td -> Req \cup {NoReq}]
        /\ cc' \in [Td -> Cond]
    BY <1>0, <2>3, FreeXferType
  <2>5. /\ queue' \in [Ept -> Seq(Td)] /\ clr' \in Ept \cup {NoEpt}
        /\ behind' \in [Req -> BOOLEAN]
    BY <1>0, <2>3 DEF TypeOK
  <2> QED
    BY <2>1, <2>2, <2>3, <2>4, <2>5, ProcCommon
<1>3. CASE ProcIntrCancelled(t)
  <2>1. req' \in [Req -> RequestType]
    BY <1>0, <1>3, ConstAssumption DEF ProcIntrCancelled, IdleReq, Status, Cond
  <2>2. ASSUME NEW x \in Req, req'[x].tdcount > 0
        PROVE  /\ req[x].tdcount > 0
               /\ req'[x].dev = req[x].dev /\ req'[x].pipe = req[x].pipe
    BY <1>0, <1>3, <2>2 DEF ProcIntrCancelled, IdleReq
  <2>3. AtWork(t) /\ NextWork /\ FreeXfer(t) /\ UNCHANGED <<queue, clr, behind>>
    BY <1>3 DEF ProcIntrCancelled
  <2>4. /\ freeTd' \subseteq Td /\ ref' \in [Td -> Req \cup {NoReq}]
        /\ cc' \in [Td -> Cond]
    BY <1>0, <2>3, FreeXferType
  <2>5. /\ queue' \in [Ept -> Seq(Td)] /\ clr' \in Ept \cup {NoEpt}
        /\ behind' \in [Req -> BOOLEAN]
    BY <1>0, <2>3 DEF TypeOK
  <2> QED
    BY <2>1, <2>2, <2>3, <2>4, <2>5, ProcCommon
<1>4. CASE ProcIntrAgain(t)
  <2>1. r \in Req /\ req[r].tdcount = 1 /\ req[r].dev \in Dev
        /\ dev[req[r].dev] = "present" /\ EptOf(r) # NoEpt /\ EptOf(r) \in Ept
    <3>1. r \in Req /\ req[r].tdcount = 1
      BY <1>4, ConstAssumption DEF ProcIntrAgain, LastTd
    <3>2. PipeBehind(r)
      BY <3>1 DEF IInv
    <3>3. req[r].dev \in Dev /\ req[r].pipe \in Pipe
      BY <1>0, <3>1, <3>2 DEF PipeBehind
    <3>4. dev[req[r].dev] = "present"
      BY <1>0, <1>4, <3>1, <3>2, <3>3
         DEF ProcIntrAgain, Reported, PipeBehind, TypeOK
    <3> QED
      BY <1>0, <3>1, <3>2, <3>3, <3>4 DEF PipeBehind, EptOf, TypeOK
  <2>2. AtWork(t) /\ Requeue(r, EptOf(r), t) /\ behind' = behind
    BY <1>4, <2>1 DEF ProcIntrAgain
  <2> DEFINE n == CHOOSE x \in freeTd : TRUE
  <2>3. n \in Td
    BY <1>0, <2>2 DEF Requeue, TypeOK
  <2>4. /\ queue' \in [Ept -> Seq(Td)] /\ clr' \in Ept \cup {NoEpt}
        /\ behind' \in [Req -> BOOLEAN]
    BY <1>0, <2>1, <2>2, <2>3 DEF Requeue, TypeOK
  <2>5. /\ freeTd' \subseteq Td /\ cc' \in [Td -> Cond]
        /\ ref' \in [Td -> Req \cup {NoReq}]
    BY <1>0, <2>1, <2>2 DEF Requeue, TypeOK, Cond
  <2>6. req' \in [Req -> RequestType]
    <3>1. "noerr" \in Status /\ req' = [req EXCEPT ![r].status = "noerr"]
      BY <2>2 DEF Requeue, Status, Cond
    <3>2. ASSUME NEW x \in Req PROVE req'[x] \in RequestType
      <4>1. CASE x = r
        <5>1. req[r] \in RequestType
          BY <1>0, <4>1
        <5>2. req'[r] = [req[r] EXCEPT !.status = "noerr"]
          BY <1>0, <3>1, <4>1
        <5> QED
          BY <3>1, <4>1, <5>1, <5>2
      <4>2. CASE x # r
        BY <1>0, <3>1, <4>2
      <4> QED
        BY <4>1, <4>2
    <3>3. req' = [x \in Req |-> req'[x]]
      BY <1>0, <3>1
    <3> QED
      BY <3>2, <3>3
  <2>7. ASSUME NEW x \in Req, req'[x].tdcount > 0
        PROVE  /\ req[x].tdcount > 0
               /\ req'[x].dev = req[x].dev /\ req'[x].pipe = req[x].pipe
    BY <1>0, <2>2, <2>7 DEF Requeue
  <2> QED
    BY <2>2, <2>4, <2>5, <2>6, <2>7, ProcCommon DEF Requeue
<1>5. CASE ProcNoDevice(t)
  <2>1. TypeOK'
    BY <1>0, <1>5 DEF ProcNoDevice, AtWork, TypeOK, poolVars, hcVars, clrVars
  <2> QED
    BY <1>5, <2>1, SameDevices DEF ProcNoDevice, AtWork, poolVars, NoStalePipe
<1> QED
  BY <1>1, <1>2, <1>3, <1>4, <1>5 DEF ProcTd

LEMMA DrainTdInv ==
  ASSUME IInv, DrainTd
  PROVE  IInv'
<1> DEFINE t == Head(queue[Doomed])
           r == ref[t]
           RequestType == [st : {"free", "busy", "done"}, dev : Dev \cup {NoDev},
                           pipe : Pipe, tdcount : Nat, status : Status]
<1>0. TypeOK /\ req \in [Req -> RequestType]
  BY DEF IInv, TypeOK
<1>1. Doomed \in Ept
  <2>1. rmdev \in Dev /\ Doomed # NoEpt
    BY DEF DrainTd, IInv, OneRemoval
  <2> QED
    BY <1>0, <2>1 DEF TypeOK, Doomed
<1>2. t \in Td /\ Tail(queue[Doomed]) \in Seq(Td)
  <2>1. queue[Doomed] \in Seq(Td) /\ Len(queue[Doomed]) > 1
    BY <1>0, <1>1 DEF DrainTd, TypeOK
  <2> QED
    BY <2>1
<1>3. /\ freeTd' \subseteq Td /\ ref' \in [Td -> Req \cup {NoReq}]
      /\ cc' \in [Td -> Cond]
  BY <1>0, <1>2, FreeXferType DEF DrainTd
<1>4. queue' \in [Ept -> Seq(Td)]
  BY <1>0, <1>2 DEF DrainTd, TypeOK
<1>5. ASSUME NEW x \in Req
      PROVE  /\ req'[x] \in RequestType
             /\ req'[x].tdcount > 0 =>
                  /\ req[x].tdcount > 0
                  /\ req'[x].dev = req[x].dev /\ req'[x].pipe = req[x].pipe
  <2>1. CASE x # r
    BY <1>0, <2>1 DEF DrainTd
  <2>2. CASE x = r
    <3>1. req'[x] = Drained(x) /\ req[x] \in RequestType
      BY <1>0, <2>2 DEF DrainTd
    <3>2. CASE req[x].tdcount > 1
      <4>1. req'[x] = [st |-> req[x].st, dev |-> req[x].dev,
                       pipe |-> req[x].pipe, tdcount |-> req[x].tdcount - 1,
                       status |-> "cancelled"]
        BY <3>1, <3>2 DEF Drained
      <4>2. req[x].tdcount - 1 \in Nat /\ "cancelled" \in Status
        BY <3>1, <3>2 DEF Status
      <4> QED
        BY <3>1, <3>2, <4>1, <4>2, SMTT(30)
    <3>3. CASE ~(req[x].tdcount > 1) /\ x \in IntrReq
      BY <3>1, <3>3, ConstAssumption DEF Drained, IdleReq, Status, Cond
    <3>4. CASE ~(req[x].tdcount > 1) /\ x \notin IntrReq
      <4>1. req'[x] = [st |-> "done", dev |-> req[x].dev,
                       pipe |-> req[x].pipe, tdcount |-> 0,
                       status |-> "cancelled"]
        BY <3>1, <3>4 DEF Drained
      <4>2. "cancelled" \in Status
        BY DEF Status
      <4> QED
        BY <3>1, <4>1, <4>2
    <3> QED
      BY <3>2, <3>3, <3>4
  <2> QED
    BY <2>1, <2>2
<1>6. req' = [x \in Req |-> req'[x]]
  BY <1>0 DEF DrainTd
<1>7. req' \in [Req -> RequestType]
  BY <1>5, <1>6
<1>8. UNCHANGED <<dev, pipes, freeEpt, halted, clr, seen, doneq, dqic, hcca,
                  wdh, behind, bus, pc, work, rmdev, idx, frames>>
  BY DEF DrainTd, poolVars, clrVars, hcVars, drvVars
<1>9. TypeOK'
  BY <1>0, <1>3, <1>4, <1>7, <1>8 DEF TypeOK
<1> QED
  BY <1>5, <1>8, <1>9, SameDevices DEF IInv, OneRemoval, NoStalePipe

(* The steps of a removal that change the device or its pipes.             *)
LEMMA UnplugInv ==
  ASSUME IInv, NEW d \in Dev, Unplug(d)
  PROVE  IInv'
<1>1. UNCHANGED <<pipes, freeEpt, freeTd, queue, halted, clr, seen, ref, cc,
                  doneq, dqic, hcca, wdh, req, behind, bus, work, idx, frames>>
  BY DEF Unplug, poolVars, clrVars, hcVars
<1>2. TypeOK'
  BY <1>1 DEF Unplug, IInv, TypeOK
<1>3. OneRemoval'
  BY ConstAssumption DEF Unplug, Settled, Idle, IInv, OneRemoval, TypeOK
<1>4. ASSUME NEW r \in Req PROVE PipeBehind(r)'
  BY <1>1 DEF Unplug, IInv, TypeOK, PipeBehind, EptOf
<1> QED
  BY <1>2, <1>3, <1>4 DEF Unplug, IInv, NoStalePipe

LEMMA DestroyPipeInv ==
  ASSUME IInv, DestroyPipe
  PROVE  IInv'
<1>1. UNCHANGED <<dev, pipes, freeEpt, freeTd, queue, halted, clr, seen, ref, cc,
                  doneq, dqic, hcca, wdh, req, behind, bus, work, rmdev>>
  BY DEF DestroyPipe, poolVars, clrVars, hcVars
<1>2. idx' \in Pipe /\ pipes[rmdev][idx'] # NoEpt
  BY DEF DestroyPipe, ToNextPipe, OpenPipes
<1>3. TypeOK'
  BY <1>1, <1>2 DEF DestroyPipe, IInv, TypeOK
<1>4. OneRemoval'
  BY <1>1, <1>2 DEF DestroyPipe, IInv, OneRemoval, Doomed
<1>5. ASSUME NEW r \in Req PROVE PipeBehind(r)'
  BY <1>1 DEF IInv, PipeBehind, EptOf
<1> QED
  BY <1>3, <1>4, <1>5 DEF DestroyPipe, IInv, NoStalePipe

LEMMA FreeEptInv ==
  ASSUME IInv, FreeEpt
  PROVE  IInv'
<1>0. TypeOK /\ rmdev \in Dev /\ dev[rmdev] = "removing"
  BY DEF FreeEpt, IInv, OneRemoval
<1>1. Doomed \in Ept
  BY <1>0 DEF FreeEpt, IInv, OneRemoval, TypeOK, Doomed
<1>2. Head(queue[Doomed]) \in Td
  <2>1. queue[Doomed] \in Seq(Td) /\ Len(queue[Doomed]) = 1
    BY <1>0, <1>1 DEF FreeEpt, TypeOK
  <2> QED
    BY <2>1
<1>3. /\ freeTd' \subseteq Td /\ ref' \in [Td -> Req \cup {NoReq}]
      /\ cc' \in [Td -> Cond]
  BY <1>0, <1>2, FreeXferType DEF FreeEpt
<1>4. queue' \in [Ept -> Seq(Td)] /\ freeEpt' \subseteq Ept
      /\ pipes' \in [Dev -> [Pipe -> Ept \cup {NoEpt}]]
  BY <1>0, <1>1 DEF FreeEpt, ReleaseEpt, TypeOK
<1>5. UNCHANGED <<dev, halted, clr, seen, doneq, dqic, hcca, wdh, req, behind, bus,
                  work, rmdev>>
      /\ pc' = "destroy" /\ idx' = 0 /\ frames' = 0
  BY DEF FreeEpt, clrVars, hcVars
<1>6. TypeOK'
  BY <1>0, <1>3, <1>4, <1>5, ConstAssumption DEF TypeOK
<1>7. OneRemoval'
  BY <1>0, <1>5 DEF IInv, OneRemoval
<1>8. ASSUME NEW r \in Req PROVE PipeBehind(r)'
  <2>1. PipeBehind(r)
    BY DEF IInv
  <2>2. dev[req[r].dev] = "present" => req[r].dev # rmdev
    BY <1>0
  <2>3. req[r].dev # rmdev => pipes'[req[r].dev] = pipes[req[r].dev]
    BY <1>0 DEF FreeEpt, TypeOK
  <2> QED
    BY <1>5, <2>1, <2>2, <2>3 DEF PipeBehind, EptOf
<1> QED
  BY <1>5, <1>6, <1>7, <1>8 DEF IInv, NoStalePipe

LEMMA DetachInv ==
  ASSUME IInv, Detach
  PROVE  IInv'
<1>0. TypeOK /\ rmdev \in Dev
  BY DEF Detach, IInv, OneRemoval
<1>1. UNCHANGED <<pipes, freeEpt, freeTd, queue, halted, clr, seen, ref, cc,
                  doneq, dqic, hcca, wdh, req, behind, bus, work, idx, frames>>
  BY DEF Detach, poolVars, clrVars, hcVars
<1>2. TypeOK'
  BY <1>0, <1>1 DEF Detach, TypeOK
<1>3. OneRemoval'
  BY <1>0, ConstAssumption DEF Detach, IInv, OneRemoval, TypeOK
<1>4. ASSUME NEW r \in Req PROVE PipeBehind(r)'
  BY <1>0, <1>1 DEF Detach, IInv, TypeOK, PipeBehind, EptOf
<1> QED
  BY <1>2, <1>3, <1>4 DEF Detach, IInv, NoStalePipe

(* The two steps that clear an H bit.                                      *)
LEMMA HeadInv ==
  ASSUME IInv, LoadHead \/ StoreHead
  PROVE  IInv'
<1>0. TypeOK /\ clr \in Ept
  BY DEF LoadHead, StoreHead, IInv, TypeOK
<1>1. UNCHANGED <<dev, pipes, freeEpt, freeTd, ref, cc, doneq, dqic, hcca, wdh,
                  req, behind, bus, work, rmdev, idx, frames>>
  BY DEF LoadHead, StoreHead, poolVars, hcVars, drvVars
<1>2. /\ queue' \in [Ept -> Seq(Td)] /\ halted' \in [Ept -> BOOLEAN]
      /\ clr' \in Ept \cup {NoEpt} /\ seen' \in Seq(Td)
  <2>1. CASE LoadHead
    BY <1>0, <2>1 DEF LoadHead, TypeOK
  <2>2. CASE StoreHead
    <3>1. seen' \in Seq(Td)
      BY <2>2, NoCells DEF StoreHead
    <3> QED
      BY <1>0, <2>2, <3>1 DEF StoreHead, ClearHalt, TypeOK
  <2> QED
    BY <2>1, <2>2
<1>3. pc' = pc \/ pc' = "lost_head"
  BY DEF LoadHead, StoreHead, drvVars
<1>4. TypeOK'
  BY <1>0, <1>1, <1>2, <1>3 DEF TypeOK
<1> QED
  BY <1>1, <1>3, <1>4, SameDevices DEF IInv, OneRemoval, NoStalePipe

-----------------------------------------------------------------------------
LEMMA StepInv == IInv /\ [Next]_vars => IInv'
<1> SUFFICES ASSUME IInv, [Next]_vars PROVE IInv'
  OBVIOUS
<1>1. CASE \E d \in Dev : Attach(d) \/ Unplug(d)
  <2> PICK d \in Dev : Attach(d) \/ Unplug(d)
    BY <1>1
  <2>1. CASE Attach(d)
    BY <2>1, CreatePipeInv, ConstAssumption DEF Attach, Settled, Idle
  <2> QED
    BY <2>1, UnplugInv
<1>2. CASE \E d \in Dev, p \in Pipe : OpenPipe(d, p)
  BY <1>2, CreatePipeInv DEF OpenPipe, Settled, Idle
<1>3. CASE \E d \in Dev, p \in Pipe, r \in Req, n \in 1..MaxTds : Submit(d, p, r, n)
  BY <1>3, SubmitInv
<1>4. CASE \E r \in Req : SyncReturn(r)
  BY <1>4, SyncReturnInv
<1>5. CASE \E e \in Ept, c \in Cond : HcRetire(e, c)
  BY <1>5, HcRetireInv
<1>6. CASE HcFrame
  BY <1>6, HcFrameInv
<1>7. CASE Poll \/ LastPoll
  BY <1>7, PollInv
<1>8. CASE \E t \in Td : ProcTd(t)
  BY <1>8, ProcTdInv
<1>9. CASE DestroyPipe
  BY <1>9, DestroyPipeInv
<1>10. CASE DrainTd
  BY <1>10, DrainTdInv
<1>11. CASE FreeEpt
  BY <1>11, FreeEptInv
<1>12. CASE Detach
  BY <1>12, DetachInv
<1>13. CASE Undefined \/ UNCHANGED vars
  <2>1. UNCHANGED <<dev, pipes, freeEpt, freeTd, queue, halted, clr, seen, ref, cc,
                    doneq, dqic, hcca, wdh, req, behind, bus, pc, work, rmdev, idx,
                    frames>>
    BY <1>13 DEF Undefined, vars, poolVars, clrVars, hcVars, drvVars
  <2>2. TypeOK'
    BY <2>1 DEF IInv, TypeOK
  <2> QED
    BY <2>1, <2>2, SameDevices DEF IInv, OneRemoval, NoStalePipe
<1>14. CASE LoadHead \/ StoreHead
  BY <1>14, HeadInv
<1> QED
  BY <1>1, <1>2, <1>3, <1>4, <1>5, <1>6, <1>7, <1>8, <1>9, <1>10, <1>11, <1>12,
     <1>13, <1>14 DEF Next

LEMMA Inductive == Spec => []IInv
<1> QED
  BY InitInv, StepInv, PTL DEF Spec

(* Every variable of the engine keeps its type.                            *)
THEOREM TypeCorrect == Spec => []TypeOK
<1>1. IInv => TypeOK
  BY DEF IInv
<1> QED
  BY <1>1, Inductive, PTL

(* Whatever is unplugged when, no interrupt callback ever queues its       *)
(* request on a pipe that has been closed: ohci_intr_procdoneq turns the   *)
(* status of everything that still comes back from a device being removed  *)
(* into "cancelled", and pipes are closed on such a device only.           *)
THEOREM CallbackPipeOpen == Spec => []NoStalePipe
<1>1. IInv => NoStalePipe
  BY DEF IInv
<1> QED
  BY <1>1, Inductive, PTL

-----------------------------------------------------------------------------
(* A list of one TD.                                                       *)
LEMMA OneCell ==
  ASSUME NEW t \in Td
  PROVE  /\ <<t>> \in Seq(Td) /\ Len(<<t>>) = 1 /\ <<t>>[1] = t
         /\ Cells(<<t>>) = {t} /\ Injective(<<t>>)
  BY DEF Cells, Injective

(* Membership, by position.                                                *)
LEMMA CellsIn ==
  ASSUME NEW s \in Seq(Td)
  PROVE  /\ Cells(s) \subseteq Td
         /\ \A t : t \in Cells(s) <=> \E i \in 1 .. Len(s) : s[i] = t
  BY DEF Cells

(* The first TD of a list, and the rest.                                   *)
LEMMA TailCells ==
  ASSUME NEW s \in Seq(Td), Len(s) > 0, Injective(s)
  PROVE  /\ Head(s) \in Td /\ Head(s) = s[1]
         /\ Tail(s) \in Seq(Td) /\ Len(Tail(s)) = Len(s) - 1
         /\ \A i \in 1 .. Len(Tail(s)) : Tail(s)[i] = s[i + 1]
         /\ Injective(Tail(s))
         /\ Head(s) \in Cells(s)
         /\ \A t : t \in Cells(Tail(s)) <=> t \in Cells(s) /\ t # Head(s)
<1> DEFINE u == Tail(s)
<1>1. Head(s) \in Td /\ Head(s) = s[1] /\ u \in Seq(Td) /\ Len(u) = Len(s) - 1
      /\ \A i \in 1 .. Len(u) : u[i] = s[i + 1]
  OBVIOUS
<1>2. DOMAIN s = 1 .. Len(s) /\ DOMAIN u = 1 .. Len(u) /\ Len(s) \in Nat /\ Len(u) \in Nat
  BY <1>1
<1> HIDE DEF u
<1>3. Injective(u)
  BY <1>1, <1>2 DEF Injective
<1>4. ASSUME NEW t PROVE t \in Cells(u) <=> t \in Cells(s) /\ t # Head(s)
  <2>1. ASSUME t \in Cells(u) PROVE t \in Cells(s) /\ t # Head(s)
    <3>1. PICK i \in 1 .. Len(u) : u[i] = t
      BY <1>2, <2>1 DEF Cells
    <3>2. s[i + 1] = t /\ i + 1 \in 1 .. Len(s) /\ i + 1 # 1
      BY <1>1, <1>2, <3>1
    <3> QED
      BY <1>1, <1>2, <3>2 DEF Cells, Injective
  <2>2. ASSUME t \in Cells(s), t # Head(s) PROVE t \in Cells(u)
    <3>1. PICK i \in 1 .. Len(s) : s[i] = t
      BY <1>2, <2>2 DEF Cells
    <3>2. i # 1 /\ i - 1 \in 1 .. Len(u)
      BY <1>1, <1>2, <2>2, <3>1
    <3>3. u[i - 1] = t
      BY <1>1, <1>2, <3>1, <3>2
    <3> QED
      BY <1>2, <3>2, <3>3 DEF Cells
  <2> QED
    BY <2>1, <2>2
<1>5. Head(s) \in Cells(s)
  BY <1>1, <1>2 DEF Cells
<1> QED
  BY <1>1, <1>3, <1>4, <1>5 DEF u

(* Two lists one behind the other.                                         *)
LEMMA JoinCells ==
  ASSUME NEW s \in Seq(Td), NEW u \in Seq(Td)
  PROVE  /\ s \o u \in Seq(Td) /\ Len(s \o u) = Len(s) + Len(u)
         /\ \A i \in 1 .. Len(s) : (s \o u)[i] = s[i]
         /\ \A i \in 1 .. Len(u) : (s \o u)[Len(s) + i] = u[i]
         /\ \A t : t \in Cells(s \o u) <=> t \in Cells(s) \/ t \in Cells(u)
         /\ Injective(s \o u) <=> /\ Injective(s) /\ Injective(u)
                                  /\ \A t : ~(t \in Cells(s) /\ t \in Cells(u))
<1> DEFINE v == s \o u
<1>1. v \in Seq(Td) /\ Len(v) = Len(s) + Len(u) /\ Len(s) \in Nat /\ Len(u) \in Nat
  OBVIOUS
<1>2. DOMAIN s = 1 .. Len(s) /\ DOMAIN u = 1 .. Len(u) /\ DOMAIN v = 1 .. Len(v)
  BY <1>1
<1>3. \A i \in 1 .. Len(s) : v[i] = s[i]
  OBVIOUS
<1>4. \A i \in 1 .. Len(u) : v[Len(s) + i] = u[i]
  OBVIOUS
<1> HIDE DEF v
<1>5. \A i \in 1 .. Len(v) : i \in 1 .. Len(s) \/ (i - Len(s) \in 1 .. Len(u) /\ v[i] = u[i - Len(s)])
  <2> SUFFICES ASSUME NEW i \in 1 .. Len(v), ~(i \in 1 .. Len(s))
               PROVE  i - Len(s) \in 1 .. Len(u) /\ v[i] = u[i - Len(s)]
    OBVIOUS
  <2>1. i - Len(s) \in 1 .. Len(u) /\ Len(s) + (i - Len(s)) = i
    BY <1>1
  <2> QED
    BY <1>4, <2>1
<1>6. ASSUME NEW t PROVE t \in Cells(v) <=> t \in Cells(s) \/ t \in Cells(u)
  <2>1. ASSUME t \in Cells(v) PROVE t \in Cells(s) \/ t \in Cells(u)
    BY <1>2, <1>3, <1>5, <2>1 DEF Cells
  <2>2. ASSUME t \in Cells(s) PROVE t \in Cells(v)
    BY <1>1, <1>2, <1>3, <2>2 DEF Cells
  <2>3. ASSUME t \in Cells(u) PROVE t \in Cells(v)
    <3>1. PICK i \in 1 .. Len(u) : u[i] = t
      BY <1>2, <2>3 DEF Cells
    <3>2. Len(s) + i \in 1 .. Len(v) /\ v[Len(s) + i] = t
      BY <1>1, <1>4, <3>1
    <3> QED
      BY <1>2, <3>2 DEF Cells
  <2> QED
    BY <2>1, <2>2, <2>3
<1>7. ASSUME Injective(v)
      PROVE  Injective(s) /\ Injective(u) /\ \A t : ~(t \in Cells(s) /\ t \in Cells(u))
  <2>1. Injective(s)
    BY <1>1, <1>2, <1>3, <1>7 DEF Injective
  <2>2. Injective(u)
    <3> SUFFICES ASSUME NEW i \in 1 .. Len(u), NEW j \in 1 .. Len(u), u[i] = u[j] PROVE i = j
      BY <1>2 DEF Injective
    <3>1. Len(s) + i \in DOMAIN v /\ Len(s) + j \in DOMAIN v /\ v[Len(s) + i] = v[Len(s) + j]
      BY <1>1, <1>2, <1>4
    <3>2. Len(s) + i = Len(s) + j
      BY <1>7, <3>1 DEF Injective
    <3> QED
      BY <1>1, <3>2
  <2>3. ASSUME NEW t, t \in Cells(s), t \in Cells(u) PROVE FALSE
    <3>1. PICK i \in 1 .. Len(s) : s[i] = t
      BY <1>2, <2>3 DEF Cells
    <3>2. PICK j \in 1 .. Len(u) : u[j] = t
      BY <1>2, <2>3 DEF Cells
    <3>3. i \in DOMAIN v /\ Len(s) + j \in DOMAIN v /\ v[i] = v[Len(s) + j]
      BY <1>1, <1>2, <1>3, <1>4, <3>1, <3>2
    <3>4. i = Len(s) + j
      BY <1>7, <3>3 DEF Injective
    <3> QED
      BY <1>1, <3>4
  <2> QED
    BY <2>1, <2>2, <2>3
<1>8. ASSUME Injective(s), Injective(u), \A t : ~(t \in Cells(s) /\ t \in Cells(u))
      PROVE  Injective(v)
  <2> SUFFICES ASSUME NEW i \in 1 .. Len(v), NEW j \in 1 .. Len(v), v[i] = v[j] PROVE i = j
    BY <1>2 DEF Injective
  <2>1. CASE i \in 1 .. Len(s) /\ j \in 1 .. Len(s)
    BY <1>2, <1>3, <1>8, <2>1 DEF Injective
  <2>2. CASE i \notin 1 .. Len(s) /\ j \notin 1 .. Len(s)
    <3>1. i - Len(s) = j - Len(s)
      BY <1>2, <1>5, <1>8, <2>2 DEF Injective
    <3> QED
      BY <1>1, <3>1
  <2>3. CASE i \in 1 .. Len(s) /\ j \notin 1 .. Len(s)
    BY <1>2, <1>3, <1>5, <1>8, <2>3 DEF Cells
  <2>4. CASE i \notin 1 .. Len(s) /\ j \in 1 .. Len(s)
    BY <1>2, <1>3, <1>5, <1>8, <2>4 DEF Cells
  <2> QED
    BY <2>1, <2>2, <2>3, <2>4
<1> QED
  BY <1>1, <1>3, <1>4, <1>6, <1>7, <1>8 DEF v

(* Two lists that have no TD in common.                                    *)
LEMMA JoinedCells ==
  ASSUME NEW s \in Seq(Td), NEW u \in Seq(Td), Injective(s), Injective(u),
         \A t : t \in Cells(s) => t \notin Cells(u)
  PROVE  /\ \A t : t \in Cells(s \o u) <=> t \in Cells(s) \/ t \in Cells(u)
         /\ Injective(s \o u)
BY JoinCells

(* Emptiness by length; a list of length one.                              *)
LEMMA LenZero ==
  ASSUME NEW s \in Seq(Td)
  PROVE  s = <<>> <=> Len(s) = 0
<1>1. Len(<<>>) = 0
  OBVIOUS
<1>2. Len(s) = 0 => s = <<>>
  OBVIOUS
<1> QED
  BY <1>1, <1>2, Zenon

LEMMA OnlyCell ==
  ASSUME NEW s \in Seq(Td), Len(s) = 1
  PROVE  \E t \in Td : s = <<t>>
<1>1. s[1] \in Td /\ s = <<s[1]>>
  OBVIOUS
<1> QED
  BY <1>1, Zenon

-----------------------------------------------------------------------------
(* The HC is through with the TD, the driver is not.                       *)
Out(t) == t \in Cells(doneq) \/ t \in Cells(hcca) \/ t \in Cells(work)

(* The TD has one owner: the free list, one ED, or one of the three lists  *)
(* between the HC and the end of ohci_intr_procdoneq.                      *)
Alone(t) ==
  /\ t \in freeTd \/ Out(t) \/ \E e \in Ept : t \in Cells(queue[e])
  /\ ~(t \in freeTd /\ Out(t))
  /\ ~(t \in Cells(doneq) /\ t \in Cells(hcca))
  /\ ~(t \in Cells(doneq) /\ t \in Cells(work))
  /\ ~(t \in Cells(hcca) /\ t \in Cells(work))
  /\ \A e \in Ept : t \in Cells(queue[e]) =>
       t \notin freeTd /\ ~Out(t) /\ \A f \in Ept : t \in Cells(queue[f]) => f = e

(* The ownership invariant.  The last two conjuncts make it inductive:     *)
(* hcca_donehead is only written once the driver has taken it, and the     *)
(* driver takes it only when it is through with what it took before; so    *)
(* neither list is overwritten while it holds a TD.                        *)
Owners ==
  /\ \A t \in Td : Alone(t)
  /\ Injective(doneq) /\ Injective(hcca) /\ Injective(work)
  /\ \A e \in Ept : Injective(queue[e])
  /\ wdh \/ hcca = <<>>
  /\ pc \in {"idle", "destroy", "skip", "detach"} => work = <<>>

(* What _ohci_allocxfer hands out comes from the free list, no TD twice.   *)
LEMMA AllotCells ==
  ASSUME NEW n \in Nat, freeTd \subseteq Td, Available(n)
  PROVE  Cells(Allot(n)) \subseteq freeTd /\ Injective(Allot(n))
<1>1. Allot(n) \in Allotments(n)
  BY DEF Available, Allot
<1> QED
  BY <1>1 DEF Allotments, Cells

(* The driver links free TDs on an ED: ohci_ept_create and ohci_xfer.      *)
LEMMA TakeOwners ==
  ASSUME TypeOK, Owners, NEW e \in Ept, NEW n \in Nat, Available(n),
         freeTd' = freeTd \ Cells(Allot(n)),
         queue' = [queue EXCEPT ![e] = queue[e] \o Allot(n)],
         UNCHANGED <<doneq, hcca, work, wdh, pc>>
  PROVE  Owners'
<1> DEFINE ts == Allot(n)
<1>1. ts \in Seq(Td) /\ Cells(ts) \subseteq freeTd /\ Injective(ts) /\ queue[e] \in Seq(Td)
  BY AllotFacts, AllotCells DEF TypeOK
<1>2. \A t : t \in Cells(queue[e]) => t \notin Cells(ts)
  BY <1>1, CellsIn DEF Owners, Alone
<1> HIDE DEF ts
<1>3. /\ Injective(queue'[e])
      /\ \A t : t \in Cells(queue'[e]) <=> t \in Cells(queue[e]) \/ t \in Cells(ts)
  <2>1. queue'[e] = queue[e] \o ts /\ Injective(queue[e])
    BY DEF TypeOK, ts, Owners
  <2>2. /\ \A t : t \in Cells(queue[e] \o ts) <=> t \in Cells(queue[e]) \/ t \in Cells(ts)
        /\ Injective(queue[e] \o ts)
    BY <1>1, <1>2, <2>1, JoinedCells
  <2> QED
    BY <2>1, <2>2
<1>4. \A f \in Ept : f # e => queue'[f] = queue[f]
  BY DEF TypeOK
<1>5. ASSUME NEW t \in Td PROVE Alone(t)'
  <2>1. Alone(t) /\ (t \in freeTd' <=> t \in freeTd /\ t \notin Cells(ts))
    BY DEF Owners, ts
  <2>2. Out(t)' <=> Out(t)
    BY DEF Out
  <2> QED
    BY <1>1, <1>3, <1>4, <2>1, <2>2 DEF Alone, Out
<1>6. \A f \in Ept : Injective(queue'[f])
  BY <1>3, <1>4 DEF Owners
<1> QED
  BY <1>5, <1>6 DEF Owners

(* The HC moves the head of an ED to its done queue.                       *)
LEMMA RetireOwners ==
  ASSUME TypeOK, Owners, NEW e \in Ept, NEW c \in Cond, HcRetire(e, c)
  PROVE  Owners'
<1> DEFINE t == Head(queue[e])
<1>1. /\ t \in Td /\ t \in Cells(queue[e]) /\ Tail(queue[e]) \in Seq(Td)
      /\ Injective(Tail(queue[e]))
      /\ \A u : u \in Cells(Tail(queue[e])) <=> u \in Cells(queue[e]) /\ u # t
  <2>1. queue[e] \in Seq(Td) /\ Len(queue[e]) > 0 /\ Injective(queue[e])
    BY DEF HcRetire, TypeOK, Owners
  <2> QED
    BY <2>1, TailCells
<1>2. /\ queue'[e] = Tail(queue[e]) /\ \A f \in Ept : f # e => queue'[f] = queue[f]
      /\ doneq' = <<t>> \o doneq
      /\ UNCHANGED <<freeTd, hcca, work, wdh, pc>>
  BY DEF HcRetire, TypeOK, drvVars
<1> HIDE DEF t
<1>3. Alone(t)
  BY <1>1 DEF Owners
<1>4. /\ Injective(doneq')
      /\ \A u : u \in Cells(doneq') <=> u = t \/ u \in Cells(doneq)
  <2>1. doneq \in Seq(Td) /\ t \notin Cells(doneq) /\ Injective(doneq)
    BY <1>1, <1>3 DEF Owners, Alone, Out, TypeOK
  <2>2. <<t>> \in Seq(Td) /\ Injective(<<t>>) /\ \A u : u \in Cells(<<t>>) <=> u = t
    BY <1>1, OneCell
  <2>3. /\ \A u : u \in Cells(<<t>> \o doneq) <=> u \in Cells(<<t>>) \/ u \in Cells(doneq)
        /\ Injective(<<t>> \o doneq)
    <3>1. \A u : u \in Cells(<<t>>) => u \notin Cells(doneq)
      BY <2>1, <2>2
    <3> DEFINE one == <<t>>
    <3>2. one \in Seq(Td) /\ Injective(one) /\ \A u : u \in Cells(one) => u \notin Cells(doneq)
      BY <2>2, <3>1
    <3> HIDE DEF one
    <3>3. /\ \A u : u \in Cells(one \o doneq) <=> u \in Cells(one) \/ u \in Cells(doneq)
          /\ Injective(one \o doneq)
      BY <2>1, <3>2, JoinedCells
    <3> QED
      BY <3>3 DEF one
  <2> QED
    BY <1>2, <2>2, <2>3
<1>5. ASSUME NEW u \in Td PROVE Alone(u)'
  <2>1. Alone(u)
    BY DEF Owners
  <2> QED
    BY <1>1, <1>2, <1>3, <1>4, <2>1 DEF Alone, Out
<1> QED
  BY <1>1, <1>2, <1>4, <1>5 DEF Owners

(* The done queue is handed over, and taken.                               *)
LEMMA HandOwners ==
  ASSUME TypeOK, Owners, HcFrame \/ Poll \/ LastPoll
  PROVE  Owners'
<1>1. UNCHANGED <<freeTd, queue>>
  BY DEF HcFrame, Poll, LastPoll
<1>2. \/ /\ hcca = <<>> /\ doneq' = <<>> /\ hcca' = doneq /\ wdh' = TRUE
         /\ UNCHANGED <<work, pc>>
      \/ UNCHANGED <<doneq, hcca, work>> /\ wdh' = wdh /\ pc' = pc
      \/ work = <<>> /\ work' = hcca /\ hcca' = <<>> /\ pc' = "proc" /\ doneq' = doneq
      \/ work = <<>> /\ UNCHANGED <<doneq, hcca, work>> /\ wdh' = wdh
  <2>1. CASE HcFrame
    BY <2>1 DEF HcFrame, Owners, TypeOK
  <2>2. CASE Poll \/ LastPoll
    BY <2>2 DEF Poll, Idle, LastPoll, TakeDoneHead, Owners
  <2> QED
    BY <2>1, <2>2
<1>3. ASSUME NEW u \in Td PROVE Alone(u)'
  <2>1. Alone(u)
    BY DEF Owners
  <2> QED
    BY <1>1, <1>2, <2>1, NoCells DEF Alone, Out
<1>4. Injective(doneq') /\ Injective(hcca') /\ Injective(work')
  BY <1>2, NoCells DEF Owners
<1>5. wdh' \/ hcca' = <<>>
  BY <1>2 DEF Owners
<1>6. pc' \in {"idle", "destroy", "skip", "detach"} => work' = <<>>
  BY <1>2 DEF Owners
<1> QED
  BY <1>1, <1>3, <1>4, <1>5, <1>6 DEF Owners

(* The TD ohci_intr_procdoneq is at, and the rest of its list.             *)
LEMMA WorkHead ==
  ASSUME TypeOK, Owners, NEW t \in Td, AtWork(t)
  PROVE  /\ t = Head(work) /\ t \in Cells(work) /\ Tail(work) \in Seq(Td) /\ Injective(Tail(work))
         /\ Len(Tail(work)) = Len(work) - 1
         /\ \A u : u \in Cells(Tail(work)) <=> u \in Cells(work) /\ u # t
<1>1. work \in Seq(Td) /\ Len(work) > 0 /\ Injective(work) /\ t = Head(work)
  BY DEF AtWork, TypeOK, Owners
<1> QED
  BY <1>1, TailCells

(* The driver is through with a TD of the list it took.                    *)
LEMMA ProcOwners ==
  ASSUME TypeOK, Owners, NEW t \in Td, AtWork(t), NextWork, FreeXfer(t), UNCHANGED queue
  PROVE  Owners'
<1>1. /\ t \in Cells(work) /\ Tail(work) \in Seq(Td) /\ Injective(Tail(work))
      /\ Len(Tail(work)) = Len(work) - 1 /\ Len(work) \in Nat
      /\ \A u : u \in Cells(Tail(work)) <=> u \in Cells(work) /\ u # t
  BY WorkHead DEF TypeOK
<1>2. /\ work' = Tail(work) /\ UNCHANGED <<doneq, hcca, wdh>> /\ freeTd' = freeTd \cup {t}
      /\ pc' # "proc" => work' = <<>>
  BY <1>1 DEF AtWork, NextWork, FreeXfer, hcVars
<1>3. ASSUME NEW u \in Td PROVE Alone(u)'
  <2>1. Alone(u) /\ Alone(t)
    BY DEF Owners
  <2> QED
    BY <1>1, <1>2, <2>1 DEF Alone, Out
<1> QED
  BY <1>1, <1>2, <1>3 DEF Owners

(* An interrupt callback takes one TD for the one that comes back.         *)
LEMMA RequeueOwners ==
  ASSUME TypeOK, Owners, NEW t \in Td, NEW e \in Ept, NEW r, AtWork(t), Requeue(r, e, t)
  PROVE  Owners'
<1> DEFINE n == CHOOSE x \in freeTd : TRUE
<1>1. /\ t \in Cells(work) /\ Tail(work) \in Seq(Td) /\ Injective(Tail(work))
      /\ Len(Tail(work)) = Len(work) - 1 /\ Len(work) \in Nat
      /\ \A u : u \in Cells(Tail(work)) <=> u \in Cells(work) /\ u # t
  BY WorkHead DEF TypeOK
<1>2. /\ n \in freeTd /\ n \in Td /\ queue' = [queue EXCEPT ![e] = Append(@, n)]
      /\ freeTd' = (freeTd \ {n}) \cup {t}
      /\ work' = Tail(work) /\ UNCHANGED <<doneq, hcca, wdh>>
      /\ pc' # "proc" => work' = <<>>
  BY <1>1 DEF Requeue, AtWork, NextWork, hcVars, TypeOK
<1> HIDE DEF n
<1>3. /\ Injective(queue'[e]) /\ \A f \in Ept : f # e => queue'[f] = queue[f]
      /\ \A u : u \in Cells(queue'[e]) <=> u \in Cells(queue[e]) \/ u = n
  <2>1. queue[e] \in Seq(Td) /\ n \notin Cells(queue[e]) /\ Injective(queue[e])
    BY <1>2 DEF Owners, Alone, TypeOK
  <2>2. queue'[e] = queue[e] \o <<n>> /\ \A f \in Ept : f # e => queue'[f] = queue[f]
    BY <1>2, <2>1 DEF TypeOK
  <2>3. <<n>> \in Seq(Td) /\ Injective(<<n>>) /\ \A u : u \in Cells(<<n>>) <=> u = n
    BY <1>2, OneCell
  <2>4. /\ \A u : u \in Cells(queue[e] \o <<n>>) <=> u \in Cells(queue[e]) \/ u \in Cells(<<n>>)
        /\ Injective(queue[e] \o <<n>>)
    <3> DEFINE one == <<n>>
    <3>1. one \in Seq(Td) /\ Injective(one) /\ \A u : u \in Cells(queue[e]) => u \notin Cells(one)
      BY <2>1, <2>3
    <3> HIDE DEF one
    <3>2. /\ \A u : u \in Cells(queue[e] \o one) <=> u \in Cells(queue[e]) \/ u \in Cells(one)
          /\ Injective(queue[e] \o one)
      BY <2>1, <3>1, JoinedCells
    <3> QED
      BY <3>2 DEF one
  <2> QED
    BY <2>2, <2>3, <2>4
<1>4. ASSUME NEW u \in Td PROVE Alone(u)'
  <2>1. Alone(u) /\ Alone(t) /\ Alone(n)
    BY <1>2 DEF Owners
  <2> QED
    BY <1>1, <1>2, <1>3, <2>1 DEF Alone, Out
<1> QED
  BY <1>1, <1>2, <1>3, <1>4 DEF Owners

(* ohci_ept_delete takes the head off an ED.                               *)
LEMMA DrainOwners ==
  ASSUME TypeOK, Owners, NEW e \in Ept, Len(queue[e]) > 0,
         queue' = [queue EXCEPT ![e] = Tail(@)], freeTd' = freeTd \cup {Head(queue[e])},
         pc = "skip", pc' \in {"skip", "destroy"}, UNCHANGED <<doneq, hcca, work, wdh>>
  PROVE  Owners'
<1> DEFINE t == Head(queue[e])
<1>1. /\ t \in Td /\ t \in Cells(queue[e]) /\ Tail(queue[e]) \in Seq(Td)
      /\ Injective(Tail(queue[e]))
      /\ \A u : u \in Cells(Tail(queue[e])) <=> u \in Cells(queue[e]) /\ u # t
  <2>1. queue[e] \in Seq(Td) /\ Injective(queue[e])
    BY DEF TypeOK, Owners
  <2> QED
    BY <2>1, TailCells
<1>2. /\ queue'[e] = Tail(queue[e]) /\ \A f \in Ept : f # e => queue'[f] = queue[f]
      /\ freeTd' = freeTd \cup {t}
  BY DEF TypeOK
<1> HIDE DEF t
<1>3. ASSUME NEW u \in Td PROVE Alone(u)'
  <2>1. Alone(u) /\ Alone(t)
    BY <1>1 DEF Owners
  <2> QED
    BY <1>1, <1>2, <2>1 DEF Alone, Out
<1> QED
  BY <1>1, <1>2, <1>3 DEF Owners

(* Nothing moves.                                                          *)
LEMMA SameOwners ==
  ASSUME Owners, UNCHANGED <<freeTd, queue, doneq, hcca, work, wdh>>,
         \/ pc' \in {"stale_pipe", "stale_dev"} \/ pc' = pc
         \/ pc \in {"idle", "destroy", "skip", "detach"}
  PROVE  Owners'
<1>1. ASSUME NEW u \in Td PROVE Alone(u)'
  BY DEF Owners, Alone, Out
<1>2. pc' \in {"idle", "destroy", "skip", "detach"} => work' = <<>>
  BY DEF Owners
<1> QED
  BY <1>1, <1>2 DEF Owners

-----------------------------------------------------------------------------
(* No ED is behind two pipes; one is free just when no TD is linked on it, *)
(* and just when no pipe has it.                                           *)
PipesApart ==
  /\ \A e \in Ept : e \in freeEpt <=> queue[e] = <<>>
  /\ \A e \in freeEpt, d \in Dev, p \in Pipe : pipes[d][p] # e
  /\ \A e \in Ept \ freeEpt : \E d \in Dev, p \in Pipe : pipes[d][p] = e
  /\ \A c, d \in Dev, p, q \in Pipe :
       pipes[c][p] = pipes[d][q] /\ pipes[c][p] # NoEpt => c = d /\ p = q

(* Pipes and free EDs stay, and so does which EDs are empty.               *)
LEMMA SamePipes ==
  ASSUME PipesApart, UNCHANGED <<pipes, freeEpt>>,
         \A e \in Ept : queue'[e] = <<>> <=> queue[e] = <<>>
  PROVE  PipesApart'
  BY DEF PipesApart

(* A pipe is opened, and closed.                                           *)
LEMMA OpenPipeApart ==
  ASSUME TypeOK, PipesApart, NEW d \in Dev, NEW p \in Pipe, CreatePipe(d, p)
  PROVE  PipesApart'
<1> DEFINE e == CHOOSE x \in freeEpt : TRUE
<1>1. /\ e \in freeEpt /\ e \in Ept /\ pipes[d][p] = NoEpt
      /\ pipes' = [pipes EXCEPT ![d][p] = e] /\ freeEpt' = freeEpt \ {e}
      /\ queue' = [queue EXCEPT ![e] = Allot(1)] /\ Allot(1) # <<>>
  <2>1. Allot(1) \in Seq(Td) /\ Len(Allot(1)) = 1
    <3>1. Available(1) /\ freeTd \subseteq Td
      BY DEF CreatePipe, TypeOK
    <3> QED
      BY <3>1, AllotFacts
  <2>2. Allot(1) # <<>>
    <3>1. Allot(1) = <<>> <=> Len(Allot(1)) = 0
      BY <2>1, LenZero, Zenon
    <3>2. 1 # 0
      OBVIOUS
    <3> QED
      BY <2>1, <3>1, <3>2, Zenon
  <2>3. e \in freeEpt /\ e \in Ept
    BY DEF CreatePipe, TypeOK
  <2> QED
    BY <2>2, <2>3 DEF CreatePipe
<1> HIDE DEF e
<1>2. \A c \in Dev, q \in Pipe : pipes'[c][q] = IF c = d /\ q = p THEN e ELSE pipes[c][q]
  BY <1>1 DEF TypeOK
<1>3. \A f \in Ept : f # e => queue'[f] = queue[f]
  BY <1>1 DEF TypeOK
<1>4. queue'[e] # <<>>
  BY <1>1 DEF TypeOK
<1>5. \A c, x \in Dev, q, y \in Pipe :
        pipes'[c][q] = pipes'[x][y] /\ pipes'[c][q] # NoEpt => c = x /\ q = y
  BY <1>1, <1>2 DEF PipesApart
<1>6. \A f \in freeEpt', c \in Dev, q \in Pipe : pipes'[c][q] # f
  BY <1>1, <1>2 DEF PipesApart
<1>7. \A f \in Ept \ freeEpt' : \E c \in Dev, q \in Pipe : pipes'[c][q] = f
  BY <1>1, <1>2, ConstAssumption DEF PipesApart
<1>8. \A f \in Ept : f \in freeEpt' <=> queue'[f] = <<>>
  BY <1>1, <1>3, <1>4 DEF PipesApart
<1> QED
  BY <1>5, <1>6, <1>7, <1>8 DEF PipesApart

LEMMA ClosePipeApart ==
  ASSUME TypeOK, PipesApart, rmdev \in Dev, Doomed \in Ept, FreeEpt
  PROVE  PipesApart'
<1> DEFINE e == Doomed
<1>1. /\ e \in Ept /\ idx \in Pipe /\ pipes[rmdev][idx] = e
      /\ pipes' = [pipes EXCEPT ![rmdev][idx] = NoEpt] /\ freeEpt' = freeEpt \cup {e}
      /\ queue' = [queue EXCEPT ![e] = <<>>]
  BY DEF FreeEpt, ReleaseEpt, Doomed, TypeOK
<1> HIDE DEF e
<1>2. \A c \in Dev, q \in Pipe : pipes'[c][q] = IF c = rmdev /\ q = idx THEN NoEpt ELSE pipes[c][q]
  BY <1>1 DEF TypeOK
<1>3. (\A f \in Ept : f # e => queue'[f] = queue[f]) /\ queue'[e] = <<>>
  BY <1>1 DEF TypeOK
<1>5. \A c, x \in Dev, q, y \in Pipe :
        pipes'[c][q] = pipes'[x][y] /\ pipes'[c][q] # NoEpt => c = x /\ q = y
  BY <1>1, <1>2 DEF PipesApart
<1>6. \A f \in freeEpt', c \in Dev, q \in Pipe : pipes'[c][q] # f
  BY <1>1, <1>2, ConstAssumption DEF PipesApart, TypeOK
<1>7. \A f \in Ept \ freeEpt' : \E c \in Dev, q \in Pipe : pipes'[c][q] = f
  BY <1>1, <1>2, ConstAssumption DEF PipesApart
<1>8. \A f \in Ept : f \in freeEpt' <=> queue'[f] = <<>>
  BY <1>1, <1>3 DEF PipesApart
<1> QED
  BY <1>5, <1>6, <1>7, <1>8 DEF PipesApart

(* PipesApart says what EptOwned says.                                     *)
LEMMA ApartMeansOwned == TypeOK /\ PipesApart => EptOwned
<1> SUFFICES ASSUME TypeOK, PipesApart, NEW e \in Ept
             PROVE  LET users == {u \in Dev \X Pipe : pipes[u[1]][u[2]] = e}
                    IN  IF e \in freeEpt THEN users = {} /\ queue[e] = <<>>
                        ELSE (\E u \in users : users = {u}) /\ queue[e] # <<>>
  BY DEF EptOwned
<1> DEFINE users == {u \in Dev \X Pipe : pipes[u[1]][u[2]] = e}
<1>1. CASE e \in freeEpt
  <2>1. users = {}
    BY <1>1 DEF PipesApart
  <2> QED
    BY <1>1, <2>1 DEF PipesApart
<1>2. CASE e \notin freeEpt
  <2>1. PICK d \in Dev, p \in Pipe : pipes[d][p] = e
    BY <1>2 DEF PipesApart
  <2>2. <<d, p>> \in users
    BY <2>1
  <2>3. ASSUME NEW u \in users PROVE u = <<d, p>>
    <3>1. u[1] \in Dev /\ u[2] \in Pipe /\ pipes[u[1]][u[2]] = e /\ u = <<u[1], u[2]>>
      OBVIOUS
    <3>2. u[1] = d /\ u[2] = p
      <4>1. \A c, x \in Dev, q, y \in Pipe :
              pipes[c][q] = pipes[x][y] /\ pipes[c][q] # NoEpt => c = x /\ q = y
        BY DEF PipesApart
      <4>2. e # NoEpt
        BY ConstAssumption
      <4> QED
        BY <2>1, <3>1, <4>1, <4>2
    <3> QED
      BY <3>1, <3>2
  <2>4. users = {<<d, p>>}
    BY <2>2, <2>3
  <2> QED
    BY <1>2, <2>2, <2>4 DEF PipesApart
<1> QED
  BY <1>1, <1>2

-----------------------------------------------------------------------------
(* The TD the tail pointer of an ED points to, and the TDs of a request.   *)
Dummy(s) == s[Len(s)]
Refs(r) == {t \in Td : ref[t] = r}

(* What a TD linked on ED e refers to: nothing if it is the dummy, else a  *)
(* request on the very pipe that e is behind.                              *)
Behind(e, t) ==
  IF t = Dummy(queue[e]) THEN ref[t] = NoReq
  ELSE ref[t] \in Req /\ req[ref[t]].dev \in Dev /\ EptOf(ref[t]) = e

(* What the TDs refer to, by owner: a free one and the dummy of an ED to   *)
(* nothing, one on its way through the done queue to a request.            *)
References ==
  /\ \A t \in freeTd : ref[t] = NoReq
  /\ \A t \in Td : Out(t) => ref[t] \in Req
  /\ \A e \in Ept : \A t \in Cells(queue[e]) : Behind(e, t)

(* TdCountExact, with a name for the TDs of a request.                     *)
Counts ==
  \A r \in Req : /\ req[r].tdcount = Cardinality(Refs(r))
                 /\ req[r].st = "busy" <=> req[r].tdcount > 0

(* What holds of the engine while no TD has been put back on an ED.        *)
(* Ownership alone is inductive; the counts need to know what each TD      *)
(* refers to, and that needs the ownership of TDs and EDs.                 *)
EngineInv == IInv /\ Owners /\ PipesApart /\ References /\ Counts

(* TDs change owners, and no TD what it refers to.                         *)
LEMMA SameReferences ==
  ASSUME TypeOK, References, UNCHANGED <<ref, req>>,
         \A t \in freeTd' : t \in freeTd \/ (t \in Td /\ ref[t] = NoReq),
         \A t \in Td : Out(t)' => Out(t) \/ ref[t] \in Req,
         \A e \in Ept : \A t \in Cells(queue'[e]) :
             \/ ref[t] = NoReq /\ t = Dummy(queue'[e])
             \/ t \in Cells(queue[e]) /\ Dummy(queue'[e]) = Dummy(queue[e]),
         \A d \in Dev, p \in Pipe :
             \/ pipes'[d][p] = pipes[d][p] \/ pipes[d][p] = NoEpt
             \/ pipes[d][p] \in Ept /\ queue'[pipes[d][p]] = <<>>
  PROVE  References'
<1>1. \A t \in freeTd' : ref'[t] = NoReq
  BY DEF References
<1>2. \A t \in Td : Out(t)' => ref'[t] \in Req
  BY DEF References
<1>3. ASSUME NEW e \in Ept, NEW t \in Cells(queue'[e]) PROVE Behind(e, t)'
  <2>1. CASE ref[t] = NoReq /\ t = Dummy(queue'[e])
    BY <2>1 DEF Behind, Dummy
  <2>2. CASE t \in Cells(queue[e]) /\ Dummy(queue'[e]) = Dummy(queue[e])
    <3>1. Behind(e, t) /\ queue'[e] # <<>>
      BY <2>2, NoCells DEF References
    <3>2. CASE t = Dummy(queue[e])
      BY <2>2, <3>1, <3>2 DEF Behind, Dummy
    <3>3. CASE t # Dummy(queue[e])
      <4>1. ref[t] \in Req /\ req[ref[t]].dev \in Dev /\ req[ref[t]].pipe \in Pipe
            /\ pipes[req[ref[t]].dev][req[ref[t]].pipe] = e /\ e # NoEpt
        BY <3>1, <3>3, ConstAssumption DEF Behind, EptOf, TypeOK
      <4>2. pipes'[req[ref[t]].dev][req[ref[t]].pipe] = e
        BY <3>1, <4>1
      <4> QED
        BY <2>2, <3>3, <4>1, <4>2 DEF Behind, Dummy, EptOf
    <3> QED
      BY <3>2, <3>3
  <2> QED
    BY <2>1, <2>2
<1> QED
  BY <1>1, <1>2, <1>3 DEF References

(* No reference, count or state of a request changes.                      *)
LEMMA SameCounts ==
  ASSUME Counts, ref' = ref, \A r \in Req : req'[r].tdcount = req[r].tdcount
                                    /\ (req'[r].st = "busy" <=> req[r].st = "busy")
  PROVE  Counts'
  BY DEF Counts, Refs

(* No TD refers to a request that is not in progress.                      *)
LEMMA NotBusy ==
  ASSUME TypeOK, Counts, NEW r \in Req, req[r].st # "busy"
  PROVE  \A t \in Td : ref[t] # r
<1>1. req[r].tdcount = 0 /\ Cardinality(Refs(r)) = 0
  BY DEF Counts, TypeOK
<1>2. IsFiniteSet(Refs(r))
  BY ConstAssumption, FS_Subset DEF Refs
<1>3. Refs(r) = {}
  BY <1>1, <1>2, FS_EmptySet
<1> QED
  BY <1>3 DEF Refs

(* A TD that refers to a request is one of those it counts, and the only   *)
(* one when the count is one.                                              *)
LEMMA Counted ==
  ASSUME TypeOK, Counts, NEW t \in Td, ref[t] \in Req
  PROVE  LET r == ref[t] IN
         /\ req[r].tdcount \in Nat \ {0} /\ req[r].st = "busy"
         /\ IsFiniteSet(Refs(r)) /\ t \in Refs(r)
         /\ req[r].tdcount = 1 => Refs(r) = {t}
         /\ req[r].tdcount > 1 => \E u \in Td : ref[u] = r /\ u # t
<1> DEFINE r == ref[t]
<1>1. IsFiniteSet(Refs(r)) /\ t \in Refs(r)
  BY ConstAssumption, FS_Subset DEF Refs
<1>2. req[r].tdcount = Cardinality(Refs(r)) /\ req[r].tdcount \in Nat
      /\ (req[r].st = "busy" <=> req[r].tdcount > 0)
  BY DEF Counts, TypeOK
<1>3. req[r].tdcount # 0
  BY <1>1, <1>2, FS_EmptySet
<1>4. req[r].tdcount = 1 => Refs(r) = {t}
  <2> SUFFICES ASSUME Cardinality(Refs(r)) = 1 PROVE Refs(r) = {t}
    BY <1>2
  <2>1. PICK x : Refs(r) = {x}
    BY <1>1, FS_Singleton
  <2> QED
    BY <1>1, <2>1
<1>5. ASSUME req[r].tdcount > 1, \A u \in Td : ref[u] = r => u = t PROVE FALSE
  <2>1. Refs(r) = {t}
    BY <1>1, <1>5 DEF Refs
  <2>2. Cardinality(Refs(r)) = 1
    BY <2>1, FS_Singleton
  <2> QED
    BY <1>2, <1>5, <2>2
<1> QED
  BY <1>1, <1>2, <1>3, <1>4, <1>5

(* The driver is through with a TD, frees it and counts its request down.  *)
Through(t) ==
  LET r == ref[t]
  IN  /\ r \in Req
      /\ FreeXfer(t)
      /\ req'[r].tdcount = req[r].tdcount - 1
      /\ req'[r].st = "busy" <=> req[r].tdcount > 1
      /\ req[r].tdcount > 1 => req'[r].dev = req[r].dev /\ req'[r].pipe = req[r].pipe
      /\ \A x \in Req : x # r => req'[x] = req[x]
      /\ UNCHANGED pipes

(* Such a step keeps references and counts right.                          *)
LEMMA ThroughReferences ==
  ASSUME TypeOK, References, Counts, Owners', NEW t \in Td, Through(t),
         \A u \in Td : Out(u)' => Out(u),
         \A e \in Ept, u \in Td : u \in Cells(queue'[e]) =>
             u \in Cells(queue[e]) /\ Dummy(queue'[e]) = Dummy(queue[e]),
         TypeOK'
  PROVE  References' /\ Counts'
<1>0. PICK r \in Req : r = ref[t]
  BY DEF Through
<1>1. /\ r \in Req /\ freeTd' = freeTd \cup {t} /\ ref'[t] = NoReq /\ NoReq \notin Req
      /\ \A u \in Td : u # t => ref'[u] = ref[u]
      /\ req[r].tdcount \in Nat
  BY <1>0, ConstAssumption DEF Through, FreeXfer, TypeOK
<1>2. \A u \in Td : u = t => ~Out(u)' /\ \A e \in Ept : u \notin Cells(queue'[e])
  BY <1>1 DEF Owners, Alone, Out
<1>3. \A u \in Td : ref'[u] = r => req[r].tdcount > 1
  <2> SUFFICES ASSUME NEW u \in Td, ref'[u] = r PROVE req[r].tdcount > 1
    OBVIOUS
  <2>1. u # t /\ ref[u] = r
    BY <1>1
  <2>2. Refs(r) # {t}
    BY <2>1 DEF Refs
  <2> QED
    BY <1>0, <1>1, <2>2, Counted
<1>4. ASSUME NEW u \in Td, ref'[u] \in Req
      PROVE  /\ ref[u] = ref'[u] /\ req'[ref[u]].dev = req[ref[u]].dev
             /\ req'[ref[u]].pipe = req[ref[u]].pipe
  <2>1. u # t /\ ref[u] = ref'[u]
    BY <1>1, <1>4
  <2>2. CASE ref[u] = r
    BY <1>0, <1>3, <2>1, <2>2 DEF Through
  <2>3. CASE ref[u] # r
    BY <1>0, <1>4, <2>1, <2>3 DEF Through
  <2> QED
    BY <2>1, <2>2, <2>3
<1>5. ASSUME NEW e \in Ept, NEW u \in Cells(queue'[e]) PROVE Behind(e, u)'
  <2>1. u \in Td
    BY CellsIn DEF TypeOK
  <2>2. u # t /\ Behind(e, u) /\ Dummy(queue'[e]) = Dummy(queue[e])
    BY <1>2, <2>1 DEF References
  <2>3. CASE u = Dummy(queue[e])
    BY <1>1, <2>1, <2>2, <2>3 DEF Behind, Dummy
  <2>4. CASE u # Dummy(queue[e])
    <3>1. ref[u] \in Req /\ req[ref[u]].dev \in Dev /\ EptOf(ref[u]) = e /\ ref'[u] = ref[u]
      BY <1>1, <2>1, <2>2, <2>4 DEF Behind
    <3>2. /\ req'[ref[u]].dev = req[ref[u]].dev /\ req'[ref[u]].pipe = req[ref[u]].pipe
      BY <1>4, <2>1, <3>1
    <3> QED
      BY <2>2, <2>4, <3>1, <3>2 DEF Behind, EptOf, Dummy, Through
  <2> QED
    BY <2>3, <2>4
<1>6. (\A u \in freeTd' : ref'[u] = NoReq) /\ \A u \in Td : Out(u)' => ref'[u] \in Req
  BY <1>1, <1>2 DEF References, TypeOK
<1>7. References'
  BY <1>5, <1>6 DEF References
<1>8. Refs(r)' = Refs(r) \ {t} /\ \A x \in Req : x # r => Refs(x)' = Refs(x)
  <2>1. Refs(r)' = Refs(r) \ {t}
    <3>1. \A u \in Td : ref'[u] = r <=> ref[u] = r /\ u # t
      BY <1>1
    <3> QED
      BY <3>1 DEF Refs
  <2>2. ASSUME NEW x \in Req, x # r PROVE Refs(x)' = Refs(x)
    <3>1. \A u \in Td : ref'[u] = x <=> ref[u] = x
      BY <1>0, <1>1, <2>2
    <3> QED
      BY <3>1 DEF Refs
  <2> QED
    BY <2>1, <2>2
<1>9. ASSUME NEW x \in Req
      PROVE  req'[x].tdcount = Cardinality(Refs(x)') /\ (req'[x].st = "busy" <=> req'[x].tdcount > 0)
  <2>1. CASE x = r
    <3>1. IsFiniteSet(Refs(r)) /\ t \in Refs(r) /\ req[r].tdcount \in Nat \ {0}
      BY <1>0, <1>1, Counted
    <3>2. Cardinality(Refs(r) \ {t}) = Cardinality(Refs(r)) - 1
      BY <3>1, FS_RemoveElement
    <3>3. req[r].tdcount = Cardinality(Refs(r))
      BY <1>1 DEF Counts
    <3>4. req'[r].tdcount = req[r].tdcount - 1 /\ (req'[r].st = "busy" <=> req[r].tdcount > 1)
      BY <1>0 DEF Through
    <3>5. Cardinality(Refs(r)') = Cardinality(Refs(r)) - 1
      BY <1>8, <3>2
    <3> QED
      BY <2>1, <3>1, <3>3, <3>4, <3>5
  <2>2. CASE x # r
    BY <1>0, <1>8, <2>2 DEF Counts, Through
  <2> QED
    BY <2>1, <2>2
<1> QED
  BY <1>7, <1>9 DEF Counts

(* The TDs ohci_xfer marks with the request: the old dummy and all the new *)
(* ones but the last.  There are as many of them as new TDs.               *)
LEMMA PiecesCount ==
  ASSUME NEW q \in Seq(Td), NEW ts \in Seq(Td), Len(q) > 0, Injective(q \o ts)
  PROVE  LET new == q \o ts
             pieces == {new[i] : i \in Len(q)..(Len(new) - 1)}
         IN  /\ IsFiniteSet(pieces) /\ Cardinality(pieces) = Len(ts) /\ pieces \subseteq Td
             /\ Len(ts) > 0 =>
                  \A t : t \in pieces <=>
                    t = Dummy(q) \/ (t \in Cells(ts) /\ t # Dummy(new))
<1> DEFINE new == q \o ts
           k == Len(q)
           n == Len(ts)
           pieces == {new[i] : i \in k..(Len(new) - 1)}
<1>1. /\ k \in Nat /\ n \in Nat /\ k > 0 /\ new \in Seq(Td) /\ Len(new) = k + n
      /\ \A i \in 1..k : new[i] = q[i]
      /\ \A i \in 1..n : new[k + i] = ts[i]
      /\ DOMAIN ts = 1..n /\ DOMAIN new = 1..(k + n)
      /\ Dummy(q) = q[k] /\ Dummy(new) = new[k + n]
  BY JoinCells DEF Dummy
<1>0. k \in Nat /\ n \in Nat /\ k > 0
  BY <1>1
<1>2. \A i, j \in 1..(k + n) : new[i] = new[j] => i = j
  BY <1>1 DEF Injective
<1>3. \A i \in 1..(k + n) : new[i] \in Td
  BY <1>1
<1>4. \A t : t \in Cells(ts) <=> \E i \in 1..n : t = ts[i]
  BY <1>1 DEF Cells
<1>5. pieces = {new[i] : i \in k..(k + n - 1)}
  BY <1>1
<1> HIDE DEF new, k, n, pieces
<1>6. pieces \subseteq Td
  BY <1>1, <1>3, <1>5
<1>7. IsFiniteSet(pieces) /\ Cardinality(pieces) = n
  <2> DEFINE f == [i \in k..(k + n - 1) |-> new[i]]
  <2>1. f \in Bijection(k..(k + n - 1), pieces)
    <3>1. f \in [k..(k + n - 1) -> pieces]
      BY <1>5
    <3>2. \A a, b \in k..(k + n - 1) : f[a] = f[b] => a = b
      BY <1>1, <1>2
    <3>3. \A t \in pieces : \E a \in k..(k + n - 1) : f[a] = t
      BY <1>5
    <3> QED
      BY <3>1, <3>2, <3>3 DEF Bijection, Injection, Surjection, IsInjective
  <2>2. IsFiniteSet(k..(k + n - 1)) /\ Cardinality(k..(k + n - 1)) = n
    <3>1. k \in Int /\ k + n - 1 \in Int /\ (IF k > k + n - 1 THEN 0 ELSE (k + n - 1) - k + 1) = n
      BY <1>1
    <3> QED
      BY <3>1, FS_Interval
  <2>3. ExistsBijection(k..(k + n - 1), pieces)
    BY <2>1 DEF ExistsBijection
  <2> QED
    BY <2>2, <2>3, FS_Bijection
<1>8. ASSUME n > 0, NEW t
      PROVE  t \in pieces <=> t = Dummy(q) \/ (t \in Cells(ts) /\ t # Dummy(new))
  <2>1. ASSUME t \in pieces PROVE t = Dummy(q) \/ (t \in Cells(ts) /\ t # Dummy(new))
    <3>1. PICK i \in k..(k + n - 1) : t = new[i]
      BY <1>5, <2>1
    <3>2. CASE i = k
      BY <1>1, <3>1, <3>2
    <3>3. CASE i # k
      <4>1. i - k \in 1..n /\ k + (i - k) = i
        BY <1>1, <3>1, <3>3
      <4>2. t = ts[i - k]
        BY <1>1, <3>1, <4>1
      <4>3. t # Dummy(new)
        BY <1>1, <1>2, <3>1
      <4> QED
        BY <1>4, <4>1, <4>2, <4>3
    <3> QED
      BY <3>2, <3>3
  <2>2. ASSUME t = Dummy(q) PROVE t \in pieces
    <3>1. t = new[k] /\ k \in k..(k + n - 1)
      BY <1>1, <1>8, <2>2
    <3> QED
      BY <1>5, <3>1
  <2>3. ASSUME t \in Cells(ts), t # Dummy(new) PROVE t \in pieces
    <3>1. PICK i \in 1..n : t = ts[i]
      BY <1>4, <2>3
    <3>2. t = new[k + i] /\ i # n
      BY <1>1, <2>3, <3>1
    <3>3. k + i \in k..(k + n - 1)
      BY <1>0, <3>1, <3>2
    <3> QED
      BY <1>5, <3>2, <3>3
  <2> QED
    BY <2>1, <2>2, <2>3
<1>9. /\ IsFiniteSet(pieces) /\ Cardinality(pieces) = n /\ pieces \subseteq Td
      /\ n > 0 =>
           \A t : t \in pieces <=>
             t = Dummy(q) \/ (t \in Cells(ts) /\ t # Dummy(new))
  BY <1>6, <1>7, <1>8, Zenon
<1> QED
  BY <1>9, Zenon DEF new, k, n, pieces

-----------------------------------------------------------------------------
(* One lemma per group of actions, for the whole invariant: queueing a     *)
(* request.                                                                *)
LEMMA SubmitEngine ==
  ASSUME EngineInv, IInv', NEW d \in Dev, NEW p \in Pipe, NEW r \in Req,
         NEW n \in 1..MaxTds, Submit(d, p, r, n)
  PROVE  EngineInv'
<1>0. TypeOK /\ TypeOK' /\ Owners /\ PipesApart /\ References /\ Counts
  BY DEF EngineInv, IInv
<1>1. PICK e \in Ept : e = pipes[d][p] /\ e # NoEpt
  BY <1>0, ConstAssumption DEF Submit, TypeOK
<1>2. PICK ts \in Seq(Td) : ts = Allot(n) /\ Len(ts) = n /\ n \in Nat /\ n > 0
                             /\ Cells(ts) \subseteq freeTd
  <2>1. n \in Nat /\ n > 0 /\ Available(n) /\ freeTd \subseteq Td
    <3>1. n \in Nat /\ n > 0
      BY ConstAssumption
    <3> QED
      BY <1>0, <3>1 DEF Submit, TypeOK
  <2>2. Allot(n) \in Seq(Td) /\ Len(Allot(n)) = n
    BY <2>1, AllotFacts
  <2>3. Cells(Allot(n)) \subseteq freeTd
    BY <2>1, AllotCells
  <2> QED
    BY <2>1, <2>2, <2>3, Zenon
<1>3. /\ queue' = [queue EXCEPT ![e] = queue[e] \o ts] /\ freeTd' = freeTd \ Cells(ts)
      /\ queue[e] \in Seq(Td) /\ queue' \in [Ept -> Seq(Td)]
      /\ queue'[e] = queue[e] \o ts /\ \A f \in Ept : f # e => queue'[f] = queue[f]
      /\ UNCHANGED <<pipes, freeEpt, doneq, hcca, work, wdh, pc>>
      /\ req[r].st = "free" /\ Available(n)
      /\ req' = [req EXCEPT ![r] = [st |-> "busy", dev |-> d, pipe |-> p,
                                tdcount |-> n, status |-> "noerr"]]
  BY <1>0, <1>1, <1>2 DEF Submit, Xfer, TypeOK, poolVars, hcVars, drvVars
<1>4. Owners'
  BY <1>0, <1>2, <1>3, TakeOwners
<1>5. PICK q \in Seq(Td) : q = queue[e] /\ Len(q) > 0 /\ Injective(q \o ts)
  <2>1. queue[e] # <<>>
    BY <1>0, <1>1 DEF PipesApart
  <2>2. Len(queue[e]) \in Nat /\ Len(queue[e]) # 0
    BY <1>3, <2>1, LenZero
  <2>3. Injective(queue[e] \o ts)
    BY <1>3, <1>4 DEF Owners
  <2> QED
    BY <1>3, <2>2, <2>3
<1>6. PICK pieces \in SUBSET Td :
        /\ IsFiniteSet(pieces) /\ Cardinality(pieces) = n
        /\ \A t : t \in pieces <=>
             t = Dummy(q) \/ (t \in Cells(ts) /\ t # Dummy(queue'[e]))
        /\ ref' = [t \in Td |-> IF t \in pieces THEN r ELSE ref[t]]
  <2> DEFINE new == q \o ts
             ps == {new[i] : i \in Len(q)..(Len(new) - 1)}
  <2>1. /\ IsFiniteSet(ps) /\ Cardinality(ps) = n /\ ps \in SUBSET Td
        /\ \A t : t \in ps <=> t = Dummy(q) \/ (t \in Cells(ts) /\ t # Dummy(new))
    <3>1. /\ IsFiniteSet(ps) /\ Cardinality(ps) = Len(ts) /\ ps \subseteq Td
          /\ Len(ts) > 0 =>
               \A t : t \in ps <=> t = Dummy(q) \/ (t \in Cells(ts) /\ t # Dummy(new))
      BY <1>5, PiecesCount
    <3>2. Len(ts) = n /\ Len(ts) > 0
      BY <1>2
    <3> HIDE DEF ps, new
    <3> QED
      BY <3>1, <3>2
  <2>2. ref' = [t \in Td |-> IF t \in ps THEN r ELSE ref[t]]
    BY <1>1, <1>2, <1>5 DEF Submit, Xfer
  <2>3. queue'[e] = new
    BY <1>3, <1>5
  <2> HIDE DEF ps, new
  <2> QED
    BY <2>1, <2>2, <2>3
<1>7. /\ queue'[e] # <<>> /\ Dummy(queue'[e]) \in Cells(ts)
      /\ \A t : t \in Cells(queue'[e]) <=> t \in Cells(q) \/ t \in Cells(ts)
  <2>1. /\ Len(q \o ts) = Len(q) + n /\ (q \o ts)[Len(q) + n] = ts[n]
        /\ q \o ts \in Seq(Td) /\ n \in DOMAIN ts
        /\ \A t : t \in Cells(q \o ts) <=> t \in Cells(q) \/ t \in Cells(ts)
    <3>1. n \in 1 .. Len(ts) /\ n \in DOMAIN ts
      BY <1>2
    <3>2. /\ q \o ts \in Seq(Td) /\ Len(q \o ts) = Len(q) + Len(ts)
          /\ \A i \in 1 .. Len(ts) : (q \o ts)[Len(q) + i] = ts[i]
          /\ \A t : t \in Cells(q \o ts) <=> t \in Cells(q) \/ t \in Cells(ts)
      BY JoinCells, Zenon
    <3> QED
      BY <1>2, <3>1, <3>2, Zenon
  <2>2. Dummy(q \o ts) = ts[n] /\ ts[n] \in Cells(ts)
    BY <2>1 DEF Dummy, Cells
  <2>3. q \o ts # <<>>
    <3>1. Len(q \o ts) # 0
      BY <1>2, <1>5, <2>1
    <3> QED
      BY <2>1, <3>1, LenZero
  <2> QED
    BY <1>3, <1>5, <2>1, <2>2, <2>3
<1>8. PipesApart'
  <2>1. \A f \in Ept : queue'[f] = <<>> <=> queue[f] = <<>>
    BY <1>3, <1>7, <1>0, <1>1 DEF PipesApart
  <2> QED
    BY <1>0, <1>3, <2>1, SamePipes
<1>9. Dummy(q) \in Cells(q) /\ \A t \in pieces : ref[t] = NoReq /\ ref'[t] = r /\ t \in Td
  <2>1. Dummy(q) \in Cells(q)
    BY <1>5 DEF Dummy, Cells
  <2>2. ref[Dummy(q)] = NoReq
    BY <1>0, <1>5, <2>1 DEF References, Behind
  <2>3. \A t \in Cells(ts) : ref[t] = NoReq
    BY <1>0, <1>2 DEF References
  <2> QED
    BY <1>6, <2>1, <2>2, <2>3
<1>10. \A t \in Td : ref[t] # r
  BY <1>0, <1>3, NotBusy
<1>11. References'
  <2>1. ASSUME NEW t \in freeTd' PROVE ref'[t] = NoReq
    <3>1. t \in freeTd /\ t \notin Cells(ts) /\ t \in Td
      BY <1>0, <1>3 DEF TypeOK
    <3>2. t # Dummy(q)
      BY <1>0, <1>5, <1>9, <3>1 DEF Owners, Alone
    <3> QED
      BY <1>0, <1>6, <3>1, <3>2 DEF References
  <2>2. ASSUME NEW t \in Td, Out(t)' PROVE ref'[t] \in Req
    <3>1. Out(t)
      BY <1>3, <2>2 DEF Out
    <3> QED
      BY <1>0, <1>6, <3>1 DEF References
  <2>3. ASSUME NEW f \in Ept, NEW t \in Cells(queue'[f]), f # e PROVE Behind(f, t)'
    <3>1. t \in Cells(queue[f]) /\ queue'[f] = queue[f] /\ t \in Td
      BY <1>0, <1>3, <2>3, CellsIn DEF TypeOK
    <3>2. t \notin pieces /\ Behind(f, t)
      BY <1>0, <1>2, <1>5, <1>6, <1>9, <2>3, <3>1 DEF Owners, Alone, References
    <3>3. ref'[t] = ref[t]
      BY <1>6, <3>1, <3>2
    <3>4. ref[t] \in Req => req'[ref[t]] = req[ref[t]]
      BY <1>3, <1>10, <3>1
    <3> QED
      BY <1>3, <3>1, <3>2, <3>3, <3>4 DEF Behind, EptOf, Dummy
  <2>4. ASSUME NEW t \in Cells(queue'[e]) PROVE Behind(e, t)'
    <3>0. t \in Td
      BY <1>0, <1>3, CellsIn
    <3>1. CASE t \in pieces
      <4>1. t # Dummy(queue'[e])
        BY <1>0, <1>2, <1>5, <1>6, <1>7, <1>9, <3>1 DEF Owners, Alone
      <4>2. ref'[t] = r /\ req'[r].dev = d /\ req'[r].pipe = p
        BY <1>0, <1>3, <1>9, <3>1 DEF TypeOK
      <4>3. pipes'[d][p] = e /\ r \in Req /\ d \in Dev
        BY <1>1, <1>3
      <4> QED
        BY <4>1, <4>2, <4>3, Zenon DEF Behind, EptOf, Dummy
    <3>2. CASE t = Dummy(queue'[e])
      <4>1. ref'[t] = NoReq
        BY <1>0, <1>2, <1>5, <1>6, <1>7, <1>9, <3>2, <3>0
           DEF Owners, Alone, References
      <4> QED
        BY <3>2, <4>1 DEF Behind, Dummy
    <3>3. CASE t \notin pieces /\ t # Dummy(queue'[e])
      <4>1. t \in Cells(queue[e]) /\ t # Dummy(queue[e])
        BY <1>5, <1>6, <1>7, <3>3
      <4>2. Behind(e, t) /\ ref'[t] = ref[t]
        BY <1>0, <1>6, <3>0, <3>3, <4>1 DEF References
      <4>3. ref[t] \in Req /\ req'[ref[t]] = req[ref[t]]
        BY <1>3, <1>10, <3>0, <4>1, <4>2 DEF Behind
      <4> QED
        BY <1>3, <3>3, <4>1, <4>2, <4>3 DEF Behind, EptOf, Dummy
    <3> QED
      BY <3>1, <3>2, <3>3
  <2> QED
    BY <2>1, <2>2, <2>3, <2>4 DEF References
<1>12. ASSUME NEW x \in Req
       PROVE  req'[x].tdcount = Cardinality(Refs(x)') /\ (req'[x].st = "busy" <=> req'[x].tdcount > 0)
  <2>1. CASE x = r
    <3>1. \A t \in Td : ref'[t] = r <=> t \in pieces
      BY <1>6, <1>10
    <3>2. Refs(r)' = pieces
      BY <3>1 DEF Refs
    <3>3. req'[r].tdcount = n /\ req'[r].st = "busy"
      BY <1>0, <1>3 DEF TypeOK
    <3> QED
      BY <1>2, <1>6, <2>1, <3>2, <3>3
  <2>2. CASE x # r
    <3>1. \A t \in Td : ref'[t] = x <=> ref[t] = x
      BY <1>6, <1>9, <2>2, ConstAssumption
    <3>2. Refs(x)' = Refs(x)
      BY <3>1 DEF Refs
    <3> QED
      BY <1>0, <1>3, <2>2, <3>2 DEF Counts
  <2> QED
    BY <2>1, <2>2
<1> QED
  BY <1>4, <1>8, <1>11, <1>12 DEF EngineInv, Counts

(* The first TD of a list of two or more is not its dummy, and the rest of *)
(* the list has the same dummy.                                            *)
LEMMA TailDummy ==
  ASSUME NEW s \in Seq(Td), Len(s) > 1, Injective(s)
  PROVE  /\ Head(s) # Dummy(s) /\ Dummy(Tail(s)) = Dummy(s)
         /\ s # <<>> /\ Tail(s) # <<>>
<1>1. /\ Head(s) = s[1] /\ Tail(s) \in Seq(Td) /\ Len(Tail(s)) = Len(s) - 1
      /\ \A i \in 1 .. Len(Tail(s)) : Tail(s)[i] = s[i + 1]
      /\ Len(s) \in Nat /\ DOMAIN s = 1 .. Len(s)
  <2>1. Len(s) \in Nat /\ Len(s) > 0 /\ DOMAIN s = 1 .. Len(s)
    OBVIOUS
  <2> QED
    BY <2>1, TailCells
<1>2. s[1] # s[Len(s)]
  BY <1>1 DEF Injective
<1>3. Tail(s)[Len(Tail(s))] = s[Len(s)]
  <2>1. Len(Tail(s)) \in 1 .. Len(Tail(s)) /\ Len(Tail(s)) + 1 = Len(s)
    BY <1>1
  <2> QED
    BY <1>1, <2>1
<1>4. Len(s) # 0 /\ Len(Tail(s)) # 0
  <2>1. \A k \in Nat : k > 1 => k # 0 /\ k - 1 # 0
    OBVIOUS
  <2> QED
    BY <1>1, <2>1, Zenon
<1> QED
  BY <1>1, <1>2, <1>3, <1>4, LenZero, Zenon DEF Dummy

(* The HC retires a TD: it was not the dummy, so it refers to a request.   *)
LEMMA RetireEngine ==
  ASSUME EngineInv, IInv', NEW e \in Ept, NEW c \in Cond, HcRetire(e, c)
  PROVE  EngineInv'
<1>0. TypeOK /\ TypeOK' /\ Owners /\ PipesApart /\ References /\ Counts
  BY DEF EngineInv, IInv
<1>1. Owners'
  BY <1>0, RetireOwners
<1>2. PICK t \in Td : /\ t = Head(queue[e]) /\ t \in Cells(queue[e]) /\ t # Dummy(queue[e])
                      /\ Dummy(Tail(queue[e])) = Dummy(queue[e])
                      /\ queue[e] # <<>> /\ Tail(queue[e]) # <<>>
                      /\ \A u : u \in Cells(Tail(queue[e])) <=> u \in Cells(queue[e]) /\ u # t
  <2>1. queue[e] \in Seq(Td) /\ Len(queue[e]) > 1 /\ Len(queue[e]) > 0 /\ Injective(queue[e])
    BY <1>0 DEF HcRetire, TypeOK, Owners
  <2> QED
    BY <2>1, TailDummy, TailCells
<1>3. /\ queue'[e] = Tail(queue[e]) /\ \A f \in Ept : f # e => queue'[f] = queue[f]
      /\ doneq' = <<t>> \o doneq
      /\ UNCHANGED <<freeTd, pipes, freeEpt, hcca, work, ref, req>>
  BY <1>0, <1>2 DEF HcRetire, TypeOK, drvVars, poolVars
<1>4. PipesApart'
  <2>1. \A f \in Ept : queue'[f] = <<>> <=> queue[f] = <<>>
    BY <1>2, <1>3
  <2> QED
    BY <1>0, <1>3, <2>1, SamePipes
<1>5. ref[t] \in Req
  BY <1>0, <1>2 DEF References, Behind
<1>6. \A u \in Td : Out(u)' => Out(u) \/ ref[u] \in Req
  <2>1. <<t>> \in Seq(Td) /\ doneq \in Seq(Td)
    BY <1>0 DEF TypeOK
  <2>2. \A u : u \in Cells(doneq') <=> u \in Cells(<<t>>) \/ u \in Cells(doneq)
    BY <1>3, <2>1, JoinCells, Zenon
  <2>3. Cells(<<t>>) = {t}
    BY OneCell
  <2> QED
    BY <1>3, <1>5, <2>2, <2>3 DEF Out
<1>7. \A f \in Ept : \A u \in Cells(queue'[f]) :
        u \in Cells(queue[f]) /\ Dummy(queue'[f]) = Dummy(queue[f])
  BY <1>2, <1>3
<1>8. References'
  BY <1>0, <1>3, <1>6, <1>7, SameReferences
<1>9. Counts'
  BY <1>0, <1>3, SameCounts
<1> QED
  BY <1>1, <1>4, <1>8, <1>9 DEF EngineInv

(* Frame boundaries and polls.                                             *)
LEMMA HandEngine ==
  ASSUME EngineInv, IInv', HcFrame \/ Poll \/ LastPoll
  PROVE  EngineInv'
<1>0. TypeOK /\ TypeOK' /\ Owners /\ PipesApart /\ References /\ Counts
  BY DEF EngineInv, IInv
<1>1. Owners'
  BY <1>0, HandOwners
<1>2. UNCHANGED <<freeTd, queue, pipes, freeEpt, ref, req>>
  BY DEF HcFrame, Poll, LastPoll, poolVars
<1>3. \A u \in Td : Out(u)' => Out(u)
  <2>1. \/ doneq' = <<>> /\ hcca' = doneq /\ work' = work
        \/ UNCHANGED <<doneq, hcca, work>>
        \/ work' = hcca /\ hcca' = <<>> /\ doneq' = doneq
    BY DEF HcFrame, Poll, LastPoll, TakeDoneHead
  <2> QED
    BY <2>1, NoCells DEF Out
<1>4. PipesApart'
  BY <1>0, <1>2, SamePipes
<1>5. References'
  BY <1>0, <1>2, <1>3, SameReferences
<1>6. Counts'
  BY <1>0, <1>2, SameCounts
<1> QED
  BY <1>1, <1>4, <1>5, <1>6 DEF EngineInv

(* usb_sync_request is done with its request, to which no TD refers.       *)
LEMMA SyncReturnEngine ==
  ASSUME EngineInv, IInv', NEW r \in Req, SyncReturn(r)
  PROVE  EngineInv'
<1>0. TypeOK /\ TypeOK' /\ Owners /\ PipesApart /\ References /\ Counts
  BY DEF EngineInv, IInv
<1>1. /\ UNCHANGED <<freeTd, queue, pipes, freeEpt, ref, doneq, hcca, work, wdh, pc>>
      /\ req' = [req EXCEPT ![r] = IdleReq] /\ req[r].st # "busy"
      /\ req'[r] = IdleReq /\ \A x \in Req : x # r => req'[x] = req[x]
  BY <1>0 DEF SyncReturn, poolVars, hcVars, drvVars, TypeOK
<1>2. \A t \in Td : ref[t] # r
  BY <1>0, <1>1, NotBusy
<1>3. Owners'
  BY <1>0, <1>1, SameOwners
<1>4. PipesApart'
  BY <1>0, <1>1, SamePipes
<1>5. ASSUME NEW e \in Ept, NEW t \in Cells(queue'[e]) PROVE Behind(e, t)'
  <2>1. t \in Td /\ Behind(e, t)
    BY <1>0, <1>1, <1>5, CellsIn DEF TypeOK, References
  <2>2. ref[t] \in Req => req'[ref[t]] = req[ref[t]]
    BY <1>1, <1>2, <2>1
  <2> QED
    BY <1>1, <2>1, <2>2 DEF Behind, EptOf, Dummy
<1>6. References'
  BY <1>0, <1>1, <1>5 DEF References, Out
<1>7. Counts'
  BY <1>0, <1>1, SameCounts DEF Counts, IdleReq, TypeOK
<1> QED
  BY <1>3, <1>4, <1>6, <1>7 DEF EngineInv

(* A pipe is opened: its ED has the dummy and nothing else.                *)
LEMMA CreatePipeEngine ==
  ASSUME EngineInv, IInv', NEW d \in Dev, NEW p \in Pipe, CreatePipe(d, p)
  PROVE  EngineInv'
<1>0. TypeOK /\ TypeOK' /\ Owners /\ PipesApart /\ References /\ Counts
  BY DEF EngineInv, IInv
<1>1. PICK e \in freeEpt : /\ e \in Ept
                           /\ queue' = [queue EXCEPT ![e] = Allot(1)]
                           /\ pipes' = [pipes EXCEPT ![d][p] = e]
  BY <1>0 DEF CreatePipe, TypeOK
<1>2. PICK n \in Td : Allot(1) = <<n>> /\ n \in freeTd
  <2>1. Available(1) /\ freeTd \subseteq Td
    BY <1>0 DEF CreatePipe, TypeOK
  <2>2. Allot(1) \in [1..1 -> freeTd]
    BY <2>1, AllotFacts
  <2>3. Allot(1) = <<Allot(1)[1]>> /\ Allot(1)[1] \in freeTd
    BY <2>2
  <2> QED
    BY <2>1, <2>3, Zenon
<1>3. /\ Available(1) /\ freeTd' = freeTd \ Cells(Allot(1))
      /\ UNCHANGED <<ref, req, doneq, hcca, work, wdh, pc>>
      /\ queue[e] = <<>> /\ queue'[e] = <<n>> /\ \A f \in Ept : f # e => queue'[f] = queue[f]
      /\ pipes[d][p] = NoEpt
  <2>1. queue[e] = <<>>
    BY <1>0, <1>1 DEF PipesApart
  <2>2. queue'[e] = <<n>> /\ \A f \in Ept : f # e => queue'[f] = queue[f]
    BY <1>0, <1>1, <1>2 DEF TypeOK
  <2>3. /\ Available(1) /\ freeTd' = freeTd \ Cells(Allot(1)) /\ pipes[d][p] = NoEpt
        /\ UNCHANGED <<ref, req, doneq, hcca, work, wdh, pc>>
    BY DEF CreatePipe, hcVars, drvVars
  <2> QED
    BY <2>1, <2>2, <2>3
<1>4. Owners'
  <2>1. queue' = [queue EXCEPT ![e] = queue[e] \o Allot(1)]
    BY <1>1, <1>2, <1>3
  <2> QED
    BY <1>0, <1>1, <1>3, <2>1, TakeOwners
<1>5. PipesApart'
  BY <1>0, OpenPipeApart
<1>6. \A f \in Ept : \A t \in Cells(queue'[f]) :
             \/ ref[t] = NoReq /\ t = Dummy(queue'[f])
             \/ t \in Cells(queue[f]) /\ Dummy(queue'[f]) = Dummy(queue[f])
  <2>1. ASSUME NEW t \in Cells(<<n>>) PROVE ref[t] = NoReq /\ t = Dummy(<<n>>)
    BY <1>0, <1>2, OneCell DEF References, Dummy
  <2> QED
    BY <1>3, <2>1
<1>7. \A c \in Dev, q \in Pipe : pipes'[c][q] = pipes[c][q] \/ pipes[c][q] = NoEpt
  BY <1>0, <1>1, <1>3 DEF TypeOK
<1>8. \A u \in Td : Out(u)' => Out(u)
  BY <1>3 DEF Out
<1>9. References'
  BY <1>0, <1>3, <1>6, <1>7, <1>8, SameReferences
<1>10. Counts'
  BY <1>0, <1>3, SameCounts
<1> QED
  BY <1>4, <1>5, <1>9, <1>10 DEF EngineInv

(* ohci_intr_procdoneq finishes with a TD.                                 *)
LEMMA ProcEngine ==
  ASSUME EngineInv, IInv', NEW t \in Td, AtWork(t), NextWork, FreeXfer(t),
         UNCHANGED queue, Through(t)
  PROVE  EngineInv'
<1>0. TypeOK /\ TypeOK' /\ Owners /\ PipesApart /\ References /\ Counts
  BY DEF EngineInv, IInv
<1>1. Owners'
  BY <1>0, ProcOwners
<1>2. PipesApart'
  BY <1>0, SamePipes DEF AtWork, poolVars
<1>3. \A u \in Td : Out(u)' => Out(u)
  <2>1. work' = Tail(work) /\ UNCHANGED <<doneq, hcca>>
    BY DEF AtWork, NextWork, hcVars
  <2> QED
    BY <1>0, <2>1, WorkHead DEF Out
<1>4. References' /\ Counts'
  BY <1>0, <1>1, <1>3, ThroughReferences
<1> QED
  BY <1>1, <1>2, <1>4 DEF EngineInv

(* The TD it is at refers to a request in progress.                        *)
LEMMA AtWorkRefers ==
  ASSUME EngineInv, NEW t \in Td, AtWork(t)
  PROVE  /\ ref[t] \in Req /\ req[ref[t]].tdcount \in Nat \ {0}
         /\ req[ref[t]].st = "busy"
         /\ req[ref[t]].dev \in Dev /\ req[ref[t]].pipe \in Pipe
         /\ req[ref[t]].tdcount = 1 => \A u \in Td : ref[u] = ref[t] => u = t
<1>0. TypeOK /\ Owners /\ References /\ Counts /\ \A r \in Req : PipeBehind(r)
  BY DEF EngineInv, IInv
<1>1. ref[t] \in Req
  BY <1>0, WorkHead DEF References, Out
<1>2. /\ req[ref[t]].tdcount \in Nat \ {0} /\ req[ref[t]].st = "busy"
      /\ req[ref[t]].tdcount = 1 => Refs(ref[t]) = {t}
  BY <1>0, <1>1, Counted
<1>3. req[ref[t]].dev \in Dev /\ req[ref[t]].pipe \in Pipe
  BY <1>0, <1>1, <1>2 DEF PipeBehind, TypeOK
<1> QED
  BY <1>1, <1>2, <1>3 DEF Refs

(* An interrupt callback queues its request again: the old dummy now       *)
(* refers to it, and the TD that came back to nothing.                     *)
LEMMA RequeueEngine ==
  ASSUME EngineInv, IInv', NEW t \in Td, NEW e \in Ept, AtWork(t), LastTd(ref[t]),
         e = EptOf(ref[t]), Requeue(ref[t], e, t)
  PROVE  EngineInv'
<1>0. TypeOK /\ TypeOK' /\ Owners /\ PipesApart /\ References /\ Counts
  BY DEF EngineInv, IInv
<1>1. PICK r \in Req : /\ r = ref[t] /\ req[r].tdcount = 1 /\ req[r].dev \in Dev
                       /\ req[r].pipe \in Pipe
                       /\ \A u \in Td : ref[u] = r => u = t
  BY AtWorkRefers DEF LastTd
<1>2. PICK n \in freeTd : /\ n \in Td /\ queue' = [queue EXCEPT ![e] = Append(@, n)]
                          /\ freeTd' = (freeTd \ {n}) \cup {t}
  BY <1>0 DEF Requeue, TypeOK
<1>3. PICK q \in Seq(Td) : q = queue[e] /\ Len(q) > 0 /\ Len(q) \in Nat
  <2>1. e \notin freeEpt
    BY <1>0, <1>1 DEF PipesApart, EptOf
  <2>2. queue[e] # <<>> /\ queue[e] \in Seq(Td)
    BY <1>0, <2>1 DEF PipesApart, TypeOK
  <2>3. Len(queue[e]) # 0 /\ Len(queue[e]) \in Nat
    BY <2>2, LenZero
  <2> QED
    BY <2>2, <2>3
<1>4. /\ queue'[e] = q \o <<n>> /\ \A f \in Ept : f # e => queue'[f] = queue[f]
  BY <1>0, <1>2, <1>3 DEF TypeOK
<1>5. /\ q \o <<n>> \in Seq(Td) /\ q \o <<n>> # <<>> /\ Dummy(q \o <<n>>) = n
      /\ Dummy(q) \in Cells(q)
      /\ \A u : u \in Cells(q \o <<n>>) <=> u \in Cells(q) \/ u = n
  <2> DEFINE one == <<n>>
  <2>1. one \in Seq(Td) /\ Len(one) = 1 /\ one[1] = n /\ Cells(one) = {n}
    BY <1>2, OneCell
  <2> HIDE DEF one
  <2>2. /\ q \o one \in Seq(Td) /\ Len(q \o one) = Len(q) + Len(one)
        /\ \A i \in 1 .. Len(one) : (q \o one)[Len(q) + i] = one[i]
        /\ \A u : u \in Cells(q \o one) <=> u \in Cells(q) \/ u \in Cells(one)
    BY <2>1, JoinCells, Zenon
  <2>3. 1 \in 1 .. Len(one)
    BY <2>1
  <2>4. Dummy(q \o one) = n
    BY <2>1, <2>2, <2>3 DEF Dummy
  <2>5. Len(q) + 1 # 0
    BY <1>3
  <2>6. q \o one # <<>>
    BY <2>1, <2>2, <2>5, LenZero, Zenon
  <2>7. Dummy(q) \in Cells(q)
    BY <1>3 DEF Dummy, Cells
  <2> QED
    BY <2>1, <2>2, <2>4, <2>6, <2>7 DEF one
<1>6. Owners'
  BY <1>0, RequeueOwners
<1>7. PipesApart'
  <2>1. \A f \in Ept : queue'[f] = <<>> <=> queue[f] = <<>>
    BY <1>3, <1>4, <1>5, LenZero
  <2> QED
    BY <1>0, <2>1, SamePipes DEF AtWork, poolVars
<1>8. /\ Dummy(q) \in Td /\ Dummy(q) # t /\ Dummy(q) # n /\ t # n
      /\ ref[Dummy(q)] = NoReq /\ ref[n] = NoReq /\ NoReq \notin Req
      /\ \A f \in Ept : f # e => Dummy(q) \notin Cells(queue[f])
      /\ Dummy(q) \notin freeTd /\ ~Out(Dummy(q))
  <2>1. Dummy(q) \in Td
    BY <1>5, CellsIn
  <2>2. Alone(Dummy(q)) /\ Dummy(q) \in Cells(queue[e]) /\ ref[n] = NoReq
        /\ ref[Dummy(q)] = NoReq /\ NoReq \notin Req
    BY <1>0, <1>2, <1>3, <1>5, <2>1, ConstAssumption DEF Owners, References, Behind
  <2> QED
    BY <1>1, <1>2, <2>1, <2>2 DEF Alone
<1>9. /\ ref'[Dummy(q)] = r /\ ref'[t] = NoReq
      /\ \A u \in Td : u # t /\ u # Dummy(q) => ref'[u] = ref[u]
      /\ req'[r] = [req[r] EXCEPT !.status = "noerr"]
      /\ \A x \in Req : x # r => req'[x] = req[x]
      /\ pipes' = pipes
  <2>1. ref' = [ref EXCEPT ![Dummy(q)] = r, ![t] = NoReq]
    BY <1>1, <1>3 DEF Requeue, Dummy
  <2>2. /\ ref'[Dummy(q)] = r /\ ref'[t] = NoReq
        /\ \A u \in Td : u # t /\ u # Dummy(q) => ref'[u] = ref[u]
    BY <1>0, <1>8, <2>1 DEF TypeOK
  <2>3. req' = [req EXCEPT ![r].status = "noerr"] /\ pipes' = pipes
    BY <1>1 DEF Requeue, AtWork, poolVars
  <2> QED
    BY <1>0, <2>2, <2>3 DEF TypeOK
<1>10. req'[r].tdcount = 1 /\ req'[r].dev = req[r].dev /\ req'[r].pipe = req[r].pipe
       /\ req'[r].st = req[r].st
  BY <1>0, <1>1, <1>9 DEF TypeOK
<1>11. \A u \in Td : u = t => ~Out(u)' /\ \A f \in Ept : u \notin Cells(queue'[f])
  BY <1>2, <1>6 DEF Owners, Alone, Out
<1>12. ASSUME NEW f \in Ept, NEW u \in Cells(queue'[f]) PROVE Behind(f, u)'
  <2>0. u \in Td /\ u # t
    BY <1>0, <1>11, CellsIn DEF TypeOK
  <2>1. CASE f = e /\ u = n
    <3>1. u = Dummy(queue'[f]) /\ ref'[u] = NoReq
      BY <1>4, <1>5, <1>8, <1>9, <2>0, <2>1
    <3> QED
      BY <3>1 DEF Behind, Dummy
  <2>2. CASE f = e /\ u = Dummy(q)
    <3>1. u # Dummy(queue'[f]) /\ ref'[u] = r
      BY <1>4, <1>5, <1>8, <1>9, <2>2
    <3>2. r \in Req /\ req'[r].dev \in Dev /\ pipes'[req'[r].dev][req'[r].pipe] = e
      BY <1>1, <1>9, <1>10 DEF EptOf
    <3> QED
      BY <2>2, <3>1, <3>2, Zenon DEF Behind, EptOf, Dummy
  <2>3. CASE f = e /\ u # n /\ u # Dummy(q)
    <3>1. u \in Cells(queue[e]) /\ Behind(e, u) /\ u # Dummy(queue'[f])
          /\ ref'[u] = ref[u]
      BY <1>0, <1>3, <1>4, <1>5, <1>9, <2>0, <2>3 DEF References
    <3>2. ref[u] # r
      BY <1>1, <2>0
    <3>3. /\ ref[u] \in Req /\ req[ref[u]].dev \in Dev /\ EptOf(ref[u]) = e
          /\ req'[ref[u]] = req[ref[u]]
      BY <1>3, <1>9, <2>3, <3>1, <3>2 DEF Behind
    <3>4. PICK x \in Req : /\ x = ref[u] /\ x = ref'[u] /\ req'[x] = req[x]
                           /\ req[x].dev \in Dev /\ EptOf(x) = e
      BY <3>1, <3>3, Zenon
    <3>5. req'[x].dev \in Dev /\ pipes'[req'[x].dev][req'[x].pipe] = e
      BY <1>9, <3>4, Zenon DEF EptOf
    <3> QED
      BY <2>3, <3>1, <3>4, <3>5, Zenon DEF Behind, Dummy, EptOf
  <2>4. CASE f # e
    <3>1. u \in Cells(queue[f]) /\ Behind(f, u) /\ queue'[f] = queue[f]
      BY <1>0, <1>4, <2>4 DEF References
    <3>2. ref'[u] = ref[u] /\ ref[u] # r
      BY <1>1, <1>8, <1>9, <2>0, <2>4, <3>1
    <3> QED
      BY <1>9, <3>1, <3>2 DEF Behind, Dummy, EptOf
  <2> QED
    BY <2>1, <2>2, <2>3, <2>4
<1>13. ASSUME NEW u \in freeTd' PROVE ref'[u] = NoReq
  BY <1>0, <1>2, <1>8, <1>9 DEF References, TypeOK
<1>14. ASSUME NEW u \in Td, Out(u)' PROVE ref'[u] \in Req
  <2>1. Out(u) /\ u # t
    <3>1. work' = Tail(work) /\ UNCHANGED <<doneq, hcca>>
      BY DEF Requeue, AtWork, NextWork, hcVars
    <3> QED
      BY <1>0, <1>11, <1>14, <3>1, WorkHead DEF Out
  <2>2. u # Dummy(q)
    BY <1>8, <2>1
  <2> QED
    BY <1>0, <1>9, <2>1, <2>2 DEF References
<1>15. References'
  BY <1>12, <1>13, <1>14 DEF References
<1>16. ASSUME NEW x \in Req
       PROVE  req'[x].tdcount = Cardinality(Refs(x)') /\ (req'[x].st = "busy" <=> req'[x].tdcount > 0)
  <2>1. CASE x = r
    <3>1. \A u \in Td : ref'[u] = r <=> u = Dummy(q)
      BY <1>1, <1>8, <1>9
    <3>2. Refs(r)' = {Dummy(q)}
      BY <1>8, <3>1 DEF Refs
    <3>3. Cardinality(Refs(r)') = 1
      BY <3>2, FS_Singleton
    <3> QED
      BY <1>0, <1>1, <1>10, <2>1, <3>3 DEF Counts
  <2>2. CASE x # r
    <3>1. \A u \in Td : ref'[u] = x <=> ref[u] = x
      BY <1>1, <1>8, <1>9, <2>2
    <3>2. Refs(x)' = Refs(x)
      BY <3>1 DEF Refs
    <3> QED
      BY <1>0, <1>9, <2>2, <3>2 DEF Counts
  <2> QED
    BY <2>1, <2>2
<1> QED
  BY <1>6, <1>7, <1>15, <1>16 DEF EngineInv, Counts

(* Every step of ohci_intr_procdoneq.                                      *)
LEMMA ProcTdEngine ==
  ASSUME EngineInv, IInv', NEW t \in Td, ProcTd(t)
  PROVE  EngineInv'
<1>0. TypeOK /\ TypeOK' /\ Owners /\ PipesApart /\ References /\ Counts
  BY DEF EngineInv, IInv
<1>1. AtWork(t) /\ UNCHANGED pipes
  BY
     DEF ProcTd, ProcPiece, ProcSync, ProcIntrCancelled, ProcIntrAgain,
         ProcNoDevice,
     AtWork, poolVars
<1>2. PICK r \in Req : /\ r = ref[t] /\ req[r].tdcount \in Nat \ {0}
                       /\ req[r].st = "busy" /\ req[r].dev \in Dev /\ req[r].pipe \in Pipe
  BY <1>1, AtWorkRefers
<1>3. CASE ProcPiece(t)
  <2>1. Through(t)
    BY <1>0, <1>1, <1>2, <1>3 DEF ProcPiece, Through, TypeOK
  <2> QED
    BY <1>1, <1>3, <2>1, ProcEngine DEF ProcPiece
<1>4. CASE ProcSync(t)
  <2>1. Through(t)
    BY <1>0, <1>1, <1>2, <1>4 DEF ProcSync, Done, LastTd, Through, TypeOK
  <2> QED
    BY <1>1, <1>4, <2>1, ProcEngine DEF ProcSync
<1>5. CASE ProcIntrCancelled(t)
  <2>1. Through(t)
    BY <1>0, <1>1, <1>2, <1>5
       DEF ProcIntrCancelled, IdleReq, LastTd, Through, TypeOK
  <2> QED
    BY <1>1, <1>5, <2>1, ProcEngine DEF ProcIntrCancelled
<1>6. CASE ProcIntrAgain(t)
  <2>1. EptOf(r) # NoEpt => EptOf(r) \in Ept
    BY <1>0, <1>2 DEF EptOf, TypeOK
  <2>2. pc' # "stale_pipe"
    BY DEF IInv, NoStalePipe
  <2> QED
    BY <1>1, <1>2, <1>6, <2>1, <2>2, RequeueEngine DEF ProcIntrAgain
<1>7. CASE ProcNoDevice(t)
  <2>1. UNCHANGED <<freeTd, queue, doneq, hcca, work, wdh, ref, req, pipes, freeEpt>>
        /\ pc' = "stale_dev"
    BY <1>7 DEF ProcNoDevice, AtWork, hcVars, poolVars
  <2>2. Owners'
    BY <1>0, <2>1, SameOwners
  <2>3. PipesApart'
    BY <1>0, <2>1, SamePipes
  <2>4. References'
    BY <1>0, <2>1, SameReferences DEF Out
  <2>5. Counts'
    BY <1>0, <2>1, SameCounts
  <2> QED
    BY <2>2, <2>3, <2>4, <2>5 DEF EngineInv
<1> QED
  BY <1>3, <1>4, <1>5, <1>6, <1>7 DEF ProcTd

(* The TD ohci_ept_delete takes off the ED refers to a request of the      *)
(* device that is being removed.                                           *)
LEMMA DrainRefers ==
  ASSUME EngineInv, DrainTd
  PROVE  LET t == Head(queue[Doomed]) IN
         /\ Doomed \in Ept /\ t \in Td /\ t \in Cells(queue[Doomed])
         /\ ref[t] \in Req /\ req[ref[t]].st = "busy" /\ req[ref[t]].tdcount \in Nat \ {0}
         /\ req[ref[t]].dev = rmdev /\ rmdev \in Dev
         /\ req[ref[t]].tdcount = 1 => \A u \in Td : ref[u] = ref[t] => u = t
         /\ Dummy(Tail(queue[Doomed])) = Dummy(queue[Doomed])
         /\ queue[Doomed] # <<>> /\ Tail(queue[Doomed]) # <<>>
         /\ \A u : u \in Cells(Tail(queue[Doomed])) <=> u \in Cells(queue[Doomed]) /\ u # t
<1>0. TypeOK /\ OneRemoval /\ Owners /\ PipesApart /\ References /\ Counts
  BY DEF EngineInv, IInv
<1>1. rmdev \in Dev /\ Doomed # NoEpt /\ Doomed \in Ept /\ idx \in Pipe
  <2>1. rmdev \in Dev /\ Doomed # NoEpt
    BY <1>0 DEF DrainTd, OneRemoval
  <2> QED
    BY <1>0, <2>1 DEF TypeOK, Doomed
<1> DEFINE q == queue[Doomed]
           t == Head(q)
<1>2. q \in Seq(Td) /\ Len(q) > 1 /\ Len(q) > 0 /\ Injective(q)
  BY <1>0, <1>1 DEF DrainTd, TypeOK, Owners
<1>3. /\ t # Dummy(q) /\ Dummy(Tail(q)) = Dummy(q) /\ q # <<>> /\ Tail(q) # <<>>
      /\ t \in Td /\ t \in Cells(q)
      /\ \A u : u \in Cells(Tail(q)) <=> u \in Cells(q) /\ u # t
  BY <1>2, TailDummy, TailCells
<1>4. ref[t] \in Req /\ req[ref[t]].dev \in Dev /\ EptOf(ref[t]) = Doomed
  BY <1>0, <1>1, <1>3 DEF References, Behind
<1>5. req[ref[t]].dev = rmdev
  <2>1. \A c, x \in Dev, y, z \in Pipe :
          pipes[c][y] = pipes[x][z] /\ pipes[c][y] # NoEpt => c = x /\ y = z
    BY <1>0 DEF PipesApart
  <2>2. PICK r \in Req : r = ref[t]
    BY <1>4
  <2>3. req[r].pipe \in Pipe
    BY <1>0 DEF TypeOK
  <2>4. /\ req[r].dev \in Dev /\ pipes[req[r].dev][req[r].pipe] = pipes[rmdev][idx]
        /\ pipes[rmdev][idx] # NoEpt
    BY <1>1, <1>4, <2>2, Zenon DEF EptOf, Doomed
  <2>5. PICK c \in Dev, y \in Pipe : /\ c = req[r].dev /\ pipes[c][y] # NoEpt
                                     /\ pipes[c][y] = pipes[rmdev][idx]
    BY <2>3, <2>4, Zenon
  <2>6. c = rmdev
    BY <1>1, <2>1, <2>5
  <2> QED
    BY <2>2, <2>5, <2>6
<1>6. /\ req[ref[t]].tdcount \in Nat \ {0} /\ req[ref[t]].st = "busy"
      /\ req[ref[t]].tdcount = 1 => Refs(ref[t]) = {t}
  BY <1>0, <1>3, <1>4, Counted
<1>7. req[ref[t]].tdcount = 1 => \A u \in Td : ref[u] = ref[t] => u = t
  BY <1>6 DEF Refs
<1> QED
  BY <1>1, <1>3, <1>4, <1>5, <1>6, <1>7

(* It frees that TD and counts the request down, ...                       *)
LEMMA DrainTdEngine ==
  ASSUME EngineInv, IInv', DrainTd
  PROVE  EngineInv'
<1>0. TypeOK /\ TypeOK' /\ Owners /\ PipesApart /\ References /\ Counts
  BY DEF EngineInv, IInv
<1>1. PICK e \in Ept, t \in Td, r \in Req :
        /\ e = Doomed /\ t = Head(queue[e]) /\ r = ref[t]
        /\ req[r].st = "busy" /\ req[r].tdcount \in Nat \ {0}
        /\ Dummy(Tail(queue[e])) = Dummy(queue[e])
        /\ queue[e] # <<>> /\ Tail(queue[e]) # <<>>
        /\ \A u : u \in Cells(Tail(queue[e])) <=> u \in Cells(queue[e]) /\ u # t
  BY DrainRefers
<1>2. /\ queue' = [queue EXCEPT ![e] = Tail(@)]
      /\ queue'[e] = Tail(queue[e]) /\ \A f \in Ept : f # e => queue'[f] = queue[f]
      /\ req' = [req EXCEPT ![r] = Drained(r)] /\ FreeXfer(t) /\ freeTd' = freeTd \cup {t}
      /\ pc = "skip" /\ UNCHANGED <<pc, doneq, hcca, work, wdh, pipes, freeEpt>>
      /\ Len(queue[e]) > 1
  BY <1>0, <1>1 DEF DrainTd, FreeXfer, TypeOK, drvVars, hcVars, poolVars
<1>3. Owners'
  <2>1. Len(queue[e]) > 0
    BY <1>0, <1>2 DEF TypeOK
  <2> QED
    BY <1>0, <1>1, <1>2, <2>1, DrainOwners
<1>4. PipesApart'
  <2>1. \A f \in Ept : queue'[f] = <<>> <=> queue[f] = <<>>
    BY <1>1, <1>2
  <2> QED
    BY <1>0, <1>2, <2>1, SamePipes
<1>5. Through(t)
  <2>1. req'[r] = Drained(r) /\ \A x \in Req : x # r => req'[x] = req[x]
    BY <1>0, <1>2 DEF TypeOK
  <2>2. /\ Drained(r).tdcount = req[r].tdcount - 1
        /\ Drained(r).st = "busy" <=> req[r].tdcount > 1
        /\ req[r].tdcount > 1 => Drained(r).dev = req[r].dev /\ Drained(r).pipe = req[r].pipe
    <3>1. CASE req[r].tdcount > 1
      <4>1. Drained(r) = [req[r] EXCEPT !.tdcount = @ - 1, !.status = "cancelled"]
        BY <3>1 DEF Drained
      <4> QED
        BY <1>0, <1>1, <3>1, <4>1 DEF TypeOK
    <3>2. CASE ~(req[r].tdcount > 1)
      <4>1. req[r].tdcount = 1
        BY <1>1, <3>2
      <4>2. Drained(r).tdcount = 0 /\ Drained(r).st # "busy"
        <5>1. CASE r \in IntrReq
          BY <3>2, <5>1 DEF Drained, IdleReq
        <5>2. CASE r \notin IntrReq
          <6>1. Drained(r) = [req[r] EXCEPT !.st = "done", !.tdcount = 0, !.status = "cancelled"]
            BY <3>2, <5>2 DEF Drained
          <6> QED
            BY <1>0, <6>1 DEF TypeOK
        <5> QED
          BY <5>1, <5>2
      <4> QED
        BY <3>2, <4>1, <4>2
    <3> QED
      BY <3>1, <3>2
  <2> QED
    BY <1>1, <1>2, <2>1, <2>2 DEF Through
<1>6. \A u \in Td : Out(u)' => Out(u)
  BY <1>2 DEF Out
<1>7. \A f \in Ept, u \in Td : u \in Cells(queue'[f]) =>
             u \in Cells(queue[f]) /\ Dummy(queue'[f]) = Dummy(queue[f])
  BY <1>1, <1>2
<1>8. References' /\ Counts'
  BY <1>0, <1>3, <1>5, <1>6, <1>7, ThroughReferences
<1> QED
  BY <1>3, <1>4, <1>8 DEF EngineInv

(* ... and at last frees the dummy, the ED and the pipe.                   *)
LEMMA FreeEptEngine ==
  ASSUME EngineInv, IInv', FreeEpt
  PROVE  EngineInv'
<1>0. TypeOK /\ TypeOK' /\ OneRemoval /\ Owners /\ PipesApart /\ References /\ Counts
  BY DEF EngineInv, IInv
<1>1. rmdev \in Dev /\ Doomed \in Ept /\ idx \in Pipe
  <2>1. rmdev \in Dev /\ Doomed # NoEpt
    BY <1>0 DEF FreeEpt, OneRemoval
  <2> QED
    BY <1>0, <2>1 DEF TypeOK, Doomed
<1>2. PICK e \in Ept, q \in Seq(Td) :
        e = Doomed /\ q = queue[e] /\ Len(q) = 1 /\ pipes[rmdev][idx] = e
  BY <1>0, <1>1 DEF FreeEpt, TypeOK, Doomed
<1>3. PICK t \in Td : q = <<t>>
  BY <1>2, OnlyCell
<1>4. Head(q) = t /\ Tail(q) = <<>> /\ Dummy(q) = t /\ t \in Cells(q)
  BY <1>3, OneCell DEF Dummy
<1>5. ref[t] = NoReq
  BY <1>0, <1>2, <1>4 DEF References, Behind
<1>6. /\ queue' = [queue EXCEPT ![e] = Tail(@)] /\ freeTd' = freeTd \cup {t}
      /\ queue'[e] = <<>> /\ \A f \in Ept : f # e => queue'[f] = queue[f]
      /\ pc = "skip" /\ pc' = "destroy"
      /\ UNCHANGED <<doneq, hcca, work, wdh, req, ref>>
      /\ pipes' = [pipes EXCEPT ![rmdev][idx] = NoEpt]
  <2>1. queue' = [queue EXCEPT ![e] = <<>>] /\ freeTd' = freeTd \cup {t}
        /\ ref' = [ref EXCEPT ![t] = NoReq]
        /\ pc = "skip" /\ pc' = "destroy" /\ UNCHANGED <<doneq, hcca, work, wdh, req>>
        /\ pipes' = [pipes EXCEPT ![rmdev][idx] = NoEpt]
    BY <1>2, <1>4 DEF FreeEpt, FreeXfer, hcVars
  <2>2. ref' = ref /\ queue'[e] = <<>> /\ \A f \in Ept : f # e => queue'[f] = queue[f]
    BY <1>0, <1>5, <2>1 DEF TypeOK
  <2>3. queue' = [queue EXCEPT ![e] = Tail(@)]
    BY <1>2, <1>4, <2>1
  <2> QED
    BY <2>1, <2>2, <2>3
<1>7. Owners'
  <2>1. Len(queue[e]) > 0 /\ t = Head(queue[e])
    BY <1>2, <1>4
  <2> QED
    BY <1>0, <1>6, <2>1, DrainOwners
<1>8. PipesApart'
  BY <1>0, <1>1, ClosePipeApart
<1>9. References'
  <2>1. \A f \in Ept : \A u \in Cells(queue'[f]) :
             u \in Cells(queue[f]) /\ Dummy(queue'[f]) = Dummy(queue[f])
    BY <1>6, NoCells
  <2>2. \A c \in Dev, y \in Pipe :
             \/ pipes'[c][y] = pipes[c][y] \/ pipes[c][y] = NoEpt
             \/ pipes[c][y] \in Ept /\ queue'[pipes[c][y]] = <<>>
    BY <1>0, <1>1, <1>2, <1>6 DEF TypeOK
  <2>3. \A u \in Td : Out(u)' => Out(u)
    BY <1>6 DEF Out
  <2>4. \A u \in freeTd' : u \in freeTd \/ (u \in Td /\ ref[u] = NoReq)
    BY <1>5, <1>6
  <2> QED
    BY <1>0, <1>6, <2>1, <2>2, <2>3, <2>4, SameReferences
<1>10. Counts'
  BY <1>0, <1>6, SameCounts
<1> QED
  BY <1>7, <1>8, <1>9, <1>10 DEF EngineInv

(* The steps that touch neither descriptor, pipe nor request.              *)
LEMMA QuietEngine ==
  ASSUME EngineInv, IInv',
         \/ \E d \in Dev : Unplug(d)
         \/ LoadHead \/ DestroyPipe \/ Detach \/ Undefined \/ UNCHANGED vars
  PROVE  EngineInv'
<1>0. TypeOK /\ TypeOK' /\ Owners /\ PipesApart /\ References /\ Counts
  BY DEF EngineInv, IInv
<1>1. /\ UNCHANGED <<freeTd, queue, doneq, hcca, work, wdh, ref, req, pipes, freeEpt>>
      /\ pc' = pc \/ pc \in {"idle", "destroy", "skip", "detach"}
  BY
     DEF Unplug, Settled, Idle, LoadHead, DestroyPipe, Detach, Undefined, vars,
         poolVars, hcVars, drvVars
<1>2. Owners'
  BY <1>0, <1>1, SameOwners
<1>3. PipesApart'
  BY <1>0, <1>1, SamePipes
<1>4. References'
  BY <1>0, <1>1, SameReferences DEF Out
<1>5. Counts'
  BY <1>0, <1>1, SameCounts
<1> QED
  BY <1>2, <1>3, <1>4, <1>5 DEF EngineInv

-----------------------------------------------------------------------------
(* The H bit of an ED is cleared by a load of its head pointer and a       *)
(* store.  When the HC has not moved on in between nothing has happened to *)
(* the list ...                                                            *)
Lost == queue[clr] # seen

LEMMA StoreEngine ==
  ASSUME EngineInv, IInv', StoreHead, ~Lost
  PROVE  EngineInv'
<1>0. TypeOK /\ Owners /\ PipesApart /\ References /\ Counts
  BY DEF EngineInv, IInv
<1>1. queue' = queue /\ pc' = pc
  <2>1. queue' = [queue EXCEPT ![clr] = queue[clr]] /\ pc' = pc
    BY DEF StoreHead, Lost
  <2> QED
    BY <1>0, <2>1 DEF TypeOK
<1>2. UNCHANGED <<freeTd, doneq, hcca, work, wdh, ref, req, pipes, freeEpt>>
  BY DEF StoreHead, hcVars, poolVars
<1>3. Owners'
  BY <1>0, <1>1, <1>2, SameOwners
<1>4. PipesApart'
  BY <1>0, <1>1, <1>2, SamePipes
<1>5. References'
  BY <1>0, <1>1, <1>2, SameReferences DEF Out
<1>6. Counts'
  BY <1>0, <1>1, <1>2, SameCounts
<1> QED
  BY <1>3, <1>4, <1>5, <1>6 DEF EngineInv

(* ... and when it has, a TD that is retired is linked again: TDs have two *)
(* owners, and what is left is that EDs have one and that the counts are   *)
(* those of the references.  The ED whose bit is cleared is in use.        *)
ClrOpen ==
  /\ clr # NoEpt => clr \notin freeEpt
  /\ pc \in {"destroy", "skip", "lost_head"} => clr = NoEpt

LEMMA StoreLost ==
  ASSUME TypeOK, ClrOpen, PipesApart, Counts, StoreHead
  PROVE  PipesApart' /\ Counts'
<1>1. UNCHANGED <<ref, req, pipes, freeEpt>>
  BY DEF StoreHead, poolVars
<1>2. clr \in Ept /\ clr \notin freeEpt /\ seen # <<>> /\ queue[clr] # <<>>
  BY DEF StoreHead, TypeOK, ClrOpen, PipesApart
<1>3. queue'[clr] = seen /\ \A e \in Ept : e # clr => queue'[e] = queue[e]
  BY <1>2 DEF StoreHead, TypeOK
<1>4. \A e \in Ept : queue'[e] = <<>> <=> queue[e] = <<>>
  BY <1>2, <1>3
<1>5. PipesApart'
  BY <1>1, <1>4, SamePipes
<1>6. Counts'
  BY <1>1, SameCounts
<1> QED
  BY <1>5, <1>6

(* The inductive invariant.                                                *)
Sound ==
  /\ IInv
  /\ ClrOpen
  /\ PipesApart
  /\ Counts
  /\ pc # "lost_head" => EngineInv

(* An ED is freed by ohci_ept_delete only, which clears no H bit.          *)
LEMMA ClrStep ==
  ASSUME Sound, IInv', [Next]_vars
  PROVE  ClrOpen'
<1>0. /\ TypeOK /\ ClrOpen /\ PipesApart /\ \A r \in Req : PipeBehind(r)
      /\ clr # NoEpt => clr \notin freeEpt
      /\ pc \in {"destroy", "skip", "lost_head"} => clr = NoEpt
  BY DEF Sound, IInv, ClrOpen
<1>1. CASE \E d \in Dev, p \in Pipe : CreatePipe(d, p) /\ Settled
  <2>1. clr' = clr /\ freeEpt' \subseteq freeEpt /\ pc' = pc
    BY <1>1 DEF CreatePipe, clrVars, drvVars
  <2> QED
    BY <1>0, <2>1 DEF ClrOpen
<1>2. CASE \E d \in Dev, p \in Pipe, r \in Req, n \in 1..MaxTds : Submit(d, p, r, n)
  <2> PICK d \in Dev, p \in Pipe, r \in Req, n \in 1..MaxTds : Submit(d, p, r, n)
    BY <1>2
  <2>1. clr' = pipes[d][p] /\ freeEpt' = freeEpt /\ pc' = "idle"
    BY DEF Submit, Xfer, Idle, poolVars, drvVars
  <2>2. pipes[d][p] \notin freeEpt
    BY <1>0 DEF PipesApart
  <2> QED
    BY <2>1, <2>2 DEF ClrOpen
<1>3. CASE \E r \in Req : SyncReturn(r)
  <2>1. (clr' = clr \/ clr' \notin freeEpt) /\ freeEpt' = freeEpt /\ pc' = "idle"
    BY <1>3 DEF SyncReturn, Idle, poolVars, drvVars
  <2> QED
    BY <1>0, <2>1 DEF ClrOpen
<1>4. CASE LoadHead \/ StoreHead
  <2>1. /\ clr' = clr \/ clr' = NoEpt
        /\ clr' = clr => pc' = pc
        /\ freeEpt' = freeEpt
    BY <1>4 DEF LoadHead, StoreHead, poolVars, drvVars
  <2> QED
    BY <1>0, <2>1 DEF ClrOpen
<1>5. CASE \E t \in Td : ProcTd(t)
  <2> PICK t \in Td : ProcTd(t)
    BY <1>5
  <2>1. /\ AtWork(t) /\ freeEpt' = freeEpt /\ clr = NoEpt
        /\ pc' \in {"proc", "idle", "detach", "stale_pipe", "stale_dev"}
    BY DEF ProcTd, ProcPiece, ProcSync, ProcIntrCancelled, ProcIntrAgain, Requeue,
           ProcNoDevice, AtWork, NextWork, poolVars
  <2>2. clr' = NoEpt \/ clr' \notin freeEpt
    <3>1. CASE ProcIntrAgain(t) /\ EptOf(ref[t]) # NoEpt
      <4>1. clr' = EptOf(ref[t]) /\ ref[t] \in Req /\ req[ref[t]].tdcount > 0
        BY <3>1, ConstAssumption DEF ProcIntrAgain, Requeue, LastTd
      <4>2. req[ref[t]].dev \in Dev /\ req[ref[t]].pipe \in Pipe
        BY <1>0, <4>1 DEF PipeBehind, TypeOK
      <4> QED
        BY <1>0, <4>1, <4>2 DEF PipesApart, EptOf
    <3>2. CASE ~(ProcIntrAgain(t) /\ EptOf(ref[t]) # NoEpt)
      BY <2>1, <3>2
         DEF ProcTd, ProcPiece, ProcSync, ProcIntrCancelled, ProcIntrAgain,
             ProcNoDevice
    <3> QED
      BY <3>1, <3>2
  <2> QED
    BY <2>1, <2>2 DEF ClrOpen
<1>6. CASE FreeEpt \/ DrainTd
  <2>1. clr' = clr /\ pc = "skip"
    BY <1>6 DEF FreeEpt, DrainTd, clrVars
  <2> QED
    BY <1>0, <2>1 DEF ClrOpen
<1>7. CASE \/ \E e \in Ept, c \in Cond : HcRetire(e, c)
           \/ HcFrame \/ Undefined \/ UNCHANGED vars
  <2>1. clr' = clr /\ freeEpt' = freeEpt /\ pc' = pc
    BY <1>7 DEF HcRetire, HcFrame, Undefined, vars, clrVars, poolVars, drvVars
  <2> QED
    BY <1>0, <2>1 DEF ClrOpen
<1>8. CASE Poll \/ (\E d \in Dev : Unplug(d)) \/ DestroyPipe \/ LastPoll \/ Detach
  <2>1. clr = NoEpt /\ clr' = clr
    BY <1>0, <1>8
       DEF Poll, Unplug, Settled, Idle, DestroyPipe, LastPoll, Detach, clrVars
  <2> QED
    BY <2>1 DEF ClrOpen
<1> QED
  BY <1>1, <1>2, <1>3, <1>4, <1>5, <1>6, <1>7, <1>8, ConstAssumption
     DEF Next, Attach, OpenPipe

(* Only the store of a head pointer can lose it, and nothing happens       *)
(* afterwards.                                                             *)
Standing == LoadHead \/ StoreHead \/ Undefined \/ UNCHANGED vars

LEMMA NotLost ==
  ASSUME IInv, [Next]_vars, ~Standing
  PROVE  pc # "lost_head" /\ pc' # "lost_head"
<1>1. CASE \E d \in Dev, p \in Pipe : CreatePipe(d, p) /\ Settled
  BY <1>1 DEF CreatePipe, Settled, Idle, drvVars
<1>2. CASE \/ \E d \in Dev, p \in Pipe, r \in Req, n \in 1..MaxTds : Submit(d, p, r, n)
           \/ \E r \in Req : SyncReturn(r)
           \/ \E d \in Dev : Unplug(d)
  BY <1>2 DEF Submit, SyncReturn, Unplug, Settled, Idle, drvVars
<1>3. CASE (\E e \in Ept, c \in Cond : HcRetire(e, c)) \/ HcFrame
  BY <1>3 DEF HcRetire, Serviced, HcFrame, drvVars
<1>4. CASE Poll \/ DestroyPipe \/ DrainTd \/ FreeEpt \/ LastPoll \/ Detach
  BY <1>4
     DEF Poll, Idle, TakeDoneHead, DestroyPipe, DrainTd, FreeEpt, LastPoll,
         Detach, drvVars
<1>5. CASE \E t \in Td : ProcTd(t)
  BY <1>5
     DEF ProcTd, ProcPiece, ProcSync, ProcIntrCancelled, ProcIntrAgain, Requeue,
         ProcNoDevice, AtWork, NextWork
<1> QED
  BY <1>1, <1>2, <1>3, <1>4, <1>5, ConstAssumption
     DEF Next, Attach, OpenPipe, Standing

-----------------------------------------------------------------------------
(* The invariant is inductive.                                             *)
LEMMA EngineInit == Init => EngineInv
<1> SUFFICES ASSUME Init PROVE EngineInv
  OBVIOUS
<1>1. IInv
  BY InitInv
<1>2. /\ queue = [e \in Ept |-> <<>>] /\ doneq = <<>> /\ hcca = <<>> /\ work = <<>>
      /\ freeTd = Td /\ freeEpt = Ept /\ ref = [t \in Td |-> NoReq]
      /\ pipes = [d \in Dev |-> [p \in Pipe |-> NoEpt]]
      /\ req = [r \in Req |-> IdleReq]
  BY DEF Init
<1>3. ASSUME NEW t \in Td PROVE Alone(t)
  BY <1>2, NoCells DEF Alone, Out
<1>4. Owners
  BY <1>2, <1>3, NoCells DEF Owners
<1>5. PipesApart
  BY <1>2, ConstAssumption DEF PipesApart
<1>6. References
  BY <1>2, NoCells DEF References, Out
<1>7. ASSUME NEW r \in Req
      PROVE  req[r].tdcount = Cardinality(Refs(r)) /\ (req[r].st = "busy" <=> req[r].tdcount > 0)
  <2>1. Refs(r) = {}
    BY <1>2, ConstAssumption DEF Refs
  <2> QED
    BY <1>2, <2>1, FS_EmptySet DEF IdleReq
<1> QED
  BY <1>1, <1>4, <1>5, <1>6, <1>7 DEF EngineInv, Counts

LEMMA EngineStep ==
  ASSUME EngineInv, [Next]_vars, ~(StoreHead /\ Lost)
  PROVE  EngineInv'
<1>0. IInv'
  BY StepInv DEF EngineInv
<1>1. CASE \E d \in Dev, p \in Pipe : CreatePipe(d, p)
  BY <1>0, <1>1, CreatePipeEngine
<1>2. CASE \E d \in Dev, p \in Pipe, r \in Req, n \in 1..MaxTds : Submit(d, p, r, n)
  BY <1>0, <1>2, SubmitEngine
<1>3. CASE \E r \in Req : SyncReturn(r)
  BY <1>0, <1>3, SyncReturnEngine
<1>4. CASE \E e \in Ept, c \in Cond : HcRetire(e, c)
  BY <1>0, <1>4, RetireEngine
<1>5. CASE HcFrame \/ Poll \/ LastPoll
  BY <1>0, <1>5, HandEngine
<1>6. CASE \E t \in Td : ProcTd(t)
  BY <1>0, <1>6, ProcTdEngine
<1>7. CASE DrainTd
  BY <1>0, <1>7, DrainTdEngine
<1>8. CASE FreeEpt
  BY <1>0, <1>8, FreeEptEngine
<1>9. CASE \/ \E d \in Dev : Unplug(d)
           \/ LoadHead \/ DestroyPipe \/ Detach \/ Undefined \/ UNCHANGED vars
  BY <1>0, <1>9, QuietEngine
<1>10. CASE StoreHead
  BY <1>0, <1>10, StoreEngine
<1> QED
  BY <1>1, <1>2, <1>3, <1>4, <1>5, <1>6, <1>7, <1>8, <1>9, <1>10,
     ConstAssumption DEF Next, Attach, OpenPipe

LEMMA SoundInit == Init => Sound
<1>1. Init => ClrOpen
  BY DEF Init, ClrOpen
<1> QED
  BY <1>1, EngineInit DEF Sound, EngineInv

LEMMA SoundStep == Sound /\ [Next]_vars => Sound'
<1> SUFFICES ASSUME Sound, [Next]_vars PROVE Sound'
  OBVIOUS
<1>1. IInv'
  BY StepInv DEF Sound
<1>2. ClrOpen'
  BY <1>1, ClrStep
<1>3. CASE pc # "lost_head" /\ ~(StoreHead /\ Lost)
  <2>1. EngineInv'
    BY <1>3, EngineStep DEF Sound
  <2> QED
    BY <1>1, <1>2, <2>1 DEF Sound, EngineInv
<1>4. CASE pc # "lost_head" /\ StoreHead /\ Lost
  <2>1. PipesApart' /\ Counts'
    BY <1>4, StoreLost DEF Sound, IInv
  <2>2. pc' = "lost_head"
    BY <1>4 DEF StoreHead, Lost
  <2> QED
    BY <1>1, <1>2, <2>1, <2>2 DEF Sound
<1>5. CASE pc = "lost_head"
  <2>1. Undefined \/ UNCHANGED vars
    <3>1. Standing
      BY <1>5, NotLost DEF Sound
    <3>2. clr = NoEpt
      BY <1>5 DEF Sound, ClrOpen
    <3> QED
      BY <3>1, <3>2 DEF Standing, LoadHead, StoreHead
  <2>2. /\ pc' = pc
        /\ UNCHANGED <<pipes, freeEpt, queue, ref, req>>
    BY <2>1 DEF Undefined, vars, poolVars, drvVars
  <2>3. PipesApart'
    BY <2>2, SamePipes DEF Sound
  <2>4. Counts'
    BY <2>2, SameCounts DEF Sound
  <2> QED
    BY <1>1, <1>2, <1>5, <2>2, <2>3, <2>4 DEF Sound
<1> QED
  BY <1>3, <1>4, <1>5

LEMMA Soundness == Spec => []Sound
<1> QED
  BY SoundInit, SoundStep, PTL DEF Spec

(* Owners says what TdOwned says.                                          *)
LEMMA OwnersMeansOwned == TypeOK /\ Owners => TdOwned
<1> SUFFICES ASSUME TypeOK, Owners PROVE TdOwned
  OBVIOUS
<1>1. doneq \in Seq(Td) /\ hcca \in Seq(Td) /\ work \in Seq(Td)
  BY DEF TypeOK
<1>2. /\ \A t : t \in Cells(doneq) \/ t \in Cells(hcca) \/ t \in Cells(work) => t \in Td
      /\ \A e \in Ept : \A t : t \in Cells(queue[e]) => t \in Td
  BY <1>1, CellsIn DEF TypeOK
<1>3. (\A t : t \in Cells(Retired) <=> Out(t)) /\ Injective(Retired)
  <2> DEFINE b == doneq \o hcca
  <2>1. \A t : t \in Cells(doneq) => t \notin Cells(hcca)
    BY <1>2 DEF Owners, Alone
  <2>2. /\ b \in Seq(Td) /\ Injective(b)
        /\ \A t : t \in Cells(b) <=> t \in Cells(doneq) \/ t \in Cells(hcca)
    BY <1>1, <2>1, JoinedCells DEF Owners
  <2> HIDE DEF b
  <2>3. \A t : t \in Cells(b) => t \notin Cells(work)
    BY <1>2, <2>2 DEF Owners, Alone
  <2>4. /\ Injective(b \o work)
        /\ \A t : t \in Cells(b \o work) <=> t \in Cells(b) \/ t \in Cells(work)
    BY <1>1, <2>2, <2>3, JoinedCells DEF Owners
  <2> QED
    BY <2>2, <2>4 DEF Out, Retired, b
<1>4. Td = freeTd \cup Linked \cup Cells(Retired)
  BY <1>2, <1>3 DEF Owners, Alone, Linked, Out, TypeOK
<1>5. freeTd \cap Linked = {}
  BY <1>2 DEF Owners, Alone, Linked
<1>6. Cells(Retired) \cap (freeTd \cup Linked) = {}
  BY <1>2, <1>3 DEF Owners, Alone, Linked, Out
<1>7. \A e, f \in Ept : e # f => Cells(queue[e]) \cap Cells(queue[f]) = {}
  BY <1>2 DEF Owners, Alone
<1> QED
  BY <1>3, <1>4, <1>5, <1>6, <1>7 DEF Owners, TdOwned

(* Whatever is queued, retired, processed and removed in whichever order,  *)
(* each transfer descriptor is on the free list, on one ED or at one place *)
(* of the done queue: _ohci_allocxfer never hands out a TD that the HC or  *)
(* the driver still has, and none is lost.  The one exception is the store *)
(* of a head pointer that the HC has moved on meanwhile (ohci.c:1706).     *)
THEOREM DescriptorsOwned == Spec => []TdOwned
<1>1. Sound => TdOwned
  <2>1. Sound /\ pc = "lost_head" => TdOwned
    BY DEF TdOwned
  <2>2. Sound /\ pc # "lost_head" => TdOwned
    BY OwnersMeansOwned DEF Sound, EngineInv, IInv
  <2> QED
    BY <2>1, <2>2
<1> QED
  BY <1>1, Soundness, PTL

(* Each endpoint descriptor is free and empty, or behind exactly one pipe  *)
(* and with its dummy TD on it: two pipes never share a descriptor, and    *)
(* ohci_xfer finds the dummy it writes the next transfer to.               *)
THEOREM EndpointsOwned == Spec => []EptOwned
<1>1. Sound => EptOwned
  BY ApartMeansOwned DEF Sound, IInv
<1> QED
  BY <1>1, Soundness, PTL

(* ur_tdcount is the number of TDs that refer to the request, and is       *)
(* positive just while it is in progress: usb_complete_request is called   *)
(* once the last TD is back and not before, however many TDs the request   *)
(* was cut into and whoever took them off their ED.  (A TD that the store  *)
(* of a head pointer has put back would be counted twice: the model stops  *)
(* at that store.)                                                         *)
THEOREM CountsExact == Spec => []TdCountExact
<1>1. Sound => TdCountExact
  BY DEF Sound, Counts, Refs, TdCountExact
<1> QED
  BY <1>1, Soundness, PTL

-----------------------------------------------------------------------------
(* The refinement mapping of UsbOhci, request by request: the status a     *)
(* request shows, and whether its device is on its way out.  RState,       *)
(* RStatus, RHeld and RLeaving are what st, status, held and leaving are   *)
(* mapped to.                                                              *)
Shown(r) == IF req[r].st = "done" THEN req[r].status ELSE "noerr"
Leaving(r) == req[r].st = "busy" /\ dev[req[r].dev] = "removing"
RState == [r \in Req |-> req[r].st]
RStatus == [r \in Req |-> Shown(r)]
RHeld == {ref[t] : t \in Td} \ {NoReq}
RLeaving == {r \in Req : Leaving(r)}

(* By the exact counts, the requests some TD refers to are those in        *)
(* progress: that is what makes held a function of the requests.           *)
LEMMA HeldAreBusy == EngineInv => RHeld = {r \in Req : req[r].st = "busy"}
<1> SUFFICES ASSUME EngineInv PROVE RHeld = {r \in Req : req[r].st = "busy"}
  OBVIOUS
<1>0. TypeOK /\ Counts
  BY DEF EngineInv, IInv
<1>1. \A t \in Td : ref[t] \in Req \cup {NoReq}
  BY <1>0 DEF TypeOK
<1>2. ASSUME NEW r \in Req, req[r].st = "busy" PROVE r \in RHeld
  <2>1. Cardinality(Refs(r)) # 0
    BY <1>0, <1>2 DEF Counts
  <2>2. PICK t \in Refs(r) : TRUE
    BY <2>1, FS_EmptySet
  <2> QED
    BY <2>2, ConstAssumption DEF Refs, RHeld
<1>3. ASSUME NEW r \in RHeld PROVE r \in Req /\ req[r].st = "busy"
  <2>1. PICK t \in Td : r = ref[t] /\ ref[t] \in Req
    BY <1>1 DEF RHeld
  <2> QED
    BY <1>0, <2>1, Counted
<1> QED
  BY <1>2, <1>3

LEMMA HeldThen == EngineInv' => RHeld' = {r \in Req : req'[r].st = "busy"}
<1>1. (EngineInv => RHeld = {r \in Req : req[r].st = "busy"})'
  BY HeldAreBusy, PTL
<1> QED
  BY <1>1

(* A step that changes no state, no shown status and no leaving of a       *)
(* request is a stuttering step of the abstract specification.             *)
LEMMA QuietRequest ==
  ASSUME EngineInv, EngineInv',
         \A r \in Req : /\ req'[r].st = req[r].st /\ Shown(r)' = Shown(r)
                        /\ Leaving(r)' <=> Leaving(r)
  PROVE  UNCHANGED Request!vars
<1>1. RState' = RState /\ RStatus' = RStatus /\ RLeaving' = RLeaving
  BY DEF RState, RStatus, RLeaving
<1>2. RHeld' = RHeld
  BY HeldAreBusy, HeldThen
<1> QED
  BY <1>1, <1>2 DEF Request!vars, RState, RStatus, RLeaving, RHeld, Shown, Leaving

(* Initial states are mapped to initial states.                            *)
LEMMA RequestInit == Init => Request!Init
  BY ConstAssumption DEF Init, Request!Init, IdleReq

(* The steps that are not stuttering: usb_queue_request, ...               *)
LEMMA QueueRequest ==
  ASSUME EngineInv, EngineInv', NEW d \in Dev, NEW p \in Pipe, NEW r \in Req,
         NEW n \in 1..MaxTds, Submit(d, p, r, n)
  PROVE  Request!Queue(r)
<1>0. TypeOK
  BY DEF EngineInv, IInv
<1>1. /\ req[r].st = "free" /\ dev[d] = "present" /\ dev' = dev
      /\ req'[r].st = "busy" /\ req'[r].dev = d
      /\ \A x \in Req : x # r => req'[x] = req[x]
  BY <1>0 DEF Submit, TypeOK
<1>2. RState[r] = "free" /\ RState' = [RState EXCEPT ![r] = "busy"]
  BY <1>1 DEF RState
<1>3. RStatus' = RStatus
  BY <1>1 DEF RStatus, Shown
<1>4. RLeaving' = RLeaving
  BY <1>1 DEF RLeaving, Leaving
<1>5. RHeld' = RHeld \cup {r}
  BY <1>1, HeldAreBusy, HeldThen
<1> QED
  BY <1>2, <1>3, <1>4, <1>5
     DEF Request!Queue, RState, RStatus, RLeaving, RHeld, Shown, Leaving

(* ... usb_free_request, ...                                               *)
LEMMA ReleaseRequest ==
  ASSUME EngineInv, EngineInv', NEW r \in Req, SyncReturn(r)
  PROVE  Request!Release(r)
<1>0. TypeOK
  BY DEF EngineInv, IInv
<1>1. /\ req[r].st = "done" /\ dev' = dev /\ req'[r].st = "free"
      /\ \A x \in Req : x # r => req'[x] = req[x]
  BY <1>0 DEF SyncReturn, TypeOK, IdleReq
<1>2. RState[r] = "done" /\ RState' = [RState EXCEPT ![r] = "free"]
  BY <1>1 DEF RState
<1>3. RStatus' = [RStatus EXCEPT ![r] = "noerr"]
  BY <1>1 DEF RStatus, Shown
<1>4. RLeaving' = RLeaving
  BY <1>1 DEF RLeaving, Leaving
<1>5. RHeld' = RHeld
  BY <1>1, HeldAreBusy, HeldThen
<1> QED
  BY <1>2, <1>3, <1>4, <1>5
     DEF Request!Release, RState, RStatus, RLeaving, RHeld, Shown, Leaving

(* ... the last TD of a request somebody waits for, ...                    *)
LEMMA CompleteRequest ==
  ASSUME EngineInv, EngineInv', NEW r \in Req, NEW s \in Status,
         r \notin IntrReq, req[r].st = "busy", s = "cancelled" <=> Leaving(r),
         req'[r].st = "done", req'[r].status = s, dev' = dev,
         \A x \in Req : x # r => req'[x] = req[x]
  PROVE  Request!Complete(r, s)
<1>2. RState[r] = "busy" /\ RState' = [RState EXCEPT ![r] = "done"]
  BY DEF RState
<1>3. RStatus' = [RStatus EXCEPT ![r] = s]
  BY DEF RStatus, Shown
<1>4. RLeaving' = RLeaving \ {r} /\ (s = "cancelled" <=> r \in RLeaving)
  BY DEF RLeaving, Leaving
<1>5. RHeld' = RHeld \ {r}
  BY HeldAreBusy, HeldThen
<1> QED
  BY <1>2, <1>3, <1>4, <1>5
     DEF Request!Complete, RState, RStatus, RLeaving, RHeld, Shown, Leaving

(* ... of one whose callback frees it, ...                                 *)
LEMMA CancelRequest ==
  ASSUME EngineInv, EngineInv', NEW r \in IntrReq, req[r].st = "busy", Leaving(r),
         req'[r] = IdleReq, dev' = dev, \A x \in Req : x # r => req'[x] = req[x]
  PROVE  Request!Cancel(r)
<1>1. r \in Req /\ req'[r].st = "free"
  BY ConstAssumption DEF IdleReq
<1>2. RState[r] = "busy" /\ RState' = [RState EXCEPT ![r] = "free"]
  BY <1>1 DEF RState
<1>3. RStatus' = RStatus
  BY <1>1 DEF RStatus, Shown
<1>4. RLeaving' = RLeaving \ {r} /\ r \in RLeaving
  BY <1>1 DEF RLeaving, Leaving
<1>5. RHeld' = RHeld \ {r}
  BY <1>1, HeldAreBusy, HeldThen
<1> QED
  BY <1>2, <1>3, <1>4, <1>5
     DEF Request!Cancel, RState, RStatus, RLeaving, RHeld, Shown, Leaving

(* ... and a device that is pulled out and is gone.                        *)
LEMMA UnplugRequest ==
  ASSUME EngineInv, EngineInv', NEW d \in Dev, Unplug(d)
  PROVE  \E rs \in SUBSET Req : Request!Unplug(rs)
<1>0. TypeOK /\ OneRemoval
  BY DEF EngineInv, IInv
<1>1. req' = req /\ \A x \in Dev : dev[x] # "removing"
  BY <1>0, ConstAssumption DEF Unplug, Settled, Idle, OneRemoval
<1>2. RLeaving = {}
  <2>1. \A r \in Req : req[r].st = "busy" => req[r].dev \in Dev
    BY DEF EngineInv, IInv, Counts, PipeBehind
  <2> QED
    BY <1>1, <2>1 DEF RLeaving, Leaving
<1>3. RState' = RState /\ RStatus' = RStatus
  BY <1>1 DEF RState, RStatus, Shown
<1>4. RHeld' = RHeld /\ RLeaving' \subseteq RHeld
  BY <1>1, HeldAreBusy, HeldThen DEF RLeaving, Leaving
<1>5. PICK rs \in SUBSET Req : rs = RLeaving'
  BY DEF RLeaving
<1>6. Request!Unplug(rs)
  BY <1>2, <1>3, <1>4, <1>5
     DEF Request!Unplug, RState, RStatus, RLeaving, RHeld, Shown, Leaving
<1> QED
  BY <1>6

LEMMA GoneRequest ==
  ASSUME EngineInv, EngineInv', Detach
  PROVE  Request!Gone
<1>0. TypeOK /\ OneRemoval
  BY DEF EngineInv, IInv
<1>1. req' = req /\ \A x \in Dev : dev'[x] # "removing"
  BY <1>0, ConstAssumption DEF Detach, OneRemoval, TypeOK
<1>2. RLeaving' = {}
  <2>1. \A r \in Req : req[r].st = "busy" => req[r].dev \in Dev
    BY DEF EngineInv, IInv, Counts, PipeBehind
  <2> QED
    BY <1>1, <2>1 DEF RLeaving, Leaving
<1>3. RState' = RState /\ RStatus' = RStatus
  BY <1>1 DEF RState, RStatus, Shown
<1>4. RHeld' = RHeld
  BY <1>1, HeldAreBusy, HeldThen
<1> QED
  BY <1>2, <1>3, <1>4
     DEF Request!Gone, RState, RStatus, RLeaving, RHeld, Shown, Leaving

(* A device or a pipe that is new has no request.                          *)
LEMMA AttachQuiet ==
  ASSUME EngineInv, EngineInv', NEW d \in Dev, NEW p \in Pipe, CreatePipe(d, p),
         \/ dev[d] = "absent" /\ dev' = [dev EXCEPT ![d] = "present"]
         \/ dev' = dev
  PROVE  UNCHANGED Request!vars
<1>0. TypeOK
  BY DEF EngineInv, IInv
<1>1. req' = req /\ \A x \in Dev : dev'[x] = "removing" <=> dev[x] = "removing"
  BY <1>0 DEF CreatePipe, TypeOK
<1>2. \A r \in Req : req[r].st = "busy" => req[r].dev \in Dev
  BY DEF EngineInv, IInv, Counts, PipeBehind
<1>3. ASSUME NEW r \in Req
      PROVE  req'[r].st = req[r].st /\ Shown(r)' = Shown(r) /\ (Leaving(r)' <=> Leaving(r))
  BY <1>1, <1>2 DEF Shown, Leaving
<1> QED
  BY <1>3, QuietRequest

(* Neither a request nor a device changes.                                 *)
LEMMA SameRequests ==
  ASSUME EngineInv, EngineInv', req' = req, dev' = dev
  PROVE  UNCHANGED Request!vars
<1>1. ASSUME NEW r \in Req
      PROVE  req'[r].st = req[r].st /\ Shown(r)' = Shown(r) /\ (Leaving(r)' <=> Leaving(r))
  BY DEF Shown, Leaving
<1> QED
  BY <1>1, QuietRequest

(* Only a request in progress changes, and stays in progress.              *)
LEMMA BusyRequest ==
  ASSUME EngineInv, EngineInv', dev' = dev, NEW r \in Req, req[r].st = "busy",
         req'[r].st = "busy", req'[r].dev = req[r].dev,
         \A x \in Req : x # r => req'[x] = req[x]
  PROVE  UNCHANGED Request!vars
<1>1. ASSUME NEW x \in Req
      PROVE  req'[x].st = req[x].st /\ Shown(x)' = Shown(x) /\ (Leaving(x)' <=> Leaving(x))
  BY DEF Shown, Leaving
<1> QED
  BY <1>1, QuietRequest

(* ohci_intr_procdoneq: a piece, a completion, a cancelled request or one  *)
(* that is queued again.                                                   *)
LEMMA ProcRequest ==
  ASSUME EngineInv, EngineInv', NEW t \in Td, ProcTd(t)
  PROVE  [Request!Next]_(Request!vars)
<1>0. TypeOK
  BY DEF EngineInv, IInv
<1>1. AtWork(t) /\ dev' = dev
  BY
     DEF ProcTd, ProcPiece, ProcSync, ProcIntrCancelled, ProcIntrAgain,
         ProcNoDevice, AtWork
<1>2. PICK r \in Req : /\ r = ref[t] /\ req[r].st = "busy" /\ req[r].dev \in Dev
                       /\ cc[t] \in Status /\ cc[t] # "cancelled"
  BY <1>0, <1>1, AtWorkRefers DEF TypeOK, Cond, Status
<1>3. CASE ProcPiece(t)
  <2>1. /\ req'[r].st = "busy" /\ req'[r].dev = req[r].dev
        /\ \A x \in Req : x # r => req'[x] = req[x]
    BY <1>0, <1>2, <1>3 DEF ProcPiece, TypeOK
  <2> QED
    BY <1>1, <1>2, <2>1, BusyRequest
<1>4. CASE ProcSync(t)
  <2>1. PICK s \in Status : s = Reported(r, cc[t]) /\ (s = "cancelled" <=> Leaving(r))
    BY <1>0, <1>2, ReportedType DEF Reported, Leaving
  <2>2. /\ req'[r].st = "done" /\ req'[r].status = s /\ r \notin IntrReq
        /\ \A x \in Req : x # r => req'[x] = req[x]
    BY <1>0, <1>2, <1>4, <2>1 DEF ProcSync, Done, TypeOK
  <2>3. Request!Complete(r, s)
    BY <1>1, <1>2, <2>1, <2>2, CompleteRequest
  <2> QED
    BY <2>3 DEF Request!Next
<1>5. CASE ProcIntrCancelled(t)
  <2>1. /\ req'[r] = IdleReq /\ r \in IntrReq /\ Leaving(r)
        /\ \A x \in Req : x # r => req'[x] = req[x]
    BY <1>0, <1>2, <1>5 DEF ProcIntrCancelled, Reported, Leaving, TypeOK
  <2>2. Request!Cancel(r)
    BY <1>1, <1>2, <2>1, CancelRequest
  <2> QED
    BY <2>2 DEF Request!Next
<1>6. CASE ProcIntrAgain(t)
  <2>1. CASE req' = req
    BY <1>1, <2>1, SameRequests
  <2>2. CASE req' = [req EXCEPT ![r].status = "noerr"]
    <3>1. /\ req'[r].st = "busy" /\ req'[r].dev = req[r].dev
          /\ \A x \in Req : x # r => req'[x] = req[x]
      BY <1>0, <1>2, <2>2 DEF TypeOK
    <3> QED
      BY <1>1, <1>2, <3>1, BusyRequest
  <2> QED
    BY <1>2, <1>6, <2>1, <2>2 DEF ProcIntrAgain, Requeue
<1>7. CASE ProcNoDevice(t)
  BY <1>1, <1>7, SameRequests DEF ProcNoDevice
<1> QED
  BY <1>3, <1>4, <1>5, <1>6, <1>7 DEF ProcTd

(* ohci_ept_delete: a piece, or a request that completes as cancelled.     *)
LEMMA DrainRequest ==
  ASSUME EngineInv, EngineInv', DrainTd
  PROVE  [Request!Next]_(Request!vars)
<1>0. TypeOK /\ OneRemoval
  BY DEF EngineInv, IInv
<1>1. PICK r \in Req : /\ r = ref[Head(queue[Doomed])] /\ req[r].st = "busy"
                       /\ req[r].dev = rmdev /\ rmdev \in Dev
  BY DrainRefers
<1>2. /\ req'[r] = Drained(r) /\ dev' = dev /\ Leaving(r)
      /\ \A x \in Req : x # r => req'[x] = req[x]
  BY <1>0, <1>1 DEF DrainTd, TypeOK, OneRemoval, Leaving
<1>3. CASE req[r].tdcount > 1
  <2>1. Drained(r) = [req[r] EXCEPT !.tdcount = @ - 1, !.status = "cancelled"]
    BY <1>3 DEF Drained
  <2>2. req'[r].st = "busy" /\ req'[r].dev = req[r].dev
    BY <1>0, <1>1, <1>2, <2>1 DEF TypeOK
  <2>3. UNCHANGED Request!vars
    BY <1>1, <1>2, <2>2, BusyRequest
  <2> QED
    BY <2>3
<1>4. CASE ~(req[r].tdcount > 1) /\ r \in IntrReq
  <2>1. req'[r] = IdleReq
    BY <1>2, <1>4 DEF Drained
  <2>2. Request!Cancel(r)
    BY <1>1, <1>2, <1>4, <2>1, CancelRequest
  <2> QED
    BY <2>2 DEF Request!Next
<1>5. CASE ~(req[r].tdcount > 1) /\ r \notin IntrReq
  <2>1. Drained(r) = [req[r] EXCEPT !.st = "done", !.tdcount = 0, !.status = "cancelled"]
    BY <1>5 DEF Drained
  <2>2. req'[r].st = "done" /\ req'[r].status = "cancelled" /\ "cancelled" \in Status
    BY <1>0, <1>2, <2>1 DEF TypeOK, Status
  <2>3. Request!Complete(r, "cancelled")
    BY <1>1, <1>2, <1>5, <2>2, CompleteRequest
  <2> QED
    BY <2>2, <2>3 DEF Request!Next
<1> QED
  BY <1>3, <1>4, <1>5

(* Clearing an H bit is nothing to a request.                              *)
LEMMA StandingRequest ==
  ASSUME Standing
  PROVE  UNCHANGED Request!vars
<1>1. req' = req /\ dev' = dev /\ ref' = ref
  BY DEF Standing, LoadHead, StoreHead, Undefined, vars
<1> QED
  BY <1>1 DEF Request!vars, RState, RStatus, RLeaving, RHeld, Shown, Leaving

(* Every step of the engine is a step of UsbRequest or none.               *)
LEMMA RequestStep == Sound /\ Sound' /\ [Next]_vars => [Request!Next]_(Request!vars)
<1> SUFFICES ASSUME Sound, Sound', [Next]_vars, ~Standing
             PROVE  [Request!Next]_(Request!vars)
  BY StandingRequest
<1>0. EngineInv /\ EngineInv'
  BY NotLost DEF Sound
<1>1. CASE \E d \in Dev, p \in Pipe : \/ CreatePipe(d, p) /\ dev[d] = "absent"
                                         /\ dev' = [dev EXCEPT ![d] = "present"]
                                      \/ CreatePipe(d, p) /\ dev' = dev
  BY <1>0, <1>1, AttachQuiet
<1>2. CASE \E d \in Dev, p \in Pipe, r \in Req, n \in 1..MaxTds : Submit(d, p, r, n)
  <2>1. \E r \in Req : Request!Queue(r)
    BY <1>0, <1>2, QueueRequest
  <2> QED
    BY <2>1 DEF Request!Next
<1>3. CASE \E r \in Req : SyncReturn(r)
  <2>1. \E r \in Req : Request!Release(r)
    BY <1>0, <1>3, ReleaseRequest
  <2> QED
    BY <2>1 DEF Request!Next
<1>4. CASE \E d \in Dev : Unplug(d)
  <2>1. \E rs \in SUBSET Req : Request!Unplug(rs)
    BY <1>0, <1>4, UnplugRequest
  <2> QED
    BY <2>1 DEF Request!Next
<1>5. CASE Detach
  BY <1>0, <1>5, GoneRequest DEF Request!Next
<1>6. CASE \E t \in Td : ProcTd(t)
  BY <1>0, <1>6, ProcRequest
<1>7. CASE DrainTd
  BY <1>0, <1>7, DrainRequest
<1>8. CASE \/ \E e \in Ept, c \in Cond : HcRetire(e, c)
           \/ HcFrame \/ Poll \/ LastPoll \/ DestroyPipe \/ FreeEpt
  <2>1. req' = req /\ dev' = dev
    BY <1>8 DEF HcRetire, HcFrame, Poll, LastPoll, DestroyPipe, FreeEpt
  <2> QED
    BY <1>0, <2>1, SameRequests
<1> QED
  BY <1>1, <1>2, <1>3, <1>4, <1>5, <1>6, <1>7, <1>8, ConstAssumption
     DEF Next, Attach, OpenPipe, Standing

(* The engine implements UsbRequest: a queued request completes exactly    *)
(* once, after every TD that refers to it is back; its status is           *)
(* "cancelled" just when its device is being removed, and stays what it is *)
(* until the request is freed; unplugging completes what the device still  *)
(* has, and nothing else.                                                  *)
THEOREM RequestsKept == Spec => ImplementsRequest
<1> QED
  BY Soundness, RequestInit, RequestStep, PTL
     DEF Spec, ImplementsRequest, Request!Spec
=============================================================================
