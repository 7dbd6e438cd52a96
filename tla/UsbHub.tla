------------------------------- MODULE UsbHub -------------------------------
(***************************************************************************)
(* Hot plug: the hub driver libxenon/drivers/usb/usbhub.c, the emulated    *)
(* root hub at the end of ohci.c, and usb_daemon, usb_create_device and    *)
(* the address table of usbd.c.                                            *)
(*                                                                         *)
(* The user plugs and unplugs gadgets; the ports' registers record that;   *)
(* the driver, one thread, learns of it by a hub's interrupt request, then *)
(* walks its tree of usbdev_t blocks and scans the ports of flagged hubs.  *)
(* Whenever it waits for a real device it polls, so interrupt requests     *)
(* complete in the middle of a scan; requests to the root hub are answered *)
(* on the spot.  A request to a gadget that is gone fails and leaves the   *)
(* caller's buffer as it was.                                              *)
(***************************************************************************)
EXTENDS Integers, Sequences, FiniteSets

CONSTANTS
  Hub,         \* gadgets that are hubs
  Func,        \* other gadgets, all of a class some driver knows
  Root,        \* the root hub: the emulated gadget and its usbdev_t
  Dev,         \* usbdev_t blocks of the other devices
  NPorts,      \* ports of every hub
  MaxAddr,     \* USB_MAX_DEVICES - 1
  MaxPlugs,    \* most times the user plugs or unplugs: bounds the model only
  NoDev, Nowhere

Gadget == Hub \cup Func
Node == Dev \cup {Root}
Port == 1..NPorts
Place == (Hub \cup {Root}) \X Port

ASSUME HubAssumption ==
  /\ IsFiniteSet(Dev) /\ IsFiniteSet(Gadget)
  /\ Hub \cap Func = {} /\ Root \notin Gadget \cup Dev
  /\ NPorts \in 1..7
  /\ MaxAddr \in Nat /\ MaxAddr > Cardinality(Dev)
  /\ MaxPlugs \in Nat
  /\ NoDev \notin Node /\ Nowhere \notin (Gadget \cup {Root}) \X Port
  /\ "default" \notin Node \cup {NoDev}

VARIABLES
  at,         \* where each gadget is plugged in
  powered,    \* ports with power
  change,     \* status-change bits of each port
  resetting,  \* ports in reset
  mine,       \* the usbdev_t whose address a gadget answers to
  rhsc,       \* the RHSC bit of R_OHCI_INTSTATUS
  plugs,      \* what the user has done so far
  masked,     \* M_OHCI_INT_RHSC in ohci_intdisable
  intreq,     \* interrupt requests queued for each hub
  flag,       \* UHUB_FLG_NEEDSCAN of each hub
  busScan,    \* UB_FLG_NEEDSCAN of the bus
  node,       \* the usbdev_t blocks
  table,      \* ub_devices[]
  displaced,  \* history: blocks another one has replaced in uhub_devices[]
  pc,         \* where the driver is
  walk,       \* the calls of usbhub_map_tree1: hub and child last visited
  port,       \* idx + 1 in usbhub_scan_ports
  cur,        \* *portstatus
  new         \* newdev

wireVars == <<at, powered, mine, plugs>>
portVars == <<change, resetting, rhsc>>
noteVars == <<masked, intreq, flag, busScan>>
treeVars == <<node, table, displaced>>
scanVars == <<walk, port, cur, new>>
vars == <<wireVars, portVars, noteVars, treeVars, pc, scanVars>>

Bits == {"connect", "enable", "reset"}
PortStatus == [conn : BOOLEAN, rst : BOOLEAN, chg : SUBSET Bits]
NoStatus == [conn |-> FALSE, rst |-> FALSE, chg |-> {}]

NoSlots == [p \in Port |-> NoDev]
Blank == [used |-> FALSE, hub |-> FALSE, drv |-> FALSE, addr |-> 0,
          slot |-> NoSlots]

(* usb_initroot and usbhub_attach for the root hub.                        *)
Init ==
  /\ at \in [Gadget -> {Nowhere}]
  /\ powered = {} /\ resetting = {}
  /\ change = [x \in Place |-> {}]
  /\ mine = [g \in Gadget |-> NoDev]
  /\ rhsc = FALSE /\ masked = FALSE
  /\ plugs = 0
  /\ intreq = [n \in Node |-> 0]
  /\ flag = [n \in Node |-> n = Root]
  /\ busScan = TRUE
  /\ node = [n \in Node |-> IF n = Root THEN [Blank EXCEPT !.used = TRUE,
                                    !.hub = TRUE, !.drv = TRUE, !.addr = 1]
                            ELSE Blank]
  /\ table = [a \in 1..MaxAddr |-> IF a = 1 THEN Root ELSE NoDev]
  /\ displaced = {}
  /\ pc = "main"
  /\ walk = <<>> /\ port = 1 /\ cur = NoStatus /\ new = NoDev

-----------------------------------------------------------------------------
(* What hangs below what.                                                  *)

(* All that is reached from S in at most n steps of children.              *)
Reach(S, children(_), n) ==
  LET f[k \in 0..n] ==
        IF k = 0 THEN S ELSE f[k - 1] \cup UNION {children(x) : x \in f[k - 1]}
  IN  f[n]

PluggedInto(g) == {x \in Gadget : at[x] # Nowhere /\ at[x][1] = g}
Under(g) == Reach({g}, PluggedInto, Cardinality(Gadget))

Kids(n) == {node[n].slot[p] : p \in Port} \ {NoDev}
Below(n) == Reach({n}, Kids, Cardinality(Dev))

-----------------------------------------------------------------------------
(* The user and the hubs' hardware.                                        *)

Occupant(x) == {g \in Gadget : at[g] = x}

(* The change bits cs of port x come up; the root hub tells the controller.*)
Raise(x, cs) ==
  /\ change' = [change EXCEPT ![x] = @ \cup cs]
  /\ rhsc' = (rhsc \/ (x[1] = Root /\ cs # {}))

Plug(g, x) ==
  /\ plugs < MaxPlugs /\ plugs' = plugs + 1
  /\ at[g] = Nowhere /\ Occupant(x) = {} /\ x[1] \notin Under(g)
  /\ at' = [at EXCEPT ![g] = x]
  /\ Raise(x, IF x \in powered THEN {"connect"} ELSE {})
  /\ UNCHANGED <<powered, mine, resetting, noteVars, treeVars, pc, scanVars>>

(* Whatever hangs on the gadget loses its power, and so its address.       *)
Unplug(g) ==
  LET x == at[g]
      dead == {y \in Place : y[1] \in Under(g)}
      cs == IF x \notin powered THEN {}
            ELSE IF mine[g] = NoDev THEN {"connect"} ELSE {"connect", "enable"}
  IN  /\ plugs < MaxPlugs /\ plugs' = plugs + 1
      /\ x # Nowhere
      /\ at' = [at EXCEPT ![g] = Nowhere]
      /\ mine' = [h \in Gadget |-> IF h \in Under(g) THEN NoDev ELSE mine[h]]
      /\ powered' = powered \ dead
      /\ resetting' = resetting \ (dead \cup {x})
      /\ change' = [y \in Place |-> CASE y \in dead -> {}
                                      [] y = x -> change[y] \cup cs
                                      [] OTHER -> change[y]]
      /\ rhsc' = (rhsc \/ (x[1] = Root /\ cs # {}))
      /\ UNCHANGED <<noteVars, treeVars, pc, scanVars>>

(* The reset of a port ends: the gadget there answers to address 0.        *)
ResetEnds(x) ==
  /\ x \in resetting
  /\ resetting' = resetting \ {x}
  /\ Raise(x, {"reset"})
  /\ mine' = [g \in Gadget |-> IF at[g] = x THEN "default" ELSE mine[g]]
  /\ UNCHANGED <<at, powered, plugs, noteVars, treeVars, pc, scanVars>>

-----------------------------------------------------------------------------
(* Requests to a hub.                                                      *)

Answers(n) == n = Root \/ \E g \in Gadget : mine[g] = n
UnitOf(n) == IF n = Root THEN Root ELSE CHOOSE g \in Gadget : mine[g] = n
PlaceOf(n, p) == <<UnitOf(n), p>>

(* usb_std_request: the setup, data and status stages of a request that    *)
(* asks for something.  The caller's buffer keeps what it held when there  *)
(* is no answer.                                                           *)
Requested(n, answer, held) == IF Answers(n) THEN answer ELSE held

(* What a port of a hub says of itself.                                    *)
PortSays(x) ==
  [conn |-> Occupant(x) # {} /\ x \in powered,
   rst |-> x \in resetting, chg |-> change[x]]

(* usbhub_get_port_status.                                                 *)
Observed(n, p) == Requested(n, PortSays(PlaceOf(n, p)), cur)

(* usbhub_clear_port_feature; for the root hub, ohci_roothub_req takes     *)
(* interrupts again when the port has no change left.                      *)
Clear(n, p, cs) ==
  IF Answers(n)
  THEN LET x == PlaceOf(n, p)
       IN  /\ change' = [change EXCEPT ![x] = @ \ cs]
           /\ masked' = (masked /\ ~(n = Root /\ cs # {} /\ change[x] \ cs = {}))
  ELSE UNCHANGED <<change, masked>>

(* The hub whose ports are being scanned.                                  *)
Scanned == walk[Len(walk)][1]

-----------------------------------------------------------------------------
(* Polling.                                                                *)

(* Mutation: the callback queues the request again itself. *)
Callback_Requeues(n) ==
  /\ UNCHANGED intreq
  /\ flag' = [flag EXCEPT ![n] = TRUE]
  /\ busScan' = TRUE

(* usbhub_ireq_callback for a report of hub n.                             *)
Callback(n) ==
  /\ intreq' = [intreq EXCEPT ![n] = @ - 1]
  /\ flag' = [flag EXCEPT ![n] = TRUE]
  /\ busScan' = TRUE

(* ohci_intr writes all bits of the status register back, the masked one   *)
(* too; ohci_roothub_statchg completes the root hub's request.             *)
Seen == ~masked /\ \E p \in Port : change[<<Root, p>>] # {}

Intr ==
  /\ rhsc' = FALSE
  /\ IF rhsc /\ Seen
     THEN /\ masked' = TRUE
          /\ IF intreq[Root] > 0 THEN Callback(Root)
             ELSE UNCHANGED <<intreq, flag, busScan>>
     ELSE UNCHANGED noteVars

(* The main loop polls, and so does every wait for a real device.          *)
Polling ==
  \/ pc \in {"main", "identify", "configure"}
  \/ pc \in {"power", "status", "clear", "reset", "resetting"} /\ Scanned # Root

Poll ==
  /\ Polling /\ rhsc
  /\ Intr
  /\ UNCHANGED <<wireVars, change, resetting, treeVars, pc, scanVars>>

(* The completion of another hub's interrupt request: a report, or "device *)
(* not responding" from a hub that is gone, which only frees the request.  *)
HubReport(n) ==
  /\ Polling /\ n # Root /\ intreq[n] > 0
  /\ IF Answers(n) THEN /\ \E p \in Port : change[PlaceOf(n, p)] # {}
                        /\ Callback(n)
     ELSE /\ intreq' = [intreq EXCEPT ![n] = @ - 1]
          /\ UNCHANGED <<flag, busScan>>
  /\ UNCHANGED <<wireVars, portVars, masked, treeVars, pc, scanVars>>

-----------------------------------------------------------------------------
(* The walk of the tree: usbhub_map_tree1 with usbhub_scan1.               *)

(* The visit of a hub scans it if it is flagged, and then its children.    *)
Visit(frames, n) ==
  /\ walk' = Append(frames, <<n, 0>>)
  /\ flag' = [flag EXCEPT ![n] = FALSE]
  /\ pc' = IF flag[n] THEN "power" ELSE "walk"

(* usb_daemon.                                                             *)
Daemon ==
  /\ pc = "main" /\ busScan
  /\ busScan' = FALSE
  /\ Visit(<<>>, Root)
  /\ UNCHANGED <<wireVars, portVars, masked, intreq, treeVars, port, cur, new>>

Frames == SubSeq(walk, 1, Len(walk) - 1)

Later(n, i) == {p \in Port : p > i /\ node[n].slot[p] # NoDev}

Descend ==
  LET n == Scanned
      i == walk[Len(walk)][2]
  IN  /\ pc = "walk"
      /\ \E p \in Later(n, i) :
           /\ \A q \in Later(n, i) : p <= q
           /\ LET frames == Append(Frames, <<n, p>>)
                  c == node[n].slot[p]
              IN  IF node[c].hub THEN Visit(frames, c)
                  ELSE walk' = frames /\ UNCHANGED <<flag, pc>>
      /\ UNCHANGED <<wireVars, portVars, masked, intreq, busScan, treeVars,
                     port, cur, new>>

(* Mutation: the bus flag is cleared at the end of the walk. *)
Ascend_ClearsFlag ==
  /\ pc = "walk"
  /\ Later(Scanned, walk[Len(walk)][2]) = {}
  /\ walk' = Frames
  /\ pc' = IF Frames = <<>> THEN "main" ELSE "walk"
  /\ busScan' = (busScan /\ Frames # <<>>)
  /\ UNCHANGED <<wireVars, portVars, masked, intreq, flag, treeVars, port, cur,
                 new>>

Ascend ==
  /\ pc = "walk"
  /\ Later(Scanned, walk[Len(walk)][2]) = {}
  /\ walk' = Frames
  /\ pc' = IF Frames = <<>> THEN "main" ELSE "walk"
  /\ UNCHANGED <<wireVars, portVars, noteVars, treeVars, port, cur, new>>

-----------------------------------------------------------------------------
(* usbhub_scan_ports.                                                      *)

(* The first loop turns the power on where it is off.  A gadget there then *)
(* shows up as connected.  The buffer comes from malloc: a hub that does   *)
(* not answer leaves it with anything in it.                               *)
PowerOn ==
  LET n == Scanned
      off == {x \in Place : x[1] = UnitOf(n)} \ powered
      found == {x \in off : Occupant(x) # {}}
  IN  /\ pc = "power"
      /\ IF Answers(n)
         THEN /\ powered' = powered \cup off
              /\ change' = [x \in Place |-> IF x \in found THEN {"connect"}
                                            ELSE change[x]]
              /\ rhsc' = (rhsc \/ (n = Root /\ found # {}))
              /\ cur' = Observed(n, NPorts)
         ELSE /\ cur' \in PortStatus
              /\ UNCHANGED <<powered, change, rhsc>>
      /\ port' = 1
      /\ pc' = "status"
      /\ UNCHANGED <<at, mine, plugs, resetting, noteVars, treeVars, walk, new>>

(* Mutation: the status of the port before is used. *)
ReadStatus_Skipped ==
  /\ pc = "status"
  /\ pc' = "clear"
  /\ UNCHANGED <<wireVars, portVars, noteVars, treeVars, walk, port, cur, new>>

(* The second loop: what does the port say?                                *)
ReadStatus ==
  /\ pc = "status"
  /\ cur' = Observed(Scanned, port)
  /\ pc' = "clear"
  /\ UNCHANGED <<wireVars, portVars, noteVars, treeVars, walk, port, new>>

(* Mutation: the loop begins anew. *)
NextPort_Wraps ==
  /\ port' = IF port < NPorts THEN port + 1 ELSE 1
  /\ pc' = "status"

NextPort ==
  IF port < NPorts THEN port' = port + 1 /\ pc' = "status"
  ELSE port' = 1 /\ pc' = "queue"

(* The changes of connection and enabling it saw are cleared; a change of  *)
(* connection is then dealt with.                                          *)
ClearChanges ==
  /\ pc = "clear"
  /\ Clear(Scanned, port, cur.chg \ {"reset"})
  /\ IF "connect" \in cur.chg
     THEN pc' = (IF cur.conn THEN "reset" ELSE "remove") /\ UNCHANGED port
     ELSE NextPort
  /\ UNCHANGED <<wireVars, resetting, rhsc, intreq, flag, busScan, treeVars,
                 walk, cur, new>>

(* usbhub_reset_device: reset the port.  The root hub answers the attempt  *)
(* to reset an empty port with a change of connection.                     *)
StartReset ==
  LET n == Scanned
      x == PlaceOf(n, port)
  IN  /\ pc = "reset"
      /\ IF ~Answers(n) THEN UNCHANGED portVars
         ELSE IF Occupant(x) # {} THEN /\ resetting' = resetting \cup {x}
                                       /\ UNCHANGED <<change, rhsc>>
         ELSE /\ Raise(x, IF n = Root THEN {"connect"} ELSE {})
              /\ UNCHANGED resetting
      /\ pc' = "resetting"
      /\ UNCHANGED <<wireVars, noteVars, treeVars, scanVars>>

(* It reads the status until the port is out of reset.                     *)
StillResetting ==
  /\ pc = "resetting"
  /\ Observed(Scanned, port).rst
  /\ cur' = Observed(Scanned, port)
  /\ UNCHANGED <<wireVars, portVars, noteVars, treeVars, pc, walk, port, new>>

(* Then a new device is created on address 0.  The model has to have a     *)
(* block left.                                                             *)
CreateDevice ==
  LET n == Scanned
      free == {d \in Dev : ~node[d].used}
      d == CHOOSE x \in free : TRUE
  IN  /\ pc = "resetting" /\ free # {}
      /\ ~Observed(n, port).rst
      /\ cur' = Observed(n, port)
      /\ Clear(n, port, {"reset"})
      /\ node' = [node EXCEPT ![d] = [Blank EXCEPT !.used = TRUE]]
      /\ new' = d
      /\ mine' = [g \in Gadget |-> IF mine[g] = "default" /\ Answers(n)
                                      /\ at[g] = PlaceOf(n, port)
                                   THEN d ELSE mine[g]]
      /\ pc' = "identify"
      /\ UNCHANGED <<at, powered, plugs, resetting, rhsc, intreq, flag, busScan,
                     table, displaced, walk, port>>

(* usb_get_device_descriptor copies from a buffer that comes from malloc:  *)
(* of a device that is gone it says anything.                              *)
SaysHub(d) == Requested(d, {UnitOf(d) \in Hub}, BOOLEAN)

(* usb_get_config_descriptor: with what it says, has the device one of the *)
(* drivers?  The one for game controllers goes by the product number in    *)
(* the device descriptor, and does so even if nothing could be read.       *)
HasDriver(d) == Requested(d, {TRUE}, BOOLEAN)

(* usb_new_address: the first address that is free.                        *)
NewAddress ==
  CHOOSE a \in DOMAIN table :
    table[a] = NoDev /\ \A b \in 1..a - 1 : table[b] # NoDev

(* usb_set_address enters the device into the table whether the request    *)
(* succeeded or not.                                                       *)
SetAddress(d, a) == table' = [table EXCEPT ![a] = d]

(* The device descriptor says whether it is a hub.                         *)
Identify ==
  /\ pc = "identify"
  /\ SetAddress(new, NewAddress)
  /\ \E hub \in SaysHub(new) :
       node' = [node EXCEPT ![new].addr = NewAddress, ![new].hub = hub]
  /\ pc' = "configure"
  /\ UNCHANGED <<wireVars, portVars, noteVars, displaced, scanVars>>

(* usbhub_attach: a new hub wants a scan.                                  *)
Attached(d) ==
  /\ flag' = [flag EXCEPT ![d] = node[d].hub]
  /\ busScan' = (busScan \/ node[d].hub)

(* The configuration descriptor is read, the device gets its slot, and the *)
(* driver for its class attaches.  A hub that went away in between has no  *)
(* endpoint descriptor, and usbhub_attach follows a null pointer.          *)
Configure ==
  LET n == Scanned
      old == node[n].slot[port]
  IN  /\ pc = "configure"
      /\ \E drv \in HasDriver(new) :
           node' = [node EXCEPT ![n].slot[port] = new, ![new].drv = drv]
      /\ displaced' = IF old = NoDev THEN displaced ELSE displaced \cup Below(old)
      /\ new' = NoDev
      /\ IF node[new].hub /\ ~Answers(new)
         THEN pc' = "null_descr" /\ UNCHANGED <<port, flag, busScan>>
         ELSE NextPort /\ Attached(new)
      /\ UNCHANGED <<wireVars, portVars, masked, intreq, table, walk, cur>>

(* Mutation: the devices below a hub stay. *)
Doomed_OnlyItself(d) == {d}

(* usbhub_detach of a hub takes all devices below it away.                 *)
Doomed(d) == Below(d)

(* Mutation: the address stays taken. *)
Destroy_KeepsAddress(n, gone) ==
  /\ node' = [m \in Node |->
                IF m \in gone THEN Blank
                ELSE IF m = n THEN [node[n] EXCEPT !.slot[port] = NoDev]
                ELSE node[m]]
  /\ UNCHANGED table
  /\ displaced' = displaced \ gone

(* The disconnect branch: usb_destroy_all_pipes cancels what is queued, a  *)
(* device with a driver gets one usb_poll, detach and usb_destroy_device   *)
(* free the blocks.                                                        *)
Destroy(n, gone) ==
  /\ node' = [m \in Node |->
                IF m \in gone THEN Blank
                ELSE IF m = n THEN [node[n] EXCEPT !.slot[port] = NoDev]
                ELSE node[m]]
  /\ table' = [a \in DOMAIN table |->
                 IF table[a] \in gone THEN NoDev ELSE table[a]]
  /\ displaced' = displaced \ gone

Remove ==
  LET n == Scanned
      d == node[n].slot[port]
      gone == Doomed(d)
      polled == rhsc /\ \E m \in gone : node[m].drv
      told == polled /\ Seen /\ intreq[Root] > 0
  IN  /\ pc = "remove" /\ d # NoDev
      /\ Destroy(n, gone)
      /\ NextPort
      /\ rhsc' = (rhsc /\ ~polled)
      /\ masked' = (masked \/ (polled /\ Seen))
      /\ busScan' = (busScan \/ told)
      /\ flag' = [m \in Node |-> m \notin gone /\ (flag[m] \/ (m = Root /\ told))]
      /\ intreq' = [m \in Node |-> IF m \in gone THEN 0
                                   ELSE IF m = Root /\ told THEN intreq[m] - 1
                                   ELSE intreq[m]]
      /\ UNCHANGED <<wireVars, change, resetting, walk, cur, new>>

(* With an empty slot usbhub_markdetached follows a null pointer.          *)
RemoveNothing ==
  /\ pc = "remove" /\ node[Scanned].slot[port] = NoDev
  /\ pc' = "null_dev"
  /\ UNCHANGED <<wireVars, portVars, noteVars, treeVars, scanVars>>

(* usbhub_queue_intreq, and back to the walk.                              *)
QueueIntr ==
  /\ pc = "queue"
  /\ intreq' = [intreq EXCEPT ![Scanned] = @ + 1]
  /\ pc' = "walk"
  /\ UNCHANGED <<wireVars, portVars, masked, flag, busScan, treeVars, scanVars>>

Crashed == pc \in {"null_dev", "null_descr"}
Undefined == Crashed /\ UNCHANGED vars

-----------------------------------------------------------------------------
Scan == PowerOn \/ ReadStatus \/ ClearChanges \/ StartReset \/ StillResetting
        \/ CreateDevice \/ Identify \/ Configure \/ Remove \/ RemoveNothing
        \/ QueueIntr

Next ==
  \/ \E g \in Gadget, x \in Place : Plug(g, x)
  \/ \E g \in Gadget : Unplug(g)
  \/ \E x \in Place : ResetEnds(x)
  \/ Poll \/ \E n \in Node : HubReport(n)
  \/ Daemon \/ Descend \/ Ascend
  \/ Scan
  \/ Undefined

Spec == Init /\ [][Next]_vars

(* Fairness: the main loop polls and runs the daemon again and again, the  *)
(* driver's code runs on, and a reset ends.                                *)
Driver == Daemon \/ Descend \/ Ascend \/ Scan

FairSpec == /\ Spec
            /\ WF_vars(Driver) /\ WF_vars(Poll)
            /\ \A x \in Place : WF_vars(ResetEnds(x))

-----------------------------------------------------------------------------
(* Properties.                                                             *)

(* usbhub_scan_ports of hub n is under way.                                *)
Scanning(n) == pc \notin {"main", "walk"} /\ n = Scanned

(* Each hub is watched by at most one interrupt request, which writes to   *)
(* the one buffer it has: a second one is never queued, the next scan not  *)
(* begun while one is out.  The root hub's is never lost: it is queued, or *)
(* its report is about to be dealt with.                                   *)
WatchExact ==
  \A n \in Node :
    LET watches == intreq[n] + Cardinality({k \in {1} : flag[n]})
                             + Cardinality({k \in {1} : Scanning(n)})
    IN  /\ watches <= 1
        /\ ~node[n].used => watches = 0
        /\ n = Root => watches = 1

(* A hub that is flagged, by a report that came in at any point of a walk, *)
(* gets its scan: the walk is still to come to it, or there will be        *)
(* another.                                                                *)
Ahead ==
  UNION {UNION {Below(node[walk[i][1]].slot[p]) : p \in Later(walk[i][1], walk[i][2])}
         : i \in DOMAIN walk}

ScanReached ==
  \A n \in Below(Root) : flag[n] => busScan \/ n \in Ahead

(* The tree is one: a block hangs in one slot of one hub, and a block in   *)
(* use hangs in the tree, is under construction, or was displaced when its *)
(* port saw a new device connected with no disconnection in between.       *)
TreeSound ==
  LET slots == {u \in Node \X Port : node[u[1]].slot[u[2]] # NoDev}
  IN  /\ \A u \in slots : /\ node[u[1]].used /\ node[u[1]].hub
                          /\ node[node[u[1]].slot[u[2]]].used
      /\ \A u, v \in slots : u # v => node[u[1]].slot[u[2]] # node[v[1]].slot[v[2]]
      /\ \A n \in Node : node[n].used => n \in Below(Root) \cup displaced \cup {new}
      /\ \A i \in DOMAIN walk : node[walk[i][1]].used

(* An address names one device: ub_devices[] has each device in use under  *)
(* its address and nothing that was freed.                                 *)
Addressed ==
  /\ \A n \in Node : node[n].used /\ node[n].addr # 0 => table[node[n].addr] = n
  /\ \A a \in DOMAIN table : table[a] # NoDev => /\ node[table[a]].used
                                                 /\ node[table[a]].addr = a

(* Only a device that no longer answers is taken away.                     *)
RemovesOnlyGone ==
  [][\A d \in Dev : node[d].used /\ Answers(d) => node'[d].used]_vars

(* usbhub_reset_device reads a hub that is gone, over and over.            *)
Stuck == pc = "resetting" /\ ~Answers(Scanned) /\ cur.rst

(* A flagged root hub is scanned to the end and watched again, unless the  *)
(* driver has followed a null pointer or is stuck in a reset.              *)
ScanEnds == flag[Root] ~> intreq[Root] > 0 \/ Crashed \/ Stuck

=============================================================================
