------------------------------ MODULE Storage ------------------------------
(***************************************************************************)
(* Files and devices: newlib's calls (drivers/newlib/newlib.c), the device *)
(* table (drivers/diskio/diskio.c), and under them the disc and the sticks *)
(* of modules IsoFile and UsbMass.  The program makes one call at a time;  *)
(* between its calls it lets the USB daemon look at the ports.  Discs and  *)
(* sticks come and go at any moment.                                       *)
(*                                                                         *)
(* Of the FAT file system only what it asks of the device is here: nothing *)
(* where a cache has it, else a read of sectors (storage_read_sectors).    *)
(* Modules FatVolume and FatFile have the rest.                            *)
(***************************************************************************)
EXTENDS IsoFile, UsbMass

CONSTANTS
  MAXFD, NUM_VOLUMES, NUM_DRIVES,
  Configs,          \* the configuration descriptors sticks may have
  Ahead,            \* BLOCK_CACHE_SECTOR_COUNT
  IsoPaths,         \* paths the program opens on the disc
  Amounts,          \* units it asks for
  MaxEvents         \* bound: calls of the program, changes of disc and sticks plugged in

ASSUME StorageAssumption ==
  /\ MAXFD \in Nat /\ MAXFD > 3
  /\ NUM_VOLUMES \in Nat \ {0} /\ NUM_DRIVES \in Nat \ {0}
  /\ Ahead \in Nat \ {0} /\ MaxEvents \in Nat
  /\ IsoPaths \subseteq Seq(STRING) \ {<<>>} /\ Amounts \subseteq Nat

VARIABLES
  devices, mounts,  \* the tables of diskio.c and newlib.c
  fds, given,       \* fd_array; history: the descriptors the program has
  known,            \* known[p]: what the daemon has attached in port p
  named,            \* sticks that have got a name
  call, calls,      \* the call in progress; calls until now
  lost              \* the program has gone through a null pointer or over its memory

svars == <<devices, mounts, fds, given, known, named, call, calls, lost>>
vars == <<ivars, mvars, svars>>

FDs == 0 .. MAXFD - 1
Volumes == 0 .. NUM_VOLUMES - 1
Drives == 1 .. NUM_DRIVES
None == -1
NoDevice == [ops |-> "", name |-> <<>>, mount |-> None, port |-> 0, stick |-> 0]
NoMount == [ops |-> "", name |-> <<>>, dev |-> 0]
NoFile == [ops |-> ""]
Unknown == [is |-> "none", stick |-> 0, dev |-> 0]
NoCall == [op |-> "none"]

Init ==
  /\ IsoInit /\ MassInit
  /\ devices = [d \in Drives |-> NoDevice]
  /\ mounts = [m \in Volumes |-> IF m = 0 THEN [NoMount EXCEPT !.ops = "console", !.name = <<"dev">>] ELSE NoMount]
  /\ fds = [f \in FDs |-> IF f < 3 THEN [ops |-> "console"] ELSE NoFile]
  /\ given = {0, 1, 2}
  /\ known = [p \in Ports |-> Unknown]
  /\ named = 0 /\ call = NoCall /\ calls = 0 /\ lost = FALSE

AtRest == call = NoCall /\ ~lost
Same == UNCHANGED <<devices, mounts, known, named>>
-----------------------------------------------------------------------------
(* The device table. *)

FreeDevices == {d \in Drives : devices[d].ops = ""}
FreeMounts == {m \in Volumes : mounts[m].ops = ""}
Opening(ops) == IF ops = "dvd" THEN "iso9660" ELSE "fat"     \* determine_filesystem

\* register_bdev and mount, but for what the file system reads: the device, 0
\* when the table is full.  A device has no mount when that table is.
register_bdev(ops, name, port, stick) ==
  IF FreeDevices = {} THEN UNCHANGED <<devices, mounts>>
  ELSE LET d == Lowest(FreeDevices)
           m == IF FreeMounts = {} THEN None ELSE Lowest(FreeMounts)
       IN /\ devices' = [devices EXCEPT ![d] =
               [ops |-> ops, name |-> name, mount |-> m, port |-> port, stick |-> stick]]
          /\ mounts' = IF m = None THEN mounts
                       ELSE [mounts EXCEPT ![m] = [ops |-> Opening(ops), name |-> name, dev |-> d]]

\* umount: the name stays, and the file system is not told, as mounts[0] is asked
\* whether it wants to be.
umount_Kept(m) == mounts' = mounts

umount(m) == mounts' = [mounts EXCEPT ![m].ops = ""]

\* unregister_bdev.  Without a device, or a device without a mount, memory at
\* an address near 0 is written.
unregister_bdev(d) ==
  /\ IF d = 0 \/ devices[d].mount = None THEN lost' \in BOOLEAN /\ UNCHANGED mounts
     ELSE umount(devices[d].mount) /\ UNCHANGED lost
  /\ devices' = IF d = 0 THEN devices ELSE [devices EXCEPT ![d].ops = ""]

\* dvd_init, called once.
DvdMade == \E d \in Drives : devices[d].name = <<"dvd">>

DvdInit ==
  /\ AtRest /\ ~DvdMade
  /\ register_bdev("dvd", <<"dvd">>, 0, 0)
  /\ UNCHANGED <<ivars, mvars, fds, given, known, named, call, calls, lost>>
-----------------------------------------------------------------------------
(* The daemon: usbmass_attach and usbmass_detach. *)

\* A stick whose descriptors usbmass_attach does not understand has no device.
AttachStrange(p) ==
  /\ AtRest /\ plug[p] # 0 /\ known[p] = Unknown
  /\ \E config \in Configs : ~Understood(config)
  /\ known' = [known EXCEPT ![p] = [is |-> "strange", stick |-> plug[p], dev |-> 0]]
  /\ UNCHANGED <<ivars, mvars, devices, mounts, fds, given, named, call, calls, lost>>

\* Mounting reads the partitions of the stick, and keeps the mount if it cannot.
AttachStick(p) ==
  /\ AtRest /\ plug[p] # 0 /\ known[p] = Unknown
  /\ \E config \in Configs : Understood(config)
  /\ named' = named + 1
  /\ register_bdev("stick", <<"ud", named'>>, p, plug[p])
  /\ LET d == IF FreeDevices = {} THEN 0 ELSE Lowest(FreeDevices)
     IN /\ known' = [known EXCEPT ![p] = [is |-> "stick", stick |-> plug[p], dev |-> d]]
        /\ call' = IF d = 0 \/ FreeMounts = {} THEN NoCall
                   ELSE [op |-> "mount", step |-> "fat", vol |-> Lowest(FreeMounts)]
  /\ UNCHANGED <<ivars, mvars, fds, given, calls, lost>>

\* What was attached is gone, or another one is in its place.
DetachStick(p) ==
  /\ AtRest /\ known[p] # Unknown /\ plug[p] # known[p].stick
  /\ unregister_bdev(known[p].dev)
  /\ PipesGone(p)
  /\ known' = [known EXCEPT ![p] = Unknown]
  /\ UNCHANGED <<ivars, plug, plugs, stalls, errors, dev, blf, status, rd,
                 fds, given, named, call, calls>>
-----------------------------------------------------------------------------
(* What the file system asks of a device: storage_read_sectors. *)

\* The sectors around the one that is wanted, and that one if they cannot all be read.
AskDevice(step, count) ==
  LET d == mounts[call.vol].dev
  IN IF devices[d].ops = "stick"
     THEN /\ StartStick(devices[d].port, devices[d].stick, 0, count)
          /\ call' = [call EXCEPT !.step = step]
          /\ UNCHANGED lost
     ELSE \* no operations any more, or the drive's, which fill four times the block
          lost' = TRUE /\ UNCHANGED <<rd, call>>

FatReads ==
  /\ call.op # "none" /\ call.step = "fat" /\ rd.pc = "idle" /\ ~lost
  /\ AskDevice("ahead", Ahead)
  /\ UNCHANGED <<ivars, plug, plugs, stalls, errors, dev, list, halted, blf, status, bad,
                 fds, given, calls>> /\ Same

\* A cache of the FAT file system or of the device has it.
FatCached ==
  /\ call.op # "none" /\ call.step = "fat" /\ ~lost
  /\ call' = [call EXCEPT !.step = "done"]
  /\ UNCHANGED <<ivars, mvars, fds, given, calls, lost>> /\ Same

\* A frame is over before the program asks again.
FatHasRead ==
  /\ call.op # "none" /\ rd.pc = "ret"
  /\ rd' = NotReading /\ status' = NoStatus /\ blf' = (blf /\ Serviceable)
  /\ call' = [call EXCEPT !.step = IF call.step = "ahead" /\ rd.num # 0 THEN "one" ELSE "done"]
  /\ UNCHANGED <<ivars, plug, plugs, stalls, errors, dev, list, halted, bad,
                 fds, given, calls, lost>> /\ Same

FatReadsOne ==
  /\ call.op # "none" /\ call.step = "one" /\ rd.pc = "idle"
  /\ AskDevice("single", 1)
  /\ UNCHANGED <<ivars, plug, plugs, stalls, errors, dev, list, halted, blf, status, bad,
                 fds, given, calls>> /\ Same
-----------------------------------------------------------------------------
(* The calls of the program. *)

Bounded == calls + swaps + plugs < MaxEvents
Called == Bounded /\ calls' = calls + 1

FreeFDs == {f \in FDs : fds[f].ops = ""}

\* What the file system's operations find in the descriptor: of a file on the disc
\* its handle, of one on a stick here only its volume.
HandleOf(f) == fds[f].h
VolumeOf(f) == fds[f].vol

\* vfs_console_open knows one name.
vfs_console_open(file) == file = <<"console">>

\* open, to the first mount; without a free descriptor it fails.
Open(at, file) ==
  /\ AtRest /\ Called
  /\ call' = IF FreeFDs = {} THEN NoCall
             ELSE [op |-> "open", step |-> "look", fd |-> Lowest(FreeFDs), at |-> at, file |-> file, vol |-> None]
  /\ UNCHANGED <<ivars, mvars, fds, given, lost>> /\ Same

\* The next mount the path begins with.
Matching == {m \in Volumes : m > call.vol /\ mounts[m].name = call.at}

NoSuchFile ==
  /\ call.op = "open" /\ call.step = "look" /\ Matching = {}
  /\ call' = NoCall
  /\ UNCHANGED <<ivars, mvars, fds, given, calls, lost>> /\ Same

\* Its file system opens the file.  A name that has stayed after umount leads
\* through a null pointer.
OpenOn ==
  /\ call.op = "open" /\ call.step = "look" /\ Matching # {} /\ ~lost
  /\ LET m == Lowest(Matching)
     IN CASE mounts[m].ops = "" ->
               lost' = TRUE /\ UNCHANGED <<ivars, fds, given, call>>
          [] mounts[m].ops = "console" ->
               /\ IF vfs_console_open(call.file)
                  THEN /\ fds' = [fds EXCEPT ![call.fd] = [ops |-> "console"]]
                       /\ given' = given \cup {call.fd}
                       /\ call' = NoCall
                  ELSE /\ call' = [call EXCEPT !.vol = m]
                       /\ UNCHANGED <<fds, given>>
               /\ UNCHANGED <<ivars, lost>>
          [] mounts[m].ops = "iso9660" ->
               /\ StartOpen(call.file)
               /\ call' = [call EXCEPT !.vol = m, !.step = "iso"]
               /\ UNCHANGED <<fds, given, lost>>
          [] mounts[m].ops = "fat" ->
               /\ call' = [call EXCEPT !.vol = m, !.step = "fat"]
               /\ UNCHANGED <<ivars, fds, given, lost>>
  /\ UNCHANGED <<mvars, calls>> /\ Same

\* _fat_open and _iso9660_open: the descriptor has its operations either way,
\* and when the file was not found nobody gets it, nor is it free again.
Opens(file, found) ==
  /\ fds' = [fds EXCEPT ![call.fd] = file]
  /\ given' = IF found THEN given \cup {call.fd} ELSE given
  /\ call' = IF found THEN NoCall ELSE [call EXCEPT !.step = "look"]

IsoOpened ==
  /\ call.op = "open" /\ call.step = "iso" /\ iso.pc = "ret"
  /\ Opens([ops |-> "iso9660", h |-> iso.ret], iso.ret > 0)
  /\ iso' = Idle
  /\ UNCHANGED <<mvars, disc, changed, swaps, fails, icache, dcache, joliet, root, percd_done, fh, missed,
                 calls, lost>> /\ Same

FatOpened ==
  /\ call.op = "open" /\ call.step = "done"
  /\ \E found \in BOOLEAN : Opens([ops |-> "fat", vol |-> call.vol], found)
  /\ UNCHANGED <<ivars, mvars, calls, lost>> /\ Same

FatMounted ==
  /\ call.op = "mount" /\ call.step = "done"
  /\ call' = NoCall
  /\ UNCHANGED <<ivars, mvars, fds, given, calls, lost>> /\ Same

\* read.
Read(f, n) ==
  /\ AtRest /\ Called
  /\ CASE fds[f].ops = "iso9660" ->
            /\ StartRead(HandleOf(f), n)
            /\ call' = [op |-> "read", step |-> "iso"]
       [] fds[f].ops = "fat" ->
            /\ call' = [op |-> "read", step |-> "fat", vol |-> VolumeOf(f)]
            /\ UNCHANGED ivars
       [] OTHER -> UNCHANGED <<ivars, call>>            \* EBADF, EINVAL
  /\ UNCHANGED <<mvars, fds, given, lost>> /\ Same

HasRead ==
  /\ call.op = "read" /\ call.step \in {"iso", "done"}
  /\ IF call.step = "iso" THEN iso.pc = "ret" /\ iso' = Idle ELSE UNCHANGED iso
  /\ call' = NoCall
  /\ UNCHANGED <<mvars, disc, changed, swaps, fails, icache, dcache, joliet, root, percd_done, fh, missed,
                 fds, given, calls, lost>> /\ Same

\* lseek, on what has a position.
LSeek(f, whence, offset) ==
  /\ AtRest /\ Called
  /\ fds[f].ops = "iso9660" /\ Seek(HandleOf(f), whence, offset)
  /\ UNCHANGED <<mvars, fds, given, call, lost>> /\ Same

\* close.
CloseFD(f) ==
  /\ AtRest /\ Called
  /\ IF fds[f].ops = "iso9660" THEN Close(HandleOf(f)) ELSE UNCHANGED ivars
  /\ fds' = [fds EXCEPT ![f] = NoFile]
  /\ given' = given \ {f}
  /\ UNCHANGED <<mvars, call, lost>> /\ Same

\* What the user does in the middle of a call to the disc or a read of the stick is
\* as good as done after it, but for a change of the disc or pulling out the stick.  What was done
\* to the drive before dvd_init is in the initial states.
OnDisc == call.op # "none" /\ call.step = "iso"
OnStick == rd.pc # "idle"

IsoSteps == OnDisc /\ IsoStep /\ UNCHANGED <<mvars, svars>>

MassSteps == ~lost /\ MassStep /\ UNCHANGED <<ivars, svars>>

\* The descriptors 1 and 2 are as 0.
Calls ==
  \/ \E file \in {<<"console">>, <<"else">>} : Open(<<"dev">>, file)
  \/ \E path \in IsoPaths : Open(<<"dvd">>, path)
  \/ \E n \in 1 .. named : Open(<<"ud", n>>, <<"file">>)
  \/ \E f \in given \ {1, 2} : (\E n \in Amounts : Read(f, n)) \/ CloseFD(f)
                        \/ \E w \in {"SEEK_SET", "SEEK_CUR", "SEEK_END"}, o \in {-1, 1} : LSeek(f, w, o)

InCall ==
  NoSuchFile \/ OpenOn \/ IsoOpened \/ FatOpened \/ FatMounted \/ HasRead
    \/ FatReads \/ FatCached \/ FatHasRead \/ FatReadsOne

User ==
  \/ /\ ~OnStick /\ ~lost /\ Bounded /\ DvdMade
     /\ \E d \in DOMAIN Image \cup {NoDisc} : SwapDisc(d)
     /\ UNCHANGED <<mvars, svars>>
  \/ /\ ~OnDisc /\ ~lost
     /\ \E p \in Ports : (Bounded /\ ~OnStick /\ PlugIn(p)) \/ PullOut(p)
     /\ UNCHANGED <<ivars, svars>>

Daemon == DvdInit \/ \E p \in Ports : AttachStrange(p) \/ AttachStick(p) \/ DetachStick(p)

Next == Calls \/ InCall \/ IsoSteps \/ MassSteps \/ User \/ Daemon

\* A call that waits polls on; frames go by; a stick that can answer does, and a
\* request to one that is gone fails.
Fairness ==
  /\ WF_vars(MassDriver /\ UNCHANGED <<ivars, svars>>)
  /\ WF_vars(HcFrame /\ UNCHANGED <<ivars, svars>>)
  /\ \A p \in Ports, e \in Ends :
       /\ WF_vars(HcTransfer(p, e) /\ UNCHANGED <<ivars, svars>>)
       /\ WF_vars(HcError(p, e) /\ ~Answering(p) /\ UNCHANGED <<ivars, svars>>)

Spec == Init /\ [][Next]_vars /\ Fairness
-----------------------------------------------------------------------------
\* A mounted device and its mount name each other, no mount is left of a device
\* that is gone, and the descriptors the program has are in use, with a handle
\* of their own on the disc each.
MountsSound ==
  ~lost =>
    /\ \A d \in Drives : devices[d].ops # "" /\ devices[d].mount # None =>
         /\ mounts[devices[d].mount] = [ops |-> Opening(devices[d].ops), name |-> devices[d].name, dev |-> d]
    /\ \A m \in Volumes \ {0} : mounts[m].ops # "" =>
         devices[mounts[m].dev].ops # "" /\ devices[mounts[m].dev].mount = m
    /\ \A f \in given : fds[f].ops # ""
    /\ LET onDisc == {f \in given : fds[f].ops = "iso9660"}
       IN \A f, g \in onDisc : fh[HandleOf(f)].first # 0 /\ (HandleOf(f) = HandleOf(g) => f = g)
=============================================================================
