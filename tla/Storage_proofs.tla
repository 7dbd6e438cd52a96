--------------------------- MODULE Storage_proofs ---------------------------
(***************************************************************************)
(* Files and devices, for any discs, sticks, tables and calls: devices,    *)
(* mounts and descriptors name each other, nothing that was read from one  *)
(* disc is taken for another's, and a stick gives the sectors it was asked *)
(* for.                                                                    *)
(***************************************************************************)
EXTENDS Storage, SequenceTheorems, WellFoundedInduction, TLAPS

(* Types of the disc's part. *)
Discs == DOMAIN Image \cup {NoDisc}
Blocks == [sector : Int, holds : Discs \X Int]
Caches == [1 .. NUM_CACHE_BLOCKS -> Blocks]
Handle == [first : Int, ptr : Nat, size : Nat, broken : BOOLEAN, of : Discs]
Unit == Discs \X Int \X Int
Component == STRING \cup {"console", "else", "file"}    \* equal to STRING
Paths == Seq(Component) \ {<<>>}

\* A call that looks for a file, one that reads, and what they end in.
IsoOpen == [pc : {"percd", "find"}, op : {"open"}, k : Nat, depth : Nat, goes_on : BOOLEAN,
            path : Paths, extent : Nat, left : Nat]
IsoRead == [pc : {"percd", "copy"}, op : {"read"}, k : Nat, depth : Nat, goes_on : {FALSE},
            h : Handles \ {0}, n : Nat, from : Nat, got : Seq(Unit), ret : {0}]
IsoHasRead == [pc : {"ret"}, op : {"read"}, k : Nat, depth : Nat, goes_on : {FALSE},
               h : Handles \ {0}, n : Nat, from : Nat, got : Seq(Unit), ret : Nat]
IsoReturned == [pc : {"ret"}, op : {"open"}, ret : Nat]
IsoFailed == [pc : {"ret"}, op : {"read"}, ret : {-1}]

IsoTyped ==
  /\ disc \in Discs /\ changed \in BOOLEAN /\ missed \in BOOLEAN
  /\ icache \in Caches /\ dcache \in Caches
  /\ joliet \in Nat /\ root \in [extent : Nat, size : Nat] /\ percd_done \in BOOLEAN
  /\ fh \in [Handles -> Handle] /\ fh[0].first = -1
  /\ \/ iso \in IsoOpen
     \/ iso \in IsoRead /\ (iso.pc = "percd" => iso.depth > 0)
     \/ iso \in IsoHasRead \cup IsoReturned \cup IsoFailed
     \/ iso \in {[pc |-> "lost"], Idle}

(* Types of the tables. *)
Names == {<<>>, <<"dev">>, <<"dvd">>} \cup ({"ud"} \X Nat)
DeviceEntry == [ops : {"", "dvd", "stick"}, name : Names, mount : Volumes \cup {None},
           port : Ports \cup {0}, stick : Nat]
MountEntry == [ops : {"", "console", "iso9660", "fat"}, name : Names, dev : Drives \cup {0}]
OpenFile == {NoFile, [ops |-> "console"]} \cup [ops : {"iso9660"}, h : Nat] \cup [ops : {"fat"}, vol : Int]
Steps == {"fat", "ahead", "one", "single", "done"}
Opening_ == [op : {"open"}, step : {"look", "iso"} \cup Steps, fd : FDs, at : Names, file : Paths,
           vol : Volumes \cup {None}]
Mounting == [op : {"mount"}, step : Steps, vol : Int]
Reading == [op : {"read"}, step : Steps, vol : Int]
ReadingDisc == [op : {"read"}, step : {"iso"}]
FromDisc(f) == fds[f].ops = "iso9660"

Tables ==
  /\ devices \in [Drives -> DeviceEntry]
  /\ mounts \in [Volumes -> MountEntry] /\ mounts[0].ops = "console"
  /\ fds \in [FDs -> OpenFile] /\ given \subseteq FDs
  /\ DOMAIN known = Ports /\ plug \in [Ports -> Nat] /\ plugs \in Nat /\ named \in Nat
  /\ call \in {NoCall} \cup Opening_ \cup Mounting \cup Reading \cup ReadingDisc

(* Devices and mounts name each other, and the daemon knows the device of  *)
(* a port: so it removes a device once, and with it its own mount.         *)
Paired ==
  /\ \A d \in Drives : devices[d].ops # "" /\ devices[d].mount # None =>
       mounts[devices[d].mount] = [ops |-> Opening(devices[d].ops), name |-> devices[d].name, dev |-> d]
  /\ \A m \in Volumes \ {0} : mounts[m].ops # "" =>
       /\ mounts[m].dev \in Drives
       /\ devices[mounts[m].dev].ops # "" /\ devices[mounts[m].dev].mount = m
  /\ \A p \in Ports : known[p].dev # 0 =>
       known[p].dev \in Drives /\ devices[known[p].dev].ops = "stick" /\ devices[known[p].dev].port = p

(* The call to the disc is the one the program makes, and so is the read   *)
(* of a stick.                                                             *)
OneCall ==
  /\ IF OnDisc THEN iso # Idle /\ (iso.pc # "lost" => iso.op = call.op) ELSE iso = Idle
  /\ "pc" \in DOMAIN rd /\ (OnStick => call.op # "none" /\ call.step \in {"ahead", "single"})

(* A handle the program has through a descriptor, or is about to get, is   *)
(* taken, and it has each through one descriptor.                          *)
Handed ==
  /\ \A f \in given : fds[f].ops # ""
  /\ \A f \in given : FromDisc(f) => fds[f].h \in Handles \ {0} /\ fh[fds[f].h].first # 0
  /\ \A f, g \in given : FromDisc(f) /\ FromDisc(g) /\ fds[f].h = fds[g].h => f = g
  /\ call.op = "open" => call.fd \notin given
  /\ iso \in IsoReturned /\ iso.ret # 0 =>
       /\ iso.ret \in Handles \ {0} /\ fh[iso.ret].first # 0
       /\ \A f \in given : FromDisc(f) => fds[f].h # iso.ret

MountsInv == IsoTyped /\ Tables /\ Paired /\ OneCall /\ Handed

(* What is cached, and the handles that still work, are of one disc: that  *)
(* in the drive, unless it has a change to report.                         *)
OfDisc(cache, d) == \A k \in DOMAIN cache : cache[k].sector # -1 => cache[k].holds = <<d, cache[k].sector>>
OneDisc(d) == OfDisc(icache, d) /\ OfDisc(dcache, d) /\ \A x \in Handles \ {0} : MayUse(x) => fh[x].of = d
KnownDisc == ~missed /\ iso.pc # "lost" => \E d \in Discs : OneDisc(d) /\ (~changed => d = disc)

(* Positions are in files, and a read has what was before its position.    *)
Within == \A x \in Handles \ {0} : fh[x].first >= 0 /\ fh[x].ptr <= fh[x].size
ReadingOn ==
  iso.pc = "copy" /\ ~missed =>
    /\ MayUse(iso.h)
    /\ iso.got = Halves(<<fh[iso.h].of, fh[iso.h].first>>, iso.from, Len(iso.got))
    /\ fh[iso.h].ptr = iso.from + Len(iso.got) /\ Len(iso.got) <= iso.n

DiscInv == KnownDisc /\ Within /\ ReadingOn /\ (~missed => ReadAsOpened)

-----------------------------------------------------------------------------
(* Block caches.  What is graded goes to the end of the list.              *)
LEMMA Graded ==
  ASSUME NEW c \in Caches, NEW k \in 1 .. NUM_CACHE_BLOCKS
  PROVE  /\ bgrad_cache(c, k) \in Caches
         /\ bgrad_cache(c, k)[NUM_CACHE_BLOCKS] = c[k]
         /\ \A i \in 1 .. NUM_CACHE_BLOCKS : \E j \in 1 .. NUM_CACHE_BLOCKS : bgrad_cache(c, k)[i] = c[j]
<1> DEFINE n == NUM_CACHE_BLOCKS
           S == Blocks
<1>0. n \in Nat \ {0} /\ c \in [1 .. n -> S]
  BY IsoAssumption, Zenon DEF IsoAssumption, Caches
<1> HIDE DEF n, S
<1> USE <1>0
<1> DEFINE t == SubSeq(c, 1, k - 1)
           u == SubSeq(c, k + 1, n)
           b == bgrad_cache(c, k)
<1>k. k \in 1 .. n
  BY DEF n
<1> USE <1>k
<1>1. c \in Seq(S) /\ Len(c) = n
  BY IsASeq, LenProperties
<1>2. t \in Seq(S) /\ Len(t) = k - 1 /\ \A i \in 1 .. k - 1 : t[i] = c[i]
  BY <1>1, SubSeqProperties
<1>3. u \in Seq(S) /\ Len(u) = n - k /\ \A i \in 1 .. n - k : u[i] = c[k + i]
  <2>1. u \in Seq(S) /\ Len(u) = n - k
    BY <1>1, SubSeqProperties
  <2>2. \A i \in 1 .. n - k : u[i] = c[k + 1 + i - 1] /\ k + 1 + i - 1 = k + i
    BY <1>1, SubSeqProperties
  <2> QED BY <2>1, <2>2
<1>4. b = Append(t \o u, c[k])
  BY <1>1 DEF bgrad_cache, RemoveAt
<1> HIDE DEF t, u, b
<1> DEFINE v == t \o u
<1>5. /\ v \in Seq(S) /\ Len(v) = n - 1
      /\ \A i \in 1 .. k - 1 : v[i] = t[i]
      /\ \A i \in k .. n - 1 : v[i] = u[i - (k - 1)]
  <2>1. /\ v \in Seq(S) /\ Len(v) = Len(t) + Len(u)
        /\ \A i \in 1 .. Len(t) + Len(u) : v[i] = IF i <= Len(t) THEN t[i] ELSE u[i - Len(t)]
    BY <1>2, <1>3, ConcatProperties, Zenon
  <2> HIDE DEF v
  <2> QED BY <1>2, <1>3, <2>1
<1> HIDE DEF v
<1>6. c[k] \in S
  OBVIOUS
<1>7. b \in Seq(S) /\ Len(b) = n /\ b[n] = c[k] /\ \A i \in 1 .. n - 1 : b[i] = v[i]
  <2>1. b = Append(v, c[k])
    BY <1>4 DEF v
  <2> DEFINE w == Append(v, c[k])
  <2>2. /\ w \in Seq(S) /\ Len(w) = Len(v) + 1
        /\ \A i \in 1 .. Len(v) : w[i] = v[i]
        /\ w[Len(v) + 1] = c[k]
    BY <1>5, <1>6, AppendProperties
  <2> HIDE DEF w
  <2>3. Len(v) + 1 = n
    BY <1>5
  <2> QED BY <1>5, <2>1, <2>2, <2>3 DEF w
<1>8. b \in [1 .. n -> S]
  BY <1>7, LenProperties
<1>9. ASSUME NEW i \in 1 .. n PROVE \E j \in 1 .. n : b[i] = c[j]
  <2>1. CASE i = n
    BY <1>7, <2>1
  <2>2. CASE i < k
    <3>1. b[i] = c[i]
      BY <1>2, <1>5, <1>7, <2>2
    <3> QED BY <3>1
  <2>3. CASE i >= k /\ i < n
    <3>1. i - (k - 1) \in 1 .. n - k /\ k + (i - (k - 1)) = i + 1 /\ i + 1 \in 1 .. n
      BY <2>3
    <3>2. b[i] = c[i + 1]
      BY <1>3, <1>5, <1>7, <2>3, <3>1
    <3> QED BY <3>1, <3>2
  <2> QED BY <2>1, <2>2, <2>3
<1> QED BY <1>7, <1>8, <1>9 DEF b, n, S, Caches

(* The smallest number of a set that is not empty.                         *)
LEMMA LowestIs ==
  ASSUME NEW S, S \subseteq Nat, S # {}
  PROVE  Lowest(S) \in S
<1> DEFINE R == {ss \in Nat \X Nat : ss[1] < ss[2]}
<1>1. IsWellFoundedOn(R, Nat)
  BY NatLessThanWellFounded, Zenon DEF OpToRel
<1>2. PICK x \in S : \A y \in S : ~(<<y, x>> \in R)
  <2> HIDE DEF R
  <2> QED BY <1>1, WFMin
<1>3. \A y \in S : ~(y < x)
  BY <1>2
<1>4. x \in S /\ \A y \in S : x <= y
  BY <1>3
<1> QED BY <1>4, Zenon DEF Lowest

(* After a read the block is the last one; a block was there, or is of     *)
(* the disc in the drive.                                                  *)
LEMMA CacheRead ==
  ASSUME NEW c \in Caches, NEW s \in Int, disc \in Discs
  PROVE  LET b == bread_cache(c, s)
         IN  /\ b \in Caches
             /\ Last(b) \in Blocks /\ Last(b).sector = s
             /\ Slots(c, s) = {} => Last(b).holds = <<disc, s>>
             /\ \A k \in DOMAIN b : (\E i \in DOMAIN c : b[k] = c[i])
                                      \/ (Slots(c, s) = {} /\ b[k] = [sector |-> s, holds |-> <<disc, s>>])
             /\ \E k \in DOMAIN b : Last(b) = b[k]
<1> DEFINE N == NUM_CACHE_BLOCKS
           b == bread_cache(c, s)
<1>1. N \in Nat \ {0}
  BY IsoAssumption, Zenon DEF IsoAssumption
<1>2. \A d \in Caches : d \in [1 .. N -> Blocks] /\ DOMAIN d = 1 .. N
  BY DEF Caches
<1>3. \A x, d : d \in Caches => Slots(d, x) \subseteq 1 .. N /\ Slots(d, x) \subseteq Nat
  <2> SUFFICES ASSUME NEW x, NEW d \in Caches, NEW j \in Slots(d, x) PROVE j \in 1 .. N /\ j \in Nat
    BY Zenon
  <2>1. j \in DOMAIN d
    BY Zenon DEF Slots
  <2> QED BY <1>1, <1>2, <2>1
<1>4. \A d \in Caches : Last(d) = d[N]
  BY <1>1, <1>2, LenProperties, IsASeq DEF Last
<1>5. CASE Slots(c, s) # {}
  <2> DEFINE k == Lowest(Slots(c, s))
  <2>1. k \in Slots(c, s) /\ k \in 1 .. N
    BY <1>3, <1>5, LowestIs, Zenon
  <2>2. c[k].sector = s
    BY <2>1, Zenon DEF Slots
  <2>3. b = bgrad_cache(c, k)
    BY <1>5, Zenon DEF bread_cache
  <2> HIDE DEF k
  <2>4. b \in [1 .. N -> Blocks] /\ b[N] = c[k] /\ \A i \in 1 .. N : \E j \in 1 .. N : b[i] = c[j]
    <3>1. /\ bgrad_cache(c, k) \in Caches
          /\ bgrad_cache(c, k)[N] = c[k]
          /\ \A i \in 1 .. N : \E j \in 1 .. N : bgrad_cache(c, k)[i] = c[j]
      BY <2>1, Graded, Zenon
    <3> HIDE DEF b
    <3> QED BY <1>2, <2>3, <3>1
  <2> HIDE DEF b
  <2>5. b \in Caches /\ Last(b) = c[k] /\ c[k] \in Blocks /\ Last(b) = b[N] /\ DOMAIN b = 1 .. N /\ DOMAIN c = 1 .. N
    BY <1>2, <1>4, <2>1, <2>4, Zenon DEF Caches
  <2>6. N \in 1 .. N
    BY <1>1
  <2> QED BY <1>5, <2>2, <2>4, <2>5, <2>6 DEF b
<1>6. CASE Slots(c, s) = {}
  <2> DEFINE k == SlotFor(c)
             new == [sector |-> s, holds |-> <<disc, s>>]
             d == [c EXCEPT ![k] = new]
  <2>1. k \in 1 .. N
    <3>1. CASE Slots(c, -1) = {}
      BY <1>1, <3>1 DEF SlotFor
    <3>2. CASE Slots(c, -1) # {}
      BY <1>3, <3>2, LowestIs, Zenon DEF SlotFor
    <3> QED BY <3>1, <3>2
  <2>2. new \in Blocks
    BY DEF Blocks
  <2>3. b = bgrad_cache(d, k)
    BY <1>6, Zenon DEF bread_cache
  <2> HIDE DEF k, new
  <2>4. d \in [1 .. N -> Blocks] /\ d[k] = new /\ \A j \in 1 .. N : d[j] = new \/ d[j] = c[j]
    BY <1>2, <2>1, <2>2
  <2> HIDE DEF d
  <2>5. b \in [1 .. N -> Blocks] /\ b[N] = new /\ \A i \in 1 .. N : \E j \in 1 .. N : b[i] = d[j]
    <3>1. d \in Caches
      BY <2>4, Zenon DEF Caches
    <3>2. /\ bgrad_cache(d, k) \in Caches
          /\ bgrad_cache(d, k)[N] = d[k]
          /\ \A i \in 1 .. N : \E j \in 1 .. N : bgrad_cache(d, k)[i] = d[j]
      BY <2>1, <3>1, Graded, Zenon
    <3> HIDE DEF b
    <3> QED BY <1>2, <2>3, <2>4, <3>2
  <2> HIDE DEF b
  <2>6. b \in Caches /\ Last(b) = new /\ Last(b) = b[N] /\ DOMAIN b = 1 .. N /\ DOMAIN c = 1 .. N
    BY <1>2, <1>4, <2>5, Zenon DEF Caches
  <2>7. new.sector = s /\ new.holds = <<disc, s>>
    BY DEF new
  <2>8. N \in 1 .. N
    BY <1>1
  <2>9. \A i \in 1 .. N : b[i] = new \/ \E j \in 1 .. N : b[i] = c[j]
    BY <2>4, <2>5
  <2> QED BY <1>6, <2>2, <2>6, <2>7, <2>8, <2>9, Zenon DEF b, new
<1> QED BY <1>5, <1>6

LEMMA CacheCleared ==
  ASSUME NEW c \in Caches
  PROVE  /\ bclear_cache(c) \in Caches /\ DOMAIN bclear_cache(c) = DOMAIN c
         /\ \A k \in DOMAIN c : bclear_cache(c)[k].sector = -1
  BY DEF Caches, Blocks, bclear_cache
-----------------------------------------------------------------------------
(* What a step of a call to the disc does for the tables: the handles in   *)
(* use stay so, and one that is returned was free.                         *)
Keeps ==
  /\ IsoTyped'
  /\ \A x \in Handles : fh[x].first # 0 => fh'[x].first # 0
  /\ iso' # Idle /\ (iso'.pc # "lost" => iso'.op = iso.op)
  /\ iso' \in IsoReturned /\ iso'.ret # 0 =>
       iso'.ret \in Handles \ {0} /\ fh[iso'.ret].first = 0 /\ fh'[iso'.ret].first # 0

LEMMA Phases ==
  ASSUME IsoTyped
  PROVE  /\ iso.pc = "find" => iso \in IsoOpen
         /\ iso.pc = "copy" => iso \in IsoRead
         /\ iso.pc = "percd" => iso \in IsoOpen \/ (iso \in IsoRead /\ iso.depth > 0)
<1>1. /\ \A x \in IsoOpen : x.pc \in {"percd", "find"}
      /\ \A x \in IsoRead : x.pc \in {"percd", "copy"}
      /\ \A x \in IsoHasRead \cup IsoReturned \cup IsoFailed : x.pc = "ret"
  BY DEF IsoOpen, IsoRead, IsoHasRead, IsoReturned, IsoFailed
<1>2. Idle.pc = "idle" /\ [pc |-> "lost"].pc = "lost"
  BY DEF Idle
<1> QED BY <1>1, <1>2 DEF IsoTyped

(* A step that leaves handles alone and goes on, or ends without one.      *)
LEMMA KeepsOn ==
  ASSUME IsoTyped, IsoTyped', iso \in IsoOpen \cup IsoRead,
         \A x \in Handles : fh[x].first # 0 => fh'[x].first # 0,
         \/ iso' \in IsoOpen /\ iso \in IsoOpen
         \/ iso' \in IsoRead \cup IsoHasRead /\ iso \in IsoRead
         \/ iso' = Returned(0) /\ iso \in IsoOpen
         \/ iso' = Returned(-1) /\ iso \in IsoRead
         \/ iso' = [pc |-> "lost"]
  PROVE  Keeps
<1>1. /\ \A x \in IsoOpen : x.op = "open" /\ x.pc \in {"percd", "find"}
      /\ \A x \in IsoRead : x.op = "read" /\ x.pc \in {"percd", "copy"}
      /\ \A x \in IsoHasRead : x.op = "read" /\ x.pc = "ret"
  BY DEF IsoOpen, IsoRead, IsoHasRead
<1>2. \A x \in IsoReturned : x.pc = "ret" /\ x.op = "open"
  BY DEF IsoReturned
<1>3. \A x : Returned(x).op = iso.op /\ Returned(x).ret = x /\ Returned(x).pc = "ret"
  BY DEF Returned
<1>4. Idle.pc = "idle" /\ [pc |-> "lost"].pc = "lost"
  BY DEF Idle
<1> QED BY <1>1, <1>2, <1>3, <1>4 DEF Keeps

LEMMA ReturnedTyped ==
  /\ iso \in IsoOpen => \A x \in Nat : Returned(x) \in IsoReturned
  /\ iso \in IsoRead => Returned(-1) \in IsoFailed
  BY DEF IsoOpen, IsoRead, IsoReturned, IsoFailed, Returned

(* A failed read of a block. *)
LEMMA BlockFailsKeeps ==
  ASSUME IsoTyped, iso.pc \in {"percd", "find", "copy"}, NEW cache, BlockFails(cache)
  PROVE  Keeps
<1>1. iso \in IsoOpen \cup IsoRead
  BY Phases
<1>2. disc' = disc /\ changed' = FALSE /\ root' = root
  BY DEF BlockFails, DriveFails
<1>3. CASE iso' = [pc |-> "lost"] /\ UNCHANGED <<icache, dcache, joliet, percd_done, fh, missed>>
  <2>1. IsoTyped'
    BY <1>2, <1>3 DEF IsoTyped
  <2>2. \A x \in Handles : fh[x].first # 0 => fh'[x].first # 0
    BY <1>3
  <2> QED BY <1>1, <1>3, <2>1, <2>2, KeepsOn
<1>4. CASE /\ iso_reset /\ joliet' = 0
           /\ iso' = [iso EXCEPT !.pc = "percd", !.k = 1, !.depth = @ + 1,
                                 !.goes_on = IF iso.depth = 0 THEN iso.pc = "percd" /\ iso.k = 4 ELSE @]
  <2>1. icache' \in Caches /\ dcache' \in Caches
    BY <1>4, CacheCleared, Zenon DEF IsoTyped, iso_reset, bclear
  <2>2. fh' = [x \in Handles |-> [fh[x] EXCEPT !.broken = TRUE]]
    BY <1>4 DEF iso_reset, iso_break_all
  <2>3. fh' \in [Handles -> Handle] /\ \A x \in Handles : fh'[x].first = fh[x].first
    BY <2>2 DEF IsoTyped, Handle
  <2>4. 0 \in Handles
    BY IsoAssumption DEF IsoAssumption, Handles
  <2>5. iso \in IsoOpen => iso' \in IsoOpen
    <3> HAVE iso \in IsoOpen
    <3> DEFINE on == IF iso.depth = 0 THEN iso.pc = "percd" /\ iso.k = 4 ELSE iso.goes_on
    <3>1. iso.goes_on \in BOOLEAN /\ iso.depth + 1 \in Nat
      BY DEF IsoOpen
    <3>2. on \in BOOLEAN
      BY <3>1, Zenon
    <3>3. iso' = [[iso EXCEPT !.pc = "percd", !.k = 1] EXCEPT !.depth = iso.depth + 1, !.goes_on = on]
      BY <1>4, Zenon
    <3> HIDE DEF on
    <3> DEFINE y == [iso EXCEPT !.pc = "percd", !.k = 1]
    <3>4. y \in IsoOpen
      BY DEF IsoOpen
    <3> HIDE DEF y
    <3>5. [y EXCEPT !.depth = iso.depth + 1, !.goes_on = on] \in IsoOpen
      BY <3>1, <3>2, <3>4 DEF IsoOpen
    <3> QED BY <3>3, <3>5 DEF y
  <2>6. iso \in IsoRead => iso' \in IsoRead /\ iso'.depth > 0
    <3> HAVE iso \in IsoRead
    <3>1. iso.depth = 0 => iso.pc # "percd"
      <4>1. ~(iso \in IsoOpen)
        BY DEF IsoOpen, IsoRead
      <4> QED BY <4>1, Phases
    <3>2. iso' = [iso EXCEPT !.pc = "percd", !.k = 1, !.depth = @ + 1, !.goes_on = FALSE]
      BY <1>4, <3>1 DEF IsoRead
    <3> DEFINE y == [iso EXCEPT !.pc = "percd", !.k = 1]
    <3>3. y \in IsoRead
      BY DEF IsoRead
    <3>4. iso.depth + 1 \in Nat /\ iso.depth + 1 > 0
      BY DEF IsoRead
    <3> HIDE DEF y
    <3>5. /\ [y EXCEPT !.depth = iso.depth + 1, !.goes_on = FALSE] \in IsoRead
          /\ [y EXCEPT !.depth = iso.depth + 1, !.goes_on = FALSE].depth > 0
      BY <3>3, <3>4 DEF IsoRead
    <3> QED BY <3>2, <3>5 DEF y
  <2>7. missed' = FALSE /\ percd_done' = FALSE
    BY <1>4 DEF iso_reset
  <2>8. IsoTyped'
    BY <1>1, <1>2, <1>4, <2>1, <2>3, <2>4, <2>5, <2>6, <2>7 DEF IsoTyped
  <2> QED BY <1>1, <2>3, <2>5, <2>6, <2>8, KeepsOn
<1> QED BY <1>3, <1>4, Zenon DEF BlockFails

LEMMA ContentIs ==
  ASSUME NEW b
  PROVE  /\ Content(b).kind = "vd" => Content(b) \in Descriptor
         /\ Content(b).kind = "dir" => Content(b) \in Directory
<1>1. CASE Content(b) = [kind |-> "data"]
  BY <1>1
<1>2. CASE b[1] \in DOMAIN Image /\ b[2] \in DOMAIN Image[b[1]] /\ Content(b) = Image[b[1]][b[2]]
  <2>1. Content(b) \in Directory \cup Descriptor
    BY <1>2, IsoAssumption, Zenon DEF IsoAssumption
  <2>2. \A x \in Directory : x.kind = "dir"
    BY DEF Directory
  <2>3. \A x \in Descriptor : x.kind = "vd"
    BY DEF Descriptor
  <2> QED BY <2>1, <2>2, <2>3
<1> QED BY <1>1, <1>2, Zenon DEF Content

LEMMA PercdEnds ==
  ASSUME IsoTyped, iso.pc = "percd", NEW ok \in BOOLEAN, NEW r \in [extent : Nat, size : Nat],
         PercdReturns(ok, r)
  PROVE  /\ percd_done' \in BOOLEAN
         /\ iso \in IsoOpen => iso' \in IsoOpen \/ iso' = Returned(0)
         /\ iso \in IsoRead => iso' = Returned(-1)
<1> DEFINE on == IF iso.depth = 0 THEN ok ELSE iso.goes_on
<1>1. percd_done' = on /\ iso' = IF on THEN Search(r) ELSE Returned(IF iso.op = "open" THEN 0 ELSE -1)
  BY Zenon DEF PercdReturns
<1>2. \A x \in IsoOpen : x.op = "open" /\ x.goes_on \in BOOLEAN
  BY DEF IsoOpen
<1>3. \A x \in IsoRead : x.op = "read" /\ x.goes_on = FALSE /\ x.depth \in Nat
  BY DEF IsoRead
<1>4. on \in BOOLEAN
  BY <1>2, <1>3, Phases, Zenon
<1>5. ASSUME iso \in IsoOpen PROVE iso' \in IsoOpen \/ iso' = Returned(0)
  <2>1. r.extent \in Nat /\ r.size \in Nat
    OBVIOUS
  <2>2. Search(r) \in IsoOpen
    BY <1>5, <2>1 DEF IsoOpen, Search
  <2>3. iso.op = "open"
    BY <1>2, <1>5
  <2> QED BY <1>1, <2>2, <2>3, Zenon
<1>6. ASSUME iso \in IsoRead PROVE iso' = Returned(-1)
  <2>1. ~(iso \in IsoOpen) /\ iso.op = "read" /\ iso.op # "open"
    BY <1>2, <1>3, <1>6
  <2>2. iso.depth > 0 /\ iso.depth # 0
    BY <1>3, <1>6, <2>1, Phases
  <2>3. ~on
    BY <1>3, <1>6, <2>2, Zenon
  <2> QED BY <1>1, <2>1, <2>3, Zenon
<1> QED BY <1>1, <1>4, <1>5, <1>6

LEMMA PercdKeeps ==
  ASSUME IsoTyped, Percd
  PROVE  Keeps
<1> DEFINE vd == Content(Last(icache').holds)
<1>1. iso.pc = "percd" /\ UNCHANGED <<disc, changed, dcache, fh, missed>>
  BY DEF Percd, DriveSame
<1>2. iso \in IsoOpen \cup IsoRead
  BY <1>1, Phases
<1>3. Wanted \in Int
  <2>1. iso.k \in Nat
    BY <1>2 DEF IsoOpen, IsoRead
  <2>2. Wanted = IF iso.k <= 3 THEN 16 + iso.k ELSE 16
    BY <1>1 DEF Wanted
  <2> QED BY <2>1, <2>2
<1>4. icache' \in Caches
  BY <1>3, CacheRead, Zenon DEF Percd, IsoTyped
<1>5. vd.kind = "vd" => vd \in Descriptor
  BY ContentIs, Zenon
<1> HIDE DEF vd
<1>6. CASE /\ Accepted(vd)
           /\ joliet' = (IF iso.k <= 3 THEN vd.level ELSE 0)
           /\ root' = [extent |-> vd.extent, size |-> vd.size]
           /\ PercdReturns(TRUE, root')
  <2>1. vd.level \in Nat /\ vd.extent \in Nat /\ vd.size \in Nat
    BY <1>5, <1>6 DEF Accepted, Descriptor
  <2>2. joliet' \in Nat /\ root' \in [extent : Nat, size : Nat]
    BY <1>6, <2>1
  <2>3. /\ percd_done' \in BOOLEAN
        /\ iso \in IsoOpen => iso' \in IsoOpen \/ iso' = Returned(0)
        /\ iso \in IsoRead => iso' = Returned(-1)
    BY <1>1, <1>6, <2>2, PercdEnds
  <2>4. IsoTyped'
    BY <1>1, <1>2, <1>4, <2>2, <2>3, ReturnedTyped DEF IsoTyped
  <2> QED BY <1>1, <1>2, <2>3, <2>4, KeepsOn
<1>7. CASE /\ UNCHANGED <<joliet, root>>
           /\ iso.k <= 3 /\ iso' = [iso EXCEPT !.k = @ + 1] /\ UNCHANGED percd_done
  <2>1. iso \in IsoOpen => iso' \in IsoOpen
    BY <1>7 DEF IsoOpen
  <2>2. iso \in IsoRead /\ iso.depth > 0 => iso' \in IsoRead /\ iso'.depth > 0
    <3>1. iso \in IsoRead => iso.k + 1 \in Nat
      BY DEF IsoRead
    <3>2. iso \in IsoRead => iso' \in IsoRead
      BY <1>7, <3>1 DEF IsoRead
    <3>3. iso \in IsoRead => iso'.depth = iso.depth
      BY <1>7 DEF IsoRead
    <3> QED BY <3>2, <3>3
  <2>3. IsoTyped'
    BY <1>1, <1>4, <1>7, <2>1, <2>2, Phases DEF IsoTyped
  <2> QED BY <1>1, <1>2, <2>1, <2>2, <2>3, KeepsOn, Phases
<1>8. CASE UNCHANGED <<joliet, root>> /\ PercdReturns(FALSE, root)
  <2>1. root \in [extent : Nat, size : Nat]
    BY DEF IsoTyped
  <2>3. /\ percd_done' \in BOOLEAN
        /\ iso \in IsoOpen => iso' \in IsoOpen \/ iso' = Returned(0)
        /\ iso \in IsoRead => iso' = Returned(-1)
    BY <1>1, <1>8, <2>1, PercdEnds
  <2>4. IsoTyped'
    BY <1>1, <1>2, <1>4, <1>8, <2>3, ReturnedTyped DEF IsoTyped
  <2> QED BY <1>1, <1>2, <2>3, <2>4, KeepsOn
<1> QED BY <1>6, <1>7, <1>8, Zenon DEF Percd, vd

\* A handle of an entry.
Fresh(e, of) == [first |-> e.extent, ptr |-> 0, size |-> e.size, broken |-> FALSE, of |-> of]

LEMMA OpensOne ==
  ASSUME IsoTyped, NEW e \in Entry, NEW of \in Discs, Opened(e, of)
  PROVE  \/ iso' = Returned(0) /\ fh' = fh
         \/ \E x \in Handles \ {0} : /\ fh[x].first = 0 /\ iso' = Returned(x)
                                     /\ fh' = [fh EXCEPT ![x] = Fresh(e, of)]
<1> DEFINE free == {x \in Handles : fh[x].first = 0}
           x == Lowest(free)
<1>1. CASE free = {}
  BY <1>1, Zenon DEF Opened
<1>2. CASE free # {}
  <2>1. free \subseteq Nat
    BY DEF Handles
  <2>2. x \in free
    BY <1>2, <2>1, LowestIs, Zenon
  <2>3. x \in Handles /\ fh[x].first = 0
    BY <2>2, Zenon
  <2>4. x # 0
    BY <2>3 DEF IsoTyped
  <2>5. iso' = Returned(x) /\ fh' = [fh EXCEPT ![x] = Fresh(e, of)]
    BY <1>2, Zenon DEF Opened, Fresh
  <2> QED BY <2>3, <2>4, <2>5, Zenon
<1> QED BY <1>1, <1>2

LEMMA OpenedKeeps ==
  ASSUME IsoTyped, iso \in IsoOpen, NEW e \in Entry, NEW of \in Discs, Opened(e, of),
         icache' \in Caches, UNCHANGED <<disc, changed, dcache, joliet, root, percd_done, missed>>
  PROVE  Keeps
<1>1. CASE iso' = Returned(0) /\ fh' = fh
  <2>1. IsoTyped'
    BY <1>1, ReturnedTyped DEF IsoTyped
  <2> QED BY <1>1, <2>1, KeepsOn
<1>2. ASSUME NEW x \in Handles \ {0}, fh[x].first = 0, iso' = Returned(x), fh' = [fh EXCEPT ![x] = Fresh(e, of)]
      PROVE  Keeps
  <2>1. Fresh(e, of) \in Handle /\ Fresh(e, of).first # 0
    BY DEF Fresh, Handle, Entry
  <2>2. x \in Nat /\ 0 \in Handles
    BY IsoAssumption DEF Handles, IsoAssumption
  <2>3. fh' \in [Handles -> Handle] /\ fh'[0].first = -1 /\ fh'[x].first # 0
        /\ \A y \in Handles : y # x => fh'[y] = fh[y]
    BY <1>2, <2>1, <2>2 DEF IsoTyped
  <2>4. iso' \in IsoReturned
    BY <1>2, <2>2, ReturnedTyped
  <2>5. IsoTyped'
    BY <2>3, <2>4 DEF IsoTyped
  <2>6. iso'.pc = "ret" /\ iso'.op = iso.op /\ iso'.ret = x
    BY <1>2 DEF Returned
  <2>7. iso' # Idle
    BY <2>6 DEF Idle
  <2> QED BY <1>2, <2>3, <2>5, <2>6, <2>7 DEF Keeps
<1> QED BY <1>1, <1>2, OpensOne

(* The search goes on, or ends at an entry of the block just read.         *)
LEMMA FindCases ==
  ASSUME IsoTyped, Find
  PROVE  /\ iso \in IsoOpen /\ icache' \in Caches /\ Last(icache').holds[1] \in Discs
         /\ UNCHANGED <<disc, changed, dcache, joliet, root, percd_done, missed>>
         /\ \/ iso' \in IsoOpen /\ fh' = fh
            \/ \E e \in Entry : Opened(e, Last(icache').holds[1])
<1> DEFINE b == Last(icache').holds
           block == Content(b)
           found == Candidates(block, Head(iso.path), Len(iso.path) > 1, joliet)
           e == block.entries[Lowest(found)]
<1>1. /\ iso.pc = "find" /\ iso.left > 0
      /\ UNCHANGED <<disc, changed, dcache, joliet, root, percd_done, missed>>
  BY DEF Find, DriveSame
<1>2. iso \in IsoOpen
  BY <1>1, Phases
<1>3. iso.extent \in Nat /\ iso.left \in Nat /\ iso.path \in Paths
  BY <1>2 DEF IsoOpen
<1>4. icache' \in Caches /\ b[1] \in Discs
  <2>1. icache \in Caches /\ disc \in Discs /\ iso.extent \in Int
    BY <1>3 DEF IsoTyped
  <2>2. icache' \in Caches /\ Last(icache') \in Blocks
    BY <2>1, CacheRead, Zenon DEF Find
  <2> QED BY <2>2 DEF Blocks
<1>5. CASE found = {}
  <2>1. iso' = [iso EXCEPT !.extent = @ + 1, !.left = @ - 1] /\ fh' = fh
    BY <1>5, Zenon DEF Find
  <2>2. iso.extent + 1 \in Nat /\ iso.left - 1 \in Nat
    BY <1>1, <1>3
  <2>3. iso' \in IsoOpen
    BY <1>2, <2>1, <2>2 DEF IsoOpen
  <2> QED BY <1>1, <1>2, <1>4, <2>1, <2>3
<1>6. CASE found # {}
  <2>1. block.kind = "dir" /\ found \subseteq DOMAIN block.entries
    BY <1>6, Zenon DEF Candidates
  <2>2. block.entries \in Seq(Entry)
    <3>1. block \in Directory
      BY <2>1, ContentIs, Zenon
    <3> HIDE DEF block
    <3> QED BY <3>1 DEF Directory
  <2>3. DOMAIN block.entries \subseteq Nat
    BY <2>2
  <2>4. Lowest(found) \in found
    BY <1>6, <2>1, <2>3, LowestIs, Zenon
  <2>5. e \in Entry
    <3> HIDE DEF found, block
    <3> QED BY <2>1, <2>2, <2>4
  <2>6. CASE Len(iso.path) = 1
    <3>1. Opened(e, b[1])
      BY <1>6, <2>6, Zenon DEF Find
    <3> HIDE DEF e
    <3> QED BY <1>1, <1>2, <1>4, <2>5, <3>1
  <2>7. CASE Len(iso.path) # 1
    <3>1. iso' = [iso EXCEPT !.path = Tail(@), !.extent = e.extent, !.left = e.size] /\ fh' = fh
      BY <1>6, <2>7, Zenon DEF Find
    <3>2. e.extent \in Nat /\ e.size \in Nat
      <4> HIDE DEF e
      <4> QED BY <2>5 DEF Entry
    <3>3. Tail(iso.path) \in Paths
      <4> DEFINE p == iso.path
      <4>1. p \in Seq(Component) /\ p # <<>> /\ Len(p) # 1
        BY <1>3, <2>7 DEF Paths
      <4> HIDE DEF p
      <4>2. Len(p) \in Nat /\ Len(p) # 0
        BY <4>1, EmptySeq, LenProperties
      <4>3. Tail(p) \in Seq(Component) /\ Len(Tail(p)) = Len(p) - 1
        BY <4>1, HeadTailProperties
      <4>4. Len(Tail(p)) # 0
        BY <4>1, <4>2, <4>3
      <4>5. Tail(p) # <<>>
        BY <4>4, EmptySeq, Zenon
      <4>6. Tail(p) \in Paths
        BY <4>3, <4>5, Zenon DEF Paths
      <4> QED BY <4>6, Zenon DEF p
    <3> HIDE DEF e
    <3>5. iso' \in IsoOpen
      BY <1>2, <3>1, <3>2, <3>3 DEF IsoOpen
    <3> QED BY <1>1, <1>2, <1>4, <3>1, <3>5
  <2> QED BY <2>6, <2>7
<1> QED BY <1>5, <1>6

LEMMA FindKeeps ==
  ASSUME IsoTyped, Find
  PROVE  Keeps
<1>1. CASE iso' \in IsoOpen /\ fh' = fh
  <2>1. IsoTyped'
    BY <1>1, FindCases DEF IsoTyped
  <2> QED BY <1>1, <2>1, FindCases, KeepsOn
<1>2. ASSUME NEW e \in Entry, Opened(e, Last(icache').holds[1])
      PROVE  Keeps
  BY <1>2, FindCases, OpenedKeeps
<1> QED BY <1>1, <1>2, FindCases

LEMMA NotFoundKeeps ==
  ASSUME IsoTyped, NotFound
  PROVE  Keeps
<1>1. iso \in IsoOpen
  BY Phases DEF NotFound
<1>2. /\ iso' = Returned(0)
      /\ UNCHANGED <<disc, changed, icache, dcache, joliet, root, percd_done, fh, missed>>
  BY DEF NotFound, DriveSame
<1>3. IsoTyped'
  BY <1>1, <1>2, ReturnedTyped DEF IsoTyped
<1> QED BY <1>1, <1>2, <1>3, KeepsOn

(* Units of a file in a row. *)
LEMMA HalvesAre ==
  ASSUME NEW b \in Discs \X Int, NEW from \in Nat, NEW n \in Nat
  PROVE  /\ Halves(b, from, n) \in Seq(Unit) /\ Len(Halves(b, from, n)) = n
         /\ \A i \in 1 .. n : Halves(b, from, n)[i] = <<b[1], b[2] + (from + i - 1) \div 2, (from + i - 1) % 2>>
<1> DEFINE H == Halves(b, from, n)
<1>1. ASSUME NEW i \in 1 .. n
      PROVE  <<b[1], b[2] + (from + i - 1) \div 2, (from + i - 1) % 2>> \in Unit
  <2>1. (from + i - 1) \in Int /\ (from + i - 1) \div 2 \in Int /\ (from + i - 1) % 2 \in Int
    OBVIOUS
  <2> QED BY <2>1 DEF Unit
<1>2. H \in [1 .. n -> Unit] /\ \A i \in 1 .. n : H[i] = <<b[1], b[2] + (from + i - 1) \div 2, (from + i - 1) % 2>>
  BY <1>1 DEF Halves
<1> HIDE DEF H
<1>3. H \in Seq(Unit) /\ Len(H) = n
  BY <1>2, IsASeq, LenProperties
<1> QED BY <1>2, <1>3 DEF H

(* A turn of the loop that copies. *)
LEMMA CopiedKeeps ==
  ASSUME IsoTyped, iso.pc = "copy", NEW units \in Seq(Unit), Copied(units), dcache' \in Caches,
         UNCHANGED <<disc, changed, icache, joliet, root, percd_done, missed>>
  PROVE  Keeps
<1>1. iso \in IsoRead
  BY Phases
<1>2. iso.h \in Handles \ {0} /\ iso.got \in Seq(Unit)
  BY <1>1 DEF IsoRead
<1>3. iso' = [iso EXCEPT !.got = iso.got \o units] /\ fh' = [fh EXCEPT ![iso.h].ptr = fh[iso.h].ptr + Len(units)]
  BY DEF Copied
<1>4. iso.got \o units \in Seq(Unit)
  BY <1>2, ConcatProperties
<1>5. iso' \in IsoRead /\ iso'.pc = "copy"
  BY <1>1, <1>3, <1>4 DEF IsoRead
<1>6. fh[iso.h].ptr + Len(units) \in Nat
  BY <1>2, LenProperties DEF IsoTyped, Handle
<1>7. fh' \in [Handles -> Handle] /\ \A x \in Handles : fh'[x].first = fh[x].first
  BY <1>2, <1>3, <1>6 DEF IsoTyped, Handle
<1>8. 0 \in Handles
  BY IsoAssumption DEF Handles, IsoAssumption
<1>9. IsoTyped'
  BY <1>5, <1>7, <1>8 DEF IsoTyped
<1> QED BY <1>1, <1>5, <1>7, <1>9, KeepsOn

LEMMA ToReadIs ==
  ASSUME IsoTyped, iso.pc = "copy"
  PROVE  /\ iso \in IsoRead /\ iso.h \in Handles \ {0}
         /\ ToRead \in Int /\ ToRead <= iso.n - Len(iso.got) /\ ToRead <= fh[iso.h].size - fh[iso.h].ptr
         /\ Wanted = fh[iso.h].first + fh[iso.h].ptr \div 2 /\ Wanted \in Int
<1>1. iso \in IsoRead
  BY Phases
<1>2. iso.h \in Handles \ {0} /\ iso.n \in Nat /\ iso.got \in Seq(Unit) /\ Len(iso.got) \in Nat
  BY <1>1, LenProperties DEF IsoRead
<1>3. fh[iso.h].size \in Nat /\ fh[iso.h].ptr \in Nat /\ fh[iso.h].first \in Int
  BY <1>2 DEF IsoTyped, Handle
<1>4. Wanted = fh[iso.h].first + fh[iso.h].ptr \div 2
  BY Zenon DEF Wanted
<1>5. fh[iso.h].ptr \div 2 \in Int
  BY <1>3
<1>6. Wanted \in Int
  BY <1>3, <1>4, <1>5
<1>7. ASSUME NEW x \in Int, NEW y \in Int
      PROVE  Lesser(x, y) \in Int /\ Lesser(x, y) <= x /\ Lesser(x, y) <= y
  BY DEF Lesser
<1>8. iso.n - Len(iso.got) \in Int /\ fh[iso.h].size - fh[iso.h].ptr \in Int
  BY <1>2, <1>3
<1>9. ToRead \in Int /\ ToRead <= iso.n - Len(iso.got) /\ ToRead <= fh[iso.h].size - fh[iso.h].ptr
  BY <1>7, <1>8, Zenon DEF ToRead
<1> QED BY <1>1, <1>2, <1>4, <1>6, <1>9, Zenon

LEMMA DirectKeeps ==
  ASSUME IsoTyped, ReadDirect
  PROVE  Keeps
<1> DEFINE n == 2 * Lesser(ToRead \div 2, MaxDirect)
<1>1. iso.pc = "copy" /\ ToRead >= 2 /\ Copied(Halves(<<disc, Wanted>>, 0, n))
      /\ UNCHANGED <<disc, changed, icache, dcache, joliet, root, percd_done, missed>>
  BY DEF ReadDirect, Whole, DriveSame
<1>2. n \in Nat
  BY <1>1, ToReadIs, IsoAssumption DEF Lesser, IsoAssumption
<1>3. <<disc, Wanted>> \in Discs \X Int
  BY <1>1, ToReadIs DEF IsoTyped
<1> HIDE DEF n
<1>4. Halves(<<disc, Wanted>>, 0, n) \in Seq(Unit)
  BY <1>2, <1>3, HalvesAre
<1>5. dcache' \in Caches
  BY <1>1 DEF IsoTyped
<1> QED BY <1>1, <1>4, <1>5, CopiedKeeps

LEMMA DirectFailsKeeps ==
  ASSUME IsoTyped, DirectFails
  PROVE  Keeps
<1>1. iso \in IsoRead
  BY Phases DEF DirectFails
<1>2. /\ iso' = [pc |-> "lost"] \/ iso' = Returned(-1)
      /\ disc' = disc /\ changed' = FALSE
      /\ missed' = (missed \/ changed)
      /\ UNCHANGED <<icache, dcache, joliet, root, percd_done, fh>>
  BY DEF DirectFails, DriveFails
<1>3. missed' \in BOOLEAN
  BY <1>2 DEF IsoTyped
<1>4. IsoTyped'
  BY <1>1, <1>2, <1>3, ReturnedTyped DEF IsoTyped
<1> QED BY <1>1, <1>2, <1>4, KeepsOn

LEMMA PartKeeps ==
  ASSUME IsoTyped, ReadPart
  PROVE  Keeps
<1> DEFINE b == Last(dcache').holds
<1>1. iso.pc = "copy" /\ Copied(Halves(b, fh[iso.h].ptr % 2, 1)) /\ dcache' = bread_cache(dcache, Wanted)
      /\ UNCHANGED <<disc, changed, icache, joliet, root, percd_done, missed>>
  BY DEF ReadPart, DriveSame
<1>2. dcache \in Caches /\ disc \in Discs /\ Wanted \in Int
  BY <1>1, ToReadIs DEF IsoTyped
<1>3. dcache' \in Caches /\ Last(dcache') \in Blocks
  BY <1>1, <1>2, CacheRead, Zenon
<1>4. b \in Discs \X Int
  BY <1>3 DEF Blocks
<1>5. fh[iso.h].ptr % 2 \in Nat
  <2>1. fh[iso.h].ptr \in Nat
    BY <1>1, ToReadIs DEF IsoTyped, Handle
  <2> QED BY <2>1
<1> HIDE DEF b
<1>6. Halves(b, fh[iso.h].ptr % 2, 1) \in Seq(Unit)
  BY <1>4, <1>5, HalvesAre
<1> QED BY <1>1, <1>3, <1>6, CopiedKeeps

LEMMA EndKeeps ==
  ASSUME IsoTyped, ReadEnd
  PROVE  Keeps
<1>1. iso \in IsoRead
  BY Phases DEF ReadEnd
<1>2. /\ iso' = [iso EXCEPT !.pc = "ret", !.ret = Len(iso.got)]
      /\ UNCHANGED <<disc, changed, icache, dcache, joliet, root, percd_done, fh, missed>>
  BY DEF ReadEnd, DriveSame
<1>3. Len(iso.got) \in Nat
  BY <1>1, LenProperties DEF IsoRead
<1>4. iso' \in IsoHasRead
  BY <1>1, <1>2, <1>3 DEF IsoRead, IsoHasRead
<1>5. IsoTyped'
  BY <1>2, <1>4 DEF IsoTyped
<1> QED BY <1>1, <1>2, <1>4, <1>5, KeepsOn

LEMMA IsoKeeps ==
  ASSUME IsoTyped, IsoStep
  PROVE  Keeps
<1>1. CASE PercdFails \/ FindFails \/ PartFails
  BY <1>1, BlockFailsKeeps DEF PercdFails, FindFails, PartFails
<1> QED
  BY <1>1, PercdKeeps, FindKeeps, NotFoundKeeps, DirectKeeps, DirectFailsKeeps, PartKeeps, EndKeeps, Zenon
  DEF IsoStep
-----------------------------------------------------------------------------
(* The tables.  What stays when a step leaves the devices alone.           *)
TablesSame == UNCHANGED <<devices, mounts, known, named, plug, plugs>>

LEMMA PairedSame ==
  ASSUME Paired, UNCHANGED <<devices, mounts, known>>
  PROVE  Paired'
  BY DEF Paired

LEMMA IsoSame ==
  ASSUME IsoTyped, UNCHANGED ivars
  PROVE  IsoTyped'
  BY DEF IsoTyped, ivars

(* The calls, and what is known of each by its name and step.              *)
LEMMA CallKinds ==
  ASSUME Tables
  PROVE  /\ call.op \in {"none", "open", "mount", "read"}
         /\ call.op = "none" <=> call = NoCall
         /\ call.op = "open" => call \in Opening_
         /\ call.op # "none" /\ call.step # "iso" =>
              call \in Opening_ \cup Mounting \cup Reading
         /\ call.op # "none" => call.step \in Steps \cup {"look", "iso"}
         /\ OnDisc => call \in Opening_ \cup ReadingDisc
<1>1. NoCall.op = "none"
  BY DEF NoCall
<1>2. \A x \in Opening_ : x.op = "open" /\ x.step \in Steps \cup {"look", "iso"}
  BY DEF Opening_
<1>3. \A x \in Mounting : x.op = "mount" /\ x.step \in Steps
  BY DEF Mounting
<1>4. \A x \in Reading : x.op = "read" /\ x.step \in Steps
  BY DEF Reading
<1>5. \A x \in ReadingDisc : x.op = "read" /\ x.step = "iso"
  BY DEF ReadingDisc
<1>6. "iso" \notin Steps /\ "look" \notin Steps
  BY DEF Steps
<1>7. call \in {NoCall} \cup Opening_ \cup Mounting \cup Reading \cup ReadingDisc
  BY DEF Tables
<1> QED BY <1>1, <1>2, <1>3, <1>4, <1>5, <1>6, <1>7 DEF OnDisc

(* A call that goes on to another step.                                    *)
LEMMA NextStep ==
  ASSUME Tables, call.op # "none", call.step # "iso", NEW step \in Steps, call' = [call EXCEPT !.step = step]
  PROVE  /\ call' \in Opening_ \cup Mounting \cup Reading
         /\ call'.op = call.op /\ call'.step = step
         /\ call.op = "open" => call'.fd = call.fd
<1>1. call \in Opening_ \cup Mounting \cup Reading
  BY CallKinds
<1>2. CASE call \in Opening_
  <2>1. call' \in Opening_
    BY <1>2 DEF Opening_
  <2> QED BY <1>2, <2>1 DEF Opening_
<1>3. CASE call \in Mounting
  BY <1>3 DEF Mounting
<1>4. CASE call \in Reading
  BY <1>4 DEF Reading
<1> QED BY <1>1, <1>2, <1>3, <1>4

(* Handles and descriptors under a step that gives the program none.       *)
LEMMA HandedSame ==
  ASSUME Handed, UNCHANGED <<fds, given>>,
         \A x \in Handles : fh[x].first # 0 => fh'[x].first # 0,
         call'.op = "open" => call.op = "open" /\ call'.fd = call.fd,
         iso' \in IsoReturned /\ iso'.ret # 0 =>
           \/ iso' = iso
           \/ iso'.ret \in Handles \ {0} /\ fh[iso'.ret].first = 0 /\ fh'[iso'.ret].first # 0
  PROVE  Handed'
<1>1. \A f \in given : fds[f].ops # ""
  BY DEF Handed
<1>2. \A f \in given : FromDisc(f)' => FromDisc(f) /\ fds[f].h \in Handles \ {0} /\ fh[fds[f].h].first # 0
  BY DEF Handed, FromDisc
<1>3. \A f \in given : FromDisc(f)' => fds'[f].h \in Handles \ {0} /\ fh'[fds'[f].h].first # 0
  BY <1>2
<1>4. \A f, g \in given : FromDisc(f) /\ FromDisc(g) /\ fds[f].h = fds[g].h => f = g
  BY Zenon DEF Handed
<1>5. ASSUME iso' \in IsoReturned, iso'.ret # 0
      PROVE  /\ iso'.ret \in Handles \ {0} /\ fh'[iso'.ret].first # 0
             /\ \A f \in given : FromDisc(f) => fds[f].h # iso'.ret
  <2>1. CASE iso' = iso
    <3>1. /\ iso.ret \in Handles \ {0} /\ fh[iso.ret].first # 0
          /\ \A f \in given : FromDisc(f) => fds[f].h # iso.ret
      BY <1>5, <2>1 DEF Handed
    <3> QED BY <2>1, <3>1
  <2>2. CASE iso'.ret \in Handles \ {0} /\ fh[iso'.ret].first = 0 /\ fh'[iso'.ret].first # 0
    BY <1>2, <2>2 DEF FromDisc
  <2> QED BY <1>5, <2>1, <2>2
<1>6. call'.op = "open" => call'.fd \notin given'
  BY DEF Handed
<1> QED BY <1>1, <1>2, <1>3, <1>4, <1>5, <1>6 DEF Handed, FromDisc

(* Between calls nothing is under way.                                     *)
LEMMA RestIs ==
  ASSUME MountsInv, call = NoCall
  PROVE  iso = Idle /\ ~OnDisc /\ rd.pc = "idle" /\ iso \notin IsoReturned
<1>1. call.op = "none"
  BY DEF NoCall
<1>2. ~OnDisc /\ iso = Idle /\ rd.pc = "idle"
  BY <1>1 DEF OnDisc, MountsInv, OneCall, OnStick
<1>3. Idle.pc = "idle" /\ \A x \in IsoReturned : x.pc = "ret"
  BY DEF Idle, IsoReturned
<1> QED BY <1>2, <1>3

LEMMA DiscRests ==
  ASSUME MountsInv, ~OnDisc
  PROVE  iso = Idle /\ iso \notin IsoReturned
<1>1. iso = Idle
  BY DEF MountsInv, OneCall
<1>2. Idle.pc = "idle" /\ \A x \in IsoReturned : x.pc = "ret"
  BY DEF Idle, IsoReturned
<1> QED BY <1>1, <1>2
-----------------------------------------------------------------------------
(* Steps that leave the tables and the disc alone and let a call go on or  *)
(* end.                                                                    *)
LEMMA CallGoesOn ==
  ASSUME MountsInv, ~OnDisc, UNCHANGED <<ivars, devices, mounts, known, named, plug, plugs, fds, given>>,
         \/ call' = NoCall
         \/ call'.op = call.op /\ (call.op = "open" => call'.fd = call.fd)
              /\ call' \in Opening_ \cup Mounting \cup Reading /\ call'.step # "iso",
         "pc" \in DOMAIN rd',
         OnStick' => call'.op # "none" /\ call'.step \in {"ahead", "single"}
  PROVE  MountsInv'
<1>1. IsoTyped' /\ Paired'
  BY IsoSame, PairedSame DEF MountsInv
<1>2. Tables'
  BY DEF MountsInv, Tables
<1>3. NoCall.op = "none"
  BY DEF NoCall
<1>4. iso' = Idle /\ ~OnDisc'
  BY <1>3, DiscRests DEF ivars, OnDisc
<1>5. OneCall'
  BY <1>4 DEF OneCall
<1>6. Handed'
  <2>1. UNCHANGED <<fds, given, fh, iso>>
    BY DEF ivars
  <2>2. call'.op = "open" => call.op = "open" /\ call'.fd = call.fd
    BY <1>3
  <2> QED BY <2>1, <2>2, HandedSame DEF MountsInv
<1> QED BY <1>1, <1>2, <1>5, <1>6 DEF MountsInv

LEMMA NoSuchFileInv ==
  ASSUME MountsInv, NoSuchFile
  PROVE  MountsInv'
<1>1. ~OnDisc /\ call' = NoCall /\ UNCHANGED <<rd, ivars, devices, mounts, known, named, plug, plugs, fds, given>>
  BY DEF NoSuchFile, OnDisc, Same, mvars
<1>2. rd.pc = "idle" /\ "pc" \in DOMAIN rd
  BY DEF NoSuchFile, MountsInv, OneCall, OnStick
<1>3. ~OnStick'
  BY <1>1, <1>2 DEF OnStick
<1> QED BY <1>1, <1>2, <1>3, CallGoesOn

LEMMA FatMountedInv ==
  ASSUME MountsInv, FatMounted
  PROVE  MountsInv'
<1>1. ~OnDisc /\ call' = NoCall /\ UNCHANGED <<rd, ivars, devices, mounts, known, named, plug, plugs, fds, given>>
  BY DEF FatMounted, OnDisc, Same, mvars
<1>2. rd.pc = "idle" /\ "pc" \in DOMAIN rd
  BY DEF FatMounted, MountsInv, OneCall, OnStick
<1>3. ~OnStick'
  BY <1>1, <1>2 DEF OnStick
<1> QED BY <1>1, <1>2, <1>3, CallGoesOn

LEMMA FatCachedInv ==
  ASSUME MountsInv, FatCached
  PROVE  MountsInv'
<1>1. ~OnDisc /\ call' = [call EXCEPT !.step = "done"]
      /\ UNCHANGED <<rd, ivars, devices, mounts, known, named, plug, plugs, fds, given>>
  BY DEF FatCached, OnDisc, Same, mvars
<1>2. rd.pc = "idle" /\ "pc" \in DOMAIN rd
  BY DEF FatCached, MountsInv, OneCall, OnStick
<1>3. ~OnStick'
  BY <1>1, <1>2 DEF OnStick
<1>4. /\ call' \in Opening_ \cup Mounting \cup Reading
      /\ call'.op = call.op /\ call'.step = "done"
      /\ call.op = "open" => call'.fd = call.fd
  <2>1. "done" \in Steps
    BY DEF Steps
  <2>2. Tables /\ call.op # "none" /\ call.step # "iso"
    BY DEF MountsInv, FatCached
  <2> QED BY <1>1, <2>1, <2>2, NextStep
<1> QED BY <1>1, <1>2, <1>3, <1>4, CallGoesOn

LEMMA FatHasReadInv ==
  ASSUME MountsInv, FatHasRead
  PROVE  MountsInv'
<1> DEFINE step == IF call.step = "ahead" /\ rd.num # 0 THEN "one" ELSE "done"
<1>1. call' = [call EXCEPT !.step = step] /\ rd' = NotReading
      /\ UNCHANGED <<ivars, devices, mounts, known, named, plug, plugs, fds, given>>
  BY DEF FatHasRead, Same
<1>2. call.op # "none" /\ call.step \in {"ahead", "single"}
  BY DEF FatHasRead, MountsInv, OneCall, OnStick
<1>3. ~OnDisc
  BY <1>2 DEF OnDisc
<1>4. "pc" \in DOMAIN rd' /\ ~OnStick'
  BY <1>1 DEF OnStick, NotReading
<1>5. step \in Steps /\ step # "iso"
  BY DEF Steps
<1> HIDE DEF step
<1>6. /\ call' \in Opening_ \cup Mounting \cup Reading
      /\ call'.op = call.op /\ call'.step = step
      /\ call.op = "open" => call'.fd = call.fd
  <2>1. Tables /\ call.step # "iso"
    BY <1>2 DEF MountsInv
  <2> QED BY <1>1, <1>2, <1>5, <2>1, NextStep
<1> QED BY <1>1, <1>3, <1>4, <1>5, <1>6, CallGoesOn

\* What is asked of the device, when it has no operations or the drive's, is asked for nothing.
LEMMA AskInv ==
  ASSUME MountsInv, call.op # "none", call.step \notin {"iso", "look"}, rd.pc = "idle",
         NEW step \in {"ahead", "single"}, NEW count, AskDevice(step, count),
         UNCHANGED <<ivars, devices, mounts, known, named, plug, plugs, fds, given>>
  PROVE  MountsInv'
<1>1. ~OnDisc
  BY DEF OnDisc
<1>2. CASE \E p, stick : StartStick(p, stick, 0, count) /\ call' = [call EXCEPT !.step = step]
  <2>1. "pc" \in DOMAIN rd'
    BY <1>2 DEF StartStick
  <2>2. step \in Steps /\ step # "iso"
    BY DEF Steps
  <2>3. /\ call' \in Opening_ \cup Mounting \cup Reading
        /\ call'.op = call.op /\ call'.step = step
        /\ call.op = "open" => call'.fd = call.fd
    <3>1. Tables /\ call.step # "iso"
      BY DEF MountsInv
    <3> QED BY <1>2, <2>2, <3>1, NextStep
  <2> QED BY <1>1, <2>1, <2>2, <2>3, CallGoesOn
<1>3. CASE UNCHANGED <<rd, call>>
  <2>1. "pc" \in DOMAIN rd' /\ ~OnStick'
    BY <1>3 DEF MountsInv, OneCall, OnStick
  <2>2. call \in Opening_ \cup Mounting \cup Reading
    BY CallKinds DEF MountsInv
  <2> QED BY <1>1, <1>3, <2>1, <2>2, CallGoesOn
<1> QED BY <1>2, <1>3, Zenon DEF AskDevice

LEMMA FatReadsInv ==
  ASSUME MountsInv, FatReads
  PROVE  MountsInv'
<1>1. /\ call.op # "none" /\ call.step = "fat" /\ rd.pc = "idle" /\ AskDevice("ahead", Ahead)
      /\ UNCHANGED <<ivars, devices, mounts, known, named, plug, plugs, fds, given>>
  BY DEF FatReads, Same
<1> QED BY <1>1, AskInv

LEMMA FatReadsOneInv ==
  ASSUME MountsInv, FatReadsOne
  PROVE  MountsInv'
<1>1. /\ call.op # "none" /\ call.step = "one" /\ rd.pc = "idle" /\ AskDevice("single", 1)
      /\ UNCHANGED <<ivars, devices, mounts, known, named, plug, plugs, fds, given>>
  BY DEF FatReadsOne, Same
<1> QED BY <1>1, AskInv
-----------------------------------------------------------------------------
(* Steps of the disc, the sticks and the user.                             *)
LEMMA IsoStepsInv ==
  ASSUME MountsInv, IsoSteps
  PROVE  MountsInv'
<1>1. OnDisc /\ IsoStep /\ UNCHANGED <<mvars, svars>>
  BY DEF IsoSteps
<1>2. Keeps
  BY <1>1, IsoKeeps DEF MountsInv
<1>3. Tables' /\ Paired'
  BY <1>1 DEF MountsInv, Tables, Paired, mvars, svars
<1>4. OneCall'
  <2>1. OnDisc' /\ call' = call /\ rd' = rd
    BY <1>1 DEF OnDisc, mvars, svars
  <2>2. OnStick' = OnStick
    BY <2>1 DEF OnStick
  <2>3. iso # Idle /\ (iso.pc # "lost" => iso.op = call.op)
    BY <1>1 DEF MountsInv, OneCall
  <2>4. iso.pc # "lost"
    BY <1>1 DEF IsoStep, Percd, PercdFails, Find, NotFound, FindFails, ReadDirect, DirectFails, ReadPart, PartFails, ReadEnd
  <2>5. iso' # Idle /\ (iso'.pc # "lost" => iso'.op = iso.op)
    BY <1>2 DEF Keeps
  <2> QED BY <2>1, <2>2, <2>3, <2>4, <2>5 DEF MountsInv, OneCall
<1>5. Handed'
  <2>1. UNCHANGED <<fds, given, call>>
    BY <1>1 DEF svars
  <2> QED BY <1>2, <2>1, HandedSame DEF Keeps, MountsInv
<1> QED BY <1>2, <1>3, <1>4, <1>5 DEF MountsInv, Keeps

\* A step of the sticks' driver or of the controller begins no read.
LEMMA ReadGoesOn ==
  ASSUME MassStep, "pc" \in DOMAIN rd
  PROVE  /\ "pc" \in DOMAIN rd' /\ (OnStick' => OnStick)
         /\ UNCHANGED <<plug, plugs>>
<1>1. CASE MassDriver
  BY <1>1 DEF MassDriver, ReadSector, Waits, Wait, WaitStatus, PieceRead, PieceFailed, ClearToggle, ClearFeature,
              RequestSense, SensePhase, SenseWaits, SenseWait, SenseDone, ReadReturns, Await, DriverOnly, OnStick
<1>2. CASE HcFrame
  BY <1>2 DEF HcFrame, OnStick
<1>3. ASSUME NEW p \in Ports, NEW e \in Ends, HcTransfer(p, e) \/ HcError(p, e)
      PROVE  /\ "pc" \in DOMAIN rd' /\ (OnStick' => OnStick)
             /\ UNCHANGED <<plug, plugs>>
  <2>1. UNCHANGED <<plug, plugs>>
    BY <1>3 DEF HcTransfer, HcError
  <2>2. rd' = rd \/ \E x : rd' = [rd EXCEPT !.data = x]
    BY <1>3, Zenon DEF HcTransfer, HcError, Ended
  <2> QED BY <2>1, <2>2 DEF OnStick
<1> QED BY <1>1, <1>2, <1>3 DEF MassStep, HcStep

LEMMA MassStepsInv ==
  ASSUME MountsInv, MassSteps
  PROVE  MountsInv'
<1>1. MassStep /\ UNCHANGED <<ivars, svars>>
  BY DEF MassSteps
<1>2. /\ "pc" \in DOMAIN rd' /\ (OnStick' => OnStick)
      /\ UNCHANGED <<plug, plugs>>
  BY <1>1, ReadGoesOn DEF MountsInv, OneCall
<1>3. UNCHANGED <<iso, fh, call, fds, given, devices, mounts, known, named>>
  BY <1>1 DEF ivars, svars
<1>4. IsoTyped' /\ Paired'
  BY <1>1, <1>3, IsoSame, PairedSame DEF MountsInv
<1>5. Tables'
  BY <1>2, <1>3 DEF MountsInv, Tables
<1>6. OneCall'
  BY <1>2, <1>3 DEF MountsInv, OneCall, OnDisc
<1>7. Handed'
  BY <1>3, HandedSame DEF MountsInv
<1> QED BY <1>4, <1>5, <1>6, <1>7 DEF MountsInv

LEMMA UserInv ==
  ASSUME MountsInv, User
  PROVE  MountsInv'
<1>1. ASSUME NEW d \in Discs, SwapDisc(d), UNCHANGED <<mvars, svars>>
      PROVE  MountsInv'
  <2>1. disc' = d /\ changed' = TRUE /\ UNCHANGED <<icache, dcache, joliet, root, percd_done, fh, iso, missed>>
    BY <1>1 DEF SwapDisc
  <2>2. IsoTyped'
    BY <2>1 DEF MountsInv, IsoTyped
  <2>3. UNCHANGED <<iso, fh, call, fds, given, devices, mounts, known, named, plug, plugs, rd>>
    BY <1>1, <2>1 DEF mvars, svars
  <2>4. Tables' /\ Paired' /\ OneCall'
    BY <2>3 DEF MountsInv, Tables, Paired, OneCall, OnDisc, OnStick
  <2>5. Handed'
    BY <2>3, HandedSame DEF MountsInv
  <2> QED BY <2>2, <2>4, <2>5 DEF MountsInv
<1>2. ASSUME NEW p \in Ports, PlugIn(p) \/ PullOut(p), UNCHANGED <<ivars, svars>>
      PROVE  MountsInv'
  <2>1. plug' \in [Ports -> Nat] /\ plugs' \in Nat /\ rd' = rd
    BY <1>2 DEF PlugIn, PullOut, MountsInv, Tables
  <2>2. UNCHANGED <<iso, fh, call, fds, given, devices, mounts, known, named>>
    BY <1>2 DEF ivars, svars
  <2>3. IsoTyped' /\ Paired'
    BY <1>2, <2>2, IsoSame, PairedSame DEF MountsInv
  <2>4. Tables'
    BY <2>1, <2>2 DEF MountsInv, Tables
  <2>5. OneCall'
    BY <2>1, <2>2 DEF MountsInv, OneCall, OnDisc, OnStick
  <2>6. Handed'
    BY <2>2, HandedSame DEF MountsInv
  <2> QED BY <2>3, <2>4, <2>5, <2>6 DEF MountsInv
<1> QED BY <1>1, <1>2 DEF User, Discs
-----------------------------------------------------------------------------
(* The calls of the program.                                               *)
LEMMA OpenInv ==
  ASSUME MountsInv, NEW at \in Names, NEW file \in Paths, Open(at, file)
  PROVE  MountsInv'
<1> DEFINE fd == Lowest(FreeFDs)
<1>1. /\ call = NoCall
      /\ UNCHANGED <<ivars, mvars, fds, given, devices, mounts, known, named>>
      /\ call' = IF FreeFDs = {} THEN NoCall
                 ELSE [op |-> "open", step |-> "look", fd |-> fd, at |-> at, file |-> file, vol |-> None]
  BY DEF Open, AtRest, Same
<1>2. iso = Idle /\ ~OnDisc /\ rd.pc = "idle" /\ UNCHANGED <<plug, plugs, rd, iso, fh>>
  BY <1>1, RestIs DEF mvars, ivars
<1>3. FreeFDs # {} => fd \in FDs /\ fd \notin given
  <2> HAVE FreeFDs # {}
  <2>1. FreeFDs \subseteq Nat
    <3>1. MAXFD \in Nat
      BY StorageAssumption, Zenon DEF StorageAssumption
    <3>2. FDs \subseteq Nat
      BY <3>1 DEF FDs
    <3> QED BY <3>2 DEF FreeFDs
  <2>2. fd \in FreeFDs
    BY <2>1, LowestIs, Zenon
  <2> HIDE DEF fd
  <2> QED BY <2>2 DEF FreeFDs, MountsInv, Handed
<1> HIDE DEF fd
<1>4. call' = NoCall \/ call' \in Opening_
  BY <1>1, <1>3 DEF Opening_, None
<1>5. call'.op = "open" => call'.fd \notin given
  BY <1>1, <1>3 DEF NoCall
<1>6. ~OnDisc' /\ iso' = Idle /\ ~OnStick'
  BY <1>1, <1>2 DEF OnDisc, OnStick, NoCall
<1>7. IsoTyped' /\ Paired' /\ OneCall'
  BY <1>1, <1>2, <1>6, IsoSame, PairedSame DEF MountsInv, OneCall
<1>8. Tables'
  BY <1>1, <1>2, <1>4 DEF MountsInv, Tables
<1>9. Handed'
  BY <1>1, <1>2, <1>5 DEF MountsInv, Handed, FromDisc
<1> QED BY <1>7, <1>8, <1>9 DEF MountsInv

\* The descriptor of an open call is filled in, and given out or not.
LEMMA Filled ==
  ASSUME MountsInv, call.op = "open", NEW file \in OpenFile, file.ops # "",
         fds' = [fds EXCEPT ![call.fd] = file],
         given' = given \/ given' = given \cup {call.fd},
         UNCHANGED <<fh, plug, plugs, devices, mounts, known, named>>,
         call' = NoCall \/ (call' \in Opening_ /\ call'.fd = call.fd /\ given' = given),
         file.ops = "iso9660" /\ given' # given =>
           /\ file.h \in Handles \ {0} /\ fh[file.h].first # 0
           /\ \A f \in given : FromDisc(f) => fds[f].h # file.h,
         iso' = Idle
  PROVE  Tables' /\ Paired' /\ Handed'
<1>1. call.fd \in FDs /\ call.fd \notin given
  <2>1. call \in Opening_
    BY CallKinds DEF MountsInv
  <2> QED BY <2>1 DEF Opening_, MountsInv, Handed
<1>2. fds' \in [FDs -> OpenFile] /\ given' \subseteq FDs
  BY <1>1 DEF MountsInv, Tables
<1>3. /\ fds'[call.fd] = file
      /\ \A f \in given : f # call.fd /\ fds'[f] = fds[f]
  BY <1>1 DEF MountsInv, Tables
<1>4. Tables'
  BY <1>2 DEF MountsInv, Tables
<1>5. Paired'
  BY PairedSame DEF MountsInv
<1>6. \A f \in given' : f \in given \/ (f = call.fd /\ given' # given)
  BY <1>1
<1>7. \A f \in given' : fds'[f].ops # ""
  BY <1>3, <1>6 DEF MountsInv, Handed
<1>8. \A f \in given : FromDisc(f) => fds[f].h \in Handles \ {0} /\ fh[fds[f].h].first # 0
  BY DEF MountsInv, Handed
<1>9. \A f \in given' : fds'[f].ops = "iso9660" => fds'[f].h \in Handles \ {0} /\ fh'[fds'[f].h].first # 0
  BY <1>3, <1>6, <1>8 DEF FromDisc
<1>10. \A f, g \in given : FromDisc(f) /\ FromDisc(g) /\ fds[f].h = fds[g].h => f = g
  BY Zenon DEF MountsInv, Handed
<1>11. ASSUME NEW f \in given', NEW g \in given', fds'[f].ops = "iso9660", fds'[g].ops = "iso9660",
              fds'[f].h = fds'[g].h
       PROVE  f = g
  <2>1. CASE f \in given /\ g \in given
    BY <1>3, <1>10, <1>11, <2>1 DEF FromDisc
  <2>2. CASE f \in given /\ g = call.fd /\ given' # given
    BY <1>3, <1>11, <2>2 DEF FromDisc
  <2>3. CASE g \in given /\ f = call.fd /\ given' # given
    BY <1>3, <1>11, <2>3 DEF FromDisc
  <2>4. CASE f = call.fd /\ g = call.fd
    BY <2>4
  <2> QED BY <1>6, <2>1, <2>2, <2>3, <2>4
<1>12. call'.op = "open" => call'.fd \notin given'
  <2>1. NoCall.op = "none"
    BY DEF NoCall
  <2>2. call' = NoCall \/ (call'.fd = call.fd /\ given' = given)
    OBVIOUS
  <2>3. CASE call' = NoCall
    BY <2>1, <2>3
  <2>4. CASE call'.fd = call.fd /\ given' = given
    BY <1>1, <2>4
  <2> QED BY <2>2, <2>3, <2>4
<1>13. iso' \notin IsoReturned
  BY DEF Idle, IsoReturned
<1> QED BY <1>4, <1>5, <1>7, <1>9, <1>11, <1>12, <1>13 DEF Handed, FromDisc

LEMMA IsoOpenedInv ==
  ASSUME MountsInv, IsoOpened
  PROVE  MountsInv'
<1> DEFINE file == [ops |-> "iso9660", h |-> iso.ret]
<1>1. /\ call.op = "open" /\ call.step = "iso" /\ iso.pc = "ret" /\ Opens(file, iso.ret > 0)
      /\ iso' = Idle
      /\ UNCHANGED <<mvars, disc, changed, icache, dcache, joliet, root, percd_done, fh, missed,
                     devices, mounts, known, named>>
  BY DEF IsoOpened, Same
<1>2. iso \in IsoReturned /\ iso.ret \in Nat
  <2>1. iso.op = "open"
    BY <1>1 DEF MountsInv, OneCall, OnDisc
  <2>2. iso \in IsoReturned
    <3>1. /\ \A x \in IsoOpen : x.pc \in {"percd", "find"}
          /\ \A x \in IsoRead \cup IsoHasRead \cup IsoFailed : x.op = "read"
      BY DEF IsoOpen, IsoRead, IsoHasRead, IsoFailed
    <3>2. Idle.pc = "idle" /\ [pc |-> "lost"].pc = "lost"
      BY DEF Idle
    <3> QED BY <1>1, <2>1, <3>1, <3>2 DEF MountsInv, IsoTyped
  <2> QED BY <2>2 DEF IsoReturned
<1>3. file \in OpenFile /\ file.ops = "iso9660" /\ file.h = iso.ret
  BY <1>2 DEF OpenFile
<1>4. call \in Opening_
  BY <1>1, CallKinds DEF MountsInv
<1>5. [call EXCEPT !.step = "look"] \in Opening_ /\ [call EXCEPT !.step = "look"].fd = call.fd
      /\ [call EXCEPT !.step = "look"].step = "look"
  BY <1>4 DEF Opening_
<1>6. iso.ret # 0 => /\ iso.ret \in Handles \ {0} /\ fh[iso.ret].first # 0
                     /\ \A f \in given : FromDisc(f) => fds[f].h # iso.ret
  BY <1>2 DEF MountsInv, Handed
<1> HIDE DEF file
<1>7. /\ fds' = [fds EXCEPT ![call.fd] = file]
      /\ \/ iso.ret > 0 /\ given' = given \cup {call.fd} /\ call' = NoCall
         \/ given' = given /\ call' = [call EXCEPT !.step = "look"]
  BY <1>1, Zenon DEF Opens
<1>8. UNCHANGED <<plug, plugs, rd>>
  BY <1>1 DEF mvars
<1>9. Tables' /\ Paired' /\ Handed'
  <2>1. file.ops # ""
    BY <1>3
  <2>2. given' = given \/ given' = given \cup {call.fd}
    BY <1>7
  <2>3. call' = NoCall \/ (call' \in Opening_ /\ call'.fd = call.fd /\ given' = given)
    BY <1>5, <1>7
  <2>4. given' # given =>
           /\ file.h \in Handles \ {0} /\ fh[file.h].first # 0
           /\ \A f \in given : FromDisc(f) => fds[f].h # file.h
    BY <1>2, <1>3, <1>6, <1>7
  <2>5. UNCHANGED <<fh, plug, plugs, devices, mounts, known, named>>
    BY <1>1, <1>8
  <2> QED BY <1>1, <1>3, <1>7, <2>1, <2>2, <2>3, <2>4, <2>5, Filled
<1>10. IsoTyped'
  BY <1>1 DEF MountsInv, IsoTyped
<1>11. OneCall'
  <2>1. rd.pc = "idle" /\ "pc" \in DOMAIN rd
    BY <1>1 DEF MountsInv, OneCall, OnStick
  <2>2. ~OnDisc'
    <3>1. NoCall.op = "none"
      BY DEF NoCall
    <3>2. call' = NoCall \/ call'.step = "look"
      BY <1>5, <1>7
    <3> QED BY <3>1, <3>2 DEF OnDisc
  <2>3. ~OnStick' /\ "pc" \in DOMAIN rd'
    BY <1>8, <2>1 DEF OnStick
  <2> QED BY <1>1, <2>2, <2>3 DEF OneCall
<1> QED BY <1>9, <1>10, <1>11 DEF MountsInv

LEMMA FatOpenedInv ==
  ASSUME MountsInv, FatOpened
  PROVE  MountsInv'
<1> DEFINE file == [ops |-> "fat", vol |-> call.vol]
<1>1. /\ call.op = "open" /\ call.step = "done" /\ \E found \in BOOLEAN : Opens(file, found)
      /\ UNCHANGED <<ivars, mvars, devices, mounts, known, named>>
  BY DEF FatOpened, Same
<1>2. call \in Opening_
  BY <1>1, CallKinds DEF MountsInv
<1>3. file \in OpenFile /\ file.ops = "fat"
  <2>1. call.vol \in Int
    BY <1>2, StorageAssumption DEF Opening_, Volumes, None, StorageAssumption
  <2> QED BY <2>1 DEF OpenFile
<1>4. [call EXCEPT !.step = "look"] \in Opening_ /\ [call EXCEPT !.step = "look"].fd = call.fd
      /\ [call EXCEPT !.step = "look"].step = "look"
  BY <1>2 DEF Opening_
<1> HIDE DEF file
<1>5. /\ fds' = [fds EXCEPT ![call.fd] = file]
      /\ \/ given' = given \cup {call.fd} /\ call' = NoCall
         \/ given' = given /\ call' = [call EXCEPT !.step = "look"]
  BY <1>1, Zenon DEF Opens
<1>6. UNCHANGED <<plug, plugs, rd, iso, fh>>
  BY <1>1 DEF mvars, ivars
<1>7. iso' = Idle
  BY <1>1, <1>6, DiscRests DEF OnDisc
<1>8. Tables' /\ Paired' /\ Handed'
  <2>1. file.ops # "" /\ file.ops # "iso9660"
    BY <1>3
  <2>2. given' = given \/ given' = given \cup {call.fd}
    BY <1>5
  <2>3. call' = NoCall \/ (call' \in Opening_ /\ call'.fd = call.fd /\ given' = given)
    BY <1>4, <1>5
  <2>5. UNCHANGED <<fh, plug, plugs, devices, mounts, known, named>>
    BY <1>1, <1>6
  <2> QED BY <1>1, <1>3, <1>5, <1>7, <2>1, <2>2, <2>3, <2>5, Filled
<1>9. IsoTyped'
  BY <1>1, IsoSame DEF MountsInv
<1>10. OneCall'
  <2>1. rd.pc = "idle" /\ "pc" \in DOMAIN rd
    BY <1>1 DEF MountsInv, OneCall, OnStick
  <2>2. ~OnDisc'
    <3>1. NoCall.op = "none"
      BY DEF NoCall
    <3>2. call' = NoCall \/ call'.step = "look"
      BY <1>4, <1>5
    <3> QED BY <3>1, <3>2 DEF OnDisc
  <2>3. ~OnStick' /\ "pc" \in DOMAIN rd'
    BY <1>6, <2>1 DEF OnStick
  <2> QED BY <1>7, <2>2, <2>3 DEF OneCall
<1> QED BY <1>8, <1>9, <1>10 DEF MountsInv

\* To StartOpen the disc may be looked at first.
LEMMA StartOpenKeeps ==
  ASSUME IsoTyped, NEW path \in Paths, StartOpen(path)
  PROVE  IsoTyped' /\ iso' \in IsoOpen /\ \A x \in Handles : fh'[x].first = fh[x].first
<1>1. iso' \in IsoOpen
  <2>1. root.extent \in Nat /\ root.size \in Nat /\ percd_done \in BOOLEAN
    BY DEF IsoTyped
  <2> QED BY <2>1 DEF StartOpen, IsoOpen
<1>2. disc' = disc /\ changed' = changed /\ root' = root
  BY DEF StartOpen, DriveSame
<1>3. CASE UNCHANGED <<icache, dcache, joliet, percd_done, fh, missed>>
  BY <1>1, <1>2, <1>3 DEF IsoTyped
<1>4. CASE iso_reset /\ joliet' = 0
  <2>1. icache' \in Caches /\ dcache' \in Caches
    BY <1>4, CacheCleared, Zenon DEF IsoTyped, iso_reset, bclear
  <2>2. fh' = [x \in Handles |-> [fh[x] EXCEPT !.broken = TRUE]]
    BY <1>4 DEF iso_reset, iso_break_all
  <2>3. fh' \in [Handles -> Handle] /\ \A x \in Handles : fh'[x].first = fh[x].first
    BY <2>2 DEF IsoTyped, Handle
  <2>4. 0 \in Handles
    BY IsoAssumption DEF IsoAssumption, Handles
  <2>5. missed' = FALSE /\ percd_done' = FALSE
    BY <1>4 DEF iso_reset
  <2>6. IsoTyped'
    BY <1>1, <1>2, <1>4, <2>1, <2>3, <2>4, <2>5 DEF IsoTyped
  <2> QED BY <1>1, <2>3, <2>6
<1> QED BY <1>1, <1>3, <1>4, Zenon DEF StartOpen

LEMMA StartReadKeeps ==
  ASSUME IsoTyped, NEW x \in Handles \ {0}, NEW n \in Nat, StartRead(x, n)
  PROVE  IsoTyped' /\ iso' # Idle /\ iso'.op = "read" /\ iso' \notin IsoReturned /\ fh' = fh
<1>1. UNCHANGED <<disc, changed, icache, dcache, joliet, root, percd_done, fh, missed>>
  BY DEF StartRead, DriveSame
<1>2. CASE iso' = [pc |-> "ret", op |-> "read", ret |-> -1]
  <2>1. iso' \in IsoFailed /\ iso' # Idle /\ iso'.op = "read" /\ iso' \notin IsoReturned
    BY <1>2 DEF IsoFailed, IsoReturned, Idle
  <2> QED BY <1>1, <2>1 DEF IsoTyped
<1>3. CASE iso' = [pc |-> "copy", op |-> "read", k |-> 1, depth |-> 0, goes_on |-> FALSE,
                   h |-> x, n |-> n, from |-> fh[x].ptr, got |-> <<>>, ret |-> 0]
  <2>1. fh[x].ptr \in Nat
    BY DEF IsoTyped, Handle
  <2>2. <<>> \in Seq(Unit)
    BY EmptySeq
  <2>3. iso' \in IsoRead /\ iso'.pc = "copy"
    BY <1>3, <2>1, <2>2 DEF IsoRead
  <2>4. iso' # Idle /\ iso'.op = "read" /\ iso' \notin IsoReturned
    BY <2>3 DEF IsoRead, IsoReturned, Idle
  <2> QED BY <1>1, <2>3, <2>4 DEF IsoTyped
<1> QED BY <1>2, <1>3, Zenon DEF StartRead

LEMMA OpenOnInv ==
  ASSUME MountsInv, OpenOn
  PROVE  MountsInv'
<1> DEFINE m == Lowest(Matching)
<1>1. /\ call.op = "open" /\ call.step = "look" /\ Matching # {}
      /\ UNCHANGED <<mvars, devices, mounts, known, named>>
  BY DEF OpenOn, Same
<1>2. m \in Volumes
  <2>1. Matching \subseteq Volumes
    BY DEF Matching
  <2>2. Volumes \subseteq Nat
    <3>1. NUM_VOLUMES \in Nat
      BY StorageAssumption, Zenon DEF StorageAssumption
    <3> QED BY <3>1 DEF Volumes
  <2>3. m \in Matching
    BY <1>1, <2>1, <2>2, LowestIs, Zenon
  <2> HIDE DEF m
  <2> QED BY <2>1, <2>3
<1>3. mounts[m].ops \in {"", "console", "iso9660", "fat"}
  <2> HIDE DEF m
  <2> QED BY <1>2 DEF MountsInv, Tables, MountEntry
<1>4. call \in Opening_ /\ ~OnDisc
  BY <1>1, CallKinds DEF MountsInv, OnDisc
<1>5. iso = Idle /\ iso \notin IsoReturned
  BY <1>4, DiscRests
<1>6. UNCHANGED <<plug, plugs, rd>>
  BY <1>1 DEF mvars
<1>7. rd.pc = "idle" /\ "pc" \in DOMAIN rd /\ ~OnStick' /\ "pc" \in DOMAIN rd'
  BY <1>1, <1>6 DEF MountsInv, OneCall, OnStick
<1>8. CASE mounts[m].ops = ""
  <2>1. UNCHANGED <<ivars, fds, given, call>>
    BY <1>8, Zenon DEF OpenOn
  <2>2. UNCHANGED <<iso, fh>>
    BY <2>1 DEF ivars
  <2>3. IsoTyped' /\ Paired' /\ Tables' /\ Handed'
    BY <1>1, <1>6, <2>1, <2>2, IsoSame, PairedSame, HandedSame DEF MountsInv, Tables
  <2>4. OneCall'
    BY <1>4, <1>5, <1>7, <2>1, <2>2 DEF OneCall, OnDisc
  <2> QED BY <2>3, <2>4 DEF MountsInv
<1>9. CASE mounts[m].ops = "console"
  <2>1. /\ \/ /\ fds' = [fds EXCEPT ![call.fd] = [ops |-> "console"]]
              /\ given' = given \cup {call.fd}
              /\ call' = NoCall
           \/ /\ call' = [call EXCEPT !.vol = m]
              /\ UNCHANGED <<fds, given>>
        /\ UNCHANGED ivars
    BY <1>9, Zenon DEF OpenOn
  <2>2. UNCHANGED <<iso, fh>>
    BY <2>1 DEF ivars
  <2> HIDE DEF m
  <2>3. [call EXCEPT !.vol = m] \in Opening_ /\ [call EXCEPT !.vol = m].fd = call.fd
        /\ [call EXCEPT !.vol = m].step = "look"
    BY <1>1, <1>2, <1>4 DEF Opening_
  <2>4. ~OnDisc'
    <3>1. NoCall.op = "none"
      BY DEF NoCall
    <3>2. call' = NoCall \/ call'.step = "look"
      BY <2>1, <2>3
    <3> QED BY <3>1, <3>2 DEF OnDisc
  <2>5. IsoTyped' /\ OneCall'
    BY <1>5, <1>7, <2>1, <2>2, <2>4, IsoSame DEF MountsInv, OneCall
  <2>6. CASE fds' = [fds EXCEPT ![call.fd] = [ops |-> "console"]] /\ given' = given \cup {call.fd} /\ call' = NoCall
    <3> DEFINE file == [ops |-> "console"]
    <3>1. file \in OpenFile /\ file.ops # "" /\ file.ops # "iso9660"
      BY DEF OpenFile
    <3>2. fds' = [fds EXCEPT ![call.fd] = file]
      BY <2>6
    <3> HIDE DEF file
    <3>3. Tables' /\ Paired' /\ Handed'
      BY <1>1, <1>5, <1>6, <2>2, <2>6, <3>1, <3>2, Filled
    <3> QED BY <2>5, <3>3 DEF MountsInv
  <2>7. CASE call' = [call EXCEPT !.vol = m] /\ UNCHANGED <<fds, given>>
    <3>1. Paired' /\ Tables'
      BY <1>1, <1>6, <2>3, <2>7, PairedSame DEF MountsInv, Tables
    <3>2. Handed'
      BY <1>1, <2>2, <2>3, <2>7, HandedSame DEF MountsInv
    <3> QED BY <2>5, <3>1, <3>2 DEF MountsInv
  <2> QED BY <2>1, <2>6, <2>7
<1>10. CASE mounts[m].ops = "iso9660"
  <2>1. StartOpen(call.file) /\ call' = [call EXCEPT !.vol = m, !.step = "iso"] /\ UNCHANGED <<fds, given>>
    BY <1>10, Zenon DEF OpenOn
  <2> HIDE DEF m
  <2>2. call.file \in Paths
    BY <1>4 DEF Opening_
  <2>3. IsoTyped' /\ iso' \in IsoOpen /\ \A x \in Handles : fh'[x].first = fh[x].first
    BY <2>1, <2>2, StartOpenKeeps DEF MountsInv
  <2>4. call' \in Opening_ /\ call'.fd = call.fd /\ call'.op = "open" /\ call'.step = "iso"
    BY <1>2, <1>4, <2>1 DEF Opening_
  <2>5. Tables' /\ Paired'
    BY <1>1, <1>6, <2>1, <2>4, PairedSame DEF MountsInv, Tables
  <2>6. iso' # Idle /\ iso'.op = "open" /\ iso' \notin IsoReturned
    BY <2>3 DEF IsoOpen, IsoReturned, Idle
  <2>7. OneCall'
    BY <1>7, <2>4, <2>6 DEF OneCall, OnDisc
  <2>8. Handed'
    BY <1>1, <2>1, <2>3, <2>4, <2>6, HandedSame DEF MountsInv
  <2> QED BY <2>3, <2>5, <2>7, <2>8 DEF MountsInv
<1>11. CASE mounts[m].ops = "fat"
  <2>1. UNCHANGED ivars /\ call' = [call EXCEPT !.vol = m, !.step = "fat"] /\ UNCHANGED <<fds, given>>
    BY <1>11, Zenon DEF OpenOn
  <2> HIDE DEF m
  <2>2. "fat" \in Steps
    BY DEF Steps
  <2>3. call' \in Opening_ /\ call'.fd = call.fd /\ call'.op = "open" /\ call'.step = "fat"
    BY <1>2, <1>4, <2>1, <2>2 DEF Opening_
  <2>4. call.op = "open" /\ UNCHANGED <<rd, ivars, devices, mounts, known, named, plug, plugs, fds, given>>
    BY <1>1, <1>6, <2>1
  <2> QED BY <1>4, <1>7, <2>3, <2>4, CallGoesOn
<1> QED BY <1>3, <1>8, <1>9, <1>10, <1>11

\* A descriptor the program has.
LEMMA Given ==
  ASSUME MountsInv, NEW f \in given
  PROVE  /\ f \in FDs /\ fds[f] \in OpenFile
         /\ fds[f].ops = "iso9660" => fds[f].h \in Handles \ {0}
         /\ fds[f].ops = "fat" => fds[f].vol \in Int
<1>1. f \in FDs /\ fds[f] \in OpenFile
  BY DEF MountsInv, Tables
<1>2. fds[f].ops = "iso9660" => fds[f].h \in Handles \ {0}
  BY DEF MountsInv, Handed, FromDisc
<1>3. fds[f].ops = "fat" => fds[f].vol \in Int
  <2> DEFINE x == fds[f]
  <2>1. x \in {NoFile, [ops |-> "console"]} \/ x \in [ops : {"iso9660"}, h : Nat] \/ x \in [ops : {"fat"}, vol : Int]
    BY <1>1 DEF OpenFile
  <2> HIDE DEF x
  <2>2. x.ops = "fat" => x \in [ops : {"fat"}, vol : Int]
    <3>1. NoFile.ops # "fat" /\ [ops |-> "console"].ops # "fat"
      BY DEF NoFile
    <3>2. x \in [ops : {"iso9660"}, h : Nat] => x.ops = "iso9660"
      OBVIOUS
    <3> QED BY <2>1, <3>1, <3>2
  <2>3. x \in [ops : {"fat"}, vol : Int] => x.vol \in Int
    OBVIOUS
  <2> QED BY <2>2, <2>3 DEF x
<1> QED BY <1>1, <1>2, <1>3

LEMMA ReadInv ==
  ASSUME MountsInv, NEW f \in given, NEW n \in Nat, Read(f, n)
  PROVE  MountsInv'
<1>1. /\ call = NoCall
      /\ UNCHANGED <<mvars, fds, given, devices, mounts, known, named>>
  BY DEF Read, AtRest, Same
<1>2. iso = Idle /\ ~OnDisc /\ rd.pc = "idle" /\ UNCHANGED <<plug, plugs, rd>> /\ "pc" \in DOMAIN rd
  BY <1>1, RestIs DEF mvars, MountsInv, OneCall
<1>3. ~OnStick' /\ "pc" \in DOMAIN rd'
  BY <1>2 DEF OnStick
<1>4. Paired'
  BY <1>1, PairedSame DEF MountsInv
<1>5. NoCall.op = "none"
  BY DEF NoCall
<1>6. CASE fds[f].ops = "iso9660"
  <2>1. StartRead(fds[f].h, n) /\ call' = [op |-> "read", step |-> "iso"]
    BY <1>6, Zenon DEF Read, HandleOf
  <2>2. fds[f].h \in Handles \ {0}
    BY <1>6, Given
  <2>3. IsoTyped' /\ iso' # Idle /\ iso'.op = "read" /\ iso' \notin IsoReturned /\ fh' = fh
    BY <2>1, <2>2, StartReadKeeps DEF MountsInv
  <2>4. call' \in ReadingDisc /\ call'.op = "read" /\ call'.step = "iso"
    BY <2>1 DEF ReadingDisc
  <2>5. Tables'
    BY <1>1, <1>2, <2>4 DEF MountsInv, Tables
  <2>6. OneCall'
    BY <1>3, <2>3, <2>4 DEF OneCall, OnDisc
  <2>7. Handed'
    BY <1>1, <2>3, <2>4, HandedSame DEF MountsInv
  <2> QED BY <1>4, <2>3, <2>5, <2>6, <2>7 DEF MountsInv
<1>7. CASE fds[f].ops = "fat"
  <2>1. call' = [op |-> "read", step |-> "fat", vol |-> fds[f].vol] /\ UNCHANGED ivars
    BY <1>7, Zenon DEF Read, VolumeOf
  <2>2. call' \in Reading /\ call'.op = "read" /\ call'.step = "fat"
    BY <1>7, <2>1, Given DEF Reading, Steps
  <2>3. UNCHANGED <<iso, fh>>
    BY <2>1 DEF ivars
  <2>4. Tables'
    BY <1>1, <1>2, <2>2 DEF MountsInv, Tables
  <2>5. OneCall' /\ IsoTyped'
    BY <1>2, <1>3, <2>1, <2>2, <2>3, IsoSame DEF OneCall, OnDisc, MountsInv
  <2>6. Handed'
    BY <1>1, <2>2, <2>3, HandedSame DEF MountsInv
  <2> QED BY <1>4, <2>4, <2>5, <2>6 DEF MountsInv
<1>8. CASE fds[f].ops # "iso9660" /\ fds[f].ops # "fat"
  <2>1. UNCHANGED <<ivars, call>>
    BY <1>8, Zenon DEF Read
  <2> QED BY <1>1, <1>2, <1>3, <2>1, CallGoesOn
<1> QED BY <1>6, <1>7, <1>8

LEMMA HasReadInv ==
  ASSUME MountsInv, HasRead
  PROVE  MountsInv'
<1>1. /\ call.op = "read" /\ call.step \in {"iso", "done"} /\ call' = NoCall
      /\ UNCHANGED <<mvars, disc, changed, icache, dcache, joliet, root, percd_done, fh, missed,
                     fds, given, devices, mounts, known, named>>
  BY DEF HasRead, Same
<1>2. iso' = Idle
  <2>1. CASE call.step = "iso"
    BY <2>1, Zenon DEF HasRead
  <2>2. CASE call.step # "iso"
    BY <2>2, DiscRests DEF HasRead, OnDisc
  <2> QED BY <2>1, <2>2
<1>3. NoCall.op = "none"
  BY DEF NoCall
<1>4. UNCHANGED <<plug, plugs, rd>>
  BY <1>1 DEF mvars
<1>5. rd.pc = "idle" /\ "pc" \in DOMAIN rd
  BY <1>1 DEF MountsInv, OneCall, OnStick
<1>6. IsoTyped' /\ Paired'
  BY <1>1, <1>2, PairedSame DEF MountsInv, IsoTyped
<1>7. Tables'
  BY <1>1, <1>4 DEF MountsInv, Tables
<1>8. OneCall'
  BY <1>1, <1>2, <1>3, <1>4, <1>5 DEF OneCall, OnDisc, OnStick
<1>9. Handed'
  <2>1. iso' \notin IsoReturned
    BY <1>2 DEF Idle, IsoReturned
  <2> QED BY <1>1, <1>3, <2>1, HandedSame DEF MountsInv
<1> QED BY <1>6, <1>7, <1>8, <1>9 DEF MountsInv

LEMMA LSeekInv ==
  ASSUME MountsInv, NEW f \in given, NEW w \in {"SEEK_SET", "SEEK_CUR", "SEEK_END"}, NEW o \in {-1, 1}, LSeek(f, w, o)
  PROVE  MountsInv'
<1> DEFINE x == fds[f].h
           to == o + (CASE w = "SEEK_SET" -> 0 [] w = "SEEK_CUR" -> fh[x].ptr [] w = "SEEK_END" -> fh[x].size)
           at == IF to < 0 \/ to > fh[x].size THEN fh[x].size ELSE to
<1>1. /\ fds[f].ops = "iso9660" /\ Seek(x, w, o)
      /\ UNCHANGED <<mvars, fds, given, call, devices, mounts, known, named>>
  BY DEF LSeek, Same, HandleOf
<1>2. x \in Handles \ {0}
  BY <1>1, Given
<1> HIDE DEF x
<1>3. fh \in [Handles -> Handle] /\ fh[x].ptr \in Nat /\ fh[x].size \in Nat
  BY <1>2 DEF MountsInv, IsoTyped, Handle
<1>4. at \in Nat
  <2>1. to \in Int
    <3>1. CASE w = "SEEK_SET"
      BY <1>3, <3>1
    <3>2. CASE w = "SEEK_CUR"
      BY <1>3, <3>2
    <3>3. CASE w = "SEEK_END"
      BY <1>3, <3>3
    <3> QED BY <3>1, <3>2, <3>3
  <2> HIDE DEF to
  <2> QED BY <1>3, <2>1
<1>5. /\ fh' = fh \/ fh' = [fh EXCEPT ![x].ptr = at]
      /\ UNCHANGED <<disc, changed, icache, dcache, joliet, root, percd_done, iso, missed>>
  BY <1>1, Zenon DEF Seek, DriveSame
<1> HIDE DEF at
<1>6. fh' \in [Handles -> Handle] /\ \A y \in Handles : fh'[y].first = fh[y].first
  BY <1>2, <1>3, <1>4, <1>5 DEF Handle
<1>7. 0 \in Handles
  BY IsoAssumption DEF Handles, IsoAssumption
<1>8. IsoTyped' /\ Paired'
  BY <1>1, <1>5, <1>6, <1>7, PairedSame DEF MountsInv, IsoTyped
<1>9. Tables' /\ OneCall'
  BY <1>1, <1>5 DEF MountsInv, Tables, OneCall, OnDisc, OnStick, mvars
<1>10. Handed'
  BY <1>1, <1>5, <1>6, HandedSame DEF MountsInv
<1> QED BY <1>8, <1>9, <1>10 DEF MountsInv

LEMMA CloseFDInv ==
  ASSUME MountsInv, NEW f \in given, CloseFD(f)
  PROVE  MountsInv'
<1> DEFINE x == fds[f].h
<1>1. /\ call = NoCall
      /\ fds' = [fds EXCEPT ![f] = NoFile] /\ given' = given \ {f}
      /\ UNCHANGED <<mvars, call, devices, mounts, known, named>>
  BY DEF CloseFD, Same, AtRest
<1>2. f \in FDs
  BY Given
<1>3. \/ fds[f].ops = "iso9660" /\ fh' = [fh EXCEPT ![x].first = 0]
      \/ fds[f].ops # "iso9660" /\ fh' = fh
  BY DEF CloseFD, HandleOf, Close, ivars
<1>4. UNCHANGED <<disc, changed, icache, dcache, joliet, root, percd_done, iso, missed>>
  BY DEF CloseFD, Close, ivars, DriveSame
<1>5. fds[f].ops = "iso9660" => x \in Handles \ {0}
  BY Given
<1> HIDE DEF x
<1>6. /\ fh' \in [Handles -> Handle] /\ fh'[0] = fh[0]
      /\ \A y \in Handles : fh'[y] = fh[y] \/ (fds[f].ops = "iso9660" /\ y = x)
  <2>1. 0 \in Handles
    BY IsoAssumption DEF Handles, IsoAssumption
  <2> QED BY <1>3, <1>5, <2>1 DEF MountsInv, IsoTyped, Handle
<1>7. IsoTyped' /\ Paired'
  BY <1>1, <1>4, <1>6, PairedSame DEF MountsInv, IsoTyped
<1>8. Tables'
  <2>1. fds' \in [FDs -> OpenFile]
    BY <1>1, <1>2 DEF MountsInv, Tables, OpenFile
  <2>2. given' \subseteq FDs
    BY <1>1 DEF MountsInv, Tables
  <2> QED BY <1>1, <2>1, <2>2 DEF MountsInv, Tables, mvars
<1>9. OneCall'
  BY <1>1, <1>4 DEF MountsInv, OneCall, OnDisc, OnStick, mvars
<1>10. Handed'
  <2>1. \A g \in given' : g \in given /\ g # f /\ fds'[g] = fds[g]
    BY <1>1 DEF MountsInv, Tables
  <2>2. \A g \in given : fds[g].ops # ""
    BY DEF MountsInv, Handed
  <2>3. \A g \in given : fds[g].ops = "iso9660" => fds[g].h \in Handles \ {0} /\ fh[fds[g].h].first # 0
    BY DEF MountsInv, Handed, FromDisc
  <2>4. \A g, i \in given : fds[g].ops = "iso9660" /\ fds[i].ops = "iso9660" /\ fds[g].h = fds[i].h => g = i
    BY Zenon DEF MountsInv, Handed, FromDisc
  <2>5. ASSUME NEW g \in given', fds'[g].ops = "iso9660"
        PROVE  fds'[g].h \in Handles \ {0} /\ fh'[fds'[g].h].first # 0
    <3>1. fds[g].h # x \/ fds[f].ops # "iso9660"
      BY <2>1, <2>4, <2>5 DEF x
    <3> QED BY <1>6, <2>1, <2>3, <2>5, <3>1
  <2>6. \A g, i \in given' : fds'[g].ops = "iso9660" /\ fds'[i].ops = "iso9660" /\ fds'[g].h = fds'[i].h => g = i
    BY <2>1, <2>4
  <2>7. call'.op # "open"
    BY <1>1 DEF NoCall
  <2>8. iso' \notin IsoReturned
    BY <1>1, <1>4, RestIs
  <2> QED BY <2>1, <2>2, <2>5, <2>6, <2>7, <2>8 DEF Handed, FromDisc
<1> QED BY <1>7, <1>8, <1>9, <1>10 DEF MountsInv

LEMMA CallsInv ==
  ASSUME MountsInv, Calls
  PROVE  MountsInv'
<1>1. \A file \in {<<"console">>, <<"else">>, <<"file">>} : file \in Paths
  <2>1. ASSUME NEW s \in Component PROVE <<s>> \in Paths
    <3>1. <<s>> \in Seq(Component)
      OBVIOUS
    <3>2. <<s>> # <<>>
      OBVIOUS
    <3> QED BY <3>1, <3>2 DEF Paths
  <2>2. "console" \in Component /\ "else" \in Component /\ "file" \in Component
    BY DEF Component
  <2> QED BY <2>1, <2>2
<1>2. IsoPaths \subseteq Paths /\ Amounts \subseteq Nat
  <2>1. IsoPaths \subseteq Seq(STRING) \ {<<>>} /\ Amounts \subseteq Nat
    BY StorageAssumption, Zenon DEF StorageAssumption
  <2>2. ASSUME NEW s \in Seq(STRING) PROVE s \in Seq(Component)
    <3>1. s \in [1 .. Len(s) -> STRING] /\ Len(s) \in Nat
      BY LenProperties
    <3>2. s \in [1 .. Len(s) -> Component]
      BY <3>1 DEF Component
    <3> QED BY <3>1, <3>2, IsASeq
  <2> QED BY <2>1, <2>2 DEF Paths
<1>3. <<"dev">> \in Names /\ <<"dvd">> \in Names /\ \A n \in 1 .. named : <<"ud", n>> \in Names
  <2>1. named \in Nat
    BY DEF MountsInv, Tables
  <2>2. \A n \in 1 .. named : n \in Nat
    BY <2>1
  <2> QED BY <2>2 DEF Names
<1>4. ASSUME NEW file \in {<<"console">>, <<"else">>}, Open(<<"dev">>, file)
      PROVE  MountsInv'
  BY <1>1, <1>3, <1>4, OpenInv
<1>5. ASSUME NEW path \in IsoPaths, Open(<<"dvd">>, path)
      PROVE  MountsInv'
  BY <1>2, <1>3, <1>5, OpenInv
<1>6. ASSUME NEW n \in 1 .. named, Open(<<"ud", n>>, <<"file">>)
      PROVE  MountsInv'
  BY <1>1, <1>3, <1>6, OpenInv
<1>7. ASSUME NEW f \in given, NEW n \in Amounts, Read(f, n)
      PROVE  MountsInv'
  BY <1>2, <1>7, ReadInv
<1> QED BY <1>4, <1>5, <1>6, <1>7, CloseFDInv, LSeekInv, Zenon DEF Calls
-----------------------------------------------------------------------------
(* The device table.                                                       *)
LEMMA Registered ==
  ASSUME Tables, Paired, NEW ops \in {"dvd", "stick"}, NEW name \in Names, NEW port \in Ports \cup {0}, NEW stick \in Nat,
         register_bdev(ops, name, port, stick)
  PROVE  /\ devices' \in [Drives -> DeviceEntry]
         /\ mounts' \in [Volumes -> MountEntry] /\ mounts'[0].ops = "console"
         /\ \A d \in Drives : devices'[d].ops # "" /\ devices'[d].mount # None =>
              mounts'[devices'[d].mount] = [ops |-> Opening(devices'[d].ops), name |-> devices'[d].name, dev |-> d]
         /\ \A m \in Volumes \ {0} : mounts'[m].ops # "" =>
              /\ mounts'[m].dev \in Drives
              /\ devices'[mounts'[m].dev].ops # "" /\ devices'[mounts'[m].dev].mount = m
         /\ \A d \in Drives : devices[d].ops # "" => devices'[d] = devices[d]
         /\ FreeDevices # {} => /\ Lowest(FreeDevices) \in Drives
                                /\ devices'[Lowest(FreeDevices)].ops = ops
                                /\ devices'[Lowest(FreeDevices)].port = port
         /\ FreeMounts # {} => Lowest(FreeMounts) \in Volumes
<1> DEFINE d0 == Lowest(FreeDevices)
           m0 == Lowest(FreeMounts)
           new == [ops |-> ops, name |-> name, mount |-> IF FreeMounts = {} THEN None ELSE m0,
                   port |-> port, stick |-> stick]
           newmount == [ops |-> Opening(ops), name |-> name, dev |-> d0]
<1>n. NUM_VOLUMES \in Nat /\ NUM_DRIVES \in Nat
  BY StorageAssumption, Zenon DEF StorageAssumption
<1>v. Volumes \subseteq Nat /\ Drives \subseteq Nat
  BY <1>n DEF Volumes, Drives
<1>1. /\ devices \in [Drives -> DeviceEntry]
      /\ mounts \in [Volumes -> MountEntry] /\ mounts[0].ops = "console"
  BY DEF Tables
<1>2. FreeMounts # {} => m0 \in Volumes /\ m0 # 0 /\ mounts[m0].ops = ""
  <2> HAVE FreeMounts # {}
  <2>1. FreeMounts \subseteq Nat
    BY <1>v DEF FreeMounts
  <2>2. m0 \in FreeMounts
    BY <2>1, LowestIs, Zenon
  <2> HIDE DEF m0
  <2> QED BY <1>1, <2>2 DEF FreeMounts
<1>3. CASE FreeDevices = {}
  <2>1. UNCHANGED <<devices, mounts>>
    BY <1>3, Zenon DEF register_bdev
  <2> HIDE DEF m0
  <2> QED BY <1>1, <1>2, <1>3, <2>1 DEF Paired, m0
<1>4. CASE FreeDevices # {}
  <2>1. d0 \in Drives /\ devices[d0].ops = ""
    <3>1. FreeDevices \subseteq Nat
      BY <1>v DEF FreeDevices
    <3>2. d0 \in FreeDevices
      BY <1>4, <3>1, LowestIs, Zenon
    <3> HIDE DEF d0
    <3> QED BY <3>2 DEF FreeDevices
  <2>2. /\ devices' = [devices EXCEPT ![d0] = new]
        /\ mounts' = IF FreeMounts = {} THEN mounts ELSE [mounts EXCEPT ![m0] = newmount]
    <3>1. FreeMounts # {} => m0 # None
      <4> HIDE DEF m0
      <4>1. None \notin Nat
        BY DEF None
      <4>2. FreeMounts # {} => m0 \in Nat
        BY <1>v, <1>2
      <4> QED BY <4>1, <4>2
    <3> QED BY <1>4, <3>1 DEF register_bdev
  <2>3. new \in DeviceEntry /\ new.ops = ops /\ new.port = port /\ new.name = name
        /\ new.mount = (IF FreeMounts = {} THEN None ELSE m0)
    <3> HIDE DEF m0
    <3>1. (IF FreeMounts = {} THEN None ELSE m0) \in Volumes \cup {None}
      BY <1>2
    <3> QED BY <3>1 DEF DeviceEntry
  <2>4. newmount \in MountEntry /\ newmount.dev = d0 /\ newmount.ops = Opening(ops) /\ newmount.ops # ""
    <3> HIDE DEF d0
    <3> QED BY <2>1 DEF MountEntry, Opening
  <2>5. ops # ""
    OBVIOUS
  <2> HIDE DEF d0, m0
  <2>6. newmount = [ops |-> Opening(new.ops), name |-> new.name, dev |-> d0]
    BY <2>3
  <2> HIDE DEF new, newmount
  <2>7. /\ devices' \in [Drives -> DeviceEntry] /\ devices'[d0] = new
        /\ \A d \in Drives : d # d0 => devices'[d] = devices[d]
    BY <1>1, <2>1, <2>2, <2>3
  <2>8. /\ mounts' \in [Volumes -> MountEntry]
        /\ FreeMounts # {} => mounts'[m0] = newmount
        /\ \A m \in Volumes : (FreeMounts = {} \/ m # m0) => mounts'[m] = mounts[m]
    BY <1>1, <1>2, <2>2, <2>4
  <2>9. mounts'[0].ops = "console"
    <3>1. 0 \in Volumes
      BY StorageAssumption DEF StorageAssumption, Volumes
    <3> QED BY <1>1, <1>2, <2>8, <3>1
  <2>10. ASSUME NEW d \in Drives, devices'[d].ops # "", devices'[d].mount # None
         PROVE  mounts'[devices'[d].mount] = [ops |-> Opening(devices'[d].ops), name |-> devices'[d].name, dev |-> d]
    <3>1. CASE d = d0
      <4>1. FreeMounts # {} /\ devices'[d].mount = m0
        BY <2>3, <2>7, <2>10, <3>1
      <4> QED BY <2>6, <2>7, <2>8, <3>1, <4>1
    <3>2. CASE d # d0
      <4>1. devices'[d] = devices[d] /\ devices[d].mount \in Volumes
        BY <1>1, <2>7, <2>10, <3>2 DEF DeviceEntry
      <4>2. mounts[devices[d].mount] = [ops |-> Opening(devices[d].ops), name |-> devices[d].name, dev |-> d]
        BY <2>10, <4>1 DEF Paired
      <4>3. mounts[devices[d].mount].ops # ""
        BY <4>2 DEF Opening
      <4>4. mounts'[devices[d].mount] = mounts[devices[d].mount]
        BY <1>2, <2>8, <4>1, <4>3
      <4> QED BY <4>1, <4>2, <4>4
    <3> QED BY <3>1, <3>2
  <2>11. ASSUME NEW m \in Volumes \ {0}, mounts'[m].ops # ""
         PROVE  /\ mounts'[m].dev \in Drives
                /\ devices'[mounts'[m].dev].ops # "" /\ devices'[mounts'[m].dev].mount = m
    <3>1. CASE FreeMounts # {} /\ m = m0
      BY <2>1, <2>3, <2>4, <2>5, <2>7, <2>8, <3>1
    <3>2. CASE FreeMounts = {} \/ m # m0
      <4>1. mounts'[m] = mounts[m]
        BY <2>8, <3>2
      <4>2. /\ mounts[m].dev \in Drives
            /\ devices[mounts[m].dev].ops # "" /\ devices[mounts[m].dev].mount = m
        BY <2>11, <4>1 DEF Paired
      <4> QED BY <2>1, <2>7, <4>1, <4>2
    <3> QED BY <3>1, <3>2
  <2>12. \A d \in Drives : devices[d].ops # "" => devices'[d] = devices[d]
    BY <2>1, <2>7
  <2>13. d0 \in Drives /\ devices'[d0].ops = ops /\ devices'[d0].port = port
    BY <2>1, <2>3, <2>7
  <2>14. FreeMounts # {} => m0 \in Volumes
    BY <1>2
  <2> QED BY <2>7, <2>8, <2>9, <2>10, <2>11, <2>12, <2>13, <2>14 DEF d0, m0
<1> QED BY <1>3, <1>4

\* The device of a port, and with it its own mount.
LEMMA Unregistered ==
  ASSUME Tables, Paired, NEW p \in Ports, unregister_bdev(known[p].dev)
  PROVE  /\ devices' \in [Drives -> DeviceEntry]
         /\ mounts' \in [Volumes -> MountEntry] /\ mounts'[0].ops = "console"
         /\ \A d \in Drives : devices'[d].ops # "" /\ devices'[d].mount # None =>
              mounts'[devices'[d].mount] = [ops |-> Opening(devices'[d].ops), name |-> devices'[d].name, dev |-> d]
         /\ \A m \in Volumes \ {0} : mounts'[m].ops # "" =>
              /\ mounts'[m].dev \in Drives
              /\ devices'[mounts'[m].dev].ops # "" /\ devices'[mounts'[m].dev].mount = m
         /\ \A d \in Drives : d # known[p].dev => devices'[d] = devices[d]
<1> DEFINE d0 == known[p].dev
           m0 == devices[d0].mount
<1>1. /\ devices \in [Drives -> DeviceEntry]
      /\ mounts \in [Volumes -> MountEntry] /\ mounts[0].ops = "console"
  BY DEF Tables
<1>2. CASE d0 = 0
  <2>1. UNCHANGED <<devices, mounts>>
    BY <1>2, Zenon DEF unregister_bdev
  <2> QED BY <1>1, <2>1 DEF Paired
<1>3. CASE d0 # 0
  <2>1. d0 \in Drives /\ devices[d0].ops = "stick" /\ m0 \in Volumes \cup {None}
    <3>1. d0 \in Drives /\ devices[d0].ops = "stick"
      BY <1>3 DEF Paired
    <3> HIDE DEF d0
    <3> QED BY <1>1, <3>1 DEF DeviceEntry
  <2>2. /\ devices' = [devices EXCEPT ![d0].ops = ""]
        /\ (mounts' = mounts /\ m0 = None) \/ (mounts' = [mounts EXCEPT ![m0].ops = ""] /\ m0 # None)
    BY <1>3, Zenon DEF unregister_bdev, umount
  <2> HIDE DEF d0, m0
  <2>3. /\ devices' \in [Drives -> DeviceEntry] /\ devices'[d0].ops = ""
        /\ \A d \in Drives : d # d0 => devices'[d] = devices[d]
    BY <1>1, <2>1, <2>2 DEF DeviceEntry
  <2>4. m0 # None => m0 \in Volumes /\ mounts[m0] = [ops |-> Opening("stick"), name |-> devices[d0].name, dev |-> d0]
    BY <2>1 DEF Paired, m0
  <2>5. m0 # None => m0 # 0 /\ mounts[m0].dev = d0
    BY <1>1, <2>4 DEF Opening
  <2>6. /\ mounts' \in [Volumes -> MountEntry]
        /\ m0 # None => mounts'[m0].ops = ""
        /\ \A m \in Volumes : m # m0 => mounts'[m] = mounts[m]
    <3>1. CASE mounts' = mounts /\ m0 = None
      BY <1>1, <3>1
    <3>2. CASE mounts' = [mounts EXCEPT ![m0].ops = ""] /\ m0 # None
      <4>1. m0 \in Volumes /\ mounts[m0] \in MountEntry
        BY <1>1, <2>4, <3>2
      <4>2. [mounts[m0] EXCEPT !.ops = ""] \in MountEntry /\ [mounts[m0] EXCEPT !.ops = ""].ops = ""
        BY <4>1 DEF MountEntry
      <4> QED BY <1>1, <3>2, <4>1, <4>2
    <3> QED BY <2>2, <3>1, <3>2
  <2>7. mounts'[0].ops = "console"
    <3>1. 0 \in Volumes
      BY StorageAssumption DEF StorageAssumption, Volumes
    <3>2. m0 # 0
      BY <2>5 DEF None
    <3> QED BY <1>1, <2>6, <3>1, <3>2
  <2>8. ASSUME NEW d \in Drives, devices'[d].ops # "", devices'[d].mount # None
        PROVE  mounts'[devices'[d].mount] = [ops |-> Opening(devices'[d].ops), name |-> devices'[d].name, dev |-> d]
    <3>1. d # d0 /\ devices'[d] = devices[d] /\ devices[d].mount \in Volumes
      BY <1>1, <2>3, <2>8 DEF DeviceEntry
    <3>2. mounts[devices[d].mount] = [ops |-> Opening(devices[d].ops), name |-> devices[d].name, dev |-> d]
      BY <2>8, <3>1 DEF Paired
    <3>3. devices[d].mount # m0
      <4> SUFFICES ASSUME devices[d].mount = m0 PROVE FALSE
        OBVIOUS
      <4>1. mounts[m0].dev = d
        BY <3>2
      <4>2. m0 # None
        BY <2>8, <3>1
      <4> QED BY <2>5, <3>1, <4>1, <4>2
    <3> QED BY <2>6, <3>1, <3>2, <3>3
  <2>9. ASSUME NEW m \in Volumes \ {0}, mounts'[m].ops # ""
        PROVE  /\ mounts'[m].dev \in Drives
               /\ devices'[mounts'[m].dev].ops # "" /\ devices'[mounts'[m].dev].mount = m
    <3>1. m # m0
      <4>1. m # None
        BY StorageAssumption DEF StorageAssumption, Volumes, None
      <4> QED BY <2>6, <2>9, <4>1
    <3>2. mounts'[m] = mounts[m]
      BY <2>6, <3>1
    <3>3. /\ mounts[m].dev \in Drives
          /\ devices[mounts[m].dev].ops # "" /\ devices[mounts[m].dev].mount = m
      BY <2>9, <3>2 DEF Paired
    <3>4. mounts[m].dev # d0
      BY <3>1, <3>3 DEF m0
    <3> QED BY <2>3, <3>2, <3>3, <3>4
  <2> QED BY <2>3, <2>6, <2>7, <2>8, <2>9 DEF d0
<1> QED BY <1>2, <1>3
-----------------------------------------------------------------------------
(* The daemon.                                                             *)
LEMMA DvdInitInv ==
  ASSUME MountsInv, DvdInit
  PROVE  MountsInv'
<1>1. /\ register_bdev("dvd", <<"dvd">>, 0, 0)
      /\ UNCHANGED <<ivars, mvars, fds, given, known, named, call>>
  BY DEF DvdInit
<1>2. <<"dvd">> \in Names
  BY DEF Names
<1>3. /\ devices' \in [Drives -> DeviceEntry]
      /\ mounts' \in [Volumes -> MountEntry] /\ mounts'[0].ops = "console"
      /\ \A d \in Drives : devices'[d].ops # "" /\ devices'[d].mount # None =>
           mounts'[devices'[d].mount] = [ops |-> Opening(devices'[d].ops), name |-> devices'[d].name, dev |-> d]
      /\ \A m \in Volumes \ {0} : mounts'[m].ops # "" =>
           /\ mounts'[m].dev \in Drives
           /\ devices'[mounts'[m].dev].ops # "" /\ devices'[mounts'[m].dev].mount = m
      /\ \A d \in Drives : devices[d].ops # "" => devices'[d] = devices[d]
  BY <1>1, <1>2, Registered DEF MountsInv
<1>4. \A p \in Ports : known'[p].dev # 0 =>
         known'[p].dev \in Drives /\ devices'[known'[p].dev].ops = "stick" /\ devices'[known'[p].dev].port = p
  BY <1>1, <1>3 DEF MountsInv, Paired
<1>5. UNCHANGED <<iso, fh, plug, plugs, rd>>
  BY <1>1 DEF ivars, mvars
<1>6. Paired'
  BY <1>3, <1>4 DEF Paired
<1>7. Tables'
  BY <1>1, <1>3, <1>5 DEF MountsInv, Tables
<1>8. IsoTyped' /\ Handed' /\ OneCall'
  BY <1>1, <1>5, IsoSame, HandedSame DEF MountsInv, OneCall, OnDisc, OnStick
<1> QED BY <1>6, <1>7, <1>8 DEF MountsInv

LEMMA AttachStrangeInv ==
  ASSUME MountsInv, NEW p \in Ports, AttachStrange(p)
  PROVE  MountsInv'
<1>1. /\ known' = [known EXCEPT ![p] = [is |-> "strange", stick |-> plug[p], dev |-> 0]]
      /\ UNCHANGED <<ivars, mvars, devices, mounts, fds, given, named, call>>
  BY DEF AttachStrange
<1>2. DOMAIN known' = Ports /\ \A q \in Ports : known'[q] = known[q] \/ known'[q].dev = 0
  BY <1>1 DEF MountsInv, Tables
<1>3. UNCHANGED <<iso, fh, plug, plugs, rd>>
  BY <1>1 DEF ivars, mvars
<1>4. Paired'
  BY <1>1, <1>2 DEF MountsInv, Paired
<1>5. Tables'
  BY <1>1, <1>2, <1>3 DEF MountsInv, Tables
<1>6. IsoTyped' /\ Handed' /\ OneCall'
  BY <1>1, <1>3, IsoSame, HandedSame DEF MountsInv, OneCall, OnDisc, OnStick
<1> QED BY <1>4, <1>5, <1>6 DEF MountsInv

LEMMA AttachStickInv ==
  ASSUME MountsInv, NEW p \in Ports, AttachStick(p)
  PROVE  MountsInv'
<1> DEFINE d0 == IF FreeDevices = {} THEN 0 ELSE Lowest(FreeDevices)
<1>1. /\ named' = named + 1
      /\ register_bdev("stick", <<"ud", named'>>, p, plug[p])
      /\ known' = [known EXCEPT ![p] = [is |-> "stick", stick |-> plug[p], dev |-> d0]]
      /\ call' = IF d0 = 0 \/ FreeMounts = {} THEN NoCall
                 ELSE [op |-> "mount", step |-> "fat", vol |-> Lowest(FreeMounts)]
      /\ call = NoCall
      /\ UNCHANGED <<ivars, mvars, fds, given>>
  BY DEF AttachStick, AtRest
<1>2. <<"ud", named'>> \in Names /\ plug[p] \in Nat /\ named' \in Nat
  BY <1>1 DEF Names, MountsInv, Tables
<1>3. /\ devices' \in [Drives -> DeviceEntry]
      /\ mounts' \in [Volumes -> MountEntry] /\ mounts'[0].ops = "console"
      /\ \A d \in Drives : devices'[d].ops # "" /\ devices'[d].mount # None =>
           mounts'[devices'[d].mount] = [ops |-> Opening(devices'[d].ops), name |-> devices'[d].name, dev |-> d]
      /\ \A m \in Volumes \ {0} : mounts'[m].ops # "" =>
           /\ mounts'[m].dev \in Drives
           /\ devices'[mounts'[m].dev].ops # "" /\ devices'[mounts'[m].dev].mount = m
      /\ \A d \in Drives : devices[d].ops # "" => devices'[d] = devices[d]
      /\ FreeDevices # {} => /\ Lowest(FreeDevices) \in Drives
                             /\ devices'[Lowest(FreeDevices)].ops = "stick"
                             /\ devices'[Lowest(FreeDevices)].port = p
      /\ FreeMounts # {} => Lowest(FreeMounts) \in Volumes
  BY <1>1, <1>2, Registered DEF MountsInv
<1>4. d0 # 0 => d0 \in Drives /\ devices'[d0].ops = "stick" /\ devices'[d0].port = p
  BY <1>3, Zenon
<1> HIDE DEF d0
<1>5. DOMAIN known' = Ports /\ known'[p].dev = d0 /\ \A q \in Ports : q # p => known'[q] = known[q]
  BY <1>1 DEF MountsInv, Tables
<1>6. ASSUME NEW q \in Ports, known'[q].dev # 0
      PROVE  known'[q].dev \in Drives /\ devices'[known'[q].dev].ops = "stick" /\ devices'[known'[q].dev].port = q
  <2>1. CASE q = p
    BY <1>4, <1>5, <1>6, <2>1
  <2>2. CASE q # p
    <3>1. known'[q] = known[q]
      BY <1>5, <2>2
    <3>2. known[q].dev \in Drives /\ devices[known[q].dev].ops = "stick" /\ devices[known[q].dev].port = q
      BY <1>6, <3>1 DEF MountsInv, Paired
    <3>3. devices'[known[q].dev] = devices[known[q].dev]
      BY <1>3, <3>2
    <3> QED BY <3>1, <3>2, <3>3
  <2> QED BY <2>1, <2>2
<1>7. UNCHANGED <<iso, fh, plug, plugs, rd>>
  BY <1>1 DEF ivars, mvars
<1>8. Paired'
  BY <1>3, <1>6 DEF Paired
<1>9. call' = NoCall \/ (call' \in Mounting /\ call'.step = "fat" /\ call'.op = "mount")
  <2>1. Volumes \subseteq Int /\ "fat" \in Steps
    <3>1. NUM_VOLUMES \in Nat
      BY StorageAssumption, Zenon DEF StorageAssumption
    <3> QED BY <3>1 DEF Volumes, Steps
  <2>2. CASE call' = NoCall
    BY <2>2
  <2>3. CASE FreeMounts # {} /\ call' = [op |-> "mount", step |-> "fat", vol |-> Lowest(FreeMounts)]
    <3>1. Lowest(FreeMounts) \in Int
      BY <1>3, <2>1, <2>3
    <3> QED BY <2>1, <2>3, <3>1 DEF Mounting
  <2> QED BY <1>1, <2>2, <2>3, Zenon
<1>10. Tables'
  <2>1. fds' \in [FDs -> OpenFile] /\ given' \subseteq FDs /\ plug' \in [Ports -> Nat] /\ plugs' \in Nat
    BY <1>1, <1>7 DEF MountsInv, Tables
  <2> QED BY <1>2, <1>3, <1>5, <1>9, <2>1 DEF Tables
<1>11. iso = Idle /\ rd.pc = "idle" /\ "pc" \in DOMAIN rd
  BY <1>1, RestIs DEF MountsInv, OneCall
<1>12. call'.op # "open" /\ ~OnDisc'
  <2>1. NoCall.op = "none"
    BY DEF NoCall
  <2> QED BY <1>9, <2>1 DEF OnDisc
<1>13. IsoTyped' /\ Handed' /\ OneCall'
  BY <1>1, <1>7, <1>11, <1>12, IsoSame, HandedSame DEF MountsInv, OneCall, OnStick
<1> QED BY <1>8, <1>10, <1>13 DEF MountsInv

LEMMA DetachStickInv ==
  ASSUME MountsInv, NEW p \in Ports, DetachStick(p)
  PROVE  MountsInv'
<1>1. /\ unregister_bdev(known[p].dev)
      /\ known' = [known EXCEPT ![p] = Unknown]
      /\ UNCHANGED <<ivars, plug, plugs, rd, fds, given, named, call>>
  BY DEF DetachStick
<1>2. /\ devices' \in [Drives -> DeviceEntry]
      /\ mounts' \in [Volumes -> MountEntry] /\ mounts'[0].ops = "console"
      /\ \A d \in Drives : devices'[d].ops # "" /\ devices'[d].mount # None =>
           mounts'[devices'[d].mount] = [ops |-> Opening(devices'[d].ops), name |-> devices'[d].name, dev |-> d]
      /\ \A m \in Volumes \ {0} : mounts'[m].ops # "" =>
           /\ mounts'[m].dev \in Drives
           /\ devices'[mounts'[m].dev].ops # "" /\ devices'[mounts'[m].dev].mount = m
      /\ \A d \in Drives : d # known[p].dev => devices'[d] = devices[d]
  BY <1>1, Unregistered DEF MountsInv
<1>3. DOMAIN known' = Ports /\ known'[p].dev = 0 /\ \A q \in Ports : q # p => known'[q] = known[q]
  BY <1>1 DEF MountsInv, Tables, Unknown
<1>4. ASSUME NEW q \in Ports, known'[q].dev # 0
      PROVE  known'[q].dev \in Drives /\ devices'[known'[q].dev].ops = "stick" /\ devices'[known'[q].dev].port = q
  <2>1. q # p /\ known'[q] = known[q]
    BY <1>3, <1>4
  <2>2. known[q].dev \in Drives /\ devices[known[q].dev].ops = "stick" /\ devices[known[q].dev].port = q
    BY <1>4, <2>1 DEF MountsInv, Paired
  <2>3. known[q].dev # known[p].dev
    <3> SUFFICES ASSUME known[q].dev = known[p].dev PROVE FALSE
      OBVIOUS
    <3>1. known[p].dev # 0
      BY <1>4, <2>1
    <3>2. devices[known[p].dev].port = p
      BY <3>1 DEF MountsInv, Paired
    <3> QED BY <2>1, <2>2, <3>2
  <2> QED BY <1>2, <2>1, <2>2, <2>3
<1>5. UNCHANGED <<iso, fh>>
  BY <1>1 DEF ivars
<1>6. Paired'
  BY <1>2, <1>4 DEF Paired
<1>7. Tables'
  BY <1>1, <1>2, <1>3 DEF MountsInv, Tables
<1>8. IsoTyped' /\ Handed' /\ OneCall'
  BY <1>1, <1>5, IsoSame, HandedSame DEF MountsInv, OneCall, OnDisc, OnStick
<1> QED BY <1>6, <1>7, <1>8 DEF MountsInv
-----------------------------------------------------------------------------
LEMMA MountsStart ==
  ASSUME Init
  PROVE  MountsInv
<1>1. 0 \in Handles /\ 0 \in Volumes /\ FirstDisc \in Discs
  <2>1. FirstDisc \in Discs /\ MAX_ISO_FILES \in Nat \ {0}
    BY IsoAssumption, Zenon DEF IsoAssumption, Discs
  <2>2. NUM_VOLUMES \in Nat \ {0}
    BY StorageAssumption, Zenon DEF StorageAssumption
  <2> QED BY <2>1, <2>2 DEF Handles, Volumes
<1>2. IsoTyped
  <2>1. icache \in Caches /\ dcache \in Caches
    BY DEF Init, IsoInit, Caches, Blocks, Discs, NoBlock
  <2>2. fh \in [Handles -> Handle] /\ fh[0].first = -1
    BY <1>1 DEF Init, IsoInit, Handle, Discs
  <2> QED BY <1>1, <2>1, <2>2 DEF Init, IsoInit, IsoTyped
<1>3. devices \in [Drives -> DeviceEntry] /\ \A d \in Drives : devices[d].ops = ""
  <2>1. NoDevice \in DeviceEntry /\ NoDevice.ops = ""
    BY DEF NoDevice, DeviceEntry, Names
  <2> HIDE DEF NoDevice
  <2> QED BY <2>1 DEF Init
<1>4. /\ mounts \in [Volumes -> MountEntry] /\ mounts[0].ops = "console"
      /\ \A m \in Volumes \ {0} : mounts[m].ops = ""
  <2>1. NoMount \in MountEntry /\ NoMount.ops = ""
    BY DEF NoMount, MountEntry, Names
  <2> DEFINE console == [NoMount EXCEPT !.ops = "console", !.name = <<"dev">>]
  <2>2. console \in MountEntry /\ console.ops = "console"
    BY DEF NoMount, MountEntry, Names
  <2>3. mounts = [m \in Volumes |-> IF m = 0 THEN console ELSE NoMount]
    BY DEF Init
  <2> HIDE DEF console
  <2> QED BY <1>1, <2>1, <2>2, <2>3
<1>5. /\ fds \in [FDs -> OpenFile] /\ given \subseteq FDs
      /\ \A f \in given : fds[f].ops = "console"
  <2>1. MAXFD \in Nat /\ MAXFD > 3
    BY StorageAssumption, Zenon DEF StorageAssumption
  <2>2. 0 \in FDs /\ 1 \in FDs /\ 2 \in FDs
    BY <2>1 DEF FDs
  <2>3. NoFile \in OpenFile /\ [ops |-> "console"] \in OpenFile
    BY DEF OpenFile
  <2>4. fds = [f \in FDs |-> IF f < 3 THEN [ops |-> "console"] ELSE NoFile] /\ given = {0, 1, 2}
    BY DEF Init
  <2>5. fds \in [FDs -> OpenFile]
    BY <2>3, <2>4
  <2> QED BY <2>2, <2>4, <2>5
<1>6. Tables
  BY <1>3, <1>4, <1>5 DEF Init, MassInit, Tables
<1>7. Paired
  BY <1>3, <1>4 DEF Init, Paired, Unknown
<1>8. OneCall
  BY DEF Init, IsoInit, MassInit, OneCall, OnDisc, OnStick, NoCall, NotReading
<1>9. Handed
  <2>1. iso \notin IsoReturned /\ call.op # "open"
    BY DEF Init, IsoInit, Idle, IsoReturned, NoCall
  <2> QED BY <1>5, <2>1 DEF Handed, FromDisc
<1> QED BY <1>2, <1>6, <1>7, <1>8, <1>9 DEF MountsInv

LEMMA MountsStep ==
  ASSUME MountsInv, [Next]_vars
  PROVE  MountsInv'
<1>1. CASE Calls
  BY <1>1, CallsInv
<1>2. CASE InCall
  BY <1>2, NoSuchFileInv, OpenOnInv, IsoOpenedInv, FatOpenedInv, FatMountedInv, HasReadInv, FatReadsInv, FatCachedInv,
     FatHasReadInv, FatReadsOneInv, Zenon DEF InCall
<1>3. CASE IsoSteps
  BY <1>3, IsoStepsInv
<1>4. CASE MassSteps
  BY <1>4, MassStepsInv
<1>5. CASE User
  BY <1>5, UserInv
<1>6. CASE Daemon
  BY <1>6, DvdInitInv, AttachStrangeInv, AttachStickInv, DetachStickInv, Zenon DEF Daemon
<1>7. CASE UNCHANGED vars
  <2>1. UNCHANGED <<ivars, iso, fh, rd, plug, plugs, devices, mounts, fds, given, known, named, call>>
    BY <1>7 DEF vars, mvars, svars, ivars
  <2>2. IsoTyped' /\ Paired' /\ Handed'
    BY <2>1, IsoSame, PairedSame, HandedSame DEF MountsInv
  <2>3. Tables' /\ OneCall'
    BY <2>1 DEF MountsInv, Tables, OneCall, OnDisc, OnStick
  <2> QED BY <2>2, <2>3 DEF MountsInv
<1> QED BY <1>1, <1>2, <1>3, <1>4, <1>5, <1>6, <1>7, Zenon DEF Next

LEMMA MountsAlways == Spec => []MountsInv
<1>1. Init => MountsInv
  BY MountsStart
<1>2. MountsInv /\ [Next]_vars => MountsInv'
  BY MountsStep
<1> QED BY <1>1, <1>2, PTL DEF Spec

(* Devices, mounts and descriptors: as long as the program has not gone    *)
(* through a null pointer, a mounted device and its mount name each other, *)
(* no mount is left of a device that is gone, and what the program has     *)
(* open is in use, each handle of the disc through one descriptor          *)
(* (newlib.c, diskio.c, iso_open and iso_close).                           *)
THEOREM MountsAgree == Spec => []MountsSound
<1>1. MountsInv => MountsSound
  <2> HAVE MountsInv
  <2>1. \A f \in given : FromDisc(f) => fh[fds[f].h].first # 0
    BY DEF MountsInv, Handed
  <2>2. \A f, g \in given : FromDisc(f) /\ FromDisc(g) /\ fds[f].h = fds[g].h => f = g
    BY Zenon DEF MountsInv, Handed
  <2>3. \A f \in given : fds[f].ops # ""
    BY DEF MountsInv, Handed
  <2> QED BY <2>1, <2>2, <2>3 DEF MountsSound, MountsInv, Paired, HandleOf, FromDisc
<1> QED BY <1>1, MountsAlways, PTL
-----------------------------------------------------------------------------
(* What was read from one disc.                                            *)
LEMMA OfDiscRead ==
  ASSUME NEW c \in Caches, NEW s \in Int, disc \in Discs, NEW d, OfDisc(c, d), Slots(c, s) # {} \/ d = disc
  PROVE  /\ OfDisc(bread_cache(c, s), d)
         /\ s # -1 => Last(bread_cache(c, s)).holds = <<d, s>>
<1> DEFINE b == bread_cache(c, s)
<1>1. /\ Last(b).sector = s
      /\ \A k \in DOMAIN b : (\E i \in DOMAIN c : b[k] = c[i])
                               \/ (Slots(c, s) = {} /\ b[k] = [sector |-> s, holds |-> <<disc, s>>])
      /\ \E k \in DOMAIN b : Last(b) = b[k]
  BY CacheRead, Zenon
<1> HIDE DEF b
<1>2. ASSUME NEW k \in DOMAIN b, b[k].sector # -1 PROVE b[k].holds = <<d, b[k].sector>>
  <2>1. CASE \E i \in DOMAIN c : b[k] = c[i]
    BY <1>2, <2>1 DEF OfDisc
  <2>2. CASE Slots(c, s) = {} /\ b[k] = [sector |-> s, holds |-> <<disc, s>>]
    BY <2>2
  <2> QED BY <1>1, <2>1, <2>2
<1>3. s # -1 => Last(b).holds = <<d, s>>
  BY <1>1, <1>2
<1> QED BY <1>2, <1>3 DEF b, OfDisc

(* A cleared cache is of any disc, and handles that are all broken.        *)
LEMMA ResetIsOf ==
  ASSUME IsoTyped, iso_reset, NEW d
  PROVE  /\ OfDisc(icache', d) /\ OfDisc(dcache', d)
         /\ \A x \in Handles \ {0} : ~MayUse(x)'
         /\ \A x \in Handles : fh'[x].first = fh[x].first /\ fh'[x].ptr = fh[x].ptr /\ fh'[x].size = fh[x].size
<1>1. icache' = bclear_cache(icache) /\ dcache' = bclear_cache(dcache)
  BY DEF iso_reset, bclear
<1>2. /\ \A k \in DOMAIN icache' : icache'[k].sector = -1
      /\ \A k \in DOMAIN dcache' : dcache'[k].sector = -1
  BY <1>1, CacheCleared DEF IsoTyped
<1>3. fh' = [x \in Handles |-> [fh[x] EXCEPT !.broken = TRUE]]
  BY DEF iso_reset, iso_break_all
<1>4. \A x \in Handles : /\ fh'[x].broken = TRUE /\ fh'[x].first = fh[x].first
                         /\ fh'[x].ptr = fh[x].ptr /\ fh'[x].size = fh[x].size
  BY <1>3 DEF IsoTyped, Handle
<1> QED BY <1>2, <1>4 DEF OfDisc, MayUse

(* Units in a row and those after them.                                    *)
LEMMA HalvesJoin ==
  ASSUME NEW b \in Discs \X Int, NEW from \in Nat, NEW m \in Nat, NEW u \in Seq(Unit),
         \A i \in 1 .. Len(u) : u[i] = <<b[1], b[2] + (from + m + i - 1) \div 2, (from + m + i - 1) % 2>>
  PROVE  Halves(b, from, m) \o u = Halves(b, from, m + Len(u))
<1> DEFINE n == Len(u)
           g == Halves(b, from, m)
           w == Halves(b, from, m + n)
           at(i) == <<b[1], b[2] + (from + i - 1) \div 2, (from + i - 1) % 2>>
<1>n. n \in Nat /\ Len(u) = n /\ \A i \in 1 .. n : u[i] = <<b[1], b[2] + (from + m + i - 1) \div 2, (from + m + i - 1) % 2>>
  BY LenProperties
<1> HIDE DEF n
<1>1. g \in Seq(Unit) /\ Len(g) = m /\ \A i \in 1 .. m : g[i] = at(i)
  BY HalvesAre
<1>2. w \in Seq(Unit) /\ Len(w) = m + n /\ \A i \in 1 .. m + n : w[i] = at(i)
  <2> DEFINE k == m + n
  <2>1. k \in Nat
    BY <1>n
  <2> HIDE DEF k
  <2>2. Halves(b, from, k) \in Seq(Unit) /\ Len(Halves(b, from, k)) = k
        /\ \A i \in 1 .. k : Halves(b, from, k)[i] = at(i)
    BY <2>1, HalvesAre
  <2> QED BY <2>2 DEF k
<1>3. \A i \in 1 .. n : u[i] = at(m + i)
  <2>1. \A i \in 1 .. n : from + (m + i) - 1 = from + m + i - 1
    BY <1>n
  <2> QED BY <1>n, <2>1
<1> HIDE DEF g, w, at
<1> DEFINE v == g \o u
<1>4. /\ v \in Seq(Unit) /\ Len(v) = Len(g) + Len(u)
      /\ \A i \in 1 .. Len(g) + Len(u) : v[i] = IF i <= Len(g) THEN g[i] ELSE u[i - Len(g)]
  BY <1>1, ConcatProperties, Zenon
<1> HIDE DEF v
<1>5. Len(v) = m + n
  BY <1>1, <1>4, <1>n
<1>6. ASSUME NEW i \in 1 .. m + n PROVE v[i] = w[i]
  <2>1. v[i] = IF i <= m THEN g[i] ELSE u[i - m]
    BY <1>1, <1>4, <1>n
  <2>2. CASE i <= m
    BY <1>1, <1>2, <2>1, <2>2
  <2>3. CASE i > m
    <3>1. i - m \in 1 .. n /\ m + (i - m) = i
      BY <2>3, <1>n
    <3>2. u[i - m] = at(i)
      BY <1>3, <3>1
    <3> QED BY <1>2, <2>1, <2>3, <3>2
  <2> QED BY <2>2, <2>3
<1>7. v = w
  BY <1>2, <1>4, <1>5, <1>6, SeqEqual
<1> QED BY <1>7 DEF v, w, g, n

(* Halves of sectors. *)
LEMMA Halving ==
  ASSUME NEW p \in Nat
  PROVE  /\ p % 2 = 0 => \A i \in Nat : (p + i) \div 2 = p \div 2 + i \div 2 /\ (p + i) % 2 = i % 2
         /\ (p % 2) \div 2 = 0 /\ (p % 2) % 2 = p % 2
  OBVIOUS

(* A call that is not copying, or has failed, promises nothing.            *)
LEMMA NothingRead ==
  ASSUME iso' \in IsoOpen \cup IsoReturned \cup IsoFailed \cup {[pc |-> "lost"], Idle} \/ iso'.pc = "percd"
  PROVE  ReadingOn' /\ ReadAsOpened'
<1>1. /\ \A x \in IsoOpen : x.pc \in {"percd", "find"}
      /\ \A x \in IsoReturned : x.pc = "ret" /\ x.op = "open"
      /\ \A x \in IsoFailed : x.pc = "ret" /\ x.ret = -1
  BY DEF IsoOpen, IsoReturned, IsoFailed
<1>2. Idle.pc = "idle" /\ [pc |-> "lost"].pc = "lost"
  BY DEF Idle
<1>3. ~(-1 >= 0)
  OBVIOUS
<1> QED BY <1>1, <1>2, <1>3 DEF ReadingOn, ReadAsOpened

LEMMA BlockFailsDisc ==
  ASSUME IsoTyped, DiscInv, NEW cache, BlockFails(cache), iso.pc \in {"percd", "find", "copy"}
  PROVE  DiscInv'
<1>1. disc' = disc /\ changed' = FALSE /\ disc \in Discs
  BY DEF BlockFails, DriveFails, IsoTyped
<1>2. CASE iso' = [pc |-> "lost"] /\ UNCHANGED <<icache, dcache, joliet, percd_done, fh, missed>>
  <2>1. ReadingOn' /\ ReadAsOpened'
    BY <1>2, NothingRead
  <2>2. Within' /\ KnownDisc'
    BY <1>2 DEF DiscInv, Within, KnownDisc
  <2> QED BY <2>1, <2>2 DEF DiscInv
<1>3. CASE iso_reset /\ iso'.pc = "percd"
  <2>1. ReadingOn' /\ ReadAsOpened'
    BY <1>3, NothingRead
  <2>2. Within'
    BY <1>3, ResetIsOf DEF DiscInv, Within
  <2>3. OneDisc(disc)'
    BY <1>1, <1>3, ResetIsOf DEF OneDisc
  <2>4. KnownDisc'
    BY <1>1, <2>3 DEF KnownDisc
  <2> QED BY <2>1, <2>2, <2>4 DEF DiscInv
<1>4. iso \in IsoOpen \cup IsoRead
  BY Phases
<1>6. \/ iso' = [pc |-> "lost"] /\ UNCHANGED <<icache, dcache, joliet, percd_done, fh, missed>>
      \/ /\ iso_reset
         /\ iso' = [iso EXCEPT !.pc = "percd", !.k = 1, !.depth = @ + 1,
                               !.goes_on = IF iso.depth = 0 THEN iso.pc = "percd" /\ iso.k = 4 ELSE @]
  BY Zenon DEF BlockFails
<1> DEFINE on == IF iso.depth = 0 THEN iso.pc = "percd" /\ iso.k = 4 ELSE iso.goes_on
<1>7. \/ iso' = [pc |-> "lost"] /\ UNCHANGED <<icache, dcache, joliet, percd_done, fh, missed>>
      \/ iso_reset /\ iso' = [iso EXCEPT !.pc = "percd", !.k = 1, !.depth = iso.depth + 1, !.goes_on = on]
  BY <1>6, Zenon
<1> HIDE DEF on
<1>8. [iso EXCEPT !.pc = "percd", !.k = 1, !.depth = iso.depth + 1, !.goes_on = on].pc = "percd"
  BY <1>4 DEF IsoOpen, IsoRead
<1> QED BY <1>2, <1>3, <1>7, <1>8

LEMMA PercdDisc ==
  ASSUME IsoTyped, DiscInv, Percd
  PROVE  DiscInv'
<1>1. /\ iso.pc = "percd" /\ ~changed /\ icache' = bread_cache(icache, Wanted)
      /\ UNCHANGED <<disc, changed, dcache, fh, missed>>
  BY DEF Percd, DriveSame, DriveReady
<1>2. iso \in IsoOpen \cup IsoRead
  BY <1>1, Phases
<1>3. Wanted \in Int
  <2>1. iso.k \in Nat
    BY <1>2 DEF IsoOpen, IsoRead
  <2>2. Wanted = IF iso.k <= 3 THEN 16 + iso.k ELSE 16
    BY <1>1 DEF Wanted
  <2> QED BY <2>1, <2>2
<1>4. Within'
  BY <1>1 DEF DiscInv, Within
<1>5. KnownDisc'
  <2> SUFFICES ASSUME ~missed PROVE OneDisc(disc)' /\ disc \in Discs
    BY <1>1 DEF KnownDisc
  <2>1. OneDisc(disc) /\ disc \in Discs
    BY <1>1 DEF DiscInv, KnownDisc
  <2>2. OfDisc(icache', disc)
    BY <1>1, <1>3, <2>1, OfDiscRead DEF OneDisc, IsoTyped
  <2> QED BY <1>1, <2>1, <2>2 DEF OneDisc, MayUse
<1>6. iso'.pc = "percd" \/ iso' \in IsoOpen \cup IsoReturned \cup IsoFailed
  <2>1. CASE iso' = [iso EXCEPT !.k = @ + 1]
    BY <1>1, <1>2, <2>1 DEF IsoOpen, IsoRead
  <2>2. ASSUME NEW ok \in BOOLEAN, NEW r \in [extent : Nat, size : Nat], PercdReturns(ok, r)
        PROVE  iso' \in IsoOpen \cup IsoReturned \cup IsoFailed
    BY <1>1, <1>2, <2>2, PercdEnds, ReturnedTyped
  <2>3. root \in [extent : Nat, size : Nat]
    BY DEF IsoTyped
  <2>4. root' \in [extent : Nat, size : Nat]
    BY PercdKeeps DEF Keeps, IsoTyped
  <2>5. \/ iso' = [iso EXCEPT !.k = @ + 1]
        \/ PercdReturns(TRUE, root')
        \/ PercdReturns(FALSE, root)
    BY Zenon DEF Percd
  <2> QED BY <2>1, <2>2, <2>3, <2>4, <2>5
<1>7. ReadingOn' /\ ReadAsOpened'
  BY <1>6, NothingRead
<1> QED BY <1>4, <1>5, <1>7 DEF DiscInv

LEMMA FindDisc ==
  ASSUME IsoTyped, DiscInv, Find
  PROVE  DiscInv'
<1> DEFINE of == Last(icache').holds[1]
<1>1. iso.pc = "find"
  BY DEF Find
<1>2. (Slots(icache, iso.extent) # {} \/ DriveReady) /\ icache' = bread_cache(icache, iso.extent)
  BY DEF Find
<1>3. iso \in IsoOpen /\ iso.extent \in Nat /\ UNCHANGED <<disc, changed, dcache, missed>>
  BY FindCases DEF IsoOpen
<1>4. ASSUME NEW d, OneDisc(d), ~changed => d = disc
      PROVE  OfDisc(icache', d) /\ of = d
  <2>1. Slots(icache, iso.extent) # {} \/ d = disc
    BY <1>2, <1>4 DEF DriveReady
  <2>2. icache \in Caches /\ disc \in Discs /\ OfDisc(icache, d) /\ iso.extent \in Int /\ iso.extent # -1
    BY <1>3, <1>4 DEF OneDisc, IsoTyped
  <2>3. OfDisc(icache', d) /\ Last(icache').holds = <<d, iso.extent>>
    BY <1>2, <2>1, <2>2, OfDiscRead
  <2> QED BY <2>3
<1>5. CASE iso' \in IsoOpen /\ fh' = fh
  <2>1. ReadingOn' /\ ReadAsOpened'
    BY <1>5, NothingRead
  <2>2. Within'
    BY <1>5 DEF DiscInv, Within
  <2>3. KnownDisc'
    BY <1>1, <1>3, <1>4, <1>5 DEF DiscInv, KnownDisc, OneDisc, MayUse
  <2> QED BY <2>1, <2>2, <2>3 DEF DiscInv
<1>6. ASSUME NEW e \in Entry, Opened(e, of)
      PROVE  DiscInv'
  <2>1. of \in Discs
    BY FindCases
  <2> HIDE DEF of
  <2>2. CASE iso' = Returned(0) /\ fh' = fh
    <3>1. ReadingOn' /\ ReadAsOpened'
      BY <1>3, <2>2, ReturnedTyped, NothingRead
    <3>2. Within'
      BY <2>2 DEF DiscInv, Within
    <3>3. KnownDisc'
      BY <1>1, <1>3, <1>4, <2>2 DEF DiscInv, KnownDisc, OneDisc, MayUse
    <3> QED BY <3>1, <3>2, <3>3 DEF DiscInv
  <2>3. ASSUME NEW x \in Handles \ {0}, iso' = Returned(x), fh' = [fh EXCEPT ![x] = Fresh(e, of)]
        PROVE  DiscInv'
    <3>1. x \in Nat
      BY DEF Handles
    <3>2. ReadingOn' /\ ReadAsOpened'
      BY <1>3, <2>3, <3>1, ReturnedTyped, NothingRead
    <3>3. fh' \in [Handles -> Handle] /\ fh'[x] = Fresh(e, of) /\ \A y \in Handles : y # x => fh'[y] = fh[y]
      <4>1. Fresh(e, of) \in Handle
        BY <2>1 DEF Fresh, Handle, Entry
      <4> QED BY <2>3, <4>1 DEF IsoTyped
    <3>4. Fresh(e, of).first >= 0 /\ Fresh(e, of).ptr <= Fresh(e, of).size /\ Fresh(e, of).of = of
      BY DEF Fresh, Entry
    <3>5. Within'
      BY <3>3, <3>4 DEF DiscInv, Within
    <3>6. ASSUME NEW d, OneDisc(d), ~changed => d = disc
          PROVE  OneDisc(d)'
      <4>1. OfDisc(icache', d) /\ of = d /\ OfDisc(dcache', d)
        BY <1>3, <1>4, <3>6 DEF OneDisc
      <4>2. \A y \in Handles \ {0} : MayUse(y)' => fh'[y].of = d
        BY <3>3, <3>4, <3>6, <4>1 DEF OneDisc, MayUse
      <4> QED BY <4>1, <4>2 DEF OneDisc
    <3>7. KnownDisc'
      BY <1>1, <1>3, <3>6 DEF DiscInv, KnownDisc
    <3> QED BY <3>2, <3>5, <3>7 DEF DiscInv
  <2> QED BY <1>6, <2>1, <2>2, <2>3, OpensOne, <1>3
<1> QED BY <1>5, <1>6, FindCases

\* A step that leaves the caches and the handles alone.
LEMMA DiscSame ==
  ASSUME DiscInv, UNCHANGED <<disc, changed, icache, dcache, fh, missed>>, iso.pc # "lost" \/ iso' = iso,
         ReadingOn' /\ (~missed' => ReadAsOpened')
  PROVE  DiscInv'
<1>1. Within'
  BY DEF DiscInv, Within
<1>2. iso'.pc # "lost" => iso.pc # "lost"
  OBVIOUS
<1>3. KnownDisc'
  BY <1>2 DEF DiscInv, KnownDisc, OneDisc, MayUse
<1> QED BY <1>1, <1>3 DEF DiscInv

LEMMA NotFoundDisc ==
  ASSUME IsoTyped, DiscInv, NotFound
  PROVE  DiscInv'
<1>1. iso.pc = "find" /\ iso \in IsoOpen /\ iso' = Returned(0) /\ UNCHANGED <<disc, changed, icache, dcache, fh, missed>>
  BY Phases DEF NotFound, DriveSame
<1>2. ReadingOn' /\ ReadAsOpened'
  BY <1>1, ReturnedTyped, NothingRead
<1> QED BY <1>1, <1>2, DiscSame

\* What a turn of the loop copies follows what the call has.
LEMMA CopiedDisc ==
  ASSUME IsoTyped, DiscInv, iso.pc = "copy", NEW units \in Seq(Unit), Len(units) <= ToRead, Copied(units),
         UNCHANGED <<disc, changed, missed>>,
         \A d : OneDisc(d) /\ (~changed => d = disc) => OfDisc(icache', d) /\ OfDisc(dcache', d),
         ~missed => \A i \in 1 .. Len(units) :
           units[i] = <<fh[iso.h].of, fh[iso.h].first + (fh[iso.h].ptr + i - 1) \div 2, (fh[iso.h].ptr + i - 1) % 2>>
  PROVE  DiscInv'
<1> DEFINE x == iso.h
           n == Len(units)
           m == Len(iso.got)
           b == <<fh[x].of, fh[x].first>>
<1>1. iso \in IsoRead /\ x \in Handles \ {0} /\ iso.got \in Seq(Unit) /\ iso.from \in Nat /\ iso.n \in Nat
      /\ n \in Nat /\ m \in Nat
  BY ToReadIs, LenProperties DEF IsoRead
<1>2. n <= iso.n - m /\ n <= fh[x].size - fh[x].ptr
  <2>1. ToRead \in Int /\ ToRead <= iso.n - m /\ ToRead <= fh[x].size - fh[x].ptr
    BY ToReadIs
  <2>2. fh[x].size - fh[x].ptr \in Int /\ iso.n - m \in Int
    BY <1>1 DEF IsoTyped, Handle
  <2>3. n <= ToRead
    OBVIOUS
  <2> HIDE DEF n, m, x
  <2> QED BY <1>1, <2>1, <2>2, <2>3
<1>3. iso' = [iso EXCEPT !.got = iso.got \o units] /\ fh' = [fh EXCEPT ![x].ptr = fh[x].ptr + n]
  BY DEF Copied
<1>4. iso'.pc = "copy" /\ iso'.h = x /\ iso'.from = iso.from /\ iso'.n = iso.n /\ iso'.got = iso.got \o units
  BY <1>1, <1>3 DEF IsoRead
<1>5. /\ fh'[x].ptr = fh[x].ptr + n /\ \A y \in Handles : y # x => fh'[y] = fh[y]
      /\ fh'[x].first = fh[x].first /\ fh'[x].size = fh[x].size /\ fh'[x].broken = fh[x].broken /\ fh'[x].of = fh[x].of
  BY <1>1, <1>3 DEF IsoTyped, Handle
<1>6. fh[x].ptr \in Nat /\ fh[x].size \in Nat /\ fh[x].first \in Int /\ fh[x].of \in Discs
  BY <1>1 DEF IsoTyped, Handle
<1>t. units \in Seq(Unit) /\ Len(units) = n
  OBVIOUS
<1> HIDE DEF x, n, m
<1>7. Within'
  <2>1. fh'[x].ptr <= fh'[x].size /\ fh'[x].first >= 0
    BY <1>1, <1>2, <1>5, <1>6 DEF DiscInv, Within
  <2> QED BY <1>5, <2>1 DEF DiscInv, Within
<1>8. \A y \in Handles \ {0} : MayUse(y)' = MayUse(y) /\ fh'[y].of = fh[y].of
  BY <1>1, <1>5 DEF MayUse
<1>9. KnownDisc'
  <2>1. \A d : OneDisc(d) /\ (~changed => d = disc) => OneDisc(d)'
    BY <1>8 DEF OneDisc
  <2> QED BY <2>1 DEF DiscInv, KnownDisc
<1>10. ASSUME ~missed
       PROVE  /\ fh'[x].first # 0 /\ ~fh'[x].broken
              /\ iso.got \o units = Halves(b, iso.from, m + n) /\ Len(iso.got \o units) = m + n
              /\ fh'[x].ptr = iso.from + (m + n) /\ m + n <= iso.n
  <2>1. MayUse(x) /\ iso.got = Halves(b, iso.from, m) /\ fh[x].ptr = iso.from + m
    BY <1>10 DEF DiscInv, ReadingOn, x, m
  <2>2. fh'[x].first # 0 /\ ~fh'[x].broken
    BY <1>5, <2>1 DEF MayUse
  <2>3. b \in Discs \X Int /\ b[1] = fh[x].of /\ b[2] = fh[x].first
    BY <1>6
  <2>4. ASSUME NEW i \in 1 .. n
        PROVE  units[i] = <<b[1], b[2] + (iso.from + m + i - 1) \div 2, (iso.from + m + i - 1) % 2>>
    <3>1. units[i] = <<fh[x].of, fh[x].first + (fh[x].ptr + i - 1) \div 2, (fh[x].ptr + i - 1) % 2>>
      BY <1>10 DEF x, n
    <3> QED BY <2>1, <2>3, <3>1
  <2> HIDE DEF b
  <2>5. iso.got \o units = Halves(b, iso.from, m + n)
    <3>1. Halves(b, iso.from, m) \o units = Halves(b, iso.from, m + n)
      <4> DEFINE from == iso.from
      <4>1. from \in Nat /\ m \in Nat /\ n \in Nat /\ b \in Discs \X Int
        BY <1>1, <2>3
      <4>2. \A i \in 1 .. n : units[i] = <<b[1], b[2] + (from + m + i - 1) \div 2, (from + m + i - 1) % 2>>
        BY <2>4
      <4> HIDE DEF from
      <4>3. Halves(b, from, m) \o units = Halves(b, from, m + Len(units))
        BY <1>t, <4>1, <4>2, HalvesJoin
      <4> QED BY <1>t, <4>3 DEF from
    <3> QED BY <2>1, <3>1
  <2>6. Len(iso.got \o units) = m + n
    BY <1>1, <1>t, ConcatProperties DEF m
  <2>7. fh'[x].ptr = iso.from + (m + n) /\ m + n <= iso.n
    BY <1>1, <1>2, <1>5, <2>1
  <2> QED BY <2>2, <2>5, <2>6, <2>7 DEF b
<1>11. ReadingOn'
  BY <1>4, <1>5, <1>10 DEF ReadingOn, MayUse
<1>12. ReadAsOpened'
  BY <1>4 DEF ReadAsOpened
<1> QED BY <1>7, <1>9, <1>11, <1>12 DEF DiscInv

LEMMA DirectDisc ==
  ASSUME IsoTyped, DiscInv, ReadDirect
  PROVE  DiscInv'
<1> DEFINE n == 2 * Lesser(ToRead \div 2, MaxDirect)
           b == <<disc, Wanted>>
           x == iso.h
<1>1. /\ iso.pc = "copy" /\ ToRead >= 2 /\ fh[x].ptr % 2 = 0 /\ Copied(Halves(b, 0, n)) /\ ~changed
      /\ UNCHANGED <<disc, changed, icache, dcache, missed>>
  BY DEF ReadDirect, Whole, DriveSame, DriveReady
<1>2. n \in Nat /\ n <= ToRead
  <2>1. MaxDirect \in Nat /\ ToRead \in Int
    BY <1>1, ToReadIs, IsoAssumption DEF IsoAssumption
  <2> QED BY <1>1, <2>1 DEF Lesser
<1>3. b \in Discs \X Int /\ x \in Handles \ {0} /\ Wanted = fh[x].first + fh[x].ptr \div 2
  BY <1>1, ToReadIs DEF IsoTyped
<1>4. fh[x].ptr \in Nat /\ fh[x].first \in Int
  BY <1>3 DEF IsoTyped, Handle
<1> HIDE DEF n
<1>5. /\ Halves(b, 0, n) \in Seq(Unit) /\ Len(Halves(b, 0, n)) = n
      /\ \A i \in 1 .. n : Halves(b, 0, n)[i] = <<disc, Wanted + (0 + i - 1) \div 2, (0 + i - 1) % 2>>
  <2>1. b[1] = disc /\ b[2] = Wanted /\ 0 \in Nat
    OBVIOUS
  <2> HIDE DEF b
  <2>2. /\ Halves(b, 0, n) \in Seq(Unit) /\ Len(Halves(b, 0, n)) = n
        /\ \A i \in 1 .. n : Halves(b, 0, n)[i] = <<b[1], b[2] + (0 + i - 1) \div 2, (0 + i - 1) % 2>>
    BY <1>2, <1>3, <2>1, HalvesAre, Zenon
  <2> QED BY <2>1, <2>2
<1>6. ASSUME ~missed, NEW i \in 1 .. n
      PROVE  Halves(b, 0, n)[i] = <<fh[x].of, fh[x].first + (fh[x].ptr + i - 1) \div 2, (fh[x].ptr + i - 1) % 2>>
  <2>1. fh[x].of = disc
    BY <1>1, <1>3, <1>6 DEF DiscInv, KnownDisc, ReadingOn, OneDisc
  <2>2. i - 1 \in Nat /\ 0 + i - 1 = i - 1 /\ fh[x].ptr + i - 1 = fh[x].ptr + (i - 1)
    BY <1>4
  <2>3. (fh[x].ptr + (i - 1)) \div 2 = fh[x].ptr \div 2 + (i - 1) \div 2 /\ (fh[x].ptr + (i - 1)) % 2 = (i - 1) % 2
    BY <1>1, <1>4, <2>2, Halving
  <2>4. Wanted + (i - 1) \div 2 = fh[x].first + (fh[x].ptr \div 2 + (i - 1) \div 2)
    BY <1>3, <1>4, <2>2
  <2> QED BY <1>5, <2>1, <2>2, <2>3, <2>4
<1>7. \A d : OneDisc(d) => OfDisc(icache', d) /\ OfDisc(dcache', d)
  BY <1>1 DEF OneDisc
<1> HIDE DEF b
<1> QED BY <1>1, <1>2, <1>5, <1>6, <1>7, CopiedDisc

LEMMA DirectFailsDisc ==
  ASSUME IsoTyped, DiscInv, DirectFails
  PROVE  DiscInv'
<1>1. iso.pc = "copy" /\ iso \in IsoRead
  BY Phases DEF DirectFails
<1>2. /\ iso' = [pc |-> "lost"] \/ iso' = Returned(-1)
      /\ disc' = disc /\ changed' = FALSE
      /\ missed' = (missed \/ changed)
      /\ UNCHANGED <<icache, dcache, fh>>
  BY DEF DirectFails, DriveFails
<1>3. ReadingOn' /\ ReadAsOpened'
  BY <1>1, <1>2, ReturnedTyped, NothingRead
<1>4. Within'
  BY <1>2 DEF DiscInv, Within
<1>5. KnownDisc'
  <2>1. ~missed' => ~missed /\ ~changed
    BY <1>2
  <2> QED BY <1>1, <1>2, <2>1 DEF DiscInv, KnownDisc, OneDisc, MayUse
<1> QED BY <1>3, <1>4, <1>5 DEF DiscInv

LEMMA PartDisc ==
  ASSUME IsoTyped, DiscInv, ReadPart
  PROVE  DiscInv'
<1> DEFINE b == Last(dcache').holds
           x == iso.h
           p == fh[x].ptr
           u == Halves(b, p % 2, 1)
<1>1. /\ iso.pc = "copy" /\ Copied(u) /\ dcache' = bread_cache(dcache, Wanted) /\ ToRead > 0
      /\ Slots(dcache, Wanted) # {} \/ DriveReady
      /\ UNCHANGED <<disc, changed, icache, missed>>
  BY DEF ReadPart, DriveSame
<1>2. dcache \in Caches /\ disc \in Discs /\ Wanted \in Int /\ x \in Handles \ {0} /\ ToRead \in Int
      /\ Wanted = fh[x].first + p \div 2
  BY <1>1, ToReadIs DEF IsoTyped
<1>3. dcache' \in Caches /\ Last(dcache') \in Blocks
  BY <1>1, <1>2, CacheRead, Zenon
<1>4. b \in Discs \X Int
  BY <1>3 DEF Blocks
<1>5. p \in Nat /\ p % 2 \in Nat /\ p \div 2 \in Nat /\ (p % 2) \div 2 = 0 /\ (p % 2) % 2 = p % 2
      /\ fh[x].first \in Int /\ fh[x].first >= 0
  <2>1. p \in Nat /\ fh[x].first \in Int
    BY <1>2 DEF IsoTyped, Handle
  <2>2. fh[x].first >= 0
    BY <1>2 DEF DiscInv, Within
  <2>3. p % 2 \in Nat /\ p \div 2 \in Nat
    BY <2>1
  <2> QED BY <2>1, <2>2, <2>3, Halving
<1>6. Wanted # -1
  BY <1>2, <1>5
<1>7. ASSUME NEW d, OneDisc(d), ~changed => d = disc
      PROVE  OfDisc(icache', d) /\ OfDisc(dcache', d) /\ b = <<d, Wanted>>
  <2>1. Slots(dcache, Wanted) # {} \/ d = disc
    BY <1>1, <1>7 DEF DriveReady
  <2>2. OfDisc(dcache, d) /\ OfDisc(icache', d)
    BY <1>1, <1>7 DEF OneDisc
  <2> QED BY <1>1, <1>2, <1>6, <2>1, <2>2, OfDiscRead
<1> HIDE DEF b, p
<1>8. /\ u \in Seq(Unit) /\ Len(u) = 1
      /\ \A i \in 1 .. 1 : u[i] = <<b[1], b[2] + ((p % 2) + i - 1) \div 2, ((p % 2) + i - 1) % 2>>
  <2> DEFINE q == p % 2
             k == 1
  <2>1. q \in Nat /\ k \in Nat
    BY <1>5
  <2> HIDE DEF q, k
  <2>2. /\ Halves(b, q, k) \in Seq(Unit) /\ Len(Halves(b, q, k)) = k
        /\ \A i \in 1 .. k : Halves(b, q, k)[i] = <<b[1], b[2] + (q + i - 1) \div 2, (q + i - 1) % 2>>
    BY <1>4, <2>1, HalvesAre
  <2> QED BY <2>2 DEF q, k
<1>9. u[1] = <<b[1], b[2], p % 2>>
  <2>1. u[1] = <<b[1], b[2] + ((p % 2) + 1 - 1) \div 2, ((p % 2) + 1 - 1) % 2>>
    BY <1>8
  <2>2. (p % 2) + 1 - 1 = p % 2
    BY <1>5
  <2>3. b[2] \in Int /\ b[2] + 0 = b[2]
    BY <1>4
  <2> QED BY <1>5, <2>1, <2>2, <2>3
<1> HIDE DEF u
<1>10. ASSUME ~missed, NEW i \in 1 .. Len(u)
       PROVE  u[i] = <<fh[x].of, fh[x].first + (p + i - 1) \div 2, (p + i - 1) % 2>>
  <2>1. i = 1 /\ p + i - 1 = p
    BY <1>5, <1>8
  <2>2. PICK d : OneDisc(d) /\ (~changed => d = disc)
    BY <1>1, <1>10 DEF DiscInv, KnownDisc
  <2>3. fh[x].of = d
    BY <1>1, <1>2, <1>10, <2>2 DEF DiscInv, ReadingOn, OneDisc
  <2>4. b[1] = d /\ b[2] = fh[x].first + p \div 2
    BY <1>2, <1>7, <2>2
  <2> QED BY <1>9, <2>1, <2>3, <2>4
<1>11. Len(u) <= ToRead
  BY <1>1, <1>2, <1>8
<1> QED BY <1>1, <1>7, <1>8, <1>10, <1>11, CopiedDisc DEF p

LEMMA EndDisc ==
  ASSUME IsoTyped, DiscInv, ReadEnd
  PROVE  DiscInv'
<1> DEFINE x == iso.h
           m == Len(iso.got)
           b == <<fh[x].of, fh[x].first>>
<1>1. iso.pc = "copy" /\ ToRead = 0
      /\ iso' = [iso EXCEPT !.pc = "ret", !.ret = Len(iso.got)]
      /\ UNCHANGED <<disc, changed, icache, dcache, fh, missed>>
  BY DEF ReadEnd, DriveSame
<1>2. iso \in IsoRead /\ x \in Handles \ {0} /\ iso.got \in Seq(Unit) /\ iso.from \in Nat /\ iso.n \in Nat /\ m \in Nat
  BY <1>1, ToReadIs, LenProperties DEF IsoRead
<1>3. iso'.pc = "ret" /\ iso'.h = x /\ iso'.from = iso.from /\ iso'.n = iso.n /\ iso'.got = iso.got /\ iso'.ret = m
  BY <1>1, <1>2 DEF IsoRead
<1>4. fh[x].ptr \in Nat /\ fh[x].size \in Nat /\ fh[x].ptr <= fh[x].size
  BY <1>2 DEF IsoTyped, Handle, DiscInv, Within
<1>5. Lesser(iso.n - m, fh[x].size - fh[x].ptr) = 0
  BY <1>1 DEF ToRead
<1> HIDE DEF x, m
<1>6. ReadingOn'
  BY <1>3 DEF ReadingOn
<1>7. ASSUME ~missed
      PROVE  iso.got = Halves(b, iso.from, Lesser(iso.n, fh[x].size - iso.from)) /\ fh[x].ptr = iso.from + m
  <2>1. iso.got = Halves(b, iso.from, m) /\ fh[x].ptr = iso.from + m /\ m <= iso.n
    BY <1>1, <1>7 DEF DiscInv, ReadingOn, x, m
  <2>2. Lesser(iso.n, fh[x].size - iso.from) = m
    <3>1. iso.n - m = 0 \/ fh[x].size - fh[x].ptr = 0
      BY <1>5 DEF Lesser
    <3>2. fh[x].size - iso.from \in Int /\ (iso.n = m \/ fh[x].size - iso.from = m)
          /\ m <= fh[x].size - iso.from
      BY <1>2, <1>4, <2>1, <3>1
    <3> QED BY <1>2, <2>1, <3>2 DEF Lesser
  <2> QED BY <2>1, <2>2
<1>8. ~missed' => ReadAsOpened'
  BY <1>1, <1>3, <1>7 DEF ReadAsOpened
<1> QED BY <1>1, <1>6, <1>8, DiscSame

LEMMA IsoDisc ==
  ASSUME IsoTyped, DiscInv, IsoStep
  PROVE  DiscInv'
<1>1. CASE PercdFails \/ FindFails \/ PartFails
  BY <1>1, BlockFailsDisc DEF PercdFails, FindFails, PartFails
<1> QED
  BY <1>1, PercdDisc, FindDisc, NotFoundDisc, DirectDisc, DirectFailsDisc, PartDisc, EndDisc, Zenon
  DEF IsoStep
-----------------------------------------------------------------------------
(* The calls that begin and end on the disc, and the user's change of it.  *)
LEMMA StartOpenDisc ==
  ASSUME IsoTyped, DiscInv, iso = Idle, NEW path \in Paths, StartOpen(path)
  PROVE  DiscInv'
<1>1. iso' \in IsoOpen /\ disc' = disc /\ changed' = changed /\ iso.pc = "idle" /\ disc \in Discs
  BY StartOpenKeeps DEF StartOpen, DriveSame, Idle, IsoTyped
<1>2. ReadingOn' /\ ReadAsOpened'
  BY <1>1, NothingRead
<1>3. CASE UNCHANGED <<icache, dcache, fh, missed>>
  BY <1>1, <1>2, <1>3, DiscSame
<1>4. CASE iso_reset
  <2>1. Within'
    BY <1>4, ResetIsOf DEF DiscInv, Within
  <2>2. OneDisc(disc)'
    BY <1>1, <1>4, ResetIsOf DEF OneDisc
  <2>3. KnownDisc'
    BY <1>1, <2>2 DEF KnownDisc
  <2> QED BY <1>2, <2>1, <2>3 DEF DiscInv
<1> QED BY <1>3, <1>4, Zenon DEF StartOpen

LEMMA StartReadDisc ==
  ASSUME IsoTyped, DiscInv, iso = Idle, NEW x \in Handles \ {0}, NEW n \in Nat, StartRead(x, n)
  PROVE  DiscInv'
<1>1. UNCHANGED <<disc, changed, icache, dcache, fh, missed>> /\ iso.pc # "lost"
  BY DEF StartRead, DriveSame, Idle
<1>2. CASE iso' = [pc |-> "ret", op |-> "read", ret |-> -1]
  <2>1. iso' \in IsoFailed
    BY <1>2 DEF IsoFailed
  <2>2. ReadingOn' /\ ReadAsOpened'
    BY <2>1, NothingRead
  <2> QED BY <1>1, <2>2, DiscSame
<1>3. CASE MayUse(x) /\ iso' = [pc |-> "copy", op |-> "read", k |-> 1, depth |-> 0, goes_on |-> FALSE,
                                h |-> x, n |-> n, from |-> fh[x].ptr, got |-> <<>>, ret |-> 0]
  <2> DEFINE b == <<fh[x].of, fh[x].first>>
  <2>1. /\ iso'.pc = "copy" /\ iso'.h = x /\ iso'.n = n /\ iso'.from = fh[x].ptr /\ iso'.got = <<>>
    BY <1>3
  <2>2. fh[x].ptr \in Nat /\ b \in Discs \X Int
    BY DEF IsoTyped, Handle
  <2>3. Halves(b, fh[x].ptr, 0) = <<>> /\ Len(<<>>) = 0
    <3> DEFINE k == 0
               from == fh[x].ptr
    <3>1. k \in Nat /\ from \in Nat
      BY <2>2
    <3> HIDE DEF b, k, from
    <3>2. Halves(b, from, k) \in Seq(Unit) /\ Len(Halves(b, from, k)) = k
      BY <2>2, <3>1, HalvesAre
    <3>3. Len(Halves(b, from, 0)) = 0 /\ Halves(b, from, 0) \in Seq(Unit)
      BY <3>2 DEF k
    <3>4. Halves(b, from, 0) = <<>>
      BY <3>3, EmptySeq
    <3> QED BY <3>4, EmptySeq DEF from
  <2>4. ReadingOn'
    <3>1. fh' = fh
      BY <1>1
    <3>2. fh[x].ptr + 0 = fh[x].ptr /\ 0 <= n
      BY <2>2
    <3> HIDE DEF b
    <3>3. iso'.got = Halves(b, iso'.from, Len(iso'.got)) /\ fh'[iso'.h].ptr = iso'.from + Len(iso'.got)
          /\ Len(iso'.got) <= iso'.n
      BY <2>1, <2>3, <3>1, <3>2
    <3> QED BY <1>3, <2>1, <3>1, <3>3 DEF ReadingOn, MayUse, b
  <2>5. ReadAsOpened'
    BY <2>1 DEF ReadAsOpened
  <2> QED BY <1>1, <2>4, <2>5, DiscSame
<1> QED BY <1>2, <1>3, Zenon DEF StartRead

LEMMA CloseDisc ==
  ASSUME IsoTyped, DiscInv, iso = Idle, NEW x \in Handles \ {0}, Close(x)
  PROVE  DiscInv'
<1>1. /\ fh' = [fh EXCEPT ![x].first = 0] /\ UNCHANGED <<disc, changed, icache, dcache, missed, iso>>
      /\ iso.pc = "idle"
  BY DEF Close, DriveSame, Idle
<1>2. /\ \A y \in Handles : fh'[y].ptr = fh[y].ptr /\ fh'[y].size = fh[y].size /\ fh'[y].of = fh[y].of
                            /\ fh'[y].broken = fh[y].broken
      /\ fh'[x].first = 0 /\ \A y \in Handles : y # x => fh'[y].first = fh[y].first
  BY <1>1 DEF IsoTyped, Handle
<1>3. Within'
  BY <1>2 DEF DiscInv, Within
<1>4. \A y \in Handles \ {0} : MayUse(y)' => MayUse(y)
  BY <1>2 DEF MayUse
<1>5. \A d : OneDisc(d) => OneDisc(d)'
  BY <1>1, <1>2, <1>4 DEF OneDisc
<1>6. KnownDisc'
  BY <1>1, <1>5 DEF DiscInv, KnownDisc
<1>7. ReadingOn' /\ ReadAsOpened'
  BY <1>1, NothingRead
<1> QED BY <1>3, <1>6, <1>7 DEF DiscInv

LEMMA SeekDisc ==
  ASSUME IsoTyped, DiscInv, iso = Idle, NEW x \in Handles \ {0}, NEW w \in {"SEEK_SET", "SEEK_CUR", "SEEK_END"},
         NEW o \in {-1, 1}, Seek(x, w, o)
  PROVE  DiscInv'
<1> DEFINE to == o + (CASE w = "SEEK_SET" -> 0 [] w = "SEEK_CUR" -> fh[x].ptr [] w = "SEEK_END" -> fh[x].size)
           at == IF to < 0 \/ to > fh[x].size THEN fh[x].size ELSE to
<1>1. /\ fh' = fh \/ fh' = [fh EXCEPT ![x].ptr = at]
      /\ UNCHANGED <<disc, changed, icache, dcache, iso, missed>>
  BY Zenon DEF Seek, DriveSame
<1>2. iso.pc = "idle"
  BY DEF Idle
<1>3. fh[x].ptr \in Nat /\ fh[x].size \in Nat
  BY DEF IsoTyped, Handle
<1>4. at <= fh[x].size
  <2>1. to \in Int
    <3>1. CASE w = "SEEK_SET"
      BY <1>3, <3>1
    <3>2. CASE w = "SEEK_CUR"
      BY <1>3, <3>2
    <3>3. CASE w = "SEEK_END"
      BY <1>3, <3>3
    <3> QED BY <3>1, <3>2, <3>3
  <2> HIDE DEF to
  <2> QED BY <1>3, <2>1
<1> HIDE DEF at
<1>5. \A y \in Handles : fh'[y].first = fh[y].first /\ fh'[y].size = fh[y].size /\ fh'[y].of = fh[y].of
                         /\ fh'[y].broken = fh[y].broken /\ (fh'[y].ptr = fh[y].ptr \/ (y = x /\ fh'[y].ptr = at))
  BY <1>1 DEF IsoTyped, Handle
<1>6. Within'
  BY <1>4, <1>5 DEF DiscInv, Within
<1>7. \A y \in Handles \ {0} : MayUse(y)' => MayUse(y)
  BY <1>5 DEF MayUse
<1>8. \A d : OneDisc(d) => OneDisc(d)'
  BY <1>1, <1>5, <1>7 DEF OneDisc
<1>9. KnownDisc'
  BY <1>1, <1>8 DEF DiscInv, KnownDisc
<1>10. ReadingOn' /\ ReadAsOpened'
  BY <1>1, NothingRead
<1> QED BY <1>6, <1>9, <1>10 DEF DiscInv

LEMMA DiscUnchanged ==
  ASSUME DiscInv, UNCHANGED ivars
  PROVE  DiscInv'
  BY DEF DiscInv, KnownDisc, OneDisc, MayUse, Within, ReadingOn, ReadAsOpened, ivars

LEMMA SwapDiscDisc ==
  ASSUME DiscInv, NEW x, SwapDisc(x)
  PROVE  DiscInv'
<1>1. changed' = TRUE /\ UNCHANGED <<icache, dcache, fh, iso, missed>>
  BY DEF SwapDisc
<1>2. KnownDisc'
  BY <1>1 DEF DiscInv, KnownDisc, OneDisc, MayUse
<1>3. Within' /\ ReadingOn' /\ (~missed' => ReadAsOpened')
  BY <1>1 DEF DiscInv, Within, ReadingOn, ReadAsOpened, MayUse
<1> QED BY <1>2, <1>3 DEF DiscInv

\* A call to the disc has returned.
LEMMA IdleDisc ==
  ASSUME DiscInv, iso.pc = "ret", iso' = Idle, UNCHANGED <<disc, changed, icache, dcache, fh, missed>>
  PROVE  DiscInv'
<1>1. ReadingOn' /\ ReadAsOpened'
  BY NothingRead
<1>2. iso.pc # "lost"
  OBVIOUS
<1> QED BY <1>1, <1>2, DiscSame

LEMMA DiscStart ==
  ASSUME Init
  PROVE  DiscInv
<1>1. iso = Idle /\ iso.pc = "idle" /\ disc = FirstDisc /\ disc \in Discs
  BY IsoAssumption DEF Init, IsoInit, Idle, IsoAssumption, Discs
<1>2. OneDisc(disc)
  <2>1. \A k \in DOMAIN icache : icache[k].sector = -1
    BY DEF Init, IsoInit
  <2>2. dcache = icache
    BY DEF Init, IsoInit
  <2>3. \A x \in Handles \ {0} : fh[x].first = 0
    BY DEF Init, IsoInit
  <2> QED BY <2>1, <2>2, <2>3 DEF OneDisc, OfDisc, MayUse
<1>3. Within
  BY DEF Init, IsoInit, Within
<1> QED BY <1>1, <1>2, <1>3 DEF DiscInv, KnownDisc, ReadingOn, ReadAsOpened

LEMMA DiscStep ==
  ASSUME MountsInv, DiscInv, [Next]_vars
  PROVE  DiscInv'
<1>t. IsoTyped
  BY DEF MountsInv
<1>1. CASE UNCHANGED ivars
  BY <1>1, DiscUnchanged
<1>2. ASSUME NEW f \in given, NEW n \in Amounts, Read(f, n)
      PROVE  DiscInv'
  <2>1. CASE fds[f].ops = "iso9660"
    <3>1. StartRead(fds[f].h, n)
      BY <1>2, <2>1, Zenon DEF Read, HandleOf
    <3>2. call = NoCall /\ n \in Nat
      BY <1>2, StorageAssumption DEF Read, AtRest, StorageAssumption
    <3>3. iso = Idle /\ fds[f].h \in Handles \ {0}
      BY <2>1, <3>2, RestIs, Given
    <3> QED BY <1>t, <3>1, <3>2, <3>3, StartReadDisc
  <2>2. CASE fds[f].ops # "iso9660"
    <3>1. UNCHANGED ivars
      BY <1>2, <2>2, Zenon DEF Read
    <3> QED BY <3>1, DiscUnchanged
  <2> QED BY <2>1, <2>2
<1>3. ASSUME NEW f \in given, CloseFD(f)
      PROVE  DiscInv'
  <2>1. CASE fds[f].ops = "iso9660"
    <3>1. Close(fds[f].h) /\ call = NoCall
      BY <1>3, <2>1 DEF CloseFD, HandleOf, AtRest
    <3>2. iso = Idle /\ fds[f].h \in Handles \ {0}
      BY <2>1, <3>1, RestIs, Given
    <3> QED BY <1>t, <3>1, <3>2, CloseDisc
  <2>2. CASE fds[f].ops # "iso9660"
    <3>1. UNCHANGED ivars
      BY <1>3, <2>2, Zenon DEF CloseFD
    <3> QED BY <3>1, DiscUnchanged
  <2> QED BY <2>1, <2>2
<1>4. ASSUME NEW f \in given, NEW w \in {"SEEK_SET", "SEEK_CUR", "SEEK_END"}, NEW o \in {-1, 1}, LSeek(f, w, o)
      PROVE  DiscInv'
  <2>1. fds[f].ops = "iso9660" /\ Seek(fds[f].h, w, o) /\ call = NoCall
    BY <1>4 DEF LSeek, HandleOf, AtRest
  <2>2. iso = Idle /\ fds[f].h \in Handles \ {0}
    BY <2>1, RestIs, Given
  <2> QED BY <1>t, <2>1, <2>2, SeekDisc
<1>5. CASE Calls
  <2>1. ASSUME NEW at, NEW file, Open(at, file)
        PROVE  UNCHANGED ivars
    BY <2>1 DEF Open
  <2> QED BY <1>1, <1>2, <1>3, <1>4, <1>5, <2>1, Zenon DEF Calls
<1>6. CASE OpenOn
  <2>1. call.op = "open" /\ call.step = "look" /\ ~OnDisc
    BY <1>6 DEF OpenOn, OnDisc
  <2>2. iso = Idle /\ call.file \in Paths
    BY <2>1, DiscRests, CallKinds DEF MountsInv, Opening_
  <2>3. UNCHANGED ivars \/ StartOpen(call.file)
    <3> DEFINE m == Lowest(Matching)
    <3>1. mounts[m].ops = "" => UNCHANGED ivars
      BY <1>6, Zenon DEF OpenOn
    <3>2. mounts[m].ops = "console" => UNCHANGED ivars
      BY <1>6, Zenon DEF OpenOn
    <3>3. mounts[m].ops = "iso9660" => StartOpen(call.file)
      BY <1>6, Zenon DEF OpenOn
    <3>4. mounts[m].ops = "fat" => UNCHANGED ivars
      BY <1>6, Zenon DEF OpenOn
    <3>5. mounts[m].ops \in {"", "console", "iso9660", "fat"}
      <4>1. Volumes \subseteq Nat
        <5>1. NUM_VOLUMES \in Nat
          BY StorageAssumption, Zenon DEF StorageAssumption
        <5> QED BY <5>1 DEF Volumes
      <4>2. Matching \subseteq Volumes /\ Matching # {}
        BY <1>6 DEF Matching, OpenOn
      <4>3. m \in Matching
        BY <4>1, <4>2, LowestIs, Zenon
      <4> HIDE DEF m
      <4> QED BY <4>2, <4>3 DEF MountsInv, Tables, MountEntry
    <3> QED BY <3>1, <3>2, <3>3, <3>4, <3>5, Zenon
  <2> QED BY <1>1, <1>t, <2>2, <2>3, StartOpenDisc
<1>7. CASE IsoOpened
  BY <1>7, IdleDisc DEF IsoOpened
<1>8. CASE HasRead
  <2>1. UNCHANGED <<disc, changed, icache, dcache, fh, missed>>
        /\ ((iso.pc = "ret" /\ iso' = Idle) \/ iso' = iso)
    BY <1>8 DEF HasRead
  <2>2. CASE iso.pc = "ret" /\ iso' = Idle
    BY <2>1, <2>2, IdleDisc
  <2>3. CASE iso' = iso
    BY <2>1, <2>3 DEF DiscInv, KnownDisc, OneDisc, MayUse, Within, ReadingOn, ReadAsOpened
  <2> QED BY <2>1, <2>2, <2>3
<1>9. CASE InCall
  BY <1>1, <1>6, <1>7, <1>8, <1>9 DEF InCall, NoSuchFile, FatOpened, FatMounted, FatReads, FatCached, FatHasRead, FatReadsOne
<1>10. CASE IsoSteps
  BY <1>t, <1>10, IsoDisc DEF IsoSteps
<1>11. CASE MassSteps
  BY <1>1, <1>11 DEF MassSteps
<1>12. CASE User
  BY <1>1, <1>12, SwapDiscDisc, Zenon DEF User
<1>13. CASE Daemon
  BY <1>1, <1>13, Zenon DEF Daemon, DvdInit, AttachStrange, AttachStick, DetachStick
<1>14. CASE UNCHANGED vars
  BY <1>1, <1>14 DEF vars
<1> QED BY <1>5, <1>9, <1>10, <1>11, <1>12, <1>13, <1>14, Zenon DEF Next

LEMMA DiscAlways == Spec => []DiscInv
<1>1. Init => DiscInv
  BY DiscStart
<1>2. MountsInv /\ DiscInv /\ [Next]_vars => DiscInv'
  BY DiscStep
<1> QED BY <1>1, <1>2, MountsAlways, PTL DEF Spec

(* Nothing that was read from one disc is taken for another's: once the    *)
(* drive has reported a change, unless it was to a read past the cache,    *)
(* the caches and the handles that still work are of the disc in the       *)
(* drive, and a read returns the bytes of the file it was opened on        *)
(* (iso9660.c, dvd_read_sector).                                           *)
THEOREM DiscAgrees == Spec => []DiscSound
<1>1. MountsInv /\ DiscInv => DiscSound
  <2> HAVE MountsInv /\ DiscInv
  <2>1. ASSUME ~missed, iso.pc # "lost", ~changed
        PROVE  CachesOfDisc /\ HandlesOfDisc
    <3>1. OneDisc(disc)
      BY <2>1 DEF DiscInv, KnownDisc
    <3> QED BY <3>1 DEF OneDisc, OfDisc, CachesOfDisc, HandlesOfDisc
  <2>2. ~missed => ReadAsOpened
    BY DEF DiscInv
  <2> QED BY <2>1, <2>2 DEF DiscSound
<1> QED BY <1>1, MountsAlways, DiscAlways, PTL

-----------------------------------------------------------------------------
(* Sticks.  Requests have their numbers, and a request of a call that has  *)
(* returned has number 0.                                                  *)
Commands == {<<>>, <<"sense">>} \cup ({"read"} \X Nat \X Nat)
Numbers(e) == IF e = "out" THEN {0, 1, 4} ELSE {0, 2, 3, 5, 6}
Queued(e) == [u : Numbers(e), what : {"cbw", "data", "csw"}, cmd : Commands]
ReadFields == {"pc", "port", "stick", "lba", "num", "from", "asked", "data", "got"}
Places == {"piece", "ret", "wait1", "wait2", "wait3", "clear", "feature",
           "sense4", "wait4", "sense5", "wait5", "sense6", "wait6"}

Both(l) == l = [e \in Ends |-> l[e]]
ListsTyped ==
  /\ DOMAIN list = Ports
  /\ \A p \in Ports : Both(list[p]) /\ \A e \in Ends : list[p][e] \in Seq(Queued(e))
ReadTyped ==
  /\ ReadFields \subseteq DOMAIN rd /\ rd.port \in Ports
  /\ rd.lba \in Nat /\ rd.num \in Nat /\ rd.from \in Nat /\ rd.asked \in Nat
MassTyped ==
  /\ ListsTyped
  /\ DOMAIN dev = Ports /\ DOMAIN bad = Ports /\ DOMAIN status = Requests
  /\ OnStick => ReadTyped /\ rd.pc \in Places

(* Nobody waits for what is queued for another stick than the one that is  *)
(* read, and no command is; without an error nothing is, and the stick     *)
(* takes one.                                                              *)
Silent(p) == \A e \in Ends : \A i \in DOMAIN list[p][e] : list[p][e][i].u = 0
Empty(p) == list[p]["out"] = <<>> /\ list[p]["in"] = <<>>
Quiet ==
  /\ \A p \in Ports : ~OnStick \/ p # rd.port =>
       Silent(p) /\ list[p]["out"] = <<>> /\ (~bad[p] => Empty(p) /\ dev[p] = Ready)
  /\ rd.pc \in {"piece", "ret"} => Silent(rd.port)

(* A command that is queued is one the driver waits for.                   *)
Waited(u) == \A i \in DOMAIN list[rd.port]["out"] : list[rd.port]["out"][i].u = u /\ i = 1 /\ status[u] = ""
BeforeSense == {"wait1", "wait2", "wait3", "clear", "feature", "sense4"}
Commanded ==
  OnStick => /\ rd.pc \in BeforeSense => status[4] = ""
             /\ rd.pc = "wait1" => Waited(1)
             /\ rd.pc = "wait4" => Waited(4)
             /\ rd.pc \notin {"wait1", "wait4"} => list[rd.port]["out"] = <<>>

(* The stick a device is, and that is read, is the one the daemon knows;   *)
(* one that has taken its place has not got a command yet.                 *)
Attached ==
  /\ \A p \in Ports : plug[p] # known[p].stick => dev[p] = Ready
  /\ \A d \in Drives : devices[d].ops = "stick" =>
       /\ devices[d].port \in Ports /\ known[devices[d].port].dev = d
       /\ known[devices[d].port].stick = devices[d].stick /\ devices[d].stick # 0
  /\ OnStick => rd.stick = known[rd.port].stick /\ rd.stick # 0

(* What a volume was of is a device's entry, whatever has become of it.    *)
VolumeKnown(m) == m \in Volumes /\ mounts[m].dev \in Drives
VolumesKnown ==
  /\ \A f \in FDs : fds[f].ops = "fat" => VolumeKnown(fds[f].vol)
  /\ call.op # "none" /\ call.step \in Steps => VolumeKnown(call.vol)

(* Without an error: what the lists of the stick that is read hold, and    *)
(* its own state.                                                          *)
Wire(outs, ins) == list[rd.port]["out"] = outs /\ list[rd.port]["in"] = ins
StickFields == {"st", "cmd", "fails", "halt"}
Is(d, st, cmd, failed, stalled) ==
  StickFields \subseteq DOMAIN d /\ d.st = st /\ d.cmd = cmd /\ d.fails = failed /\ d.halt = stalled
Stick(st, cmd, failed, stalled) ==
  plug[rd.port] = rd.stick => Is(dev[rd.port], st, cmd, failed, stalled)
Sense == <<"sense">>
Fetch == <<"read", rd.lba, PieceSize>>
DataPhase == Request(2, "data", <<>>)
LastPhase == Request(3, "csw", <<>>)

\* The phases of a command, and those of asking for the sense.
Free == Wire(<<>>, <<>>) /\ dev[rd.port] = Ready
Sent ==
  /\ Wire(<<Request(1, "cbw", Fetch)>>, <<DataPhase, LastPhase>>) /\ dev[rd.port] = Ready
  /\ status[1] = "" /\ status[2] = "" /\ status[3] = "" /\ rd.num > 0
Taken ==
  /\ Wire(<<>>, <<DataPhase, LastPhase>>) /\ Stick("data", Fetch, FALSE, FALSE)
  /\ status[1] = "ok" /\ status[2] = "" /\ status[3] = "" /\ rd.num > 0
Came == rd.num > 0 /\ (status[2] = "ok" => rd.data = Fetch)
Moved ==
  /\ Wire(<<>>, <<LastPhase>>) /\ Stick("csw", Fetch, status[2] # "ok", status[2] = STALL)
  /\ status[1] = "ok" /\ status[2] \in {"ok", "short", STALL} /\ status[3] = "" /\ Came
Over ==
  /\ Free
  /\ status[1] = "ok" /\ status[2] \in {"ok", "short"} /\ Came
  /\ status[3] = (IF status[2] = "ok" THEN "ok" ELSE "fail")
Left == Wire(<<>>, <<LastPhase>>) /\ Stick("csw", Fetch, TRUE, FALSE)
AskedLeft ==
  /\ Wire(<<Request(4, "cbw", Sense)>>, <<LastPhase>>) /\ Stick("csw", Fetch, TRUE, FALSE)
  /\ status[4] = ""
Asked == Wire(<<Request(4, "cbw", Sense)>>, <<>>) /\ dev[rd.port] = Ready /\ status[4] = ""
Ordered == Wire(<<>>, <<>>) /\ Stick("data", Sense, FALSE, FALSE)
DataAsked ==
  /\ Wire(<<>>, <<Request(5, "data", <<>>)>>) /\ Stick("data", Sense, FALSE, FALSE)
  /\ status[5] = ""
Told == Wire(<<>>, <<>>) /\ Stick("csw", Sense, FALSE, FALSE)
StatusAsked ==
  /\ Wire(<<>>, <<Request(6, "csw", <<>>)>>) /\ Stick("csw", Sense, FALSE, FALSE)
  /\ status[6] = ""

InPhase ==
  /\ rd.pc \in {"piece", "ret"} => Free
  /\ rd.pc = "wait1" => Sent \/ Taken \/ Moved \/ Over
  /\ rd.pc = "wait2" => Taken \/ Moved \/ Over
  /\ rd.pc = "wait3" => (Moved /\ status[2] # STALL) \/ Over
  /\ rd.pc \in {"clear", "feature"} => Moved /\ status[2] = STALL
  /\ rd.pc = "sense4" => Left \/ Free
  /\ rd.pc = "wait4" => AskedLeft \/ Asked \/ Ordered
  /\ rd.pc = "sense5" => Ordered
  /\ rd.pc = "wait5" => DataAsked \/ Told
  /\ rd.pc = "sense6" => Told
  /\ rd.pc = "wait6" => StatusAsked \/ Free

\* No request of the sense is over before it is made.
Unasked ==
  /\ rd.pc \notin {"idle", "piece", "ret", "wait5", "sense6", "wait6"} => status[5] = ""
  /\ rd.pc \notin {"idle", "piece", "ret", "wait6"} => status[6] = ""

(* The pieces a call has read, and what is left.                           *)
Pieces ==
  /\ rd.lba = rd.from + rd.asked - rd.num
  /\ rd.num > 0 => rd.lba = rd.from + Len(rd.got) * MaxPiece
  /\ rd.got \in Seq({"read"} \X Nat \X Nat)
  /\ \A i \in 1 .. Len(rd.got) : rd.got[i][2] = rd.from + (i - 1) * MaxPiece

Unspoiled == OnStick /\ ~bad[rd.port] => InPhase /\ Unasked /\ Pieces

StickInv == MassTyped /\ Quiet /\ Commanded /\ Attached /\ VolumesKnown /\ Unspoiled
-----------------------------------------------------------------------------
\* What a step that only moves on in the read leaves alone.
SameRead ==
  /\ rd'.port = rd.port /\ rd'.stick = rd.stick /\ rd'.lba = rd.lba /\ rd'.num = rd.num
  /\ rd'.from = rd.from /\ rd'.asked = rd.asked /\ rd'.got = rd.got

(* Where a read is, and what it has got, changes alone.                    *)
LEMMA PcMoves ==
  ASSUME ReadTyped, NEW x, rd' = [rd EXCEPT !.pc = x]
  PROVE  SameRead /\ ReadTyped' /\ rd'.pc = x /\ rd'.data = rd.data
BY DEF ReadTyped, ReadFields, SameRead

LEMMA DataCame ==
  ASSUME ReadTyped, NEW x, rd' = [rd EXCEPT !.data = x]
  PROVE  SameRead /\ ReadTyped' /\ rd'.pc = rd.pc /\ rd'.data = x
BY DEF ReadTyped, ReadFields, SameRead

LEMMA ReadBegins ==
  ASSUME ReadTyped, NEW x, NEW y, rd' = [rd EXCEPT !.pc = x, !.data = y]
  PROVE  SameRead /\ ReadTyped' /\ rd'.pc = x /\ rd'.data = y
BY DEF ReadTyped, ReadFields, SameRead

LEMMA FetchSame ==
  ASSUME SameRead
  PROVE  Fetch' = Fetch
BY DEF SameRead, Fetch, PieceSize

(* A list that is served loses its first request.                          *)
LEMMA TailSilent ==
  ASSUME NEW S, NEW s \in Seq(S), s # <<>>
  PROVE  /\ Tail(s) \in Seq(S) /\ Head(s) \in S /\ 1 \in DOMAIN s /\ Head(s) = s[1]
         /\ (\A i \in DOMAIN s : s[i].u = 0) => \A i \in DOMAIN Tail(s) : Tail(s)[i].u = 0
OBVIOUS

LEMMA ListServed ==
  ASSUME ListsTyped, NEW p \in Ports, NEW e \in Ends, list[p][e] # <<>>, NEW cc, Ended(p, e, cc)
  PROVE  /\ ListsTyped' /\ Head(list[p][e]) \in Queued(e)
         /\ list'[p][e] = Tail(list[p][e])
         /\ \A f \in Ends : f # e => list'[p][f] = list[p][f]
         /\ \A q \in Ports : q # p => list'[q] = list[q]
<1>1. list' = [list EXCEPT ![p][e] = Tail(@)]
  BY DEF Ended
<1>2. list[p][e] \in Seq(Queued(e)) /\ DOMAIN list = Ports /\ Both(list[p])
  BY DEF ListsTyped
<1>e. DOMAIN list[p] = Ends
  BY <1>2 DEF Both
<1>3. Tail(list[p][e]) \in Seq(Queued(e)) /\ Head(list[p][e]) \in Queued(e)
  BY <1>2, TailSilent
<1>4. /\ list'[p][e] = Tail(list[p][e]) /\ DOMAIN list' = Ports
      /\ list'[p] = [list[p] EXCEPT ![e] = Tail(@)]
      /\ \A f \in Ends : f # e => list'[p][f] = list[p][f]
      /\ \A q \in Ports : q # p => list'[q] = list[q]
  BY <1>1, <1>2, <1>e
<1>5. ListsTyped'
  <2>1. Both(list'[p])
    BY <1>4, <1>e DEF Both
  <2> QED BY <1>2, <1>3, <1>4, <2>1 DEF ListsTyped
<1> QED BY <1>3, <1>4, <1>5

LEMMA StatusServed ==
  ASSUME MassTyped, NEW p \in Ports, NEW e \in Ends, list[p][e] # <<>>, NEW cc, Ended(p, e, cc),
         Head(list[p][e]).u = 0 \/ OnStick
  PROVE  /\ DOMAIN status' = Requests
         /\ \A u \in Requests : u # Head(list[p][e]).u => status'[u] = status[u]
         /\ Head(list[p][e]).u # 0 => Head(list[p][e]).u \in Requests /\ status'[Head(list[p][e]).u] = cc
         /\ Head(list[p][e]).u # 2 => rd' = rd
         /\ OnStick => SameRead /\ ReadTyped' /\ rd'.pc = rd.pc
         /\ OnStick /\ Head(list[p][e]).u = 2 /\ cc = "ok" => rd'.data = dev[p].cmd
<1> DEFINE u0 == Head(list[p][e]).u
<1>1. u0 \in {0} \cup Requests
  BY ListServed DEF MassTyped, Queued, Numbers, Requests
<1>2. /\ status' = IF u0 = 0 THEN status ELSE [status EXCEPT ![u0] = cc]
      /\ rd' = IF u0 = 2 /\ cc = "ok" THEN [rd EXCEPT !.data = dev[p].cmd] ELSE rd
  BY DEF Ended
<1> HIDE DEF u0
<1>3. DOMAIN status = Requests
  BY DEF MassTyped
<1>4. /\ DOMAIN status' = Requests
      /\ \A u \in Requests : u # u0 => status'[u] = status[u]
      /\ u0 # 0 => status'[u0] = cc
  BY <1>1, <1>2, <1>3
<1>5. OnStick => SameRead /\ ReadTyped' /\ rd'.pc = rd.pc
  <2> HAVE OnStick
  <2>1. ReadTyped
    BY DEF MassTyped
  <2>2. CASE rd' = rd
    BY <2>1, <2>2 DEF SameRead, ReadTyped, ReadFields
  <2>3. CASE rd' = [rd EXCEPT !.data = dev[p].cmd]
    BY <2>1, <2>3, DataCame
  <2> QED BY <1>2, <2>2, <2>3
<1>6. OnStick /\ u0 = 2 /\ cc = "ok" => rd'.data = dev[p].cmd
  BY <1>2, DataCame DEF MassTyped
<1> QED BY <1>1, <1>2, <1>4, <1>5, <1>6 DEF u0

(* What is served for a stick that is not read has been forgotten.         *)
LEMMA ForgottenServed ==
  ASSUME MassTyped, Quiet, NEW p \in Ports, NEW e \in Ends, list[p][e] # <<>>, ~OnStick \/ p # rd.port
  PROVE  Head(list[p][e]).u = 0 /\ e = "in" /\ bad[p]
<1>1. Silent(p) /\ list[p]["out"] = <<>> /\ (~bad[p] => Empty(p))
  BY DEF Quiet
<1>2. Head(list[p][e]).u = 0
  BY <1>1, TailSilent DEF MassTyped, ListsTyped, Silent
<1>3. e = "in" /\ bad[p]
  BY <1>1 DEF Ends, Empty
<1> QED BY <1>2, <1>3

LEMMA ServedQuiet ==
  ASSUME MassTyped, Quiet, Commanded, OneCall, NEW p \in Ports, NEW e \in Ends, list[p][e] # <<>>, NEW cc, Ended(p, e, cc),
         DOMAIN dev' = Ports, \A q \in Ports : q # p => dev'[q] = dev[q],
         DOMAIN bad' = Ports, \A q \in Ports : bad[q] => bad'[q]
  PROVE  MassTyped' /\ Quiet' /\ Commanded'
<1> DEFINE q0 == Head(list[p][e])
<1>0. q0.u = 0 \/ (OnStick /\ p = rd.port)
  BY ForgottenServed
<1>1. /\ ListsTyped' /\ q0 \in Queued(e) /\ list'[p][e] = Tail(list[p][e])
      /\ \A f \in Ends : f # e => list'[p][f] = list[p][f]
      /\ \A q \in Ports : q # p => list'[q] = list[q]
  BY ListServed DEF MassTyped
<1>2. /\ DOMAIN status' = Requests
      /\ \A u \in Requests : u # q0.u => status'[u] = status[u]
      /\ q0.u # 2 => rd' = rd
      /\ OnStick => SameRead /\ ReadTyped' /\ rd'.pc = rd.pc
  BY <1>0, StatusServed
<1>3. OnStick' = OnStick /\ rd'.pc = rd.pc
  BY <1>0, <1>2 DEF OnStick
<1>4. MassTyped'
  BY <1>1, <1>2, <1>3 DEF MassTyped
<1>5. OnStick => rd.port \in Ports /\ rd'.port = rd.port
  BY <1>2 DEF MassTyped, ReadTyped, SameRead
<1>6. \A q \in Ports : Silent(q) => Silent(q)'
  <2> SUFFICES ASSUME NEW q \in Ports, Silent(q), NEW f \in Ends
               PROVE  \A i \in DOMAIN list'[q][f] : list'[q][f][i].u = 0
    BY DEF Silent
  <2>1. CASE q = p /\ f = e
    <3> DEFINE s == list[p][e]
    <3>1. s \in Seq(Queued(e)) /\ s # <<>> /\ \A i \in DOMAIN s : s[i].u = 0
      BY <2>1 DEF Silent, MassTyped, ListsTyped
    <3>2. list'[q][f] = Tail(s)
      BY <1>1, <2>1
    <3> HIDE DEF s
    <3> QED BY <3>1, <3>2, TailSilent
  <2>2. CASE ~(q = p /\ f = e)
    BY <1>1, <2>2 DEF Silent
  <2> QED BY <2>1, <2>2
<1>7. Quiet'
  <2>1. ASSUME NEW q \in Ports, ~OnStick' \/ q # rd'.port
        PROVE  Silent(q)' /\ list'[q]["out"] = <<>> /\ (~bad'[q] => Empty(q)' /\ dev'[q] = Ready)
    <3>1. ~OnStick \/ q # rd.port
      BY <1>3, <1>5, <2>1
    <3>2. Silent(q) /\ list[q]["out"] = <<>> /\ (~bad[q] => Empty(q) /\ dev[q] = Ready)
      BY <3>1 DEF Quiet
    <3>3. CASE q = p
      BY <1>1, <1>6, <3>1, <3>2, <3>3, ForgottenServed DEF Ends
    <3>4. CASE q # p
      BY <1>1, <1>6, <3>2, <3>4 DEF Empty
    <3> QED BY <3>3, <3>4
  <2>2. ASSUME rd'.pc \in {"piece", "ret"}
        PROVE  Silent(rd.port)'
    <3>1. OnStick /\ Silent(rd.port)
      BY <1>3, <2>2 DEF Quiet, OnStick
    <3> QED BY <1>5, <1>6, <3>1 DEF Silent
  <2> QED BY <2>1, <2>2 DEF Quiet
<1>8. Commanded'
  <2> SUFFICES ASSUME OnStick'
               PROVE  /\ rd'.pc \in BeforeSense => status'[4] = ""
                      /\ rd'.pc = "wait1" => Waited(1)'
                      /\ rd'.pc = "wait4" => Waited(4)'
                      /\ rd'.pc \notin {"wait1", "wait4"} => list'[rd'.port]["out"] = <<>>
    BY DEF Commanded
  <2>1. /\ rd.pc \in BeforeSense => status[4] = ""
        /\ rd.pc = "wait1" => Waited(1)
        /\ rd.pc = "wait4" => Waited(4)
        /\ rd.pc \notin {"wait1", "wait4"} => list[rd.port]["out"] = <<>>
    BY <1>3 DEF Commanded
  <2> DEFINE l == list[rd.port]["out"]
             l1 == list'[rd.port]["out"]
  <2>2. l \in Seq(Queued("out"))
    BY <1>3, <1>5 DEF MassTyped, ListsTyped, Ends
  <2>3. CASE p = rd.port /\ e = "out"
    <3>1. l1 = Tail(l) /\ l # <<>>
      BY <1>1, <2>3
    <3>2. ASSUME \A i \in DOMAIN l : i = 1
          PROVE  Tail(l) = <<>>
      <4> HIDE DEF l
      <4>1. Len(l) \in Nat /\ DOMAIN l = 1 .. Len(l)
        BY <2>2
      <4>2. Len(l) < 2
        BY <3>2, <4>1
      <4> QED BY <2>2, <3>1, <4>1, <4>2
    <3>3. l1 = <<>>
      BY <2>1, <3>1, <3>2 DEF Waited
    <3>4. list'[rd'.port]["out"] = <<>> /\ DOMAIN <<>> = {}
      BY <1>3, <1>5, <3>3
    <3>5. rd.pc \in BeforeSense => status'[4] = status[4]
      <4>1. l[1] = q0 /\ 1 \in DOMAIN l
        BY <2>2, <2>3, <3>1, TailSilent
      <4>2. rd.pc \in BeforeSense => q0.u = 1
        BY <2>1, <3>1, <4>1 DEF Waited, BeforeSense
      <4> QED BY <1>2, <4>2 DEF Requests
    <3> QED BY <1>3, <2>1, <3>4, <3>5 DEF Waited
  <2>4. CASE ~(p = rd.port /\ e = "out")
    <3>1. l1 = l
      BY <1>1, <1>3, <1>5, <2>4 DEF Ends
    <3>2. q0.u # 1 /\ q0.u # 4
      <4>1. CASE e = "in"
        BY <1>1, <4>1 DEF Queued, Numbers
      <4>2. CASE p # rd.port
        BY <1>0, <4>2
      <4> QED BY <2>4, <4>1, <4>2 DEF Ends
    <3>3. status'[1] = status[1] /\ status'[4] = status[4]
      BY <1>2, <3>2 DEF Requests
    <3> QED BY <1>3, <1>5, <2>1, <3>1, <3>3 DEF Waited
  <2> QED BY <2>3, <2>4
<1> QED BY <1>4, <1>7, <1>8

(* What a stick answers to in each of its states.                          *)
LEMMA AnswersReady ==
  ASSUME NEW p, NEW q, dev[p] = Ready
  PROVE  /\ Accepts(p, "in", q) = {}
         /\ \A a \in Accepts(p, "out", q) : a[1] = "ok" /\ Is(a[2], "data", q.cmd, FALSE, FALSE)
<1> DEFINE d == [dev[p] EXCEPT !.st = "data", !.cmd = q.cmd]
<1>1. Accepts(p, "in", q) = {}
  BY DEF Accepts, Ready
<1>2. Accepts(p, "out", q) = {<<"ok", d>>}
  BY DEF Accepts, Ready
<1>3. Is(d, "data", q.cmd, FALSE, FALSE)
  BY DEF Ready, Is, StickFields
<1> HIDE DEF d
<1>4. \A a \in Accepts(p, "out", q) : a[1] = "ok" /\ a[2] = d
  BY <1>2
<1> QED BY <1>1, <1>3, <1>4, Zenon

LEMMA AnswersData ==
  ASSUME NEW p, NEW q, NEW c, Is(dev[p], "data", c, FALSE, FALSE)
  PROVE  /\ Accepts(p, "out", q) = {}
         /\ q.what = "data" => \A a \in Accepts(p, "in", q) :
              \/ a[1] = "ok" /\ Is(a[2], "csw", c, FALSE, FALSE)
              \/ c[1] = "read" /\ a[1] = STALL /\ Is(a[2], "csw", c, TRUE, TRUE)
              \/ c[1] = "read" /\ a[1] = "short" /\ Is(a[2], "csw", c, TRUE, FALSE)
         /\ q.what = "csw" => \A a \in Accepts(p, "in", q) : a[1] = "overrun"
<1> DEFINE d == dev[p]
           d1 == [d EXCEPT !.st = "csw"]
           d2 == [d EXCEPT !.st = "csw", !.fails = TRUE, !.halt = TRUE]
           d3 == [d EXCEPT !.st = "csw", !.fails = TRUE]
<1>0. d.st = "data" /\ d.cmd = c /\ ~d.halt /\ ~d.fails
  BY DEF Is
<1>1. Accepts(p, "out", q) = {}
  BY <1>0 DEF Accepts
<1>2. ASSUME q.what = "data", NEW a \in Accepts(p, "in", q)
      PROVE  \/ a = <<"ok", d1>>
             \/ c[1] = "read" /\ a = <<STALL, d2>>
             \/ c[1] = "read" /\ a = <<"short", d3>>
  BY <1>0, <1>2 DEF Accepts
<1>3. ASSUME q.what = "csw", NEW a \in Accepts(p, "in", q)
      PROVE  a[1] = "overrun"
  BY <1>0, <1>3 DEF Accepts
<1>4. Is(d1, "csw", c, FALSE, FALSE) /\ Is(d2, "csw", c, TRUE, TRUE) /\ Is(d3, "csw", c, TRUE, FALSE)
  BY DEF Is, StickFields
<1> HIDE DEF d1, d2, d3
<1>5. ASSUME q.what = "data", NEW a \in Accepts(p, "in", q)
      PROVE  \/ a[1] = "ok" /\ a[2] = d1
             \/ c[1] = "read" /\ a[1] = STALL /\ a[2] = d2
             \/ c[1] = "read" /\ a[1] = "short" /\ a[2] = d3
  BY <1>2, <1>5
<1> QED BY <1>1, <1>3, <1>4, <1>5, Zenon

LEMMA AnswersStatus ==
  ASSUME NEW p, NEW q, NEW c, NEW f \in BOOLEAN, NEW h \in BOOLEAN, Is(dev[p], "csw", c, f, h)
  PROVE  /\ Accepts(p, "out", q) = {}
         /\ q.what = "csw" /\ h => \A a \in Accepts(p, "in", q) : a[1] = STALL
         /\ q.what = "csw" /\ ~h => \A a \in Accepts(p, "in", q) :
              \/ a[1] = (IF f THEN "fail" ELSE "ok") /\ a[2] = Ready
              \/ a[1] = STALL
<1> DEFINE d == dev[p]
<1>0. d.st = "csw" /\ d.cmd = c /\ d.halt = h /\ d.fails = f
  BY DEF Is
<1>1. Accepts(p, "out", q) = {}
  BY <1>0 DEF Accepts
<1>2. ASSUME q.what = "csw", h, NEW a \in Accepts(p, "in", q)
      PROVE  a[1] = STALL
  BY <1>0, <1>2 DEF Accepts
<1>3. ASSUME q.what = "csw", ~h, NEW a \in Accepts(p, "in", q)
      PROVE  \/ a[1] = (IF f THEN "fail" ELSE "ok") /\ a[2] = Ready
             \/ a[1] = STALL
  BY <1>0, <1>3 DEF Accepts
<1> QED BY <1>1, <1>2, <1>3

LEMMA AttachedKept ==
  ASSUME Attached, UNCHANGED <<known, devices>>,
         OnStick' => OnStick /\ rd'.port = rd.port /\ rd'.stick = rd.stick,
         \A p \in Ports : plug'[p] # known[p].stick => dev'[p] = Ready
  PROVE  Attached'
BY DEF Attached

LEMMA VolumesKept ==
  ASSUME VolumesKnown, UNCHANGED svars
  PROVE  VolumesKnown'
BY DEF VolumesKnown, VolumeKnown, svars

(* What happens to other sticks does not matter to the read.               *)
LEMMA UnspoiledSame ==
  ASSUME Unspoiled, rd' = rd, status' = status,
         OnStick => /\ list'[rd.port] = list[rd.port] /\ dev'[rd.port] = dev[rd.port]
                    /\ plug'[rd.port] = plug[rd.port] /\ (bad[rd.port] => bad'[rd.port])
  PROVE  Unspoiled'
<1> SUFFICES ASSUME OnStick, ~bad'[rd.port]
             PROVE  InPhase' /\ Unasked' /\ Pieces'
  BY DEF Unspoiled, OnStick
<1>1. InPhase /\ Unasked /\ Pieces
  BY DEF Unspoiled
<1>2. Fetch' = Fetch
  BY DEF Fetch, PieceSize
<1>3. (Free' = Free) /\ (Sent' = Sent) /\ (Taken' = Taken) /\ (Moved' = Moved) /\ (Over' = Over)
  BY <1>2 DEF Free, Sent, Taken, Moved, Over, Came, Wire, Stick, DataPhase, LastPhase
<1>4. (Left' = Left) /\ (AskedLeft' = AskedLeft) /\ (Asked' = Asked) /\ (Ordered' = Ordered)
      /\ (DataAsked' = DataAsked) /\ (Told' = Told) /\ (StatusAsked' = StatusAsked)
  BY <1>2 DEF Left, AskedLeft, Asked, Ordered, DataAsked, Told, StatusAsked, Wire, Stick, LastPhase, Sense
<1>5. InPhase'
  BY <1>1, <1>3, <1>4 DEF InPhase
<1>6. Unasked' /\ Pieces'
  BY <1>1 DEF Unasked, Pieces
<1> QED BY <1>5, <1>6

LEMMA HcErrorStick ==
  ASSUME OneCall, StickInv, UNCHANGED svars, NEW p \in Ports, NEW e \in Ends, HcError(p, e)
  PROVE  StickInv'
<1>1. /\ list[p][e] # <<>> /\ Ended(p, e, "error") /\ UNCHANGED <<plug, dev>>
      /\ bad' = [bad EXCEPT ![p] = TRUE]
  BY DEF HcError, HcServes
<1>2. MassTyped /\ Quiet /\ Commanded /\ Attached /\ VolumesKnown /\ Unspoiled
  BY DEF StickInv
<1>3. DOMAIN bad' = Ports /\ bad'[p] /\ \A q \in Ports : bad[q] => bad'[q]
  BY <1>1, <1>2 DEF MassTyped
<1>4. MassTyped' /\ Quiet' /\ Commanded'
  BY <1>1, <1>2, <1>3, ServedQuiet DEF MassTyped
<1>5. Head(list[p][e]).u = 0 \/ (OnStick /\ p = rd.port)
  BY <1>1, <1>2, ForgottenServed
<1>6. /\ Head(list[p][e]).u # 2 => rd' = rd
      /\ OnStick => SameRead /\ rd'.pc = rd.pc
  BY <1>1, <1>2, <1>5, StatusServed
<1>7. Attached'
  <2>1. UNCHANGED <<known, devices>>
    BY DEF svars
  <2>2. OnStick' => OnStick /\ rd'.port = rd.port /\ rd'.stick = rd.stick
    BY <1>5, <1>6 DEF OnStick, SameRead
  <2>3. \A q \in Ports : plug'[q] # known[q].stick => dev'[q] = Ready
    BY <1>1, <1>2 DEF Attached
  <2> QED BY <1>2, <2>1, <2>2, <2>3, AttachedKept
<1>8. Unspoiled'
  <2>1. CASE OnStick /\ p = rd.port
    BY <1>3, <1>6, <2>1 DEF Unspoiled, SameRead
  <2>2. CASE ~(OnStick /\ p = rd.port)
    <3>1. rd' = rd /\ status' = status
      BY <1>1, <1>5, <1>6, <2>2 DEF Ended
    <3>2. OnStick => list'[rd.port] = list[rd.port]
      BY <1>1, <1>2, <2>2, ListServed DEF MassTyped, ReadTyped
    <3>3. OnStick => (bad[rd.port] => bad'[rd.port])
      BY <1>2, <1>3 DEF MassTyped, ReadTyped
    <3> QED BY <1>1, <1>2, <3>1, <3>2, <3>3, UnspoiledSame
  <2> QED BY <2>1, <2>2
<1> QED BY <1>2, <1>4, <1>7, <1>8, VolumesKept DEF StickInv

LEMMA StatusTaken ==
  ASSUME NEW p, NEW q, NEW c, NEW e \in Ends, NEW f \in BOOLEAN, Is(dev[p], "csw", c, f, FALSE), q.what = "csw" \/ e = "out",
         NEW a \in Accepts(p, e, q), a[1] # STALL
  PROVE  e = "in" /\ a[2] = Ready
<1> DEFINE h == FALSE
<1>1. h \in BOOLEAN /\ ~h
  OBVIOUS
<1> HIDE DEF h
<1>2. Is(dev[p], "csw", c, f, h)
  BY DEF h
<1> QED BY <1>1, <1>2, AnswersStatus DEF Ends

LEMMA Heads ==
  ASSUME NEW a, NEW b
  PROVE  /\ Head(<<a>>) = a /\ Tail(<<a>>) = <<>> /\ <<a>> # <<>>
         /\ Head(<<a, b>>) = a /\ Tail(<<a, b>>) = <<b>> /\ <<a, b>> # <<>>
<1> DEFINE S == {a, b}
<1>1. <<a>> \in Seq(S) /\ <<a, b>> \in Seq(S)
  OBVIOUS
<1> QED BY <1>1

(* A transfer of the stick that is read, without an error: the command     *)
(* goes on to its next phase.                                              *)
LEMMA PhaseMoves ==
  ASSUME MassTyped, OnStick, InPhase, Unasked, Pieces, NEW e \in Ends, list[rd.port][e] # <<>>,
         plug[rd.port] = rd.stick, UNCHANGED plug,
         NEW a \in Accepts(rd.port, e, Head(list[rd.port][e])), Ended(rd.port, e, a[1]),
         dev' = [dev EXCEPT ![rd.port] = a[2]],
         a[1] # "overrun", a[1] = STALL => Head(list[rd.port][e]).what # "csw"
  PROVE  InPhase' /\ Unasked' /\ Pieces'
<1> DEFINE q0 == Head(list[rd.port][e])
           x == list[rd.port]
           x1 == list'[rd.port]
<1>1. rd.port \in Ports /\ dev'[rd.port] = a[2]
  BY DEF MassTyped, ReadTyped
<1>2. /\ SameRead /\ rd'.pc = rd.pc
      /\ q0.u # 2 => rd' = rd
      /\ q0.u = 2 /\ a[1] = "ok" => rd'.data = dev[rd.port].cmd
      /\ \A u \in Requests : u # q0.u => status'[u] = status[u]
      /\ q0.u # 0 => status'[q0.u] = a[1]
  BY <1>1, StatusServed
<1>3. /\ x1[e] = Tail(x[e])
      /\ e = "out" => x1["in"] = x["in"]
      /\ e = "in" => x1["out"] = x["out"]
  BY <1>1, ListServed DEF MassTyped, Ends
<1>4. Fetch' = Fetch /\ rd'.port = rd.port /\ rd'.stick = rd.stick /\ rd'.num = rd.num
  BY <1>2, FetchSame DEF SameRead
<1>5. \A o, i : Wire(o, i)' <=> x1["out"] = o /\ x1["in"] = i
  BY <1>4 DEF Wire
<1>6. \A o, i : Wire(o, i) <=> x["out"] = o /\ x["in"] = i
  BY DEF Wire
<1>7. \A st, c, f, h : /\ Stick(st, c, f, h) => Is(dev[rd.port], st, c, f, h)
                       /\ Is(a[2], st, c, f, h) => Stick(st, c, f, h)'
  BY <1>1, <1>4 DEF Stick
<1>8. /\ a \in Accepts(rd.port, e, q0) /\ a[1] # "overrun" /\ (a[1] = STALL => q0.what # "csw")
      /\ x[e] # <<>> /\ (e = "out" \/ e = "in")
      /\ dev[rd.port] = Ready => e = "out" /\ a[1] = "ok" /\ Is(a[2], "data", q0.cmd, FALSE, FALSE)
  BY AnswersReady DEF Ends
<1>s. /\ q0.u # 1 => status'[1] = status[1]
      /\ q0.u # 2 => status'[2] = status[2]
      /\ q0.u # 3 => status'[3] = status[3]
      /\ q0.u # 4 => status'[4] = status[4]
      /\ q0.u # 5 => status'[5] = status[5]
      /\ q0.u # 6 => status'[6] = status[6]
      /\ q0.u = 1 => status'[1] = a[1]
      /\ q0.u = 2 => status'[2] = a[1]
      /\ q0.u = 3 => status'[3] = a[1]
  <2> HIDE DEF q0
  <2> QED BY <1>2 DEF Requests
<1> HIDE DEF x1
<1>9. ~Free /\ ~Over /\ ~Ordered /\ ~Told
  BY <1>6, <1>8 DEF Free, Over, Ordered, Told
<1>10. ASSUME Sent
       PROVE  Taken' /\ q0.u = 1
  <2>1. e = "out" /\ q0 = Request(1, "cbw", Fetch) /\ Tail(x[e]) = <<>>
    <3>1. e = "out" /\ x[e] = <<Request(1, "cbw", Fetch)>>
      BY <1>6, <1>8, <1>10 DEF Sent
    <3> QED BY <3>1, Heads
  <2>2. q0.u = 1 /\ q0.cmd = Fetch
    BY <2>1 DEF Request
  <2>3. Wire(<<>>, <<DataPhase, LastPhase>>)'
    BY <1>3, <1>5, <1>6, <1>10, <2>1 DEF Sent, DataPhase, LastPhase
  <2>4. Stick("data", Fetch, FALSE, FALSE)'
    BY <1>4, <1>7, <1>8, <1>10, <2>2 DEF Sent
  <2>5. status'[1] = "ok" /\ status'[2] = "" /\ status'[3] = ""
    <3>1. status[2] = "" /\ status[3] = "" /\ a[1] = "ok"
      BY <1>8, <1>10 DEF Sent
    <3>2. status'[1] = a[1] /\ status'[2] = status[2] /\ status'[3] = status[3]
      BY <1>s, <2>2
    <3> QED BY <3>1, <3>2
  <2>6. rd'.num > 0
    BY <1>4, <1>10 DEF Sent
  <2> QED BY <2>2, <2>3, <2>4, <2>5, <2>6 DEF Taken
<1>11. ASSUME Taken
       PROVE  Moved' /\ q0.u = 2
  <2>1. Is(dev[rd.port], "data", Fetch, FALSE, FALSE)
    BY <1>7, <1>11 DEF Taken
  <2>2. e = "in" /\ q0 = DataPhase /\ Tail(x[e]) = <<LastPhase>>
    <3>1. e = "in" /\ x[e] = <<DataPhase, LastPhase>>
      BY <1>6, <1>8, <1>11 DEF Taken
    <3> QED BY <3>1, Heads
  <2>3. q0.u = 2 /\ q0.what = "data"
    BY <2>2 DEF DataPhase, Request
  <2>4. Wire(<<>>, <<LastPhase>>)'
    BY <1>3, <1>5, <1>6, <1>11, <2>2 DEF Taken, LastPhase
  <2>5. \/ a[1] = "ok" /\ Is(a[2], "csw", Fetch, FALSE, FALSE)
        \/ a[1] = STALL /\ Is(a[2], "csw", Fetch, TRUE, TRUE)
        \/ a[1] = "short" /\ Is(a[2], "csw", Fetch, TRUE, FALSE)
    BY <1>8, <2>1, <2>2, <2>3, AnswersData
  <2>6. status'[1] = "ok" /\ status'[2] = a[1] /\ status'[3] = ""
    <3>1. status[1] = "ok" /\ status[3] = ""
      BY <1>11 DEF Taken
    <3>2. status'[1] = status[1] /\ status'[2] = a[1] /\ status'[3] = status[3]
      BY <1>s, <2>3
    <3> QED BY <3>1, <3>2
  <2>7. Is(a[2], "csw", Fetch, a[1] # "ok", a[1] = STALL)
    BY <2>5 DEF Is, STALL
  <2>8. Stick("csw", Fetch, status[2] # "ok", status[2] = STALL)'
    BY <1>1, <1>4, <2>6, <2>7 DEF Stick
  <2>9. Came'
    <3>1. rd'.num > 0
      BY <1>4, <1>11 DEF Taken
    <3> QED BY <1>2, <1>4, <2>1, <2>3, <2>6, <3>1 DEF Came, Is
  <2> QED BY <2>3, <2>4, <2>5, <2>6, <2>8, <2>9 DEF Moved, STALL
<1>12. ASSUME Moved
       PROVE  Over' /\ q0.u = 3 /\ status[2] # STALL
  <2>1. Is(dev[rd.port], "csw", Fetch, status[2] # "ok", status[2] = STALL)
    BY <1>12 DEF Moved, Stick
  <2>2. e = "in" /\ q0 = LastPhase /\ Tail(x[e]) = <<>>
    <3>1. e = "in" /\ x[e] = <<LastPhase>>
      BY <1>6, <1>8, <1>12 DEF Moved
    <3> QED BY <3>1, Heads
  <2>3. q0.u = 3 /\ q0.what = "csw"
    BY <2>2 DEF LastPhase, Request
  <2>4. Wire(<<>>, <<>>)'
    BY <1>3, <1>5, <1>6, <1>12, <2>2 DEF Moved
  <2> DEFINE f == (status[2] # "ok")
             h == (status[2] = STALL)
  <2>5. f \in BOOLEAN /\ h \in BOOLEAN
    OBVIOUS
  <2>6. /\ h => a[1] = STALL
        /\ ~h => (a[1] = (IF f THEN "fail" ELSE "ok") /\ a[2] = Ready) \/ a[1] = STALL
    <3> HIDE DEF f, h
    <3>1. Is(dev[rd.port], "csw", Fetch, f, h)
      BY <2>1 DEF f, h
    <3> QED BY <1>8, <2>2, <2>3, <2>5, <3>1, AnswersStatus
  <2>7. status[2] # STALL /\ a[1] = (IF status[2] = "ok" THEN "ok" ELSE "fail") /\ a[2] = Ready
    BY <1>8, <2>3, <2>6
  <2>8. status'[1] = "ok" /\ status'[2] = status[2] /\ status'[3] = a[1]
    <3>1. status[1] = "ok"
      BY <1>12 DEF Moved
    <3> QED BY <1>s, <2>3, <3>1
  <2>9. Came'
    BY <1>2, <1>4, <1>12, <2>3, <2>8 DEF Came, Moved
  <2> QED BY <1>1, <1>4, <1>12, <2>3, <2>4, <2>7, <2>8, <2>9 DEF Over, Free, Moved
<1>13. ASSUME Left
       PROVE  Free' /\ q0.u = 3
  <2>1. e = "in" /\ q0 = LastPhase /\ Tail(x[e]) = <<>>
    <3>0. Is(dev[rd.port], "csw", Fetch, TRUE, FALSE)
      BY <1>13 DEF Left, Stick
    <3>1. e = "in" /\ x[e] = <<LastPhase>>
      BY <1>6, <1>8, <1>13 DEF Left
    <3> QED BY <3>1, Heads
  <2>2. q0.u = 3 /\ q0.what = "csw"
    BY <2>1 DEF LastPhase, Request
  <2>3. Wire(<<>>, <<>>)'
    BY <1>3, <1>5, <1>6, <1>13, <2>1 DEF Left
  <2>4. Is(dev[rd.port], "csw", Fetch, TRUE, FALSE)
    BY <1>13 DEF Left, Stick
  <2>5. a[2] = Ready
    BY <1>8, <2>1, <2>2, <2>4, StatusTaken
  <2> QED BY <1>1, <1>4, <2>2, <2>3, <2>5 DEF Free
<1>14. ASSUME AskedLeft
       PROVE  Asked' /\ q0.u = 3
  <2>1. Is(dev[rd.port], "csw", Fetch, TRUE, FALSE)
    BY <1>14 DEF AskedLeft, Stick
  <2>2. e = "in" /\ q0 = LastPhase /\ Tail(x[e]) = <<>>
    <3>1. ASSUME e = "out"
          PROVE  FALSE
      <4> DEFINE t == TRUE
      <4>1. t \in BOOLEAN /\ Is(dev[rd.port], "csw", Fetch, t, FALSE)
        BY <2>1
      <4> HIDE DEF t, q0
      <4>2. Accepts(rd.port, "out", q0) = {}
        BY <4>1, AnswersStatus
      <4> QED BY <1>8, <3>1, <4>2
    <3>2. x[e] = <<LastPhase>>
      BY <1>6, <1>8, <1>14, <3>1 DEF AskedLeft
    <3> QED BY <1>8, <3>1, <3>2, Heads
  <2>3. q0.u = 3 /\ q0.what = "csw"
    BY <2>2 DEF LastPhase, Request
  <2>4. Wire(<<Request(4, "cbw", Sense)>>, <<>>)'
    BY <1>3, <1>5, <1>6, <1>14, <2>2 DEF AskedLeft
  <2>5. a[2] = Ready
    BY <1>8, <2>1, <2>2, <2>3, StatusTaken
  <2>6. status'[4] = ""
    <3>1. status[4] = ""
      BY <1>14 DEF AskedLeft
    <3>2. status'[4] = status[4]
      BY <1>s, <2>3
    <3> QED BY <3>1, <3>2
  <2> QED BY <1>1, <1>4, <2>3, <2>4, <2>5, <2>6 DEF Asked, Sense
<1>15. ASSUME Asked
       PROVE  Ordered' /\ q0.u = 4
  <2>1. e = "out" /\ q0 = Request(4, "cbw", Sense) /\ Tail(x[e]) = <<>>
    <3>1. e = "out"
      BY <1>8, <1>15 DEF Asked
    <3>2. x[e] = <<Request(4, "cbw", Sense)>>
      BY <1>6, <1>15, <3>1 DEF Asked
    <3> QED BY <3>1, <3>2, Heads
  <2>2. q0.u = 4 /\ q0.cmd = Sense
    BY <2>1 DEF Request
  <2>3. Wire(<<>>, <<>>)'
    BY <1>3, <1>5, <1>6, <1>15, <2>1 DEF Asked
  <2>4. Is(a[2], "data", Sense, FALSE, FALSE)
    BY <1>8, <1>15, <2>2 DEF Asked
  <2>5. Stick("data", Sense, FALSE, FALSE)'
    BY <1>7, <2>4 DEF Sense
  <2> QED BY <2>2, <2>3, <2>5 DEF Ordered
<1>16. ASSUME DataAsked
       PROVE  Told' /\ q0.u = 5
  <2>1. Is(dev[rd.port], "data", Sense, FALSE, FALSE)
    BY <1>16 DEF DataAsked, Stick
  <2>2. e = "in" /\ q0 = Request(5, "data", <<>>) /\ Tail(x[e]) = <<>>
    <3>1. e = "in" /\ x[e] = <<Request(5, "data", <<>>)>>
      BY <1>6, <1>8, <1>16 DEF DataAsked
    <3> QED BY <3>1, Heads
  <2>3. q0.u = 5 /\ q0.what = "data"
    BY <2>2 DEF Request
  <2>4. Wire(<<>>, <<>>)'
    BY <1>3, <1>5, <1>6, <1>16, <2>2 DEF DataAsked
  <2>5. Sense[1] # "read"
    BY DEF Sense
  <2>6. Is(a[2], "csw", Sense, FALSE, FALSE)
    BY <1>8, <2>1, <2>2, <2>3, <2>5, AnswersData
  <2>7. Stick("csw", Sense, FALSE, FALSE)'
    BY <1>7, <2>6 DEF Sense
  <2> QED BY <2>3, <2>4, <2>7 DEF Told
<1>17. ASSUME StatusAsked
       PROVE  Free' /\ q0.u = 6
  <2>1. Is(dev[rd.port], "csw", Sense, FALSE, FALSE)
    BY <1>17 DEF StatusAsked, Stick
  <2>2. e = "in" /\ q0 = Request(6, "csw", <<>>) /\ Tail(x[e]) = <<>>
    <3>1. e = "in" /\ x[e] = <<Request(6, "csw", <<>>)>>
      BY <1>6, <1>8, <1>17 DEF StatusAsked
    <3> QED BY <3>1, Heads
  <2>3. q0.u = 6 /\ q0.what = "csw"
    BY <2>2 DEF Request
  <2>4. Wire(<<>>, <<>>)'
    BY <1>3, <1>5, <1>6, <1>17, <2>2 DEF StatusAsked
  <2>5. a[2] = Ready
    BY <1>8, <2>1, <2>2, <2>3, StatusTaken
  <2> QED BY <1>1, <1>4, <2>3, <2>4, <2>5 DEF Free
<1>18. InPhase' /\ (q0.u = 1 => rd.pc = "wait1") /\ (q0.u = 4 => rd.pc = "wait4")
       /\ (q0.u = 5 => rd.pc = "wait5") /\ (q0.u = 6 => rd.pc = "wait6")
       /\ q0.u \in 1 .. 6 /\ rd.pc # "idle"
  <2> HIDE DEF q0
  <2>1. CASE rd.pc \in {"piece", "ret", "sense5", "sense6", "clear", "feature"}
    BY <1>9, <1>12, <2>1 DEF InPhase
  <2>2. CASE rd.pc = "wait1"
    BY <1>2, <1>9, <1>10, <1>11, <1>12, <2>2 DEF InPhase
  <2>3. CASE rd.pc = "wait2"
    BY <1>2, <1>9, <1>11, <1>12, <2>3 DEF InPhase
  <2>4. CASE rd.pc = "wait3"
    BY <1>2, <1>9, <1>12, <2>4 DEF InPhase
  <2>5. CASE rd.pc = "sense4"
    BY <1>2, <1>9, <1>13, <2>5 DEF InPhase
  <2>6. CASE rd.pc = "wait4"
    BY <1>2, <1>9, <1>14, <1>15, <2>6 DEF InPhase
  <2>7. CASE rd.pc = "wait5"
    BY <1>2, <1>9, <1>16, <2>7 DEF InPhase
  <2>8. CASE rd.pc = "wait6"
    BY <1>2, <1>9, <1>17, <2>8 DEF InPhase
  <2> QED BY <2>1, <2>2, <2>3, <2>4, <2>5, <2>6, <2>7, <2>8 DEF MassTyped, Places
<1>19. Unasked'
  <2> HIDE DEF q0
  <2> QED BY <1>2, <1>s, <1>18 DEF Unasked
<1>20. Pieces'
  BY <1>2 DEF Pieces, SameRead
<1> QED BY <1>18, <1>19, <1>20

LEMMA HcTransferStick ==
  ASSUME OneCall, StickInv, UNCHANGED svars, NEW p \in Ports, NEW e \in Ends, HcTransfer(p, e)
  PROVE  StickInv'
<1> DEFINE q0 == Head(list[p][e])
<1>1. /\ list[p][e] # <<>> /\ UNCHANGED plug
      /\ plug[p] # 0 /\ (rd.pc = "idle" \/ p # rd.port \/ plug[p] = rd.stick)
  BY DEF HcTransfer, HcServes, Answering
<1>2. PICK a \in Accepts(p, e, q0) :
        /\ Ended(p, e, a[1]) /\ dev' = [dev EXCEPT ![p] = a[2]]
        /\ bad' = [bad EXCEPT ![p] = @ \/ a[1] = "overrun" \/ (a[1] = STALL /\ q0.what = "csw")]
  BY DEF HcTransfer
<1>3. MassTyped /\ Quiet /\ Commanded /\ Attached /\ VolumesKnown /\ Unspoiled
  BY DEF StickInv
<1>4. /\ DOMAIN bad' = Ports /\ \A q \in Ports : bad[q] => bad'[q]
      /\ ~bad'[p] => a[1] # "overrun" /\ (a[1] = STALL => q0.what # "csw")
  BY <1>2, <1>3, Zenon DEF MassTyped
<1>5. DOMAIN dev' = Ports /\ dev'[p] = a[2] /\ \A q \in Ports : q # p => dev'[q] = dev[q]
  BY <1>2, <1>3 DEF MassTyped
<1>6. MassTyped' /\ Quiet' /\ Commanded'
  BY <1>1, <1>2, <1>3, <1>4, <1>5, ServedQuiet
<1>7. (q0.u = 0 /\ e = "in") \/ (OnStick /\ p = rd.port)
  BY <1>1, <1>3, ForgottenServed
<1>8. /\ q0.u # 2 => rd' = rd
      /\ OnStick => SameRead /\ rd'.pc = rd.pc
  BY <1>1, <1>2, <1>3, <1>7, StatusServed
<1>9. Attached'
  <2>1. UNCHANGED <<known, devices>>
    BY DEF svars
  <2>2. OnStick' => OnStick /\ rd'.port = rd.port /\ rd'.stick = rd.stick
    BY <1>7, <1>8 DEF OnStick, SameRead
  <2>3. ASSUME NEW q \in Ports, plug'[q] # known[q].stick
        PROVE  dev'[q] = Ready
    <3>1. dev[q] = Ready
      BY <1>1, <1>3, <2>3 DEF Attached
    <3>2. q # p
      <4>1. ASSUME OnStick, p = rd.port
            PROVE  plug[p] = known[p].stick
        BY <1>1, <1>3, <4>1 DEF Attached, OnStick
      <4>2. ASSUME e = "in", q = p
            PROVE  FALSE
        BY <1>2, <3>1, <4>2, AnswersReady
      <4> QED BY <1>1, <1>7, <2>3, <4>1, <4>2
    <3> QED BY <1>5, <3>1, <3>2
  <2> QED BY <1>3, <2>1, <2>2, <2>3, AttachedKept
<1>10. Unspoiled'
  <2>1. CASE OnStick /\ p = rd.port
    <3> SUFFICES ASSUME ~bad'[p]
                 PROVE  InPhase' /\ Unasked' /\ Pieces'
      BY <1>8, <2>1 DEF Unspoiled, SameRead
    <3>1. InPhase /\ Unasked /\ Pieces
      BY <1>3, <1>4, <2>1 DEF Unspoiled
    <3>2. plug[p] = rd.stick
      BY <1>1, <2>1 DEF OnStick
    <3> QED BY <1>1, <1>2, <1>3, <1>4, <2>1, <3>1, <3>2, PhaseMoves
  <2>2. CASE ~(OnStick /\ p = rd.port)
    <3>1. rd' = rd /\ status' = status
      BY <1>2, <1>7, <1>8, <2>2 DEF Ended
    <3>2. OnStick => list'[rd.port] = list[rd.port] /\ dev'[rd.port] = dev[rd.port]
      BY <1>1, <1>2, <1>3, <1>5, <2>2, ListServed DEF MassTyped, ReadTyped
    <3>3. OnStick => (bad[rd.port] => bad'[rd.port])
      BY <1>3, <1>4 DEF MassTyped, ReadTyped
    <3> QED BY <1>1, <1>3, <3>1, <3>2, <3>3, UnspoiledSame
  <2> QED BY <2>1, <2>2
<1> QED BY <1>3, <1>6, <1>9, <1>10, VolumesKept DEF StickInv

(* What every step of the driver leaves of the rest.                       *)
LEMMA DriverStep ==
  ASSUME StickInv, OnStick, UNCHANGED svars, UNCHANGED <<plug, bad>>,
         rd'.port = rd.port, rd'.stick = rd.stick, rd'.pc \in Places, ReadTyped', ListsTyped',
         DOMAIN dev' = Ports, DOMAIN status' = Requests,
         \A q \in Ports : q # rd.port => list'[q] = list[q] /\ dev'[q] = dev[q],
         plug[rd.port] # rd.stick => dev'[rd.port] = dev[rd.port],
         rd'.pc \in {"piece", "ret"} => Silent(rd.port)',
         Commanded', ~bad[rd.port] => InPhase' /\ Unasked' /\ Pieces'
  PROVE  StickInv'
<1>1. MassTyped /\ Quiet /\ Attached /\ VolumesKnown /\ ReadTyped
  BY DEF StickInv, MassTyped
<1>2. MassTyped'
  BY <1>1 DEF MassTyped
<1>3. OnStick'
  BY DEF OnStick, Places
<1>4. Quiet'
  <2>1. ASSUME NEW q \in Ports, ~OnStick' \/ q # rd'.port
        PROVE  Silent(q)' /\ list'[q]["out"] = <<>> /\ (~bad'[q] => Empty(q)' /\ dev'[q] = Ready)
    <3>1. q # rd.port /\ list'[q] = list[q] /\ dev'[q] = dev[q] /\ bad'[q] = bad[q]
      BY <1>3, <2>1
    <3>2. Silent(q) /\ list[q]["out"] = <<>> /\ (~bad[q] => Empty(q) /\ dev[q] = Ready)
      BY <1>1, <3>1 DEF Quiet
    <3> QED BY <3>1, <3>2 DEF Silent, Empty
  <2> QED BY <2>1 DEF Quiet
<1>5. Attached'
  <2>1. UNCHANGED <<known, devices>>
    BY DEF svars
  <2>2. ASSUME NEW q \in Ports, plug'[q] # known[q].stick
        PROVE  dev'[q] = Ready
    <3>1. dev[q] = Ready
      BY <1>1, <2>2 DEF Attached
    <3>2. q = rd.port => plug[rd.port] # rd.stick
      BY <1>1, <2>2 DEF Attached
    <3> QED BY <3>1, <3>2
  <2> QED BY <1>1, <2>1, <2>2, AttachedKept
<1>6. Unspoiled'
  BY DEF Unspoiled
<1> QED BY <1>1, <1>2, <1>4, <1>5, <1>6, VolumesKept DEF StickInv

LEMMA PhasesSame ==
  ASSUME SameRead, rd'.data = rd.data, UNCHANGED <<list, dev, plug, status>>
  PROVE  /\ (Free' = Free) /\ (Sent' = Sent) /\ (Taken' = Taken) /\ (Moved' = Moved) /\ (Over' = Over)
         /\ (Left' = Left) /\ (AskedLeft' = AskedLeft) /\ (Asked' = Asked) /\ (Ordered' = Ordered)
         /\ (DataAsked' = DataAsked) /\ (Told' = Told) /\ (StatusAsked' = StatusAsked)
<1>1. Fetch' = Fetch /\ rd'.port = rd.port /\ rd'.stick = rd.stick /\ rd'.num = rd.num
  BY FetchSame DEF SameRead
<1>2. (Free' = Free) /\ (Sent' = Sent) /\ (Taken' = Taken) /\ (Moved' = Moved) /\ (Over' = Over)
  BY <1>1 DEF Free, Sent, Taken, Moved, Over, Came, Wire, Stick, DataPhase, LastPhase
<1>3. (Left' = Left) /\ (AskedLeft' = AskedLeft) /\ (Asked' = Asked) /\ (Ordered' = Ordered)
      /\ (DataAsked' = DataAsked) /\ (Told' = Told) /\ (StatusAsked' = StatusAsked)
  BY <1>1 DEF Left, AskedLeft, Asked, Ordered, DataAsked, Told, StatusAsked, Wire, Stick, LastPhase, Sense
<1> QED BY <1>2, <1>3

(* A step that only goes on in the driver's code.                          *)
LEMMA GoesOn ==
  ASSUME StickInv, OnStick, UNCHANGED svars, UNCHANGED <<plug, bad, list, dev, status>>,
         NEW x \in Places \ {"piece", "wait1", "wait4"}, rd' = [rd EXCEPT !.pc = x],
         list[rd.port]["out"] = <<>>, x \in BeforeSense => status[4] = "", x = "ret" => Silent(rd.port),
         ~bad[rd.port] /\ InPhase /\ Unasked => InPhase' /\ Unasked'
  PROVE  StickInv'
<1>1. MassTyped /\ ReadTyped
  BY DEF StickInv, MassTyped
<1>2. SameRead /\ ReadTyped' /\ rd'.pc = x /\ rd'.port = rd.port /\ rd'.stick = rd.stick
  BY <1>1, PcMoves DEF SameRead
<1>3. ListsTyped' /\ DOMAIN dev' = Ports /\ DOMAIN status' = Requests
  BY <1>1 DEF MassTyped, ListsTyped
<1>4. Commanded'
  BY <1>2 DEF Commanded
<1>5. ~bad[rd.port] => InPhase' /\ Unasked' /\ Pieces'
  BY <1>2 DEF StickInv, Unspoiled, Pieces, SameRead
<1>6. rd'.pc \in {"piece", "ret"} => Silent(rd.port)'
  BY <1>2 DEF Silent
<1> QED BY <1>2, <1>3, <1>4, <1>5, <1>6, DriverStep

LEMMA OutEmpty ==
  ASSUME MassTyped, Commanded, OnStick
  PROVE  /\ rd.pc \in BeforeSense => status[4] = ""
         /\ rd.pc \notin {"wait1", "wait4"} => list[rd.port]["out"] = <<>>
         /\ rd.pc = "wait1" /\ status[1] # "" => list[rd.port]["out"] = <<>>
         /\ rd.pc = "wait4" /\ status[4] # "" => list[rd.port]["out"] = <<>>
<1> DEFINE l == list[rd.port]["out"]
<1>1. l \in Seq(Queued("out"))
  BY DEF MassTyped, ListsTyped, ReadTyped, Ends
<1>2. ASSUME \A i \in DOMAIN l : FALSE
      PROVE  l = <<>>
  <2> HIDE DEF l
  <2> QED BY <1>1, <1>2
<1>3. rd.pc = "wait1" /\ status[1] # "" => l = <<>>
  BY <1>2 DEF Commanded, Waited
<1>4. rd.pc = "wait4" /\ status[4] # "" => l = <<>>
  BY <1>2 DEF Commanded, Waited
<1> QED BY <1>3, <1>4 DEF Commanded

LEMMA WaitStick ==
  ASSUME StickInv, UNCHANGED svars, Waits
  PROVE  StickInv'
<1>1. MassTyped /\ Quiet /\ Commanded
  BY DEF StickInv
<1>2. ASSUME Wait("wait1", 1, "wait2")
      PROVE  StickInv'
  <2> DEFINE x == IF status[1] = STALL THEN "clear" ELSE "wait2"
  <2>1. /\ rd.pc = "wait1" /\ status[1] # "" /\ rd' = [rd EXCEPT !.pc = x]
        /\ UNCHANGED <<plug, bad, list, dev, status>>
    BY <1>2 DEF Wait, Await, DriverOnly
  <2>2. x \in Places \ {"piece", "wait1", "wait4"} /\ x # "ret"
    BY DEF Places
  <2>3. OnStick /\ list[rd.port]["out"] = <<>> /\ status[4] = ""
    BY <1>1, <2>1, OutEmpty DEF OnStick, BeforeSense
  <2>4. ASSUME InPhase, Unasked
        PROVE  InPhase' /\ Unasked'
    <3>1. (Taken \/ Moved \/ Over) /\ status[1] = "ok"
      BY <2>1, <2>4 DEF InPhase, Sent, Taken, Moved, Over
    <3>2. rd'.pc = "wait2" /\ SameRead /\ rd'.data = rd.data
      BY <1>1, <2>1, <2>3, <3>1, PcMoves DEF MassTyped, STALL
    <3>3. Taken' \/ Moved' \/ Over'
      BY <2>1, <3>1, <3>2, PhasesSame
    <3>4. InPhase'
      BY <3>2, <3>3 DEF InPhase
    <3> QED BY <2>1, <2>4, <3>2, <3>4 DEF Unasked
  <2> HIDE DEF x
  <2> QED BY <2>1, <2>2, <2>3, <2>4, GoesOn
<1>3. ASSUME Wait("wait2", 2, "wait3")
      PROVE  StickInv'
  <2> DEFINE x == IF status[2] = STALL THEN "clear" ELSE "wait3"
  <2>1. /\ rd.pc = "wait2" /\ status[2] # "" /\ rd' = [rd EXCEPT !.pc = x]
        /\ UNCHANGED <<plug, bad, list, dev, status>>
    BY <1>3 DEF Wait, Await, DriverOnly
  <2>2. x \in Places \ {"piece", "wait1", "wait4"} /\ x # "ret"
    BY DEF Places
  <2>3. OnStick /\ list[rd.port]["out"] = <<>> /\ status[4] = ""
    BY <1>1, <2>1, OutEmpty DEF OnStick, BeforeSense
  <2>4. ASSUME InPhase, Unasked
        PROVE  InPhase' /\ Unasked'
    <3>1. Moved \/ (Over /\ status[2] # STALL)
      BY <2>1, <2>4 DEF InPhase, Taken, Over, STALL
    <3>2. rd'.pc = x /\ SameRead /\ rd'.data = rd.data
      BY <1>1, <2>1, <2>3, PcMoves DEF MassTyped
    <3>3. Moved' \/ (Over' /\ status'[2] # STALL)
      BY <2>1, <3>1, <3>2, PhasesSame
    <3>4. CASE status[2] = STALL
      <4>1. rd'.pc = "clear" /\ status'[2] = STALL
        BY <2>1, <3>2, <3>4
      <4> QED BY <2>1, <2>4, <3>2, <3>3, <4>1 DEF InPhase, Unasked
    <3>5. CASE status[2] # STALL
      <4>1. rd'.pc = "wait3" /\ status'[2] # STALL
        BY <2>1, <3>2, <3>5
      <4> QED BY <2>1, <2>4, <3>2, <3>3, <4>1 DEF InPhase, Unasked
    <3> QED BY <3>4, <3>5
  <2> HIDE DEF x
  <2> QED BY <2>1, <2>2, <2>3, <2>4, GoesOn
<1>4. ASSUME Wait("wait3", 3, "clear")
      PROVE  StickInv'
  <2>1. /\ rd.pc = "wait3" /\ status[3] = STALL /\ rd' = [rd EXCEPT !.pc = "clear"]
        /\ UNCHANGED <<plug, bad, list, dev, status>>
    BY <1>4 DEF Wait, Await, DriverOnly
  <2>2. "clear" \in Places \ {"piece", "wait1", "wait4"}
    BY DEF Places
  <2>3. OnStick /\ list[rd.port]["out"] = <<>> /\ status[4] = ""
    BY <1>1, <2>1, OutEmpty DEF OnStick, BeforeSense
  <2>4. ~InPhase
    BY <2>1 DEF InPhase, Moved, Over, STALL
  <2> QED BY <2>1, <2>2, <2>3, <2>4, GoesOn
<1> QED BY <1>2, <1>3, <1>4 DEF Waits

LEMMA ClearToggleStick ==
  ASSUME StickInv, UNCHANGED svars, ClearToggle
  PROVE  StickInv'
<1>1. MassTyped /\ Quiet /\ Commanded
  BY DEF StickInv
<1>2. /\ rd.pc = "clear" /\ rd' = [rd EXCEPT !.pc = "feature"]
      /\ UNCHANGED <<plug, bad, list, dev, status>>
  BY DEF ClearToggle, DriverOnly
<1>3. "feature" \in Places \ {"piece", "wait1", "wait4"}
  BY DEF Places
<1>4. OnStick /\ list[rd.port]["out"] = <<>> /\ status[4] = ""
  BY <1>1, <1>2, OutEmpty DEF OnStick, BeforeSense
<1>5. ASSUME InPhase, Unasked
      PROVE  InPhase' /\ Unasked'
  <2>1. rd'.pc = "feature" /\ SameRead /\ rd'.data = rd.data
    BY <1>1, <1>2, <1>4, PcMoves DEF MassTyped
  <2>2. Moved' /\ status'[2] = STALL
    BY <1>2, <1>5, <2>1, PhasesSame DEF InPhase
  <2> QED BY <1>2, <1>5, <2>1, <2>2 DEF InPhase, Unasked
<1> QED BY <1>2, <1>3, <1>4, <1>5, GoesOn

LEMMA ReadReturnsStick ==
  ASSUME StickInv, UNCHANGED svars, ReadReturns
  PROVE  StickInv'
<1>1. MassTyped /\ Quiet /\ Commanded
  BY DEF StickInv
<1>2. /\ rd.pc = "piece" /\ rd' = [rd EXCEPT !.pc = "ret"]
      /\ UNCHANGED <<plug, bad, list, dev, status>>
  BY DEF ReadReturns, DriverOnly
<1>3. "ret" \in Places \ {"piece", "wait1", "wait4"} /\ Silent(rd.port)
  BY <1>1, <1>2 DEF Places, Quiet
<1>4. OnStick /\ list[rd.port]["out"] = <<>>
  BY <1>1, <1>2, OutEmpty DEF OnStick
<1>5. ASSUME InPhase, Unasked
      PROVE  InPhase' /\ Unasked'
  <2>1. rd'.pc = "ret" /\ SameRead /\ rd'.data = rd.data
    BY <1>1, <1>2, <1>4, PcMoves DEF MassTyped
  <2>2. Free'
    BY <1>2, <1>5, <2>1, PhasesSame DEF InPhase
  <2> QED BY <2>1, <2>2 DEF InPhase, Unasked
<1> QED BY <1>2, <1>3, <1>4, <1>5, GoesOn DEF BeforeSense

LEMMA SenseWaitStick ==
  ASSUME StickInv, UNCHANGED svars, SenseWait("wait4", 4, "sense5") \/ SenseWait("wait5", 5, "sense6")
  PROVE  StickInv'
<1>1. MassTyped /\ Quiet /\ Commanded
  BY DEF StickInv
<1>2. ASSUME SenseWait("wait4", 4, "sense5")
      PROVE  StickInv'
  <2>1. /\ rd.pc = "wait4" /\ status[4] # "" /\ rd' = [rd EXCEPT !.pc = "sense5"]
        /\ UNCHANGED <<plug, bad, list, dev, status>>
    BY <1>2 DEF SenseWait, Await, DriverOnly
  <2>2. "sense5" \in Places \ {"piece", "wait1", "wait4"}
    BY DEF Places
  <2>3. OnStick /\ list[rd.port]["out"] = <<>>
    BY <1>1, <2>1, OutEmpty DEF OnStick
  <2>4. ASSUME InPhase, Unasked
        PROVE  InPhase' /\ Unasked'
    <3>1. Ordered
      BY <2>1, <2>4 DEF InPhase, AskedLeft, Asked
    <3>2. rd'.pc = "sense5" /\ SameRead /\ rd'.data = rd.data
      BY <1>1, <2>1, <2>3, PcMoves DEF MassTyped
    <3>3. Ordered'
      BY <2>1, <3>1, <3>2, PhasesSame
    <3> QED BY <2>1, <2>4, <3>2, <3>3 DEF InPhase, Unasked
  <2> QED BY <2>1, <2>2, <2>3, <2>4, GoesOn DEF BeforeSense
<1>3. ASSUME SenseWait("wait5", 5, "sense6")
      PROVE  StickInv'
  <2>1. /\ rd.pc = "wait5" /\ status[5] # "" /\ rd' = [rd EXCEPT !.pc = "sense6"]
        /\ UNCHANGED <<plug, bad, list, dev, status>>
    BY <1>3 DEF SenseWait, Await, DriverOnly
  <2>2. "sense6" \in Places \ {"piece", "wait1", "wait4"}
    BY DEF Places
  <2>3. OnStick /\ list[rd.port]["out"] = <<>>
    BY <1>1, <2>1, OutEmpty DEF OnStick
  <2>4. ASSUME InPhase, Unasked
        PROVE  InPhase' /\ Unasked'
    <3>1. Told
      BY <2>1, <2>4 DEF InPhase, DataAsked
    <3>2. rd'.pc = "sense6" /\ SameRead /\ rd'.data = rd.data
      BY <1>1, <2>1, <2>3, PcMoves DEF MassTyped
    <3>3. Told'
      BY <2>1, <3>1, <3>2, PhasesSame
    <3> QED BY <2>1, <2>4, <3>2, <3>3 DEF InPhase, Unasked
  <2> QED BY <2>1, <2>2, <2>3, <2>4, GoesOn DEF BeforeSense
<1> QED BY <1>2, <1>3

LEMMA ClearFeatureStick ==
  ASSUME StickInv, UNCHANGED svars, ClearFeature
  PROVE  StickInv'
<1>1. MassTyped /\ Quiet /\ Commanded /\ Unspoiled
  BY DEF StickInv
<1>2. /\ rd.pc = "feature" /\ rd' = [rd EXCEPT !.pc = "sense4"]
      /\ UNCHANGED <<plug, bad, list, status>>
      /\ dev' = IF plug[rd.port] = rd.stick THEN [dev EXCEPT ![rd.port].halt = FALSE] ELSE dev
  BY DEF ClearFeature
<1>3. OnStick /\ list[rd.port]["out"] = <<>> /\ ReadTyped /\ rd.port \in Ports /\ status[4] = ""
  BY <1>1, <1>2, OutEmpty DEF OnStick, MassTyped, ReadTyped, BeforeSense
<1>4. SameRead /\ ReadTyped' /\ rd'.pc = "sense4" /\ rd'.port = rd.port /\ rd'.stick = rd.stick /\ Fetch' = Fetch
  BY <1>2, <1>3, PcMoves, FetchSame DEF SameRead
<1>5. /\ DOMAIN dev' = Ports /\ (\A q \in Ports : q # rd.port => dev'[q] = dev[q])
      /\ (plug[rd.port] # rd.stick => dev'[rd.port] = dev[rd.port])
      /\ (plug[rd.port] = rd.stick => dev'[rd.port] = [dev[rd.port] EXCEPT !.halt = FALSE])
  BY <1>1, <1>2, <1>3 DEF MassTyped
<1>6. ListsTyped' /\ DOMAIN status' = Requests
  BY <1>1, <1>2 DEF MassTyped, ListsTyped
<1>7. Commanded'
  BY <1>2, <1>3, <1>4 DEF Commanded
<1>8. ASSUME ~bad[rd.port]
      PROVE  InPhase' /\ Unasked' /\ Pieces'
  <2>1. InPhase /\ Unasked /\ Pieces
    BY <1>1, <1>3, <1>8 DEF Unspoiled
  <2>2. Moved /\ status[2] = STALL
    BY <1>2, <2>1 DEF InPhase
  <2>3. Wire(<<>>, <<LastPhase>>)'
    BY <1>2, <1>4, <2>2 DEF Moved, Wire, LastPhase
  <2>4. ASSUME plug[rd.port] = rd.stick
        PROVE  Is(dev'[rd.port], "csw", Fetch, TRUE, FALSE)
    <3>1. Is(dev[rd.port], "csw", Fetch, status[2] # "ok", status[2] = STALL)
      BY <2>2, <2>4 DEF Moved, Stick
    <3>2. status[2] # "ok"
      BY <2>2 DEF STALL
    <3> DEFINE d == dev[rd.port]
    <3>3. StickFields \subseteq DOMAIN d /\ d.st = "csw" /\ d.cmd = Fetch /\ d.fails = TRUE
      BY <3>1, <3>2 DEF Is
    <3> HIDE DEF d
    <3>4. Is([d EXCEPT !.halt = FALSE], "csw", Fetch, TRUE, FALSE)
      BY <3>3 DEF Is, StickFields
    <3> QED BY <1>5, <2>4, <3>4 DEF d
  <2>5. Stick("csw", Fetch, TRUE, FALSE)'
    BY <1>2, <1>4, <2>4 DEF Stick
  <2>6. InPhase'
    BY <1>4, <2>3, <2>5 DEF InPhase, Left
  <2>7. Unasked' /\ Pieces'
    BY <1>2, <1>4, <2>1 DEF Unasked, Pieces, SameRead
  <2> QED BY <2>6, <2>7
<1>9. rd'.pc \in Places /\ rd'.pc \notin {"piece", "ret"}
  BY <1>4 DEF Places
<1> QED BY <1>2, <1>3, <1>4, <1>5, <1>6, <1>7, <1>8, <1>9, DriverStep

(* Requests are queued behind what is there, and are forgotten in place.   *)
LEMMA QueuedBehind ==
  ASSUME ListsTyped, NEW p \in Ports, NEW outs \in Seq(Queued("out")), NEW ins \in Seq(Queued("in")),
         Queue(p, [out |-> outs, in |-> ins])
  PROVE  /\ ListsTyped'
         /\ list'[p]["out"] = list[p]["out"] \o outs /\ list'[p]["in"] = list[p]["in"] \o ins
         /\ \A q \in Ports : q # p => list'[q] = list[q]
<1>1. list' = [list EXCEPT ![p] = [e \in Ends |-> @[e] \o [out |-> outs, in |-> ins][e]]]
  BY DEF Queue
<1>2. DOMAIN list = Ports /\ list[p]["out"] \in Seq(Queued("out")) /\ list[p]["in"] \in Seq(Queued("in"))
  BY DEF ListsTyped, Ends
<1>3. /\ list'[p]["out"] = list[p]["out"] \o outs /\ list'[p]["in"] = list[p]["in"] \o ins
      /\ DOMAIN list' = Ports /\ \A q \in Ports : q # p => list'[q] = list[q]
  BY <1>1, <1>2 DEF Ends
<1>b. Both(list'[p])
  BY <1>1, <1>2 DEF Both
<1>4. list[p]["out"] \o outs \in Seq(Queued("out")) /\ list[p]["in"] \o ins \in Seq(Queued("in"))
  BY <1>2
<1>5. ListsTyped'
  BY <1>3, <1>4, <1>b DEF ListsTyped, Ends
<1> QED BY <1>3, <1>5

LEMMA ForgottenAll ==
  ASSUME ListsTyped, rd.port \in Ports, Forget
  PROVE  /\ ListsTyped'
         /\ \A q \in Ports : q # rd.port => list'[q] = list[q]
         /\ \A e \in Ends : list[rd.port][e] = <<>> => list'[rd.port][e] = <<>>
         /\ \A e \in Ends : \A i \in DOMAIN list'[rd.port][e] : list'[rd.port][e][i].u = 0
<1> DEFINE g(s) == [i \in DOMAIN s |-> [s[i] EXCEPT !.u = 0]]
<1>1. /\ DOMAIN list' = Ports /\ Both(list'[rd.port])
      /\ \A q \in Ports : q # rd.port => list'[q] = list[q]
      /\ \A e \in Ends : list'[rd.port][e] = g(list[rd.port][e])
  BY DEF Forget, ListsTyped, Both
<1>2. ASSUME NEW e \in Ends, NEW s \in Seq(Queued(e))
      PROVE  g(s) \in Seq(Queued(e)) /\ (s = <<>> => g(s) = <<>>) /\ \A i \in DOMAIN g(s) : g(s)[i].u = 0
  <2>1. ASSUME NEW i \in DOMAIN s
        PROVE  [s[i] EXCEPT !.u = 0] \in Queued(e) /\ [s[i] EXCEPT !.u = 0].u = 0
    <3>1. s[i] \in Queued(e)
      BY <1>2, <2>1
    <3>2. 0 \in Numbers(e)
      BY DEF Numbers
    <3> QED BY <3>1, <3>2 DEF Queued
  <2>2. DOMAIN s = 1 .. Len(s) /\ Len(s) \in Nat
    BY <1>2
  <2>3. g(s) \in Seq(Queued(e))
    BY <2>1, <2>2
  <2>4. s = <<>> => g(s) = <<>>
    BY <2>2, <2>3
  <2> QED BY <2>1, <2>3, <2>4
<1>3. \A e \in Ends : list[rd.port][e] \in Seq(Queued(e))
  BY DEF ListsTyped
<1> HIDE DEF g
<1>4. ListsTyped'
  BY <1>1, <1>2, <1>3 DEF ListsTyped
<1> QED BY <1>1, <1>2, <1>3, <1>4

LEMMA PieceSizeIs ==
  ASSUME ReadTyped
  PROVE  /\ PieceSize \in Nat /\ PieceSize <= rd.num /\ (rd.num > PieceSize => PieceSize = MaxPiece)
         /\ Fetch \in {"read"} \X Nat \X Nat
<1>1. rd.num \in Nat /\ rd.lba \in Nat /\ MaxPiece \in Nat
  BY MassAssumption DEF ReadTyped
<1>2. PieceSize \in Nat /\ PieceSize <= rd.num /\ (rd.num > PieceSize => PieceSize = MaxPiece)
  BY <1>1 DEF PieceSize
<1> QED BY <1>1, <1>2 DEF Fetch

LEMMA RequestsTyped ==
  ASSUME ReadTyped
  PROVE  /\ <<Request(1, "cbw", Fetch)>> \in Seq(Queued("out")) /\ <<Request(4, "cbw", Sense)>> \in Seq(Queued("out"))
         /\ <<DataPhase, LastPhase>> \in Seq(Queued("in"))
         /\ <<Request(5, "data", <<>>)>> \in Seq(Queued("in")) /\ <<Request(6, "csw", <<>>)>> \in Seq(Queued("in"))
<1>1. Fetch \in Commands /\ Sense \in Commands /\ <<>> \in Commands
  BY PieceSizeIs, Zenon DEF Commands, Sense
<1>2. Request(1, "cbw", Fetch) \in Queued("out") /\ Request(4, "cbw", Sense) \in Queued("out")
  BY <1>1 DEF Request, Queued, Numbers
<1>3. /\ DataPhase \in Queued("in") /\ LastPhase \in Queued("in")
      /\ Request(5, "data", <<>>) \in Queued("in") /\ Request(6, "csw", <<>>) \in Queued("in")
  BY <1>1 DEF Request, Queued, Numbers, DataPhase, LastPhase
<1>4. \A S : \A a, b \in S : <<a>> \in Seq(S) /\ <<a, b>> \in Seq(S)
  OBVIOUS
<1> QED BY <1>2, <1>3, <1>4, Zenon

LEMMA JoinEmpty ==
  ASSUME NEW S, NEW s \in Seq(S)
  PROVE  <<>> \o s = s /\ s \o <<>> = s /\ <<>> \in Seq(S)
OBVIOUS

LEMMA ReadSectorStick ==
  ASSUME StickInv, UNCHANGED svars, ReadSector
  PROVE  StickInv'
<1> DEFINE outs == <<Request(1, "cbw", Fetch)>>
           ins == <<DataPhase, LastPhase>>
<1>1. MassTyped /\ Quiet /\ Commanded /\ Unspoiled
  BY DEF StickInv
<1>2. /\ rd.pc = "piece" /\ rd' = [rd EXCEPT !.pc = "wait1", !.data = <<>>]
      /\ UNCHANGED <<plug, bad, dev>> /\ status' = NoStatus
      /\ Queue(rd.port, [out |-> outs, in |-> ins])
  BY DEF ReadSector, DriverOnly, Fetch, DataPhase, LastPhase
<1>3. OnStick /\ list[rd.port]["out"] = <<>> /\ ReadTyped /\ rd.port \in Ports
  BY <1>1, <1>2, OutEmpty DEF OnStick, MassTyped, ReadTyped
<1>4. /\ SameRead /\ ReadTyped' /\ rd'.pc = "wait1" /\ rd'.port = rd.port /\ rd'.stick = rd.stick
      /\ Fetch' = Fetch
  BY <1>2, <1>3, ReadBegins, FetchSame DEF SameRead
<1>5. outs \in Seq(Queued("out")) /\ ins \in Seq(Queued("in"))
  BY <1>3, RequestsTyped
<1> HIDE DEF outs, ins
<1>6. /\ ListsTyped'
      /\ list'[rd.port]["out"] = list[rd.port]["out"] \o outs /\ list'[rd.port]["in"] = list[rd.port]["in"] \o ins
      /\ \A q \in Ports : q # rd.port => list'[q] = list[q]
  BY <1>1, <1>2, <1>3, <1>5, QueuedBehind DEF MassTyped
<1>7. list'[rd.port]["out"] = outs
  BY <1>3, <1>5, <1>6, JoinEmpty
<1>8. /\ status'[1] = "" /\ status'[2] = "" /\ status'[3] = "" /\ status'[4] = "" /\ status'[5] = ""
      /\ status'[6] = ""
  <2>1. \A u \in Requests : status'[u] = ""
    BY <1>2 DEF NoStatus
  <2>2. 1 \in Requests /\ 2 \in Requests /\ 3 \in Requests /\ 4 \in Requests /\ 5 \in Requests /\ 6 \in Requests
    BY DEF Requests
  <2> QED BY <2>1, <2>2
<1>9. Commanded'
  <2>1. \A i \in DOMAIN outs : outs[i].u = 1 /\ i = 1
    BY DEF outs, Request
  <2>2. list'[rd'.port]["out"] = outs
    BY <1>4, <1>7
  <2>3. Waited(1)'
    BY <1>8, <2>1, <2>2 DEF Waited
  <2> QED BY <1>4, <1>8, <2>3 DEF Commanded
<1>10. ASSUME ~bad[rd.port]
       PROVE  InPhase' /\ Unasked' /\ Pieces'
  <2>1. Free /\ Pieces
    BY <1>1, <1>2, <1>3, <1>10 DEF Unspoiled, InPhase
  <2>2. list'[rd.port]["in"] = ins
    BY <1>5, <1>6, <2>1, JoinEmpty DEF Free, Wire
  <2>3. Wire(<<Request(1, "cbw", Fetch)>>, <<DataPhase, LastPhase>>)'
    <3>1. list'[rd'.port]["out"] = outs /\ list'[rd'.port]["in"] = ins
      BY <1>4, <1>7, <2>2
    <3> QED BY <1>4, <3>1 DEF Wire, outs, ins, DataPhase, LastPhase
  <2>4. dev'[rd'.port] = Ready
    BY <1>2, <1>4, <2>1 DEF Free
  <2>5. Sent'
    <3>1. rd'.num > 0
      BY <1>4 DEF ReadSector, SameRead
    <3> QED BY <1>8, <2>3, <2>4, <3>1 DEF Sent
  <2>6. Pieces'
    BY <1>4, <2>1 DEF Pieces, SameRead
  <2> QED BY <1>4, <1>8, <2>5, <2>6 DEF InPhase, Unasked
<1>11. rd'.pc \in Places /\ rd'.pc \notin {"piece", "ret"} /\ DOMAIN dev' = Ports /\ DOMAIN status' = Requests
  BY <1>1, <1>2, <1>4 DEF Places, MassTyped, NoStatus
<1> QED BY <1>2, <1>3, <1>4, <1>6, <1>9, <1>10, <1>11, DriverStep

(* The sense is asked for: a command, its data, its status.                *)
LEMMA SenseAsked ==
  ASSUME StickInv, UNCHANGED svars, UNCHANGED <<plug, bad, dev, status>>, OnStick,
         NEW outs \in Seq(Queued("out")), NEW ins \in Seq(Queued("in")), list[rd.port]["out"] = <<>>,
         NEW x \in Places \ (BeforeSense \cup {"piece", "ret"}), rd' = [rd EXCEPT !.pc = x],
         Queue(rd.port, [out |-> outs, in |-> ins]),
         x = "wait4" => status[4] = "" /\ \A i \in DOMAIN outs : outs[i].u = 4 /\ i = 1,
         x # "wait4" => outs = <<>>,
         InPhase /\ Unasked /\ SameRead /\ rd'.pc = x /\ Fetch' = Fetch
           /\ list'[rd.port]["out"] = outs /\ list'[rd.port]["in"] = list[rd.port]["in"] \o ins
         => InPhase' /\ Unasked'
  PROVE  StickInv'
<1>1. MassTyped /\ Quiet /\ Commanded /\ Unspoiled
  BY DEF StickInv
<1>2. ReadTyped /\ rd.port \in Ports /\ DOMAIN dev' = Ports /\ DOMAIN status' = Requests
  BY <1>1 DEF MassTyped, ReadTyped
<1>3. SameRead /\ ReadTyped' /\ rd'.pc = x /\ rd'.port = rd.port /\ rd'.stick = rd.stick /\ Fetch' = Fetch
  BY <1>2, PcMoves, FetchSame DEF SameRead
<1>4. /\ ListsTyped'
      /\ list'[rd.port]["out"] = list[rd.port]["out"] \o outs /\ list'[rd.port]["in"] = list[rd.port]["in"] \o ins
      /\ \A q \in Ports : q # rd.port => list'[q] = list[q]
  BY <1>1, <1>2, QueuedBehind DEF MassTyped
<1>5. list'[rd.port]["out"] = outs
  BY <1>4, JoinEmpty
<1>6. Commanded'
  <2>1. list'[rd'.port]["out"] = outs
    BY <1>3, <1>5
  <2>2. CASE x = "wait4"
    BY <1>3, <2>1, <2>2 DEF Commanded, Waited, BeforeSense
  <2>3. CASE x # "wait4"
    BY <1>3, <2>1, <2>3 DEF Commanded, BeforeSense
  <2> QED BY <2>2, <2>3
<1>7. ASSUME ~bad[rd.port]
      PROVE  InPhase' /\ Unasked' /\ Pieces'
  <2>1. InPhase /\ Unasked /\ Pieces
    BY <1>1, <1>7 DEF Unspoiled
  <2>2. Pieces'
    BY <1>3, <2>1 DEF Pieces, SameRead
  <2> QED BY <1>3, <1>4, <1>5, <2>1, <2>2
<1>8. rd'.pc \in Places /\ rd'.pc \notin {"piece", "ret"}
  BY <1>3
<1> QED BY <1>2, <1>3, <1>4, <1>6, <1>7, <1>8, DriverStep

LEMMA SensePhaseStick ==
  ASSUME StickInv, UNCHANGED svars, RequestSense
  PROVE  StickInv'
<1>1. MassTyped /\ Commanded
  BY DEF StickInv
<1>2. \/ SensePhase("sense4", 4, "cbw", "wait4") \/ SensePhase("sense5", 5, "data", "wait5")
      \/ SensePhase("sense6", 6, "csw", "wait6")
  BY DEF RequestSense
<1>3. rd.pc \in {"sense4", "sense5", "sense6"} /\ UNCHANGED <<plug, bad, dev, status>>
  BY <1>2 DEF SensePhase, DriverOnly
<1>4. OnStick /\ list[rd.port]["out"] = <<>> /\ ReadTyped /\ (rd.pc = "sense4" => status[4] = "")
  BY <1>1, <1>3, OutEmpty DEF OnStick, MassTyped, BeforeSense
<1>5. \A S : <<>> \in Seq(S)
  OBVIOUS
<1>6. CASE SensePhase("sense4", 4, "cbw", "wait4")
  <2> DEFINE outs == <<Request(4, "cbw", Sense)>>
  <2>1. rd.pc = "sense4" /\ rd' = [rd EXCEPT !.pc = "wait4"] /\ Queue(rd.port, [out |-> outs, in |-> <<>>])
    BY <1>6 DEF SensePhase, Sense
  <2>2. outs \in Seq(Queued("out")) /\ \A i \in DOMAIN outs : outs[i].u = 4 /\ i = 1
    <3>1. outs \in Seq(Queued("out"))
      BY <1>4, RequestsTyped
    <3>2. \A i \in DOMAIN outs : outs[i].u = 4 /\ i = 1
      BY DEF Request
    <3> QED BY <3>1, <3>2
  <2> HIDE DEF outs
  <2>3. ASSUME InPhase, Unasked, SameRead, rd'.pc = "wait4", Fetch' = Fetch,
               list'[rd.port]["out"] = outs, list'[rd.port]["in"] = list[rd.port]["in"] \o <<>>
        PROVE  InPhase' /\ Unasked'
    <3>1. list[rd.port]["in"] \in Seq(Queued("in"))
      BY <1>1, <1>4 DEF MassTyped, ListsTyped, ReadTyped, Ends
    <3>2. rd'.port = rd.port /\ rd'.stick = rd.stick /\ list'[rd'.port]["in"] = list[rd.port]["in"]
      BY <2>3, <3>1, JoinEmpty DEF SameRead
    <3>3. Left \/ Free
      BY <2>1, <2>3 DEF InPhase
    <3>4. CASE Left
      <4>1. Wire(<<Request(4, "cbw", Sense)>>, <<LastPhase>>)'
        BY <2>3, <3>2, <3>4 DEF Wire, Left, outs, LastPhase, Sense
      <4>2. Stick("csw", Fetch, TRUE, FALSE)'
        BY <1>3, <2>3, <3>2, <3>4 DEF Stick, Left
      <4>3. AskedLeft'
        BY <1>3, <1>4, <2>1, <4>1, <4>2 DEF AskedLeft
      <4> QED BY <1>3, <2>1, <2>3, <4>3 DEF InPhase, Unasked
    <3>5. CASE Free
      <4>1. Wire(<<Request(4, "cbw", Sense)>>, <<>>)'
        BY <2>3, <3>2, <3>5 DEF Wire, Free, outs, Sense
      <4>2. Asked'
        BY <1>3, <1>4, <2>1, <3>2, <3>5, <4>1 DEF Asked, Free
      <4> QED BY <1>3, <2>1, <2>3, <4>2 DEF InPhase, Unasked
    <3> QED BY <3>3, <3>4, <3>5
  <2>4. "wait4" \in Places \ (BeforeSense \cup {"piece", "ret"}) /\ <<>> \in Seq(Queued("in"))
    BY <1>5 DEF Places, BeforeSense
  <2> QED BY <1>3, <1>4, <2>1, <2>2, <2>3, <2>4, SenseAsked
<1>7. CASE SensePhase("sense5", 5, "data", "wait5")
  <2> DEFINE ins == <<Request(5, "data", <<>>)>>
  <2>1. rd.pc = "sense5" /\ rd' = [rd EXCEPT !.pc = "wait5"] /\ Queue(rd.port, [out |-> <<>>, in |-> ins])
    BY <1>7 DEF SensePhase
  <2>2. ins \in Seq(Queued("in"))
    BY <1>4, RequestsTyped
  <2> HIDE DEF ins
  <2>3. ASSUME InPhase, Unasked, SameRead, rd'.pc = "wait5", Fetch' = Fetch,
               list'[rd.port]["out"] = <<>>, list'[rd.port]["in"] = list[rd.port]["in"] \o ins
        PROVE  InPhase' /\ Unasked'
    <3>1. Ordered
      BY <2>1, <2>3 DEF InPhase
    <3>2. rd'.port = rd.port /\ rd'.stick = rd.stick /\ list'[rd'.port]["in"] = ins /\ list'[rd'.port]["out"] = <<>>
      BY <2>2, <2>3, <3>1, JoinEmpty DEF SameRead, Ordered, Wire
    <3>3. Wire(<<>>, <<Request(5, "data", <<>>)>>)'
      BY <3>2 DEF Wire, ins
    <3>4. Stick("data", Sense, FALSE, FALSE)'
      BY <1>3, <3>1, <3>2 DEF Stick, Ordered, Sense
    <3>5. status'[5] = "" /\ status'[6] = ""
      BY <1>3, <2>1, <2>3 DEF Unasked
    <3>6. DataAsked'
      BY <3>3, <3>4, <3>5 DEF DataAsked
    <3> QED BY <2>3, <3>5, <3>6 DEF InPhase, Unasked
  <2>4. "wait5" \in Places \ (BeforeSense \cup {"piece", "ret"}) /\ <<>> \in Seq(Queued("out"))
    BY <1>5 DEF Places, BeforeSense
  <2> QED BY <1>3, <1>4, <2>1, <2>2, <2>3, <2>4, SenseAsked
<1>8. CASE SensePhase("sense6", 6, "csw", "wait6")
  <2> DEFINE ins == <<Request(6, "csw", <<>>)>>
  <2>1. rd.pc = "sense6" /\ rd' = [rd EXCEPT !.pc = "wait6"] /\ Queue(rd.port, [out |-> <<>>, in |-> ins])
    BY <1>8 DEF SensePhase
  <2>2. ins \in Seq(Queued("in"))
    BY <1>4, RequestsTyped
  <2> HIDE DEF ins
  <2>3. ASSUME InPhase, Unasked, SameRead, rd'.pc = "wait6", Fetch' = Fetch,
               list'[rd.port]["out"] = <<>>, list'[rd.port]["in"] = list[rd.port]["in"] \o ins
        PROVE  InPhase' /\ Unasked'
    <3>1. Told
      BY <2>1, <2>3 DEF InPhase
    <3>2. rd'.port = rd.port /\ rd'.stick = rd.stick /\ list'[rd'.port]["in"] = ins /\ list'[rd'.port]["out"] = <<>>
      BY <2>2, <2>3, <3>1, JoinEmpty DEF SameRead, Told, Wire
    <3>3. Wire(<<>>, <<Request(6, "csw", <<>>)>>)'
      BY <3>2 DEF Wire, ins
    <3>4. Stick("csw", Sense, FALSE, FALSE)'
      BY <1>3, <3>1, <3>2 DEF Stick, Told, Sense
    <3>5. status'[6] = ""
      BY <1>3, <2>1, <2>3 DEF Unasked
    <3>6. StatusAsked'
      BY <3>3, <3>4, <3>5 DEF StatusAsked
    <3> QED BY <2>3, <3>6 DEF InPhase, Unasked
  <2>4. "wait6" \in Places \ (BeforeSense \cup {"piece", "ret"}) /\ <<>> \in Seq(Queued("out"))
    BY <1>5 DEF Places, BeforeSense
  <2> QED BY <1>3, <1>4, <2>1, <2>2, <2>3, <2>4, SenseAsked
<1> QED BY <1>2, <1>6, <1>7, <1>8

(* A piece has been read, or the call returns.                             *)
LEMMA PieceReadIs ==
  ASSUME ReadTyped, PieceRead
  PROVE  /\ rd'.pc = "piece" /\ rd'.port = rd.port /\ rd'.stick = rd.stick
         /\ rd'.from = rd.from /\ rd'.asked = rd.asked
         /\ rd'.lba = rd.lba + PieceSize /\ rd'.num = rd.num - PieceSize
         /\ rd'.got = Append(rd.got, rd.data) /\ ReadTyped'
<1> DEFINE k == PieceSize
<1>1. k \in Nat /\ k <= rd.num
  BY PieceSizeIs
<1>2. rd' = [rd EXCEPT !.pc = "piece", !.lba = @ + k, !.num = @ - k, !.got = Append(@, rd.data)]
  BY DEF PieceRead
<1> HIDE DEF k
<1>3. ReadFields \subseteq DOMAIN rd /\ DOMAIN rd' = DOMAIN rd
  BY <1>2 DEF ReadTyped
<1>4. rd'.pc = "piece" /\ rd'.port = rd.port /\ rd'.stick = rd.stick
  BY <1>2, <1>3 DEF ReadFields
<1>5. rd'.from = rd.from /\ rd'.asked = rd.asked
  BY <1>2, <1>3 DEF ReadFields
<1>6. rd'.lba = rd.lba + k /\ rd'.num = rd.num - k
  BY <1>2, <1>3 DEF ReadFields
<1>7. rd'.got = Append(rd.got, rd.data)
  BY <1>2, <1>3 DEF ReadFields
<1>8. rd.lba + k \in Nat /\ rd.num - k \in Nat
  BY <1>1 DEF ReadTyped
<1>9. ReadTyped'
  BY <1>3, <1>4, <1>5, <1>6, <1>8 DEF ReadTyped
<1> QED BY <1>4, <1>5, <1>6, <1>7, <1>9 DEF k

LEMMA NextPiece ==
  ASSUME ReadTyped, Pieces, PieceRead, rd.num > 0, rd.data = Fetch
  PROVE  Pieces'
<1> DEFINE k == PieceSize
           n == Len(rd.got)
           U == {"read"} \X Nat \X Nat
<1>1. /\ k \in Nat /\ k <= rd.num /\ (rd.num > k => k = MaxPiece) /\ Fetch \in U
      /\ rd.num \in Nat /\ rd.lba \in Nat /\ rd.from \in Nat /\ rd.asked \in Nat /\ MaxPiece \in Nat
  BY PieceSizeIs, MassAssumption DEF ReadTyped
<1>2. /\ rd.lba = rd.from + rd.asked - rd.num /\ rd.lba = rd.from + n * MaxPiece
      /\ rd.got \in Seq(U)
      /\ \A i \in 1 .. n : rd.got[i][2] = rd.from + (i - 1) * MaxPiece
  BY DEF Pieces
<1>3. /\ rd'.from = rd.from /\ rd'.asked = rd.asked
      /\ rd'.lba = rd.lba + k /\ rd'.num = rd.num - k
      /\ rd'.got = Append(rd.got, Fetch)
  BY PieceReadIs
<1>4. Fetch[2] = rd.lba
  BY DEF Fetch
<1> HIDE DEF k, U
<1>5. n \in Nat
  BY <1>2
<1>6. /\ rd'.got \in Seq(U) /\ Len(rd'.got) = n + 1 /\ rd'.got[n + 1] = Fetch
      /\ \A i \in 1 .. n : rd'.got[i] = rd.got[i]
  BY <1>1, <1>2, <1>3
<1> HIDE DEF n
<1>7. (n + 1) * MaxPiece = n * MaxPiece + MaxPiece /\ n * MaxPiece \in Nat
  BY <1>1, <1>5
<1> DEFINE m == n * MaxPiece
<1>8. rd'.lba = rd'.from + rd'.asked - rd'.num
  BY <1>1, <1>2, <1>3
<1>9. rd'.num > 0 => rd'.lba = rd'.from + Len(rd'.got) * MaxPiece
  <2>1. rd'.num > 0 => k = MaxPiece
    BY <1>1, <1>3
  <2>2. rd'.num > 0 => rd'.lba = rd.from + m + MaxPiece
    BY <1>1, <1>2, <1>3, <1>7, <2>1
  <2>3. m \in Nat /\ Len(rd'.got) * MaxPiece = m + MaxPiece
    BY <1>6, <1>7
  <2> HIDE DEF m
  <2> QED BY <1>1, <1>3, <2>2, <2>3
<1>10. ASSUME NEW i \in 1 .. n + 1
       PROVE  rd'.got[i][2] = rd.from + (i - 1) * MaxPiece
  <2>1. CASE i = n + 1
    <3>1. i - 1 = n
      BY <1>5, <2>1
    <3> QED BY <1>2, <1>4, <1>6, <2>1, <3>1
  <2>2. CASE i # n + 1
    <3>1. i \in 1 .. n
      BY <1>5, <2>2
    <3> QED BY <1>2, <1>6, <3>1
  <2> QED BY <2>1, <2>2
<1> QED BY <1>3, <1>6, <1>8, <1>9, <1>10 DEF Pieces, U

(* A call that returns, or goes on to its next piece.                      *)
LEMMA EndsPiece ==
  ASSUME StickInv, OnStick, UNCHANGED svars, UNCHANGED <<plug, bad, dev, status>>, Forget,
         rd'.port = rd.port, rd'.stick = rd.stick, rd'.pc \in {"piece", "ret"}, ReadTyped', list[rd.port]["out"] = <<>>,
         ~bad[rd.port] => Free /\ Pieces'
  PROVE  StickInv'
<1>1. MassTyped /\ ReadTyped /\ rd.port \in Ports
  BY DEF StickInv, MassTyped, ReadTyped
<1>2. /\ ListsTyped'
      /\ \A q \in Ports : q # rd.port => list'[q] = list[q]
      /\ \A e \in Ends : list[rd.port][e] = <<>> => list'[rd.port][e] = <<>>
      /\ \A e \in Ends : \A i \in DOMAIN list'[rd.port][e] : list'[rd.port][e][i].u = 0
  BY <1>1, ForgottenAll DEF MassTyped
<1>3. Silent(rd.port)'
  BY <1>2 DEF Silent
<1>4. list'[rd'.port]["out"] = <<>> /\ (list[rd.port]["in"] = <<>> => list'[rd'.port]["in"] = <<>>)
  BY <1>2 DEF Ends
<1>5. Commanded'
  BY <1>4 DEF Commanded, BeforeSense
<1>6. ASSUME ~bad[rd.port]
      PROVE  InPhase' /\ Unasked' /\ Pieces'
  <2>1. Free'
    BY <1>4, <1>6 DEF Free, Wire
  <2> QED BY <1>6, <2>1 DEF InPhase, Unasked
<1>7. rd'.pc \in Places /\ DOMAIN dev' = Ports /\ DOMAIN status' = Requests
  BY <1>1 DEF Places, MassTyped
<1> QED BY <1>2, <1>3, <1>5, <1>6, <1>7, DriverStep

LEMMA WaitStatusStick ==
  ASSUME StickInv, UNCHANGED svars, WaitStatus
  PROVE  StickInv'
<1>1. MassTyped /\ Commanded /\ Unspoiled
  BY DEF StickInv
<1>2. /\ rd.pc = "wait3" /\ status[3] # "" /\ status[3] # STALL
      /\ UNCHANGED <<plug, bad, dev, status>> /\ Forget
      /\ IF status[3] = "fail" THEN PieceFailed ELSE PieceRead
  BY DEF WaitStatus, Await
<1>3. OnStick /\ list[rd.port]["out"] = <<>> /\ ReadTyped
  BY <1>1, <1>2, OutEmpty DEF OnStick, MassTyped
<1>4. ASSUME ~bad[rd.port]
      PROVE  Over /\ Pieces
  <2>1. InPhase /\ Pieces
    BY <1>1, <1>3, <1>4 DEF Unspoiled
  <2> QED BY <1>2, <2>1 DEF InPhase, Moved
<1>5. CASE status[3] = "fail"
  <2>1. SameRead /\ rd'.pc = "ret" /\ ReadTyped' /\ rd'.port = rd.port /\ rd'.stick = rd.stick
    BY <1>2, <1>3, <1>5, PcMoves DEF PieceFailed, SameRead
  <2>2. ~bad[rd.port] => Free /\ Pieces'
    BY <1>4, <2>1 DEF Over, Pieces, SameRead
  <2> QED BY <1>2, <1>3, <2>1, <2>2, EndsPiece
<1>6. CASE status[3] # "fail"
  <2>1. PieceRead
    BY <1>2, <1>6
  <2>2. rd'.pc = "piece" /\ ReadTyped' /\ rd'.port = rd.port /\ rd'.stick = rd.stick
    BY <1>3, <2>1, PieceReadIs
  <2>3. ASSUME ~bad[rd.port]
        PROVE  Free /\ Pieces'
    <3>1. Free /\ rd.data = Fetch /\ rd.num > 0
      BY <1>4, <1>6, <2>3 DEF Over, Came
    <3> QED BY <1>3, <1>4, <2>1, <2>3, <3>1, NextPiece
  <2> QED BY <1>2, <1>3, <2>2, <2>3, EndsPiece
<1> QED BY <1>5, <1>6

LEMMA SenseDoneStick ==
  ASSUME StickInv, UNCHANGED svars, SenseDone
  PROVE  StickInv'
<1>1. MassTyped /\ Commanded /\ Unspoiled
  BY DEF StickInv
<1>2. /\ rd.pc = "wait6" /\ status[6] # ""
      /\ UNCHANGED <<plug, bad, dev, status>> /\ Forget /\ PieceFailed
  BY DEF SenseDone, Await
<1>3. OnStick /\ list[rd.port]["out"] = <<>> /\ ReadTyped
  BY <1>1, <1>2, OutEmpty DEF OnStick, MassTyped
<1>4. SameRead /\ rd'.pc = "ret" /\ ReadTyped' /\ rd'.port = rd.port /\ rd'.stick = rd.stick
  BY <1>2, <1>3, PcMoves DEF PieceFailed, SameRead
<1>5. ASSUME ~bad[rd.port]
      PROVE  Free /\ Pieces'
  <2>1. InPhase /\ Pieces
    BY <1>1, <1>3, <1>5 DEF Unspoiled
  <2>2. Free
    BY <1>2, <2>1 DEF InPhase, StatusAsked
  <2> QED BY <1>4, <2>1, <2>2 DEF Pieces, SameRead
<1> QED BY <1>2, <1>3, <1>4, <1>5, EndsPiece

-----------------------------------------------------------------------------
(* Steps that leave the sticks and their read alone.                       *)
LEMMA WireSame ==
  ASSUME StickInv, UNCHANGED <<plug, dev, list, status, rd, bad>>
  PROVE  MassTyped' /\ Quiet' /\ Commanded' /\ Unspoiled'
<1>1. MassTyped' /\ Quiet' /\ Commanded'
  BY DEF StickInv, MassTyped, ListsTyped, ReadTyped, OnStick, Quiet, Silent, Empty, Commanded, Waited
<1>2. Unspoiled'
  BY UnspoiledSame DEF StickInv
<1> QED BY <1>1, <1>2

LEMMA StickSame ==
  ASSUME StickInv, UNCHANGED <<plug, dev, list, status, rd, bad, known, devices>>, VolumesKnown'
  PROVE  StickInv'
<1>1. Attached'
  BY DEF StickInv, Attached, OnStick
<1> QED BY <1>1, WireSame DEF StickInv

(* The volume of a file, and of a call, has been a device's since it was   *)
(* one of theirs.                                                          *)
LEMMA VolumesMove ==
  ASSUME VolumesKnown, \A m \in Volumes : mounts[m].dev \in Drives => mounts'[m].dev \in Drives,
         \A f \in FDs : fds'[f].ops = "fat" => fds'[f] = fds[f] \/ VolumeKnown(fds'[f].vol),
         call'.op # "none" /\ call'.step \in Steps =>
           call'.vol \in Volumes /\ mounts'[call'.vol].dev \in Drives
  PROVE  VolumesKnown'
<1>1. ASSUME NEW f \in FDs, fds'[f].ops = "fat"
      PROVE  VolumeKnown(fds'[f].vol)
  BY <1>1 DEF VolumesKnown
<1> QED BY <1>1 DEF VolumesKnown, VolumeKnown

LEMMA CallMoves ==
  ASSUME StickInv, UNCHANGED <<plug, dev, list, status, rd, bad, known, devices, mounts>>,
         \A f \in FDs : fds'[f].ops = "fat" => fds'[f] = fds[f] \/ VolumeKnown(fds'[f].vol),
         call'.op # "none" /\ call'.step \in Steps => VolumeKnown(call'.vol)
  PROVE  StickInv'
<1>1. VolumesKnown'
  BY VolumesMove DEF StickInv, VolumeKnown
<1> QED BY <1>1, StickSame

LEMMA HcFrameStick ==
  ASSUME StickInv, UNCHANGED svars, HcFrame
  PROVE  StickInv'
<1>1. UNCHANGED <<plug, dev, list, status, rd, bad>>
  BY DEF HcFrame
<1>2. UNCHANGED <<known, devices>> /\ VolumesKnown'
  BY VolumesKept DEF StickInv, svars
<1> QED BY <1>1, <1>2, StickSame

LEMMA MassStepStick ==
  ASSUME MountsInv, StickInv, MassSteps
  PROVE  StickInv'
<1>1. MassStep /\ UNCHANGED svars /\ OneCall
  BY DEF MassSteps, MountsInv
<1>2. CASE MassDriver
  <2>1. CASE SenseWaits
    BY <1>1, <2>1, SenseWaitStick, SenseDoneStick, Zenon DEF SenseWaits
  <2> QED BY <1>1, <1>2, <2>1, ReadSectorStick, WaitStick, WaitStatusStick, ClearToggleStick, ClearFeatureStick,
       SensePhaseStick, ReadReturnsStick, Zenon DEF MassDriver
<1>3. CASE HcStep
  BY <1>1, <1>3, HcFrameStick, HcTransferStick, HcErrorStick, Zenon DEF HcStep
<1> QED BY <1>1, <1>2, <1>3, Zenon DEF MassStep

LEMMA IdleCallStick ==
  ASSUME StickInv, UNCHANGED <<ivars, mvars, known, devices, mounts, fds>>,
         call'.op = "none" \/ call'.step \notin Steps \/ (call'.vol = call.vol /\ call.op # "none" /\ call.step \in Steps)
  PROVE  StickInv'
<1>1. UNCHANGED <<plug, dev, list, status, rd, bad>>
  BY DEF mvars
<1>2. call'.op # "none" /\ call'.step \in Steps => VolumeKnown(call'.vol)
  BY DEF StickInv, VolumesKnown
<1> QED BY <1>1, <1>2, CallMoves

LEMMA CallsStick ==
  ASSUME MountsInv, StickInv, Calls
  PROVE  StickInv'
<1>0. NoCall.op = "none" /\ "look" \notin Steps /\ "iso" \notin Steps
  BY DEF NoCall, Steps
<1>1. ASSUME NEW at, NEW file, Open(at, file)
      PROVE  StickInv'
  <2>1. UNCHANGED <<plug, dev, list, status, rd, bad, known, devices, mounts, fds>>
    BY <1>1 DEF Open, Same, mvars
  <2>2. call' = NoCall \/ call'.step = "look"
    BY <1>1 DEF Open
  <2>3. call'.op # "none" /\ call'.step \in Steps => VolumeKnown(call'.vol)
    BY <1>0, <2>2
  <2> QED BY <2>1, <2>3, CallMoves
<1>2. ASSUME NEW f \in given, NEW n, Read(f, n)
      PROVE  StickInv'
  <2>1. UNCHANGED <<plug, dev, list, status, rd, bad, known, devices, mounts, fds>> /\ call = NoCall /\ f \in FDs
    BY <1>2 DEF Read, Same, mvars, AtRest, MountsInv, Tables
  <2>2. CASE fds[f].ops = "fat"
    <3>1. call'.vol = fds[f].vol
      BY <1>2, <2>2 DEF Read, VolumeOf
    <3>2. VolumeKnown(call'.vol)
      BY <2>1, <2>2, <3>1 DEF StickInv, VolumesKnown
    <3> QED BY <2>1, <3>2, CallMoves
  <2>3. CASE fds[f].ops # "fat"
    <3>1. call' = NoCall \/ call'.step = "iso"
      BY <1>2, <2>1, <2>3 DEF Read
    <3>2. call'.op # "none" /\ call'.step \in Steps => VolumeKnown(call'.vol)
      BY <1>0, <3>1
    <3> QED BY <2>1, <3>2, CallMoves
  <2> QED BY <2>2, <2>3
<1>3. ASSUME NEW f \in given, CloseFD(f)
      PROVE  StickInv'
  <2>1. UNCHANGED <<plug, dev, list, status, rd, bad, known, devices, mounts, call>>
        /\ fds' = [fds EXCEPT ![f] = NoFile] /\ DOMAIN fds = FDs /\ call = NoCall
    BY <1>3 DEF CloseFD, Same, mvars, AtRest, MountsInv, Tables
  <2>2. \A g \in FDs : fds'[g].ops = "fat" => fds'[g] = fds[g]
    BY <2>1 DEF NoFile
  <2> QED BY <1>0, <2>1, <2>2, CallMoves
<1>4. ASSUME NEW f, NEW w, NEW o, LSeek(f, w, o)
      PROVE  StickInv'
  <2>1. UNCHANGED <<plug, dev, list, status, rd, bad, known, devices, mounts, fds, call>> /\ call = NoCall
    BY <1>4 DEF LSeek, Same, mvars, AtRest
  <2> QED BY <1>0, <2>1, CallMoves
<1> QED BY <1>1, <1>2, <1>3, <1>4, Zenon DEF Calls

LEMMA LookStick ==
  ASSUME MountsInv, StickInv, OpenOn
  PROVE  StickInv'
<1> DEFINE m == Lowest(Matching)
<1>0. NoCall.op = "none" /\ "look" \notin Steps /\ "iso" \notin Steps
  BY DEF NoCall, Steps
<1>1. /\ UNCHANGED <<plug, dev, list, status, rd, bad, known, devices, mounts>>
      /\ call.op = "open" /\ call.step = "look" /\ Matching # {}
  BY DEF OpenOn, Same, mvars
<1>2. m \in Volumes
  <2>1. Matching \subseteq Nat
    <3>1. NUM_VOLUMES \in Nat
      BY StorageAssumption, Zenon DEF StorageAssumption
    <3> QED BY <3>1 DEF Matching, Volumes
  <2>2. m \in Matching
    BY <1>1, <2>1, LowestIs, Zenon
  <2> QED BY <2>2 DEF Matching
<1>3. \/ UNCHANGED <<fds, call>>
      \/ fds' = [fds EXCEPT ![call.fd] = [ops |-> "console"]] /\ call' = NoCall
      \/ UNCHANGED fds /\ call' = [call EXCEPT !.vol = m]
      \/ UNCHANGED fds /\ call' = [call EXCEPT !.vol = m, !.step = "iso"]
      \/ UNCHANGED fds /\ call' = [call EXCEPT !.vol = m, !.step = "fat"] /\ mounts[m].ops = "fat"
  <2>1. mounts[m].ops \in {"", "console", "iso9660", "fat"}
    <3> HIDE DEF m
    <3> QED BY <1>2 DEF MountsInv, Tables, MountEntry
  <2>2. CASE mounts[m].ops = ""
    BY <2>2 DEF OpenOn
  <2>3. CASE mounts[m].ops = "console"
    BY <2>3 DEF OpenOn
  <2>4. CASE mounts[m].ops = "iso9660"
    BY <2>4 DEF OpenOn
  <2>5. CASE mounts[m].ops = "fat"
    BY <2>5 DEF OpenOn
  <2> QED BY <2>1, <2>2, <2>3, <2>4, <2>5
<1> HIDE DEF m
<1>4. call \in Opening_
  BY <1>1, CallKinds DEF MountsInv
<1>5. CASE UNCHANGED <<fds, call>>
  BY <1>0, <1>1, <1>5, CallMoves
<1>6. CASE fds' = [fds EXCEPT ![call.fd] = [ops |-> "console"]] /\ call' = NoCall
  <2>1. \A f \in FDs : fds'[f].ops = "fat" => fds'[f] = fds[f]
    BY <1>6 DEF MountsInv, Tables
  <2> QED BY <1>0, <1>1, <1>6, <2>1, CallMoves
<1>7. CASE UNCHANGED fds /\ (call' = [call EXCEPT !.vol = m] \/ call' = [call EXCEPT !.vol = m, !.step = "iso"])
  <2>1. call'.step \notin Steps
    BY <1>0, <1>1, <1>4, <1>7 DEF Opening_
  <2> QED BY <1>1, <1>7, <2>1, CallMoves
<1>8. CASE UNCHANGED fds /\ call' = [call EXCEPT !.vol = m, !.step = "fat"] /\ mounts[m].ops = "fat"
  <2>1. call'.vol = m
    BY <1>4, <1>8 DEF Opening_
  <2>2. m # 0
    BY <1>8 DEF MountsInv, Tables
  <2>3. VolumeKnown(m)
    BY <1>2, <1>8, <2>2 DEF VolumeKnown, MountsInv, Paired
  <2> QED BY <1>1, <1>8, <2>1, <2>3, CallMoves
<1> QED BY <1>3, <1>5, <1>6, <1>7, <1>8

LEMMA OpenedStick ==
  ASSUME MountsInv, StickInv, IsoOpened \/ FatOpened
  PROVE  StickInv'
<1>0. NoCall.op = "none" /\ "look" \notin Steps /\ "done" \in Steps
  BY DEF NoCall, Steps
<1>1. UNCHANGED <<plug, dev, list, status, rd, bad, known, devices, mounts>> /\ call.op = "open"
  BY DEF IsoOpened, FatOpened, Same, mvars
<1>2. call \in Opening_ /\ DOMAIN fds = FDs
  BY <1>1, CallKinds DEF MountsInv, Tables
<1>3. ASSUME NEW file, NEW found, Opens(file, found), file.ops = "fat" => VolumeKnown(file.vol)
      PROVE  StickInv'
  <2>1. call' = NoCall \/ call'.step = "look"
    BY <1>2, <1>3 DEF Opens, Opening_
  <2>2. \A f \in FDs : fds'[f] = fds[f] \/ fds'[f] = file
    BY <1>2, <1>3 DEF Opens
  <2>3. call'.op # "none" /\ call'.step \in Steps => VolumeKnown(call'.vol)
    BY <1>0, <2>1
  <2>4. \A f \in FDs : fds'[f].ops = "fat" => fds'[f] = fds[f] \/ VolumeKnown(fds'[f].vol)
    BY <1>3, <2>2
  <2> QED BY <1>1, <2>3, <2>4, CallMoves
<1>4. CASE IsoOpened
  <2>1. Opens([ops |-> "iso9660", h |-> iso.ret], iso.ret > 0)
    BY <1>4 DEF IsoOpened
  <2>2. [ops |-> "iso9660", h |-> iso.ret].ops # "fat"
    OBVIOUS
  <2> QED BY <1>3, <2>1, <2>2, Zenon
<1>5. CASE FatOpened
  <2>1. PICK found \in BOOLEAN : Opens([ops |-> "fat", vol |-> call.vol], found)
    BY <1>5 DEF FatOpened
  <2>2. VolumeKnown(call.vol)
    BY <1>0, <1>1, <1>5 DEF FatOpened, StickInv, VolumesKnown
  <2>3. VolumeKnown([ops |-> "fat", vol |-> call.vol].vol)
    BY <2>2
  <2> QED BY <1>3, <2>1, <2>3, Zenon
<1> QED BY <1>4, <1>5

LEMMA DoneStick ==
  ASSUME MountsInv, StickInv, NoSuchFile \/ FatMounted \/ HasRead \/ FatCached
  PROVE  StickInv'
<1>0. NoCall.op = "none" /\ "fat" \in Steps
  BY DEF NoCall, Steps
<1>1. UNCHANGED <<plug, dev, list, status, rd, bad, known, devices, mounts, fds>>
  BY DEF NoSuchFile, FatMounted, HasRead, FatCached, Same, mvars
<1>2. CASE NoSuchFile \/ FatMounted \/ HasRead
  <2>1. call' = NoCall
    BY <1>2 DEF NoSuchFile, FatMounted, HasRead
  <2> QED BY <1>0, <1>1, <2>1, CallMoves
<1>3. CASE FatCached
  <2>1. call.op # "none" /\ call.step = "fat" /\ call' = [call EXCEPT !.step = "done"]
    BY <1>3 DEF FatCached
  <2>2. call'.vol = call.vol
    BY <2>1
  <2>3. VolumeKnown(call'.vol)
    BY <1>0, <2>1, <2>2 DEF StickInv, VolumesKnown
  <2> QED BY <1>1, <2>3, CallMoves
<1> QED BY <1>2, <1>3

(* A read begins on the stick the daemon knows, and which is free.         *)
LEMMA StartStickStick ==
  ASSUME StickInv, ~OnStick, NEW p \in Ports, known[p].stick # 0, NEW count \in Nat \ {0},
         StartStick(p, known[p].stick, 0, count),
         UNCHANGED <<plug, dev, list, status, bad, known, devices, mounts, fds>>, VolumesKnown'
  PROVE  StickInv'
<1>1. /\ rd'.pc = "piece" /\ rd'.port = p /\ rd'.stick = known[p].stick /\ rd'.lba = 0 /\ rd'.num = count
      /\ rd'.from = 0 /\ rd'.asked = count /\ rd'.got = <<>> /\ ReadFields \subseteq DOMAIN rd'
  BY DEF StartStick, ReadFields
<1>2. OnStick' /\ rd'.pc \in Places
  BY <1>1 DEF OnStick, Places
<1>3. /\ Silent(p) /\ list[p]["out"] = <<>> /\ (~bad[p] => Empty(p) /\ dev[p] = Ready)
      /\ \A q \in Ports : Silent(q) /\ list[q]["out"] = <<>> /\ (~bad[q] => Empty(q) /\ dev[q] = Ready)
  BY DEF StickInv, Quiet
<1>4. MassTyped'
  <2>1. ReadTyped'
    BY <1>1 DEF ReadTyped
  <2>2. ListsTyped'
    BY DEF StickInv, MassTyped, ListsTyped
  <2> QED BY <1>2, <2>1, <2>2 DEF StickInv, MassTyped
<1>5. Quiet'
  BY <1>1, <1>3 DEF Quiet, Silent, Empty
<1>6. Commanded'
  BY <1>1, <1>3 DEF Commanded, BeforeSense
<1>7. Attached'
  BY <1>1 DEF StickInv, Attached
<1>8. Unspoiled'
  <2>1. SUFFICES ASSUME ~bad[p] PROVE InPhase' /\ Unasked' /\ Pieces'
    BY <1>1 DEF Unspoiled
  <2>2. Free'
    BY <1>1, <1>3, <2>1 DEF Free, Wire, Empty
  <2>3. InPhase' /\ Unasked'
    BY <1>1, <2>2 DEF InPhase, Unasked
  <2>4. Pieces'
    <3>1. MaxPiece \in Nat
      BY MassAssumption
    <3> QED BY <1>1, <3>1 DEF Pieces
  <2> QED BY <2>3, <2>4
<1> QED BY <1>4, <1>5, <1>6, <1>7, <1>8 DEF StickInv

LEMMA AskStick ==
  ASSUME MountsInv, StickInv, rd.pc = "idle", call.op # "none", call.step \in Steps,
         NEW step \in Steps, NEW count \in Nat \ {0}, AskDevice(step, count),
         UNCHANGED <<plug, dev, list, status, bad, known, devices, mounts, fds>>
  PROVE  StickInv'
<1> DEFINE d == mounts[call.vol].dev
<1>1. d \in Drives /\ VolumeKnown(call.vol)
  BY DEF StickInv, VolumesKnown, VolumeKnown
<1>2. CASE devices[d].ops = "stick"
  <2>1. /\ StartStick(devices[d].port, devices[d].stick, 0, count)
        /\ call' = [call EXCEPT !.step = step]
    BY <1>2, Zenon DEF AskDevice
  <2>2. call'.vol = call.vol
    BY <2>1
  <2> HIDE DEF d
  <2>3. devices[d].port \in Ports /\ devices[d].stick = known[devices[d].port].stick /\ devices[d].stick # 0
    BY <1>1, <1>2 DEF StickInv, Attached
  <2>4. VolumesKnown'
    BY <1>1, <2>2, VolumesMove DEF StickInv, VolumeKnown
  <2> QED BY <2>1, <2>3, <2>4, StartStickStick DEF OnStick
<1>3. CASE devices[d].ops # "stick"
  <2>1. UNCHANGED <<rd, call>>
    BY <1>3 DEF AskDevice
  <2> HIDE DEF d
  <2> QED BY <1>1, <2>1, CallMoves
<1> QED BY <1>2, <1>3

LEMMA FatReadsStick ==
  ASSUME MountsInv, StickInv, FatReads \/ FatReadsOne
  PROVE  StickInv'
<1>1. {"fat", "one", "ahead", "single"} \subseteq Steps /\ Ahead \in Nat \ {0}
  BY StorageAssumption DEF Steps
<1>2. /\ rd.pc = "idle" /\ call.op # "none"
      /\ UNCHANGED <<plug, dev, list, status, bad, known, devices, mounts, fds>>
  BY DEF FatReads, FatReadsOne, Same
<1>3. CASE FatReads
  BY <1>1, <1>2, <1>3, AskStick DEF FatReads
<1>4. CASE FatReadsOne
  BY <1>1, <1>2, <1>4, AskStick DEF FatReadsOne
<1> QED BY <1>3, <1>4

LEMMA FatHasReadStick ==
  ASSUME MountsInv, StickInv, FatHasRead
  PROVE  StickInv'
<1>1. /\ rd.pc = "ret" /\ rd' = NotReading /\ status' = NoStatus /\ call.op # "none"
      /\ UNCHANGED <<plug, dev, list, bad, known, devices, mounts, fds>>
      /\ \E s \in Steps : call' = [call EXCEPT !.step = s]
  BY DEF FatHasRead, Same, Steps
<1>2. OnStick /\ ~OnStick' /\ rd.pc \notin {"wait1", "wait4"}
  BY <1>1 DEF OnStick, NotReading
<1>3. ReadTyped /\ list[rd.port]["out"] = <<>> /\ Silent(rd.port)
  BY <1>1, <1>2, OutEmpty DEF StickInv, MassTyped, Quiet
<1>4. MassTyped'
  <2>1. ListsTyped' /\ DOMAIN status' = Requests
    BY <1>1 DEF StickInv, MassTyped, ListsTyped, NoStatus
  <2> QED BY <1>1, <1>2, <2>1 DEF StickInv, MassTyped
<1>5. Quiet'
  <2>1. ASSUME NEW q \in Ports
        PROVE  Silent(q) /\ list[q]["out"] = <<>> /\ (~bad[q] => Empty(q) /\ dev[q] = Ready)
    <3>1. CASE q = rd.port
      <4>1. ~bad[q] => Free
        BY <1>1, <1>2, <3>1 DEF StickInv, Unspoiled, InPhase
      <4> QED BY <1>3, <3>1, <4>1 DEF Free, Wire, Empty
    <3>2. CASE q # rd.port
      BY <3>2 DEF StickInv, Quiet
    <3> QED BY <3>1, <3>2
  <2>2. rd'.pc = "idle"
    BY <1>1 DEF NotReading
  <2> QED BY <1>1, <2>1, <2>2 DEF Quiet, Silent, Empty
<1>6. Commanded' /\ Unspoiled'
  BY <1>2 DEF Commanded, Unspoiled
<1>7. Attached'
  BY <1>1, <1>2 DEF StickInv, Attached
<1>8. VolumesKnown'
  <2>1. call.step \in Steps
    BY <1>2 DEF MountsInv, OneCall, Steps
  <2>2. call'.vol = call.vol
    BY <1>1
  <2> QED BY <1>1, <2>1, <2>2, VolumesMove DEF StickInv, VolumesKnown, VolumeKnown
<1> QED BY <1>4, <1>5, <1>6, <1>7, <1>8 DEF StickInv

LEMMA InCallStick ==
  ASSUME MountsInv, StickInv, InCall
  PROVE  StickInv'
BY DoneStick, LookStick, OpenedStick, FatReadsStick, FatHasReadStick, Zenon DEF InCall
-----------------------------------------------------------------------------
(* The user and the daemon.                                                *)
LEMMA PluggedStick ==
  ASSUME StickInv, plug \in [Ports -> Nat], NEW p \in Ports, (~OnStick /\ PlugIn(p)) \/ PullOut(p), UNCHANGED svars
  PROVE  StickInv'
<1>1. /\ UNCHANGED <<list, status, rd, bad>> /\ dev' = [dev EXCEPT ![p] = Ready]
      /\ \A q \in Ports : q # p => plug'[q] = plug[q]
  BY DEF PlugIn, PullOut
<1>2. OnStick => plug'[p] = 0
  BY DEF PullOut
<1>3. MassTyped'
  BY <1>1 DEF StickInv, MassTyped, ListsTyped, ReadTyped, OnStick
<1>4. dev'[p] = Ready /\ \A q \in Ports : q # p => dev'[q] = dev[q]
  BY <1>1 DEF StickInv, MassTyped
<1>5. Quiet' /\ Commanded'
  BY <1>1, <1>4 DEF StickInv, Quiet, Silent, Empty, Commanded, Waited, OnStick
<1>6. Attached'
  <2>1. UNCHANGED <<known, devices>>
    BY DEF svars
  <2>2. ASSUME NEW q \in Ports, plug'[q] # known[q].stick
        PROVE  dev'[q] = Ready
    BY <1>1, <1>4, <2>2 DEF StickInv, Attached
  <2> QED BY <1>1, <2>1, <2>2, AttachedKept DEF StickInv, OnStick
<1>7. Unspoiled'
  <2>1. CASE ~OnStick
    BY <1>1, <2>1 DEF Unspoiled, OnStick
  <2>2. CASE OnStick /\ rd.port # p
    <3>1. rd.port \in Ports
      BY <2>2 DEF StickInv, MassTyped, ReadTyped
    <3>2. dev'[rd.port] = dev[rd.port] /\ plug'[rd.port] = plug[rd.port]
      BY <1>1, <1>4, <2>2, <3>1
    <3> QED BY <1>1, <3>2, UnspoiledSame DEF StickInv
  <2>3. CASE OnStick /\ rd.port = p /\ ~bad[p]
    <3>1. plug'[p] # rd.stick
      BY <1>2, <2>3 DEF StickInv, Attached
    <3>2. InPhase /\ Unasked /\ Pieces /\ dev'[rd.port] = Ready /\ plug'[rd.port] # rd.stick
      BY <1>4, <2>3, <3>1 DEF StickInv, Unspoiled
    <3>3. Unasked' /\ Pieces'
      BY <1>1, <3>2 DEF Unasked, Pieces
    <3>4. Fetch' = Fetch
      BY <1>1 DEF Fetch, PieceSize
    <3>5. (Free => Free') /\ (Sent => Sent') /\ (Taken => Taken') /\ (Moved => Moved') /\ (Over => Over')
      BY <1>1, <3>2, <3>4 DEF Free, Sent, Taken, Moved, Over, Came, Wire, Stick, DataPhase, LastPhase
    <3>6. (Left => Left') /\ (AskedLeft => AskedLeft') /\ (Asked => Asked') /\ (Ordered => Ordered')
          /\ (DataAsked => DataAsked') /\ (Told => Told') /\ (StatusAsked => StatusAsked')
      BY <1>1, <3>2, <3>4 DEF Left, AskedLeft, Asked, Ordered, DataAsked, Told, StatusAsked, Wire, Stick, LastPhase, Sense
    <3>7. InPhase'
      BY <1>1, <3>2, <3>5, <3>6 DEF InPhase
    <3> QED BY <3>3, <3>7 DEF Unspoiled
  <2>4. CASE OnStick /\ rd.port = p /\ bad[p]
    BY <1>1, <2>4 DEF Unspoiled
  <2> QED BY <2>1, <2>2, <2>3, <2>4
<1> QED BY <1>3, <1>5, <1>6, <1>7, VolumesKept DEF StickInv

LEMMA UserStick ==
  ASSUME MountsInv, StickInv, User
  PROVE  StickInv'
<1>1. CASE UNCHANGED <<mvars, svars>>
  <2>1. UNCHANGED <<plug, dev, list, status, rd, bad, known, devices>>
    BY <1>1 DEF mvars, svars
  <2>2. VolumesKnown'
    BY <1>1, VolumesKept DEF StickInv
  <2> QED BY <2>1, <2>2, StickSame
<1>2. ASSUME NEW p \in Ports, (~OnStick /\ PlugIn(p)) \/ PullOut(p), UNCHANGED svars
      PROVE  StickInv'
  BY <1>2, PluggedStick DEF MountsInv, Tables
<1> QED BY <1>1, <1>2, Zenon DEF User

\* A device that is made is the first free entry, and so is its mount; nothing else changes.
LEMMA RegisteredOne ==
  ASSUME Tables, NEW ops \in {"dvd", "stick"}, NEW name, NEW port, NEW stick,
         register_bdev(ops, name, port, stick)
  PROVE  /\ \A d \in Drives : d # Lowest(FreeDevices) \/ FreeDevices = {} => devices'[d] = devices[d]
         /\ FreeDevices # {} => /\ Lowest(FreeDevices) \in Drives /\ devices[Lowest(FreeDevices)].ops = ""
                                /\ devices'[Lowest(FreeDevices)].ops = ops
                                /\ devices'[Lowest(FreeDevices)].port = port
                                /\ devices'[Lowest(FreeDevices)].stick = stick
         /\ \A m \in Volumes : mounts[m].dev \in Drives => mounts'[m].dev \in Drives
         /\ FreeDevices # {} /\ FreeMounts # {} =>
              Lowest(FreeMounts) \in Volumes /\ mounts'[Lowest(FreeMounts)].dev \in Drives
<1> DEFINE d0 == Lowest(FreeDevices)
           m0 == Lowest(FreeMounts)
           mm == IF FreeMounts = {} THEN None ELSE m0
           new == [ops |-> ops, name |-> name, mount |-> mm, port |-> port, stick |-> stick]
           newmount == [ops |-> Opening(ops), name |-> name, dev |-> d0]
<1>n. NUM_VOLUMES \in Nat /\ NUM_DRIVES \in Nat
  BY StorageAssumption, Zenon DEF StorageAssumption
<1>v. Volumes \subseteq Nat /\ Drives \subseteq Nat
  BY <1>n DEF Volumes, Drives
<1>1. DOMAIN devices = Drives /\ DOMAIN mounts = Volumes
  BY DEF Tables
<1>2. CASE FreeDevices = {}
  <2>1. UNCHANGED <<devices, mounts>>
    BY <1>2, Zenon DEF register_bdev
  <2> QED BY <1>2, <2>1
<1>3. CASE FreeDevices # {}
  <2>1. d0 \in Drives /\ devices[d0].ops = ""
    <3>1. FreeDevices \subseteq Nat
      BY <1>v DEF FreeDevices
    <3>2. d0 \in FreeDevices
      BY <1>3, <3>1, LowestIs, Zenon
    <3> HIDE DEF d0
    <3> QED BY <3>2 DEF FreeDevices
  <2>2. FreeMounts # {} => m0 \in Volumes
    <3> HAVE FreeMounts # {}
    <3>1. FreeMounts \subseteq Nat
      BY <1>v DEF FreeMounts
    <3>2. m0 \in FreeMounts
      BY <3>1, LowestIs, Zenon
    <3> HIDE DEF m0
    <3> QED BY <3>2 DEF FreeMounts
  <2>3. /\ devices' = [devices EXCEPT ![d0] = new]
        /\ FreeMounts = {} => mounts' = mounts
        /\ FreeMounts # {} /\ mm # None => mounts' = [mounts EXCEPT ![m0] = newmount]
        /\ mm = None => mounts' = mounts
    BY <1>3, Zenon DEF register_bdev
  <2>4. new.ops = ops /\ new.port = port /\ new.stick = stick /\ newmount.dev = d0
    OBVIOUS
  <2>5. FreeMounts # {} => mm = m0 /\ mm # None
    <3>1. \A x \in Nat : x # None
      BY DEF None
    <3> HIDE DEF m0
    <3> QED BY <1>v, <2>2, <3>1
  <2> HIDE DEF d0, m0, mm, new, newmount
  <2>6. devices'[d0] = new /\ \A d \in Drives : d # d0 => devices'[d] = devices[d]
    BY <1>1, <2>1, <2>3
  <2>7. \A m \in Volumes : mounts'[m] = mounts[m] \/ (m = m0 /\ mounts'[m] = newmount)
    BY <1>1, <2>3, <2>5
  <2>8. FreeMounts # {} => m0 \in Volumes /\ mounts'[m0] = newmount
    BY <1>1, <2>2, <2>3, <2>5
  <2>9. /\ \A m \in Volumes : mounts[m].dev \in Drives => mounts'[m].dev \in Drives
        /\ FreeMounts # {} => m0 \in Volumes /\ mounts'[m0].dev \in Drives
    BY <2>1, <2>4, <2>7, <2>8
  <2>10. devices'[d0].ops = ops /\ devices'[d0].port = port /\ devices'[d0].stick = stick
    BY <2>4, <2>6
  <2>11. /\ \A d \in Drives : d # d0 \/ FreeDevices = {} => devices'[d] = devices[d]
         /\ FreeDevices # {} => /\ d0 \in Drives /\ devices[d0].ops = "" /\ devices'[d0].ops = ops
                                /\ devices'[d0].port = port /\ devices'[d0].stick = stick
         /\ FreeDevices # {} /\ FreeMounts # {} => m0 \in Volumes /\ mounts'[m0].dev \in Drives
    BY <1>3, <2>1, <2>6, <2>9, <2>10, Zenon
  <2> QED BY <2>9, <2>11, Zenon DEF d0, m0
<1> QED BY <1>2, <1>3

LEMMA UnregisteredOne ==
  ASSUME Tables, NEW d0, d0 # 0 => d0 \in Drives /\ devices[d0].mount \in Volumes \cup {None}, unregister_bdev(d0)
  PROVE  /\ \A d \in Drives : d # d0 => devices'[d] = devices[d]
         /\ d0 # 0 => devices'[d0].ops = ""
         /\ \A m \in Volumes : mounts[m].dev \in Drives => mounts'[m].dev \in Drives
<1> DEFINE m0 == devices[d0].mount
<1>1. DOMAIN devices = Drives /\ DOMAIN mounts = Volumes
  BY DEF Tables
<1>2. \A d \in Drives : "ops" \in DOMAIN devices[d]
  BY DEF Tables, DeviceEntry
<1>3. \A m \in Volumes : "dev" \in DOMAIN mounts[m]
  BY DEF Tables, MountEntry
<1>4. /\ devices' = IF d0 = 0 THEN devices ELSE [devices EXCEPT ![d0].ops = ""]
      /\ mounts' = mounts \/ mounts' = [mounts EXCEPT ![m0].ops = ""]
  BY Zenon DEF unregister_bdev, umount
<1> HIDE DEF m0
<1>5. \A m \in Volumes : mounts'[m].dev = mounts[m].dev
  BY <1>1, <1>3, <1>4
<1> QED BY <1>1, <1>2, <1>4, <1>5

LEMMA DvdInitStick ==
  ASSUME MountsInv, StickInv, DvdInit
  PROVE  StickInv'
<1>1. /\ register_bdev("dvd", <<"dvd">>, 0, 0) /\ call' = NoCall
      /\ UNCHANGED <<plug, dev, list, status, rd, bad, known, fds>>
  BY DEF DvdInit, mvars, AtRest
<1>2. /\ \A d \in Drives : devices'[d].ops = "stick" => devices'[d] = devices[d]
      /\ \A m \in Volumes : mounts[m].dev \in Drives => mounts'[m].dev \in Drives
  BY <1>1, RegisteredOne DEF MountsInv
<1>3. Attached'
  BY <1>1, <1>2 DEF StickInv, Attached, OnStick
<1>4. VolumesKnown'
  <2>1. call'.op = "none"
    BY <1>1 DEF NoCall
  <2> QED BY <1>1, <1>2, <2>1, VolumesMove DEF StickInv
<1> QED BY <1>1, <1>3, <1>4, WireSame DEF StickInv

\* What the daemon attaches is the stick that is there.
LEMMA AttachedNew ==
  ASSUME MountsInv, StickInv, NEW p \in Ports, AttachStrange(p) \/ AttachStick(p)
  PROVE  StickInv'
<1>1. /\ plug[p] # 0 /\ known[p] = Unknown /\ call = NoCall
      /\ UNCHANGED <<plug, dev, list, status, rd, bad, fds>>
  BY DEF AttachStrange, AttachStick, mvars, AtRest
<1>2. ~OnStick
  BY <1>1 DEF MountsInv, OneCall, NoCall
<1>3. DOMAIN known = Ports /\ \A d \in Drives : d # 0
  <2>1. NUM_DRIVES \in Nat
    BY StorageAssumption, Zenon DEF StorageAssumption
  <2> QED BY <2>1 DEF Drives, MountsInv, Tables
<1>4. \A d \in Drives : devices[d].ops = "stick" => devices[d].port # p
  BY <1>1, <1>3 DEF StickInv, Attached, Unknown
<1>5. CASE AttachStrange(p)
  <2>1. known' = [known EXCEPT ![p] = [is |-> "strange", stick |-> plug[p], dev |-> 0]]
        /\ UNCHANGED <<devices, mounts, call>>
    BY <1>5 DEF AttachStrange
  <2>2. known'[p].stick = plug[p] /\ \A q \in Ports : q # p => known'[q] = known[q]
    BY <1>3, <2>1
  <2>3. Attached'
    BY <1>1, <1>2, <1>4, <2>1, <2>2 DEF StickInv, Attached, OnStick
  <2>4. VolumesKnown'
    BY <1>1, <2>1, VolumesMove DEF StickInv, NoCall
  <2> QED BY <1>1, <2>3, <2>4, WireSame DEF StickInv
<1>6. CASE AttachStick(p)
  <2> DEFINE d0 == IF FreeDevices = {} THEN 0 ELSE Lowest(FreeDevices)
  <2>1. /\ register_bdev("stick", <<"ud", named'>>, p, plug[p])
        /\ known' = [known EXCEPT ![p] = [is |-> "stick", stick |-> plug[p], dev |-> d0]]
        /\ call' = IF d0 = 0 \/ FreeMounts = {} THEN NoCall
                   ELSE [op |-> "mount", step |-> "fat", vol |-> Lowest(FreeMounts)]
    BY <1>6 DEF AttachStick
  <2>2. /\ \A d \in Drives : d # Lowest(FreeDevices) \/ FreeDevices = {} => devices'[d] = devices[d]
        /\ FreeDevices # {} => /\ Lowest(FreeDevices) \in Drives /\ devices[Lowest(FreeDevices)].ops = ""
                               /\ devices'[Lowest(FreeDevices)].ops = "stick"
                               /\ devices'[Lowest(FreeDevices)].port = p
                               /\ devices'[Lowest(FreeDevices)].stick = plug[p]
        /\ \A m \in Volumes : mounts[m].dev \in Drives => mounts'[m].dev \in Drives
        /\ FreeDevices # {} /\ FreeMounts # {} =>
             Lowest(FreeMounts) \in Volumes /\ mounts'[Lowest(FreeMounts)].dev \in Drives
    BY <2>1, RegisteredOne DEF MountsInv
  <2>3. \A d \in Drives : d # d0 => devices'[d] = devices[d]
    BY <1>3, <2>2, Zenon
  <2>4. d0 # 0 => d0 \in Drives /\ FreeDevices # {} /\ devices'[d0].port = p /\ devices'[d0].stick = plug[p]
    BY <2>2, Zenon
  <2> HIDE DEF d0
  <2>5. known'[p].stick = plug[p] /\ known'[p].dev = d0 /\ \A q \in Ports : q # p => known'[q] = known[q]
    BY <1>3, <2>1
  <2>6. Attached'
    <3>1. ASSUME NEW d \in Drives, devices'[d].ops = "stick"
          PROVE  /\ devices'[d].port \in Ports /\ known'[devices'[d].port].dev = d
                 /\ known'[devices'[d].port].stick = devices'[d].stick /\ devices'[d].stick # 0
      <4>1. CASE d = d0
        BY <1>1, <1>3, <2>4, <2>5, <4>1
      <4>2. CASE d # d0
        BY <1>4, <2>3, <2>5, <3>1, <4>2 DEF StickInv, Attached
      <4> QED BY <4>1, <4>2
    <3>2. ASSUME NEW q \in Ports, plug'[q] # known'[q].stick
          PROVE  dev'[q] = Ready
      BY <1>1, <2>5, <3>2 DEF StickInv, Attached
    <3> QED BY <1>1, <1>2, <3>1, <3>2 DEF Attached, OnStick
  <2>7. VolumesKnown'
    <3>1. call'.op # "none" => call'.vol = Lowest(FreeMounts) /\ d0 # 0 /\ FreeMounts # {}
      <4>1. CASE d0 = 0 \/ FreeMounts = {}
        BY <2>1, <4>1 DEF NoCall
      <4>2. CASE ~(d0 = 0 \/ FreeMounts = {})
        BY <2>1, <4>2
      <4> QED BY <4>1, <4>2
    <3> QED BY <1>1, <2>2, <2>4, <3>1, VolumesMove DEF StickInv
  <2> QED BY <1>1, <2>6, <2>7, WireSame DEF StickInv
<1> QED BY <1>5, <1>6

LEMMA DetachedStick ==
  ASSUME MountsInv, StickInv, NEW p \in Ports, DetachStick(p)
  PROVE  StickInv'
<1> DEFINE d0 == known[p].dev
<1>1. /\ plug[p] # known[p].stick /\ call' = NoCall /\ call = NoCall /\ unregister_bdev(d0)
      /\ list' = [list EXCEPT ![p] = Unused] /\ bad' = [bad EXCEPT ![p] = FALSE]
      /\ known' = [known EXCEPT ![p] = Unknown]
      /\ UNCHANGED <<plug, dev, status, rd, fds>>
  BY DEF DetachStick, PipesGone, AtRest
<1>2. ~OnStick /\ ~OnStick'
  BY <1>1 DEF MountsInv, OneCall, NoCall, OnStick
<1>3. DOMAIN known = Ports /\ (d0 # 0 => d0 \in Drives /\ devices[d0].mount \in Volumes \cup {None})
  BY DEF MountsInv, Tables, Paired, DeviceEntry
<1>4. /\ \A d \in Drives : d # d0 => devices'[d] = devices[d]
      /\ d0 # 0 => devices'[d0].ops = ""
      /\ \A m \in Volumes : mounts[m].dev \in Drives => mounts'[m].dev \in Drives
  BY <1>1, <1>3, UnregisteredOne DEF MountsInv
<1>5. \A q \in Ports : q # p => known'[q] = known[q] /\ list'[q] = list[q] /\ bad'[q] = bad[q]
  BY <1>1, <1>3
<1>6. list'[p] = Unused /\ dev[p] = Ready /\ known'[p] = Unknown
  BY <1>1, <1>3 DEF StickInv, MassTyped, ListsTyped, Attached
<1>7. Unused["out"] = <<>> /\ Unused["in"] = <<>> /\ \A e \in Ends : Unused[e] = <<>>
  BY DEF Unused, Ends
<1>8. MassTyped'
  <2>1. ASSUME NEW q \in Ports
        PROVE  Both(list'[q]) /\ \A e \in Ends : list'[q][e] \in Seq(Queued(e))
    <3>1. CASE q = p
      <4>1. Both(Unused)
        BY DEF Unused, Both
      <4>2. \A e \in Ends : <<>> \in Seq(Queued(e))
        OBVIOUS
      <4> QED BY <1>6, <1>7, <3>1, <4>1, <4>2
    <3>2. CASE q # p
      BY <1>5, <3>2 DEF StickInv, MassTyped, ListsTyped
    <3> QED BY <3>1, <3>2
  <2>2. DOMAIN list' = Ports /\ DOMAIN bad' = Ports
    BY <1>1 DEF StickInv, MassTyped, ListsTyped
  <2> QED BY <1>1, <1>2, <2>1, <2>2 DEF StickInv, MassTyped, ListsTyped
<1>9. Quiet'
  <2>1. ASSUME NEW q \in Ports
        PROVE  Silent(q)' /\ list'[q]["out"] = <<>> /\ (~bad'[q] => Empty(q)' /\ dev'[q] = Ready)
    <3>1. CASE q = p
      BY <1>1, <1>6, <1>7, <3>1 DEF Silent, Empty
    <3>2. CASE q # p
      BY <1>1, <1>2, <1>5, <3>2 DEF StickInv, Quiet, Silent, Empty
    <3> QED BY <3>1, <3>2
  <2> QED BY <1>1, <1>2, <2>1 DEF Quiet, OnStick
<1>10. Commanded' /\ Unspoiled'
  BY <1>2 DEF Commanded, Unspoiled
<1>11. Attached'
  <2>1. \A d \in Drives : devices'[d].ops = "stick" => d # d0 /\ devices'[d] = devices[d]
    <3>1. NUM_DRIVES \in Nat
      BY StorageAssumption, Zenon DEF StorageAssumption
    <3>2. 0 \notin Drives
      BY <3>1 DEF Drives
    <3> HIDE DEF d0
    <3> QED BY <1>4, <3>2
  <2>2. \A d \in Drives : devices'[d].ops = "stick" => devices[d].port # p
    BY <2>1 DEF StickInv, Attached
  <2>3. ASSUME NEW q \in Ports, plug'[q] # known'[q].stick
        PROVE  dev'[q] = Ready
    BY <1>1, <1>5, <1>6, <2>3 DEF StickInv, Attached
  <2> QED BY <1>2, <1>5, <2>1, <2>2, <2>3 DEF StickInv, Attached
<1>12. VolumesKnown'
  BY <1>1, <1>4, VolumesMove DEF StickInv, NoCall
<1> QED BY <1>8, <1>9, <1>10, <1>11, <1>12 DEF StickInv

LEMMA DaemonStick ==
  ASSUME MountsInv, StickInv, Daemon
  PROVE  StickInv'
BY DvdInitStick, AttachedNew, DetachedStick, Zenon DEF Daemon
-----------------------------------------------------------------------------
LEMMA StickStart ==
  ASSUME Init
  PROVE  StickInv
<1>1. /\ plug = [p \in Ports |-> 0] /\ dev = [p \in Ports |-> Ready] /\ list = [p \in Ports |-> Unused]
      /\ status = NoStatus /\ rd = NotReading /\ bad = [p \in Ports |-> FALSE]
  BY DEF Init, MassInit
<1>2. /\ devices = [d \in Drives |-> NoDevice] /\ known = [p \in Ports |-> Unknown] /\ call = NoCall
      /\ fds = [f \in FDs |-> IF f < 3 THEN [ops |-> "console"] ELSE NoFile]
  BY DEF Init
<1>3. ~OnStick /\ rd.pc = "idle"
  BY <1>1 DEF OnStick, NotReading
<1>4. Both(Unused) /\ \A e \in Ends : Unused[e] = <<>> /\ <<>> \in Seq(Queued(e))
  BY DEF Unused, Both
<1>5. MassTyped
  BY <1>1, <1>3, <1>4 DEF MassTyped, ListsTyped, NoStatus
<1>6. Quiet
  <2>1. ASSUME NEW p \in Ports
        PROVE  Silent(p) /\ list[p]["out"] = <<>> /\ Empty(p) /\ dev[p] = Ready
    BY <1>1, <1>4 DEF Silent, Empty, Ends
  <2> QED BY <1>3, <2>1 DEF Quiet
<1>7. Commanded /\ Unspoiled
  BY <1>3 DEF Commanded, Unspoiled
<1>8. Attached
  BY <1>1, <1>2, <1>3 DEF Attached, NoDevice
<1>9. VolumesKnown
  BY <1>2 DEF VolumesKnown, NoCall, NoFile
<1> QED BY <1>5, <1>6, <1>7, <1>8, <1>9 DEF StickInv

LEMMA StickStep ==
  ASSUME MountsInv, StickInv, [Next]_vars
  PROVE  StickInv'
<1>1. CASE IsoSteps
  <2>1. UNCHANGED <<plug, dev, list, status, rd, bad, known, devices>> /\ VolumesKnown'
    BY <1>1, VolumesKept DEF IsoSteps, mvars, svars, StickInv
  <2> QED BY <2>1, StickSame
<1>2. CASE UNCHANGED vars
  <2>1. UNCHANGED <<plug, dev, list, status, rd, bad, known, devices>> /\ VolumesKnown'
    BY <1>2, VolumesKept DEF vars, mvars, svars, StickInv
  <2> QED BY <2>1, StickSame
<1> QED BY <1>1, <1>2, CallsStick, InCallStick, MassStepStick, UserStick, DaemonStick, Zenon DEF Next

LEMMA StickAlways == Spec => []StickInv
<1>1. Init => StickInv
  BY StickStart
<1>2. MountsInv /\ StickInv /\ [Next]_vars => StickInv'
  BY StickStep
<1> QED BY <1>1, <1>2, MountsAlways, PTL DEF Spec

(* Reads of a stick: when the call ends and no transfer failed otherwise   *)
(* than by a stall of the data, nothing is queued for the stick, it can    *)
(* take a command, and the pieces read are the ones asked for, in order,   *)
(* up to where the call stopped (usbmass_read and usbmass_stall_recovery); *)
(* for any sizes of the tables, any number of sticks and calls.            *)
THEOREM SticksAgree == Spec => []StickSound
<1>1. StickInv => StickSound
  <2> SUFFICES ASSUME StickInv, rd.pc = "ret", ~bad[rd.port] PROVE StickSound
    BY DEF StickSound
  <2>1. OnStick
    BY DEF OnStick
  <2>2. Free /\ Pieces /\ ReadTyped /\ ListsTyped
    BY <2>1 DEF StickInv, Unspoiled, InPhase, MassTyped
  <2>3. list[rd.port] = Unused
    <3>1. list[rd.port] = [e \in Ends |-> list[rd.port][e]]
      BY <2>2 DEF ListsTyped, ReadTyped, Both
    <3>2. \A e \in Ends : list[rd.port][e] = <<>>
      BY <2>2 DEF Free, Wire, Ends
    <3> QED BY <3>1, <3>2, Zenon DEF Unused
  <2>4. ASSUME NEW i \in DOMAIN rd.got
        PROVE  rd.got[i][1] = "read" /\ rd.got[i][2] = rd.from + (i - 1) * MaxPiece
    <3>1. /\ rd.got \in Seq({"read"} \X Nat \X Nat)
          /\ \A k \in 1 .. Len(rd.got) : rd.got[k][2] = rd.from + (k - 1) * MaxPiece
      BY <2>2 DEF Pieces
    <3>2. i \in 1 .. Len(rd.got) /\ rd.got[i] \in {"read"} \X Nat \X Nat
      BY <2>4, <3>1
    <3>3. rd.got[i][1] = "read"
      BY <3>2
    <3> QED BY <3>1, <3>2, <3>3, Zenon
  <2> QED BY <2>2, <2>3, <2>4 DEF StickSound, Free, Pieces
<1> QED BY <1>1, StickAlways, PTL
=============================================================================
