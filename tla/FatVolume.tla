----------------------------- MODULE FatVolume -----------------------------
(***************************************************************************)
(* A FAT volume on a stick, as far as it is read: the sectors of the       *)
(* device and their cache (diskio/disk_rb.c), the mount, the cache of FAT  *)
(* sectors, cluster chains and directories (fat/fat_rb.c).                 *)
(*                                                                         *)
(* There are no variables here: a call maps the state of the caches, a     *)
(* record m, to the state it leaves behind.                                *)
(*   m.blk   block_cache_lba and block_cache of the drive                  *)
(*   m.fat   fat_cache with fat_cache_sectors                              *)
(*   m.lost  a sector was asked for and did not come                       *)
(*   m.fatlost  ... and it was a sector of the FAT                         *)
(*   m.bad   the sector that the device fails to read during this call     *)
(*   m.hit   whether a request came back short in this call                *)
(* What a buffer holds is the number of the sector last read into it.      *)
(***************************************************************************)
EXTENDS Integers, Sequences

CONSTANTS
  SECTOR_SIZE,
  BLOCK_CACHE_SECTOR_COUNT,
  MAX_SECTOR_PER_REQUEST,     \* sectors that usbmass_read reads at once
  MaxTransfer,                \* 256, "max 256 sectors per ata request"
  FAT_CACHE_SIZE,
  CLUSTERS_PER_FAT_SECTOR, CLUSTERS_PER_FAT16_SECTOR,
  DIR_ENTRIES_PER_SECTOR,
  Fat16Least, Fat32Least,     \* 4085 and 65525 clusters
  MaxDirSectors               \* bound: sectors a directory scan may read

ASSUME VolumeAssumption ==
  /\ {SECTOR_SIZE, BLOCK_CACHE_SECTOR_COUNT, MAX_SECTOR_PER_REQUEST,
      MaxTransfer, FAT_CACHE_SIZE, CLUSTERS_PER_FAT_SECTOR,
      CLUSTERS_PER_FAT16_SECTOR, DIR_ENTRIES_PER_SECTOR} \subseteq Nat \ {0}
  /\ {Fat16Least, Fat32Least, MaxDirSectors} \subseteq Nat

NoSector == -1                \* a buffer nothing was read into
BAD_LBA == -1
Eof == 1000000                \* FAT_EOF_MARK, above every cluster

Least(S) == CHOOSE x \in S : \A y \in S : x <= y

-----------------------------------------------------------------------------
(* The device and storage_read_sectors.  A disk is a record; its sectors   *)
(* are numbered from 0 to d.size - 1.                                      *)

(* usbmass_read: how many of count sectors arrive, request by request.     *)
DevRead(d, m, start, count) ==
  LET failing == {s \in start .. start + count - 1 : s = m.bad \/ s >= d.size}
  IN  IF failing = {} THEN count
      ELSE ((Least(failing) - start) \div MAX_SECTOR_PER_REQUEST)
             * MAX_SECTOR_PER_REQUEST

(* What a buffer of sectors holds after n of them were read from start.    *)
Filled(buf, start, n) ==
  [i \in DOMAIN buf |-> IF i < n THEN start + i ELSE buf[i]]

Holds(blk, s) ==
  blk.lba # BAD_LBA /\ s \in blk.lba .. blk.lba + BLOCK_CACHE_SECTOR_COUNT - 1

BlockOf(s) == s - (s % BLOCK_CACHE_SECTOR_COUNT)

(* Mutation: a block that came only in part is kept. *)
CachedBlock_Partial(d, m, start) ==
  IF Holds(m.blk, start) THEN m.blk
  ELSE LET b == BlockOf(start)
           red == DevRead(d, m, b, BLOCK_CACHE_SECTOR_COUNT)
       IN  [lba |-> b, buf |-> Filled(m.blk.buf, b, red)]

(* The block cache after it was asked for sector start.                    *)
CachedBlock(d, m, start) ==
  IF Holds(m.blk, start) THEN m.blk
  ELSE LET b == BlockOf(start)
           red == DevRead(d, m, b, BLOCK_CACHE_SECTOR_COUNT)
       IN  [lba |-> IF red = BLOCK_CACHE_SECTOR_COUNT THEN b ELSE BAD_LBA,
            buf |-> Filled(m.blk.buf, b, red)]

(* storage_read_sectors: the caches, count - red, and what the caller's    *)
(* buffer holds now where it held old.  blk is the block cache afterwards. *)
FromBlock(d, m, blk, start, old) ==
  LET hit == blk.lba # BAD_LBA
      red == IF hit THEN 1 ELSE DevRead(d, m, start, 1)
      short == /\ ~Holds(m.blk, start)
               /\ DevRead(d, m, BlockOf(start), BLOCK_CACHE_SECTOR_COUNT)
                    < BLOCK_CACHE_SECTOR_COUNT
  IN  [m |-> [m EXCEPT !.blk = blk, !.lost = @ \/ red < 1, !.hit = @ \/ short],
       rc |-> 1 - red,
       buf |-> <<IF hit THEN blk.buf[start - blk.lba]
                 ELSE IF red = 1 THEN start ELSE old[1]>>]

ReadOne(d, m, start, old) ==
  FromBlock(d, m, CachedBlock(d, m, start), start, old)

ReadMany(d, m, start, count, old) ==
  LET red == DevRead(d, m, start, count)
  IN  [m |-> [m EXCEPT !.lost = @ \/ red < count, !.hit = @ \/ red < count],
       rc |-> count - red,
       buf |-> [i \in 1 .. count |->
                  IF i <= red THEN start + i - 1 ELSE old[i]]]

storage_read_sectors(d, m, start, count, old) ==
  IF count = 1 THEN ReadOne(d, m, start, old)
               ELSE ReadMany(d, m, start, count, old)

-----------------------------------------------------------------------------
(* The cache of FAT sectors and cluster chains.  v is a struct bpb.        *)

(* cache_fat_sector: nothing is ever dirty, as nothing can be written.  r  *)
(* is what reading the sector gave.                                        *)
FatLoaded(r, x, secnum) ==
  IF r.rc < 0 THEN [m |-> [r.m EXCEPT !.fat[x].inuse = FALSE], sec |-> NoSector]
  ELSE [m |-> [r.m EXCEPT
          !.fat[x] = [inuse |-> TRUE, secnum |-> secnum, buf |-> r.buf[1]],
          !.fatlost = @ \/ r.rc # 0],
        sec |-> r.buf[1]]

cache_fat_sector(d, m, v, fatsector) ==
  LET secnum == fatsector + v.rsvd
      x == secnum % FAT_CACHE_SIZE
      e == m.fat[x]
  IN  IF e.inuse /\ e.secnum = secnum THEN [m |-> m, sec |-> e.buf]
      ELSE FatLoaded(storage_read_sectors(d, m, secnum + v.startsector, 1, <<e.buf>>),
                     x, secnum)

PerSector(v) ==
  IF v.is_fat16 THEN CLUSTERS_PER_FAT16_SECTOR ELSE CLUSTERS_PER_FAT_SECTOR

(* The word a buffer has at offset: 0 in a buffer nothing was read into.   *)
FatWord(d, v, sec, offset) ==
  LET entry == (sec - v.startsector - v.rsvd) * PerSector(v) + offset
  IN  IF sec # NoSector /\ entry \in DOMAIN d.fat THEN d.fat[entry] ELSE 0

(* read_fat_entry and get_next_cluster: a negative cluster is one of the   *)
(* root directory of FAT16, 0 the end of a chain.  c is the FAT sector.    *)
NextIn(d, v, c, cluster) ==
  LET w == FatWord(d, v, c.sec, cluster % PerSector(v))
  IN  [m |-> c.m, next |-> IF w >= Eof THEN 0 ELSE w]

get_next_cluster(d, m, v, cluster) ==
  IF v.is_fat16 /\ cluster < 0 THEN [m |-> m, next |-> cluster + 1]
  ELSE NextIn(d, v, cache_fat_sector(d, m, v, cluster \div PerSector(v)), cluster)

cluster2sec(v, cluster) ==
  IF cluster > v.dataclusters + 1 THEN -1
  ELSE (cluster - (IF cluster < 0 THEN 0 ELSE 2)) * v.secperclus
         + v.firstdatasector

-----------------------------------------------------------------------------
(* Open files of the FAT driver, struct fat_file: the first cluster, and   *)
(* where the sector is that was accessed last.                             *)

fat_open(startcluster) ==
  [firstcluster |-> startcluster, lastcluster |-> startcluster,
   lastsector |-> 0, clusternum |-> 0, sectornum |-> 0, eof |-> FALSE]

(* transfer, reading: count sectors into buf behind its first at sectors.  *)
Transferred(r, count, buf, at) ==
  [m |-> r.m, rc |-> IF r.rc < 0 THEN r.rc ELSE 0,
   buf |-> [i \in DOMAIN buf |-> IF i \in at + 1 .. at + count
                                 THEN r.buf[i - at] ELSE buf[i]]]

transfer(d, m, v, start, count, buf, at) ==
  Transferred(storage_read_sectors(d, m, start + v.startsector, count,
                                   [i \in 1 .. count |-> buf[at + i]]),
              count, buf, at)

(* The sector after the one of state s: the next of its cluster, the first *)
(* of the next cluster g, or the first of the file.                        *)
ToCluster(v, s, g) ==
  [s EXCEPT !.m = g.m, !.cluster = g.next, !.numsec = 1,
            !.sector = cluster2sec(v, g.next),
            !.clusternum = @ + 1, !.eof = (g.next = 0)]

Advance(d, v, f, s) ==
  LET skip == IF f.firstcluster < 0 THEN v.rootdiroffset ELSE 0
  IN  IF s.numsec + 1 > v.secperclus \/ s.cluster = 0
      THEN ToCluster(v, s, get_next_cluster(d, s.m, v, s.cluster))
      ELSE IF s.sector # 0
      THEN [s EXCEPT !.sector = @ + 1, !.numsec = @ + 1]
      ELSE [s EXCEPT !.sector = cluster2sec(v, f.firstcluster) + skip,
                     !.numsec = 1 + skip]

(* Mutation: sectors are taken for sequential whatever cluster they are in. *)
Breaks_Never(s, first, sector) == s.last - first + 1 = MaxTransfer

(* Whether the run of sectors from first ends before sector.               *)
Breaks(s, first, sector) ==
  \/ sector # first /\ sector # s.last + 1
  \/ s.last - first + 1 = MaxTransfer

(* One turn of the loop of fat_readwrite.  t is s after Advance: the run   *)
(* collected so far is read when it ends (Flush), and the one the loop     *)
(* ends with at its end (Collected, after mid).                            *)
First(s, t) == IF s.first = 0 THEN t.sector ELSE s.first
RunLength(s, t) == s.last - First(s, t) + 1

Flush(d, v, s, t) ==
  IF Breaks(s, First(s, t), t.sector)
  THEN LET r == transfer(d, t.m, v, First(s, t), RunLength(s, t), s.buf, s.at)
       IN  [m |-> r.m, rc |-> r.rc, buf |-> r.buf, from |-> t.sector,
            at |-> s.at + RunLength(s, t)]
  ELSE [m |-> t.m, rc |-> 0, buf |-> s.buf, from |-> First(s, t), at |-> s.at]

TurnEnd(t, mid, end) ==
  [t EXCEPT !.m = end.m, !.first = mid.from, !.last = t.sector, !.at = mid.at,
            !.buf = end.buf, !.i = @ + 1, !.err = mid.rc < 0 \/ end.rc < 0]

Collected(d, v, t, mid, count) ==
  TurnEnd(t, mid,
    IF t.i = count - 1 /\ ~t.eof
    THEN transfer(d, mid.m, v, mid.from, t.sector - mid.from + 1, mid.buf, mid.at)
    ELSE [m |-> mid.m, rc |-> 0, buf |-> mid.buf])

Turned(d, v, s, t, count) == Collected(d, v, t, Flush(d, v, s, t), count)
Turn(d, v, f, s, count) ==
  IF s.err \/ s.sector <= -1 THEN s
  ELSE Turned(d, v, s, Advance(d, v, f, s), count)

(* fat_readwrite, reading count sectors into buf: how many it says it read.*)
(* s is the state that the loop ends in.                                   *)
ReadDone(f, s) ==
  IF s.err THEN [m |-> s.m, f |-> f, rc |-> -1, buf |-> s.buf]
  ELSE [m |-> s.m, buf |-> s.buf, rc |-> IF s.eof THEN s.i - 1 ELSE s.i,
        f |-> [f EXCEPT !.lastcluster = s.cluster, !.lastsector = s.sector,
                        !.clusternum = s.clusternum,
                        !.sectornum = s.numsec, !.eof = s.eof]]

fat_readwrite(d, m, v, f, count, buf) ==
  LET start == [m |-> m, cluster |-> f.lastcluster, sector |-> f.lastsector,
                clusternum |-> f.clusternum, numsec |-> f.sectornum,
                eof |-> f.eof, first |-> 0, last |-> 0, at |-> 0,
                buf |-> buf, i |-> 0, err |-> FALSE]
      loop[k \in 0 .. count] ==
        IF k = 0 THEN start ELSE Turn(d, v, f, loop[k - 1], count)
  IN  IF f.eof THEN [m |-> m, f |-> f, rc |-> 0, buf |-> buf]
      ELSE ReadDone(f, loop[count])

(* Mutation: the way from the first cluster is counted from the last. *)
SeekFrom_AlwaysLast(f, clusternum) ==
  [cluster |-> f.lastcluster, steps |-> clusternum]

(* Where fat_seek starts to follow the chain, and how many clusters.       *)
SeekFrom(f, clusternum) ==
  IF f.clusternum # 0 /\ clusternum >= f.clusternum
  THEN [cluster |-> f.lastcluster, steps |-> clusternum - f.clusternum]
  ELSE [cluster |-> f.firstcluster, steps |-> clusternum]

(* fat_seek: to the sector before the one that is to be accessed next.  s  *)
(* is where following the chain from SeekFrom led.                         *)
FollowChain(d, v, s) ==
  IF s.short THEN s
  ELSE LET done(g) == [m |-> g.m, next |-> g.next, short |-> g.next = 0]
       IN  done(get_next_cluster(d, s.m, v, s.next))

Sought(v, f, want, s) ==
  LET in == (want - 1) % v.secperclus
      n == (want - 1) \div v.secperclus
  IN  [m |-> s.m, rc |-> IF s.short THEN -1 ELSE 0,
       f |-> IF s.short THEN f
             ELSE [f EXCEPT !.lastcluster = s.next, !.clusternum = n,
                            !.lastsector = cluster2sec(v, s.next) + in,
                            !.sectornum = in + 1]]

fat_seek(d, m, v, f, seeksector) ==
  LET want == seeksector + (IF f.firstcluster < 0 THEN v.rootdiroffset ELSE 0)
      from == SeekFrom(f, (want - 1) \div v.secperclus)
      walk[i \in 0 .. from.steps] ==
        IF i = 0 THEN [m |-> m, next |-> from.cluster, short |-> FALSE]
        ELSE FollowChain(d, v, walk[i - 1])
      f0 == [f EXCEPT !.eof = FALSE]
  IN  IF want = 0
      THEN [m |-> m, rc |-> 0,
            f |-> [f0 EXCEPT !.lastcluster = f.firstcluster, !.lastsector = 0,
                             !.clusternum = 0, !.sectornum = 0]]
      ELSE Sought(v, f0, want, walk[from.steps])

-----------------------------------------------------------------------------
(* Directories, struct fat_dir: how many entries were looked at, the file  *)
(* the entries are in, and the sector of it in the cache.                  *)

(* fat_opendir: the root directory for cluster 0.                          *)
fat_opendir(v, startcluster, buf) ==
  [entry |-> 0, sector |-> 0, buf |-> buf,
   file |-> fat_open(IF startcluster = 0 THEN v.rootclus ELSE startcluster)]

EndOfDir == [kind |-> "end"]

(* The entry at position i of a sector: zeros in a buffer nothing was read *)
(* into, no entry that matters in a sector of another kind.                *)
DirEntry(d, buf, i) ==
  IF buf = NoSector THEN EndOfDir
  ELSE IF buf \in DOMAIN d.dir THEN d.dir[buf][i + 1]
  ELSE [kind |-> "free"]

DirFilled(dir, r) ==
  [m |-> r.m, rc |-> r.rc,
   dir |-> [dir EXCEPT !.file = r.f, !.buf = r.buf[1],
                       !.sector = IF r.rc > 0 THEN r.f.lastsector ELSE @]]

(* Mutation: the position in the directory goes on with a new sector, but  *)
(* the sector is not read.                                                 *)
DirSector_ReadOnce(d, m, v, dir) ==
  IF dir.sector = 0
  THEN DirFilled(dir, fat_readwrite(d, m, v, dir.file, 1, <<dir.buf>>))
  ELSE [m |-> m, rc |-> 1, dir |-> dir]

(* The next sector of the directory when the entries of one are through.   *)
DirSector(d, m, v, dir) ==
  IF dir.entry % DIR_ENTRIES_PER_SECTOR = 0 \/ dir.sector = 0
  THEN DirFilled(dir, fat_readwrite(d, m, v, dir.file, 1, <<dir.buf>>))
  ELSE [m |-> m, rc |-> 1, dir |-> dir]

(* The loops of fat_getnext and its callers: on to the entry called name,  *)
(* to the end of the directory, or for ever.  r is the sector with the     *)
(* entry to look at.                                                       *)
Look(d, r, name, dironly) ==
  LET e == DirEntry(d, r.dir.buf, r.dir.entry % DIR_ENTRIES_PER_SECTOR)
      next == [r.dir EXCEPT !.entry = @ + 1]
  IN  IF r.rc <= 0 THEN [m |-> r.m, dir |-> r.dir, state |-> "none"]
      ELSE IF e.kind = "end" THEN [m |-> r.m, dir |-> next, state |-> "none"]
      ELSE IF \/ e.kind = "dir" /\ e.name = name
              \/ e.kind = "file" /\ e.name = name /\ ~dironly
      THEN [m |-> r.m, dir |-> next, state |-> "found", entry |-> e]
      ELSE [m |-> r.m, dir |-> next, state |-> "on"]

LookOn(d, v, s, name, dironly) ==
  IF s.state # "on" THEN s
  ELSE Look(d, DirSector(d, s.m, v, s.dir), name, dironly)

scan(d, m, v, dir, name, dironly) ==
  LET most == MaxDirSectors * DIR_ENTRIES_PER_SECTOR
      walk[i \in 0 .. most] ==
        IF i = 0 THEN [m |-> m, dir |-> dir, state |-> "on"]
        ELSE LookOn(d, v, walk[i - 1], name, dironly)
  IN  walk[most]

(* rb_opendir: down the path, every directory read in the same descriptor. *)
(* s is the result of looking for its next part.                           *)
Enter(v, s) ==
  IF s.state # "found" THEN s
  ELSE [m |-> s.m, state |-> "found", dir |-> fat_opendir(v, s.entry.first, s.dir.buf)]

Down(d, v, o, name) ==
  IF o.state # "found" THEN o
  ELSE Enter(v, scan(d, o.m, v, o.dir, name, TRUE))

rb_opendir(d, m, v, path, buf) ==
  LET down[i \in 0 .. Len(path)] ==
        IF i = 0 THEN [m |-> m, dir |-> fat_opendir(v, 0, buf), state |-> "found"]
        ELSE Down(d, v, down[i - 1], path[i])
  IN  down[Len(path)]

-----------------------------------------------------------------------------
(* Mounting: disk_init, disk_mount and fat_mount.                          *)

NotMounted == [mounted |-> FALSE]

(* The parameter block in a boot sector, already in 512-byte sectors.      *)
Boot(d, sec) ==
  IF sec \in DOMAIN d.boot THEN d.boot[sec] ELSE [secperclus |-> 0]

(* What fat_mount makes of it.                                             *)
Bpb(b, startsector) ==
  LET fds == b.rsvd + b.rootdirsectors + b.numfats * b.fatsize
      clusters == (b.totalsectors - fds) \div b.secperclus
      dirclus == (b.rootdirsectors + b.secperclus - 1) \div b.secperclus
      fat16 == clusters < Fat32Least
  IN  [mounted |-> FALSE, startsector |-> startsector, rsvd |-> b.rsvd,
       secperclus |-> b.secperclus, fatsize |-> b.fatsize,
       firstdatasector |-> fds, dataclusters |-> clusters, is_fat16 |-> fat16,
       rootclus |-> IF fat16 THEN 0 - dirclus ELSE b.rootclus,
       rootdiroffset |-> IF fat16 THEN dirclus * b.secperclus - b.rootdirsectors
                                  ELSE 0]

(* fat_recalc_free reads the whole FAT.                                    *)
fat_recalc_free(d, m, v) ==
  LET after[i \in 0 .. v.fatsize] ==
        IF i = 0 THEN m ELSE cache_fat_sector(d, after[i - 1], v, i - 1).m
  IN  after[v.fatsize]

(* fat_mount: 0 in rc if it took the volume, and whether it ended the      *)
(* program: the count of free clusters of a FAT32 volume is written back.  *)
(* r is the boot sector, info the one with that count.                     *)
Counted(d, w, info) ==
  LET unset == info.buf[1] \in d.unset
  IN  [m |-> IF unset THEN fat_recalc_free(d, info.m, w) ELSE info.m,
       v |-> [w EXCEPT !.mounted = TRUE], rc |-> 0, exit |-> unset]

Booted(d, v, startsector, r) ==
  LET b == Boot(d, r.buf[1])
      w == Bpb(b, startsector)
  IN  IF r.rc # 0 THEN [m |-> r.m, v |-> v, rc |-> -1, exit |-> FALSE]
      ELSE IF b.secperclus = 0 \/ ~b.sane
      THEN [m |-> r.m, v |-> NotMounted, rc |-> -2, exit |-> FALSE]
      ELSE IF w.dataclusters < Fat16Least
      THEN [m |-> r.m, v |-> w, rc |-> -2, exit |-> FALSE]
      ELSE IF w.is_fat16
      THEN [m |-> fat_recalc_free(d, r.m, w), v |-> [w EXCEPT !.mounted = TRUE],
            rc |-> 0, exit |-> FALSE]
      ELSE Counted(d, w, storage_read_sectors(d, r.m, startsector + b.fsinfo, 1, r.buf))

fat_mount(d, m, v, startsector) ==
  Booted(d, v, startsector, storage_read_sectors(d, m, startsector, 1, <<NoSector>>))

(* disk_init forgets the block cache and reads the partition table, r;     *)
(* disk_mount takes the first partition of a FAT type that can be mounted, *)
(* or else the whole disk.                                                 *)
TryMount(d, t, part) ==
  IF t.rc = 0 \/ part.type # "fat" THEN t ELSE fat_mount(d, t.m, t.v, part.start)

OrWhole(d, t) == IF t.rc = 0 THEN t ELSE fat_mount(d, t.m, t.v, 0)

Partitions(d, v, r) ==
  LET failed == [m |-> r.m, v |-> v, rc |-> -1, exit |-> FALSE]
      try[i \in 0 .. Len(d.parts)] ==
        IF i = 0 THEN failed ELSE TryMount(d, try[i - 1], d.parts[i])
  IN  IF r.buf[1] # 0 \/ ~d.signature THEN failed
      ELSE OrWhole(d, try[Len(d.parts)])

disk_mount(d, m, v) ==
  Partitions(d, v, storage_read_sectors(d, [m EXCEPT !.blk.lba = BAD_LBA],
                                        0, 1, <<NoSector>>))
=============================================================================
