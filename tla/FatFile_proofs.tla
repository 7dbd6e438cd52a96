--------------------------- MODULE FatFile_proofs ---------------------------
(***************************************************************************)
(* The caches, the positions and the calls of a FAT volume, whatever the   *)
(* media, the sizes and the calls are.  Three invariants build on each     *)
(* other.  CachesInv: a block of the drive's cache is whole, and a sector  *)
(* in the FAT cache is the one it is found as, as long as none of the FAT  *)
(* was lost; every loop of the driver keeps that, on a medium that holds   *)
(* any numbers.  PlacesInv: every open file stands in the chain of its     *)
(* clusters where its position and its cached sector say, as long as no    *)
(* sector of the FAT was lost.  CallsInv: as long as no sector was lost,   *)
(* what is mounted, open and read is what is on the medium.                *)
(***************************************************************************)
EXTENDS FatFile, TLAPS, WellFoundedInduction

(* Induction over numbers, as a statement about a set of them.  Below, each *)
(* loop of the driver takes it twice: the numbers of turns for which its   *)
(* recursive function exists (Built), and those after which its state is   *)
(* sound (Good), are all numbers.                                          *)
LEMMA SmallestIn ==
  ASSUME NEW T, T \subseteq Nat, T # {}
  PROVE  \E x \in T : \A y \in T : x <= y
<1> DEFINE R == {ss \in Nat \X Nat : ss[1] < ss[2]}
<1>1. IsWellFoundedOn(R, Nat)
  BY NatLessThanWellFounded, Zenon DEF OpToRel
<1>2. PICK x \in T : \A y \in T : ~(<<y, x>> \in R)
  <2> HIDE DEF R
  <2> QED BY <1>1, WFMin
<1>3. \A y \in T : ~(y < x)
  BY <1>2
<1> QED BY <1>3

LEMMA Counting ==
  ASSUME NEW S, 0 \in S, \A n \in Nat : n \in S => n + 1 \in S
  PROVE  \A n \in Nat : n \in S
<1> DEFINE T == Nat \ S
<1>1. SUFFICES ASSUME T # {} PROVE FALSE
  OBVIOUS
<1>2. PICK x \in T : \A y \in T : x <= y
  BY <1>1, SmallestIn
<1>3. x # 0 /\ x \in Nat /\ x - 1 \in Nat /\ x - 1 < x /\ (x - 1) + 1 = x
  OBVIOUS
<1>4. x - 1 \in S
  BY <1>2, <1>3
<1> QED BY <1>3, <1>4

-----------------------------------------------------------------------------
(* The caches: a block is whole or none, and as long as no sector of the   *)
(* FAT was lost, a sector of it is the one it is found as.                 *)
Places == 0 .. BLOCK_CACHE_SECTOR_COUNT - 1
Entries == 0 .. FAT_CACHE_SIZE - 1
CacheFields == {"blk", "fat", "lost", "fatlost", "bad", "hit"}

BlockWhole(b) ==
  /\ {"lba", "buf"} \subseteq DOMAIN b /\ b.lba \in Int /\ DOMAIN b.buf = Places
  /\ b.lba # BAD_LBA => \A i \in Places : b.buf[i] = b.lba + i

(* What reading never takes back: that a sector was lost, or one of the    *)
(* FAT, which is a sector that was lost.                                   *)
Kept(m0, m) ==
  /\ m0.lost => m.lost
  /\ m0.fatlost => m.fatlost
  /\ m.fatlost => m0.fatlost \/ m.lost

LEMMA KeptAll ==
  /\ \A m : Kept(m, m)
  /\ \A m0, m, r : Kept(m0, m) /\ Kept(m, r) => Kept(m0, r)
BY Zenon DEF Kept

SectorsOf(fat, v) ==
  \A x \in Entries : fat[x].inuse =>
    fat[x].buf = fat[x].secnum + v.startsector /\ fat[x].secnum % FAT_CACHE_SIZE = x

CachesOf(m0, m, v) ==
  /\ Kept(m0, m)
  /\ CacheFields \subseteq DOMAIN m /\ BlockWhole(m.blk) /\ DOMAIN m.fat = Entries
  /\ ~m.fatlost => SectorsOf(m.fat, v)

LEMMA Sizes ==
  /\ SECTOR_SIZE \in Nat \ {0} /\ BLOCK_CACHE_SECTOR_COUNT \in Nat \ {0}
  /\ MAX_SECTOR_PER_REQUEST \in Nat \ {0} /\ FAT_CACHE_SIZE \in Nat \ {0}
  /\ CLUSTERS_PER_FAT_SECTOR \in Nat \ {0} /\ CLUSTERS_PER_FAT16_SECTOR \in Nat \ {0}
  /\ DIR_ENTRIES_PER_SECTOR \in Nat \ {0}
  /\ MaxTransfer \in Nat \ {0} /\ Fat16Least \in Nat /\ Fat32Least \in Nat /\ MaxDirSectors \in Nat
BY VolumeAssumption

LEMMA OneCame ==
  ASSUME NEW d, NEW m, NEW start \in Int
  PROVE  DevRead(d, m, start, 1) \in {0, 1}
<1> DEFINE failing == {s \in start .. start + 1 - 1 : s = m.bad \/ s >= d.size}
<1>1. CASE failing = {}
  BY <1>1 DEF DevRead
<1>2. CASE failing # {}
  <2>1. failing = {start}
    BY <1>2
  <2>2. Least({start}) = start
    BY DEF Least
  <2>3. ((start - start) \div MAX_SECTOR_PER_REQUEST) * MAX_SECTOR_PER_REQUEST = 0
    BY Sizes
  <2>4. DevRead(d, m, start, 1) = ((Least(failing) - start) \div MAX_SECTOR_PER_REQUEST) * MAX_SECTOR_PER_REQUEST
    BY <1>2 DEF DevRead
  <2> HIDE DEF failing
  <2> QED BY <2>1, <2>2, <2>3, <2>4
<1> QED BY <1>1, <1>2

LEMMA BlockKept ==
  ASSUME NEW d, NEW m, NEW start \in Int, BlockWhole(m.blk)
  PROVE  /\ BlockWhole(CachedBlock(d, m, start))
         /\ CachedBlock(d, m, start).lba # BAD_LBA =>
              CachedBlock(d, m, start).buf[start - CachedBlock(d, m, start).lba] = start
<1> DEFINE blk == CachedBlock(d, m, start)
           b == BlockOf(start)
           red == DevRead(d, m, b, BLOCK_CACHE_SECTOR_COUNT)
<1>1. CASE Holds(m.blk, start)
  <2>1. blk = m.blk
    BY <1>1 DEF CachedBlock
  <2>2. start - m.blk.lba \in Places /\ m.blk.lba + (start - m.blk.lba) = start
    BY <1>1, Sizes DEF Holds, Places, BlockWhole
  <2>3. m.blk.lba # BAD_LBA => m.blk.buf[start - m.blk.lba] = start
    BY <2>2 DEF BlockWhole
  <2> QED BY <2>1, <2>3
<1>2. CASE ~Holds(m.blk, start)
  <2>1. blk = [lba |-> IF red = BLOCK_CACHE_SECTOR_COUNT THEN b ELSE BAD_LBA, buf |-> Filled(m.blk.buf, b, red)]
    BY <1>2 DEF CachedBlock
  <2>2. b \in Int /\ start - b \in Places /\ b + (start - b) = start
    BY Sizes DEF BlockOf, Places
  <2> HIDE DEF red, b
  <2>3. DOMAIN blk.buf = Places /\ {"lba", "buf"} \subseteq DOMAIN blk
    BY <2>1 DEF Filled, BlockWhole
  <2>4. blk.lba # BAD_LBA => blk.lba = b /\ red = BLOCK_CACHE_SECTOR_COUNT
    BY <2>1
  <2>5. blk.lba # BAD_LBA => \A i \in Places : blk.buf[i] = b + i
    BY <2>1, <2>4, Sizes DEF Filled, BlockWhole, Places
  <2>6. blk.lba \in Int
    BY <2>1, <2>2 DEF BAD_LBA
  <2> HIDE DEF blk
  <2>7. BlockWhole(blk)
    BY <2>3, <2>4, <2>5, <2>6 DEF BlockWhole
  <2>8. blk.lba # BAD_LBA => blk.buf[start - blk.lba] = start
    BY <2>2, <2>4, <2>5
  <2> QED BY <2>7, <2>8 DEF blk
<1> QED BY <1>1, <1>2

(* A sector that was asked for by itself: the caches stay as they were but *)
(* for the block, and it is the one that comes, if one does.               *)
LEMMA ReadOneKept ==
  ASSUME NEW m0, NEW d, NEW m, NEW v, NEW start \in Int, NEW old, CachesOf(m0, m, v)
  PROVE  LET r == ReadOne(d, m, start, old)
         IN  /\ CachesOf(m0, r.m, v) /\ r.m.fat = m.fat /\ r.m.fatlost = m.fatlost
             /\ r.rc \in {0, 1} /\ (r.rc = 0 => r.buf[1] = start)
             /\ (r.rc = 0 \/ r.m.lost)
<1> DEFINE blk == CachedBlock(d, m, start)
           r == ReadOne(d, m, start, old)
           hit == blk.lba # BAD_LBA
           red == IF hit THEN 1 ELSE DevRead(d, m, start, 1)
<1>1. /\ CacheFields \subseteq DOMAIN m /\ BlockWhole(m.blk) /\ DOMAIN m.fat = Entries
      /\ ~m.fatlost => SectorsOf(m.fat, v)
      /\ Kept(m0, m)
  BY DEF CachesOf
<1>2. BlockWhole(blk) /\ (hit => blk.buf[start - blk.lba] = start)
  BY <1>1, BlockKept
<1>3. red \in {0, 1}
  BY OneCame
<1>4. r.rc = 1 - red
  BY DEF ReadOne, FromBlock
<1>5. r.buf = <<IF hit THEN blk.buf[start - blk.lba] ELSE IF red = 1 THEN start ELSE old[1]>>
  BY DEF ReadOne, FromBlock
<1>6. \E b : r.m = [m EXCEPT !.blk = blk, !.lost = @ \/ red < 1, !.hit = b]
  BY DEF ReadOne, FromBlock
<1> HIDE DEF r, blk, red
<1>7. PICK a, b : r.m = [m EXCEPT !.blk = blk, !.lost = a, !.hit = b] /\ (m.lost => a) /\ (red < 1 => a)
  BY <1>6, Zenon
<1>8. /\ r.m.blk = blk /\ r.m.fat = m.fat /\ r.m.fatlost = m.fatlost /\ r.m.lost = a
      /\ DOMAIN r.m = DOMAIN m
  BY <1>1, <1>7 DEF CacheFields
<1>9. (m.lost => r.m.lost) /\ (red < 1 => r.m.lost)
  BY <1>7, <1>8, Zenon
<1>10. Kept(m0, r.m)
  BY <1>1, <1>8, <1>9, Zenon DEF Kept
<1>11. CachesOf(m0, r.m, v)
  BY <1>1, <1>2, <1>8, <1>10 DEF CachesOf
<1>12. r.rc \in {0, 1} /\ (r.rc = 0 => red = 1) /\ (r.rc # 0 => red < 1)
  BY <1>3, <1>4
<1>13. r.rc = 0 => r.buf[1] = start
  BY <1>2, <1>5, <1>12
<1>14. r.rc = 0 \/ r.m.lost
  BY <1>9, <1>12
<1> QED BY <1>8, <1>11, <1>12, <1>13, <1>14 DEF r

(* Reading sectors never leaves half a block in the cache.                 *)
LEMMA ReadKept ==
  ASSUME NEW m0, NEW d, NEW m, NEW v, NEW start \in Int, NEW count, NEW old, CachesOf(m0, m, v)
  PROVE  /\ CachesOf(m0, storage_read_sectors(d, m, start, count, old).m, v)
         /\ storage_read_sectors(d, m, start, count, old).m.fat = m.fat
         /\ storage_read_sectors(d, m, start, count, old).m.fatlost = m.fatlost
<1> DEFINE r == storage_read_sectors(d, m, start, count, old)
<1>1. CASE count = 1
  BY <1>1, ReadOneKept DEF storage_read_sectors
<1>2. CASE count # 1
  <2>1. r = ReadMany(d, m, start, count, old)
    BY <1>2 DEF storage_read_sectors
  <2>2. \E a, b : r.m = [m EXCEPT !.lost = a, !.hit = b] /\ (m.lost => a)
    <3> DEFINE short == DevRead(d, m, start, count) < count
    <3>1. r.m = [m EXCEPT !.lost = @ \/ short, !.hit = @ \/ short]
      BY <2>1 DEF ReadMany
    <3>2. r.m = [m EXCEPT !.lost = (m.lost \/ short), !.hit = (m.hit \/ short)]
      BY <3>1, Zenon
    <3> QED BY <3>2, Zenon
  <2> HIDE DEF r
  <2>3. PICK a, b : r.m = [m EXCEPT !.lost = a, !.hit = b] /\ (m.lost => a)
    BY <2>2
  <2>4. /\ r.m.blk = m.blk /\ r.m.fat = m.fat /\ r.m.fatlost = m.fatlost /\ r.m.lost = a
        /\ DOMAIN r.m = DOMAIN m
    BY <2>3 DEF CachesOf, CacheFields
  <2>5. m.lost => r.m.lost
    BY <2>3, <2>4, Zenon
  <2>6. Kept(m0, m)
    BY DEF CachesOf
  <2>7. Kept(m0, r.m)
    BY <2>4, <2>5, <2>6, Zenon DEF Kept
  <2>8. CachesOf(m0, r.m, v)
    BY <2>4, <2>7 DEF CachesOf
  <2> QED BY <2>4, <2>8 DEF r
<1> QED BY <1>1, <1>2

-----------------------------------------------------------------------------
(* The numbers of a volume, of an open file and of a medium.               *)
VolumeTyped(v) ==
  /\ v.startsector \in Int /\ v.rsvd \in Int /\ v.secperclus \in Nat \ {0}
  /\ v.fatsize \in Nat /\ v.firstdatasector \in Int /\ v.dataclusters \in Int
  /\ v.rootclus \in Int /\ v.rootdiroffset \in Int

FatTyped(d) == \A c \in DOMAIN d.fat : d.fat[c] \in Nat

(* A sector of the FAT is kept as the one it is found as.                  *)
LEMMA FatSectorKept ==
  ASSUME NEW m0, NEW d, NEW m, NEW v, VolumeTyped(v), NEW fatsector \in Int, CachesOf(m0, m, v)
  PROVE  CachesOf(m0, cache_fat_sector(d, m, v, fatsector).m, v)
<1> DEFINE secnum == fatsector + v.rsvd
           x == secnum % FAT_CACHE_SIZE
           e == m.fat[x]
           start == secnum + v.startsector
           r == storage_read_sectors(d, m, start, 1, <<e.buf>>)
           new == [inuse |-> TRUE, secnum |-> secnum, buf |-> r.buf[1]]
           c == cache_fat_sector(d, m, v, fatsector)
<1>1. secnum \in Int /\ start \in Int /\ x \in Entries
  BY Sizes DEF VolumeTyped, Entries
<1>2. CASE e.inuse /\ e.secnum = secnum
  <2>1. c.m = m
    BY <1>2 DEF cache_fat_sector
  <2> QED BY <2>1
<1>3. CASE ~(e.inuse /\ e.secnum = secnum)
  <2>1. r = ReadOne(d, m, start, <<e.buf>>)
    BY DEF storage_read_sectors
  <2>2. /\ CachesOf(m0, r.m, v) /\ r.m.fat = m.fat /\ r.m.fatlost = m.fatlost
        /\ r.rc \in {0, 1} /\ (r.rc = 0 => r.buf[1] = start) /\ (r.rc = 0 \/ r.m.lost)
    <3> DEFINE old == <<e.buf>>
    <3>1. r = ReadOne(d, m, start, old)
      BY <2>1
    <3> HIDE DEF start, old, r
    <3> QED BY <1>1, <3>1, ReadOneKept
  <2>3. c = FatLoaded(r, x, secnum)
    BY <1>3 DEF cache_fat_sector
  <2> HIDE DEF r, c, x, secnum, start
  <2>4. \E b : /\ c.m = [r.m EXCEPT !.fat[x] = new, !.fatlost = b]
               /\ (~b <=> (~r.m.fatlost /\ r.rc = 0))
    <3>1. c = [m |-> [r.m EXCEPT !.fat[x] = new, !.fatlost = @ \/ r.rc # 0], sec |-> r.buf[1]]
      BY <2>2, <2>3 DEF FatLoaded
    <3> HIDE DEF new
    <3>2. c.m = [r.m EXCEPT !.fat[x] = new, !.fatlost = @ \/ r.rc # 0]
      BY <3>1, Zenon
    <3>3. c.m = [r.m EXCEPT !.fat[x] = new, !.fatlost = (r.m.fatlost \/ r.rc # 0)]
      BY <3>2, Zenon
    <3> QED BY <3>3, Zenon
  <2>5. PICK b : /\ c.m = [r.m EXCEPT !.fat[x] = new, !.fatlost = b]
                 /\ (~b <=> (~r.m.fatlost /\ r.rc = 0))
    BY <2>4
  <2>6. /\ CacheFields \subseteq DOMAIN r.m /\ BlockWhole(r.m.blk) /\ DOMAIN r.m.fat = Entries
        /\ ~r.m.fatlost => SectorsOf(r.m.fat, v)
    BY <2>2 DEF CachesOf
  <2>7. /\ CacheFields \subseteq DOMAIN c.m /\ c.m.blk = r.m.blk
        /\ c.m.fat = [r.m.fat EXCEPT ![x] = new] /\ c.m.fatlost = b
    <3> HIDE DEF new
    <3> QED BY <2>5, <2>6 DEF CacheFields
  <2>8. DOMAIN c.m.fat = Entries
    BY <2>6, <2>7
  <2>9. ASSUME ~b PROVE SectorsOf(c.m.fat, v)
    <3>1. SectorsOf(r.m.fat, v) /\ r.buf[1] = start
      BY <2>2, <2>5, <2>6, <2>9
    <3>2. new.secnum = secnum /\ new.buf = secnum + v.startsector /\ secnum % FAT_CACHE_SIZE = x
      BY <3>1 DEF start, x
    <3> HIDE DEF new
    <3>3. ASSUME NEW y \in Entries, c.m.fat[y].inuse
          PROVE  c.m.fat[y].buf = c.m.fat[y].secnum + v.startsector /\ c.m.fat[y].secnum % FAT_CACHE_SIZE = y
      <4>1. CASE y = x
        BY <1>1, <2>6, <2>7, <3>2, <4>1
      <4>2. CASE y # x
        <5>1. c.m.fat[y] = r.m.fat[y]
          BY <2>6, <2>7, <4>2
        <5> QED BY <5>1, <3>1, <3>3 DEF SectorsOf
      <4> QED BY <4>1, <4>2
    <3> QED BY <3>3 DEF SectorsOf
  <2>10. ~c.m.fatlost => SectorsOf(c.m.fat, v)
    <3>1. c.m.fatlost = b
      BY <2>7
    <3>2. ~b => SectorsOf(c.m.fat, v)
      BY <2>9
    <3> QED BY <3>1, <3>2, Zenon
  <2>11. Kept(m0, c.m)
    <3>1. c.m.lost = r.m.lost
      <4> HIDE DEF new
      <4> QED BY <2>5, <2>6 DEF CacheFields
    <3>2. c.m.fatlost <=> (r.m.fatlost \/ r.rc # 0)
      BY <2>5, <2>7, Zenon
    <3>3. Kept(m0, r.m)
      BY <2>2 DEF CachesOf
    <3> QED BY <2>2, <3>1, <3>2, <3>3, Zenon DEF Kept
  <2>12. CachesOf(m0, c.m, v)
    BY <2>6, <2>7, <2>8, <2>10, <2>11 DEF CachesOf
  <2> QED BY <2>12 DEF c
<1> QED BY <1>2, <1>3

(* The next cluster of a chain is a number.                                *)
LEMMA NextKept ==
  ASSUME NEW m0, NEW d, NEW m, NEW v, VolumeTyped(v), FatTyped(d), NEW cluster \in Int, CachesOf(m0, m, v)
  PROVE  /\ CachesOf(m0, get_next_cluster(d, m, v, cluster).m, v)
         /\ get_next_cluster(d, m, v, cluster).next \in Int
<1> DEFINE per == PerSector(v)
           c == cache_fat_sector(d, m, v, cluster \div per)
           g == get_next_cluster(d, m, v, cluster)
<1>1. per \in Nat \ {0}
  BY Sizes DEF PerSector
<1>2. CASE v.is_fat16 /\ cluster < 0
  BY <1>2 DEF get_next_cluster
<1>3. CASE ~(v.is_fat16 /\ cluster < 0)
  <2>1. g = NextIn(d, v, c, cluster)
    BY <1>3 DEF get_next_cluster
  <2>2. CachesOf(m0, c.m, v)
    <3>1. cluster \div per \in Int
      BY <1>1
    <3> HIDE DEF per
    <3> QED BY <3>1, FatSectorKept
  <2> HIDE DEF c, g
  <2>3. FatWord(d, v, c.sec, cluster % per) \in Nat
    BY DEF FatWord, FatTyped
  <2>4. g.m = c.m /\ g.next \in Int
    BY <2>1, <2>3 DEF NextIn
  <2> QED BY <2>2, <2>4 DEF g
<1> QED BY <1>2, <1>3

-----------------------------------------------------------------------------
(* Reading from an open file: the numbers of the file and of the loop.     *)
FileFields ==
  {"firstcluster", "lastcluster", "lastsector", "clusternum", "sectornum", "eof"}

FileTyped(f) ==
  /\ FileFields \subseteq DOMAIN f
  /\ f.firstcluster \in Int /\ f.lastcluster \in Int /\ f.lastsector \in Int
  /\ f.clusternum \in Int /\ f.sectornum \in Int

LoopFields ==
  {"m", "cluster", "sector", "clusternum", "numsec", "eof", "first", "last",
   "at", "buf", "i", "err"}

LoopTyped(s) ==
  /\ s.cluster \in Int /\ s.sector \in Int /\ s.clusternum \in Int
  /\ s.numsec \in Int /\ s.first \in Int /\ s.i \in Int

LoopGood(m0, s, v) ==
  LoopFields \subseteq DOMAIN s /\ CachesOf(m0, s.m, v) /\ LoopTyped(s)

LEMMA TransferKept ==
  ASSUME NEW m0, NEW d, NEW m, NEW v, VolumeTyped(v), NEW start \in Int, NEW count, NEW buf, NEW at,
         CachesOf(m0, m, v)
  PROVE  CachesOf(m0, transfer(d, m, v, start, count, buf, at).m, v)
<1> DEFINE sector == start + v.startsector
           old == [i \in 1 .. count |-> buf[at + i]]
           r == storage_read_sectors(d, m, sector, count, old)
<1>1. transfer(d, m, v, start, count, buf, at).m = r.m
  BY DEF transfer, Transferred
<1>2. sector \in Int
  BY DEF VolumeTyped
<1> HIDE DEF sector, old
<1> QED BY <1>1, <1>2, ReadKept

LEMMA SectorOf ==
  ASSUME NEW v, VolumeTyped(v), NEW cluster \in Int
  PROVE  cluster2sec(v, cluster) \in Int
<1> DEFINE k == cluster - (IF cluster < 0 THEN 0 ELSE 2)
<1>1. k \in Int
  OBVIOUS
<1>2. cluster2sec(v, cluster) = -1 \/ cluster2sec(v, cluster) = k * v.secperclus + v.firstdatasector
  BY DEF cluster2sec
<1>3. k * v.secperclus \in Int
  <2> HIDE DEF k
  <2> QED BY <1>1 DEF VolumeTyped
<1> HIDE DEF k
<1> QED BY <1>2, <1>3 DEF VolumeTyped

LEMMA AdvanceKept ==
  ASSUME NEW m0, NEW d, NEW v, VolumeTyped(v), FatTyped(d), NEW f, f.firstcluster \in Int,
         NEW s, LoopGood(m0, s, v)
  PROVE  LoopGood(m0, Advance(d, v, f, s), v)
<1> DEFINE t == Advance(d, v, f, s)
           skip == IF f.firstcluster < 0 THEN v.rootdiroffset ELSE 0
           g == get_next_cluster(d, s.m, v, s.cluster)
           to == cluster2sec(v, g.next)
           begin == cluster2sec(v, f.firstcluster) + skip
<1>1. LoopFields \subseteq DOMAIN s /\ CachesOf(m0, s.m, v) /\ LoopTyped(s)
  BY DEF LoopGood
<1>2. CASE s.numsec + 1 > v.secperclus \/ s.cluster = 0
  <2>1. CachesOf(m0, g.m, v) /\ g.next \in Int
    BY <1>1, NextKept DEF LoopTyped
  <2>2. to \in Int
    <3> HIDE DEF g
    <3> QED BY <2>1, SectorOf
  <2> HIDE DEF g, to
  <2>3. t = ToCluster(v, s, g)
    BY <1>2 DEF Advance, g
  <2>4. t = [s EXCEPT !.m = g.m, !.cluster = g.next, !.numsec = 1, !.sector = to,
                      !.clusternum = @ + 1, !.eof = (g.next = 0)]
    BY <2>3 DEF ToCluster, to
  <2> HIDE DEF t
  <2>5. DOMAIN t = DOMAIN s /\ t.m = g.m /\ t.cluster = g.next
    BY <1>1, <2>4 DEF LoopFields
  <2>6. t.numsec = 1 /\ t.sector = to /\ t.clusternum = s.clusternum + 1
    BY <1>1, <2>4 DEF LoopFields
  <2>7. t.first = s.first /\ t.i = s.i
    BY <1>1, <2>4 DEF LoopFields
  <2>8. LoopGood(m0, t, v)
    BY <1>1, <2>1, <2>2, <2>5, <2>6, <2>7 DEF LoopGood, LoopTyped
  <2> QED BY <2>7, <2>8 DEF t
<1>3. CASE ~(s.numsec + 1 > v.secperclus \/ s.cluster = 0) /\ s.sector # 0
  <2>1. t = [s EXCEPT !.sector = s.sector + 1, !.numsec = s.numsec + 1]
    BY <1>3 DEF Advance
  <2> HIDE DEF t
  <2>2. t.sector = s.sector + 1 /\ t.numsec = s.numsec + 1
    BY <1>1, <2>1 DEF LoopFields
  <2>3. DOMAIN t = DOMAIN s /\ t.m = s.m /\ t.cluster = s.cluster
    BY <1>1, <2>1 DEF LoopFields
  <2>4. t.clusternum = s.clusternum /\ t.first = s.first /\ t.i = s.i
    BY <1>1, <2>1 DEF LoopFields
  <2>5. LoopGood(m0, t, v)
    BY <1>1, <2>2, <2>3, <2>4 DEF LoopGood, LoopTyped
  <2> QED BY <2>4, <2>5 DEF t
<1>4. CASE ~(s.numsec + 1 > v.secperclus \/ s.cluster = 0) /\ ~(s.sector # 0)
  <2>1. skip \in Int
    BY DEF VolumeTyped
  <2> HIDE DEF skip
  <2>2. begin \in Int
    BY <2>1, SectorOf
  <2>3. t = [s EXCEPT !.sector = begin, !.numsec = 1 + skip]
    BY <1>4 DEF Advance, skip
  <2> HIDE DEF t, begin
  <2>4. t.sector = begin /\ t.numsec = 1 + skip
    BY <1>1, <2>3 DEF LoopFields
  <2>5. DOMAIN t = DOMAIN s /\ t.m = s.m /\ t.cluster = s.cluster
    BY <1>1, <2>3 DEF LoopFields
  <2>6. t.clusternum = s.clusternum /\ t.first = s.first /\ t.i = s.i
    BY <1>1, <2>3 DEF LoopFields
  <2>7. LoopGood(m0, t, v)
    BY <1>1, <2>1, <2>2, <2>4, <2>5, <2>6 DEF LoopGood, LoopTyped
  <2> QED BY <2>6, <2>7 DEF t
<1> QED BY <1>2, <1>3, <1>4

LEMMA FlushKept ==
  ASSUME NEW m0, NEW d, NEW v, VolumeTyped(v), NEW s, LoopTyped(s), NEW t, LoopGood(m0, t, v)
  PROVE  CachesOf(m0, Flush(d, v, s, t).m, v) /\ Flush(d, v, s, t).from \in Int
<1> DEFINE first == First(s, t)
           run == RunLength(s, t)
           r == transfer(d, t.m, v, first, run, s.buf, s.at)
<1>1. CachesOf(m0, t.m, v) /\ s.first \in Int /\ t.sector \in Int
  BY DEF LoopGood, LoopTyped
<1>2. first \in Int
  BY <1>1 DEF First
<1>3. CachesOf(m0, r.m, v)
  <2> HIDE DEF first, run
  <2> QED BY <1>1, <1>2, TransferKept
<1>4. CASE Breaks(s, first, t.sector)
  <2>1. Flush(d, v, s, t) = [m |-> r.m, rc |-> r.rc, buf |-> r.buf, from |-> t.sector, at |-> s.at + run]
    BY <1>4, Zenon DEF Flush
  <2> HIDE DEF r, run, first
  <2> QED BY <1>1, <1>3, <2>1
<1>5. CASE ~Breaks(s, first, t.sector)
  <2>1. Flush(d, v, s, t) = [m |-> t.m, rc |-> 0, buf |-> s.buf, from |-> first, at |-> s.at]
    BY <1>5, Zenon DEF Flush
  <2> HIDE DEF r, run, first
  <2> QED BY <1>1, <1>2, <2>1
<1> QED BY <1>4, <1>5

LEMMA CollectedKept ==
  ASSUME NEW m0, NEW d, NEW v, VolumeTyped(v), NEW t, LoopGood(m0, t, v), NEW mid, CachesOf(m0, mid.m, v),
         mid.from \in Int, NEW count
  PROVE  LoopGood(m0, Collected(d, v, t, mid, count), v)
<1> DEFINE last == t.i = count - 1 /\ ~t.eof
           run == t.sector - mid.from + 1
           whole == transfer(d, mid.m, v, mid.from, run, mid.buf, mid.at)
           end == IF last THEN whole ELSE [m |-> mid.m, rc |-> 0, buf |-> mid.buf]
           c == Collected(d, v, t, mid, count)
<1>1. CachesOf(m0, end.m, v)
  <2>1. CachesOf(m0, whole.m, v)
    <3> HIDE DEF run
    <3> QED BY TransferKept
  <2> HIDE DEF whole, last
  <2> QED BY <2>1
<1>2. \E e : c = [t EXCEPT !.m = end.m, !.first = mid.from, !.last = t.sector, !.at = mid.at,
                           !.buf = end.buf, !.i = t.i + 1, !.err = e]
  <2>1. c = TurnEnd(t, mid, end)
    BY Zenon DEF Collected
  <2> HIDE DEF end
  <2>2. c = [t EXCEPT !.m = end.m, !.first = mid.from, !.last = t.sector, !.at = mid.at,
                      !.buf = end.buf, !.i = t.i + 1, !.err = mid.rc < 0 \/ end.rc < 0]
    BY <2>1, Zenon DEF TurnEnd
  <2> QED BY <2>2, Zenon
<1> HIDE DEF c, end
<1>3. LoopFields \subseteq DOMAIN t /\ LoopTyped(t)
  BY DEF LoopGood
<1>4. DOMAIN c = DOMAIN t /\ c.m = end.m /\ c.first = mid.from /\ c.i = t.i + 1
  BY <1>2, <1>3 DEF LoopFields
<1>5. c.cluster = t.cluster /\ c.sector = t.sector /\ c.clusternum = t.clusternum /\ c.numsec = t.numsec
  BY <1>2, <1>3 DEF LoopFields
<1>6. LoopGood(m0, c, v)
  BY <1>1, <1>3, <1>4, <1>5 DEF LoopGood, LoopTyped
<1> QED BY <1>6 DEF c

(* One turn of the loop keeps the caches, whatever it has to read.         *)
LEMMA TurnKept ==
  ASSUME NEW m0, NEW d, NEW v, VolumeTyped(v), FatTyped(d), NEW f, f.firstcluster \in Int,
         NEW s, LoopGood(m0, s, v), NEW count
  PROVE  LoopGood(m0, Turn(d, v, f, s, count), v)
<1> DEFINE t == Advance(d, v, f, s)
           mid == Flush(d, v, s, t)
<1>1. CASE s.err \/ s.sector <= -1
  <2>1. Turn(d, v, f, s, count) = s
    BY <1>1, Zenon DEF Turn
  <2> QED BY <2>1
<1>2. CASE ~(s.err \/ s.sector <= -1)
  <2>1. Turn(d, v, f, s, count) = Collected(d, v, t, mid, count)
    BY <1>2, Zenon DEF Turn, Turned
  <2>2. LoopGood(m0, t, v)
    BY AdvanceKept
  <2> HIDE DEF t
  <2>3. CachesOf(m0, mid.m, v) /\ mid.from \in Int
    BY <2>2, FlushKept DEF LoopGood
  <2> HIDE DEF mid
  <2>4. LoopGood(m0, Collected(d, v, t, mid, count), v)
    BY <2>2, <2>3, CollectedKept
  <2> QED BY <2>1, <2>4
<1> QED BY <1>1, <1>2

(* The states of the loop of fat_readwrite.                                *)
LoopStart(m, f, buf) ==
  [m |-> m, cluster |-> f.lastcluster, sector |-> f.lastsector,
   clusternum |-> f.clusternum, numsec |-> f.sectornum,
   eof |-> f.eof, first |-> 0, last |-> 0, at |-> 0,
   buf |-> buf, i |-> 0, err |-> FALSE]

IsLoop(loop, d, m, v, f, count, buf) ==
  /\ loop[0] = LoopStart(m, f, buf)
  /\ \A k \in 0 .. count - 1 : loop[k + 1] = Turn(d, v, f, loop[k], count)

LEMMA ReadwriteLoop ==
  ASSUME NEW d, NEW m, NEW v, NEW f, NEW count \in Nat, NEW buf
  PROVE  \E loop : /\ IsLoop(loop, d, m, v, f, count, buf)
                   /\ fat_readwrite(d, m, v, f, count, buf) =
                        IF f.eof THEN [m |-> m, f |-> f, rc |-> 0, buf |-> buf]
                        ELSE ReadDone(f, loop[count])
<1> DEFINE start == LoopStart(m, f, buf)
           Step(g, k) == IF k = 0 THEN start ELSE Turn(d, v, f, g[k - 1], count)
           loop[k \in 0 .. count] ==
             IF k = 0 THEN start ELSE Turn(d, v, f, loop[k - 1], count)
           Built == {n \in Nat : \E g : g = [k \in 0 .. n |-> Step(g, k)]}
           r == fat_readwrite(d, m, v, f, count, buf)
<1>1. r = IF f.eof THEN [m |-> m, f |-> f, rc |-> 0, buf |-> buf] ELSE ReadDone(f, loop[count])
  BY DEF fat_readwrite, LoopStart
<1> HIDE DEF start, r
<1>2. 0 \in Built
  <2> DEFINE g == [k \in 0 .. 0 |-> start]
  <2>1. g = [k \in 0 .. 0 |-> Step(g, k)]
    OBVIOUS
  <2> QED BY <2>1
<1>3. ASSUME NEW n \in Nat, n \in Built
      PROVE  n + 1 \in Built
  <2>1. PICK g : g = [k \in 0 .. n |-> Step(g, k)]
    BY <1>3
  <2> DEFINE h == [k \in 0 .. n + 1 |-> IF k = n + 1 THEN Turn(d, v, f, g[n], count) ELSE g[k]]
  <2>2. ASSUME NEW k \in 0 .. n + 1
        PROVE  h[k] = Step(h, k)
    <3>1. CASE k = n + 1
      BY <3>1
    <3>2. CASE k # n + 1
      BY <2>1, <3>2
    <3> QED BY <3>1, <3>2
  <2>3. h = [k \in 0 .. n + 1 |-> Step(h, k)]
    BY <2>2
  <2>4. \E x : x = [k \in 0 .. n + 1 |-> Step(x, k)]
    <3> HIDE DEF h
    <3> QED BY <2>3
  <2> QED BY <2>4
<1>4. loop = [k \in 0 .. count |-> Step(loop, k)]
  <2>1. \A n \in Nat : n \in Built
    <3> HIDE DEF Built
    <3> QED BY <1>2, <1>3, Counting
  <2>2. \E g : g = [k \in 0 .. count |-> Step(g, k)]
    BY <2>1
  <2> QED BY <2>2
<1> HIDE DEF loop
<1>5. loop[0] = start /\ \A k \in 0 .. count - 1 : loop[k + 1] = Turn(d, v, f, loop[k], count)
  BY <1>4
<1>6. IsLoop(loop, d, m, v, f, count, buf)
  BY <1>5 DEF IsLoop, start
<1> QED BY <1>1, <1>6 DEF r

(* What fat_readwrite leaves, of the caches and of the file.               *)
LEMMA ReadwriteKept ==
  ASSUME NEW m0, NEW d, NEW m, NEW v, VolumeTyped(v), FatTyped(d), NEW f, FileTyped(f),
         NEW count \in Nat, NEW buf, CachesOf(m0, m, v)
  PROVE  /\ CachesOf(m0, fat_readwrite(d, m, v, f, count, buf).m, v)
         /\ FileTyped(fat_readwrite(d, m, v, f, count, buf).f)
         /\ fat_readwrite(d, m, v, f, count, buf).f.firstcluster = f.firstcluster
         /\ fat_readwrite(d, m, v, f, count, buf).rc \in Int
<1>1. PICK loop : /\ IsLoop(loop, d, m, v, f, count, buf)
                  /\ fat_readwrite(d, m, v, f, count, buf) =
                       IF f.eof THEN [m |-> m, f |-> f, rc |-> 0, buf |-> buf]
                       ELSE ReadDone(f, loop[count])
  BY ReadwriteLoop
<1> DEFINE start == LoopStart(m, f, buf)
           s == loop[count]
           r == fat_readwrite(d, m, v, f, count, buf)
           Good == {n \in Nat : n <= count => LoopGood(m0, loop[n], v)}
<1>2. LoopGood(m0, start, v)
  <2>1. start.m = m /\ start.cluster = f.lastcluster /\ start.sector = f.lastsector
    BY DEF LoopStart
  <2>2. start.clusternum = f.clusternum /\ start.numsec = f.sectornum /\ start.first = 0 /\ start.i = 0
    BY DEF LoopStart
  <2>3. LoopFields \subseteq DOMAIN start
    BY DEF LoopFields, LoopStart
  <2> HIDE DEF start
  <2> QED BY <2>1, <2>2, <2>3 DEF LoopGood, LoopTyped, FileTyped
<1> HIDE DEF start
<1>5. r = IF f.eof THEN [m |-> m, f |-> f, rc |-> 0, buf |-> buf] ELSE ReadDone(f, s)
  BY <1>1
<1> HIDE DEF r
<1>6. LoopGood(m0, s, v)
  <2>1. 0 \in Good
    BY <1>1, <1>2 DEF IsLoop, start
  <2>2. ASSUME NEW n \in Nat, n \in Good
        PROVE  n + 1 \in Good
    <3>1. SUFFICES ASSUME n + 1 <= count PROVE LoopGood(m0, loop[n + 1], v)
      OBVIOUS
    <3>2. LoopGood(m0, loop[n], v)
      BY <2>2, <3>1
    <3>3. loop[n + 1] = Turn(d, v, f, loop[n], count)
      BY <1>1, <3>1 DEF IsLoop
    <3> QED BY <3>2, <3>3, TurnKept DEF FileTyped
  <2>3. \A n \in Nat : n \in Good
    <3> HIDE DEF Good
    <3> QED BY <2>1, <2>2, Counting
  <2> QED BY <2>3
<1> HIDE DEF s
<1>7. CASE f.eof
  BY <1>5, <1>7 DEF r
<1>8. CASE ~f.eof /\ s.err
  <2>1. r = [m |-> s.m, f |-> f, rc |-> -1, buf |-> s.buf]
    BY <1>5, <1>8 DEF ReadDone
  <2> QED BY <1>6, <2>1 DEF LoopGood, r
<1>9. CASE ~f.eof /\ ~s.err
  <2>1. r = [m |-> s.m, buf |-> s.buf, rc |-> IF s.eof THEN s.i - 1 ELSE s.i,
             f |-> [f EXCEPT !.lastcluster = s.cluster, !.lastsector = s.sector,
                             !.clusternum = s.clusternum,
                             !.sectornum = s.numsec, !.eof = s.eof]]
    BY <1>5, <1>9 DEF ReadDone
  <2>2. r.m = s.m /\ r.rc \in Int
    BY <1>6, <2>1 DEF LoopGood, LoopTyped
  <2>3. r.f = [f EXCEPT !.lastcluster = s.cluster, !.lastsector = s.sector,
                        !.clusternum = s.clusternum,
                        !.sectornum = s.numsec, !.eof = s.eof]
    BY <2>1
  <2>4. DOMAIN r.f = DOMAIN f /\ r.f.firstcluster = f.firstcluster /\ r.f.lastcluster = s.cluster
    BY <2>3 DEF FileTyped, FileFields
  <2>5. r.f.lastsector = s.sector /\ r.f.clusternum = s.clusternum /\ r.f.sectornum = s.numsec
    BY <2>3 DEF FileTyped, FileFields
  <2>6. FileTyped(r.f)
    BY <1>6, <2>4, <2>5 DEF FileTyped, LoopGood, LoopTyped
  <2> QED BY <1>6, <2>2, <2>4, <2>6 DEF LoopGood, r
<1> QED BY <1>7, <1>8, <1>9

-----------------------------------------------------------------------------
(* Following a chain.                                                      *)
WalkGood(m0, s, v) == CachesOf(m0, s.m, v) /\ s.next \in Int

LEMMA FollowKept ==
  ASSUME NEW m0, NEW d, NEW v, VolumeTyped(v), FatTyped(d), NEW s, WalkGood(m0, s, v)
  PROVE  WalkGood(m0, FollowChain(d, v, s), v)
<1> DEFINE g == get_next_cluster(d, s.m, v, s.next)
<1>1. CASE s.short
  BY <1>1 DEF FollowChain
<1>2. CASE ~s.short
  <2>1. FollowChain(d, v, s) = [m |-> g.m, next |-> g.next, short |-> g.next = 0]
    BY <1>2 DEF FollowChain
  <2>2. CachesOf(m0, g.m, v) /\ g.next \in Int
    BY NextKept DEF WalkGood
  <2> HIDE DEF g
  <2> QED BY <2>1, <2>2 DEF WalkGood
<1> QED BY <1>1, <1>2

LEMMA SeekKept ==
  ASSUME NEW m0, NEW d, NEW m, NEW v, VolumeTyped(v), FatTyped(d), NEW f, FileTyped(f),
         f.firstcluster \in Nat, NEW seeksector \in Nat, CachesOf(m0, m, v)
  PROVE  /\ CachesOf(m0, fat_seek(d, m, v, f, seeksector).m, v)
         /\ FileTyped(fat_seek(d, m, v, f, seeksector).f)
         /\ fat_seek(d, m, v, f, seeksector).f.firstcluster = f.firstcluster
<1> DEFINE want == seeksector + (IF f.firstcluster < 0 THEN v.rootdiroffset ELSE 0)
           n == (want - 1) \div v.secperclus
           in == (want - 1) % v.secperclus
           from == SeekFrom(f, n)
           start == [m |-> m, next |-> from.cluster, short |-> FALSE]
           Step(g, i) == IF i = 0 THEN start ELSE FollowChain(d, v, g[i - 1])
           walk[i \in 0 .. from.steps] ==
             IF i = 0 THEN start ELSE FollowChain(d, v, walk[i - 1])
           f0 == [f EXCEPT !.eof = FALSE]
           Built == {k \in Nat : \E g : g = [i \in 0 .. k |-> Step(g, i)]}
           Good == {k \in Nat : k <= from.steps => WalkGood(m0, walk[k], v)}
           s == walk[from.steps]
           r == fat_seek(d, m, v, f, seeksector)
<1>1. want = seeksector
  OBVIOUS
<1>2. r = IF want = 0
          THEN [m |-> m, rc |-> 0,
                f |-> [f0 EXCEPT !.lastcluster = f.firstcluster, !.lastsector = 0,
                                 !.clusternum = 0, !.sectornum = 0]]
          ELSE Sought(v, f0, want, s)
  BY Zenon DEF fat_seek
<1>3. /\ DOMAIN f0 = DOMAIN f /\ f0.firstcluster = f.firstcluster
      /\ f0.lastcluster = f.lastcluster /\ f0.lastsector = f.lastsector
      /\ f0.clusternum = f.clusternum /\ f0.sectornum = f.sectornum
  BY DEF FileTyped, FileFields
<1>4. FileTyped(f0)
  <2> HIDE DEF f0
  <2> QED BY <1>3 DEF FileTyped
<1> HIDE DEF f0, want
<1>5. CASE want = 0
  <2>1. r.m = m /\ r.f = [f0 EXCEPT !.lastcluster = f.firstcluster, !.lastsector = 0,
                                    !.clusternum = 0, !.sectornum = 0]
    BY <1>2, <1>5
  <2> HIDE DEF r
  <2>2. DOMAIN r.f = DOMAIN f0 /\ r.f.firstcluster = f0.firstcluster
    BY <1>4, <2>1 DEF FileTyped, FileFields
  <2>3. r.f.lastcluster = f.firstcluster /\ r.f.lastsector = 0 /\ r.f.clusternum = 0
    BY <1>4, <2>1 DEF FileTyped, FileFields
  <2>4. r.f.sectornum = 0
    BY <1>4, <2>1 DEF FileTyped, FileFields
  <2>5. FileTyped(r.f)
    BY <1>3, <1>4, <2>2, <2>3, <2>4 DEF FileTyped
  <2> QED BY <1>3, <2>1, <2>2, <2>5 DEF r
<1>6. CASE want # 0
  <2>1. want \in Nat /\ want - 1 \in Nat
    BY <1>1, <1>6
  <2>2. n \in Nat /\ in \in Nat
    BY <2>1 DEF VolumeTyped
  <2> HIDE DEF n, in
  <2>3. from.steps \in Nat /\ from.cluster \in Int
    BY <2>2 DEF SeekFrom, FileTyped
  <2> HIDE DEF from
  <2>4. WalkGood(m0, start, v)
    BY <2>3 DEF WalkGood
  <2> HIDE DEF start
  <2>5. 0 \in Built
    <3> DEFINE g == [i \in 0 .. 0 |-> start]
    <3>1. g = [i \in 0 .. 0 |-> Step(g, i)]
      OBVIOUS
    <3> QED BY <3>1
  <2>6. ASSUME NEW k \in Nat, k \in Built
        PROVE  k + 1 \in Built
    <3>1. PICK g : g = [i \in 0 .. k |-> Step(g, i)]
      BY <2>6
    <3> DEFINE h == [i \in 0 .. k + 1 |-> IF i = k + 1 THEN FollowChain(d, v, g[k]) ELSE g[i]]
    <3>2. ASSUME NEW i \in 0 .. k + 1
          PROVE  h[i] = Step(h, i)
      <4>1. CASE i = k + 1
        BY <4>1
      <4>2. CASE i # k + 1
        BY <3>1, <4>2
      <4> QED BY <4>1, <4>2
    <3>3. h = [i \in 0 .. k + 1 |-> Step(h, i)]
      BY <3>2
    <3>4. \E x : x = [i \in 0 .. k + 1 |-> Step(x, i)]
      <4> HIDE DEF h
      <4> QED BY <3>3
    <3> QED BY <3>4
  <2>7. walk = [i \in 0 .. from.steps |-> Step(walk, i)]
    <3>1. \A k \in Nat : k \in Built
      <4> HIDE DEF Built
      <4> QED BY <2>5, <2>6, Counting
    <3>2. \E g : g = [i \in 0 .. from.steps |-> Step(g, i)]
      BY <2>3, <3>1
    <3> QED BY <3>2
  <2> HIDE DEF walk
  <2>8. WalkGood(m0, s, v)
    <3>1. 0 \in Good
      BY <2>3, <2>4, <2>7
    <3>2. ASSUME NEW k \in Nat, k \in Good
          PROVE  k + 1 \in Good
      <4>1. SUFFICES ASSUME k + 1 <= from.steps PROVE WalkGood(m0, walk[k + 1], v)
        OBVIOUS
      <4>2. WalkGood(m0, walk[k], v)
        BY <2>3, <3>2, <4>1
      <4>3. walk[k + 1] = FollowChain(d, v, walk[k])
        BY <2>3, <2>7, <4>1
      <4> QED BY <4>2, <4>3, FollowKept
    <3>3. \A k \in Nat : k \in Good
      <4> HIDE DEF Good
      <4> QED BY <3>1, <3>2, Counting
    <3> QED BY <2>3, <3>3
  <2> HIDE DEF s
  <2>9. r = Sought(v, f0, want, s)
    BY <1>2, <1>6
  <2> HIDE DEF r
  <2>10. r.m = s.m
    BY <2>9 DEF Sought
  <2>11. CASE s.short
    <3>1. r.f = f0
      BY <2>9, <2>11 DEF Sought
    <3> QED BY <1>3, <1>4, <2>8, <2>10, <3>1 DEF WalkGood, r
  <2>12. CASE ~s.short
    <3> DEFINE last == cluster2sec(v, s.next) + in
    <3>1. r.f = [f0 EXCEPT !.lastcluster = s.next, !.clusternum = n,
                           !.lastsector = last, !.sectornum = in + 1]
      BY <2>9, <2>12 DEF Sought, n, in
    <3>2. last \in Int
      BY <2>2, <2>8, SectorOf DEF WalkGood
    <3> HIDE DEF last
    <3>3. DOMAIN r.f = DOMAIN f0 /\ r.f.firstcluster = f0.firstcluster /\ r.f.lastsector = last
      BY <1>4, <3>1 DEF FileTyped, FileFields
    <3>4. r.f.lastcluster = s.next /\ r.f.clusternum = n /\ r.f.sectornum = in + 1
      BY <1>4, <3>1 DEF FileTyped, FileFields
    <3>5. FileTyped(r.f)
      BY <1>4, <2>2, <2>8, <3>2, <3>3, <3>4 DEF FileTyped, WalkGood
    <3> QED BY <1>3, <2>8, <2>10, <3>3, <3>5 DEF WalkGood, r
  <2> QED BY <2>11, <2>12
<1> QED BY <1>5, <1>6

-----------------------------------------------------------------------------
(* Directories.                                                            *)
DirFields == {"entry", "sector", "buf", "file"}

DirTyped(dir) ==
  DirFields \subseteq DOMAIN dir /\ dir.entry \in Nat /\ FileTyped(dir.file)

EntriesTyped(d) ==
  \A s \in DOMAIN d.dir, i \in 1 .. DIR_ENTRIES_PER_SECTOR :
    d.dir[s][i].kind \in {"file", "dir"} =>
      d.dir[s][i].first \in Nat /\ d.dir[s][i].size \in Nat

ScanGood(m0, s, v) ==
  /\ CachesOf(m0, s.m, v) /\ DirTyped(s.dir)
  /\ s.state = "found" => s.entry.first \in Nat /\ s.entry.size \in Nat

LEMMA OpendirTyped ==
  ASSUME NEW v, VolumeTyped(v), NEW cluster \in Int, NEW buf
  PROVE  DirTyped(fat_opendir(v, cluster, buf))
<1> DEFINE first == IF cluster = 0 THEN v.rootclus ELSE cluster
           dir == fat_opendir(v, cluster, buf)
<1>1. first \in Int
  BY DEF VolumeTyped
<1>2. dir = [entry |-> 0, sector |-> 0, buf |-> buf, file |-> fat_open(first)]
  BY DEF fat_opendir
<1> HIDE DEF first
<1>3. FileTyped(fat_open(first))
  BY <1>1 DEF FileTyped, FileFields, fat_open
<1> QED BY <1>2, <1>3 DEF DirTyped, DirFields

LEMMA DirSectorKept ==
  ASSUME NEW m0, NEW d, NEW m, NEW v, VolumeTyped(v), FatTyped(d), NEW dir, DirTyped(dir), CachesOf(m0, m, v)
  PROVE  CachesOf(m0, DirSector(d, m, v, dir).m, v) /\ DirTyped(DirSector(d, m, v, dir).dir)
<1> DEFINE old == <<dir.buf>>
           r == fat_readwrite(d, m, v, dir.file, 1, old)
           e == DirSector(d, m, v, dir)
<1>1. CASE dir.entry % DIR_ENTRIES_PER_SECTOR = 0 \/ dir.sector = 0
  <2>1. e = DirFilled(dir, r)
    BY <1>1 DEF DirSector
  <2> HIDE DEF old
  <2>2. CachesOf(m0, r.m, v) /\ FileTyped(r.f)
    BY ReadwriteKept DEF DirTyped
  <2> HIDE DEF r
  <2>3. e.m = r.m /\ \E a, b : e.dir = [dir EXCEPT !.file = r.f, !.buf = a, !.sector = b]
    <3> DEFINE b == IF r.rc > 0 THEN r.f.lastsector ELSE dir.sector
    <3>1. e.m = r.m /\ e.dir = [dir EXCEPT !.file = r.f, !.buf = r.buf[1],
                                           !.sector = IF r.rc > 0 THEN r.f.lastsector ELSE @]
      BY <2>1 DEF DirFilled
    <3>2. e.dir = [dir EXCEPT !.file = r.f, !.buf = r.buf[1], !.sector = b]
      BY <3>1, Zenon
    <3> QED BY <3>1, <3>2, Zenon
  <2> HIDE DEF e
  <2>4. DOMAIN e.dir = DOMAIN dir /\ e.dir.file = r.f /\ e.dir.entry = dir.entry
    BY <2>3 DEF DirTyped, DirFields
  <2>5. DirTyped(e.dir)
    BY <2>2, <2>4 DEF DirTyped
  <2> QED BY <2>2, <2>3, <2>5 DEF e
<1>2. CASE ~(dir.entry % DIR_ENTRIES_PER_SECTOR = 0 \/ dir.sector = 0)
  <2>1. e = [m |-> m, rc |-> 1, dir |-> dir]
    BY <1>2 DEF DirSector
  <2> QED BY <2>1
<1> QED BY <1>1, <1>2

LEMMA LookKept ==
  ASSUME NEW m0, NEW d, NEW v, EntriesTyped(d), NEW r, CachesOf(m0, r.m, v), DirTyped(r.dir),
         NEW name, NEW dironly
  PROVE  ScanGood(m0, Look(d, r, name, dironly), v)
<1> DEFINE i == r.dir.entry % DIR_ENTRIES_PER_SECTOR
           e == DirEntry(d, r.dir.buf, i)
           next == [r.dir EXCEPT !.entry = @ + 1]
           s == Look(d, r, name, dironly)
           this == \/ e.kind = "dir" /\ e.name = name
                   \/ e.kind = "file" /\ e.name = name /\ ~dironly
<1>1. DirTyped(next)
  <2>1. DOMAIN next = DOMAIN r.dir /\ next.entry = r.dir.entry + 1 /\ next.file = r.dir.file
    BY DEF DirTyped, DirFields
  <2> HIDE DEF next
  <2> QED BY <2>1 DEF DirTyped
<1>2. ASSUME this PROVE e.first \in Nat /\ e.size \in Nat
  <2>1. i \in 0 .. DIR_ENTRIES_PER_SECTOR - 1 /\ i + 1 \in 1 .. DIR_ENTRIES_PER_SECTOR
    BY Sizes DEF DirTyped
  <2> HIDE DEF i
  <2>2. e.kind \in {"dir", "file"}
    BY <1>2
  <2>3. e = d.dir[r.dir.buf][i + 1] /\ r.dir.buf \in DOMAIN d.dir
    BY <2>2 DEF DirEntry, EndOfDir
  <2> HIDE DEF e
  <2> QED BY <2>1, <2>2, <2>3 DEF EntriesTyped
<1> HIDE DEF next, e
<1>3. CASE r.rc <= 0
  <2>1. s = [m |-> r.m, dir |-> r.dir, state |-> "none"]
    BY <1>3, Zenon DEF Look
  <2> HIDE DEF s
  <2> QED BY <2>1 DEF ScanGood, s
<1>4. CASE ~(r.rc <= 0) /\ e.kind = "end"
  <2>1. s = [m |-> r.m, dir |-> next, state |-> "none"]
    BY <1>4, Zenon DEF Look, e, next
  <2> HIDE DEF s
  <2> QED BY <1>1, <2>1 DEF ScanGood, s
<1>5. CASE ~(r.rc <= 0) /\ e.kind # "end" /\ this
  <2>1. s = [m |-> r.m, dir |-> next, state |-> "found", entry |-> e]
    BY <1>5, Zenon DEF Look, e, next
  <2> HIDE DEF s
  <2>2. s.m = r.m /\ s.dir = next /\ s.entry = e
    BY <2>1
  <2>3. e.first \in Nat /\ e.size \in Nat
    BY <1>2, <1>5
  <2> QED BY <1>1, <2>2, <2>3 DEF ScanGood, s
<1>6. CASE ~(r.rc <= 0) /\ e.kind # "end" /\ ~this
  <2>1. s = [m |-> r.m, dir |-> next, state |-> "on"]
    BY <1>6, Zenon DEF Look, e, next
  <2> HIDE DEF s
  <2> QED BY <1>1, <2>1 DEF ScanGood, s
<1> QED BY <1>3, <1>4, <1>5, <1>6

LEMMA LookOnKept ==
  ASSUME NEW m0, NEW d, NEW v, VolumeTyped(v), FatTyped(d), EntriesTyped(d), NEW s, ScanGood(m0, s, v),
         NEW name, NEW dironly
  PROVE  ScanGood(m0, LookOn(d, v, s, name, dironly), v)
<1> DEFINE r == DirSector(d, s.m, v, s.dir)
<1>1. CASE s.state # "on"
  BY <1>1 DEF LookOn
<1>2. CASE s.state = "on"
  <2>1. LookOn(d, v, s, name, dironly) = Look(d, r, name, dironly)
    BY <1>2 DEF LookOn
  <2>2. CachesOf(m0, r.m, v) /\ DirTyped(r.dir)
    BY DirSectorKept DEF ScanGood
  <2> HIDE DEF r
  <2> QED BY <2>1, <2>2, LookKept
<1> QED BY <1>1, <1>2

(* The states of the loop of a search in a directory.                      *)
IsScan(walk, d, m, v, dir, name, dironly) ==
  /\ walk[0] = [m |-> m, dir |-> dir, state |-> "on"]
  /\ \A i \in 0 .. MaxDirSectors * DIR_ENTRIES_PER_SECTOR - 1 :
       walk[i + 1] = LookOn(d, v, walk[i], name, dironly)

LEMMA ScanLoop ==
  ASSUME NEW d, NEW m, NEW v, NEW dir, NEW name, NEW dironly
  PROVE  \E walk : /\ IsScan(walk, d, m, v, dir, name, dironly)
                   /\ scan(d, m, v, dir, name, dironly)
                        = walk[MaxDirSectors * DIR_ENTRIES_PER_SECTOR]
<1> DEFINE most == MaxDirSectors * DIR_ENTRIES_PER_SECTOR
           start == [m |-> m, dir |-> dir, state |-> "on"]
           Step(g, i) == IF i = 0 THEN start ELSE LookOn(d, v, g[i - 1], name, dironly)
           walk[i \in 0 .. most] ==
             IF i = 0 THEN start ELSE LookOn(d, v, walk[i - 1], name, dironly)
           Built == {k \in Nat : \E g : g = [i \in 0 .. k |-> Step(g, i)]}
           s == scan(d, m, v, dir, name, dironly)
<1>1. most \in Nat
  BY Sizes
<1>2. s = walk[most]
  BY DEF scan
<1> HIDE DEF most, start, s
<1>4. 0 \in Built
  <2> DEFINE g == [i \in 0 .. 0 |-> start]
  <2>1. g = [i \in 0 .. 0 |-> Step(g, i)]
    OBVIOUS
  <2> QED BY <2>1
<1>5. ASSUME NEW k \in Nat, k \in Built
      PROVE  k + 1 \in Built
  <2>1. PICK g : g = [i \in 0 .. k |-> Step(g, i)]
    BY <1>5
  <2> DEFINE h == [i \in 0 .. k + 1 |-> IF i = k + 1 THEN LookOn(d, v, g[k], name, dironly) ELSE g[i]]
  <2>2. ASSUME NEW i \in 0 .. k + 1
        PROVE  h[i] = Step(h, i)
    <3>1. CASE i = k + 1
      BY <3>1
    <3>2. CASE i # k + 1
      BY <2>1, <3>2
    <3> QED BY <3>1, <3>2
  <2>3. h = [i \in 0 .. k + 1 |-> Step(h, i)]
    BY <2>2
  <2>4. \E x : x = [i \in 0 .. k + 1 |-> Step(x, i)]
    <3> HIDE DEF h
    <3> QED BY <2>3
  <2> QED BY <2>4
<1>6. walk = [i \in 0 .. most |-> Step(walk, i)]
  <2>1. \A k \in Nat : k \in Built
    <3> HIDE DEF Built
    <3> QED BY <1>4, <1>5, Counting
  <2>2. \E g : g = [i \in 0 .. most |-> Step(g, i)]
    BY <1>1, <2>1
  <2> QED BY <2>2
<1> HIDE DEF walk
<1>7. walk[0] = start /\ \A i \in 0 .. most - 1 : walk[i + 1] = LookOn(d, v, walk[i], name, dironly)
  BY <1>1, <1>6
<1>8. IsScan(walk, d, m, v, dir, name, dironly)
  BY <1>7 DEF IsScan, start, most
<1> QED BY <1>2, <1>8 DEF s, most

LEMMA ScanKept ==
  ASSUME NEW m0, NEW d, NEW m, NEW v, VolumeTyped(v), FatTyped(d), EntriesTyped(d),
         NEW dir, DirTyped(dir), CachesOf(m0, m, v), NEW name, NEW dironly
  PROVE  ScanGood(m0, scan(d, m, v, dir, name, dironly), v)
<1> DEFINE most == MaxDirSectors * DIR_ENTRIES_PER_SECTOR
<1>1. most \in Nat
  BY Sizes
<1>2. PICK walk : IsScan(walk, d, m, v, dir, name, dironly)
                  /\ scan(d, m, v, dir, name, dironly) = walk[most]
  BY ScanLoop
<1> DEFINE Good == {k \in Nat : k <= most => ScanGood(m0, walk[k], v)}
<1>3. /\ walk[0] = [m |-> m, dir |-> dir, state |-> "on"]
      /\ \A i \in 0 .. most - 1 : walk[i + 1] = LookOn(d, v, walk[i], name, dironly)
  BY <1>2 DEF IsScan
<1> HIDE DEF most
<1>4. 0 \in Good
  BY <1>3 DEF ScanGood
<1>5. ASSUME NEW k \in Nat, k \in Good
      PROVE  k + 1 \in Good
  <2>1. SUFFICES ASSUME k + 1 <= most PROVE ScanGood(m0, walk[k + 1], v)
    OBVIOUS
  <2>2. ScanGood(m0, walk[k], v)
    BY <1>1, <1>5, <2>1
  <2>3. walk[k + 1] = LookOn(d, v, walk[k], name, dironly)
    BY <1>1, <1>3, <2>1
  <2> QED BY <2>2, <2>3, LookOnKept
<1>6. \A k \in Nat : k \in Good
  <2> HIDE DEF Good
  <2> QED BY <1>4, <1>5, Counting
<1> QED BY <1>1, <1>2, <1>6

(* Down a path: the descriptor stays one of a directory.                   *)
DownGood(m0, o, v) == CachesOf(m0, o.m, v) /\ DirTyped(o.dir)

LEMMA DownKept ==
  ASSUME NEW m0, NEW d, NEW v, VolumeTyped(v), FatTyped(d), EntriesTyped(d), NEW o, DownGood(m0, o, v),
         NEW name
  PROVE  DownGood(m0, Down(d, v, o, name), v)
<1> DEFINE s == scan(d, o.m, v, o.dir, name, TRUE)
<1>1. CASE o.state # "found"
  BY <1>1 DEF Down
<1>2. CASE o.state = "found"
  <2>1. Down(d, v, o, name) = Enter(v, s)
    BY <1>2 DEF Down
  <2>2. ScanGood(m0, s, v)
    BY ScanKept DEF DownGood
  <2> HIDE DEF s
  <2>3. CASE s.state # "found"
    BY <2>1, <2>2, <2>3 DEF Enter, ScanGood, DownGood
  <2>4. CASE s.state = "found"
    <3> DEFINE dir == fat_opendir(v, s.entry.first, s.dir.buf)
    <3>1. DirTyped(dir)
      BY <2>2, <2>4, OpendirTyped DEF ScanGood
    <3>2. Enter(v, s) = [m |-> s.m, state |-> "found", dir |-> dir]
      BY <2>4 DEF Enter
    <3> HIDE DEF dir
    <3> QED BY <2>1, <2>2, <3>1, <3>2 DEF ScanGood, DownGood
  <2> QED BY <2>3, <2>4
<1> QED BY <1>1, <1>2

(* The descriptors on the way down a path.                                 *)
IsWay(down, d, m, v, path, buf) ==
  /\ down[0] = [m |-> m, dir |-> fat_opendir(v, 0, buf), state |-> "found"]
  /\ \A i \in 0 .. Len(path) - 1 : down[i + 1] = Down(d, v, down[i], path[i + 1])

LEMMA DownLoop ==
  ASSUME NEW d, NEW m, NEW v, NEW path, Len(path) \in Nat, NEW buf
  PROVE  \E down : IsWay(down, d, m, v, path, buf) /\ rb_opendir(d, m, v, path, buf) = down[Len(path)]
<1> DEFINE most == Len(path)
           start == [m |-> m, dir |-> fat_opendir(v, 0, buf), state |-> "found"]
           Step(g, i) == IF i = 0 THEN start ELSE Down(d, v, g[i - 1], path[i])
           down[i \in 0 .. most] ==
             IF i = 0 THEN start ELSE Down(d, v, down[i - 1], path[i])
           Built == {k \in Nat : \E g : g = [i \in 0 .. k |-> Step(g, i)]}
           o == rb_opendir(d, m, v, path, buf)
<1>1. o = down[most]
  BY DEF rb_opendir
<1>2. most \in Nat
  OBVIOUS
<1> HIDE DEF most, start, o
<1>4. 0 \in Built
  <2> DEFINE g == [i \in 0 .. 0 |-> start]
  <2>1. g = [i \in 0 .. 0 |-> Step(g, i)]
    OBVIOUS
  <2> QED BY <2>1
<1>5. ASSUME NEW k \in Nat, k \in Built
      PROVE  k + 1 \in Built
  <2>1. PICK g : g = [i \in 0 .. k |-> Step(g, i)]
    BY <1>5
  <2> DEFINE h == [i \in 0 .. k + 1 |-> IF i = k + 1 THEN Down(d, v, g[k], path[i]) ELSE g[i]]
  <2>2. ASSUME NEW i \in 0 .. k + 1
        PROVE  h[i] = Step(h, i)
    <3>1. CASE i = k + 1
      BY <3>1
    <3>2. CASE i # k + 1
      BY <2>1, <3>2
    <3> QED BY <3>1, <3>2
  <2>3. h = [i \in 0 .. k + 1 |-> Step(h, i)]
    BY <2>2
  <2>4. \E x : x = [i \in 0 .. k + 1 |-> Step(x, i)]
    <3> HIDE DEF h
    <3> QED BY <2>3
  <2> QED BY <2>4
<1>6. down = [i \in 0 .. most |-> Step(down, i)]
  <2>1. \A k \in Nat : k \in Built
    <3> HIDE DEF Built
    <3> QED BY <1>4, <1>5, Counting
  <2>2. \E g : g = [i \in 0 .. most |-> Step(g, i)]
    BY <1>2, <2>1
  <2> QED BY <2>2
<1> HIDE DEF down
<1>7. down[0] = start /\ \A i \in 0 .. most - 1 : down[i + 1] = Down(d, v, down[i], path[i + 1])
  BY <1>2, <1>6
<1>8. IsWay(down, d, m, v, path, buf)
  BY <1>7 DEF IsWay, start, most
<1> QED BY <1>1, <1>8 DEF o, most

LEMMA RbOpendirKept ==
  ASSUME NEW m0, NEW d, NEW m, NEW v, VolumeTyped(v), FatTyped(d), EntriesTyped(d),
         NEW path, Len(path) \in Nat, NEW buf, CachesOf(m0, m, v)
  PROVE  DownGood(m0, rb_opendir(d, m, v, path, buf), v)
<1> DEFINE most == Len(path)
<1>1. PICK down : IsWay(down, d, m, v, path, buf) /\ rb_opendir(d, m, v, path, buf) = down[most]
  BY DownLoop
<1> DEFINE start == [m |-> m, dir |-> fat_opendir(v, 0, buf), state |-> "found"]
           Good == {k \in Nat : k <= most => DownGood(m0, down[k], v)}
<1>2. most \in Nat
  OBVIOUS
<1>3. DownGood(m0, start, v)
  BY OpendirTyped DEF DownGood
<1>4. down[0] = start /\ \A i \in 0 .. most - 1 : down[i + 1] = Down(d, v, down[i], path[i + 1])
  BY <1>1 DEF IsWay
<1> HIDE DEF most, start
<1>5. 0 \in Good
  BY <1>3, <1>4
<1>6. ASSUME NEW k \in Nat, k \in Good
      PROVE  k + 1 \in Good
  <2>1. SUFFICES ASSUME k + 1 <= most PROVE DownGood(m0, down[k + 1], v)
    OBVIOUS
  <2>2. DownGood(m0, down[k], v)
    BY <1>2, <1>6, <2>1
  <2>3. down[k + 1] = Down(d, v, down[k], path[k + 1])
    BY <1>2, <1>4, <2>1
  <2> QED BY <2>2, <2>3, DownKept
<1>7. \A k \in Nat : k \in Good
  <2> HIDE DEF Good
  <2> QED BY <1>5, <1>6, Counting
<1> QED BY <1>1, <1>2, <1>7

-----------------------------------------------------------------------------
(* Mounting.  Until a volume was taken no sector of a FAT is in the cache. *)
FatEmpty(fat) == \A x \in Entries : ~fat[x].inuse

BootSector(b) ==
  /\ b.secperclus \in Nat /\ b.rsvd \in Nat /\ b.numfats \in Nat /\ b.fatsize \in Nat
  /\ b.totalsectors \in Nat /\ b.rootdirsectors \in Nat /\ b.rootclus \in Nat
  /\ b.fsinfo \in Nat

BootTyped(d) == \A s \in DOMAIN d.boot : BootSector(d.boot[s])

PartsTyped(d) ==
  Len(d.parts) \in Nat /\ \A i \in 1 .. Len(d.parts) : d.parts[i].start \in Nat

MountGood(m0, t) ==
  /\ CachesOf(m0, t.m, t.v)
  /\ t.rc # 0 => FatEmpty(t.m.fat)
  /\ t.v.mounted => VolumeTyped(t.v)

LEMMA EmptyFits ==
  ASSUME NEW m0, NEW m, NEW v, CachesOf(m0, m, v), FatEmpty(m.fat), NEW w
  PROVE  CachesOf(m0, m, w)
BY DEF CachesOf, FatEmpty, SectorsOf

LEMMA RecalcKept ==
  ASSUME NEW m0, NEW d, NEW m, NEW v, VolumeTyped(v), CachesOf(m0, m, v)
  PROVE  CachesOf(m0, fat_recalc_free(d, m, v), v)
<1> DEFINE most == v.fatsize
           Step(g, i) == IF i = 0 THEN m ELSE cache_fat_sector(d, g[i - 1], v, i - 1).m
           after[i \in 0 .. most] ==
             IF i = 0 THEN m ELSE cache_fat_sector(d, after[i - 1], v, i - 1).m
           Built == {k \in Nat : \E g : g = [i \in 0 .. k |-> Step(g, i)]}
           Good == {k \in Nat : k <= most => CachesOf(m0, after[k], v)}
<1>1. fat_recalc_free(d, m, v) = after[most]
  BY DEF fat_recalc_free
<1>2. most \in Nat
  BY DEF VolumeTyped
<1> HIDE DEF most
<1>4. 0 \in Built
  <2> DEFINE g == [i \in 0 .. 0 |-> m]
  <2>1. g = [i \in 0 .. 0 |-> Step(g, i)]
    OBVIOUS
  <2> QED BY <2>1
<1>5. ASSUME NEW k \in Nat, k \in Built
      PROVE  k + 1 \in Built
  <2>1. PICK g : g = [i \in 0 .. k |-> Step(g, i)]
    BY <1>5
  <2> DEFINE h == [i \in 0 .. k + 1 |-> IF i = k + 1 THEN cache_fat_sector(d, g[k], v, k).m ELSE g[i]]
  <2>2. ASSUME NEW i \in 0 .. k + 1
        PROVE  h[i] = Step(h, i)
    <3>1. CASE i = k + 1
      BY <3>1
    <3>2. CASE i # k + 1
      BY <2>1, <3>2
    <3> QED BY <3>1, <3>2
  <2>3. h = [i \in 0 .. k + 1 |-> Step(h, i)]
    BY <2>2
  <2>4. \E x : x = [i \in 0 .. k + 1 |-> Step(x, i)]
    <3> HIDE DEF h
    <3> QED BY <2>3
  <2> QED BY <2>4
<1>6. after = [i \in 0 .. most |-> Step(after, i)]
  <2>1. \A k \in Nat : k \in Built
    <3> HIDE DEF Built
    <3> QED BY <1>4, <1>5, Counting
  <2>2. \E g : g = [i \in 0 .. most |-> Step(g, i)]
    BY <1>2, <2>1
  <2> QED BY <2>2
<1> HIDE DEF after
<1>7. 0 \in Good
  BY <1>2, <1>6
<1>8. ASSUME NEW k \in Nat, k \in Good
      PROVE  k + 1 \in Good
  <2>1. SUFFICES ASSUME k + 1 <= most PROVE CachesOf(m0, after[k + 1], v)
    OBVIOUS
  <2>2. CachesOf(m0, after[k], v)
    BY <1>2, <1>8, <2>1
  <2>3. after[k + 1] = cache_fat_sector(d, after[k], v, k).m
    BY <1>2, <1>6, <2>1
  <2> QED BY <2>2, <2>3, FatSectorKept
<1>9. \A k \in Nat : k \in Good
  <2> HIDE DEF Good
  <2> QED BY <1>7, <1>8, Counting
<1> QED BY <1>1, <1>2, <1>9

(* The volume that a boot sector makes when it is taken.                   *)
Taken(b, startsector) == [Bpb(b, startsector) EXCEPT !.mounted = TRUE]

LEMMA BpbTyped ==
  ASSUME NEW b, BootSector(b), b.secperclus # 0, NEW startsector \in Int
  PROVE  /\ VolumeTyped(Bpb(b, startsector)) /\ Bpb(b, startsector).mounted = FALSE
         /\ Bpb(b, startsector).startsector = startsector
         /\ VolumeTyped(Taken(b, startsector))
         /\ Taken(b, startsector).startsector = startsector
<1> DEFINE fds == b.rsvd + b.rootdirsectors + b.numfats * b.fatsize
           clusters == (b.totalsectors - fds) \div b.secperclus
           dirclus == (b.rootdirsectors + b.secperclus - 1) \div b.secperclus
           fat16 == clusters < Fat32Least
           rootclus == IF fat16 THEN 0 - dirclus ELSE b.rootclus
           offset == IF fat16 THEN dirclus * b.secperclus - b.rootdirsectors ELSE 0
           w == Bpb(b, startsector)
           x == [w EXCEPT !.mounted = TRUE]
<1>1. /\ b.secperclus \in Nat \ {0} /\ b.rsvd \in Nat /\ b.numfats \in Nat /\ b.fatsize \in Nat
      /\ b.totalsectors \in Nat /\ b.rootdirsectors \in Nat /\ b.rootclus \in Nat
  BY DEF BootSector
<1>2. w = [mounted |-> FALSE, startsector |-> startsector, rsvd |-> b.rsvd,
           secperclus |-> b.secperclus, fatsize |-> b.fatsize,
           firstdatasector |-> fds, dataclusters |-> clusters, is_fat16 |-> fat16,
           rootclus |-> rootclus, rootdiroffset |-> offset]
  BY Zenon DEF Bpb
<1>3. fds \in Int
  <2>1. b.numfats * b.fatsize \in Int
    BY <1>1
  <2> QED BY <1>1, <2>1
<1> HIDE DEF fds
<1>4. clusters \in Int
  BY <1>1, <1>3
<1>5. dirclus \in Int
  BY <1>1
<1> HIDE DEF dirclus, clusters
<1>6. rootclus \in Int /\ offset \in Int
  <2>1. dirclus * b.secperclus \in Int
    BY <1>1, <1>5
  <2> QED BY <1>1, <1>5, <2>1
<1> HIDE DEF rootclus, offset, fat16, w
<1>7. /\ w.startsector = startsector /\ w.rsvd = b.rsvd /\ w.secperclus = b.secperclus
      /\ w.fatsize = b.fatsize /\ w.firstdatasector = fds /\ w.dataclusters = clusters
      /\ w.rootclus = rootclus /\ w.rootdiroffset = offset /\ w.mounted = FALSE
  BY <1>2
<1>8. VolumeTyped(w)
  BY <1>1, <1>3, <1>4, <1>6, <1>7 DEF VolumeTyped
<1>9. {"mounted", "startsector", "rsvd", "secperclus", "fatsize", "firstdatasector",
       "dataclusters", "is_fat16", "rootclus", "rootdiroffset"} = DOMAIN w
  BY <1>2
<1>10. /\ x.startsector = w.startsector /\ x.rsvd = w.rsvd /\ x.secperclus = w.secperclus
       /\ x.fatsize = w.fatsize
  BY <1>9
<1>11. /\ x.firstdatasector = w.firstdatasector /\ x.dataclusters = w.dataclusters
       /\ x.rootclus = w.rootclus /\ x.rootdiroffset = w.rootdiroffset
  BY <1>9
<1> HIDE DEF x
<1>12. VolumeTyped(x)
  BY <1>8, <1>10, <1>11 DEF VolumeTyped
<1> QED BY <1>7, <1>8, <1>10, <1>12 DEF w, x, Taken

LEMMA BootedKept ==
  ASSUME NEW m0, NEW d, BootTyped(d), NEW v, v.mounted => VolumeTyped(v), NEW startsector \in Int,
         NEW r, CachesOf(m0, r.m, v), FatEmpty(r.m.fat)
  PROVE  MountGood(m0, Booted(d, v, startsector, r))
<1> DEFINE b == Boot(d, r.buf[1])
           w == Bpb(b, startsector)
           x == Taken(b, startsector)
           t == Booted(d, v, startsector, r)
<1>1. \A u : CachesOf(m0, r.m, u)
  BY EmptyFits
<1>2. CASE r.rc # 0
  <2>1. t = [m |-> r.m, v |-> v, rc |-> -1, exit |-> FALSE]
    BY <1>2, Zenon DEF Booted
  <2>2. t.m = r.m /\ t.v = v
    BY <2>1
  <2> HIDE DEF t
  <2> QED BY <2>2 DEF MountGood, t
<1>3. CASE r.rc = 0 /\ (b.secperclus = 0 \/ ~b.sane)
  <2>1. t = [m |-> r.m, v |-> NotMounted, rc |-> -2, exit |-> FALSE]
    BY <1>3, Zenon DEF Booted
  <2>2. t.m = r.m /\ t.v = NotMounted
    BY <2>1
  <2>3. NotMounted.mounted = FALSE
    BY DEF NotMounted
  <2> HIDE DEF t
  <2> QED BY <1>1, <2>2, <2>3 DEF MountGood, t
<1>4. CASE r.rc = 0 /\ ~(b.secperclus = 0 \/ ~b.sane)
  <2>1. BootSector(b) /\ b.secperclus # 0 /\ b.fsinfo \in Nat
    BY <1>4 DEF Boot, BootTyped, BootSector
  <2>2. /\ VolumeTyped(w) /\ w.mounted = FALSE /\ VolumeTyped(x)
        /\ x.startsector = startsector /\ w.startsector = startsector
    <3> HIDE DEF b
    <3> QED BY <2>1, BpbTyped
  <2>3. \A m : CachesOf(m0, m, w) => CachesOf(m0, m, x)
    <3> HIDE DEF w, x
    <3> QED BY <2>2 DEF CachesOf, SectorsOf
  <2>4. CASE w.dataclusters < Fat16Least
    <3>1. t = [m |-> r.m, v |-> w, rc |-> -2, exit |-> FALSE]
      BY <1>4, <2>4, Zenon DEF Booted
    <3> HIDE DEF w, t
    <3>2. t.m = r.m /\ t.v = w
      BY <3>1
    <3> QED BY <1>1, <2>2, <3>2 DEF MountGood, t
  <2>5. CASE ~(w.dataclusters < Fat16Least) /\ w.is_fat16
    <3>1. t = [m |-> fat_recalc_free(d, r.m, w), v |-> x, rc |-> 0, exit |-> FALSE]
      BY <1>4, <2>5, Zenon DEF Booted, Taken
    <3> HIDE DEF w, x, t
    <3>2. t.m = fat_recalc_free(d, r.m, w) /\ t.v = x /\ t.rc = 0
      BY <3>1
    <3>3. CachesOf(m0, t.m, x)
      BY <1>1, <2>2, <2>3, <3>2, RecalcKept
    <3> QED BY <2>2, <3>2, <3>3 DEF MountGood, t
  <2>6. CASE ~(w.dataclusters < Fat16Least) /\ ~w.is_fat16
    <3> DEFINE at == startsector + b.fsinfo
               info == storage_read_sectors(d, r.m, at, 1, r.buf)
               unset == info.buf[1] \in d.unset
               m == IF unset THEN fat_recalc_free(d, info.m, w) ELSE info.m
    <3>1. t = Counted(d, w, info)
      BY <1>4, <2>6, Zenon DEF Booted
    <3>2. t = [m |-> m, v |-> x, rc |-> 0, exit |-> unset]
      BY <3>1, Zenon DEF Counted, Taken
    <3>3. at \in Int
      BY <2>1
    <3> HIDE DEF at, w, x, t
    <3>4. CachesOf(m0, info.m, w)
      BY <1>1, <3>3, ReadKept
    <3> HIDE DEF info
    <3>5. CachesOf(m0, m, w)
      BY <2>2, <3>4, RecalcKept
    <3> HIDE DEF m, unset
    <3>6. t.m = m /\ t.v = x /\ t.rc = 0
      BY <3>2
    <3> QED BY <2>2, <2>3, <3>5, <3>6 DEF MountGood, t
  <2> QED BY <2>4, <2>5, <2>6
<1> QED BY <1>2, <1>3, <1>4

LEMMA FatMountKept ==
  ASSUME NEW m0, NEW d, BootTyped(d), NEW m, NEW v, v.mounted => VolumeTyped(v),
         NEW startsector \in Int, CachesOf(m0, m, v), FatEmpty(m.fat)
  PROVE  MountGood(m0, fat_mount(d, m, v, startsector))
<1> DEFINE none == <<NoSector>>
           r == storage_read_sectors(d, m, startsector, 1, none)
<1>1. fat_mount(d, m, v, startsector) = Booted(d, v, startsector, r)
  BY DEF fat_mount
<1> HIDE DEF none
<1>2. CachesOf(m0, r.m, v) /\ FatEmpty(r.m.fat)
  BY ReadKept
<1> HIDE DEF r
<1> QED BY <1>1, <1>2, BootedKept

LEMMA TryKept ==
  ASSUME NEW m0, NEW d, BootTyped(d), NEW t, MountGood(m0, t), NEW part, part.start \in Nat
  PROVE  MountGood(m0, TryMount(d, t, part))
<1>1. CASE t.rc = 0 \/ part.type # "fat"
  BY <1>1, Zenon DEF TryMount
<1>2. CASE ~(t.rc = 0 \/ part.type # "fat")
  <2>1. TryMount(d, t, part) = fat_mount(d, t.m, t.v, part.start)
    BY <1>2, Zenon DEF TryMount
  <2>2. part.start \in Int
    OBVIOUS
  <2> QED BY <1>2, <2>1, <2>2, FatMountKept DEF MountGood
<1> QED BY <1>1, <1>2

LEMMA WholeKept ==
  ASSUME NEW m0, NEW d, BootTyped(d), NEW t, MountGood(m0, t)
  PROVE  MountGood(m0, OrWhole(d, t))
<1>1. CASE t.rc = 0
  BY <1>1 DEF OrWhole
<1>2. CASE t.rc # 0
  <2>1. OrWhole(d, t) = fat_mount(d, t.m, t.v, 0)
    BY <1>2 DEF OrWhole
  <2> QED BY <1>2, <2>1, FatMountKept DEF MountGood
<1> QED BY <1>1, <1>2

(* The partitions that are tried.                                          *)
IsTry(try, d, failed) ==
  /\ try[0] = failed
  /\ \A i \in 0 .. Len(d.parts) - 1 : try[i + 1] = TryMount(d, try[i], d.parts[i + 1])

LEMMA TryLoop ==
  ASSUME NEW d, NEW v, NEW r, Len(d.parts) \in Nat
  PROVE  LET failed == [m |-> r.m, v |-> v, rc |-> -1, exit |-> FALSE]
         IN  \E try : /\ IsTry(try, d, failed)
                      /\ Partitions(d, v, r) = IF r.buf[1] # 0 \/ ~d.signature THEN failed
                                               ELSE OrWhole(d, try[Len(d.parts)])
<1> DEFINE failed == [m |-> r.m, v |-> v, rc |-> -1, exit |-> FALSE]
           most == Len(d.parts)
           Step(g, i) == IF i = 0 THEN failed ELSE TryMount(d, g[i - 1], d.parts[i])
           try[i \in 0 .. most] ==
             IF i = 0 THEN failed ELSE TryMount(d, try[i - 1], d.parts[i])
           Built == {k \in Nat : \E g : g = [i \in 0 .. k |-> Step(g, i)]}
           t == Partitions(d, v, r)
<1>1. t = IF r.buf[1] # 0 \/ ~d.signature THEN failed ELSE OrWhole(d, try[most])
  BY Zenon DEF Partitions
<1>2. most \in Nat
  OBVIOUS
<1> HIDE DEF failed, t, most
<1>6. 0 \in Built
  <2> DEFINE g == [i \in 0 .. 0 |-> failed]
  <2>1. g = [i \in 0 .. 0 |-> Step(g, i)]
    OBVIOUS
  <2> QED BY <2>1
<1>7. ASSUME NEW k \in Nat, k \in Built
      PROVE  k + 1 \in Built
  <2>1. PICK g : g = [i \in 0 .. k |-> Step(g, i)]
    BY <1>7
  <2> DEFINE h == [i \in 0 .. k + 1 |-> IF i = k + 1 THEN TryMount(d, g[k], d.parts[i]) ELSE g[i]]
  <2>2. ASSUME NEW i \in 0 .. k + 1
        PROVE  h[i] = Step(h, i)
    <3>1. CASE i = k + 1
      BY <3>1
    <3>2. CASE i # k + 1
      BY <2>1, <3>2
    <3> QED BY <3>1, <3>2
  <2>3. h = [i \in 0 .. k + 1 |-> Step(h, i)]
    BY <2>2
  <2>4. \E x : x = [i \in 0 .. k + 1 |-> Step(x, i)]
    <3> HIDE DEF h
    <3> QED BY <2>3
  <2> QED BY <2>4
<1>8. try = [i \in 0 .. most |-> Step(try, i)]
  <2>1. \A k \in Nat : k \in Built
    <3> HIDE DEF Built
    <3> QED BY <1>6, <1>7, Counting
  <2>2. \E g : g = [i \in 0 .. most |-> Step(g, i)]
    BY <1>2, <2>1
  <2> QED BY <2>2
<1> HIDE DEF try
<1>9. try[0] = failed /\ \A i \in 0 .. most - 1 : try[i + 1] = TryMount(d, try[i], d.parts[i + 1])
  BY <1>2, <1>8
<1>10. IsTry(try, d, failed)
  BY <1>9 DEF IsTry, most
<1> QED BY <1>1, <1>10 DEF t, failed, most

(* Whatever the disk is, what mounting it leaves is sound.                 *)
LEMMA DiskMountKept ==
  ASSUME NEW m0, NEW d, BootTyped(d), PartsTyped(d), NEW m, NEW v, v.mounted => VolumeTyped(v),
         CachesOf(m0, m, v), FatEmpty(m.fat)
  PROVE  MountGood(m0, disk_mount(d, m, v))
<1> DEFINE none == <<NoSector>>
           mb == [m EXCEPT !.blk.lba = BAD_LBA]
           r == storage_read_sectors(d, mb, 0, 1, none)
           failed == [m |-> r.m, v |-> v, rc |-> -1, exit |-> FALSE]
           most == Len(d.parts)
           t == disk_mount(d, m, v)
<1>1. most \in Nat /\ \A i \in 1 .. most : d.parts[i].start \in Nat
  BY DEF PartsTyped
<1>2. PICK try : /\ IsTry(try, d, failed)
                 /\ t = IF r.buf[1] # 0 \/ ~d.signature THEN failed ELSE OrWhole(d, try[most])
  <2>1. t = Partitions(d, v, r)
    BY Zenon DEF disk_mount
  <2> HIDE DEF r, t
  <2> QED BY <1>1, <2>1, TryLoop
<1> DEFINE Good == {k \in Nat : k <= most => MountGood(m0, try[k])}
<1>3. CachesOf(m0, mb, v) /\ mb.fat = m.fat
  <2>1. /\ CacheFields \subseteq DOMAIN m /\ BlockWhole(m.blk) /\ DOMAIN m.fat = Entries
        /\ ~m.fatlost => SectorsOf(m.fat, v)
        /\ Kept(m0, m)
    BY DEF CachesOf
  <2>2. DOMAIN mb = DOMAIN m /\ mb.fat = m.fat /\ mb.fatlost = m.fatlost /\ mb.lost = m.lost
    BY <2>1 DEF CacheFields
  <2>3. mb.blk = [m.blk EXCEPT !.lba = BAD_LBA]
    BY <2>1 DEF CacheFields
  <2> HIDE DEF mb
  <2>4. BlockWhole(mb.blk)
    BY <2>1, <2>3 DEF BlockWhole, BAD_LBA
  <2>5. Kept(m0, mb)
    BY <2>1, <2>2, Zenon DEF Kept
  <2> QED BY <2>1, <2>2, <2>4, <2>5 DEF CachesOf
<1> HIDE DEF none, mb
<1>4. CachesOf(m0, r.m, v) /\ FatEmpty(r.m.fat)
  BY <1>3, ReadKept
<1> HIDE DEF r
<1>5. MountGood(m0, failed)
  BY <1>4 DEF MountGood
<1>6. try[0] = failed /\ \A i \in 0 .. most - 1 : try[i + 1] = TryMount(d, try[i], d.parts[i + 1])
  BY <1>2 DEF IsTry
<1> HIDE DEF failed, most, t
<1>7. 0 \in Good
  BY <1>5, <1>6
<1>8. ASSUME NEW k \in Nat, k \in Good
      PROVE  k + 1 \in Good
  <2>1. SUFFICES ASSUME k + 1 <= most PROVE MountGood(m0, try[k + 1])
    OBVIOUS
  <2>2. MountGood(m0, try[k])
    BY <1>1, <1>8, <2>1
  <2>3. try[k + 1] = TryMount(d, try[k], d.parts[k + 1]) /\ d.parts[k + 1].start \in Nat
    BY <1>1, <1>6, <2>1
  <2> QED BY <2>2, <2>3, TryKept
<1>9. \A k \in Nat : k \in Good
  <2> HIDE DEF Good
  <2> QED BY <1>7, <1>8, Counting
<1>10. MountGood(m0, try[most])
  BY <1>1, <1>9
<1>11. MountGood(m0, OrWhole(d, try[most]))
  BY <1>10, WholeKept
<1> QED BY <1>2, <1>5, <1>11 DEF t

-----------------------------------------------------------------------------
(* Reading an open file: what is left to read is a number, and never more  *)
(* than the file has.                                                      *)
LEMMA MediumTyped ==
  ASSUME medium \in DOMAIN Media
  PROVE  FatTyped(disk) /\ EntriesTyped(disk) /\ BootTyped(disk) /\ PartsTyped(disk)
<1>1. FatTyped(disk)
  BY MediaAssumption DEF FatTyped, disk
<1>2. EntriesTyped(disk)
  BY MediaAssumption DEF EntriesTyped, disk
<1>3. BootTyped(disk)
  BY MediaAssumption DEF BootTyped, BootSector, disk
<1>4. PartsTyped(disk)
  BY MediaAssumption DEF PartsTyped, disk
<1> QED BY <1>1, <1>2, <1>3, <1>4

FdFields == {"busy", "size", "isdir", "path", "fileoffset", "cacheoffset", "cache", "fatfile"}

FileGood(file) ==
  /\ FdFields \subseteq DOMAIN file
  /\ file.size \in Nat /\ file.fileoffset \in 0 .. file.size
  /\ file.cacheoffset \in {-1} \cup 0 .. SECTOR_SIZE - 1
  /\ FileTyped(file.fatfile) /\ file.fatfile.firstcluster \in Nat

IsSeq(s) == \E S : s \in Seq(S)

(* A part of a read of count bytes of file left p.                         *)
PartGood(file, p, count) ==
  /\ FileGood(p.file) /\ p.file.size = file.size /\ p.file.fileoffset = file.fileoffset
  /\ p.count \in Nat /\ IsSeq(p.data) /\ Len(p.data) + p.count <= count

LEMMA JoinedSeq ==
  ASSUME NEW s, IsSeq(s), NEW t, IsSeq(t)
  PROVE  IsSeq(s \o t) /\ Len(s \o t) = Len(s) + Len(t) /\ Len(s) \in Nat /\ Len(t) \in Nat
<1>1. PICK S : s \in Seq(S)
  BY DEF IsSeq
<1>2. PICK T : t \in Seq(T)
  BY DEF IsSeq
<1>3. s \in Seq(S \cup T) /\ t \in Seq(S \cup T)
  BY <1>1, <1>2
<1> HIDE <1>1, <1>2
<1>4. s \o t \in Seq(S \cup T) /\ Len(s \o t) = Len(s) + Len(t) /\ Len(s) \in Nat /\ Len(t) \in Nat
  BY <1>3
<1> QED BY <1>4 DEF IsSeq

LEMMA BytesSeq ==
  ASSUME NEW sec, NEW from \in Int, NEW n \in Nat
  PROVE  IsSeq(Bytes(sec, from, n)) /\ Len(Bytes(sec, from, n)) = n
<1>1. Bytes(sec, from, n) \in Seq({sec} \X Int)
  BY DEF Bytes
<1>2. Len(Bytes(sec, from, n)) = n
  BY DEF Bytes
<1> QED BY <1>1, <1>2 DEF IsSeq

LEMMA HeadKept ==
  ASSUME NEW file, FileGood(file), NEW count \in Nat
  PROVE  PartGood(file, HeadBytes(file, count), count)
<1> DEFINE n == Smaller(count, SECTOR_SIZE - file.cacheoffset)
           whole == file.cacheoffset + n = SECTOR_SIZE
           at == IF whole THEN -1 ELSE file.cacheoffset + n
           h == HeadBytes(file, count)
<1>1. CASE file.cacheoffset = -1
  <2>1. h = [file |-> file, count |-> count, data |-> <<>>]
    BY <1>1 DEF HeadBytes
  <2>2. <<>> \in Seq(Int) /\ Len(<<>>) = 0
    OBVIOUS
  <2>3. h.file = file /\ h.count = count /\ h.data = <<>>
    BY <2>1
  <2> HIDE DEF h
  <2> QED BY <2>2, <2>3 DEF PartGood, IsSeq, h
<1>2. CASE file.cacheoffset # -1
  <2>1. file.cacheoffset \in 0 .. SECTOR_SIZE - 1
    BY <1>2 DEF FileGood
  <2>2. n \in Nat /\ n <= count /\ n <= SECTOR_SIZE - file.cacheoffset
    BY <2>1, Sizes DEF Smaller
  <2>3. h.file = [file EXCEPT !.cacheoffset = at] /\ h.count = count - n
        /\ h.data = Bytes(file.cache, file.cacheoffset, n)
    <3>1. h = [file |-> [file EXCEPT !.cacheoffset = IF whole THEN -1 ELSE @ + n],
               count |-> count - n, data |-> Bytes(file.cache, file.cacheoffset, n)]
      BY <1>2, Zenon DEF HeadBytes
    <3> HIDE DEF n, h
    <3> QED BY <3>1
  <2> HIDE DEF n, h
  <2>4. at \in {-1} \cup 0 .. SECTOR_SIZE - 1
    BY <2>1, <2>2, Sizes
  <2> HIDE DEF at
  <2>5. /\ DOMAIN h.file = DOMAIN file /\ h.file.size = file.size /\ h.file.fileoffset = file.fileoffset
        /\ h.file.fatfile = file.fatfile /\ h.file.cacheoffset = at
    BY <2>3 DEF FileGood, FdFields
  <2>6. FileGood(h.file)
    BY <2>4, <2>5 DEF FileGood
  <2>7. IsSeq(h.data) /\ Len(h.data) = n
    BY <2>1, <2>2, <2>3, BytesSeq
  <2> QED BY <2>2, <2>3, <2>5, <2>6, <2>7 DEF PartGood, h
<1> QED BY <1>1, <1>2

MiddleFields == {"m", "file", "count", "data", "over"}

LEMMA Division ==
  ASSUME NEW a \in Nat, NEW b \in Nat \ {0}
  PROVE  /\ a \div b \in Nat /\ a % b \in 0 .. b - 1
         /\ (a \div b) * b \in Nat /\ a = (a \div b) * b + (a % b)
<1>1. a \div b \in Nat /\ a % b \in 0 .. b - 1
  OBVIOUS
<1>2. a = (a \div b) * b + (a % b)
  OBVIOUS
<1> QED BY <1>1, <1>2

LEMMA MiddleKept ==
  ASSUME NEW m0, NEW m, CachesOf(m0, m, bpb), VolumeTyped(bpb), FatTyped(disk),
         NEW file, NEW count, NEW h, PartGood(file, h, count), count \in Nat
  PROVE  /\ PartGood(file, Middle(m, h), count) /\ CachesOf(m0, Middle(m, h).m, bpb)
         /\ Middle(m, h).count \in 0 .. SECTOR_SIZE - 1
         /\ MiddleFields \subseteq DOMAIN Middle(m, h)
<1> DEFINE n == h.count \div SECTOR_SIZE
           none == [i \in 1 .. n |-> NoSector]
           r == fat_readwrite(disk, m, bpb, h.file.fatfile, n, none)
           s == Middle(m, h)
<1>1. h.count \in Nat /\ FileGood(h.file) /\ IsSeq(h.data) /\ Len(h.data) + h.count <= count
  BY DEF PartGood
<1>2. n \in Nat /\ n * SECTOR_SIZE <= h.count /\ h.count - n * SECTOR_SIZE \in 0 .. SECTOR_SIZE - 1
  <2> DEFINE c == h.count
  <2>0. c \in Nat
    BY <1>1
  <2> HIDE DEF c
  <2>1. /\ c \div SECTOR_SIZE \in Nat /\ c % SECTOR_SIZE \in 0 .. SECTOR_SIZE - 1
        /\ (c \div SECTOR_SIZE) * SECTOR_SIZE \in Nat
        /\ c = (c \div SECTOR_SIZE) * SECTOR_SIZE + (c % SECTOR_SIZE)
    BY <2>0, Division, Sizes
  <2>2. n = c \div SECTOR_SIZE
    BY DEF c
  <2> DEFINE whole == n * SECTOR_SIZE
  <2> HIDE DEF n, whole
  <2>3. n \in Nat /\ whole \in Nat /\ c % SECTOR_SIZE \in 0 .. SECTOR_SIZE - 1 /\ c = whole + (c % SECTOR_SIZE)
    BY <2>1, <2>2 DEF whole
  <2>4. whole <= c /\ c - whole \in 0 .. SECTOR_SIZE - 1
    BY <2>0, <2>3, Sizes
  <2> QED BY <2>3, <2>4 DEF whole, c
<1>3. CASE n = 0
  <2>1. s = [m |-> m, file |-> h.file, count |-> h.count, data |-> h.data, over |-> FALSE]
    BY <1>3 DEF Middle
  <2>2. h.count \in 0 .. SECTOR_SIZE - 1
    BY <1>1, <1>2, <1>3, Sizes
  <2>3. s.m = m /\ s.file = h.file /\ s.count = h.count /\ s.data = h.data /\ MiddleFields \subseteq DOMAIN s
    BY <2>1 DEF MiddleFields
  <2> HIDE DEF s
  <2>4. PartGood(file, s, count)
    BY <2>3 DEF PartGood
  <2> QED BY <2>2, <2>3, <2>4 DEF s
<1>4. CASE n # 0
  <2>1. s = Wholes(h, n, r)
    BY <1>4 DEF Middle
  <2> HIDE DEF n, none
  <2>2. /\ CachesOf(m0, r.m, bpb) /\ FileTyped(r.f) /\ r.f.firstcluster = h.file.fatfile.firstcluster
        /\ r.rc \in Int
    BY <1>1, <1>2, ReadwriteKept, SMTT(30) DEF FileGood
  <2> HIDE DEF r
  <2> DEFINE new == [h.file EXCEPT !.fatfile = r.f, !.cacheoffset = -1]
             k == Smaller(r.rc, n)
             got == [b \in 1 .. k * SECTOR_SIZE |->
                       <<r.buf[((b - 1) \div SECTOR_SIZE) + 1], (b - 1) % SECTOR_SIZE>>]
  <2>3. /\ FileGood(new) /\ new.size = h.file.size /\ new.fileoffset = h.file.fileoffset
    <3>1. /\ DOMAIN new = DOMAIN h.file /\ new.size = h.file.size /\ new.fileoffset = h.file.fileoffset
          /\ new.fatfile = r.f /\ new.cacheoffset = -1
      BY <1>1 DEF FileGood, FdFields
    <3> HIDE DEF new
    <3> QED BY <1>1, <2>2, <3>1 DEF FileGood
  <2>4. CASE r.rc < 0
    <3>1. s = [m |-> r.m, file |-> new, count |-> 0, data |-> h.data, over |-> TRUE]
      BY <2>1, <2>4, Zenon DEF Wholes
    <3> HIDE DEF new, s
    <3>2. s.m = r.m /\ s.file = new /\ s.count = 0 /\ s.data = h.data /\ MiddleFields \subseteq DOMAIN s
      BY <3>1 DEF MiddleFields
    <3>3. Len(h.data) \in Nat
      BY <1>1, JoinedSeq
    <3>4. PartGood(file, s, count)
      BY <1>1, <2>3, <3>2, <3>3 DEF PartGood
    <3> QED BY <2>2, <3>2, <3>4, Sizes DEF s
  <2>5. CASE ~(r.rc < 0)
    <3> DEFINE left == IF r.rc < n THEN 0 ELSE h.count - n * SECTOR_SIZE
    <3>1. s = [m |-> r.m, file |-> new, data |-> h.data \o got, over |-> FALSE, count |-> left]
      BY <2>1, <2>5, Zenon DEF Wholes
    <3>2. k \in Nat /\ k <= n
      BY <1>2, <2>2, <2>5 DEF Smaller
    <3> HIDE DEF new, s, k
    <3> DEFINE bytes == k * SECTOR_SIZE
    <3>3. bytes \in Nat /\ bytes <= n * SECTOR_SIZE
      BY <1>2, <3>2, Sizes
    <3> HIDE DEF bytes
    <3>4. IsSeq(got) /\ Len(got) = bytes
      <4> DEFINE byte(b) == <<r.buf[((b - 1) \div SECTOR_SIZE) + 1], (b - 1) % SECTOR_SIZE>>
                 U == {byte(b) : b \in 1 .. bytes}
      <4>1. got = [b \in 1 .. bytes |-> byte(b)]
        BY DEF bytes
      <4> HIDE DEF got
      <4>2. \A b \in 1 .. bytes : byte(b) \in U
        OBVIOUS
      <4> HIDE DEF U, byte
      <4>3. got \in Seq(U) /\ Len(got) = bytes
        BY <3>3, <4>1, <4>2
      <4> QED BY <4>3 DEF IsSeq
    <3> HIDE DEF got
    <3>5. left \in 0 .. SECTOR_SIZE - 1 /\ bytes + left <= h.count
      BY <1>1, <1>2, <3>3, Sizes
    <3> HIDE DEF left
    <3>6. s.m = r.m /\ s.file = new /\ s.count = left /\ s.data = h.data \o got /\ MiddleFields \subseteq DOMAIN s
      BY <3>1 DEF MiddleFields
    <3>7. IsSeq(s.data) /\ Len(s.data) = Len(h.data) + bytes /\ Len(h.data) \in Nat
      BY <1>1, <3>4, <3>6, JoinedSeq
    <3>8. PartGood(file, s, count)
      BY <1>1, <2>3, <3>3, <3>5, <3>6, <3>7 DEF PartGood
    <3> QED BY <2>2, <3>5, <3>6, <3>8 DEF s
  <2> QED BY <2>4, <2>5
<1> QED BY <1>3, <1>4

ReadGood(file, t, count) ==
  /\ FileGood(t.file) /\ t.file.size = file.size /\ t.file.fileoffset = file.fileoffset
  /\ Len(t.data) \in 0 .. count

LEMMA TailKept ==
  ASSUME NEW m0, VolumeTyped(bpb), FatTyped(disk), NEW file, NEW count \in Nat, NEW s, PartGood(file, s, count),
         CachesOf(m0, s.m, bpb), s.count \in 0 .. SECTOR_SIZE - 1, MiddleFields \subseteq DOMAIN s
  PROVE  CachesOf(m0, TailBytes(s).m, bpb) /\ ReadGood(file, TailBytes(s), count)
<1> DEFINE old == <<s.file.cache>>
           r == fat_readwrite(disk, s.m, bpb, s.file.fatfile, 1, old)
           t == TailBytes(s)
           done == s.over \/ s.count = 0
           got == [s.file EXCEPT !.fatfile = r.f, !.cache = r.buf[1]]
           part == Bytes(r.buf[1], 0, s.count)
<1>1. /\ s.count \in Nat /\ FileGood(s.file) /\ IsSeq(s.data) /\ Len(s.data) + s.count <= count
      /\ s.file.size = file.size /\ s.file.fileoffset = file.fileoffset /\ Len(s.data) \in Nat
  <2>1. Len(s.data) \in Nat
    BY JoinedSeq DEF PartGood
  <2> QED BY <2>1 DEF PartGood
<1>2. CASE done
  <2>1. t = s
    BY <1>2, Zenon DEF TailBytes
  <2>2. Len(s.data) \in 0 .. count
    BY <1>1
  <2> QED BY <1>1, <2>1, <2>2 DEF ReadGood
<1>3. CASE ~done
  <2>1. t = FromCache(s, r)
    BY <1>3, Zenon DEF TailBytes
  <2> HIDE DEF old, t, done
  <2>2. CachesOf(m0, r.m, bpb) /\ FileTyped(r.f) /\ r.f.firstcluster = s.file.fatfile.firstcluster
    BY <1>1, ReadwriteKept DEF FileGood
  <2> HIDE DEF r
  <2>3. /\ DOMAIN got = DOMAIN s.file /\ got.size = s.file.size /\ got.fileoffset = s.file.fileoffset
        /\ got.fatfile = r.f
    BY <1>1 DEF FileGood, FdFields
  <2> HIDE DEF got
  <2>4. ASSUME NEW c \in {-1} \cup 0 .. SECTOR_SIZE - 1, t.file = [got EXCEPT !.cacheoffset = c]
        PROVE  FileGood(t.file) /\ t.file.size = file.size /\ t.file.fileoffset = file.fileoffset
    <3>1. /\ DOMAIN t.file = DOMAIN got /\ t.file.size = got.size /\ t.file.fileoffset = got.fileoffset
          /\ t.file.fatfile = got.fatfile /\ t.file.cacheoffset = c
      BY <1>1, <2>3, <2>4 DEF FileGood, FdFields
    <3>2. FileGood(t.file)
      BY <1>1, <2>2, <2>3, <3>1 DEF FileGood
    <3> QED BY <1>1, <2>3, <3>1, <3>2
  <2>5. CASE r.rc < 1
    <3>1. t = [s EXCEPT !.m = r.m, !.over = TRUE, !.file = [got EXCEPT !.cacheoffset = -1]]
      BY <2>1, <2>5, Zenon DEF FromCache, got
    <3>2. t.m = r.m /\ t.file = [got EXCEPT !.cacheoffset = -1] /\ t.data = s.data
      BY <3>1 DEF MiddleFields
    <3>3. Len(s.data) \in 0 .. count
      BY <1>1
    <3> QED BY <2>2, <2>4, <3>2, <3>3 DEF t, ReadGood
  <2>6. CASE ~(r.rc < 1)
    <3>1. t = [s EXCEPT !.m = r.m, !.file = [got EXCEPT !.cacheoffset = s.count], !.data = @ \o part]
      BY <2>1, <2>6, Zenon DEF FromCache, got
    <3> HIDE DEF part
    <3>2. t.m = r.m /\ t.file = [got EXCEPT !.cacheoffset = s.count] /\ t.data = s.data \o part
      BY <3>1 DEF MiddleFields
    <3>3. IsSeq(part) /\ Len(part) = s.count
      BY <1>1, BytesSeq DEF part
    <3>4. Len(t.data) = Len(s.data) + s.count
      <4>1. Len(s.data \o part) = Len(s.data) + Len(part)
        BY <1>1, <3>3, JoinedSeq, Zenon
      <4> QED BY <3>2, <3>3, <4>1, Zenon
    <3>5. Len(t.data) \in 0 .. count
      BY <1>1, <3>4
    <3> QED BY <2>2, <2>4, <3>2, <3>5 DEF t, ReadGood
  <2> QED BY <2>5, <2>6
<1> QED BY <1>2, <1>3

-----------------------------------------------------------------------------
(* The inductive invariant: the caches are sound, open files are numbers   *)
(* in range, and files are open only while a volume is mounted.            *)
CachesInv ==
  /\ medium \in DOMAIN Media
  /\ BlockWhole(block_cache) /\ DOMAIN fat_cache = Entries
  /\ ~fatlost => SectorsOf(fat_cache, bpb)
  /\ state = "start" => FatEmpty(fat_cache) /\ \A fd \in Fds : ~openfiles[fd].busy
  /\ bpb.mounted => VolumeTyped(bpb)
  /\ DOMAIN openfiles = Fds
  /\ \A fd \in Fds : openfiles[fd].busy => bpb.mounted /\ FileGood(openfiles[fd])

LEMMA BeforeGood ==
  ASSUME CachesInv, NEW bad
  PROVE  CachesOf(Before(bad), Before(bad), bpb) /\ Before(bad).fat = fat_cache
<1> DEFINE m == Before(bad)
<1>1. m.blk = block_cache /\ m.fat = fat_cache /\ CacheFields \subseteq DOMAIN m
  BY DEF Before, CacheFields
<1>2. m.fatlost = fatlost
  BY DEF Before
<1> HIDE DEF m
<1>3. ~m.fatlost => SectorsOf(m.fat, bpb)
  <2>1. ~fatlost => SectorsOf(m.fat, bpb)
    BY <1>1 DEF CachesInv
  <2> QED BY <1>2, <2>1, Zenon
<1> QED BY <1>1, <1>3, KeptAll DEF CachesInv, CachesOf, m

LEMMA AfterGood ==
  ASSUME NEW m0, NEW m, NEW v, CachesOf(m0, m, v), After(m)
  PROVE  /\ BlockWhole(block_cache') /\ DOMAIN (fat_cache') = Entries
         /\ fat_cache' = m.fat /\ (~fatlost' => SectorsOf(fat_cache', v))
         /\ (m.lost <=> lost') /\ (m.fatlost <=> fatlost')
<1>1. block_cache' = m.blk /\ fat_cache' = m.fat
  BY DEF After
<1>2. fatlost' = m.fatlost
  BY DEF After
<1>a. (m.lost <=> lost') /\ (m.fatlost <=> fatlost')
  BY Zenon DEF After
<1>3. ~m.fatlost => SectorsOf(fat_cache', v)
  BY <1>1 DEF CachesOf
<1>4. ~fatlost' => SectorsOf(fat_cache', v)
  BY <1>2, <1>3, Zenon
<1> QED BY <1>1, <1>4, <1>a DEF CachesOf

LEMMA InitGood == Init => CachesInv
<1> SUFFICES ASSUME Init PROVE CachesInv
  OBVIOUS
<1>1. medium \in DOMAIN Media /\ bpb = NotMounted /\ openfiles = [fd \in Fds |-> NoFile]
  BY DEF Init
<1>2. BlockWhole(block_cache)
  <2>1. block_cache = [lba |-> BAD_LBA, buf |-> [i \in 0 .. BLOCK_CACHE_SECTOR_COUNT - 1 |-> NoSector]]
    BY DEF Init
  <2> QED BY <2>1 DEF BlockWhole, Places, BAD_LBA
<1>3. DOMAIN fat_cache = Entries /\ FatEmpty(fat_cache)
  <2>1. fat_cache = [x \in 0 .. FAT_CACHE_SIZE - 1 |-> [inuse |-> FALSE, secnum |-> 8, buf |-> NoSector]]
    BY DEF Init
  <2> DEFINE e == [inuse |-> FALSE, secnum |-> 8, buf |-> NoSector]
  <2>2. e.inuse = FALSE
    OBVIOUS
  <2> HIDE DEF e
  <2>3. \A x \in Entries : fat_cache[x] = e
    BY <2>1 DEF Entries, e
  <2>4. \A x \in Entries : ~fat_cache[x].inuse
    BY <2>2, <2>3, Zenon
  <2> QED BY <2>1, <2>4 DEF Entries, FatEmpty
<1>4. ~bpb.mounted
  BY <1>1 DEF NotMounted
<1>5. \A fd \in Fds : ~openfiles[fd].busy
  <2>1. NoFile.busy = FALSE
    BY DEF NoFile
  <2>2. \A fd \in Fds : openfiles[fd] = NoFile
    BY <1>1
  <2> QED BY <2>1, <2>2, Zenon
<1>6. SectorsOf(fat_cache, bpb)
  BY <1>3 DEF SectorsOf, FatEmpty
<1>7. DOMAIN openfiles = Fds
  BY <1>1
<1> QED BY <1>1, <1>2, <1>3, <1>4, <1>5, <1>6, <1>7, Zenon DEF CachesInv

LEMMA MountKept ==
  ASSUME CachesInv, NEW bad, Mount(bad)
  PROVE  CachesInv'
<1> DEFINE m == Before(bad)
           r == disk_mount(disk, m, bpb)
<1>1. state = "start" /\ medium' = medium /\ openfiles' = openfiles
  BY DEF Mount
<1>2. bpb' = r.v /\ After(r.m) /\ state' = IF r.exit THEN "exited" ELSE "run"
  BY DEF Mount, Mounted
<1>3. CachesOf(m, m, bpb) /\ FatEmpty(m.fat)
  BY <1>1, BeforeGood DEF CachesInv
<1> HIDE DEF m
<1>4. BootTyped(disk) /\ PartsTyped(disk)
  BY MediumTyped DEF CachesInv
<1>5. MountGood(m, r)
  BY <1>3, <1>4, DiskMountKept DEF CachesInv
<1> HIDE DEF r
<1>6. CachesOf(m, r.m, r.v) /\ (r.v.mounted => VolumeTyped(r.v))
  BY <1>5 DEF MountGood
<1>7. BlockWhole(block_cache') /\ DOMAIN (fat_cache') = Entries /\ (~fatlost' => SectorsOf(fat_cache', bpb'))
  BY <1>2, <1>6, AfterGood
<1>8. \A fd \in Fds : ~openfiles'[fd].busy
  BY <1>1 DEF CachesInv
<1>9. state' # "start"
  BY <1>2
<1>10. medium' \in DOMAIN Media /\ DOMAIN (openfiles') = Fds
  BY <1>1 DEF CachesInv
<1> QED BY <1>2, <1>6, <1>7, <1>8, <1>9, <1>10 DEF CachesInv

(* A call that is made when a volume is mounted: it is enough that the     *)
(* caches it leaves are sound, and the file it changes, if any.            *)
LEMMA CallKept ==
  ASSUME NEW m0, CachesInv, state = "run", state' # "start", medium' = medium, bpb' = bpb,
         NEW m, CachesOf(m0, m, bpb), After(m), DOMAIN (openfiles') = Fds,
         \A fd \in Fds : openfiles'[fd] = openfiles[fd]
                        \/ (bpb.mounted /\ FileGood(openfiles'[fd]))
  PROVE  CachesInv'
<1>1. BlockWhole(block_cache') /\ DOMAIN (fat_cache') = Entries /\ (~fatlost' => SectorsOf(fat_cache', bpb))
  BY AfterGood
<1>2. medium' \in DOMAIN Media /\ (bpb'.mounted => VolumeTyped(bpb')) /\ DOMAIN (openfiles') = Fds
  BY DEF CachesInv
<1>3. ASSUME NEW fd \in Fds, openfiles'[fd].busy
      PROVE  bpb'.mounted /\ FileGood(openfiles'[fd])
  BY <1>3 DEF CachesInv
<1>4. ~fatlost' => SectorsOf(fat_cache', bpb')
  BY <1>1
<1> QED BY <1>1, <1>2, <1>3, <1>4 DEF CachesInv

LEMMA NoCallKept ==
  ASSUME CachesInv, state' # "start", DOMAIN (openfiles') = Fds,
         UNCHANGED <<medium, bpb, block_cache, fat_cache, fatlost>>,
         \A fd \in Fds : openfiles'[fd] = openfiles[fd] \/ ~openfiles'[fd].busy
  PROVE  CachesInv'
<1>1. BlockWhole(block_cache') /\ DOMAIN (fat_cache') = Entries /\ medium' \in DOMAIN Media
  BY DEF CachesInv
<1>2. ~fatlost' => SectorsOf(fat_cache', bpb')
  BY DEF CachesInv
<1>3. bpb'.mounted => VolumeTyped(bpb')
  BY DEF CachesInv
<1>4. ASSUME NEW fd \in Fds, openfiles'[fd].busy
      PROVE  bpb'.mounted /\ FileGood(openfiles'[fd])
  <2>1. openfiles'[fd] = openfiles[fd]
    BY <1>4, Zenon
  <2>2. openfiles[fd].busy => bpb.mounted /\ FileGood(openfiles[fd])
    BY DEF CachesInv
  <2> QED BY <1>4, <2>1, <2>2
<1> QED BY <1>1, <1>2, <1>3, <1>4 DEF CachesInv

LEMMA CloseKept ==
  ASSUME CachesInv, NEW fd \in Fds, Close(fd)
  PROVE  CachesInv'
<1>1. openfiles' = [openfiles EXCEPT ![fd] = NoFile] /\ UNCHANGED <<medium, bpb, block_cache, fat_cache, fatlost>>
  BY DEF Close
<1>2. state' # "start"
  BY DEF Close
<1>3. NoFile.busy = FALSE
  BY DEF NoFile
<1>4. \A x \in Fds : openfiles'[x] = openfiles[x] \/ openfiles'[x] = NoFile
  BY <1>1 DEF CachesInv
<1>5. \A x \in Fds : openfiles'[x] = openfiles[x] \/ ~openfiles'[x].busy
  BY <1>3, <1>4, Zenon
<1>6. DOMAIN (openfiles') = Fds
  BY <1>1 DEF CachesInv
<1> QED BY <1>1, <1>2, <1>5, <1>6, NoCallKept

LEMMA OpenFailedKept ==
  ASSUME CachesInv, NEW path, NEW write, OpenNone(path, write) \/ OpenUnmounted(path, write)
  PROVE  CachesInv'
<1>1. UNCHANGED <<medium, bpb, block_cache, fat_cache, fatlost>> /\ openfiles' = openfiles
  BY DEF OpenNone, OpenUnmounted
<1>2. state' # "start"
  BY DEF OpenNone, OpenUnmounted
<1>3. DOMAIN (openfiles') = Fds
  BY <1>1 DEF CachesInv
<1> QED BY <1>1, <1>2, <1>3, NoCallKept

LEMMA FiledescGood ==
  ASSUME NEW e, e.size \in Nat, e.first \in Nat, NEW path, NEW write
  PROVE  FileGood(Filedesc(e, path, write))
<1> DEFINE file == Filedesc(e, path, write)
<1>1. /\ file.size = e.size /\ file.fileoffset = 0 /\ file.cacheoffset = -1
      /\ file.fatfile = fat_open(e.first)
  BY DEF Filedesc
<1>2. FdFields \subseteq DOMAIN file
  BY DEF Filedesc, FdFields
<1> HIDE DEF file
<1>3. FileTyped(fat_open(e.first)) /\ fat_open(e.first).firstcluster = e.first
  BY DEF FileTyped, FileFields, fat_open
<1> QED BY <1>1, <1>2, <1>3 DEF FileGood, file

LEMMA OpenKept ==
  ASSUME CachesInv, NEW path, path \in Seq(STRING), path # <<>>, NEW write, NEW bad,
         Open(path, write, bad)
  PROVE  CachesInv'
<1> DEFINE m == Before(bad)
           up == SubSeq(path, 1, Len(path) - 1)
           o == rb_opendir(disk, m, bpb, up, sectorcache)
           s == Searched(path, o)
           slot == Least(FreeFds)
<1>1. state = "run" /\ bpb.mounted /\ medium' = medium /\ bpb' = bpb /\ Entered(path, write, s)
  BY DEF Open
<1>2. Len(up) \in Nat
  <2>1. Len(path) \in Nat /\ Len(path) # 0
    OBVIOUS
  <2> QED BY <2>1
<1> HIDE DEF up
<1>3. CachesOf(m, m, bpb)
  BY BeforeGood
<1> HIDE DEF m
<1>4. VolumeTyped(bpb) /\ FatTyped(disk) /\ EntriesTyped(disk)
  BY <1>1, MediumTyped DEF CachesInv
<1>5. DownGood(m, o, bpb)
  BY <1>2, <1>3, <1>4, RbOpendirKept
<1> HIDE DEF o
<1>6. ScanGood(m, s, bpb)
  <2>1. CASE o.state # "found"
    BY <1>5, <2>1 DEF Searched, ScanGood, DownGood
  <2>2. CASE o.state = "found"
    <3> DEFINE name == path[Len(path)]
    <3>1. s = scan(disk, o.m, bpb, o.dir, name, FALSE)
      BY <2>2 DEF Searched
    <3> HIDE DEF name, s
    <3> QED BY <1>4, <1>5, <3>1, ScanKept DEF DownGood
  <2> QED BY <2>1, <2>2
<1> HIDE DEF s, slot
<1> DEFINE m1 == s.m
           file == Filedesc(s.entry, path, write)
<1>7. CachesOf(m, m1, bpb)
  BY <1>6 DEF ScanGood
<1>8. After(m1) /\ state' # "start"
  BY <1>1 DEF Entered
<1> HIDE DEF m1
<1>9. CASE s.state = "found" /\ ~(write /\ s.entry.kind = "dir")
  <2>1. openfiles' = [openfiles EXCEPT ![slot] = file]
    BY <1>1, <1>9, Zenon DEF Entered, slot
  <2>2. FileGood(file)
    BY <1>6, <1>9, FiledescGood DEF ScanGood
  <2> HIDE DEF file
  <2>3. DOMAIN (openfiles') = Fds
    BY <2>1 DEF CachesInv
  <2>4. \A fd \in Fds : openfiles'[fd] = openfiles[fd] \/ openfiles'[fd] = file
    BY <2>1 DEF CachesInv
  <2>5. \A fd \in Fds : openfiles'[fd] = openfiles[fd] \/ (bpb.mounted /\ FileGood(openfiles'[fd]))
    BY <1>1, <2>2, <2>4, Zenon
  <2> QED BY <1>1, <1>7, <1>8, <2>3, <2>5, CallKept
<1>10. CASE ~(s.state = "found" /\ ~(write /\ s.entry.kind = "dir"))
  <2>1. openfiles' = openfiles
    BY <1>1, <1>10, Zenon DEF Entered
  <2>2. DOMAIN (openfiles') = Fds
    BY <2>1 DEF CachesInv
  <2>3. \A fd \in Fds : openfiles'[fd] = openfiles[fd] \/ (bpb.mounted /\ FileGood(openfiles'[fd]))
    BY <2>1, Zenon
  <2> QED BY <1>1, <1>7, <1>8, <2>2, <2>3, CallKept
<1> QED BY <1>9, <1>10

LEMMA ReadFileKept ==
  ASSUME CachesInv, NEW fd \in Fds, NEW asked \in Nat, NEW bad, Read(fd, asked, bad)
  PROVE  CachesInv'
<1> DEFINE file == openfiles[fd]
           m == Before(bad)
           count == Left(file, asked)
           h == HeadBytes(file, count)
           s == Middle(m, h)
           t == TailBytes(s)
           n == Len(t.data)
           new == [t.file EXCEPT !.fileoffset = t.file.fileoffset + n]
<1>1. state = "run" /\ medium' = medium /\ bpb' = bpb /\ state' = state
  BY DEF Read
<1>2. openfiles' = [openfiles EXCEPT ![fd] = new] /\ After(t.m)
  <2>1. Returned(fd, asked, t)
    BY Zenon DEF Read
  <2> HIDE DEF t
  <2> QED BY <2>1, Zenon DEF Returned
<1>3. bpb.mounted /\ FileGood(file)
  <2>1. file.busy
    BY DEF Read
  <2> QED BY <2>1, Zenon DEF CachesInv
<1>4. VolumeTyped(bpb) /\ FatTyped(disk)
  BY <1>3, MediumTyped DEF CachesInv
<1>5. CachesOf(m, m, bpb)
  BY BeforeGood
<1> HIDE DEF file, m
<1>6. count \in Nat /\ count <= file.size - file.fileoffset
  BY <1>3 DEF FileGood, Left, Smaller
<1> HIDE DEF count
<1>7. PartGood(file, h, count)
  BY <1>3, <1>6, HeadKept
<1> HIDE DEF h
<1>8. /\ PartGood(file, s, count) /\ CachesOf(m, s.m, bpb) /\ s.count \in 0 .. SECTOR_SIZE - 1
      /\ MiddleFields \subseteq DOMAIN s
  BY <1>4, <1>5, <1>6, <1>7, MiddleKept
<1> HIDE DEF s
<1>9. /\ CachesOf(m, t.m, bpb) /\ FileGood(t.file) /\ t.file.size = file.size
      /\ t.file.fileoffset = file.fileoffset /\ n \in 0 .. count
  <2>1. CachesOf(m, t.m, bpb) /\ ReadGood(file, t, count)
    BY <1>4, <1>6, <1>8, TailKept
  <2> HIDE DEF t
  <2> QED BY <2>1 DEF ReadGood
<1> DEFINE m1 == t.m
           g == t.file
<1>10. /\ FileGood(g) /\ n \in Nat /\ g.fileoffset + n \in 0 .. g.size
  BY <1>3, <1>6, <1>9 DEF FileGood
<1>11. new = [g EXCEPT !.fileoffset = g.fileoffset + n]
  OBVIOUS
<1>12. CachesOf(m, m1, bpb) /\ After(m1)
  BY <1>2, <1>9
<1> HIDE DEF t, n, m1, g, new
<1>13. /\ DOMAIN new = DOMAIN g /\ new.size = g.size /\ new.fileoffset = g.fileoffset + n
       /\ new.cacheoffset = g.cacheoffset /\ new.fatfile = g.fatfile
  BY <1>10, <1>11 DEF FileGood, FdFields
<1>14. FileGood(new)
  BY <1>10, <1>13 DEF FileGood
<1>15. DOMAIN (openfiles') = Fds
  BY <1>2 DEF CachesInv
<1>16. \A x \in Fds : openfiles'[x] = openfiles[x] \/ openfiles'[x] = new
  BY <1>2 DEF CachesInv
<1>17. \A x \in Fds : openfiles'[x] = openfiles[x] \/ (bpb.mounted /\ FileGood(openfiles'[x]))
  BY <1>3, <1>14, <1>16, Zenon
<1> QED BY <1>1, <1>12, <1>15, <1>17, CallKept

LEMMA LseekKept ==
  ASSUME CachesInv, NEW fd \in Fds, NEW offset \in Int,
         NEW whence \in {"SEEK_SET", "SEEK_CUR", "SEEK_END"}, NEW bad,
         Lseek(fd, offset, whence, bad)
  PROVE  CachesInv'
<1> DEFINE file == openfiles[fd]
           pos == Target(file, offset, whence)
           m == Before(bad)
           stays == pos < 0 \/ pos > file.size \/ ~Moved(file, pos)
<1>1. state = "run" /\ medium' = medium /\ bpb' = bpb /\ state' = state
  BY DEF Lseek
<1>2. IF stays THEN Stays(fd, pos) /\ After(m) ELSE SeekTo(fd, pos, bad)
  BY Zenon DEF Lseek
<1>3. bpb.mounted /\ FileGood(file)
  <2>1. file.busy
    BY DEF Lseek
  <2> QED BY <2>1, Zenon DEF CachesInv
<1>4. VolumeTyped(bpb) /\ FatTyped(disk)
  BY <1>3, MediumTyped DEF CachesInv
<1>5. CachesOf(m, m, bpb)
  BY BeforeGood
<1> HIDE DEF m
<1>6. pos \in Int
  BY <1>3 DEF Target, FileGood
<1> HIDE DEF pos
<1>7. pos % SECTOR_SIZE \in 0 .. SECTOR_SIZE - 1
  BY <1>6, Sizes
<1>8. CASE stays
  <2>1. Stays(fd, pos) /\ After(m)
    BY <1>2, <1>8
  <2>2. CASE pos < 0 \/ pos > file.size
    <3>1. openfiles' = openfiles
      BY <2>1, <2>2 DEF Stays
    <3>2. DOMAIN (openfiles') = Fds
      BY <3>1 DEF CachesInv
    <3>3. \A x \in Fds : openfiles'[x] = openfiles[x] \/ (bpb.mounted /\ FileGood(openfiles'[x]))
      BY <3>1, Zenon
    <3> QED BY <1>1, <1>5, <2>1, <3>2, <3>3, CallKept
  <2>3. CASE ~(pos < 0 \/ pos > file.size)
    <3> DEFINE at == IF file.cacheoffset = -1 THEN -1 ELSE pos % SECTOR_SIZE
               f1 == [file EXCEPT !.fileoffset = pos]
               new == [f1 EXCEPT !.cacheoffset = at]
    <3>1. openfiles' = [openfiles EXCEPT ![fd].fileoffset = pos,
                                         ![fd].cacheoffset = IF @ = -1 THEN -1 ELSE pos % SECTOR_SIZE]
      BY <2>1, <2>3, Zenon DEF Stays
    <3>2. at \in {-1} \cup 0 .. SECTOR_SIZE - 1
      BY <1>7
    <3>3. /\ DOMAIN (openfiles') = Fds
          /\ \A x \in Fds : openfiles'[x] = openfiles[x] \/ openfiles'[x] = new
      BY <1>3, <3>1 DEF CachesInv, FileGood, FdFields
    <3> HIDE DEF at
    <3>4. /\ DOMAIN new = DOMAIN file /\ new.size = file.size /\ new.fileoffset = pos
          /\ new.cacheoffset = at /\ new.fatfile = file.fatfile
      BY <1>3 DEF FileGood, FdFields
    <3> HIDE DEF new
    <3>5. FileGood(new)
      BY <1>3, <1>6, <2>3, <3>2, <3>4 DEF FileGood
    <3>6. \A x \in Fds : openfiles'[x] = openfiles[x] \/ (bpb.mounted /\ FileGood(openfiles'[x]))
      BY <1>3, <3>3, <3>5, Zenon
    <3> QED BY <1>1, <1>5, <2>1, <3>3, <3>6, CallKept
  <2> QED BY <2>2, <2>3
<1>9. CASE ~stays
  <2> DEFINE to == pos \div SECTOR_SIZE
             k == IF to # file.fileoffset \div SECTOR_SIZE
                  THEN fat_seek(disk, m, bpb, file.fatfile, to)
                  ELSE [m |-> m, f |-> file.fatfile, rc |-> 0]
             r == Found(file, pos, k)
  <2>1. pos \in Nat /\ pos <= file.size
    BY <1>3, <1>6, <1>9 DEF FileGood
  <2>2. to \in Nat
    BY <2>1, Sizes
  <2>3. Reached(fd, pos, r)
    BY <1>2, <1>9, Zenon DEF SeekTo, m
  <2> HIDE DEF to
  <2>4. CachesOf(m, k.m, bpb) /\ FileTyped(k.f) /\ k.f.firstcluster = file.fatfile.firstcluster
    <3> DEFINE f == file.fatfile
               sought == fat_seek(disk, m, bpb, f, to)
    <3>1. FileTyped(f) /\ f.firstcluster \in Nat
      BY <1>3 DEF FileGood
    <3> HIDE DEF f
    <3>2. CachesOf(m, sought.m, bpb) /\ FileTyped(sought.f) /\ sought.f.firstcluster = f.firstcluster
      <4>1. VolumeTyped(bpb) /\ FatTyped(disk) /\ CachesOf(m, m, bpb) /\ to \in Nat /\ FileTyped(f) /\ f.firstcluster \in Nat
        BY <1>4, <1>5, <2>2, <3>1
      <4> HIDE DEF sought
      <4>2. CachesOf(m, fat_seek(disk, m, bpb, f, to).m, bpb)
        BY <4>1, SeekKept
      <4>3. FileTyped(fat_seek(disk, m, bpb, f, to).f)
        BY <4>1, SeekKept
      <4>4. fat_seek(disk, m, bpb, f, to).f.firstcluster = f.firstcluster
        BY <4>1, SeekKept
      <4> QED BY <4>2, <4>3, <4>4 DEF sought
    <3>3. k = sought \/ k = [m |-> m, f |-> f, rc |-> 0]
      BY DEF k, f
    <3> HIDE DEF sought
    <3>4. CachesOf(m, k.m, bpb) /\ FileTyped(k.f) /\ k.f.firstcluster = f.firstcluster
      BY <1>5, <3>1, <3>2, <3>3
    <3> QED BY <3>4 DEF f
  <2> HIDE DEF k
  <2>5. CachesOf(m, r.m, bpb) /\ FileTyped(r.f) /\ r.f.firstcluster = file.fatfile.firstcluster
    <3> DEFINE old == <<file.cache>>
    <3>1. CASE pos % SECTOR_SIZE # 0 /\ k.rc = 0
      <4>1. r = fat_readwrite(disk, k.m, bpb, k.f, 1, old)
        BY <3>1 DEF Found
      <4> HIDE DEF old, r
      <4> QED BY <1>4, <2>4, <4>1, ReadwriteKept
    <3>2. CASE ~(pos % SECTOR_SIZE # 0 /\ k.rc = 0)
      <4>1. r = [m |-> k.m, f |-> k.f, rc |-> k.rc, buf |-> old]
        BY <3>2, Zenon DEF Found
      <4> QED BY <2>4, <4>1
    <3> QED BY <3>1, <3>2
  <2> DEFINE m1 == r.m
             moved == [file EXCEPT !.fatfile = r.f, !.cache = r.buf[1]]
             at == IF pos % SECTOR_SIZE = 0 THEN -1 ELSE pos % SECTOR_SIZE
             there == [moved EXCEPT !.fileoffset = pos, !.cacheoffset = at]
             new == IF r.rc < 0 THEN moved ELSE there
  <2>6. After(m1) /\ openfiles' = [openfiles EXCEPT ![fd] = new] /\ CachesOf(m, m1, bpb)
    <3>1. CachesOf(m, m1, bpb)
      BY <2>5
    <3> HIDE DEF r
    <3> QED BY <2>3, <3>1, Zenon DEF Reached
  <2> HIDE DEF r, m1
  <2>7. /\ DOMAIN moved = DOMAIN file /\ moved.size = file.size /\ moved.fileoffset = file.fileoffset
        /\ moved.cacheoffset = file.cacheoffset /\ moved.fatfile = r.f
    BY <1>3 DEF FileGood, FdFields
  <2> HIDE DEF moved
  <2>8. FileGood(moved)
    BY <1>3, <2>5, <2>7 DEF FileGood
  <2>9. at \in {-1} \cup 0 .. SECTOR_SIZE - 1
    BY <1>7
  <2> HIDE DEF at
  <2>10. /\ DOMAIN there = DOMAIN moved /\ there.size = moved.size /\ there.fileoffset = pos
         /\ there.cacheoffset = at /\ there.fatfile = moved.fatfile
    BY <2>8 DEF FileGood, FdFields
  <2> HIDE DEF there
  <2>11. FileGood(there)
    BY <2>1, <2>7, <2>8, <2>9, <2>10 DEF FileGood
  <2>12. FileGood(new)
    BY <2>8, <2>11
  <2> HIDE DEF new
  <2>13. DOMAIN (openfiles') = Fds
    BY <2>6 DEF CachesInv
  <2>14. \A x \in Fds : openfiles'[x] = openfiles[x] \/ openfiles'[x] = new
    BY <2>6 DEF CachesInv
  <2>15. \A x \in Fds : openfiles'[x] = openfiles[x] \/ (bpb.mounted /\ FileGood(openfiles'[x]))
    BY <1>3, <2>12, <2>14, Zenon
  <2> QED BY <1>1, <2>6, <2>13, <2>15, CallKept
<1> QED BY <1>8, <1>9

LEMMA NextGood == CachesInv /\ [Next]_vars => CachesInv'
<1> SUFFICES ASSUME CachesInv, [Next]_vars PROVE CachesInv'
  OBVIOUS
<1>1. CASE UNCHANGED vars
  BY <1>1 DEF vars, CachesInv, BlockWhole, SectorsOf, FatEmpty, VolumeTyped, FileGood, FileTyped
<1>2. CASE \E bad \in Bad : Mount(bad)
  BY <1>2, MountKept
<1>3. CASE \E o \in Opens, bad \in Bad : Open(o[1], o[2], bad)
  <2>1. PICK o \in Opens, bad \in Bad : Open(o[1], o[2], bad)
    BY <1>3
  <2> DEFINE path == o[1]
             write == o[2]
  <2>2. path \in Seq(STRING) /\ path # <<>>
    BY FileAssumption
  <2>3. Open(path, write, bad)
    BY <2>1
  <2> HIDE DEF path, write
  <2> QED BY <2>2, <2>3, OpenKept
<1>4. CASE \E o \in Opens : OpenNone(o[1], o[2]) \/ OpenUnmounted(o[1], o[2])
  BY <1>4, OpenFailedKept
<1>5. CASE \E fd \in Fds : Close(fd)
  BY <1>5, CloseKept
<1>6. CASE \E fd \in Fds, n \in Counts, bad \in Bad : Read(fd, n, bad)
  <2>1. Counts \subseteq Nat
    BY FileAssumption
  <2> QED BY <1>6, <2>1, ReadFileKept
<1>7. CASE \E fd \in Fds, s \in Seeks, bad \in Bad : Lseek(fd, s[2], s[1], bad)
  <2>1. PICK fd \in Fds, s \in Seeks, bad \in Bad : Lseek(fd, s[2], s[1], bad)
    BY <1>7
  <2> DEFINE whence == s[1]
             offset == s[2]
  <2>2. whence \in {"SEEK_SET", "SEEK_CUR", "SEEK_END"} /\ offset \in Int
    BY FileAssumption
  <2>3. Lseek(fd, offset, whence, bad)
    BY <2>1
  <2> HIDE DEF whence, offset
  <2> QED BY <2>2, <2>3, LseekKept
<1> QED BY <1>1, <1>2, <1>3, <1>4, <1>5, <1>6, <1>7 DEF Next

(* A block in the cache of the drive is whole, although a failing sector   *)
(* may cut a read short, and a sector in the FAT cache is the one it is    *)
(* found as, unless one of the FAT did not come.                           *)
THEOREM CachesAgree == Spec => []CachesRight
<1>1. CachesInv => CachesRight
  <2> SUFFICES ASSUME CachesInv PROVE CachesRight
    OBVIOUS
  <2>1. block_cache.lba # BAD_LBA =>
          \A i \in DOMAIN block_cache.buf : block_cache.buf[i] = block_cache.lba + i
    BY DEF CachesInv, BlockWhole
  <2>2. ~fatlost => \A x \in DOMAIN fat_cache : fat_cache[x].inuse =>
          /\ fat_cache[x].buf = fat_cache[x].secnum + bpb.startsector
          /\ fat_cache[x].secnum % FAT_CACHE_SIZE = x
    BY DEF CachesInv, SectorsOf
  <2> QED BY <2>1, <2>2 DEF CachesRight
<1> QED BY <1>1, InitGood, NextGood, PTL DEF Spec

-----------------------------------------------------------------------------
(* What is read is what is on the medium.  One sector and a run of them, a *)
(* sector of the FAT, the next cluster; then the sectors of a chain, one after *)
(* the other, and fat_readwrite, which collects them into runs.            *)

(* A request gives some of its sectors, from the first on.                 *)
LEMMA SomeCame ==
  ASSUME NEW d, NEW m, NEW start \in Int, NEW count \in Nat
  PROVE  DevRead(d, m, start, count) \in 0 .. count
<1> DEFINE failing == {s \in start .. start + count - 1 : s = m.bad \/ s >= d.size}
<1>1. CASE failing = {}
  <2>1. DevRead(d, m, start, count) = count
    BY <1>1 DEF DevRead
  <2> QED BY <2>1
<1>2. CASE failing # {}
  <2> DEFINE T == {s - start : s \in failing}
  <2>1. failing \subseteq start .. start + count - 1
    OBVIOUS
  <2> HIDE DEF failing
  <2>a. \A s \in failing : s - start \in 0 .. count - 1
    BY <2>1
  <2>2. T \subseteq Nat /\ T # {}
    BY <2>a, <1>2
  <2>3. PICK x \in T : \A y \in T : x <= y
    <3> HIDE DEF T
    <3> QED BY <2>2, SmallestIn
  <2>4. PICK s \in failing : x = s - start
    BY <2>3
  <2>5. \A y \in failing : s <= y
    <3> TAKE y \in failing
    <3>1. s - start <= y - start
      BY <2>3, <2>4
    <3>2. y \in Int /\ s \in Int
      BY <2>1
    <3> QED BY <3>1, <3>2
  <2>6. Least(failing) \in failing
    BY <2>5 DEF Least
  <2> DEFINE a == Least(failing) - start
             b == MAX_SECTOR_PER_REQUEST
             q == (a \div b) * b
  <2>7. a \in 0 .. count - 1
    BY <2>a, <2>6
  <2>8. DevRead(d, m, start, count) = q
    BY <1>2 DEF DevRead, failing
  <2>9. b \in Nat \ {0}
    BY Sizes
  <2> HIDE DEF a, b
  <2>10. q \in 0 .. a
    <3>0. a \in Nat
      BY <2>7
    <3>1. a \div b \in Nat /\ a % b \in 0 .. b - 1 /\ q \in Nat /\ a = q + (a % b)
      BY <3>0, <2>9, Division
    <3> HIDE DEF q
    <3> QED BY <3>1, <2>7, <2>9
  <2> HIDE DEF q
  <2> QED BY <2>7, <2>8, <2>10
<1> QED BY <1>1, <1>2

(* One sector is the one that was asked for, or it is known to be lost.    *)
LEMMA ReadOneRight ==
  ASSUME NEW m0, NEW d, NEW m, NEW v, NEW start \in Int, NEW old, CachesOf(m0, m, v)
  PROVE  LET r == ReadOne(d, m, start, old)
         IN  /\ Kept(m, r.m) /\ r.rc \in {0, 1} /\ (r.rc = 0 \/ r.m.lost)
             /\ (r.m.lost \/ r.buf[1] = start)
<1> DEFINE blk == CachedBlock(d, m, start)
           r == ReadOne(d, m, start, old)
           hit == blk.lba # BAD_LBA
           red == IF hit THEN 1 ELSE DevRead(d, m, start, 1)
<1>1. CacheFields \subseteq DOMAIN m
  BY DEF CachesOf
<1>2. red \in {0, 1}
  BY OneCame
<1>3. r.rc = 1 - red
  BY DEF ReadOne, FromBlock
<1>4. r.rc \in {0, 1} /\ (r.rc = 0 => r.buf[1] = start) /\ r.m.fatlost = m.fatlost
  BY ReadOneKept
<1>5. \E b, c : r.m = [m EXCEPT !.blk = c, !.lost = @ \/ red < 1, !.hit = b]
  BY DEF ReadOne, FromBlock
<1> HIDE DEF r, blk, red
<1>6. \E a, b, c : r.m = [m EXCEPT !.blk = c, !.lost = a, !.hit = b] /\ (m.lost => a) /\ (red < 1 => a)
  BY <1>5, Zenon
<1>7. PICK a, b, c : r.m = [m EXCEPT !.blk = c, !.lost = a, !.hit = b] /\ (m.lost => a) /\ (red < 1 => a)
  BY <1>6
<1>8. r.m.lost = a
  BY <1>1, <1>7 DEF CacheFields
<1>9. (m.lost => r.m.lost) /\ (red < 1 => r.m.lost)
  BY <1>7, <1>8, Zenon
<1>10. r.rc # 0 => red < 1
  BY <1>2, <1>3
<1>11. Kept(m, r.m)
  BY <1>4, <1>9, Zenon DEF Kept
<1> QED BY <1>4, <1>9, <1>10, <1>11 DEF r

(* So are the sectors of a longer request.                                 *)
LEMMA ReadRight ==
  ASSUME NEW m0, NEW d, NEW m, NEW v, NEW start \in Int, NEW count \in Nat, NEW old, CachesOf(m0, m, v)
  PROVE  LET r == storage_read_sectors(d, m, start, count, old)
         IN  /\ Kept(m, r.m) /\ r.rc \in Nat /\ (r.rc = 0 \/ r.m.lost)
             /\ (r.m.lost \/ \A i \in 1 .. count : r.buf[i] = start + i - 1)
<1> DEFINE r == storage_read_sectors(d, m, start, count, old)
<1>1. CASE count = 1
  <2>1. r = ReadOne(d, m, start, old)
    BY <1>1 DEF storage_read_sectors
  <2> HIDE DEF r
  <2>2. /\ Kept(m, r.m) /\ r.rc \in {0, 1} /\ (r.rc = 0 \/ r.m.lost)
        /\ (r.m.lost \/ r.buf[1] = start)
    BY <2>1, ReadOneRight
  <2>3. r.buf[1] = start => \A i \in 1 .. count : r.buf[i] = start + i - 1
    BY <1>1
  <2>4. r.rc \in Nat
    BY <2>2
  <2> QED BY <2>2, <2>3, <2>4 DEF r
<1>2. CASE count # 1
  <2> DEFINE red == DevRead(d, m, start, count)
             short == red < count
  <2>1. r = ReadMany(d, m, start, count, old)
    BY <1>2 DEF storage_read_sectors
  <2>2. red \in 0 .. count
    BY SomeCame
  <2>3. r.rc = count - red
    BY <2>1 DEF ReadMany
  <2>4. r.m = [m EXCEPT !.lost = @ \/ short, !.hit = @ \/ short]
    BY <2>1 DEF ReadMany
  <2>5. r.buf = [i \in 1 .. count |-> IF i <= red THEN start + i - 1 ELSE old[i]]
    BY <2>1 DEF ReadMany
  <2>6. r.m.fatlost = m.fatlost
    BY ReadKept
  <2>7. CacheFields \subseteq DOMAIN m
    BY DEF CachesOf
  <2> HIDE DEF r, red
  <2>8. ~short => r.rc = 0 /\ \A i \in 1 .. count : r.buf[i] = start + i - 1
    BY <2>2, <2>3, <2>5
  <2>9. r.rc \in Nat
    BY <2>2, <2>3
  <2> HIDE DEF short
  <2>10. \E a, b : r.m = [m EXCEPT !.lost = a, !.hit = b] /\ (m.lost => a) /\ (short => a)
    BY <2>4, Zenon
  <2>11. PICK a, b : r.m = [m EXCEPT !.lost = a, !.hit = b] /\ (m.lost => a) /\ (short => a)
    BY <2>10
  <2>12. r.m.lost = a
    BY <2>7, <2>11 DEF CacheFields
  <2>13. (m.lost => r.m.lost) /\ (short => r.m.lost)
    BY <2>11, <2>12, Zenon
  <2>14. Kept(m, r.m)
    BY <2>6, <2>13, Zenon DEF Kept
  <2> QED BY <2>8, <2>9, <2>13, <2>14 DEF r
<1> QED BY <1>1, <1>2

ReadInto(v, start, count, buf, at, r) ==
  \A i \in DOMAIN buf :
    r.buf[i] = IF i \in at + 1 .. at + count
               THEN start + v.startsector + (i - at) - 1 ELSE buf[i]

LEMMA TransferRight ==
  ASSUME NEW m0, NEW d, NEW m, NEW v, VolumeTyped(v), NEW start \in Int, NEW count \in Nat, NEW buf,
         NEW at \in Int, CachesOf(m0, m, v)
  PROVE  LET r == transfer(d, m, v, start, count, buf, at)
         IN  /\ Kept(m, r.m) /\ r.rc = 0 /\ DOMAIN r.buf = DOMAIN buf
             /\ r.m.lost \/ ReadInto(v, start, count, buf, at, r)
<1> DEFINE from == start + v.startsector
           old == [i \in 1 .. count |-> buf[at + i]]
           w == storage_read_sectors(d, m, from, count, old)
           r == transfer(d, m, v, start, count, buf, at)
<1>1. from \in Int
  BY DEF VolumeTyped
<1> HIDE DEF from, old
<1>2. /\ Kept(m, w.m) /\ w.rc \in Nat
      /\ (w.m.lost \/ \A i \in 1 .. count : w.buf[i] = from + i - 1)
  BY <1>1, ReadRight
<1>3. r = Transferred(w, count, buf, at)
  BY DEF transfer, from, old
<1> HIDE DEF r, w
<1>4. /\ r.m = w.m /\ r.rc = IF w.rc < 0 THEN w.rc ELSE 0
      /\ r.buf = [i \in DOMAIN buf |-> IF i \in at + 1 .. at + count THEN w.buf[i - at] ELSE buf[i]]
  BY <1>3 DEF Transferred
<1>5. r.rc = 0
  BY <1>2, <1>4
<1>6. ASSUME \A i \in 1 .. count : w.buf[i] = from + i - 1, NEW i \in DOMAIN buf
      PROVE  r.buf[i] = IF i \in at + 1 .. at + count THEN from + (i - at) - 1 ELSE buf[i]
  <2>1. CASE i \in at + 1 .. at + count
    <3>1. i - at \in 1 .. count
      BY <2>1
    <3>2. w.buf[i - at] = from + (i - at) - 1
      BY <1>6, <3>1
    <3> QED BY <1>4, <2>1, <3>2
  <2>2. CASE i \notin at + 1 .. at + count
    BY <1>4, <2>2
  <2> QED BY <2>1, <2>2
<1>7. DOMAIN r.buf = DOMAIN buf
  BY <1>4
<1>8. from = start + v.startsector
  BY DEF from
<1>9. r.m.lost \/ ReadInto(v, start, count, buf, at, r)
  BY <1>2, <1>4, <1>6, <1>8 DEF ReadInto
<1>10. Kept(m, r.m)
  BY <1>2, <1>4
<1> QED BY <1>5, <1>7, <1>9, <1>10 DEF r

(* The sector of the FAT that is asked for, unless it is known to be lost. *)
LEMMA FatSectorRight ==
  ASSUME NEW m0, NEW d, NEW m, NEW v, VolumeTyped(v), NEW fatsector \in Int, CachesOf(m0, m, v)
  PROVE  LET c == cache_fat_sector(d, m, v, fatsector)
         IN  /\ Kept(m, c.m)
             /\ c.m.fatlost \/ c.sec = fatsector + v.rsvd + v.startsector
<1> DEFINE secnum == fatsector + v.rsvd
           x == secnum % FAT_CACHE_SIZE
           e == m.fat[x]
           start == secnum + v.startsector
           old == <<e.buf>>
           r == storage_read_sectors(d, m, start, 1, old)
           new == [inuse |-> TRUE, secnum |-> secnum, buf |-> r.buf[1]]
           c == cache_fat_sector(d, m, v, fatsector)
<1>1. secnum \in Int /\ start \in Int /\ x \in Entries
  BY Sizes DEF VolumeTyped, Entries
<1>2. CASE e.inuse /\ e.secnum = secnum
  <2>1. c.m = m /\ c.sec = e.buf
    BY <1>2 DEF cache_fat_sector
  <2>2. ~m.fatlost => e.buf = start
    BY <1>1, <1>2 DEF CachesOf, SectorsOf
  <2> HIDE DEF c, e
  <2> QED BY <2>1, <2>2, KeptAll DEF c
<1>3. CASE ~(e.inuse /\ e.secnum = secnum)
  <2>1. /\ CachesOf(m0, r.m, v) /\ r.m.fatlost = m.fatlost
        /\ Kept(m, r.m) /\ r.rc \in Nat /\ (r.rc = 0 \/ r.m.lost)
        /\ (r.m.lost \/ \A i \in 1 .. 1 : r.buf[i] = start + i - 1)
    <3> HIDE DEF start, old
    <3>1. CachesOf(m0, r.m, v) /\ r.m.fatlost = m.fatlost
      BY <1>1, ReadKept
    <3>2. 1 \in Nat
      OBVIOUS
    <3>3. /\ Kept(m, r.m) /\ r.rc \in Nat /\ (r.rc = 0 \/ r.m.lost)
          /\ (r.m.lost \/ \A i \in 1 .. 1 : r.buf[i] = start + i - 1)
      BY <1>1, <3>2, ReadRight
    <3> QED BY <3>1, <3>3
  <2>2. r.rc = 0 => r.buf[1] = start
    <3>1. r = ReadOne(d, m, start, old)
      BY DEF storage_read_sectors
    <3> HIDE DEF r, start, old
    <3> QED BY <1>1, <3>1, ReadOneKept
  <2>3. c = FatLoaded(r, x, secnum)
    BY <1>3 DEF cache_fat_sector
  <2> HIDE DEF r, c, x, secnum, start
  <2>4. c = [m |-> [r.m EXCEPT !.fat[x] = new, !.fatlost = @ \/ r.rc # 0], sec |-> r.buf[1]]
    BY <2>1, <2>3 DEF FatLoaded
  <2> HIDE DEF new
  <2>5. /\ c.m = [r.m EXCEPT !.fat[x] = new, !.fatlost = @ \/ r.rc # 0]
        /\ c.sec = r.buf[1]
    BY <2>4, Zenon
  <2>6. \E b : c.m = [r.m EXCEPT !.fat[x] = new, !.fatlost = b] /\ (b <=> (r.m.fatlost \/ r.rc # 0))
    BY <2>5, Zenon
  <2>7. PICK b : c.m = [r.m EXCEPT !.fat[x] = new, !.fatlost = b] /\ (b <=> (r.m.fatlost \/ r.rc # 0))
    BY <2>6
  <2>8. CacheFields \subseteq DOMAIN r.m
    BY <2>1 DEF CachesOf
  <2>9. c.m.fatlost = b /\ c.m.lost = r.m.lost
    BY <2>7, <2>8 DEF CacheFields
  <2>10. c.m.fatlost <=> (r.m.fatlost \/ r.rc # 0)
    BY <2>7, <2>9, Zenon
  <2>11. Kept(r.m, c.m)
    BY <2>1, <2>9, <2>10, Zenon DEF Kept
  <2>12. Kept(m, c.m)
    BY <2>1, <2>11, KeptAll
  <2>13. c.m.fatlost \/ c.sec = start
    BY <2>2, <2>5, <2>10
  <2> QED BY <2>12, <2>13 DEF c, start, secnum
<1> QED BY <1>2, <1>3

(* The next cluster is the one of the medium.                              *)
LEMMA NextRight ==
  ASSUME NEW m0, NEW d, NEW m, NEW v, VolumeTyped(v), FatTyped(d), NEW cluster \in Int, CachesOf(m0, m, v),
         v.startsector \in Nat, v.rsvd \in Nat,
         IF cluster < 0 THEN v.is_fat16 ELSE cluster \in DOMAIN d.fat
  PROVE  LET g == get_next_cluster(d, m, v, cluster)
         IN  Kept(m, g.m) /\ (g.m.fatlost \/ g.next = Linked(d, cluster))
<1> DEFINE per == PerSector(v)
           n == cluster \div per
           c == cache_fat_sector(d, m, v, n)
           g == get_next_cluster(d, m, v, cluster)
<1>1. per \in Nat \ {0}
  BY Sizes DEF PerSector
<1>2. CASE cluster < 0
  <2>1. g = [m |-> m, next |-> cluster + 1]
    BY <1>2 DEF get_next_cluster
  <2>2. Linked(d, cluster) = cluster + 1
    BY <1>2 DEF Linked
  <2> HIDE DEF g
  <2>3. g.m = m /\ g.next = Linked(d, cluster)
    BY <2>1, <2>2
  <2> QED BY <2>3, KeptAll DEF g
<1>3. CASE ~(cluster < 0)
  <2>1. g = NextIn(d, v, c, cluster)
    BY <1>3 DEF get_next_cluster
  <2> HIDE DEF per
  <2>2. n \in Nat /\ cluster % per \in 0 .. per - 1 /\ n * per \in Nat /\ cluster = n * per + (cluster % per)
    <3>1. cluster \in Nat
      BY <1>3
    <3> QED BY <1>1, <3>1, Division
  <2> HIDE DEF n, c, g
  <2>3. Kept(m, c.m) /\ (c.m.fatlost \/ c.sec = n + v.rsvd + v.startsector)
    BY <2>2, FatSectorRight DEF c
  <2>4. ASSUME c.sec = n + v.rsvd + v.startsector
        PROVE  FatWord(d, v, c.sec, cluster % per) = d.fat[cluster]
    <3>1. c.sec - v.startsector - v.rsvd = n /\ c.sec # NoSector
      BY <2>2, <2>4 DEF VolumeTyped, NoSector
    <3>2. (c.sec - v.startsector - v.rsvd) * PerSector(v) + (cluster % per) = cluster
      BY <2>2, <3>1 DEF per
    <3> QED BY <1>3, <3>1, <3>2 DEF FatWord
  <2>5. g.m = c.m /\ g.next = LET w == FatWord(d, v, c.sec, cluster % per)
                              IN  IF w >= Eof THEN 0 ELSE w
    BY <2>1 DEF NextIn, per
  <2>6. Linked(d, cluster) = IF d.fat[cluster] >= Eof THEN 0 ELSE d.fat[cluster]
    BY <1>3 DEF Linked
  <2>7. c.sec = n + v.rsvd + v.startsector => g.next = Linked(d, cluster)
    BY <2>4, <2>5, <2>6
  <2> QED BY <2>3, <2>5, <2>7 DEF g
<1> QED BY <1>2, <1>3

-----------------------------------------------------------------------------
(* Chains.                                                                 *)
LEMMA Quotient ==
  ASSUME NEW b \in Nat \ {0}, NEW q \in Int, NEW r \in 0 .. b - 1, NEW a \in Nat, a = q * b + r
  PROVE  a \div b = q /\ a % b = r
<1> DEFINE e == a \div b
           w == a % b
<1>1. e \in Nat /\ w \in 0 .. b - 1 /\ a = e * b + w
  BY Division
<1> HIDE DEF e, w
<1>2. ~(q > e)
  <2>1. SUFFICES ASSUME q > e PROVE FALSE
    OBVIOUS
  <2>2. q * b >= (e + 1) * b
    BY <1>1, <2>1
  <2>3. (e + 1) * b = e * b + b
    BY <1>1
  <2> QED BY <1>1, <2>2, <2>3
<1>3. ~(e > q)
  <2>1. SUFFICES ASSUME e > q PROVE FALSE
    OBVIOUS
  <2>2. e * b >= (q + 1) * b
    BY <1>1, <2>1
  <2>3. (q + 1) * b = q * b + b
    OBVIOUS
  <2> QED BY <1>1, <2>2, <2>3
<1>4. e = q
  BY <1>1, <1>2, <1>3
<1>5. w = r
  BY <1>1, <1>4
<1> QED BY <1>4, <1>5 DEF e, w

(* One further: in the same part of b, or at the beginning of the next.    *)
LEMMA OneFurther ==
  ASSUME NEW p \in Nat, NEW b \in Nat \ {0}
  PROVE  IF p % b = b - 1 THEN (p + 1) \div b = (p \div b) + 1 /\ (p + 1) % b = 0
                          ELSE (p + 1) \div b = p \div b /\ (p + 1) % b = (p % b) + 1
<1> DEFINE e == p \div b
           w == p % b
<1>1. e \in Nat /\ w \in 0 .. b - 1 /\ p = e * b + w
  BY Division
<1> HIDE DEF e, w
<1>2. CASE w = b - 1
  <2> DEFINE q == e + 1
  <2>1. p + 1 = q * b + 0
    BY <1>1, <1>2
  <2>2. q \in Int /\ 0 \in 0 .. b - 1 /\ p + 1 \in Nat
    BY <1>1
  <2> HIDE DEF q
  <2>3. (p + 1) \div b = q /\ (p + 1) % b = 0
    BY <2>1, <2>2, Quotient
  <2> QED BY <1>2, <2>3 DEF q, e, w
<1>3. CASE w # b - 1
  <2> DEFINE x == w + 1
  <2>1. p + 1 = e * b + x
    BY <1>1
  <2>2. e \in Int /\ x \in 0 .. b - 1 /\ p + 1 \in Nat
    BY <1>1, <1>3
  <2> HIDE DEF x
  <2>3. (p + 1) \div b = e /\ (p + 1) % b = x
    BY <2>1, <2>2, Quotient
  <2> QED BY <1>3, <2>3 DEF x, e, w
<1> QED BY <1>2, <1>3 DEF w

LEMMA InRange ==
  ASSUME NEW p \in Nat, NEW b \in Nat \ {0}, NEW n \in Nat
  PROVE  (p < n * b) <=> (p \div b < n)
<1> DEFINE e == p \div b
           w == p % b
<1>1. e \in Nat /\ w \in 0 .. b - 1 /\ p = e * b + w
  BY Division
<1> HIDE DEF e, w
<1>2. ASSUME e >= n PROVE p >= n * b
  <2>1. e * b >= n * b
    BY <1>1, <1>2
  <2>2. e * b \in Nat /\ n * b \in Nat
    BY <1>1
  <2> QED BY <1>1, <2>1, <2>2
<1>3. ASSUME e < n PROVE p < n * b
  <2>1. (e + 1) * b <= n * b
    BY <1>1, <1>3
  <2>2. (e + 1) * b = e * b + b
    BY <1>1
  <2>3. e * b \in Nat /\ n * b \in Nat
    BY <1>1
  <2> QED BY <1>1, <2>1, <2>2, <2>3
<1>4. n * b \in Nat
  OBVIOUS
<1> QED BY <1>1, <1>2, <1>3, <1>4 DEF e

(* The volume of the medium, and a chain of it.                            *)
VolumeFits(d, v) ==
  /\ VolumeTyped(v) /\ FatTyped(d) /\ d.start \in Nat /\ v.startsector = d.start
  /\ v.rsvd \in Nat /\ v.rootdiroffset \in 0 .. v.secperclus - 1

ChainOf(d, v, first) ==
  /\ first \in DOMAIN d.chains
  /\ d.chains[first].clusters \in Seq(Int) /\ d.chains[first].sectors \in Seq(Nat)
  /\ ChainFits(d, v, first, d.chains[first].clusters, d.chains[first].sectors)

(* A reader of the chain is at its k-th sector, or before the first.       *)
Stands(d, v, first, k, cluster, sector, clusternum, numsec) ==
  LET p == k - 1 + Skipped(v, first)
  IN  IF k = 0 THEN cluster = first /\ sector = 0 /\ clusternum = 0 /\ numsec = 0
      ELSE /\ clusternum = p \div v.secperclus /\ numsec = (p % v.secperclus) + 1
           /\ cluster = d.chains[first].clusters[clusternum + 1]
           /\ sector = d.chains[first].sectors[k] - d.start

LEMMA ClusterBegins ==
  ASSUME NEW d, NEW v, VolumeFits(d, v), NEW c \in Int, c <= v.dataclusters + 1
  PROVE  cluster2sec(v, c) = Begins(d, v, c) - d.start
<1> DEFINE n == IF c < 0 THEN c ELSE c - 2
           x == n * v.secperclus
<1>1. v.secperclus \in Int /\ v.firstdatasector \in Int /\ d.start \in Int /\ v.dataclusters \in Int
  BY DEF VolumeFits, VolumeTyped
<1>2. c - (IF c < 0 THEN 0 ELSE 2) = n
  OBVIOUS
<1>3. cluster2sec(v, c) = x + v.firstdatasector
  BY <1>1, <1>2 DEF cluster2sec
<1>4. Begins(d, v, c) = d.start + v.firstdatasector + x
  BY DEF Begins
<1>5. x \in Int
  BY <1>1
<1> HIDE DEF x
<1> QED BY <1>1, <1>3, <1>4, <1>5

(* Sector k of a chain: in which cluster it is, and where in it.           *)
SectorIn(d, v, first, k) ==
  LET ch == d.chains[first].clusters
      p == k - 1 + Skipped(v, first)
      n == p \div v.secperclus
  IN  /\ p \in Nat /\ n \in 0 .. Len(ch) - 1 /\ p % v.secperclus \in 0 .. v.secperclus - 1
      /\ ch[n + 1] \in Int /\ ch[n + 1] # 0 /\ ch[n + 1] <= v.dataclusters + 1
      /\ IF ch[n + 1] < 0 THEN v.is_fat16 ELSE ch[n + 1] \in DOMAIN d.fat
      /\ Linked(d, ch[n + 1]) = IF n + 1 < Len(ch) THEN ch[n + 2] ELSE 0
      /\ d.chains[first].sectors[k] = Begins(d, v, ch[n + 1]) + (p % v.secperclus)
      /\ d.chains[first].sectors[k] \in Nat /\ d.chains[first].sectors[k] > d.start

LEMMA SectorFacts ==
  ASSUME NEW d, NEW v, VolumeFits(d, v), NEW first, ChainOf(d, v, first),
         NEW k \in 1 .. Len(d.chains[first].sectors)
  PROVE  SectorIn(d, v, first, k)
<1> DEFINE ch == d.chains[first].clusters
           se == d.chains[first].sectors
           skip == Skipped(v, first)
           p == k - 1 + skip
           b == v.secperclus
           n == p \div b
<1>1. b \in Nat \ {0} /\ skip \in 0 .. b - 1
  BY DEF VolumeFits, VolumeTyped, Skipped
<1>2. ch \in Seq(Int) /\ se \in Seq(Nat) /\ ChainFits(d, v, first, ch, se)
  BY DEF ChainOf
<1> HIDE DEF ch, se
<1>a. k \in 1 .. Len(se)
  BY DEF se
<1>b. Len(se) \in Nat /\ Len(ch) \in Nat
  BY <1>2
<1>c. Len(se) + skip = Len(ch) * b
  BY <1>2 DEF ChainFits
<1>d. se[k] = Begins(d, v, ch[(p \div b) + 1]) + (p % b) /\ se[k] > d.start
  BY <1>2, <1>a DEF ChainFits
<1> HIDE DEF skip
<1>3. p \in Nat /\ p < Len(ch) * b
  BY <1>1, <1>a, <1>b, <1>c
<1> HIDE DEF p, b
<1>4. n \in Nat /\ p % b \in 0 .. b - 1 /\ n < Len(ch)
  BY <1>1, <1>b, <1>3, Division, InRange
<1> HIDE DEF n
<1>5. n + 1 \in 1 .. Len(ch)
  BY <1>4, <1>b
<1> DEFINE c == ch[n + 1]
<1>6. /\ c <= v.dataclusters + 1
      /\ IF c < 0 THEN v.is_fat16 ELSE c \in DOMAIN d.fat \ {0, 1}
      /\ Linked(d, c) = IF n + 1 < Len(ch) THEN ch[(n + 1) + 1] ELSE 0
  BY <1>2, <1>5 DEF ChainFits
<1>7. c \in Int
  BY <1>2, <1>5
<1>8. c # 0
  BY <1>6, <1>7
<1>9. (n + 1) + 1 = n + 2
  BY <1>4
<1>10. se[k] \in Nat
  BY <1>2, <1>a
<1>11. n \in 0 .. Len(ch) - 1
  BY <1>4, <1>b
<1>12. se[k] = Begins(d, v, c) + (p % b)
  BY <1>d DEF n
<1> HIDE DEF c
<1>13. IF c < 0 THEN v.is_fat16 ELSE c \in DOMAIN d.fat
  BY <1>6
<1> QED BY <1>3, <1>4, <1>6, <1>7, <1>8, <1>9, <1>10, <1>11, <1>12, <1>13, <1>d
        DEF ch, se, p, skip, b, n, c, SectorIn

(* To the next sector of the chain.                                        *)
Same(s, t) ==
  /\ t.first = s.first /\ t.last = s.last /\ t.at = s.at
  /\ t.buf = s.buf /\ t.i = s.i /\ t.err = s.err

LoopAt(d, v, first, k, s) == Stands(d, v, first, k, s.cluster, s.sector, s.clusternum, s.numsec)

LEMMA ToClusterFacts ==
  ASSUME NEW v, NEW s, LoopFields \subseteq DOMAIN s, NEW g
  PROVE  LET t == ToCluster(v, s, g)
         IN  /\ Same(s, t) /\ t.m = g.m /\ t.cluster = g.next /\ t.numsec = 1
             /\ t.sector = cluster2sec(v, g.next) /\ t.clusternum = s.clusternum + 1
             /\ (t.eof <=> g.next = 0)
<1> DEFINE t == ToCluster(v, s, g)
           to == cluster2sec(v, g.next)
<1>1. t = [s EXCEPT !.m = g.m, !.cluster = g.next, !.numsec = 1, !.sector = to,
                    !.clusternum = @ + 1, !.eof = (g.next = 0)]
  BY DEF ToCluster
<1>2. PICK e : t = [s EXCEPT !.m = g.m, !.cluster = g.next, !.numsec = 1, !.sector = to,
                             !.clusternum = @ + 1, !.eof = e] /\ (e <=> g.next = 0)
  BY <1>1, Zenon
<1> HIDE DEF t, to
<1>3. t.m = g.m /\ t.cluster = g.next /\ t.numsec = 1
  BY <1>2 DEF LoopFields
<1>4. t.sector = to /\ t.clusternum = s.clusternum + 1 /\ t.eof = e
  BY <1>2 DEF LoopFields
<1>5. t.first = s.first /\ t.last = s.last /\ t.at = s.at
  BY <1>2 DEF LoopFields
<1>6. t.buf = s.buf /\ t.i = s.i /\ t.err = s.err
  BY <1>2 DEF LoopFields
<1>7. t.eof <=> g.next = 0
  BY <1>2, <1>4, Zenon
<1> QED BY <1>3, <1>4, <1>5, <1>6, <1>7 DEF t, to, Same

LEMMA AdvanceRight ==
  ASSUME NEW m0, NEW d, NEW v, VolumeFits(d, v), NEW f, ChainOf(d, v, f.firstcluster),
         NEW s, LoopGood(m0, s, v), NEW k \in Nat, LoopAt(d, v, f.firstcluster, k, s),
         k < Len(d.chains[f.firstcluster].sectors)
  PROVE  LET t == Advance(d, v, f, s)
         IN  /\ Kept(s.m, t.m) /\ Same(s, t)
             /\ t.m.fatlost \/ LoopAt(d, v, f.firstcluster, k + 1, t)
             /\ t.m.fatlost \/ s.eof \/ ~t.eof
<1> DEFINE t == Advance(d, v, f, s)
           first == f.firstcluster
           ch == d.chains[first].clusters
           se == d.chains[first].sectors
           skip == Skipped(v, first)
           b == v.secperclus
           p == k + skip
           n == p \div b
           w == p % b
<1>1. LoopFields \subseteq DOMAIN s /\ CachesOf(m0, s.m, v) /\ LoopTyped(s)
  BY DEF LoopGood
<1>2. /\ VolumeTyped(v) /\ FatTyped(d) /\ v.startsector \in Nat /\ v.rsvd \in Nat /\ d.start \in Nat
      /\ b \in Nat \ {0} /\ skip \in 0 .. b - 1
  BY DEF VolumeFits, VolumeTyped, Skipped
<1>3. Len(se) \in Nat
  BY DEF ChainOf
<1> HIDE DEF ch, se, b, skip
<1>4. k + 1 \in 1 .. Len(se) /\ (k + 1) - 1 + skip = p
  BY <1>2, <1>3 DEF se
<1> HIDE DEF first
<1>5. /\ p \in Nat /\ n \in 0 .. Len(ch) - 1 /\ w \in 0 .. b - 1
      /\ ch[n + 1] \in Int /\ ch[n + 1] # 0 /\ ch[n + 1] <= v.dataclusters + 1
      /\ se[k + 1] = Begins(d, v, ch[n + 1]) + w
      /\ se[k + 1] \in Nat /\ se[k + 1] > d.start
  <2> DEFINE K == k + 1
             P == K - 1 + Skipped(v, first)
             N == P \div v.secperclus
             C == d.chains[first].clusters
  <2>1. K \in 1 .. Len(d.chains[first].sectors) /\ ChainOf(d, v, first) /\ P = p
    BY <1>4 DEF se, first, skip
  <2> HIDE DEF K, p
  <2>2. /\ P \in Nat /\ N \in 0 .. Len(C) - 1 /\ P % v.secperclus \in 0 .. v.secperclus - 1
        /\ C[N + 1] \in Int /\ C[N + 1] # 0 /\ C[N + 1] <= v.dataclusters + 1
        /\ d.chains[first].sectors[K] = Begins(d, v, C[N + 1]) + (P % v.secperclus)
        /\ d.chains[first].sectors[K] \in Nat /\ d.chains[first].sectors[K] > d.start
    <3>1. SectorIn(d, v, first, K)
      BY <2>1, SectorFacts
    <3> QED BY <3>1 DEF SectorIn
  <2> HIDE DEF P
  <2> QED BY <2>1, <2>2 DEF ch, se, b, K
<1>6. cluster2sec(v, ch[n + 1]) = Begins(d, v, ch[n + 1]) - d.start
  BY <1>5, ClusterBegins
<1>7. Begins(d, v, ch[n + 1]) \in Int
  <2> DEFINE c == IF ch[n + 1] < 0 THEN ch[n + 1] ELSE ch[n + 1] - 2
  <2>1. c \in Int
    BY <1>5
  <2> HIDE DEF c
  <2>2. c * v.secperclus \in Int
    BY <2>1 DEF VolumeFits, VolumeTyped
  <2>3. d.start + v.firstdatasector \in Int
    BY <1>2 DEF VolumeTyped
  <2>4. Begins(d, v, ch[n + 1]) = (d.start + v.firstdatasector) + (c * v.secperclus)
    BY DEF Begins, c
  <2> QED BY <2>2, <2>3, <2>4
<1>8. t.clusternum = n /\ t.numsec = w + 1 /\ t.cluster = ch[n + 1] /\ t.sector = se[k + 1] - d.start
      => LoopAt(d, v, first, k + 1, t)
  <2>1. k + 1 # 0
    OBVIOUS
  <2> HIDE DEF t, p
  <2> QED BY <1>4, <2>1 DEF LoopAt, Stands, ch, se, skip, b
<1>9. CASE k = 0
  <2>1. s.cluster = first /\ s.sector = 0 /\ s.clusternum = 0 /\ s.numsec = 0
    BY <1>9 DEF LoopAt, Stands, first
  <2>2. p = skip /\ n = 0 /\ w = skip
    <3>1. p = 0 * b + skip /\ p = skip
      BY <1>2, <1>9
    <3> HIDE DEF p
    <3>2. p \div b = 0 /\ p % b = skip
      <4> DEFINE z == 0
      <4>1. z \in Int /\ p \in Nat /\ p = z * b + skip /\ b \in Nat \ {0} /\ skip \in 0 .. b - 1
        BY <1>2, <1>5, <3>1
      <4> HIDE DEF z
      <4>2. p \div b = z /\ p % b = skip
        BY <4>1, Quotient
      <4> QED BY <4>2 DEF z
    <3> QED BY <3>1, <3>2
  <2>3. ch[1] = first
    BY DEF ChainOf, ChainFits, ch, first
  <2>4. ch[n + 1] = first /\ first # 0
    BY <1>5, <2>2, <2>3
  <2>5. ~(s.numsec + 1 > b \/ s.cluster = 0) /\ s.sector = 0
    BY <1>2, <2>1, <2>4
  <2>6. skip = IF first < 0 THEN v.rootdiroffset ELSE 0
    BY DEF skip, Skipped
  <2> DEFINE begin == cluster2sec(v, first) + skip
  <2> HIDE DEF n, w, p
  <2>7. t = [s EXCEPT !.sector = begin, !.numsec = 1 + skip]
    BY <2>5, <2>6 DEF Advance, first, b, begin
  <2>8. begin = se[k + 1] - d.start
    BY <1>2, <1>5, <1>6, <1>7, <2>2, <2>4
  <2> HIDE DEF t, begin
  <2>9. t.sector = begin /\ t.numsec = 1 + skip
    BY <1>1, <2>7 DEF LoopFields
  <2>10. t.cluster = s.cluster /\ t.clusternum = s.clusternum /\ t.m = s.m
    BY <1>1, <2>7 DEF LoopFields
  <2>11. t.first = s.first /\ t.last = s.last /\ t.at = s.at
    BY <1>1, <2>7 DEF LoopFields
  <2>12. t.buf = s.buf /\ t.i = s.i /\ t.err = s.err
    BY <1>1, <2>7 DEF LoopFields
  <2>13. t.eof = s.eof
    BY <1>1, <2>7 DEF LoopFields
  <2>14. LoopAt(d, v, first, k + 1, t)
    BY <1>2, <1>8, <2>1, <2>2, <2>4, <2>8, <2>9, <2>10
  <2> QED BY <2>10, <2>11, <2>12, <2>13, <2>14, KeptAll DEF Same, t, first
<1>10. CASE k # 0
  <2> DEFINE q == k - 1 + skip
             j == q \div b
             x == q % b
  <2>0. k \in 1 .. Len(se) /\ p = q + 1
    BY <1>2, <1>4, <1>10
  <2>1. s.clusternum = j /\ s.numsec = x + 1 /\ s.cluster = ch[j + 1] /\ s.sector = se[k] - d.start
    BY <1>10 DEF LoopAt, Stands, skip, b, ch, se, first
  <2> HIDE DEF q
  <2>2. /\ q \in Nat /\ j \in 0 .. Len(ch) - 1 /\ x \in 0 .. b - 1
        /\ ch[j + 1] \in Int /\ ch[j + 1] # 0
        /\ IF ch[j + 1] < 0 THEN v.is_fat16 ELSE ch[j + 1] \in DOMAIN d.fat
        /\ Linked(d, ch[j + 1]) = IF j + 1 < Len(ch) THEN ch[j + 2] ELSE 0
        /\ se[k] = Begins(d, v, ch[j + 1]) + x
        /\ se[k] \in Nat /\ se[k] > d.start
    <3> DEFINE C == d.chains[first].clusters
               P == k - 1 + Skipped(v, first)
               N == P \div v.secperclus
    <3>1. k \in 1 .. Len(d.chains[first].sectors) /\ ChainOf(d, v, first) /\ P = q
      BY <2>0 DEF se, first, skip, q
    <3>2. /\ P \in Nat /\ N \in 0 .. Len(C) - 1 /\ P % v.secperclus \in 0 .. v.secperclus - 1
          /\ C[N + 1] \in Int /\ C[N + 1] # 0
          /\ IF C[N + 1] < 0 THEN v.is_fat16 ELSE C[N + 1] \in DOMAIN d.fat
          /\ Linked(d, C[N + 1]) = IF N + 1 < Len(C) THEN C[N + 2] ELSE 0
          /\ d.chains[first].sectors[k] = Begins(d, v, C[N + 1]) + (P % v.secperclus)
          /\ d.chains[first].sectors[k] \in Nat /\ d.chains[first].sectors[k] > d.start
      <4>1. SectorIn(d, v, first, k)
        BY <3>1, SectorFacts
      <4> QED BY <4>1 DEF SectorIn
    <3> HIDE DEF P
    <3> QED BY <3>1, <3>2 DEF ch, se, b
  <2>3. IF x = b - 1 THEN n = j + 1 /\ w = 0 ELSE n = j /\ w = x + 1
    BY <1>2, <2>0, <2>2, OneFurther, ZenonT(30)
  <2> HIDE DEF n, w, p, j, x
  <2>4. CASE x = b - 1
    <3> DEFINE g == get_next_cluster(d, s.m, v, s.cluster)
    <3>1. s.numsec + 1 > b
      BY <1>2, <2>1, <2>2, <2>4
    <3>2. t = ToCluster(v, s, g)
      BY <3>1 DEF Advance, b
    <3>3. n = j + 1 /\ w = 0 /\ j + 1 < Len(ch) /\ n + 1 = j + 2
      <4>1. Len(ch) \in Nat
        BY DEF ChainOf, ch, first
      <4> QED BY <4>1, <1>5, <2>2, <2>3, <2>4
    <3>4. Linked(d, s.cluster) = ch[n + 1]
      BY <2>1, <2>2, <3>3
    <3>5. Kept(s.m, g.m) /\ (g.m.fatlost \/ g.next = ch[n + 1])
      <4>1. s.cluster \in Int /\ (IF s.cluster < 0 THEN v.is_fat16 ELSE s.cluster \in DOMAIN d.fat)
        BY <2>1, <2>2
      <4>2. Kept(s.m, g.m) /\ (g.m.fatlost \/ g.next = Linked(d, s.cluster))
        BY <1>1, <1>2, <4>1, NextRight
      <4> QED BY <3>4, <4>2
    <3> HIDE DEF t, g
    <3>6. /\ Same(s, t) /\ t.m = g.m /\ t.cluster = g.next /\ t.numsec = 1
          /\ t.sector = cluster2sec(v, g.next) /\ t.clusternum = s.clusternum + 1
          /\ (t.eof <=> g.next = 0)
      BY <1>1, <3>2, ToClusterFacts
    <3>7. ASSUME g.next = ch[n + 1]
          PROVE  LoopAt(d, v, first, k + 1, t) /\ ~t.eof
      <4>1. t.sector = se[k + 1] - d.start
        BY <1>2, <1>5, <1>6, <1>7, <3>3, <3>6, <3>7
      <4> QED BY <1>5, <1>8, <2>1, <3>3, <3>6, <3>7, <4>1
    <3>8. Kept(s.m, t.m) /\ (t.m.fatlost \/ LoopAt(d, v, first, k + 1, t)) /\ (t.m.fatlost \/ ~t.eof)
      BY <3>5, <3>6, <3>7
    <3> QED BY <3>6, <3>8 DEF t, first
  <2>5. CASE x # b - 1
    <3>1. ~(s.numsec + 1 > b \/ s.cluster = 0) /\ s.sector # 0
      BY <1>2, <2>1, <2>2, <2>5
    <3>2. t = [s EXCEPT !.sector = @ + 1, !.numsec = @ + 1]
      BY <3>1 DEF Advance, b
    <3>3. n = j /\ w = x + 1
      BY <2>3, <2>5
    <3> HIDE DEF t
    <3>4. t.sector = s.sector + 1 /\ t.numsec = s.numsec + 1
      BY <1>1, <3>2 DEF LoopFields
    <3>5. t.cluster = s.cluster /\ t.clusternum = s.clusternum /\ t.m = s.m
      BY <1>1, <3>2 DEF LoopFields
    <3>6. t.first = s.first /\ t.last = s.last /\ t.at = s.at
      BY <1>1, <3>2 DEF LoopFields
    <3>7. t.buf = s.buf /\ t.i = s.i /\ t.err = s.err
      BY <1>1, <3>2 DEF LoopFields
    <3>8. t.eof = s.eof
      BY <1>1, <3>2 DEF LoopFields
    <3>9. t.sector = se[k + 1] - d.start
      <4> DEFINE B == Begins(d, v, ch[j + 1])
      <4>1. se[k + 1] = B + (x + 1) /\ se[k] = B + x
        BY <1>5, <2>2, <3>3
      <4>2. B \in Int /\ x \in Int
        BY <1>7, <2>2, <3>3
      <4> HIDE DEF B
      <4> QED BY <1>2, <2>1, <3>4, <4>1, <4>2
    <3>10. LoopAt(d, v, first, k + 1, t)
      BY <1>8, <2>1, <2>2, <3>3, <3>4, <3>5, <3>9
    <3> QED BY <3>5, <3>6, <3>7, <3>8, <3>10, KeptAll DEF Same, t, first
  <2> QED BY <2>4, <2>5
<1> QED BY <1>9, <1>10

(* Behind the last sector of the chain: its end.                           *)
LEMMA AdvanceEnds ==
  ASSUME NEW m0, NEW d, NEW v, VolumeFits(d, v), NEW f, ChainOf(d, v, f.firstcluster),
         NEW s, LoopGood(m0, s, v), NEW k \in Nat, LoopAt(d, v, f.firstcluster, k, s),
         k = Len(d.chains[f.firstcluster].sectors)
  PROVE  LET t == Advance(d, v, f, s)
         IN  Same(s, t) /\ (t.m.fatlost \/ t.eof)
<1> DEFINE t == Advance(d, v, f, s)
           first == f.firstcluster
           ch == d.chains[first].clusters
           se == d.chains[first].sectors
           skip == Skipped(v, first)
           b == v.secperclus
           p == k - 1 + skip
           n == p \div b
           w == p % b
           g == get_next_cluster(d, s.m, v, s.cluster)
<1>1. LoopFields \subseteq DOMAIN s /\ CachesOf(m0, s.m, v) /\ LoopTyped(s)
  BY DEF LoopGood
<1>2. /\ VolumeTyped(v) /\ FatTyped(d) /\ v.startsector \in Nat /\ v.rsvd \in Nat
      /\ b \in Nat \ {0} /\ skip \in 0 .. b - 1
  BY DEF VolumeFits, VolumeTyped, Skipped
<1>3. /\ ch \in Seq(Int) /\ Len(ch) \in Nat \ {0} /\ Len(se) + skip = Len(ch) * b /\ Len(se) \in Nat
  <2>1. ch \in Seq(Int) /\ se \in Seq(Nat) /\ ChainFits(d, v, first, ch, se)
    BY DEF ChainOf
  <2> HIDE DEF ch, se
  <2>2. ch # <<>> /\ Len(se) + skip = Len(ch) * b
    BY <2>1 DEF ChainFits
  <2> QED BY <2>1, <2>2
<1> HIDE DEF ch, skip, b
<1>4. k = Len(se)
  OBVIOUS
<1> HIDE DEF se
<1>5. Len(ch) * b >= b
  <2> DEFINE x == Len(ch) - 1
  <2>1. x \in Nat /\ Len(ch) * b = x * b + b
    BY <1>2, <1>3
  <2> HIDE DEF x
  <2>2. x * b \in Nat
    BY <1>2, <2>1
  <2> QED BY <1>2, <2>1, <2>2
<1>6. k \in 1 .. Len(se) /\ p + 1 = Len(ch) * b
  BY <1>2, <1>3, <1>4, <1>5
<1> HIDE DEF p
<1>7. SectorIn(d, v, first, k)
  BY <1>6, SectorFacts DEF se
<1> HIDE DEF first
<1>8. /\ p \in Nat /\ n \in 0 .. Len(ch) - 1 /\ w \in 0 .. b - 1
      /\ ch[n + 1] \in Int
      /\ IF ch[n + 1] < 0 THEN v.is_fat16 ELSE ch[n + 1] \in DOMAIN d.fat
      /\ Linked(d, ch[n + 1]) = IF n + 1 < Len(ch) THEN ch[n + 2] ELSE 0
  BY <1>7 DEF SectorIn, ch, se, skip, b, p
<1>9. n = Len(ch) - 1 /\ w = b - 1
  <2> DEFINE q == Len(ch) - 1
             r == b - 1
  <2>1. q \in Int /\ r \in 0 .. b - 1 /\ p = q * b + r /\ b \in Nat \ {0} /\ p \in Nat
    <3> DEFINE X == Len(ch)
    <3>1. X \in Int /\ p + 1 = X * b /\ b \in Nat \ {0} /\ p \in Nat
      BY <1>2, <1>3, <1>6, <1>8
    <3> HIDE DEF X
    <3>2. (X - 1) * b = X * b - b /\ X * b \in Int
      BY <3>1
    <3>3. p = (X - 1) * b + (b - 1)
      BY <3>1, <3>2
    <3>4. X - 1 \in Int /\ b - 1 \in 0 .. b - 1
      BY <3>1
    <3> QED BY <3>1, <3>3, <3>4 DEF X
  <2> HIDE DEF q, r
  <2>2. p \div b = q /\ p % b = r
    BY <2>1, Quotient
  <2> QED BY <2>2 DEF q, r
<1>10. s.numsec = w + 1 /\ s.cluster = ch[n + 1]
  BY <1>6 DEF LoopAt, Stands, skip, b, ch, se, first, p
<1> HIDE DEF n, w
<1>11. s.numsec + 1 > b /\ Linked(d, s.cluster) = 0
  BY <1>2, <1>3, <1>8, <1>9, <1>10
<1>12. t = ToCluster(v, s, g)
  BY <1>11 DEF Advance, b
<1>13. g.m.fatlost \/ g.next = 0
  <2>1. s.cluster \in Int /\ (IF s.cluster < 0 THEN v.is_fat16 ELSE s.cluster \in DOMAIN d.fat)
    BY <1>8, <1>10
  <2>2. g.m.fatlost \/ g.next = Linked(d, s.cluster)
    BY <1>1, <1>2, <2>1, NextRight
  <2> QED BY <1>11, <2>2
<1> HIDE DEF t, g
<1>14. Same(s, t) /\ t.m = g.m /\ (t.eof <=> g.next = 0)
  BY <1>1, <1>12, ToClusterFacts
<1> QED BY <1>13, <1>14 DEF t

(* A chain comes to no sector twice: from a cluster on it is always the    *)
(* same, and it ends.                                                      *)
LEMMA ClustersDiffer ==
  ASSUME NEW d, NEW v, VolumeFits(d, v), NEW first, ChainOf(d, v, first),
         NEW i \in 1 .. Len(d.chains[first].clusters), NEW j \in 1 .. Len(d.chains[first].clusters),
         i < j
  PROVE  d.chains[first].clusters[i] # d.chains[first].clusters[j]
<1> DEFINE ch == d.chains[first].clusters
           N == Len(ch)
           Alike == {n \in Nat : j + n <= N => ch[i + n] = ch[j + n]}
<1>1. ch \in Seq(Int) /\ N \in Nat
  BY DEF ChainOf
<1>2. \A x \in 1 .. N : Linked(d, ch[x]) = IF x < N THEN ch[x + 1] ELSE 0
  BY DEF ChainOf, ChainFits
<1>3. \A x \in 1 .. N : ch[x] # 0
  <2>1. \A x \in 1 .. N : IF ch[x] < 0 THEN v.is_fat16 ELSE ch[x] \in DOMAIN d.fat \ {0, 1}
    BY DEF ChainOf, ChainFits
  <2>2. ~(0 < 0)
    OBVIOUS
  <2> HIDE DEF ch
  <2> QED BY <2>1, <2>2
<1>4. i \in 1 .. N /\ j \in 1 .. N
  OBVIOUS
<1> HIDE DEF ch
<1>5. SUFFICES ASSUME ch[i] = ch[j] PROVE FALSE
  BY DEF ch
<1> HIDE DEF N
<1>6. 0 \in Alike
  BY <1>4, <1>5
<1>7. ASSUME NEW n \in Nat, n \in Alike PROVE n + 1 \in Alike
  <2> DEFINE a == i + n
             c == j + n
  <2>1. SUFFICES ASSUME j + (n + 1) <= N PROVE ch[i + (n + 1)] = ch[j + (n + 1)]
    OBVIOUS
  <2>2. a \in 1 .. N /\ c \in 1 .. N /\ a < N /\ c < N /\ i + (n + 1) = a + 1 /\ j + (n + 1) = c + 1
    BY <1>1, <1>4, <2>1
  <2>3. ch[a] = ch[c]
    BY <1>1, <1>4, <1>7, <2>1
  <2> HIDE DEF a, c
  <2>4. Linked(d, ch[a]) = ch[a + 1] /\ Linked(d, ch[c]) = ch[c + 1]
    BY <1>2, <2>2
  <2> QED BY <2>2, <2>3, <2>4
<1>8. \A n \in Nat : n \in Alike
  <2> HIDE DEF Alike
  <2> QED BY <1>6, <1>7, Counting
<1> DEFINE e == N - j
           a == i + e
<1>9. e \in Nat /\ j + e = N /\ a \in 1 .. N /\ a < N /\ a + 1 \in 1 .. N
  BY <1>1, <1>4
<1>10. ch[a] = ch[N]
  <2> HIDE DEF e
  <2>1. e \in Alike
    BY <1>8, <1>9
  <2>2. j + e <= N
    BY <1>1, <1>9
  <2> QED BY <1>9, <2>1, <2>2
<1> HIDE DEF a
<1>11. Linked(d, ch[a]) = ch[a + 1] /\ ch[a + 1] # 0
  BY <1>2, <1>3, <1>9
<1>12. N \in 1 .. N /\ ~(N < N)
  BY <1>1, <1>4
<1>13. Linked(d, ch[N]) = 0
  BY <1>2, <1>12
<1> QED BY <1>10, <1>11, <1>13

LEMMA SectorsDiffer ==
  ASSUME NEW d, NEW v, VolumeFits(d, v), NEW first, ChainOf(d, v, first),
         NEW k \in 1 .. Len(d.chains[first].sectors), NEW l \in 1 .. Len(d.chains[first].sectors),
         d.chains[first].sectors[k] = d.chains[first].sectors[l]
  PROVE  k = l
<1> DEFINE ch == d.chains[first].clusters
           se == d.chains[first].sectors
           skip == Skipped(v, first)
           b == v.secperclus
           Num(c) == IF c < 0 THEN c ELSE c - 2
           p == k - 1 + skip
           q == l - 1 + skip
           n == p \div b
           o == q \div b
           w == p % b
           x == q % b
<1>1. /\ b \in Nat \ {0} /\ skip \in 0 .. b - 1 /\ d.start + v.firstdatasector \in Int
      /\ d.start \in Int /\ v.firstdatasector \in Int
  BY SMTT(30) DEF VolumeFits, VolumeTyped, Skipped
<1>2. SectorIn(d, v, first, k) /\ SectorIn(d, v, first, l)
  BY SectorFacts
<1>3. /\ \A y \in 1 .. Len(ch) : IF ch[y] < 0 THEN v.is_fat16 ELSE ch[y] \in DOMAIN d.fat \ {0, 1}
      /\ ch \in Seq(Int)
  BY DEF ChainOf, ChainFits
<1>a. Len(se) \in Nat
  BY DEF ChainOf
<1>b. k \in Int /\ l \in Int
  BY <1>a
<1> HIDE DEF ch, se, b, skip
<1> HIDE DEF p, q
<1>4. /\ p \in Nat /\ n \in 0 .. Len(ch) - 1 /\ w \in 0 .. b - 1
      /\ se[k] = Begins(d, v, ch[n + 1]) + w
  BY <1>2 DEF SectorIn, ch, se, skip, b, p
<1>5. /\ q \in Nat /\ o \in 0 .. Len(ch) - 1 /\ x \in 0 .. b - 1
      /\ se[l] = Begins(d, v, ch[o + 1]) + x
  BY <1>2 DEF SectorIn, ch, se, skip, b, q
<1>6. p = n * b + w /\ q = o * b + x
  BY <1>1, <1>4, <1>5, Division
<1> HIDE DEF n, o, w, x
<1> DEFINE i == n + 1
           j == o + 1
           y == Num(ch[i])
           z == Num(ch[j])
<1>7. i \in 1 .. Len(ch) /\ j \in 1 .. Len(ch)
  BY <1>3, <1>4, <1>5
<1>8. ch[i] \in Int /\ ch[j] \in Int
  BY <1>3, <1>7
<1>9. y \in Int /\ z \in Int
  BY <1>8
<1>10. se[k] = (d.start + v.firstdatasector + y * b) + w
  BY <1>4 DEF Begins, b
<1>11. se[l] = (d.start + v.firstdatasector + z * b) + x
  BY <1>5 DEF Begins, b
<1>12. se[k] = se[l]
  BY DEF se
<1>13. y = z => ch[i] = ch[j]
  <2>1. (ch[i] < 0 \/ ch[i] \notin {0, 1}) /\ (ch[j] < 0 \/ ch[j] \notin {0, 1})
    BY <1>3, <1>7
  <2> QED BY <1>8, <2>1
<1> HIDE DEF y, z
<1>14. y * b + w = z * b + x
  <2> DEFINE A == y * b
             B == z * b
  <2>1. A \in Int /\ B \in Int
    BY <1>1, <1>9
  <2>2. (d.start + v.firstdatasector + A) + w = (d.start + v.firstdatasector + B) + x
    BY <1>10, <1>11, <1>12
  <2> HIDE DEF A, B
  <2> DEFINE S == d.start + v.firstdatasector
  <2>a. w \in Int /\ x \in Int /\ S \in Int /\ (S + A) + w = (S + B) + x
    BY <1>1, <1>4, <1>5, <2>2
  <2> HIDE DEF S
  <2>3. A + w = B + x
    BY <2>1, <2>a
  <2> QED BY <2>3 DEF A, B
<1>15. y = z /\ w = x
  <2> DEFINE A == y * b
             B == z * b
  <2>1. A \in Int /\ B \in Int /\ A + w = B + x /\ w \in 0 .. b - 1 /\ x \in 0 .. b - 1 /\ b \in Nat
    BY <1>1, <1>4, <1>5, <1>9, <1>14
  <2>2. y > z => A >= B + b
    <3>1. SUFFICES ASSUME y > z PROVE A >= B + b
      OBVIOUS
    <3>2. y * b >= (z + 1) * b /\ (z + 1) * b = z * b + b
      BY <1>1, <1>9, <3>1
    <3> QED BY <3>2
  <2>3. z > y => B >= A + b
    <3>1. SUFFICES ASSUME z > y PROVE B >= A + b
      OBVIOUS
    <3>2. z * b >= (y + 1) * b /\ (y + 1) * b = y * b + b
      BY <1>1, <1>9, <3>1
    <3> QED BY <3>2
  <2>4. y = z => A = B
    OBVIOUS
  <2> HIDE DEF A, B
  <2>5. ~(y > z) /\ ~(z > y)
    BY <2>1, <2>2, <2>3
  <2>6. y = z
    BY <1>9, <2>5
  <2> QED BY <2>1, <2>4, <2>6
<1>16. i = j
  <2>1. ch[i] = ch[j]
    BY <1>13, <1>15
  <2> HIDE DEF i, j
  <2>2. ~(i < j) /\ ~(j < i)
    BY <1>7, <2>1, ClustersDiffer DEF ch
  <2>3. i \in Int /\ j \in Int
    BY <1>7
  <2> QED BY <2>2, <2>3
<1>17. n = o
  BY <1>4, <1>5, <1>16
<1>18. p = q
  BY <1>6, <1>15, <1>17
<1> QED BY <1>1, <1>b, <1>18 DEF p, q

-----------------------------------------------------------------------------
(* The loop of fat_readwrite, which reads count sectors of a chain behind  *)
(* its first k0: after i turns the sectors up to at are in the buffer, and *)
(* those from at on are one run on the medium, which begins at from.       *)
Sec(d, first, k) == d.chains[first].sectors[k]

RunFrom(d, first, k0, from, at, i) ==
  /\ at \in 0 .. i - 1 /\ from \in Nat \ {0}
  /\ \A j \in at + 1 .. i : Sec(d, first, k0 + j) = d.start + from + (j - at) - 1

HaveRead(d, first, k0, buf, n) == \A j \in 1 .. n : buf[j] = Sec(d, first, k0 + j)

RunState(d, v, first, k0, count, i, s) ==
  /\ s.i = i /\ ~s.err /\ ~s.eof /\ LoopAt(d, v, first, k0 + i, s)
  /\ DOMAIN s.buf = 1 .. count
  /\ IF i = 0 THEN s.first = 0 /\ s.last = 0 /\ s.at = 0
     ELSE RunFrom(d, first, k0, s.first, s.at, i) /\ s.last = s.sector
  /\ s.m.lost \/ HaveRead(d, first, k0, s.buf, s.at)
  /\ i = count => s.m.lost \/ HaveRead(d, first, k0, s.buf, count)

MidState(d, first, k0, count, i, mid) ==
  /\ RunFrom(d, first, k0, mid.from, mid.at, i) /\ mid.rc = 0 /\ DOMAIN mid.buf = 1 .. count
  /\ mid.m.lost \/ HaveRead(d, first, k0, mid.buf, mid.at)

(* Of a sector of the chain, and of a run of them.                         *)
LEMMA SecFacts ==
  ASSUME NEW d, NEW v, VolumeFits(d, v), NEW first, ChainOf(d, v, first),
         NEW k \in 1 .. Len(d.chains[first].sectors)
  PROVE  /\ Sec(d, first, k) \in Nat /\ Sec(d, first, k) > d.start
         /\ d.start \in Nat /\ v.startsector = d.start
         /\ \A x : LoopAt(d, v, first, k, x) => x.sector = Sec(d, first, k) - d.start
<1>1. SectorIn(d, v, first, k)
  BY SectorFacts
<1>2. Len(d.chains[first].sectors) \in Nat
  BY DEF ChainOf
<1>3. k # 0
  BY <1>2
<1> QED BY <1>1, <1>3 DEF SectorIn, Sec, LoopAt, Stands, VolumeFits

(* The sectors of a run, read to their places in the buffer.               *)
LEMMA RunRead ==
  ASSUME NEW m0, NEW d, NEW v, VolumeFits(d, v), NEW first, NEW k0 \in Nat, NEW count \in Nat,
         NEW i \in 0 .. count, NEW from, NEW at, RunFrom(d, first, k0, from, at, i),
         NEW m, CachesOf(m0, m, v), NEW buf, DOMAIN buf = 1 .. count,
         m.lost \/ HaveRead(d, first, k0, buf, at), NEW n, n = i - at
  PROVE  LET r == transfer(d, m, v, from, n, buf, at)
         IN  /\ Kept(m, r.m) /\ r.rc = 0 /\ DOMAIN r.buf = 1 .. count
             /\ r.m.lost \/ HaveRead(d, first, k0, r.buf, i)
<1> DEFINE r == transfer(d, m, v, from, n, buf, at)
<1>1. /\ at \in 0 .. i - 1 /\ from \in Nat /\ n \in Nat
      /\ \A j \in at + 1 .. i : Sec(d, first, k0 + j) = d.start + from + (j - at) - 1
  BY DEF RunFrom
<1>2. VolumeTyped(v) /\ v.startsector = d.start /\ d.start \in Nat
  BY DEF VolumeFits
<1>3. from \in Int /\ at \in Int
  BY <1>1
<1>4. /\ Kept(m, r.m) /\ r.rc = 0 /\ DOMAIN r.buf = DOMAIN buf
      /\ r.m.lost \/ ReadInto(v, from, n, buf, at, r)
  BY <1>1, <1>2, <1>3, TransferRight
<1> HIDE DEF r
<1>5. ASSUME HaveRead(d, first, k0, buf, at), ReadInto(v, from, n, buf, at, r)
      PROVE  HaveRead(d, first, k0, r.buf, i)
  <2>1. SUFFICES ASSUME NEW j \in 1 .. i PROVE r.buf[j] = Sec(d, first, k0 + j)
    BY DEF HaveRead
  <2>2. j \in DOMAIN buf
    OBVIOUS
  <2>3. CASE j <= at
    <3>1. j \in 1 .. at /\ j \notin at + 1 .. at + n
      BY <1>1, <2>3
    <3>2. r.buf[j] = buf[j] /\ buf[j] = Sec(d, first, k0 + j)
      BY <1>5, <2>2, <3>1 DEF HaveRead, ReadInto
    <3> QED BY <3>2
  <2>4. CASE j > at
    <3>1. j \in at + 1 .. at + n /\ j \in at + 1 .. i
      BY <1>1, <2>4
    <3>2. r.buf[j] = from + v.startsector + (j - at) - 1
      BY <1>5, <2>2, <3>1 DEF ReadInto
    <3>3. Sec(d, first, k0 + j) = d.start + from + (j - at) - 1
      BY <1>1, <3>1
    <3> QED BY <1>1, <1>2, <3>2, <3>3
  <2> QED BY <1>1, <2>3, <2>4
<1>6. r.m.lost \/ HaveRead(d, first, k0, r.buf, i)
  BY <1>4, <1>5 DEF Kept
<1> QED BY <1>4, <1>6 DEF r

LEMMA FlushRight ==
  ASSUME NEW m0, NEW d, NEW v, VolumeFits(d, v), NEW first, ChainOf(d, v, first),
         NEW k0 \in Nat, NEW count \in Nat, NEW i \in 0 .. count - 1,
         k0 + count <= Len(d.chains[first].sectors),
         NEW s, RunState(d, v, first, k0, count, i, s),
         NEW t, LoopGood(m0, t, v), Same(s, t), Kept(s.m, t.m), LoopAt(d, v, first, k0 + (i + 1), t)
  PROVE  MidState(d, first, k0, count, i + 1, Flush(d, v, s, t))
<1> DEFINE mid == Flush(d, v, s, t)
           N == Len(d.chains[first].sectors)
           next == Sec(d, first, k0 + (i + 1))
<1>1. N \in Nat /\ k0 + (i + 1) \in 1 .. N
  BY DEF ChainOf
<1>2. next \in Nat /\ next > d.start /\ d.start \in Nat /\ t.sector = next - d.start
  BY <1>1, SecFacts
<1>3. /\ DOMAIN s.buf = 1 .. count /\ (t.m.lost \/ HaveRead(d, first, k0, s.buf, s.at))
  BY DEF RunState, Kept
<1>4. CachesOf(m0, t.m, v)
  BY DEF LoopGood
<1>5. CASE i = 0
  <2>1. s.first = 0 /\ s.last = 0 /\ s.at = 0
    BY <1>5 DEF RunState
  <2>2. First(s, t) = t.sector
    BY <2>1 DEF First
  <2>3. ~Breaks(s, First(s, t), t.sector)
    BY <1>2, <2>1, <2>2, Sizes DEF Breaks
  <2>4. mid = [m |-> t.m, rc |-> 0, buf |-> s.buf, from |-> t.sector, at |-> 0]
    BY <2>1, <2>2, <2>3 DEF Flush
  <2> HIDE DEF mid
  <2>5. RunFrom(d, first, k0, t.sector, 0, i + 1)
    <3>1. \A j \in 0 + 1 .. i + 1 : Sec(d, first, k0 + j) = d.start + t.sector + (j - 0) - 1
      <4> TAKE j \in 0 + 1 .. i + 1
      <4>1. j = 1 /\ j = i + 1
        BY <1>5
      <4> QED BY <1>2, <4>1
    <3>2. 0 \in 0 .. (i + 1) - 1 /\ t.sector \in Nat \ {0}
      BY <1>2, <1>5
    <3> QED BY <3>1, <3>2 DEF RunFrom
  <2> QED BY <1>3, <2>1, <2>4, <2>5 DEF MidState, mid
<1>6. CASE i # 0
  <2> DEFINE from == s.first
             at == s.at
             n == RunLength(s, t)
  <2>1. RunFrom(d, first, k0, from, at, i) /\ s.last = s.sector /\ LoopAt(d, v, first, k0 + i, s)
    BY <1>6 DEF RunState
  <2>2. /\ at \in 0 .. i - 1 /\ from \in Nat \ {0}
        /\ \A j \in at + 1 .. i : Sec(d, first, k0 + j) = d.start + from + (j - at) - 1
    BY <2>1 DEF RunFrom
  <2>a. i \in Int /\ at \in Int /\ from \in Int /\ d.start \in Int /\ at >= 0 /\ at < i /\ i > 0
    BY <1>2, <1>6, <2>2
  <2>3. First(s, t) = from
    BY <2>2 DEF First
  <2>4. k0 + i \in 1 .. N /\ i \in at + 1 .. i
    BY <1>1, <1>6, <2>2, SMTT(30)
  <2>5. s.last = Sec(d, first, k0 + i) - d.start /\ Sec(d, first, k0 + i) \in Nat
    BY <2>1, <2>4, SecFacts
  <2>6. s.last = from + (i - at) - 1
    <3>1. Sec(d, first, k0 + i) = d.start + from + (i - at) - 1
      BY <2>2, <2>4
    <3> HIDE DEF from, at
    <3> QED BY <2>a, <2>5, <3>1
  <2>7. n = i - at
    BY <2>2, <2>3, <2>6 DEF RunLength
  <2>8. CASE Breaks(s, First(s, t), t.sector)
    <3> DEFINE r == transfer(d, t.m, v, from, n, s.buf, at)
    <3>1. mid = [m |-> r.m, rc |-> r.rc, buf |-> r.buf, from |-> t.sector, at |-> at + n]
      BY <2>3, <2>8 DEF Flush
    <3>2. i \in 0 .. count
      OBVIOUS
    <3>3. /\ Kept(t.m, r.m) /\ r.rc = 0 /\ DOMAIN r.buf = 1 .. count
          /\ r.m.lost \/ HaveRead(d, first, k0, r.buf, i)
      <4> HIDE DEF from, at, n
      <4>1. RunFrom(d, first, k0, from, at, i) /\ (t.m.lost \/ HaveRead(d, first, k0, s.buf, at))
        BY <1>3, <2>1 DEF at
      <4> QED BY <1>3, <1>4, <2>7, <3>2, <4>1, RunRead
    <3> HIDE DEF mid, r
    <3>4. mid.at = i /\ mid.from = t.sector
      BY <2>2, <2>7, <3>1
    <3>5. RunFrom(d, first, k0, t.sector, i, i + 1)
      <4>1. \A j \in i + 1 .. i + 1 : Sec(d, first, k0 + j) = d.start + t.sector + (j - i) - 1
        <5> TAKE j \in i + 1 .. i + 1
        <5>1. j = i + 1
          OBVIOUS
        <5> QED BY <1>2, <5>1
      <4>2. i \in 0 .. (i + 1) - 1 /\ t.sector \in Nat \ {0}
        BY <1>2
      <4> QED BY <4>1, <4>2 DEF RunFrom
    <3>6. mid.rc = 0 /\ mid.buf = r.buf /\ mid.m = r.m
      BY <3>1, <3>3
    <3> QED BY <3>3, <3>4, <3>5, <3>6 DEF MidState, mid
  <2>9. CASE ~Breaks(s, First(s, t), t.sector)
    <3>1. mid = [m |-> t.m, rc |-> 0, buf |-> s.buf, from |-> from, at |-> at]
      BY <2>3, <2>9 DEF Flush
    <3>2. t.sector = from \/ t.sector = s.last + 1
      BY <2>3, <2>9 DEF Breaks
    <3>3. t.sector # from
      <4> DEFINE l == k0 + (at + 1)
                 k == k0 + (i + 1)
      <4>1. at + 1 \in at + 1 .. i /\ (at + 1) - at = 1
        BY <2>2, <1>6
      <4>2. Sec(d, first, l) = d.start + from
        <5>1. Sec(d, first, k0 + (at + 1)) = d.start + from + ((at + 1) - at) - 1
          BY <2>2, <4>1
        <5> QED BY <1>2, <2>2, <4>1, <5>1, SMTT(30)
      <4>3. l \in 1 .. N /\ k \in 1 .. N /\ l # k
        <5> HIDE DEF at, N
        <5> QED BY <1>1, <2>a
      <4>4. Sec(d, first, k) # Sec(d, first, l)
        <5> HIDE DEF l, k
        <5> QED BY <4>3, SectorsDiffer DEF Sec
      <4> QED BY <1>2, <2>2, <4>2, <4>4
    <3> HIDE DEF mid
    <3>4. RunFrom(d, first, k0, from, at, i + 1)
      <4>1. ASSUME NEW j \in at + 1 .. i + 1
            PROVE  Sec(d, first, k0 + j) = d.start + from + (j - at) - 1
        <5>1. CASE j = i + 1
          <6> HIDE DEF from, at, next
          <6>1. next = d.start + from + (i - at)
            <7>1. t.sector = s.last + 1
              BY <3>2, <3>3
            <7>2. t.sector = from + (i - at)
              BY <2>a, <2>6, <7>1
            <7>3. next \in Nat /\ d.start \in Nat /\ t.sector = next - d.start
              BY <1>2, Zenon
            <7> QED BY <2>a, <7>2, <7>3, SMTT(30)
          <6>2. d.start + from + (i - at) = d.start + from + (j - at) - 1
            BY <2>a, <5>1
          <6> QED BY <5>1, <6>1, <6>2 DEF next
        <5>2. CASE j # i + 1
          <6>1. j \in at + 1 .. i
            BY <2>2, <5>2
          <6> QED BY <2>2, <6>1
        <5> QED BY <5>1, <5>2
      <4>2. at \in 0 .. (i + 1) - 1
        BY <2>2
      <4> QED BY <2>2, <4>1, <4>2 DEF RunFrom
    <3>5. mid.rc = 0 /\ mid.buf = s.buf /\ mid.m = t.m /\ mid.at = at /\ mid.from = from
      BY <3>1
    <3> QED BY <1>3, <3>4, <3>5 DEF MidState, mid
  <2> QED BY <2>8, <2>9
<1> QED BY <1>5, <1>6

LEMMA TurnEndFacts ==
  ASSUME NEW t, LoopFields \subseteq DOMAIN t, NEW mid, mid.rc = 0, NEW end, end.rc = 0
  PROVE  LET w == TurnEnd(t, mid, end)
         IN  /\ w.m = end.m /\ w.buf = end.buf /\ w.i = t.i + 1 /\ ~w.err /\ w.eof = t.eof
             /\ w.first = mid.from /\ w.last = t.sector /\ w.at = mid.at
             /\ w.cluster = t.cluster /\ w.sector = t.sector
             /\ w.clusternum = t.clusternum /\ w.numsec = t.numsec
<1> DEFINE w == TurnEnd(t, mid, end)
<1>1. w = [t EXCEPT !.m = end.m, !.first = mid.from, !.last = t.sector, !.at = mid.at,
                    !.buf = end.buf, !.i = t.i + 1, !.err = (mid.rc < 0 \/ end.rc < 0)]
  BY DEF TurnEnd
<1>2. ~(mid.rc < 0 \/ end.rc < 0)
  OBVIOUS
<1>3. PICK e : w = [t EXCEPT !.m = end.m, !.first = mid.from, !.last = t.sector, !.at = mid.at,
                             !.buf = end.buf, !.i = t.i + 1, !.err = e] /\ ~e
  BY <1>1, <1>2, Zenon
<1> HIDE DEF w
<1>4. w.m = end.m /\ w.buf = end.buf /\ w.i = t.i + 1
  BY <1>3 DEF LoopFields
<1>5. w.first = mid.from /\ w.last = t.sector /\ w.at = mid.at
  BY <1>3 DEF LoopFields
<1>6. w.cluster = t.cluster /\ w.sector = t.sector /\ w.clusternum = t.clusternum
  BY <1>3 DEF LoopFields
<1>7. w.numsec = t.numsec /\ w.eof = t.eof /\ w.err = e
  BY <1>3 DEF LoopFields
<1>8. ~w.err
  BY <1>3, <1>7, Zenon
<1> QED BY <1>4, <1>5, <1>6, <1>7, <1>8 DEF w

LEMMA CollectedRight ==
  ASSUME NEW m0, NEW d, NEW v, VolumeFits(d, v), NEW first, ChainOf(d, v, first),
         NEW k0 \in Nat, NEW count \in Nat, NEW i \in 0 .. count - 1,
         k0 + count <= Len(d.chains[first].sectors),
         NEW t, LoopGood(m0, t, v), t.i = i, ~t.eof, LoopAt(d, v, first, k0 + (i + 1), t),
         NEW mid, CachesOf(m0, mid.m, v), MidState(d, first, k0, count, i + 1, mid)
  PROVE  RunState(d, v, first, k0, count, i + 1, Collected(d, v, t, mid, count))
<1> DEFINE next == Sec(d, first, k0 + (i + 1))
           from == mid.from
           at == mid.at
           n == t.sector - from + 1
           w == Collected(d, v, t, mid, count)
           whole == transfer(d, mid.m, v, from, n, mid.buf, at)
           end == IF i = count - 1 THEN whole ELSE [m |-> mid.m, rc |-> 0, buf |-> mid.buf]
<1>1. Len(d.chains[first].sectors) \in Nat
  BY DEF ChainOf
<1>2. i \in Int /\ i >= 0 /\ i + 1 <= count /\ i + 1 \in 0 .. count
  OBVIOUS
<1>3. k0 + (i + 1) \in 1 .. Len(d.chains[first].sectors)
  BY <1>1, <1>2
<1>4. next \in Nat /\ d.start \in Nat /\ t.sector = next - d.start
  BY <1>3, SecFacts
<1>5. /\ RunFrom(d, first, k0, from, at, i + 1) /\ mid.rc = 0 /\ DOMAIN mid.buf = 1 .. count
      /\ mid.m.lost \/ HaveRead(d, first, k0, mid.buf, at)
  BY DEF MidState
<1> HIDE DEF from, at
<1>6. /\ at \in 0 .. i /\ from \in Nat \ {0}
      /\ \A j \in at + 1 .. i + 1 : Sec(d, first, k0 + j) = d.start + from + (j - at) - 1
  BY <1>2, <1>5 DEF RunFrom
<1>7. n = (i + 1) - at
  <2>1. i + 1 \in at + 1 .. i + 1
    BY <1>2, <1>6
  <2>2. next = d.start + from + ((i + 1) - at) - 1
    BY <1>6, <2>1
  <2>3. at \in Int /\ from \in Int /\ d.start \in Int /\ next \in Int
    BY <1>4, <1>6
  <2> HIDE DEF next
  <2> QED BY <1>2, <1>4, <2>2, <2>3
<1> HIDE DEF n
<1>8. w = TurnEnd(t, mid, end)
  BY Zenon DEF Collected, n, at, from
<1>9. /\ Kept(mid.m, whole.m) /\ whole.rc = 0 /\ DOMAIN whole.buf = 1 .. count
      /\ whole.m.lost \/ HaveRead(d, first, k0, whole.buf, i + 1)
  BY <1>2, <1>5, <1>7, RunRead
<1> HIDE DEF whole
<1>10. /\ end.rc = 0 /\ DOMAIN end.buf = 1 .. count
       /\ end.m.lost \/ HaveRead(d, first, k0, end.buf, at)
       /\ i + 1 = count => end.m.lost \/ HaveRead(d, first, k0, end.buf, count)
  <2>1. CASE i = count - 1
    <3>1. end = whole /\ i + 1 = count
      BY <1>2, <2>1
    <3>2. HaveRead(d, first, k0, whole.buf, i + 1) => HaveRead(d, first, k0, whole.buf, at)
      BY <1>2, <1>6 DEF HaveRead
    <3> QED BY <1>9, <3>1, <3>2
  <2>2. CASE i # count - 1
    <3>1. end = [m |-> mid.m, rc |-> 0, buf |-> mid.buf] /\ i + 1 # count
      BY <1>2, <2>2
    <3> HIDE DEF end
    <3> QED BY <1>5, <3>1
  <2> QED BY <2>1, <2>2
<1> HIDE DEF end, w
<1>11. LoopFields \subseteq DOMAIN t
  BY DEF LoopGood
<1>12. /\ w.m = end.m /\ w.buf = end.buf /\ w.i = t.i + 1 /\ ~w.err /\ w.eof = t.eof
       /\ w.first = from /\ w.last = t.sector /\ w.at = at
       /\ w.cluster = t.cluster /\ w.sector = t.sector
       /\ w.clusternum = t.clusternum /\ w.numsec = t.numsec
  BY <1>5, <1>8, <1>10, <1>11, TurnEndFacts DEF from, at
<1>13. LoopAt(d, v, first, k0 + (i + 1), w)
  BY <1>12 DEF LoopAt
<1>14. i + 1 # 0
  BY <1>2
<1>15. ~w.eof
  BY <1>12, Zenon
<1>16. /\ w.i = i + 1 /\ DOMAIN w.buf = 1 .. count
       /\ RunFrom(d, first, k0, w.first, w.at, i + 1) /\ w.last = w.sector
  BY <1>5, <1>10, <1>12
<1>17. w.m.lost \/ HaveRead(d, first, k0, w.buf, w.at)
  BY <1>10, <1>12
<1>18. i + 1 = count => w.m.lost \/ HaveRead(d, first, k0, w.buf, count)
  BY <1>10, <1>12
<1> QED BY <1>12, <1>13, <1>14, <1>15, <1>16, <1>17, <1>18 DEF RunState, w

(* One turn, unless a sector of the FAT is lost in it.                     *)
LEMMA TurnRight ==
  ASSUME NEW m0, NEW d, NEW v, VolumeFits(d, v), NEW f, f.firstcluster \in Int,
         ChainOf(d, v, f.firstcluster),
         NEW k0 \in Nat, NEW count \in Nat, NEW i \in 0 .. count - 1,
         k0 + count <= Len(d.chains[f.firstcluster].sectors),
         NEW s, LoopGood(m0, s, v), RunState(d, v, f.firstcluster, k0, count, i, s)
  PROVE  LET w == Turn(d, v, f, s, count)
         IN  w.m.fatlost \/ RunState(d, v, f.firstcluster, k0, count, i + 1, w)
<1> DEFINE first == f.firstcluster
           t == Advance(d, v, f, s)
           mid == Flush(d, v, s, t)
           w == Turn(d, v, f, s, count)
<1>1. Len(d.chains[first].sectors) \in Nat
  BY DEF ChainOf
<1>2. i \in Nat /\ k0 + i \in Nat /\ k0 + i < Len(d.chains[first].sectors) /\ (k0 + i) + 1 = k0 + (i + 1)
  BY <1>1
<1>3. LoopAt(d, v, first, k0 + i, s) /\ ~s.err /\ ~s.eof /\ s.i = i
  BY DEF RunState
<1>4. s.sector > -1
  <2>1. CASE k0 + i = 0
    BY <1>3, <2>1 DEF LoopAt, Stands
  <2>2. CASE k0 + i # 0
    <3>1. k0 + i \in 1 .. Len(d.chains[first].sectors)
      BY <1>1, <1>2, <2>2
    <3>2. /\ s.sector = Sec(d, first, k0 + i) - d.start
          /\ Sec(d, first, k0 + i) \in Nat /\ Sec(d, first, k0 + i) > d.start /\ d.start \in Nat
      BY <1>3, <3>1, SecFacts
    <3> QED BY <3>2
  <2> QED BY <2>1, <2>2
<1>5. w = Collected(d, v, t, mid, count)
  <2>1. ~(s.err \/ s.sector <= -1)
    <3>1. ~(s.sector <= -1)
      BY <1>4 DEF LoopGood, LoopTyped
    <3> QED BY <1>3, <3>1, Zenon
  <2> QED BY <2>1, Zenon DEF Turn, Turned
<1> DEFINE k == k0 + i
<1>6. /\ Kept(s.m, t.m) /\ Same(s, t) /\ (t.m.fatlost \/ LoopAt(d, v, first, k + 1, t))
      /\ (t.m.fatlost \/ s.eof \/ ~t.eof)
  <2>1. k \in Nat /\ k < Len(d.chains[f.firstcluster].sectors) /\ LoopAt(d, v, f.firstcluster, k, s)
    BY <1>2, <1>3
  <2> HIDE DEF k
  <2> QED BY <2>1, AdvanceRight
<1>7. LoopGood(m0, t, v)
  BY AdvanceKept DEF VolumeFits
<1> HIDE DEF t
<1>8. CachesOf(m0, mid.m, v) /\ mid.from \in Int
  BY <1>7, FlushKept DEF VolumeFits, LoopGood
<1>9. CASE t.m.fatlost
  <2>1. CachesOf(t.m, t.m, v)
    BY <1>7, KeptAll DEF LoopGood, CachesOf
  <2>2. LoopGood(t.m, t, v) /\ LoopTyped(s)
    BY <1>7, <2>1 DEF LoopGood
  <2>3. CachesOf(t.m, mid.m, v) /\ mid.from \in Int
    BY <2>2, FlushKept DEF VolumeFits
  <2> HIDE DEF mid, w
  <2>4. LoopGood(t.m, w, v)
    BY <1>5, <2>2, <2>3, CollectedKept DEF VolumeFits
  <2>5. w.m.fatlost
    BY <1>9, <2>4 DEF LoopGood, CachesOf, Kept
  <2> QED BY <2>5 DEF w
<1>10. CASE ~t.m.fatlost
  <2>1. LoopAt(d, v, first, k0 + (i + 1), t) /\ ~t.eof /\ t.i = i
    BY <1>2, <1>3, <1>6, <1>10 DEF Same
  <2>2. MidState(d, first, k0, count, i + 1, mid)
    BY <1>6, <1>7, <2>1, FlushRight
  <2> HIDE DEF mid, w
  <2>3. RunState(d, v, first, k0, count, i + 1, w)
    BY <1>5, <1>7, <1>8, <2>1, <2>2, CollectedRight
  <2> QED BY <2>3 DEF w
<1> QED BY <1>9, <1>10

(* A file before its sector k + 1, and what reading count sectors from     *)
(* there comes to.                                                         *)
FileAt(d, v, k, f) ==
  ~f.eof /\ Stands(d, v, f.firstcluster, k, f.lastcluster, f.lastsector, f.clusternum, f.sectornum)

ReadTo(d, v, f, k0, count, r) ==
  /\ r.rc = count /\ FileAt(d, v, k0 + count, r.f) /\ DOMAIN r.buf = 1 .. count
  /\ r.m.lost \/ HaveRead(d, f.firstcluster, k0, r.buf, count)

LEMMA LoopStartGood ==
  ASSUME NEW m0, NEW m, NEW v, NEW f, FileTyped(f), NEW buf, CachesOf(m0, m, v)
  PROVE  LoopGood(m0, LoopStart(m, f, buf), v)
<1> DEFINE start == LoopStart(m, f, buf)
<1>1. start.m = m /\ start.cluster = f.lastcluster /\ start.sector = f.lastsector
  BY DEF LoopStart
<1>2. start.clusternum = f.clusternum /\ start.numsec = f.sectornum /\ start.first = 0 /\ start.i = 0
  BY DEF LoopStart
<1>3. LoopFields \subseteq DOMAIN start
  BY DEF LoopFields, LoopStart
<1> HIDE DEF start
<1> QED BY <1>1, <1>2, <1>3 DEF LoopGood, LoopTyped, FileTyped, start

LEMMA ReadDoneFacts ==
  ASSUME NEW f, FileTyped(f), NEW s, ~s.err, ~s.eof
  PROVE  LET r == ReadDone(f, s)
         IN  /\ r.m = s.m /\ r.buf = s.buf /\ r.rc = s.i /\ ~r.f.eof
             /\ r.f.firstcluster = f.firstcluster /\ r.f.lastcluster = s.cluster
             /\ r.f.lastsector = s.sector /\ r.f.clusternum = s.clusternum
             /\ r.f.sectornum = s.numsec
<1> DEFINE r == ReadDone(f, s)
<1>1. r = [m |-> s.m, buf |-> s.buf, rc |-> s.i,
           f |-> [f EXCEPT !.lastcluster = s.cluster, !.lastsector = s.sector,
                           !.clusternum = s.clusternum, !.sectornum = s.numsec,
                           !.eof = s.eof]]
  BY DEF ReadDone
<1>2. r.m = s.m /\ r.buf = s.buf /\ r.rc = s.i
  BY <1>1
<1>3. r.f = [f EXCEPT !.lastcluster = s.cluster, !.lastsector = s.sector,
                      !.clusternum = s.clusternum, !.sectornum = s.numsec, !.eof = s.eof]
  BY <1>1
<1> HIDE DEF r
<1>4. r.f.firstcluster = f.firstcluster /\ r.f.lastcluster = s.cluster /\ r.f.lastsector = s.sector
  BY <1>3 DEF FileTyped, FileFields
<1>5. r.f.clusternum = s.clusternum /\ r.f.sectornum = s.numsec /\ r.f.eof = s.eof
  BY <1>3 DEF FileTyped, FileFields
<1>6. ~r.f.eof
  BY <1>5, Zenon
<1> QED BY <1>2, <1>4, <1>5, <1>6 DEF r

(* Reading sectors that the file has: those behind its position, unless    *)
(* it is known that some were lost, and the position goes on by as many,   *)
(* unless one of the FAT was lost.                                         *)
LEMMA ReadwriteRight ==
  ASSUME NEW m0, NEW d, NEW v, VolumeFits(d, v), NEW f, FileTyped(f), ChainOf(d, v, f.firstcluster),
         NEW k0 \in Nat, FileAt(d, v, k0, f), NEW count \in Nat,
         k0 + count <= Len(d.chains[f.firstcluster].sectors),
         NEW buf, DOMAIN buf = 1 .. count, NEW m, CachesOf(m0, m, v)
  PROVE  LET r == fat_readwrite(d, m, v, f, count, buf)
         IN  r.m.fatlost \/ ReadTo(d, v, f, k0, count, r)
<1> DEFINE first == f.firstcluster
           r == fat_readwrite(d, m, v, f, count, buf)
<1>1. PICK loop : IsLoop(loop, d, m, v, f, count, buf)
                  /\ r = IF f.eof THEN [m |-> m, f |-> f, rc |-> 0, buf |-> buf]
                         ELSE ReadDone(f, loop[count])
  BY ReadwriteLoop
<1> DEFINE s == loop[count]
           start == LoopStart(m, f, buf)
           Fine(n) == LoopGood(m0, loop[n], v)
                      /\ (loop[n].m.fatlost \/ RunState(d, v, first, k0, count, n, loop[n]))
           Good == {n \in Nat : n <= count => Fine(n)}
<1> HIDE DEF r
<1>2. ~f.eof
  BY DEF FileAt
<1>3. r = ReadDone(f, s)
  BY <1>1, <1>2
<1>4. Fine(0)
  <2>1. start.first = 0 /\ start.last = 0 /\ start.at = 0 /\ start.i = 0 /\ start.err = FALSE
    BY DEF LoopStart
  <2>2. start.eof = f.eof /\ start.buf = buf
    BY DEF LoopStart
  <2>3. /\ start.cluster = f.lastcluster /\ start.sector = f.lastsector
        /\ start.clusternum = f.clusternum /\ start.numsec = f.sectornum
    BY DEF LoopStart
  <2>4. LoopGood(m0, start, v)
    BY LoopStartGood
  <2> HIDE DEF start
  <2>5. LoopAt(d, v, first, k0 + 0, start)
    BY <2>3 DEF LoopAt, FileAt
  <2>6. \A n : HaveRead(d, first, k0, buf, 0)
    BY DEF HaveRead
  <2>7. ~start.err /\ ~start.eof
    BY <1>2, <2>1, <2>2, Zenon
  <2>8. RunState(d, v, first, k0, count, 0, start)
    BY <2>1, <2>2, <2>5, <2>6, <2>7 DEF RunState
  <2>9. loop[0] = start
    BY <1>1 DEF IsLoop, start
  <2> QED BY <2>4, <2>8, <2>9
<1>5. ASSUME NEW n \in Nat, n \in Good PROVE n + 1 \in Good
  <2>1. SUFFICES ASSUME n + 1 <= count PROVE Fine(n + 1)
    OBVIOUS
  <2>2. Fine(n) /\ n \in 0 .. count - 1
    BY <1>5, <2>1
  <2>3. loop[n + 1] = Turn(d, v, f, loop[n], count)
    BY <1>1, <2>2 DEF IsLoop
  <2> DEFINE x == loop[n]
             y == loop[n + 1]
  <2>4. LoopGood(m0, x, v) /\ (x.m.fatlost \/ RunState(d, v, first, k0, count, n, x)) /\ y = Turn(d, v, f, x, count)
    BY <2>2, <2>3
  <2> HIDE DEF x, y
  <2>5. VolumeTyped(v) /\ FatTyped(d) /\ f.firstcluster \in Int
    BY DEF VolumeFits, FileTyped
  <2>6. LoopGood(m0, y, v)
    BY <2>4, <2>5, TurnKept
  <2>7. CASE x.m.fatlost
    <3>1. LoopGood(x.m, x, v)
      BY <2>4, KeptAll DEF LoopGood, CachesOf
    <3>2. LoopGood(x.m, y, v)
      BY <2>4, <2>5, <3>1, TurnKept
    <3>3. y.m.fatlost
      BY <2>7, <3>2 DEF LoopGood, CachesOf, Kept
    <3> QED BY <2>6, <3>3 DEF y
  <2>8. CASE ~x.m.fatlost
    <3>1. RunState(d, v, f.firstcluster, k0, count, n, x)
      BY <2>4, <2>8
    <3>2. y.m.fatlost \/ RunState(d, v, f.firstcluster, k0, count, n + 1, y)
      BY <2>2, <2>4, <2>5, <3>1, TurnRight
    <3> QED BY <2>6, <3>2 DEF y
  <2> QED BY <2>7, <2>8
<1>6. \A n \in Nat : n \in Good
  <2>1. 0 \in Good
    BY <1>4
  <2> HIDE DEF Good
  <2> QED BY <1>5, <2>1, Counting
<1>7. s.m.fatlost \/ RunState(d, v, first, k0, count, count, s)
  BY <1>6
<1> HIDE DEF s
<1>8. ASSUME RunState(d, v, first, k0, count, count, s) PROVE ReadTo(d, v, f, k0, count, r)
  <2>1. /\ s.i = count /\ ~s.err /\ ~s.eof /\ LoopAt(d, v, first, k0 + count, s)
        /\ DOMAIN s.buf = 1 .. count
        /\ s.m.lost \/ HaveRead(d, first, k0, s.buf, count)
    BY <1>8 DEF RunState
  <2>2. /\ r.m = s.m /\ r.buf = s.buf /\ r.rc = s.i /\ ~r.f.eof
        /\ r.f.firstcluster = f.firstcluster /\ r.f.lastcluster = s.cluster
        /\ r.f.lastsector = s.sector /\ r.f.clusternum = s.clusternum
        /\ r.f.sectornum = s.numsec
    BY <1>3, <2>1, ReadDoneFacts
  <2>3. FileAt(d, v, k0 + count, r.f)
    BY <2>1, <2>2 DEF FileAt, LoopAt
  <2> QED BY <2>1, <2>2, <2>3 DEF ReadTo
<1>9. r.m = s.m
  BY <1>3 DEF ReadDone
<1> QED BY <1>7, <1>8, <1>9 DEF r

(* Following a chain in fat_seek, and what it comes to.                    *)
IsWalk(walk, d, m, v, from) ==
  /\ walk[0] = [m |-> m, next |-> from.cluster, short |-> FALSE]
  /\ \A i \in 0 .. from.steps - 1 : walk[i + 1] = FollowChain(d, v, walk[i])

LEMMA SeekWalk ==
  ASSUME NEW d, NEW m, NEW v, NEW f, f.firstcluster \in Nat, NEW want \in Nat \ {0},
         SeekFrom(f, (want - 1) \div v.secperclus).steps \in Nat
  PROVE  LET from == SeekFrom(f, (want - 1) \div v.secperclus)
         IN  \E walk : /\ IsWalk(walk, d, m, v, from)
                       /\ fat_seek(d, m, v, f, want) =
                            Sought(v, [f EXCEPT !.eof = FALSE], want, walk[from.steps])
<1> DEFINE w == want + (IF f.firstcluster < 0 THEN v.rootdiroffset ELSE 0)
           from == SeekFrom(f, (w - 1) \div v.secperclus)
           start == [m |-> m, next |-> from.cluster, short |-> FALSE]
           Step(g, i) == IF i = 0 THEN start ELSE FollowChain(d, v, g[i - 1])
           walk[i \in 0 .. from.steps] ==
             IF i = 0 THEN start ELSE FollowChain(d, v, walk[i - 1])
           Built == {k \in Nat : \E g : g = [i \in 0 .. k |-> Step(g, i)]}
           r == fat_seek(d, m, v, f, want)
           f0 == [f EXCEPT !.eof = FALSE]
<1>0. w = want /\ w # 0
  OBVIOUS
<1>1. r = IF w = 0
          THEN [m |-> m, rc |-> 0,
                f |-> [f0 EXCEPT !.lastcluster = f.firstcluster, !.lastsector = 0,
                                 !.clusternum = 0, !.sectornum = 0]]
          ELSE Sought(v, f0, w, walk[from.steps])
  BY Zenon DEF fat_seek
<1> HIDE DEF start, r, f0, w
<1>a. from = SeekFrom(f, (want - 1) \div v.secperclus)
  BY <1>0
<1> HIDE DEF from
<1>2. 0 \in Built
  <2> DEFINE g == [i \in 0 .. 0 |-> start]
  <2>1. g = [i \in 0 .. 0 |-> Step(g, i)]
    OBVIOUS
  <2> QED BY <2>1
<1>3. ASSUME NEW k \in Nat, k \in Built
      PROVE  k + 1 \in Built
  <2>1. PICK g : g = [i \in 0 .. k |-> Step(g, i)]
    BY <1>3
  <2> DEFINE h == [i \in 0 .. k + 1 |-> IF i = k + 1 THEN FollowChain(d, v, g[k]) ELSE g[i]]
  <2>2. ASSUME NEW i \in 0 .. k + 1
        PROVE  h[i] = Step(h, i)
    <3>1. CASE i = k + 1
      BY <3>1
    <3>2. CASE i # k + 1
      BY <2>1, <3>2
    <3> QED BY <3>1, <3>2
  <2>3. h = [i \in 0 .. k + 1 |-> Step(h, i)]
    BY <2>2
  <2>4. \E x : x = [i \in 0 .. k + 1 |-> Step(x, i)]
    <3> HIDE DEF h
    <3> QED BY <2>3
  <2> QED BY <2>4
<1>4. \A k \in Nat : k \in Built
  <2> HIDE DEF Built
  <2> QED BY <1>2, <1>3, Counting
<1>5. from.steps \in Nat
  BY <1>a
<1>6. walk = [i \in 0 .. from.steps |-> Step(walk, i)]
  <2>1. \E g : g = [i \in 0 .. from.steps |-> Step(g, i)]
    BY <1>4, <1>5
  <2> QED BY <2>1
<1> HIDE DEF walk
<1>7. walk[0] = start /\ \A i \in 0 .. from.steps - 1 : walk[i + 1] = FollowChain(d, v, walk[i])
  BY <1>5, <1>6
<1>8. IsWalk(walk, d, m, v, from)
  BY <1>7 DEF IsWalk, start
<1>9. r = Sought(v, f0, want, walk[from.steps])
  BY <1>0, <1>1
<1> DEFINE from1 == SeekFrom(f, (want - 1) \div v.secperclus)
<1>10. from1 = from
  BY <1>a
<1> HIDE DEF from1
<1>11. IsWalk(walk, d, m, v, from1) /\ r = Sought(v, f0, want, walk[from1.steps])
  BY <1>8, <1>9, <1>10
<1> HIDE DEF walk
<1> QED BY <1>11 DEF r, from1, f0

-----------------------------------------------------------------------------
(* fat_seek: along a chain to a sector of it.                              *)

(* One cluster further along a chain, and all the way.                     *)
WalkAt(m0, d, v, first, n, s) ==
  /\ WalkGood(m0, s, v)
  /\ s.m.fatlost \/ (s.next = d.chains[first].clusters[n + 1] /\ ~s.short)

LEMMA FollowRight ==
  ASSUME NEW m0, NEW d, NEW v, VolumeFits(d, v), NEW first, ChainOf(d, v, first),
         NEW n \in Nat, n + 1 < Len(d.chains[first].clusters),
         NEW s, WalkAt(m0, d, v, first, n, s)
  PROVE  WalkAt(m0, d, v, first, n + 1, FollowChain(d, v, s))
<1> DEFINE ch == d.chains[first].clusters
           g == get_next_cluster(d, s.m, v, s.next)
           w == FollowChain(d, v, s)
<1>1. WalkGood(m0, s, v) /\ VolumeTyped(v) /\ FatTyped(d) /\ v.startsector \in Nat /\ v.rsvd \in Nat
  BY DEF VolumeFits, WalkAt
<1>2. WalkGood(m0, w, v)
  BY <1>1, FollowKept
<1>3. CASE s.m.fatlost
  <2>1. WalkGood(s.m, s, v)
    BY <1>1, KeptAll DEF WalkGood, CachesOf
  <2>2. WalkGood(s.m, w, v)
    BY <1>1, <2>1, FollowKept
  <2> HIDE DEF w
  <2>3. w.m.fatlost
    BY <1>3, <2>2 DEF WalkGood, CachesOf, Kept
  <2> QED BY <1>2, <2>3 DEF WalkAt, w
<1>4. CASE ~s.m.fatlost
  <2>1. s.next = ch[n + 1] /\ ~s.short
    BY <1>4 DEF WalkAt
  <2>2. /\ IF ch[n + 1] < 0 THEN v.is_fat16 ELSE ch[n + 1] \in DOMAIN d.fat
        /\ Linked(d, ch[n + 1]) = ch[n + 2] /\ ch[n + 1] \in Int /\ ch[n + 2] # 0
    <3>1. ch \in Seq(Int) /\ ChainFits(d, v, first, ch, d.chains[first].sectors)
      BY DEF ChainOf
    <3> HIDE DEF ch
    <3>2. n + 1 \in 1 .. Len(ch) /\ n + 2 \in 1 .. Len(ch) /\ n + 1 < Len(ch) /\ (n + 1) + 1 = n + 2
      BY <3>1 DEF ch
    <3> DEFINE A == n + 1
               B == n + 2
    <3>3. A \in 1 .. Len(ch) /\ B \in 1 .. Len(ch) /\ A < Len(ch) /\ A + 1 = B
      BY <3>2
    <3> HIDE DEF A, B
    <3>4. /\ IF ch[A] < 0 THEN v.is_fat16 ELSE ch[A] \in DOMAIN d.fat \ {0, 1}
          /\ Linked(d, ch[A]) = ch[B]
      BY <3>1, <3>3 DEF ChainFits
    <3>5. IF ch[B] < 0 THEN v.is_fat16 ELSE ch[B] \in DOMAIN d.fat \ {0, 1}
      BY <3>1, <3>3 DEF ChainFits
    <3>6. ch[A] \in Int /\ ch[B] \in Int
      BY <3>1, <3>3
    <3>7. ch[B] # 0
      BY <3>5, <3>6
    <3>8. IF ch[A] < 0 THEN v.is_fat16 ELSE ch[A] \in DOMAIN d.fat
      BY <3>4
    <3> QED BY <3>4, <3>6, <3>7, <3>8 DEF A, B
  <2> HIDE DEF ch
  <2>3. CachesOf(m0, s.m, v)
    BY <1>1 DEF WalkGood
  <2>4. g.m.fatlost \/ g.next = ch[n + 2]
    <3> DEFINE c == s.next
    <3>1. c \in Int /\ (IF c < 0 THEN v.is_fat16 ELSE c \in DOMAIN d.fat) /\ Linked(d, c) = ch[n + 2]
      BY <2>1, <2>2
    <3> HIDE DEF c, g
    <3>2. LET q == get_next_cluster(d, s.m, v, c)
          IN  Kept(s.m, q.m) /\ (q.m.fatlost \/ q.next = Linked(d, c))
      BY <1>1, <2>3, <3>1, NextRight
    <3> QED BY <3>1, <3>2 DEF g, c
  <2>5. w = [m |-> g.m, next |-> g.next, short |-> g.next = 0]
    BY <2>1 DEF FollowChain
  <2> HIDE DEF g, w
  <2>6. w.m = g.m /\ w.next = g.next /\ (w.short <=> g.next = 0)
    <3>1. PICK b : w = [m |-> g.m, next |-> g.next, short |-> b] /\ (b <=> g.next = 0)
      BY <2>5, Zenon
    <3>2. w.m = g.m /\ w.next = g.next /\ w.short = b
      BY <3>1
    <3> QED BY <3>1, <3>2, Zenon
  <2>7. (n + 1) + 1 = n + 2
    OBVIOUS
  <2> QED BY <1>2, <2>2, <2>4, <2>6, <2>7 DEF WalkAt, w, ch
<1> QED BY <1>3, <1>4

(* Going to a sector of a file comes to it, from wherever the file was,    *)
(* unless a sector of the FAT is lost.                                     *)
LEMMA SeekRight ==
  ASSUME NEW m0, NEW d, NEW v, VolumeFits(d, v), NEW f, FileTyped(f), f.firstcluster \in Nat,
         ChainOf(d, v, f.firstcluster),
         NEW k0 \in 0 .. Len(d.chains[f.firstcluster].sectors), FileAt(d, v, k0, f),
         NEW k \in 1 .. Len(d.chains[f.firstcluster].sectors),
         NEW m, CachesOf(m0, m, v)
  PROVE  LET r == fat_seek(d, m, v, f, k)
         IN  r.m.fatlost \/ (r.rc = 0 /\ FileAt(d, v, k, r.f))
<1> DEFINE first == f.firstcluster
           ch == d.chains[first].clusters
           se == d.chains[first].sectors
           b == v.secperclus
           want == k - 1
           n == want \div b
           in == want % b
           from == SeekFrom(f, (k - 1) \div v.secperclus)
           f0 == [f EXCEPT !.eof = FALSE]
           r == fat_seek(d, m, v, f, k)
<1>1. b \in Nat \ {0} /\ d.start \in Nat /\ Skipped(v, first) = 0
  BY DEF VolumeFits, VolumeTyped, Skipped
<1>a. Len(se) \in Nat /\ Len(ch) \in Nat /\ ch[1] = first
  <2>1. ch \in Seq(Int) /\ se \in Seq(Nat) /\ ChainFits(d, v, first, ch, se)
    BY DEF ChainOf
  <2> HIDE DEF ch, se, first
  <2> QED BY <2>1 DEF ChainFits
<1>2. SectorIn(d, v, first, k)
  BY SectorFacts
<1>b. k - 1 + Skipped(v, first) = want
  BY <1>1, <1>a
<1>3. /\ want \in Nat /\ n \in 0 .. Len(ch) - 1 /\ in \in 0 .. b - 1
      /\ ch[n + 1] \in Int /\ ch[n + 1] <= v.dataclusters + 1
      /\ se[k] = Begins(d, v, ch[n + 1]) + in
  BY <1>2, <1>b DEF SectorIn
<1>4. \E base \in 0 .. n : from.cluster = ch[base + 1] /\ from.steps = n - base
  <2> DEFINE cn == f.clusternum
  <2>1. CASE cn # 0 /\ n >= cn
    <3>1. k0 # 0
      BY <2>1 DEF FileAt, Stands
    <3>2. k0 - 1 + Skipped(v, first) = k0 - 1
      BY <1>1, <1>a
    <3>3. cn = (k0 - 1) \div b /\ f.lastcluster = ch[cn + 1]
      BY <3>1, <3>2 DEF FileAt, Stands
    <3>4. k0 - 1 \in Nat
      BY <1>a, <3>1
    <3>5. cn \in Nat
      <4> DEFINE z == k0 - 1
      <4>1. z \in Nat /\ cn = z \div b
        BY <3>3, <3>4
      <4> HIDE DEF z, b, cn
      <4> QED BY <1>1, <4>1, Division
    <3>6. from.cluster = f.lastcluster /\ from.steps = n - cn
      BY <2>1 DEF SeekFrom
    <3>7. cn \in 0 .. n
      BY <1>3, <2>1, <3>5
    <3> QED BY <3>3, <3>6, <3>7
  <2>2. CASE ~(cn # 0 /\ n >= cn)
    <3>1. from.cluster = f.firstcluster /\ from.steps = n
      BY <2>2 DEF SeekFrom
    <3>2. from.cluster = ch[0 + 1] /\ from.steps = n - 0 /\ 0 \in 0 .. n
      BY <1>3, <1>a, <3>1
    <3> QED BY <3>2
  <2> QED BY <2>1, <2>2
<1>5. PICK base \in 0 .. n : from.cluster = ch[base + 1] /\ from.steps = n - base
  BY <1>4
<1>6. from.steps \in Nat
  BY <1>3, <1>5
<1>7. \E walk : IsWalk(walk, d, m, v, from) /\ r = Sought(v, f0, k, walk[from.steps])
  <2>1. k \in Nat \ {0}
    BY <1>a
  <2> QED BY <1>6, <2>1, SeekWalk
<1> HIDE DEF from, r, f0
<1>8. PICK walk : IsWalk(walk, d, m, v, from) /\ r = Sought(v, f0, k, walk[from.steps])
  BY <1>7
<1> DEFINE s == walk[from.steps]
           Fine(i) == WalkAt(m0, d, v, first, base + i, walk[i])
           Good == {i \in Nat : i <= from.steps => Fine(i)}
<1>9. Fine(0)
  <2> DEFINE start == [m |-> m, next |-> from.cluster, short |-> FALSE]
  <2>1. start.m = m /\ start.next = ch[base + 1] /\ ~start.short
    BY <1>5
  <2>2. walk[0] = start
    BY <1>8 DEF IsWalk
  <2> HIDE DEF start
  <2>3. ch[base + 1] \in Int
    <3>1. ch \in Seq(Int) /\ base + 1 \in 1 .. Len(ch)
      BY <1>3, <1>5, <1>a DEF ChainOf
    <3> QED BY <3>1
  <2>4. base + 0 = base
    BY <1>3
  <2> QED BY <2>1, <2>2, <2>3, <2>4 DEF WalkAt, WalkGood
<1>10. ASSUME NEW i \in Nat, i \in Good PROVE i + 1 \in Good
  <2>1. SUFFICES ASSUME i + 1 <= from.steps PROVE Fine(i + 1)
    OBVIOUS
  <2>2. Fine(i) /\ i \in 0 .. from.steps - 1
    BY <1>6, <1>10, <2>1
  <2>3. walk[i + 1] = FollowChain(d, v, walk[i])
    BY <1>8, <2>2 DEF IsWalk
  <2> DEFINE x == walk[i]
             y == walk[i + 1]
             at == base + i
  <2>4. at \in Nat /\ at + 1 < Len(ch) /\ base + (i + 1) = at + 1
    <3> DEFINE L == Len(ch)
               steps == from.steps
    <3>1. L \in Nat /\ n \in 0 .. L - 1 /\ base \in 0 .. n /\ steps = n - base /\ i + 1 <= steps
      BY <1>3, <1>5, <1>a, <2>1
    <3> HIDE DEF L, steps, n
    <3>2. base \in Int /\ n \in Int
      BY <3>1
    <3> QED BY <3>1, <3>2 DEF L
  <2>5. WalkAt(m0, d, v, first, at, x) /\ y = FollowChain(d, v, x)
    BY <2>2, <2>3
  <2> HIDE DEF x, y, at
  <2>6. WalkAt(m0, d, v, first, at + 1, y)
    BY <2>4, <2>5, FollowRight
  <2> QED BY <2>4, <2>6 DEF y
<1>11. \A i \in Nat : i \in Good
  <2>1. 0 \in Good
    BY <1>9
  <2> HIDE DEF Good
  <2> QED BY <1>10, <2>1, Counting
<1>12. Fine(from.steps)
  BY <1>6, <1>11
<1>13. base + from.steps = n
  BY <1>3, <1>5
<1>14. WalkAt(m0, d, v, first, n, s)
  BY <1>12, <1>13
<1> HIDE DEF s
<1>15. r.m = s.m
  BY <1>8 DEF Sought, s
<1>16. ASSUME s.next = ch[n + 1], ~s.short PROVE r.rc = 0 /\ FileAt(d, v, k, r.f)
  <2> DEFINE c == s.next
             last == cluster2sec(v, c) + in
  <2>1. r = [m |-> s.m, rc |-> 0,
             f |-> [f0 EXCEPT !.lastcluster = c, !.clusternum = n,
                              !.lastsector = last, !.sectornum = in + 1]]
    BY <1>8, <1>16 DEF Sought, s
  <2>2. r.rc = 0 /\ r.f = [f0 EXCEPT !.lastcluster = c, !.clusternum = n,
                                     !.lastsector = last, !.sectornum = in + 1]
    BY <2>1
  <2>3. last = se[k] - d.start
    <3> DEFINE B == Begins(d, v, c)
    <3>1. cluster2sec(v, c) = B - d.start
      BY <1>3, <1>16, ClusterBegins
    <3>2. se[k] = B + in /\ B \in Int
      <4>1. se[k] = B + in
        BY <1>3, <1>16
      <4>2. B \in Int
        <5> DEFINE x == (IF c < 0 THEN c ELSE c - 2) * v.secperclus
        <5>1. v.secperclus \in Int /\ v.firstdatasector \in Int /\ c \in Int
          BY <1>3, <1>16 DEF VolumeFits, VolumeTyped
        <5>2. x \in Int
          BY <5>1
        <5>3. B = d.start + v.firstdatasector + x
          BY DEF Begins
        <5> HIDE DEF x
        <5> QED BY <1>1, <5>1, <5>2, <5>3
      <4> QED BY <4>1, <4>2
    <3> HIDE DEF B
    <3> QED BY <1>1, <1>3, <3>1, <3>2
  <2> HIDE DEF last, c, n, in
  <2>4. FileFields \subseteq DOMAIN f0 /\ f0.firstcluster = first /\ f0.eof = FALSE
    BY DEF f0, FileTyped, FileFields
  <2>5. r.f.firstcluster = first /\ r.f.lastcluster = c /\ r.f.clusternum = n
    BY <2>2, <2>4 DEF FileFields
  <2>6. r.f.lastsector = last /\ r.f.sectornum = in + 1 /\ r.f.eof = f0.eof
    BY <2>2, <2>4 DEF FileFields
  <2>7. ~r.f.eof
    BY <2>4, <2>6, Zenon
  <2>8. k # 0
    BY <1>a
  <2>9. Stands(d, v, first, k, c, last, n, in + 1)
    BY <1>b, <1>16, <2>3, <2>8 DEF Stands, n, in, c
  <2> QED BY <2>2, <2>5, <2>6, <2>7, <2>9 DEF FileAt
<1> QED BY <1>14, <1>15, <1>16 DEF WalkAt, r

LEMMA SeekFirst ==
  ASSUME NEW d, NEW v, NEW f, FileTyped(f), f.firstcluster \in Nat, NEW m
  PROVE  LET r == fat_seek(d, m, v, f, 0)
         IN  r.m = m /\ r.rc = 0 /\ FileAt(d, v, 0, r.f)
<1> DEFINE r == fat_seek(d, m, v, f, 0)
           f0 == [f EXCEPT !.eof = FALSE]
<1>1. 0 + (IF f.firstcluster < 0 THEN v.rootdiroffset ELSE 0) = 0
  OBVIOUS
<1>2. r = [m |-> m, rc |-> 0,
           f |-> [f0 EXCEPT !.lastcluster = f.firstcluster, !.lastsector = 0,
                            !.clusternum = 0, !.sectornum = 0]]
  BY <1>1, Zenon DEF fat_seek
<1> HIDE DEF r, f0
<1>3. r.m = m /\ r.rc = 0 /\ r.f = [f0 EXCEPT !.lastcluster = f.firstcluster, !.lastsector = 0,
                                              !.clusternum = 0, !.sectornum = 0]
  BY <1>2
<1>4. FileFields \subseteq DOMAIN f0 /\ f0.firstcluster = f.firstcluster /\ f0.eof = FALSE
  BY DEF f0, FileTyped, FileFields
<1>5. r.f.firstcluster = f.firstcluster /\ r.f.lastcluster = f.firstcluster /\ r.f.lastsector = 0
  BY <1>3, <1>4 DEF FileFields
<1>6. r.f.clusternum = 0 /\ r.f.sectornum = 0 /\ r.f.eof = FALSE
  BY <1>3, <1>4 DEF FileFields
<1> QED BY <1>3, <1>5, <1>6 DEF FileAt, Stands, r

-----------------------------------------------------------------------------
(* Mounting: which volume is taken, and whether one is.                    *)

(* What a volume was taken for, after those at S were tried.               *)
Unset(d) == ~Volume(d).is_fat16 /\ d.start + d.boot[d.start].fsinfo \in d.unset

OneVolume(d) == \A s \in DOMAIN d.boot : CanMount(d, s) => s = d.start

Tried(d, S, t) ==
  /\ t.v.mounted => t.v = Volume(d) /\ CanMount(d, d.start)
  /\ t.rc = 0 => t.v.mounted /\ d.start \in S
  /\ t.rc # 0 => ~t.v.mounted /\ ~t.exit
  /\ t.rc = 0 /\ ~t.m.lost => (t.exit <=> Unset(d))
  /\ ~t.m.lost /\ d.start \in S /\ CanMount(d, d.start) => t.rc = 0

LEMMA BootedRight ==
  ASSUME NEW m0, NEW d, BootTyped(d), OneVolume(d), NEW v, ~v.mounted, NEW startsector \in Int,
         NEW r, CachesOf(m0, r.m, v), FatEmpty(r.m.fat), r.rc = 0 \/ r.m.lost,
         r.rc = 0 => r.buf[1] = startsector
  PROVE  LET t == Booted(d, v, startsector, r)
         IN  Tried(d, {startsector}, t) /\ Kept(r.m, t.m)
<1> DEFINE b == Boot(d, r.buf[1])
           w == Bpb(b, startsector)
           x == Taken(b, startsector)
           t == Booted(d, v, startsector, r)
<1>1. \A u : CachesOf(r.m, r.m, u)
  <2>1. \A u : CachesOf(m0, r.m, u)
    BY EmptyFits
  <2> QED BY <2>1, KeptAll DEF CachesOf
<1>2. CASE r.rc # 0
  <2>1. t = [m |-> r.m, v |-> v, rc |-> -1, exit |-> FALSE]
    BY <1>2, Zenon DEF Booted
  <2>2. t.m = r.m /\ t.v = v /\ t.rc = -1 /\ t.exit = FALSE
    BY <2>1
  <2> HIDE DEF t
  <2>3. r.m.lost /\ t.rc # 0
    BY <1>2, <2>2
  <2> QED BY <2>2, <2>3, KeptAll DEF Tried, t
<1>3. CASE r.rc = 0 /\ (b.secperclus = 0 \/ ~b.sane)
  <2>1. t = [m |-> r.m, v |-> NotMounted, rc |-> -2, exit |-> FALSE]
    BY <1>3, Zenon DEF Booted
  <2>2. t.m = r.m /\ t.v = NotMounted /\ t.rc = -2 /\ t.exit = FALSE
    BY <2>1
  <2>3. NotMounted.mounted = FALSE
    BY DEF NotMounted
  <2>4. ~CanMount(d, startsector)
    BY <1>3, Zenon DEF CanMount, Boot
  <2> HIDE DEF t
  <2>5. t.rc # 0 /\ ~t.v.mounted
    BY <2>2, <2>3
  <2> QED BY <2>2, <2>4, <2>5, KeptAll DEF Tried, t
<1>4. CASE r.rc = 0 /\ ~(b.secperclus = 0 \/ ~b.sane)
  <2>1. BootSector(b) /\ b.secperclus # 0 /\ b.fsinfo \in Nat
    BY <1>4 DEF Boot, BootTyped, BootSector
  <2>2. VolumeTyped(w) /\ w.mounted = FALSE
    <3> HIDE DEF b
    <3> QED BY <2>1, BpbTyped
  <2>3. b = d.boot[startsector] /\ startsector \in DOMAIN d.boot /\ b.sane
    <3>1. b = Boot(d, startsector)
      BY <1>4
    <3> HIDE DEF b
    <3>2. startsector \in DOMAIN d.boot
      <4>1. [secperclus |-> 0].secperclus = 0
        OBVIOUS
      <4> QED BY <1>4, <3>1, <4>1, Zenon DEF Boot
    <3> QED BY <1>4, <3>1, <3>2, Zenon DEF Boot
  <2>4. CanMount(d, startsector) <=> w.dataclusters >= Fat16Least
    <3>1. CanMount(d, startsector) <=> Bpb(d.boot[startsector], startsector).dataclusters >= Fat16Least
      BY <1>4, <2>3, Zenon DEF CanMount
    <3> QED BY <2>3, <3>1, Zenon
  <2> HIDE DEF b
  <2>5. CASE w.dataclusters < Fat16Least
    <3>1. t = [m |-> r.m, v |-> w, rc |-> -2, exit |-> FALSE]
      BY <1>4, <2>5, Zenon DEF Booted, b
    <3>a. ~(w.dataclusters >= Fat16Least)
      BY <2>2, <2>5, Sizes DEF VolumeTyped
    <3> HIDE DEF w
    <3>2. t.m = r.m /\ t.v = w /\ t.rc = -2 /\ t.exit = FALSE
      BY <3>1
    <3> HIDE DEF t
    <3>3. t.rc # 0 /\ ~t.v.mounted /\ ~CanMount(d, startsector)
      BY <2>2, <2>4, <3>2, <3>a
    <3> QED BY <3>2, <3>3, KeptAll DEF Tried, t
  <2>6. ASSUME ~(w.dataclusters < Fat16Least)
        PROVE  CanMount(d, startsector) /\ startsector = d.start /\ x = Volume(d) /\ x.mounted = TRUE
               /\ x.is_fat16 = w.is_fat16
    <3>a. w.dataclusters >= Fat16Least
      BY <2>2, <2>6, Sizes DEF VolumeTyped
    <3> HIDE DEF w
    <3>1. CanMount(d, startsector)
      BY <2>4, <3>a
    <3>2. startsector = d.start
      BY <2>3, <3>1 DEF OneVolume
    <3>3. x = Volume(d)
      BY <2>3, <3>2, Zenon DEF Taken, Volume
    <3>4. x = [w EXCEPT !.mounted = TRUE]
      BY Zenon DEF Taken, w
    <3>5. "mounted" \in DOMAIN w /\ "is_fat16" \in DOMAIN w
      BY DEF w, Bpb
    <3> HIDE DEF x
    <3>6. x.mounted = TRUE /\ x.is_fat16 = w.is_fat16
      BY <3>4, <3>5
    <3> QED BY <3>1, <3>2, <3>3, <3>6
  <2>7. CASE ~(w.dataclusters < Fat16Least) /\ w.is_fat16
    <3>1. t = [m |-> fat_recalc_free(d, r.m, w), v |-> x, rc |-> 0, exit |-> FALSE]
      BY <1>4, <2>7, Zenon DEF Booted, Taken, b
    <3>2. x.mounted /\ CanMount(d, d.start) /\ startsector = d.start /\ x = Volume(d) /\ ~Unset(d)
      BY <2>6, <2>7, Zenon DEF Unset
    <3> HIDE DEF w, x, t
    <3>3. t.m = fat_recalc_free(d, r.m, w) /\ t.v = x /\ t.rc = 0 /\ t.exit = FALSE
      BY <3>1
    <3>4. CachesOf(r.m, t.m, w)
      BY <1>1, <2>2, <3>3, RecalcKept
    <3> QED BY <3>2, <3>3, <3>4, Zenon DEF Tried, CachesOf, t
  <2>8. CASE ~(w.dataclusters < Fat16Least) /\ ~w.is_fat16
    <3> DEFINE at == startsector + b.fsinfo
               info == storage_read_sectors(d, r.m, at, 1, r.buf)
               unset == info.buf[1] \in d.unset
               m == IF unset THEN fat_recalc_free(d, info.m, w) ELSE info.m
    <3>1. t = Counted(d, w, info)
      BY <1>4, <2>8, Zenon DEF Booted, b
    <3>2. t = [m |-> m, v |-> x, rc |-> 0, exit |-> unset]
      BY <3>1, Zenon DEF Counted, Taken
    <3>3. at \in Int
      BY <2>1
    <3>4. x.mounted /\ CanMount(d, d.start) /\ startsector = d.start /\ x = Volume(d)
          /\ (Unset(d) <=> at \in d.unset)
      <4>1. x.mounted /\ CanMount(d, d.start) /\ startsector = d.start /\ x = Volume(d)
        BY <2>6, <2>8, Zenon
      <4>2. ~Volume(d).is_fat16
        BY <2>6, <2>8, Zenon
      <4>3. d.start + d.boot[d.start].fsinfo = at
        BY <2>3, <4>1, Zenon
      <4> QED BY <4>1, <4>2, <4>3, Zenon DEF Unset
    <3> HIDE DEF at, w, x, t
    <3>5. CachesOf(r.m, info.m, w) /\ (info.m.lost \/ info.buf[1] = at)
      <4>1. CachesOf(r.m, info.m, w)
        BY <1>1, <3>3, ReadKept
      <4>2. info = ReadOne(d, r.m, at, r.buf)
        BY DEF storage_read_sectors
      <4> HIDE DEF info
      <4>3. info.m.lost \/ info.buf[1] = at
        BY <1>1, <3>3, <4>2, ReadOneRight
      <4> QED BY <4>1, <4>3
    <3> HIDE DEF info
    <3>6. CachesOf(r.m, m, w) /\ CachesOf(info.m, m, w)
      <4>1. CachesOf(info.m, info.m, w)
        BY <3>5, KeptAll DEF CachesOf
      <4> QED BY <2>2, <3>5, <4>1, RecalcKept
    <3> HIDE DEF m
    <3>7. t.m = m /\ t.v = x /\ t.rc = 0 /\ (t.exit <=> unset)
      <4>1. t.m = m /\ t.v = x /\ t.rc = 0
        BY <3>2
      <4>2. t.exit <=> unset
        BY <3>2
      <4> QED BY <4>1, <4>2
    <3>8. ~t.m.lost => (t.exit <=> Unset(d))
      <4>1. info.m.lost => t.m.lost
        BY <3>6, <3>7, Zenon DEF CachesOf, Kept
      <4> QED BY <3>4, <3>5, <3>7, <4>1, Zenon
    <3>9. Kept(r.m, t.m)
      BY <3>6, <3>7 DEF CachesOf
    <3>10. Tried(d, {startsector}, t)
      BY <3>4, <3>7, <3>8 DEF Tried
    <3> QED BY <3>9, <3>10 DEF t
  <2> QED BY <2>5, <2>7, <2>8, Zenon
<1> QED BY <1>2, <1>3, <1>4, Zenon

LEMMA FatMountRight ==
  ASSUME NEW m0, NEW d, BootTyped(d), OneVolume(d), NEW v, ~v.mounted,
         NEW startsector \in Int, NEW m, CachesOf(m0, m, v), FatEmpty(m.fat)
  PROVE  LET t == fat_mount(d, m, v, startsector)
         IN  Tried(d, {startsector}, t) /\ Kept(m, t.m)
<1> DEFINE none == <<NoSector>>
           r == storage_read_sectors(d, m, startsector, 1, none)
           t == fat_mount(d, m, v, startsector)
<1>1. t = Booted(d, v, startsector, r)
  BY DEF fat_mount
<1> HIDE DEF none, t
<1>2. CachesOf(m0, r.m, v) /\ FatEmpty(r.m.fat)
  BY ReadKept
<1>3. r = ReadOne(d, m, startsector, none)
  BY DEF storage_read_sectors
<1> HIDE DEF r
<1>4. r.rc = 0 \/ r.m.lost
  BY <1>3, ReadOneKept
<1>5. r.rc = 0 => r.buf[1] = startsector
  BY <1>3, ReadOneKept
<1>6. Kept(m, r.m)
  BY <1>3, ReadOneRight
<1>7. Tried(d, {startsector}, t) /\ Kept(r.m, t.m)
  BY <1>1, <1>2, <1>4, <1>5, BootedRight
<1> QED BY <1>6, <1>7, KeptAll DEF t

(* The volumes are tried one after the other.                              *)
TriedOf(part) == IF part.type = "fat" THEN {part.start} ELSE {}

LEMMA TriedMore ==
  ASSUME NEW m0, NEW d, BootTyped(d), OneVolume(d), NEW S, NEW t, MountGood(m0, t), Tried(d, S, t),
         NEW start \in Int
  PROVE  LET w == IF t.rc = 0 THEN t ELSE fat_mount(d, t.m, t.v, start)
         IN  Tried(d, S \cup {start}, w) /\ Kept(t.m, w.m)
<1>1. CASE t.rc = 0
  BY <1>1, KeptAll DEF Tried
<1>2. CASE t.rc # 0
  <2> DEFINE w == fat_mount(d, t.m, t.v, start)
  <2>1. ~t.v.mounted /\ CachesOf(m0, t.m, t.v) /\ FatEmpty(t.m.fat)
    BY <1>2 DEF Tried, MountGood
  <2>2. Tried(d, {start}, w) /\ Kept(t.m, w.m)
    BY <2>1, FatMountRight
  <2> HIDE DEF w
  <2>3. Tried(d, S \cup {start}, w)
    <3>1. ~w.m.lost => ~t.m.lost
      BY <2>2, Zenon DEF Kept
    <3>2. ~w.m.lost /\ d.start \in S \cup {start} /\ CanMount(d, d.start) => w.rc = 0
      BY <1>2, <2>2, <3>1 DEF Tried
    <3> QED BY <2>2, <3>2 DEF Tried
  <2> QED BY <1>2, <2>2, <2>3 DEF w
<1> QED BY <1>1, <1>2

LEMMA TryRight ==
  ASSUME NEW m0, NEW d, BootTyped(d), OneVolume(d), NEW S, NEW t, MountGood(m0, t), Tried(d, S, t),
         NEW part, part.start \in Nat
  PROVE  LET w == TryMount(d, t, part)
         IN  Tried(d, S \cup TriedOf(part), w) /\ Kept(t.m, w.m)
<1> DEFINE w == TryMount(d, t, part)
<1>1. CASE part.type = "fat"
  <2>1. w = IF t.rc = 0 THEN t ELSE fat_mount(d, t.m, t.v, part.start)
    BY <1>1, Zenon DEF TryMount
  <2>2. TriedOf(part) = {part.start}
    BY <1>1 DEF TriedOf
  <2> DEFINE start == part.start
  <2>3. start \in Int
    OBVIOUS
  <2> HIDE DEF w, start
  <2>4. w = IF t.rc = 0 THEN t ELSE fat_mount(d, t.m, t.v, start)
    BY <2>1 DEF start
  <2>5. Tried(d, S \cup {start}, w) /\ Kept(t.m, w.m)
    BY <2>3, <2>4, TriedMore
  <2> QED BY <2>2, <2>5 DEF w, start
<1>2. CASE part.type # "fat"
  <2>1. w = t
    BY <1>2, Zenon DEF TryMount
  <2>2. TriedOf(part) = {}
    BY <1>2 DEF TriedOf
  <2>3. S \cup {} = S
    OBVIOUS
  <2> HIDE DEF w
  <2> QED BY <2>1, <2>2, <2>3, KeptAll DEF w
<1> QED BY <1>1, <1>2

(* What a mount takes, of a volume that can be mounted; unless a sector    *)
(* was lost, whether it does.                                              *)
LEMMA DiskMountRight ==
  ASSUME NEW m0, NEW d, BootTyped(d), PartsTyped(d), OneVolume(d), NEW m, NEW v, ~v.mounted,
         CachesOf(m0, m, v), FatEmpty(m.fat)
  PROVE  LET t == disk_mount(d, m, v)
         IN  /\ t.v.mounted => t.v = Volume(d) /\ CanMount(d, d.start) /\ d.start \in Starts(d)
             /\ ~t.m.lost => ((t.v.mounted /\ ~t.exit) <=> Mountable(d))
<1> DEFINE none == <<NoSector>>
           mb == [m EXCEPT !.blk.lba = BAD_LBA]
           r == storage_read_sectors(d, mb, 0, 1, none)
           failed == [m |-> r.m, v |-> v, rc |-> -1, exit |-> FALSE]
           most == Len(d.parts)
           t == disk_mount(d, m, v)
           Of(k) == {d.parts[i].start : i \in {j \in 1 .. k : d.parts[j].type = "fat"}}
<1>1. t = Partitions(d, v, r)
  BY Zenon DEF disk_mount
<1>2. most \in Nat /\ \A i \in 1 .. most : d.parts[i].start \in Nat
  BY DEF PartsTyped
<1>3. CachesOf(m0, mb, v) /\ mb.fat = m.fat
  <2>1. /\ CacheFields \subseteq DOMAIN m /\ BlockWhole(m.blk) /\ DOMAIN m.fat = Entries
        /\ ~m.fatlost => SectorsOf(m.fat, v)
        /\ Kept(m0, m)
    BY DEF CachesOf
  <2>2. DOMAIN mb = DOMAIN m /\ mb.fat = m.fat /\ mb.fatlost = m.fatlost /\ mb.lost = m.lost
    BY <2>1 DEF CacheFields
  <2>3. mb.blk = [m.blk EXCEPT !.lba = BAD_LBA]
    BY <2>1 DEF CacheFields
  <2> HIDE DEF mb
  <2>4. BlockWhole(mb.blk)
    BY <2>1, <2>3 DEF BlockWhole, BAD_LBA
  <2>5. Kept(m0, mb)
    BY <2>1, <2>2, Zenon DEF Kept
  <2> QED BY <2>1, <2>2, <2>4, <2>5 DEF CachesOf
<1> HIDE DEF none, mb, t
<1>4. CachesOf(m0, r.m, v) /\ FatEmpty(r.m.fat) /\ (r.m.lost \/ r.buf[1] = 0)
  <2>1. CachesOf(m0, r.m, v) /\ FatEmpty(r.m.fat)
    BY <1>3, ReadKept
  <2>2. r = ReadOne(d, mb, 0, none)
    BY DEF storage_read_sectors
  <2> HIDE DEF r
  <2>3. r.m.lost \/ r.buf[1] = 0
    BY <1>3, <2>2, ReadOneRight
  <2> QED BY <2>1, <2>3
<1> HIDE DEF r
<1>5. MountGood(m0, failed) /\ Tried(d, {}, failed) /\ failed.m = r.m
  <2>1. failed.m = r.m /\ failed.v = v /\ failed.rc = -1 /\ failed.exit = FALSE
    OBVIOUS
  <2> HIDE DEF failed
  <2>2. failed.rc # 0
    BY <2>1
  <2> QED BY <1>4, <2>1, <2>2 DEF MountGood, Tried
<1>6. PICK try : /\ IsTry(try, d, failed)
                 /\ t = IF r.buf[1] # 0 \/ ~d.signature THEN failed ELSE OrWhole(d, try[most])
  BY <1>1, <1>2, TryLoop
<1>a. failed.v = v /\ failed.exit = FALSE
  OBVIOUS
<1> HIDE DEF failed, most
<1> DEFINE Fine(k) == MountGood(m0, try[k]) /\ Tried(d, Of(k), try[k]) /\ Kept(r.m, try[k].m)
           Good == {k \in Nat : k <= most => Fine(k)}
<1>7. Fine(0)
  <2>1. Of(0) = {}
    OBVIOUS
  <2>2. try[0] = failed
    BY <1>6 DEF IsTry
  <2> HIDE DEF Of
  <2> QED BY <1>5, <2>1, <2>2, KeptAll
<1>8. ASSUME NEW k \in Nat, k \in Good PROVE k + 1 \in Good
  <2>1. SUFFICES ASSUME k + 1 <= most PROVE Fine(k + 1)
    OBVIOUS
  <2> DEFINE x == try[k]
             y == try[k + 1]
             part == d.parts[k + 1]
  <2>2. Fine(k) /\ k \in 0 .. most - 1 /\ k + 1 \in 1 .. most
    BY <1>2, <1>8, <2>1
  <2>3. y = TryMount(d, x, part)
    BY <1>6, <2>2 DEF IsTry, most
  <2>4. part.start \in Nat
    BY <1>2, <2>2 DEF most
  <2>5. Of(k + 1) = Of(k) \cup TriedOf(part)
    <3>1. \A j : j \in 1 .. k + 1 <=> j \in 1 .. k \/ j = k + 1
      OBVIOUS
    <3> QED BY <3>1, Zenon DEF TriedOf
  <2> HIDE DEF Of, part
  <2>6. MountGood(m0, x) /\ Tried(d, Of(k), x) /\ Kept(r.m, x.m)
    BY <2>2
  <2> HIDE DEF x, y
  <2>7. MountGood(m0, y)
    BY <2>3, <2>4, <2>6, TryKept
  <2>8. Tried(d, Of(k) \cup TriedOf(part), y) /\ Kept(x.m, y.m)
    <3> DEFINE S == Of(k)
    <3> HIDE DEF S
    <3>1. Tried(d, S, x)
      BY <2>6 DEF S
    <3>2. Tried(d, S \cup TriedOf(part), y) /\ Kept(x.m, y.m)
      BY <2>3, <2>4, <2>6, <3>1, TryRight
    <3> QED BY <3>2 DEF S
  <2>9. Kept(r.m, y.m)
    BY <2>6, <2>8, KeptAll
  <2> QED BY <2>5, <2>7, <2>8, <2>9 DEF y
<1>9. \A k \in Nat : k \in Good
  <2>1. 0 \in Good
    BY <1>7
  <2> HIDE DEF Good
  <2> QED BY <1>8, <2>1, Counting
<1>10. Fine(most)
  <2>1. most \in Good
    BY <1>2, <1>9
  <2>2. most <= most
    BY <1>2
  <2> QED BY <2>1, <2>2
<1> DEFINE last == try[most]
           S == Of(most)
           w == OrWhole(d, last)
<1>11. MountGood(m0, last) /\ Tried(d, S, last)
  BY <1>10
<1>12. S \cup {0} = Starts(d)
  BY DEF Starts, most
<1> HIDE DEF last, S
<1>13. w = IF last.rc = 0 THEN last ELSE fat_mount(d, last.m, last.v, 0)
  BY DEF OrWhole
<1> HIDE DEF w
<1>14. Tried(d, S \cup {0}, w)
  BY <1>11, <1>13, TriedMore, SMTT(30)
<1>15. Tried(d, Starts(d), w)
  BY <1>12, <1>14
<1>16. CASE r.buf[1] # 0 \/ ~d.signature
  <2>1. t = failed
    BY <1>6, <1>16, Zenon
  <2>2. ~t.v.mounted /\ (t.m.lost \/ ~d.signature)
    BY <1>4, <1>5, <1>16, <1>a, <2>1
  <2> QED BY <2>2, Zenon DEF Mountable, t
<1>17. CASE ~(r.buf[1] # 0 \/ ~d.signature)
  <2>1. t = w
    BY <1>6, <1>17, Zenon DEF w, last
  <2>2. t.v.mounted => t.v = Volume(d) /\ CanMount(d, d.start) /\ d.start \in Starts(d)
    BY <1>15, <2>1, Zenon DEF Tried
  <2>3. ~t.m.lost => ((t.v.mounted /\ ~t.exit) <=> Mountable(d))
    <3>1. ASSUME ~t.m.lost, t.v.mounted, ~t.exit PROVE Mountable(d)
      <4>1. t.rc = 0
        BY <1>15, <2>1, <3>1, Zenon DEF Tried
      <4>2. d.start \in Starts(d) /\ CanMount(d, d.start) /\ ~Unset(d)
        BY <1>15, <2>1, <2>2, <3>1, <4>1, Zenon DEF Tried
      <4> QED BY <1>17, <4>2, Zenon DEF Mountable, Unset
    <3>2. ASSUME ~t.m.lost, Mountable(d) PROVE t.v.mounted /\ ~t.exit
      <4>1. t.rc = 0
        BY <1>15, <2>1, <3>2, Zenon DEF Tried, Mountable
      <4>2. ~Unset(d)
        BY <3>2, Zenon DEF Mountable, Unset
      <4> QED BY <1>15, <2>1, <3>2, <4>1, <4>2, Zenon DEF Tried
    <3> QED BY <3>1, <3>2
  <2> QED BY <2>2, <2>3 DEF t
<1> QED BY <1>16, <1>17, Zenon

-----------------------------------------------------------------------------
(* The parts of a read: what the cached sector still has, whole sectors, and *)
(* the rest from a sector that is read into the cache.                     *)

(* A file at byte pos: where its chain is, and what is in its cache if it  *)
(* has some of it.  gone: whether a sector was lost.                       *)
ByteAt(d, first, p) == <<Sec(d, first, (p \div SECTOR_SIZE) + 1), p % SECTOR_SIZE>>

HasBytes(d, first, from, data) ==
  \A b \in 1 .. Len(data) : data[b] = ByteAt(d, first, from + (b - 1))

PlaceAt(d, v, gone, file, pos) ==
  LET k == pos \div SECTOR_SIZE
      in == pos % SECTOR_SIZE
      f == file.fatfile
  IN  IF file.cacheoffset = -1 THEN in = 0 /\ FileAt(d, v, k, f)
      ELSE /\ in = file.cacheoffset /\ k < Len(d.chains[f.firstcluster].sectors)
           /\ FileAt(d, v, k + 1, f)
           /\ gone \/ file.cache = Sec(d, f.firstcluster, k + 1)

SizeFits(d, v, file) ==
  file.size # 0 =>
    /\ ChainOf(d, v, file.fatfile.firstcluster)
    /\ file.size <= Len(d.chains[file.fatfile.firstcluster].sectors) * SECTOR_SIZE

PartRight(d, v, gone, file, p, count) ==
  /\ PartGood(file, p, count) /\ Len(p.data) \in Nat /\ Len(p.data) + p.count = count
  /\ p.file.fatfile.firstcluster = file.fatfile.firstcluster
  /\ p.file.cacheoffset = -1 \/ p.count = 0
  /\ PlaceAt(d, v, gone, p.file, file.fileoffset + Len(p.data))
  /\ gone \/ HasBytes(d, file.fatfile.firstcluster, file.fileoffset, p.data)

LEMMA PlaceKept ==
  ASSUME NEW d, NEW v, NEW gone, NEW gone1, gone => gone1, NEW file, NEW pos,
         PlaceAt(d, v, gone, file, pos)
  PROVE  PlaceAt(d, v, gone1, file, pos)
BY DEF PlaceAt

(* Where a byte of a sector is.                                            *)
LEMMA PlaceOf ==
  ASSUME NEW k \in Nat, NEW r \in 0 .. SECTOR_SIZE - 1, NEW p, p = k * SECTOR_SIZE + r
  PROVE  p \in Nat /\ p \div SECTOR_SIZE = k /\ p % SECTOR_SIZE = r
<1> DEFINE SS == SECTOR_SIZE
<1>1. SS \in Nat \ {0}
  BY Sizes
<1> HIDE DEF SS
<1>2. k * SS \in Nat
  BY <1>1
<1>3. r \in 0 .. SS - 1 /\ p = k * SS + r
  BY DEF SS
<1>4. p \in Nat
  <2> DEFINE K == k * SS
  <2> HIDE DEF K
  <2> QED BY <1>1, <1>2, <1>3 DEF K
<1>5. p \div SS = k /\ p % SS = r
  BY <1>1, <1>3, <1>4, Quotient
<1> QED BY <1>4, <1>5 DEF SS

(* The bytes of a part of a sector.                                        *)
LEMMA BytesOf ==
  ASSUME NEW d, NEW first, NEW k \in Nat, NEW in \in 0 .. SECTOR_SIZE - 1, NEW n \in Nat,
         in + n <= SECTOR_SIZE, NEW pos, pos = k * SECTOR_SIZE + in, NEW sec,
         sec = Sec(d, first, k + 1)
  PROVE  HasBytes(d, first, pos, Bytes(sec, in, n))
<1> DEFINE part == Bytes(sec, in, n)
           SS == SECTOR_SIZE
<1>1. SS \in Nat \ {0}
  BY Sizes
<1>2. part = [i \in 1 .. n |-> <<sec, in + i - 1>>]
  BY DEF Bytes
<1>3. Len(part) = n
  BY BytesSeq
<1> HIDE DEF part, SS
<1>4. ASSUME NEW b \in 1 .. n PROVE part[b] = ByteAt(d, first, pos + (b - 1))
  <2> DEFINE p == pos + (b - 1)
             r == in + (b - 1)
  <2>0. k * SS \in Nat
    BY <1>1
  <2>1. p = k * SS + r /\ r \in 0 .. SS - 1 /\ p \in Nat /\ in + b - 1 = r
    <3> DEFINE K == k * SS
    <3>1. K \in Nat /\ pos = K + in /\ in \in 0 .. SS - 1 /\ in + n <= SS /\ SS \in Nat
      BY <1>1, <2>0 DEF SS
    <3>2. b \in Int /\ b >= 1 /\ b <= n /\ n \in Int
      OBVIOUS
    <3> HIDE DEF K
    <3>3. p = K + r
      BY <3>1, <3>2
    <3>4. r \in 0 .. SS - 1 /\ in + b - 1 = r
      BY <3>1, <3>2
    <3>5. p \in Nat
      BY <3>1, <3>3, <3>4
    <3> QED BY <3>3, <3>4, <3>5 DEF K
  <2>2. part[b] = <<sec, r>>
    BY <1>2, <2>1
  <2> HIDE DEF p, r
  <2>3. p \div SS = k /\ p % SS = r
    <3>1. p = k * SS + r /\ r \in 0 .. SS - 1
      BY <2>1
    <3> QED BY <3>1, PlaceOf DEF SS
  <2> QED BY <2>2, <2>3 DEF ByteAt, SS, p
<1> QED BY <1>3, <1>4 DEF HasBytes, part

LEMMA HeadRight ==
  ASSUME NEW d, NEW v, NEW gone, NEW file, FileGood(file), NEW count \in Nat,
         PlaceAt(d, v, gone, file, file.fileoffset)
  PROVE  PartRight(d, v, gone, file, HeadBytes(file, count), count)
<1> DEFINE SS == SECTOR_SIZE
           n == Smaller(count, SS - file.cacheoffset)
           whole == file.cacheoffset + n = SS
           at == IF whole THEN -1 ELSE file.cacheoffset + n
           a == file.fileoffset
           first == file.fatfile.firstcluster
           h == HeadBytes(file, count)
<1>0. PartGood(file, h, count)
  BY HeadKept
<1>a. a \in Nat /\ SS \in Nat \ {0}
  BY Sizes DEF FileGood
<1>1. CASE file.cacheoffset = -1
  <2>1. h = [file |-> file, count |-> count, data |-> <<>>]
    BY <1>1 DEF HeadBytes
  <2>2. h.file = file /\ h.count = count /\ h.data = <<>> /\ Len(h.data) = 0
    BY <2>1
  <2>3. HasBytes(d, first, a, <<>>)
    BY DEF HasBytes
  <2> HIDE DEF h
  <2>4. a + Len(h.data) = a
    BY <1>a, <2>2
  <2>5. PlaceAt(d, v, gone, h.file, a + Len(h.data))
    BY <2>2, <2>4
  <2> QED BY <1>0, <1>1, <2>2, <2>3, <2>5 DEF PartRight, h
<1>2. CASE file.cacheoffset # -1
  <2> DEFINE k == a \div SS
             in == file.cacheoffset
             part == Bytes(file.cache, in, n)
             K == k * SS
  <2>1. in \in 0 .. SS - 1
    BY <1>2 DEF FileGood
  <2>2. n \in Nat /\ n <= count /\ n <= SS - in /\ (n = count \/ n = SS - in)
    BY <1>a, <2>1 DEF Smaller
  <2>3. h.file = [file EXCEPT !.cacheoffset = at] /\ h.count = count - n /\ h.data = part
    <3>1. h = [file |-> [file EXCEPT !.cacheoffset = IF whole THEN -1 ELSE @ + n],
               count |-> count - n, data |-> Bytes(file.cache, file.cacheoffset, n)]
      BY <1>2, Zenon DEF HeadBytes, SS
    <3> HIDE DEF n, h
    <3> QED BY <3>1
  <2> HIDE DEF n, h
  <2>4. /\ a % SS = in /\ k < Len(d.chains[first].sectors) /\ FileAt(d, v, k + 1, file.fatfile)
        /\ gone \/ file.cache = Sec(d, first, k + 1)
    BY <1>2 DEF PlaceAt, SS
  <2>5. k \in Nat /\ K \in Nat /\ a = K + in
    <3> HIDE DEF a, SS
    <3> QED BY <1>a, <2>4, Division
  <2>6. /\ h.file.cache = file.cache /\ h.file.fatfile = file.fatfile /\ h.file.cacheoffset = at
    BY <2>3 DEF FileGood, FdFields
  <2>7. Len(h.data) = n
    BY <2>1, <2>2, <2>3, BytesSeq
  <2>8. gone \/ HasBytes(d, first, a, h.data)
    <3> HIDE DEF k, a
    <3>1. in + n <= SECTOR_SIZE /\ in \in 0 .. SECTOR_SIZE - 1 /\ a = k * SECTOR_SIZE + in
      BY <1>a, <2>1, <2>2, <2>5 DEF SS
    <3> HIDE DEF in, SS
    <3>2. ASSUME file.cache = Sec(d, first, k + 1) PROVE HasBytes(d, first, a, h.data)
      BY <2>2, <2>3, <2>5, <3>1, <3>2, BytesOf DEF in
    <3> QED BY <2>4, <3>2
  <2>9. PlaceAt(d, v, gone, h.file, a + n) /\ (h.file.cacheoffset = -1 \/ h.count = 0)
    <3> DEFINE p == a + n
    <3>1. CASE whole
      <4> DEFINE q == k + 1
                 z == 0
      <4>1. q * SS = K + SS
        <5> HIDE DEF SS
        <5> QED BY <1>a, <2>5
      <4>2. p = q * SS + z /\ z \in 0 .. SS - 1 /\ q \in Int /\ p \in Nat
        <5>1. p = K + SS
          <6> HIDE DEF K, in, SS, a
          <6> QED BY <1>a, <2>1, <2>2, <2>5, <3>1 DEF in
        <5>2. q \in Int /\ p \in Nat /\ q * SS \in Int
          BY <1>a, <2>2, <2>5, <4>1
        <5> HIDE DEF p, q, SS, K
        <5> QED BY <1>a, <4>1, <5>1, <5>2
      <4> HIDE DEF z, p, SS
      <4>3. p \div SS = q /\ p % SS = z
        <5> HIDE DEF q
        <5> QED BY <1>a, <4>2, Quotient
      <4>4. h.file.cacheoffset = -1
        BY <2>6, <3>1
      <4> QED BY <2>4, <2>6, <4>3, <4>4 DEF PlaceAt, z, p, SS
    <3>2. CASE ~whole
      <4> DEFINE r == in + n
      <4>1. n = count /\ r \in 0 .. SS - 1
        BY <1>a, <2>1, <2>2, <3>2
      <4>2. p = k * SS + r /\ p \in Nat /\ k \in Int
        <5> HIDE DEF in, SS, a, k
        <5> QED BY <1>a, <2>1, <2>2, <2>5
      <4>3. h.file.cacheoffset = r /\ r # -1
        BY <2>6, <3>2, <4>1
      <4> HIDE DEF r, p, SS, k
      <4>4. p \div SS = k /\ p % SS = r
        BY <1>a, <4>1, <4>2, Quotient
      <4>5. h.count = 0
        BY <2>2, <2>3, <4>1
      <4> QED BY <2>4, <2>6, <4>3, <4>4, <4>5 DEF PlaceAt, p, SS
    <3> QED BY <3>1, <3>2
  <2>10. Len(h.data) \in Nat /\ Len(h.data) + h.count = count
    BY <2>2, <2>3, <2>7
  <2> QED BY <1>0, <2>6, <2>7, <2>8, <2>9, <2>10 DEF PartRight, h
<1> QED BY <1>1, <1>2

(* Data behind data.                                                       *)
LEMMA BytesJoin ==
  ASSUME NEW d, NEW first, NEW from \in Nat, NEW s, IsSeq(s), HasBytes(d, first, from, s),
         NEW t, IsSeq(t), HasBytes(d, first, from + Len(s), t)
  PROVE  HasBytes(d, first, from, s \o t)
<1>1. PICK S : s \in Seq(S)
  BY DEF IsSeq
<1>2. PICK T : t \in Seq(T)
  BY DEF IsSeq
<1>3. s \in Seq(S \cup T) /\ t \in Seq(S \cup T)
  BY <1>1, <1>2
<1> HIDE <1>1, <1>2
<1>4. Len(s \o t) = Len(s) + Len(t) /\ Len(s) \in Nat /\ Len(t) \in Nat
  BY <1>3
<1>5. ASSUME NEW b \in 1 .. Len(s \o t) PROVE (s \o t)[b] = ByteAt(d, first, from + (b - 1))
  <2>1. CASE b <= Len(s)
    <3>1. b \in 1 .. Len(s) /\ (s \o t)[b] = s[b]
      BY <1>3, <1>4, <2>1
    <3> QED BY <3>1 DEF HasBytes
  <2>2. CASE b > Len(s)
    <3> DEFINE c == b - Len(s)
    <3>1. c \in 1 .. Len(t) /\ (s \o t)[b] = t[c]
      BY <1>3, <1>4, <2>2
    <3>2. (from + Len(s)) + (c - 1) = from + (b - 1)
      BY <1>4
    <3> HIDE DEF c
    <3>3. t[c] = ByteAt(d, first, (from + Len(s)) + (c - 1))
      BY <3>1 DEF HasBytes
    <3> QED BY <3>1, <3>2, <3>3
  <2> QED BY <1>4, <2>1, <2>2
<1> QED BY <1>5 DEF HasBytes

LEMMA ListOf ==
  ASSUME NEW N \in Nat, NEW U, NEW s \in [1 .. N -> U]
  PROVE  s \in Seq(U) /\ Len(s) = N
OBVIOUS

(* Whole sectors from the start of one.                                    *)
LEMMA WholeBytes ==
  ASSUME NEW d, NEW first, NEW k \in Nat, NEW n \in Nat, NEW buf, HaveRead(d, first, k, buf, n),
         NEW got, got = [b \in 1 .. n * SECTOR_SIZE |->
                          <<buf[((b - 1) \div SECTOR_SIZE) + 1], (b - 1) % SECTOR_SIZE>>]
  PROVE  IsSeq(got) /\ Len(got) = n * SECTOR_SIZE /\ HasBytes(d, first, k * SECTOR_SIZE, got)
<1> DEFINE SS == SECTOR_SIZE
           N == n * SS
           K == k * SS
           byte(b) == <<buf[((b - 1) \div SS) + 1], (b - 1) % SS>>
           U == {byte(b) : b \in 1 .. N}
<1>1. SS \in Nat \ {0}
  BY Sizes
<1>2. got = [b \in 1 .. N |-> byte(b)]
  OBVIOUS
<1>3. N \in Nat /\ K \in Nat
  BY <1>1
<1>4. \A b \in 1 .. N : byte(b) \in U
  OBVIOUS
<1>5. got \in Seq(U) /\ Len(got) = N
  <2>1. got \in [1 .. N -> U]
    BY <1>2, <1>4
  <2> HIDE DEF N, U
  <2> QED BY <1>3, <2>1, ListOf
<1>6. ASSUME NEW b \in 1 .. N PROVE got[b] = ByteAt(d, first, K + (b - 1))
  <2> DEFINE p == b - 1
             j == p \div SS
             x == p % SS
             J == j * SS
             q == k + j
  <2>1. p \in Nat /\ p < N
    BY <1>3
  <2> HIDE DEF p
  <2> HIDE DEF SS
  <2>2. j \in Nat /\ x \in 0 .. SS - 1 /\ J \in Nat /\ p = J + x
    BY <1>1, <2>1, Division
  <2> HIDE DEF j, x
  <2>3. j + 1 \in 1 .. n
    <3>1. SUFFICES ASSUME j >= n PROVE FALSE
      BY <2>2
    <3>2. j * SS >= n * SS
      BY <1>1, <2>2, <3>1
    <3> HIDE DEF N, J
    <3> QED BY <1>3, <2>1, <2>2, <3>2 DEF N, J
  <2>4. got[b] = <<Sec(d, first, k + (j + 1)), x>>
    <3>1. got[b] = <<buf[j + 1], x>>
      BY <1>2 DEF j, x, p
    <3> QED BY <2>3, <3>1 DEF HaveRead
  <2>5. q * SS = K + J /\ q \in Nat /\ k + (j + 1) = q + 1
    BY <1>1, <2>2
  <2>6. K + p = q * SS + x
    <3> HIDE DEF K, J, q
    <3> QED BY <1>3, <2>2, <2>5
  <2>7. (K + p) \div SS = q /\ (K + p) % SS = x
    <3> DEFINE P == K + p
    <3>1. P = q * SECTOR_SIZE + x /\ x \in 0 .. SECTOR_SIZE - 1 /\ q \in Nat
      BY <2>2, <2>5, <2>6 DEF SS
    <3> HIDE DEF P, q
    <3>2. P \div SECTOR_SIZE = q /\ P % SECTOR_SIZE = x
      BY <3>1, PlaceOf
    <3> QED BY <3>2 DEF P, SS
  <2> HIDE DEF K, q
  <2> QED BY <2>4, <2>5, <2>7 DEF ByteAt, SS, p
<1> HIDE DEF N, K
<1>7. HasBytes(d, first, K, got)
  BY <1>5, <1>6 DEF HasBytes
<1> QED BY <1>5, <1>7 DEF IsSeq, N, K, SS

(* What is left of the file is in its chain.                               *)
LEMMA SectorsLeft ==
  ASSUME NEW k \in Nat, NEW n \in Nat, NEW len \in Nat, NEW c \in Nat, n * SECTOR_SIZE <= c,
         NEW size \in Nat, k * SECTOR_SIZE + c <= size, size <= len * SECTOR_SIZE
  PROVE  k + n <= len
<1> DEFINE SS == SECTOR_SIZE
<1>1. SS \in Nat \ {0}
  BY Sizes
<1>2. n * SS <= c /\ k * SS + c <= size /\ size <= len * SS
  OBVIOUS
<1> HIDE DEF SS
<1>3. SUFFICES ASSUME k + n > len PROVE FALSE
  OBVIOUS
<1> DEFINE K == k * SS
           N == n * SS
           L == len * SS
           M == (k + n) * SS
<1>4. K \in Nat /\ N \in Nat /\ L \in Nat /\ M = K + N
  BY <1>1
<1>5. M >= (len + 1) * SS /\ (len + 1) * SS = L + SS
  BY <1>1, <1>3
<1> HIDE DEF K, N, L, M
<1> QED BY <1>1, <1>2, <1>4, <1>5 DEF K, N, L

LEMMA SectorLeft ==
  ASSUME NEW k \in Nat, NEW len \in Nat, NEW c \in Nat \ {0},
         NEW size \in Nat, k * SECTOR_SIZE + c <= size, size <= len * SECTOR_SIZE
  PROVE  k < len
<1> DEFINE SS == SECTOR_SIZE
<1>1. SS \in Nat \ {0}
  BY Sizes
<1>2. k * SS + c <= size /\ size <= len * SS
  OBVIOUS
<1> HIDE DEF SS
<1>3. SUFFICES ASSUME k >= len PROVE FALSE
  OBVIOUS
<1>4. k * SS >= len * SS /\ k * SS \in Nat /\ len * SS \in Nat
  BY <1>1, <1>3
<1> QED BY <1>1, <1>2, <1>4

(* The part of a read that is past nothing: where it stands, with the next *)
(* bytes behind it.                                                        *)
LEMMA MiddleRight ==
  ASSUME NEW m0, NEW m, CachesOf(m0, m, bpb), VolumeFits(disk, bpb),
         NEW file, FileGood(file), SizeFits(disk, bpb, file),
         NEW count \in Nat, file.fileoffset + count <= file.size,
         NEW h, PartRight(disk, bpb, m.lost, file, h, count)
  PROVE  LET s == Middle(m, h)
         IN  s.m.fatlost \/ (PartRight(disk, bpb, s.m.lost, file, s, count) /\ ~s.over)
<1> DEFINE SS == SECTOR_SIZE
           n == h.count \div SS
           none == [i \in 1 .. n |-> NoSector]
           r == fat_readwrite(disk, m, bpb, h.file.fatfile, n, none)
           s == Middle(m, h)
           first == file.fatfile.firstcluster
           a == file.fileoffset
           pos == a + Len(h.data)
           len == Len(disk.chains[first].sectors)
<1>1. /\ PartGood(file, h, count) /\ Len(h.data) \in Nat /\ Len(h.data) + h.count = count
      /\ h.file.fatfile.firstcluster = first
      /\ h.file.cacheoffset = -1 \/ h.count = 0
      /\ PlaceAt(disk, bpb, m.lost, h.file, pos)
      /\ m.lost \/ HasBytes(disk, first, a, h.data)
  BY DEF PartRight
<1>2. FatTyped(disk) /\ VolumeTyped(bpb)
  BY DEF VolumeFits
<1>3. /\ PartGood(file, s, count) /\ CachesOf(m0, s.m, bpb) /\ s.count \in 0 .. SS - 1
  BY <1>1, <1>2, MiddleKept
<1>4. /\ h.count \in Nat /\ FileGood(h.file) /\ IsSeq(h.data) /\ h.file.size = file.size
      /\ h.file.fileoffset = file.fileoffset
  BY <1>1 DEF PartGood
<1>5. SS \in Nat \ {0} /\ a \in Nat /\ file.size \in Nat
  BY Sizes DEF FileGood
<1>6. n \in Nat /\ n * SS \in Nat /\ h.count % SS \in 0 .. SS - 1 /\ h.count = n * SS + (h.count % SS)
  BY <1>4, <1>5, Division
<1> HIDE DEF SS
<1>7. CASE n = 0
  <2>1. s = [m |-> m, file |-> h.file, count |-> h.count, data |-> h.data, over |-> FALSE]
    BY <1>7 DEF Middle, SS
  <2>2. s.m = m /\ s.file = h.file /\ s.count = h.count /\ s.data = h.data
    BY <2>1
  <2>3. ~s.over
    BY <2>1
  <2> HIDE DEF s, n
  <2>4. PartRight(disk, bpb, s.m.lost, file, s, count)
    BY <1>1, <1>3, <2>2 DEF PartRight
  <2> QED BY <2>3, <2>4 DEF s
<1>8. CASE n # 0
  <2> DEFINE k == pos \div SS
             left == h.count - n * SS
             N == n * SS
             K == k * SS
             new == [h.file EXCEPT !.fatfile = r.f, !.cacheoffset = -1]
             got == [b \in 1 .. Smaller(r.rc, n) * SECTOR_SIZE |->
                       <<r.buf[((b - 1) \div SECTOR_SIZE) + 1], (b - 1) % SECTOR_SIZE>>]
  <2>1. h.count # 0 /\ h.file.cacheoffset = -1
    <3>1. SUFFICES ASSUME h.count = 0 PROVE FALSE
      BY <1>1
    <3>2. 0 \div SS = 0
      BY <1>5
    <3> QED BY <1>8, <3>1, <3>2
  <2>2. pos % SS = 0 /\ FileAt(disk, bpb, k, h.file.fatfile)
    BY <1>1, <2>1 DEF PlaceAt, SS
  <2>3. pos \in Nat
    BY <1>1, <1>5
  <2>4. k \in Nat /\ K \in Nat /\ pos = K
    <3>1. k \in Nat /\ K \in Nat /\ pos = K + (pos % SS)
      <4> HIDE DEF pos
      <4> QED BY <1>5, <2>3, Division
    <3> HIDE DEF pos, K
    <3> QED BY <2>2, <2>3, <3>1
  <2>5. s = Wholes(h, n, r)
    BY <1>8 DEF Middle, SS
  <2>6. ChainOf(disk, bpb, first) /\ file.size <= len * SS /\ len \in Nat
    <3>1. file.size # 0
      <4> DEFINE l == Len(h.data)
                 c == h.count
      <4>1. l \in Nat /\ c \in Nat /\ c # 0 /\ l + c = count /\ a + count <= file.size
        BY <1>1, <1>4, <2>1
      <4> HIDE DEF l, c, a
      <4> QED BY <1>5, <4>1
    <3>2. ChainOf(disk, bpb, first) /\ file.size <= len * SS
      BY <3>1 DEF SizeFits, SS
    <3> QED BY <3>2 DEF ChainOf
  <2>7. k + n <= len
    <3>1. pos + h.count <= file.size
      <4> DEFINE l == Len(h.data)
                 c == h.count
      <4>1. l \in Nat /\ c \in Nat /\ l + c = count /\ a + count <= file.size
        BY <1>1, <1>4
      <4> HIDE DEF l, c, a
      <4>2. (a + l) + c <= file.size
        BY <1>5, <4>1
      <4> QED BY <4>2 DEF l, c
    <3> DEFINE c == h.count
               size == file.size
    <3>2. k * SECTOR_SIZE + c <= size /\ size <= len * SECTOR_SIZE /\ n * SECTOR_SIZE <= c
      <4>1. N <= c
        <5> HIDE DEF N
        <5> QED BY <1>4, <1>5, <1>6 DEF N
      <4> QED BY <2>4, <2>6, <3>1, <4>1 DEF SS
    <3>3. c \in Nat /\ size \in Nat
      BY <1>4, <1>5
    <3> HIDE DEF c, size, k, n, len, SS
    <3> QED BY <1>6, <2>4, <2>6, <3>2, <3>3, SectorsLeft
  <2>8. DOMAIN none = 1 .. n
    OBVIOUS
  <2>9. FileTyped(h.file.fatfile)
    BY <1>4 DEF FileGood
  <2> DEFINE f == h.file.fatfile
  <2>10. r.m.fatlost \/ ReadTo(disk, bpb, f, k, n, r)
    <3> HIDE DEF none, k, n, f
    <3>1. ChainOf(disk, bpb, f.firstcluster) /\ k + n <= Len(disk.chains[f.firstcluster].sectors)
      BY <1>1, <2>6, <2>7 DEF f
    <3>2. FileTyped(f) /\ FileAt(disk, bpb, k, f)
      BY <2>2, <2>9 DEF f
    <3>3. r.m.fatlost \/ ReadTo(disk, bpb, f, k, n, r)
      <4>1. r = fat_readwrite(disk, m, bpb, f, n, none)
        BY DEF f
      <4> HIDE DEF r
      <4> QED BY <1>6, <2>4, <2>8, <3>1, <3>2, <4>1, ReadwriteRight
    <3> QED BY <3>3
  <2>11. CachesOf(m, r.m, bpb) /\ FileTyped(r.f) /\ r.f.firstcluster = first
    <3> HIDE DEF none, n
    <3>1. CachesOf(m, m, bpb) /\ f.firstcluster \in Int
      BY <1>4, KeptAll DEF CachesOf, FileGood
    <3>2. CachesOf(m, r.m, bpb) /\ FileTyped(r.f) /\ r.f.firstcluster = f.firstcluster
      BY <1>2, <1>6, <2>9, <3>1, ReadwriteKept
    <3> QED BY <1>1, <3>2
  <2> HIDE DEF r, none, n, k
  <2>12. s.m = r.m
    <3>1. CASE r.rc < 0
      <4>1. s = [m |-> r.m, file |-> new, count |-> 0, data |-> h.data, over |-> TRUE]
        BY <2>5, <3>1, Zenon DEF Wholes
      <4> HIDE DEF s, new
      <4> QED BY <4>1
    <3>2. CASE ~(r.rc < 0)
      <4> DEFINE c == IF r.rc < n THEN 0 ELSE left
      <4>1. s = [m |-> r.m, file |-> new, data |-> h.data \o got, over |-> FALSE, count |-> c]
        BY <2>5, <3>2, Zenon DEF Wholes, SS
      <4> HIDE DEF s, new, got, c
      <4> QED BY <4>1
    <3> QED BY <3>1, <3>2
  <2>13. SUFFICES ASSUME ~r.m.fatlost PROVE PartRight(disk, bpb, s.m.lost, file, s, count) /\ ~s.over
    BY <2>12
  <2>14. /\ r.rc = n /\ FileAt(disk, bpb, k + n, r.f)
         /\ r.m.lost \/ HaveRead(disk, first, k, r.buf, n)
    BY <1>1, <2>10, <2>13 DEF ReadTo
  <2>15. Smaller(r.rc, n) = n /\ ~(r.rc < 0) /\ ~(r.rc < n)
    BY <1>6, <2>14 DEF Smaller
  <2>16. s = [m |-> r.m, file |-> new, data |-> h.data \o got, over |-> FALSE, count |-> left]
    BY <2>5, <2>15, Zenon DEF Wholes, SS
  <2> HIDE DEF s, new, got, left
  <2>17. s.file = new /\ s.data = h.data \o got /\ s.count = left
    BY <2>16
  <2>18. ~s.over
    BY <2>16
  <2>19. new.fatfile = r.f /\ new.cacheoffset = -1
    BY <1>4 DEF FileGood, FdFields, new
  <2>20. /\ IsSeq(got) /\ Len(got) = N
         /\ s.m.lost \/ HasBytes(disk, first, pos, got)
    <3>1. got = [b \in 1 .. n * SECTOR_SIZE |->
                  <<r.buf[((b - 1) \div SECTOR_SIZE) + 1], (b - 1) % SECTOR_SIZE>>]
      BY <2>15 DEF got
    <3>2. IsSeq(got) /\ Len(got) = N
      <4> DEFINE SomeRead(buf) == [b \in 1 .. n * SECTOR_SIZE |->
                  <<buf[((b - 1) \div SECTOR_SIZE) + 1], (b - 1) % SECTOR_SIZE>>]
                 U == {<<r.buf[((b - 1) \div SECTOR_SIZE) + 1], (b - 1) % SECTOR_SIZE>> : b \in 1 .. N}
      <4>1. got \in [1 .. N -> U]
        BY <3>1 DEF SS
      <4>2. N \in Nat
        BY <1>6
      <4> HIDE DEF N, U
      <4>3. got \in Seq(U) /\ Len(got) = N
        BY <4>1, <4>2, ListOf
      <4> QED BY <4>3 DEF IsSeq
    <3>3. ASSUME HaveRead(disk, first, k, r.buf, n) PROVE HasBytes(disk, first, pos, got)
      <4>1. HasBytes(disk, first, k * SECTOR_SIZE, got)
        BY <1>6, <2>4, <3>1, <3>3, WholeBytes
      <4> QED BY <2>4, <4>1 DEF SS
    <3> QED BY <2>12, <2>14, <3>2, <3>3
  <2>21. /\ Len(s.data) = Len(h.data) + N
         /\ s.m.lost \/ HasBytes(disk, first, a, s.data)
    <3>1. Len(s.data) = Len(h.data) + N
      BY <1>4, <2>17, <2>20, JoinedSeq
    <3>2. ASSUME ~s.m.lost PROVE HasBytes(disk, first, a, s.data)
      <4>1. ~m.lost
        BY <2>11, <2>12, <3>2 DEF CachesOf, Kept
      <4>2. HasBytes(disk, first, a, h.data) /\ HasBytes(disk, first, a + Len(h.data), got)
        BY <1>1, <2>20, <3>2, <4>1
      <4>3. HasBytes(disk, first, a, h.data \o got)
        BY <1>4, <1>5, <2>20, <4>2, BytesJoin
      <4> QED BY <2>17, <4>3
    <3> QED BY <3>1, <3>2
  <2>22. Len(s.data) \in Nat /\ Len(s.data) + s.count = count
    <3> DEFINE l == Len(h.data)
               c == h.count
    <3>1. l \in Nat /\ c \in Nat /\ l + c = count /\ N \in Nat /\ Len(s.data) = l + N /\ s.count = c - N
      BY <1>1, <1>4, <1>6, <2>17, <2>21 DEF left
    <3> HIDE DEF l, c, N
    <3> QED BY <3>1
  <2>23. PlaceAt(disk, bpb, s.m.lost, s.file, a + Len(s.data))
    <3> DEFINE p == a + Len(s.data)
               q == k + n
               z == 0
    <3>1. q * SS = K + N
      BY <1>5, <1>6, <2>4
    <3>2. p = pos + N /\ N \in Nat
      <4> DEFINE l == Len(h.data)
      <4>1. l \in Nat /\ N \in Nat /\ Len(s.data) = l + N /\ pos = a + l
        BY <1>1, <1>6, <2>21
      <4> HIDE DEF l, N, pos
      <4> QED BY <1>5, <4>1
    <3> HIDE DEF p
    <3>3. p = q * SS + z /\ q \in Nat /\ z \in 0 .. SS - 1
      <4>1. q \in Nat
        BY <1>6, <2>4
      <4> DEFINE Q == q * SS
      <4>2. p = Q
        BY <2>4, <3>1, <3>2
      <4>3. Q \in Nat
        BY <1>5, <4>1
      <4> HIDE DEF Q, q
      <4>4. p = Q + z /\ z \in 0 .. SS - 1
        BY <1>5, <4>2, <4>3
      <4> QED BY <4>1, <4>4 DEF Q
    <3> HIDE DEF q, z
    <3>4. p \div SECTOR_SIZE = q /\ p % SECTOR_SIZE = z
      BY <3>3, PlaceOf DEF SS
    <3>5. FileAt(disk, bpb, q, s.file.fatfile) /\ s.file.cacheoffset = -1
      BY <2>14, <2>17, <2>19 DEF q
    <3>6. PlaceAt(disk, bpb, s.m.lost, s.file, p)
      BY <3>4, <3>5 DEF PlaceAt, z
    <3> QED BY <3>6 DEF p
  <2>24. s.file.fatfile.firstcluster = first /\ s.file.cacheoffset = -1
    BY <2>11, <2>17, <2>19
  <2>25. PartRight(disk, bpb, s.m.lost, file, s, count)
    BY <1>3, <2>21, <2>22, <2>23, <2>24 DEF PartRight
  <2> QED BY <2>18, <2>25
<1> QED BY <1>7, <1>8

TailRightAt(d, v, file, t, count) ==
  /\ IsSeq(t.data) /\ Len(t.data) = count /\ ~t.over
  /\ t.file.fatfile.firstcluster = file.fatfile.firstcluster
  /\ PlaceAt(d, v, t.m.lost, t.file, file.fileoffset + count)
  /\ t.m.lost \/ HasBytes(d, file.fatfile.firstcluster, file.fileoffset, t.data)

LEMMA TailRight ==
  ASSUME NEW m0, VolumeFits(disk, bpb), NEW file, FileGood(file), SizeFits(disk, bpb, file),
         NEW count \in Nat, file.fileoffset + count <= file.size,
         NEW s, PartRight(disk, bpb, s.m.lost, file, s, count), CachesOf(m0, s.m, bpb),
         s.count \in 0 .. SECTOR_SIZE - 1, MiddleFields \subseteq DOMAIN s, ~s.over
  PROVE  LET t == TailBytes(s)
         IN  t.m.fatlost \/ TailRightAt(disk, bpb, file, t, count)
<1> DEFINE SS == SECTOR_SIZE
           old == <<s.file.cache>>
           f == s.file.fatfile
           r == fat_readwrite(disk, s.m, bpb, f, 1, old)
           t == TailBytes(s)
           first == file.fatfile.firstcluster
           a == file.fileoffset
           l == Len(s.data)
           c == s.count
           size == file.size
           pos == a + l
           len == Len(disk.chains[first].sectors)
           part == Bytes(r.buf[1], 0, c)
           got == [s.file EXCEPT !.fatfile = r.f, !.cache = r.buf[1]]
           new == [got EXCEPT !.cacheoffset = c]
<1>1. /\ PartGood(file, s, count) /\ l \in Nat /\ l + c = count
      /\ f.firstcluster = first
      /\ s.file.cacheoffset = -1 \/ c = 0
      /\ PlaceAt(disk, bpb, s.m.lost, s.file, pos)
      /\ s.m.lost \/ HasBytes(disk, first, a, s.data)
  BY DEF PartRight
<1>2. FatTyped(disk) /\ VolumeTyped(bpb)
  BY DEF VolumeFits
<1>3. c \in Nat /\ FileGood(s.file) /\ IsSeq(s.data) /\ SS \in Nat \ {0} /\ a \in Nat /\ size \in Nat
      /\ c \in 0 .. SS - 1 /\ a + count <= size
  BY <1>1, Sizes DEF PartGood, FileGood
<1> HIDE DEF l, c, size
<1>4. CASE c = 0
  <2>1. t = s
    BY <1>4 DEF TailBytes, c
  <2>2. l = count
    BY <1>1, <1>4
  <2> QED BY <1>1, <1>3, <2>1, <2>2 DEF TailRightAt, l
<1>5. CASE c # 0
  <2> DEFINE k == pos \div SS
             K == k * SS
             in == pos % SS
  <2>1. s.file.cacheoffset = -1 /\ pos \in Nat
    BY <1>1, <1>3, <1>5
  <2>2. in = 0 /\ FileAt(disk, bpb, k, f)
    BY <1>1, <2>1 DEF PlaceAt
  <2> HIDE DEF SS
  <2>3. k \in Nat /\ K \in Nat /\ pos = K
    <3>1. k \in Nat /\ K \in Nat /\ pos = K + in
      <4> HIDE DEF pos
      <4> QED BY <1>3, <2>1, Division
    <3> HIDE DEF pos, K, in
    <3> QED BY <2>1, <2>2, <3>1
  <2>4. pos + c = a + count /\ pos + c <= size /\ size # 0
    <3>1. pos + c = a + count
      BY <1>1, <1>3
    <3> HIDE DEF pos
    <3> QED BY <1>3, <1>5, <2>1, <3>1
  <2>5. ChainOf(disk, bpb, first) /\ size <= len * SS /\ len \in Nat
    <3>1. ChainOf(disk, bpb, first) /\ size <= len * SS
      BY <2>4 DEF SizeFits, SS, size
    <3> QED BY <3>1 DEF ChainOf
  <2>6. k < len
    <3>1. k * SECTOR_SIZE + c <= size /\ size <= len * SECTOR_SIZE /\ c \in Nat \ {0}
      BY <1>3, <1>5, <2>3, <2>4, <2>5 DEF SS
    <3> HIDE DEF k, len, SS
    <3> QED BY <1>3, <2>3, <2>5, <3>1, SectorLeft
  <2>7. DOMAIN old = 1 .. 1
    OBVIOUS
  <2>8. FileTyped(f) /\ f.firstcluster \in Nat
    BY <1>3 DEF FileGood
  <2> HIDE DEF k, old
  <2>9. r.m.fatlost \/ ReadTo(disk, bpb, f, k, 1, r)
    <3> HIDE DEF f
    <3>1. ChainOf(disk, bpb, f.firstcluster) /\ k + 1 <= Len(disk.chains[f.firstcluster].sectors)
      BY <1>1, <2>3, <2>5, <2>6
    <3> HIDE DEF r
    <3>2. r = fat_readwrite(disk, s.m, bpb, f, 1, old)
      BY DEF r
    <3>3. 1 \in Nat /\ CachesOf(m0, s.m, bpb)
      OBVIOUS
    <3> QED BY <2>2, <2>3, <2>7, <2>8, <3>1, <3>2, <3>3, ReadwriteRight
  <2>10. CachesOf(s.m, r.m, bpb) /\ FileTyped(r.f) /\ r.f.firstcluster = first
    <3>1. CachesOf(s.m, s.m, bpb) /\ f.firstcluster \in Int /\ 1 \in Nat
      BY <2>8, KeptAll DEF CachesOf
    <3> HIDE DEF f
    <3>2. CachesOf(s.m, r.m, bpb) /\ FileTyped(r.f) /\ r.f.firstcluster = f.firstcluster
      BY <1>2, <2>8, <3>1, ReadwriteKept
    <3> QED BY <1>1, <3>2
  <2> HIDE DEF r
  <2>11. t = FromCache(s, r)
    <3>1. ~(s.over \/ s.count = 0)
      BY <1>5 DEF c
    <3> QED BY <3>1, Zenon DEF TailBytes, r, f, old
  <2> HIDE DEF t
  <2>12. t.m = r.m
    <3>1. CASE r.rc < 1
      <4>1. t = [s EXCEPT !.m = r.m, !.over = TRUE, !.file = [got EXCEPT !.cacheoffset = -1]]
        BY <2>11, <3>1, Zenon DEF FromCache
      <4> QED BY <4>1 DEF MiddleFields
    <3>2. CASE ~(r.rc < 1)
      <4>1. t = [s EXCEPT !.m = r.m, !.file = new, !.data = @ \o part]
        BY <2>11, <3>2, Zenon DEF FromCache, c
      <4> HIDE DEF new, part
      <4> QED BY <4>1 DEF MiddleFields
    <3> QED BY <3>1, <3>2
  <2>13. SUFFICES ASSUME ~r.m.fatlost PROVE TailRightAt(disk, bpb, file, t, count)
    BY <2>12 DEF t
  <2>14. /\ r.rc = 1 /\ FileAt(disk, bpb, k + 1, r.f)
         /\ r.m.lost \/ r.buf[1] = Sec(disk, first, k + 1)
    BY <1>1, <2>9, <2>13 DEF ReadTo, HaveRead
  <2>15. t = [s EXCEPT !.m = r.m, !.file = new, !.data = @ \o part]
    <3>1. ~(r.rc < 1)
      BY <2>14
    <3> QED BY <2>11, <3>1, Zenon DEF FromCache, c
  <2>16. new.fatfile = r.f /\ new.cacheoffset = c /\ new.cache = r.buf[1]
    <3>1. FdFields \subseteq DOMAIN s.file
      BY <1>3 DEF FileGood
    <3>2. got.fatfile = r.f /\ got.cache = r.buf[1] /\ DOMAIN got = DOMAIN s.file
      BY <3>1 DEF FdFields
    <3> HIDE DEF got
    <3> QED BY <3>1, <3>2 DEF FdFields
  <2> HIDE DEF new, part
  <2>17. t.file = new /\ t.data = s.data \o part
    BY <2>15 DEF MiddleFields
  <2>18. t.over = s.over
    BY <2>15 DEF MiddleFields
  <2>19. ~t.over
    BY <2>18, Zenon
  <2>20. IsSeq(part) /\ Len(part) = c
    BY <1>3, BytesSeq DEF part
  <2>21. Len(t.data) = count
    <3>1. Len(t.data) = l + c
      <4>1. Len(s.data \o part) = Len(s.data) + Len(part)
        BY <1>3, <2>20, JoinedSeq, Zenon
      <4> QED BY <2>17, <2>20, <4>1, Zenon DEF l
    <3> QED BY <1>1, <3>1
  <2>22. t.m.lost \/ HasBytes(disk, first, a, t.data)
    <3>1. SUFFICES ASSUME ~t.m.lost PROVE HasBytes(disk, first, a, t.data)
      OBVIOUS
    <3>2. ~s.m.lost
      BY <2>10, <2>12, <3>1 DEF CachesOf, Kept
    <3>3. r.buf[1] = Sec(disk, first, k + 1)
      BY <2>12, <2>14, <3>1
    <3>4. pos = k * SECTOR_SIZE + 0 /\ 0 \in 0 .. SECTOR_SIZE - 1 /\ 0 + c <= SECTOR_SIZE
      <4>1. pos = K + 0
        BY <2>3
      <4> QED BY <1>3, <4>1 DEF SS
    <3>5. HasBytes(disk, first, pos, part)
      <4> DEFINE z == 0
                 p == pos
      <4>1. p = k * SECTOR_SIZE + z /\ z \in 0 .. SECTOR_SIZE - 1 /\ z + c <= SECTOR_SIZE
            /\ part = Bytes(r.buf[1], z, c)
        BY <3>4 DEF part
      <4> HIDE DEF z, p
      <4>2. HasBytes(disk, first, p, Bytes(r.buf[1], z, c))
        BY <1>3, <2>3, <3>3, <4>1, BytesOf
      <4> QED BY <4>1, <4>2 DEF p
    <3>6. HasBytes(disk, first, a, s.data) /\ HasBytes(disk, first, a + Len(s.data), part)
      BY <1>1, <3>2, <3>5 DEF l
    <3> HIDE DEF a, first
    <3>7. HasBytes(disk, first, a, s.data \o part)
      BY <1>3, <2>20, <3>6, BytesJoin
    <3> QED BY <2>17, <3>7
  <2>23. PlaceAt(disk, bpb, t.m.lost, t.file, a + count)
    <3> DEFINE p == a + count
    <3>1. p = k * SECTOR_SIZE + c /\ c \in 0 .. SECTOR_SIZE - 1
      BY <1>3, <2>3, <2>4 DEF SS
    <3> HIDE DEF p
    <3>2. p \div SECTOR_SIZE = k /\ p % SECTOR_SIZE = c
      BY <2>3, <3>1, PlaceOf
    <3>3. t.file.fatfile = r.f /\ t.file.cacheoffset = c /\ c # -1 /\ t.file.cache = r.buf[1]
      BY <1>3, <2>16, <2>17
    <3>4. r.f.firstcluster = first /\ k < len
      BY <2>6, <2>10
    <3>5. t.m.lost \/ t.file.cache = Sec(disk, first, k + 1)
      BY <2>12, <2>14, <3>3
    <3>6. PlaceAt(disk, bpb, t.m.lost, t.file, p)
      BY <2>14, <3>2, <3>3, <3>4, <3>5 DEF PlaceAt
    <3> QED BY <3>6 DEF p
  <2>24. t.file.fatfile.firstcluster = first
    BY <2>10, <2>16, <2>17
  <2>25. IsSeq(t.data)
    <3>1. IsSeq(s.data \o part)
      BY <1>3, <2>20, JoinedSeq, Zenon
    <3> QED BY <2>17, <3>1, Zenon
  <2> QED BY <2>19, <2>21, <2>22, <2>23, <2>24, <2>25 DEF TailRightAt
<1> QED BY <1>4, <1>5

-----------------------------------------------------------------------------
(* Where every open file stands, as long as no sector of the FAT was lost. *)
Placed(d, v, gone, fatgone, file) ==
  file.busy /\ ~file.isdir =>
    SizeFits(d, v, file) /\ (fatgone \/ PlaceAt(d, v, gone, file, file.fileoffset))

VolumeRight ==
  /\ state = "start" => ~bpb.mounted
  /\ bpb.mounted => bpb = Volume(disk) /\ CanMount(disk, disk.start) /\ disk.start \in Starts(disk)

PlacesInv ==
  /\ CachesInv /\ VolumeRight
  /\ \A fd \in Fds : Placed(disk, bpb, lost, fatlost, openfiles[fd])

(* The volume that a medium has, when there is one that can be mounted.    *)
LEMMA VolumeFitted ==
  ASSUME medium \in DOMAIN Media, CanMount(disk, disk.start), disk.start \in Starts(disk)
  PROVE  VolumeFits(disk, Volume(disk))
<1> DEFINE d == disk
           b == d.boot[d.start]
           fds == b.rsvd + b.rootdirsectors + b.numfats * b.fatsize
           clusters == (b.totalsectors - fds) \div b.secperclus
           spc == b.secperclus
           sum == b.rootdirsectors + spc - 1
           dirclus == (b.rootdirsectors + b.secperclus - 1) \div b.secperclus
           fat16 == clusters < Fat32Least
           offset == IF fat16 THEN dirclus * b.secperclus - b.rootdirsectors ELSE 0
           w == Bpb(b, d.start)
           v == Volume(d)
<1>1. FatTyped(d) /\ BootTyped(d) /\ PartsTyped(d)
  BY MediumTyped
<1> HIDE DEF d
<1>2. d.start \in Nat
  BY <1>1 DEF Starts, PartsTyped, d
<1>3. BootSector(b) /\ b.secperclus # 0
  BY <1>1 DEF CanMount, BootTyped, d
<1>4. v = Taken(b, d.start)
  BY DEF Volume, Taken
<1>5. VolumeTyped(v) /\ v.startsector = d.start
  <2> HIDE DEF b, v
  <2>1. d.start \in Int
    BY <1>2
  <2> QED BY <1>3, <1>4, <2>1, BpbTyped
<1>6. w = [mounted |-> FALSE, startsector |-> d.start, rsvd |-> b.rsvd,
           secperclus |-> b.secperclus, fatsize |-> b.fatsize,
           firstdatasector |-> fds, dataclusters |-> clusters, is_fat16 |-> fat16,
           rootclus |-> IF fat16 THEN 0 - dirclus ELSE b.rootclus,
           rootdiroffset |-> offset]
  BY Zenon DEF Bpb
<1>7. offset \in 0 .. spc - 1
  <2> DEFINE R == b.rootdirsectors
             q == sum \div spc
             x == sum % spc
             Q == q * spc
  <2>1. spc \in Nat \ {0} /\ R \in Nat
    BY <1>3 DEF BootSector
  <2>2. offset = IF fat16 THEN Q - R ELSE 0
    OBVIOUS
  <2>3. sum = R + spc - 1
    OBVIOUS
  <2> HIDE DEF spc, R, fat16, offset
  <2>4. sum \in Nat
    BY <2>1, <2>3 DEF R
  <2> HIDE DEF sum
  <2>5. x \in 0 .. spc - 1 /\ Q \in Nat /\ sum = Q + x
    BY <2>1, <2>4, Division
  <2> HIDE DEF q, x, Q
  <2>6. Q - R \in 0 .. spc - 1
    BY <2>1, <2>3, <2>5
  <2> QED BY <2>1, <2>2, <2>6
<1> HIDE DEF offset, fds, clusters, fat16, dirclus
<1>8. w.rsvd = b.rsvd /\ w.secperclus = spc /\ w.rootdiroffset = offset
  BY <1>6
<1>9. {"mounted", "rsvd", "secperclus", "rootdiroffset"} \subseteq DOMAIN w
  BY <1>6
<1>10. v = [w EXCEPT !.mounted = TRUE]
  BY DEF Volume
<1> HIDE DEF w, v
<1>11. v.rsvd = b.rsvd /\ v.secperclus = spc /\ v.rootdiroffset = offset
  BY <1>8, <1>9, <1>10
<1>12. b.rsvd \in Nat
  BY <1>3 DEF BootSector
<1> QED BY <1>1, <1>2, <1>5, <1>7, <1>11, <1>12 DEF VolumeFits, v, d

LEMMA VolumeThere ==
  ASSUME PlacesInv, bpb.mounted
  PROVE  VolumeFits(disk, bpb) /\ CanMount(disk, disk.start) /\ bpb = Volume(disk)
BY VolumeFitted DEF PlacesInv, VolumeRight, CachesInv

LEMMA FilesMounted ==
  ASSUME PlacesInv, NEW fd \in Fds, openfiles[fd].busy
  PROVE  /\ bpb.mounted /\ FileGood(openfiles[fd]) /\ VolumeFits(disk, bpb)
         /\ Placed(disk, bpb, lost, fatlost, openfiles[fd])
<1>1. bpb.mounted /\ FileGood(openfiles[fd])
  BY Zenon DEF PlacesInv, CachesInv
<1> QED BY <1>1, VolumeThere DEF PlacesInv

-----------------------------------------------------------------------------
(* Directories: what a search finds is an entry of the medium.             *)

(* What a search finds is an entry of the medium, whatever was read.       *)
IsEntry(d, e) ==
  /\ e.kind \in {"file", "dir"}
  /\ \E t \in DOMAIN d.dir, i \in 1 .. DIR_ENTRIES_PER_SECTOR : e = d.dir[t][i]

FoundIn(d, s) == s.state = "found" => IsEntry(d, s.entry)

LEMMA LookFound ==
  ASSUME NEW d, NEW r, DirTyped(r.dir), NEW name, NEW dironly
  PROVE  FoundIn(d, Look(d, r, name, dironly))
<1> DEFINE i == r.dir.entry % DIR_ENTRIES_PER_SECTOR
           e == DirEntry(d, r.dir.buf, i)
           next == [r.dir EXCEPT !.entry = @ + 1]
           s == Look(d, r, name, dironly)
           this == \/ e.kind = "dir" /\ e.name = name
                   \/ e.kind = "file" /\ e.name = name /\ ~dironly
<1>1. ASSUME this PROVE IsEntry(d, e)
  <2>1. i \in 0 .. DIR_ENTRIES_PER_SECTOR - 1 /\ i + 1 \in 1 .. DIR_ENTRIES_PER_SECTOR
    BY Sizes DEF DirTyped
  <2> HIDE DEF i
  <2>2. e.kind \in {"dir", "file"}
    BY <1>1
  <2>3. e = d.dir[r.dir.buf][i + 1] /\ r.dir.buf \in DOMAIN d.dir
    BY <2>2 DEF DirEntry, EndOfDir
  <2> HIDE DEF e
  <2> QED BY <2>1, <2>2, <2>3 DEF IsEntry
<1> HIDE DEF next, e
<1>2. CASE ~(r.rc <= 0) /\ e.kind # "end" /\ this
  <2>1. s = [m |-> r.m, dir |-> next, state |-> "found", entry |-> e]
    BY <1>2, Zenon DEF Look, e, next
  <2> HIDE DEF s
  <2>2. s.entry = e
    BY <2>1
  <2> QED BY <1>1, <1>2, <2>2 DEF FoundIn, s
<1>3. CASE ~(~(r.rc <= 0) /\ e.kind # "end" /\ this)
  <2>1. s.state # "found"
    <3>1. \/ s = [m |-> r.m, dir |-> r.dir, state |-> "none"]
          \/ s = [m |-> r.m, dir |-> next, state |-> "none"]
          \/ s = [m |-> r.m, dir |-> next, state |-> "on"]
      BY <1>3, Zenon DEF Look, e, next
    <3> HIDE DEF s
    <3> QED BY <3>1
  <2> QED BY <2>1 DEF FoundIn
<1> QED BY <1>2, <1>3

LEMMA ScanFound ==
  ASSUME NEW m0, NEW d, NEW m, NEW v, VolumeTyped(v), FatTyped(d), EntriesTyped(d),
         NEW dir, DirTyped(dir), CachesOf(m0, m, v), NEW name, NEW dironly
  PROVE  FoundIn(d, scan(d, m, v, dir, name, dironly))
<1> DEFINE most == MaxDirSectors * DIR_ENTRIES_PER_SECTOR
<1>1. PICK walk : IsScan(walk, d, m, v, dir, name, dironly)
                  /\ scan(d, m, v, dir, name, dironly) = walk[most]
  BY ScanLoop
<1> DEFINE Fine(k) == ScanGood(m0, walk[k], v) /\ FoundIn(d, walk[k])
           Good == {k \in Nat : k <= most => Fine(k)}
<1>2. most \in Nat
  BY Sizes
<1>3. /\ walk[0] = [m |-> m, dir |-> dir, state |-> "on"]
      /\ \A i \in 0 .. most - 1 : walk[i + 1] = LookOn(d, v, walk[i], name, dironly)
  BY <1>1 DEF IsScan
<1> HIDE DEF most
<1>4. Fine(0)
  BY <1>3 DEF ScanGood, FoundIn
<1>5. ASSUME NEW k \in Nat, k \in Good PROVE k + 1 \in Good
  <2>1. SUFFICES ASSUME k + 1 <= most PROVE Fine(k + 1)
    OBVIOUS
  <2> DEFINE s == walk[k]
             t == walk[k + 1]
             r == DirSector(d, s.m, v, s.dir)
  <2>2. ScanGood(m0, s, v) /\ FoundIn(d, s) /\ t = LookOn(d, v, s, name, dironly)
    BY <1>2, <1>3, <1>5, <2>1
  <2> HIDE DEF s, t
  <2>3. ScanGood(m0, t, v)
    BY <2>2, LookOnKept
  <2>4. FoundIn(d, t)
    <3>1. CASE s.state # "on"
      BY <2>2, <3>1 DEF LookOn
    <3>2. CASE s.state = "on"
      <4>1. t = Look(d, r, name, dironly)
        BY <2>2, <3>2 DEF LookOn
      <4>2. DirTyped(r.dir)
        BY <2>2, DirSectorKept DEF ScanGood
      <4> HIDE DEF r
      <4> QED BY <4>1, <4>2, LookFound
    <3> QED BY <3>1, <3>2
  <2> QED BY <2>3, <2>4 DEF s, t
<1>6. \A k \in Nat : k \in Good
  <2>1. 0 \in Good
    BY <1>4
  <2> HIDE DEF Good
  <2> QED BY <1>5, <2>1, Counting
<1>7. Fine(most)
  <2>1. most \in Good /\ most <= most
    BY <1>2, <1>6
  <2> QED BY <2>1
<1> QED BY <1>1, <1>7

(* What ChainsAssumption says of the medium in the drive.                  *)
LEMMA ChainsThere ==
  ASSUME medium \in DOMAIN Media
  PROVE  /\ OneVolume(disk)
         /\ CanMount(disk, disk.start) => \A first \in DOMAIN disk.chains : ChainOf(disk, Volume(disk), first)
<1>1. ASSUME NEW s \in DOMAIN disk.boot, CanMount(disk, s)
      PROVE  /\ s = disk.start
             /\ \A first \in DOMAIN disk.chains : ChainOf(disk, Volume(disk), first)
  <2>1. /\ s = disk.start
        /\ \A first \in DOMAIN disk.chains :
             /\ disk.chains[first].clusters \in Seq(Int)
             /\ disk.chains[first].sectors \in Seq(Nat)
             /\ ChainFits(disk, Volume(disk), first, disk.chains[first].clusters,
                          disk.chains[first].sectors)
    BY <1>1, ChainsAssumption DEF disk
  <2> QED BY <2>1 DEF ChainOf
<1>2. CanMount(disk, disk.start) => disk.start \in DOMAIN disk.boot
  BY DEF CanMount
<1> QED BY <1>1, <1>2 DEF OneVolume

LEMMA EntryFits ==
  ASSUME medium \in DOMAIN Media, CanMount(disk, disk.start), NEW e, IsEntry(disk, e),
         e.kind = "file", e.size # 0
  PROVE  /\ e.first \in DOMAIN disk.chains
         /\ e.size <= Len(disk.chains[e.first].sectors) * SECTOR_SIZE
<1>1. PICK t \in DOMAIN disk.dir, i \in 1 .. DIR_ENTRIES_PER_SECTOR : e = disk.dir[t][i]
  BY DEF IsEntry
<1>2. disk.start \in DOMAIN disk.boot
  BY DEF CanMount
<1>3. \A u \in DOMAIN disk.dir, j \in 1 .. DIR_ENTRIES_PER_SECTOR :
        LET x == disk.dir[u][j]
        IN  x.kind = "file" /\ x.size # 0 =>
              /\ x.first \in DOMAIN disk.chains
              /\ x.size <= Len(disk.chains[x.first].sectors) * SECTOR_SIZE
  BY <1>2, ChainsAssumption DEF disk
<1> QED BY <1>1, <1>3

LEMMA FileOpened ==
  ASSUME medium \in DOMAIN Media, CanMount(disk, disk.start), NEW e, IsEntry(disk, e),
         NEW path, NEW write, NEW gone
  PROVE  LET file == Filedesc(e, path, write)
         IN  ~file.isdir => /\ SizeFits(disk, Volume(disk), file)
                            /\ PlaceAt(disk, Volume(disk), gone, file, file.fileoffset)
<1> DEFINE file == Filedesc(e, path, write)
           f == fat_open(e.first)
<1>1. /\ file.size = e.size /\ file.fileoffset = 0 /\ file.cacheoffset = -1 /\ file.fatfile = f
  BY DEF Filedesc
<1>2. file.isdir = (e.kind = "dir")
  BY DEF Filedesc
<1> HIDE DEF file
<1>3. f.firstcluster = e.first /\ f.lastcluster = e.first /\ f.lastsector = 0 /\ f.clusternum = 0
      /\ f.sectornum = 0
  BY DEF fat_open
<1>4. ~f.eof
  BY DEF fat_open
<1> HIDE DEF f
<1>5. SUFFICES ASSUME ~file.isdir PROVE SizeFits(disk, Volume(disk), file)
                                       /\ PlaceAt(disk, Volume(disk), gone, file, file.fileoffset)
  BY DEF file
<1>6. e.kind = "file"
  <2>1. e.kind # "dir"
    BY <1>2, <1>5, Zenon
  <2> QED BY <2>1 DEF IsEntry
<1>7. SizeFits(disk, Volume(disk), file)
  <2>1. SUFFICES ASSUME e.size # 0
                 PROVE  /\ ChainOf(disk, Volume(disk), e.first)
                        /\ e.size <= Len(disk.chains[e.first].sectors) * SECTOR_SIZE
    BY <1>1, <1>3 DEF SizeFits
  <2>2. e.first \in DOMAIN disk.chains /\ e.size <= Len(disk.chains[e.first].sectors) * SECTOR_SIZE
    BY <1>6, <2>1, EntryFits
  <2> QED BY <2>2, ChainsThere
<1>8. PlaceAt(disk, Volume(disk), gone, file, file.fileoffset)
  <2>1. 0 \div SECTOR_SIZE = 0 /\ 0 % SECTOR_SIZE = 0
    BY Sizes
  <2>2. FileAt(disk, Volume(disk), 0, f)
    BY <1>3, <1>4 DEF FileAt, Stands
  <2> QED BY <1>1, <2>1, <2>2 DEF PlaceAt
<1> QED BY <1>7, <1>8

-----------------------------------------------------------------------------
(* The calls, and where they leave the open files.                         *)

LEMMA PlacesKept ==
  ASSUME PlacesInv, CachesInv', state' # "start", medium' = medium, bpb' = bpb,
         lost => lost', fatlost => fatlost',
         \A fd \in Fds : openfiles'[fd] = openfiles[fd]
                        \/ Placed(disk, bpb, lost', fatlost', openfiles'[fd])
  PROVE  PlacesInv'
<1>1. disk' = disk
  BY DEF disk
<1>2. VolumeRight'
  <2>1. bpb.mounted => bpb = Volume(disk) /\ CanMount(disk, disk.start) /\ disk.start \in Starts(disk)
    BY DEF PlacesInv, VolumeRight
  <2>2. bpb'.mounted => bpb' = Volume(disk') /\ CanMount(disk', disk'.start) /\ disk'.start \in Starts(disk')
    BY <1>1, <2>1
  <2> QED BY <2>2 DEF VolumeRight
<1>3. ASSUME NEW fd \in Fds PROVE Placed(disk', bpb', lost', fatlost', openfiles'[fd])
  <2>1. Placed(disk, bpb, lost, fatlost, openfiles[fd])
    BY DEF PlacesInv
  <2>2. Placed(disk, bpb, lost', fatlost', openfiles[fd])
    <3> DEFINE file == openfiles[fd]
    <3> HIDE DEF file
    <3>1. PlaceAt(disk, bpb, lost, file, file.fileoffset) => PlaceAt(disk, bpb, lost', file, file.fileoffset)
      BY PlaceKept
    <3>2. Placed(disk, bpb, lost, fatlost, file)
      BY <2>1 DEF file
    <3>3. Placed(disk, bpb, lost', fatlost', file)
      BY <3>1, <3>2, Zenon DEF Placed
    <3> QED BY <3>3 DEF file
  <2>3. Placed(disk, bpb, lost', fatlost', openfiles'[fd])
    BY <2>2
  <2> QED BY <1>1, <2>3
<1>4. \A fd \in Fds : Placed(disk, bpb, lost, fatlost, openfiles[fd])'
  BY <1>3
<1> QED BY <1>2, <1>4 DEF PlacesInv

(* What a call makes of the two histories.                                 *)
LostGrows == (lost => lost') /\ (fatlost' => fatlost \/ lost')

LEMMA LostKept ==
  ASSUME CachesInv, NEW bad, NEW m, NEW v, CachesOf(Before(bad), m, v), After(m)
  PROVE  (lost => lost') /\ (fatlost => fatlost') /\ (fatlost' => fatlost \/ lost')
<1>1. Kept(Before(bad), m)
  BY DEF CachesOf
<1>2. Before(bad).lost = lost /\ Before(bad).fatlost = fatlost
  BY DEF Before
<1>3. (m.lost <=> lost') /\ (m.fatlost <=> fatlost')
  BY Zenon DEF After
<1> HIDE DEF Before
<1> QED BY <1>1, <1>2, <1>3, Zenon DEF Kept

LEMMA MountPlaces ==
  ASSUME PlacesInv, NEW bad, Mount(bad)
  PROVE  PlacesInv'
<1> DEFINE m == Before(bad)
           r == disk_mount(disk, m, bpb)
<1>1. state = "start" /\ medium' = medium /\ openfiles' = openfiles /\ CachesInv /\ ~bpb.mounted
      /\ medium \in DOMAIN Media
  BY DEF Mount, PlacesInv, VolumeRight, CachesInv
<1>2. bpb' = r.v /\ state' # "start"
  BY DEF Mount, Mounted
<1>3. CachesInv'
  BY <1>1, MountKept
<1>4. CachesOf(m, m, bpb) /\ FatEmpty(m.fat)
  BY <1>1, BeforeGood DEF CachesInv
<1> HIDE DEF m
<1>5. BootTyped(disk) /\ PartsTyped(disk) /\ OneVolume(disk)
  BY <1>1, MediumTyped, ChainsThere
<1> DEFINE d == disk
           v == bpb
<1> HIDE DEF d, v
<1>6. r.v.mounted => r.v = Volume(d) /\ CanMount(d, d.start) /\ d.start \in Starts(d)
  <2>1. r = disk_mount(d, m, v) /\ BootTyped(d) /\ PartsTyped(d) /\ OneVolume(d) /\ ~v.mounted
        /\ CachesOf(m, m, v) /\ FatEmpty(m.fat)
    BY <1>1, <1>4, <1>5 DEF d, v
  <2> HIDE DEF r
  <2> QED BY <2>1, DiskMountRight
<1> HIDE DEF r
<1>7. disk' = d
  BY <1>1 DEF disk, d
<1>8. VolumeRight'
  <2>1. bpb'.mounted => bpb' = Volume(disk') /\ CanMount(disk', disk'.start) /\ disk'.start \in Starts(disk')
    BY <1>2, <1>6, <1>7
  <2> QED BY <1>2, <2>1 DEF VolumeRight
<1>9. \A fd \in Fds : ~openfiles'[fd].busy
  BY <1>1 DEF CachesInv
<1>10. \A fd \in Fds : Placed(disk', bpb', lost', fatlost', openfiles'[fd])
  BY <1>9, Zenon DEF Placed
<1> QED BY <1>3, <1>8, <1>10 DEF PlacesInv

LEMMA ClosePlaces ==
  ASSUME PlacesInv, NEW fd \in Fds, Close(fd)
  PROVE  PlacesInv'
<1>1. openfiles' = [openfiles EXCEPT ![fd] = NoFile] /\ UNCHANGED <<medium, bpb, lost, fatlost>>
  BY DEF Close
<1>2. state' # "start"
  BY DEF Close
<1>3. CachesInv /\ CachesInv'
  BY CloseKept DEF PlacesInv
<1>4. ~NoFile.busy
  BY DEF NoFile
<1>5. \A x \in Fds : openfiles'[x] = openfiles[x] \/ openfiles'[x] = NoFile
  BY <1>1, <1>3 DEF CachesInv
<1>6. Placed(disk, bpb, lost', fatlost', NoFile)
  BY <1>4, Zenon DEF Placed
<1>7. \A x \in Fds : openfiles'[x] = openfiles[x] \/ Placed(disk, bpb, lost', fatlost', openfiles'[x])
  BY <1>5, <1>6, Zenon
<1>8. (lost => lost') /\ (fatlost => fatlost')
  BY <1>1, Zenon
<1> QED BY <1>1, <1>2, <1>3, <1>7, <1>8, PlacesKept

LEMMA OpenFailedPlaces ==
  ASSUME PlacesInv, NEW path, NEW write, OpenNone(path, write) \/ OpenUnmounted(path, write)
  PROVE  PlacesInv'
<1>1. UNCHANGED <<medium, bpb, lost, fatlost>> /\ openfiles' = openfiles
  BY DEF OpenNone, OpenUnmounted
<1>2. state' # "start"
  BY DEF OpenNone, OpenUnmounted
<1>3. CachesInv'
  BY OpenFailedKept DEF PlacesInv
<1>4. (lost => lost') /\ (fatlost => fatlost')
  BY <1>1, Zenon
<1> QED BY <1>1, <1>2, <1>3, <1>4, PlacesKept

LEMMA OpenPlaces ==
  ASSUME PlacesInv, NEW path, path \in Seq(STRING), path # <<>>, NEW write, NEW bad,
         Open(path, write, bad)
  PROVE  PlacesInv'
<1> DEFINE m == Before(bad)
           up == SubSeq(path, 1, Len(path) - 1)
           o == rb_opendir(disk, m, bpb, up, sectorcache)
           s == Searched(path, o)
           slot == Least(FreeFds)
           name == path[Len(path)]
           file == Filedesc(s.entry, path, write)
<1>1. bpb.mounted /\ medium' = medium /\ bpb' = bpb /\ Entered(path, write, s)
  BY DEF Open
<1>2. CachesInv /\ CachesInv' /\ medium \in DOMAIN Media
  BY OpenKept DEF PlacesInv, CachesInv
<1>3. Len(up) \in Nat
  <2>1. Len(path) \in Nat /\ Len(path) # 0
    OBVIOUS
  <2> QED BY <2>1
<1>4. CachesOf(m, m, bpb)
  BY <1>2, BeforeGood
<1>5. VolumeTyped(bpb) /\ FatTyped(disk) /\ EntriesTyped(disk)
  BY <1>1, <1>2, MediumTyped DEF CachesInv
<1>6. bpb = Volume(disk) /\ CanMount(disk, disk.start)
  BY <1>1, VolumeThere
<1> HIDE DEF m, up, name
<1>7. DownGood(m, o, bpb)
  BY <1>3, <1>4, <1>5, RbOpendirKept
<1> HIDE DEF o
<1>8. CachesOf(m, s.m, bpb) /\ (o.state = "found" => FoundIn(disk, s)) /\ (o.state # "found" => s = o)
  <2>1. CASE o.state # "found"
    BY <1>7, <2>1 DEF Searched, DownGood
  <2>2. CASE o.state = "found"
    <3>1. s = scan(disk, o.m, bpb, o.dir, name, FALSE)
      BY <2>2 DEF Searched, name
    <3> HIDE DEF s
    <3>2. ScanGood(m, s, bpb) /\ FoundIn(disk, s)
      BY <1>5, <1>7, <3>1, ScanKept, ScanFound DEF DownGood
    <3> QED BY <2>2, <3>2 DEF ScanGood
  <2> QED BY <2>1, <2>2
<1> HIDE DEF s, slot
<1> DEFINE m1 == s.m
<1>9. After(m1) /\ state' # "start"
  BY <1>1 DEF Entered
<1> HIDE DEF m1
<1>10. (lost => lost') /\ (fatlost => fatlost')
  BY <1>2, <1>8, <1>9, LostKept DEF m, m1
<1>11. CASE s.state = "found" /\ ~(write /\ s.entry.kind = "dir")
  <2>1. openfiles' = [openfiles EXCEPT ![slot] = file]
    BY <1>1, <1>11, Zenon DEF Entered, slot
  <2>2. IsEntry(disk, s.entry)
    BY <1>8, <1>11 DEF FoundIn
  <2> DEFINE e == s.entry
             gone == lost'
  <2> HIDE DEF e, gone
  <2>3. ~file.isdir => /\ SizeFits(disk, Volume(disk), file)
                       /\ PlaceAt(disk, Volume(disk), gone, file, file.fileoffset)
    BY <1>2, <1>6, <2>2, FileOpened DEF e
  <2> HIDE DEF file
  <2>4. Placed(disk, bpb, lost', fatlost', file)
    BY <1>6, <2>3, Zenon DEF Placed, gone
  <2>5. \A fd \in Fds : openfiles'[fd] = openfiles[fd] \/ openfiles'[fd] = file
    BY <1>2, <2>1 DEF CachesInv
  <2>6. \A fd \in Fds : openfiles'[fd] = openfiles[fd] \/ Placed(disk, bpb, lost', fatlost', openfiles'[fd])
    BY <2>4, <2>5, Zenon
  <2> QED BY <1>1, <1>2, <1>9, <1>10, <2>6, PlacesKept
<1>12. CASE ~(s.state = "found" /\ ~(write /\ s.entry.kind = "dir"))
  <2>1. openfiles' = openfiles
    BY <1>1, <1>12, Zenon DEF Entered
  <2>2. \A fd \in Fds : openfiles'[fd] = openfiles[fd] \/ Placed(disk, bpb, lost', fatlost', openfiles'[fd])
    BY <2>1, Zenon
  <2> QED BY <1>1, <1>2, <1>9, <1>10, <2>2, PlacesKept
<1> QED BY <1>11, <1>12

(* What a call does not change of an open file.                            *)
SameFile(file, new) ==
  /\ new.path = file.path /\ new.isdir = file.isdir
  /\ new.fatfile.firstcluster = file.fatfile.firstcluster

LEMMA HeadSame ==
  ASSUME NEW file, FileGood(file), NEW count
  PROVE  SameFile(file, HeadBytes(file, count).file)
<1> DEFINE h == HeadBytes(file, count)
           n == Smaller(count, SECTOR_SIZE - file.cacheoffset)
           at == IF file.cacheoffset + n = SECTOR_SIZE THEN -1 ELSE file.cacheoffset + n
<1>1. h.file = file \/ h.file = [file EXCEPT !.cacheoffset = at]
  <2>1. \/ h = [file |-> file, count |-> count, data |-> <<>>]
        \/ h = [file |-> [file EXCEPT !.cacheoffset = at], count |-> count - n,
                data |-> Bytes(file.cache, file.cacheoffset, n)]
    BY DEF HeadBytes
  <2> HIDE DEF h, n, at
  <2> QED BY <2>1
<1> HIDE DEF h, n, at
<1>2. SameFile(file, h.file)
  BY <1>1 DEF SameFile, FileGood, FdFields
<1> QED BY <1>2 DEF h

LEMMA MiddleSame ==
  ASSUME NEW m0, NEW m, CachesOf(m0, m, bpb), VolumeTyped(bpb), FatTyped(disk),
         NEW h, FileGood(h.file), h.count \in Nat
  PROVE  SameFile(h.file, Middle(m, h).file)
<1> DEFINE n == h.count \div SECTOR_SIZE
           none == [i \in 1 .. n |-> NoSector]
           f == h.file.fatfile
           r == fat_readwrite(disk, m, bpb, f, n, none)
           s == Middle(m, h)
           new == [h.file EXCEPT !.fatfile = r.f, !.cacheoffset = -1]
           got == [b \in 1 .. Smaller(r.rc, n) * SECTOR_SIZE |->
                     <<r.buf[((b - 1) \div SECTOR_SIZE) + 1], (b - 1) % SECTOR_SIZE>>]
<1>1. n \in Nat
  BY Sizes
<1>2. FileTyped(f) /\ f.firstcluster \in Int
  BY DEF FileGood
<1>3. r.f.firstcluster = f.firstcluster
  <2> HIDE DEF n, f, none, r
  <2>1. r = fat_readwrite(disk, m, bpb, f, n, none)
    BY DEF r
  <2> QED BY <1>1, <1>2, <2>1, ReadwriteKept
<1>4. s.file = h.file \/ s.file = new
  <2>1. CASE n = 0
    <3>1. s = [m |-> m, file |-> h.file, count |-> h.count, data |-> h.data, over |-> FALSE]
      BY <2>1 DEF Middle
    <3> QED BY <3>1
  <2>2. CASE n # 0
    <3>1. s = Wholes(h, n, r)
      BY <2>2 DEF Middle
    <3> HIDE DEF r, n
    <3> DEFINE c == IF r.rc < n THEN 0 ELSE h.count - n * SECTOR_SIZE
    <3>2. \/ s = [m |-> r.m, file |-> new, count |-> 0, data |-> h.data, over |-> TRUE]
          \/ s = [m |-> r.m, file |-> new, data |-> h.data \o got, over |-> FALSE, count |-> c]
      BY <3>1, Zenon DEF Wholes
    <3> HIDE DEF s, new, got, c
    <3> QED BY <3>2
  <2> QED BY <2>1, <2>2
<1> HIDE DEF s, r
<1>5. new.fatfile = r.f /\ new.path = h.file.path /\ new.isdir = h.file.isdir
  BY DEF FileGood, FdFields
<1> HIDE DEF new
<1>6. SameFile(h.file, s.file)
  BY <1>3, <1>4, <1>5 DEF SameFile
<1> QED BY <1>6 DEF s

LEMMA TailSame ==
  ASSUME NEW m0, NEW s, CachesOf(m0, s.m, bpb), VolumeTyped(bpb), FatTyped(disk),
         FileGood(s.file), MiddleFields \subseteq DOMAIN s
  PROVE  SameFile(s.file, TailBytes(s).file)
<1> DEFINE old == <<s.file.cache>>
           f == s.file.fatfile
           r == fat_readwrite(disk, s.m, bpb, f, 1, old)
           t == TailBytes(s)
           got == [s.file EXCEPT !.fatfile = r.f, !.cache = r.buf[1]]
           part == Bytes(r.buf[1], 0, s.count)
           new(c) == [got EXCEPT !.cacheoffset = c]
<1>1. FileTyped(f) /\ f.firstcluster \in Int
  BY DEF FileGood
<1>2. r.f.firstcluster = f.firstcluster
  <2> HIDE DEF f, old, r
  <2>1. r = fat_readwrite(disk, s.m, bpb, f, 1, old)
    BY DEF r
  <2> QED BY <1>1, <2>1, ReadwriteKept
<1>3. t = s \/ t = FromCache(s, r)
  BY DEF TailBytes
<1> HIDE DEF r, t
<1>4. t.file = s.file \/ \E c : t.file = new(c)
  <2>1. CASE t = FromCache(s, r)
    <3>1. CASE r.rc < 1
      <4>1. t = [s EXCEPT !.m = r.m, !.over = TRUE, !.file = new(-1)]
        BY <2>1, <3>1, Zenon DEF FromCache
      <4>2. t.file = new(-1)
        BY <4>1 DEF MiddleFields
      <4> QED BY <4>2
    <3>2. CASE ~(r.rc < 1)
      <4> DEFINE there == new(s.count)
      <4>1. t = [s EXCEPT !.m = r.m, !.file = there, !.data = @ \o part]
        BY <2>1, <3>2, Zenon DEF FromCache
      <4> HIDE DEF there, part
      <4>2. t.file = there
        BY <4>1 DEF MiddleFields
      <4> QED BY <4>2 DEF there
    <3> QED BY <3>1, <3>2
  <2> QED BY <1>3, <2>1
<1>5. got.fatfile = r.f /\ got.path = s.file.path /\ got.isdir = s.file.isdir /\ DOMAIN got = DOMAIN s.file
  BY DEF FileGood, FdFields
<1> HIDE DEF got
<1>6. \A c : new(c).fatfile = r.f /\ new(c).path = s.file.path /\ new(c).isdir = s.file.isdir
  BY <1>5 DEF FileGood, FdFields
<1> HIDE DEF new
<1>7. SameFile(s.file, t.file)
  BY <1>2, <1>4, <1>6 DEF SameFile
<1> QED BY <1>7 DEF t

(* What a read hands on at its end.                                        *)
ReadEnds(file, asked, m, t) ==
  /\ CachesOf(m, t.m, bpb) /\ FileGood(t.file) /\ t.file.size = file.size
  /\ t.file.fileoffset = file.fileoffset /\ SameFile(file, t.file)
  /\ t.m.fatlost \/ TailRightAt(disk, bpb, file, t, Left(file, asked))

LEMMA ReadEnded ==
  ASSUME NEW m, CachesOf(m, m, bpb), VolumeFits(disk, bpb), NEW file, FileGood(file),
         SizeFits(disk, bpb, file), m.fatlost \/ PlaceAt(disk, bpb, m.lost, file, file.fileoffset),
         NEW asked \in Nat
  PROVE  ReadEnds(file, asked, m, TailBytes(Middle(m, HeadBytes(file, Left(file, asked)))))
<1> DEFINE count == Left(file, asked)
           h == HeadBytes(file, count)
           s == Middle(m, h)
           t == TailBytes(s)
<1>1. VolumeTyped(bpb) /\ FatTyped(disk)
  BY DEF VolumeFits
<1>2. count \in Nat /\ file.fileoffset + count <= file.size
  BY DEF FileGood, Left, Smaller
<1> HIDE DEF count
<1>3. PartGood(file, h, count) /\ SameFile(file, h.file)
  BY <1>2, HeadKept, HeadSame
<1>4. m.fatlost \/ PartRight(disk, bpb, m.lost, file, h, count)
  BY <1>2, HeadRight
<1> HIDE DEF h
<1>5. /\ PartGood(file, s, count) /\ CachesOf(m, s.m, bpb) /\ s.count \in 0 .. SECTOR_SIZE - 1
      /\ MiddleFields \subseteq DOMAIN s
  BY <1>1, <1>2, <1>3, MiddleKept
<1>6. SameFile(h.file, s.file)
  BY <1>1, <1>3, MiddleSame DEF PartGood
<1>7. s.m.fatlost \/ (PartRight(disk, bpb, s.m.lost, file, s, count) /\ ~s.over)
  <2>1. CASE m.fatlost
    BY <1>5, <2>1 DEF CachesOf, Kept
  <2>2. CASE ~m.fatlost
    BY <1>2, <1>4, <2>2, MiddleRight
  <2> QED BY <2>1, <2>2
<1> HIDE DEF s
<1>8. CachesOf(m, t.m, bpb) /\ ReadGood(file, t, count)
  BY <1>1, <1>2, <1>5, TailKept
<1>9. SameFile(s.file, t.file)
  BY <1>1, <1>5, TailSame DEF PartGood
<1>10. CachesOf(s.m, t.m, bpb)
  <2>1. CachesOf(s.m, s.m, bpb)
    BY <1>5, KeptAll DEF CachesOf
  <2> QED BY <1>1, <1>2, <1>5, <2>1, TailKept
<1>11. t.m.fatlost \/ TailRightAt(disk, bpb, file, t, count)
  <2>1. CASE s.m.fatlost
    BY <1>10, <2>1 DEF CachesOf, Kept
  <2>2. CASE ~s.m.fatlost
    BY <1>2, <1>5, <1>7, <2>2, TailRight
  <2> QED BY <2>1, <2>2
<1> HIDE DEF t
<1>12. SameFile(file, t.file)
  BY <1>3, <1>6, <1>9 DEF SameFile
<1>13. FileGood(t.file) /\ t.file.size = file.size /\ t.file.fileoffset = file.fileoffset
  BY <1>8 DEF ReadGood
<1>14. ReadEnds(file, asked, m, t)
  BY <1>8, <1>11, <1>12, <1>13 DEF ReadEnds, count
<1> QED BY <1>14 DEF t, s, h, count

(* What a read of file fd, asked for some bytes, has done.                 *)
ReadCame(fd, asked) ==
  LET file == openfiles[fd]
      new == openfiles'[fd]
      n == Left(file, asked)
  IN  /\ LostGrows
      /\ io'.op = "read" /\ io'.fd = fd /\ io'.asked = asked /\ io'.pos = file.fileoffset
      /\ SameFile(file, new) /\ new.size = file.size
      /\ ~fatlost' => /\ IsSeq(io'.data) /\ Len(io'.data) = n /\ io'.ret = n
                      /\ new.fileoffset = file.fileoffset + n
      /\ ~fatlost' /\ ~lost' =>
           HasBytes(disk, file.fatfile.firstcluster, file.fileoffset, io'.data)

LEMMA ReadPlaces ==
  ASSUME PlacesInv, NEW fd \in Fds, NEW asked \in Nat, NEW bad, Read(fd, asked, bad)
  PROVE  PlacesInv' /\ ReadCame(fd, asked)
<1> DEFINE file == openfiles[fd]
           m == Before(bad)
           count == Left(file, asked)
           t == TailBytes(Middle(m, HeadBytes(file, count)))
           n == Len(t.data)
           g == t.file
           m1 == t.m
           new == [g EXCEPT !.fileoffset = g.fileoffset + n]
           ret == IF t.over /\ n = 0 THEN -1 ELSE n
           pos == file.fileoffset
           data == t.data
<1>1. medium' = medium /\ bpb' = bpb /\ state' = state /\ state = "run" /\ file.busy /\ ~file.isdir
  BY Zenon DEF Read
<1>2. /\ openfiles' = [openfiles EXCEPT ![fd] = new] /\ After(m1)
      /\ io' = [op |-> "read", fd |-> fd, pos |-> pos, asked |-> asked, data |-> data, ret |-> ret]
  <2>1. Returned(fd, asked, t)
    BY Zenon DEF Read
  <2> HIDE DEF t
  <2>2. After(m1) /\ io' = [op |-> "read", fd |-> fd, pos |-> pos, asked |-> asked, data |-> data, ret |-> ret]
    BY <2>1, Zenon DEF Returned
  <2>3. openfiles' = [openfiles EXCEPT ![fd] = new]
    BY <2>1, Zenon DEF Returned
  <2> QED BY <2>2, <2>3
<1>3. CachesInv /\ CachesInv'
  BY ReadFileKept DEF PlacesInv
<1>4. FileGood(file) /\ VolumeFits(disk, bpb) /\ Placed(disk, bpb, lost, fatlost, file)
  BY <1>1, FilesMounted
<1>5. CachesOf(m, m, bpb) /\ (m.lost <=> lost) /\ (m.fatlost <=> fatlost)
  <2>1. CachesOf(m, m, bpb)
    BY <1>3, BeforeGood
  <2>2. m.lost = lost /\ m.fatlost = fatlost
    BY DEF Before
  <2> HIDE DEF m
  <2> QED BY <2>1, <2>2, Zenon
<1>6. SizeFits(disk, bpb, file) /\ (m.fatlost \/ PlaceAt(disk, bpb, m.lost, file, file.fileoffset))
  <2>1. SizeFits(disk, bpb, file) /\ (fatlost \/ PlaceAt(disk, bpb, lost, file, file.fileoffset))
    BY <1>1, <1>4, Zenon DEF Placed
  <2> HIDE DEF file, m
  <2>2. PlaceAt(disk, bpb, lost, file, file.fileoffset) => PlaceAt(disk, bpb, m.lost, file, file.fileoffset)
    BY <1>5, PlaceKept
  <2> QED BY <1>5, <2>1, <2>2
<1>7. ReadEnds(file, asked, m, t)
  <2> HIDE DEF file, m
  <2> QED BY <1>4, <1>5, <1>6, ReadEnded
<1> HIDE DEF m, t
<1>8. (lost => lost') /\ (fatlost => fatlost') /\ (m1.lost <=> lost') /\ (m1.fatlost <=> fatlost')
  <2>1. CachesOf(m, m1, bpb)
    BY <1>7 DEF ReadEnds
  <2> HIDE DEF m1
  <2>2. (lost => lost') /\ (fatlost => fatlost')
    BY <1>2, <1>3, <2>1, LostKept DEF m
  <2>3. (m1.lost <=> lost') /\ (m1.fatlost <=> fatlost')
    BY <1>2, Zenon DEF After
  <2> QED BY <2>2, <2>3
<1>20. LostGrows
  <2>1. CachesOf(m, m1, bpb)
    BY <1>7 DEF ReadEnds
  <2> HIDE DEF m1
  <2> QED BY <1>2, <1>3, <2>1, LostKept, Zenon DEF m, LostGrows
<1>9. /\ new.size = g.size /\ new.fileoffset = g.fileoffset + n /\ new.cacheoffset = g.cacheoffset
      /\ new.cache = g.cache /\ new.fatfile = g.fatfile /\ new.path = g.path
      /\ new.isdir = g.isdir
  <2>1. FileGood(g)
    BY <1>7 DEF ReadEnds
  <2> HIDE DEF g, n
  <2> QED BY <2>1 DEF FileGood, FdFields
<1>10. g.size = file.size /\ g.fileoffset = pos /\ SameFile(file, g)
       /\ (fatlost' \/ TailRightAt(disk, bpb, file, t, count))
  <2>1. g.size = file.size /\ g.fileoffset = pos /\ SameFile(file, g)
        /\ (m1.fatlost \/ TailRightAt(disk, bpb, file, t, count))
    BY <1>7 DEF ReadEnds
  <2> HIDE DEF g, m1
  <2> QED BY <1>8, <2>1
<1> DEFINE gone == lost'
           fatgone == fatlost'
           first == file.fatfile.firstcluster
<1>11. fatgone \/ /\ IsSeq(data) /\ n = count /\ ~t.over /\ PlaceAt(disk, bpb, gone, g, pos + count)
                  /\ gone \/ HasBytes(disk, first, pos, data)
  <2>1. ASSUME TailRightAt(disk, bpb, file, t, count)
        PROVE  /\ IsSeq(data) /\ n = count /\ ~t.over /\ PlaceAt(disk, bpb, m1.lost, g, pos + count)
               /\ m1.lost \/ HasBytes(disk, first, pos, data)
    BY <2>1 DEF TailRightAt
  <2> HIDE DEF m1, g, n, data, first, pos, count
  <2>2. PlaceAt(disk, bpb, m1.lost, g, pos + count) => PlaceAt(disk, bpb, gone, g, pos + count)
    BY <1>8, PlaceKept
  <2> QED BY <1>8, <1>10, <2>1, <2>2
<1> HIDE DEF gone, fatgone, g, n, m1, new, first, pos, data, count
<1>12. SizeFits(disk, bpb, new) /\ SameFile(file, new) /\ new.size = file.size
  BY <1>6, <1>9, <1>10 DEF SameFile, SizeFits
<1>13. fatgone \/ (PlaceAt(disk, bpb, gone, new, new.fileoffset) /\ new.fileoffset = pos + count)
  BY <1>9, <1>10, <1>11 DEF PlaceAt
<1>14. Placed(disk, bpb, gone, fatgone, new)
  BY <1>12, <1>13, Zenon DEF Placed
<1>15. PlacesInv'
  <2>1. \A x \in Fds : openfiles'[x] = openfiles[x] \/ openfiles'[x] = new
    BY <1>2, <1>3 DEF CachesInv
  <2>2. \A x \in Fds : openfiles'[x] = openfiles[x] \/ Placed(disk, bpb, lost', fatlost', openfiles'[x])
    BY <1>14, <2>1, Zenon DEF gone, fatgone
  <2>3. state' # "start"
    BY <1>1
  <2> QED BY <1>1, <1>3, <1>8, <2>2, <2>3, PlacesKept
<1>16. openfiles'[fd] = new
  BY <1>2, <1>3 DEF CachesInv
<1>17. /\ io'.op = "read" /\ io'.fd = fd /\ io'.asked = asked /\ io'.pos = pos
       /\ io'.data = data /\ io'.ret = ret
  <2> HIDE DEF ret
  <2> QED BY <1>2
<1>18. ~t.over => ret = n
  OBVIOUS
<1> HIDE DEF ret
<1>19. ReadCame(fd, asked)
  <2>1. ~fatgone => IsSeq(data) /\ Len(data) = count /\ ret = count
    BY <1>11, <1>18 DEF n, data
  <2> QED BY <1>11, <1>12, <1>13, <1>16, <1>17, <1>20, <2>1 DEF ReadCame, gone, fatgone, first, pos, count
<1> QED BY <1>15, <1>19

(* Where the sector of a place in the file is.                             *)
LEMMA SectorReached ==
  ASSUME NEW pos \in Nat, NEW size \in Nat, pos <= size, NEW len \in Nat, size <= len * SECTOR_SIZE
  PROVE  /\ pos \div SECTOR_SIZE \in 0 .. len
         /\ pos % SECTOR_SIZE # 0 => pos \div SECTOR_SIZE < len
<1> DEFINE SS == SECTOR_SIZE
           k == pos \div SS
           in == pos % SS
           K == k * SS
<1>1. SS \in Nat \ {0}
  BY Sizes
<1> HIDE DEF SS
<1>2. k \in Nat /\ K \in Nat /\ in \in 0 .. SS - 1 /\ pos = K + in
  BY <1>1, Division
<1>3. CASE in = 0
  <2>1. SUFFICES ASSUME k >= len + 1 PROVE FALSE
    BY <1>2, <1>3 DEF SS
  <2>2. K >= (len + 1) * SS /\ (len + 1) * SS = len * SS + SS /\ len * SS \in Nat
    BY <1>1, <1>2, <2>1
  <2>3. pos = K /\ size <= len * SS
    <3> HIDE DEF K, in
    <3> QED BY <1>2, <1>3 DEF SS
  <2> DEFINE L == len * SS
             L1 == (len + 1) * SS
  <2> HIDE DEF K, L, L1
  <2>4. pos >= L + SS /\ size <= L /\ L \in Nat
    BY <2>2, <2>3 DEF L, L1
  <2> QED BY <1>1, <2>4
<1>4. CASE in # 0
  <2>1. k * SECTOR_SIZE + in <= size /\ in \in Nat \ {0}
    BY <1>1, <1>2, <1>4 DEF SS
  <2> HIDE DEF k, in
  <2>2. k < len
    BY <1>2, <2>1, SectorLeft
  <2> QED BY <1>2, <2>2 DEF k, SS
<1> QED BY <1>3, <1>4

Going(m, file, to) ==
  IF to # file.fileoffset \div SECTOR_SIZE THEN fat_seek(disk, m, bpb, file.fatfile, to)
  ELSE [m |-> m, f |-> file.fatfile, rc |-> 0]

(* A seek in the chain leaves the file before the sector of the place,     *)
(* unless it had been there, or the FAT could not be read.                 *)
LEMMA GoingRight ==
  ASSUME NEW m, CachesOf(m, m, bpb), VolumeFits(disk, bpb), NEW file, FileGood(file),
         SizeFits(disk, bpb, file), m.fatlost \/ PlaceAt(disk, bpb, m.lost, file, file.fileoffset),
         NEW pos \in Nat, pos <= file.size, Moved(file, pos)
  PROVE  LET k == Going(m, file, pos \div SECTOR_SIZE)
         IN  /\ CachesOf(m, k.m, bpb) /\ FileTyped(k.f)
             /\ k.f.firstcluster = file.fatfile.firstcluster
             /\ k.m.fatlost \/ (k.rc = 0 /\ FileAt(disk, bpb, pos \div SECTOR_SIZE, k.f))
<1> DEFINE SS == SECTOR_SIZE
           to == pos \div SS
           f == file.fatfile
           first == f.firstcluster
           a == file.fileoffset
           size == file.size
           len == Len(disk.chains[first].sectors)
           k == Going(m, file, to)
           k0 == IF file.cacheoffset = -1 THEN a \div SS ELSE (a \div SS) + 1
<1>1. VolumeTyped(bpb) /\ FatTyped(disk)
  BY DEF VolumeFits
<1>2. FileTyped(f) /\ first \in Nat /\ size \in Nat /\ a \in Nat /\ a <= size /\ SS \in Nat \ {0}
  BY Sizes DEF FileGood
<1>3. size # 0
  <2>1. SUFFICES ASSUME size = 0 PROVE FALSE
    OBVIOUS
  <2>2. pos = a /\ pos % SS = 0
    BY <1>2, <2>1
  <2> QED BY <2>2 DEF Moved
<1>4. ChainOf(disk, bpb, first) /\ size <= len * SS /\ len \in Nat
  <2>1. ChainOf(disk, bpb, first) /\ size <= len * SS
    BY <1>3 DEF SizeFits
  <2> QED BY <2>1 DEF ChainOf
<1>5. to \in 0 .. len /\ a \div SS \in 0 .. len
  <2> HIDE DEF first, a, size, len
  <2> QED BY <1>2, <1>4, SectorReached DEF size
<1>6. CASE to # a \div SS
  <2>1. k = fat_seek(disk, m, bpb, f, to)
    BY <1>6 DEF Going
  <2> HIDE DEF k, f, to
  <2>2. CachesOf(m, k.m, bpb) /\ FileTyped(k.f) /\ k.f.firstcluster = first
    <3>1. to \in Nat
      BY <1>5
    <3>2. CachesOf(m, fat_seek(disk, m, bpb, f, to).m, bpb)
      BY <1>1, <1>2, <3>1, SeekKept
    <3>3. FileTyped(fat_seek(disk, m, bpb, f, to).f)
      BY <1>1, <1>2, <3>1, SeekKept
    <3>4. fat_seek(disk, m, bpb, f, to).f.firstcluster = f.firstcluster
      BY <1>1, <1>2, <3>1, SeekKept
    <3> QED BY <2>1, <3>2, <3>3, <3>4
  <2>3. k.m.fatlost \/ (k.rc = 0 /\ FileAt(disk, bpb, to, k.f))
    <3>1. CASE to = 0
      BY <1>2, <2>1, <3>1, SeekFirst
    <3>2. CASE m.fatlost
      BY <2>2, <3>2 DEF CachesOf, Kept
    <3>3. CASE to # 0 /\ ~m.fatlost
      <4>1. k0 \in 0 .. len /\ FileAt(disk, bpb, k0, f)
        BY <1>5, <3>3 DEF PlaceAt, f
      <4> HIDE DEF k0
      <4>2. to \in 1 .. len
        BY <1>5, <3>3
      <4> QED BY <1>2, <1>4, <2>1, <4>1, <4>2, SeekRight
    <3> QED BY <3>1, <3>2, <3>3
  <2> QED BY <2>2, <2>3 DEF k, to, f
<1>7. CASE to = a \div SS
  <2>1. k = [m |-> m, f |-> f, rc |-> 0]
    BY <1>7 DEF Going
  <2>2. k.m = m /\ k.f = f /\ k.rc = 0
    BY <2>1
  <2>3. file.cacheoffset = -1
    BY <1>7 DEF Moved
  <2>4. m.fatlost \/ FileAt(disk, bpb, to, f)
    BY <1>7, <2>3 DEF PlaceAt
  <2> HIDE DEF k
  <2> QED BY <1>2, <2>2, <2>4 DEF k
<1> QED BY <1>6, <1>7

(* A file with what a seek found is at the place.                          *)
Reaching(file, pos, r, new) ==
  LET in == pos % SECTOR_SIZE
  IN  /\ new.fatfile = r.f /\ new.cache = r.buf[1]
      /\ new.cacheoffset = IF in = 0 THEN -1 ELSE in

SeekEnds(m, file, pos, r) ==
  /\ CachesOf(m, r.m, bpb) /\ r.f.firstcluster = file.fatfile.firstcluster
  /\ r.m.fatlost \/ /\ ~(r.rc < 0)
                    /\ \A new : Reaching(file, pos, r, new) => PlaceAt(disk, bpb, r.m.lost, new, pos)

LEMMA SeekEnded ==
  ASSUME NEW m, CachesOf(m, m, bpb), VolumeFits(disk, bpb), NEW file, FileGood(file),
         SizeFits(disk, bpb, file), m.fatlost \/ PlaceAt(disk, bpb, m.lost, file, file.fileoffset),
         NEW pos \in Nat, pos <= file.size, Moved(file, pos)
  PROVE  SeekEnds(m, file, pos, Found(file, pos, Going(m, file, pos \div SECTOR_SIZE)))
<1> DEFINE SS == SECTOR_SIZE
           to == pos \div SS
           in == pos % SS
           first == file.fatfile.firstcluster
           size == file.size
           len == Len(disk.chains[first].sectors)
           k == Going(m, file, to)
           old == <<file.cache>>
           r == Found(file, pos, k)
<1>1. VolumeTyped(bpb) /\ FatTyped(disk)
  BY DEF VolumeFits
<1>2. /\ CachesOf(m, k.m, bpb) /\ FileTyped(k.f) /\ k.f.firstcluster = first
      /\ k.m.fatlost \/ (k.rc = 0 /\ FileAt(disk, bpb, to, k.f))
  BY GoingRight
<1> HIDE DEF k
<1>3. first \in Nat /\ size \in Nat /\ SS \in Nat \ {0} /\ to \in Nat
  BY Sizes DEF FileGood
<1>4. CASE in # 0 /\ k.rc = 0
  <2>1. r = fat_readwrite(disk, k.m, bpb, k.f, 1, old)
    BY <1>4 DEF Found
  <2> HIDE DEF r
  <2>2. DOMAIN old = 1 .. 1 /\ 1 \in Nat
    OBVIOUS
  <2> HIDE DEF old, in, to
  <2>3. CachesOf(m, r.m, bpb) /\ r.f.firstcluster = first /\ CachesOf(k.m, r.m, bpb)
    <3>1. CachesOf(k.m, k.m, bpb)
      BY <1>2, KeptAll DEF CachesOf
    <3>2. k.f.firstcluster \in Int
      BY <1>2, <1>3
    <3> HIDE DEF first
    <3>3. CachesOf(m, r.m, bpb) /\ r.f.firstcluster = k.f.firstcluster
      BY <1>1, <1>2, <2>1, <2>2, <3>2, ReadwriteKept
    <3>4. CachesOf(k.m, r.m, bpb)
      BY <1>1, <1>2, <2>1, <2>2, <3>1, <3>2, ReadwriteKept
    <3> QED BY <1>2, <3>3, <3>4
  <2>4. SUFFICES ASSUME ~r.m.fatlost
                 PROVE  /\ ~(r.rc < 0)
                        /\ \A new : Reaching(file, pos, r, new) => PlaceAt(disk, bpb, r.m.lost, new, pos)
    BY <2>3 DEF SeekEnds, r, k, to
  <2>5. ~k.m.fatlost
    BY <2>3, <2>4 DEF CachesOf, Kept
  <2>6. k.rc = 0 /\ FileAt(disk, bpb, to, k.f)
    BY <1>2, <2>5
  <2>7. size # 0
    <3>1. SUFFICES ASSUME size = 0 PROVE FALSE
      OBVIOUS
    <3>2. pos = 0 /\ pos % SS = 0
      BY <1>3, <3>1
    <3> QED BY <1>4, <3>2 DEF in
  <2>8. ChainOf(disk, bpb, first) /\ size <= len * SS /\ len \in Nat
    <3>1. ChainOf(disk, bpb, first) /\ size <= len * SS
      BY <2>7 DEF SizeFits
    <3> QED BY <3>1 DEF ChainOf
  <2>9. to < len
    <3> HIDE DEF len
    <3> QED BY <1>3, <1>4, <2>8, SectorReached DEF size, in, to
  <2>10. ReadTo(disk, bpb, k.f, to, 1, r)
    <3>1. ChainOf(disk, bpb, k.f.firstcluster) /\ to + 1 <= Len(disk.chains[k.f.firstcluster].sectors)
      BY <1>2, <1>3, <2>8, <2>9
    <3> QED BY <1>2, <1>3, <2>1, <2>2, <2>4, <2>6, <3>1, ReadwriteRight
  <2>11. /\ r.rc = 1 /\ FileAt(disk, bpb, to + 1, r.f)
         /\ r.m.lost \/ r.buf[1] = Sec(disk, first, to + 1)
    BY <1>2, <2>10 DEF ReadTo, HaveRead
  <2>12. ASSUME NEW new, Reaching(file, pos, r, new) PROVE PlaceAt(disk, bpb, r.m.lost, new, pos)
    <3>1. new.fatfile = r.f /\ new.cache = r.buf[1] /\ new.cacheoffset = in
      BY <1>4, <2>12 DEF Reaching, in
    <3>2. in # -1
      BY <1>3 DEF in
    <3> QED BY <2>3, <2>9, <2>11, <3>1, <3>2 DEF PlaceAt, in, to
  <2> QED BY <2>11, <2>12
<1>5. CASE ~(in # 0 /\ k.rc = 0)
  <2>1. r = [m |-> k.m, f |-> k.f, rc |-> k.rc, buf |-> old]
    BY <1>5, Zenon DEF Found
  <2>2. r.m = k.m /\ r.f = k.f /\ r.rc = k.rc
    BY <2>1
  <2> HIDE DEF r, old
  <2>3. ASSUME ~k.m.fatlost, NEW new, Reaching(file, pos, r, new)
        PROVE  PlaceAt(disk, bpb, r.m.lost, new, pos)
    <3>1. in = 0 /\ FileAt(disk, bpb, to, k.f)
      BY <1>2, <1>5, <2>3
    <3>2. new.fatfile = k.f /\ new.cacheoffset = -1
      BY <2>2, <2>3, <3>1 DEF Reaching
    <3> QED BY <3>1, <3>2 DEF PlaceAt
  <2>4. ~k.m.fatlost => ~(r.rc < 0)
    BY <1>2, <2>2
  <2> QED BY <1>2, <2>2, <2>3, <2>4 DEF SeekEnds, r, k, to
<1> QED BY <1>4, <1>5

LEMMA SoughtKept ==
  ASSUME NEW m, CachesOf(m, m, bpb), VolumeTyped(bpb), FatTyped(disk),
         NEW file, FileGood(file), NEW pos \in Nat
  PROVE  LET r == Found(file, pos, Going(m, file, pos \div SECTOR_SIZE))
         IN  CachesOf(m, r.m, bpb) /\ r.f.firstcluster = file.fatfile.firstcluster
<1> DEFINE to == pos \div SECTOR_SIZE
           f == file.fatfile
           k == Going(m, file, to)
           old == <<file.cache>>
           r == Found(file, pos, k)
<1>1. FileTyped(f) /\ f.firstcluster \in Nat /\ f.firstcluster \in Int /\ to \in Nat
  BY Sizes DEF FileGood
<1> HIDE DEF to
<1>2. CachesOf(m, k.m, bpb) /\ FileTyped(k.f) /\ k.f.firstcluster = f.firstcluster
  <2>1. CASE k = fat_seek(disk, m, bpb, f, to)
    <3> HIDE DEF k, f
    <3>1. CachesOf(m, fat_seek(disk, m, bpb, f, to).m, bpb)
      BY <1>1, SeekKept
    <3>2. FileTyped(fat_seek(disk, m, bpb, f, to).f)
      BY <1>1, SeekKept
    <3>3. fat_seek(disk, m, bpb, f, to).f.firstcluster = f.firstcluster
      BY <1>1, SeekKept
    <3> QED BY <2>1, <3>1, <3>2, <3>3
  <2>2. CASE k = [m |-> m, f |-> f, rc |-> 0]
    <3>1. k.m = m /\ k.f = f
      BY <2>2
    <3> HIDE DEF k
    <3> QED BY <1>1, <3>1
  <2> QED BY <2>1, <2>2 DEF Going
<1> HIDE DEF k
<1>3. CASE pos % SECTOR_SIZE # 0 /\ k.rc = 0
  <2>1. r = fat_readwrite(disk, k.m, bpb, k.f, 1, old)
    BY <1>3 DEF Found
  <2> HIDE DEF old, r
  <2>2. k.f.firstcluster \in Int
    BY <1>1, <1>2
  <2>3. CachesOf(m, r.m, bpb) /\ r.f.firstcluster = k.f.firstcluster
    <3> HIDE DEF f
    <3> QED BY <1>2, <2>1, <2>2, ReadwriteKept
  <2> QED BY <1>2, <2>3 DEF r, k, to
<1>4. CASE ~(pos % SECTOR_SIZE # 0 /\ k.rc = 0)
  <2>1. r = [m |-> k.m, f |-> k.f, rc |-> k.rc, buf |-> old]
    BY <1>4, Zenon DEF Found
  <2>2. r.m = k.m /\ r.f = k.f
    BY <2>1
  <2> HIDE DEF r
  <2> QED BY <1>2, <2>2 DEF r, k, to
<1> QED BY <1>3, <1>4

(* What a seek in a file has done.                                         *)
LseekDone ==
  /\ LostGrows
  /\ \A x \in Fds :
       \/ openfiles'[x] = openfiles[x]
       \/ /\ openfiles[x].busy /\ SameFile(openfiles[x], openfiles'[x])
          /\ openfiles'[x].size = openfiles[x].size

LEMMA LseekPlaces ==
  ASSUME PlacesInv, NEW fd \in Fds, NEW offset \in Int,
         NEW whence \in {"SEEK_SET", "SEEK_CUR", "SEEK_END"}, NEW bad,
         Lseek(fd, offset, whence, bad)
  PROVE  PlacesInv' /\ LseekDone
<1> DEFINE file == openfiles[fd]
           pos == Target(file, offset, whence)
           m == Before(bad)
           stays == pos < 0 \/ pos > file.size \/ ~Moved(file, pos)
<1>1. medium' = medium /\ bpb' = bpb /\ state' = state /\ state = "run" /\ file.busy /\ state' # "start"
  <2>1. medium' = medium /\ bpb' = bpb /\ state' = state /\ state = "run" /\ file.busy
    BY Zenon DEF Lseek
  <2> QED BY <2>1
<1>2. IF stays THEN Stays(fd, pos) /\ After(m) ELSE SeekTo(fd, pos, bad)
  BY Zenon DEF Lseek
<1>3. CachesInv /\ CachesInv'
  BY LseekKept DEF PlacesInv
<1>4. FileGood(file) /\ VolumeFits(disk, bpb) /\ Placed(disk, bpb, lost, fatlost, file)
  BY <1>1, FilesMounted
<1>5. CachesOf(m, m, bpb) /\ (m.lost <=> lost) /\ (m.fatlost <=> fatlost)
  <2>1. CachesOf(m, m, bpb)
    BY <1>3, BeforeGood
  <2>2. m.lost = lost /\ m.fatlost = fatlost
    BY DEF Before
  <2> HIDE DEF m
  <2> QED BY <2>1, <2>2, Zenon
<1>6. pos \in Int
  BY <1>4 DEF Target, FileGood
<1> HIDE DEF pos
<1>7. ~file.isdir => SizeFits(disk, bpb, file) /\ (fatlost \/ PlaceAt(disk, bpb, lost, file, file.fileoffset))
  BY <1>1, <1>4, Zenon DEF Placed
<1>8. ASSUME NEW m1, CachesOf(m, m1, bpb), After(m1),
             NEW new, \A x \in Fds : openfiles'[x] = openfiles[x] \/ (x = fd /\ openfiles'[x] = new),
             SameFile(file, new), new.size = file.size,
             ~new.isdir => m1.fatlost \/ PlaceAt(disk, bpb, m1.lost, new, new.fileoffset)
      PROVE  PlacesInv' /\ LseekDone
  <2>1. (lost => lost') /\ (fatlost => fatlost') /\ (m1.lost <=> lost') /\ (m1.fatlost <=> fatlost')
    <3>1. (lost => lost') /\ (fatlost => fatlost')
      BY <1>3, <1>8, LostKept DEF m
    <3>2. (m1.lost <=> lost') /\ (m1.fatlost <=> fatlost')
      BY <1>8, Zenon DEF After
    <3> QED BY <3>1, <3>2
  <2>2. \A x \in Fds : openfiles'[x] = openfiles[x] \/ (x = fd /\ openfiles'[x] = new)
    BY <1>8
  <2>3. new.isdir <=> file.isdir
    BY <1>8, Zenon DEF SameFile
  <2>4. ~file.isdir => SizeFits(disk, bpb, new)
    BY <1>7, <1>8 DEF SizeFits, SameFile
  <2> DEFINE gone == lost'
             fatgone == fatlost'
  <2>5. ~file.isdir => fatgone \/ PlaceAt(disk, bpb, gone, new, new.fileoffset)
    <3> HIDE DEF gone, fatgone
    <3>1. PlaceAt(disk, bpb, m1.lost, new, new.fileoffset) => PlaceAt(disk, bpb, gone, new, new.fileoffset)
      BY <2>1, PlaceKept DEF gone
    <3> QED BY <1>8, <2>1, <2>3, <3>1 DEF fatgone
  <2>6. Placed(disk, bpb, lost', fatlost', new)
    BY <2>3, <2>4, <2>5, Zenon DEF Placed, gone, fatgone
  <2>7. \A x \in Fds : openfiles'[x] = openfiles[x] \/ Placed(disk, bpb, lost', fatlost', openfiles'[x])
    BY <2>2, <2>6, Zenon
  <2>8. PlacesInv'
    BY <1>1, <1>3, <2>1, <2>7, PlacesKept
  <2>a. LostGrows
    BY <1>3, <1>8, LostKept, Zenon DEF m, LostGrows
  <2>9. LseekDone
    <3>1. file.busy /\ SameFile(file, new) /\ new.size = file.size
      BY <1>1, <1>8
    <3> QED BY <2>2, <2>a, <3>1, Zenon DEF LseekDone
  <2> QED BY <2>8, <2>9
<1> HIDE DEF m
<1>9. CASE stays
  <2>1. Stays(fd, pos) /\ After(m)
    BY <1>2, <1>9
  <2>2. CASE pos < 0 \/ pos > file.size
    <3>1. \A x \in Fds : openfiles'[x] = openfiles[x] \/ (x = fd /\ openfiles'[x] = file)
      BY <2>1, <2>2 DEF Stays
    <3>2. SameFile(file, file)
      BY DEF SameFile
    <3> HIDE DEF file
    <3>3. ~file.isdir => m.fatlost \/ PlaceAt(disk, bpb, m.lost, file, file.fileoffset)
      <4>1. PlaceAt(disk, bpb, lost, file, file.fileoffset) => PlaceAt(disk, bpb, m.lost, file, file.fileoffset)
        BY <1>5, PlaceKept
      <4> QED BY <1>5, <1>7, <4>1
    <3> QED BY <1>5, <1>8, <2>1, <3>1, <3>2, <3>3
  <2>3. CASE ~(pos < 0 \/ pos > file.size)
    <3> DEFINE in == pos % SECTOR_SIZE
               at == IF file.cacheoffset = -1 THEN -1 ELSE in
               f1 == [file EXCEPT !.fileoffset = pos]
               new == [f1 EXCEPT !.cacheoffset = at]
    <3>1. openfiles' = [openfiles EXCEPT ![fd].fileoffset = pos,
                                         ![fd].cacheoffset = IF @ = -1 THEN -1 ELSE pos % SECTOR_SIZE]
      BY <2>1, <2>3, Zenon DEF Stays
    <3>2. \A x \in Fds : openfiles'[x] = openfiles[x] \/ (x = fd /\ openfiles'[x] = new)
      BY <1>3, <1>4, <3>1 DEF CachesInv, FileGood, FdFields
    <3> HIDE DEF at
    <3>3. /\ new.size = file.size /\ new.fileoffset = pos /\ new.cacheoffset = at
          /\ new.fatfile = file.fatfile /\ new.cache = file.cache
      BY <1>4 DEF FileGood, FdFields
    <3>4. new.path = file.path /\ new.isdir = file.isdir
      BY <1>4 DEF FileGood, FdFields
    <3> HIDE DEF new
    <3>5. SameFile(file, new)
      BY <3>3, <3>4 DEF SameFile
    <3>6. /\ pos \div SECTOR_SIZE = file.fileoffset \div SECTOR_SIZE
          /\ file.cacheoffset = -1 => in = 0
      BY <1>9, <2>3 DEF Moved
    <3>7. ASSUME PlaceAt(disk, bpb, lost, file, file.fileoffset)
          PROVE  PlaceAt(disk, bpb, m.lost, new, new.fileoffset)
      <4>1. PlaceAt(disk, bpb, m.lost, file, file.fileoffset)
        <5> HIDE DEF file
        <5> QED BY <1>5, <3>7, PlaceKept
      <4>2. CASE file.cacheoffset = -1
        BY <3>3, <3>6, <4>1, <4>2 DEF PlaceAt, at
      <4>3. CASE file.cacheoffset # -1
        <5>1. new.cacheoffset = in /\ in # -1
          <6>1. in \in 0 .. SECTOR_SIZE - 1
            BY <1>6, Sizes
          <6> HIDE DEF in
          <6> QED BY <3>3, <4>3, <6>1 DEF at
        <5> QED BY <3>3, <3>6, <4>1, <4>3, <5>1 DEF PlaceAt
      <4> QED BY <4>2, <4>3
    <3>8. ~new.isdir => m.fatlost \/ PlaceAt(disk, bpb, m.lost, new, new.fileoffset)
      <4>1. new.isdir <=> file.isdir
        BY <3>4, Zenon
      <4> QED BY <1>5, <1>7, <3>7, <4>1
    <3> HIDE DEF file
    <3> QED BY <1>5, <1>8, <2>1, <3>2, <3>3, <3>5, <3>8
  <2> QED BY <2>2, <2>3
<1>10. CASE ~stays
  <2> DEFINE to == pos \div SECTOR_SIZE
             r == Found(file, pos, Going(m, file, to))
             in == pos % SECTOR_SIZE
             at == IF in = 0 THEN -1 ELSE in
             moved == [file EXCEPT !.fatfile = r.f, !.cache = r.buf[1]]
             there == [moved EXCEPT !.fileoffset = pos, !.cacheoffset = at]
             new == IF r.rc < 0 THEN moved ELSE there
             m1 == r.m
  <2>1. pos \in Nat /\ pos <= file.size /\ Moved(file, pos)
    BY <1>4, <1>6, <1>10 DEF FileGood
  <2>2. Reached(fd, pos, r)
    BY <1>2, <1>10, Zenon DEF SeekTo, Going, m
  <2>3. VolumeTyped(bpb) /\ FatTyped(disk)
    BY <1>4 DEF VolumeFits
  <2>4. CachesOf(m, r.m, bpb) /\ r.f.firstcluster = file.fatfile.firstcluster
    <3> HIDE DEF file
    <3> QED BY <1>4, <1>5, <2>1, <2>3, SoughtKept
  <2>5. ~file.isdir => SeekEnds(m, file, pos, r)
    <3> HIDE DEF file
    <3>1. SUFFICES ASSUME ~file.isdir PROVE SeekEnds(m, file, pos, r)
      OBVIOUS
    <3>2. m.fatlost \/ PlaceAt(disk, bpb, m.lost, file, file.fileoffset)
      <4>1. PlaceAt(disk, bpb, lost, file, file.fileoffset) => PlaceAt(disk, bpb, m.lost, file, file.fileoffset)
        BY <1>5, PlaceKept
      <4> QED BY <1>5, <1>7, <3>1, <4>1
    <3> QED BY <1>4, <1>5, <1>7, <2>1, <3>1, <3>2, SeekEnded
  <2> HIDE DEF r
  <2>6. After(m1) /\ openfiles' = [openfiles EXCEPT ![fd] = new]
    BY <2>2, Zenon DEF Reached
  <2>7. /\ moved.size = file.size /\ moved.fatfile = r.f /\ moved.cache = r.buf[1]
        /\ moved.fileoffset = file.fileoffset /\ DOMAIN moved = DOMAIN file
    BY <1>4 DEF FileGood, FdFields
  <2>8. moved.path = file.path /\ moved.isdir = file.isdir
    BY <1>4 DEF FileGood, FdFields
  <2> HIDE DEF moved, at
  <2>9. /\ there.size = file.size /\ there.fatfile = r.f /\ there.cache = r.buf[1]
        /\ there.fileoffset = pos /\ there.cacheoffset = at
    BY <1>4, <2>7 DEF FileGood, FdFields
  <2>10. there.path = file.path /\ there.isdir = file.isdir
    BY <1>4, <2>7, <2>8 DEF FileGood, FdFields
  <2> HIDE DEF there
  <2>11. SameFile(file, new) /\ new.size = file.size
    BY <2>4, <2>7, <2>8, <2>9, <2>10 DEF SameFile
  <2>12. ~new.isdir => m1.fatlost \/ PlaceAt(disk, bpb, m1.lost, new, new.fileoffset)
    <3>1. new.isdir <=> file.isdir
      <4> HIDE DEF new
      <4> QED BY <2>11, Zenon DEF SameFile
    <3>2. SUFFICES ASSUME ~file.isdir, ~m1.fatlost PROVE PlaceAt(disk, bpb, m1.lost, new, new.fileoffset)
      BY <3>1
    <3>3. ~(r.rc < 0) /\ (Reaching(file, pos, r, there) => PlaceAt(disk, bpb, m1.lost, there, pos))
      BY <2>5, <3>2 DEF SeekEnds
    <3>4. Reaching(file, pos, r, there)
      BY <2>9 DEF Reaching, at
    <3>5. ~(r.rc < 0)
      BY <3>3
    <3> QED BY <2>9, <3>3, <3>4, <3>5
  <2> HIDE DEF new, m1, file
  <2>13. CachesOf(m, m1, bpb)
    BY <2>4 DEF m1
  <2>14. \A x \in Fds : openfiles'[x] = openfiles[x] \/ (x = fd /\ openfiles'[x] = new)
    BY <1>3, <2>6 DEF CachesInv
  <2> QED BY <1>8, <2>6, <2>11, <2>12, <2>13, <2>14
<1> QED BY <1>9, <1>10

LEMMA InitPlaces == Init => PlacesInv
<1> SUFFICES ASSUME Init PROVE PlacesInv
  OBVIOUS
<1>1. CachesInv /\ state = "start"
  BY InitGood DEF Init
<1>2. \A fd \in Fds : ~openfiles[fd].busy
  BY <1>1 DEF CachesInv
<1>3. ~bpb.mounted
  BY DEF Init, NotMounted
<1>4. \A fd \in Fds : Placed(disk, bpb, lost, fatlost, openfiles[fd])
  BY <1>2, Zenon DEF Placed
<1> QED BY <1>1, <1>3, <1>4 DEF PlacesInv, VolumeRight

LEMMA NextPlaces == PlacesInv /\ [Next]_vars => PlacesInv'
<1> SUFFICES ASSUME PlacesInv, [Next]_vars PROVE PlacesInv'
  OBVIOUS
<1>1. CASE UNCHANGED vars
  <2>1. CachesInv'
    BY NextGood DEF PlacesInv
  <2>2. disk' = disk /\ bpb' = bpb /\ state' = state /\ openfiles' = openfiles
    BY <1>1 DEF vars, disk
  <2>3. VolumeRight'
    BY <2>2 DEF PlacesInv, VolumeRight
  <2>4. lost' = lost /\ fatlost' = fatlost
    BY <1>1, Zenon DEF vars
  <2>5. \A fd \in Fds : Placed(disk, bpb, lost, fatlost, openfiles[fd])'
    <3> TAKE fd \in Fds
    <3>1. Placed(disk, bpb, lost, fatlost, openfiles[fd])
      BY DEF PlacesInv
    <3>2. Placed(disk', bpb', lost', fatlost', openfiles'[fd])
      BY <2>2, <2>4, <3>1
    <3> QED BY <3>2
  <2> QED BY <2>1, <2>3, <2>5 DEF PlacesInv
<1>2. CASE \E bad \in Bad : Mount(bad)
  BY <1>2, MountPlaces
<1>3. CASE \E o \in Opens, bad \in Bad : Open(o[1], o[2], bad)
  <2>1. PICK o \in Opens, bad \in Bad : Open(o[1], o[2], bad)
    BY <1>3
  <2> DEFINE path == o[1]
             write == o[2]
  <2>2. path \in Seq(STRING) /\ path # <<>> /\ Open(path, write, bad)
    BY <2>1, FileAssumption
  <2> HIDE DEF path, write
  <2> QED BY <2>2, OpenPlaces
<1>4. CASE \E o \in Opens : OpenNone(o[1], o[2]) \/ OpenUnmounted(o[1], o[2])
  BY <1>4, OpenFailedPlaces
<1>5. CASE \E fd \in Fds : Close(fd)
  BY <1>5, ClosePlaces
<1>6. CASE \E fd \in Fds, n \in Counts, bad \in Bad : Read(fd, n, bad)
  <2>1. Counts \subseteq Nat
    BY FileAssumption
  <2> QED BY <1>6, <2>1, ReadPlaces
<1>7. CASE \E fd \in Fds, s \in Seeks, bad \in Bad : Lseek(fd, s[2], s[1], bad)
  <2>1. PICK fd \in Fds, s \in Seeks, bad \in Bad : Lseek(fd, s[2], s[1], bad)
    BY <1>7
  <2> DEFINE whence == s[1]
             offset == s[2]
  <2>2. whence \in {"SEEK_SET", "SEEK_CUR", "SEEK_END"} /\ offset \in Int /\ Lseek(fd, offset, whence, bad)
    BY <2>1, FileAssumption
  <2> HIDE DEF whence, offset
  <2> QED BY <2>2, LseekPlaces
<1> QED BY <1>1, <1>2, <1>3, <1>4, <1>5, <1>6, <1>7 DEF Next

LEMMA NextIsThere ==
  ASSUME NEW file, NEW k \in Nat, FileAt(disk, bpb, k, file.fatfile),
         file.fatfile.firstcluster \in Nat
  PROVE  NextIs(file, k)
<1> DEFINE f == file.fatfile
           first == f.firstcluster
           p == k - 1 + Skipped(bpb, first)
<1>1. Skipped(bpb, first) = 0
  BY DEF Skipped
<1>2. p = k - 1
  BY <1>1
<1> HIDE DEF p
<1>3. ~f.eof
  BY DEF FileAt
<1>4. IF k = 0 THEN f.lastcluster = first /\ f.lastsector = 0 /\ f.clusternum = 0 /\ f.sectornum = 0
      ELSE /\ f.clusternum = p \div bpb.secperclus /\ f.sectornum = (p % bpb.secperclus) + 1
           /\ f.lastcluster = disk.chains[first].clusters[f.clusternum + 1]
           /\ f.lastsector = disk.chains[first].sectors[k] - disk.start
  BY DEF FileAt, Stands, p
<1> QED BY <1>2, <1>3, <1>4 DEF NextIs, Sectors

(* The position of every open file, the sector it has in its cache and     *)
(* where it is in the chain of its clusters agree, whatever was read and   *)
(* sought and whatever sectors of data did not come, as long as no sector  *)
(* of the FAT was lost.                                                    *)
THEOREM PositionsAgree == Spec => []PositionRight
<1>1. PlacesInv => PositionRight
  <2> SUFFICES ASSUME PlacesInv, ~fatlost, NEW fd \in Fds, openfiles[fd].busy, ~openfiles[fd].isdir
               PROVE  LET file == openfiles[fd]
                          k == file.fileoffset \div SECTOR_SIZE
                          in == file.fileoffset % SECTOR_SIZE
                      IN  IF file.cacheoffset = -1 THEN in = 0 /\ NextIs(file, k)
                          ELSE /\ in = file.cacheoffset /\ NextIs(file, k + 1)
                               /\ lost \/ file.cache = Sectors(file.fatfile.firstcluster)[k + 1]
    BY Zenon DEF PositionRight
  <2> DEFINE file == openfiles[fd]
             k == file.fileoffset \div SECTOR_SIZE
  <2>1. FileGood(file) /\ Placed(disk, bpb, lost, fatlost, file)
    BY FilesMounted
  <2>2. PlaceAt(disk, bpb, lost, file, file.fileoffset)
    BY <2>1, Zenon DEF Placed
  <2>3. k \in Nat /\ k + 1 \in Nat /\ file.fatfile.firstcluster \in Nat
    BY <2>1, Sizes DEF FileGood
  <2> HIDE DEF file
  <2>4. CASE file.cacheoffset = -1
    <3>1. file.fileoffset % SECTOR_SIZE = 0 /\ FileAt(disk, bpb, k, file.fatfile)
      BY <2>2, <2>4 DEF PlaceAt
    <3>2. NextIs(file, k)
      BY <2>3, <3>1, NextIsThere
    <3> QED BY <2>4, <3>1, <3>2 DEF file
  <2>5. CASE file.cacheoffset # -1
    <3>1. /\ file.fileoffset % SECTOR_SIZE = file.cacheoffset /\ FileAt(disk, bpb, k + 1, file.fatfile)
          /\ lost \/ file.cache = Sectors(file.fatfile.firstcluster)[k + 1]
      BY <2>2, <2>5 DEF PlaceAt, Sec, Sectors
    <3>2. NextIs(file, k + 1)
      <4> HIDE DEF k
      <4> QED BY <2>3, <3>1, NextIsThere
    <3> QED BY <2>5, <3>1, <3>2 DEF file
  <2> QED BY <2>4, <2>5
<1> QED BY <1>1, InitPlaces, NextPlaces, PTL DEF Spec

-----------------------------------------------------------------------------
(* Directories: which entry a search finds, and which directory a path is. *)

(* Behind the last sector of a chain there is nothing to read.             *)
LEMMA ReadwriteEnds ==
  ASSUME NEW m0, NEW d, NEW v, VolumeFits(d, v), NEW f, FileTyped(f), ChainOf(d, v, f.firstcluster),
         NEW k, k = Len(d.chains[f.firstcluster].sectors), FileAt(d, v, k, f),
         NEW buf, NEW m, CachesOf(m0, m, v)
  PROVE  LET r == fat_readwrite(d, m, v, f, 1, buf)
         IN  r.m.fatlost \/ r.rc <= 0
<1> DEFINE first == f.firstcluster
           r == fat_readwrite(d, m, v, f, 1, buf)
           s == LoopStart(m, f, buf)
           t == Advance(d, v, f, s)
           mid == Flush(d, v, s, t)
           w == Turn(d, v, f, s, 1)
<1>1. PICK loop : IsLoop(loop, d, m, v, f, 1, buf)
                  /\ r = IF f.eof THEN [m |-> m, f |-> f, rc |-> 0, buf |-> buf]
                         ELSE ReadDone(f, loop[1])
  <2>1. 1 \in Nat
    OBVIOUS
  <2> QED BY <2>1, ReadwriteLoop
<1> HIDE DEF r
<1>2. ~f.eof
  BY DEF FileAt
<1>3. r = ReadDone(f, w)
  <2>1. loop[0] = s /\ loop[0 + 1] = Turn(d, v, f, loop[0], 1)
    BY <1>1 DEF IsLoop
  <2> HIDE DEF s
  <2>2. loop[1] = w
    BY <2>1
  <2> HIDE DEF w
  <2> QED BY <1>1, <1>2, <2>2
<1>4. k \in Nat /\ VolumeTyped(v) /\ FatTyped(d) /\ f.firstcluster \in Int
  BY DEF ChainOf, VolumeFits, FileTyped
<1>5. LoopGood(m0, s, v)
  BY LoopStartGood
<1>6. /\ s.cluster = f.lastcluster /\ s.sector = f.lastsector /\ s.i = 0
      /\ s.clusternum = f.clusternum /\ s.numsec = f.sectornum /\ s.err = FALSE
  BY DEF LoopStart
<1>7. LoopAt(d, v, first, k, s)
  <2> HIDE DEF s
  <2> QED BY <1>6 DEF LoopAt, FileAt
<1> HIDE DEF s
<1>8. ~(s.err \/ s.sector <= -1)
  <2>1. s.sector > -1 /\ s.sector \in Int
    <3>1. CASE k = 0
      BY <1>7, <3>1 DEF LoopAt, Stands
    <3>2. CASE k # 0
      <4>1. k \in 1 .. Len(d.chains[first].sectors)
        BY <1>4, <3>2
      <4>2. /\ s.sector = Sec(d, first, k) - d.start
            /\ Sec(d, first, k) \in Nat /\ Sec(d, first, k) > d.start /\ d.start \in Nat
        BY <1>7, <4>1, SecFacts
      <4> QED BY <4>2
    <3> QED BY <3>1, <3>2
  <2>2. ~(s.sector <= -1)
    BY <2>1
  <2> QED BY <1>6, <2>2, Zenon
<1>9. w = Collected(d, v, t, mid, 1)
  BY <1>8, Zenon DEF Turn, Turned
<1>10. Same(s, t) /\ (t.m.fatlost \/ t.eof)
  BY <1>4, <1>5, <1>7, AdvanceEnds
<1>11. LoopGood(m0, t, v) /\ LoopFields \subseteq DOMAIN t
  BY <1>4, <1>5, AdvanceKept DEF LoopGood
<1> HIDE DEF t, mid
<1>12. w.m.fatlost \/ ~t.m.fatlost
  <2>1. CachesOf(t.m, t.m, v)
    BY <1>11, KeptAll DEF LoopGood, CachesOf
  <2>2. LoopGood(t.m, t, v) /\ LoopTyped(s)
    BY <1>5, <1>11, <2>1 DEF LoopGood
  <2>3. CachesOf(t.m, mid.m, v) /\ mid.from \in Int
    BY <1>4, <2>2, FlushKept DEF mid
  <2> HIDE DEF w
  <2>4. LoopGood(t.m, w, v)
    BY <1>4, <1>9, <2>2, <2>3, CollectedKept
  <2> QED BY <2>4 DEF LoopGood, CachesOf, Kept
<1>13. w.eof = t.eof /\ w.i = 1
  <2> DEFINE end == IF t.i = 1 - 1 /\ ~t.eof
                    THEN transfer(d, mid.m, v, mid.from, t.sector - mid.from + 1, mid.buf, mid.at)
                    ELSE [m |-> mid.m, rc |-> 0, buf |-> mid.buf]
             e == mid.rc < 0 \/ end.rc < 0
             em == end.m
             eb == end.buf
  <2>1. w = [t EXCEPT !.m = em, !.first = mid.from, !.last = t.sector, !.at = mid.at,
                      !.buf = eb, !.i = t.i + 1, !.err = e]
    BY <1>9 DEF Collected, TurnEnd
  <2> HIDE DEF em, eb, e, w
  <2>2. PICK x : w = [t EXCEPT !.m = em, !.first = mid.from, !.last = t.sector, !.at = mid.at,
                      !.buf = eb, !.i = t.i + 1, !.err = x]
    BY <2>1, Zenon
  <2>3. w.i = t.i + 1
    BY <1>11, <2>2 DEF LoopFields
  <2>4. w.eof = t.eof
    BY <1>11, <2>2 DEF LoopFields
  <2>5. t.i = 0
    BY <1>6, <1>10 DEF Same
  <2> QED BY <2>3, <2>4, <2>5
<1> HIDE DEF w
<1>14. r.m = w.m
  BY <1>3 DEF ReadDone
<1>15. ASSUME ~r.m.fatlost PROVE r.rc <= 0
  <2>1. w.eof
    <3>1. t.eof
      BY <1>10, <1>12, <1>14, <1>15
    <3> QED BY <1>13, <3>1, Zenon
  <2>2. r.rc = -1 \/ r.rc = w.i - 1
    <3>1. CASE w.err
      BY <1>3, <3>1 DEF ReadDone
    <3>2. CASE ~w.err
      BY <1>3, <2>1, <3>2 DEF ReadDone
    <3> QED BY <3>1, <3>2
  <2> QED BY <1>13, <2>2
<1> QED BY <1>15 DEF r

(* Where entry q of a directory of len sectors is.                         *)
LEMMA EntryWithin ==
  ASSUME NEW q \in Nat, NEW len \in Nat, q <= len * DIR_ENTRIES_PER_SECTOR
  PROVE  LET k == q \div DIR_ENTRIES_PER_SECTOR
         IN  k \in 0 .. len /\ (k < len <=> q < len * DIR_ENTRIES_PER_SECTOR)
<1> DEFINE E == DIR_ENTRIES_PER_SECTOR
           k == q \div E
           in == q % E
           K == k * E
           L == len * E
<1>1. E \in Nat \ {0} /\ q <= L
  BY Sizes
<1> HIDE DEF E
<1>a. k \in Nat /\ K \in Nat /\ in \in 0 .. E - 1 /\ q = K + in
  BY <1>1, Division
<1>2. k \in Nat /\ K \in Nat /\ in \in 0 .. E - 1 /\ q = K + in /\ L \in Nat
  <2> HIDE DEF k, K, in
  <2> QED BY <1>1, <1>a
<1>3. (k + 1) * E = K + E /\ (len + 1) * E = L + E
  BY <1>1, <1>2
<1> HIDE DEF k, in
<1>4. k >= len + 1 => K >= (len + 1) * E
  BY <1>1, <1>2
<1>5. k >= len => K >= L
  BY <1>1, <1>2
<1>6. k < len => L >= (k + 1) * E
  BY <1>1, <1>2
<1> DEFINE L1 == (len + 1) * E
           K1 == (k + 1) * E
<1> HIDE DEF K, L, K1, L1
<1>7. K1 = K + E /\ L1 = L + E /\ (k >= len + 1 => K >= L1) /\ (k >= len => K >= L) /\ (k < len => L >= K1)
  BY <1>3, <1>4, <1>5, <1>6 DEF K, L, K1, L1
<1>8. ~(k >= len + 1)
  BY <1>1, <1>2, <1>7
<1>9. k < len <=> q < L
  BY <1>1, <1>2, <1>7
<1> QED BY <1>2, <1>8, <1>9 DEF k, E, L

LEMMA EntryAfter ==
  ASSUME NEW q \in Nat
  PROVE  LET E == DIR_ENTRIES_PER_SECTOR
             k == q \div E
         IN  \/ (q + 1) % E = 0 /\ (q + 1) \div E = k + 1
             \/ (q + 1) % E # 0 /\ (q + 1) \div E = k
<1> DEFINE E == DIR_ENTRIES_PER_SECTOR
           k == q \div E
           in == q % E
           K == k * E
           p == q + 1
<1>1. E \in Nat \ {0}
  BY Sizes
<1> HIDE DEF E
<1>2. k \in Nat /\ K \in Nat /\ in \in 0 .. E - 1 /\ q = K + in
  BY <1>1, Division
<1>3. (k + 1) * E = K + E
  BY <1>1, <1>2
<1> HIDE DEF k, in
<1>4. CASE in + 1 = E
  <2> DEFINE n == k + 1
             N == n * E
             z == 0
  <2>1. N = K + E /\ n \in Int
    BY <1>2, <1>3
  <2> HIDE DEF K, n
  <2>2. p = n * E + z
    <3> HIDE DEF N
    <3>1. p = N + z
      BY <1>1, <1>2, <1>4, <2>1
    <3> QED BY <3>1 DEF N
  <2>3. z \in 0 .. E - 1 /\ p \in Nat
    BY <1>1
  <2> HIDE DEF z, p, N
  <2>4. p \div E = n /\ p % E = z
    BY <1>1, <2>1, <2>2, <2>3, Quotient
  <2> QED BY <2>4 DEF n, z, p, k, E
<1>5. CASE in + 1 # E
  <2> DEFINE r == in + 1
  <2>1. r \in 0 .. E - 1 /\ r # 0 /\ p \in Nat
    BY <1>1, <1>2, <1>5
  <2>2. p = k * E + r
    <3> HIDE DEF K
    <3>1. p = K + r
      BY <1>1, <1>2
    <3> QED BY <3>1 DEF K
  <2> HIDE DEF r, p
  <2>3. k \in Int
    BY <1>2
  <2>4. p \div E = k /\ p % E = r
    BY <1>1, <2>1, <2>2, <2>3, Quotient
  <2> QED BY <2>1, <2>4 DEF p, k, E
<1> QED BY <1>4, <1>5

(* A directory descriptor before entry q of the directory in chain first,  *)
(* and the sector that has it.                                             *)
DirAt(d, v, first, q, dir) ==
  LET len == Len(d.chains[first].sectors)
      k == q \div DIR_ENTRIES_PER_SECTOR
  IN  /\ dir.entry = q /\ dir.file.firstcluster = first
      /\ q <= len * DIR_ENTRIES_PER_SECTOR
      /\ IF q % DIR_ENTRIES_PER_SECTOR = 0 THEN FileAt(d, v, k, dir.file)
         ELSE FileAt(d, v, k + 1, dir.file) /\ dir.sector # 0 /\ dir.buf = Sec(d, first, k + 1)

DirHas(d, v, first, q, dir) ==
  LET k == q \div DIR_ENTRIES_PER_SECTOR
  IN  /\ dir.entry = q /\ dir.file.firstcluster = first
      /\ FileAt(d, v, k + 1, dir.file) /\ dir.sector # 0 /\ dir.buf = Sec(d, first, k + 1)

DirRead(d, v, first, q, r) ==
  IF q = Len(d.chains[first].sectors) * DIR_ENTRIES_PER_SECTOR THEN r.rc <= 0
  ELSE ~(r.rc <= 0) /\ DirHas(d, v, first, q, r.dir)

LEMMA DirSectorRight ==
  ASSUME NEW m0, m0.fatlost => m0.lost, NEW d, NEW v, VolumeFits(d, v), NEW first, ChainOf(d, v, first),
         NEW q \in Nat, NEW dir, DirTyped(dir), DirAt(d, v, first, q, dir),
         NEW m, CachesOf(m0, m, v)
  PROVE  LET r == DirSector(d, m, v, dir)
         IN  r.m.lost \/ DirRead(d, v, first, q, r)
<1> DEFINE E == DIR_ENTRIES_PER_SECTOR
           k == q \div E
           f == dir.file
           old == <<dir.buf>>
           x == fat_readwrite(d, m, v, f, 1, old)
           r == DirSector(d, m, v, dir)
           len == Len(d.chains[first].sectors)
           sector == IF x.rc > 0 THEN x.f.lastsector ELSE dir.sector
<1>1. VolumeTyped(v) /\ FatTyped(d) /\ FileTyped(f) /\ len \in Nat /\ E \in Nat \ {0}
  BY Sizes DEF VolumeFits, DirTyped, ChainOf
<1>2. dir.entry = q /\ f.firstcluster = first /\ q <= len * E
  BY DEF DirAt
<1>3. k \in 0 .. len /\ (k < len <=> q < len * E)
  <2> HIDE DEF len
  <2> QED BY <1>1, <1>2, EntryWithin
<1> HIDE DEF k
<1>4. CASE q % E # 0
  <2>1. dir.entry % E # 0 /\ dir.sector # 0
    BY <1>2, <1>4 DEF DirAt
  <2>2. r = [m |-> m, rc |-> 1, dir |-> dir]
    BY <2>1, Zenon DEF DirSector
  <2>3. r.rc = 1 /\ r.dir = dir
    BY <2>2
  <2> HIDE DEF r
  <2>4. ~(r.rc <= 0)
    BY <2>3
  <2>5. q # len * E
    <3> HIDE DEF E, len
    <3>1. (len * E) % E = 0
      <4> DEFINE p == len * E
                 z == 0
      <4>1. p \in Nat /\ p = len * E + z /\ z \in 0 .. E - 1 /\ len \in Int
        BY <1>1
      <4> HIDE DEF p, z
      <4>2. p % E = z
        BY <1>1, <4>1, Quotient
      <4> QED BY <4>2 DEF p, z
    <3> QED BY <1>4, <3>1
  <2>6. DirHas(d, v, first, q, dir)
    BY <1>4 DEF DirAt, DirHas
  <2> QED BY <2>3, <2>4, <2>5, <2>6 DEF DirRead, r
<1>5. CASE q % E = 0
  <2>1. r = DirFilled(dir, x)
    BY <1>2, <1>5 DEF DirSector
  <2>2. FileAt(d, v, k, f)
    BY <1>5 DEF DirAt, k
  <2> HIDE DEF old
  <2>3. CachesOf(m0, x.m, v) /\ FileTyped(x.f) /\ x.f.firstcluster = first
    <3>1. f.firstcluster \in Int /\ 1 \in Nat
      BY <1>1 DEF FileTyped
    <3> HIDE DEF f
    <3> QED BY <1>1, <1>2, <3>1, ReadwriteKept
  <2> HIDE DEF r
  <2>4. r.m = x.m /\ r.rc = x.rc /\ r.dir = [dir EXCEPT !.file = x.f, !.buf = x.buf[1], !.sector = sector]
    <3>1. r = [m |-> x.m, rc |-> x.rc, dir |-> [dir EXCEPT !.file = x.f, !.buf = x.buf[1], !.sector = sector]]
      BY <2>1 DEF DirFilled
    <3> HIDE DEF sector, x
    <3> QED BY <3>1
  <2> HIDE DEF x
  <2>5. SUFFICES ASSUME ~x.m.lost PROVE DirRead(d, v, first, q, r)
    BY <2>4 DEF r
  <2>6. ~x.m.fatlost
    BY <2>3, <2>5, Zenon DEF CachesOf, Kept
  <2>7. CASE q = len * E
    <3>1. k = len
      BY <1>1, <1>3, <2>7
    <3>2. x.rc <= 0
      <4> HIDE DEF f
      <4>1. k = Len(d.chains[f.firstcluster].sectors) /\ ChainOf(d, v, f.firstcluster)
        BY <1>2, <3>1
      <4> HIDE DEF len
      <4> QED BY <1>1, <2>2, <2>6, <4>1, ReadwriteEnds DEF x
    <3> QED BY <2>4, <2>7, <3>2 DEF DirRead
  <2>8. CASE q # len * E
    <3>1. k < len /\ k \in Nat
      <4> DEFINE L == len * E
      <4>1. L \in Int /\ q <= L /\ q # L /\ (k < len <=> q < L)
        BY <1>1, <1>2, <1>3, <2>8
      <4> HIDE DEF L
      <4> QED BY <1>3, <4>1
    <3>2. ReadTo(d, v, f, k, 1, x)
      <4>1. DOMAIN old = 1 .. 1 /\ 1 \in Nat
        BY DEF old
      <4>2. ChainOf(d, v, f.firstcluster) /\ k + 1 <= Len(d.chains[f.firstcluster].sectors)
        BY <1>1, <1>2, <3>1
      <4> HIDE DEF f, len
      <4> QED BY <1>1, <2>2, <2>6, <3>1, <4>1, <4>2, ReadwriteRight DEF x
    <3>3. x.rc = 1 /\ FileAt(d, v, k + 1, x.f) /\ x.buf[1] = Sec(d, first, k + 1)
      BY <1>2, <2>5, <3>2 DEF ReadTo, HaveRead
    <3>4. sector = x.f.lastsector /\ sector # 0
      <4>1. sector = x.f.lastsector
        BY <3>3
      <4>2. k + 1 # 0 /\ k + 1 \in 1 .. len
        BY <1>1, <3>1
      <4>3. x.f.lastsector = d.chains[first].sectors[k + 1] - d.start
        BY <2>3, <3>3, <4>2 DEF FileAt, Stands
      <4>4. Sec(d, first, k + 1) \in Nat /\ Sec(d, first, k + 1) > d.start /\ d.start \in Nat
        BY <4>2, SecFacts
      <4> QED BY <4>1, <4>3, <4>4 DEF Sec
    <3> HIDE DEF sector
    <3>5. /\ r.dir.file = x.f /\ r.dir.buf = x.buf[1] /\ r.dir.sector = sector /\ r.dir.entry = dir.entry
      BY <2>4 DEF DirTyped, DirFields
    <3>6. ~(r.rc <= 0)
      BY <2>4, <3>3
    <3> QED BY <1>2, <2>3, <2>8, <3>3, <3>4, <3>5, <3>6 DEF DirRead, DirHas, k
  <2> QED BY <2>7, <2>8
<1> QED BY <1>4, <1>5

(* What a search for name takes, where it is as long as it goes on, and    *)
(* what it comes to.                                                       *)
Matching(e, name, dironly) ==
  e.name = name /\ (e.kind = "dir" \/ (e.kind = "file" /\ ~dironly))

Passed(d, first, q, name, dironly) ==
  \A r \in 0 .. q - 1 : /\ EntryOf(d, first, r).kind # "end"
                        /\ ~Matching(EntryOf(d, first, r), name, dironly)

NoneThere(d, first, name, dironly) ==
  \A q \in EntriesOf(d, first) :
    Listed(d, first, q) => ~Matching(EntryOf(d, first, q), name, dironly)

FoundThere(d, first, name, dironly, e) ==
  \E q \in EntriesOf(d, first) :
    Listed(d, first, q) /\ e = EntryOf(d, first, q) /\ Matching(e, name, dironly)

ScanAt(d, v, first, q, s, name, dironly) ==
  \/ s.state = "on" /\ DirAt(d, v, first, q, s.dir) /\ Passed(d, first, q, name, dironly)
  \/ s.state = "none" /\ NoneThere(d, first, name, dironly)
  \/ s.state = "found" /\ FoundThere(d, first, name, dironly, s.entry)

LEMMA LookRight ==
  ASSUME NEW d, NEW v, NEW first, NEW q \in Nat, NEW name, NEW dironly,
         Len(d.chains[first].sectors) \in Nat,
         q <= Len(d.chains[first].sectors) * DIR_ENTRIES_PER_SECTOR,
         Passed(d, first, q, name, dironly),
         NEW r, DirTyped(r.dir), DirRead(d, v, first, q, r)
  PROVE  ScanAt(d, v, first, q + 1, Look(d, r, name, dironly), name, dironly)
<1> DEFINE E == DIR_ENTRIES_PER_SECTOR
           len == Len(d.chains[first].sectors)
           L == len * E
           i == r.dir.entry % E
           e == DirEntry(d, r.dir.buf, i)
           next == [r.dir EXCEPT !.entry = r.dir.entry + 1]
           s == Look(d, r, name, dironly)
           this == \/ e.kind = "dir" /\ e.name = name
                   \/ e.kind = "file" /\ e.name = name /\ ~dironly
<1>1. L \in Nat /\ q <= L /\ EntriesOf(d, first) = 0 .. L - 1
  BY Sizes DEF EntriesOf
<1>2. CASE r.rc <= 0
  <2>1. q = L
    BY <1>2 DEF DirRead
  <2>2. s.state = "none"
    BY <1>2 DEF Look
  <2>3. NoneThere(d, first, name, dironly)
    <3> HIDE DEF L
    <3> QED BY <1>1, <2>1 DEF NoneThere, Passed
  <2> HIDE DEF s
  <2> QED BY <2>2, <2>3 DEF ScanAt, s
<1>3. CASE ~(r.rc <= 0)
  <2>1. q # L /\ DirHas(d, v, first, q, r.dir)
    BY <1>3 DEF DirRead
  <2>2. q \in 0 .. L - 1
    <3> HIDE DEF L
    <3> QED BY <1>1, <2>1
  <2>3. e = EntryOf(d, first, q)
    BY <2>1 DEF DirHas, EntryOf, Sec
  <2> HIDE DEF L
  <2>4. this <=> Matching(e, name, dironly)
    BY Zenon DEF Matching
  <2>5. CASE e.kind = "end"
    <3>1. s.state = "none"
      BY <1>3, <2>5 DEF Look
    <3> HIDE DEF s, e
    <3>2. NoneThere(d, first, name, dironly)
      <4> SUFFICES ASSUME NEW p \in 0 .. L - 1, Listed(d, first, p)
                   PROVE  ~Matching(EntryOf(d, first, p), name, dironly)
        BY <1>1 DEF NoneThere
      <4>1. ~(q \in 0 .. p)
        BY <2>3, <2>5 DEF Listed
      <4>2. p \in 0 .. q - 1
        BY <1>1, <2>2, <4>1
      <4> QED BY <4>2 DEF Passed
    <3> QED BY <3>1, <3>2 DEF ScanAt, s
  <2>6. CASE e.kind # "end" /\ this
    <3>1. s = [m |-> r.m, dir |-> next, state |-> "found", entry |-> e]
      BY <1>3, <2>6, Zenon DEF Look
    <3> HIDE DEF next
    <3>2. s.state = "found" /\ s.entry = e
      <4> HIDE DEF e, s
      <4> QED BY <3>1
    <3>3. Matching(e, name, dironly)
      BY <2>4, <2>6
    <3> HIDE DEF s, e
    <3>4. Listed(d, first, q)
      <4>1. EntryOf(d, first, q).kind \in {"file", "dir"}
        BY <2>3, <3>3 DEF Matching
      <4>2. ASSUME NEW p \in 0 .. q PROVE EntryOf(d, first, p).kind # "end"
        <5>1. CASE p = q
          BY <2>3, <2>6, <5>1
        <5>2. CASE p # q
          <6>1. p \in 0 .. q - 1
            BY <5>2
          <6> QED BY <6>1 DEF Passed
        <5> QED BY <5>1, <5>2
      <4> QED BY <4>1, <4>2 DEF Listed
    <3>5. FoundThere(d, first, name, dironly, s.entry)
      BY <1>1, <2>2, <2>3, <3>2, <3>3, <3>4 DEF FoundThere
    <3> QED BY <3>2, <3>5 DEF ScanAt, s
  <2>7. CASE e.kind # "end" /\ ~this
    <3>1. s = [m |-> r.m, dir |-> next, state |-> "on"]
      BY <1>3, <2>7, Zenon DEF Look
    <3>2. next.entry = q + 1 /\ next.file = r.dir.file /\ next.sector = r.dir.sector /\ next.buf = r.dir.buf
      BY <2>1 DEF DirTyped, DirFields, DirHas
    <3> HIDE DEF next
    <3>3. s.state = "on" /\ s.dir = next
      BY <3>1
    <3> HIDE DEF s
    <3>4. ~Matching(e, name, dironly)
      BY <2>4, <2>7
    <3> HIDE DEF e
    <3>5. Passed(d, first, q + 1, name, dironly)
      <4> SUFFICES ASSUME NEW p \in 0 .. (q + 1) - 1
                   PROVE  /\ EntryOf(d, first, p).kind # "end"
                          /\ ~Matching(EntryOf(d, first, p), name, dironly)
        BY DEF Passed
      <4>1. CASE p = q
        BY <2>3, <2>7, <3>4, <4>1
      <4>2. CASE p # q
        <5>1. p \in 0 .. q - 1
          BY <4>2
        <5> QED BY <5>1 DEF Passed
      <4> QED BY <4>1, <4>2
    <3>6. q + 1 <= len * E
      BY <1>1, <2>2 DEF L
    <3>7. DirAt(d, v, first, q + 1, next)
      <4> DEFINE k == q \div E
                 p == q + 1
      <4>1. /\ next.entry = p /\ next.file.firstcluster = first
            /\ FileAt(d, v, k + 1, next.file) /\ next.sector # 0 /\ next.buf = Sec(d, first, k + 1)
        BY <2>1, <3>2 DEF DirHas
      <4>2. (p % E = 0 /\ p \div E = k + 1) \/ (p % E # 0 /\ p \div E = k)
        BY EntryAfter
      <4>3. p <= len * E
        BY <3>6
      <4> HIDE DEF p, k, len
      <4>4. DirAt(d, v, first, p, next)
        BY <4>1, <4>2, <4>3 DEF DirAt, len
      <4> QED BY <4>4 DEF p
    <3> QED BY <3>3, <3>5, <3>7 DEF ScanAt, s
  <2> QED BY <2>5, <2>6, <2>7
<1> QED BY <1>2, <1>3

(* A search that loses no sector finds the first entry of the name, if     *)
(* there is one before the end of the directory, and ends.                 *)
LEMMA ScanRight ==
  ASSUME NEW m0, m0.fatlost => m0.lost, NEW d, NEW v, VolumeFits(d, v), EntriesTyped(d),
         NEW first, ChainOf(d, v, first), Len(d.chains[first].sectors) < MaxDirSectors,
         NEW dir, DirTyped(dir), DirAt(d, v, first, 0, dir), NEW m, CachesOf(m0, m, v),
         NEW name, NEW dironly
  PROVE  LET s == scan(d, m, v, dir, name, dironly)
         IN  \/ s.m.lost
             \/ s.state = "none" /\ NoneThere(d, first, name, dironly)
             \/ s.state = "found" /\ FoundThere(d, first, name, dironly, s.entry)
<1> DEFINE E == DIR_ENTRIES_PER_SECTOR
           most == MaxDirSectors * E
           len == Len(d.chains[first].sectors)
<1>1. PICK walk : IsScan(walk, d, m, v, dir, name, dironly)
                  /\ scan(d, m, v, dir, name, dironly) = walk[most]
  BY ScanLoop
<1> DEFINE Fine(k) == /\ ScanGood(m0, walk[k], v)
                      /\ walk[k].m.lost \/ ScanAt(d, v, first, k, walk[k], name, dironly)
           Good == {k \in Nat : k <= most => Fine(k)}
<1>2. most \in Nat /\ E \in Nat \ {0} /\ len \in Nat
  BY Sizes DEF ChainOf
<1>3. /\ walk[0] = [m |-> m, dir |-> dir, state |-> "on"]
      /\ \A i \in 0 .. most - 1 : walk[i + 1] = LookOn(d, v, walk[i], name, dironly)
  BY <1>1 DEF IsScan
<1>a. VolumeTyped(v) /\ FatTyped(d)
  BY DEF VolumeFits
<1>b. len * E < most
  <2>1. MaxDirSectors \in Nat
    BY Sizes
  <2> HIDE DEF len, E
  <2>2. (len + 1) * E <= MaxDirSectors * E /\ (len + 1) * E = len * E + E /\ len * E \in Nat
    BY <1>2, <2>1, SMTT(30) DEF len
  <2> DEFINE L == len * E
             L1 == (len + 1) * E
  <2> HIDE DEF L, L1, most
  <2>3. L1 <= most /\ L1 = L + E /\ L \in Nat
    BY <2>2 DEF L, L1, most
  <2>4. L < most
    BY <1>2, <2>3
  <2> QED BY <2>4 DEF L
<1> HIDE DEF most
<1>4. Fine(0)
  <2> DEFINE s == walk[0]
  <2>1. s.state = "on" /\ s.dir = dir /\ s.m = m
    BY <1>3
  <2> HIDE DEF s
  <2>2. ScanGood(m0, s, v)
    BY <2>1 DEF ScanGood
  <2>3. Passed(d, first, 0, name, dironly)
    BY DEF Passed
  <2> QED BY <2>1, <2>2, <2>3 DEF ScanAt, s
<1>5. ASSUME NEW k \in Nat, k \in Good PROVE k + 1 \in Good
  <2>1. SUFFICES ASSUME k + 1 <= most PROVE Fine(k + 1)
    OBVIOUS
  <2> DEFINE s == walk[k]
             t == walk[k + 1]
             r == DirSector(d, s.m, v, s.dir)
  <2>2. /\ ScanGood(m0, s, v) /\ t = LookOn(d, v, s, name, dironly)
        /\ s.m.lost \/ ScanAt(d, v, first, k, s, name, dironly)
    BY <1>2, <1>3, <1>5, <2>1
  <2> HIDE DEF s, t
  <2>3. ScanGood(m0, t, v)
    BY <1>a, <2>2, LookOnKept
  <2>4. s.m.lost => t.m.lost
    <3>1. ScanGood(s.m, s, v)
      BY <2>2, KeptAll DEF ScanGood, CachesOf
    <3>2. ScanGood(s.m, t, v)
      BY <1>a, <2>2, <3>1, LookOnKept
    <3> QED BY <3>2 DEF ScanGood, CachesOf, Kept
  <2>5. t.m.lost \/ ScanAt(d, v, first, k + 1, t, name, dironly)
    <3>1. SUFFICES ASSUME ~t.m.lost PROVE ScanAt(d, v, first, k + 1, t, name, dironly)
      OBVIOUS
    <3>2. ScanAt(d, v, first, k, s, name, dironly)
      BY <2>2, <2>4, <3>1
    <3>3. CASE s.state # "on"
      <4>1. t = s
        BY <2>2, <3>3 DEF LookOn
      <4> QED BY <3>2, <3>3, <4>1 DEF ScanAt
    <3>4. CASE s.state = "on"
      <4>1. t = Look(d, r, name, dironly)
        BY <2>2, <3>4 DEF LookOn
      <4>2. DirAt(d, v, first, k, s.dir) /\ Passed(d, first, k, name, dironly)
        BY <3>2, <3>4 DEF ScanAt
      <4>3. DirTyped(r.dir)
        BY <1>a, <2>2, DirSectorKept DEF ScanGood
      <4>4. r.m.lost \/ DirRead(d, v, first, k, r)
        BY <2>2, <4>2, DirSectorRight DEF ScanGood
      <4> HIDE DEF r
      <4>5. t.m = r.m
        <5> DEFINE e == DirEntry(d, r.dir.buf, r.dir.entry % DIR_ENTRIES_PER_SECTOR)
                   next == [r.dir EXCEPT !.entry = @ + 1]
        <5>1. \/ t = [m |-> r.m, dir |-> r.dir, state |-> "none"]
              \/ t = [m |-> r.m, dir |-> next, state |-> "none"]
              \/ t = [m |-> r.m, dir |-> next, state |-> "found", entry |-> e]
              \/ t = [m |-> r.m, dir |-> next, state |-> "on"]
          BY <4>1, Zenon DEF Look
        <5> HIDE DEF e, next
        <5> QED BY <5>1
      <4>6. DirRead(d, v, first, k, r)
        BY <3>1, <4>4, <4>5
      <4>7. k <= Len(d.chains[first].sectors) * DIR_ENTRIES_PER_SECTOR
        BY <4>2 DEF DirAt
      <4> QED BY <1>2, <4>1, <4>2, <4>3, <4>6, <4>7, LookRight
    <3> QED BY <3>3, <3>4
  <2> QED BY <2>3, <2>5 DEF s, t
<1>6. \A k \in Nat : k \in Good
  <2>1. 0 \in Good
    BY <1>4
  <2> HIDE DEF Good
  <2> QED BY <1>5, <2>1, Counting
<1>7. Fine(most)
  <2>1. most \in Good /\ most <= most
    BY <1>2, <1>6
  <2> QED BY <2>1
<1>8. ~DirAt(d, v, first, most, walk[most].dir)
  <2>1. SUFFICES ASSUME most <= len * E PROVE FALSE
    BY DEF DirAt
  <2> DEFINE L == len * E
  <2>2. L \in Nat
    BY <1>2
  <2> HIDE DEF L
  <2> QED BY <1>2, <1>b, <2>1, <2>2 DEF L
<1> QED BY <1>1, <1>7, <1>8 DEF ScanAt

(* What FilesAssumption says of the medium in the drive.                   *)
LEMMA FilesThere ==
  ASSUME medium \in DOMAIN Media
  PROVE  /\ disk.mountable <=> Mountable(disk)
         /\ disk.mountable => /\ \A path \in Dirs(disk) : DirFits(disk, path)
                              /\ \A path \in DOMAIN disk.files : PathFits(disk, path)
BY FilesAssumption, Zenon DEF disk

LEMMA LastOf ==
  ASSUME NEW S, NEW path \in Seq(S), NEW name \in S
  PROVE  LET p == Append(path, name)
         IN  /\ p # <<>> /\ Len(p) = Len(path) + 1 /\ p[Len(p)] = name
             /\ SubSeq(p, 1, Len(p) - 1) = path
<1> DEFINE p == Append(path, name)
           up == SubSeq(p, 1, Len(p) - 1)
<1>1. p \in Seq(S) /\ Len(p) = Len(path) + 1 /\ Len(path) \in Nat /\ p[Len(path) + 1] = name
      /\ \A i \in 1 .. Len(path) : p[i] = path[i]
  OBVIOUS
<1> HIDE DEF p
<1>2. p # <<>>
  <2>1. Len(<<>>) = 0
    OBVIOUS
  <2> QED BY <1>1, <2>1
<1>3. Len(p) - 1 = Len(path)
  BY <1>1
<1>4. up = path
  <2>1. up \in Seq(S) /\ Len(up) = Len(path) /\ \A i \in 1 .. Len(path) : up[i] = p[i]
    BY <1>1, <1>3
  <2> HIDE DEF up
  <2> QED BY <1>1, <2>1
<1> QED BY <1>1, <1>2, <1>4 DEF p

(* An entry that a search takes is at its path; what no search takes is    *)
(* not there, or no directory.                                             *)
LEMMA EntryThere ==
  ASSUME medium \in DOMAIN Media, disk.mountable, NEW path, path \in Dirs(disk), NEW name,
         NEW dironly, NEW e, FoundThere(disk, FirstOf(disk, path), name, dironly, e)
  PROVE  LET there == Append(path, name)
         IN  /\ there \in DOMAIN disk.files /\ disk.files[there].kind = e.kind
             /\ disk.files[there].size = e.size /\ disk.files[there].first = e.first
             /\ dironly => e.kind = "dir"
<1>1. DirFits(disk, path)
  BY FilesThere
<1>2. PICK q \in EntriesOf(disk, FirstOf(disk, path)) :
        /\ Listed(disk, FirstOf(disk, path), q) /\ e = EntryOf(disk, FirstOf(disk, path), q)
        /\ Matching(e, name, dironly)
  BY DEF FoundThere
<1>3. e.name = name /\ (dironly => e.kind = "dir")
  BY <1>2 DEF Matching
<1> QED BY <1>1, <1>2, <1>3 DEF DirFits

LEMMA NothingThere ==
  ASSUME medium \in DOMAIN Media, disk.mountable, NEW S, NEW path \in Seq(S), NEW name \in S,
         path \in Dirs(disk), NEW dironly, NoneThere(disk, FirstOf(disk, path), name, dironly),
         Append(path, name) \in DOMAIN disk.files
  PROVE  dironly /\ disk.files[Append(path, name)].kind # "dir"
<1> DEFINE there == Append(path, name)
           first == FirstOf(disk, path)
<1>1. DirFits(disk, path) /\ PathFits(disk, there)
  BY FilesThere
<1>2. there[Len(there)] = name /\ SubSeq(there, 1, Len(there) - 1) = path
  BY LastOf
<1> HIDE DEF there
<1>3. PICK q \in EntriesOf(disk, first) :
        Listed(disk, first, q) /\ EntryOf(disk, first, q).name = name
  BY <1>1, <1>2 DEF PathFits
<1> DEFINE e == EntryOf(disk, first, q)
<1>4. e.kind \in {"file", "dir"} /\ ~Matching(e, name, dironly)
  BY <1>3 DEF Listed, NoneThere
<1>5. e.kind = "file" /\ dironly
  BY <1>3, <1>4 DEF Matching
<1>6. disk.files[Append(path, e.name)].kind = e.kind
  BY <1>1, <1>3 DEF DirFits
<1> QED BY <1>3, <1>5, <1>6 DEF there

(* The parent of what is there is a directory.                             *)
LEMMA ParentThere ==
  ASSUME medium \in DOMAIN Media, disk.mountable, NEW path, path \in DOMAIN disk.files
  PROVE  path # <<>> /\ SubSeq(path, 1, Len(path) - 1) \in Dirs(disk)
<1>1. PathFits(disk, path)
  BY FilesThere
<1> QED BY <1>1 DEF PathFits

(* A descriptor at the start of the directory at path, or no such one.     *)
OpenedAt(o, path) ==
  \/ /\ o.state = "found" /\ path \in Dirs(disk)
     /\ DirAt(disk, bpb, FirstOf(disk, path), 0, o.dir)
  \/ o.state = "none" /\ path \notin Dirs(disk)

(* The first cluster of a chain is not 0.                                  *)
LEMMA FirstNotZero ==
  ASSUME NEW d, NEW v, NEW first, ChainOf(d, v, first)
  PROVE  first # 0 /\ first \in Int
<1> DEFINE ch == d.chains[first].clusters
<1>1. ch \in Seq(Int) /\ ch # <<>> /\ ch[1] = first
      /\ \A i \in 1 .. Len(ch) : IF ch[i] < 0 THEN v.is_fat16 ELSE ch[i] \in DOMAIN d.fat \ {0, 1}
  BY DEF ChainOf, ChainFits
<1> HIDE DEF ch
<1>2. 1 \in 1 .. Len(ch)
  BY <1>1
<1> QED BY <1>1, <1>2

LEMMA StartOf ==
  ASSUME NEW d, NEW v, NEW first, NEW cluster, Len(d.chains[first].sectors) \in Nat,
         first = IF cluster = 0 THEN v.rootclus ELSE cluster, NEW buf
  PROVE  DirAt(d, v, first, 0, fat_opendir(v, cluster, buf))
<1> DEFINE f == fat_open(first)
           dir == fat_opendir(v, cluster, buf)
<1>1. dir = [entry |-> 0, sector |-> 0, buf |-> buf, file |-> f]
  BY DEF fat_opendir
<1> HIDE DEF f, dir
<1>2. dir.entry = 0 /\ dir.file = f
  BY <1>1
<1>3. f.firstcluster = first /\ f.lastcluster = first /\ f.lastsector = 0 /\ f.clusternum = 0
      /\ f.sectornum = 0
  BY DEF fat_open, f
<1>4. ~f.eof
  BY DEF fat_open, f
<1>5. FileAt(d, v, 0, f)
  BY <1>3, <1>4 DEF FileAt, Stands
<1>6. 0 \div DIR_ENTRIES_PER_SECTOR = 0 /\ 0 % DIR_ENTRIES_PER_SECTOR = 0
      /\ 0 <= Len(d.chains[first].sectors) * DIR_ENTRIES_PER_SECTOR
  BY Sizes
<1>7. DirAt(d, v, first, 0, dir)
  BY <1>2, <1>3, <1>5, <1>6 DEF DirAt
<1> QED BY <1>7 DEF dir

LEMMA DirThere ==
  ASSUME medium \in DOMAIN Media, disk.mountable, bpb = Volume(disk), NEW path, path \in Dirs(disk)
  PROVE  /\ ChainOf(disk, bpb, FirstOf(disk, path))
         /\ Len(disk.chains[FirstOf(disk, path)].sectors) < MaxDirSectors
<1>1. DirFits(disk, path) /\ Mountable(disk)
  BY FilesThere
<1>2. CanMount(disk, disk.start)
  BY <1>1 DEF Mountable
<1> QED BY <1>1, <1>2, ChainsThere DEF DirFits

(* A search for what is at path says that it is not there, or what it is.  *)
SearchedAt(s, path, dironly) ==
  \/ /\ s.state = "none"
     /\ path \in DOMAIN disk.files => dironly /\ disk.files[path].kind # "dir"
  \/ /\ s.state = "found" /\ path \in DOMAIN disk.files
     /\ disk.files[path].kind = s.entry.kind /\ disk.files[path].size = s.entry.size
     /\ disk.files[path].first = s.entry.first
     /\ dironly => s.entry.kind = "dir"

LEMMA SearchRight ==
  ASSUME NEW m0, m0.fatlost => m0.lost, medium \in DOMAIN Media, disk.mountable,
         VolumeFits(disk, bpb), bpb = Volume(disk), EntriesTyped(disk),
         NEW path, path \in Seq(STRING), NEW name \in STRING, NEW dironly,
         NEW o, DownGood(m0, o, bpb), path \in Dirs(disk),
         DirAt(disk, bpb, FirstOf(disk, path), 0, o.dir)
  PROVE  LET s == scan(disk, o.m, bpb, o.dir, name, dironly)
         IN  s.m.lost \/ SearchedAt(s, Append(path, name), dironly)
<1> DEFINE first == FirstOf(disk, path)
           s == scan(disk, o.m, bpb, o.dir, name, dironly)
<1>1. ChainOf(disk, bpb, first) /\ Len(disk.chains[first].sectors) < MaxDirSectors
  BY DirThere
<1>2. DirTyped(o.dir) /\ CachesOf(m0, o.m, bpb)
  BY DEF DownGood
<1>3. \/ s.m.lost
      \/ s.state = "none" /\ NoneThere(disk, first, name, dironly)
      \/ s.state = "found" /\ FoundThere(disk, first, name, dironly, s.entry)
  <2> HIDE DEF first
  <2> QED BY <1>1, <1>2, ScanRight DEF first
<1> HIDE DEF s
<1>4. CASE s.m.lost
  BY <1>4 DEF s
<1>5. CASE s.state = "none" /\ NoneThere(disk, first, name, dironly)
  BY <1>5, NothingThere DEF s, SearchedAt
<1>6. CASE s.state = "found" /\ FoundThere(disk, first, name, dironly, s.entry)
  <2> DEFINE e == s.entry
             there == Append(path, name)
  <2> HIDE DEF e
  <2>1. /\ there \in DOMAIN disk.files /\ disk.files[there].kind = e.kind
        /\ disk.files[there].size = e.size /\ disk.files[there].first = e.first
        /\ dironly => e.kind = "dir"
    BY <1>6, EntryThere DEF e
  <2> QED BY <1>6, <2>1 DEF e, s, SearchedAt
<1> QED BY <1>3, <1>4, <1>5, <1>6

LEMMA DownRight ==
  ASSUME NEW m0, m0.fatlost => m0.lost, medium \in DOMAIN Media, disk.mountable,
         VolumeFits(disk, bpb), bpb = Volume(disk), EntriesTyped(disk),
         NEW path, path \in Seq(STRING), NEW name \in STRING,
         NEW o, DownGood(m0, o, bpb), OpenedAt(o, path)
  PROVE  LET t == Down(disk, bpb, o, name)
         IN  t.m.lost \/ OpenedAt(t, Append(path, name))
<1> DEFINE there == Append(path, name)
           s == scan(disk, o.m, bpb, o.dir, name, TRUE)
           t == Down(disk, bpb, o, name)
<1>1. /\ there # <<>> /\ there[Len(there)] = name /\ SubSeq(there, 1, Len(there) - 1) = path
  BY LastOf
<1> HIDE DEF there
<1>2. there \in Dirs(disk) <=> there \in DOMAIN disk.files /\ disk.files[there].kind = "dir"
  BY <1>1 DEF Dirs
<1>3. CASE o.state = "none" /\ path \notin Dirs(disk)
  <2>1. t = o
    BY <1>3 DEF Down
  <2>2. there \notin Dirs(disk)
    BY <1>1, <1>2, <1>3, ParentThere
  <2> QED BY <1>3, <2>1, <2>2 DEF OpenedAt, there
<1>4. CASE /\ o.state = "found" /\ path \in Dirs(disk)
           /\ DirAt(disk, bpb, FirstOf(disk, path), 0, o.dir)
  <2>1. t = Enter(bpb, s)
    BY <1>4 DEF Down
  <2>2. \/ s.m.lost
        \/ /\ s.state = "none"
           /\ there \in DOMAIN disk.files => disk.files[there].kind # "dir"
        \/ /\ s.state = "found" /\ there \in DOMAIN disk.files
           /\ disk.files[there].kind = s.entry.kind /\ disk.files[there].size = s.entry.size
           /\ disk.files[there].first = s.entry.first
           /\ s.entry.kind = "dir"
    <3>1. s.m.lost \/ SearchedAt(s, there, TRUE)
      BY <1>4, SearchRight DEF there
    <3> HIDE DEF s, there
    <3> QED BY <3>1, Zenon DEF SearchedAt
  <2> HIDE DEF s, t
  <2>3. t.m = s.m
    BY <2>1 DEF Enter
  <2>4. CASE s.m.lost
    BY <2>3, <2>4 DEF t
  <2>5. CASE /\ s.state = "none"
             /\ there \in DOMAIN disk.files => disk.files[there].kind # "dir"
    <3>1. t = s
      BY <2>1, <2>5 DEF Enter
    <3> QED BY <1>2, <2>5, <3>1 DEF OpenedAt, t, there
  <2>6. CASE /\ s.state = "found" /\ there \in DOMAIN disk.files
             /\ disk.files[there].kind = s.entry.kind /\ disk.files[there].first = s.entry.first
             /\ s.entry.kind = "dir"
    <3> DEFINE first == FirstOf(disk, there)
               dir == fat_opendir(bpb, s.entry.first, s.dir.buf)
    <3>1. first = s.entry.first /\ there \in Dirs(disk)
      BY <1>1, <1>2, <2>6 DEF FirstOf
    <3>2. ChainOf(disk, bpb, first)
      BY <3>1, DirThere
    <3> HIDE DEF first
    <3>a. first # 0
      BY <3>2, FirstNotZero
    <3>b. Len(disk.chains[first].sectors) \in Nat
      BY <3>2 DEF ChainOf
    <3>3. first # 0 /\ Len(disk.chains[first].sectors) \in Nat
      BY <3>a, <3>b
    <3>4. DirAt(disk, bpb, first, 0, dir)
      <4> DEFINE cluster == s.entry.first
      <4>1. first = IF cluster = 0 THEN bpb.rootclus ELSE cluster
        BY <3>1, <3>3
      <4> HIDE DEF cluster
      <4> QED BY <3>3, <4>1, StartOf DEF cluster
    <3> HIDE DEF dir
    <3>5. t = [m |-> s.m, state |-> "found", dir |-> dir]
      BY <2>1, <2>6 DEF Enter, dir
    <3>6. t.state = "found" /\ t.dir = dir
      BY <3>5
    <3>7. OpenedAt(t, there)
      BY <3>1, <3>4, <3>6 DEF OpenedAt, first
    <3> QED BY <3>7 DEF t, there
  <2> QED BY <2>2, <2>4, <2>5, <2>6
<1> QED BY <1>3, <1>4 DEF OpenedAt

(* Opening a directory by its path comes to its start, if it is there.     *)
LEMMA RbOpendirRight ==
  ASSUME NEW m0, m0.fatlost => m0.lost, medium \in DOMAIN Media, disk.mountable,
         VolumeFits(disk, bpb), bpb = Volume(disk), EntriesTyped(disk),
         NEW path, path \in Seq(STRING), NEW buf, NEW m, CachesOf(m0, m, bpb)
  PROVE  LET o == rb_opendir(disk, m, bpb, path, buf)
         IN  o.m.lost \/ OpenedAt(o, path)
<1> DEFINE most == Len(path)
           part(k) == SubSeq(path, 1, k)
<1>1. most \in Nat
  OBVIOUS
<1>2. PICK down : IsWay(down, disk, m, bpb, path, buf)
                  /\ rb_opendir(disk, m, bpb, path, buf) = down[most]
  BY <1>1, DownLoop
<1> DEFINE Fine(k) == DownGood(m0, down[k], bpb) /\ (down[k].m.lost \/ OpenedAt(down[k], part(k)))
           Good == {k \in Nat : k <= most => Fine(k)}
<1>3. /\ down[0] = [m |-> m, dir |-> fat_opendir(bpb, 0, buf), state |-> "found"]
      /\ \A i \in 0 .. most - 1 : down[i + 1] = Down(disk, bpb, down[i], path[i + 1])
  BY <1>2 DEF IsWay
<1>4. VolumeTyped(bpb) /\ FatTyped(disk)
  BY DEF VolumeFits
<1>5. part(0) = <<>> /\ part(most) = path
  OBVIOUS
<1>6. \A k \in 0 .. most - 1 : /\ part(k) \in Seq(STRING) /\ path[k + 1] \in STRING
                               /\ part(k + 1) = Append(part(k), path[k + 1])
  <2> SUFFICES ASSUME NEW k \in 0 .. most - 1
               PROVE  /\ part(k) \in Seq(STRING) /\ path[k + 1] \in STRING
                      /\ part(k + 1) = Append(part(k), path[k + 1])
    OBVIOUS
  <2>1. part(k) \in Seq(STRING) /\ Len(part(k)) = k /\ \A i \in 1 .. k : part(k)[i] = path[i]
    OBVIOUS
  <2>2. /\ part(k + 1) \in Seq(STRING) /\ Len(part(k + 1)) = k + 1
        /\ \A i \in 1 .. k + 1 : part(k + 1)[i] = path[i]
    OBVIOUS
  <2>3. path[k + 1] \in STRING
    OBVIOUS
  <2> DEFINE p == part(k)
             q == part(k + 1)
             name == path[k + 1]
  <2> HIDE DEF p, q, name
  <2>4. q = Append(p, name)
    <3>1. p \in Seq(STRING) /\ Len(p) = k /\ q \in Seq(STRING) /\ Len(q) = k + 1 /\ name \in STRING
      BY <2>1, <2>2, <2>3 DEF p, q, name
    <3>2. \A i \in 1 .. k : q[i] = p[i]
      BY <2>1, <2>2 DEF p, q
    <3>3. q[k + 1] = name
      BY <2>2 DEF q, name
    <3> QED BY <3>1, <3>2, <3>3
  <2> QED BY <2>1, <2>3, <2>4 DEF p, q, name
<1> HIDE DEF most, part
<1>7. Fine(0)
  <2> DEFINE o == down[0]
             dir == fat_opendir(bpb, 0, buf)
             first == FirstOf(disk, <<>>)
  <2>1. <<>> \in Dirs(disk) /\ first = bpb.rootclus
    BY DEF Dirs, FirstOf
  <2>2. Len(disk.chains[first].sectors) \in Nat
    BY <2>1, DirThere DEF ChainOf
  <2> HIDE DEF first
  <2>3. DirAt(disk, bpb, first, 0, dir)
    BY <2>1, <2>2, StartOf
  <2>4. DirTyped(dir)
    BY <1>4, OpendirTyped
  <2> HIDE DEF dir
  <2>5. o.m = m /\ o.dir = dir /\ o.state = "found"
    BY <1>3 DEF dir
  <2> HIDE DEF o
  <2>6. DownGood(m0, o, bpb)
    BY <2>4, <2>5 DEF DownGood
  <2>7. OpenedAt(o, <<>>)
    BY <2>1, <2>3, <2>5 DEF OpenedAt, first
  <2> QED BY <1>5, <2>6, <2>7 DEF o
<1>8. ASSUME NEW k \in Nat, k \in Good PROVE k + 1 \in Good
  <2>1. SUFFICES ASSUME k + 1 <= most PROVE Fine(k + 1)
    OBVIOUS
  <2> DEFINE o == down[k]
             t == down[k + 1]
             p == part(k)
             name == path[k + 1]
  <2>2. DownGood(m0, o, bpb) /\ (o.m.lost \/ OpenedAt(o, p)) /\ t = Down(disk, bpb, o, name)
    BY <1>1, <1>3, <1>8, <2>1
  <2>3. part(k + 1) = Append(p, name) /\ p \in Seq(STRING) /\ name \in STRING
    BY <1>1, <1>6, <2>1
  <2> HIDE DEF o, t, p, name
  <2>4. DownGood(m0, t, bpb)
    BY <1>4, <2>2, DownKept
  <2>5. o.m.lost => t.m.lost
    <3>1. DownGood(o.m, o, bpb)
      BY <2>2, KeptAll DEF DownGood, CachesOf
    <3>2. DownGood(o.m, t, bpb)
      BY <1>4, <2>2, <3>1, DownKept
    <3> QED BY <3>2 DEF DownGood, CachesOf, Kept
  <2>6. ~t.m.lost => OpenedAt(t, Append(p, name))
    BY <2>2, <2>3, <2>5, DownRight
  <2> QED BY <2>3, <2>4, <2>6 DEF t
<1>9. \A k \in Nat : k \in Good
  <2>1. 0 \in Good
    BY <1>7
  <2> HIDE DEF Good
  <2> QED BY <1>8, <2>1, Counting
<1>10. Fine(most)
  <2>1. most \in Good /\ most <= most
    BY <1>1, <1>9
  <2> QED BY <2>1
<1> QED BY <1>2, <1>5, <1>10 DEF most

-----------------------------------------------------------------------------
(* The calls, and what they give the program.                              *)

(* What an open file has is what is at its path.                           *)
FileRight(d, file) ==
  /\ file.path \in DOMAIN d.files /\ file.size = d.files[file.path].size
  /\ file.fatfile.firstcluster = d.files[file.path].first

(* As long as no sector was lost, the volume is mounted if it can be, and  *)
(* the open files are the ones of the medium.                              *)
FilesRight ==
  /\ fatlost => lost
  /\ state \notin {"start", "exited"} /\ ~lost => (bpb.mounted <=> disk.mountable)
  /\ ~lost => \A fd \in Fds : openfiles[fd].busy => FileRight(disk, openfiles[fd])

CallsInv == PlacesInv /\ FilesRight /\ ReadsRight /\ OpensRight

LEMMA FilesKept ==
  ASSUME FilesRight, medium' = medium, bpb' = bpb, state \notin {"start", "exited"},
         lost => lost', fatlost' => fatlost \/ lost',
         ~lost' => \A fd \in Fds :
           \/ openfiles'[fd] = openfiles[fd]
           \/ openfiles'[fd].busy => FileRight(disk, openfiles'[fd])
  PROVE  FilesRight'
<1>1. disk' = disk
  BY DEF disk
<1>2. fatlost' => lost'
  BY Zenon DEF FilesRight
<1>3. ~lost' => (bpb'.mounted <=> disk'.mountable)
  <2>1. ~lost => (bpb.mounted <=> disk.mountable)
    BY Zenon DEF FilesRight
  <2>2. ~lost' => (bpb.mounted <=> disk.mountable)
    BY <2>1, Zenon
  <2> QED BY <1>1, <2>2, Zenon
<1>4. ~lost' => \A fd \in Fds : openfiles'[fd].busy => FileRight(disk', openfiles'[fd])
  <2>1. SUFFICES ASSUME ~lost', NEW fd \in Fds, openfiles'[fd].busy
                 PROVE  FileRight(disk', openfiles'[fd])
    BY Zenon
  <2>2. ~lost
    BY <2>1, Zenon
  <2>3. openfiles[fd].busy => FileRight(disk, openfiles[fd])
    BY <2>2, Zenon DEF FilesRight
  <2>4. FileRight(disk, openfiles'[fd])
    <3>1. CASE openfiles'[fd] = openfiles[fd]
      BY <2>1, <2>3, <3>1, Zenon
    <3>2. CASE openfiles'[fd].busy => FileRight(disk, openfiles'[fd])
      BY <2>1, <3>2, Zenon
    <3> QED BY <2>1, <3>1, <3>2, Zenon
  <2> QED BY <1>1, <2>4
<1> QED BY <1>2, <1>3, <1>4, Zenon DEF FilesRight

LEMMA NoCall ==
  ASSUME io' = NoIo
  PROVE  ReadsRight' /\ OpensRight'
<1>1. io'.op = "none"
  BY DEF NoIo
<1>2. io'.op # "read" /\ io'.op # "open"
  BY <1>1
<1>3. ReadsRight'
  BY <1>2, Zenon DEF ReadsRight
<1>4. OpensRight'
  BY <1>2, Zenon DEF OpensRight
<1> QED BY <1>3, <1>4

LEMMA InitCalls == Init => CallsInv
<1> SUFFICES ASSUME Init PROVE CallsInv
  OBVIOUS
<1>1. PlacesInv
  BY InitPlaces
<1>2. io.op = "none" /\ state = "start"
  BY DEF Init, NoIo
<1>3. io.op # "read" /\ io.op # "open"
  BY <1>2
<1>4. ReadsRight /\ OpensRight
  BY <1>3, Zenon DEF ReadsRight, OpensRight
<1>5. \A fd \in Fds : ~openfiles[fd].busy
  BY <1>1, <1>2 DEF PlacesInv, CachesInv
<1>6. ~fatlost
  BY Zenon DEF Init
<1>7. FilesRight
  <2>1. state \in {"start", "exited"}
    BY <1>2
  <2> QED BY <1>5, <1>6, <2>1, Zenon DEF FilesRight
<1> QED BY <1>1, <1>4, <1>7 DEF CallsInv

LEMMA MountCalls ==
  ASSUME CallsInv, NEW bad, Mount(bad)
  PROVE  CallsInv'
<1> DEFINE m == Before(bad)
           r == disk_mount(disk, m, bpb)
<1>1. PlacesInv' /\ PlacesInv
  BY MountPlaces DEF CallsInv
<1>2. state = "start" /\ medium' = medium /\ openfiles' = openfiles /\ CachesInv /\ ~bpb.mounted
      /\ medium \in DOMAIN Media /\ io' = NoIo
  BY <1>1 DEF Mount, PlacesInv, VolumeRight, CachesInv
<1>3. ReadsRight' /\ OpensRight'
  BY <1>2, NoCall
<1>4. CachesOf(m, m, bpb) /\ FatEmpty(m.fat)
  BY <1>2, BeforeGood DEF CachesInv
<1> HIDE DEF m
<1>5. BootTyped(disk) /\ PartsTyped(disk) /\ OneVolume(disk)
  BY <1>2, MediumTyped, ChainsThere
<1>6. FatTyped(disk)
  BY <1>2, MediumTyped
<1>7. Mounted(r)
  BY DEF Mount, m
<1>8. ~r.m.lost => ((r.v.mounted /\ ~r.exit) <=> Mountable(disk))
  BY <1>2, <1>4, <1>5, DiskMountRight
<1>9. disk.mountable <=> Mountable(disk)
  BY <1>2, FilesThere
<1>a. MountGood(m, r)
  BY <1>2, <1>4, <1>5, DiskMountKept DEF CachesInv
<1> HIDE DEF r
<1>10. bpb' = r.v /\ After(r.m) /\ (r.exit => state' = "exited")
  BY <1>7, Zenon DEF Mounted
<1>11. (r.m.lost <=> lost') /\ (r.m.fatlost <=> fatlost')
  BY <1>10, Zenon DEF After
<1>12. fatlost' => lost'
  <2>1. Kept(m, r.m)
    BY <1>a DEF MountGood, CachesOf
  <2>2. (m.lost <=> lost) /\ (m.fatlost <=> fatlost)
    BY DEF m, Before
  <2>3. fatlost => lost
    BY Zenon DEF CallsInv, FilesRight
  <2> QED BY <1>11, <2>1, <2>2, <2>3, Zenon DEF Kept
<1>13. state' \notin {"start", "exited"} /\ ~lost' => (bpb'.mounted <=> disk'.mountable)
  <2>1. SUFFICES ASSUME state' \notin {"start", "exited"}, ~lost'
                 PROVE  bpb'.mounted <=> disk'.mountable
    OBVIOUS
  <2>2. ~r.exit
    BY <1>10, <2>1
  <2>3. r.v.mounted <=> disk.mountable
    BY <1>8, <1>9, <1>11, <2>1, <2>2, Zenon
  <2>4. disk' = disk
    BY <1>2 DEF disk
  <2> QED BY <1>10, <2>3, <2>4, Zenon
<1>14. \A fd \in Fds : ~openfiles'[fd].busy
  BY <1>2 DEF CachesInv
<1>15. FilesRight'
  BY <1>12, <1>13, <1>14, Zenon DEF FilesRight
<1> QED BY <1>1, <1>3, <1>15 DEF CallsInv

LEMMA StillCalls ==
  ASSUME CallsInv, UNCHANGED vars
  PROVE  CallsInv'
<1>1. PlacesInv'
  BY NextPlaces DEF CallsInv
<1>2. /\ disk' = disk /\ bpb' = bpb /\ openfiles' = openfiles /\ io' = io /\ state' = state
      /\ medium' = medium
  BY DEF vars, disk
<1>3. (lost' <=> lost) /\ (fatlost' <=> fatlost)
  BY Zenon DEF vars
<1>4. FilesRight'
  BY <1>2, <1>3 DEF CallsInv, FilesRight
<1>5. ReadsRight'
  <2>1. ReadsRight
    BY DEF CallsInv
  <2> QED BY <1>2, <1>3, <2>1 DEF ReadsRight, At, Sectors
<1>6. OpensRight'
  <2>1. OpensRight
    BY DEF CallsInv
  <2> QED BY <1>2, <1>3, <2>1 DEF OpensRight, At, Exists
<1> QED BY <1>1, <1>4, <1>5, <1>6 DEF CallsInv

LEMMA CloseCalls ==
  ASSUME CallsInv, NEW fd \in Fds, Close(fd)
  PROVE  CallsInv'
<1>1. PlacesInv' /\ PlacesInv
  BY ClosePlaces DEF CallsInv
<1>2. openfiles' = [openfiles EXCEPT ![fd] = NoFile] /\ medium' = medium /\ bpb' = bpb
      /\ state = "run" /\ io' = NoIo
  BY DEF Close
<1>3. (lost' <=> lost) /\ (fatlost' <=> fatlost)
  BY Zenon DEF Close
<1>4. ReadsRight' /\ OpensRight'
  BY <1>2, NoCall
<1>5. \A x \in Fds : openfiles'[x] = openfiles[x] \/ ~openfiles'[x].busy
  BY <1>1, <1>2 DEF PlacesInv, CachesInv, NoFile
<1>6. FilesRight /\ state \notin {"start", "exited"}
  BY <1>2 DEF CallsInv
<1>7. FilesRight'
  <2>1. ~lost' => \A x \in Fds : \/ openfiles'[x] = openfiles[x]
                                 \/ openfiles'[x].busy => FileRight(disk, openfiles'[x])
    BY <1>5, Zenon
  <2>2. (lost => lost') /\ (fatlost' => fatlost \/ lost')
    BY <1>3, Zenon
  <2> QED BY <1>2, <1>6, <2>1, <2>2, FilesKept, Zenon
<1> QED BY <1>1, <1>4, <1>7 DEF CallsInv

(* A file that a call leaves with its path, its size and its first cluster.*)
LEMMA FileKept ==
  ASSUME NEW d, NEW file, NEW new, FileRight(d, file), SameFile(file, new), new.size = file.size
  PROVE  FileRight(d, new)
BY DEF FileRight, SameFile

LEMMA LseekCalls ==
  ASSUME CallsInv, NEW fd \in Fds, NEW offset \in Int,
         NEW whence \in {"SEEK_SET", "SEEK_CUR", "SEEK_END"}, NEW bad,
         Lseek(fd, offset, whence, bad)
  PROVE  CallsInv'
<1>1. PlacesInv /\ PlacesInv' /\ LseekDone
  BY LseekPlaces DEF CallsInv
<1>2. medium' = medium /\ bpb' = bpb /\ state = "run" /\ io' = NoIo
  BY Zenon DEF Lseek
<1>3. FilesRight /\ state \notin {"start", "exited"}
  BY <1>2 DEF CallsInv
<1>4. LostGrows
  BY <1>1, Zenon DEF LseekDone
<1>5. ASSUME ~lost', NEW x \in Fds
      PROVE  \/ openfiles'[x] = openfiles[x]
             \/ openfiles'[x].busy => FileRight(disk, openfiles'[x])
  <2>1. SUFFICES ASSUME openfiles'[x] # openfiles[x]
                 PROVE  FileRight(disk, openfiles'[x])
    BY Zenon
  <2> DEFINE file == openfiles[x]
             new == openfiles'[x]
  <2>2. file.busy /\ SameFile(file, new) /\ new.size = file.size
    BY <1>1, <2>1, Zenon DEF LseekDone
  <2>3. ~lost
    BY <1>4, <1>5, Zenon DEF LostGrows
  <2>4. FileRight(disk, file)
    BY <1>3, <2>2, <2>3, Zenon DEF FilesRight
  <2> HIDE DEF file, new
  <2>5. FileRight(disk, new)
    BY <2>2, <2>4, FileKept
  <2> QED BY <2>5 DEF new
<1>6. (lost => lost') /\ (fatlost' => fatlost \/ lost')
  BY <1>4, Zenon DEF LostGrows
<1>7. FilesRight'
  <2>1. ~lost' => \A x \in Fds : \/ openfiles'[x] = openfiles[x]
                                 \/ openfiles'[x].busy => FileRight(disk, openfiles'[x])
    BY <1>5
  <2> QED BY <1>2, <1>3, <1>6, <2>1, FilesKept, Zenon
<1> QED BY <1>1, <1>2, <1>7, NoCall DEF CallsInv

LEMMA ReadCalls ==
  ASSUME CallsInv, NEW fd \in Fds, NEW asked \in Nat, NEW bad, Read(fd, asked, bad)
  PROVE  CallsInv'
<1> DEFINE file == openfiles[fd]
           new == openfiles'[fd]
<1>1. PlacesInv /\ PlacesInv' /\ ReadCame(fd, asked)
  BY ReadPlaces DEF CallsInv
<1>2. medium' = medium /\ bpb' = bpb /\ state = "run" /\ file.busy
  BY Zenon DEF Read
<1>3. FilesRight /\ state \notin {"start", "exited"}
  BY <1>2 DEF CallsInv
<1>4. (lost => lost') /\ (fatlost' => fatlost \/ lost')
  BY <1>1, Zenon DEF ReadCame, LostGrows
<1>5. SameFile(file, new) /\ new.size = file.size
  BY <1>1, Zenon DEF ReadCame
<1>6. ~lost' => FileRight(disk, file) /\ FileRight(disk, new)
  <2>1. ~lost' => FileRight(disk, file)
    BY <1>2, <1>3, <1>4, Zenon DEF FilesRight
  <2> HIDE DEF file, new
  <2> QED BY <1>5, <2>1, FileKept
<1>7. \A x \in Fds : openfiles'[x] = openfiles[x] \/ x = fd
  <2>1. DOMAIN openfiles = Fds
    BY <1>1 DEF PlacesInv, CachesInv
  <2>2. \E t : openfiles' = [openfiles EXCEPT ![fd] = t]
    <3>1. \E t : Returned(fd, asked, t)
      BY Zenon DEF Read
    <3> QED BY <3>1, Zenon DEF Returned
  <2> QED BY <2>1, <2>2
<1>8. FilesRight'
  <2>1. ~lost' => \A x \in Fds : \/ openfiles'[x] = openfiles[x]
                                 \/ openfiles'[x].busy => FileRight(disk, openfiles'[x])
    BY <1>6, <1>7, Zenon
  <2> QED BY <1>2, <1>3, <1>4, <2>1, FilesKept, Zenon
<1>9. OpensRight'
  <2>1. io'.op # "open"
    <3>1. io'.op = "read"
      BY <1>1, Zenon DEF ReadCame
    <3> QED BY <3>1
  <2> QED BY <2>1, Zenon DEF OpensRight
<1>10. ReadsRight'
  <2> DEFINE n == Left(file, asked)
             pos == file.fileoffset
             first == file.fatfile.firstcluster
             data == io'.data
  <2>1. SUFFICES ASSUME ~lost' PROVE ReadsRight'
    BY Zenon DEF ReadsRight
  <2>2. ~fatlost'
    BY <1>8, <2>1, Zenon DEF FilesRight
  <2>3. /\ io'.fd = fd /\ io'.asked = asked /\ io'.pos = pos
        /\ IsSeq(data) /\ Len(data) = n /\ io'.ret = n
        /\ new.fileoffset = pos + n
        /\ HasBytes(disk, first, pos, data)
    BY <1>1, <2>1, <2>2, Zenon DEF ReadCame
  <2>4. /\ new.path \in DOMAIN disk.files /\ file.size = disk.files[new.path].size
        /\ first = disk.files[new.path].first
    BY <1>5, <1>6, <2>1 DEF FileRight, SameFile
  <2>5. n = Smaller(asked, disk.files[new.path].size - pos)
    BY <2>4 DEF Left
  <2>6. disk' = disk
    BY <1>2 DEF disk
  <2>7. FileGood(file)
    BY <1>1, <1>2, FilesMounted
  <2> HIDE DEF n, first, data, new
  <2>8. data = [b \in 1 .. n |-> LET p == pos + b - 1
                                 IN  <<Sec(disk, first, (p \div SECTOR_SIZE) + 1), p % SECTOR_SIZE>>]
    <3>1. PICK S : data \in Seq(S)
      BY <2>3 DEF IsSeq
    <3>2. data = [b \in 1 .. n |-> data[b]]
      BY <2>3, <3>1
    <3>3. pos \in Int
      BY <2>7 DEF FileGood
    <3> HIDE DEF pos
    <3>4. n \in Nat
      BY <2>3, <3>1
    <3>5. \A b \in 1 .. n : pos + (b - 1) = pos + b - 1
      BY <3>3, <3>4
    <3>6. \A b \in 1 .. n :
            data[b] = LET p == pos + b - 1
                      IN  <<Sec(disk, first, (p \div SECTOR_SIZE) + 1), p % SECTOR_SIZE>>
      BY <2>3, <3>5 DEF HasBytes, ByteAt
    <3> QED BY <3>2, <3>6
  <2> DEFINE there == disk.files[new.path]
             k == Smaller(asked, there.size - pos)
  <2>9. /\ io'.ret = k /\ new.fileoffset = pos + k
        /\ data = [b \in 1 .. k |-> LET p == pos + b - 1
                                   IN  <<disk.chains[there.first].sectors[(p \div SECTOR_SIZE) + 1],
                                         p % SECTOR_SIZE>>]
    <3>1. n = k /\ first = there.first
      BY <2>4, <2>5
    <3> HIDE DEF k, there
    <3> QED BY <2>3, <2>8, <3>1 DEF Sec
  <2> HIDE DEF pos
  <2>10. ReadsRight'
    <3> HIDE DEF file
    <3>1. openfiles'[io'.fd] = new /\ io'.asked = asked /\ io'.pos = pos /\ io'.data = data
      BY <2>3 DEF new, data
    <3> QED BY <2>6, <2>9, <3>1 DEF ReadsRight, At, Sectors
  <2> QED BY <2>10
<1> QED BY <1>1, <1>8, <1>9, <1>10 DEF CallsInv

(* What open answers is right when it is so of the path it was asked for.  *)
LEMMA OpenAnswers ==
  ASSUME NEW path, NEW write, NEW ret \in Int, Opened(path, write, ret), medium' = medium,
         ~lost' => (ret >= 0 <=> /\ ret # -2 /\ disk.mountable /\ path \in DOMAIN disk.files
                                 /\ ~(write /\ disk.files[path].kind = "dir")),
         ~lost' /\ ret >= 0 => FileRight(disk, openfiles'[ret]) /\ openfiles'[ret].path = path
  PROVE  ReadsRight' /\ OpensRight'
<1>1. io' = [op |-> "open", path |-> path, write |-> write, ret |-> ret]
  BY DEF Opened
<1>2. io'.op = "open" /\ io'.path = path /\ io'.ret = ret
  BY <1>1
<1>3. io'.write = write
  BY <1>1
<1>4. ReadsRight'
  <2>1. io'.op # "read"
    BY <1>2
  <2> QED BY <2>1, Zenon DEF ReadsRight
<1>5. disk' = disk
  BY DEF disk
<1>6. OpensRight'
  <2>1. SUFFICES ASSUME ~lost'
                 PROVE  /\ ret >= 0 <=> /\ ret # -2 /\ disk.mountable /\ path \in DOMAIN disk.files
                                        /\ ~(write /\ disk.files[path].kind = "dir")
                        /\ ret >= 0 => /\ openfiles'[ret].path = path
                                       /\ openfiles'[ret].size = disk.files[path].size
                                       /\ openfiles'[ret].fatfile.firstcluster = disk.files[path].first
    BY <1>2, <1>3, <1>5, Zenon DEF OpensRight, Exists, At
  <2>2. ASSUME ret >= 0
        PROVE  /\ openfiles'[ret].path = path
               /\ openfiles'[ret].size = disk.files[path].size
               /\ openfiles'[ret].fatfile.firstcluster = disk.files[path].first
    <3>1. FileRight(disk, openfiles'[ret]) /\ openfiles'[ret].path = path
      BY <2>1, <2>2, Zenon
    <3> QED BY <3>1 DEF FileRight
  <2> QED BY <2>1, <2>2, Zenon
<1> QED BY <1>4, <1>6

LEMMA OpenFailedCalls ==
  ASSUME CallsInv, NEW path, NEW write, OpenNone(path, write) \/ OpenUnmounted(path, write)
  PROVE  CallsInv'
<1>1. PlacesInv' /\ PlacesInv
  BY OpenFailedPlaces DEF CallsInv
<1>2. medium' = medium /\ bpb' = bpb /\ openfiles' = openfiles /\ state = "run"
  BY DEF OpenNone, OpenUnmounted
<1>3. (lost' <=> lost) /\ (fatlost' <=> fatlost)
  <2>1. CASE OpenNone(path, write)
    BY <2>1, Zenon DEF OpenNone
  <2>2. CASE OpenUnmounted(path, write)
    BY <2>2, Zenon DEF OpenUnmounted
  <2> QED BY <2>1, <2>2, Zenon
<1>4. FilesRight /\ state \notin {"start", "exited"}
  BY <1>2 DEF CallsInv
<1>5. FilesRight'
  <2>1. ~lost' => \A x \in Fds : \/ openfiles'[x] = openfiles[x]
                                 \/ openfiles'[x].busy => FileRight(disk, openfiles'[x])
    BY <1>2, Zenon
  <2>2. (lost => lost') /\ (fatlost' => fatlost \/ lost')
    BY <1>3, Zenon
  <2> QED BY <1>2, <1>4, <2>1, <2>2, FilesKept, Zenon
<1>6. ReadsRight' /\ OpensRight'
  <2>1. CASE OpenNone(path, write)
    <3> DEFINE ret == -2
    <3>1. Opened(path, write, ret) /\ ret \in Int /\ ret = -2 /\ ~(ret >= 0)
      BY <2>1 DEF OpenNone
    <3> HIDE DEF ret
    <3> QED BY <1>2, <3>1, OpenAnswers
  <2>2. CASE OpenUnmounted(path, write)
    <3> DEFINE ret == -4
    <3>1. Opened(path, write, ret) /\ ret \in Int /\ ~(ret >= 0)
      BY <2>2 DEF OpenUnmounted
    <3>2. ~bpb.mounted
      BY <2>2 DEF OpenUnmounted
    <3>3. ~lost' => ~disk.mountable
      BY <1>3, <1>4, <3>2, Zenon DEF FilesRight
    <3> HIDE DEF ret
    <3> QED BY <1>2, <3>1, <3>3, OpenAnswers
  <2> QED BY <2>1, <2>2
<1> QED BY <1>1, <1>5, <1>6 DEF CallsInv

LEMMA NameLast ==
  ASSUME NEW S, NEW path \in Seq(S), path # <<>>
  PROVE  LET up == SubSeq(path, 1, Len(path) - 1)
             name == path[Len(path)]
         IN  up \in Seq(S) /\ name \in S /\ path = Append(up, name)
<1> DEFINE up == SubSeq(path, 1, Len(path) - 1)
           name == path[Len(path)]
           p == Append(up, name)
           len == Len(path)
<1>1. len \in Nat /\ len # 0
  OBVIOUS
<1>2. name \in S
  BY <1>1
<1>3. up \in Seq(S) /\ Len(up) = len - 1 /\ \A i \in 1 .. len - 1 : up[i] = path[i]
  <2>1. \A k \in 0 .. Len(path) :
          LET t == SubSeq(path, 1, k)
          IN  t \in Seq(S) /\ Len(t) = k /\ \A i \in 1 .. k : t[i] = path[i]
    OBVIOUS
  <2>2. len - 1 \in 0 .. Len(path)
    BY <1>1
  <2> QED BY <2>1, <2>2
<1> HIDE DEF up, name
<1>4. p \in Seq(S) /\ Len(p) = len /\ p[len] = name /\ \A i \in 1 .. len - 1 : p[i] = up[i]
  BY <1>1, <1>2, <1>3
<1> HIDE DEF p
<1>5. \A i \in 1 .. len : p[i] = path[i]
  BY <1>1, <1>3, <1>4 DEF name
<1>6. p = path
  BY <1>4, <1>5
<1> QED BY <1>2, <1>3, <1>6 DEF p, up, name

(* What is found for a path that is opened is what is there.               *)
LEMMA OpenRight ==
  ASSUME NEW m, m.fatlost => m.lost, CachesOf(m, m, bpb), medium \in DOMAIN Media,
         disk.mountable, VolumeFits(disk, bpb), bpb = Volume(disk), EntriesTyped(disk),
         NEW path, path \in Seq(STRING), path # <<>>
  PROVE  LET s == Searched(path, rb_opendir(disk, m, bpb, SubSeq(path, 1, Len(path) - 1),
                                            sectorcache))
         IN  s.m.lost \/ SearchedAt(s, path, FALSE)
<1> DEFINE up == SubSeq(path, 1, Len(path) - 1)
           name == path[Len(path)]
           o == rb_opendir(disk, m, bpb, up, sectorcache)
           s == Searched(path, o)
<1>1. up \in Seq(STRING) /\ name \in STRING /\ path = Append(up, name)
  BY NameLast
<1>a. Len(up) \in Nat
  BY <1>1
<1>2. path \in DOMAIN disk.files => up \in Dirs(disk)
  BY ParentThere
<1>b. VolumeTyped(bpb) /\ FatTyped(disk)
  BY DEF VolumeFits
<1> HIDE DEF up
<1>3. o.m.lost \/ OpenedAt(o, up)
  BY <1>1, RbOpendirRight
<1>4. DownGood(m, o, bpb)
  BY <1>a, <1>b, RbOpendirKept
<1> HIDE DEF o
<1>5. CASE o.state # "found"
  <2>1. s = o
    BY <1>5 DEF Searched
  <2>2. o.m.lost \/ (o.state = "none" /\ up \notin Dirs(disk))
    BY <1>3, <1>5 DEF OpenedAt
  <2>3. s.m.lost \/ SearchedAt(s, path, FALSE)
    <3> HIDE DEF s
    <3> QED BY <1>2, <2>1, <2>2 DEF SearchedAt
  <2> QED BY <2>3 DEF s, o, up
<1>6. CASE o.state = "found"
  <2>1. s = scan(disk, o.m, bpb, o.dir, name, FALSE)
    BY <1>6 DEF Searched
  <2>2. o.m.lost => s.m.lost
    <3>1. DownGood(o.m, o, bpb)
      BY <1>4, KeptAll DEF DownGood, CachesOf
    <3>2. ScanGood(o.m, s, bpb)
      <4> HIDE DEF s, name
      <4> QED BY <1>b, <2>1, <3>1, ScanKept DEF DownGood
    <3> HIDE DEF s
    <3> QED BY <3>2 DEF ScanGood, CachesOf, Kept
  <2>3. ASSUME ~o.m.lost PROVE s.m.lost \/ SearchedAt(s, path, FALSE)
    <3>1. up \in Dirs(disk) /\ DirAt(disk, bpb, FirstOf(disk, up), 0, o.dir)
      BY <1>3, <1>6, <2>3 DEF OpenedAt
    <3> DEFINE dironly == FALSE
               r == scan(disk, o.m, bpb, o.dir, name, dironly)
    <3>2. r.m.lost \/ SearchedAt(r, Append(up, name), dironly)
      <4> HIDE DEF dironly, name
      <4> QED BY <1>1, <1>4, <3>1, SearchRight
    <3> HIDE DEF s, name
    <3> QED BY <1>1, <2>1, <3>2
  <2> HIDE DEF s
  <2> QED BY <2>2, <2>3 DEF s, o, up
<1> QED BY <1>5, <1>6

LEMMA OpenCalls ==
  ASSUME CallsInv, NEW path, path \in Seq(STRING), path # <<>>, NEW write, NEW bad,
         Open(path, write, bad)
  PROVE  CallsInv'
<1> DEFINE m == Before(bad)
           up == SubSeq(path, 1, Len(path) - 1)
           o == rb_opendir(disk, m, bpb, up, sectorcache)
           s == Searched(path, o)
           slot == Least(FreeFds)
           file == Filedesc(s.entry, path, write)
           made == s.state = "found" /\ ~(write /\ s.entry.kind = "dir")
<1>1. state = "run" /\ FreeFds # {} /\ bpb.mounted /\ medium' = medium /\ bpb' = bpb
      /\ Entered(path, write, s)
  BY Zenon DEF Open
<1>2. PlacesInv /\ PlacesInv'
  BY OpenPlaces DEF CallsInv
<1>3. CachesInv /\ medium \in DOMAIN Media
  BY <1>2 DEF PlacesInv, CachesInv
<1>4. CachesOf(m, m, bpb)
  BY <1>3, BeforeGood
<1>5. VolumeFits(disk, bpb) /\ bpb = Volume(disk) /\ EntriesTyped(disk)
  BY <1>1, <1>2, <1>3, VolumeThere, MediumTyped
<1>6. FilesRight /\ state \notin {"start", "exited"}
  BY <1>1 DEF CallsInv
<1>7. (m.lost <=> lost) /\ (m.fatlost <=> fatlost)
  <2>1. m.lost = lost /\ m.fatlost = fatlost
    BY DEF Before
  <2> HIDE DEF m
  <2> QED BY <2>1, Zenon
<1>8. m.fatlost => m.lost
  BY <1>6, <1>7, Zenon DEF FilesRight
<1> HIDE DEF m
<1>9. ~lost => disk.mountable
  BY <1>1, <1>6, Zenon DEF FilesRight
<1>10. CachesOf(m, s.m, bpb)
  <2>1. VolumeTyped(bpb) /\ FatTyped(disk)
    BY <1>5 DEF VolumeFits
  <2>2. Len(up) \in Nat
    <3>1. Len(path) \in Nat /\ Len(path) # 0
      OBVIOUS
    <3> QED BY <3>1
  <2> HIDE DEF up
  <2>3. DownGood(m, o, bpb)
    BY <1>4, <1>5, <2>1, <2>2, RbOpendirKept
  <2> HIDE DEF o
  <2>4. CASE o.state # "found"
    BY <2>3, <2>4 DEF Searched, DownGood
  <2>5. CASE o.state = "found"
    <3> DEFINE name == path[Len(path)]
    <3>1. s = scan(disk, o.m, bpb, o.dir, name, FALSE)
      BY <2>5 DEF Searched
    <3> HIDE DEF s, name
    <3>2. ScanGood(m, s, bpb)
      BY <1>5, <2>1, <2>3, <3>1, ScanKept DEF DownGood
    <3> QED BY <3>2 DEF ScanGood
  <2> QED BY <2>4, <2>5
<1>11. disk.mountable => s.m.lost \/ SearchedAt(s, path, FALSE)
  BY <1>3, <1>4, <1>5, <1>8, OpenRight
<1> HIDE DEF s, slot
<1> DEFINE m1 == s.m
<1>12. After(m1)
  BY <1>1, Zenon DEF Entered
<1>13. (m1.lost <=> lost') /\ (m1.fatlost <=> fatlost')
  BY <1>12, Zenon DEF After
<1>14. (lost => lost') /\ (fatlost' => fatlost \/ lost')
  <2> HIDE DEF m1
  <2>1. CachesOf(m, m1, bpb)
    BY <1>10 DEF m1
  <2> QED BY <1>3, <1>12, <2>1, LostKept DEF m
<1>15. ~lost' => disk.mountable /\ SearchedAt(s, path, FALSE)
  BY <1>9, <1>11, <1>13, <1>14, Zenon
<1>16. slot \in Fds /\ slot \in Nat
  <2>1. FreeFds \subseteq Fds /\ Fds \subseteq Nat
    BY FileAssumption DEF FreeFds, Fds
  <2>2. \E x \in FreeFds : \A y \in FreeFds : x <= y
    BY <1>1, <2>1, SmallestIn
  <2>3. slot \in FreeFds
    BY <2>2 DEF slot, Least
  <2> QED BY <2>1, <2>3
<1>17. ASSUME ~lost', made
       PROVE  /\ path \in DOMAIN disk.files /\ disk.files[path].kind = s.entry.kind
              /\ file.path = path /\ FileRight(disk, file)
  <2> DEFINE e == s.entry
  <2>1. /\ path \in DOMAIN disk.files /\ disk.files[path].kind = e.kind
        /\ disk.files[path].size = e.size /\ disk.files[path].first = e.first
    <3>1. s.state # "none"
      BY <1>17
    <3> QED BY <1>15, <1>17, <3>1, Zenon DEF SearchedAt
  <2> HIDE DEF e
  <2>2. file.path = path /\ file.size = e.size /\ file.fatfile = fat_open(e.first)
    BY DEF Filedesc, e
  <2>3. fat_open(e.first).firstcluster = e.first
    BY DEF fat_open
  <2> HIDE DEF file
  <2> QED BY <2>1, <2>2, <2>3 DEF FileRight, e
<1>18. ASSUME ~lost', ~made
       PROVE  ~(path \in DOMAIN disk.files /\ ~(write /\ disk.files[path].kind = "dir"))
  <2>1. CASE s.state = "found"
    <3>1. write /\ s.entry.kind = "dir"
      BY <1>18, <2>1, Zenon
    <3>2. s.state # "none"
      BY <2>1
    <3>3. disk.files[path].kind = s.entry.kind
      BY <1>15, <1>18, <3>2, Zenon DEF SearchedAt
    <3> QED BY <3>1, <3>3, Zenon
  <2>2. CASE s.state # "found"
    BY <1>15, <1>18, <2>2, Zenon DEF SearchedAt
  <2> QED BY <2>1, <2>2
<1>19. CASE made
  <2>1. openfiles' = [openfiles EXCEPT ![slot] = file] /\ Opened(path, write, slot)
    BY <1>1, <1>19, Zenon DEF Entered, slot
  <2> HIDE DEF file
  <2>2. DOMAIN openfiles = Fds
    BY <1>3 DEF CachesInv
  <2>3. openfiles'[slot] = file /\ \A x \in Fds : openfiles'[x] = openfiles[x] \/ openfiles'[x] = file
    BY <1>16, <2>1, <2>2
  <2>4. FilesRight'
    <3>1. ~lost' => \A x \in Fds : \/ openfiles'[x] = openfiles[x]
                                   \/ openfiles'[x].busy => FileRight(disk, openfiles'[x])
      BY <1>17, <1>19, <2>3, Zenon
    <3> QED BY <1>1, <1>6, <1>14, <3>1, FilesKept, Zenon
  <2>5. ReadsRight' /\ OpensRight'
    <3>1. slot \in Int /\ slot >= 0 /\ slot # -2
      BY <1>16
    <3>2. ~lost' => ~(write /\ disk.files[path].kind = "dir") /\ path \in DOMAIN disk.files
      BY <1>17, <1>19, Zenon
    <3>3. ~lost' => FileRight(disk, openfiles'[slot]) /\ openfiles'[slot].path = path
      BY <1>17, <1>19, <2>3, Zenon
    <3>4. ~lost' => (slot >= 0 <=> /\ slot # -2 /\ disk.mountable /\ path \in DOMAIN disk.files
                                   /\ ~(write /\ disk.files[path].kind = "dir"))
      BY <1>15, <3>1, <3>2, Zenon
    <3> HIDE DEF made
    <3> QED BY <1>1, <2>1, <3>1, <3>3, <3>4, OpenAnswers
  <2> QED BY <1>2, <2>4, <2>5 DEF CallsInv
<1>20. CASE ~made
  <2> DEFINE ret == -7
  <2>1. openfiles' = openfiles /\ Opened(path, write, ret)
    BY <1>1, <1>20, Zenon DEF Entered
  <2>2. FilesRight'
    <3>1. ~lost' => \A x \in Fds : \/ openfiles'[x] = openfiles[x]
                                   \/ openfiles'[x].busy => FileRight(disk, openfiles'[x])
      BY <2>1, Zenon
    <3> QED BY <1>1, <1>6, <1>14, <3>1, FilesKept, Zenon
  <2>3. ReadsRight' /\ OpensRight'
    <3>1. ret \in Int /\ ~(ret >= 0)
      OBVIOUS
    <3> HIDE DEF ret, made
    <3>2. ~lost' => ~(path \in DOMAIN disk.files /\ ~(write /\ disk.files[path].kind = "dir"))
      BY <1>18, <1>20, Zenon
    <3>3. ~lost' => (ret >= 0 <=> /\ ret # -2 /\ disk.mountable /\ path \in DOMAIN disk.files
                                  /\ ~(write /\ disk.files[path].kind = "dir"))
      BY <3>1, <3>2, Zenon
    <3> QED BY <1>1, <2>1, <3>1, <3>3, OpenAnswers
  <2> QED BY <1>2, <2>2, <2>3 DEF CallsInv
<1> QED BY <1>19, <1>20

LEMMA NextCalls == CallsInv /\ [Next]_vars => CallsInv'
<1> SUFFICES ASSUME CallsInv, [Next]_vars PROVE CallsInv'
  OBVIOUS
<1>1. CASE UNCHANGED vars
  BY <1>1, StillCalls
<1>2. CASE \E bad \in Bad : Mount(bad)
  BY <1>2, MountCalls
<1>3. CASE \E o \in Opens, bad \in Bad : Open(o[1], o[2], bad)
  <2>1. PICK o \in Opens, bad \in Bad : Open(o[1], o[2], bad)
    BY <1>3
  <2> DEFINE path == o[1]
             write == o[2]
  <2>2. path \in Seq(STRING) /\ path # <<>> /\ Open(path, write, bad)
    BY <2>1, FileAssumption
  <2> HIDE DEF path, write
  <2> QED BY <2>2, OpenCalls
<1>4. CASE \E o \in Opens : OpenNone(o[1], o[2]) \/ OpenUnmounted(o[1], o[2])
  BY <1>4, OpenFailedCalls
<1>5. CASE \E fd \in Fds : Close(fd)
  BY <1>5, CloseCalls
<1>6. CASE \E fd \in Fds, n \in Counts, bad \in Bad : Read(fd, n, bad)
  <2>1. Counts \subseteq Nat
    BY FileAssumption
  <2> QED BY <1>6, <2>1, ReadCalls
<1>7. CASE \E fd \in Fds, s \in Seeks, bad \in Bad : Lseek(fd, s[2], s[1], bad)
  <2>1. PICK fd \in Fds, s \in Seeks, bad \in Bad : Lseek(fd, s[2], s[1], bad)
    BY <1>7
  <2> DEFINE whence == s[1]
             offset == s[2]
  <2>2. whence \in {"SEEK_SET", "SEEK_CUR", "SEEK_END"} /\ offset \in Int /\ Lseek(fd, offset, whence, bad)
    BY <2>1, FileAssumption
  <2> HIDE DEF whence, offset
  <2> QED BY <2>2, LseekCalls
<1> QED BY <1>1, <1>2, <1>3, <1>4, <1>5, <1>6, <1>7 DEF Next

(* As long as no sector was lost, every read returns the bytes of the file *)
(* from its position on, as many as were asked for or are left, whatever   *)
(* was read and sought before and whatever else is in the caches.          *)
THEOREM ReadsAgree == Spec => []ReadsRight
<1>1. CallsInv => ReadsRight
  BY DEF CallsInv
<1> QED BY <1>1, InitCalls, NextCalls, PTL DEF Spec

(* As long as no sector was lost, a file is opened exactly if it is on the *)
(* medium and there is a descriptor for it, with its size and its first    *)
(* cluster, whatever partition it is on and however deep its path is.      *)
THEOREM OpensAgree == Spec => []OpensRight
<1>1. CallsInv => OpensRight
  BY DEF CallsInv
<1> QED BY <1>1, InitCalls, NextCalls, PTL DEF Spec
=============================================================================
