------------------------------ MODULE FatFile ------------------------------
(***************************************************************************)
(* Reading files of one FAT volume: open, read, lseek and close of         *)
(* fat/file_rb.c, over the caches, chains and directories of FatVolume.    *)
(* A call runs to its end on one thread.  During a call the device may     *)
(* fail to read one sector.  A byte is the number of the sector it was     *)
(* read from and its place in it.                                          *)
(***************************************************************************)
EXTENDS FatVolume

CONSTANTS
  Media,             \* the media that may be in the drive, by name
  MAX_OPEN_FILES,
  Counts,            \* bytes a read asks for
  Seeks,             \* pairs of an origin and a distance
  Opens,             \* pairs of a path, a sequence of names, and "to write"
  BadSectors,        \* sectors that may fail
  MaxBad             \* bound: calls in which one does

ASSUME FileAssumption ==
  /\ MAX_OPEN_FILES \in Nat \ {0} /\ MaxBad \in Nat
  /\ Counts \subseteq Nat /\ BadSectors \subseteq Nat
  /\ \A s \in Seeks :
       s[1] \in {"SEEK_SET", "SEEK_CUR", "SEEK_END"} /\ s[2] \in Int
  /\ \A o \in Opens : o[1] \in Seq(STRING) /\ o[1] # <<>>

(* What is on a medium is numbers.                                         *)
ASSUME MediaAssumption ==
  \A name \in DOMAIN Media :
    LET d == Media[name]
    IN  /\ \A c \in DOMAIN d.fat : d.fat[c] \in Nat
        /\ Len(d.parts) \in Nat
        /\ \A i \in 1 .. Len(d.parts) : d.parts[i].start \in Nat
        /\ \A s \in DOMAIN d.boot :
             /\ d.boot[s].secperclus \in Nat /\ d.boot[s].rsvd \in Nat
             /\ d.boot[s].numfats \in Nat /\ d.boot[s].fatsize \in Nat
             /\ d.boot[s].totalsectors \in Nat /\ d.boot[s].rootdirsectors \in Nat
             /\ d.boot[s].rootclus \in Nat /\ d.boot[s].fsinfo \in Nat
        /\ \A s \in DOMAIN d.dir, i \in 1 .. DIR_ENTRIES_PER_SECTOR :
             d.dir[s][i].kind \in {"file", "dir"} =>
               d.dir[s][i].first \in Nat /\ d.dir[s][i].size \in Nat

-----------------------------------------------------------------------------
(* What is on a medium fits together, as a formatter and a writer leave it: *)
(* d.chains has the clusters and the sectors of every chain by its first   *)
(* cluster, d.files what is at every path.                                 *)

(* A boot sector at s that fat_mount accepts, and what it makes of it.     *)
CanMount(d, s) ==
  /\ s \in DOMAIN d.boot /\ d.boot[s].secperclus # 0 /\ d.boot[s].sane
  /\ Bpb(d.boot[s], s).dataclusters >= Fat16Least

Volume(d) == [Bpb(d.boot[d.start], d.start) EXCEPT !.mounted = TRUE]

(* The cluster after c, and where cluster c begins.                        *)
Linked(d, c) == IF c < 0 THEN c + 1 ELSE IF d.fat[c] >= Eof THEN 0 ELSE d.fat[c]
Begins(d, v, c) ==
  d.start + v.firstdatasector + (IF c < 0 THEN c ELSE c - 2) * v.secperclus

Skipped(v, first) == IF first < 0 THEN v.rootdiroffset ELSE 0

ChainFits(d, v, first, clusters, sectors) ==
  /\ clusters # <<>> /\ clusters[1] = first
  /\ \A i \in 1 .. Len(clusters) :
       /\ clusters[i] <= v.dataclusters + 1
       /\ IF clusters[i] < 0 THEN v.is_fat16 ELSE clusters[i] \in DOMAIN d.fat \ {0, 1}
       /\ Linked(d, clusters[i]) = IF i < Len(clusters) THEN clusters[i + 1] ELSE 0
  /\ Len(sectors) + Skipped(v, first) = Len(clusters) * v.secperclus
  /\ \A k \in 1 .. Len(sectors) :
       LET p == k - 1 + Skipped(v, first)
       IN  /\ sectors[k] = Begins(d, v, clusters[(p \div v.secperclus) + 1])
                             + (p % v.secperclus)
           /\ sectors[k] > d.start

ASSUME ChainsAssumption ==
  \A name \in DOMAIN Media :
    LET d == Media[name]
    IN  \A s \in DOMAIN d.boot : CanMount(d, s) =>
      /\ s = d.start
      /\ \A first \in DOMAIN d.chains :
           /\ d.chains[first].clusters \in Seq(Int)
           /\ d.chains[first].sectors \in Seq(Nat)
           /\ ChainFits(d, Volume(d), first, d.chains[first].clusters,
                        d.chains[first].sectors)
      /\ \A t \in DOMAIN d.dir, i \in 1 .. DIR_ENTRIES_PER_SECTOR :
           LET e == d.dir[t][i]
           IN  e.kind = "file" /\ e.size # 0 =>
                 /\ e.first \in DOMAIN d.chains
                 /\ e.size <= Len(d.chains[e.first].sectors) * SECTOR_SIZE

(* Entry q of the directory in chain first, and whether a search comes to  *)
(* it and may take it.                                                     *)
EntryOf(d, first, q) ==
  DirEntry(d, d.chains[first].sectors[(q \div DIR_ENTRIES_PER_SECTOR) + 1],
           q % DIR_ENTRIES_PER_SECTOR)

EntriesOf(d, first) ==
  0 .. Len(d.chains[first].sectors) * DIR_ENTRIES_PER_SECTOR - 1

Listed(d, first, q) ==
  /\ EntryOf(d, first, q).kind \in {"file", "dir"}
  /\ \A r \in 0 .. q : EntryOf(d, first, r).kind # "end"

(* The directories, by path, and the first cluster of one.                 *)
Dirs(d) == {<<>>} \cup {path \in DOMAIN d.files : d.files[path].kind = "dir"}
FirstOf(d, path) == IF path = <<>> THEN Volume(d).rootclus ELSE d.files[path].first

(* Where a volume may begin that disk_mount tries.                         *)
Starts(d) == {0} \cup {d.parts[i].start : i \in {j \in 1 .. Len(d.parts) : d.parts[j].type = "fat"}}

(* The volume can be mounted, and goes on without a sector being written:  *)
(* the count of free clusters of a FAT32 volume is not missing.            *)
Mountable(d) ==
  /\ d.signature /\ d.start \in Starts(d) /\ CanMount(d, d.start)
  /\ Volume(d).is_fat16 \/ d.start + d.boot[d.start].fsinfo \notin d.unset

(* Every entry of the directory at path is at its own path in d.files, and *)
(* what is at a path has an entry in the directory it is in.               *)
DirFits(d, path) ==
  LET first == FirstOf(d, path)
  IN  /\ first \in DOMAIN d.chains
      /\ Len(d.chains[first].sectors) < MaxDirSectors
      /\ \A q \in EntriesOf(d, first) : Listed(d, first, q) =>
           LET e == EntryOf(d, first, q)
               there == Append(path, e.name)
           IN  /\ there \in DOMAIN d.files
               /\ d.files[there].kind = e.kind
               /\ d.files[there].size = e.size
               /\ d.files[there].first = e.first

PathFits(d, path) ==
  LET dir == SubSeq(path, 1, Len(path) - 1)
      first == FirstOf(d, dir)
  IN  /\ path # <<>> /\ dir \in Dirs(d)
      /\ \E q \in EntriesOf(d, first) :
           Listed(d, first, q) /\ EntryOf(d, first, q).name = path[Len(path)]

ASSUME FilesAssumption ==
  \A name \in DOMAIN Media :
    LET d == Media[name]
    IN  /\ d.mountable <=> Mountable(d)
        /\ d.mountable => /\ \A path \in Dirs(d) : DirFits(d, path)
                          /\ \A path \in DOMAIN d.files : PathFits(d, path)

VARIABLES
  medium,            \* the name of the medium in the drive
  state,             \* of the program: "start", "run", "exited", "hung"
  bpb,               \* fat_bpbs[volume]
  block_cache,       \* of the drive, with block_cache_lba
  fat_cache,
  sectorcache,       \* of the directory descriptor that opening a file uses
  openfiles,
  lost, fatlost,     \* history: a sector did not come; it was one of the FAT
  bads,              \* history: calls in which a sector failed
  io                 \* the last call and what it returned

vars == <<medium, state, bpb, block_cache, fat_cache, sectorcache, openfiles,
          lost, fatlost, bads, io>>

disk == Media[medium]
Fds == 0 .. MAX_OPEN_FILES - 1
NoFile == [busy |-> FALSE]
NoIo == [op |-> "none"]
Smaller(x, y) == IF x <= y THEN x ELSE y
Bytes(sec, from, n) == [i \in 1 .. n |-> <<sec, from + i - 1>>]

(* The caches before a call in which sector bad fails, and after it.       *)
Before(bad) ==
  [blk |-> block_cache, fat |-> fat_cache, lost |-> lost,
   fatlost |-> fatlost, bad |-> bad, hit |-> FALSE]

After(m) ==
  /\ m.bad # NoSector => m.hit
  /\ block_cache' = m.blk /\ fat_cache' = m.fat
  /\ lost' = m.lost /\ fatlost' = m.fatlost
  /\ bads' = IF m.bad = NoSector THEN bads ELSE bads + 1

(* One sector that fails in a call, or none. *)
Bad == BadSectors \cup {NoSector}
MayFail(bad) == bad = NoSector \/ bads < MaxBad

Init ==
  /\ medium \in DOMAIN Media
  /\ state = "start" /\ bpb = NotMounted
  /\ block_cache = [lba |-> BAD_LBA,
       buf |-> [i \in 0 .. BLOCK_CACHE_SECTOR_COUNT - 1 |-> NoSector]]
  /\ fat_cache = [x \in 0 .. FAT_CACHE_SIZE - 1 |->
       [inuse |-> FALSE, secnum |-> 8, buf |-> NoSector]]
  /\ sectorcache = NoSector
  /\ openfiles = [fd \in Fds |-> NoFile]
  /\ lost = FALSE /\ fatlost = FALSE /\ bads = 0 /\ io = NoIo

(* _fat_mount, which fat_init and disk_mount are called from.              *)
Mounted(r) ==
  /\ state' = IF r.exit THEN "exited" ELSE "run"
  /\ bpb' = r.v
  /\ After(r.m)

Mount(bad) ==
  /\ state = "start" /\ MayFail(bad)
  /\ Mounted(disk_mount(disk, Before(bad), bpb))
  /\ io' = NoIo
  /\ UNCHANGED <<medium, sectorcache, openfiles>>

-----------------------------------------------------------------------------
(* open_internal.                                                          *)

FreeFds == {fd \in Fds : ~openfiles[fd].busy}

(* struct filedesc for entry e, opened as path.                            *)
Filedesc(e, path, write) ==
  [busy |-> TRUE, write |-> write, size |-> e.size, isdir |-> e.kind = "dir",
   fileoffset |-> 0, cacheoffset |-> -1, cache |-> NoSector,
   fatfile |-> fat_open(e.first), path |-> path]

Opened(path, write, ret) ==
  io' = [op |-> "open", path |-> path, write |-> write, ret |-> ret]

OpenNone(path, write) ==
  /\ state = "run" /\ FreeFds = {}
  /\ Opened(path, write, -2)
  /\ UNCHANGED <<medium, state, bpb, block_cache, fat_cache, sectorcache,
                 openfiles, lost, fatlost, bads>>

OpenUnmounted(path, write) ==
  /\ state = "run" /\ FreeFds # {} /\ ~bpb.mounted
  /\ Opened(path, write, -4)
  /\ UNCHANGED <<medium, state, bpb, block_cache, fat_cache, sectorcache,
                 openfiles, lost, fatlost, bads>>

(* The directory o was opened for path; s is what the search in it found.  *)
Searched(path, o) ==
  IF o.state # "found" THEN o
  ELSE scan(disk, o.m, bpb, o.dir, path[Len(path)], FALSE)

Entered(path, write, s) ==
  /\ state' = IF s.state = "on" THEN "hung" ELSE "run"
  /\ After(s.m)
  /\ sectorcache' = s.dir.buf
  /\ IF s.state = "found" /\ ~(write /\ s.entry.kind = "dir")
     THEN /\ openfiles' = [openfiles EXCEPT
                             ![Least(FreeFds)] = Filedesc(s.entry, path, write)]
          /\ Opened(path, write, Least(FreeFds))
     ELSE openfiles' = openfiles /\ Opened(path, write, -7)

Open(path, write, bad) ==
  /\ state = "run" /\ FreeFds # {} /\ bpb.mounted /\ MayFail(bad)
  /\ Entered(path, write,
       Searched(path, rb_opendir(disk, Before(bad), bpb,
                                 SubSeq(path, 1, Len(path) - 1), sectorcache)))
  /\ UNCHANGED <<medium, bpb>>

(* rb_close: a file opened for writing has its directory entry written,    *)
(* and writing a sector ends the program.                                  *)
Close(fd) ==
  /\ state = "run" /\ openfiles[fd].busy
  /\ state' = IF openfiles[fd].write THEN "exited" ELSE "run"
  /\ openfiles' = [openfiles EXCEPT ![fd] = NoFile]
  /\ io' = NoIo
  /\ UNCHANGED <<medium, bpb, block_cache, fat_cache, sectorcache, lost,
                 fatlost, bads>>

-----------------------------------------------------------------------------
(* readwrite, reading.  Its three parts hand on file, the count that is    *)
(* left, what was read so far, and whether the call is over.               *)

(* The bytes that the cached sector still has.                             *)
HeadBytes(file, count) ==
  LET n == Smaller(count, SECTOR_SIZE - file.cacheoffset)
      whole == file.cacheoffset + n = SECTOR_SIZE
  IN  IF file.cacheoffset = -1 THEN [file |-> file, count |-> count, data |-> <<>>]
      ELSE [file |-> [file EXCEPT !.cacheoffset = IF whole THEN -1 ELSE @ + n],
            count |-> count - n, data |-> Bytes(file.cache, file.cacheoffset, n)]

(* Whole sectors, straight to the caller: r is what came of n of them.     *)
Wholes(h, n, r) ==
  LET file == [h.file EXCEPT !.fatfile = r.f, !.cacheoffset = -1]
      got == [b \in 1 .. Smaller(r.rc, n) * SECTOR_SIZE |->
                <<r.buf[((b - 1) \div SECTOR_SIZE) + 1], (b - 1) % SECTOR_SIZE>>]
  IN  IF r.rc < 0
      THEN [m |-> r.m, file |-> file, count |-> 0, data |-> h.data, over |-> TRUE]
      ELSE [m |-> r.m, file |-> file, data |-> h.data \o got, over |-> FALSE,
            count |-> IF r.rc < n THEN 0 ELSE h.count - n * SECTOR_SIZE]

Middle(m, h) ==
  LET n == h.count \div SECTOR_SIZE
  IN  IF n = 0 THEN [m |-> m, file |-> h.file, count |-> h.count,
                     data |-> h.data, over |-> FALSE]
      ELSE Wholes(h, n, fat_readwrite(disk, m, bpb, h.file.fatfile, n,
                                      [i \in 1 .. n |-> NoSector]))

(* What is left, from a sector that is read into the cache.                *)
FromCache(s, r) ==
  LET file == [s.file EXCEPT !.fatfile = r.f, !.cache = r.buf[1]]
  IN  IF r.rc < 1
      THEN [s EXCEPT !.m = r.m, !.over = TRUE,
                     !.file = [file EXCEPT !.cacheoffset = -1]]
      ELSE [s EXCEPT !.m = r.m, !.file = [file EXCEPT !.cacheoffset = s.count],
                     !.data = @ \o Bytes(r.buf[1], 0, s.count)]

TailBytes(s) ==
  IF s.over \/ s.count = 0 THEN s
  ELSE FromCache(s, fat_readwrite(disk, s.m, bpb, s.file.fatfile, 1, <<s.file.cache>>))

(* How much of what is asked for the file has.                             *)
Left(file, asked) == Smaller(asked, file.size - file.fileoffset)

Returned(fd, asked, t) ==
  LET n == Len(t.data)
  IN  /\ openfiles' = [openfiles EXCEPT ![fd] = [t.file EXCEPT !.fileoffset = @ + n]]
      /\ io' = [op |-> "read", fd |-> fd, pos |-> openfiles[fd].fileoffset,
                asked |-> asked, data |-> t.data,
                ret |-> IF t.over /\ n = 0 THEN -1 ELSE n]
      /\ After(t.m)

Read(fd, asked, bad) ==
  LET file == openfiles[fd]
  IN  /\ state = "run" /\ file.busy /\ ~file.isdir /\ MayFail(bad)
      /\ Returned(fd, asked,
           TailBytes(Middle(Before(bad), HeadBytes(file, Left(file, asked)))))
      /\ UNCHANGED <<medium, state, bpb, sectorcache>>

-----------------------------------------------------------------------------
(* rb_lseek.                                                               *)

(* The place to go to.                                                     *)
Target(file, offset, whence) ==
  offset + (CASE whence = "SEEK_SET" -> 0
              [] whence = "SEEK_CUR" -> file.fileoffset
              [] whence = "SEEK_END" -> file.size)

(* Whether the sector of pos has to be looked up or read.                  *)
Moved(file, pos) ==
  \/ pos \div SECTOR_SIZE # file.fileoffset \div SECTOR_SIZE
  \/ file.cacheoffset = -1 /\ pos % SECTOR_SIZE # 0

(* k is what fat_seek said, r what reading the sector of pos into the cache*)
(* did.                                                                    *)
Found(file, pos, k) ==
  IF pos % SECTOR_SIZE # 0 /\ k.rc = 0
  THEN fat_readwrite(disk, k.m, bpb, k.f, 1, <<file.cache>>)
  ELSE [m |-> k.m, f |-> k.f, rc |-> k.rc, buf |-> <<file.cache>>]

Reached(fd, pos, r) ==
  LET in == pos % SECTOR_SIZE
      moved == [openfiles[fd] EXCEPT !.fatfile = r.f, !.cache = r.buf[1]]
  IN  /\ After(r.m)
      /\ openfiles' = [openfiles EXCEPT ![fd] =
           IF r.rc < 0 THEN moved
           ELSE [moved EXCEPT !.fileoffset = pos,
                              !.cacheoffset = IF in = 0 THEN -1 ELSE in]]

SeekTo(fd, pos, bad) ==
  LET file == openfiles[fd]
      new == pos \div SECTOR_SIZE
  IN  Reached(fd, pos, Found(file, pos,
        IF new # file.fileoffset \div SECTOR_SIZE
        THEN fat_seek(disk, Before(bad), bpb, file.fatfile, new)
        ELSE [m |-> Before(bad), f |-> file.fatfile, rc |-> 0]))

(* Nothing is read: the place is outside the file, or in the cached sector.*)
Stays(fd, pos) ==
  openfiles' = IF pos < 0 \/ pos > openfiles[fd].size THEN openfiles
               ELSE [openfiles EXCEPT
                 ![fd].fileoffset = pos,
                 ![fd].cacheoffset = IF @ = -1 THEN -1 ELSE pos % SECTOR_SIZE]

Lseek(fd, offset, whence, bad) ==
  LET file == openfiles[fd]
      pos == Target(file, offset, whence)
  IN  /\ state = "run" /\ file.busy /\ MayFail(bad)
      /\ IF pos < 0 \/ pos > file.size \/ ~Moved(file, pos)
         THEN Stays(fd, pos) /\ After(Before(bad))
         ELSE SeekTo(fd, pos, bad)
      /\ io' = NoIo
      /\ UNCHANGED <<medium, state, bpb, sectorcache>>

-----------------------------------------------------------------------------
Next ==
  \/ \E bad \in Bad : Mount(bad)
  \/ \E o \in Opens, bad \in Bad : Open(o[1], o[2], bad)
  \/ \E o \in Opens : OpenNone(o[1], o[2]) \/ OpenUnmounted(o[1], o[2])
  \/ \E fd \in Fds : Close(fd)
  \/ \E fd \in Fds, n \in Counts, bad \in Bad : Read(fd, n, bad)
  \/ \E fd \in Fds, s \in Seeks, bad \in Bad : Lseek(fd, s[2], s[1], bad)

Spec == Init /\ [][Next]_vars

-----------------------------------------------------------------------------
(* Properties.  What a reader of the medium would find is in disk.files,   *)
(* by path, and in disk.chains, by first cluster.                          *)

(* What is at path.                                                        *)
At(path) == disk.files[path]
Exists(path) == disk.mountable /\ path \in DOMAIN disk.files
Sectors(first) == disk.chains[first].sectors

(* A read returns the bytes of the file at its position, as many as were   *)
(* asked for or are left, in whatever pieces and whatever order of seeks   *)
(* the program came there, and whatever the caches hold.                   *)
ReadsRight ==
  io.op = "read" /\ ~lost =>
    LET file == openfiles[io.fd]
        n == Smaller(io.asked, At(file.path).size - io.pos)
    IN  /\ io.ret = n /\ file.fileoffset = io.pos + n
        /\ io.data = [b \in 1 .. n |->
             LET p == io.pos + b - 1
             IN  <<Sectors(At(file.path).first)[(p \div SECTOR_SIZE) + 1],
                   p % SECTOR_SIZE>>]

(* The sector that file accesses next is number k of it.                   *)
NextIs(file, k) ==
  LET f == file.fatfile
      spc == bpb.secperclus
  IN  /\ ~f.eof
      /\ IF k = 0
         THEN /\ f.lastcluster = f.firstcluster /\ f.lastsector = 0
              /\ f.clusternum = 0 /\ f.sectornum = 0
         ELSE /\ f.clusternum = (k - 1) \div spc
              /\ f.sectornum = ((k - 1) % spc) + 1
              /\ f.lastcluster = disk.chains[f.firstcluster].clusters[f.clusternum + 1]
              /\ f.lastsector = Sectors(f.firstcluster)[k] - disk.start

(* The file position, the cached sector and the position in the chain      *)
(* agree after every call, also after calls in which data did not come:    *)
(* the next sector is the one at the position, or the one after the cached.*)
PositionRight ==
  ~fatlost => \A fd \in Fds :
    LET file == openfiles[fd]
        k == file.fileoffset \div SECTOR_SIZE
        in == file.fileoffset % SECTOR_SIZE
    IN  file.busy /\ ~file.isdir =>
          IF file.cacheoffset = -1 THEN in = 0 /\ NextIs(file, k)
          ELSE /\ in = file.cacheoffset /\ NextIs(file, k + 1)
               /\ lost \/ file.cache = Sectors(file.fatfile.firstcluster)[k + 1]

(* A block in the cache is whole, although blocks may come only in part;   *)
(* a sector in the FAT cache is the one it is found as, unless it failed.  *)
CachesRight ==
  /\ block_cache.lba # BAD_LBA =>
       \A i \in DOMAIN block_cache.buf : block_cache.buf[i] = block_cache.lba + i
  /\ ~fatlost => \A x \in DOMAIN fat_cache : fat_cache[x].inuse =>
       /\ fat_cache[x].buf = fat_cache[x].secnum + bpb.startsector
       /\ fat_cache[x].secnum % FAT_CACHE_SIZE = x

(* A file is opened if it is there, with its size and its first cluster,   *)
(* whatever partition and type of FAT it is on, and however deep.          *)
OpensRight ==
  io.op = "open" /\ ~lost =>
    /\ io.ret >= 0 <=> /\ io.ret # -2 /\ Exists(io.path)
                       /\ ~(io.write /\ At(io.path).kind = "dir")
    /\ io.ret >= 0 =>
         /\ openfiles[io.ret].path = io.path
         /\ openfiles[io.ret].size = At(io.path).size
         /\ openfiles[io.ret].fatfile.firstcluster = At(io.path).first
=============================================================================
