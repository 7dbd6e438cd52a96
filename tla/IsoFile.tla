------------------------------ MODULE IsoFile ------------------------------
(***************************************************************************)
(* Reading discs: the ISO 9660 file system (drivers/iso9660/iso9660.c)     *)
(* over the DVD drive (drivers/diskio/dvd.c).  A disc may be changed at    *)
(* any moment.  The drive reports that once, by failing the next command;  *)
(* every failed read of a cached block makes the file system forget what   *)
(* it knows of the disc and look at the volume descriptors again.          *)
(*                                                                         *)
(* A step is one command to the drive, or one block from the cache.  A     *)
(* unit of file data is half a sector: a place in a file is in the middle  *)
(* of a sector or at its start.                                            *)
(***************************************************************************)
EXTENDS Integers, Sequences, FiniteSets, SequencesExt

CONSTANTS
  Image,            \* Image[d]: what the sectors of disc d hold
  FirstDisc,        \* the disc in the drive at first
  PrefixPairs,         \* pairs of names: the first is a prefix of the second
  NUM_CACHE_BLOCKS, MAX_ISO_FILES,
  MaxDirect,        \* sectors read past the cache at once, 32 in the code
  MaxDepth,         \* calls of init_percd inside each other that use up the stack
  MaxSwaps,         \* bound: changes of the disc
  MaxFails          \* bound: commands that fail for another reason

\* What a sector holds that the file system interprets.  No file has extent 0:
\* its handle would look free to iso_open.
Entry == [name : STRING, rr : STRING, ucs : STRING, flags : Nat, extent : Nat \ {0}, size : Nat]
Directory == [kind : {"dir"}, entries : Seq(Entry)]
Descriptor == [kind : {"vd"}, type : Nat, level : Nat, extent : Nat, size : Nat]
NoDisc == "none"

ASSUME IsoAssumption ==
  /\ NoDisc \notin DOMAIN Image /\ FirstDisc \in DOMAIN Image \cup {NoDisc}
  /\ \A d \in DOMAIN Image : \A s \in DOMAIN Image[d] : Image[d][s] \in Directory \cup Descriptor
  /\ NUM_CACHE_BLOCKS \in Nat \ {0} /\ MAX_ISO_FILES \in Nat \ {0}
  /\ MaxDirect \in Nat \ {0} /\ MaxDepth \in Nat
  /\ MaxSwaps \in Nat /\ MaxFails \in Nat

VARIABLES
  disc, changed,    \* the disc in the drive; the drive has a change to report
  swaps, fails,     \* changes and failures until now
  icache, dcache,   \* blocks of directories and of files, least recently used first
  joliet, root, percd_done, \* of the disc: level, root_dirent, init_percd was run
  fh,               \* file handles; of: the disc the directory entry was read from
  iso,              \* the call in progress, and what it returned
  missed            \* history: a change was reported to a read past the cache

ivars == <<disc, changed, swaps, fails, icache, dcache, joliet, root, percd_done, fh, iso, missed>>

NoBlock == <<NoDisc, -1>>
Handles == 0 .. MAX_ISO_FILES - 1
Lowest(S) == CHOOSE x \in S : \A y \in S : x <= y
Lesser(x, y) == IF x <= y THEN x ELSE y
Idle == [pc |-> "idle"]
-----------------------------------------------------------------------------
(* Names.  Case and version numbers are no part of a name here: fncompare  *)
(* and ucscompare pass over both.                                          *)

\* fncompare: the name up to the end of the path's component; a trailing dot
\* of the disc's name does not count.
fncompare(e, name) == e.name = name

\* ucscompare of the converted name, utf2ucs: only in a Joliet directory.
ucscompare(e, name) == e.ucs = name

\* A Rock Ridge name is compared as far as the asked one goes.
RockRidge(e, name) == e.rr = name \/ <<name, e.rr>> \in PrefixPairs

Matches(e, name, level) ==
  IF level > 0 THEN ucscompare(e, name)
  ELSE IF e.rr # "" THEN RockRidge(e, name) ELSE fncompare(e, name)

\* The entries of a directory block that find_object may return; dir tells a
\* directory, and nothing but its bit may be set in the flags.
Candidates(block, name, dir, level) ==
  IF block.kind # "dir" THEN {}              \* the data of a file begins with 0 here
  ELSE {i \in DOMAIN block.entries :
          /\ Matches(block.entries[i], name, level)
          /\ block.entries[i].flags = (IF dir THEN 2 ELSE 0)}
-----------------------------------------------------------------------------
(* Block caches. *)

Slots(cache, s) == {k \in DOMAIN cache : cache[k].sector = s}

\* bclear_cache: the blocks keep their data.
bclear_cache(cache) == [k \in DOMAIN cache |-> [cache[k] EXCEPT !.sector = -1]]

\* bgrad_cache.
bgrad_cache(cache, k) == Append(RemoveAt(cache, k), cache[k])

\* The slot a block is loaded into: an open one, or the least recently used.
SlotFor(cache) == IF Slots(cache, -1) = {} THEN 1 ELSE Lowest(Slots(cache, -1))

\* bread_cache, when the drive does not fail: the block is the last one then.
bread_cache(cache, s) ==
  IF Slots(cache, s) # {} THEN bgrad_cache(cache, Lowest(Slots(cache, s)))
  ELSE LET k == SlotFor(cache)
       IN bgrad_cache([cache EXCEPT ![k] = [sector |-> s, holds |-> <<disc, s>>]], k)

\* What a block read from a disc holds.
Content(b) ==
  IF b[1] \in DOMAIN Image THEN IF b[2] \in DOMAIN Image[b[1]] THEN Image[b[1]][b[2]] ELSE [kind |-> "data"]
  ELSE [kind |-> "data"]
-----------------------------------------------------------------------------
(* The drive. *)

DriveReady == disc # NoDisc /\ ~changed

\* atapi_packet for READ returns an error: there is no disc, the change is
\* reported, or the sector cannot be read.
DriveFails ==
  /\ changed' = FALSE
  /\ IF DriveReady THEN fails < MaxFails /\ fails' = fails + 1 ELSE fails' = fails
  /\ UNCHANGED <<disc, swaps>>

\* dvd_request_sense: a drive that refuses the command makes it fail.  To one
\* that answers it never stops reading, as its count of 12 words passes 0 in
\* steps of 1024, and it writes past the end of its buffer.  No sense is ever
\* returned, so dvd_read_sector never retries.
SenseOutcomes == {"failed", "overrun"}

\* The user changes the disc or takes it out.
SwapDisc(d) ==
  /\ swaps < MaxSwaps /\ d # disc
  /\ disc' = d
  /\ changed' = TRUE
  /\ swaps' = swaps + 1
  /\ UNCHANGED <<fails, icache, dcache, joliet, root, percd_done, fh, iso, missed>>

DriveSame == UNCHANGED <<disc, changed, swaps, fails>>
-----------------------------------------------------------------------------
(* Forgetting a disc. *)

\* The directory blocks stay.
bclear_Data == dcache' = bclear_cache(dcache) /\ icache' = icache

bclear == dcache' = bclear_cache(dcache) /\ icache' = bclear_cache(icache)

iso_break_all == fh' = [h \in Handles |-> [fh[h] EXCEPT !.broken = TRUE]]

iso_reset ==
  /\ iso_break_all
  /\ bclear
  /\ percd_done' = FALSE
  /\ missed' = FALSE

\* fs_iso9660_init, when the drive is mounted; handle 0 is never given out.
IsoInit ==
  /\ disc = FirstDisc
  /\ changed = FALSE
  /\ swaps = 0 /\ fails = 0
  /\ icache = [k \in 1 .. NUM_CACHE_BLOCKS |-> [sector |-> -1, holds |-> NoBlock]]
  /\ dcache = icache
  /\ joliet = 0 /\ root = [extent |-> 0, size |-> 0] /\ percd_done = FALSE
  /\ fh = [h \in Handles |-> [first |-> IF h = 0 THEN -1 ELSE 0, ptr |-> 0, size |-> 0,
                              broken |-> FALSE, of |-> NoDisc]]
  /\ iso = Idle
  /\ missed = FALSE

Returned(x) == [pc |-> "ret", op |-> iso.op, ret |-> x]

\* Blocks are looked for one at a time: for the volume descriptors, for a
\* directory, for a file.
Wanted ==
  CASE iso.pc = "percd" -> IF iso.k <= 3 THEN 16 + iso.k ELSE 16
    [] iso.pc = "find"  -> iso.extent
    [] iso.pc = "copy"  -> fh[iso.h].first + fh[iso.h].ptr \div 2

\* A block that is neither cached nor read: the failed read may have begun to
\* overwrite its slot.  init_percd is called from inside, with a reset; the
\* call it was read for fails when that has returned, unless it is the primary
\* volume descriptor: init_percd then returns the number of its loop, 4.
BlockFails(cache) ==
  /\ Slots(cache, Wanted) = {}
  /\ DriveFails
  /\ \E sense \in SenseOutcomes :
       IF sense = "overrun" \/ iso.depth = MaxDepth
       THEN /\ iso' = [pc |-> "lost"]
            /\ UNCHANGED <<icache, dcache, joliet, percd_done, fh, missed>>
       ELSE /\ iso_reset
            /\ joliet' = 0
            /\ iso' = [iso EXCEPT !.pc = "percd", !.k = 1, !.depth = @ + 1,
                                  !.goes_on = IF iso.depth = 0 THEN iso.pc = "percd" /\ iso.k = 4 ELSE @]
  /\ UNCHANGED root
-----------------------------------------------------------------------------
(* Opening. *)

\* iso_open.  mode is O_RDONLY; fs_iso9660 looks at the disc when it has to.
StartOpen(path) ==
  /\ iso' = [pc |-> IF percd_done THEN "find" ELSE "percd", op |-> "open", k |-> 1, depth |-> 0,
             goes_on |-> FALSE, path |-> path, extent |-> root.extent, left |-> root.size]
  /\ IF percd_done THEN UNCHANGED <<icache, dcache, joliet, percd_done, fh, missed>>
                   ELSE iso_reset /\ joliet' = 0
  /\ DriveSame /\ UNCHANGED root

\* After init_percd: the search starts in the root directory.
Search(r) == [iso EXCEPT !.pc = "find", !.extent = r.extent, !.left = r.size]

\* isjoliet, for the supplementary descriptors; a primary one of any kind.
Accepted(vd) ==
  vd.kind = "vd" /\ (IF iso.k <= 3 THEN vd.type = 2 /\ vd.level > 0 ELSE vd.type = 1)

\* init_percd returns.  From inside a read, what it has found is for the next call.
PercdReturns(ok, r) ==
  LET on == IF iso.depth = 0 THEN ok ELSE iso.goes_on
  IN /\ percd_done' = on
     /\ iso' = IF on THEN Search(r) ELSE Returned(IF iso.op = "open" THEN 0 ELSE -1)

\* One descriptor of init_percd: 17, 18 and 19 for Joliet, else 16.
Percd ==
  /\ iso.pc = "percd"
  /\ DriveReady
  /\ icache' = bread_cache(icache, Wanted)
  /\ LET vd == Content(Last(icache').holds)
     IN IF Accepted(vd)
        THEN /\ joliet' = IF iso.k <= 3 THEN vd.level ELSE 0
             /\ root' = [extent |-> vd.extent, size |-> vd.size]
             /\ PercdReturns(TRUE, root')
        ELSE /\ UNCHANGED <<joliet, root>>
             /\ IF iso.k <= 3 THEN iso' = [iso EXCEPT !.k = @ + 1] /\ UNCHANGED percd_done
                              ELSE PercdReturns(FALSE, root)
  /\ DriveSame /\ UNCHANGED <<dcache, fh, missed>>

PercdFails == iso.pc = "percd" /\ BlockFails(icache)

\* The end of iso_open: a free handle, or 0.
Opened(e, of) ==
  LET free == {h \in Handles : fh[h].first = 0}
  IN IF free = {} THEN iso' = Returned(0) /\ UNCHANGED fh
     ELSE /\ iso' = Returned(Lowest(free))
          /\ fh' = [fh EXCEPT ![Lowest(free)] =
                      [first |-> e.extent, ptr |-> 0, size |-> e.size, broken |-> FALSE, of |-> of]]

\* One block of find_object, under find_object_path.
Find ==
  /\ iso.pc = "find"
  /\ iso.left > 0
  /\ Slots(icache, iso.extent) # {} \/ DriveReady
  /\ icache' = bread_cache(icache, iso.extent)
  /\ LET b == Last(icache').holds
         block == Content(b)
         found == Candidates(block, Head(iso.path), Len(iso.path) > 1, joliet)
     IN IF found = {}
        THEN iso' = [iso EXCEPT !.extent = @ + 1, !.left = @ - 1] /\ UNCHANGED fh
        ELSE LET e == block.entries[Lowest(found)]
             IN IF Len(iso.path) = 1 THEN Opened(e, b[1])
                ELSE /\ iso' = [iso EXCEPT !.path = Tail(@), !.extent = e.extent, !.left = e.size]
                     /\ UNCHANGED fh
  /\ DriveSame /\ UNCHANGED <<dcache, joliet, root, percd_done, missed>>

NotFound ==
  /\ iso.pc = "find" /\ iso.left = 0
  /\ iso' = Returned(0)
  /\ DriveSame /\ UNCHANGED <<icache, dcache, joliet, root, percd_done, fh, missed>>

FindFails == iso.pc = "find" /\ iso.left > 0 /\ BlockFails(icache)
-----------------------------------------------------------------------------
(* Reading, closing, seeking. *)

MayUse(h) == fh[h].first # 0 /\ ~fh[h].broken

\* iso_read.
StartRead(h, n) ==
  /\ iso' = IF MayUse(h)
            THEN [pc |-> "copy", op |-> "read", k |-> 1, depth |-> 0, goes_on |-> FALSE,
                  h |-> h, n |-> n, from |-> fh[h].ptr, got |-> <<>>, ret |-> 0]
            ELSE [pc |-> "ret", op |-> "read", ret |-> -1]
  /\ DriveSame /\ UNCHANGED <<icache, dcache, joliet, root, percd_done, fh, missed>>

\* What is left of the call, at the end of the file or of the request 0.
ToRead == Lesser(iso.n - Len(iso.got), fh[iso.h].size - fh[iso.h].ptr)
Whole == fh[iso.h].ptr % 2 = 0 /\ ToRead >= 2

\* The bytes a turn of the loop copies.
Copied(units) ==
  /\ iso' = [iso EXCEPT !.got = @ \o units]
  /\ fh' = [fh EXCEPT ![iso.h].ptr = @ + Len(units)]

Halves(b, from, n) == [i \in 1 .. n |-> <<b[1], b[2] + (from + i - 1) \div 2, (from + i - 1) % 2>>]

\* Whole sectors go past the cache.
ReadDirect ==
  /\ iso.pc = "copy" /\ Whole
  /\ DriveReady
  /\ Copied(Halves(<<disc, Wanted>>, 0, 2 * Lesser(ToRead \div 2, MaxDirect)))
  /\ DriveSame /\ UNCHANGED <<icache, dcache, joliet, root, percd_done, missed>>

\* Nothing is reset: the call fails, and the file system learns of no change.
DirectFails ==
  /\ iso.pc = "copy" /\ Whole
  /\ DriveFails
  /\ \E sense \in SenseOutcomes :
       iso' = IF sense = "overrun" THEN [pc |-> "lost"] ELSE Returned(-1)
  /\ missed' = (missed \/ changed)
  /\ UNCHANGED <<icache, dcache, joliet, root, percd_done, fh>>

\* Part of a sector comes from the cache.
ReadPart ==
  /\ iso.pc = "copy" /\ ToRead > 0 /\ ~Whole
  /\ Slots(dcache, Wanted) # {} \/ DriveReady
  /\ dcache' = bread_cache(dcache, Wanted)
  /\ Copied(Halves(Last(dcache').holds, fh[iso.h].ptr % 2, 1))
  /\ DriveSame /\ UNCHANGED <<icache, joliet, root, percd_done, missed>>

PartFails == iso.pc = "copy" /\ ToRead > 0 /\ ~Whole /\ BlockFails(dcache)

ReadEnd ==
  /\ iso.pc = "copy" /\ ToRead = 0
  /\ iso' = [iso EXCEPT !.pc = "ret", !.ret = Len(iso.got)]
  /\ DriveSame /\ UNCHANGED <<icache, dcache, joliet, root, percd_done, fh, missed>>

\* iso_close looks at nothing but the number.
Close(h) ==
  /\ fh' = [fh EXCEPT ![h].first = 0]
  /\ DriveSame /\ UNCHANGED <<icache, dcache, joliet, root, percd_done, iso, missed>>

\* iso_seek: the position is unsigned, so that one before the start is a large
\* one, and is cut to the end.
Seek(h, whence, offset) ==
  LET to == offset + (CASE whence = "SEEK_SET" -> 0 [] whence = "SEEK_CUR" -> fh[h].ptr
                        [] whence = "SEEK_END" -> fh[h].size)
  IN /\ fh' = IF ~MayUse(h) THEN fh
              ELSE [fh EXCEPT ![h].ptr = IF to < 0 \/ to > fh[h].size THEN fh[h].size ELSE to]
     /\ DriveSame /\ UNCHANGED <<icache, dcache, joliet, root, percd_done, iso, missed>>

IsoStep ==
  \/ Percd \/ PercdFails \/ Find \/ NotFound \/ FindFails
  \/ ReadDirect \/ DirectFails \/ ReadPart \/ PartFails \/ ReadEnd
-----------------------------------------------------------------------------
\* Every block in a cache is the sector of the disc it is cached as.
CachesOfDisc ==
  \A c \in {icache, dcache} : \A k \in DOMAIN c :
    c[k].sector # -1 => c[k].holds = <<disc, c[k].sector>>

\* A handle that is not broken is of a file of the disc.
HandlesOfDisc == \A h \in Handles \ {0} : MayUse(h) => fh[h].of = disc

\* A read that succeeds has the bytes of the file its handle was opened on,
\* from where the handle was, and as many as the file has.
ReadAsOpened ==
  iso.pc = "ret" /\ iso.op = "read" /\ iso.ret >= 0 =>
    LET f == fh[iso.h]
    IN /\ iso.got = Halves(<<f.of, f.first>>, iso.from, Lesser(iso.n, f.size - iso.from))
       /\ f.ptr = iso.from + iso.ret

\* Nothing that was read from one disc is taken for another's: once the drive
\* has reported a change, unless it was to a read past the cache, the caches
\* and the handles that still work are those of the disc in the drive.
DiscSound ==
  ~missed /\ iso.pc # "lost" =>
    /\ ~changed => CachesOfDisc /\ HandlesOfDisc
    /\ ReadAsOpened

\* The same, whichever read the change was reported to.
HandlesBroken == ~changed /\ iso.pc # "lost" => HandlesOfDisc
=============================================================================
