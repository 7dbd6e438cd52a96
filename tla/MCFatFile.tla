---------------------------- MODULE MCFatFile ----------------------------
(* Small instances of FatFile for TLC.                                     *)
EXTENDS FatFile, TLC

File(name, first, size) ==
  [kind |-> "file", name |-> name, first |-> first, size |-> size]
Dir(name, first) == [kind |-> "dir", name |-> name, first |-> first, size |-> 0]
Free == [kind |-> "free"]
Other == [kind |-> "long"]
Info(kind, size, first) == [kind |-> kind, size |-> size, first |-> first]
Chain(clusters, sectors) == [clusters |-> clusters, sectors |-> sectors]

(* FAT32 in the second partition: boot sector at 1, the FAT at 3 .. 7, two *)
(* sectors a cluster from 8 on.  a is fragmented, its second and third     *)
(* clusters adjoin; the root directory fills its cluster; b is empty.      *)
Fat32 ==
  [size |-> 22, signature |-> TRUE, mountable |-> TRUE,
   start |-> 1, unset |-> {},
   parts |-> <<[type |-> "other", start |-> 4], [type |-> "fat", start |-> 1]>>,
   boot |-> [s \in {1} |-> [secperclus |-> 2, rsvd |-> 2, numfats |-> 1,
               fatsize |-> 5, totalsectors |-> 21, rootdirsectors |-> 0,
               rootclus |-> 2, fsinfo |-> 1, sane |-> TRUE]],
   fat |-> [c \in 0 .. 8 |-> CASE c \in {0, 1} -> Eof [] c = 2 -> Eof
              [] c = 3 -> Eof [] c = 6 -> 0 [] c = 4 -> 5 [] c = 5 -> Eof
              [] c = 7 -> Eof [] c = 8 -> 4],
   dir |-> [s \in 8 .. 11 |->
             CASE s = 8 -> <<Other, File("a", 8, 9)>>
               [] s = 9 -> <<Dir("d", 3), File("b", 0, 0)>>
               [] s = 10 -> <<Free, File("c", 7, 4)>>
               [] s = 11 -> <<EndOfDir, File("x", 7, 4)>>],
   chains |-> 2 :> Chain(<<2>>, <<8, 9>>) @@ 3 :> Chain(<<3>>, <<10, 11>>)
           @@ 7 :> Chain(<<7>>, <<18, 19>>)
           @@ 8 :> Chain(<<8, 4, 5>>, <<20, 21, 12, 13, 14, 15>>),
   files |-> <<"a">> :> Info("file", 9, 8) @@ <<"b">> :> Info("file", 0, 0)
          @@ <<"d">> :> Info("dir", 0, 3) @@ <<"d", "c">> :> Info("file", 4, 7)]

(* FAT16 without partitions: the FAT at 1 .. 2, three sectors of root      *)
(* directory at 3 .. 5, which are not a whole number of clusters, and      *)
(* clusters of two sectors from 6 on.                                      *)
Fat16 ==
  [size |-> 16, signature |-> TRUE, mountable |-> TRUE,
   start |-> 0, unset |-> {},
   parts |-> <<[type |-> "other", start |-> 3]>>,
   boot |-> [s \in {0} |-> [secperclus |-> 2, rsvd |-> 1, numfats |-> 1,
               fatsize |-> 2, totalsectors |-> 16, rootdirsectors |-> 3,
               rootclus |-> 0, fsinfo |-> 0, sane |-> TRUE]],
   fat |-> [c \in 0 .. 6 |-> CASE c \in {0, 1} -> Eof [] c = 2 -> 6
              [] c = 6 -> Eof [] c = 3 -> 0 [] c = 4 -> Eof [] c = 5 -> Eof],
   dir |-> [s \in 3 .. 5 |->
             CASE s = 3 -> <<Free, Free>>
               [] s = 4 -> <<Other, Dir("d", 4)>>
               [] s = 5 -> <<File("a", 2, 5), Free>>]
          @@ [s \in 10 .. 11 |->
             CASE s = 10 -> <<File("c", 5, 4), EndOfDir>>
               [] s = 11 -> <<Free, Free>>],
   chains |-> -2 :> Chain(<<-2, -1>>, <<3, 4, 5>>)
           @@ 2 :> Chain(<<2, 6>>, <<6, 7, 14, 15>>)
           @@ 4 :> Chain(<<4>>, <<10, 11>>) @@ 5 :> Chain(<<5>>, <<12, 13>>),
   files |-> <<"a">> :> Info("file", 5, 2) @@ <<"d">> :> Info("dir", 0, 4)
          @@ <<"d", "c">> :> Info("file", 4, 5)]

(* What cannot be mounted: too small to be FAT16.                          *)
Fat12 ==
  [Fat16 EXCEPT !.mountable = FALSE, !.boot[0].totalsectors = 10]

(* What the mount would have to write to: no count of free clusters.       *)
Unset == [Fat32 EXCEPT !.unset = {2}, !.mountable = FALSE]

MCMedia == [fat32 |-> Fat32, fat16 |-> Fat16, fat12 |-> Fat12, unset |-> Unset]
MCOpens == {<<<<"a">>, FALSE>>, <<<<"d", "c">>, TRUE>>, <<<<"d">>, TRUE>>,
            <<<<"d", "x">>, FALSE>>}
MCSeeks == {<<"SEEK_SET", 3>>, <<"SEEK_CUR", 3>>, <<"SEEK_END", -5>>}
MCBad == {5, 14}
=============================================================================
