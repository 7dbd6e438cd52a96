---------------------------- MODULE MCStorage ----------------------------
(* A small instance of Storage: two discs whose root directories lie at   *)
(* the same place, one of them with Joliet names, and one port.           *)
EXTENDS Storage

File(n, e, s) == [name |-> n, rr |-> "", ucs |-> n, flags |-> 0, extent |-> e, size |-> s]
Folder(n, e, s) == [File(n, e, s) EXCEPT !.flags = 2]
VD(t, l) == [kind |-> "vd", type |-> t, level |-> l, extent |-> 20, size |-> 1]
Dir(es) == [kind |-> "dir", entries |-> es]

MCImage ==
  [one |-> (16 :> VD(1, 0) @@ 17 :> VD(2, 1)
             @@ 20 :> Dir(<<File("a", 30, 3), Folder("d", 21, 1)>>)
             @@ 21 :> Dir(<<File("b", 40, 1)>>)),
   two |-> (16 :> VD(1, 0)
             @@ 20 :> Dir(<<[File("x", 50, 2) EXCEPT !.rr = "ab"], File("a", 31, 3)>>))]

Interface == [type |-> "interface", subclass |-> "SCSI", protocol |-> "bulk-only"]
Endpoint(d) == [type |-> "endpoint", dir |-> d]
MCConfigs ==
  {<<Interface, Endpoint("in"), Endpoint("out")>>,
   <<Interface, Endpoint("in"), Endpoint("in"), Endpoint("out")>>}

MCPrefixPairs == {<<"a", "ab">>}
MCIsoPaths == {<<"a">>, <<"d", "b">>}
=============================================================================
