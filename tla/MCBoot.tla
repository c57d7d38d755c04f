-------------------------------- MODULE MCBoot --------------------------------
(* Two drives, the first of which may be blank, hold a file system without *)
(* a table, or hold one in a partition; and machines that look for their   *)
(* metadata.                                                               *)
EXTENDS Boot

TwoDrives == <<"sda", "nbd9">>
NineLast  == [sda |-> -1, nbd9 |-> 9]

Blank   == [size |-> 6, label |-> "none", parts |-> <<>>, fs |-> NoFs]
Whole   == [Blank EXCEPT !.fs = [start |-> 0, size |-> 6, data |-> 0]]
Data(l) ==
  LET s == IF l = "gpt" THEN 4 ELSE 5 IN
  [size |-> 6, label |-> l, parts |-> <<[start |-> 1, size |-> s, linux |-> TRUE]>>,
   fs |-> [start |-> 1, size |-> s, data |-> 0]]
Other   == [Data("dos") EXCEPT !.parts = <<[start |-> 1, size |-> 5, linux |-> FALSE]>>]

NoUser   == [raw |-> "none", tree |-> {}]
Entry(p, k) == [path |-> p, kind |-> k, perm |-> "ok"]
UserTree ==
  [raw |-> "json",
   tree |-> {Entry(<<"hostname">>, "file"), Entry(<<"ssh">>, "dir"), Entry(<<"ssh", "key">>, "file"),
             Entry(<<"x", "y">>, "both")}]
NoPlatform == [name |-> "file", lacks |-> {<<"file", "user-data">>}, userdata |-> NoUser]

Opt(f, l, t, s, m) == [force |-> f, label |-> l, type |-> t, stop |-> s, device |-> m]
DiskMachines ==
  { [image |-> [onboot |-> <<"format", "extend", "mount">>, memory |-> FALSE, v1 |-> FALSE], platform |-> NoPlatform,
     disk |-> [sda |-> a, nbd9 |-> b], opts |-> o] :
    a \in {Blank, Whole, Data("dos"), Data("gpt"), Other}, b \in {Blank, Data("dos")},
    o \in {Opt("no", "dos", "ext4", TRUE, "none"), Opt("sda", "gpt", "xfs", FALSE, "sda")} }
MetadataMachines ==
  { [image |-> [onboot |-> <<"metadata">>, memory |-> TRUE, v1 |-> u = NoUser],
     disk |-> [d \in {"sda", "nbd9"} |-> [Blank EXCEPT !.size = 7]], opts |-> Opt("no", "dos", "ext4", TRUE, "none"),
     platform |-> [name |-> p, lacks |-> l, userdata |-> u]] :
    p \in {"aws", "gcp", "hetzner", "openstack", "scaleway", "vultr", "digitalocean", "equinixmetal", "metaldata",
           "vmware", "cdrom", "file"},
    l \in {{}, {<<"latest", "public-ipv4">>, <<"digitalocean", "private_ipv4">>},
           {<<"latest", "public-keys">>, <<"equinix", "network">>}},
    u \in {NoUser, [NoUser EXCEPT !.raw = "ipxe"], UserTree} }
AllMachines == DiskMachines \cup MetadataMachines

DefaultProviders ==
  <<"aws", "gcp", "hetzner", "openstack", "scaleway", "vultr", "digitalocean", "equinixmetal", "metaldata",
    "vmware", "cdrom", "file">>
ArgumentLists == {DefaultProviders, <<"file", "hetzner", "cdrom">>}

SaveOnShutdown == <<"save">>
RootTree == [bin |-> "dir", sh |-> "file", ln |-> "link", tty |-> "device", mnt |-> "other"]
===============================================================================
