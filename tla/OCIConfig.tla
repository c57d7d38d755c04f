------------------------------ MODULE OCIConfig ------------------------------
(***************************************************************************)
(* moby/config.go: how the options of an image in the yaml file, of the    *)
(* label of the image and of its own config make the OCI spec.  A pointer  *)
(* that may be nil is a sequence of at most one value.                     *)
(***************************************************************************)
EXTENDS Integers, Sequences, SequencesExt, TLC

(* ImageConfig, all of it nil or empty.  Left out: ipc, uts and users, which *)
(* are the host's by default, and what is handed on as it is, such as the   *)
(* environment, the host name and the sysctls.  Of the namespaces to bind,  *)
(* two stand for the seven.                                                *)
NoImageConfig == [caps |-> <<>>, capsAdd |-> <<>>, ambient |-> <<>>, net |-> "", pid |-> "", tmpfs |-> <<>>, binds |-> <<>>,
                  bindsAdd |-> <<>>, mounts |-> <<>>, devices |-> <<>>, resources |-> <<>>, rlimits |-> <<>>, uid |-> <<>>, gid |-> <<>>,
                  gids |-> <<>>, readonly |-> <<>>, command |-> <<>>, runtime |-> <<>>]
NoRuntime     == [cgroups |-> <<>>, mounts |-> <<>>, mkdir |-> <<>>, interfaces |-> <<>>, bindNet |-> <<>>, bindPid |-> <<>>, namespace |-> <<>>]

(* NewImage: the label of an image is an object that satisfies the schema   *)
(* (ok) and sets neither name nor image.                                   *)
NoLabel          == [ok |-> TRUE, name |-> "", image |-> "", cfg |-> NoImageConfig]
BadLabel(label)  == ~label.ok \/ label.name # "" \/ label.image # ""

(* assignBool, assignStrings, assignInterface ...: the yaml file's value if *)
(* it has one, else the label's, else the default.                         *)
LabelFirst(label, yaml, default) == IF label # <<>> THEN label[1] ELSE IF yaml # <<>> THEN yaml[1] ELSE default   \* faulty
assign(label, yaml, default)     == IF yaml # <<>> THEN yaml[1] ELSE IF label # <<>> THEN label[1] ELSE default
assign3(image, label, yaml)      == assign(label, yaml, image)

(* assignStringEmpty3: the same for strings, where empty is nil.           *)
assignEmpty(default, label, yaml) == IF yaml # "" THEN yaml ELSE IF label # "" THEN label ELSE default

(* mergeStrings: all of both, nothing removed.                             *)
mergeStrings(v1, v2) ==
  CASE v1 = <<>> /\ v2 = <<>> -> << <<>> >>
    [] v2 = <<>> -> v1
    [] v1 = <<>> -> v2
    [] OTHER     -> <<v1[1] \o v2[1]>>

(* Capabilities: a single "none" or "all" stands for none or all.          *)
AllCaps   == <<"CAP_A", "CAP_B">>
Expand(s) == IF s = <<"none">> THEN <<>> ELSE IF s = <<"all">> THEN AllCaps ELSE s
Effective(label, yaml) == Expand(assign(mergeStrings(label.caps, yaml.capsAdd), yaml.caps, <<>>))
Ambient(label, yaml)   == Expand(assign(label.ambient, yaml.ambient, <<>>))
Bounding(label, yaml)  == ToSet(Effective(label, yaml)) \cup ToSet(Ambient(label, yaml))

(* Namespaces: of the host unless something else is asked for, but a new    *)
(* one for processes; a path is joined.                                    *)
Joined(kind, ns)    == IF ns = "new" \/ (kind = "network" /\ ns = "none") THEN "" ELSE ns
Namespace(kind, ns) == IF ns \in {"host", "root"} THEN {} ELSE {[type |-> kind, path |-> Joined(kind, ns)]}
Namespaces(label, yaml) ==
  Namespace("network", assignEmpty("root", label.net, yaml.net))
  \cup Namespace("pid", assignEmpty("", label.pid, yaml.pid))
  \cup {[type |-> "mount", path |-> ""]}

(* Mounts, one for each destination: the standard ones, then tmpfs, binds  *)
(* and mounts, each taking the place of what is there.  /dev and /sys are   *)
(* read-only with the root.                                                *)
Mount(t, src, ro)  == [type |-> t, source |-> src, ro |-> ro]
Standard(readonly) ==
  ("/proc" :> Mount("proc", <<"proc">>, FALSE)) @@ ("/dev" :> Mount("tmpfs", <<"tmpfs">>, readonly))
  @@ ("/sys" :> Mount("sysfs", <<"sysfs">>, readonly))
Tmpfs(label, yaml) == [d \in ToSet(assign(label.tmpfs, yaml.tmpfs, <<>>)) |-> Mount("tmpfs", <<"tmpfs">>, FALSE)]
Over(f, b)         == (b.dest :> Mount("bind", b.source, b.ro)) @@ f
Binds(label, yaml) == FoldLeft(Over, [d \in {} |-> ""], assign(mergeStrings(label.binds, yaml.bindsAdd), yaml.binds, <<>>))
Mounts(label, yaml) == FoldLeft(Over, [d \in {} |-> ""], assign(label.mounts, yaml.mounts, <<>>))
AllMounts(label, yaml, readonly) == Mounts(label, yaml) @@ Binds(label, yaml) @@ Tmpfs(label, yaml) @@ Standard(readonly)

(* IDNumeric: a number, root, or the name of a container; no id is root.    *)
KnownID(id, ids)   == id \in {"", "root"} \cup DOMAIN ids
IDNumeric(id, ids) == IF id \in DOMAIN ids THEN ids[id] ELSE 0

(* Limits, whose type may be given without the prefix: a type, a soft and a *)
(* hard limit, which is a number or "unlimited", the greatest one.         *)
LimitType  == ("nofile" :> "RLIMIT_NOFILE") @@ ("RLIMIT_NOFILE" :> "RLIMIT_NOFILE") @@ ("core" :> "RLIMIT_CORE")
LimitValue == ("0" :> "0") @@ ("1024" :> "1024") @@ ("unlimited" :> "18446744073709551615")
BadLimit(rs) == Len(rs) # 3 \/ rs[1] \notin DOMAIN LimitType \/ {rs[2], rs[3]} \ DOMAIN LimitValue # {}
Limit(rs)    == [type |-> LimitType[rs[1]], soft |-> LimitValue[rs[2]], hard |-> LimitValue[rs[3]]]
LimitStrings(label, yaml) == assign(label.rlimits, yaml.rlimits, <<>>)
Rlimits(label, yaml) == LET l == LimitStrings(label, yaml) IN [k \in DOMAIN l |-> Limit(l[k])]

(* Devices, and the rules of the cgroup that allow their use: all of a type *)
(* for "all", which makes no device, or the one.                           *)
OctalModes == {"0666", "0600"}
Devices(label, yaml)  == assign(label.devices, yaml.devices, <<>>)
BadMode(d)            == d.path # "all" /\ d.mode \notin OctalModes
deviceCgroup(d)       == [type |-> d.type, num |-> IF d.path = "all" THEN <<>> ELSE d.num]
LinuxDevices(label, yaml) == SelectSeq(Devices(label, yaml), LAMBDA d : d.path # "all")
Resources(label, yaml) ==
  LET ds == Devices(label, yaml) IN
  assign(label.resources, yaml.resources, <<>>) \o [k \in DOMAIN ds |-> deviceCgroup(ds[k])]

(* assignRuntime: field by field.                                          *)
assignRuntime(label, yaml) ==
  LET v1 == assign(<<>>, label.runtime, NoRuntime)
      v2 == assign(<<>>, yaml.runtime, NoRuntime)
  IN  [f \in DOMAIN NoRuntime |-> assign(v1[f], v2[f], <<>>)]

(* ConfigToOCI.  It fails on a bad label and on a capability, a limit, an   *)
(* id or a mode that is unknown.                                           *)
IDs(label, yaml) == <<assign(label.uid, yaml.uid, ""), assign(label.gid, yaml.gid, "")>> \o assign(label.gids, yaml.gids, <<>>)
OCIError(label, yaml, ids) ==
  \/ \E c \in Bounding(label, yaml) : c \notin ToSet(AllCaps)
  \/ \E rs \in ToSet(LimitStrings(label, yaml)) : BadLimit(rs)
  \/ \E id \in ToSet(IDs(label, yaml)) : ~KnownID(id, ids)
  \/ \E d \in ToSet(Devices(label, yaml)) : BadMode(d)
ConfigToOCI(command, label, yaml, ids) ==
  LET readonly == assign(label.readonly, yaml.readonly, FALSE)
      user     == IDs(label, yaml)
  IN  [args |-> assign3(command, label.command, yaml.command), user |-> [k \in DOMAIN user |-> IDNumeric(user[k], ids)],
       readonly |-> readonly, effective |-> Effective(label, yaml), ambient |-> Ambient(label, yaml),
       bounding |-> Bounding(label, yaml), rlimits |-> Rlimits(label, yaml), namespaces |-> Namespaces(label, yaml),
       mounts |-> AllMounts(label, yaml, readonly), devices |-> LinuxDevices(label, yaml), resources |-> Resources(label, yaml)]
NoOCI == [args |-> [name |-> "", v |-> 0], user |-> <<0, 0>>, readonly |-> FALSE, effective |-> <<>>, ambient |-> <<>>, bounding |-> {},
          rlimits |-> <<>>, namespaces |-> {}, mounts |-> [d \in {} |-> ""], devices |-> <<>>, resources |-> <<>>]
===============================================================================
