------------------------------- MODULE Metadata -------------------------------
(***************************************************************************)
(* pkg/metadata: the on-boot program that looks for the platform the       *)
(* machine runs on, copies what the platform's metadata service tells to   *)
(* files under /run/config, unpacks the user data there and sets the host  *)
(* name.  A request to the service is a step; it may be lost.              *)
(*                                                                         *)
(* A provider is the sequence of requests its Extract makes: the address,  *)
(* the file the answer goes to, and whether Extract gives up without it.   *)
(***************************************************************************)
EXTENDS Integers, Sequences

CONSTANTS
  Arguments,    \* the lists of providers the program may be called with
  MaxLost       \* bound: requests that are lost

VARIABLES
  platform,     \* where the machine runs, what is not told there, and the user data
  providers,    \* providers still to be tried
  md,           \* the program's place: idle, list, probe, extract or finish
  look,         \* the request Extract is at
  userdata,     \* what Extract has returned
  config,       \* /run/config: file |-> whose answer it holds
  hostname,     \* where the host's name comes from
  lost          \* requests that were lost

mdVars == <<platform, providers, md, look, userdata, config, hostname, lost>>

Must(u, f)  == [url |-> u, file |-> f, must |-> TRUE]    \* Extract returns without it
May(u, f)   == [url |-> u, file |-> f, must |-> FALSE]   \* a failure is logged
Hostname    == <<"hostname">>
Keys        == <<"ssh", "authorized_keys">>
User        == <<"userdata">>
Provider    == <<"provider">>
NoFiles     == [f \in {} |-> "nobody"]
NoUserData  == [raw |-> "none", tree |-> {}]
MetaGet(s, names) == [i \in DOMAIN names |-> May(<<s, names[i]>>, <<names[i]>>)]

(* The standard address, metaDataURL and userDataURL, is "latest".         *)
ProviderAWS ==
  << Must(<<"latest", "hostname">>, Hostname) >>
  \o MetaGet("latest", <<"public-ipv4", "local-ipv4", "availability-zone", "instance-type", "instance-id", "local-hostname">>)
  \o << May(<<"latest", "public-keys/0/openssh-key">>, Keys), May(<<"latest", "user-data">>, User) >>
ProviderGCP ==
  << Must(<<"google", "hostname">>, Hostname), May(<<"google", "ssh-keys">>, Keys), May(<<"google", "user-data">>, User) >>
ProviderHetzner ==
  << Must(<<"latest", "hostname">>, Hostname) >>
  \o MetaGet("latest", <<"public-ipv4", "local-ipv4", "instance-id">>)
  \o << May(<<"latest", "public-keys">>, Keys), May(<<"latest", "user-data">>, User) >>
ProviderOpenstack ==
  << Must(<<"latest", "hostname">>, Hostname) >>
  \o MetaGet("latest", <<"public-ipv4", "local-ipv4", "availability-zone", "instance-type", "instance-id", "local-hostname">>)
  \o << May(<<"latest", "public-keys/0/openssh-key">>, Keys), May(<<"latest", "user-data">>, User) >>
(* One request for conf brings all but the user data; an item may be missing. *)
ProviderScaleway ==
  << Must(<<"scaleway", "conf">>, Hostname), Must(<<"scaleway", "conf">>, <<"instance_id">>),
     Must(<<"scaleway", "conf">>, <<"instance_location">>), May(<<"scaleway", "conf">>, <<"public_ip">>),
     Must(<<"scaleway", "conf">>, <<"private_ip">>), May(<<"scaleway", "conf">>, Keys), May(<<"scaleway", "user-data">>, User) >>
ProviderVultr ==
  << Must(<<"vultr", "hostname">>, Hostname) >>
  \o MetaGet("vultr", <<"public_ipv4", "private_ipv4", "private_netmask", "region_code", "instance_id">>)
  \o << May(<<"vultr", "public-keys">>, Keys) >>
ProviderDigitalOcean ==
  << Must(<<"digitalocean", "hostname">>, Hostname) >>
  \o MetaGet("digitalocean", <<"public_ipv4", "private_ipv4", "region", "id">>)
  \o << May(<<"digitalocean", "public-keys">>, Keys), May(<<"digitalocean", "user-data">>, User) >>
(* The probe has fetched the metadata; then the network is configured, with *)
(* an error if it cannot be, and the user data are asked for.               *)
ProviderEquinixMetal ==
  << Must(<<"equinix", "metadata">>, Hostname), Must(<<"equinix", "metadata">>, Keys),
     Must(<<"equinix", "network">>, <<"bond0">>), Must(<<"equinix", "user-data">>, User) >>
ProviderMetaldata ==
  << Must(<<"metaldata", "hostname">>, Hostname) >>
  \o MetaGet("metaldata", <<"public_ipv4", "private_ipv4", "failure_domain", "machine_id", "machine_type">>)
  \o << May(<<"metaldata", "authorized-keys">>, Keys), May(<<"metaldata", "user-data">>, User) >>
ProviderVMware ==
  << May(<<"guestinfo", "vendordata">>, <<"vendordata">>), May(<<"guestinfo", "metadata">>, <<"metadata">>),
     May(<<"guestinfo", "userdata">>, User) >>
(* A CD-ROM is read when the provider is made; a file by Extract.          *)
ProviderCDROM == << Must(<<"cdrom", "user-data">>, User) >>
fileProvider  == << Must(<<"file", "user-data">>, User) >>

Extract(p) ==
  CASE p = "aws" -> ProviderAWS [] p = "gcp" -> ProviderGCP [] p = "hetzner" -> ProviderHetzner
    [] p = "openstack" -> ProviderOpenstack [] p = "scaleway" -> ProviderScaleway [] p = "vultr" -> ProviderVultr
    [] p = "digitalocean" -> ProviderDigitalOcean [] p = "equinixmetal" -> ProviderEquinixMetal
    [] p = "metaldata" -> ProviderMetaldata [] p = "vmware" -> ProviderVMware
    [] p = "cdrom" -> ProviderCDROM [] p = "file" -> fileProvider

Providers ==
  {"aws", "gcp", "hetzner", "openstack", "scaleway", "vultr", "digitalocean", "equinixmetal", "metaldata", "vmware",
   "cdrom", "file"}

(* Probe asks for the first thing Extract needs (Vultr and DigitalOcean for *)
(* the index of the same service; vmware for metadata or user data).        *)
ProbeURL(p) == IF p = "vmware" THEN <<"guestinfo", "userdata">> ELSE Extract(p)[1].url

(* A platform answers what its own provider asks for, but for what it has   *)
(* nothing to tell about.                                                  *)
Answers(u) == u \notin platform.lacks /\ \E i \in DOMAIN Extract(platform.name) : Extract(platform.name)[i].url = u

(* main: network providers, then CD-ROMs, then files, each in the order of *)
(* the arguments.                                                          *)
Kind(p) == CASE p \in {"vmware", "cdrom"} -> "cdrom" [] p = "file" -> "file" [] OTHER -> "net"
InTurn(args) ==
  LET Of(k) == SelectSeq(args, LAMBDA p : Kind(p) = k) IN Of("net") \o Of("cdrom") \o Of("file")

(* Another name among the arguments is fatal.                              *)
ASSUME ArgumentsAssumption == \A a \in Arguments : InTurn(a) \in Seq(Providers)

Start(args) == providers' = InTurn(args) /\ md' = "probe"

(* The first provider whose probe succeeds is the one.                     *)
Probe ==
  /\ md = "probe" /\ providers # <<>>
  /\ IF Answers(ProbeURL(Head(providers)))
     THEN md' = "extract" /\ UNCHANGED providers
     ELSE UNCHANGED md /\ providers' = Tail(providers)
  /\ look' = 1 /\ userdata' = NoUserData
  /\ UNCHANGED <<platform, config, hostname, lost>>

ProbeLost ==
  /\ md = "probe" /\ providers # <<>> /\ lost < MaxLost
  /\ Answers(ProbeURL(Head(providers)))
  /\ providers' = Tail(providers)
  /\ lost' = lost + 1
  /\ UNCHANGED <<platform, md, look, userdata, config, hostname>>

NothingFound ==
  /\ md = "probe" /\ providers = <<>>
  /\ md' = "idle"
  /\ UNCHANGED <<platform, providers, look, userdata, config, hostname, lost>>

(* Extract's next request.  Its answer is written to the file, or for the   *)
(* user data returned (a boot script is not user data).  Without an answer  *)
(* Extract goes on, or returns an error and no user data.                   *)
Asked == Extract(Head(providers))[look]
Written(c, files, by) == [f \in DOMAIN c \cup files |-> IF f \in files THEN by ELSE c[f]]
Answered ==
  /\ config' = IF Asked.file = User THEN config ELSE Written(config, {Asked.file}, platform.name)
  /\ userdata' = IF Asked.file = User /\ platform.userdata.raw # "ipxe" THEN platform.userdata ELSE userdata
Needs(r)   == r.must
Next_ == look' = look + 1 /\ md' = IF look = Len(Extract(Head(providers))) THEN "finish" ELSE "extract"
Request ==
  /\ md = "extract"
  /\ \/ Answers(Asked.url) /\ Answered /\ Next_ /\ UNCHANGED lost
     \/ /\ Answers(Asked.url) => lost < MaxLost
        /\ lost' = IF Answers(Asked.url) THEN lost + 1 ELSE lost
        /\ IF Needs(Asked) THEN md' = "finish" /\ UNCHANGED look ELSE Next_
        /\ UNCHANGED <<config, userdata>>
  /\ UNCHANGED <<platform, providers, hostname>>

(* processUserData and writeConfigFiles: an entry is made if it is a file   *)
(* or a directory, not both, its mode can be parsed, its directory was made *)
(* and nothing of the other kind has its name.                              *)
Under(d, n)     == Len(d) < Len(n) /\ SubSeq(n, 1, Len(d)) = d
Makes(t, c, n)  ==
  /\ n.kind \in {"file", "dir"} /\ n.perm = "ok"
  /\ IF n.kind = "file" THEN \A f \in DOMAIN c : ~Under(n.path, f) ELSE n.path \notin DOMAIN c
writeConfigFiles(t, c) ==
  {n \in t : Makes(t, c, n) /\ \A m \in t : Under(m.path, n.path) => m.kind = "dir" /\ Makes(t, c, m)}
processUserData(c, u) ==
  IF u.raw = "none" THEN c
  ELSE LET new == {n.path : n \in {m \in writeConfigFiles(u.tree, c) : m.kind = "file"}} IN
       Written(c, new \cup {User}, "user")

(* The end of main: the provider's name and the user data are written, and  *)
(* the host name is set from what is then in its file.                      *)
EarlyName(c, u)  == c   \* faulty: the name is read before the user data are unpacked
SethostnameFrom(c, u) == processUserData(c, u)
Finish ==
  /\ md = "finish"
  /\ md' = "idle"
  /\ LET c == Written(config, {Provider}, Head(providers))
         h == SethostnameFrom(c, userdata) IN
     /\ config' = processUserData(c, userdata)
     /\ hostname' = IF Hostname \in DOMAIN h THEN h[Hostname] ELSE hostname
  /\ UNCHANGED <<platform, providers, look, userdata, lost>>

MetadataStep == Probe \/ ProbeLost \/ NothingFound \/ Request \/ Finish
===============================================================================
