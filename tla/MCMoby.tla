------------------------------- MODULE MCMoby -------------------------------
(***************************************************************************)
(* Moby with small yaml files.                                             *)
(***************************************************************************)
EXTENDS Moby

AnyImage == {"kernel", "init", "runc", "app", "net"}

AnyShort == ("short" :> "app") @@ ("linux" :> "kernel")

Plain == NoImageConfig
Bind(src, dest, ro) == [source |-> src, dest |-> dest, ro |-> ro]
Device(path, num, mode) == [path |-> path, type |-> "c", num |-> <<num>>, mode |-> mode]
OfNet == [Plain EXCEPT !.caps = << <<"CAP_A">> >>, !.readonly = <<TRUE>>, !.net = "new", !.binds = << <<Bind(<<"/", "dev">>, "/dev", FALSE)>> >>,
                       !.runtime = <<[NoRuntime EXCEPT !.mkdir = << <<"/var">> >>, !.bindNet = <<"/run/net">>]>>]
AnyLabel == [i \in AnyImage |->
  CASE i = "net" -> [NoLabel EXCEPT !.cfg = OfNet] [] i = "runc" -> [NoLabel EXCEPT !.name = "runc"] [] OTHER -> NoLabel]

C(n, i, cfg) == [name |-> n, image |-> i, cfg |-> cfg]
Meta   == [path |-> <<"etc", "linuxkit.yml">>, kind |-> "metadata", contents |-> ""]
Motd   == [path |-> <<"etc", "motd">>, kind |-> "file", contents |-> "hello"]
Kern   == [image |-> "kernel", cmdline |-> "console"]
Vol(ro) == [name |-> "data", image |-> "", readonly |-> ro, format |-> ""]

Base   == [NoConfig EXCEPT !.kernel = Kern, !.init = <<"init", "runc">>, !.onboot = <<C("a", "short", Plain)>>,
                           !.services = <<C("s", "app", Plain), C("t", "app", Plain)>>, !.files = <<Meta>>]
Sealed == [Plain EXCEPT !.readonly = <<TRUE>>]
Other  == [Base EXCEPT !.services = <<C("s", "app", Sealed), C("t", "short", Plain)>>, !.files = <<Meta, Motd>>]
Quiet  == [Base EXCEPT !.kernel = [image |-> "linux", cmdline |-> ""], !.init = <<"runc">>, !.onboot = <<C("a", "net", Plain)>>,
                       !.onshutdown = <<C("z", "app", Plain)>>, !.services = <<>>]
Uses(ro) == [Plain EXCEPT !.binds = << <<Bind(<<"data">>, "/data", ro)>> >>, !.uid = <<"s">>]
WithVolume(vro, bro) == [Base EXCEPT !.volumes = <<Vol(vro)>>, !.onboot = <<>>, !.services = <<C("s", "net", Uses(bro))>>]
FromImage(format) == [NoConfig EXCEPT !.volumes = <<[Vol(FALSE) EXCEPT !.image = "short", !.format = format]>>, !.services = <<C("s", "app", Uses(FALSE))>>]
Added  == [NoConfig EXCEPT !.services = <<C("s", "net", Plain)>>]
Unconfined  == [Plain EXCEPT !.caps = << <<"none">> >>, !.ambient = << <<"CAP_B">> >>, !.net = "host", !.readonly = <<FALSE>>,
                        !.command = <<[name |-> "sh", v |-> 0]>>, !.tmpfs = << <<"/tmp">> >>,
                        !.rlimits = << << <<"nofile", "1024", "unlimited">> >> >>, !.gid = <<"s">>, !.gids = << <<"root", "s">> >>,
                        !.devices = << <<Device("all", 0, ""), Device("/dev/null", 3, "0666")>> >>,
                        !.runtime = <<[NoRuntime EXCEPT !.bindNet = <<"/run/own">>, !.namespace = <<"other">>]>>]
More   == [Plain EXCEPT !.capsAdd = << <<"CAP_B">> >>, !.bindsAdd = << <<Bind(<<"/", "etc">>, "/etc", TRUE)>> >>]
Odd    == {[Plain EXCEPT !.caps = << <<"CAP_Z">> >>], [Plain EXCEPT !.rlimits = << << <<"core", "much">> >> >>],
           [Plain EXCEPT !.devices = << <<Device("/dev/null", 3, "")>> >>], [Plain EXCEPT !.gids = << <<"nobody">> >>]}
Options == {[NoConfig EXCEPT !.services = <<C("s", "net", cfg)>>] : cfg \in {Unconfined, More} \cup Odd}
           \cup {[NoConfig EXCEPT !.services = <<C("s", i, Plain)>>] : i \in {"runc", ":"}}
NoKernel == [NoConfig EXCEPT !.kernel = [image |-> "app", cmdline |-> ""]]

Cmd(ymls, formats, input, output) ==
  [ymls |-> ymls, formats |-> formats, input |-> input, output |-> output, pull |-> FALSE, sbom |-> FALSE]
Streams == {Cmd(<<y>>, <<"tar">>, i, o) : y \in {Base, Other, Quiet}, i \in {"", "one"}, o \in {"one"}}
           \cup {Cmd(<<y>>, <<"tar">>, "one", "two") : y \in {Base, Other, Quiet}}
Shapes  == {Cmd(<<y>>, <<"docker">>, "", "one") :
             y \in Options \cup {WithVolume(TRUE, FALSE), WithVolume(TRUE, TRUE), FromImage(""), FromImage("oci"), NoKernel}}
Files2  == {Cmd(<<Base, Added>>, <<"tar">>, "", "one"), Cmd(<<Added, FromImage("")>>, <<"tar">>, "", "one")}
Flags   == {[Cmd(<<Base>>, <<"tar">>, "", "one") EXCEPT !.pull = TRUE, !.sbom = TRUE], [Cmd(<<Base>>, <<"tar">>, "one", "two") EXCEPT !.pull = TRUE]}
Packaged == {Cmd(<<Base>>, fs, "", "") : fs \in {<<"kernel+initrd">>, <<"kernel+squashfs", "aws">>, <<"raw-bios">>, <<"tar", "aws">>}}
            \cup {Cmd(<<Quiet>>, <<"kernel+squashfs", "aws">>, "", "")}
Again   == {Cmd(<<WithVolume(TRUE, TRUE)>>, <<"tar">>, "", "one"), Cmd(<<WithVolume(TRUE, TRUE)>>, <<"tar">>, "one", "two")}
All     == Streams \cup Shapes \cup Files2 \cup Flags \cup Packaged \cup Again
===============================================================================
