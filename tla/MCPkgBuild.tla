------------------------------ MODULE MCPkgBuild ------------------------------
(* Two platforms; a source with two contents of the same bytes and one with *)
(* an untracked file; the combinations of options that take other paths.    *)
EXTENDS PkgBuild

TwoArches == <<"amd64", "arm64">>
C(b, n, u) == [bytes |-> b, names |-> n, untracked |-> u]
Sources   == {C(1, 1, 0), C(1, 2, 0), C(1, 1, 1)}

Plain == [NoOpts EXCEPT !.manifest = TRUE]
Push  == [Plain EXCEPT !.push = TRUE]
Used ==
  {Plain, Push, [Push EXCEPT !.force = TRUE, !.manifest = FALSE], [Push EXCEPT !.nobuild = TRUE],
   [Push EXCEPT !.docker = TRUE, !.release = "v1"], [Push EXCEPT !.dry = TRUE, !.hash = "fixed"], [Plain EXCEPT !.force = TRUE, !.pull = TRUE],
   [Plain EXCEPT !.pull = TRUE, !.dirty = TRUE]}
Pulling == {[Push EXCEPT !.pull = TRUE], Plain}
===============================================================================
