---------------------------- MODULE MCWorkloads -----------------------------
(***************************************************************************)
(* Files for TLC: two locations, the first of two directories, two stems,  *)
(* a .sr and a YAML file of one stem in the first location, which is the   *)
(* nearer one by its directory, and a directory in the working directory.  *)
(***************************************************************************)
EXTENDS Workloads

At(location, directory, format, stem, place) ==
  [location |-> location, directory |-> directory, format |-> format, stem |-> stem,
   place |-> place]

NearYaml == At(1, 1, "yaml", "a", 1)
NearDsl  == At(1, 2, "dsl", "a", 1)
Other    == At(1, 2, "yaml", "b", 2)
FarDsl   == At(2, 1, "dsl", "b", 1)
FarYaml  == At(2, 1, "yaml", "a", 1)
Package  == At(2, 1, "python", "b", 1)
HereA    == At(0, 1, "python", "a", 1)
HereB    == At(0, 1, "python", "b", 2)

MCFiles == {NearDsl, NearYaml, Other, FarDsl, FarYaml, Package, HereA, HereB}

Bad(kind) == [kind |-> kind]

Source(name, text) == [kind |-> "loads", name |-> name, text |-> text]

Yaml(name, refs) ==
  [kind |-> "loads", name |-> name, text |-> "yaml", global |-> FALSE, refs |-> refs]

Ref(file, inline) == [to |-> file, inline |-> inline]

MCContents ==
  [f \in MCFiles |->
     CASE f = NearDsl  -> {Absent, Bad("rejected"), Bad("raises") @@ [text |-> "t1"],
                           Source("a", "t1"), Source("a", "t2")}
       [] f = NearYaml -> {Absent, Bad("invalid"), Yaml("a", <<Ref(FarYaml, 0), Ref(Other, 0)>>),
                           Yaml("b", <<Ref(Other, 1)>>)}
       [] f = Other    -> {Absent, Yaml("b", << >>), Yaml("b", <<Ref(FarYaml, 0)>>),
                           [global |-> TRUE] @@ Yaml("a", << >>)}
       [] f = FarDsl   -> {Absent, Source("b", "t1")}
       [] f = FarYaml  -> {Absent, Yaml("a", << >>), Yaml("a", <<Ref(NearYaml, 0)>>)}
       [] f = Package  -> {Absent, Bad("raises")}
       [] f = HereA    -> {Absent, Bad("rejected")}
       [] f = HereB    -> {Absent, Source("b", "t3")}]

ByName(name, file) == [by |-> "name", name |-> name, file |-> file]

MCIdentifiers ==
  {ByName("default", HereA), ByName("b", HereB), ByName("agents/a.sr", NearDsl), [by |-> "url"]}
    \cup {[by |-> "path", file |-> f] : f \in {NearDsl, NearYaml}}
=============================================================================
