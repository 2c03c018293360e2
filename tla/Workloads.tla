----------------------------- MODULE Workloads ------------------------------
(***************************************************************************)
(* WorkloadManager: how a turn gets the definition that the command line   *)
(* asks for, from files that change while the program runs. A name is      *)
(* looked up among the definitions found so far, and found by loading      *)
(* every file of the search locations; a path is loaded in every turn; .sr *)
(* files are compiled through the bytecode cache.                          *)
(*                                                                         *)
(* Of a file the model keeps where it is, its format, its stem, and of its *)
(* content what a loader makes of it. Names are in lower case, as the      *)
(* manager compares them.                                                  *)
(***************************************************************************)
EXTENDS Naturals, Sequences, FiniteSets, SequencesExt

CONSTANTS
  Files,         \* see File
  Contents,      \* the contents a file may have: see Content
  Locations,     \* the number of search locations; the first goes first
  Identifiers,   \* what --agent may say: see Identifier
  DefaultAgent,  \* _DEFAULT_AGENT
  MaxRefDepth,   \* MAX_REF_DEPTH
  MaxCached,     \* DEFAULT_MAX_SIZE of the bytecode cache
  MaxEdits,      \* bound: files changed while the program runs
  MaxTurns       \* bound: turns

(* A location is a list of directories, searched one after the other; in   *)
(* each, rglob yields the files of a format in the order of their places.  *)
(* Location 0 is everywhere else: the working directory, and what is below *)
(* a hidden or excluded directory. A Python agent is a directory with an   *)
(* agent.py, and its stem is the name of the directory.                    *)
File == [location : 0..Locations, directory : Nat, format : {"dsl", "yaml", "python"},
         stem : STRING, place : Nat]

(* A file that cannot be read is to every caller as if it were not there.  *)
Absent == [kind |-> "absent"]

(* "rejected" is an error every caller expects, "invalid" one that only    *)
(* discovery expects, "raises" one that nobody does: the class body of a   *)
(* .sr file and the module of a Python agent may raise anything. A YAML    *)
(* file may refer to other files, from inside inline agents as well: a     *)
(* reference says how many of those it is in.                              *)
Content(f, text) ==
  /\ text.kind \in {"loads", "rejected", "invalid", "raises"} \/ text = Absent
  /\ f.format = "yaml" /\ text.kind = "loads" => text.refs \in Seq([to : Files, inline : Nat])

(* The file a path leads to, or a name taken for one: a name in the        *)
(* working directory or, as `agents/a.sr`, a path from there.              *)
Identifier(id) ==
  /\ id.by \in {"name", "path", "url"}
  /\ id.by # "url" => id.file \in Files

ASSUME WorkloadsAssumption ==
  /\ IsFiniteSet(Files) /\ Files \subseteq File
  /\ \A f, g \in Files :
       /\ f.location = g.location /\ f.directory = g.directory
       /\ f.format = g.format /\ f.place = g.place
       => f = g
  /\ \A f \in Files : \A c \in Contents[f] : Content(f, c)
  /\ \A id \in Identifiers : Identifier(id)
  /\ Locations \in Nat /\ MaxRefDepth \in Nat /\ MaxCached \in Nat \ {0}
  /\ MaxEdits \in Nat /\ MaxTurns \in Nat

VARIABLES
  disk,         \* the content of every file
  identifier,   \* of this program
  definitions,  \* _definitions: the definition of every name found so far
  cache,        \* of bytecode, least recently used first
  answer,       \* what the last turn got
  begun,        \* what the first turn got that served a definition by name
  known,        \* the disk of the last discovery
  turns, edits

managerVars == <<disk, identifier, definitions, cache, answer, begun, known, turns, edits>>

NoAnswer == [result |-> "none"]

WithFile(d, f, content) ==
  [g \in DOMAIN d \cup {f} |-> IF g = f THEN content ELSE d[g]]

Disks ==
  FoldSet(LAMBDA f, disks : UNION {{WithFile(d, f, c) : c \in Contents[f]} : d \in disks},
          {[f \in {} |-> Absent]}, Files)

NoDefinitions == [n \in {} |-> {}]

ManagerInit ==
  /\ disk \in Disks
  /\ identifier \in Identifiers
  /\ definitions = NoDefinitions /\ cache = << >>
  /\ answer = NoAnswer /\ begun = NoAnswer /\ known = << >>
  /\ turns = 0 /\ edits = 0

-----------------------------------------------------------------------------
(* Loading one file.                                                       *)

(* _load_agent_by_identifier: the file exists and is a YAML agent that may *)
(* be below another.                                                       *)
MayBeReferred(f) ==
  f.format = "yaml" /\ disk[f].kind = "loads" /\ ~disk[f].global

References(f) ==
  IF f.format = "yaml" /\ disk[f].kind = "loads" THEN Range(disk[f].refs) ELSE {}

Places == [file : Files, above : SUBSET Files, depth : 0..(MaxRefDepth + 1)]

(* MUTANT: one set of visited files for the whole tree.                    *)
ReferencesResolve_SharedVisited(root) ==
  LET Resolve[at \in Places] ==
        LET refs == disk[at.file].refs
        IN  /\ at.depth <= MaxRefDepth
            /\ \A i \in DOMAIN refs :
                 LET ref == refs[i]
                     visited == at.above \cup {refs[k].to : k \in 1..(i - 1)}
                 IN  /\ at.depth + ref.inline <= MaxRefDepth
                     /\ ref.to \notin visited
                     /\ MayBeReferred(ref.to)
                     /\ Resolve[[file |-> ref.to, above |-> visited \cup {ref.to},
                                 depth |-> at.depth + ref.inline + 1]]
  IN  Resolve[[file |-> root, above |-> {root}, depth |-> 0]]

(* _resolve_agent_refs: each reference is followed with a copy of the      *)
(* files above it, and every level counts, an inline agent's too.          *)
PlaceBelow(at, ref) ==
  [file |-> ref.to, above |-> at.above \cup {ref.to}, depth |-> at.depth + ref.inline + 1]

ReferencesResolve(root) ==
  LET Resolve[at \in Places] ==
        /\ at.depth <= MaxRefDepth
        /\ \A ref \in References(at.file) :
             /\ at.depth + ref.inline <= MaxRefDepth
             /\ ref.to \notin at.above
             /\ MayBeReferred(ref.to)
             /\ Resolve[PlaceBelow(at, ref)]
  IN  Resolve[[file |-> root, above |-> {root}, depth |-> 0]]

(* YamlDefinitionLoader and PythonDefinitionLoader.                        *)
YamlVerdict(f) ==
  IF disk[f].kind = "loads" /\ ~ReferencesResolve(f) THEN "invalid" ELSE disk[f].kind

Verdict(f) == IF f.format = "yaml" THEN YamlVerdict(f) ELSE disk[f].kind

(* A .sr file and a Python agent without a card of another name are called *)
(* what their file is called.                                              *)
NameOf(f) == IF f.format = "dsl" THEN f.stem ELSE disk[f].name

Loaded(f, text) == [file |-> f, name |-> NameOf(f), text |-> text]

(* compile_dsl: the key of the cache is the text of the file.              *)
Hit(bytecode, f) == \E i \in DOMAIN bytecode : bytecode[i].text = disk[f].text

(* MUTANT: the key is the name of the file.                                *)
Cached_ByFile(bytecode, f) ==
  IF \E i \in DOMAIN bytecode : bytecode[i].file = f
    THEN bytecode
    ELSE Append(IF Len(bytecode) < MaxCached THEN bytecode ELSE Tail(bytecode),
                [text |-> disk[f].text, file |-> f])

Cached(bytecode, f) ==
  LET hit  == CHOOSE i \in DOMAIN bytecode : bytecode[i].text = disk[f].text
      kept == IF Len(bytecode) < MaxCached THEN bytecode ELSE Tail(bytecode)
  IN  IF Hit(bytecode, f)
        THEN Append(RemoveAt(bytecode, hit), bytecode[hit])
        ELSE Append(kept, [text |-> disk[f].text, file |-> f])

(* A class body that raises does so after its bytecode was cached.         *)
Compiled(bytecode, f) ==
  IF f.format = "dsl" /\ disk[f].kind \in {"loads", "raises"} THEN Cached(bytecode, f) ELSE bytecode

CodeOf(bytecode, f) ==
  IF f.format = "dsl" THEN Last(Compiled(bytecode, f)).text ELSE disk[f].text

-----------------------------------------------------------------------------
(* Discovery.                                                              *)

Rank(format) == CASE format = "dsl" -> 1 [] format = "yaml" -> 2 [] format = "python" -> 3

(* The directories of a location in their order, in each the formats in    *)
(* theirs.                                                                 *)
Ahead(f, g) ==
  \/ f.directory < g.directory
  \/ /\ f.directory = g.directory
     /\ \/ Rank(f.format) < Rank(g.format)
        \/ f.format = g.format /\ f.place < g.place

(* MUTANT: the last one wins.                                              *)
Discovered_Last(location) ==
  {f \in Files :
     /\ f.location = location /\ disk[f] # Absent
     /\ \A g \in Files :
          g.location = location /\ disk[g] # Absent /\ g.stem = f.stem => ~Ahead(f, g)}

(* SourceResolver.discover: of the files of a location with the same stem  *)
(* the first one.                                                          *)
Discovered(location) ==
  {f \in Files :
     /\ f.location = location /\ disk[f] # Absent
     /\ \A g \in Files :
          g.location = location /\ disk[g] # Absent /\ g.stem = f.stem => ~Ahead(g, f)}

LastOf(files) == CHOOSE f \in files : \A g \in files \ {f} : Ahead(g, f)

NamesIn(loaded) == {loaded[i].name : i \in DOMAIN loaded}

(* One file of _discover_in_location: what cannot be loaded is passed over,*)
(* an exception that is not listed leaves the whole discovery.             *)
TryLoad(acc, f) ==
  IF acc.raised THEN acc
  ELSE [raised |-> Verdict(f) = "raises",
        bytecode |-> Compiled(acc.bytecode, f),
        loaded |-> IF Verdict(f) = "loads"
                     THEN Append(acc.loaded, Loaded(f, CodeOf(acc.bytecode, f))) ELSE acc.loaded]

TryAll(files, bytecode) ==
  MapThenFoldSet(LAMBDA f, acc : TryLoad(acc, f), [raised |-> FALSE, bytecode |-> bytecode, loaded |-> << >>],
                 LAMBDA f : f, LastOf, files)

(* The first definition of a name stays.                                   *)
Keep(found, loaded) ==
  [n \in DOMAIN found \cup NamesIn(loaded) |->
     IF n \in DOMAIN found THEN found[n]
     ELSE loaded[CHOOSE i \in DOMAIN loaded :
                   loaded[i].name = n /\ \A k \in 1..(i - 1) : loaded[k].name # n]]

(* A location: files whose stem is the name of a definition of an earlier  *)
(* location are not loaded; nothing of a location that raises is kept.     *)
DiscoverInLocation(acc, location) ==
  LET files == {f \in Discovered(location) : f.stem \notin DOMAIN acc.found}
      result == TryAll(files, acc.bytecode)
  IN  IF acc.raised THEN acc
      ELSE [raised |-> result.raised, bytecode |-> result.bytecode,
            found |-> IF result.raised THEN acc.found ELSE Keep(acc.found, result.loaded)]

DiscoverDefinitions ==
  LET After[n \in 0..Locations] ==
        IF n = 0 THEN [raised |-> FALSE, bytecode |-> cache, found |-> NoDefinitions]
        ELSE DiscoverInLocation(After[n - 1], n)
  IN  After[Locations]

-----------------------------------------------------------------------------
(* create_workload, at the beginning of a turn.                            *)

Answers(result) == answer' = [result |-> result]

Serves(definition) == answer' = [result |-> "workload", definition |-> definition]

Turn ==
  /\ turns < MaxTurns
  /\ turns' = turns + 1
  /\ UNCHANGED <<disk, identifier, edits>>

AskedName == IF identifier.name = "default" THEN DefaultAgent ELSE identifier.name

(* Looked up at every turn: a name that leads to a file is a path.         *)
IsFilePath ==
  \/ identifier.by = "path"
  \/ identifier.by = "name" /\ disk[identifier.file] # Absent

(* MUTANT: every turn looks for the name again.                            *)
IsCached_Never == FALSE

IsCached == AskedName \in DOMAIN definitions

Updated(found) ==
  [n \in DOMAIN found \cup DOMAIN definitions |->
     IF n \in DOMAIN found THEN found[n] ELSE definitions[n]]

LoadByName ==
  /\ identifier.by = "name" /\ ~IsFilePath
  /\ Turn
  /\ IF IsCached
       THEN /\ Serves(definitions[AskedName])
            /\ UNCHANGED <<definitions, cache, known>>
       ELSE LET d == DiscoverDefinitions
            IN  /\ definitions' = Updated(d.found)
                /\ cache' = d.bytecode
                /\ known' = disk
                /\ IF d.raised THEN Answers("raised")
                   ELSE IF AskedName \in DOMAIN definitions' THEN Serves(definitions'[AskedName])
                   ELSE Answers("missing")
  /\ begun' = IF begun = NoAnswer /\ answer'.result = "workload" THEN answer' ELSE begun

(* A file whose format is not known, or a directory without an agent.py,   *)
(* is rejected as well.                                                    *)
LoadFromPath ==
  /\ IsFilePath
  /\ Turn
  /\ LET f == identifier.file
     IN  IF disk[f] = Absent THEN Answers("missing") /\ UNCHANGED cache
         ELSE /\ cache' = Compiled(cache, f)
              /\ \/ Verdict(f) = "loads" /\ Serves(Loaded(f, CodeOf(cache, f)))
                 \/ Verdict(f) = "rejected" /\ Answers("missing")
                 \/ Verdict(f) \notin {"loads", "rejected"} /\ Answers("raised")
  /\ UNCHANGED <<definitions, begun, known>>

(* The text behind a URL is whatever the server answers.                   *)
LoadFromUrl ==
  /\ identifier.by = "url"
  /\ Turn
  /\ Answers("raised") \/ Serves([name |-> "url"])
  /\ UNCHANGED <<definitions, cache, begun, known>>

(* The user edits, adds or removes a file between two turns.               *)
Edit ==
  /\ edits < MaxEdits
  /\ \E f \in Files : \E c \in Contents[f] \ {disk[f]} : disk' = [disk EXCEPT ![f] = c]
  /\ edits' = edits + 1
  /\ UNCHANGED <<identifier, definitions, cache, answer, begun, known, turns>>

ManagerNext == LoadByName \/ LoadFromPath \/ LoadFromUrl \/ Edit

ManagerSpec == ManagerInit /\ [][ManagerNext]_managerVars

-----------------------------------------------------------------------------
(* Properties.                                                             *)

(* As long as agents are named after their files and no file raises, a     *)
(* discovery finds for every name the file of the first location that      *)
(* loads, and there of the first directory and the first format in it. A   *)
(* file that does not load hides those after it of its stem in its         *)
(* location and nothing else.                                              *)
Tidy ==
  \A f \in Files :
    /\ disk[f].kind # "raises"
    /\ disk[f].kind = "loads" => disk[f].name = f.stem

Candidates(n) == {f \in Files : f.location > 0 /\ f.stem = n /\ Verdict(f) = "loads"}

Hidden(f) ==
  \E g \in Files :
    /\ g.location = f.location /\ g.stem = f.stem /\ Ahead(g, f)
    /\ Verdict(g) \notin {"absent", "loads"}

Before(f, g) ==
  \/ f.location < g.location
  \/ f.location = g.location /\ Ahead(f, g)

DiscoveryFindsTheFirst ==
  known = disk /\ edits = 0 /\ Tidy =>
    \A n \in {f.stem : f \in Files} :
      LET visible == {f \in Candidates(n) : ~Hidden(f)}
      IN  IF n \in DOMAIN definitions
            THEN /\ definitions[n].file \in visible
                 /\ \A f \in visible \ {definitions[n].file} : Before(definitions[n].file, f)
            ELSE visible = {}

(* A conversation with a named agent goes on with the definition it began  *)
(* with, whatever happens to the files meanwhile: every turn gets it again *)
(* but those that find a file or a directory where the name leads as a     *)
(* path.                                                                   *)
ConversationKeepsItsDefinition ==
  [][turns' > turns /\ identifier.by = "name" /\ begun # NoAnswer /\ ~IsFilePath =>
       answer' = begun]_managerVars

(* An agent given by its path runs the text that is in the file now,       *)
(* although its bytecode may come from the cache.                          *)
PathRunsTheTextOnDisk ==
  [][IsFilePath /\ turns' > turns /\ answer'.result = "workload" =>
       answer'.definition.text = disk[identifier.file].text]_managerVars

(* The reference: the chains of references from a YAML file, each with the *)
(* levels above its files.                                                 *)
Longer(c) ==
  {Append(c, [file |-> r.to, level |-> Last(c).level + r.inline + 1]) : r \in References(Last(c).file)}

Chains(f) ==
  LET Within[n \in 0..(MaxRefDepth + 1)] ==
        IF n = 0 THEN {<<[file |-> f, level |-> 0]>>}
        ELSE Within[n - 1] \cup UNION {Longer(c) : c \in Within[n - 1]}
  IN  Within[MaxRefDepth + 1]

(* A YAML file is an agent exactly when every chain of references from it  *)
(* ends after at most MaxRefDepth levels without meeting a file twice, at  *)
(* agents that may be below another.                                       *)
ReferencesAreFinite ==
  \A f \in Files :
    f.format = "yaml" /\ disk[f].kind = "loads" =>
      (Verdict(f) = "loads" <=>
         \A c \in Chains(f) :
           /\ Last(c).level <= MaxRefDepth
           /\ \A i \in 2..Len(c) :
                MayBeReferred(c[i].file) /\ \A k \in 1..(i - 1) : c[k].file # c[i].file)

=============================================================================
