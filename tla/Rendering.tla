------------------------------ MODULE Rendering ------------------------------
(***************************************************************************)
(* Where the nodes of a graph end up: the files and module declarations of *)
(* render.rs, the use paths node_context.rs advises, the files read_file   *)
(* opens, and the sections of a task's prompt.                             *)
(*                                                                         *)
(* A directory is an area of the workdir and the names below it; a file is *)
(* a slot of one.  Texts are left out: a module file is the set of modules *)
(* it declares, a manifest the crates it depends on, a section of a prompt *)
(* what it is about.  The graphs are those of GraphAlgorithms, between     *)
(* calls and lookups.                                                      *)
(***************************************************************************)
EXTENDS GraphAlgorithms

Layout == {"SingleCrate", "Workspace"}

SourceSlot == {"public.rs", "private.rs", "tests.rs"}
SpecSlot == {"public.md", "private.md"}
NodeSlot == SourceSlot \cup SpecSlot

-----------------------------------------------------------------------------
(* Walks up the tree.                                                      *)

(* The nodes from the root down to n: ancestors, n included.               *)
Chains(h) ==
  LET chain[n \in Id] ==
        IF h.parent[n] = NoNode THEN <<n>> ELSE Append(chain[h.parent[n]], n)
  IN  chain

Chain(h, n) == Chains(h)[n]

(* ancestors, n excluded.                                                  *)
Above(h, n) == SubSeq(Chain(h, n), 1, Len(Chain(h, n)) - 1)

Ancestors(h, n) == {Above(h, n)[i] : i \in DOMAIN Above(h, n)}

(* The nodes below `above` down to n.                                      *)
Below(h, above, n) ==
  SubSeq(Chain(h, n), Len(Chain(h, above)) + 1, Len(Chain(h, n)))

Names(h, s) == [i \in DOMAIN s |-> h.name[s[i]]]

(* name_path                                                               *)
NamePath(h, n) == Names(h, Chain(h, n))

-----------------------------------------------------------------------------
(* Directories and slots.                                                  *)

(* Mutant: a member crate does not start a directory of its own. *)
NodeSrcDir_NoCrates(h, layout, n) ==
  LET crate == IF layout = "Workspace" THEN h.crate[n] ELSE h.root
  IN  [area |-> "src", at |-> Names(h, Below(h, crate, n))]

(* Member crates live side by side in crates/, everything else under src/. *)
NodeSrcDir(h, layout, n) ==
  LET crate == IF layout = "Workspace" THEN h.crate[n] ELSE h.root
      inner == Names(h, Below(h, crate, n))
  IN  IF crate = h.root THEN [area |-> "src", at |-> inner]
      ELSE [area |-> "crates", at |-> <<h.name[crate]>> \o inner]

NodeSpecDir(h, n) == [area |-> "spec", at |-> NamePath(h, n)]

SlotPath(h, layout, n, slot) ==
  [dir |-> IF slot \in SpecSlot THEN NodeSpecDir(h, n)
           ELSE NodeSrcDir(h, layout, n),
   file |-> slot]

(* resolve_path_to_slot: the nodes whose slot a path is; the code takes    *)
(* the first in insertion order.                                           *)
Owners(h, layout, path) ==
  {n \in NodesOf(h) : path = SlotPath(h, layout, n, path.file)}

ResolvePathToSlot(h, layout, path) ==
  LET Owned(i) == h.order[i] \in Owners(h, layout, path)
      First(i) == Owned(i) /\ \A j \in 1 .. (i - 1) : ~Owned(j)
  IN  IF Owners(h, layout, path) = {} THEN NoNode
      ELSE h.order[CHOOSE i \in DOMAIN h.order : First(i)]

(* render_node writes every slot, a placeholder when it is not authored,   *)
(* except private.md; notes are the nodes that have private notes.         *)
RenderedFiles(h, layout, notes) ==
  {SlotPath(h, layout, n, slot) : n \in NodesOf(h), slot \in NodeSlot \ {"private.md"}}
    \cup {SlotPath(h, layout, n, "private.md") : n \in notes}

-----------------------------------------------------------------------------
(* Crates and modules.                                                     *)

ChildrenOf(h, n) == {c \in NodesOf(h) : h.parent[c] = n}

(* Mutant: the children that are crates are declared as modules, too. *)
ModChildren_All(h, layout, n) == ChildrenOf(h, n)

(* render_mod_rs: the `pub mod` lines of n's mod.rs.                       *)
ModChildren(h, layout, n) ==
  {c \in ChildrenOf(h, n) : layout = "SingleCrate" \/ ~h.boundary[c]}

ModLines(h, layout) == [n \in Id |-> ModChildren(h, layout, n)]

(* By these names the lines lead from the module of c to that of n.        *)
Leads(h, layout, c, names, n) ==
  \E walk \in [0 .. Len(names) -> NodesOf(h)] :
    /\ walk[0] = c /\ walk[Len(names)] = n
    /\ \A i \in 1 .. Len(names) : /\ walk[i] \in ModLines(h, layout)[walk[i - 1]]
                                  /\ h.name[walk[i]] = names[i]

(* write_root_manifest and render_node: the packages, and the packages     *)
(* each may name in a use path.                                            *)
Packages(h, layout) ==
  IF layout = "SingleCrate" THEN {h.root}
  ELSE {h.root} \cup {n \in NodesOf(h) : h.boundary[n]}

PackageDeps(h, layout, c) ==
  IF layout = "SingleCrate" THEN {} ELSE CrateDeps(h)[c]

(* The package n's module is compiled in.                                  *)
PackageOf(h, layout, n) ==
  IF layout = "SingleCrate" THEN h.root ELSE h.crate[n]

(* resolve_cargo_package: what `cargo -p` is given for a tool call of node *)
(* n that asks for package `asked`; NoName for no -p at all.               *)
CargoPackage(h, layout, n, asked) ==
  IF layout = "SingleCrate" THEN NoName
  ELSE IF \E c \in NodesOf(h) : h.boundary[c] /\ h.name[c] = asked THEN asked
  ELSE h.name[h.crate[n]]

-----------------------------------------------------------------------------
(* Use paths.                                                              *)

(* The word `crate` at the head of a path: no package is named.            *)
Crate == NoName

(* Mutant: the inner path is cut by the length of the importer's crate. *)
ImportPath_FromCrate(h, from, to) ==
  LET fc == h.crate[from]  tc == h.crate[to] IN
  [crate |-> IF fc = tc THEN Crate ELSE h.name[tc],
   inner |-> SubSeq(NamePath(h, to), Len(NamePath(h, fc)) + 1,
                    Len(NamePath(h, to)))]

(* import_path: how `from` is told to import `to`.                         *)
ImportPath(h, from, to) ==
  LET fc == h.crate[from]  tc == h.crate[to] IN
  [crate |-> IF fc = tc THEN Crate ELSE h.name[tc],
   inner |-> Names(h, Below(h, tc, to))]

(* The modules a use path in `from` may denote, given what was rendered.   *)
Denotes(h, layout, from, path) ==
  LET here == PackageOf(h, layout, from)
      starts == IF path.crate = Crate THEN {here}
                ELSE {c \in PackageDeps(h, layout, here) : h.name[c] = path.crate}
  IN  {n \in NodesOf(h) : \E c \in starts : Leads(h, layout, c, path.inner, n)}

-----------------------------------------------------------------------------
(* What a task may read.                                                   *)

PublicSurface == {"public.rs", "public.md"}

(* Mutant: other nodes' files are readable only when public. *)
IsReadable_NoAncestors(h, layout, self, path) ==
  LET n == ResolvePathToSlot(h, layout, path) IN
  n # NoNode /\ (n = self \/ path.file \in PublicSurface)

(* is_readable_by_node *)
IsReadable(h, layout, self, path) ==
  LET n == ResolvePathToSlot(h, layout, path) IN
  /\ n # NoNode
  /\ \/ n = self
     \/ path.file \in PublicSurface
     \/ n \in Ancestors(h, self)

(* push_readable_files: the files a prompt lists.                          *)
ListedFiles(h, layout, n, notes) ==
  LET specs == {n} \cup Ancestors(h, n) IN
  {SlotPath(h, layout, n, slot) : slot \in SourceSlot}
    \cup {SlotPath(h, layout, m, "public.md") : m \in specs}
    \cup {SlotPath(h, layout, m, "private.md") : m \in specs \cap notes}
    \cup {SlotPath(h, layout, m, slot) : m \in h.deps[n], slot \in PublicSurface}

-----------------------------------------------------------------------------
(* Prompts.                                                                *)

Sec(title, about) == [title |-> title, about |-> about]

If(condition, sections) == IF condition THEN sections ELSE <<>>

(* authored are the <<node, slot>> pairs that have content.                *)
AncestorChain(h, n) ==
  If(n # h.root, <<Sec("Ancestor chain", Names(h, Above(h, n)))>>)

ParentSpec(h, n, authored) ==
  If(<<h.parent[n], "public.md">> \in authored,
     <<Sec("Parent spec", h.name[h.parent[n]])>>)

ParentIface(h, n, authored) ==
  If(<<h.parent[n], "public.rs">> \in authored,
     <<Sec("Parent public interface", h.name[h.parent[n]])>>)

(* Sorted by name, the node itself included; an only child has no list.    *)
Siblings(h, n) ==
  LET family == ChildrenOf(h, h.parent[n]) IN
  If(n # h.root /\ Cardinality(family) > 1,
     <<Sec("Siblings", {h.name[m] : m \in family})>>)

(* The sections about the deps, taken together: each dep with the path it  *)
(* is imported by.                                                         *)
DepIfaces(h, n) ==
  If(h.deps[n] # {},
     <<Sec("Dependencies", {<<h.name[d], ImportPath(h, n, d)>> : d \in h.deps[n]})>>)

ThisNode(h, n) == <<Sec("This node", h.name[n]), Sec("Files you can read", h.name[n])>>

Own(h, n, slot, authored) ==
  If(<<n, slot>> \in authored, <<Sec("Own", <<h.name[n], slot>>)>>)

OwnSpec(h, n, authored) ==
  Own(h, n, "public.md", authored) \o Own(h, n, "private.md", authored)

(* Mutant: the sections about the node itself come first. *)
BuildForStage_NodeFirst(h, n, stage, authored) ==
  ThisNode(h, n) \o AncestorChain(h, n) \o ParentSpec(h, n, authored)
    \o Siblings(h, n) \o DepIfaces(h, n)

(* build_for_stage: what every stage of a node shows, from what is shared  *)
(* by most tasks to what is the task's own.                                *)
BuildForStage(h, n, stage, authored) ==
  CASE stage = "architect" ->
         <<Sec("Architect node", h.name[n]), Sec("Architecture budget", Len(h.order))>>
    [] stage = "spec" ->
         AncestorChain(h, n) \o ParentSpec(h, n, authored) \o Siblings(h, n)
           \o <<Sec("Existing graph", h.order)>>
           \o ThisNode(h, n) \o OwnSpec(h, n, authored)
    [] stage = "iface" ->
         AncestorChain(h, n) \o ParentSpec(h, n, authored)
           \o ParentIface(h, n, authored) \o Siblings(h, n)
           \o DepIfaces(h, n) \o ThisNode(h, n) \o OwnSpec(h, n, authored)
    [] stage = "tests" ->
         AncestorChain(h, n) \o Siblings(h, n)
           \o DepIfaces(h, n) \o ThisNode(h, n) \o OwnSpec(h, n, authored)
           \o Own(h, n, "public.rs", authored)
    [] OTHER ->
         AncestorChain(h, n) \o Siblings(h, n)
           \o DepIfaces(h, n) \o ThisNode(h, n) \o OwnSpec(h, n, authored)
           \o Own(h, n, "public.rs", authored) \o Own(h, n, "tests.rs", authored)
           \o Own(h, n, "private.rs", authored)
           \o If(stage = "debug", <<Sec("Debug stage", h.name[n])>>)

-----------------------------------------------------------------------------
(* Properties, of every graph that is saved on disk.                       *)

(* A graph halfway through a call is one that a call listing less would    *)
(* have ended with, and lookups leave it as it is: it is enough to look    *)
(* in between.                                                             *)
Settled == call.at = "idle" /\ loop = NoLoop

(* The path of a slot leads back to that node and slot, in both layouts:   *)
(* no edit by path and no read reaches a node other than the one meant,    *)
(* and no two nodes are rendered into one file.                            *)
PathsResolve ==
  Settled => \A layout \in Layout, n \in NodesOf(saved), slot \in NodeSlot :
    Owners(saved, layout, SlotPath(saved, layout, n, slot)) = {n}

(* Every node is compiled exactly once: its module is reached by pub mod   *)
(* lines from the root of one package, the lines of a module file declare  *)
(* no name twice, and its file lies where rustc looks for it, in the       *)
(* package's directory and below it by the modules' names.                 *)
CompiledOnce ==
  Settled => \A layout \in Layout, n \in NodesOf(saved) :
    LET lines == ModLines(saved, layout)
        home  == PackageOf(saved, layout, n)
        Dir(m) == NodeSrcDir(saved, layout, m)
    IN  /\ {c \in Packages(saved, layout) : Reaches(lines, c, n)} = {home}
        /\ \A m, k \in lines[n] : saved.name[m] = saved.name[k] => m = k
        /\ Dir(n).area = Dir(home).area
        /\ Dir(n).at = Dir(home).at \o Names(saved, Below(saved, home, n))

(* In a workspace, the use path a prompt gives for a dep denotes that dep, *)
(* through the manifests and module files the renderer wrote.              *)
ImportsReach ==
  Settled => \A n \in NodesOf(saved) : \A d \in saved.deps[n] :
    Denotes(saved, "Workspace", n, ImportPath(saved, n, d)) = {d}

(* A prompt lists only files that read_file opens for that node and that   *)
(* exist, whichever nodes have private notes.                              *)
ListedAreReadable ==
  Settled => \A layout \in Layout, n \in NodesOf(saved),
                notes \in {{}, NodesOf(saved)} :
    \A path \in ListedFiles(saved, layout, n, notes) :
      /\ IsReadable(saved, layout, n, path)
      /\ path \in RenderedFiles(saved, layout, notes)

(* The sections that are the same for all children of a node.              *)
Shared == {"Ancestor chain", "Parent spec", "Parent public interface", "Siblings",
           "Existing graph"}

SamePrefix(a, b) ==
  \E k \in {0} \cup (DOMAIN a \cap DOMAIN b) :
    /\ \A i \in 1 .. k : a[i] = b[i]
    /\ \A i \in DOMAIN a : a[i].title \in Shared <=> i <= k
    /\ \A i \in DOMAIN b : b[i].title \in Shared <=> i <= k

(* Prompts are laid out for prefix caching: the prompts of siblings at one *)
(* stage begin with the same sections, and nothing that siblings share     *)
(* comes behind what is a node's own.                                      *)
SiblingsSharePrefix ==
  Settled => \A m, n \in NodesOf(saved) \ {saved.root} :
    saved.parent[m] = saved.parent[n] =>
      \A stage \in {"spec", "iface", "tests", "impl", "debug"},
         authored \in {{}, NodesOf(saved) \X NodeSlot} :
        SamePrefix(BuildForStage(saved, m, stage, authored),
                   BuildForStage(saved, n, stage, authored))
=============================================================================
