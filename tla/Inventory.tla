----------------------------- MODULE Inventory -----------------------------
(***************************************************************************)
(* The inventory of a finished download (internal/filesystem): the reader  *)
(* walks a directory with one system call after the other while the        *)
(* download client, the importer and the media worker change it, and then  *)
(* looks at everything it saw a second time.                               *)
(*                                                                         *)
(* An entry has a kind, an inode, a time of modification and a size.  What *)
(* happens to a file's content is a new time, and what happens to the      *)
(* names in a directory is a new time of the directory; times do not       *)
(* repeat.  A directory that is moved away stays open as the reader's      *)
(* root: there are two directories, and `here` is the one at the path.     *)
(***************************************************************************)
EXTENDS Naturals, Sequences, FiniteSets, SequencesExt

CONSTANTS Names,     \* the paths below the root, in the order of a walk
          Parent,    \* the directory of each path
          Published, \* the paths with the name of a published repair
          Targets,   \* the paths a download may have: the root, or a file in it
          Manifests, \* sequences of [index, path, length, selected]
          Start,     \* the entries at first
          Sizes,
          MaxEdits, MaxPublished, MaxPasses

Root == "."
Paths == {Root} \cup Range(Names)
None == [kind |-> "none", inode |-> 0, time |-> 0, size |-> 0]

VARIABLES tree,      \* the entries of both directories
          here,      \* which of them is at the path
          edits, published,
          download,  \* target, ownership and manifest
          run,       \* the reader's locals
          answer,
          passes,
          instants,  \* auxiliary: what the directory held, each moment of the pass
          quiet      \* auxiliary: nothing has changed during the pass

world == <<tree, here, edits, published>>
ghosts == <<instants, quiet>>
vars == <<world, download, run, answer, passes, ghosts>>

-----------------------------------------------------------------------------
(* The manifest and the result *)

IsPublishedName(path) == path \in Published

\* FromFileInfo
Fingerprint(node) == [inode |-> node.inode, time |-> node.time, size |-> node.size]

manifestRelativePath(path) == {p \in Paths \ {Root} : p = path}

\* The manifest by path, or nothing: a path or an index may not come twice.
buildManifest(ownership, files) ==
    IF \/ ownership = "tree" /\ files # <<>>
       \/ \E f \in Range(files) : manifestRelativePath(f.path) = {}
       \/ \E i, j \in DOMAIN files : i # j /\ (files[i].index = files[j].index \/ files[i].path = files[j].path)
    THEN {} ELSE {Range(files)}

validateManifestScope(manifest, target) ==
    \/ download.ownership = "tree"
    \/ target = Root
    \/ {f.path : f \in manifest} = {target}

\* The inventory, or nothing.  The size of an output tree's file is its own.
assembleInventory(manifest, observed) ==
    LET Entry(o) == {f \in manifest : f.path = o.path}
        sources == {o \in observed : Entry(o) # {} \/ ~IsPublishedName(o.path)}
    IN  IF \/ \E o \in sources : \E f \in Entry(o) : f.length # o.node.size
           \/ \E f \in manifest : f.selected /\ f.path \notin {o.path : o \in sources}
        THEN {} ELSE {{[path |-> o.path, fingerprint |-> Fingerprint(o.node), entry |-> Entry(o)] : o \in sources}}

-----------------------------------------------------------------------------
Idle == [pc |-> "idle", manifest |-> {}, walk |-> Root, target |-> None, outer |-> None,
         root |-> 0, todo |-> <<>>, snapshots |-> <<>>, observed |-> {}]
NoAnswer == [kind |-> "none", files |-> {}]

\* The files at the path now, in or below the target.
FilesNow == {[path |-> p, node |-> tree[here][p]] :
                p \in {q \in Paths : /\ tree[here][q].kind = "file"
                                     /\ download.target \in {Root, q}}}

Init ==
    /\ tree = [d \in 1..2 |-> [p \in Paths |->
                  IF Start[p].kind = "none" THEN None ELSE [Start[p] EXCEPT !.inode = @ + 10 * d]]]
    /\ here = 1 /\ edits = 0 /\ published = 0 /\ passes = 0
    /\ download \in [target : Targets, ownership : {"manifest"}, files : Manifests]
                      \cup [target : Targets, ownership : {"tree"}, files : {<<>>}]
    /\ run = Idle /\ answer = NoAnswer
    /\ instants = {} /\ quiet = TRUE

Refuse(kind) == run' = Idle /\ answer' = [NoAnswer EXCEPT !.kind = kind]
Goto(step) == run' = [run EXCEPT !.pc = step] /\ UNCHANGED answer

Lstat(path) == tree[here][path]
RootLstat(path) == tree[run.root][path]

-----------------------------------------------------------------------------
(* The reader *)

Begin ==
    /\ run.pc = "idle" /\ passes < MaxPasses
    /\ run' = [Idle EXCEPT !.pc = "scope"]
    /\ passes' = passes + 1 /\ answer' = NoAnswer
    /\ instants' = {FilesNow} /\ quiet' = TRUE
    /\ UNCHANGED <<world, download>>

\* The target is a directory, or a file of which the directory is the root.
resolveInventoryScope ==
    /\ run.pc = "scope"
    /\ LET node == Lstat(download.target)
           manifests == buildManifest(download.ownership, download.files)
       IN  IF \/ node.kind \notin {"dir", "file"} \/ manifests = {}
              \/ \E m \in manifests : ~validateManifestScope(m, download.target)
           THEN Refuse("refused")
           ELSE /\ \E m \in manifests :
                     run' = [run EXCEPT !.pc = "outer", !.walk = download.target, !.target = node, !.manifest = m]
                /\ UNCHANGED answer
    /\ UNCHANGED <<world, download, passes, ghosts>>

InspectRoot ==
    /\ run.pc = "outer"
    /\ run' = [run EXCEPT !.pc = "root", !.outer = Lstat(Root)]
    /\ UNCHANGED <<world, download, answer, passes, ghosts>>

\* The root is opened, and is the directory that was inspected.
openRoot ==
    /\ run.pc = "root"
    /\ IF Fingerprint(Lstat(Root)) # Fingerprint(run.outer) THEN Refuse("changed")
       ELSE /\ run' = [run EXCEPT !.pc = "walk", !.root = here,
                          !.todo = <<[path |-> run.walk, dir |-> Lstat(run.walk).kind = "dir"]>>]
            /\ UNCHANGED answer
    /\ UNCHANGED <<world, download, passes, ghosts>>

\* The callback of WalkDir for the next entry, up to the opening of a file.
Visit ==
    /\ run.pc = "walk" /\ run.todo # <<>>
    /\ LET e == Head(run.todo)
           node == RootLstat(e.path)
       IN  CASE node.kind = "none" -> Refuse("changed")
             [] node.kind = "link" -> Refuse("refused")
             [] OTHER ->
                  /\ run' = [run EXCEPT !.snapshots = Append(@, [path |-> e.path, node |-> node]),
                               !.pc = IF node.kind = "file" THEN "open" ELSE IF e.dir THEN "list" ELSE "walk",
                               !.todo = IF node.kind = "dir" /\ ~e.dir THEN Tail(@) ELSE @]
                  /\ UNCHANGED answer
    /\ UNCHANGED <<world, download, passes, ghosts>>

\* The file that is opened is the one that was inspected.
openRegularFile ==
    /\ run.pc = "open"
    /\ LET e == Head(run.todo)
           node == RootLstat(e.path)
       IN  IF node # Last(run.snapshots).node THEN Refuse("changed")
           ELSE /\ run' = [run EXCEPT !.observed = @ \cup {[path |-> e.path, node |-> node]},
                                      !.pc = IF e.dir THEN "list" ELSE "walk",
                                      !.todo = IF e.dir THEN @ ELSE Tail(@)]
                /\ UNCHANGED answer
    /\ UNCHANGED <<world, download, passes, ghosts>>

\* WalkDir reads the names in a directory, and what kind each is, at once.
ReadDir ==
    /\ run.pc = "list"
    /\ LET e == Head(run.todo)
           children == SelectSeq(Names, LAMBDA p : Parent[p] = e.path /\ RootLstat(p).kind # "none")
       IN  IF RootLstat(e.path).kind # "dir" THEN Refuse("changed")
           ELSE /\ run' = [run EXCEPT !.pc = "walk",
                             !.todo = [i \in DOMAIN children |->
                                         [path |-> children[i], dir |-> RootLstat(children[i]).kind = "dir"]]
                                      \o Tail(@)]
                /\ UNCHANGED answer
    /\ UNCHANGED <<world, download, passes, ghosts>>

Walked ==
    /\ run.pc = "walk" /\ run.todo = <<>>
    /\ Goto("recheck")
    /\ UNCHANGED <<world, download, passes, ghosts>>

\* Mutant: only files are looked at again.
recheckSnapshotsOfFiles ==
    /\ run.pc = "recheck"
    /\ IF run.snapshots = <<>> THEN Goto("final")
       ELSE LET before == Head(run.snapshots) IN
            IF before.node.kind = "file" /\ RootLstat(before.path) # before.node THEN Refuse("changed")
            ELSE run' = [run EXCEPT !.snapshots = Tail(@)] /\ UNCHANGED answer
    /\ UNCHANGED <<world, download, passes, ghosts>>

\* Every entry again, one after the other.
recheckSnapshots ==
    /\ run.pc = "recheck"
    /\ IF run.snapshots = <<>> THEN Goto("final")
       ELSE LET before == Head(run.snapshots) IN
            IF RootLstat(before.path) # before.node THEN Refuse("changed")
            ELSE run' = [run EXCEPT !.snapshots = Tail(@)] /\ UNCHANGED answer
    /\ UNCHANGED <<world, download, passes, ghosts>>

RecheckRoot ==
    /\ run.pc = "final"
    /\ IF Fingerprint(Lstat(Root)) # Fingerprint(run.outer) THEN Refuse("changed") ELSE Goto("target")
    /\ UNCHANGED <<world, download, passes, ghosts>>

\* The target again, and the result.
Finish ==
    /\ run.pc = "target"
    /\ LET node == Lstat(download.target)
           inventories == assembleInventory(run.manifest, run.observed)
       IN  CASE node.kind = "link" \/ Fingerprint(node) # Fingerprint(run.target) ->
                  Refuse("changed")
             [] inventories = {} /\ Fingerprint(node) = Fingerprint(run.target) /\ node.kind # "link" ->
                  Refuse("refused")
             [] OTHER -> \E files \in inventories :
                  /\ run' = Idle /\ answer' = [kind |-> "accepted", files |-> files]
    /\ UNCHANGED <<world, download, passes, ghosts>>

\* The context ends, or a system call fails.
Fail ==
    /\ run.pc # "idle"
    /\ Refuse("failed")
    /\ UNCHANGED <<world, download, passes, ghosts>>

-----------------------------------------------------------------------------
(* What happens to the directory *)

Now == edits + published + 2
Changed == quiet' = FALSE /\ instants' = instants \cup {FilesNow'}
Reading == UNCHANGED <<download, run, answer, passes>>
File(size) == [kind |-> "file", inode |-> 100 + Now, time |-> Now, size |-> size]
Below(p) == {q \in Paths : q = p \/ (q # Root /\ Parent[q] = p)}
Listed == {m.path : m \in Range(download.files)}
Exists(p) == tree[here][p].kind # "none"

\* The names in p's directory change: p becomes node, and nothing is below it.
Rename(p, node) ==
    /\ Exists(Parent[p]) /\ tree[here][Parent[p]].kind = "dir"
    /\ tree' = [tree EXCEPT ![here] = [q \in Paths |->
                  CASE q = p -> node
                    [] q # p /\ q \in Below(p) -> None
                    [] q = Parent[p] -> [tree[here][q] EXCEPT !.time = Now]
                    [] OTHER -> tree[here][q]]]
    /\ UNCHANGED here

Edit ==
    /\ edits < MaxEdits /\ edits' = edits + 1
    /\ \/ \E p \in Paths, size \in Sizes : \* a file is written to
             /\ tree[here][p].kind = "file"
             /\ tree' = [tree EXCEPT ![here][p].time = Now, ![here][p].size = size]
             /\ UNCHANGED here
       \/ \E p \in Range(Names), size \in Sizes : \* a file is made, or moved over another
             p \notin Published \ Listed /\ tree[here][p].kind # "dir" /\ Rename(p, File(size))
       \/ \E p \in Range(Names) : Exists(p) /\ Rename(p, None)
       \/ \E p \in Range(Names) : \* something gives way to a link
             p \notin Published /\ Exists(p) /\ Rename(p, [File(0) EXCEPT !.kind = "link"])
       \/ here' = 3 - here /\ UNCHANGED tree \* the directory, to another one
    /\ UNCHANGED published
    /\ Reading
    /\ Changed

\* The media worker links a finished repair into the download.  Its name is a
\* digest that no file of the download has.
Publish ==
    /\ published < MaxPublished /\ published' = published + 1
    /\ \E p \in Published \ Listed, size \in Sizes : ~Exists(p) /\ Rename(p, File(size))
    /\ UNCHANGED edits
    /\ Reading
    /\ Changed

Read == \/ Begin \/ resolveInventoryScope \/ InspectRoot \/ openRoot \/ Visit \/ openRegularFile
        \/ ReadDir \/ Walked \/ recheckSnapshots \/ RecheckRoot \/ Finish

Next == Read \/ Fail \/ Edit \/ Publish

Spec == Init /\ [][Next]_vars

-----------------------------------------------------------------------------
\* An inventory is what the directory held in one moment of the pass, though
\* its files were read one after the other: nothing is listed that was never
\* there together.  (recheckSnapshots after the whole walk)
AcceptedIsInstant ==
    answer.kind = "accepted" =>
        \E files \in instants :
            {[path |-> f.path, fingerprint |-> f.fingerprint] : f \in answer.files}
              = {[path |-> o.path, fingerprint |-> Fingerprint(o.node)] :
                    o \in {f \in files : \/ ~IsPublishedName(f.path)
                                         \/ f.path \in Listed}}

\* What a directory must be for its inventory to be accepted.
Sound ==
    LET held == [p \in Paths |-> tree[here][p]]
        wanted == Range(download.files)
    IN  /\ buildManifest(download.ownership, download.files) # {}
        /\ download.target # Root /\ download.ownership = "manifest" =>
              Listed = {download.target}
        /\ held[download.target].kind \in {"dir", "file"}
        /\ \A p \in Paths : held[p].kind = "link" => download.target \notin {Root, p}
        /\ \A m \in wanted : held[m.path].kind = "file" => held[m.path].size = m.length
        /\ \A m \in wanted : m.selected => held[m.path].kind = "file"

\* A pass during which nothing changes accepts exactly the directories that
\* agree with the manifest; it never takes its own reading for a change.
QuietPassIsExact ==
    quiet /\ answer.kind \in {"accepted", "refused", "changed"} =>
        answer.kind = IF Sound THEN "accepted" ELSE "refused"

\* Both: an inventory that is accepted is true, and one that is true is accepted.
InventoryIsExact == AcceptedIsInstant /\ QuietPassIsExact
=============================================================================
