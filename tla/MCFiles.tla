------------------------------ MODULE MCFiles ------------------------------
(***************************************************************************)
(* What the service and its worker keep in files, for TLC: a record of the *)
(* join executions, the outputs of joins and of discs, and the inventory   *)
(* of a download.  Only the part named by the first state takes steps.     *)
(***************************************************************************)
EXTENDS JoinState, Staging, Sequences

VARIABLES part,
          tree, here, edits, published, download, run, listing, passes, instants, quiet

inventoryVars == <<tree, here, edits, published, download, run, listing, passes, instants, quiet>>

-----------------------------------------------------------------------------
(* The records *)

ASSUME JoinRecords == JoinRecordsOnly

-----------------------------------------------------------------------------
(* The outputs: of discs by Staging itself, and of joins *)

Discs == [a \in {"bluray", "dvd"} |-> a]
Joins == INSTANCE Staging WITH Artifacts <- {"join"}, Kind <- [a \in {"join"} |-> a],
                               MaxFaults <- 3, MaxChanges <- 2

ASSUME StagingConstants == ConstantsOK /\ Joins!ConstantsOK

-----------------------------------------------------------------------------
(* The inventory of a directory with a file and a directory, which may get a *)
(* file, and a place for a published repair                                  *)

Entry(kind, inode, size) == [kind |-> kind, inode |-> inode, time |-> 1, size |-> size]
Start == [p \in {".", "d", "d/x", "e", "p"} |->
            CASE p = "." -> Entry("dir", 1, 0) [] p = "e" -> Entry("file", 2, 1)
              [] p = "d" -> Entry("dir", 3, 0)
              [] OTHER -> Entry("none", 0, 0)]
Wanted(index, path, selected) == [index |-> index, path |-> path, length |-> 1, selected |-> selected]
GoodManifests == {<<Wanted(0, "e", TRUE), Wanted(1, "d/x", FALSE)>>, <<Wanted(0, "e", TRUE)>>,
                  <<Wanted(0, "e", FALSE), Wanted(1, "p", FALSE)>>}
BadManifests == {<<Wanted(0, "e", TRUE), Wanted(0, "d/x", TRUE)>>, <<Wanted(0, "outside", TRUE)>>,
                 <<[Wanted(0, "e", TRUE) EXCEPT !.length = 2]>>}

Paths == <<"d", "d/x", "e", "p">>
Parent == [n \in {"d", "d/x", "e", "p"} |-> IF n = "d/x" THEN "d" ELSE "."]
Listing == INSTANCE Inventory WITH
            answer <- listing, Names <- Paths, Published <- {"p"}, Targets <- {".", "e"},
            Manifests <- GoodManifests \cup BadManifests, Sizes <- {1},
            MaxEdits <- 2, MaxPublished <- 1, MaxPasses <- 1
\* inspectDirectory, recheckSnapshots: an inventory is what the directory held in one
\* moment of the pass, though its files were read one after the other; and a pass
\* during which nothing changes accepts exactly what agrees with the manifest.
InventoryIsExact == Listing!InventoryIsExact

-----------------------------------------------------------------------------
FilesInit ==
    /\ part \in {"records", "joins", "discs", "inventory"}
    /\ RecordInit
    /\ CASE part = "joins" -> Joins!Init
         [] part = "discs" -> Init
         [] OTHER -> /\ file = <<>> /\ disk = <<>> /\ content = <<>> /\ sources = <<>>
                     /\ answer = <<>> /\ pc = "idle" /\ art = "join" /\ out = 0
                     /\ to = "staged" /\ failing = FALSE
                     /\ created = 0 /\ faults = 0 /\ changes = 0
    /\ IF part = "inventory" THEN Listing!Init
       ELSE /\ tree = <<>> /\ here = 1 /\ edits = 0 /\ published = 0 /\ download = <<>>
            /\ run = [pc |-> "idle"] /\ listing = [kind |-> "none"] /\ passes = 0
            /\ instants = {} /\ quiet = FALSE
FilesNext ==
    /\ \/ part = "records" /\ RecordNext /\ UNCHANGED <<vars, inventoryVars>>
       \/ /\ \/ part = "joins" /\ Joins!Next
             \/ part = "discs" /\ Next
          /\ UNCHANGED <<recordVars, inventoryVars>>
       \/ part = "inventory" /\ Listing!Next /\ UNCHANGED <<recordVars, vars>>
    /\ UNCHANGED part
FilesSpec == FilesInit /\ [][FilesNext]_<<part, recordVars, vars, inventoryVars>>
=============================================================================
