------------------------------ MODULE WorkerKit ------------------------------
(* The signed worker kit: how it is loaded from the desktop's installation   *)
(* (cyc-provision/src/worker_kit.rs) while an update may be replacing it,    *)
(* and how a loaded kit is exported with an enrollment bundle to a folder    *)
(* for a manual installation (worker_kit_export.rs).                         *)
(*                                                                           *)
(* The bytes of a file are named by the release and the target they were     *)
(* published for; a digest, a signature or a checksum over bytes is the name *)
(* of those bytes. Release 0 is anything the publisher never signed.         *)
EXTENDS Naturals, Sequences

CONSTANTS
    KitTargets,     \* platforms a kit is published for
    Bundles,        \* enrollment bundles the controller issued
    MaxKitChanges,  \* bound on changes to the installed kit
    MaxExports,     \* bound on export and cleanup calls
    MaxExportFaults \* bound on I/O errors, crashes and changes by the user

ASSUME WorkerKitAssumption ==
    /\ "none" \notin KitTargets /\ 0 \notin Bundles
    /\ MaxKitChanges \in Nat /\ MaxExports \in Nat /\ MaxExportFaults \in Nat

VARIABLES
    kitDir,  \* the kit directory of one target
    load,       \* load_target, file by file
    staging,    \* the export's private staging tree
    exported,   \* the published tree
    export,     \* the export in progress and its last answer
    kitChanges, kitCalls, kitFaults

kitVars == <<kitDir, load, staging, exported, export, kitChanges, kitCalls, kitFaults>>
loadVars == <<kitDir, load, kitChanges>>
exportVars == <<staging, exported, export, kitCalls, kitFaults>>

-----------------------------------------------------------------------------
(* Loading.                                                                  *)

Releases == 1..2
\* expected_names, in the order they are read.
KitFiles == <<"worker", "lifecycle", "manifest", "signature", "sums">>
KitFileSet == {KitFiles[i] : i \in DOMAIN KitFiles}
Published(rel, target) == [rel |-> rel, target |-> target]
Damaged == [rel |-> 0, target |-> "none"]
Oversized == [rel |-> 0, target |-> "oversized"]
NoBytes == [rel |-> 0, target |-> "absent"]
Bytes == [rel : Releases, target : KitTargets] \cup {Damaged, Oversized, NoBytes}

\* Directories and entries must be real: no links, no second names, no other files.
PathChainSafe(d) == d.shape # "linked"
EntriesSafe(d) == d.shape # "hard_linked"
NamesExact(d) == d.shape # "extra" /\ \A f \in KitFileSet : d.files[f] # NoBytes
\* read_bounded_nofollow: the entry is opened without following links, keeps its
\* identity while it is read, and stays within the size of its name.
BoundedRead(bytes) == bytes \notin {NoBytes, Oversized}
\* verify_unchanged_identity, after the last file.
IdentityUnchanged(l, d) == l.dir = d.dir

ManifestCanonical(b) == b.manifest.rel # 0
\* verify_publisher_signature: the envelope names the manifest's digest and the
\* pinned key verifies it.
SignatureVerifies(b) == b.signature = b.manifest
\* validate_manifest: the fixed fields, the target, and the digests of both files.
ManifestMatches(target, b) ==
    /\ b.manifest.target = target
    /\ b.worker = b.manifest /\ b.lifecycle = b.manifest
SumsParse(b) == b.sums.rel # 0

\* Mutant: the checksum file is parsed but not compared.
MutChecksumsMatch(b) == TRUE

ChecksumsMatch(b) == \A f \in KitFileSet \ {"sums"} : b[f] = b.sums
KitVerified(target, b) ==
    /\ ManifestCanonical(b)
    /\ SignatureVerifies(b)
    /\ ManifestMatches(target, b)
    /\ SumsParse(b) /\ ChecksumsMatch(b)

NothingRead == [f \in KitFileSet |-> NoBytes]
LoadIdle == [st |-> "idle", target |-> "none", dir |-> 0, next |-> 1, bytes |-> NothingRead]
Refuse == load' = [LoadIdle EXCEPT !.st = "refused"]

\* from_inventory and load_for_inventory choose the directory by the platform.
LoadBegin ==
    /\ load.st \in {"idle", "refused"}
    /\ IF PathChainSafe(kitDir) /\ EntriesSafe(kitDir) /\ NamesExact(kitDir)
       THEN load' = [LoadIdle EXCEPT !.st = "reading", !.target = kitDir.target,
                                     !.dir = kitDir.dir]
       ELSE Refuse
    /\ UNCHANGED <<kitDir, kitChanges>>

LoadReads ==
    /\ load.st = "reading" /\ load.next <= Len(KitFiles)
    /\ LET f == KitFiles[load.next]
       IN  IF EntriesSafe(kitDir) /\ BoundedRead(kitDir.files[f])
           THEN load' = [load EXCEPT !.bytes[f] = kitDir.files[f], !.next = @ + 1]
           ELSE Refuse
    /\ UNCHANGED <<kitDir, kitChanges>>

LoadFinishes ==
    /\ load.st = "reading" /\ load.next > Len(KitFiles)
    /\ IF IdentityUnchanged(load, kitDir) /\ KitVerified(load.target, load.bytes)
       THEN load' = [load EXCEPT !.st = "loaded"]
       ELSE Refuse
    /\ UNCHANGED <<kitDir, kitChanges>>

\* The kit is dropped after its use.
LoadDropped ==
    /\ load.st = "loaded" /\ export.st = "idle"
    /\ load' = LoadIdle
    /\ UNCHANGED <<kitDir, kitChanges>>

\* An update of the installation, or damage to it (external): file by file, the
\* directory as a whole, or its shape. Only a later load sees a change made while
\* a kit is in memory, so that change is left to the time after it is dropped.
KitChanges ==
    /\ kitChanges < MaxKitChanges
    /\ load.st # "loaded"
    /\ kitChanges' = kitChanges + 1
    /\ \/ \E f \in KitFileSet, b \in Bytes : kitDir' = [kitDir EXCEPT !.files[f] = b]
       \/ \E r \in Releases, t \in KitTargets :
            kitDir' = [kitDir EXCEPT !.dir = @ + 1,
                                           !.files = [f \in KitFileSet |-> Published(r, t)]]
       \/ \E s \in {"exact", "extra", "linked", "hard_linked"} :
            kitDir' = [kitDir EXCEPT !.shape = s]
    /\ UNCHANGED load

-----------------------------------------------------------------------------
(* Exporting one operation.                                                  *)

\* A tree below the selected parent: its marker names the kit it belongs to.
\* "touched" remembers that a cleanup began on it or the user changed it.
NoTree == [exists |-> FALSE, marker |-> 0, torn |-> FALSE, kit |-> 0, secret |-> 0,
           launcher |-> FALSE, foreign |-> FALSE, touched |-> FALSE]
\* The stages in which export_inner fills its staging tree.
Stages(want) ==
    LET dir == [NoTree EXCEPT !.exists = TRUE]
        marked == [dir EXCEPT !.marker = want.rel]
        filled == [marked EXCEPT !.kit = want.rel]
        private == [filled EXCEPT !.secret = want.bundle]
    IN  <<dir, marked, filled, private, [private EXCEPT !.launcher = TRUE]>>
\* write_verified_file creates, writes and reads back; interrupted, it leaves a
\* part of the file, which only matters for the marker.
Torn(tree) == IF tree.marker = 0 THEN [tree EXCEPT !.torn = TRUE] ELSE tree

\* validate_identity: a canonical marker of this operation.
MarkerValid(tree) == tree.marker # 0 /\ ~tree.torn
TreeExact(tree) == tree.kit # 0 /\ tree.secret # 0 /\ tree.launcher /\ ~tree.foreign

\* Mutant: a retry accepts any enrollment in the published tree.
MutExportMatches(tree, want) ==
    MarkerValid(tree) /\ TreeExact(tree) /\ tree.marker = want.rel /\ tree.kit = want.rel

\* validate_export_tree: exact names and the same marker, kit, launcher and secret.
ExportMatches(tree, want) ==
    /\ MarkerValid(tree) /\ TreeExact(tree)
    /\ tree.marker = want.rel /\ tree.kit = want.rel /\ tree.secret = want.bundle

\* Mutant: the marker is removed first.
MutRemovals(tree) ==
    LET begun == [tree EXCEPT !.touched = TRUE]
        unmarked == [begun EXCEPT !.marker = 0]
    IN  <<begun, unmarked, [unmarked EXCEPT !.kit = 0], NoTree>>

\* cleanup_owned_root: kit, secret, launcher, and the marker last.
Removals(tree) ==
    LET begun == [tree EXCEPT !.touched = TRUE]
        noKit == [begun EXCEPT !.kit = 0]
        noSecret == [noKit EXCEPT !.secret = 0]
        noLauncher == [noSecret EXCEPT !.launcher = FALSE]
    IN  <<begun, noKit, noSecret, noLauncher, [noLauncher EXCEPT !.marker = 0], NoTree>>
\* The marker proves ownership and no unknown name may be present; an I/O error
\* stops the removal half way.
Owned(tree) == MarkerValid(tree) /\ ~tree.foreign
CleanupOutcomes(tree) ==
    IF ~tree.exists THEN {[tree |-> tree, ok |-> TRUE, cost |-> 0]}
    ELSE IF ~Owned(tree) THEN {[tree |-> tree, ok |-> FALSE, cost |-> 0]}
    ELSE {[tree |-> NoTree, ok |-> TRUE, cost |-> 0]}
         \cup {[tree |-> Removals(tree)[i], ok |-> FALSE, cost |-> 1] :
                i \in 1..(Len(Removals(tree)) - 1)}

ExportIdle == [st |-> "idle", want |-> [rel |-> 0, bundle |-> 0], stage |-> 0, answer |-> "none"]
Answer(a) == export' = [export EXCEPT !.st = "idle", !.stage = 0, !.answer = a]
ExportCosts(n) == kitFaults + n <= MaxExportFaults /\ kitFaults' = kitFaults + n

\* export: validate_in_memory has nothing to add to a loaded kit. A published tree
\* is validated and never replaced; a staging tree of this operation is removed.
ExportBegin(bundle) ==
    /\ export.st = "idle" /\ load.st = "loaded" /\ kitCalls < MaxExports
    /\ kitCalls' = kitCalls + 1
    /\ LET want == [rel |-> load.bytes.worker.rel, bundle |-> bundle]
       IN  \E o \in CleanupOutcomes(staging) :
            IF exported.exists
            THEN /\ IF ExportMatches(exported, want)
                    THEN /\ staging' = o.tree /\ ExportCosts(o.cost)
                         /\ export' = [ExportIdle EXCEPT !.want = want,
                                            !.answer = IF o.ok THEN "ok" ELSE "failed"]
                    ELSE /\ export' = [ExportIdle EXCEPT !.want = want, !.answer = "failed"]
                         /\ UNCHANGED <<staging, kitFaults>>
            ELSE /\ staging' = o.tree /\ ExportCosts(o.cost)
                 /\ export' = [ExportIdle EXCEPT !.want = want,
                                    !.st = IF o.ok THEN "filling" ELSE "idle",
                                    !.answer = IF o.ok THEN "none" ELSE "failed"]
    /\ UNCHANGED exported

ExportFills ==
    /\ export.st = "filling" /\ export.stage < 5
    /\ staging' = Stages(export.want)[export.stage + 1]
    /\ export' = [export EXCEPT !.stage = @ + 1]
    /\ UNCHANGED <<exported, kitCalls, kitFaults>>

\* The tree is validated, then renamed without replacing, then validated again.
ExportPublishes ==
    /\ export.st = "filling" /\ export.stage = 5
    /\ ExportMatches(staging, export.want)
    /\ ~exported.exists
    /\ exported' = staging /\ staging' = NoTree
    /\ Answer("ok")
    /\ UNCHANGED <<kitCalls, kitFaults>>

\* An I/O error at any stage, before the rename or after it: the staging tree is
\* removed if it can be. The directory's creation is not yet covered by that.
ExportFails ==
    /\ export.st = "filling"
    /\ \/ /\ export.stage = 0
          /\ staging' \in {staging, Stages(export.want)[1]}
          /\ ExportCosts(1) /\ UNCHANGED exported
       \/ /\ export.stage > 0
          /\ \E o \in CleanupOutcomes(staging) \cup CleanupOutcomes(Torn(staging)) :
                staging' = o.tree /\ ExportCosts(1 + o.cost)
          /\ UNCHANGED exported
       \/ /\ export.stage = 5 /\ ~exported.exists
          /\ exported' = staging /\ staging' = NoTree
          /\ ExportCosts(1)
    /\ Answer("failed")
    /\ UNCHANGED kitCalls

ExportCrashes ==
    /\ export.st = "filling"
    /\ ExportCosts(1)
    /\ \/ staging' \in {staging, IF export.stage = 1 THEN Torn(staging) ELSE staging}
          /\ UNCHANGED exported
       \/ export.stage = 5 /\ ~exported.exists /\ exported' = staging /\ staging' = NoTree
    /\ export' = ExportIdle
    /\ UNCHANGED kitCalls

\* cleanup: staging first, then the published tree; the first refusal ends it.
ExportCleanup ==
    /\ export.st = "idle" /\ kitCalls < MaxExports
    /\ kitCalls' = kitCalls + 1
    /\ \E s \in CleanupOutcomes(staging), e \in CleanupOutcomes(exported) :
        /\ staging' = s.tree
        /\ exported' = IF s.ok THEN e.tree ELSE exported
        /\ ExportCosts(s.cost + IF s.ok THEN e.cost ELSE 0)
        /\ export' = [ExportIdle EXCEPT !.answer = IF s.ok /\ e.ok THEN "clean" ELSE "failed"]

\* The user adds a file to the exported folder, or its launcher consumes the bundle.
UserTouches ==
    /\ exported.exists /\ ExportCosts(1)
    /\ exported' \in {[exported EXCEPT !.foreign = TRUE, !.touched = TRUE],
                      [exported EXCEPT !.secret = 0, !.touched = TRUE]}
    /\ export' = ExportIdle
    /\ export.st = "idle"
    /\ UNCHANGED <<staging, kitCalls>>

-----------------------------------------------------------------------------
KitInit ==
    /\ \E t \in KitTargets, u \in KitTargets :
        kitDir = [target |-> t, dir |-> 0, shape |-> "exact",
                     files |-> [f \in KitFileSet |-> Published(1, u)]]
    /\ load = LoadIdle
    /\ staging = NoTree /\ exported = NoTree /\ export = ExportIdle
    /\ kitChanges = 0 /\ kitCalls = 0 /\ kitFaults = 0

KitNext ==
    \/ (LoadBegin \/ LoadReads \/ LoadFinishes \/ LoadDropped \/ KitChanges) /\ UNCHANGED exportVars
    \/ /\ \/ \E b \in Bundles : ExportBegin(b)
          \/ ExportFills \/ ExportPublishes \/ ExportFails \/ ExportCrashes
          \/ ExportCleanup \/ UserTouches
       /\ UNCHANGED loadVars

KitSpec == KitInit /\ [][KitNext]_kitVars

-----------------------------------------------------------------------------
(* Properties.                                                               *)

\* A kit that loads is one signed release for the requested platform in all five
\* files, however an update replaced files or the directory between two reads
\* (load_target reads first and verifies afterwards).
KitAuthentic ==
    load.st = "loaded" =>
        \E r \in Releases : \A f \in KitFileSet : load.bytes[f] = Published(r, load.target)

\* A published export is whole from the moment it can be seen, and an export call
\* is answered with success only if the published folder holds exactly its kit and
\* its enrollment, also when it answers for an earlier call (export_inner).
ExportHonest ==
    /\ exported.exists /\ ~exported.touched => MarkerValid(exported) /\ TreeExact(exported)
    /\ export.answer = "ok" => /\ exported.exists
                               /\ exported.kit = export.want.rel
                               /\ exported.secret = export.want.bundle

\* An enrollment secret on disk can always be found and removed again: whatever
\* was interrupted, its tree still carries the marker that cleanup needs.
SecretReclaimable ==
    \A tree \in {staging, exported} : tree.secret # 0 => MarkerValid(tree)
=============================================================================
