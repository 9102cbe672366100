---------------------------- MODULE DesktopProofs ----------------------------
(***************************************************************************)
(* Safety of the desktop's three long operations, for every number of      *)
(* changes, calls and faults: loading and exporting the signed worker kit  *)
(* (WorkerKit), the Full Run Check with the smoke run (FullRun), and the   *)
(* integration with Codex (CodexIntegration).                              *)
(***************************************************************************)
EXTENDS FullRun, WorkerKit, CodexIntegration, TLAPS

-----------------------------------------------------------------------------
(* The worker kit: loading.                                                *)

LoadShape == [ st: {"idle", "refused", "reading", "loaded"},
               target: KitTargets \cup {"none"}, dir: Nat, next: Nat,
               bytes: [KitFileSet -> Bytes] ]

DirShape == [ target: KitTargets, dir: Nat,
              shape: {"exact", "extra", "linked", "hard_linked"},
              files: [KitFileSet -> Bytes] ]

LoadOK ==
    /\ kitDir \in DirShape
    /\ load \in LoadShape
    /\ KitAuthentic

(* The five files.                                                         *)
LEMMA KitFileNames ==
    /\ KitFileSet = {"worker", "lifecycle", "manifest", "signature", "sums"}
    /\ Len(KitFiles) = 5 /\ \A i \in 1..5 : KitFiles[i] \in KitFileSet
<1>1. Len(KitFiles) = 5 /\ DOMAIN KitFiles = 1..5
  BY DEF KitFiles
<1>2. /\ KitFiles[1] = "worker" /\ KitFiles[2] = "lifecycle"
      /\ KitFiles[3] = "manifest" /\ KitFiles[4] = "signature"
      /\ KitFiles[5] = "sums"
  BY DEF KitFiles
<1>3. KitFileSet = {KitFiles[i] : i \in 1..5}
  BY <1>1 DEF KitFileSet
<1>4. \A i \in 1..5 : i = 1 \/ i = 2 \/ i = 3 \/ i = 4 \/ i = 5
  OBVIOUS
<1>5. 1 \in 1..5 /\ 2 \in 1..5 /\ 3 \in 1..5 /\ 4 \in 1..5 /\ 5 \in 1..5
  OBVIOUS
<1>6. \A x : x \in KitFileSet <=> \E i \in 1..5 : x = KitFiles[i]
  BY <1>3
<1> HIDE DEF KitFileSet
<1>7. KitFileSet = {"worker", "lifecycle", "manifest", "signature", "sums"}
  BY <1>2, <1>4, <1>5, <1>6
<1> QED BY <1>1, <1>6, <1>7

(* What verification concludes from the bytes it was given.                *)
LEMMA VerifiedIsPublished ==
    ASSUME NEW t, NEW b \in [KitFileSet -> Bytes], KitVerified(t, b)
    PROVE  \E r \in Releases : \A f \in KitFileSet : b[f] = Published(r, t)
<1>1. b["manifest"] \in Bytes /\ b["manifest"].rel # 0
  BY KitFileNames DEF KitVerified, ManifestCanonical
<1>2. b["manifest"] \in [rel : Releases, target : KitTargets]
  BY <1>1 DEF Bytes, Damaged, Oversized, NoBytes
<1>3. b["manifest"].target = t
  BY DEF KitVerified, ManifestMatches
<1>4. /\ b["manifest"] = Published(b["manifest"].rel, t)
      /\ b["manifest"].rel \in Releases
  BY <1>2, <1>3 DEF Published
<1>5. \A f \in KitFileSet : b[f] = b["manifest"]
  <2>1. \A f \in KitFileSet \ {"sums"} : b[f] = b["sums"]
    BY DEF KitVerified, ChecksumsMatch
  <2> QED BY <2>1, KitFileNames
<1> QED BY <1>4, <1>5

(* Steps of the loader, and changes of the kit directory under it.         *)
LEMMA LoadStepOK ==
    ASSUME LoadOK, LoadBegin \/ LoadReads \/ LoadFinishes \/ LoadDropped \/ KitChanges
    PROVE  LoadOK'
<1>1. NothingRead \in [KitFileSet -> Bytes]
  BY DEF NothingRead, Bytes
<1>2. LoadIdle \in LoadShape /\ LoadIdle.st = "idle"
  BY <1>1 DEF LoadIdle, LoadShape
<1>3. ASSUME UNCHANGED kitDir, load' \in LoadShape, load'.st # "loaded"
      PROVE  LoadOK'
  BY <1>3 DEF LoadOK, KitAuthentic
<1>4. ASSUME UNCHANGED kitDir, Refuse
      PROVE  LoadOK'
  <2>1. load' = [LoadIdle EXCEPT !.st = "refused"]
    BY <1>4 DEF Refuse
  <2>2. load' \in LoadShape /\ load'.st = "refused"
    BY <1>2, <2>1 DEF LoadShape
  <2> QED BY <1>3, <1>4, <2>2
<1>5. CASE LoadBegin
  <2>1. CASE load' = [LoadIdle EXCEPT !.st = "reading", !.target = kitDir.target,
                                      !.dir = kitDir.dir]
    <3>1. kitDir.target \in KitTargets /\ kitDir.dir \in Nat
      BY DEF LoadOK, DirShape
    <3>2. load' \in LoadShape /\ load'.st = "reading"
      BY <1>2, <2>1, <3>1 DEF LoadShape
    <3> QED BY <1>3, <1>5, <3>2 DEF LoadBegin
  <2> QED BY <1>4, <1>5, <2>1 DEF LoadBegin
<1>6. CASE LoadReads
  <2> DEFINE f == KitFiles[load.next]
  <2>0. load \in LoadShape /\ kitDir.files \in [KitFileSet -> Bytes]
    BY DEF LoadOK, DirShape
  <2>1. CASE load' = [load EXCEPT !.bytes[f] = kitDir.files[f], !.next = load.next + 1]
    <3>1. load.next + 1 \in Nat
      BY <2>0 DEF LoadShape
    <3>2. [load.bytes EXCEPT ![f] = kitDir.files[f]] \in [KitFileSet -> Bytes]
      <4>1. load.bytes \in [KitFileSet -> Bytes]
        BY <2>0 DEF LoadShape
      <4>2. f \in KitFileSet => kitDir.files[f] \in Bytes
        BY <2>0
      <4> QED BY <4>1, <4>2
    <3>3. load' = [load EXCEPT !.bytes = [load.bytes EXCEPT ![f] = kitDir.files[f]],
                               !.next = load.next + 1]
      BY <2>0, <2>1 DEF LoadShape
    <3> HIDE DEF f
    <3>4. load' \in LoadShape
      BY <2>0, <3>1, <3>2, <3>3, ZenonT(60) DEF LoadShape
    <3>5. load'.st = "reading"
      BY <1>6, <2>0, <3>3 DEF LoadShape, LoadReads
    <3> QED BY <1>3, <1>6, <3>4, <3>5 DEF LoadReads
  <2> QED BY <1>4, <1>6, <2>1 DEF LoadReads
<1>7. CASE LoadFinishes
  <2>0. load \in LoadShape
    BY DEF LoadOK
  <2>1. CASE /\ KitVerified(load.target, load.bytes)
             /\ load' = [load EXCEPT !.st = "loaded"]
    <3>1. /\ load' \in LoadShape /\ load'.bytes = load.bytes
          /\ load'.target = load.target /\ load.bytes \in [KitFileSet -> Bytes]
      BY <2>0, <2>1 DEF LoadShape
    <3>2. KitAuthentic'
      BY <2>1, <3>1, VerifiedIsPublished DEF KitAuthentic
    <3> QED BY <1>7, <3>1, <3>2 DEF LoadOK, LoadFinishes
  <2> QED BY <1>4, <1>7, <2>1 DEF LoadFinishes
<1>8. CASE LoadDropped
  BY <1>2, <1>3, <1>8 DEF LoadDropped
<1>9. CASE KitChanges
  <2>0. load \in LoadShape /\ kitDir \in DirShape
    BY DEF LoadOK
  <2>1. kitDir' \in DirShape
    <3>1. ASSUME NEW f \in KitFileSet, NEW b \in Bytes,
                 kitDir' = [kitDir EXCEPT !.files[f] = b]
          PROVE  kitDir' \in DirShape
      <4>1. [kitDir.files EXCEPT ![f] = b] \in [KitFileSet -> Bytes]
        BY <2>0, <3>1 DEF DirShape
      <4>2. kitDir' = [kitDir EXCEPT !.files = [kitDir.files EXCEPT ![f] = b]]
        BY <2>0, <3>1 DEF DirShape
      <4> QED BY <2>0, <4>1, <4>2, ZenonT(60) DEF DirShape
    <3>2. ASSUME NEW s \in {"exact", "extra", "linked", "hard_linked"},
                 kitDir' = [kitDir EXCEPT !.shape = s]
          PROVE  kitDir' \in DirShape
      BY <2>0, <3>2 DEF DirShape
    <3>3. ASSUME NEW r \in Releases, NEW t \in KitTargets,
                 kitDir' = [kitDir EXCEPT !.dir = @ + 1,
                                          !.files = [f \in KitFileSet |-> Published(r, t)]]
          PROVE  kitDir' \in DirShape
      <4> DEFINE g == [f \in KitFileSet |-> Published(r, t)]
      <4>1. Published(r, t) \in Bytes /\ kitDir.dir + 1 \in Nat
        BY <2>0, <3>3 DEF Published, Bytes, DirShape
      <4>2. g \in [KitFileSet -> Bytes]
        BY <4>1
      <4> HIDE DEF g
      <4>3. kitDir' = [kitDir EXCEPT !.dir = kitDir.dir + 1, !.files = g]
        BY <3>3 DEF g
      <4> QED BY <2>0, <4>1, <4>2, <4>3, ZenonT(60) DEF DirShape
    <3> QED BY <1>9, <3>1, <3>2, <3>3 DEF KitChanges
  <2> QED BY <1>9, <2>0, <2>1 DEF KitChanges, LoadOK, KitAuthentic
<1> QED BY <1>5, <1>6, <1>7, <1>8, <1>9

-----------------------------------------------------------------------------
(* The worker kit: exporting.                                              *)

Tree == [ exists: BOOLEAN, marker: Nat, torn: BOOLEAN, kit: Nat,
          secret: Bundles \cup {0}, launcher: BOOLEAN, foreign: BOOLEAN,
          touched: BOOLEAN ]

(* A tree that is there may be incomplete, but never holds a secret that   *)
(* its marker does not vouch for.                                          *)
TreeOK(t) ==
    /\ t \in Tree
    /\ ~t.exists => t = NoTree
    /\ t.secret # 0 => MarkerValid(t)

Want == [rel: Nat, bundle: Bundles \cup {0}]

ExportShape == [ st: {"idle", "filling"}, want: Want, stage: 0..5,
                 answer: {"none", "ok", "failed", "clean"} ]

(* The export in progress knows exactly what its staging tree holds.       *)
FillingOK ==
    export.st = "filling" =>
        /\ export.want.rel # 0 /\ export.want.bundle \in Bundles
        /\ export.answer = "none" /\ ~exported.exists
        /\ export.stage = 0 => staging = NoTree
        /\ export.stage # 0 => staging = Stages(export.want)[export.stage]

ExportOK ==
    /\ TreeOK(staging) /\ TreeOK(exported)
    /\ export \in ExportShape
    /\ FillingOK /\ ExportHonest

KitInv == LoadOK /\ ExportOK

(* No tree.                                                                *)
LEMMA NoTreeOK == TreeOK(NoTree) /\ ~NoTree.exists
<1>1. NoTree \in Tree
  BY DEF NoTree, Tree
<1>2. ~NoTree.exists /\ NoTree.secret = 0
  BY DEF NoTree
<1> QED BY <1>1, <1>2 DEF TreeOK

(* The tree after each stage of the filling.                               *)
LEMMA StagesOK ==
    ASSUME NEW want \in Want, want.rel # 0, want.bundle \in Bundles,
           NEW i \in 1..5
    PROVE  LET t == Stages(want)[i] IN
           /\ TreeOK(t) /\ t.exists
           /\ i = 5 => /\ MarkerValid(t) /\ TreeExact(t)
                       /\ t.kit = want.rel /\ t.secret = want.bundle
<1>0. want.rel \in Nat /\ want.bundle # 0
  BY WorkerKitAssumption DEF Want
<1> DEFINE T(m, k, s, l) ==
      [exists |-> TRUE, marker |-> m, torn |-> FALSE, kit |-> k, secret |-> s,
       launcher |-> l, foreign |-> FALSE, touched |-> FALSE]
<1>1. /\ Stages(want)[1] = T(0, 0, 0, FALSE)
      /\ Stages(want)[2] = T(want.rel, 0, 0, FALSE)
      /\ Stages(want)[3] = T(want.rel, want.rel, 0, FALSE)
      /\ Stages(want)[4] = T(want.rel, want.rel, want.bundle, FALSE)
      /\ Stages(want)[5] = T(want.rel, want.rel, want.bundle, TRUE)
  BY DEF Stages, NoTree
<1>2. \A m \in Nat, k \in Nat, s \in Bundles \cup {0}, l \in BOOLEAN :
         (s # 0 => m # 0) => TreeOK(T(m, k, s, l)) /\ T(m, k, s, l).exists
  BY DEF TreeOK, Tree, MarkerValid
<1>3. MarkerValid(T(want.rel, want.rel, want.bundle, TRUE))
      /\ TreeExact(T(want.rel, want.rel, want.bundle, TRUE))
  BY <1>0 DEF MarkerValid, TreeExact
<1>4. /\ T(want.rel, want.rel, want.bundle, TRUE).kit = want.rel
      /\ T(want.rel, want.rel, want.bundle, TRUE).secret = want.bundle
  OBVIOUS
<1> HIDE DEF T
<1>5. /\ TreeOK(Stages(want)[1]) /\ Stages(want)[1].exists
      /\ TreeOK(Stages(want)[2]) /\ Stages(want)[2].exists
      /\ TreeOK(Stages(want)[3]) /\ Stages(want)[3].exists
      /\ TreeOK(Stages(want)[4]) /\ Stages(want)[4].exists
      /\ TreeOK(Stages(want)[5]) /\ Stages(want)[5].exists
  <2>1. 0 \in Nat
    OBVIOUS
  <2> QED BY <1>0, <1>1, <1>2, <2>1, Zenon
<1>6. i = 1 \/ i = 2 \/ i = 3 \/ i = 4 \/ i = 5
  OBVIOUS
<1> QED BY <1>1, <1>3, <1>4, <1>5, <1>6

(* An interrupted write of the marker.                                     *)
LEMMA TornOK ==
    ASSUME NEW t, TreeOK(t), t.exists
    PROVE  TreeOK(Torn(t)) /\ Torn(t).exists
BY DEF TreeOK, Tree, Torn, MarkerValid

(* A removal, whole or stopped half way.                                   *)
LEMMA CleanupOK ==
    ASSUME NEW t, TreeOK(t), NEW o \in CleanupOutcomes(t)
    PROVE  /\ TreeOK(o.tree) /\ (o.ok => o.tree = NoTree)
           /\ o.tree = t \/ o.tree.touched \/ ~o.tree.exists
<1>0. t \in Tree
  BY DEF TreeOK
<1>1. CASE ~t.exists
  <2>1. o = [tree |-> t, ok |-> TRUE, cost |-> 0]
    BY <1>1 DEF CleanupOutcomes
  <2> QED BY <1>1, <2>1 DEF TreeOK
<1>2. CASE t.exists /\ ~Owned(t)
  <2>1. o = [tree |-> t, ok |-> FALSE, cost |-> 0]
    BY <1>2 DEF CleanupOutcomes
  <2> QED BY <2>1
<1>3. CASE t.exists /\ Owned(t)
  <2>1. CASE o = [tree |-> NoTree, ok |-> TRUE, cost |-> 0]
    BY <2>1, NoTreeOK
  <2>2. CASE \E i \in 1..5 : o = [tree |-> Removals(t)[i], ok |-> FALSE, cost |-> 1]
    <3>1. PICK i \in 1..5 : o.tree = Removals(t)[i] /\ o.ok = FALSE
      BY <2>2
    <3> DEFINE A == [t EXCEPT !.touched = TRUE]
               B == [t EXCEPT !.touched = TRUE, !.kit = 0]
               C == [t EXCEPT !.touched = TRUE, !.kit = 0, !.secret = 0]
               D == [t EXCEPT !.touched = TRUE, !.kit = 0, !.secret = 0,
                              !.launcher = FALSE]
               E == [t EXCEPT !.touched = TRUE, !.kit = 0, !.secret = 0,
                              !.launcher = FALSE, !.marker = 0]
    <3>2. /\ Removals(t)[1] = A /\ Removals(t)[2] = B /\ Removals(t)[3] = C
          /\ Removals(t)[4] = D /\ Removals(t)[5] = E
      BY DEF Removals
    <3>3. i = 1 \/ i = 2 \/ i = 3 \/ i = 4 \/ i = 5
      OBVIOUS
    <3>4. t.marker # 0 /\ ~t.torn
      BY <1>3 DEF Owned, MarkerValid
    <3>5. TreeOK(A) /\ A.touched
      BY <1>0, <1>3, <3>4 DEF TreeOK, Tree, MarkerValid
    <3>6. TreeOK(B) /\ B.touched
      BY <1>0, <1>3, <3>4 DEF TreeOK, Tree, MarkerValid
    <3>7. TreeOK(C) /\ C.touched
      BY <1>0, <1>3, <3>4 DEF TreeOK, Tree, MarkerValid
    <3>8. TreeOK(D) /\ D.touched
      BY <1>0, <1>3, <3>4 DEF TreeOK, Tree, MarkerValid
    <3>9. TreeOK(E) /\ E.touched
      BY <1>0, <1>3, <3>4 DEF TreeOK, Tree, MarkerValid
    <3> HIDE DEF A, B, C, D, E
    <3> QED BY <3>1, <3>2, <3>3, <3>5, <3>6, <3>7, <3>8, <3>9
  <2>3. Len(Removals(t)) = 6
    BY DEF Removals
  <2>4. o \in {[tree |-> NoTree, ok |-> TRUE, cost |-> 0]}
              \cup {[tree |-> Removals(t)[i], ok |-> FALSE, cost |-> 1] :
                     i \in 1..(Len(Removals(t)) - 1)}
    BY <1>3 DEF CleanupOutcomes
  <2>5. Len(Removals(t)) - 1 = 5
    BY <2>3
  <2> QED BY <2>1, <2>2, <2>4, <2>5
<1> QED BY <1>1, <1>2, <1>3

(* The published tree is whole while nobody has touched it.                *)
WholeIfUntouched(t) == t.exists /\ ~t.touched => MarkerValid(t) /\ TreeExact(t)

(* An answer that claims no success needs only the trees.                  *)
LEMMA ExportRests ==
    ASSUME TreeOK(staging)', TreeOK(exported)', WholeIfUntouched(exported)',
           export' \in ExportShape, export'.st = "idle", export'.answer # "ok"
    PROVE  ExportOK'
BY DEF ExportOK, FillingOK, ExportHonest, WholeIfUntouched

(* The answers an export can end with.                                     *)
LEMMA ExportAnswers ==
    ASSUME export \in ExportShape
    PROVE  /\ ExportIdle \in ExportShape
           /\ ExportIdle.st = "idle" /\ ExportIdle.answer = "none"
           /\ \A a \in {"none", "ok", "failed", "clean"} : Answer(a) =>
                 /\ export' \in ExportShape /\ export'.st = "idle"
                 /\ export'.answer = a /\ export'.want = export.want
<1>1. ExportIdle \in ExportShape /\ ExportIdle.st = "idle" /\ ExportIdle.answer = "none"
  BY DEF ExportIdle, ExportShape, Want
<1>2. ASSUME NEW a \in {"none", "ok", "failed", "clean"}, Answer(a)
      PROVE  /\ export' \in ExportShape /\ export'.st = "idle"
             /\ export'.answer = a /\ export'.want = export.want
  <2>0. 0 \in 0..5
    OBVIOUS
  <2>1. export' = [export EXCEPT !.st = "idle", !.stage = 0, !.answer = a]
    BY <1>2 DEF Answer
  <2>2. export' \in ExportShape
    BY <2>0, <2>1, ZenonT(60) DEF ExportShape
  <2> QED BY <2>1, <2>2 DEF ExportShape
<1> QED BY <1>1, <1>2

(* A call begins: a retry is compared with the published tree, another     *)
(* call first removes its staging tree.                                    *)
LEMMA ExportBeginOK ==
    ASSUME KitInv, NEW bundle \in Bundles, ExportBegin(bundle)
    PROVE  ExportOK'
<1> DEFINE want == [rel |-> load.bytes.worker.rel, bundle |-> bundle]
<1>0. /\ TreeOK(staging) /\ TreeOK(exported) /\ WholeIfUntouched(exported)
      /\ export \in ExportShape /\ exported' = exported
  BY DEF KitInv, ExportOK, ExportHonest, WholeIfUntouched, ExportBegin
<1>1. load.bytes.worker.rel \in Nat \ {0}
  <2>1. PICK r \in Releases : load.bytes["worker"] = Published(r, load.target)
    BY KitFileNames DEF KitInv, LoadOK, KitAuthentic, ExportBegin
  <2> QED BY <2>1 DEF Published, Releases
<1>2. want \in Want /\ want.rel # 0 /\ want.bundle = bundle
  BY <1>1 DEF Want
<1>3. PICK o \in CleanupOutcomes(staging) :
         IF exported.exists
         THEN IF ExportMatches(exported, want)
              THEN /\ staging' = o.tree /\ ExportCosts(o.cost)
                   /\ export' = [ExportIdle EXCEPT !.want = want,
                                      !.answer = IF o.ok THEN "ok" ELSE "failed"]
              ELSE /\ export' = [ExportIdle EXCEPT !.want = want, !.answer = "failed"]
                   /\ UNCHANGED <<staging, kitFaults>>
         ELSE /\ staging' = o.tree /\ ExportCosts(o.cost)
              /\ export' = [ExportIdle EXCEPT !.want = want,
                                 !.st = IF o.ok THEN "filling" ELSE "idle",
                                 !.answer = IF o.ok THEN "none" ELSE "failed"]
  BY DEF ExportBegin
<1> HIDE DEF want
<1>4. TreeOK(o.tree) /\ (o.ok => o.tree = NoTree)
  BY <1>0, CleanupOK
<1>5. ExportIdle \in ExportShape /\ ExportIdle.st = "idle" /\ ExportIdle.stage = 0
  BY <1>0, ExportAnswers DEF ExportIdle
<1>6. CASE exported.exists /\ ExportMatches(exported, want)
  <2>1. /\ export' \in ExportShape /\ export'.st = "idle" /\ export'.want = want
    BY <1>2, <1>3, <1>5, <1>6 DEF ExportShape
  <2>2. exported.kit = want.rel /\ exported.secret = want.bundle
    BY <1>6 DEF ExportMatches
  <2>3. TreeOK(staging')
    BY <1>3, <1>4, <1>6
  <2> QED BY <1>0, <1>6, <2>1, <2>2, <2>3
          DEF ExportOK, FillingOK, ExportHonest, WholeIfUntouched
<1>7. CASE exported.exists /\ ~ExportMatches(exported, want)
  <2>1. export' \in ExportShape /\ export'.st = "idle" /\ export'.answer = "failed"
    BY <1>2, <1>3, <1>5, <1>7 DEF ExportShape
  <2>2. staging' = staging
    BY <1>3, <1>7
  <2> QED BY <1>0, <2>1, <2>2, ExportRests
<1>8. CASE ~exported.exists /\ o.ok
  <2>1. /\ export' \in ExportShape /\ export'.st = "filling" /\ export'.want = want
        /\ export'.answer = "none" /\ export'.stage = 0
    BY <1>2, <1>3, <1>5, <1>8 DEF ExportShape
  <2>2. staging' = NoTree
    BY <1>3, <1>4, <1>8
  <2> QED BY <1>0, <1>2, <1>4, <1>8, <2>1, <2>2
          DEF ExportOK, FillingOK, ExportHonest, WholeIfUntouched
<1>9. CASE ~exported.exists /\ ~o.ok
  <2>1. export' \in ExportShape /\ export'.st = "idle" /\ export'.answer = "failed"
    BY <1>2, <1>3, <1>5, <1>9 DEF ExportShape
  <2>2. TreeOK(staging')
    BY <1>3, <1>4, <1>9
  <2> QED BY <1>0, <2>1, <2>2, ExportRests
<1> QED BY <1>6, <1>7, <1>8, <1>9

(* The filling, its publication, its failure and its interruption.         *)
LEMMA ExportRunsOK ==
    ASSUME KitInv, ExportFills \/ ExportPublishes \/ ExportFails \/ ExportCrashes
    PROVE  ExportOK'
<1> DEFINE want == export.want
           S(i) == Stages(export.want)[i]
<1>0. /\ TreeOK(staging) /\ TreeOK(exported) /\ export \in ExportShape
      /\ WholeIfUntouched(exported) /\ export.st = "filling"
      /\ export.want.rel # 0 /\ export.want.bundle \in Bundles
      /\ export.answer = "none" /\ ~exported.exists
      /\ export.stage = 0 => staging = NoTree
      /\ export.stage # 0 => staging = S(export.stage)
  BY DEF KitInv, ExportOK, FillingOK, ExportHonest, WholeIfUntouched,
         ExportFills, ExportPublishes, ExportFails, ExportCrashes
<1>1. want \in Want /\ export.stage \in 0..5
  BY <1>0 DEF ExportShape
<1>2. \A i \in 1..5 : /\ TreeOK(S(i)) /\ S(i).exists
                      /\ i = 5 => /\ MarkerValid(S(i)) /\ TreeExact(S(i))
                                  /\ S(i).kit = want.rel /\ S(i).secret = want.bundle
  BY <1>0, <1>1, StagesOK
<1>3. export.stage = 5 => /\ WholeIfUntouched(staging)
                          /\ staging.exists /\ staging.kit = want.rel
                          /\ staging.secret = want.bundle
  BY <1>0, <1>2 DEF WholeIfUntouched
<1>4. CASE ExportFills
  <2>1. export.stage + 1 \in 1..5 /\ export.stage + 1 # 0
    BY <1>1, <1>4 DEF ExportFills
  <2>2. staging' = S(export.stage + 1) /\ exported' = exported
        /\ export' = [export EXCEPT !.stage = export.stage + 1]
    BY <1>4 DEF ExportFills
  <2>3. export' \in ExportShape
    <3>1. export.stage + 1 \in 0..5
      BY <1>1, <2>1
    <3> QED BY <1>0, <2>2, <3>1, ZenonT(60) DEF ExportShape
  <2>4. /\ export'.st = "filling" /\ export'.want = export.want
        /\ export'.answer = "none" /\ export'.stage = export.stage + 1
    BY <1>0, <2>2 DEF ExportShape
  <2>5. TreeOK(staging')
    BY <1>2, <2>1, <2>2
  <2> QED BY <1>0, <2>1, <2>2, <2>3, <2>4, <2>5
          DEF ExportOK, FillingOK, ExportHonest, WholeIfUntouched
<1>5. CASE ExportPublishes
  <2>1. /\ exported' = staging /\ staging' = NoTree /\ export.stage = 5
        /\ Answer("ok")
    BY <1>5 DEF ExportPublishes
  <2>2. /\ export' \in ExportShape /\ export'.st = "idle"
        /\ export'.want = export.want
    BY <1>0, <2>1, ExportAnswers
  <2> QED BY <1>0, <1>3, <2>1, <2>2, NoTreeOK
          DEF ExportOK, FillingOK, ExportHonest, WholeIfUntouched
<1>6. ASSUME exported' = staging, staging' = NoTree, export.stage = 5,
             export' \in ExportShape, export'.st = "idle", export'.answer # "ok"
      PROVE  ExportOK'
  BY <1>0, <1>3, <1>6, NoTreeOK, ExportRests
<1>7. ASSUME exported' = exported, TreeOK(staging'),
             export' \in ExportShape, export'.st = "idle", export'.answer # "ok"
      PROVE  ExportOK'
  BY <1>0, <1>7, ExportRests
<1>8. export.stage # 0 => staging.exists
  BY <1>0, <1>1, <1>2
<1>9. CASE ExportFails
  <2>1. export' \in ExportShape /\ export'.st = "idle" /\ export'.answer # "ok"
    BY <1>0, <1>9, ExportAnswers DEF ExportFails
  <2>2. CASE export.stage = 0 /\ staging' \in {staging, S(1)} /\ UNCHANGED exported
    BY <1>0, <1>2, <1>7, <2>1, <2>2
  <2>3. CASE /\ export.stage > 0 /\ UNCHANGED exported
             /\ \E o \in CleanupOutcomes(staging) \cup CleanupOutcomes(Torn(staging)) :
                   staging' = o.tree
    <3>1. TreeOK(Torn(staging))
      BY <1>0, <1>1, <1>8, <2>3, TornOK
    <3>2. TreeOK(staging')
      BY <1>0, <2>3, <3>1, CleanupOK
    <3> QED BY <1>7, <2>1, <2>3, <3>2
  <2>4. CASE export.stage = 5 /\ exported' = staging /\ staging' = NoTree
    BY <1>6, <2>1, <2>4
  <2> QED BY <1>9, <2>2, <2>3, <2>4 DEF ExportFails
<1>10. CASE ExportCrashes
  <2>1. export' \in ExportShape /\ export'.st = "idle" /\ export'.answer # "ok"
    BY <1>0, <1>10, ExportAnswers DEF ExportCrashes
  <2>2. CASE export.stage = 5 /\ exported' = staging /\ staging' = NoTree
    BY <1>6, <2>1, <2>2
  <2>3. CASE /\ UNCHANGED exported
             /\ staging' \in {staging, IF export.stage = 1 THEN Torn(staging) ELSE staging}
    <3>1. export.stage = 1 => TreeOK(Torn(staging))
      BY <1>0, <1>8, TornOK
    <3> QED BY <1>0, <1>7, <2>1, <2>3, <3>1
  <2> QED BY <1>10, <2>2, <2>3 DEF ExportCrashes
<1> QED BY <1>4, <1>5, <1>9, <1>10

(* The cleanup call, and what the user does to the published folder.       *)
LEMMA ExportEndsOK ==
    ASSUME KitInv, ExportCleanup \/ UserTouches
    PROVE  ExportOK'
<1>0. /\ TreeOK(staging) /\ TreeOK(exported) /\ export \in ExportShape
      /\ WholeIfUntouched(exported)
  BY DEF KitInv, ExportOK, ExportHonest, WholeIfUntouched
<1>1. ExportIdle \in ExportShape /\ ExportIdle.st = "idle" /\ ExportIdle.answer = "none"
  BY <1>0, ExportAnswers
<1>2. CASE ExportCleanup
  <2>1. PICK s \in CleanupOutcomes(staging), e \in CleanupOutcomes(exported) :
           /\ staging' = s.tree
           /\ exported' = IF s.ok THEN e.tree ELSE exported
           /\ export' = [ExportIdle EXCEPT !.answer = IF s.ok /\ e.ok THEN "clean"
                                                      ELSE "failed"]
    BY <1>2 DEF ExportCleanup
  <2>2. export' \in ExportShape /\ export'.st = "idle" /\ export'.answer # "ok"
    BY <1>1, <2>1 DEF ExportShape
  <2>3. TreeOK(s.tree)
    BY <1>0, CleanupOK
  <2>4. TreeOK(e.tree) /\ WholeIfUntouched(e.tree)
    <3>1. TreeOK(e.tree) /\ (e.tree = exported \/ e.tree.touched \/ ~e.tree.exists)
      BY <1>0, CleanupOK
    <3> QED BY <1>0, <3>1 DEF WholeIfUntouched
  <2> QED BY <1>0, <2>1, <2>2, <2>3, <2>4, ExportRests
<1>3. CASE UserTouches
  <2>1. /\ exported.exists /\ staging' = staging /\ export' = ExportIdle
        /\ exported' \in {[exported EXCEPT !.foreign = TRUE, !.touched = TRUE],
                          [exported EXCEPT !.secret = 0, !.touched = TRUE]}
    BY <1>3 DEF UserTouches
  <2>2. exported \in Tree
    BY <1>0 DEF TreeOK
  <2>3. CASE exported' = [exported EXCEPT !.foreign = TRUE, !.touched = TRUE]
    <3>1. TreeOK(exported') /\ exported'.touched
      BY <1>0, <2>1, <2>2, <2>3 DEF TreeOK, Tree, MarkerValid
    <3> QED BY <1>0, <1>1, <2>1, <3>1, ExportRests DEF WholeIfUntouched
  <2>4. CASE exported' = [exported EXCEPT !.secret = 0, !.touched = TRUE]
    <3>1. TreeOK(exported') /\ exported'.touched
      BY <1>0, <2>1, <2>2, <2>4 DEF TreeOK, Tree, MarkerValid
    <3> QED BY <1>0, <1>1, <2>1, <3>1, ExportRests DEF WholeIfUntouched
  <2> QED BY <2>1, <2>3, <2>4
<1> QED BY <1>2, <1>3

(* The inductive invariant of the worker kit.                              *)
THEOREM KitInvariance == KitSpec => []KitInv
<1>1. KitInit => KitInv
  <2> SUFFICES ASSUME KitInit PROVE KitInv
    OBVIOUS
  <2>1. kitDir \in DirShape
    <3>1. PICK t \in KitTargets, u \in KitTargets :
             kitDir = [target |-> t, dir |-> 0, shape |-> "exact",
                       files |-> [f \in KitFileSet |-> Published(1, u)]]
      BY DEF KitInit
    <3>2. Published(1, u) \in Bytes
      BY DEF Published, Bytes, Releases
    <3>3. [f \in KitFileSet |-> Published(1, u)] \in [KitFileSet -> Bytes]
      BY <3>2
    <3> QED BY <3>1, <3>3 DEF DirShape
  <2>2. NothingRead \in [KitFileSet -> Bytes]
    BY DEF NothingRead, Bytes
  <2>3. load \in LoadShape /\ load.st = "idle"
    BY <2>2 DEF KitInit, LoadIdle, LoadShape
  <2>4. LoadOK
    BY <2>1, <2>3 DEF LoadOK, KitAuthentic
  <2>5. export \in ExportShape /\ export.st = "idle" /\ export.answer = "none"
    BY DEF KitInit, ExportIdle, ExportShape, Want
  <2>6. staging = NoTree /\ exported = NoTree
    BY DEF KitInit
  <2> QED BY <2>4, <2>5, <2>6, NoTreeOK DEF KitInv, ExportOK, FillingOK, ExportHonest
<1>2. KitInv /\ [KitNext]_kitVars => KitInv'
  <2> SUFFICES ASSUME KitInv, [KitNext]_kitVars PROVE KitInv'
    OBVIOUS
  <2>1. ASSUME UNCHANGED exportVars PROVE ExportOK'
    BY <2>1 DEF exportVars, KitInv, ExportOK, TreeOK, FillingOK, ExportHonest,
                MarkerValid, TreeExact
  <2>2. ASSUME UNCHANGED loadVars PROVE LoadOK'
    BY <2>2 DEF loadVars, KitInv, LoadOK, KitAuthentic
  <2>3. CASE (LoadBegin \/ LoadReads \/ LoadFinishes \/ LoadDropped \/ KitChanges)
             /\ UNCHANGED exportVars
    BY <2>1, <2>3, LoadStepOK DEF KitInv
  <2>4. CASE /\ \/ \E b \in Bundles : ExportBegin(b)
                \/ ExportFills \/ ExportPublishes \/ ExportFails \/ ExportCrashes
                \/ ExportCleanup \/ UserTouches
             /\ UNCHANGED loadVars
    BY <2>2, <2>4, ExportBeginOK, ExportRunsOK, ExportEndsOK DEF KitInv
  <2>5. CASE UNCHANGED kitVars
    BY <2>1, <2>2, <2>5 DEF kitVars, exportVars, loadVars, KitInv
  <2> QED BY <2>3, <2>4, <2>5 DEF KitNext
<1> QED BY <1>1, <1>2, PTL DEF KitSpec

(* A kit that loads is one signed release for its platform in all five     *)
(* files, whatever was replaced between two reads (load_target).           *)
THEOREM KitsAuthentic == KitSpec => []KitAuthentic
<1>1. KitInv => KitAuthentic
  BY DEF KitInv, LoadOK
<1> QED BY <1>1, KitInvariance, PTL

(* A published export is whole, and success is answered only for exactly   *)
(* the caller's kit and enrollment, retries included (export_inner).       *)
THEOREM ExportsHonest == KitSpec => []ExportHonest
<1>1. KitInv => ExportHonest
  BY DEF KitInv, ExportOK
<1> QED BY <1>1, KitInvariance, PTL

(* Wherever filling or removal was interrupted, a tree that holds an       *)
(* enrollment secret carries the marker cleanup needs                      *)
(* (export_inner, cleanup_owned_root).                                     *)
THEOREM SecretsReclaimable == KitSpec => []SecretReclaimable
<1>1. KitInv => SecretReclaimable
  BY DEF KitInv, ExportOK, TreeOK, SecretReclaimable
<1> QED BY <1>1, KitInvariance, PTL

-----------------------------------------------------------------------------
(* The Full Run Check: what its places mean.                               *)

PreSubmit == {"plugin", "heartbeat", "mcp", "submit"}
Following == {"poll", "logs", "artifact", "cleanup"}
Closing == {"mark", "reverify", "final"}
CheckOnly == PreSubmit \cup Closing \cup {"lookup", "read_back", "best_effort"}
SmokeOnly == {"find", "smoke_plan", "smoke_submit", "smoke_recover", "smoke_bind",
              "smoke_read"}
FrPcs == CheckOnly \cup SmokeOnly \cup Following \cup {"idle", "passed", "failed"}

JobRow == [ state: {"Absent", "Queued"} \cup Executing \cup Terminal, version: Nat,
            node: BOOLEAN, placement: 1..2, cancel: BOOLEAN, intact: BOOLEAN,
            removed: BOOLEAN ]

Blindness == {"none", "lookup", "late", "ids"}
CheckShape == [ kind: Kinds, pc: FrPcs, session: Nat, target: JobRow, prev: JobRow,
                failed: Layers, fatal: BOOLEAN, blind: Blindness ]

Runtime == [id: Nat, seen: BOOLEAN]

FrShape ==
    /\ check \in CheckShape /\ layers \in [Layers -> LayerStates]
    /\ verdict \in {"none", "running", "passed", "failed"}
    /\ jobs \in [Kinds -> JobRow]
    /\ runtime \in Runtime

PlaceOK ==
    /\ check.pc \in CheckOnly => check.kind = "check"
    /\ check.pc \in SmokeOnly => check.kind = "smoke"
    /\ verdict \in {"passed", "failed"} => check.pc = "idle"

(* The evidence that has been seen is still true of the job.               *)
Proven(j) == j.state = "Succeeded" /\ ~j.cancel

EvidenceOK ==
    LET j == jobs[check.kind] IN
    /\ check.pc \in {"logs", "artifact", "cleanup", "passed"} \cup Closing => Proven(j)
    /\ check.pc \in {"artifact", "cleanup", "passed"} \cup Closing => j.intact
    /\ check.pc \in {"passed"} \cup Closing => j.removed
    /\ verdict = "passed" => Proven(j) /\ j.intact /\ j.removed

(* The row a check would cancel is a row of its job; only a check blind in *)
(* one of the three ways knows of none while there is one, and nothing of  *)
(* an earlier check can arrive under the id of this one.                   *)
TargetOK ==
    LET j == jobs["check"] IN
    check.kind = "check" =>
        /\ check.pc \in PreSubmit =>
              /\ ~Exists(j) /\ check.target = NoJob /\ layers["cleanup"] = "pending"
              /\ "check" \notin flying
        /\ check.pc = "read_back" => check.target # NoJob \/ check.blind # "none"
        /\ check.pc \in Following \cup Closing => check.target # NoJob
        /\ check.pc = "best_effort" =>
              check.target # NoJob \/ check.blind # "none" \/ ~Exists(j)
        /\ check.pc \in {"lookup", "read_back"} => layers["cleanup"] # "passed"
        /\ check.target.state \in Terminal => j.state \in Terminal
        /\ layers["cleanup"] = "passed" => j.state = "Succeeded" /\ j.removed

Orphan(j) == j.state \in {"Queued"} \cup Executing /\ ~j.cancel

OrphanOK ==
    /\ check.kind = "check" /\ Orphan(jobs["check"])
    /\ check.pc = "failed" \/ (check.pc = "idle" /\ verdict = "failed")
    => layers["cleanup"] = "failed" \/ check.blind # "none"

FrInv == FrShape /\ PlaceOK /\ EvidenceOK /\ TargetOK /\ OrphanOK

(* Everything the parts of the invariant look at.                          *)
LEMMA FrSame ==
    ASSUME FrInv, UNCHANGED <<check, layers, verdict, jobs, flying>>, runtime' \in Runtime
    PROVE  FrInv'
BY DEF FrInv, FrShape, PlaceOK, EvidenceOK, TargetOK, OrphanOK, Proven, Orphan, Exists

(* The layers after an update.                                             *)
LEMMA LayerNames ==
    /\ "plugin" \in Layers /\ "heartbeat" \in Layers /\ "snapshot" \in Layers
    /\ "selection" \in Layers /\ "execution" \in Layers /\ "logs" \in Layers
    /\ "artifact" \in Layers /\ "cleanup" \in Layers
BY DEF Layers

(* Failing a layer leaves the outcome of cleanup alone, unless it is that  *)
(* layer.                                                                  *)
LEMMA FailLayerShape ==
    ASSUME NEW ls \in [Layers -> LayerStates], NEW l \in Layers
    PROVE  /\ FailLayer(ls, l) \in [Layers -> LayerStates]
           /\ FailLayer(ls, l)["cleanup"] =
                IF l = "cleanup" THEN "failed" ELSE ls["cleanup"]
<1>1. "cleanup" \in Layers /\ "failed" \in LayerStates /\ "skipped" \in LayerStates
  BY DEF Layers, LayerStates
<1> QED BY <1>1 DEF FailLayer

(* A failure of a layer ends a check in its best-effort cleanup and a      *)
(* smoke run at once.                                                      *)
LEMMA FailOK ==
    ASSUME FrInv, NEW l \in Layers, NEW f \in BOOLEAN, Fail(l, f),
           check.pc \notin {"idle", "passed", "failed", "lookup", "best_effort"},
           UNCHANGED <<verdict, jobs, flying>>, runtime' \in Runtime
    PROVE  FrInv'
<1>0. /\ check \in CheckShape /\ layers \in [Layers -> LayerStates]
  BY DEF FrInv, FrShape
<1> DEFINE pc == IF check.kind = "check" THEN "best_effort" ELSE "failed"
<1>1. check' = [check EXCEPT !.pc = pc, !.failed = l, !.fatal = f]
  BY DEF Fail
<1>2. pc \in FrPcs
  BY DEF FrPcs, CheckOnly
<1>3. check' \in CheckShape
  BY <1>0, <1>1, <1>2 DEF CheckShape
<1>4. /\ check'.kind = check.kind /\ check'.pc = pc /\ check'.target = check.target
      /\ check'.blind = check.blind
  BY <1>0, <1>1 DEF CheckShape
<1>5. /\ layers' \in [Layers -> LayerStates]
      /\ layers'["cleanup"] = IF l = "cleanup" THEN "failed" ELSE layers["cleanup"]
  BY <1>0, FailLayerShape DEF Fail
<1>6. check.kind \in Kinds /\ check.pc \in FrPcs
  BY <1>0 DEF CheckShape
<1>7. FrShape'
  BY <1>3, <1>5 DEF FrShape, FrInv
<1>8. PlaceOK'
  BY <1>4, <1>6 DEF FrInv, PlaceOK, Kinds, CheckOnly, SmokeOnly, PreSubmit, Closing
<1>9. EvidenceOK'
  BY <1>4, <1>8 DEF FrInv, EvidenceOK, PlaceOK, Closing
<1>10. TargetOK'
  BY <1>4, <1>5, <1>6 DEF FrInv, TargetOK, PlaceOK, PreSubmit, Following, Closing,
     FrPcs, CheckOnly, SmokeOnly
<1>11. OrphanOK'
  BY <1>4, <1>6 DEF FrInv, OrphanOK, PlaceOK, Kinds
<1> QED BY <1>7, <1>8, <1>9, <1>10, <1>11 DEF FrInv

(* The workflow goes on to another place, with its layers published.       *)
LEMMA MoveOK ==
    ASSUME FrInv, NEW pc \in FrPcs \ {"idle", "best_effort", "failed"},
           NEW t \in JobRow, NEW p \in JobRow, NEW s \in Nat,
           check' = [check EXCEPT !.pc = pc, !.session = s, !.target = t, !.prev = p],
           check.pc \notin {"idle", "passed", "failed"},
           UNCHANGED <<verdict, jobs, flying>>, runtime' \in Runtime,
           layers' \in [Layers -> LayerStates],
           pc \in CheckOnly => check.kind = "check",
           pc \in SmokeOnly => check.kind = "smoke",
           pc \in {"logs", "artifact", "cleanup", "passed"} \cup Closing =>
               Proven(jobs[check.kind]),
           pc \in {"artifact", "cleanup", "passed"} \cup Closing => jobs[check.kind].intact,
           pc \in {"passed"} \cup Closing => jobs[check.kind].removed,
           check.kind = "check" =>
               /\ pc \in PreSubmit =>
                     /\ ~Exists(jobs["check"]) /\ t = NoJob
                     /\ layers'["cleanup"] = "pending" /\ "check" \notin flying
               /\ pc = "read_back" => t # NoJob \/ check.blind # "none"
               /\ pc \in Following \cup Closing => t # NoJob
               /\ pc \in {"lookup", "read_back"} => layers'["cleanup"] # "passed"
               /\ t.state \in Terminal => jobs["check"].state \in Terminal
               /\ layers'["cleanup"] = "passed" =>
                     jobs["check"].state = "Succeeded" /\ jobs["check"].removed
    PROVE  FrInv'
<1>0. check \in CheckShape
  BY DEF FrInv, FrShape
<1>1. check' \in CheckShape
  BY <1>0 DEF CheckShape
<1>2. check'.kind = check.kind /\ check'.pc = pc /\ check'.target = t
      /\ check'.blind = check.blind
  BY <1>0 DEF CheckShape
<1>3. FrShape'
  BY <1>1 DEF FrShape, FrInv
<1>4. PlaceOK' /\ verdict \notin {"passed", "failed"}
  BY <1>2 DEF FrInv, PlaceOK
<1>5. EvidenceOK'
  BY <1>2, <1>4 DEF EvidenceOK
<1>6. TargetOK'
  BY <1>2 DEF TargetOK
<1>7. OrphanOK'
  BY <1>2, <1>4 DEF OrphanOK
<1> QED BY <1>3, <1>4, <1>5, <1>6, <1>7 DEF FrInv

(* The same, when only the place changes.                                  *)
Moved(pc) == check' = [check EXCEPT !.pc = pc, !.session = check.session,
                                    !.target = check.target, !.prev = check.prev]

(* FrGoto changes the place only.                                          *)
LEMMA GotoMoves ==
    ASSUME FrInv, NEW pc, FrGoto(pc)
    PROVE  Moved(pc)
BY DEF FrInv, FrShape, CheckShape, FrGoto, Moved

(* A check moves on when what the next place promises is already there.    *)
LEMMA GoOK ==
    ASSUME FrInv, NEW pc \in FrPcs \ {"idle", "best_effort", "failed"},
           Moved(pc),
           check.pc \notin {"idle", "passed", "failed"},
           UNCHANGED <<verdict, jobs, flying>>, runtime' \in Runtime,
           layers' \in [Layers -> LayerStates],
           pc \in CheckOnly => check.kind = "check",
           pc \in SmokeOnly => check.kind = "smoke",
           pc \in {"logs", "artifact", "cleanup", "passed"} \cup Closing =>
               Proven(jobs[check.kind]),
           pc \in {"artifact", "cleanup", "passed"} \cup Closing => jobs[check.kind].intact,
           pc \in {"passed"} \cup Closing => jobs[check.kind].removed,
           check.kind = "check" =>
               /\ pc \in PreSubmit => check.pc \in PreSubmit
               /\ pc \in PreSubmit \cup {"lookup", "read_back"} =>
                     layers'["cleanup"] = layers["cleanup"]
               /\ pc = "lookup" => check.pc \in PreSubmit \cup {"read_back"}
               /\ pc \in Following \cup Closing => check.pc \in Following \cup Closing
               /\ layers'["cleanup"] = "passed" =>
                     \/ layers["cleanup"] = "passed"
                     \/ jobs["check"].state = "Succeeded" /\ jobs["check"].removed,
           pc # "read_back"
    PROVE  FrInv'
<1>0. check \in CheckShape
  BY DEF FrInv, FrShape
<1>1. check.target \in JobRow /\ check.prev \in JobRow /\ check.session \in Nat
  BY <1>0 DEF CheckShape
<1>2. check' = [check EXCEPT !.pc = pc, !.session = check.session,
                             !.target = check.target, !.prev = check.prev]
  BY DEF Moved
<1>3. check.kind = "check" =>
        /\ pc \in PreSubmit =>
              /\ ~Exists(jobs["check"]) /\ check.target = NoJob
              /\ layers'["cleanup"] = "pending" /\ "check" \notin flying
        /\ pc \in Following \cup Closing => check.target # NoJob
        /\ pc \in {"lookup", "read_back"} => layers'["cleanup"] # "passed"
        /\ check.target.state \in Terminal => jobs["check"].state \in Terminal
        /\ layers'["cleanup"] = "passed" =>
              jobs["check"].state = "Succeeded" /\ jobs["check"].removed
  BY DEF FrInv, TargetOK
<1> QED BY <1>1, <1>2, <1>3, MoveOK

(* A failure of the pipeline, with the row it knows.                       *)
LEMMA FailWithOK ==
    ASSUME FrInv, check.pc \in {"lookup", "read_back"},
           NEW ls \in [Layers -> LayerStates], ls["cleanup"] = layers["cleanup"],
           NEW l \in {"snapshot", "selection", "execution"},
           NEW t \in JobRow, NEW b \in Blindness, FailWith(ls, l, t, b),
           t # NoJob \/ b # "none" \/ ~Exists(jobs["check"]),
           t.state \in Terminal => jobs["check"].state \in Terminal,
           UNCHANGED <<verdict, jobs, flying>>, runtime' \in Runtime
    PROVE  FrInv'
<1>0. check \in CheckShape /\ l \in Layers
  BY DEF FrInv, FrShape, Layers
<1>1. check' = [check EXCEPT !.pc = "best_effort", !.failed = l, !.target = t, !.blind = b]
  BY DEF FailWith
<1>2. "best_effort" \in FrPcs
  BY DEF FrPcs, CheckOnly
<1>3. check' \in CheckShape
  BY <1>0, <1>1, <1>2 DEF CheckShape
<1>4. /\ check'.kind = check.kind /\ check'.pc = "best_effort" /\ check'.target = t
      /\ check'.blind = b
  BY <1>0, <1>1 DEF CheckShape
<1>5. /\ layers' \in [Layers -> LayerStates]
      /\ layers'["cleanup"] = layers["cleanup"]
  BY <1>0, FailLayerShape DEF FailWith
<1>6. FrShape'
  BY <1>3, <1>5 DEF FrShape, FrInv
<1>7. PlaceOK' /\ verdict \notin {"passed", "failed"}
  BY <1>4 DEF FrInv, PlaceOK, CheckOnly, SmokeOnly, PreSubmit, Closing
<1>8. EvidenceOK'
  BY <1>4, <1>7 DEF EvidenceOK, Closing
<1>9. TargetOK'
  BY <1>4, <1>5 DEF FrInv, TargetOK, PreSubmit, Following, Closing
<1>10. OrphanOK'
  BY <1>4 DEF OrphanOK
<1> QED BY <1>6, <1>7, <1>8, <1>9, <1>10 DEF FrInv

(* Rows.                                                                   *)
LEMMA JobShapes == NoJob \in JobRow /\ NewJob \in JobRow /\ Exists(NewJob)
                   /\ ~Exists(NoJob) /\ NewJob.state = "Queued"
<1>1. NoJob \in JobRow /\ ~Exists(NoJob)
  BY DEF NoJob, JobRow, Exists
<1>2. NewJob \in JobRow
  BY <1>1 DEF NewJob, JobRow
<1>3. NewJob.state = "Queued"
  BY DEF NewJob, NoJob
<1> QED BY <1>1, <1>2, <1>3 DEF Exists

(* Up to the submission.                                                   *)
LEMMA PreSubmitOK ==
    ASSUME FrInv, CheckPluginLayer \/ AwaitHeartbeat \/ PipelineSnapshot
    PROVE  FrInv'
<1>0. /\ check \in CheckShape /\ layers \in [Layers -> LayerStates]
      /\ runtime' = runtime /\ runtime \in Runtime
      /\ UNCHANGED <<verdict, jobs, flying>> /\ FALSE \in BOOLEAN
  BY DEF FrInv, FrShape, CheckPluginLayer, AwaitHeartbeat, PipelineSnapshot, outside
<1>1. /\ check.pc \in {"plugin", "heartbeat", "mcp"} /\ check.kind = "check"
      /\ check.pc \in PreSubmit
      /\ ~Exists(jobs["check"]) /\ check.target = NoJob /\ layers["cleanup"] = "pending"
      /\ "check" \notin flying
  BY DEF FrInv, PlaceOK, TargetOK, CheckPluginLayer, AwaitHeartbeat, PipelineSnapshot,
         FrAt, CheckOnly, PreSubmit
<1>2. ASSUME NEW l \in Layers, Fail(l, FALSE) PROVE FrInv'
  BY <1>0, <1>1, <1>2, FailOK
<1>3. /\ "heartbeat" \in FrPcs /\ "mcp" \in FrPcs /\ "submit" \in FrPcs
      /\ {"heartbeat", "mcp", "submit"} \subseteq PreSubmit \cap CheckOnly
      /\ \A pc \in {"heartbeat", "mcp", "submit"} :
            pc \notin SmokeOnly \cup Closing \cup Following
  BY DEF FrPcs, CheckOnly, PreSubmit, SmokeOnly, Closing, Following
<1>4. ASSUME NEW l \in Layers, NEW m \in Layers, PassThen(l, m), l # "cleanup",
             m # "cleanup"
      PROVE  layers' \in [Layers -> LayerStates] /\ layers'["cleanup"] = layers["cleanup"]
  BY <1>0, <1>4, LayerNames DEF PassThen, LayerStates
<1>5. CASE CheckPluginLayer
  <2>1. CASE Fail("plugin", FALSE)
    BY <1>2, <2>1, LayerNames
  <2>2. CASE /\ check' = [check EXCEPT !.pc = "heartbeat", !.session = runtime.id]
             /\ PassThen("plugin", "heartbeat")
    <3>1. /\ check' = [check EXCEPT !.pc = "heartbeat", !.session = runtime.id,
                                    !.target = check.target, !.prev = check.prev]
      BY <1>0, <2>2 DEF CheckShape
    <3>2. check.target \in JobRow /\ check.prev \in JobRow /\ runtime.id \in Nat
      BY <1>0 DEF CheckShape, Runtime
    <3>3. layers' \in [Layers -> LayerStates] /\ layers'["cleanup"] = "pending"
      BY <1>1, <1>4, <2>2, LayerNames
    <3>4. NoJob.state \notin Terminal
      BY DEF NoJob, Terminal
    <3> QED BY <1>0, <1>1, <1>3, <3>1, <3>2, <3>3, <3>4, MoveOK
  <2> QED BY <1>5, <2>1, <2>2 DEF CheckPluginLayer
<1>6. CASE AwaitHeartbeat
  <2>1. CASE Fail("heartbeat", FALSE)
    BY <1>2, <2>1, LayerNames
  <2>2. CASE FrGoto("mcp") /\ PassThen("heartbeat", "snapshot")
    <3>1. layers' \in [Layers -> LayerStates] /\ layers'["cleanup"] = layers["cleanup"]
      BY <1>4, <2>2, LayerNames
    <3>2. Moved("mcp")
      BY <2>2, GotoMoves
    <3> QED BY <1>0, <1>1, <1>3, <3>1, <3>2, GoOK
  <2> QED BY <1>6, <2>1, <2>2 DEF AwaitHeartbeat
<1>7. CASE PipelineSnapshot
  <2>1. CASE Fail("snapshot", FALSE)
    BY <1>2, <2>1, LayerNames
  <2>2. CASE FrGoto("submit") /\ UNCHANGED layers
    <3>1. Moved("submit")
      BY <2>2, GotoMoves
    <3> QED BY <1>0, <1>1, <1>3, <2>2, <3>1, GoOK
  <2> QED BY <1>7, <2>1, <2>2 DEF PipelineSnapshot
<1> QED BY <1>5, <1>6, <1>7

(* The submission, which may arrive although its reply is lost.            *)
LEMMA SubmitOK ==
    ASSUME FrInv, PipelineSubmit
    PROVE  FrInv'
<1>0. /\ check \in CheckShape /\ layers \in [Layers -> LayerStates]
      /\ jobs \in [Kinds -> JobRow] /\ runtime \in Runtime
      /\ UNCHANGED <<layers, verdict, runtime>>
  BY DEF FrInv, FrShape, PipelineSubmit
<1>1. /\ check.pc = "submit" /\ check.kind = "check"
      /\ ~Exists(jobs["check"]) /\ check.target = NoJob /\ layers["cleanup"] = "pending"
      /\ verdict \notin {"passed", "failed"}
  BY DEF FrInv, PlaceOK, TargetOK, PipelineSubmit, FrAt, CheckOnly, PreSubmit
<1>2. \/ jobs' = jobs
      \/ jobs' = [jobs EXCEPT !["check"] = NewJob]
  BY DEF PipelineSubmit
<1>3. /\ jobs' \in [Kinds -> JobRow]
      /\ jobs'["check"].state \in {"Absent", "Queued"}
      /\ jobs'["check"] = NewJob \/ jobs'["check"] = jobs["check"]
  BY <1>0, <1>1, <1>2, JobShapes DEF Kinds, Exists
<1>4. \/ check' = [check EXCEPT !.pc = "read_back", !.target = NewJob]
      \/ check' = [check EXCEPT !.pc = "lookup"]
      \/ check' = [check EXCEPT !.pc = "read_back", !.blind = "ids"]
  BY DEF PipelineSubmit, FrGoto
<1>5. "read_back" \in FrPcs /\ "lookup" \in FrPcs /\ "ids" \in Blindness
  BY DEF FrPcs, CheckOnly, Blindness
<1>6. check' \in CheckShape
  BY <1>0, <1>4, <1>5, JobShapes DEF CheckShape
<1>7. /\ check'.kind = "check" /\ check'.pc \in {"read_back", "lookup"}
      /\ check'.target \in {NoJob, NewJob}
      /\ check'.pc = "read_back" => check'.target = NewJob \/ check'.blind = "ids"
  BY <1>0, <1>1, <1>4 DEF CheckShape
<1>8. FrShape'
  BY <1>0, <1>3, <1>6 DEF FrShape, FrInv
<1>9. PlaceOK'
  BY <1>0, <1>1, <1>7 DEF PlaceOK, CheckOnly, SmokeOnly
<1>10. EvidenceOK'
  BY <1>0, <1>1, <1>7 DEF EvidenceOK, Closing
<1>11. NewJob # NoJob /\ NewJob.state \notin Terminal /\ NoJob.state \notin Terminal
  BY JobShapes DEF Exists, Terminal, NoJob
<1>12. TargetOK'
  BY <1>0, <1>1, <1>7, <1>11 DEF TargetOK, PreSubmit, Following, Closing
<1>13. OrphanOK'
  BY <1>7 DEF OrphanOK
<1> QED BY <1>8, <1>9, <1>10, <1>12, <1>13 DEF FrInv

(* The lookup after a failed submission, and the validation of everything  *)
(* the pipeline returned.                                                  *)
LEMMA PipelineOK ==
    ASSUME FrInv, PipelineLookup \/ PipelineReadBack
    PROVE  FrInv'
<1>0. /\ check \in CheckShape /\ layers \in [Layers -> LayerStates]
      /\ jobs \in [Kinds -> JobRow] /\ runtime' \in Runtime
      /\ UNCHANGED <<jobs, verdict, flying>>
  BY DEF FrInv, FrShape, PipelineLookup, PipelineReadBack, outside
<1>1. /\ check.pc \in {"lookup", "read_back"} /\ check.kind = "check"
      /\ check.pc = "read_back" => check.target # NoJob \/ check.blind # "none"
      /\ check.target.state \in Terminal => jobs["check"].state \in Terminal
      /\ layers["cleanup"] # "passed"
  BY DEF FrInv, PlaceOK, TargetOK, PipelineLookup, PipelineReadBack, FrAt, CheckOnly
<1>2. jobs["check"] \in JobRow /\ check.target \in JobRow /\ NoJob \in JobRow
  BY <1>0, JobShapes DEF CheckShape, Kinds
<1>3. /\ Packed(layers) \in [Layers -> LayerStates]
      /\ Packed(layers)["cleanup"] = layers["cleanup"]
      /\ Planned(layers) \in [Layers -> LayerStates]
      /\ Planned(layers)["cleanup"] = layers["cleanup"]
  BY <1>0, LayerNames DEF LayerStates, Packed, Planned
<1>4. /\ "none" \in Blindness /\ "lookup" \in Blindness /\ check.blind \in Blindness
  BY <1>0 DEF Blindness, CheckShape
<1>5. CASE PipelineLookup
  <2> DEFINE l == IF check.blind = "ids" THEN "execution" ELSE "selection"
             ls == IF check.blind = "ids" THEN Planned(layers) ELSE Packed(layers)
  <2>0. /\ l \in {"snapshot", "selection", "execution"}
        /\ ls \in [Layers -> LayerStates] /\ ls["cleanup"] = layers["cleanup"]
    BY <1>3
  <2>1. CASE FailWith(ls, l, TargetOf(jobs["check"]), "none")
    <3>1. /\ TargetOf(jobs["check"]) \in JobRow
          /\ TargetOf(jobs["check"]) # NoJob \/ ~Exists(jobs["check"])
          /\ TargetOf(jobs["check"]).state \in Terminal => jobs["check"].state \in Terminal
      BY <1>2, JobShapes DEF TargetOf, NoTarget, Exists, Terminal, NoJob
    <3> HIDE DEF l, ls
    <3> QED BY <1>0, <1>1, <1>4, <2>0, <2>1, <3>1, FailWithOK
  <2>2. CASE FailWith(ls, l, NoTarget, "lookup")
    <3>1. NoTarget = NoJob /\ NoJob.state \notin Terminal
      BY DEF NoTarget, NoJob, Terminal
    <3> HIDE DEF l, ls
    <3> QED BY <1>0, <1>1, <1>2, <1>4, <2>0, <2>2, <3>1, FailWithOK
  <2> QED BY <1>5, <2>1, <2>2 DEF PipelineLookup
<1>6. CASE PipelineReadBack
  <2>0. check.pc = "read_back" /\ (check.target # NoJob \/ check.blind # "none")
    BY <1>1, <1>6 DEF PipelineReadBack, FrAt
  <2>1. ASSUME NEW ls \in {layers, Packed(layers), Planned(layers)},
               NEW l \in {"snapshot", "selection", "execution"},
               FailWith(ls, l, check.target, check.blind)
        PROVE  FrInv'
    BY <1>0, <1>1, <1>2, <1>3, <1>4, <2>0, <2>1, FailWithOK
  <2>2. ASSUME PollValid(check.target, jobs["check"]),
               check' = [check EXCEPT !.pc = "poll", !.target = jobs["check"],
                                      !.prev = jobs["check"]],
               layers' = [Planned(layers) EXCEPT !["execution"] = "running"]
        PROVE  FrInv'
    <3>1. Exists(jobs["check"])
      BY <2>2 DEF PollValid, JobIdentityValid, RunReceiptValid
    <3>2. jobs["check"] # NoJob
      BY <3>1, JobShapes
    <3>3. layers' \in [Layers -> LayerStates] /\ layers'["cleanup"] = layers["cleanup"]
      BY <1>3, <2>2, LayerNames DEF LayerStates
    <3>4. check' = [check EXCEPT !.pc = "poll", !.session = check.session,
                                 !.target = jobs["check"], !.prev = jobs["check"]]
      BY <1>0, <2>2 DEF CheckShape
    <3>5. check.session \in Nat
      BY <1>0 DEF CheckShape
    <3>6. /\ "poll" \in FrPcs
          /\ "poll" \notin CheckOnly \cup SmokeOnly \cup Closing \cup PreSubmit
      BY DEF FrPcs, Following, CheckOnly, SmokeOnly, Closing, PreSubmit
    <3> QED BY <1>0, <1>1, <1>2, <2>0, <3>2, <3>3, <3>4, <3>5, <3>6, MoveOK
  <2>3. ASSUME FrGoto("lookup"), UNCHANGED layers PROVE FrInv'
    <3>1. Moved("lookup")
      BY <2>3, GotoMoves
    <3>2. /\ "lookup" \in FrPcs \cap CheckOnly
          /\ "lookup" \notin SmokeOnly \cup Closing \cup PreSubmit \cup Following
      BY DEF FrPcs, Following, CheckOnly, SmokeOnly, Closing, PreSubmit
    <3> QED BY <1>0, <1>1, <2>0, <2>3, <3>1, <3>2, GoOK
  <2>4. \/ \E ls \in {layers, Packed(layers), Planned(layers)},
               l \in {"snapshot", "selection", "execution"} :
                  FailWith(ls, l, check.target, check.blind)
        \/ FrGoto("lookup") /\ UNCHANGED layers
        \/ /\ PollValid(check.target, jobs["check"])
           /\ check' = [check EXCEPT !.pc = "poll", !.target = jobs["check"],
                                     !.prev = jobs["check"]]
           /\ layers' = [Planned(layers) EXCEPT !["execution"] = "running"]
    BY <1>6 DEF PipelineReadBack
  <2> QED BY <2>1, <2>2, <2>3, <2>4
<1> QED BY <1>5, <1>6

(* A poll: the row ended badly, or it is followed from there.              *)
LEMMA PollOK ==
    ASSUME FrInv, Poll
    PROVE  FrInv'
<1> DEFINE j == jobs[check.kind]
<1>0. /\ check \in CheckShape /\ layers \in [Layers -> LayerStates]
      /\ jobs \in [Kinds -> JobRow] /\ runtime' \in Runtime
      /\ UNCHANGED <<jobs, verdict, flying>> /\ check.pc = "poll"
      /\ TRUE \in BOOLEAN /\ FALSE \in BOOLEAN
  BY DEF FrInv, FrShape, Poll, FrAt, outside
<1>1. check.kind \in Kinds /\ check.session \in Nat /\ j \in JobRow
      /\ verdict \notin {"passed", "failed"}
  BY <1>0 DEF CheckShape, FrInv, PlaceOK
<1>2. /\ "poll" \in FrPcs /\ "logs" \in FrPcs /\ "best_effort" \in FrPcs
      /\ "failed" \in FrPcs
      /\ "poll" \notin CheckOnly \cup SmokeOnly \cup Closing \cup PreSubmit
      /\ "logs" \notin CheckOnly \cup SmokeOnly \cup Closing \cup PreSubmit
  BY DEF FrPcs, Following, CheckOnly, SmokeOnly, Closing, PreSubmit
<1>3. ASSUME NEW f \in BOOLEAN, Fail("execution", f) PROVE FrInv'
  BY <1>0, <1>3, FailOK, LayerNames
<1>4. PollValid(check.prev, j) => Exists(j) /\ ~j.cancel /\ j # NoJob
  BY JobShapes DEF PollValid, JobIdentityValid, RunReceiptValid
<1>5. ASSUME PollValid(check.prev, j),
             layers' = FailLayer(layers, "execution"),
             check' = [check EXCEPT !.failed = "execution", !.fatal = TRUE,
                         !.target = j, !.prev = j,
                         !.pc = IF check.kind = "check" THEN "best_effort" ELSE "failed"]
      PROVE  FrInv'
  <2> DEFINE pc == IF check.kind = "check" THEN "best_effort" ELSE "failed"
  <2>1. check' \in CheckShape
    BY <1>0, <1>1, <1>2, <1>5, LayerNames DEF CheckShape
  <2>2. /\ check'.kind = check.kind /\ check'.pc = pc /\ check'.target = j
    BY <1>0, <1>5 DEF CheckShape
  <2>3. layers' \in [Layers -> LayerStates] /\ layers'["cleanup"] = layers["cleanup"]
    BY <1>0, <1>5, FailLayerShape, LayerNames
  <2>4. FrShape'
    BY <1>0, <2>1, <2>3 DEF FrShape, FrInv
  <2>5. PlaceOK'
    BY <1>0, <1>1, <2>2 DEF PlaceOK, Kinds, CheckOnly, SmokeOnly, PreSubmit, Closing
  <2>6. EvidenceOK'
    BY <1>0, <1>1, <2>2 DEF EvidenceOK, Closing
  <2>7. TargetOK'
    BY <1>0, <1>1, <1>4, <1>5, <2>2, <2>3
       DEF FrInv, TargetOK, PreSubmit, Following, Closing
  <2>8. OrphanOK'
    BY <1>1, <2>2 DEF OrphanOK, Kinds
  <2> QED BY <2>4, <2>5, <2>6, <2>7, <2>8 DEF FrInv
<1>6. ASSUME NEW pc \in {"poll", "logs"}, PollValid(check.prev, j),
             pc = "logs" => j.state = "Succeeded" /\ PassThen("execution", "logs"),
             pc = "poll" => UNCHANGED layers,
             check' = [check EXCEPT !.target = j, !.prev = j, !.pc = pc]
      PROVE  FrInv'
  <2>1. layers' \in [Layers -> LayerStates] /\ layers'["cleanup"] = layers["cleanup"]
    BY <1>0, <1>6, LayerNames DEF PassThen, LayerStates
  <2>2. check' = [check EXCEPT !.pc = pc, !.session = check.session, !.target = j,
                               !.prev = j]
    BY <1>0, <1>6 DEF CheckShape
  <2>3. pc = "logs" => Proven(j)
    BY <1>4, <1>6 DEF Proven
  <2>4. check.kind = "check" => /\ j = jobs["check"]
                                /\ layers["cleanup"] = "passed" =>
                                      j.state = "Succeeded" /\ j.removed
    BY DEF FrInv, TargetOK
  <2>5. j # NoJob
    BY <1>4, <1>6
  <2>6. /\ pc \in FrPcs \ {"idle", "best_effort", "failed"}
        /\ pc \notin CheckOnly \cup SmokeOnly \cup Closing \cup PreSubmit
        /\ pc \notin {"artifact", "cleanup", "passed", "lookup", "read_back"}
    BY <1>2, <1>6
  <2>7. UNCHANGED <<verdict, jobs, flying>> /\ runtime' \in Runtime /\ j \in JobRow
        /\ check.session \in Nat /\ check.pc \notin {"idle", "passed", "failed"}
    BY <1>0, <1>1
  <2>8. pc # "logs" => pc \notin {"logs", "artifact", "cleanup", "passed"} \cup Closing
    BY <2>6
  <2> QED BY <2>1, <2>2, <2>3, <2>4, <2>5, <2>6, <2>7, <2>8, MoveOK
<1>7. CASE PollValid(check.prev, j) /\ j.state = "Succeeded"
           /\ check' = [check EXCEPT !.target = j, !.prev = j, !.pc = "logs"]
           /\ PassThen("execution", "logs")
  BY <1>6, <1>7
<1>8. CASE PollValid(check.prev, j) /\ UNCHANGED layers
           /\ check' = [check EXCEPT !.target = j, !.prev = j, !.pc = "poll"]
  BY <1>6, <1>8
<1>9. \/ \E f \in BOOLEAN : Fail("execution", f)
      \/ /\ PollValid(check.prev, j)
         /\ layers' = FailLayer(layers, "execution")
         /\ check' = [check EXCEPT !.failed = "execution", !.fatal = TRUE,
                        !.target = j, !.prev = j,
                        !.pc = IF check.kind = "check" THEN "best_effort" ELSE "failed"]
      \/ /\ PollValid(check.prev, j) /\ j.state = "Succeeded"
         /\ check' = [check EXCEPT !.target = j, !.prev = j, !.pc = "logs"]
         /\ PassThen("execution", "logs")
      \/ /\ PollValid(check.prev, j) /\ UNCHANGED layers
         /\ check' = [check EXCEPT !.target = j, !.prev = j, !.pc = "poll"]
  BY DEF Poll, ThisJob
<1> QED BY <1>3, <1>5, <1>7, <1>8, <1>9

(* Logs, artifact and receipt: each is evidence about the row itself.      *)
LEMMA EvidenceStepsOK ==
    ASSUME FrInv, VerifyLogs \/ VerifyArtifact \/ AwaitCleanup
    PROVE  FrInv'
<1> DEFINE j == jobs[check.kind]
<1>0. /\ check \in CheckShape /\ layers \in [Layers -> LayerStates]
      /\ jobs \in [Kinds -> JobRow] /\ runtime' \in Runtime
      /\ UNCHANGED <<jobs, verdict, flying>> /\ check.pc \in {"logs", "artifact", "cleanup"}
      /\ TRUE \in BOOLEAN /\ FALSE \in BOOLEAN
  BY DEF FrInv, FrShape, VerifyLogs, VerifyArtifact, AwaitCleanup, FrAt, outside
<1>1. /\ check.kind \in Kinds /\ Proven(jobs[check.kind])
      /\ check.pc \in {"artifact", "cleanup"} => jobs[check.kind].intact
      /\ check.pc \in Following
  BY <1>0 DEF CheckShape, FrInv, EvidenceOK, Following
<1>2. ASSUME NEW l \in Layers, NEW f \in BOOLEAN, Fail(l, f) PROVE FrInv'
  BY <1>0, <1>2, FailOK
<1>3. /\ {"artifact", "cleanup"} \subseteq FrPcs \cap Following
      /\ "mark" \in FrPcs \cap Closing /\ "passed" \in FrPcs /\ "mark" \in CheckOnly
      /\ \A pc \in {"artifact", "cleanup", "passed"} :
            pc \notin CheckOnly \cup SmokeOnly \cup Closing \cup PreSubmit
      /\ "mark" \notin SmokeOnly \cup PreSubmit /\ "passed" \notin Following
  BY DEF FrPcs, Following, CheckOnly, SmokeOnly, Closing, PreSubmit
<1>4. CASE VerifyLogs
  <2>1. CASE LogsVerified(j) /\ FrGoto("artifact") /\ PassThen("logs", "artifact")
    <3>1. layers' \in [Layers -> LayerStates] /\ layers'["cleanup"] = layers["cleanup"]
      BY <1>0, <2>1, LayerNames DEF PassThen, LayerStates
    <3>2. Moved("artifact") /\ jobs[check.kind].intact
      BY <2>1, GotoMoves DEF LogsVerified
    <3> QED BY <1>0, <1>1, <1>3, <3>1, <3>2, GoOK
  <2> QED BY <1>0, <1>2, <1>4, <2>1, LayerNames DEF VerifyLogs, ThisJob
<1>5. CASE VerifyArtifact
  <2>1. CASE FrGoto("cleanup") /\ PassThen("artifact", "cleanup") /\ ArtifactVerified(j)
    <3>1. layers' \in [Layers -> LayerStates] /\ layers'["cleanup"] = "running"
      BY <1>0, <2>1, LayerNames DEF PassThen, LayerStates
    <3>2. Moved("cleanup") /\ jobs[check.kind].intact
      BY <2>1, GotoMoves DEF ArtifactVerified
    <3> QED BY <1>0, <1>1, <1>3, <3>1, <3>2, GoOK
  <2> QED BY <1>0, <1>2, <1>5, <2>1, LayerNames DEF VerifyArtifact, ThisJob
<1>6. CASE AwaitCleanup
  <2>0. check.pc = "cleanup" /\ jobs[check.kind].intact
    BY <1>1, <1>6 DEF AwaitCleanup, FrAt
  <2>1. CASE /\ CleanupRemoved(j, check.prev.version) /\ Pass("cleanup")
             /\ FrGoto(IF check.kind = "check" THEN "mark" ELSE "passed")
    <3>1. layers' \in [Layers -> LayerStates]
      BY <1>0, <2>1, LayerNames DEF Pass, LayerStates
    <3>2. jobs[check.kind].removed /\ jobs[check.kind].state = "Succeeded"
      BY <2>1 DEF CleanupRemoved
    <3>3. CASE check.kind = "check"
      <4>1. Moved("mark")
        BY <2>1, <3>3, GotoMoves
      <4> QED BY <1>0, <1>1, <1>3, <2>0, <3>1, <3>2, <3>3, <4>1, GoOK
    <3>4. CASE check.kind # "check"
      <4>1. Moved("passed")
        BY <2>1, <3>4, GotoMoves
      <4> QED BY <1>0, <1>1, <1>3, <2>0, <3>1, <3>2, <3>4, <4>1, GoOK
    <3> QED BY <3>3, <3>4
  <2> QED BY <1>0, <1>2, <1>6, <2>1, LayerNames DEF AwaitCleanup, ThisJob
<1> QED BY <1>4, <1>5, <1>6

(* The runtime verifies itself again, then the last look at the fleet.     *)
LEMMA ClosingOK ==
    ASSUME FrInv, MarkReverify \/ Reverify \/ FinalFleet
    PROVE  FrInv'
<1>0. /\ check \in CheckShape /\ layers \in [Layers -> LayerStates]
      /\ jobs \in [Kinds -> JobRow] /\ runtime \in Runtime
      /\ UNCHANGED <<jobs, verdict, flying>> /\ check.pc \in Closing
      /\ check.pc \in {"mark", "reverify", "final"}
      /\ TRUE \in BOOLEAN /\ FALSE \in BOOLEAN
  BY DEF FrInv, FrShape, MarkReverify, Reverify, FinalFleet, FrAt, outside, Closing
<1>1. runtime' \in Runtime
  <2>1. \/ runtime' = runtime
        \/ runtime' = [runtime EXCEPT !.seen = FALSE]
    BY DEF MarkReverify, Reverify, FinalFleet, outside
  <2> QED BY <1>0, <2>1 DEF Runtime
<1>2. /\ Proven(jobs[check.kind]) /\ jobs[check.kind].intact
      /\ jobs[check.kind].removed /\ check.kind = "check"
  BY <1>0 DEF FrInv, EvidenceOK, PlaceOK, CheckOnly
<1>3. ASSUME NEW l \in Layers, NEW f \in BOOLEAN, Fail(l, f) PROVE FrInv'
  BY <1>0, <1>1, <1>3, FailOK
<1>4. /\ {"reverify", "final"} \subseteq FrPcs \cap Closing \cap CheckOnly
      /\ {"reverify", "final"} \cap (SmokeOnly \cup PreSubmit) = {}
      /\ "passed" \in FrPcs
      /\ "passed" \notin CheckOnly \cup SmokeOnly \cup Closing \cup PreSubmit \cup Following
  BY DEF FrPcs, Following, CheckOnly, SmokeOnly, Closing, PreSubmit
<1>5. ASSUME NEW pc \in {"reverify", "final", "passed"}, FrGoto(pc),
             layers' \in [Layers -> LayerStates], layers'["cleanup"] = layers["cleanup"]
      PROVE  FrInv'
  <2>1. Moved(pc)
    BY <1>5, GotoMoves
  <2> QED BY <1>0, <1>1, <1>2, <1>4, <1>5, <2>1, GoOK
<1>6. CASE MarkReverify
  BY <1>0, <1>5, <1>6 DEF MarkReverify
<1>7. CASE Reverify
  BY <1>0, <1>3, <1>5, <1>7, LayerNames DEF Reverify
<1>8. CASE FinalFleet
  <2>1. CASE Pass("plugin") /\ FrGoto("passed")
    <3>1. layers' \in [Layers -> LayerStates] /\ layers'["cleanup"] = layers["cleanup"]
      BY <1>0, <2>1, LayerNames DEF Pass, LayerStates
    <3> QED BY <1>5, <2>1, <3>1
  <2> QED BY <1>0, <1>3, <1>8, <2>1, LayerNames DEF FinalFleet
<1> QED BY <1>6, <1>7, <1>8

(* best_effort_cleanup leaves no job running without saying so.            *)
LEMMA BestEffortOK ==
    ASSUME FrInv, BestEffortCleanup
    PROVE  FrInv'
<1> DEFINE j == jobs["check"]
<1>0. /\ check \in CheckShape /\ layers \in [Layers -> LayerStates]
      /\ jobs \in [Kinds -> JobRow] /\ runtime \in Runtime
      /\ UNCHANGED <<verdict, runtime, flying>> /\ check.pc = "best_effort"
  BY DEF FrInv, FrShape, BestEffortCleanup, FrAt
<1>1. /\ check.kind = "check" /\ verdict \notin {"passed", "failed"}
      /\ check.target # NoJob \/ check.blind # "none" \/ ~Exists(j)
      /\ check.target.state \in Terminal => j.state \in Terminal
      /\ layers["cleanup"] = "passed" => j.state = "Succeeded" /\ j.removed
  BY <1>0 DEF FrInv, PlaceOK, TargetOK, CheckOnly
<1>2. check' = [check EXCEPT !.pc = "failed"]
  BY DEF BestEffortCleanup, FrGoto
<1>3. "failed" \in FrPcs /\ "failed" \notin CheckOnly \cup SmokeOnly \cup PreSubmit
                                            \cup Following \cup Closing
  BY DEF FrPcs, CheckOnly, SmokeOnly, PreSubmit, Following, Closing
<1>4. /\ check' \in CheckShape /\ check'.kind = "check" /\ check'.pc = "failed"
      /\ check'.target = check.target /\ check'.blind = check.blind
  BY <1>0, <1>1, <1>2, <1>3 DEF CheckShape
<1>5. ASSUME layers' \in [Layers -> LayerStates], jobs' \in [Kinds -> JobRow],
             check.target.state \in Terminal => jobs'["check"].state \in Terminal,
             layers'["cleanup"] = "passed" =>
                 jobs'["check"].state = "Succeeded" /\ jobs'["check"].removed,
             Orphan(jobs'["check"]) => layers'["cleanup"] = "failed" \/ check.blind # "none"
      PROVE  FrInv'
  <2>1. FrShape'
    BY <1>0, <1>4, <1>5 DEF FrShape, FrInv
  <2>2. PlaceOK'
    BY <1>0, <1>1, <1>3, <1>4 DEF PlaceOK
  <2>3. EvidenceOK'
    BY <1>0, <1>1, <1>3, <1>4 DEF EvidenceOK
  <2>4. TargetOK'
    BY <1>3, <1>4, <1>5 DEF TargetOK
  <2>5. OrphanOK'
    BY <1>4, <1>5 DEF OrphanOK
  <2> QED BY <2>1, <2>2, <2>3, <2>4, <2>5 DEF FrInv
<1>6. \A s : layers' = [layers EXCEPT !["cleanup"] = s] /\ s \in LayerStates =>
        layers' \in [Layers -> LayerStates] /\ layers'["cleanup"] = s
  BY <1>0, LayerNames
<1>7. {"skipped", "failed", "passed"} \subseteq LayerStates
  BY DEF LayerStates
<1>8. j.state \in Terminal => ~Orphan(j)
  BY DEF Orphan, Executing, Terminal
<1>9. CASE layers["cleanup"] \in {"passed", "failed"} /\ UNCHANGED <<layers, jobs>>
  <2>1. layers["cleanup"] = "passed" => ~Orphan(j)
    BY <1>1, <1>8 DEF Terminal
  <2> QED BY <1>0, <1>1, <1>5, <1>9, <2>1
<1>10. CASE check.target = NoTarget /\ UNCHANGED jobs
            /\ layers' = [layers EXCEPT !["cleanup"] = "skipped"]
  <2>1. Orphan(j) => check.blind # "none"
    BY <1>1, <1>10 DEF Orphan, Exists, NoTarget, Executing
  <2> QED BY <1>0, <1>1, <1>5, <1>6, <1>7, <1>10, <2>1
<1>11. CASE check.target.state \in Terminal /\ UNCHANGED jobs
            /\ \/ layers' = [layers EXCEPT !["cleanup"] =
                     IF CleanupRemoved(j, check.target.version) THEN "passed" ELSE "failed"]
               \/ layers' = [layers EXCEPT !["cleanup"] = "failed"]
  <2>1. layers' \in [Layers -> LayerStates]
        /\ (layers'["cleanup"] = "passed" => CleanupRemoved(j, check.target.version))
    BY <1>6, <1>7, <1>11
  <2> QED BY <1>0, <1>1, <1>5, <1>8, <1>11, <2>1 DEF CleanupRemoved
<1>12. CASE /\ check.target.state \notin Terminal
            /\ layers' = [layers EXCEPT !["cleanup"] = "failed"]
            /\ \/ UNCHANGED jobs
               \/ jobs' = [jobs EXCEPT !["check"].cancel = TRUE,
                                       !["check"].version = @ + 1,
                                       !["check"].state =
                                          IF @ = "Queued" THEN "Cancelled" ELSE @]
  <2>1. layers' \in [Layers -> LayerStates] /\ layers'["cleanup"] = "failed"
    BY <1>6, <1>7, <1>12
  <2>2. jobs' \in [Kinds -> JobRow]
    <3>1. CASE UNCHANGED jobs
      BY <1>0, <3>1
    <3>2. CASE jobs' = [jobs EXCEPT !["check"].cancel = TRUE,
                                    !["check"].version = @ + 1,
                                    !["check"].state =
                                       IF @ = "Queued" THEN "Cancelled" ELSE @]
      <4> DEFINE s == IF j.state = "Queued" THEN "Cancelled" ELSE j.state
                 r == [j EXCEPT !.cancel = TRUE, !.version = j.version + 1, !.state = s]
      <4>1. j \in JobRow
        BY <1>0 DEF Kinds
      <4>2. j.version + 1 \in Nat /\ s \in {"Absent", "Queued"} \cup Executing \cup Terminal
        BY <4>1 DEF JobRow, Terminal
      <4>3. r \in JobRow
        <5> HIDE DEF s
        <5> QED BY <4>1, <4>2, ZenonT(60) DEF JobRow
      <4>4. jobs' = [jobs EXCEPT !["check"] = r]
        BY <1>0, <3>2 DEF Kinds, JobRow
      <4> HIDE DEF r
      <4> QED BY <1>0, <4>3, <4>4
    <3> QED BY <1>12, <3>1, <3>2
  <2> QED BY <1>5, <1>12, <2>1, <2>2
<1> QED BY <1>9, <1>10, <1>11, <1>12 DEF BestEffortCleanup

(* The verdict.                                                            *)
LEMMA FinishOK ==
    ASSUME FrInv, Finish
    PROVE  FrInv'
<1>0. /\ check \in CheckShape /\ check.pc \in {"passed", "failed"}
      /\ UNCHANGED <<layers, jobs, flying, runtime>> /\ check' = [check EXCEPT !.pc = "idle"]
  BY DEF FrInv, FrShape, Finish, FrGoto, outside
<1>1. "idle" \in FrPcs /\ "idle" \notin CheckOnly \cup SmokeOnly \cup PreSubmit
                                        \cup Following \cup Closing
  BY DEF FrPcs, CheckOnly, SmokeOnly, PreSubmit, Following, Closing
<1>2. /\ check' \in CheckShape /\ check'.kind = check.kind /\ check'.pc = "idle"
      /\ check'.target = check.target /\ check'.blind = check.blind
  BY <1>0, <1>1 DEF CheckShape
<1>3. /\ verdict' \in {"passed", "failed"}
      /\ verdict' = "passed" => check.pc = "passed"
  BY <1>0 DEF Finish
<1>4. FrShape'
  BY <1>0, <1>2, <1>3 DEF FrShape, FrInv
<1>5. PlaceOK' /\ EvidenceOK'
  BY <1>0, <1>1, <1>2, <1>3 DEF FrInv, PlaceOK, EvidenceOK
<1>6. TargetOK'
  BY <1>0, <1>1, <1>2 DEF FrInv, TargetOK
<1>7. OrphanOK'
  BY <1>0, <1>2 DEF FrInv, OrphanOK, EvidenceOK, Proven, Orphan, Executing
<1> QED BY <1>4, <1>5, <1>6, <1>7 DEF FrInv

(* A workflow starts, or the desktop is killed.                            *)
LEMMA StartOK ==
    ASSUME FrInv, StartCheck \/ StartSmoke \/ KillCheck
    PROVE  FrInv'
<1>0. jobs \in [Kinds -> JobRow] /\ runtime \in Runtime /\ UNCHANGED <<jobs, runtime>>
  BY DEF FrInv, FrShape, StartCheck, StartSmoke, KillCheck, outside
<1>1. /\ {"idle", "plugin", "find"} \subseteq FrPcs
      /\ "idle" \notin CheckOnly \cup SmokeOnly \cup PreSubmit \cup Following \cup Closing
      /\ "find" \notin CheckOnly \cup Closing
      /\ "plugin" \notin SmokeOnly \cup Closing \cup Following
      /\ "check" \in Kinds /\ "smoke" \in Kinds /\ 0 \in Nat
  BY DEF FrPcs, CheckOnly, SmokeOnly, PreSubmit, Following, Closing, Kinds
<1>2. Idle \in CheckShape
  BY <1>1, JobShapes, LayerNames DEF Idle, CheckShape, NoTarget, Blindness
<1>3. /\ Idle.kind = "check" /\ Idle.pc = "idle" /\ Idle.target = NoJob
      /\ Idle.blind = "none" /\ NoJob.state \notin Terminal
  BY DEF Idle, NoTarget, NoJob, Terminal
<1>4. Pending \in [Layers -> LayerStates] /\ Pending["cleanup"] = "pending"
  BY LayerNames DEF Pending, LayerStates
<1>5. ASSUME check' \in CheckShape, check'.target = NoJob,
             <<check'.kind, check'.pc>> \in
                {<<"check", "plugin">>, <<"smoke", "find">>, <<"check", "idle">>},
             check'.pc = "plugin" => ~Exists(jobs["check"]) /\ "check" \notin flying',
             layers' \in [Layers -> LayerStates], layers'["cleanup"] = "pending",
             verdict' \in {"none", "running"}
      PROVE  FrInv'
  <2>1. FrShape'
    BY <1>0, <1>5 DEF FrShape
  <2>2. PlaceOK' /\ EvidenceOK' /\ OrphanOK'
    BY <1>1, <1>5 DEF PlaceOK, EvidenceOK, OrphanOK
  <2>3. TargetOK'
    BY <1>0, <1>1, <1>3, <1>5 DEF TargetOK
  <2> QED BY <2>1, <2>2, <2>3 DEF FrInv
<1>6. CASE StartCheck
  <2>1. check' = [Idle EXCEPT !.pc = "plugin"]
        /\ layers' = [Pending EXCEPT !["plugin"] = "running"]
        /\ ~Exists(jobs["check"]) /\ verdict' = "running" /\ "check" \notin flying'
    BY <1>6 DEF StartCheck
  <2>2. /\ check' \in CheckShape /\ check'.kind = "check" /\ check'.pc = "plugin"
        /\ check'.target = NoJob
    BY <1>1, <1>2, <1>3, <2>1 DEF CheckShape
  <2>3. layers' \in [Layers -> LayerStates] /\ layers'["cleanup"] = "pending"
    BY <1>4, <2>1, LayerNames DEF LayerStates
  <2> QED BY <1>5, <2>1, <2>2, <2>3
<1>7. CASE StartSmoke
  <2>1. check' = [Idle EXCEPT !.kind = "smoke", !.pc = "find"]
        /\ layers' = Pending /\ verdict' = "running"
    BY <1>7 DEF StartSmoke
  <2>2. /\ check' \in CheckShape /\ check'.kind = "smoke" /\ check'.pc = "find"
        /\ check'.target = NoJob
    BY <1>1, <1>2, <1>3, <2>1 DEF CheckShape
  <2> QED BY <1>4, <1>5, <2>1, <2>2
<1>8. CASE KillCheck
  BY <1>2, <1>3, <1>4, <1>5, <1>8 DEF KillCheck
<1> QED BY <1>6, <1>7, <1>8

(* The smoke run up to the row it follows.                                 *)
LEMMA SmokeOK ==
    ASSUME FrInv,
           FindSmokeJob \/ PlanSmoke \/ SubmitSmoke \/ RecoverSmoke \/ BindSmoke \/ FollowSmoke
    PROVE  FrInv'
<1>0. /\ check \in CheckShape /\ layers \in [Layers -> LayerStates]
      /\ jobs \in [Kinds -> JobRow] /\ runtime' \in Runtime
      /\ UNCHANGED <<verdict, runtime>> /\ check.pc \in SmokeOnly
      /\ TRUE \in BOOLEAN /\ FALSE \in BOOLEAN
  BY DEF FrInv, FrShape, FindSmokeJob, PlanSmoke, SubmitSmoke, RecoverSmoke, BindSmoke,
         FollowSmoke, FrAt, outside, SmokeOnly
<1>1. /\ check.kind = "smoke" /\ verdict \notin {"passed", "failed"}
      /\ check.pc \notin {"idle", "passed", "failed", "lookup", "best_effort"}
  BY <1>0 DEF FrInv, PlaceOK, SmokeOnly
<1>2. /\ SmokeOnly \cup {"poll"} \subseteq FrPcs \ {"idle", "best_effort", "failed"}
      /\ \A pc \in SmokeOnly \cup {"poll"} :
            /\ pc \notin CheckOnly \cup Closing
            /\ pc \notin {"logs", "artifact", "cleanup", "passed", "read_back"}
      /\ {"smoke_plan", "smoke_submit", "smoke_bind", "smoke_recover", "smoke_read"}
            \subseteq SmokeOnly
      /\ "poll" \notin SmokeOnly
  BY DEF FrPcs, CheckOnly, SmokeOnly, PreSubmit, Following, Closing
<1>3. ASSUME NEW l \in Layers, NEW f \in BOOLEAN, Fail(l, f), UNCHANGED <<jobs, flying>>
      PROVE  FrInv'
  BY <1>0, <1>1, <1>3, FailOK
<1>4. ASSUME NEW pc \in SmokeOnly, FrGoto(pc), UNCHANGED <<layers, jobs, flying>>
      PROVE  FrInv'
  <2>1. Moved(pc)
    BY <1>4, GotoMoves
  <2>2. "smoke" # "check"
    OBVIOUS
  <2> QED BY <1>0, <1>1, <1>2, <1>4, <2>1, <2>2, GoOK
<1>5. CASE SubmitSmoke
  <2>1. /\ layers' = layers
        /\ jobs' = jobs \/ jobs' = [jobs EXCEPT !["smoke"] = NewJob]
        /\ check' = [check EXCEPT !.pc = "smoke_bind"]
           \/ check' = [check EXCEPT !.pc = "smoke_recover"]
    BY <1>5 DEF SubmitSmoke, FrGoto
  <2>2. jobs' \in [Kinds -> JobRow]
    BY <1>0, <2>1, JobShapes
  <2>3. {"smoke_bind", "smoke_recover"} \subseteq FrPcs
    BY <1>2
  <2>4. /\ check' \in CheckShape /\ check'.kind = "smoke"
        /\ check'.pc \in {"smoke_bind", "smoke_recover"}
    BY <1>0, <1>1, <2>1, <2>3 DEF CheckShape
  <2>5. FrShape'
    BY <1>0, <2>1, <2>2, <2>4 DEF FrShape, FrInv
  <2>6. PlaceOK' /\ EvidenceOK' /\ TargetOK' /\ OrphanOK'
    BY <1>0, <1>1, <1>2, <2>4 DEF PlaceOK, EvidenceOK, TargetOK, OrphanOK
  <2> QED BY <2>5, <2>6 DEF FrInv
<1>6. CASE FindSmokeJob
  BY <1>0, <1>2, <1>3, <1>4, <1>6, LayerNames DEF FindSmokeJob, outside
<1>7. CASE PlanSmoke
  BY <1>0, <1>2, <1>3, <1>4, <1>7, LayerNames DEF PlanSmoke, outside
<1>8. CASE RecoverSmoke
  BY <1>0, <1>2, <1>3, <1>4, <1>8, LayerNames DEF RecoverSmoke, outside
<1>9. CASE BindSmoke
  BY <1>0, <1>2, <1>3, <1>4, <1>9, LayerNames DEF BindSmoke, outside
<1>10. CASE FollowSmoke
  <2>0. UNCHANGED <<jobs, flying>> /\ jobs["smoke"] \in JobRow /\ check.session \in Nat
    BY <1>0, <1>10 DEF FollowSmoke, outside, CheckShape, Kinds
  <2>1. CASE /\ check' = [check EXCEPT !.pc = "poll", !.prev = jobs["smoke"],
                                       !.target = jobs["smoke"]]
             /\ UNCHANGED layers
    <3>1. check' = [check EXCEPT !.pc = "poll", !.session = check.session,
                                 !.target = jobs["smoke"], !.prev = jobs["smoke"]]
      BY <1>0, <2>1 DEF CheckShape
    <3>2. "smoke" # "check"
      OBVIOUS
    <3>3. layers' \in [Layers -> LayerStates]
      BY <1>0, <2>1
    <3> QED BY <1>0, <1>1, <1>2, <2>0, <3>1, <3>2, <3>3, MoveOK
  <2> QED BY <1>0, <1>3, <1>10, <2>0, <2>1, LayerNames DEF FollowSmoke
<1> QED BY <1>5, <1>6, <1>7, <1>8, <1>9, <1>10

(* The controller and the worker move a row: the job stays, its            *)
(* cancellation too, and what an ended run left is kept.                   *)
RowMoves(j, r) ==
    /\ Exists(j) /\ Exists(r) /\ r.cancel = j.cancel
    /\ j.state \in Terminal =>
          r.state = j.state /\ r.intact = j.intact /\ (j.removed => r.removed)

(* A row that only moves forward disturbs nothing a check has recorded.    *)
LEMMA RowMoveOK ==
    ASSUME FrInv, NEW k \in Kinds, NEW r \in JobRow, RowMoves(jobs[k], r),
           jobs' = [jobs EXCEPT ![k] = r],
           UNCHANGED <<check, layers, verdict, flying, runtime>>
    PROVE  FrInv'
<1>0. /\ check \in CheckShape /\ jobs \in [Kinds -> JobRow] /\ check.kind \in Kinds
      /\ "check" \in Kinds
  BY DEF FrInv, FrShape, CheckShape, Kinds
<1>1. jobs' \in [Kinds -> JobRow]
  BY <1>0
<1>2. FrShape' /\ PlaceOK'
  BY <1>1 DEF FrInv, FrShape, PlaceOK
<1>3. ASSUME NEW i \in Kinds
      PROVE  jobs'[i] = jobs[i] \/ RowMoves(jobs[i], jobs'[i])
  BY <1>0
<1>4. "Succeeded" \in Terminal
  BY DEF Terminal
<1>5. EvidenceOK'
  <2>1. ASSUME Proven(jobs[check.kind])
        PROVE  /\ Proven(jobs'[check.kind])
               /\ jobs[check.kind].intact => jobs'[check.kind].intact
               /\ jobs[check.kind].removed => jobs'[check.kind].removed
    BY <1>0, <1>3, <1>4, <2>1 DEF Proven, RowMoves
  <2>2. EvidenceOK
    BY DEF FrInv
  <2>3. check.pc \in {"artifact", "cleanup", "passed"} \cup Closing =>
            check.pc \in {"logs", "artifact", "cleanup", "passed"} \cup Closing
    OBVIOUS
  <2>4. check.pc \in {"passed"} \cup Closing =>
            check.pc \in {"logs", "artifact", "cleanup", "passed"} \cup Closing
    OBVIOUS
  <2> QED BY <2>1, <2>2, <2>3, <2>4 DEF EvidenceOK
<1>6. TargetOK'
  <2>1. /\ ~Exists(jobs["check"]) => jobs'["check"] = jobs["check"]
        /\ jobs["check"].state \in Terminal => jobs'["check"].state = jobs["check"].state
        /\ jobs["check"].state \in Terminal /\ jobs["check"].removed =>
              jobs'["check"].removed
    BY <1>0, <1>3 DEF RowMoves
  <2>2. TargetOK
    BY DEF FrInv
  <2> QED BY <1>4, <2>1, <2>2 DEF TargetOK
<1>7. OrphanOK'
  <2>1. jobs["check"] \in JobRow
    BY <1>0
  <2>2. Orphan(jobs'["check"]) => Orphan(jobs["check"])
    BY <1>0, <1>3, <2>1 DEF RowMoves, Orphan, JobRow, Exists, Executing, Terminal
  <2> QED BY <2>2 DEF OrphanOK, FrInv
<1> QED BY <1>2, <1>5, <1>6, <1>7 DEF FrInv

(* The controller and the worker move job rows forward only.               *)
LEMMA JobMovesOK ==
    ASSUME FrInv, NEW k \in Kinds, Advance(k) \/ Redispatched(k) \/ CleanUp(k)
    PROVE  FrInv'
<1> DEFINE j == jobs[k]
<1>0. /\ jobs \in [Kinds -> JobRow] /\ j \in JobRow
      /\ UNCHANGED <<check, layers, verdict, flying, runtime>>
  BY DEF FrInv, FrShape, Advance, Redispatched, CleanUp
<1>1. j.version + 1 \in Nat /\ 2 \in 1..2 /\ TRUE \in BOOLEAN
  BY <1>0 DEF JobRow
<1>2. CASE Advance(k)
  <2>1. PICK s \in Executing \cup Terminal, intact \in BOOLEAN :
          /\ CanTransition(j.state, s)
          /\ jobs' = [jobs EXCEPT ![k].state = s, ![k].version = @ + 1,
                                  ![k].intact = intact]
    BY <1>2 DEF Advance
  <2> DEFINE r == [j EXCEPT !.state = s, !.version = j.version + 1, !.intact = intact]
  <2>2. jobs' = [jobs EXCEPT ![k] = r]
    BY <1>0, <2>1 DEF JobRow
  <2>3. s \in {"Absent", "Queued"} \cup Executing \cup Terminal
    OBVIOUS
  <2>4. r \in JobRow
    BY <1>0, <1>1, <2>3, ZenonT(60) DEF JobRow
  <2>5. r.state = s /\ r.cancel = j.cancel
    BY <1>0 DEF JobRow
  <2>6. Exists(j) /\ j.state \notin Terminal /\ s # "Absent"
    BY <1>2, <2>1 DEF Advance, CanTransition, Terminal, Executing
  <2>7. RowMoves(j, r)
    <3> HIDE DEF r, j
    <3> QED BY <2>5, <2>6 DEF RowMoves, Exists
  <2> HIDE DEF r
  <2> QED BY <1>0, <2>2, <2>4, <2>7, RowMoveOK
<1>3. CASE Redispatched(k)
  <2>1. PICK n \in BOOLEAN :
          jobs' = [jobs EXCEPT ![k].version = @ + 1, ![k].placement = 2, ![k].node = n]
    BY <1>3 DEF Redispatched
  <2> DEFINE r == [j EXCEPT !.version = j.version + 1, !.placement = 2, !.node = n]
  <2>2. jobs' = [jobs EXCEPT ![k] = r]
    BY <1>0, <2>1 DEF JobRow
  <2>4. r \in JobRow
    BY <1>0, <1>1, ZenonT(60) DEF JobRow
  <2>5. r.state = j.state /\ r.cancel = j.cancel
    BY <1>0 DEF JobRow
  <2>6. j.state = "Queued" /\ j.state \notin Terminal
    BY <1>3 DEF Redispatched, Terminal
  <2>7. RowMoves(j, r)
    <3> HIDE DEF r, j
    <3> QED BY <2>5, <2>6 DEF RowMoves, Exists
  <2> HIDE DEF r
  <2> QED BY <1>0, <2>2, <2>4, <2>7, RowMoveOK
<1>4. CASE CleanUp(k)
  <2> DEFINE r == [j EXCEPT !.removed = TRUE]
  <2>2. jobs' = [jobs EXCEPT ![k] = r]
    BY <1>0, <1>4 DEF JobRow, CleanUp
  <2>4. r \in JobRow
    BY <1>0, <1>1, ZenonT(60) DEF JobRow
  <2>5. r.state = j.state /\ r.cancel = j.cancel /\ r.intact = j.intact /\ r.removed = TRUE
    BY <1>0 DEF JobRow
  <2>6. j.state # "Absent"
    BY <1>4 DEF CleanUp, Terminal
  <2>7. RowMoves(j, r)
    <3> HIDE DEF r, j
    <3> QED BY <2>5, <2>6 DEF RowMoves, Exists
  <2> HIDE DEF r
  <2> QED BY <1>0, <2>2, <2>4, <2>7, RowMoveOK
<1> QED BY <1>2, <1>3, <1>4

(* A submission that arrives late blinds the check that has looked for it. *)
LEMMA LateCommitOK ==
    ASSUME FrInv, NEW k \in Kinds, LateCommit(k)
    PROVE  FrInv'
<1>0. /\ check \in CheckShape /\ layers \in [Layers -> LayerStates]
      /\ jobs \in [Kinds -> JobRow] /\ runtime \in Runtime
      /\ UNCHANGED <<layers, verdict, runtime>> /\ flying' = flying \ {k}
      /\ jobs' = [jobs EXCEPT ![k] = NewJob] /\ ~Exists(jobs[k]) /\ k \in flying
      /\ check.kind \in Kinds
  BY DEF FrInv, FrShape, LateCommit, CheckShape
<1>1. /\ jobs' \in [Kinds -> JobRow]
      /\ \A i \in Kinds : i # k => jobs'[i] = jobs[i]
      /\ "late" \in Blindness /\ "check" \in Kinds
  BY <1>0, JobShapes DEF Blindness, Kinds
<1>2. /\ check' \in CheckShape
      /\ check'.kind = check.kind /\ check'.pc = check.pc /\ check'.target = check.target
      /\ k = "check" /\ check.pc # "lookup" => check'.blind = "late"
      /\ k # "check" => check' = check
  <2>1. CASE check' = [check EXCEPT !.blind = "late"] /\ k = "check"
    BY <1>0, <1>1, <2>1 DEF CheckShape
  <2>2. CASE check' = check /\ ~(k = "check" /\ check.pc # "lookup")
    BY <1>0, <2>2
  <2> QED BY <2>1, <2>2 DEF LateCommit, FrAt
<1>3. FrShape' /\ PlaceOK'
  BY <1>0, <1>1, <1>2 DEF FrInv, FrShape, PlaceOK
<1>4. ~Proven(jobs[k]) /\ jobs[k].state \notin Terminal /\ jobs[k].state # "Succeeded"
  BY <1>0 DEF Exists, Proven, Terminal
<1>5. EvidenceOK'
  <2>1. CASE k = check.kind
    <3>1. /\ check.pc \notin {"logs", "artifact", "cleanup", "passed"} \cup Closing
          /\ verdict # "passed"
      BY <1>4, <2>1 DEF FrInv, EvidenceOK
    <3> QED BY <1>0, <1>2, <3>1 DEF EvidenceOK
  <2>2. CASE k # check.kind
    BY <1>0, <1>1, <1>2, <2>2 DEF FrInv, EvidenceOK
  <2> QED BY <2>1, <2>2
<1>6. TargetOK'
  <2>1. CASE k = "check"
    <3>1. check.kind = "check" =>
            /\ check.pc \notin PreSubmit /\ layers["cleanup"] # "passed"
            /\ check.target.state \notin Terminal
      BY <1>0, <1>4, <2>1 DEF FrInv, TargetOK
    <3>2. check'.pc = "read_back" => check'.blind = "late" /\ check.pc = "read_back"
      BY <1>2, <2>1
    <3> QED BY <1>0, <1>2, <2>1, <3>1, <3>2 DEF FrInv, TargetOK
  <2>2. CASE k # "check"
    BY <1>0, <1>1, <1>2, <2>2 DEF FrInv, TargetOK
  <2> QED BY <2>1, <2>2
<1>7. OrphanOK'
  <2>1. CASE k = "check"
    BY <1>2, <2>1 DEF OrphanOK
  <2>2. CASE k # "check"
    BY <1>0, <1>1, <1>2, <2>2 DEF FrInv, OrphanOK
  <2> QED BY <2>1, <2>2
<1> QED BY <1>3, <1>5, <1>6, <1>7 DEF FrInv

(* The runtime, the nodes and the other operations leave the workflow and  *)
(* its rows alone.                                                         *)
LEMMA SurroundingsOK ==
    ASSUME FrInv, RuntimeMoves \/ NodeReports \/ OtherOperation
    PROVE  FrInv'
<1>1. runtime \in Runtime /\ UNCHANGED <<check, layers, verdict, jobs, flying>>
  BY DEF FrInv, FrShape, RuntimeMoves, NodeReports, OtherOperation
<1>2. (runtime.id + 1) % 3 \in Nat
  BY <1>1 DEF Runtime
<1>3. \/ runtime' = runtime \/ runtime' = [runtime EXCEPT !.seen = TRUE]
      \/ runtime' = [id |-> (runtime.id + 1) % 3, seen |-> FALSE]
  BY DEF RuntimeMoves, NodeReports, OtherOperation
<1>4. [id |-> (runtime.id + 1) % 3, seen |-> FALSE] \in Runtime
  BY <1>2 DEF Runtime
<1>5. [runtime EXCEPT !.seen = TRUE] \in Runtime
  BY <1>1 DEF Runtime
<1>6. runtime' \in Runtime
  BY <1>1, <1>3, <1>4, <1>5
<1> QED BY <1>1, <1>6, FrSame

(* The invariant of the check and the smoke run. It is needed because what *)
(* a verdict says was seen several steps earlier: each place of the        *)
(* workflow keeps what the steps before it proved, and the controller and  *)
(* the worker cannot take it back.                                         *)
THEOREM CheckInvariance == FrSpec => []FrInv
<1>1. FrInit => FrInv
  <2> SUFFICES ASSUME FrInit PROVE FrInv
    OBVIOUS
  <2>1. /\ "idle" \in FrPcs
        /\ "idle" \notin CheckOnly \cup SmokeOnly \cup PreSubmit \cup Following \cup Closing
        /\ "check" \in Kinds /\ 0 \in Nat /\ 1 \in Nat /\ TRUE \in BOOLEAN
    BY DEF FrPcs, CheckOnly, SmokeOnly, PreSubmit, Following, Closing, Kinds
  <2>2. Idle \in CheckShape
    BY <2>1, JobShapes, LayerNames DEF Idle, CheckShape, NoTarget, Blindness
  <2>3. /\ Idle.kind = "check" /\ Idle.pc = "idle" /\ Idle.target = NoJob
        /\ Idle.blind = "none" /\ NoJob.state \notin Terminal
    BY DEF Idle, NoTarget, NoJob, Terminal
  <2>4. Pending \in [Layers -> LayerStates] /\ Pending["cleanup"] = "pending"
    BY LayerNames DEF Pending, LayerStates
  <2>5. jobs \in [Kinds -> JobRow] /\ runtime \in Runtime
    BY <2>1, JobShapes DEF FrInit, Runtime
  <2>6. FrShape
    BY <2>2, <2>4, <2>5 DEF FrInit, FrShape
  <2>7. PlaceOK /\ EvidenceOK /\ TargetOK /\ OrphanOK
    BY <2>1, <2>3, <2>4 DEF FrInit, PlaceOK, EvidenceOK, TargetOK, OrphanOK
  <2> QED BY <2>6, <2>7 DEF FrInv
<1>2. FrInv /\ [FrNext]_frVars => FrInv'
  <2> SUFFICES ASSUME FrInv, [FrNext]_frVars PROVE FrInv'
    OBVIOUS
  <2>1. CASE CheckSteps
    BY <2>1, StartOK, PreSubmitOK, SubmitOK, PipelineOK, ClosingOK, BestEffortOK
       DEF CheckSteps
  <2>2. CASE SmokeSteps
    BY <2>2, StartOK, SmokeOK DEF SmokeSteps
  <2>3. CASE FollowJob
    BY <2>3, PollOK, EvidenceStepsOK, FinishOK DEF FollowJob
  <2>4. CASE FrEnvironment
    BY <2>4, LateCommitOK, JobMovesOK, SurroundingsOK, StartOK DEF FrEnvironment
  <2>5. CASE UNCHANGED frVars
    <3>1. UNCHANGED <<check, layers, verdict, jobs, flying>> /\ runtime' \in Runtime
      BY <2>5 DEF frVars, FrInv, FrShape
    <3> QED BY <3>1, FrSame
  <2> QED BY <2>1, <2>2, <2>3, <2>4, <2>5 DEF FrNext
<1> QED BY <1>1, <1>2, PTL DEF FrSpec

(* A passed check or smoke run is about a job that succeeded, with intact  *)
(* evidence and a removed workspace (run_workflow,                         *)
(* execute_bound_node_smoke).                                              *)
THEOREM PassesEarned == FrSpec => []PassMeansDone
<1>1. FrInv => PassMeansDone
  BY DEF FrInv, EvidenceOK, Proven, PassMeansDone
<1> QED BY <1>1, CheckInvariance, PTL

(* A failed check reports the job it leaves running, but for the three     *)
(* ways to miss it: reply and lookup both lost, a submission that arrives  *)
(* after the lookup, a reply with other ids (mcp_full_run_pipeline,        *)
(* best_effort_cleanup).                                                   *)
THEOREM OrphansReported == FrSpec => []OrphanReported
<1>1. FrInv => OrphanReported
  BY DEF FrInv, OrphanOK, PlaceOK, Orphan, OrphanReported
<1> QED BY <1>1, CheckInvariance, PTL

(* The cleanup layer is green only when the workspace of the submitted job *)
(* is gone (best_effort_cleanup, validate_success_cleanup).                *)
THEOREM CleanupsHonest == FrSpec => []CleanupLayerHonest
<1>1. FrInv => CleanupLayerHonest
  BY DEF FrInv, TargetOK, CleanupLayerHonest
<1> QED BY <1>1, CheckInvariance, PTL

-----------------------------------------------------------------------------
(* The Codex integration: shapes.                                          *)

IntPcs == {"idle", "gate", "switch", "remove", "add", "plugin", "check", "agents",
           "script", "undo", "undo_add", "undo_plugin", "undone", "drop_health",
           "recover", "stage", "aside", "swap",
           "status", "receipts", "apply", "report", "eligible"}
InstallPlaces == {"gate", "receipts", "switch", "remove", "add", "plugin", "check",
                  "agents", "script", "undo", "undo_add", "undo_plugin", "undone",
                  "drop_health"}
WritePlaces == {"recover", "stage", "aside", "swap"}
IntStages == {"none", "remove", "add", "plugin", "check", "agents", "receipt"}

IntReceipt == [ kind: {"receipt"}, by: IntRuntimes, started: Nat,
                version: Builds \cup {"current"}, seen: Nat ]
AnyReceipt == IntReceipt \cup {NoReceipt, Garbled}
StatusShape == [ state: States, drop: SUBSET {"restart", "active"}, by: AnyReceipt,
                 enabled: BOOLEAN, unread: BOOLEAN ]
OpShape == [ kind: {"none", "status", "install", "self_test"}, pc: IntPcs,
             then: IntPcs, exact: BOOLEAN, changed: BOOLEAN, before: Markets,
             catalog: Nat, stage: IntStages, file: {"restart", "health"},
             value: Nat, status: StatusShape ]
OutcomeShape == [ kind: {"none", "status", "install", "self_test"},
                  result: {"none", "ok", "failed", "repair"}, stage: IntStages,
                  before: Markets, changed: BOOLEAN, status: StatusShape ]
FileShape == [live: Nat, backups: Seq(Nat)]
BridgeShape == [alive: BOOLEAN, started: Nat, build: Builds]

IntShape ==
    /\ market \in Markets
    /\ plugin \in Plugin
    /\ payload \in [catalog: Nat, defect: Defects]
    /\ files \in [{"restart", "health"} -> FileShape]
    /\ active \in AnyReceipt
    /\ bridges \in [IntRuntimes -> BridgeShape]
    /\ op \in OpShape
    /\ outcome \in OutcomeShape
    /\ installed \in Nat /\ intClock \in Nat

(* What the place of the running operation says of its kind and of where   *)
(* it goes next; nothing is reported while it runs.                        *)
OpOK ==
    /\ op.pc \in InstallPlaces => op.kind = "install"
    /\ op.pc = "gate" => ~op.exact /\ op.stage = "none" /\ op.then = "report"
    /\ op.pc = "eligible" => op.kind = "self_test"
    /\ op.pc = "status" => op.then \in {"report", "eligible"}
    /\ op.pc = "receipts" => op.then = "switch"
    /\ op.pc = "apply" => op.then \in {"report", "eligible", "switch"}
    /\ op.pc \in {"status", "apply"} /\ op.then = "eligible" => op.kind = "self_test"
    /\ op.pc = "apply" /\ op.then = "switch" => op.kind = "install" /\ op.exact
    /\ op.pc = "receipts" => op.exact
    /\ op.pc = "drop_health" => ~op.exact /\ op.stage = "receipt"
    /\ op.pc \in WritePlaces =>
          /\ op.then = "status"
          /\ \/ /\ op.kind = "install" /\ op.file = "restart"
                /\ ~op.exact /\ op.stage = "receipt"
             \/ op.kind = "self_test" /\ op.file = "health"
    /\ op.pc # "idle" => outcome.kind = "none" /\ outcome.result = "none"

(* The registration put back: the root that was there if it is ours.       *)
PutBack(before) ==
    IF OwnedRoot(before) \/ before = "desired" THEN before ELSE "none"

(* The marketplace at every place of an install and of its undo.           *)
RollbackOK ==
    /\ op.pc \in {"receipts", "switch"} => market = op.before
    /\ op.pc = "apply" /\ op.then = "switch" => market = op.before
    /\ op.pc \in {"remove", "add", "undo", "undo_add", "undo_plugin"} =>
          op.before # "desired"
    /\ op.pc \in {"remove", "add"} => op.changed
    /\ op.pc \in {"add", "undo_add"} => market = "none"
    /\ op.pc \in {"plugin", "check", "agents", "script"} =>
          market = "desired" /\ (op.changed <=> op.before # "desired")
    /\ op.pc \in {"undo_add", "undo_plugin"} => OwnedRoot(op.before)
    /\ op.pc = "undo_plugin" => market = op.before
    /\ op.pc = "undone" =>
          /\ market = PutBack(op.before)
          /\ OwnedRoot(op.before) /\ op.stage # "add" => plugin.build = market

(* Receipts of runtimes are never ahead of the runtime that wrote them,    *)
(* and what an operation has read is never ahead of the file.              *)
ReceiptsOK ==
    /\ installed <= intClock /\ intClock >= 1
    /\ \A r \in IntRuntimes : /\ bridges[r].started <= intClock
                              /\ bridges[r].alive => bridges[r].started >= 1
    /\ IsReceipt(active) =>
          active.started >= 1 /\ active.started <= bridges[active.by].started
    /\ IsReceipt(op.status.by) =>
          /\ op.status.by.started >= 1
          /\ op.status.by.started <= bridges[op.status.by.by].started
          /\ IsReceipt(active) /\ active.by = op.status.by.by
               => op.status.by.started <= active.started

RestartFile == files["restart"]
Kept(v) ==
    \/ RestartFile.live >= v
    \/ \E i \in DOMAIN RestartFile.backups : RestartFile.backups[i] >= v

(* A runtime of after instant v, whose receipt, if it is the active one,   *)
(* says so.                                                                *)
LoadedAfter(r, v) ==
    /\ bridges[r].started > v
    /\ IsReceipt(active) /\ active.by = r => active.started > v

(* The receipt of the last complete install is kept until a later runtime  *)
(* has been seen.                                                          *)
KeptOK == installed > 0 => Kept(installed) \/ \E r \in IntRuntimes : LoadedAfter(r, installed)

(* What "connected" says, of a status read while the last install was the  *)
(* one at v, when the restart receipt was read.                            *)
ConnectedSince(s, v) ==
    \/ s.by.started > v
    \/ \E r \in IntRuntimes \ {s.by.by} : bridges[r].started > v
    \/ RestartFile.backups # << >>
    \/ s.unread

(* The install that records itself, between its receipt and its report.    *)
Recording == op.kind = "install" /\ ~op.exact /\ op.pc \in {"status", "apply", "report"}
RestartOK ==
    /\ KeptOK
    /\ (op.pc \in WritePlaces /\ op.file = "restart") \/ Recording =>
          op.value >= 1 /\ installed <= op.value /\ op.value <= intClock
    /\ op.kind = "install" /\ ~op.exact /\ ~Recording => op.status.state # "connected"
    /\ Recording /\ op.pc # "report" => RestartFile.live = op.value
    /\ Recording /\ op.status.state = "connected" /\ op.pc # "status" =>
          op.status.by.started > op.value \/ op.status.unread
    /\ Recording /\ op.pc = "report" =>
          \/ RestartFile.live = op.value
          \/ IsReceipt(op.status.by) /\ op.status.by.started > op.value
    /\ op.pc = "apply" /\ "restart" \in op.status.drop =>
          IsReceipt(op.status.by) /\ op.status.by.started > RestartFile.live
    /\ op.status.state = "connected" =>
          IsReceipt(op.status.by) /\ ConnectedSince(op.status, installed)
    /\ op.pc = "swap" => files[op.file].backups # << >> /\ files[op.file].live = Absent

IntInv ==
    /\ IntShape /\ OpOK /\ RollbackOK /\ ReceiptsOK /\ RestartOK
    /\ RollbackHonest /\ ConnectedAfterInstall

(* The resting records are well formed.                                    *)
LEMMA IntRestShapes ==
    /\ NoStatus \in StatusShape /\ ~IsReceipt(NoStatus.by)
    /\ NoStatus.state # "connected" /\ NoStatus.drop = {}
    /\ NoOp \in OpShape /\ NoOp.pc = "idle" /\ NoOp.status = NoStatus
    /\ NoOp.kind = "none"
    /\ NoOutcome \in OutcomeShape /\ NoOutcome.kind = "none"
    /\ NoOutcome.result = "none"
<1>1. NoReceipt \in AnyReceipt /\ NoReceipt.kind # "receipt"
  BY DEF AnyReceipt, NoReceipt
<1>2. /\ NoStatus \in StatusShape /\ ~IsReceipt(NoStatus.by)
      /\ NoStatus.state # "connected" /\ NoStatus.drop = {}
  BY <1>1 DEF NoStatus, StatusShape, States, IsReceipt
<1>3. /\ NoOp \in OpShape /\ NoOp.pc = "idle" /\ NoOp.status = NoStatus
      /\ NoOp.kind = "none"
  BY <1>2 DEF NoOp, OpShape, IntPcs, IntStages, Markets
<1>4. NoOutcome \in OutcomeShape /\ NoOutcome.kind = "none" /\ NoOutcome.result = "none"
  BY <1>2 DEF NoOutcome, OutcomeShape, IntStages, Markets
<1> QED
  BY <1>2, <1>3, <1>4

(* A step of the operation to a place where nothing is read, applied or    *)
(* recorded keeps what is said of the receipts.                            *)
LEMMA QuietOK ==
    ASSUME ReceiptsOK, RestartOK, UNCHANGED << files, active, bridges, installed, intClock >>,
           op'.status = op.status, ~Recording', op'.pc \notin WritePlaces \cup {"apply"},
           op'.kind = "install" /\ ~op'.exact => op.status.state # "connected"
    PROVE  ReceiptsOK' /\ RestartOK'
<1>1. ReceiptsOK'
  BY DEF ReceiptsOK
<1>3. op'.pc \notin WritePlaces /\ op'.pc # "swap" /\ op'.pc # "apply"
  BY DEF WritePlaces
<1>4. KeptOK'
  BY DEF RestartOK, KeptOK, Kept, LoadedAfter, RestartFile
<1>5. op.status.state = "connected" =>
        IsReceipt(op.status.by) /\ ConnectedSince(op.status, installed)
  BY DEF RestartOK
<1>6. (op.status.state = "connected" =>
        IsReceipt(op.status.by) /\ ConnectedSince(op.status, installed))'
  BY <1>5 DEF ConnectedSince, RestartFile
<1> QED
  BY <1>1, <1>3, <1>4, <1>6 DEF RestartOK

(* What is recorded of a restart that is due stays in the live file or in  *)
(* a rollback copy.                                                        *)
FilesKept ==
    /\ files' \in [{"restart", "health"} -> FileShape]
    /\ Kept(installed) => (Kept(installed))'
(* Files that are left alone keep it.                                      *)
LEMMA FilesSame ==
    ASSUME IntShape, UNCHANGED << files, installed >>
    PROVE  FilesKept
BY DEF FilesKept, Kept, RestartFile, IntShape
(* So does a change of the self-test result alone.                         *)
LEMMA HealthOnly ==
    ASSUME files' \in [{"restart", "health"} -> FileShape],
           files'["restart"] = files["restart"], UNCHANGED installed
    PROVE  FilesKept
BY DEF FilesKept, Kept, RestartFile
(* Kept files leave the last install's receipt where it must be.           *)
LEMMA StillKept ==
    ASSUME KeptOK, FilesKept, UNCHANGED << active, bridges, installed >>
    PROVE  KeptOK'
BY DEF KeptOK, FilesKept, LoadedAfter

(* The end of an operation that is not a recorded install.                 *)
LEMMA EndOK ==
    ASSUME ReceiptsOK, RestartOK, FilesKept,
           UNCHANGED << active, bridges, installed, intClock >>, op' = NoOp
    PROVE  op' \in OpShape /\ OpOK' /\ RollbackOK' /\ ReceiptsOK' /\ RestartOK'
<1>1. /\ op'.pc = "idle" /\ op'.kind = "none" /\ op'.status = NoStatus
      /\ ~IsReceipt(op'.status.by) /\ op'.status.state # "connected"
      /\ op' \in OpShape
  BY IntRestShapes
<1>2. ReceiptsOK'
  BY <1>1 DEF ReceiptsOK
<1>3. ~Recording' /\ op'.pc \notin WritePlaces
  BY <1>1 DEF Recording, WritePlaces
<1>4. KeptOK'
  BY StillKept DEF RestartOK
<1>5. RestartOK'
  BY <1>1, <1>3, <1>4 DEF RestartOK
<1>6. OpOK' /\ RollbackOK'
  BY <1>1 DEF OpOK, RollbackOK, InstallPlaces, WritePlaces
<1> QED
  BY <1>1, <1>2, <1>5, <1>6

(* A step of the operation that moves it and notes a stage.                *)
OpMoves(p, st) ==
    /\ op' \in OpShape /\ op'.pc = p /\ op'.stage = st
    /\ op'.kind = op.kind /\ op'.then = op.then /\ op'.exact = op.exact
    /\ op'.changed = op.changed /\ op'.before = op.before
    /\ op'.file = op.file /\ op'.value = op.value /\ op'.status = op.status
(* A step of the operation to another place.                               *)
LEMMA IntGoto ==
    ASSUME op \in OpShape, NEW p \in IntPcs, Goto(p)
    PROVE  OpMoves(p, op.stage)
BY DEF Goto, OpShape, OpMoves
(* The same with the stage it has reached.                                 *)
LEMMA IntStage ==
    ASSUME op \in OpShape, NEW p \in IntPcs, NEW st \in IntStages,
           op' = [op EXCEPT !.pc = p, !.stage = st]
    PROVE  OpMoves(p, st)
BY DEF OpShape, OpMoves
(* A failure sends the operation to the undo, if anything was changed.     *)
LEMMA IntUndo ==
    ASSUME op \in OpShape, NEW st \in IntStages, Undo(st)
    PROVE  OpMoves(IF op.changed THEN "undo" ELSE "undone", st)
<1>1. (IF op.changed THEN "undo" ELSE "undone") \in IntPcs
  BY DEF IntPcs
<1> QED
  BY <1>1, IntStage DEF Undo

(* Nothing is reported while an operation runs.                            *)
LEMMA RunningOK ==
    ASSUME IntInv, op.pc # "idle", UNCHANGED outcome
    PROVE  outcome' \in OutcomeShape /\ RollbackHonest' /\ ConnectedAfterInstall'
<1>1. outcome'.kind = "none" /\ outcome'.result = "none" /\ outcome' \in OutcomeShape
  BY DEF IntInv, OpOK, IntShape
<1> QED
  BY <1>1 DEF RollbackHonest, ConnectedAfterInstall

(* What a returning operation reports.                                     *)
LEMMA ReturnReports ==
    ASSUME IntShape, NEW res \in {"ok", "failed", "repair"}, Return(res)
    PROVE  /\ outcome' \in OutcomeShape /\ op' = NoOp
           /\ outcome'.kind = op.kind /\ outcome'.result = res
           /\ outcome'.stage = op.stage /\ outcome'.before = op.before
           /\ outcome'.status = op.status
<1>1. (op.changed \/ ~op.exact) \in BOOLEAN
  OBVIOUS
<1> QED
  BY <1>1 DEF Return, IntShape, OpShape, OutcomeShape

(* An operation that returns an error away from the undo.                  *)
LEMMA ReturnOK ==
    ASSUME IntInv, NEW res \in {"failed", "repair"}, Return(res),
           market' \in Markets, plugin' \in Plugin, FilesKept,
           UNCHANGED << active, bridges, payload, installed, intClock >>,
           \/ res = "repair"
           \/ op.kind # "install"
           \/ op.stage \notin {"add", "plugin", "check", "agents"}
    PROVE  IntInv'
<1> USE DEF IntInv
<1>1. /\ outcome' \in OutcomeShape /\ op' = NoOp
      /\ outcome'.kind = op.kind /\ outcome'.result = res
      /\ outcome'.stage = op.stage
  BY ReturnReports
<1>2. op' \in OpShape /\ OpOK' /\ RollbackOK' /\ ReceiptsOK' /\ RestartOK'
  BY <1>1, EndOK
<1>3. IntShape'
  BY <1>1, <1>2 DEF IntShape, FilesKept
<1>4. RollbackHonest' /\ ConnectedAfterInstall'
  BY <1>1 DEF RollbackHonest, ConnectedAfterInstall
<1> QED
  BY <1>2, <1>3, <1>4

(* The steps of an install that only move it.                              *)
LEMMA InstallMoveOK ==
    ASSUME IntInv, NEW p \in IntPcs, NEW st \in IntStages, OpMoves(p, st),
           op.pc \in InstallPlaces, p \in InstallPlaces \ {"gate", "receipts", "drop_health"},
           UNCHANGED << files, active, bridges, payload, installed, intClock, outcome >>,
           market' \in Markets, plugin' \in Plugin, RollbackOK'
    PROVE  IntInv'
<1> USE DEF IntInv
<1>1. op.pc # "idle" /\ op.pc \notin {"status", "apply", "report"}
      /\ op'.pc \notin WritePlaces \cup {"status", "apply", "report"}
  BY DEF InstallPlaces, WritePlaces, OpMoves
<1>6. ~Recording /\ ~Recording'
  BY <1>1 DEF Recording
<1>7. op'.kind = "install" /\ ~op'.exact => op.status.state # "connected"
  BY <1>6 DEF RestartOK, OpMoves
<1>2. ReceiptsOK' /\ RestartOK'
  BY <1>1, <1>6, <1>7, QuietOK DEF OpMoves
<1>3. outcome' \in OutcomeShape /\ RollbackHonest' /\ ConnectedAfterInstall'
  BY <1>1, RunningOK
<1>4. IntShape'
  BY <1>3 DEF IntShape, OpMoves
<1>5. OpOK'
  BY <1>1 DEF OpOK, OpMoves, InstallPlaces, WritePlaces
<1> QED
  BY <1>2, <1>3, <1>4, <1>5

(* install_or_repair up to the marketplace switch keeps the invariant.     *)
LEMMA InstallGateOK == IntInv /\ InstallGate => IntInv'
<1> SUFFICES ASSUME IntInv, InstallGate PROVE IntInv'
  OBVIOUS
<1> USE DEF IntInv
<1>1. /\ op.pc = "gate" /\ op.kind = "install" /\ ~op.exact /\ op.stage = "none"
      /\ op.then = "report"
      /\ UNCHANGED << market, plugin, files, installed, payload, bridges, active, intClock >>
  BY DEF InstallGate, At, world, OpOK, InstallPlaces
<1>2. op.pc # "idle" /\ op.status.state # "connected" /\ market \in Markets
  <2>1. ~Recording
    BY <1>1 DEF Recording
  <2> QED
    BY <1>1, <2>1 DEF RestartOK, IntShape
<1>3. CASE Return("failed")
  BY <1>1, <1>3, FilesSame, ReturnOK DEF IntShape
<1>4. CASE /\ op' \in OpShape /\ op'.kind = "install" /\ op'.status = op.status
           /\ UNCHANGED outcome
           /\ \/ op'.pc = "status" /\ op'.then = "report" /\ op'.exact
              \/ op'.pc = "receipts" /\ op'.then = "switch" /\ op'.exact
                 /\ op'.before = market
              \/ op'.pc = "switch" /\ op'.before = market
  <2>1. ~Recording' /\ op'.pc \notin WritePlaces \cup {"apply"}
    BY <1>4 DEF Recording, WritePlaces
  <2>2. ReceiptsOK' /\ RestartOK'
    BY <1>1, <1>2, <1>4, <2>1, QuietOK
  <2>3. outcome' \in OutcomeShape /\ RollbackHonest' /\ ConnectedAfterInstall'
    BY <1>2, <1>4, RunningOK
  <2>4. IntShape'
    BY <1>1, <1>4, <2>3 DEF IntShape
  <2>5. outcome'.kind = "none" /\ outcome'.result = "none"
    BY <1>2, <1>4 DEF OpOK
  <2>6. OpOK' /\ RollbackOK'
    BY <1>1, <1>4, <2>5 DEF OpOK, RollbackOK, InstallPlaces, WritePlaces
  <2> QED
    BY <2>2, <2>3, <2>4, <2>6
<1>5. CASE op' = [op EXCEPT !.pc = "status", !.exact = TRUE] /\ UNCHANGED outcome
  <2>1. /\ op' \in OpShape /\ op'.pc = "status" /\ op'.exact /\ op'.kind = "install"
        /\ op'.then = "report" /\ op'.status = op.status
    BY <1>1, <1>5 DEF IntShape, OpShape, IntPcs
  <2> QED
    BY <1>4, <1>5, <2>1
<1>6. ASSUME NEW exact \in BOOLEAN,
             op' = [op EXCEPT !.exact = exact, !.before = market,
                              !.catalog = payload.catalog,
                              !.pc = IF exact THEN "receipts" ELSE "switch",
                              !.then = IF exact THEN "switch" ELSE "report"],
             UNCHANGED outcome
      PROVE  IntInv'
  <2>0. payload.catalog \in Nat
    BY DEF IntShape
  <2>1. /\ op' \in OpShape /\ op'.kind = "install" /\ op'.status = op.status
        /\ op'.before = market /\ op'.exact = exact
        /\ op'.pc = (IF exact THEN "receipts" ELSE "switch")
        /\ op'.then = (IF exact THEN "switch" ELSE "report")
    BY <1>1, <1>2, <1>6, <2>0 DEF IntShape, OpShape, IntPcs
  <2> QED
    BY <1>4, <1>6, <2>1
<1>7. PluginExact(market, plugin) \in BOOLEAN
  BY DEF PluginExact
<1> QED
  BY <1>3, <1>5, <1>6, <1>7 DEF InstallGate

(* switch_marketplace and the commands of an install keep the invariant.   *)
LEMMA SwitchOK == IntInv /\ (SwitchMarketplace \/ RemoveMarketplace \/ AddMarketplace) => IntInv'
<1> SUFFICES ASSUME IntInv, SwitchMarketplace \/ RemoveMarketplace \/ AddMarketplace
             PROVE  IntInv'
  OBVIOUS
<1> USE DEF IntInv
<1>0. /\ op \in OpShape /\ market \in Markets /\ plugin \in Plugin
      /\ UNCHANGED << plugin, files, installed, payload, bridges, active, intClock >>
  BY DEF SwitchMarketplace, RemoveMarketplace, AddMarketplace, world, IntShape
<1>1. CASE SwitchMarketplace
  <2>1. op.pc = "switch" /\ op.kind = "install" /\ market = op.before
        /\ UNCHANGED << market, outcome >>
    BY <1>1 DEF SwitchMarketplace, At, OpOK, RollbackOK, InstallPlaces
  <2> DEFINE p == CASE SamePath(market, "desired") -> "plugin"
                    [] market = "none" -> "add"
                    [] OTHER -> "remove"
  <2>2. /\ market = "desired" => p = "plugin"
        /\ market = "none" => p = "add"
        /\ market \notin {"desired", "none"} => p = "remove"
    BY DEF SamePath
  <2>3. op' = [op EXCEPT !.pc = p, !.then = "report", !.changed = ~(market = "desired")]
    BY <1>1 DEF SwitchMarketplace, SamePath
  <2> HIDE DEF p
  <2>4. p \in {"plugin", "add", "remove"} /\ p \in IntPcs
    BY <2>2 DEF IntPcs
  <2>5. /\ op' \in OpShape /\ op'.pc = p /\ op'.then = "report"
        /\ op'.changed = ~(market = "desired")
        /\ op'.kind = "install" /\ op'.before = market /\ op'.exact = op.exact
        /\ op'.status = op.status
    BY <1>0, <2>1, <2>3, <2>4 DEF OpShape, IntPcs
  <2>6. op.pc # "idle" /\ ~Recording /\ ~Recording'
        /\ op'.pc \notin WritePlaces \cup {"apply"}
    BY <2>1, <2>4, <2>5 DEF Recording, WritePlaces
  <2>7. ReceiptsOK' /\ RestartOK'
    <3>1. op'.kind = "install" /\ ~op'.exact => op.status.state # "connected"
      BY <2>1, <2>5, <2>6 DEF RestartOK
    <3> QED
      BY <1>0, <2>5, <2>6, <3>1, QuietOK
  <2>8. outcome' \in OutcomeShape /\ RollbackHonest' /\ ConnectedAfterInstall'
    BY <2>1, <2>6, RunningOK
  <2>9. IntShape'
    BY <1>0, <2>1, <2>5, <2>8 DEF IntShape
  <2>10. outcome'.kind = "none" /\ outcome'.result = "none"
    BY <2>1, <2>6 DEF OpOK
  <2>11. OpOK' /\ RollbackOK'
    BY <2>1, <2>2, <2>4, <2>5, <2>10 DEF OpOK, RollbackOK, InstallPlaces, WritePlaces
  <2> QED
    BY <2>7, <2>8, <2>9, <2>11
<1>2. CASE RemoveMarketplace
  <2>1. op.pc = "remove" /\ op.kind = "install" /\ op.before # "desired" /\ op.changed
    BY <1>2 DEF RemoveMarketplace, At, OpOK, RollbackOK, InstallPlaces
  <2>2. market' \in Markets
    BY <1>0, <1>2 DEF RemoveMarketplace, Command, Markets
  <2>3. CASE market' = "none" /\ Goto("add") /\ UNCHANGED outcome
    <3>1. OpMoves("add", op.stage)
      BY <1>0, <2>3, IntGoto DEF IntPcs
    <3>2. RollbackOK'
      BY <2>1, <2>3, <3>1 DEF RollbackOK, OpMoves
    <3> QED
      BY <1>0, <2>1, <2>2, <2>3, <3>1, <3>2, InstallMoveOK DEF InstallPlaces, IntPcs, OpShape
  <2>4. CASE op' = NoOp /\ outcome' = [NoOutcome EXCEPT !.kind = "install",
                               !.result = "failed", !.stage = "remove",
                               !.before = op.before]
    <3>1. op' \in OpShape /\ OpOK' /\ RollbackOK' /\ ReceiptsOK' /\ RestartOK'
      BY <1>0, <2>4, FilesSame, EndOK
    <3>2. outcome' \in OutcomeShape /\ outcome'.result = "failed" /\ outcome'.stage = "remove"
      BY <1>0, <2>4, IntRestShapes DEF OutcomeShape, OpShape, IntStages
    <3>3. IntShape'
      BY <1>0, <2>2, <3>1, <3>2 DEF IntShape
    <3> QED
      BY <3>1, <3>2, <3>3 DEF RollbackHonest, ConnectedAfterInstall
  <2> QED
    BY <1>2, <2>3, <2>4 DEF RemoveMarketplace, Command
<1>3. CASE AddMarketplace
  <2>1. op.pc = "add" /\ op.kind = "install" /\ op.before # "desired" /\ op.changed
        /\ market = "none" /\ UNCHANGED outcome
    BY <1>3 DEF AddMarketplace, At, OpOK, RollbackOK, InstallPlaces
  <2>2. market' \in Markets
    BY <1>0, <1>3 DEF AddMarketplace, Command, Markets
  <2>3. CASE market' = "desired" /\ op' = [op EXCEPT !.pc = "plugin", !.stage = "plugin"]
    <3>1. OpMoves("plugin", "plugin")
      BY <1>0, <2>3, IntStage DEF IntPcs, IntStages
    <3>2. RollbackOK'
      BY <2>1, <2>3, <3>1 DEF RollbackOK, OpMoves
    <3> QED
      BY <1>0, <2>1, <2>2, <2>3, <3>1, <3>2, InstallMoveOK DEF InstallPlaces, IntPcs, IntStages
  <2>4. CASE op' = [op EXCEPT !.pc = "undo", !.stage = "add"]
    <3>1. OpMoves("undo", "add")
      BY <1>0, <2>4, IntStage DEF IntPcs, IntStages
    <3>2. RollbackOK'
      BY <2>1, <3>1 DEF RollbackOK, OpMoves
    <3> QED
      BY <1>0, <2>1, <2>2, <3>1, <3>2, InstallMoveOK DEF InstallPlaces, IntPcs, IntStages
  <2> QED
    BY <1>3, <2>3, <2>4 DEF AddMarketplace, Command
<1> QED
  BY <1>1, <1>2, <1>3

(* The plugin's registration and the checks after it.                      *)
LEMMA PluginStepsOK == IntInv /\ (AddPlugin \/ CheckPlugin) => IntInv'
<1> SUFFICES ASSUME IntInv, AddPlugin \/ CheckPlugin PROVE IntInv'
  OBVIOUS
<1> USE DEF IntInv
<1>0. /\ op \in OpShape /\ market \in Markets /\ plugin \in Plugin
      /\ UNCHANGED << market, files, installed, payload, bridges, active, intClock, outcome >>
  BY DEF AddPlugin, CheckPlugin, world, IntShape
<1>1. op.pc \in {"plugin", "check"} /\ op.pc \in InstallPlaces
      /\ market = "desired" /\ (op.changed <=> op.before # "desired")
  BY DEF AddPlugin, CheckPlugin, At, InstallPlaces, RollbackOK
<1>2. plugin' \in Plugin
  <2>1. [build |-> market, enabled |-> TRUE, sound |-> TRUE] \in Plugin
    BY <1>1 DEF Plugin, Builds
  <2>2. \/ UNCHANGED plugin
        \/ plugin' = [build |-> market, enabled |-> TRUE, sound |-> TRUE]
    BY DEF AddPlugin, CheckPlugin, Command
  <2> QED
    BY <1>0, <2>1, <2>2
<1>3. ASSUME NEW p \in {"check", "agents"}, Goto(p) PROVE IntInv'
  <2>1. OpMoves(p, op.stage) /\ p \in IntPcs /\ p \in InstallPlaces \ {"gate", "receipts", "drop_health"}
    BY <1>0, <1>3, IntGoto DEF IntPcs, InstallPlaces
  <2>2. RollbackOK'
    BY <1>0, <1>1, <2>1 DEF RollbackOK, OpMoves
  <2> QED
    BY <1>0, <1>1, <1>2, <2>1, <2>2, InstallMoveOK DEF OpShape
<1>4. ASSUME NEW st \in {"plugin", "check"}, Undo(st) PROVE IntInv'
  <2> DEFINE p == IF op.changed THEN "undo" ELSE "undone"
  <2>1. OpMoves(p, st) /\ p \in IntPcs /\ p \in InstallPlaces \ {"gate", "receipts", "drop_health"}
        /\ st \in IntStages
    BY <1>0, <1>4, IntUndo DEF IntPcs, InstallPlaces, IntStages
  <2>2. RollbackOK'
    <3>1. op'.pc = p /\ op'.before = op.before /\ op'.changed = op.changed
      BY <2>1 DEF OpMoves
    <3> QED
      BY <1>0, <1>1, <3>1 DEF RollbackOK, PutBack, OwnedRoot
  <2> HIDE DEF p
  <2> QED
    BY <1>0, <1>1, <1>2, <2>1, <2>2, InstallMoveOK
<1> QED
  BY <1>3, <1>4 DEF AddPlugin, CheckPlugin, Command

(* integrate_global_agents and the removal of the old self-test result.    *)
LEMMA AgentsOK ==
    IntInv /\ (VerifyBootstrap \/ IntegrateAgents \/ DropHealth) => IntInv'
<1> SUFFICES ASSUME IntInv, VerifyBootstrap \/ IntegrateAgents \/ DropHealth PROVE IntInv'
  OBVIOUS
<1> USE DEF IntInv
<1>0. /\ op \in OpShape /\ market \in Markets /\ plugin \in Plugin
      /\ UNCHANGED << market, plugin, installed, payload, bridges, active, intClock, outcome >>
  BY DEF VerifyBootstrap, IntegrateAgents, DropHealth, world, IntShape
<1>1. CASE VerifyBootstrap \/ IntegrateAgents
  <2>1. /\ op.pc \in {"agents", "script"} /\ op.pc \in InstallPlaces /\ op.kind = "install"
        /\ market = "desired" /\ (op.changed <=> op.before # "desired") /\ UNCHANGED files
    BY <1>1 DEF VerifyBootstrap, IntegrateAgents, At, InstallPlaces, RollbackOK, OpOK
  <2>2. CASE Undo("agents")
    <3> DEFINE p == IF op.changed THEN "undo" ELSE "undone"
    <3>1. /\ OpMoves(p, "agents") /\ p \in IntPcs
          /\ p \in InstallPlaces \ {"gate", "receipts", "drop_health"}
          /\ "agents" \in IntStages
      BY <1>0, <2>2, IntUndo DEF IntPcs, InstallPlaces, IntStages
    <3>2. RollbackOK'
      <4>1. op'.pc = p /\ op'.before = op.before /\ op'.changed = op.changed
        BY <3>1 DEF OpMoves
      <4> QED
        BY <1>0, <2>1, <4>1 DEF RollbackOK, PutBack, OwnedRoot
    <3> HIDE DEF p
    <3> QED
      BY <1>0, <2>1, <3>1, <3>2, InstallMoveOK
  <2>3. CASE op' = [op EXCEPT !.stage = "receipt",
                              !.pc = IF op.exact THEN "status" ELSE "drop_health",
                              !.then = "report"]
    <3>1. /\ op' \in OpShape /\ op'.pc = (IF op.exact THEN "status" ELSE "drop_health")
          /\ op'.kind = "install" /\ op'.exact = op.exact /\ op'.then = "report"
          /\ op'.stage = "receipt" /\ op'.status = op.status
      <4> DEFINE p == IF op.exact THEN "status" ELSE "drop_health"
      <4>1. p \in IntPcs /\ "report" \in IntPcs /\ "receipt" \in IntStages
        BY DEF IntPcs, IntStages
      <4> HIDE DEF p
      <4>2. op' = [op EXCEPT !.stage = "receipt", !.pc = p, !.then = "report"]
        BY <2>3 DEF p
      <4>3. /\ op' \in OpShape /\ op'.pc = p /\ op'.kind = op.kind /\ op'.exact = op.exact
            /\ op'.then = "report" /\ op'.stage = "receipt" /\ op'.status = op.status
        BY <1>0, <4>1, <4>2 DEF OpShape
      <4> QED
        BY <2>1, <4>3 DEF p
    <3>2. op.pc # "idle" /\ ~Recording /\ ~Recording'
          /\ op'.pc \notin WritePlaces \cup {"apply"}
      BY <2>1, <3>1 DEF Recording, WritePlaces
    <3>3. op'.kind = "install" /\ ~op'.exact => op.status.state # "connected"
      BY <2>1, <3>1, <3>2 DEF RestartOK
    <3>4. ReceiptsOK' /\ RestartOK'
      BY <1>0, <2>1, <3>1, <3>2, <3>3, QuietOK
    <3>5. outcome' \in OutcomeShape /\ RollbackHonest' /\ ConnectedAfterInstall'
      BY <1>0, <3>2, RunningOK
    <3>6. IntShape'
      BY <1>0, <2>1, <3>1, <3>5 DEF IntShape
    <3>7. outcome'.kind = "none" /\ outcome'.result = "none"
      BY <1>0, <3>2 DEF OpOK
    <3>8. OpOK' /\ RollbackOK'
      BY <3>1, <3>7 DEF OpOK, RollbackOK, InstallPlaces, WritePlaces
    <3> QED
      BY <3>4, <3>5, <3>6, <3>8
  <2>4. CASE op' = [op EXCEPT !.pc = "script", !.catalog = payload.catalog]
    <3>1. payload.catalog \in Nat
      BY DEF IntShape
    <3>2. /\ op' \in OpShape /\ op'.pc = "script" /\ op'.kind = "install"
          /\ op'.exact = op.exact /\ op'.stage = op.stage /\ op'.status = op.status
          /\ op'.before = op.before /\ op'.changed = op.changed /\ op'.then = op.then
      BY <1>0, <2>1, <2>4, <3>1 DEF OpShape, IntPcs
    <3>3. op.pc # "idle" /\ ~Recording /\ ~Recording'
          /\ op'.pc \notin WritePlaces \cup {"apply"}
      BY <2>1, <3>2 DEF Recording, WritePlaces
    <3>4. op'.kind = "install" /\ ~op'.exact => op.status.state # "connected"
      BY <2>1, <3>2, <3>3 DEF RestartOK
    <3>5. ReceiptsOK' /\ RestartOK'
      BY <1>0, <2>1, <3>2, <3>3, <3>4, QuietOK
    <3>6. outcome' \in OutcomeShape /\ RollbackHonest' /\ ConnectedAfterInstall'
      BY <1>0, <3>3, RunningOK
    <3>7. IntShape'
      BY <1>0, <2>1, <3>2, <3>6 DEF IntShape
    <3>8. outcome'.kind = "none" /\ outcome'.result = "none"
      BY <1>0, <3>3 DEF OpOK
    <3>9. OpOK' /\ RollbackOK'
      BY <1>0, <2>1, <3>2, <3>8 DEF OpOK, RollbackOK, InstallPlaces, WritePlaces
    <3> QED
      BY <3>5, <3>6, <3>7, <3>9
  <2>5. Undo("agents")
        \/ op' = [op EXCEPT !.pc = "script", !.catalog = payload.catalog]
        \/ op' = [op EXCEPT !.stage = "receipt",
                            !.pc = IF op.exact THEN "status" ELSE "drop_health",
                            !.then = "report"]
    <3> HIDE DEF IntInv
    <3>1. CASE VerifyBootstrap
      BY <3>1 DEF VerifyBootstrap
    <3>2. CASE IntegrateAgents
      BY <3>2, Zenon DEF IntegrateAgents
    <3> QED
      BY <1>1, <3>1, <3>2
  <2> QED
    BY <2>2, <2>3, <2>4, <2>5
<1>2. CASE DropHealth
  <2>1. op.pc = "drop_health" /\ op.kind = "install" /\ ~op.exact /\ op.stage = "receipt"
    BY <1>2 DEF DropHealth, At, OpOK, InstallPlaces
  <2>2. /\ op' \in OpShape /\ op'.pc = "recover" /\ op'.kind = "install" /\ ~op'.exact
        /\ op'.then = "status" /\ op'.file = "restart" /\ op'.value = intClock
        /\ op'.stage = op.stage /\ op'.status = op.status
    BY <1>0, <1>2, <2>1 DEF DropHealth, OpShape, IntPcs, IntShape
  <2>3. files' \in [{"restart", "health"} -> FileShape] /\ files'["restart"] = files["restart"]
    <3>1. files \in [{"restart", "health"} -> FileShape] /\ files["health"] \in FileShape
      BY DEF IntShape
    <3>2. [files["health"] EXCEPT !.live = Absent] \in FileShape
      BY <3>1 DEF FileShape, Absent
    <3>3. \/ UNCHANGED files
          \/ files' = [files EXCEPT !["health"] = [files["health"] EXCEPT !.live = Absent]]
      BY <1>2 DEF DropHealth
    <3> HIDE DEF IntInv
    <3> QED
      BY <3>1, <3>2, <3>3
  <2>4. op.pc # "idle" /\ ~Recording /\ ~Recording'
    BY <2>1, <2>2 DEF Recording
  <2>5. outcome' \in OutcomeShape /\ RollbackHonest' /\ ConnectedAfterInstall'
    BY <1>0, <2>4, RunningOK
  <2>6. IntShape'
    BY <1>0, <2>2, <2>3, <2>5 DEF IntShape
  <2>7. outcome'.kind = "none" /\ outcome'.result = "none"
    BY <1>0, <2>4 DEF OpOK
  <2>8. OpOK' /\ RollbackOK'
    BY <2>1, <2>2, <2>7 DEF OpOK, RollbackOK, InstallPlaces, WritePlaces
  <2>9. ReceiptsOK'
    BY <1>0, <2>2 DEF ReceiptsOK
  <2>10. op.status.state # "connected"
    BY <2>1, <2>4 DEF RestartOK
  <2>11. KeptOK'
    BY <1>0, <2>3 DEF RestartOK, KeptOK, Kept, LoadedAfter, RestartFile
  <2>12. op'.value >= 1 /\ installed' <= op'.value /\ op'.value <= intClock'
    BY <1>0, <2>2 DEF ReceiptsOK, IntShape
  <2>13. RestartOK'
    BY <2>2, <2>4, <2>10, <2>11, <2>12 DEF RestartOK
  <2> QED
    BY <2>5, <2>6, <2>8, <2>9, <2>13
<1> QED
  BY <1>1, <1>2

(* The undo keeps the invariant: an undo command that fails ends in a      *)
(* repair requirement, and what remains is the registration put back.      *)
LEMMA UndoStepsOK ==
    IntInv /\ (UndoMarketplace \/ UndoAdd \/ UndoPlugin \/ Undone) => IntInv'
<1> SUFFICES ASSUME IntInv, UndoMarketplace \/ UndoAdd \/ UndoPlugin \/ Undone PROVE IntInv'
  OBVIOUS
<1> USE DEF IntInv
<1>0. /\ op \in OpShape /\ market \in Markets /\ plugin \in Plugin
      /\ UNCHANGED << files, installed, payload, bridges, active, intClock >>
  BY DEF UndoMarketplace, UndoAdd, UndoPlugin, Undone, world, IntShape
<1>1. market' \in Markets /\ plugin' \in Plugin
  <2>1. [build |-> market, enabled |-> TRUE, sound |-> TRUE] \in Plugin
    BY <1>0 DEF Plugin, Builds, Markets
  <2>2. \/ UNCHANGED plugin
        \/ plugin' = [build |-> market, enabled |-> TRUE, sound |-> TRUE]
    BY DEF UndoMarketplace, UndoAdd, UndoPlugin, Undone, Command
  <2>3. market' \in {"none", op.before, market}
    BY DEF UndoMarketplace, UndoAdd, UndoPlugin, Undone, Command
  <2>4. "none" \in Markets /\ op.before \in Markets
    BY <1>0 DEF Markets, OpShape
  <2> QED
    BY <1>0, <2>1, <2>2, <2>3, <2>4
<1>2. CASE Return("repair")
  BY <1>0, <1>1, <1>2, FilesSame, ReturnOK
<1>3. ASSUME NEW p \in {"undo_add", "undo_plugin", "undone"}, Goto(p), UNCHANGED outcome,
             op.pc \in {"undo", "undo_add", "undo_plugin"},
             OpMoves(p, op.stage) => RollbackOK'
      PROVE  IntInv'
  <2>1. /\ OpMoves(p, op.stage) /\ p \in IntPcs
        /\ p \in InstallPlaces \ {"gate", "receipts", "drop_health"}
        /\ op.pc \in InstallPlaces /\ op.stage \in IntStages
    BY <1>0, <1>3, IntGoto DEF IntPcs, InstallPlaces, OpShape
  <2> QED
    BY <1>0, <1>1, <1>3, <2>1, InstallMoveOK
<1>4. CASE UndoMarketplace
  <2>1. op.pc = "undo" /\ op.before # "desired" /\ UNCHANGED plugin
    BY <1>4 DEF UndoMarketplace, At, RollbackOK
  <2>2. CASE market' = "none" /\ UNCHANGED outcome
             /\ Goto(IF OwnedRoot(op.before) THEN "undo_add" ELSE "undone")
    <3> DEFINE p == IF OwnedRoot(op.before) THEN "undo_add" ELSE "undone"
    <3>1. OpMoves(p, op.stage) => RollbackOK'
      BY <2>1, <2>2 DEF RollbackOK, OpMoves, PutBack, OwnedRoot
    <3> QED
      BY <1>3, <2>1, <2>2, <3>1
  <2> QED
    BY <1>2, <1>4, <2>2 DEF UndoMarketplace, Command
<1>5. CASE UndoAdd
  <2>1. op.pc = "undo_add" /\ op.before # "desired" /\ OwnedRoot(op.before) /\ UNCHANGED plugin
    BY <1>5 DEF UndoAdd, At, RollbackOK
  <2>2. CASE market' = op.before /\ UNCHANGED outcome
             /\ Goto(IF op.stage = "add" THEN "undone" ELSE "undo_plugin")
    <3> DEFINE p == IF op.stage = "add" THEN "undone" ELSE "undo_plugin"
    <3>1. OpMoves(p, op.stage) => RollbackOK'
      BY <2>1, <2>2 DEF RollbackOK, OpMoves, PutBack, OwnedRoot
    <3> QED
      BY <1>3, <2>1, <2>2, <3>1
  <2> QED
    BY <1>2, <1>5, <2>2 DEF UndoAdd, Command
<1>6. CASE UndoPlugin
  <2>1. op.pc = "undo_plugin" /\ op.before # "desired" /\ OwnedRoot(op.before)
        /\ UNCHANGED market /\ market = op.before
    BY <1>6 DEF UndoPlugin, At, RollbackOK
  <2>2. CASE plugin' = [build |-> market, enabled |-> TRUE, sound |-> TRUE]
             /\ UNCHANGED outcome /\ Goto("undone")
    <3>0. plugin'.build = market'
      BY <2>1, <2>2
    <3>1. OpMoves("undone", op.stage) => RollbackOK'
      BY <2>1, <3>0 DEF RollbackOK, OpMoves, PutBack, OwnedRoot
    <3> QED
      BY <1>3, <2>1, <2>2, <3>1
  <2> QED
    BY <1>2, <1>6, <2>2 DEF UndoPlugin, Command
<1>7. CASE Undone
  <2>1. op.pc = "undone" /\ op.kind = "install" /\ Return("failed") /\ UNCHANGED << market, plugin >>
    BY <1>7 DEF Undone, At, OpOK, InstallPlaces
  <2>2. /\ outcome' \in OutcomeShape /\ op' = NoOp
        /\ outcome'.result = "failed"
        /\ outcome'.stage = op.stage /\ outcome'.before = op.before
    BY <2>1, ReturnReports
  <2>3. op' \in OpShape /\ OpOK' /\ RollbackOK' /\ ReceiptsOK' /\ RestartOK'
    BY <1>0, <2>2, FilesSame, EndOK
  <2>4. IntShape'
    BY <1>0, <1>1, <2>2, <2>3 DEF IntShape
  <2>5. /\ market = PutBack(op.before)
        /\ OwnedRoot(op.before) /\ op.stage # "add" => plugin.build = market
    BY <2>1 DEF RollbackOK
  <2>6. RollbackHonest' /\ ConnectedAfterInstall'
    BY <2>1, <2>2, <2>5 DEF RollbackHonest, ConnectedAfterInstall, PutBack
  <2> QED
    BY <2>3, <2>4, <2>6
<1> QED
  BY <1>4, <1>5, <1>6, <1>7

(* write_atomic_json moves on.                                             *)
LEMMA WriteMoveOK ==
    ASSUME IntInv, op.pc \in WritePlaces, NEW p \in {"stage", "aside", "swap"}, Goto(p),
           FilesKept, op.file = "health" => files'["restart"] = files["restart"],
           p = "swap" => files'[op.file].backups # << >> /\ files'[op.file].live = Absent,
           UNCHANGED << market, plugin, outcome, active, bridges, payload, installed, intClock >>
    PROVE  IntInv'
<1> USE DEF IntInv
<1>1. OpMoves(p, op.stage)
  BY IntGoto DEF IntShape, IntPcs
<1>2. /\ op'.pc = p /\ op'.stage = op.stage /\ op'.kind = op.kind /\ op'.then = op.then
      /\ op'.exact = op.exact /\ op'.file = op.file /\ op'.value = op.value
      /\ op'.status = op.status /\ op' \in OpShape
  BY <1>1 DEF OpMoves
<1>3. op.pc # "idle" /\ op'.pc \in WritePlaces /\ op.pc \notin {"status", "apply", "report"}
  BY <1>2 DEF WritePlaces
<1>4. outcome' \in OutcomeShape /\ RollbackHonest' /\ ConnectedAfterInstall'
  BY <1>3, RunningOK
<1>5. IntShape'
  BY <1>2, <1>4 DEF IntShape, FilesKept
<1>6. OpOK' /\ RollbackOK'
  BY <1>2, <1>3 DEF OpOK, RollbackOK, WritePlaces, InstallPlaces
<1>7. ReceiptsOK'
  BY <1>2 DEF ReceiptsOK
<1>8. ~Recording /\ ~Recording'
  BY <1>2, <1>3 DEF Recording
<1>9. KeptOK'
  BY StillKept DEF RestartOK
<1>10. op.status.state = "connected" => op.file = "health"
  BY <1>3, <1>8 DEF RestartOK, OpOK
<1>11. (op.status.state = "connected" =>
          IsReceipt(op.status.by) /\ ConnectedSince(op.status, installed))'
  <2>1. op.status.state = "connected" =>
          IsReceipt(op.status.by) /\ ConnectedSince(op.status, installed)
    BY DEF RestartOK
  <2> QED
    BY <1>2, <1>10, <2>1 DEF ConnectedSince, RestartFile
<1>12. RestartOK'
  BY <1>2, <1>3, <1>8, <1>9, <1>11 DEF RestartOK
<1> QED
  BY <1>4, <1>5, <1>6, <1>7, <1>12

(* write_atomic_json returns: the new value is live.                       *)
LEMMA WrittenOK ==
    ASSUME IntInv, op.pc \in WritePlaces, Written, files'[op.file].live = op.value,
           FilesKept, op.file = "health" => files'["restart"] = files["restart"],
           UNCHANGED << market, plugin, outcome, active, bridges, payload, installed, intClock >>
    PROVE  IntInv'
<1> USE DEF IntInv
<1>1. op.then = "status"
  BY DEF OpOK
<1>2. /\ op'.pc = "status" /\ op'.then = "report" /\ op'.kind = op.kind
      /\ op'.exact = op.exact /\ op'.file = op.file /\ op'.value = op.value
      /\ op'.status = op.status /\ op' \in OpShape
  BY <1>1 DEF Written, IntShape, OpShape, IntPcs
<1>3. op.pc # "idle" /\ op.pc \notin {"status", "apply", "report"}
  BY DEF WritePlaces
<1>4. outcome' \in OutcomeShape /\ RollbackHonest' /\ ConnectedAfterInstall'
  BY <1>3, RunningOK
<1>5. IntShape'
  BY <1>2, <1>4 DEF IntShape, FilesKept
<1>6. OpOK' /\ RollbackOK'
  BY <1>2, <1>3 DEF OpOK, RollbackOK, WritePlaces, InstallPlaces
<1>7. ReceiptsOK'
  BY <1>2 DEF ReceiptsOK
<1>8. ~Recording
  BY <1>3 DEF Recording
<1>9. KeptOK'
  BY StillKept DEF RestartOK
<1>10. op.status.state = "connected" => op.file = "health"
  BY <1>3, <1>8 DEF RestartOK, OpOK
<1>11. (op.status.state = "connected" =>
          IsReceipt(op.status.by) /\ ConnectedSince(op.status, installed))'
  <2>1. op.status.state = "connected" =>
          IsReceipt(op.status.by) /\ ConnectedSince(op.status, installed)
    BY DEF RestartOK
  <2> QED
    BY <1>2, <1>10, <2>1 DEF ConnectedSince, RestartFile
<1>12. Recording' => op.file = "restart"
  BY <1>2 DEF Recording, OpOK
<1>13. Recording' => /\ op'.value >= 1 /\ installed' <= op'.value /\ op'.value <= intClock'
                     /\ RestartFile'.live = op'.value
  BY <1>2, <1>12 DEF RestartOK, RestartFile
<1>14. op'.pc \notin WritePlaces
  BY <1>2 DEF WritePlaces
<1>15. (op.kind = "install" /\ ~op.exact /\ ~Recording => op.status.state # "connected")'
  BY <1>2 DEF Recording
<1>16. RestartOK'
  BY <1>2, <1>9, <1>11, <1>13, <1>14, <1>15 DEF RestartOK
<1> QED
  BY <1>4, <1>5, <1>6, <1>7, <1>16

(* The file written is the one the operation names.                        *)
LEMMA SetFileKeeps ==
    ASSUME IntShape, NEW f \in FileShape, SetFile(f), UNCHANGED installed,
           op.file = "restart" /\ Kept(installed) =>
              \/ f.live >= installed
              \/ \E i \in DOMAIN f.backups : f.backups[i] >= installed
    PROVE  /\ FilesKept /\ files'[op.file] = f
           /\ op.file = "health" => files'["restart"] = files["restart"]
<1>1. op.file \in {"restart", "health"} /\ files \in [{"restart", "health"} -> FileShape]
  BY DEF IntShape, OpShape
<1>2. files' \in [{"restart", "health"} -> FileShape] /\ files'[op.file] = f
      /\ \A g \in {"restart", "health"} : g # op.file => files'[g] = files[g]
  BY <1>1 DEF SetFile
<1>3. op.file = "health" => files'["restart"] = files["restart"]
  BY <1>2
<1>4. CASE op.file = "health"
  BY <1>2, <1>3, <1>4, HealthOnly
<1>5. CASE op.file = "restart"
  BY <1>2, <1>5 DEF FilesKept, Kept, RestartFile
<1> QED
  BY <1>1, <1>2, <1>3, <1>4, <1>5

(* A receipt being written is not older than the last complete install.    *)
LEMMA WritingLater ==
    ASSUME IntInv, op.pc \in WritePlaces, op.file = "restart"
    PROVE  op.value >= installed
BY DEF IntInv, RestartOK, IntShape, OpShape

(* Every step of write_atomic_json keeps the invariant.                    *)
LEMMA WriteFileOK == IntInv /\ WriteFile => IntInv'
<1> SUFFICES ASSUME IntInv, WriteFile PROVE IntInv'
  OBVIOUS
<1>0. /\ UNCHANGED << market, plugin, active, bridges, payload, installed, intClock >>
      /\ op.pc \in WritePlaces
  BY DEF WriteFile, RecoverBackup, StageAndRename, MoveAside, SwapIn, world, At, WritePlaces
<1>1. /\ IntShape /\ op.pc # "idle" /\ market' \in Markets /\ plugin' \in Plugin
      /\ files[op.file] \in FileShape /\ op.value \in Nat /\ installed \in Nat
      /\ File.live \in Nat /\ File.backups \in Seq(Nat)
  BY <1>0 DEF IntInv, IntShape, OpShape, WritePlaces, FileShape, File
<1>2. op.kind # "install" \/ op.stage \notin {"add", "plugin", "check", "agents"}
  BY <1>0 DEF IntInv, OpOK
<1>3. op.file = "restart" => op.value >= installed
  BY <1>0, WritingLater
<1>4. ASSUME NEW res \in {"failed", "repair"}, Return(res), FilesKept PROVE IntInv'
  BY <1>0, <1>1, <1>2, <1>4, ReturnOK
<1>5. ASSUME NEW res \in {"failed", "repair"}, Return(res), UNCHANGED files PROVE IntInv'
  BY <1>0, <1>1, <1>4, <1>5, FilesSame
<1>6. op.file = "restart" =>
         (Kept(installed) <=> \/ File.live >= installed
                              \/ \E i \in DOMAIN File.backups : File.backups[i] >= installed)
  BY DEF Kept, RestartFile, File
<1>7. CASE RecoverBackup
  <2>1. CASE Goto("stage") /\ UNCHANGED << files, outcome >>
    BY <1>0, <1>1, <2>1, FilesSame, WriteMoveOK
  <2>2. CASE /\ Len(File.backups) = 1 /\ UNCHANGED outcome /\ Goto("stage")
             /\ File.live = Absent
             /\ SetFile([live |-> Head(File.backups), backups |-> << >>])
    <3> DEFINE f == [live |-> Head(File.backups), backups |-> << >>]
    <3>1. /\ Head(File.backups) = File.backups[1] /\ File.backups[1] \in Nat
          /\ DOMAIN File.backups = {1}
      BY <1>1, <2>2
    <3>2. f \in FileShape
      BY <3>1 DEF FileShape
    <3>3. op.file = "restart" /\ Kept(installed) => f.live >= installed
      BY <1>1, <1>6, <2>2, <3>1 DEF Absent
    <3>4. FilesKept /\ (op.file = "health" => files'["restart"] = files["restart"])
      BY <1>0, <1>1, <2>2, <3>2, <3>3, SetFileKeeps
    <3> QED
      BY <1>0, <2>2, <3>4, WriteMoveOK
  <2>3. Len(File.backups) \in Nat /\ (File.backups # << >> => Len(File.backups) > 0)
    BY <1>1
  <2>4. \/ Goto("stage") /\ UNCHANGED << files, outcome >>
        \/ Return("repair") /\ UNCHANGED files
        \/ /\ Len(File.backups) = 1 /\ UNCHANGED outcome /\ Goto("stage")
           /\ File.live = Absent
           /\ SetFile([live |-> Head(File.backups), backups |-> << >>])
    <3>1. CASE File.live # Absent \/ File.backups = << >>
      BY <1>7, <3>1 DEF RecoverBackup
    <3>2. CASE ~(File.live # Absent \/ File.backups = << >>) /\ Len(File.backups) > 1
      BY <1>7, <3>2 DEF RecoverBackup
    <3>3. CASE ~(File.live # Absent \/ File.backups = << >>) /\ ~(Len(File.backups) > 1)
      <4>0. \A n \in Nat : n > 0 /\ ~(n > 1) => n = 1
        OBVIOUS
      <4>1. Len(File.backups) = 1
        BY <2>3, <3>3, <4>0, Zenon
      <4> QED
        BY <1>7, <3>3, <4>1 DEF RecoverBackup
    <3> QED
      BY <3>1, <3>2, <3>3
  <2> QED
    BY <1>5, <2>1, <2>2, <2>4
<1>8. CASE StageAndRename
  <2>1. CASE SetFile([File EXCEPT !.live = op.value]) /\ Written /\ UNCHANGED outcome
    <3> DEFINE f == [File EXCEPT !.live = op.value]
    <3>1. f \in FileShape /\ f.live = op.value
      BY <1>1 DEF FileShape, File
    <3>2. /\ FilesKept /\ files'[op.file] = f
          /\ op.file = "health" => files'["restart"] = files["restart"]
      BY <1>0, <1>1, <1>3, <2>1, <3>1, SetFileKeeps
    <3> QED
      BY <1>0, <2>1, <3>1, <3>2, WrittenOK
  <2>2. CASE UNCHANGED files /\ Goto("aside") /\ UNCHANGED outcome
    BY <1>0, <1>1, <2>2, FilesSame, WriteMoveOK
  <2> QED
    BY <1>5, <1>8, <2>1, <2>2 DEF StageAndRename
<1>9. CASE MoveAside
  <2>1. CASE /\ SetFile([live |-> Absent, backups |-> Append(File.backups, File.live)])
             /\ Goto("swap") /\ UNCHANGED outcome
    <3> DEFINE b == Append(File.backups, File.live)
               f == [live |-> Absent, backups |-> b]
    <3>1. /\ b \in Seq(Nat) /\ Len(b) = Len(File.backups) + 1 /\ b[Len(b)] = File.live
          /\ \A i \in DOMAIN File.backups : i \in DOMAIN b /\ b[i] = File.backups[i]
          /\ Len(b) \in DOMAIN b /\ b # << >>
      BY <1>1
    <3> HIDE DEF b
    <3>2. f \in FileShape /\ f.backups = b /\ f.live = Absent
      BY <3>1 DEF FileShape, Absent
    <3>3. op.file = "restart" /\ Kept(installed) =>
            \E i \in DOMAIN f.backups : f.backups[i] >= installed
      BY <1>6, <3>1, <3>2
    <3>4. /\ FilesKept /\ files'[op.file] = f
          /\ op.file = "health" => files'["restart"] = files["restart"]
      BY <1>0, <1>1, <2>1, <3>2, <3>3, SetFileKeeps DEF b
    <3> QED
      BY <1>0, <2>1, <3>1, <3>2, <3>4, WriteMoveOK
  <2> QED
    BY <1>5, <1>9, <2>1 DEF MoveAside
<1>10. CASE SwapIn
  <2> DEFINE kept == File.backups
             rest == SubSeq(kept, 1, Len(kept) - 1)
  <2>1. op.pc = "swap" /\ kept # << >> /\ File.live = Absent
    BY <1>10 DEF SwapIn, At, IntInv, RestartOK, File
  <2>2. /\ kept \in Seq(Nat) /\ Len(kept) \in Nat \ {0} /\ rest \in Seq(Nat)
        /\ Len(rest) = Len(kept) - 1 /\ Len(kept) \in DOMAIN kept
        /\ kept[Len(kept)] \in Nat
        /\ \A i \in 1 .. Len(kept) - 1 : i \in DOMAIN rest /\ rest[i] = kept[i]
        /\ DOMAIN kept = 1 .. Len(kept)
    BY <1>1, <2>1
  <2> HIDE DEF kept, rest
  <2>3. ASSUME NEW b \in Seq(Nat), SetFile([live |-> op.value, backups |-> b]), Written,
               UNCHANGED outcome
        PROVE  IntInv'
    <3> DEFINE f == [live |-> op.value, backups |-> b]
    <3>1. f \in FileShape /\ f.live = op.value
      BY <1>1, <2>3 DEF FileShape
    <3>2. /\ FilesKept /\ files'[op.file] = f
          /\ op.file = "health" => files'["restart"] = files["restart"]
      BY <1>0, <1>1, <1>3, <2>3, <3>1, SetFileKeeps
    <3> QED
      BY <1>0, <2>3, <3>1, <3>2, WrittenOK
  <2>4. CASE SetFile([live |-> kept[Len(kept)], backups |-> rest]) /\ Return("failed")
    <3> DEFINE f == [live |-> kept[Len(kept)], backups |-> rest]
    <3>1. f \in FileShape /\ f.live = kept[Len(kept)] /\ f.backups = rest
      BY <2>2 DEF FileShape
    <3>2. op.file = "restart" /\ Kept(installed) =>
            \/ f.live >= installed
            \/ \E i \in DOMAIN f.backups : f.backups[i] >= installed
      <4>1. \A i \in DOMAIN kept : i = Len(kept) \/ i \in 1 .. Len(kept) - 1
        BY <2>2
      <4>2. op.file = "restart" /\ Kept(installed) =>
              File.live >= installed \/ \E i \in DOMAIN kept : kept[i] >= installed
        BY <1>6 DEF kept
      <4>3. File.live >= installed => kept[Len(kept)] >= installed
        BY <1>1, <2>1, <2>2 DEF Absent
      <4> HIDE DEF f
      <4> QED
        BY <2>2, <3>1, <4>1, <4>2, <4>3
    <3>3. FilesKept
      BY <1>0, <1>1, <2>4, <3>1, <3>2, SetFileKeeps
    <3> QED
      BY <1>4, <2>4, <3>3
  <2> QED
    BY <1>5, <1>10, <2>2, <2>3, <2>4 DEF SwapIn, kept, rest
<1> QED
  BY <1>7, <1>8, <1>9, <1>10 DEF WriteFile

(* An operation that starts, and one that is killed.                       *)
LEMMA StartKillOK ==
    IntInv /\ (StartStatus \/ StartInstall \/ StartSelfTest \/ KillDesktop) => IntInv'
<1> SUFFICES ASSUME IntInv, StartStatus \/ StartInstall \/ StartSelfTest \/ KillDesktop
             PROVE  IntInv'
  OBVIOUS
<1> USE DEF IntInv
<1>0. UNCHANGED << market, plugin, files, active, bridges, payload, installed, intClock >>
      /\ outcome' = NoOutcome
  BY DEF StartStatus, StartInstall, StartSelfTest, StartOperation, KillDesktop, world
<1>1. outcome' \in OutcomeShape /\ outcome'.kind = "none" /\ outcome'.result = "none"
  BY <1>0, IntRestShapes
<1>2. RollbackHonest' /\ ConnectedAfterInstall'
  BY <1>1 DEF RollbackHonest, ConnectedAfterInstall
<1>3. CASE KillDesktop
  <2>1. op' \in OpShape /\ OpOK' /\ RollbackOK' /\ ReceiptsOK' /\ RestartOK'
    BY <1>0, <1>3, FilesSame, EndOK DEF KillDesktop
  <2>2. IntShape'
    BY <1>0, <1>1, <2>1 DEF IntShape
  <2> QED
    BY <1>2, <2>1, <2>2
<1>4. ASSUME NEW kind \in {"status", "install", "self_test"},
             NEW pc \in {"status", "gate"}, NEW then \in {"report", "eligible"},
             kind = "install" <=> pc = "gate", kind = "self_test" <=> then = "eligible",
             StartOperation(kind, pc, then)
      PROVE  IntInv'
  <2>1. op' = [NoOp EXCEPT !.kind = kind, !.pc = pc, !.then = then]
    BY <1>4 DEF StartOperation
  <2>2. /\ op' \in OpShape /\ op'.kind = kind /\ op'.pc = pc /\ op'.then = then
        /\ op'.status = NoStatus
    BY <2>1, IntRestShapes DEF OpShape, IntPcs
  <2>3. ~op'.exact /\ op'.stage = "none"
    BY <2>1 DEF NoOp
  <2>4. ~IsReceipt(op'.status.by) /\ op'.status.state # "connected"
    BY <2>2, IntRestShapes
  <2>5. ~Recording' /\ op'.pc \notin WritePlaces /\ op'.pc # "apply" /\ op'.pc # "swap"
    BY <1>4, <2>2 DEF Recording, WritePlaces
  <2>6. ReceiptsOK'
    BY <1>0, <2>4 DEF ReceiptsOK
  <2>7. KeptOK'
    BY <1>0, FilesSame, StillKept DEF RestartOK
  <2>8. RestartOK'
    BY <2>4, <2>5, <2>7 DEF RestartOK
  <2>9. OpOK' /\ RollbackOK'
    BY <1>1, <1>4, <2>2, <2>3 DEF OpOK, RollbackOK, InstallPlaces, WritePlaces
  <2>10. IntShape'
    BY <1>0, <1>1, <2>2 DEF IntShape
  <2> QED
    BY <1>2, <2>6, <2>8, <2>9, <2>10
<1>5. CASE StartStatus
  BY <1>4, <1>5 DEF StartStatus
<1>6. CASE StartInstall
  BY <1>4, <1>6 DEF StartInstall
<1>7. CASE StartSelfTest
  BY <1>4, <1>7 DEF StartSelfTest
<1> QED
  BY <1>3, <1>5, <1>6, <1>7

(* A status found without the receipts, and a self-test.                   *)
LEMMA NewStatusOK ==
    ASSUME IntInv, NEW p \in {"report", "eligible", "status"}, op.pc \in {"status", "eligible"},
           op' \in OpShape, op'.pc = p, op'.kind = op.kind, op'.exact = op.exact,
           op'.value = op.value, p = "status" => op'.then = "report",
           ~Recording \/ p = "report", p = "status" => ~Recording',
           p = "eligible" => op.kind = "self_test",
           \/ op'.status = op.status /\ ~Recording
           \/ ~IsReceipt(op'.status.by) /\ op'.status.state # "connected",
           UNCHANGED << market, plugin, files, outcome, active, bridges, payload, installed,
                        intClock >>
    PROVE  IntInv'
<1> USE DEF IntInv
<1>1. op.pc # "idle" /\ op'.pc \notin WritePlaces /\ op'.pc # "apply" /\ op'.pc # "swap"
  BY DEF WritePlaces
<1>2. outcome' \in OutcomeShape /\ RollbackHonest' /\ ConnectedAfterInstall'
  BY <1>1, RunningOK
<1>3. IntShape'
  BY <1>2 DEF IntShape
<1>4. OpOK' /\ RollbackOK'
  BY <1>1 DEF OpOK, RollbackOK, InstallPlaces, WritePlaces
<1>5. ReceiptsOK'
  BY DEF ReceiptsOK
<1>6. KeptOK'
  BY FilesSame, StillKept DEF RestartOK
<1>7. (op.status.state = "connected" =>
          IsReceipt(op.status.by) /\ ConnectedSince(op.status, installed))'
  <2>1. op.status.state = "connected" =>
          IsReceipt(op.status.by) /\ ConnectedSince(op.status, installed)
    BY DEF RestartOK
  <2> QED
    BY <2>1 DEF ConnectedSince, RestartFile
<1>8. Recording' => Recording /\ op.pc = "status" /\ op'.pc = "report"
                    /\ op'.status.state # "connected"
  BY DEF Recording, OpOK
<1>9. Recording' => /\ op'.value >= 1 /\ installed' <= op'.value /\ op'.value <= intClock'
                    /\ RestartFile'.live = op'.value
  BY <1>8 DEF RestartOK, RestartFile
<1>10. (op.kind = "install" /\ ~op.exact /\ ~Recording => op.status.state # "connected")'
  BY DEF Recording, OpOK, RestartOK
<1>11. RestartOK'
  BY <1>1, <1>6, <1>7, <1>8, <1>9, <1>10 DEF RestartOK
<1> QED
  BY <1>2, <1>3, <1>4, <1>5, <1>11

(* What status_from_receipts answers.                                      *)
LEMMA ReceiptStatusFacts ==
    ASSUME NEW rc \in AnyReceipt, NEW valid \in BOOLEAN, NEW restart \in Nat
    PROVE  LET s == ReceiptStatus(rc, valid, restart) IN
           /\ s \in StatusShape /\ s.by = rc
           /\ s.state = "connected" \/ "restart" \in s.drop =>
                IsReceipt(rc) /\ LoadedAfterInstall(rc, restart)
           /\ restart = Absent => "restart" \notin s.drop
<1> DEFINE settled == IF restart = Absent THEN "installed" ELSE "restart"
           fallen(x) == IF restart = Absent THEN x ELSE "restart"
<1>1. ASSUME NEW st \in States, NEW d \in SUBSET {"restart", "active"}
      PROVE  /\ Seen(st, d, rc) \in StatusShape /\ Seen(st, d, rc).by = rc
             /\ Seen(st, d, rc).state = st /\ Seen(st, d, rc).drop = d
  BY <1>1 DEF Seen, StatusShape
<1>2. settled \in States /\ settled # "connected" /\ fallen("broken") \in States
      /\ fallen("broken") # "connected" /\ fallen("stale") \in States
      /\ fallen("stale") # "connected" /\ "connected" \in States
  BY DEF States
<1>3. /\ NoReceipt # Garbled /\ ~IsReceipt(NoReceipt) /\ ~IsReceipt(Garbled)
  BY DEF NoReceipt, Garbled, IsReceipt
<1> HIDE DEF settled, fallen
<1>4. LET s == ReceiptStatus(rc, valid, restart) IN
      \/ s = Seen(settled, {}, rc)
      \/ s = Seen(fallen("broken"), {"active"}, rc)
      \/ s = Seen(fallen("stale"), {"active"}, rc)
      \/ s \in {Seen("connected", {}, rc), Seen("connected", {"restart"}, rc)}
         /\ IsReceipt(rc) /\ LoadedAfterInstall(rc, restart)
         /\ (restart = Absent => s = Seen("connected", {}, rc))
  <2>1. CASE rc = NoReceipt
    BY <1>3, <2>1 DEF ReceiptStatus, settled
  <2>2. CASE rc = Garbled
    BY <1>3, <2>2 DEF ReceiptStatus, fallen
  <2>3. CASE IsReceipt(rc) /\ valid /\ LoadedAfterInstall(rc, restart)
    BY <1>3, <2>3 DEF ReceiptStatus
  <2>4. CASE IsReceipt(rc) /\ valid /\ ~LoadedAfterInstall(rc, restart)
    BY <1>3, <2>4 DEF ReceiptStatus, settled
  <2>5. CASE ~(rc = NoReceipt) /\ ~(rc = Garbled) /\ ~(IsReceipt(rc) /\ valid)
    <3>1. /\ ~(rc = NoReceipt) /\ ~(rc = Garbled)
          /\ ~(IsReceipt(rc) /\ valid /\ LoadedAfterInstall(rc, restart))
          /\ ~(IsReceipt(rc) /\ valid /\ ~LoadedAfterInstall(rc, restart))
      BY <2>5
    <3>2. ReceiptStatus(rc, valid, restart) = Seen(fallen("stale"), {"active"}, rc)
      BY <3>1 DEF ReceiptStatus, fallen
    <3> QED
      BY <3>2
  <2> QED
    BY <2>1, <2>2, <2>3, <2>4, <2>5
<1>5. {} \in SUBSET {"restart", "active"} /\ {"active"} \in SUBSET {"restart", "active"}
      /\ {"restart"} \in SUBSET {"restart", "active"} /\ "restart" \notin {"active"}
  OBVIOUS
<1> QED
  BY <1>1, <1>2, <1>4, <1>5

(* A registration that settles the status never counts as connected.       *)
LEMMA RegistrationFacts ==
    ASSUME NEW p, NEW g
    PROVE  LET s == RegistrationStatus(p, g) IN
           s # "receipts" => s \in States /\ s # "connected"
<1>1. RegistrationStatus(p, g) \in {"not_installed", "broken", "version_mismatch", "receipts"}
  BY DEF RegistrationStatus
<1> QED
  BY <1>1 DEF States

(* A status found without the receipts is well formed and not connected.   *)
LEMMA BareStatus ==
    ASSUME NEW s \in States \ {"connected"}, NEW e \in BOOLEAN
    PROVE  LET q == [NoStatus EXCEPT !.state = s, !.enabled = e]
               u == [NoStatus EXCEPT !.state = s]
           IN /\ q \in StatusShape /\ ~IsReceipt(q.by) /\ q.state # "connected"
              /\ u \in StatusShape /\ ~IsReceipt(u.by) /\ u.state # "connected"
BY IntRestShapes DEF StatusShape

(* The status is read: from the registration, or from the receipts.        *)
LEMMA ReadStatusOK == IntInv /\ ReadStatus => IntInv'
<1> SUFFICES ASSUME IntInv, ReadStatus PROVE IntInv'
  OBVIOUS
<1> USE DEF IntInv
<1>0. /\ UNCHANGED << market, plugin, files, outcome, active, bridges, payload, installed,
                      intClock >>
      /\ op.pc \in {"status", "receipts"} /\ op.pc # "idle"
      /\ op \in OpShape /\ plugin.enabled \in BOOLEAN
  BY DEF ReadStatus, world, IntShape, Plugin
<1>1. CASE /\ op.pc = "status" /\ RegistrationStatus(payload, plugin) # "receipts"
           /\ op' = [op EXCEPT !.pc = op.then,
                               !.status = [NoStatus EXCEPT !.state = RegistrationStatus(payload, plugin),
                                                           !.enabled = plugin.enabled]]
  <2> DEFINE q == [NoStatus EXCEPT !.state = RegistrationStatus(payload, plugin),
                                   !.enabled = plugin.enabled]
  <2>1. q \in StatusShape /\ ~IsReceipt(q.by) /\ q.state # "connected"
    BY <1>0, <1>1, RegistrationFacts, BareStatus
  <2>2. op' = [op EXCEPT !.pc = op.then, !.status = q]
    BY <1>1
  <2> HIDE DEF q
  <2>3. op.then \in {"report", "eligible"} /\ (op.then = "eligible" => op.kind = "self_test")
    BY <1>1 DEF OpOK
  <2>4. /\ op' \in OpShape /\ op'.pc = op.then /\ op'.kind = op.kind /\ op'.exact = op.exact
        /\ op'.value = op.value /\ op'.status = q
    BY <1>0, <2>1, <2>2, <2>3 DEF OpShape, IntPcs
  <2>5. ~Recording \/ op.then = "report"
    BY <2>3 DEF Recording
  <2> QED
    BY <1>0, <1>1, <2>1, <2>3, <2>4, <2>5, NewStatusOK
<1>2. ASSUME NEW valid \in BOOLEAN, NEW unread \in BOOLEAN,
             op' = [op EXCEPT !.pc = "apply",
                    !.status = [ReceiptStatus(active, valid,
                                    IF unread THEN Absent ELSE files["restart"].live)
                                  EXCEPT !.unread = unread]]
      PROVE  IntInv'
  <2> DEFINE restart == IF unread THEN Absent ELSE files["restart"].live
             base == ReceiptStatus(active, valid, restart)
             s == [base EXCEPT !.unread = unread]
  <2>1. /\ active \in AnyReceipt /\ RestartFile.live \in Nat /\ installed \in Nat
        /\ files["restart"] = RestartFile
    BY DEF IntShape, FileShape, RestartFile
  <2>2. /\ s \in StatusShape /\ s.by = active /\ s.unread = unread
        /\ (s.state = "connected" /\ ~unread) \/ "restart" \in s.drop =>
             IsReceipt(active) /\ LoadedAfterInstall(active, RestartFile.live)
        /\ s.state = "connected" => IsReceipt(active)
    <3>1. restart \in Nat /\ (~unread => restart = RestartFile.live)
          /\ (unread => restart = Absent)
      BY <2>1 DEF Absent
    <3> HIDE DEF restart
    <3>2. /\ base \in StatusShape /\ base.by = active
          /\ base.state = "connected" \/ "restart" \in base.drop =>
               IsReceipt(active) /\ LoadedAfterInstall(active, restart)
          /\ restart = Absent => "restart" \notin base.drop
      BY <1>2, <2>1, <3>1, ReceiptStatusFacts
    <3> HIDE DEF base
    <3>3. /\ s \in StatusShape /\ s.by = base.by /\ s.state = base.state
          /\ s.drop = base.drop /\ s.unread = unread
      BY <1>2, <3>2 DEF StatusShape
    <3> QED
      BY <3>1, <3>2, <3>3
  <2>3. op' = [op EXCEPT !.pc = "apply", !.status = s]
    BY <1>2
  <2> HIDE DEF s, base, restart
  <2>4. /\ op' \in OpShape /\ op'.pc = "apply" /\ op'.kind = op.kind /\ op'.exact = op.exact
        /\ op'.value = op.value /\ op'.status = s /\ op'.then = op.then
        /\ op'.before = op.before
    BY <1>0, <2>2, <2>3 DEF OpShape, IntPcs
  <2>5. (s.state = "connected" /\ ~unread) \/ "restart" \in s.drop =>
          /\ IsReceipt(active) /\ active.started \in Nat /\ active.started >= 1
          /\ active.started > RestartFile.live
    <3>1. IsReceipt(active) => active.started \in Nat /\ active.started >= 1
      BY <2>1 DEF AnyReceipt, IntReceipt, IsReceipt, NoReceipt, Garbled, ReceiptsOK
    <3> QED
      BY <2>1, <2>2, <3>1 DEF LoadedAfterInstall, Absent
  <2>6. outcome' \in OutcomeShape /\ RollbackHonest' /\ ConnectedAfterInstall'
    BY <1>0, RunningOK
  <2>7. IntShape'
    BY <1>0, <2>4, <2>6 DEF IntShape
  <2>8. OpOK' /\ RollbackOK'
    BY <1>0, <2>4 DEF OpOK, RollbackOK, InstallPlaces, WritePlaces
  <2>9. ReceiptsOK'
    <3>1. bridges \in [IntRuntimes -> BridgeShape]
      BY DEF IntShape
    <3> QED
      BY <1>0, <2>1, <2>2, <2>4, <3>1 DEF ReceiptsOK, AnyReceipt, IntReceipt, IsReceipt,
         NoReceipt, Garbled
  <2>10. KeptOK'
    BY <1>0, FilesSame, StillKept DEF RestartOK
  <2>11. s.state = "connected" => ConnectedSince(s, installed)
    <3>1. SUFFICES ASSUME s.state = "connected", RestartFile.backups = << >>, ~unread,
                          ~(s.by.started > installed)
                   PROVE  \E r \in IntRuntimes \ {s.by.by} : bridges[r].started > installed
      BY <2>2 DEF ConnectedSince
    <3>2. installed > 0 /\ ~Kept(installed)
      BY <2>1, <2>2, <2>5, <3>1 DEF Kept
    <3>3. PICK r \in IntRuntimes : LoadedAfter(r, installed)
      BY <3>2 DEF RestartOK, KeptOK
    <3>4. r # active.by
      BY <2>2, <2>5, <3>1, <3>3 DEF LoadedAfter
    <3> QED
      BY <2>2, <3>3, <3>4 DEF LoadedAfter
  <2>12. (op.status.state = "connected" =>
            IsReceipt(op.status.by) /\ ConnectedSince(op.status, installed))'
    BY <1>0, <2>2, <2>4, <2>11 DEF ConnectedSince, RestartFile
  <2>13. Recording' => Recording /\ op.pc = "status"
    BY <1>0, <2>4 DEF Recording, OpOK
  <2>14. Recording' => /\ op'.value >= 1 /\ installed' <= op'.value /\ op'.value <= intClock'
                       /\ RestartFile'.live = op'.value
    BY <1>0, <2>4, <2>13 DEF RestartOK, RestartFile
  <2>15. Recording' /\ op'.status.state = "connected" =>
            op'.status.by.started > op'.value \/ op'.status.unread
    BY <1>0, <2>2, <2>4, <2>5, <2>14 DEF RestartFile
  <2>16. "restart" \in op'.status.drop =>
            IsReceipt(op'.status.by) /\ op'.status.by.started > RestartFile'.live
    BY <1>0, <2>2, <2>4, <2>5 DEF RestartFile
  <2>17. (op.kind = "install" /\ ~op.exact /\ ~Recording => op.status.state # "connected")'
    BY <2>4 DEF Recording
  <2>18. op'.pc \notin WritePlaces /\ op'.pc # "swap" /\ op'.pc # "report"
    BY <2>4 DEF WritePlaces
  <2>19. RestartOK'
    BY <2>10, <2>12, <2>14, <2>15, <2>16, <2>17, <2>18 DEF RestartOK
  <2> QED
    BY <2>6, <2>7, <2>8, <2>9, <2>19
<1>3. \A reused : (IsReceipt(active)
                     /\ ValidActive(active, VersionOf(plugin.build), reused)) \in BOOLEAN
  BY DEF ValidActive
<1> QED
  BY <1>0, <1>1, <1>2, <1>3 DEF ReadStatus, At

(* The receipts that the status found spent are removed.                   *)
LEMMA ApplyStatusOK == IntInv /\ ApplyStatus => IntInv'
<1> SUFFICES ASSUME IntInv, ApplyStatus PROVE IntInv'
  OBVIOUS
<1> USE DEF IntInv
<1>0. /\ UNCHANGED << market, plugin, outcome, bridges, payload, installed, intClock >>
      /\ op.pc = "apply" /\ op.pc # "idle" /\ op \in OpShape /\ Goto(op.then)
      /\ op.then \in {"report", "eligible", "switch"}
  BY DEF ApplyStatus, At, IntShape, OpOK
<1>1. /\ op' \in OpShape /\ op'.pc = op.then /\ op'.kind = op.kind /\ op'.exact = op.exact
      /\ op'.value = op.value /\ op'.status = op.status /\ op'.before = op.before
  <2>1. op.then \in IntPcs
    BY <1>0 DEF IntPcs
  <2> QED
    BY <1>0, <2>1, IntGoto DEF OpMoves
<1>2. files \in [{"restart", "health"} -> FileShape] /\ files["restart"] \in FileShape
      /\ active \in AnyReceipt /\ installed \in Nat /\ bridges \in [IntRuntimes -> BridgeShape]
  BY DEF IntShape
<1>3. [files["restart"] EXCEPT !.live = Absent] \in FileShape
      /\ [files["restart"] EXCEPT !.live = Absent].backups = files["restart"].backups
      /\ [files["restart"] EXCEPT !.live = Absent].live = 0
  BY <1>2 DEF FileShape, Absent
<1>4. \/ UNCHANGED files
      \/ /\ "restart" \in op.status.drop
         /\ files' = [files EXCEPT !["restart"] = [files["restart"] EXCEPT !.live = Absent]]
  BY DEF ApplyStatus
<1>5. active' \in {active, NoReceipt}
  BY DEF ApplyStatus
<1>6. /\ files' \in [{"restart", "health"} -> FileShape]
      /\ RestartFile'.backups = RestartFile.backups
      /\ \/ RestartFile' = RestartFile
         \/ "restart" \in op.status.drop
  BY <1>2, <1>3, <1>4 DEF RestartFile
<1>7. active' \in AnyReceipt /\ (IsReceipt(active') => active' = active)
  BY <1>2, <1>5 DEF AnyReceipt, NoReceipt, IsReceipt
<1>8. outcome' \in OutcomeShape /\ RollbackHonest' /\ ConnectedAfterInstall'
  BY <1>0, RunningOK
<1>9. IntShape'
  BY <1>0, <1>1, <1>6, <1>7, <1>8 DEF IntShape
<1>10. OpOK' /\ RollbackOK'
  BY <1>0, <1>1 DEF OpOK, RollbackOK, InstallPlaces, WritePlaces
<1>11. ReceiptsOK'
  BY <1>0, <1>1, <1>7 DEF ReceiptsOK
<1>12. "restart" \in op.status.drop =>
         /\ IsReceipt(op.status.by) /\ op.status.by.started > RestartFile.live
         /\ op.status.by.by \in IntRuntimes /\ op.status.by.started \in Nat
  <2>1. op.status.by \in AnyReceipt
    BY <1>0 DEF OpShape, StatusShape
  <2> QED
    BY <1>0, <2>1 DEF RestartOK, AnyReceipt, IntReceipt, IsReceipt, NoReceipt, Garbled
<1>13. RestartFile.live \in Nat /\ \A r \in IntRuntimes : bridges[r].started \in Nat
  BY <1>2 DEF FileShape, RestartFile, BridgeShape
<1>14. KeptOK'
  <2> SUFFICES ASSUME installed > 0
               PROVE  Kept(installed)' \/ \E r \in IntRuntimes : LoadedAfter(r, installed)'
    BY <1>0 DEF KeptOK
  <2>1. CASE \E r \in IntRuntimes : LoadedAfter(r, installed)
    BY <1>0, <1>7, <2>1 DEF LoadedAfter
  <2>2. CASE \E i \in DOMAIN RestartFile.backups : RestartFile.backups[i] >= installed
    BY <1>0, <1>6, <2>2 DEF Kept
  <2>3. CASE RestartFile.live >= installed /\ RestartFile' = RestartFile
    BY <1>0, <2>3 DEF Kept
  <2>4. CASE RestartFile.live >= installed /\ "restart" \in op.status.drop
    <3> DEFINE r == op.status.by.by
    <3>1. r \in IntRuntimes /\ op.status.by.started > installed
          /\ bridges[r].started >= op.status.by.started
          /\ (IsReceipt(active) /\ active.by = r => op.status.by.started <= active.started)
      BY <1>2, <1>12, <1>13, <2>4 DEF ReceiptsOK
    <3>2. IsReceipt(active) => active.started \in Nat
      BY <1>2 DEF AnyReceipt, IntReceipt, IsReceipt, NoReceipt, Garbled
    <3>5. bridges[r].started \in Nat /\ op.status.by.started \in Nat /\ installed \in Nat
      BY <1>2, <1>12, <1>13, <2>4, <3>1
    <3> HIDE DEF r
    <3>3. LoadedAfter(r, installed)
      BY <3>1, <3>2, <3>5 DEF LoadedAfter
    <3>4. LoadedAfter(r, installed)'
      BY <1>0, <1>1, <1>7, <3>3 DEF LoadedAfter, r
    <3> QED
      BY <1>0, <1>1, <3>1, <3>4 DEF r
  <2> QED
    BY <1>6, <2>1, <2>2, <2>3, <2>4 DEF RestartOK, KeptOK, Kept
<1>15. (op.status.state = "connected" =>
          IsReceipt(op.status.by) /\ ConnectedSince(op.status, installed))'
  <2>1. op.status.state = "connected" =>
          IsReceipt(op.status.by) /\ ConnectedSince(op.status, installed)
    BY DEF RestartOK
  <2> QED
    BY <1>0, <1>1, <1>6, <2>1 DEF ConnectedSince
<1>16. Recording' => Recording /\ op'.pc = "report"
  BY <1>0, <1>1 DEF Recording
<1>17. Recording' => /\ op'.value >= 1 /\ installed' <= op'.value /\ op'.value <= intClock'
                     /\ RestartFile.live = op'.value
                     /\ op'.status.state = "connected" =>
                           op'.status.by.started > op'.value \/ op'.status.unread
  BY <1>0, <1>1, <1>16 DEF RestartOK
<1>18. Recording' => \/ RestartFile'.live = op'.value
                     \/ IsReceipt(op'.status.by) /\ op'.status.by.started > op'.value
  BY <1>1, <1>6, <1>12, <1>17
<1>19. (op.kind = "install" /\ ~op.exact /\ ~Recording => op.status.state # "connected")'
  BY <1>0, <1>1 DEF Recording, OpOK
<1>20. op'.pc \notin WritePlaces /\ op'.pc # "swap" /\ op'.pc # "apply"
  BY <1>0, <1>1 DEF WritePlaces
<1>21. RestartOK'
  BY <1>14, <1>15, <1>16, <1>17, <1>18, <1>19, <1>20 DEF RestartOK
<1> QED
  BY <1>8, <1>9, <1>10, <1>11, <1>21

(* The result of an operation is reported.                                 *)
LEMMA ReportOK == IntInv /\ Report => IntInv'
<1> SUFFICES ASSUME IntInv, Report PROVE IntInv'
  OBVIOUS
<1> USE DEF IntInv
<1>0. /\ UNCHANGED << market, plugin, files, active, bridges, payload, intClock >>
      /\ op.pc = "report" /\ op \in OpShape /\ Return("ok")
      /\ installed' = IF op.kind = "install" /\ ~op.exact THEN op.value ELSE installed
  BY DEF Report, At, world, IntShape
<1>1. /\ outcome' \in OutcomeShape /\ op' = NoOp /\ outcome'.result = "ok"
      /\ outcome'.status = op.status
  BY <1>0, ReturnReports
<1>2. Recording <=> op.kind = "install" /\ ~op.exact
  BY <1>0 DEF Recording
<1>3. op.value \in Nat /\ installed \in Nat /\ intClock \in Nat /\ installed' \in Nat
      /\ RestartFile.live \in Nat
  BY <1>0 DEF OpShape, IntShape, FileShape, RestartFile
<1>4. installed' <= intClock'
  BY <1>0, <1>2 DEF RestartOK, ReceiptsOK
<1>5. op' \in OpShape /\ op'.pc = "idle" /\ op'.kind = "none"
      /\ ~IsReceipt(op'.status.by) /\ op'.status.state # "connected"
  BY <1>1, IntRestShapes
<1>6. IntShape'
  BY <1>0, <1>1, <1>3, <1>5 DEF IntShape
<1>7. OpOK' /\ RollbackOK'
  BY <1>5 DEF OpOK, RollbackOK, InstallPlaces, WritePlaces
<1>8. ReceiptsOK'
  BY <1>0, <1>4, <1>5 DEF ReceiptsOK
<1>9. CASE ~Recording
  <2>1. installed' = installed
    BY <1>0, <1>2, <1>9
  <2>2. KeptOK'
    BY <1>0, <2>1, FilesSame, StillKept DEF RestartOK
  <2>3. RestartOK'
    BY <1>5, <2>2 DEF RestartOK, Recording, WritePlaces
  <2>4. op.status.state = "connected" => ConnectedSince(op.status, installed)
    BY DEF RestartOK
  <2>5. ConnectedAfterInstall'
    BY <1>0, <1>1, <2>1, <2>4 DEF ConnectedAfterInstall, ConnectedSince, RestartFile
  <2> QED
    BY <1>1, <1>6, <1>7, <1>8, <2>3, <2>5 DEF RollbackHonest
<1>10. CASE Recording
  <2>1. installed' = op.value
    BY <1>0, <1>2, <1>10
  <2>2. \/ RestartFile.live = op.value
        \/ IsReceipt(op.status.by) /\ op.status.by.started > op.value
    BY <1>0, <1>10 DEF RestartOK
  <2>3. KeptOK'
    <3>1. CASE RestartFile.live = op.value
      BY <1>0, <1>3, <2>1, <3>1 DEF KeptOK, Kept, RestartFile
    <3>2. CASE IsReceipt(op.status.by) /\ op.status.by.started > op.value
      <4> DEFINE r == op.status.by.by
      <4>1. op.status.by \in AnyReceipt
        BY <1>0 DEF OpShape, StatusShape
      <4>2. r \in IntRuntimes /\ op.status.by.started \in Nat
        BY <3>2, <4>1 DEF AnyReceipt, IntReceipt, IsReceipt, NoReceipt, Garbled
      <4>3. bridges[r].started \in Nat /\ (IsReceipt(active) => active.started \in Nat)
        BY <4>2 DEF IntShape, BridgeShape, AnyReceipt, IntReceipt, IsReceipt, NoReceipt, Garbled
      <4>4. bridges[r].started > op.value
            /\ (IsReceipt(active) /\ active.by = r => active.started > op.value)
        BY <1>3, <3>2, <4>2, <4>3 DEF ReceiptsOK
      <4>5. bridges'[r].started > installed'
            /\ (IsReceipt(active') /\ active'.by = r => active'.started > installed')
        BY <1>0, <2>1, <4>4
      <4> HIDE DEF r
      <4> QED
        BY <4>2, <4>5 DEF KeptOK, LoadedAfter, r
    <3> QED
      BY <2>2, <3>1, <3>2
  <2>4. RestartOK'
    BY <1>5, <2>3 DEF RestartOK, Recording, WritePlaces
  <2>5. op.status.state = "connected" => op.status.by.started > op.value \/ op.status.unread
    BY <1>0, <1>10 DEF RestartOK
  <2>6. ConnectedAfterInstall'
    BY <1>1, <2>1, <2>5 DEF ConnectedAfterInstall
  <2> QED
    BY <1>1, <1>6, <1>7, <1>8, <2>4, <2>6 DEF RollbackHonest
<1> QED
  BY <1>9, <1>10

(* A command-line client that is missing, and the self-test.               *)
LEMMA CliSelfTestOK == IntInv /\ (CliMissing \/ SelfTest) => IntInv'
<1> SUFFICES ASSUME IntInv, CliMissing \/ SelfTest PROVE IntInv'
  OBVIOUS
<1> USE DEF IntInv
<1>0. /\ UNCHANGED << market, plugin, files, active, bridges, payload, installed, intClock >>
      /\ op.pc \in {"gate", "status", "eligible"} /\ op \in OpShape
      /\ market' \in Markets /\ plugin' \in Plugin
  BY DEF CliMissing, SelfTest, At, world, IntShape
<1>1. CASE op.pc = "gate" /\ Return("failed")
  <2>1. op.stage = "none"
    BY <1>1 DEF OpOK
  <2> QED
    BY <1>0, <1>1, <2>1, FilesSame, ReturnOK
<1>2. CASE op.pc = "eligible" /\ UNCHANGED outcome
           /\ op' = [op EXCEPT !.pc = "status", !.then = "report"]
  <2>1. /\ op' \in OpShape /\ op'.pc = "status" /\ op'.then = "report" /\ op'.kind = op.kind
        /\ op'.exact = op.exact /\ op'.value = op.value /\ op'.status = op.status
    BY <1>0, <1>2 DEF OpShape, IntPcs
  <2>2. op.kind = "self_test"
    BY <1>2 DEF OpOK
  <2>3. ~Recording /\ ~Recording'
    BY <2>1, <2>2 DEF Recording
  <2> QED
    BY <1>0, <1>2, <2>1, <2>2, <2>3, NewStatusOK
<1>3. CASE op.pc = "eligible" /\ UNCHANGED outcome /\ Goto("report")
  <2>1. /\ op' \in OpShape /\ op'.pc = "report" /\ op'.kind = op.kind
        /\ op'.exact = op.exact /\ op'.value = op.value /\ op'.status = op.status
    BY <1>0, <1>3, IntGoto DEF OpMoves, IntPcs
  <2>2. op.kind = "self_test"
    BY <1>3 DEF OpOK
  <2>3. ~Recording /\ ~Recording'
    BY <2>1, <2>2 DEF Recording
  <2> QED
    BY <1>0, <1>3, <2>1, <2>2, <2>3, NewStatusOK
<1>4. ASSUME NEW s \in {"not_found", "broken"}, op.pc = "status", UNCHANGED outcome,
             op' = [op EXCEPT !.pc = op.then, !.status = [NoStatus EXCEPT !.state = s]]
      PROVE  IntInv'
  <2> DEFINE q == [NoStatus EXCEPT !.state = s]
  <2>1. q \in StatusShape /\ ~IsReceipt(q.by) /\ q.state # "connected"
    BY BareStatus DEF States
  <2>2. op' = [op EXCEPT !.pc = op.then, !.status = q]
    BY <1>4
  <2> HIDE DEF q
  <2>3. op.then \in {"report", "eligible"} /\ (op.then = "eligible" => op.kind = "self_test")
    BY <1>4 DEF OpOK
  <2>4. /\ op' \in OpShape /\ op'.pc = op.then /\ op'.kind = op.kind /\ op'.exact = op.exact
        /\ op'.value = op.value /\ op'.status = q
    BY <1>0, <2>1, <2>2, <2>3 DEF OpShape, IntPcs
  <2>5. ~Recording \/ op.then = "report"
    BY <2>3 DEF Recording
  <2> QED
    BY <1>0, <1>4, <2>1, <2>3, <2>4, <2>5, NewStatusOK
<1>5. ASSUME NEW v \in {1, 2}, op.pc = "eligible", UNCHANGED outcome,
             op' = [op EXCEPT !.pc = "recover", !.file = "health", !.then = "status",
                              !.value = v]
      PROVE  IntInv'
  <2>1. /\ op' \in OpShape /\ op'.pc = "recover" /\ op'.then = "status" /\ op'.kind = op.kind
        /\ op'.file = "health" /\ op'.exact = op.exact /\ op'.status = op.status
    <3>1. v \in Nat
      BY <1>5
    <3> QED
      BY <1>0, <1>5, <3>1 DEF OpShape, IntPcs
  <2>2. op.kind = "self_test" /\ op.pc # "idle"
    BY <1>5 DEF OpOK
  <2>3. ~Recording /\ ~Recording'
    BY <2>1, <2>2 DEF Recording
  <2>4. outcome' \in OutcomeShape /\ RollbackHonest' /\ ConnectedAfterInstall'
    BY <1>5, <2>2, RunningOK
  <2>5. IntShape'
    BY <1>0, <2>1, <2>4 DEF IntShape
  <2>6. outcome'.kind = "none" /\ outcome'.result = "none"
    BY <1>5, <2>2 DEF OpOK
  <2>7. OpOK' /\ RollbackOK'
    BY <2>1, <2>2, <2>6 DEF OpOK, RollbackOK, InstallPlaces, WritePlaces
  <2>8. ReceiptsOK'
    BY <1>0, <2>1 DEF ReceiptsOK
  <2>9. KeptOK'
    BY <1>0, FilesSame, StillKept DEF RestartOK
  <2>10. (op.status.state = "connected" =>
            IsReceipt(op.status.by) /\ ConnectedSince(op.status, installed))'
    <3>1. op.status.state = "connected" =>
            IsReceipt(op.status.by) /\ ConnectedSince(op.status, installed)
      BY DEF RestartOK
    <3> QED
      BY <1>0, <2>1, <3>1 DEF ConnectedSince, RestartFile
  <2>11. RestartOK'
    BY <2>1, <2>2, <2>3, <2>9, <2>10 DEF RestartOK
  <2> QED
    BY <2>4, <2>5, <2>7, <2>8, <2>11
<1>6. CASE CliMissing
  <2>1. \/ op.pc = "gate" /\ Return("failed")
        \/ op.pc = "eligible" /\ UNCHANGED outcome
           /\ op' = [op EXCEPT !.pc = "status", !.then = "report"]
        \/ /\ op.pc = "status" /\ UNCHANGED outcome
           /\ \E s \in {"not_found", "broken"} :
                op' = [op EXCEPT !.pc = op.then, !.status = [NoStatus EXCEPT !.state = s]]
    BY <1>6, Zenon DEF CliMissing, At
  <2> QED
    BY <1>1, <1>2, <1>4, <2>1
<1>7. CASE SelfTest
  <2>1. op.pc = "eligible" /\ UNCHANGED outcome
    BY <1>7 DEF SelfTest, At
  <2>2. \/ Goto("report")
        \/ op' = [op EXCEPT !.pc = "status", !.then = "report"]
        \/ \E r \in ProbeResults :
            op' = [op EXCEPT !.pc = "recover", !.file = "health", !.then = "status",
                             !.value = IF ProbePassed(r) THEN 1 ELSE 2]
    BY <1>7, Zenon DEF SelfTest
  <2>3. \A r : (IF ProbePassed(r) THEN 1 ELSE 2) \in {1, 2}
    OBVIOUS
  <2> QED
    BY <1>2, <1>3, <1>5, <2>1, <2>2, <2>3
<1> QED
  BY <1>6, <1>7

(* The runtimes, the user and the installer.                               *)
LEMMA IntEnvironmentOK == IntInv /\ IntEnvironment => IntInv'
<1> SUFFICES ASSUME IntInv, IntEnvironment PROVE IntInv'
  OBVIOUS
<1> USE DEF IntInv
<1>0. /\ UNCHANGED << market, files, op, outcome, installed >>
  BY DEF IntEnvironment, StartBridge, Beat, StopBridge, UserChangesPlugin, PayloadChanges,
     DamageReceipt, IntTick, still
<1>1. /\ bridges \in [IntRuntimes -> BridgeShape] /\ active \in AnyReceipt
      /\ installed \in Nat /\ intClock \in Nat /\ plugin \in Plugin /\ op.status.by \in AnyReceipt
      /\ payload \in [catalog: Nat, defect: Defects]
  BY DEF IntShape, OpShape, StatusShape
<1>2. /\ IsReceipt(active) => active.by \in IntRuntimes /\ active.started \in Nat
      /\ IsReceipt(op.status.by) =>
            op.status.by.by \in IntRuntimes /\ op.status.by.started \in Nat
      /\ \A r \in IntRuntimes : bridges[r].started \in Nat
  BY <1>1 DEF AnyReceipt, IntReceipt, IsReceipt, NoReceipt, Garbled, BridgeShape
<1>3. ASSUME plugin' \in Plugin, plugin'.build = plugin.build,
             payload' \in [catalog: Nat, defect: Defects],
             intClock' \in Nat, intClock' >= intClock,
             bridges' \in [IntRuntimes -> BridgeShape],
             \A r \in IntRuntimes : bridges'[r].started >= bridges[r].started,
             active' \in AnyReceipt, ReceiptsOK',
             IsReceipt(active') => active' = active \/ active'.started = bridges'[active'.by].started
      PROVE  IntInv'
  <2>1. IntShape'
    BY <1>0, <1>3 DEF IntShape
  <2>2. OpOK' /\ RollbackOK' /\ RollbackHonest'
    BY <1>0, <1>3 DEF OpOK, RollbackOK, RollbackHonest
  <2>3. \A r \in IntRuntimes : bridges[r].started \in Nat /\ bridges'[r].started \in Nat
    BY <1>2, <1>3 DEF BridgeShape
  <2>4. \A r \in IntRuntimes : bridges[r].started > installed => bridges'[r].started > installed
    BY <1>1, <1>3, <2>3
  <2>5. ConnectedAfterInstall'
    BY <1>0, <2>4 DEF ConnectedAfterInstall
  <2>6. \A r \in IntRuntimes : LoadedAfter(r, installed) => LoadedAfter(r, installed)'
    BY <1>0, <1>3, <2>4 DEF LoadedAfter
  <2>7. KeptOK'
    BY <1>0, <2>6 DEF RestartOK, KeptOK, Kept, RestartFile
  <2>8. op.status.state = "connected" =>
          IsReceipt(op.status.by) /\ ConnectedSince(op.status, installed)
    BY DEF RestartOK
  <2>9. (op.status.state = "connected" =>
          IsReceipt(op.status.by) /\ ConnectedSince(op.status, installed))'
    BY <1>0, <2>4, <2>8 DEF ConnectedSince, RestartFile
  <2>10. op.value \in Nat
    BY DEF IntShape, OpShape
  <2>11. \A v \in Nat : v <= intClock => v <= intClock'
    BY <1>1, <1>3
  <2>12. RestartOK'
    BY <1>0, <2>7, <2>9, <2>10, <2>11 DEF RestartOK, Recording, RestartFile
  <2> QED
    BY <1>3, <2>1, <2>2, <2>5, <2>12
<1>4. ASSUME NEW r \in IntRuntimes, StartBridge(r) PROVE IntInv'
  <2> DEFINE b == [alive |-> TRUE, started |-> intClock, build |-> plugin.build]
  <2>1. b \in BridgeShape /\ b.started = intClock
    BY <1>1 DEF BridgeShape, Plugin
  <2>2. bridges' = [bridges EXCEPT ![r] = b] /\ ~bridges[r].alive
        /\ UNCHANGED << payload, active, intClock, plugin >>
    BY <1>4 DEF StartBridge, still
  <2> HIDE DEF b
  <2>3. bridges' \in [IntRuntimes -> BridgeShape]
        /\ \A x \in IntRuntimes : bridges'[x] = IF x = r THEN b ELSE bridges[x]
    BY <1>1, <2>1, <2>2
  <2>4. bridges[r].started <= intClock
    BY <1>4 DEF ReceiptsOK
  <2>5. \A x \in IntRuntimes : bridges'[x].started >= bridges[x].started
    BY <1>1, <1>2, <2>1, <2>3, <2>4
  <2>6. ReceiptsOK'
    BY <1>0, <1>1, <1>2, <2>1, <2>2, <2>3, <2>5 DEF ReceiptsOK
  <2> QED
    BY <1>1, <1>3, <2>2, <2>3, <2>5, <2>6
<1>5. ASSUME NEW r \in IntRuntimes, Beat(r) PROVE IntInv'
  <2>1. /\ bridges[r].alive /\ active' = Receipt(r, bridges[r], intClock)
        /\ UNCHANGED << payload, bridges, intClock, plugin >>
    BY <1>5 DEF Beat, still
  <2>2. /\ active' \in AnyReceipt /\ IsReceipt(active') /\ active'.by = r
        /\ active'.started = bridges[r].started
    <3>1. VersionOf(bridges[r].build) \in Builds \cup {"current"}
      BY <1>1 DEF VersionOf, BridgeShape
    <3> QED
      BY <1>1, <1>2, <2>1, <3>1 DEF AnyReceipt, IntReceipt, Receipt, IsReceipt
  <2>3. ReceiptsOK'
    BY <1>0, <1>1, <1>2, <2>1, <2>2 DEF ReceiptsOK
  <2> QED
    BY <1>1, <1>2, <1>3, <2>1, <2>2, <2>3
<1>6. ASSUME NEW r \in IntRuntimes, StopBridge(r) PROVE IntInv'
  <2> DEFINE b == [bridges[r] EXCEPT !.alive = FALSE]
  <2>1. b \in BridgeShape /\ b.started = bridges[r].started /\ ~b.alive
    BY <1>1 DEF BridgeShape
  <2>2. bridges' = [bridges EXCEPT ![r] = b] /\ UNCHANGED << payload, intClock, plugin >>
        /\ active' \in {active, NoReceipt}
    BY <1>6 DEF StopBridge, still
  <2> HIDE DEF b
  <2>3. bridges' \in [IntRuntimes -> BridgeShape]
        /\ \A x \in IntRuntimes : bridges'[x] = IF x = r THEN b ELSE bridges[x]
    BY <1>1, <2>1, <2>2
  <2>4. /\ \A x \in IntRuntimes : bridges'[x].started = bridges[x].started
        /\ \A x \in IntRuntimes : bridges'[x].alive => bridges[x].alive
    BY <2>1, <2>3
  <2>5. active' \in AnyReceipt /\ (IsReceipt(active') => active' = active)
    BY <1>1, <2>2 DEF AnyReceipt, NoReceipt, IsReceipt
  <2>6. ReceiptsOK'
    BY <1>0, <1>2, <2>2, <2>4, <2>5 DEF ReceiptsOK
  <2>7. \A x \in IntRuntimes : bridges'[x].started >= bridges[x].started
    BY <1>2, <2>4
  <2> QED
    BY <1>1, <1>3, <2>2, <2>3, <2>5, <2>6, <2>7
<1>7. CASE UserChangesPlugin
  <2>1. UNCHANGED << payload, active, bridges, intClock >>
        /\ plugin' \in {[plugin EXCEPT !.enabled = FALSE], [plugin EXCEPT !.sound = FALSE]}
    BY <1>7 DEF UserChangesPlugin
  <2>2. plugin' \in Plugin /\ plugin'.build = plugin.build
    BY <1>1, <2>1 DEF Plugin
  <2>3. ReceiptsOK'
    BY <1>0, <2>1 DEF ReceiptsOK
  <2> QED
    BY <1>1, <1>2, <1>3, <2>1, <2>2, <2>3
<1>8. CASE PayloadChanges
  <2>1. UNCHANGED << active, bridges, intClock, plugin >>
    BY <1>8 DEF PayloadChanges, still
  <2>2. payload' \in [catalog: Nat, defect: Defects]
    BY <1>1, <1>8, IntAssumption DEF PayloadChanges, Defects
  <2>3. ReceiptsOK'
    BY <1>0, <2>1 DEF ReceiptsOK
  <2> QED
    BY <1>1, <1>2, <1>3, <2>1, <2>2, <2>3
<1>9. CASE DamageReceipt
  <2>1. UNCHANGED << payload, bridges, intClock, plugin >> /\ active' = Garbled
    BY <1>9 DEF DamageReceipt, still
  <2>2. active' \in AnyReceipt /\ ~IsReceipt(active')
    BY <2>1 DEF AnyReceipt, Garbled, IsReceipt
  <2>3. ReceiptsOK'
    BY <1>0, <2>1, <2>2 DEF ReceiptsOK
  <2> QED
    BY <1>1, <1>2, <1>3, <2>1, <2>2, <2>3
<1>10. CASE IntTick
  <2>1. UNCHANGED << payload, active, bridges, plugin >> /\ intClock' = intClock + 1
    BY <1>10 DEF IntTick, still
  <2>2. intClock' \in Nat /\ intClock' >= intClock
    BY <1>1, <2>1
  <2>3. ReceiptsOK'
    BY <1>0, <1>1, <1>2, <2>1, <2>2 DEF ReceiptsOK
  <2> QED
    BY <1>1, <1>2, <1>3, <2>1, <2>2, <2>3
<1> QED
  BY <1>4, <1>5, <1>6, <1>7, <1>8, <1>9, <1>10 DEF IntEnvironment

(* The invariant of the integration: at every place of an install and of   *)
(* its undo the marketplace is known, and the receipt of the last complete *)
(* install is on disk until a later runtime has been seen.                 *)
THEOREM IntInvariance == IntSpec => []IntInv
<1>1. IntInit => IntInv
  <2> SUFFICES ASSUME IntInit PROVE IntInv
    OBVIOUS
  <2>1. /\ op \in OpShape /\ op.pc = "idle" /\ op.kind = "none"
        /\ ~IsReceipt(op.status.by) /\ op.status.state # "connected"
        /\ outcome \in OutcomeShape /\ outcome.kind = "none" /\ outcome.result = "none"
    BY IntRestShapes DEF IntInit
  <2>2. market \in Markets /\ plugin \in Plugin
    <3>1. market \in Markets
      BY IntAssumption DEF IntInit, Markets
    <3>2. NoPlugin \in Plugin /\ [build |-> market, enabled |-> TRUE, sound |-> TRUE] \in Plugin
      BY <3>1 DEF NoPlugin, Plugin, Builds, Markets
    <3> QED
      BY <3>1, <3>2 DEF IntInit
  <2>3. payload \in [catalog: Nat, defect: Defects]
    BY DEF IntInit, Defects
  <2>4. NoFile \in FileShape /\ files \in [{"restart", "health"} -> FileShape]
    BY DEF IntInit, NoFile, FileShape, Absent
  <2>5. active \in AnyReceipt /\ ~IsReceipt(active)
    BY DEF IntInit, AnyReceipt, NoReceipt, IsReceipt
  <2>6. NoBridge \in BridgeShape /\ ~NoBridge.alive
    BY DEF NoBridge, BridgeShape, Builds
  <2>7. bridges \in [IntRuntimes -> BridgeShape] /\ \A r \in IntRuntimes :
             ~bridges[r].alive /\ bridges[r].started <= intClock
    BY <2>6 DEF IntInit, NoBridge
  <2>8. installed = 0 /\ intClock = 1
    BY DEF IntInit
  <2>9. IntShape
    BY <2>1, <2>2, <2>3, <2>4, <2>5, <2>7, <2>8 DEF IntShape
  <2>10. ReceiptsOK
    BY <2>1, <2>5, <2>7, <2>8 DEF ReceiptsOK
  <2>11. OpOK /\ RollbackOK
    BY <2>1 DEF OpOK, RollbackOK, InstallPlaces, WritePlaces
  <2>12. RestartOK
    BY <2>1, <2>8 DEF RestartOK, KeptOK, Recording, WritePlaces
  <2> QED
    BY <2>1, <2>9, <2>10, <2>11, <2>12 DEF IntInv, RollbackHonest, ConnectedAfterInstall
<1>2. IntInv /\ [IntNext]_intVars => IntInv'
  <2>1. IntInv /\ Install => IntInv'
    BY InstallGateOK, SwitchOK, PluginStepsOK, AgentsOK, UndoStepsOK DEF Install
  <2>2. IntInv /\ Status => IntInv'
    BY CliSelfTestOK, ReadStatusOK, ApplyStatusOK, ReportOK DEF Status
  <2>3. IntInv /\ UNCHANGED intVars => IntInv'
    BY DEF intVars, IntInv, IntShape, OpOK, RollbackOK, ReceiptsOK, RestartOK, KeptOK, Kept,
       LoadedAfter, ConnectedSince, Recording, RestartFile, RollbackHonest, ConnectedAfterInstall
  <2> QED
    BY <2>1, <2>2, <2>3, StartKillOK, WriteFileOK, IntEnvironmentOK DEF IntNext
<1> QED
  BY <1>1, <1>2, PTL DEF IntSpec

(* A failed install has put the marketplace and the plugin back            *)
(* (switch_marketplace, finish_plugin_failure, restore_marketplace).       *)
THEOREM RollbacksHonest == IntSpec => []RollbackHonest
<1>1. IntInv => RollbackHonest
  BY DEF IntInv
<1> QED
  BY <1>1, IntInvariance, PTL

(* A completed install is not reported as loaded before a restart, and the *)
(* restart it asks for is not forgotten, whenever the application is       *)
(* killed, but for the three ways RestartEnforced names: among them a      *)
(* restart receipt that could not be read, which counts as none            *)
(* (status_from_receipts, read_small_json, write_atomic_json).             *)
THEOREM RestartsEnforced == IntSpec => []RestartEnforced
<1>1. IntInv => RestartEnforced
  <2> SUFFICES ASSUME IntInv PROVE RestartKept
    BY DEF IntInv, RestartEnforced
  <2>1. /\ installed \in Nat /\ RestartFile.live \in Nat
        /\ \A r \in IntRuntimes : bridges[r].started \in Nat
    BY DEF IntInv, IntShape, FileShape, BridgeShape, RestartFile
  <2>2. (\A r \in IntRuntimes : bridges[r].started <= installed) /\ installed > 0
          => Kept(installed) /\ (RestartFile.live >= installed => RestartFile.live # Absent)
    BY <2>1 DEF IntInv, RestartOK, KeptOK, LoadedAfter, Absent
  <2> QED
    BY <2>2 DEF RestartKept, Kept, RestartFile
<1> QED
  BY <1>1, IntInvariance, PTL
=============================================================================
