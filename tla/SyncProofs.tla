----------------------------- MODULE SyncProofs -----------------------------
(***************************************************************************)
(* Theorems about Sync, for every set of nodes, paths and contents, every  *)
(* skew and granularity and every bound: Wins is a strict order on index   *)
(* entries, total up to the fields it compares, and the clock of local     *)
(* changes runs ahead of it; each step keeps the types of the variables,   *)
(* and the inductive invariant IInv.  SyncFiles builds on it.              *)
(***************************************************************************)
EXTENDS Sync, TLAPS

(* Leaves that name no prover are left to Zenon, then to SMT.              *)
USE ZenonT(8), SMTT(15)

-----------------------------------------------------------------------------
(* The order of index entries *)

(* An entry does not replace itself: a pull of what a node already has is  *)
(* no change (Wins, the identical-entries return).                         *)
THEOREM WinsIrreflexive ==
  ASSUME NEW a \in Entry
  PROVE  ~Wins(a, a)
BY DEF Entry, Wins, Identical

(* Of two entries at most one replaces the other, so two peers that pull   *)
(* from each other do not swap them for ever.                              *)
THEOREM WinsAsymmetric ==
  ASSUME NEW a \in Entry, NEW b \in Entry, Wins(a, b)
  PROVE  ~Wins(b, a)
BY DEF Entry, Wins, Identical, compareEntriesAbove

(* Replacing is transitive: the order in which a node hears of versions    *)
(* does not matter for the one it keeps.                                   *)
THEOREM WinsTransitive ==
  ASSUME NEW a \in Entry, NEW b \in Entry, NEW c \in Entry,
         Wins(a, b), Wins(b, c)
  PROVE  Wins(a, c)
<1>1. CASE a.updatedAt < b.updatedAt \/ b.updatedAt < c.updatedAt
  BY <1>1 DEF Entry, Wins
<1>2. CASE a.updatedAt = b.updatedAt /\ b.updatedAt = c.updatedAt
  <2>1. compareEntriesAbove(b, a) /\ compareEntriesAbove(c, b)
    BY <1>2 DEF Entry, Wins
  <2>2. compareEntriesAbove(c, a) /\ ~Identical(a, c)
    BY <2>1 DEF Entry, Identical, compareEntriesAbove
  <2> QED
    BY <1>2, <2>2 DEF Wins
<1> QED
  BY <1>1, <1>2 DEF Entry, Wins

(* Two versions that differ in what peers synchronise are ordered: one of  *)
(* them wins on every node ("a stable order guarantees both sides converge *)
(* to the same winner", the comment on Wins).                              *)
THEOREM WinsTotal ==
  ASSUME NEW a \in Entry, NEW b \in Entry,
         a.updatedAt # b.updatedAt \/ ~Identical(a, b)
  PROVE  Wins(a, b) \/ Wins(b, a)
BY DEF Entry, Wins, Identical, compareEntriesAbove

(* A winner's version is above the loser's.                                *)
LEMMA WinsVersionBelow ==
  ASSUME NEW a \in Entry, NEW b \in Entry, Wins(a, b)
  PROVE  VersionBelow(a, b)
BY DEF Entry, Wins, Identical, compareEntriesAbove, VersionBelow

(* Every entry is at its own version.                                      *)
LEMMA VersionBelowReflexive ==
  ASSUME NEW a \in Entry
  PROVE  VersionBelow(a, a)
BY DEF Entry, VersionBelow

(* Versions are ordered transitively.                                      *)
LEMMA VersionBelowTransitive ==
  ASSUME NEW a \in Entry, NEW b \in Entry, NEW c \in Entry,
         VersionBelow(a, b), VersionBelow(b, c)
  PROVE  VersionBelow(a, c)
BY DEF Entry, VersionBelow

(* A local change is stamped after the entry it replaces, whatever the     *)
(* clock says (stampUpdatedAt), so scan.Apply always records it.           *)
LEMMA StampAdvances ==
  ASSUME NEW clock \in Nat, NEW modTime \in Nat, NEW prev \in Nat
  PROVE  /\ stampUpdatedAt(clock, modTime, prev) \in Nat
         /\ prev # 0 => stampUpdatedAt(clock, modTime, prev) > prev
BY DEF stampUpdatedAt, Later

-----------------------------------------------------------------------------
(* Type correctness *)

(* The initial values of a worker are well typed.                          *)
LEMMA IdleType == NoItem \in Item /\ Idle \in Worker /\ NoneEntry \in Entry
<1>1. NoneEntry \in Entry
  BY DEF NoneEntry, Entry
<1>2. (CHOOSE p \in Path : TRUE) \in Path
  BY SyncAssumption
<1>3. NoItem \in Item
  BY <1>1, <1>2 DEF NoItem, Item
<1>4. Idle \in Worker
  BY <1>3 DEF Idle, Worker, Phase
<1> QED
  BY <1>1, <1>3, <1>4

(* Clocks and on-disk timestamps are natural numbers.                      *)
LEMMA ClockType ==
  ASSUME TypeOK, NEW n \in Node
  PROVE  /\ Clock(n) \in Nat
         /\ WriteTime(n) \in Nat
         /\ \A t \in Nat : OnDisk(n, t) \in Nat
<1>1. Skew[n] \in Nat /\ Gran[n] \in Nat /\ Gran[n] > 0
  BY SyncAssumption
<1>2. now \in Nat
  BY DEF TypeOK
<1>3. Clock(n) \in Nat /\ WriteTime(n) \in Nat
  BY <1>1, <1>2 DEF Clock, WriteTime
<1>4. ASSUME NEW t \in Nat, NEW g \in Nat, g > 0
      PROVE  t - (t % g) \in Nat
  <2>1. t = g * (t \div g) + (t % g) /\ t % g \in 0 .. g - 1
    BY <1>4
  <2>2. t \div g \in Nat
    BY <1>4
  <2> QED
    BY <1>4, <2>1, <2>2
<1> QED
  BY <1>1, <1>3, <1>4 DEF OnDisk

(* fileMode keeps modes natural.                                           *)
LEMMA FileModeType ==
  ASSUME NEW mode \in Nat
  PROVE  fileMode(mode) \in Nat
BY SyncAssumption DEF fileMode

(* The ways a worker record is updated keep it a worker record.            *)
LEMMA WorkerSteps ==
  ASSUME NEW w \in Worker
  PROVE  /\ NextEntry(w) \in Worker
         /\ Applied(w) \in Worker
         /\ Refused(w) \in Worker
         /\ Mismatch(w) \in Worker
         /\ \A ph \in Phase : [w EXCEPT !.ph = ph] \in Worker
         /\ \A x \in Item : [w EXCEPT !.todo = @ \ {x}] \in Worker
         /\ [w EXCEPT !.todo = {}] \in Worker
<1>1. NextEntry(w) \in Worker
  BY IdleType DEF NextEntry, Worker, Phase
<1>2. Applied(w) \in Worker
  BY <1>1 DEF Applied, Worker
<1>3. Refused(w) \in Worker
  BY <1>1 DEF Refused, Worker, Phase
<1>4. Mismatch(w) \in Worker
  BY <1>1 DEF Mismatch, Worker, Phase
<1>5. \A ph \in Phase : [w EXCEPT !.ph = ph] \in Worker
  BY DEF Worker
<1>6. /\ \A x \in Item : [w EXCEPT !.todo = @ \ {x}] \in Worker
      /\ [w EXCEPT !.todo = {}] \in Worker
  BY DEF Worker
<1> QED
  BY <1>1, <1>2, <1>3, <1>4, <1>5, <1>6

(* An edit of the right type keeps the types.                              *)
LEMMA EditType ==
  ASSUME TypeOK, NEW n \in Node, NEW p \in Path,
         NEW f \in File \cup {NoFile}, Edit(n, p, f)
  PROVE  TypeOK'
BY DEF TypeOK, Edit, daemonVars

(* Writes, chmods and removals by users keep the types.                    *)
LEMMA UserType ==
  ASSUME TypeOK, User
  PROVE  TypeOK'
<1>1. PICK n \in Node, p \in Path :
        \/ \E c \in Content : UserWrite(n, p, c)
        \/ \E mode \in Mode : UserChmod(n, p, mode)
        \/ UserRemove(n, p)
  BY DEF User
<1>2. disk[n][p] \in File \cup {NoFile}
  BY DEF TypeOK
<1>3. CASE \E c \in Content : UserWrite(n, p, c)
  <2>1. PICK c \in Content : UserWrite(n, p, c)
    BY <1>3
  <2> DEFINE t == OnDisk(n, Clock(n) + 2)
             mode == IF disk[n][p] = NoFile THEN DefaultMode
                                            ELSE disk[n][p].mode
  <2>2. t \in Nat
    BY ClockType
  <2>3. mode \in Nat
    BY <1>2, SyncAssumption DEF File
  <2>4. [hash |-> c, mtime |-> t, mode |-> mode] \in File
    BY <2>2, <2>3 DEF File
  <2> QED
    BY <2>1, <2>4, EditType DEF UserWrite
<1>4. CASE \E mode \in Mode : UserChmod(n, p, mode)
  <2>1. PICK mode \in Mode : UserChmod(n, p, mode)
    BY <1>4
  <2>2. [disk[n][p] EXCEPT !.mode = mode] \in File
    BY <1>2, <2>1, SyncAssumption DEF File, UserChmod
  <2> QED
    BY <2>1, <2>2, EditType DEF UserChmod
<1>5. CASE UserRemove(n, p)
  BY <1>5, EditType DEF UserRemove
<1> QED
  BY <1>1, <1>3, <1>4, <1>5

(* A change that Scan reports is an index entry.                           *)
LEMMA ScannedType ==
  ASSUME TypeOK, NEW n \in Node, NEW p \in Path, ScanChange(n, p),
         MustHash(n, p) => disk[n][p] # NoFile
  PROVE  Scanned(n, p) \in Entry
<1> DEFINE f == walk[n].files[p]
           prev == idx[n][p]
           last == IF prev = NoEntry THEN 0 ELSE prev.updatedAt
<1>1. /\ f \in File \cup {NoFile}
      /\ prev \in Entry \cup {NoEntry}
      /\ disk[n][p] \in File \cup {NoFile}
      /\ walk[n].at \in Nat
  BY DEF TypeOK
<1>2. last \in Nat
  BY <1>1 DEF Entry
<1>3. CASE f = NoFile
  <2>1. prev \in Entry
    BY <1>1, <1>3 DEF ScanChange, Live
  <2>2. stampUpdatedAt(walk[n].at, 0, last) \in Nat
    BY <1>1, <1>2, StampAdvances
  <2> QED
    BY <1>1, <1>3, <2>1, <2>2 DEF Scanned, Entry
<1>4. CASE f # NoFile
  <2>1. f \in File /\ f.mode \in Nat /\ f.mtime \in Nat
    BY <1>1, <1>4 DEF File
  <2>2. stampUpdatedAt(walk[n].at, f.mtime, last) \in Nat
    BY <1>1, <1>2, <2>1, StampAdvances
  <2>3. (IF FastPath(n, p) THEN prev.hash ELSE disk[n][p].hash) \in Nat
    <3>1. CASE FastPath(n, p)
      BY <1>1, <3>1 DEF FastPath, Live, Entry
    <3>2. CASE ~FastPath(n, p)
      BY <1>1, <1>4, <3>2, SyncAssumption DEF MustHash, File
    <3> QED
      BY <3>1, <3>2
  <2> QED
    BY <1>4, <2>1, <2>2, <2>3 DEF Scanned, Entry
<1> QED
  BY <1>3, <1>4

(* Applying the changes of a scan gives an index.                          *)
LEMMA ScanResultType ==
  ASSUME TypeOK, NEW n \in Node,
         \A p \in Path : MustHash(n, p) => disk[n][p] # NoFile
  PROVE  /\ ScanResult(n) \in [Path -> Entry \cup {NoEntry}]
         /\ GCTombstones(ScanResult(n), Clock(n), TTL)
              \in [Path -> Entry \cup {NoEntry}]
<1>1. idx[n] \in [Path -> Entry \cup {NoEntry}]
  BY DEF TypeOK
<1>2. ASSUME NEW p \in Path
      PROVE  ScanResult(n)[p] \in Entry \cup {NoEntry}
  <2>1. CASE ScanChange(n, p)
    BY <1>1, <2>1, ScannedType DEF ScanResult, SetIfWins
  <2>2. CASE ~ScanChange(n, p)
    BY <1>1, <2>2 DEF ScanResult
  <2> QED
    BY <2>1, <2>2
<1>3. ScanResult(n) \in [Path -> Entry \cup {NoEntry}]
  BY <1>2 DEF ScanResult
<1> QED
  BY <1>3 DEF GCTombstones

(* The steps of reconcile keep the types.                                  *)
LEMMA ReconcileType ==
  ASSUME TypeOK, NEW n \in Node, Reconcile(n)
  PROVE  TypeOK'
<1>1. CASE ScanWalk(n)
  <2>1. [at |-> Clock(n), files |-> disk[n]]
          \in [at: Nat, files: [Path -> File \cup {NoFile}]]
    BY ClockType DEF TypeOK
  <2> QED
    BY <1>1, <2>1 DEF TypeOK, ScanWalk
<1>2. NoWalk \in [at: Nat, files: [Path -> File \cup {NoFile}]]
  BY DEF NoWalk
<1>3. CASE ScanApply(n)
  <2>1. GCTombstones(ScanResult(n), Clock(n), TTL)
          \in [Path -> Entry \cup {NoEntry}]
    BY <1>3, ScanResultType DEF ScanApply
  <2> QED
    BY <1>2, <1>3, <2>1 DEF TypeOK, ScanApply, Started
<1>4. CASE ScanFails(n)
  BY <1>2, <1>4 DEF TypeOK, ScanFails, Abandoned
<1>5. CASE ReconcileSave(n)
  <2>1. faults' \in Nat
    BY <1>5 DEF TypeOK, ReconcileSave, Fault, NoFault
  <2>2. applies' \in [Node -> Nat]
    BY <1>5 DEF TypeOK, ReconcileSave
  <2>4. saved' \in [Node -> [Path -> Entry \cup {NoEntry}]]
    <3>1. idx[n] \in [Path -> Entry \cup {NoEntry}]
      BY DEF TypeOK
    <3>2. saved' = [saved EXCEPT ![n] = idx[n]] \/ saved' = saved
      BY <1>5 DEF ReconcileSave
    <3> QED
      BY <3>1, <3>2 DEF TypeOK
  <2>3. status' \in [Node -> {"starting", "running", "stopping", "draining",
                             "down", "crashed"}]
    BY <1>5 DEF TypeOK, ReconcileSave, Started, Abandoned
  <2> QED
    BY <1>5, <2>1, <2>2, <2>3, <2>4 DEF TypeOK, ReconcileSave
<1> QED
  BY <1>1, <1>3, <1>4, <1>5 DEF Reconcile

(* The fault counter stays a natural number.                               *)
LEMMA FaultType ==
  ASSUME TypeOK, Fault \/ NoFault
  PROVE  faults' \in Nat
BY DEF TypeOK, Fault, NoFault

(* What is known of a worker and its current item.                         *)
LEMMA WorkerType ==
  ASSUME TypeOK, NEW n \in Node, NEW m \in Node
  PROVE  /\ worker[n][m] \in Worker
         /\ worker[n][m].cur \in Item
         /\ worker[n][m].cur.path \in Path
         /\ worker[n][m].cur.entry \in Entry
         /\ worker[n][m].todo \in SUBSET Item
BY DEF TypeOK, Worker, Item

(* A step that changes one worker only keeps the types.                    *)
LEMMA MovesType ==
  ASSUME TypeOK, NEW n \in Node, NEW m \in Node, NEW w \in Worker,
         Moves(n, m, w), faults' \in Nat
  PROVE  TypeOK'
BY DEF TypeOK, Moves

(* Taking syncMu for a commit keeps the types.                             *)
LEMMA EntersCommitType ==
  ASSUME TypeOK, NEW n \in Node, NEW m \in Node, NEW w \in Worker,
         EntersCommit(n, m, w), faults' \in Nat
  PROVE  TypeOK'
BY DEF TypeOK, EntersCommit

(* Taking an item off the manifest keeps the worker's type.                *)
LEMMA TookType ==
  ASSUME TypeOK, NEW n \in Node, NEW m \in Node, NEW x \in worker[n][m].todo
  PROVE  /\ x \in Item /\ x.path \in Path /\ x.entry \in Entry
         /\ Took(n, m, x) \in Worker
         /\ Applied(Took(n, m, x)) \in Worker
         /\ \A ph \in Phase : Holding(n, m, x, ph) \in Worker
<1>1. x \in Item /\ worker[n][m] \in Worker
  BY WorkerType
<1>2. Took(n, m, x) \in Worker
  BY <1>1, WorkerSteps DEF Took
<1>3. \A ph \in Phase : Holding(n, m, x, ph) \in Worker
  BY <1>1, <1>2 DEF Holding, Worker
<1> QED
  BY <1>1, <1>2, <1>3, WorkerSteps DEF Item

(* The outcomes of applyRemote's decision keep the types.                  *)
LEMMA ApplyType ==
  ASSUME TypeOK, NEW n \in Node, NEW m \in Node, Apply(n, m)
  PROVE  TypeOK'
<1>1. PICK x \in worker[n][m].todo :
        \/ ApplyNoop(n, m, x)
        \/ ApplyTombstone(n, m, x)
        \/ ApplyDelete(n, m, x)
        \/ ApplyMeta(n, m, x)
        \/ ApplyContent(n, m, x)
  BY DEF Apply
<1>2. faults' \in Nat
  BY <1>1, FaultType
     DEF ApplyNoop, ApplyTombstone, ApplyDelete, ApplyMeta, ApplyContent
<1>3. CASE ApplyNoop(n, m, x)
  BY <1>2, <1>3, TookType, MovesType DEF ApplyNoop
<1>4. CASE ApplyTombstone(n, m, x)
  <2> DEFINE files == SetIfWins(idx[n], x.path, x.entry)
  <2>1. files \in [Path -> Entry \cup {NoEntry}]
    BY TookType DEF TypeOK, SetIfWins
  <2>2. idx' \in [Node -> [Path -> Entry \cup {NoEntry}]]
    BY <1>4, <2>1 DEF TypeOK, ApplyTombstone
  <2>3. worker' \in [Node -> [Node -> Worker]]
    BY <1>4, TookType DEF TypeOK, ApplyTombstone
  <2>4. applies' \in [Node -> Nat]
    BY <1>4 DEF TypeOK, ApplyTombstone
  <2> QED
    BY <1>2, <1>4, <2>2, <2>3, <2>4 DEF TypeOK, ApplyTombstone
<1>5. CASE ApplyDelete(n, m, x)
  <2>1. Holding(n, m, x, "remove") \in Worker
    BY TookType DEF Phase
  <2> QED
    BY <1>2, <1>5, <2>1, TookType, MovesType, EntersCommitType DEF ApplyDelete
<1>6. CASE ApplyMeta(n, m, x)
  <2>1. Holding(n, m, x, "metaTimes") \in Worker
    BY TookType DEF Phase
  <2> QED
    BY <1>2, <1>6, <2>1, TookType, MovesType, EntersCommitType DEF ApplyMeta
<1>7. CASE ApplyContent(n, m, x)
  <2>1. Holding(n, m, x, "fetch") \in Worker
    BY TookType DEF Phase
  <2>2. \A h \in {"delta", "last"} :
          [Holding(n, m, x, "fetch") EXCEPT !.how = h] \in Worker
    BY <2>1 DEF Worker
  <2> QED
    BY <1>2, <1>7, <2>2, MovesType DEF ApplyContent
<1> QED
  BY <1>1, <1>3, <1>4, <1>5, <1>6, <1>7

(* maybeSaveLocked keeps the types of what it writes.                      *)
LEMMA MaybeSaveType ==
  ASSUME TypeOK, NEW n \in Node, NEW files \in [Path -> Entry \cup {NoEntry}],
         maybeSaveLocked(n, files)
  PROVE  /\ applies' \in [Node -> Nat]
         /\ saved' \in [Node -> [Path -> Entry \cup {NoEntry}]]
         /\ faults' \in Nat
<1>1. faults' \in Nat
  BY FaultType DEF maybeSaveLocked
<1>2. /\ \/ applies' = [applies EXCEPT ![n] = applies[n] + 1]
         \/ applies' = [applies EXCEPT ![n] = 0]
      /\ saved' = [saved EXCEPT ![n] = files] \/ saved' = saved
  <2>1. CASE applies[n] + 1 < SaveEvery
    BY <2>1, Zenon DEF maybeSaveLocked
  <2>2. CASE ~(applies[n] + 1 < SaveEvery)
    BY <2>2, Zenon DEF maybeSaveLocked
  <2> QED
    BY <2>1, <2>2
<1>3. applies' \in [Node -> Nat]
  <2>1. applies \in [Node -> Nat] /\ applies[n] + 1 \in Nat
    BY DEF TypeOK
  <2> QED
    BY <1>2, <2>1
<1>4. saved' \in [Node -> [Path -> Entry \cup {NoEntry}]]
  BY <1>2 DEF TypeOK
<1> QED
  BY <1>1, <1>3, <1>4

(* Writing a file of the right type keeps the disk's type.                 *)
LEMMA WriteFileType ==
  ASSUME TypeOK, NEW n \in Node, NEW m \in Node, NEW p \in Path,
         NEW f \in File \cup {NoFile}, WriteFile(n, m, p, f)
  PROVE  /\ disk' \in [Node -> [Path -> File \cup {NoFile}]]
         /\ pulled' \in [Node -> [Path -> BOOLEAN]]
BY DEF TypeOK, WriteFile

(* Moving a worker to another phase keeps the workers' type.               *)
LEMMA PhaseType ==
  ASSUME TypeOK, NEW n \in Node, NEW m \in Node, NEW ph \in Phase,
         worker' = [worker EXCEPT ![n][m].ph = ph]
  PROVE  worker' \in [Node -> [Node -> Worker]]
<1>1. [worker[n][m] EXCEPT !.ph = ph] \in Worker
  BY WorkerType, WorkerSteps
<1> QED
  BY <1>1 DEF TypeOK

(* A commit that fails keeps the types.                                    *)
LEMMA CommitFailsType ==
  ASSUME TypeOK, NEW n \in Node, NEW m \in Node, CommitFails(n, m),
         disk' \in [Node -> [Path -> File \cup {NoFile}]],
         pulled' \in [Node -> [Path -> BOOLEAN]]
  PROVE  TypeOK'
<1>1. NextEntry(worker[n][m]) \in Worker
  BY WorkerType, WorkerSteps
<1>2. faults' \in Nat
  BY FaultType DEF CommitFails
<1> QED
  BY <1>1, <1>2 DEF TypeOK, CommitFails

(* The last step of a commit keeps the types.                              *)
LEMMA EndsCommitType ==
  ASSUME TypeOK, NEW n \in Node, NEW m \in Node,
         NEW files \in [Path -> Entry \cup {NoEntry}], EndsCommit(n, m, files)
  PROVE  /\ idx' \in [Node -> [Path -> Entry \cup {NoEntry}]]
         /\ lock' \in [Node -> {"free", "scan", "save"} \cup Node]
         /\ worker' \in [Node -> [Node -> Worker]]
<1>1. Applied(worker[n][m]) \in Worker
  BY WorkerType, WorkerSteps
<1> QED
  BY <1>1 DEF TypeOK, EndsCommit

(* What a worker has verified is the content of some file.  TypeOK is not  *)
(* inductive without it: a commit writes the hash of the peer's entry.     *)
Received ==
  \A n, m \in Node :
    worker[n][m].ph \in {"got", "rename"} => worker[n][m].cur.entry.hash \in Content

(* CommitRename keeps the types: what was received is content.             *)
LEMMA CommitRenameType ==
  ASSUME TypeOK, Received, NEW n \in Node, NEW m \in Node, CommitRename(n, m)
  PROVE  TypeOK'
<1> DEFINE x == worker[n][m].cur
           f == [hash |-> x.entry.hash, mode |-> fileMode(x.entry.mode),
                 mtime |-> OnDisk(n, WriteTime(n))]
<1>1. CASE WriteFile(n, m, x.path, f)
           /\ worker' = [worker EXCEPT ![n][m].ph = "chtimes"]
           /\ UNCHANGED <<now, idx, saved, status, lock, walk, applies, halts>>
           /\ NoFault
  <2>1. x.path \in Path /\ x.entry.mode \in Nat
    BY WorkerType DEF Entry
  <2>2. x.entry.hash \in Content
    BY DEF CommitRename, InCommit, Received
  <2>3. f \in File
    BY <2>1, <2>2, ClockType, FileModeType DEF File
  <2>4. /\ disk' \in [Node -> [Path -> File \cup {NoFile}]]
        /\ pulled' \in [Node -> [Path -> BOOLEAN]]
    BY <1>1, <2>1, <2>3, WriteFileType
  <2>5. worker' \in [Node -> [Node -> Worker]]
    BY <1>1, PhaseType DEF Phase
  <2> QED
    BY <1>1, <2>4, <2>5 DEF TypeOK, NoFault
<1>2. CASE CommitFails(n, m) /\ UNCHANGED <<disk, pulled>>
  BY <1>2, CommitFailsType DEF TypeOK
<1> QED
  BY <1>1, <1>2 DEF CommitRename

(* A file whose mtime is set is still a file.                              *)
LEMMA SetTimeType ==
  ASSUME TypeOK, NEW n \in Node, NEW m \in Node, NEW p \in Path,
         NEW t \in Nat, disk[n][p] # NoFile,
         WriteFile(n, m, p, [disk[n][p] EXCEPT !.mtime = OnDisk(n, t)])
  PROVE  /\ disk' \in [Node -> [Path -> File \cup {NoFile}]]
         /\ pulled' \in [Node -> [Path -> BOOLEAN]]
<1>1. disk[n][p] \in File /\ OnDisk(n, t) \in Nat
  BY ClockType DEF TypeOK
<1>2. [disk[n][p] EXCEPT !.mtime = OnDisk(n, t)] \in File
  BY <1>1 DEF File
<1> QED
  BY <1>2, WriteFileType

(* CommitChtimes keeps the types.                                          *)
LEMMA CommitChtimesType ==
  ASSUME TypeOK, NEW n \in Node, NEW m \in Node, CommitChtimes(n, m)
  PROVE  TypeOK'
<1> DEFINE x == worker[n][m].cur
<1>1. x.path \in Path /\ x.entry.mtime \in Nat
  BY WorkerType DEF Entry
<1>2. worker' \in [Node -> [Node -> Worker]]
  BY PhaseType DEF Phase, CommitChtimes
<1>3. CASE /\ disk[n][x.path] # NoFile
           /\ WriteFile(n, m, x.path, [disk[n][x.path] EXCEPT
                                         !.mtime = OnDisk(n, x.entry.mtime)])
           /\ NoFault
  <2>1. /\ disk' \in [Node -> [Path -> File \cup {NoFile}]]
        /\ pulled' \in [Node -> [Path -> BOOLEAN]]
    BY <1>1, <1>3, SetTimeType
  <2> QED
    BY <1>2, <1>3, <2>1 DEF TypeOK, CommitChtimes, NoFault
<1>4. CASE /\ IF disk[n][x.path] = NoFile THEN NoFault ELSE Fault
           /\ UNCHANGED <<disk, pulled>>
  <2>1. faults' \in Nat
    BY <1>4, FaultType
  <2> QED
    BY <1>2, <1>4, <2>1 DEF TypeOK, CommitChtimes
<1> QED
  BY <1>3, <1>4 DEF CommitChtimes

(* CommitSet keeps the types.                                              *)
LEMMA CommitSetType ==
  ASSUME TypeOK, NEW n \in Node, NEW m \in Node, CommitSet(n, m)
  PROVE  TypeOK'
<1> DEFINE x == worker[n][m].cur
           meta == diskMeta(n, x)
           entry == [x.entry EXCEPT !.mode = meta.mode, !.mtime = meta.mtime]
           files == [idx[n] EXCEPT ![x.path] = entry]
<1>1. x.path \in Path /\ x.entry \in Entry
  BY WorkerType
<1>2. meta.mode \in Nat /\ meta.mtime \in Nat
  <2>1. disk[n][x.path] \in File \cup {NoFile}
    BY <1>1 DEF TypeOK
  <2>2. x.entry.mode \in Nat /\ x.entry.mtime \in Nat
    BY <1>1 DEF Entry
  <2> QED
    BY <2>1, <2>2, FileModeType DEF diskMeta, File
<1>3. entry \in Entry
  BY <1>1, <1>2 DEF Entry
<1>4. files \in [Path -> Entry \cup {NoEntry}]
  BY <1>1, <1>3 DEF TypeOK
<1>5. EndsCommit(n, m, files) /\ maybeSaveLocked(n, files)
  BY DEF CommitSet
<1> HIDE DEF files
<1>6. /\ idx' \in [Node -> [Path -> Entry \cup {NoEntry}]]
      /\ lock' \in [Node -> {"free", "scan", "save"} \cup Node]
      /\ worker' \in [Node -> [Node -> Worker]]
  BY <1>4, <1>5, EndsCommitType
<1>7. /\ applies' \in [Node -> Nat]
      /\ saved' \in [Node -> [Path -> Entry \cup {NoEntry}]]
      /\ faults' \in Nat
  BY <1>4, <1>5, MaybeSaveType
<1> QED
  BY <1>5, <1>6, <1>7 DEF TypeOK, CommitSet, EndsCommit

(* CommitRemove keeps the types.                                           *)
LEMMA CommitRemoveType ==
  ASSUME TypeOK, NEW n \in Node, NEW m \in Node, CommitRemove(n, m)
  PROVE  TypeOK'
<1> DEFINE x == worker[n][m].cur
           files == SetIfWins(idx[n], x.path, x.entry)
<1>1. x.path \in Path /\ x.entry \in Entry
  BY WorkerType
<1>2. files \in [Path -> Entry \cup {NoEntry}]
  BY <1>1 DEF TypeOK, SetIfWins
<1>3. CASE /\ WriteFile(n, m, x.path, NoFile)
           /\ EndsCommit(n, m, files)
           /\ maybeSaveLocked(n, files)
  <2> HIDE DEF files
  <2>1. /\ idx' \in [Node -> [Path -> Entry \cup {NoEntry}]]
        /\ lock' \in [Node -> {"free", "scan", "save"} \cup Node]
        /\ worker' \in [Node -> [Node -> Worker]]
    BY <1>2, <1>3, EndsCommitType
  <2>2. /\ applies' \in [Node -> Nat]
        /\ saved' \in [Node -> [Path -> Entry \cup {NoEntry}]]
        /\ faults' \in Nat
    BY <1>2, <1>3, MaybeSaveType
  <2>3. /\ disk' \in [Node -> [Path -> File \cup {NoFile}]]
        /\ pulled' \in [Node -> [Path -> BOOLEAN]]
    BY <1>1, <1>3, WriteFileType
  <2> QED
    BY <1>3, <2>1, <2>2, <2>3 DEF TypeOK, EndsCommit
<1>4. CASE CommitFails(n, m) /\ UNCHANGED <<disk, pulled>>
  BY <1>4, CommitFailsType DEF TypeOK
<1> QED
  BY <1>3, <1>4 DEF CommitRemove

(* MetaTimes keeps the types.                                              *)
LEMMA MetaTimesType ==
  ASSUME TypeOK, NEW n \in Node, NEW m \in Node, MetaTimes(n, m)
  PROVE  TypeOK'
<1> DEFINE x == worker[n][m].cur
<1>1. x.path \in Path /\ x.entry.mtime \in Nat
  BY WorkerType DEF Entry
<1>2. CASE /\ disk[n][x.path] # NoFile
           /\ WriteFile(n, m, x.path, [disk[n][x.path] EXCEPT
                                         !.mtime = OnDisk(n, x.entry.mtime)])
           /\ worker' = [worker EXCEPT ![n][m].ph = "metaSet"]
           /\ UNCHANGED <<now, idx, saved, status, lock, walk, applies, halts>>
           /\ NoFault
  <2>1. /\ disk' \in [Node -> [Path -> File \cup {NoFile}]]
        /\ pulled' \in [Node -> [Path -> BOOLEAN]]
    BY <1>1, <1>2, SetTimeType
  <2>2. worker' \in [Node -> [Node -> Worker]]
    BY <1>2, PhaseType DEF Phase
  <2> QED
    BY <1>2, <2>1, <2>2 DEF TypeOK, NoFault
<1>3. CASE CommitFails(n, m) /\ UNCHANGED <<disk, pulled>>
  BY <1>3, CommitFailsType DEF TypeOK
<1> QED
  BY <1>2, <1>3 DEF MetaTimes

(* MetaSet keeps the types: the entry it updates is live.                  *)
LEMMA MetaSetType ==
  ASSUME TypeOK, CommitBasis, NEW n \in Node, NEW m \in Node, MetaSet(n, m)
  PROVE  TypeOK'
<1> DEFINE x == worker[n][m].cur
           local == idx[n][x.path]
           f == disk[n][x.path]
           entry == [local EXCEPT !.updatedAt = x.entry.updatedAt,
                                  !.mode = fileMode(x.entry.mode),
                                  !.mtime = f.mtime]
           files == [idx[n] EXCEPT ![x.path] = entry]
<1>1. /\ x.path \in Path
      /\ x.entry.updatedAt \in Nat
      /\ fileMode(x.entry.mode) \in Nat
      /\ f \in File \cup {NoFile}
  <2>1. x.path \in Path /\ x.entry \in Entry
    BY WorkerType
  <2>2. x.entry.updatedAt \in Nat /\ x.entry.mode \in Nat
    BY <2>1 DEF Entry
  <2>3. f \in File \cup {NoFile}
    BY <2>1 DEF TypeOK
  <2> QED
    BY <2>1, <2>2, <2>3, FileModeType
<1>2. local \in Entry /\ local.mtime \in Nat /\ fileMode(local.mode) \in Nat
  <2>1. local # NoEntry
    BY DEF CommitBasis, Entitled, MetaSet, InCommit, Live
  <2>2. local \in Entry
    BY <1>1, <2>1 DEF TypeOK
  <2> QED
    BY <2>2, FileModeType DEF Entry
<1>3. CASE /\ f # NoFile
           /\ WriteFile(n, m, x.path, [f EXCEPT !.mode = fileMode(x.entry.mode)])
           /\ EndsCommit(n, m, files)
           /\ applies' = [applies EXCEPT ![n] = @ + 1]
           /\ UNCHANGED saved
           /\ NoFault
  <2>1. f \in File /\ f.mtime \in Nat
    BY <1>1, <1>3 DEF File
  <2>2. [f EXCEPT !.mode = fileMode(x.entry.mode)] \in File
    BY <1>1, <2>1 DEF File
  <2>3. entry \in Entry
    BY <1>1, <1>2, <2>1 DEF Entry
  <2>4. files \in [Path -> Entry \cup {NoEntry}]
    BY <1>1, <2>3 DEF TypeOK
  <2>5. /\ disk' \in [Node -> [Path -> File \cup {NoFile}]]
        /\ pulled' \in [Node -> [Path -> BOOLEAN]]
    BY <1>1, <1>3, <2>2, WriteFileType
  <2> HIDE DEF files
  <2>6. /\ idx' \in [Node -> [Path -> Entry \cup {NoEntry}]]
        /\ lock' \in [Node -> {"free", "scan", "save"} \cup Node]
        /\ worker' \in [Node -> [Node -> Worker]]
    BY <1>3, <2>4, EndsCommitType
  <2>7. applies' \in [Node -> Nat]
    BY <1>3 DEF TypeOK
  <2> QED
    BY <1>3, <2>5, <2>6, <2>7 DEF TypeOK, EndsCommit, NoFault
<1>4. CASE /\ CommitFails(n, m)
           /\ IF f = NoFile
                THEN UNCHANGED <<disk, pulled>>
                ELSE WriteFile(n, m, x.path,
                               [f EXCEPT !.mode = fileMode(local.mode),
                                         !.mtime = OnDisk(n, local.mtime)])
  <2>1. CASE f = NoFile
    BY <1>4, <2>1, CommitFailsType DEF TypeOK
  <2>2. CASE f # NoFile
    <3>1. f \in File
      BY <1>1, <2>2
    <3>2. OnDisk(n, local.mtime) \in Nat
      BY <1>2, ClockType
    <3>3. [f EXCEPT !.mode = fileMode(local.mode),
                    !.mtime = OnDisk(n, local.mtime)] \in File
      BY <1>2, <3>1, <3>2 DEF File
    <3>4. /\ disk' \in [Node -> [Path -> File \cup {NoFile}]]
          /\ pulled' \in [Node -> [Path -> BOOLEAN]]
      BY <1>1, <1>4, <2>2, <3>3, WriteFileType
    <3> QED
      BY <1>4, <3>4, CommitFailsType
  <2> QED
    BY <2>1, <2>2
<1> QED
  BY <1>3, <1>4 DEF MetaSet

(* Every step of a pull worker keeps the types.                            *)
LEMMA PullType ==
  ASSUME TypeOK, Received, CommitBasis,
         NEW n \in Node, NEW m \in Node, Pull(n, m)
  PROVE  TypeOK'
<1>1. worker[n][m] \in Worker
  BY WorkerType
<1>2. CASE fetchManifest(n, m)
  <2>1. Manifest(m) \in SUBSET Item
    BY DEF Manifest, Item, TypeOK
  <2>2. [worker[n][m] EXCEPT !.ph = "apply", !.todo = Manifest(m)] \in Worker
    BY <1>1, <2>1 DEF Worker, Phase
  <2> QED
    BY <1>2, <2>2, MovesType, FaultType DEF fetchManifest
<1>3. CASE TransportError(n, m)
  <2>1. [NextEntry(worker[n][m]) EXCEPT !.todo = {}] \in Worker
    BY <1>1, WorkerSteps
  <2>2. faults' \in Nat
    BY <1>3, FaultType DEF TransportError
  <2> QED
    BY <1>3, <2>1, <2>2, MovesType DEF TransportError
<1>4. CASE ContextDone(n, m)
  BY <1>1, <1>4, IdleType, WorkerSteps, MovesType, FaultType DEF ContextDone
<1>5. CASE Apply(n, m)
  BY <1>5, ApplyType
<1>6. CASE Request(n, m)
  BY <1>1, <1>6, WorkerSteps, MovesType, FaultType DEF Request, Phase
<1>7. CASE serveFile(n, m)
  BY <1>1, <1>7, WorkerSteps, MovesType, FaultType DEF serveFile, Phase
<1>8. CASE CommitCheck(n, m)
  BY <1>1, <1>8, WorkerSteps, MovesType, EntersCommitType, FaultType
     DEF CommitCheck, Phase
<1>9. CASE Commit(n, m)
  BY <1>9, CommitRenameType, CommitChtimesType, CommitSetType,
     CommitRemoveType, MetaTimesType, MetaSetType DEF Commit
<1>10. CASE PullDone(n, m)
  <2>1. faults' \in Nat
    BY <1>10, FaultType DEF PullDone
  <2>2. worker' \in [Node -> [Node -> Worker]]
    BY <1>10, IdleType DEF PullDone, TypeOK
  <2>3. saved' = [saved EXCEPT ![n] = idx[n]] \/ saved' = saved
    BY <1>10 DEF PullDone, TypeOK
  <2>4. saved' \in [Node -> [Path -> Entry \cup {NoEntry}]]
    BY <2>3 DEF TypeOK
  <2>5. applies' = [applies EXCEPT ![n] = 0] \/ applies' = applies
    BY <1>10 DEF PullDone, TypeOK
  <2>6. applies' \in [Node -> Nat]
    <3>1. applies \in [Node -> Nat]
      BY DEF TypeOK
    <3> QED
      BY <2>5, <3>1
  <2> QED
    BY <1>10, <2>1, <2>2, <2>4, <2>6 DEF PullDone, TypeOK
<1> QED
  BY <1>2, <1>3, <1>4, <1>5, <1>6, <1>7, <1>8, <1>9, <1>10 DEF Pull

(* Every step keeps the types.                                             *)
LEMMA StepType ==
  ASSUME TypeOK, Received, CommitBasis, [Next]_vars
  PROVE  TypeOK'
<1>1. CASE User
  BY <1>1, UserType
<1>2. CASE Tick
  BY <1>2 DEF TypeOK, Tick, daemonVars
<1>3. ASSUME NEW n \in Node, Reconcile(n)
      PROVE  TypeOK'
  BY <1>3, ReconcileType
<1>4. ASSUME NEW n \in Node, Life(n)
      PROVE  TypeOK'
  <2>1. faults' \in Nat
    BY <1>4, FaultType
       DEF Life, Stop, ShutdownSave, Drained, Crash, Restart, TypeOK
  <2>2. CASE Stop(n)
    BY <2>2 DEF TypeOK, Stop
  <2>3. CASE ShutdownSave(n)
    <3>1. saved' = [saved EXCEPT ![n] = idx[n]] \/ saved' = saved
      BY <2>3 DEF ShutdownSave
    <3>2. saved' \in [Node -> [Path -> Entry \cup {NoEntry}]]
      BY <3>1 DEF TypeOK
    <3> QED
      BY <2>1, <2>3, <3>2 DEF TypeOK, ShutdownSave
  <2>4. CASE Drained(n)
    BY <2>4 DEF TypeOK, Drained
  <2>5. CASE Crash(n)
    <3>1. NoWalk \in [at: Nat, files: [Path -> File \cup {NoFile}]]
      BY DEF NoWalk
    <3> QED
      BY <2>5, <3>1, IdleType DEF TypeOK, Crash
  <2>6. CASE Restart(n)
    BY <2>6 DEF TypeOK, Restart
  <2> QED
    BY <1>4, <2>2, <2>3, <2>4, <2>5, <2>6 DEF Life
<1>5. ASSUME NEW n \in Node, NEW S \in SUBSET Node, pullPeers(n, S)
      PROVE  TypeOK'
  <2>1. [Idle EXCEPT !.ph = "manifest"] \in Worker
    BY IdleType, WorkerSteps DEF Phase
  <2> QED
    BY <1>5, <2>1, IdleType DEF TypeOK, pullPeers
<1>6. ASSUME NEW n \in Node, NEW m \in Node, Pull(n, m)
      PROVE  TypeOK'
  BY <1>6, PullType
<1>7. CASE UNCHANGED vars
  BY <1>7 DEF TypeOK, vars
<1> QED
  BY <1>1, <1>2, <1>3, <1>4, <1>5, <1>6, <1>7 DEF Next

-----------------------------------------------------------------------------
(* The inductive invariant *)

(* A daemon that is not up has no worker under way and nobody in syncMu,   *)
(* and one that has done its final save lets nobody in.                    *)
Quiet ==
  \A n \in Node :
    /\ status[n] \in {"starting", "down", "crashed"} =>
         \A m \in Node : worker[n][m].ph = "idle"
    /\ status[n] \in {"draining", "down", "crashed"} => lock[n] = "free"

(* From the save at the end of Run on, index.json is the index.            *)
FinalSave ==
  \A n \in Node :
    (status[n] \in {"draining", "down"} /\ faults = 0) => saved[n] = idx[n]

IInv == TypeOK /\ Received /\ CommitBasis /\ Quiet /\ FinalSave

(* The invariant holds initially.                                          *)
LEMMA InitIInv ==
  ASSUME Init
  PROVE  IInv
<1>1. TypeOK
  BY IdleType DEF Init, TypeOK, NoWalk
<1>2. \A n, m \in Node : worker[n][m] = Idle
  BY DEF Init
<1>3. Received /\ CommitBasis
  BY <1>2, SMTT(30) DEF Received, CommitBasis, Entitled, Idle
<1>4. Quiet /\ FinalSave
  BY DEF Init, Quiet, FinalSave
<1> QED
  BY <1>1, <1>3, <1>4 DEF IInv
-----------------------------------------------------------------------------
(* All that the invariant needs to know of a step of the worker of n that  *)
(* pulls from m.                                                           *)
PullStep(n, m, w) ==
  /\ worker' = [worker EXCEPT ![n][m] = w]
  /\ w.ph \in {"got", "rename"} => w.cur.entry.hash \in Content
  /\ Entitled(m, w, lock'[n], idx'[n])
  /\ worker[n][m].ph # "idle"
  /\ status' = status
  /\ faults' >= faults
  /\ \A k \in Node \ {n} :
       lock'[k] = lock[k] /\ idx'[k] = idx[k] /\ saved'[k] = saved[k]
  /\ \/ lock' = lock /\ idx' = idx
     \/ lock[n] = "free" /\ status[n] = "running"
     \/ lock[n] = m
  /\ saved'[n] \in {saved[n], idx'[n]}

(* Faults are only ever added.                                             *)
LEMMA FaultsGrow ==
  ASSUME TypeOK, Fault \/ NoFault
  PROVE  faults' >= faults
BY DEF TypeOK, Fault, NoFault

(* A worker that is in no commit phase is entitled to nothing.             *)
LEMMA OutsideCommit ==
  ASSUME NEW m, NEW w, NEW holder, NEW files,
         w.ph \in {"idle", "manifest", "apply", "fetch", "read", "got"}
  PROVE  Entitled(m, w, holder, files)
BY DEF Entitled

(* Going on to the next entry is not a commit phase.                       *)
LEMMA NextEntryPhase ==
  ASSUME NEW w \in Worker
  PROVE  /\ NextEntry(w).ph = "apply"
         /\ Applied(w).ph = "apply"
         /\ Refused(w).ph \in {"apply", "fetch"}
         /\ Mismatch(w).ph \in {"apply", "fetch"}
         /\ [NextEntry(w) EXCEPT !.todo = {}].ph = "apply"
BY DEF NextEntry, Applied, Refused, Mismatch, Worker

(* A step that changes one worker only, outside commits.                   *)
LEMMA MovesStep ==
  ASSUME TypeOK, NEW n \in Node, NEW m \in Node, NEW w,
         Moves(n, m, w), Fault \/ NoFault,
         worker[n][m].ph # "idle",
         w.ph \in {"idle", "apply", "fetch", "read"}
  PROVE  PullStep(n, m, w)
<1>1. faults' >= faults
  BY FaultsGrow
<1>2. Entitled(m, w, lock'[n], idx'[n])
  BY OutsideCommit
<1> QED
  BY <1>1, <1>2 DEF PullStep, Moves

(* What decideApply guarantees of the two kinds that go on under syncMu.   *)
LEMMA DecideApply ==
  ASSUME NEW local \in Entry \cup {NoEntry}, NEW remote \in Entry,
         NEW present \in BOOLEAN
  PROVE  /\ decideApply(local, remote, present) = "delete" =>
              Wins(local, remote)
         /\ decideApply(local, remote, present) = "meta" =>
              /\ Live(local)
              /\ local.hash = remote.hash
              /\ local.updatedAt <= remote.updatedAt
<1> DEFINE d == decideApply(local, remote, present)
<1>1. CASE remote.deleted /\ ~Live(local)
  BY <1>1 DEF decideApply
<1>2. CASE remote.deleted /\ Live(local)
  BY <1>2 DEF decideApply, Live
<1>3. CASE ~remote.deleted /\ Live(local) /\ local.hash = remote.hash
  <2>1. local \in Entry
    BY <1>3 DEF Live
  <2>2. d # "delete"
    BY <1>3 DEF decideApply
  <2>3. d = "meta" => Wins(local, remote)
    BY <1>3 DEF decideApply, Live
  <2>4. Wins(local, remote) => local.updatedAt <= remote.updatedAt
    BY <2>1 DEF Wins, Entry
  <2> QED
    BY <1>3, <2>2, <2>3, <2>4
<1>4. CASE ~remote.deleted /\ ~(Live(local) /\ local.hash = remote.hash)
  BY <1>4 DEF decideApply
<1> QED
  BY <1>1, <1>2, <1>3, <1>4 DEF Entry

(* The decision of applyRemote, whatever it is, is a PullStep.             *)
LEMMA ApplyStep ==
  ASSUME TypeOK, NEW n \in Node, NEW m \in Node, Apply(n, m)
  PROVE  \E w : PullStep(n, m, w)
<1>1. PICK x \in worker[n][m].todo :
        \/ ApplyNoop(n, m, x)
        \/ ApplyTombstone(n, m, x)
        \/ ApplyDelete(n, m, x)
        \/ ApplyMeta(n, m, x)
        \/ ApplyContent(n, m, x)
  BY DEF Apply
<1>2. /\ x.path \in Path
      /\ x.entry \in Entry
      /\ Took(n, m, x) \in Worker
      /\ idx[n][x.path] \in Entry \cup {NoEntry}
      /\ faults' >= faults
      /\ worker[n][m].ph = "apply" /\ lock[n] = "free" /\ status[n] = "running"
  BY <1>1, TookType, FaultsGrow
     DEF ApplyNoop, ApplyTombstone, ApplyDelete, ApplyMeta, ApplyContent,
         Applying, TypeOK
<1>3. Took(n, m, x).ph = "apply" /\ Applied(Took(n, m, x)).ph = "apply"
  <2>1. worker[n][m] \in Worker
    BY WorkerType
  <2>2. Took(n, m, x).ph = "apply"
    BY <1>2, <2>1 DEF Took, Worker
  <2> QED
    BY <1>2, <2>2, NextEntryPhase
<1>4. \A ph \in Phase : /\ Holding(n, m, x, ph).ph = ph
                        /\ Holding(n, m, x, ph).cur = x
  BY <1>2 DEF Holding, Worker
<1>5. CASE ApplyNoop(n, m, x)
  BY <1>2, <1>3, <1>5, MovesStep DEF ApplyNoop
<1>6. CASE ApplyTombstone(n, m, x)
  <2> DEFINE w == IF SetIfWins(idx[n], x.path, x.entry) # idx[n]
                    THEN Applied(Took(n, m, x)) ELSE Took(n, m, x)
  <2>1. w.ph = "apply"
    BY <1>3
  <2>2. Entitled(m, w, lock'[n], idx'[n])
    BY <2>1, OutsideCommit
  <2>3. worker' = [worker EXCEPT ![n][m] = w]
    BY <1>6 DEF ApplyTombstone
  <2>4. \A k \in Node \ {n} : idx'[k] = idx[k]
    BY <1>6 DEF ApplyTombstone, TypeOK
  <2> HIDE DEF w
  <2>5. PullStep(n, m, w)
    BY <1>2, <1>6, <2>1, <2>2, <2>3, <2>4, Zenon DEF PullStep, ApplyTombstone
  <2> QED
    BY <2>5
<1>7. ASSUME NEW ph \in Phase, ph # "got", ph # "rename",
             EntersCommit(n, m, Holding(n, m, x, ph)),
             Entitled(m, Holding(n, m, x, ph), m, idx[n])
      PROVE  \E w : PullStep(n, m, w)
  <2> DEFINE w == Holding(n, m, x, ph)
  <2>1. w.ph = ph
    BY <1>4
  <2>2. lock'[n] = m /\ \A k \in Node \ {n} : lock'[k] = lock[k]
    BY <1>7 DEF EntersCommit, TypeOK
  <2>3. Entitled(m, w, lock'[n], idx'[n])
    BY <1>7, <2>2 DEF EntersCommit
  <2>4. worker' = [worker EXCEPT ![n][m] = w]
    BY <1>7 DEF EntersCommit
  <2> HIDE DEF w
  <2>5. PullStep(n, m, w)
    BY <1>2, <1>7, <2>1, <2>2, <2>3, <2>4, Zenon DEF PullStep, EntersCommit
  <2> QED
    BY <2>5
<1>8. CASE ApplyDelete(n, m, x)
  <2>1. CASE diskUnsynced(n, x.path)
    BY <1>2, <1>3, <1>8, <2>1, MovesStep DEF ApplyDelete
  <2>2. CASE ~diskUnsynced(n, x.path)
    <3>1. Wins(idx[n][x.path], x.entry)
      BY <1>2, <1>8, DecideApply, Zenon DEF ApplyDelete, Applying
    <3>2. "remove" \in Phase /\ Holding(n, m, x, "remove").ph = "remove"
          /\ Holding(n, m, x, "remove").cur = x
      BY <1>4 DEF Phase
    <3>3. Entitled(m, Holding(n, m, x, "remove"), m, idx[n])
      BY <3>1, <3>2 DEF Entitled
    <3> QED
      BY <1>7, <1>8, <2>2, <3>2, <3>3 DEF ApplyDelete
  <2> QED
    BY <2>1, <2>2
<1>9. CASE ApplyMeta(n, m, x)
  <2>1. CASE diskUnsynced(n, x.path)
    BY <1>2, <1>3, <1>9, <2>1, MovesStep DEF ApplyMeta
  <2>2. CASE ~diskUnsynced(n, x.path)
    <3>1. /\ Live(idx[n][x.path])
          /\ idx[n][x.path].hash = x.entry.hash
          /\ idx[n][x.path].updatedAt <= x.entry.updatedAt
      BY <1>2, <1>9, DecideApply, Zenon DEF ApplyMeta, Applying
    <3>2. "metaTimes" \in Phase
          /\ Holding(n, m, x, "metaTimes").ph = "metaTimes"
          /\ Holding(n, m, x, "metaTimes").cur = x
      BY <1>4 DEF Phase
    <3>3. Entitled(m, Holding(n, m, x, "metaTimes"), m, idx[n])
      BY <3>1, <3>2 DEF Entitled
    <3> QED
      BY <1>7, <1>9, <2>2, <3>2, <3>3 DEF ApplyMeta
  <2> QED
    BY <2>1, <2>2
<1>10. CASE ApplyContent(n, m, x)
  <2> DEFINE how == IF useDelta(idx[n][x.path], x.entry) THEN "delta" ELSE "last"
             w == [Holding(n, m, x, "fetch") EXCEPT !.how = how]
  <2>1. Holding(n, m, x, "fetch").ph = "fetch" /\ Holding(n, m, x, "fetch") \in Worker
    BY <1>4, TookType DEF Phase
  <2>2. w.ph = "fetch"
    BY <2>1 DEF Worker
  <2> QED
    BY <1>2, <1>10, <2>2, MovesStep, Zenon DEF ApplyContent
<1> QED
  BY <1>1, <1>5, <1>6, <1>8, <1>9, <1>10

(* A step inside a commit that changes only files and the worker's phase.  *)
LEMMA InCommitStep ==
  ASSUME IInv, NEW n \in Node, NEW m \in Node, NEW ph,
         worker' = [worker EXCEPT ![n][m].ph = ph],
         UNCHANGED <<idx, saved, status, lock>>, Fault \/ NoFault,
         \/ worker[n][m].ph \in {"rename", "chtimes"} /\ ph \in {"chtimes", "set"}
         \/ worker[n][m].ph = "metaTimes" /\ ph = "metaSet"
  PROVE  \E w : PullStep(n, m, w)
<1> DEFINE w == [worker[n][m] EXCEPT !.ph = ph]
<1>1. worker[n][m] \in Worker /\ faults' >= faults
  BY WorkerType, FaultsGrow DEF IInv
<1>2. w.ph = ph /\ w.cur = worker[n][m].cur
  BY <1>1 DEF Worker
<1>3. Entitled(m, worker[n][m], lock[n], idx[n])
  BY DEF IInv, CommitBasis
<1>4. Entitled(m, w, lock'[n], idx'[n])
  BY <1>2, <1>3 DEF Entitled
<1>5. worker' = [worker EXCEPT ![n][m] = w]
  BY DEF IInv, TypeOK
<1> HIDE DEF w
<1>6. PullStep(n, m, w)
  BY <1>1, <1>2, <1>4, <1>5, Zenon DEF PullStep
<1> QED
  BY <1>6

(* A commit that fails is a PullStep.                                      *)
LEMMA CommitFailsStep ==
  ASSUME IInv, NEW n \in Node, NEW m \in Node, CommitFails(n, m),
         lock[n] = m, worker[n][m].ph # "idle"
  PROVE  \E w : PullStep(n, m, w)
<1> DEFINE w == NextEntry(worker[n][m])
<1>1. worker[n][m] \in Worker /\ faults' >= faults
  BY WorkerType, FaultsGrow DEF IInv, CommitFails
<1>2. w.ph = "apply"
  BY <1>1, NextEntryPhase
<1>3. Entitled(m, w, lock'[n], idx'[n])
  BY <1>2, OutsideCommit
<1>4. worker' = [worker EXCEPT ![n][m] = w]
  BY DEF CommitFails, IInv, TypeOK
<1>5. \A k \in Node \ {n} : lock'[k] = lock[k]
  BY DEF CommitFails, IInv, TypeOK
<1> HIDE DEF w
<1>6. PullStep(n, m, w)
  BY <1>1, <1>2, <1>3, <1>4, <1>5, Zenon DEF PullStep, CommitFails
<1> QED
  BY <1>6

(* The last step of a commit is a PullStep.                                *)
LEMMA EndsCommitStep ==
  ASSUME IInv, NEW n \in Node, NEW m \in Node, NEW files,
         EndsCommit(n, m, files), lock[n] = m, worker[n][m].ph # "idle",
         \/ maybeSaveLocked(n, files)
         \/ UNCHANGED saved /\ NoFault
  PROVE  \E w : PullStep(n, m, w)
<1> DEFINE w == Applied(worker[n][m])
<1>1. worker[n][m] \in Worker /\ TypeOK
  BY WorkerType DEF IInv
<1>2. w.ph = "apply"
  BY <1>1, NextEntryPhase
<1>3. Entitled(m, w, lock'[n], idx'[n])
  BY <1>2, OutsideCommit
<1>4. worker' = [worker EXCEPT ![n][m] = w]
  BY <1>1 DEF EndsCommit, TypeOK
<1>5. /\ idx'[n] = files
      /\ \A k \in Node \ {n} : lock'[k] = lock[k] /\ idx'[k] = idx[k]
  BY <1>1 DEF EndsCommit, TypeOK
<1>6. /\ faults' >= faults
      /\ saved' = [saved EXCEPT ![n] = files] \/ saved' = saved
  <2>1. CASE maybeSaveLocked(n, files)
    <3>1. CASE applies[n] + 1 < SaveEvery
      <4>1. NoFault /\ saved' = saved
        BY <2>1, <3>1, Zenon DEF maybeSaveLocked
      <4> QED
        BY <1>1, <4>1, FaultsGrow
    <3>2. CASE ~(applies[n] + 1 < SaveEvery)
      <4>1. /\ Fault \/ NoFault
            /\ saved' = [saved EXCEPT ![n] = files] \/ saved' = saved
        BY <2>1, <3>2, Zenon DEF maybeSaveLocked
      <4> QED
        BY <1>1, <4>1, FaultsGrow
    <3> QED
      BY <3>1, <3>2
  <2>2. CASE UNCHANGED saved /\ NoFault
    BY <1>1, <2>2, FaultsGrow
  <2> QED
    BY <2>1, <2>2
<1>7. /\ saved'[n] \in {saved[n], files}
      /\ \A k \in Node \ {n} : saved'[k] = saved[k]
  BY <1>1, <1>6 DEF TypeOK
<1> HIDE DEF w
<1>8. PullStep(n, m, w)
  BY <1>2, <1>3, <1>4, <1>5, <1>6, <1>7, Zenon DEF PullStep, EndsCommit
<1> QED
  BY <1>8

(* Every step inside a commit is a PullStep.                               *)
LEMMA CommitStep ==
  ASSUME IInv, NEW n \in Node, NEW m \in Node, Commit(n, m)
  PROVE  \E w : PullStep(n, m, w)
<1> DEFINE x == worker[n][m].cur
<1>1. CASE CommitRename(n, m)
  <2>1. CASE worker' = [worker EXCEPT ![n][m].ph = "chtimes"]
             /\ UNCHANGED <<idx, saved, status, lock>> /\ NoFault
    BY <1>1, <2>1, InCommitStep, Zenon DEF CommitRename, InCommit
  <2>2. CASE CommitFails(n, m)
    BY <1>1, <2>2, CommitFailsStep DEF CommitRename, InCommit
  <2> QED
    BY <1>1, <2>1, <2>2 DEF CommitRename
<1>2. CASE CommitChtimes(n, m)
  BY <1>2, InCommitStep, Zenon DEF CommitChtimes, InCommit
<1>3. CASE CommitSet(n, m)
  <2> DEFINE meta == diskMeta(n, x)
             entry == [x.entry EXCEPT !.mode = meta.mode, !.mtime = meta.mtime]
             files == [idx[n] EXCEPT ![x.path] = entry]
  <2>1. /\ EndsCommit(n, m, files)
        /\ maybeSaveLocked(n, files)
        /\ lock[n] = m /\ worker[n][m].ph = "set"
    BY <1>3 DEF CommitSet, InCommit
  <2> HIDE DEF files
  <2> QED
    BY <2>1, EndsCommitStep
<1>4. CASE CommitRemove(n, m)
  <2> DEFINE files == SetIfWins(idx[n], x.path, x.entry)
  <2>1. /\ \/ EndsCommit(n, m, files) /\ maybeSaveLocked(n, files)
           \/ CommitFails(n, m)
        /\ lock[n] = m /\ worker[n][m].ph = "remove"
    BY <1>4 DEF CommitRemove, InCommit
  <2> HIDE DEF files
  <2> QED
    BY <2>1, EndsCommitStep, CommitFailsStep
<1>5. CASE MetaTimes(n, m)
  <2>1. CASE worker' = [worker EXCEPT ![n][m].ph = "metaSet"]
             /\ UNCHANGED <<idx, saved, status, lock>> /\ NoFault
    BY <1>5, <2>1, InCommitStep, Zenon DEF MetaTimes, InCommit
  <2>2. CASE CommitFails(n, m)
    BY <1>5, <2>2, CommitFailsStep DEF MetaTimes, InCommit
  <2> QED
    BY <1>5, <2>1, <2>2 DEF MetaTimes
<1>6. CASE MetaSet(n, m)
  <2> DEFINE entry == [idx[n][x.path] EXCEPT
                         !.updatedAt = x.entry.updatedAt,
                         !.mode = fileMode(x.entry.mode),
                         !.mtime = disk[n][x.path].mtime]
             files == [idx[n] EXCEPT ![x.path] = entry]
  <2>1. /\ \/ EndsCommit(n, m, files) /\ UNCHANGED saved /\ NoFault
           \/ CommitFails(n, m)
        /\ lock[n] = m /\ worker[n][m].ph = "metaSet"
    BY <1>6, Zenon DEF MetaSet, InCommit
  <2> HIDE DEF files
  <2> QED
    BY <2>1, EndsCommitStep, CommitFailsStep
<1> QED
  BY <1>1, <1>2, <1>3, <1>4, <1>5, <1>6 DEF Commit

(* Every step of a pull worker is a PullStep.                              *)
LEMMA PullShape ==
  ASSUME IInv, NEW n \in Node, NEW m \in Node, Pull(n, m)
  PROVE  \E w : PullStep(n, m, w)
<1> DEFINE u == worker[n][m]
<1>1. u \in Worker /\ TypeOK
  BY WorkerType DEF IInv
<1>2. CASE fetchManifest(n, m)
  <2>1. [u EXCEPT !.ph = "apply", !.todo = Manifest(m)].ph = "apply"
    BY <1>1 DEF Worker
  <2> QED
    BY <1>1, <1>2, <2>1, MovesStep, Zenon DEF fetchManifest
<1>3. CASE TransportError(n, m)
  BY <1>1, <1>3, NextEntryPhase, MovesStep, Zenon DEF TransportError
<1>4. CASE ContextDone(n, m)
  <2>1. Idle.ph = "idle" /\ u.ph # "idle"
    BY <1>4 DEF Idle, ContextDone
  <2> QED
    BY <1>1, <1>4, <2>1, NextEntryPhase, MovesStep DEF ContextDone
<1>5. CASE Apply(n, m)
  BY <1>1, <1>5, ApplyStep
<1>6. CASE Request(n, m)
  <2>1. [u EXCEPT !.ph = "read"].ph = "read"
    BY <1>1 DEF Worker
  <2> QED
    BY <1>1, <1>6, <2>1, NextEntryPhase, MovesStep, Zenon DEF Request
<1>7. CASE serveFile(n, m)
  <2> DEFINE f == disk[m][u.cur.path]
  <2>1. CASE f = NoFile \/ f.hash # u.cur.entry.hash
    BY <1>1, <1>7, <2>1, NextEntryPhase, MovesStep, Zenon DEF serveFile
  <2>2. CASE f # NoFile /\ f.hash = u.cur.entry.hash
    <3> DEFINE w == [u EXCEPT !.ph = "got"]
    <3>1. w.ph = "got" /\ w.cur = u.cur
      BY <1>1 DEF Worker
    <3>2. w.cur.entry.hash \in Content
      <4>1. u.cur.path \in Path
        BY <1>1, WorkerType
      <4>2. f \in File
        BY <1>1, <2>2, <4>1 DEF TypeOK
      <4> QED
        BY <2>2, <3>1, <4>2 DEF File
    <3>4. Moves(n, m, w) /\ u.ph = "read" /\ NoFault
      BY <1>7, <2>2 DEF serveFile
    <3>5. faults' >= faults
      BY <1>1, <3>4, FaultsGrow
    <3> HIDE DEF w
    <3>3. Entitled(m, w, lock'[n], idx'[n])
      BY <3>1, OutsideCommit
    <3>6. PullStep(n, m, w)
      BY <3>1, <3>2, <3>3, <3>4, <3>5 DEF PullStep, Moves
    <3> QED
      BY <3>6
  <2> QED
    BY <2>1, <2>2
<1>8. CASE CommitCheck(n, m)
  <2> DEFINE p == u.cur.path
  <2>1. CASE (idx[n][p] # NoEntry /\ ~Wins(idx[n][p], u.cur.entry))
               \/ diskUnsynced(n, p)
    BY <1>1, <1>8, <2>1, NextEntryPhase, MovesStep DEF CommitCheck
  <2>2. CASE ~((idx[n][p] # NoEntry /\ ~Wins(idx[n][p], u.cur.entry))
                 \/ diskUnsynced(n, p))
    <3> DEFINE w == [u EXCEPT !.ph = "rename"]
    <3>1. w.ph = "rename" /\ w.cur = u.cur
      BY <1>1 DEF Worker
    <3>2. /\ EntersCommit(n, m, w)
          /\ u.ph = "got" /\ lock[n] = "free" /\ status[n] = "running"
          /\ NoFault
      BY <1>8, <2>2 DEF CommitCheck
    <3>3. lock'[n] = m /\ \A k \in Node \ {n} : lock'[k] = lock[k]
      BY <1>1, <3>2 DEF EntersCommit, TypeOK
    <3>4. Entitled(m, w, lock'[n], idx'[n])
      BY <2>2, <3>1, <3>2, <3>3 DEF Entitled, EntersCommit
    <3>5. w.cur.entry.hash \in Content
      BY <3>1, <3>2 DEF IInv, Received
    <3>6. faults' >= faults
      BY <1>1, <3>2, FaultsGrow
    <3> HIDE DEF w
    <3>7. PullStep(n, m, w)
      BY <3>1, <3>2, <3>3, <3>4, <3>5, <3>6 DEF PullStep, EntersCommit
    <3> QED
      BY <3>7
  <2> QED
    BY <2>1, <2>2
<1>9. CASE Commit(n, m)
  BY <1>9, CommitStep
<1>10. CASE PullDone(n, m)
  <2>1. Entitled(m, Idle, lock'[n], idx'[n]) /\ Idle.ph = "idle"
    BY OutsideCommit DEF Idle
  <2>2. Fault \/ NoFault
    BY <1>10 DEF PullDone
  <2>3. saved' = [saved EXCEPT ![n] = idx[n]] \/ saved' = saved
    BY <1>1, <1>10 DEF PullDone, TypeOK
  <2>4. /\ saved'[n] \in {saved[n], idx[n]}
        /\ \A k \in Node \ {n} : saved'[k] = saved[k]
    BY <1>1, <2>3 DEF TypeOK
  <2>5. faults' >= faults
    BY <1>1, <2>2, FaultsGrow
  <2>6. PullStep(n, m, Idle)
    BY <1>10, <2>1, <2>4, <2>5 DEF PullStep, PullDone
  <2> QED
    BY <2>6
<1> QED
  BY <1>2, <1>3, <1>4, <1>5, <1>6, <1>7, <1>8, <1>9, <1>10 DEF Pull

(* The invariant is kept by any step of that shape.                        *)
LEMMA PullIInv ==
  ASSUME IInv, TypeOK', NEW n \in Node, NEW m \in Node, NEW w,
         PullStep(n, m, w)
  PROVE  IInv'
<1>1. TypeOK
  BY DEF IInv
<1>2. /\ worker'[n][m] = w
      /\ \A k, j \in Node : (k # n \/ j # m) => worker'[k][j] = worker[k][j]
  BY <1>1 DEF PullStep, TypeOK
<1>3. Received'
  BY <1>2 DEF PullStep, IInv, Received
<1>4. CommitBasis'
  <2> SUFFICES ASSUME NEW k \in Node, NEW j \in Node
               PROVE  Entitled(j, worker'[k][j], lock'[k], idx'[k])
    BY DEF CommitBasis
  <2>1. CASE k = n /\ j = m
    BY <1>2, <2>1 DEF PullStep
  <2>2. CASE k # n
    BY <1>2, <2>2 DEF PullStep, IInv, CommitBasis
  <2>3. CASE k = n /\ j # m
    <3>1. Entitled(j, worker[n][j], lock[n], idx[n])
      BY <2>3 DEF IInv, CommitBasis
    <3>2. worker'[n][j] = worker[n][j]
      BY <1>2, <2>3
    <3>3. CASE lock' = lock /\ idx' = idx
      BY <2>3, <3>1, <3>2, <3>3
    <3>4. CASE lock[n] = "free" \/ lock[n] = m
      <4>1. lock[n] # j
        BY <2>3, <3>4, SyncAssumption
      <4> QED
        BY <2>3, <3>1, <3>2, <4>1 DEF Entitled
    <3> QED
      BY <3>3, <3>4 DEF PullStep
  <2> QED
    BY <2>1, <2>2, <2>3
<1>5. status[n] \notin {"starting", "down", "crashed"}
  BY DEF PullStep, IInv, Quiet
<1>6. Quiet'
  <2> SUFFICES ASSUME NEW k \in Node
               PROVE  /\ status[k] \in {"starting", "down", "crashed"} =>
                           \A j \in Node : worker'[k][j].ph = "idle"
                      /\ status[k] \in {"draining", "down", "crashed"} =>
                           lock'[k] = "free"
    BY DEF Quiet, PullStep
  <2>1. CASE k # n
    BY <1>2, <2>1 DEF PullStep, IInv, Quiet
  <2>2. CASE k = n
    BY <1>5, <2>2, SyncAssumption DEF PullStep, IInv, Quiet
  <2> QED
    BY <2>1, <2>2
<1>7. FinalSave'
  <2> SUFFICES ASSUME NEW k \in Node, status[k] \in {"draining", "down"},
                      faults' = 0
               PROVE  saved'[k] = idx'[k]
    BY DEF FinalSave, PullStep
  <2>1. faults = 0
    BY <1>1 DEF PullStep, TypeOK
  <2>2. saved[k] = idx[k]
    BY <2>1 DEF IInv, FinalSave
  <2>3. CASE k # n
    BY <2>2, <2>3 DEF PullStep
  <2>4. CASE k = n
    <3>1. lock[n] = "free" /\ status[n] # "running"
      BY <2>4 DEF IInv, Quiet
    <3>2. idx' = idx
      BY <3>1, SyncAssumption DEF PullStep
    <3> QED
      BY <2>2, <2>4, <3>2 DEF PullStep
  <2> QED
    BY <2>3, <2>4
<1> QED
  BY <1>3, <1>4, <1>6, <1>7 DEF IInv

(* The steps of reconcile keep the invariant.                              *)
LEMMA ReconcileIInv ==
  ASSUME IInv, TypeOK', NEW n \in Node, Reconcile(n)
  PROVE  IInv'
<1>1. TypeOK
  BY DEF IInv
<1>2. worker' = worker
  BY DEF Reconcile, ScanWalk, ScanApply, ScanFails, ReconcileSave
<1>3. \A k \in Node \ {n} : /\ lock'[k] = lock[k] /\ idx'[k] = idx[k]
                            /\ saved'[k] = saved[k] /\ status'[k] = status[k]
  BY <1>1 DEF Reconcile, ScanWalk, ScanApply, ScanFails, ReconcileSave, TypeOK
<1>4. lock[n] \in {"free", "scan", "save"}
  BY DEF Reconcile, ScanWalk, ScanApply, ScanFails, ReconcileSave
<1>5. status[n] \notin {"draining", "down", "crashed"}
  <2>1. CASE ScanWalk(n)
    BY <2>1 DEF ScanWalk
  <2>2. CASE lock[n] \in {"scan", "save"}
    BY <2>2 DEF IInv, Quiet
  <2> QED
    BY <2>1, <2>2 DEF Reconcile, ScanApply, ScanFails, ReconcileSave
<1>6. Received'
  BY <1>2 DEF Received, IInv
<1>7. CommitBasis'
  <2> SUFFICES ASSUME NEW k \in Node, NEW j \in Node
               PROVE  Entitled(j, worker[k][j], lock'[k], idx'[k])
    BY <1>2 DEF CommitBasis
  <2>1. Entitled(j, worker[k][j], lock[k], idx[k])
    BY DEF IInv, CommitBasis
  <2>2. CASE k # n
    BY <1>3, <2>1, <2>2
  <2>3. CASE k = n
    BY <1>4, <2>1, <2>3, SyncAssumption DEF Entitled
  <2> QED
    BY <2>2, <2>3
<1>8. /\ status'[n] \in {status[n], "running", "crashed"}
      /\ status'[n] = "crashed" => status[n] = "starting" /\ lock'[n] = "free"
  <2>1. CASE ScanWalk(n)
    BY <1>5, <2>1 DEF ScanWalk
  <2>2. CASE ScanApply(n)
    BY <1>1, <1>5, <2>2 DEF ScanApply, Started, TypeOK
  <2>3. CASE ScanFails(n)
    BY <1>1, <1>5, <2>3 DEF ScanFails, Abandoned, TypeOK
  <2>4. CASE ReconcileSave(n)
    BY <1>1, <1>5, <2>4 DEF ReconcileSave, Started, Abandoned, TypeOK
  <2> QED
    BY <2>1, <2>2, <2>3, <2>4 DEF Reconcile
<1>9. Quiet'
  <2> SUFFICES ASSUME NEW k \in Node
               PROVE  /\ status'[k] \in {"starting", "down", "crashed"} =>
                           \A j \in Node : worker[k][j].ph = "idle"
                      /\ status'[k] \in {"draining", "down", "crashed"} =>
                           lock'[k] = "free"
    BY <1>2 DEF Quiet
  <2>1. CASE k # n
    BY <1>3, <2>1 DEF IInv, Quiet
  <2>2. CASE k = n
    BY <1>5, <1>8, <2>2 DEF IInv, Quiet
  <2> QED
    BY <2>1, <2>2
<1>10. FinalSave'
  <2>1. faults' = 0 => faults = 0
    <3>1. faults' = faults \/ Fault
      BY DEF Reconcile, ScanWalk, ScanApply, ScanFails, ReconcileSave, NoFault
    <3> QED
      BY <1>1, <3>1 DEF Fault, TypeOK
  <2> SUFFICES ASSUME NEW k \in Node, status'[k] \in {"draining", "down"},
                      faults' = 0
               PROVE  saved'[k] = idx'[k]
    BY DEF FinalSave
  <2>2. k # n
    BY <1>5, <1>8
  <2> QED
    BY <1>3, <2>1, <2>2 DEF IInv, FinalSave
<1> QED
  BY <1>6, <1>7, <1>9, <1>10 DEF IInv

(* Stops, crashes and restarts keep the invariant.                         *)
LEMMA LifeIInv ==
  ASSUME IInv, TypeOK', NEW n \in Node, Life(n)
  PROVE  IInv'
<1>1. TypeOK
  BY DEF IInv
<1>2. /\ \A k \in Node \ {n} : /\ lock'[k] = lock[k] /\ idx'[k] = idx[k]
                               /\ saved'[k] = saved[k] /\ status'[k] = status[k]
                               /\ worker'[k] = worker[k]
      /\ faults' = 0 => faults = 0
  BY <1>1 DEF Life, Stop, ShutdownSave, Drained, Crash, Restart, Fault, NoFault,
              TypeOK
<1>8. ASSUME Crash(n), NEW m \in Node
      PROVE  worker'[n][m] = Idle
  <2>1. worker' = [worker EXCEPT ![n] = [j \in Node |-> Idle]]
    BY <1>8 DEF Crash
  <2>2. worker'[n] = [j \in Node |-> Idle]
    BY <1>1, <2>1 DEF TypeOK
  <2> QED
    BY <2>2
<1>3. \/ worker' = worker
      \/ \A m \in Node : worker'[n][m] = Idle
  BY <1>8 DEF Life, Stop, ShutdownSave, Drained, Restart
<1>4. Received'
  <2> SUFFICES ASSUME NEW k \in Node, NEW j \in Node,
                      worker'[k][j].ph \in {"got", "rename"}
               PROVE  worker'[k][j].cur.entry.hash \in Content
    BY DEF Received
  <2>1. CASE worker'[k][j] = worker[k][j]
    BY <2>1 DEF IInv, Received
  <2>2. CASE worker'[k][j] = Idle
    BY <2>2 DEF Idle
  <2> QED
    BY <1>2, <1>3, <2>1, <2>2
<1>5. CommitBasis'
  <2> SUFFICES ASSUME NEW k \in Node, NEW j \in Node
               PROVE  Entitled(j, worker'[k][j], lock'[k], idx'[k])
    BY DEF CommitBasis
  <2>1. CASE k # n
    BY <1>2, <2>1 DEF IInv, CommitBasis
  <2>2. CASE k = n /\ worker' = worker /\ UNCHANGED <<lock, idx>>
    BY <2>2 DEF IInv, CommitBasis
  <2>3. CASE k = n /\ Crash(n)
    <3>1. worker'[n][j].ph = "idle"
      BY <1>8, <2>3 DEF Idle
    <3> QED
      BY <2>3, <3>1, OutsideCommit
  <2>4. CASE k = n /\ Restart(n)
    <3>1. worker'[n][j].ph = "idle"
      BY <2>4 DEF Restart, IInv, Quiet
    <3> QED
      BY <2>4, <3>1, OutsideCommit
  <2> QED
    BY <2>1, <2>2, <2>3, <2>4 DEF Life, Stop, ShutdownSave, Drained
<1>6. Quiet'
  <2> SUFFICES ASSUME NEW k \in Node
               PROVE  /\ status'[k] \in {"starting", "down", "crashed"} =>
                           \A j \in Node : worker'[k][j].ph = "idle"
                      /\ status'[k] \in {"draining", "down", "crashed"} =>
                           lock'[k] = "free"
    BY DEF Quiet
  <2>1. CASE k # n
    <3>1. Quiet
      BY DEF IInv
    <3>2. status'[k] = status[k] /\ lock'[k] = lock[k] /\ worker'[k] = worker[k]
      BY <1>2, <2>1
    <3> QED
      BY <3>1, <3>2 DEF Quiet
  <2>2. CASE k = n /\ Stop(n)
    BY <1>1, <2>2 DEF Stop, TypeOK
  <2>3. CASE k = n /\ ShutdownSave(n)
    BY <1>1, <2>3 DEF ShutdownSave, TypeOK
  <2>4. CASE k = n /\ Drained(n)
    BY <1>1, <2>4 DEF Drained, TypeOK, IInv, Quiet
  <2>5. CASE k = n /\ Crash(n)
    <3>1. \A j \in Node : worker'[n][j].ph = "idle"
      BY <1>8, <2>5 DEF Idle
    <3>2. lock'[n] = "free"
      BY <1>1, <2>5 DEF Crash, TypeOK
    <3> QED
      BY <2>5, <3>1, <3>2
  <2>6. CASE k = n /\ Restart(n)
    BY <1>1, <2>6 DEF Restart, TypeOK, IInv, Quiet
  <2> QED
    BY <2>1, <2>2, <2>3, <2>4, <2>5, <2>6 DEF Life
<1>7. FinalSave'
  <2> SUFFICES ASSUME NEW k \in Node, status'[k] \in {"draining", "down"},
                      faults' = 0
               PROVE  saved'[k] = idx'[k]
    BY DEF FinalSave
  <2>1. CASE k # n
    BY <1>2, <2>1 DEF IInv, FinalSave
  <2>2. CASE k = n /\ ShutdownSave(n)
    BY <1>1, <1>2, <2>2 DEF ShutdownSave, Fault, NoFault, TypeOK
  <2>3. CASE k = n /\ Drained(n)
    BY <1>2, <2>3 DEF Drained, IInv, FinalSave
  <2>4. CASE k = n /\ (Stop(n) \/ Crash(n) \/ Restart(n))
    BY <1>1, <2>4 DEF Stop, Crash, Restart, TypeOK
  <2> QED
    BY <2>1, <2>2, <2>3, <2>4 DEF Life
<1> QED
  BY <1>4, <1>5, <1>6, <1>7 DEF IInv

(* Starting a pull batch keeps the invariant.                              *)
LEMMA PullPeersIInv ==
  ASSUME IInv, TypeOK', NEW n \in Node, NEW S \in SUBSET Node, pullPeers(n, S)
  PROVE  IInv'
<1>1. TypeOK
  BY DEF IInv
<1>2. /\ \A m \in Node : worker'[n][m].ph \in {"idle", "manifest"}
      /\ \A k \in Node \ {n} : worker'[k] = worker[k]
  BY <1>1 DEF pullPeers, TypeOK, Idle
<1>3. UNCHANGED <<idx, saved, status, lock, faults>> /\ status[n] = "running"
  BY DEF pullPeers
<1>4. Received'
  BY <1>2 DEF Received, IInv
<1>5. CommitBasis'
  BY <1>2, <1>3, OutsideCommit DEF CommitBasis, IInv
<1>6. Quiet' /\ FinalSave'
  BY <1>2, <1>3 DEF Quiet, FinalSave, IInv
<1> QED
  BY <1>4, <1>5, <1>6 DEF IInv

(* Users and time change nothing that belongs to a daemon.                 *)
LEMMA UserLeaves ==
  ASSUME User \/ Tick \/ UNCHANGED vars
  PROVE  UNCHANGED <<idx, saved, status, lock, worker, halts, faults>>
<1>1. ASSUME NEW n, NEW p, NEW f, Edit(n, p, f)
      PROVE  UNCHANGED <<idx, saved, status, lock, worker, halts, faults>>
  BY <1>1 DEF Edit, daemonVars
<1>2. CASE User
  <2>1. PICK n \in Node, p \in Path :
          \/ \E c \in Content : UserWrite(n, p, c)
          \/ \E mode \in Mode : UserChmod(n, p, mode)
          \/ UserRemove(n, p)
    BY <1>2 DEF User
  <2>2. \E f : Edit(n, p, f)
    BY <2>1, Zenon DEF UserWrite, UserChmod, UserRemove
  <2> QED
    BY <1>1, <2>2
<1>3. CASE Tick
  BY <1>3 DEF Tick, daemonVars
<1>4. CASE UNCHANGED vars
  BY <1>4 DEF vars
<1> QED
  BY <1>2, <1>3, <1>4

(* Every step keeps the invariant.                                         *)
LEMMA StepIInv ==
  ASSUME IInv, [Next]_vars
  PROVE  IInv'
<1>1. TypeOK'
  BY StepType DEF IInv
<1>2. CASE User \/ Tick \/ UNCHANGED vars
  <2>1. UNCHANGED <<idx, saved, status, lock, worker, halts, faults>>
    BY <1>2, UserLeaves
  <2> QED
    BY <1>1, <2>1 DEF IInv, Received, CommitBasis, Quiet, FinalSave
<1>3. ASSUME NEW n \in Node, NEW m \in Node, Pull(n, m)
      PROVE  IInv'
  BY <1>1, <1>3, PullShape, PullIInv
<1> QED
  BY <1>1, <1>2, <1>3, ReconcileIInv, LifeIInv, PullPeersIInv DEF Next

(* The invariant that the theorems below follow from holds of every        *)
(* behaviour.                                                              *)
THEOREM Invariance == Spec => []IInv
<1>1. Init => IInv
  BY InitIInv
<1>2. IInv /\ [Next]_vars => IInv'
  BY StepIInv
<1> QED
  BY <1>1, <1>2, PTL DEF Spec

(* Every reachable state is well typed.                                    *)
THEOREM TypeCorrect == Spec => []TypeOK
BY Invariance, PTL DEF IInv

(* Once a commit has passed its check under syncMu, nothing changes the    *)
(* index entry it is about to replace: neither a scan, nor another worker, *)
(* nor a crash and restart (applyRemote, commitContent).                   *)
THEOREM CommitsStayJustified == Spec => []CommitBasis
BY Invariance, PTL DEF IInv

(* A daemon that came down by its own shutdown has saved every apply: the  *)
(* save at the end of Run is after the last commit of every worker.        *)
THEOREM StopIsDurable == Spec => []GracefulStopDurable
<1>1. IInv => GracefulStopDurable
  BY DEF IInv, FinalSave, GracefulStopDurable
<1> QED
  BY <1>1, Invariance, PTL

-----------------------------------------------------------------------------
(* Versions *)

(* The index of one node moves up the LWW order, or not at all.            *)
Rises(old, new) ==
  \A p \in Path : (old[p] # NoEntry /\ new[p] # NoEntry) =>
                    VersionBelow(old[p], new[p])

(* An index that stays the same does not go back.                          *)
LEMMA RisesReflexive ==
  ASSUME NEW files \in [Path -> Entry \cup {NoEntry}]
  PROVE  Rises(files, files)
BY VersionBelowReflexive DEF Rises

(* Setting one path to a version above the old one.                        *)
LEMMA SetRises ==
  ASSUME NEW files \in [Path -> Entry \cup {NoEntry}], NEW p \in Path,
         NEW e \in Entry,
         files[p] # NoEntry => VersionBelow(files[p], e)
  PROVE  Rises(files, [files EXCEPT ![p] = e])
BY VersionBelowReflexive DEF Rises

(* Index.SetIfWins never goes back.                                        *)
LEMMA SetIfWinsRises ==
  ASSUME NEW files \in [Path -> Entry \cup {NoEntry}], NEW p \in Path,
         NEW e \in Entry
  PROVE  Rises(files, SetIfWins(files, p, e))
<1>1. CASE files[p] # NoEntry /\ ~Wins(files[p], e)
  BY <1>1, RisesReflexive DEF SetIfWins
<1>2. CASE ~(files[p] # NoEntry /\ ~Wins(files[p], e))
  <2>1. files[p] # NoEntry => VersionBelow(files[p], e)
    BY <1>2, WinsVersionBelow
  <2>2. SetIfWins(files, p, e) = [files EXCEPT ![p] = e]
    BY <1>2 DEF SetIfWins
  <2> QED
    BY <2>1, <2>2, SetRises, Zenon
<1> QED
  BY <1>1, <1>2

(* A reconcile never goes back.                                            *)
LEMMA ScanRises ==
  ASSUME IInv, NEW n \in Node, ScanApply(n)
  PROVE  Rises(idx[n], idx'[n])
<1>1. TypeOK
  BY DEF IInv
<1>2. idx'[n] = GCTombstones(ScanResult(n), Clock(n), TTL)
  BY <1>1 DEF ScanApply, TypeOK
<1>3. ASSUME NEW p \in Path, idx[n][p] # NoEntry, idx'[n][p] # NoEntry
      PROVE  VersionBelow(idx[n][p], idx'[n][p])
  <2>1. idx'[n][p] = ScanResult(n)[p]
    BY <1>2, <1>3 DEF GCTombstones, ScanResult
  <2>2. idx[n] \in [Path -> Entry \cup {NoEntry}]
    BY <1>1 DEF TypeOK
  <2>3. CASE ScanChange(n, p)
    <3>1. Scanned(n, p) \in Entry
      BY <1>1, <2>3, ScannedType DEF ScanApply
    <3>2. ScanResult(n)[p] = SetIfWins(idx[n], p, Scanned(n, p))[p]
      BY <2>3 DEF ScanResult
    <3> QED
      BY <1>3, <2>1, <2>2, <3>1, <3>2, SetIfWinsRises DEF Rises
  <2>4. CASE ~ScanChange(n, p)
    BY <1>3, <2>1, <2>2, <2>4, VersionBelowReflexive DEF ScanResult
  <2> QED
    BY <2>3, <2>4
<1> QED
  BY <1>3 DEF Rises

(* A step of a pull worker never goes back.                                *)
LEMMA PullRises ==
  ASSUME IInv, TypeOK', NEW n \in Node, NEW m \in Node, Pull(n, m)
  PROVE  Rises(idx[n], idx'[n])
<1> DEFINE x == worker[n][m].cur
<1>1. /\ TypeOK
      /\ idx[n] \in [Path -> Entry \cup {NoEntry}]
      /\ idx'[n] \in [Path -> Entry \cup {NoEntry}]
      /\ x.path \in Path /\ x.entry \in Entry
      /\ Entitled(m, worker[n][m], lock[n], idx[n])
  BY WorkerType DEF IInv, TypeOK, CommitBasis
<1>2. CASE idx' = idx
  BY <1>1, <1>2, RisesReflexive
<1>3. ASSUME NEW y \in worker[n][m].todo, ApplyTombstone(n, m, y)
      PROVE  Rises(idx[n], idx'[n])
  <2>1. idx'[n] = SetIfWins(idx[n], y.path, y.entry)
    BY <1>1, <1>3 DEF ApplyTombstone, TypeOK
  <2> QED
    BY <1>1, <1>3, <2>1, TookType, SetIfWinsRises
<1>4. CASE CommitSet(n, m)
  <2> DEFINE meta == diskMeta(n, x)
             entry == [x.entry EXCEPT !.mode = meta.mode, !.mtime = meta.mtime]
  <2>1. idx'[n] = [idx[n] EXCEPT ![x.path] = entry]
    <3> DEFINE files == [idx[n] EXCEPT ![x.path] = entry]
    <3>1. EndsCommit(n, m, files)
      BY <1>4, Zenon DEF CommitSet
    <3> HIDE DEF files
    <3>2. idx'[n] = files
      BY <1>1, <3>1 DEF EndsCommit, TypeOK
    <3> QED
      BY <3>2 DEF files
  <2>2. entry = idx'[n][x.path]
    BY <1>1, <2>1
  <2>3. /\ entry.deleted = x.entry.deleted
        /\ entry.hash = x.entry.hash
        /\ entry.updatedAt = x.entry.updatedAt
    BY <1>1 DEF Entry
  <2>4. entry # NoEntry => entry \in Entry
    BY <1>1, <2>2
  <2>5. idx[n][x.path] # NoEntry => VersionBelow(idx[n][x.path], entry)
    <3>1. idx[n][x.path] # NoEntry => Wins(idx[n][x.path], x.entry)
      BY <1>1, <1>4 DEF CommitSet, InCommit, Entitled
    <3>2. idx[n][x.path] # NoEntry => VersionBelow(idx[n][x.path], x.entry)
      BY <1>1, <3>1, WinsVersionBelow
    <3> QED
      BY <2>3, <3>2, Zenon DEF VersionBelow
  <2> HIDE DEF entry
  <2> QED
    BY <1>1, <2>1, <2>5, VersionBelowReflexive DEF Rises
<1>5. CASE CommitRemove(n, m)
  <2>1. CASE idx'[n] = SetIfWins(idx[n], x.path, x.entry)
    BY <1>1, <2>1, SetIfWinsRises
  <2>2. CASE CommitFails(n, m)
    BY <1>2, <2>2 DEF CommitFails
  <2>3. CASE EndsCommit(n, m, SetIfWins(idx[n], x.path, x.entry))
    <3> DEFINE files == SetIfWins(idx[n], x.path, x.entry)
    <3>1. EndsCommit(n, m, files)
      BY <2>3
    <3> HIDE DEF files
    <3>2. idx'[n] = files
      BY <1>1, <3>1 DEF EndsCommit, TypeOK
    <3> QED
      BY <2>1, <3>2 DEF files
  <2> QED
    BY <1>5, <2>2, <2>3, Zenon DEF CommitRemove
<1>6. CASE MetaSet(n, m)
  <2> DEFINE local == idx[n][x.path]
             entry == [local EXCEPT !.updatedAt = x.entry.updatedAt,
                                    !.mode = fileMode(x.entry.mode),
                                    !.mtime = disk[n][x.path].mtime]
  <2>1. CASE CommitFails(n, m)
    BY <1>2, <2>1 DEF CommitFails
  <2>2. CASE EndsCommit(n, m, [idx[n] EXCEPT ![x.path] = entry])
    <3> DEFINE files == [idx[n] EXCEPT ![x.path] = entry]
    <3>1. EndsCommit(n, m, files)
      BY <2>2, Zenon
    <3>2. idx'[n] = files
      <4> HIDE DEF files
      <4> QED
        BY <1>1, <3>1 DEF EndsCommit, TypeOK
    <3>3. worker[n][m].ph = "metaSet"
      BY <1>6, Zenon DEF MetaSet, InCommit
    <3>4. /\ local \in Entry
          /\ local.updatedAt <= x.entry.updatedAt
      BY <1>1, <3>3 DEF Entitled, Live
    <3>5. /\ entry.deleted = local.deleted
          /\ entry.hash = local.hash
          /\ entry.updatedAt = x.entry.updatedAt
      BY <3>4 DEF Entry
    <3> HIDE DEF entry
    <3>6. VersionBelow(local, entry)
      <4>1. /\ local.updatedAt \in Nat /\ x.entry.updatedAt \in Nat
            /\ local.hash \in Nat /\ local.deleted \in BOOLEAN
        BY <1>1, <3>4 DEF Entry
      <4> HIDE DEF local, x
      <4>2. local.hash <= entry.hash
        BY <3>5, <4>1
      <4>3. \/ local.updatedAt < entry.updatedAt
            \/ local.updatedAt = entry.updatedAt
        BY <3>4, <3>5, <4>1
      <4> QED
        BY <3>5, <4>1, <4>2, <4>3 DEF VersionBelow
    <3> QED
      BY <1>1, <3>2, <3>6, VersionBelowReflexive DEF Rises
  <2> QED
    BY <1>6, <2>1, <2>2, Zenon DEF MetaSet
<1>7. CASE fetchManifest(n, m) \/ TransportError(n, m) \/ ContextDone(n, m)
             \/ Request(n, m) \/ serveFile(n, m)
  BY <1>2, <1>7 DEF fetchManifest, TransportError, ContextDone, Request,
                    serveFile, Moves
<1>8. CASE Apply(n, m)
  <2>1. PICK y \in worker[n][m].todo :
          \/ ApplyNoop(n, m, y)
          \/ ApplyTombstone(n, m, y)
          \/ ApplyDelete(n, m, y)
          \/ ApplyMeta(n, m, y)
          \/ ApplyContent(n, m, y)
    BY <1>8 DEF Apply
  <2>2. ApplyTombstone(n, m, y) \/ idx' = idx
    BY <2>1 DEF ApplyNoop, ApplyDelete, ApplyMeta, ApplyContent, Moves,
                EntersCommit
  <2> QED
    BY <1>2, <1>3, <2>2
<1>9. CASE CommitCheck(n, m) \/ PullDone(n, m)
  BY <1>2, <1>9 DEF CommitCheck, PullDone, Moves, EntersCommit
<1>10. CASE Commit(n, m)
  <2>1. CASE CommitRename(n, m) \/ CommitChtimes(n, m) \/ MetaTimes(n, m)
    BY <1>2, <2>1, Zenon DEF CommitRename, CommitChtimes, MetaTimes, CommitFails
  <2> QED
    BY <1>4, <1>5, <1>6, <1>10, <2>1 DEF Commit
<1> QED
  BY <1>7, <1>8, <1>9, <1>10 DEF Pull

(* Every step of a daemon that is up, whoever takes it.                    *)
LEMMA IndexRises ==
  ASSUME IInv, [Next]_vars, NEW n \in Node, status[n] \notin {"down", "crashed"}
  PROVE  Rises(idx[n], idx'[n])
<1>1. TypeOK' /\ TypeOK
  BY StepType DEF IInv
<1>2. CASE idx'[n] = idx[n]
  BY <1>1, <1>2, RisesReflexive DEF TypeOK
<1>3. CASE User \/ Tick \/ UNCHANGED vars
  BY <1>2, <1>3, UserLeaves
<1>4. ASSUME NEW k \in Node, Reconcile(k)
      PROVE  Rises(idx[n], idx'[n])
  <2>1. ScanApply(k) \/ idx' = idx
    BY <1>4 DEF Reconcile, ScanWalk, ScanFails, ReconcileSave
  <2>2. CASE ScanApply(k) /\ k = n
    BY <2>2, ScanRises
  <2>3. CASE ScanApply(k) /\ k # n
    BY <1>1, <1>2, <2>3 DEF ScanApply, TypeOK
  <2> QED
    BY <1>2, <2>1, <2>2, <2>3
<1>5. ASSUME NEW k \in Node, Life(k)
      PROVE  Rises(idx[n], idx'[n])
  <2>1. Restart(k) \/ idx' = idx
    BY <1>5 DEF Life, Stop, ShutdownSave, Drained, Crash
  <2>2. CASE Restart(k)
    BY <1>1, <1>2, <2>2 DEF Restart, TypeOK
  <2> QED
    BY <1>2, <2>1, <2>2
<1>6. ASSUME NEW k \in Node, NEW S \in SUBSET Node, pullPeers(k, S)
      PROVE  Rises(idx[n], idx'[n])
  BY <1>2, <1>6 DEF pullPeers
<1>7. ASSUME NEW k \in Node, NEW m \in Node, Pull(k, m)
      PROVE  Rises(idx[n], idx'[n])
  <2>1. CASE k = n
    BY <1>1, <1>7, <2>1, PullRises
  <2>2. CASE k # n
    <3>1. PICK w : PullStep(k, m, w)
      BY <1>7, PullShape
    <3> QED
      BY <1>2, <2>2, <3>1 DEF PullStep
  <2> QED
    BY <2>1, <2>2
<1> QED
  BY <1>3, <1>4, <1>5, <1>6, <1>7 DEF Next

(* The version a live daemon records of a path never goes back in the LWW  *)
(* order, whatever scans, late answers, commits and metadata updates of    *)
(* its workers interleave (SetIfWins, commitContent, execMetaOnly).        *)
THEOREM VersionsRise == Spec => VersionNeverRegresses
<1>1. IInv /\ [Next]_vars =>
        [\A n \in Node, p \in Path :
           (/\ status[n] \notin {"down", "crashed"}
            /\ idx[n][p] # NoEntry
            /\ idx'[n][p] # NoEntry)
             => VersionBelow(idx[n][p], idx'[n][p])]_vars
  BY IndexRises DEF Rises
<1> QED
  BY <1>1, Invariance, PTL DEF Spec, VersionNeverRegresses

-----------------------------------------------------------------------------
(* appliesSinceSave (daemon/apply.go, reconcile.go) accounts for every     *)
(* difference between the index and index.json.                            *)

Up == {"starting", "running", "stopping"}

(* UnsavedIsCounted, and the same of a daemon that starts: it has read     *)
(* index.json and its first scan decides by the count whether to save.     *)
Counted ==
  \A n \in Node :
    (status[n] \in Up /\ lock[n] # "save" /\ faults = 0 /\ saved[n] # idx[n])
      => applies[n] > 0

(* What a step may do to the books of node k: a fault, a save, an apply    *)
(* that is counted, a reconcile that goes on to save, the end of the       *)
(* daemon, or nothing.                                                     *)
Booked(k) ==
  \/ faults' > 0 \/ saved'[k] = idx'[k] \/ applies'[k] > 0
  \/ lock'[k] = "save" \/ status'[k] \notin Up
  \/ /\ idx'[k] = idx[k] /\ saved'[k] = saved[k] /\ applies'[k] = applies[k]
     /\ lock[k] # "save" /\ status[k] \in Up

(* Steps that keep the books keep Counted.                                 *)
LEMMA BookedCounts ==
  ASSUME Counted, TypeOK', faults' = 0 => faults = 0, \A k \in Node : Booked(k)
  PROVE  Counted'
<1> SUFFICES ASSUME NEW k \in Node, status'[k] \in Up, lock'[k] # "save",
                    faults' = 0, saved'[k] # idx'[k]
             PROVE  applies'[k] > 0
  BY DEF Counted
<1> QED
  BY DEF Booked, Counted

(* A step that changes nothing of node k keeps its books.                  *)
LEMMA UntouchedBooked ==
  ASSUME TypeOK, NEW k \in Node,
         idx'[k] = idx[k], saved'[k] = saved[k], applies'[k] = applies[k],
         status'[k] = status[k],
         lock'[k] = lock[k] \/ lock[k] # "save"
  PROVE  Booked(k)
BY DEF Booked

(* Faults are counted up from zero.                                        *)
LEMMA FaultPositive ==
  ASSUME TypeOK, Fault
  PROVE  faults' > 0
BY DEF TypeOK, Fault

(* The steps of reconcile.                                                 *)
LEMMA ReconcileBooked ==
  ASSUME TypeOK, NEW n \in Node, Reconcile(n), NEW k \in Node
  PROVE  Booked(k)
<1>1. CASE k # n
  <2>1. /\ idx'[k] = idx[k] /\ saved'[k] = saved[k] /\ applies'[k] = applies[k]
        /\ status'[k] = status[k] /\ lock'[k] = lock[k]
    BY <1>1 DEF Reconcile, ScanWalk, ScanApply, ScanFails, ReconcileSave, TypeOK
  <2> QED
    BY <2>1, UntouchedBooked
<1>2. CASE k = n /\ ScanWalk(n)
  BY <1>2 DEF ScanWalk, Booked, Up
<1>3. CASE k = n /\ ScanApply(n)
  <2> DEFINE applied == ScanResult(n)
             files   == GCTombstones(applied, Clock(n), TTL)
             dirty   == applied # idx[n] \/ files # applied \/ applies[n] > 0
  <2>1. CASE dirty
    BY <1>3, <2>1 DEF ScanApply, Booked, TypeOK
  <2>2. CASE ~dirty
    <3>1. idx'[n] = idx[n] /\ saved' = saved /\ applies' = applies
      BY <1>3, <2>2 DEF ScanApply, TypeOK
    <3>2. lock[n] # "save"
      BY <1>3 DEF ScanApply
    <3>3. status' = [status EXCEPT ![n] = Started(n)]
      BY <1>3, <2>2 DEF ScanApply
    <3>4. status'[n] \notin Up \/ status[n] \in Up
      BY <3>3 DEF Started, Up, TypeOK
    <3> QED
      BY <1>3, <3>1, <3>2, <3>4 DEF Booked
  <2> QED
    BY <2>1, <2>2
<1>4. CASE k = n /\ ScanFails(n)
  <2>1. status'[n] \notin Up \/ status[n] \in Up
    BY <1>4 DEF ScanFails, Abandoned, Up, TypeOK
  <2> QED
    BY <1>4, <2>1 DEF ScanFails, Booked
<1>5. CASE k = n /\ ReconcileSave(n)
  <2>1. CASE saved' = [saved EXCEPT ![n] = idx[n]]
    BY <1>5, <2>1 DEF ReconcileSave, Booked, TypeOK
  <2>2. CASE Fault
    BY <2>2, FaultPositive DEF Booked
  <2> QED
    BY <1>5, <2>1, <2>2 DEF ReconcileSave
<1> QED
  BY <1>1, <1>2, <1>3, <1>4, <1>5 DEF Reconcile

(* Stops, the final save, crashes and restarts.                            *)
LEMMA LifeBooked ==
  ASSUME TypeOK, NEW n \in Node, Life(n), NEW k \in Node
  PROVE  Booked(k)
<1>1. CASE k # n
  <2>1. /\ idx'[k] = idx[k] /\ saved'[k] = saved[k] /\ applies'[k] = applies[k]
        /\ status'[k] = status[k] /\ lock'[k] = lock[k]
    BY <1>1 DEF Life, Stop, ShutdownSave, Drained, Crash, Restart, TypeOK
  <2> QED
    BY <2>1, UntouchedBooked
<1>2. CASE k = n /\ Stop(n)
  BY <1>2 DEF Stop, Booked, Up, TypeOK
<1>3. CASE k = n /\ (ShutdownSave(n) \/ Drained(n) \/ Crash(n))
  BY <1>3 DEF ShutdownSave, Drained, Crash, Booked, Up, TypeOK
<1>4. CASE k = n /\ Restart(n)
  BY <1>4 DEF Restart, Booked, TypeOK
<1> QED
  BY <1>1, <1>2, <1>3, <1>4 DEF Life

(* An apply that ends: counted, or saved with the index it has set.        *)
LEMMA EndsCommitBooked ==
  ASSUME TypeOK, NEW n \in Node, NEW m \in Node, NEW files,
         EndsCommit(n, m, files),
         \/ maybeSaveLocked(n, files)
         \/ applies' = [applies EXCEPT ![n] = @ + 1]
  PROVE  Booked(n)
<1>1. CASE applies' = [applies EXCEPT ![n] = @ + 1]
  BY <1>1 DEF Booked, TypeOK
<1>2. CASE saved' = [saved EXCEPT ![n] = files]
  BY <1>2 DEF Booked, EndsCommit, TypeOK
<1> QED
  BY <1>1, <1>2 DEF maybeSaveLocked

(* What a pull of node n does to the other nodes' books: nothing.          *)
LEMMA PullElsewhere ==
  ASSUME TypeOK, NEW n \in Node, NEW m \in Node, Pull(n, m), NEW k \in Node \ {n}
  PROVE  /\ idx'[k] = idx[k] /\ saved'[k] = saved[k] /\ applies'[k] = applies[k]
         /\ status'[k] = status[k] /\ lock'[k] = lock[k]
<1>1. CASE Apply(n, m)
  <2>1. PICK x \in worker[n][m].todo :
          \/ ApplyNoop(n, m, x) \/ ApplyTombstone(n, m, x) \/ ApplyDelete(n, m, x)
          \/ ApplyMeta(n, m, x) \/ ApplyContent(n, m, x)
    BY <1>1 DEF Apply
  <2> QED
    BY <2>1 DEF ApplyNoop, ApplyTombstone, ApplyDelete, ApplyMeta, ApplyContent,
                Moves, EntersCommit, TypeOK
<1>2. CASE Commit(n, m)
  <2>1. CASE CommitFails(n, m)
    BY <2>1 DEF CommitFails, TypeOK
  <2>2. CASE UNCHANGED <<idx, saved, status, lock, applies>>
    BY <2>2
  <2>3. ASSUME NEW files, EndsCommit(n, m, files),
               \/ maybeSaveLocked(n, files)
               \/ applies' = [applies EXCEPT ![n] = @ + 1] /\ UNCHANGED saved
        PROVE  /\ idx'[k] = idx[k] /\ saved'[k] = saved[k]
               /\ applies'[k] = applies[k]
               /\ status'[k] = status[k] /\ lock'[k] = lock[k]
    BY <2>3 DEF EndsCommit, maybeSaveLocked, TypeOK
  <2>4. CASE CommitSet(n, m) \/ CommitRemove(n, m) \/ MetaSet(n, m)
    BY <2>1, <2>3, <2>4, Zenon DEF CommitSet, CommitRemove, MetaSet
  <2> QED
    BY <1>2, <2>1, <2>2, <2>4, Zenon DEF Commit, CommitRename, CommitChtimes, MetaTimes
<1>3. CASE CommitCheck(n, m)
  BY <1>3 DEF CommitCheck, Moves, EntersCommit, TypeOK
<1>4. CASE PullDone(n, m)
  BY <1>4 DEF PullDone, TypeOK
<1> QED
  BY <1>1, <1>2, <1>3, <1>4
  DEF Pull, fetchManifest, TransportError, ContextDone, Request, serveFile, Moves

(* A worker that only moves on, or enters a commit with syncMu free.       *)
LEMMA MovesBooked ==
  ASSUME TypeOK, NEW n \in Node, NEW m \in Node, NEW w,
         \/ Moves(n, m, w)
         \/ EntersCommit(n, m, w) /\ lock[n] = "free"
  PROVE  Booked(n)
BY UntouchedBooked DEF Moves, EntersCommit

(* The steps of a commit.                                                  *)
LEMMA CommitBooked ==
  ASSUME TypeOK, NEW n \in Node, NEW m \in Node, Commit(n, m)
  PROVE  Booked(n)
<1>1. CASE CommitFails(n, m)
  BY <1>1, FaultPositive DEF CommitFails, Booked
<1>2. CASE UNCHANGED <<idx, saved, status, lock, applies>>
  BY <1>2, UntouchedBooked
<1>3. CASE CommitSet(n, m)
  BY <1>3, EndsCommitBooked DEF CommitSet
<1>4. CASE CommitRemove(n, m)
  BY <1>1, <1>4, EndsCommitBooked DEF CommitRemove
<1>5. CASE MetaSet(n, m)
  BY <1>1, <1>5, EndsCommitBooked, Zenon DEF MetaSet
<1> QED
  BY <1>1, <1>2, <1>3, <1>4, <1>5, Zenon
  DEF Commit, CommitRename, CommitChtimes, MetaTimes

(* The steps of a pull.                                                    *)
LEMMA PullBooked ==
  ASSUME TypeOK, NEW n \in Node, NEW m \in Node, Pull(n, m), NEW k \in Node
  PROVE  Booked(k)
<1>1. CASE k # n
  BY <1>1, PullElsewhere, UntouchedBooked
<1>2. CASE k = n /\ Apply(n, m)
  <2>1. PICK x \in worker[n][m].todo :
          \/ ApplyNoop(n, m, x) \/ ApplyTombstone(n, m, x) \/ ApplyDelete(n, m, x)
          \/ ApplyMeta(n, m, x) \/ ApplyContent(n, m, x)
    BY <1>2 DEF Apply
  <2>2. CASE ApplyTombstone(n, m, x)
    <3> DEFINE files == SetIfWins(idx[n], x.path, x.entry)
    <3>1. CASE files # idx[n]
      BY <2>2, <3>1 DEF ApplyTombstone, Booked, TypeOK
    <3>2. CASE files = idx[n]
      BY <2>2, <3>2, UntouchedBooked DEF ApplyTombstone, TypeOK
    <3> QED
      BY <1>2, <3>1, <3>2
  <2>3. CASE ApplyNoop(n, m, x) \/ ApplyContent(n, m, x)
    BY <1>2, <2>3, MovesBooked DEF ApplyNoop, ApplyContent
  <2>4. CASE ApplyDelete(n, m, x) \/ ApplyMeta(n, m, x)
    BY <1>2, <2>4, MovesBooked DEF ApplyDelete, ApplyMeta, Applying
  <2> QED
    BY <2>1, <2>2, <2>3, <2>4
<1>3. CASE k = n /\ Commit(n, m)
  BY <1>3, CommitBooked
<1>4. CASE k = n /\ CommitCheck(n, m)
  BY <1>4, MovesBooked DEF CommitCheck
<1>5. CASE k = n /\ PullDone(n, m)
  <2>1. CASE Fault
    BY <2>1, FaultPositive DEF Booked
  <2>2. CASE worker[n][m].changed /\ ~Fault
    BY <1>5, <2>2 DEF PullDone, Booked, TypeOK
  <2>3. CASE ~worker[n][m].changed
    BY <1>5, <2>3, UntouchedBooked DEF PullDone, TypeOK
  <2> QED
    BY <2>1, <2>2, <2>3
<1> QED
  BY <1>1, <1>2, <1>3, <1>4, <1>5, MovesBooked
  DEF Pull, fetchManifest, TransportError, ContextDone, Request, serveFile

(* Every step keeps the books.                                             *)
LEMMA StepCounted ==
  ASSUME IInv, Counted, [Next]_vars
  PROVE  Counted'
<1>1. TypeOK /\ TypeOK'
  BY StepIInv DEF IInv
<1>2. faults' = 0 => faults = 0
  <2>1. UNCHANGED faults \/ Fault \/ faults' >= faults
    BY <1>1, UserLeaves, PullShape
    DEF Next, Reconcile, ScanWalk, ScanApply, ScanFails, ReconcileSave, Life, Stop,
        ShutdownSave, Drained, Crash, Restart, pullPeers, NoFault, PullStep
  <2> QED
    BY <1>1, <2>1 DEF Fault, TypeOK
<1>3. CASE User \/ Tick \/ UNCHANGED vars
  <2>1. UNCHANGED <<idx, saved, status, lock, applies>>
    BY <1>3, Zenon DEF User, UserWrite, UserChmod, UserRemove, Edit, Tick, daemonVars, vars
  <2> QED
    BY <1>1, <1>2, <2>1, UntouchedBooked, BookedCounts
<1>4. ASSUME NEW n \in Node, Reconcile(n) \/ Life(n)
      PROVE  Counted'
  BY <1>1, <1>2, <1>4, ReconcileBooked, LifeBooked, BookedCounts
<1>5. ASSUME NEW n \in Node, NEW S \in SUBSET Node, pullPeers(n, S)
      PROVE  Counted'
  BY <1>1, <1>2, <1>5, UntouchedBooked, BookedCounts DEF pullPeers
<1>6. ASSUME NEW n \in Node, NEW m \in Node, Pull(n, m)
      PROVE  Counted'
  BY <1>1, <1>2, <1>6, PullBooked, BookedCounts
<1> QED
  BY <1>3, <1>4, <1>5, <1>6 DEF Next

(* As long as nothing failed, an index that differs from index.json has a  *)
(* positive count of applies, so that the next reconcile saves it even if  *)
(* its scan finds nothing new.                                             *)
THEOREM AppliesAreCounted == Spec => []UnsavedIsCounted
<1>1. Init => Counted
  BY DEF Init, Counted
<1>2. IInv /\ Counted /\ [Next]_vars => Counted'
  BY StepCounted
<1>3. Counted => UnsavedIsCounted
  BY DEF Counted, UnsavedIsCounted, Up
<1> QED
  BY <1>1, <1>2, <1>3, Invariance, PTL DEF Spec

=============================================================================
