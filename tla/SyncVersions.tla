---------------------------- MODULE SyncVersions ----------------------------
(***************************************************************************)
(* What becomes of the versions of a path, for every value of the          *)
(* constants of Sync: no scan promotes what a peer apply wrote, the newest *)
(* version of a path is never only in flight, and nodes that have nothing  *)
(* left to do agree and stay as they are.                                  *)
(***************************************************************************)
EXTENDS SyncFiles

(* Leaves that name no prover are left to Zenon, then to SMT.              *)
USE ZenonT(8), SMTT(15)

-----------------------------------------------------------------------------
(* What peer applies leave behind *)

(* The entry is the file, to the last bit a scan looks at.                 *)
Exact(f, e) ==
  IF f = NoFile
    THEN ~Live(e)
    ELSE Live(e) /\ f.hash = e.hash /\ f.mode = e.mode /\ f.mtime = e.mtime

(* Metadata that the file system of n gives back as they are.              *)
Kept(n, f) == f.mode # 0 /\ OnDisk(n, f.mtime) = f.mtime

Recording == Written \cup {"metaSet"}

(* The files d, the index i and what the scan has seen have metadata that  *)
(* survive a rollback; a file that a peer apply was the last to write is   *)
(* exactly what the index says, and what a scan in progress saw, unless    *)
(* the apply has still to record it.                                       *)
Firm(n, d, i, seen, pl, l, w) ==
  /\ \A p \in Path :
       /\ d[p] # NoFile => Kept(n, d[p])
       /\ seen[p] # NoFile => Kept(n, seen[p])
       /\ Live(i[p]) => Kept(n, i[p])
       /\ l = "scan" /\ pl[p] => seen[p] = d[p]
       /\ pl[p] => \/ Exact(d[p], i[p])
                   \/ l \in Node /\ w.ph \in Recording /\ w.cur.path = p
  /\ l \in Node =>
       /\ w.ph \in Written => d[w.cur.path].mode = fileMode(w.cur.entry.mode)
       /\ w.ph = "metaSet" => d[w.cur.path] # NoFile

FirmOf(n) ==
  Firm(n, disk[n], idx[n], walk[n].files, pulled[n], lock[n], worker[n][lock[n]])

(* A worker fetches and commits live entries, and removes for deleted ones.*)
Fetching == {"fetch", "read", "got", "rename", "chtimes", "set"}

Aimed(w) == /\ w.ph \in Fetching => ~w.cur.entry.deleted
            /\ w.ph = "remove" => w.cur.entry.deleted

(* Users leave a file some permission: a mode of 0 means "none recorded"   *)
(* to fileMode.                                                            *)
Settled ==
  /\ 0 \notin Mode
  /\ \A n \in Node : FirmOf(n)
  /\ \A n, m \in Node : Aimed(worker[n][m])

(* Rounding down to a multiple of g is done once.                          *)
LEMMA Rounding ==
  ASSUME NEW t \in Nat, NEW g \in Nat \ {0}
  PROVE  (t - (t % g)) % g = 0
<1>1. PICK q \in Nat : t = g * q + (t % g)
  BY SMTT(20)
<1>2. (g * q) % g = 0
  BY SMTT(20)
<1>3. 0 <= t % g /\ t % g < g
  OBVIOUS
<1> QED
  BY <1>1, <1>2, <1>3

LEMMA OnDiskTwice ==
  ASSUME NEW n \in Node, NEW t \in Nat
  PROVE  OnDisk(n, OnDisk(n, t)) = OnDisk(n, t)
<1>1. Gran[n] \in Nat \ {0}
  BY SyncAssumption
<1>2. (t - (t % Gran[n])) % Gran[n] = 0
  BY <1>1, Rounding
<1> QED
  BY <1>1, <1>2 DEF OnDisk

(* Modes are never recorded as 0.                                          *)
LEMMA FileModeSet ==
  ASSUME NEW mode \in Nat
  PROVE  fileMode(mode) # 0 /\ (mode # 0 => fileMode(mode) = mode)
BY SyncAssumption DEF fileMode

LEMMA InitSettled ==
  ASSUME Init, 0 \notin Mode
  PROVE  Settled
<1>1. ASSUME NEW n \in Node
      PROVE  FirmOf(n)
  <2>1. /\ lock[n] = "free" /\ "free" \notin Node
        /\ \A p \in Path : /\ disk[n][p] = NoFile /\ idx[n][p] = NoEntry
                           /\ walk[n].files[p] = NoFile /\ ~pulled[n][p]
    BY SyncAssumption DEF Init, NoWalk
  <2> QED
    BY <2>1 DEF FirmOf, Firm, Live
<1>2. \A n, m \in Node : Aimed(worker[n][m])
  BY DEF Init, Aimed, Idle, Fetching
<1> QED
  BY <1>1, <1>2 DEF Settled

LEMMA UntouchedFirm ==
  ASSUME NEW n \in Node, FirmOf(n),
         disk'[n] = disk[n], idx'[n] = idx[n], walk'[n] = walk[n],
         lock'[n] = lock[n], worker'[n] = worker[n], pulled'[n] = pulled[n]
  PROVE  FirmOf(n)'
BY DEF FirmOf

(* The files a user leaves: their own, with metadata the disk keeps.       *)
LEMMA UserSettled ==
  ASSUME TypeOK, Faithful, Settled, User
  PROVE  Settled'
<1>1. PICK n \in Node, p \in Path :
        \/ \E c \in Content : UserWrite(n, p, c)
        \/ \E mode \in Mode : UserChmod(n, p, mode)
        \/ UserRemove(n, p)
  BY DEF User
<1>2. disk[n][p] \in File \cup {NoFile} /\ FirmOf(n)
  BY DEF TypeOK, Settled
<1>3. PICK f : Edit(n, p, f) /\ (f # NoFile => Kept(n, f))
  <2>1. CASE \E c \in Content : UserWrite(n, p, c)
    <3> DEFINE t == OnDisk(n, Clock(n) + 2)
               mode == IF disk[n][p] = NoFile THEN DefaultMode
                                              ELSE disk[n][p].mode
    <3>1. PICK c \in Content :
            Edit(n, p, [hash |-> c, mtime |-> t, mode |-> mode])
      BY <2>1 DEF UserWrite
    <3>2. OnDisk(n, t) = t
      BY ClockType, OnDiskTwice
    <3>3. mode # 0
      BY <1>2, SyncAssumption DEF FirmOf, Firm, Kept
    <3> HIDE DEF t, mode
    <3> QED
      BY <3>1, <3>2, <3>3 DEF Kept
  <2>2. CASE \E mode \in Mode : UserChmod(n, p, mode)
    <3>1. PICK mode \in Mode :
            disk[n][p] # NoFile /\ Edit(n, p, [disk[n][p] EXCEPT !.mode = mode])
      BY <2>2 DEF UserChmod
    <3> DEFINE f == [disk[n][p] EXCEPT !.mode = mode]
    <3>2. f.mode = mode /\ f.mtime = disk[n][p].mtime /\ mode # 0
      BY <1>2, <3>1 DEF File, Settled
    <3>3. Kept(n, f)
      BY <1>2, <3>1, <3>2 DEF FirmOf, Firm, Kept
    <3> QED
      BY <3>1, <3>3
  <2>3. CASE UserRemove(n, p)
    BY <2>3 DEF UserRemove
  <2> QED
    BY <1>1, <2>1, <2>2, <2>3
<1>4. /\ disk'[n][p] = f /\ ~pulled'[n][p]
      /\ \A q \in Path \ {p} : /\ disk'[n][q] = disk[n][q]
                               /\ pulled'[n][q] = pulled[n][q]
      /\ \A k \in Node \ {n} : disk'[k] = disk[k] /\ pulled'[k] = pulled[k]
      /\ UNCHANGED <<idx, walk, lock, worker>>
      /\ lock[n] \notin Node
  BY <1>3 DEF Edit, TypeOK, daemonVars, InWindow, Faithful
<1>5. FirmOf(n)'
  BY <1>2, <1>3, <1>4, Zenon DEF FirmOf, Firm
<1>6. ASSUME NEW k \in Node \ {n}
      PROVE  FirmOf(k)'
  BY <1>4, UntouchedFirm DEF Settled
<1> QED
  BY <1>4, <1>5, <1>6 DEF Settled

(* What a step under a free syncMu, or a scan's, may rely on.              *)
LEMMA CalmFirm ==
  ASSUME NEW n \in Node, FirmOf(n), lock[n] \notin Node
  PROVE  \A p \in Path :
           /\ disk[n][p] # NoFile => Kept(n, disk[n][p])
           /\ walk[n].files[p] # NoFile => Kept(n, walk[n].files[p])
           /\ Live(idx[n][p]) => Kept(n, idx[n][p])
           /\ pulled[n][p] => Exact(disk[n][p], idx[n][p])
BY DEF FirmOf, Firm

LEMMA FreeFirm ==
  ASSUME NEW n, NEW d, NEW i, NEW seen, NEW pl, NEW l, NEW w,
         l \in {"free", "save"},
         \A p \in Path : /\ d[p] # NoFile => Kept(n, d[p])
                         /\ seen[p] # NoFile => Kept(n, seen[p])
                         /\ Live(i[p]) => Kept(n, i[p])
                         /\ pl[p] => Exact(d[p], i[p])
  PROVE  Firm(n, d, i, seen, pl, l, w)
BY SyncAssumption DEF Firm

(* A scan finds no change in a file a peer apply was the last to write.    *)
LEMMA NoChange ==
  ASSUME NEW n \in Node, FirmOf(n), lock[n] = "scan", NEW p \in Path,
         pulled[n][p]
  PROVE  ~ScanChange(n, p)
<1>1. lock[n] \notin Node
  BY SyncAssumption
<1>2. walk[n].files[p] = disk[n][p] /\ Exact(disk[n][p], idx[n][p])
  BY <1>1 DEF FirmOf, Firm
<1> QED
  BY <1>2 DEF ScanChange, Exact

(* What a scan records has the metadata the walk saw.                      *)
LEMMA ScanKept ==
  ASSUME TypeOK, NEW n \in Node, FirmOf(n), ScanApply(n), NEW p \in Path,
         Live(ScanResult(n)[p])
  PROVE  Kept(n, ScanResult(n)[p])
<1> DEFINE f == walk[n].files[p]
           prev == idx[n][p]
           e == Scanned(n, p)
<1>1. /\ f \in File \cup {NoFile} /\ prev \in Entry \cup {NoEntry}
      /\ f # NoFile => Kept(n, f)
      /\ Live(prev) => Kept(n, prev)
  BY DEF FirmOf, Firm, TypeOK
<1>2. ScanResult(n)[p] \in {prev, e}
  <2>1. SetIfWins(idx[n], p, e)[p] \in {prev, e}
    BY DEF SetIfWins, TypeOK
  <2> QED
    BY <2>1 DEF ScanResult
<1>3. CASE ScanResult(n)[p] = prev
  BY <1>1, <1>3
<1>4. CASE ScanResult(n)[p] = e /\ ScanChange(n, p)
  <2>1. CASE f = NoFile
    <3>1. prev \in Entry
      BY <1>1, <1>4, <2>1 DEF ScanChange, Live
    <3>2. e.deleted
      BY <2>1, <3>1 DEF Scanned, Entry
    <3> QED
      BY <1>4, <3>2 DEF Live
  <2>2. CASE f # NoFile
    <3>1. e.mode = f.mode /\ e.mtime = f.mtime
      BY <2>2 DEF Scanned
    <3> QED
      BY <1>1, <1>4, <2>2, <3>1 DEF Kept
  <2> QED
    BY <2>1, <2>2
<1>5. ~ScanChange(n, p) => ScanResult(n)[p] = prev
  BY DEF ScanResult
<1> QED
  BY <1>2, <1>3, <1>4, <1>5

LEMMA ReconcileSettled ==
  ASSUME TypeOK, Settled, NEW n \in Node, Reconcile(n)
  PROVE  Settled'
<1>1. /\ disk' = disk /\ worker' = worker /\ pulled' = pulled
      /\ \A k \in Node \ {n} : /\ idx'[k] = idx[k] /\ walk'[k] = walk[k]
                               /\ lock'[k] = lock[k]
  BY DEF Reconcile, ScanWalk, ScanApply, ScanFails, ReconcileSave, TypeOK
<1>2. FirmOf(n) /\ lock[n] \in {"free", "scan", "save"} /\ lock[n] \notin Node
  BY LockKinds
  DEF Settled, Reconcile, ScanWalk, ScanApply, ScanFails, ReconcileSave
<1>3. \A p \in Path :
        /\ disk[n][p] # NoFile => Kept(n, disk[n][p])
        /\ walk[n].files[p] # NoFile => Kept(n, walk[n].files[p])
        /\ Live(idx[n][p]) => Kept(n, idx[n][p])
        /\ pulled[n][p] => Exact(disk[n][p], idx[n][p])
  BY <1>2, CalmFirm
<1>4. ASSUME NEW k \in Node \ {n}
      PROVE  FirmOf(k)'
  BY <1>1, UntouchedFirm DEF Settled
<1> SUFFICES FirmOf(n)'
  BY <1>1, <1>4 DEF Settled
<1>5. CASE ScanWalk(n)
  <2>1. /\ lock'[n] = "scan" /\ idx'[n] = idx[n]
        /\ walk'[n].files = disk[n]
    BY <1>5 DEF ScanWalk, TypeOK
  <2> QED
    BY <1>1, <1>3, <2>1, SyncAssumption DEF FirmOf, Firm
<1>6. ASSUME walk'[n] = NoWalk, NEW p \in Path
      PROVE  walk'[n].files[p] = NoFile
  BY <1>6 DEF NoWalk
<1>7. CASE ScanApply(n)
  <2>1. /\ lock'[n] \in {"free", "save"} /\ lock[n] = "scan"
        /\ idx'[n] = GCTombstones(ScanResult(n), Clock(n), TTL)
        /\ walk'[n] = NoWalk
    BY <1>7 DEF ScanApply, TypeOK
  <2>2. ASSUME NEW p \in Path
        PROVE  /\ Live(idx'[n][p]) => Kept(n, idx'[n][p])
               /\ pulled[n][p] => Exact(disk[n][p], idx'[n][p])
    <3>1. /\ idx'[n][p] \in {ScanResult(n)[p], NoEntry}
          /\ idx'[n][p] = NoEntry => ~Live(ScanResult(n)[p])
      BY <2>1, Zenon DEF GCTombstones, ScanResult, Expired, Tombstone, Live
    <3>2. Live(ScanResult(n)[p]) => Kept(n, ScanResult(n)[p])
      BY <1>2, <1>7, ScanKept
    <3>3. pulled[n][p] => ScanResult(n)[p] = idx[n][p]
      BY <1>2, <2>1, NoChange DEF ScanResult
    <3> QED
      BY <1>3, <3>1, <3>2, <3>3 DEF Live, Exact
  <2> QED
    BY <1>1, <1>3, <1>6, <2>1, <2>2, FreeFirm DEF FirmOf
<1>8. CASE ScanFails(n)
  <2>1. lock'[n] = "free" /\ idx' = idx /\ walk'[n] = NoWalk
    BY <1>8 DEF ScanFails, TypeOK
  <2> QED
    BY <1>1, <1>3, <1>6, <2>1, FreeFirm DEF FirmOf
<1>9. CASE ReconcileSave(n)
  <2>1. lock'[n] = "free" /\ idx' = idx /\ walk' = walk
    BY <1>9 DEF ReconcileSave, TypeOK
  <2> QED
    BY <1>1, <1>3, <2>1, FreeFirm DEF FirmOf
<1> QED
  BY <1>5, <1>7, <1>8, <1>9 DEF Reconcile

LEMMA LifeSettled ==
  ASSUME IInv, Settled, Orderly, NEW n \in Node, Life(n)
  PROVE  Settled'
<1>1. TypeOK
  BY DEF IInv
<1>2. /\ disk' = disk /\ pulled' = pulled
      /\ \A k \in Node \ {n} : /\ idx'[k] = idx[k] /\ walk'[k] = walk[k]
                               /\ lock'[k] = lock[k] /\ worker'[k] = worker[k]
  BY <1>1 DEF Life, Stop, ShutdownSave, Drained, Crash, Restart, TypeOK
<1>3. ASSUME NEW k \in Node \ {n}
      PROVE  FirmOf(k)'
  BY <1>2, UntouchedFirm DEF Settled
<1>4. ASSUME FirmOf(n)', \A m \in Node : Aimed(worker'[n][m])
      PROVE  Settled'
  BY <1>2, <1>3, <1>4 DEF Settled
<1>5. CASE Stop(n) \/ ShutdownSave(n) \/ Drained(n)
  <2>1. UNCHANGED <<idx, walk, lock, worker>>
    BY <1>5 DEF Stop, ShutdownSave, Drained
  <2> QED
    BY <1>2, <1>4, <2>1, UntouchedFirm DEF Settled
<1>6. CASE Crash(n)
  <2>1. lock[n] \notin Node
    BY <1>6 DEF Orderly
  <2>2. idx' = idx /\ lock'[n] = "free" /\ walk'[n] = NoWalk
    BY <1>1, <1>6 DEF Crash, TypeOK
  <2>3. \A p \in Path : walk'[n].files[p] = NoFile
    BY <2>2 DEF NoWalk
  <2>4. FirmOf(n)'
    BY <1>2, <2>1, <2>2, <2>3, CalmFirm, FreeFirm DEF Settled, FirmOf
  <2>5. \A m \in Node : worker'[n][m] = Idle
    BY <1>1, <1>6 DEF Crash, TypeOK
  <2> QED
    BY <1>4, <2>4, <2>5 DEF Aimed, Idle, Fetching
<1>7. CASE Restart(n)
  <2>1. saved[n] = idx[n]
    BY <1>7 DEF Orderly
  <2>2. idx'[n] = idx[n] /\ UNCHANGED <<walk, lock, worker>>
    BY <1>1, <1>7, <2>1 DEF Restart, TypeOK
  <2> QED
    BY <1>2, <1>4, <2>2, UntouchedFirm DEF Settled
<1> QED
  BY <1>5, <1>6, <1>7 DEF Life

(* A worker that is in no commit, and enters none.                         *)
LEMMA OutsideFirm ==
  ASSUME TypeOK, Settled, NEW n \in Node,
         UNCHANGED <<disk, idx, walk, lock, pulled>>,
         \A k \in Node \ {n} : worker'[k] = worker[k],
         \A j \in Node : \/ worker'[n][j] = worker[n][j]
                         \/ /\ worker[n][j].ph \notin Written \cup Unwritten
                            /\ worker'[n][j].ph \notin Written \cup Unwritten
                            /\ Aimed(worker'[n][j])
  PROVE  Settled'
<1>1. ASSUME NEW k \in Node \ {n}
      PROVE  FirmOf(k)'
  BY <1>1, UntouchedFirm DEF Settled
<1>2. FirmOf(n)'
  <2>1. CASE lock[n] \in Node /\ worker'[n][lock[n]] = worker[n][lock[n]]
    BY <2>1 DEF Settled, FirmOf
  <2>2. CASE lock[n] \in Node /\ worker'[n][lock[n]] # worker[n][lock[n]]
    <3>1. /\ worker[n][lock[n]].ph \notin Recording
          /\ worker'[n][lock[n]].ph \notin Recording
      BY <2>2 DEF Recording, Unwritten
    <3> QED
      BY <2>2, <3>1 DEF Settled, FirmOf, Firm, Recording
  <2>3. CASE lock[n] \notin Node
    BY <2>3, Zenon DEF Settled, FirmOf, Firm
  <2> QED
    BY <2>1, <2>2, <2>3
<1>3. \A k, j \in Node : Aimed(worker'[k][j])
  BY DEF Settled
<1> QED
  BY <1>1, <1>2, <1>3 DEF Settled

LEMMA EnterSettled ==
  ASSUME TypeOK, Settled, NEW n \in Node, NEW m \in Node, NEW w \in Worker,
         Enters(n, m, w)
  PROVE  Settled'
<1>1. /\ UNCHANGED <<disk, idx, walk, pulled>>
      /\ lock'[n] = m /\ lock[n] = "free"
      /\ \A k \in Node \ {n} : lock'[k] = lock[k]
  BY DEF Enters, EntersCommit, TypeOK
<1>2. /\ worker'[n][m] = w
      /\ \A j \in Node \ {m} : worker'[n][j] = worker[n][j]
      /\ \A k \in Node \ {n} : worker'[k] = worker[k]
  BY DEF Enters, EntersCommit, TypeOK
<1>3. ASSUME NEW k \in Node \ {n}
      PROVE  FirmOf(k)'
  BY <1>1, <1>2, UntouchedFirm DEF Settled
<1>4. w.ph \in {"rename", "remove", "metaTimes"}
  BY DEF Enters
<1>5. FirmOf(n)'
  <2>1. \A p \in Path :
          /\ disk[n][p] # NoFile => Kept(n, disk[n][p])
          /\ walk[n].files[p] # NoFile => Kept(n, walk[n].files[p])
          /\ Live(idx[n][p]) => Kept(n, idx[n][p])
          /\ pulled[n][p] => Exact(disk[n][p], idx[n][p])
    BY <1>1, SyncAssumption, CalmFirm DEF Settled
  <2> QED
    BY <1>1, <1>2, <1>4, <2>1, SyncAssumption DEF FirmOf, Firm, Written
<1>6. Aimed(w)
  BY DEF Enters, Settled, Aimed, Fetching
<1>7. \A k, j \in Node : Aimed(worker'[k][j])
  BY <1>2, <1>6 DEF Settled
<1> QED
  BY <1>3, <1>5, <1>7 DEF Settled

LEMMA TombstoneSettled ==
  ASSUME TypeOK, Settled, NEW n \in Node, NEW m \in Node,
         NEW x \in worker[n][m].todo, ApplyTombstone(n, m, x), x.entry.deleted
  PROVE  Settled'
<1> DEFINE files == SetIfWins(idx[n], x.path, x.entry)
           w == IF files # idx[n] THEN Applied(Took(n, m, x)) ELSE Took(n, m, x)
<1>1. /\ UNCHANGED <<disk, walk, lock, pulled>> /\ lock[n] = "free"
      /\ idx'[n] = files
      /\ \A k \in Node \ {n} : idx'[k] = idx[k]
  BY DEF ApplyTombstone, Applying, TypeOK
<1>2. /\ worker'[n][m] = w
      /\ \A j \in Node \ {m} : worker'[n][j] = worker[n][j]
      /\ \A k \in Node \ {n} : worker'[k] = worker[k]
  <2>1. worker' = [worker EXCEPT ![n][m] = w]
    BY DEF ApplyTombstone
  <2> HIDE DEF w
  <2> QED
    BY <2>1 DEF TypeOK
<1>3. x.path \in Path /\ x.entry \in Entry /\ Took(n, m, x) \in Worker
  BY TookType
<1>4. Aimed(w)
  <2>1. worker[n][m].ph = "apply" /\ worker[n][m] \in Worker
    BY WorkerType DEF ApplyTombstone, Applying
  <2>2. Took(n, m, x).ph = "apply"
    BY <2>1 DEF Took, Worker
  <2>3. w.ph = "apply"
    BY <1>3, <2>2, NextEntryPhase
  <2> QED
    BY <2>3 DEF Aimed, Fetching
<1>5. ~Live(idx[n][x.path])
  <2>1. idx[n][x.path] \in Entry \cup {NoEntry}
    BY <1>3 DEF TypeOK
  <2>2. "tombstone" = decideApply(idx[n][x.path], x.entry,
                                  disk[n][x.path] # NoFile)
    BY DEF ApplyTombstone, Applying
  <2> QED
    BY <1>3, <2>1, <2>2, DecideKinds, Zenon
<1>6. ASSUME NEW p \in Path
      PROVE  files[p] = idx[n][p] \/ (~Live(idx[n][p]) /\ ~Live(files[p]))
  BY <1>5, Zenon DEF SetIfWins, TypeOK, Live
<1>7. \A p \in Path :
        /\ disk[n][p] # NoFile => Kept(n, disk[n][p])
        /\ walk[n].files[p] # NoFile => Kept(n, walk[n].files[p])
        /\ Live(idx[n][p]) => Kept(n, idx[n][p])
        /\ pulled[n][p] => Exact(disk[n][p], idx[n][p])
  BY <1>1, SyncAssumption, CalmFirm DEF Settled
<1> HIDE DEF files, w
<1>8. \A p \in Path : /\ Live(files[p]) => Kept(n, files[p])
                      /\ pulled[n][p] => Exact(disk[n][p], files[p])
  BY <1>6, <1>7 DEF Exact
<1>9. FirmOf(n)'
  BY <1>1, <1>7, <1>8, FreeFirm DEF FirmOf
<1>10. ASSUME NEW k \in Node \ {n}
      PROVE  FirmOf(k)'
  BY <1>1, <1>2, UntouchedFirm DEF Settled
<1>11. \A k, j \in Node : Aimed(worker'[k][j])
  BY <1>2, <1>4 DEF Settled
<1> QED
  BY <1>9, <1>10, <1>11 DEF Settled

(* A step inside a commit: the file it is about keeps what the apply gave  *)
(* it, and when the commit ends the index says exactly that.               *)
LEMMA CommitSettled ==
  ASSUME IInv, Faithful, Settled, NEW n \in Node, NEW m \in Node, Commit(n, m)
  PROVE  Settled'
<1> DEFINE u == worker[n][m]
           x == u.cur.entry
           p == u.cur.path
           f == disk[n][p]
           e == idx[n][p]
           g == disk'[n][p]
           h == idx'[n][p]
           w == worker'[n][m]
<1>1. TypeOK
  BY DEF IInv
<1>2. /\ lock[n] = m /\ CommitLocal(n, m, p)
      /\ CommitEffect(n, m, f, e, g, h, lock'[n], w)
  BY <1>1, CommitShape
<1>3. ASSUME NEW k \in Node \ {n}
      PROVE  FirmOf(k)'
  BY <1>2, UntouchedFirm, Zenon DEF Settled, CommitLocal
<1>4. /\ u.ph \in Written => f # NoFile /\ f.hash = x.hash
      /\ u.ph \in Unwritten => Same(f, e)
  BY <1>2, Zenon DEF Faithful, FaithOf, Faith
<1>5. Firm(n, disk[n], idx[n], walk[n].files, pulled[n], m, u)
  BY <1>2 DEF Settled, FirmOf
<1>6. /\ f # NoFile => Kept(n, f)
      /\ Live(e) => Kept(n, e)
      /\ pulled[n][p] /\ u.ph \notin Recording => Exact(f, e)
      /\ u.ph \in Written => f.mode = fileMode(x.mode)
  BY <1>1, <1>5, WorkerType, Zenon DEF Firm
<1>7. /\ u \in Worker /\ p \in Path /\ x \in Entry
      /\ f \in File \cup {NoFile} /\ e \in Entry \cup {NoEntry}
  BY <1>1, WorkerType DEF TypeOK
<1>8. Entitled(m, u, lock[n], idx[n]) /\ Aimed(u)
  BY DEF IInv, CommitBasis, Settled
<1>9. /\ OnDisk(n, x.mtime) \in Nat /\ OnDisk(n, OnDisk(n, x.mtime)) = OnDisk(n, x.mtime)
      /\ OnDisk(n, WriteTime(n)) \in Nat
      /\ OnDisk(n, OnDisk(n, WriteTime(n))) = OnDisk(n, WriteTime(n))
      /\ x.mode \in Nat /\ fileMode(x.mode) \in Nat /\ fileMode(x.mode) # 0
  BY <1>1, <1>7, ClockType, OnDiskTwice, FileModeType, FileModeSet DEF Entry
<1>10. \A q \in Path \ {p} :
         /\ disk'[n][q] # NoFile => Kept(n, disk'[n][q])
         /\ walk'[n].files[q] # NoFile => Kept(n, walk'[n].files[q])
         /\ Live(idx'[n][q]) => Kept(n, idx'[n][q])
         /\ pulled'[n][q] => Exact(disk'[n][q], idx'[n][q])
  BY <1>2, <1>5, Zenon DEF Firm, CommitLocal
<1>11. walk'[n].files[p] # NoFile => Kept(n, walk'[n].files[p])
  BY <1>2, <1>5, <1>7, Zenon DEF Firm, CommitLocal
<1>12. ASSUME Aimed(w), FirmOf(n)'
       PROVE  Settled'
  <2>1. ASSUME NEW k \in Node, NEW j \in Node
        PROVE  Aimed(worker'[k][j])
    <3>1. Aimed(worker[k][j])
      BY DEF Settled
    <3>2. (k = n /\ j = m) \/ worker'[k][j] = worker[k][j]
      BY <1>2, Zenon DEF CommitLocal
    <3> QED
      BY <1>12, <3>1, <3>2, Zenon
  <2> QED
    BY <1>3, <1>12, <2>1 DEF Settled
<1>13. ASSUME lock'[n] = "free", w \in {NextEntry(u), Applied(u)},
              g # NoFile => Kept(n, g), Live(h) => Kept(n, h),
              pulled'[n][p] => Exact(g, h)
       PROVE  Settled'
  <2>1. Aimed(w)
    BY <1>7, <1>13, NextEntryPhase DEF Aimed, Fetching
  <2>2. \A q \in Path :
         /\ disk'[n][q] # NoFile => Kept(n, disk'[n][q])
         /\ walk'[n].files[q] # NoFile => Kept(n, walk'[n].files[q])
         /\ Live(idx'[n][q]) => Kept(n, idx'[n][q])
         /\ pulled'[n][q] => Exact(disk'[n][q], idx'[n][q])
    BY <1>10, <1>11, <1>13, Zenon
  <2>3. FirmOf(n)'
    BY <1>13, <2>2, FreeFirm DEF FirmOf
  <2> QED
    BY <1>12, <2>1, <2>3
<1>14. ASSUME NEW ph \in Recording, lock'[n] = m, w = [u EXCEPT !.ph = ph],
              g # NoFile, Kept(n, g), h = e,
              ph \in Written => g.mode = fileMode(x.mode) /\ ~x.deleted
       PROVE  Settled'
  <2>1. w.ph = ph /\ w.cur = u.cur
    BY <1>7, <1>14 DEF Worker
  <2>2. Aimed(w)
    BY <1>14, <2>1 DEF Aimed, Fetching, Recording, Written
  <2>3. m # "scan"
    BY SyncAssumption
  <2>4. Firm(n, disk'[n], idx'[n], walk'[n].files, pulled'[n], m, w)
    BY <1>6, <1>10, <1>11, <1>14, <2>1, <2>3, Zenon DEF Firm
  <2> QED
    BY <1>12, <1>14, <2>2, <2>4 DEF FirmOf
<1>15. CASE u.ph = "rename" /\ lock'[n] = m
  <2>1. /\ w = [u EXCEPT !.ph = "chtimes"] /\ h = e
        /\ g = [hash |-> x.hash, mode |-> fileMode(x.mode),
                mtime |-> OnDisk(n, WriteTime(n))]
    BY <1>2, <1>15, SyncAssumption, Zenon DEF CommitEffect
  <2>2. x.hash \in Content
    BY <1>15 DEF IInv, Received
  <2>3. g \in File /\ g.mode = fileMode(x.mode) /\ Kept(n, g)
    BY <1>9, <2>1, <2>2 DEF File, Kept
  <2>4. g # NoFile /\ ~x.deleted
    BY <1>8, <1>15, <2>3, SyncAssumption DEF Aimed, Fetching
  <2> QED
    BY <1>14, <1>15, <2>1, <2>3, <2>4, Zenon DEF Recording, Written
<1>16. CASE u.ph \in {"rename", "remove", "metaTimes"} /\ lock'[n] = "free"
            /\ g = f /\ h = e /\ w = NextEntry(u) /\ pulled' = pulled
  BY <1>6, <1>13, <1>16, Zenon DEF Recording, Written
<1>17. CASE u.ph = "chtimes"
  <2>1. /\ w = [u EXCEPT !.ph = "set"] /\ lock'[n] = m /\ h = e
        /\ \/ f # NoFile /\ g = [f EXCEPT !.mtime = OnDisk(n, x.mtime)]
           \/ g = f
    BY <1>2, <1>17, Zenon DEF CommitEffect
  <2>2. f \in File /\ f.mode = fileMode(x.mode) /\ ~x.deleted
    BY <1>4, <1>6, <1>7, <1>8, <1>17, Zenon DEF Written, Aimed, Fetching
  <2>3. g # NoFile /\ Kept(n, g) /\ g.mode = fileMode(x.mode)
    <3>1. CASE g = [f EXCEPT !.mtime = OnDisk(n, x.mtime)]
      <4>1. g \in File /\ g.mode = f.mode /\ g.mtime = OnDisk(n, x.mtime)
        BY <1>9, <2>2, <3>1, Zenon DEF File
      <4> QED
        BY <1>9, <2>2, <4>1, SyncAssumption DEF Kept
    <3>2. CASE g = f
      BY <1>6, <2>2, <3>2, SyncAssumption, Zenon
    <3> QED
      BY <2>1, <3>1, <3>2, Zenon
  <2> QED
    BY <1>14, <2>1, <2>2, <2>3, Zenon DEF Recording, Written
<1>18. CASE u.ph = "set"
  <2>1. /\ lock'[n] = "free" /\ g = f /\ w = Applied(u)
        /\ h = [x EXCEPT !.mode = diskMeta(n, u.cur).mode,
                         !.mtime = diskMeta(n, u.cur).mtime]
    BY <1>2, <1>18, Zenon DEF CommitEffect
  <2>2. f # NoFile /\ f.mode # 0 /\ f.hash = x.hash /\ ~x.deleted
    BY <1>4, <1>6, <1>8, <1>18, Zenon DEF Written, Aimed, Fetching, Kept
  <2>3. diskMeta(n, u.cur).mode = f.mode /\ diskMeta(n, u.cur).mtime = f.mtime
    BY <2>2 DEF diskMeta
  <2>4. /\ h.hash = f.hash /\ h.mode = f.mode /\ h.mtime = f.mtime
        /\ ~h.deleted /\ h \in Entry
    <3>1. f.mode \in Nat /\ f.mtime \in Nat
      BY <1>7, <2>2, Zenon DEF File
    <3> QED
      BY <1>7, <2>1, <2>2, <2>3, <3>1, Zenon DEF Entry
  <2>5. Exact(g, h) /\ Kept(n, g) /\ Kept(n, h)
    BY <1>6, <2>1, <2>2, <2>4, NoEntryAssumption, Zenon DEF Exact, Live, Kept
  <2> QED
    BY <1>13, <2>1, <2>5, Zenon
<1>19. CASE u.ph = "remove" /\ g = NoFile /\ lock'[n] = "free" /\ w = Applied(u)
            /\ h = SetIfWins(idx[n], p, x)[p]
  <2>1. e = NoEntry \/ Wins(e, x)
    BY <1>8, <1>19 DEF Entitled
  <2>2. h = x
    BY <1>1, <1>7, <1>19, <2>1 DEF SetIfWins, TypeOK
  <2>3. ~Live(h)
    BY <1>8, <1>19, <2>2 DEF Aimed, Live
  <2> QED
    BY <1>13, <1>19, <2>3 DEF Exact
<1>20. CASE u.ph = "metaTimes" /\ lock'[n] = m
  <2>1. /\ w = [u EXCEPT !.ph = "metaSet"] /\ h = e
        /\ f # NoFile /\ g = [f EXCEPT !.mtime = OnDisk(n, x.mtime)]
    BY <1>2, <1>20, SyncAssumption, Zenon DEF CommitEffect
  <2>2. g \in File /\ g.mode = f.mode /\ g.mtime = OnDisk(n, x.mtime)
    BY <1>7, <1>9, <2>1, Zenon DEF File
  <2>3. g # NoFile /\ Kept(n, g)
    BY <1>6, <1>9, <2>1, <2>2, SyncAssumption, Zenon DEF Kept
  <2> QED
    BY <1>14, <1>20, <2>1, <2>3, Zenon DEF Recording, Written
<1>21. CASE u.ph = "metaSet"
  <2>1. /\ f # NoFile /\ Live(e) /\ e \in Entry /\ f \in File
        /\ f.hash = e.hash /\ Kept(n, f) /\ Kept(n, e)
    <3>1. f # NoFile
      BY <1>1, <1>5, <1>21, WorkerType, Zenon DEF Firm
    <3> QED
      BY <1>4, <1>6, <1>7, <1>21, <3>1, Zenon DEF Unwritten, Same, Live
  <2>2. CASE /\ lock'[n] = "free" /\ w = Applied(u)
             /\ g = [f EXCEPT !.mode = fileMode(x.mode)]
             /\ h = [e EXCEPT !.updatedAt = x.updatedAt,
                              !.mode = fileMode(x.mode), !.mtime = f.mtime]
    <3>1. /\ g \in File /\ g.hash = f.hash /\ g.mode = fileMode(x.mode)
          /\ g.mtime = f.mtime
      BY <1>9, <2>1, <2>2, Zenon DEF File
    <3>2. /\ h \in Entry /\ h.hash = e.hash /\ h.mode = fileMode(x.mode)
          /\ h.mtime = f.mtime /\ (h.deleted <=> e.deleted)
      <4>1. f.mtime \in Nat /\ x.updatedAt \in Nat
        BY <1>7, <2>1, Zenon DEF File, Entry
      <4> QED
        BY <1>9, <2>1, <2>2, <4>1, Zenon DEF Entry
    <3>3. Exact(g, h) /\ Kept(n, g) /\ Kept(n, h)
      BY <1>9, <2>1, <3>1, <3>2, NoEntryAssumption, SyncAssumption, Zenon
      DEF Exact, Live, Kept
    <3> QED
      BY <1>13, <2>2, <3>3, Zenon
  <2>3. CASE /\ lock'[n] = "free" /\ w = NextEntry(u) /\ h = e
             /\ g = [f EXCEPT !.mode = fileMode(e.mode),
                              !.mtime = OnDisk(n, e.mtime)]
    <3>1. fileMode(e.mode) = e.mode /\ OnDisk(n, e.mtime) = e.mtime
      BY <2>1, FileModeSet, Zenon DEF Kept, Entry
    <3>2. e.mode \in Nat /\ e.mtime \in Nat
      BY <2>1, Zenon DEF Entry
    <3>3. /\ g \in File /\ g.hash = f.hash /\ g.mode = e.mode
          /\ g.mtime = e.mtime
      BY <2>1, <2>3, <3>1, <3>2, Zenon DEF File
    <3>4. Exact(g, h) /\ Kept(n, g)
      BY <2>1, <2>3, <3>3, SyncAssumption, Zenon DEF Exact, Kept
    <3> QED
      BY <1>13, <2>1, <2>3, <3>4, Zenon
  <2> QED
    BY <1>2, <1>21, <2>1, <2>2, <2>3, Zenon DEF CommitEffect
<1> QED
  BY <1>2, <1>15, <1>16, <1>17, <1>18, <1>19, <1>20, <1>21, Zenon DEF CommitEffect

(* Every step of a pull worker.                                            *)
LEMMA PullSettled ==
  ASSUME IInv, Faithful, Settled, NEW n \in Node, NEW m \in Node, Pull(n, m)
  PROVE  Settled'
<1>1. TypeOK
  BY DEF IInv
<1>2. ASSUME NEW w \in Worker, Outside(n, m, w)
      PROVE  Settled'
  <2>1. UNCHANGED <<disk, idx, walk, lock, pulled>>
    BY <1>2 DEF Outside, Moves, PullDone
  <2>2. worker' = [worker EXCEPT ![n][m] = w]
    BY <1>2 DEF Outside, Moves, PullDone
  <2>3. /\ worker'[n][m] = w
        /\ \A j \in Node \ {m} : worker'[n][j] = worker[n][j]
        /\ \A k \in Node \ {n} : worker'[k] = worker[k]
    BY <1>1, <2>2 DEF TypeOK
  <2>4. Aimed(worker[n][m])
    BY DEF Settled
  <2>5. Aimed(w)
    BY <1>2, <2>4 DEF Outside, Onward, Aimed, Fetching, Written, Unwritten
  <2> QED
    BY <1>1, <1>2, <2>1, <2>3, <2>5, OutsideFirm DEF Outside, Onward
<1> QED
  BY <1>1, <1>2, PullKinds, EnterSettled, TombstoneSettled, CommitSettled

(* Settled is inductive together with Faithful.                            *)
LEMMA StepSettled ==
  ASSUME IInv, Faithful, Settled, [Next]_vars, [Orderly]_vars
  PROVE  Settled'
<1>1. TypeOK
  BY DEF IInv
<1>2. CASE UNCHANGED vars
  BY <1>2 DEF vars, Settled, FirmOf
<1>3. CASE Next /\ Orderly
  <2>1. CASE User
    BY <1>1, <2>1, UserSettled
  <2>2. CASE Tick
    BY <2>2 DEF Tick, daemonVars, Settled, FirmOf
  <2>3. ASSUME NEW n \in Node, Reconcile(n) \/ Life(n)
        PROVE  Settled'
    BY <1>1, <1>3, <2>3, ReconcileSettled, LifeSettled
  <2>4. ASSUME NEW n \in Node, NEW S \in SUBSET Node, pullPeers(n, S)
        PROVE  Settled'
    <3>1. UNCHANGED <<disk, idx, walk, lock, pulled>>
      BY <2>4 DEF pullPeers
    <3>2. /\ \A m \in Node : worker'[n][m].ph \in {"idle", "manifest"}
          /\ \A k \in Node \ {n} : worker'[k] = worker[k]
      BY <1>1, <2>4 DEF pullPeers, TypeOK, Idle
    <3>3. \A m \in Node : worker[n][m].ph = "idle"
      BY <2>4 DEF pullPeers
    <3> QED
      BY <1>1, <3>1, <3>2, <3>3, OutsideFirm
      DEF Written, Unwritten, Aimed, Fetching
  <2>5. ASSUME NEW n \in Node, NEW m \in Node, Pull(n, m)
        PROVE  Settled'
    BY <2>5, PullSettled
  <2> QED
    BY <1>3, <2>1, <2>2, <2>3, <2>4, <2>5 DEF Next
<1> QED
  BY <1>2, <1>3

(* While a scan is on, only its end writes the index.                      *)
LEMMA ScanOwnsIndex ==
  ASSUME IInv, Next, NEW n \in Node, lock[n] = "scan", ~ScanApply(n)
  PROVE  idx'[n] = idx[n]
<1>1. TypeOK /\ "scan" \notin Node
  BY SyncAssumption DEF IInv
<1>2. CASE User \/ Tick
  BY <1>2, UserLeaves
<1>3. ASSUME NEW k \in Node, Reconcile(k)
      PROVE  idx'[n] = idx[n]
  BY <1>1, <1>3
  DEF Reconcile, ScanWalk, ScanApply, ScanFails, ReconcileSave, TypeOK
<1>4. ASSUME NEW k \in Node, Life(k)
      PROVE  idx'[n] = idx[n]
  <2>1. Restart(n) => FALSE
    BY DEF Restart, IInv, Quiet
  <2> QED
    BY <1>1, <1>4, <2>1
    DEF Life, Stop, ShutdownSave, Drained, Crash, Restart, TypeOK
<1>5. ASSUME NEW k \in Node, NEW S, pullPeers(k, S)
      PROVE  idx'[n] = idx[n]
  BY <1>5 DEF pullPeers
<1>6. ASSUME NEW k \in Node, NEW m \in Node, Pull(k, m)
      PROVE  idx'[n] = idx[n]
  <2>1. PICK w : PullStep(k, m, w)
    BY <1>6, PullShape
  <2> QED
    BY <1>1, <2>1 DEF PullStep
<1> QED
  BY <1>2, <1>3, <1>4, <1>5, <1>6 DEF Next

(* NoPromotion for every instance: no scan ever gives a new stamp to what  *)
(* a peer apply wrote, so a file that merely passed through a daemon never *)
(* beats a newer version of it elsewhere.                                  *)
THEOREM ScansPromoteNothing ==
  (0 \notin Mode /\ ~EditInWindow /\ Spec /\ [][Orderly]_vars) => NoPromotion
<1> DEFINE Unpromoted(n, p) ==
      (lock[n] = "scan" /\ idx'[n][p] # idx[n][p] /\ idx'[n][p] # NoEntry)
        => ~pulled[n][p]
<1>1. ASSUME IInv, Settled, Next, NEW n \in Node, NEW p \in Path
      PROVE  Unpromoted(n, p)
  <2> SUFFICES ASSUME lock[n] = "scan", idx'[n][p] # idx[n][p],
                      idx'[n][p] # NoEntry, pulled[n][p]
               PROVE  FALSE
    OBVIOUS
  <2>1. ScanApply(n)
    BY <1>1, ScanOwnsIndex
  <2>2. idx'[n] = GCTombstones(ScanResult(n), Clock(n), TTL)
    BY <1>1, <2>1 DEF ScanApply, IInv, TypeOK
  <2>3. idx'[n][p] \in {ScanResult(n)[p], NoEntry}
    BY <2>2 DEF GCTombstones, ScanResult
  <2>4. ~ScanChange(n, p)
    BY <1>1, NoChange DEF Settled
  <2> QED
    BY <2>3, <2>4 DEF ScanResult
<1>2. Init /\ 0 \notin Mode => Settled
  BY InitSettled
<1>3. IInv /\ Faithful /\ Settled /\ [Next]_vars /\ [Orderly]_vars => Settled'
  BY StepSettled
<1>4. IInv /\ Settled /\ [Next]_vars =>
        [\A n \in Node, p \in Path : Unpromoted(n, p)]_vars
  BY <1>1
<1> QED
  BY <1>2, <1>3, <1>4, FilesInv, PTL DEF Spec, NoPromotion

-----------------------------------------------------------------------------
(* The newest version of a path *)

Items(w) == w.todo \cup {w.cur}

(* What workers have in hand comes from what they had and from manifests.  *)
LEMMA ItemsCome ==
  ASSUME IInv, Next, NEW n \in Node, NEW m \in Node, NEW y \in Items(worker'[n][m])
  PROVE  y \in Items(worker[n][m]) \cup Manifest(m) \cup {NoItem}
<1>1. TypeOK
  BY DEF IInv
<1>2. CASE worker'[n][m] = worker[n][m]
  BY <1>2
<1>3. CASE worker'[n][m].todo = {} /\ worker'[n][m].cur = NoItem
  BY <1>3 DEF Items
<1>4. CASE User \/ Tick
  BY <1>2, <1>4, UserLeaves
<1>5. ASSUME NEW k \in Node, Reconcile(k) \/ Life(k)
      PROVE  y \in Items(worker[n][m]) \cup Manifest(m) \cup {NoItem}
  <2>1. worker' = worker \/ Crash(k)
    BY <1>5 DEF Reconcile, ScanWalk, ScanApply, ScanFails, ReconcileSave, Life,
                Stop, ShutdownSave, Drained, Restart
  <2>2. Crash(k) => worker'[n][m] \in {worker[n][m], Idle}
    BY <1>1 DEF Crash, TypeOK
  <2> QED
    BY <1>2, <1>3, <2>1, <2>2 DEF Idle
<1>6. ASSUME NEW k \in Node, NEW S \in SUBSET Node, pullPeers(k, S)
      PROVE  y \in Items(worker[n][m]) \cup Manifest(m) \cup {NoItem}
  <2>1. worker'[n][m] \in {worker[n][m], Idle, [Idle EXCEPT !.ph = "manifest"]}
    BY <1>1, <1>6 DEF pullPeers, TypeOK
  <2> QED
    BY <1>2, <1>3, <2>1 DEF Idle
<1>7. ASSUME NEW k \in Node, NEW j \in Node, Pull(k, j)
      PROVE  y \in Items(worker[n][m]) \cup Manifest(m) \cup {NoItem}
  <2> DEFINE u == worker[k][j]
  <2>1. u \in Worker
    BY <1>1, WorkerType
  <2>2. ASSUME NEW w, worker' = [worker EXCEPT ![k][j] = w],
               w.todo \subseteq u.todo \cup Manifest(j),
               w.cur \in {u.cur, NoItem} \cup u.todo
        PROVE  y \in Items(worker[n][m]) \cup Manifest(m) \cup {NoItem}
    <3>1. (n = k /\ m = j /\ worker'[n][m] = w) \/ worker'[n][m] = worker[n][m]
      BY <1>1, <2>2 DEF TypeOK
    <3> QED
      BY <1>2, <2>2, <3>1 DEF Items
  <2>3. ASSUME NEW w, Outside(k, j, w) \/ Enters(k, j, w)
        PROVE  y \in Items(worker[n][m]) \cup Manifest(m) \cup {NoItem}
    <3>1. worker' = [worker EXCEPT ![k][j] = w]
      BY <2>3 DEF Outside, Moves, PullDone, Enters, EntersCommit
    <3>2. /\ w.todo \subseteq u.todo \cup Manifest(j)
          /\ w.cur \in {u.cur, NoItem} \cup u.todo
      BY <2>3 DEF Outside, Onward, Enters
    <3> QED
      BY <2>2, <3>1, <3>2, Zenon
  <2>4. ASSUME NEW x \in u.todo, ApplyTombstone(k, j, x)
        PROVE  y \in Items(worker[n][m]) \cup Manifest(m) \cup {NoItem}
    <3>1. PICK w \in {Took(k, j, x), Applied(Took(k, j, x))} :
            worker' = [worker EXCEPT ![k][j] = w]
      BY <2>4, Zenon DEF ApplyTombstone
    <3>2. Took(k, j, x) \in Worker
      BY <1>1, TookType
    <3>3. Took(k, j, x).todo \subseteq u.todo /\ Took(k, j, x).cur = u.cur
      BY <2>1 DEF Took, Worker
    <3>4. w.todo \subseteq u.todo /\ w.cur \in {u.cur, NoItem}
      BY <3>2, <3>3, Zenon DEF Applied, NextEntry, Worker
    <3> QED
      BY <2>2, <3>1, <3>4, Zenon
  <2>5. CASE Commit(k, j)
    <3>1. /\ CommitLocal(k, j, u.cur.path)
          /\ \E f, e, g, h, l : CommitEffect(k, j, f, e, g, h, l, worker'[k][j])
      BY <1>1, <2>5, CommitShape
    <3>2. PICK f, e, g, h, l : CommitEffect(k, j, f, e, g, h, l, worker'[k][j])
      BY <3>1
    <3>4. /\ worker'[k][j].todo = u.todo
          /\ worker'[k][j].cur \in {u.cur, NoItem}
      BY <2>1, <3>2, Zenon DEF CommitEffect, NextEntry, Applied, Worker
    <3>3. (n = k /\ m = j) \/ worker'[n][m] = worker[n][m]
      BY <3>1 DEF CommitLocal
    <3> QED
      BY <1>2, <3>4, <3>3 DEF Items
  <2> QED
    BY <1>1, <1>7, <2>3, <2>4, <2>5, PullKinds
<1> QED
  BY <1>4, <1>5, <1>6, <1>7 DEF Next

(* With tombstones kept, a path once in the index stays there.             *)
LEMMA EntriesStay ==
  ASSUME IInv, [Next]_vars, TTL = 0, NEW n \in Node, NEW p \in Path,
         status[n] = "running", idx[n][p] # NoEntry
  PROVE  idx'[n][p] # NoEntry
<1>1. TypeOK
  BY DEF IInv
<1>2. CASE idx'[n] = idx[n]
  BY <1>2
<1>3. CASE User \/ Tick \/ UNCHANGED vars
  BY <1>2, <1>3, UserLeaves
<1>4. ASSUME NEW k \in Node, Reconcile(k)
      PROVE  idx'[n][p] # NoEntry
  <2>1. CASE ~ScanApply(k)
    BY <1>2, <1>4, <2>1 DEF Reconcile, ScanWalk, ScanFails, ReconcileSave
  <2>2. CASE ScanApply(k)
    <3>1. CASE k # n
      BY <1>1, <1>2, <2>2, <3>1 DEF ScanApply, TypeOK
    <3>2. CASE k = n
      <4>1. idx'[n] = GCTombstones(ScanResult(n), Clock(n), TTL)
        BY <1>1, <2>2, <3>2 DEF ScanApply, TypeOK
      <4>2. idx'[n][p] = ScanResult(n)[p]
        BY <4>1 DEF GCTombstones, Expired, ScanResult
      <4>3. ScanChange(n, p) => Scanned(n, p) \in Entry
        BY <1>1, <2>2, <3>2, ScannedType DEF ScanApply
      <4>4. ScanResult(n)[p] # NoEntry
        <5>1. CASE ScanChange(n, p)
          <6>1. ScanResult(n)[p] = SetIfWins(idx[n], p, Scanned(n, p))[p]
            BY <5>1 DEF ScanResult
          <6>2. SetIfWins(idx[n], p, Scanned(n, p))[p] \in {idx[n][p], Scanned(n, p)}
            BY <1>1 DEF SetIfWins, TypeOK
          <6> QED
            BY <4>3, <5>1, <6>1, <6>2, NoEntryAssumption
        <5>2. CASE ~ScanChange(n, p)
          BY <5>2 DEF ScanResult
        <5> QED
          BY <5>1, <5>2
      <4> QED
        BY <4>2, <4>4
    <3> QED
      BY <3>1, <3>2
  <2> QED
    BY <2>1, <2>2
<1>5. ASSUME NEW k \in Node, Life(k)
      PROVE  idx'[n][p] # NoEntry
  <2>1. idx'[n] = idx[n]
    BY <1>1, <1>5 DEF Life, Stop, ShutdownSave, Drained, Crash, Restart, TypeOK
  <2> QED
    BY <1>2, <2>1
<1>6. ASSUME NEW k \in Node, NEW S \in SUBSET Node, pullPeers(k, S)
      PROVE  idx'[n][p] # NoEntry
  BY <1>2, <1>6 DEF pullPeers
<1>7. ASSUME NEW k \in Node, NEW m \in Node, Pull(k, m)
      PROVE  idx'[n][p] # NoEntry
  <2>1. ASSUME NEW w, Outside(k, m, w) \/ Enters(k, m, w)
        PROVE  idx' = idx
    BY <2>1 DEF Outside, Moves, PullDone, Enters, EntersCommit
  <2>2. ASSUME NEW x \in worker[k][m].todo, ApplyTombstone(k, m, x)
        PROVE  idx'[n][p] # NoEntry
    <3>1. x \in Item /\ worker[k][m] \in Worker
      BY <1>1, WorkerType DEF Worker
    <3>2. idx'[n] \in {idx[n], SetIfWins(idx[n], x.path, x.entry)}
      BY <1>1, <2>2 DEF ApplyTombstone, TypeOK
    <3>3. SetIfWins(idx[n], x.path, x.entry)[p] \in {idx[n][p], x.entry}
      BY <1>1, <3>1 DEF SetIfWins, TypeOK, Item
    <3> QED
      BY <3>1, <3>2, <3>3, NoEntryAssumption DEF Item
  <2>3. CASE Commit(k, m)
    <3> DEFINE u == worker[k][m]
               q == u.cur.path
    <3>1. /\ CommitLocal(k, m, q)
          /\ CommitEffect(k, m, disk[k][q], idx[k][q], disk'[k][q], idx'[k][q],
                          lock'[k], worker'[k][m])
      BY <1>1, <2>3, CommitShape
    <3>2. CASE n # k \/ p # q
      BY <3>1, <3>2, Zenon DEF CommitLocal
    <3>3. CASE n = k /\ p = q
      <4> DEFINE x == u.cur.entry
                 e == idx[n][p]
                 f == disk[n][p]
      <4>2. /\ x \in Entry /\ e \in Entry /\ q \in Path /\ u.cur \in Item
            /\ f \in File \cup {NoFile}
        BY <1>1, <3>3, WorkerType DEF TypeOK, Item
      <4>3. diskMeta(n, u.cur).mode \in Nat /\ diskMeta(n, u.cur).mtime \in Nat
        BY <3>3, <4>2, FileModeType, Zenon DEF diskMeta, File, Entry
      <4>4. SetIfWins(idx[n], q, x)[q] \in {e, x}
        BY <1>1, <3>3, <4>2 DEF SetIfWins, TypeOK
      <4>5. [x EXCEPT !.mode = diskMeta(n, u.cur).mode,
                      !.mtime = diskMeta(n, u.cur).mtime] \in Entry
        BY <4>2, <4>3, Zenon DEF Entry
      <4>6. f # NoFile => [e EXCEPT !.updatedAt = x.updatedAt,
                                    !.mode = fileMode(x.mode),
                                    !.mtime = f.mtime] \in Entry
        BY <4>2, FileModeType, Zenon DEF Entry, File
      <4>1. idx'[n][p] \in Entry
        BY <3>1, <3>3, <4>2, <4>4, <4>5, <4>6, Zenon DEF CommitEffect
      <4> QED
        BY <4>1, NoEntryAssumption
    <3> QED
      BY <3>2, <3>3
  <2> QED
    BY <1>1, <1>7, <2>1, <2>2, <2>3, PullKinds
<1> QED
  BY <1>3, <1>4, <1>5, <1>6, <1>7 DEF Next

AllRunning == halts = 0 => \A n \in Node : status[n] = "running"

LEMMA StepRunning ==
  ASSUME IInv, AllRunning, [Next]_vars
  PROVE  /\ AllRunning'
         /\ halts' = 0 => halts = 0
<1>1. TypeOK
  BY DEF IInv
<1>2. CASE status' = status /\ halts' = halts
  BY <1>2 DEF AllRunning
<1>3. CASE User \/ Tick \/ UNCHANGED vars
  BY <1>2, <1>3, UserLeaves
<1>4. ASSUME NEW n \in Node, Reconcile(n)
      PROVE  AllRunning' /\ (halts' = 0 => halts = 0)
  <2>1. /\ halts' = halts
        /\ status' \in {status, [status EXCEPT ![n] = Started(n)],
                        [status EXCEPT ![n] = Abandoned(n)]}
    BY <1>4 DEF Reconcile, ScanWalk, ScanApply, ScanFails, ReconcileSave
  <2> QED
    BY <1>1, <2>1 DEF AllRunning, TypeOK, Started, Abandoned
<1>5. ASSUME NEW n \in Node, Life(n)
      PROVE  AllRunning' /\ (halts' = 0 => halts = 0)
  <2>1. halts' = halts \/ halts' = halts + 1
    BY <1>5 DEF Life, Stop, ShutdownSave, Drained, Crash, Restart
  <2>2. CASE halts' = halts + 1
    BY <1>1, <2>2 DEF AllRunning, TypeOK
  <2>3. CASE halts' = halts /\ halts # 0
    BY <2>3 DEF AllRunning
  <2>4. CASE halts' = halts /\ halts = 0
    BY <1>1, <1>5, <2>4
       DEF AllRunning, Life, Stop, ShutdownSave, Drained, Crash, Restart, TypeOK
  <2> QED
    BY <2>1, <2>2, <2>3, <2>4
<1>6. ASSUME NEW n \in Node, NEW S \in SUBSET Node, pullPeers(n, S)
      PROVE  AllRunning' /\ (halts' = 0 => halts = 0)
  BY <1>2, <1>6 DEF pullPeers
<1>7. ASSUME NEW n \in Node, NEW m \in Node, Pull(n, m)
      PROVE  AllRunning' /\ (halts' = 0 => halts = 0)
  <2>1. status' = status /\ halts' = halts
    BY <1>1, <1>7, PullKinds, CommitShape
       DEF Outside, Moves, PullDone, Enters, EntersCommit, ApplyTombstone, CommitLocal
  <2> QED
    BY <1>2, <2>1
<1> QED
  BY <1>3, <1>4, <1>5, <1>6, <1>7 DEF Next

(* An index holds a version at least as new as the item.                   *)
Held(y) == \E n \in Node : /\ idx[n][y.path] # NoEntry
                           /\ VersionBelow(y.entry, idx[n][y.path])

(* NewestSurvives, item by item.                                           *)
AllHeld ==
  (TTL = 0 /\ halts = 0) =>
     \A n, m \in Node : \A y \in Items(worker[n][m]) :
       (y.path \in Path /\ y.entry # NoneEntry) => Held(y)

LEMMA HeldSurvives ==
  ASSUME AllHeld
  PROVE  NewestSurvives
<1> SUFFICES ASSUME TTL = 0, halts = 0, NEW p \in Path, NEW e \in InFlight(p)
             PROVE  \E n \in Node : idx[n][p] # NoEntry /\ VersionBelow(e, idx[n][p])
  BY DEF NewestSurvives
<1>1. PICK n, m \in Node : \E y \in Items(worker[n][m]) :
        y.path = p /\ y.entry # NoneEntry /\ e = y.entry
  BY DEF InFlight, Items
<1> QED
  BY <1>1 DEF AllHeld, Held

LEMMA OfferedIsHeld ==
  ASSUME TypeOK, NEW m \in Node, NEW y \in Manifest(m)
  PROVE  y \in Item /\ Held(y)
<1>1. PICK p \in Path : idx[m][p] # NoEntry /\ y = [path |-> p, entry |-> idx[m][p]]
  BY DEF Manifest
<1>2. idx[m][p] \in Entry
  BY <1>1 DEF TypeOK
<1> QED
  BY <1>1, <1>2, VersionBelowReflexive DEF Item, Held

LEMMA StaysHeld ==
  ASSUME IInv, AllRunning, TTL = 0, halts = 0, [Next]_vars, NEW y \in Item, Held(y)
  PROVE  Held(y)'
<1>1. TypeOK /\ TypeOK'
  BY StepType DEF IInv
<1>2. PICK n \in Node : idx[n][y.path] # NoEntry /\ VersionBelow(y.entry, idx[n][y.path])
  BY DEF Held
<1>3. y.path \in Path /\ y.entry \in Entry /\ status[n] = "running"
  BY DEF Item, AllRunning
<1>4. idx'[n][y.path] # NoEntry
  BY <1>2, <1>3, EntriesStay
<1>5. VersionBelow(idx[n][y.path], idx'[n][y.path])
  BY <1>2, <1>3, <1>4, IndexRises DEF Rises
<1>6. idx[n][y.path] \in Entry /\ idx'[n][y.path] \in Entry
  BY <1>1, <1>2, <1>3, <1>4 DEF TypeOK
<1>7. VersionBelow(y.entry, idx'[n][y.path])
  BY <1>2, <1>3, <1>5, <1>6, VersionBelowTransitive
<1> QED
  BY <1>4, <1>7 DEF Held

LEMMA StepNewest ==
  ASSUME IInv, AllRunning, AllHeld, [Next]_vars
  PROVE  AllHeld'
<1>1. TypeOK /\ TypeOK'
  BY StepType DEF IInv
<1> SUFFICES ASSUME TTL = 0, halts' = 0, NEW n \in Node, NEW m \in Node,
                    NEW y \in Items(worker'[n][m]), y.path \in Path, y.entry # NoneEntry
             PROVE  Held(y)'
  BY DEF AllHeld
<1>2. halts = 0
  BY StepRunning
<1>3. y \in Item
  BY <1>1 DEF TypeOK, Worker, Items
<1>4. y \in Items(worker[n][m]) \cup Manifest(m) \cup {NoItem}
  <2>1. CASE Next
    BY <2>1, ItemsCome
  <2>2. CASE UNCHANGED vars
    BY <2>2 DEF vars
  <2> QED
    BY <2>1, <2>2
<1>5. Held(y)
  <2>1. CASE y \in Items(worker[n][m])
    BY <1>2, <2>1 DEF AllHeld
  <2>2. CASE y \in Manifest(m)
    BY <1>1, <2>2, OfferedIsHeld
  <2>3. y # NoItem
    BY DEF NoItem
  <2> QED
    BY <1>4, <2>1, <2>2, <2>3
<1> QED
  BY <1>2, <1>3, <1>5, StaysHeld

(* While nothing stops and tombstones are kept, a version a pull has been  *)
(* promised is never newer than every index: between decide, transfer and  *)
(* commit no interleaving of workers, scans and edits loses the newest     *)
(* write of a path (applyRemote, commitContent, SetIfWins, GCTombstones).  *)
THEOREM NewestVersionSurvives == Spec => []NewestSurvives
<1>1. Init => AllRunning
  BY DEF Init, AllRunning
<1>2. Init => AllHeld
  <2> SUFFICES ASSUME Init, NEW n \in Node, NEW m \in Node,
                      NEW y \in Items(worker[n][m])
               PROVE  y.entry = NoneEntry
    BY DEF AllHeld
  <2>1. worker[n][m] = Idle
    BY DEF Init
  <2> QED
    BY <2>1 DEF Items, Idle, NoItem
<1>3. IInv /\ AllRunning /\ [Next]_vars => AllRunning'
  BY StepRunning
<1>4. IInv /\ AllRunning /\ AllHeld /\ [Next]_vars => AllHeld'
  BY StepNewest
<1>5. AllHeld => NewestSurvives
  BY HeldSurvives
<1> QED
  BY <1>1, <1>2, <1>3, <1>4, <1>5, Invariance, PTL DEF Spec

-----------------------------------------------------------------------------
(* Rest: nothing to scan, nothing to pull.                                 *)

(* What two nodes that spurn each other's entries of a path have in common. *)
LEMMA SpurnedBothWays ==
  ASSUME NEW a \in Entry, NEW b \in Entry, NEW x \in BOOLEAN, NEW y \in BOOLEAN,
         decideApply(a, b, x) \in {"noop", "tombstone"},
         decideApply(b, a, y) \in {"noop", "tombstone"},
         ~a.deleted \/ ~b.deleted
  PROVE  /\ ~a.deleted /\ ~b.deleted
         /\ a.hash = b.hash
         /\ a.mode = b.mode
         /\ ~mtimesDiffer(a.mtime, b.mtime)
<1> USE NoEntryAssumption DEF Live
<1>1. ASSUME NEW c \in Entry, NEW d \in Entry, NEW z \in BOOLEAN,
             decideApply(c, d, z) \in {"noop", "tombstone"},
             ~c.deleted \/ ~d.deleted,
             c.deleted # d.deleted \/ c.hash # d.hash
      PROVE  ~Wins(c, d)
  <2>1. CASE d.deleted
    BY <1>1, <2>1 DEF decideApply, Entry
  <2>2. CASE ~d.deleted
    BY <1>1, <2>2 DEF decideApply, Entry
  <2> QED
    BY <2>1, <2>2
<1>2. a.deleted = b.deleted /\ a.hash = b.hash
  <2> SUFFICES ASSUME a.deleted # b.deleted \/ a.hash # b.hash
               PROVE  FALSE
    OBVIOUS
  <2>1. ~Wins(a, b) /\ ~Wins(b, a)
    BY <1>1
  <2> QED
    BY <2>1, WinsTotal DEF Identical
<1>3. ~a.deleted /\ ~b.deleted
  BY <1>2
<1>4. ASSUME NEW c \in Entry, NEW d \in Entry, NEW z \in BOOLEAN,
             decideApply(c, d, z) \in {"noop", "tombstone"},
             ~c.deleted, ~d.deleted, c.hash = d.hash,
             c.mode # d.mode \/ mtimesDiffer(d.mtime, c.mtime)
      PROVE  ~Wins(c, d)
  BY <1>4 DEF decideApply, Entry
<1>5. ASSUME a.mode # b.mode \/ mtimesDiffer(a.mtime, b.mtime)
      PROVE  FALSE
  <2>1. mtimesDiffer(a.mtime, b.mtime) <=> mtimesDiffer(b.mtime, a.mtime)
    BY DEF mtimesDiffer
  <2>2. ~Wins(a, b) /\ ~Wins(b, a)
    BY <1>2, <1>3, <1>4, <1>5, <2>1
  <2>3. ~Identical(a, b)
    BY <1>5 DEF Identical, mtimesDiffer
  <2> QED
    BY <2>2, <2>3, WinsTotal
<1> QED
  BY <1>2, <1>3, <1>5

(* A path a node has no entry for: a live entry of a peer is wanted.       *)
LEMMA UnknownIsWanted ==
  ASSUME NEW e \in Entry, ~e.deleted, NEW x \in BOOLEAN
  PROVE  decideApply(NoEntry, e, x) = "content"
BY DEF decideApply, Live

(* Nodes at rest that pull from each other have entries of the same file.  *)
LEMMA RestingEntries ==
  ASSUME TypeOK, AtRest, NEW n \in Node, NEW m \in Node, NEW p \in Path,
         m \in Peers[n], n \in Peers[m], Live(idx[n][p])
  PROVE  /\ Live(idx[m][p])
         /\ idx[n][p].hash = idx[m][p].hash
         /\ idx[n][p].mode = idx[m][p].mode
         /\ ~mtimesDiffer(idx[n][p].mtime, idx[m][p].mtime)
<1> DEFINE a == idx[n][p]
           b == idx[m][p]
           x == disk[n][p] # NoFile
           y == disk[m][p] # NoFile
<1>1. a \in Entry /\ ~a.deleted /\ b \in Entry \cup {NoEntry}
  BY DEF TypeOK, Live
<1>2. decideApply(b, a, y) \in {"noop", "tombstone"}
  BY <1>1, NoEntryAssumption DEF AtRest, Spurned
<1>3. b # NoEntry
  BY <1>1, <1>2, UnknownIsWanted
<1>4. decideApply(a, b, x) \in {"noop", "tombstone"}
  BY <1>3 DEF AtRest, Spurned
<1> HIDE DEF a, b, x, y
<1>5. x \in BOOLEAN /\ y \in BOOLEAN
  BY DEF x, y
<1>6. /\ ~b.deleted /\ a.hash = b.hash /\ a.mode = b.mode
      /\ ~mtimesDiffer(a.mtime, b.mtime)
  BY <1>1, <1>2, <1>3, <1>4, <1>5, SpurnedBothWays
<1> QED
  BY <1>3, <1>6 DEF a, b, Live

(* Worker w of node n for peer m is going through m's index as it is.      *)
Browsing(n, m, w) ==
  /\ w.ph \in {"idle", "manifest", "apply"}
  /\ w.ph # "idle" => m \in Peers[n]
  /\ w.todo \subseteq Manifest(m)

Looking ==
  \A n \in Node : /\ lock'[n] \notin Node
                  /\ lock'[n] = "scan" => walk'[n].files = disk[n]

AllBrowsing == \A n, m \in Node : Browsing(n, m, worker'[n][m])

(* What is at rest stays at rest while files, indexes, the clock and the   *)
(* daemons stay, and scans and pulls see them as they are.                 *)
LEMMA StaysAtRest ==
  ASSUME AtRest, UNCHANGED <<now, disk, idx, status>>, Looking, AllBrowsing
  PROVE  AtRest'
<1>1. \A n \in Node, p \in Path : Recorded(n, p)' <=> Recorded(n, p)
  BY DEF Recorded
<1>2. \A n \in Node, p \in Path : \A e : Spurned(n, p, e)' <=> Spurned(n, p, e)
  BY DEF Spurned
<1>3. \A n \in Node : Clock(n)' = Clock(n) /\ Manifest(n)' = Manifest(n)
  BY DEF Clock, Manifest
<1>4. ASSUME NEW n \in Node
      PROVE  /\ status'[n] = "running"
             /\ lock'[n] \notin Node
             /\ lock'[n] = "scan" => walk'[n].files = disk'[n]
  <2>1. status'[n] = "running"
    BY DEF AtRest
  <2> QED
    BY <2>1 DEF Looking
<1>5. ASSUME NEW n \in Node, NEW p \in Path
      PROVE  Recorded(n, p)' /\ ~Expired(idx[n][p], Clock(n), TTL)'
  BY <1>1, <1>3 DEF AtRest
<1>6. ASSUME NEW n \in Node, NEW m \in Node
      PROVE  Browsing(n, m, worker[n][m])'
  BY <1>3 DEF AllBrowsing, Browsing
<1>7. ASSUME NEW n \in Node, NEW m \in Peers[n], NEW p \in Path,
             idx'[m][p] # NoEntry
      PROVE  Spurned(n, p, idx[m][p])'
  BY <1>2, <1>7 DEF AtRest
<1> QED
  BY <1>4, <1>5, <1>6, <1>7 DEF AtRest, Browsing

(* A worker's step that leaves the rest alone.                             *)
LEMMA WorkerRests ==
  ASSUME TypeOK, AtRest, NEW n \in Node, NEW m \in Node, NEW w,
         worker' = [worker EXCEPT ![n][m] = w],
         UNCHANGED <<now, disk, idx, status, lock, walk>>,
         Browsing(n, m, w)
  PROVE  AtRest'
<1>1. \A k, l \in Node :
        worker'[k][l] = IF k = n /\ l = m THEN w ELSE worker[k][l]
  BY DEF TypeOK
<1>2. AllBrowsing
  BY <1>1 DEF AtRest, AllBrowsing, Browsing
<1>3. Looking
  BY DEF AtRest, Looking
<1> QED
  BY <1>2, <1>3, StaysAtRest

(* A scan of a tree at rest finds no change and no marker to collect.      *)
LEMMA ScanRests ==
  ASSUME TypeOK, AtRest, NEW n \in Node, lock[n] = "scan"
  PROVE  /\ \A p \in Path : ~MustHash(n, p)
         /\ ScanResult(n) = idx[n]
         /\ GCTombstones(idx[n], Clock(n), TTL) = idx[n]
<1>1. walk[n].files = disk[n]
  BY DEF AtRest
<1>2. ASSUME NEW p \in Path
      PROVE  ~MustHash(n, p) /\ ~ScanChange(n, p)
  <2>1. Recorded(n, p)
    BY DEF AtRest
  <2>2. CASE disk[n][p] = NoFile
    BY <1>1, <2>1, <2>2 DEF Recorded, MustHash, ScanChange
  <2>3. CASE disk[n][p] # NoFile
    <3>1. ~MustHash(n, p)
      BY <1>1, <2>1, <2>3 DEF Recorded, MustHash, FastPath
    <3> QED
      BY <1>1, <2>1, <2>3, <3>1 DEF Recorded, ScanChange, StatMatches
  <2> QED
    BY <2>2, <2>3
<1>3. idx[n] \in [Path -> Entry \cup {NoEntry}]
  BY DEF TypeOK
<1>4. ScanResult(n) = idx[n]
  BY <1>2, <1>3 DEF ScanResult
<1>5. GCTombstones(idx[n], Clock(n), TTL) = idx[n]
  BY <1>3 DEF GCTombstones, AtRest
<1> QED
  BY <1>2, <1>4, <1>5

Rest == AtRest' /\ UNCHANGED <<disk, idx>>

(* Reconciles.                                                             *)
LEMMA ReconcileRests ==
  ASSUME TypeOK, AtRest, NEW n \in Node, Reconcile(n)
  PROVE  Rest
<1> USE DEF Rest
<1>1. ASSUME UNCHANGED <<now, disk, idx, status, worker>>,
             NEW l, l \notin Node, lock' = [lock EXCEPT ![n] = l],
             NEW v, walk' = [walk EXCEPT ![n] = v],
             l = "scan" => v.files = disk[n]
      PROVE  Rest
  <2>1. lock = [k \in Node |-> lock[k]] /\ walk = [k \in Node |-> walk[k]]
    BY DEF TypeOK
  <2>2. Looking
    <3> SUFFICES ASSUME NEW k \in Node
                 PROVE  /\ lock'[k] \notin Node
                        /\ lock'[k] = "scan" => walk'[k].files = disk[k]
      BY DEF Looking
    <3>1. CASE k = n
      BY <1>1, <2>1, <3>1
    <3>2. CASE k # n
      <4>1. lock'[k] = lock[k] /\ walk'[k] = walk[k]
        BY <1>1, <2>1, <3>2
      <4> QED
        BY <4>1 DEF AtRest
    <3> QED
      BY <3>1, <3>2
  <2>3. AllBrowsing
    BY <1>1 DEF AtRest, AllBrowsing, Browsing
  <2> QED
    BY <1>1, <2>2, <2>3, StaysAtRest
<1>2. {"free", "scan", "save"} \cap Node = {} /\ status[n] = "running"
  BY SyncAssumption DEF AtRest
<1>3. CASE ScanWalk(n)
  <2> DEFINE v == [at |-> Clock(n), files |-> disk[n]]
  <2>1. "scan" \notin Node /\ v.files = disk[n]
    BY <1>2
  <2> HIDE DEF v
  <2>2. /\ UNCHANGED <<now, disk, idx, status, worker>>
        /\ lock' = [lock EXCEPT ![n] = "scan"]
        /\ walk' = [walk EXCEPT ![n] = v]
    BY <1>3 DEF ScanWalk, v
  <2> QED
    BY <1>1, <2>1, <2>2
<1>4. CASE ScanApply(n)
  <2>1. lock[n] = "scan"
    BY <1>4 DEF ScanApply
  <2>2. ScanResult(n) = idx[n] /\ GCTombstones(idx[n], Clock(n), TTL) = idx[n]
    BY <2>1, ScanRests
  <2>3. PICK l \in {"free", "save"} : lock' = [lock EXCEPT ![n] = l]
    BY <1>4 DEF ScanApply
  <2>4. walk' = [walk EXCEPT ![n] = NoWalk] /\ UNCHANGED <<now, disk, worker>>
    BY <1>4 DEF ScanApply
  <2>5. idx' = idx
    <3>1. idx' = [idx EXCEPT ![n] = idx[n]]
      BY <1>4, <2>2 DEF ScanApply
    <3> QED
      BY <3>1 DEF TypeOK
  <2>6. status' = status
    <3>1. Started(n) = status[n]
      BY <1>2 DEF Started
    <3> QED
      BY <1>4, <3>1 DEF ScanApply, TypeOK
  <2>7. l \notin Node /\ l # "scan"
    BY <1>2
  <2> QED
    BY <1>1, <2>3, <2>4, <2>5, <2>6, <2>7
<1>5. ~ScanFails(n)
  <2>1. ScanFails(n) => lock[n] = "scan"
    BY DEF ScanFails
  <2> QED
    BY <1>2, <2>1, ScanRests DEF ScanFails
<1>6. CASE ReconcileSave(n)
  <2>1. status' = status
    <3>1. Started(n) = status[n] /\ Abandoned(n) = status[n]
      BY <1>2 DEF Started, Abandoned
    <3> QED
      BY <1>6, <3>1 DEF ReconcileSave, TypeOK
  <2>2. /\ UNCHANGED <<now, disk, idx, worker, walk>>
        /\ lock' = [lock EXCEPT ![n] = "free"]
    BY <1>6 DEF ReconcileSave
  <2>3. walk' = [walk EXCEPT ![n] = walk[n]]
    BY <2>2 DEF TypeOK
  <2>4. "free" \notin Node /\ "free" # "scan"
    BY <1>2
  <2> QED
    BY <1>1, <2>1, <2>2, <2>3, <2>4
<1> QED
  BY <1>3, <1>4, <1>5, <1>6 DEF Reconcile

(* The workers of a pull.                                                  *)
LEMMA PullRests ==
  ASSUME TypeOK, AtRest, NEW n \in Node, NEW m \in Node, Pull(n, m)
  PROVE  Rest
<1> DEFINE u == worker[n][m]
<1>1. /\ u \in Worker /\ u.ph \in {"idle", "manifest", "apply"}
      /\ u.ph # "idle" => m \in Peers[n]
      /\ u.todo \subseteq Manifest(m)
      /\ status[n] = "running" /\ lock[n] # m
  BY WorkerType DEF AtRest
<1>2. ASSUME NEW w, Moves(n, m, w), Browsing(n, m, w)
      PROVE  Rest
  <2>1. /\ worker' = [worker EXCEPT ![n][m] = w]
        /\ UNCHANGED <<now, disk, idx, status, lock, walk>>
    BY <1>2 DEF Moves
  <2> QED
    BY <1>2, <2>1, WorkerRests DEF Rest
<1>3. CASE fetchManifest(n, m)
  <2> DEFINE w == [u EXCEPT !.ph = "apply", !.todo = Manifest(m)]
  <2>1. w.ph = "apply" /\ w.todo = Manifest(m)
    BY <1>1 DEF Worker
  <2>2. Moves(n, m, w) /\ u.ph = "manifest"
    BY <1>3 DEF fetchManifest
  <2>3. Browsing(n, m, w)
    BY <1>1, <2>1, <2>2 DEF Browsing
  <2> QED
    BY <1>2, <2>2, <2>3
<1>4. CASE TransportError(n, m)
  <2> DEFINE w == [NextEntry(u) EXCEPT !.todo = {}]
  <2>1. w.ph = "apply" /\ w.todo = {}
    BY <1>1 DEF Worker, NextEntry
  <2>2. Moves(n, m, w) /\ u.ph # "idle"
    BY <1>4 DEF TransportError
  <2>3. Browsing(n, m, w)
    BY <1>1, <2>1, <2>2 DEF Browsing
  <2> QED
    BY <1>2, <2>2, <2>3
<1>5. ~ContextDone(n, m) /\ ~Request(n, m) /\ ~serveFile(n, m)
      /\ ~CommitCheck(n, m) /\ ~Commit(n, m)
  BY <1>1 DEF ContextDone, Request, serveFile, CommitCheck, Commit,
              CommitRename, CommitChtimes, CommitSet, CommitRemove, MetaTimes,
              MetaSet, InCommit
<1>6. CASE Apply(n, m)
  <2>1. PICK x \in u.todo :
          \/ ApplyNoop(n, m, x)
          \/ ApplyTombstone(n, m, x)
          \/ ApplyDelete(n, m, x)
          \/ ApplyMeta(n, m, x)
          \/ ApplyContent(n, m, x)
    BY <1>6 DEF Apply
  <2>2. u.ph = "apply"
    BY <2>1 DEF ApplyNoop, ApplyTombstone, ApplyDelete, ApplyMeta,
                ApplyContent, Applying
  <2>3. Spurned(n, x.path, x.entry)
    <3>1. PICK p \in Path : idx[m][p] # NoEntry
                            /\ x = [path |-> p, entry |-> idx[m][p]]
      BY <1>1, <2>1 DEF Manifest
    <3> QED
      BY <1>1, <2>2, <3>1 DEF AtRest
  <2>4. Browsing(n, m, Took(n, m, x))
    BY <1>1, <2>2 DEF Took, Worker, Browsing
  <2>5. CASE ApplyNoop(n, m, x)
    <3>1. Moves(n, m, Took(n, m, x))
      BY <2>5 DEF ApplyNoop
    <3> QED
      BY <1>2, <2>4, <3>1
  <2>6. CASE ApplyTombstone(n, m, x)
    <3>1. SetIfWins(idx[n], x.path, x.entry) = idx[n]
      BY <2>3, <2>6 DEF ApplyTombstone, Applying, Spurned
    <3>2. /\ worker' = [worker EXCEPT ![n][m] = Took(n, m, x)]
          /\ UNCHANGED <<now, disk, status, lock, walk>>
      BY <2>6, <3>1 DEF ApplyTombstone
    <3>3. idx' = idx
      <4>1. idx' = [idx EXCEPT ![n] = idx[n]]
        BY <2>6, <3>1 DEF ApplyTombstone
      <4> QED
        BY <4>1 DEF TypeOK
    <3> QED
      BY <2>4, <3>2, <3>3, WorkerRests DEF Rest
  <2>7. ~ApplyDelete(n, m, x) /\ ~ApplyMeta(n, m, x) /\ ~ApplyContent(n, m, x)
    BY <2>3 DEF ApplyDelete, ApplyMeta, ApplyContent, Applying, Spurned
  <2> QED
    BY <2>1, <2>5, <2>6, <2>7
<1>7. CASE PullDone(n, m)
  <2>1. /\ worker' = [worker EXCEPT ![n][m] = Idle]
        /\ UNCHANGED <<now, disk, idx, status, lock, walk>>
    BY <1>7 DEF PullDone
  <2>2. Browsing(n, m, Idle)
    BY DEF Idle, Browsing
  <2> QED
    BY <2>1, <2>2, WorkerRests DEF Rest
<1> QED
  BY <1>3, <1>4, <1>5, <1>6, <1>7 DEF Pull

(* A new batch.                                                            *)
LEMMA BatchRests ==
  ASSUME TypeOK, AtRest, NEW n \in Node, NEW S, pullPeers(n, S)
  PROVE  Rest
<1> DEFINE f == [Idle EXCEPT !.ph = "manifest"]
<1>1. /\ f.ph = "manifest" /\ f.todo = {}
      /\ Idle.ph = "idle" /\ Idle.todo = {}
  BY DEF Idle
<1> HIDE DEF f
<1>2. /\ UNCHANGED <<now, disk, idx, status, lock, walk>>
      /\ S \subseteq Peers[n]
      /\ worker' = [worker EXCEPT ![n] =
                      [m \in Node |-> IF m \in S THEN f ELSE Idle]]
  BY DEF pullPeers, f
<1>3. \A k, m \in Node :
        worker'[k][m] = IF k = n THEN IF m \in S THEN f ELSE Idle
                                 ELSE worker[k][m]
  BY <1>2 DEF TypeOK
<1>4. AllBrowsing
  BY <1>1, <1>2, <1>3 DEF AtRest, AllBrowsing, Browsing
<1>5. Looking
  BY <1>2 DEF AtRest, Looking
<1> QED
  BY <1>2, <1>4, <1>5, StaysAtRest DEF Rest

(* RestLasts for every instance: reconcile and pullFromSession, run on     *)
(* files and indexes that have nothing for them, leave both as they are,   *)
(* so no scan and no pull starts another round by itself.                  *)
THEOREM RestIsLasting == Spec => RestLasts
<1>1. TypeOK /\ [Next]_vars =>
        [(AtRest /\ now' = now /\ halts' = halts)
           => (AtRest' /\ UNCHANGED <<disk, idx>>)]_vars
  <2> SUFFICES ASSUME TypeOK, Next, AtRest, now' = now, halts' = halts
               PROVE  Rest
    BY DEF Rest
  <2>1. ~User /\ ~Tick
    <3>1. (User => now' = now + 1) /\ (Tick => now' = now + 1)
      BY DEF User, UserWrite, UserChmod, UserRemove, Edit, Tick
    <3>2. now + 1 # now
      BY DEF TypeOK
    <3> QED
      BY <3>1, <3>2
  <2>2. ASSUME NEW n \in Node PROVE ~Life(n)
    BY DEF Life, Stop, Crash, ShutdownSave, Drained, Restart, AtRest, TypeOK
  <2>3. ASSUME NEW n \in Node, Reconcile(n) PROVE Rest
    BY <2>3, ReconcileRests
  <2>4. ASSUME NEW n \in Node, NEW m \in Node, Pull(n, m) PROVE Rest
    BY <2>4, PullRests
  <2>5. ASSUME NEW n \in Node, NEW S \in SUBSET Node, pullPeers(n, S) PROVE Rest
    BY <2>5, BatchRests
  <2> QED
    BY <2>1, <2>2, <2>3, <2>4, <2>5 DEF Next
<1> QED
  BY <1>1, TypeCorrect, PTL DEF Spec, RestLasts

(* Files that look like their entries have their contents, so nodes at     *)
(* rest that pull from each other have the same files.                     *)
LEMMA RestAgrees ==
  ASSUME TypeOK, FastPathSound
  PROVE  RestIsAgreement
<1> SUFFICES ASSUME AtRest, NEW n \in Node, NEW m \in Node, NEW p \in Path,
                    m \in Peers[n], n \in Peers[m]
             PROVE  Agreed(n, m, p)
  BY DEF RestIsAgreement
<1>1. ASSUME NEW k \in Node
      PROVE  /\ Live(idx[k][p]) <=> disk[k][p] # NoFile
             /\ Live(idx[k][p]) => /\ disk[k][p].hash = idx[k][p].hash
                                   /\ disk[k][p].mode = idx[k][p].mode
                                   /\ disk[k][p].mtime = idx[k][p].mtime
  <2>1. Recorded(k, p) /\ lock[k] \notin Node
    BY DEF AtRest
  <2>2. Live(idx[k][p]) <=> disk[k][p] # NoFile
    BY <2>1 DEF Recorded
  <2>3. ASSUME Live(idx[k][p])
        PROVE  StatMatches(disk[k][p], idx[k][p])
               /\ disk[k][p].mode = idx[k][p].mode
    BY <2>1, <2>2, <2>3 DEF Recorded
  <2>4. ASSUME Live(idx[k][p])
        PROVE  disk[k][p].hash = idx[k][p].hash
    BY <2>1, <2>2, <2>3, <2>4 DEF FastPathSound
  <2> QED
    BY <2>2, <2>3, <2>4 DEF StatMatches
<1>2. CASE Live(idx[n][p])
  <2>1. /\ Live(idx[m][p])
        /\ idx[n][p].hash = idx[m][p].hash
        /\ idx[n][p].mode = idx[m][p].mode
        /\ ~mtimesDiffer(idx[n][p].mtime, idx[m][p].mtime)
    BY <1>2, RestingEntries
  <2> QED
    BY <1>1, <1>2, <2>1 DEF Agreed, SameFile
<1>3. CASE ~Live(idx[n][p])
  <2>1. ~Live(idx[m][p])
    BY <1>3, RestingEntries
  <2> QED
    BY <1>1, <1>3, <2>1 DEF Agreed, SameFile
<1> QED
  BY <1>2, <1>3

(* RestIsAgreement for every instance: decideApply turns down every entry  *)
(* of a peer, in both directions, only when the two nodes have the same    *)
(* file.  The order of LWW is total, so one of two entries that differ is  *)
(* wanted by the other node.                                               *)
THEOREM RestMeansAgreement ==
  (~EditInWindow /\ Spec /\ [][Orderly]_vars) => []RestIsAgreement
<1>1. TypeOK /\ FastPathSound => RestIsAgreement
  BY RestAgrees
<1> QED
  BY <1>1, FastPathIsSound, TypeCorrect, PTL
=============================================================================
