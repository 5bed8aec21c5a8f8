----------------------------- MODULE SyncFiles ------------------------------
(***************************************************************************)
(* What the index says of the files, for every value of the constants of   *)
(* Sync: a file that looks like its entry is the entry's, and no peer      *)
(* apply destroys a file the index does not know.                          *)
(***************************************************************************)
EXTENDS SyncProofs

(* Leaves that name no prover are left to Zenon, then to SMT.              *)
USE ZenonT(8), SMTT(15)

-----------------------------------------------------------------------------
(* Files and entries *)

(* A daemon loses nothing when it goes down: it does not die inside a      *)
(* commit, and comes up again with the index it had.  A graceful stop is   *)
(* of this kind unless its save fails (StopIsDurable).  Without it the     *)
(* scan of the next start decides by size and mtime alone what a file is   *)
(* that was written but not recorded.                                      *)
Orderly ==
  \A n \in Node : /\ Crash(n) => lock[n] \notin Node
                  /\ Restart(n) => saved[n] = idx[n]

(* A file that looks like its entry has its content.                       *)
Sound(f, e) ==
  (f # NoFile /\ Live(e) /\ StatMatches(f, e)) => f.hash = e.hash

(* What goes away with file f is in the index.                             *)
Same(f, e) == f # NoFile => Live(e) /\ f.hash = e.hash

Written == {"chtimes", "set"}
Unwritten == {"rename", "remove", "metaTimes", "metaSet"}

(* The files d and the index i of one daemon, with the file infos its scan *)
(* has seen, the holder l of its syncMu and that holder's worker w.  All   *)
(* files are sound but the one a commit has replaced and not recorded yet; *)
(* that one has the content of the entry to come, and one that a commit is *)
(* about to replace has that of its own.  A file that still has the mtime  *)
(* the scan saw has the content it had then.                               *)
Faith(d, i, seen, l, w) ==
  /\ \A p \in Path :
       \/ Sound(d[p], i[p])
       \/ l \in Node /\ w.ph \in Written /\ w.cur.path = p
  /\ l \in Node =>
       /\ w.ph \in Written => /\ d[w.cur.path] # NoFile
                              /\ d[w.cur.path].hash = w.cur.entry.hash
       /\ w.ph \in Unwritten => Same(d[w.cur.path], i[w.cur.path])
  /\ l = "scan" =>
       \A p \in Path :
         (d[p] # NoFile /\ seen[p] # NoFile /\ d[p].mtime = seen[p].mtime)
           => d[p].hash = seen[p].hash

FaithOf(n) ==
  Faith(disk[n], idx[n], walk[n].files, lock[n], worker[n][lock[n]])

(* Users do not edit a file between the check of a commit and its end, and *)
(* index and files of every daemon fit together.                           *)
Faithful == ~EditInWindow /\ \A n \in Node : FaithOf(n)

(* Nothing is on disk initially.                                           *)
LEMMA InitFaithful ==
  ASSUME Init, ~EditInWindow
  PROVE  Faithful
<1>1. \A n \in Node : /\ lock[n] = "free"
                      /\ \A p \in Path : disk[n][p] = NoFile
  BY DEF Init
<1>2. "free" \notin Node
  BY SyncAssumption
<1> QED
  BY <1>1, <1>2 DEF Faithful, FaithOf, Faith, Sound

(* A daemon whose state a step leaves alone.                               *)
LEMMA UntouchedFaith ==
  ASSUME NEW n \in Node, FaithOf(n),
         disk'[n] = disk[n], idx'[n] = idx[n], walk'[n] = walk[n],
         lock'[n] = lock[n], worker'[n] = worker[n]
  PROVE  FaithOf(n)'
BY DEF FaithOf

(* The types of one daemon's state.                                        *)
LEMMA NodeTypes ==
  ASSUME TypeOK, NEW n \in Node
  PROVE  /\ disk[n] \in [Path -> File \cup {NoFile}]
         /\ idx[n] \in [Path -> Entry \cup {NoEntry}]
         /\ walk[n].files \in [Path -> File \cup {NoFile}]
         /\ worker[n] \in [Node -> Worker]
BY DEF TypeOK

(* syncMu is free, or held by a scan or by a worker, not by two of them.   *)
LEMMA LockKinds ==
  ASSUME TypeOK, NEW n \in Node
  PROVE  /\ lock[n] \in {"free", "scan", "save"} \/ lock[n] \in Node
         /\ lock[n] \in {"free", "scan", "save"} => lock[n] \notin Node
BY SyncAssumption DEF TypeOK

(* A file a user has written has a mtime no record of it has.              *)
LEMMA EditFaith ==
  ASSUME NEW d \in [Path -> File \cup {NoFile}], NEW i, NEW seen, NEW l, NEW w,
         Faith(d, i, seen, l, w), l \notin Node,
         NEW p \in Path, NEW f \in File \cup {NoFile},
         f # NoFile =>
           \/ /\ i[p] # NoEntry => i[p].mtime # f.mtime
              /\ seen[p] # NoFile => seen[p].mtime # f.mtime
           \/ d[p] # NoFile /\ f.hash = d[p].hash /\ f.mtime = d[p].mtime
  PROVE  Faith([d EXCEPT ![p] = f], i, seen, l, w)
<1> DEFINE dd == [d EXCEPT ![p] = f]
<1>1. \A q \in Path : dd[q] = IF q = p THEN f ELSE d[q]
  OBVIOUS
<1> HIDE DEF dd
<1>2. \A q \in Path : Sound(dd[q], i[q])
  BY <1>1 DEF Faith, Sound, Live, StatMatches
<1>3. l = "scan" =>
        \A q \in Path :
          (dd[q] # NoFile /\ seen[q] # NoFile /\ dd[q].mtime = seen[q].mtime)
            => dd[q].hash = seen[q].hash
  BY <1>1 DEF Faith
<1> QED
  BY <1>2, <1>3 DEF Faith, dd

(* What setting one file does to the disks.                                *)
LEMMA DiskEffect ==
  ASSUME TypeOK, NEW n \in Node, NEW p \in Path, NEW f,
         disk' = [disk EXCEPT ![n][p] = f]
  PROVE  /\ disk'[n] = [disk[n] EXCEPT ![p] = f]
         /\ \A k \in Node \ {n} : disk'[k] = disk[k]
BY DEF TypeOK

(* Users change only files, outside commits, and give them fresh mtimes.   *)
LEMMA UserFaithful ==
  ASSUME TypeOK, Faithful, User
  PROVE  Faithful'
<1>1. PICK n \in Node, p \in Path :
        \/ \E c \in Content : UserWrite(n, p, c)
        \/ \E mode \in Mode : UserChmod(n, p, mode)
        \/ UserRemove(n, p)
  BY DEF User
<1>2. ~EditInWindow
  BY DEF Faithful
<1>3. ASSUME NEW f \in File \cup {NoFile}, Edit(n, p, f),
             f # NoFile =>
               \/ /\ idx[n][p] # NoEntry => idx[n][p].mtime # f.mtime
                  /\ walk[n].files[p] # NoFile => walk[n].files[p].mtime # f.mtime
               \/ /\ disk[n][p] # NoFile
                  /\ f.hash = disk[n][p].hash /\ f.mtime = disk[n][p].mtime
      PROVE  Faithful'
  <2>1. /\ disk' = [disk EXCEPT ![n][p] = f]
        /\ UNCHANGED <<idx, walk, lock, worker>>
        /\ lock[n] \notin Node
    BY <1>2, <1>3 DEF Edit, InWindow, daemonVars
  <2>2. /\ disk'[n] = [disk[n] EXCEPT ![p] = f]
        /\ \A k \in Node \ {n} : disk'[k] = disk[k]
    BY <2>1, DiskEffect, Zenon
  <2>3. FaithOf(n)'
    <3>1. Faith(disk[n], idx[n], walk[n].files, lock[n], worker[n][lock[n]])
      BY DEF Faithful, FaithOf
    <3>2. Faith([disk[n] EXCEPT ![p] = f], idx[n], walk[n].files, lock[n],
                worker[n][lock[n]])
      BY <1>3, <2>1, <3>1, NodeTypes, EditFaith, Zenon
    <3> QED
      BY <2>1, <2>2, <3>2 DEF FaithOf
  <2>4. ASSUME NEW k \in Node \ {n}
        PROVE  FaithOf(k)'
    BY <2>1, <2>2, UntouchedFaith DEF Faithful
  <2> QED
    BY <1>2, <2>3, <2>4 DEF Faithful
<1>4. disk[n][p] \in File \cup {NoFile}
  BY DEF TypeOK
<1>5. CASE \E c \in Content : UserWrite(n, p, c)
  <2>1. PICK c \in Content : UserWrite(n, p, c)
    BY <1>5
  <2> DEFINE t == OnDisk(n, Clock(n) + 2)
             mode == IF disk[n][p] = NoFile THEN DefaultMode
                                            ELSE disk[n][p].mode
             f == [hash |-> c, mtime |-> t, mode |-> mode]
  <2>2. t \in Nat
    BY ClockType
  <2>3. mode \in Nat
    BY <1>4, SyncAssumption DEF File
  <2>4. f \in File /\ f.mtime = t
    BY <2>2, <2>3 DEF File
  <2>5. FreshTime(n, p, t) /\ Edit(n, p, f)
    BY <2>1 DEF UserWrite
  <2> HIDE DEF f, t
  <2> QED
    BY <1>3, <2>4, <2>5 DEF FreshTime
<1>6. CASE \E mode \in Mode : UserChmod(n, p, mode)
  <2>1. PICK mode \in Mode : UserChmod(n, p, mode)
    BY <1>6
  <2> DEFINE f == [disk[n][p] EXCEPT !.mode = mode]
  <2>2. disk[n][p] # NoFile /\ Edit(n, p, f)
    BY <2>1 DEF UserChmod
  <2>3. f \in File /\ f.hash = disk[n][p].hash /\ f.mtime = disk[n][p].mtime
    BY <1>4, <2>2, SyncAssumption DEF File
  <2> HIDE DEF f
  <2> QED
    BY <1>3, <2>2, <2>3
<1>7. CASE UserRemove(n, p)
  BY <1>3, <1>7 DEF UserRemove
<1> QED
  BY <1>1, <1>5, <1>6, <1>7

(* A scan records, for every file that still has the mtime it saw, the     *)
(* content the file has.                                                   *)
LEMMA ScanSound ==
  ASSUME TypeOK, NEW n \in Node, FaithOf(n), ScanApply(n), NEW p \in Path
  PROVE  Sound(disk[n][p], ScanResult(n)[p])
<1> DEFINE f == walk[n].files[p]
           d == disk[n][p]
           prev == idx[n][p]
           e == Scanned(n, p)
<1>1. /\ d \in File \cup {NoFile} /\ f \in File \cup {NoFile}
      /\ prev \in Entry \cup {NoEntry}
  BY DEF TypeOK
<1>2. lock[n] = "scan" /\ "scan" \notin Node
  BY SyncAssumption DEF ScanApply
<1>3. /\ Sound(d, prev)
      /\ (d # NoFile /\ f # NoFile /\ d.mtime = f.mtime) => d.hash = f.hash
  BY <1>2 DEF FaithOf, Faith
<1>4. ScanResult(n)[p] \in {prev, e}
  <2>1. CASE ScanChange(n, p)
    <3>1. SetIfWins(idx[n], p, e)[p] \in {prev, e}
      BY DEF SetIfWins, TypeOK
    <3> QED
      BY <2>1, <3>1 DEF ScanResult
  <2>2. CASE ~ScanChange(n, p)
    BY <2>2 DEF ScanResult
  <2> QED
    BY <2>1, <2>2
<1>5. CASE ScanResult(n)[p] = prev
  BY <1>3, <1>5
<1>6. CASE ScanResult(n)[p] = e /\ ScanChange(n, p)
  <2>1. CASE f = NoFile
    <3>1. prev \in Entry
      BY <1>1, <1>6, <2>1 DEF ScanChange, Live
    <3>2. e.deleted
      BY <2>1, <3>1 DEF Scanned, Entry
    <3> QED
      BY <1>6, <3>2 DEF Sound, Live
  <2>2. CASE f # NoFile /\ FastPath(n, p)
    <3>1. e.mtime = f.mtime /\ e.hash = prev.hash
      BY <2>2 DEF Scanned
    <3>2. /\ Live(prev) /\ f.mtime = prev.mtime
          /\ SizeOf[f.hash] = SizeOf[prev.hash]
      BY <2>2 DEF FastPath, StatMatches
    <3> QED
      BY <1>3, <1>6, <2>2, <3>1, <3>2 DEF Sound, StatMatches
  <2>3. CASE f # NoFile /\ ~FastPath(n, p)
    <3>1. e.hash = d.hash
      BY <2>3 DEF Scanned
    <3> QED
      BY <1>6, <3>1 DEF Sound
  <2> QED
    BY <2>1, <2>2, <2>3
<1>7. ~ScanChange(n, p) => ScanResult(n)[p] = prev
  BY DEF ScanResult
<1> QED
  BY <1>4, <1>5, <1>6, <1>7

(* When no worker holds syncMu, and no scan.                               *)
LEMMA CalmFaith ==
  ASSUME NEW d, NEW i, NEW seen, NEW l, NEW w, l \in {"free", "save"},
         \A p \in Path : Sound(d[p], i[p])
  PROVE  Faith(d, i, seen, l, w)
BY SyncAssumption DEF Faith

(* What a step under a free syncMu, or a scan's, may rely on.              *)
LEMMA CalmSound ==
  ASSUME NEW n \in Node, FaithOf(n), lock[n] \notin Node
  PROVE  \A p \in Path : Sound(disk[n][p], idx[n][p])
BY DEF FaithOf, Faith

(* Every step of reconcile.                                                *)
LEMMA ReconcileFaithful ==
  ASSUME TypeOK, TypeOK', Faithful, NEW n \in Node, Reconcile(n)
  PROVE  Faithful'
<1>1. /\ disk' = disk /\ worker' = worker
      /\ \A k \in Node \ {n} : /\ idx'[k] = idx[k] /\ walk'[k] = walk[k]
                               /\ lock'[k] = lock[k]
  BY DEF Reconcile, ScanWalk, ScanApply, ScanFails, ReconcileSave, TypeOK
<1>2. FaithOf(n) /\ lock[n] \in {"free", "scan", "save"} /\ lock[n] \notin Node
  BY LockKinds
  DEF Faithful, Reconcile, ScanWalk, ScanApply, ScanFails, ReconcileSave
<1>3. \A p \in Path : Sound(disk[n][p], idx[n][p])
  BY <1>2, CalmSound
<1>7. ASSUME NEW k \in Node \ {n}
      PROVE  FaithOf(k)'
  BY <1>1, UntouchedFaith DEF Faithful
<1> SUFFICES FaithOf(n)'
  BY <1>7 DEF Faithful
<1>4. CASE ScanWalk(n)
  <2>1. /\ lock'[n] = "scan" /\ idx'[n] = idx[n]
        /\ walk'[n].files = disk[n]
    BY <1>4 DEF ScanWalk, TypeOK
  <2> QED
    BY <1>1, <1>3, <2>1, SyncAssumption DEF FaithOf, Faith
<1>5. CASE ScanApply(n)
  <2>1. /\ lock'[n] \in {"free", "save"}
        /\ idx'[n] = GCTombstones(ScanResult(n), Clock(n), TTL)
    BY <1>5 DEF ScanApply, TypeOK
  <2>2. ASSUME NEW p \in Path
        PROVE  Sound(disk[n][p], idx'[n][p])
    <3>1. idx'[n][p] \in {ScanResult(n)[p], NoEntry}
      BY <2>1 DEF GCTombstones, ScanResult
    <3>2. Sound(disk[n][p], ScanResult(n)[p])
      BY <1>2, <1>5, ScanSound
    <3> QED
      BY <3>1, <3>2 DEF Sound, Live
  <2> QED
    BY <1>1, <2>1, <2>2, CalmFaith DEF FaithOf
<1>6. CASE ScanFails(n) \/ ReconcileSave(n)
  <2>1. lock'[n] = "free" /\ idx' = idx
    BY <1>6 DEF ScanFails, ReconcileSave, TypeOK
  <2> QED
    BY <1>1, <1>3, <2>1, CalmFaith DEF FaithOf
<1> QED
  BY <1>4, <1>5, <1>6 DEF Reconcile

(* Stops, orderly crashes and restarts.                                    *)
LEMMA LifeFaithful ==
  ASSUME IInv, TypeOK', Faithful, Orderly, NEW n \in Node, Life(n)
  PROVE  Faithful'
<1>1. TypeOK
  BY DEF IInv
<1>2. /\ disk' = disk
      /\ \A k \in Node \ {n} : /\ idx'[k] = idx[k] /\ walk'[k] = walk[k]
                               /\ lock'[k] = lock[k] /\ worker'[k] = worker[k]
  BY <1>1 DEF Life, Stop, ShutdownSave, Drained, Crash, Restart, TypeOK
<1>6. ASSUME NEW k \in Node \ {n}
      PROVE  FaithOf(k)'
  BY <1>2, UntouchedFaith DEF Faithful
<1> SUFFICES FaithOf(n)'
  BY <1>6 DEF Faithful
<1>3. CASE Stop(n) \/ ShutdownSave(n) \/ Drained(n)
  <2>1. UNCHANGED <<idx, walk, lock, worker>>
    BY <1>3 DEF Stop, ShutdownSave, Drained
  <2> QED
    BY <1>2, <2>1, UntouchedFaith DEF Faithful
<1>4. CASE Crash(n)
  <2>1. lock[n] \notin Node
    BY <1>4 DEF Orderly
  <2>2. idx' = idx /\ lock'[n] = "free"
    BY <1>1, <1>4 DEF Crash, TypeOK
  <2> QED
    BY <1>2, <2>1, <2>2, CalmSound, CalmFaith DEF Faithful, FaithOf
<1>5. CASE Restart(n)
  <2>1. lock[n] = "free" /\ saved[n] = idx[n]
    BY <1>5, Zenon DEF Orderly, Restart, IInv, Quiet
  <2>2. idx'[n] = idx[n] /\ UNCHANGED <<walk, lock, worker>>
    BY <1>1, <1>5, <2>1 DEF Restart, TypeOK
  <2> QED
    BY <1>2, <2>2, UntouchedFaith DEF Faithful
<1> QED
  BY <1>3, <1>4, <1>5 DEF Life

(* What a step of one worker does to the workers.                          *)
LEMMA WorkerEffect ==
  ASSUME TypeOK, NEW n \in Node, NEW m \in Node, NEW w,
         worker' = [worker EXCEPT ![n][m] = w]
  PROVE  /\ worker'[n][m] = w
         /\ \A j \in Node \ {m} : worker'[n][j] = worker[n][j]
         /\ \A k \in Node \ {n} : worker'[k] = worker[k]
BY DEF TypeOK

(* The steps of a worker outside its commits, from u to w; offered are the *)
(* entries of a manifest that may have come in.                            *)
Onward(u, w, offered) ==
  /\ u.ph \notin Written \cup Unwritten
  /\ w.ph \notin Written \cup Unwritten
  /\ w.todo \subseteq u.todo \cup offered
  /\ w.cur \in {u.cur, NoItem} \cup u.todo
  /\ w.ph \in {"fetch", "read", "got"} =>
       \/ ~w.cur.entry.deleted
       \/ w.cur = u.cur /\ u.ph \in {"fetch", "read", "got"}

Outside(n, m, w) ==
  /\ \/ Moves(n, m, w)
     \/ PullDone(n, m) /\ w = Idle
  /\ Onward(worker[n][m], w, Manifest(m))

(* The check that starts a commit.                                         *)
Enters(n, m, w) ==
  LET u == worker[n][m] IN
  /\ EntersCommit(n, m, w)
  /\ lock[n] = "free"
  /\ ~diskUnsynced(n, w.cur.path)
  /\ w.todo \subseteq u.todo
  /\ \/ w.ph = "rename" /\ u.ph = "got" /\ w.cur = u.cur
     \/ w.ph = "remove" /\ w.cur \in u.todo /\ w.cur.entry.deleted
     \/ w.ph = "metaTimes" /\ w.cur \in u.todo /\ disk[n][w.cur.path] # NoFile

(* What decideApply says of the remote entry and of the file.              *)
LEMMA DecideKinds ==
  ASSUME NEW local \in Entry \cup {NoEntry}, NEW remote \in Entry,
         NEW present \in BOOLEAN, NEW kind,
         kind = decideApply(local, remote, present)
  PROVE  /\ kind \in {"tombstone", "delete"} => remote.deleted
         /\ kind = "tombstone" => ~Live(local)
         /\ kind = "content" => ~remote.deleted
         /\ kind = "meta" => present
<1>1. CASE remote.deleted /\ ~Live(local)
  BY <1>1 DEF decideApply
<1>2. CASE remote.deleted /\ Live(local)
  BY <1>2 DEF decideApply
<1>3. CASE ~remote.deleted /\ Live(local) /\ local.hash = remote.hash
  BY <1>3 DEF decideApply
<1>4. CASE ~remote.deleted /\ ~(Live(local) /\ local.hash = remote.hash)
  BY <1>4 DEF decideApply
<1> QED
  BY <1>1, <1>2, <1>3, <1>4 DEF Entry

(* What applyRemote decides: nothing yet, a commit, or a deletion marker.  *)
LEMMA ApplyShape ==
  ASSUME TypeOK, NEW n \in Node, NEW m \in Node, Apply(n, m)
  PROVE  \/ \E w \in Worker : Outside(n, m, w) \/ Enters(n, m, w)
         \/ \E x \in worker[n][m].todo :
              ApplyTombstone(n, m, x) /\ x.entry.deleted
<1> DEFINE u == worker[n][m]
<1>1. PICK x \in u.todo :
        \/ ApplyNoop(n, m, x)
        \/ ApplyTombstone(n, m, x)
        \/ ApplyDelete(n, m, x)
        \/ ApplyMeta(n, m, x)
        \/ ApplyContent(n, m, x)
  BY DEF Apply
<1>2. /\ x.path \in Path /\ x.entry \in Entry
      /\ Took(n, m, x) \in Worker /\ u \in Worker
      /\ idx[n][x.path] \in Entry \cup {NoEntry}
  BY TookType, WorkerType DEF TypeOK
<1>3. u.ph = "apply" /\ lock[n] = "free"
  BY <1>1 DEF ApplyNoop, ApplyTombstone, ApplyDelete, ApplyMeta, ApplyContent,
              Applying
<1>4. /\ Took(n, m, x).ph = "apply" /\ Took(n, m, x).cur = u.cur
      /\ Took(n, m, x).todo \subseteq u.todo
  BY <1>2, <1>3 DEF Took, Worker
<1>5. ASSUME NEW ph \in Phase
      PROVE  /\ Holding(n, m, x, ph) \in Worker
             /\ Holding(n, m, x, ph).ph = ph
             /\ Holding(n, m, x, ph).cur = x
             /\ Holding(n, m, x, ph).todo \subseteq u.todo
  <2>1. Holding(n, m, x, ph) \in Worker
    BY TookType
  <2> QED
    BY <1>2, <1>4, <2>1 DEF Holding, Worker
<1>6. ASSUME Moves(n, m, Took(n, m, x))
      PROVE  Outside(n, m, Took(n, m, x))
  BY <1>3, <1>4, <1>6 DEF Outside, Onward, Written, Unwritten
<1>7. CASE ApplyNoop(n, m, x)
  BY <1>2, <1>6, <1>7 DEF ApplyNoop
<1>8. CASE ApplyDelete(n, m, x)
  <2>1. CASE diskUnsynced(n, x.path)
    BY <1>2, <1>6, <1>8, <2>1 DEF ApplyDelete
  <2>2. CASE ~diskUnsynced(n, x.path)
    <3>1. EntersCommit(n, m, Holding(n, m, x, "remove"))
      BY <1>8, <2>2 DEF ApplyDelete
    <3>2. x.entry.deleted
      BY <1>2, <1>8, DecideKinds, Zenon DEF ApplyDelete, Applying
    <3>3. "remove" \in Phase
      BY DEF Phase
    <3>4. Enters(n, m, Holding(n, m, x, "remove"))
      BY <1>3, <1>5, <2>2, <3>1, <3>2, <3>3 DEF Enters
    <3> QED
      BY <1>5, <3>3, <3>4
  <2> QED
    BY <2>1, <2>2
<1>9. CASE ApplyMeta(n, m, x)
  <2>1. CASE diskUnsynced(n, x.path)
    BY <1>2, <1>6, <1>9, <2>1 DEF ApplyMeta
  <2>2. CASE ~diskUnsynced(n, x.path)
    <3>1. EntersCommit(n, m, Holding(n, m, x, "metaTimes"))
      BY <1>9, <2>2 DEF ApplyMeta
    <3>2. disk[n][x.path] # NoFile
      BY <1>2, <1>9, DecideKinds, Zenon DEF ApplyMeta, Applying
    <3>3. "metaTimes" \in Phase
      BY DEF Phase
    <3>4. Enters(n, m, Holding(n, m, x, "metaTimes"))
      BY <1>3, <1>5, <2>2, <3>1, <3>2, <3>3 DEF Enters
    <3> QED
      BY <1>5, <3>3, <3>4
  <2> QED
    BY <2>1, <2>2
<1>10. CASE ApplyContent(n, m, x)
  <2> DEFINE how == IF useDelta(idx[n][x.path], x.entry) THEN "delta" ELSE "last"
             w == [Holding(n, m, x, "fetch") EXCEPT !.how = how]
  <2>1. "fetch" \in Phase
    BY DEF Phase
  <2>2. /\ w \in Worker /\ w.ph = "fetch" /\ w.cur = x
        /\ w.todo \subseteq u.todo
    BY <1>5, <2>1 DEF Worker
  <2>3. ~x.entry.deleted
    BY <1>2, <1>10, DecideKinds, Zenon DEF ApplyContent, Applying
  <2>4. Moves(n, m, w)
    BY <1>10 DEF ApplyContent
  <2> HIDE DEF w
  <2>5. Outside(n, m, w)
    BY <1>3, <2>2, <2>3, <2>4 DEF Outside, Onward, Written, Unwritten
  <2> QED
    BY <2>2, <2>5
<1>11. CASE ApplyTombstone(n, m, x)
  <2>1. x.entry.deleted
    BY <1>2, <1>11, DecideKinds, Zenon DEF ApplyTombstone, Applying
  <2> QED
    BY <1>11, <2>1
<1> QED
  BY <1>1, <1>7, <1>8, <1>9, <1>10, <1>11

(* A worker that gives up its entry, or tries it again.                    *)
LEMMA GivesUp ==
  ASSUME NEW u \in Worker, NEW w \in Worker, NEW offered,
         u.ph \notin Written \cup Unwritten,
         \/ w = NextEntry(u) \/ w = [NextEntry(u) EXCEPT !.todo = {}] \/ w = Idle
         \/ w = Refused(u) /\ u.ph \in {"fetch", "read"}
         \/ w = Mismatch(u) /\ u.ph = "read"
  PROVE  Onward(u, w, offered)
<1>1. CASE w.ph \in {"apply", "idle"} /\ w.todo \subseteq u.todo /\ w.cur = NoItem
  BY <1>1 DEF Onward, Written, Unwritten
<1>2. CASE w.ph = "fetch" /\ w.todo = u.todo /\ w.cur = u.cur
           /\ u.ph \in {"fetch", "read"}
  BY <1>2 DEF Onward, Written, Unwritten
<1>3. /\ NextEntry(u) \in Worker
      /\ NextEntry(u).ph = "apply" /\ NextEntry(u).todo = u.todo
      /\ NextEntry(u).cur = NoItem
  BY WorkerSteps, Zenon DEF NextEntry, Worker
<1>4. CASE w = NextEntry(u) \/ w = [NextEntry(u) EXCEPT !.todo = {}]
  BY <1>1, <1>3, <1>4 DEF Worker
<1>5. CASE w = Idle
  BY <1>1, <1>5 DEF Idle
<1>6. CASE w = Refused(u) /\ u.ph \in {"fetch", "read"}
  BY <1>1, <1>2, <1>3, <1>6 DEF Refused, Worker
<1>7. CASE w = Mismatch(u) /\ u.ph = "read"
  BY <1>1, <1>2, <1>3, <1>7 DEF Mismatch, Worker
<1> QED
  BY <1>4, <1>5, <1>6, <1>7

(* Every step of a pull worker: outside a commit, into one, the deletion   *)
(* marker of a path that has no live entry, or inside a commit.            *)
LEMMA PullKinds ==
  ASSUME TypeOK, NEW n \in Node, NEW m \in Node, Pull(n, m)
  PROVE  \/ \E w \in Worker : Outside(n, m, w) \/ Enters(n, m, w)
         \/ \E x \in worker[n][m].todo :
              ApplyTombstone(n, m, x) /\ x.entry.deleted
         \/ Commit(n, m)
<1> DEFINE u == worker[n][m]
<1>1. u \in Worker /\ Idle \in Worker
  BY WorkerType, IdleType
<1>2. /\ NextEntry(u) \in Worker /\ Refused(u) \in Worker /\ Mismatch(u) \in Worker
      /\ [NextEntry(u) EXCEPT !.todo = {}] \in Worker
  BY <1>1, WorkerSteps, Zenon
<1>3. CASE fetchManifest(n, m)
  <2> DEFINE w == [u EXCEPT !.ph = "apply", !.todo = Manifest(m)]
  <2>1. Manifest(m) \in SUBSET Item
    BY DEF Manifest, Item, TypeOK
  <2>2. w \in Worker /\ w.ph = "apply" /\ w.cur = u.cur /\ w.todo = Manifest(m)
    BY <1>1, <2>1, Zenon DEF Worker, Phase
  <2>3. Moves(n, m, w) /\ u.ph = "manifest"
    BY <1>3 DEF fetchManifest
  <2> HIDE DEF w
  <2>4. Outside(n, m, w)
    BY <2>2, <2>3 DEF Outside, Onward, Written, Unwritten
  <2> QED
    BY <2>2, <2>4
<1>4. CASE TransportError(n, m)
  <2> DEFINE w == [NextEntry(u) EXCEPT !.todo = {}]
  <2>1. Moves(n, m, w) /\ u.ph \notin Written \cup Unwritten
    BY <1>4 DEF TransportError, Written, Unwritten
  <2>2. Onward(u, w, Manifest(m))
    BY <1>1, <1>2, <2>1, GivesUp
  <2> QED
    BY <1>2, <2>1, <2>2 DEF Outside
<1>5. CASE ContextDone(n, m)
  <2>1. PICK w \in {Idle, NextEntry(u)} :
          Moves(n, m, w) /\ u.ph \notin Written \cup Unwritten
    BY <1>5 DEF ContextDone, Written, Unwritten
  <2>2. Onward(u, w, Manifest(m))
    BY <1>1, <1>2, <2>1, GivesUp
  <2> QED
    BY <1>1, <1>2, <2>1, <2>2 DEF Outside
<1>6. CASE Apply(n, m)
  BY <1>6, ApplyShape
<1>7. ASSUME NEW ph \in {"read", "got"}, Moves(n, m, [u EXCEPT !.ph = ph]),
             u.ph \in {"fetch", "read"}
      PROVE  \E w \in Worker : Outside(n, m, w)
  <2> DEFINE w == [u EXCEPT !.ph = ph]
  <2>1. w \in Worker /\ w.ph = ph /\ w.cur = u.cur /\ w.todo = u.todo
    BY <1>1, <1>7 DEF Worker, Phase
  <2> HIDE DEF w
  <2>2. Outside(n, m, w)
    BY <1>7, <2>1 DEF Outside, Onward, Written, Unwritten, w
  <2> QED
    BY <2>1, <2>2
<1>8. ASSUME NEW w \in {NextEntry(u), Refused(u), Mismatch(u)}, Moves(n, m, w),
             \/ u.ph = "read"
             \/ u.ph = "fetch" /\ w = Refused(u)
             \/ u.ph = "got" /\ w = NextEntry(u)
      PROVE  \E v \in Worker : Outside(n, m, v)
  <2>1. w \in Worker /\ u.ph \notin Written \cup Unwritten
    BY <1>2, <1>8 DEF Written, Unwritten
  <2>2. Onward(u, w, Manifest(m))
    BY <1>1, <1>2, <1>8, <2>1, GivesUp
  <2> QED
    BY <1>8, <2>1, <2>2 DEF Outside
<1>9. CASE Request(n, m)
  <2>1. /\ u.ph = "fetch"
        /\ Moves(n, m, [u EXCEPT !.ph = "read"]) \/ Moves(n, m, Refused(u))
    BY <1>9 DEF Request
  <2> QED
    BY <1>7, <1>8, <2>1
<1>10. CASE serveFile(n, m)
  <2>1. /\ u.ph = "read"
        /\ \/ Moves(n, m, [u EXCEPT !.ph = "got"]) \/ Moves(n, m, Refused(u))
           \/ Moves(n, m, Mismatch(u))
    BY <1>10 DEF serveFile
  <2> QED
    BY <1>7, <1>8, <2>1
<1>11. CASE CommitCheck(n, m)
  <2> DEFINE w == [u EXCEPT !.ph = "rename"]
  <2>1. /\ u.ph = "got" /\ lock[n] = "free"
        /\ \/ Moves(n, m, NextEntry(u))
           \/ EntersCommit(n, m, w) /\ ~diskUnsynced(n, u.cur.path)
    BY <1>11 DEF CommitCheck
  <2>2. w \in Worker /\ w.ph = "rename" /\ w.cur = u.cur /\ w.todo = u.todo
    BY <1>1 DEF Worker, Phase
  <2> HIDE DEF w
  <2>3. CASE Moves(n, m, NextEntry(u))
    BY <1>8, <2>1, <2>3
  <2>4. CASE EntersCommit(n, m, w) /\ ~diskUnsynced(n, u.cur.path)
    <3>1. Enters(n, m, w)
      BY <2>1, <2>2, <2>4 DEF Enters
    <3> QED
      BY <2>2, <3>1
  <2> QED
    BY <2>1, <2>3, <2>4
<1>12. CASE PullDone(n, m)
  <2>1. Onward(u, Idle, Manifest(m))
    <3>1. u.ph \notin Written \cup Unwritten
      BY <1>12 DEF PullDone, Written, Unwritten
    <3> QED
      BY <1>1, <3>1, GivesUp
  <2>2. Outside(n, m, Idle)
    BY <1>12, <2>1 DEF Outside
  <2> QED
    BY <1>1, <2>2
<1> QED
  BY <1>3, <1>4, <1>5, <1>6, <1>9, <1>10, <1>11, <1>12 DEF Pull

(* A step inside a commit on an item x: the file f becomes g, its entry e  *)
(* becomes h, and the worker w goes on (l = m) or releases syncMu.         *)
CommitEffect(n, m, f, e, g, h, l, w) ==
  LET u == worker[n][m]
      x == u.cur.entry
      Goes(from, to) == u.ph = from /\ l = m /\ w = [u EXCEPT !.ph = to]
      Ends(from, v) == u.ph = from /\ l = "free" /\ w = v
  IN  \/ /\ Goes("rename", "chtimes")
         /\ g = [hash |-> x.hash, mode |-> fileMode(x.mode),
                 mtime |-> OnDisk(n, WriteTime(n))]
         /\ h = e
      \/ /\ \/ Ends("rename", NextEntry(u))
            \/ Ends("remove", NextEntry(u))
            \/ Ends("metaTimes", NextEntry(u))
         /\ g = f /\ h = e
         /\ UNCHANGED pulled
      \/ /\ Goes("chtimes", "set")
         /\ \/ f # NoFile /\ g = [f EXCEPT !.mtime = OnDisk(n, x.mtime)]
            \/ g = f
         /\ h = e
      \/ /\ Ends("set", Applied(u))
         /\ g = f
         /\ h = [x EXCEPT !.mode = diskMeta(n, u.cur).mode,
                          !.mtime = diskMeta(n, u.cur).mtime]
      \/ /\ Ends("remove", Applied(u))
         /\ g = NoFile
         /\ h = SetIfWins(idx[n], u.cur.path, x)[u.cur.path]
      \/ /\ Goes("metaTimes", "metaSet")
         /\ f # NoFile /\ g = [f EXCEPT !.mtime = OnDisk(n, x.mtime)]
         /\ h = e
      \/ /\ Ends("metaSet", Applied(u))
         /\ f # NoFile /\ g = [f EXCEPT !.mode = fileMode(x.mode)]
         /\ h = [e EXCEPT !.updatedAt = x.updatedAt, !.mode = fileMode(x.mode),
                          !.mtime = f.mtime]
      \/ /\ Ends("metaSet", NextEntry(u))
         /\ g = IF f = NoFile THEN f
                ELSE [f EXCEPT !.mode = fileMode(e.mode),
                               !.mtime = OnDisk(n, e.mtime)]
         /\ h = e

(* What a step inside a commit leaves alone: other daemons, other files.   *)
CommitLocal(n, m, p) ==
  /\ walk' = walk /\ now' = now /\ halts' = halts /\ status' = status
  /\ \A k \in Node \ {n} :
       /\ disk'[k] = disk[k] /\ idx'[k] = idx[k] /\ lock'[k] = lock[k]
       /\ worker'[k] = worker[k] /\ pulled'[k] = pulled[k]
  /\ \A j \in Node \ {m} : worker'[n][j] = worker[n][j]
  /\ \A q \in Path \ {p} :
       /\ disk'[n][q] = disk[n][q] /\ idx'[n][q] = idx[n][q]
       /\ pulled'[n][q] = pulled[n][q]
  /\ \/ pulled'[n][p]
     \/ pulled'[n][p] = pulled[n][p] /\ disk'[n][p] = disk[n][p]

(* The parts of such a step: the file, the entry, the worker.              *)
LEMMA FilePart ==
  ASSUME TypeOK, NEW n \in Node, NEW m, NEW p \in Path, NEW g,
         \/ WriteFile(n, m, p, g)
         \/ UNCHANGED <<disk, pulled>> /\ g = disk[n][p]
  PROVE  /\ disk'[n][p] = g
         /\ \A q \in Path \ {p} : /\ disk'[n][q] = disk[n][q]
                                  /\ pulled'[n][q] = pulled[n][q]
         /\ \A k \in Node \ {n} : disk'[k] = disk[k] /\ pulled'[k] = pulled[k]
         /\ \/ pulled'[n][p]
            \/ pulled'[n][p] = pulled[n][p] /\ disk'[n][p] = disk[n][p]
BY DEF TypeOK, WriteFile

LEMMA EntryPart ==
  ASSUME TypeOK, NEW n \in Node, NEW p \in Path, NEW files,
         \/ idx' = [idx EXCEPT ![n] = files]
         \/ idx' = idx /\ files = idx[n],
         \A q \in Path \ {p} : files[q] = idx[n][q]
  PROVE  /\ idx'[n][p] = files[p]
         /\ \A q \in Path \ {p} : idx'[n][q] = idx[n][q]
         /\ \A k \in Node \ {n} : idx'[k] = idx[k]
BY DEF TypeOK

(* Such a step, put together from its parts.                               *)
CommitBy(n, m, p, g, files, l, w) ==
  /\ UNCHANGED <<walk, now, halts, status>>
  /\ \/ WriteFile(n, m, p, g)
     \/ UNCHANGED <<disk, pulled>> /\ g = disk[n][p]
  /\ \/ idx' = [idx EXCEPT ![n] = files]
     \/ idx' = idx /\ files = idx[n]
  /\ \A q \in Path \ {p} : files[q] = idx[n][q]
  /\ worker' = [worker EXCEPT ![n][m] = w]
  /\ \/ lock' = [lock EXCEPT ![n] = l]
     \/ lock' = lock /\ l = m
  /\ CommitEffect(n, m, disk[n][p], idx[n][p], g, files[p], l, w)

LEMMA CommitParts ==
  ASSUME TypeOK, NEW n \in Node, NEW m \in Node, NEW g, NEW files, NEW l, NEW w,
         NEW p \in Path, lock[n] = m, CommitBy(n, m, p, g, files, l, w)
  PROVE  /\ CommitLocal(n, m, p)
         /\ CommitEffect(n, m, disk[n][p], idx[n][p], disk'[n][p], idx'[n][p],
                         lock'[n], worker'[n][m])
<1>1. /\ disk'[n][p] = g
      /\ \A q \in Path \ {p} : /\ disk'[n][q] = disk[n][q]
                               /\ pulled'[n][q] = pulled[n][q]
      /\ \A k \in Node \ {n} : disk'[k] = disk[k] /\ pulled'[k] = pulled[k]
      /\ \/ pulled'[n][p]
         \/ pulled'[n][p] = pulled[n][p] /\ disk'[n][p] = disk[n][p]
  BY FilePart DEF CommitBy
<1>2. /\ idx'[n][p] = files[p]
      /\ \A q \in Path \ {p} : idx'[n][q] = idx[n][q]
      /\ \A k \in Node \ {n} : idx'[k] = idx[k]
  BY EntryPart DEF CommitBy
<1>3. /\ worker'[n][m] = w /\ lock'[n] = l
      /\ \A j \in Node \ {m} : worker'[n][j] = worker[n][j]
      /\ \A k \in Node \ {n} : worker'[k] = worker[k] /\ lock'[k] = lock[k]
  <2>1. worker' = [worker EXCEPT ![n][m] = w]
    BY DEF CommitBy
  <2>2. lock' = [lock EXCEPT ![n] = l] \/ (lock' = lock /\ l = m)
    BY DEF CommitBy
  <2>3. /\ worker'[n][m] = w
        /\ \A j \in Node \ {m} : worker'[n][j] = worker[n][j]
        /\ \A k \in Node \ {n} : worker'[k] = worker[k]
    BY <2>1 DEF TypeOK
  <2>4. lock'[n] = l /\ \A k \in Node \ {n} : lock'[k] = lock[k]
    BY <2>2 DEF TypeOK
  <2> QED
    BY <2>3, <2>4
<1>4. CommitLocal(n, m, p)
  BY <1>1, <1>2, <1>3 DEF CommitLocal, CommitBy
<1> QED
  BY <1>1, <1>2, <1>3, <1>4 DEF CommitBy

(* Every step of a commit is one.                                          *)
LEMMA CommitShape ==
  ASSUME TypeOK, NEW n \in Node, NEW m \in Node, Commit(n, m),
         NEW p, p = worker[n][m].cur.path
  PROVE  /\ lock[n] = m
         /\ CommitLocal(n, m, p)
         /\ CommitEffect(n, m, disk[n][p], idx[n][p], disk'[n][p], idx'[n][p],
                         lock'[n], worker'[n][m])
<1> DEFINE u == worker[n][m]
           x == u.cur.entry
           f == disk[n][p]
           e == idx[n][p]
<1>1. u \in Worker /\ p \in Path
  BY WorkerType
<1>2. lock[n] = m
  BY Zenon DEF Commit, CommitRename, CommitChtimes, CommitSet, CommitRemove, MetaTimes,
         MetaSet, InCommit
<1> SUFFICES \E g, files, l, w : CommitBy(n, m, p, g, files, l, w)
  BY <1>1, <1>2, CommitParts
<1>3. ASSUME CommitFails(n, m), UNCHANGED <<disk, pulled>>,
             u.ph \in {"rename", "remove", "metaTimes"}
      PROVE  CommitBy(n, m, p, f, idx[n], "free", NextEntry(u))
  <2>1. worker' = [worker EXCEPT ![n][m] = NextEntry(u)]
    BY <1>3 DEF CommitFails, TypeOK
  <2>2. CommitEffect(n, m, f, e, f, e, "free", NextEntry(u))
    BY <1>3, Zenon DEF CommitEffect
  <2> QED
    BY <1>3, <2>1, <2>2, Zenon DEF CommitFails, CommitBy
<1>4. ASSUME NEW ph, worker' = [worker EXCEPT ![n][m].ph = ph]
      PROVE  worker' = [worker EXCEPT ![n][m] = [u EXCEPT !.ph = ph]]
  BY <1>4 DEF TypeOK
<1>5. ASSUME NEW files, EndsCommit(n, m, files)
      PROVE  /\ idx' = [idx EXCEPT ![n] = files]
             /\ lock' = [lock EXCEPT ![n] = "free"]
             /\ worker' = [worker EXCEPT ![n][m] = Applied(u)]
             /\ UNCHANGED <<now, status, walk, halts>>
  BY <1>5 DEF EndsCommit, TypeOK
<1>6. CASE CommitRename(n, m)
  <2> DEFINE g == [hash |-> x.hash, mode |-> fileMode(x.mode),
                   mtime |-> OnDisk(n, WriteTime(n))]
             w == [u EXCEPT !.ph = "chtimes"]
  <2>1. u.ph = "rename"
    BY <1>6 DEF CommitRename, InCommit
  <2>2. CASE CommitFails(n, m) /\ UNCHANGED <<disk, pulled>>
    BY <1>3, <2>1, <2>2
  <2>3. CASE ~(CommitFails(n, m) /\ UNCHANGED <<disk, pulled>>)
    <3>1. /\ WriteFile(n, m, p, g)
          /\ worker' = [worker EXCEPT ![n][m].ph = "chtimes"]
          /\ UNCHANGED <<walk, now, halts, status, idx, lock>>
      BY <1>6, <2>3 DEF CommitRename
    <3>2. worker' = [worker EXCEPT ![n][m] = w]
      BY <1>4, <3>1
    <3>3. CommitEffect(n, m, f, e, g, e, m, w)
      BY <2>1 DEF CommitEffect
    <3> HIDE DEF g, w
    <3>4. CommitBy(n, m, p, g, idx[n], m, w)
      BY <3>1, <3>2, <3>3, Zenon DEF CommitBy
    <3> QED
      BY <3>4
  <2> QED
    BY <2>2, <2>3
<1>7. CASE CommitChtimes(n, m)
  <2> DEFINE g == [f EXCEPT !.mtime = OnDisk(n, x.mtime)]
             w == [u EXCEPT !.ph = "set"]
  <2>1. /\ u.ph = "chtimes"
        /\ worker' = [worker EXCEPT ![n][m].ph = "set"]
        /\ UNCHANGED <<walk, now, halts, status, idx, lock>>
        /\ \/ f # NoFile /\ WriteFile(n, m, p, g)
           \/ UNCHANGED <<disk, pulled>>
    BY <1>7, Zenon DEF CommitChtimes, InCommit
  <2>2. worker' = [worker EXCEPT ![n][m] = w]
    BY <1>4, <2>1, Zenon
  <2>3. /\ f # NoFile => CommitEffect(n, m, f, e, g, e, m, w)
        /\ CommitEffect(n, m, f, e, f, e, m, w)
    BY <2>1 DEF CommitEffect
  <2> HIDE DEF g, w
  <2>4. \/ CommitBy(n, m, p, g, idx[n], m, w)
        \/ CommitBy(n, m, p, f, idx[n], m, w)
    BY <2>1, <2>2, <2>3, Zenon DEF CommitBy
  <2> QED
    BY <2>4
<1>8. CASE CommitSet(n, m)
  <2> DEFINE h == [x EXCEPT !.mode = diskMeta(n, u.cur).mode,
                            !.mtime = diskMeta(n, u.cur).mtime]
             files == [idx[n] EXCEPT ![p] = h]
  <2>1. u.ph = "set" /\ EndsCommit(n, m, files) /\ UNCHANGED <<disk, pulled>>
    BY <1>8 DEF CommitSet, InCommit
  <2>2. files[p] = h /\ \A q \in Path \ {p} : files[q] = idx[n][q]
    BY <1>1 DEF TypeOK
  <2>3. CommitEffect(n, m, f, e, f, h, "free", Applied(u))
    BY <2>1 DEF CommitEffect
  <2> HIDE DEF h, files
  <2>4. CommitBy(n, m, p, f, files, "free", Applied(u))
    BY <1>5, <2>1, <2>2, <2>3, Zenon DEF CommitBy
  <2> QED
    BY <2>4
<1>9. CASE CommitRemove(n, m)
  <2> DEFINE files == SetIfWins(idx[n], p, x)
  <2>1. u.ph = "remove"
    BY <1>9 DEF CommitRemove, InCommit
  <2>2. CASE CommitFails(n, m) /\ UNCHANGED <<disk, pulled>>
    BY <1>3, <2>1, <2>2
  <2>3. CASE ~(CommitFails(n, m) /\ UNCHANGED <<disk, pulled>>)
    <3>1. WriteFile(n, m, p, NoFile) /\ EndsCommit(n, m, files)
      BY <1>9, <2>3 DEF CommitRemove
    <3>2. \A q \in Path \ {p} : files[q] = idx[n][q]
      BY <1>1 DEF SetIfWins, TypeOK
    <3>3. CommitEffect(n, m, f, e, NoFile, files[p], "free", Applied(u))
      BY <2>1 DEF CommitEffect
    <3> HIDE DEF files
    <3>4. CommitBy(n, m, p, NoFile, files, "free", Applied(u))
      BY <1>5, <3>1, <3>2, <3>3, Zenon DEF CommitBy
    <3> QED
      BY <3>4
  <2> QED
    BY <2>2, <2>3
<1>10. CASE MetaTimes(n, m)
  <2> DEFINE g == [f EXCEPT !.mtime = OnDisk(n, x.mtime)]
             w == [u EXCEPT !.ph = "metaSet"]
  <2>1. u.ph = "metaTimes"
    BY <1>10 DEF MetaTimes, InCommit
  <2>2. CASE CommitFails(n, m) /\ UNCHANGED <<disk, pulled>>
    BY <1>3, <2>1, <2>2
  <2>3. CASE ~(CommitFails(n, m) /\ UNCHANGED <<disk, pulled>>)
    <3>1. /\ f # NoFile /\ WriteFile(n, m, p, g)
          /\ worker' = [worker EXCEPT ![n][m].ph = "metaSet"]
          /\ UNCHANGED <<walk, now, halts, status, idx, lock>>
      BY <1>10, <2>3 DEF MetaTimes
    <3>2. worker' = [worker EXCEPT ![n][m] = w]
      BY <1>4, <3>1, Zenon
    <3>3. CommitEffect(n, m, f, e, g, e, m, w)
      BY <2>1, <3>1, Zenon DEF CommitEffect
    <3> HIDE DEF g, w
    <3>4. CommitBy(n, m, p, g, idx[n], m, w)
      BY <3>1, <3>2, <3>3, Zenon DEF CommitBy
    <3> QED
      BY <3>4
  <2> QED
    BY <2>2, <2>3
<1>11. CASE MetaSet(n, m)
  <2> DEFINE g == [f EXCEPT !.mode = fileMode(x.mode)]
             h == [e EXCEPT !.updatedAt = x.updatedAt, !.mode = fileMode(x.mode),
                            !.mtime = f.mtime]
             files == [idx[n] EXCEPT ![p] = h]
             back == IF f = NoFile THEN f
                     ELSE [f EXCEPT !.mode = fileMode(e.mode),
                                    !.mtime = OnDisk(n, e.mtime)]
  <2>1. u.ph = "metaSet"
    BY <1>11, Zenon DEF MetaSet, InCommit
  <2>4. \/ /\ CommitFails(n, m)
           /\ \/ WriteFile(n, m, p, back)
              \/ UNCHANGED <<disk, pulled>> /\ back = f
        \/ f # NoFile /\ WriteFile(n, m, p, g) /\ EndsCommit(n, m, files)
    BY <1>11, Zenon DEF MetaSet
  <2>2. CASE /\ CommitFails(n, m)
             /\ \/ WriteFile(n, m, p, back)
                \/ UNCHANGED <<disk, pulled>> /\ back = f
    <3>1. \/ WriteFile(n, m, p, back)
          \/ UNCHANGED <<disk, pulled>> /\ back = f
      BY <2>2, Zenon
    <3>2. worker' = [worker EXCEPT ![n][m] = NextEntry(u)]
      BY <2>2 DEF CommitFails, TypeOK
    <3>3. CommitEffect(n, m, f, e, back, e, "free", NextEntry(u))
      BY <2>1 DEF CommitEffect
    <3> HIDE DEF back
    <3>4. CommitBy(n, m, p, back, idx[n], "free", NextEntry(u))
      BY <2>2, <3>1, <3>2, <3>3, Zenon DEF CommitBy, CommitFails
    <3> QED
      BY <3>4
  <2>3. CASE f # NoFile /\ WriteFile(n, m, p, g) /\ EndsCommit(n, m, files)
    <3>1. f # NoFile /\ WriteFile(n, m, p, g) /\ EndsCommit(n, m, files)
      BY <2>3, Zenon
    <3>2. files[p] = h /\ \A q \in Path \ {p} : files[q] = idx[n][q]
      BY <1>1, Zenon DEF TypeOK
    <3>3. CommitEffect(n, m, f, e, g, h, "free", Applied(u))
      BY <2>1, <3>1, Zenon DEF CommitEffect
    <3> HIDE DEF g, h, files
    <3>4. CommitBy(n, m, p, g, files, "free", Applied(u))
      BY <1>5, <3>1, <3>2, <3>3, Zenon DEF CommitBy
    <3> QED
      BY <3>4
  <2> QED
    BY <2>2, <2>3, <2>4, Zenon
<1> QED
  BY <1>6, <1>7, <1>8, <1>9, <1>10, <1>11 DEF Commit

(* A worker that is in no commit, and enters none, matters to no file.     *)
LEMMA OutsideFaith ==
  ASSUME TypeOK, Faithful, NEW n \in Node,
         disk' = disk, idx' = idx, walk' = walk, lock' = lock,
         \A k \in Node \ {n} : worker'[k] = worker[k],
         \A j \in Node : \/ worker'[n][j] = worker[n][j]
                         \/ /\ worker[n][j].ph \notin Written \cup Unwritten
                            /\ worker'[n][j].ph \notin Written \cup Unwritten
  PROVE  Faithful'
<1>1. ASSUME NEW k \in Node \ {n}
      PROVE  FaithOf(k)'
  BY <1>1, UntouchedFaith DEF Faithful
<1>2. FaithOf(n)'
  <2>1. CASE lock[n] \in Node /\ worker'[n][lock[n]] = worker[n][lock[n]]
    BY <2>1 DEF Faithful, FaithOf
  <2>2. CASE lock[n] \in Node /\ worker'[n][lock[n]] # worker[n][lock[n]]
    BY <2>2, LockKinds, Zenon DEF Faithful, FaithOf, Faith
  <2>3. CASE lock[n] \notin Node
    BY <2>3, Zenon DEF Faithful, FaithOf, Faith
  <2> QED
    BY <2>1, <2>2, <2>3
<1> QED
  BY <1>1, <1>2 DEF Faithful

(* A step inside a commit matters to the file it is about.                 *)
LEMMA CommitFaith ==
  ASSUME TypeOK, TypeOK', IInv, Faithful, NEW n \in Node, NEW m \in Node,
         Commit(n, m)
  PROVE  Faithful'
<1> DEFINE u == worker[n][m]
           x == u.cur.entry
           p == u.cur.path
           f == disk[n][p]
           e == idx[n][p]
           g == disk'[n][p]
           h == idx'[n][p]
           w == worker'[n][m]
<1>1. /\ lock[n] = m /\ CommitLocal(n, m, p)
      /\ CommitEffect(n, m, f, e, g, h, lock'[n], w)
  BY CommitShape
<1>2. ASSUME NEW k \in Node \ {n}
      PROVE  FaithOf(k)'
  BY <1>1, UntouchedFaith, Zenon DEF Faithful, CommitLocal
<1>3. /\ \A q \in Path : Sound(disk[n][q], idx[n][q]) \/ (u.ph \in Written /\ q = p)
      /\ u.ph \in Written => f # NoFile /\ f.hash = x.hash
      /\ u.ph \in Unwritten => Same(f, e)
  BY <1>1, Zenon DEF Faithful, FaithOf, Faith
<1>4. \A q \in Path \ {p} : Sound(disk'[n][q], idx'[n][q])
  BY <1>1, <1>3, Zenon DEF CommitLocal
<1>5. /\ u \in Worker /\ p \in Path /\ x \in Entry
      /\ f \in File \cup {NoFile} /\ e \in Entry \cup {NoEntry}
  BY WorkerType DEF TypeOK
<1>6. Entitled(m, u, lock[n], idx[n])
  BY DEF IInv, CommitBasis
<1>7. ASSUME lock'[n] = "free", Sound(g, h)
      PROVE  FaithOf(n)'
  <2>1. \A q \in Path : Sound(disk'[n][q], idx'[n][q])
    BY <1>4, <1>7
  <2> QED
    BY <1>7, <2>1, CalmFaith DEF FaithOf
<1>8. ASSUME NEW ph \in Written \cup Unwritten, lock'[n] = m,
             w = [u EXCEPT !.ph = ph],
             ph \in Written => g # NoFile /\ g.hash = x.hash,
             ph \in Unwritten => Sound(g, h) /\ Same(g, h)
      PROVE  FaithOf(n)'
  <2>1. w.ph = ph /\ w.cur = u.cur
    BY <1>5, <1>8 DEF Worker
  <2>2. m # "scan" /\ Written \cap Unwritten = {}
    BY SyncAssumption DEF Written, Unwritten
  <2>3. \A q \in Path :
          Sound(disk'[n][q], idx'[n][q]) \/ (w.ph \in Written /\ w.cur.path = q)
    BY <1>4, <1>8, <2>1
  <2>4. Faith(disk'[n], idx'[n], walk'[n].files, m, w)
    BY <1>8, <2>1, <2>2, <2>3 DEF Faith
  <2> QED
    BY <1>8, <2>4 DEF FaithOf
<1> SUFFICES FaithOf(n)'
  BY <1>2 DEF Faithful
<1>9. /\ OnDisk(n, x.mtime) \in Nat /\ x.mode \in Nat
      /\ fileMode(x.mode) \in Nat
  BY <1>5, ClockType, FileModeType DEF Entry
<1>10. CASE u.ph = "rename" /\ lock'[n] = m
  <2>1. /\ w = [u EXCEPT !.ph = "chtimes"]
        /\ g = [hash |-> x.hash, mode |-> fileMode(x.mode),
                mtime |-> OnDisk(n, WriteTime(n))]
    BY <1>1, <1>10, SyncAssumption DEF CommitEffect
  <2>2. x.hash \in Content
    BY <1>10 DEF IInv, Received
  <2>3. g \in File
    BY <1>9, <2>1, <2>2, ClockType DEF File
  <2>4. g # NoFile /\ g.hash = x.hash
    BY <2>1, <2>3, SyncAssumption
  <2> QED
    BY <1>8, <1>10, <2>1, <2>4 DEF Written, Unwritten
<1>11. CASE u.ph \in {"rename", "remove", "metaTimes"} /\ lock'[n] = "free"
            /\ g = f /\ h = e
  BY <1>3, <1>5, <1>7, <1>11 DEF Written
<1>12. CASE u.ph = "chtimes"
  <2>1. /\ w = [u EXCEPT !.ph = "set"] /\ lock'[n] = m
        /\ \/ f # NoFile /\ g = [f EXCEPT !.mtime = OnDisk(n, x.mtime)]
           \/ g = f
    BY <1>1, <1>12, Zenon DEF CommitEffect
  <2>2. g # NoFile /\ g.hash = x.hash
    <3>1. f \in File /\ f.hash = x.hash
      BY <1>3, <1>5, <1>12 DEF Written
    <3>2. CASE g = [f EXCEPT !.mtime = OnDisk(n, x.mtime)]
      <4>1. g \in File /\ g.hash = f.hash
        BY <1>9, <3>1, <3>2, Zenon DEF File
      <4> QED
        BY <3>1, <4>1, SyncAssumption
    <3> QED
      BY <2>1, <3>1, <3>2, SyncAssumption, Zenon
  <2> QED
    BY <1>8, <2>1, <2>2, Zenon DEF Written, Unwritten
<1>13. CASE u.ph = "set"
  <2>1. /\ lock'[n] = "free" /\ g = f
        /\ h = [x EXCEPT !.mode = diskMeta(n, u.cur).mode,
                         !.mtime = diskMeta(n, u.cur).mtime]
    BY <1>1, <1>13 DEF CommitEffect
  <2>2. h.hash = x.hash
    BY <1>5, <2>1, Zenon DEF Entry
  <2> QED
    BY <1>3, <1>7, <1>13, <2>1, <2>2, Zenon DEF Written, Sound
<1>14. CASE lock'[n] = "free" /\ g = NoFile
  BY <1>7, <1>14 DEF Sound
<1>15. CASE u.ph = "metaTimes" /\ lock'[n] = m
  <2>1. /\ w = [u EXCEPT !.ph = "metaSet"]
        /\ f # NoFile /\ g = [f EXCEPT !.mtime = OnDisk(n, x.mtime)]
        /\ h = e
    BY <1>1, <1>15, SyncAssumption, Zenon DEF CommitEffect
  <2>2. Sound(g, h) /\ Same(g, h)
    <3>1. g.hash = f.hash
      BY <1>5, <2>1, Zenon DEF File
    <3> QED
      BY <1>3, <1>15, <2>1, <3>1, Zenon DEF Unwritten, Sound, Same
  <2> QED
    BY <1>8, <1>15, <2>1, <2>2, Zenon DEF Written, Unwritten
<1>16. CASE u.ph = "metaSet"
  <2>1. Same(f, e) /\ e \in Entry
    BY <1>3, <1>5, <1>6, <1>16, Zenon DEF Unwritten, Entitled, Live
  <2>2. /\ lock'[n] = "free"
        /\ \/ /\ f # NoFile /\ g = [f EXCEPT !.mode = fileMode(x.mode)]
              /\ h = [e EXCEPT !.updatedAt = x.updatedAt,
                               !.mode = fileMode(x.mode), !.mtime = f.mtime]
           \/ /\ g = IF f = NoFile THEN f
                     ELSE [f EXCEPT !.mode = fileMode(e.mode),
                                    !.mtime = OnDisk(n, e.mtime)]
              /\ h = e
    BY <1>1, <1>16, Zenon DEF CommitEffect
  <2>3. h.hash = e.hash
    BY <2>1, <2>2, Zenon DEF Entry
  <2>4. g # NoFile => f # NoFile /\ g.hash = f.hash
    BY <1>5, <2>2, Zenon DEF File
  <2> QED
    BY <1>7, <2>1, <2>2, <2>3, <2>4, Zenon DEF Same, Sound
<1> QED
  BY <1>1, <1>10, <1>11, <1>12, <1>13, <1>14, <1>15, <1>16, Zenon DEF CommitEffect

(* A worker that enters a commit has seen that the file is its entry's.    *)
LEMMA EnterFaith ==
  ASSUME TypeOK, Faithful, NEW n \in Node, NEW m \in Node, NEW w \in Worker,
         Enters(n, m, w)
  PROVE  Faithful'
<1>1. /\ UNCHANGED <<disk, idx, walk>>
      /\ lock'[n] = m
      /\ \A k \in Node \ {n} : lock'[k] = lock[k]
  BY DEF Enters, EntersCommit, TypeOK
<1>2. worker'[n][m] = w /\ \A k \in Node \ {n} : worker'[k] = worker[k]
  BY DEF Enters, EntersCommit, TypeOK
<1>3. ASSUME NEW k \in Node \ {n}
      PROVE  FaithOf(k)'
  BY <1>1, <1>2, UntouchedFaith DEF Faithful
<1>4. \A p \in Path : Sound(disk[n][p], idx[n][p])
  BY LockKinds, CalmSound DEF Faithful, Enters
<1>5. w.cur.path \in Path
  BY DEF Worker, Item
<1>6. Same(disk[n][w.cur.path], idx[n][w.cur.path])
  BY <1>4, <1>5 DEF Enters, diskUnsynced, Sound, Same
<1>7. m # "scan" /\ w.ph \notin Written
  BY SyncAssumption DEF Enters, Written
<1>8. Faith(disk[n], idx[n], walk[n].files, m, w)
  BY <1>4, <1>6, <1>7 DEF Faith
<1> QED
  BY <1>1, <1>2, <1>3, <1>8 DEF Faithful, FaithOf

(* A deletion marker that is taken over describes no file.                 *)
LEMMA TombstoneFaith ==
  ASSUME TypeOK, Faithful, NEW n \in Node, NEW m \in Node,
         NEW x \in worker[n][m].todo, ApplyTombstone(n, m, x), x.entry.deleted
  PROVE  Faithful'
<1> DEFINE files == SetIfWins(idx[n], x.path, x.entry)
<1>1. /\ UNCHANGED <<disk, walk, lock>> /\ lock[n] = "free"
      /\ idx'[n] = files
      /\ \A k \in Node \ {n} : idx'[k] = idx[k]
  BY DEF ApplyTombstone, Applying, TypeOK
<1>2. \A k \in Node \ {n} : worker'[k] = worker[k]
  BY DEF ApplyTombstone, TypeOK
<1>3. \A p \in Path : Sound(disk[n][p], idx[n][p])
  BY <1>1, LockKinds, CalmSound DEF Faithful
<1>4. ASSUME NEW p \in Path
      PROVE  Sound(disk[n][p], files[p])
  <2>1. files[p] \in {idx[n][p], x.entry}
    BY DEF SetIfWins, TypeOK
  <2> QED
    BY <1>3, <2>1 DEF Sound, Live
<1> HIDE DEF files
<1>5. FaithOf(n)'
  BY <1>1, <1>4, CalmFaith DEF FaithOf
<1>6. ASSUME NEW k \in Node \ {n}
      PROVE  FaithOf(k)'
  BY <1>1, <1>2, UntouchedFaith DEF Faithful
<1> QED
  BY <1>5, <1>6 DEF Faithful

(* Every step of a pull worker.                                            *)
LEMMA PullFaithful ==
  ASSUME IInv, TypeOK', Faithful, NEW n \in Node, NEW m \in Node, Pull(n, m)
  PROVE  Faithful'
<1>1. TypeOK
  BY DEF IInv
<1>2. ASSUME NEW w \in Worker, Outside(n, m, w)
      PROVE  Faithful'
  <2>1. UNCHANGED <<disk, idx, walk, lock>>
    BY <1>2 DEF Outside, Moves, PullDone
  <2>2. worker' = [worker EXCEPT ![n][m] = w]
    BY <1>2 DEF Outside, Moves, PullDone
  <2>3. /\ worker'[n][m] = w
        /\ \A j \in Node \ {m} : worker'[n][j] = worker[n][j]
        /\ \A k \in Node \ {n} : worker'[k] = worker[k]
    BY <1>1, <2>2 DEF TypeOK
  <2> QED
    BY <1>1, <1>2, <2>1, <2>3, OutsideFaith DEF Outside, Onward
<1> QED
  BY <1>1, <1>2, PullKinds, EnterFaith, TombstoneFaith, CommitFaith

(* Starting a pull batch.                                                  *)
LEMMA BatchFaithful ==
  ASSUME TypeOK, Faithful, NEW n \in Node, NEW S \in SUBSET Node, pullPeers(n, S)
  PROVE  Faithful'
<1>1. UNCHANGED <<disk, idx, walk, lock>>
  BY DEF pullPeers
<1>2. /\ \A m \in Node : worker'[n][m].ph \in {"idle", "manifest"}
      /\ \A k \in Node \ {n} : worker'[k] = worker[k]
  BY DEF pullPeers, TypeOK, Idle
<1>3. \A m \in Node : worker[n][m].ph = "idle"
  BY DEF pullPeers
<1> QED
  BY <1>1, <1>2, <1>3, OutsideFaith DEF Written, Unwritten

(* Faithful is inductive, as long as daemons go down in good order.        *)
LEMMA StepFaithful ==
  ASSUME IInv, TypeOK', Faithful, [Next]_vars, [Orderly]_vars
  PROVE  Faithful'
<1>1. TypeOK
  BY DEF IInv
<1>2. CASE UNCHANGED vars
  BY <1>2 DEF vars, Faithful, FaithOf
<1>3. CASE Next /\ Orderly
  <2>1. CASE User
    BY <1>1, <2>1, UserFaithful
  <2>2. CASE Tick
    BY <2>2 DEF Tick, daemonVars, Faithful, FaithOf
  <2>3. ASSUME NEW n \in Node, Reconcile(n) \/ Life(n)
        PROVE  Faithful'
    BY <1>1, <1>3, <2>3, ReconcileFaithful, LifeFaithful
  <2>4. ASSUME NEW n \in Node, NEW S \in SUBSET Node, pullPeers(n, S)
        PROVE  Faithful'
    BY <1>1, <2>4, BatchFaithful
  <2>5. ASSUME NEW n \in Node, NEW m \in Node, Pull(n, m)
        PROVE  Faithful'
    BY <2>5, PullFaithful
  <2> QED
    BY <1>3, <2>1, <2>2, <2>3, <2>4, <2>5 DEF Next
<1> QED
  BY <1>2, <1>3

(* The invariant of Faithful and IInv together, in behaviours whose        *)
(* daemons go down in good order and whose users keep out of commits.      *)
LEMMA FilesInv ==
  (~EditInWindow /\ Spec /\ [][Orderly]_vars) => [](IInv /\ Faithful)
<1>1. Init /\ ~EditInWindow => Faithful
  BY InitFaithful
<1>2. IInv /\ IInv' /\ Faithful /\ [Next]_vars /\ [Orderly]_vars => Faithful'
  <2>1. IInv' => TypeOK'
    BY DEF IInv
  <2> QED
    BY <2>1, StepFaithful
<1> QED
  BY <1>1, <1>2, Invariance, PTL DEF Spec

(* FastPathSound for every instance: the scan fast path, serveEntry and    *)
(* diskUnsynced, which all trust size and mtime, are right to do so as     *)
(* long as users keep out of commits and daemons go down in good order.    *)
THEOREM FastPathIsSound ==
  (~EditInWindow /\ Spec /\ [][Orderly]_vars) => []FastPathSound
<1>1. IInv /\ Faithful => FastPathSound
  BY CalmSound DEF Faithful, FastPathSound, Sound
<1> QED
  BY <1>1, FilesInv, PTL

(* A step of a commit that replaces a file or takes it away leaves a file  *)
(* with its content, or an entry.                                          *)
Retained(n, p) ==
  (pulled'[n][p] /\ disk'[n][p] # disk[n][p] /\ disk[n][p] # NoFile)
    => \/ disk'[n][p] # NoFile /\ disk'[n][p].hash = disk[n][p].hash
       \/ Live(idx[n][p]) /\ idx[n][p].hash = disk[n][p].hash

LEMMA CommitKeeps ==
  ASSUME IInv, Faithful, NEW n \in Node, NEW m \in Node, Commit(n, m)
  PROVE  Retained(n, worker[n][m].cur.path)
<1> DEFINE p == worker[n][m].cur.path
<1> SUFFICES ASSUME disk'[n][p] # disk[n][p], disk[n][p] # NoFile
             PROVE  \/ disk'[n][p] # NoFile /\ disk'[n][p].hash = disk[n][p].hash
                    \/ Live(idx[n][p]) /\ idx[n][p].hash = disk[n][p].hash
  BY DEF Retained
<1> DEFINE u == worker[n][m]
           x == u.cur.entry
           f == disk[n][p]
           e == idx[n][p]
           g == disk'[n][p]
<1>1. TypeOK
  BY DEF IInv
<1>2. /\ lock[n] = m
      /\ CommitEffect(n, m, f, e, g, idx'[n][p], lock'[n], worker'[n][m])
  BY <1>1, CommitShape
<1>3. u.ph \in Unwritten => Live(e) /\ f.hash = e.hash
  BY <1>2, Zenon DEF Faithful, FaithOf, Faith, Same
<1>4. f \in File /\ OnDisk(n, x.mtime) \in Nat
  BY <1>1, WorkerType, ClockType DEF TypeOK, Entry
<1>5. CASE u.ph \in Unwritten
  BY <1>3, <1>5
<1>6. CASE u.ph \notin Unwritten
  <2>1. g = [f EXCEPT !.mtime = OnDisk(n, x.mtime)]
    BY <1>2, <1>6, Zenon DEF CommitEffect, Unwritten
  <2>2. g \in File /\ g.hash = f.hash
    BY <1>4, <2>1, Zenon DEF File
  <2> QED
    BY <2>2, SyncAssumption
<1> QED
  BY <1>5, <1>6, Zenon

(* NoUnscannedLoss for every instance: no peer apply, whatever scans, edits *)
(* and other pulls it interleaves with, replaces or removes a file whose   *)
(* content the index does not hold.                                        *)
THEOREM NothingUnscannedIsLost ==
  (~EditInWindow /\ Spec /\ [][Orderly]_vars) => NoUnscannedLoss
<1>1. ASSUME IInv, Faithful, Next, NEW n \in Node, NEW p \in Path
      PROVE  Retained(n, p)
  <2>1. TypeOK
    BY <1>1 DEF IInv
  <2>2. CASE disk' = disk
    BY <2>2 DEF Retained
  <2>3. CASE User
    <3>1. PICK k \in Node, q \in Path : \E f : Edit(k, q, f)
      BY <2>3, Zenon DEF User, UserWrite, UserChmod, UserRemove
    <3>2. ~pulled'[k][q] /\ (k # n \/ q # p => disk'[n][p] = disk[n][p])
      BY <2>1, <3>1 DEF Edit, TypeOK
    <3> QED
      BY <3>2 DEF Retained
  <2>4. ASSUME NEW k \in Node, NEW m \in Node, Commit(k, m)
        PROVE  Retained(n, p)
    <3>1. CASE k = n /\ p = worker[k][m].cur.path
      BY <1>1, <2>4, <3>1, CommitKeeps
    <3>2. CASE k # n \/ p # worker[k][m].cur.path
      <4>1. CommitLocal(k, m, worker[k][m].cur.path)
        BY <2>1, <2>4, CommitShape
      <4>2. disk'[n][p] = disk[n][p]
        BY <3>2, <4>1 DEF CommitLocal
      <4> QED
        BY <4>2 DEF Retained
    <3> QED
      BY <3>1, <3>2
  <2>5. ASSUME NEW k \in Node, NEW m \in Node, Pull(k, m), ~Commit(k, m)
        PROVE  disk' = disk
    BY <2>1, <2>5, PullKinds
    DEF Outside, Moves, PullDone, Enters, EntersCommit, ApplyTombstone
  <2>6. ASSUME NEW k \in Node, Reconcile(k) \/ Life(k)
        PROVE  disk' = disk
    BY <2>6 DEF Reconcile, ScanWalk, ScanApply, ScanFails, ReconcileSave, Life,
                Stop, ShutdownSave, Drained, Crash, Restart
  <2>7. ASSUME NEW k \in Node, NEW S, pullPeers(k, S)
        PROVE  disk' = disk
    BY <2>7 DEF pullPeers
  <2>8. CASE Tick
    BY <2>2, <2>8 DEF Tick
  <2> QED
    BY <1>1, <2>2, <2>3, <2>4, <2>5, <2>6, <2>7, <2>8 DEF Next
<1>2. IInv /\ Faithful /\ [Next]_vars => [\A n \in Node, p \in Path : Retained(n, p)]_vars
  BY <1>1
<1> QED
  BY <1>2, FilesInv, PTL DEF Spec, NoUnscannedLoss, Retained
=============================================================================
