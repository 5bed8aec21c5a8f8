-------------------------------- MODULE Sync --------------------------------
(***************************************************************************)
(* The synchronisation engine of a group of tailsync daemons: users edit   *)
(* files, each daemon scans its tree into its index (daemon/reconcile.go,  *)
(* internal/scan) and pulls from its peers what wins under LWW             *)
(* (daemon/apply.go, daemon/serve.go).  Files, the in-memory index and the *)
(* saved index are separate; daemons stop, crash and restart.              *)
(*                                                                         *)
(* syncMu serialises scans and commits inside one daemon.  It does not     *)
(* exclude the user, nor the peers this daemon serves, so every system     *)
(* call whose order against theirs matters is a step of its own.           *)
(***************************************************************************)
EXTENDS Index, FiniteSets

CONSTANTS
  Node, Path,
  Content,        \* file contents, numbered in the order of their hashes
  SizeOf,         \* [Content -> Nat], the size of each
  Mode,           \* the permission bits a user may give a file
  DefaultMode,    \* 0o644
  Peers,          \* [Node -> SUBSET Node], whom each node pulls from
  Skew,           \* [Node -> Nat], how far a node's clock runs ahead
  Gran,           \* [Node -> Nat], the mtime granularity of its filesystem
  Second,         \* clock ticks in a second
  TTL,            \* lifetime of deletion markers, 0 to keep them
  SaveEvery,      \* applies between mid-pull saves of the index
  EditInWindow,   \* may a user edit between a commit's stat and its end?
  NoFile,
  MaxNow,         \* bound on the clock, and so on the number of edits
  MaxHalts,       \* bound on stops and crashes
  MaxFaults       \* bound on failed saves, file operations and connections

File == [hash: Content, mode: Nat, mtime: Nat]

ASSUME SyncAssumption ==
  /\ Path # {}
  /\ Content \subseteq Nat \ {0}
  /\ SizeOf \in [Content -> Nat]
  /\ Mode \subseteq Nat
  /\ DefaultMode \in Nat \ {0}
  /\ Peers \in [Node -> SUBSET Node]
  /\ Skew \in [Node -> Nat]
  /\ Gran \in [Node -> Nat \ {0}]
  /\ Second \in Nat \ {0}
  /\ TTL \in Nat
  /\ SaveEvery \in Nat \ {0}
  /\ EditInWindow \in BOOLEAN
  /\ NoFile \notin File
  /\ {"free", "scan", "save"} \cap Node = {}

VARIABLES
  now,      \* real time
  disk,     \* disk[n][p]: the file, or NoFile
  idx,      \* idx[n][p]: the in-memory index
  saved,    \* saved[n][p]: index.json
  status,   \* "starting", "running", "stopping", "draining", "down", "crashed"
  lock,     \* who holds syncMu: "free", "scan", "save" or a pulling worker
  walk,     \* walk[n]: what the walk of a scan in progress has seen
  worker,   \* worker[n][m]: the goroutine of node n that pulls from m
  applies,  \* appliesSinceSave
  pulled,   \* pulled[n][p]: a peer apply was the last to write the file
  halts, faults

vars == <<now, disk, idx, saved, status, lock, walk, worker, applies,
          pulled, halts, faults>>

daemonVars == <<idx, saved, status, lock, walk, worker, applies>>

-----------------------------------------------------------------------------
NoWalk == [at |-> 0, files |-> [p \in Path |-> NoFile]]

Item == [path: Path, entry: Entry]

NoneEntry == [deleted |-> FALSE, hash |-> 0, mode |-> 0, mtime |-> 0,
              updatedAt |-> 0, deletedAt |-> 0]

Phase == {"idle", "manifest", "apply", "fetch", "read", "got",
          "rename", "chtimes", "set", "metaTimes", "metaSet", "remove"}

(* A pull worker: the manifest entries it has still to apply, the one it   *)
(* is applying, how it is being fetched, and whether it has applied any.   *)
Worker == [ph: Phase, todo: SUBSET Item, cur: Item,
           how: {"delta", "full", "last"}, changed: BOOLEAN]

NoItem == [path |-> CHOOSE p \in Path : TRUE, entry |-> NoneEntry]

Idle == [ph |-> "idle", todo |-> {}, cur |-> NoItem, how |-> "last",
         changed |-> FALSE]

TypeOK ==
  /\ now \in Nat
  /\ disk \in [Node -> [Path -> File \cup {NoFile}]]
  /\ idx \in [Node -> [Path -> Entry \cup {NoEntry}]]
  /\ saved \in [Node -> [Path -> Entry \cup {NoEntry}]]
  /\ status \in [Node -> {"starting", "running", "stopping", "draining",
                          "down", "crashed"}]
  /\ lock \in [Node -> {"free", "scan", "save"} \cup Node]
  /\ walk \in [Node -> [at: Nat, files: [Path -> File \cup {NoFile}]]]
  /\ worker \in [Node -> [Node -> Worker]]
  /\ applies \in [Node -> Nat]
  /\ pulled \in [Node -> [Path -> BOOLEAN]]
  /\ halts \in Nat
  /\ faults \in Nat

Init ==
  /\ now = 1
  /\ disk = [n \in Node |-> [p \in Path |-> NoFile]]
  /\ idx = [n \in Node |-> [p \in Path |-> NoEntry]]
  /\ saved = idx
  /\ status = [n \in Node |-> "running"]
  /\ lock = [n \in Node |-> "free"]
  /\ walk = [n \in Node |-> NoWalk]
  /\ worker = [n \in Node |-> [m \in Node |-> Idle]]
  /\ applies = [n \in Node |-> 0]
  /\ pulled = [n \in Node |-> [p \in Path |-> FALSE]]
  /\ halts = 0
  /\ faults = 0

-----------------------------------------------------------------------------
(* Clocks, files and what a stat tells of them.                            *)

(* Two instants to a tick: an edit happens at the first, and a file that a *)
(* commit writes during the tick is younger than the edit.                 *)
Clock(n) == 2 * now + Skew[n]

WriteTime(n) == Clock(n) + 1

(* The timestamp the filesystem keeps of t.                                *)
OnDisk(n, t) == t - (t % Gran[n])

fileMode(mode) == IF mode = 0 THEN DefaultMode ELSE mode

(* Fault: timestamps compared to the last digit.                           *)
mtimesDifferExactly(a, b) == a # b

mtimesDiffer(a, b) == a \div Second # b \div Second

(* Size and mtime match: the test of the scan fast path, of serveEntry and *)
(* of diskUnsynced.                                                        *)
StatMatches(f, e) == SizeOf[f.hash] = SizeOf[e.hash] /\ f.mtime = e.mtime

(* Fault: only files without a live entry count as unscanned.              *)
diskUnsyncedIfNew(n, p) == disk[n][p] # NoFile /\ ~Live(idx[n][p])

(* Fault: files without a live entry do not count as unscanned.            *)
diskUnsyncedIfKnown(n, p) ==
  /\ disk[n][p] # NoFile
  /\ Live(idx[n][p])
  /\ ~StatMatches(disk[n][p], idx[n][p])

diskUnsynced(n, p) ==
  /\ disk[n][p] # NoFile
  /\ Live(idx[n][p]) => ~StatMatches(disk[n][p], idx[n][p])

Fault == faults < MaxFaults /\ faults' = faults + 1

NoFault == UNCHANGED faults

-----------------------------------------------------------------------------
(* The user.  Edits are kept apart by the clock, and an edit's mtime is    *)
(* one that neither the file nor the records of it carry: rewrites that    *)
(* keep size and mtime are documented as undetected.                       *)

InWindow(n) == lock[n] \in Node

Edit(n, p, f) ==
  /\ now < MaxNow
  /\ InWindow(n) => EditInWindow
  /\ disk[n][p] # f
  /\ now' = now + 1
  /\ disk' = [disk EXCEPT ![n][p] = f]
  /\ pulled' = [pulled EXCEPT ![n][p] = FALSE]
  /\ UNCHANGED <<daemonVars, halts, faults>>

FreshTime(n, p, t) ==
  /\ disk[n][p] # NoFile => disk[n][p].mtime # t
  /\ walk[n].files[p] # NoFile => walk[n].files[p].mtime # t
  /\ idx[n][p] # NoEntry => idx[n][p].mtime # t
  /\ saved[n][p] # NoEntry => saved[n][p].mtime # t

UserWrite(n, p, c) ==
  LET t == OnDisk(n, Clock(n) + 2) IN
  /\ FreshTime(n, p, t)
  /\ Edit(n, p, [hash |-> c, mtime |-> t,
                 mode |-> IF disk[n][p] = NoFile THEN DefaultMode
                                                 ELSE disk[n][p].mode])

UserChmod(n, p, mode) ==
  /\ disk[n][p] # NoFile
  /\ Edit(n, p, [disk[n][p] EXCEPT !.mode = mode])

UserRemove(n, p) == Edit(n, p, NoFile)

(* Time passes by itself only where deletion markers age.                  *)
Tick ==
  /\ TTL > 0
  /\ now < MaxNow
  /\ now' = now + 1
  /\ UNCHANGED <<disk, daemonVars, pulled, halts, faults>>

-----------------------------------------------------------------------------
(* reconcile: scan the tree, apply the changes to the index, collect       *)
(* expired deletion markers and save, all under syncMu.  The walk has its  *)
(* file infos before it hashes contents.                                   *)

ScanWalk(n) ==
  /\ status[n] \in {"starting", "running"}
  /\ lock[n] = "free"
  /\ lock' = [lock EXCEPT ![n] = "scan"]
  /\ walk' = [walk EXCEPT ![n] = [at |-> Clock(n), files |-> disk[n]]]
  /\ UNCHANGED <<now, disk, idx, saved, status, worker, applies, pulled,
                 halts, faults>>

(* Fault: a file of the same size is taken for the same file.              *)
FastPathBySize(n, p) ==
  /\ Live(idx[n][p])
  /\ SizeOf[walk[n].files[p].hash] = SizeOf[idx[n][p].hash]

FastPath(n, p) ==
  /\ Live(idx[n][p])
  /\ StatMatches(walk[n].files[p], idx[n][p])
  /\ idx[n][p].hash # 0

MustHash(n, p) == walk[n].files[p] # NoFile /\ ~FastPath(n, p)

(* What the scan makes of p: the entry of the file the walk saw there, or  *)
(* the deletion marker that replaces prev.                                 *)
Scanned(n, p) ==
  LET f    == walk[n].files[p]
      prev == idx[n][p]
      last == IF prev = NoEntry THEN 0 ELSE prev.updatedAt
  IN  IF f = NoFile
        THEN [prev EXCEPT !.deleted = TRUE, !.hash = 0,
                          !.deletedAt = walk[n].at,
                          !.updatedAt = stampUpdatedAt(walk[n].at, 0, last)]
        ELSE [deleted |-> FALSE, mode |-> f.mode, mtime |-> f.mtime,
              hash |-> IF FastPath(n, p) THEN prev.hash ELSE disk[n][p].hash,
              updatedAt |-> stampUpdatedAt(walk[n].at, f.mtime, last),
              deletedAt |-> 0]

(* Fault: deletion markers of missing files count as changes.             *)
ScanChangeMarkers(n, p) ==
  LET f    == walk[n].files[p]
      prev == idx[n][p]
  IN  IF f = NoFile
        THEN prev # NoEntry
        ELSE \/ ~Live(prev)
             \/ MustHash(n, p) /\ disk[n][p].hash # prev.hash
             \/ f.mode # prev.mode
             \/ f.mtime # prev.mtime

ScanChange(n, p) ==
  LET f    == walk[n].files[p]
      prev == idx[n][p]
  IN  IF f = NoFile
        THEN Live(prev)
        ELSE \/ ~Live(prev)
             \/ MustHash(n, p) /\ disk[n][p].hash # prev.hash
             \/ f.mode # prev.mode
             \/ f.mtime # prev.mtime

ScanResult(n) ==
  [p \in Path |-> IF ScanChange(n, p)
                    THEN SetIfWins(idx[n], p, Scanned(n, p))[p]
                    ELSE idx[n][p]]

Started(n) == IF status[n] = "starting" THEN "running" ELSE status[n]

(* Fault: a reconcile whose scan found nothing does not save.              *)
ScanApplyUnsaved(n) ==
  LET applied == ScanResult(n)
      files   == GCTombstones(applied, Clock(n), TTL)
      dirty   == applied # idx[n]
  IN  /\ lock[n] = "scan"
      /\ \A p \in Path : MustHash(n, p) => disk[n][p] # NoFile
      /\ idx' = [idx EXCEPT ![n] = files]
      /\ walk' = [walk EXCEPT ![n] = NoWalk]
      /\ lock' = [lock EXCEPT ![n] = IF dirty THEN "save" ELSE "free"]
      /\ status' = IF dirty THEN status
                            ELSE [status EXCEPT ![n] = Started(n)]
      /\ UNCHANGED <<now, disk, saved, worker, applies, pulled, halts, faults>>

ScanApply(n) ==
  LET applied == ScanResult(n)
      files   == GCTombstones(applied, Clock(n), TTL)
      dirty   == applied # idx[n] \/ files # applied \/ applies[n] > 0
  IN  /\ lock[n] = "scan"
      /\ \A p \in Path : MustHash(n, p) => disk[n][p] # NoFile
      /\ idx' = [idx EXCEPT ![n] = files]
      /\ walk' = [walk EXCEPT ![n] = NoWalk]
      /\ lock' = [lock EXCEPT ![n] = IF dirty THEN "save" ELSE "free"]
      /\ status' = IF dirty THEN status
                            ELSE [status EXCEPT ![n] = Started(n)]
      /\ UNCHANGED <<now, disk, saved, worker, applies, pulled, halts, faults>>

(* A scan that cannot open a file, or whose context is cancelled, changes  *)
(* nothing; the initial one takes the daemon down with it.                 *)
Abandoned(n) == IF status[n] = "starting" THEN "crashed" ELSE status[n]

(* Fault: the error path keeps syncMu locked.                              *)
ScanFailsLocked(n) ==
  /\ lock[n] = "scan"
  /\ \/ status[n] = "stopping"
     \/ \E p \in Path : MustHash(n, p) /\ disk[n][p] = NoFile
  /\ status' = [status EXCEPT ![n] = Abandoned(n)]
  /\ UNCHANGED <<now, disk, idx, saved, lock, walk, worker, applies, pulled,
                 halts, faults>>

ScanFails(n) ==
  /\ lock[n] = "scan"
  /\ \/ status[n] = "stopping"
     \/ \E p \in Path : MustHash(n, p) /\ disk[n][p] = NoFile
  /\ lock' = [lock EXCEPT ![n] = "free"]
  /\ walk' = [walk EXCEPT ![n] = NoWalk]
  /\ status' = [status EXCEPT ![n] = Abandoned(n)]
  /\ UNCHANGED <<now, disk, idx, saved, worker, applies, pulled, halts, faults>>

ReconcileSave(n) ==
  /\ lock[n] = "save"
  /\ lock' = [lock EXCEPT ![n] = "free"]
  /\ \/ /\ saved' = [saved EXCEPT ![n] = idx[n]]
        /\ applies' = [applies EXCEPT ![n] = 0]
        /\ status' = [status EXCEPT ![n] = Started(n)]
        /\ NoFault
     \/ /\ Fault
        /\ status' = [status EXCEPT ![n] = Abandoned(n)]
        /\ UNCHANGED <<saved, applies>>
  /\ UNCHANGED <<now, disk, idx, walk, worker, pulled, halts>>

-----------------------------------------------------------------------------
(* A pull batch: one worker per connected peer, and no new batch before    *)
(* every worker of the last one is back.                                   *)

Serving(m) == status[m] \in {"running", "stopping"}

pullPeers(n, S) ==
  /\ status[n] = "running"
  /\ \A m \in Node : worker[n][m].ph = "idle"
  /\ S # {} /\ S \subseteq {m \in Peers[n] : Serving(m)}
  /\ worker' = [worker EXCEPT ![n] =
                  [m \in Node |-> IF m \in S THEN [Idle EXCEPT !.ph = "manifest"]
                                             ELSE Idle]]
  /\ UNCHANGED <<now, disk, idx, saved, status, lock, walk, applies, pulled,
                 halts, faults>>

Manifest(m) ==
  {[path |-> p, entry |-> idx[m][p]] : p \in {q \in Path : idx[m][q] # NoEntry}}

(* Steps of a worker that leave everything but the worker alone.           *)
Moves(n, m, w) ==
  /\ worker' = [worker EXCEPT ![n][m] = w]
  /\ UNCHANGED <<now, disk, idx, saved, status, lock, walk, applies, pulled,
                 halts>>

fetchManifest(n, m) ==
  /\ worker[n][m].ph = "manifest"
  /\ Serving(m)
  /\ Moves(n, m, [worker[n][m] EXCEPT !.ph = "apply", !.todo = Manifest(m)])
  /\ NoFault

(* The rest of the manifest, after the current entry is done or given up.  *)
NextEntry(w) == [w EXCEPT !.ph = "apply", !.cur = NoItem, !.how = "last"]

Applied(w) == [NextEntry(w) EXCEPT !.changed = TRUE]

(* The stream breaks, because the peer is gone or for another reason: the  *)
(* rest of the manifest is dropped.                                        *)
TransportError(n, m) ==
  /\ worker[n][m].ph \in {"manifest", "fetch", "read"}
  /\ Moves(n, m, [NextEntry(worker[n][m]) EXCEPT !.todo = {}])
  /\ IF Serving(m) /\ status[n] = "running" THEN Fault ELSE NoFault

(* ctx.Err() ends the loop over the manifest before its next entry, and    *)
(* the entry in hand wherever it is looked at outside a commit.            *)
ContextDone(n, m) ==
  LET w == worker[n][m] IN
  /\ status[n] # "running"
  /\ \/ /\ w.ph = "manifest" \/ (w.ph = "apply" /\ w.todo # {})
        /\ Moves(n, m, Idle)
     \/ /\ w.ph = "fetch" \/ (w.ph = "got" /\ lock[n] = "free")
        /\ Moves(n, m, NextEntry(w))
  /\ NoFault

-----------------------------------------------------------------------------
(* applyRemote: decide under syncMu what one remote entry asks for.        *)

decideApply(local, remote, diskPresent) ==
  LET wins == local = NoEntry \/ Wins(local, remote)
      meta == /\ \/ remote.mode # local.mode
                 \/ mtimesDiffer(remote.mtime, local.mtime)
                 \/ remote.updatedAt > local.updatedAt
              /\ wins
  IN  CASE remote.deleted /\ ~Live(local) -> "tombstone"
        [] remote.deleted /\ Live(local)  -> IF wins THEN "delete" ELSE "noop"
        [] ~remote.deleted /\ Live(local) /\ local.hash = remote.hash ->
             IF ~meta THEN "noop" ELSE IF diskPresent THEN "meta" ELSE "content"
        [] OTHER -> IF wins THEN "content" ELSE "noop"

(* A delta needs a live entry to start from, and is not tried to restore a *)
(* file that went missing.                                                 *)
useDelta(local, remote) == Live(local) /\ local.hash # remote.hash

Applying(n, m, x, kind) ==
  /\ worker[n][m].ph = "apply"
  /\ x \in worker[n][m].todo
  /\ status[n] = "running"
  /\ lock[n] = "free"
  /\ decideApply(idx[n][x.path], x.entry, disk[n][x.path] # NoFile) = kind

Took(n, m, x) == [worker[n][m] EXCEPT !.todo = @ \ {x}]

Holding(n, m, x, ph) == [Took(n, m, x) EXCEPT !.ph = ph, !.cur = x]

(* The worker keeps syncMu for the file operations that follow.            *)
EntersCommit(n, m, w) ==
  /\ lock' = [lock EXCEPT ![n] = m]
  /\ worker' = [worker EXCEPT ![n][m] = w]
  /\ UNCHANGED <<now, disk, idx, saved, status, walk, applies, pulled, halts>>

ApplyNoop(n, m, x) ==
  /\ Applying(n, m, x, "noop")
  /\ Moves(n, m, Took(n, m, x))
  /\ NoFault

ApplyTombstone(n, m, x) ==
  LET files == SetIfWins(idx[n], x.path, x.entry)
      won   == files # idx[n]
  IN  /\ Applying(n, m, x, "tombstone")
      /\ idx' = [idx EXCEPT ![n] = files]
      /\ applies' = [applies EXCEPT ![n] = IF won THEN @ + 1 ELSE @]
      /\ worker' = [worker EXCEPT ![n][m] =
                      IF won THEN Applied(Took(n, m, x)) ELSE Took(n, m, x)]
      /\ UNCHANGED <<now, disk, saved, status, lock, walk, pulled, halts>>
      /\ NoFault

ApplyDelete(n, m, x) ==
  /\ Applying(n, m, x, "delete")
  /\ IF diskUnsynced(n, x.path)
       THEN Moves(n, m, Took(n, m, x))
       ELSE EntersCommit(n, m, Holding(n, m, x, "remove"))
  /\ NoFault

ApplyMeta(n, m, x) ==
  /\ Applying(n, m, x, "meta")
  /\ IF diskUnsynced(n, x.path)
       THEN Moves(n, m, Took(n, m, x))
       ELSE EntersCommit(n, m, Holding(n, m, x, "metaTimes"))
  /\ NoFault

ApplyContent(n, m, x) ==
  /\ Applying(n, m, x, "content")
  /\ Moves(n, m, [Holding(n, m, x, "fetch") EXCEPT
                    !.how = IF useDelta(idx[n][x.path], x.entry)
                              THEN "delta" ELSE "last"])
  /\ NoFault

-----------------------------------------------------------------------------
(* pullAndVerify, with syncMu released.  A delta that fails becomes a full *)
(* pull; a hash mismatch is retried as a full pull once if a delta was     *)
(* wanted.  The delta itself is exact, so all that matters of it is when   *)
(* the two files are read.                                                 *)

Refused(w) ==
  IF w.how = "delta" THEN [w EXCEPT !.ph = "fetch", !.how = "full"]
                     ELSE NextEntry(w)

Mismatch(w) ==
  IF w.how = "last" THEN NextEntry(w)
                    ELSE [w EXCEPT !.ph = "fetch", !.how = "last"]

(* The peer's serveEntry: only a live entry whose file has not drifted.    *)
serveEntry(m, p) ==
  /\ Live(idx[m][p])
  /\ disk[m][p] # NoFile
  /\ StatMatches(disk[m][p], idx[m][p])

Request(n, m) ==
  LET w     == worker[n][m]
      p     == w.cur.path
      basis == w.how = "delta" => disk[n][p] # NoFile
  IN  /\ w.ph = "fetch"
      /\ status[n] = "running"
      /\ basis => Serving(m)
      /\ Moves(n, m, IF basis /\ serveEntry(m, p)
                       THEN [w EXCEPT !.ph = "read"] ELSE Refused(w))
      /\ NoFault

(* The peer reads the file it has checked, and this node hashes the bytes. *)
serveFile(n, m) ==
  LET w == worker[n][m]
      f == disk[m][w.cur.path]
  IN  /\ w.ph = "read"
      /\ Serving(m)
      /\ Moves(n, m, IF f = NoFile THEN Refused(w)
                     ELSE IF f.hash # w.cur.entry.hash THEN Mismatch(w)
                     ELSE [w EXCEPT !.ph = "got"])
      /\ NoFault

-----------------------------------------------------------------------------
(* commitContent: re-check under syncMu, replace the file, set its mtime,  *)
(* record what the filesystem reports.                                     *)

(* Fault: no second LWW check after the transfer.                          *)
CommitCheckOnce(n, m) ==
  LET w == worker[n][m] IN
  /\ w.ph = "got"
  /\ lock[n] = "free"
  /\ status[n] = "running"
  /\ IF diskUnsynced(n, w.cur.path)
       THEN Moves(n, m, NextEntry(w))
       ELSE EntersCommit(n, m, [w EXCEPT !.ph = "rename"])
  /\ NoFault

(* Fault: the context is not looked at after the transfer.                 *)
CommitCheckCancelled(n, m) ==
  LET w == worker[n][m]
      p == w.cur.path
  IN  /\ w.ph = "got"
      /\ lock[n] = "free"
      /\ IF (idx[n][p] # NoEntry /\ ~Wins(idx[n][p], w.cur.entry))
              \/ diskUnsynced(n, p)
           THEN Moves(n, m, NextEntry(w))
           ELSE EntersCommit(n, m, [w EXCEPT !.ph = "rename"])
      /\ NoFault

CommitCheck(n, m) ==
  LET w == worker[n][m]
      p == w.cur.path
  IN  /\ w.ph = "got"
      /\ lock[n] = "free"
      /\ status[n] = "running"
      /\ IF (idx[n][p] # NoEntry /\ ~Wins(idx[n][p], w.cur.entry))
              \/ diskUnsynced(n, p)
           THEN Moves(n, m, NextEntry(w))
           ELSE EntersCommit(n, m, [w EXCEPT !.ph = "rename"])
      /\ NoFault

InCommit(n, m, ph) == lock[n] = m /\ worker[n][m].ph = ph

(* A commit that fails half-way reports an error and applies nothing.      *)
CommitFails(n, m) ==
  /\ Fault
  /\ lock' = [lock EXCEPT ![n] = "free"]
  /\ worker' = [worker EXCEPT ![n][m] = NextEntry(@)]
  /\ UNCHANGED <<now, idx, saved, status, walk, applies, halts>>

WriteFile(n, m, p, f) ==
  /\ disk' = [disk EXCEPT ![n][p] = f]
  /\ pulled' = [pulled EXCEPT ![n][p] = TRUE]

CommitRename(n, m) ==
  LET x == worker[n][m].cur IN
  /\ InCommit(n, m, "rename")
  /\ \/ /\ WriteFile(n, m, x.path, [hash |-> x.entry.hash,
                                    mode |-> fileMode(x.entry.mode),
                                    mtime |-> OnDisk(n, WriteTime(n))])
        /\ worker' = [worker EXCEPT ![n][m].ph = "chtimes"]
        /\ UNCHANGED <<now, idx, saved, status, lock, walk, applies, halts>>
        /\ NoFault
     \/ CommitFails(n, m) /\ UNCHANGED <<disk, pulled>>

(* A failed Chtimes is logged; the commit goes on with the mtime on disk.  *)
CommitChtimes(n, m) ==
  LET x == worker[n][m].cur IN
  /\ InCommit(n, m, "chtimes")
  /\ worker' = [worker EXCEPT ![n][m].ph = "set"]
  /\ UNCHANGED <<now, idx, saved, status, lock, walk, applies, halts>>
  /\ \/ /\ disk[n][x.path] # NoFile
        /\ WriteFile(n, m, x.path, [disk[n][x.path] EXCEPT
                                      !.mtime = OnDisk(n, x.entry.mtime)])
        /\ NoFault
     \/ /\ IF disk[n][x.path] = NoFile THEN NoFault ELSE Fault
        /\ UNCHANGED <<disk, pulled>>

(* Fault: the entry gets the mtime that was asked for.                     *)
diskMetaWanted(n, x) == [mode |-> fileMode(x.entry.mode), mtime |-> x.entry.mtime]

(* diskMeta: the mode and mtime of the file as it is now.                  *)
diskMeta(n, x) ==
  LET f == disk[n][x.path] IN
  IF f = NoFile
    THEN [mode |-> fileMode(x.entry.mode), mtime |-> x.entry.mtime]
    ELSE [mode |-> IF f.mode = 0 THEN fileMode(x.entry.mode) ELSE f.mode,
          mtime |-> f.mtime]

(* maybeSaveLocked after an apply: a save every SaveEvery applies, and a   *)
(* failed one is left for the next.                                        *)
maybeSaveLocked(n, files) ==
  IF applies[n] + 1 < SaveEvery
    THEN /\ applies' = [applies EXCEPT ![n] = @ + 1]
         /\ NoFault
         /\ UNCHANGED saved
    ELSE \/ /\ applies' = [applies EXCEPT ![n] = 0]
            /\ saved' = [saved EXCEPT ![n] = files]
            /\ NoFault
         \/ /\ applies' = [applies EXCEPT ![n] = @ + 1]
            /\ Fault
            /\ UNCHANGED saved

EndsCommit(n, m, files) ==
  /\ idx' = [idx EXCEPT ![n] = files]
  /\ lock' = [lock EXCEPT ![n] = "free"]
  /\ worker' = [worker EXCEPT ![n][m] = Applied(@)]
  /\ UNCHANGED <<now, status, walk, halts>>

CommitSet(n, m) ==
  LET x     == worker[n][m].cur
      meta  == diskMeta(n, x)
      entry == [x.entry EXCEPT !.mode = meta.mode, !.mtime = meta.mtime]
      files == [idx[n] EXCEPT ![x.path] = entry]
  IN  /\ InCommit(n, m, "set")
      /\ EndsCommit(n, m, files)
      /\ maybeSaveLocked(n, files)
      /\ UNCHANGED <<disk, pulled>>

(* execDeleteLive after its checks.                                        *)
CommitRemove(n, m) ==
  LET x     == worker[n][m].cur
      files == SetIfWins(idx[n], x.path, x.entry)
  IN  /\ InCommit(n, m, "remove")
      /\ \/ /\ WriteFile(n, m, x.path, NoFile)
            /\ EndsCommit(n, m, files)
            /\ maybeSaveLocked(n, files)
         \/ CommitFails(n, m) /\ UNCHANGED <<disk, pulled>>

(* execMetaOnly after its check: Chtimes, then Chmod with a rollback when  *)
(* it fails, then the observed metadata under the remote's UpdatedAt.      *)
MetaTimes(n, m) ==
  LET x == worker[n][m].cur IN
  /\ InCommit(n, m, "metaTimes")
  /\ \/ /\ disk[n][x.path] # NoFile
        /\ WriteFile(n, m, x.path, [disk[n][x.path] EXCEPT
                                      !.mtime = OnDisk(n, x.entry.mtime)])
        /\ worker' = [worker EXCEPT ![n][m].ph = "metaSet"]
        /\ UNCHANGED <<now, idx, saved, status, lock, walk, applies, halts>>
        /\ NoFault
     \/ CommitFails(n, m) /\ UNCHANGED <<disk, pulled>>

MetaSet(n, m) ==
  LET x     == worker[n][m].cur
      local == idx[n][x.path]
      f     == disk[n][x.path]
      entry == [local EXCEPT !.updatedAt = x.entry.updatedAt,
                             !.mode = fileMode(x.entry.mode),
                             !.mtime = f.mtime]
  IN  /\ InCommit(n, m, "metaSet")
      /\ \/ /\ f # NoFile
            /\ WriteFile(n, m, x.path, [f EXCEPT !.mode = fileMode(x.entry.mode)])
            /\ EndsCommit(n, m, [idx[n] EXCEPT ![x.path] = entry])
            /\ applies' = [applies EXCEPT ![n] = @ + 1]
            /\ UNCHANGED saved
            /\ NoFault
         \/ /\ CommitFails(n, m)
            /\ IF f = NoFile
                 THEN UNCHANGED <<disk, pulled>>
                 ELSE WriteFile(n, m, x.path,
                                [f EXCEPT !.mode = fileMode(local.mode),
                                          !.mtime = OnDisk(n, local.mtime)])

(* Fault: the final save takes one apply off the count.                    *)
PullDoneCountsDown(n, m) ==
  LET w == worker[n][m] IN
  /\ w.ph = "apply"
  /\ w.todo = {}
  /\ w.changed => lock[n] = "free"
  /\ worker' = [worker EXCEPT ![n][m] = Idle]
  /\ saved' = [saved EXCEPT ![n] = IF w.changed THEN idx[n] ELSE @]
  /\ applies' = [applies EXCEPT ![n] = IF w.changed THEN @ - 1 ELSE @]
  /\ NoFault
  /\ UNCHANGED <<now, disk, idx, status, lock, walk, pulled, halts>>

(* The end of pullFromSession: a pull that applied something saves.        *)
PullDone(n, m) ==
  LET w == worker[n][m] IN
  /\ w.ph = "apply"
  /\ w.todo = {}
  /\ w.changed => lock[n] = "free"
  /\ worker' = [worker EXCEPT ![n][m] = Idle]
  /\ \/ /\ saved' = [saved EXCEPT ![n] = IF w.changed THEN idx[n] ELSE @]
        /\ applies' = [applies EXCEPT ![n] = IF w.changed THEN 0 ELSE @]
        /\ NoFault
     \/ /\ w.changed
        /\ Fault
        /\ UNCHANGED <<saved, applies>>
  /\ UNCHANGED <<now, disk, idx, status, lock, walk, pulled, halts>>

-----------------------------------------------------------------------------
(* The life of a daemon: Run cancelled, its final save and the wait for    *)
(* its workers; a crash at any point; the next start, which reads the      *)
(* saved index and scans before it talks to anyone.                        *)

Stop(n) ==
  /\ halts < MaxHalts
  /\ status[n] = "running"
  /\ status' = [status EXCEPT ![n] = "stopping"]
  /\ halts' = halts + 1
  /\ UNCHANGED <<now, disk, idx, saved, lock, walk, worker, applies, pulled,
                 faults>>

ShutdownSave(n) ==
  /\ status[n] = "stopping"
  /\ lock[n] = "free"
  /\ status' = [status EXCEPT ![n] = "draining"]
  /\ \/ saved' = [saved EXCEPT ![n] = idx[n]] /\ NoFault
     \/ UNCHANGED saved /\ Fault
  /\ UNCHANGED <<now, disk, idx, lock, walk, worker, applies, pulled, halts>>

Drained(n) ==
  /\ status[n] = "draining"
  /\ \A m \in Node : worker[n][m].ph = "idle"
  /\ status' = [status EXCEPT ![n] = "down"]
  /\ UNCHANGED <<now, disk, idx, saved, lock, walk, worker, applies, pulled,
                 halts, faults>>

Crash(n) ==
  /\ halts < MaxHalts
  /\ status[n] \notin {"down", "crashed"}
  /\ status' = [status EXCEPT ![n] = "crashed"]
  /\ lock' = [lock EXCEPT ![n] = "free"]
  /\ walk' = [walk EXCEPT ![n] = NoWalk]
  /\ worker' = [worker EXCEPT ![n] = [m \in Node |-> Idle]]
  /\ halts' = halts + 1
  /\ UNCHANGED <<now, disk, idx, saved, applies, pulled, faults>>

Restart(n) ==
  /\ status[n] \in {"down", "crashed"}
  /\ status' = [status EXCEPT ![n] = "starting"]
  /\ idx' = [idx EXCEPT ![n] = saved[n]]
  /\ applies' = [applies EXCEPT ![n] = 0]
  /\ UNCHANGED <<now, disk, saved, lock, walk, worker, pulled, halts, faults>>

-----------------------------------------------------------------------------
User ==
  \E n \in Node, p \in Path :
    \/ \E c \in Content : UserWrite(n, p, c)
    \/ \E mode \in Mode : UserChmod(n, p, mode)
    \/ UserRemove(n, p)

Reconcile(n) ==
  ScanWalk(n) \/ ScanApply(n) \/ ScanFails(n) \/ ReconcileSave(n)

Apply(n, m) ==
  \E x \in worker[n][m].todo :
    \/ ApplyNoop(n, m, x)
    \/ ApplyTombstone(n, m, x)
    \/ ApplyDelete(n, m, x)
    \/ ApplyMeta(n, m, x)
    \/ ApplyContent(n, m, x)

Commit(n, m) ==
  \/ CommitRename(n, m)
  \/ CommitChtimes(n, m)
  \/ CommitSet(n, m)
  \/ CommitRemove(n, m)
  \/ MetaTimes(n, m)
  \/ MetaSet(n, m)

Pull(n, m) ==
  \/ fetchManifest(n, m)
  \/ TransportError(n, m)
  \/ ContextDone(n, m)
  \/ Apply(n, m)
  \/ Request(n, m)
  \/ serveFile(n, m)
  \/ CommitCheck(n, m)
  \/ Commit(n, m)
  \/ PullDone(n, m)

Life(n) ==
  Stop(n) \/ ShutdownSave(n) \/ Drained(n) \/ Crash(n) \/ Restart(n)

Next ==
  \/ User
  \/ Tick
  \/ \E n \in Node : Reconcile(n) \/ Life(n)
  \/ \E n \in Node, S \in SUBSET Node : pullPeers(n, S)
  \/ \E n, m \in Node : Pull(n, m)

Spec == Init /\ [][Next]_vars

(* The main loop's tickers keep asking for reconciles and pulls and a      *)
(* daemon that went down is started again.  syncMu is a sync.Mutex, which  *)
(* hands itself to a waiter that has waited long enough: a pull is not     *)
(* kept out by reconciles for ever.  Nothing is assumed of the user, of    *)
(* faults or of halts.                                                     *)
Fairness ==
  /\ \A n \in Node : /\ WF_vars(Reconcile(n))
                      /\ WF_vars(ShutdownSave(n) \/ Drained(n) \/ Restart(n))
                      /\ SF_vars(pullPeers(n, Peers[n]))
  /\ \A n \in Node : \A m \in Peers[n] : SF_vars(Pull(n, m))

FairSpec == Spec /\ Fairness

-----------------------------------------------------------------------------
(* Properties *)

(* Peer applies never destroy a file the index does not know: whenever a   *)
(* daemon replaces or removes a file, the index holds the content that     *)
(* goes away (diskUnsynced and its callers in apply.go).                   *)
NoUnscannedLoss ==
  [][\A n \in Node, p \in Path :
       (pulled'[n][p] /\ disk'[n][p] # disk[n][p] /\ disk[n][p] # NoFile)
         => \/ disk'[n][p] # NoFile /\ disk'[n][p].hash = disk[n][p].hash
            \/ Live(idx[n][p]) /\ idx[n][p].hash = disk[n][p].hash]_vars

(* A scan never re-stamps what a peer apply wrote: the bytes keep the      *)
(* UpdatedAt they came with (the comment in commitContent calls the        *)
(* opposite an LWW inversion).                                             *)
NoPromotion ==
  [][\A n \in Node, p \in Path :
       (lock[n] = "scan" /\ idx'[n][p] # idx[n][p] /\ idx'[n][p] # NoEntry)
         => ~pulled[n][p]]_vars

(* A file that looks like its index entry (size and mtime) has its         *)
(* content: the scan fast path and serveEntry do not lie.                  *)
FastPathSound ==
  \A n \in Node, p \in Path :
    (/\ lock[n] \notin Node
     /\ disk[n][p] # NoFile
     /\ Live(idx[n][p])
     /\ StatMatches(disk[n][p], idx[n][p]))
      => disk[n][p].hash = idx[n][p].hash

(* Whatever scans, commits and late answers interleave, the version a      *)
(* running daemon records of a path never goes back in the LWW order.      *)
VersionNeverRegresses ==
  [][\A n \in Node, p \in Path :
       (/\ status[n] \notin {"down", "crashed"}
        /\ idx[n][p] # NoEntry
        /\ idx'[n][p] # NoEntry)
         => VersionBelow(idx[n][p], idx'[n][p])]_vars

(* What worker w of peer m may count on: syncMu is its own, and the entry  *)
(* it replaces loses to the peer's, or has the same content when only the  *)
(* metadata is taken over.                                                 *)
Entitled(m, w, holder, files) ==
  LET local == files[w.cur.path]
      e     == w.cur.entry
  IN  /\ w.ph \in {"rename", "chtimes", "set", "remove"} =>
           /\ holder = m
           /\ local = NoEntry \/ Wins(local, e)
      /\ w.ph \in {"metaTimes", "metaSet"} =>
           /\ holder = m
           /\ Live(local)
           /\ local.hash = e.hash
           /\ local.updatedAt <= e.updatedAt

(* From the check that starts a commit to its last step, what the commit   *)
(* was decided on stays true (applyRemote and commitContent check once     *)
(* under syncMu, then make several system calls).                          *)
CommitBasis ==
  \A n, m \in Node : Entitled(m, worker[n][m], lock[n], idx[n])

InFlight(p) ==
  UNION {{x.entry : x \in {y \in worker[n][m].todo \cup {worker[n][m].cur} :
                             y.path = p /\ y.entry # NoneEntry}} :
         n, m \in Node}

(* As long as nothing crashes and deletion markers are kept, a version a   *)
(* pull has been promised is never newer than every index: the newest      *)
(* write of a path is not lost between decide, transfer and commit.        *)
NewestSurvives ==
  (TTL = 0 /\ halts = 0) =>
    \A p \in Path : \A e \in InFlight(p) :
      \E n \in Node : idx[n][p] # NoEntry /\ VersionBelow(e, idx[n][p])

(* A daemon that was stopped has everything it applied in index.json: no   *)
(* worker commits after the save at the end of Run.                        *)
GracefulStopDurable ==
  \A n \in Node :
    (status[n] = "down" /\ faults = 0) => saved[n] = idx[n]

(* appliesSinceSave accounts for every difference between the index and    *)
(* index.json, so the next reconcile saves it.                             *)
UnsavedIsCounted ==
  \A n \in Node :
    (/\ status[n] \in {"running", "stopping"}
     /\ lock[n] # "save"
     /\ faults = 0
     /\ saved[n] # idx[n]) => applies[n] > 0

SameFile(f, g) ==
  \/ f = NoFile /\ g = NoFile
  \/ /\ f # NoFile
     /\ g # NoFile
     /\ f.hash = g.hash
     /\ f.mode = g.mode
     /\ ~mtimesDiffer(f.mtime, g.mtime)

(* Two nodes have the same file, and each index agrees with its disk.      *)
Agreed(n, m, p) ==
  /\ SameFile(disk[n][p], disk[m][p])
  /\ Live(idx[n][p]) <=> disk[n][p] # NoFile
  /\ Live(idx[n][p]) => idx[n][p].hash = disk[n][p].hash

(* Once users stop editing, all nodes end up with the same files.          *)
Convergence == <>[](\A n, m \in Node, p \in Path : Agreed(n, m, p))

(* The index has the file as a stat shows it: a scan has nothing to add.   *)
Recorded(n, p) ==
  IF disk[n][p] = NoFile
    THEN ~Live(idx[n][p])
    ELSE /\ Live(idx[n][p])
         /\ StatMatches(disk[n][p], idx[n][p])
         /\ idx[n][p].hash # 0
         /\ disk[n][p].mode = idx[n][p].mode

(* applyRemote makes nothing of the entry e of a peer.                     *)
Spurned(n, p, e) ==
  LET kind == decideApply(idx[n][p], e, disk[n][p] # NoFile) IN
  kind = "noop" \/ (kind = "tombstone" /\ SetIfWins(idx[n], p, e) = idx[n])

(* Scans and pulls go on and have nothing to do: every file is recorded,   *)
(* no marker is due, no entry of a peer is wanted, and what is under way   *)
(* has seen files and indexes as they are.                                 *)
AtRest ==
  \A n \in Node :
    /\ status[n] = "running"
    /\ lock[n] \notin Node
    /\ lock[n] = "scan" => walk[n].files = disk[n]
    /\ \A p \in Path : Recorded(n, p) /\ ~Expired(idx[n][p], Clock(n), TTL)
    /\ \A m \in Node :
         /\ worker[n][m].ph \in {"idle", "manifest", "apply"}
         /\ worker[n][m].ph # "idle" => m \in Peers[n]
         /\ worker[n][m].todo \subseteq Manifest(m)
    /\ \A m \in Peers[n], p \in Path :
         idx[m][p] # NoEntry => Spurned(n, p, idx[m][p])

(* Nobody is satisfied too early: when scans and pulls find nothing to do, *)
(* nodes that pull from each other have the same files.                    *)
RestIsAgreement ==
  AtRest => \A n, m \in Node, p \in Path :
              (m \in Peers[n] /\ n \in Peers[m]) => Agreed(n, m, p)

(* ... and that is for good: until a user edits, time passes or a daemon   *)
(* halts, no scan re-stamps and no pull re-applies anything.               *)
RestLasts ==
  [][(AtRest /\ now' = now /\ halts' = halts)
       => (AtRest' /\ UNCHANGED <<disk, idx>>)]_vars

(* Once users stop editing, nodes come to rest: their pulls find nothing   *)
(* left to apply, so nobody re-notifies.                                   *)
ComesToRest == <>[]AtRest

(* Deletion markers go away once they are older than the TTL (README:      *)
(* "Deletion markers expire after 30 days by default").                    *)
TombstonesExpire ==
  \A n \in Node, p \in Path :
    (now = MaxNow /\ Expired(idx[n][p], Clock(n), TTL))
      ~> []~Tombstone(idx[n][p])
=============================================================================
