---------------------------- MODULE SidecarStore ----------------------------
(***************************************************************************)
(* The annotation sidecar <document>.tynypdf.json and the processes that   *)
(* share it: reading (reader.cc), staleness (stale.cc), the write that     *)
(* goes through a temporary file (writer.cc) and the lock file             *)
(* (sidecar_lock.cc).  One action is one system call or one run of calls   *)
(* between which nothing another process does can matter.                  *)
(*                                                                         *)
(* The file system is external: names lead to inodes, an inode keeps its   *)
(* data over a power loss once it was flushed, and a rename is kept only   *)
(* once the directory reached the disk (the code never flushes it).        *)
(***************************************************************************)
EXTENDS Naturals, FiniteSets

CONSTANTS Procs,     \* processes that open the document
          Annots,    \* annotations a caller may put in the sidecar
          Edited,    \* the ones with a "modified" member, a date in quotes
          Keys,      \* keys the application does not know
          Tops,      \* the ones beside "unknown", not inside it
          Excluded,  \* the ones R6 forbids
          Docs,      \* states of the document: [pages, sum, time]
          Found,     \* sidecars that may lie there at first
          Room,      \* pieces the 8192-byte buffer holds (json_buf)
          Inodes,    \* bound: files alive at once
          MaxDraws,  \* bound: writes of one process's life
          MaxCrashes \* bound: crashes and power losses

ASSUME StoreAssumption ==
    /\ IsFiniteSet(Annots) /\ IsFiniteSet(Keys)
    /\ Edited \subseteq Annots /\ Tops \subseteq Keys
    /\ Excluded \subseteq Keys /\ Room \in Nat
    /\ Inodes \subseteq Nat \ {0} /\ MaxDraws \in Nat /\ MaxCrashes \in Nat

VARIABLES
    doc,      \* the document as it is on disk
    file,     \* inode -> content
    flushed,  \* inodes whose data would survive a power loss
    temps,    \* temporary name -> inode, 0 when there is none
    target,   \* inode of <document>.tynypdf.json, 0 when there is none
    possible, \* what target may be after a power loss
    lock,     \* <document>.tynypdf.lock: "none", "fresh" or "old"
    mem,      \* process -> the pc_sidecar it holds, or None; against (history):
              \* the fingerprint its last check computed, "" when it could not
    seen,     \* history: process -> the unknown keys of the file it last read
    stage,    \* process -> where its pc_sidecar_write is
    forced,   \* history: processes whose write in progress overrides staleness
    drawn,    \* process -> numbers its rand() has given
    fd,       \* process -> inode its temporary file's descriptor leads to
    mixed,    \* inodes two writers had under one name at the same time
    crashes   \* crashes and power losses so far

fsvars == <<file, flushed, temps, target, possible, mixed>>
memvars == <<mem, seen>>
vars == <<doc, lock, stage, forced, drawn, fd, crashes, fsvars, memvars>>

None == [ver |-> 0]
Empty == [ver |-> 0, cut |-> FALSE]  \* the bytes of a file just truncated
Torn == [ver |-> 0, cut |-> TRUE]    \* bytes of an unfinished or mixed write

\* What a file may record of a document: a member that is missing reads as 0 or
\* as "", a number cut short as a smaller one, a fingerprint cut short as one that
\* no document has.
Records == [pages : UNION {0..d.pages : d \in Docs},
            sum : {d.sum : d \in Docs} \union {""},
            time : UNION {0..d.time : d \in Docs}]

Sidecars == [ver : {1, 2}, annots : SUBSET Annots, keys : SUBSET Keys, rec : Records]

\* What another program left is a sidecar, and no fingerprint is empty.
ASSUME ContentAssumption ==
    /\ Found \subseteq Sidecars
    /\ Docs \subseteq [pages : Nat, sum : STRING \ {""}, time : Nat]

Names == 1..MaxDraws

\* The inodes something leads to, and the lowest of the others.
Alive == {target} \union possible \union {temps[n] : n \in Names}
             \union {fd[q] : q \in Procs}
Free == {i \in Inodes \ Alive : \A j \in Inodes \ Alive : i <= j}

-----------------------------------------------------------------------------
(* Reading, staleness and the serializer.                                  *)

\* What a check may fail to read of the document: its page count, its bytes, its time.
Readable == {"pages", "sum", "time"}

\* pages first, then the fingerprint, then a strictly newer time; what could not be
\* read is passed over, and a time that could not be read is 0.
Staleness(rec, d, readable) ==
    IF "pages" \in readable /\ rec.pages > 0 /\ rec.pages # d.pages THEN "pages"
    ELSE IF "sum" \in readable /\ rec.sum # d.sum THEN "fingerprint"
    ELSE IF "time" \in readable /\ d.time > rec.time THEN "time" ELSE "none"

\* The fingerprint a check has to compare with.
Against(d, readable) == IF "sum" \in readable THEN d.sum ELSE ""

\* Fault: a check that cannot count the pages ends there.
ChecksEnding(rec, d) ==
    {[stale |-> IF "pages" \in readable THEN Staleness(rec, d, readable) ELSE "none",
      against |-> Against(d, readable)] : readable \in SUBSET Readable}

Checks(rec, d) ==
    {[stale |-> Staleness(rec, d, readable), against |-> Against(d, readable)] :
        readable \in SUBSET Readable}

\* What the reader makes of a content.  It looks for each member by its name
\* and nothing is refused: of a cut or a mixed file any members may be found,
\* whole or cut short.  Keys beside "unknown" are never looked for, and the
\* first "modified" of the file is an edited annotation's, no number.
Readings(c) ==
    IF c \in Sidecars THEN
        {[c EXCEPT !.keys = @ \ Tops,
                   !.rec.time = IF c.annots \intersect Edited = {} THEN @ ELSE 0]}
    ELSE IF c = Torn THEN
        [ver : {1}, annots : SUBSET Annots, keys : SUBSET (Keys \ (Tops \union Excluded)), rec : Records]
    ELSE {[ver |-> 1, annots |-> {}, keys |-> {},
           rec |-> [pages |-> 0, sum |-> "", time |-> 0]]}

\* Fault: the unknown object is written empty.
SerializedKnown(s) ==
    [ver |-> s.ver, annots |-> s.annots, keys |-> {}, rec |-> s.rec]

\* The pieces in the order they are appended: the annotations, which are
\* skipped whole when they do not fit; time, pages, fingerprint and version,
\* the first of which that does not fit fills the buffer with its name; the
\* unknown keys.
Serialized(s) ==
    LET annots == IF Cardinality(s.annots) <= Room THEN s.annots ELSE {}
        Fit(n) == Cardinality(annots) + n <= Room
    IN  [ver |-> s.ver, annots |-> annots,
         keys |-> IF Fit(4 + Cardinality(s.keys)) THEN s.keys ELSE {},
         rec |-> [pages |-> IF Fit(2) THEN s.rec.pages ELSE 0,
                  sum |-> IF Fit(3) THEN s.rec.sum ELSE "",
                  time |-> IF Fit(1) THEN s.rec.time ELSE 0]]

-----------------------------------------------------------------------------
(* The caller's own steps.                                                 *)

\* Beside the document there is no sidecar or one left by another program,
\* whose format may be of a later version.
StoreInit ==
    /\ doc \in Docs /\ \A d \in Docs : doc.time <= d.time
    /\ \/ target = 0 /\ file = [i \in Inodes |-> Empty]
       \/ /\ target \in {i \in Inodes : \A j \in Inodes : i <= j}
          /\ \E s \in Found : file = [i \in Inodes |-> IF i = target THEN s ELSE Empty]
    /\ flushed = Inodes /\ temps = [n \in Names |-> 0]
    /\ possible = {target} /\ mixed = {}
    /\ lock = "none"
    /\ mem = [p \in Procs |-> None] /\ seen = [p \in Procs |-> {}]
    /\ stage = [p \in Procs |-> "idle"] /\ forced = {}
    /\ drawn = [p \in Procs |-> 0] /\ fd = [p \in Procs |-> 0]
    /\ crashes = 0

\* The caller fills a pc_sidecar from the document as it is; it knows no
\* unknown keys.
Create(p) ==
    /\ stage[p] = "idle" /\ mem[p] = None
    /\ mem' = [mem EXCEPT ![p] = [ver |-> 1, annots |-> {}, keys |-> {}, rec |-> doc,
                                  stale |-> "none", against |-> doc.sum]]
    /\ seen' = [seen EXCEPT ![p] = {}]
    /\ UNCHANGED <<doc, lock, stage, forced, drawn, fd, crashes, fsvars>>

\* The caller annotates; a deletion is a tombstone, so the list only grows.
Annotate(p, a) ==
    /\ stage[p] = "idle" /\ mem[p] # None /\ a \notin mem[p].annots
    /\ mem' = [mem EXCEPT ![p].annots = @ \union {a}]
    /\ UNCHANGED <<doc, seen, lock, stage, forced, drawn, fd, crashes, fsvars>>

\* A later version is not checked.
FirstChecks(s) ==
    IF s.ver > 1 THEN {[stale |-> "none", against |-> ""]} ELSE Checks(s.rec, doc)

Held(s, c) == [ver |-> s.ver, annots |-> s.annots, keys |-> s.keys, rec |-> s.rec,
               stale |-> c.stale, against |-> c.against]

ReadFile(p) ==
    /\ stage[p] = "idle" /\ target # 0
    /\ \E s \in Readings(file[target]) : \E c \in FirstChecks(s) :
           mem' = [mem EXCEPT ![p] = Held(s, c)]
    /\ seen' = [seen EXCEPT ![p] =
                   IF file[target] \in Sidecars THEN file[target].keys ELSE {}]
    /\ UNCHANGED <<doc, lock, stage, forced, drawn, fd, crashes, fsvars>>

CheckStale(p) ==
    /\ stage[p] = "idle" /\ mem[p] # None
    /\ \E c \in Checks(mem[p].rec, doc) :
           mem' = [mem EXCEPT ![p].stale = c.stale, ![p].against = c.against]
    /\ UNCHANGED <<doc, seen, lock, stage, forced, drawn, fd, crashes, fsvars>>

-----------------------------------------------------------------------------
(* pc_sidecar_write, step by step.  stage[p] names what it does next.      *)

Goto(p, s) == stage' = [stage EXCEPT ![p] = s]

\* After the lock the keys are searched for an excluded name.
AfterLock(p) == IF mem[p].keys \intersect Excluded = {} THEN "open" ELSE "idle"

\* A later version is read-only, a stale sidecar needs force; then the
\* lock file is looked for.
WriteStart(p, force) ==
    /\ stage[p] = "idle" /\ mem[p] # None
    /\ mem[p].ver <= 1
    /\ force \/ mem[p].stale = "none"
    /\ drawn[p] < MaxDraws
    /\ Goto(p, IF lock = "none" THEN AfterLock(p) ELSE "age")
    /\ forced' = IF mem[p].stale = "none" THEN forced \ {p} ELSE forced \union {p}
    /\ UNCHANGED <<doc, lock, drawn, fd, crashes, fsvars, memvars>>

\* A lock gone meanwhile has time 0, so it counts as old.
LockAge(p) ==
    /\ stage[p] = "age"
    /\ Goto(p, IF lock = "fresh" THEN "idle" ELSE "unlink")
    /\ UNCHANGED <<doc, lock, forced, drawn, fd, crashes, fsvars, memvars>>

UnlinkLock(p) ==
    /\ stage[p] = "unlink"
    /\ lock' = "none"
    /\ Goto(p, AfterLock(p))
    /\ UNCHANGED <<doc, forced, drawn, fd, crashes, fsvars, memvars>>

\* rand() is never seeded: the n-th name is the same in every process.
Name(p) == drawn[p]
Writing(p) == stage[p] \in {"write", "sync", "rename", "discard"}

OpenTemp(p) ==
    /\ stage[p] = "open" /\ drawn[p] < MaxDraws
    /\ drawn' = [drawn EXCEPT ![p] = @ + 1]
    /\ LET n == drawn'[p] IN
       \E i \in IF temps[n] # 0 THEN {temps[n]} ELSE Free :
           /\ temps' = [temps EXCEPT ![n] = i]
           /\ file' = [file EXCEPT ![i] = Empty]
           /\ flushed' = flushed \ {i}
           /\ fd' = [fd EXCEPT ![p] = i]
           /\ mixed' = IF \E q \in Procs \ {p} : Writing(q) /\ Name(q) = n
                       THEN mixed \union {i} ELSE mixed \ {i}
    /\ Goto(p, "write")
    /\ UNCHANGED <<doc, lock, forced, target, possible, crashes, memvars>>

OpenFails(p) ==
    /\ stage[p] = "open" /\ drawn[p] < MaxDraws
    /\ drawn' = [drawn EXCEPT ![p] = @ + 1]
    /\ Goto(p, "idle")
    /\ UNCHANGED <<doc, lock, forced, fd, crashes, fsvars, memvars>>

\* Over the bytes of another writer the result may be a mixture.
WriteTemp(p) ==
    /\ stage[p] = "write"
    /\ LET s == Serialized(mem[p]) IN
       \E c \in IF file[fd[p]] \in {Empty, s} THEN {s} ELSE {s, Torn} :
           file' = [file EXCEPT ![fd[p]] = c]
    /\ flushed' = flushed \ {fd[p]}
    /\ Goto(p, "sync")
    /\ UNCHANGED <<doc, lock, forced, drawn, fd, temps, target, possible, mixed, crashes, memvars>>

WriteFails(p) ==
    /\ stage[p] = "write"
    /\ file' = [file EXCEPT ![fd[p]] = Torn]
    /\ flushed' = flushed \ {fd[p]}
    /\ Goto(p, "discard")
    /\ UNCHANGED <<doc, lock, forced, drawn, fd, temps, target, possible, mixed, crashes, memvars>>

\* Fault: closed without a flush.
SyncTempSkipped(p) ==
    /\ stage[p] = "sync"
    /\ fd' = [fd EXCEPT ![p] = 0]
    /\ Goto(p, "rename")
    /\ UNCHANGED <<doc, lock, forced, drawn, crashes, fsvars, memvars>>

SyncTemp(p) ==
    /\ stage[p] = "sync"
    /\ flushed' = flushed \union {fd[p]}
    /\ fd' = [fd EXCEPT ![p] = 0]
    /\ Goto(p, "rename")
    /\ UNCHANGED <<doc, lock, forced, drawn, file, temps, target, possible, mixed, crashes, memvars>>

SyncFails(p) ==
    /\ stage[p] = "sync"
    /\ Goto(p, "discard")
    /\ UNCHANGED <<doc, lock, forced, drawn, fd, crashes, fsvars, memvars>>

\* By name: what is renamed is the inode the name leads to now.
RenameTemp(p) ==
    /\ stage[p] = "rename" /\ temps[Name(p)] # 0
    /\ target' = temps[Name(p)]
    /\ possible' = possible \union {target'}
    /\ temps' = [temps EXCEPT ![Name(p)] = 0]
    /\ Goto(p, "idle")
    /\ UNCHANGED <<doc, lock, forced, drawn, fd, file, flushed, mixed, crashes, memvars>>

\* Fault: the name is left behind.
RenameFailsLitter(p) ==
    /\ stage[p] = "rename"
    /\ Goto(p, "idle")
    /\ UNCHANGED <<doc, lock, forced, drawn, fd, crashes, fsvars, memvars>>

RenameFails(p) ==
    /\ stage[p] = "rename"
    /\ Goto(p, "discard")
    /\ UNCHANGED <<doc, lock, forced, drawn, fd, crashes, fsvars, memvars>>

\* Every failure after the open closes the file and unlinks its name.
Discard(p) ==
    /\ stage[p] = "discard"
    /\ fd' = [fd EXCEPT ![p] = 0]
    /\ temps' = [temps EXCEPT ![Name(p)] = 0]
    /\ Goto(p, "idle")
    /\ UNCHANGED <<doc, lock, forced, drawn, file, flushed, target, possible, mixed, crashes, memvars>>

-----------------------------------------------------------------------------
(* The lock: taken only where there is no file, however old, and released  *)
(* by unlinking whatever lock is there.                                    *)
TryLock(p) ==
    /\ stage[p] = "idle" /\ lock = "none"
    /\ lock' = "fresh"
    /\ UNCHANGED <<doc, stage, forced, drawn, fd, crashes, fsvars, memvars>>

Unlock(p) ==
    /\ stage[p] = "idle" /\ lock # "none"
    /\ lock' = "none"
    /\ UNCHANGED <<doc, stage, forced, drawn, fd, crashes, fsvars, memvars>>

-----------------------------------------------------------------------------
(* The world: five minutes pass, the document changes, a process or the    *)
(* machine stops.  That the directory reached the disk is never known, so  *)
(* every earlier target stays possible until the next power loss.          *)
Age ==
    /\ lock = "fresh" /\ lock' = "old"
    /\ UNCHANGED <<doc, stage, forced, drawn, fd, crashes, fsvars, memvars>>

\* Times are in seconds, so two saves may have the same one.
ChangeDoc ==
    /\ \E d \in Docs \ {doc} : d.time >= doc.time /\ doc' = d
    /\ UNCHANGED <<lock, stage, forced, drawn, fd, crashes, fsvars, memvars>>

Stopped(S) ==
    /\ crashes < MaxCrashes /\ crashes' = crashes + 1
    /\ stage' = [p \in Procs |-> IF p \in S THEN "idle" ELSE stage[p]]
    /\ drawn' = [p \in Procs |-> IF p \in S THEN 0 ELSE drawn[p]]
    /\ fd' = [p \in Procs |-> IF p \in S THEN 0 ELSE fd[p]]
    /\ mem' = [p \in Procs |-> IF p \in S THEN None ELSE mem[p]]
    /\ seen' = [p \in Procs |-> IF p \in S THEN {} ELSE seen[p]]
    /\ UNCHANGED <<doc, lock, forced, temps, mixed>>

Crash(p) ==
    /\ Stopped({p})
    /\ UNCHANGED <<file, flushed, target, possible>>

\* One outcome for every inode that was not flushed.
PowerLoss ==
    /\ Stopped(Procs)
    /\ \E t \in possible : target' = t /\ possible' = {t}
    /\ \E c \in {Empty, Torn} :
           file' = [i \in Inodes |-> IF i \in flushed THEN file[i] ELSE c]
    /\ flushed' = Inodes

-----------------------------------------------------------------------------
Step(p) ==
    \/ Create(p)
    \/ \E a \in Annots : Annotate(p, a)
    \/ ReadFile(p) \/ CheckStale(p)
    \/ \E force \in BOOLEAN : WriteStart(p, force)
    \/ LockAge(p) \/ UnlinkLock(p)
    \/ OpenTemp(p) \/ OpenFails(p)
    \/ WriteTemp(p) \/ WriteFails(p)
    \/ SyncTemp(p) \/ SyncFails(p)
    \/ RenameTemp(p) \/ RenameFails(p) \/ Discard(p)
    \/ TryLock(p) \/ Unlock(p)
    \/ Crash(p)

StoreNext ==
    \/ \E p \in Procs : Step(p)
    \/ Age \/ ChangeDoc \/ PowerLoss

StoreSpec == StoreInit /\ [][StoreNext]_vars

-----------------------------------------------------------------------------
(* Properties.                                                             *)

\* Whatever a stop at any moment leaves under the sidecar's name, the
\* machine's own stop included, is a whole sidecar that is on the disk,
\* unless two writers had its temporary file under one name
\* (pc_sidecar_write_internal: write, fsync, close, rename).
WholeUnlessShared ==
    \A i \in possible \ ({0} \union mixed) : file[i] \in Sidecars /\ i \in flushed

\* Without a crash no temporary file outlives the write that made it, in
\* whatever order writers fail and share names (the close and unlink of
\* every failure branch).
NoLitter ==
    crashes = 0 => \A n \in Names : temps[n] # 0 =>
        \E p \in Procs : Writing(p) /\ Name(p) = n

\* Everything of it has a place in the buffer.
Fits(m) == Cardinality(m.annots) + 4 + Cardinality(m.keys) <= Room

\* R5.1, R5.2: a save that nobody forced records the document its process last checked
\* it against, if the bytes of the document could be read then.  So a sidecar that lost
\* its record or part of it, read from a cut or a mixed file, is not made a valid one
\* in silence, whichever other readings of the document fail (pc_sidecar_read's
\* defaults, pc_sidecar_check_staleness, the refusal of pc_sidecar_write).
UnforcedSaveMatches ==
    [][\A p \in Procs :
          /\ RenameTemp(p) /\ target' \notin mixed
          /\ p \notin forced /\ mem[p].against # "" /\ Fits(mem[p])
          => file[target'].rec.sum = mem[p].against]_vars

\* A sidecar that the buffer holds keeps on a save every key of "unknown" its process
\* read, across other processes' writes, crashes and edits (pc_sidecar_read's
\* unknown_json, written back by pc_sidecar_to_canonical_json).
KeptWhenItFits ==
    [][\A p \in Procs : RenameTemp(p) /\ target' \notin mixed /\ Fits(mem[p]) =>
          seen[p] \ Tops \subseteq file[target'].keys]_vars

\* R4.1: a key the application does not know is preserved on save. It does not hold: a
\* key beside "unknown" is not read, whatever room there is; nor is one inside it
\* written in a file that does not fit the buffer, which the save does not report.
KeysSurviveSave ==
    [][\A p \in Procs : RenameTemp(p) /\ target' \notin mixed =>
          seen[p] \subseteq file[target'].keys]_vars

\* R3.1 (SPEC.md of core/sidecar): what is under the sidecar's name is always a
\* whole sidecar. It does not hold: rand() is not seeded, so two processes draw
\* the same temporary name, and one renames the file the other just truncated.
TargetWhole == target # 0 => file[target] \in Sidecars
=============================================================================
