---------------------------- MODULE SidecarProofs ----------------------------
(* Proofs about SidecarStore: what holds of the sidecar for any number of     *)
(* processes, writes, failing calls, crashes and power losses.                *)
EXTENDS SidecarStore, FiniteSetTheorems, TLAPS

-----------------------------------------------------------------------------
(* The inductive invariant.                                                   *)

Stages == {"idle", "age", "unlink", "open", "write", "sync", "rename", "discard"}
Sums == {d.sum : d \in Docs} \cup {""}
Memory == [ver : {1, 2}, annots : SUBSET Annots, keys : SUBSET Keys,
           rec : Records, stale : {"none", "pages", "fingerprint", "time"},
           against : Sums]

Typed ==
  /\ doc \in Docs /\ crashes \in Nat
  /\ file \in [Inodes -> Sidecars \cup {Empty, Torn}]
  /\ flushed \subseteq Inodes /\ mixed \subseteq Inodes
  /\ temps \in [Names -> Inodes \cup {0}]
  /\ possible \subseteq Inodes \cup {0} /\ target \in possible
  /\ mem \in [Procs -> Memory \cup {None}]
  /\ seen \in [Procs -> SUBSET Keys]
  /\ stage \in [Procs -> Stages]
  /\ drawn \in [Procs -> Nat]
  /\ fd \in [Procs -> Inodes \cup {0}]

\* a temporary file has one name, and it is not the sidecar nor was it
NamesApart ==
  /\ \A n, m \in Names : temps[n] # 0 /\ temps[n] = temps[m] => n = m
  /\ \A n \in Names : temps[n] \notin possible \ {0}

\* a process has a name and a file where its write needs them, and no file elsewhere
WritersReady ==
  \A p \in Procs :
    /\ stage[p] # "idle" => mem[p] # None
    /\ Writing(p) => drawn[p] \in Names
    /\ stage[p] \in {"write", "sync"} => fd[p] # 0
    /\ fd[p] # 0 => Writing(p) /\ stage[p] # "rename"

\* a writer's file and what its name leads to are the same or shared
OwnFiles ==
  \A p \in Procs :
    /\ fd[p] # 0 => \A m \in Names : temps[m] = fd[p] => m = drawn[p]
    /\ fd[p] \notin {0} \cup mixed => temps[drawn[p]] = fd[p]
    /\ (fd[p] # 0 /\ temps[drawn[p]] \notin {0} \cup mixed) => temps[drawn[p]] = fd[p]

\* two writers of one name have only shared files, or the name is gone
Shared ==
  \A p, q \in Procs :
    (p # q /\ Writing(p) /\ Writing(q) /\ drawn[p] = drawn[q]) =>
      /\ temps[drawn[p]] \in {0} \cup mixed
      /\ fd[p] \in {0} \cup mixed

\* what is in a file that is not shared follows from where its writer is
Contents ==
  /\ \A p \in Procs :
       /\ (stage[p] = "write" /\ fd[p] \notin mixed) => file[fd[p]] = Empty
       /\ (stage[p] = "sync" /\ fd[p] \notin mixed) => file[fd[p]] = Serialized(mem[p])
       /\ (stage[p] = "rename" /\ temps[drawn[p]] \notin {0} \cup mixed) =>
            /\ file[temps[drawn[p]]] = Serialized(mem[p])
            /\ temps[drawn[p]] \in flushed
  /\ WholeUnlessShared

Inv == Typed /\ NamesApart /\ WritersReady /\ OwnFiles /\ Shared /\ Contents

-----------------------------------------------------------------------------
(* What the steps have in common.                                             *)

\* What is recorded of a document is a record, and so is nothing at all.
LEMMA RecordsHold ==
  ASSUME NEW d \in Docs
  PROVE  /\ d \in Records
         /\ 0 \in UNION {0..e.pages : e \in Docs}
         /\ 0 \in UNION {0..e.time : e \in Docs}
         /\ "" \in {e.sum : e \in Docs} \cup {""}
<1>1. d = [pages |-> d.pages, sum |-> d.sum, time |-> d.time] /\ d.pages \in Nat /\ d.time \in Nat
  BY ContentAssumption
<1>2. d.pages \in 0..d.pages /\ 0 \in 0..d.pages /\ d.time \in 0..d.time /\ 0 \in 0..d.time
  BY <1>1
<1> QED
  BY <1>1, <1>2 DEF Records

\* A sidecar in memory is written as a sidecar.
LEMMA SerializedType ==
  ASSUME NEW d \in Docs, NEW s \in Memory
  PROVE  Serialized(s) \in Sidecars
<1>1. Serialized(s).rec \in Records
  BY RecordsHold DEF Serialized, Memory, Records
<1> QED
  BY <1>1 DEF Serialized, Memory, Sidecars

\* What the reader makes of a file is a sidecar.
LEMMA ReadingsType ==
  ASSUME NEW d \in Docs, NEW c, NEW s \in Readings(c)
  PROVE  s \in Sidecars
<1>1. CASE c \in Sidecars
  <2>1. PICK t \in UNION {0..e.time : e \in Docs} :
          s = [c EXCEPT !.keys = @ \ Tops, !.rec.time = t]
    BY <1>1, RecordsHold DEF Readings, Sidecars, Records
  <2> QED
    BY <1>1, <2>1 DEF Sidecars, Records
<1>2. CASE c \notin Sidecars /\ c = Torn
  BY <1>2 DEF Readings, Sidecars
<1>3. CASE c \notin Sidecars /\ c # Torn
  <2>1. [pages |-> 0, sum |-> "", time |-> 0] \in Records
    BY RecordsHold DEF Records
  <2>2. s = [ver |-> 1, annots |-> {}, keys |-> {}, rec |-> [pages |-> 0, sum |-> "", time |-> 0]]
    BY <1>3 DEF Readings
  <2> QED
    BY <2>1, <2>2 DEF Sidecars
<1> QED
  BY <1>1, <1>2, <1>3

\* A check finds one of the three reasons, or none.
LEMMA ChecksType ==
  ASSUME NEW rec, NEW d \in Docs, NEW c \in Checks(rec, d)
  PROVE  /\ c = [stale |-> c.stale, against |-> c.against]
         /\ c.stale \in {"none", "pages", "fingerprint", "time"}
         /\ c.against \in Sums
<1>1. PICK readable \in SUBSET Readable :
        c = [stale |-> Staleness(rec, d, readable), against |-> Against(d, readable)]
  BY DEF Checks
<1>2. Staleness(rec, d, readable) \in {"none", "pages", "fingerprint", "time"}
  BY DEF Staleness
<1>3. Against(d, readable) \in Sums
  BY DEF Against, Sums
<1> QED
  BY <1>1, <1>2, <1>3

\* A check that finds nothing has found the fingerprints equal, if it had one to compare.
LEMMA NoneIsMatch ==
  ASSUME NEW rec, NEW d, NEW c \in Checks(rec, d), c.stale = "none", c.against # ""
  PROVE  rec.sum = c.against
<1>1. PICK readable \in SUBSET Readable :
        c = [stale |-> Staleness(rec, d, readable), against |-> Against(d, readable)]
  BY DEF Checks
<1>2. "sum" \in readable /\ c.against = d.sum
  BY <1>1 DEF Against
<1>3. Staleness(rec, d, readable) = "none"
  BY <1>1
<1> QED
  BY <1>2, <1>3 DEF Staleness

\* The same of the check that reading makes, or leaves out.
LEMMA FirstChecksType ==
  ASSUME doc \in Docs, NEW s, NEW c \in FirstChecks(s)
  PROVE  /\ c.stale \in {"none", "pages", "fingerprint", "time"} /\ c.against \in Sums
         /\ c.stale = "none" /\ c.against # "" => s.rec.sum = c.against
<1>1. CASE s.ver > 1
  <2>1. c = [stale |-> "none", against |-> ""]
    BY <1>1 DEF FirstChecks
  <2> QED
    BY <2>1 DEF Sums
<1>2. CASE ~(s.ver > 1)
  <2>1. c \in Checks(s.rec, doc)
    BY <1>2 DEF FirstChecks
  <2> QED
    BY <2>1, ChecksType, NoneIsMatch
<1> QED
  BY <1>1, <1>2

\* Of a sidecar the buffer holds, the fingerprint and the keys are written.
LEMMA FittingIsWritten ==
  ASSUME NEW m \in Memory, Fits(m)
  PROVE  Serialized(m).rec.sum = m.rec.sum /\ Serialized(m).keys = m.keys
<1>1. m.annots \in SUBSET Annots /\ m.keys \in SUBSET Keys
  BY DEF Memory
<1>2. Cardinality(m.annots) \in Nat /\ Cardinality(m.keys) \in Nat
  BY <1>1, StoreAssumption, FS_Subset, FS_CardinalityType
<1>3. /\ Cardinality(m.annots) <= Room
      /\ Cardinality(m.annots) + 3 <= Room
      /\ Cardinality(m.annots) + (4 + Cardinality(m.keys)) <= Room
  BY <1>2, StoreAssumption DEF Fits
<1> QED
  BY <1>3 DEF Serialized

\* A process that writes stands where the one that wrote before stood, and the files are
\* as they were: steps of the caller, of the lock and of the world, crashes included.
WritersKept ==
  \A p \in Procs :
    \/ /\ stage'[p] \notin {"write", "sync", "rename", "discard"}
       /\ fd'[p] = 0
       /\ stage'[p] # "idle" => mem'[p] # None
    \/ /\ stage'[p] = stage[p] /\ drawn'[p] = drawn[p] /\ fd'[p] = fd[p]
       /\ mem'[p] = mem[p]

\* A step that leaves the files alone, and every writer where it was, keeps the invariant.
LEMMA KeptStep ==
  ASSUME Inv, Typed', WritersKept, UNCHANGED fsvars
  PROVE  Inv'
<1>1. NamesApart'
  BY DEF Inv, NamesApart, fsvars
<1>2. WritersReady'
  BY DEF Inv, WritersReady, WritersKept, Writing
<1>3. OwnFiles'
  BY DEF Inv, OwnFiles, WritersReady, WritersKept, fsvars
<1>4. Shared'
  BY DEF Inv, Shared, WritersKept, Writing, fsvars
<1>5. Contents'
  BY DEF Inv, Contents, WholeUnlessShared, WritersKept, fsvars
<1> QED
  BY <1>1, <1>2, <1>3, <1>4, <1>5 DEF Inv

\* What opening a temporary file does once the file system has picked the inode: the one
\* the name leads to, or one that nothing leads to.
Opened(p) == IF temps[drawn[p] + 1] # 0 THEN {temps[drawn[p] + 1]} ELSE Free

Opens(p, i) ==
  LET n == drawn[p] + 1 IN
  /\ stage[p] = "open" /\ n \in Names
  /\ drawn' = [drawn EXCEPT ![p] = n]
  /\ temps' = [temps EXCEPT ![n] = i]
  /\ file' = [file EXCEPT ![i] = Empty]
  /\ flushed' = flushed \ {i}
  /\ fd' = [fd EXCEPT ![p] = i]
  /\ mixed' = IF \E q \in Procs \ {p} : Writing(q) /\ drawn[q] = n
                THEN mixed \cup {i} ELSE mixed \ {i}
  /\ stage' = [stage EXCEPT ![p] = "write"]
  /\ UNCHANGED <<doc, lock, target, possible, crashes, memvars>>

\* The call opens one inode: the one its name leads to, or a free one.
LEMMA OpenTempOpens ==
  ASSUME Typed, NEW p \in Procs, OpenTemp(p)
  PROVE  /\ \E i \in Opened(p) : Opens(p, i)
         /\ Opened(p) \subseteq Inodes
         /\ 0 \notin Opened(p)
<1>1. drawn'[p] = drawn[p] + 1 /\ drawn[p] + 1 \in Names
  BY StoreAssumption DEF Typed, OpenTemp, Names
<1>2. PICK i \in Opened(p) :
        /\ temps' = [temps EXCEPT ![drawn'[p]] = i]
        /\ file' = [file EXCEPT ![i] = Empty]
        /\ flushed' = flushed \ {i}
        /\ fd' = [fd EXCEPT ![p] = i]
        /\ mixed' = IF \E q \in Procs \ {p} : Writing(q) /\ Name(q) = drawn'[p]
                      THEN mixed \cup {i} ELSE mixed \ {i}
  BY <1>1 DEF OpenTemp, Opened
<1>3. Opens(p, i)
  BY <1>1, <1>2 DEF Opens, OpenTemp, Goto, Name
<1>4. Opened(p) \subseteq Inodes /\ 0 \notin Opened(p)
  BY <1>1, StoreAssumption DEF Typed, Opened, Free
<1> QED
  BY <1>3, <1>4

-----------------------------------------------------------------------------
(* The types.                                                                 *)

\* The types hold before the first process.
LEMMA InitTyped == StoreInit => Typed
<1> SUFFICES ASSUME StoreInit PROVE Typed
  OBVIOUS
<1>1. target \in Inodes \cup {0} /\ possible = {target}
  BY DEF StoreInit
<1>2. file \in [Inodes -> Sidecars \cup {Empty, Torn}]
  BY ContentAssumption DEF StoreInit
<1> QED
  BY <1>1, <1>2 DEF StoreInit, Typed, Stages

\* Every step keeps the types; a writer's name, which the calls that follow use, is in use.
LEMMA TypedStep ==
  ASSUME Typed, WritersReady, StoreNext
  PROVE  Typed'
<1> USE DEF Typed
<1>1. ASSUME NEW p \in Procs, Create(p) PROVE Typed'
  BY <1>1, RecordsHold DEF Create, Memory, Sums, fsvars
<1>2. ASSUME NEW p \in Procs, NEW a \in Annots, Annotate(p, a) PROVE Typed'
  BY <1>2 DEF Annotate, Memory, fsvars
<1>3. ASSUME NEW p \in Procs, ReadFile(p) PROVE Typed'
  <2> PICK s \in Readings(file[target]) :
        \E c \in FirstChecks(s) : mem' = [mem EXCEPT ![p] = Held(s, c)]
    BY <1>3 DEF ReadFile
  <2> PICK c \in FirstChecks(s) : mem' = [mem EXCEPT ![p] = Held(s, c)]
    OBVIOUS
  <2>1. s \in Sidecars
    BY ReadingsType
  <2>2. Held(s, c) \in Memory
    BY <2>1, FirstChecksType DEF Held, Sidecars, Memory
  <2>3. (IF file[target] \in Sidecars THEN file[target].keys ELSE {}) \in SUBSET Keys
    BY DEF Sidecars
  <2>4. seen' \in [Procs -> SUBSET Keys]
    BY <1>3, <2>3 DEF ReadFile
  <2> QED
    BY <1>3, <2>2, <2>4 DEF ReadFile, fsvars
<1>4. ASSUME NEW p \in Procs, CheckStale(p) PROVE Typed'
  <2>1. PICK c \in Checks(mem[p].rec, doc) :
          mem' = [mem EXCEPT ![p].stale = c.stale, ![p].against = c.against]
    BY <1>4 DEF CheckStale
  <2>2. c.stale \in {"none", "pages", "fingerprint", "time"} /\ c.against \in Sums
    BY ChecksType
  <2>3. [mem[p] EXCEPT !.stale = c.stale, !.against = c.against] \in Memory
    <3>1. mem[p] \in Memory
      BY <1>4 DEF CheckStale
    <3> QED
      BY <2>2, <3>1 DEF Memory
  <2>4. mem' = [mem EXCEPT ![p] = [mem[p] EXCEPT !.stale = c.stale, !.against = c.against]]
    BY <1>4, <2>1 DEF CheckStale
  <2> QED
    BY <1>4, <2>3, <2>4 DEF CheckStale, fsvars
<1>5. ASSUME NEW p \in Procs, NEW force \in BOOLEAN, WriteStart(p, force) PROVE Typed'
  BY <1>5 DEF WriteStart, Goto, AfterLock, Stages, fsvars, memvars
<1>6. ASSUME NEW p \in Procs, LockAge(p) \/ UnlinkLock(p) PROVE Typed'
  BY <1>6 DEF LockAge, UnlinkLock, Goto, AfterLock, Stages, fsvars, memvars
<1>7. ASSUME NEW p \in Procs, OpenTemp(p) PROVE Typed'
  <2> PICK i \in Opened(p) : Opens(p, i)
    BY <1>7, OpenTempOpens
  <2>1. i \in Inodes
    BY OpenTempOpens, <1>7
  <2>2. file' \in [Inodes -> Sidecars \cup {Empty, Torn}]
    BY <2>1 DEF Opens
  <2>3. /\ drawn' \in [Procs -> Nat] /\ stage' \in [Procs -> Stages]
        /\ fd' \in [Procs -> Inodes \cup {0}] /\ temps' \in [Names -> Inodes \cup {0}]
    BY <2>1 DEF Opens, Stages
  <2> QED
    BY <2>1, <2>2, <2>3 DEF Opens, memvars
<1>8. ASSUME NEW p \in Procs, OpenFails(p) PROVE Typed'
  BY <1>8 DEF OpenFails, Goto, Stages, fsvars, memvars
<1>9. ASSUME NEW p \in Procs, WriteTemp(p) PROVE Typed'
  <2>1. Serialized(mem[p]) \in Sidecars
    BY <1>9, SerializedType DEF WriteTemp, WritersReady
  <2>2. PICK c \in Sidecars \cup {Torn} : file' = [file EXCEPT ![fd[p]] = c]
    BY <1>9, <2>1 DEF WriteTemp
  <2>3. file' \in [Inodes -> Sidecars \cup {Empty, Torn}]
    BY <2>2
  <2> QED
    BY <1>9, <2>3 DEF WriteTemp, Goto, Stages, memvars
<1>10. ASSUME NEW p \in Procs, WriteFails(p) PROVE Typed'
  BY <1>10 DEF WriteFails, Goto, Stages, memvars
<1>11. ASSUME NEW p \in Procs, SyncTemp(p) PROVE Typed'
  BY <1>11 DEF SyncTemp, Goto, Stages, WritersReady, memvars
<1>12. ASSUME NEW p \in Procs, SyncFails(p) \/ RenameFails(p) PROVE Typed'
  BY <1>12 DEF SyncFails, RenameFails, Goto, Stages, fsvars, memvars
<1>13. ASSUME NEW p \in Procs, RenameTemp(p) PROVE Typed'
  <2>1. Name(p) \in Names
    BY <1>13 DEF RenameTemp, WritersReady, Writing, Name
  <2> QED
    BY <1>13, <2>1 DEF RenameTemp, Goto, Stages, memvars
<1>14. ASSUME NEW p \in Procs, Discard(p) PROVE Typed'
  BY <1>14 DEF Discard, Goto, Stages, memvars
<1>15. ASSUME NEW p \in Procs, TryLock(p) \/ Unlock(p) PROVE Typed'
  BY <1>15 DEF TryLock, Unlock, fsvars, memvars
<1>16. ASSUME NEW p \in Procs, Crash(p) PROVE Typed'
  BY <1>16 DEF Crash, Stopped, Stages
<1>17. ASSUME Age \/ ChangeDoc PROVE Typed'
  BY <1>17 DEF Age, ChangeDoc, fsvars, memvars
<1>18. ASSUME PowerLoss PROVE Typed'
  <2>1. file' \in [Inodes -> Sidecars \cup {Empty, Torn}]
    BY <1>18 DEF PowerLoss
  <2>2. target' \in possible' /\ possible' \subseteq Inodes \cup {0}
    BY <1>18 DEF PowerLoss
  <2> QED
    BY <1>18, <2>1, <2>2 DEF PowerLoss, Stopped, Stages
<1> QED
  BY <1>1, <1>2, <1>3, <1>4, <1>5, <1>6, <1>7, <1>8, <1>9, <1>10, <1>11, <1>12, <1>13,
     <1>14, <1>15, <1>16, <1>17, <1>18 DEF StoreNext, Step

-----------------------------------------------------------------------------
(* The files and their writers, one lemma for each call of a write.           *)

\* Before the first process nobody writes, and the target is whole.
LEMMA InitInv == StoreInit => Inv
<1> SUFFICES ASSUME StoreInit PROVE Inv
  OBVIOUS
<1>1. Typed
  BY InitTyped
<1>2. \A i \in possible \ {0} : file[i] \in Sidecars
  BY <1>1, ContentAssumption DEF StoreInit, Typed
<1> QED
  BY <1>1, <1>2 DEF StoreInit, Inv, NamesApart, WritersReady, OwnFiles, Shared, Contents,
                    WholeUnlessShared, Writing

\* open(O_CREAT | O_TRUNC): the file is nobody else's, or it is shared from now on.
LEMMA OpenStep ==
  ASSUME Inv, Typed', NEW p \in Procs, OpenTemp(p)
  PROVE  Inv'
<1> DEFINE n == drawn[p] + 1
<1> PICK i \in Opened(p) : Opens(p, i)
  BY OpenTempOpens DEF Inv
<1>1. /\ i \in Inodes /\ i # 0 /\ n \in Names
      /\ temps[n] # 0 => i = temps[n]
      /\ temps[n] = 0 => i \in Free
  BY OpenTempOpens DEF Inv, Opened, Opens
<1>2. i \in Free => /\ i \notin possible
                    /\ \A m \in Names : temps[m] # i
                    /\ \A q \in Procs : fd[q] # i
  BY DEF Free, Alive
<1>3. i \notin possible
  BY <1>1, <1>2 DEF Inv, NamesApart, Typed
<1>4. \A m \in Names \ {n} : temps[m] # i
  BY <1>1, <1>2 DEF Inv, NamesApart
<1>5. \A q \in Procs \ {p} : Writing(q) /\ drawn[q] = n => i \in mixed' /\ mixed' = mixed \cup {i}
  BY DEF Opens
<1>6. \A q \in Procs \ {p} : fd[q] = i => Writing(q) /\ drawn[q] = n
  BY <1>1, <1>2 DEF Inv, OwnFiles, WritersReady
<1>7. mixed \ {i} \subseteq mixed' /\ mixed' \subseteq mixed \cup {i}
  BY DEF Opens
<1>8. ~Writing(p) /\ fd[p] = 0 /\ mem[p] # None
  BY DEF Opens, Writing, Inv, WritersReady
<1>9. /\ stage'[p] = "write" /\ drawn'[p] = n /\ fd'[p] = i /\ temps'[n] = i
      /\ file'[i] = Empty
      /\ \A m \in Names \ {n} : temps'[m] = temps[m]
      /\ \A j \in Inodes \ {i} : file'[j] = file[j] /\ (j \in flushed' <=> j \in flushed)
      /\ \A q \in Procs \ {p} : stage'[q] = stage[q] /\ drawn'[q] = drawn[q] /\ fd'[q] = fd[q]
      /\ mem' = mem /\ possible' = possible
  BY <1>1 DEF Opens, Inv, Typed, memvars
<1> HIDE DEF n
<1>10. \A q \in Procs \ {p} : Writing(q)' <=> Writing(q)
  BY <1>9 DEF Writing
<1>11. NamesApart'
  BY <1>1, <1>3, <1>4, <1>9 DEF Inv, NamesApart
<1>12. WritersReady'
  BY <1>1, <1>8, <1>9, <1>10 DEF Inv, WritersReady, Writing
<1>13. OwnFiles'
  <2> SUFFICES ASSUME NEW q \in Procs, fd'[q] # 0
               PROVE  /\ \A m \in Names : temps'[m] = fd'[q] => m = drawn'[q]
                      /\ fd'[q] \notin {0} \cup mixed' => temps'[drawn'[q]] = fd'[q]
                      /\ temps'[drawn'[q]] \notin {0} \cup mixed' => temps'[drawn'[q]] = fd'[q]
    BY DEF OwnFiles
  <2>1. CASE q = p
    BY <2>1, <1>4, <1>9
  <2>2. CASE q # p /\ drawn[q] = n
    <3>1. Writing(q) /\ fd[q] # 0
      BY <2>2, <1>9 DEF Inv, WritersReady
    <3>2. i \in mixed' /\ mixed' = mixed \cup {i}
      BY <2>2, <3>1, <1>5
    <3> QED
      BY <2>2, <3>1, <3>2, <1>1, <1>2, <1>4, <1>9 DEF Inv, OwnFiles
  <2>3. CASE q # p /\ drawn[q] # n
    <3>1. fd[q] # i /\ fd[q] # 0 /\ Writing(q) /\ drawn[q] \in Names \ {n}
      BY <2>3, <1>6, <1>9 DEF Inv, WritersReady
    <3>2. temps[drawn[q]] # i
      BY <3>1, <1>4
    <3> QED
      BY <2>3, <3>1, <3>2, <1>7, <1>9 DEF Inv, OwnFiles
  <2> QED
    BY <2>1, <2>2, <2>3
<1>14. Shared'
  <2> SUFFICES ASSUME NEW q \in Procs, NEW r \in Procs, q # r, Writing(q)', Writing(r)',
                      drawn'[q] = drawn'[r]
               PROVE  temps'[drawn'[q]] \in {0} \cup mixed' /\ fd'[q] \in {0} \cup mixed'
    BY DEF Shared
  <2>1. CASE drawn'[q] = n
    <3>1. \E s \in Procs \ {p} : Writing(s) /\ drawn[s] = n
      BY <2>1, <1>9, <1>10
    <3>2. i \in mixed' /\ mixed' = mixed \cup {i}
      BY <3>1, <1>5
    <3>3. fd'[q] \in {0} \cup mixed'
      <4>1. CASE q = p
        BY <4>1, <3>2, <1>9
      <4>2. CASE q # p
        BY <4>2, <2>1, <3>2, <1>1, <1>2, <1>9 DEF Inv, OwnFiles
      <4> QED
        BY <4>1, <4>2
    <3> QED
      BY <2>1, <3>2, <3>3, <1>9
  <2>2. CASE drawn'[q] # n
    <3>1. q # p /\ r # p
      BY <2>2, <1>9
    <3>2. fd[q] # i /\ temps[drawn[q]] # i /\ drawn[q] \in Names \ {n}
      BY <3>1, <2>2, <1>4, <1>6, <1>9, <1>10 DEF Inv, WritersReady
    <3> QED
      BY <3>1, <3>2, <1>7, <1>9, <1>10 DEF Inv, Shared
  <2> QED
    BY <2>1, <2>2
<1>15. Contents'
  <2>1. ASSUME NEW q \in Procs \ {p}, stage[q] \in {"write", "sync"}, fd[q] \notin mixed'
        PROVE  fd[q] # i /\ fd[q] \notin mixed /\ fd[q] \in Inodes
    BY <2>1, <1>5, <1>6, <1>7 DEF Inv, WritersReady, Typed
  <2>2. ASSUME NEW q \in Procs \ {p}, stage[q] = "rename",
               temps'[drawn[q]] \notin {0} \cup mixed'
        PROVE  /\ temps'[drawn[q]] = temps[drawn[q]] /\ temps[drawn[q]] # i
               /\ temps[drawn[q]] \in Inodes /\ temps[drawn[q]] \notin mixed
    BY <2>2, <1>4, <1>5, <1>7, <1>9 DEF Inv, WritersReady, Writing, Typed
  <2>3. WholeUnlessShared'
    BY <1>3, <1>7, <1>9 DEF Inv, Contents, WholeUnlessShared, Typed
  <2>4. ASSUME NEW q \in Procs
        PROVE  /\ (stage'[q] = "write" /\ fd'[q] \notin mixed') => file'[fd'[q]] = Empty
               /\ (stage'[q] = "sync" /\ fd'[q] \notin mixed') =>
                     file'[fd'[q]] = Serialized(mem'[q])
               /\ (stage'[q] = "rename" /\ temps'[drawn'[q]] \notin {0} \cup mixed') =>
                     /\ file'[temps'[drawn'[q]]] = Serialized(mem'[q])
                     /\ temps'[drawn'[q]] \in flushed'
    <3>1. CASE q = p
      BY <3>1, <1>9
    <3>2. CASE q # p
      BY <3>2, <2>1, <2>2, <1>9 DEF Inv, Contents
    <3> QED
      BY <3>1, <3>2
  <2> QED
    BY <2>3, <2>4 DEF Contents, Serialized
<1> QED
  BY <1>11, <1>12, <1>13, <1>14, <1>15 DEF Inv

\* A step of one writer that leaves names and inodes as they are.
StaysOpen(p) ==
  /\ Writing(p)
  /\ UNCHANGED <<temps, target, possible, mixed, drawn, mem>>
  /\ \A q \in Procs \ {p} : stage'[q] = stage[q] /\ fd'[q] = fd[q]

\* Another writer's file, or what its name leads to, is not this one's unless it is shared.
LEMMA Apart ==
  ASSUME Inv, NEW p \in Procs, fd[p] # 0
  PROVE  /\ \A q \in Procs \ {p} : fd[q] = fd[p] => fd[p] \in mixed
         /\ \A q \in Procs \ {p} : (Writing(q) /\ temps[drawn[q]] = fd[p]) => fd[p] \in mixed
         /\ fd[p] \in Inodes
         /\ fd[p] \notin mixed => fd[p] \notin possible
<1>1. Writing(p) /\ drawn[p] \in Names /\ fd[p] \in Inodes
  BY DEF Inv, WritersReady, Typed
<1>2. ASSUME NEW q \in Procs \ {p}, fd[q] = fd[p], fd[p] \notin mixed PROVE FALSE
  <2>1. Writing(q) /\ temps[drawn[p]] = fd[q] /\ fd[q] # 0
    BY <1>1, <1>2, StoreAssumption DEF Inv, OwnFiles, WritersReady
  <2>2. drawn[p] = drawn[q]
    BY <1>1, <2>1 DEF Inv, OwnFiles
  <2> QED
    BY <1>1, <1>2, <2>1, <2>2 DEF Inv, Shared
<1>3. ASSUME NEW q \in Procs \ {p}, Writing(q), temps[drawn[q]] = fd[p], fd[p] \notin mixed
      PROVE  FALSE
  <2>1. drawn[q] \in Names
    BY <1>3 DEF Inv, WritersReady
  <2>2. drawn[p] = drawn[q]
    BY <1>3, <2>1 DEF Inv, OwnFiles
  <2> QED
    BY <1>1, <1>3, <2>2 DEF Inv, Shared
<1>4. fd[p] \notin mixed => fd[p] \notin possible
  BY <1>1 DEF Inv, OwnFiles, NamesApart
<1> QED
  BY <1>1, <1>2, <1>3, <1>4

\* write_all, whole or cut short: only the writer's own file changes, or a shared one.
LEMMA WriteStep ==
  ASSUME Inv, Typed', NEW p \in Procs, WriteTemp(p) \/ WriteFails(p)
  PROVE  Inv'
<1>1. stage[p] = "write" /\ fd[p] # 0 /\ fd[p] \in Inodes /\ Writing(p)
  BY DEF WriteTemp, WriteFails, Writing, Inv, WritersReady, Typed
<1>2. /\ stage'[p] \in {"sync", "discard"} /\ fd' = fd
      /\ \A q \in Procs \ {p} : stage'[q] = stage[q]
      /\ UNCHANGED <<temps, target, possible, mixed, drawn, mem>>
      /\ \A i \in Inodes \ {fd[p]} : file'[i] = file[i] /\ (i \in flushed' <=> i \in flushed)
  BY <1>1 DEF WriteTemp, WriteFails, Goto, memvars, Inv, Typed
<1>3. (stage'[p] = "sync" /\ fd[p] \notin mixed) => file'[fd[p]] = Serialized(mem[p])
  <2> SUFFICES ASSUME stage'[p] = "sync", fd[p] \notin mixed
               PROVE  file'[fd[p]] = Serialized(mem[p])
    OBVIOUS
  <2>1. file[fd[p]] = Empty
    BY <1>1 DEF Inv, Contents
  <2>2. WriteTemp(p)
    BY <1>1 DEF WriteFails, Goto, Inv, Typed
  <2>3. file' = [file EXCEPT ![fd[p]] = Serialized(mem[p])]
    BY <2>1, <2>2 DEF WriteTemp
  <2> QED
    BY <1>1, <2>3 DEF Inv, Typed
<1>4. \A q \in Procs : Writing(q)' <=> Writing(q)
  BY <1>1, <1>2 DEF Writing
<1>5. NamesApart'
  BY <1>2 DEF Inv, NamesApart
<1>6. WritersReady'
  BY <1>1, <1>2, <1>4 DEF Inv, WritersReady
<1>7. OwnFiles' /\ Shared'
  BY <1>2, <1>4 DEF Inv, OwnFiles, Shared
<1>8. WholeUnlessShared'
  BY <1>1, <1>2, Apart DEF Inv, Contents, WholeUnlessShared, Typed
<1>9. ASSUME NEW q \in Procs
      PROVE  /\ (stage'[q] = "write" /\ fd'[q] \notin mixed') => file'[fd'[q]] = Empty
             /\ (stage'[q] = "sync" /\ fd'[q] \notin mixed') =>
                   file'[fd'[q]] = Serialized(mem'[q])
             /\ (stage'[q] = "rename" /\ temps'[drawn'[q]] \notin {0} \cup mixed') =>
                   /\ file'[temps'[drawn'[q]]] = Serialized(mem'[q])
                   /\ temps'[drawn'[q]] \in flushed'
  <2>1. CASE q = p
    BY <2>1, <1>2, <1>3
  <2>2. CASE q # p
    <3>1. stage'[q] = stage[q]
      BY <2>2, <1>2
    <3>2. (stage[q] \in {"write", "sync"} /\ fd[q] \notin mixed) =>
            fd[q] \in Inodes \ {fd[p]}
      BY <2>2, <1>1, Apart DEF Inv, WritersReady, Typed
    <3>3. (stage[q] = "rename" /\ temps[drawn[q]] \notin {0} \cup mixed) =>
            temps[drawn[q]] \in Inodes \ {fd[p]}
      BY <2>2, <1>1, Apart DEF Inv, WritersReady, Typed, Writing
    <3> QED
      BY <3>1, <3>2, <3>3, <1>2 DEF Inv, Contents
  <2> QED
    BY <2>1, <2>2
<1>10. Contents'
  BY <1>8, <1>9 DEF Contents, Serialized
<1> QED
  BY <1>5, <1>6, <1>7, <1>10 DEF Inv

\* fsync and close: what the writer wrote is on the disk before the rename.
LEMMA SyncStep ==
  ASSUME Inv, Typed', NEW p \in Procs, SyncTemp(p)
  PROVE  Inv'
<1>1. stage[p] = "sync" /\ fd[p] # 0 /\ fd[p] \in Inodes /\ Writing(p) /\ drawn[p] \in Names
  BY DEF SyncTemp, Writing, Inv, WritersReady, Typed
<1>2. /\ stage'[p] = "rename" /\ fd'[p] = 0 /\ flushed' = flushed \cup {fd[p]}
      /\ \A q \in Procs \ {p} : stage'[q] = stage[q] /\ fd'[q] = fd[q]
      /\ UNCHANGED <<temps, target, possible, mixed, drawn, mem, file>>
  BY <1>1 DEF SyncTemp, Goto, memvars, Inv, Typed
<1>3. \A q \in Procs : Writing(q)' <=> Writing(q)
  BY <1>1, <1>2 DEF Writing
<1>4. NamesApart'
  BY <1>2 DEF Inv, NamesApart
<1>5. WritersReady'
  BY <1>1, <1>2, <1>3 DEF Inv, WritersReady
<1>6. OwnFiles' /\ Shared'
  BY <1>2, <1>3 DEF Inv, OwnFiles, Shared
<1>7. temps[drawn[p]] \notin {0} \cup mixed =>
        temps[drawn[p]] = fd[p] /\ file[fd[p]] = Serialized(mem[p])
  BY <1>1 DEF Inv, OwnFiles, Contents
<1>8. Contents'
  <2>1. WholeUnlessShared'
    BY <1>2 DEF Inv, Contents, WholeUnlessShared
  <2>2. ASSUME NEW q \in Procs
        PROVE  /\ (stage'[q] = "write" /\ fd'[q] \notin mixed') => file'[fd'[q]] = Empty
               /\ (stage'[q] = "sync" /\ fd'[q] \notin mixed') =>
                     file'[fd'[q]] = Serialized(mem'[q])
               /\ (stage'[q] = "rename" /\ temps'[drawn'[q]] \notin {0} \cup mixed') =>
                     /\ file'[temps'[drawn'[q]]] = Serialized(mem'[q])
                     /\ temps'[drawn'[q]] \in flushed'
    <3>1. CASE q = p
      BY <3>1, <1>2, <1>7
    <3>2. CASE q # p
      BY <3>2, <1>2 DEF Inv, Contents
    <3> QED
      BY <3>1, <3>2
  <2> QED
    BY <2>1, <2>2 DEF Contents, Serialized
<1> QED
  BY <1>4, <1>5, <1>6, <1>8 DEF Inv

\* A failing fsync or rename only sends the writer to the removal of its file.
LEMMA FailStep ==
  ASSUME Inv, Typed', NEW p \in Procs, SyncFails(p) \/ RenameFails(p)
  PROVE  Inv'
<1>1. /\ Writing(p) /\ stage'[p] = "discard"
      /\ \A q \in Procs \ {p} : stage'[q] = stage[q]
      /\ UNCHANGED <<temps, target, possible, mixed, drawn, mem, file, flushed, fd>>
  BY DEF SyncFails, RenameFails, Writing, Goto, fsvars, memvars, Inv, Typed
<1>2. \A q \in Procs : Writing(q)' <=> Writing(q)
  BY <1>1 DEF Writing
<1>3. NamesApart'
  BY <1>1 DEF Inv, NamesApart
<1>4. WritersReady'
  BY <1>1, <1>2 DEF Inv, WritersReady, Writing
<1>5. OwnFiles' /\ Shared'
  BY <1>1, <1>2 DEF Inv, OwnFiles, Shared
<1>6. Contents'
  <2>1. WholeUnlessShared'
    BY <1>1 DEF Inv, Contents, WholeUnlessShared
  <2>2. ASSUME NEW q \in Procs
        PROVE  /\ (stage'[q] = "write" /\ fd'[q] \notin mixed') => file'[fd'[q]] = Empty
               /\ (stage'[q] = "sync" /\ fd'[q] \notin mixed') =>
                     file'[fd'[q]] = Serialized(mem'[q])
               /\ (stage'[q] = "rename" /\ temps'[drawn'[q]] \notin {0} \cup mixed') =>
                     /\ file'[temps'[drawn'[q]]] = Serialized(mem'[q])
                     /\ temps'[drawn'[q]] \in flushed'
    BY <1>1 DEF Inv, Contents
  <2> QED
    BY <2>1, <2>2 DEF Contents, Serialized
<1> QED
  BY <1>3, <1>4, <1>5, <1>6 DEF Inv

\* rename: the new target is what the writer wrote and flushed, unless it was shared.
LEMMA RenameStep ==
  ASSUME Inv, Typed', NEW p \in Procs, RenameTemp(p)
  PROVE  Inv'
<1> DEFINE i == temps[drawn[p]]
<1>1. /\ stage[p] = "rename" /\ Writing(p) /\ drawn[p] \in Names /\ i # 0 /\ i \in Inodes
      /\ fd[p] = 0
  BY DEF RenameTemp, Name, Writing, Inv, WritersReady, Typed
<1>2. /\ stage'[p] = "idle" /\ \A q \in Procs \ {p} : stage'[q] = stage[q]
      /\ possible' = possible \cup {i}
      /\ temps'[drawn[p]] = 0
      /\ \A m \in Names \ {drawn[p]} : temps'[m] = temps[m]
      /\ UNCHANGED <<mixed, drawn, mem, file, flushed, fd>>
  BY <1>1 DEF RenameTemp, Name, Goto, memvars, Inv, Typed
<1>3. \A q \in Procs : Writing(q)' <=> (Writing(q) /\ q # p)
  BY <1>1, <1>2 DEF Writing
<1>4. i \notin mixed => file[i] \in Sidecars /\ i \in flushed
  <2>1. mem[p] \in Memory
    BY <1>1 DEF Inv, WritersReady, Typed
  <2> QED
    BY <1>1, <2>1, SerializedType DEF Inv, Contents, Typed
<1>5. NamesApart'
  BY <1>1, <1>2 DEF Inv, NamesApart
<1>6. WritersReady'
  BY <1>1, <1>2, <1>3 DEF Inv, WritersReady
<1>7. \A q \in Procs \ {p} : (Writing(q) /\ drawn[q] = drawn[p]) => fd[q] \in {0} \cup mixed
  BY <1>1 DEF Inv, Shared
<1>8. OwnFiles'
  <2> SUFFICES ASSUME NEW q \in Procs, fd[q] # 0
               PROVE  /\ \A m \in Names : temps'[m] = fd[q] => m = drawn[q]
                      /\ fd[q] \notin mixed => temps'[drawn[q]] = fd[q]
                      /\ temps'[drawn[q]] \notin {0} \cup mixed => temps'[drawn[q]] = fd[q]
    BY <1>2 DEF OwnFiles
  <2>1. q # p /\ Writing(q) /\ drawn[q] \in Names
    BY <1>1 DEF Inv, WritersReady
  <2> QED
    BY <2>1, <1>1, <1>2, <1>7 DEF Inv, OwnFiles
<1>9. Shared'
  BY <1>1, <1>2, <1>3 DEF Inv, Shared, WritersReady
<1>10. Contents'
  <2>1. WholeUnlessShared'
    BY <1>2, <1>4 DEF Inv, Contents, WholeUnlessShared
  <2>2. \A q \in Procs : stage'[q] = "rename" =>
          /\ stage[q] = "rename" /\ drawn[q] \in Names
          /\ temps'[drawn[q]] \in {0, temps[drawn[q]]}
    BY <1>2 DEF Inv, WritersReady, Writing
  <2>3. ASSUME NEW q \in Procs
        PROVE  /\ (stage'[q] = "write" /\ fd'[q] \notin mixed') => file'[fd'[q]] = Empty
               /\ (stage'[q] = "sync" /\ fd'[q] \notin mixed') =>
                     file'[fd'[q]] = Serialized(mem'[q])
               /\ (stage'[q] = "rename" /\ temps'[drawn'[q]] \notin {0} \cup mixed') =>
                     /\ file'[temps'[drawn'[q]]] = Serialized(mem'[q])
                     /\ temps'[drawn'[q]] \in flushed'
    BY <1>2, <2>2 DEF Inv, Contents
  <2> QED
    BY <2>1, <2>3 DEF Contents, Serialized
<1> QED
  BY <1>5, <1>6, <1>8, <1>9, <1>10 DEF Inv

\* unlink of the temporary file: no other writer loses a file that is not shared.
LEMMA DiscardStep ==
  ASSUME Inv, Typed', NEW p \in Procs, Discard(p)
  PROVE  Inv'
<1>1. stage[p] = "discard" /\ Writing(p) /\ drawn[p] \in Names
  BY DEF Discard, Writing, Inv, WritersReady
<1>2. /\ stage'[p] = "idle" /\ fd'[p] = 0
      /\ \A q \in Procs \ {p} : stage'[q] = stage[q] /\ fd'[q] = fd[q]
      /\ temps'[drawn[p]] = 0
      /\ \A m \in Names \ {drawn[p]} : temps'[m] = temps[m]
      /\ UNCHANGED <<mixed, drawn, mem, file, flushed, possible>>
  BY <1>1 DEF Discard, Name, Goto, memvars, Inv, Typed
<1>3. \A q \in Procs : Writing(q)' <=> (Writing(q) /\ q # p)
  BY <1>1, <1>2 DEF Writing
<1>4. NamesApart'
  BY <1>1, <1>2 DEF Inv, NamesApart
<1>5. WritersReady'
  BY <1>1, <1>2, <1>3 DEF Inv, WritersReady
<1>6. \A q \in Procs \ {p} : (Writing(q) /\ drawn[q] = drawn[p]) => fd[q] \in {0} \cup mixed
  BY <1>1 DEF Inv, Shared
<1>7. OwnFiles'
  <2> SUFFICES ASSUME NEW q \in Procs, fd'[q] # 0
               PROVE  /\ \A m \in Names : temps'[m] = fd'[q] => m = drawn[q]
                      /\ fd'[q] \notin mixed => temps'[drawn[q]] = fd'[q]
                      /\ temps'[drawn[q]] \notin {0} \cup mixed => temps'[drawn[q]] = fd'[q]
    BY <1>2 DEF OwnFiles
  <2>1. q # p /\ fd'[q] = fd[q] /\ Writing(q) /\ drawn[q] \in Names
    BY <1>2 DEF Inv, WritersReady
  <2> QED
    BY <2>1, <1>1, <1>2, <1>6 DEF Inv, OwnFiles
<1>8. Shared'
  BY <1>1, <1>2, <1>3 DEF Inv, Shared, WritersReady
<1>9. Contents'
  <2>1. WholeUnlessShared'
    BY <1>2 DEF Inv, Contents, WholeUnlessShared
  <2>2. \A q \in Procs : stage'[q] = "rename" =>
          /\ stage[q] = "rename" /\ drawn[q] \in Names
          /\ temps'[drawn[q]] \in {0, temps[drawn[q]]}
    BY <1>2 DEF Inv, WritersReady, Writing
  <2>3. \A q \in Procs : stage'[q] \in {"write", "sync"} =>
          stage'[q] = stage[q] /\ fd'[q] = fd[q]
    BY <1>2
  <2>4. ASSUME NEW q \in Procs
        PROVE  /\ (stage'[q] = "write" /\ fd'[q] \notin mixed') => file'[fd'[q]] = Empty
               /\ (stage'[q] = "sync" /\ fd'[q] \notin mixed') =>
                     file'[fd'[q]] = Serialized(mem'[q])
               /\ (stage'[q] = "rename" /\ temps'[drawn'[q]] \notin {0} \cup mixed') =>
                     /\ file'[temps'[drawn'[q]]] = Serialized(mem'[q])
                     /\ temps'[drawn'[q]] \in flushed'
    BY <1>2, <2>2, <2>3 DEF Inv, Contents
  <2> QED
    BY <2>1, <2>4 DEF Contents, Serialized
<1> QED
  BY <1>4, <1>5, <1>7, <1>8, <1>9 DEF Inv

\* A power loss keeps what was flushed, and every possible target was.
LEMMA PowerLossStep ==
  ASSUME Inv, Typed', PowerLoss
  PROVE  Inv'
<1>1. /\ \A q \in Procs : stage'[q] = "idle" /\ fd'[q] = 0
      /\ temps' = temps /\ mixed' = mixed
      /\ target' \in possible /\ possible' = {target'}
      /\ \A i \in Inodes : i \in flushed => file'[i] = file[i]
      /\ flushed' = Inodes
  BY DEF PowerLoss, Stopped
<1>2. NamesApart'
  BY <1>1 DEF Inv, NamesApart
<1>3. WritersReady' /\ OwnFiles' /\ Shared'
  BY <1>1 DEF WritersReady, OwnFiles, Shared, Writing
<1>4. WholeUnlessShared'
  BY <1>1 DEF Inv, Contents, WholeUnlessShared, Typed
<1> QED
  BY <1>1, <1>2, <1>3, <1>4 DEF Inv, Contents

\* Every step of the processes and of the world keeps the invariant.
LEMMA InvStep ==
  ASSUME Inv, StoreNext
  PROVE  Inv'
<1>1. Typed'
  BY TypedStep DEF Inv
<1>2. ASSUME NEW p \in Procs,
             \/ Create(p) \/ (\E a \in Annots : Annotate(p, a)) \/ ReadFile(p) \/ CheckStale(p)
             \/ (\E force \in BOOLEAN : WriteStart(p, force))
             \/ LockAge(p) \/ UnlinkLock(p) \/ OpenFails(p) \/ TryLock(p) \/ Unlock(p)
      PROVE  Inv'
  <2>1. UNCHANGED <<fd, fsvars>>
    BY <1>2 DEF Create, Annotate, ReadFile, CheckStale, WriteStart, LockAge, UnlinkLock,
                OpenFails, TryLock, Unlock
  <2>2. \A q \in Procs \ {p} :
          stage'[q] = stage[q] /\ drawn'[q] = drawn[q] /\ mem'[q] = mem[q]
    BY <1>2 DEF Create, Annotate, ReadFile, CheckStale, WriteStart, LockAge, UnlinkLock,
                OpenFails, TryLock, Unlock, Goto, memvars, Inv, Typed
  <2>3. ~Writing(p) /\ stage'[p] \notin {"write", "sync", "rename", "discard"}
    BY <1>2 DEF Create, Annotate, ReadFile, CheckStale, WriteStart, LockAge, UnlinkLock,
                OpenFails, TryLock, Unlock, Goto, AfterLock, Writing, Inv, Typed
  <2>4. stage'[p] # "idle" => mem'[p] # None
    BY <1>2 DEF Create, Annotate, ReadFile, CheckStale, WriteStart, LockAge, UnlinkLock,
                OpenFails, TryLock, Unlock, Goto, memvars, Inv, Typed, WritersReady
  <2>5. fd[p] = 0
    BY <2>3 DEF Inv, WritersReady
  <2>6. WritersKept
    BY <2>1, <2>2, <2>3, <2>4, <2>5 DEF WritersKept
  <2> QED
    BY <1>1, <2>1, <2>6, KeptStep
<1>3. ASSUME NEW p \in Procs, Crash(p) PROVE Inv'
  <2>1. WritersKept
    BY <1>3 DEF Crash, Stopped, WritersKept
  <2> QED
    BY <1>1, <1>3, <2>1, KeptStep DEF Crash, Stopped, fsvars
<1>4. ASSUME Age \/ ChangeDoc PROVE Inv'
  <2>1. WritersKept
    BY <1>4 DEF Age, ChangeDoc, WritersKept, memvars
  <2> QED
    BY <1>1, <1>4, <2>1, KeptStep DEF Age, ChangeDoc
<1> QED
  BY <1>1, <1>2, <1>3, <1>4, OpenStep, WriteStep, SyncStep, FailStep, RenameStep,
     DiscardStep, PowerLossStep DEF StoreNext, Step

\* The invariant always holds.
THEOREM InvHolds == StoreSpec => []Inv
<1>1. ASSUME Inv, UNCHANGED vars PROVE Inv'
  <2>1. UNCHANGED fsvars /\ WritersKept
    BY <1>1 DEF vars, memvars, WritersKept
  <2>2. Typed'
    BY <1>1 DEF Inv, Typed, vars, fsvars, memvars
  <2> QED
    BY <1>1, <2>1, <2>2, KeptStep
<1> QED
  BY <1>1, InitInv, InvStep, PTL DEF StoreSpec

\* Whatever a stop at any moment leaves under the sidecar's name is whole and on the disk,
\* unless two writers had its temporary file under one name.
THEOREM WholeHolds == StoreSpec => []WholeUnlessShared
BY InvHolds, PTL DEF Inv, Contents

-----------------------------------------------------------------------------
(* No litter.                                                                 *)

\* Every exit of a write removes its file, so without a stop no name outlives its writer.
LEMMA LitterStep ==
  ASSUME Inv, NoLitter, StoreNext
  PROVE  NoLitter'
<1> SUFFICES ASSUME crashes' = 0, NEW n \in Names, temps'[n] # 0
             PROVE  \E p \in Procs : Writing(p)' /\ drawn'[p] = n
  BY DEF NoLitter, Name
<1>1. crashes = 0
  <2>1. crashes \in Nat /\ crashes' = 0
    BY DEF Inv, Typed
  <2>2. CASE PowerLoss \/ \E p \in Procs : Crash(p)
    BY <2>1, <2>2 DEF PowerLoss, Crash, Stopped
  <2>3. CASE UNCHANGED crashes
    BY <2>1, <2>3
  <2> QED
    BY <2>2, <2>3
       DEF StoreNext, Step, Create, Annotate, ReadFile, CheckStale, WriteStart, LockAge,
           UnlinkLock, OpenTemp, OpenFails, WriteTemp, WriteFails, SyncTemp, SyncFails,
           RenameTemp, RenameFails, Discard, TryLock, Unlock, Age, ChangeDoc
<1>2. temps[n] # 0 => \E p \in Procs : Writing(p) /\ drawn[p] = n
  BY <1>1 DEF NoLitter, Name
<1>3. ASSUME NEW p \in Procs, OpenTemp(p) PROVE \E q \in Procs : Writing(q)' /\ drawn'[q] = n
  <2> PICK i \in Opened(p) : Opens(p, i)
    BY <1>3, OpenTempOpens DEF Inv
  <2>1. ~Writing(p) /\ stage'[p] = "write" /\ drawn'[p] = drawn[p] + 1
    BY DEF Opens, Writing, Inv, Typed
  <2>2. \A q \in Procs \ {p} : stage'[q] = stage[q] /\ drawn'[q] = drawn[q]
    BY DEF Opens, Inv, Typed
  <2>3. n # drawn[p] + 1 => temps'[n] = temps[n]
    BY DEF Opens, Inv, Typed
  <2>4. Writing(p)'
    BY <2>1 DEF Writing
  <2> QED
    BY <1>2, <2>1, <2>2, <2>3, <2>4 DEF Writing
<1>4. ASSUME NEW p \in Procs, WriteTemp(p) \/ WriteFails(p) \/ SyncTemp(p) \/ SyncFails(p)
                              \/ RenameFails(p)
      PROVE  \E q \in Procs : Writing(q)' /\ drawn'[q] = n
  <2>1. temps' = temps /\ drawn' = drawn
    BY <1>4 DEF WriteTemp, WriteFails, SyncTemp, SyncFails, RenameFails, fsvars
  <2>2. \A q \in Procs : Writing(q) => Writing(q)'
    BY <1>4 DEF WriteTemp, WriteFails, SyncTemp, SyncFails, RenameFails, Goto, Writing, Inv, Typed
  <2> QED
    BY <1>2, <2>1, <2>2
<1>5. ASSUME NEW p \in Procs, RenameTemp(p) \/ Discard(p)
      PROVE  \E q \in Procs : Writing(q)' /\ drawn'[q] = n
  <2>1. drawn[p] \in Names
    BY <1>5 DEF RenameTemp, Discard, Writing, Inv, WritersReady
  <2>2. /\ drawn' = drawn /\ n # drawn[p] /\ temps[n] = temps'[n]
    BY <1>5, <2>1 DEF RenameTemp, Discard, Name, Inv, Typed
  <2>3. \A q \in Procs \ {p} : Writing(q) => Writing(q)'
    BY <1>5 DEF RenameTemp, Discard, Goto, Writing, Inv, Typed
  <2> QED
    BY <1>2, <2>2, <2>3
<1>6. ASSUME NEW p \in Procs,
             \/ Create(p) \/ (\E a \in Annots : Annotate(p, a)) \/ ReadFile(p) \/ CheckStale(p)
             \/ (\E force \in BOOLEAN : WriteStart(p, force))
             \/ LockAge(p) \/ UnlinkLock(p) \/ OpenFails(p) \/ TryLock(p) \/ Unlock(p)
      PROVE  \E q \in Procs : Writing(q)' /\ drawn'[q] = n
  <2>1. temps' = temps
    BY <1>6 DEF Create, Annotate, ReadFile, CheckStale, WriteStart, LockAge, UnlinkLock,
                OpenFails, TryLock, Unlock, fsvars
  <2>2. \A q \in Procs : Writing(q) => Writing(q)' /\ drawn'[q] = drawn[q]
    BY <1>6 DEF Create, Annotate, ReadFile, CheckStale, WriteStart, LockAge, UnlinkLock,
                OpenFails, TryLock, Unlock, Goto, Writing, Inv, Typed
  <2> QED
    BY <1>2, <2>1, <2>2
<1>7. CASE Age \/ ChangeDoc
  BY <1>2, <1>7 DEF Age, ChangeDoc, Writing, fsvars
<1>8. CASE PowerLoss \/ \E p \in Procs : Crash(p)
  BY <1>8 DEF PowerLoss, Crash, Stopped, Inv, Typed
<1> QED
  BY <1>3, <1>4, <1>5, <1>6, <1>7, <1>8 DEF StoreNext, Step

\* Without a crash no temporary file outlives the write that made it.
THEOREM NoneLitters == StoreSpec => []NoLitter
<1>1. StoreInit => NoLitter
  BY DEF StoreInit, NoLitter
<1>2. NoLitter /\ UNCHANGED vars => NoLitter'
  BY DEF NoLitter, Writing, Name, vars, fsvars
<1> QED
  BY <1>1, <1>2, InvHolds, LitterStep, PTL DEF StoreSpec

-----------------------------------------------------------------------------
(* What a process has read and checked.                                       *)

\* What was read is still in memory, a sidecar that is not stale has the fingerprint its
\* check compared with, and a write that is not forced started on one that is not stale.
Kept(p) ==
  /\ mem[p] # None =>
       /\ seen[p] \ Tops \subseteq mem[p].keys
       /\ mem[p].stale = "none" /\ mem[p].against # "" => mem[p].rec.sum = mem[p].against
  /\ stage[p] # "idle" /\ p \notin forced => mem[p].stale = "none"

ReadKept == \A p \in Procs : Kept(p)

\* No step between reading and writing takes a key that was read out of memory, or makes a
\* sidecar pass for one that was checked.
LEMMA ReadKeptStep ==
  ASSUME Inv, ReadKept, StoreNext
  PROVE  ReadKept'
<1> SUFFICES ASSUME NEW p \in Procs PROVE Kept(p)'
  BY DEF ReadKept
<1>0. Kept(p)
  BY DEF ReadKept
<1>1. CASE /\ mem'[p] = mem[p] /\ seen'[p] = seen[p] /\ (p \in forced' <=> p \in forced)
           /\ stage'[p] # "idle" => stage[p] # "idle"
  BY <1>0, <1>1 DEF Kept
<1>2. ASSUME NEW q \in Procs, Create(q) PROVE Kept(p)'
  <2>1. CASE p = q
    BY <2>1, <1>2 DEF Create, Kept, Inv, Typed
  <2>2. CASE p # q
    BY <2>2, <1>1, <1>2 DEF Create, Inv, Typed
  <2> QED
    BY <2>1, <2>2
<1>3. ASSUME NEW q \in Procs, NEW a \in Annots, Annotate(q, a) PROVE Kept(p)'
  <2>1. CASE p = q
    <3>1. mem[q] \in Memory /\ mem'[q] = [mem[q] EXCEPT !.annots = @ \cup {a}]
      BY <1>3 DEF Annotate, Inv, Typed
    <3>2. /\ mem'[q].keys = mem[q].keys /\ mem'[q].rec = mem[q].rec
          /\ mem'[q].stale = mem[q].stale /\ mem'[q].against = mem[q].against
      BY <3>1 DEF Memory
    <3> QED
      BY <2>1, <3>2, <1>0, <1>3 DEF Annotate, Kept
  <2>2. CASE p # q
    BY <2>2, <1>1, <1>3 DEF Annotate, Inv, Typed
  <2> QED
    BY <2>1, <2>2
<1>4. ASSUME NEW q \in Procs, ReadFile(q) PROVE Kept(p)'
  <2>1. CASE p = q
    <3> PICK s \in Readings(file[target]) : \E c \in FirstChecks(s) : mem'[q] = Held(s, c)
      BY <1>4 DEF ReadFile, Inv, Typed
    <3> PICK c \in FirstChecks(s) : mem'[q] = Held(s, c)
      OBVIOUS
    <3>1. c.stale = "none" /\ c.against # "" => s.rec.sum = c.against
      BY FirstChecksType DEF Inv, Typed
    <3>2. seen'[q] = IF file[target] \in Sidecars THEN file[target].keys ELSE {}
      BY <1>4 DEF ReadFile, Inv, Typed
    <3>3. file[target] \in Sidecars => s.keys = file[target].keys \ Tops
      BY DEF Readings, Sidecars
    <3>4. /\ seen'[q] \ Tops \subseteq mem'[q].keys /\ mem'[q].stale = c.stale
          /\ mem'[q].against = c.against /\ mem'[q].rec = s.rec
      <4>1. /\ mem'[q].keys = s.keys /\ mem'[q].stale = c.stale
            /\ mem'[q].against = c.against /\ mem'[q].rec = s.rec
        BY DEF Held
      <4>2. CASE file[target] \in Sidecars
        BY <4>1, <4>2, <3>2, <3>3
      <4>3. CASE file[target] \notin Sidecars
        <5>1. seen'[q] = {}
          BY <4>3, <3>2
        <5> QED
          BY <4>1, <5>1
      <4> QED
        BY <4>1, <4>2, <4>3
    <3>5. stage'[q] = "idle"
      BY <1>4 DEF ReadFile
    <3> QED
      BY <2>1, <3>1, <3>4, <3>5 DEF Kept
  <2>2. CASE p # q
    BY <2>2, <1>1, <1>4 DEF ReadFile, Inv, Typed
  <2> QED
    BY <2>1, <2>2
<1>5. ASSUME NEW q \in Procs, CheckStale(q) PROVE Kept(p)'
  <2>1. CASE p = q
    <3>1. PICK c \in Checks(mem[q].rec, doc) :
            mem'[q] = [mem[q] EXCEPT !.stale = c.stale, !.against = c.against]
      BY <1>5 DEF CheckStale, Inv, Typed
    <3>2. mem[q] \in Memory
      BY <1>5 DEF CheckStale, Inv, Typed
    <3>3. /\ mem'[q].keys = mem[q].keys /\ mem'[q].rec = mem[q].rec
          /\ mem'[q].stale = c.stale /\ mem'[q].against = c.against
      BY <3>1, <3>2 DEF Memory
    <3>4. c.stale = "none" /\ c.against # "" => mem[q].rec.sum = c.against
      BY NoneIsMatch
    <3> QED
      BY <2>1, <3>3, <3>4, <1>0, <1>5 DEF CheckStale, Kept
  <2>2. CASE p # q
    BY <2>2, <1>1, <1>5 DEF CheckStale, Inv, Typed
  <2> QED
    BY <2>1, <2>2
<1>6. ASSUME NEW q \in Procs, NEW force \in BOOLEAN, WriteStart(q, force) PROVE Kept(p)'
  <2>1. mem' = mem /\ seen' = seen
    BY <1>6 DEF WriteStart, memvars
  <2>2. CASE p = q
    BY <2>1, <2>2, <1>0, <1>6 DEF WriteStart, Kept
  <2>3. CASE p # q
    BY <2>1, <2>3, <1>1, <1>6 DEF WriteStart, Goto, Inv, Typed
  <2> QED
    BY <2>2, <2>3
<1>7. ASSUME NEW q \in Procs,
             \/ LockAge(q) \/ UnlinkLock(q)
             \/ OpenTemp(q) \/ OpenFails(q) \/ WriteTemp(q) \/ WriteFails(q) \/ SyncTemp(q)
             \/ SyncFails(q) \/ RenameTemp(q) \/ RenameFails(q) \/ Discard(q)
      PROVE  Kept(p)'
  <2>1. /\ mem' = mem /\ seen' = seen /\ forced' = forced
        /\ \A r \in Procs \ {q} : stage'[r] = stage[r]
    BY <1>7 DEF LockAge, UnlinkLock, OpenTemp, OpenFails, WriteTemp, WriteFails, SyncTemp,
                SyncFails, RenameTemp, RenameFails, Discard, Goto, memvars, Inv, Typed
  <2>2. stage[q] # "idle"
    BY <1>7 DEF LockAge, UnlinkLock, OpenTemp, OpenFails, WriteTemp, WriteFails, SyncTemp,
                SyncFails, RenameTemp, RenameFails, Discard
  <2> QED
    BY <2>1, <2>2, <1>1
<1>8. CASE PowerLoss \/ \E q \in Procs : Crash(q)
  <2>1. (stage'[p] = "idle" /\ mem'[p] = None)
        \/ (stage'[p] = stage[p] /\ mem'[p] = mem[p] /\ seen'[p] = seen[p] /\ forced' = forced)
    BY <1>8 DEF PowerLoss, Crash, Stopped
  <2> QED
    BY <2>1, <1>1 DEF Kept
<1>9. CASE Age \/ ChangeDoc \/ \E q \in Procs : TryLock(q) \/ Unlock(q)
  BY <1>1, <1>9 DEF Age, ChangeDoc, TryLock, Unlock, memvars
<1> QED
  BY <1>2, <1>3, <1>4, <1>5, <1>6, <1>7, <1>8, <1>9 DEF StoreNext, Step

\* What a process reads and checks is kept until it writes.
THEOREM ReadHolds == StoreSpec => []ReadKept
<1>1. StoreInit => ReadKept
  BY DEF StoreInit, ReadKept, Kept
<1>2. ReadKept /\ UNCHANGED vars => ReadKept'
  BY DEF ReadKept, Kept, vars, memvars
<1> QED
  BY <1>1, <1>2, InvHolds, ReadKeptStep, PTL DEF StoreSpec

\* A rename publishes what its process holds, as it is serialized.
LEMMA RenamePublishes ==
  ASSUME Inv, NEW p \in Procs, RenameTemp(p), target' \notin mixed
  PROVE  mem[p] \in Memory /\ stage[p] = "rename" /\ file[target'] = Serialized(mem[p])
<1>1. /\ stage[p] = "rename" /\ target' = temps[drawn[p]] /\ target' # 0
      /\ mem[p] \in Memory
  BY DEF RenameTemp, Name, Inv, WritersReady, Typed
<1> QED
  BY <1>1 DEF Inv, Contents

\* A save nobody forced records the document its sidecar was checked against.
THEOREM UnforcedMatches == StoreSpec => UnforcedSaveMatches
<1>1. ASSUME Inv, ReadKept, NEW p \in Procs, RenameTemp(p), target' \notin mixed,
             p \notin forced, mem[p].against # "", Fits(mem[p])
      PROVE  file[target'].rec.sum = mem[p].against
  <2>1. mem[p] \in Memory /\ stage[p] = "rename" /\ file[target'] = Serialized(mem[p])
    BY <1>1, RenamePublishes
  <2>2. mem[p].rec.sum = mem[p].against
    BY <1>1, <2>1 DEF ReadKept, Kept, Inv, WritersReady
  <2> QED
    BY <1>1, <2>1, <2>2, FittingIsWritten
<1>2. Inv /\ ReadKept /\ [StoreNext]_vars =>
        [\A p \in Procs :
            /\ RenameTemp(p) /\ target' \notin mixed
            /\ p \notin forced /\ mem[p].against # "" /\ Fits(mem[p])
            => file[target'].rec.sum = mem[p].against]_vars
  BY <1>1
<1> QED
  BY <1>2, InvHolds, ReadHolds, PTL DEF StoreSpec, UnforcedSaveMatches

\* A save of what the buffer holds puts back every key of "unknown" its process read.
THEOREM FittingKeys == StoreSpec => KeptWhenItFits
<1>1. ASSUME Inv, ReadKept, NEW p \in Procs, RenameTemp(p), target' \notin mixed, Fits(mem[p])
      PROVE  seen[p] \ Tops \subseteq file[target'].keys
  <2>1. mem[p] \in Memory /\ stage[p] = "rename" /\ file[target'] = Serialized(mem[p])
    BY <1>1, RenamePublishes
  <2>2. seen[p] \ Tops \subseteq mem[p].keys
    BY <1>1, <2>1 DEF ReadKept, Kept, Inv, WritersReady
  <2> QED
    BY <1>1, <2>1, <2>2, FittingIsWritten
<1>2. Inv /\ ReadKept /\ [StoreNext]_vars =>
        [\A p \in Procs : RenameTemp(p) /\ target' \notin mixed /\ Fits(mem[p]) =>
            seen[p] \ Tops \subseteq file[target'].keys]_vars
  BY <1>1
<1> QED
  BY <1>2, InvHolds, ReadHolds, PTL DEF StoreSpec, KeptWhenItFits
=============================================================================
