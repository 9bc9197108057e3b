----------------------------- MODULE MCSidecar -----------------------------
(* SidecarStore on a small instance: two processes beside one document that *)
(* another program edits; see the configurations MCSidecar*.cfg.            *)
EXTENDS SidecarStore, TLC

CONSTANTS p1, p2, a, k, t

MCProcs == {p1, p2}
MCDocs == {[pages |-> 1, sum |-> "s1", time |-> 0],
           [pages |-> 2, sum |-> "s2", time |-> 1]}

\* Two states of a document told apart by their fingerprint alone.
QuickDocs == {[pages |-> 0, sum |-> sum, time |-> 0] : sum \in {"s1", "s2"}}

\* Sidecars of the first of them: with an unknown key in its place, with one beside
\* "unknown" as well, or of a later version.
First(rec) == rec.time = 0 /\ rec.sum \in {"", "s1"}
Left(ver, keys) == [ver |-> ver, annots |-> {}, keys |-> keys,
                    rec |-> CHOOSE d \in Docs : First(d)]
FoundNested == {Left(1, {k}), Left(2, {k})}
FoundBoth == {Left(1, {k, t}), Left(2, {k})}

\* Bound: once something has stopped, only records of the first state are followed.
FirstAfterStop ==
    crashes = 0 \/ /\ First(doc)
                   /\ \A p \in Procs : mem[p] # None => First(mem[p].rec)
                   /\ \A i \in Alive \ {0} : file[i] \in Sidecars => First(file[i].rec)

\* Nothing reads an inode nothing leads to: it is emptied when it is opened; nor why a
\* sidecar is stale.  Of the history, KeptWhenItFits reads seen, and UnforcedSaveMatches
\* the rest, where a sidecar passes that does not have the fingerprint compared.
Files == <<doc, [i \in Inodes |-> IF i \in Alive THEN <<file[i], i \in flushed, i \in mixed>>
                                 ELSE <<>>],
           temps, target, possible, lock, stage, drawn, fd, crashes>>
Known(p) == <<mem[p].ver, mem[p].annots, mem[p].keys, mem[p].rec, mem[p].stale = "none">>
Passed(p) ==
    IF mem[p].stale = "none" /\ mem[p].against \notin {"", mem[p].rec.sum}
    THEN <<mem[p].against, p \in forced>> ELSE <<>>
Seen == <<Files, seen,
          [p \in Procs |-> IF mem[p] = None THEN <<>> ELSE <<Known(p), Passed(p)>>]>>

Symmetric == Permutations(MCProcs)
=============================================================================
