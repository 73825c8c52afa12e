----------------------------- MODULE ArchivedLog ----------------------------
(***************************************************************************)
(* One audit log of an API node (order_log or match_log): the hot window   *)
(* in AppState and the archive tree on disk that old entries move to in    *)
(* every snapshot cycle (crates/api/src/snapshot_loop.rs, persistence.rs). *)
(***************************************************************************)
EXTENDS HashChainLog

CONSTANTS
    Payloads,
    HotWindow       \* hot_window_size

ASSUME HotWindowAssumption == HotWindow \in Nat

VARIABLES
    log,            \* the HashChainLog in memory
    archive         \* the archive tree: seq -> entry

LogInit == log = EmptyLog /\ archive = <<>>

\* tree.insert for every entry, at its own seq.
Inserted(tree, entries) ==
    LET seqs == {entries[i].seq : i \in DOMAIN entries}
    IN [s \in DOMAIN tree \union seqs |->
            IF s \in seqs THEN entries[CHOOSE i \in DOMAIN entries : entries[i].seq = s]
            ELSE tree[s]]

AppendPayload(p) == log' = AppendTo(log, p) /\ UNCHANGED archive

\* Slip: one entry too many stays.
KeepOneMore == NextSeq(log) - HotWindow - 1

KeepFrom == NextSeq(log) - HotWindow

TooLong == Len(log.entries) > HotWindow

\* archive_and_trim_*_log, with the archive write succeeding,
ArchiveAndTrim ==
    /\ TooLong
    /\ archive' = Inserted(archive, ArchivedPrefix(log, KeepFrom))
    /\ log' = Resumed(log, KeepFrom)

\* or failing after n inserts.
ArchiveFails(n) ==
    /\ TooLong
    /\ n \in 0..Len(ArchivedPrefix(log, KeepFrom))
    /\ archive' = Inserted(archive, SubSeq(log.entries, 1, n))
    /\ UNCHANGED log

LogNext ==
    \/ \E p \in Payloads : AppendPayload(p)
    \/ ArchiveAndTrim
    \/ \E n \in 0..Len(log.entries) : ArchiveFails(n)

LogSpec == LogInit /\ [][LogNext]_<<log, archive>>

-----------------------------------------------------------------------------
\* The whole log: what was archived below the hot window, then the window.
FullHistory ==
    [i \in 1..NextSeq(log) |->
        IF i <= log.base THEN archive[i - 1] ELSE log.entries[i - log.base]]

\* Archiving loses nothing and breaks nothing: every entry below the hot window
\* is in the archive, and archive and window together verify from genesis as an
\* auditor would verify them, also after a failed or half-done archive write.
HistoryIntact ==
    /\ 0..(log.base - 1) \subseteq DOMAIN archive
    /\ VerifyChain(FullHistory)
    /\ VerifyChainSegment(log.base, log.prev, log.entries)
    /\ Root(log) = RootAfter(Genesis, FullHistory)

\* To its readers the pair is one log that only grows: moving entries to the
\* archive is invisible.
Promise == INSTANCE AppendOnlyLog WITH
    history <- [i \in DOMAIN FullHistory |-> FullHistory[i].payload]
AppendOnly == Promise!Spec
=============================================================================
