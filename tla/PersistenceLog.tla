--------------------------- MODULE PersistenceLog ---------------------------
(***************************************************************************)
(* crates/api/src/persistence.rs: the write-ahead log and the snapshot     *)
(* slot on disk, and the copy a snapshot in progress holds in memory.      *)
(* An entry's seq is base plus its position in wal, so base counts the     *)
(* entries truncation has removed.  The archive of old log entries         *)
(* (archive_*_entries) is ArchivedLog's.                                   *)
(***************************************************************************)
EXTENDS Integers, Sequences

VARIABLES
    setup,          \* how the node is configured, and the bounds; never changes
    wal,            \* the "wal_entries" tree, oldest entry first
    base,           \* number of entries removed from its front
    snapshot,       \* the "latest" slot: [state, covers], or NoSnapshot
    captured        \* the snapshot loop's copy: [state, covers, saved], or NoSnapshot

logVars == <<wal, base, snapshot, captured>>

NoSnapshot == [covers |-> 0]

\* WalEntry.
OrderAccepted(o, at) == [kind |-> "OrderAccepted", order |-> o, at |-> at]
CommitConfirmed(k) == [kind |-> "CommitConfirmed", trade |-> k]
BatchSubmitted(K) == [kind |-> "BatchSubmitted", trades |-> K]
OrderQueued(o) == [kind |-> "OrderQueued", order |-> o]

LatestSeq == base + Len(wal)

\* Bound: entries appended in one behaviour.
Fits(log) == base + Len(log) <= setup.maxEntries

\* append_entry returned Ok: every entry is on disk.
Logged(entries) == Fits(wal \o entries) /\ wal' = wal \o entries

\* Slip: the scan starts at the covered entry itself.
EntriesFromCovered(log, covers) ==
    SubSeq(log, IF covers > base THEN covers - base ELSE 1, Len(log))

\* replay(Some(covers)): what log, a value of wal, holds after that seq.
EntriesAfter(log, covers) == SubSeq(log, covers - base + 1, Len(log))

LogInit ==
    /\ base = 0
    /\ snapshot = NoSnapshot
    /\ captured = NoSnapshot

-----------------------------------------------------------------------------
\* The write-locked part of one snapshot cycle: content and seq together.
Capture(content) ==
    /\ captured = NoSnapshot
    /\ wal # <<>>
    /\ captured' = [state |-> content, covers |-> LatestSeq, saved |-> FALSE]
    /\ UNCHANGED <<wal, base, snapshot>>

SaveSnapshot ==
    /\ captured # NoSnapshot
    /\ ~captured.saved
    /\ snapshot' = [state |-> captured.state, covers |-> captured.covers]
    /\ captured' = [captured EXCEPT !.saved = TRUE]
    /\ UNCHANGED <<wal, base>>

SaveFails ==
    /\ captured # NoSnapshot
    /\ ~captured.saved
    /\ captured' = NoSnapshot
    /\ UNCHANGED <<wal, base, snapshot>>

\* One removal of truncate_up_to's loop, and its end.
TruncateUpTo ==
    /\ captured # NoSnapshot
    /\ captured.saved
    /\ IF base < captured.covers
       THEN /\ wal' = SubSeq(wal, 2, Len(wal))
            /\ base' = base + 1
            /\ UNCHANGED captured
       ELSE /\ captured' = NoSnapshot
            /\ UNCHANGED <<wal, base>>
    /\ UNCHANGED snapshot
=============================================================================
