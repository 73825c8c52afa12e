---------------------------- MODULE HashChainLog ----------------------------
(***************************************************************************)
(* crates/orderlog: entries chained by their hashes, and a log that holds  *)
(* the entries from base on, prev being the hash of the one before them.   *)
(* A hash is the triple it was computed from: no two inputs collide.       *)
(***************************************************************************)
EXTENDS Integers, Sequences

Genesis == <<>>         \* [0u8; 32]

EntryHash(seq, prev, payload) == <<seq, prev, payload>>

LogEntry(seq, prev, payload) ==
    [seq |-> seq, prev |-> prev, hash |-> EntryHash(seq, prev, payload), payload |-> payload]

EmptyLog == [base |-> 0, prev |-> Genesis, entries |-> <<>>]

\* The root of entries that continue a chain whose root is prev.
RootAfter(prev, entries) == IF entries = <<>> THEN prev ELSE entries[Len(entries)].hash

Root(l) == RootAfter(l.prev, l.entries)

NextSeq(l) == l.base + Len(l.entries)

AppendTo(l, payload) ==
    [l EXCEPT !.entries = Append(@, LogEntry(NextSeq(l), Root(l), payload))]

\* A seq as a position in l, within what l holds.
Clamped(l, seq) ==
    LET local == IF seq > l.base THEN seq - l.base ELSE 0
    IN IF local < Len(l.entries) THEN local ELSE Len(l.entries)

\* split_off_archived: the prefix to archive, and the log resumed after it.
ArchivedPrefix(l, keepFrom) == SubSeq(l.entries, 1, Clamped(l, keepFrom))

\* Slip: the resumed log keeps the root it started from.
ResumedFromOldRoot(l, keepFrom) ==
    [base |-> l.base + Clamped(l, keepFrom),
     prev |-> l.prev,
     entries |-> SubSeq(l.entries, Clamped(l, keepFrom) + 1, Len(l.entries))]

Resumed(l, keepFrom) ==
    [base |-> l.base + Clamped(l, keepFrom),
     prev |-> RootAfter(l.prev, ArchivedPrefix(l, keepFrom)),
     entries |-> SubSeq(l.entries, Clamped(l, keepFrom) + 1, Len(l.entries))]

EntriesSince(l, seq) == SubSeq(l.entries, Clamped(l, seq) + 1, Len(l.entries))

VerifyNextEntry(root, seq, e) ==
    /\ e.seq = seq
    /\ e.prev = root
    /\ e.hash = EntryHash(e.seq, e.prev, e.payload)

VerifyChainSegment(start, prev, entries) ==
    \A i \in DOMAIN entries :
        VerifyNextEntry(IF i = 1 THEN prev ELSE entries[i - 1].hash, start + i - 1, entries[i])

VerifyChain(entries) == VerifyChainSegment(0, Genesis, entries)

\* Whether try_append_remote accepts e.
Extends(l, e) == VerifyNextEntry(Root(l), NextSeq(l), e)

\* What it leaves.
TryAppendRemote(l, e) == IF Extends(l, e) THEN [l EXCEPT !.entries = Append(@, e)] ELSE l
=============================================================================
