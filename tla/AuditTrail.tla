----------------------------- MODULE AuditTrail -----------------------------
(***************************************************************************)
(* The audit trail of an API node and its readers: order_log and match_log *)
(* with their archives, the snapshot they are recovered from, the clients  *)
(* that fetch them, crates/trader-client/src/bin/audit_order_log.rs, and   *)
(* the mirror that watchtower_node keeps of the entries broadcast to it.   *)
(*                                                                         *)
(* log and archive of ArchivedLog are the order log's.  Orders are         *)
(* numbered as they are accepted, and an order matches at most one other.  *)
(* The write-ahead log is the number of the last order in it; ApiNode has  *)
(* its entries and its truncation.  Receipts verify: the node signs them,  *)
(* and replay takes them from the log as they are.                         *)
(***************************************************************************)
EXTENDS ArchivedLog, SeqFolds

CONSTANTS
    MaxOrders,      \* bound: orders accepted
    Takers,         \* the orders that match when they are accepted
    Evidenced,      \* those whose match has the network's timestamp
    MaxFailures,    \* bound: archive and snapshot writes that fail
    MaxRestarts     \* bound: crashes

ASSUME OrdersAssumption ==
    MaxOrders \in Nat /\ Takers \subseteq 1..MaxOrders /\ Payloads = 1..MaxOrders

VARIABLES
    matchLog,
    matchArchive,
    disk,           \* the saved snapshot's logs, last order of the WAL, and whether
                    \* the WAL still holds entries the snapshot covers
    captured,       \* the logs of a snapshot being saved, or None
    wire,           \* entries broadcast; each arrives never, once or more often
    mirror,         \* the watchtower's copy of the order log
    accused,        \* the watchtower reported the node
    client,         \* the auditor, or a client reading one log
    spent           \* failures and restarts so far

logVars == <<log, archive, matchLog, matchArchive>>
vars == <<logVars, disk, captured, wire, mirror, accused, client, spent>>

MatchLog == INSTANCE ArchivedLog WITH log <- matchLog, archive <- matchArchive

None == [stage |-> "none"]

Init ==
    /\ LogInit /\ MatchLog!LogInit
    /\ disk = [orders |-> EmptyLog, matches |-> EmptyLog, last |-> 0, covered |-> FALSE]
    /\ captured = None
    /\ wire = {} /\ mirror = EmptyLog /\ accused = FALSE
    /\ client = None
    /\ spent = [failures |-> 0, restarts |-> 0]

-----------------------------------------------------------------------------
\* Slip: a replayed match gets the time of the replay.
StampedNow(o, clock) == <<o, clock + 1>>

\* The match of order o, with the shared timestamp, 0, or the local clock's.
MatchOf(o, clock) == <<o, IF o \in Evidenced THEN 0 ELSE clock + 1>>

\* apply_accepted_order_locally, as far as the two logs go.
Applied(logs, o, clock) ==
    [orders |-> AppendTo(logs.orders, o),
     matches |-> IF o \in Takers THEN AppendTo(logs.matches, MatchOf(o, clock))
                 ELSE logs.matches]

Disturb(c) == IF c = None THEN c ELSE [c EXCEPT !.quiet = FALSE]

\* apply_accepted_order: logged, applied, and its entry broadcast by a task.
AcceptOrder ==
    LET o == disk.last + 1
        new == Applied([orders |-> log, matches |-> matchLog], o, spent.restarts)
    IN
    /\ o <= MaxOrders
    /\ disk' = [disk EXCEPT !.last = o]
    /\ log' = new.orders /\ matchLog' = new.matches
    /\ wire' = wire \union {new.orders.entries[Len(new.orders.entries)]}
    /\ client' = Disturb(client)
    /\ UNCHANGED <<archive, matchArchive, captured, mirror, accused, spent>>

-----------------------------------------------------------------------------
\* The archive step of one log in one cycle; failed says whether it failed.
ArchiveOrders(failed) ==
    IF failed THEN \E n \in 0..Len(log.entries) : ArchiveFails(n)
    ELSE ArchiveAndTrim \/ (~TooLong /\ UNCHANGED <<log, archive>>)

ArchiveMatches(failed) ==
    IF failed THEN \E n \in 0..Len(matchLog.entries) : MatchLog!ArchiveFails(n)
    ELSE MatchLog!ArchiveAndTrim \/ (~MatchLog!TooLong /\ UNCHANGED <<matchLog, matchArchive>>)

WalEmpty == ~disk.covered /\ disk.last = NextSeq(disk.orders)

\* The write-locked part of a snapshot cycle.
SnapshotCycle(orderFails, matchFails) ==
    LET failures == Cardinality({x \in {1, 2} : IF x = 1 THEN orderFails ELSE matchFails})
    IN
    /\ captured = None
    /\ spent.failures + failures <= MaxFailures
    /\ ArchiveOrders(orderFails) /\ ArchiveMatches(matchFails)
    /\ captured' = IF WalEmpty THEN None
                   ELSE [stage |-> "saving", orders |-> log', matches |-> matchLog']
    /\ spent' = [spent EXCEPT !.failures = @ + failures]
    /\ client' = Disturb(client)
    /\ UNCHANGED <<disk, wire, mirror, accused>>

\* save_snapshot, and truncate_up_to, which may fail and leave the WAL as it is.
SaveSnapshot(truncated) ==
    /\ captured # None
    /\ ~truncated => spent.failures < MaxFailures
    /\ disk' = [disk EXCEPT !.orders = captured.orders, !.matches = captured.matches,
                            !.covered = ~truncated]
    /\ captured' = None
    /\ spent' = IF truncated THEN spent ELSE [spent EXCEPT !.failures = @ + 1]
    /\ UNCHANGED <<logVars, wire, mirror, accused, client>>

SaveFails ==
    /\ captured # None
    /\ spent.failures < MaxFailures
    /\ captured' = None
    /\ spent' = [spent EXCEPT !.failures = @ + 1]
    /\ UNCHANGED <<logVars, disk, wire, mirror, accused, client>>

\* Slip: the scan does not return the entries in the order of their seq.
RecoveredBackwards(last, clock) ==
    LET from == NextSeq(disk.orders)
    IN FoldLeft(LAMBDA logs, o : Applied(logs, o, clock),
                [orders |-> disk.orders, matches |-> disk.matches],
                [i \in 1..(last - from) |-> last + 1 - i])

\* Replay of the WAL after the snapshot.  Nothing is broadcast again.
Recovered(last, clock) ==
    LET from == NextSeq(disk.orders)
    IN FoldLeft(LAMBDA logs, o : Applied(logs, o, clock),
                [orders |-> disk.orders, matches |-> disk.matches],
                [i \in 1..(last - from) |-> from + i])

\* A crash and the boot after it; it may come right after the WAL append of an
\* order that is not in the logs yet.
Restart(appended) ==
    LET last == IF appended THEN disk.last + 1 ELSE disk.last
        new == Recovered(last, spent.restarts + 1)
    IN
    /\ spent.restarts < MaxRestarts
    /\ last <= MaxOrders
    /\ disk' = [disk EXCEPT !.last = last]
    /\ log' = new.orders /\ matchLog' = new.matches
    /\ captured' = None
    /\ client' = None
    /\ spent' = [spent EXCEPT !.restarts = @ + 1]
    /\ UNCHANGED <<archive, matchArchive, wire, mirror, accused>>

-----------------------------------------------------------------------------
\* watchtower_node's mirror: broadcasts arrive in any order, and one that does
\* not extend the mirror is reported to the mesh.
Mirror(e) ==
    /\ e \in wire
    /\ mirror' = TryAppendRemote(mirror, e)
    /\ accused' = (accused \/ ~Extends(mirror, e))
    /\ UNCHANGED <<logVars, disk, captured, wire, client, spent>>

-----------------------------------------------------------------------------
Logs == {"order", "match"}

TheLog(l) == IF l = "order" THEN log ELSE matchLog
TheArchive(l) == IF l = "order" THEN archive ELSE matchArchive
TheHistory(l) == IF l = "order" THEN FullHistory ELSE MatchLog!FullHistory

\* order_log_root, match_log_root.
LogRoot(l) == [root |-> Root(TheLog(l)), len |-> NextSeq(TheLog(l))]

\* archived_*_entries_since: tree.range, in the order of the keys.
ArchivedSince(tree, since) ==
    LET seqs == Ascending({s \in DOMAIN tree : s >= since})
    IN [i \in DOMAIN seqs |-> tree[seqs[i]]]

\* The handler of GET .../entries reads the hot window under the lock,
Reading(l, since) ==
    [log |-> l, since |-> since, base |-> TheLog(l).base,
     hot |-> EntriesSince(TheLog(l), since),
     whole |-> SubSeq(TheHistory(l), since + 1, NextSeq(TheLog(l)))]

\* Slip: the archive is not consulted.
HotOnly(r) == r.hot

\* and the archive after it, if the range begins there.
Response(r) ==
    IF r.since >= r.base THEN r.hot ELSE ArchivedSince(TheArchive(r.log), r.since) \o r.hot

\* The archive holds entries the hot part holds as well.
Overlaps(r) == r.since < r.base /\ \E s \in DOMAIN TheArchive(r.log) : s >= r.base

\* A client reads one log from some entry on; the auditor asks for the root
\* of each log and then for all of it, the order log first.
BeginRead(l, since, audit) ==
    /\ IF client = None
       THEN (audit => l = "order" /\ since = 0)
       ELSE client.stage = "next" /\ audit /\ l = "match" /\ since = 0
    /\ client' = [stage |-> "reading", reading |-> Reading(l, since), audit |-> audit,
                  root |-> LogRoot(l),
                  quiet |-> IF client = None THEN TRUE ELSE client.quiet,
                  before |-> IF client = None THEN <<>> ELSE client.before]
    /\ UNCHANGED <<logVars, disk, captured, wire, mirror, accused, spent>>

Reply(r, root) ==
    [log |-> r.log, since |-> r.since, entries |-> Response(r), whole |-> r.whole,
     root |-> root, overlaps |-> Overlaps(r)]

EndRead ==
    /\ client # None /\ client.stage = "reading"
    /\ client' = [stage |-> IF client.audit /\ client.reading.log = "order" THEN "next" ELSE "done",
                  audit |-> client.audit, quiet |-> client.quiet,
                  before |-> Append(client.before, Reply(client.reading, client.root))]
    /\ UNCHANGED <<logVars, disk, captured, wire, mirror, accused, spent>>

Finish ==
    /\ client # None /\ client.stage = "done"
    /\ client' = None
    /\ UNCHANGED <<logVars, disk, captured, wire, mirror, accused, spent>>

-----------------------------------------------------------------------------
Next ==
    \/ AcceptOrder
    \/ \E o, m \in BOOLEAN : SnapshotCycle(o, m)
    \/ \E truncated \in BOOLEAN : SaveSnapshot(truncated)
    \/ SaveFails
    \/ \E appended \in BOOLEAN : Restart(appended)
    \/ \E e \in wire : Mirror(e)
    \/ \E l \in Logs, since \in 0..MaxOrders, audit \in BOOLEAN : BeginRead(l, since, audit)
    \/ EndRead
    \/ Finish

\* The snapshot loop runs on its interval, its cycles one after the other.
Fairness ==
    WF_vars(SnapshotCycle(FALSE, FALSE)) /\ WF_vars(\E t \in BOOLEAN : SaveSnapshot(t))

Spec == Init /\ [][Next]_vars /\ Fairness

-----------------------------------------------------------------------------
LogType(l) == l.base \in Nat /\ DOMAIN l.entries = 1..Len(l.entries) /\ NextSeq(l) <= disk.last

TypeOK ==
    /\ LogType(log) /\ LogType(matchLog) /\ LogType(mirror)
    /\ NextSeq(log) = disk.last
    /\ DOMAIN archive \union DOMAIN matchArchive \subseteq 0..(MaxOrders - 1)

\* Both logs are whole at every moment, archived and hot part together, also
\* after crashes between archiving, saving and truncating: the hash chain
\* verifies from the first entry to the published root.
LogsIntact == HistoryIntact /\ MatchLog!HistoryIntact

Payload(history) == [i \in DOMAIN history |-> history[i].payload]

\* The match log, like the order log (AppendOnly), only grows across crashes and
\* recoveries up to its first match with a local timestamp: replay gives a match
\* with the network's timestamp the same entry again.
SharedMatchesPermanent ==
    [][LET old == MatchLog!FullHistory
           new == MatchLog!FullHistory'
       IN \A i \in DOMAIN old :
            (\A j \in 1..i : old[j].payload[1] \in Evidenced) => i \in DOMAIN new /\ new[i] = old[i]]_vars

\* The watchtower's mirror is a prefix of the order log, and a broadcast it turns
\* down is one it has or one it is not ready for, never a fork, whatever the
\* network does to the broadcasts and however often the node restarts.
MirrorFollows ==
    /\ \A i \in DOMAIN mirror.entries : i \in DOMAIN FullHistory /\ mirror.entries[i] = FullHistory[i]
    /\ \A e \in wire : e.seq = NextSeq(mirror) => Extends(mirror, e)

Replies == IF client = None THEN {} ELSE ToSet(client.before)

\* A response holds every entry asked for, as the log had them when the request
\* came: archiving between the two reads of the handler, or a restart from a
\* snapshot older than the archive, can repeat entries but hide none.
ResponseLosesNothing ==
    \A r \in Replies : ToSet(r.whole) \subseteq ToSet(r.entries)

\* A response is exactly what was asked for unless the archive was ahead of the
\* hot window it was read with.
ResponseExact == \A r \in Replies : ~r.overlaps => r.entries = r.whole

\* audit_order_log's checks.
AuditPasses(replies) ==
    /\ \A i \in DOMAIN replies :
        LET r == replies[i] IN
        /\ Len(r.entries) = r.root.len
        /\ VerifyChain(r.entries)
        /\ r.entries # <<>> /\ r.entries[Len(r.entries)].hash = r.root.root
    /\ LET replayed == SelectSeq(Payload(replies[1].entries), LAMBDA o : o \in Takers)
           reported == Payload(replies[2].entries)
       IN replayed = [i \in DOMAIN reported |-> reported[i][1]]

\* An audit of a node that accepts nothing and archives nothing meanwhile, whose
\* archive is not ahead of its logs and which has matches, passes, whatever
\* crashes and failed writes the node has been through.
QuietAuditPasses ==
    (/\ client # None /\ client.stage = "done" /\ client.audit /\ client.quiet
     /\ \A r \in Replies : ~r.overlaps /\ r.root.len > 0)
        => AuditPasses(client.before)

\* The hot window is always brought back to its size: memory and snapshots do
\* not keep growing, even if some archive writes fail.
EventuallyTrimmed == []<>(~TooLong /\ ~MatchLog!TooLong)

\* The logs and the copy a watchtower keeps are true to each other and to their
\* roots (archive_and_trim_order_log, try_append_remote).
LogsTrue == TypeOK /\ LogsIntact /\ MirrorFollows

\* Whoever reads the logs is served all of what was asked for, and an audit of a
\* quiet node passes (order_log_entries, match_log_entries).
ReadersServed == ResponseLosesNothing /\ ResponseExact /\ QuietAuditPasses
=============================================================================
