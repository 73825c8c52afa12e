------------------------- MODULE AuditTrailProofs ---------------------------
(***************************************************************************)
(* For any number of orders, failures and crashes, any hot window and any  *)
(* choice of matching orders: the two logs stay whole and the watchtower's *)
(* mirror follows the order log (LogsStayTrue), the order log only grows   *)
(* (TrailOnlyGrows), and matches with a shared timestamp are permanent     *)
(* (SharedMatchesStay), through archiving that fails halfway, snapshots    *)
(* that are not saved, crashes and replays.                                *)
(*                                                                         *)
(* A log is spoken of by the entry it has at each seq, wherever that entry *)
(* is kept.  The chain then determines the entries: two logs with the same *)
(* payloads are equal entry by entry, so that what a replay rebuilds can   *)
(* be compared with what was lost without following either step by step.   *)
(*                                                                         *)
(* The last section is about one log by itself, and uses nothing that is   *)
(* assumed of its payloads: it stays whole and verifiable (LogStaysIntact) *)
(* and implements an append-only log (ImplementsAppendOnly).               *)
(***************************************************************************)
EXTENDS AuditTrail, WellFoundedInduction, TLAPS

\* Induction over the natural numbers, for the members of a set.
LEMMA NatSetInduction ==
    ASSUME NEW T, 0 \in T, \A n \in Nat : n \in T => n + 1 \in T
    PROVE  \A n \in Nat : n \in T
<1>. DEFINE Missing == {n \in Nat : n \notin T}
<1>. SUFFICES ASSUME Missing # {} PROVE FALSE
  OBVIOUS
<1>1. PICK n \in Missing : \A m \in Missing : ~(<<m, n>> \in OpToRel(<, Nat))
  BY NatLessThanWellFounded, WFMin, Zenon
<1>2. \A m \in Missing : ~(m < n)
  BY <1>1, Zenon DEF OpToRel
<1>3. n # 0 /\ n - 1 \in Nat /\ n - 1 < n
  OBVIOUS
<1>4. n - 1 \in T
  BY <1>2, <1>3
<1>. QED
  BY <1>3, <1>4

-----------------------------------------------------------------------------
(***************************************************************************)
(* A log over its archive.                                                 *)
(***************************************************************************)
IsLog(l) ==
    /\ l = [base |-> l.base, prev |-> l.prev, entries |-> l.entries]
    /\ l.base \in Nat
    /\ \E S : l.entries \in Seq(S)

\* The entry at seq s, and the hash it continues from.
At(l, tree, s) == IF s < l.base THEN tree[s] ELSE l.entries[s - l.base + 1]
HashBefore(l, tree, s) == IF s = 0 THEN Genesis ELSE At(l, tree, s - 1).hash

\* Every entry is there and continues from the one before it.
Whole(l, tree) ==
    /\ IsLog(l)
    /\ 0..(l.base - 1) \subseteq DOMAIN tree
    /\ l.prev = HashBefore(l, tree, l.base)
    /\ \A s \in 0..(NextSeq(l) - 1) :
         At(l, tree, s) = LogEntry(s, HashBefore(l, tree, s), At(l, tree, s).payload)

\* Two logs have the same entries below n.
Alike(l, tree, k, other, n) == \A s \in 0..(n - 1) : At(k, other, s) = At(l, tree, s)

\* What is known of a log's parts.
LEMMA LogFacts ==
    ASSUME NEW l, IsLog(l)
    PROVE  /\ l.base \in Nat /\ Len(l.entries) \in Nat /\ NextSeq(l) \in Nat
           /\ NextSeq(l) = l.base + Len(l.entries)
           /\ DOMAIN l.entries = 1..Len(l.entries)
  BY DEF IsLog, NextSeq

\* The root is the hash of the last entry.
LEMMA RootIsLastHash ==
    ASSUME NEW l, NEW tree, Whole(l, tree)
    PROVE  Root(l) = HashBefore(l, tree, NextSeq(l))
<1>1. /\ l.base \in Nat /\ Len(l.entries) \in Nat /\ NextSeq(l) = l.base + Len(l.entries)
      /\ l.prev = HashBefore(l, tree, l.base)
  BY LogFacts DEF Whole
<1>2. CASE Len(l.entries) = 0
  <2>1. l.entries = <<>>
    BY <1>2 DEF Whole, IsLog
  <2>. QED
    BY <1>1, <1>2, <2>1 DEF Root, RootAfter
<1>3. CASE Len(l.entries) # 0
  <2>1. l.entries # <<>>
    BY <1>3
  <2>2. ~(NextSeq(l) - 1 < l.base) /\ NextSeq(l) # 0
        /\ NextSeq(l) - 1 - l.base + 1 = Len(l.entries)
    BY <1>1, <1>3
  <2>. QED
    BY ONLY <2>1, <2>2 DEF Root, RootAfter, HashBefore, At
<1>. QED
  BY <1>2, <1>3

\* An entry's predecessors are the same in a log that is alike up to it.
LEMMA SameHashBefore ==
    ASSUME NEW l, NEW tree, NEW k, NEW other, NEW n \in Nat, Alike(l, tree, k, other, n)
    PROVE  \A s \in 0..n : HashBefore(k, other, s) = HashBefore(l, tree, s)
<1>. SUFFICES ASSUME NEW s \in 0..n, s # 0
              PROVE  At(k, other, s - 1) = At(l, tree, s - 1)
  BY DEF HashBefore
<1>1. s - 1 \in 0..(n - 1)
  OBVIOUS
<1>. QED
  BY <1>1 DEF Alike

\* A log with another one's entries is whole if that one is.
LEMMA AlikeIsWhole ==
    ASSUME NEW l, NEW tree, Whole(l, tree), NEW k, NEW other, IsLog(k),
           NextSeq(k) = NextSeq(l), Alike(l, tree, k, other, NextSeq(l)),
           0..(k.base - 1) \subseteq DOMAIN other, k.prev = HashBefore(k, other, k.base)
    PROVE  Whole(k, other)
<1>1. NextSeq(l) \in Nat
  BY LogFacts DEF Whole
<1>2. ASSUME NEW s \in 0..(NextSeq(l) - 1)
      PROVE  At(k, other, s) = LogEntry(s, HashBefore(k, other, s), At(k, other, s).payload)
  <2>1. s \in 0..NextSeq(l)
    BY <1>1
  <2>2. HashBefore(k, other, s) = HashBefore(l, tree, s)
    BY ONLY <1>1, <2>1, SameHashBefore, Alike(l, tree, k, other, NextSeq(l))
  <2>3. At(k, other, s) = At(l, tree, s)
    BY DEF Alike
  <2>4. At(l, tree, s) = LogEntry(s, HashBefore(l, tree, s), At(l, tree, s).payload)
    BY DEF Whole
  <2>. QED
    BY ONLY <2>2, <2>3, <2>4
<1>. QED
  BY <1>2 DEF Whole


\* k is l with an entry for payload p.
HasAppended(k, l, tree, p) ==
    /\ Whole(k, tree) /\ k.base = l.base /\ NextSeq(k) = NextSeq(l) + 1
    /\ Alike(l, tree, k, tree, NextSeq(l))
    /\ At(k, tree, NextSeq(l)).payload = p
    /\ k.entries[Len(k.entries)] = At(k, tree, NextSeq(l))

\* An append links the new entry to the root.
LEMMA AppendKeeps ==
    ASSUME NEW l, NEW tree, Whole(l, tree), NEW p
    PROVE  HasAppended(AppendTo(l, p), l, tree, p)
<1>. DEFINE n == NextSeq(l)
            e == LogEntry(n, Root(l), p)
            es == Append(l.entries, e)
            k == AppendTo(l, p)
<1>1. PICK S : l.entries \in Seq(S)
  BY DEF Whole, IsLog
<1>2. /\ l.base \in Nat /\ Len(l.entries) \in Nat /\ n \in Nat /\ n = l.base + Len(l.entries)
      /\ l = [base |-> l.base, prev |-> l.prev, entries |-> l.entries]
  BY LogFacts DEF Whole, IsLog
<1>3. k = [base |-> l.base, prev |-> l.prev, entries |-> es]
  <2>1. k = [l EXCEPT !.entries = es]
    BY DEF AppendTo
  <2>. HIDE DEF es, k
  <2>. QED
    BY ONLY <1>2, <2>1
<1>4. e = LogEntry(n, HashBefore(l, tree, n), p)
  BY RootIsLastHash
<1>. HIDE DEF e, n
<1>5. /\ es \in Seq(S \union {e}) /\ Len(es) = Len(l.entries) + 1
      /\ \A i \in 1..Len(l.entries) : es[i] = l.entries[i]
      /\ es[Len(l.entries) + 1] = e
  <2>1. l.entries \in Seq(S \union {e})
    BY <1>1
  <2>. QED
    BY <2>1
<1>. HIDE DEF es, k
<1>6. k.base = l.base /\ k.prev = l.prev /\ k.entries = es
  BY <1>3
<1>7. NextSeq(k) = n + 1
  BY <1>2, <1>5, <1>6 DEF NextSeq
<1>8. IsLog(k)
  BY <1>2, <1>3, <1>5, <1>6 DEF IsLog
<1>9. ASSUME NEW s \in 0..(n - 1) PROVE At(k, tree, s) = At(l, tree, s)
  <2>1. CASE s < l.base
    BY <1>6, <2>1 DEF At
  <2>2. CASE ~(s < l.base)
    <3>1. s - l.base + 1 \in 1..Len(l.entries)
      BY <1>2, <2>2
    <3>2. es[s - l.base + 1] = l.entries[s - l.base + 1]
      BY <1>5, <3>1
    <3>. QED
      BY <1>6, <2>2, <3>2 DEF At
  <2>. QED
    BY <2>1, <2>2
<1>10. At(k, tree, n) = e /\ k.entries[Len(k.entries)] = e
  <2>1. ~(n < l.base) /\ n - l.base + 1 = Len(l.entries) + 1
    BY <1>2
  <2>. QED
    BY <1>5, <1>6, <2>1 DEF At
<1>11. Alike(l, tree, k, tree, n)
  BY <1>9 DEF Alike
<1>12. \A s \in 0..n : HashBefore(k, tree, s) = HashBefore(l, tree, s)
  BY ONLY <1>2, <1>11, SameHashBefore
<1>13. e.payload = p
  BY <1>4 DEF LogEntry
<1>14. ASSUME NEW s \in 0..(NextSeq(k) - 1)
       PROVE  At(k, tree, s) = LogEntry(s, HashBefore(k, tree, s), At(k, tree, s).payload)
  <2>1. CASE s = n
    <3>1. HashBefore(k, tree, n) = HashBefore(l, tree, n)
      BY <1>2, <1>12
    <3>. QED
      BY ONLY <1>4, <1>10, <1>13, <2>1, <3>1
  <2>2. CASE s \in 0..(n - 1)
    <3>1. At(l, tree, s) = LogEntry(s, HashBefore(l, tree, s), At(l, tree, s).payload)
      BY <2>2 DEF Whole, n
    <3>2. HashBefore(k, tree, s) = HashBefore(l, tree, s)
      BY <1>2, <1>12, <2>2
    <3>3. At(k, tree, s) = At(l, tree, s)
      BY <1>9, <2>2
    <3>. QED
      BY ONLY <3>1, <3>2, <3>3
  <2>. QED
    BY <1>2, <1>7, <2>1, <2>2
<1>15. Whole(k, tree)
  <2>1. 0..(k.base - 1) \subseteq DOMAIN tree
    BY <1>6 DEF Whole
  <2>2. HashBefore(k, tree, k.base) = HashBefore(l, tree, l.base)
    BY <1>2, <1>6, <1>12
  <2>3. k.prev = HashBefore(k, tree, k.base)
    BY <1>6, <2>2 DEF Whole
  <2>. QED
    BY ONLY <1>8, <1>14, <2>1, <2>3 DEF Whole
<1>. QED
  BY <1>6, <1>7, <1>10, <1>11, <1>13, <1>15 DEF HasAppended, n, k

\* other is the archive tree with n entries of l inserted from l's first on.
HasInserted(other, tree, l, n) ==
    /\ DOMAIN other = DOMAIN tree \union l.base..(l.base + n - 1)
    /\ \A s \in 0..(l.base - 1) : other[s] = tree[s]
    /\ \A s \in l.base..(l.base + n - 1) : other[s] = l.entries[s - l.base + 1]

\* Entries are inserted at their own seq.
LEMMA InsertsEntries ==
    ASSUME NEW l, NEW tree, Whole(l, tree), NEW n \in 0..Len(l.entries)
    PROVE  HasInserted(Inserted(tree, SubSeq(l.entries, 1, n)), tree, l, n)
<1>. DEFINE es == SubSeq(l.entries, 1, n)
            seqs == {es[i].seq : i \in DOMAIN es}
            new == Inserted(tree, es)
<1>1. /\ l.base \in Nat /\ Len(l.entries) \in Nat /\ NextSeq(l) = l.base + Len(l.entries) /\ n \in Nat
  BY LogFacts DEF Whole
<1>2. DOMAIN es = 1..n /\ \A i \in 1..n : es[i] = l.entries[i]
  BY <1>1 DEF Whole, IsLog
<1>. HIDE DEF es
<1>3. ASSUME NEW i \in 1..n PROVE es[i].seq = l.base + i - 1
  <2>. DEFINE s == l.base + i - 1
  <2>1. s \in 0..(NextSeq(l) - 1) /\ ~(s < l.base) /\ s - l.base + 1 = i
    BY <1>1
  <2>. HIDE DEF s
  <2>2. At(l, tree, s) = es[i]
    BY <1>2, <2>1 DEF At
  <2>3. At(l, tree, s) = LogEntry(s, HashBefore(l, tree, s), At(l, tree, s).payload)
    BY <2>1 DEF Whole
  <2>4. At(l, tree, s).seq = s
    BY ONLY <2>3 DEF LogEntry
  <2>. QED
    BY <2>2, <2>4 DEF s
<1>4. seqs = l.base..(l.base + n - 1)
  <2>1. ASSUME NEW s \in seqs PROVE s \in l.base..(l.base + n - 1)
    BY <1>1, <1>2, <1>3
  <2>2. ASSUME NEW s \in l.base..(l.base + n - 1) PROVE s \in seqs
    <3>1. s - l.base + 1 \in 1..n /\ l.base + (s - l.base + 1) - 1 = s
      BY <1>1
    <3>2. es[s - l.base + 1].seq = s
      BY <1>3, <3>1
    <3>. QED
      BY <1>2, <3>1, <3>2
  <2>. QED
    BY <2>1, <2>2
<1>5. new = [s \in DOMAIN tree \union seqs |->
                IF s \in seqs THEN es[CHOOSE i \in DOMAIN es : es[i].seq = s] ELSE tree[s]]
  BY DEF Inserted
<1>. HIDE DEF seqs, new
<1>6. DOMAIN new = DOMAIN tree \union l.base..(l.base + n - 1)
  BY <1>4, <1>5
<1>7. ASSUME NEW s \in 0..(l.base - 1) PROVE new[s] = tree[s]
  <2>1. s \in DOMAIN tree /\ s \notin seqs
    BY <1>1, <1>4, SMTT(30) DEF Whole
  <2>. QED
    BY <1>5, <2>1
<1>8. ASSUME NEW s \in l.base..(l.base + n - 1) PROVE new[s] = l.entries[s - l.base + 1]
  <2>1. s - l.base + 1 \in 1..n /\ l.base + (s - l.base + 1) - 1 = s
    BY <1>1
  <2>2. ASSUME NEW i \in DOMAIN es PROVE es[i].seq = s <=> i = s - l.base + 1
    <3>1. i \in 1..n /\ es[i].seq = l.base + i - 1
      BY <1>2, <1>3, Zenon
    <3>2. l.base \in Int /\ i \in Int /\ s \in Int
      BY <1>1, <3>1
    <3>. QED
      BY ONLY <3>1, <3>2
  <2>3. (CHOOSE i \in DOMAIN es : es[i].seq = s) = s - l.base + 1
    BY <1>2, <2>1, <2>2
  <2>4. s \in seqs
    BY <1>4
  <2>. QED
    BY <1>2, <1>5, <2>1, <2>3, <2>4, Zenon
<1>. QED
  BY <1>6, <1>7, <1>8 DEF HasInserted, new, es

\* A log whose window begins no later is as it was over the larger archive.
LEMMA LowerKept ==
    ASSUME NEW l, NEW tree, Whole(l, tree), NEW b \in Nat, l.base <= b, NEW other,
           DOMAIN tree \subseteq DOMAIN other, \A s \in 0..(b - 1) : other[s] = tree[s]
    PROVE  Whole(l, other) /\ Alike(l, tree, l, other, NextSeq(l))
<1>1. l.base \in Nat /\ NextSeq(l) \in Nat /\ NextSeq(l) = l.base + Len(l.entries)
      /\ Len(l.entries) \in Nat /\ IsLog(l)
  BY LogFacts DEF Whole
<1>2. ASSUME NEW s \in Nat PROVE At(l, other, s) = At(l, tree, s)
  <2>1. CASE s < l.base
    <3>1. s \in 0..(b - 1)
      BY <1>1, <2>1
    <3>. QED
      BY <2>1, <3>1 DEF At
  <2>2. CASE ~(s < l.base)
    BY <2>2 DEF At
  <2>. QED
    BY <2>1, <2>2
<1>3. Alike(l, tree, l, other, NextSeq(l))
  BY <1>2 DEF Alike
<1>4. l.prev = HashBefore(l, other, l.base)
  <2>1. l.base \in 0..NextSeq(l)
    BY <1>1
  <2>2. HashBefore(l, other, l.base) = HashBefore(l, tree, l.base)
    BY ONLY <1>1, <1>3, <2>1, SameHashBefore
  <2>. QED
    BY <2>2 DEF Whole
<1>5. 0..(l.base - 1) \subseteq DOMAIN other
  BY DEF Whole
<1>6. Whole(l, other)
  BY ONLY <1>1, <1>3, <1>4, <1>5, AlikeIsWhole, Whole(l, tree)
<1>. QED
  BY <1>3, <1>6

\* The archive step of one log, from (l, tree) to (k, other): where entries are kept
\* may change, and nothing else.
KeepsEntries(l, tree, k, other) ==
    /\ Whole(k, other) /\ NextSeq(k) = NextSeq(l) /\ l.base <= k.base
    /\ Alike(l, tree, k, other, NextSeq(l))
    /\ DOMAIN tree \subseteq DOMAIN other
    /\ DOMAIN other \subseteq DOMAIN tree \union 0..(NextSeq(l) - 1)
    /\ \A s \in 0..(l.base - 1) : other[s] = tree[s]

\* An archive write that fails leaves entries in the archive that are still hot.
LEMMA FailedWriteKeeps ==
    ASSUME NEW l, NEW tree, Whole(l, tree), NEW n \in 0..Len(l.entries), NEW other,
           HasInserted(other, tree, l, n)
    PROVE  KeepsEntries(l, tree, l, other)
<1>1. l.base \in Nat /\ NextSeq(l) \in Nat /\ NextSeq(l) = l.base + Len(l.entries)
      /\ Len(l.entries) \in Nat
  BY LogFacts DEF Whole
<1>2. /\ DOMAIN tree \subseteq DOMAIN other
      /\ DOMAIN other \subseteq DOMAIN tree \union 0..(NextSeq(l) - 1)
      /\ \A s \in 0..(l.base - 1) : other[s] = tree[s]
  <2>1. DOMAIN other = DOMAIN tree \union l.base..(l.base + n - 1)
        /\ \A s \in 0..(l.base - 1) : other[s] = tree[s]
    BY Zenon DEF HasInserted
  <2>2. l.base..(l.base + n - 1) \subseteq 0..(NextSeq(l) - 1)
    BY ONLY <1>1, n \in 0..Len(l.entries)
  <2>. QED
    BY ONLY <2>1, <2>2, Zenon
<1>3. l.base <= l.base
  BY <1>1
<1>4. Whole(l, other) /\ Alike(l, tree, l, other, NextSeq(l))
  BY ONLY <1>1, <1>2, <1>3, LowerKept, Whole(l, tree)
<1>. QED
  BY <1>2, <1>3, <1>4 DEF KeepsEntries

\* How many entries archive_and_trim_*_log moves.
LEMMA CutInRange ==
    ASSUME NEW l, IsLog(l), NEW from \in Int
    PROVE  Clamped(l, from) \in 0..Len(l.entries)
  BY LogFacts, SMTT(30) DEF Clamped

\* Where an entry that stays hot is, before and after the cut.
LEMMA CutIndex ==
    ASSUME NEW s \in Nat, NEW b \in Nat, NEW c \in Nat, NEW n \in Nat, NEW d,
           s < b + n, ~(s < b + c), d = b + c
    PROVE  /\ ~(s < d) /\ ~(s < b)
           /\ s - d + 1 \in 1..(n - c) /\ c + (s - d + 1) = s - b + 1
  OBVIOUS

\* Trimming resumes the log after the entries that were archived.
LEMMA TrimKeeps ==
    ASSUME NEW l, NEW tree, Whole(l, tree), NEW from \in Int, NEW other,
           HasInserted(other, tree, l, Clamped(l, from))
    PROVE  KeepsEntries(l, tree, Resumed(l, from), other)
<1>. DEFINE c == Clamped(l, from)
            es == SubSeq(l.entries, c + 1, Len(l.entries))
            old == SubSeq(l.entries, 1, c)
            k == Resumed(l, from)
<1>1. PICK S : l.entries \in Seq(S)
  BY DEF Whole, IsLog
<1>2. /\ l.base \in Nat /\ NextSeq(l) \in Nat /\ NextSeq(l) = l.base + Len(l.entries)
      /\ Len(l.entries) \in Nat /\ IsLog(l)
  BY LogFacts DEF Whole
<1>3. c \in 0..Len(l.entries)
  BY <1>2, CutInRange
<1>4. k = [base |-> l.base + c, prev |-> RootAfter(l.prev, old), entries |-> es]
  BY DEF Resumed, ArchivedPrefix
<1>. HIDE DEF c, k
<1>5. /\ es \in Seq(S) /\ Len(es) = Len(l.entries) - c
      /\ \A i \in 1..(Len(l.entries) - c) : es[i] = l.entries[c + i]
  BY <1>1, <1>2, <1>3, SMTT(30)
<1>6. RootAfter(l.prev, old) = IF c = 0 THEN l.prev ELSE l.entries[c].hash
  <2>1. Len(old) = c /\ \A i \in 1..c : old[i] = l.entries[i]
    BY <1>1, <1>2, <1>3
  <2>2. c = 0 => old = <<>>
    BY <1>1
  <2>3. c # 0 => old # <<>>
    BY <2>1, <1>3
  <2>. HIDE DEF old
  <2>. QED
    BY <1>3, <2>1, <2>2, <2>3 DEF RootAfter
<1>. HIDE DEF es, old
<1>7. k.base = l.base + c /\ k.entries = es /\ k.prev = IF c = 0 THEN l.prev ELSE l.entries[c].hash
  BY <1>4, <1>6
<1>8. IsLog(k) /\ NextSeq(k) = NextSeq(l) /\ l.base <= k.base
  <2>1. NextSeq(k) = k.base + Len(k.entries)
    BY DEF NextSeq
  <2>2. k = [base |-> k.base, prev |-> k.prev, entries |-> k.entries] /\ k.entries \in Seq(S)
    BY ONLY <1>4, <1>5, <1>7
  <2>3. k.base \in Nat /\ l.base <= k.base
    BY ONLY <1>2, <1>3, <1>7
  <2>4. k.base + Len(k.entries) = NextSeq(l)
    BY ONLY <1>2, <1>3, <1>5, <1>7
  <2>. QED
    BY ONLY <2>1, <2>2, <2>3, <2>4, Zenon DEF IsLog
<1>9. /\ DOMAIN other = DOMAIN tree \union l.base..(l.base + c - 1)
      /\ \A s \in 0..(l.base - 1) : other[s] = tree[s]
      /\ \A s \in l.base..(l.base + c - 1) : other[s] = l.entries[s - l.base + 1]
  BY DEF HasInserted, c
<1>10. ASSUME NEW s \in 0..(NextSeq(l) - 1) PROVE At(k, other, s) = At(l, tree, s)
  <2>0. /\ s \in Nat /\ l.base \in Nat /\ c \in Nat /\ Len(l.entries) \in Nat
        /\ s < l.base + Len(l.entries) /\ k.base = l.base + c
    BY <1>2, <1>3, <1>7
  <2>1. CASE s < l.base
    <3>1. s \in 0..(l.base - 1) /\ s < k.base
      BY ONLY <2>0, <2>1
    <3>. QED
      BY <1>9, <2>1, <3>1 DEF At
  <2>2. CASE s \in l.base..(l.base + c - 1)
    <3>1. s < k.base /\ ~(s < l.base)
      BY ONLY <2>0, <2>2
    <3>. QED
      BY <1>9, <2>2, <3>1 DEF At
  <2>3. CASE ~(s < l.base + c)
    <3>1. /\ ~(s < k.base) /\ ~(s < l.base)
          /\ s - k.base + 1 \in 1..(Len(l.entries) - c) /\ c + (s - k.base + 1) = s - l.base + 1
      BY ONLY <2>0, <2>3, CutIndex, SMTT(30)
    <3>2. es[s - k.base + 1] = l.entries[s - l.base + 1]
      BY <1>5, <3>1
    <3>. QED
      BY <1>7, <3>1, <3>2 DEF At
  <2>. QED
    BY ONLY <2>0, <2>1, <2>2, <2>3
<1>11. Alike(l, tree, k, other, NextSeq(l))
  BY <1>10 DEF Alike
<1>12. k.prev = HashBefore(k, other, k.base)
  <2>1. k.base \in 0..NextSeq(l)
    BY <1>2, <1>3, <1>7
  <2>2. HashBefore(k, other, k.base) = HashBefore(l, tree, k.base)
    BY ONLY <1>2, <1>11, <2>1, SameHashBefore
  <2>3. CASE c = 0
    BY <1>2, <1>7, <2>2, <2>3 DEF Whole
  <2>4. CASE c # 0
    <3>1. k.base # 0 /\ ~(k.base - 1 < l.base) /\ k.base - 1 - l.base + 1 = c
      BY <1>2, <1>3, <1>7, <2>4
    <3>2. HashBefore(l, tree, k.base) = l.entries[c].hash
      BY <3>1, Zenon DEF HashBefore, At
    <3>. QED
      BY <1>7, <2>2, <2>4, <3>2, Zenon
  <2>. QED
    BY <2>3, <2>4
<1>13. 0..(k.base - 1) \subseteq DOMAIN other
  BY <1>2, <1>3, <1>7, <1>9 DEF Whole
<1>14. Whole(k, other)
  BY ONLY <1>8, <1>11, <1>12, <1>13, AlikeIsWhole, Whole(l, tree), Zenon
<1>15. DOMAIN tree \subseteq DOMAIN other
       /\ DOMAIN other \subseteq DOMAIN tree \union 0..(NextSeq(l) - 1)
  BY <1>2, <1>3, <1>9, SMTT(30)
<1>. QED
  BY <1>8, <1>9, <1>11, <1>14, <1>15, Zenon DEF KeepsEntries, k

\* Nothing is archived.
LEMMA NothingArchived ==
    ASSUME NEW l, NEW tree, Whole(l, tree)
    PROVE  KeepsEntries(l, tree, l, tree)
  BY LogFacts DEF KeepsEntries, Whole, Alike

\* The order log in a snapshot cycle.
LEMMA OrdersArchived ==
    ASSUME Whole(log, archive), NEW failed, ArchiveOrders(failed), HotWindow \in Nat
    PROVE  KeepsEntries(log, archive, log', archive')
<1>1. IsLog(log) /\ NextSeq(log) \in Nat /\ KeepFrom \in Int
  BY LogFacts DEF Whole, KeepFrom
<1>2. ASSUME NEW n \in 0..Len(log.entries), ArchiveFails(n)
      PROVE  KeepsEntries(log, archive, log', archive')
  <2>1. log' = log /\ archive' = Inserted(archive, SubSeq(log.entries, 1, n))
    BY <1>2 DEF ArchiveFails
  <2>2. HasInserted(archive', archive, log, n)
    BY <2>1, InsertsEntries
  <2>. QED
    BY <2>1, <2>2, FailedWriteKeeps
<1>3. ASSUME ArchiveAndTrim PROVE KeepsEntries(log, archive, log', archive')
  <2>1. /\ log' = Resumed(log, KeepFrom)
        /\ archive' = Inserted(archive, SubSeq(log.entries, 1, Clamped(log, KeepFrom)))
    BY <1>3 DEF ArchiveAndTrim, ArchivedPrefix
  <2>2. HasInserted(archive', archive, log, Clamped(log, KeepFrom))
    BY <1>1, <2>1, CutInRange, InsertsEntries, Zenon
  <2>. QED
    BY <1>1, <2>1, <2>2, TrimKeeps
<1>4. ASSUME UNCHANGED <<log, archive>> PROVE KeepsEntries(log, archive, log', archive')
  BY <1>4, NothingArchived
<1>. QED
  BY <1>2, <1>3, <1>4 DEF ArchiveOrders

\* The match log in a snapshot cycle.
LEMMA MatchesArchived ==
    ASSUME Whole(matchLog, matchArchive), NEW failed, ArchiveMatches(failed), HotWindow \in Nat
    PROVE  KeepsEntries(matchLog, matchArchive, matchLog', matchArchive')
<1>. DEFINE from == NextSeq(matchLog) - HotWindow
<1>1. IsLog(matchLog) /\ NextSeq(matchLog) \in Nat /\ from \in Int
  BY LogFacts, SMTT(30) DEF Whole
<1>. HIDE DEF from
<1>2. ASSUME NEW n \in 0..Len(matchLog.entries), MatchLog!ArchiveFails(n)
      PROVE  KeepsEntries(matchLog, matchArchive, matchLog', matchArchive')
  <2>1. matchLog' = matchLog /\ matchArchive' = Inserted(matchArchive, SubSeq(matchLog.entries, 1, n))
    BY <1>2 DEF MatchLog!ArchiveFails, MatchLog!Inserted, Inserted
  <2>2. HasInserted(matchArchive', matchArchive, matchLog, n)
    BY <2>1, InsertsEntries
  <2>. QED
    BY <2>1, <2>2, FailedWriteKeeps
<1>3. ASSUME MatchLog!ArchiveAndTrim PROVE KeepsEntries(matchLog, matchArchive, matchLog', matchArchive')
  <2>1. /\ matchLog' = Resumed(matchLog, from)
        /\ matchArchive' = Inserted(matchArchive, SubSeq(matchLog.entries, 1, Clamped(matchLog, from)))
    BY <1>3, Zenon DEF MatchLog!ArchiveAndTrim, MatchLog!ArchivedPrefix, MatchLog!Inserted, Inserted,
                MatchLog!KeepFrom, MatchLog!NextSeq, NextSeq, MatchLog!Resumed, Resumed, ArchivedPrefix,
                MatchLog!Clamped, Clamped, MatchLog!RootAfter, RootAfter, from
  <2>2. HasInserted(matchArchive', matchArchive, matchLog, Clamped(matchLog, from))
    BY <1>1, <2>1, CutInRange, InsertsEntries, Zenon
  <2>. QED
    BY <1>1, <2>1, <2>2, TrimKeeps, SMTT(30)
<1>4. ASSUME UNCHANGED <<matchLog, matchArchive>>
      PROVE  KeepsEntries(matchLog, matchArchive, matchLog', matchArchive')
  BY <1>4, NothingArchived
<1>. QED
  BY <1>2, <1>3, <1>4 DEF ArchiveMatches

-----------------------------------------------------------------------------
(***************************************************************************)
(* What the two logs hold after n orders.                                  *)
(***************************************************************************)

\* The hash chain determines the entries: same payloads, same entries.
LEMMA ChainDetermines ==
    ASSUME NEW l, NEW tree, Whole(l, tree), NEW k, NEW other, Whole(k, other),
           NEW n \in Nat, n <= NextSeq(l), n <= NextSeq(k),
           \A s \in 0..(n - 1) : At(k, other, s).payload = At(l, tree, s).payload
    PROVE  Alike(l, tree, k, other, n)
<1>. DEFINE T == {s \in Nat : s < n => At(k, other, s) = At(l, tree, s)}
<1>1. NextSeq(l) \in Nat /\ NextSeq(k) \in Nat
  BY LogFacts DEF Whole
<1>2. ASSUME NEW s \in Nat, s < n, HashBefore(k, other, s) = HashBefore(l, tree, s)
      PROVE  At(k, other, s) = At(l, tree, s)
  <2>1. s \in 0..(n - 1) /\ s \in 0..(NextSeq(l) - 1) /\ s \in 0..(NextSeq(k) - 1)
    BY <1>1, <1>2
  <2>2. At(l, tree, s) = LogEntry(s, HashBefore(l, tree, s), At(l, tree, s).payload)
    BY <2>1 DEF Whole
  <2>3. At(k, other, s) = LogEntry(s, HashBefore(k, other, s), At(k, other, s).payload)
    BY <2>1 DEF Whole
  <2>4. At(k, other, s).payload = At(l, tree, s).payload
    BY <2>1
  <2>. QED
    BY ONLY <1>2, <2>2, <2>3, <2>4
<1>3. 0 \in T
  BY <1>2 DEF HashBefore
<1>4. ASSUME NEW s \in Nat, s \in T PROVE s + 1 \in T
  <2>1. s + 1 \in Nat /\ s + 1 # 0 /\ s + 1 - 1 = s
    OBVIOUS
  <2>2. ASSUME s + 1 < n PROVE HashBefore(k, other, s + 1) = HashBefore(l, tree, s + 1)
    <3>1. At(k, other, s) = At(l, tree, s)
      BY <1>4, <2>2
    <3>. QED
      BY ONLY <2>1, <3>1 DEF HashBefore
  <2>. QED
    BY <1>2, <2>1, <2>2
<1>. HIDE DEF T
<1>5. \A s \in Nat : s \in T
  BY ONLY <1>3, <1>4, NatSetInduction
<1>. QED
  BY <1>5 DEF T, Alike

\* The order log after n orders: order s + 1 at seq s.
OrdersTo(l, tree, n) ==
    /\ Whole(l, tree) /\ NextSeq(l) = n
    /\ \A s \in 0..(n - 1) : At(l, tree, s).payload = s + 1

\* The order a match was made by.
TakerAt(l, tree, s) == At(l, tree, s).payload[1]

\* The match log after n orders: the matches of those among them that match, in
\* their order, with the network's timestamp where there is one.
MatchesTo(l, tree, n) ==
    /\ Whole(l, tree) /\ NextSeq(l) <= n
    /\ \A s \in 0..(NextSeq(l) - 1) :
         /\ TakerAt(l, tree, s) \in Takers /\ TakerAt(l, tree, s) \in 1..n
         /\ TakerAt(l, tree, s) \in Evidenced => At(l, tree, s).payload = <<TakerAt(l, tree, s), 0>>
    /\ \A s, t \in 0..(NextSeq(l) - 1) : s < t => TakerAt(l, tree, s) < TakerAt(l, tree, t)
    /\ \A o \in Takers : o \in 1..n => \E s \in 0..(NextSeq(l) - 1) : TakerAt(l, tree, s) = o

\* Two order logs are the same as far as both go.
LEMMA OrdersSame ==
    ASSUME NEW l, NEW tree, NEW n \in Nat, OrdersTo(l, tree, n),
           NEW k, NEW other, NEW m \in Nat, OrdersTo(k, other, m), n <= m
    PROVE  Alike(l, tree, k, other, n)
<1>1. Whole(l, tree) /\ Whole(k, other) /\ n <= NextSeq(l) /\ n <= NextSeq(k)
  BY DEF OrdersTo
<1>2. ASSUME NEW s \in 0..(n - 1) PROVE At(k, other, s).payload = At(l, tree, s).payload
  <2>1. s \in 0..(m - 1)
    OBVIOUS
  <2>. QED
    BY <2>1 DEF OrdersTo
<1>. QED
  BY <1>1, <1>2, ChainDetermines

\* The matches of the first log are the first ones of the second.
TakersAgree(l, tree, k, other) ==
    /\ NextSeq(l) <= NextSeq(k)
    /\ \A s \in 0..(NextSeq(l) - 1) : TakerAt(k, other, s) = TakerAt(l, tree, s)

\* Two match logs have the same matches, up to their timestamps.
LEMMA TakersSame ==
    ASSUME NEW l, NEW tree, NEW n \in Nat, MatchesTo(l, tree, n),
           NEW k, NEW other, NEW m \in Nat, MatchesTo(k, other, m), n <= m
    PROVE  TakersAgree(l, tree, k, other)
<1>. DEFINE a(s) == TakerAt(l, tree, s)
            b(s) == TakerAt(k, other, s)
            x == NextSeq(l)
            y == NextSeq(k)
            Same(s) == s < x => s < y /\ b(s) = a(s)
            T == {i \in Nat : \A s \in 0..(i - 1) : Same(s)}
<1>1. x \in Nat /\ y \in Nat
  BY LogFacts, Zenon DEF MatchesTo, Whole
<1>2. /\ \A s \in 0..(x - 1) : a(s) \in Takers /\ a(s) \in 1..n
      /\ \A s, t \in 0..(x - 1) : s < t => a(s) < a(t)
      /\ \A o \in Takers : o \in 1..n => \E s \in 0..(x - 1) : a(s) = o
      /\ \A s \in 0..(y - 1) : b(s) \in Takers /\ b(s) \in 1..m
      /\ \A s, t \in 0..(y - 1) : s < t => b(s) < b(t)
      /\ \A o \in Takers : o \in 1..m => \E s \in 0..(y - 1) : b(s) = o
  BY DEF MatchesTo
<1>. HIDE DEF a, b, x, y
<1>3. ASSUME NEW i \in Nat, \A s \in 0..(i - 1) : Same(s) PROVE Same(i)
  <2>. SUFFICES ASSUME i < x PROVE i < y /\ b(i) = a(i)
    OBVIOUS
  <2>1. i \in 0..(x - 1) /\ a(i) \in Takers /\ a(i) \in 1..n /\ a(i) \in 1..m
    BY <1>1, <1>2
  <2>2. PICK j \in 0..(y - 1) : b(j) = a(i)
    BY <1>2, <2>1
  <2>3. ~(j < i)
    <3>. SUFFICES ASSUME j < i PROVE FALSE
      OBVIOUS
    <3>1. j \in 0..(i - 1) /\ j \in 0..(x - 1)
      BY <1>1, <2>1
    <3>2. b(j) = a(j)
      BY <1>1, <1>3, <3>1
    <3>3. a(j) < a(i)
      BY <1>2, <2>1, <3>1
    <3>4. a(i) \in Nat
      BY <2>1
    <3>. QED
      BY ONLY <2>2, <3>2, <3>3, <3>4
  <2>4. i \in 0..(y - 1) /\ b(i) \in Takers /\ b(i) \in Nat
    BY <1>1, <1>2, <2>3
  <2>5. b(i) <= a(i)
    <3>1. CASE i = j
      BY <2>2, <2>4, <3>1
    <3>2. CASE i < j
      BY <1>2, <2>2, <2>4, <3>2, <2>1
    <3>. QED
      BY <2>3, <2>4, <3>1, <3>2
  <2>6. b(i) \in 1..n
    BY <1>2, <2>1, <2>4, <2>5
  <2>7. PICK h \in 0..(x - 1) : a(h) = b(i)
    BY <1>2, <2>4, <2>6
  <2>8. ~(h < i)
    <3>. SUFFICES ASSUME h < i PROVE FALSE
      OBVIOUS
    <3>1. h \in 0..(i - 1) /\ h \in 0..(x - 1)
      BY <1>1, <2>1
    <3>2. h \in 0..(y - 1) /\ b(h) = a(h)
      BY <1>1, <1>3, <3>1
    <3>3. b(h) < b(i)
      BY <1>2, <2>4, <3>2
    <3>. QED
      BY <2>4, <2>7, <3>2, <3>3
  <2>9. a(i) <= b(i)
    <3>1. CASE i = h
      BY <2>7, <2>4, <3>1
    <3>2. CASE i < h
      BY <1>2, <2>1, <2>4, <2>7, <3>2
    <3>. QED
      BY <2>1, <2>8, <3>1, <3>2
  <2>10. a(i) \in Nat /\ b(i) \in Nat
    BY <2>1, <2>4
  <2>11. b(i) = a(i)
    BY ONLY <2>5, <2>9, <2>10
  <2>. QED
    BY <1>1, <2>4, <2>11
<1>4. 0 \in T
  OBVIOUS
<1>5. ASSUME NEW i \in Nat, i \in T PROVE i + 1 \in T
  <2>1. \A s \in 0..(i - 1) : Same(s)
    BY <1>5
  <2>2. Same(i)
    BY <1>3, <2>1
  <2>. HIDE DEF Same
  <2>. QED
    BY <2>1, <2>2
<1>. HIDE DEF T
<1>6. \A i \in Nat : i \in T
  BY ONLY <1>4, <1>5, NatSetInduction
<1>7. \A s \in 0..(x - 1) : Same(s)
  BY <1>1, <1>6 DEF T
<1>8. x <= y
  <2>1. CASE x = 0
    BY <1>1, <2>1
  <2>2. CASE x # 0
    <3>1. x - 1 \in 0..(x - 1) /\ x - 1 < x
      BY <1>1, <2>2
    <3>2. x - 1 < y
      BY <1>7, <3>1
    <3>. QED
      BY <1>1, <3>2
  <2>. QED
    BY <2>1, <2>2
<1>9. \A s \in 0..(x - 1) : b(s) = a(s)
  BY <1>1, <1>7
<1>. QED
  BY <1>8, <1>9, Zenon DEF TakersAgree, a, b, x, y

\* A log with the same entries holds the same orders ...
LEMMA OrdersAlike ==
    ASSUME NEW l, NEW tree, NEW n \in Nat, OrdersTo(l, tree, n), NEW k, NEW other,
           Whole(k, other), NextSeq(k) = NextSeq(l), Alike(l, tree, k, other, NextSeq(l))
    PROVE  OrdersTo(k, other, n)
  BY Zenon DEF OrdersTo, Alike

\* ... and the same matches.
LEMMA MatchesAlike ==
    ASSUME NEW l, NEW tree, NEW n \in Nat, MatchesTo(l, tree, n), NEW k, NEW other,
           Whole(k, other), NextSeq(k) = NextSeq(l), Alike(l, tree, k, other, NextSeq(l))
    PROVE  MatchesTo(k, other, n)
<1>1. \A s \in 0..(NextSeq(l) - 1) :
        TakerAt(k, other, s) = TakerAt(l, tree, s) /\ At(k, other, s) = At(l, tree, s)
  BY DEF Alike, TakerAt
<1>. QED
  BY <1>1, Zenon DEF MatchesTo

\* The next order is logged.
LEMMA OrderAppended ==
    ASSUME NEW l, NEW tree, NEW n \in Nat, OrdersTo(l, tree, n), NEW k,
           HasAppended(k, l, tree, n + 1)
    PROVE  OrdersTo(k, tree, n + 1)
<1>1. /\ Whole(k, tree) /\ NextSeq(k) = n + 1 /\ At(k, tree, n).payload = n + 1
      /\ \A s \in 0..(n - 1) : At(k, tree, s) = At(l, tree, s)
  BY DEF OrdersTo, HasAppended, Alike
<1>2. ASSUME NEW s \in 0..(n + 1 - 1) PROVE At(k, tree, s).payload = s + 1
  <2>1. s = n \/ s \in 0..(n - 1)
    OBVIOUS
  <2>. QED
    BY <1>1, <2>1 DEF OrdersTo
<1>. QED
  BY <1>1, <1>2 DEF OrdersTo

\* The next order matches nothing.
LEMMA NoMatch ==
    ASSUME NEW l, NEW tree, NEW n \in Nat, MatchesTo(l, tree, n), n + 1 \notin Takers
    PROVE  MatchesTo(l, tree, n + 1)
<1>1. NextSeq(l) \in Nat /\ NextSeq(l) <= n + 1
  BY LogFacts DEF MatchesTo, Whole
<1>2. \A o \in Takers : o \in 1..(n + 1) => o \in 1..n
  OBVIOUS
<1>3. 1..n \subseteq 1..(n + 1)
  OBVIOUS
<1>. QED
  BY <1>1, <1>2, <1>3, Zenon DEF MatchesTo

\* The match of the next order is logged.
LEMMA MatchAppended ==
    ASSUME NEW l, NEW tree, NEW n \in Nat, MatchesTo(l, tree, n), n + 1 \in Takers, NEW k,
           NEW clock, HasAppended(k, l, tree, MatchOf(n + 1, clock))
    PROVE  MatchesTo(k, tree, n + 1)
<1>. DEFINE x == NextSeq(l)
<1>1. x \in Nat /\ x <= n
  BY LogFacts DEF MatchesTo, Whole
<1>2. /\ Whole(k, tree) /\ NextSeq(k) = x + 1
      /\ At(k, tree, x).payload = MatchOf(n + 1, clock)
      /\ \A s \in 0..(x - 1) : At(k, tree, s) = At(l, tree, s)
  BY Zenon DEF HasAppended, Alike
<1>3. /\ \A s \in 0..(x - 1) :
           /\ TakerAt(l, tree, s) \in Takers /\ TakerAt(l, tree, s) \in 1..n
           /\ TakerAt(l, tree, s) \in Evidenced => At(l, tree, s).payload = <<TakerAt(l, tree, s), 0>>
      /\ \A s, t \in 0..(x - 1) : s < t => TakerAt(l, tree, s) < TakerAt(l, tree, t)
      /\ \A o \in Takers : o \in 1..n => \E s \in 0..(x - 1) : TakerAt(l, tree, s) = o
  BY Zenon DEF MatchesTo
<1>. HIDE DEF x
<1>4. TakerAt(k, tree, x) = n + 1
      /\ (n + 1 \in Evidenced => At(k, tree, x).payload = <<n + 1, 0>>)
  BY <1>2 DEF TakerAt, MatchOf
<1>5. \A s \in 0..(x - 1) : TakerAt(k, tree, s) = TakerAt(l, tree, s)
  BY <1>2 DEF TakerAt
<1>6. \A s \in 0..(NextSeq(k) - 1) : s = x \/ s \in 0..(x - 1)
  BY <1>1, <1>2, SMTT(30)
<1>7. ASSUME NEW s \in 0..(NextSeq(k) - 1)
      PROVE  /\ TakerAt(k, tree, s) \in Takers /\ TakerAt(k, tree, s) \in 1..(n + 1)
             /\ TakerAt(k, tree, s) \in Evidenced => At(k, tree, s).payload = <<TakerAt(k, tree, s), 0>>
  <2>1. CASE s = x
    BY <1>4, <2>1
  <2>2. CASE s \in 0..(x - 1)
    <3>1. /\ TakerAt(l, tree, s) \in Takers /\ TakerAt(l, tree, s) \in 1..n
          /\ TakerAt(l, tree, s) \in Evidenced => At(l, tree, s).payload = <<TakerAt(l, tree, s), 0>>
      BY <1>3, <2>2, Zenon
    <3>2. TakerAt(l, tree, s) \in 1..(n + 1)
      BY <3>1
    <3>3. TakerAt(k, tree, s) = TakerAt(l, tree, s) /\ At(k, tree, s) = At(l, tree, s)
      BY <1>2, <1>5, <2>2
    <3>. QED
      BY ONLY <3>1, <3>2, <3>3, Zenon
  <2>. QED
    BY <1>6, <2>1, <2>2, Zenon
<1>8. ASSUME NEW s \in 0..(NextSeq(k) - 1), NEW t \in 0..(NextSeq(k) - 1), s < t
      PROVE  TakerAt(k, tree, s) < TakerAt(k, tree, t)
  <2>1. s \in 0..(x - 1)
    BY <1>1, <1>2, <1>8, SMTT(30)
  <2>2. TakerAt(k, tree, s) = TakerAt(l, tree, s) /\ TakerAt(l, tree, s) \in 1..n
    BY <1>3, <1>5, <2>1, Zenon
  <2>3. CASE t = x
    BY <1>4, <2>2, <2>3, SMTT(30)
  <2>4. CASE t \in 0..(x - 1)
    BY <1>3, <1>5, <1>8, <2>1, <2>4, ZenonT(60)
  <2>. QED
    BY <1>6, <2>3, <2>4, Zenon
<1>9. ASSUME NEW o \in Takers, o \in 1..(n + 1)
      PROVE  \E s \in 0..(NextSeq(k) - 1) : TakerAt(k, tree, s) = o
  <2>1. CASE o = n + 1
    <3>1. x \in 0..(NextSeq(k) - 1)
      BY <1>1, <1>2
    <3>. QED
      BY <1>4, <2>1, <3>1
  <2>2. CASE o \in 1..n
    <3>1. PICK s \in 0..(x - 1) : TakerAt(l, tree, s) = o
      BY <1>3, <2>2
    <3>2. s \in 0..(NextSeq(k) - 1)
      BY <1>1, <1>2
    <3>. QED
      BY <1>5, <3>1, <3>2, Zenon
  <2>3. o = n + 1 \/ o \in 1..n
    BY <1>9
  <2>. QED
    BY <2>1, <2>2, <2>3, Zenon
<1>10. NextSeq(k) <= n + 1
  BY <1>1, <1>2
<1>. QED
  BY ONLY <1>2, <1>7, <1>8, <1>9, <1>10, ZenonT(60) DEF MatchesTo

\* Both logs after n orders.
LogsTo(logs, tree, matchTree, n) ==
    OrdersTo(logs.orders, tree, n) /\ MatchesTo(logs.matches, matchTree, n)

\* Both logs after the next order.
HasApplied(new, logs, tree, matchTree, n) ==
    /\ LogsTo(new, tree, matchTree, n + 1)
    /\ new.orders.base = logs.orders.base /\ new.matches.base = logs.matches.base
    /\ NextSeq(logs.matches) <= NextSeq(new.matches)
    /\ Alike(logs.matches, matchTree, new.matches, matchTree, NextSeq(logs.matches))
    /\ new.orders.entries[Len(new.orders.entries)] = At(new.orders, tree, n)

\* apply_accepted_order_locally takes the logs to the next order.
LEMMA AppliedKeeps ==
    ASSUME NEW logs, NEW tree, NEW matchTree, NEW n \in Nat, LogsTo(logs, tree, matchTree, n), NEW clock
    PROVE  HasApplied(Applied(logs, n + 1, clock), logs, tree, matchTree, n)
<1>. DEFINE o == AppendTo(logs.orders, n + 1)
            m == AppendTo(logs.matches, MatchOf(n + 1, clock))
            new == Applied(logs, n + 1, clock)
<1>1. /\ OrdersTo(logs.orders, tree, n) /\ Whole(logs.orders, tree) /\ NextSeq(logs.orders) = n
      /\ MatchesTo(logs.matches, matchTree, n) /\ Whole(logs.matches, matchTree)
  BY Zenon DEF LogsTo, OrdersTo, MatchesTo
<1>2. new.orders = o /\ new.matches = IF n + 1 \in Takers THEN m ELSE logs.matches
  BY Zenon DEF Applied
<1>3. HasAppended(o, logs.orders, tree, n + 1)
  BY <1>1, AppendKeeps, Zenon
<1>4. HasAppended(m, logs.matches, matchTree, MatchOf(n + 1, clock))
  BY <1>1, AppendKeeps, Zenon
<1>. HIDE DEF o, m, new
<1>5. OrdersTo(o, tree, n + 1)
  BY ONLY <1>1, <1>3, n \in Nat, OrderAppended, Zenon
<1>6. /\ o.base = logs.orders.base
      /\ o.entries[Len(o.entries)] = At(o, tree, n)
  BY <1>1, <1>3, Zenon DEF HasAppended
<1>7. NextSeq(logs.matches) \in Nat
  BY <1>1, LogFacts, Zenon DEF Whole
<1>8. CASE n + 1 \in Takers
  <2>1. MatchesTo(m, matchTree, n + 1)
    BY ONLY <1>1, <1>4, <1>8, n \in Nat, MatchAppended, Zenon
  <2>2. /\ m.base = logs.matches.base /\ NextSeq(logs.matches) <= NextSeq(m)
        /\ Alike(logs.matches, matchTree, m, matchTree, NextSeq(logs.matches))
    BY <1>4, <1>7 DEF HasAppended
  <2>3. new.orders = o /\ new.matches = m
    BY <1>2, <1>8, Zenon
  <2>. QED
    BY ONLY <1>5, <1>6, <2>1, <2>2, <2>3, Zenon DEF HasApplied, LogsTo, new
<1>9. CASE n + 1 \notin Takers
  <2>1. MatchesTo(logs.matches, matchTree, n + 1)
    BY ONLY <1>1, <1>9, n \in Nat, NoMatch
  <2>2. Alike(logs.matches, matchTree, logs.matches, matchTree, NextSeq(logs.matches))
    BY DEF Alike
  <2>3. NextSeq(logs.matches) <= NextSeq(logs.matches)
    BY <1>7
  <2>4. new.orders = o /\ new.matches = logs.matches
    BY <1>2, <1>9
  <2>. QED
    BY ONLY <1>5, <1>6, <2>1, <2>2, <2>3, <2>4, ZenonT(60) DEF HasApplied, LogsTo, new
<1>. QED
  BY <1>8, <1>9, Zenon

-----------------------------------------------------------------------------
(***************************************************************************)
(* Replay.                                                                 *)
(***************************************************************************)
ReplayOrder(clock, logs, o) == Applied(logs, o, clock)

\* The logs a replay has rebuilt after i orders; x is where it started.
Replaying(x, i, logs, same) ==
    /\ LogsTo(logs, x.tree, x.matchTree, x.from + i)
    /\ logs.orders.base = x.base /\ logs.matches.base = x.matchBase

RF == INSTANCE FoldTheorems WITH Op <- ReplayOrder, Alike <- Replaying

\* The hypothesis of its lemmas.
LEMMA RFInduction == RF!Induction
  BY NatSetInduction DEF RF!Induction

\* The loop of replay_persistence_log.
Rebuilt(start, from, last, clock) == RF!Fold(clock, start, [i \in 1..(last - from) |-> from + i])

\* Recovered is that loop.
LEMMA RecoveredIsRebuilt ==
    ASSUME NEW last, NEW clock
    PROVE  Recovered(last, clock) =
             Rebuilt([orders |-> disk.orders, matches |-> disk.matches], NextSeq(disk.orders), last, clock)
  BY Zenon DEF Recovered, Rebuilt, FoldLeft, MapThenFoldSet, RF!Fold, RF!MapThenFoldSet, Max, RF!Top, ReplayOrder

\* A replay takes the logs of a snapshot to the last order of the write-ahead log.
LEMMA RebuiltTo ==
    ASSUME NEW start, NEW tree, NEW matchTree, NEW from \in Nat, LogsTo(start, tree, matchTree, from),
           NEW last \in Nat, from <= last, NEW clock
    PROVE  LET new == Rebuilt(start, from, last, clock)
           IN /\ LogsTo(new, tree, matchTree, last)
              /\ new.orders.base = start.orders.base /\ new.matches.base = start.matches.base
<1>. DEFINE x == [tree |-> tree, matchTree |-> matchTree, from |-> from,
                  base |-> start.orders.base, matchBase |-> start.matches.base]
            n == last - from
            s == [i \in 1..n |-> from + i]
<1>1. n \in Nat /\ s \in Seq(Nat) /\ Len(s) = n /\ \A i \in 1..n : s[i] = from + i
  OBVIOUS
<1>2. /\ x.tree = tree /\ x.matchTree = matchTree /\ x.from = from
      /\ x.base = start.orders.base /\ x.matchBase = start.matches.base
  OBVIOUS
<1>3. from + 0 = from /\ from + n = last
  BY <1>1
<1>. HIDE DEF x, s, n
<1>4. Replaying(x, 0, start, start)
  BY <1>2, <1>3, Zenon DEF Replaying
<1>5. RF!Keeps(x, clock, clock, s, Len(s))
  <2>. SUFFICES ASSUME NEW i \in 1..n, NEW a, NEW b, Replaying(x, i - 1, a, b)
                PROVE  Replaying(x, i, ReplayOrder(clock, a, s[i]), ReplayOrder(clock, b, s[i]))
    BY <1>1 DEF RF!Keeps
  <2>. DEFINE k == from + (i - 1)
              new == Applied(a, k + 1, clock)
  <2>1. k \in Nat /\ k + 1 = from + i /\ s[i] = k + 1
    BY <1>1
  <2>2. ReplayOrder(clock, a, s[i]) = new
    BY <2>1 DEF ReplayOrder
  <2>. HIDE DEF k, new
  <2>3. LogsTo(a, tree, matchTree, k) /\ a.orders.base = x.base /\ a.matches.base = x.matchBase
    BY <1>2, Zenon DEF Replaying, k
  <2>4. HasApplied(new, a, tree, matchTree, k)
    BY ONLY <2>1, <2>3, AppliedKeeps, Zenon DEF new
  <2>5. /\ LogsTo(new, tree, matchTree, from + i)
        /\ new.orders.base = x.base /\ new.matches.base = x.matchBase
    BY <2>1, <2>3, <2>4, Zenon DEF HasApplied
  <2>. QED
    BY ONLY <1>2, <2>2, <2>5, Zenon DEF Replaying
<1>6. Replaying(x, Len(s), RF!Fold(clock, start, s), RF!Fold(clock, start, s))
  BY ONLY <1>1, <1>4, <1>5, RFInduction, RF!FoldsAlike, ZenonT(60)
<1>7. Rebuilt(start, from, last, clock) = RF!Fold(clock, start, s)
  BY Zenon DEF Rebuilt, s, n
<1>. QED
  BY <1>1, <1>2, <1>3, <1>6, <1>7, ZenonT(60) DEF Replaying

-----------------------------------------------------------------------------
(***************************************************************************)
(* The inductive invariant.                                                *)
(***************************************************************************)

\* A snapshot, saved or being saved, over the archives: its logs are whole with
\* what is archived below them, however far the node has gone on since.
SnapshotOK(d, tree, matchTree, last, base, matchBase) ==
    /\ OrdersTo(d.orders, tree, NextSeq(d.orders))
    /\ MatchesTo(d.matches, matchTree, NextSeq(d.orders))
    /\ NextSeq(d.orders) <= last
    /\ d.orders.base <= base /\ d.matches.base <= matchBase

\* What left the node, the broadcasts and the mirror made of them, is what it logged.
FollowersOK(sent, copy, l, tree, last) ==
    /\ \A e \in sent : e.seq \in 0..(last - 1) /\ e = At(l, tree, e.seq)
    /\ IsLog(copy) /\ copy.base = 0 /\ copy.prev = Genesis /\ NextSeq(copy) <= last
    /\ Alike(l, tree, copy, <<>>, NextSeq(copy))

TrailInv ==
    /\ disk = [orders |-> disk.orders, matches |-> disk.matches, last |-> disk.last,
               covered |-> disk.covered]
    /\ disk.last \in 0..MaxOrders
    /\ OrdersTo(log, archive, disk.last) /\ MatchesTo(matchLog, matchArchive, disk.last)
    /\ SnapshotOK(disk, archive, matchArchive, disk.last, log.base, matchLog.base)
    /\ captured # None =>
         SnapshotOK(captured, archive, matchArchive, disk.last, log.base, matchLog.base)
    /\ DOMAIN archive \union DOMAIN matchArchive \subseteq 0..(disk.last - 1)
    /\ FollowersOK(wire, mirror, log, archive, disk.last)

\* The empty log is whole, over any archive.
LEMMA EmptyIsWhole ==
    ASSUME NEW tree
    PROVE  /\ Whole(EmptyLog, tree) /\ NextSeq(EmptyLog) = 0 /\ EmptyLog.base = 0
           /\ OrdersTo(EmptyLog, tree, 0) /\ MatchesTo(EmptyLog, tree, 0)
           /\ EmptyLog.prev = Genesis
<1>1. EmptyLog.base = 0 /\ EmptyLog.prev = Genesis /\ EmptyLog.entries = <<>>
      /\ EmptyLog = [base |-> 0, prev |-> Genesis, entries |-> <<>>]
  BY DEF EmptyLog
<1>2. <<>> \in Seq({}) /\ Len(<<>>) = 0
  OBVIOUS
<1>3. NextSeq(EmptyLog) = 0
  BY <1>1, <1>2 DEF NextSeq
<1>4. IsLog(EmptyLog)
  BY <1>1, <1>2 DEF IsLog
<1>5. 0..(0 - 1) = {}
  OBVIOUS
<1>6. Whole(EmptyLog, tree)
  BY <1>1, <1>3, <1>4, <1>5, ZenonT(60) DEF Whole, HashBefore
<1>7. 1..0 = {}
  OBVIOUS
<1>. QED
  BY <1>1, <1>3, <1>5, <1>6, <1>7, SMTT(30) DEF OrdersTo, MatchesTo

\* A node that has just started for the first time.
LEMMA InitTrail == Init => TrailInv
<1>. SUFFICES ASSUME Init PROVE TrailInv
  OBVIOUS
<1>1. /\ log = EmptyLog /\ matchLog = EmptyLog /\ archive = <<>> /\ matchArchive = <<>>
      /\ wire = {} /\ mirror = EmptyLog /\ captured = None
      /\ disk = [orders |-> EmptyLog, matches |-> EmptyLog, last |-> 0, covered |-> FALSE]
  BY DEF Init, LogInit, MatchLog!LogInit, MatchLog!EmptyLog, EmptyLog, MatchLog!Genesis, Genesis
<1>2. disk.orders = EmptyLog /\ disk.matches = EmptyLog /\ disk.last = 0 /\ disk.covered = FALSE
  BY <1>1
<1>3. /\ Whole(EmptyLog, <<>>) /\ NextSeq(EmptyLog) = 0 /\ EmptyLog.base = 0
      /\ OrdersTo(EmptyLog, <<>>, 0) /\ MatchesTo(EmptyLog, <<>>, 0)
      /\ EmptyLog.prev = Genesis
  BY EmptyIsWhole
<1>4. SnapshotOK(disk, archive, matchArchive, disk.last, log.base, matchLog.base)
  BY <1>1, <1>2, <1>3 DEF SnapshotOK
<1>5. FollowersOK(wire, mirror, log, archive, disk.last)
  BY <1>1, <1>2, <1>3 DEF FollowersOK, Alike, Whole
<1>6. DOMAIN archive \union DOMAIN matchArchive \subseteq 0..(disk.last - 1)
  BY <1>1
<1>7. disk.last \in 0..MaxOrders
  BY <1>2, OrdersAssumption, SMTT(30)
<1>. QED
  BY <1>1, <1>2, <1>3, <1>4, <1>5, <1>6, <1>7, ZenonT(60) DEF TrailInv

\* A snapshot stays good while entries above its logs' first are archived and the
\* node goes on.
LEMMA SnapshotKept ==
    ASSUME NEW d, NEW tree, NEW matchTree, NEW last \in Nat, NEW b \in Nat, NEW c \in Nat,
           SnapshotOK(d, tree, matchTree, last, b, c),
           NEW tree2, DOMAIN tree \subseteq DOMAIN tree2, \A s \in 0..(b - 1) : tree2[s] = tree[s],
           NEW matchTree2, DOMAIN matchTree \subseteq DOMAIN matchTree2,
           \A s \in 0..(c - 1) : matchTree2[s] = matchTree[s],
           NEW last2 \in Nat, NEW b2 \in Nat, NEW c2 \in Nat, last <= last2, b <= b2, c <= c2
    PROVE  SnapshotOK(d, tree2, matchTree2, last2, b2, c2)
<1>. DEFINE n == NextSeq(d.orders)
<1>1. /\ OrdersTo(d.orders, tree, n) /\ Whole(d.orders, tree)
      /\ MatchesTo(d.matches, matchTree, n) /\ Whole(d.matches, matchTree)
      /\ n <= last /\ d.orders.base <= b /\ d.matches.base <= c
  BY ZenonT(60) DEF SnapshotOK, OrdersTo, MatchesTo
<1>2. n \in Nat /\ d.orders.base \in Nat /\ d.matches.base \in Nat
  BY <1>1, LogFacts, Zenon DEF Whole
<1>3. Whole(d.orders, tree2) /\ Alike(d.orders, tree, d.orders, tree2, n)
  BY <1>1, LowerKept, ZenonT(60)
<1>4. Whole(d.matches, matchTree2)
      /\ Alike(d.matches, matchTree, d.matches, matchTree2, NextSeq(d.matches))
  BY <1>1, LowerKept, Zenon
<1>5. OrdersTo(d.orders, tree2, n)
  BY <1>1, <1>2, <1>3, OrdersAlike, ZenonT(60)
<1>6. MatchesTo(d.matches, matchTree2, n)
  BY <1>1, <1>2, <1>4, MatchesAlike, ZenonT(60)
<1>7. n <= last2 /\ d.orders.base <= b2 /\ d.matches.base <= c2
  BY <1>1, <1>2
<1>. QED
  BY <1>5, <1>6, <1>7, ZenonT(60) DEF SnapshotOK


\* What left the node stays what it logged, however the log is kept or rebuilt.
LEMMA FollowersKept ==
    ASSUME NEW sent, NEW copy, NEW l, NEW tree, NEW n \in Nat, OrdersTo(l, tree, n),
           FollowersOK(sent, copy, l, tree, n),
           NEW k, NEW other, NEW m \in Nat, OrdersTo(k, other, m), n <= m
    PROVE  FollowersOK(sent, copy, k, other, m)
<1>1. \A s \in 0..(n - 1) : At(k, other, s) = At(l, tree, s)
  BY OrdersSame DEF Alike
<1>2. ASSUME NEW e \in sent
      PROVE  e.seq \in 0..(m - 1) /\ e = At(k, other, e.seq)
  <2>1. e.seq \in 0..(n - 1) /\ e = At(l, tree, e.seq)
    BY DEF FollowersOK
  <2>2. At(k, other, e.seq) = At(l, tree, e.seq)
    BY ONLY <1>1, <2>1, Zenon
  <2>. QED
    BY <2>1, <2>2
<1>3. IsLog(copy) /\ copy.base = 0 /\ copy.prev = Genesis /\ NextSeq(copy) <= n
      /\ \A s \in 0..(NextSeq(copy) - 1) : At(copy, <<>>, s) = At(l, tree, s)
  BY Zenon DEF FollowersOK, Alike
<1>4. NextSeq(copy) \in Nat
  BY <1>3, LogFacts, Zenon
<1>5. \A s \in 0..(NextSeq(copy) - 1) : s \in 0..(n - 1)
  BY <1>3, <1>4
<1>6. Alike(k, other, copy, <<>>, NextSeq(copy))
  BY ONLY <1>1, <1>3, <1>5, Zenon DEF Alike
<1>7. NextSeq(copy) <= m
  BY <1>3, <1>4
<1>. QED
  BY ONLY <1>2, <1>3, <1>6, <1>7, ZenonT(60) DEF FollowersOK

\* The last entry of an order log is one more broadcast.
LEMMA BroadcastOK ==
    ASSUME NEW sent, NEW copy, NEW l, NEW tree, NEW n \in Nat, OrdersTo(l, tree, n + 1),
           FollowersOK(sent, copy, l, tree, n + 1), NEW e, e = At(l, tree, n)
    PROVE  FollowersOK(sent \union {e}, copy, l, tree, n + 1)
<1>1. NextSeq(l) = n + 1 /\ n \in 0..(NextSeq(l) - 1) /\ n \in 0..(n + 1 - 1)
  BY DEF OrdersTo
<1>2. e = LogEntry(n, HashBefore(l, tree, n), e.payload)
  BY <1>1 DEF OrdersTo, Whole
<1>3. e.seq = n
  BY ONLY <1>2 DEF LogEntry
<1>. QED
  BY <1>1, <1>3 DEF FollowersOK

\* A broadcast that extends the mirror is its next entry.
LEMMA MirrorOK ==
    ASSUME NEW sent, NEW copy, NEW l, NEW tree, NEW n \in Nat,
           FollowersOK(sent, copy, l, tree, n), NEW e \in sent
    PROVE  FollowersOK(sent, TryAppendRemote(copy, e), l, tree, n)
<1>. DEFINE c == TryAppendRemote(copy, e)
            x == NextSeq(copy)
<1>1. /\ IsLog(copy) /\ copy.base = 0 /\ copy.prev = Genesis
      /\ \A s \in 0..(x - 1) : At(copy, <<>>, s) = At(l, tree, s)
      /\ e.seq \in 0..(n - 1) /\ e = At(l, tree, e.seq)
  BY Zenon DEF FollowersOK, Alike
<1>2. /\ x \in Nat /\ x = Len(copy.entries) /\ Len(copy.entries) \in Nat
      /\ DOMAIN copy.entries = 1..Len(copy.entries)
  BY <1>1, LogFacts
<1>3. CASE ~Extends(copy, e)
  <2>1. c = copy
    BY <1>3, Zenon DEF TryAppendRemote
  <2>. QED
    BY <2>1
<1>4. CASE Extends(copy, e)
  <2>. DEFINE es == Append(copy.entries, e)
  <2>1. e.seq = x /\ c = [copy EXCEPT !.entries = Append(@, e)]
    BY <1>4, Zenon DEF TryAppendRemote, Extends, VerifyNextEntry
  <2>2. PICK S : copy.entries \in Seq(S)
    BY <1>1 DEF IsLog
  <2>3. copy.entries \in Seq(S \union {e})
    BY <2>2
  <2>4. es \in Seq(S \union {e}) /\ Len(es) = x + 1 /\ es[x + 1] = e
        /\ \A i \in 1..x : es[i] = copy.entries[i]
    BY <1>2, <2>3
  <2>5. copy = [base |-> copy.base, prev |-> copy.prev, entries |-> copy.entries]
    BY <1>1 DEF IsLog
  <2>. HIDE DEF c, es
  <2>6. c = [base |-> copy.base, prev |-> copy.prev, entries |-> es]
    BY <2>1, <2>5, Zenon DEF es
  <2>7. c.base = 0 /\ c.prev = Genesis /\ c.entries = es
    BY <1>1, <2>6
  <2>8. IsLog(c)
    BY <2>4, <2>6, <2>7, SMTT(30) DEF IsLog
  <2>9. NextSeq(c) = x + 1
    BY <1>2, <2>4, <2>7 DEF NextSeq
  <2>10. ASSUME NEW s \in 0..(NextSeq(c) - 1) PROVE At(c, <<>>, s) = At(l, tree, s)
    <3>. s \in 0..x
      BY <1>2, <2>9
    <3>1. At(c, <<>>, s) = es[s + 1]
      <4>1. ~(s < 0) /\ s - 0 + 1 = s + 1
        OBVIOUS
      <4>. QED
        BY ONLY <2>7, <4>1, Zenon DEF At
    <3>2. CASE s = x
      BY <1>1, <2>1, <2>4, <3>1, <3>2, ZenonT(60)
    <3>3. CASE s # x
      <4>1. s \in 0..(x - 1) /\ s + 1 \in 1..x /\ ~(s < 0) /\ s - 0 + 1 = s + 1
        BY <1>2, <3>3
      <4>2. At(copy, <<>>, s) = copy.entries[s + 1]
        BY ONLY <1>1, <4>1, ZenonT(60) DEF At
      <4>. QED
        BY <1>1, <2>4, <3>1, <4>1, <4>2, ZenonT(60)
    <3>. QED
      BY <3>2, <3>3, Zenon
  <2>11. NextSeq(c) <= n
    BY <1>1, <1>2, <2>1, <2>9
  <2>12. Alike(l, tree, c, <<>>, NextSeq(c))
    BY ONLY <2>10, Zenon DEF Alike
  <2>. QED
    BY <2>7, <2>8, <2>11, <2>12, ZenonT(60) DEF FollowersOK, c
<1>. QED
  BY <1>3, <1>4, Zenon


-----------------------------------------------------------------------------
(***************************************************************************)
(* Every step keeps the invariant.                                         *)
(***************************************************************************)

\* The numbers in a state of the invariant.
LEMMA TrailNumbers ==
    ASSUME TrailInv
    PROVE  /\ disk.last \in Nat /\ log.base \in Nat /\ matchLog.base \in Nat
           /\ NextSeq(log) = disk.last /\ NextSeq(matchLog) \in Nat
           /\ NextSeq(matchLog) <= disk.last
           /\ Whole(log, archive) /\ Whole(matchLog, matchArchive)
           /\ IsLog(log) /\ IsLog(matchLog)
<1>1. disk.last \in Nat
  BY OrdersAssumption DEF TrailInv
<1>2. /\ Whole(log, archive) /\ Whole(matchLog, matchArchive) /\ NextSeq(log) = disk.last
      /\ NextSeq(matchLog) <= disk.last
  BY DEF TrailInv, OrdersTo, MatchesTo
<1>3. IsLog(log) /\ IsLog(matchLog)
  BY <1>2 DEF Whole
<1>. QED
  BY <1>1, <1>2, <1>3, LogFacts, ZenonT(60)

\* A record with one field replaced.
LEMMA DiskAfter ==
    ASSUME disk = [orders |-> disk.orders, matches |-> disk.matches, last |-> disk.last,
                   covered |-> disk.covered],
           NEW o, disk' = [disk EXCEPT !.last = o]
    PROVE  /\ disk'.last = o /\ disk'.orders = disk.orders /\ disk'.matches = disk.matches
           /\ disk' = [orders |-> disk'.orders, matches |-> disk'.matches, last |-> disk'.last,
                       covered |-> disk'.covered]
<1>1. disk' = [orders |-> disk.orders, matches |-> disk.matches, last |-> o,
               covered |-> disk.covered]
  BY Zenon
<1>. QED
  BY ONLY <1>1

\* The snapshots after a step that archives nothing, the node having gone on to last2.
LEMMA SnapshotLater ==
    ASSUME NEW d, NEW tree, NEW matchTree, NEW last \in Nat, NEW b \in Nat, NEW c \in Nat,
           SnapshotOK(d, tree, matchTree, last, b, c), NEW last2 \in Nat, last <= last2
    PROVE  SnapshotOK(d, tree, matchTree, last2, b, c)
<1>1. NextSeq(d.orders) <= last /\ NextSeq(d.orders) \in Nat
  BY LogFacts DEF SnapshotOK, OrdersTo, Whole
<1>2. NextSeq(d.orders) <= last2
  BY <1>1
<1>. QED
  BY <1>2, Zenon DEF SnapshotOK

\* A snapshot is only its logs.
LEMMA SameSnapshot ==
    ASSUME NEW d, NEW f, f.orders = d.orders, f.matches = d.matches,
           NEW tree, NEW matchTree, NEW last, NEW b, NEW c,
           SnapshotOK(d, tree, matchTree, last, b, c)
    PROVE  SnapshotOK(f, tree, matchTree, last, b, c)
  BY Zenon DEF SnapshotOK

\* apply_accepted_order.
LEMMA AcceptKeepsTrail ==
    ASSUME TrailInv, AcceptOrder
    PROVE  TrailInv'
<1>. DEFINE n == disk.last
            logs == [orders |-> log, matches |-> matchLog]
            new == Applied(logs, n + 1, spent.restarts)
<1>1. /\ n \in Nat /\ log.base \in Nat /\ matchLog.base \in Nat
  BY TrailNumbers
<1>2. /\ n + 1 <= MaxOrders
      /\ disk' = [disk EXCEPT !.last = n + 1]
      /\ log' = new.orders /\ matchLog' = new.matches
      /\ wire' = wire \union {new.orders.entries[Len(new.orders.entries)]}
      /\ UNCHANGED <<archive, matchArchive, captured, mirror>>
  BY DEF AcceptOrder
<1>3. /\ disk'.last = n + 1 /\ disk'.orders = disk.orders /\ disk'.matches = disk.matches
      /\ disk' = [orders |-> disk'.orders, matches |-> disk'.matches, last |-> disk'.last,
                  covered |-> disk'.covered]
  BY <1>2, DiskAfter, ZenonT(60) DEF TrailInv
<1>4. LogsTo(logs, archive, matchArchive, n)
  BY DEF TrailInv, LogsTo
<1>. HIDE DEF n, logs, new
<1>5. HasApplied(new, logs, archive, matchArchive, n)
  BY <1>1, <1>4, AppliedKeeps, ZenonT(60) DEF new
<1>6. /\ OrdersTo(log', archive, n + 1) /\ MatchesTo(matchLog', matchArchive, n + 1)
      /\ log'.base = log.base /\ matchLog'.base = matchLog.base
      /\ wire' = wire \union {At(log', archive, n)}
  BY <1>2, <1>5, Zenon DEF HasApplied, LogsTo, logs
<1>7. SnapshotOK(disk, archive, matchArchive, n, log.base, matchLog.base)
      /\ (captured # None => SnapshotOK(captured, archive, matchArchive, n, log.base, matchLog.base))
      /\ DOMAIN archive \union DOMAIN matchArchive \subseteq 0..(n - 1)
      /\ FollowersOK(wire, mirror, log, archive, n)
      /\ OrdersTo(log, archive, n)
  BY DEF TrailInv, n
<1>8. n + 1 \in Nat /\ n <= n + 1
  BY <1>1
<1>9. SnapshotOK(disk, archive, matchArchive, n + 1, log.base, matchLog.base)
      /\ (captured # None => SnapshotOK(captured, archive, matchArchive, n + 1, log.base, matchLog.base))
  BY <1>1, <1>7, <1>8, SnapshotLater, ZenonT(60)
<1>10. SnapshotOK(disk', archive, matchArchive, n + 1, log.base, matchLog.base)
  BY <1>3, <1>9, SameSnapshot, ZenonT(60)
<1>11. FollowersOK(wire, mirror, log', archive, n + 1)
  BY <1>1, <1>6, <1>7, <1>8, FollowersKept, ZenonT(60)
<1>12. FollowersOK(wire', mirror, log', archive, n + 1)
  BY <1>1, <1>6, <1>11, BroadcastOK, ZenonT(60)
<1>13. n + 1 \in 0..MaxOrders
  BY <1>1, <1>2, OrdersAssumption
<1>14. disk'.last - 1 = n /\ 0..(n - 1) \subseteq 0..n
  BY <1>1, <1>3
<1>15. archive' = archive /\ matchArchive' = matchArchive /\ captured' = captured /\ mirror' = mirror
  BY <1>2
<1>16. OrdersTo(log', archive', disk'.last) /\ MatchesTo(matchLog', matchArchive', disk'.last)
  BY ONLY <1>3, <1>6, <1>15, ZenonT(60)
<1>17. SnapshotOK(disk', archive', matchArchive', disk'.last, log'.base, matchLog'.base)
  BY ONLY <1>3, <1>6, <1>10, <1>15, ZenonT(60)
<1>18. captured' # None =>
         SnapshotOK(captured', archive', matchArchive', disk'.last, log'.base, matchLog'.base)
  BY ONLY <1>3, <1>6, <1>9, <1>15, ZenonT(60)
<1>19. FollowersOK(wire', mirror', log', archive', disk'.last)
  BY ONLY <1>3, <1>12, <1>15, ZenonT(60)
<1>20. disk'.last \in 0..MaxOrders
       /\ DOMAIN archive' \union DOMAIN matchArchive' \subseteq 0..(disk'.last - 1)
  <2>1. disk'.last \in 0..MaxOrders
    BY ONLY <1>3, <1>13, ZenonT(60)
  <2>2. DOMAIN archive' \union DOMAIN matchArchive' \subseteq 0..n
    BY ONLY <1>7, <1>14, <1>15, ZenonT(60)
  <2>. QED
    BY ONLY <1>14, <2>1, <2>2, ZenonT(60)
<1>. QED
  BY ONLY <1>3, <1>16, <1>17, <1>18, <1>19, <1>20, ZenonT(60) DEF TrailInv, None


\* The write-locked part of a snapshot cycle, whichever of its writes fail.
LEMMA CycleKeepsTrail ==
    ASSUME TrailInv, NEW o, NEW m, SnapshotCycle(o, m)
    PROVE  TrailInv'
<1>. DEFINE n == disk.last
            saving == [stage |-> "saving", orders |-> log', matches |-> matchLog']
<1>1. /\ n \in Nat /\ log.base \in Nat /\ matchLog.base \in Nat /\ NextSeq(log) = n
      /\ NextSeq(matchLog) \in Nat /\ NextSeq(matchLog) <= n
      /\ Whole(log, archive) /\ Whole(matchLog, matchArchive)
  BY TrailNumbers
<1>2. /\ ArchiveOrders(o) /\ ArchiveMatches(m)
      /\ captured' = IF WalEmpty THEN None ELSE saving
      /\ disk' = disk /\ wire' = wire /\ mirror' = mirror
  BY Zenon DEF SnapshotCycle
<1>3. KeepsEntries(log, archive, log', archive')
  BY <1>1, <1>2, OrdersArchived, HotWindowAssumption, ZenonT(60)
<1>4. KeepsEntries(matchLog, matchArchive, matchLog', matchArchive')
  BY <1>1, <1>2, MatchesArchived, HotWindowAssumption, ZenonT(60)
<1>5. /\ Whole(log', archive') /\ NextSeq(log') = n /\ log.base <= log'.base
      /\ Alike(log, archive, log', archive', NextSeq(log))
      /\ DOMAIN archive \subseteq DOMAIN archive'
      /\ DOMAIN archive' \subseteq DOMAIN archive \union 0..(n - 1)
      /\ \A s \in 0..(log.base - 1) : archive'[s] = archive[s]
  BY <1>1, <1>3, ZenonT(60) DEF KeepsEntries
<1>6. /\ Whole(matchLog', matchArchive') /\ NextSeq(matchLog') = NextSeq(matchLog)
      /\ matchLog.base <= matchLog'.base
      /\ Alike(matchLog, matchArchive, matchLog', matchArchive', NextSeq(matchLog))
      /\ DOMAIN matchArchive \subseteq DOMAIN matchArchive'
      /\ DOMAIN matchArchive' \subseteq DOMAIN matchArchive \union 0..(NextSeq(matchLog) - 1)
      /\ \A s \in 0..(matchLog.base - 1) : matchArchive'[s] = matchArchive[s]
  BY <1>4, Zenon DEF KeepsEntries
<1>7. log'.base \in Nat /\ matchLog'.base \in Nat
  BY <1>5, <1>6, LogFacts, ZenonT(60) DEF Whole
<1>8. /\ OrdersTo(log, archive, n) /\ MatchesTo(matchLog, matchArchive, n)
      /\ SnapshotOK(disk, archive, matchArchive, n, log.base, matchLog.base)
      /\ DOMAIN archive \union DOMAIN matchArchive \subseteq 0..(n - 1)
      /\ FollowersOK(wire, mirror, log, archive, n)
      /\ n \in 0..MaxOrders
      /\ disk = [orders |-> disk.orders, matches |-> disk.matches, last |-> disk.last,
                 covered |-> disk.covered]
  BY Zenon DEF TrailInv
<1>. HIDE DEF n, saving
<1>9. OrdersTo(log', archive', n)
  BY <1>1, <1>5, <1>8, OrdersAlike, ZenonT(60)
<1>10. MatchesTo(matchLog', matchArchive', n)
  BY <1>1, <1>6, <1>8, MatchesAlike, ZenonT(60)
<1>11. n <= n
  BY <1>1
<1>12. SnapshotOK(disk, archive', matchArchive', n, log'.base, matchLog'.base)
  BY ONLY <1>1, <1>5, <1>6, <1>7, <1>8, <1>11, SnapshotKept, ZenonT(60)
<1>13. SnapshotOK(saving, archive', matchArchive', n, log'.base, matchLog'.base)
  <2>1. saving.orders = log' /\ saving.matches = matchLog'
    BY DEF saving
  <2>2. log'.base <= log'.base /\ matchLog'.base <= matchLog'.base
    BY <1>7
  <2>. QED
    BY ONLY <1>5, <1>9, <1>10, <1>11, <2>1, <2>2, ZenonT(60) DEF SnapshotOK
<1>14. FollowersOK(wire, mirror, log', archive', n)
  BY ONLY <1>1, <1>8, <1>9, <1>11, FollowersKept, ZenonT(60)
<1>15. 0..(NextSeq(matchLog) - 1) \subseteq 0..(n - 1)
  BY <1>1
<1>16. DOMAIN archive' \union DOMAIN matchArchive' \subseteq 0..(n - 1)
  BY ONLY <1>5, <1>6, <1>8, <1>15, ZenonT(60)
<1>17. disk'.last = n
  BY <1>2 DEF n
<1>18. captured' # None =>
         SnapshotOK(captured', archive', matchArchive', disk'.last, log'.base, matchLog'.base)
  BY ONLY <1>2, <1>13, <1>17, ZenonT(60)
<1>19. SnapshotOK(disk', archive', matchArchive', disk'.last, log'.base, matchLog'.base)
  BY ONLY <1>2, <1>12, <1>17, ZenonT(60)
<1>20. FollowersOK(wire', mirror', log', archive', disk'.last)
  BY ONLY <1>2, <1>14, <1>17, ZenonT(60)
<1>21. /\ OrdersTo(log', archive', disk'.last) /\ MatchesTo(matchLog', matchArchive', disk'.last)
       /\ disk'.last \in 0..MaxOrders
       /\ DOMAIN archive' \union DOMAIN matchArchive' \subseteq 0..(disk'.last - 1)
  BY ONLY <1>8, <1>9, <1>10, <1>16, <1>17, ZenonT(60)
<1>22. disk' = [orders |-> disk'.orders, matches |-> disk'.matches, last |-> disk'.last,
                covered |-> disk'.covered]
  BY ONLY <1>2, <1>8, ZenonT(60)
<1>. QED
  BY ONLY <1>18, <1>19, <1>20, <1>21, <1>22, ZenonT(60) DEF TrailInv, None

\* save_snapshot, with the write-ahead log truncated or not.
LEMMA SaveKeepsTrail ==
    ASSUME TrailInv, NEW t, SaveSnapshot(t)
    PROVE  TrailInv'
<1>1. /\ captured # None /\ captured' = None
      /\ disk' = [disk EXCEPT !.orders = captured.orders, !.matches = captured.matches,
                              !.covered = ~t]
      /\ log' = log /\ archive' = archive /\ matchLog' = matchLog /\ matchArchive' = matchArchive
      /\ wire' = wire /\ mirror' = mirror
  BY DEF SaveSnapshot, logVars
<1>2. /\ disk = [orders |-> disk.orders, matches |-> disk.matches, last |-> disk.last,
                 covered |-> disk.covered]
      /\ SnapshotOK(captured, archive, matchArchive, disk.last, log.base, matchLog.base)
  BY <1>1 DEF TrailInv
<1>3. disk' = [orders |-> captured.orders, matches |-> captured.matches, last |-> disk.last,
               covered |-> ~t]
  BY ONLY <1>1, <1>2, ZenonT(60)
<1>4. /\ disk' = [orders |-> disk'.orders, matches |-> disk'.matches, last |-> disk'.last,
                  covered |-> disk'.covered]
      /\ disk'.last = disk.last /\ disk'.orders = captured.orders /\ disk'.matches = captured.matches
  BY ONLY <1>3, Zenon
<1>5. SnapshotOK(disk', archive, matchArchive, disk.last, log.base, matchLog.base)
  BY <1>2, <1>4, SameSnapshot, ZenonT(60)
<1>. QED
  BY <1>1, <1>4, <1>5, ZenonT(60) DEF TrailInv, None

\* A step that leaves the logs, the disk and the wire alone.
LEMMA SameTrail ==
    ASSUME TrailInv, UNCHANGED <<logVars, disk, wire, mirror>>, captured' \in {captured, None}
    PROVE  TrailInv'
<1>1. /\ log' = log /\ archive' = archive /\ matchLog' = matchLog /\ matchArchive' = matchArchive
      /\ wire' = wire /\ mirror' = mirror /\ disk' = disk
      /\ (captured' = captured \/ captured' = None)
  BY DEF logVars
<1>. QED
  BY <1>1 DEF TrailInv, None


\* A crash and the boot after it: the snapshot's logs, with the write-ahead log
\* replayed over them.
LEMMA RestartKeepsTrail ==
    ASSUME TrailInv, NEW a, Restart(a)
    PROVE  TrailInv'
<1>. DEFINE n == IF a THEN disk.last + 1 ELSE disk.last
            from == NextSeq(disk.orders)
            start == [orders |-> disk.orders, matches |-> disk.matches]
            new == Rebuilt(start, from, n, spent.restarts + 1)
<1>1. disk.last \in Nat /\ log.base \in Nat /\ matchLog.base \in Nat
  BY TrailNumbers
<1>2. n \in Nat /\ disk.last <= n
  BY <1>1
<1>3. /\ n <= MaxOrders /\ disk' = [disk EXCEPT !.last = n] /\ captured' = None
      /\ log' = Recovered(n, spent.restarts + 1).orders
      /\ matchLog' = Recovered(n, spent.restarts + 1).matches
      /\ archive' = archive /\ matchArchive' = matchArchive /\ wire' = wire /\ mirror' = mirror
  BY DEF Restart
<1>4. log' = new.orders /\ matchLog' = new.matches
  BY <1>3, RecoveredIsRebuilt
<1>5. /\ disk'.last = n /\ disk'.orders = disk.orders /\ disk'.matches = disk.matches
      /\ disk' = [orders |-> disk'.orders, matches |-> disk'.matches, last |-> disk'.last,
                  covered |-> disk'.covered]
  <2>. HIDE DEF n
  <2>. QED
    BY <1>3, DiskAfter, ZenonT(60) DEF TrailInv
<1>. HIDE DEF n
<1>6. SnapshotOK(disk, archive, matchArchive, disk.last, log.base, matchLog.base)
  BY SMTT(30) DEF TrailInv
<1>7. /\ LogsTo(start, archive, matchArchive, from) /\ from <= disk.last
      /\ Whole(disk.orders, archive) /\ Whole(disk.matches, matchArchive)
      /\ start.orders = disk.orders /\ start.matches = disk.matches
  BY <1>6, ZenonT(60) DEF SnapshotOK, LogsTo, OrdersTo, MatchesTo
<1>8. from \in Nat /\ disk.orders.base \in Nat /\ disk.matches.base \in Nat
  BY <1>7, LogFacts, ZenonT(60) DEF Whole
<1>. HIDE DEF start, from
<1>9. from <= n
  <2>1. /\ from \in Nat /\ disk.last \in Nat /\ n \in Nat
        /\ from <= disk.last /\ disk.last <= n
    BY <1>1, <1>2, <1>7, <1>8, Zenon
  <2>. QED
    BY ONLY <2>1
<1>10. /\ LogsTo(new, archive, matchArchive, n)
       /\ new.orders.base = start.orders.base /\ new.matches.base = start.matches.base
  BY ONLY <1>2, <1>7, <1>8, <1>9, RebuiltTo, SMTT(30)
<1>. HIDE DEF new
<1>11. /\ OrdersTo(log', archive, n) /\ MatchesTo(matchLog', matchArchive, n)
       /\ log'.base = disk.orders.base /\ matchLog'.base = disk.matches.base
  BY <1>4, <1>7, <1>10, ZenonT(60) DEF LogsTo
<1>12. SnapshotOK(disk', archive, matchArchive, n, log'.base, matchLog'.base)
  <2>1. /\ OrdersTo(disk'.orders, archive, NextSeq(disk'.orders))
        /\ MatchesTo(disk'.matches, matchArchive, NextSeq(disk'.orders))
    BY <1>5, <1>6, ZenonT(60) DEF SnapshotOK
  <2>2. NextSeq(disk'.orders) <= n
    BY <1>5, <1>9, Zenon DEF from
  <2>3. disk'.orders.base <= log'.base /\ disk'.matches.base <= matchLog'.base
    BY <1>5, <1>8, <1>11
  <2>. QED
    BY ONLY <2>1, <2>2, <2>3, ZenonT(60) DEF SnapshotOK
<1>13. OrdersTo(log, archive, disk.last) /\ FollowersOK(wire, mirror, log, archive, disk.last)
       /\ DOMAIN archive \union DOMAIN matchArchive \subseteq 0..(disk.last - 1)
  BY Zenon DEF TrailInv
<1>14. FollowersOK(wire, mirror, log', archive, n)
  BY ONLY <1>1, <1>2, <1>11, <1>13, FollowersKept, ZenonT(60)
<1>15. n \in 0..MaxOrders /\ 0..(disk.last - 1) \subseteq 0..(n - 1)
  BY <1>1, <1>2, <1>3, OrdersAssumption
<1>16. DOMAIN archive' \union DOMAIN matchArchive' \subseteq 0..(disk'.last - 1)
  BY ONLY <1>3, <1>5, <1>13, <1>15, ZenonT(60)
<1>17. FollowersOK(wire', mirror', log', archive', disk'.last)
  BY ONLY <1>3, <1>5, <1>14, ZenonT(60)
<1>18. SnapshotOK(disk', archive', matchArchive', disk'.last, log'.base, matchLog'.base)
  BY ONLY <1>3, <1>5, <1>12, ZenonT(60)
<1>19. /\ OrdersTo(log', archive', disk'.last) /\ MatchesTo(matchLog', matchArchive', disk'.last)
       /\ disk'.last \in 0..MaxOrders
  BY ONLY <1>3, <1>5, <1>11, <1>15, ZenonT(60)
<1>. QED
  BY ONLY <1>3, <1>5, <1>16, <1>17, <1>18, <1>19, ZenonT(60) DEF TrailInv, None

\* A broadcast reaches the watchtower.
LEMMA MirrorKeepsTrail ==
    ASSUME TrailInv, NEW e \in wire, Mirror(e)
    PROVE  TrailInv'
<1>1. /\ mirror' = TryAppendRemote(mirror, e)
      /\ log' = log /\ archive' = archive /\ matchLog' = matchLog /\ matchArchive' = matchArchive
      /\ disk' = disk /\ captured' = captured /\ wire' = wire
  BY DEF Mirror, logVars
<1>2. disk.last \in Nat
  BY TrailNumbers, Zenon
<1>3. FollowersOK(wire, mirror, log, archive, disk.last)
  BY DEF TrailInv
<1>4. FollowersOK(wire, TryAppendRemote(mirror, e), log, archive, disk.last)
  BY ONLY <1>2, <1>3, e \in wire, MirrorOK, ZenonT(60)
<1>5. FollowersOK(wire', mirror', log', archive', disk'.last)
  BY ONLY <1>1, <1>4, Zenon
<1>. QED
  BY <1>1, <1>5, Zenon DEF TrailInv, None

\* Every step.
LEMMA NextKeepsTrail == TrailInv /\ [Next]_vars => TrailInv'
<1>. SUFFICES ASSUME TrailInv, [Next]_vars PROVE TrailInv'
  OBVIOUS
<1>1. CASE AcceptOrder
  BY <1>1, AcceptKeepsTrail
<1>2. CASE \E o, m \in BOOLEAN : SnapshotCycle(o, m)
  BY <1>2, CycleKeepsTrail
<1>3. CASE \E t \in BOOLEAN : SaveSnapshot(t)
  BY <1>3, SaveKeepsTrail
<1>4. CASE SaveFails
  BY <1>4, SameTrail, Zenon DEF SaveFails
<1>5. CASE \E a \in BOOLEAN : Restart(a)
  BY <1>5, RestartKeepsTrail
<1>6. CASE \E e \in wire : Mirror(e)
  BY <1>6, MirrorKeepsTrail, Zenon
<1>7. CASE \E l \in Logs, since \in 0..MaxOrders, audit \in BOOLEAN : BeginRead(l, since, audit)
  <2>1. UNCHANGED <<logVars, disk, captured, wire, mirror>>
    BY <1>7, Zenon DEF BeginRead
  <2>. QED
    BY <2>1, SameTrail, Zenon
<1>8. CASE EndRead
  BY <1>8, SameTrail, Zenon DEF EndRead
<1>9. CASE Finish
  BY <1>9, SameTrail DEF Finish
<1>10. CASE UNCHANGED vars
  BY <1>10, SameTrail DEF vars
<1>. QED
  BY <1>1, <1>2, <1>3, <1>4, <1>5, <1>6, <1>7, <1>8, <1>9, <1>10, ZenonT(60) DEF Next

\* The invariant holds of every run.
THEOREM TrailKept == Spec => []TrailInv
  BY InitTrail, NextKeepsTrail, PTL DEF Spec


-----------------------------------------------------------------------------
(***************************************************************************)
(* What the invariant says of the logs as their readers see them.          *)
(***************************************************************************)

\* The whole log, archived part and hot part.
HistoryOf(l, tree) ==
    [i \in 1..NextSeq(l) |-> IF i <= l.base THEN tree[i - 1] ELSE l.entries[i - l.base]]

\* A function on 1..n is a sequence of length n.
LEMMA FunctionIsSeq ==
    ASSUME NEW n \in Nat, NEW f, f = [i \in 1..n |-> f[i]]
    PROVE  f \in Seq({f[i] : i \in 1..n}) /\ Len(f) = n
<1>1. f \in [1..n -> {f[i] : i \in 1..n}]
  OBVIOUS
<1>2. f \in Seq({f[i] : i \in 1..n})
  BY <1>1
<1>. QED
  BY <1>1, <1>2

\* Its entries by seq.
LEMMA HistoryAt ==
    ASSUME NEW l, NEW tree, IsLog(l)
    PROVE  /\ DOMAIN HistoryOf(l, tree) = 1..NextSeq(l) /\ Len(HistoryOf(l, tree)) = NextSeq(l)
           /\ (HistoryOf(l, tree) = <<>>) = (NextSeq(l) = 0)
           /\ \A i \in 1..NextSeq(l) :
                i - 1 \in 0..(NextSeq(l) - 1) /\ HistoryOf(l, tree)[i] = At(l, tree, i - 1)
<1>. DEFINE h == HistoryOf(l, tree)
            n == NextSeq(l)
<1>1. l.base \in Nat /\ n \in Nat
  BY LogFacts, Zenon
<1>2. DOMAIN h = 1..n /\ h = [i \in 1..n |-> h[i]]
      /\ \A i \in 1..n : h[i] = IF i <= l.base THEN tree[i - 1] ELSE l.entries[i - l.base]
  BY DEF HistoryOf
<1>3. ASSUME NEW i \in 1..n PROVE i - 1 \in 0..(n - 1) /\ h[i] = At(l, tree, i - 1)
  <2>1. (i - 1 < l.base) = (i <= l.base) /\ i - 1 - l.base + 1 = i - l.base /\ i - 1 \in 0..(n - 1)
    BY <1>1
  <2>. HIDE DEF h, n
  <2>. QED
    BY <1>2, <2>1, Zenon DEF At
<1>. HIDE DEF h, n
<1>4. Len(h) = n /\ h \in Seq({h[i] : i \in 1..n})
  BY <1>1, <1>2, FunctionIsSeq, ZenonT(60)
<1>5. (h = <<>>) = (n = 0)
  BY <1>1, <1>4
<1>. QED
  BY <1>2, <1>3, <1>4, <1>5, ZenonT(60) DEF h, n

\* HistoryIntact, of a log and its archive.
IntactOf(l, tree) ==
    /\ 0..(l.base - 1) \subseteq DOMAIN tree
    /\ VerifyChain(HistoryOf(l, tree))
    /\ VerifyChainSegment(l.base, l.prev, l.entries)
    /\ Root(l) = RootAfter(Genesis, HistoryOf(l, tree))

\* An entry of a whole log verifies.
LEMMA EntryVerifies ==
    ASSUME NEW l, NEW tree, Whole(l, tree), NEW s \in 0..(NextSeq(l) - 1)
    PROVE  VerifyNextEntry(HashBefore(l, tree, s), s, At(l, tree, s))
<1>1. At(l, tree, s) = LogEntry(s, HashBefore(l, tree, s), At(l, tree, s).payload)
  BY Zenon DEF Whole
<1>. QED
  BY ONLY <1>1 DEF VerifyNextEntry, LogEntry

\* A whole log verifies, all of it and its hot part.
LEMMA WholeIsIntact ==
    ASSUME NEW l, NEW tree, Whole(l, tree)
    PROVE  IntactOf(l, tree)
<1>. DEFINE h == HistoryOf(l, tree)
            n == NextSeq(l)
            b == l.base
            c == Len(l.entries)
<1>1. /\ IsLog(l) /\ b \in Nat /\ n \in Nat /\ c \in Nat /\ n = b + c
      /\ DOMAIN l.entries = 1..c /\ l.prev = HashBefore(l, tree, b)
      /\ 0..(b - 1) \subseteq DOMAIN tree
  BY LogFacts, Zenon DEF Whole
<1>2. /\ DOMAIN h = 1..n /\ Len(h) = n /\ (h = <<>>) = (n = 0)
      /\ \A i \in 1..n : i - 1 \in 0..(n - 1) /\ h[i] = At(l, tree, i - 1)
  BY <1>1, HistoryAt, Zenon
<1>3. \A s \in 0..(n - 1) : VerifyNextEntry(HashBefore(l, tree, s), s, At(l, tree, s))
  BY EntryVerifies, Zenon
<1>. HIDE DEF h
<1>4. ASSUME NEW i \in 1..n
      PROVE  VerifyNextEntry(IF i = 1 THEN Genesis ELSE h[i - 1].hash, 0 + i - 1, h[i])
  <2>1. i - 1 \in 0..(n - 1) /\ h[i] = At(l, tree, i - 1) /\ 0 + i - 1 = i - 1
    BY <1>1, <1>2
  <2>2. HashBefore(l, tree, i - 1) = IF i = 1 THEN Genesis ELSE h[i - 1].hash
    <3>1. CASE i = 1
      BY <3>1 DEF HashBefore
    <3>2. CASE i # 1
      <4>1. i - 1 \in 1..n /\ i - 1 # 0
        BY <1>1, <3>2
      <4>2. h[i - 1] = At(l, tree, i - 1 - 1)
        BY <1>2, <4>1, ZenonT(60)
      <4>. QED
        BY ONLY <3>2, <4>1, <4>2, ZenonT(60) DEF HashBefore
    <3>. QED
      BY <3>1, <3>2, Zenon
  <2>. QED
    BY ONLY <1>3, <2>1, <2>2, ZenonT(60)
<1>5. VerifyChain(h)
  BY <1>2, <1>4, ZenonT(60) DEF VerifyChain, VerifyChainSegment
<1>6. ASSUME NEW i \in 1..c
      PROVE  VerifyNextEntry(IF i = 1 THEN l.prev ELSE l.entries[i - 1].hash, b + i - 1, l.entries[i])
  <2>1. /\ b + i - 1 \in 0..(n - 1) /\ ~(b + i - 1 < b) /\ b + i - 1 - b + 1 = i
    BY <1>1
  <2>2. At(l, tree, b + i - 1) = l.entries[i]
    BY <1>1, <2>1, SMTT(30) DEF At
  <2>3. HashBefore(l, tree, b + i - 1) = IF i = 1 THEN l.prev ELSE l.entries[i - 1].hash
    <3>1. CASE i = 1
      <4>1. b + i - 1 = b
        BY <1>1, <3>1
      <4>. QED
        BY ONLY <1>1, <3>1, <4>1, ZenonT(60)
    <3>2. CASE i # 1
      <4>1. PICK s \in Nat : s = b + i - 1
        BY <1>1
      <4>2. s # 0 /\ ~(s - 1 < b) /\ s - 1 - b + 1 = i - 1
        BY <1>1, <3>2, <4>1
      <4>3. At(l, tree, s - 1) = l.entries[i - 1]
        BY ONLY <4>2, Zenon DEF At
      <4>4. HashBefore(l, tree, s) = l.entries[i - 1].hash
        BY ONLY <4>2, <4>3, ZenonT(60) DEF HashBefore
      <4>. QED
        BY ONLY <3>2, <4>1, <4>4, ZenonT(60)
    <3>. QED
      BY <3>1, <3>2, Zenon
  <2>. QED
    BY ONLY <1>3, <2>1, <2>2, <2>3, ZenonT(60)
<1>7. VerifyChainSegment(b, l.prev, l.entries)
  BY <1>1, <1>6, ZenonT(60) DEF VerifyChainSegment
<1>8. Root(l) = RootAfter(Genesis, h)
  <2>1. Root(l) = HashBefore(l, tree, n)
    BY RootIsLastHash, Zenon
  <2>2. CASE n = 0
    BY ONLY <1>2, <2>1, <2>2, ZenonT(60) DEF HashBefore, RootAfter
  <2>3. CASE n # 0
    <3>1. n \in 1..n
      BY <1>1, <2>3
    <3>2. h[n] = At(l, tree, n - 1)
      BY <1>2, <3>1
    <3>. QED
      BY ONLY <1>2, <2>1, <2>3, <3>2, ZenonT(60) DEF HashBefore, RootAfter
  <2>. QED
    BY <2>2, <2>3, Zenon
<1>. QED
  BY ONLY <1>1, <1>5, <1>7, <1>8, ZenonT(60) DEF IntactOf, h


\* The histories of the two logs.
LEMMA Histories ==
    /\ FullHistory = HistoryOf(log, archive)
    /\ MatchLog!FullHistory = HistoryOf(matchLog, matchArchive)
    /\ HistoryIntact = IntactOf(log, archive)
    /\ MatchLog!HistoryIntact = IntactOf(matchLog, matchArchive)
<1>1. FullHistory = HistoryOf(log, archive)
  BY DEF FullHistory, HistoryOf
<1>2. MatchLog!FullHistory = HistoryOf(matchLog, matchArchive)
  BY DEF MatchLog!FullHistory, HistoryOf, MatchLog!NextSeq, NextSeq
<1>3. HistoryIntact = IntactOf(log, archive)
  BY <1>1, Zenon DEF HistoryIntact, IntactOf
<1>4. /\ MatchLog!VerifyChain(HistoryOf(matchLog, matchArchive))
           = VerifyChain(HistoryOf(matchLog, matchArchive))
      /\ MatchLog!VerifyChainSegment(matchLog.base, matchLog.prev, matchLog.entries)
           = VerifyChainSegment(matchLog.base, matchLog.prev, matchLog.entries)
  BY Zenon DEF MatchLog!VerifyChain, VerifyChain, MatchLog!VerifyChainSegment, VerifyChainSegment,
         MatchLog!VerifyNextEntry, VerifyNextEntry, MatchLog!EntryHash, EntryHash,
         MatchLog!Genesis, Genesis
<1>5. /\ MatchLog!Root(matchLog) = Root(matchLog)
      /\ MatchLog!RootAfter(MatchLog!Genesis, HistoryOf(matchLog, matchArchive))
           = RootAfter(Genesis, HistoryOf(matchLog, matchArchive))
  BY DEF MatchLog!Root, Root, MatchLog!RootAfter, RootAfter, MatchLog!Genesis, Genesis
<1>6. MatchLog!HistoryIntact = IntactOf(matchLog, matchArchive)
  BY <1>2, <1>4, <1>5, ZenonT(60) DEF MatchLog!HistoryIntact, IntactOf
<1>. QED
  BY <1>1, <1>2, <1>3, <1>6, ZenonT(60)

\* The invariant is enough for LogsTrue.
LEMMA TrailIsTrue == TrailInv => LogsTrue
<1>. SUFFICES ASSUME TrailInv PROVE LogsTrue
  OBVIOUS
<1>. DEFINE n == disk.last
            x == NextSeq(mirror)
<1>1. /\ n \in Nat /\ log.base \in Nat /\ matchLog.base \in Nat
      /\ NextSeq(log) = n /\ NextSeq(matchLog) <= n
      /\ Whole(log, archive) /\ Whole(matchLog, matchArchive)
      /\ IsLog(log) /\ IsLog(matchLog)
  BY TrailNumbers, Zenon
<1>2. /\ FollowersOK(wire, mirror, log, archive, n) /\ n \in 0..MaxOrders
      /\ DOMAIN archive \union DOMAIN matchArchive \subseteq 0..(n - 1)
  BY DEF TrailInv
<1>3. /\ IsLog(mirror) /\ mirror.base = 0 /\ mirror.prev = Genesis /\ x <= n
      /\ \A s \in 0..(x - 1) : At(mirror, <<>>, s) = At(log, archive, s)
      /\ \A e \in wire : e.seq \in 0..(n - 1) /\ e = At(log, archive, e.seq)
  BY <1>2, Zenon DEF FollowersOK, Alike
<1>4. x \in Nat /\ x = Len(mirror.entries) /\ DOMAIN mirror.entries = 1..x
  BY <1>3, LogFacts, SMTT(30)
<1>5. TypeOK
  <2>1. LogType(log) /\ LogType(matchLog) /\ LogType(mirror)
    BY <1>1, <1>3, <1>4, LogFacts, SMTT(30) DEF LogType
  <2>2. 0..(n - 1) \subseteq 0..(MaxOrders - 1)
    BY <1>1, <1>2, OrdersAssumption
  <2>. QED
    BY <1>1, <1>2, <2>1, <2>2, ZenonT(60) DEF TypeOK
<1>6. LogsIntact
  BY <1>1, WholeIsIntact, Histories, ZenonT(60) DEF LogsIntact
<1>. HIDE DEF n, x
<1>7. ASSUME NEW i \in DOMAIN mirror.entries
      PROVE  i \in DOMAIN FullHistory /\ mirror.entries[i] = FullHistory[i]
  <2>1. i \in 1..n /\ i \in 1..x /\ i - 1 \in 0..(x - 1) /\ ~(i - 1 < 0) /\ i - 1 - 0 + 1 = i
    BY <1>1, <1>3, <1>4, SMTT(30)
  <2>2. At(mirror, <<>>, i - 1) = mirror.entries[i]
    BY ONLY <1>3, <2>1, Zenon DEF At
  <2>3. DOMAIN FullHistory = 1..n /\ FullHistory[i] = At(log, archive, i - 1)
    BY <1>1, <2>1, HistoryAt, Histories, ZenonT(60)
  <2>. QED
    BY ONLY <1>3, <2>1, <2>2, <2>3, ZenonT(60)
<1>8. ASSUME NEW e \in wire, e.seq = NextSeq(mirror)
      PROVE  Extends(mirror, e)
  <2>1. e.seq \in 0..(NextSeq(log) - 1) /\ e = At(log, archive, e.seq) /\ e.seq = x
    BY <1>1, <1>3, <1>8, ZenonT(60) DEF x
  <2>2. VerifyNextEntry(HashBefore(log, archive, x), x, e)
    BY <1>1, <2>1, EntryVerifies, ZenonT(60)
  <2>3. Root(mirror) = HashBefore(log, archive, x)
    <3>1. PICK S : mirror.entries \in Seq(S)
      BY <1>3, Zenon DEF IsLog
    <3>2. CASE x = 0
      <4>0. Len(mirror.entries) = 0
        BY ONLY <1>4, <3>2
      <4>1. mirror.entries = <<>>
        BY ONLY <3>1, <4>0
      <4>. QED
        BY ONLY <1>3, <3>2, <4>1, ZenonT(60) DEF Root, RootAfter, HashBefore
    <3>3. CASE x # 0
      <4>1. mirror.entries # <<>> /\ x - 1 \in 0..(x - 1) /\ ~(x - 1 < 0) /\ x - 1 - 0 + 1 = x
        BY <1>4, <3>3
      <4>2. At(mirror, <<>>, x - 1) = mirror.entries[x]
        BY ONLY <1>3, <4>1, ZenonT(60) DEF At
      <4>3. At(log, archive, x - 1) = mirror.entries[x]
        BY ONLY <1>3, <4>1, <4>2, ZenonT(60)
      <4>. QED
        BY ONLY <1>4, <3>3, <4>1, <4>3, ZenonT(60) DEF Root, RootAfter, HashBefore
    <3>. QED
      BY <3>2, <3>3, ZenonT(60)
  <2>. QED
    BY <2>2, <2>3, ZenonT(60) DEF Extends, x
<1>9. MirrorFollows
  BY ONLY <1>7, <1>8 DEF MirrorFollows
<1>. QED
  BY <1>5, <1>6, <1>9, ZenonT(60) DEF LogsTrue

\* The order log and the match log verify from their first entry to their root in
\* every state, wherever their entries are kept, and the watchtower's mirror is a
\* prefix of the order log that takes every next broadcast (archive_and_trim_order_log,
\* replay_persistence_log, try_append_remote).
THEOREM LogsStayTrue == Spec => []LogsTrue
  BY TrailKept, TrailIsTrue, PTL


\* What is promised of the order log: the payloads of its history.
Orders == [i \in DOMAIN FullHistory |-> FullHistory[i].payload]

\* They are the orders in the order of their acceptance.
LEMMA OrdersAre == TrailInv => Orders = [i \in 1..disk.last |-> i]
<1>. SUFFICES ASSUME TrailInv PROVE Orders = [i \in 1..disk.last |-> i]
  OBVIOUS
<1>1. disk.last \in Nat /\ NextSeq(log) = disk.last /\ IsLog(log)
  BY TrailNumbers, Zenon
<1>2. DOMAIN FullHistory = 1..disk.last
      /\ \A i \in 1..disk.last : i - 1 \in 0..(disk.last - 1) /\ FullHistory[i] = At(log, archive, i - 1)
  BY <1>1, HistoryAt, Histories, ZenonT(60)
<1>3. \A s \in 0..(disk.last - 1) : At(log, archive, s).payload = s + 1
  BY DEF TrailInv, OrdersTo
<1>4. ASSUME NEW i \in 1..disk.last PROVE FullHistory[i].payload = i
  <2>1. FullHistory[i].payload = i - 1 + 1
    BY <1>2, <1>3
  <2>. QED
    BY <1>1, <2>1
<1>. QED
  BY <1>2, <1>4 DEF Orders

\* The numbers up to n + 1 are those up to n and one more.
LEMMA CountOne ==
    ASSUME NEW n \in Nat
    PROVE  [i \in 1..(n + 1) |-> i] = Append([i \in 1..n |-> i], n + 1)
<1>. DEFINE f == [i \in 1..n |-> i]
            g == [i \in 1..(n + 1) |-> i]
<1>1. f \in Seq(Nat) /\ Len(f) = n
  BY FunctionIsSeq
<1>2. g \in Seq(Nat) /\ Len(g) = n + 1
  BY FunctionIsSeq
<1>3. Append(f, n + 1) \in Seq(Nat) /\ Len(Append(f, n + 1)) = n + 1
  BY <1>1
<1>4. \A i \in 1..(n + 1) : g[i] = Append(f, n + 1)[i]
  BY <1>1
<1>. HIDE DEF f, g
<1>. QED
  BY <1>2, <1>3, <1>4 DEF f, g

\* A step accepts one order or none.
LEMMA OneOrder ==
    ASSUME TrailInv, [Next]_vars
    PROVE  disk'.last = disk.last \/ disk'.last = disk.last + 1
<1>0. disk = [orders |-> disk.orders, matches |-> disk.matches, last |-> disk.last,
              covered |-> disk.covered]
  BY DEF TrailInv
<1>1. CASE AcceptOrder
  BY <1>0, <1>1, DiskAfter, ZenonT(60) DEF AcceptOrder
<1>2. CASE \E t \in BOOLEAN : SaveSnapshot(t)
  <2>1. PICK t \in BOOLEAN : SaveSnapshot(t)
    BY <1>2
  <2>2. disk' = [disk EXCEPT !.orders = captured.orders, !.matches = captured.matches,
                             !.covered = ~t]
    BY <2>1 DEF SaveSnapshot
  <2>3. disk' = [orders |-> captured.orders, matches |-> captured.matches, last |-> disk.last,
                 covered |-> ~t]
    BY ONLY <1>0, <2>2, ZenonT(60)
  <2>. QED
    BY ONLY <2>3
<1>3. CASE \E a \in BOOLEAN : Restart(a)
  <2>1. PICK a \in BOOLEAN : Restart(a)
    BY <1>3
  <2>2. disk' = [disk EXCEPT !.last = IF a THEN disk.last + 1 ELSE disk.last]
    BY <2>1 DEF Restart
  <2>. QED
    BY <1>0, <2>2, DiskAfter, ZenonT(60)
<1>4. CASE \/ \E o, m \in BOOLEAN : SnapshotCycle(o, m)
           \/ SaveFails \/ EndRead \/ Finish \/ UNCHANGED vars
           \/ \E e \in wire : Mirror(e)
           \/ \E l \in Logs, since \in 0..MaxOrders, audit \in BOOLEAN : BeginRead(l, since, audit)
  <2>1. disk' = disk
    BY <1>4, ZenonT(60) DEF SnapshotCycle, SaveFails, EndRead, Finish, vars, Mirror, BeginRead
  <2>. QED
    BY <2>1
<1>. QED
  BY <1>1, <1>2, <1>3, <1>4, ZenonT(60) DEF Next

\* The order log, archived and in memory, is one log that only grows, through
\* failed archive writes, snapshots not saved, crashes and replays: AppendOnlyLog is
\* implemented by the whole node and not by the log alone.
THEOREM TrailOnlyGrows == Spec => AppendOnly
<1>1. Init => Promise!Init
  <2>. SUFFICES ASSUME Init PROVE Orders = <<>>
    BY Zenon DEF Promise!Init, Orders
  <2>1. TrailInv /\ disk.last = 0
    BY InitTrail DEF Init
  <2>2. Orders = [i \in 1..0 |-> i]
    BY <2>1, OrdersAre
  <2>. QED
    BY ONLY <2>2
<1>a. (TrailInv => Orders = [i \in 1..disk.last |-> i])'
  BY OrdersAre, PTL
<1>2. ASSUME TrailInv, TrailInv', [Next]_vars
      PROVE  [Promise!Next]_Orders
  <2>1. Orders = [i \in 1..disk.last |-> i] /\ Orders' = [i \in 1..disk'.last |-> i]
    BY <1>a, <1>2, OrdersAre, ZenonT(60)
  <2>2. CASE disk'.last = disk.last
    BY ONLY <2>1, <2>2, Zenon
  <2>3. CASE disk'.last = disk.last + 1
    <3>1. disk.last \in Nat /\ disk.last + 1 \in Payloads
      BY <1>2, <2>3, OrdersAssumption DEF TrailInv
    <3>2. Orders' = Append(Orders, disk.last + 1)
      BY <2>1, <2>3, <3>1, CountOne, ZenonT(60)
    <3>. QED
      BY <3>1, <3>2, ZenonT(60) DEF Promise!Next, Orders
  <2>. QED
    BY <1>2, <2>2, <2>3, OneOrder, ZenonT(60)
<1>. QED
  BY <1>1, <1>2, TrailKept, PTL DEF Spec, AppendOnly, Promise!Spec, Orders

\* The second log has the entries of the first up to its first match with a local
\* timestamp.
SharedKept(l, tree, k, other) ==
    \A i \in 1..NextSeq(l) :
        (\A j \in 1..i : HistoryOf(l, tree)[j].payload[1] \in Evidenced)
            => i \in 1..NextSeq(k) /\ HistoryOf(k, other)[i] = HistoryOf(l, tree)[i]

\* Two match logs, the second of the same orders or more, have the same entries up to
\* the first match with a local timestamp.
LEMMA SharedSame ==
    ASSUME NEW l, NEW tree, NEW n \in Nat, MatchesTo(l, tree, n),
           NEW k, NEW other, NEW m \in Nat, MatchesTo(k, other, m), n <= m
    PROVE  SharedKept(l, tree, k, other)
<1>. SUFFICES ASSUME NEW i \in 1..NextSeq(l),
                     \A j \in 1..i : HistoryOf(l, tree)[j].payload[1] \in Evidenced
              PROVE  i \in 1..NextSeq(k) /\ HistoryOf(k, other)[i] = HistoryOf(l, tree)[i]
  BY Zenon DEF SharedKept
<1>1. /\ Whole(l, tree) /\ Whole(k, other) /\ IsLog(l) /\ IsLog(k)
      /\ NextSeq(l) \in Nat /\ NextSeq(k) \in Nat
  BY LogFacts, ZenonT(60) DEF MatchesTo, Whole
<1>2. NextSeq(l) <= NextSeq(k)
      /\ \A s \in 0..(NextSeq(l) - 1) : TakerAt(k, other, s) = TakerAt(l, tree, s)
  <2>1. TakersAgree(l, tree, k, other)
    BY ONLY n \in Nat, m \in Nat, n <= m, MatchesTo(l, tree, n), MatchesTo(k, other, m),
            TakersSame, ZenonT(60), SMTT(30)
  <2>. QED
    BY ONLY <2>1, Zenon DEF TakersAgree
<1>3. i \in Nat /\ i <= NextSeq(l) /\ i <= NextSeq(k) /\ i \in 1..NextSeq(k) /\ i - 1 \in 0..(i - 1)
  BY <1>1, <1>2
<1>4. ASSUME NEW s \in 0..(i - 1)
      PROVE  At(k, other, s).payload = At(l, tree, s).payload
  <2>1. s \in 0..(NextSeq(l) - 1) /\ s \in 0..(NextSeq(k) - 1) /\ s + 1 \in 1..i
        /\ s + 1 \in 1..NextSeq(l) /\ s + 1 - 1 = s
    BY <1>1, <1>3, SMTT(30)
  <2>2. HistoryOf(l, tree)[s + 1] = At(l, tree, s)
    BY <1>1, <2>1, HistoryAt, SMTT(30)
  <2>3. TakerAt(l, tree, s) \in Evidenced
    BY <2>1, <2>2, ZenonT(60) DEF TakerAt
  <2>4. At(l, tree, s).payload = <<TakerAt(l, tree, s), 0>>
    BY <2>1, <2>3, ZenonT(60) DEF MatchesTo
  <2>5. TakerAt(k, other, s) = TakerAt(l, tree, s)
    BY <1>2, <2>1, Zenon
  <2>6. At(k, other, s).payload = <<TakerAt(k, other, s), 0>>
    BY <2>1, <2>3, <2>5, ZenonT(60) DEF MatchesTo
  <2>. QED
    BY ONLY <2>4, <2>5, <2>6, ZenonT(60)
<1>5. Alike(l, tree, k, other, i)
  BY ONLY <1>1, <1>3, <1>4, ChainDetermines, ZenonT(60)
<1>6. At(k, other, i - 1) = At(l, tree, i - 1)
  BY ONLY <1>3, <1>5, ZenonT(60) DEF Alike
<1>7. HistoryOf(l, tree)[i] = At(l, tree, i - 1) /\ HistoryOf(k, other)[i] = At(k, other, i - 1)
  BY <1>1, <1>3, HistoryAt, ZenonT(60)
<1>. QED
  BY ONLY <1>3, <1>6, <1>7, ZenonT(60)

\* Matches with the network's timestamp are permanent: up to the first match with a
\* local one, no step of the node, a crash and its replay included, takes an entry of
\* the match log away or gives it another hash.
THEOREM SharedMatchesStay == Spec => SharedMatchesPermanent
<1>. DEFINE old == MatchLog!FullHistory
            Kept == \A i \in DOMAIN old :
                      (\A j \in 1..i : old[j].payload[1] \in Evidenced)
                        => i \in DOMAIN old' /\ old'[i] = old[i]
<1>1. (MatchLog!FullHistory = HistoryOf(matchLog, matchArchive))'
  BY Histories, PTL
<1>2. (TrailInv => disk.last \in Nat /\ IsLog(matchLog))'
  <2>1. TrailInv => disk.last \in Nat /\ IsLog(matchLog)
    BY TrailNumbers, Zenon
  <2>. QED
    BY <2>1, PTL
<1>3. ASSUME TrailInv, TrailInv', [Next]_vars
      PROVE  Kept
  <2>1. old = HistoryOf(matchLog, matchArchive) /\ old' = HistoryOf(matchLog', matchArchive')
    BY <1>1, Histories, Zenon
  <2>2. disk.last \in Nat /\ disk'.last \in Nat /\ disk.last <= disk'.last
        /\ IsLog(matchLog) /\ IsLog(matchLog')
    BY <1>2, <1>3, TrailNumbers, OneOrder, SMTT(30)
  <2>3. MatchesTo(matchLog, matchArchive, disk.last) /\ MatchesTo(matchLog', matchArchive', disk'.last)
    BY <1>3, Zenon DEF TrailInv
  <2>4. DOMAIN old = 1..NextSeq(matchLog) /\ DOMAIN old' = 1..NextSeq(matchLog')
    BY ONLY <2>1, <2>2, HistoryAt, ZenonT(60)
  <2>. HIDE DEF old
  <2>5. ASSUME NEW i \in DOMAIN old, \A j \in 1..i : old[j].payload[1] \in Evidenced
        PROVE  i \in DOMAIN old' /\ old'[i] = old[i]
    <3>1. i \in 1..NextSeq(matchLog)
          /\ \A j \in 1..i : HistoryOf(matchLog, matchArchive)[j].payload[1] \in Evidenced
      BY ONLY <2>1, <2>4, <2>5, ZenonT(60)
    <3>2. SharedKept(matchLog, matchArchive, matchLog', matchArchive')
      BY ONLY <2>2, <2>3, SharedSame, ZenonT(60)
    <3>3. i \in 1..NextSeq(matchLog')
          /\ HistoryOf(matchLog', matchArchive')[i] = HistoryOf(matchLog, matchArchive)[i]
      BY ONLY <3>1, <3>2, Zenon DEF SharedKept
    <3>. QED
      BY ONLY <2>1, <2>4, <3>3, Zenon
  <2>. QED
    BY ONLY <2>5, Zenon
<1>4. TrailInv /\ TrailInv' /\ [Next]_vars => [Kept]_vars
  BY <1>3
<1>. QED
  BY <1>4, TrailKept, PTL DEF Spec, SharedMatchesPermanent

-----------------------------------------------------------------------------
(***************************************************************************)
(* One audit log by itself, for any payloads (LogSpec).                    *)
(***************************************************************************)

\* The payloads of a log, from its first entry.
PayloadsOf(l, tree) == [i \in 1..NextSeq(l) |-> At(l, tree, i - 1).payload]

\* A step of the log moves entries or appends one.
LEMMA LogStep ==
    ASSUME Whole(log, archive), [LogNext]_<<log, archive>>
    PROVE  \/ KeepsEntries(log, archive, log', archive')
           \/ \E p \in Payloads : HasAppended(log', log, archive, p) /\ archive' = archive
<1>1. ASSUME NEW p \in Payloads, AppendPayload(p)
      PROVE  HasAppended(log', log, archive, p) /\ archive' = archive
  BY <1>1, AppendKeeps, Zenon DEF AppendPayload
<1>2. ASSUME ArchiveAndTrim PROVE KeepsEntries(log, archive, log', archive')
  <2>1. ArchiveOrders(FALSE)
    BY <1>2, Zenon DEF ArchiveOrders
  <2>. QED
    BY <2>1, OrdersArchived, HotWindowAssumption, Zenon
<1>3. ASSUME NEW n \in 0..Len(log.entries), ArchiveFails(n)
      PROVE  KeepsEntries(log, archive, log', archive')
  <2>1. ArchiveOrders(TRUE)
    BY <1>3, Zenon DEF ArchiveOrders
  <2>. QED
    BY <2>1, OrdersArchived, HotWindowAssumption, Zenon
<1>4. ASSUME UNCHANGED <<log, archive>> PROVE KeepsEntries(log, archive, log', archive')
  BY <1>4, NothingArchived
<1>. QED
  BY <1>1, <1>2, <1>3, <1>4, Zenon DEF LogNext

\* The log is whole at the start and after every step.
LEMMA LogStaysWhole == LogSpec => []Whole(log, archive)
<1>1. LogInit => Whole(log, archive)
  BY EmptyIsWhole, Zenon DEF LogInit
<1>2. Whole(log, archive) /\ [LogNext]_<<log, archive>> => Whole(log, archive)'
  <2>. SUFFICES ASSUME Whole(log, archive), [LogNext]_<<log, archive>>
                PROVE  Whole(log', archive')
    BY DEF Whole, IsLog, HashBefore, At, NextSeq
  <2>. QED
    BY LogStep, Zenon DEF KeepsEntries, HasAppended
<1>. QED
  BY <1>1, <1>2, PTL DEF LogSpec

\* Whatever the payloads, archiving that succeeds or fails halfway leaves archive and
\* hot window a log that verifies from genesis (archive_and_trim_*_log).
THEOREM LogStaysIntact == LogSpec => []HistoryIntact
<1>1. Whole(log, archive) => HistoryIntact
  BY WholeIsIntact, Histories, Zenon
<1>. QED
  BY <1>1, LogStaysWhole, PTL

\* The payloads a reader sees are those of the history.
LEMMA OrdersArePayloads ==
    ASSUME Whole(log, archive)
    PROVE  Orders = PayloadsOf(log, archive)
<1>1. IsLog(log)
  BY Zenon DEF Whole
<1>2. /\ DOMAIN FullHistory = 1..NextSeq(log)
      /\ \A i \in 1..NextSeq(log) : FullHistory[i] = At(log, archive, i - 1)
  BY <1>1, HistoryAt, Histories, Zenon
<1>. QED
  BY <1>2, Zenon DEF Orders, PayloadsOf

\* Entries that only move have the same payloads,
LEMMA SamePayloads ==
    ASSUME NEW l, NEW tree, Whole(l, tree), NEW k, NEW other, KeepsEntries(l, tree, k, other)
    PROVE  PayloadsOf(k, other) = PayloadsOf(l, tree)
<1>1. NextSeq(l) \in Nat /\ NextSeq(k) = NextSeq(l)
  BY LogFacts, Zenon DEF Whole, KeepsEntries
<1>2. ASSUME NEW i \in 1..NextSeq(l) PROVE At(k, other, i - 1) = At(l, tree, i - 1)
  <2>1. i - 1 \in 0..(NextSeq(l) - 1)
    BY <1>1
  <2>. QED
    BY <2>1, Zenon DEF KeepsEntries, Alike
<1>. QED
  BY <1>1, <1>2, Zenon DEF PayloadsOf

\* and an entry appended adds its own.
LEMMA OneMorePayload ==
    ASSUME NEW l, NEW tree, Whole(l, tree), NEW k, NEW p, HasAppended(k, l, tree, p)
    PROVE  PayloadsOf(k, tree) = Append(PayloadsOf(l, tree), p)
<1>. DEFINE n == NextSeq(l)
            f == PayloadsOf(l, tree)
            g == PayloadsOf(k, tree)
<1>1. n \in Nat /\ NextSeq(k) = n + 1 /\ At(k, tree, n).payload = p
  BY LogFacts DEF Whole, HasAppended
<1>2. ASSUME NEW i \in 1..n PROVE At(k, tree, i - 1) = At(l, tree, i - 1)
  <2>1. i - 1 \in 0..(NextSeq(l) - 1)
    BY <1>1
  <2>. QED
    BY <2>1, Zenon DEF HasAppended, Alike
<1>3. f = [i \in 1..n |-> f[i]] /\ \A i \in 1..n : f[i] = At(l, tree, i - 1).payload
  BY Zenon DEF PayloadsOf
<1>4. g = [i \in 1..(n + 1) |-> g[i]] /\ \A i \in 1..(n + 1) : g[i] = At(k, tree, i - 1).payload
  BY <1>1, Zenon DEF PayloadsOf
<1>. HIDE DEF n, f, g
<1>5. f \in Seq({f[i] : i \in 1..n}) /\ Len(f) = n
  BY <1>1, <1>3, FunctionIsSeq, Zenon
<1>6. (n + 1) - 1 = n /\ n + 1 \in 1..(n + 1) /\ \A i \in 1..n : i \in 1..(n + 1)
  BY <1>1
<1>7. g[n + 1] = p /\ \A i \in 1..n : g[i] = f[i]
  BY <1>1, <1>2, <1>3, <1>4, <1>6, Zenon
<1>8. g \in Seq({g[i] : i \in 1..(n + 1)}) /\ Len(g) = n + 1
  BY <1>1, <1>4, FunctionIsSeq
<1>9. /\ Append(f, p) \in Seq({f[i] : i \in 1..n} \union {p})
      /\ Len(Append(f, p)) = n + 1
      /\ \A i \in 1..(n + 1) : Append(f, p)[i] = IF i <= n THEN f[i] ELSE p
  BY ONLY <1>1, <1>5
<1>10. \A i \in 1..(n + 1) : Append(f, p)[i] = g[i]
  BY ONLY <1>1, <1>7, <1>9
<1>11. g = Append(f, p)
  BY ONLY <1>8, <1>9, <1>10
<1>. QED
  BY <1>11, Zenon DEF f, g

\* To a reader the archive and the hot window are one append-only log, whatever the
\* payloads: every step appends one payload to it or leaves it alone.
THEOREM ImplementsAppendOnly == LogSpec => AppendOnly
<1>1. LogInit => Promise!Init
  <2>. SUFFICES ASSUME LogInit PROVE Orders = <<>>
    BY DEF Promise!Init, Orders
  <2>1. Whole(log, archive) /\ NextSeq(log) = 0
    BY EmptyIsWhole, Zenon DEF LogInit
  <2>2. Orders = [i \in 1..0 |-> At(log, archive, i - 1).payload]
    BY <2>1, OrdersArePayloads, Zenon DEF PayloadsOf
  <2>. QED
    BY ONLY <2>2
<1>a. (Whole(log, archive) => Orders = PayloadsOf(log, archive))'
  BY OrdersArePayloads, PTL
<1>2. ASSUME Whole(log, archive), Whole(log, archive)', [LogNext]_<<log, archive>>
      PROVE  [Promise!Next]_Orders
  <2>1. Orders = PayloadsOf(log, archive) /\ Orders' = PayloadsOf(log', archive')
    <3>1. PayloadsOf(log, archive)' = PayloadsOf(log', archive')
      BY DEF PayloadsOf, At, NextSeq
    <3>. QED
      BY <1>a, <1>2, <3>1, OrdersArePayloads, ZenonT(60)
  <2>2. CASE KeepsEntries(log, archive, log', archive')
    <3>1. PayloadsOf(log', archive') = PayloadsOf(log, archive)
      BY ONLY Whole(log, archive), <2>2, SamePayloads
    <3>. QED
      BY ONLY <2>1, <3>1, Zenon
  <2>3. ASSUME NEW p \in Payloads, HasAppended(log', log, archive, p), archive' = archive
        PROVE  Promise!Next
    <3>1. Orders' = Append(Orders, p)
      <4>1. PayloadsOf(log', archive) = Append(PayloadsOf(log, archive), p)
        BY ONLY Whole(log, archive), <2>3, OneMorePayload
      <4>. QED
        BY ONLY <2>1, <2>3, <4>1, ZenonT(60)
    <3>. QED
      BY <3>1, ZenonT(60) DEF Promise!Next, Orders
  <2>. QED
    BY <1>2, <2>2, <2>3, LogStep, Zenon
<1>. QED
  BY <1>1, <1>2, LogStaysWhole, PTL DEF LogSpec, AppendOnly, Promise!Spec, Orders
=============================================================================
