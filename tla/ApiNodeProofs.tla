---------------------------- MODULE ApiNodeProofs ----------------------------
(***************************************************************************)
(* What a crash of the API node cannot undo, for all orders, setups and    *)
(* faults.  None of the four properties is inductive:                      *)
(*                                                                         *)
(*  - BookInv is behind StateRecoverable and SequencedOnce.  A snapshot in *)
(*    progress becomes the slot on disk, so it has to rebuild the book     *)
(*    too, at every point between its capture and the last entry cut off.  *)
(*  - SettleInv is behind CheckpointsTrue and ConfirmationsRecoverable.  A *)
(*    checkpoint is written after the transaction it stands for was sent,  *)
(*    so the invariant follows the chunk the settlement loop is at and the *)
(*    transactions that wait to be mined.                                  *)
(*                                                                         *)
(* A replay is a fold over the log.  What all folds share is FoldTheorems' *)
(* and is instantiated here for the replay (RF) and for the batch the      *)
(* sequencing loop applies (BF).                                           *)
(***************************************************************************)
EXTENDS ApiNode, FiniteSetTheorems, TLAPS

-----------------------------------------------------------------------------
\* Induction over the natural numbers, for the members of a set.
LEMMA NatSetInduction ==
    ASSUME NEW T, 0 \in T, \A n \in Nat : n \in T => n + 1 \in T
    PROVE  \A n \in Nat : n \in T
<1>. DEFINE Missing == {n \in Nat : n \notin T}
<1>. SUFFICES ASSUME Missing # {} PROVE FALSE
    OBVIOUS
<1>1. PICK n \in Missing : \A m \in Missing : ~(<<m, n>> \in OpToRel(<, Nat))
    BY NatLessThanWellFounded, WFMin, Zenon
<1>2. \A m \in Missing : ~(m < n)
    BY <1>1, Zenon DEF OpToRel
<1>3. n # 0 /\ n - 1 \in Nat /\ n - 1 < n
    OBVIOUS
<1>4. n - 1 \in T
    BY <1>2, <1>3
<1>. QED
    BY <1>3, <1>4

\* Sequences, whatever their elements are.
IsSeq(s) == s \in Seq(ToSet(s))

\* A sequence over some set.
LEMMA SeqTyped == ASSUME NEW S, NEW s \in Seq(S) PROVE IsSeq(s) /\ ToSet(s) \subseteq S
<1>1. Len(s) \in Nat /\ DOMAIN s = 1..Len(s) /\ \A i \in 1..Len(s) : s[i] \in ToSet(s) /\ s[i] \in S
  BY DEF ToSet
<1>2. s = [i \in 1..Len(s) |-> s[i]]
  OBVIOUS
<1>3. s \in [1..Len(s) -> ToSet(s)]
  BY <1>1, <1>2
<1>4. s \in Seq(ToSet(s))
  BY ONLY <1>1, <1>3
<1>5. ToSet(s) \subseteq S
  BY <1>1 DEF ToSet
<1>. QED
  BY <1>4, <1>5 DEF IsSeq

\* A function on 1..n is a sequence.
LEMMA FunctionIsSeq ==
    ASSUME NEW n \in Nat, NEW S, NEW f \in [1..n -> S]
    PROVE  IsSeq(f) /\ Len(f) = n
<1>1. f \in Seq(S) /\ Len(f) = n
  OBVIOUS
<1>. QED
  BY <1>1, SeqTyped

\* What is known of a sequence.
LEMMA SeqFacts == ASSUME NEW s, IsSeq(s)
  PROVE /\ Len(s) \in Nat /\ DOMAIN s = 1..Len(s) /\ s = [i \in 1..Len(s) |-> s[i]]
        /\ \A x : x \in ToSet(s) <=> \E i \in 1..Len(s) : x = s[i]
<1>1. Len(s) \in Nat /\ DOMAIN s = 1..Len(s)  /\ s = [i \in 1..Len(s) |-> s[i]]
  BY DEF IsSeq
<1>. QED
  BY <1>1 DEF ToSet

\* A sequence with an element appended.
LEMMA SeqAppended == ASSUME NEW s, IsSeq(s), NEW e
  PROVE /\ IsSeq(Append(s, e)) /\ Len(Append(s, e)) = Len(s) + 1
        /\ \A i \in 1..Len(s) : Append(s, e)[i] = s[i]
        /\ Append(s, e)[Len(s) + 1] = e
        /\ ToSet(Append(s, e)) = ToSet(s) \union {e}
        /\ s \o <<e>> = Append(s, e)
<1>. DEFINE S == ToSet(s) \union {e}
<1>1. s \in Seq(S) /\ e \in S
  BY DEF IsSeq
<1>. HIDE DEF S
<1>2. /\ Append(s, e) \in Seq(S) /\ Len(Append(s, e)) = Len(s) + 1
      /\ \A i \in 1..Len(s) : Append(s, e)[i] = s[i]
      /\ Append(s, e)[Len(s) + 1] = e
      /\ s \o <<e>> = Append(s, e)
  BY <1>1
<1>3. IsSeq(Append(s, e))
  BY <1>1, <1>2, SeqTyped, Zenon
<1>4. ToSet(Append(s, e)) = ToSet(s) \union {e}
  <2>. DEFINE r == Append(s, e)
  <2>1. Len(s) \in Nat
    BY SeqFacts
  <2>2. \A x : x \in ToSet(r) <=> \E i \in 1..(Len(s) + 1) : x = r[i]
    <3>1. IsSeq(r) /\ Len(r) = Len(s) + 1
      BY <1>2, <1>3
    <3>. HIDE DEF r
    <3>. QED
      BY <3>1, SeqFacts
  <2>3. \A x : x \in ToSet(s) <=> \E i \in 1..Len(s) : x = s[i]
    BY SeqFacts
  <2>4. (\A i \in 1..Len(s) : r[i] = s[i]) /\ r[Len(s) + 1] = e
    BY <1>2
  <2>. HIDE DEF r
  <2>5. \A x : x \in ToSet(r) <=> x \in ToSet(s) \union {e}
    BY <2>1, <2>2, <2>3, <2>4
  <2>. QED
    BY <2>5 DEF r
<1>. QED
  BY <1>2, <1>3, <1>4

\* r is what s holds after its first d elements.
Suffix(r, s, d) ==
    /\ IsSeq(r) /\ Len(r) = Len(s) - d
    /\ \A i \in 1..Len(r) : r[i] = s[d + i]

\* The part of a sequence after its first d elements.
LEMMA SeqFrom == ASSUME NEW s, IsSeq(s), NEW d \in 0..Len(s)
  PROVE Suffix(SubSeq(s, d + 1, Len(s)), s, d)
<1>1. Len(s) \in Nat
  BY SeqFacts
<1>. DEFINE r == SubSeq(s, d + 1, Len(s))
<1>2. /\ r \in Seq(ToSet(s)) /\ Len(r) = Len(s) - d
      /\ \A i \in 1..Len(r) : r[i] = s[d + i]
  BY <1>1 DEF IsSeq
<1>. HIDE DEF r
<1>. QED
  BY <1>2, SeqTyped, Zenon DEF r, Suffix

\* The part of a sequence up to position n.
LEMMA SeqUpTo == ASSUME NEW s, IsSeq(s), NEW n \in 0..Len(s)
  PROVE LET r == SubSeq(s, 1, n)
        IN /\ IsSeq(r) /\ Len(r) = n
           /\ \A i \in 1..n : r[i] = s[i]
<1>1. Len(s) \in Nat
  BY SeqFacts
<1>. DEFINE r == SubSeq(s, 1, n)
<1>2. /\ r \in Seq(ToSet(s)) /\ Len(r) = n
      /\ \A i \in 1..n : r[i] = s[i]
  BY <1>1 DEF IsSeq
<1>. HIDE DEF r
<1>. QED
  BY <1>2, SeqTyped, Zenon DEF r

\* Sequences with the same elements.
LEMMA SeqsEqual == ASSUME NEW s, NEW r, IsSeq(s), IsSeq(r), Len(s) = Len(r), \A i \in 1..Len(s) : s[i] = r[i]
   PROVE s = r
<1>1. s = [i \in 1..Len(s) |-> s[i]] /\ r = [i \in 1..Len(s) |-> r[i]]
  BY SeqFacts
<1>. QED
  BY <1>1

\* An element appended to a sequence is appended to its suffixes.
LEMMA SuffixAppended ==
    ASSUME NEW s, IsSeq(s), NEW d \in 0..Len(s), NEW e, NEW r, NEW t,
           Suffix(r, s, d), Suffix(t, Append(s, e), d)
    PROVE  t = Append(r, e)
<1>1. Len(s) \in Nat /\ Len(Append(s, e)) = Len(s) + 1
      /\ (\A i \in 1..Len(s) : Append(s, e)[i] = s[i]) /\ Append(s, e)[Len(s) + 1] = e
  BY SeqFacts, SeqAppended
<1>2. IsSeq(r) /\ Len(r) = Len(s) - d /\ \A i \in 1..Len(r) : r[i] = s[d + i]
  BY DEF Suffix
<1>3. IsSeq(t) /\ Len(t) = Len(s) + 1 - d /\ \A i \in 1..Len(t) : t[i] = Append(s, e)[d + i]
  BY <1>1 DEF Suffix
<1>4. /\ IsSeq(Append(r, e)) /\ Len(Append(r, e)) = Len(r) + 1
      /\ \A i \in 1..Len(r) : Append(r, e)[i] = r[i]
      /\ Append(r, e)[Len(r) + 1] = e
  BY <1>2, SeqAppended
<1>5. ASSUME NEW i \in 1..Len(t) PROVE t[i] = Append(r, e)[i]
  <2>1. CASE i \in 1..Len(r)
    <3>1. d + i \in 1..Len(s)
      BY <1>1, <1>2, <2>1
    <3>2. t[i] = s[d + i]
      BY <1>1, <1>3, <3>1, ZenonT(60)
    <3>. QED
      BY <1>2, <1>4, <2>1, <3>2
  <2>2. CASE i = Len(r) + 1
    <3>1. d + i = Len(s) + 1
      BY <1>1, <1>2, <2>2
    <3>2. t[i] = e
      BY <1>1, <1>3, <3>1
    <3>. QED
      BY <1>4, <2>2, <3>2
  <2>3. i \in 1..Len(r) \/ i = Len(r) + 1
    BY <1>1, <1>2, <1>3
  <2>. QED
    BY ONLY <2>1, <2>2, <2>3
<1>6. Len(t) = Len(Append(r, e))
  BY <1>1, <1>2, <1>3, <1>4
<1>. QED
  BY ONLY <1>3, <1>4, <1>5, <1>6, SeqsEqual, Zenon

\* A suffix of the sequence without its first element.
LEMMA SuffixOfTail ==
    ASSUME NEW s, IsSeq(s), NEW d \in 1..Len(s), NEW r, NEW t, NEW u,
           Suffix(r, s, d), Suffix(t, s, 1), Suffix(u, t, d - 1)
    PROVE  r = u
<1>1. Len(s) \in Nat
  BY SeqFacts
<1>2. Len(r) = Len(u)
  BY <1>1 DEF Suffix
<1>3. ASSUME NEW i \in 1..Len(r) PROVE r[i] = u[i]
  <2>1. r[i] = s[d + i] /\ u[i] = t[d - 1 + i]
    BY <1>2 DEF Suffix
  <2>2. d - 1 + i \in 1..Len(t) /\ 1 + (d - 1 + i) = d + i
    BY <1>1 DEF Suffix
  <2>3. t[d - 1 + i] = s[1 + (d - 1 + i)]
    BY <2>2 DEF Suffix
  <2>. QED
    BY <2>1, <2>2, <2>3
<1>4. IsSeq(r) /\ IsSeq(u)
  BY DEF Suffix
<1>. QED
  BY ONLY <1>2, <1>3, <1>4, SeqsEqual

-----------------------------------------------------------------------------
\* a is a record of AppState's fields.
IsState(a) ==
    a = [nonces |-> a.nonces, pendingData |-> a.pendingData, sequencer |-> a.sequencer,
         applied |-> a.applied, orderLog |-> a.orderLog, resting |-> a.resting,
         matchLog |-> a.matchLog, pendingCommits |-> a.pendingCommits,
         confirmed |-> a.confirmed, queue |-> a.queue, ledger |-> a.ledger]

SameBook(a, b) ==
    /\ a.orderLog = b.orderLog /\ a.resting = b.resting /\ a.applied = b.applied
    /\ a.matchLog = b.matchLog /\ a.pendingCommits = b.pendingCommits

NothingQueued(a) == a.pendingData = {} /\ a.sequencer = {}

\* After i entries, the order log is the first i orders of x.
HasOrders(x, i, a) ==
    /\ IsSeq(a.orderLog) /\ Len(a.orderLog) = i
    /\ \A j \in 1..i : a.orderLog[j] = x[j]
    /\ ToSet(a.orderLog) \subseteq a.applied

\* After i of the entries, the queue holds the confirmed trades among them that
\* no entry says were submitted.
HasQueue(entries, i, a) ==
    /\ IsSeq(a.queue)
    /\ \A k : k \in ToSet(a.queue) <=>
          /\ k \notin SettledKeys(entries)
          /\ \E j \in 1..i : entries[j].kind = "CommitConfirmed" /\ entries[j].trade = k

\* Two replays of the same entries, from states with the same book, and what is
\* said of the first one besides.
Replaying(x, i, a, b) ==
    /\ IsState(a) /\ IsState(b) /\ SameBook(a, b) /\ NothingQueued(a)
    /\ x.about = "orders" => HasOrders(x.of, i, a)
    /\ x.about = "queue" => HasQueue(x.of, i, a)

RF == INSTANCE FoldTheorems WITH Op <- ReplayEntry, Alike <- Replaying

\* The hypothesis of its lemmas.
LEMMA RFInduction == RF!Induction
  BY NatSetInduction DEF RF!Induction

\* The replay of a log is the fold that FoldTheorems is about.
LEMMA ReplayIsFold ==
    ASSUME NEW start, NEW entries
    PROVE  Replay(start, entries) = RF!Fold(entries, start, entries)
  BY DEF Replay, RF!Fold, FoldLeft, MapThenFoldSet, RF!MapThenFoldSet, Max, RF!Top

\* d is c after an order was applied, field by field.
HasApplied(d, c, o, at) ==
    LET hits == Hits(c.resting, o)
    IN /\ IsState(d)
       /\ d.nonces = c.nonces /\ d.pendingData = c.pendingData /\ d.sequencer = c.sequencer
       /\ d.applied = c.applied \union {o} /\ d.orderLog = Append(c.orderLog, o)
       /\ d.resting = IF hits = <<>> THEN Append(c.resting, o) ELSE Missed(c.resting, o)
       /\ d.matchLog = c.matchLog \o [i \in DOMAIN hits |-> [trade |-> <<hits[i], o>>, at |-> at]]
       /\ d.pendingCommits = c.pendingCommits \union {<<p, o>> : p \in ToSet(hits)}

\* What ApplyOrder does to each field.
LEMMA ApplyOrderFields ==
    ASSUME NEW c, IsState(c), NEW o, NEW at
    PROVE  HasApplied(ApplyOrder(c, o, at), c, o, at)
<1>. DEFINE hits == Hits(c.resting, o)
            v1 == c.applied \union {o}
            v2 == Append(c.orderLog, o)
            v3 == IF hits = <<>> THEN Append(c.resting, o) ELSE Missed(c.resting, o)
            v4 == c.matchLog \o [i \in DOMAIN hits |-> [trade |-> <<hits[i], o>>, at |-> at]]
            v5 == c.pendingCommits \union {<<p, o>> : p \in ToSet(hits)}
            d == ApplyOrder(c, o, at)
<1>1. d = [c EXCEPT !.applied = v1, !.orderLog = v2, !.resting = v3, !.matchLog = v4,
                    !.pendingCommits = v5]
  BY DEF ApplyOrder
<1>. HIDE DEF v1, v2, v3, v4, v5, d
<1>2. /\ IsState(d)
      /\ d.nonces = c.nonces /\ d.pendingData = c.pendingData /\ d.sequencer = c.sequencer
      /\ d.applied = v1 /\ d.orderLog = v2 /\ d.resting = v3 /\ d.matchLog = v4
      /\ d.pendingCommits = v5
  BY <1>1, ZenonT(60) DEF IsState
<1>. QED
  BY <1>2 DEF d, v1, v2, v3, v4, v5, HasApplied

\* It does to the book what the book and the order say.
LEMMA ApplyOrderSame ==
    ASSUME NEW a, NEW b, IsState(a), IsState(b), SameBook(a, b), NEW o, NEW at
    PROVE  SameBook(ApplyOrder(a, o, at), ApplyOrder(b, o, at))
<1>1. a.resting = b.resting /\ a.matchLog = b.matchLog /\ a.pendingCommits = b.pendingCommits
      /\ a.orderLog = b.orderLog /\ a.applied = b.applied
  BY DEF SameBook
<1>. QED
  <2>1. HasApplied(ApplyOrder(a, o, at), a, o, at) /\ HasApplied(ApplyOrder(b, o, at), b, o, at)
    BY ApplyOrderFields
  <2>. QED
    BY <1>1, <2>1 DEF SameBook, HasApplied

\* Replaying one entry keeps two states on the same book, whatever logs they come from,
\* and queues nothing.
LEMMA ReplayEntryKeeps ==
    ASSUME NEW a, NEW b, IsState(a), IsState(b), NEW e, NEW p, NEW q
    PROVE  /\ IsState(ReplayEntry(p, a, e))
           /\ SameBook(a, b) => SameBook(ReplayEntry(p, a, e), ReplayEntry(q, b, e))
           /\ ReplayEntry(p, a, e).pendingData = a.pendingData
           /\ ReplayEntry(p, a, e).sequencer = a.sequencer
<1>1. CASE e.kind = "OrderAccepted"
  <2>1. ReplayEntry(p, a, e) = ApplyOrder(a, e.order, e.at) /\ ReplayEntry(q, b, e) = ApplyOrder(b, e.order, e.at)
    BY <1>1 DEF ReplayEntry
  <2>2. HasApplied(ApplyOrder(a, e.order, e.at), a, e.order, e.at)
    BY ApplyOrderFields
  <2>3. SameBook(a, b) => SameBook(ApplyOrder(a, e.order, e.at), ApplyOrder(b, e.order, e.at))
    BY ApplyOrderSame
  <2>. QED
    BY <2>1, <2>2, <2>3 DEF HasApplied
<1>2. CASE e.kind = "CommitConfirmed"
  BY <1>2, ZenonT(60) DEF ReplayEntry, TakePending, ConfirmLocally, IsState, SameBook
<1>3. CASE e.kind # "OrderAccepted" /\ e.kind # "CommitConfirmed"
  BY <1>3 DEF ReplayEntry
<1>. QED
  BY <1>1, <1>2, <1>3, Zenon

-----------------------------------------------------------------------------
\* Recovery, with the number of truncated entries as a parameter.
Entries(b, log, c) == SubSeq(log, c - b + 1, Len(log))

Replayed(b, log, slot) ==
    Replay(IF slot = NoSnapshot THEN Fresh ELSE slot.state, Entries(b, log, slot.covers))

Rec(b, q, log, slot) ==
    LET r == Replayed(b, log, slot)
    IN IF q THEN Queue(r, StillQueued(r, Entries(b, log, slot.covers))) ELSE r

\* The log has every entry that slot does not cover.
SlotOK(b, log, slot) ==
    /\ slot.covers \in b..(b + Len(log))
    /\ slot # NoSnapshot => IsState(slot.state) /\ NothingQueued(slot.state)

\* From log and slot, a restart rebuilds the book of a.
Rebuilds(b, log, slot, a) == SlotOK(b, log, slot) /\ SameBook(Replayed(b, log, slot), a)

\* Recover, with the state it reads given as arguments.
LEMMA RecoverIsRec == \A log, slot : Recover(log, slot) = Rec(base, Sequencing, log, slot)
  BY DEF Recover, Rec, Replayed, Entries, EntriesAfter

\* The entries that slot does not cover.
LEMMA EntriesFacts ==
    ASSUME NEW b \in Nat, NEW log, IsSeq(log), NEW c \in b..(b + Len(log))
    PROVE  Suffix(Entries(b, log, c), log, c - b)
<1>1. Len(log) \in Nat
  BY SeqFacts
<1>2. c - b \in 0..Len(log)
  BY <1>1
<1>. QED
  BY <1>2, SeqFrom DEF Entries

\* With nothing covered they are the whole log.
LEMMA EntriesFromStart == ASSUME NEW log, IsSeq(log) PROVE Entries(0, log, 0) = log
<1>0. Len(log) \in Nat
  BY SeqFacts
<1>1. Suffix(Entries(0, log, 0), log, 0 - 0)
  BY <1>0, EntriesFacts
<1>2. /\ IsSeq(Entries(0, log, 0)) /\ Len(Entries(0, log, 0)) = Len(log)
      /\ \A i \in 1..Len(log) : Entries(0, log, 0)[i] = log[i]
  BY <1>0, <1>1, SMTT(30) DEF Suffix
<1>. QED
  BY <1>2, SeqsEqual

\* The state a restart starts from with nothing on disk.
LEMMA FreshState == IsState(Fresh) /\ NothingQueued(Fresh)
  BY ZenonT(60) DEF Fresh, IsState, NothingQueued

\* Two replays of the same entries from the same state, whatever each takes for
\* settled, rebuild the same book.
LEMMA ReplaysAgree ==
    ASSUME NEW s, IsSeq(s), NEW p, NEW q, NEW a, IsState(a), NothingQueued(a)
    PROVE  /\ IsState(RF!Fold(p, a, s)) /\ NothingQueued(RF!Fold(p, a, s))
           /\ SameBook(RF!Fold(p, a, s), RF!Fold(q, a, s))
<1>. DEFINE x == [about |-> "book"]
<1>0. x.about = "book"
  OBVIOUS
<1>. HIDE DEF x
<1>1. Replaying(x, 0, a, a)
  BY <1>0 DEF Replaying, SameBook
<1>2. RF!Keeps(x, p, q, s, Len(s))
  <2>. SUFFICES ASSUME NEW i \in 1..Len(s), NEW c, NEW d, Replaying(x, i - 1, c, d)
                PROVE  Replaying(x, i, ReplayEntry(p, c, s[i]), ReplayEntry(q, d, s[i]))
    BY DEF RF!Keeps
  <2>. DEFINE e == s[i]
  <2>1. IsState(c) /\ IsState(d) /\ SameBook(c, d) /\ NothingQueued(c)
    BY DEF Replaying
  <2>. HIDE DEF e
  <2>2. IsState(ReplayEntry(p, c, e)) /\ SameBook(ReplayEntry(p, c, e), ReplayEntry(q, d, e))
        /\ NothingQueued(ReplayEntry(p, c, e))
    BY <2>1, ReplayEntryKeeps DEF NothingQueued
  <2>3. IsState(ReplayEntry(q, d, e))
    BY <2>1, ReplayEntryKeeps, ZenonT(60)
  <2>. QED
    BY <1>0, <2>2, <2>3, Zenon DEF Replaying, e
<1>3. Replaying(x, Len(s), RF!Fold(p, a, s), RF!Fold(q, a, s))
  <2>1. s \in Seq(ToSet(s))
    BY DEF IsSeq
  <2>. QED
    BY ONLY <1>1, <1>2, <2>1, RFInduction, RF!FoldsAlike, ZenonT(60)
<1>. QED
  BY <1>3 DEF Replaying

Start(slot) == IF slot = NoSnapshot THEN Fresh ELSE slot.state

\* What a restart replays is a state of the node with nothing queued yet.
LEMMA ReplayedState ==
    ASSUME NEW b \in Nat, NEW log, IsSeq(log), NEW slot, SlotOK(b, log, slot)
    PROVE  /\ IsState(Replayed(b, log, slot)) /\ NothingQueued(Replayed(b, log, slot))
           /\ IsState(Start(slot)) /\ NothingQueued(Start(slot))
           /\ IsSeq(Entries(b, log, slot.covers))
<1>. DEFINE s == Entries(b, log, slot.covers)
            start == Start(slot)
<1>1. IsSeq(s)
  BY EntriesFacts DEF SlotOK, Suffix
<1>2. IsState(start) /\ NothingQueued(start)
  BY FreshState DEF SlotOK, Start
<1>3. Replayed(b, log, slot) = RF!Fold(s, start, s)
  BY ReplayIsFold, Zenon DEF Replayed, Start
<1>. HIDE DEF s, start
<1>. QED
  BY <1>1, <1>2, <1>3, ReplaysAgree, ZenonT(60) DEF s, start

\* What a restart rebuilds: the replayed book, and the orders still to sequence.
LEMMA RecState ==
    ASSUME NEW b \in Nat, NEW log, IsSeq(log), NEW slot, SlotOK(b, log, slot), NEW q
    PROVE  /\ IsState(Rec(b, q, log, slot))
           /\ SameBook(Rec(b, q, log, slot), Replayed(b, log, slot))
           /\ Rec(b, q, log, slot).sequencer = Rec(b, q, log, slot).pendingData
           /\ Rec(b, q, log, slot).queue = Replayed(b, log, slot).queue
           /\ q => Rec(b, q, log, slot).pendingData =
                      StillQueued(Replayed(b, log, slot), Entries(b, log, slot.covers))
           /\ ~q => Rec(b, q, log, slot).pendingData = {}
<1>. DEFINE r == Replayed(b, log, slot)
            O == StillQueued(r, Entries(b, log, slot.covers))
            d == Rec(b, q, log, slot)
<1>1. IsState(r) /\ NothingQueued(r)
  BY ReplayedState
<1>2. d = IF q THEN Queue(r, O) ELSE r
  BY DEF Rec
<1>. HIDE DEF r, O, d
<1>3. ASSUME q
      PROVE  IsState(d) /\ SameBook(d, r) /\ d.sequencer = O /\ d.pendingData = O /\ d.queue = r.queue
  <2>1. d = [r EXCEPT !.sequencer = r.sequencer \union O, !.pendingData = r.pendingData \union O]
    BY <1>2, <1>3 DEF Queue
  <2>2. r.sequencer \union O = O /\ r.pendingData \union O = O
    BY <1>1, Zenon DEF NothingQueued
  <2>. QED
    BY <1>1, <2>1, <2>2, ZenonT(60) DEF IsState, SameBook
<1>4. CASE q
  BY <1>2, <1>3, <1>4, ZenonT(60) DEF d, r, O
<1>5. CASE ~q
  BY <1>1, <1>2, <1>5, ZenonT(60) DEF d, r, SameBook, NothingQueued
<1>. QED
  BY <1>4, <1>5

\* The queue it rebuilds is the replayed one.
LEMMA RecQueue ==
    ASSUME NEW b \in Nat, NEW log, IsSeq(log), NEW slot, SlotOK(b, log, slot), NEW q
    PROVE  Rec(b, q, log, slot).queue = Replayed(b, log, slot).queue
  BY RecState

\* A durable entry and its effect on the running node: a restart rebuilds that too.
LEMMA RebuildsGrows ==
    ASSUME NEW b \in Nat, NEW log, IsSeq(log), NEW slot, NEW a, IsState(a),
           Rebuilds(b, log, slot, a), NEW e, NEW q, NEW c, SameBook(ReplayEntry(q, a, e), c)
    PROVE  Rebuilds(b, Append(log, e), slot, c)
<1>. DEFINE s == Entries(b, log, slot.covers)
            t == Entries(b, Append(log, e), slot.covers)
            start == Start(slot)
<1>0. Len(log) \in Nat /\ IsSeq(Append(log, e)) /\ Len(Append(log, e)) = Len(log) + 1
  BY SeqFacts, SeqAppended
<1>1. SlotOK(b, log, slot) /\ SlotOK(b, Append(log, e), slot) /\ slot.covers \in b..(b + Len(log))
      /\ slot.covers \in b..(b + Len(Append(log, e)))
  BY <1>0 DEF Rebuilds, SlotOK
<1>2. t = Append(s, e)
  <2>1. slot.covers - b \in 0..Len(log)
    BY <1>0, <1>1
  <2>2. Suffix(s, log, slot.covers - b) /\ Suffix(t, Append(log, e), slot.covers - b)
    BY <1>0, <1>1, EntriesFacts, Zenon
  <2>. HIDE DEF s, t
  <2>. QED
    BY <2>1, <2>2, SuffixAppended
<1>3. /\ Replayed(b, log, slot) = RF!Fold(s, start, s)
      /\ Replayed(b, Append(log, e), slot) = RF!Fold(t, start, t)
  BY ReplayIsFold, Zenon DEF Replayed, Start
<1>4. IsState(start) /\ NothingQueued(start) /\ IsSeq(s)
  BY <1>1, ReplayedState
<1>. HIDE DEF s, t, start
<1>5. RF!Fold(t, start, Append(s, e)) = ReplayEntry(t, RF!Fold(t, start, s), e)
  <2>1. s \in Seq(ToSet(s))
    BY <1>4 DEF IsSeq
  <2>. QED
    BY <2>1, RFInduction, RF!FoldAppend
<1>6. /\ IsState(RF!Fold(t, start, s)) /\ SameBook(RF!Fold(t, start, s), RF!Fold(s, start, s))
  BY <1>4, ReplaysAgree, Zenon
<1>7. SameBook(RF!Fold(t, start, s), a)
  BY <1>3, <1>6, Zenon DEF Rebuilds, SameBook
<1>8. SameBook(ReplayEntry(t, RF!Fold(t, start, s), e), ReplayEntry(q, a, e))
  BY <1>6, <1>7, ReplayEntryKeeps, ZenonT(60)
<1>9. SameBook(Replayed(b, Append(log, e), slot), c)
  BY <1>2, <1>3, <1>5, <1>8, ZenonT(60) DEF SameBook
<1>. QED
  BY <1>1, <1>9 DEF Rebuilds

\* Truncation takes only what the slot covers.
LEMMA RebuildsTruncated ==
    ASSUME NEW b \in Nat, NEW log, IsSeq(log), NEW slot, NEW a,
           Rebuilds(b, log, slot, a), b < slot.covers
    PROVE  IsSeq(SubSeq(log, 2, Len(log))) /\ Rebuilds(b + 1, SubSeq(log, 2, Len(log)), slot, a)
<1>. DEFINE c == slot.covers
            r == SubSeq(log, 2, Len(log))
<1>0. Len(log) \in Nat /\ c \in b..(b + Len(log)) /\ c > b /\ 1 \in 0..Len(log)
  BY SeqFacts DEF Rebuilds, SlotOK
<1>1. Suffix(r, log, 1)
  BY <1>0, SeqFrom
<1>2. IsSeq(r) /\ Len(r) = Len(log) - 1 
  BY <1>1 DEF Suffix
<1>. HIDE DEF r, c
<1>3. c \in (b + 1)..(b + 1 + Len(r)) /\ b + 1 \in Nat /\ c - (b + 1) = (c - b) - 1 /\ c - b \in 1..Len(log)
  BY <1>0, <1>2
<1>5. Entries(b, log, c) = Entries(b + 1, r, c)
  <2>1. Suffix(Entries(b, log, c), log, c - b)
    BY <1>0, EntriesFacts
  <2>2. Suffix(Entries(b + 1, r, c), r, (c - b) - 1)
    BY <1>2, <1>3, EntriesFacts, ZenonT(60)
  <2>. QED
    BY <1>1, <1>3, <2>1, <2>2, SuffixOfTail, ZenonT(60)
<1>4. Replayed(b, log, slot) = Replayed(b + 1, r, slot)
  BY <1>5 DEF Replayed, c
<1>. QED
  BY <1>2, <1>3, <1>4, Zenon DEF Rebuilds, SlotOK, c, r

-----------------------------------------------------------------------------
\* What the entries of a log say was queued and confirmed (SettledKeys says what
\* was settled).
QueuedIn(log) == {log[i].order : i \in {j \in DOMAIN log : log[j].kind = "OrderQueued"}}
ConfirmedIn(log) == {log[i].trade : i \in {j \in DOMAIN log : log[j].kind = "CommitConfirmed"}}

\* A suffix of a log says no more than the log.
LEMMA KeysOfSuffix ==
    ASSUME NEW r, NEW log, IsSeq(log), NEW d \in Nat, Suffix(r, log, d)
    PROVE  /\ QueuedIn(r) \subseteq QueuedIn(log)
           /\ SettledKeys(r) \subseteq SettledKeys(log)
<1>1. /\ Len(r) \in Nat /\ DOMAIN r = 1..Len(r) /\ Len(log) \in Nat /\ DOMAIN log = 1..Len(log)
      /\ Len(r) = Len(log) - d
  BY SeqFacts DEF Suffix
<1>2. \A i \in DOMAIN r : d + i \in DOMAIN log /\ r[i] = log[d + i]
  <2>. SUFFICES ASSUME NEW i \in 1..Len(r) PROVE d + i \in 1..Len(log) /\ r[i] = log[d + i]
    BY <1>1
  <2>1. r[i] = log[d + i]
    BY DEF Suffix
  <2>2. d + i \in 1..Len(log)
    BY ONLY <1>1, i \in 1..Len(r), d \in Nat
  <2>. QED
    BY <2>1, <2>2
<1>3. QueuedIn(r) \subseteq QueuedIn(log)
  BY ONLY <1>2 DEF QueuedIn
<1>4. SettledKeys(r) \subseteq SettledKeys(log)
  BY ONLY <1>2 DEF SettledKeys
<1>. QED
  BY <1>3, <1>4

\* What one more entry adds to them.
LEMMA KeysAppended ==
    ASSUME NEW log, IsSeq(log), NEW e
    PROVE  /\ QueuedIn(Append(log, e)) =
                QueuedIn(log) \union (IF e.kind = "OrderQueued" THEN {e.order} ELSE {})
           /\ ConfirmedIn(Append(log, e)) =
                ConfirmedIn(log) \union (IF e.kind = "CommitConfirmed" THEN {e.trade} ELSE {})
           /\ SettledKeys(Append(log, e)) =
                SettledKeys(log) \union (IF e.kind = "BatchSubmitted" THEN e.trades ELSE {})
<1>. DEFINE r == Append(log, e)
            n == Len(log)
<1>1. /\ n \in Nat /\ DOMAIN log = 1..n /\ DOMAIN r = 1..(n + 1)
      /\ (\A i \in 1..n : r[i] = log[i]) /\ r[n + 1] = e
  BY SeqFacts, SeqAppended
<1>. HIDE DEF r, n
<1>2. \A i \in DOMAIN r : i \in DOMAIN log \/ i = n + 1
  BY <1>1
<1>3. \A i \in DOMAIN log : i \in DOMAIN r /\ r[i] = log[i]
  BY <1>1
<1>4. n + 1 \in DOMAIN r
  BY <1>1
<1>5. QueuedIn(r) = QueuedIn(log) \union (IF e.kind = "OrderQueued" THEN {e.order} ELSE {})
  BY ONLY <1>1, <1>2, <1>3, <1>4, ZenonT(60) DEF QueuedIn
<1>6. ConfirmedIn(r) = ConfirmedIn(log) \union (IF e.kind = "CommitConfirmed" THEN {e.trade} ELSE {})
  BY ONLY <1>1, <1>2, <1>3, <1>4, ZenonT(60) DEF ConfirmedIn
<1>7. SettledKeys(r) = SettledKeys(log) \union (IF e.kind = "BatchSubmitted" THEN e.trades ELSE {})
  BY ONLY <1>1, <1>2, <1>3, <1>4 DEF SettledKeys
<1>. QED
  BY <1>5, <1>6, <1>7 DEF r

-----------------------------------------------------------------------------
\* The orders of a state: applied in the order of orderLog, once each when q says
\* that they are sequenced; an order waits or is applied, never both.
OnceOK(q, a) ==
    /\ IsSeq(a.orderLog) /\ ToSet(a.orderLog) \subseteq a.applied
    /\ q => IsInjective(a.orderLog)
    /\ a.pendingData \intersect a.applied = {} /\ a.sequencer \subseteq a.pendingData
    /\ ~q => a.pendingData = {}
    /\ a.pendingData \subseteq Orders

\* An element that is new to an injective sequence keeps it injective.
LEMMA InjectiveAppended ==
    ASSUME NEW s, IsSeq(s), IsInjective(s), NEW e, e \notin ToSet(s)
    PROVE  IsInjective(Append(s, e))
<1>. DEFINE r == Append(s, e)
            n == Len(s)
<1>1. /\ n \in Nat /\ DOMAIN s = 1..n /\ DOMAIN r = 1..(n + 1)
      /\ (\A i \in 1..n : r[i] = s[i]) /\ r[n + 1] = e
      /\ \A i \in 1..n : s[i] # e
  BY SeqFacts, SeqAppended
<1>. HIDE DEF r, n
<1>2. ASSUME NEW i \in DOMAIN r, NEW j \in DOMAIN r, r[i] = r[j] PROVE i = j
  <2>1. i \in 1..n \/ i = n + 1
    BY <1>1
  <2>2. j \in 1..n \/ j = n + 1
    BY <1>1
  <2>. QED
    BY <1>1, <1>2, <2>1, <2>2, ZenonT(60) DEF IsInjective
<1>. QED
  BY <1>2 DEF IsInjective, r

\* Applying an order that is not waiting and, when sequenced, not yet applied.
LEMMA OnceApplied ==
    ASSUME NEW q, NEW a, IsState(a), OnceOK(q, a), NEW o, NEW at,
           o \notin a.pendingData, q => o \notin a.applied
    PROVE  OnceOK(q, ApplyOrder(a, o, at))
<1>. DEFINE d == ApplyOrder(a, o, at)
<1>1. /\ d.pendingData = a.pendingData /\ d.sequencer = a.sequencer
      /\ d.applied = a.applied \union {o} /\ d.orderLog = Append(a.orderLog, o)
  <2>1. HasApplied(d, a, o, at)
    BY ApplyOrderFields, Zenon
  <2>. QED
    BY <2>1, Zenon DEF HasApplied
<1>. HIDE DEF d
<1>2. IsSeq(d.orderLog) /\ ToSet(d.orderLog) \subseteq d.applied
  BY <1>1, SeqAppended DEF OnceOK
<1>3. q => IsInjective(d.orderLog)
  <2>. SUFFICES ASSUME q PROVE IsInjective(Append(a.orderLog, o))
    BY <1>1
  <2>1. IsSeq(a.orderLog) /\ IsInjective(a.orderLog) /\ o \notin ToSet(a.orderLog)
    BY DEF OnceOK
  <2>. QED
    BY <2>1, InjectiveAppended
<1>. QED
  BY <1>1, <1>2, <1>3, Zenon DEF OnceOK, d

\* A restart rebuilds the state of a node that had applied the orders of a.
LEMMA RecOnce ==
    ASSUME NEW b \in Nat, NEW log, IsSeq(log), NEW slot, NEW a, NEW q,
           Rebuilds(b, log, slot, a), OnceOK(q, a), QueuedIn(log) \subseteq Orders
    PROVE  OnceOK(q, Rec(b, q, log, slot)) /\ Rebuilds(b, log, slot, Rec(b, q, log, slot))
<1>. DEFINE d == Rec(b, q, log, slot)
            r == Replayed(b, log, slot)
<1>1. SlotOK(b, log, slot) /\ SameBook(r, a)
  BY Zenon DEF Rebuilds
<1>2. /\ SameBook(d, r) /\ d.sequencer = d.pendingData
      /\ q => d.pendingData = StillQueued(r, Entries(b, log, slot.covers))
      /\ ~q => d.pendingData = {}
  BY <1>1, RecState, Zenon
<1>. HIDE DEF d, r
<1>3. d.orderLog = a.orderLog /\ d.applied = a.applied /\ r.applied = a.applied
  BY <1>1, <1>2, Zenon DEF SameBook
<1>4. d.pendingData \intersect d.applied = {}
  BY <1>2, <1>3, Zenon DEF StillQueued
<1>7. d.pendingData \subseteq Orders
  <2>1. Suffix(Entries(b, log, slot.covers), log, slot.covers - b)
    BY <1>1, EntriesFacts DEF SlotOK
  <2>2. slot.covers - b \in Nat
    BY <1>1, SeqFacts DEF SlotOK
  <2>3. QueuedIn(Entries(b, log, slot.covers)) \subseteq QueuedIn(log)
    BY <2>1, <2>2, KeysOfSuffix
  <2>. QED
    BY <1>2, <2>3, Zenon DEF StillQueued, QueuedIn
<1>5. OnceOK(q, d)
  BY <1>2, <1>3, <1>4, <1>7, ZenonT(60) DEF OnceOK
<1>6. SameBook(r, d)
  BY <1>2, Zenon DEF SameBook
<1>. QED
  BY <1>1, <1>5, <1>6, Zenon DEF Rebuilds, d, r

-----------------------------------------------------------------------------
\* The loop of apply_resolved_batch.  x is what it started from: the number of
\* truncated entries, whether orders are sequenced, the log, the state, and the
\* snapshots that a restart may use.
Batching(x, i, acc, other) ==
    /\ acc = [app |-> acc.app, log |-> acc.log]
    /\ IsState(acc.app) /\ IsSeq(acc.log) /\ OnceOK(x.q, acc.app)
    /\ \A slot \in x.slots : Rebuilds(x.b, acc.log, slot, acc.app)
    /\ acc.app.sequencer = x.app.sequencer /\ acc.app.pendingData \subseteq x.app.pendingData
    /\ SettledKeys(acc.log) = SettledKeys(x.log)
    /\ ConfirmedIn(x.log) \subseteq ConfirmedIn(acc.log)
    /\ QueuedIn(acc.log) = QueuedIn(x.log)

BF == INSTANCE FoldTheorems WITH Op <- ApplyResolved, Alike <- Batching

\* The hypothesis of its lemmas.
LEMMA BFInduction == BF!Induction
  BY NatSetInduction DEF BF!Induction

\* Taking an order's data.
LEMMA DataTaken ==
    ASSUME NEW a, IsState(a), NEW q, OnceOK(q, a), NEW o, o \notin a.sequencer
    PROVE  LET d == [a EXCEPT !.pendingData = @ \ {o}]
           IN /\ IsState(d) /\ SameBook(a, d) /\ OnceOK(q, d)
              /\ d.sequencer = a.sequencer /\ d.pendingData = a.pendingData \ {o}
<1>. DEFINE v == a.pendingData \ {o}
            d == [a EXCEPT !.pendingData = v]
<1>. HIDE DEF v
<1>1. /\ IsState(d) /\ SameBook(a, d) /\ d.sequencer = a.sequencer /\ d.pendingData = v
  BY DEF IsState, SameBook
<1>. HIDE DEF d
<1>2. OnceOK(q, d)
  BY <1>1, Zenon DEF OnceOK, SameBook, v
<1>. QED
  BY <1>1, <1>2, Zenon DEF d, v

\* One order of the loop.
LEMMA ResolvedApplied ==
    ASSUME NEW x, x.b \in Nat, NEW i, NEW j, NEW acc, NEW other, NEW other2, Batching(x, i, acc, other),
           NEW lost, NEW r, r.order \notin x.app.sequencer
    PROVE  Batching(x, j, ApplyResolved(lost, acc, r), other2)
<1>. DEFINE o == r.order
            taken == [acc.app EXCEPT !.pendingData = @ \ {o}]
            e == OrderAccepted(o, r.at)
            d == ApplyOrder(taken, o, r.at)
            next == ApplyResolved(lost, acc, r)
<1>1. /\ IsState(acc.app) /\ IsSeq(acc.log) /\ OnceOK(x.q, acc.app) /\ o \notin acc.app.sequencer
      /\ \A slot \in x.slots : Rebuilds(x.b, acc.log, slot, acc.app)
  BY DEF Batching
<1>2. /\ IsState(taken) /\ SameBook(acc.app, taken) /\ OnceOK(x.q, taken)
      /\ taken.sequencer = acc.app.sequencer /\ taken.pendingData = acc.app.pendingData \ {o}
  BY <1>1, DataTaken, ZenonT(60)
<1>3. CASE o \notin acc.app.pendingData
  <2>1. next = acc
    BY <1>3, Zenon DEF ApplyResolved
  <2>. QED
    BY <2>1, Zenon DEF Batching
<1>4. CASE o \in acc.app.pendingData /\ o \in lost
  <2>1. next = [acc EXCEPT !.app = taken]
    BY <1>4 DEF ApplyResolved
  <2>. HIDE DEF taken, o, next
  <2>2. next = [app |-> next.app, log |-> next.log] /\ next.app = taken /\ next.log = acc.log
    BY <2>1, Zenon DEF Batching
  <2>3. \A slot \in x.slots : Rebuilds(x.b, acc.log, slot, taken)
    BY <1>1, <1>2, ZenonT(60) DEF Rebuilds, SameBook
  <2>. QED
    BY <1>2, <2>2, <2>3, ZenonT(60) DEF Batching, next
<1>5. CASE o \in acc.app.pendingData /\ o \notin lost
  <2>1. next = [app |-> d, log |-> Append(acc.log, e)]
    BY <1>5, Zenon DEF ApplyResolved
  <2>2. e.kind = "OrderAccepted" /\ e.order = o /\ e.at = r.at
    BY Zenon DEF OrderAccepted
  <2>3. o \notin acc.app.applied
    BY <1>1, <1>5, ZenonT(60) DEF OnceOK
  <2>. HIDE DEF taken, o, next, e
  <2>4. HasApplied(d, taken, o, r.at)
    BY <1>2, ApplyOrderFields, ZenonT(60)
  <2>5. SameBook(ApplyOrder(acc.app, o, r.at), d)
    BY <1>1, <1>2, ApplyOrderSame, ZenonT(60)
  <2>6. ReplayEntry(lost, acc.app, e) = ApplyOrder(acc.app, o, r.at)
    BY <2>2, Zenon DEF ReplayEntry
  <2>7. OnceOK(x.q, d)
    <3>1. o \notin taken.pendingData /\ o \notin taken.applied
      BY <1>2, <2>3, ZenonT(60) DEF SameBook
    <3>. QED
      BY <1>2, <3>1, OnceApplied, ZenonT(60)
  <2>. HIDE DEF d
  <2>8. ASSUME NEW slot \in x.slots PROVE Rebuilds(x.b, Append(acc.log, e), slot, d)
    <3>1. SameBook(ReplayEntry(lost, acc.app, e), d) /\ Rebuilds(x.b, acc.log, slot, acc.app)
      BY <1>1, <2>5, <2>6, ZenonT(60)
    <3>. QED
      BY ONLY <1>1, <3>1, x.b \in Nat, RebuildsGrows, ZenonT(60)
  <2>9. /\ SettledKeys(Append(acc.log, e)) = SettledKeys(acc.log)
        /\ ConfirmedIn(Append(acc.log, e)) = ConfirmedIn(acc.log)
        /\ QueuedIn(Append(acc.log, e)) = QueuedIn(acc.log)
    BY <1>1, <2>2, KeysAppended, ZenonT(60)
  <2>10. IsState(d) /\ d.sequencer = acc.app.sequencer /\ d.pendingData \subseteq acc.app.pendingData
    BY <1>2, <2>4, ZenonT(60) DEF HasApplied
  <2>11. IsSeq(Append(acc.log, e))
    BY <1>1, SeqAppended, ZenonT(60)
  <2>12. next.app = d /\ next.log = Append(acc.log, e) /\ next = [app |-> next.app, log |-> next.log]
    BY <2>1
  <2>. QED
    BY <2>7, <2>8, <2>9, <2>10, <2>11, <2>12, ZenonT(60) DEF Batching, next
<1>. QED
  BY <1>3, <1>4, <1>5, ZenonT(60)

-----------------------------------------------------------------------------
\* Every order the sequencing loop resolved waits, and only in its batch.
FlushOK(f, a) ==
    IsSeq(f) /\ \A i \in 1..Len(f) : f[i].order \in a.pendingData \ a.sequencer

\* The copy a snapshot cycle holds is as good as the slot on disk, and is the slot
\* once it was saved.
CapturedOK ==
    captured # NoSnapshot =>
        /\ captured = [state |-> captured.state, covers |-> captured.covers, saved |-> captured.saved]
        /\ Rebuilds(base, wal, captured, app)
        /\ captured.saved => snapshot.covers = captured.covers

\* The inductive invariant of the books: what is on disk rebuilds the running
\* node's book, from the saved snapshot and from the one being taken.
BookInv ==
    /\ setup \in Setups /\ base \in Nat /\ IsSeq(wal) /\ QueuedIn(wal) \subseteq Orders
    /\ IsState(app) /\ OnceOK(Sequencing, app) /\ FlushOK(flush, app)
    /\ Rebuilds(base, wal, snapshot, app) /\ CapturedOK
    /\ snapshot = NoSnapshot => app.pendingData \subseteq QueuedIn(wal)

\* b differs from a in nothing the books or the sequencing hold.
SameAs(a, b) ==
    IsState(b) /\ SameBook(a, b) /\ b.pendingData = a.pendingData /\ b.sequencer = a.sequencer

\* Then what is required of the orders still holds.
LEMMA SameAsKeeps ==
    ASSUME NEW a, NEW b, SameAs(a, b), NEW q, OnceOK(q, a), NEW f, FlushOK(f, a)
    PROVE  OnceOK(q, b) /\ FlushOK(f, b)
<1>1. OnceOK(q, b)
  BY Zenon DEF SameAs, SameBook, OnceOK
<1>2. FlushOK(f, b)
  BY Zenon DEF SameAs, FlushOK
<1>. QED
  BY <1>1, <1>2, ZenonT(60)

\* A step that leaves the disk and the book alone.
LEMMA SameLogKeeps ==
    ASSUME BookInv, UNCHANGED <<setup, wal, base, snapshot, captured>>,
           IsState(app'), SameBook(app, app'), OnceOK(Sequencing, app'), FlushOK(flush', app'),
           app'.pendingData \subseteq app.pendingData
    PROVE  BookInv'
<1>1. Rebuilds(base, wal, snapshot, app')
  BY Zenon DEF BookInv, Rebuilds, SameBook
<1>2. captured # NoSnapshot => Rebuilds(base, wal, captured, app')
  BY DEF BookInv, CapturedOK, Rebuilds, SameBook
<1>3. CapturedOK'
  BY <1>2, Zenon DEF BookInv, CapturedOK
<1>. QED
  BY <1>1, <1>3, ZenonT(60) DEF BookInv, Sequencing

\* A step that appends one entry and does to the book what its replay does.
LEMMA LoggedKeeps ==
    ASSUME BookInv, NEW e, wal' = wal \o <<e>>, UNCHANGED <<setup, base, snapshot, captured>>,
           IsState(app'), SameBook(ReplayEntry(<<>>, app, e), app'),
           OnceOK(Sequencing, app'), FlushOK(flush', app'),
           app'.pendingData \subseteq
              app.pendingData \union (IF e.kind = "OrderQueued" THEN {e.order} ELSE {}),
           e.kind = "OrderQueued" => e.order \in Orders
    PROVE  BookInv'
<1>0. IsSeq(wal) /\ base \in Nat /\ IsState(app) /\ QueuedIn(wal) \subseteq Orders
  BY DEF BookInv
<1>1. wal' = Append(wal, e) /\ IsSeq(wal')
  <2>1. IsSeq(Append(wal, e)) /\ wal \o <<e>> = Append(wal, e)
    BY ONLY <1>0, SeqAppended
  <2>. QED
    BY <2>1, Zenon
<1>2. Rebuilds(base, wal', snapshot, app')
  <2>1. Rebuilds(base, wal, snapshot, app)
    BY DEF BookInv
  <2>. QED
    BY <1>0, <1>1, <2>1, RebuildsGrows, ZenonT(60)
<1>3. captured # NoSnapshot => Rebuilds(base, wal', captured, app')
  <2>1. captured # NoSnapshot => Rebuilds(base, wal, captured, app)
    BY Zenon DEF BookInv, CapturedOK
  <2>. QED
    BY <1>0, <1>1, <2>1, RebuildsGrows, ZenonT(60)
<1>4. CapturedOK'
  BY <1>3, Zenon DEF BookInv, CapturedOK
<1>5. /\ snapshot = NoSnapshot => app'.pendingData \subseteq QueuedIn(wal')
      /\ QueuedIn(wal') \subseteq Orders
  <2>1. QueuedIn(wal') = QueuedIn(wal) \union (IF e.kind = "OrderQueued" THEN {e.order} ELSE {})
    BY <1>0, <1>1, KeysAppended, ZenonT(60)
  <2>. QED
    BY <1>0, <2>1, ZenonT(60) DEF BookInv
<1>. QED
  BY <1>1, <1>2, <1>4, <1>5, ZenonT(60) DEF BookInv, Sequencing

\* The same for a step that leaves the waiting orders alone.
LEMMA LoggedSameKeeps ==
    ASSUME BookInv, NEW e, wal' = wal \o <<e>>, UNCHANGED <<setup, base, snapshot, captured, flush>>,
           SameBook(ReplayEntry(<<>>, app, e), app'), IsState(app'),
           app'.pendingData = app.pendingData, app'.sequencer = app.sequencer,
           app'.orderLog = app.orderLog, app'.applied = app.applied,
           e.kind # "OrderQueued"
    PROVE  BookInv'
<1>1. OnceOK(Sequencing, app')
  BY Zenon DEF BookInv, OnceOK
<1>2. FlushOK(flush', app')
  BY DEF BookInv, FlushOK
<1>3. app'.pendingData \subseteq
         app.pendingData \union (IF e.kind = "OrderQueued" THEN {e.order} ELSE {})
  BY Zenon
<1>. QED
  BY <1>1, <1>2, <1>3, LoggedKeeps, ZenonT(60)

\* A step that changes neither the disk nor what the books hold.
LEMMA SameAsStep ==
    ASSUME BookInv, UNCHANGED <<setup, wal, base, snapshot, captured, flush>>, SameAs(app, app')
    PROVE  BookInv'
<1>1. OnceOK(Sequencing, app') /\ FlushOK(flush', app')
  BY SameAsKeeps, Zenon DEF BookInv
<1>2. IsState(app') /\ SameBook(app, app') /\ app'.pendingData \subseteq app.pendingData
  BY DEF SameAs
<1>. QED
  BY <1>1, <1>2, SameLogKeeps, ZenonT(60)

\* validate_order changes nothing but the nonces.
LEMMA ValidatedSame ==
    ASSUME IsState(app), NEW o PROVE SameAs(app, Validated(o))
<1>. DEFINE v == [app.nonces EXCEPT ![TraderOf[o]] = NonceOf[o]]
            d == Validated(o)
<1>1. d = [app EXCEPT !.nonces = v]
  BY DEF Validated
<1>. HIDE DEF v, d
<1>2. SameAs(app, d)
  BY <1>1, ZenonT(60) DEF SameAs, IsState, SameBook
<1>. QED
  BY <1>2 DEF d

-----------------------------------------------------------------------------
\* Intake.
LEMMA QueueOrderBook ==
    ASSUME BookInv, NEW o \in Incoming, NEW gossip, QueueOrder(o, gossip), setup' = setup
    PROVE  BookInv'
<1>. DEFINE v == Validated(o)
<1>0. o \in Orders
  <2>1. \A s \in Setups : s.incoming \subseteq Orders
    BY SetupsAssumption, ZenonT(60)
  <2>. QED
    BY <2>1, ZenonT(60) DEF BookInv, Incoming
<1>1. SameAs(app, v)
  BY ValidatedSame, ZenonT(60) DEF BookInv
<1>2. UNCHANGED <<base, snapshot, captured, flush>> /\ Sequencing
  BY DEF QueueOrder, OnlyApp
<1>. HIDE DEF v
<1>3. CASE app' = v /\ UNCHANGED wal
  BY <1>1, <1>2, <1>3, SameAsStep, ZenonT(60)
<1>4. CASE ~Known(o) /\ wal' = wal \o <<OrderQueued(o)>> /\ app' = Queue(v, {o})
  <2>. DEFINE e == OrderQueued(o)
              d == Queue(v, {o})
  <2>1. e.kind = "OrderQueued" /\ e.order = o
    BY Zenon DEF OrderQueued
  <2>2. /\ IsState(d) /\ SameBook(app, d) /\ d.pendingData = app.pendingData \union {o}
        /\ d.sequencer = app.sequencer \union {o}
    <3>. DEFINE p == v.pendingData \union {o}
                s == v.sequencer \union {o}
    <3>1. d = [v EXCEPT !.sequencer = s, !.pendingData = p]
      BY DEF Queue
    <3>2. IsState(v) /\ SameBook(app, v) /\ v.pendingData = app.pendingData /\ v.sequencer = app.sequencer
      BY <1>1 DEF SameAs
    <3>. HIDE DEF d, p, s
    <3>3. IsState(d) /\ SameBook(v, d) /\ d.pendingData = p /\ d.sequencer = s
      BY <3>1, <3>2, ZenonT(60) DEF IsState, SameBook
    <3>. QED
      BY <3>2, <3>3, ZenonT(60) DEF SameBook, p, s
  <2>3. o \notin app.pendingData /\ o \notin app.applied
    BY <1>4, Zenon DEF Known
  <2>. HIDE DEF d, e
  <2>4. OnceOK(Sequencing, d)
    BY <1>0, <1>2, <2>2, <2>3, ZenonT(60) DEF BookInv, OnceOK, SameBook
  <2>5. FlushOK(flush, d)
    BY <2>2, <2>3, ZenonT(60) DEF BookInv, FlushOK
  <2>6. SameBook(ReplayEntry(<<>>, app, e), d)
    BY <2>1, <2>2, ZenonT(60) DEF ReplayEntry
  <2>7. /\ IsState(app') /\ SameBook(ReplayEntry(<<>>, app, e), app')
        /\ OnceOK(Sequencing, app') /\ FlushOK(flush', app')
        /\ wal' = wal \o <<e>>
        /\ app'.pendingData \subseteq
              app.pendingData \union (IF e.kind = "OrderQueued" THEN {e.order} ELSE {})
    BY <1>2, <1>4, <2>1, <2>2, <2>4, <2>5, <2>6, ZenonT(60) DEF d, e
  <2>9. e.order \in Orders
    BY <1>0, <2>1, ZenonT(60)
  <2>8. UNCHANGED <<setup, base, snapshot, captured>>
    BY <1>2, Zenon
  <2>. QED
    BY ONLY BookInv, <2>7, <2>8, <2>9, LoggedKeeps, ZenonT(60)
<1>. QED
  BY <1>3, <1>4, ZenonT(60) DEF QueueOrder, Logged, v

\* submit_order without sequencing: the entry is logged, then the order applied.
LEMMA SubmitImmediateBook ==
    ASSUME BookInv, NEW o, SubmitImmediate(o), setup' = setup
    PROVE  BookInv'
<1>. DEFINE v == Validated(o)
            e == OrderAccepted(o, NoEvidence)
            d == ApplyOrder(v, o, NoEvidence)
<1>1. SameAs(app, v)
  BY ValidatedSame, Zenon DEF BookInv
<1>2. UNCHANGED <<base, snapshot, captured, flush>> /\ ~Sequencing
  BY DEF SubmitImmediate, OnlyApp
<1>3. CASE app' = v /\ UNCHANGED wal
  <2>. HIDE DEF v
  <2>. QED
    BY <1>1, <1>2, <1>3, SameAsStep, ZenonT(60)
<1>4. CASE wal' = wal \o <<e>> /\ app' = d
  <2>1. e.kind = "OrderAccepted" /\ e.order = o /\ e.at = NoEvidence
    BY Zenon DEF OrderAccepted
  <2>2. OnceOK(Sequencing, v) /\ FlushOK(flush, v) /\ IsState(v) /\ SameBook(app, v) /\ IsState(app)
    BY <1>1, SameAsKeeps, ZenonT(60) DEF BookInv, SameAs
  <2>. HIDE DEF v, e
  <2>3. HasApplied(d, v, o, NoEvidence)
    BY <2>2, ApplyOrderFields, ZenonT(60)
  <2>4. SameBook(ReplayEntry(<<>>, app, e), d)
    <3>1. ReplayEntry(<<>>, app, e) = ApplyOrder(app, o, NoEvidence)
      BY <2>1, Zenon DEF ReplayEntry
    <3>. QED
      BY <2>2, <3>1, ApplyOrderSame, ZenonT(60)
  <2>5. OnceOK(Sequencing, d)
    <3>1. v.pendingData = {}
      BY <1>2, <2>2, ZenonT(60) DEF OnceOK
    <3>. QED
      BY <1>2, <2>2, <3>1, OnceApplied, ZenonT(60)
  <2>. HIDE DEF d
  <2>6. FlushOK(flush, d)
    BY <2>2, <2>3, ZenonT(60) DEF FlushOK, HasApplied
  <2>7. /\ IsState(app') /\ SameBook(ReplayEntry(<<>>, app, e), app')
        /\ OnceOK(Sequencing, app') /\ FlushOK(flush', app')
        /\ app'.pendingData \subseteq
              app.pendingData \union (IF e.kind = "OrderQueued" THEN {e.order} ELSE {})
    BY <1>1, <1>2, <1>4, <2>3, <2>4, <2>5, <2>6, ZenonT(60) DEF HasApplied, SameAs
  <2>8. UNCHANGED <<setup, base, snapshot, captured>> /\ wal' = wal \o <<e>> /\ e.kind # "OrderQueued"
    BY <1>2, <1>4, <2>1, ZenonT(60)
  <2>. QED
    BY ONLY BookInv, <2>7, <2>8, LoggedKeeps, ZenonT(60)
<1>. QED
  BY <1>3, <1>4, ZenonT(60) DEF SubmitImmediate, Logged

\* A commit is confirmed: logged, then taken off the pending ones.
LEMMA ConfirmCommittedBook ==
    ASSUME BookInv, NEW k, ConfirmCommitted(k), setup' = setup
    PROVE  BookInv'
<1>. DEFINE t == TakePending(app, k)
            d == ConfirmLocally(t, k)
            e == CommitConfirmed(k)
<1>1. wal' = wal \o <<e>> /\ app' = d /\ UNCHANGED <<setup, base, snapshot, captured, flush>>
  BY Zenon DEF ConfirmCommitted, Logged
<1>2. e.kind = "CommitConfirmed" /\ e.trade = k
  BY DEF CommitConfirmed
<1>3. IsState(t) /\ t = [app EXCEPT !.pendingCommits = app.pendingCommits \ {k}]
  BY DEF BookInv, IsState, TakePending
<1>4. IsState(d) /\ SameBook(t, d) /\ d.pendingData = t.pendingData /\ d.sequencer = t.sequencer
  <2>. DEFINE v == [t.ledger EXCEPT ![Taker(k)] = @ + Value[k]]
              c == t.confirmed \union {k}
              q == Append(t.queue, k)
  <2>1. d = [t EXCEPT !.confirmed = c, !.ledger = v, !.queue = q]
    BY DEF ConfirmLocally
  <2>. HIDE DEF v, c, q, d, t
  <2>. QED
    BY <1>3, <2>1, ZenonT(60) DEF IsState, SameBook
<1>5. t.pendingData = app.pendingData /\ t.sequencer = app.sequencer
      /\ t.orderLog = app.orderLog /\ t.applied = app.applied
  BY <1>3, ZenonT(60) DEF BookInv, IsState
<1>6. SameBook(ReplayEntry(<<>>, app, e), d)
  <2>1. SettledKeys(<<>>) = {}
    BY DEF SettledKeys
  <2>2. ReplayEntry(<<>>, app, e) = d
    BY <1>2, <2>1, ZenonT(60) DEF ReplayEntry, StillUnsettled
  <2>. QED
    BY <2>2 DEF SameBook
<1>. HIDE DEF t, d, e
<1>7. /\ SameBook(ReplayEntry(<<>>, app, e), app') /\ IsState(app')
      /\ app'.pendingData = app.pendingData /\ app'.sequencer = app.sequencer
      /\ app'.orderLog = app.orderLog /\ app'.applied = app.applied
      /\ e.kind # "OrderQueued"
  BY <1>1, <1>2, <1>4, <1>5, <1>6, ZenonT(60) DEF SameBook
<1>. QED
  BY ONLY BookInv, <1>1, <1>7, LoggedSameKeeps, ZenonT(60)

-----------------------------------------------------------------------------
\* The sequencing loop.
LEMMA FlushBook ==
    ASSUME BookInv, NEW batch \in SetToSeqs(app.sequencer), NEW evident, Flush(batch, evident),
           setup' = setup
    PROVE  BookInv'
<1>. DEFINE d == Drained(app)
            n == Cardinality(app.sequencer)
<1>1. app' = d /\ UNCHANGED <<setup, wal, base, snapshot, captured>>
  BY DEF Flush, logVars
<1>2. /\ IsState(d) /\ SameBook(app, d) /\ d.sequencer = {} /\ d.pendingData = app.pendingData
  BY SMTT(30) DEF BookInv, IsState, SameBook, Drained
<1>. HIDE DEF d
<1>3. OnceOK(Sequencing, app')
  BY <1>1, <1>2, ZenonT(60) DEF BookInv, OnceOK, SameBook
<1>4. FlushOK(flush', app')
  <2>1. flush' = [i \in DOMAIN batch |->
                    [order |-> batch[i],
                     at |-> IF batch[i] \in evident THEN Evidence[batch[i]] ELSE NoEvidence]]
    BY Zenon DEF Flush
  <2>2. batch \in [1..n -> app.sequencer]
    BY DEF SetToSeqs, Bijection, Injection
  <2>3. n \in Nat
    <3>1. IsFiniteSet(app.sequencer)
      BY OrdersAssumption, FS_Subset, ZenonT(60) DEF BookInv, OnceOK
    <3>. QED
      BY <3>1, FS_CardinalityType, ZenonT(60)
  <2>. HIDE DEF n
  <2>4. flush' \in [1..n -> [order : app.sequencer, at : {flush'[i].at : i \in 1..n}]]
    BY <2>1, <2>2
  <2>5. IsSeq(flush') /\ Len(flush') = n
    BY ONLY <2>3, <2>4, FunctionIsSeq, ZenonT(60)
  <2>6. \A i \in 1..n : flush'[i].order \in app.sequencer
    BY <2>4, Zenon
  <2>. QED
    BY <1>1, <1>2, <2>5, <2>6, ZenonT(60) DEF FlushOK, BookInv, OnceOK
<1>. QED
  BY <1>1, <1>2, <1>3, <1>4, SameLogKeeps, ZenonT(60)

\* The batch that could not be resolved goes back to the sequencer.
LEMMA RequeueBatchBook ==
    ASSUME BookInv, RequeueBatch, setup' = setup
    PROVE  BookInv'
<1>. DEFINE O == {flush[i].order : i \in DOMAIN flush}
            v == app.sequencer \union O
            d == [app EXCEPT !.sequencer = v]
<1>1. app' = d /\ flush' = <<>> /\ UNCHANGED <<setup, wal, base, snapshot, captured>>
  BY DEF RequeueBatch, logVars
<1>2. DOMAIN flush = 1..Len(flush)
  BY SeqFacts, Zenon DEF BookInv, FlushOK
<1>3. O \subseteq app.pendingData
  BY <1>2, Zenon DEF BookInv, FlushOK
<1>. HIDE DEF O
<1>4. v \subseteq app.pendingData
  BY <1>3, Zenon DEF BookInv, OnceOK
<1>. HIDE DEF v
<1>5. /\ IsState(d) /\ SameBook(app, d) /\ d.sequencer = v /\ d.pendingData = app.pendingData
  BY DEF BookInv, IsState, SameBook
<1>. HIDE DEF d
<1>6. OnceOK(Sequencing, app')
  BY <1>1, <1>4, <1>5, ZenonT(60) DEF BookInv, OnceOK, SameBook
<1>7. FlushOK(flush', app')
  <2>1. IsSeq(<<>>) /\ Len(<<>>) = 0
    BY DEF IsSeq, ToSet
  <2>. QED
    BY <1>1, <2>1 DEF FlushOK
<1>. QED
  BY <1>1, <1>5, <1>6, <1>7, SameLogKeeps, ZenonT(60)

\* The snapshots a restart may use.
Slots == {snapshot} \union (IF captured = NoSnapshot THEN {} ELSE {captured})

Context == [b |-> base, q |-> Sequencing, log |-> wal, app |-> app, slots |-> Slots]

\* The loop of apply_resolved_batch over s, whose orders are not queued again.
LEMMA BatchApplied ==
    ASSUME BookInv, NEW lost, NEW s, IsSeq(s), \A i \in 1..Len(s) : s[i].order \notin app.sequencer
    PROVE  Batching(Context, Len(s), Applied(lost, s), Applied(lost, s))
<1>. DEFINE x == Context
            a == [app |-> app, log |-> wal]
<1>0. x.b = base /\ x.b \in Nat /\ x.q = Sequencing /\ x.log = wal /\ x.app = app /\ x.slots = Slots
  BY Zenon DEF BookInv, Context
<1>. HIDE DEF x
<1>1. Batching(x, 0, a, a)
  <2>1. \A slot \in Slots : Rebuilds(base, wal, slot, app)
    BY Zenon DEF BookInv, CapturedOK, Slots
  <2>. QED
    BY <1>0, <2>1, ZenonT(60) DEF Batching, BookInv
<1>2. BF!Keeps(x, lost, lost, s, Len(s))
  <2>. SUFFICES ASSUME NEW i \in 1..Len(s), NEW c, NEW d, Batching(x, i - 1, c, d)
                PROVE  Batching(x, i, ApplyResolved(lost, c, s[i]), ApplyResolved(lost, d, s[i]))
    BY ZenonT(60) DEF BF!Keeps
  <2>1. s[i].order \notin x.app.sequencer
    BY <1>0, Zenon
  <2>. QED
    BY ONLY <1>0, <2>1, Batching(x, i - 1, c, d), ResolvedApplied, ZenonT(60)
<1>3. Applied(lost, s) = BF!Fold(lost, a, s)
  BY DEF Applied, BF!Fold, FoldLeft, MapThenFoldSet, BF!MapThenFoldSet, Max, BF!Top
<1>4. s \in Seq(ToSet(s))
  BY DEF IsSeq
<1>. HIDE DEF a
<1>5. Batching(x, Len(s), BF!Fold(lost, a, s), BF!Fold(lost, a, s))
  BY ONLY <1>1, <1>2, <1>4, BFInduction, BF!FoldsAlike, ZenonT(60)
<1>. QED
  BY <1>3, <1>5, ZenonT(60) DEF x

\* What the loop leaves: a log and a state that it rebuilds.
LEMMA BatchFacts ==
    ASSUME BookInv, NEW lost, NEW s, IsSeq(s), \A i \in 1..Len(s) : s[i].order \notin app.sequencer
    PROVE  LET r == Applied(lost, s)
           IN /\ IsState(r.app) /\ IsSeq(r.log) /\ OnceOK(Sequencing, r.app)
              /\ Rebuilds(base, r.log, snapshot, r.app)
              /\ captured # NoSnapshot => Rebuilds(base, r.log, captured, r.app)
              /\ r.app.pendingData \subseteq app.pendingData
              /\ SettledKeys(r.log) = SettledKeys(wal)
              /\ ConfirmedIn(wal) \subseteq ConfirmedIn(r.log)
              /\ QueuedIn(r.log) = QueuedIn(wal)
<1>. DEFINE r == Applied(lost, s)
<1>1. Batching(Context, Len(s), r, r)
  BY BatchApplied, Zenon
<1>2. snapshot \in Slots /\ (captured # NoSnapshot => captured \in Slots)
  BY Zenon DEF Slots
<1>. HIDE DEF r
<1>. QED
  BY <1>1, <1>2, ZenonT(60) DEF Batching, Context, r

\* The resolved batch is applied, entry by entry, some of them possibly not logged.
LEMMA ApplyResolvedBatchBook ==
    ASSUME BookInv, NEW lost, ApplyResolvedBatch(lost), setup' = setup
    PROVE  BookInv'
<1>. DEFINE r == Applied(lost, flush)
<1>1. wal' = r.log /\ app' = r.app /\ flush' = <<>> /\ UNCHANGED <<setup, base, snapshot, captured>>
  BY Zenon DEF ApplyResolvedBatch
<1>2. IsSeq(flush) /\ \A i \in 1..Len(flush) : flush[i].order \notin app.sequencer
  BY SMTT(30) DEF BookInv, FlushOK
<1>3. /\ IsState(r.app) /\ IsSeq(r.log) /\ OnceOK(Sequencing, r.app)
      /\ Rebuilds(base, r.log, snapshot, r.app)
      /\ captured # NoSnapshot => Rebuilds(base, r.log, captured, r.app)
      /\ r.app.pendingData \subseteq app.pendingData
      /\ QueuedIn(r.log) = QueuedIn(wal)
  BY <1>2, BatchFacts, ZenonT(60)
<1>. HIDE DEF r
<1>4. CapturedOK'
  BY <1>1, <1>3, ZenonT(60) DEF BookInv, CapturedOK
<1>5. FlushOK(<<>>, app')
  BY SMTT(30) DEF FlushOK, IsSeq, ToSet
<1>6. (snapshot = NoSnapshot => app.pendingData \subseteq QueuedIn(wal))'
  BY <1>1, <1>3, ZenonT(60) DEF BookInv
<1>. QED
  BY <1>1, <1>3, <1>4, <1>5, <1>6, ZenonT(60) DEF BookInv, Sequencing

-----------------------------------------------------------------------------
\* The settlement loop and the chain: neither touches the book.

\* b is a with other confirmed trades, queue or ledger.
SettlesOnly(a, b) ==
    \/ b = a
    \/ \E C : b = [a EXCEPT !.confirmed = C]
    \/ \E C, Q : b = [a EXCEPT !.confirmed = C, !.queue = Q]
    \/ \E L, Q : b = [a EXCEPT !.ledger = L, !.queue = Q]

\* What the settlement loop does to the state leaves the book as it is.
LEMMA SettlementSame ==
    ASSUME NEW a, IsState(a), NEW b, SettlesOnly(a, b)
    PROVE  SameAs(a, b)
<1>1. CASE b = a
  BY <1>1 DEF SameAs, SameBook
<1>2. ASSUME NEW C, b = [a EXCEPT !.confirmed = C] PROVE SameAs(a, b)
  BY <1>2 DEF SameAs, IsState, SameBook
<1>3. ASSUME NEW C, NEW Q, b = [a EXCEPT !.confirmed = C, !.queue = Q] PROVE SameAs(a, b)
  BY <1>3, Zenon DEF SameAs, IsState, SameBook
<1>4. ASSUME NEW L, NEW Q, b = [a EXCEPT !.ledger = L, !.queue = Q] PROVE SameAs(a, b)
  BY <1>4, ZenonT(60) DEF SameAs, IsState, SameBook
<1>. QED
  BY <1>1, <1>2, <1>3, <1>4, ZenonT(60) DEF SettlesOnly

\* A checkpoint says nothing of the book.
LEMMA CheckpointedKeeps ==
    ASSUME BookInv, NEW K, wal' = wal \o <<BatchSubmitted(K)>>,
           UNCHANGED <<setup, base, snapshot, captured, flush>>, SameAs(app, app')
    PROVE  BookInv'
<1>. DEFINE e == BatchSubmitted(K)
<1>1. e.kind = "BatchSubmitted"
  BY DEF BatchSubmitted
<1>. HIDE DEF e
<1>2. ReplayEntry(<<>>, app, e) = app
  BY <1>1, ZenonT(60) DEF ReplayEntry
<1>3. /\ SameBook(ReplayEntry(<<>>, app, e), app') /\ IsState(app')
      /\ app'.pendingData = app.pendingData /\ app'.sequencer = app.sequencer
      /\ app'.orderLog = app.orderLog /\ app'.applied = app.applied
      /\ e.kind # "OrderQueued"
  BY <1>1, <1>2, ZenonT(60) DEF SameAs, SameBook
<1>4. wal' = wal \o <<e>> /\ UNCHANGED <<setup, base, snapshot, captured, flush>>
  BY DEF e
<1>. QED
  BY ONLY BookInv, <1>3, <1>4, LoggedSameKeeps, ZenonT(60)

\* A trade found on the chain at start is checkpointed and taken off the queue.
LEMMA ReconcileBook ==
    ASSUME BookInv, NEW known, NEW c, Reconcile(known, c), setup' = setup
    PROVE  BookInv'
<1>. DEFINE k == Head(settling.candidates)
            C == app.confirmed \ {k}
            Q == SelectSeq(app.queue, LAMBDA q : q # k)
<1>1. UNCHANGED <<setup, base, snapshot, captured, flush>>
  BY DEF Reconcile, OnlyLoop
<1>2. app' = app \/ app' = [app EXCEPT !.confirmed = C, !.queue = Q]
  BY DEF Reconcile
<1>3. wal' = wal \/ wal' = wal \o <<BatchSubmitted({k})>>
  BY Zenon DEF Reconcile, Logged
<1>. HIDE DEF C, Q, k
<1>4. SameAs(app, app')
  <2>1. SettlesOnly(app, app')
    BY <1>2, ZenonT(60) DEF SettlesOnly
  <2>. QED
    BY <2>1, SettlementSame, ZenonT(60) DEF BookInv
<1>. QED
  BY <1>1, <1>3, <1>4, SameAsStep, CheckpointedKeeps, ZenonT(60)

\* process_batches takes trades off the queue.
LEMMA ProcessBatchesBook ==
    ASSUME BookInv, NEW due, ProcessBatches(due), setup' = setup
    PROVE  BookInv'
<1>. DEFINE L == ProveBatches(app, due).ledger
            taken == ToSet(FlattenSeq(Flushed(app.queue, due)))
            Q == SelectSeq(app.queue, LAMBDA q : q \notin taken)
<1>1. UNCHANGED <<setup, wal, base, snapshot, captured, flush>>
  BY DEF ProcessBatches, OnlyLoop
<1>2. app' = [app EXCEPT !.ledger = L, !.queue = Q]
  BY Zenon DEF ProcessBatches
<1>. HIDE DEF L, Q
<1>3. SameAs(app, app')
  <2>1. SettlesOnly(app, app')
    BY <1>2, ZenonT(60) DEF SettlesOnly
  <2>. QED
    BY <2>1, SettlementSame, ZenonT(60) DEF BookInv
<1>. QED
  BY <1>1, <1>3, SameAsStep, ZenonT(60)

\* The steps that build and submit a chunk, and their failures.
LEMMA SubmissionBook ==
    ASSUME BookInv, setup' = setup,
           \/ SkipChunk \/ BuildSettlementTrades \/ SubmitSettlementBatch \/ SubmitToFrg
           \/ SubmissionFails \/ \E i \in 1..MaxChunk : BuildFails(i)
    PROVE  BookInv'
<1>1. UNCHANGED <<setup, wal, base, snapshot, captured, flush>>
  BY SMTT(30) DEF SkipChunk, BuildSettlementTrades, SubmitSettlementBatch, SubmitToFrg, SubmissionFails,
         BuildFails, OnlyLoop
<1>2. \/ app' = app
      \/ \E C : app' = [app EXCEPT !.confirmed = C]
      \/ \E C, Q : app' = [app EXCEPT !.confirmed = C, !.queue = Q]
  <2>1. CASE SkipChunk \/ SubmitSettlementBatch \/ SubmitToFrg
    BY <2>1, ZenonT(60) DEF SkipChunk, SubmitSettlementBatch, SubmitToFrg
  <2>2. CASE BuildSettlementTrades
    <3>. DEFINE C == app.confirmed \ ToSet(settling.chunks[1])
    <3>1. app' = [app EXCEPT !.confirmed = C]
      BY <2>2, ZenonT(60) DEF BuildSettlementTrades
    <3>. HIDE DEF C
    <3>. QED
      BY <3>1, ZenonT(60)
  <2>3. CASE SubmissionFails
    <3>. DEFINE C == app.confirmed \union ToSet(settling.chunks[1])
                Q == app.queue \o settling.chunks[1]
    <3>1. app' = [app EXCEPT !.confirmed = C, !.queue = Q]
      BY <2>3, ZenonT(60) DEF SubmissionFails, RestoreFailedChunk
    <3>. HIDE DEF C, Q
    <3>. QED
      BY <3>1, ZenonT(60)
  <2>4. ASSUME NEW i \in 1..MaxChunk, BuildFails(i)
        PROVE  \E C : app' = [app EXCEPT !.confirmed = C]
    <3>. DEFINE chunk == settling.chunks[1]
                C == app.confirmed \ {chunk[j] : j \in 1..i}
    <3>1. app' = [app EXCEPT !.confirmed = C]
      BY <2>4, ZenonT(60) DEF BuildFails
    <3>. HIDE DEF C
    <3>. QED
      BY <3>1, ZenonT(60)
  <2>. QED
    BY <2>1, <2>2, <2>3, <2>4, ZenonT(60)
<1>3. SameAs(app, app')
  <2>1. SettlesOnly(app, app')
    BY <1>2, ZenonT(60) DEF SettlesOnly
  <2>. QED
    BY <2>1, SettlementSame, ZenonT(60) DEF BookInv
<1>. QED
  BY <1>1, <1>3, SameAsStep, ZenonT(60)

\* The checkpoint of a submitted chunk is an entry that replaying passes over.
LEMMA CheckpointBook ==
    ASSUME BookInv, NEW c, Checkpoint(c), setup' = setup
    PROVE  BookInv'
<1>. DEFINE K == ToSet(settling.chunks[1])
<1>1. UNCHANGED <<setup, base, snapshot, captured, flush>> /\ app' = app
  BY Zenon DEF Checkpoint, OnlyLoop
<1>2. wal' = wal \/ wal' = wal \o <<BatchSubmitted(K)>>
  BY Zenon DEF Checkpoint, Logged
<1>. HIDE DEF K
<1>3. SameAs(app, app')
  <2>1. SettlesOnly(app, app')
    BY <1>1, ZenonT(60) DEF SettlesOnly
  <2>. QED
    BY <2>1, SettlementSame DEF BookInv
<1>. QED
  BY <1>1, <1>2, <1>3, SameAsStep, CheckpointedKeeps, ZenonT(60)

\* Steps of the chain do not reach the node.
LEMMA ChainBook ==
    ASSUME BookInv, setup' = setup, Mine \/ (\E k \in Crossing : Expire(k))
    PROVE  BookInv'
<1>1. UNCHANGED <<setup, wal, base, snapshot, captured, flush, app>>
  BY ZenonT(60) DEF Mine, Expire, logVars
<1>2. SameAs(app, app')
  <2>1. SettlesOnly(app, app')
    BY <1>1, ZenonT(60) DEF SettlesOnly
  <2>. QED
    BY <2>1, SettlementSame, ZenonT(60) DEF BookInv
<1>. QED
  BY <1>1, <1>2, SameAsStep, ZenonT(60)

-----------------------------------------------------------------------------
\* The snapshot loop.

\* A copy of the state as it is, covering the whole log, rebuilds the book.
LEMMA CaptureRebuilds ==
    ASSUME NEW b \in Nat, NEW log, IsSeq(log), NEW a, IsState(a), NEW slot, slot # NoSnapshot,
           slot.state = BuildSnapshot(a), slot.covers = b + Len(log)
    PROVE  Rebuilds(b, log, slot, a)
<1>. DEFINE d == BuildSnapshot(a)
            s == Entries(b, log, slot.covers)
<1>1. IsState(d) /\ NothingQueued(d) /\ SameBook(d, a)
  <2>1. IsState(d)
    BY FreshState, ZenonT(60) DEF BuildSnapshot, IsState, Fresh
  <2>2. NothingQueued(d)
    BY FreshState, Zenon DEF BuildSnapshot, Fresh, NothingQueued
  <2>3. SameBook(d, a)
    BY FreshState, ZenonT(60) DEF BuildSnapshot, Fresh, SameBook
  <2>. QED
    BY <2>1, <2>2, <2>3, ZenonT(60)
<1>. HIDE DEF d
<1>2. Len(log) \in Nat
  BY SeqFacts, Zenon
<1>3. SlotOK(b, log, slot)
  BY <1>1, <1>2 DEF SlotOK, d
<1>4. s = <<>>
  <2>1. Suffix(s, log, slot.covers - b)
    BY <1>2, EntriesFacts
  <2>2. IsSeq(s) /\ Len(s) = 0
    BY <1>2, <2>1 DEF Suffix
  <2>. HIDE DEF s
  <2>. QED
    BY <2>2 DEF IsSeq
<1>5. Replayed(b, log, slot) = RF!Fold(s, d, s)
  BY ReplayIsFold, ZenonT(60) DEF Replayed, d
<1>6. RF!Fold(s, d, <<>>) = d
  BY RFInduction, RF!FoldEmpty, ZenonT(60)
<1>. HIDE DEF s
<1>. QED
  BY <1>1, <1>3, <1>4, <1>5, <1>6, ZenonT(60) DEF Rebuilds

\* Marking the copy as saved changes nothing else of it.
LEMMA SavedCopy ==
    ASSUME NEW c, c = [state |-> c.state, covers |-> c.covers, saved |-> c.saved]
    PROVE  LET d == [c EXCEPT !.saved = TRUE]
           IN /\ d = [state |-> d.state, covers |-> d.covers, saved |-> d.saved]
              /\ d.state = c.state /\ d.covers = c.covers
<1>. DEFINE d == [c EXCEPT !.saved = TRUE]
<1>1. DOMAIN c = {"state", "covers", "saved"}
  OBVIOUS
<1>2. DOMAIN d = {"state", "covers", "saved"} /\ d = [f \in DOMAIN c |-> d[f]]
  BY <1>1, ZenonT(60)
<1>3. d.state = c.state /\ d.covers = c.covers
  BY <1>1, ZenonT(60)
<1>. HIDE DEF d
<1>4. d = [state |-> d.state, covers |-> d.covers, saved |-> d.saved]
  BY <1>1, <1>2, ZenonT(60)
<1>. QED
  BY <1>3, <1>4, ZenonT(60) DEF d

\* A snapshot cycle: captured, saved or not, and the log cut behind it entry by entry.
LEMMA SnapshotLoopBook ==
    ASSUME BookInv, SnapshotLoop, setup' = setup
    PROVE  BookInv'
<1>0. app' = app /\ flush' = flush /\ IsSeq(wal) /\ base \in Nat /\ IsState(app)
      /\ Rebuilds(base, wal, snapshot, app)
  BY Zenon DEF SnapshotLoop, BookInv
<1>1. CASE Capture(BuildSnapshot(app))
  <2>. DEFINE slot == [state |-> BuildSnapshot(app), covers |-> base + Len(wal), saved |-> FALSE]
  <2>1. captured' = slot /\ UNCHANGED <<wal, base, snapshot>>
    BY <1>1, ZenonT(60) DEF Capture, LatestSeq
  <2>2. slot # NoSnapshot
    BY Zenon DEF NoSnapshot
  <2>3. slot.state = BuildSnapshot(app) /\ slot.covers = base + Len(wal) /\ ~slot.saved
        /\ slot = [state |-> slot.state, covers |-> slot.covers, saved |-> slot.saved]
    BY Zenon
  <2>. HIDE DEF slot
  <2>4. Rebuilds(base, wal, slot, app)
    BY <1>0, <2>2, <2>3, CaptureRebuilds, ZenonT(60)
  <2>5. CapturedOK'
    BY <1>0, <2>1, <2>2, <2>3, <2>4, ZenonT(60) DEF CapturedOK
  <2>. QED
    BY <1>0, <2>1, <2>5, ZenonT(60) DEF BookInv, Sequencing
<1>2. CASE SaveSnapshot
  <2>. DEFINE slot == [state |-> captured.state, covers |-> captured.covers]
              next == [captured EXCEPT !.saved = TRUE]
  <2>1. captured # NoSnapshot /\ snapshot' = slot /\ captured' = next /\ UNCHANGED <<wal, base>>
    BY <1>2 DEF SaveSnapshot
  <2>2. /\ captured = [state |-> captured.state, covers |-> captured.covers, saved |-> captured.saved]
        /\ Rebuilds(base, wal, captured, app)
    BY <2>1, ZenonT(60) DEF BookInv, CapturedOK
  <2>3. slot # NoSnapshot /\ slot.state = captured.state /\ slot.covers = captured.covers
    BY DEF NoSnapshot
  <2>4. /\ next = [state |-> next.state, covers |-> next.covers, saved |-> next.saved]
        /\ next.state = captured.state /\ next.covers = captured.covers
    BY <2>2, SavedCopy, ZenonT(60)
  <2>. HIDE DEF slot, next
  <2>5. next # NoSnapshot
    <3>1. "state" \in DOMAIN next /\ "state" \notin DOMAIN NoSnapshot
      BY <2>4, ZenonT(60) DEF NoSnapshot
    <3>. QED
      BY <3>1, ZenonT(60)
  <2>6. Rebuilds(base, wal, slot, app) /\ Rebuilds(base, wal, next, app)
    BY <2>1, <2>2, <2>3, <2>4, <2>5, ZenonT(60) DEF Rebuilds, SlotOK, Replayed
  <2>7. CapturedOK'
    BY <1>0, <2>1, <2>3, <2>4, <2>6, ZenonT(60) DEF CapturedOK
  <2>. QED
    BY <1>0, <2>1, <2>3, <2>6, <2>7, ZenonT(60) DEF BookInv, Sequencing
<1>3. CASE SaveFails
  <2>1. captured' = NoSnapshot /\ UNCHANGED <<wal, base, snapshot>>
    BY <1>3, ZenonT(60) DEF SaveFails
  <2>2. CapturedOK'
    BY <2>1 DEF CapturedOK
  <2>. QED
    BY <1>0, <2>1, <2>2, ZenonT(60) DEF BookInv, Sequencing
<1>4. CASE TruncateUpTo
  <2>1. captured # NoSnapshot /\ captured.saved /\ UNCHANGED snapshot
    BY <1>4, SMTT(30) DEF TruncateUpTo
  <2>2. CASE base < captured.covers
    <3>. DEFINE rest == SubSeq(wal, 2, Len(wal))
    <3>1. wal' = rest /\ base' = base + 1 /\ UNCHANGED captured
      BY <1>4, <2>2, ZenonT(60) DEF TruncateUpTo
    <3>2. Rebuilds(base, wal, captured, app) /\ snapshot.covers = captured.covers
      BY <2>1, ZenonT(60) DEF BookInv, CapturedOK
    <3>3. /\ IsSeq(rest) /\ Rebuilds(base + 1, rest, captured, app)
          /\ Rebuilds(base + 1, rest, snapshot, app)
      BY <1>0, <2>2, <3>2, RebuildsTruncated, ZenonT(60)
    <3>4. QueuedIn(rest) \subseteq QueuedIn(wal)
      <4>1. Len(wal) \in Nat /\ 1 \in 0..Len(wal)
        BY <1>0, <2>2, <3>2, SeqFacts, SMTT(30) DEF Rebuilds, SlotOK
      <4>2. Suffix(rest, wal, 1)
        BY <1>0, <4>1, SeqFrom, SMTT(30)
      <4>. HIDE DEF rest
      <4>. QED
        BY <1>0, <4>2, KeysOfSuffix, ZenonT(60)
    <3>. HIDE DEF rest
    <3>5. snapshot # NoSnapshot
      BY <1>0, <2>2, <3>2, SMTT(30) DEF NoSnapshot
    <3>6. CapturedOK'
      BY <1>0, <2>1, <3>1, <3>2, <3>3, ZenonT(60) DEF CapturedOK, BookInv
    <3>. QED
      <4>1. base + 1 \in Nat
        BY ONLY <1>0
      <4>. QED
        BY <1>0, <2>1, <3>1, <3>3, <3>4, <3>5, <3>6, <4>1, ZenonT(60) DEF BookInv, Sequencing
  <2>3. CASE ~(base < captured.covers)
    <3>1. captured' = NoSnapshot /\ UNCHANGED <<wal, base>>
      BY <1>4, <2>3, ZenonT(60) DEF TruncateUpTo
    <3>2. CapturedOK'
      BY <3>1, ZenonT(60) DEF CapturedOK
    <3>. QED
      BY <1>0, <2>1, <3>1, <3>2, ZenonT(60) DEF BookInv, Sequencing
  <2>. QED
    BY <2>2, <2>3, ZenonT(60)
<1>. QED
  BY <1>1, <1>2, <1>3, <1>4, ZenonT(60) DEF SnapshotLoop

-----------------------------------------------------------------------------
\* What the log may hold at a crash, and the node that would have gone on from it.
LEMMA CrashLogs ==
    ASSUME BookInv, NEW log \in LogsAtCrash
    PROVE  /\ IsSeq(log) /\ QueuedIn(log) \subseteq Orders
           /\ SettledKeys(log) = SettledKeys(wal) /\ ConfirmedIn(wal) \subseteq ConfirmedIn(log)
           /\ \E a : Rebuilds(base, log, snapshot, a) /\ OnceOK(Sequencing, a)
<1>0. IsSeq(wal) /\ base \in Nat /\ IsState(app) /\ OnceOK(Sequencing, app) /\ IsSeq(flush)
      /\ Rebuilds(base, wal, snapshot, app) /\ QueuedIn(wal) \subseteq Orders
  BY ZenonT(60) DEF BookInv, FlushOK
<1>1. ASSUME NEW i \in 0..Len(flush), log = Applied({}, SubSeq(flush, 1, i)).log
      PROVE  /\ IsSeq(log) /\ QueuedIn(log) \subseteq Orders
             /\ SettledKeys(log) = SettledKeys(wal) /\ ConfirmedIn(wal) \subseteq ConfirmedIn(log)
             /\ \E a : Rebuilds(base, log, snapshot, a) /\ OnceOK(Sequencing, a)
  <2>. DEFINE s == SubSeq(flush, 1, i)
              r == Applied({}, s)
  <2>1. IsSeq(s) /\ Len(s) = i /\ \A j \in 1..i : s[j] = flush[j]
    BY <1>0, SeqUpTo, ZenonT(60)
  <2>2. \A j \in 1..Len(s) : s[j].order \notin app.sequencer
    <3>1. Len(flush) \in Nat
      BY <1>0, SeqFacts, ZenonT(60)
    <3>. QED
      BY <2>1, <3>1 DEF BookInv, FlushOK
  <2>. HIDE DEF s
  <2>3. /\ IsSeq(r.log) /\ OnceOK(Sequencing, r.app) /\ Rebuilds(base, r.log, snapshot, r.app)
        /\ SettledKeys(r.log) = SettledKeys(wal) /\ ConfirmedIn(wal) \subseteq ConfirmedIn(r.log)
        /\ QueuedIn(r.log) = QueuedIn(wal)
    BY <2>1, <2>2, BatchFacts, ZenonT(60)
  <2>4. log = r.log
    BY <1>1, ZenonT(60) DEF s
  <2>. HIDE DEF r
  <2>. QED
    BY <1>0, <2>3, <2>4, ZenonT(60)
<1>2. ASSUME NEW e, log = Append(wal, e), e.kind # "BatchSubmitted",
             e.kind = "OrderQueued" => e.order \in Orders,
             OnceOK(Sequencing, ReplayEntry(<<>>, app, e))
      PROVE  /\ IsSeq(log) /\ QueuedIn(log) \subseteq Orders
             /\ SettledKeys(log) = SettledKeys(wal) /\ ConfirmedIn(wal) \subseteq ConfirmedIn(log)
             /\ \E a : Rebuilds(base, log, snapshot, a) /\ OnceOK(Sequencing, a)
  <2>1. IsSeq(Append(wal, e))
    BY <1>0, SeqAppended, ZenonT(60)
  <2>2. QueuedIn(Append(wal, e)) \subseteq Orders /\ SettledKeys(Append(wal, e)) = SettledKeys(wal)
        /\ ConfirmedIn(wal) \subseteq ConfirmedIn(Append(wal, e))
    <3>1. /\ QueuedIn(Append(wal, e)) =
                QueuedIn(wal) \union (IF e.kind = "OrderQueued" THEN {e.order} ELSE {})
          /\ ConfirmedIn(Append(wal, e)) =
                ConfirmedIn(wal) \union (IF e.kind = "CommitConfirmed" THEN {e.trade} ELSE {})
          /\ SettledKeys(Append(wal, e)) =
                SettledKeys(wal) \union (IF e.kind = "BatchSubmitted" THEN e.trades ELSE {})
      BY ONLY <1>0, KeysAppended, ZenonT(60)
    <3>2. e.kind # "BatchSubmitted" /\ (e.kind = "OrderQueued" => e.order \in Orders)
      BY <1>2, Zenon
    <3>3. QueuedIn(wal) \subseteq Orders
      BY <1>0, Zenon
    <3>. QED
      BY ONLY <3>1, <3>2, <3>3, ZenonT(60)
  <2>. DEFINE d == ReplayEntry(<<>>, app, e)
  <2>3. SameBook(ReplayEntry(<<>>, app, e), d)
    BY DEF SameBook
  <2>. HIDE DEF d
  <2>4. Rebuilds(base, Append(wal, e), snapshot, d)
    BY ONLY <1>0, <2>3, RebuildsGrows, ZenonT(60)
  <2>. QED
    BY <1>2, <2>1, <2>2, <2>4, ZenonT(60) DEF d
<1>3. ASSUME NEW o \in Incoming, Sequencing, log = Append(wal, OrderQueued(o))
      PROVE  /\ IsSeq(log) /\ QueuedIn(log) \subseteq Orders
             /\ SettledKeys(log) = SettledKeys(wal) /\ ConfirmedIn(wal) \subseteq ConfirmedIn(log)
             /\ \E a : Rebuilds(base, log, snapshot, a) /\ OnceOK(Sequencing, a)
  <2>. DEFINE e == OrderQueued(o)
  <2>1. e.kind = "OrderQueued" /\ e.order = o
    BY SMTT(30) DEF OrderQueued
  <2>2. o \in Orders
    <3>1. \A s \in Setups : s.incoming \subseteq Orders
      BY SetupsAssumption
    <3>. QED
      BY <3>1, ZenonT(60) DEF BookInv, Incoming
  <2>3. log = Append(wal, e)
    BY <1>3
  <2>. HIDE DEF e
  <2>4. ReplayEntry(<<>>, app, e) = app
    BY <2>1, ZenonT(60) DEF ReplayEntry
  <2>. QED
    BY <1>0, <1>2, <2>1, <2>2, <2>3, <2>4, ZenonT(60)
<1>4. ASSUME NEW o \in Incoming, ~Sequencing, log = Append(wal, OrderAccepted(o, NoEvidence))
      PROVE  /\ IsSeq(log) /\ QueuedIn(log) \subseteq Orders
             /\ SettledKeys(log) = SettledKeys(wal) /\ ConfirmedIn(wal) \subseteq ConfirmedIn(log)
             /\ \E a : Rebuilds(base, log, snapshot, a) /\ OnceOK(Sequencing, a)
  <2>. DEFINE e == OrderAccepted(o, NoEvidence)
  <2>1. e.kind = "OrderAccepted" /\ e.order = o /\ e.at = NoEvidence
    BY DEF OrderAccepted
  <2>2. log = Append(wal, e)
    BY <1>4
  <2>. HIDE DEF e
  <2>3. ReplayEntry(<<>>, app, e) = ApplyOrder(app, o, NoEvidence)
    BY <2>1, Zenon DEF ReplayEntry
  <2>4. app.pendingData = {}
    BY <1>0, <1>4, ZenonT(60) DEF OnceOK
  <2>5. OnceOK(Sequencing, ApplyOrder(app, o, NoEvidence))
    <3>1. IsState(app) /\ OnceOK(Sequencing, app) /\ o \notin app.pendingData /\ ~Sequencing
      BY <1>0, <1>4, <2>4, Zenon
    <3>. QED
      BY ONLY <3>1, OnceApplied, ZenonT(60)
  <2>. QED
    BY <1>2, <2>1, <2>2, <2>3, <2>5, ZenonT(60)
<1>5. ASSUME NEW k, log = Append(wal, CommitConfirmed(k))
      PROVE  /\ IsSeq(log) /\ QueuedIn(log) \subseteq Orders
             /\ SettledKeys(log) = SettledKeys(wal) /\ ConfirmedIn(wal) \subseteq ConfirmedIn(log)
             /\ \E a : Rebuilds(base, log, snapshot, a) /\ OnceOK(Sequencing, a)
  <2>. DEFINE e == CommitConfirmed(k)
              d == ReplayEntry(<<>>, app, e)
  <2>1. e.kind = "CommitConfirmed" /\ e.trade = k
    BY DEF CommitConfirmed
  <2>2. log = Append(wal, e)
    BY <1>5
  <2>. HIDE DEF e
  <2>3. d.orderLog = app.orderLog /\ d.applied = app.applied
    BY <1>0, <2>1, ZenonT(60) DEF ReplayEntry, TakePending, ConfirmLocally, IsState
  <2>4. d.pendingData = app.pendingData /\ d.sequencer = app.sequencer
    BY <1>0, ReplayEntryKeeps, ZenonT(60)
  <2>. HIDE DEF d
  <2>5. OnceOK(Sequencing, d)
    BY <1>0, <2>3, <2>4, Zenon DEF OnceOK
  <2>. QED
    BY <1>2, <2>1, <2>2, <2>5, ZenonT(60) DEF d
<1>. QED
  BY <1>1, <1>3, <1>4, <1>5, ZenonT(60) DEF LogsAtCrash

\* No flush is under way when the node starts.
LEMMA NoFlush == ASSUME NEW a PROVE FlushOK(<<>>, a)
  BY DEF FlushOK, IsSeq, ToSet

\* A restart rebuilds the book from any log a crash can leave.
LEMMA RestartBook ==
    ASSUME BookInv, NEW log \in LogsAtCrash, Restart(log), setup' = setup
    PROVE  BookInv'
<1>. DEFINE d == Rec(base, Sequencing, log, snapshot)
<1>1. /\ wal' = log /\ captured' = NoSnapshot /\ flush' = <<>> /\ UNCHANGED <<base, snapshot>>
      /\ app' = d
  BY RecoverIsRec, Zenon DEF Restart
<1>2. IsSeq(log) /\ QueuedIn(log) \subseteq Orders
  BY CrashLogs, ZenonT(60)
<1>3. PICK a : Rebuilds(base, log, snapshot, a) /\ OnceOK(Sequencing, a)
  BY CrashLogs, ZenonT(60)
<1>4. base \in Nat /\ setup \in Setups
  BY DEF BookInv
<1>5. SlotOK(base, log, snapshot)
  BY <1>3, Zenon DEF Rebuilds
<1>6. OnceOK(Sequencing, d) /\ Rebuilds(base, log, snapshot, d)
  BY <1>2, <1>3, <1>4, RecOnce, ZenonT(60)
<1>7. /\ IsState(d)
      /\ Sequencing => d.pendingData =
           StillQueued(Replayed(base, log, snapshot), Entries(base, log, snapshot.covers))
      /\ ~Sequencing => d.pendingData = {}
  BY <1>2, <1>4, <1>5, RecState, ZenonT(60)
<1>8. FlushOK(<<>>, d)
  BY ONLY NoFlush, Zenon
<1>9. d.pendingData \subseteq QueuedIn(log)
  <2>1. Suffix(Entries(base, log, snapshot.covers), log, snapshot.covers - base)
    BY <1>2, <1>4, <1>5, EntriesFacts, ZenonT(60) DEF SlotOK
  <2>2. snapshot.covers - base \in Nat
    BY <1>2, <1>4, <1>5, SeqFacts DEF SlotOK
  <2>3. QueuedIn(Entries(base, log, snapshot.covers)) \subseteq QueuedIn(log)
    BY <1>2, <2>1, <2>2, KeysOfSuffix
  <2>. QED
    BY <1>7, <2>3, ZenonT(60) DEF StillQueued, QueuedIn
<1>. HIDE DEF d
<1>10. CapturedOK'
  BY <1>1, ZenonT(60) DEF CapturedOK
<1>. QED
  BY <1>1, <1>2, <1>4, <1>6, <1>7, <1>8, <1>9, <1>10, ZenonT(60) DEF BookInv, Sequencing

-----------------------------------------------------------------------------
\* The log of the orders accepted before the run.
AcceptedLog(x) == [i \in DOMAIN x |-> OrderAccepted(x[i], NoEvidence)]

\* It holds these orders and nothing else.
LEMMA AcceptedLogFacts ==
    ASSUME NEW x \in Seq(Orders)
    PROVE  /\ IsSeq(AcceptedLog(x)) /\ Len(AcceptedLog(x)) = Len(x)
           /\ \A i \in 1..Len(x) : AcceptedLog(x)[i] = OrderAccepted(x[i], NoEvidence)
           /\ QueuedIn(AcceptedLog(x)) = {} /\ ConfirmedIn(AcceptedLog(x)) = {}
           /\ SettledKeys(AcceptedLog(x)) = {}
<1>. DEFINE w == AcceptedLog(x)
            S == {OrderAccepted(o, NoEvidence) : o \in Orders}
<1>1. Len(x) \in Nat /\ DOMAIN x = 1..Len(x) /\ \A i \in 1..Len(x) : x[i] \in Orders
  OBVIOUS
<1>2. w \in [1..Len(x) -> S] /\ \A i \in 1..Len(x) : w[i] = OrderAccepted(x[i], NoEvidence)
  BY <1>1, Zenon DEF AcceptedLog
<1>. HIDE DEF S, w
<1>3. IsSeq(w) /\ Len(w) = Len(x)
  BY <1>1, <1>2, FunctionIsSeq, ZenonT(60)
<1>4. DOMAIN w = 1..Len(x)
  BY <1>2, Zenon
<1>5. \A i \in DOMAIN w : w[i].kind = "OrderAccepted"
  BY <1>2, <1>4 DEF OrderAccepted
<1>6. QueuedIn(w) = {} /\ ConfirmedIn(w) = {} /\ SettledKeys(w) = {}
  BY ONLY <1>5, ZenonT(60) DEF QueuedIn, ConfirmedIn, SettledKeys
<1>. QED
  BY <1>2, <1>3, <1>6, ZenonT(60) DEF w

\* Replaying it applies them in their order.
LEMMA AcceptedReplayed ==
    ASSUME NEW x \in Seq(Orders)
    PROVE  HasOrders(x, Len(x), Replay(Fresh, AcceptedLog(x)))
<1>. DEFINE w == AcceptedLog(x)
            z == [about |-> "orders", of |-> x]
<1>0. z.about = "orders" /\ z.of = x
  BY Zenon
<1>1. /\ IsSeq(w) /\ Len(w) = Len(x) /\ Len(x) \in Nat
      /\ \A i \in 1..Len(x) : w[i] = OrderAccepted(x[i], NoEvidence)
  BY AcceptedLogFacts
<1>. HIDE DEF w, z
<1>2. Replaying(z, 0, Fresh, Fresh)
  <2>1. IsSeq(<<>>) /\ ToSet(<<>>) = {}
    BY DEF IsSeq, ToSet
  <2>2. Fresh.orderLog = <<>>
    BY Zenon DEF Fresh
  <2>. QED
    BY <1>0, <2>1, <2>2, FreshState DEF Replaying, HasOrders, SameBook
<1>3. RF!Keeps(z, w, w, w, Len(w))
  <2>. SUFFICES ASSUME NEW i \in 1..Len(w), NEW c, NEW d, Replaying(z, i - 1, c, d)
                PROVE  Replaying(z, i, ReplayEntry(w, c, w[i]), ReplayEntry(w, d, w[i]))
    BY SMTT(30) DEF RF!Keeps
  <2>0. /\ IsState(ReplayEntry(w, c, w[i])) /\ IsState(ReplayEntry(w, d, w[i]))
        /\ SameBook(ReplayEntry(w, c, w[i]), ReplayEntry(w, d, w[i]))
        /\ NothingQueued(ReplayEntry(w, c, w[i]))
    BY ReplayEntryKeeps, ZenonT(60) DEF Replaying, NothingQueued
  <2>. DEFINE n == ApplyOrder(c, x[i], NoEvidence)
  <2>1. ReplayEntry(w, c, w[i]) = n
    <3>1. w[i].kind = "OrderAccepted" /\ w[i].order = x[i] /\ w[i].at = NoEvidence
      <4>1. i \in 1..Len(x)
        BY <1>1, ZenonT(60)
      <4>2. w[i] = OrderAccepted(x[i], NoEvidence)
        BY <1>1, <4>1, ZenonT(60)
      <4>. QED
        BY ONLY <4>2 DEF OrderAccepted
    <3>. QED
      BY <3>1 DEF ReplayEntry
  <2>2. /\ IsState(c) /\ IsSeq(c.orderLog) /\ Len(c.orderLog) = i - 1
        /\ \A j \in 1..(i - 1) : c.orderLog[j] = x[j]
        /\ ToSet(c.orderLog) \subseteq c.applied
    BY <1>0, Zenon DEF Replaying, HasOrders
  <2>3. HasApplied(n, c, x[i], NoEvidence)
    BY <2>2, ApplyOrderFields, ZenonT(60)
  <2>. HIDE DEF n
  <2>4. IsState(n) /\ n.orderLog = Append(c.orderLog, x[i]) /\ n.applied = c.applied \union {x[i]}
    BY <2>3, ZenonT(60) DEF HasApplied
  <2>5. /\ IsSeq(n.orderLog) /\ Len(n.orderLog) = (i - 1) + 1
        /\ \A j \in 1..(i - 1) : n.orderLog[j] = c.orderLog[j]
        /\ n.orderLog[(i - 1) + 1] = x[i] /\ ToSet(n.orderLog) = ToSet(c.orderLog) \union {x[i]}
    <3>1. /\ Len(Append(c.orderLog, x[i])) = Len(c.orderLog) + 1
          /\ IsSeq(Append(c.orderLog, x[i]))
          /\ \A j \in 1..Len(c.orderLog) : Append(c.orderLog, x[i])[j] = c.orderLog[j]
          /\ Append(c.orderLog, x[i])[Len(c.orderLog) + 1] = x[i]
          /\ ToSet(Append(c.orderLog, x[i])) = ToSet(c.orderLog) \union {x[i]}
      BY <2>2, SeqAppended, ZenonT(60)
    <3>. QED
      BY ONLY <2>2, <2>4, <3>1, ZenonT(60)
  <2>6. \A j \in 1..i : n.orderLog[j] = x[j]
    <3>1. i \in Nat
      BY <1>1
    <3>2. \A j \in 1..i : j \in 1..(i - 1) \/ j = (i - 1) + 1
      BY <3>1
    <3>3. (i - 1) + 1 = i
      BY ONLY <3>1, SMTT(30)
    <3>. QED
      BY ONLY <2>2, <2>5, <3>2, <3>3, ZenonT(60)
  <2>7. ToSet(n.orderLog) \subseteq n.applied
    BY <2>2, <2>4, <2>5, ZenonT(60)
  <2>8. HasOrders(x, i, ReplayEntry(w, c, w[i]))
    <3>1. Len(n.orderLog) = i
      BY <1>1, <2>5
    <3>. QED
      BY ONLY <2>1, <2>5, <2>6, <2>7, <3>1, ZenonT(60) DEF HasOrders
  <2>9. IsState(ReplayEntry(w, c, w[i])) /\ z.about = "orders" /\ z.of = x
    BY <1>0, <2>0, ZenonT(60)
  <2>. QED
    BY ONLY <2>0, <2>8, <2>9, ZenonT(60) DEF Replaying
<1>4. w \in Seq(ToSet(w))
  BY <1>1, Zenon DEF IsSeq
<1>5. Replaying(z, Len(w), RF!Fold(w, Fresh, w), RF!Fold(w, Fresh, w))
  BY ONLY <1>2, <1>3, <1>4, RFInduction, RF!FoldsAlike, ZenonT(60)
<1>6. Replay(Fresh, w) = RF!Fold(w, Fresh, w)
  BY ReplayIsFold, ZenonT(60)
<1>. QED
  BY <1>0, <1>1, <1>5, <1>6, ZenonT(60) DEF Replaying, w

\* The node starts with everything it holds on disk.
LEMMA InitBook == Init => BookInv
<1>. SUFFICES ASSUME Init PROVE BookInv
  BY Zenon
<1>. DEFINE x == Accepted
            d == Rec(0, Sequencing, wal, NoSnapshot)
            r == Replayed(0, wal, NoSnapshot)
<1>1. /\ setup \in Setups /\ wal = AcceptedLog(x) /\ base = 0 /\ snapshot = NoSnapshot
      /\ captured = NoSnapshot /\ flush = <<>>
  BY Zenon DEF Init, LogInit, AcceptedLog
<1>2. app = d
  BY <1>1, RecoverIsRec, ZenonT(60) DEF Init
<1>3. x \in Seq(Orders) /\ (Sequencing => IsInjective(x))
  BY <1>1, SetupsAssumption, ZenonT(60) DEF Accepted, Sequencing
<1>. HIDE DEF x
<1>4. IsSeq(wal) /\ QueuedIn(wal) = {} /\ Len(wal) \in Nat
  BY <1>1, <1>3, AcceptedLogFacts, SeqFacts, ZenonT(60)
<1>5. NoSnapshot.covers = 0
  BY DEF NoSnapshot
<1>6. SlotOK(0, wal, NoSnapshot)
  BY <1>4, <1>5 DEF SlotOK
<1>7. Entries(0, wal, 0) = wal
  BY <1>4, EntriesFromStart, ZenonT(60)
<1>8. r = Replay(Fresh, AcceptedLog(x))
  BY <1>1, <1>5, <1>7, ZenonT(60) DEF Replayed
<1>9. HasOrders(x, Len(x), r)
  BY <1>3, <1>8, AcceptedReplayed, ZenonT(60)
<1>10. /\ IsState(d) /\ SameBook(d, r) /\ d.sequencer = d.pendingData
       /\ Sequencing => d.pendingData = StillQueued(r, Entries(0, wal, NoSnapshot.covers))
       /\ ~Sequencing => d.pendingData = {}
  BY <1>4, <1>6, RecState, ZenonT(60)
<1>. HIDE DEF d, r
<1>11. d.pendingData = {}
  <2>1. StillQueued(r, wal) \subseteq QueuedIn(wal)
    BY Zenon DEF StillQueued, QueuedIn
  <2>. QED
    BY <1>4, <1>5, <1>7, <1>10, <2>1, ZenonT(60)
<1>12. d.orderLog = r.orderLog /\ d.applied = r.applied
  BY <1>10, Zenon DEF SameBook
<1>13. IsSeq(r.orderLog) /\ ToSet(r.orderLog) \subseteq r.applied /\ r.orderLog = x
  <2>1. IsSeq(x)
    BY <1>3, SeqTyped, ZenonT(60)
  <2>2. /\ IsSeq(r.orderLog) /\ ToSet(r.orderLog) \subseteq r.applied /\ Len(r.orderLog) = Len(x)
        /\ \A j \in 1..Len(x) : r.orderLog[j] = x[j]
    BY <1>9, ZenonT(60) DEF HasOrders
  <2>. QED
    BY <2>1, <2>2, SeqsEqual, ZenonT(60)
<1>14. OnceOK(Sequencing, d)
  BY <1>3, <1>10, <1>11, <1>12, <1>13, ZenonT(60) DEF OnceOK
<1>15. Rebuilds(0, wal, NoSnapshot, d)
  BY <1>6, <1>10, ZenonT(60) DEF Rebuilds, SameBook, r
<1>16. FlushOK(<<>>, d)
  BY DEF FlushOK, IsSeq, ToSet
<1>17. CapturedOK
  BY <1>1, ZenonT(60) DEF CapturedOK
<1>. QED
  BY <1>1, <1>2, <1>4, <1>10, <1>11, <1>14, <1>15, <1>16, <1>17, ZenonT(60) DEF BookInv

-----------------------------------------------------------------------------
\* Every step of the node, of its chain and of its disk keeps it.
LEMMA NextBook == BookInv /\ [Next]_vars => BookInv'
<1>. SUFFICES ASSUME BookInv, [Next]_vars PROVE BookInv'
  BY Zenon
<1>1. CASE UNCHANGED vars
  <2>1. UNCHANGED <<setup, wal, base, snapshot, captured, flush, app>>
    BY <1>1 DEF vars, logVars
  <2>. QED
    BY <2>1, ZenonT(60) DEF BookInv, CapturedOK, Sequencing
<1>. SUFFICES ASSUME Next PROVE BookInv'
  BY <1>1, ZenonT(60)
<1>0. setup' = setup
  BY DEF Next
<1>2. CASE Intake
  BY <1>0, <1>2, QueueOrderBook, SubmitImmediateBook, ConfirmCommittedBook, ZenonT(60) DEF Intake
<1>3. CASE SequencingLoop
  BY <1>0, <1>3, FlushBook, ApplyResolvedBatchBook, RequeueBatchBook, ZenonT(60) DEF SequencingLoop
<1>4. CASE SettlementLoop
  BY <1>0, <1>4, ReconcileBook, ProcessBatchesBook, SubmissionBook, CheckpointBook, ZenonT(60) DEF SettlementLoop
<1>5. CASE SnapshotLoop
  BY <1>0, <1>5, SnapshotLoopBook, ZenonT(60)
<1>6. CASE Mine \/ (\E k \in Crossing : Expire(k))
  BY <1>0, <1>6, ChainBook, ZenonT(60)
<1>7. CASE \E log \in LogsAtCrash : Restart(log)
  BY <1>0, <1>7, RestartBook, ZenonT(60)
<1>. QED
  BY <1>2, <1>3, <1>4, <1>5, <1>6, <1>7, ZenonT(60) DEF Next

\* What is on disk rebuilds the books of the running node, in every reachable state.
THEOREM BooksKept == Spec => []BookInv
  BY InitBook, NextBook, PTL DEF Spec

\* A restart at any moment rebuilds the order book, the order log, the matches and
\* the unconfirmed trades exactly, whatever snapshot, truncation, failed append or
\* earlier restart came before; until a snapshot was saved it also queues every
\* order that waits for sequencing (load_persistence, replay_persistence_log).
THEOREM StateStaysRecoverable == Spec => []StateRecoverable
<1>1. BookInv => StateRecoverable
  <2>. SUFFICES ASSUME BookInv PROVE StateRecoverable
    BY Zenon
  <2>. DEFINE d == Rec(base, Sequencing, wal, snapshot)
              r == Replayed(base, wal, snapshot)
  <2>1. /\ base \in Nat /\ IsSeq(wal) /\ SlotOK(base, wal, snapshot) /\ SameBook(r, app)
        /\ OnceOK(Sequencing, app)
    BY DEF BookInv, Rebuilds
  <2>2. Recovered = d
    BY RecoverIsRec, ZenonT(60) DEF Recovered
  <2>3. /\ SameBook(d, r)
        /\ Sequencing => d.pendingData = StillQueued(r, Entries(base, wal, snapshot.covers))
    BY <2>1, RecState, ZenonT(60)
  <2>. HIDE DEF d, r
  <2>4. BookRecoverable
    BY <2>1, <2>2, <2>3, ZenonT(60) DEF BookRecoverable, SameBook
  <2>5. ASSUME snapshot = NoSnapshot PROVE app.pendingData \subseteq d.pendingData
    <3>1. CASE ~Sequencing
      BY <2>1, <3>1, ZenonT(60) DEF OnceOK
    <3>2. CASE Sequencing
      <4>1. snapshot.covers = 0
        BY <2>5, Zenon DEF NoSnapshot
      <4>2. base = 0 /\ Len(wal) \in Nat
        BY <2>1, <4>1, SeqFacts DEF SlotOK
      <4>3. Entries(base, wal, snapshot.covers) = wal
        BY <2>1, <4>1, <4>2, EntriesFromStart, ZenonT(60)
      <4>4. app.pendingData \subseteq QueuedIn(wal) /\ app.pendingData \intersect app.applied = {}
        BY <2>1, <2>5, ZenonT(60) DEF BookInv, OnceOK
      <4>5. r.applied = app.applied
        BY <2>1, ZenonT(60) DEF SameBook
      <4>. QED
        BY <2>3, <3>2, <4>3, <4>4, <4>5, ZenonT(60) DEF StillQueued, QueuedIn
    <3>. QED
      BY <3>1, <3>2, ZenonT(60)
  <2>. QED
    BY <2>2, <2>4, <2>5, ZenonT(60) DEF StateRecoverable, QueuedUntilSnapshot, QueuedRecoverable
<1>. QED
  BY <1>1, BooksKept, PTL

\* With sequencing, no order enters the book twice, however often it is sent,
\* flushed, requeued or replayed, and every order that the sequencing loop
\* resolves still has its pending data (apply_resolved_batch).
THEOREM OrdersSequencedOnce == Spec => []SequencedOnce
<1>1. BookInv => SequencedOnce
  <2>. SUFFICES ASSUME BookInv PROVE SequencedOnce
    OBVIOUS
  <2>1. AppliedOnce
    BY ZenonT(60) DEF BookInv, OnceOK, AppliedOnce
  <2>2. ResolvedHasData
    BY SeqFacts, ZenonT(60) DEF BookInv, FlushOK, ResolvedHasData
  <2>. QED
    BY <2>1, <2>2, ZenonT(60) DEF SequencedOnce
<1>. QED
  BY <1>1, BooksKept, PTL

-----------------------------------------------------------------------------
(***************************************************************************)
(* Settlement: what the log says of the trades.                            *)
(***************************************************************************)
\* The first element of a sequence, and the others.
LEMMA SeqTail == ASSUME NEW s, IsSeq(s), s # <<>>
  PROVE IsSeq(Tail(s)) /\ ToSet(s) = ToSet(Tail(s)) \union {Head(s)}
<1>. DEFINE S == ToSet(s)
            t == Tail(s)
<1>1. s \in Seq(S)
  BY DEF IsSeq
<1>. HIDE DEF S
<1>2. /\ Len(s) \in Nat /\ Len(s) >= 1 /\ DOMAIN s = 1..Len(s) /\ Head(s) = s[1]
      /\ t \in Seq(S) /\ Len(t) = Len(s) - 1 /\ DOMAIN t = 1..Len(t)
      /\ \A i \in 1..Len(t) : t[i] = s[i + 1]
  BY <1>1
<1>3. IsSeq(t)
  BY <1>2, SeqTyped, ZenonT(60)
<1>. HIDE DEF t
<1>4. \A x : x \in ToSet(s) <=> \E i \in 1..Len(s) : s[i] = x
  BY <1>2, Zenon DEF ToSet
<1>5. \A x : x \in ToSet(t) <=> \E i \in 1..Len(t) : t[i] = x
  BY <1>2, Zenon DEF ToSet
<1>6. \A x : (\E i \in 1..Len(s) : s[i] = x) <=> x = s[1] \/ \E i \in 1..Len(t) : t[i] = x
  <2>. SUFFICES ASSUME NEW i \in 1..Len(s), i # 1 PROVE i - 1 \in 1..Len(t) /\ t[i - 1] = s[i]
    BY <1>2
  <2>. QED
    BY <1>2
<1>7. ToSet(s) = ToSet(t) \union {Head(s)}
  BY <1>2, <1>4, <1>5, <1>6, ZenonT(60)
<1>. QED
  BY <1>3, <1>7 DEF t

\* A sequence of one element, and none.
LEMMA SeqOfOne == ASSUME NEW e
  PROVE /\ Append(<<>>, e) = <<e>> /\ Tail(<<e>>) = <<>> /\ Head(<<e>>) = e
        /\ IsSeq(<<>>) /\ ToSet(<<>>) = {} /\ ToSet(<<e>>) = {e}
  BY DEF IsSeq, ToSet

\* The chunk the settlement loop is at.
Current == ToSet(settling.chunks[1])

\* The checkpoints tell the truth, and so will the one of a chunk that was sent.
TruthInv ==
    /\ settling = [stage |-> settling.stage, candidates |-> settling.candidates,
                   chunks |-> settling.chunks]
    /\ SettledKeys(wal) \subseteq HandedOver \union reverted
    /\ settling.stage = "sent" =>
          IF OnFrg THEN Current \subseteq HandedOver
          ELSE Current \in ToSet(mempool) \/ Current \subseteq onChain \union reverted
    /\ IsSeq(mempool)

\* The transaction of the chunk that was sent waits, and the contract will take it.
OneSent == settling.stage = "sent" /\ mempool = <<Current>> /\ Acceptable(Current)

\* Unless one is late, outlives a crash, or a deadline passes while one waits, no other
\* transaction waits.
CleanInv ==
    Faults \intersect {"late", "revert"} = {} /\ NoneOutlived =>
        /\ reverted = {}
        /\ OnFrg \/ mempool = <<>> \/ OneSent

\* Without snapshots the log keeps every confirmation that was answered.
AckedInv ==
    ~Snapshots => snapshot = NoSnapshot /\ captured = NoSnapshot /\ acked \subseteq ConfirmedIn(wal)

SettleInv == TruthInv /\ CleanInv /\ AckedInv

\* s is the settlement loop's record.
IsLoop(s) == s = [stage |-> s.stage, candidates |-> s.candidates, chunks |-> s.chunks]

\* d is s with other chunks, at another stage.
MovesTo(s, v, w, d) == d = [s EXCEPT !.chunks = v, !.stage = w]

\* Moving the loop on keeps it a record of the loop.
LEMMA LoopMoved ==
    ASSUME NEW s, IsLoop(s), NEW w, NEW v, NEW d, MovesTo(s, v, w, d)
    PROVE  IsLoop(d) /\ d.stage = w /\ d.chunks = v
<1>0. d = [s EXCEPT !.chunks = v, !.stage = w]
  BY DEF MovesTo
<1>1. DOMAIN s = {"stage", "candidates", "chunks"}
  BY DEF IsLoop
<1>2. DOMAIN d = {"stage", "candidates", "chunks"} /\ d.stage = w /\ d.chunks = v
  BY <1>0, <1>1, ZenonT(60)
<1>3. d = [f \in DOMAIN d |-> d[f]]
  BY <1>0, ZenonT(60)
<1>. QED
  BY ONLY <1>2, <1>3, ZenonT(60) DEF IsLoop

\* So does a change of its stage alone.
LEMMA StageMoved ==
    ASSUME NEW s, IsLoop(s), NEW w, NEW d, d = [s EXCEPT !.stage = w]
    PROVE  IsLoop(d) /\ d.stage = w /\ d.chunks = s.chunks
<1>1. DOMAIN s = {"stage", "candidates", "chunks"}
  BY DEF IsLoop
<1>2. DOMAIN d = {"stage", "candidates", "chunks"} /\ d.stage = w /\ d.chunks = s.chunks
  BY <1>1, ZenonT(60)
<1>3. d = [f \in DOMAIN d |-> d[f]]
  OBVIOUS
<1>. QED
  BY ONLY <1>2, <1>3, ZenonT(60) DEF IsLoop

\* A step outside the settlement loop and the chain, which settles nothing in the
\* log, forgets no confirmation and logs what it answers.
LEMMA QuietSettle ==
    ASSUME SettleInv, setup' = setup, settling' = settling, UNCHANGED chainVars,
           snapshot' = snapshot, captured' = captured,
           SettledKeys(wal') \subseteq SettledKeys(wal), ConfirmedIn(wal) \subseteq ConfirmedIn(wal'),
           acked' \subseteq acked \union ConfirmedIn(wal')
    PROVE  SettleInv'
<1>1. UNCHANGED <<mempool, onChain, expired, reverted, outlived>>
  BY Zenon DEF chainVars
<1>2. HandedOver' = HandedOver /\ OnFrg' = OnFrg /\ Faults' = Faults /\ Snapshots' = Snapshots
      /\ Current' = Current
  BY <1>1, ZenonT(60) DEF HandedOver, Pending, OnFrg, Faults, Snapshots, Current
<1>a. NoneOutlived' = NoneOutlived /\ OneSent' = OneSent
  BY <1>1, <1>2, ZenonT(60) DEF NoneOutlived, OneSent, Acceptable
<1>3. TruthInv'
  BY <1>1, <1>2, ZenonT(60) DEF SettleInv, TruthInv
<1>4. CleanInv'
  BY <1>1, <1>2, <1>a, ZenonT(60) DEF SettleInv, CleanInv
<1>5. AckedInv'
  BY <1>2, ZenonT(60) DEF SettleInv, AckedInv
<1>. QED
  BY <1>3, <1>4, <1>5, ZenonT(60) DEF SettleInv

\* A step of the settlement loop that is not a submission.
LEMMA LoopSettle ==
    ASSUME SettleInv, setup' = setup, UNCHANGED chainVars, snapshot' = snapshot,
           captured' = captured, acked' = acked,
           IsLoop(settling'), settling'.stage # "sent",
           SettledKeys(wal') \subseteq HandedOver \union reverted,
           ConfirmedIn(wal) \subseteq ConfirmedIn(wal'),
           settling.stage = "sent" =>
              OnFrg \/ "late" \in Faults \/ mempool = <<>>
    PROVE  SettleInv'
<1>1. UNCHANGED <<mempool, onChain, expired, reverted, outlived>>
  BY Zenon DEF chainVars
<1>2. HandedOver' = HandedOver /\ OnFrg' = OnFrg /\ Faults' = Faults /\ Snapshots' = Snapshots
      /\ NoneOutlived' = NoneOutlived
  BY <1>1, ZenonT(60) DEF HandedOver, Pending, OnFrg, Faults, Snapshots, NoneOutlived
<1>3. TruthInv'
  BY <1>1, <1>2, ZenonT(60) DEF SettleInv, TruthInv, IsLoop
<1>4. CleanInv'
  <2>1. Faults \intersect {"late", "revert"} = {} /\ NoneOutlived => OnFrg \/ mempool = <<>>
    BY Zenon DEF SettleInv, CleanInv, OneSent
  <2>. QED
    BY <1>1, <1>2, <2>1, ZenonT(60) DEF SettleInv, CleanInv
<1>5. AckedInv'
  BY <1>2, ZenonT(60) DEF SettleInv, AckedInv
<1>. QED
  BY <1>3, <1>4, <1>5, ZenonT(60) DEF SettleInv

\* Appending an entry that is no checkpoint.
LEMMA LoggedKeys ==
    ASSUME IsSeq(wal), NEW e, wal' = wal \o <<e>>
    PROVE  /\ e.kind # "BatchSubmitted" => SettledKeys(wal') = SettledKeys(wal)
           /\ ConfirmedIn(wal) \subseteq ConfirmedIn(wal')
           /\ e.kind = "CommitConfirmed" => e.trade \in ConfirmedIn(wal')
           /\ e.kind = "BatchSubmitted" => SettledKeys(wal') = SettledKeys(wal) \union e.trades
<1>1. wal' = Append(wal, e)
  BY SeqAppended, ZenonT(60)
<1>2. /\ ConfirmedIn(Append(wal, e)) =
            ConfirmedIn(wal) \union (IF e.kind = "CommitConfirmed" THEN {e.trade} ELSE {})
      /\ SettledKeys(Append(wal, e)) =
            SettledKeys(wal) \union (IF e.kind = "BatchSubmitted" THEN e.trades ELSE {})
  BY ONLY IsSeq(wal), KeysAppended, ZenonT(60)
<1>. QED
  BY ONLY <1>1, <1>2, ZenonT(60)

\* The handlers and the sequencing loop.
LEMMA IntakeSettle ==
    ASSUME BookInv, SettleInv, setup' = setup, Intake \/ SequencingLoop
    PROVE  SettleInv'
<1>0. IsSeq(wal) /\ IsSeq(flush)
  BY Zenon DEF BookInv, FlushOK
<1>1. ASSUME NEW o, NEW gossip, QueueOrder(o, gossip) PROVE SettleInv'
  <2>1. UNCHANGED <<snapshot, captured, settling, chainVars, acked>>
    BY <1>1, ZenonT(60) DEF QueueOrder, OnlyApp
  <2>2. CASE wal' = wal
    BY <2>1, <2>2, QuietSettle, ZenonT(60)
  <2>3. CASE wal' = wal \o <<OrderQueued(o)>>
    <3>1. OrderQueued(o).kind = "OrderQueued"
      BY Zenon DEF OrderQueued
    <3>. QED
      BY <1>0, <2>1, <2>3, <3>1, LoggedKeys, QuietSettle, ZenonT(60)
  <2>. QED
    BY <1>1, <2>2, <2>3, ZenonT(60) DEF QueueOrder, Logged
<1>2. ASSUME NEW o, SubmitImmediate(o) PROVE SettleInv'
  <2>1. UNCHANGED <<snapshot, captured, settling, chainVars, acked>>
    BY <1>2, ZenonT(60) DEF SubmitImmediate, OnlyApp
  <2>2. CASE wal' = wal
    BY <2>1, <2>2, QuietSettle
  <2>3. CASE wal' = wal \o <<OrderAccepted(o, NoEvidence)>>
    <3>1. OrderAccepted(o, NoEvidence).kind = "OrderAccepted"
      BY Zenon DEF OrderAccepted
    <3>. QED
      BY <1>0, <2>1, <2>3, <3>1, LoggedKeys, QuietSettle, ZenonT(60)
  <2>. QED
    BY <1>2, <2>2, <2>3, ZenonT(60) DEF SubmitImmediate, Logged
<1>3. ASSUME NEW k, ConfirmCommitted(k) PROVE SettleInv'
  <2>1. /\ UNCHANGED <<snapshot, captured, settling, chainVars>> /\ acked' = acked \union {k}
        /\ wal' = wal \o <<CommitConfirmed(k)>>
    BY <1>3, ZenonT(60) DEF ConfirmCommitted, Logged
  <2>2. CommitConfirmed(k).kind = "CommitConfirmed" /\ CommitConfirmed(k).trade = k
    BY Zenon DEF CommitConfirmed
  <2>3. /\ SettledKeys(wal') = SettledKeys(wal) /\ ConfirmedIn(wal) \subseteq ConfirmedIn(wal')
        /\ k \in ConfirmedIn(wal')
    BY <1>0, <2>1, <2>2, LoggedKeys, ZenonT(60)
  <2>. QED
    BY <2>1, <2>3, QuietSettle, ZenonT(60)
<1>4. ASSUME NEW batch, NEW evident, Flush(batch, evident) PROVE SettleInv'
  BY <1>4, QuietSettle, ZenonT(60) DEF Flush, logVars
<1>5. ASSUME RequeueBatch PROVE SettleInv'
  BY <1>5, QuietSettle, ZenonT(60) DEF RequeueBatch, logVars
<1>6. ASSUME NEW lost, ApplyResolvedBatch(lost) PROVE SettleInv'
  <2>1. UNCHANGED <<snapshot, captured, settling, chainVars, acked>> /\ wal' = Applied(lost, flush).log
    BY <1>6, ZenonT(60) DEF ApplyResolvedBatch
  <2>2. \A i \in 1..Len(flush) : flush[i].order \notin app.sequencer
    BY Zenon DEF BookInv, FlushOK
  <2>3. SettledKeys(wal') = SettledKeys(wal) /\ ConfirmedIn(wal) \subseteq ConfirmedIn(wal')
    BY <1>0, <2>1, <2>2, BatchFacts, ZenonT(60)
  <2>. QED
    BY <2>1, <2>3, QuietSettle, ZenonT(60)
<1>. QED
  BY <1>1, <1>2, <1>3, <1>4, <1>5, <1>6, ZenonT(60) DEF Intake, SequencingLoop

\* The settlement loop, up to the checkpoint.
LEMMA SettlementLoopSettle ==
    ASSUME BookInv, SettleInv, setup' = setup, SettlementLoop
    PROVE  SettleInv'
<1>0. IsSeq(wal) /\ IsLoop(settling) /\ SettledKeys(wal) \subseteq HandedOver \union reverted
  BY DEF BookInv, SettleInv, TruthInv, IsLoop
<1>a. ASSUME NextChunk PROVE IsLoop(settling') /\ settling'.stage # "sent"
  <2>. DEFINE w == IF Len(settling.chunks) = 1 THEN "idle" ELSE "chunks"
              v == Tail(settling.chunks)
  <2>1. MovesTo(settling, v, w, settling')
    BY <1>a, ZenonT(60) DEF NextChunk, MovesTo
  <2>2. w # "sent"
    BY Zenon
  <2>. HIDE DEF v, w
  <2>3. IsLoop(settling') /\ settling'.stage = w
    BY ONLY <1>0, <2>1, LoopMoved
  <2>. QED
    BY <2>2, <2>3, ZenonT(60)
<1>b. ASSUME OnlyLoop PROVE UNCHANGED <<snapshot, captured, acked>>
  BY <1>b, ZenonT(60) DEF OnlyLoop
<1>1. ASSUME NEW known, NEW c, Reconcile(known, c) PROVE SettleInv'
  <2>. DEFINE k == Head(settling.candidates)
  <2>1. /\ UNCHANGED <<snapshot, captured, acked, chainVars>> /\ settling.stage = "boot"
        /\ settling' = Boot(Tail(settling.candidates))
    BY <1>1, <1>b, ZenonT(60) DEF Reconcile
  <2>2. IsLoop(settling') /\ settling'.stage # "sent"
    BY <2>1, ZenonT(60) DEF Boot, IsLoop
  <2>3. CASE wal' = wal
    BY <1>0, <2>1, <2>2, <2>3, LoopSettle, ZenonT(60)
  <2>4. CASE IsTradeSettled(k) /\ wal' = wal \o <<BatchSubmitted({k})>>
    <3>1. BatchSubmitted({k}).kind = "BatchSubmitted" /\ BatchSubmitted({k}).trades = {k}
      BY DEF BatchSubmitted
    <3>2. SettledKeys(wal') = SettledKeys(wal) \union {k} /\ ConfirmedIn(wal) \subseteq ConfirmedIn(wal')
      BY <1>0, <2>4, <3>1, LoggedKeys, ZenonT(60)
    <3>3. k \in HandedOver
      BY <2>4, ZenonT(60) DEF IsTradeSettled, HandedOver
    <3>. QED
      BY <1>0, <2>1, <2>2, <3>2, <3>3, LoopSettle, ZenonT(60)
  <2>. QED
    BY <1>1, <2>3, <2>4, ZenonT(60) DEF Reconcile, Logged
<1>2. ASSUME NEW due, ProcessBatches(due) PROVE SettleInv'
  <2>. DEFINE v == ProveBatches(app, due).proven
              w == IF v = <<>> THEN "idle" ELSE "chunks"
  <2>1. /\ UNCHANGED <<snapshot, captured, acked, chainVars, wal>> /\ settling.stage = "idle"
        /\ MovesTo(settling, v, w, settling')
    BY <1>2, <1>b, ZenonT(60) DEF ProcessBatches, MovesTo
  <2>2. w # "sent"
    BY Zenon
  <2>. HIDE DEF v, w
  <2>a. IsLoop(settling') /\ settling'.stage = w
    BY ONLY <1>0, <2>1, LoopMoved, SMTT(30)
  <2>3. IsLoop(settling') /\ settling'.stage # "sent"
    BY <2>2, <2>a
  <2>. QED
    BY <1>0, <2>1, <2>3, LoopSettle, ZenonT(60)
<1>3. ASSUME SkipChunk \/ \E i \in 1..MaxChunk : BuildFails(i) PROVE SettleInv'
  <2>1. /\ UNCHANGED <<snapshot, captured, acked, chainVars, wal>> /\ settling.stage = "chunks"
        /\ NextChunk
    BY <1>3, <1>b, ZenonT(60) DEF SkipChunk, BuildFails, Submittable
  <2>. QED
    BY <1>0, <1>a, <2>1, LoopSettle, ZenonT(60)
<1>4. ASSUME BuildSettlementTrades PROVE SettleInv'
  <2>1. /\ UNCHANGED <<snapshot, captured, acked, chainVars, wal>> /\ settling.stage = "chunks"
        /\ settling' = [settling EXCEPT !.stage = "sending"]
    BY <1>4, <1>b, ZenonT(60) DEF BuildSettlementTrades, Submittable
  <2>a. IsLoop(settling') /\ settling'.stage = "sending"
    BY ONLY <1>0, <2>1, StageMoved
  <2>2. IsLoop(settling') /\ settling'.stage # "sent"
    BY <2>a, ZenonT(60)
  <2>. QED
    BY <1>0, <2>1, <2>2, LoopSettle, ZenonT(60)
<1>5. ASSUME SubmissionFails PROVE SettleInv'
  <2>1. /\ UNCHANGED <<snapshot, captured, acked, chainVars, wal>> /\ NextChunk
        /\ settling.stage = "sent" => "late" \in Faults
    BY <1>5, <1>b, ZenonT(60) DEF SubmissionFails
  <2>. QED
    BY <1>0, <1>a, <2>1, LoopSettle, ZenonT(60)
<1>6. ASSUME NEW c, Checkpoint(c) PROVE SettleInv'
  <2>1. /\ UNCHANGED <<snapshot, captured, acked, chainVars>> /\ settling.stage = "sent" /\ NextChunk
        /\ OnFrg \/ mempool = <<>>
    BY <1>6, <1>b, ZenonT(60) DEF Checkpoint, Mined
  <2>2. CASE wal' = wal
    BY <1>0, <1>a, <2>1, <2>2, LoopSettle, ZenonT(60)
  <2>3. CASE wal' = wal \o <<BatchSubmitted(Current)>>
    <3>1. BatchSubmitted(Current).kind = "BatchSubmitted" /\ BatchSubmitted(Current).trades = Current
      BY Zenon DEF BatchSubmitted
    <3>2. SettledKeys(wal') = SettledKeys(wal) \union Current /\ ConfirmedIn(wal) \subseteq ConfirmedIn(wal')
      BY <1>0, <2>3, <3>1, LoggedKeys, ZenonT(60)
    <3>3. Current \subseteq HandedOver \union reverted
      BY <2>1, SeqOfOne, ZenonT(60) DEF SettleInv, TruthInv, HandedOver
    <3>. QED
      BY <1>0, <1>a, <2>1, <3>2, <3>3, LoopSettle, ZenonT(60)
  <2>. QED
    BY <1>6, <2>2, <2>3, ZenonT(60) DEF Checkpoint, Logged, Current
<1>7. ASSUME SubmitSettlementBatch \/ SubmitToFrg PROVE SettleInv'
  <2>1. /\ UNCHANGED <<snapshot, captured, acked, wal, onChain, expired, reverted, outlived>>
        /\ mempool' = Append(mempool, Current) /\ settling.stage = "sending"
        /\ settling' = [settling EXCEPT !.stage = "sent"]
        /\ ~OnFrg => Acceptable(Current)
    BY <1>7, <1>b, ZenonT(60) DEF SubmitSettlementBatch, SubmitToFrg, Current
  <2>b. settling' = [settling EXCEPT !.stage = "sent"]
    BY <2>1, Zenon
  <2>2. IsLoop(settling') /\ settling'.stage = "sent" /\ settling'.chunks = settling.chunks
    BY ONLY <1>0, <2>b, StageMoved
  <2>a. IsSeq(mempool') /\ ToSet(mempool') = ToSet(mempool) \union {Current}
    <3>1. IsSeq(mempool)
      BY DEF SettleInv, TruthInv
    <3>. QED
      BY <2>1, <3>1, SeqAppended, ZenonT(60)
  <2>3. /\ OnFrg' = OnFrg /\ Faults' = Faults /\ Snapshots' = Snapshots /\ Current' = Current
        /\ HandedOver \subseteq HandedOver' /\ (OnFrg => Current \subseteq HandedOver')
        /\ NoneOutlived' = NoneOutlived
    BY <2>1, <2>2, <2>a, ZenonT(60)
       DEF HandedOver, Pending, OnFrg, Faults, Snapshots, Current, NoneOutlived
  <2>4. TruthInv'
    BY <1>0, <2>1, <2>2, <2>3, <2>a, ZenonT(60) DEF TruthInv, IsLoop
  <2>5. CleanInv'
    <3>1. Faults \intersect {"late", "revert"} = {} /\ NoneOutlived =>
             reverted = {} /\ (OnFrg \/ mempool = <<>>)
      BY <2>1, Zenon DEF SettleInv, CleanInv, OneSent
    <3>2. ~OnFrg => Acceptable(Current)'
      BY <2>1, <2>2, ZenonT(60) DEF Acceptable, Current
    <3>3. ~OnFrg /\ mempool = <<>> => OneSent'
      BY <2>1, <2>2, <2>3, <3>2, SeqOfOne, ZenonT(60) DEF OneSent
    <3>. QED
      BY <2>1, <2>3, <3>1, <3>3, ZenonT(60) DEF CleanInv
  <2>6. AckedInv'
    BY <2>1, <2>3, ZenonT(60) DEF SettleInv, AckedInv
  <2>. QED
    BY <2>4, <2>5, <2>6, ZenonT(60) DEF SettleInv
<1>. QED
  BY <1>1, <1>2, <1>3, <1>4, <1>5, <1>6, <1>7, ZenonT(60) DEF SettlementLoop

\* The chain mines a transaction, or a deadline passes.
LEMMA ChainSettle ==
    ASSUME SettleInv, setup' = setup, Mine \/ (\E k \in Crossing : Expire(k))
    PROVE  SettleInv'
<1>0. /\ UNCHANGED <<wal, snapshot, captured, settling, acked>>
      /\ OnFrg' = OnFrg /\ Faults' = Faults /\ Snapshots' = Snapshots /\ Current' = Current
  BY ZenonT(60) DEF Mine, Expire, logVars, OnFrg, Faults, Snapshots, Current
<1>1. AckedInv'
  BY <1>0, ZenonT(60) DEF SettleInv, AckedInv
<1>2. ASSUME Mine PROVE SettleInv'
  <2>. DEFINE K == Head(mempool)
  <2>1. /\ mempool # <<>> /\ mempool' = Tail(mempool) /\ expired' = expired /\ outlived' = outlived
        /\ onChain' = IF OnFrg \/ Acceptable(K) THEN onChain \union K ELSE onChain
        /\ reverted' = IF OnFrg \/ Acceptable(K) THEN reverted ELSE reverted \union K
    BY <1>2, ZenonT(60) DEF Mine, Sett, SettleBatchWithFees
  <2>a. IsSeq(mempool') /\ ToSet(mempool) = ToSet(mempool') \union {K}
    <3>1. IsSeq(mempool)
      BY DEF SettleInv, TruthInv
    <3>. QED
      BY <2>1, <3>1, SeqTail, ZenonT(60)
  <2>. HIDE DEF K
  <2>2. HandedOver \subseteq HandedOver' /\ reverted \subseteq reverted' /\ onChain \subseteq onChain'
    BY <1>0, <2>1, <2>a, ZenonT(60) DEF HandedOver, Pending
  <2>3. K \subseteq onChain' \union reverted'
    BY <2>1, ZenonT(60)
  <2>4. TruthInv'
    <3>1. SettledKeys(wal') \subseteq HandedOver' \union reverted'
      BY <1>0, <2>2, ZenonT(60) DEF SettleInv, TruthInv
    <3>2. settling.stage = "sent" /\ ~OnFrg =>
             Current \in ToSet(mempool') \/ Current \subseteq onChain' \union reverted'
      BY <2>2, <2>3, <2>a, ZenonT(60) DEF SettleInv, TruthInv
    <3>3. settling.stage = "sent" /\ OnFrg => Current \subseteq HandedOver'
      BY <2>2, ZenonT(60) DEF SettleInv, TruthInv
    <3>. QED
      BY <1>0, <2>a, <3>1, <3>2, <3>3, ZenonT(60) DEF SettleInv, TruthInv
  <2>5. CleanInv'
    <3>0. NoneOutlived' = NoneOutlived
      BY <1>0, <2>1, ZenonT(60) DEF NoneOutlived
    <3>. SUFFICES ASSUME Faults \intersect {"late", "revert"} = {}, NoneOutlived
                  PROVE  reverted' = {} /\ (OnFrg \/ mempool' = <<>>)
      BY <1>0, <3>0, ZenonT(60) DEF CleanInv
    <3>1. reverted = {} /\ (OnFrg \/ OneSent)
      BY <2>1, Zenon DEF SettleInv, CleanInv
    <3>2. OneSent => mempool' = <<>> /\ Acceptable(K)
      BY <2>1, SeqOfOne, ZenonT(60) DEF OneSent, K
    <3>. QED
      BY <2>1, <3>1, <3>2, ZenonT(60)
  <2>. QED
    BY <1>1, <2>4, <2>5, ZenonT(60) DEF SettleInv
<1>3. ASSUME NEW k, Expire(k) PROVE SettleInv'
  <2>1. /\ UNCHANGED <<mempool, onChain, reverted, outlived>> /\ expired' = expired \union {k}
        /\ k \in Pending => "revert" \in Faults
    BY <1>3, ZenonT(60) DEF Expire
  <2>2. HandedOver' = HandedOver /\ NoneOutlived' = NoneOutlived
    BY <1>0, <2>1, ZenonT(60) DEF HandedOver, Pending, NoneOutlived
  <2>3. TruthInv'
    BY <1>0, <2>1, <2>2, ZenonT(60) DEF SettleInv, TruthInv
  <2>4. CleanInv'
    <3>1. Faults \intersect {"late", "revert"} = {} /\ OneSent => k \notin Current
      <4>1. OneSent => Current \in ToSet(mempool)
        BY SeqOfOne, ZenonT(60) DEF OneSent
      <4>. QED
        BY <2>1, <4>1, ZenonT(60) DEF Pending
    <3>2. Faults \intersect {"late", "revert"} = {} /\ OneSent => OneSent'
      BY <1>0, <2>1, <3>1, ZenonT(60) DEF OneSent, Acceptable
    <3>. QED
      BY <1>0, <2>1, <2>2, <3>2, ZenonT(60) DEF SettleInv, CleanInv
  <2>. QED
    BY <1>1, <2>3, <2>4, ZenonT(60) DEF SettleInv
<1>. QED
  BY <1>2, <1>3, ZenonT(60)

\* The snapshot loop, which removes what the snapshot covers from the log.
LEMMA SnapshotLoopSettle ==
    ASSUME BookInv, SettleInv, setup' = setup, SnapshotLoop
    PROVE  SettleInv'
<1>1. UNCHANGED <<mempool, onChain, expired, reverted, outlived, settling, acked>>
  BY Zenon DEF SnapshotLoop, chainVars
<1>2. HandedOver' = HandedOver /\ OnFrg' = OnFrg /\ Faults' = Faults /\ Snapshots' = Snapshots
      /\ Current' = Current
  BY <1>1, ZenonT(60) DEF HandedOver, Pending, OnFrg, Faults, Snapshots, Current
<1>a. NoneOutlived' = NoneOutlived /\ OneSent' = OneSent
  BY <1>1, <1>2, ZenonT(60) DEF NoneOutlived, OneSent, Acceptable
<1>3. SettledKeys(wal') \subseteq SettledKeys(wal)
  <2>1. CASE wal' = wal
    BY <2>1, ZenonT(60)
  <2>2. CASE TruncateUpTo /\ base < captured.covers /\ wal' = SubSeq(wal, 2, Len(wal))
    <3>1. IsSeq(wal) /\ base \in Nat /\ captured.covers \in base..(base + Len(wal)) /\ Len(wal) \in Nat
      BY <2>2, SeqFacts, ZenonT(60) DEF BookInv, CapturedOK, TruncateUpTo, Rebuilds, SlotOK
    <3>2. Suffix(SubSeq(wal, 1 + 1, Len(wal)), wal, 1)
      BY <2>2, <3>1, SeqFrom
    <3>3. SettledKeys(SubSeq(wal, 1 + 1, Len(wal))) \subseteq SettledKeys(wal)
      BY <3>1, <3>2, KeysOfSuffix, ZenonT(60)
    <3>. QED
      BY ONLY <2>2, <3>3, SMTT(30)
  <2>. QED
    BY <2>1, <2>2, ZenonT(60) DEF SnapshotLoop, Capture, SaveSnapshot, SaveFails, TruncateUpTo
<1>4. TruthInv'
  BY <1>1, <1>2, <1>3, SMTT(30) DEF SettleInv, TruthInv
<1>5. CleanInv'
  BY <1>1, <1>2, <1>a, ZenonT(60) DEF SettleInv, CleanInv
<1>6. AckedInv'
  <2>1. ~Snapshots => UNCHANGED <<snapshot, captured, wal>>
    BY Zenon DEF SettleInv, AckedInv, SnapshotLoop, SaveSnapshot, SaveFails, TruncateUpTo
  <2>. QED
    BY <1>1, <1>2, <2>1, ZenonT(60) DEF SettleInv, AckedInv
<1>. QED
  BY <1>4, <1>5, <1>6 DEF SettleInv

\* A crash and a restart.
LEMMA RestartSettle ==
    ASSUME BookInv, SettleInv, setup' = setup, NEW log \in LogsAtCrash, Restart(log)
    PROVE  SettleInv'
<1>1. /\ wal' = log /\ captured' = NoSnapshot
      /\ UNCHANGED <<snapshot, mempool, onChain, expired, reverted, acked>>
      /\ settling' = Boot(Candidates(log, snapshot))
      /\ outlived' = outlived \union ToSet(mempool)
  BY DEF Restart
<1>2. HandedOver' = HandedOver /\ OnFrg' = OnFrg /\ Faults' = Faults /\ Snapshots' = Snapshots
  BY <1>1, ZenonT(60) DEF HandedOver, Pending, OnFrg, Faults, Snapshots
<1>3. IsLoop(settling') /\ settling'.stage # "sent"
  BY <1>1, ZenonT(60) DEF Boot, IsLoop
<1>4. SettledKeys(log) = SettledKeys(wal) /\ ConfirmedIn(wal) \subseteq ConfirmedIn(log)
  BY CrashLogs, ZenonT(60)
<1>5. TruthInv'
  BY <1>1, <1>2, <1>3, <1>4, ZenonT(60) DEF SettleInv, TruthInv, IsLoop
<1>6. CleanInv'
  <2>1. NoneOutlived' => NoneOutlived /\ (OnFrg \/ ToSet(mempool) = {})
    BY <1>1, <1>2, ZenonT(60) DEF NoneOutlived
  <2>2. OneSent => Current \in ToSet(mempool)
    BY SeqOfOne, ZenonT(60) DEF OneSent
  <2>. QED
    BY <1>1, <1>2, <2>1, <2>2, ZenonT(60) DEF SettleInv, CleanInv
<1>7. AckedInv'
  BY <1>1, <1>2, <1>4, ZenonT(60) DEF SettleInv, AckedInv
<1>. QED
  BY <1>5, <1>6, <1>7, ZenonT(60) DEF SettleInv

\* No trade is confirmed, settled or sent when the node starts.
LEMMA InitSettle == Init => SettleInv
<1>. SUFFICES ASSUME Init PROVE SettleInv
  OBVIOUS
<1>1. /\ wal = AcceptedLog(Accepted) /\ snapshot = NoSnapshot /\ captured = NoSnapshot
      /\ settling = Boot(<<>>) /\ mempool = <<>> /\ reverted = {} /\ acked = {} /\ setup \in Setups
  BY Zenon DEF Init, LogInit, AcceptedLog
<1>2. Accepted \in Seq(Orders)
  BY <1>1, SetupsAssumption, ZenonT(60) DEF Accepted
<1>3. SettledKeys(wal) = {}
  BY <1>1, <1>2, AcceptedLogFacts, ZenonT(60)
<1>4. IsLoop(settling) /\ settling.stage # "sent"
  BY <1>1, ZenonT(60) DEF Boot, IsLoop
<1>. QED
  BY <1>1, <1>3, <1>4, SeqOfOne, ZenonT(60) DEF SettleInv, TruthInv, CleanInv, AckedInv, IsLoop

\* Every step keeps it.
LEMMA NextSettle == BookInv /\ SettleInv /\ [Next]_vars => SettleInv'
<1>. SUFFICES ASSUME BookInv, SettleInv, [Next]_vars PROVE SettleInv'
  BY Zenon
<1>1. CASE UNCHANGED vars
  <2>1. UNCHANGED <<setup, wal, snapshot, captured, settling, chainVars, acked>>
    BY <1>1, ZenonT(60) DEF vars, logVars
  <2>. QED
    BY <2>1, QuietSettle, ZenonT(60)
<1>. SUFFICES ASSUME Next PROVE SettleInv'
  BY <1>1, ZenonT(60)
<1>0. setup' = setup
  BY DEF Next
<1>2. CASE Intake \/ SequencingLoop
  BY <1>0, <1>2, IntakeSettle, ZenonT(60)
<1>3. CASE SettlementLoop
  BY <1>0, <1>3, SettlementLoopSettle, ZenonT(60)
<1>4. CASE SnapshotLoop
  BY <1>0, <1>4, SnapshotLoopSettle, ZenonT(60)
<1>5. CASE Mine \/ (\E k \in Crossing : Expire(k))
  BY <1>0, <1>5, ChainSettle, ZenonT(60)
<1>6. CASE \E log \in LogsAtCrash : Restart(log)
  BY <1>0, <1>6, RestartSettle, ZenonT(60)
<1>. QED
  BY <1>2, <1>3, <1>4, <1>5, <1>6, ZenonT(60) DEF Next

\* The log, the loop and the chain agree on what is settled, in every reachable state.
THEOREM SettlementKept == Spec => []SettleInv
  BY InitBook, InitSettle, NextBook, NextSettle, PTL DEF Spec

\* A BatchSubmitted entry tells the truth: its trades are settled on chain, or sure
\* to be executed on FRG, unless their transaction reverted; and none reverts
\* unless one is late, outlives a crash, or a deadline passes while it waits to be mined
\* (process_ready_batches, append_batch_submitted).
THEOREM CheckpointsStayTrue == Spec => []CheckpointsTrue
<1>1. SettleInv => CheckpointsTrue
  BY Zenon DEF SettleInv, TruthInv, CleanInv, CheckpointsTrue, Checkpoints, RevertsExplained
<1>. QED
  BY <1>1, SettlementKept, PTL

-----------------------------------------------------------------------------
\* Replaying a log into a fresh node queues the confirmed trades that no entry says
\* were submitted.
LEMMA QueueReplayed ==
    ASSUME NEW w, IsSeq(w)
    PROVE  HasQueue(w, Len(w), Replay(Fresh, w))
<1>. DEFINE z == [about |-> "queue", of |-> w]
<1>0. z.about = "queue" /\ z.of = w
  BY Zenon
<1>. HIDE DEF z
<1>1. Replaying(z, 0, Fresh, Fresh)
  <2>1. IsSeq(<<>>) /\ ToSet(<<>>) = {} /\ 1..0 = {}
    BY DEF IsSeq, ToSet
  <2>2. Fresh.queue = <<>>
    BY Zenon DEF Fresh
  <2>3. HasQueue(w, 0, Fresh)
    BY <2>1, <2>2, ZenonT(60) DEF HasQueue
  <2>. QED
    BY <1>0, <2>3, FreshState, ZenonT(60) DEF Replaying, SameBook
<1>2. RF!Keeps(z, w, w, w, Len(w))
  <2>. SUFFICES ASSUME NEW i \in 1..Len(w), NEW c, NEW d, Replaying(z, i - 1, c, d)
                PROVE  Replaying(z, i, ReplayEntry(w, c, w[i]), ReplayEntry(w, d, w[i]))
    BY Zenon DEF RF!Keeps
  <2>. DEFINE e == w[i]
              n == ReplayEntry(w, c, e)
  <2>0. /\ IsState(n) /\ IsState(ReplayEntry(w, d, e)) /\ SameBook(n, ReplayEntry(w, d, e))
        /\ NothingQueued(n)
    BY ReplayEntryKeeps, ZenonT(60) DEF Replaying, NothingQueued
  <2>1. IsState(c) /\ HasQueue(w, i - 1, c)
    BY <1>0, ZenonT(60) DEF Replaying
  <2>2. i \in Nat /\ \A j : j \in 1..i <=> j \in 1..(i - 1) \/ j = i
    <3>1. Len(w) \in Nat
      BY SeqFacts, ZenonT(60)
    <3>. QED
      BY <3>1
  <2>. HIDE DEF e
  <2>3. HasQueue(w, i, n)
    <3>1. CASE e.kind = "CommitConfirmed" /\ StillUnsettled(w, e.trade)
      <4>. DEFINE k == e.trade
      <4>1. n = ConfirmLocally(TakePending(c, k), k)
        BY <3>1, ZenonT(60) DEF ReplayEntry
      <4>2. n.queue = Append(c.queue, k)
        BY <2>1, <4>1, ZenonT(60) DEF TakePending, ConfirmLocally, IsState
      <4>. HIDE DEF k, n
      <4>3. IsSeq(n.queue) /\ ToSet(n.queue) = ToSet(c.queue) \union {k}
        <5>1. IsSeq(c.queue)
          BY <2>1, ZenonT(60) DEF HasQueue
        <5>2. IsSeq(Append(c.queue, k)) /\ ToSet(Append(c.queue, k)) = ToSet(c.queue) \union {k}
          BY ONLY <5>1, SeqAppended, ZenonT(60)
        <5>. QED
          BY ONLY <4>2, <5>2, ZenonT(60)
      <4>4. k \notin SettledKeys(w) /\ w[i].kind = "CommitConfirmed" /\ w[i].trade = k
        BY <3>1, ZenonT(60) DEF StillUnsettled, k, e
      <4>. QED
        BY <2>1, <2>2, <4>3, <4>4, ZenonT(60) DEF HasQueue
    <3>2. CASE ~(e.kind = "CommitConfirmed" /\ StillUnsettled(w, e.trade))
      <4>1. n.queue = c.queue
        <5>1. CASE e.kind = "OrderAccepted"
          <6>1. n = ApplyOrder(c, e.order, e.at)
            BY <5>1, ZenonT(60) DEF ReplayEntry
          <6>. QED
            BY <2>1, <6>1, ZenonT(60) DEF ApplyOrder, IsState
        <5>2. CASE e.kind = "CommitConfirmed"
          <6>1. n = TakePending(c, e.trade)
            BY <3>2, <5>2, ZenonT(60) DEF ReplayEntry
          <6>. QED
            BY <2>1, <6>1, ZenonT(60) DEF TakePending, IsState
        <5>3. CASE e.kind # "OrderAccepted" /\ e.kind # "CommitConfirmed"
          BY <5>3, ZenonT(60) DEF ReplayEntry
        <5>. QED
          BY <5>1, <5>2, <5>3, ZenonT(60)
      <4>2. ~(w[i].kind = "CommitConfirmed" /\ w[i].trade \notin SettledKeys(w))
        BY <3>2, ZenonT(60) DEF StillUnsettled, e
      <4>. HIDE DEF n
      <4>. QED
        BY <2>1, <2>2, <4>1, <4>2, ZenonT(60) DEF HasQueue
    <3>. QED
      BY <3>1, <3>2, ZenonT(60)
  <2>. QED
    BY <1>0, <2>0, <2>3, ZenonT(60) DEF Replaying, e
<1>3. w \in Seq(ToSet(w))
  BY Zenon DEF IsSeq
<1>4. Replaying(z, Len(w), RF!Fold(w, Fresh, w), RF!Fold(w, Fresh, w))
  BY ONLY <1>1, <1>2, <1>3, RFInduction, RF!FoldsAlike, ZenonT(60)
<1>. QED
  BY <1>0, <1>4, ReplayIsFold, ZenonT(60) DEF Replaying

\* Without snapshots, a restart at any moment queues a confirmed trade again if and
\* only if it has to be: one whose confirmation was answered is settled or handed
\* over, its transaction reverted, or it is queued; one with a checkpoint is not
\* (replay_persistence_log).
THEOREM ConfirmationsStayRecoverable == Spec => []ConfirmationsRecoverable
<1>1. BookInv /\ SettleInv => ConfirmationsRecoverable
  <2>. SUFFICES ASSUME BookInv, SettleInv, ~Snapshots
                PROVE  /\ acked \subseteq HandedOver \union reverted \union ToSet(Recovered.queue)
                       /\ Checkpoints \intersect ToSet(Recovered.queue) = {}
    BY Zenon DEF ConfirmationsRecoverable, ConfirmationRecoverable, SettledNotRequeued
  <2>. DEFINE r == Replay(Fresh, wal)
  <2>1. snapshot = NoSnapshot /\ acked \subseteq ConfirmedIn(wal)
        /\ SettledKeys(wal) \subseteq HandedOver \union reverted
    BY Zenon DEF SettleInv, AckedInv, TruthInv
  <2>2. base \in Nat /\ IsSeq(wal) /\ SlotOK(base, wal, snapshot) /\ Len(wal) \in Nat
        /\ DOMAIN wal = 1..Len(wal)
    BY SeqFacts, ZenonT(60) DEF BookInv, Rebuilds
  <2>3. snapshot.covers = 0
    BY <2>1, ZenonT(60) DEF NoSnapshot
  <2>4. base = 0
    BY <2>2, <2>3 DEF SlotOK
  <2>5. Replayed(base, wal, snapshot) = r
    BY <2>1, <2>2, <2>3, <2>4, EntriesFromStart, ZenonT(60) DEF Replayed
  <2>6. Recovered.queue = r.queue
    <3>1. Rec(base, Sequencing, wal, snapshot).queue = Replayed(base, wal, snapshot).queue
      BY ONLY <2>2, RecQueue, ZenonT(60)
    <3>. QED
      BY <2>5, <3>1, RecoverIsRec, ZenonT(60) DEF Recovered
  <2>. HIDE DEF r
  <2>7. HasQueue(wal, Len(wal), r)
    BY <2>2, QueueReplayed, ZenonT(60) DEF r
  <2>8. \A k : k \in ToSet(r.queue) <=> k \notin SettledKeys(wal) /\ k \in ConfirmedIn(wal)
    BY <2>2, <2>7, ZenonT(60) DEF HasQueue, ConfirmedIn
  <2>. QED
    BY <2>1, <2>6, <2>8, ZenonT(60) DEF Checkpoints
<1>. QED
  BY <1>1, BooksKept, SettlementKept, PTL
=============================================================================
