------------------------------ MODULE RaftLogs ------------------------------
(***************************************************************************)
(* Proofs about Raft: the logs.  The ledgers of the leaders, what a step   *)
(* does to a log, and what the messages say about both.                    *)
(***************************************************************************)
EXTENDS RaftInv, WellFoundedInduction, TLAPS

-----------------------------------------------------------------------------
(***************************************************************************)
(* Least and greatest elements.                                            *)
(***************************************************************************)

\* A set of numbers that is not empty has a least element.
LEMMA LeastExists ==
    ASSUME NEW S \in SUBSET Nat, S # {}
    PROVE  \E x \in S : \A y \in S : x <= y
  <1> DEFINE R == OpToRel(<, Nat)
  <1>1. IsWellFoundedOn(R, Nat)
    BY Zenon, NatLessThanWellFounded
  <1>2. PICK x \in S : \A y \in S : ~ (<<y, x>> \in R)
    <2> HIDE DEF R
    <2>1. QED
      BY <1>1, WFMin, Zenon
  <1>3. \A y \in S : ~ (y < x)
    BY <1>2, Zenon DEF OpToRel
  <1>4. QED
    BY <1>3

\* Min(S) is the least element of S.
LEMMA MinIs ==
    ASSUME NEW S \in SUBSET Nat, S # {}
    PROVE  Min(S) \in S /\ \A y \in S : Min(S) <= y
  BY Zenon, LeastExists DEF Min

\* Max(S) is the greatest element of a bounded S.
LEMMA MaxIs ==
    ASSUME NEW S \in SUBSET Nat, S # {}, NEW b \in Nat, \A y \in S : y <= b
    PROVE  Max(S) \in S /\ \A y \in S : y <= Max(S)
  <1> DEFINE D == {b - y : y \in S}
  <1>1. D \in SUBSET Nat /\ D # {}
    <2>1. PICK z \in S : TRUE
      BY Zenon
    <2>2. b - z \in D
      BY Zenon
    <2>3. \A y \in S : b - y \in Nat
      OBVIOUS
    <2>4. QED
      BY Zenon, <2>2, <2>3
  <1>2. PICK d \in D : \A e \in D : d <= e
    <2> HIDE DEF D
    <2>1. QED
      BY Zenon, <1>1, LeastExists
  <1>3. PICK x \in S : d = b - x
    BY Zenon
  <1>4. \A y \in S : b - x <= b - y
    BY Zenon, <1>2, <1>3
  <1>5. \A y \in S : y <= x
    BY <1>4
  <1>6. QED
    BY Zenon, <1>5 DEF Max

-----------------------------------------------------------------------------
(***************************************************************************)
(* The ledgers.                                                            *)
(***************************************************************************)

\* Terms are numbers.
LEMMA TermIsNat == Term \subseteq Nat
  BY BoundsAssumption DEF Term

\* A ledger is a log from index 0.
LEMMA LedgerType ==
    ASSUME LedgerOK, NEW t \in Term
    PROVE  /\ ledger[t].last \in Nat
           /\ ledger[t].ent \in [0..ledger[t].last -> LogEntry]
           /\ \A k \in 0..ledger[t].last : ledger[t].ent[k].term \in Term
  <1>1. IsLog(ledger[t]) /\ ledger[t].first = 0
    BY Zenon DEF LedgerOK
  <1>2. /\ ledger[t].last \in Nat
        /\ ledger[t].ent \in [0..ledger[t].last -> LogEntry]
    BY Zenon, <1>1 DEF IsLog
  <1>3. \A k \in 0..ledger[t].last : ledger[t].ent[k].term \in 0..t
    BY Zenon DEF LedgerOK
  <1>4. QED
    BY <1>2, <1>3, BoundsAssumption DEF Term

\* Being the same up to n holds in either order.
LEMMA SameSym ==
    ASSUME NEW t, NEW u, NEW n, Same(t, u, n)
    PROVE  Same(u, t, n)
  BY Zenon DEF Same

\* Being the same up to n holds along a chain of terms.
LEMMA SameTrans ==
    ASSUME NEW t, NEW u, NEW v, NEW n, Same(t, u, n), Same(u, v, n)
    PROVE  Same(t, v, n)
  BY Zenon DEF Same

\* Ledgers that are the same up to n are the same up to every earlier index.
LEMMA SameDown ==
    ASSUME LedgerOK, NEW t \in Term, NEW u \in Term, NEW n \in Nat, NEW k \in 0..n,
           Same(t, u, n)
    PROVE  Same(t, u, k)
  <1>1. ledger[t].last \in Nat /\ ledger[u].last \in Nat
    BY Zenon, LedgerType
  <1>2. QED
    BY <1>1 DEF Same

\* A ledger is the same as itself as far as it goes.
LEMMA SameSelf ==
    ASSUME LedgerOK, NEW t \in Term, NEW n \in 0..ledger[t].last
    PROVE  Same(t, t, n)
  BY LedgerType DEF Same

\* An entry comes from the leader of its term, and brings all before it along.
LEMMA HasSame ==
    ASSUME LedgerOK, NEW t \in Term, NEW n, NEW u, Has(t, n, u)
    PROVE  /\ n \in Nat /\ u \in Term /\ u <= t
           /\ Same(t, u, n) /\ Has(u, n, u)
  <1>1. n \in 0..ledger[t].last /\ ledger[t].last \in Nat /\ u \in Term
    BY Zenon, LedgerType DEF Has
  <1>2. u \in 0..t /\ Same(t, u, n)
    BY Zenon, <1>1 DEF LedgerOK, Has
  <1>3. ledger[u].last \in Nat
    BY Zenon, <1>1, LedgerType
  <1>4. Has(u, n, u)
    BY <1>1, <1>2, <1>3 DEF Same, Has
  <1>5. QED
    BY <1>1, <1>2, <1>4

\* Ledgers that are the same up to n have the same terms up to n.
LEMMA SameHas ==
    ASSUME LedgerOK, NEW t \in Term, NEW u \in Term, NEW n \in Nat, NEW k \in 0..n, NEW v,
           Same(t, u, n), Has(t, k, v)
    PROVE  Has(u, k, v)
  <1>1. ledger[t].last \in Nat /\ ledger[u].last \in Nat
    BY Zenon, LedgerType
  <1>2. QED
    BY <1>1 DEF Same, Has

\* Two leaders with an entry of the same index and term agree up to it.
LEMMA Matching ==
    ASSUME LedgerOK, NEW t \in Term, NEW u \in Term, NEW n, NEW v, Has(t, n, v), Has(u, n, v)
    PROVE  Same(t, u, n)
  <1>1. Same(t, v, n) /\ Same(u, v, n)
    BY Zenon, HasSame
  <1>2. QED
    BY Zenon, <1>1, SameSym, SameTrans

\* Terms never decrease along a log.
LEMMA TermsGrow ==
    ASSUME LedgerOK, NEW t \in Term, NEW n, NEW k, NEW u, NEW v,
           Has(t, n, u), Has(t, k, v), n <= k
    PROVE  u <= v
  <1>1. n \in Nat /\ k \in Nat /\ v \in Term /\ Same(t, v, k)
    BY Zenon, HasSame
  <1>2. Has(v, n, u)
    BY <1>1, SameHas
  <1>3. QED
    BY Zenon, <1>1, <1>2, HasSame

\* An entry of term u exists only once u has a leader.
LEMMA TermIsDecided ==
    ASSUME LedgerOK, NEW t \in Term, NEW n, NEW u, Has(t, n, u), u # 0
    PROVE  Decided(u)
  <1>1. u \in Term /\ Has(u, n, u)
    BY Zenon, HasSame
  <1>2. CASE ~Decided(u)
    <2>1. ledger[u] = BootLog
      BY Zenon, <1>1, <1>2 DEF LedgerOK
    <2>2. QED
      BY <1>1, <2>1 DEF Has, BootLog, SingletonLog, MakeLog
  <1>3. QED
    BY Zenon, <1>2

-----------------------------------------------------------------------------
(***************************************************************************)
(* Logs that are stretches of a ledger.                                    *)
(***************************************************************************)

\* What a log holds, the ledger it is a stretch of has.
LEMMA EntryHas ==
    ASSUME LedgerOK, NEW t \in Term, NEW l, IsLog(l), Within(l, t), NEW k \in l.first..l.last
    PROVE  Has(t, k, l.ent[k].term)
  <1>1. ledger[t].last \in Nat
    BY Zenon, LedgerType
  <1>2. QED
    BY <1>1 DEF IsLog, Within, Has

\* The last entry of a stretch of a ledger was written in its own term.
LEMMA LastHas ==
    ASSUME LedgerOK, NEW t \in Term, NEW l, IsLog(l), Within(l, t)
    PROVE  /\ l.last \in Nat /\ lastLogTerm(l) \in Term /\ lastLogTerm(l) <= t
           /\ Has(t, l.last, lastLogTerm(l))
           /\ Same(t, lastLogTerm(l), l.last)
  <1>1. l.last \in Nat /\ l.last \in l.first..l.last
    BY DEF IsLog
  <1>2. Has(t, l.last, lastLogTerm(l))
    BY Zenon, <1>1, EntryHas DEF lastLogTerm
  <1>3. QED
    BY Zenon, <1>1, <1>2, HasSame

\* A stretch of a ledger is one of every ledger that is the same so far.
LEMMA WithinMoves ==
    ASSUME LedgerOK, NEW t \in Term, NEW u \in Term, NEW l, IsLog(l), Within(l, t),
           Same(t, u, l.last)
    PROVE  Within(l, u)
  BY DEF IsLog, Within, Same

\* A stretch of a ledger is one of the ledger of its last entry's term.
LEMMA WithinLast ==
    ASSUME LedgerOK, NEW t \in Term, NEW l, IsLog(l), Within(l, t)
    PROVE  Within(l, lastLogTerm(l))
  BY Zenon, LastHas, WithinMoves

\* trimLogL keeps the end of the log.
LEMMA TrimOK ==
    ASSUME NEW l, IsLog(l), NEW k \in l.first..l.last
    PROVE  /\ IsLog(trimLogL(l, k))
           /\ trimLogL(l, k).first = k /\ trimLogL(l, k).last = l.last
           /\ trimLogL(l, k).ent[k] = l.ent[k]
           /\ lastLogTerm(trimLogL(l, k)) = lastLogTerm(l)
           /\ \A t \in Term : Within(l, t) => Within(trimLogL(l, k), t)
  <1>1. /\ l.first \in Nat /\ l.last \in Nat /\ k \in Nat
        /\ l.ent \in [l.first..l.last -> LogEntry]
    BY DEF IsLog
  <1> DEFINE x == trimLogL(l, k)
  <1>2. /\ x = MakeLog(x.first, x.last, x.ent) /\ x.first = k /\ x.last = l.last
        /\ x.ent = [n \in k..l.last |-> l.ent[n]]
    BY Zenon DEF trimLogL, MakeLog
  <1> HIDE DEF x
  <1>3. \A n \in k..l.last : x.ent[n] = l.ent[n] /\ l.ent[n] \in LogEntry
    BY <1>1, <1>2
  <1>4. IsLog(x)
    BY <1>1, <1>2, <1>3 DEF IsLog
  <1>5. x.ent[k] = l.ent[k] /\ lastLogTerm(x) = lastLogTerm(l)
    BY <1>1, <1>2, <1>3 DEF lastLogTerm
  <1>6. \A t \in Term : Within(l, t) => Within(x, t)
    BY <1>1, <1>2, <1>3 DEF Within
  <1>7. QED
    BY Zenon, <1>2, <1>4, <1>5, <1>6 DEF x

\* The log that InstallSnapshot starts at the snapshot is a stretch of the
\* ledger.
LEMMA SingletonOK ==
    ASSUME LedgerOK, NEW t \in Term, NEW n, NEW u, Has(t, n, u)
    PROVE  /\ IsLog(SingletonLog(n, u))
           /\ SingletonLog(n, u).first = n /\ SingletonLog(n, u).last = n
           /\ lastLogTerm(SingletonLog(n, u)) = u
           /\ Within(SingletonLog(n, u), t)
  <1>1. n \in Nat /\ u \in Nat /\ n <= ledger[t].last /\ ledger[t].ent[n].term = u
    <2>1. n \in Nat /\ u \in Term
      BY Zenon, HasSame
    <2>2. QED
      BY <2>1, TermIsNat, LedgerType DEF Has
  <1> DEFINE x == SingletonLog(n, u)
             e == [term |-> u, cmd |-> NA]
  <1>2. /\ x = MakeLog(x.first, x.last, x.ent) /\ x.first = n /\ x.last = n
        /\ x.ent = [k \in n..n |-> e]
    BY Zenon DEF SingletonLog, MakeLog
  <1>3. e \in LogEntry /\ e.term = u
    BY Zenon, <1>1 DEF LogEntry
  <1> HIDE DEF x, e
  <1>4. n..n = {n} /\ x.ent[n] = e
    BY <1>1, <1>2
  <1>5. IsLog(x)
    BY <1>1, <1>2, <1>3 DEF IsLog
  <1>6. lastLogTerm(x) = u /\ Within(x, t)
    BY <1>1, <1>2, <1>3, <1>4 DEF lastLogTerm, Within
  <1>7. QED
    BY Zenon, <1>2, <1>5, <1>6 DEF x

-----------------------------------------------------------------------------
(***************************************************************************)
(* What the handlers of a leader's calls do to a log.                      *)
(***************************************************************************)

\* What l shares with the leader of t is also in x.
Advance(l, x, t) ==
    \A n \in Nat : n <= l.last /\ Same(lastLogTerm(l), t, n) =>
        n <= x.last /\ Same(lastLogTerm(x), t, n)

\* The entry before the new ones matches, so the log agrees up to it.
LEMMA PrevMatches ==
    ASSUME LedgerOK, NEW l, IsLog(l), lastLogTerm(l) \in Term, Within(l, lastLogTerm(l)),
           NEW m, m.term \in Term, AppendOK(m), ~PrevLogConflict(l, m)
    PROVE  /\ m.prevLogIndex \in l.first..l.last
           /\ Same(lastLogTerm(l), m.term, m.prevLogIndex)
  <1>1. /\ l.first \in Nat /\ l.last \in Nat /\ m.prevLogIndex \in Nat
        /\ m.prevLogIndex <= m.lastIndex /\ m.lastIndex \in Nat
        /\ m.lastIndex <= ledger[m.term].last /\ ledger[m.term].last \in Nat
        /\ m.prevLogTerm = ledger[m.term].ent[m.prevLogIndex].term
    BY Zenon, LedgerType DEF IsLog, AppendOK
  <1>2. /\ m.prevLogIndex \in l.first..l.last
        /\ l.ent[m.prevLogIndex].term = m.prevLogTerm
    BY <1>1 DEF PrevLogConflict
  <1>3. Has(m.term, m.prevLogIndex, m.prevLogTerm)
    BY <1>1 DEF Has
  <1>4. Has(lastLogTerm(l), m.prevLogIndex, m.prevLogTerm)
    BY Zenon, <1>2, EntryHas
  <1>5. QED
    BY Zenon, <1>2, <1>3, <1>4, Matching

\* So it does up to an entry of the message that is not new.
LEMMA OldMatches ==
    ASSUME LedgerOK, NEW l, IsLog(l), lastLogTerm(l) \in Term, Within(l, lastLogTerm(l)),
           NEW m, m.term \in Term, AppendOK(m), ~PrevLogConflict(l, m),
           NEW k \in m.prevLogIndex..m.lastIndex, k \notin NewEntries(l, m)
    PROVE  k <= l.last /\ Same(lastLogTerm(l), m.term, k)
  <1>1. /\ l.first \in Nat /\ l.last \in Nat /\ m.prevLogIndex \in Nat /\ m.lastIndex \in Nat
        /\ m.lastIndex <= ledger[m.term].last /\ ledger[m.term].last \in Nat
        /\ m.prevLogIndex \in l.first..l.last
        /\ Same(lastLogTerm(l), m.term, m.prevLogIndex)
    BY Zenon, LedgerType, PrevMatches DEF IsLog, AppendOK
  <1>2. CASE k = m.prevLogIndex
    BY <1>1, <1>2
  <1>3. CASE k # m.prevLogIndex
    <2>1. k \in (m.prevLogIndex + 1)..m.lastIndex
      BY <1>1, <1>3
    <2>2. k \in l.first..l.last /\ m.entries[k].term = l.ent[k].term
      BY <1>1, <2>1 DEF NewEntries
    <2>3. Has(m.term, k, l.ent[k].term)
      BY <1>1, <2>1, <2>2 DEF AppendOK, Has
    <2>4. Has(lastLogTerm(l), k, l.ent[k].term)
      BY Zenon, <2>2, EntryHas
    <2>5. QED
      BY <1>1, <2>2, <2>3, <2>4, Matching
  <1>4. QED
    BY Zenon, <1>2, <1>3

\* AppendNewEntries: the log agrees with the message up to its last entry, is
\* cut only where it disagrees, and stays a stretch of a ledger.
LEMMA AppendNewOK ==
    ASSUME LedgerOK, NEW l, IsLog(l), lastLogTerm(l) \in Term, Within(l, lastLogTerm(l)),
           NEW m, m.term \in Term, AppendOK(m), ~PrevLogConflict(l, m)
    PROVE  LET x == AppendNewEntries(l, m)
           IN  /\ IsLog(x) /\ x.first = l.first
               /\ lastLogTerm(x) \in Term /\ Within(x, lastLogTerm(x))
               /\ x = l \/ lastLogTerm(x) <= m.term
               /\ m.lastIndex <= x.last /\ Same(lastLogTerm(x), m.term, m.lastIndex)
               /\ x.ent[x.first].term = l.ent[l.first].term
               /\ x = l \/ m.lastIndex = x.last
               /\ Advance(l, x, m.term)
  <1> DEFINE New == NewEntries(l, m)
             x   == AppendNewEntries(l, m)
             T   == lastLogTerm(l)
  <1>1. /\ l.first \in Nat /\ l.last \in Nat /\ m.prevLogIndex \in Nat /\ m.lastIndex \in Nat
        /\ m.prevLogIndex <= m.lastIndex
        /\ m.lastIndex <= ledger[m.term].last /\ ledger[m.term].last \in Nat
        /\ m.prevLogIndex \in l.first..l.last
        /\ l.ent \in [l.first..l.last -> LogEntry]
        /\ ledger[m.term].ent \in [0..ledger[m.term].last -> LogEntry]
    BY Zenon, LedgerType, PrevMatches DEF IsLog, AppendOK
  <1>2. CASE New = {}
    <2>1. x = l
      BY Zenon, <1>2 DEF AppendNewEntries
    <2>2. m.lastIndex <= l.last /\ Same(T, m.term, m.lastIndex)
      <3>1. m.lastIndex \in m.prevLogIndex..m.lastIndex /\ m.lastIndex \notin NewEntries(l, m)
        BY <1>1, <1>2
      <3>2. QED
        BY Zenon, <3>1, OldMatches
    <2>3. Advance(l, l, m.term)
      BY Zenon DEF Advance
    <2>4. QED
      BY Zenon, <2>1, <2>2, <2>3
  <1>3. CASE New # {}
    <2> DEFINE index == Min(New)
    <2>0. New \in SUBSET Nat
      BY <1>1 DEF NewEntries
    <2>1. index \in New /\ \A k \in New : index <= k
      BY Zenon, <1>3, <2>0, MinIs
    <2>2. index \in (m.prevLogIndex + 1)..m.lastIndex
      BY <2>1, Zenon DEF NewEntries
    <2>3. /\ x = MakeLog(x.first, x.last, x.ent)
          /\ x.first = l.first /\ x.last = m.lastIndex
          /\ x.ent = [k \in l.first..m.lastIndex |->
                        IF k < index THEN l.ent[k] ELSE m.entries[k]]
      BY <1>3, Zenon DEF AppendNewEntries, MakeLog
    <2> HIDE DEF index, New, x
    <2>4. index - 1 <= l.last /\ Same(T, m.term, index - 1)
      <3>1. index - 1 \in m.prevLogIndex..m.lastIndex /\ index - 1 \notin New
        BY <1>1, <2>0, <2>1, <2>2
      <3>2. QED
        BY Zenon, <3>1, OldMatches DEF New
    <2>5. \A k \in l.first..m.lastIndex :
             /\ x.ent[k] \in LogEntry
             /\ x.ent[k].term = ledger[m.term].ent[k].term
             /\ k > l.first => x.ent[k] = ledger[m.term].ent[k]
      <3>1. ASSUME NEW k \in l.first..m.lastIndex, k < index
            PROVE  /\ x.ent[k] \in LogEntry
                   /\ x.ent[k].term = ledger[m.term].ent[k].term
                   /\ k > l.first => x.ent[k] = ledger[m.term].ent[k]
        <4>1. k \in 0..(index - 1) /\ k \in l.first..l.last /\ x.ent[k] = l.ent[k]
          BY <1>1, <2>2, <2>3, <2>4, <3>1
        <4>2. ledger[T].ent[k] = ledger[m.term].ent[k]
          BY Zenon, <4>1, <2>4 DEF Same
        <4>3. l.ent[k].term = ledger[T].ent[k].term /\ (k > l.first => l.ent[k] = ledger[T].ent[k])
          BY Zenon, <4>1 DEF Within
        <4>4. QED
          BY Zenon, <1>1, <4>1, <4>2, <4>3
      <3>2. ASSUME NEW k \in l.first..m.lastIndex, ~(k < index)
            PROVE  /\ x.ent[k] \in LogEntry
                   /\ x.ent[k] = ledger[m.term].ent[k]
        <4>1. k \in (m.prevLogIndex + 1)..m.lastIndex /\ x.ent[k] = m.entries[k]
          BY <1>1, <2>2, <2>3, <3>2, SMTT(30)
        <4>2. m.entries[k] = ledger[m.term].ent[k] /\ k \in 0..ledger[m.term].last
          BY <1>1, <4>1 DEF AppendOK
        <4>3. QED
          BY Zenon, <1>1, <4>1, <4>2
      <3>3. QED
        BY Zenon, <3>1, <3>2
    <2>6. IsLog(x)
      <3>1. x.ent \in [l.first..m.lastIndex -> LogEntry]
        BY Zenon, <2>3, <2>5
      <3>2. l.first <= m.lastIndex
        BY <1>1, SMTT(30)
      <3>3. QED
        BY Zenon, <1>1, <2>3, <3>1, <3>2 DEF IsLog
    <2>7. Within(x, m.term)
      BY <1>1, <2>3, <2>5, Zenon DEF Within
    <2>8. /\ lastLogTerm(x) \in Term /\ lastLogTerm(x) <= m.term
          /\ Same(lastLogTerm(x), m.term, m.lastIndex) /\ Within(x, lastLogTerm(x))
      BY Zenon, <2>3, <2>6, <2>7, LastHas, SameSym, WithinLast
    <2>9. ASSUME NEW n \in Nat, n <= l.last, Same(T, m.term, n)
          PROVE  n <= m.lastIndex
      <3>1. CASE index <= n
        <4>1. index \in l.first..l.last /\ index \in 0..n
          BY <1>1, <2>2, <2>9, <3>1
        <4>2. l.ent[index].term = ledger[m.term].ent[index].term
          BY Zenon, <4>1, <2>9 DEF Within, Same
        <4>3. m.entries[index].term = l.ent[index].term
          BY Zenon, <4>2, <2>2 DEF AppendOK
        <4>4. QED
          BY <1>1, <2>1, <4>1, <4>3 DEF New, NewEntries
      <3>2. QED
        BY <1>1, <2>2, <2>9, <3>1
    <2>10. Advance(l, x, m.term)
      <3>1. ASSUME NEW n \in Nat, n <= m.lastIndex
            PROVE  Same(lastLogTerm(x), m.term, n)
        BY <1>1, <2>8, <3>1, SameDown
      <3>2. QED
        BY Zenon, <2>3, <2>9, <3>1 DEF Advance
    <2>11. x.ent[x.first].term = l.ent[l.first].term
      BY <1>1, <2>2, <2>3
    <2>12. m.lastIndex <= x.last /\ x.last = m.lastIndex /\ x.first = l.first
      BY <1>1, <2>3
    <2>13. QED
      BY Zenon, <2>6, <2>8, <2>10, <2>11, <2>12 DEF x
  <1>4. QED
    BY Zenon, <1>2, <1>3

\* InstallSnapshot on a log that the snapshot is ahead of.
InstalledLog(l, s) ==
    IF HoldsSnapshot(l, s) THEN trimLogL(l, s.index) ELSE SingletonLog(s.index, s.term)

\* The log that InstallSnapshot leaves.
LEMMA InstalledOK ==
    ASSUME LedgerOK, NEW l, IsLog(l), lastLogTerm(l) \in Term, Within(l, lastLogTerm(l)),
           NEW m, m.term \in Term, InstallOK(m), m.snapshot.index > l.first
    PROVE  LET x == InstalledLog(l, m.snapshot)
           IN  /\ IsLog(x) /\ x.first = m.snapshot.index
               /\ lastLogTerm(x) \in Term /\ Within(x, lastLogTerm(x))
               /\ \/ x.last = l.last /\ lastLogTerm(x) = lastLogTerm(l)
                  \/ /\ x.first = x.last /\ lastLogTerm(x) = m.snapshot.term
                     /\ lastLogTerm(x) <= m.term
               /\ x.ent[x.first].term = m.snapshot.term
               /\ Same(lastLogTerm(x), m.term, m.snapshot.index)
               /\ Advance(l, x, m.term)
  <1> DEFINE s == m.snapshot
             T == lastLogTerm(l)
             x == InstalledLog(l, s)
  <1>1. /\ l.first \in Nat /\ l.last \in Nat /\ s.index \in Nat
        /\ Has(m.term, s.index, s.term)
        /\ s.index \in l.first..l.last \/ s.index > l.last
    BY DEF IsLog, InstallOK, SnapshotType
  <1>2. s.term \in Term /\ s.term <= m.term /\ Same(m.term, s.term, s.index)
        /\ Has(s.term, s.index, s.term)
    BY Zenon, <1>1, HasSame
  <1>3. CASE HoldsSnapshot(l, s)
    <2>1. x = trimLogL(l, s.index)
      BY Zenon, <1>3 DEF InstalledLog
    <2>2. s.index \in l.first..l.last /\ l.ent[s.index].term = s.term
      BY <1>1, <1>3 DEF HoldsSnapshot
    <2>3. Has(T, s.index, s.term)
      BY Zenon, <2>2, EntryHas
    <2>4. Same(T, m.term, s.index)
      BY Zenon, <1>1, <2>3, Matching
    <2>5. /\ IsLog(x) /\ x.first = s.index /\ x.last = l.last /\ lastLogTerm(x) = T
          /\ x.ent[s.index] = l.ent[s.index] /\ Within(x, T)
      BY <2>1, <2>2, TrimOK
    <2>6. Advance(l, x, m.term)
      BY Zenon, <2>5 DEF Advance
    <2>7. QED
      BY Zenon, <2>2, <2>4, <2>5, <2>6
  <1>4. CASE ~HoldsSnapshot(l, s)
    <2>1. x = SingletonLog(s.index, s.term)
      BY Zenon, <1>4 DEF InstalledLog
    <2>2. /\ IsLog(x) /\ x.first = s.index /\ x.last = s.index /\ lastLogTerm(x) = s.term
          /\ Within(x, s.term)
      BY <1>2, <2>1, SingletonOK
    <2>3. x.ent[x.first].term = s.term
      BY Zenon, <2>2 DEF lastLogTerm
    <2>4. ASSUME NEW n \in Nat, n <= l.last, Same(T, m.term, n)
          PROVE  n <= s.index
      <3>1. CASE s.index < n
        <4>1. s.index \in l.first..l.last /\ s.index \in 0..n
          BY <1>1, <2>4, <3>1
        <4>2. Has(T, s.index, s.term)
          BY <1>1, <2>4, <4>1, SameSym, SameHas
        <4>3. Has(T, s.index, l.ent[s.index].term)
          BY Zenon, <4>1, EntryHas
        <4>4. l.ent[s.index].term = s.term
          BY Zenon, <4>2, <4>3 DEF Has
        <4>5. QED
          BY <1>1, <1>4, <4>1, <4>4 DEF HoldsSnapshot
      <3>2. QED
        BY <1>1, <2>4, <3>1
    <2>5. Same(s.term, m.term, s.index)
      BY Zenon, <1>2, SameSym
    <2>6. ASSUME NEW n \in Nat, n <= s.index
          PROVE  Same(s.term, m.term, n)
      BY <1>1, <1>2, <2>5, <2>6, SameDown
    <2>7. Advance(l, x, m.term)
      BY Zenon, <2>2, <2>4, <2>6 DEF Advance
    <2>8. QED
      BY Zenon, <1>2, <2>2, <2>3, <2>5, <2>7
  <1>5. QED
    BY Zenon, <1>3, <1>4

-----------------------------------------------------------------------------
(***************************************************************************)
(* The kinds of step.                                                      *)
(***************************************************************************)

\* What a peer has on disk stays, or is what it has in memory.
Saves ==
    \A j \in Server :
        \/ disk'[j].log = disk[j].log /\ disk'[j].data = disk[j].data
        \/ disk'[j].log = log[j] /\ disk'[j].data = snapshot[j].data

\* A step that makes no leader and leaves the logs in memory alone.
Still ==
    /\ UNCHANGED <<log, snapshot, ledger, elections>>
    /\ Saves
    /\ msgs \subseteq msgs' /\ commits \subseteq commits'
    /\ \A j \in Server :
          /\ currentTerm[j] <= currentTerm'[j]
          /\ \/ role'[j] = "Follower"
             \/ role'[j] = "Candidate" /\ becomeCandidateL(j)
             \/ role'[j] = role[j] /\ currentTerm'[j] = currentTerm[j]

\* becomeLeaderL with the vote that makes a majority.
Wins(i) ==
    /\ role[i] = "Candidate" /\ becomeLeaderL(i)
    /\ UNCHANGED <<currentTerm, votedFor, log, snapshot, disk, leaderId, commitIndex,
                   lastApplied, applyVars, msgs, commits, restarts>>

\* persistL saves the log that is in memory.
LEMMA PersistSaves ==
    ASSUME ElectionTypeOK, NEW i \in Server, UNCHANGED disk \/ persistL(i, log[i], snapshot[i].data)
    PROVE  Saves
  BY DEF ElectionTypeOK, persistL, Saves

\* becomeFollowerL touches no log.
LEMMA FollowIsStill ==
    ASSUME ElectionTypeOK, NEW i \in Server, NEW term \in Term, term > currentTerm[i],
           becomeFollowerL(i, term), UNCHANGED <<log, snapshot, ledger, elections, msgs, commits>>
    PROVE  Still
  <1>1. Saves
    BY Zenon, PersistSaves DEF becomeFollowerL
  <1>2. \A j \in Server :
          /\ currentTerm[j] <= currentTerm'[j]
          /\ role'[j] # "Follower" => role'[j] = role[j] /\ currentTerm'[j] = currentTerm[j]
    BY BoundsAssumption DEF becomeFollowerL, ElectionTypeOK, Term
  <1>3. QED
    BY Zenon, <1>1, <1>2 DEF Still

\* A step that leaves terms, roles and disks alone as well.
LEMMA IdleIsStill ==
    ASSUME ElectionTypeOK, UNCHANGED <<log, snapshot, ledger, elections, currentTerm, disk>>,
           \A j \in Server : role'[j] = role[j],
           msgs \subseteq msgs', commits \subseteq commits'
    PROVE  Still
  <1>1. Saves
    BY Zenon DEF Saves
  <1>2. \A j \in Server : currentTerm[j] <= currentTerm'[j]
    BY BoundsAssumption DEF ElectionTypeOK, Term
  <1>3. QED
    BY Zenon, <1>1, <1>2 DEF Still

\* A campaign, the apply goroutine and a send touch no log.
LEMMA StepIsStill ==
    ASSUME ElectionTypeOK, NEW i \in Server,
           \/ becomeCandidateL(i) \/ apply(i) \/ receiveApplyMsg(i)
           \/ \E j \in Server : append(i, j)
    PROVE  Still
  <1>1. CASE becomeCandidateL(i)
    <2>1. Saves
      BY Zenon, <1>1, PersistSaves DEF becomeCandidateL
    <2>2. \A j \in Server :
            /\ currentTerm[j] <= currentTerm'[j]
            /\ \/ role'[j] = "Candidate" /\ becomeCandidateL(j)
               \/ role'[j] = role[j] /\ currentTerm'[j] = currentTerm[j]
      <3>1. \A j \in Server : currentTerm[j] \in Nat
        BY Zenon, TermIsNat DEF ElectionTypeOK
      <3>2. /\ role' = [role EXCEPT ![i] = "Candidate"]
            /\ currentTerm' = [currentTerm EXCEPT ![i] = @ + 1]
        BY Zenon, <1>1 DEF becomeCandidateL
      <3>3. QED
        BY <1>1, <3>1, <3>2 DEF ElectionTypeOK
    <2>3. QED
      BY <1>1, <2>1, <2>2, Zenon DEF becomeCandidateL, Still, Send, history
  <1>2. CASE apply(i)
    <2>1. UNCHANGED <<persistent, disk, role, msgs, history>>
      BY <1>2, Zenon DEF apply
    <2>2. QED
      BY Zenon, <2>1, IdleIsStill DEF persistent, history
  <1>3. CASE receiveApplyMsg(i)
    <2>1. UNCHANGED <<persistent, disk, role, msgs, history>>
      BY <1>3, Zenon DEF receiveApplyMsg
    <2>2. QED
      BY Zenon, <2>1, IdleIsStill DEF persistent, history
  <1>4. CASE \E j \in Server : append(i, j)
    <2>1. UNCHANGED <<persistent, disk, role, history>> /\ msgs \subseteq msgs'
      BY Zenon, <1>4 DEF append, Send
    <2>2. QED
      BY Zenon, <2>1, IdleIsStill DEF persistent, history
  <1>5. QED
    BY Zenon, <1>1, <1>2, <1>3, <1>4

\* A vote, a stale call and a reply to a leader touch no log.
LEMMA ReceiveIsStill ==
    ASSUME ElectionTypeOK, NEW m \in msgs, NEW i \in Server, i = m.dst,
           \/ RequestVote(i, m) \/ AppendEntriesStale(i, m) \/ InstallSnapshotStale(i, m)
           \/ processAppendReplyL(i, m) \/ processInstallReplyL(i, m)
    PROVE  Still
  <1>0. m.term \in Term
    BY Zenon DEF ElectionTypeOK
  <1>1. CASE RequestVote(i, m)
    <2>1. Saves
      BY Zenon, <1>1, PersistSaves DEF RequestVote
    <2>2. \A j \in Server :
            /\ currentTerm[j] <= currentTerm'[j]
            /\ role'[j] # "Follower" => role'[j] = role[j] /\ currentTerm'[j] = currentTerm[j]
      <3>1. m.term \in Nat /\ \A j \in Server : currentTerm[j] \in Nat
        BY Zenon, <1>0, TermIsNat DEF ElectionTypeOK
      <3>2. \/ /\ m.term > currentTerm[i] /\ role' = [role EXCEPT ![i] = "Follower"]
               /\ currentTerm' = [currentTerm EXCEPT ![i] = m.term]
            \/ /\ role' = [role EXCEPT ![i] = @]
               /\ currentTerm' = [currentTerm EXCEPT ![i] = currentTerm[i]]
        BY Zenon, <1>1 DEF RequestVote
      <3>3. QED
        BY <3>1, <3>2 DEF ElectionTypeOK
    <2>3. UNCHANGED <<log, snapshot, history>> /\ msgs \subseteq msgs'
      BY Zenon, <1>1 DEF RequestVote, Send
    <2>4. QED
      BY Zenon, <2>1, <2>2, <2>3 DEF Still, history
  <1>2. CASE AppendEntriesStale(i, m) \/ InstallSnapshotStale(i, m)
    <2>1. UNCHANGED <<persistent, disk, role, history>> /\ msgs \subseteq msgs'
      BY Zenon, <1>2 DEF AppendEntriesStale, InstallSnapshotStale, Send
    <2>2. QED
      BY Zenon, <2>1, IdleIsStill DEF persistent, history
  <1>3. CASE processAppendReplyL(i, m)
    <2>1. UNCHANGED <<log, snapshot, msgs, elections, ledger>>
      BY Zenon, <1>3 DEF processAppendReplyL
    <2>2. CASE m.success
      <3>1. UNCHANGED <<currentTerm, role, disk>> /\ commits \subseteq commits'
        BY Zenon, <1>3, <2>2 DEF processAppendReplyL, setCommitIndexL
      <3>2. QED
        BY Zenon, <2>1, <3>1, IdleIsStill
    <2>3. CASE ~m.success /\ m.term > currentTerm[i]
      <3>1. becomeFollowerL(i, m.term) /\ UNCHANGED commits
        BY <1>3, <2>3, BoundsAssumption DEF processAppendReplyL, ElectionTypeOK, Term
      <3>2. QED
        BY Zenon, <1>0, <2>1, <2>3, <3>1, FollowIsStill
    <2>4. CASE ~m.success /\ ~(m.term > currentTerm[i])
      <3>1. UNCHANGED <<currentTerm, role, disk, commits>>
        BY Zenon, <1>3, <2>4 DEF processAppendReplyL
      <3>2. QED
        BY Zenon, <2>1, <3>1, IdleIsStill
    <2>5. QED
      BY Zenon, <2>2, <2>3, <2>4
  <1>4. CASE processInstallReplyL(i, m)
    <2>1. UNCHANGED <<log, snapshot, msgs, elections, ledger, commits>>
      BY Zenon, <1>4 DEF processInstallReplyL, history
    <2>2. CASE m.term > currentTerm[i]
      BY Zenon, <1>0, <1>4, <2>1, <2>2, FollowIsStill DEF processInstallReplyL
    <2>3. CASE ~(m.term > currentTerm[i])
      <3>1. UNCHANGED <<currentTerm, role, disk>>
        BY Zenon, <1>4, <2>3 DEF processInstallReplyL
      <3>2. QED
        BY Zenon, <2>1, <3>1, IdleIsStill
    <2>4. QED
      BY Zenon, <2>2, <2>3
  <1>5. QED
    BY Zenon, <1>1, <1>2, <1>3, <1>4

\* processRequestReplyL wins the election or is still.
LEMMA RequestReplyKinds ==
    ASSUME ElectionTypeOK, NEW m \in msgs, NEW i \in Server, processRequestReplyL(i, m)
    PROVE  Still \/ Wins(i)
  <1>0. m.term \in Term
    BY Zenon DEF ElectionTypeOK
  <1>1. UNCHANGED <<log, snapshot, msgs, commits, commitIndex, lastApplied, applyVars>>
    BY Zenon DEF processRequestReplyL
  <1>2. CASE ~m.granted
    <2>1. m.term > currentTerm[i] /\ becomeFollowerL(i, m.term) /\ UNCHANGED <<elections, ledger>>
      BY Zenon, <1>2 DEF processRequestReplyL
    <2>2. QED
      BY Zenon, <1>0, <1>1, <2>1, FollowIsStill
  <1>3. CASE m.granted
    <2>1. CASE becomeLeaderL(i)
      BY Zenon, <1>3, <2>1 DEF processRequestReplyL, Wins
    <2>2. CASE ~becomeLeaderL(i)
      <3>1. UNCHANGED <<role, elections, ledger, currentTerm, disk>>
        BY Zenon, <1>3, <2>2 DEF processRequestReplyL
      <3>2. QED
        BY Zenon, <1>1, <3>1, IdleIsStill
    <2>3. QED
      BY Zenon, <2>1, <2>2
  <1>4. QED
    BY Zenon, <1>2, <1>3

-----------------------------------------------------------------------------
(***************************************************************************)
(* The ledgers grow.                                                       *)
(***************************************************************************)

\* A ledger gets entries at its end, of its own term once it has a leader.
Extends ==
    \A t \in Term :
        /\ ledger'[t].last \in Nat /\ ledger[t].last <= ledger'[t].last
        /\ \A k \in 0..ledger[t].last : ledger'[t].ent[k] = ledger[t].ent[k]
        /\ Decided(t) => \A k \in 0..ledger'[t].last :
                            k > ledger[t].last => ledger'[t].ent[k].term = t

\* Ledgers that do not change lose nothing.
LEMMA SameLedgerExtends ==
    ASSUME LedgerOK, ledger' = ledger
    PROVE  Extends
  BY LedgerType DEF Extends

\* What a ledger has, it has when ledgers grow.
LEMMA HasGrows ==
    ASSUME LedgerOK, Extends, NEW t \in Term, NEW n, NEW u, Has(t, n, u)
    PROVE  Has(t, n, u)'
  <1>1. ledger[t].last \in Nat
    BY Zenon, LedgerType
  <1>2. QED
    BY <1>1 DEF Extends, Has

\* Ledgers that are the same up to n stay so when they grow.
LEMMA SameGrows ==
    ASSUME LedgerOK, Extends, NEW t \in Term, NEW u \in Term, NEW n \in Nat, Same(t, u, n)
    PROVE  Same(t, u, n)'
  <1>1. ledger[t].last \in Nat /\ ledger[u].last \in Nat
    BY Zenon, LedgerType
  <1>2. n <= ledger'[t].last /\ n <= ledger'[u].last
    BY <1>1 DEF Extends, Same
  <1>3. \A k \in 0..n : ledger'[t].ent[k] = ledger[t].ent[k] /\ ledger'[u].ent[k] = ledger[u].ent[k]
    BY <1>1 DEF Extends, Same
  <1>4. QED
    BY Zenon, <1>2, <1>3 DEF Same

\* A stretch of a ledger stays one when ledgers grow.
LEMMA WithinGrows ==
    ASSUME LedgerOK, Extends, NEW t \in Term, NEW l, IsLog(l), Within(l, t)
    PROVE  Within(l, t)'
  <1>1. ledger[t].last \in Nat /\ l.first \in Nat /\ l.last \in Nat
    BY Zenon, LedgerType DEF IsLog
  <1>2. l.last <= ledger'[t].last
    BY <1>1 DEF Extends, Within
  <1>3. \A k \in l.first..l.last : ledger'[t].ent[k] = ledger[t].ent[k]
    BY <1>1 DEF Extends, Within
  <1>4. QED
    BY Zenon, <1>2, <1>3 DEF Within

\* The winner of an election is the first of its term.
LEMMA WinsFirst ==
    ASSUME ElectionInv, ElectionInv', NEW i \in Server, Wins(i)
    PROVE  /\ ~Decided(currentTerm[i])
           /\ elections' = elections \cup
                 {[term |-> currentTerm[i], leader |-> i, voters |-> votes'[i]]}
           /\ role' = [role EXCEPT ![i] = "Leader"]
           /\ UNCHANGED <<currentTerm, log, disk, msgs>>
  <1> DEFINE won == [term |-> currentTerm[i], leader |-> i, voters |-> votes'[i]]
  <1>1. /\ elections' = elections \cup {won}
        /\ role' = [role EXCEPT ![i] = "Leader"]
        /\ UNCHANGED <<currentTerm, log, disk, msgs>> /\ role[i] = "Candidate"
    BY Zenon DEF Wins, becomeLeaderL
  <1>2. ElectionSafety'
    BY Zenon DEF ElectionInv
  <1>3. ASSUME NEW e \in elections, e.term = currentTerm[i]
        PROVE  FALSE
    <2>1. e = won
      BY Zenon, <1>1, <1>2, <1>3 DEF ElectionSafety
    <2>2. i \in e.voters /\ currentTerm[i] = e.term
      BY Zenon, <2>1 DEF ElectionInv, VotersAreBound
    <2>3. QED
      BY Zenon, <1>1, <2>2 DEF ElectionInv, VotersAreBound
  <1>4. QED
    BY Zenon, <1>1, <1>3 DEF Decided

\* The log after Start.
LEMMA ExtendOK ==
    ASSUME NEW l, IsLog(l), NEW e \in LogEntry
    PROVE  /\ IsLog(AppendEntry(l, e))
           /\ AppendEntry(l, e).first = l.first
           /\ AppendEntry(l, e).last = l.last + 1
           /\ AppendEntry(l, e).ent[l.last + 1] = e
           /\ \A k \in l.first..l.last : AppendEntry(l, e).ent[k] = l.ent[k]
           /\ lastLogTerm(AppendEntry(l, e)) = e.term
  <1> DEFINE x == AppendEntry(l, e)
  <1>1. /\ l.first \in Nat /\ l.last \in Nat /\ l.first <= l.last
        /\ l.ent \in [l.first..l.last -> LogEntry]
    BY Zenon DEF IsLog
  <1>2. /\ x = MakeLog(x.first, x.last, x.ent) /\ x.first = l.first /\ x.last = l.last + 1
        /\ x.ent = [k \in l.first..(l.last + 1) |-> IF k = l.last + 1 THEN e ELSE l.ent[k]]
    BY Zenon DEF AppendEntry, MakeLog
  <1> HIDE DEF x
  <1>3. \A k \in l.first..(l.last + 1) : x.ent[k] \in LogEntry
    BY <1>1, <1>2
  <1>4. x.ent[l.last + 1] = e /\ \A k \in l.first..l.last : x.ent[k] = l.ent[k]
    BY <1>1, <1>2
  <1>5. IsLog(x)
    BY <1>1, <1>2, <1>3 DEF IsLog
  <1>6. lastLogTerm(x) = e.term
    BY Zenon, <1>2, <1>4 DEF lastLogTerm
  <1>7. QED
    BY Zenon, <1>2, <1>4, <1>5, <1>6 DEF x

\* becomeLeaderL: the new leader's log becomes the ledger of its term.
LEMMA WinsLedger ==
    ASSUME ElectionInv, ElectionInv', LedgerOK, LogsOK, MessagesOK, NEW i \in Server, Wins(i)
    PROVE  /\ currentTerm[i] \in Term /\ lastLogTerm(log[i]) \in Term
           /\ lastLogTerm(log[i]) < currentTerm[i]
           /\ ledger'[currentTerm[i]].last = log[i].last
           /\ IsLog(ledger'[currentTerm[i]]) /\ ledger'[currentTerm[i]].first = 0
           /\ \A k \in 0..log[i].last :
                 ledger'[currentTerm[i]].ent[k] = ledger[lastLogTerm(log[i])].ent[k]
           /\ ledger' = [t \in Term |-> ledger'[t]]
           /\ \A t \in Term : t # currentTerm[i] => ledger'[t] = ledger[t]
           /\ Extends
  <1> DEFINE T == currentTerm[i]
             l == log[i]
             u == lastLogTerm(l)
  <1>1. T \in Term /\ T \in Nat /\ T # 0
    <2>1. Campaigned(i, T) /\ T \in Term
      BY Zenon DEF ElectionInv, ElectionTypeOK, CandidatesCount, Wins
    <2>2. PICK r \in msgs : r.type = "RequestVote" /\ r.term = T
      BY Zenon, <2>1 DEF Campaigned
    <2>3. r.lastLogTerm \in 0..(T - 1)
      BY Zenon, <2>2 DEF MessagesOK, MessageOK, RequestOK
    <2>4. T \in Nat
      BY Zenon, <2>1, TermIsNat
    <2>5. QED
      BY <2>1, <2>3, <2>4
  <1>2. ~Decided(T)
    BY Zenon, WinsFirst
  <1>3. IsLog(l) /\ u \in 0..T /\ Within(l, u)
    BY Zenon DEF LogsOK, Logs
  <1>4. u \in Term /\ u \in Nat
    BY <1>1, <1>3, BoundsAssumption DEF Term
  <1>5. l.last \in Nat /\ Has(u, l.last, u) /\ l.last <= ledger[u].last
    BY Zenon, <1>3, <1>4, LastHas DEF Within
  <1>6. u < T
    <2>1. CASE u = T
      BY Zenon, <1>1, <1>2, <1>4, <1>5, <2>1, TermIsDecided
    <2>2. QED
      BY <1>1, <1>3, <1>4, <2>1
  <1>7. ledger' = [ledger EXCEPT ![T] = MakeLog(0, l.last, [k \in 0..l.last |-> ledger[u].ent[k]])]
    BY Zenon DEF Wins, becomeLeaderL
  <1>8. ledger = [t \in Term |-> ledger[t]]
    BY Zenon DEF LedgerOK
  <1>9. /\ ledger'[T] = MakeLog(0, l.last, [k \in 0..l.last |-> ledger[u].ent[k]])
        /\ ledger' = [t \in Term |-> ledger'[t]]
        /\ \A t \in Term : t # T => ledger'[t] = ledger[t]
    BY <1>1, <1>7, <1>8, Zenon
  <1>10. /\ ledger'[T].first = 0 /\ ledger'[T].last = l.last
         /\ ledger'[T].ent = [k \in 0..l.last |-> ledger[u].ent[k]]
    BY <1>9 DEF MakeLog
  <1>11. ledger[u].last \in Nat /\ ledger[u].ent \in [0..ledger[u].last -> LogEntry]
    BY Zenon, <1>4, LedgerType
  <1>12. \A k \in 0..l.last : /\ ledger'[T].ent[k] = ledger[u].ent[k]
                              /\ ledger[u].ent[k] \in LogEntry
    BY <1>5, <1>10, <1>11, SMTT(30)
  <1>13. IsLog(ledger'[T])
    <2>1. ledger'[T] = MakeLog(ledger'[T].first, ledger'[T].last, ledger'[T].ent)
      BY <1>9, <1>10, Zenon
    <2>2. ledger'[T].ent \in [0..l.last -> LogEntry]
      BY Zenon, <1>10, <1>12
    <2>3. QED
      BY <1>5, <1>10, <2>1, <2>2 DEF IsLog
  <1>14. Extends
    <2>1. ledger[T].last = 0 /\ ledger[T].ent[0] = ledger[u].ent[0]
      <3>1. ledger[T] = BootLog /\ ledger[u].ent[0] = BootLog.ent[0]
        BY Zenon, <1>1, <1>2, <1>4 DEF LedgerOK
      <3>2. QED
        BY <3>1 DEF BootLog, SingletonLog, MakeLog
    <2>2. /\ ledger'[T].last \in Nat /\ ledger[T].last <= ledger'[T].last
          /\ \A k \in 0..ledger[T].last : ledger'[T].ent[k] = ledger[T].ent[k]
      BY <1>5, <1>10, <1>12, <2>1, SMTT(30)
    <2>3. \A t \in Term : ledger[t].last \in Nat
      BY Zenon, LedgerType
    <2>4. ASSUME NEW t \in Term
          PROVE  /\ ledger'[t].last \in Nat /\ ledger[t].last <= ledger'[t].last
                 /\ \A k \in 0..ledger[t].last : ledger'[t].ent[k] = ledger[t].ent[k]
                 /\ Decided(t) => \A k \in 0..ledger'[t].last :
                                     k > ledger[t].last => ledger'[t].ent[k].term = t
      <3>1. CASE t = T
        BY Zenon, <1>2, <2>2, <3>1
      <3>2. CASE t # T
        BY <1>9, <2>3, <3>2
      <3>3. QED
        BY Zenon, <3>1, <3>2
    <2>5. QED
      BY Zenon, <2>4 DEF Extends
  <1>15. QED
    BY <1>1, <1>4, <1>6, <1>9, <1>10, <1>12, <1>13, <1>14, Zenon

\* Start: the leader's log and the ledger of its term get the same entry.
LEMMA StartLedger ==
    ASSUME ElectionInv, LedgerOK, NEW i \in Server, NEW cmd \in Command, Start(i, cmd)
    PROVE  LET T == currentTerm[i]
               n == ledger[T].last + 1
           IN  /\ T \in Term /\ Decided(T)
               /\ ledger'[T].last = n
               /\ ledger'[T].ent[n] = [term |-> T, cmd |-> cmd]
               /\ IsLog(ledger'[T]) /\ ledger'[T].first = 0
               /\ ledger' = [t \in Term |-> ledger'[t]]
               /\ \A t \in Term : t # T => ledger'[t] = ledger[t]
               /\ Extends
  <1> DEFINE T == currentTerm[i]
             n == ledger[T].last + 1
             e == [term |-> T, cmd |-> cmd]
  <1>1. T \in Term /\ Decided(T)
    BY Zenon DEF ElectionInv, ElectionTypeOK, LeadersWereElected, Decided, Start
  <1>2. ledger' = [ledger EXCEPT ![T] = AppendEntry(@, e)]
    BY Zenon DEF Start
  <1>3. /\ ledger'[T] = AppendEntry(ledger[T], e)
        /\ ledger' = [t \in Term |-> ledger'[t]]
        /\ \A t \in Term : t # T => ledger'[t] = ledger[t]
    BY Zenon, <1>1, <1>2 DEF LedgerOK
  <1>4. e \in LogEntry /\ e.term = T
    BY Zenon, <1>1, TermIsNat DEF LogEntry
  <1>5. IsLog(ledger[T]) /\ ledger[T].first = 0 /\ ledger[T].last \in Nat
    BY Zenon, <1>1, LedgerType DEF LedgerOK
  <1> HIDE DEF e, T
  <1>6. /\ IsLog(ledger'[T]) /\ ledger'[T].first = 0 /\ ledger'[T].last = n
        /\ ledger'[T].ent[n] = e
        /\ \A k \in 0..ledger[T].last : ledger'[T].ent[k] = ledger[T].ent[k]
    BY <1>3, <1>4, <1>5, ExtendOK
  <1>7. ASSUME NEW t \in Term
        PROVE  /\ ledger'[t].last \in Nat /\ ledger[t].last <= ledger'[t].last
               /\ \A k \in 0..ledger[t].last : ledger'[t].ent[k] = ledger[t].ent[k]
               /\ \A k \in 0..ledger'[t].last :
                     k > ledger[t].last => ledger'[t].ent[k].term = t
    <2>1. CASE t = T
      BY <1>4, <1>5, <1>6, <2>1
    <2>2. CASE t # T
      BY <1>3, <2>2, LedgerType
    <2>3. QED
      BY Zenon, <2>1, <2>2
  <1>8. Extends
    BY Zenon, <1>7 DEF Extends
  <1>9. QED
    BY Zenon, <1>1, <1>3, <1>6, <1>8 DEF e, T

\* What a ledger had before is as it should be afterwards.
LEMMA OldEntriesOK ==
    ASSUME LedgerOK, Extends, elections \subseteq elections', NEW t \in Term,
           ledger'[t].last = ledger[t].last
    PROVE  \A k \in 0..ledger'[t].last :
              /\ ledger'[t].ent[k].term \in 0..t
              /\ Same(t, ledger[t].ent[k].term, k)'
              /\ k > 0 => ledger'[t].ent[k].cmd \in Command
  <1> SUFFICES ASSUME NEW k \in 0..ledger[t].last
               PROVE  /\ ledger'[t].ent[k].term \in 0..t
                      /\ Same(t, ledger[t].ent[k].term, k)'
                      /\ k > 0 => ledger'[t].ent[k].cmd \in Command
    BY Zenon
  <1>1. ledger'[t].ent[k] = ledger[t].ent[k] /\ k \in Nat
    BY LedgerType DEF Extends
  <1>2. PICK u : u = ledger[t].ent[k].term
    BY Zenon
  <1>3. u \in 0..t /\ u \in Term /\ Same(t, u, k) /\ (k > 0 => ledger[t].ent[k].cmd \in Command)
    BY Zenon, <1>2, LedgerType DEF LedgerOK
  <1>4. Same(t, u, k)'
    BY Zenon, <1>1, <1>3, SameGrows
  <1>5. QED
    BY Zenon, <1>1, <1>2, <1>3, <1>4

\* LedgerOK survives becomeLeaderL.
LEMMA WinsLedgerOK ==
    ASSUME ElectionInv, ElectionInv', LedgerOK, LogsOK, MessagesOK, NEW i \in Server, Wins(i)
    PROVE  LedgerOK'
  <1>0. PICK T : T = currentTerm[i]
    BY Zenon
  <1>1. PICK u : u = lastLogTerm(log[i])
    BY Zenon
  <1>2. PICK last : last = log[i].last
    BY Zenon
  <1>3. /\ T \in Term /\ u \in Term /\ u < T /\ ledger'[T].last = last
        /\ IsLog(ledger'[T]) /\ ledger'[T].first = 0
        /\ \A k \in 0..last : ledger'[T].ent[k] = ledger[u].ent[k]
        /\ ledger' = [t \in Term |-> ledger'[t]]
        /\ \A t \in Term : t # T => ledger'[t] = ledger[t]
        /\ Extends
    BY Zenon, <1>0, <1>1, <1>2, WinsLedger
  <1>4. elections \subseteq elections' /\ Decided(T)'
    <2> DEFINE won == [term |-> currentTerm[i], leader |-> i, voters |-> votes'[i]]
    <2>1. elections' = elections \cup {won} /\ won.term = T
      BY Zenon, <1>0, WinsFirst
    <2>2. QED
      BY <2>1, Zenon DEF Decided
  <1>5. last \in Nat /\ last <= ledger[u].last /\ T \in Nat /\ u \in Nat /\ ledger[u].last \in Nat
    <2>1. IsLog(log[i]) /\ Within(log[i], u)
      BY Zenon, <1>1 DEF LogsOK, Logs
    <2>2. QED
      BY Zenon, <1>2, <1>3, <2>1, TermIsNat, LedgerType DEF IsLog, Within
  <1>6. ASSUME NEW k \in 0..last
        PROVE  /\ ledger'[T].ent[k].term \in 0..T
               /\ Same(T, ledger[T].ent[k].term, k)'
               /\ k > 0 => ledger'[T].ent[k].cmd \in Command
    <2>1. PICK v : v = ledger[u].ent[k].term
      BY Zenon
    <2>2. k \in 0..ledger[u].last /\ k \in Nat
      BY <1>5
    <2>3. /\ v \in 0..u /\ v \in Term /\ Same(u, v, k)
          /\ (k > 0 => ledger[u].ent[k].cmd \in Command)
      BY Zenon, <1>3, <2>1, <2>2, LedgerType DEF LedgerOK
    <2>4. Same(u, v, k)'
      BY Zenon, <1>3, <2>2, <2>3, SameGrows
    <2>5. Same(T, u, k)'
      <3>1. k <= ledger'[T].last /\ k <= ledger'[u].last
        BY <1>3, <1>5
      <3>2. \A q \in 0..k : q \in 0..last
        BY <1>5
      <3>3. QED
        BY Zenon, <1>3, <1>5, <3>1, <3>2 DEF Same
    <2>6. Same(T, v, k)'
      BY Zenon, <2>4, <2>5, SameTrans DEF Same
    <2>7. QED
      BY <1>3, <1>5, <2>1, <2>3, <2>6
  <1>7. ledger'[T].ent[0] = BootLog.ent[0]
    BY <1>3, <1>5 DEF LedgerOK
  <1>8. ASSUME NEW t \in Term, t # T
        PROVE  \A k \in 0..ledger'[t].last :
                  /\ ledger'[t].ent[k].term \in 0..t
                  /\ Same(t, ledger[t].ent[k].term, k)'
                  /\ k > 0 => ledger'[t].ent[k].cmd \in Command
    <2>1. ledger'[t] = ledger[t]
      BY Zenon, <1>3, <1>8
    <2>2. QED
      BY Zenon, <1>3, <1>4, <2>1, OldEntriesOK
  <1>9. ASSUME NEW t \in Term, t # T
        PROVE  /\ IsLog(ledger'[t]) /\ ledger'[t].first = 0
               /\ ledger'[t].ent[0] = BootLog.ent[0]
               /\ ~Decided(t)' => ledger'[t] = BootLog
    <2>1. ledger'[t] = ledger[t]
      BY Zenon, <1>3, <1>9
    <2>2. Decided(t) => Decided(t)'
      BY Zenon, <1>4 DEF Decided
    <2>3. QED
      BY Zenon, <2>1, <2>2 DEF LedgerOK
  <1>10. ASSUME NEW t \in Term
         PROVE  /\ IsLog(ledger'[t]) /\ ledger'[t].first = 0
                /\ ledger'[t].ent[0] = BootLog.ent[0]
                /\ ~Decided(t)' => ledger'[t] = BootLog
                /\ \A k \in 0..ledger'[t].last :
                      /\ ledger'[t].ent[k].term \in 0..t
                      /\ Same(t, ledger[t].ent[k].term, k)'
                      /\ k > 0 => ledger'[t].ent[k].cmd \in Command
    <2>1. CASE t = T
      BY Zenon, <1>3, <1>4, <1>6, <1>7, <2>1
    <2>2. CASE t # T
      BY Zenon, <1>8, <1>9, <2>2
    <2>3. QED
      BY Zenon, <2>1, <2>2
  <1>11. QED
    BY Zenon, <1>3, <1>10 DEF LedgerOK

\* LedgerOK survives Start.
LEMMA StartLedgerOK ==
    ASSUME ElectionInv, LedgerOK, NEW i \in Server, NEW cmd \in Command, Start(i, cmd)
    PROVE  LedgerOK'
  <1>0. PICK T : T = currentTerm[i]
    BY Zenon
  <1>1. PICK n : n = ledger[T].last + 1
    BY Zenon
  <1>2. /\ T \in Term /\ Decided(T) /\ ledger'[T].last = n
        /\ ledger'[T].ent[n] = [term |-> T, cmd |-> cmd]
        /\ IsLog(ledger'[T]) /\ ledger'[T].first = 0
        /\ ledger' = [t \in Term |-> ledger'[t]]
        /\ \A t \in Term : t # T => ledger'[t] = ledger[t]
        /\ Extends
    BY Zenon, <1>0, <1>1, StartLedger
  <1>3. elections' = elections
    BY Zenon DEF Start
  <1>4. n \in Nat /\ n > 0 /\ T \in Nat /\ ledger[T].last = n - 1
    BY <1>1, <1>2, LedgerType, TermIsNat
  <1>5. ASSUME NEW t \in Term, NEW k \in 0..ledger[t].last
        PROVE  /\ ledger'[t].ent[k].term \in 0..t
               /\ Same(t, ledger[t].ent[k].term, k)'
               /\ k > 0 => ledger'[t].ent[k].cmd \in Command
    <2>1. ledger'[t].ent[k] = ledger[t].ent[k] /\ k \in Nat
      BY <1>2, LedgerType DEF Extends
    <2>2. PICK u : u = ledger[t].ent[k].term
      BY Zenon
    <2>3. u \in 0..t /\ u \in Term /\ Same(t, u, k) /\ (k > 0 => ledger[t].ent[k].cmd \in Command)
      BY Zenon, <2>2, LedgerType DEF LedgerOK
    <2>4. Same(t, u, k)'
      BY Zenon, <1>2, <2>1, <2>3, SameGrows
    <2>5. QED
      BY Zenon, <2>1, <2>2, <2>3, <2>4
  <1>6. /\ ledger'[T].ent[n].term \in 0..T /\ ledger'[T].ent[n].cmd \in Command
        /\ Same(T, ledger[T].ent[n].term, n)'
    <2>1. ledger'[T].ent[n].term = T /\ ledger'[T].ent[n].cmd = cmd
      BY <1>2
    <2>2. Same(T, T, n)'
      BY <1>2, <1>4 DEF Same
    <2>3. QED
      BY <1>4, <2>1, <2>2, SMTT(30)
  <1>7. ASSUME NEW t \in Term
        PROVE  \A k \in 0..ledger'[t].last :
                  /\ ledger'[t].ent[k].term \in 0..t
                  /\ Same(t, ledger[t].ent[k].term, k)'
                  /\ k > 0 => ledger'[t].ent[k].cmd \in Command
    <2>1. CASE t # T
      BY Zenon, <1>2, <1>5, <2>1
    <2>2. CASE t = T
      <3>1. \A k \in 0..ledger'[T].last : k = n \/ k \in 0..ledger[T].last
        BY <1>2, <1>4
      <3>2. QED
        BY Zenon, <1>5, <1>6, <2>2, <3>1
    <2>3. QED
      BY Zenon, <2>1, <2>2
  <1>8. ASSUME NEW t \in Term
        PROVE  /\ IsLog(ledger'[t]) /\ ledger'[t].first = 0
               /\ ledger'[t].ent[0] = BootLog.ent[0]
               /\ ~Decided(t)' => ledger'[t] = BootLog
    <2>1. ledger'[t].ent[0] = ledger[t].ent[0]
      BY <1>2, LedgerType DEF Extends
    <2>2. Decided(t)' <=> Decided(t)
      BY Zenon, <1>3 DEF Decided
    <2>3. CASE t # T
      BY Zenon, <1>2, <2>1, <2>2, <2>3 DEF LedgerOK
    <2>4. CASE t = T
      BY Zenon, <1>2, <2>1, <2>2, <2>4 DEF LedgerOK
    <2>5. QED
      BY Zenon, <2>3, <2>4
  <1>9. QED
    BY Zenon, <1>2, <1>7, <1>8 DEF LedgerOK

\* The steps that change a log, a ledger or a disk.
LEMMA StepKinds ==
    ASSUME ElectionInv, Next
    PROVE  \/ Still
           \/ \E i \in Server :
                 \/ Wins(i)
                 \/ \E cmd \in Command : Start(i, cmd)
                 \/ Snapshot(i)
                 \/ Restart(i)
                 \/ \E m \in msgs : m.dst = i /\ AppendEntries(i, m)
                 \/ \E m \in msgs : m.dst = i /\ InstallSnapshot(i, m)
  <1>0. ElectionTypeOK
    BY Zenon DEF ElectionInv
  <1>1. CASE \E i \in Server : Step(i)
    BY Zenon, <1>0, <1>1, StepIsStill DEF Step
  <1>2. ASSUME NEW m \in msgs, Receive(m.dst, m)
        PROVE  \/ Still
               \/ \E i \in Server :
                     \/ Wins(i)
                     \/ m.dst = i /\ AppendEntries(i, m)
                     \/ m.dst = i /\ InstallSnapshot(i, m)
    <2>1. PICK i \in Server : i = m.dst
      BY Zenon, <1>0 DEF ElectionTypeOK
    <2>2. QED
      BY Zenon, <1>0, <1>2, <2>1, ReceiveIsStill, RequestReplyKinds DEF Receive
  <1>3. QED
    BY Zenon, <1>1, <1>2 DEF Next


\* No leader is sent the calls of a leader of its term.
LEMMA NoLeaderIsTold ==
    ASSUME ElectionInv, AloneInv, NEW m \in msgs,
           m.type \in {"AppendEntries", "InstallSnapshot"}
    PROVE  /\ ~(role[m.dst] = "Leader" /\ currentTerm[m.dst] = m.term)
           /\ \E e \in elections : e.term = m.term /\ e.leader # m.dst
  <1>1. m.dst \in Server /\ m.src # m.dst
    BY Zenon DEF ElectionInv, ElectionTypeOK, AloneInv
  <1>2. PICK e \in elections : e.term = m.term /\ e.leader = m.src
    BY Zenon DEF ElectionInv, LeadersWereElected
  <1>3. ASSUME role[m.dst] = "Leader", currentTerm[m.dst] = m.term
        PROVE  FALSE
    <2>1. PICK f \in elections : f.term = m.term /\ f.leader = m.dst
      BY <1>1, <1>3 DEF ElectionInv, LeadersWereElected
    <2>2. QED
      BY Zenon, <1>1, <1>2, <2>1 DEF ElectionInv, ElectionSafety
  <1>4. QED
    BY Zenon, <1>1, <1>2, <1>3

\* A step adds messages, elections and commits, never lowers a term, and
\* leaves the entries of every ledger where they are.
Grows ==
    /\ Extends
    /\ msgs \subseteq msgs' /\ elections \subseteq elections' /\ commits \subseteq commits'
    /\ \A j \in Server : currentTerm[j] <= currentTerm'[j]

\* Every step only adds to the history.
LEMMA NextGrows ==
    ASSUME RaftInvariant, ElectionInv', Next
    PROVE  Grows /\ LedgerOK'
  <1>0. ElectionInv /\ LedgerOK /\ LogsOK /\ MessagesOK
    BY Zenon DEF RaftInvariant, LogInv
  <1>t. \A j \in Server : currentTerm[j] \in Nat
    BY Zenon, <1>0, TermIsNat DEF ElectionInv, ElectionTypeOK
  <1>s. ASSUME UNCHANGED <<ledger, elections>>
        PROVE  Extends /\ LedgerOK'
    <2>1. LedgerOK'
      BY <1>0, <1>s, Zenon DEF LedgerOK, Decided, Same
    <2>2. QED
      BY Zenon, <1>0, <1>s, <2>1, SameLedgerExtends
  <1>1. CASE Still
    <2>1. UNCHANGED <<ledger, elections>>
      BY Zenon, <1>1 DEF Still
    <2>2. QED
      BY Zenon, <1>1, <1>s, <2>1 DEF Still, Grows
  <1>2. ASSUME NEW i \in Server, Wins(i)
        PROVE  Grows /\ LedgerOK'
    <2>1. LedgerOK' /\ Extends
      BY Zenon, <1>0, <1>2, WinsLedger, WinsLedgerOK
    <2>2. elections \subseteq elections' /\ UNCHANGED <<currentTerm, msgs, commits>>
      BY Zenon, <1>2 DEF Wins, becomeLeaderL
    <2>3. QED
      BY <1>t, <2>1, <2>2 DEF Grows
  <1>3. ASSUME NEW i \in Server, NEW cmd \in Command, Start(i, cmd)
        PROVE  Grows /\ LedgerOK'
    <2>1. LedgerOK' /\ Extends
      BY Zenon, <1>0, <1>3, StartLedger, StartLedgerOK
    <2>2. UNCHANGED <<currentTerm, msgs, commits, elections>>
      BY Zenon, <1>3 DEF Start
    <2>3. QED
      BY <1>t, <2>1, <2>2 DEF Grows
  <1>4. ASSUME NEW i \in Server, Snapshot(i) \/ Restart(i)
        PROVE  Grows /\ LedgerOK'
    <2>1. UNCHANGED <<ledger, elections, commits, msgs>>
      BY Zenon, <1>4 DEF Snapshot, Restart, history
    <2>2. currentTerm' = currentTerm
      <3>1. disk[i].currentTerm = currentTerm[i] /\ currentTerm = [j \in Server |-> currentTerm[j]]
        BY Zenon, <1>0 DEF ElectionInv, VotesAreKept, ElectionTypeOK
      <3>2. currentTerm' = [currentTerm EXCEPT ![i] = currentTerm[i]] \/ currentTerm' = currentTerm
        BY Zenon, <1>4, <3>1 DEF Snapshot, Restart
      <3>3. QED
        BY Zenon, <3>1, <3>2
    <2>3. QED
      BY <1>t, <1>s, <2>1, <2>2 DEF Grows
  <1>5. ASSUME NEW i \in Server, NEW m \in msgs, AppendEntries(i, m) \/ InstallSnapshot(i, m)
        PROVE  Grows /\ LedgerOK'
    <2>1. UNCHANGED <<ledger, elections, commits>> /\ msgs \subseteq msgs'
      BY Zenon, <1>5 DEF AppendEntries, InstallSnapshot, history, Send
    <2>2. \A j \in Server : currentTerm[j] <= currentTerm'[j]
      <3>1. m.term >= currentTerm[i] /\ m.term \in Nat
        BY Zenon, <1>0, <1>5, TermIsNat DEF AppendEntries, InstallSnapshot, ElectionInv, ElectionTypeOK
      <3>2. \/ currentTerm' = currentTerm
            \/ currentTerm' = [currentTerm EXCEPT ![i] = m.term]
        BY Zenon, <1>5 DEF AppendEntries, InstallSnapshot, becomeFollowerL
      <3>3. currentTerm = [j \in Server |-> currentTerm[j]]
        BY Zenon, <1>0 DEF ElectionInv, ElectionTypeOK
      <3>4. QED
        BY <1>t, <3>1, <3>2, <3>3
    <2>3. QED
      BY Zenon, <1>s, <2>1, <2>2 DEF Grows
  <1>6. QED
    BY Zenon, <1>0, <1>1, <1>2, <1>3, <1>4, <1>5, StepKinds

-----------------------------------------------------------------------------
(***************************************************************************)
(* What the handlers do to a peer, and to nobody else.                     *)
(***************************************************************************)

\* Only peer i changes.
Only(i) ==
    \A j \in Server : j # i =>
        /\ log'[j] = log[j] /\ disk'[j] = disk[j] /\ snapshot'[j] = snapshot[j]
        /\ currentTerm'[j] = currentTerm[j] /\ role'[j] = role[j]
        /\ commitIndex'[j] = commitIndex[j]

\* What the AppendEntries handler does to a peer.
LEMMA AppendEffect ==
    ASSUME RaftInvariant, NEW i \in Server, NEW m \in msgs, AppendEntries(i, m)
    PROVE  /\ Only(i)
           /\ m.term \in Term /\ Decided(m.term) /\ AppendOK(m)
           /\ currentTerm[i] <= m.term /\ currentTerm'[i] = m.term
           /\ role'[i] = "Follower"
           /\ log'[i] = IF PrevLogConflict(log[i], m) THEN log[i]
                                                      ELSE AppendNewEntries(log[i], m)
           /\ snapshot'[i] = snapshot[i]
           /\ \/ disk'[i] = disk[i] /\ log'[i] = log[i]
              \/ disk'[i].log = log'[i] /\ disk'[i].data = snapshot[i].data
           /\ UNCHANGED <<ledger, elections, commits, lastApplied, leaderVars, service>>
           /\ msgs' = msgs \cup {appendReply(i, m)}
  <1>0. ElectionInv /\ AloneInv /\ LogTypeOK /\ MessagesOK
    BY Zenon DEF RaftInvariant, LogInv
  <1>1. /\ m.type = "AppendEntries" /\ m.dst = i /\ m.term >= currentTerm[i]
        /\ currentTerm' = [currentTerm EXCEPT ![i] = m.term]
        /\ role' = [role EXCEPT ![i] =
              IF m.term > currentTerm[i] \/ role[i] = "Candidate" THEN "Follower" ELSE @]
        /\ log' = [log EXCEPT ![i] = IF PrevLogConflict(log[i], m) THEN log[i]
                                     ELSE AppendNewEntries(log[i], m)]
        /\ snapshot' = snapshot
        /\ \/ disk' = disk /\ log'[i] = log[i]
           \/ persistL(i, log'[i], snapshot[i].data)
        /\ \E n : commitIndex' = [commitIndex EXCEPT ![i] = n]
        /\ UNCHANGED <<lastApplied, leaderVars, service, history>>
        /\ msgs' = msgs \cup {appendReply(i, m)}
    <2>1. i \in DOMAIN log /\ log = [j \in Server |-> log[j]]
      BY Zenon, <1>0 DEF LogTypeOK
    <2>2. QED
      BY Zenon, <2>1 DEF AppendEntries, Send
  <1>2. /\ currentTerm \in [Server -> Term] /\ log = [j \in Server |-> log[j]]
        /\ commitIndex \in [Server -> Nat] /\ disk = [j \in Server |-> disk[j]]
        /\ role \in [Server -> {"Follower", "Candidate", "Leader"}] /\ m.term \in Term
    BY Zenon, <1>0 DEF ElectionInv, ElectionTypeOK, LogTypeOK
  <1>3. m.term \in Nat /\ currentTerm[i] \in Nat
    BY Zenon, <1>2, TermIsNat
  <1>4. Decided(m.term) /\ ~(role[i] = "Leader" /\ currentTerm[i] = m.term)
    BY Zenon, <1>0, <1>1, NoLeaderIsTold DEF Decided
  <1>5. role'[i] = "Follower" /\ currentTerm'[i] = m.term /\ currentTerm[i] <= m.term
    BY <1>1, <1>2, <1>3, <1>4
  <1>6. \/ disk'[i] = disk[i] /\ log'[i] = log[i]
        \/ disk'[i].log = log'[i] /\ disk'[i].data = snapshot[i].data
    BY <1>1, <1>2 DEF persistL
  <1>7. Only(i)
    <2>1. \A j \in Server : j # i => disk'[j] = disk[j]
      BY Zenon, <1>1, <1>2 DEF persistL
    <2>2. QED
      BY Zenon, <1>1, <1>2, <2>1 DEF Only
  <1>8. AppendOK(m)
    BY Zenon, <1>0, <1>1 DEF MessagesOK, MessageOK
  <1>9. log'[i] = IF PrevLogConflict(log[i], m) THEN log[i] ELSE AppendNewEntries(log[i], m)
    BY Zenon, <1>1, <1>2
  <1>10. QED
    BY Zenon, <1>1, <1>2, <1>4, <1>5, <1>6, <1>7, <1>8, <1>9 DEF history

\* What the InstallSnapshot handler does to a peer.
LEMMA InstallEffect ==
    ASSUME RaftInvariant, NEW i \in Server, NEW m \in msgs, InstallSnapshot(i, m)
    PROVE  /\ Only(i)
           /\ m.term \in Term /\ Decided(m.term) /\ InstallOK(m)
           /\ currentTerm[i] <= m.term /\ currentTerm'[i] = m.term
           /\ role'[i] # "Leader"
           /\ \/ /\ m.snapshot.index <= log[i].first
                 /\ log'[i] = log[i] /\ snapshot'[i] = snapshot[i]
              \/ /\ m.snapshot.index > log[i].first
                 /\ log'[i] = InstalledLog(log[i], m.snapshot) /\ snapshot'[i] = m.snapshot
           /\ \/ disk'[i] = disk[i] /\ m.term = currentTerm[i]
              \/ disk'[i].log = log[i] /\ disk'[i].data = snapshot[i].data
           /\ UNCHANGED <<ledger, elections, commits, commitIndex, lastApplied, leaderVars, service>>
           /\ msgs' = msgs \cup {installReply(i, m)}
  <1>0. ElectionInv /\ AloneInv /\ LogTypeOK /\ MessagesOK
    BY Zenon DEF RaftInvariant, LogInv
  <1>1. /\ m.type = "InstallSnapshot" /\ m.dst = i /\ m.term >= currentTerm[i]
        /\ IF m.term > currentTerm[i] THEN becomeFollowerL(i, m.term)
                                      ELSE UNCHANGED <<role, votedFor, currentTerm, disk>>
        /\ UNCHANGED <<commitIndex, lastApplied, leaderVars, service, history>>
        /\ msgs' = msgs \cup {installReply(i, m)}
    BY Zenon DEF InstallSnapshot, Send
  <1>2. /\ currentTerm \in [Server -> Term] /\ log = [j \in Server |-> log[j]]
        /\ disk = [j \in Server |-> disk[j]] /\ snapshot \in [Server -> SnapshotType]
        /\ role \in [Server -> {"Follower", "Candidate", "Leader"}] /\ m.term \in Term
        /\ log[i].first \in Nat
    BY Zenon, <1>0 DEF ElectionInv, ElectionTypeOK, LogTypeOK, IsLog
  <1>3. m.term \in Nat /\ currentTerm[i] \in Nat
    BY Zenon, <1>2, TermIsNat
  <1>4. Decided(m.term) /\ ~(role[i] = "Leader" /\ currentTerm[i] = m.term)
    BY Zenon, <1>0, <1>1, NoLeaderIsTold DEF Decided
  <1>5. InstallOK(m) /\ m.snapshot.index \in Nat
    BY Zenon, <1>0, <1>1 DEF MessagesOK, MessageOK, InstallOK, SnapshotType
  <1>6. /\ \/ /\ m.snapshot.index <= log[i].first
              /\ UNCHANGED <<log, snapshot>>
           \/ /\ m.snapshot.index > log[i].first
              /\ log' = [log EXCEPT ![i] = InstalledLog(log[i], m.snapshot)]
              /\ snapshot' = [snapshot EXCEPT ![i] = m.snapshot]
    BY <1>2, <1>5 DEF InstallSnapshot, InstalledLog
  <1>7. CASE m.term > currentTerm[i]
    <2>1. /\ currentTerm' = [currentTerm EXCEPT ![i] = m.term]
          /\ role' = [role EXCEPT ![i] = "Follower"]
          /\ persistL(i, log[i], snapshot[i].data)
      BY Zenon, <1>1, <1>7 DEF becomeFollowerL
    <2>2. /\ disk'[i].log = log[i] /\ disk'[i].data = snapshot[i].data
          /\ \A j \in Server : j # i => disk'[j] = disk[j]
      BY Zenon, <1>2, <2>1 DEF persistL
    <2>3. Only(i)
      BY Zenon, <1>1, <1>2, <1>6, <2>1, <2>2 DEF Only
    <2>4. QED
      BY Zenon, <1>1, <1>2, <1>3, <1>4, <1>5, <1>6, <1>7, <2>1, <2>2, <2>3 DEF history
  <1>8. CASE ~(m.term > currentTerm[i])
    <2>1. m.term = currentTerm[i] /\ UNCHANGED <<role, currentTerm, disk>>
      BY <1>1, <1>3, <1>8, SMTT(30)
    <2>2. Only(i)
      BY Zenon, <1>1, <1>2, <1>6, <2>1 DEF Only
    <2>3. QED
      BY Zenon, <1>1, <1>2, <1>3, <1>4, <1>5, <1>6, <2>1, <2>2 DEF history
  <1>9. QED
    BY Zenon, <1>7, <1>8

\* What Start does to a leader.
LEMMA StartEffect ==
    ASSUME RaftInvariant, NEW i \in Server, NEW cmd \in Command, Start(i, cmd)
    PROVE  /\ Only(i)
           /\ role[i] = "Leader" /\ UNCHANGED <<currentTerm, role>>
           /\ log'[i] = AppendEntry(log[i], [term |-> currentTerm[i], cmd |-> cmd])
           /\ IsLog(log'[i]) /\ log'[i].first = log[i].first
           /\ log'[i].last = log[i].last + 1
           /\ log'[i].ent[log[i].last + 1] = [term |-> currentTerm[i], cmd |-> cmd]
           /\ \A k \in log[i].first..log[i].last : log'[i].ent[k] = log[i].ent[k]
           /\ lastLogTerm(log[i])' = currentTerm[i]
           /\ disk'[i].log = log'[i] /\ disk'[i].data = snapshot[i].data
           /\ UNCHANGED <<snapshot, commitIndex, lastApplied, leaderVars, applyVars, msgs,
                          elections, commits>>
  <1>0. ElectionTypeOK /\ LogTypeOK
    BY Zenon DEF RaftInvariant, LogInv, ElectionInv
  <1>1. PICK e : e = [term |-> currentTerm[i], cmd |-> cmd]
    BY Zenon
  <1>2. /\ role[i] = "Leader"
        /\ log' = [log EXCEPT ![i] = AppendEntry(@, e)]
        /\ persistL(i, log'[i], snapshot[i].data)
        /\ UNCHANGED <<currentTerm, role, snapshot, commitIndex, lastApplied, leaderVars,
                       applyVars, msgs, elections, commits>>
    BY Zenon, <1>1 DEF Start
  <1>3. log = [j \in Server |-> log[j]] /\ disk = [j \in Server |-> disk[j]] /\ IsLog(log[i])
    BY Zenon, <1>0 DEF LogTypeOK, ElectionTypeOK
  <1>4. currentTerm[i] \in Nat
    BY Zenon, <1>0, TermIsNat DEF ElectionTypeOK
  <1>5. e \in LogEntry /\ e.term = currentTerm[i]
    BY Zenon, <1>1, <1>4 DEF LogEntry
  <1>6. log'[i] = AppendEntry(log[i], e) /\ \A j \in Server : j # i => log'[j] = log[j]
    BY Zenon, <1>2, <1>3
  <1>7. /\ disk'[i].log = log'[i] /\ disk'[i].data = snapshot[i].data
        /\ \A j \in Server : j # i => disk'[j] = disk[j]
    BY Zenon, <1>2, <1>3 DEF persistL
  <1>8. Only(i)
    BY Zenon, <1>2, <1>6, <1>7 DEF Only
  <1>9. /\ IsLog(log'[i]) /\ log'[i].first = log[i].first
        /\ log'[i].last = log[i].last + 1
        /\ log'[i].ent[log[i].last + 1] = e
        /\ \A k \in log[i].first..log[i].last : log'[i].ent[k] = log[i].ent[k]
        /\ lastLogTerm(log'[i]) = e.term
    BY <1>3, <1>5, <1>6, ExtendOK, SMTT(30)
  <1>10. QED
    BY Zenon, <1>1, <1>2, <1>5, <1>6, <1>7, <1>8, <1>9

\* The service is never past the log, so Snapshot trims within it.
LEMMA SnapshotEffect ==
    ASSUME RaftInvariant, NEW i \in Server, Snapshot(i)
    PROVE  /\ Only(i)
           /\ service[i].index \in log[i].first..log[i].last /\ service[i].index > log[i].first
           /\ service[i].index <= commitIndex[i]
           /\ log'[i] = trimLogL(log[i], service[i].index)
           /\ snapshot'[i] = [index |-> service[i].index, data |-> service[i].cmds,
                              term |-> log[i].ent[service[i].index].term]
           /\ disk'[i].log = log'[i] /\ disk'[i].data = service[i].cmds
           /\ UNCHANGED <<currentTerm, role, commitIndex, lastApplied, leaderVars, applyVars,
                          msgs, ledger, elections, commits>>
  <1>0. ElectionTypeOK /\ LogTypeOK /\ ApplyOK /\ CoverOK
    BY Zenon DEF RaftInvariant, LogInv, ElectionInv
  <1>1. /\ service[i].index > log[i].first
        /\ log' = [log EXCEPT ![i] = trimLogL(@, service[i].index)]
        /\ snapshot' = [snapshot EXCEPT ![i] =
               [index |-> service[i].index, term |-> log[i].ent[service[i].index].term,
                data |-> service[i].cmds]]
        /\ persistL(i, log'[i], service[i].cmds)
        /\ UNCHANGED <<currentTerm, role, commitIndex, lastApplied, leaderVars, applyVars,
                       msgs, history>>
    BY Zenon DEF Snapshot
  <1>2. log = [j \in Server |-> log[j]] /\ disk = [j \in Server |-> disk[j]]
        /\ snapshot \in [Server -> SnapshotType]
    BY Zenon, <1>0 DEF LogTypeOK, ElectionTypeOK
  <1>3. /\ service[i].index \in Nat /\ lastApplied[i] \in Nat /\ commitIndex[i] \in Nat
        /\ log[i].last \in Nat /\ log[i].first \in Nat
    BY Zenon, <1>0 DEF LogTypeOK, IsLog
  <1>4. /\ service[i].index <= lastApplied[i] /\ lastApplied[i] <= commitIndex[i]
        /\ commitIndex[i] <= log[i].last
    BY Zenon, <1>0 DEF ApplyOK, PeerApplyOK, CoverOK, Committed
  <1>5. /\ log'[i] = trimLogL(log[i], service[i].index)
        /\ \A j \in Server : j # i => log'[j] = log[j]
    BY Zenon, <1>1, <1>2
  <1>6. /\ disk'[i].log = log'[i] /\ disk'[i].data = service[i].cmds
        /\ \A j \in Server : j # i => disk'[j] = disk[j]
    BY Zenon, <1>1, <1>2 DEF persistL
  <1>7. Only(i)
    BY Zenon, <1>1, <1>2, <1>5, <1>6 DEF Only
  <1>8. QED
    BY <1>1, <1>2, <1>3, <1>4, <1>5, <1>6, <1>7, SMTT(30) DEF history

\* What readPersist brings back.
LEMMA RestartEffect ==
    ASSUME RaftInvariant, NEW i \in Server, Restart(i)
    PROVE  /\ Only(i)
           /\ log'[i] = disk[i].log /\ role'[i] = "Follower"
           /\ snapshot'[i] = [index |-> disk[i].log.first, data |-> disk[i].data,
                              term |-> disk[i].log.ent[disk[i].log.first].term]
           /\ commitIndex'[i] = disk[i].log.first
           /\ UNCHANGED <<currentTerm, disk, msgs, ledger, elections, commits>>
  <1>0. ElectionTypeOK /\ LogTypeOK /\ disk[i].currentTerm = currentTerm[i]
    BY Zenon DEF RaftInvariant, LogInv, ElectionInv, VotesAreKept
  <1>1. /\ log' = [log EXCEPT ![i] = disk[i].log] /\ role' = [role EXCEPT ![i] = "Follower"]
        /\ currentTerm' = [currentTerm EXCEPT ![i] = disk[i].currentTerm]
        /\ snapshot' = [snapshot EXCEPT ![i] =
               [index |-> disk[i].log.first, term |-> disk[i].log.ent[disk[i].log.first].term,
                data |-> disk[i].data]]
        /\ commitIndex' = [commitIndex EXCEPT ![i] = disk[i].log.first]
        /\ UNCHANGED <<disk, msgs, ledger, elections, commits>>
    BY Zenon DEF Restart
  <1>2. /\ log = [j \in Server |-> log[j]] /\ snapshot \in [Server -> SnapshotType]
        /\ currentTerm \in [Server -> Term] /\ commitIndex \in [Server -> Nat]
        /\ role \in [Server -> {"Follower", "Candidate", "Leader"}]
    BY Zenon, <1>0 DEF LogTypeOK, ElectionTypeOK
  <1>3. currentTerm' = currentTerm
    BY Zenon, <1>0, <1>1, <1>2
  <1>4. QED
    BY Zenon, <1>1, <1>2, <1>3 DEF Only

\* x ends where l ends.
Alike(l, x) == x.last = l.last /\ lastLogTerm(x) = lastLogTerm(l)

\* Every log of a peer after a step ends like one before it, or takes over what
\* the leader of the term has.
Follows(j, x) ==
    /\ IsLog(x) /\ lastLogTerm(x) \in 0..currentTerm'[j]
    /\ Within(x, lastLogTerm(x))'
    /\ \E l \in Logs(j) : \/ Alike(l, x)
                          \/ Decided(currentTerm'[j]) /\ Advance(l, x, currentTerm'[j])

\* What the invariant says of the logs of a peer, in memory and on disk.
LEMMA LogFacts ==
    ASSUME RaftInvariant, NEW j \in Server
    PROVE  /\ LedgerOK /\ currentTerm[j] \in Term /\ currentTerm[j] \in Nat
           /\ \A l \in Logs(j) : /\ IsLog(l) /\ l.first \in Nat /\ l.last \in Nat
                                 /\ l.first <= l.last
                                 /\ lastLogTerm(l) \in Term /\ lastLogTerm(l) \in Nat
                                 /\ lastLogTerm(l) <= currentTerm[j]
                                 /\ Within(l, lastLogTerm(l))
                                 /\ Has(lastLogTerm(l), l.last, lastLogTerm(l))
  <1>1. LedgerOK /\ LogsOK /\ currentTerm[j] \in Term /\ currentTerm[j] \in Nat
    BY Zenon, TermIsNat DEF RaftInvariant, LogInv, ElectionInv, ElectionTypeOK
  <1>2. ASSUME NEW l \in Logs(j)
        PROVE  /\ IsLog(l) /\ l.first \in Nat /\ l.last \in Nat /\ l.first <= l.last
               /\ lastLogTerm(l) \in Term /\ lastLogTerm(l) \in Nat
               /\ lastLogTerm(l) <= currentTerm[j] /\ Within(l, lastLogTerm(l))
               /\ Has(lastLogTerm(l), l.last, lastLogTerm(l))
    <2>1. IsLog(l) /\ lastLogTerm(l) \in 0..currentTerm[j] /\ Within(l, lastLogTerm(l))
      BY Zenon, <1>1 DEF LogsOK
    <2>2. lastLogTerm(l) \in Term /\ lastLogTerm(l) \in Nat /\ lastLogTerm(l) <= currentTerm[j]
      BY <1>1, <2>1, BoundsAssumption DEF Term
    <2>3. QED
      BY Zenon, <1>1, <2>1, <2>2, LastHas DEF IsLog
  <1>3. QED
    BY Zenon, <1>1, <1>2

\* A log that ends like an earlier one of the peer.
LEMMA OldFollows ==
    ASSUME RaftInvariant, Grows, NEW j \in Server, NEW l \in Logs(j), NEW x, IsLog(x),
           Alike(l, x), Within(x, lastLogTerm(x)), currentTerm'[j] \in Nat
    PROVE  Follows(j, x)
  <1>1. /\ LedgerOK /\ currentTerm[j] \in Nat /\ lastLogTerm(l) \in Nat
        /\ lastLogTerm(l) <= currentTerm[j] /\ lastLogTerm(x) \in Term
    BY Zenon, LogFacts DEF Alike
  <1>2. lastLogTerm(x) \in 0..currentTerm'[j]
    BY <1>1, SMTT(30) DEF Grows, Alike
  <1>3. Within(x, lastLogTerm(x))'
    <2>1. PICK t : t = lastLogTerm(x)
      BY Zenon
    <2>2. Within(x, t)'
      BY Zenon, <1>1, <2>1, WithinGrows DEF Grows
    <2>3. QED
      BY Zenon, <2>1, <2>2
  <1>4. QED
    BY Zenon, <1>2, <1>3 DEF Follows

\* A log that took over from the leader of the term, which is an old one.
LEMMA NewFollows ==
    ASSUME RaftInvariant, Grows, NEW j \in Server, NEW l \in Logs(j), NEW x, IsLog(x),
           lastLogTerm(x) \in Term, lastLogTerm(x) <= currentTerm'[j], Within(x, lastLogTerm(x)),
           Decided(currentTerm'[j]), Advance(l, x, currentTerm'[j]), currentTerm'[j] \in Nat
    PROVE  Follows(j, x)
  <1>1. LedgerOK /\ lastLogTerm(x) \in Nat
    BY Zenon, LogFacts, TermIsNat
  <1>2. lastLogTerm(x) \in 0..currentTerm'[j]
    BY <1>1
  <1>3. Within(x, lastLogTerm(x))'
    <2>1. PICK t : t = lastLogTerm(x)
      BY Zenon
    <2>2. Within(x, t)'
      BY Zenon, <1>1, <2>1, WithinGrows DEF Grows
    <2>3. QED
      BY Zenon, <2>1, <2>2
  <1>4. QED
    BY Zenon, <1>2, <1>3 DEF Follows

\* Where every log after a step comes from.
LEMMA LogStep ==
    ASSUME RaftInvariant, ElectionInv', Next, NEW j \in Server, NEW x \in Logs(j)'
    PROVE  Follows(j, x)
  <1>0. Grows /\ LedgerOK /\ x \in {log'[j], disk'[j].log}
    BY Zenon, NextGrows DEF RaftInvariant, LogInv, Logs
  <1>t. currentTerm'[j] \in Nat
    BY Zenon, TermIsNat DEF ElectionInv, ElectionTypeOK
  <1>o. x \in Logs(j) => Follows(j, x)
    <2> SUFFICES ASSUME x \in Logs(j) PROVE Follows(j, x)
      BY Zenon
    <2>1. IsLog(x) /\ Within(x, lastLogTerm(x)) /\ Alike(x, x)
      BY Zenon, LogFacts DEF Alike
    <2>2. QED
      BY Zenon, <1>0, <1>t, <2>1, OldFollows
  <1>f. /\ IsLog(log[j]) /\ lastLogTerm(log[j]) \in Term /\ log[j] \in Logs(j)
        /\ Within(log[j], lastLogTerm(log[j])) /\ lastLogTerm(log[j]) <= currentTerm[j]
        /\ lastLogTerm(log[j]) \in Nat /\ currentTerm[j] \in Nat
        /\ disk[j].log \in Logs(j)
    BY Zenon, LogFacts DEF Logs
  <1>1. CASE Still
    BY Zenon, <1>0, <1>1, <1>o DEF Still, Saves, Logs
  <1>2. ASSUME NEW i \in Server, Wins(i)
        PROVE  Follows(j, x)
    BY Zenon, <1>0, <1>2, <1>o DEF Wins, Logs
  <1>3. ASSUME NEW i \in Server, NEW cmd \in Command, Start(i, cmd)
        PROVE  Follows(j, x)
    <2>1. Only(i)
      BY <1>3, StartEffect, Zenon
    <2>2. CASE i # j
      BY Zenon, <1>0, <1>f, <1>o, <2>1, <2>2 DEF Only
    <2>3. CASE i = j
      <3>1. /\ role[j] = "Leader" /\ currentTerm'[j] = currentTerm[j] /\ x = log'[j]
            /\ IsLog(x) /\ x.last = log[j].last + 1 /\ lastLogTerm(x) = currentTerm[j]
            /\ x.first = log[j].first
            /\ x.ent[log[j].last + 1] = [term |-> currentTerm[j], cmd |-> cmd]
            /\ \A k \in log[j].first..log[j].last : x.ent[k] = log[j].ent[k]
        BY <1>0, <1>3, <2>3, StartEffect, SMTT(30)
      <3>2. PICK T : T = currentTerm[j]
        BY Zenon
      <3>3. PICK n : n = ledger[T].last + 1
        BY Zenon
      <3>4. /\ T \in Term /\ Decided(T)
            /\ ledger'[T].last = n /\ ledger'[T].ent[n] = [term |-> T, cmd |-> cmd] /\ Extends
        BY Zenon, <1>3, <2>3, <3>2, <3>3, StartLedger DEF RaftInvariant, LogInv
      <3>5. log[j].last = ledger[T].last /\ Within(log[j], T)
        BY Zenon, <3>1, <3>2 DEF RaftInvariant, LogInv, LogsOK
      <3>6. Within(x, T)'
        <4>0. PICK l : l = log[j]
          BY Zenon
        <4>1. Within(l, T)'
          BY <1>0, <1>f, <3>4, <3>5, <4>0, WithinGrows, ZenonT(40)
        <4>2. \A k \in x.first..x.last : k = n \/ k \in l.first..l.last
          <5>1. l.first \in Nat /\ l.last \in Nat
            BY Zenon, <1>f, <4>0, LogFacts
          <5>2. x.first = l.first /\ x.last = l.last + 1 /\ n = l.last + 1
            BY Zenon, <3>1, <3>3, <3>5, <4>0
          <5>3. QED
            BY <5>1, <5>2
        <4>3. x.last <= ledger'[T].last /\ x.ent[n] = ledger'[T].ent[n] /\ x.first = l.first
          <5>1. x.last = n /\ x.last = ledger'[T].last
            BY <3>1, <3>3, <3>4, <3>5, Zenon
          <5>2. x.ent[n] = [term |-> currentTerm[j], cmd |-> cmd]
            BY <3>1, <3>3, <3>5, Zenon
          <5>3. n \in Nat
            <6>1. log[j].last \in Nat
              BY <1>f, LogFacts, Zenon
            <6>2. n = log[j].last + 1
              BY <3>1, <5>1, Zenon
            <6>3. QED
              BY <6>1, <6>2
          <5>4. QED
            BY <3>1, <3>2, <3>4, <4>0, <5>1, <5>2, <5>3, SMTT(30)
        <4>4. \A k \in l.first..l.last :
                 /\ x.ent[k].term = ledger'[T].ent[k].term
                 /\ k > l.first => x.ent[k] = ledger'[T].ent[k]
          BY ZenonT(40), <3>1, <4>0, <4>1 DEF Within
        <4>5. QED
          BY Zenon, <4>2, <4>3, <4>4 DEF Within
      <3>7. Advance(log[j], x, T)
        <4>1. \A k \in Nat : k <= log[j].last => k <= x.last /\ Same(T, T, k)
          <5>1. /\ log[j].last \in Nat /\ x.last = log[j].last + 1
                /\ log[j].last = ledger[T].last
            BY Zenon, <1>f, <3>1, <3>5, LogFacts
          <5>2. \A k \in Nat : k <= log[j].last => Same(T, T, k)
            BY Zenon, <5>1 DEF Same
          <5>3. QED
            BY <5>1, <5>2
        <4>2. QED
          BY Zenon, <3>1, <3>2, <4>1 DEF Advance
      <3>8. lastLogTerm(x) = T /\ T \in 0..currentTerm'[j]
        <4>1. lastLogTerm(x) = T /\ currentTerm'[j] = T
          BY Zenon, <3>1, <3>2
        <4>2. T \in Nat
          BY Zenon, <1>f, <3>2
        <4>3. T \in 0..T
          BY <4>2
        <4>4. QED
          BY Zenon, <4>1, <4>3
      <3>9. QED
        BY Zenon, <1>f, <3>1, <3>2, <3>4, <3>6, <3>7, <3>8 DEF Follows
    <2>4. QED
      BY Zenon, <2>2, <2>3
  <1>4. ASSUME NEW i \in Server, Snapshot(i)
        PROVE  Follows(j, x)
    <2>1. Only(i)
      BY Zenon, <1>4, SnapshotEffect
    <2>2. CASE i # j
      BY Zenon, <1>0, <1>f, <1>o, <2>1, <2>2 DEF Only
    <2>3. CASE i = j
      <3>0. /\ service[j].index \in log[j].first..log[j].last
            /\ x = trimLogL(log[j], service[j].index)
        BY Zenon, <1>0, <1>4, <2>3, SnapshotEffect
      <3>1. PICK k \in log[j].first..log[j].last : x = trimLogL(log[j], k)
        BY Zenon, <3>0
      <3>2. IsLog(x) /\ Alike(log[j], x) /\ Within(x, lastLogTerm(x))
        BY Zenon, <1>f, <3>1, TrimOK DEF Alike
      <3>3. QED
        BY Zenon, <1>0, <1>t, <1>f, <3>2, OldFollows
    <2>4. QED
      BY Zenon, <2>2, <2>3
  <1>5. ASSUME NEW i \in Server, Restart(i)
        PROVE  Follows(j, x)
    <2>1. Only(i) /\ log'[i] = disk[i].log /\ disk' = disk
      BY Zenon, <1>5, RestartEffect
    <2>2. QED
      BY Zenon, <1>0, <1>f, <1>o, <2>1 DEF Only
  <1>6. ASSUME NEW i \in Server, NEW m \in msgs, AppendEntries(i, m)
        PROVE  Follows(j, x)
    <2>1. Only(i)
      BY Zenon, <1>6, AppendEffect
    <2>2. CASE i # j
      BY Zenon, <1>0, <1>f, <1>o, <2>1, <2>2 DEF Only
    <2>3. CASE i = j
      <3>1. /\ m.term \in Term /\ Decided(m.term) /\ AppendOK(m)
            /\ currentTerm[j] <= m.term /\ currentTerm'[j] = m.term
            /\ \/ x \in Logs(j)
               \/ x = AppendNewEntries(log[j], m) /\ ~PrevLogConflict(log[j], m)
        BY Zenon, <1>0, <1>6, <2>3, AppendEffect DEF Logs
      <3>2. CASE x \in Logs(j)
        BY Zenon, <3>2, <1>o
      <3>3. CASE x = AppendNewEntries(log[j], m) /\ ~PrevLogConflict(log[j], m) /\ x \notin Logs(j)
        <4>1. /\ IsLog(x) /\ lastLogTerm(x) \in Term /\ Within(x, lastLogTerm(x))
              /\ x = log[j] \/ lastLogTerm(x) <= m.term
              /\ Advance(log[j], x, m.term)
          BY Zenon, <1>0, <1>f, <3>1, <3>3, AppendNewOK
        <4>2. QED
          BY Zenon, <1>0, <1>f, <1>t, <3>1, <3>3, <4>1, NewFollows
      <3>4. QED
        BY Zenon, <3>1, <3>2, <3>3
    <2>4. QED
      BY Zenon, <2>2, <2>3
  <1>7. ASSUME NEW i \in Server, NEW m \in msgs, InstallSnapshot(i, m)
        PROVE  Follows(j, x)
    <2>1. Only(i)
      BY Zenon, <1>7, InstallEffect
    <2>2. CASE i # j
      BY Zenon, <1>0, <1>f, <1>o, <2>1, <2>2 DEF Only
    <2>3. CASE i = j
      <3>1. /\ m.term \in Term /\ Decided(m.term) /\ InstallOK(m)
            /\ currentTerm[j] <= m.term /\ currentTerm'[j] = m.term
            /\ \/ x \in Logs(j)
               \/ x = InstalledLog(log[j], m.snapshot) /\ m.snapshot.index > log[j].first
        BY Zenon, <1>0, <1>7, <2>3, InstallEffect DEF Logs
      <3>2. CASE x \in Logs(j)
        BY Zenon, <3>2, <1>o
      <3>3. CASE x = InstalledLog(log[j], m.snapshot) /\ m.snapshot.index > log[j].first
        <4>1. /\ IsLog(x) /\ lastLogTerm(x) \in Term /\ Within(x, lastLogTerm(x))
              /\ \/ x.last = log[j].last /\ lastLogTerm(x) = lastLogTerm(log[j])
                 \/ lastLogTerm(x) <= m.term
              /\ Advance(log[j], x, m.term)
          BY ZenonT(40), <1>0, <1>f, <3>1, <3>3, InstalledOK
        <4>2. lastLogTerm(x) <= m.term
          BY <1>f, <1>t, <3>1, <4>1, SMTT(30)
        <4>3. QED
          BY Zenon, <1>0, <1>f, <1>t, <3>1, <4>1, <4>2, NewFollows
      <3>4. QED
        BY Zenon, <3>1, <3>2, <3>3
    <2>4. QED
      BY Zenon, <2>2, <2>3
  <1>8. QED
    BY Zenon, <1>1, <1>2, <1>3, <1>4, <1>5, <1>6, <1>7, StepKinds DEF RaftInvariant

-----------------------------------------------------------------------------
(***************************************************************************)
(* Every step: logs stay stretches of ledgers, and messages say what is    *)
(* true of them.                                                           *)
(***************************************************************************)


\* A peer that leads the term of another election does not lead that one's.
LEMMA OtherLeader ==
    ASSUME ElectionInv, NEW i \in Server, NEW j \in Server, i # j, role[j] = "Leader",
           role[i] = "Leader" \/ ~Decided(currentTerm[i])
    PROVE  currentTerm[j] # currentTerm[i]
  BY DEF ElectionInv, LeadersWereElected, ElectionSafety, Decided

\* The log of a leader is the end of its ledger.
LEMMA LeaderLog ==
    ASSUME RaftInvariant, NEW i \in Server, role[i] = "Leader"
    PROVE  /\ Decided(currentTerm[i]) /\ Within(log[i], currentTerm[i])
           /\ log[i].last = ledger[currentTerm[i]].last
           /\ Same(currentTerm[i], lastLogTerm(log[i]), log[i].last)
  <1>1. /\ Decided(currentTerm[i]) /\ Within(log[i], currentTerm[i])
        /\ log[i].last = ledger[currentTerm[i]].last
    BY Zenon DEF RaftInvariant, LogInv, LogsOK, ElectionInv, LeadersWereElected, Decided
  <1>2. QED
    BY Zenon, <1>1, LogFacts, LastHas DEF Logs

\* LogsOK survives every step.
LEMMA NextLogsOK ==
    ASSUME RaftInvariant, ElectionInv', Next
    PROVE  LogsOK'
  <1>0. /\ ElectionInv /\ LedgerOK /\ LogsOK /\ MessagesOK /\ Grows
        /\ role \in [Server -> {"Follower", "Candidate", "Leader"}]
    BY Zenon, NextGrows DEF RaftInvariant, LogInv, ElectionInv, ElectionTypeOK
  <1>1. ASSUME NEW j \in Server, role'[j] = "Leader"
        PROVE  /\ Within(log[j], currentTerm[j])'
               /\ log'[j].last = ledger'[currentTerm'[j]].last
    <2>0. \A i \in Server : role[i] = "Leader" =>
             Within(log[i], currentTerm[i]) /\ log[i].last = ledger[currentTerm[i]].last
      BY Zenon, <1>0 DEF LogsOK
    <2>1. PICK T : T = currentTerm[j]
      BY Zenon
    <2>2. T \in Term /\ IsLog(log[j])
      BY Zenon, <2>1, LogFacts DEF Logs
    <2>s. ASSUME role[j] = "Leader", currentTerm'[j] = T, log'[j] = log[j], ledger'[T] = ledger[T]
          PROVE  /\ Within(log[j], currentTerm[j])'
                 /\ log'[j].last = ledger'[currentTerm'[j]].last
      BY <2>0, <2>1, <2>s DEF Within
    <2>3. CASE Still
      BY Zenon, <1>1, <2>1, <2>3, <2>s DEF Still
    <2>4. ASSUME NEW i \in Server, Wins(i)
          PROVE  /\ Within(log[j], currentTerm[j])'
                 /\ log'[j].last = ledger'[currentTerm'[j]].last
      <3>1. /\ UNCHANGED <<currentTerm, log>> /\ role' = [role EXCEPT ![i] = "Leader"]
            /\ ~Decided(currentTerm[i])
        BY Zenon, <1>0, <2>4, WinsFirst
      <3>2. PICK u : u = lastLogTerm(log[i])
        BY Zenon
      <3>3. /\ ledger'[currentTerm[i]].last = log[i].last
            /\ \A k \in 0..log[i].last : ledger'[currentTerm[i]].ent[k] = ledger[u].ent[k]
            /\ \A t \in Term : t # currentTerm[i] => ledger'[t] = ledger[t]
        BY ZenonT(40), <1>0, <2>4, <3>2, WinsLedger
      <3>4. CASE i = j
        <4>1. /\ Within(log[j], u) /\ log[j].first \in Nat /\ log[j].last \in Nat
          BY Zenon, <3>2, <3>4, LogFacts DEF Logs
        <4>2. \A k \in log[j].first..log[j].last : ledger'[T].ent[k] = ledger[u].ent[k]
          BY <2>1, <3>3, <3>4, <4>1
        <4>3. QED
          BY <2>1, <3>1, <3>3, <3>4, <4>1, <4>2 DEF Within
      <3>5. CASE i # j
        <4>1. role[j] = "Leader"
          BY Zenon, <1>0, <1>1, <3>1, <3>5
        <4>2. currentTerm[j] # currentTerm[i]
          BY Zenon, <1>0, <3>1, <3>5, <4>1, OtherLeader
        <4>3. QED
          BY Zenon, <2>1, <2>2, <2>s, <3>1, <3>3, <4>1, <4>2
      <3>6. QED
        BY Zenon, <3>4, <3>5
    <2>5. ASSUME NEW i \in Server, NEW cmd \in Command, Start(i, cmd)
          PROVE  /\ Within(log[j], currentTerm[j])'
                 /\ log'[j].last = ledger'[currentTerm'[j]].last
      <3>1. /\ UNCHANGED <<currentTerm, role>> /\ role[i] = "Leader" /\ Only(i)
            /\ log'[i].last = log[i].last + 1 /\ lastLogTerm(log[i])' = currentTerm[i]
        BY <2>5, StartEffect, Zenon
      <3>2. /\ ledger'[currentTerm[i]].last = ledger[currentTerm[i]].last + 1
            /\ \A t \in Term : t # currentTerm[i] => ledger'[t] = ledger[t]
        BY Zenon, <1>0, <2>5, StartLedger
      <3>3. CASE i = j
        <4>1. PICK x : x = log'[j]
          BY Zenon
        <4>2. Follows(j, x)
          BY Zenon, <4>1, LogStep DEF Logs
        <4>3. Within(x, lastLogTerm(x))' /\ lastLogTerm(x) = T
          BY Zenon, <2>1, <3>1, <3>3, <4>1, <4>2 DEF Follows
        <4>4. Within(log[j], currentTerm[j])'
          BY Zenon, <2>1, <3>1, <4>1, <4>3
        <4>5. QED
          BY Zenon, <1>1, <2>0, <3>1, <3>2, <3>3, <4>4
      <3>4. CASE i # j
        <4>1. role[j] = "Leader" /\ currentTerm[j] # currentTerm[i]
          BY Zenon, <1>0, <1>1, <3>1, <3>4, OtherLeader
        <4>2. QED
          BY Zenon, <2>1, <2>2, <2>s, <3>1, <3>2, <3>4, <4>1 DEF Only
      <3>5. QED
        BY Zenon, <3>3, <3>4
    <2>6. ASSUME NEW i \in Server, Snapshot(i)
          PROVE  /\ Within(log[j], currentTerm[j])'
                 /\ log'[j].last = ledger'[currentTerm'[j]].last
      <3>1. /\ Only(i) /\ UNCHANGED <<currentTerm, role, ledger>>
            /\ service[i].index \in log[i].first..log[i].last
            /\ log'[i] = trimLogL(log[i], service[i].index)
        BY <2>6, SnapshotEffect, Zenon
      <3>2. CASE i = j
        <4>1. PICK x : x = log'[j]
          BY Zenon
        <4>2. Within(x, T) /\ x.last = log[j].last
          BY <1>1, <2>0, <2>1, <2>2, <3>1, <3>2, <4>1, TrimOK
        <4>3. QED
          BY Zenon, <1>1, <2>0, <2>1, <3>1, <4>1, <4>2 DEF Within
      <3>3. CASE i # j
        BY Zenon, <1>1, <2>1, <2>s, <3>1, <3>3 DEF Only
      <3>4. QED
        BY Zenon, <3>2, <3>3
    <2>7. ASSUME NEW i \in Server,
                 \/ Restart(i)
                 \/ \E m \in msgs : AppendEntries(i, m) \/ InstallSnapshot(i, m)
          PROVE  /\ Within(log[j], currentTerm[j])'
                 /\ log'[j].last = ledger'[currentTerm'[j]].last
      <3>1. Only(i) /\ role'[i] # "Leader" /\ ledger' = ledger
        BY Zenon, <2>7, RestartEffect, AppendEffect, InstallEffect
      <3>2. QED
        BY Zenon, <1>1, <2>1, <2>s, <3>1 DEF Only
    <2>8. QED
      BY Zenon, <1>0, <2>3, <2>4, <2>5, <2>6, <2>7, StepKinds
  <1>2. ASSUME NEW j \in Server, NEW x \in Logs(j)'
        PROVE  IsLog(x) /\ lastLogTerm(x) \in 0..currentTerm'[j] /\ Within(x, lastLogTerm(x))'
    BY Zenon, LogStep DEF Follows
  <1>3. QED
    BY Zenon, <1>1, <1>2 DEF LogsOK

-----------------------------------------------------------------------------
(***************************************************************************)
(* Leaders have what is committed.  Of the leaders of later terms that     *)
(* might lack an entry that was counted, take the first.  One of its       *)
(* voters was counted and keeps the entry, as no earlier leader lacks it.  *)
(* It voted for a log that ends in a later term than the entry, whose      *)
(* leader has it, or in the same term and not before it.                   *)
(***************************************************************************)
LEMMA LeaderHasCommit ==
    ASSUME RaftInvariant, QuorumsMeet, NEW c \in commits, NEW v \in Term, Decided(v), v > c.term
    PROVE  Has(v, c.index, c.term)
  <1>0. /\ ElectionInv /\ LedgerOK /\ MessagesOK /\ ElectedOK /\ VoteOK
        /\ c.term \in Term /\ c.index \in Nat /\ Has(c.term, c.index, c.term)
        /\ c.quorum \subseteq Server
    BY Zenon DEF RaftInvariant, LogInv, CommitsOK
  <1>1. PICK t : t = c.term
    BY Zenon
  <1>2. PICK n : n = c.index
    BY Zenon
  <1> DEFINE Lacks == {w \in Term : Decided(w) /\ w > t /\ ~Has(w, n, t)}
  <1>3. ASSUME Lacks # {}
        PROVE  FALSE
    <2>1. PICK u \in Lacks : \A w \in Lacks : u <= w
      BY Zenon, <1>3, TermIsNat, LeastExists
    <2>2. u \in Term /\ Decided(u) /\ u > t /\ ~Has(u, n, t)
      BY Zenon
    <2>3. u \in Nat /\ t \in Term /\ t \in Nat /\ n \in Nat /\ Has(t, n, t)
      BY Zenon, <1>0, <1>1, <1>2, <2>2, TermIsNat
    <2>4. \A w \in Term : Decided(w) /\ w > t /\ w < u => Has(w, n, t)
      BY <2>1, <2>3, TermIsNat
    <2> HIDE DEF Lacks
    <2>5. PICK e \in elections : e.term = u
      BY Zenon, <2>2 DEF Decided
    <2>6. PICK s \in e.voters : s \in c.quorum
      BY Zenon DEF QuorumsMeet
    <2>7. Pledged(s, n, t) /\ s \in Server
      BY Zenon, <1>0, <1>1, <1>2, <2>3, <2>6 DEF Pledged, Counted
    <2>8. PICK m \in msgs : m.type = "RequestVote" /\ m.src = e.leader /\ m.term = u
      BY Zenon, <1>0, <2>5 DEF ElectedOK, Campaigned
    <2>9. VoteCounts(s, m)
      BY Zenon, <1>0, <2>5, <2>6, <2>8 DEF VoteCounts, ElectionInv, VotersAreBound, ElectionSafety
    <2>10. Safe(n, t, m.term - 1)
      <3>1. \A w \in Term : w <= u - 1 => w < u
        BY <2>3, TermIsNat
      <3>2. QED
        BY Zenon, <2>4, <2>8, <3>1 DEF Safe
    <2>11. Covers(m, n, t)
      <3>1. n \in 0..ledger[t].last
        BY Zenon, <2>3 DEF Has
      <3>2. QED
        BY Zenon, <1>0, <2>2, <2>3, <2>7, <2>8, <2>9, <2>10, <3>1 DEF VoteOK
    <2>12. PICK w : w = m.lastLogTerm
      BY Zenon
    <2>13. PICK q : q = m.lastLogIndex
      BY Zenon
    <2>14. /\ w \in 0..(u - 1) /\ Has(w, q, w) /\ Has(u, q, w)
      BY Zenon, <1>0, <2>5, <2>8, <2>12, <2>13 DEF MessagesOK, MessageOK, RequestOK, ElectedOK
    <2>15. w \in Term /\ w \in Nat /\ w < u /\ q \in Nat /\ Same(w, u, q)
      BY <1>0, <2>2, <2>3, <2>14, HasSame, SameSym
    <2>16. Has(w, n, t) /\ n <= q
      <3>1. CASE w = t
        BY <2>3, <2>11, <2>12, <2>13, <3>1, SMTT(30) DEF Covers
      <3>2. CASE w > t
        <4>1. Has(w, n, t)
          BY <1>0, <2>2, <2>3, <2>4, <2>14, <2>15, <3>2, TermIsDecided
        <4>2. CASE q <= n
          <5>1. w <= t
            BY Zenon, <1>0, <2>14, <2>15, <4>1, <4>2, TermsGrow
          <5>2. QED
            BY <2>3, <2>15, <3>2, <5>1
        <4>3. QED
          BY <2>3, <2>15, <4>1, <4>2
      <3>3. QED
        BY Zenon, <2>11, <2>12, <3>1, <3>2 DEF Covers
    <2>17. QED
      BY <1>0, <2>2, <2>3, <2>15, <2>16, SameHas
  <1>4. QED
    BY Zenon, <1>1, <1>2, <1>3

\* The leader of a term has what is committed in it or before.
LEMMA LeaderAgrees ==
    ASSUME RaftInvariant, QuorumsMeet, NEW c \in commits, NEW v \in Term, Decided(v), c.term <= v
    PROVE  Has(v, c.index, c.term) /\ Same(v, c.term, c.index)
  <1>1. LedgerOK /\ c.term \in Term /\ Has(c.term, c.index, c.term)
    BY Zenon DEF RaftInvariant, LogInv, CommitsOK
  <1>2. Has(v, c.index, c.term)
    <2>1. CASE v = c.term
      BY Zenon, <1>1, <2>1
    <2>2. CASE v # c.term
      <3>1. v > c.term
        <4>1. v \in Nat /\ c.term \in Nat
          BY Zenon, <1>1, TermIsNat
        <4>2. QED
          BY <2>2, <4>1
      <3>2. QED
        BY Zenon, <3>1, LeaderHasCommit
    <2>3. QED
      BY Zenon, <2>1, <2>2
  <1>3. QED
    BY Zenon, <1>1, <1>2, HasSame

\* Two commits agree on what both cover.
LEMMA CommitsAgree ==
    ASSUME RaftInvariant, QuorumsMeet, NEW c \in commits, NEW d \in commits, NEW n \in Nat,
           n <= c.index, n <= d.index
    PROVE  Same(c.term, d.term, n)
  <1>1. /\ LedgerOK /\ c.term \in Term /\ d.term \in Term
        /\ c.index \in Nat /\ d.index \in Nat
        /\ Has(c.term, c.index, c.term) /\ Has(d.term, d.index, d.term)
        /\ c.term = 0 \/ Decided(c.term)
        /\ d.term = 0 \/ Decided(d.term)
    BY Zenon DEF RaftInvariant, LogInv, CommitsOK
  <1>2. c.term \in Nat /\ d.term \in Nat
    BY Zenon, <1>1, TermIsNat
  <1>3. ASSUME NEW a \in commits, NEW b \in commits, a.term \in Nat, b.term \in Nat,
               a.term \in Term, b.term \in Term, a.index \in Nat, n <= a.index,
               a.term < b.term, b.term = 0 \/ Decided(b.term)
        PROVE  Same(b.term, a.term, n)
    <2>1. Same(b.term, a.term, a.index)
      BY <1>3, LeaderAgrees
    <2>2. QED
      BY <1>1, <1>3, <2>1, SameDown
  <1>4. CASE c.term = d.term
    <2>1. Same(c.term, c.term, c.index)
      BY Zenon, <1>1, HasSame
    <2>2. QED
      BY <1>1, <1>4, <2>1, SameDown
  <1>5. CASE c.term # d.term
    <2>1. c.term < d.term \/ d.term < c.term
      BY <1>2, <1>5
    <2>2. QED
      BY Zenon, <1>1, <1>2, <1>3, <2>1, SameSym
  <1>6. QED
    BY Zenon, <1>4, <1>5

-----------------------------------------------------------------------------
(***************************************************************************)
(* Messages.                                                               *)
(***************************************************************************)

\* What was known to be committed stays known.
LEMMA KnownGrows ==
    ASSUME Grows, NEW n, NEW t, Known(n, t)
    PROVE  Known(n, t)'
  BY Zenon DEF Known, Grows

\* The commands of a snapshot stay those of the ledger.
LEMMA ContentGrows ==
    ASSUME LedgerOK, Extends, NEW data, NEW t \in Term, NEW n, n \in 0..ledger[t].last,
           Content(data, n, t)
    PROVE  Content(data, n, t)'
  <1>1. ledger[t].last \in Nat
    BY Zenon, LedgerType
  <1>2. \A k \in 1..n : ledger'[t].ent[k] = ledger[t].ent[k]
    BY <1>1 DEF Extends
  <1>3. QED
    BY Zenon, <1>2 DEF Content

\* What was true when it was sent remains true.
LEMMA MessageStaysOK ==
    ASSUME RaftInvariant, Grows, ElectionInv', NEW m, MessageOK(m),
           m.term \in Term, m.src \in Server
    PROVE  MessageOK(m)'
  <1>0. LedgerOK /\ Extends
    BY Zenon DEF RaftInvariant, LogInv, Grows
  <1>1. m.type = "RequestVote" => RequestOK(m)'
    <2> SUFFICES ASSUME m.type = "RequestVote" PROVE RequestOK(m)'
      BY Zenon
    <2>1. RequestOK(m)
      BY Zenon DEF MessageOK
    <2>2. PICK t : t = m.lastLogTerm
      BY Zenon
    <2>3. t \in Term
      BY <1>0, <2>1, <2>2, BoundsAssumption DEF RequestOK, Term
    <2>4. Has(t, m.lastLogIndex, t)'
      BY Zenon, <1>0, <2>1, <2>2, <2>3, HasGrows DEF RequestOK
    <2>5. QED
      BY Zenon, <2>1, <2>2, <2>4 DEF RequestOK
  <1>2. m.type = "AppendEntries" => AppendOK(m)'
    <2> SUFFICES ASSUME m.type = "AppendEntries" PROVE AppendOK(m)'
      BY Zenon
    <2>1. AppendOK(m)
      BY Zenon DEF MessageOK
    <2>2. ledger[m.term].last \in Nat
      BY ZenonT(40), <1>0, LedgerType
    <2>3. /\ ledger'[m.term].last \in Nat /\ ledger[m.term].last <= ledger'[m.term].last
          /\ \A k \in 0..m.lastIndex : ledger'[m.term].ent[k] = ledger[m.term].ent[k]
      BY <1>0, <2>1, <2>2 DEF Extends, AppendOK
    <2>4. Known(m.leaderCommit, m.term)'
      BY ZenonT(40), <2>1, KnownGrows DEF AppendOK
    <2>5. /\ m.prevLogIndex \in 0..m.lastIndex /\ m.lastIndex <= ledger'[m.term].last
          /\ \A k \in (m.prevLogIndex + 1)..m.lastIndex : k \in 0..m.lastIndex
      BY <2>1, <2>2, <2>3 DEF AppendOK
    <2>6. QED
      BY Zenon, <2>1, <2>3, <2>4, <2>5 DEF AppendOK
  <1>3. m.type = "InstallSnapshot" => InstallOK(m)'
    <2> SUFFICES ASSUME m.type = "InstallSnapshot" PROVE InstallOK(m)'
      BY Zenon
    <2>1. InstallOK(m)
      BY Zenon DEF MessageOK
    <2>2. Known(m.snapshot.index, m.term)' /\ Has(m.term, m.snapshot.index, m.snapshot.term)'
      BY Zenon, <1>0, <2>1, KnownGrows, HasGrows DEF InstallOK
    <2>3. Content(m.snapshot.data, m.snapshot.index, m.term)'
      BY ZenonT(40), <1>0, <2>1, ContentGrows DEF InstallOK, Has
    <2>4. QED
      BY Zenon, <2>1, <2>2, <2>3 DEF InstallOK
  <1>4. m.type = "AppendEntriesReply" => AppendReplyOK(m)'
    <2> SUFFICES ASSUME m.type = "AppendEntriesReply" PROVE AppendReplyOK(m)'
      BY Zenon
    <2>1. AppendReplyOK(m) /\ m.argsTerm \in Term
      BY Zenon DEF MessageOK, AppendReplyOK
    <2>2. /\ ledger[m.argsTerm].last \in Nat /\ ledger'[m.argsTerm].last \in Nat
          /\ ledger[m.argsTerm].last <= ledger'[m.argsTerm].last
      BY Zenon, <1>0, <2>1, LedgerType DEF Extends
    <2>3. m.success => m.argsTerm <= currentTerm'[m.src]
      <3>1. currentTerm[m.src] <= currentTerm'[m.src]
        BY Zenon DEF Grows
      <3>2. currentTerm[m.src] \in Nat /\ currentTerm'[m.src] \in Nat /\ m.argsTerm \in Nat
        BY Zenon, <2>1, TermIsNat DEF RaftInvariant, ElectionInv, ElectionTypeOK
      <3>3. QED
        BY <2>1, <3>1, <3>2 DEF AppendReplyOK
    <2>4. AppendSent(m.argsTerm, m.lastIndex)'
      BY Zenon, <2>1 DEF AppendReplyOK, AppendSent, Grows
    <2>5. QED
      BY <2>1, <2>2, <2>3, <2>4 DEF AppendReplyOK
  <1>5. m.type = "InstallSnapshotReply" => InstallReplyOK(m)'
    BY Zenon DEF MessageOK, InstallReplyOK, InstallSent, Grows
  <1>6. m.type = "RequestVoteReply" => Campaigned(m.dst, m.argsTerm)'
    BY Zenon DEF MessageOK, Campaigned, Grows
  <1>7. QED
    BY Zenon, <1>1, <1>2, <1>3, <1>4, <1>5, <1>6 DEF MessageOK

\* becomeCandidateL sends what MessagesOK says.
LEMMA RequestSentOK ==
    ASSUME RaftInvariant, NEW i \in Server, becomeCandidateL(i), NEW m \in msgs' \ msgs
    PROVE  MessageOK(m) /\ m.term \in Term /\ m.src \in Server
  <1>1. /\ m.type = "RequestVote" /\ m.term = currentTerm[i] + 1 /\ m.src = i
        /\ m.lastLogIndex = log[i].last /\ m.lastLogTerm = lastLogTerm(log[i])
        /\ currentTerm[i] < MaxTerm
    BY DEF becomeCandidateL, Send
  <1>2. /\ currentTerm[i] \in Nat /\ lastLogTerm(log[i]) \in Nat
        /\ lastLogTerm(log[i]) <= currentTerm[i]
        /\ Has(lastLogTerm(log[i]), log[i].last, lastLogTerm(log[i]))
    BY Zenon, LogFacts DEF Logs
  <1>3. m.term \in Term /\ m.lastLogTerm \in 0..(m.term - 1)
    BY <1>1, <1>2, BoundsAssumption DEF Term
  <1>4. QED
    BY ZenonT(40), <1>1, <1>2, <1>3 DEF MessageOK, RequestOK

\* A snapshot's commands are those of the leader of any term that agrees.
LEMMA ContentMoves ==
    ASSUME NEW data, NEW n \in Nat, NEW t, NEW u, Content(data, n, t), Same(t, u, n)
    PROVE  Content(data, n, u)
  BY DEF Content, Same

\* append sends what MessagesOK says.
LEMMA AppendSentOK ==
    ASSUME RaftInvariant, NEW i \in Server, NEW j \in Server, append(i, j)
    PROVE  LET m == appendArgs(i, j)
           IN  MessageOK(m) /\ m.term \in Term /\ m.src \in Server
  <1>0. /\ LedgerOK /\ LogTypeOK /\ CoverOK /\ IndexOK /\ SnapshotsOK /\ role[i] = "Leader"
    BY Zenon DEF RaftInvariant, LogInv, append
  <1>1. PICK T : T = currentTerm[i]
    BY Zenon
  <1>2. PICK l : l = log[i]
    BY Zenon
  <1>3. /\ T \in Term /\ Within(l, T) /\ l.last = ledger[T].last
        /\ Same(T, lastLogTerm(l), l.last)
        /\ IsLog(l) /\ l.first \in Nat /\ l.last \in Nat /\ l.first <= l.last
        /\ lastLogTerm(l) \in Term
    BY Zenon, <1>0, <1>1, <1>2, LeaderLog, LogFacts DEF Logs
  <1>4. /\ nextIndex[i][j] \in Nat /\ nextIndex[i][j] <= l.last + 1
        /\ commitIndex[i] \in Nat /\ snapshot[i] \in SnapshotType
    <2>1. nextIndex[i][j] \in Nat /\ commitIndex[i] \in Nat /\ snapshot[i] \in SnapshotType
      BY <1>0 DEF LogTypeOK
    <2>2. nextIndex[i][j] <= log[i].last + 1
      BY <1>0, Zenon DEF IndexOK
    <2>3. QED
      BY Zenon, <1>2, <2>1, <2>2
  <1>5. commitIndex[i] <= l.last /\ Known(commitIndex[i], T) /\ Known(l.first, T)
    BY Zenon, <1>0, <1>1, <1>2 DEF CoverOK, Committed, Known, Logs
  <1>6. CASE nextIndex[i][j] <= l.first
    <2>1. PICK m : m = appendArgs(i, j)
      BY Zenon
    <2>2. /\ m.type = "InstallSnapshot" /\ m.term = T /\ m.src = i /\ m.snapshot = snapshot[i]
      BY Zenon, <1>1, <1>2, <1>6, <2>1 DEF appendArgs
    <2>3. /\ m.snapshot.index = l.first /\ m.snapshot.term = l.ent[l.first].term
          /\ Content(m.snapshot.data, l.first, lastLogTerm(l))
      BY Zenon, <1>0, <1>2, <2>2 DEF SnapshotsOK
    <2>4. Has(T, l.first, l.ent[l.first].term)
      BY <1>0, <1>3, EntryHas
    <2>5. Content(m.snapshot.data, l.first, T)
      <3>1. Same(lastLogTerm(l), T, l.first)
        BY <1>0, <1>3, SameDown, SameSym
      <3>2. QED
        BY Zenon, <1>3, <2>3, <3>1, ContentMoves
    <2>6. InstallOK(m)
      BY Zenon, <1>4, <1>5, <2>2, <2>3, <2>4, <2>5 DEF InstallOK
    <2>7. QED
      BY Zenon, <1>3, <2>1, <2>2, <2>6 DEF MessageOK
  <1>7. CASE ~(nextIndex[i][j] <= l.first)
    <2>1. PICK m : m = appendArgs(i, j)
      BY Zenon
    <2>2. PICK next : next = nextIndex[i][j]
      BY Zenon
    <2>3. /\ m.type = "AppendEntries" /\ m.term = T /\ m.src = i
          /\ m.prevLogIndex = next - 1 /\ m.prevLogTerm = l.ent[next - 1].term
          /\ m.lastIndex = l.last /\ m.leaderCommit = commitIndex[i]
          /\ m.entries = [k \in next..l.last |-> l.ent[k]]
      BY ZenonT(40), <1>1, <1>2, <1>7, <2>1, <2>2 DEF appendArgs, makeAppendArgsL, LastSent
    <2>4. next - 1 \in l.first..l.last /\ next - 1 \in Nat /\ (next - 1) + 1 = next
      BY <1>3, <1>4, <1>7, <2>2, SMTT(30)
    <2>5. \A k \in next..l.last : k \in l.first..l.last /\ k > l.first
      BY <1>3, <2>4
    <2>6. /\ l.ent[next - 1].term = ledger[T].ent[next - 1].term
          /\ \A k \in next..l.last : l.ent[k] = ledger[T].ent[k]
      BY ZenonT(40), <1>3, <2>4, <2>5 DEF Within
    <2>7. AppendOK(m)
      <3>1. m.prevLogIndex <= m.lastIndex /\ m.lastIndex <= ledger[T].last
        BY <1>3, <2>3, <2>4
      <3>2. QED
        BY <1>3, <1>4, <1>5, <2>3, <2>4, <2>6, <3>1, SMTT(30) DEF AppendOK
    <2>8. QED
      BY Zenon, <1>3, <2>1, <2>3, <2>7 DEF MessageOK
  <1>8. QED
    BY Zenon, <1>6, <1>7

\* The hint of a refusal lies within the log of the leader, or just past it.
LEMMA HintOK ==
    ASSUME LedgerOK, NEW l, IsLog(l), lastLogTerm(l) \in Term, Within(l, lastLogTerm(l)),
           NEW m, m.term \in Term, AppendOK(m), PrevLogConflict(l, m),
           l.first <= ledger[m.term].last
    PROVE  /\ ConflictHint(l, m)[2] \in 0..(ledger[m.term].last + 1)
           /\ ConflictHint(l, m)[1] # NoTerm => m.prevLogIndex > 0
  <1>1. /\ l.first \in Nat /\ l.last \in Nat /\ m.prevLogIndex \in Nat
        /\ m.prevLogIndex <= ledger[m.term].last /\ ledger[m.term].last \in Nat
        /\ m.prevLogTerm = ledger[m.term].ent[m.prevLogIndex].term
    BY LedgerType, SMTT(30) DEF IsLog, AppendOK
  <1>2. CASE l.last < m.prevLogIndex
    BY <1>1, <1>2, SMTT(30) DEF ConflictHint
  <1>3. CASE l.first > m.prevLogIndex /\ ~(l.last < m.prevLogIndex)
    BY <1>1, <1>3, SMTT(30) DEF ConflictHint
  <1>4. CASE ~(l.first > m.prevLogIndex) /\ ~(l.last < m.prevLogIndex)
    <2> DEFINE term == l.ent[m.prevLogIndex].term
               others == {k \in (l.first + 1)..(m.prevLogIndex - 1) : l.ent[k].term # term}
    <2>1. ConflictHint(l, m)[2] = IF others # {} THEN Max(others) + 1
                                  ELSE Min({l.first, m.prevLogIndex - 1})
      BY Zenon, <1>4 DEF ConflictHint
    <2>2. m.prevLogIndex > 0
      <3>1. CASE m.prevLogIndex = 0
        <4>1. l.first = 0 /\ l.ent[0].term = ledger[lastLogTerm(l)].ent[0].term
          BY <1>1, <1>4, <3>1 DEF Within
        <4>2. l.ent[0].term = ledger[m.term].ent[0].term
          BY Zenon, <4>1 DEF LedgerOK
        <4>3. QED
          BY Zenon, <1>1, <1>4, <3>1, <4>2 DEF PrevLogConflict
      <3>2. QED
        BY <1>1, <3>1
    <2>3. CASE others # {}
      <3>1. others \in SUBSET Nat /\ \A y \in others : y <= m.prevLogIndex
        BY <1>1
      <3>2. Max(others) \in others
        BY <1>1, <2>3, <3>1, MaxIs, Zenon
      <3>3. Max(others) \in (l.first + 1)..(m.prevLogIndex - 1)
        BY Zenon, <3>2
      <3> HIDE DEF others
      <3>4. QED
        BY <1>1, <2>1, <2>2, <2>3, <3>3, SMTT(30)
    <2>4. CASE others = {}
      <3>1. {l.first, m.prevLogIndex - 1} \in SUBSET Nat /\ {l.first, m.prevLogIndex - 1} # {}
        BY <1>1, <2>2
      <3>2. Min({l.first, m.prevLogIndex - 1}) \in {l.first, m.prevLogIndex - 1}
        BY Zenon, <3>1, MinIs
      <3>3. QED
        <4>1. PICK h : h = ConflictHint(l, m)[2]
          BY Zenon
        <4>2. h \in {l.first, m.prevLogIndex - 1}
          BY ZenonT(40), <2>1, <2>4, <3>2, <4>1
        <4> HIDE DEF others
        <4>3. h \in 0..(ledger[m.term].last + 1)
          BY <1>1, <2>2, <4>2
        <4>4. QED
          BY Zenon, <2>2, <4>1, <4>3
    <2>5. QED
      BY Zenon, <2>2, <2>3, <2>4
  <1>5. QED
    BY ZenonT(40), <1>1, <1>2, <1>3, <1>4

\* Where a new message comes from.
LEMMA SentKinds ==
    ASSUME RaftInvariant, Next, NEW m \in msgs' \ msgs
    PROVE  \E i \in Server :
              \/ becomeCandidateL(i)
              \/ \E r \in msgs : /\ RequestVote(i, r) /\ m.type = "RequestVoteReply"
                                 /\ m.src = i /\ m.dst = r.src /\ m.argsTerm = r.term
              \/ \E j \in Server : append(i, j) /\ m = appendArgs(i, j)
              \/ \E r \in msgs : /\ AppendEntries(i, r) \/ AppendEntriesStale(i, r)
                                 /\ m = appendReply(i, r)
              \/ \E r \in msgs : /\ InstallSnapshot(i, r) \/ InstallSnapshotStale(i, r)
                                 /\ m = installReply(i, r)
  <1>1. ASSUME NEW i \in Server, Step(i)
        PROVE  \/ becomeCandidateL(i)
               \/ \E j \in Server : append(i, j) /\ m = appendArgs(i, j)
    <2>1. ~(\/ \E cmd \in Command : Start(i, cmd)
            \/ Snapshot(i) \/ apply(i) \/ receiveApplyMsg(i) \/ Restart(i))
      <3>1. \A cmd \in Command : Start(i, cmd) => UNCHANGED msgs
        BY Zenon DEF Start
      <3>2. Snapshot(i) \/ Restart(i) => UNCHANGED msgs
        BY Zenon DEF Snapshot, Restart
      <3>3. apply(i) \/ receiveApplyMsg(i) => UNCHANGED msgs
        BY Zenon DEF apply, receiveApplyMsg
      <3>4. QED
        BY Zenon, <3>1, <3>2, <3>3
    <2>2. QED
      BY Zenon, <1>1, <2>1 DEF Step, append, Send
  <1>2. ASSUME NEW r \in msgs, Receive(r.dst, r)
        PROVE  \/ /\ RequestVote(r.dst, r) /\ m.type = "RequestVoteReply"
                  /\ m.src = r.dst /\ m.dst = r.src /\ m.argsTerm = r.term
               \/ /\ AppendEntries(r.dst, r) \/ AppendEntriesStale(r.dst, r)
                  /\ m = appendReply(r.dst, r)
               \/ /\ InstallSnapshot(r.dst, r) \/ InstallSnapshotStale(r.dst, r)
                  /\ m = installReply(r.dst, r)
    <2>1. ~(\/ processRequestReplyL(r.dst, r) \/ processAppendReplyL(r.dst, r)
            \/ processInstallReplyL(r.dst, r))
      <3>1. processRequestReplyL(r.dst, r) \/ processInstallReplyL(r.dst, r) => UNCHANGED msgs
        BY Zenon DEF processRequestReplyL, processInstallReplyL
      <3>2. processAppendReplyL(r.dst, r) => UNCHANGED msgs
        BY Zenon DEF processAppendReplyL
      <3>3. QED
        BY Zenon, <3>1, <3>2
    <2>2. CASE RequestVote(r.dst, r)
      <3>1. PICK term, granted :
               m = [type |-> "RequestVoteReply", term |-> term, src |-> r.dst,
                    dst |-> r.src, argsTerm |-> r.term, granted |-> granted]
        BY Zenon, <2>2 DEF RequestVote, Send
      <3>2. QED
        BY Zenon, <2>2, <3>1
    <2>3. CASE AppendEntries(r.dst, r)
      BY Zenon, <2>3 DEF AppendEntries, Send
    <2>4. CASE AppendEntriesStale(r.dst, r)
      BY Zenon, <2>4 DEF AppendEntriesStale, Send
    <2>5. CASE InstallSnapshot(r.dst, r)
      BY Zenon, <2>5 DEF InstallSnapshot, Send
    <2>6. CASE InstallSnapshotStale(r.dst, r)
      BY Zenon, <2>6 DEF InstallSnapshotStale, Send
    <2>7. QED
      BY Zenon, <1>2, <2>1, <2>2, <2>3, <2>4, <2>5, <2>6 DEF Receive
  <1>3. \A r \in msgs : r.dst \in Server
    BY Zenon DEF RaftInvariant, ElectionInv, ElectionTypeOK
  <1>4. CASE \E i \in Server : Step(i)
    BY Zenon, <1>1, <1>4
  <1>5. CASE \E r \in msgs : Receive(r.dst, r)
    BY Zenon, <1>2, <1>3, <1>5
  <1>6. QED
    BY Zenon, <1>4, <1>5 DEF Next

\* The AppendEntries handler answers what MessagesOK says.
LEMMA AppendReplySentOK ==
    ASSUME RaftInvariant, QuorumsMeet, Grows, NEW i \in Server, NEW m \in msgs,
           AppendEntries(i, m) \/ AppendEntriesStale(i, m), NEW r, r = appendReply(i, m)
    PROVE  MessageOK(r)'
  <1>0. /\ ElectionInv /\ AloneInv /\ LedgerOK /\ MessagesOK /\ CoverOK
        /\ m.type = "AppendEntries" /\ m.dst = i /\ m.term \in Term
    BY Zenon DEF RaftInvariant, LogInv, AppendEntries, AppendEntriesStale, ElectionInv, ElectionTypeOK
  <1>1. AppendOK(m) /\ Decided(m.term) /\ m.src # i
    BY Zenon, <1>0, NoLeaderIsTold DEF MessagesOK, MessageOK, Decided, AloneInv
  <1>2. UNCHANGED ledger /\ msgs \subseteq msgs'
    BY Zenon DEF AppendEntries, AppendEntriesStale, history, Grows
  <1>3. /\ r.type = "AppendEntriesReply" /\ r.src = i /\ r.dst = m.src /\ r.argsTerm = m.term
        /\ r.prevLogIndex = m.prevLogIndex /\ r.lastIndex = m.lastIndex
        /\ m.term < currentTerm[i] => r.success = FALSE /\ r.term = currentTerm[i]
        /\ ~(m.term < currentTerm[i]) => r.term = m.term
        /\ ~(m.term < currentTerm[i]) /\ ~PrevLogConflict(log[i], m) => r.success = TRUE
        /\ ~(m.term < currentTerm[i]) /\ PrevLogConflict(log[i], m) =>
              /\ r.success = FALSE
              /\ r.conflictTerm = ConflictHint(log[i], m)[1]
              /\ r.conflictFirstIndex = ConflictHint(log[i], m)[2]
    BY Zenon DEF appendReply
  <1>4. AppendSent(r.argsTerm, r.lastIndex)'
    BY Zenon, <1>0, <1>2, <1>3 DEF AppendSent
  <1>5. r.success => r.argsTerm <= currentTerm'[r.src]
    <2>1. CASE m.term < currentTerm[i]
      BY Zenon, <1>3, <2>1
    <2>2. CASE ~(m.term < currentTerm[i])
      <3>1. AppendEntries(i, m)
        BY Zenon, <2>2 DEF AppendEntriesStale
      <3>2. currentTerm'[i] = m.term /\ m.term \in Nat
        BY Zenon, <1>0, <3>1, AppendEffect, TermIsNat
      <3>3. QED
        <4>1. r.argsTerm = m.term /\ r.src = i
          BY Zenon, <1>3
        <4>2. QED
          BY <3>2, <4>1
    <2>3. QED
      BY Zenon, <2>1, <2>2
  <1>6. ASSUME ~r.success, r.term <= r.argsTerm
        PROVE  /\ r.prevLogIndex \in 0..ledger[r.argsTerm].last
               /\ r.conflictTerm # NoTerm => r.prevLogIndex > 0
               /\ r.conflictFirstIndex \in 0..(ledger[r.argsTerm].last + 1)
    <2>1. m.term \in Nat /\ currentTerm[i] \in Nat /\ ledger[m.term].last \in Nat
      BY ZenonT(40), <1>0, LogFacts, LedgerType, TermIsNat
    <2>2. ~(m.term < currentTerm[i])
      BY <1>3, <1>6, <2>1, SMTT(30)
    <2>3. PrevLogConflict(log[i], m) /\ currentTerm[i] <= m.term
      BY <1>3, <1>6, <2>1, <2>2, SMTT(30)
    <2>4. /\ IsLog(log[i]) /\ log[i].first \in Nat /\ lastLogTerm(log[i]) \in Term
          /\ Within(log[i], lastLogTerm(log[i]))
      BY Zenon, LogFacts DEF Logs
    <2>5. PICK c \in commits : c.term <= currentTerm[i] /\ log[i].first <= c.index
      BY Zenon, <1>0 DEF CoverOK, Committed, Logs
    <2>6. c.term \in Nat /\ c.index \in Nat
      BY Zenon, TermIsNat DEF RaftInvariant, LogInv, CommitsOK
    <2>7. c.term <= m.term
      BY <2>1, <2>3, <2>5, <2>6
    <2>8. Has(m.term, c.index, c.term)
      BY ZenonT(40), <1>0, <1>1, <2>7, LeaderAgrees
    <2>9. log[i].first <= ledger[m.term].last
      BY <2>1, <2>4, <2>5, <2>6, <2>8 DEF Has
    <2>10. /\ ConflictHint(log[i], m)[2] \in 0..(ledger[m.term].last + 1)
           /\ ConflictHint(log[i], m)[1] # NoTerm => m.prevLogIndex > 0
      BY Zenon, <1>0, <1>1, <2>3, <2>4, <2>9, HintOK
    <2>11. m.prevLogIndex \in 0..ledger[m.term].last
      BY <1>1, <2>1, SMTT(30) DEF AppendOK
    <2>12. QED
      BY Zenon, <1>3, <2>2, <2>3, <2>10, <2>11
  <1>7. AppendReplyOK(r)'
    <2>1. r.success \in BOOLEAN
      BY <1>3, Zenon
    <2>2. QED
      BY Zenon, <1>0, <1>1, <1>2, <1>3, <1>4, <1>5, <1>6, <2>1 DEF AppendReplyOK
  <1>8. QED
    BY Zenon, <1>3, <1>7 DEF MessageOK

\* MessagesOK survives every step.
LEMMA NextMessagesOK ==
    ASSUME RaftInvariant, QuorumsMeet, ElectionInv', Next
    PROVE  MessagesOK'
  <1>0. Grows /\ MessagesOK /\ AloneInv /\ \A m \in msgs : m.term \in Term /\ m.src \in Server
    BY Zenon, NextGrows DEF RaftInvariant, LogInv, ElectionInv, ElectionTypeOK
  <1>1. ASSUME NEW m \in msgs
        PROVE  MessageOK(m)'
    BY Zenon, <1>0, MessageStaysOK DEF MessagesOK
  <1>2. ASSUME NEW m \in msgs' \ msgs
        PROVE  MessageOK(m)'
    <2>1. CASE \E i \in Server : becomeCandidateL(i)
      BY Zenon, <1>0, <2>1, RequestSentOK, MessageStaysOK
    <2>2. CASE \E i \in Server : \E r \in msgs :
                  /\ RequestVote(i, r) /\ m.type = "RequestVoteReply"
                  /\ m.dst = r.src /\ m.argsTerm = r.term
      <3>1. PICK i \in Server, r \in msgs :
                  /\ RequestVote(i, r) /\ m.type = "RequestVoteReply"
                  /\ m.dst = r.src /\ m.argsTerm = r.term
        BY Zenon, <2>2
      <3>2. r.type = "RequestVote" /\ r \in msgs'
        BY Zenon, <1>0, <3>1 DEF RequestVote, Grows
      <3>3. QED
        BY Zenon, <3>1, <3>2 DEF MessageOK, Campaigned
    <2>3. CASE \E i, j \in Server : append(i, j) /\ m = appendArgs(i, j)
      BY Zenon, <1>0, <2>3, AppendSentOK, MessageStaysOK
    <2>4. CASE \E i \in Server : \E r \in msgs :
                  /\ AppendEntries(i, r) \/ AppendEntriesStale(i, r)
                  /\ m = appendReply(i, r)
      BY Zenon, <1>0, <2>4, AppendReplySentOK
    <2>5. CASE \E i \in Server : \E r \in msgs :
                  /\ InstallSnapshot(i, r) \/ InstallSnapshotStale(i, r)
                  /\ m = installReply(i, r)
      <3>1. PICK i \in Server, r \in msgs :
                  /\ InstallSnapshot(i, r) \/ InstallSnapshotStale(i, r)
                  /\ m = installReply(i, r)
        BY Zenon, <2>5
      <3>2. r.type = "InstallSnapshot" /\ r.dst = i /\ r \in msgs' /\ r.src # i /\ r.term \in Term
        BY Zenon, <1>0, <3>1 DEF InstallSnapshot, InstallSnapshotStale, AloneInv, Grows
      <3>3. /\ m.type = "InstallSnapshotReply" /\ m.argsTerm = r.term
            /\ m.index = r.snapshot.index /\ m.src = i /\ m.dst = r.src
        BY Zenon, <3>1 DEF installReply
      <3>4. QED
        BY Zenon, <3>2, <3>3 DEF MessageOK, InstallReplyOK, InstallSent
    <2>6. QED
      BY Zenon, <2>1, <2>2, <2>3, <2>4, <2>5, SentKinds
  <1>3. QED
    BY Zenon, <1>1, <1>2 DEF MessagesOK

-----------------------------------------------------------------------------
(***************************************************************************)
(* Disks and candidates.                                                   *)
(***************************************************************************)

\* DiskOK survives every step: the saved log lags behind only under a new
\* snapshot.
LEMMA NextDiskOK ==
    ASSUME RaftInvariant, ElectionInv', Next
    PROVE  DiskOK'
  <1>0. DiskOK /\ Grows /\ LedgerOK
    BY Zenon, NextGrows DEF RaftInvariant, LogInv
  <1> SUFFICES ASSUME NEW j \in Server
               PROVE  \/ Alike(log[j], disk[j].log)'
                      \/ /\ log'[j].first = log'[j].last
                         /\ \E m \in msgs' : /\ m.type = "InstallSnapshot"
                                             /\ m.term <= currentTerm'[j]
                                             /\ m.snapshot.index = log'[j].last
                                             /\ m.snapshot.term = lastLogTerm(log'[j])
    BY Zenon DEF DiskOK, Alike
  <1>1. CASE disk'[j].log = log'[j]
    BY Zenon, <1>1 DEF Alike
  <1>2. CASE disk'[j].log = disk[j].log /\ log'[j] = log[j]
    <2>1. CASE Alike(log[j], disk[j].log)
      BY Zenon, <1>2, <2>1 DEF Alike
    <2>2. CASE ~Alike(log[j], disk[j].log)
      <3>1. PICK m \in msgs : /\ m.type = "InstallSnapshot" /\ m.term <= currentTerm[j]
                              /\ m.snapshot.index = log[j].last
                              /\ m.snapshot.term = lastLogTerm(log[j])
                              /\ log[j].first = log[j].last
        BY Zenon, <1>0, <2>2 DEF DiskOK, Alike
      <3>2. m.term \in Nat /\ currentTerm[j] \in Nat /\ currentTerm'[j] \in Nat
        BY Zenon, TermIsNat DEF RaftInvariant, ElectionInv, ElectionTypeOK
      <3>3. m \in msgs' /\ m.term <= currentTerm'[j]
        BY <1>0, <3>1, <3>2 DEF Grows
      <3>4. QED
        BY Zenon, <1>2, <3>1, <3>3
    <2>3. QED
      BY Zenon, <2>1, <2>2
  <1>3. CASE Still
    BY Zenon, <1>1, <1>2, <1>3 DEF Still, Saves
  <1>4. ASSUME NEW i \in Server,
               \/ Wins(i) \/ Snapshot(i) \/ Restart(i)
               \/ \E cmd \in Command : Start(i, cmd)
               \/ \E m \in msgs : AppendEntries(i, m)
        PROVE  disk'[j].log = log'[j] \/ (disk'[j].log = disk[j].log /\ log'[j] = log[j])
    <2>1. CASE Wins(i)
      BY Zenon, <2>1 DEF Wins
    <2>2. CASE ~Wins(i)
      <3>1. /\ Only(i)
            /\ disk'[i].log = log'[i] \/ (disk'[i].log = disk[i].log /\ log'[i] = log[i])
        <4>1. CASE Snapshot(i)
          BY <4>1, SnapshotEffect, Zenon
        <4>2. CASE Restart(i)
          BY <4>2, RestartEffect, Zenon
        <4>3. CASE \E cmd \in Command : Start(i, cmd)
          BY Zenon, <4>3, StartEffect
        <4>4. CASE \E m \in msgs : AppendEntries(i, m)
          BY Zenon, <4>4, AppendEffect
        <4>5. QED
          BY Zenon, <1>4, <2>2, <4>1, <4>2, <4>3, <4>4
      <3>2. QED
        BY Zenon, <3>1 DEF Only
    <2>3. QED
      BY Zenon, <2>1, <2>2
  <1>5. ASSUME NEW i \in Server, NEW m \in msgs, InstallSnapshot(i, m), i = j,
               m.snapshot.index > log[j].first
        PROVE  \/ Alike(log[j], disk[j].log)'
               \/ /\ log'[j].first = log'[j].last
                  /\ \E r \in msgs' : /\ r.type = "InstallSnapshot"
                                      /\ r.term <= currentTerm'[j]
                                      /\ r.snapshot.index = log'[j].last
                                      /\ r.snapshot.term = lastLogTerm(log'[j])
    <2>1. /\ m.type = "InstallSnapshot" /\ m.term \in Term /\ InstallOK(m)
          /\ currentTerm'[j] = m.term /\ log'[j] = InstalledLog(log[j], m.snapshot)
          /\ disk'[j] = disk[j] \/ disk'[j].log = log[j]
          /\ m.snapshot.index \in Nat
      <3>1. m.type = "InstallSnapshot"
        BY Zenon, <1>5 DEF InstallSnapshot
      <3>2. /\ m.term \in Term /\ InstallOK(m) /\ currentTerm'[j] = m.term
            /\ \/ m.snapshot.index <= log[j].first
               \/ log'[j] = InstalledLog(log[j], m.snapshot)
            /\ disk'[j] = disk[j] \/ disk'[j].log = log[j]
        BY Zenon, <1>5, InstallEffect
      <3>3. m.snapshot.index \in Nat /\ log[j].first \in Nat
        BY Zenon, <3>2, LogFacts DEF InstallOK, SnapshotType, Logs
      <3>4. QED
        BY <1>5, <3>1, <3>2, <3>3
    <2>2. /\ IsLog(log[j]) /\ log[j].first \in Nat /\ log[j].last \in Nat
          /\ lastLogTerm(log[j]) \in Term /\ Within(log[j], lastLogTerm(log[j]))
      BY Zenon, LogFacts DEF Logs
    <2>3. CASE HoldsSnapshot(log[j], m.snapshot)
      <3>1. m.snapshot.index \in log[j].first..log[j].last /\ log[j].first # log[j].last
        <4>1. log[j].last >= m.snapshot.index
          BY Zenon, <2>3 DEF HoldsSnapshot
        <4>2. /\ m.snapshot.index \in Nat /\ log[j].first \in Nat /\ log[j].last \in Nat
              /\ m.snapshot.index > log[j].first
          BY Zenon, <1>5, <2>1, <2>2
        <4>3. QED
          BY <4>1, <4>2
      <3>2. Alike(log[j], log'[j])
        <4>1. log'[j] = trimLogL(log[j], m.snapshot.index)
          BY Zenon, <2>1, <2>3 DEF InstalledLog
        <4>2. QED
          <5>1. PICK x : x = trimLogL(log[j], m.snapshot.index)
            BY Zenon
          <5>2. x.last = log[j].last /\ lastLogTerm(x) = lastLogTerm(log[j])
            BY Zenon, <2>2, <3>1, <5>1, TrimOK
          <5>3. QED
            BY Zenon, <4>1, <5>1, <5>2 DEF Alike
      <3>3. Alike(log[j], disk[j].log)
        BY Zenon, <1>0, <3>1 DEF DiskOK, Alike
      <3>4. QED
        BY ZenonT(40), <2>1, <3>2, <3>3 DEF Alike
    <2>4. CASE ~HoldsSnapshot(log[j], m.snapshot)
      <3>1. /\ log'[j].first = m.snapshot.index /\ log'[j].last = m.snapshot.index
            /\ lastLogTerm(log'[j]) = m.snapshot.term
        BY <1>0, <2>1, <2>4, SingletonOK, SMTT(30) DEF InstalledLog, InstallOK
      <3>2. m \in msgs' /\ m.term <= currentTerm'[j]
        <4>1. m.term \in Nat
          BY Zenon, <2>1, TermIsNat
        <4>2. QED
          BY <1>0, <2>1, <4>1, SMTT(30) DEF Grows
      <3>3. QED
        BY ZenonT(40), <2>1, <3>1, <3>2
    <2>5. QED
      BY ZenonT(40), <2>3, <2>4
  <1>6. ASSUME NEW i \in Server, NEW m \in msgs, InstallSnapshot(i, m),
               i # j \/ ~(m.snapshot.index > log[j].first)
        PROVE  disk'[j].log = log'[j] \/ (disk'[j].log = disk[j].log /\ log'[j] = log[j])
    <2>1. /\ Only(i)
          /\ disk'[i] = disk[i] \/ disk'[i].log = log[i]
          /\ m.snapshot.index > log[i].first \/ log'[i] = log[i]
      BY Zenon, <1>6, InstallEffect
    <2>2. QED
      BY Zenon, <1>6, <2>1 DEF Only
  <1>7. QED
    BY Zenon, <1>1, <1>2, <1>3, <1>4, <1>5, <1>6, StepKinds DEF RaftInvariant

\* A candidate that stays one keeps its term, and its log until a leader writes.
LEMMA CandidateStays ==
    ASSUME RaftInvariant, Next, NEW j \in Server, role'[j] = "Candidate", ~becomeCandidateL(j)
    PROVE  /\ role[j] = "Candidate" /\ currentTerm'[j] = currentTerm[j]
           /\ Decided(currentTerm[j]) \/ Alike(log[j], log'[j])
  <1>0. /\ role \in [Server -> {"Follower", "Candidate", "Leader"}]
        /\ currentTerm \in [Server -> Term] /\ currentTerm[j] \in Nat /\ IsLog(log[j])
    BY Zenon, LogFacts DEF RaftInvariant, ElectionInv, ElectionTypeOK, Logs
  <1>1. CASE Still
    BY Zenon, <1>1 DEF Still, Alike
  <1>2. ASSUME NEW i \in Server, Wins(i)
        PROVE  role[j] = "Candidate" /\ currentTerm'[j] = currentTerm[j] /\ log'[j] = log[j]
    BY Zenon, <1>0, <1>2 DEF Wins, becomeLeaderL
  <1>3. ASSUME NEW i \in Server, NEW cmd \in Command, Start(i, cmd)
        PROVE  role[j] = "Candidate" /\ currentTerm'[j] = currentTerm[j] /\ log'[j] = log[j]
    BY <1>3, StartEffect, Zenon DEF Only
  <1>4. ASSUME NEW i \in Server, Snapshot(i)
        PROVE  role[j] = "Candidate" /\ currentTerm'[j] = currentTerm[j] /\ Alike(log[j], log'[j])
    <2>1. /\ Only(i) /\ service[i].index \in log[i].first..log[i].last
          /\ log'[i] = trimLogL(log[i], service[i].index) /\ UNCHANGED <<currentTerm, role>>
      BY <1>4, SnapshotEffect, Zenon
    <2>2. Alike(log[j], log'[j])
      <3>1. CASE i = j
        <4>1. PICK x : x = trimLogL(log[j], service[j].index)
          BY Zenon
        <4>2. x.last = log[j].last /\ lastLogTerm(x) = lastLogTerm(log[j])
          BY Zenon, <1>0, <2>1, <3>1, <4>1, TrimOK
        <4>3. QED
          BY Zenon, <2>1, <3>1, <4>1, <4>2 DEF Alike
      <3>2. CASE i # j
        BY Zenon, <2>1, <3>2 DEF Only, Alike
      <3>3. QED
        BY Zenon, <3>1, <3>2
    <2>3. QED
      BY Zenon, <2>1, <2>2
  <1>5. ASSUME NEW i \in Server, Restart(i) \/ \E m \in msgs : AppendEntries(i, m)
        PROVE  role[j] = "Candidate" /\ currentTerm'[j] = currentTerm[j] /\ log'[j] = log[j]
    BY <1>5, RestartEffect, AppendEffect, Zenon DEF Only
  <1>6. ASSUME NEW i \in Server, NEW m \in msgs, InstallSnapshot(i, m)
        PROVE  /\ role[j] = "Candidate" /\ currentTerm'[j] = currentTerm[j]
               /\ Decided(currentTerm[j]) \/ log'[j] = log[j]
    <2>1. Only(i) /\ Decided(m.term) /\ currentTerm[i] <= m.term /\ m.term \in Nat
      BY Zenon, <1>6, InstallEffect, TermIsNat
    <2>2. CASE i = j
      <3>1. ~(m.term > currentTerm[j])
        BY Zenon, <1>0, <1>6, <2>2 DEF InstallSnapshot, becomeFollowerL
      <3>2. m.term = currentTerm[j] /\ UNCHANGED <<role, currentTerm>>
        <4>1. UNCHANGED <<role, currentTerm>>
          BY Zenon, <1>6, <2>2, <3>1 DEF InstallSnapshot
        <4>2. m.term = currentTerm[j]
          BY <1>0, <2>1, <2>2, <3>1
        <4>3. QED
          BY Zenon, <4>1, <4>2
      <3>3. QED
        BY Zenon, <2>1, <3>2
    <2>3. CASE i # j
      BY Zenon, <2>1, <2>3 DEF Only
    <2>4. QED
      BY Zenon, <2>2, <2>3
  <1>7. QED
    BY Zenon, <1>1, <1>2, <1>3, <1>4, <1>5, <1>6, StepKinds DEF RaftInvariant, Alike

\* A request for a vote describes the log of the candidate.
LEMMA NewRequest ==
    ASSUME RaftInvariant, Next, NEW m \in msgs' \ msgs, m.type = "RequestVote"
    PROVE  /\ m.src \in Server /\ becomeCandidateL(m.src)
           /\ m.term = currentTerm[m.src] + 1
           /\ m.lastLogIndex = log[m.src].last /\ m.lastLogTerm = lastLogTerm(log[m.src])
  <1>1. PICK i \in Server : becomeCandidateL(i)
    BY SentKinds DEF appendArgs, makeAppendArgsL, appendReply, installReply
  <1>2. m \in {[type |-> "RequestVote", term |-> currentTerm[i] + 1, src |-> i,
                dst |-> j, lastLogIndex |-> log[i].last,
                lastLogTerm |-> lastLogTerm(log[i])] : j \in Server \ {i}}
    BY Zenon, <1>1 DEF becomeCandidateL, Send
  <1>3. /\ m.src = i /\ m.term = currentTerm[i] + 1
        /\ m.lastLogIndex = log[i].last /\ m.lastLogTerm = lastLogTerm(log[i])
    <2>1. PICK j : m = [type |-> "RequestVote", term |-> currentTerm[i] + 1, src |-> i,
                        dst |-> j, lastLogIndex |-> log[i].last,
                        lastLogTerm |-> lastLogTerm(log[i])]
      BY Zenon, <1>2
    <2>2. QED
      BY Zenon, <2>1
  <1>4. QED
    BY Zenon, <1>1, <1>3

\* A peer campaigns once in a term.
LEMMA CampaignsOnce ==
    ASSUME RaftInvariant, Next, NEW m \in msgs' \ msgs, m.type = "RequestVote"
    PROVE  ~Campaigned(m.src, m.term)
  <1>1. m.src \in Server /\ m.term = currentTerm[m.src] + 1 /\ currentTerm[m.src] < MaxTerm
    BY Zenon, NewRequest DEF becomeCandidateL
  <1>2. m.term \in Term /\ currentTerm[m.src] \in Nat
    <2>1. currentTerm[m.src] \in Nat
      BY Zenon, <1>1, LogFacts
    <2>2. QED
      BY <1>1, <2>1, BoundsAssumption DEF Term
  <1>3. Campaigned(m.src, m.term) => m.term <= currentTerm[m.src]
    BY Zenon, <1>1, <1>2 DEF RaftInvariant, ElectionInv, VotesAreKept, Granted
  <1>4. QED
    BY <1>1, <1>2, <1>3

\* CandidatesOK survives every step.
LEMMA NextCandidatesOK ==
    ASSUME RaftInvariant, ElectionInv', Next
    PROVE  CandidatesOK'
  <1>0. CandidatesOK /\ Grows
    BY Zenon, NextGrows DEF RaftInvariant, LogInv
  <1> SUFFICES ASSUME NEW j \in Server, role'[j] = "Candidate", ~Decided(currentTerm[j])',
                      NEW m \in msgs', m.type = "RequestVote", m.src = j,
                      m.term = currentTerm'[j]
               PROVE  /\ m.lastLogIndex = log'[j].last
                      /\ m.lastLogTerm = lastLogTerm(log'[j])
    BY Zenon DEF CandidatesOK
  <1>1. CASE becomeCandidateL(j)
    <2>1. log' = log /\ currentTerm'[j] = currentTerm[j] + 1 /\ currentTerm[j] < MaxTerm
      BY ZenonT(40), <1>1, LogFacts DEF becomeCandidateL, RaftInvariant, ElectionInv, ElectionTypeOK
    <2>2. m.term \in Term /\ currentTerm[j] \in Nat
      <3>1. currentTerm[j] \in Nat /\ m.term = currentTerm[j] + 1
        BY Zenon, <2>1, LogFacts
      <3>2. QED
        BY <2>1, <3>1, BoundsAssumption DEF Term
    <2>3. CASE m \in msgs
      <3>1. Granted(j, j, m.term)
        BY Zenon, <2>3 DEF Granted, Campaigned
      <3>2. QED
        <4>1. m.term <= currentTerm[j]
          BY Zenon, <2>2, <3>1 DEF RaftInvariant, ElectionInv, VotesAreKept
        <4>2. QED
          BY <2>1, <2>2, <4>1
    <2>4. CASE m \notin msgs
      BY Zenon, <2>1, <2>4, NewRequest
    <2>5. QED
      BY Zenon, <2>3, <2>4
  <1>2. CASE ~becomeCandidateL(j)
    <2>1. /\ role[j] = "Candidate" /\ currentTerm'[j] = currentTerm[j]
          /\ Decided(currentTerm[j]) \/ Alike(log[j], log'[j])
      BY Zenon, <1>2, CandidateStays
    <2>2. ~Decided(currentTerm[j])
      BY Zenon, <1>0, <2>1 DEF Decided, Grows
    <2>3. m \in msgs
      BY ZenonT(40), <1>2, NewRequest
    <2>4. QED
      BY Zenon, <1>0, <2>1, <2>2, <2>3 DEF CandidatesOK, Alike
  <1>3. QED
    BY Zenon, <1>1, <1>2

\* Only becomeLeaderL adds to the elections.
LEMMA NewElection ==
    ASSUME RaftInvariant, ElectionInv', Next, NEW e \in elections' \ elections
    PROVE  \E i \in Server : /\ Wins(i) /\ e.term = currentTerm[i] /\ e.leader = i
                             /\ ~Decided(e.term) /\ elections' = elections \cup {e}
  <1>1. \E i \in Server : Wins(i)
    <2>1. UNCHANGED elections \/ \E i \in Server : Wins(i)
      BY StepKinds, StartEffect, SnapshotEffect, RestartEffect, AppendEffect, InstallEffect, Zenon
      DEF Still, RaftInvariant
    <2>2. QED
      BY Zenon, <2>1
  <1>2. PICK i \in Server : Wins(i)
    BY Zenon, <1>1
  <1>3. /\ ~Decided(currentTerm[i])
        /\ elections' = elections \cup
                 {[term |-> currentTerm[i], leader |-> i, voters |-> votes'[i]]}
    BY Zenon, <1>2, WinsFirst DEF RaftInvariant
  <1>4. e = [term |-> currentTerm[i], leader |-> i, voters |-> votes'[i]]
    BY Zenon, <1>3
  <1>5. e.term = currentTerm[i] /\ e.leader = i
    BY Zenon, <1>4
  <1>6. QED
    BY Zenon, <1>2, <1>3, <1>4, <1>5

\* ElectedOK survives every step.
LEMMA NextElectedOK ==
    ASSUME RaftInvariant, ElectionInv', Next
    PROVE  ElectedOK'
  <1>0. /\ ElectedOK /\ Grows /\ LedgerOK /\ LogsOK /\ MessagesOK /\ ElectionInv
        /\ CandidatesOK /\ CandidatesCount
    BY Zenon, NextGrows DEF RaftInvariant, LogInv, ElectionInv
  <1> SUFFICES ASSUME NEW e \in elections'
               PROVE  /\ Campaigned(e.leader, e.term)'
                      /\ \A m \in msgs' :
                            m.type = "RequestVote" /\ m.src = e.leader /\ m.term = e.term =>
                               Has(e.term, m.lastLogIndex, m.lastLogTerm)'
    BY Zenon DEF ElectedOK
  <1>1. CASE e \in elections
    <2>1. Campaigned(e.leader, e.term) /\ e.term \in Term
      BY Zenon, <1>0, <1>1 DEF ElectedOK, ElectionInv, ElectionTypeOK
    <2>2. Campaigned(e.leader, e.term)'
      BY Zenon, <1>0, <2>1 DEF Campaigned, Grows
    <2>3. ASSUME NEW m \in msgs', m.type = "RequestVote", m.src = e.leader, m.term = e.term
          PROVE  Has(e.term, m.lastLogIndex, m.lastLogTerm)'
      <3>1. m \in msgs
        BY Zenon, <2>1, <2>3, CampaignsOnce
      <3>2. Has(e.term, m.lastLogIndex, m.lastLogTerm)
        BY Zenon, <1>0, <1>1, <2>3, <3>1 DEF ElectedOK
      <3>3. QED
        BY Zenon, <1>0, <2>1, <3>2, HasGrows DEF Grows
    <2>4. QED
      BY Zenon, <2>2, <2>3
  <1>2. CASE e \notin elections
    <2>1. PICK i \in Server : /\ Wins(i) /\ e.term = currentTerm[i] /\ e.leader = i
                              /\ ~Decided(e.term)
      BY Zenon, <1>2, NewElection
    <2>2. role[i] = "Candidate" /\ msgs' = msgs
      BY Zenon, <2>1 DEF Wins
    <2>3. Campaigned(e.leader, e.term)'
      BY <1>0, <2>1, <2>2 DEF CandidatesCount, Campaigned
    <2>4. PICK u : u = lastLogTerm(log[i])
      BY Zenon
    <2>5. /\ ledger'[e.term].last = log[i].last /\ log[i].last \in Nat
          /\ \A k \in 0..log[i].last : ledger'[e.term].ent[k] = ledger[u].ent[k]
          /\ Has(u, log[i].last, u)
      BY ZenonT(40), <1>0, <2>1, <2>4, WinsLedger, LogFacts DEF Logs
    <2>6. ASSUME NEW m \in msgs', m.type = "RequestVote", m.src = e.leader, m.term = e.term
          PROVE  Has(e.term, m.lastLogIndex, m.lastLogTerm)'
      <3>1. m.lastLogIndex = log[i].last /\ m.lastLogTerm = u
        BY Zenon, <1>0, <2>1, <2>2, <2>4, <2>6 DEF CandidatesOK
      <3>2. QED
        BY <2>5, <3>1 DEF Has
    <2>7. QED
      BY Zenon, <2>3, <2>6
  <1>3. QED
    BY Zenon, <1>1, <1>2

\* RequestsOK survives every step.
LEMMA NextRequestsOK ==
    ASSUME RaftInvariant, Next
    PROVE  RequestsOK'
  <1>0. RequestsOK
    BY Zenon DEF RaftInvariant, LogInv
  <1> SUFFICES ASSUME NEW m \in msgs', NEW q \in msgs',
                      m.type = "RequestVote", q.type = "RequestVote",
                      m.src = q.src, m.term = q.term
               PROVE  m.lastLogIndex = q.lastLogIndex /\ m.lastLogTerm = q.lastLogTerm
    BY Zenon DEF RequestsOK
  <1>1. CASE m \in msgs /\ q \in msgs
    BY Zenon, <1>0, <1>1 DEF RequestsOK
  <1>2. CASE m \notin msgs /\ q \notin msgs
    BY Zenon, <1>2, NewRequest
  <1>3. CASE m \in msgs /\ q \notin msgs
    BY Zenon, <1>3, CampaignsOnce DEF Campaigned
  <1>4. CASE m \notin msgs /\ q \in msgs
    BY Zenon, <1>4, CampaignsOnce DEF Campaigned
  <1>5. QED
    BY Zenon, <1>1, <1>2, <1>3, <1>4
=============================================================================
