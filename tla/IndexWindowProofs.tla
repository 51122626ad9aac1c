-------------------------- MODULE IndexWindowProofs --------------------------
(* A full index run commits in the order of the scan, stays inside its        *)
(* window and leaves the database alone once it has ended, for every number   *)
(* of files, size of batches and of the window, and number of commits that    *)
(* throw.                                                                     *)
EXTENDS IndexWindow, SequenceTheorems, FiniteSetTheorems, WellFoundedInduction, TLAPS

-----------------------------------------------------------------------------
(* The inductive invariant.                                                   *)

\* Sequence numbers are given out in the order of the scan.
Dispatched ==
  /\ Len(fileOf) < next
  /\ \A s \in Seqs : fileOf[s] < next
  /\ \A s, t \in Seqs : s < t => fileOf[s] < fileOf[t]
  /\ pc \in {"batch", "reading", "feeding"} => next <= N

\* From the cursor on everything is in flight or buffered, and nothing before
\* it is. The loop feeds only while the window has room: a race that nothing in
\* flight can decide any more has seen the cursor move.
Fed == Len(fileOf) - (cursor - 1)
Windowed ==
  /\ inFlight \cup DOMAIN completed = cursor..Len(fileOf)
  /\ pc \in {"batch", "reading", "feeding"} => Fed < WindowSize
  /\ pc = "racing" /\ inFlight = {} => Fed < WindowSize

\* The last wait is for all that is in flight.
Awaited ==
  /\ pc = "draining" /\ wait.state = "pending" => wait.on = inFlight
  /\ pc = "draining" /\ wait.state = "fulfilled" => inFlight = {}
  /\ pc = "draining" => wait.state # "none"
  /\ pc \in {"retrying", "returned"} \/ retry.pass # 0 => inFlight = {}
  /\ pc = "retrying" => retry.pass # 0
  /\ pc \notin {"retrying"} \cup Ended => retry.pass = 0

\* Rows are of committed files, in the order of the scan until a retry.
Ordered ==
  /\ CommitOrder
  /\ retry.pass = 0 =>
       \A i \in DOMAIN stored : \E s \in 1..(cursor - 1) : stored[i].file = fileOf[s]

\* Every file is counted at most once before the retries, and moved from one
\* count to another at most once by them.
Left == Cardinality(retry.todo \cup retry.failing)
Tallied ==
  /\ tally.indexed \in Nat /\ tally.skipped \in Nat
  /\ retry.pass \in {0, 2} => retry.failing = {}
  /\ retry.todo \cap retry.failing = {}
  /\ retry.pass = 0 =>
       /\ tally.errored \in Nat
       /\ tally.indexed + tally.skipped + tally.errored <= next - 1 - Len(fileOf) + cursor - 1
  /\ retry.pass # 0 =>
       /\ tally.indexed + Left <= 2 * N /\ tally.skipped <= N
       /\ Left - N <= tally.errored /\ tally.errored <= N

IInv == TypeOK /\ Dispatched /\ Windowed /\ Awaited /\ Ordered /\ Tallied

-----------------------------------------------------------------------------
(* Numbers and their order.                                                   *)

Less == {p \in Nat \X Nat : p[1] < p[2]}

LEMMA InLess ==
  ASSUME NEW m \in Nat, NEW n \in Nat, m < n
  PROVE  <<m, n>> \in Less
<1>1. <<m, n>> \in Nat \X Nat
  OBVIOUS
<1>2. <<m, n>>[1] = m /\ <<m, n>>[2] = n
  OBVIOUS
<1> QED BY <1>1, <1>2 DEF Less

\* A set of natural numbers has a least member.
LEMMA Least ==
  ASSUME NEW S \in SUBSET Nat, S # {}
  PROVE  \E n \in S : \A m \in S : n <= m
<1>1. IsWellFoundedOn(Less, Nat)
  BY NatLessThanWellFounded DEF OpToRel, Less
<1>2. PICK n \in S : \A m \in S : ~(<<m, n>> \in Less)
  BY <1>1, WFMin, Zenon
<1>3. n \in Nat
  OBVIOUS
<1>4. ASSUME NEW m \in S
      PROVE  n <= m
  <2>1. m \in Nat
    OBVIOUS
  <2>2. ~(m < n)
    BY <1>2, <1>3, <2>1, InLess
  <2> QED BY <1>3, <2>1, <2>2
<1> QED BY <1>4

Ascends(q, S) ==
  /\ q \in [1..Cardinality(S) -> S]
  /\ \A i, k \in DOMAIN q : i < k => q[i] < q[k]

\* The least member goes in front of the others, in order.
LEMMA AscendsFrom ==
  ASSUME NEW S \in SUBSET Nat, IsFiniteSet(S), NEW n \in S, \A m \in S : n <= m,
         NEW p, Ascends(p, S \ {n})
  PROVE  \E q : Ascends(q, S)
<1>1. Cardinality(S) \in Nat /\ Cardinality(S \ {n}) = Cardinality(S) - 1
  BY FS_RemoveElement, FS_CardinalityType
<1>2. p \in [1..(Cardinality(S) - 1) -> S \ {n}]
  BY <1>1 DEF Ascends
<1> DEFINE q == [i \in 1..Cardinality(S) |-> IF i = 1 THEN n ELSE p[i - 1]]
<1>3. ASSUME NEW i \in 1..Cardinality(S), i # 1
      PROVE  i - 1 \in 1..(Cardinality(S) - 1) /\ p[i - 1] \in S \ {n}
  BY <1>1, <1>2, <1>3
<1>4. q \in [1..Cardinality(S) -> S]
  BY <1>3
<1>5. ASSUME NEW i \in 1..Cardinality(S), NEW k \in 1..Cardinality(S), i < k
      PROVE  q[i] < q[k]
  <2>1. k # 1 /\ p[k - 1] \in S \ {n} /\ k - 1 \in DOMAIN p
    BY <1>1, <1>2, <1>3, <1>5
  <2>2. CASE i = 1
    <3>1. q[i] = n /\ q[k] = p[k - 1] /\ n \in Nat /\ p[k - 1] \in Nat /\ n <= p[k - 1] /\ n # p[k - 1]
      BY <2>1, <2>2
    <3> QED BY <3>1
  <2>3. CASE i # 1
    <3>1. i - 1 \in DOMAIN p /\ i - 1 < k - 1
      BY <1>1, <1>2, <1>3, <1>5, <2>3
    <3>2. p[i - 1] < p[k - 1]
      BY <2>1, <3>1 DEF Ascends
    <3> QED BY <2>1, <2>3, <3>2
  <2> QED BY <2>2, <2>3
<1>6. DOMAIN q = 1..Cardinality(S)
  OBVIOUS
<1>7. Ascends(q, S)
  BY <1>4, <1>5, <1>6 DEF Ascends
<1> QED BY <1>7

\* Every finite set of natural numbers can be written in ascending order.
LEMMA AscendingExists ==
  ASSUME NEW S \in SUBSET Nat, IsFiniteSet(S)
  PROVE  \E q : Ascends(q, S)
<1> DEFINE Bad == {n \in Nat : \E T \in SUBSET Nat :
                     IsFiniteSet(T) /\ Cardinality(T) = n /\ ~\E q : Ascends(q, T)}
<1>1. SUFFICES ASSUME Bad # {} PROVE FALSE
  <2>1. Cardinality(S) \in Nat
    BY FS_CardinalityType
  <2> QED BY <1>1, <2>1
<1>2. PICK n \in Bad : \A m \in Bad : n <= m
  <2> HIDE DEF Bad
  <2>1. Bad \in SUBSET Nat
    BY DEF Bad
  <2> QED BY <1>1, <2>1, Least
<1>3. PICK T \in SUBSET Nat : IsFiniteSet(T) /\ Cardinality(T) = n /\ ~\E q : Ascends(q, T)
  BY <1>2
<1>4. CASE T = {}
  <2> DEFINE q == [i \in 1..0 |-> 0]
  <2>1. Cardinality(T) = 0
    BY <1>4, FS_EmptySet
  <2>2. q \in [1..0 -> T] /\ DOMAIN q = {}
    OBVIOUS
  <2>3. Ascends(q, T)
    BY <2>1, <2>2 DEF Ascends
  <2> QED BY <1>3, <2>3
<1>5. CASE T # {}
  <2>1. PICK least \in T : \A m \in T : least <= m
    BY <1>5, Least
  <2>2. IsFiniteSet(T \ {least}) /\ Cardinality(T \ {least}) = n - 1 /\ Cardinality(T \ {least}) \in Nat
    BY <1>3, <2>1, FS_RemoveElement, FS_CardinalityType
  <2>3. n - 1 \notin Bad /\ n - 1 \in Nat
    BY <1>2, <2>2
  <2>4. \E q : Ascends(q, T \ {least})
    BY <2>2, <2>3
  <2> QED BY <1>3, <2>1, <2>4, AscendsFrom
<1> QED BY <1>4, <1>5

LEMMA AscendingAscends ==
  ASSUME NEW S \in SUBSET Nat, IsFiniteSet(S)
  PROVE  Ascends(Ascending(S), S)
<1>1. PICK q : Ascends(q, S)
  BY AscendingExists
<1>2. \E p \in [1..Cardinality(S) -> S] : \A i, k \in DOMAIN p : i < k => p[i] < p[k]
  BY <1>1 DEF Ascends
<1> QED BY <1>2 DEF Ascends, Ascending

-----------------------------------------------------------------------------
(* What a flush commits.                                                      *)

\* A buffer as a flush finds it.
Buffered(buffer) ==
  /\ cursor \in 1..(Len(fileOf) + 1) /\ fileOf \in Seq(Files)
  /\ DOMAIN buffer \subseteq cursor..Len(fileOf)
  /\ \A s \in DOMAIN buffer : buffer[s] \in Outcomes

LEMMA RunEndEnds ==
  ASSUME NEW buffer, Buffered(buffer)
  PROVE  /\ RunEnd(buffer) \in cursor..(Len(fileOf) + 1)
         /\ \A s \in cursor..(RunEnd(buffer) - 1) : s \in DOMAIN buffer
         /\ RunEnd(buffer) \notin DOMAIN buffer
<1> DEFINE Out == {e \in cursor..(Len(fileOf) + 1) : e \notin DOMAIN buffer}
<1>1. Len(fileOf) \in Nat /\ cursor \in Nat /\ cursor <= Len(fileOf) + 1
  BY LenProperties DEF Buffered
<1>2. Out \in SUBSET Nat /\ Len(fileOf) + 1 \in Out
  BY <1>1 DEF Buffered
<1>3. PICK e \in Out : \A m \in Out : e <= m
  BY <1>2, Least
<1>4. \A s \in cursor..(e - 1) : s \in DOMAIN buffer
  BY <1>1, <1>3
<1> QED BY <1>3, <1>4 DEF RunEnd

\* The state after the results from the cursor to "last" are off the buffer.
Committed(buffer, last) ==
  /\ cursor..last \subseteq DOMAIN buffer
  /\ cursor' = last + 1
  /\ DOMAIN completed' = DOMAIN buffer \ (cursor..last)
  /\ \A s \in DOMAIN completed' : completed'[s] \in Outcomes
  /\ stored' \in Seq([file : Files, whole : BOOLEAN]) /\ Len(stored) <= Len(stored')
  /\ \A i \in DOMAIN stored : stored'[i] = stored[i]
  /\ \A i \in DOMAIN stored' \ DOMAIN stored : \E s \in cursor..last : stored'[i].file = fileOf[s]
  /\ \A i, k \in DOMAIN stored' \ DOMAIN stored : i < k => stored'[i].file < stored'[k].file
  /\ tally' \in [indexed : Int, skipped : Int, errored : Int]
  /\ tally.indexed <= tally'.indexed /\ tally.skipped <= tally'.skipped /\ tally.errored <= tally'.errored
  /\ tally'.indexed + tally'.skipped + tally'.errored
       <= tally.indexed + tally.skipped + tally.errored + (last + 1 - cursor)
  /\ errors' \in [Files -> {"none", "read", "size", "partial", "broken", "exit"}]
  /\ failures' \in 0..MaxStoreFailures

\* The rows of a commit come in the order of their files.
LEMMA RowsAscend ==
  ASSUME NEW buffer, Buffered(buffer), NEW a \in Int, cursor..a \subseteq DOMAIN buffer,
         \A s, t \in Seqs : s < t => fileOf[s] < fileOf[t]
  PROVE  LET rows == Rows(cursor..a, buffer) IN
         /\ rows \in Seq([file : Files, whole : BOOLEAN])
         /\ \A i \in DOMAIN rows : \E s \in cursor..a : rows[i].file = fileOf[s]
         /\ \A i, k \in DOMAIN rows : i < k => rows[i].file < rows[k].file
<1> DEFINE K == {s \in cursor..a : Stores(buffer[s])}
           q == Ascending(K)
           rows == [i \in DOMAIN q |-> Row(fileOf[q[i]], buffer[q[i]])]
<1>1. cursor \in Nat \ {0} /\ Len(fileOf) \in Nat /\ cursor..a \subseteq cursor..Len(fileOf)
  BY LenProperties DEF Buffered
<1>2. IsFiniteSet(cursor..a)
  BY <1>1, FS_Interval
<1>3. K \in SUBSET Nat /\ IsFiniteSet(K) /\ K \subseteq cursor..a /\ K \subseteq Seqs
  <2>1. K \subseteq cursor..a /\ cursor..a \subseteq Nat
    BY <1>1
  <2>2. IsFiniteSet(K)
    BY <1>2, <2>1, FS_Subset
  <2> QED BY <1>1, <2>1, <2>2 DEF Seqs
<1> HIDE DEF K
<1>4. Ascends(q, K)
  BY <1>3, AscendingAscends
<1> HIDE DEF q
<1>5. /\ Cardinality(K) \in Nat /\ q \in [1..Cardinality(K) -> K]
      /\ \A i, k \in DOMAIN q : i < k => q[i] < q[k]
  BY <1>3, <1>4, FS_CardinalityType DEF Ascends
<1>6. ASSUME NEW i \in 1..Cardinality(K)
      PROVE  /\ q[i] \in K /\ fileOf[q[i]] \in Files
             /\ Row(fileOf[q[i]], buffer[q[i]]).file = fileOf[q[i]]
             /\ Row(fileOf[q[i]], buffer[q[i]]) \in [file : Files, whole : BOOLEAN]
  <2>1. q[i] \in K /\ q[i] \in Seqs
    BY <1>3, <1>5
  <2>2. fileOf[q[i]] \in Files
    BY <2>1, ElementOfSeq DEF Seqs, Buffered
  <2> QED BY <2>1, <2>2 DEF Row
<1>7. rows \in [1..Cardinality(K) -> [file : Files, whole : BOOLEAN]]
  BY <1>5, <1>6
<1>8. rows \in Seq([file : Files, whole : BOOLEAN]) /\ DOMAIN rows = 1..Cardinality(K)
  <2>1. DOMAIN rows = 1..Cardinality(K)
    BY <1>5
  <2> HIDE DEF rows
  <2>2. rows \in Seq([file : Files, whole : BOOLEAN])
    <3> DEFINE R == [file : Files, whole : BOOLEAN]
    <3>1. Cardinality(K) \in Nat /\ rows \in [1..Cardinality(K) -> R]
      BY <1>5, <1>7
    <3> HIDE DEF R
    <3>2. rows \in Seq(R)
      BY <3>1, SeqDef
    <3> QED BY <3>2 DEF R
  <2> QED BY <2>1, <2>2
<1>9. \A i \in DOMAIN rows : \E s \in cursor..a : rows[i].file = fileOf[s]
  BY <1>3, <1>5, <1>6, <1>8
<1>10. ASSUME NEW i \in DOMAIN rows, NEW k \in DOMAIN rows, i < k
       PROVE  rows[i].file < rows[k].file
  <2>1. q[i] < q[k] /\ q[i] \in Seqs /\ q[k] \in Seqs
    BY <1>3, <1>5, <1>6, <1>8, <1>10
  <2>2. fileOf[q[i]] < fileOf[q[k]]
    BY <2>1
  <2> QED BY <1>5, <1>6, <1>8, <2>2
<1>11. Rows(cursor..a, buffer) = rows
  BY DEF Rows, q, K
<1> HIDE DEF rows
<1> QED BY <1>8, <1>9, <1>10, <1>11

LEMMA IntervalSize ==
  ASSUME NEW a \in Int, NEW b \in Int, a <= b + 1
  PROVE  IsFiniteSet(a..b) /\ Cardinality(a..b) = b + 1 - a
<1>1. /\ IsFiniteSet(a..b)
      /\ Cardinality(a..b) = IF a > b THEN 0 ELSE b - a + 1
  BY FS_Interval
<1>2. CASE a > b
  BY <1>1, <1>2
<1>3. CASE ~(a > b)
  BY <1>1, <1>3
<1> QED BY <1>2, <1>3

LEMMA DisjointSize ==
  ASSUME NEW A, NEW B, IsFiniteSet(A), IsFiniteSet(B), A \cap B = {}
  PROVE  IsFiniteSet(A \cup B) /\ Cardinality(A \cup B) = Cardinality(A) + Cardinality(B)
<1>1. /\ IsFiniteSet(A \cup B)
      /\ Cardinality(A \cup B) = Cardinality(A) + Cardinality(B) - Cardinality(A \cap B)
  BY FS_Union
<1>2. Cardinality(A \cap B) = 0
  BY FS_EmptySet
<1>3. Cardinality(A) \in Nat /\ Cardinality(B) \in Nat
  BY FS_CardinalityType
<1> QED BY <1>1, <1>2, <1>3

\* Of each result at most one count goes up.
LEMMA CountsOnce ==
  ASSUME NEW buffer, NEW a \in Int, cursor \in Nat \ {0}, cursor <= a + 1,
         tally.indexed \in Int, tally.skipped \in Int, tally.errored \in Int,
         NEW new, new = Counted(cursor..a, buffer)
  PROVE  /\ new \in [indexed : Int, skipped : Int, errored : Int]
         /\ tally.indexed <= new.indexed /\ tally.skipped <= new.skipped /\ tally.errored <= new.errored
         /\ new.indexed + new.skipped + new.errored
              <= tally.indexed + tally.skipped + tally.errored + (a + 1 - cursor)
<1> DEFINE Of(kinds) == {s \in cursor..a : buffer[s] \in kinds}
           A == Of({"symbols", "partial"})
           B == Of({"nothing"})
           C == Of({"broken", "exit"})
<1>1. IsFiniteSet(cursor..a) /\ Cardinality(cursor..a) = a + 1 - cursor
  BY IntervalSize
<1>2. IsFiniteSet(A) /\ IsFiniteSet(B) /\ IsFiniteSet(C)
  BY <1>1, FS_Subset
<1>3. A \cap B = {} /\ (A \cup B) \cap C = {} /\ (A \cup B) \cup C \subseteq cursor..a
  OBVIOUS
<1>4. new = [indexed |-> tally.indexed + Cardinality(A), skipped |-> tally.skipped + Cardinality(B),
             errored |-> tally.errored + Cardinality(C)]
  BY DEF Counted
<1> HIDE DEF A, B, C
<1>5. IsFiniteSet(A \cup B) /\ Cardinality(A \cup B) = Cardinality(A) + Cardinality(B)
  BY <1>2, <1>3, DisjointSize
<1>6. Cardinality((A \cup B) \cup C) = Cardinality(A) + Cardinality(B) + Cardinality(C)
  <2>1. Cardinality((A \cup B) \cup C) = Cardinality(A \cup B) + Cardinality(C)
    BY <1>2, <1>3, <1>5, DisjointSize
  <2> QED BY <1>5, <2>1
<1>7. Cardinality(A) + Cardinality(B) + Cardinality(C) <= a + 1 - cursor
  BY <1>1, <1>3, <1>6, FS_Subset
<1>8. Cardinality(A) \in Nat /\ Cardinality(B) \in Nat /\ Cardinality(C) \in Nat
  BY <1>2, FS_CardinalityType
<1>9. /\ new \in [indexed : Int, skipped : Int, errored : Int]
      /\ new.indexed = tally.indexed + Cardinality(A) /\ new.skipped = tally.skipped + Cardinality(B)
      /\ new.errored = tally.errored + Cardinality(C)
  <2>1. ASSUME NEW x, NEW y, NEW z, new = [indexed |-> x, skipped |-> y, errored |-> z]
        PROVE  new.indexed = x /\ new.skipped = y /\ new.errored = z
    BY <2>1
  <2>2. /\ new.indexed = tally.indexed + Cardinality(A) /\ new.skipped = tally.skipped + Cardinality(B)
        /\ new.errored = tally.errored + Cardinality(C)
    BY <1>4, <2>1, Zenon
  <2>3. \A x, y \in Int : x + y \in Int
    OBVIOUS
  <2>4. /\ tally.indexed + Cardinality(A) \in Int /\ tally.skipped + Cardinality(B) \in Int
        /\ tally.errored + Cardinality(C) \in Int
    BY <1>8, <2>3
  <2>5. \A x, y, z \in Int : [indexed |-> x, skipped |-> y, errored |-> z] \in [indexed : Int, skipped : Int, errored : Int]
    OBVIOUS
  <2>6. new \in [indexed : Int, skipped : Int, errored : Int]
    BY <1>4, <2>4, <2>5, Zenon
  <2> QED BY <2>2, <2>6
<1>10. new.indexed + new.skipped + new.errored
         <= tally.indexed + tally.skipped + tally.errored + (a + 1 - cursor)
  <2>1. \A i, k, e, x, y, z \in Int : x + y + z <= a + 1 - cursor =>
          (i + x) + (k + y) + (e + z) <= i + k + e + (a + 1 - cursor)
    OBVIOUS
  <2>2. Cardinality(A) \in Int /\ Cardinality(B) \in Int /\ Cardinality(C) \in Int
    BY <1>8
  <2> QED BY <1>7, <1>9, <2>1, <2>2
<1>11. tally.indexed <= new.indexed /\ tally.skipped <= new.skipped /\ tally.errored <= new.errored
  BY <1>8, <1>9
<1> QED BY <1>9, <1>10, <1>11

LEMMA CommitCommits ==
  ASSUME NEW buffer, Buffered(buffer), NEW a \in Int, NEW b \in {a, a + 1}, cursor <= a + 1,
         cursor..b \subseteq DOMAIN buffer,
         \A s, t \in Seqs : s < t => fileOf[s] < fileOf[t],
         TypeOK, failures + (b - a) <= MaxStoreFailures,
         Commit(buffer, cursor..a, (a + 1)..b)
  PROVE  Committed(buffer, b)
<1> DEFINE R == [file : Files, whole : BOOLEAN]
           rows == Rows(cursor..a, buffer)
<1>1. cursor \in Nat \ {0} /\ Len(fileOf) \in Nat /\ b \in Int /\ a <= b /\ b <= a + 1
  BY LenProperties DEF Buffered
<1>2. cursor..a \cup (a + 1)..b = cursor..b /\ cursor..a \subseteq cursor..b
  BY <1>1
<1>3. cursor' = b + 1
  <2>1. Cardinality(cursor..b) = b + 1 - cursor
    BY <1>1, IntervalSize
  <2>2. cursor' = cursor + Cardinality(cursor..a \cup (a + 1)..b)
    BY DEF Commit
  <2>3. Cardinality(cursor..a \cup (a + 1)..b) = b + 1 - cursor
    BY <1>2, <2>1, Zenon
  <2>4. cursor' = cursor + (b + 1 - cursor)
    BY <2>2, <2>3, Zenon
  <2> QED BY <1>1, <2>4
<1>4. DOMAIN completed' = DOMAIN buffer \ (cursor..b) /\ \A s \in DOMAIN completed' : completed'[s] \in Outcomes
  BY <1>2 DEF Commit, Buffered
<1>5. /\ rows \in Seq(R)
      /\ \A i \in DOMAIN rows : \E s \in cursor..a : rows[i].file = fileOf[s]
      /\ \A i, k \in DOMAIN rows : i < k => rows[i].file < rows[k].file
  BY <1>2, RowsAscend
<1> HIDE DEF rows
<1>6. stored \in Seq(R) /\ stored' = stored \o rows
  BY DEF Commit, TypeOK, rows
<1>7. /\ stored' \in Seq(R) /\ Len(stored) \in Nat /\ Len(rows) \in Nat
      /\ Len(stored') = Len(stored) + Len(rows)
      /\ \A i \in 1..Len(stored') : stored'[i] = IF i <= Len(stored) THEN stored[i] ELSE rows[i - Len(stored)]
      /\ DOMAIN stored = 1..Len(stored) /\ DOMAIN rows = 1..Len(rows) /\ DOMAIN stored' = 1..Len(stored')
  <2> HIDE DEF R
  <2>1. /\ stored' \in Seq(R)
        /\ Len(stored') = Len(stored) + Len(rows)
        /\ \A i \in 1..Len(stored') : stored'[i] = IF i <= Len(stored) THEN stored[i] ELSE rows[i - Len(stored)]
    BY <1>5, <1>6, ConcatProperties
  <2> QED BY <1>5, <1>6, <2>1, LenProperties
<1>8. \A i \in DOMAIN stored' \ DOMAIN stored :
        stored'[i] = rows[i - Len(stored)] /\ i - Len(stored) \in DOMAIN rows
  BY <1>7
<1>9. \A i \in DOMAIN stored' \ DOMAIN stored : \E s \in cursor..b : stored'[i].file = fileOf[s]
  BY <1>2, <1>5, <1>8
<1>10. ASSUME NEW i \in DOMAIN stored' \ DOMAIN stored, NEW k \in DOMAIN stored' \ DOMAIN stored, i < k
       PROVE  stored'[i].file < stored'[k].file
  <2>1. i - Len(stored) < k - Len(stored)
    BY <1>7, <1>10
  <2> QED BY <1>5, <1>8, <2>1
<1>11. /\ tally' \in [indexed : Int, skipped : Int, errored : Int]
       /\ tally.indexed <= tally'.indexed /\ tally.skipped <= tally'.skipped /\ tally.errored <= tally'.errored
       /\ tally'.indexed + tally'.skipped + tally'.errored
            <= tally.indexed + tally.skipped + tally.errored + (b + 1 - cursor)
  <2> DEFINE new == Counted(cursor..a, buffer)
  <2>1. tally.indexed \in Int /\ tally.skipped \in Int /\ tally.errored \in Int
    BY WindowAssumption DEF TypeOK
  <2>2. tally' = new
    BY DEF Commit
  <2> HIDE DEF new
  <2>3. /\ new \in [indexed : Int, skipped : Int, errored : Int]
        /\ tally.indexed <= new.indexed /\ tally.skipped <= new.skipped /\ tally.errored <= new.errored
        /\ new.indexed + new.skipped + new.errored
             <= tally.indexed + tally.skipped + tally.errored + (a + 1 - cursor)
    BY <1>1, <2>1, CountsOnce DEF new
  <2>4. \A x, y, k \in Int : x <= y + (a + 1 - k) => x <= y + (b + 1 - k)
    BY <1>1
  <2>5. /\ new.indexed + new.skipped + new.errored \in Int
        /\ tally.indexed + tally.skipped + tally.errored \in Int /\ cursor \in Int
    <3>1. new.indexed \in Int /\ new.skipped \in Int /\ new.errored \in Int
      BY <2>3
    <3>2. \A x, y, z \in Int : x + y + z \in Int
      OBVIOUS
    <3>3. cursor \in Int
      BY <1>1
    <3> QED BY <2>1, <3>1, <3>2, <3>3, Zenon
  <2>6. new.indexed + new.skipped + new.errored
          <= tally.indexed + tally.skipped + tally.errored + (b + 1 - cursor)
    BY <2>3, <2>4, <2>5, Zenon
  <2> QED BY <2>2, <2>3, <2>6, Zenon
<1>12. errors' \in [Files -> {"none", "read", "size", "partial", "broken", "exit"}]
  <2>1. errors' = Complaints(cursor..a, buffer)
    BY DEF Commit
  <2>2. \A s \in cursor..a : Fails(buffer[s]) => buffer[s] \in {"partial", "broken", "exit"}
    BY DEF Fails
  <2> QED BY <2>1, <2>2 DEF Complaints, TypeOK
<1>13. failures' \in 0..MaxStoreFailures
  <2>1. Cardinality((a + 1)..b) = b + 1 - (a + 1)
    BY <1>1, IntervalSize
  <2>2. failures' = failures + Cardinality((a + 1)..b)
    BY DEF Commit
  <2>3. failures \in 0..MaxStoreFailures /\ MaxStoreFailures \in Nat
    BY WindowAssumption DEF TypeOK
  <2> QED BY <1>1, <2>1, <2>2, <2>3
<1> QED BY <1>3, <1>4, <1>7, <1>9, <1>10, <1>11, <1>12, <1>13 DEF Committed

\* A flush commits up to some sequence number: all that is contiguous, unless a
\* commit throws.
LEMMA FlushCommits ==
  ASSUME NEW buffer, Buffered(buffer), TypeOK, \A s, t \in Seqs : s < t => fileOf[s] < fileOf[t],
         Flush(buffer)
  PROVE  \E last \in (cursor - 1)..Len(fileOf) : Committed(buffer, last) /\ last + 1 \notin DOMAIN buffer
<1> DEFINE last == RunEnd(buffer) - 1
<1>1. /\ RunEnd(buffer) \in cursor..(Len(fileOf) + 1)
      /\ \A s \in cursor..last : s \in DOMAIN buffer
      /\ last + 1 \notin DOMAIN buffer
  <2>1. RunEnd(buffer) \in cursor..(Len(fileOf) + 1) /\ RunEnd(buffer) \notin DOMAIN buffer
    BY RunEndEnds
  <2>2. cursor \in Int /\ Len(fileOf) \in Int
    BY LenProperties DEF Buffered
  <2>3. last + 1 = RunEnd(buffer)
    BY <2>1, <2>2
  <2> QED BY <2>1, <2>3, RunEndEnds
<1>2. cursor \in Nat \ {0} /\ Len(fileOf) \in Nat
  BY LenProperties DEF Buffered
<1>3. last \in (cursor - 1)..Len(fileOf) /\ last \in Int /\ (last + 1)..last = {} /\ last + 1 - 1 = last
  BY <1>1, <1>2
<1>4. Commit(buffer, cursor..last, (last + 1)..last)
  BY <1>3 DEF Flush
<1> HIDE DEF last
<1>5. failures + (last - last) <= MaxStoreFailures
  BY <1>3, WindowAssumption DEF TypeOK
<1>6. last \in {last, last + 1} /\ cursor <= last + 1 /\ cursor..last \subseteq DOMAIN buffer
  BY <1>1, <1>2, <1>3
<1>7. Committed(buffer, last)
  BY <1>3, <1>4, <1>5, <1>6, CommitCommits
<1> QED BY <1>1, <1>3, <1>7

LEMMA ThrowCommits ==
  ASSUME NEW buffer, Buffered(buffer), TypeOK, \A s, t \in Seqs : s < t => fileOf[s] < fileOf[t],
         FlushThrows(buffer)
  PROVE  \E last \in cursor..Len(fileOf) : Committed(buffer, last)
<1>1. PICK s \in cursor..(RunEnd(buffer) - 1) : Commit(buffer, cursor..(s - 1), {s})
  BY DEF FlushThrows
<1>2. /\ RunEnd(buffer) \in cursor..(Len(fileOf) + 1)
      /\ \A r \in cursor..(RunEnd(buffer) - 1) : r \in DOMAIN buffer
  BY RunEndEnds
<1>3. cursor \in Nat \ {0} /\ Len(fileOf) \in Nat
  BY LenProperties DEF Buffered
<1> DEFINE a == s - 1
<1>4. a \in Int /\ s = a + 1 /\ cursor <= a + 1 /\ (a + 1)..s = {s} /\ s \in cursor..Len(fileOf)
  BY <1>1, <1>2, <1>3
<1>5. cursor..s \subseteq DOMAIN buffer
  BY <1>1, <1>2, <1>3
<1>6. failures + (s - a) <= MaxStoreFailures
  BY <1>4, WindowAssumption DEF TypeOK, FlushThrows
<1>7. Commit(buffer, cursor..a, (a + 1)..s)
  BY <1>1, <1>4
<1> HIDE DEF a
<1>8. Committed(buffer, s)
  BY <1>4, <1>5, <1>6, <1>7, CommitCommits
<1> QED BY <1>4, <1>8

\* No more rows than files, as long as no file has two.
LEMMA RowsBounded ==
  ASSUME NEW q \in Seq([file : Files, whole : BOOLEAN]),
         \A i, k \in DOMAIN q : q[i].file = q[k].file => i = k
  PROVE  Len(q) <= N
<1> DEFINE R == [file : Files, whole : BOOLEAN]
<1>1. Len(q) \in Nat /\ DOMAIN q = 1..Len(q) /\ \A i \in 1..Len(q) : q[i] \in R
  <2> HIDE DEF R
  <2>1. q \in Seq(R)
    BY DEF R
  <2> QED BY <2>1, LenProperties, ElementOfSeq
<1>2. N \in Nat /\ Files = 1..N
  BY WindowAssumption DEF Files
<1>3. \A i \in 1..Len(q) : q[i].file \in Files
  BY <1>1
<1> DEFINE f == [i \in 1..Len(q) |-> q[i].file]
<1>4. f \in [1..Len(q) -> 1..N]
  BY <1>2, <1>3
<1>5. \A i, k \in 1..Len(q) : i # k => f[i] # f[k]
  BY <1>1
<1>6. /\ IsFiniteSet(1..N) /\ Cardinality(1..N) = N + 1 - 1
      /\ IsFiniteSet(1..Len(q)) /\ Cardinality(1..Len(q)) = Len(q) + 1 - 1
  BY <1>1, <1>2, IntervalSize
<1> HIDE DEF f
<1>7. ASSUME Cardinality(1..N) < Cardinality(1..Len(q))
      PROVE  FALSE
  <2> DEFINE S == 1..Len(q)
             T == 1..N
  <2>1. IsFiniteSet(S) /\ IsFiniteSet(T) /\ Cardinality(T) < Cardinality(S) /\ f \in [S -> T]
    BY <1>4, <1>6, <1>7
  <2> HIDE DEF S, T
  <2>2. \E i, k \in S : i # k /\ f[i] = f[k]
    BY <2>1, FS_PigeonHole
  <2> QED BY <1>5, <2>2 DEF S
<1> QED BY <1>1, <1>2, <1>6, <1>7

-----------------------------------------------------------------------------
(* Every step keeps the invariant.                                            *)

LEMMA InitIInv == Init => IInv
<1> SUFFICES ASSUME Init PROVE IInv
  OBVIOUS
<1> USE WindowAssumption DEF Init
<1>1. TypeOK
  <2>1. pc \in {"batch", "drain"} /\ next \in 1..(N + 1) /\ failures \in 0..MaxStoreFailures
    OBVIOUS
  <2>6. signal \in BOOLEAN
    OBVIOUS
  <2>2. fileOf \in Seq(Files) /\ Len(fileOf) = 0 /\ stored \in Seq([file : Files, whole : BOOLEAN]) /\ Len(stored) = 0
    OBVIOUS
  <2>3. DOMAIN completed = {} /\ wait \in [on : SUBSET Seqs, state : {"none", "pending", "fulfilled", "rejected"}]
    BY DEF NoWait
  <2>4. tally \in [{"indexed", "skipped", "errored"} -> -N..(2 * N)]
    OBVIOUS
  <2>5. /\ errors \in [Files -> {"none", "read", "size", "partial", "broken", "exit"}]
        /\ retry \in [todo : SUBSET Files, failing : SUBSET Files, pass : 0..2]
    OBVIOUS
  <2> QED BY <2>1, <2>2, <2>3, <2>4, <2>5, <2>6 DEF TypeOK
<1>2. Dispatched
  BY DEF Dispatched, Seqs
<1>3. Windowed
  <2>1. inFlight \cup DOMAIN completed = {} /\ cursor..Len(fileOf) = {} /\ Fed = 0
    BY DEF Fed
  <2> QED BY <2>1 DEF Windowed
<1>4. Awaited
  BY DEF Awaited, Ended
<1>5. Ordered
  BY DEF Ordered, CommitOrder
<1>6. Tallied
  BY DEF Tallied
<1> QED BY <1>1, <1>2, <1>3, <1>4, <1>5, <1>6 DEF IInv

\* What a commit leaves behind, wherever it happens.
LEMMA AfterCommit ==
  ASSUME IInv, retry.pass = 0, NEW buffer, NEW last \in (cursor - 1)..Len(fileOf), Committed(buffer, last),
         DOMAIN buffer \subseteq cursor..Len(fileOf), UNCHANGED <<fileOf, next>>
  PROVE  /\ cursor' \in 1..(Len(fileOf') + 1) /\ Len(fileOf') - (cursor' - 1) <= WindowSize
         /\ stored' \in Seq([file : Files, whole : BOOLEAN]) /\ Len(stored') <= N
         /\ tally' \in [{"indexed", "skipped", "errored"} -> -N..(2 * N)]
         /\ CommitOrder' /\ \A i, k \in DOMAIN stored' : i < k => stored'[i].file < stored'[k].file
         /\ \A i \in DOMAIN stored' : \E s \in 1..(cursor' - 1) : stored'[i].file = fileOf'[s]
         /\ tally'.indexed \in Nat /\ tally'.skipped \in Nat /\ tally'.errored \in Nat
         /\ tally'.indexed + tally'.skipped + tally'.errored <= next' - 1 - Len(fileOf') + cursor' - 1
<1> DEFINE R == [file : Files, whole : BOOLEAN]
<1>1. /\ cursor \in 1..(Len(fileOf) + 1) /\ Len(fileOf) \in Nat /\ cursor' = last + 1
      /\ fileOf \in Seq(Files) /\ fileOf' = fileOf /\ next' = next /\ next \in 1..(N + 1) /\ N \in Nat
      /\ WindowSize \in Nat /\ Len(fileOf) - (cursor - 1) <= WindowSize
  BY WindowAssumption, LenProperties DEF IInv, TypeOK, Committed
<1>2. cursor' \in 1..(Len(fileOf') + 1) /\ Len(fileOf') - (cursor' - 1) <= WindowSize /\ cursor <= cursor'
  BY <1>1
<1>3. /\ stored \in Seq(R) /\ stored' \in Seq(R) /\ Len(stored) <= Len(stored')
      /\ \A i \in DOMAIN stored : stored'[i] = stored[i]
      /\ \A i \in DOMAIN stored' \ DOMAIN stored : \E s \in cursor..last : stored'[i].file = fileOf[s]
      /\ \A i, k \in DOMAIN stored' \ DOMAIN stored : i < k => stored'[i].file < stored'[k].file
  BY DEF IInv, TypeOK, Committed
<1>4. /\ Len(stored) \in Nat /\ Len(stored') \in Nat
      /\ DOMAIN stored = 1..Len(stored) /\ DOMAIN stored' = 1..Len(stored')
      /\ \A i \in DOMAIN stored' : stored'[i] \in R
  <2> HIDE DEF R
  <2> QED BY <1>3, LenProperties, ElementOfSeq
<1>5. /\ \A i \in DOMAIN stored : \E s \in 1..(cursor - 1) : stored[i].file = fileOf[s]
      /\ \A i, k \in DOMAIN stored : i < k => stored[i].file < stored[k].file
  BY DEF IInv, Ordered, CommitOrder
<1>6. \A s, t \in 1..Len(fileOf) : s < t => fileOf[s] < fileOf[t]
  BY DEF IInv, Dispatched, Seqs
<1>7. \A i \in DOMAIN stored' : stored'[i].file \in Nat
  BY <1>1, <1>4 DEF Files
<1>8. ASSUME NEW i \in DOMAIN stored', NEW k \in DOMAIN stored', i < k
      PROVE  stored'[i].file < stored'[k].file
  <2>1. CASE k \in DOMAIN stored
    <3>1. i \in DOMAIN stored
      BY <1>4, <1>8, <2>1
    <3> QED BY <1>3, <1>5, <1>8, <2>1, <3>1
  <2>2. CASE k \notin DOMAIN stored /\ i \in DOMAIN stored
    <3>1. PICK t \in cursor..last : stored'[k].file = fileOf[t]
      BY <1>3, <2>2
    <3>2. PICK s \in 1..(cursor - 1) : stored'[i].file = fileOf[s]
      BY <1>3, <1>5, <2>2
    <3>3. s \in 1..Len(fileOf) /\ t \in 1..Len(fileOf) /\ s < t
      BY <1>1, <3>1, <3>2
    <3> QED BY <1>6, <3>1, <3>2, <3>3
  <2>3. CASE k \notin DOMAIN stored /\ i \notin DOMAIN stored
    BY <1>3, <1>8, <2>3
  <2> QED BY <2>1, <2>2, <2>3
<1>9. \A i, k \in DOMAIN stored' : stored'[i].file = stored'[k].file => i = k
  <2> SUFFICES ASSUME NEW i \in DOMAIN stored', NEW k \in DOMAIN stored', i # k
               PROVE  stored'[i].file # stored'[k].file
    OBVIOUS
  <2>1. i < k \/ k < i
    BY <1>4
  <2>2. stored'[i].file \in Nat /\ stored'[k].file \in Nat
    BY <1>7
  <2> QED BY <1>8, <2>1, <2>2
<1>10. Len(stored') <= N
  BY <1>3, <1>9, RowsBounded
<1>11. CommitOrder'
  BY <1>8, <1>9 DEF CommitOrder
<1>12. ASSUME NEW i \in DOMAIN stored'
       PROVE  \E s \in 1..(cursor' - 1) : stored'[i].file = fileOf'[s]
  <2>1. CASE i \in DOMAIN stored
    <3>1. PICK s \in 1..(cursor - 1) : stored'[i].file = fileOf[s]
      BY <1>3, <1>5, <2>1
    <3>2. s \in 1..(cursor' - 1)
      BY <1>1, <1>2
    <3> QED BY <1>1, <3>1, <3>2
  <2>2. CASE i \notin DOMAIN stored
    <3>1. PICK s \in cursor..last : stored'[i].file = fileOf[s]
      BY <1>3, <2>2
    <3>2. s \in 1..(cursor' - 1)
      BY <1>1
    <3> QED BY <1>1, <3>1, <3>2
  <2> QED BY <2>1, <2>2
<1>13. /\ tally'.indexed \in Nat /\ tally'.skipped \in Nat /\ tally'.errored \in Nat
       /\ tally'.indexed + tally'.skipped + tally'.errored <= next' - 1 - Len(fileOf') + cursor' - 1
       /\ tally' \in [indexed : Int, skipped : Int, errored : Int]
  <2>1. /\ tally.indexed \in Nat /\ tally.skipped \in Nat /\ tally.errored \in Nat
        /\ tally.indexed + tally.skipped + tally.errored <= next - 1 - Len(fileOf) + cursor - 1
    BY DEF IInv, Tallied
  <2>2. /\ tally'.indexed \in Int /\ tally'.skipped \in Int /\ tally'.errored \in Int
        /\ tally' \in [indexed : Int, skipped : Int, errored : Int]
        /\ tally.indexed <= tally'.indexed /\ tally.skipped <= tally'.skipped /\ tally.errored <= tally'.errored
        /\ tally'.indexed + tally'.skipped + tally'.errored
             <= tally.indexed + tally.skipped + tally.errored + (last + 1 - cursor)
    BY DEF Committed
  <2>3. /\ tally'.indexed \in Nat /\ tally'.skipped \in Nat /\ tally'.errored \in Nat
    BY <2>1, <2>2
  <2>4. \A x, y, c, l, n, f \in Int :
          x <= y + (l + 1 - c) /\ y <= n - 1 - f + c - 1 => x <= n - 1 - f + (l + 1) - 1
    OBVIOUS
  <2> DEFINE new == tally'.indexed + tally'.skipped + tally'.errored
             old == tally.indexed + tally.skipped + tally.errored
  <2>5. new \in Int /\ old \in Int
    BY <2>1, <2>3
  <2>6. cursor \in Int /\ last \in Int /\ next \in Int /\ Len(fileOf) \in Int
    BY <1>1
  <2>7. new <= old + (last + 1 - cursor) /\ old <= next - 1 - Len(fileOf) + cursor - 1
    BY <2>1, <2>2
  <2> HIDE DEF new, old
  <2>8. new <= next - 1 - Len(fileOf) + (last + 1) - 1
    BY <2>4, <2>5, <2>6, <2>7, Zenon
  <2> QED BY <1>1, <2>2, <2>3, <2>8, Zenon DEF new
<1>14. tally' \in [{"indexed", "skipped", "errored"} -> -N..(2 * N)]
  <2>1. next' - 1 - Len(fileOf') + cursor' - 1 <= N
    BY <1>1
  <2>2. tally'.indexed \in -N..(2 * N) /\ tally'.skipped \in -N..(2 * N) /\ tally'.errored \in -N..(2 * N)
    BY <1>1, <1>2, <1>13, <2>1
  <2> QED BY <1>13, <2>2
<1> QED BY <1>2, <1>3, <1>8, <1>10, <1>11, <1>12, <1>13, <1>14

\* A promise that settles tells its waiters.
LEMMA TellTells ==
  ASSUME IInv, NEW s \in inFlight, NEW how, Tell(s, how), inFlight' = inFlight \ {s}
  PROVE  /\ wait' \in [on : SUBSET Seqs, state : {"none", "pending", "fulfilled", "rejected"}]
         /\ pc = "draining" /\ wait'.state = "pending" => wait'.on = inFlight'
         /\ pc = "draining" /\ wait'.state = "fulfilled" => inFlight' = {}
         /\ pc = "draining" => wait'.state # "none"
<1>1. wait \in [on : SUBSET Seqs, state : {"none", "pending", "fulfilled", "rejected"}] /\ inFlight \subseteq Seqs
  BY DEF IInv, TypeOK
<1>2. /\ pc = "draining" /\ wait.state = "pending" => wait.on = inFlight
      /\ pc = "draining" /\ wait.state = "fulfilled" => inFlight = {}
      /\ pc = "draining" => wait.state # "none"
  BY DEF IInv, Awaited
<1>3. CASE ~(wait.state = "pending" /\ s \in wait.on)
  BY <1>1, <1>2, <1>3 DEF Tell
<1>4. CASE wait.state = "pending" /\ s \in wait.on
  <2>1. wait' = [on |-> IF pc = "draining" THEN wait.on \ {s} ELSE wait.on,
                 state |-> IF how = "rejected" THEN "rejected"
                           ELSE IF pc = "draining" /\ wait.on # {s} THEN "pending"
                           ELSE "fulfilled"]
    BY <1>4 DEF Tell
  <2>2. /\ wait'.on \in SUBSET Seqs /\ wait'.state \in {"none", "pending", "fulfilled", "rejected"}
        /\ wait' \in [on : SUBSET Seqs, state : {"none", "pending", "fulfilled", "rejected"}]
    BY <1>1, <2>1
  <2>3. ASSUME pc = "draining"
        PROVE  /\ wait'.state = "pending" => wait'.on = inFlight'
               /\ wait'.state = "fulfilled" => inFlight' = {}
    <3>1. wait.on = inFlight
      BY <1>2, <1>4, <2>3
    <3>2. wait'.on = wait.on \ {s}
      BY <2>1, <2>3
    <3>3. wait'.state = IF how = "rejected" THEN "rejected" ELSE IF wait.on # {s} THEN "pending" ELSE "fulfilled"
      BY <2>1, <2>3
    <3>4. wait'.state = "fulfilled" => wait.on = {s}
      BY <3>3
    <3> QED BY <3>1, <3>2, <3>4
  <2> QED BY <2>1, <2>2, <2>3
<1> QED BY <1>3, <1>4

LEMMA SettleCommits ==
  ASSUME IInv, NEW s \in inFlight, NEW buffer, NEW last \in (cursor - 1)..Len(fileOf), Committed(buffer, last),
         DOMAIN buffer = DOMAIN completed \cup {s}, inFlight' = inFlight \ {s},
         NEW how, Tell(s, how), pc' \in {pc, "died"},
         UNCHANGED <<next, fileOf, raced, retry, signal>>,
         inFlight' = {} => cursor <= last \/ last = Len(fileOf)
  PROVE  IInv'
<1>1. /\ cursor \in 1..(Len(fileOf) + 1) /\ Len(fileOf) \in Nat /\ cursor' = last + 1 /\ fileOf \in Seq(Files)
      /\ fileOf' = fileOf /\ next' = next /\ retry' = retry /\ signal' = signal /\ raced' = raced
      /\ WindowSize \in Nat \ {0} /\ Fed <= WindowSize
  BY WindowAssumption, LenProperties DEF IInv, TypeOK, Committed, Fed
<1>2. retry.pass = 0
  BY DEF IInv, Awaited
<1>3. inFlight \cup DOMAIN completed = cursor..Len(fileOf) /\ inFlight \cap DOMAIN completed = {}
  BY DEF IInv, TypeOK, Windowed
<1>4. DOMAIN buffer \subseteq cursor..Len(fileOf)
  BY <1>3
<1>5. /\ cursor' \in 1..(Len(fileOf') + 1) /\ Len(fileOf') - (cursor' - 1) <= WindowSize
      /\ stored' \in Seq([file : Files, whole : BOOLEAN]) /\ Len(stored') <= N
      /\ tally' \in [{"indexed", "skipped", "errored"} -> -N..(2 * N)]
      /\ CommitOrder'
      /\ \A i \in DOMAIN stored' : \E r \in 1..(cursor' - 1) : stored'[i].file = fileOf'[r]
      /\ tally'.indexed \in Nat /\ tally'.skipped \in Nat /\ tally'.errored \in Nat
      /\ tally'.indexed + tally'.skipped + tally'.errored <= next' - 1 - Len(fileOf') + cursor' - 1
  BY <1>1, <1>2, <1>4, AfterCommit
<1>6. /\ DOMAIN completed' = DOMAIN buffer \ (cursor..last)
      /\ \A r \in DOMAIN completed' : completed'[r] \in Outcomes
      /\ errors' \in [Files -> {"none", "read", "size", "partial", "broken", "exit"}]
      /\ failures' \in 0..MaxStoreFailures /\ cursor..last \subseteq DOMAIN buffer
  BY DEF Committed
<1>7. /\ wait' \in [on : SUBSET Seqs, state : {"none", "pending", "fulfilled", "rejected"}]
      /\ pc = "draining" /\ wait'.state = "pending" => wait'.on = inFlight'
      /\ pc = "draining" /\ wait'.state = "fulfilled" => inFlight' = {}
      /\ pc = "draining" => wait'.state # "none"
  BY TellTells
<1>8. TypeOK'
  <2>1. /\ pc \in {"batch", "reading", "feeding", "racing", "drain", "draining", "retrying"} \cup Ended
        /\ next \in 1..(N + 1) /\ Len(fileOf) <= N /\ inFlight \subseteq Seqs /\ raced \subseteq Seqs
        /\ retry \in [todo : SUBSET Files, failing : SUBSET Files, pass : 0..2] /\ signal \in BOOLEAN
        /\ DOMAIN completed \subseteq Seqs
    BY DEF IInv, TypeOK
  <2>2. pc' \in {"batch", "reading", "feeding", "racing", "drain", "draining", "retrying"} \cup Ended
    BY <2>1 DEF Ended
  <2>3. Seqs' = Seqs /\ s \in Seqs
    BY <1>1, <2>1 DEF Seqs
  <2>4. DOMAIN completed' \subseteq Seqs' \ inFlight'
    BY <1>3, <1>6, <2>1, <2>3
  <2>5. wait' \in [on : SUBSET Seqs', state : {"none", "pending", "fulfilled", "rejected"}]
    BY <1>7, <2>3
  <2>6. inFlight' \subseteq Seqs' /\ raced' \subseteq Seqs'
    BY <1>1, <2>1, <2>3
  <2> QED BY <1>1, <1>5, <1>6, <2>1, <2>2, <2>4, <2>5, <2>6 DEF TypeOK
<1>9. Dispatched'
  BY <1>1 DEF IInv, Dispatched, Seqs
<1>10. Windowed'
  <2>1. inFlight' \cup DOMAIN completed' = cursor'..Len(fileOf')
    <3>1. inFlight' \cup DOMAIN completed' = (cursor..Len(fileOf)) \ (cursor..last)
      BY <1>3, <1>6
    <3>2. (cursor..Len(fileOf)) \ (cursor..last) = cursor'..Len(fileOf')
      BY <1>1
    <3> QED BY <3>1, <3>2
  <2>2. Fed' <= Fed /\ (cursor <= last => Fed' < Fed) /\ (last = Len(fileOf) => Fed' = 0) /\ Fed' \in Int /\ Fed \in Int
    BY <1>1 DEF Fed
  <2>3. pc' \in {"batch", "reading", "feeding"} => Fed' < WindowSize
    BY <1>1, <2>2 DEF IInv, Windowed
  <2>4. inFlight' = {} => Fed' < WindowSize
    BY <1>1, <2>2
  <2> QED BY <2>1, <2>3, <2>4 DEF Windowed
<1>11. Awaited'
  BY <1>1, <1>2, <1>7 DEF IInv, Awaited, Ended
<1>12. Ordered'
  BY <1>5 DEF Ordered
<1>13. Tallied'
  BY <1>1, <1>2, <1>5 DEF IInv, Tallied
<1> QED BY <1>8, <1>9, <1>10, <1>11, <1>12, <1>13 DEF IInv

LEMMA SettleIInv ==
  ASSUME IInv, NEW s \in inFlight, Settle(s)
  PROVE  IInv'
<1>1. PICK outcome \in Outcomes :
        LET buffer == [t \in DOMAIN completed \cup {s} |-> IF t = s THEN outcome ELSE completed[t]]
        IN \/ /\ IF pc = "aborted" THEN Buffer(buffer) ELSE Flush(buffer)
              /\ Tell(s, "fulfilled")
              /\ UNCHANGED pc
           \/ /\ pc # "aborted"
              /\ FlushThrows(buffer)
              /\ Tell(s, "rejected")
              /\ pc' = IF s \in raced THEN pc ELSE "died"
  BY DEF Settle
<1> DEFINE buffer == [t \in DOMAIN completed \cup {s} |-> IF t = s THEN outcome ELSE completed[t]]
<1>2. DOMAIN buffer = DOMAIN completed \cup {s} /\ \A r \in DOMAIN buffer : buffer[r] \in Outcomes
  BY DEF IInv, TypeOK
<1>3. \/ pc = "aborted" /\ Buffer(buffer) /\ Tell(s, "fulfilled") /\ pc' = pc
      \/ pc # "aborted" /\ Flush(buffer) /\ Tell(s, "fulfilled") /\ pc' = pc
      \/ pc # "aborted" /\ FlushThrows(buffer) /\ Tell(s, "rejected") /\ pc' \in {pc, "died"}
  BY <1>1
<1> HIDE DEF buffer
<1>4. inFlight' = inFlight \ {s} /\ UNCHANGED <<next, fileOf, raced, retry, signal>>
  BY DEF Settle
<1>5. /\ inFlight \cup DOMAIN completed = cursor..Len(fileOf) /\ cursor \in 1..(Len(fileOf) + 1)
      /\ fileOf \in Seq(Files) /\ TypeOK /\ Len(fileOf) \in Nat
  BY LenProperties DEF IInv, TypeOK, Windowed
<1>6. Buffered(buffer)
  BY <1>2, <1>5 DEF Buffered
<1>7. \A r, t \in Seqs : r < t => fileOf[r] < fileOf[t]
  BY DEF IInv, Dispatched
<1>8. CASE pc = "aborted" /\ Buffer(buffer) /\ Tell(s, "fulfilled") /\ pc' = pc
  <2>1. completed' = buffer /\ UNCHANGED <<pc, cursor, stored, tally, errors, failures>>
    BY <1>8 DEF Buffer
  <2>2. wait' \in [on : SUBSET Seqs, state : {"none", "pending", "fulfilled", "rejected"}]
    BY <1>4, <1>8, TellTells
  <2>3. Seqs' = Seqs /\ inFlight \subseteq Seqs /\ DOMAIN completed \subseteq Seqs \ inFlight
    BY <1>4 DEF Seqs, IInv, TypeOK
  <2>4. DOMAIN completed' \subseteq Seqs' \ inFlight' /\ inFlight' \subseteq Seqs'
    BY <1>2, <1>4, <2>1, <2>3
  <2>5. TypeOK'
    BY <1>2, <1>4, <2>1, <2>2, <2>3, <2>4 DEF IInv, TypeOK
  <2>6. Dispatched'
    BY <1>4, <2>1, <2>3 DEF IInv, Dispatched
  <2>7. inFlight' \cup DOMAIN completed' = cursor'..Len(fileOf')
    BY <1>2, <1>4, <1>5, <2>1
  <2>8. Windowed'
    BY <1>8, <2>1, <2>7 DEF Windowed
  <2>9. Awaited'
    BY <1>4, <1>8, <2>1 DEF IInv, Awaited, Ended
  <2>10. Ordered' /\ Tallied'
    BY <1>4, <2>1 DEF IInv, Ordered, CommitOrder, Tallied, Left
  <2> QED BY <2>5, <2>6, <2>8, <2>9, <2>10 DEF IInv
<1>9. CASE pc # "aborted" /\ Flush(buffer) /\ Tell(s, "fulfilled") /\ pc' = pc
  <2>1. PICK last \in (cursor - 1)..Len(fileOf) : Committed(buffer, last) /\ last + 1 \notin DOMAIN buffer
    BY <1>5, <1>6, <1>7, <1>9, FlushCommits
  <2>2. inFlight' = {} => last = Len(fileOf)
    <3>1. inFlight' = {} => DOMAIN buffer = cursor..Len(fileOf)
      BY <1>2, <1>4, <1>5
    <3> QED BY <1>5, <2>1, <3>1
  <2> QED BY <1>2, <1>4, <1>9, <2>1, <2>2, SettleCommits
<1>10. CASE pc # "aborted" /\ FlushThrows(buffer) /\ Tell(s, "rejected") /\ pc' \in {pc, "died"}
  <2>1. PICK last \in cursor..Len(fileOf) : Committed(buffer, last)
    BY <1>5, <1>6, <1>7, <1>10, ThrowCommits
  <2>2. last \in (cursor - 1)..Len(fileOf) /\ cursor <= last
    BY <1>5, <2>1
  <2> QED BY <1>2, <1>4, <1>10, <2>1, <2>2, SettleCommits
<1> QED BY <1>3, <1>8, <1>9, <1>10

-----------------------------------------------------------------------------
(* The main loop.                                                             *)

\* Steps that only move on in the loop, stop it or raise the signal.
LEMMA ControlIInv ==
  ASSUME IInv, StartBatch \/ ReadBatch \/ Abort \/ RaiseSignal
  PROVE  IInv'
<1>1. /\ UNCHANGED <<next, window, stored, tally, errors, retry, failures>>
      /\ pc' = pc \/ (pc \in {"batch", "reading", "feeding"} /\ pc' \in {"reading", "feeding", "aborted"})
  BY DEF StartBatch, ReadBatch, Abort, RaiseSignal
<1>2. signal' \in BOOLEAN
  BY DEF StartBatch, ReadBatch, Abort, RaiseSignal, IInv, TypeOK
<1>3. TypeOK'
  BY <1>1, <1>2 DEF IInv, TypeOK, window, Seqs, Ended
<1>4. Dispatched' /\ Windowed'
  BY <1>1 DEF IInv, Dispatched, Windowed, window, Seqs, Fed
<1>5. Awaited'
  BY <1>1 DEF IInv, Awaited, window, Ended
<1>6. Ordered' /\ Tallied'
  BY <1>1 DEF IInv, Ordered, CommitOrder, Tallied, Left, window
<1> QED BY <1>3, <1>4, <1>5, <1>6 DEF IInv

LEMMA AfterFileGoesOn ==
  ASSUME NEW n \in Int
  PROVE  AfterFile(n) \in {"batch", "feeding", "drain"} /\ (AfterFile(n) # "drain" => n <= N)
BY WindowAssumption DEF AfterFile

LEMMA SkipFileIInv ==
  ASSUME IInv, SkipFile
  PROVE  IInv'
<1>1. /\ pc = "feeding" /\ next' = next + 1 /\ pc' = AfterFile(next + 1)
      /\ UNCHANGED <<window, stored, retry, signal, failures>>
      /\ next \in 1..(N + 1) /\ next <= N /\ N \in Nat /\ Len(fileOf) \in Nat /\ fileOf \in Seq(Files)
  BY WindowAssumption, LenProperties DEF SkipFile, IInv, TypeOK, Dispatched
<1>2. pc' \in {"batch", "feeding", "drain"} /\ (pc' # "drain" => next' <= N)
  BY <1>1, AfterFileGoesOn
<1>3. retry.pass = 0
  BY <1>1 DEF IInv, Awaited, Ended
<1>4. /\ tally.indexed \in Nat /\ tally.skipped \in Nat /\ tally.errored \in Nat
      /\ tally.indexed + tally.skipped + tally.errored <= next - 1 - Len(fileOf) + cursor - 1
      /\ cursor \in 1..(Len(fileOf) + 1)
      /\ tally \in [{"indexed", "skipped", "errored"} -> -N..(2 * N)]
  BY <1>3 DEF IInv, Tallied, TypeOK
<1>5. PICK kind \in {"errored", "skipped"} : Counting(kind)
  BY DEF SkipFile
<1>6. tally' = [tally EXCEPT ![kind] = tally[kind] + 1]
  BY <1>5 DEF Counting
<1>7. /\ tally'.indexed = tally.indexed
      /\ tally'.skipped = IF kind = "skipped" THEN tally.skipped + 1 ELSE tally.skipped
      /\ tally'.errored = IF kind = "errored" THEN tally.errored + 1 ELSE tally.errored
      /\ tally' \in [{"indexed", "skipped", "errored"} -> Int]
  <2>1. tally.skipped + 1 \in Int /\ tally.errored + 1 \in Int
    BY <1>4
  <2> QED BY <1>1, <1>4, <1>5, <1>6, <2>1
<1>8. /\ tally'.indexed \in Nat /\ tally'.skipped \in Nat /\ tally'.errored \in Nat
      /\ tally'.indexed + tally'.skipped + tally'.errored <= next' - 1 - Len(fileOf) + cursor - 1
  <2>1. tally'.indexed \in Nat /\ tally'.skipped \in Nat /\ tally'.errored \in Nat
    BY <1>4, <1>7
  <2> DEFINE new == tally'.indexed + tally'.skipped + tally'.errored
             old == tally.indexed + tally.skipped + tally.errored
  <2>2. \A i, k, e, l, m, n \in Int :
          l = i /\ ((m = k + 1 /\ n = e) \/ (m = k /\ n = e + 1)) => l + m + n = (i + k + e) + 1
    OBVIOUS
  <2>3. tally.indexed \in Int /\ tally.skipped \in Int /\ tally.errored \in Int
    BY <1>4
  <2>4. new = old + 1
    <3>1. CASE kind = "skipped"
      <4>1. tally'.skipped = tally.skipped + 1 /\ tally'.errored = tally.errored /\ tally'.indexed = tally.indexed
        BY <1>7, <3>1
      <4> QED BY <2>1, <2>2, <2>3, <4>1
    <3>2. CASE kind = "errored"
      <4>1. tally'.skipped = tally.skipped /\ tally'.errored = tally.errored + 1 /\ tally'.indexed = tally.indexed
        BY <1>7, <3>2
      <4> QED BY <2>1, <2>2, <2>3, <4>1
    <3> QED BY <1>5, <3>1, <3>2
  <2>5. old \in Int
    BY <2>3
  <2>6. old <= next - 1 - Len(fileOf) + cursor - 1
    BY <1>4
  <2> HIDE DEF new, old
  <2>7. new <= next' - 1 - Len(fileOf) + cursor - 1
    BY <1>1, <1>4, <2>4, <2>5, <2>6
  <2> QED BY <2>1, <2>7 DEF new
<1>9. tally' \in [{"indexed", "skipped", "errored"} -> -N..(2 * N)]
  <2>1. \A i, k, e \in Nat : \A n, f, c \in Int :
          \A m \in {n + 1} : (i + k + e <= m - 1 - f + c - 1 /\ c <= f + 1 /\ n <= N) => i <= N /\ k <= N /\ e <= N
    BY <1>1
  <2>2. tally'.indexed <= N /\ tally'.skipped <= N /\ tally'.errored <= N
    <3>1. /\ tally'.indexed + tally'.skipped + tally'.errored <= next' - 1 - Len(fileOf) + cursor - 1
          /\ next \in Int /\ next' = next + 1 /\ Len(fileOf) \in Int /\ cursor \in Int /\ cursor <= Len(fileOf) + 1
          /\ tally'.indexed \in Nat /\ tally'.skipped \in Nat /\ tally'.errored \in Nat
      BY <1>1, <1>4, <1>8
    <3> QED BY <1>1, <2>1, <3>1, Zenon
  <2>3. tally'.indexed \in -N..(2 * N) /\ tally'.skipped \in -N..(2 * N) /\ tally'.errored \in -N..(2 * N)
    <3>1. \A x, n \in Nat : x <= n => x \in -n..(2 * n)
      OBVIOUS
    <3>2. N \in Nat
      BY <1>1
    <3> QED BY <1>8, <2>2, <3>1, <3>2, Zenon
  <2> QED BY <1>7, <2>3
<1>10. errors' \in [Files -> {"none", "read", "size", "partial", "broken", "exit"}]
  BY DEF SkipFile, IInv, TypeOK
<1>11. TypeOK'
  <2>1. next' \in 1..(N + 1)
    BY <1>1
  <2> QED BY <1>1, <1>2, <1>9, <1>10, <2>1 DEF IInv, TypeOK, window, Seqs
<1>12. Dispatched'
  <2>1. /\ Len(fileOf) < next /\ \A s \in Seqs : fileOf[s] < next /\ fileOf[s] \in Nat
        /\ \A s, t \in Seqs : s < t => fileOf[s] < fileOf[t]
    <3>1. \A s \in Seqs : fileOf[s] \in Files
      BY <1>1, ElementOfSeq DEF Seqs
    <3> QED BY <1>1, <3>1 DEF IInv, Dispatched, Files
  <2>2. Len(fileOf') < next' /\ Seqs' = Seqs /\ fileOf' = fileOf
    BY <1>1, <2>1 DEF window, Seqs
  <2>3. \A s \in Seqs : fileOf[s] < next + 1
    BY <1>1, <2>1
  <2> QED BY <1>1, <1>2, <2>1, <2>2, <2>3 DEF Dispatched
<1>13. Windowed'
  BY <1>1, <1>2 DEF IInv, Windowed, window, Fed
<1>14. Awaited'
  BY <1>1, <1>2, <1>3 DEF IInv, Awaited, window, Ended
<1>15. Ordered'
  BY <1>1 DEF IInv, Ordered, CommitOrder, window
<1>16. Tallied'
  BY <1>1, <1>3, <1>8 DEF IInv, Tallied, window
<1> QED BY <1>11, <1>12, <1>13, <1>14, <1>15, <1>16 DEF IInv

LEMMA FeedIInv ==
  ASSUME IInv, Feed
  PROVE  IInv'
<1>1. /\ pc = "feeding" /\ next' = next + 1 /\ fileOf' = Append(fileOf, next)
      /\ inFlight' = inFlight \cup {Len(fileOf')}
      /\ UNCHANGED <<cursor, completed, stored, tally, errors, retry, signal, failures>>
      /\ next \in 1..(N + 1) /\ next <= N /\ N \in Nat /\ Len(fileOf) \in Nat /\ fileOf \in Seq(Files)
      /\ next \in Files /\ WindowSize \in Nat \ {0} /\ cursor \in 1..(Len(fileOf) + 1)
      /\ Len(fileOf) < next
  BY WindowAssumption, LenProperties DEF Feed, IInv, TypeOK, Dispatched, Files
<1>2. /\ fileOf' \in Seq(Files) /\ Len(fileOf') = Len(fileOf) + 1
      /\ \A s \in 1..Len(fileOf) : fileOf'[s] = fileOf[s]
      /\ fileOf'[Len(fileOf) + 1] = next
  BY <1>1, AppendProperties
<1>3. Fed' = Fed + 1 /\ Fed < WindowSize /\ Fed \in Int
  BY <1>1, <1>2 DEF Fed, IInv, Windowed
<1>4. \/ pc' = "racing" /\ wait' = Awaiting(inFlight') /\ raced' = raced \cup inFlight'
      \/ pc' = AfterFile(next + 1) /\ Fed' < WindowSize /\ wait' = wait /\ raced' = raced
  <2>1. MustWait(Len(fileOf'), cursor, inFlight') <=> Fed' >= WindowSize
    BY <1>1 DEF MustWait, Fed
  <2>2. Fed' \in Int
    BY <1>3
  <2>3. CASE MustWait(Len(fileOf'), cursor, inFlight')
    BY <2>3 DEF Feed
  <2>4. CASE ~MustWait(Len(fileOf'), cursor, inFlight')
    BY <1>1, <2>1, <2>2, <2>4 DEF Feed
  <2> QED BY <2>3, <2>4
<1>5. pc' \in {"racing", "batch", "feeding", "drain"} /\ (pc' \in {"batch", "feeding"} => next' <= N /\ Fed' < WindowSize)
  <2>1. CASE pc' = "racing"
    BY <2>1
  <2>2. CASE pc' = AfterFile(next + 1) /\ Fed' < WindowSize
    BY <1>1, <2>2, AfterFileGoesOn
  <2> QED BY <1>4, <2>1, <2>2
<1>6. retry.pass = 0
  BY <1>1 DEF IInv, Awaited, Ended
<1>7. /\ Seqs \subseteq Seqs' /\ Seqs' = Seqs \cup {Len(fileOf) + 1} /\ Seqs = 1..Len(fileOf)
      /\ Len(fileOf) + 1 \notin Seqs
  BY <1>1, <1>2 DEF Seqs
<1>8. inFlight \subseteq Seqs /\ raced \subseteq Seqs /\ DOMAIN completed \subseteq Seqs \ inFlight
      /\ wait \in [on : SUBSET Seqs, state : {"none", "pending", "fulfilled", "rejected"}]
  BY DEF IInv, TypeOK
<1>9. TypeOK'
  <2>1. inFlight' \subseteq Seqs' /\ DOMAIN completed' \subseteq Seqs' \ inFlight'
    BY <1>1, <1>2, <1>7, <1>8
  <2>2. raced' \subseteq Seqs'
    BY <1>4, <1>7, <1>8, <2>1
  <2>3. wait' \in [on : SUBSET Seqs', state : {"none", "pending", "fulfilled", "rejected"}]
    BY <1>4, <1>7, <1>8, <2>1 DEF Awaiting
  <2>4. Len(fileOf') - (cursor' - 1) <= WindowSize
    BY <1>1, <1>3 DEF Fed
  <2>5. next' \in 1..(N + 1) /\ Len(fileOf') <= N /\ cursor' \in 1..(Len(fileOf') + 1)
    BY <1>1, <1>2
  <2>6. /\ \A s \in DOMAIN completed' : completed'[s] \in Outcomes
        /\ stored' \in Seq([file : Files, whole : BOOLEAN]) /\ Len(stored') <= N
        /\ tally' \in [{"indexed", "skipped", "errored"} -> -N..(2 * N)]
        /\ errors' \in [Files -> {"none", "read", "size", "partial", "broken", "exit"}]
        /\ retry' \in [todo : SUBSET Files, failing : SUBSET Files, pass : 0..2]
        /\ signal' \in BOOLEAN /\ failures' \in 0..MaxStoreFailures
    BY <1>1 DEF IInv, TypeOK
  <2> QED BY <1>2, <1>5, <2>1, <2>2, <2>3, <2>4, <2>5, <2>6 DEF TypeOK
<1>10. Dispatched'
  <2>1. /\ \A s \in Seqs : fileOf[s] < next /\ fileOf[s] \in Int
        /\ \A s, t \in Seqs : s < t => fileOf[s] < fileOf[t]
    <3>1. \A s \in Seqs : fileOf[s] \in Files
      BY <1>1, ElementOfSeq DEF Seqs
    <3> QED BY <1>1, <3>1 DEF IInv, Dispatched, Files
  <2>2. \A s \in Seqs' : fileOf'[s] < next'
    BY <1>1, <1>2, <1>7, <2>1
  <2>3. ASSUME NEW s \in Seqs', NEW t \in Seqs', s < t
        PROVE  fileOf'[s] < fileOf'[t]
    <3>1. s \in Seqs
      BY <1>1, <1>2, <1>7, <2>3
    <3>2. CASE t \in Seqs
      BY <1>2, <1>7, <2>1, <2>3, <3>1, <3>2
    <3>3. CASE t = Len(fileOf) + 1
      BY <1>2, <1>7, <2>1, <3>1, <3>3
    <3> QED BY <1>7, <3>2, <3>3
  <2>4. Len(fileOf') < next'
    BY <1>1, <1>2
  <2> QED BY <1>5, <2>2, <2>3, <2>4 DEF Dispatched
<1>11. Windowed'
  <2>1. inFlight \cup DOMAIN completed = cursor..Len(fileOf)
    BY DEF IInv, Windowed
  <2>2. inFlight' \cup DOMAIN completed' = cursor'..Len(fileOf')
    BY <1>1, <1>2, <2>1
  <2> QED BY <1>1, <1>5, <2>2 DEF Windowed
<1>12. Awaited'
  BY <1>1, <1>5, <1>6 DEF IInv, Awaited, Ended
<1>13. Ordered'
  <2>1. /\ CommitOrder /\ \A i \in DOMAIN stored : \E s \in 1..(cursor - 1) : stored[i].file = fileOf[s]
    BY <1>6 DEF IInv, Ordered
  <2>2. \A s \in 1..(cursor - 1) : fileOf'[s] = fileOf[s]
    BY <1>1, <1>2
  <2>3. \A i \in DOMAIN stored' : \E s \in 1..(cursor' - 1) : stored'[i].file = fileOf'[s]
    BY <1>1, <2>1, <2>2
  <2> QED BY <1>1, <2>1, <2>3 DEF Ordered, CommitOrder
<1>14. Tallied'
  <2>1. next' - 1 - Len(fileOf') + cursor' - 1 = next - 1 - Len(fileOf) + cursor - 1
    BY <1>1, <1>2
  <2>2. Tallied /\ tally' = tally /\ retry' = retry
    BY <1>1 DEF IInv
  <2> QED BY <1>6, <2>1, <2>2 DEF Tallied
<1> QED BY <1>9, <1>10, <1>11, <1>12, <1>13, <1>14 DEF IInv

LEMMA WakeIInv ==
  ASSUME IInv, Wake
  PROVE  IInv'
<1>1. /\ pc = "racing" /\ wait.state # "pending"
      /\ UNCHANGED <<next, fileOf, cursor, inFlight, completed, stored, tally, errors, retry, signal, failures>>
      /\ WindowSize \in Nat \ {0} /\ cursor \in 1..(Len(fileOf) + 1) /\ Len(fileOf) \in Nat /\ N \in Nat
      /\ next \in 1..(N + 1)
  BY WindowAssumption, LenProperties DEF Wake, IInv, TypeOK
<1>2. \/ pc' = "threw" /\ wait' = NoWait /\ raced' = raced
      \/ pc' = "racing" /\ wait' = Awaiting(inFlight) /\ raced' = raced \cup inFlight /\ inFlight # {}
      \/ pc' = AfterFile(next) /\ wait' = NoWait /\ raced' = raced /\ (Fed < WindowSize \/ inFlight = {})
  BY <1>1 DEF Wake, MustWait, Fed
<1>3. Fed < WindowSize \/ inFlight # {}
  BY <1>1 DEF IInv, Windowed
<1>4. /\ pc' \in {"threw", "racing", "batch", "feeding", "drain"}
      /\ pc' \in {"batch", "feeding"} => next <= N /\ Fed < WindowSize
      /\ pc' = "racing" => inFlight # {}
  <2>1. CASE pc' = "threw" \/ (pc' = "racing" /\ inFlight # {})
    BY <2>1
  <2>2. CASE pc' = AfterFile(next) /\ Fed < WindowSize
    BY <1>1, <2>2, AfterFileGoesOn
  <2> QED BY <1>2, <1>3, <2>1, <2>2
<1>5. TypeOK'
  <2>1. Seqs' = Seqs /\ inFlight \subseteq Seqs /\ raced \subseteq Seqs
    BY <1>1 DEF Seqs, IInv, TypeOK
  <2>2. raced' \subseteq Seqs /\ wait' \in [on : SUBSET Seqs, state : {"none", "pending", "fulfilled", "rejected"}]
    BY <1>2, <2>1 DEF NoWait, Awaiting
  <2> QED BY <1>1, <1>4, <2>1, <2>2 DEF IInv, TypeOK, Ended
<1>6. Dispatched' /\ Windowed'
  BY <1>1, <1>4 DEF IInv, Dispatched, Windowed, Seqs, Fed
<1>7. Awaited'
  BY <1>1, <1>4 DEF IInv, Awaited, Ended
<1>8. Ordered' /\ Tallied'
  BY <1>1 DEF IInv, Ordered, CommitOrder, Tallied, Left
<1> QED BY <1>5, <1>6, <1>7, <1>8 DEF IInv

LEMMA DrainIInv ==
  ASSUME IInv, Drain
  PROVE  IInv'
<1>1. /\ pc = "drain" /\ pc' = "draining" /\ raced' = raced \cup inFlight
      /\ UNCHANGED <<next, fileOf, cursor, inFlight, completed, stored, tally, errors, retry, signal, failures>>
  BY DEF Drain
<1>2. /\ wait'.state \in {"fulfilled", "pending"} /\ wait'.on \subseteq inFlight
      /\ wait'.state = "fulfilled" => inFlight = {}
      /\ wait'.state = "pending" => wait'.on = inFlight
      /\ wait' \in [on : SUBSET inFlight, state : {"none", "pending", "fulfilled", "rejected"}]
  BY DEF Drain, NoWait, Awaiting
<1>3. TypeOK'
  <2>1. Seqs' = Seqs /\ inFlight \subseteq Seqs /\ raced \subseteq Seqs
    BY <1>1 DEF Seqs, IInv, TypeOK
  <2>2. raced' \subseteq Seqs /\ wait' \in [on : SUBSET Seqs, state : {"none", "pending", "fulfilled", "rejected"}]
    BY <1>1, <1>2, <2>1
  <2> QED BY <1>1, <2>1, <2>2 DEF IInv, TypeOK
<1>4. Dispatched' /\ Windowed'
  BY <1>1 DEF IInv, Dispatched, Windowed, Seqs, Fed
<1>5. Awaited'
  BY <1>1, <1>2 DEF IInv, Awaited, Ended
<1>6. Ordered' /\ Tallied'
  BY <1>1 DEF IInv, Ordered, CommitOrder, Tallied, Left
<1> QED BY <1>3, <1>4, <1>5, <1>6 DEF IInv

\* The last flush, as far as it gets.
LEMMA DrainedCommits ==
  ASSUME IInv, pc = "draining", wait' = NoWait,
         NEW last \in (cursor - 1)..Len(fileOf), Committed(completed, last),
         UNCHANGED <<next, fileOf, inFlight, raced, signal>>, pc' \in Ended \cup {"retrying"},
         retry' \in [todo : SUBSET Files, failing : SUBSET Files, pass : 0..2]
  PROVE  /\ TypeOK' /\ Dispatched' /\ Windowed' /\ Ordered'
         /\ tally'.indexed \in Nat /\ tally'.skipped \in Nat /\ tally'.errored \in Nat
         /\ tally'.indexed + tally'.skipped + tally'.errored <= next' - 1 - Len(fileOf') + cursor' - 1
<1>1. /\ cursor \in 1..(Len(fileOf) + 1) /\ Len(fileOf) \in Nat /\ cursor' = last + 1 /\ fileOf \in Seq(Files)
      /\ fileOf' = fileOf /\ next' = next /\ inFlight' = inFlight
      /\ inFlight \cup DOMAIN completed = cursor..Len(fileOf) /\ inFlight \cap DOMAIN completed = {}
  BY LenProperties DEF IInv, TypeOK, Committed, Windowed
<1>2. retry.pass = 0
  BY DEF IInv, Awaited, Ended
<1>3. DOMAIN completed \subseteq cursor..Len(fileOf)
  BY <1>1
<1>4. /\ cursor' \in 1..(Len(fileOf') + 1) /\ Len(fileOf') - (cursor' - 1) <= WindowSize
      /\ stored' \in Seq([file : Files, whole : BOOLEAN]) /\ Len(stored') <= N
      /\ tally' \in [{"indexed", "skipped", "errored"} -> -N..(2 * N)]
      /\ CommitOrder'
      /\ \A i \in DOMAIN stored' : \E r \in 1..(cursor' - 1) : stored'[i].file = fileOf'[r]
      /\ tally'.indexed \in Nat /\ tally'.skipped \in Nat /\ tally'.errored \in Nat
      /\ tally'.indexed + tally'.skipped + tally'.errored <= next' - 1 - Len(fileOf') + cursor' - 1
  BY <1>1, <1>2, <1>3, AfterCommit
<1>5. /\ DOMAIN completed' = DOMAIN completed \ (cursor..last) /\ cursor..last \subseteq DOMAIN completed
      /\ \A r \in DOMAIN completed' : completed'[r] \in Outcomes
      /\ errors' \in [Files -> {"none", "read", "size", "partial", "broken", "exit"}]
      /\ failures' \in 0..MaxStoreFailures
  BY DEF Committed
<1>6. TypeOK'
  <2>1. Seqs' = Seqs /\ inFlight \subseteq Seqs /\ raced \subseteq Seqs /\ DOMAIN completed \subseteq Seqs \ inFlight
    BY <1>1 DEF Seqs, IInv, TypeOK
  <2>2. wait' \in [on : SUBSET Seqs', state : {"none", "pending", "fulfilled", "rejected"}]
    BY DEF NoWait
  <2>3. DOMAIN completed' \subseteq Seqs' \ inFlight' /\ inFlight' \subseteq Seqs' /\ raced' \subseteq Seqs'
    BY <1>5, <2>1
  <2>4. next' \in 1..(N + 1) /\ Len(fileOf') <= N /\ signal' \in BOOLEAN /\ fileOf' \in Seq(Files)
    BY <1>1 DEF IInv, TypeOK
  <2> QED BY <1>4, <1>5, <2>2, <2>3, <2>4 DEF TypeOK
<1>7. Dispatched'
  BY <1>1 DEF IInv, Dispatched, Seqs, Ended
<1>8. Windowed'
  <2>1. inFlight' \cup DOMAIN completed' = (cursor..Len(fileOf)) \ (cursor..last)
    BY <1>1, <1>5
  <2>2. (cursor..Len(fileOf)) \ (cursor..last) = cursor'..Len(fileOf')
    BY <1>1
  <2> QED BY <2>1, <2>2 DEF Windowed, Ended
<1>9. Ordered'
  BY <1>4 DEF Ordered
<1> QED BY <1>4, <1>6, <1>7, <1>8, <1>9

LEMMA FilesSize ==
  ASSUME NEW S \in SUBSET Files
  PROVE  IsFiniteSet(S) /\ Cardinality(S) \in Nat /\ Cardinality(S) <= N
<1>1. IsFiniteSet(Files) /\ Cardinality(Files) = N
  <2>1. N \in Int /\ 1 <= N + 1 /\ N + 1 - 1 = N
    BY WindowAssumption
  <2>2. IsFiniteSet(1..N) /\ Cardinality(1..N) = N + 1 - 1
    BY <2>1, IntervalSize
  <2> QED BY <2>1, <2>2 DEF Files
<1>2. IsFiniteSet(S) /\ Cardinality(S) <= Cardinality(Files)
  BY <1>1, FS_Subset
<1> QED BY <1>1, <1>2, FS_CardinalityType

LEMMA DrainedIInv ==
  ASSUME IInv, Drained
  PROVE  IInv'
<1>1. /\ pc = "draining" /\ wait.state # "pending" /\ wait' = NoWait
      /\ UNCHANGED <<next, fileOf, inFlight, raced, signal>>
  BY DEF Drained
<1>2. retry.pass = 0 /\ retry.failing = {} /\ retry \in [todo : SUBSET Files, failing : SUBSET Files, pass : 0..2]
  BY <1>1 DEF IInv, Awaited, Ended, Tallied, TypeOK
<1>3. \/ pc' = "threw" /\ UNCHANGED <<cursor, completed, stored, tally, errors, retry, failures>>
      \/ /\ wait.state # "rejected" /\ Flush(completed)
         /\ pc' \in {"aborted", "returned", "retrying"}
         /\ retry' = [retry EXCEPT !.todo = Retryable, !.pass = IF pc' = "retrying" THEN 1 ELSE 0]
      \/ FlushThrows(completed) /\ pc' = "threw" /\ UNCHANGED retry
  BY <1>1 DEF Drained
<1>4. /\ cursor \in 1..(Len(fileOf) + 1) /\ Len(fileOf) \in Nat /\ fileOf \in Seq(Files)
      /\ inFlight \cup DOMAIN completed = cursor..Len(fileOf)
      /\ \A s \in DOMAIN completed : completed[s] \in Outcomes
      /\ \A r, t \in Seqs : r < t => fileOf[r] < fileOf[t]
      /\ TypeOK
  BY LenProperties DEF IInv, TypeOK, Windowed, Dispatched
<1>5. Buffered(completed)
  BY <1>4 DEF Buffered
<1>6. CASE pc' = "threw" /\ UNCHANGED <<cursor, completed, stored, tally, errors, retry, failures>>
  <2>1. TypeOK'
    BY <1>1, <1>6 DEF IInv, TypeOK, Seqs, NoWait, Ended
  <2>2. Dispatched' /\ Windowed'
    BY <1>1, <1>6 DEF IInv, Dispatched, Windowed, Seqs, Fed, Ended
  <2>3. Awaited'
    BY <1>1, <1>2, <1>6 DEF Awaited, Ended
  <2>4. Ordered' /\ Tallied'
    BY <1>1, <1>6 DEF IInv, Ordered, CommitOrder, Tallied, Left
  <2> QED BY <2>1, <2>2, <2>3, <2>4 DEF IInv
<1>7. CASE FlushThrows(completed) /\ pc' = "threw" /\ UNCHANGED retry
  <2>1. PICK last \in cursor..Len(fileOf) : Committed(completed, last)
    BY <1>4, <1>5, <1>7, ThrowCommits
  <2>2. last \in (cursor - 1)..Len(fileOf)
    BY <1>4, <2>1
  <2>3. /\ TypeOK' /\ Dispatched' /\ Windowed' /\ Ordered'
        /\ tally'.indexed \in Nat /\ tally'.skipped \in Nat /\ tally'.errored \in Nat
        /\ tally'.indexed + tally'.skipped + tally'.errored <= next' - 1 - Len(fileOf') + cursor' - 1
    BY <1>1, <1>2, <1>7, <2>1, <2>2, DrainedCommits DEF Ended
  <2>4. Awaited'
    BY <1>2, <1>7 DEF Awaited, Ended
  <2>5. Tallied'
    BY <1>2, <1>7, <2>3 DEF Tallied
  <2> QED BY <2>3, <2>4, <2>5 DEF IInv
<1>8. CASE /\ wait.state # "rejected" /\ Flush(completed)
           /\ pc' \in {"aborted", "returned", "retrying"}
           /\ retry' = [retry EXCEPT !.todo = Retryable, !.pass = IF pc' = "retrying" THEN 1 ELSE 0]
  <2>1. PICK last \in (cursor - 1)..Len(fileOf) : Committed(completed, last) /\ last + 1 \notin DOMAIN completed
    BY <1>4, <1>5, <1>8, FlushCommits
  <2>2. inFlight = {} /\ inFlight' = {}
    BY <1>1, <1>8 DEF IInv, Awaited, TypeOK
  <2>3. Retryable \subseteq Files
    BY DEF Retryable
  <2> DEFINE T == Retryable
  <2> HIDE DEF T
  <2>4. /\ retry'.todo = T /\ T \in SUBSET Files /\ retry'.failing = {}
        /\ retry'.pass = IF pc' = "retrying" THEN 1 ELSE 0
        /\ retry' \in [todo : SUBSET Files, failing : SUBSET Files, pass : 0..2]
    <3>1. T \in SUBSET Files
      BY <2>3 DEF T
    <3>2. retry' = [retry EXCEPT !.todo = T, !.pass = IF pc' = "retrying" THEN 1 ELSE 0]
      BY <1>8 DEF T
    <3>3. retry'.todo = T /\ retry'.failing = retry.failing /\ retry'.pass = IF pc' = "retrying" THEN 1 ELSE 0
      BY <1>2, <3>2
    <3>4. retry' = [todo |-> T, failing |-> {}, pass |-> IF pc' = "retrying" THEN 1 ELSE 0]
      BY <1>2, <3>2
    <3> QED BY <1>2, <3>1, <3>3, <3>4
  <2>5. /\ TypeOK' /\ Dispatched' /\ Windowed' /\ Ordered'
        /\ tally'.indexed \in Nat /\ tally'.skipped \in Nat /\ tally'.errored \in Nat
        /\ tally'.indexed + tally'.skipped + tally'.errored <= next' - 1 - Len(fileOf') + cursor' - 1
    <3>1. pc' \in Ended \cup {"retrying"}
      BY <1>8 DEF Ended
    <3> QED BY <1>1, <2>1, <2>4, <3>1, DrainedCommits
  <2>6. Awaited'
    BY <1>8, <2>2, <2>4 DEF Awaited, Ended
  <2>7. tally'.indexed <= N /\ tally'.skipped <= N /\ tally'.errored <= N
    <3>1. \A i, k, e \in Nat : \A n, f, c \in Int :
            i + k + e <= n - 1 - f + c - 1 /\ c <= f + 1 /\ n <= N + 1 => i <= N /\ k <= N /\ e <= N
      BY WindowAssumption
    <3>2. /\ next' \in Int /\ Len(fileOf') \in Int /\ cursor' \in Int
          /\ cursor' <= Len(fileOf') + 1 /\ next' <= N + 1
      BY <1>1, <1>4, <2>5, WindowAssumption DEF TypeOK
    <3> QED BY <2>5, <3>1, <3>2, Zenon
  <2>8. Left' = Cardinality(T) /\ Cardinality(T) \in Nat /\ Cardinality(T) <= N
    <3>1. retry'.todo \cup retry'.failing = T
      BY <2>4
    <3> QED BY <2>4, <3>1, FilesSize DEF Left
  <2>9. tally'.indexed + Left' <= 2 * N /\ Left' - N <= tally'.errored
    <3>1. \A i, e, l \in Nat : i <= N /\ e <= N /\ l <= N => i + l <= 2 * N /\ l - N <= e
      BY WindowAssumption
    <3> QED BY <2>5, <2>7, <2>8, <3>1
  <2>10. Tallied'
    BY <2>4, <2>5, <2>7, <2>9 DEF Tallied
  <2> QED BY <2>5, <2>6, <2>10 DEF IInv
<1> QED BY <1>3, <1>6, <1>7, <1>8

-----------------------------------------------------------------------------
(* The retry passes.                                                          *)

\* What a step of a retry pass need not say.
LEMMA RetryKeeps ==
  ASSUME IInv, pc = "retrying", pc' \in {"retrying", "returned", "threw"}, UNCHANGED <<next, window, signal>>,
         stored' \in Seq([file : Files, whole : BOOLEAN]), Len(stored') <= N,
         \A i, k \in DOMAIN stored' : stored'[i].file = stored'[k].file => i = k,
         tally' \in [{"indexed", "skipped", "errored"} -> -N..(2 * N)],
         errors' \in [Files -> {"none", "read", "size", "partial", "broken", "exit"}],
         retry' \in [todo : SUBSET Files, failing : SUBSET Files, pass : 0..2], retry'.pass # 0,
         failures' \in 0..MaxStoreFailures, Tallied'
  PROVE  IInv'
<1>1. inFlight' = {} /\ inFlight = {} /\ fileOf' = fileOf
  BY DEF IInv, Awaited, window
<1>2. TypeOK'
  BY DEF IInv, TypeOK, window, Seqs, Ended
<1>3. Dispatched' /\ Windowed'
  BY DEF IInv, Dispatched, Windowed, window, Seqs, Fed
<1>4. Awaited'
  BY <1>1 DEF Awaited, Ended
<1>5. Ordered'
  BY DEF Ordered, CommitOrder
<1> QED BY <1>2, <1>3, <1>4, <1>5 DEF IInv

LEMMA Retrying ==
  ASSUME IInv, pc = "retrying"
  PROVE  /\ retry \in [todo : SUBSET Files, failing : SUBSET Files, pass : 0..2] /\ retry.pass \in {1, 2}
         /\ stored \in Seq([file : Files, whole : BOOLEAN]) /\ Len(stored) <= N
         /\ \A i, k \in DOMAIN stored : stored[i].file = stored[k].file => i = k
         /\ tally \in [{"indexed", "skipped", "errored"} -> -N..(2 * N)]
         /\ errors \in [Files -> {"none", "read", "size", "partial", "broken", "exit"}]
         /\ failures \in 0..MaxStoreFailures
         /\ tally.indexed \in Nat /\ tally.skipped \in Nat /\ tally.errored \in Int
         /\ tally.indexed + Left <= 2 * N /\ tally.skipped <= N
         /\ Left - N <= tally.errored /\ tally.errored <= N
         /\ retry.todo \cap retry.failing = {} /\ (retry.pass = 2 => retry.failing = {})
         /\ Left \in Nat
<1>1. /\ retry \in [todo : SUBSET Files, failing : SUBSET Files, pass : 0..2] /\ retry.pass \in {1, 2}
      /\ stored \in Seq([file : Files, whole : BOOLEAN]) /\ Len(stored) <= N
      /\ \A i, k \in DOMAIN stored : stored[i].file = stored[k].file => i = k
      /\ tally \in [{"indexed", "skipped", "errored"} -> -N..(2 * N)]
      /\ errors \in [Files -> {"none", "read", "size", "partial", "broken", "exit"}]
      /\ failures \in 0..MaxStoreFailures
  BY DEF IInv, TypeOK, Awaited, Ordered, CommitOrder
<1>2. /\ tally.indexed \in Nat /\ tally.skipped \in Nat
      /\ tally.indexed + Left <= 2 * N /\ tally.skipped <= N
      /\ Left - N <= tally.errored /\ tally.errored <= N
      /\ retry.todo \cap retry.failing = {} /\ (retry.pass = 2 => retry.failing = {})
  BY <1>1 DEF IInv, Tallied
<1>3. tally.errored \in -N..(2 * N)
  BY <1>1
<1>4. tally.errored \in Int
  BY <1>3, WindowAssumption
<1>5. Left \in Nat
  <2>1. retry.todo \cup retry.failing \in SUBSET Files
    BY <1>1
  <2> QED BY <2>1, FilesSize DEF Left
<1> QED BY <1>1, <1>2, <1>4, <1>5

\* The file a pass comes to is one of its own, and what is left is one less.
LEMMA CurrentLeft ==
  ASSUME IInv, pc = "retrying", ~RetryEnds
  PROVE  /\ Current \in retry.todo /\ Current \in Files
         /\ Cardinality((retry.todo \ {Current}) \cup retry.failing) = Left - 1
<1>1. /\ retry.todo \in SUBSET Files /\ retry.failing \in SUBSET Files /\ Files \subseteq Nat
      /\ retry.todo \cap retry.failing = {}
  BY Retrying DEF Files
<1>2. retry.todo \in SUBSET Nat /\ retry.todo # {}
  BY <1>1 DEF RetryEnds
<1>3. \E f \in retry.todo : \A g \in retry.todo : f <= g
  BY <1>2, Least
<1>4. Current \in retry.todo
  BY <1>3 DEF Current
<1> DEFINE all == retry.todo \cup retry.failing
           c == Current
<1>5. (retry.todo \ {c}) \cup retry.failing = all \ {c} /\ c \in all /\ all \in SUBSET Files
  BY <1>1, <1>4
<1> HIDE DEF all, c
<1>6. IsFiniteSet(all)
  BY <1>5, FilesSize
<1>7. Cardinality(all \ {c}) = Cardinality(all) - 1
  BY <1>5, <1>6, FS_RemoveElement
<1> QED BY <1>1, <1>4, <1>5, <1>7 DEF Left, all, c

LEMMA NextPassIInv ==
  ASSUME IInv, NextPass
  PROVE  IInv'
<1>1. pc = "retrying" /\ UNCHANGED <<next, window, stored, tally, errors, signal, failures>>
  BY DEF NextPass
<1>2. \/ pc' = "returned" /\ retry' = retry
      \/ pc' = pc /\ retry.pass # 2 /\ retry' = [todo |-> retry.failing, failing |-> {}, pass |-> 2]
  BY DEF NextPass
<1>3. CASE pc' = "returned" /\ retry' = retry
  <2>1. Tallied'
    BY <1>1, <1>3 DEF IInv, Tallied, Left, window
  <2> QED BY <1>1, <1>3, <2>1, RetryKeeps, Retrying
<1>4. CASE pc' = pc /\ retry.pass # 2 /\ retry' = [todo |-> retry.failing, failing |-> {}, pass |-> 2]
  <2> DEFINE all == retry.todo \cup retry.failing
             F == retry.failing
  <2>1. all \in SUBSET Files /\ F \subseteq all
    BY <1>1, Retrying
  <2>2. retry'.todo = F /\ retry'.failing = {} /\ retry'.pass = 2 /\ retry'.todo \cup retry'.failing = F
    BY <1>4
  <2>3. retry' \in [todo : SUBSET Files, failing : SUBSET Files, pass : 0..2]
    BY <1>4, <2>1
  <2>4. Left' = Cardinality(F) /\ Left = Cardinality(all)
    BY <2>2 DEF Left
  <2> HIDE DEF all, F
  <2>5. IsFiniteSet(all)
    BY <2>1, FilesSize
  <2>6. Left' \in Nat /\ Left' <= Left
    <3>1. IsFiniteSet(F) /\ Cardinality(F) <= Cardinality(all)
      BY <2>1, <2>5, FS_Subset
    <3> QED BY <2>4, <3>1, FS_CardinalityType
  <2>7. /\ tally.indexed \in Nat /\ tally.skipped \in Nat /\ tally.skipped <= N /\ tally.errored <= N
        /\ tally.indexed + Left' <= 2 * N /\ Left' - N <= tally.errored
    <3>1. \A i, l, m, n, e \in Int : m <= l => (i + l <= 2 * n => i + m <= 2 * n) /\ (l - n <= e => m - n <= e)
      OBVIOUS
    <3>2. /\ tally.indexed \in Int /\ tally.errored \in Int /\ Left \in Int /\ Left' \in Int /\ N \in Int
          /\ tally.indexed + Left <= 2 * N /\ Left - N <= tally.errored
          /\ tally.indexed \in Nat /\ tally.skipped \in Nat /\ tally.skipped <= N /\ tally.errored <= N
      BY <1>1, <2>6, Retrying, WindowAssumption
    <3> QED BY <2>6, <3>1, <3>2, Zenon
  <2>8. tally' = tally
    BY <1>1
  <2>9. Tallied'
    BY <2>2, <2>7, <2>8 DEF Tallied
  <2>10. retry'.pass # 0 /\ pc' = "retrying"
    BY <1>1, <1>4, <2>2
  <2> QED BY <1>1, <2>3, <2>9, <2>10, RetryKeeps, Retrying
<1> QED BY <1>2, <1>3, <1>4

LEMMA RetryFailedIInv ==
  ASSUME IInv, RetryKept \/ RetryRejected
  PROVE  IInv'
<1>1. /\ pc = "retrying" /\ ~RetryEnds /\ pc' = pc
      /\ UNCHANGED <<next, window, stored, tally, errors, signal, failures>>
  BY DEF RetryKept, RetryRejected
<1> DEFINE c == Current
<1>2. PICK G \in {retry.failing, retry.failing \cup {c}} :
        /\ retry' = [retry EXCEPT !.todo = retry.todo \ {c}, !.failing = G]
        /\ retry.pass = 2 => G = retry.failing
  BY DEF RetryKept, RetryRejected
<1>3. /\ c \in retry.todo /\ c \in Files /\ Cardinality((retry.todo \ {c}) \cup retry.failing) = Left - 1
  BY <1>1, CurrentLeft
<1> HIDE DEF c
<1>4. /\ retry \in [todo : SUBSET Files, failing : SUBSET Files, pass : 0..2] /\ retry.pass \in {1, 2}
      /\ retry.todo \cap retry.failing = {} /\ (retry.pass = 2 => retry.failing = {})
  BY <1>1, Retrying
<1>5. retry' = [todo |-> retry.todo \ {c}, failing |-> G, pass |-> retry.pass]
  BY <1>2, <1>4
<1>6. /\ retry'.todo = retry.todo \ {c} /\ retry'.failing = G /\ retry'.pass = retry.pass
      /\ retry' \in [todo : SUBSET Files, failing : SUBSET Files, pass : 0..2]
  BY <1>2, <1>3, <1>4, <1>5
<1>7. Left' \in {Left, Left - 1}
  <2>1. CASE G = retry.failing
    BY <1>3, <1>6, <2>1 DEF Left
  <2>2. CASE G = retry.failing \cup {c}
    <3>1. (retry.todo \ {c}) \cup G = retry.todo \cup retry.failing
      BY <1>3, <2>2
    <3> QED BY <1>6, <3>1 DEF Left
  <2> QED BY <1>2, <2>1, <2>2
<1>8. /\ tally.indexed \in Nat /\ tally.skipped \in Nat /\ tally.skipped <= N /\ tally.errored <= N
      /\ tally.indexed + Left' <= 2 * N /\ Left' - N <= tally.errored
  <2>1. \A i, l, n, e \in Int : \A m \in {l, l - 1} :
          (i + l <= 2 * n => i + m <= 2 * n) /\ (l - n <= e => m - n <= e)
    OBVIOUS
  <2>2. /\ tally.indexed \in Int /\ tally.errored \in Int /\ Left \in Int /\ N \in Int
        /\ tally.indexed + Left <= 2 * N /\ Left - N <= tally.errored
        /\ tally.indexed \in Nat /\ tally.skipped \in Nat /\ tally.skipped <= N /\ tally.errored <= N
    BY <1>1, Retrying, WindowAssumption
  <2> QED BY <1>7, <2>1, <2>2, Zenon
<1>9. Tallied'
  <2>1. retry'.pass \in {0, 2} => retry'.failing = {}
    BY <1>2, <1>4, <1>6
  <2>2. retry'.todo \cap retry'.failing = {}
    BY <1>2, <1>4, <1>6
  <2>3. retry'.pass # 0 /\ tally' = tally
    BY <1>1, <1>4, <1>6
  <2> QED BY <1>8, <2>1, <2>2, <2>3 DEF Tallied
<1>10. retry'.pass # 0 /\ pc' = "retrying"
  BY <1>1, <1>4, <1>6
<1> QED BY <1>1, <1>6, <1>9, <1>10, RetryKeeps, Retrying

LEMMA RetryThrowsIInv ==
  ASSUME IInv, RetryThrows
  PROVE  IInv'
<1>1. /\ pc = "retrying" /\ pc' = "threw" /\ failures < MaxStoreFailures /\ failures' = failures + 1
      /\ UNCHANGED <<next, window, stored, tally, errors, retry, signal>>
  BY DEF RetryThrows
<1>2. failures' \in 0..MaxStoreFailures
  BY <1>1, WindowAssumption, Retrying
<1>3. Tallied'
  BY <1>1 DEF IInv, Tallied, Left, window
<1>4. retry'.pass # 0
  BY <1>1, Retrying
<1> QED BY <1>1, <1>2, <1>3, <1>4, RetryKeeps, Retrying

\* A retry appends the rows of a file that has none.
LEMMA RetryAppends ==
  ASSUME IInv, pc = "retrying", NEW f \in Files, f \notin FilesOf(stored), stored' = Append(stored, Row(f, "symbols"))
  PROVE  /\ stored' \in Seq([file : Files, whole : BOOLEAN]) /\ Len(stored') <= N
         /\ \A i, k \in DOMAIN stored' : stored'[i].file = stored'[k].file => i = k
<1> DEFINE R == [file : Files, whole : BOOLEAN]
           row == Row(f, "symbols")
<1>1. row \in R /\ row.file = f
  BY DEF Row
<1>2. /\ stored \in Seq(R) /\ stored' = Append(stored, row)
      /\ \A i, k \in DOMAIN stored : stored[i].file = stored[k].file => i = k
  BY Retrying
<1>3. \A i \in DOMAIN stored : stored[i].file # f
  BY DEF FilesOf
<1> HIDE DEF R, row
<1>4. /\ stored' \in Seq(R) /\ Len(stored') = Len(stored) + 1 /\ Len(stored) \in Nat
      /\ \A i \in 1..Len(stored) : stored'[i] = stored[i]
      /\ stored'[Len(stored) + 1] = row
  BY <1>1, <1>2, AppendProperties, LenProperties
<1>5. DOMAIN stored = 1..Len(stored) /\ DOMAIN stored' = 1..(Len(stored) + 1)
  BY <1>2, <1>4, LenProperties
<1>6. ASSUME NEW i \in DOMAIN stored', NEW k \in DOMAIN stored', stored'[i].file = stored'[k].file
      PROVE  i = k
  <2>1. i \in DOMAIN stored \cup {Len(stored) + 1} /\ k \in DOMAIN stored \cup {Len(stored) + 1}
    BY <1>4, <1>5
  <2>2. CASE i \in DOMAIN stored /\ k \in DOMAIN stored
    <3>1. stored'[i] = stored[i] /\ stored'[k] = stored[k]
      BY <1>4, <1>5, <2>2
    <3> QED BY <1>2, <1>6, <2>2, <3>1
  <2>3. CASE i \in DOMAIN stored /\ k = Len(stored) + 1
    <3>1. stored'[i] = stored[i] /\ stored'[k].file = f
      BY <1>1, <1>4, <1>5, <2>3
    <3> QED BY <1>3, <1>6, <2>3, <3>1
  <2>4. CASE k \in DOMAIN stored /\ i = Len(stored) + 1
    <3>1. stored'[k] = stored[k] /\ stored'[i].file = f
      BY <1>1, <1>4, <1>5, <2>4
    <3> QED BY <1>3, <1>6, <2>4, <3>1
  <2> QED BY <2>1, <2>2, <2>3, <2>4
<1>7. Len(stored') <= N
  BY <1>4, <1>6, RowsBounded DEF R
<1> QED BY <1>4, <1>6, <1>7 DEF R

LEMMA RetryStoredIInv ==
  ASSUME IInv, RetryStored
  PROVE  IInv'
<1> DEFINE c == Current
<1>1. /\ pc = "retrying" /\ ~RetryEnds /\ pc' = pc /\ UNCHANGED <<next, window, signal, failures>>
      /\ stored' = IF c \in FilesOf(stored) THEN stored ELSE Append(stored, Row(c, "symbols"))
      /\ errors' = [errors EXCEPT ![c] = "none"]
      /\ tally' = [tally EXCEPT !.errored = tally.errored - 1, !.indexed = tally.indexed + 1]
      /\ retry' = [retry EXCEPT !.todo = retry.todo \ {c}]
  BY DEF RetryStored
<1>2. c \in retry.todo /\ c \in Files /\ Cardinality((retry.todo \ {c}) \cup retry.failing) = Left - 1
  BY <1>1, CurrentLeft
<1> HIDE DEF c
<1>3. /\ stored' \in Seq([file : Files, whole : BOOLEAN]) /\ Len(stored') <= N
      /\ \A i, k \in DOMAIN stored' : stored'[i].file = stored'[k].file => i = k
  <2>1. CASE c \in FilesOf(stored)
    BY <1>1, <2>1, Retrying
  <2>2. CASE c \notin FilesOf(stored)
    BY <1>1, <1>2, <2>2, RetryAppends
  <2> QED BY <2>1, <2>2
<1>4. errors' \in [Files -> {"none", "read", "size", "partial", "broken", "exit"}]
  BY <1>1, Retrying
<1>5. /\ retry \in [todo : SUBSET Files, failing : SUBSET Files, pass : 0..2] /\ retry.pass \in {1, 2}
      /\ retry.todo \cap retry.failing = {} /\ (retry.pass = 2 => retry.failing = {})
  BY <1>1, Retrying
<1>6. retry' = [todo |-> retry.todo \ {c}, failing |-> retry.failing, pass |-> retry.pass]
  BY <1>1, <1>5
<1>7. /\ retry'.todo = retry.todo \ {c} /\ retry'.failing = retry.failing /\ retry'.pass = retry.pass
      /\ retry' \in [todo : SUBSET Files, failing : SUBSET Files, pass : 0..2]
  BY <1>5, <1>6
<1>8. Left' = Left - 1
  BY <1>2, <1>7 DEF Left
<1>9. /\ tally \in [{"indexed", "skipped", "errored"} -> -N..(2 * N)]
      /\ tally.indexed \in Nat /\ tally.skipped \in Nat /\ tally.errored \in Int
      /\ tally.indexed + Left <= 2 * N /\ tally.skipped <= N /\ Left - N <= tally.errored /\ tally.errored <= N
  BY <1>1, Retrying
<1>10. Left' \in Nat
  <2>1. retry'.todo \cup retry'.failing \in SUBSET Files
    BY <1>7
  <2> QED BY <2>1, FilesSize DEF Left
<1>11. /\ tally'.indexed = tally.indexed + 1 /\ tally'.errored = tally.errored - 1
       /\ tally'.skipped = tally.skipped /\ DOMAIN tally' = {"indexed", "skipped", "errored"}
  BY <1>1, <1>9
<1>12. /\ tally'.indexed \in Nat /\ tally'.skipped \in Nat
       /\ tally'.indexed + Left' <= 2 * N /\ tally'.skipped <= N
       /\ Left' - N <= tally'.errored /\ tally'.errored <= N
  <2> DEFINE i2 == tally'.indexed
             e2 == tally'.errored
             i1 == tally.indexed
             e1 == tally.errored
             l1 == Left
             l2 == Left'
  <2>1. i2 = i1 + 1 /\ e2 = e1 - 1 /\ l2 = l1 - 1 /\ tally'.skipped = tally.skipped
    BY <1>8, <1>11
  <2>2. /\ i1 \in Nat /\ e1 \in Int /\ l2 \in Nat /\ N \in Nat /\ l1 \in Nat
        /\ i1 + l1 <= 2 * N /\ l1 - N <= e1 /\ e1 <= N /\ tally.skipped \in Nat /\ tally.skipped <= N
    BY <1>1, <1>9, <1>10, Retrying, WindowAssumption
  <2> HIDE DEF i1, e1, l1, l2, i2, e2
  <2>3. i2 \in Nat /\ i2 + l2 <= 2 * N /\ l2 - N <= e2 /\ e2 <= N /\ tally'.skipped \in Nat /\ tally'.skipped <= N
    BY <2>1, <2>2
  <2> QED BY <2>3 DEF i2, e2, l2
<1>13. tally' \in [{"indexed", "skipped", "errored"} -> -N..(2 * N)]
  <2>1. \A i, k, l, n \in Nat : \A e \in Int :
          i + l <= 2 * n /\ k <= n /\ l - n <= e /\ e <= n =>
            i \in -n..(2 * n) /\ k \in -n..(2 * n) /\ e \in -n..(2 * n)
    OBVIOUS
  <2>2. tally'.errored \in Int /\ N \in Nat
    BY <1>9, <1>11, WindowAssumption
  <2>3. tally'.indexed \in -N..(2 * N) /\ tally'.skipped \in -N..(2 * N) /\ tally'.errored \in -N..(2 * N)
    BY <1>10, <1>12, <2>1, <2>2, Zenon
  <2>4. tally.errored - 1 \in -N..(2 * N) /\ tally.indexed + 1 \in -N..(2 * N)
    BY <1>11, <2>3, Zenon
  <2> QED BY <1>1, <1>9, <2>4
<1>14. Tallied'
  BY <1>5, <1>7, <1>12 DEF Tallied
<1>15. /\ pc = "retrying" /\ pc' \in {"retrying", "returned", "threw"} /\ UNCHANGED <<next, window, signal>>
       /\ retry'.pass # 0 /\ failures' \in 0..MaxStoreFailures
  BY <1>1, <1>5, <1>7, Retrying
<1> QED BY <1>3, <1>4, <1>7, <1>13, <1>14, <1>15, RetryKeeps

-----------------------------------------------------------------------------

LEMMA NextIInv == IInv /\ [Next]_vars => IInv'
<1> SUFFICES ASSUME IInv, [Next]_vars PROVE IInv'
  OBVIOUS
<1>1. CASE UNCHANGED vars
  <2>1. TypeOK' /\ Dispatched' /\ Windowed'
    BY <1>1 DEF IInv, vars, TypeOK, Dispatched, Windowed, Seqs, Fed
  <2>2. Awaited' /\ Ordered' /\ Tallied'
    BY <1>1 DEF IInv, vars, Awaited, Ordered, CommitOrder, Tallied, Left
  <2> QED BY <2>1, <2>2 DEF IInv
<1>2. CASE \E s \in inFlight : Settle(s)
  BY <1>2, SettleIInv
<1>3. CASE StartBatch \/ ReadBatch \/ Abort \/ RaiseSignal
  BY <1>3, ControlIInv
<1>4. CASE SkipFile \/ Feed
  BY <1>4, SkipFileIInv, FeedIInv
<1>5. CASE Wake \/ Drain \/ Drained
  BY <1>5, WakeIInv, DrainIInv, DrainedIInv
<1>6. CASE NextPass \/ RetryKept \/ RetryRejected \/ RetryStored \/ RetryThrows
  BY <1>6, NextPassIInv, RetryFailedIInv, RetryStoredIInv, RetryThrowsIInv
<1> QED BY <1>1, <1>2, <1>3, <1>4, <1>5, <1>6 DEF Next, MainStep

\* The inductive invariant: whatever the parses do, the loop's window, its
\* cursor, its last wait and its counts fit together.
THEOREM Invariant == Spec => []IInv
<1>1. Init => IInv
  BY InitIInv
<1>2. IInv /\ [Next]_vars => IInv'
  BY NextIInv
<1> QED BY <1>1, <1>2, PTL DEF Spec

\* The state of indexAll has its types: in particular no more results than the
\* window are dispatched and not committed, whatever the parse at the cursor
\* does, and the retries never count a file twice.
THEOREM TypeCorrect == Spec => []TypeOK
<1>1. IInv => TypeOK
  BY DEF IInv
<1> QED BY <1>1, Invariant, PTL

\* indexAll commits each file at most once and in the order of the scan, in
\* whatever order its parses settle and whichever commits throw.
THEOREM CommitsInOrder == Spec => []CommitOrder
<1>1. IInv => CommitOrder
  BY DEF IInv, Ordered
<1> QED BY <1>1, Invariant, PTL

\* Once indexAll has returned, normally or aborted, the database stays as it
\* is: after a return no parse is in flight, and after an abort the
\* continuations of the parses still in flight keep away from it.
THEOREM WritesStop == Spec => NoLateWrite
<1>1. ASSUME IInv, [Next]_vars
      PROVE  StoreAtRest
  <2> SUFFICES ASSUME pc \in {"returned", "aborted"} PROVE stored' = stored
    BY DEF StoreAtRest
  <2>1. CASE UNCHANGED vars
    BY <2>1 DEF vars
  <2>2. ASSUME NEW s \in inFlight, Settle(s)
        PROVE  stored' = stored
    <3>1. pc = "aborted"
      BY <1>1, <2>2 DEF IInv, Awaited
    <3> QED BY <2>2, <3>1 DEF Settle, Buffer
  <2>3. ~MainStep
    <3>1. pc \notin {"batch", "reading", "feeding", "racing", "drain", "draining", "retrying"}
      OBVIOUS
    <3> QED BY <3>1 DEF MainStep, StartBatch, ReadBatch, SkipFile, Feed, Wake, Abort, Drain, Drained, NextPass, RetryKept,
           RetryRejected, RetryStored, RetryThrows
  <2>4. CASE RaiseSignal
    BY <2>4 DEF RaiseSignal
  <2> QED BY <1>1, <2>1, <2>2, <2>3, <2>4 DEF Next
<1> QED BY <1>1, Invariant, PTL DEF NoLateWrite, Spec

=============================================================================
