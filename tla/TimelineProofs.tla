--------------------------- MODULE TimelineProofs ---------------------------
(***************************************************************************)
(* Theorems about the readers of the store, for every snapshot limit, page *)
(* size, cache capacity, clock and number of restarts: Timeline's walks    *)
(* and Explorer's lessons and sessions.                                    *)
(*                                                                         *)
(* All sort a finite set by a strict total order: the element with i - 1   *)
(* others before it goes to place i.  Ranks says that this is a            *)
(* permutation; it is why a walk that goes on behind its last event leaves *)
(* nothing out.  WalkInv then relates the reader's cursor to the store:    *)
(* as long as the revision in it is the store's and the process the same,  *)
(* what was collected is the beginning of the sorted snapshot and the      *)
(* cursor names its last event.  Nothing is claimed of a walk that spans   *)
(* two processes.  The sessions are a fold over the sorted events; it is   *)
(* compared with what a set of events amounts to (Accumulated), of which a *)
(* smallest counterexample is impossible.                                  *)
(***************************************************************************)
EXTENDS Explorer, StoreProofs

(* The events of S in timeline order, without a choice.                    *)
Ordered(s, S) ==
  /\ s \in Seq(S)
  /\ \A x \in S : \E i \in 1..Len(s) : s[i] = x
  /\ \A i, j \in 1..Len(s) : i < j <=> Precedes(OccurredAt(s[i]), s[i], s[j])

(* The walk stands at place k of the sorted snapshot.                      *)
StandsAt(k) ==
  /\ k \in 1..Cardinality(Recent) /\ k < Cardinality(Recent)
  /\ walk.collected = SubSeq(Sorted(Recent), 1, k)
  /\ walk.page.next_cursor = Encode(revision, Sorted(Recent)[k])

WalkInv ==
  /\ epoch \in Nat /\ walk.epochs \subseteq 0..epoch
  /\ walk.page.next_cursor # None => walk.epochs # {}
  /\ walk.page.next_cursor # None /\ walk.epochs = {epoch} =>
       /\ walk.page.next_cursor.revision \in Nat
       /\ walk.page.next_cursor.revision <= revision
       /\ walk.page.next_cursor.revision = revision => StandsAt(Len(walk.collected))
  /\ PageCountsAddUp

ReaderInv == StoreInv /\ WalkInv

-----------------------------------------------------------------------------
(* Sorting.                                                                *)

(* The timeline's order is strict and total.                               *)
LEMMA EventOrder ==
  /\ \A x \in EventIds : x \in Nat /\ OccurredAt(x) \in Nat /\ OccurredAt(x) \in Times
  /\ \A x \in EventIds : ~Precedes(OccurredAt(x), x, x)
  /\ \A x, y, z \in EventIds :
       Precedes(OccurredAt(x), x, y) /\ Precedes(OccurredAt(y), y, z)
         => Precedes(OccurredAt(x), x, z)
  /\ \A x, y \in EventIds :
       x # y => Precedes(OccurredAt(x), x, y) \/ Precedes(OccurredAt(y), y, x)
<1>1. \A x \in EventIds : x \in Nat /\ OccurredAt(x) \in Nat /\ OccurredAt(x) \in Times
  BY ReaderAssumption, InputAssumption DEF OccurredAt
<1> QED
  BY <1>1 DEF Precedes

(* The sorted list is in order and complete.                               *)
LEMMA SortedIsOrdered ==
  ASSUME NEW S \in SUBSET EventIds, IsFiniteSet(S)
  PROVE  Ordered(Sorted(S), S) /\ Len(Sorted(S)) = Cardinality(S) /\ Cardinality(S) \in Nat
<1> DEFINE B == [y \in S |-> {x \in S : Precedes(OccurredAt(x), x, y)}]
           n == Cardinality(S)
           s == Sorted(S)
<1>1. n \in Nat
  BY FS_CardinalityType
<1>2. /\ B \in [S -> SUBSET S]
      /\ \A x, y \in S : x \in B[y] <=> Precedes(OccurredAt(x), x, y)
  OBVIOUS
<1> HIDE DEF B
<1>3. /\ \A x \in S : x \notin B[x]
      /\ \A x, y \in S : x # y => x \in B[y] \/ y \in B[x]
  BY <1>2, EventOrder
<1>4. \A x, y \in S : x \in B[y] => B[x] \subseteq B[y]
  BY <1>2, EventOrder
<1>5. /\ \A x, y \in S : x \in B[y] => Cardinality(B[x]) < Cardinality(B[y])
      /\ \A x, y \in S : Cardinality(B[x]) = Cardinality(B[y]) => x = y
      /\ \A i \in 1..n : \E x \in S : Cardinality(B[x]) = i - 1
  BY <1>2, <1>3, <1>4, Ranks
<1>6. \A i \in 1..n : s[i] \in S /\ Cardinality(B[s[i]]) = i - 1
  <2> SUFFICES ASSUME NEW i \in 1..n
               PROVE  s[i] \in S /\ Cardinality(B[s[i]]) = i - 1
    OBVIOUS
  <2>1. s[i] = CHOOSE id \in S : Cardinality({x \in S : Precedes(OccurredAt(x), x, id)}) = i - 1
    BY DEF Sorted
  <2>2. \E id \in S : Cardinality({x \in S : Precedes(OccurredAt(x), x, id)}) = i - 1
    BY <1>5 DEF B
  <2>3. s[i] \in S /\ Cardinality({x \in S : Precedes(OccurredAt(x), x, s[i])}) = i - 1
    BY <2>1, <2>2
  <2> QED
    BY <2>3 DEF B
<1>7. s \in Seq(S) /\ Len(s) = n
  <2> DEFINE e(i) == CHOOSE id \in S :
                       Cardinality({x \in S : Precedes(OccurredAt(x), x, id)}) = i - 1
  <2>1. s = [i \in 1..n |-> e(i)] /\ \A i \in 1..n : e(i) \in S
    BY <1>6 DEF Sorted
  <2> HIDE DEF e
  <2>2. s \in [1..n -> S]
    BY <2>1
  <2> QED
    BY <1>1, <2>2, FunctionIsSeq
<1> HIDE DEF s
<1>8. /\ \A x \in S : \E i \in 1..n : s[i] = x
      /\ \A i, j \in 1..n : i < j <=> s[i] \in B[s[j]]
  BY <1>2, <1>3, <1>4, <1>6, RankedList
<1>9. \A i, j \in 1..n : i < j <=> Precedes(OccurredAt(s[i]), s[i], s[j])
  BY <1>2, <1>6, <1>8
<1> QED
  BY <1>1, <1>7, <1>8, <1>9 DEF Ordered, s

(* And there is only one list in order.                                    *)
LEMMA OrderedIsSorted ==
  ASSUME NEW S \in SUBSET EventIds, NEW s, Ordered(s, S)
  PROVE  IsFiniteSet(S) /\ Cardinality(S) = Len(s) /\ Sorted(S) = s
<1> DEFINE n == Len(s)
           P(x, y) == Precedes(OccurredAt(x), x, y)
<1>1. n \in Nat /\ s \in [1..n -> S]
  BY DEF Ordered
<1>2. \A i, j \in 1..n : i < j <=> P(s[i], s[j])
  BY DEF Ordered
<1>3. \A x \in S : \E i \in 1..n : s[i] = x
  BY DEF Ordered
<1>4. \A i, j \in 1..n : s[i] = s[j] => i = j
  <2> SUFFICES ASSUME NEW i \in 1..n, NEW j \in 1..n, s[i] = s[j] PROVE i = j
    OBVIOUS
  <2>1. ~P(s[i], s[j]) /\ ~P(s[j], s[i])
    <3>1. s[i] \in EventIds
      BY <1>1
    <3> QED
      BY <3>1, EventOrder
  <2> QED
    BY <1>1, <1>2, <2>1
<1> HIDE DEF P
<1>5. IsFiniteSet(S) /\ Cardinality(S) = n
  <2>1. s \in Bijection(1..n, S)
    BY <1>1, <1>3, <1>4 DEF Bijection, Injection, Surjection, IsInjective
  <2>2. IsFiniteSet(1..n) /\ Cardinality(1..n) = n
    <3>1. 1 \in Int /\ n \in Int
      BY <1>1
    <3>2. IsFiniteSet(1..n) /\ Cardinality(1..n) = IF 1 > n THEN 0 ELSE n - 1 + 1
      BY <3>1, FS_Interval
    <3> QED
      BY <1>1, <3>2
  <2>3. ExistsBijection(1..n, S)
    BY <2>1 DEF ExistsBijection
  <2> QED
    BY <2>2, <2>3, FS_Bijection
<1>6. ASSUME NEW i \in 1..n
      PROVE  Cardinality({x \in S : P(x, s[i])}) = i - 1
  <2> DEFINE f == [j \in 1..(i - 1) |-> s[j]]
             T == {x \in S : P(x, s[i])}
  <2>1. \A j \in 1..(i - 1) : j \in 1..n /\ j < i
    BY <1>1
  <2>2. f \in [1..(i - 1) -> T]
    BY <1>1, <1>2, <2>1
  <2>3. \A x \in T : \E j \in 1..(i - 1) : f[j] = x
    <3> SUFFICES ASSUME NEW x \in T PROVE \E j \in 1..(i - 1) : f[j] = x
      OBVIOUS
    <3>1. PICK j \in 1..n : s[j] = x
      BY <1>3
    <3>2. P(s[j], s[i])
      BY <3>1
    <3>3. j < i
      BY <1>2, <3>2
    <3>4. j \in 1..(i - 1)
      BY <1>1, <3>3
    <3> QED
      BY <3>1, <3>4
  <2>4. \A j, k \in 1..(i - 1) : f[j] = f[k] => j = k
    BY <1>4, <2>1
  <2> HIDE DEF f, T
  <2>5. f \in Bijection(1..(i - 1), T)
    BY <2>2, <2>3, <2>4 DEF Bijection, Injection, Surjection, IsInjective
  <2>6. IsFiniteSet(1..(i - 1)) /\ Cardinality(1..(i - 1)) = i - 1
    <3>1. 1 \in Int /\ i - 1 \in Int /\ i \in Int /\ i >= 1
      BY <1>1
    <3>2. /\ IsFiniteSet(1..(i - 1))
          /\ Cardinality(1..(i - 1)) = IF 1 > i - 1 THEN 0 ELSE (i - 1) - 1 + 1
      BY <3>1, FS_Interval
    <3> QED
      BY <3>1, <3>2
  <2>7. ExistsBijection(1..(i - 1), T)
    BY <2>5 DEF ExistsBijection
  <2>8. Cardinality(T) = i - 1
    BY <2>6, <2>7, FS_Bijection
  <2> QED
    BY <2>8 DEF T
<1>7. ASSUME NEW i \in 1..n PROVE Sorted(S)[i] = s[i]
  <2>1. Sorted(S)[i] = CHOOSE id \in S : Cardinality({x \in S : P(x, id)}) = i - 1
    BY <1>5 DEF Sorted, P
  <2>2. s[i] \in S /\ Cardinality({x \in S : P(x, s[i])}) = i - 1
    BY <1>1, <1>6
  <2>3. /\ Sorted(S)[i] \in S
        /\ Cardinality({x \in S : P(x, Sorted(S)[i])}) = i - 1
    BY <2>1, <2>2
  <2>4. PICK j \in 1..n : s[j] = Sorted(S)[i]
    BY <1>3, <2>3
  <2>5. j - 1 = i - 1
    BY <1>6, <2>3, <2>4
  <2>6. j = i
    BY <1>1, <2>5
  <2> QED
    BY <2>4, <2>6
<1>8. Sorted(S) = s
  <2>1. Sorted(S) \in Seq(S) /\ Len(Sorted(S)) = n
    BY <1>5, SortedIsOrdered DEF Ordered
  <2>2. Sorted(S) \in [1..n -> S]
    BY <2>1
  <2> QED
    BY <1>1, <1>7, <2>2
<1> QED
  BY <1>5, <1>8

(* What follows place k of a sorted list is what follows its event.        *)
LEMMA Following ==
  ASSUME NEW S \in SUBSET EventIds, NEW s, Ordered(s, S), NEW k \in 0..Len(s),
         NEW E \in SUBSET S,
         \A x \in S : x \in E <=> (k = 0 \/ Precedes(OccurredAt(s[k]), s[k], x))
  PROVE  Ordered(SubSeq(s, k + 1, Len(s)), E) /\ Len(SubSeq(s, k + 1, Len(s))) = Len(s) - k
<1> DEFINE n == Len(s)
           t == SubSeq(s, k + 1, n)
<1>1. n \in Nat /\ s \in Seq(S) /\ s \in [1..n -> S] /\ k \in Nat /\ k <= n
  BY DEF Ordered
<1>2. Len(t) = n - k /\ \A i \in 1..(n - k) : t[i] = s[k + i]
  <2>1. k + 1 \in Int /\ n \in Int /\ \A i \in (k + 1)..n : s[i] \in S
    BY <1>1
  <2>2. /\ Len(t) = IF k + 1 <= n THEN n - (k + 1) + 1 ELSE 0
        /\ \A i \in 1..(n - (k + 1) + 1) : t[i] = s[(k + 1) + i - 1]
    BY <2>1, SubSeqProperties
  <2>3. \A i \in 1..(n - k) : i \in 1..(n - (k + 1) + 1) /\ (k + 1) + i - 1 = k + i
    BY <1>1
  <2> HIDE DEF t
  <2>4. Len(t) = n - k
    <3>1. n \in Nat /\ k \in Nat /\ k <= n
      BY <1>1
    <3> HIDE DEF n
    <3>2. k + 1 <= n => n - (k + 1) + 1 = n - k
      BY <3>1
    <3>3. ~(k + 1 <= n) => n - k = 0
      BY <3>1
    <3> QED
      BY <2>2, <3>2, <3>3
  <2>5. \A i \in 1..(n - k) : t[i] = s[k + i]
    BY <2>2, <2>3
  <2> QED
    BY <2>4, <2>5
<1>3. \A i \in 1..(n - k) : k + i \in 1..n
  BY <1>1
<1>4. \A i, j \in 1..n : i < j <=> Precedes(OccurredAt(s[i]), s[i], s[j])
  BY DEF Ordered
<1>5. \A j \in 1..n : s[j] \in E <=> k < j
  BY <1>1, <1>4
<1>6. t \in Seq(E)
  <2>1. t = [i \in 1..(n - k) |-> s[k + i]]
    BY <1>1
  <2>2. \A i \in 1..(n - k) : s[k + i] \in E
    BY <1>1, <1>3, <1>5
  <2>3. t \in [1..(n - k) -> E]
    BY <2>1, <2>2
  <2>4. n - k \in Nat
    BY <1>1
  <2> QED
    BY <2>3, <2>4, FunctionIsSeq
<1> HIDE DEF t
<1>7. ASSUME NEW x \in E PROVE \E i \in 1..Len(t) : t[i] = x
  <2>1. PICK j \in 1..n : s[j] = x
    BY DEF Ordered
  <2>2. k < j
    BY <1>5, <2>1
  <2>3. j - k \in 1..(n - k) /\ k + (j - k) = j
    BY <1>1, <2>2
  <2>4. t[j - k] = x
    BY <1>2, <2>1, <2>3
  <2> QED
    BY <1>2, <2>3, <2>4
<1>8. ASSUME NEW i \in 1..Len(t), NEW j \in 1..Len(t)
      PROVE  i < j <=> Precedes(OccurredAt(t[i]), t[i], t[j])
  <2>1. /\ k + i \in 1..n /\ k + j \in 1..n /\ t[i] = s[k + i] /\ t[j] = s[k + j]
        /\ i < j <=> k + i < k + j
    BY <1>1, <1>2, <1>3
  <2> QED
    BY <1>4, <2>1
<1> QED
  BY <1>2, <1>6, <1>7, <1>8 DEF Ordered, t

-----------------------------------------------------------------------------
(* Cursors.                                                                *)

LEMMA Division ==
  ASSUME NEW a \in Nat, NEW b \in Nat \ {0}
  PROVE  a = (a \div b) * b + (a % b) /\ a \div b \in Int /\ a % b \in Nat
OBVIOUS

(* A cursor's instant survives its encoding as an unsigned word, before    *)
(* the epoch of the clock too (TimelineCursor::encode and parse).          *)
LEMMA RoundTrip ==
  ASSUME NEW q, NEW id \in EventIds
  PROVE  InstantOf(Encode(q, id)) = OccurredAt(id)
<1> DEFINE t == OccurredAt(id)
           s == t \div TicksPerSecond - EpochSecond
           w == s % (2 * HalfWord)
<1>1. t \in Times /\ t \in Nat
  BY EventOrder
<1>2. TicksPerSecond \in Nat \ {0} /\ HalfWord \in Nat \ {0} /\ EpochSecond \in Nat
  BY ReaderAssumption
<1>3. s \in -HalfWord..(HalfWord - 1)
  BY <1>1, ClockAssumption
<1> HIDE DEF t
<1>4. /\ t = (t \div TicksPerSecond) * TicksPerSecond + (t % TicksPerSecond)
      /\ t \div TicksPerSecond \in Int
  BY <1>1, <1>2, Division
<1>5. s \in Int
  BY <1>2, <1>4
<1>6. s >= 0 => w = s
  BY <1>2, <1>3, <1>5
<1>7. s < 0 => w = s + 2 * HalfWord
  BY <1>2, <1>3, <1>5
<1>8. Signed(w) = s
  BY <1>2, <1>3, <1>5, <1>6, <1>7 DEF Signed
<1>9. s + EpochSecond = t \div TicksPerSecond
  BY <1>2, <1>4
<1>10. Encode(q, id).seconds = w /\ Encode(q, id).nanos = t % TicksPerSecond
  BY DEF Encode, t
<1> HIDE DEF s, w
<1>11. InstantOf(Encode(q, id)) = (s + EpochSecond) * TicksPerSecond + (t % TicksPerSecond)
  BY <1>8, <1>10 DEF InstantOf
<1>12. InstantOf(Encode(q, id)) = t
  BY <1>4, <1>9, <1>11
<1> QED
  BY <1>12 DEF t

LEMMA EncodeType ==
  ASSUME NEW q \in Nat, NEW id \in EventIds
  PROVE  /\ Encode(q, id) # None
         /\ Encode(q, id).revision = q /\ Encode(q, id).event_id = id
<1>1. OccurredAt(id) \in Nat
  BY EventOrder
<1>2. TicksPerSecond \in Nat \ {0} /\ HalfWord \in Nat \ {0} /\ EpochSecond \in Nat
  BY ReaderAssumption
<1>3. OccurredAt(id) % TicksPerSecond \in Nat /\ OccurredAt(id) \div TicksPerSecond \in Int
  BY <1>1, <1>2, Division
<1>4. (OccurredAt(id) \div TicksPerSecond - EpochSecond) % (2 * HalfWord) \in Nat
  BY <1>2, <1>3
<1>5. Encode(q, id) \in Tokens
  BY <1>3, <1>4 DEF Encode, Tokens
<1> QED
  BY <1>5, TokenAssumption DEF Encode

-----------------------------------------------------------------------------
(* Pages.                                                                  *)

(* The snapshot the readers see.                                           *)
LEMMA RecentOK ==
  ASSUME StoreInv
  PROVE  Recent \in SUBSET EventIds /\ IsFiniteSet(Recent)
<1>1. CacheOK(events, EventIds, Nat, EventCap)
  BY DEF StoreInv
<1>2. /\ events.order \in Seq(EventIds)
      /\ Keys(events) = {events.order[i] : i \in 1..Len(events.order)}
  BY <1>1 DEF CacheOK
<1>3. SnapshotLimit \in Nat
  BY ReaderAssumption
<1>4. \A i \in 1..Earlier(Len(events.order), SnapshotLimit) : i \in 1..Len(events.order)
  BY <1>2, <1>3 DEF Earlier
<1>5. Recent \in SUBSET EventIds
  BY <1>2, <1>4 DEF Recent
<1>6. Recent \in SUBSET Keys(events)
  BY <1>2, <1>4 DEF Recent
<1>7. IsFiniteSet(Keys(events))
  BY <1>1, KeysFinite
<1> QED
  BY <1>5, <1>6, <1>7, FS_Subset

(* What a page of a walk that stands at place k of the sorted snapshot     *)
(* shows, for m events.                                                    *)
Shows(p, S, r, k, m) ==
  /\ m \in Nat /\ k + m <= Cardinality(S) /\ (k < Cardinality(S) => m > 0)
  /\ p.events = SubSeq(Sorted(S), k + 1, k + m) /\ Len(p.events) = m
  /\ p.total = Cardinality(S) /\ p.newer_skipped = k
  /\ p.remaining_older = Cardinality(S) - (k + m)
  /\ p.next_cursor = IF k + m < Cardinality(S) THEN Encode(r, Sorted(S)[k + m]) ELSE None

LEMMA PageShows ==
  ASSUME NEW S \in SUBSET EventIds, IsFiniteSet(S), NEW r \in Nat, NEW limit \in Limits,
         NEW k \in 0..Cardinality(S), NEW token,
         k = 0 => token = None,
         k > 0 => \E q \in Nat : token = Encode(q, Sorted(S)[k])
  PROVE  \E m \in Nat : Shows(Page(S, r, limit, token), S, r, k, m)
<1> DEFINE all == Sorted(S)
           n == Cardinality(S)
           E == Eligible(S, token)
           rest == Sorted(E)
           m == Earlier(Len(rest), limit)
           p == Page(S, r, limit, token)
<1>1. Ordered(all, S) /\ Len(all) = n /\ n \in Nat
  BY SortedIsOrdered
<1>2. limit \in Nat \ {0} /\ k \in Nat /\ k <= n
  BY <1>1, ReaderAssumption
<1>3. E \in SUBSET S /\ \A x \in S : x \in E <=> (k = 0 \/ Precedes(OccurredAt(all[k]), all[k], x))
  <2>1. CASE k = 0
    BY <2>1 DEF Eligible
  <2>2. CASE k > 0
    <3>1. PICK q \in Nat : token = Encode(q, all[k])
      BY <2>2
    <3>2. all[k] \in EventIds
      BY <1>1, <1>2, <2>2 DEF Ordered
    <3>3. token # None /\ token.event_id = all[k] /\ InstantOf(token) = OccurredAt(all[k])
      BY <3>1, <3>2, EncodeType, RoundTrip
    <3> QED
      BY <1>2, <2>2, <3>3 DEF Eligible
  <2> QED
    BY <1>2, <2>1, <2>2
<1> HIDE DEF E, all
<1>4. Ordered(SubSeq(all, k + 1, n), E) /\ Len(SubSeq(all, k + 1, n)) = n - k
  BY <1>1, <1>3, Following
<1>5. rest = SubSeq(all, k + 1, n) /\ Len(rest) = n - k
  <2>1. E \in SUBSET EventIds
    BY <1>3
  <2> QED
    BY <1>4, <2>1, OrderedIsSorted
<1>6. m \in Nat /\ m <= n - k /\ (k < n => m > 0) /\ (m = n - k <=> ~(Len(rest) > limit))
  BY <1>1, <1>2, <1>5 DEF Earlier
<1>7. all \in Seq(S)
  BY <1>1 DEF Ordered
<1> HIDE DEF rest, m
<1>8. SubSeq(rest, 1, m) = SubSeq(all, k + 1, k + m) /\ Len(SubSeq(rest, 1, m)) = m
  <2> DEFINE a == SubSeq(rest, 1, m)
             b == SubSeq(all, k + 1, k + m)
  <2>1. \A i \in (k + 1)..n : all[i] \in S
    BY <1>1, <1>2, <1>7
  <2>2. /\ rest \in Seq(S)
        /\ \A i \in 1..(n - (k + 1) + 1) : rest[i] = all[(k + 1) + i - 1]
    BY <1>1, <1>2, <1>5, <2>1, SubSeqProperties
  <2>3. \A i \in 1..(n - k) : rest[i] = all[k + i]
    <3>1. \A i \in 1..(n - k) : i \in 1..(n - (k + 1) + 1) /\ (k + 1) + i - 1 = k + i
      BY <1>1, <1>2
    <3> QED
      BY <2>2, <3>1
  <2>4. a \in Seq(S) /\ Len(a) = m /\ \A i \in 1..m : a[i] = rest[i]
    <3>1. \A i \in 1..m : rest[i] \in S
      BY <1>1, <1>2, <1>5, <1>6, <2>2
    <3>2. /\ a \in Seq(S) /\ Len(a) = IF 1 <= m THEN m - 1 + 1 ELSE 0
          /\ \A i \in 1..(m - 1 + 1) : a[i] = rest[1 + i - 1]
      BY <1>6, <3>1, SubSeqProperties
    <3> HIDE DEF a
    <3>3. Len(a) = m
      BY <1>6, <3>2
    <3>4. \A i \in 1..m : i \in 1..(m - 1 + 1) /\ 1 + i - 1 = i
      BY <1>6
    <3> QED
      BY <3>2, <3>3, <3>4
  <2>5. b \in Seq(S) /\ Len(b) = m /\ \A i \in 1..m : b[i] = all[k + i]
    <3>1. k + 1 \in Int /\ k + m \in Int /\ \A i \in (k + 1)..(k + m) : all[i] \in S
      BY <1>1, <1>2, <1>6, <2>1
    <3>2. /\ b \in Seq(S) /\ Len(b) = IF k + 1 <= k + m THEN (k + m) - (k + 1) + 1 ELSE 0
          /\ \A i \in 1..((k + m) - (k + 1) + 1) : b[i] = all[(k + 1) + i - 1]
      BY <3>1, SubSeqProperties
    <3> HIDE DEF b
    <3>3. Len(b) = m
      BY <1>2, <1>6, <3>2
    <3>4. \A i \in 1..m : i \in 1..((k + m) - (k + 1) + 1) /\ (k + 1) + i - 1 = k + i
      BY <1>2, <1>6
    <3> QED
      BY <3>2, <3>3, <3>4
  <2>6. \A i \in 1..m : i \in 1..(n - k)
    BY <1>1, <1>2, <1>6
  <2> HIDE DEF a, b
  <2>7. a = b
    BY <2>3, <2>4, <2>5, <2>6, SMTT(30)
  <2> QED
    BY <2>4, <2>7 DEF a, b
<1>9. /\ p.events = SubSeq(rest, 1, m) /\ p.total = n /\ p.newer_skipped = n - Len(rest)
      /\ p.remaining_older =
           IF Len(rest) > limit THEN n - ((n - Len(rest)) + Len(SubSeq(rest, 1, m))) ELSE 0
      /\ p.next_cursor = IF Len(rest) > limit
                           THEN Encode(r, SubSeq(rest, 1, m)[Len(SubSeq(rest, 1, m))]) ELSE None
  BY DEF Page, rest, m, E
<1> HIDE DEF p
<1>10. k + m <= n /\ (k < n => m > 0) /\ p.newer_skipped = k
  BY <1>1, <1>2, <1>5, <1>6, <1>9
<1>11. p.remaining_older = n - (k + m)
  <2>1. CASE Len(rest) > limit
    <3>1. n - ((n - Len(rest)) + m) = n - (k + m)
      BY <1>1, <1>2, <1>5, <1>6
    <3> QED
      BY <1>8, <1>9, <2>1, <3>1
  <2>2. CASE ~(Len(rest) > limit)
    <3>1. n - (k + m) = 0
      BY <1>1, <1>2, <1>6, <2>2
    <3> QED
      BY <1>9, <2>2, <3>1
  <2> QED
    BY <2>1, <2>2
<1>12. Len(rest) > limit <=> k + m < n
  BY <1>1, <1>2, <1>6
<1>13. Len(rest) > limit => SubSeq(rest, 1, m)[m] = all[k + m]
  <2> HAVE Len(rest) > limit
  <2>1. m > 0
    BY <1>1, <1>2, <1>6, <1>12
  <2>2. k + 1 \in Int /\ k + m \in Int /\ \A i \in (k + 1)..(k + m) : all[i] \in S
    BY <1>1, <1>2, <1>6, <1>7
  <2>3. \A i \in 1..((k + m) - (k + 1) + 1) :
          SubSeq(all, k + 1, k + m)[i] = all[(k + 1) + i - 1]
    BY <2>2, SubSeqProperties
  <2>4. m \in 1..((k + m) - (k + 1) + 1) /\ (k + 1) + m - 1 = k + m
    BY <1>2, <1>6, <2>1
  <2> QED
    BY <1>8, <2>3, <2>4
<1>14. p.next_cursor = IF k + m < n THEN Encode(r, all[k + m]) ELSE None
  BY <1>8, <1>9, <1>12, <1>13
<1>15. p.events = SubSeq(all, k + 1, k + m) /\ Len(p.events) = m /\ p.total = n
  BY <1>8, <1>9
<1>16. Shows(p, S, r, k, m)
  BY <1>6, <1>10, <1>11, <1>14, <1>15 DEF Shows, all
<1> QED
  BY <1>6, <1>16 DEF p

-----------------------------------------------------------------------------
(* Steps.                                                                  *)

LEMMA PrefixOK ==
  ASSUME NEW S, NEW s \in Seq(S), NEW k \in 0..Len(s)
  PROVE  /\ SubSeq(s, 1, k) \in Seq(S) /\ Len(SubSeq(s, 1, k)) = k
         /\ \A i \in 1..k : SubSeq(s, 1, k)[i] = s[i]
<1> DEFINE t == SubSeq(s, 1, k)
<1>1. k \in Nat /\ \A i \in 1..k : s[i] \in S
  OBVIOUS
<1>2. /\ t \in Seq(S) /\ Len(t) = IF 1 <= k THEN k - 1 + 1 ELSE 0
      /\ \A i \in 1..(k - 1 + 1) : t[i] = s[1 + i - 1]
  BY <1>1, SubSeqProperties
<1> HIDE DEF t
<1>3. Len(t) = k
  BY <1>1, <1>2
<1>4. \A i \in 1..k : i \in 1..(k - 1 + 1) /\ 1 + i - 1 = i
  BY <1>1
<1> QED
  BY <1>2, <1>3, <1>4 DEF t

(* Two consecutive pieces of a list, put together.                         *)
LEMMA Joined ==
  ASSUME NEW S, NEW s \in Seq(S), NEW k \in Nat, NEW m \in Nat, k + m <= Len(s)
  PROVE  SubSeq(s, 1, k) \o SubSeq(s, k + 1, k + m) = SubSeq(s, 1, k + m)
<1> DEFINE a == SubSeq(s, 1, k)
           b == SubSeq(s, k + 1, k + m)
           c == SubSeq(s, 1, k + m)
<1>1. Len(s) \in Nat /\ k \in 0..Len(s) /\ k + m \in 0..Len(s) /\ \A i \in 1..Len(s) : s[i] \in S
  OBVIOUS
<1>2. a \in Seq(S) /\ Len(a) = k /\ \A i \in 1..k : a[i] = s[i]
  BY <1>1, PrefixOK
<1>3. c \in Seq(S) /\ Len(c) = k + m /\ \A i \in 1..(k + m) : c[i] = s[i]
  BY <1>1, PrefixOK
<1>4. b \in Seq(S) /\ Len(b) = m /\ \A i \in 1..m : b[i] = s[k + i]
  <2>1. k + 1 \in Int /\ k + m \in Int /\ \A i \in (k + 1)..(k + m) : s[i] \in S
    BY <1>1
  <2>2. /\ b \in Seq(S) /\ Len(b) = IF k + 1 <= k + m THEN (k + m) - (k + 1) + 1 ELSE 0
        /\ \A i \in 1..((k + m) - (k + 1) + 1) : b[i] = s[(k + 1) + i - 1]
    BY <2>1, SubSeqProperties
  <2> HIDE DEF b
  <2>3. Len(b) = m
    BY <2>2
  <2>4. \A i \in 1..m : i \in 1..((k + m) - (k + 1) + 1) /\ (k + 1) + i - 1 = k + i
    OBVIOUS
  <2> QED
    BY <2>2, <2>3, <2>4
<1> HIDE DEF a, b, c
<1>5. /\ a \o b \in Seq(S) /\ Len(a \o b) = k + m
      /\ \A i \in 1..(k + m) : (a \o b)[i] = IF i <= k THEN a[i] ELSE b[i - k]
  BY <1>2, <1>4, ConcatProperties
<1>6. ASSUME NEW i \in 1..(k + m) PROVE (a \o b)[i] = c[i]
  <2>1. CASE i <= k
    <3>1. i \in 1..k
      BY <2>1
    <3> QED
      BY <1>2, <1>3, <1>5, <2>1, <3>1
  <2>2. CASE ~(i <= k)
    <3>1. i - k \in 1..m /\ k + (i - k) = i
      BY <2>2
    <3> QED
      BY <1>3, <1>4, <1>5, <2>2, <3>1
  <2> QED
    BY <2>1, <2>2
<1>7. a \o b = c
  <2>1. PICK u : u = a \o b
    OBVIOUS
  <2>2. u \in Seq(S) /\ Len(u) = k + m /\ \A i \in 1..(k + m) : u[i] = c[i]
    BY <1>5, <1>6, <2>1
  <2>3. u = c
    BY <1>3, <2>2
  <2> QED
    BY <2>1, <2>3
<1> QED
  BY <1>7 DEF a, b, c

(* A walk that is exact so far: what WalkIsExact says after a page.        *)
Exact(w) ==
  /\ w.collected = SubSeq(Sorted(Recent), 1, Len(w.collected))
  /\ w.page.next_cursor = None <=> Len(w.collected) = Len(Sorted(Recent))

(* A page of m events that continues a walk from place k.                  *)
LEMMA Advanced ==
  ASSUME StoreInv, NEW k \in Nat, NEW m \in Nat, NEW w, Shows(w.page, Recent, revision, k, m),
         w.collected = SubSeq(Sorted(Recent), 1, k + m)
  PROVE  /\ Len(w.collected) = k + m /\ Exact(w)
         /\ w.page.newer_skipped + Len(w.page.events) = Len(w.collected)
         /\ Len(w.collected) + w.page.remaining_older = w.page.total
         /\ w.page.next_cursor # None =>
              /\ w.page.next_cursor.revision = revision
              /\ k + m \in 1..Cardinality(Recent) /\ k + m < Cardinality(Recent)
              /\ w.page.next_cursor = Encode(revision, Sorted(Recent)[k + m])
<1> DEFINE all == Sorted(Recent)
           n == Cardinality(Recent)
<1>1. Ordered(all, Recent) /\ Len(all) = n /\ n \in Nat /\ Recent \in SUBSET EventIds
  BY RecentOK, SortedIsOrdered
<1>2. all \in Seq(Recent) /\ revision \in Nat
  BY <1>1 DEF Ordered, StoreInv
<1>3. /\ k + m <= n /\ (k < n => m > 0) /\ Len(w.page.events) = m
      /\ w.page.total = n /\ w.page.newer_skipped = k
      /\ w.page.remaining_older = n - (k + m)
      /\ w.page.next_cursor = IF k + m < n THEN Encode(revision, all[k + m]) ELSE None
  BY DEF Shows
<1> HIDE DEF all
<1>4. Len(w.collected) = k + m
  <2>1. k + m \in 0..Len(all)
    BY <1>1, <1>3
  <2> QED
    BY <1>2, <2>1, PrefixOK DEF all
<1>5. k + m < n => k + m \in 1..n
  BY <1>1, <1>3
<1>6. k + m < n => all[k + m] \in EventIds
  BY <1>1, <1>2, <1>5
<1>7. k + m < n => /\ w.page.next_cursor # None
                   /\ w.page.next_cursor.revision = revision
  BY <1>2, <1>3, <1>6, EncodeType
<1>8. w.page.next_cursor = None <=> k + m = n
  <2>1. (k + m < n \/ k + m = n) /\ ~(k + m < n /\ k + m = n)
    <3>1. n \in Nat /\ k + m <= n
      BY <1>1, <1>3, Zenon
    <3> HIDE DEF n
    <3> QED
      BY <3>1
  <2>2. ~(k + m < n) => w.page.next_cursor = None
    BY <1>3
  <2> QED
    BY <1>7, <2>1, <2>2, Zenon
<1>9. Exact(w)
  BY <1>1, <1>4, <1>8 DEF Exact, all
<1>10. /\ w.page.newer_skipped + Len(w.page.events) = Len(w.collected)
       /\ Len(w.collected) + w.page.remaining_older = w.page.total
  BY <1>1, <1>3, <1>4
<1> QED
  BY <1>3, <1>4, <1>5, <1>7, <1>8, <1>9, <1>10 DEF all

(* Such a page keeps the invariant.                                        *)
LEMMA AdvancedInv ==
  ASSUME ReaderInv, UNCHANGED <<vars, epoch>>, epoch \in walk'.epochs,
         walk'.epochs \subseteq 0..epoch,
         walk'.epochs = {epoch} =>
           \E k, m \in Nat : /\ Shows(walk'.page, Recent, revision, k, m)
                             /\ walk'.collected = SubSeq(Sorted(Recent), 1, k + m)
  PROVE  WalkInv' /\ (walk'.epochs = {epoch} => Exact(walk'))
<1>1. epoch \in Nat /\ revision \in Nat /\ StoreInv
  BY DEF ReaderInv, WalkInv, StoreInv
<1>2. Recent' = Recent /\ revision' = revision /\ epoch' = epoch
  BY DEF vars, Recent
<1>3. Cardinality(walk'.epochs) = 1 => walk'.epochs = {epoch}
  <2>1. IsFiniteSet(0..epoch)
    BY <1>1, FS_Interval
  <2>2. IsFiniteSet(walk'.epochs)
    BY <2>1, FS_Subset
  <2> QED
    BY <2>2, FS_Singleton
<1>4. CASE walk'.epochs # {epoch}
  BY <1>1, <1>2, <1>3, <1>4 DEF WalkInv, PageCountsAddUp
<1>5. CASE walk'.epochs = {epoch}
  <2>1. PICK k \in Nat, m \in Nat : /\ Shows(walk'.page, Recent, revision, k, m)
                                    /\ walk'.collected = SubSeq(Sorted(Recent), 1, k + m)
    BY <1>5
  <2>2. /\ Len(walk'.collected) = k + m /\ Exact(walk')
        /\ walk'.page.newer_skipped + Len(walk'.page.events) = Len(walk'.collected)
        /\ Len(walk'.collected) + walk'.page.remaining_older = walk'.page.total
        /\ walk'.page.next_cursor # None =>
             /\ walk'.page.next_cursor.revision = revision
             /\ k + m \in 1..Cardinality(Recent) /\ k + m < Cardinality(Recent)
             /\ walk'.page.next_cursor = Encode(revision, Sorted(Recent)[k + m])
    BY <1>1, <2>1, Advanced
  <2>3. PageCountsAddUp'
    BY <2>2 DEF PageCountsAddUp
  <2>4. walk'.page.next_cursor # None => StandsAt(Len(walk.collected))'
    BY <1>2, <2>1, <2>2 DEF StandsAt
  <2> QED
    BY <1>1, <1>2, <1>5, <2>2, <2>3, <2>4 DEF WalkInv
<1> QED
  BY <1>4, <1>5

LEMMA FirstPageOK ==
  ASSUME ReaderInv, NEW limit \in Limits, FirstPage(limit)
  PROVE  WalkInv' /\ (walk'.epochs = {epoch} => Exact(walk'))
<1> DEFINE p == Page(Recent, revision, limit, None)
<1>1. /\ walk' = [collected |-> p.events, page |-> p, epochs |-> {epoch}]
      /\ UNCHANGED <<vars, epoch>>
  BY DEF FirstPage
<1>2. StoreInv /\ epoch \in Nat /\ revision \in Nat
  BY DEF ReaderInv, WalkInv, StoreInv
<1>3. Recent \in SUBSET EventIds /\ IsFiniteSet(Recent) /\ 0 \in 0..Cardinality(Recent)
  BY <1>2, RecentOK, FS_CardinalityType
<1>4. PICK m \in Nat : Shows(p, Recent, revision, 0, m)
  BY <1>2, <1>3, PageShows
<1> HIDE DEF p
<1>5. p.events = SubSeq(Sorted(Recent), 1, 0 + m)
  BY <1>4 DEF Shows
<1>6. walk'.collected = p.events /\ walk'.page = p /\ walk'.epochs = {epoch}
  BY <1>1
<1>7. epoch \in walk'.epochs /\ walk'.epochs \subseteq 0..epoch
  BY <1>2, <1>6
<1>8. \E k, j \in Nat : /\ Shows(walk'.page, Recent, revision, k, j)
                        /\ walk'.collected = SubSeq(Sorted(Recent), 1, k + j)
  BY <1>4, <1>5, <1>6
<1> QED
  BY <1>1, <1>7, <1>8, AdvancedInv

LEMMA NextPageOK ==
  ASSUME ReaderInv, NEW limit \in Limits, NextPage(limit)
  PROVE  WalkInv' /\ (walk'.epochs = {epoch} => Exact(walk'))
<1> DEFINE token == walk.page.next_cursor
           p == Page(Recent, revision, limit, token)
           k == Len(walk.collected)
<1>1. /\ token # None /\ token.revision = revision
      /\ walk' = [collected |-> walk.collected \o p.events, page |-> p,
                  epochs |-> walk.epochs \cup {epoch}]
      /\ UNCHANGED <<vars, epoch>>
  BY DEF NextPage
<1>2. /\ StoreInv /\ epoch \in Nat /\ revision \in Nat
      /\ walk.epochs # {} /\ walk.epochs \subseteq 0..epoch
  BY <1>1 DEF ReaderInv, WalkInv, StoreInv
<1> HIDE DEF p
<1>3. /\ walk'.collected = walk.collected \o p.events /\ walk'.page = p
      /\ walk'.epochs = walk.epochs \cup {epoch}
  BY <1>1
<1>4. epoch \in walk'.epochs /\ walk'.epochs \subseteq 0..epoch
  BY <1>2, <1>3
<1>5. walk'.epochs = {epoch} =>
        \E i, m \in Nat : /\ Shows(walk'.page, Recent, revision, i, m)
                          /\ walk'.collected = SubSeq(Sorted(Recent), 1, i + m)
  <2> HAVE walk'.epochs = {epoch}
  <2>1. StandsAt(k)
    <3>1. walk.epochs = {epoch}
      BY <1>2, <1>3
    <3> QED
      BY <1>1, <3>1 DEF ReaderInv, WalkInv
  <2> HIDE DEF k
  <2>2. Recent \in SUBSET EventIds /\ IsFiniteSet(Recent)
    BY <1>2, RecentOK
  <2>3. /\ k \in 0..Cardinality(Recent) /\ k \in Nat /\ k # 0
        /\ walk.collected = SubSeq(Sorted(Recent), 1, k)
        /\ token = Encode(revision, Sorted(Recent)[k])
    BY <2>1 DEF StandsAt
  <2>4. PICK m \in Nat : Shows(p, Recent, revision, k, m)
    BY <1>2, <2>2, <2>3, PageShows DEF p
  <2>5. p.events = SubSeq(Sorted(Recent), k + 1, k + m) /\ k + m <= Cardinality(Recent)
    BY <2>4 DEF Shows
  <2>6. Sorted(Recent) \in Seq(Recent) /\ Len(Sorted(Recent)) = Cardinality(Recent)
    BY <2>2, SortedIsOrdered DEF Ordered
  <2>7. walk.collected \o p.events = SubSeq(Sorted(Recent), 1, k + m)
    BY <2>3, <2>5, <2>6, Joined
  <2> QED
    BY <1>3, <2>3, <2>4, <2>7
<1> QED
  BY <1>1, <1>4, <1>5, AdvancedInv

(* A reader that starts again, or stops.                                   *)
LEMMA NoWalkOK ==
  ASSUME ReaderInv, walk' = NoWalk, UNCHANGED <<vars, epoch>>
  PROVE  WalkInv'
<1>1. walk'.epochs = {} /\ walk'.page.next_cursor = None
  BY DEF NoWalk, NoPage
<1>2. Cardinality(walk'.epochs) # 1
  BY <1>1, FS_EmptySet
<1> QED
  BY <1>1, <1>2 DEF WalkInv, ReaderInv, PageCountsAddUp

(* The store meanwhile: a replay leaves the snapshot and the revision      *)
(* alone, a new event advances the revision beyond every cursor, and a     *)
(* restart is not in the walk's processes.                                 *)
LEMMA StoreStepOK ==
  ASSUME ReaderInv, StoreStep
  PROVE  StoreInv' /\ WalkInv' /\ walk' = walk
<1>1. StoreInv /\ WalkInv /\ revision \in Nat /\ epoch \in Nat
  BY DEF ReaderInv, WalkInv, StoreInv
<1>2. ASSUME NEW id \in EventIds, NEW tr \in Transports, IngestRecord(id, tr)
      PROVE  StoreInv' /\ WalkInv' /\ walk' = walk
  <2>1. Ingest(id, tr)
    <3>1. /\ Envelope[id].kind \in EventKinds /\ Envelope[id].agent \in Agents
          /\ OccurredAt(id) \in Times
      BY ReaderAssumption, EventOrder
    <3> QED
      BY <1>2, <3>1 DEF IngestRecord, Ingest
  <2>2. StoreInv'
    BY <1>1, <2>1, NextOK DEF Next
  <2>3. revision' = revision + 1 /\ UNCHANGED <<epoch, walk>>
    BY <1>2 DEF IngestRecord, IngestNew, Accept
  <2>4. PageCountsAddUp'
    BY <1>1, <2>3 DEF WalkInv, PageCountsAddUp
  <2>5. WalkInv'
    BY <1>1, <2>3, <2>4 DEF WalkInv
  <2> QED
    BY <2>2, <2>3, <2>5
<1>3. ASSUME NEW id \in EventIds, IngestDuplicate(id), UNCHANGED <<epoch, walk>>
      PROVE  StoreInv' /\ WalkInv' /\ walk' = walk
  <2>1. StoreInv'
    BY <1>1, <1>3, NextOK DEF Next
  <2>2. revision' = revision /\ Recent' = Recent
    BY <1>3 DEF IngestDuplicate, Recent
  <2>3. WalkInv'
    BY <1>1, <1>3, <2>2 DEF WalkInv, StandsAt, PageCountsAddUp
  <2> QED
    BY <1>3, <2>1, <2>3
<1>4. CASE Restart
  <2>1. Init' /\ epoch' = epoch + 1 /\ UNCHANGED walk
    BY <1>4 DEF Restart, Reset, Init
  <2>2. StoreInv'
    <3>1. (Init => StoreInv)'
      BY InitOK, PTL
    <3> QED
      BY <2>1, <3>1
  <2>3. walk'.epochs # {epoch'} /\ walk'.epochs \subseteq 0..epoch'
    <3>1. epoch \in Nat /\ walk.epochs \subseteq 0..epoch
      BY <1>1 DEF WalkInv
    <3>2. epoch + 1 \notin 0..epoch /\ 0..epoch \subseteq 0..(epoch + 1)
      BY <3>1
    <3>3. walk'.epochs = walk.epochs /\ epoch' = epoch + 1
      BY <2>1
    <3> QED
      BY <3>1, <3>2, <3>3
  <2>4. PageCountsAddUp'
    BY <1>1, <2>1 DEF WalkInv, PageCountsAddUp
  <2>5. WalkInv'
    BY <1>1, <2>1, <2>3, <2>4 DEF WalkInv
  <2> QED
    BY <2>1, <2>2, <2>5
<1> QED
  BY <1>2, <1>3, <1>4 DEF StoreStep

LEMMA ReaderInit ==
  ASSUME TimelineInit
  PROVE  ReaderInv
<1>1. StoreInv /\ walk = NoWalk /\ epoch = 0
  BY InitOK DEF TimelineInit
<1>2. walk.epochs = {} /\ walk.page.next_cursor = None
  BY <1>1 DEF NoWalk, NoPage
<1>3. Cardinality(walk.epochs) # 1
  BY <1>2, FS_EmptySet
<1> QED
  BY <1>1, <1>2, <1>3 DEF ReaderInv, WalkInv, PageCountsAddUp

(* What a step shows the reader.                                           *)
Walked == walk' # walk /\ walk' # NoWalk /\ walk'.epochs = {epoch} => Exact(walk')

LEMMA ReaderNext ==
  ASSUME ReaderInv, [TimelineNext]_tvars
  PROVE  ReaderInv' /\ Walked
<1>1. CASE StoreStep
  BY <1>1, StoreStepOK DEF ReaderInv, Walked
<1>2. ASSUME UNCHANGED vars PROVE StoreInv'
  BY <1>2, NextOK DEF ReaderInv
<1>3. ASSUME NEW limit \in Limits, FirstPage(limit) \/ NextPage(limit)
      PROVE  ReaderInv' /\ Walked
  <2>1. WalkInv' /\ (walk'.epochs = {epoch} => Exact(walk'))
    BY <1>3, FirstPageOK, NextPageOK
  <2>2. UNCHANGED vars
    BY <1>3 DEF FirstPage, NextPage
  <2> QED
    BY <1>2, <2>1, <2>2 DEF ReaderInv, Walked
<1>4. CASE RevisionChanged \/ Abandon
  <2>1. walk' = NoWalk /\ UNCHANGED <<vars, epoch>>
    BY <1>4 DEF RevisionChanged, Abandon
  <2> QED
    BY <1>2, <2>1, NoWalkOK DEF ReaderInv, Walked
<1>5. CASE UNCHANGED tvars
  <2>1. UNCHANGED vars /\ UNCHANGED <<epoch, walk>>
    BY <1>5 DEF tvars
  <2>2. revision' = revision /\ Recent' = Recent
    BY <2>1 DEF vars, Recent
  <2>3. WalkInv'
    BY <2>1, <2>2 DEF ReaderInv, WalkInv, StandsAt, PageCountsAddUp
  <2> QED
    BY <1>2, <2>1, <2>3 DEF ReaderInv, Walked
<1> QED
  BY <1>1, <1>3, <1>4, <1>5 DEF TimelineNext

-----------------------------------------------------------------------------
(* Theorems.                                                               *)

(* However the store moves between the pages of a walk and whatever their  *)
(* sizes, within one process the pages are the retained events in timeline *)
(* order without a gap or a repetition (build_timeline_page and the        *)
(* cursor).                                                                *)
THEOREM WalksAreExact == TimelineSpec => WalkIsExact
<1>1. TimelineInit => ReaderInv
  BY ReaderInit
<1>2. ReaderInv /\ [TimelineNext]_tvars => ReaderInv'
  BY ReaderNext
<1>3. ReaderInv /\ [TimelineNext]_tvars =>
        [walk' # walk /\ walk' # NoWalk /\ walk'.epochs = {epoch} =>
           LET all == Sorted(Recent)
               got == walk'.collected
           IN  /\ got = SubSeq(all, 1, Len(got))
               /\ walk'.page.next_cursor = None <=> Len(got) = Len(all)]_tvars
  BY ReaderNext DEF Walked, Exact
<1> QED
  BY <1>1, <1>2, <1>3, PTL DEF TimelineSpec, WalkIsExact

(* The counts on every page are those of its walk: what the pages before   *)
(* returned and what the following ones will.                              *)
THEOREM PageCounts == TimelineSpec => []PageCountsAddUp
<1>1. TimelineInit => ReaderInv
  BY ReaderInit
<1>2. ReaderInv /\ [TimelineNext]_tvars => ReaderInv'
  BY ReaderNext
<1>3. ReaderInv => PageCountsAddUp
  BY DEF ReaderInv, WalkInv
<1> QED
  BY <1>1, <1>2, <1>3, PTL DEF TimelineSpec

-----------------------------------------------------------------------------
(* Lessons.                                                                *)

LessonKeys == Agents \X LessonIds

(* The explorer's order of the lessons is strict and total.                *)
LEMMA LessonOrder ==
  ASSUME StoreInv
  PROVE  /\ Keys(lessons) \subseteq LessonKeys /\ IsFiniteSet(Keys(lessons))
         /\ \A k \in Keys(lessons) : lessons.entry[k].learned_at \in Nat /\ LessonRank[k] \in Nat
         /\ \A k \in Keys(lessons) : ~LessonPrecedes(k, k)
         /\ \A k, l, m \in Keys(lessons) :
              LessonPrecedes(k, l) /\ LessonPrecedes(l, m) => LessonPrecedes(k, m)
         /\ \A k, l \in Keys(lessons) : k # l => LessonPrecedes(k, l) \/ LessonPrecedes(l, k)
<1> DEFINE K == Keys(lessons)
<1>1. CacheOK(lessons, LessonKeys, LessonState, LessonCap)
  BY DEF StoreInv, Projections, LessonKeys
<1>2. IsFiniteSet(K)
  BY <1>1, KeysFinite
<1>3. K \subseteq LessonKeys
  BY <1>1 DEF CacheOK
<1>4. lessons.entry \in [K -> LessonState]
  BY <1>1 DEF CacheOK
<1> HIDE DEF K
<1>5. \A k \in K : lessons.entry[k].learned_at \in Nat
  BY <1>4, InputAssumption DEF LessonState
<1>6. /\ \A k \in LessonKeys : LessonRank[k] \in Nat
      /\ \A k, l \in LessonKeys : LessonRank[k] = LessonRank[l] => k = l
  BY PolicyAssumption DEF LessonKeys
<1>7. \A k \in K : LessonRank[k] \in Nat
  BY <1>3, <1>6
<1>8. \A k, l \in K : LessonRank[k] = LessonRank[l] => k = l
  BY <1>3, <1>6
<1>9. /\ \A k \in K : ~LessonPrecedes(k, k)
      /\ \A k, l \in K : k # l => LessonPrecedes(k, l) \/ LessonPrecedes(l, k)
  BY <1>5, <1>7, <1>8 DEF LessonPrecedes
<1>10. \A k, l, m \in K : LessonPrecedes(k, l) /\ LessonPrecedes(l, m) => LessonPrecedes(k, m)
  BY <1>5, <1>7 DEF LessonPrecedes
<1> QED
  BY <1>2, <1>3, <1>5, <1>7, <1>9, <1>10 DEF K

(* The list the explorer shows is the beginning of all lessons in order.   *)
LEMMA LessonsListed ==
  ASSUME StoreInv
  PROVE  \E full \in Seq(Keys(lessons)) :
           /\ Len(full) = Cardinality(Keys(lessons))
           /\ \A k \in Keys(lessons) : \E i \in 1..Len(full) : full[i] = k
           /\ \A i, j \in 1..Len(full) : i < j <=> LessonPrecedes(full[i], full[j])
           /\ LessonList(LessonLimit) = Cut(full, LessonLimit)
<1> DEFINE K == Keys(lessons)
           n == Cardinality(K)
           B == [k \in K |-> {l \in K : LessonPrecedes(l, k)}]
           e(i) == CHOOSE k \in K : Cardinality({l \in K : LessonPrecedes(l, k)}) = i - 1
           full == [i \in 1..n |-> e(i)]
<1>1. LessonList(LessonLimit) = Cut(full, LessonLimit)
  BY DEF LessonList
<1>2. IsFiniteSet(K) /\ n \in Nat
  BY LessonOrder, FS_CardinalityType
<1>3. \A k \in K : ~LessonPrecedes(k, k)
  BY LessonOrder
<1>4. \A k, l, m \in K : LessonPrecedes(k, l) /\ LessonPrecedes(l, m) => LessonPrecedes(k, m)
  BY LessonOrder
<1>5. \A k, l \in K : k # l => LessonPrecedes(k, l) \/ LessonPrecedes(l, k)
  BY LessonOrder
<1> HIDE DEF K
<1>6. B \in [K -> SUBSET K] /\ \A k, l \in K : l \in B[k] <=> LessonPrecedes(l, k)
  OBVIOUS
<1> HIDE DEF B, n
<1>7. /\ \A x \in K : x \notin B[x]
      /\ \A x, y \in K : x # y => x \in B[y] \/ y \in B[x]
  BY <1>3, <1>5, <1>6
<1>8. \A x, y \in K : x \in B[y] => B[x] \subseteq B[y]
  BY <1>4, <1>6
<1>9. \A i \in 1..n : \E x \in K : Cardinality(B[x]) = i - 1
  BY <1>2, <1>6, <1>7, <1>8, Ranks DEF n
<1>10. ASSUME NEW i \in 1..n PROVE e(i) \in K /\ Cardinality(B[e(i)]) = i - 1
  <2>1. \E k \in K : Cardinality({l \in K : LessonPrecedes(l, k)}) = i - 1
    BY <1>9 DEF B
  <2>2. e(i) \in K /\ Cardinality({l \in K : LessonPrecedes(l, e(i))}) = i - 1
    BY <2>1
  <2> QED
    BY <2>2 DEF B
<1> HIDE DEF e
<1>11. full \in [1..n -> K] /\ \A i \in 1..n : full[i] = e(i)
  BY <1>10
<1> HIDE DEF full
<1>12. full \in Seq(K) /\ Len(full) = n
  BY <1>2, <1>11, FunctionIsSeq
<1>13. \A i \in 1..Cardinality(K) : full[i] \in K /\ Cardinality(B[full[i]]) = i - 1
  BY <1>10, <1>11 DEF n
<1>14. /\ \A x \in K : \E i \in 1..Cardinality(K) : full[i] = x
       /\ \A i, j \in 1..Cardinality(K) : i < j <=> full[i] \in B[full[j]]
  BY <1>2, <1>6, <1>7, <1>8, <1>13, RankedList
<1>15. \A i, j \in 1..n : i < j <=> LessonPrecedes(full[i], full[j])
  BY <1>6, <1>13, <1>14 DEF n
<1> QED
  BY <1>1, <1>12, <1>14, <1>15 DEF K, n

(* Cutting the lessons keeps the most recently learned ones and counts the *)
(* others, for any cache and any limit, whatever order the cache holds     *)
(* them in (build_explorer).                                               *)
THEOREM NewestLessonsKept == TimelineSpec => []LessonsKeepNewest
<1>1. TimelineInit => ReaderInv
  BY ReaderInit
<1>2. ReaderInv /\ [TimelineNext]_tvars => ReaderInv'
  BY ReaderNext
<1>3. ReaderInv => LessonsKeepNewest
  <2> SUFFICES ASSUME StoreInv PROVE LessonsKeepNewest
    BY DEF ReaderInv
  <2> DEFINE K == Keys(lessons)
             list == LessonList(LessonLimit)
             shown == ToSet(list)
  <2>1. PICK full \in Seq(K) :
          /\ Len(full) = Cardinality(K)
          /\ \A k \in K : \E i \in 1..Len(full) : full[i] = k
          /\ \A i, j \in 1..Len(full) : i < j <=> LessonPrecedes(full[i], full[j])
          /\ list = Cut(full, LessonLimit)
    BY LessonsListed
  <2> DEFINE n == Len(full)
             m == Earlier(n, LessonLimit)
  <2>2. LessonLimit \in Nat /\ n \in Nat /\ m \in 0..n
    <3>1. LessonLimit \in Nat
      BY PolicyAssumption
    <3> QED
      BY <2>1, <3>1 DEF Earlier
  <2>3. list = SubSeq(full, 1, m)
    BY <2>1 DEF Cut
  <2>4. /\ \A k \in K : ~LessonPrecedes(k, k) /\ lessons.entry[k].learned_at \in Nat
        /\ \A i \in 1..n : full[i] \in K
    BY <2>1, LessonOrder
  <2> HIDE DEF list, m
  <2>5. Len(list) = m /\ list \in Seq(K) /\ \A i \in 1..m : list[i] = full[i]
    BY <2>2, <2>3, PrefixOK
  <2>6. \A i, j \in 1..n : full[i] = full[j] => i = j
    <3> SUFFICES ASSUME NEW i \in 1..n, NEW j \in 1..n, full[i] = full[j] PROVE i = j
      OBVIOUS
    <3>1. ~(i < j) /\ ~(j < i)
      BY <2>1, <2>4
    <3> QED
      BY <2>2, <3>1
  <2>7. \A x : x \in shown <=> \E i \in 1..m : full[i] = x
    BY <2>5 DEF ToSet
  <2>8. Cardinality(shown) = m
    <3>1. list \in [1..m -> shown] /\ \A x \in shown : \E i \in 1..m : list[i] = x
      BY <2>5, <2>7
    <3>2. \A i, j \in 1..m : list[i] = list[j] => i = j
      BY <2>2, <2>5, <2>6
    <3> HIDE DEF shown
    <3>3. list \in Bijection(1..m, shown)
      BY <3>1, <3>2 DEF Bijection, Injection, Surjection, IsInjective
    <3>4. IsFiniteSet(1..m) /\ Cardinality(1..m) = m
      <4>1. 1 \in Int /\ m \in Int /\ m >= 0
        BY <2>2
      <4>2. IsFiniteSet(1..m) /\ Cardinality(1..m) = IF 1 > m THEN 0 ELSE m - 1 + 1
        BY <4>1, FS_Interval
      <4> QED
        BY <4>1, <4>2
    <3>5. ExistsBijection(1..m, shown)
      BY <3>3 DEF ExistsBijection
    <3> QED
      BY <3>4, <3>5, FS_Bijection
  <2> HIDE DEF shown
  <2>9. Cardinality(K) = Cardinality(shown) + (Cardinality(K) - Len(list))
    BY <2>1, <2>2, <2>5, <2>8
  <2>10. ASSUME NEW k \in shown, NEW l \in K \ shown
         PROVE  lessons.entry[l].learned_at <= lessons.entry[k].learned_at
    <3>1. PICK i \in 1..m : full[i] = k
      BY <2>7
    <3>2. PICK j \in 1..n : full[j] = l
      BY <2>1
    <3>3. j \notin 1..m
      BY <2>7, <3>2
    <3>4. i \in 1..n /\ ~(j < i)
      BY <2>2, <3>3
    <3>5. ~LessonPrecedes(l, k)
      BY <2>1, <3>1, <3>2, <3>4
    <3>6. lessons.entry[l].learned_at \in Nat /\ lessons.entry[k].learned_at \in Nat
      BY <2>4, <3>1, <3>2, <3>4
    <3> QED
      BY <3>5, <3>6 DEF LessonPrecedes
  <2>11. /\ BuildExplorer.lessons = list
         /\ BuildExplorer.omitted_lessons = Cardinality(K) - Len(list)
    BY DEF BuildExplorer, ExplorerOf, list
  <2> QED
    BY <2>5, <2>8, <2>9, <2>10, <2>11 DEF LessonsKeepNewest, LessonsKeepNewestIn, shown
<1> QED
  BY <1>1, <1>2, <1>3, PTL DEF TimelineSpec

-----------------------------------------------------------------------------
(* Sessions.  What the accumulators are after the events E, without the    *)
(* order in which they were observed.                                      *)

InSession(E, s) == {id \in E : Envelope[id].session = s}
SessionIds(E) == {Envelope[id].session : id \in E} \ {None}

IsNewest(E, x) == x \in E /\ \A y \in E \ {x} : Precedes(OccurredAt(x), x, y)
Newest(E) == CHOOSE x \in E : IsNewest(E, x)

IsFirst(E, t) == (\E x \in E : t = OccurredAt(x)) /\ \A y \in E : t <= OccurredAt(y)
FirstTime(E) == CHOOSE t \in Nat : IsFirst(E, t)

KindCounts(E) == [k \in EventKinds |-> Cardinality({id \in E : Envelope[id].kind = k})]

SummaryOf(E) ==
  [agents |-> {Envelope[id].agent : id \in E}, count |-> Cardinality(E), latest |-> Newest(E),
   kinds |-> KindCounts(E), first_occurred_at |-> FirstTime(E),
   last_occurred_at |-> OccurredAt(Newest(E))]

Accumulated(E) == [s \in SessionIds(E) |-> SummaryOf(InSession(E, s))]

(* Only one event is the newest one, and only one time the first.          *)
LEMMA NewestIs ==
  ASSUME NEW E \in SUBSET EventIds, NEW x, IsNewest(E, x)
  PROVE  Newest(E) = x
<1>1. IsNewest(E, Newest(E)) /\ x \in E
  BY DEF Newest, IsNewest
<1> QED
  BY <1>1, EventOrder DEF IsNewest

LEMMA FirstIs ==
  ASSUME NEW E \in SUBSET EventIds, NEW t, IsFirst(E, t)
  PROVE  FirstTime(E) = t /\ t \in Nat
<1>1. t \in Nat
  BY EventOrder DEF IsFirst
<1>2. IsFirst(E, FirstTime(E)) /\ FirstTime(E) \in Nat
  BY <1>1 DEF FirstTime
<1> QED
  BY <1>1, <1>2, EventOrder DEF IsFirst

(* Events that are not none have both.                                     *)
LEMMA EndsExist ==
  ASSUME NEW E \in SUBSET EventIds, IsFiniteSet(E), E # {}
  PROVE  IsNewest(E, Newest(E)) /\ IsFirst(E, FirstTime(E))
<1> DEFINE s == Sorted(E)
           n == Cardinality(E)
<1>1. Ordered(s, E) /\ Len(s) = n /\ n \in Nat
  BY SortedIsOrdered
<1>2. n # 0
  BY FS_EmptySet
<1> HIDE DEF s, n
<1>3. s \in Seq(E) /\ 1 \in 1..n /\ n \in 1..n /\ s[1] \in E /\ s[n] \in E
  BY <1>1, <1>2 DEF Ordered
<1>4. \A x \in E : \E i \in 1..n : s[i] = x
  BY <1>1 DEF Ordered
<1>5. \A i \in 1..n : 1 < i => Precedes(OccurredAt(s[1]), s[1], s[i])
  BY <1>1, <1>3 DEF Ordered
<1>6. \A i \in 1..n : i < n => Precedes(OccurredAt(s[i]), s[i], s[n])
  BY <1>1, <1>3 DEF Ordered
<1>7. IsNewest(E, s[1])
  BY <1>1, <1>3, <1>4, <1>5 DEF IsNewest
<1>8. IsFirst(E, OccurredAt(s[n]))
  <2>1. ASSUME NEW y \in E PROVE OccurredAt(s[n]) <= OccurredAt(y)
    <3>1. PICK i \in 1..n : s[i] = y
      BY <1>4
    <3>2. i = n \/ i < n
      BY <1>1
    <3>3. OccurredAt(s[n]) \in Nat /\ OccurredAt(y) \in Nat
      BY <1>3, EventOrder
    <3> QED
      BY <1>6, <3>1, <3>2, <3>3 DEF Precedes
  <2> QED
    BY <1>3, <2>1 DEF IsFirst
<1> QED
  BY <1>7, <1>8, NewestIs, FirstIs

(* The counts of the kinds after one more event.                           *)
LEMMA KindsStep ==
  ASSUME NEW E \in SUBSET EventIds, IsFiniteSet(E), NEW id \in EventIds \ E
  PROVE  OneMore(KindCounts(E), id) = KindCounts(E \cup {id})
<1> DEFINE kind == Envelope[id].kind
           C(S, k) == {x \in S : Envelope[x].kind = k}
<1>1. kind \in EventKinds
  BY ReaderAssumption
<1> HIDE DEF kind
<1>2. ASSUME NEW k \in EventKinds
      PROVE  /\ IsFiniteSet(C(E, k)) /\ Cardinality(C(E, k)) \in Nat
             /\ Cardinality(C(E \cup {id}, k))
                  = IF k = kind THEN Cardinality(C(E, k)) + 1 ELSE Cardinality(C(E, k))
  <2>1. IsFiniteSet(C(E, k)) /\ Cardinality(C(E, k)) \in Nat
    BY FS_Subset, FS_CardinalityType
  <2>2. CASE k = kind
    <3>1. C(E \cup {id}, k) = C(E, k) \cup {id} /\ id \notin C(E, k)
      BY <2>2 DEF kind
    <3> HIDE DEF C
    <3> QED
      BY <2>1, <2>2, <3>1, FS_AddElement
  <2>3. CASE k # kind
    <3>1. C(E \cup {id}, k) = C(E, k)
      BY <2>3 DEF kind
    <3> QED
      BY <2>1, <2>3, <3>1
  <2> QED
    BY <2>1, <2>2, <2>3
<1>3. KindCounts(E) = [k \in EventKinds |-> Cardinality(C(E, k))]
  BY DEF KindCounts
<1>4. KindCounts(E \cup {id}) = [k \in EventKinds |-> Cardinality(C(E \cup {id}, k))]
  BY DEF KindCounts
<1>5. OneMore(KindCounts(E), id) = [KindCounts(E) EXCEPT ![kind] = @ + 1]
  BY DEF OneMore, kind
<1> HIDE DEF C
<1>6. \A k \in EventKinds : [KindCounts(E) EXCEPT ![kind] = @ + 1][k] = Cardinality(C(E \cup {id}, k))
  BY <1>1, <1>2, <1>3
<1>7. [KindCounts(E) EXCEPT ![kind] = @ + 1]
        = [k \in EventKinds |-> [KindCounts(E) EXCEPT ![kind] = @ + 1][k]]
  BY <1>3
<1> QED
  BY <1>4, <1>5, <1>6, <1>7

(* SessionAccumulator::new on the first event of a session.                *)
LEMMA NewOK ==
  ASSUME NEW id \in EventIds
  PROVE  NewSession(id) = SummaryOf({id})
<1>1. Newest({id}) = id
  <2>1. IsNewest({id}, id)
    BY DEF IsNewest
  <2> QED
    BY <2>1, NewestIs
<1>2. FirstTime({id}) = OccurredAt(id)
  <2>1. IsFirst({id}, OccurredAt(id))
    BY EventOrder DEF IsFirst
  <2> QED
    BY <2>1, FirstIs
<1>3. Cardinality({id}) = 1
  BY FS_Singleton
<1>4. OneMore([k \in EventKinds |-> 0], id) = KindCounts({id})
  <2>1. KindCounts({}) = [k \in EventKinds |-> 0]
    <3>1. \A k \in EventKinds : {x \in {} : Envelope[x].kind = k} = {}
      OBVIOUS
    <3> QED
      BY <3>1, FS_EmptySet DEF KindCounts
  <2>2. OneMore(KindCounts({}), id) = KindCounts({} \cup {id})
    BY KindsStep, FS_EmptySet
  <2>3. {} \cup {id} = {id}
    OBVIOUS
  <2> QED
    BY <2>1, <2>2, <2>3
<1>5. {Envelope[x].agent : x \in {id}} = {Envelope[id].agent}
  OBVIOUS
<1> QED
  BY <1>1, <1>2, <1>3, <1>4, <1>5 DEF NewSession, SummaryOf

(* SessionAccumulator::observe on a further one.                           *)
LEMMA ObservedOK ==
  ASSUME NEW E \in SUBSET EventIds, IsFiniteSet(E), E # {}, NEW id \in EventIds \ E
  PROVE  Observed(SummaryOf(E), id) = SummaryOf(E \cup {id})
<1> DEFINE F == E \cup {id}
           a == SummaryOf(E)
           newer == Precedes(OccurredAt(id), id, Newest(E))
<1>1. IsNewest(E, Newest(E)) /\ IsFirst(E, FirstTime(E)) /\ FirstTime(E) \in Nat
  BY EndsExist, FirstIs
<1>2. F \in SUBSET EventIds /\ Newest(E) \in EventIds /\ Newest(E) # id
  BY <1>1 DEF IsNewest
<1>3. Newest(F) = IF newer THEN id ELSE Newest(E)
  <2>1. CASE newer
    <3>1. IsNewest(F, id)
      BY <1>1, <1>2, <2>1, EventOrder DEF IsNewest
    <3> QED
      BY <1>2, <2>1, <3>1, NewestIs
  <2>2. CASE ~newer
    <3>1. IsNewest(F, Newest(E))
      BY <1>1, <1>2, <2>2, EventOrder DEF IsNewest
    <3> QED
      BY <1>2, <2>2, <3>1, NewestIs
  <2> QED
    BY <2>1, <2>2
<1>4. FirstTime(F) = Earlier(FirstTime(E), OccurredAt(id))
  <2>1. OccurredAt(id) \in Nat /\ \A y \in E : OccurredAt(y) \in Nat
    BY EventOrder
  <2>2. IsFirst(F, Earlier(FirstTime(E), OccurredAt(id)))
    BY <1>1, <2>1 DEF IsFirst, Earlier
  <2> QED
    BY <1>2, <2>2, FirstIs
<1>5. Cardinality(F) = Cardinality(E) + 1
  BY FS_AddElement
<1>6. OneMore(KindCounts(E), id) = KindCounts(F)
  BY KindsStep
<1>7. {Envelope[x].agent : x \in F} = {Envelope[x].agent : x \in E} \cup {Envelope[id].agent}
  OBVIOUS
<1>8. /\ a.agents = {Envelope[x].agent : x \in E} /\ a.count = Cardinality(E)
      /\ a.latest = Newest(E) /\ a.kinds = KindCounts(E)
      /\ a.first_occurred_at = FirstTime(E) /\ a.last_occurred_at = OccurredAt(Newest(E))
  BY DEF SummaryOf
<1>9. Observed(a, id) =
        [agents |-> a.agents \cup {Envelope[id].agent}, count |-> a.count + 1,
         kinds |-> OneMore(a.kinds, id), latest |-> IF newer THEN id ELSE a.latest,
         first_occurred_at |-> Earlier(a.first_occurred_at, OccurredAt(id)),
         last_occurred_at |-> IF newer THEN OccurredAt(id) ELSE a.last_occurred_at]
  BY <1>8 DEF Observed
<1>10. SummaryOf(F) =
         [agents |-> {Envelope[x].agent : x \in F}, count |-> Cardinality(F),
          latest |-> Newest(F), kinds |-> KindCounts(F), first_occurred_at |-> FirstTime(F),
          last_occurred_at |-> OccurredAt(Newest(F))]
  BY DEF SummaryOf
<1> HIDE DEF F, a
<1> QED
  BY <1>3, <1>4, <1>5, <1>6, <1>7, <1>8, <1>9, <1>10 DEF F, a

(* The accumulators after one more event.                                  *)
LEMMA CorrelateOK ==
  ASSUME NEW E \in SUBSET EventIds, IsFiniteSet(E), NEW id \in EventIds \ E
  PROVE  Correlate(Accumulated(E), id) = Accumulated(E \cup {id})
<1> DEFINE F == E \cup {id}
           s == Envelope[id].session
           acc == Accumulated(E)
<1>1. DOMAIN acc = SessionIds(E) /\ \A x \in SessionIds(E) : acc[x] = SummaryOf(InSession(E, x))
  BY DEF Accumulated
<1>2. Accumulated(F) = [x \in SessionIds(F) |-> SummaryOf(InSession(F, x))]
  BY DEF Accumulated
<1>3. \A x : x # s => InSession(F, x) = InSession(E, x)
  BY DEF InSession
<1>4. CASE s = None
  <2>1. SessionIds(F) = SessionIds(E) /\ s \notin SessionIds(E)
    BY <1>4 DEF SessionIds
  <2>2. Correlate(acc, id) = acc
    BY <1>4 DEF Correlate
  <2>3. acc = [x \in SessionIds(E) |-> SummaryOf(InSession(E, x))]
    BY DEF Accumulated
  <2> HIDE DEF acc, F, s
  <2> QED
    BY <1>2, <1>3, <2>1, <2>2, <2>3 DEF F, acc
<1>5. CASE s # None
  <2>1. SessionIds(F) = SessionIds(E) \cup {s}
    BY <1>5 DEF SessionIds
  <2>2. Correlate(acc, id) =
          [x \in SessionIds(E) \cup {s} |->
             IF x # s THEN acc[x]
             ELSE IF s \in SessionIds(E) THEN Observed(acc[s], id) ELSE NewSession(id)]
    BY <1>1, <1>5 DEF Correlate
  <2>3. InSession(F, s) = InSession(E, s) \cup {id} /\ id \notin InSession(E, s)
    BY DEF InSession
  <2>4. InSession(E, s) \in SUBSET EventIds /\ IsFiniteSet(InSession(E, s))
    BY FS_Subset DEF InSession
  <2>5. s \in SessionIds(E) <=> InSession(E, s) # {}
    BY <1>5 DEF SessionIds, InSession
  <2> HIDE DEF acc, F, s
  <2>6. CASE s \in SessionIds(E)
    <3>1. Observed(acc[s], id) = SummaryOf(InSession(F, s))
      BY <1>1, <2>3, <2>4, <2>5, <2>6, ObservedOK
    <3>2. \A x \in SessionIds(E) \cup {s} :
            (IF x # s THEN acc[x]
             ELSE IF s \in SessionIds(E) THEN Observed(acc[s], id) ELSE NewSession(id))
              = SummaryOf(InSession(F, x))
      BY <1>1, <1>3, <2>6, <3>1
    <3> QED
      BY <1>2, <2>1, <2>2, <3>2 DEF F, acc
  <2>7. CASE s \notin SessionIds(E)
    <3>1. NewSession(id) = SummaryOf(InSession(F, s))
      <4>1. InSession(F, s) = {id}
        BY <2>3, <2>5, <2>7
      <4> QED
        BY <4>1, NewOK
    <3>2. \A x \in SessionIds(E) \cup {s} :
            (IF x # s THEN acc[x]
             ELSE IF s \in SessionIds(E) THEN Observed(acc[s], id) ELSE NewSession(id))
              = SummaryOf(InSession(F, x))
      BY <1>1, <1>3, <2>7, <3>1
    <3> QED
      BY <1>2, <2>1, <2>2, <3>2 DEF F, acc
  <2> QED
    BY <2>6, <2>7
<1> QED
  BY <1>4, <1>5

(* What correlating a list of events makes of them.                        *)
LEMMA FoldedOK ==
  ASSUME NEW s \in Seq(EventIds), \A i, j \in 1..Len(s) : s[i] = s[j] => i = j
  PROVE  SessionsIn(s) = Accumulated({s[i] : i \in 1..Len(s)})
<1> DEFINE D == DOMAIN s
           Ids(p) == {s[i] : i \in p}
           Eqn(g) == g = [p \in SUBSET D |->
                            IF p = {} THEN <<>>
                            ELSE Correlate(g[p \ {Max(p)}], s[Max(p)])]
           iter == CHOOSE g : Eqn(g)
           form == [p \in SUBSET D |-> Accumulated(Ids(p))]
<1>1. SessionsIn(s) = iter[D]
  BY DEF SessionsIn, FoldLeft, MapThenFoldSet
<1>2. D = 1..Len(s) /\ Len(s) \in Nat /\ IsFiniteSet(D) /\ D \in SUBSET Int
  BY FS_Interval
<1>3. form[{}] = <<>>
  <2>1. Ids({}) = {} /\ {} \in SUBSET D
    OBVIOUS
  <2>2. SessionIds({}) = {}
    BY DEF SessionIds
  <2>3. Accumulated({}) = <<>>
    BY <2>2 DEF Accumulated
  <2> HIDE DEF D
  <2> QED
    BY <2>1, <2>3
<1>4. ASSUME NEW p \in SUBSET D, p # {}
      PROVE  /\ Max(p) \in p
             /\ form[p] = Correlate(form[p \ {Max(p)}], s[Max(p)])
  <2>1. IsFiniteSet(p) /\ p \in SUBSET Int
    BY <1>2, FS_Subset
  <2> DEFINE x == Max(p)
             q == p \ {x}
  <2>2. x \in p
    BY <1>4, <2>1, MaxOK
  <2> HIDE DEF x
  <2>3. Ids(p) = Ids(q) \cup {s[x]}
    BY <2>2
  <2>4. s[x] \notin Ids(q) /\ s[x] \in EventIds /\ Ids(q) \in SUBSET EventIds
    BY <1>2, <2>2
  <2>5. IsFiniteSet(Ids(q))
    <3>1. IsFiniteSet(q)
      BY <2>1, FS_Subset
    <3> QED
      BY <3>1, ImageFinite
  <2>6. form[p] = Accumulated(Ids(p)) /\ form[q] = Accumulated(Ids(q))
    OBVIOUS
  <2> HIDE DEF Ids, form, D, q
  <2>7. Correlate(Accumulated(Ids(q)), s[x]) = Accumulated(Ids(q) \cup {s[x]})
    BY <2>4, <2>5, CorrelateOK
  <2> QED
    BY <2>2, <2>3, <2>6, <2>7 DEF x, q
<1>5. form = [p \in SUBSET D |-> form[p]]
  OBVIOUS
<1>6. form[D] = Accumulated({s[i] : i \in 1..Len(s)})
  BY <1>2
<1> HIDE DEF form, D
<1>7. Eqn(form)
  <2>1. ASSUME NEW p \in SUBSET D
        PROVE  form[p] = IF p = {} THEN <<>> ELSE Correlate(form[p \ {Max(p)}], s[Max(p)])
    BY <1>3, <1>4
  <2> QED
    BY <1>5, <2>1
<1>8. Eqn(iter)
  BY <1>7
<1> HIDE DEF iter
<1>9. ASSUME NEW p \in SUBSET D, p # {}
      PROVE  iter[p] = Correlate(iter[p \ {Max(p)}], s[Max(p)])
  BY <1>8, <1>9
<1>10. iter[{}] = <<>>
  BY <1>8
<1> HIDE DEF Eqn
<1> DEFINE T == {p \in SUBSET D : iter[p] # form[p]}
<1>11. T = {}
  <2> SUFFICES ASSUME T # {} PROVE FALSE
    OBVIOUS
  <2>1. T \in SUBSET (SUBSET D)
    OBVIOUS
  <2>2. PICK p \in T : \A x \in p : p \ {x} \notin T
    <3> HIDE DEF T
    <3>1. IsFiniteSet(D)
      BY <1>2
    <3> QED
      BY <2>1, <3>1, SmallestSet
  <2>3. p \in SUBSET D /\ iter[p] # form[p] /\ p # {}
    BY <1>3, <1>10
  <2>4. Max(p) \in p /\ form[p] = Correlate(form[p \ {Max(p)}], s[Max(p)])
    BY <1>4, <2>3
  <2>5. iter[p \ {Max(p)}] = form[p \ {Max(p)}]
    BY <2>2, <2>3, <2>4
  <2> QED
    BY <1>9, <2>3, <2>4, <2>5
<1> QED
  BY <1>1, <1>6, <1>11

(* What the explorer's accumulators are.                                   *)
LEMMA AccumulatorsOK ==
  ASSUME StoreInv
  PROVE  /\ SessionsIn(Sorted(Recent)) = Accumulated(Recent)
         /\ IsFiniteSet(SessionIds(Recent)) /\ SessionIds(Recent) \in SUBSET Sessions
         /\ SessionIds(Recent) = {s \in Sessions : EventsOf(s) # {}}
         /\ \A s : EventsOf(s) = InSession(Recent, s)
         /\ \A s \in SessionIds(Recent) :
              /\ EventsOf(s) \in SUBSET EventIds /\ IsFiniteSet(EventsOf(s)) /\ EventsOf(s) # {}
<1> DEFINE S == Recent
           w == Sorted(S)
<1>1. S \in SUBSET EventIds /\ IsFiniteSet(S)
  BY RecentOK
<1>2. Ordered(w, S) /\ Len(w) = Cardinality(S) /\ Len(w) \in Nat
  BY <1>1, SortedIsOrdered
<1>3. \A s : EventsOf(s) = InSession(S, s)
  BY DEF EventsOf, InSession
<1> HIDE DEF S, w
<1>4. w \in Seq(S) /\ \A i \in 1..Len(w) : w[i] \in S
  BY <1>2 DEF Ordered
<1>5. \A i, j \in 1..Len(w) : i < j => Precedes(OccurredAt(w[i]), w[i], w[j])
  BY <1>2 DEF Ordered
<1>6. \A i, j \in 1..Len(w) : w[i] = w[j] => i = j
  <2> SUFFICES ASSUME NEW i \in 1..Len(w), NEW j \in 1..Len(w), w[i] = w[j] PROVE i = j
    OBVIOUS
  <2>1. w[i] \in EventIds
    BY <1>1, <1>4
  <2>2. ~(i < j) /\ ~(j < i)
    BY <1>5, <2>1, EventOrder
  <2> QED
    BY <1>2, <2>2
<1>7. {w[i] : i \in 1..Len(w)} = S
  BY <1>2, <1>4 DEF Ordered
<1>8. w \in Seq(EventIds)
  BY <1>1, <1>2, <1>4, FunctionIsSeq
<1>9. SessionsIn(w) = Accumulated(S)
  BY <1>6, <1>7, <1>8, FoldedOK
<1>10. /\ SessionIds(S) \in SUBSET Sessions
       /\ SessionIds(S) = {s \in Sessions : InSession(S, s) # {}}
  <2>1. \A id \in S : Envelope[id].session \in Sessions \cup {None}
    BY <1>1, ReaderAssumption
  <2>2. None \notin Sessions
    BY PolicyAssumption
  <2>3. SessionIds(S) \in SUBSET Sessions
    BY <2>1 DEF SessionIds
  <2>4. \A s \in Sessions : s \in SessionIds(S) <=> InSession(S, s) # {}
    BY <2>2 DEF SessionIds, InSession
  <2> QED
    BY <2>3, <2>4
<1>11. IsFiniteSet(SessionIds(S))
  <2> DEFINE f == [id \in S |-> Envelope[id].session]
             V == {f[id] : id \in S}
  <2>1. IsFiniteSet(V)
    <3> HIDE DEF f
    <3> QED
      BY <1>1, ImageFinite
  <2>2. SessionIds(S) \in SUBSET V
    BY DEF SessionIds
  <2> QED
    BY <2>1, <2>2, FS_Subset
<1>12. \A s : InSession(S, s) \in SUBSET S
  BY DEF InSession
<1>13. \A s \in SessionIds(S) : /\ InSession(S, s) \in SUBSET EventIds
                                /\ IsFiniteSet(InSession(S, s)) /\ InSession(S, s) # {}
  BY <1>1, <1>10, <1>12, FS_Subset
<1> QED
  BY <1>3, <1>9, <1>10, <1>11, <1>13 DEF S, w

(* The sessions in the explorer's order: each once, one before another     *)
(* exactly where it precedes it.                                           *)
InSessionOrder(acc, w) ==
  /\ w \in Seq(DOMAIN acc) /\ Len(w) = Cardinality(DOMAIN acc)
  /\ \A s \in DOMAIN acc : \E i \in 1..Len(w) : w[i] = s
  /\ \A i, j \in 1..Len(w) : i < j <=> SessionPrecedes(acc, w[i], w[j])

LEMMA SessionsListed ==
  ASSUME NEW acc, IsFiniteSet(DOMAIN acc), DOMAIN acc \in SUBSET Nat,
         \A s \in DOMAIN acc : acc[s].last_occurred_at \in Nat
  PROVE  InSessionOrder(acc, SessionOrder(acc))
<1> DEFINE K == DOMAIN acc
           n == Cardinality(K)
           B == [k \in K |-> {l \in K : SessionPrecedes(acc, l, k)}]
           e(i) == CHOOSE k \in K : Cardinality({l \in K : SessionPrecedes(acc, l, k)}) = i - 1
           full == [i \in 1..n |-> e(i)]
<1>1. SessionOrder(acc) = full
  BY DEF SessionOrder
<1>2. IsFiniteSet(K) /\ n \in Nat
  BY FS_CardinalityType
<1>3. /\ \A k \in K : ~SessionPrecedes(acc, k, k)
      /\ \A k, l \in K : k # l => SessionPrecedes(acc, k, l) \/ SessionPrecedes(acc, l, k)
  BY DEF SessionPrecedes
<1>4. \A k, l, m \in K : SessionPrecedes(acc, k, l) /\ SessionPrecedes(acc, l, m)
                           => SessionPrecedes(acc, k, m)
  BY DEF SessionPrecedes
<1> HIDE DEF K
<1>5. B \in [K -> SUBSET K] /\ \A k, l \in K : l \in B[k] <=> SessionPrecedes(acc, l, k)
  OBVIOUS
<1> HIDE DEF B, n
<1>6. /\ \A x \in K : x \notin B[x]
      /\ \A x, y \in K : x # y => x \in B[y] \/ y \in B[x]
  BY <1>3, <1>5
<1>7. \A x, y \in K : x \in B[y] => B[x] \subseteq B[y]
  BY <1>4, <1>5
<1>8. \A i \in 1..n : \E x \in K : Cardinality(B[x]) = i - 1
  BY <1>2, <1>5, <1>6, <1>7, Ranks DEF n
<1>9. ASSUME NEW i \in 1..n PROVE e(i) \in K /\ Cardinality(B[e(i)]) = i - 1
  <2>1. \E k \in K : Cardinality({l \in K : SessionPrecedes(acc, l, k)}) = i - 1
    BY <1>8 DEF B
  <2>2. e(i) \in K /\ Cardinality({l \in K : SessionPrecedes(acc, l, e(i))}) = i - 1
    BY <2>1
  <2> QED
    BY <2>2 DEF B
<1> HIDE DEF e
<1>10. full \in [1..n -> K] /\ \A i \in 1..n : full[i] = e(i)
  BY <1>9
<1> HIDE DEF full
<1>11. full \in Seq(K) /\ Len(full) = n
  BY <1>2, <1>10, FunctionIsSeq
<1>12. \A i \in 1..Cardinality(K) : full[i] \in K /\ Cardinality(B[full[i]]) = i - 1
  BY <1>9, <1>10 DEF n
<1>13. /\ \A x \in K : \E i \in 1..Cardinality(K) : full[i] = x
       /\ \A i, j \in 1..Cardinality(K) : i < j <=> full[i] \in B[full[j]]
  BY <1>2, <1>5, <1>6, <1>7, <1>12, RankedList
<1>14. \A i, j \in 1..n : i < j <=> SessionPrecedes(acc, full[i], full[j])
  BY <1>5, <1>12, <1>13 DEF n
<1> QED
  BY <1>1, <1>11, <1>13, <1>14 DEF K, n, InSessionOrder

(* Cutting such a list keeps the first ones and counts the others.         *)
LEMMA SessionsCut ==
  ASSUME NEW acc, NEW w, InSessionOrder(acc, w), DOMAIN acc \in SUBSET Nat,
         \A s \in DOMAIN acc : acc[s].last_occurred_at \in Nat
  PROVE  LET c     == Cut(w, SessionLimit)
             m     == Earlier(Cardinality(DOMAIN acc), SessionLimit)
             shown == {c[i] : i \in 1..m}
         IN  /\ DOMAIN c = 1..m /\ Len(c) = m /\ m \in Nat /\ shown \subseteq DOMAIN acc
             /\ Cardinality(shown) = m /\ Cardinality(DOMAIN acc) \in Nat
             /\ \A s \in DOMAIN acc \ shown : \A i \in 1..m :
                  acc[s].last_occurred_at <= acc[c[i]].last_occurred_at
<1> DEFINE K == DOMAIN acc
           n == Len(w)
           m == Earlier(n, SessionLimit)
           c == SubSeq(w, 1, m)
           shown == {c[i] : i \in 1..m}
<1>1. /\ w \in Seq(K) /\ n = Cardinality(K) /\ \A i \in 1..n : w[i] \in K
      /\ \A s \in K : \E i \in 1..n : w[i] = s
      /\ \A i, j \in 1..n : i < j <=> SessionPrecedes(acc, w[i], w[j])
  BY DEF InSessionOrder
<1>2. SessionLimit \in Nat /\ n \in Nat /\ m \in 0..n
  <2>1. SessionLimit \in Nat
    BY PolicyAssumption
  <2> QED
    BY <1>1, <2>1 DEF Earlier
<1> HIDE DEF m
<1>3. Cut(w, SessionLimit) = c
  BY DEF Cut, m
<1>4. c \in Seq(K) /\ Len(c) = m /\ \A i \in 1..m : c[i] = w[i]
  BY <1>1, <1>2, PrefixOK
<1> HIDE DEF c
<1>5. \A s \in K : ~SessionPrecedes(acc, s, s)
  BY DEF SessionPrecedes
<1>6. \A i, j \in 1..n : w[i] = w[j] => i = j
  <2> SUFFICES ASSUME NEW i \in 1..n, NEW j \in 1..n, w[i] = w[j] PROVE i = j
    OBVIOUS
  <2>1. ~(i < j) /\ ~(j < i)
    BY <1>1, <1>5
  <2> QED
    BY <1>2, <2>1
<1>7. \A i, j \in 1..Len(c) : c[i] = c[j] => i = j
  BY <1>2, <1>4, <1>6
<1>8. Cardinality(shown) = m /\ shown \subseteq K
  BY <1>4, <1>7, ListSize
<1>9. \A s \in K \ shown : \A i \in 1..m : acc[s].last_occurred_at <= acc[c[i]].last_occurred_at
  <2> SUFFICES ASSUME NEW s \in K \ shown, NEW i \in 1..m
               PROVE  acc[s].last_occurred_at <= acc[c[i]].last_occurred_at
    OBVIOUS
  <2>1. PICK j \in 1..n : w[j] = s
    BY <1>1
  <2>2. j \notin 1..m
    BY <1>4, <2>1
  <2>3. i \in 1..n /\ ~(j < i) /\ c[i] = w[i] /\ w[i] \in K
    BY <1>1, <1>2, <1>4, <2>2
  <2>4. ~SessionPrecedes(acc, s, c[i])
    BY <1>1, <2>1, <2>3
  <2>5. acc[s].last_occurred_at \in Nat /\ acc[c[i]].last_occurred_at \in Nat
    BY <2>3
  <2> QED
    BY <2>4, <2>5 DEF SessionPrecedes
<1>10. DOMAIN c = 1..m
  BY <1>4
<1> HIDE DEF shown, K
<1> QED
  BY <1>1, <1>2, <1>3, <1>4, <1>8, <1>9, <1>10 DEF shown, m, K

LEMMA SessionsNow == StoreInv => SessionsAreExact
<1> SUFFICES ASSUME StoreInv PROVE SessionsAreExact
  OBVIOUS
<1> DEFINE acc   == Accumulated(Recent)
           K     == SessionIds(Recent)
           m     == Earlier(Cardinality(K), SessionLimit)
           c     == Cut(SessionOrder(acc), SessionLimit)
           first == {c[i] : i \in 1..m}
           view  == BuildExplorer
           shown == {view.sessions[i].session_id : i \in DOMAIN view.sessions}
           all   == {s \in Sessions : EventsOf(s) # {}}
<1>1. SessionsIn(Sorted(Recent)) = acc /\ IsFiniteSet(K) /\ K \in SUBSET Sessions /\ K = all
  BY AccumulatorsOK
<1>2. ASSUME NEW s \in K
      PROVE  LET E == EventsOf(s)
             IN  /\ E \in SUBSET EventIds /\ IsFiniteSet(E) /\ E # {}
                 /\ acc[s] = SummaryOf(E) /\ IsNewest(E, Newest(E)) /\ IsFirst(E, FirstTime(E))
  <2>1. /\ EventsOf(s) = InSession(Recent, s)
        /\ EventsOf(s) \in SUBSET EventIds /\ IsFiniteSet(EventsOf(s)) /\ EventsOf(s) # {}
    BY AccumulatorsOK
  <2>2. acc[s] = SummaryOf(EventsOf(s))
    BY <2>1 DEF Accumulated
  <2> QED
    BY <2>1, <2>2, EndsExist
<1>3. DOMAIN acc = K
  BY DEF Accumulated
<1> HIDE DEF acc, K
<1>4. \A s \in K : acc[s].last_occurred_at \in Nat
  <2> SUFFICES ASSUME NEW s \in K PROVE acc[s].last_occurred_at \in Nat
    OBVIOUS
  <2> DEFINE E == EventsOf(s)
  <2>1. E \in SUBSET EventIds /\ acc[s] = SummaryOf(E) /\ IsNewest(E, Newest(E))
    BY <1>2
  <2>2. acc[s].last_occurred_at = OccurredAt(Newest(E))
    BY <2>1 DEF SummaryOf
  <2>3. Newest(E) \in EventIds
    BY <2>1 DEF IsNewest
  <2> QED
    BY <2>2, <2>3, EventOrder
<1>5. K \in SUBSET Nat
  BY <1>1, PolicyAssumption
<1>6. InSessionOrder(acc, SessionOrder(acc))
  BY <1>1, <1>3, <1>4, <1>5, SessionsListed
<1>7. /\ DOMAIN c = 1..m /\ Len(c) = m /\ m \in Nat /\ first \subseteq K
      /\ Cardinality(first) = m /\ Cardinality(K) \in Nat
      /\ \A s \in K \ first : \A i \in 1..m : acc[s].last_occurred_at <= acc[c[i]].last_occurred_at
  BY <1>3, <1>4, <1>5, <1>6, SessionsCut
<1>8. /\ view.sessions = [i \in DOMAIN c |-> [session_id |-> c[i], summary |-> acc[c[i]]]]
      /\ view.omitted_sessions = Cardinality(K) - m
  BY <1>1, <1>3 DEF BuildExplorer, ExplorerOf
<1> HIDE DEF c, m, view
<1>9. /\ DOMAIN view.sessions = 1..m /\ Len(view.sessions) = m
      /\ \A i \in 1..m : view.sessions[i].session_id = c[i] /\ view.sessions[i].summary = acc[c[i]]
  BY <1>7, <1>8
<1>10. shown = first
  BY <1>9
<1> HIDE DEF shown, first
<1>11. Cardinality(all) = Cardinality(shown) + view.omitted_sessions
  BY <1>1, <1>7, <1>8, <1>10
<1> DEFINE IsExact(E, a) ==
             /\ a.count = Cardinality(E)
             /\ \A k \in EventKinds :
                  a.kinds[k] = Cardinality({id \in E : Envelope[id].kind = k})
             /\ a.agents = {Envelope[id].agent : id \in E}
             /\ \A id \in E : /\ a.first_occurred_at <= OccurredAt(id)
                              /\ OccurredAt(id) <= a.last_occurred_at
             /\ a.latest \in E /\ OccurredAt(a.latest) = a.last_occurred_at
             /\ \A id \in E \ {a.latest} : Precedes(a.last_occurred_at, a.latest, id)
             /\ \A s \in all \ shown : \A id \in EventsOf(s) :
                  OccurredAt(id) <= a.last_occurred_at
<1>12. ASSUME NEW i \in 1..m PROVE IsExact(EventsOf(c[i]), acc[c[i]])
  <2> DEFINE E == EventsOf(c[i])
             a == acc[c[i]]
  <2>1. c[i] \in K
    BY <1>7 DEF first
  <2>2. /\ E \in SUBSET EventIds /\ a = SummaryOf(E) /\ IsNewest(E, Newest(E))
        /\ IsFirst(E, FirstTime(E))
    BY <1>2, <2>1
  <2> HIDE DEF E, a
  <2>3. /\ a.agents = {Envelope[id].agent : id \in E} /\ a.count = Cardinality(E)
        /\ a.latest = Newest(E) /\ a.kinds = KindCounts(E)
        /\ a.first_occurred_at = FirstTime(E) /\ a.last_occurred_at = OccurredAt(Newest(E))
    BY <2>2 DEF SummaryOf
  <2>4. \A k \in EventKinds : a.kinds[k] = Cardinality({id \in E : Envelope[id].kind = k})
    BY <2>3 DEF KindCounts
  <2>5. /\ a.latest \in E /\ OccurredAt(a.latest) = a.last_occurred_at
        /\ \A id \in E \ {a.latest} : Precedes(a.last_occurred_at, a.latest, id)
    BY <2>2, <2>3 DEF IsNewest
  <2>6. \A id \in E : a.first_occurred_at <= OccurredAt(id) /\ OccurredAt(id) <= a.last_occurred_at
    <3>1. \A id \in E : a.first_occurred_at <= OccurredAt(id)
      BY <2>2, <2>3 DEF IsFirst
    <3>2. \A id \in E : OccurredAt(id) <= a.last_occurred_at
      BY <2>2, <2>5, EventOrder DEF Precedes
    <3> QED
      BY <3>1, <3>2
  <2>7. ASSUME NEW s \in all \ shown, NEW id \in EventsOf(s)
        PROVE  OccurredAt(id) <= a.last_occurred_at
    <3> DEFINE F == EventsOf(s)
               b == acc[s]
    <3>1. s \in K \ first
      BY <1>1, <1>10
    <3>2. F \in SUBSET EventIds /\ b = SummaryOf(F) /\ IsNewest(F, Newest(F))
      BY <1>2, <3>1
    <3>3. b.last_occurred_at <= a.last_occurred_at
      BY <1>7, <3>1 DEF a
    <3>4. b.last_occurred_at \in Nat /\ a.last_occurred_at \in Nat
      BY <1>4, <2>1, <3>1 DEF a
    <3>5. id \in F
      OBVIOUS
    <3> HIDE DEF F, b
    <3>6. b.last_occurred_at = OccurredAt(Newest(F))
      BY <3>2 DEF SummaryOf
    <3>7. OccurredAt(id) \in Nat /\ OccurredAt(id) <= OccurredAt(Newest(F))
      BY <3>2, <3>5, EventOrder DEF IsNewest, Precedes
    <3> QED
      BY <3>3, <3>4, <3>6, <3>7
  <2> QED
    BY <2>3, <2>4, <2>5, <2>6, <2>7 DEF E, a
<1>13. shown \subseteq all /\ Cardinality(shown) = Len(view.sessions)
  BY <1>1, <1>7, <1>9, <1>10
<1>14. \A i \in DOMAIN view.sessions :
         IsExact(EventsOf(view.sessions[i].session_id), view.sessions[i].summary)
  <2> HIDE DEF IsExact
  <2> QED
    BY <1>9, <1>12
<1>15. SessionsAreExactIn(view)
  BY <1>11, <1>13, <1>14 DEF SessionsAreExactIn, shown
<1> QED
  BY <1>15 DEF SessionsAreExact, view

(* Every session summary of the explorer is exact about all the retained   *)
(* events of its session, and every session with one is shown or counted,  *)
(* for any store, any events and any limits (build_explorer).              *)
THEOREM SessionsExact == TimelineSpec => []SessionsAreExact
<1>1. TimelineInit => ReaderInv
  BY ReaderInit
<1>2. ReaderInv /\ [TimelineNext]_tvars => ReaderInv'
  BY ReaderNext
<1>3. ReaderInv => SessionsAreExact
  BY SessionsNow DEF ReaderInv
<1> QED
  BY <1>1, <1>2, <1>3, PTL DEF TimelineSpec
=============================================================================
