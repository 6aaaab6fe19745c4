--------------------------- MODULE WebSync_proofs ---------------------------
(***************************************************************************)
(* TLAPS proofs about WebSync, for every number of posts, workers, pages   *)
(* and kills.                                                              *)
(*                                                                         *)
(* For every forum: types; what the index calls cached has its directory;  *)
(* the articles in memory stay below the limit the comment at              *)
(* ASSET_BACKLOG gives; no post once known is forgotten.  For a forum      *)
(* whose list only grows at the front (ByReply FALSE, jquant): a full scan *)
(* that is over lacks no more posts than were published while it ran, and  *)
(* no scan leaves a hole in the middle but where NoNewGaps says.           *)
(*                                                                         *)
(* IndexSound is inductive as it stands.  The limit is not: what waits for *)
(* images may grow while no text is fetched, so the bound needs the two    *)
(* windows apart (Windows).  That nothing is forgotten needs Held: what a  *)
(* run has in memory and what its files know are the same posts, or the    *)
(* compaction at the end would drop some.  The account of a full scan is   *)
(* kept in Answered, which says for each phase which posts may be lacking: *)
(* those behind the page to read, or up to the anchor to resume from.  An  *)
(* incremental scan leaves no hole because of ReadInOrder: what it read is *)
(* everything down to the place where it stopped, and the next one there   *)
(* is known.  Both need the list in order (InOrder), and that a write that *)
(* ends early has brought the oldest posts (PrefixOldest).                 *)
(*                                                                         *)
(* The provers know nothing of Nth, Picked and Ascending; the first        *)
(* sections prove from counting alone what these give.                     *)
(***************************************************************************)
EXTENDS WebSync, FiniteSetTheorems, SequenceTheorems, WellFoundedInduction, TLAPS

(* Counting. *)

(* A set of natural numbers that is not empty has a least one. *)
LEMMA Least ==
  ASSUME NEW B, B \subseteq Nat, B # {}
  PROVE  \E m \in B : \A n \in B : m <= n
<1>1. PICK m \in B : \A n \in B : ~ (<<n, m>> \in OpToRel(<, Nat))
  BY NatLessThanWellFounded, WFMin, Zenon
<1>2. \A n \in B : n < m => <<n, m>> \in OpToRel(<, Nat)
  BY Zenon DEF OpToRel
<1>3. \A n \in B : ~ (n < m)
  BY <1>1, <1>2
<1> QED
  BY <1>3

(* A part of a finite set is no larger, and smaller if it lacks something. *)
LEMMA Fewer ==
  ASSUME NEW T, IsFiniteSet(T), NEW S, S \subseteq T
  PROVE  /\ IsFiniteSet(S) /\ Cardinality(S) \in Nat /\ Cardinality(T) \in Nat
         /\ Cardinality(S) <= Cardinality(T)
         /\ S # T => Cardinality(S) < Cardinality(T)
<1>1. IsFiniteSet(S) /\ Cardinality(S) <= Cardinality(T)
  BY FS_Subset
<1>2. Cardinality(S) \in Nat /\ Cardinality(T) \in Nat
  BY <1>1, FS_CardinalityType
<1>3. S # T => Cardinality(S) < Cardinality(T)
  BY <1>1, <1>2, FS_Subset
<1> QED
  BY <1>1, <1>2, <1>3

(* The members of D whose key is smaller than v; no larger. *)
Before(D, f, v) == {d \in D : f[d] < v}
Upto(D, f, v) == {d \in D : f[d] <= v}

(* Counted by key, the k-th is met at a value that is one of the keys.     *)
LEMMA Jump ==
  ASSUME NEW D, IsFiniteSet(D), NEW f, NEW n \in Nat,
         \A d \in D : f[d] \in 1 .. n,
         NEW k \in 1 .. Cardinality(D)
  PROVE  \E e \in D : Cardinality(Before(D, f, f[e])) < k /\ k <= Cardinality(Upto(D, f, f[e]))
<1> DEFINE B == {v \in Nat : k <= Cardinality(Upto(D, f, v))}
<1>0. Cardinality(D) \in Nat /\ k \in Nat /\ 1 <= k /\ k <= Cardinality(D)
  BY FS_CardinalityType
<1>1. Upto(D, f, n) = D
  BY DEF Upto
<1>2. n \in B
  BY <1>0, <1>1
<1>3. PICK v \in B : \A w \in B : v <= w
  <2>1. B \subseteq Nat /\ B # {}
    BY <1>2
  <2> HIDE DEF B
  <2> QED
    BY <2>1, Least
<1>4. v \in Nat /\ k <= Cardinality(Upto(D, f, v))
  OBVIOUS
<1>5. Upto(D, f, 0) = {}
  BY DEF Upto
<1>6. v # 0
  BY <1>0, <1>4, <1>5, FS_EmptySet
<1>7. v - 1 \notin B /\ v - 1 \in Nat
  BY <1>3, <1>4, <1>6
<1>8. Before(D, f, v) = Upto(D, f, v - 1)
  BY <1>4 DEF Before, Upto
<1>9. Cardinality(Before(D, f, v)) < k
  <2>1. Cardinality(Upto(D, f, v - 1)) \in Nat
    BY Fewer DEF Upto
  <2> QED
    BY <1>0, <1>7, <1>8, <2>1
<1>10. PICK e \in D : f[e] = v
  <2> SUFFICES ASSUME \A e \in D : f[e] # v PROVE FALSE
    OBVIOUS
  <2>1. Upto(D, f, v) = Before(D, f, v)
    BY <1>4 DEF Before, Upto
  <2>2. Cardinality(Upto(D, f, v)) \in Nat
    BY Fewer DEF Upto
  <2> QED
    BY <1>0, <1>4, <1>9, <2>1, <2>2
<1> QED
  BY <1>4, <1>9, <1>10

(* Places of a sequence of length n. *)
LEMMA Places ==
  ASSUME NEW n \in Nat, NEW P, P \subseteq 1 .. n
  PROVE  IsFiniteSet(P) /\ Cardinality(P) \in Nat /\ \A i \in P : i \in Nat /\ i >= 1
<1>1. IsFiniteSet(1 .. n)
  BY FS_Interval
<1>2. IsFiniteSet(P)
  BY <1>1, FS_Subset
<1> QED
  BY <1>2, FS_CardinalityType

(* Those of P that are no later than a. *)
NoLater(P, a) == {j \in P : j <= a}

(* Nth finds its place, *)
LEMMA NthIn ==
  ASSUME NEW n \in Nat, NEW P, P \subseteq 1 .. n, NEW k \in 1 .. Cardinality(P)
  PROVE  Nth(P, k) \in P /\ Cardinality(NoLater(P, Nth(P, k))) = k
<1> DEFINE f == [i \in P |-> i]
<1>1. IsFiniteSet(P) /\ Cardinality(P) \in Nat /\ \A i \in P : i \in Nat /\ i >= 1
  BY Places
<1>2. \A d \in P : f[d] \in 1 .. n
  OBVIOUS
<1>3. PICK e \in P : Cardinality(Before(P, f, f[e])) < k /\ k <= Cardinality(Upto(P, f, f[e]))
  <2> HIDE DEF f
  <2> QED
    BY <1>1, <1>2, Jump
<1>4. f[e] = e
  OBVIOUS
<1>5. NoLater(P, e) = Upto(P, f, e)
  BY DEF NoLater, Upto
<1>6. Upto(P, f, e) = Before(P, f, e) \cup {e} /\ e \notin Before(P, f, e)
  <2>1. \A d \in P : f[d] = d /\ d \in Int
    BY <1>1
  <2>2. ASSUME NEW d PROVE d \in Upto(P, f, e) <=> d \in Before(P, f, e) \cup {e}
    <3>1. CASE d \in P
      <4>1. f[d] = d /\ f[e] = e /\ d \in Int /\ e \in Int
        BY <2>1, <3>1
      <4> HIDE DEF f
      <4> QED
        BY <3>1, <4>1 DEF Before, Upto
    <3>2. CASE d \notin P
      BY <3>2 DEF Before, Upto
    <3> QED
      BY <3>1, <3>2
  <2>3. e \notin Before(P, f, e)
    BY <2>1 DEF Before
  <2> QED
    BY <2>2, <2>3
<1>7. IsFiniteSet(Before(P, f, e)) /\ Cardinality(Before(P, f, e)) \in Nat
  BY <1>1, Fewer DEF Before
<1> HIDE DEF f
<1>8. Cardinality(NoLater(P, e)) = Cardinality(Before(P, f, e)) + 1
  BY <1>5, <1>6, <1>7, FS_AddElement
<1>9. Cardinality(NoLater(P, e)) = k
  BY <1>1, <1>3, <1>4, <1>5, <1>7, <1>8
<1> QED
  BY <1>9 DEF Nth, NoLater

(* Of two places the later one has more up to it, *)
LEMMA MoreUpToLater ==
  ASSUME NEW P, IsFiniteSet(P), \A j \in P : j \in Nat, NEW a \in P, NEW b \in P, a < b
  PROVE  Cardinality(NoLater(P, a)) < Cardinality(NoLater(P, b))
<1>0. a \in Nat /\ b \in Nat
  OBVIOUS
<1>1. NoLater(P, a) \subseteq NoLater(P, b)
  <2> SUFFICES ASSUME NEW j \in P, j <= a PROVE j <= b
    BY DEF NoLater
  <2>1. j \in Nat
    OBVIOUS
  <2> QED
    BY <1>0, <2>1
<1>3. b \in NoLater(P, b)
  BY <1>0 DEF NoLater
<1>4. b \notin NoLater(P, a)
  BY <1>0 DEF NoLater
<1>2. IsFiniteSet(NoLater(P, b))
  BY Fewer DEF NoLater
<1> QED
  BY <1>1, <1>2, <1>3, <1>4, Fewer

(* so Nth goes through the places in order *)
LEMMA NthOrder ==
  ASSUME NEW n \in Nat, NEW P, P \subseteq 1 .. n,
         NEW k \in 1 .. Cardinality(P), NEW l \in 1 .. Cardinality(P), k < l
  PROVE  Nth(P, k) < Nth(P, l)
<1> DEFINE a == Nth(P, k)
           b == Nth(P, l)
<1>1. a \in P /\ Cardinality(NoLater(P, a)) = k /\ b \in P /\ Cardinality(NoLater(P, b)) = l
  BY NthIn
<1> HIDE DEF a, b
<1>2. IsFiniteSet(P) /\ Cardinality(P) \in Nat /\ \A j \in P : j \in Nat
  BY Places
<1>3. ~ (b < a)
  <2>1. b < a => l < k
    BY <1>1, <1>2, MoreUpToLater
  <2>2. k \in Int /\ l \in Int
    BY <1>2
  <2> QED
    BY <2>1, <2>2
<1>4. a < b
  BY <1>1, <1>2, <1>3
<1> QED
  BY <1>4 DEF a, b

(* and leaves none out. *)
LEMMA NthAll ==
  ASSUME NEW n \in Nat, NEW P, P \subseteq 1 .. n, NEW i \in P
  PROVE  \E k \in 1 .. Cardinality(P) : Nth(P, k) = i
<1> DEFINE k == Cardinality(NoLater(P, i))
<1>1. IsFiniteSet(P) /\ Cardinality(P) \in Nat /\ \A j \in P : j \in Nat
  BY Places
<1>2. /\ IsFiniteSet(NoLater(P, i))
      /\ k \in Nat /\ k <= Cardinality(P)
  BY <1>1, Fewer DEF NoLater
<1>3. k # 0
  <2>1. i \in NoLater(P, i)
    BY <1>1 DEF NoLater
  <2> QED
    BY <1>2, <2>1, FS_EmptySet
<1>4. k \in 1 .. Cardinality(P)
  BY <1>1, <1>2, <1>3
<1> DEFINE e == Nth(P, k)
<1>5. e \in P /\ Cardinality(NoLater(P, e)) = k
  <2> HIDE DEF k
  <2> QED
    BY <1>4, NthIn
<1> HIDE DEF e
<1>6. \A a \in P, b \in P : a < b => Cardinality(NoLater(P, a)) < Cardinality(NoLater(P, b))
  BY <1>1, MoreUpToLater
<1>8. ~ (e < i)
  BY <1>2, <1>5, <1>6
<1>9. ~ (i < e)
  BY <1>2, <1>5, <1>6
<1>7. e = i
  BY <1>1, <1>5, <1>8, <1>9
<1> QED
  BY <1>4, <1>7 DEF e

-----------------------------------------------------------------------------
(* Sequences: rows picked, sorted, put together. *)

(* A sequence is in place k what its definition says. *)
LEMMA SequenceMade ==
  ASSUME NEW S, NEW n \in Nat, NEW f, f \in [1 .. n -> S]
  PROVE  f \in Seq(S) /\ Len(f) = n /\ DOMAIN f = 1 .. n
OBVIOUS

(* The rows at the chosen places, in their order. *)
LEMMA PickedRows ==
  ASSUME NEW S, NEW rows \in Seq(S), NEW P, P \subseteq DOMAIN rows
  PROVE  /\ Picked(rows, P) \in Seq(S)
         /\ Len(Picked(rows, P)) = Cardinality(P) /\ Cardinality(P) \in Nat
         /\ DOMAIN Picked(rows, P) = 1 .. Cardinality(P)
         /\ \A k \in DOMAIN Picked(rows, P) :
              Nth(P, k) \in P /\ Picked(rows, P)[k] = rows[Nth(P, k)]
<1> DEFINE n == Len(rows)
           out == Picked(rows, P)
<1>1. n \in Nat /\ DOMAIN rows = 1 .. n
  OBVIOUS
<1> HIDE DEF n
<1>2. Cardinality(P) \in Nat
  BY <1>1, Places
<1>3. \A k \in 1 .. Cardinality(P) : Nth(P, k) \in P
  BY <1>1, NthIn
<1>4. out = [k \in 1 .. Cardinality(P) |-> rows[Nth(P, k)]]
  BY DEF Picked
<1>5. \A i \in P : rows[i] \in S
  BY <1>1
<1>6. out \in [1 .. Cardinality(P) -> S]
  BY <1>3, <1>4, <1>5
<1>7. out \in Seq(S) /\ Len(out) = Cardinality(P) /\ DOMAIN out = 1 .. Cardinality(P)
  <2> HIDE DEF out
  <2> QED
    BY <1>2, <1>6, SequenceMade
<1> QED
  BY <1>2, <1>3, <1>4, <1>7

(* They are those rows, *)
LEMMA PickedQueued ==
  ASSUME NEW S, NEW rows \in Seq(S), NEW P, P \subseteq DOMAIN rows
  PROVE  Queued(Picked(rows, P)) = {rows[i] : i \in P}
<1> DEFINE out == Picked(rows, P)
<1>1. Len(rows) \in Nat /\ DOMAIN rows = 1 .. Len(rows)
  OBVIOUS
<1>2. DOMAIN out = 1 .. Cardinality(P) /\ \A k \in DOMAIN out : Nth(P, k) \in P /\ out[k] = rows[Nth(P, k)]
  BY PickedRows
<1>3. \A i \in P : \E k \in 1 .. Cardinality(P) : Nth(P, k) = i
  BY <1>1, NthAll
<1> HIDE DEF out
<1>4. {out[k] : k \in DOMAIN out} = {rows[i] : i \in P}
  BY <1>2, <1>3
<1> QED
  BY <1>4 DEF Queued, out

(* and which was before which stays. *)
LEMMA PickedOrder ==
  ASSUME NEW S, NEW rows \in Seq(S), NEW P, P \subseteq DOMAIN rows,
         NEW k \in DOMAIN Picked(rows, P), NEW l \in DOMAIN Picked(rows, P), k < l
  PROVE  Nth(P, k) < Nth(P, l)
<1>1. Len(rows) \in Nat /\ DOMAIN rows = 1 .. Len(rows)
  OBVIOUS
<1>2. DOMAIN Picked(rows, P) = 1 .. Cardinality(P)
  BY PickedRows
<1> QED
  BY <1>1, <1>2, NthOrder

-----------------------------------------------------------------------------
(* Sorting keeps the posts, *)
LEMMA AscendingRows ==
  ASSUME NEW rows \in Seq(Post)
  PROVE  /\ Ascending(rows) \in Seq(Post)
         /\ DOMAIN Ascending(rows) = DOMAIN rows
         /\ \A k \in DOMAIN rows :
              /\ Ascending(rows)[k] \in Queued(rows)
              /\ Cardinality(Before(DOMAIN rows, rows, Ascending(rows)[k])) < k
              /\ k <= Cardinality(Upto(DOMAIN rows, rows, Ascending(rows)[k]))
<1> DEFINE D == DOMAIN rows
           n == Len(rows)
           out == Ascending(rows)
<1>1. n \in Nat /\ D = 1 .. n /\ \A d \in D : rows[d] \in 1 .. NPosts
  <2>1. n \in Nat /\ D = 1 .. n /\ \A d \in D : rows[d] \in Post
    OBVIOUS
  <2> QED
    BY <2>1 DEF Post
<1>2. NPosts \in Nat
  BY NPostsAssumption
<1>3. IsFiniteSet(D) /\ Cardinality(D) = n
  <2> HIDE DEF D, n
  <2>1. IsFiniteSet(1 .. n) /\ Cardinality(1 .. n) = IF 1 > n THEN 0 ELSE n - 1 + 1
    BY <1>1, FS_Interval
  <2> QED
    BY <1>1, <2>1
<1>5. ASSUME NEW k \in D
      PROVE  \E v \in Queued(rows) : /\ Cardinality(Before(D, rows, v)) < k
                                     /\ k <= Cardinality(Upto(D, rows, v))
  <2>1. k \in 1 .. Cardinality(D)
    BY <1>1, <1>3, <1>5
  <2>2. PICK e \in D : /\ Cardinality(Before(D, rows, rows[e])) < k
                       /\ k <= Cardinality(Upto(D, rows, rows[e]))
    <3> HIDE DEF D
    <3> QED
      BY <1>1, <1>2, <1>3, <2>1, Jump
  <2> QED
    BY <2>2 DEF Queued
<1>6. out = [k \in D |-> CHOOSE v \in Queued(rows) : /\ Cardinality(Before(D, rows, v)) < k
                                                     /\ k <= Cardinality(Upto(D, rows, v))]
  BY Zenon DEF Ascending, Before, Upto
<1>7. \A k \in D : /\ out[k] \in Queued(rows)
                   /\ Cardinality(Before(D, rows, out[k])) < k
                   /\ k <= Cardinality(Upto(D, rows, out[k]))
  <2> HIDE DEF D, out
  <2> QED
    BY <1>5, <1>6
<1>8. Queued(rows) \subseteq Post
  BY DEF Queued
<1>9. out \in [1 .. n -> Post]
  <2> HIDE DEF D, out, n
  <2> QED
    BY <1>1, <1>6, <1>7, <1>8
<1>10. out \in Seq(Post) /\ DOMAIN out = D
  <2> HIDE DEF D, out, n
  <2> QED
    BY <1>1, <1>9, SequenceMade
<1> QED
  BY <1>7, <1>10

(* and puts the older ones first. *)
LEMMA AscendingSorted ==
  ASSUME NEW rows \in Seq(Post), NEW k \in DOMAIN rows, NEW l \in DOMAIN rows, k < l
  PROVE  Ascending(rows)[k] <= Ascending(rows)[l]
<1> DEFINE D == DOMAIN rows
           v == Ascending(rows)[k]
           w == Ascending(rows)[l]
<1>1. /\ v \in Queued(rows) /\ Cardinality(Before(D, rows, v)) < k
      /\ w \in Queued(rows) /\ l <= Cardinality(Upto(D, rows, w))
  BY AscendingRows
<1>2. v \in Nat /\ w \in Nat /\ k \in Nat /\ l \in Nat /\ \A d \in D : rows[d] \in Nat
  <2>1. \A d \in D : rows[d] \in Nat
    BY NPostsAssumption DEF Post
  <2>2. Queued(rows) \subseteq Nat
    BY <2>1 DEF Queued
  <2> QED
    BY <1>1, <2>1, <2>2
<1>3. IsFiniteSet(D)
  <2>1. Len(rows) \in Nat /\ D = 1 .. Len(rows)
    OBVIOUS
  <2> QED
    BY <2>1, FS_Interval
<1> HIDE DEF v, w, D
<1>4. ASSUME w < v PROVE FALSE
  <2>1. Upto(D, rows, w) \subseteq Before(D, rows, v)
    <3> SUFFICES ASSUME NEW d \in D, rows[d] <= w PROVE rows[d] < v
      BY DEF Upto, Before
    <3> QED
      BY <1>2, <1>4
  <2>2. IsFiniteSet(Before(D, rows, v))
    BY <1>3, Fewer DEF Before
  <2>3. Cardinality(Upto(D, rows, w)) <= Cardinality(Before(D, rows, v))
        /\ Cardinality(Upto(D, rows, w)) \in Nat /\ Cardinality(Before(D, rows, v)) \in Nat
    BY <2>1, <2>2, Fewer
  <2> QED
    BY <1>1, <1>2, <2>3
<1>5. v <= w
  BY <1>2, <1>4
<1> QED
  BY <1>5 DEF v, w

(* No post is lost. *)
LEMMA AscendingQueued ==
  ASSUME NEW rows \in Seq(Post)
  PROVE  Queued(Ascending(rows)) = Queued(rows)
<1> DEFINE D == DOMAIN rows
           out == Ascending(rows)
<1>1. /\ DOMAIN out = D
      /\ \A k \in D : /\ out[k] \in Queued(rows)
                      /\ Cardinality(Before(D, rows, out[k])) < k
                      /\ k <= Cardinality(Upto(D, rows, out[k]))
  BY AscendingRows
<1>2. Len(rows) \in Nat /\ D = 1 .. Len(rows)
  OBVIOUS
<1>3. IsFiniteSet(D) /\ Cardinality(D) = Len(rows)
  <2> HIDE DEF D
  <2>1. IsFiniteSet(1 .. Len(rows))
        /\ Cardinality(1 .. Len(rows)) = IF 1 > Len(rows) THEN 0 ELSE Len(rows) - 1 + 1
    BY <1>2, FS_Interval
  <2> QED
    BY <1>2, <2>1
<1>4. \A d \in D : rows[d] \in Nat
  BY NPostsAssumption DEF Post
<1>5. Queued(rows) = {rows[d] : d \in D}
  BY DEF Queued
<1> HIDE DEF D, out
<1>6. ASSUME NEW v, NEW w, v \in Nat, w \in Nat, v < w
      PROVE  /\ Upto(D, rows, v) \subseteq Before(D, rows, w)
             /\ Cardinality(Upto(D, rows, v)) <= Cardinality(Before(D, rows, w))
             /\ Cardinality(Upto(D, rows, v)) \in Nat /\ Cardinality(Before(D, rows, w)) \in Nat
  <2>1. Upto(D, rows, v) \subseteq Before(D, rows, w)
    <3> SUFFICES ASSUME NEW d \in D, rows[d] <= v PROVE rows[d] < w
      BY DEF Upto, Before
    <3> QED
      BY <1>4, <1>6
  <2>2. IsFiniteSet(Before(D, rows, w))
    BY <1>3, Fewer DEF Before
  <2> QED
    BY <2>1, <2>2, Fewer
<1>7. ASSUME NEW d \in D PROVE \E k \in D : out[k] = rows[d]
  <2> DEFINE v == rows[d]
             k == Cardinality(Upto(D, rows, v))
  <2>1. IsFiniteSet(Upto(D, rows, v)) /\ k \in Nat /\ k <= Len(rows)
    BY <1>3, Fewer DEF Upto
  <2>2. v \in Nat /\ d \in Upto(D, rows, v)
    BY <1>4, <1>7 DEF Upto
  <2>3. k # 0
    BY <2>1, <2>2, FS_EmptySet
  <2> HIDE DEF v
  <2>4. k \in D
    BY <1>2, <2>1, <2>3
  <2>5. /\ out[k] \in Nat
        /\ Cardinality(Before(D, rows, out[k])) < k
        /\ k <= Cardinality(Upto(D, rows, out[k]))
    BY <1>1, <1>4, <1>5, <2>4
  <2>6. Before(D, rows, v) \subseteq Upto(D, rows, v) /\ d \notin Before(D, rows, v)
    <3>1. \A e \in D : rows[e] < v => rows[e] <= v
      BY <1>4, <2>2
    <3>2. rows[d] = v
      BY DEF v
    <3> QED
      BY <1>4, <2>2, <3>1, <3>2 DEF Before, Upto
  <2>7. Cardinality(Before(D, rows, v)) < k /\ Cardinality(Before(D, rows, v)) \in Nat
    BY <2>1, <2>2, <2>6, Fewer
  <2>8. ASSUME out[k] < v PROVE FALSE
    <3>1. /\ Cardinality(Upto(D, rows, out[k])) <= Cardinality(Before(D, rows, v))
          /\ Cardinality(Upto(D, rows, out[k])) \in Nat
      BY <1>6, <2>2, <2>5, <2>8
    <3> HIDE DEF k
    <3> QED
      BY <2>1, <2>5, <2>7, <3>1
  <2>9. ASSUME v < out[k] PROVE FALSE
    <3>1. k <= Cardinality(Before(D, rows, out[k]))
          /\ Cardinality(Before(D, rows, out[k])) \in Nat
      BY <1>6, <2>2, <2>5, <2>9
    <3> HIDE DEF k
    <3> QED
      BY <2>1, <2>5, <3>1
  <2>10. out[k] = v
    BY <2>2, <2>5, <2>8, <2>9
  <2> QED
    BY <2>4, <2>10 DEF v
<1>8. {out[k] : k \in D} = Queued(rows)
  BY <1>1, <1>5, <1>7
<1> QED
  BY <1>1, <1>8 DEF Queued, out

-----------------------------------------------------------------------------
(* What is in a sequence put together, *)
LEMMA ConcatQueued ==
  ASSUME NEW S, NEW s \in Seq(S), NEW t \in Seq(S)
  PROVE  s \o t \in Seq(S) /\ Queued(s \o t) = Queued(s) \cup Queued(t)
<1>1. /\ s \o t \in Seq(S) /\ Len(s \o t) = Len(s) + Len(t)
      /\ \A i \in 1 .. Len(s) + Len(t) : (s \o t)[i] = IF i <= Len(s) THEN s[i] ELSE t[i - Len(s)]
  OBVIOUS
<1>2. ASSUME NEW i \in DOMAIN t PROVE (s \o t)[Len(s) + i] = t[i] /\ Len(s) + i \in DOMAIN (s \o t)
  BY <1>1, <1>2
<1>3. \A i \in DOMAIN s : (s \o t)[i] = s[i] /\ i \in DOMAIN (s \o t)
  BY <1>1
<1>4. ASSUME NEW i \in DOMAIN (s \o t) PROVE (s \o t)[i] \in Queued(s) \cup Queued(t)
  <2>1. CASE i <= Len(s)
    BY <1>1, <1>4, <2>1 DEF Queued
  <2>2. CASE ~ (i <= Len(s))
    <3>1. i - Len(s) \in DOMAIN t /\ (s \o t)[i] = t[i - Len(s)]
      BY <1>1, <1>4, <2>2
    <3> QED
      BY <3>1 DEF Queued
  <2> QED
    BY <2>1, <2>2
<1>5. Queued(s) \cup Queued(t) \subseteq Queued(s \o t)
  BY <1>2, <1>3 DEF Queued
<1>6. Queued(s \o t) \subseteq Queued(s) \cup Queued(t)
  BY <1>4 DEF Queued
<1> QED
  BY <1>1, <1>5, <1>6

(* and in its first n. *)
LEMMA PrefixQueued ==
  ASSUME NEW S, NEW s \in Seq(S), NEW n \in Nat, n <= Len(s)
  PROVE  SubSeq(s, 1, n) \in Seq(S) /\ Queued(SubSeq(s, 1, n)) = {s[i] : i \in 1 .. n}
<1>1. SubSeq(s, 1, n) \in Seq(S) /\ DOMAIN SubSeq(s, 1, n) = 1 .. n
      /\ \A i \in 1 .. n : SubSeq(s, 1, n)[i] = s[i]
  OBVIOUS
<1> QED
  BY <1>1 DEF Queued

(* An empty one holds nothing. *)
LEMMA NothingQueued == Queued(<<>>) = {}
BY DEF Queued

-----------------------------------------------------------------------------
(* The store's selections and the pages of the list. *)

(* What the index lacks. *)
LEMMA UnindexedRows ==
  ASSUME NEW rows \in Seq(Post)
  PROVE  Unindexed(rows) \in Seq(Post) /\ Queued(Unindexed(rows)) = Queued(rows) \ index
<1> DEFINE P == {i \in DOMAIN rows : rows[i] \notin index}
<1>1. P \subseteq DOMAIN rows /\ Unindexed(rows) = Picked(rows, P)
  BY DEF Unindexed
<1>2. {rows[i] : i \in P} = Queued(rows) \ index
  BY DEF Queued
<1> HIDE DEF P
<1>3. Picked(rows, P) \in Seq(Post) /\ Queued(Picked(rows, P)) = {rows[i] : i \in P}
  BY <1>1, PickedRows, PickedQueued
<1> QED
  BY <1>1, <1>2, <1>3

(* What has not been seen. *)
LEMMA FreshRowsRows ==
  ASSUME NEW rows \in Seq(Post)
  PROVE  FreshRows(rows) \in Seq(Post) /\ Queued(FreshRows(rows)) = Queued(rows) \ Seen
<1> DEFINE P == {i \in DOMAIN rows : rows[i] \notin Seen}
<1>1. P \subseteq DOMAIN rows /\ FreshRows(rows) = Picked(rows, P)
  BY DEF FreshRows
<1>2. {rows[i] : i \in P} = Queued(rows) \ Seen
  BY DEF Queued
<1> HIDE DEF P
<1>3. Picked(rows, P) \in Seq(Post) /\ Queued(Picked(rows, P)) = {rows[i] : i \in P}
  BY <1>1, PickedRows, PickedQueued
<1> QED
  BY <1>1, <1>2, <1>3

(* The first of equal rows stands for all of them. *)
LEMMA DedupedRows ==
  ASSUME NEW rows \in Seq(Post)
  PROVE  Deduped(rows) \in Seq(Post) /\ Queued(Deduped(rows)) = Queued(rows)
<1> DEFINE P == {i \in DOMAIN rows : \A j \in 1 .. i - 1 : rows[j] # rows[i]}
<1>1. P \subseteq DOMAIN rows /\ Deduped(rows) = Picked(rows, P)
  BY DEF Deduped
<1>2. ASSUME NEW d \in DOMAIN rows PROVE \E i \in P : rows[i] = rows[d]
  <2> DEFINE B == {i \in DOMAIN rows : rows[i] = rows[d]}
  <2>1. DOMAIN rows = 1 .. Len(rows) /\ Len(rows) \in Nat
    OBVIOUS
  <2>2. B \subseteq Nat /\ B # {}
    BY <1>2, <2>1
  <2>3. PICK i \in B : \A j \in B : i <= j
    <3> HIDE DEF B
    <3> QED
      BY <2>2, Least
  <2>4. \A j \in 1 .. i - 1 : j \in DOMAIN rows /\ ~ (i <= j)
    BY <2>1, <2>3
  <2>5. \A j \in 1 .. i - 1 : rows[j] # rows[d]
    BY <2>3, <2>4
  <2>6. i \in DOMAIN rows /\ rows[i] = rows[d]
    BY <2>3
  <2> QED
    BY <2>5, <2>6
<1>3. {rows[i] : i \in P} = Queued(rows)
  BY <1>1, <1>2 DEF Queued
<1> HIDE DEF P
<1>4. Picked(rows, P) \in Seq(Post) /\ Queued(Picked(rows, P)) = {rows[i] : i \in P}
  BY <1>1, PickedRows, PickedQueued
<1> QED
  BY <1>1, <1>3, <1>4

-----------------------------------------------------------------------------
(* How many pages there are. *)
LEMMA PageCount ==
  ASSUME NEW s \in Seq(Post)
  PROVE  /\ PagesIn(s) \in Nat
         /\ Len(s) <= PagesIn(s) * PageSize
         /\ PagesIn(s) * PageSize < Len(s) + PageSize
<1> DEFINE n == Len(s) + PageSize - 1
           q == n \div PageSize
<1>1. n \in Nat /\ PageSize \in Nat \ {0} /\ Len(s) \in Nat
  BY WebSyncAssumption
<1>2. n = Len(s) + PageSize - 1
  OBVIOUS
<1> HIDE DEF n
<1>3. q \in Nat /\ q * PageSize <= n /\ n < (q + 1) * PageSize
  BY <1>1
<1> HIDE DEF q
<1>4. (q + 1) * PageSize = q * PageSize + PageSize /\ q * PageSize \in Nat
  BY <1>1, <1>3
<1>5. PagesIn(s) = q
  BY <1>2 DEF PagesIn, q
<1> QED
  BY <1>1, <1>2, <1>3, <1>4, <1>5

(* A longer list has no fewer. *)
LEMMA PageCountMonotone ==
  ASSUME NEW s \in Seq(Post), NEW t \in Seq(Post), Len(s) <= Len(t)
  PROVE  PagesIn(s) <= PagesIn(t)
<1> DEFINE q == PagesIn(s)
           r == PagesIn(t)
<1>1. /\ q \in Nat /\ q * PageSize < Len(s) + PageSize
      /\ r \in Nat /\ Len(t) <= r * PageSize
      /\ PageSize \in Nat \ {0} /\ Len(s) \in Nat /\ Len(t) \in Nat
  BY PageCount, WebSyncAssumption
<1> HIDE DEF q, r
<1>2. ASSUME r + 1 <= q PROVE FALSE
  <2>1. (r + 1) * PageSize <= q * PageSize
    BY <1>1, <1>2
  <2>2. (r + 1) * PageSize = r * PageSize + PageSize /\ r * PageSize \in Nat /\ q * PageSize \in Nat
    BY <1>1
  <2> QED
    BY <1>1, <2>1, <2>2
<1>3. q <= r
  BY <1>1, <1>2
<1> QED
  BY <1>3 DEF q, r

(* The place after which page n begins. *)
Offset(n) == (n - 1) * PageSize

(* What page n is. *)
LEMMA PageRows ==
  ASSUME list \in Seq(Post), NEW n \in Nat, n >= 1
  PROVE  /\ Offset(n) \in Nat /\ n * PageSize = Offset(n) + PageSize
         /\ Page(n) \in Seq(Post)
         /\ Queued(Page(n)) = {list[i] : i \in {j \in DOMAIN list : Offset(n) < j /\ j <= Offset(n) + PageSize}}
         /\ n <= PagesIn(list) => /\ Offset(n) + 1 \in DOMAIN list
                                  /\ 1 \in DOMAIN Page(n)
                                  /\ Page(n)[1] = list[Offset(n) + 1]
<1> DEFINE L == Len(list)
           o == Offset(n)
           h == IF o + PageSize <= L THEN o + PageSize ELSE L
           s == SubSeq(list, o + 1, h)
<1>1. PageSize \in Nat /\ PageSize >= 1 /\ L \in Nat /\ DOMAIN list = 1 .. L
  BY WebSyncAssumption
<1>2. o \in Nat /\ n * PageSize = o + PageSize
  BY <1>1 DEF Offset
<1>3. Page(n) = s
  BY <1>2 DEF Page, Offset
<1> HIDE DEF L, o
<1>4. h \in Nat /\ h <= L
  BY <1>1, <1>2
<1>5. h <= o + PageSize
  BY <1>1, <1>2
<1>6. \A j : j \in o + 1 .. h <=> j \in 1 .. L /\ o < j /\ j <= o + PageSize
  BY <1>1, <1>2
<1> HIDE DEF h
<1>7. \A i \in o + 1 .. h : list[i] \in Post
  BY <1>1, <1>6
<1>8. /\ s \in Seq(Post) /\ Len(s) = IF o + 1 <= h THEN h - (o + 1) + 1 ELSE 0
      /\ \A i \in 1 .. h - (o + 1) + 1 : s[i] = list[(o + 1) + i - 1]
  <2>1. o + 1 \in Int /\ h \in Int
    BY <1>2, <1>4
  <2> QED
    BY <1>7, <2>1, SubSeqProperties
<1> HIDE DEF s
<1>9. \A i \in DOMAIN s : o + i \in o + 1 .. h /\ s[i] = list[o + i]
  BY <1>2, <1>4, <1>8
<1>10. \A j \in o + 1 .. h : j - o \in DOMAIN s /\ s[j - o] = list[j]
  BY <1>2, <1>4, <1>8
<1>11. Queued(s) = {list[j] : j \in o + 1 .. h}
  BY <1>9, <1>10 DEF Queued
<1>12. o + 1 .. h = {j \in DOMAIN list : o < j /\ j <= o + PageSize}
  BY <1>1, <1>6
<1>13. ASSUME n <= PagesIn(list)
       PROVE  o + 1 \in DOMAIN list /\ 1 \in DOMAIN s /\ s[1] = list[o + 1]
  <2> DEFINE q == PagesIn(list)
  <2>1. q \in Nat /\ q * PageSize < L + PageSize /\ n <= q
    BY <1>13, PageCount DEF L
  <2> HIDE DEF q
  <2>2. n * PageSize <= q * PageSize
    BY <1>1, <2>1
  <2>3. n * PageSize \in Nat /\ q * PageSize \in Nat
    BY <1>1, <2>1
  <2>4. o + 1 <= L
    BY <1>1, <1>2, <2>1, <2>2, <2>3
  <2>5. o + 1 \in o + 1 .. h
    BY <1>1, <1>2, <1>6, <2>4
  <2>6. (o + 1) - o = 1
    BY <1>2
  <2> QED
    BY <1>1, <1>2, <1>10, <1>12, <2>4, <2>5, <2>6
<1> QED
  BY <1>2, <1>3, <1>8, <1>11, <1>12, <1>13 DEF o

(* No post is on the list twice. *)
Distinct == \A i, j \in DOMAIN list : list[i] = list[j] => i = j

(* The list as it is after p came to its front. *)
Fronted(p) == <<p>> \o Picked(list, {i \in DOMAIN list : list[i] # p})

(* Nth of all places is the place itself, so all rows picked are the rows. *)
LEMMA AllPicked ==
  ASSUME NEW rows \in Seq(Post)
  PROVE  Picked(rows, DOMAIN rows) = rows
<1> DEFINE n == Len(rows)
           D == DOMAIN rows
<1>1. n \in Nat /\ D = 1 .. n /\ \A i \in 1 .. n : rows[i] \in Post
  OBVIOUS
<1>2. rows = [i \in 1 .. n |-> rows[i]]
  OBVIOUS
<1> HIDE DEF n, D
<1>3. IsFiniteSet(1 .. n) /\ Cardinality(1 .. n) = n
  <2>1. IsFiniteSet(1 .. n) /\ Cardinality(1 .. n) = IF 1 > n THEN 0 ELSE n - 1 + 1
    BY <1>1, FS_Interval
  <2> QED
    BY <1>1, <2>1
<1>4. ASSUME NEW k \in 1 .. n PROVE Nth(D, k) = k
  <2> DEFINE a == Nth(D, k)
  <2>1. a \in 1 .. n /\ Cardinality(NoLater(D, a)) = k
    BY <1>1, <1>3, <1>4, NthIn
  <2> HIDE DEF a
  <2>2. NoLater(D, a) = 1 .. a
    <3> SUFFICES ASSUME NEW j PROVE j \in NoLater(D, a) <=> j \in 1 .. a
      OBVIOUS
    <3> QED
      BY <1>1, <2>1 DEF NoLater
  <2>3. Cardinality(1 .. a) = IF 1 > a THEN 0 ELSE a - 1 + 1
    BY <1>1, <2>1, FS_Interval
  <2>4. a = k
    BY <1>1, <2>1, <2>2, <2>3
  <2> QED
    BY <2>4 DEF a
<1>5. Picked(rows, D) = [k \in 1 .. Cardinality(D) |-> rows[Nth(D, k)]]
  BY DEF Picked
<1>6. Picked(rows, D) = [k \in 1 .. n |-> rows[k]]
  BY <1>1, <1>3, <1>4, <1>5
<1> QED
  BY <1>2, <1>6 DEF D

(* A post that comes to the front leaves the others as they were. *)
LEMMA FrontedList ==
  ASSUME list \in Seq(Post), Distinct, NEW p \in Post
  PROVE  /\ Fronted(p) \in Seq(Post)
         /\ \A i, j \in DOMAIN Fronted(p) : Fronted(p)[i] = Fronted(p)[j] => i = j
         /\ Len(list) <= Len(Fronted(p))
         /\ Queued(Fronted(p)) = Listed \cup {p}
<1> DEFINE P == {i \in DOMAIN list : list[i] # p}
           rest == Picked(list, P)
           one == <<p>>
           out == one \o rest
           L == Len(list)
<1>0. P \subseteq DOMAIN list /\ L \in Nat /\ DOMAIN list = 1 .. L
  OBVIOUS
<1>1. /\ rest \in Seq(Post) /\ Len(rest) = Cardinality(P) /\ Cardinality(P) \in Nat
      /\ DOMAIN rest = 1 .. Cardinality(P)
      /\ \A k \in DOMAIN rest : Nth(P, k) \in P /\ rest[k] = list[Nth(P, k)]
  <2> HIDE DEF P
  <2> QED
    BY <1>0, PickedRows
<1>2. Queued(rest) = {list[i] : i \in P}
  <2> HIDE DEF P
  <2> QED
    BY <1>0, PickedQueued
<1>3. ASSUME NEW k \in DOMAIN rest, NEW l \in DOMAIN rest, k < l PROVE Nth(P, k) < Nth(P, l)
  <2> HIDE DEF P
  <2> QED
    BY <1>0, <1>3, PickedOrder
<1>4. ASSUME NEW k \in DOMAIN rest, NEW l \in DOMAIN rest, rest[k] = rest[l] PROVE k = l
  <2>1. Nth(P, k) = Nth(P, l)
    BY <1>1, <1>4 DEF Distinct
  <2>2. Nth(P, k) \in Int /\ Nth(P, l) \in Int
    BY <1>0, <1>1
  <2>3. ~ (k < l) /\ ~ (l < k)
    BY <1>3, <2>1, <2>2
  <2> QED
    BY <1>1, <2>3
<1>5. \A k \in DOMAIN rest : rest[k] # p
  BY <1>1
<1> HIDE DEF rest
<1>6. one \in Seq(Post) /\ Queued(one) = {p} /\ Len(one) = 1 /\ one[1] = p
  BY DEF Queued
<1> HIDE DEF one
<1>7. out \in Seq(Post) /\ Queued(out) = {p} \cup Queued(rest)
  BY <1>1, <1>6, ConcatQueued
<1>8. /\ Len(out) = Cardinality(P) + 1
      /\ out[1] = p
      /\ \A i \in DOMAIN out : i = 1 \/ (i - 1 \in DOMAIN rest /\ out[i] = rest[i - 1])
  <2> DEFINE c == Cardinality(P)
  <2>1. c \in Nat /\ Len(rest) = c /\ DOMAIN rest = 1 .. c
    BY <1>1
  <2> HIDE DEF c
  <2>2. /\ Len(out) = 1 + c
        /\ \A i \in 1 .. 1 + c : out[i] = IF i <= 1 THEN p ELSE rest[i - 1]
    <3>1. /\ Len(one \o rest) = Len(one) + Len(rest)
          /\ \A i \in 1 .. Len(one) + Len(rest) :
               (one \o rest)[i] = IF i <= Len(one) THEN one[i] ELSE rest[i - Len(one)]
      <4>1. one \in Seq(Post) /\ rest \in Seq(Post)
        BY <1>1, <1>6
      <4> QED
        BY <4>1, ConcatProperties, Zenon
    <3>2. out = one \o rest
      OBVIOUS
    <3> HIDE DEF out
    <3>3. Len(out) = 1 + c
      BY <1>6, <2>1, <3>1, <3>2
    <3>4. ASSUME NEW i \in 1 .. 1 + c PROVE out[i] = IF i <= 1 THEN p ELSE rest[i - 1]
      <4>1. out[i] = IF i <= 1 THEN one[i] ELSE rest[i - 1]
        BY <1>6, <2>1, <3>1, <3>2
      <4>2. i <= 1 => i = 1
        BY <2>1
      <4> QED
        BY <1>6, <4>1, <4>2
    <3> QED
      BY <3>3, <3>4
  <2>3. DOMAIN out = 1 .. 1 + c
    BY <1>7, <2>1, <2>2
  <2> HIDE DEF out
  <2>4. out[1] = p
    BY <2>1, <2>2
  <2>5. \A i \in DOMAIN out : i = 1 \/ (i - 1 \in DOMAIN rest /\ out[i] = rest[i - 1])
    BY <2>1, <2>2, <2>3
  <2>6. Len(out) = c + 1
    BY <2>1, <2>2
  <2> QED
    BY <2>4, <2>5, <2>6 DEF c
<1>9. L <= Cardinality(P) + 1
  <2>0. IsFiniteSet(1 .. L) /\ Cardinality(1 .. L) = L
    <3>1. IsFiniteSet(1 .. L) /\ Cardinality(1 .. L) = IF 1 > L THEN 0 ELSE L - 1 + 1
      BY <1>0, FS_Interval
    <3> QED
      BY <1>0, <3>1
  <2>1. CASE p \notin Listed
    <3>0. \A i \in DOMAIN list : list[i] # p
      BY <2>1 DEF Listed
    <3>1. P = DOMAIN list
      BY <3>0
    <3> HIDE DEF P, L
    <3> QED
      BY <1>0, <2>0, <3>1
  <2>2. CASE p \in Listed
    <3>1. PICK i \in DOMAIN list : list[i] = p
      BY <2>2 DEF Listed
    <3>2. P = (1 .. L) \ {i}
      BY <1>0, <3>1 DEF Distinct
    <3>3. Cardinality((1 .. L) \ {i}) = Cardinality(1 .. L) - 1
      BY <1>0, <2>0, <3>1, FS_RemoveElement
    <3> HIDE DEF P, L
    <3> QED
      BY <1>0, <2>0, <3>2, <3>3
  <2> QED
    BY <2>1, <2>2
<1>10. {p} \cup Queued(rest) = Listed \cup {p}
  BY <1>2 DEF Listed
<1>11. \A i, j \in DOMAIN out : out[i] = out[j] => i = j
  <2> SUFFICES ASSUME NEW i \in DOMAIN out, NEW j \in DOMAIN out, out[i] = out[j] PROVE i = j
    OBVIOUS
  <2>1. i \in Nat /\ j \in Nat
    BY <1>7
  <2> HIDE DEF out
  <2>2. CASE i = 1 \/ j = 1
    BY <1>5, <1>8, <2>2
  <2>3. CASE i # 1 /\ j # 1
    <3>1. i - 1 \in DOMAIN rest /\ j - 1 \in DOMAIN rest /\ rest[i - 1] = rest[j - 1]
      BY <1>8, <2>3
    <3>2. i - 1 = j - 1
      BY <1>4, <3>1
    <3> QED
      BY <2>1, <3>2
  <2> QED
    BY <2>2, <2>3
<1>12. Fronted(p) = out
  BY DEF Fronted, rest, one
<1> HIDE DEF out, P
<1> QED
  BY <1>7, <1>8, <1>9, <1>10, <1>11, <1>12

-----------------------------------------------------------------------------
(* The windows of drain. *)

(* No more texts underway than workers, no more articles than the limit. *)
Windows ==
  /\ next \in Nat
  /\ IsFiniteSet(net) /\ IsFiniteSet(img)
  /\ Cardinality(net) <= Workers
  /\ Cardinality(net) + Cardinality(img) <= (ASSET_BACKLOG + 1) * Workers

-----------------------------------------------------------------------------
(* The parameters are numbers. *)
LEMMA Parameters ==
  Workers \in Nat \ {0} /\ ASSET_BACKLOG \in Nat \ {0} /\ (ASSET_BACKLOG + 1) * Workers \in Nat
  /\ (ASSET_BACKLOG + 1) * Workers = ASSET_BACKLOG * Workers + Workers
  /\ ASSET_BACKLOG * Workers \in Nat
BY WebSyncAssumption

(* The text pool is filled up to its workers, and only while there is room *)
(* behind it.                                                              *)
LEMMA RoomBound ==
  ASSUME NEW f \in Nat, NEW b \in Nat, f <= Workers
  PROVE  /\ Room(f, b) \in Nat
         /\ f + Room(f, b) <= Workers
         /\ Room(f, b) # 0 => b < ASSET_BACKLOG * Workers
BY Parameters DEF Room

(* A union of finite sets is finite and no larger than both together. *)
LEMMA UnionBound ==
  ASSUME NEW S, NEW T, IsFiniteSet(S), IsFiniteSet(T)
  PROVE  /\ IsFiniteSet(S \cup T) /\ Cardinality(S \cup T) \in Nat
         /\ Cardinality(S \cup T) <= Cardinality(S) + Cardinality(T)
<1>1. IsFiniteSet(S \cap T)
  BY FS_Subset
<1>2. IsFiniteSet(S \cup T)
      /\ Cardinality(S \cup T) = Cardinality(S) + Cardinality(T) - Cardinality(S \cap T)
  BY FS_Union
<1>3. /\ Cardinality(S) \in Nat /\ Cardinality(T) \in Nat
      /\ Cardinality(S \cap T) \in Nat /\ Cardinality(S \cup T) \in Nat
  BY <1>1, <1>2, FS_CardinalityType
<1> QED
  BY <1>2, <1>3

(* The n places after the first g are n. *)
LEMMA PlacesCount ==
  ASSUME NEW g \in Nat, NEW n \in Nat
  PROVE  IsFiniteSet(g + 1 .. g + n) /\ Cardinality(g + 1 .. g + n) = n
<1> DEFINE a == g + 1
           b == g + n
<1>1. a \in Int /\ b \in Int /\ (a > b => n = 0) /\ (~(a > b) => b - a + 1 = n)
  OBVIOUS
<1> HIDE DEF a, b
<1>2. IsFiniteSet(a .. b) /\ Cardinality(a .. b) = IF a > b THEN 0 ELSE b - a + 1
  BY <1>1, FS_Interval
<1>3. IsFiniteSet(a .. b) /\ Cardinality(a .. b) = n
  BY <1>1, <1>2
<1> QED
  BY <1>3 DEF a, b

(* refill keeps both windows. *)
LEMMA RefillKeepsWindows ==
  ASSUME NEW places, NEW given \in Nat, NEW n1, NEW i1,
         IsFiniteSet(n1), IsFiniteSet(i1),
         Cardinality(n1) <= Workers,
         Cardinality(n1) + Cardinality(i1) <= (ASSET_BACKLOG + 1) * Workers,
         Refill(places, given, n1, i1)
  PROVE  Windows'
<1> DEFINE room == Room(Cardinality(n1), Cardinality(i1))
           fresh == (given + 1 .. given + room) \cap places
<1>0. Cardinality(n1) \in Nat /\ Cardinality(i1) \in Nat
  BY FS_CardinalityType
<1>1. /\ room \in Nat /\ Cardinality(n1) + room <= Workers
      /\ room # 0 => Cardinality(i1) < ASSET_BACKLOG * Workers
  BY <1>0, RoomBound
<1>2. IsFiniteSet(fresh) /\ Cardinality(fresh) \in Nat /\ Cardinality(fresh) <= room
  <2>1. IsFiniteSet(given + 1 .. given + room) /\ Cardinality(given + 1 .. given + room) = room
    BY <1>1, PlacesCount
  <2> QED
    BY <2>1, FS_Subset, FS_CardinalityType
<1>3. next' = given + Cardinality(fresh) /\ net' = n1 \cup fresh /\ img' = i1
  BY DEF Refill
<1> HIDE DEF room, fresh
<1>4. IsFiniteSet(n1 \cup fresh) /\ Cardinality(n1 \cup fresh) <= Cardinality(n1) + Cardinality(fresh)
  BY <1>2, UnionBound
<1>5. Cardinality(net') \in Nat
  BY <1>3, <1>4, FS_CardinalityType
<1> QED
  BY <1>0, <1>1, <1>2, <1>3, <1>4, <1>5, Parameters DEF Windows

(* So does what follows a future that is done. *)
LEMMA AfterOneKeepsWindows ==
  ASSUME next \in Nat, NEW n1, NEW i1,
         IsFiniteSet(n1), IsFiniteSet(i1),
         Cardinality(n1) <= Workers,
         Cardinality(n1) + Cardinality(i1) <= (ASSET_BACKLOG + 1) * Workers,
         AfterOne(n1, i1)
  PROVE  Windows'
BY RefillKeepsWindows DEF AfterOne, Windows

(* With nothing in flight there is nothing to bound. *)
LEMMA NoneInFlight ==
  IsFiniteSet({}) /\ Cardinality({}) = 0 /\ Cardinality({}) <= Workers
  /\ Cardinality({}) + Cardinality({}) <= (ASSET_BACKLOG + 1) * Workers
BY FS_EmptySet, Parameters

(* The end of the process empties both windows. *)
LEMMA ExitWindows == NoDraining => Windows'
BY NoneInFlight DEF NoDraining, Windows

-----------------------------------------------------------------------------
(* The steps of drain that move an entry between the windows. *)
LEMMA DrainWindows ==
  ASSUME Windows, Drain
  PROVE  Windows'
<1>0. /\ next \in Nat /\ IsFiniteSet(net) /\ IsFiniteSet(img)
      /\ Cardinality(net) \in Nat /\ Cardinality(img) \in Nat
  BY FS_CardinalityType DEF Windows
<1>1. CASE StartDrain
  BY <1>1, NoneInFlight, RefillKeepsWindows DEF StartDrain
<1>2. CASE NothingToDo
  BY <1>2 DEF NothingToDo, draining, Windows
<1>3. CASE EndDrain
  BY <1>3, ExitWindows DEF EndDrain, Exit
<1>4. CASE Staged
  BY <1>4 DEF Staged, draining, Windows
<1>5. CASE Indexed
  <2>1. IsFiniteSet(img \ {cur}) /\ Cardinality(img \ {cur}) <= Cardinality(img)
        /\ Cardinality(img \ {cur}) \in Nat
    BY <1>0, FS_Subset, FS_CardinalityType
  <2> QED
    BY <1>0, <1>5, <2>1, AfterOneKeepsWindows, Parameters DEF Indexed, Windows
<1>6. ASSUME NEW p \in Post, NetGot(p) PROVE Windows'
  <2>1. PICK i \in net : AfterOne(net \ {i}, img \cup {i})
    BY <1>6 DEF NetGot
  <2>2. IsFiniteSet(net \ {i}) /\ Cardinality(net \ {i}) = Cardinality(net) - 1
    BY <1>0, FS_RemoveElement
  <2>3. IsFiniteSet(img \cup {i}) /\ Cardinality(img \cup {i}) <= Cardinality(img) + 1
        /\ Cardinality(img \cup {i}) \in Nat
    <3>1. /\ IsFiniteSet(img \cup {i})
          /\ \/ Cardinality(img \cup {i}) = Cardinality(img)
             \/ Cardinality(img \cup {i}) = Cardinality(img) + 1
      BY <1>0, FS_AddElement
    <3> QED
      BY <1>0, <3>1
  <2> QED
    BY <1>0, <2>1, <2>2, <2>3, AfterOneKeepsWindows, Parameters DEF Windows
<1>7. ASSUME NEW p \in Post, ImgGot(p) PROVE Windows'
  BY <1>7, ExitWindows DEF ImgGot, Exit, Windows
<1>8. ASSUME NEW i \in 1 .. Len(queue), Hole(i) PROVE Windows'
  <2>1. CASE NoDraining
    BY <2>1, ExitWindows
  <2>2. CASE AfterOne(net \ {i}, img \ {i})
    <3>1. /\ IsFiniteSet(net \ {i}) /\ Cardinality(net \ {i}) <= Cardinality(net)
          /\ IsFiniteSet(img \ {i}) /\ Cardinality(img \ {i}) <= Cardinality(img)
          /\ Cardinality(net \ {i}) \in Nat /\ Cardinality(img \ {i}) \in Nat
      BY <1>0, FS_Subset, FS_CardinalityType
    <3> QED
      BY <1>0, <2>2, <3>1, AfterOneKeepsWindows, Parameters DEF Windows
  <2> QED
    BY <1>8, <2>1, <2>2 DEF Hole, Exit
<1> QED
  BY <1>1, <1>2, <1>3, <1>4, <1>5, <1>6, <1>7, <1>8 DEF Drain, CommitStep

(* Every other step leaves drain's variables alone or ends the process. *)
LEMMA NextWindows == ASSUME Windows, [Next]_vars PROVE Windows'
<1>1. CASE Drain
  BY <1>1, DrainWindows
<1>2. CASE Crash \/ CrashInAppend
  BY <1>2, ExitWindows DEF Crash, CrashInAppend, Exit
<1>3. CASE UNCHANGED draining
  BY <1>3 DEF draining, Windows
<1>4. ASSUME NEW p \in Post, ToFront(p) PROVE UNCHANGED draining
  BY <1>4 DEF ToFront
<1>5. CASE Open
  BY <1>3, <1>5 DEF Open
<1>6. CASE Discover
  BY <1>3, <1>6 DEF Discover, StartDeep, Locate, ScanPage, MarkPage, FinishDeep, StartShallow,
                    ReadPage, Enqueue
<1>7. CASE UNCHANGED vars \/ MendedByHand
  BY <1>3, <1>7 DEF vars, MendedByHand
<1> QED
  BY <1>1, <1>2, <1>3, <1>4, <1>5, <1>6, <1>7 DEF Next

(* The two windows hold in every reachable state. *)
THEOREM WindowsKept == Spec => []Windows
<1>1. Init => Windows
  BY NoneInFlight DEF Init, Windows
<1> QED
  BY <1>1, NextWindows, PTL DEF Spec

(* At most (ASSET_BACKLOG + 1) * workers articles are in memory, whatever  *)
(* the order in which texts and images arrive.                             *)
THEOREM BoundedMemory == Spec => []MemoryBound
<1>1. Windows => MemoryBound
  <2> SUFFICES ASSUME Windows PROVE MemoryBound
    OBVIOUS
  <2>1. Cardinality(net \cup img) <= Cardinality(net) + Cardinality(img)
    BY UnionBound DEF Windows
  <2>2. Cardinality(net) \in Nat /\ Cardinality(img) \in Nat /\ Cardinality(net \cup img) \in Nat
    BY FS_Union, FS_CardinalityType DEF Windows
  <2> QED
    BY <2>1, <2>2, Parameters DEF Windows, MemoryBound
<1> QED
  BY <1>1, WindowsKept, PTL

-----------------------------------------------------------------------------
(* The index is written after the directory, and orphans are removed by    *)
(* looking at the index.                                                   *)
LEMMA NextSound == ASSUME IndexSound, [Next]_vars PROVE IndexSound'
<1>1. CASE Open
  BY <1>1 DEF Open, OpenStore, IndexSound
<1>2. CASE Staged
  BY <1>2 DEF Staged, PutDirectory, IndexSound
<1>3. CASE Indexed
  BY <1>3 DEF Indexed, AppendIndex, IndexSound
<1>4. CASE UNCHANGED <<index, dirs>>
  BY <1>4 DEF IndexSound
<1>5. CASE Discover
  BY <1>4, <1>5 DEF Discover, StartDeep, Locate, ScanPage, MarkPage, FinishDeep, StartShallow,
       ReadPage, Enqueue, AddPending, SetProgress, SetDeepDone, storeVars, files
<1>6. CASE StartDrain \/ NothingToDo \/ EndDrain
  BY <1>4, <1>6 DEF StartDrain, NothingToDo, EndDrain, CompactPending, storeVars, files
<1>7. ASSUME NEW p \in Post, NetGot(p) \/ ImgGot(p) PROVE IndexSound'
  BY <1>4, <1>7 DEF NetGot, ImgGot, storeVars, files
<1>8. ASSUME NEW i \in 1 .. Len(queue), Hole(i) PROVE IndexSound'
  BY <1>4, <1>8 DEF Hole, storeVars, files
<1>9. CASE Crash \/ CrashInAppend
  BY <1>4, <1>9 DEF Crash, CrashInAppend, AddPendingInPart, files
<1>10. ASSUME NEW p \in Post, ToFront(p) PROVE IndexSound'
  BY <1>4, <1>10 DEF ToFront, storeVars, files
<1>11. CASE UNCHANGED vars \/ MendedByHand
  BY <1>4, <1>11 DEF vars, MendedByHand, storeVars, files
<1> QED
  BY <1>1, <1>2, <1>3, <1>5, <1>6, <1>7, <1>8, <1>9, <1>10, <1>11 DEF Next, Drain, CommitStep

(* Every post the index calls cached has its directory, at every instant   *)
(* and after every death.                                                  *)
THEOREM IndexedHaveDirectories == Spec => []IndexSound
<1>1. Init => IndexSound
  BY DEF Init, StoreInit, IndexSound
<1> QED
  BY <1>1, NextSound, PTL DEF Spec

-----------------------------------------------------------------------------
(* What the variables range over. *)

(* What the variables range over, part by part. *)
StoreType ==
  /\ index \subseteq Post /\ dirs \subseteq Post
  /\ pend \in Seq(Post) /\ mem \in Seq(Post)
  /\ torn \in BOOLEAN /\ deep_done \in BOOLEAN
  /\ deep_page \in Nat /\ deep_anchor \in Post \cup {NoAnchor}

ForumType == list \in Seq(Post) /\ Distinct /\ touches \in Nat

PagingType ==
  /\ page \in Nat /\ total \in Nat /\ quiet \in Nat
  /\ anchor \in Post \cup {NoAnchor} /\ front \in Post \cup {NoAnchor}
  /\ found \in Seq(Post)

(* The pages that a scan is to read are there; a list never gets shorter.  *)
Reach ==
  /\ total <= PagesIn(list) /\ deep_page <= PagesIn(list)
  /\ phase \in {"locate", "deep", "mark"} => page <= PagesIn(list)
  /\ phase \in {"locate", "mark", "shallow"} => page >= 1
  /\ deep_anchor # NoAnchor => deep_page >= 1

DrainType ==
  /\ queue \in Seq(Post) /\ next \in Nat /\ next <= Len(queue)
  /\ net \subseteq 1 .. next /\ img \subseteq 1 .. next /\ net \cap img = {}
  /\ cur \in img \cup {0}
  /\ streak \in Nat /\ streak < HOLE_STREAK * Workers

CountType ==
  /\ phase \in PhaseNames
  /\ crashes \in 0 .. MaxCrashes
  /\ pushed \in Nat /\ owed \in Nat

Types == StoreType /\ ForumType /\ PagingType /\ Reach /\ DrainType /\ CountType

-----------------------------------------------------------------------------
(* The store. *)

(* Rows added at the end. *)
LEMMA AddPendingStore ==
  ASSUME StoreType, NEW rows \in Seq(Post), AddPending(rows)
  PROVE  StoreType'
<1>1. FreshRows(rows) \in Seq(Post)
  BY FreshRowsRows
<1>2. pend \o FreshRows(rows) \in Seq(Post) /\ mem \o FreshRows(rows) \in Seq(Post)
  BY <1>1, ConcatQueued DEF StoreType
<1> QED
  BY <1>2 DEF StoreType, AddPending

(* Some of them, by a process that dies. *)
LEMMA AddPendingInPartStore ==
  ASSUME StoreType, NEW rows \in Seq(Post), NEW n \in Nat, NEW partial \in BOOLEAN,
         AddPendingInPart(rows, n, partial), mem' = <<>>
  PROVE  StoreType'
<1>1. FreshRows(rows) \in Seq(Post)
  BY FreshRowsRows
<1>2. SubSeq(FreshRows(rows), 1, n) \in Seq(Post)
  <2>1. n <= Len(FreshRows(rows))
    BY <1>1 DEF AddPendingInPart
  <2> QED
    BY <1>1, <2>1, PrefixQueued
<1>3. pend \o SubSeq(FreshRows(rows), 1, n) \in Seq(Post)
  BY <1>2, ConcatQueued DEF StoreType
<1>4. pend' \in Seq(Post)
  BY <1>3 DEF AddPendingInPart
<1>5. <<>> \in Seq(Post)
  OBVIOUS
<1> QED
  BY <1>4, <1>5 DEF StoreType, AddPendingInPart

(* The page to read is a page of posts, sorted or not. *)
LEMMA PageType ==
  ASSUME ForumType, page \in Nat, page >= 1
  PROVE  Page(page) \in Seq(Post) /\ Ascending(Page(page)) \in Seq(Post)
<1>1. Page(page) \in Seq(Post)
  BY PageRows DEF ForumType
<1> QED
  BY <1>1, AscendingRows

(* One step of the store, whoever takes it. *)
LEMMA NextStore ==
  ASSUME Types, [Next]_vars
  PROVE  StoreType'
<1>0. CASE UNCHANGED storeVars
  BY <1>0 DEF Types, StoreType, storeVars, files
<1>x. <<>> \in Seq(Post)
  OBVIOUS
<1>y. CASE UNCHANGED files /\ mem' = <<>>
  BY <1>y, <1>x DEF Types, StoreType, files
<1>1. CASE Open
  <2>1. Unindexed(pend) \in Seq(Post)
    BY UnindexedRows DEF Types, StoreType
  <2>2. mem' \in Seq(Post)
    BY <1>1, <2>1, DedupedRows DEF Open, OpenStore
  <2> QED
    BY <1>1, <2>2 DEF Open, OpenStore, Types, StoreType
<1>2. CASE ScanPage
  <2>1. Ascending(Page(page)) \in Seq(Post)
    BY <1>2, PageType DEF ScanPage, Types, PagingType
  <2> QED
    BY <1>2, <2>1, AddPendingStore DEF ScanPage, Types
<1>3. CASE MarkPage
  <2>1. page \in Nat /\ front \in Post \cup {NoAnchor}
    BY DEF Types, PagingType
  <2> QED
    BY <1>3, <2>1 DEF MarkPage, SetProgress, Types, StoreType
<1>4. CASE FinishDeep
  BY <1>4 DEF FinishDeep, SetDeepDone, Types, StoreType
<1>5. CASE Enqueue
  <2>1. Ascending(found) \in Seq(Post)
    BY AscendingRows DEF Types, PagingType
  <2> QED
    BY <1>5, <2>1, AddPendingStore DEF Enqueue, Types
<1>6. CASE NothingToDo
  BY <1>6, <1>y DEF NothingToDo
<1>7. ASSUME NEW p \in Post, ImgGot(p) PROVE StoreType'
  BY <1>7, <1>0, <1>y DEF ImgGot, Exit, storeVars
<1>8. ASSUME NEW i \in 1 .. Len(queue), Hole(i) PROVE StoreType'
  BY <1>8, <1>0, <1>y DEF Hole, Exit
<1>9. CASE Staged \/ Indexed
  <2>1. cur \in DOMAIN queue
    BY <1>9 DEF Staged, Indexed, Types, DrainType
  <2>2. queue[cur] \in Post
    BY <2>1 DEF Types, DrainType
  <2> QED
    BY <1>9, <2>2 DEF Staged, Indexed, PutDirectory, AppendIndex, Types, StoreType
<1>10. CASE EndDrain
  <2>1. Unindexed(mem) \in Seq(Post)
    BY UnindexedRows DEF Types, StoreType
  <2> QED
    BY <1>10, <1>x, <2>1 DEF EndDrain, CompactPending, Exit, Types, StoreType
<1>11. CASE Crash
  BY <1>11, <1>y DEF Crash, Exit
<1>12. CASE CrashInAppend
  <2>1. PICK partial \in BOOLEAN :
          \/ /\ phase = "deep" /\ page >= 1
             /\ \E n \in 0 .. NPosts : AddPendingInPart(Ascending(Page(page)), n, partial)
          \/ /\ phase = "enqueue"
             /\ \E n \in 0 .. 2 * NPosts : AddPendingInPart(Ascending(found), n, partial)
          \/ /\ torn' = TRUE
             /\ UNCHANGED <<index, pend, dirs, deep_done, deep_page, deep_anchor>>
    BY <1>12 DEF CrashInAppend
  <2>2. mem' = <<>>
    BY <1>12 DEF CrashInAppend, Exit
  <2>3. CASE /\ phase = "deep" /\ page >= 1
             /\ \E n \in 0 .. NPosts : AddPendingInPart(Ascending(Page(page)), n, partial)
    <3>1. PICK n \in 0 .. NPosts : AddPendingInPart(Ascending(Page(page)), n, partial)
      BY <2>3
    <3>2. n \in Nat
      OBVIOUS
    <3>3. Ascending(Page(page)) \in Seq(Post)
      BY <2>3, PageType DEF Types, PagingType
    <3> QED
      BY <2>2, <3>1, <3>2, <3>3, AddPendingInPartStore DEF Types
  <2>4. CASE \E n \in 0 .. 2 * NPosts : AddPendingInPart(Ascending(found), n, partial)
    <3>1. PICK n \in 0 .. 2 * NPosts : AddPendingInPart(Ascending(found), n, partial)
      BY <2>4
    <3>2. n \in Nat
      OBVIOUS
    <3>3. Ascending(found) \in Seq(Post)
      BY AscendingRows DEF Types, PagingType
    <3> QED
      BY <2>2, <3>1, <3>2, <3>3, AddPendingInPartStore DEF Types
  <2>5. CASE /\ torn' = TRUE
             /\ UNCHANGED <<index, pend, dirs, deep_done, deep_page, deep_anchor>>
    BY <1>x, <2>2, <2>5 DEF Types, StoreType
  <2> QED
    BY <2>1, <2>3, <2>4, <2>5
<1>13. ASSUME NEW p \in Post, ToFront(p) \/ NetGot(p) PROVE StoreType'
  BY <1>13, <1>0 DEF ToFront, NetGot
<1>14. CASE StartDeep(FALSE) \/ StartDeep(TRUE) \/ Locate \/ StartShallow \/ ReadPage \/ StartDrain
  BY <1>14, <1>0 DEF StartDeep, Locate, StartShallow, ReadPage, StartDrain
<1>15. CASE UNCHANGED vars
  BY <1>15, <1>0 DEF vars
<1>16. CASE MendedByHand
  BY <1>16 DEF MendedByHand, Types, StoreType
<1> QED
  BY <1>1, <1>2, <1>3, <1>4, <1>5, <1>6, <1>7, <1>8, <1>9, <1>10, <1>11, <1>12, <1>13, <1>14, <1>15, <1>16
     DEF Next, Discover, Drain, CommitStep

-----------------------------------------------------------------------------
(* The forum: only a post that comes to the front changes the list, and    *)
(* the list gets no shorter.                                               *)
LEMMA NextForum ==
  ASSUME Types, [Next]_vars
  PROVE  ForumType' /\ Len(list) <= Len(list') /\ PagesIn(list) <= PagesIn(list')
<1>1. list \in Seq(Post) /\ Distinct /\ touches \in Nat /\ Len(list) \in Nat
  BY DEF Types, ForumType
<1>2. ASSUME NEW p \in Post, ToFront(p) PROVE ForumType' /\ Len(list) <= Len(list')
  <2>1. list' = Fronted(p) /\ touches' = touches + 1
    BY <1>2 DEF ToFront, Fronted
  <2>2. /\ Fronted(p) \in Seq(Post)
        /\ \A i, j \in DOMAIN Fronted(p) : Fronted(p)[i] = Fronted(p)[j] => i = j
        /\ Len(list) <= Len(Fronted(p))
    BY <1>1, FrontedList
  <2> QED
    BY <1>1, <2>1, <2>2 DEF ForumType, Distinct
<1>3. ASSUME UNCHANGED environment PROVE ForumType' /\ Len(list) <= Len(list')
  <2>1. list' = list /\ touches' = touches
    BY <1>3 DEF environment
  <2>2. Len(list) <= Len(list')
    BY <1>1, <2>1
  <2> QED
    BY <1>1, <2>1, <2>2 DEF ForumType, Distinct
<1>4. ForumType' /\ Len(list) <= Len(list')
  <2>1. CASE Open \/ Discover \/ Drain \/ Crash \/ CrashInAppend
    <3>1. Discover => UNCHANGED environment
      BY DEF Discover, StartDeep, Locate, ScanPage, MarkPage, FinishDeep, StartShallow, ReadPage,
             Enqueue
    <3>2. Drain => UNCHANGED environment
      BY DEF Drain, StartDrain, NothingToDo, EndDrain, CommitStep, Staged, Indexed, NetGot, ImgGot,
             Hole
    <3> QED
      BY <1>3, <2>1, <3>1, <3>2 DEF Open, Crash, CrashInAppend
  <2>2. CASE UNCHANGED vars \/ MendedByHand
    BY <1>3, <2>2 DEF vars, MendedByHand
  <2>3. CASE \E p \in Post : ToFront(p)
    BY <1>2, <2>3
  <2> QED
    BY <2>1, <2>2, <2>3, Zenon DEF Next
<1>5. PagesIn(list) <= PagesIn(list')
  <2>1. list' \in Seq(Post)
    BY <1>4 DEF ForumType
  <2> QED
    BY <1>1, <1>4, <2>1, PageCountMonotone
<1> QED
  BY <1>4, <1>5

(* A step that does not page: its phase is none of discover's, or nothing  *)
(* of discover's state changes.                                            *)
LEMMA NotPaging ==
  ASSUME Types, PagesIn(list) <= PagesIn(list'), PagesIn(list') \in Nat,
         deep_page' = deep_page, deep_anchor' = deep_anchor,
         \/ UNCHANGED <<phase, paging>>
         \/ /\ phase' \notin {"locate", "deep", "mark", "shallow"}
            /\ UNCHANGED paging \/ NoPaging
  PROVE  PagingType' /\ Reach'
<1>1. PagesIn(list) \in Nat
  BY PageCount DEF Types, ForumType
<1>2. <<>> \in Seq(Post)
  OBVIOUS
<1>3. CASE UNCHANGED <<phase, paging>>
  BY <1>1, <1>3 DEF Types, PagingType, Reach, StoreType, paging
<1>4. CASE phase' \notin {"locate", "deep", "mark", "shallow"} /\ UNCHANGED paging
  BY <1>1, <1>4 DEF Types, PagingType, Reach, StoreType, paging
<1>5. CASE phase' \notin {"locate", "deep", "mark", "shallow"} /\ NoPaging
  BY <1>1, <1>2, <1>5 DEF Types, PagingType, Reach, StoreType, NoPaging
<1> QED
  BY <1>3, <1>4, <1>5

(* Where discover is. *)
LEMMA NextPaging ==
  ASSUME Types, [Next]_vars
  PROVE  PagingType' /\ Reach'
<1> DEFINE n == PagesIn(list)
<1>0. /\ n <= PagesIn(list') /\ n \in Nat /\ PagesIn(list') \in Nat
      /\ list' \in Seq(Post)
  <2>1. ForumType' /\ n <= PagesIn(list')
    BY NextForum
  <2>2. list \in Seq(Post) /\ list' \in Seq(Post)
    BY <2>1 DEF Types, ForumType
  <2> QED
    BY <2>1, <2>2, PageCount
<1>x. /\ page \in Nat /\ total \in Nat /\ quiet \in Nat /\ found \in Seq(Post)
      /\ anchor \in Post \cup {NoAnchor} /\ front \in Post \cup {NoAnchor}
      /\ deep_page \in Nat /\ deep_anchor \in Post \cup {NoAnchor}
      /\ total <= n /\ deep_page <= n
  BY DEF Types, PagingType, StoreType, Reach
<1>1. ASSUME NEW forced, StartDeep(forced) PROVE PagingType' /\ Reach'
  <2>1. list' = list /\ UNCHANGED <<deep_page, deep_anchor, front, found, quiet>> /\ total' = n
    BY <1>1 DEF StartDeep, storeVars, files, environment
  <2>2. CASE phase' = "deep" /\ page' = n /\ anchor' = NoAnchor
    BY <1>0, <1>x, <2>1, <2>2 DEF PagingType, Reach, Types
  <2>3. CASE phase' = "locate" /\ page' = deep_page /\ anchor' = deep_anchor /\ deep_anchor # NoAnchor
    BY <1>0, <1>x, <2>1, <2>3 DEF PagingType, Reach, Types
  <2> QED
    BY <1>1, <2>2, <2>3 DEF StartDeep
<1>2. CASE Locate
  <2>1. /\ list' = list
        /\ UNCHANGED <<deep_page, deep_anchor, total, anchor, front, found, quiet>>
    BY <1>2 DEF Locate, storeVars, files, environment
  <2>2. page >= 1 /\ page <= n
    BY <1>2 DEF Locate, Types, Reach
  <2>3. LastLocatePage <= total /\ LastLocatePage \in Nat
    BY <1>x, WebSyncAssumption DEF LastLocatePage
  <2>4. CASE page' = page /\ phase' = "deep"
    BY <1>0, <1>x, <2>1, <2>2, <2>4 DEF PagingType, Reach, Types
  <2>5. CASE page' = page + 1 /\ phase' = "locate" /\ page < LastLocatePage
    BY <1>0, <1>x, <2>1, <2>2, <2>3, <2>5 DEF PagingType, Reach, Types
  <2>6. CASE page' = total /\ phase' = "deep"
    BY <1>0, <1>x, <2>1, <2>2, <2>6 DEF PagingType, Reach, Types
  <2> QED
    BY <1>2, <2>4, <2>5, <2>6 DEF Locate, Resume
<1>3. CASE ScanPage
  <2>1. /\ list' = list
        /\ UNCHANGED <<deep_page, deep_anchor, page, total, anchor, found, quiet>>
        /\ phase' = "mark" /\ front' = Page(page)[1] /\ page >= 1
    BY <1>3 DEF ScanPage, AddPending, environment
  <2>2. page <= n
    BY <1>3 DEF ScanPage, Types, Reach
  <2>3. 1 \in DOMAIN Page(page) /\ Page(page) \in Seq(Post)
    BY <1>x, <2>1, <2>2, PageRows DEF Types, ForumType
  <2>4. front' \in Post
    BY <2>1, <2>3
  <2> QED
    BY <1>0, <1>x, <2>1, <2>2, <2>4 DEF PagingType, Reach, Types
<1>4. CASE MarkPage
  <2>1. /\ list' = list
        /\ UNCHANGED <<total, anchor, front, found, quiet>>
        /\ phase' = "deep" /\ page' = page - 1 /\ deep_page' = page /\ deep_anchor' = front
    BY <1>4 DEF MarkPage, SetProgress, environment
  <2>2. page >= 1 /\ page <= n
    BY <1>4 DEF MarkPage, Types, Reach
  <2> QED
    BY <1>0, <1>x, <2>1, <2>2 DEF PagingType, Reach, Types
<1>5. CASE FinishDeep
  BY <1>0, <1>5, NotPaging DEF FinishDeep, SetDeepDone
<1>6. CASE StartShallow
  <2>1. /\ list' = list /\ page' = 1 /\ total' = n /\ phase' = "shallow"
        /\ UNCHANGED <<deep_page, deep_anchor, anchor, front, found, quiet>>
    BY <1>6 DEF StartShallow, storeVars, files, environment
  <2> QED
    BY <1>0, <1>x, <2>1 DEF PagingType, Reach, Types
<1>7. CASE ReadPage
  <2>1. /\ list' = list /\ found' = found \o Page(page)
        /\ quiet' \in {quiet + 1, 0}
        /\ UNCHANGED <<deep_page, deep_anchor, total, anchor, front>>
        /\ \/ phase' = "enqueue" /\ page' = page
           \/ phase' = "shallow" /\ page' = page + 1
    BY <1>7 DEF ReadPage, storeVars, files, environment
  <2>2. page >= 1
    BY <1>7 DEF ReadPage, Types, Reach
  <2>3. Page(page) \in Seq(Post)
    BY <1>x, <2>2, PageType DEF Types
  <2>4. found \o Page(page) \in Seq(Post)
    BY <1>x, <2>3, ConcatQueued
  <2> QED
    BY <1>0, <1>x, <2>1, <2>2, <2>4 DEF PagingType, Reach, Types
<1>8. CASE Enqueue
  BY <1>0, <1>8, NotPaging DEF Enqueue, AddPending
<1>9. ASSUME NEW p \in Post, ToFront(p) PROVE PagingType' /\ Reach'
  BY <1>0, <1>9, NotPaging DEF ToFront, storeVars, files, paging
<1>10. CASE Open
  BY <1>0, <1>10, NotPaging DEF Open, OpenStore
<1>11. CASE Drain
  <2>1. /\ deep_page' = deep_page /\ deep_anchor' = deep_anchor
        /\ \/ UNCHANGED <<phase, paging>>
           \/ /\ phase' \notin {"locate", "deep", "mark", "shallow"}
              /\ UNCHANGED paging \/ NoPaging
    <3>1. CASE StartDrain \/ NothingToDo
      BY <3>1 DEF StartDrain, NothingToDo, storeVars, files, paging
    <3>2. CASE EndDrain
      BY <3>2 DEF EndDrain, CompactPending, Exit
    <3>3. CASE Staged \/ Indexed
      BY <3>3 DEF Staged, Indexed, PutDirectory, AppendIndex, paging
    <3>4. ASSUME NEW p \in Post, NetGot(p)
          PROVE  deep_page' = deep_page /\ deep_anchor' = deep_anchor /\ UNCHANGED <<phase, paging>>
      BY <3>4 DEF NetGot, storeVars, files, paging
    <3>5. ASSUME NEW p \in Post, ImgGot(p)
          PROVE  /\ deep_page' = deep_page /\ deep_anchor' = deep_anchor
                 /\ UNCHANGED <<phase, paging>> \/ (phase' = "closed" /\ NoPaging)
      BY <3>5 DEF ImgGot, Exit, files, paging
    <3>6. ASSUME NEW i \in 1 .. Len(queue), Hole(i)
          PROVE  /\ deep_page' = deep_page /\ deep_anchor' = deep_anchor
                 /\ UNCHANGED <<phase, paging>> \/ (phase' = "closed" /\ NoPaging)
      BY <3>6 DEF Hole, Exit, storeVars, files, paging
    <3> QED
      BY <1>11, <3>1, <3>2, <3>3, <3>4, <3>5, <3>6 DEF Drain, CommitStep
  <2> QED
    BY <1>0, <2>1, NotPaging
<1>12. CASE Crash
  BY <1>0, <1>12, NotPaging DEF Crash, Exit, files
<1>13. CASE CrashInAppend
  <2>1. deep_page' = deep_page /\ deep_anchor' = deep_anchor
    BY <1>13 DEF CrashInAppend, AddPendingInPart
  <2> QED
    BY <1>0, <1>13, <2>1, NotPaging DEF CrashInAppend, Exit
<1>14. CASE UNCHANGED vars \/ MendedByHand
  BY <1>0, <1>14, NotPaging DEF vars, MendedByHand, storeVars, files, paging
<1> QED
  BY <1>1, <1>2, <1>3, <1>4, <1>5, <1>6, <1>7, <1>8, <1>9, <1>10, <1>11, <1>12, <1>13, <1>14
     DEF Next, Discover

-----------------------------------------------------------------------------
(* refill gives out places of the queue, in order. *)
LEMMA RefillPlaces ==
  ASSUME NEW q \in Seq(Post), NEW given \in Nat, given <= Len(q), NEW n1, NEW i1,
         n1 \subseteq 1 .. given, i1 \subseteq 1 .. given, n1 \cap i1 = {},
         IsFiniteSet(n1), IsFiniteSet(i1),
         Refill(DOMAIN q, given, n1, i1)
  PROVE  /\ next' \in Nat /\ next' <= Len(q)
         /\ net' \subseteq 1 .. next' /\ img' = i1 /\ img' \subseteq 1 .. next'
         /\ net' \cap img' = {}
<1> DEFINE room == Room(Cardinality(n1), Cardinality(i1))
           fresh == (given + 1 .. given + room) \cap DOMAIN q
           last == IF given + room <= Len(q) THEN given + room ELSE Len(q)
<1>1. Cardinality(n1) \in Nat /\ Cardinality(i1) \in Nat
  BY FS_CardinalityType
<1>2. room \in Nat
  BY <1>1, Parameters DEF Room
<1>3. next' = given + Cardinality(fresh) /\ net' = n1 \cup fresh /\ img' = i1
  BY DEF Refill
<1>4. DOMAIN q = 1 .. Len(q) /\ Len(q) \in Nat
  OBVIOUS
<1> HIDE DEF room
<1>5. last \in Nat /\ last >= given /\ last <= Len(q) /\ fresh = given + 1 .. last
  BY <1>2, <1>4
<1> HIDE DEF fresh, last
<1>6. Cardinality(fresh) = last - given
  <2>1. given + 1 \in Int /\ last \in Int
    BY <1>5
  <2>2. Cardinality(given + 1 .. last) = IF given + 1 > last THEN 0 ELSE last - (given + 1) + 1
    BY <2>1, FS_Interval
  <2> QED
    BY <1>5, <2>2
<1>7. next' = last
  BY <1>3, <1>5, <1>6
<1>8. \A i \in fresh : i \in 1 .. last /\ i \notin 1 .. given
  BY <1>5
<1>9. 1 .. given \subseteq 1 .. last
  BY <1>5
<1> QED
  BY <1>3, <1>5, <1>7, <1>8, <1>9

(* What follows a future that is done keeps to the queue. *)
LEMMA AfterOnePlaces ==
  ASSUME Types, NEW n1, NEW i1,
         n1 \subseteq 1 .. next, i1 \subseteq 1 .. next, n1 \cap i1 = {},
         AfterOne(n1, i1)
  PROVE  /\ queue' \in Seq(Post) /\ next' \in Nat /\ next' <= Len(queue')
         /\ net' \subseteq 1 .. next' /\ img' = i1 /\ img' \subseteq 1 .. next'
         /\ net' \cap img' = {}
<1>1. queue \in Seq(Post) /\ next \in Nat /\ next <= Len(queue) /\ queue' = queue
  BY DEF Types, DrainType, AfterOne
<1>2. CASE net' = n1 /\ img' = i1 /\ UNCHANGED next
  BY <1>1, <1>2
<1>3. CASE Refill(DOMAIN queue, next, n1, i1)
  <2>1. IsFiniteSet(1 .. next)
    BY <1>1, FS_Interval
  <2>2. IsFiniteSet(n1) /\ IsFiniteSet(i1)
    BY <2>1, FS_Subset
  <2> QED
    BY <1>1, <1>3, <2>2, RefillPlaces
<1> QED
  BY <1>2, <1>3 DEF AfterOne

(* A run of drain that is over. *)
LEMMA NoDrainingType == NoDraining => DrainType'
<1>1. <<>> \in Seq(Post) /\ Len(<<>>) = 0
  OBVIOUS
<1>2. HOLE_STREAK * Workers > 0
  BY WebSyncAssumption
<1> QED
  BY <1>1, <1>2 DEF NoDraining, DrainType

(* What is in flight. *)
LEMMA NextDrain ==
  ASSUME Types, [Next]_vars
  PROVE  DrainType'
<1>0. /\ queue \in Seq(Post) /\ next \in Nat /\ next <= Len(queue)
      /\ net \subseteq 1 .. next /\ img \subseteq 1 .. next /\ net \cap img = {}
      /\ cur \in img \cup {0}
      /\ streak \in Nat /\ streak < HOLE_STREAK * Workers
  BY DEF Types, DrainType
<1>x. 0 < HOLE_STREAK * Workers /\ HOLE_STREAK * Workers \in Nat
  BY WebSyncAssumption
<1>1. CASE UNCHANGED draining
  BY <1>1, <1>0 DEF draining, DrainType
<1>2. CASE StartDrain
  <2>1. ToDo \in Seq(Post)
    BY UnindexedRows DEF ToDo, Types, StoreType
  <2>2. Refill(DOMAIN ToDo, 0, {}, {})
    BY <1>2 DEF StartDrain
  <2>3. /\ next' \in Nat /\ next' <= Len(ToDo)
        /\ net' \subseteq 1 .. next' /\ img' = {} /\ img' \subseteq 1 .. next'
        /\ net' \cap img' = {}
    <3>1. 0 <= Len(ToDo) /\ {} \subseteq 1 .. 0 /\ {} \cap {} = {}
      BY <2>1
    <3> QED
      BY <2>1, <2>2, <3>1, FS_EmptySet, RefillPlaces
  <2> QED
    BY <1>2, <1>x, <2>1, <2>3 DEF StartDrain, DrainType
<1>3. CASE EndDrain
  BY <1>3, NoDrainingType DEF EndDrain, Exit
<1>4. CASE Indexed
  <2>1. cur' = 0 /\ AfterOne(net, img \ {cur}) /\ UNCHANGED streak
    BY <1>4 DEF Indexed
  <2>2. img \ {cur} \subseteq 1 .. next /\ net \cap (img \ {cur}) = {}
    BY <1>0
  <2>3. /\ queue' \in Seq(Post) /\ next' \in Nat /\ next' <= Len(queue')
        /\ net' \subseteq 1 .. next' /\ img' \subseteq 1 .. next' /\ net' \cap img' = {}
    BY <1>0, <2>1, <2>2, AfterOnePlaces
  <2> QED
    BY <1>0, <2>1, <2>3 DEF DrainType
<1>5. ASSUME NEW p \in Post, NetGot(p) PROVE DrainType'
  <2>1. PICK i \in net : AfterOne(net \ {i}, img \cup {i})
    BY <1>5 DEF NetGot
  <2>2. cur' = 0 /\ UNCHANGED streak
    BY <1>5 DEF NetGot
  <2>3. /\ net \ {i} \subseteq 1 .. next /\ img \cup {i} \subseteq 1 .. next
        /\ (net \ {i}) \cap (img \cup {i}) = {}
    BY <1>0
  <2>4. /\ queue' \in Seq(Post) /\ next' \in Nat /\ next' <= Len(queue')
        /\ net' \subseteq 1 .. next' /\ img' \subseteq 1 .. next' /\ net' \cap img' = {}
    BY <2>1, <2>3, AfterOnePlaces
  <2> QED
    BY <1>0, <2>2, <2>4 DEF DrainType
<1>6. ASSUME NEW p \in Post, ImgGot(p) PROVE DrainType'
  <2>1. CASE \E i \in img : cur' = i /\ streak' = 0 /\ UNCHANGED <<queue, next, net, img>>
    BY <1>0, <1>x, <2>1 DEF DrainType
  <2>2. CASE NoDraining
    BY <2>2, NoDrainingType
  <2> QED
    BY <1>6, <2>1, <2>2 DEF ImgGot, Exit
<1>7. ASSUME NEW i \in 1 .. Len(queue), Hole(i) PROVE DrainType'
  <2>1. CASE streak + 1 < HOLE_STREAK * Workers
    <3>1. AfterOne(net \ {i}, img \ {i}) /\ streak' = streak + 1 /\ cur' = 0
      BY <1>7, <2>1 DEF Hole
    <3>2. /\ net \ {i} \subseteq 1 .. next /\ img \ {i} \subseteq 1 .. next
          /\ (net \ {i}) \cap (img \ {i}) = {}
      BY <1>0
    <3>3. /\ queue' \in Seq(Post) /\ next' \in Nat /\ next' <= Len(queue')
          /\ net' \subseteq 1 .. next' /\ img' \subseteq 1 .. next' /\ net' \cap img' = {}
      BY <3>1, <3>2, AfterOnePlaces
    <3> QED
      BY <1>0, <2>1, <3>1, <3>3 DEF DrainType
  <2>2. CASE ~ (streak + 1 < HOLE_STREAK * Workers)
    BY <1>7, <2>2, NoDrainingType DEF Hole, Exit
  <2> QED
    BY <2>1, <2>2
<1>8. CASE Staged \/ NothingToDo
  BY <1>1, <1>8 DEF Staged, NothingToDo
<1>9. CASE Discover
  BY <1>1, <1>9 DEF Discover, StartDeep, Locate, ScanPage, MarkPage, FinishDeep, StartShallow,
                    ReadPage, Enqueue
<1>10. CASE Crash \/ CrashInAppend
  BY <1>10, NoDrainingType DEF Crash, CrashInAppend, Exit
<1>11. ASSUME NEW p \in Post, ToFront(p) PROVE DrainType'
  BY <1>1, <1>11 DEF ToFront
<1>12. CASE Open
  BY <1>1, <1>12 DEF Open
<1>13. CASE UNCHANGED vars \/ MendedByHand
  BY <1>1, <1>13 DEF vars, MendedByHand
<1> QED
  BY <1>2, <1>3, <1>4, <1>5, <1>6, <1>7, <1>8, <1>9, <1>10, <1>11, <1>12, <1>13
     DEF Next, Drain, CommitStep

-----------------------------------------------------------------------------
(* Phases and counters. *)
LEMMA NextCount ==
  ASSUME Types, [Next]_vars
  PROVE  CountType'
<1>0. /\ phase \in PhaseNames
      /\ crashes \in 0 .. MaxCrashes
      /\ pushed \in Nat /\ owed \in Nat
  BY DEF Types, CountType
<1>x. MaxCrashes \in Nat
  BY WebSyncAssumption
<1>1. ASSUME NEW p \in Post, ToFront(p) PROVE CountType'
  BY <1>0, <1>1 DEF ToFront, CountType
<1>2. CASE Open
  BY <1>0, <1>2 DEF Open, CountType, history, PhaseNames
<1>3. ASSUME NEW forced, StartDeep(forced) PROVE CountType'
  BY <1>0, <1>3 DEF StartDeep, CountType, PhaseNames
<1>4. CASE Locate \/ StartShallow \/ ReadPage
  BY <1>0, <1>4 DEF Locate, StartShallow, ReadPage, CountType, history, PhaseNames
<1>5. CASE ScanPage \/ MarkPage \/ FinishDeep \/ Enqueue
  BY <1>0, <1>5 DEF ScanPage, MarkPage, FinishDeep, Enqueue, CountType, history, PhaseNames
<1>6. CASE Drain
  <2>1. UNCHANGED <<crashes, history>> /\ phase' \in {phase, "drain", "closed"}
    <3>1. CASE StartDrain \/ NothingToDo \/ EndDrain \/ Staged \/ Indexed
      BY <3>1 DEF StartDrain, NothingToDo, EndDrain, Staged, Indexed, Exit
    <3>2. ASSUME NEW p \in Post, NetGot(p) \/ ImgGot(p)
          PROVE  UNCHANGED <<crashes, history>> /\ phase' \in {phase, "drain", "closed"}
      BY <3>2 DEF NetGot, ImgGot, Exit
    <3>3. ASSUME NEW i \in 1 .. Len(queue), Hole(i)
          PROVE  UNCHANGED <<crashes, history>> /\ phase' \in {phase, "drain", "closed"}
      BY <3>3 DEF Hole, Exit
    <3> QED
      BY <1>6, <3>1, <3>2, <3>3 DEF Drain, CommitStep
  <2> QED
    BY <1>0, <2>1 DEF CountType, history, PhaseNames
<1>7. CASE Crash
  BY <1>0, <1>x, <1>7 DEF Crash, Exit, CountType, history, PhaseNames
<1>8. CASE CrashInAppend
  <2>1. /\ crashes < MaxCrashes /\ crashes' = crashes + 1 /\ phase' = "closed"
        /\ UNCHANGED history
    BY <1>8 DEF CrashInAppend, Exit
  <2> QED
    BY <1>0, <1>x, <2>1 DEF CountType, history, PhaseNames
<1>9. CASE UNCHANGED vars \/ MendedByHand
  BY <1>0, <1>9 DEF vars, MendedByHand, CountType, history
<1> QED
  BY <1>1, <1>2, <1>3, <1>4, <1>5, <1>6, <1>7, <1>8, <1>9 DEF Next, Discover

-----------------------------------------------------------------------------
(* Every state starts out right. *)
LEMMA InitTypes == Init => Types
<1> SUFFICES ASSUME Init PROVE Types
  OBVIOUS
<1>0. <<>> \in Seq(Post) /\ Len(<<>>) = 0
  OBVIOUS
<1>1. StoreType
  BY <1>0 DEF Init, StoreInit, StoreType
<1>2. list \in Seq(Post) /\ Distinct
  <2>1. NInitial \in Nat /\ NInitial <= NPosts /\ NPosts \in Nat
    BY WebSyncAssumption, NPostsAssumption
  <2>2. list = [i \in 1 .. NInitial |-> NInitial + 1 - i]
    BY DEF Init
  <2>3. list \in [1 .. NInitial -> Post]
    BY <2>1, <2>2 DEF Post
  <2>4. list \in Seq(Post) /\ DOMAIN list = 1 .. NInitial
    BY <2>1, <2>3, SequenceMade
  <2>5. Distinct
    BY <2>1, <2>2 DEF Distinct
  <2> QED
    BY <2>4, <2>5
<1>3. ForumType
  BY <1>2 DEF Init, ForumType
<1>4. PagingType
  BY <1>0 DEF Init, PagingType
<1>5. Reach
  <2>1. PagesIn(list) \in Nat
    BY <1>2, PageCount
  <2> QED
    BY <2>1 DEF Init, StoreInit, Reach
<1>6. DrainType
  BY <1>0, WebSyncAssumption DEF Init, DrainType
<1>7. CountType
  BY WebSyncAssumption DEF Init, CountType, PhaseNames
<1> QED
  BY <1>1, <1>3, <1>4, <1>5, <1>6, <1>7 DEF Types

(* The types, with what they need. *)
THEOREM TypesKept == Spec => []Types
<1>1. Types /\ [Next]_vars => Types'
  BY NextStore, NextForum, NextPaging, NextDrain, NextCount DEF Types
<1> QED
  BY <1>1, InitTypes, PTL DEF Spec

(* Every variable stays within its type. *)
THEOREM TypeCorrect == Spec => []TypeOK
<1>1. Types => TypeOK
  <2> SUFFICES ASSUME Types PROVE TypeOK
    OBVIOUS
  <2>1. /\ index \subseteq Post /\ dirs \subseteq Post
        /\ pend \in Seq(Post) /\ mem \in Seq(Post) /\ found \in Seq(Post)
        /\ list \in Seq(Post) /\ queue \in Seq(Post)
        /\ {torn, deep_done} \subseteq BOOLEAN
    BY DEF Types, StoreType, PagingType, ForumType, DrainType
  <2>2. /\ {deep_page, total, quiet, next, streak, pushed, owed, touches, page} \subseteq Nat
        /\ {deep_anchor, anchor, front} \subseteq Post \cup {NoAnchor}
    BY DEF Types, StoreType, PagingType, ForumType, DrainType, CountType
  <2>3. /\ next <= Len(queue)
        /\ net \cup img \subseteq 1 .. next /\ net \cap img = {}
        /\ cur \in img \cup {0}
        /\ streak < HOLE_STREAK * Workers
    BY DEF Types, DrainType
  <2>4. phase \in PhaseNames /\ crashes \in 0 .. MaxCrashes
    BY DEF Types, CountType
  <2> QED
    BY <2>1, <2>2, <2>3, <2>4 DEF TypeOK
<1> QED
  BY <1>1, TypesKept, PTL

-----------------------------------------------------------------------------
(* What is known. *)

(* A run has read what the files know, and both change together.           *)
Held == phase # "closed" => Known = Seen

(* Only what is known waits in the queue that drain began with. *)
QueueKnown == Queued(queue) \subseteq Known

(* Rows added at the end are known and seen from then on. *)
LEMMA AddPendingKnown ==
  ASSUME StoreType, Known = Seen, NEW rows \in Seq(Post), AddPending(rows)
  PROVE  Known' = Known \cup Queued(rows) /\ Seen' = Known'
<1>1. FreshRows(rows) \in Seq(Post) /\ Queued(FreshRows(rows)) = Queued(rows) \ Seen
  BY FreshRowsRows
<1>2. /\ Queued(pend \o FreshRows(rows)) = Queued(pend) \cup Queued(FreshRows(rows))
      /\ Queued(mem \o FreshRows(rows)) = Queued(mem) \cup Queued(FreshRows(rows))
  BY <1>1, ConcatQueued DEF StoreType
<1>3. pend' = pend \o FreshRows(rows) /\ mem' = mem \o FreshRows(rows) /\ index' = index
  BY DEF AddPending
<1>4. /\ Queued(pend') = Queued(pend) \cup (Queued(rows) \ Seen)
      /\ Queued(mem') = Queued(mem) \cup (Queued(rows) \ Seen)
  BY <1>1, <1>2, <1>3
<1>5. Known' = index' \cup Queued(pend') /\ Seen' = index' \cup Queued(mem')
  BY DEF Known, Seen, Queued
<1>6. Known = index \cup Queued(pend) /\ Seen = index \cup Queued(mem)
  BY DEF Known, Seen
<1> QED
  BY <1>3, <1>4, <1>5, <1>6

(* The first n of the fresh rows, when the process dies in between. *)
LEMMA AddPendingInPartKnown ==
  ASSUME StoreType, NEW rows \in Seq(Post), NEW n \in Nat, NEW partial,
         AddPendingInPart(rows, n, partial)
  PROVE  /\ n < Len(FreshRows(rows))
         /\ Known' = Known \cup {FreshRows(rows)[i] : i \in 1 .. n}
<1> DEFINE fresh == FreshRows(rows)
<1>1. fresh \in Seq(Post)
  BY FreshRowsRows
<1>2. n < Len(fresh) /\ pend' = pend \o SubSeq(fresh, 1, n) /\ index' = index
  BY DEF AddPendingInPart
<1> HIDE DEF fresh
<1>3. SubSeq(fresh, 1, n) \in Seq(Post) /\ Queued(SubSeq(fresh, 1, n)) = {fresh[i] : i \in 1 .. n}
  BY <1>1, <1>2, PrefixQueued
<1>4. Queued(pend \o SubSeq(fresh, 1, n)) = Queued(pend) \cup {fresh[i] : i \in 1 .. n}
  <2> DEFINE part == SubSeq(fresh, 1, n)
             got == {fresh[i] : i \in 1 .. n}
  <2>1. pend \in Seq(Post) /\ part \in Seq(Post) /\ Queued(part) = got
    BY <1>3 DEF StoreType
  <2> HIDE DEF part, got
  <2>2. Queued(pend \o part) = Queued(pend) \cup Queued(part)
    BY <2>1, ConcatQueued, Zenon
  <2>3. Queued(pend \o part) = Queued(pend) \cup got
    BY <2>1, <2>2
  <2> QED
    BY <2>3 DEF part, got
<1>5. Queued(pend') = Queued(pend) \cup {fresh[i] : i \in 1 .. n}
  BY <1>2, <1>4
<1>6. Known' = index' \cup Queued(pend') /\ Known = index \cup Queued(pend)
  BY DEF Known, Queued
<1>7. Known' = Known \cup {fresh[i] : i \in 1 .. n}
  BY <1>2, <1>5, <1>6
<1> QED
  BY <1>2, <1>7 DEF fresh

(* What the two say when nothing they depend on changes. *)
LEMMA KnownFrame ==
  /\ UNCHANGED <<index, pend>> => Known' = Known
  /\ UNCHANGED <<index, mem>> => Seen' = Seen
BY DEF Known, Seen, Queued

(* What a step of the scan finds becomes known, no step forgets a post.    *)
LEMMA NextHeld ==
  ASSUME Types, Held, QueueKnown, [Next]_vars
  PROVE  Held' /\ Known \subseteq Known' /\ QueueKnown'
<1>f. ASSUME UNCHANGED <<index, pend>>, phase' = "closed" \/ (UNCHANGED mem /\ (phase # "closed" \/ phase' = phase)),
             queue' = queue \/ queue' = <<>>
      PROVE  Held' /\ Known \subseteq Known' /\ QueueKnown'
  <2>1. Known' = Known
    BY <1>f, KnownFrame
  <2>2. UNCHANGED mem => Seen' = Seen
    BY <1>f, KnownFrame
  <2>3. Queued(queue') \subseteq Queued(queue)
    BY <1>f, NothingQueued
  <2>4. QueueKnown'
    <3>1. Queued(queue)' = Queued(queue')
      BY DEF Queued
    <3> QED
      BY <2>1, <2>3, <3>1 DEF QueueKnown
  <2> QED
    BY <1>f, <2>1, <2>2, <2>4 DEF Held
<1>g. ASSUME Known \subseteq Known', UNCHANGED queue PROVE QueueKnown'
  BY <1>g DEF QueueKnown, Queued
<1>s. StoreType
  BY DEF Types
<1>1. CASE Open
  <2>1. Unindexed(pend) \in Seq(Post) /\ Queued(Unindexed(pend)) = Queued(pend) \ index
    BY <1>s, UnindexedRows DEF StoreType
  <2>2. Queued(Deduped(Unindexed(pend))) = Queued(pend) \ index
    BY <2>1, DedupedRows
  <2>3. mem' = Deduped(Unindexed(pend)) /\ UNCHANGED <<index, pend, queue>>
    BY <1>1 DEF Open, OpenStore, draining
  <2>4. Queued(mem') = Queued(pend) \ index
    BY <2>2, <2>3
  <2>5. Known' = Known
    BY <2>3, KnownFrame
  <2>6. Seen' = index' \cup Queued(mem') /\ Known = index \cup Queued(pend)
    BY DEF Seen, Known, Queued
  <2> QED
    BY <1>g, <2>3, <2>4, <2>5, <2>6 DEF Held
<1>2. CASE ScanPage
  <2>1. Ascending(Page(page)) \in Seq(Post)
    BY <1>2, PageType DEF ScanPage, Types, PagingType
  <2>2. Known = Seen
    BY <1>2 DEF ScanPage, Held
  <2>3. Known \subseteq Known' /\ Seen' = Known'
    BY <1>2, <1>s, <2>1, <2>2, AddPendingKnown DEF ScanPage
  <2>4. UNCHANGED queue
    BY <1>2 DEF ScanPage, draining
  <2> QED
    BY <1>g, <2>3, <2>4 DEF Held
<1>3. CASE Enqueue
  <2>1. Ascending(found) \in Seq(Post)
    BY AscendingRows DEF Types, PagingType
  <2>2. Known = Seen
    BY <1>3 DEF Enqueue, Held
  <2>3. Known \subseteq Known' /\ Seen' = Known'
    BY <1>3, <1>s, <2>1, <2>2, AddPendingKnown DEF Enqueue
  <2>4. UNCHANGED queue
    BY <1>3 DEF Enqueue, draining
  <2> QED
    BY <1>g, <2>3, <2>4 DEF Held
<1>4. CASE StartDrain
  <2>1. queue' = ToDo /\ UNCHANGED <<index, pend, mem>> /\ phase = "discovered" /\ phase' = "drain"
    BY <1>4 DEF StartDrain, storeVars, files
  <2>2. Queued(ToDo) \subseteq Queued(mem)
    BY <1>s, UnindexedRows DEF ToDo, StoreType
  <2>3. Known' = Known /\ Seen' = Seen /\ Known = Seen
    BY <2>1, KnownFrame DEF Held
  <2>4. Queued(queue)' = Queued(ToDo)
    BY <2>1 DEF Queued
  <2> QED
    BY <2>1, <2>2, <2>3, <2>4 DEF Held, QueueKnown, Seen
<1>5. CASE EndDrain
  <2>1. Known = Seen /\ phase' = "closed" /\ index' = index /\ pend' = Unindexed(mem) /\ queue' = <<>>
    BY <1>5 DEF EndDrain, CompactPending, Exit, NoDraining, Held
  <2>2. Queued(Unindexed(mem)) = Queued(mem) \ index
    BY <1>s, UnindexedRows DEF StoreType
  <2>3. Queued(pend') = Queued(mem) \ index
    BY <2>1, <2>2
  <2>4. Known' = index' \cup Queued(pend') /\ Seen = index \cup Queued(mem) /\ Queued(queue)' = Queued(queue')
    BY DEF Known, Seen, Queued
  <2>5. Known' = Known
    BY <2>1, <2>3, <2>4
  <2> QED
    BY <2>1, <2>4, <2>5, NothingQueued DEF Held, QueueKnown
<1>6. CASE Staged
  BY <1>6, <1>f DEF Staged, PutDirectory, draining
<1>7. CASE Indexed
  <2>1. /\ index' = index \cup {queue[cur]} /\ UNCHANGED <<pend, mem, phase, queue>>
        /\ Known = Seen
    BY <1>7 DEF Indexed, AppendIndex, AfterOne, Refill, Held
  <2>2. /\ Known' = index' \cup Queued(pend)
        /\ Seen' = index' \cup Queued(mem)
    BY <2>1 DEF Known, Seen, Queued
  <2>3. Known' = Known \cup {queue[cur]} /\ Seen' = Seen \cup {queue[cur]}
    BY <2>1, <2>2 DEF Known, Seen
  <2> QED
    BY <1>g, <2>1, <2>3 DEF Held
<1>8. CASE NothingToDo
  BY <1>8, <1>f DEF NothingToDo, files, draining
<1>9. ASSUME NEW p \in Post, NetGot(p) PROVE Held' /\ Known \subseteq Known' /\ QueueKnown'
  BY <1>9, <1>f DEF NetGot, storeVars, files, AfterOne
<1>10. ASSUME NEW p \in Post, ImgGot(p) PROVE Held' /\ Known \subseteq Known' /\ QueueKnown'
  BY <1>10, <1>f DEF ImgGot, Exit, NoDraining, files
<1>11. ASSUME NEW i \in 1 .. Len(queue), Hole(i) PROVE Held' /\ Known \subseteq Known' /\ QueueKnown'
  BY <1>11, <1>f DEF Hole, Exit, NoDraining, AfterOne, storeVars, files
<1>12. CASE Crash
  BY <1>12, <1>f DEF Crash, Exit, NoDraining, files
<1>13. CASE CrashInAppend
  <2>1. phase' = "closed" /\ queue' = <<>>
    BY <1>13 DEF CrashInAppend, Exit, NoDraining
  <2>2. Known \subseteq Known'
    <3>1. PICK partial \in BOOLEAN :
            \/ /\ phase = "deep" /\ page >= 1
               /\ \E n \in 0 .. NPosts : AddPendingInPart(Ascending(Page(page)), n, partial)
            \/ \E n \in 0 .. 2 * NPosts : AddPendingInPart(Ascending(found), n, partial)
            \/ UNCHANGED <<index, pend>>
      BY <1>13 DEF CrashInAppend
    <3>2. CASE /\ phase = "deep" /\ page >= 1
               /\ \E n \in 0 .. NPosts : AddPendingInPart(Ascending(Page(page)), n, partial)
      <4>1. PICK n \in 0 .. NPosts : AddPendingInPart(Ascending(Page(page)), n, partial)
        BY <3>2
      <4>2. n \in Nat /\ Ascending(Page(page)) \in Seq(Post)
        BY <3>2, PageType DEF Types, PagingType
      <4> QED
        BY <1>s, <4>1, <4>2, AddPendingInPartKnown
    <3>3. CASE \E n \in 0 .. 2 * NPosts : AddPendingInPart(Ascending(found), n, partial)
      <4>1. PICK n \in 0 .. 2 * NPosts : AddPendingInPart(Ascending(found), n, partial)
        BY <3>3
      <4>2. n \in Nat /\ Ascending(found) \in Seq(Post)
        BY AscendingRows DEF Types, PagingType
      <4> QED
        BY <1>s, <4>1, <4>2, AddPendingInPartKnown
    <3>4. CASE UNCHANGED <<index, pend>>
      BY <3>4, KnownFrame
    <3> QED
      BY <3>1, <3>2, <3>3, <3>4
  <2>3. Queued(queue)' = {}
    BY <2>1 DEF Queued
  <2> QED
    BY <2>1, <2>2, <2>3 DEF Held, QueueKnown
<1>14. ASSUME NEW p \in Post, ToFront(p) PROVE Held' /\ Known \subseteq Known' /\ QueueKnown'
  BY <1>14, <1>f DEF ToFront, storeVars, files, draining
<1>15. ASSUME NEW forced, StartDeep(forced) PROVE Held' /\ Known \subseteq Known' /\ QueueKnown'
  BY <1>15, <1>f DEF StartDeep, storeVars, files, draining
<1>16. CASE Locate \/ StartShallow \/ ReadPage
  BY <1>16, <1>f DEF Locate, StartShallow, ReadPage, storeVars, files, draining
<1>17. CASE MarkPage \/ FinishDeep
  BY <1>17, <1>f DEF MarkPage, FinishDeep, SetProgress, SetDeepDone, draining
<1>18. CASE UNCHANGED vars \/ MendedByHand
  BY <1>18, <1>f DEF vars, MendedByHand, storeVars, files, draining
<1> QED
  BY <1>1, <1>2, <1>3, <1>4, <1>5, <1>6, <1>7, <1>8, <1>9, <1>10, <1>11, <1>12, <1>13, <1>14,
     <1>15, <1>16, <1>17, <1>18 DEF Next, Discover, Drain, CommitStep

(* Before the first run nothing is known. *)
LEMMA InitHeld == Init => Held /\ QueueKnown
BY DEF Init, Held, QueueKnown, Queued

(* What a run holds in memory and what its files know are the same posts.  *)
THEOREM HeldKept == Spec => [](Types /\ Held /\ QueueKnown)
<1> DEFINE I == Types /\ Held /\ QueueKnown
<1>1. Init => I
  BY InitTypes, InitHeld
<1>2. I /\ [Next]_vars => I'
  <2>1. Types /\ [Next]_vars => Types'
    BY NextStore, NextForum, NextPaging, NextDrain, NextCount DEF Types
  <2> QED
    BY <2>1, NextHeld
<1> QED
  BY <1>1, <1>2, PTL DEF Spec

(* A post once written stays in the queue or the index, through kills,     *)
(* holes, second discoveries and compaction.                               *)
THEOREM QueueLosesNothing == Spec => NothingForgotten
<1> DEFINE I == Types /\ Held /\ QueueKnown
<1>1. I /\ [Next]_vars => [Known \subseteq Known']_vars
  BY NextHeld
<1>2. Spec => []I
  BY HeldKept
<1> HIDE DEF I
<1> QED
  BY <1>1, <1>2, PTL DEF Spec, NothingForgotten

(* A holds older posts of R before newer ones, as a run writes them: what  *)
(* of R is older than a post of A is in A or was known.                    *)
OldestOf(A, R) == A \subseteq R /\ \A q \in A, p \in R : p < q => p \in A \cup Known

(* What a write of the sorted rows has brought to the file when it ends    *)
(* early.                                                                  *)
LEMMA PrefixOldest ==
  ASSUME NEW rows \in Seq(Post), Known = Seen, NEW n \in Nat,
         n <= Len(FreshRows(Ascending(rows)))
  PROVE  OldestOf({FreshRows(Ascending(rows))[i] : i \in 1 .. n}, Queued(rows))
<1> DEFINE a == Ascending(rows)
           P == {i \in DOMAIN a : a[i] \notin Seen}
           out == Picked(a, P)
           A == {out[i] : i \in 1 .. n}
<1>1. a \in Seq(Post) /\ DOMAIN a = DOMAIN rows /\ Queued(a) = Queued(rows)
  BY AscendingRows, AscendingQueued
<1>2. DOMAIN rows = 1 .. Len(rows) /\ Len(rows) \in Nat
  OBVIOUS
<1>3. \A i, j \in DOMAIN a : i < j => a[i] <= a[j]
  BY <1>1, AscendingSorted
<1>4. FreshRows(a) = out
  BY DEF FreshRows
<1>5. Queued(rows) \subseteq Nat
  BY NPostsAssumption DEF Queued, Post
<1> HIDE DEF a
<1>6. P \subseteq DOMAIN a
  OBVIOUS
<1>7. \A i \in DOMAIN a : a[i] \notin Seen => i \in P
  OBVIOUS
<1> HIDE DEF P
<1>9. /\ Len(out) = Cardinality(P) /\ Cardinality(P) \in Nat /\ DOMAIN out = 1 .. Cardinality(P)
      /\ \A k \in DOMAIN out : Nth(P, k) \in P /\ out[k] = a[Nth(P, k)]
  BY <1>1, <1>6, PickedRows
<1>10. \A k, l \in DOMAIN out : k < l => Nth(P, k) < Nth(P, l)
  BY <1>1, <1>6, PickedOrder
<1>11. \A i \in P : \E k \in DOMAIN out : Nth(P, k) = i
  BY <1>1, <1>2, <1>6, <1>9, NthAll
<1> HIDE DEF out
<1>12. n <= Cardinality(P)
  BY <1>4, <1>9 DEF a
<1>13. A \subseteq Queued(rows)
  <2> SUFFICES ASSUME NEW i \in 1 .. n PROVE out[i] \in Queued(rows)
    OBVIOUS
  <2>1. i \in DOMAIN out
    BY <1>9, <1>12
  <2>2. Nth(P, i) \in DOMAIN a /\ out[i] = a[Nth(P, i)]
    BY <1>6, <1>9, <2>1
  <2> QED
    BY <1>1, <2>2 DEF Queued
<1>14. ASSUME NEW i \in 1 .. n, NEW p \in Queued(rows), p < out[i], p \notin Known PROVE p \in A
  <2>1. PICK j \in DOMAIN a : a[j] = p
    BY <1>1 DEF Queued
  <2>2. j \in P
    BY <1>7, <2>1, <1>14
  <2>3. PICK k \in DOMAIN out : Nth(P, k) = j
    BY <1>11, <2>2
  <2>4. out[k] = p
    BY <1>9, <2>1, <2>3
  <2>5. i \in DOMAIN out /\ i \in Nat /\ k \in Nat /\ k >= 1
    BY <1>9, <1>12
  <2>6. out[i] \in Nat /\ p \in Nat
    BY <1>5, <1>13
  <2>7. ASSUME i < k PROVE FALSE
    <3>1. Nth(P, i) < Nth(P, k)
      BY <1>10, <2>5, <2>7
    <3>2. Nth(P, i) \in DOMAIN a /\ Nth(P, k) \in DOMAIN a
      BY <1>6, <1>9, <2>5
    <3>3. out[i] <= out[k]
      BY <1>3, <1>9, <2>5, <3>1, <3>2
    <3> QED
      BY <1>14, <2>4, <2>6, <3>3
  <2>8. k \in 1 .. n
    BY <2>5, <2>7
  <2> QED
    BY <2>4, <2>8
<1>15. OldestOf(A, Queued(rows))
  BY <1>13, <1>14 DEF OldestOf
<1> QED
  BY <1>4, <1>15 DEF a

(* A step that makes posts known has read them off a page, and the oldest  *)
(* come first.                                                             *)
LEMMA KnownSteps ==
  ASSUME Types, Held, QueueKnown, [Next]_vars
  PROVE  \/ Known' = Known
         \/ /\ phase = "deep" /\ page >= 1
            /\ \E A \in SUBSET Post : OldestOf(A, Queued(Page(page))) /\ Known' = Known \cup A
         \/ /\ phase = "enqueue"
            /\ \E A \in SUBSET Post : OldestOf(A, Queued(found)) /\ Known' = Known \cup A
<1>s. StoreType /\ found \in Seq(Post) /\ page \in Nat
  BY DEF Types, PagingType
<1>k. UNCHANGED <<index, pend>> => Known' = Known
  BY KnownFrame
<1>q. \A rows \in Seq(Post) : Queued(rows) \subseteq Post
  BY DEF Queued
<1>w. \A R : OldestOf(R, R)
  BY DEF OldestOf
<1>1. CASE ScanPage
  <2>1. phase = "deep" /\ page >= 1 /\ AddPending(Ascending(Page(page)))
    BY <1>1 DEF ScanPage
  <2>2. Page(page) \in Seq(Post) /\ Ascending(Page(page)) \in Seq(Post)
    BY <1>s, <2>1, PageType DEF Types
  <2>3. Known = Seen
    BY <2>1 DEF Held
  <2>4. Known' = Known \cup Queued(Ascending(Page(page)))
    BY <1>s, <2>1, <2>2, <2>3, AddPendingKnown
  <2>5. Queued(Ascending(Page(page))) = Queued(Page(page))
    BY <2>2, AscendingQueued
  <2>6. Queued(Page(page)) \in SUBSET Post
    BY <1>q, <2>2
  <2> HIDE DEF Known
  <2>7. Known' = Known \cup Queued(Page(page))
    BY <2>4, <2>5
  <2> QED
    BY <1>w, <2>1, <2>6, <2>7
<1>2. CASE Enqueue
  <2>1. phase = "enqueue" /\ AddPending(Ascending(found))
    BY <1>2 DEF Enqueue
  <2>2. Ascending(found) \in Seq(Post) /\ Queued(Ascending(found)) = Queued(found)
    BY <1>s, AscendingRows, AscendingQueued
  <2>3. Known = Seen
    BY <2>1 DEF Held
  <2>4. Known' = Known \cup Queued(Ascending(found))
    BY <1>s, <2>1, <2>2, <2>3, AddPendingKnown
  <2>5. Queued(found) \in SUBSET Post
    BY <1>q, <1>s
  <2>6. Known' = Known \cup Queued(found)
    BY <2>2, <2>4
  <2> QED
    BY <1>w, <2>1, <2>5, <2>6
<1>3. ASSUME NEW rows \in Seq(Post), NEW n \in Nat, NEW partial, Known = Seen,
             AddPendingInPart(Ascending(rows), n, partial)
      PROVE  \E A \in SUBSET Post : OldestOf(A, Queued(rows)) /\ Known' = Known \cup A
  <2> DEFINE A == {FreshRows(Ascending(rows))[i] : i \in 1 .. n}
  <2>1. Ascending(rows) \in Seq(Post)
    BY AscendingRows
  <2>2. n < Len(FreshRows(Ascending(rows))) /\ Known' = Known \cup A
    BY <1>3, <1>s, <2>1, AddPendingInPartKnown
  <2>3. Len(FreshRows(Ascending(rows))) \in Nat
    BY <2>1, FreshRowsRows
  <2>4. OldestOf(A, Queued(rows))
    BY <1>3, <2>2, <2>3, PrefixOldest
  <2>5. A \subseteq Post
    BY <1>q, <2>4 DEF OldestOf
  <2> QED
    BY <2>2, <2>4, <2>5
<1>4. CASE CrashInAppend
  <2>1. PICK partial \in BOOLEAN :
          \/ /\ phase = "deep" /\ page >= 1
             /\ \E n \in 0 .. NPosts : AddPendingInPart(Ascending(Page(page)), n, partial)
          \/ /\ phase = "enqueue"
             /\ \E n \in 0 .. 2 * NPosts : AddPendingInPart(Ascending(found), n, partial)
          \/ UNCHANGED <<index, pend>>
    BY <1>4 DEF CrashInAppend
  <2>2. CASE /\ phase = "deep" /\ page >= 1
             /\ \E n \in 0 .. NPosts : AddPendingInPart(Ascending(Page(page)), n, partial)
    <3>1. PICK n \in 0 .. NPosts : AddPendingInPart(Ascending(Page(page)), n, partial)
      BY <2>2
    <3>2. n \in Nat /\ Page(page) \in Seq(Post) /\ Known = Seen
      BY <1>s, <2>2, PageType DEF Types, Held
    <3>3. \E A \in SUBSET Post : OldestOf(A, Queued(Page(page))) /\ Known' = Known \cup A
      BY <1>3, <3>1, <3>2
    <3> QED
      BY <2>2, <3>3
  <2>3. CASE /\ phase = "enqueue"
             /\ \E n \in 0 .. 2 * NPosts : AddPendingInPart(Ascending(found), n, partial)
    <3>1. PICK n \in 0 .. 2 * NPosts : AddPendingInPart(Ascending(found), n, partial)
      BY <2>3
    <3>2. n \in Nat /\ Known = Seen
      BY <2>3 DEF Held
    <3>3. \E A \in SUBSET Post : OldestOf(A, Queued(found)) /\ Known' = Known \cup A
      BY <1>3, <1>s, <3>1, <3>2
    <3> QED
      BY <2>3, <3>3
  <2> QED
    BY <1>k, <2>1, <2>2, <2>3
<1>5. CASE EndDrain
  <2>1. Known = Seen /\ index' = index /\ pend' = Unindexed(mem)
    BY <1>5 DEF EndDrain, CompactPending, Held
  <2>2. Queued(Unindexed(mem)) = Queued(mem) \ index
    BY <1>s, UnindexedRows DEF StoreType
  <2>3. Known' = index' \cup Queued(pend') /\ Seen = index \cup Queued(mem)
    BY DEF Known, Seen, Queued
  <2>4. Known' = Known
    BY <2>1, <2>2, <2>3
  <2> QED
    BY <2>4
<1>6. CASE Indexed
  <2>1. /\ index' = index \cup {queue[cur]} /\ UNCHANGED pend /\ cur # 0
    BY <1>6 DEF Indexed, AppendIndex
  <2>2. cur \in DOMAIN queue
    BY <2>1 DEF Types, DrainType
  <2>3. queue[cur] \in Known
    BY <2>2 DEF QueueKnown, Queued
  <2>4. Known' = Known \cup {queue[cur]}
    BY <2>1 DEF Known, Queued
  <2>5. Known' = Known
    BY <2>3, <2>4
  <2> QED
    BY <2>5
<1>7. CASE Open \/ NothingToDo \/ Staged \/ Crash \/ StartDrain \/ MarkPage \/ FinishDeep
  BY <1>7, <1>k DEF Open, OpenStore, NothingToDo, Staged, PutDirectory, Crash, StartDrain,
     storeVars, files, MarkPage, FinishDeep, SetProgress, SetDeepDone
<1>8. CASE StartDeep(FALSE) \/ StartDeep(TRUE) \/ Locate \/ StartShallow \/ ReadPage
  BY <1>8, <1>k DEF StartDeep, Locate, StartShallow, ReadPage, storeVars, files
<1>9. ASSUME NEW p \in Post, ToFront(p) \/ NetGot(p) \/ ImgGot(p) PROVE Known' = Known
  BY <1>9, <1>k DEF ToFront, NetGot, ImgGot, storeVars, files
<1>10. ASSUME NEW i \in 1 .. Len(queue), Hole(i) PROVE Known' = Known
  BY <1>10, <1>k DEF Hole, storeVars, files
<1>11. CASE UNCHANGED vars \/ MendedByHand
  BY <1>11, <1>k DEF vars, MendedByHand, storeVars, files
<1> QED
  BY <1>1, <1>2, <1>4, <1>5, <1>6, <1>7, <1>8, <1>9, <1>10, <1>11 DEF Next, Discover, Drain, CommitStep

-----------------------------------------------------------------------------
(* The order of the list. *)

(* Where only new posts come to the front of the list: newest first, none  *)
(* missing, and nobody knows or has read a post that is not there.         *)
InOrder ==
  /\ \A i \in DOMAIN list : list[i] = Len(list) + 1 - i
  /\ Known \subseteq 1 .. Len(list)
  /\ Queued(found) \subseteq 1 .. Len(list)

(* The posts behind page n are those up to this one, *)
Behind(n) == Len(list) - n * PageSize

(* and page n has the next ones. *)
LEMMA PagePosts ==
  ASSUME list \in Seq(Post), InOrder, NEW n \in Nat, n >= 1
  PROVE  /\ Behind(n) \in Int /\ Behind(n - 1) \in Int /\ Behind(n - 1) = Behind(n) + PageSize
         /\ Behind(n - 1) <= Len(list)
         /\ Queued(Page(n)) = {q \in 1 .. Len(list) : Behind(n) < q /\ q <= Behind(n - 1)}
         /\ n <= PagesIn(list) => 1 <= Behind(n - 1) /\ Page(n)[1] = Behind(n - 1)
<1> DEFINE L == Len(list)
           o == Offset(n)
<1>1. /\ o \in Nat /\ n * PageSize = o + PageSize
      /\ Queued(Page(n)) = {list[i] : i \in {j \in DOMAIN list : o < j /\ j <= o + PageSize}}
      /\ n <= PagesIn(list) => o + 1 \in DOMAIN list /\ Page(n)[1] = list[o + 1]
  BY PageRows
<1>2. L \in Nat /\ DOMAIN list = 1 .. L /\ PageSize \in Nat
  BY WebSyncAssumption
<1>3. \A i \in 1 .. L : list[i] = L + 1 - i
  BY <1>2 DEF InOrder
<1>4. Behind(n) = L - n * PageSize /\ Behind(n - 1) = L - o
  BY DEF Behind, Offset
<1> HIDE DEF L, o
<1>5. /\ Behind(n) = L - o - PageSize /\ Behind(n) \in Int /\ Behind(n - 1) \in Int
      /\ Behind(n - 1) = Behind(n) + PageSize /\ Behind(n - 1) <= L
  BY <1>1, <1>2, <1>4
<1>6. ASSUME NEW q PROVE q \in Queued(Page(n)) <=> q \in {r \in 1 .. L : Behind(n) < r /\ r <= Behind(n - 1)}
  <2>1. ASSUME q \in Queued(Page(n)) PROVE q \in 1 .. L /\ Behind(n) < q /\ q <= Behind(n - 1)
    <3>1. PICK i \in 1 .. L : o < i /\ i <= o + PageSize /\ q = list[i]
      BY <1>1, <1>2, <2>1
    <3>2. q = L + 1 - i
      BY <1>3, <3>1
    <3> QED
      BY <1>1, <1>2, <1>4, <1>5, <3>1, <3>2
  <2>2. ASSUME q \in 1 .. L, Behind(n) < q, q <= Behind(n - 1) PROVE q \in Queued(Page(n))
    <3>1. L + 1 - q \in 1 .. L /\ o < L + 1 - q /\ L + 1 - q <= o + PageSize
      BY <1>1, <1>2, <1>4, <1>5, <2>2
    <3>2. list[L + 1 - q] = L + 1 - (L + 1 - q)
      BY <1>3, <3>1
    <3>3. list[L + 1 - q] = q
      BY <1>2, <2>2, <3>2
    <3> QED
      BY <1>1, <1>2, <3>1, <3>3
  <2> QED
    BY <2>1, <2>2
<1>7. ASSUME n <= PagesIn(list) PROVE 1 <= Behind(n - 1) /\ Page(n)[1] = Behind(n - 1)
  <2>1. o + 1 \in 1 .. L /\ Page(n)[1] = list[o + 1]
    BY <1>1, <1>2, <1>7
  <2>2. list[o + 1] = L + 1 - (o + 1)
    BY <1>3, <2>1
  <2> QED
    BY <1>1, <1>2, <1>4, <1>5, <2>1, <2>2
<1>8. Queued(Page(n)) = {q \in 1 .. L : Behind(n) < q /\ q <= Behind(n - 1)}
  BY <1>6
<1> QED
  BY <1>5, <1>7, <1>8 DEF L

(* What is listed are the first posts there were. *)
LEMMA InOrderListed ==
  ASSUME list \in Seq(Post), InOrder
  PROVE  Listed = 1 .. Len(list)
<1> DEFINE L == Len(list)
<1>1. L \in Nat /\ DOMAIN list = 1 .. L /\ \A i \in 1 .. L : list[i] = L + 1 - i
  BY DEF InOrder
<1> HIDE DEF L
<1>2. \A q \in 1 .. L : L + 1 - q \in 1 .. L /\ list[L + 1 - q] = q
  BY <1>1
<1>3. \A i \in 1 .. L : list[i] \in 1 .. L
  BY <1>1
<1>4. Listed = 1 .. L
  BY <1>1, <1>2, <1>3 DEF Listed
<1> QED
  BY <1>4 DEF L

(* The next one published comes to the front. *)
LEMMA Published ==
  ASSUME Types, InOrder, ~ByReply, NEW p \in Post, ToFront(p)
  PROVE  /\ p = Len(list) + 1 /\ Len(list') = Len(list) + 1
         /\ \A i \in DOMAIN list' : list'[i] = Len(list') + 1 - i
<1> DEFINE L == Len(list)
           one == <<p>>
<1>1. list \in Seq(Post) /\ L \in Nat /\ DOMAIN list = 1 .. L
  BY DEF Types, ForumType
<1>2. Listed = 1 .. L
  BY <1>1, InOrderListed
<1>3. p \notin Listed /\ \A q \in Post : q < p => q \in Listed
  BY DEF ToFront, Movable
<1>4. p = L + 1
  <2> HIDE DEF L
  <2>1. p \in Nat /\ p >= 1 /\ p <= NPosts /\ NPosts \in Nat
    BY NPostsAssumption DEF Post
  <2>2. p > L
    BY <1>1, <1>2, <1>3, <2>1
  <2>3. L + 1 < p => L + 1 \in Post
    BY <1>1, <2>1, <2>2 DEF Post
  <2>4. ~ (L + 1 < p)
    BY <1>1, <1>2, <1>3, <2>3
  <2> QED
    BY <1>1, <2>1, <2>2, <2>4
<1>5. {i \in DOMAIN list : list[i] # p} = DOMAIN list
  BY <1>3 DEF Listed
<1>6. list' = one \o Picked(list, DOMAIN list)
  BY <1>5 DEF ToFront
<1>7. list' = one \o list
  BY <1>1, <1>6, AllPicked
<1>8. one \in Seq(Post) /\ Len(one) = 1 /\ one[1] = p
  OBVIOUS
<1> HIDE DEF one
<1>9. /\ Len(one \o list) = Len(one) + L
      /\ \A i \in 1 .. Len(one) + L : (one \o list)[i] = IF i <= Len(one) THEN one[i] ELSE list[i - Len(one)]
  BY <1>1, <1>8, ConcatProperties, Zenon
<1>10. /\ Len(list') = L + 1
       /\ \A i \in 1 .. 1 + L : list'[i] = IF i <= 1 THEN one[i] ELSE list[i - 1]
  BY <1>1, <1>7, <1>8, <1>9
<1>11. DOMAIN list' = 1 .. L + 1
  <2>1. list' \in Seq(Post)
    BY <1>1, <1>7, <1>8, ConcatProperties
  <2> QED
    BY <1>10, <2>1
<1>12. ASSUME NEW i \in 1 .. L + 1 PROVE list'[i] = L + 2 - i
  <2> HIDE DEF L
  <2>1. CASE i = 1
    BY <1>1, <1>4, <1>8, <1>10, <2>1
  <2>2. CASE i # 1
    <3>1. i - 1 \in 1 .. L /\ list'[i] = list[i - 1]
      BY <1>1, <1>10, <2>2
    <3>2. list[i - 1] = L + 1 - (i - 1)
      BY <1>1, <3>1 DEF InOrder, L
    <3> QED
      BY <1>1, <3>1, <3>2
  <2> QED
    BY <2>1, <2>2
<1> HIDE DEF L
<1>13. \A i \in DOMAIN list' : list'[i] = Len(list') + 1 - i
  BY <1>1, <1>10, <1>11, <1>12
<1> QED
  BY <1>4, <1>10, <1>13 DEF L

(* Nothing else changes the list. *)
LEMMA ListSteps ==
  ASSUME [Next]_vars
  PROVE  UNCHANGED list \/ \E p \in Post : ToFront(p)
BY DEF Next, Discover, Drain, CommitStep, vars, environment, Open, StartDeep, Locate, ScanPage,
       MarkPage, FinishDeep, StartShallow, ReadPage, Enqueue, StartDrain, NothingToDo, EndDrain,
       Staged, Indexed, NetGot, ImgGot, Hole, Crash, CrashInAppend, MendedByHand

(* What has been read grows by a page or is given up. *)
LEMMA FoundSteps ==
  ASSUME [Next]_vars
  PROVE  \/ found' = found \/ found' = <<>>
         \/ ReadPage /\ found' = found \o Page(page)
BY DEF Next, Discover, Drain, CommitStep, vars, paging, NoPaging, Exit, ToFront, Open, StartDeep, Locate, ScanPage,
       MarkPage, FinishDeep, StartShallow, ReadPage, Enqueue, StartDrain, NothingToDo, EndDrain,
       Staged, Indexed, NetGot, ImgGot, Hole, Crash, CrashInAppend, MendedByHand

(* The order of the list and what is known of it. *)
LEMMA NextInOrder ==
  ASSUME Types, Held, QueueKnown, InOrder, ~ByReply, [Next]_vars
  PROVE  InOrder'
<1> DEFINE L == Len(list)
<1>1. /\ list \in Seq(Post) /\ L \in Nat /\ DOMAIN list = 1 .. L
      /\ page \in Nat /\ found \in Seq(Post)
  BY DEF Types, ForumType, PagingType
<1>2. \A n \in Nat : n >= 1 => Page(n) \in Seq(Post) /\ Queued(Page(n)) \subseteq 1 .. L
  BY <1>1, PagePosts, PageRows
<1>3. Known \subseteq 1 .. L /\ Queued(found) \subseteq 1 .. L
  BY DEF InOrder
<1>4. Known' \subseteq 1 .. L
  <2> HIDE DEF Known
  <2>1. CASE Known' = Known
    BY <1>3, <2>1
  <2>2. CASE page >= 1 /\ \E A \in SUBSET Post : OldestOf(A, Queued(Page(page))) /\ Known' = Known \cup A
    BY <1>1, <1>2, <1>3, <2>2 DEF OldestOf
  <2>3. CASE \E A \in SUBSET Post : OldestOf(A, Queued(found)) /\ Known' = Known \cup A
    BY <1>3, <2>3 DEF OldestOf
  <2> QED
    BY <2>1, <2>2, <2>3, KnownSteps
<1>5. Queued(found') \subseteq 1 .. L
  <2>1. CASE found' = found \/ found' = <<>>
    BY <1>3, <2>1, NothingQueued
  <2>2. CASE ReadPage /\ found' = found \o Page(page)
    <3>1. page >= 1
      BY <2>2 DEF ReadPage, Types, Reach
    <3>2. Page(page) \in Seq(Post) /\ Queued(Page(page)) \subseteq 1 .. L
      BY <1>1, <1>2, <3>1
    <3>3. Queued(found \o Page(page)) = Queued(found) \cup Queued(Page(page))
      BY <1>1, <3>2, ConcatQueued
    <3>4. Queued(found') = Queued(found) \cup Queued(Page(page))
      BY <2>2, <3>3
    <3> QED
      BY <1>3, <3>2, <3>4
  <2> QED
    BY <2>1, <2>2, FoundSteps
<1>6. Queued(found)' = Queued(found')
  BY DEF Queued
<1>7. CASE UNCHANGED list
  BY <1>4, <1>5, <1>6, <1>7 DEF InOrder
<1>8. CASE \E p \in Post : ToFront(p)
  <2>1. Len(list') = L + 1 /\ \A i \in DOMAIN list' : list'[i] = Len(list') + 1 - i
    BY <1>8, Published
  <2>2. 1 .. L \subseteq 1 .. L + 1
    BY <1>1
  <2> HIDE DEF L
  <2> QED
    BY <1>4, <1>5, <1>6, <2>1, <2>2 DEF InOrder
<1> QED
  BY <1>7, <1>8, ListSteps

-----------------------------------------------------------------------------
(* What a full scan answers for. *)

(* How many of the first b posts are not among K. *)
Lacking(b, K) == Cardinality((1 .. b) \ K)

(* How many posts a full scan leaves behind it: the moves of the list that *)
(* it answers for.  A scan that is to be resumed starts from its anchor.   *)
Answered ==
  /\ phase = "deep" => Lacking(Behind(page), Known) <= pushed
  /\ phase = "mark" => Lacking(Behind(page - 1), Known) <= pushed /\ front \in 1 .. Behind(page - 1)
  /\ phase = "locate" => Behind(total) <= pushed /\ Lacking(anchor, Known) <= pushed
  /\ ~deep_done /\ deep_anchor # NoAnchor => Lacking(deep_anchor, Known) <= owed

(* Fewer posts are lacking of a part. *)
LEMMA LackingPart ==
  ASSUME NEW b \in Int, NEW c \in Int, NEW K, NEW M, (1 .. b) \ K \subseteq (1 .. c) \ M
  PROVE  Lacking(b, K) \in Nat /\ Lacking(c, M) \in Nat /\ Lacking(b, K) <= Lacking(c, M)
<1>1. IsFiniteSet(1 .. c)
  BY FS_Interval
<1>2. IsFiniteSet((1 .. c) \ M)
  BY <1>1, FS_Subset
<1> QED
  BY <1>2, Fewer DEF Lacking

(* No more than there are, *)
LEMMA LackingAtMost ==
  ASSUME NEW b \in Int, NEW k \in Nat, b <= k, NEW K
  PROVE  Lacking(b, K) <= k
<1>1. IsFiniteSet(1 .. k) /\ Cardinality(1 .. k) = k
  <2>1. IsFiniteSet(1 .. k) /\ Cardinality(1 .. k) = IF 1 > k THEN 0 ELSE k - 1 + 1
    BY FS_Interval
  <2> QED
    BY <2>1
<1>2. (1 .. b) \ K \subseteq 1 .. k
  OBVIOUS
<1>3. Cardinality((1 .. b) \ K) <= Cardinality(1 .. k)
  BY <1>1, <1>2, Fewer
<1> QED
  BY <1>1, <1>3 DEF Lacking

(* and one more post is at most one more. *)
LEMMA LackingOneMore ==
  ASSUME NEW b \in Int, NEW K
  PROVE  Lacking(b + 1, K) <= Lacking(b, K) + 1 /\ Lacking(b, K) \in Nat /\ Lacking(b + 1, K) \in Nat
<1> DEFINE S == (1 .. b) \ K
<1>1. IsFiniteSet(1 .. b) /\ IsFiniteSet(1 .. b + 1)
  <2>1. b + 1 \in Int
    OBVIOUS
  <2> QED
    BY <2>1, FS_Interval
<1>2. IsFiniteSet(S) /\ Cardinality(S) \in Nat
  BY <1>1, FS_Subset, FS_CardinalityType
<1>3. (1 .. b + 1) \ K \subseteq S \cup {b + 1}
  OBVIOUS
<1> DEFINE w == b + 1
           T == (1 .. w) \ K
<1>4. T \subseteq S \cup {w}
  BY <1>3
<1> HIDE DEF S, w, T
<1>5. IsFiniteSet(S \cup {w}) /\ Cardinality(S \cup {w}) <= Cardinality(S) + 1
      /\ Cardinality(S \cup {w}) \in Nat
  <2>1. /\ IsFiniteSet(S \cup {w})
        /\ Cardinality(S \cup {w}) = IF w \in S THEN Cardinality(S) ELSE Cardinality(S) + 1
    BY <1>2, FS_AddElement
  <2> QED
    BY <1>2, <2>1
<1>6. Cardinality(T) <= Cardinality(S \cup {w}) /\ Cardinality(T) \in Nat
  BY <1>4, <1>5, Fewer
<1>7. Cardinality(T) <= Cardinality(S) + 1
  BY <1>2, <1>5, <1>6
<1> QED
  BY <1>2, <1>6, <1>7 DEF Lacking, S, T, w

(* Whatever becomes known, no more is lacking. *)
LEMMA LackingKept ==
  ASSUME NEW b \in Int, Known \subseteq Known'
  PROVE  Lacking(b, Known') <= Lacking(b, Known) /\ Lacking(b, Known') \in Nat /\ Lacking(b, Known) \in Nat
<1>1. (1 .. b) \ Known' \subseteq (1 .. b) \ Known
  OBVIOUS
<1> QED
  BY <1>1, LackingPart

(* The anchor of a scan that was killed. *)
LEMMA AnchorKept ==
  ASSUME Types, Answered, Known \subseteq Known', owed' = owed, deep_anchor' = deep_anchor,
         deep_done' = deep_done \/ deep_done'
  PROVE  ~deep_done' /\ deep_anchor' # NoAnchor => Lacking(deep_anchor', Known') <= owed'
<1> SUFFICES ASSUME ~deep_done, deep_anchor # NoAnchor, ~deep_done'
             PROVE  Lacking(deep_anchor, Known') <= owed
  OBVIOUS
<1>1. deep_anchor \in Int /\ owed \in Nat
  BY NPostsAssumption DEF Types, StoreType, CountType, Post, NoAnchor
<1>2. Lacking(deep_anchor, Known) <= owed
  BY DEF Answered
<1> HIDE DEF Known
<1>3. /\ Lacking(deep_anchor, Known') <= Lacking(deep_anchor, Known)
      /\ Lacking(deep_anchor, Known') \in Nat /\ Lacking(deep_anchor, Known) \in Nat
  BY <1>1, LackingKept
<1> QED
  BY <1>1, <1>2, <1>3

(* Numbers of the places of a scan. *)
LEMMA BehindInt ==
  ASSUME list \in Seq(Post), NEW n \in Int
  PROVE  Behind(n) \in Int
<1>1. PageSize \in Int
  BY WebSyncAssumption
<1>2. n * PageSize \in Int
  BY <1>1
<1>3. Len(list) \in Int
  OBVIOUS
<1> QED
  BY <1>2, <1>3 DEF Behind

(* A page of the full scan. *)
LEMMA ScannedPage ==
  ASSUME Types, Held, InOrder, Answered, ScanPage
  PROVE  Lacking(Behind(page - 1), Known') <= pushed /\ front' \in 1 .. Behind(page - 1)
<1> DEFINE b == Behind(page)
           c == Behind(page - 1)
<1>1. /\ page \in Nat /\ page >= 1 /\ page <= PagesIn(list) /\ list \in Seq(Post)
      /\ phase = "deep" /\ front' = Page(page)[1] /\ phase # "enqueue"
  BY DEF ScanPage, Types, ForumType, PagingType, Reach
<1>2. /\ b \in Int /\ c \in Int /\ c <= Len(list) /\ Len(list) \in Nat
      /\ Queued(Page(page)) = {q \in 1 .. Len(list) : b < q /\ q <= c}
      /\ 1 <= c /\ Page(page)[1] = c
  BY <1>1, PagePosts
<1>4. Lacking(b, Known) <= pushed /\ pushed \in Nat
  BY <1>1 DEF Answered, Types, CountType
<1>5. Known' = Known \cup Queued(Page(page))
  <2>1. Ascending(Page(page)) \in Seq(Post) /\ Page(page) \in Seq(Post)
    BY <1>1, PageType DEF Types
  <2>2. Known = Seen
    BY <1>1 DEF Held
  <2>3. Known' = Known \cup Queued(Ascending(Page(page)))
    BY <2>1, <2>2, AddPendingKnown DEF ScanPage, Types
  <2> HIDE DEF Known
  <2> QED
    BY <2>1, <2>3, AscendingQueued
<1> HIDE DEF b, c, Known
<1>6. (1 .. c) \ Known' \subseteq (1 .. b) \ Known
  <2> SUFFICES ASSUME NEW q \in 1 .. c, q \notin Known' PROVE q \in 1 .. b /\ q \notin Known
    OBVIOUS
  <2>1. q \in 1 .. Len(list) /\ q <= c /\ q \in Int /\ q >= 1
    BY <1>2
  <2>2. q \notin Known /\ q \notin Queued(Page(page))
    BY <1>5
  <2>3. ~ (b < q)
    BY <1>2, <2>1, <2>2
  <2> QED
    BY <1>2, <2>1, <2>2, <2>3
<1>7. Lacking(c, Known') <= Lacking(b, Known) /\ Lacking(c, Known') \in Nat /\ Lacking(b, Known) \in Nat
  BY <1>2, <1>6, LackingPart
<1>8. Lacking(c, Known') <= pushed
  BY <1>4, <1>7
<1>9. front' \in 1 .. c
  BY <1>1, <1>2
<1> QED
  BY <1>8, <1>9 DEF c

(* A post published while the scan runs. *)
LEMMA PublishedMeanwhile ==
  ASSUME Types, InOrder, Answered, ~ByReply, NEW p \in Post, ToFront(p)
  PROVE  /\ phase = "deep" => Lacking(Behind(page)', Known) <= pushed'
         /\ phase = "mark" => Lacking(Behind(page - 1)', Known) <= pushed' /\ front \in 1 .. Behind(page - 1)'
         /\ phase = "locate" => Behind(total)' <= pushed' /\ Lacking(anchor, Known) <= pushed'
<1>1. /\ list \in Seq(Post) /\ page \in Nat /\ total \in Nat /\ pushed \in Nat /\ Len(list) \in Nat
      /\ page - 1 \in Int /\ anchor \in Int
  BY NPostsAssumption DEF Types, ForumType, PagingType, CountType, Post, NoAnchor
<1>2. Len(list') = Len(list) + 1
  BY Published
<1>3. UNCHANGED <<page, total, phase>> /\ (DeepScan => pushed' = pushed + 1)
  BY DEF ToFront, paging
<1>4. Behind(page) \in Int /\ Behind(page - 1) \in Int /\ Behind(total) \in Int
  BY <1>1, BehindInt
<1>5. PageSize \in Int /\ page * PageSize \in Int /\ (page - 1) * PageSize \in Int /\ total * PageSize \in Int
  <2>1. PageSize \in Int
    BY WebSyncAssumption
  <2>2. page * PageSize \in Int /\ total * PageSize \in Int
    BY <1>1, <2>1
  <2>3. \A m \in Int : m * PageSize \in Int
    BY <2>1
  <2> QED
    BY <1>1, <2>1, <2>2, <2>3
<1>6. /\ Behind(page)' = Behind(page) + 1
      /\ Behind(page - 1)' = Behind(page - 1) + 1
      /\ Behind(total)' = Behind(total) + 1
  BY <1>1, <1>2, <1>3, <1>5 DEF Behind
<1> HIDE DEF Known
<1>7. ASSUME phase = "deep" PROVE Lacking(Behind(page)', Known) <= pushed'
  <2>1. Lacking(Behind(page), Known) <= pushed /\ pushed' = pushed + 1
    BY <1>3, <1>7 DEF Answered, DeepScan
  <2>2. /\ Lacking(Behind(page) + 1, Known) <= Lacking(Behind(page), Known) + 1
        /\ Lacking(Behind(page), Known) \in Nat /\ Lacking(Behind(page) + 1, Known) \in Nat
    BY <1>4, LackingOneMore
  <2> QED
    BY <1>1, <1>6, <2>1, <2>2
<1>8. ASSUME phase = "mark"
      PROVE  Lacking(Behind(page - 1)', Known) <= pushed' /\ front \in 1 .. Behind(page - 1)'
  <2>1. /\ Lacking(Behind(page - 1), Known) <= pushed /\ pushed' = pushed + 1
        /\ front \in 1 .. Behind(page - 1)
    BY <1>3, <1>8 DEF Answered, DeepScan
  <2>2. /\ Lacking(Behind(page - 1) + 1, Known) <= Lacking(Behind(page - 1), Known) + 1
        /\ Lacking(Behind(page - 1), Known) \in Nat /\ Lacking(Behind(page - 1) + 1, Known) \in Nat
    BY <1>4, LackingOneMore
  <2>3. Lacking(Behind(page - 1)', Known) <= pushed'
    BY <1>1, <1>6, <2>1, <2>2
  <2>4. front \in 1 .. Behind(page - 1)'
    BY <1>4, <1>6, <2>1
  <2> QED
    BY <2>3, <2>4
<1>9. ASSUME phase = "locate"
      PROVE  Behind(total)' <= pushed' /\ Lacking(anchor, Known) <= pushed'
  <2>1. /\ Behind(total) <= pushed /\ Lacking(anchor, Known) <= pushed
        /\ pushed' = pushed + 1
    BY <1>3, <1>9 DEF Answered, DeepScan
  <2>2. Lacking(anchor, Known) \in Nat
    BY <1>1, LackingPart
  <2> QED
    BY <1>1, <1>4, <1>6, <2>1, <2>2
<1> QED
  BY <1>7, <1>8, <1>9

(* The scan begins. *)
LEMMA StartedDeep ==
  ASSUME Types, Answered, NEW forced \in BOOLEAN, StartDeep(forced), Known' = Known
  PROVE  /\ phase' = "deep" => Lacking(Behind(page)', Known') <= pushed'
         /\ phase' = "locate" => Behind(total)' <= pushed' /\ Lacking(anchor', Known') <= pushed'
<1> DEFINE n == PagesIn(list)
<1>1. list \in Seq(Post) /\ Len(list) \in Nat /\ list' = list
  BY DEF Types, ForumType, StartDeep, environment
<1>2. n \in Nat /\ Len(list) <= n * PageSize /\ n * PageSize \in Int
  <2>1. PageSize \in Nat
    BY WebSyncAssumption
  <2>2. n \in Nat /\ Len(list) <= n * PageSize
    BY <1>1, PageCount
  <2> HIDE DEF n
  <2> QED
    BY <2>1, <2>2
<1>3. Behind(n) \in Int /\ Behind(n) <= 0
  BY <1>1, <1>2 DEF Behind
<1>4. total' = n
  BY DEF StartDeep
<1>5. pushed \in Nat /\ owed \in Nat
  BY DEF Types, CountType
<1> HIDE DEF n, Known
<1>6. CASE forced \/ deep_anchor = NoAnchor
  <2>1. phase' = "deep" /\ page' = n /\ pushed' = 0
    BY <1>6 DEF StartDeep, n
  <2>2. Behind(page)' = Behind(n)
    BY <1>1, <2>1 DEF Behind
  <2>3. 0 \in Nat /\ Lacking(Behind(n), Known') <= 0
    BY <1>3, LackingAtMost
  <2> QED
    BY <2>1, <2>2, <2>3
<1>7. CASE ~ (forced \/ deep_anchor = NoAnchor)
  <2>1. phase' = "locate" /\ anchor' = deep_anchor /\ pushed' = owed /\ ~deep_done
    BY <1>7 DEF StartDeep
  <2>2. Behind(total)' = Behind(n)
    BY <1>1, <1>4 DEF Behind
  <2>3. Lacking(deep_anchor, Known) <= owed
    BY <1>7, <2>1 DEF Answered
  <2>4. Behind(total)' <= pushed'
    BY <1>3, <1>5, <2>1, <2>2
  <2> QED
    BY <2>1, <2>3, <2>4
<1> QED
  BY <1>6, <1>7

(* The place where it goes on. *)
LEMMA Located ==
  ASSUME Types, InOrder, Answered, Locate
  PROVE  phase' = "deep" => Lacking(Behind(page)', Known) <= pushed
<1>1. /\ list \in Seq(Post) /\ Len(list) \in Nat /\ list' = list /\ phase = "locate"
      /\ total \in Nat /\ page \in Nat /\ page >= 1 /\ pushed \in Nat /\ anchor \in Int
  BY NPostsAssumption DEF Types, ForumType, PagingType, CountType, Locate, environment, Reach, Post, NoAnchor
<1>2. Behind(total) <= pushed /\ Lacking(anchor, Known) <= pushed
  BY <1>1 DEF Answered
<1>3. Behind(page) \in Int /\ Behind(total) \in Int
  BY <1>1, BehindInt
<1> HIDE DEF Known
<1>4. CASE anchor \in Queued(Page(page)) /\ page' = page
  <2>1. Behind(page) < anchor
    BY <1>1, <1>4, PagePosts
  <2>2. (1 .. Behind(page)) \ Known \subseteq (1 .. anchor) \ Known
    BY <1>1, <1>3, <2>1
  <2>3. /\ Lacking(Behind(page), Known) <= Lacking(anchor, Known)
        /\ Lacking(Behind(page), Known) \in Nat /\ Lacking(anchor, Known) \in Nat
    BY <1>1, <1>3, <2>2, LackingPart
  <2>4. Behind(page)' = Behind(page)
    BY <1>1, <1>4 DEF Behind
  <2>5. Lacking(Behind(page), Known) <= pushed
    BY <1>1, <1>2, <2>3
  <2> QED
    BY <2>4, <2>5
<1>5. CASE page' = total
  <2>1. Behind(page)' = Behind(total)
    BY <1>1, <1>5 DEF Behind
  <2>2. Lacking(Behind(total), Known) <= pushed
    BY <1>1, <1>2, <1>3, LackingAtMost
  <2> QED
    BY <2>1, <2>2
<1>6. phase' = "deep" => (anchor \in Queued(Page(page)) /\ page' = page) \/ page' = total
  BY <1>1 DEF Locate, Resume
<1> QED
  BY <1>4, <1>5, <1>6

(* Every step keeps the account. *)
LEMMA NextAnswered ==
  ASSUME Types, Held, QueueKnown, InOrder, Answered, ~ByReply, [Next]_vars
  PROVE  Answered'
<1>k. Known \subseteq Known'
  BY NextHeld
<1>u. UNCHANGED <<index, pend>> => Known' = Known
  BY KnownFrame
<1>t. list \in Seq(Post) /\ page \in Nat /\ total \in Nat /\ pushed \in Nat /\ anchor \in Int
  BY NPostsAssumption DEF Types, ForumType, PagingType, CountType, Post, NoAnchor
<1> DEFINE Anchored == ~deep_done /\ deep_anchor # NoAnchor => Lacking(deep_anchor, Known) <= owed
<1>a. ASSUME owed' = owed, deep_anchor' = deep_anchor, deep_done' = deep_done \/ deep_done'
      PROVE  Anchored'
  <2>1. ~deep_done' /\ deep_anchor' # NoAnchor => Lacking(deep_anchor', Known') <= owed'
    BY <1>a, <1>k, AnchorKept
  <2> QED
    BY <2>1 DEF Lacking
<1>f. ASSUME phase' \notin {"locate", "deep", "mark"}, Anchored' PROVE Answered'
  BY <1>f DEF Answered
<1>1. ASSUME NEW p \in Post, ToFront(p) PROVE Answered'
  <2>1. UNCHANGED <<index, pend, deep_done, deep_anchor, owed, phase, anchor, front>>
    BY <1>1 DEF ToFront, storeVars, files, paging
  <2>2. Known' = Known /\ Anchored'
    BY <1>a, <1>u, <2>1
  <2>3. /\ phase = "deep" => Lacking(Behind(page)', Known) <= pushed'
        /\ phase = "mark" => Lacking(Behind(page - 1)', Known) <= pushed' /\ front \in 1 .. Behind(page - 1)'
        /\ phase = "locate" => Behind(total)' <= pushed' /\ Lacking(anchor, Known) <= pushed'
    BY <1>1, PublishedMeanwhile
  <2> HIDE DEF Known
  <2> QED
    BY <2>1, <2>2, <2>3 DEF Answered, Lacking
<1>2. ASSUME NEW forced \in BOOLEAN, StartDeep(forced) PROVE Answered'
  <2>1. UNCHANGED <<index, pend, deep_done, deep_anchor, owed>> /\ phase' \in {"deep", "locate"}
    BY <1>2 DEF StartDeep, storeVars, files
  <2>2. Known' = Known /\ Anchored'
    BY <1>a, <1>u, <2>1
  <2>3. /\ phase' = "deep" => Lacking(Behind(page)', Known') <= pushed'
        /\ phase' = "locate" => Behind(total)' <= pushed' /\ Lacking(anchor', Known') <= pushed'
    BY <1>2, <2>2, StartedDeep
  <2> HIDE DEF Known
  <2> QED
    BY <2>1, <2>2, <2>3 DEF Answered, Lacking
<1>3. CASE Locate
  <2>1. /\ UNCHANGED <<index, pend, deep_done, deep_anchor, owed, pushed, anchor, total, list>>
        /\ phase = "locate" /\ phase' \in {"deep", "locate"}
    BY <1>3 DEF Locate, storeVars, files, history, environment
  <2>2. Known' = Known /\ Anchored'
    BY <1>a, <1>u, <2>1
  <2>3. phase' = "deep" => Lacking(Behind(page)', Known) <= pushed
    BY <1>3, Located
  <2>4. Behind(total) <= pushed /\ Lacking(anchor, Known) <= pushed
    BY <2>1 DEF Answered
  <2>5. Behind(total)' = Behind(total)
    BY <2>1 DEF Behind
  <2> HIDE DEF Known
  <2> QED
    BY <2>1, <2>2, <2>3, <2>4, <2>5 DEF Answered, Lacking
<1>4. CASE ScanPage
  <2>1. UNCHANGED <<deep_done, deep_anchor, owed, pushed, page, list>> /\ phase' = "mark"
    BY <1>4 DEF ScanPage, AddPending, history, environment
  <2>2. Anchored'
    BY <1>a, <2>1
  <2>3. Lacking(Behind(page - 1), Known') <= pushed /\ front' \in 1 .. Behind(page - 1)
    BY <1>4, ScannedPage
  <2>4. Behind(page - 1)' = Behind(page - 1)
    BY <2>1 DEF Behind
  <2> HIDE DEF Known
  <2> QED
    BY <2>1, <2>2, <2>3, <2>4 DEF Answered, Lacking
<1>5. CASE MarkPage
  <2>1. /\ UNCHANGED <<index, pend, pushed, list>> /\ phase = "mark" /\ phase' = "deep"
        /\ page' = page - 1 /\ deep_anchor' = front /\ owed' = pushed
    BY <1>5 DEF MarkPage, SetProgress, environment
  <2>2. Known' = Known
    BY <1>u, <2>1
  <2>3. Lacking(Behind(page - 1), Known) <= pushed /\ front \in 1 .. Behind(page - 1)
    BY <2>1 DEF Answered
  <2>4. Behind(page)' = Behind(page - 1)
    BY <2>1 DEF Behind
  <2>5. Behind(page - 1) \in Int
    BY <1>t, BehindInt
  <2> HIDE DEF Known
  <2>6. Lacking(front, Known) <= pushed
    <3>1. front \in Int /\ (1 .. front) \ Known \subseteq (1 .. Behind(page - 1)) \ Known
      BY <2>3, <2>5
    <3>2. /\ Lacking(front, Known) <= Lacking(Behind(page - 1), Known)
          /\ Lacking(front, Known) \in Nat /\ Lacking(Behind(page - 1), Known) \in Nat
      BY <2>5, <3>1, LackingPart
    <3> QED
      BY <1>t, <2>3, <3>2
  <2> QED
    BY <2>1, <2>2, <2>3, <2>4, <2>6 DEF Answered, Lacking
<1>6. CASE FinishDeep
  <2>1. deep_done' = TRUE /\ phase' = "discovered"
    BY <1>6 DEF FinishDeep, SetDeepDone
  <2> QED
    BY <1>f, <2>1
<1>7. CASE Open \/ StartShallow \/ ReadPage \/ Enqueue
  <2>1. UNCHANGED <<deep_done, deep_anchor, owed>> /\ phase' \in {"open", "shallow", "enqueue", "discovered"}
    BY <1>7 DEF Open, OpenStore, StartShallow, ReadPage, Enqueue, AddPending, storeVars, files, history
  <2> QED
    BY <1>a, <1>f, <2>1
<1>8. CASE StartDrain \/ NothingToDo \/ EndDrain \/ Staged \/ Indexed
  <2>1. UNCHANGED <<deep_done, deep_anchor, owed>> /\ phase' \in {"drain", "closed"}
    BY <1>8 DEF StartDrain, NothingToDo, EndDrain, Exit, CompactPending, Staged, PutDirectory, Indexed, AppendIndex,
       storeVars, files, history
  <2> QED
    BY <1>a, <1>f, <2>1
<1>9. ASSUME NEW p \in Post, NetGot(p) \/ ImgGot(p) PROVE Answered'
  <2>1. UNCHANGED <<deep_done, deep_anchor, owed>> /\ phase' \in {"drain", "closed"}
    BY <1>9 DEF NetGot, ImgGot, Exit, storeVars, files, history
  <2> QED
    BY <1>a, <1>f, <2>1
<1>10. ASSUME NEW i \in 1 .. Len(queue), Hole(i) PROVE Answered'
  <2>1. UNCHANGED <<deep_done, deep_anchor, owed>> /\ phase' \in {"drain", "closed"}
    BY <1>10 DEF Hole, Exit, storeVars, files, history
  <2> QED
    BY <1>a, <1>f, <2>1
<1>11. CASE Crash \/ CrashInAppend
  <2>1. UNCHANGED <<deep_done, deep_anchor, owed>> /\ phase' = "closed"
    BY <1>11 DEF Crash, CrashInAppend, AddPendingInPart, Exit, files, history
  <2> QED
    BY <1>a, <1>f, <2>1
<1>12. CASE UNCHANGED vars \/ MendedByHand
  <2>1. UNCHANGED <<index, pend, deep_done, deep_anchor, owed, pushed, page, total, anchor, front, phase, list>>
    BY <1>12 DEF vars, MendedByHand, storeVars, files, history, paging, environment
  <2>2. Known' = Known
    BY <1>u, <2>1
  <2> HIDE DEF Known
  <2> QED
    BY <2>1, <2>2 DEF Answered, Lacking, Behind
<1> QED
  BY <1>1, <1>2, <1>3, <1>4, <1>5, <1>6, <1>7, <1>8, <1>9, <1>10, <1>11, <1>12 DEF Next, Discover, Drain, CommitStep

(* Before the first run the list is in order and no scan has begun. *)
LEMMA InitInOrder == Init => InOrder /\ Answered
<1> SUFFICES ASSUME Init PROVE InOrder /\ Answered
  OBVIOUS
<1>1. NInitial \in Nat
  BY WebSyncAssumption, NPostsAssumption
<1>2. list = [i \in 1 .. NInitial |-> NInitial + 1 - i] /\ index = {} /\ pend = <<>> /\ found = <<>>
  BY DEF Init, StoreInit
<1>3. Len(list) = NInitial /\ DOMAIN list = 1 .. NInitial
  <2>1. list \in [1 .. NInitial -> Int]
    BY <1>1, <1>2
  <2> QED
    BY <1>1, <2>1, SequenceMade
<1>4. Queued(pend) = {} /\ Queued(found) = {}
  BY <1>2, NothingQueued
<1>5. InOrder
  BY <1>1, <1>2, <1>3, <1>4 DEF InOrder, Known
<1>6. Answered
  BY DEF Init, StoreInit, Answered
<1> QED
  BY <1>5, <1>6

(* The whole invariant, where only new posts come to the front. *)
THEOREM AccountKept ==
  ASSUME ~ByReply
  PROVE  Spec => [](Types /\ Held /\ QueueKnown /\ InOrder /\ Answered)
<1> DEFINE I == Types /\ Held /\ QueueKnown /\ InOrder /\ Answered
<1>1. Init => I
  BY InitTypes, InitHeld, InitInOrder
<1>2. I /\ [Next]_vars => I'
  <2>1. Types /\ [Next]_vars => Types'
    BY NextStore, NextForum, NextPaging, NextDrain, NextCount DEF Types
  <2> QED
    BY <2>1, NextHeld, NextInOrder, NextAnswered
<1> QED
  BY <1>1, <1>2, PTL DEF Spec

(* A full scan that has come to page 1, however often it was killed and    *)
(* resumed, lacks no more posts than were published while it ran.          *)
THEOREM ScanAccountsForAll ==
  ASSUME ~ByReply
  PROVE  Spec => []AccountedFor
<1> DEFINE I == Types /\ Held /\ QueueKnown /\ InOrder /\ Answered
<1>1. I => AccountedFor
  <2> SUFFICES ASSUME I, phase = "deep", page = 0 PROVE Cardinality(Unseen) <= pushed
    BY DEF AccountedFor
  <2>1. Known = Seen
    BY DEF Held
  <2>2. list \in Seq(Post) /\ Len(list) \in Nat
    BY DEF Types, ForumType
  <2>3. Behind(0) = Len(list)
    <3>1. PageSize \in Nat
      BY WebSyncAssumption
    <3> QED
      BY <2>2, <3>1 DEF Behind
  <2>4. Unseen = (1 .. Len(list)) \ Known
    BY <2>1, <2>2, InOrderListed DEF Unseen
  <2> QED
    BY <2>3, <2>4 DEF Answered, Lacking
<1>2. Spec => []I
  BY AccountKept
<1> HIDE DEF I
<1> QED
  BY <1>1, <1>2, PTL

-----------------------------------------------------------------------------
(* Holes in the middle. *)

(* Of the posts down to this one an incremental scan has read all that are *)
(* older than one it has read.                                             *)
ReadDownTo(c) == \A q \in Queued(found) : \A r \in 1 .. q : r > c => r \in Queued(found)

(* It stopped there because nothing is behind, because the next one is     *)
(* known, or because the list had no more pages when it began.             *)
StoppedAt(c) == c <= 0 \/ c + 1 \in Known \/ (page >= total /\ PagesIn(list) > total)

(* How far an incremental scan has come. *)
ReadInOrder ==
  /\ phase = "shallow" => ReadDownTo(Behind(page - 1))
  /\ phase = "enqueue" => \E c \in Int : ReadDownTo(c) /\ StoppedAt(c)

(* A page read adds the next posts. *)
LEMMA PageRead ==
  ASSUME Types, Held, InOrder, ReadInOrder, ReadPage
  PROVE  /\ \A q \in Queued(found') : \A r \in 1 .. q : r > Behind(page) => r \in Queued(found')
         /\ phase' = "enqueue" => StoppedAt(Behind(page))
<1> DEFINE b == Behind(page)
           c == Behind(page - 1)
           L == Len(list)
<1>1. /\ page \in Nat /\ page >= 1 /\ total \in Nat /\ list \in Seq(Post) /\ L \in Nat
      /\ found \in Seq(Post) /\ phase = "shallow"
      /\ list' = list /\ total' = total /\ UNCHANGED <<index, pend>>
  BY DEF ReadPage, Types, ForumType, PagingType, Reach, storeVars, files, environment
<1>2. /\ b \in Int /\ c \in Int /\ c <= L /\ c = b + PageSize
      /\ Queued(Page(page)) = {q \in 1 .. L : b < q /\ q <= c}
  BY <1>1, PagePosts
<1>3. Known' = Known
  BY <1>1, KnownFrame
<1>4. Page(page) \in Seq(Post)
  BY <1>1, PageRows
<1>5. Queued(found') = Queued(found) \cup Queued(Page(page))
  <2>1. Queued(found \o Page(page)) = Queued(found) \cup Queued(Page(page))
    BY <1>1, <1>4, ConcatQueued
  <2> QED
    BY <2>1 DEF ReadPage
<1>6. Queued(found) \subseteq 1 .. L
  BY DEF InOrder
<1>7. ReadDownTo(c)
  BY <1>1 DEF ReadInOrder
<1>9. PageSize \in Nat /\ PageSize >= 1 /\ STOP_PAGES \in Nat /\ STOP_PAGES >= 1
  BY WebSyncAssumption
<1>8. phase' = "enqueue" => page' = page /\ (page >= total \/ Queued(Page(page)) \subseteq Known)
  <2> SUFFICES ASSUME phase' = "enqueue", ~ (page >= total)
               PROVE  page' = page /\ Queued(Page(page)) \subseteq Known
    BY DEF ReadPage
  <2>1. quiet' >= STOP_PAGES /\ page' = page
    BY <1>1 DEF ReadPage
  <2>2. AllKnown(Page(page))
    BY <1>9, <2>1 DEF ReadPage
  <2> QED
    BY <1>1, <2>1, <2>2 DEF AllKnown, Held
<1> DEFINE F == Queued(found)
           G == Queued(found')
           R == Queued(Page(page))
<1>10. \A q \in F : \A r \in 1 .. q : r > c => r \in F
  BY <1>7 DEF ReadDownTo
<1>11. G = F \cup R /\ F \subseteq 1 .. L /\ R = {q \in 1 .. L : b < q /\ q <= c}
  BY <1>2, <1>5, <1>6
<1> HIDE DEF b, c, L, F, G, R, Known
<1>12. ASSUME NEW q \in G, NEW r \in 1 .. q, r > b PROVE r \in G
  <2>1. q \in 1 .. L /\ r \in 1 .. L
    BY <1>1, <1>11
  <2>2. CASE r <= c
    BY <1>2, <1>11, <1>12, <2>1, <2>2
  <2>3. CASE r > c
    <3>1. q \in F
      BY <1>2, <1>11, <2>1, <2>3
    <3>2. r \in F
      BY <1>10, <2>3, <3>1
    <3> QED
      BY <1>11, <3>2
  <2> QED
    BY <1>2, <2>1, <2>2, <2>3
<1>13. ASSUME phase' = "enqueue"
       PROVE  b <= 0 \/ b + 1 \in Known \/ (page >= total /\ PagesIn(list) > total)
  <2>1. CASE R \subseteq Known
    <3>1. b >= 1 => b + 1 \in 1 .. L /\ b + 1 <= c
      BY <1>1, <1>2, <1>9
    <3>2. b >= 1 => b + 1 \in R
      BY <1>2, <1>11, <3>1
    <3> QED
      BY <1>2, <2>1, <3>2
  <2>2. CASE page >= total /\ ~ (PagesIn(list) > total)
    <3>1. PagesIn(list) \in Nat /\ Len(list) <= PagesIn(list) * PageSize
      BY <1>1, PageCount
    <3> DEFINE n == PagesIn(list)
    <3>2. n \in Nat /\ n <= page
      BY <1>1, <2>2, <3>1
    <3>3. L <= n * PageSize
      BY <3>1 DEF L
    <3> HIDE DEF n
    <3>4. n * PageSize <= page * PageSize /\ n * PageSize \in Nat /\ page * PageSize \in Nat
      BY <1>1, <1>9, <3>2
    <3>5. b = L - page * PageSize
      BY DEF b, L, Behind
    <3> QED
      BY <1>1, <3>3, <3>4, <3>5
  <2> QED
    BY <1>8, <1>13, <2>1, <2>2 DEF R
<1>14. \A q \in Queued(found') : \A r \in 1 .. q : r > b => r \in Queued(found')
  BY <1>12 DEF G
<1>15. phase' = "enqueue" => StoppedAt(b)
  BY <1>13 DEF StoppedAt
<1> QED
  BY <1>14, <1>15 DEF b

(* Every step keeps the order in which an incremental scan reads. *)
LEMMA NextReadInOrder ==
  ASSUME Types, Held, QueueKnown, InOrder, ReadInOrder, ~ByReply, [Next]_vars
  PROVE  ReadInOrder'
<1>t. /\ list \in Seq(Post) /\ Len(list) \in Nat /\ page \in Nat /\ total \in Nat /\ page - 1 \in Int
      /\ PagesIn(list) \in Nat /\ PageSize \in Int
  BY PageCount, WebSyncAssumption DEF Types, ForumType, PagingType
<1>k. \A q \in Known : q \in Known'
  BY NextHeld
<1>f. ASSUME phase' \notin {"shallow", "enqueue"} PROVE ReadInOrder'
  BY <1>f DEF ReadInOrder
<1>1. ASSUME NEW p \in Post, ToFront(p) PROVE ReadInOrder'
  <2>1. UNCHANGED <<phase, page, total, found>> /\ Len(list') = Len(list) + 1
    BY <1>1, Published DEF ToFront, paging
  <2>2. Queued(found)' = Queued(found)
    BY <2>1 DEF Queued
  <2>3. list' \in Seq(Post) /\ PagesIn(list) <= PagesIn(list') /\ PagesIn(list)' = PagesIn(list')
    BY NextForum DEF ForumType, PagesIn
  <2>4. PagesIn(list') \in Nat
    BY <2>3, PageCount
  <2>5. ASSUME phase = "shallow" PROVE ReadDownTo(Behind(page - 1))'
    <3>1. ReadDownTo(Behind(page - 1))
      BY <2>5 DEF ReadInOrder
    <3>2. Behind(page - 1)' = Behind(page - 1) + 1 /\ Behind(page - 1) \in Int
      <4>1. (page - 1) * PageSize \in Int
        BY <1>t
      <4> QED
        BY <1>t, <2>1, <4>1 DEF Behind
    <3> DEFINE b == Behind(page - 1)
    <3> HIDE DEF b
    <3>3. \A q \in Queued(found) : \A r \in 1 .. q : r > b => r \in Queued(found)
      BY <3>1 DEF ReadDownTo, b
    <3>4. b \in Int
      BY <3>2 DEF b
    <3>5. \A q \in Queued(found) : \A r \in 1 .. q : r > b + 1 => r \in Queued(found)
      BY <3>3, <3>4
    <3>6. Behind(page - 1)' = b + 1
      BY <3>2 DEF b
    <3> QED
      BY <2>2, <3>5, <3>6 DEF ReadDownTo
  <2>6. ASSUME phase = "enqueue" PROVE \E c \in Int : ReadDownTo(c)' /\ StoppedAt(c)'
    <3>1. PICK c \in Int : ReadDownTo(c) /\ StoppedAt(c)
      BY <2>6 DEF ReadInOrder
    <3>2. ReadDownTo(c)'
      BY <2>2, <3>1 DEF ReadDownTo
    <3> HIDE DEF Known
    <3>3. StoppedAt(c)'
      BY <1>t, <1>k, <2>1, <2>3, <2>4, <3>1 DEF StoppedAt
    <3> QED
      BY <3>2, <3>3
  <2> QED
    BY <2>1, <2>5, <2>6 DEF ReadInOrder
<1>2. CASE StartShallow
  <2>1. page' = 1 /\ list' = list /\ found' = found /\ phase' = "shallow"
    BY <1>2 DEF StartShallow, environment
  <2>2. Behind(page - 1)' = Len(list)
    <3>1. Behind(page - 1)' = Len(list) - 0 * PageSize
      BY <2>1 DEF Behind
    <3> QED
      BY <1>t, <3>1
  <2>3. Queued(found)' = Queued(found) /\ Queued(found) \subseteq 1 .. Len(list)
    BY <2>1 DEF Queued, InOrder
  <2>4. \A q \in Queued(found) : \A r \in 1 .. q : ~ (r > Len(list))
    BY <1>t, <2>3
  <2>5. ReadDownTo(Behind(page - 1))'
    BY <2>2, <2>3, <2>4 DEF ReadDownTo
  <2> QED
    BY <2>1, <2>5 DEF ReadInOrder
<1>3. CASE ReadPage
  <2> DEFINE b == Behind(page)
  <2>1. /\ list' = list /\ total' = total
        /\ \/ phase' = "enqueue" /\ page' = page
           \/ phase' = "shallow" /\ page' = page + 1
    BY <1>3 DEF ReadPage, environment
  <2>2. /\ \A q \in Queued(found') : \A r \in 1 .. q : r > b => r \in Queued(found')
        /\ phase' = "enqueue" => StoppedAt(b)
    BY <1>3, PageRead
  <2>3. b \in Int
    BY <1>t, BehindInt
  <2>4. Queued(found)' = Queued(found')
    BY DEF Queued
  <2>5. phase' = "shallow" => Behind(page - 1)' = b
    <3>1. Behind(page - 1)' = Len(list') - (page' - 1) * PageSize
      BY DEF Behind
    <3>2. phase' = "shallow" => page' - 1 = page
      BY <1>t, <2>1
    <3>3. b = Len(list) - page * PageSize
      BY DEF Behind
    <3> QED
      BY <2>1, <3>1, <3>2, <3>3
  <2> HIDE DEF b
  <2>6. CASE phase' = "shallow"
    <3>1. ReadDownTo(Behind(page - 1))'
      BY <2>2, <2>4, <2>5, <2>6 DEF ReadDownTo
    <3> QED
      BY <2>6, <3>1 DEF ReadInOrder
  <2>7. CASE phase' = "enqueue" /\ page' = page
    <3>1. PICK c \in Int : c = b
      BY <2>3
    <3>2. ReadDownTo(c)'
      BY <2>2, <2>4, <3>1 DEF ReadDownTo
    <3>3. StoppedAt(c)
      BY <2>2, <2>7, <3>1
    <3>4. PagesIn(list)' = PagesIn(list)
      BY <2>1 DEF PagesIn
    <3> HIDE DEF Known
    <3>5. StoppedAt(c)'
      BY <1>k, <2>1, <2>7, <3>3, <3>4 DEF StoppedAt
    <3> QED
      BY <2>7, <3>2, <3>5 DEF ReadInOrder
  <2> QED
    BY <2>1, <2>6, <2>7
<1>4. CASE \E forced \in BOOLEAN : StartDeep(forced)
  BY <1>4, <1>f DEF StartDeep
<1>5. CASE Locate \/ ScanPage \/ MarkPage \/ FinishDeep \/ Enqueue \/ Open
  BY <1>5, <1>f DEF Locate, ScanPage, MarkPage, FinishDeep, Enqueue, Open
<1>6. CASE StartDrain \/ NothingToDo \/ EndDrain \/ Staged \/ Indexed \/ Crash \/ CrashInAppend
  BY <1>6, <1>f DEF StartDrain, NothingToDo, EndDrain, Exit, Staged, Indexed, Crash, CrashInAppend
<1>7. ASSUME NEW p \in Post, NetGot(p) \/ ImgGot(p) PROVE ReadInOrder'
  BY <1>7, <1>f DEF NetGot, ImgGot, Exit
<1>8. ASSUME NEW i \in 1 .. Len(queue), Hole(i) PROVE ReadInOrder'
  BY <1>8, <1>f DEF Hole, Exit
<1>9. CASE UNCHANGED vars \/ MendedByHand
  <2>1. UNCHANGED <<list, page, total, phase, found>>
    BY <1>9 DEF vars, MendedByHand, paging, environment
  <2>2. UNCHANGED <<index, pend>>
    BY <1>9 DEF vars, MendedByHand, storeVars, files
  <2>3. Known' = Known
    BY <2>2, KnownFrame
  <2> HIDE DEF Known
  <2> QED
    BY <2>1, <2>3 DEF ReadInOrder, ReadDownTo, StoppedAt, Behind, Queued, PagesIn
<1> QED
  BY <1>1, <1>2, <1>3, <1>4, <1>5, <1>6, <1>7, <1>8, <1>9 DEF Next, Discover, Drain, CommitStep

(* The posts up to n that are not in K and older than one that is. *)
GapsBelow(n, K) == {p \in (1 .. n) \ K : \E q \in K : p < q}

(* Where p is in l. *)
PlaceIn(l, p) == CHOOSE i \in DOMAIN l : l[i] = p

(* In a list that is in order the newer post is before the older one. *)
LEMMA PlacesInOrder ==
  ASSUME NEW l \in Seq(Post), \A i \in DOMAIN l : l[i] = Len(l) + 1 - i
  PROVE  /\ {l[i] : i \in DOMAIN l} = 1 .. Len(l)
         /\ \A p, q \in 1 .. Len(l) : PlaceIn(l, q) < PlaceIn(l, p) <=> p < q
<1> DEFINE n == Len(l)
<1>1. n \in Nat /\ DOMAIN l = 1 .. n /\ \A i \in 1 .. n : l[i] = n + 1 - i
  OBVIOUS
<1> HIDE DEF n
<1>2. ASSUME NEW p \in 1 .. n PROVE n + 1 - p \in 1 .. n /\ l[n + 1 - p] = p
  <2>1. n + 1 - p \in 1 .. n
    BY <1>1
  <2>2. l[n + 1 - p] = n + 1 - (n + 1 - p)
    BY <1>1, <2>1
  <2> QED
    BY <1>1, <2>1, <2>2
<1>3. ASSUME NEW p \in 1 .. n PROVE PlaceIn(l, p) = n + 1 - p
  <2>1. \A i \in DOMAIN l : l[i] = p => i = n + 1 - p
    BY <1>1
  <2>2. n + 1 - p \in DOMAIN l /\ l[n + 1 - p] = p
    BY <1>1, <1>2
  <2> QED
    BY <2>1, <2>2 DEF PlaceIn
<1>4. \A i \in 1 .. n : l[i] \in 1 .. n
  BY <1>1
<1>5. {l[i] : i \in DOMAIN l} = 1 .. n
  BY <1>1, <1>2, <1>4
<1>6. ASSUME NEW p \in 1 .. n, NEW q \in 1 .. n
      PROVE  PlaceIn(l, q) < PlaceIn(l, p) <=> p < q
  <2>1. PlaceIn(l, q) = n + 1 - q /\ PlaceIn(l, p) = n + 1 - p
    BY <1>3
  <2> QED
    BY <1>1, <2>1
<1> QED
  BY <1>5, <1>6 DEF n

(* What comes of it for a set of known posts. *)
LEMMA GapsInOrder ==
  ASSUME NEW l \in Seq(Post), \A i \in DOMAIN l : l[i] = Len(l) + 1 - i,
         NEW K, K \subseteq 1 .. Len(l), NEW S, S = {l[i] : i \in DOMAIN l}
  PROVE  {p \in S \ K : \E q \in S \cap K : PlaceIn(l, q) < PlaceIn(l, p)} = GapsBelow(Len(l), K)
<1>1. S = 1 .. Len(l) /\ \A p, q \in 1 .. Len(l) : PlaceIn(l, q) < PlaceIn(l, p) <=> p < q
  BY PlacesInOrder
<1> QED
  BY <1>1 DEF GapsBelow

(* A step leaves a hole in the middle only where a full scan answers for   *)
(* it, or where an incremental one read to the end of what there was.      *)
LEMMA NextNoNewGaps ==
  ASSUME Types, Held, QueueKnown, InOrder, Answered, ReadInOrder, ~ByReply, [Next]_vars
  PROVE  Gaps' \subseteq Gaps \/ (DeepScan /\ pushed > 0) \/ Outgrown
<1> DEFINE n == Len(list)
           m == Len(list')
<1>1. /\ list \in Seq(Post) /\ list' \in Seq(Post) /\ n \in Nat /\ m \in Nat
      /\ page \in Nat /\ found \in Seq(Post) /\ pushed \in Nat
  <2>1. ForumType'
    BY NextForum
  <2> QED
    BY <2>1 DEF Types, ForumType, PagingType, CountType
<1>2. Known \subseteq 1 .. n /\ \A i \in DOMAIN list : list[i] = n + 1 - i
  BY DEF InOrder
<1>3. Known' \subseteq 1 .. m /\ \A i \in DOMAIN list' : list'[i] = m + 1 - i
  <2>1. InOrder'
    BY NextInOrder
  <2> QED
    BY <2>1 DEF InOrder
<1>4. Known \subseteq Known'
  BY NextHeld
<1> DEFINE K == Known
           K1 == Known'
<1>5. Gaps = GapsBelow(n, K)
  <2> HIDE DEF Known
  <2>1. \A p : Place(p) = PlaceIn(list, p)
    BY DEF Place, PlaceIn
  <2>2. Gaps = {p \in Listed \ K : \E q \in Listed \cap K : PlaceIn(list, q) < PlaceIn(list, p)}
    BY <2>1 DEF Gaps, Unknown
  <2>3. {p \in Listed \ K : \E q \in Listed \cap K : PlaceIn(list, q) < PlaceIn(list, p)} = GapsBelow(n, K)
    BY <1>1, <1>2, GapsInOrder DEF Listed
  <2> QED
    BY <2>2, <2>3
<1>6. Gaps' = GapsBelow(m, K1)
  <2> HIDE DEF Known
  <2>1. ASSUME NEW p PROVE Place(p)' = PlaceIn(list', p)
    BY DEF Place, PlaceIn
  <2> DEFINE S == {list'[i] : i \in DOMAIN list'}
  <2>2. Listed' = S
    BY DEF Listed
  <2>3. Gaps' = {p \in S \ K1 : \E q \in S \cap K1 : PlaceIn(list', q) < PlaceIn(list', p)}
    BY <2>1, <2>2 DEF Gaps, Unknown
  <2>4. {p \in S \ K1 : \E q \in S \cap K1 : PlaceIn(list', q) < PlaceIn(list', p)} = GapsBelow(m, K1)
    BY <1>1, <1>3, GapsInOrder
  <2> QED
    BY <2>3, <2>4
<1>7. \/ K1 = K
      \/ /\ phase = "deep" /\ page >= 1
         /\ \E A \in SUBSET Post : OldestOf(A, Queued(Page(page))) /\ K1 = K \cup A
      \/ /\ phase = "enqueue"
         /\ \E A \in SUBSET Post : OldestOf(A, Queued(found)) /\ K1 = K \cup A
  BY KnownSteps
<1>8. K1 = K => Gaps' \subseteq Gaps
  <2>1. \A p \in 1 .. m, q \in 1 .. n : p < q => p \in 1 .. n
    BY <1>1
  <2> HIDE DEF K, K1, n, m
  <2>2. K1 = K => GapsBelow(m, K1) \subseteq GapsBelow(n, K)
    BY <1>2, <2>1 DEF GapsBelow, K
  <2> QED
    BY <1>5, <1>6, <2>2
<1>9. UNCHANGED list \/ K1 = K
  <2>1. ASSUME NEW p \in Post, ToFront(p) PROVE K1 = K
    BY <2>1, KnownFrame DEF ToFront, storeVars, files
  <2> QED
    BY <2>1, ListSteps
<1>10. SUFFICES ASSUME K1 # K, NEW p \in Gaps', p \notin Gaps
                PROVE  (DeepScan /\ pushed > 0) \/ Outgrown
  BY <1>8
<1>11. list' = list
  BY <1>9, <1>10
<1>12. PICK q \in K1 : p < q
  BY <1>6, <1>10 DEF GapsBelow
<1>13. p \in 1 .. n /\ p \notin K1 /\ q \in 1 .. n
  BY <1>3, <1>6, <1>10, <1>11 DEF GapsBelow
<1>14. p \notin K /\ \A r \in K : ~ (p < r)
  BY <1>4, <1>5, <1>10, <1>13 DEF GapsBelow
<1>15. q \notin K
  BY <1>12, <1>14
<1> HIDE DEF n, K, K1
<1>16. CASE /\ phase = "deep" /\ page >= 1
            /\ \E A \in SUBSET Post : OldestOf(A, Queued(Page(page))) /\ K1 = K \cup A
  <2> DEFINE b == Behind(page)
             c == Behind(page - 1)
  <2>1. PICK A \in SUBSET Post : OldestOf(A, Queued(Page(page))) /\ K1 = K \cup A
    BY <1>16
  <2>2. /\ b \in Int /\ c \in Int
        /\ Queued(Page(page)) = {r \in 1 .. n : b < r /\ r <= c}
    BY <1>1, <1>16, PagePosts DEF n
  <2>3. q \in A /\ q \in Queued(Page(page))
    BY <1>12, <1>15, <2>1 DEF OldestOf
  <2>4. p \notin Queued(Page(page))
    BY <1>12, <1>13, <2>1, <2>3 DEF OldestOf, K
  <2> HIDE DEF b, c
  <2>5. p \in 1 .. b
    BY <1>1, <1>12, <1>13, <2>2, <2>3, <2>4
  <2>6. Lacking(b, K) <= pushed
    BY <1>16 DEF Answered, K, b
  <2>7. Lacking(b, K) # 0 /\ Lacking(b, K) \in Nat
    <3>1. IsFiniteSet(1 .. b)
      BY <2>2, FS_Interval
    <3>2. IsFiniteSet((1 .. b) \ K)
      BY <3>1, FS_Subset
    <3>3. (1 .. b) \ K # {}
      BY <1>14, <2>5
    <3> QED
      BY <3>2, <3>3, FS_EmptySet, FS_CardinalityType DEF Lacking
  <2> QED
    BY <1>1, <1>16, <2>6, <2>7 DEF DeepScan
<1>17. CASE /\ phase = "enqueue"
            /\ \E A \in SUBSET Post : OldestOf(A, Queued(found)) /\ K1 = K \cup A
  <2>1. PICK A \in SUBSET Post : OldestOf(A, Queued(found)) /\ K1 = K \cup A
    BY <1>17
  <2>2. PICK c \in Int : ReadDownTo(c) /\ StoppedAt(c)
    BY <1>17 DEF ReadInOrder
  <2>3. q \in A /\ q \in Queued(found)
    BY <1>12, <1>15, <2>1 DEF OldestOf
  <2>4. p \notin Queued(found)
    BY <1>12, <1>13, <2>1, <2>3 DEF OldestOf, K
  <2>5. p \in 1 .. q
    BY <1>1, <1>12, <1>13
  <2>6. ~ (p > c)
    BY <2>2, <2>3, <2>4, <2>5 DEF ReadDownTo
  <2>7. ~ (c <= 0)
    BY <1>13, <2>6
  <2>8. c + 1 \notin Known
    <3>1. p < c + 1
      BY <1>13, <2>6
    <3> QED
      BY <1>14, <3>1 DEF K
  <2> HIDE DEF Known
  <2>9. page >= total /\ PagesIn(list) > total
    BY <2>2, <2>7, <2>8 DEF StoppedAt
  <2> QED
    BY <1>17, <2>9 DEF Outgrown
<1> QED
  BY <1>7, <1>10, <1>16, <1>17

(* A scan, full or incremental, whole or killed, leaves the newest posts   *)
(* to the next one and no hole in the middle, but for what the property    *)
(* excepts.                                                                *)
THEOREM ScanLeavesNoGap ==
  ASSUME ~ByReply
  PROVE  Spec => NoNewGaps
<1> DEFINE I == Types /\ Held /\ QueueKnown /\ InOrder /\ Answered
           J == I /\ ReadInOrder
<1>1. Init => ReadInOrder
  BY DEF Init, ReadInOrder
<1>2. I /\ ReadInOrder /\ [Next]_vars => ReadInOrder'
  BY NextReadInOrder
<1>3. I /\ ReadInOrder /\ [Next]_vars => [Gaps' \subseteq Gaps \/ (DeepScan /\ pushed > 0) \/ Outgrown]_vars
  BY NextNoNewGaps
<1>4. Spec => []I
  BY AccountKept
<1> HIDE DEF I
<1> QED
  BY <1>1, <1>2, <1>3, <1>4, PTL DEF Spec, NoNewGaps
=============================================================================
