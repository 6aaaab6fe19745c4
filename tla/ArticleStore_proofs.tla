------------------------ MODULE ArticleStore_proofs -------------------------
(***************************************************************************)
(* TLAPS proofs about ArticleStore: the index stays sound and no article   *)
(* is lost below the watermark, for any number of articles, any page size, *)
(* and any number of crashes, torn lines and shifts smaller than a page.   *)
(*                                                                         *)
(* Both properties speak of the files; what makes them inductive is what a *)
(* run holds in memory.  Running relates it to the files between any two   *)
(* operations, Committing says what a commit has done so far, and Covered  *)
(* how far back the paging has come: every published article that it has   *)
(* neither found nor skipped is deeper than the cursor, older than the     *)
(* watermark, or newer than all that was found.  Closed, the store's part  *)
(* of NothingLost, has the queue in it too, because holes of one run raise *)
(* the watermark of a later one.                                           *)
(***************************************************************************)
EXTENDS ArticleStore, WellFoundedInduction, TLAPS

PcNames == {"closed", "drain", "stage", "rename", "append", "appendTombstone", "flush",
            "paging", "setPending"}

Typed ==
  /\ latest \in 0 .. NArticles
  /\ index \in Seq(Line \cup {Glued}) /\ torn \in BOOLEAN
  /\ Ids(index) \subseteq Published \cup {NoArticle}
  /\ pend \subseteq Published /\ dirs \subseteq Article
  /\ pc \in PcNames
  /\ pending \subseteq Published /\ ids \subseteq Published
  /\ queue \subseteq pending /\ cur \in Published \cup {NoArticle}
  /\ discovered \in BOOLEAN
  /\ since \in Nat /\ cursor \in 0 .. NArticles /\ found \subseteq Published
  /\ shift \in 0 .. MaxShift
  /\ crashes \in 0 .. MaxCrashes /\ torns \in 0 .. MaxTorn

Running ==
  /\ cur \notin queue
  /\ pc \in {"closed", "drain", "paging", "setPending"} => cur = NoArticle
  /\ pc # "closed" =>
       /\ Ids(index) \subseteq ids \cup {NoArticle}
       /\ ~Broken => ids \subseteq Ids(index)
       /\ queue \cap ids = {}
       /\ pending \subseteq pend /\ pend \subseteq pending \cup ids

Committing ==
  /\ pc \in {"stage", "rename", "append", "appendTombstone"} => cur \in pending \ ids
  /\ pc = "append" => cur \in dirs

Passed(a) == a \in ids \cup found \/ Older(a) \/ \A b \in found : b < a

Covered ==
  /\ pc \notin {"paging", "setPending"} => cursor = 0 /\ found = {} /\ shift = 0
  /\ pc \in {"paging", "setPending"} => since = MaxDate(ids)
  /\ pc = "paging" =>
       /\ \A b \in found : b > latest - cursor - shift
       /\ \A a \in Published : Passed(a) \/ a <= latest - cursor
  /\ pc = "setPending" => \A a \in Published : Passed(a)

Closed ==
  ~Broken => \A a \in Published, b \in Ids(index) \cup pend :
               Date[a] < Date[b] => a \in Ids(index) \cup pend

IInv == Typed /\ Running /\ Committing /\ Covered /\ IndexSound /\ Closed

-----------------------------------------------------------------------------
Less == {p \in Nat \X Nat : p[1] < p[2]}

(* A set of numbers that is not empty has a least one. *)
LEMMA LeastOf ==
  ASSUME NEW T, T \subseteq Nat, T # {}
  PROVE  \E x \in T : \A y \in T : x <= y
<1>1. IsWellFoundedOn(Less, Nat)
  BY NatLessThanWellFounded DEF OpToRel, Less
<1>2. PICK x \in T : \A y \in T : ~ (<<y, x>> \in Less)
  BY <1>1, WFMin
<1>3. \A y \in T : y < x => <<y, x>> \in Less
  BY DEF Less
<1>4. \A y \in T : ~ (y < x)
  BY <1>2, <1>3, Zenon
<1>5. \A y \in T : x <= y
  BY <1>4
<1> QED
  BY <1>5

(* The watermark is the date of an article that is cached. *)
LEMMA MaxDateAttained ==
  ASSUME NEW X, X \subseteq Article, X # {}
  PROVE  \E b \in X : MaxDate(X) = Date[b]
<1> DEFINE T == {NArticles - a : a \in X}
<1>1. T \subseteq Nat /\ T # {}
  <2>1. \A a \in X : NArticles - a \in Nat
    BY StoreAssumption DEF Article
  <2> QED
    BY <2>1
<1> HIDE DEF T
<1>2. PICK t \in T : \A y \in T : t <= y
  BY <1>1, LeastOf
<1>3. PICK b \in X : t = NArticles - b
  BY DEF T
<1>4. \A a \in X : a <= b
  <2> SUFFICES ASSUME NEW a \in X PROVE a <= b
    OBVIOUS
  <2>1. NArticles - a \in T
    BY DEF T
  <2> QED
    BY <1>2, <1>3, <2>1, StoreAssumption DEF Article
<1>5. \A a \in X : Date[a] <= Date[b]
  BY <1>4, StoreAssumption
<1>6. \E d \in {Date[a] : a \in X} : \A a \in X : Date[a] <= d
  BY <1>5
<1>7. MaxDate(X) \in {Date[a] : a \in X}
  BY <1>6 DEF MaxDate
<1> QED
  BY <1>7

(* So it is a number. *)
LEMMA MaxDateType == ASSUME NEW X, X \subseteq Article PROVE MaxDate(X) \in Nat
<1>1. CASE X = {}
  BY <1>1 DEF MaxDate
<1>2. CASE X # {}
  BY <1>2, MaxDateAttained, StoreAssumption
<1> QED
  BY <1>1, <1>2

(* What appending one line does to what the index says. *)
LEMMA AppendedLine ==
  ASSUME NEW log \in Seq(Line \cup {Glued}), NEW x \in Line \cup {Glued}
  PROVE  /\ Append(log, x) \in Seq(Line \cup {Glued})
         /\ Ids(Append(log, x)) = Ids(log) \cup {x.id}
         /\ DOMAIN Append(log, x) = DOMAIN log \cup {Len(log) + 1}
         /\ \A i \in DOMAIN log : Append(log, x)[i] = log[i] /\ i # Len(log) + 1
         /\ Append(log, x)[Len(log) + 1] = x
<1>1. /\ Append(log, x) \in Seq(Line \cup {Glued})
      /\ DOMAIN Append(log, x) = DOMAIN log \cup {Len(log) + 1}
      /\ \A i \in DOMAIN log : Append(log, x)[i] = log[i] /\ i # Len(log) + 1
      /\ Append(log, x)[Len(log) + 1] = x
  OBVIOUS
<1>2. Ids(Append(log, x)) = Ids(log) \cup {x.id}
  BY <1>1 DEF Ids
<1> QED
  BY <1>1, <1>2

(* A line that is whole has an article's number. *)
LEMMA WholeLines ==
  ASSUME Typed, NEW i \in DOMAIN index
  PROVE  /\ index[i] \in Line \cup {Glued}
         /\ index[i] # Glued => index[i].id \in Published /\ index[i].id # NoArticle
         /\ index[i] = Glued => index[i].id = NoArticle /\ ~index[i].dir
<1>1. index[i] \in Line \cup {Glued}
  BY DEF Typed
<1>2. NoArticle \notin Article
  BY DEF NoArticle, Article
<1>3. index[i].id \in Ids(index)
  BY DEF Ids
<1> QED
  BY <1>1, <1>2, <1>3 DEF Line, Glued, Typed

(* An index that can be read names articles only. *)
LEMMA ReadableIds == ASSUME Typed, ~Broken PROVE Ids(index) \subseteq Published
BY WholeLines DEF Ids, Broken

(* What is published is an article. *)
LEMMA PublishedAreArticles == ASSUME Typed PROVE Published \subseteq Article
BY StoreAssumption DEF Typed, Published, Article

-----------------------------------------------------------------------------
(* The bounds are numbers. *)
LEMMA Bounds ==
  /\ NArticles \in Nat /\ PageSize \in Nat /\ PageSize > 0
  /\ MaxShift \in Nat /\ MaxShift < PageSize
  /\ MaxCrashes \in Nat /\ MaxTorn \in Nat
BY StoreAssumption

(* The first state: no file, nothing published. *)
LEMMA InitInv == Init => IInv
<1> SUFFICES ASSUME Init PROVE IInv
  OBVIOUS
<1>1. Ids(index) = {} /\ ~Broken
  BY DEF Init, Ids, Broken
<1>2. Typed
  <2>1. latest \in 0 .. NArticles /\ cursor \in 0 .. NArticles /\ shift \in 0 .. MaxShift
        /\ crashes \in 0 .. MaxCrashes /\ torns \in 0 .. MaxTorn /\ since \in Nat
    BY Bounds DEF Init
  <2>2. index \in Seq(Line \cup {Glued})
    BY DEF Init
  <2> QED
    BY <1>1, <2>1, <2>2 DEF Init, Typed, PcNames
<1> QED
  BY <1>1, <1>2 DEF Init, IInv, Running, Committing, Covered, IndexSound, Closed, NoArticle

(* A step that leaves the files alone leaves what they say. *)
LEMMA SameFiles ==
  ASSUME IInv, UNCHANGED <<latest, index, pend, dirs>>
  PROVE  IndexSound' /\ Closed'
<1>1. Ids(index)' = Ids(index) /\ Broken' = Broken /\ Published' = Published
  BY DEF Ids, Broken, Published
<1> QED
  BY <1>1 DEF IInv, IndexSound, Closed

(* The end of a run forgets what it had in memory. *)
LEMMA ClosedRun ==
  ASSUME IInv, Forget, pc' = "closed", UNCHANGED <<latest, index, pend, dirs>>,
         torn' \in BOOLEAN, crashes' \in 0 .. MaxCrashes, torns' \in 0 .. MaxTorn
  PROVE  IInv'
<1>1. Ids(index)' = Ids(index) /\ Published' = Published
  BY DEF Ids, Published
<1>2. Typed'
  <2>1. cursor' \in 0 .. NArticles /\ shift' \in 0 .. MaxShift /\ since' \in Nat
    BY Bounds DEF Forget
  <2> QED
    BY <1>1, <2>1 DEF IInv, Typed, Forget, PcNames
<1> QED
  BY <1>2, SameFiles DEF IInv, Running, Committing, Covered, Forget

(* However a run ends, the files stay as they are. *)
LEMMA EndsInv == IInv /\ (Close \/ Crash \/ CrashInAppend) => IInv'
<1>1. CASE IInv /\ Close
  BY <1>1, ClosedRun DEF Close, diskVars, crashVars, IInv, Typed
<1>2. CASE IInv /\ Crash
  BY <1>2, ClosedRun, StoreAssumption DEF Crash, diskVars, IInv, Typed
<1>3. CASE IInv /\ CrashInAppend
  BY <1>3, ClosedRun, StoreAssumption DEF CrashInAppend, IInv, Typed
<1> QED
  BY <1>1, <1>2, <1>3

(* A new article is newer than everything known. *)
LEMMA PublishInv == IInv /\ Publish => IInv'
<1> SUFFICES ASSUME IInv, Publish PROVE IInv'
  OBVIOUS
<1>0. PICK n \in Nat : n = latest + 1
  BY DEF IInv, Typed
<1>1. /\ latest \in Nat /\ latest' = n /\ n <= NArticles
      /\ Published' = Published \cup {n} /\ Published \subseteq Published'
      /\ \A a \in Published : a < n
  BY <1>0, StoreAssumption DEF IInv, Typed, Publish, Published
<1>2. Ids(index)' = Ids(index) /\ Broken' = Broken
  BY DEF Publish, diskVars, Ids, Broken
<1>3. Typed'
  BY <1>1, <1>2, StoreAssumption DEF IInv, Typed, Publish, diskVars, crashVars
<1>4. Running' /\ Committing'
  BY <1>2 DEF IInv, Running, Committing, Publish, diskVars
<1>5. Covered'
  <2>1. /\ since' = since /\ ids' = ids /\ found' = found /\ pc' = pc /\ cursor' = cursor
        /\ shift' = IF pc = "paging" THEN shift + 1 ELSE shift
    BY DEF Publish
  <2>2. \A a \in Published : Passed(a) => Passed(a)'
    BY <2>1 DEF Passed, Older
  <2>3. Passed(n)'
    BY <1>1, <2>1 DEF Passed, IInv, Typed
  <2>4. MaxDate(ids)' = MaxDate(ids)
    BY <2>1 DEF MaxDate
  <2>5. pc = "paging" => \A b \in found : b > latest' - cursor' - shift'
    BY <1>0, <1>1, <2>1 DEF IInv, Covered, Typed, Published
  <2>6. pc = "paging" => \A a \in Published' : Passed(a)' \/ a <= latest' - cursor'
    <3> SUFFICES ASSUME pc = "paging", NEW a \in Published'
                 PROVE  Passed(a)' \/ a <= latest' - cursor'
      OBVIOUS
    <3>1. CASE a \in Published
      BY <1>0, <1>1, <2>1, <2>2, <3>1 DEF IInv, Covered, Typed, Published
    <3>2. CASE a = n
      BY <2>3, <3>2
    <3> QED
      BY <1>1, <3>1, <3>2
  <2>7. pc = "setPending" => \A a \in Published' : Passed(a)'
    BY <1>1, <2>2, <2>3 DEF IInv, Covered
  <2> QED
    BY <2>1, <2>4, <2>5, <2>6, <2>7 DEF IInv, Covered
<1>6. IndexSound'
  BY DEF IInv, IndexSound, Publish, diskVars
<1>7. Closed'
  <2> SUFFICES ASSUME ~Broken, NEW a \in Published', NEW b \in Ids(index) \cup pend,
                      Date[a] < Date[b]
               PROVE  a \in Ids(index) \cup pend
    BY <1>2 DEF Closed, Publish, diskVars
  <2>1. b \in Published
    BY ReadableIds DEF IInv, Typed
  <2>2. a # n
    <3> SUFFICES ASSUME a = n PROVE FALSE
      OBVIOUS
    <3>1. b <= a /\ a \in Article /\ b \in Article
      BY <1>1, <2>1, StoreAssumption DEF Published, Article
    <3> QED
      BY <3>1, StoreAssumption
  <2> QED
    BY <1>1, <2>2 DEF IInv, Closed
<1> QED
  BY <1>3, <1>4, <1>5, <1>6, <1>7 DEF IInv

(* The constructor reads what the files say. *)
LEMMA OpenInv == IInv /\ Open => IInv'
<1> SUFFICES ASSUME IInv, Open PROVE IInv'
  OBVIOUS
<1>1. /\ Ids(index) \subseteq Published /\ NoArticle \notin Published
      /\ Ids(index)' = Ids(index) /\ Broken' = Broken /\ Published' = Published
  BY ReadableIds DEF IInv, Open, diskVars, Ids, Broken, Published, NoArticle
<1>2. Typed'
  BY <1>1 DEF IInv, Typed, Open, diskVars, crashVars, PcNames
<1>3. Running'
  <2>1. cur' \notin queue'
    BY <1>1 DEF IInv, Typed, Open, Running
  <2> QED
    BY <1>1, <2>1 DEF IInv, Running, Open, diskVars
<1>4. Committing' /\ Covered'
  BY DEF IInv, Open, Committing, Covered
<1> QED
  BY <1>2, <1>3, <1>4, SameFiles DEF IInv, Open, diskVars

(* drain takes an entry from its queue, for good or as a hole. *)
LEMMA TakeInv ==
  ASSUME IInv, NEW a \in Article, Hole(a) \/ BeginCommit(a)
  PROVE  IInv'
<1>1. /\ pc = "drain" /\ a \in queue /\ queue' = queue \ {a}
      /\ UNCHANGED <<latest, diskVars, pending, ids, discovered, since, cursor, found, shift,
                     crashVars>>
      /\ \/ pc' = pc /\ cur' = cur
         \/ pc' \in {"stage", "appendTombstone"} /\ cur' = a
  BY DEF Hole, BeginCommit
<1>2. Ids(index)' = Ids(index) /\ Broken' = Broken /\ Published' = Published
  BY <1>1 DEF diskVars, Ids, Broken, Published
<1>3. Typed'
  BY <1>1, <1>2 DEF IInv, Typed, diskVars, crashVars, PcNames
<1>4. Running' /\ Committing'
  BY <1>1, <1>2 DEF IInv, Running, Committing, Typed, diskVars
<1>5. Covered'
  BY <1>1 DEF IInv, Covered
<1> QED
  BY <1>1, <1>3, <1>4, <1>5, SameFiles DEF IInv, diskVars

(* The directory of an entry that is not in the index comes and goes. *)
LEMMA DirectoryInv == IInv /\ (MakeWay \/ RenameIntoPlace) => IInv'
<1> SUFFICES ASSUME IInv, MakeWay \/ RenameIntoPlace PROVE IInv'
  OBVIOUS
<1>1. /\ pc \in {"stage", "rename"}
      /\ UNCHANGED <<latest, index, torn, pend, memVars, crashVars>>
      /\ \/ pc' = "rename" /\ dirs' = dirs \ {cur}
         \/ pc' = "append" /\ dirs' = dirs \cup {cur}
  BY DEF MakeWay, RenameIntoPlace
<1>2. Ids(index)' = Ids(index) /\ Broken' = Broken /\ Published' = Published
  BY <1>1 DEF Ids, Broken, Published
<1>3. cur \in pending \ ids /\ cur \in Published /\ Published \subseteq Article
  BY <1>1, PublishedAreArticles DEF IInv, Committing, Typed
<1>4. Typed'
  BY <1>1, <1>2, <1>3 DEF IInv, Typed, memVars, crashVars, PcNames
<1>5. Running' /\ Committing'
  BY <1>1, <1>2, <1>3 DEF IInv, Running, Committing, memVars
<1>6. Covered'
  BY <1>1 DEF IInv, Covered, memVars
<1>7. IndexSound'
  <2> SUFFICES ASSUME NEW i \in DOMAIN index, index[i].dir PROVE index[i].id \in dirs'
    BY <1>1 DEF IInv, IndexSound
  <2>1. index[i].id \in Ids(index) /\ index[i].id # NoArticle
    BY WholeLines DEF Ids, IInv
  <2>2. index[i].id \in ids
    BY <1>1, <2>1 DEF IInv, Running
  <2> QED
    BY <1>1, <1>3, <2>2 DEF IInv, IndexSound
<1>8. Closed'
  BY <1>1, <1>2 DEF IInv, Closed
<1> QED
  BY <1>4, <1>5, <1>6, <1>7, <1>8 DEF IInv

(* The line of an entry that is not in the index yet. *)
LEMMA AppendInv == IInv /\ AppendIndex => IInv'
<1> SUFFICES ASSUME IInv, AppendIndex PROVE IInv'
  OBVIOUS
<1> DEFINE line == IF torn THEN Glued ELSE [id |-> cur, dir |-> pc = "append"]
<1>1. /\ pc \in {"append", "appendTombstone"} /\ pc' = "flush"
      /\ index' = Append(index, line) /\ torn' = FALSE
      /\ ids' = ids \cup {cur} /\ pending' = pending \ {cur}
      /\ UNCHANGED <<latest, pend, dirs, queue, cur, discovered, since, cursor, found, shift,
                     crashVars>>
  BY DEF AppendIndex
<1>2. /\ cur \in pending \ ids /\ cur \in Published /\ cur \in Article /\ cur # NoArticle
      /\ cur \in pend /\ (pc = "append" => cur \in dirs)
  <2>1. cur \in pending \ ids /\ (pc = "append" => cur \in dirs)
    BY <1>1 DEF IInv, Committing
  <2> QED
    BY <1>1, <2>1, PublishedAreArticles DEF IInv, Running, Typed, Article, NoArticle
<1>3. /\ line \in Line \cup {Glued}
      /\ torn => line.id = NoArticle /\ line = Glued /\ ~line.dir
      /\ ~torn => line.id = cur /\ line # Glued /\ line.dir = (pc = "append")
  <2>1. torn \in BOOLEAN
    BY DEF IInv, Typed
  <2> QED
    BY <1>2, <2>1 DEF Line, Glued
<1> HIDE DEF line
<1>4. /\ index' \in Seq(Line \cup {Glued})
      /\ Ids(index') = Ids(index) \cup {line.id}
      /\ DOMAIN index' = DOMAIN index \cup {Len(index) + 1}
      /\ \A i \in DOMAIN index : index'[i] = index[i] /\ i # Len(index) + 1
      /\ index'[Len(index) + 1] = line
  <2>1. index \in Seq(Line \cup {Glued})
    BY DEF IInv, Typed
  <2> QED
    BY <1>1, <1>3, <2>1, AppendedLine
<1>5. (Broken \/ torn) <=> Broken'
  BY <1>3, <1>4 DEF Broken, IInv, Typed
<1>6. /\ Ids(index)' = Ids(index) \cup {line.id} /\ Published' = Published
      /\ line.id \in {cur, NoArticle}
      /\ ~Broken' => ~Broken /\ line.id = cur
  BY <1>1, <1>3, <1>4, <1>5 DEF Ids, Published, IInv, Typed
<1>7. Typed'
  BY <1>1, <1>2, <1>4, <1>6 DEF IInv, Typed, Running, crashVars, PcNames
<1>8. Running'
  BY <1>1, <1>2, <1>6 DEF IInv, Running
<1>9. Committing' /\ Covered'
  BY <1>1 DEF IInv, Committing, Covered
<1>10. IndexSound'
  <2>1. \A i \in DOMAIN index : index[i].id # cur
    <3> SUFFICES ASSUME NEW i \in DOMAIN index, index[i].id = cur PROVE FALSE
      OBVIOUS
    <3>1. cur \in Ids(index)
      BY DEF Ids
    <3> QED
      BY <1>1, <1>2, <3>1 DEF IInv, Running
  <2>2. \A i \in DOMAIN index : index[i] # Glued => index[i].id # NoArticle
    BY WholeLines DEF IInv
  <2>3. \A i, j \in DOMAIN index' : index'[i].id = index'[j].id /\ index'[i] # Glued => i = j
    <3> SUFFICES ASSUME NEW i \in DOMAIN index', NEW j \in DOMAIN index',
                        index'[i].id = index'[j].id, index'[i] # Glued
                 PROVE  i = j
      OBVIOUS
    <3>1. CASE i \in DOMAIN index /\ j \in DOMAIN index
      BY <1>4, <3>1 DEF IInv, IndexSound
    <3>2. CASE i \in DOMAIN index /\ j = Len(index) + 1
      BY <1>3, <1>4, <2>1, <2>2, <3>2 DEF IInv, Typed
    <3>3. CASE i = Len(index) + 1 /\ j \in DOMAIN index
      BY <1>3, <1>4, <2>1, <3>3 DEF IInv, Typed
    <3> QED
      BY <1>4, <3>1, <3>2, <3>3
  <2>4. \A i \in DOMAIN index' : index'[i].dir => index'[i].id \in dirs'
    <3> SUFFICES ASSUME NEW i \in DOMAIN index', index'[i].dir PROVE index'[i].id \in dirs
      BY <1>1
    <3>1. CASE i \in DOMAIN index
      BY <1>4, <3>1 DEF IInv, IndexSound
    <3>2. CASE i = Len(index) + 1
      BY <1>2, <1>3, <1>4, <3>2 DEF IInv, Typed
    <3> QED
      BY <1>4, <3>1, <3>2
  <2> QED
    BY <2>3, <2>4 DEF IndexSound
<1>11. Closed'
  <2> SUFFICES ASSUME ~Broken' PROVE Closed'
    BY DEF Closed
  <2>1. (Ids(index) \cup pend)' = Ids(index) \cup pend /\ ~Broken
    BY <1>1, <1>2, <1>6
  <2> QED
    BY <1>6, <2>1 DEF IInv, Closed
<1> QED
  BY <1>7, <1>8, <1>9, <1>10, <1>11 DEF IInv

(* pending.jsonl loses what has just got its line. *)
LEMMA FlushInv == IInv /\ FlushPending => IInv'
<1> SUFFICES ASSUME IInv, FlushPending PROVE IInv'
  OBVIOUS
<1>1. /\ pc = "flush" /\ pc' = "drain" /\ pend' = pending /\ cur' = NoArticle
      /\ UNCHANGED <<latest, index, torn, dirs, pending, ids, queue, discovered, since, cursor,
                     found, shift, crashVars>>
  BY DEF FlushPending
<1>2. Ids(index)' = Ids(index) /\ Broken' = Broken /\ Published' = Published
  BY <1>1 DEF Ids, Broken, Published
<1>3. Typed'
  BY <1>1, <1>2 DEF IInv, Typed, crashVars, PcNames
<1>4. Running' /\ Committing' /\ Covered'
  <2>1. NoArticle \notin queue
    BY DEF IInv, Typed, Published, NoArticle
  <2> QED
    BY <1>1, <1>2, <2>1 DEF IInv, Running, Committing, Covered
<1>5. IndexSound'
  BY <1>1 DEF IInv, IndexSound
<1>6. Closed'
  <2> SUFFICES ASSUME ~Broken PROVE Closed'
    BY <1>2 DEF Closed
  <2>1. (Ids(index) \cup pend)' = Ids(index) \cup pend
    BY <1>1, <1>2 DEF IInv, Running
  <2> QED
    BY <1>2, <2>1 DEF IInv, Closed
<1> QED
  BY <1>3, <1>4, <1>5, <1>6 DEF IInv

-----------------------------------------------------------------------------
(* Nothing is found yet: whatever is published is at the cursor or deeper. *)
LEMMA StartInv == IInv /\ StartDiscover => IInv'
<1> SUFFICES ASSUME IInv, StartDiscover PROVE IInv'
  OBVIOUS
<1>1. /\ pc = "drain" /\ pc' = "paging" /\ discovered' = TRUE /\ since' = MaxDate(ids)
      /\ UNCHANGED <<latest, diskVars, pending, ids, queue, cur, cursor, found, shift, crashVars>>
  BY DEF StartDiscover
<1>2. Ids(index)' = Ids(index) /\ Broken' = Broken /\ Published' = Published
      /\ MaxDate(ids)' = MaxDate(ids)
  BY <1>1 DEF diskVars, Ids, Broken, Published, MaxDate
<1>3. MaxDate(ids) \in Nat
  BY MaxDateType, PublishedAreArticles DEF IInv, Typed
<1>4. Typed'
  BY <1>1, <1>2, <1>3 DEF IInv, Typed, diskVars, crashVars, PcNames
<1>5. Running' /\ Committing'
  BY <1>1, <1>2 DEF IInv, Running, Committing, diskVars
<1>6. Covered'
  <2>1. cursor = 0 /\ found = {} /\ shift = 0
    BY <1>1 DEF IInv, Covered
  <2>2. latest \in Nat /\ \A a \in Published : a <= latest - 0
    BY Bounds DEF IInv, Typed, Published
  <2> QED
    BY <1>1, <1>2, <2>1, <2>2 DEF Covered
<1> QED
  BY <1>1, <1>4, <1>5, <1>6, SameFiles DEF IInv, diskVars

(* What one page of the history adds to what is passed. *)
LEMMA PagePassed ==
  ASSUME IInv, pc = "paging", NEW f, f = found \cup Fresh
  PROVE  /\ f \subseteq Published
         /\ \A b \in f : b > latest - cursor - PageSize - shift
         /\ \A a \in Published :
              \/ a \in ids \cup f \/ Older(a) \/ \A b \in f : b < a
              \/ a <= latest - cursor - PageSize
<1>1. /\ latest \in Nat /\ cursor \in Nat /\ shift \in Nat /\ PageSize \in Nat /\ PageSize > 0
      /\ Published \subseteq Nat /\ found \subseteq Published
  BY Bounds DEF IInv, Typed, Published
<1>2. \A a : a \in Page <=> /\ a \in Published
                            /\ latest - cursor - PageSize < a /\ a <= latest - cursor
  BY DEF Page
<1>3. Fresh \subseteq Page /\ \A a \in Page : a \in ids \/ Older(a) \/ a \in f
  BY DEF Fresh, Filtered
<1>4. \A b \in f : b > latest - cursor - PageSize - shift
  <2>1. \A b \in found : b > latest - cursor - shift
    BY DEF IInv, Covered
  <2> QED
    BY <1>1, <1>2, <1>3, <2>1
<1>5. \A a \in Published : Passed(a) \/ a <= latest - cursor
  BY DEF IInv, Covered
<1>6. ASSUME NEW a \in Published, ~(a <= latest - cursor - PageSize),
             ~(a \in ids \cup f), ~Older(a)
      PROVE  \A b \in f : b < a
  <2>1. a \notin Page
    BY <1>3, <1>6
  <2>2. a > latest - cursor
    BY <1>1, <1>2, <1>6, <2>1
  <2>3. \A b \in found : b < a
    BY <1>1, <1>5, <1>6, <2>2 DEF Passed
  <2>4. ASSUME NEW b \in Fresh PROVE b < a
    <3>1. b \in Nat /\ b <= latest - cursor
      BY <1>1, <1>2, <1>3
    <3>2. a \in Nat
      BY <1>1
    <3> QED
      BY <1>1, <2>2, <3>1, <3>2
  <2> QED
    BY <2>3, <2>4
<1> QED
  BY <1>1, <1>2, <1>3, <1>4, <1>6

(* Paging stops where nothing is left to find: below the watermark, at the *)
(* end of the history, or on a page of repeats, which a shift smaller than *)
(* a page can make of the last page only.                                  *)
LEMMA LastPagePassed ==
  ASSUME IInv, pc = "paging", LastPage, NEW a \in Published, a <= latest - cursor - PageSize
  PROVE  Older(a)
<1>1. /\ latest \in Nat /\ cursor \in Nat /\ shift \in Nat /\ PageSize \in Nat /\ PageSize > 0
      /\ shift < PageSize /\ a \in Nat /\ a >= 1 /\ since \in Nat /\ a \in Article
  BY Bounds, PublishedAreArticles DEF IInv, Typed, Published
<1>2. CASE Crossed
  <2>1. PICK p \in Page : Older(p)
    BY <1>2 DEF Crossed
  <2>2. p \in Article /\ a <= p
    BY <1>1, PublishedAreArticles DEF Page, IInv, Published
  <2>3. Date[a] <= Date[p] /\ Date[a] \in Nat /\ Date[p] \in Nat
    BY <1>1, <2>2, StoreAssumption
  <2> QED
    BY <1>1, <2>1, <2>3 DEF Older
<1>3. CASE Page # {} /\ Fresh = {} /\ Filtered = {}
  <2>1. PICK c \in Nat : c = latest - cursor - PageSize + 1
    BY <1>1
  <2>2. c \in Page
    BY <1>1, <2>1 DEF Page, Published
  <2>3. c \in found
    BY <1>3, <2>2 DEF Fresh
  <2>4. c > latest - cursor - shift
    BY <2>3 DEF IInv, Covered
  <2> QED
    BY <1>1, <2>1, <2>4
<1>4. CASE cursor + PageSize >= latest
  BY <1>1, <1>4
<1> QED
  BY <1>2, <1>3, <1>4 DEF LastPage

(* So one page more keeps all this, and the last one covers everything.    *)
LEMMA PageInv == IInv /\ FetchPage => IInv'
<1> SUFFICES ASSUME IInv, FetchPage PROVE IInv'
  OBVIOUS
<1>1. /\ pc = "paging" /\ found' = found \cup Fresh
      /\ \/ LastPage /\ cursor' = cursor /\ pc' = "setPending"
         \/ ~LastPage /\ cursor' = cursor + PageSize /\ pc' = "paging"
      /\ UNCHANGED <<latest, diskVars, pending, ids, queue, cur, discovered, since, shift, crashVars>>
  BY DEF FetchPage
<1>2. Ids(index)' = Ids(index) /\ Broken' = Broken /\ Published' = Published
      /\ MaxDate(ids)' = MaxDate(ids)
  BY <1>1 DEF diskVars, Ids, Broken, Published, MaxDate
<1>3. /\ found' \subseteq Published
      /\ \A b \in found' : b > latest - cursor - PageSize - shift
      /\ \A a \in Published : Passed(a)' \/ a <= latest - cursor - PageSize
  BY <1>1, PagePassed DEF Passed, Older
<1>4. /\ latest \in Nat /\ latest <= NArticles /\ cursor \in Nat /\ shift \in Nat
      /\ PageSize \in Nat /\ NArticles \in Nat
  BY Bounds DEF IInv, Typed
<1>5. cursor' \in 0 .. NArticles
  BY <1>1, <1>4 DEF LastPage, IInv, Typed
<1>6. Typed'
  BY <1>1, <1>2, <1>3, <1>5 DEF IInv, Typed, diskVars, crashVars, PcNames
<1>7. Running' /\ Committing'
  BY <1>1, <1>2 DEF IInv, Running, Committing, diskVars
<1>8. Covered'
  <2>1. since' = MaxDate(ids)'
    BY <1>1, <1>2 DEF IInv, Covered
  <2>2. CASE pc' = "paging"
    <3>1. cursor' = cursor + PageSize /\ latest' = latest /\ shift' = shift
      BY <1>1, <2>2
    <3>2. \A b \in found' : b > latest' - cursor' - shift'
      BY <1>3, <1>4, <3>1 DEF Published
    <3>3. \A a \in Published' : Passed(a)' \/ a <= latest' - cursor'
      BY <1>2, <1>3, <1>4, <3>1 DEF Published
    <3> QED
      BY <2>1, <2>2, <3>2, <3>3 DEF Covered
  <2>3. CASE pc' = "setPending"
    <3>1. \A a \in Published : Passed(a)'
      <4> SUFFICES ASSUME NEW a \in Published, a <= latest - cursor - PageSize PROVE Passed(a)'
        BY <1>3
      <4>1. Older(a)
        BY <1>1, <2>3, LastPagePassed
      <4> QED
        BY <1>1, <4>1 DEF Passed, Older
    <3> QED
      BY <1>2, <2>1, <2>3, <3>1 DEF Covered
  <2> QED
    BY <1>1, <2>2, <2>3
<1> QED
  BY <1>1, <1>6, <1>7, <1>8, SameFiles DEF IInv, diskVars

(* The queue takes in what was found; nothing older than it is left out.   *)
LEMMA QueueInv == IInv /\ SetPending => IInv'
<1> SUFFICES ASSUME IInv, SetPending PROVE IInv'
  OBVIOUS
<1>1. /\ pc = "setPending" /\ pc' = "drain"
      /\ pending' = (pending \cup found) \ ids /\ pend' = pending' /\ queue' = pending'
      /\ since' = 0 /\ cursor' = 0 /\ found' = {} /\ shift' = 0
      /\ UNCHANGED <<latest, index, torn, dirs, ids, cur, discovered, crashVars>>
  BY DEF SetPending
<1>2. Ids(index)' = Ids(index) /\ Broken' = Broken /\ Published' = Published
  BY <1>1 DEF Ids, Broken, Published
<1>3. cursor' \in 0 .. NArticles /\ shift' \in 0 .. MaxShift /\ since' \in Nat
  BY <1>1, Bounds
<1>4. Typed'
  BY <1>1, <1>2, <1>3 DEF IInv, Typed, crashVars, PcNames
<1>5. Running' /\ Committing' /\ Covered'
  <2>1. cur' \notin queue'
    <3>1. cur' = NoArticle /\ queue' \subseteq Published
      BY <1>1, <1>2, <1>4 DEF IInv, Running, Typed
    <3> QED
      BY <3>1 DEF Published, NoArticle
  <2>2. Running'
    BY <1>1, <1>2, <2>1 DEF IInv, Running
  <2>3. Committing' /\ Covered'
    BY <1>1, <1>2 DEF Committing, Covered
  <2> QED
    BY <2>2, <2>3
<1>6. IndexSound'
  BY <1>1 DEF IInv, IndexSound
<1>7. Closed'
  <2> DEFINE K == Ids(index) \cup pend
  <2> SUFFICES ASSUME ~Broken, NEW a \in Published, NEW b \in K \cup found, Date[a] < Date[b]
               PROVE  a \in K \cup found
    BY <1>1, <1>2 DEF IInv, Running, Closed
  <2>1. /\ ids = Ids(index) /\ a \in Article /\ b \in Published /\ b \in Article
        /\ ids \subseteq Article
    <3>1. Published \subseteq Article /\ Ids(index) \subseteq Published
          /\ found \subseteq Published /\ pend \subseteq Published /\ ids \subseteq Published
      BY ReadableIds, PublishedAreArticles DEF IInv, Typed
    <3>2. ids \subseteq Ids(index) /\ Ids(index) \subseteq ids \cup {NoArticle}
      BY <1>1 DEF IInv, Running
    <3>3. NoArticle \notin Ids(index)
      BY <3>1 DEF Published, NoArticle
    <3> QED
      BY <3>1, <3>2, <3>3
  <2>2. \A q \in K : Date[a] < Date[q] => a \in K
    BY DEF IInv, Closed
  <2>3. CASE b \in K
    BY <2>2, <2>3
  <2>4. CASE b \in found
    <3>1. Passed(a)
      BY <1>1 DEF IInv, Covered
    <3>2. CASE a \in ids \cup found
      BY <2>1, <3>2
    <3>3. CASE Older(a)
      <4>1. since = MaxDate(ids) /\ since > 0 /\ Date[a] < since
        BY <1>1, <3>3 DEF IInv, Covered, Older
      <4>2. ids # {}
        BY <4>1 DEF MaxDate
      <4>3. PICK q \in ids : MaxDate(ids) = Date[q]
        BY <2>1, <4>2, MaxDateAttained
      <4> QED
        BY <2>1, <2>2, <4>1, <4>3
    <3>4. CASE \A q \in found : q < a
      <4>1. b <= a
        BY <2>1, <2>4, <3>4 DEF Article
      <4> QED
        BY <2>1, <4>1, StoreAssumption
    <3> QED
      BY <3>1, <3>2, <3>3, <3>4 DEF Passed
  <2> QED
    BY <2>3, <2>4
<1> QED
  BY <1>4, <1>5, <1>6, <1>7 DEF IInv

-----------------------------------------------------------------------------
(* Every step keeps the invariant. *)
LEMMA NextInv == IInv /\ [Next]_vars => IInv'
<1> SUFFICES ASSUME IInv, [Next]_vars PROVE IInv'
  OBVIOUS
<1>1. CASE Publish \/ Open
  BY <1>1, PublishInv, OpenInv
<1>2. CASE Close \/ Crash \/ CrashInAppend
  BY <1>2, EndsInv
<1>3. CASE StartDiscover \/ FetchPage \/ SetPending
  BY <1>3, StartInv, PageInv, QueueInv
<1>4. CASE \E a \in Article : Hole(a) \/ BeginCommit(a)
  BY <1>4, TakeInv
<1>5. CASE CommitStep
  BY <1>5, DirectoryInv, AppendInv, FlushInv DEF CommitStep
<1>6. CASE UNCHANGED vars
  <2>1. /\ Ids(index)' = Ids(index) /\ Broken' = Broken /\ Published' = Published
        /\ MaxDate(ids)' = MaxDate(ids)
    BY <1>6 DEF vars, Ids, Broken, Published, MaxDate
  <2>2. \A a : Passed(a)' <=> Passed(a)
    BY <1>6 DEF vars, Passed, Older
  <2>3. Typed' /\ Running' /\ Committing' /\ Covered'
    BY <1>6, <2>1, <2>2 DEF vars, IInv, Typed, Running, Committing, Covered
  <2> QED
    BY <1>6, <2>3, SameFiles DEF vars, IInv
<1> QED
  BY <1>1, <1>2, <1>3, <1>4, <1>5, <1>6 DEF Next

(* What the files and a run's memory say of each other, at every instant.  *)
THEOREM Invariance == Spec => []IInv
<1>1. Init => IInv
  BY InitInv
<1>2. IInv /\ [Next]_vars => IInv'
  BY NextInv
<1> QED
  BY <1>1, <1>2, PTL DEF Spec

(* The state has its types, and the entry being committed has left the     *)
(* queue.                                                                  *)
THEOREM TypeCorrect == Spec => []TypeOK
<1>1. IInv => TypeOK
  <2> SUFFICES ASSUME IInv PROVE TypeOK
    OBVIOUS
  <2>1. Published \subseteq Article
    BY PublishedAreArticles DEF IInv
  <2> QED
    BY <2>1 DEF IInv, Typed, Running, TypeOK, PcNames
<1> QED
  BY <1>1, Invariance, PTL

(* An article is in the index once and with its directory, whatever runs   *)
(* died in between (commit in store.cpp).                                  *)
THEOREM SoundIndex == Spec => []IndexSound
<1>1. IInv => IndexSound
  BY DEF IInv
<1> QED
  BY <1>1, Invariance, PTL

(* No published article older than the watermark is missing from both the  *)
(* index and the queue (discover, fetch_new_entries, set_pending).         *)
THEOREM NoneLost == Spec => []NothingLost
<1>1. IInv => NothingLost
  <2> SUFFICES ASSUME IInv, ~Broken, NEW a \in Published, Date[a] < MaxDate(Ids(index))
               PROVE  a \in Ids(index) \cup pend
    BY DEF NothingLost
  <2>1. Ids(index) \subseteq Article /\ a \in Article
    BY ReadableIds, PublishedAreArticles DEF IInv
  <2>2. Ids(index) # {}
    <3> SUFFICES ASSUME Ids(index) = {} PROVE FALSE
      OBVIOUS
    <3>1. Date[a] < 0
      BY DEF MaxDate
    <3> QED
      BY <2>1, <3>1, StoreAssumption
  <2>3. PICK q \in Ids(index) : MaxDate(Ids(index)) = Date[q]
    BY <2>1, <2>2, MaxDateAttained
  <2> QED
    BY <2>3 DEF IInv, Closed
<1> QED
  BY <1>1, Invariance, PTL
=============================================================================
