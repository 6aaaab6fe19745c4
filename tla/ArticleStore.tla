---------------------------- MODULE ArticleStore ----------------------------
(***************************************************************************)
(* The article cache of one account (app/gzh/src/store.cpp) and the sync   *)
(* that fills it (sync_account and discover in sync.cpp,                   *)
(* fetch_new_entries in profile.cpp): open the store, drain the queue,     *)
(* page through the account's history from the newest message back to the  *)
(* watermark, queue what is new, drain again.                              *)
(*                                                                         *)
(* On disk: index.jsonl, appended line by line, the commit point of an     *)
(* article; pending.jsonl, replaced atomically; one directory per article, *)
(* renamed into place from .staging.  The process may die between any two  *)
(* file operations, and in the middle of the append.                       *)
(*                                                                         *)
(* drain's worker pool is abstracted here: an entry of the queue is        *)
(* committed or left as a hole, in any order.  Drain.tla models the pool.  *)
(***************************************************************************)
EXTENDS Naturals, Sequences, FiniteSets

CONSTANTS
  NArticles,    \* the account publishes articles 1 .. NArticles, in this order
  Date,         \* publication time of each, in seconds; does not decrease
  PageSize,     \* entries of one page of the history
  MaxShift,     \* bound: articles published during one discovery
  MaxCrashes,   \* bound: runs that die before their end
  MaxTorn       \* bound: of these, how many die in the middle of an append

Article == 1 .. NArticles

ASSUME StoreAssumption ==
  /\ NArticles \in Nat
  /\ Date \in [Article -> Nat \ {0}]
  /\ \A a, b \in Article : a <= b => Date[a] <= Date[b]
  /\ PageSize \in Nat \ {0} /\ MaxShift \in 0 .. PageSize - 1
  /\ MaxCrashes \in Nat /\ MaxTorn \in 0 .. MaxCrashes

VARIABLES
  latest,       \* articles 1 .. latest are published
  index,        \* index.jsonl: its complete lines
  torn,         \* TRUE: index.jsonl ends in half a line
  pend,         \* pending.jsonl
  dirs,         \* articles whose directory is in place
  pc,
  pending,      \* pending_ in memory
  ids,          \* ids_ in memory
  queue,        \* what drain has not dealt with yet
  cur,          \* the entry drain is committing
  discovered,   \* TRUE: this run has been through discover
  since, cursor, found, shift,   \* fetch_new_entries
  crashes, torns

vars == <<latest, index, torn, pend, dirs, pc, pending, ids, queue, cur, discovered,
          since, cursor, found, shift, crashes, torns>>
diskVars == <<index, torn, pend, dirs>>
memVars == <<pending, ids, queue, cur, discovered, since, cursor, found, shift>>
crashVars == <<crashes, torns>>

Published == 1 .. latest
NoArticle == 0
Line == [id : Article, dir : BOOLEAN]
Glued == [id |-> NoArticle, dir |-> FALSE]   \* half a line and a whole one in one

Ids(log) == {log[i].id : i \in DOMAIN log}
Broken == \E i \in DOMAIN index : index[i] = Glued
MaxDate(S) == IF S = {} THEN 0
              ELSE CHOOSE d \in {Date[a] : a \in S} : \A a \in S : Date[a] <= d

-----------------------------------------------------------------------------
Init ==
  /\ latest = 0
  /\ index = <<>> /\ torn = FALSE /\ pend = {} /\ dirs = {}
  /\ pc = "closed"
  /\ pending = {} /\ ids = {} /\ queue = {} /\ cur = NoArticle /\ discovered = FALSE
  /\ since = 0 /\ cursor = 0 /\ found = {} /\ shift = 0
  /\ crashes = 0 /\ torns = 0

(***************************************************************************)
(* Environment: the account publishes.                                     *)
(***************************************************************************)
Publish ==
  /\ latest < NArticles
  /\ pc = "paging" => shift < MaxShift
  /\ latest' = latest + 1
  /\ shift' = IF pc = "paging" THEN shift + 1 ELSE shift
  /\ UNCHANGED <<diskVars, pc, pending, ids, queue, cur, discovered, since, cursor, found,
                 crashVars>>

Forget ==
  /\ pending' = {} /\ ids' = {} /\ queue' = {} /\ cur' = NoArticle /\ discovered' = FALSE
  /\ since' = 0 /\ cursor' = 0 /\ found' = {} /\ shift' = 0

(* Slip: queue what pending.jsonl lists without looking it up in the index. *)
OpenTrustsPending ==
  /\ pc = "closed"
  /\ ~Broken
  /\ ids' = Ids(index)
  /\ pending' = pend
  /\ queue' = pend
  /\ pc' = "drain"
  /\ UNCHANGED <<latest, diskVars, cur, discovered, since, cursor, found, shift, crashVars>>

(***************************************************************************)
(* AccountStore's constructor.  read_jsonl drops a torn tail and asserts   *)
(* on any other line that is not JSON; .staging is cleared.                *)
(***************************************************************************)
Open ==
  /\ pc = "closed"
  /\ ~Broken
  /\ ids' = Ids(index)
  /\ pending' = pend \ Ids(index)
  /\ queue' = pend \ Ids(index)
  /\ pc' = "drain"
  /\ UNCHANGED <<latest, diskVars, cur, discovered, since, cursor, found, shift, crashVars>>

(***************************************************************************)
(* drain: an entry that could not be fetched stays in pending.             *)
(***************************************************************************)
Hole(a) ==
  /\ pc = "drain" /\ a \in queue
  /\ queue' = queue \ {a}
  /\ UNCHANGED <<latest, diskVars, pc, pending, ids, cur, discovered, since, cursor, found,
                 shift, crashVars>>

(* Slip: the entry stays on the queue while it is committed. *)
BeginCommitQueued(a) ==
  /\ pc = "drain" /\ a \in queue
  /\ cur' = a
  /\ pc' \in {"stage", "appendTombstone"}
  /\ UNCHANGED <<latest, diskVars, pending, ids, queue, discovered, since, cursor, found, shift,
                 crashVars>>

(***************************************************************************)
(* AccountStore::commit: staging, rename, append, pending.  A tombstone    *)
(* has no directory.                                                       *)
(***************************************************************************)
BeginCommit(a) ==
  /\ pc = "drain" /\ a \in queue
  /\ queue' = queue \ {a}
  /\ cur' = a
  /\ pc' \in {"stage", "appendTombstone"}
  /\ UNCHANGED <<latest, diskVars, pending, ids, discovered, since, cursor, found, shift,
                 crashVars>>

(* The new copy is complete in .staging; an orphan makes way for it. *)
MakeWay ==
  /\ pc = "stage"
  /\ dirs' = dirs \ {cur}
  /\ pc' = "rename"
  /\ UNCHANGED <<latest, index, torn, pend, memVars, crashVars>>

RenameIntoPlace ==
  /\ pc = "rename"
  /\ dirs' = dirs \cup {cur}
  /\ pc' = "append"
  /\ UNCHANGED <<latest, index, torn, pend, memVars, crashVars>>

AppendIndex ==
  /\ pc \in {"append", "appendTombstone"}
  /\ index' = Append(index, IF torn THEN Glued ELSE [id |-> cur, dir |-> pc = "append"])
  /\ torn' = FALSE
  /\ ids' = ids \cup {cur}
  /\ pending' = pending \ {cur}
  /\ pc' = "flush"
  /\ UNCHANGED <<latest, pend, dirs, queue, cur, discovered, since, cursor, found, shift,
                 crashVars>>

FlushPending ==
  /\ pc = "flush"
  /\ pend' = pending
  /\ cur' = NoArticle
  /\ pc' = "drain"
  /\ UNCHANGED <<latest, index, torn, dirs, pending, ids, queue, discovered, since, cursor,
                 found, shift, crashVars>>

(***************************************************************************)
(* sync_account: after the first drain, stop for want of a valid           *)
(* credential or discover; after the second, stop.                         *)
(***************************************************************************)
Close ==
  /\ pc = "drain" /\ queue = {}
  /\ pc' = "closed"
  /\ Forget
  /\ UNCHANGED <<latest, diskVars, crashVars>>

StartDiscover ==
  /\ pc = "drain" /\ queue = {} /\ ~discovered
  /\ discovered' = TRUE
  /\ since' = MaxDate(ids)
  /\ pc' = "paging"
  /\ UNCHANGED <<latest, diskVars, pending, ids, queue, cur, cursor, found, shift, crashVars>>

(***************************************************************************)
(* One page: entries before the watermark stop the paging, known ones are  *)
(* skipped, the others are collected.  A page of nothing but entries seen  *)
(* in this discovery stops it too.                                         *)
(***************************************************************************)
Page == {a \in Published : latest - cursor - PageSize < a /\ a <= latest - cursor}

(* Slip: an article of the watermark's own second counts as older. *)
OlderOrSame(a) == since > 0 /\ Date[a] <= since

Older(a) == since > 0 /\ Date[a] < since

Crossed == \E a \in Page : Older(a)
Filtered == {a \in Page : Older(a) \/ a \in ids}
Fresh == (Page \ Filtered) \ found
LastPage ==
  \/ Crossed
  \/ Page # {} /\ Fresh = {} /\ Filtered = {}
  \/ cursor + PageSize >= latest

FetchPage ==
  /\ pc = "paging"
  /\ found' = found \cup Fresh
  /\ cursor' = IF LastPage THEN cursor ELSE cursor + PageSize
  /\ pc' = IF LastPage THEN "setPending" ELSE "paging"
  /\ UNCHANGED <<latest, diskVars, pending, ids, queue, cur, discovered, since, shift, crashVars>>

(* Slip: the new queue replaces the old one. *)
SetPendingOverwrites ==
  /\ pc = "setPending"
  /\ pending' = found \ ids
  /\ pend' = pending'
  /\ queue' = pending'
  /\ since' = 0 /\ cursor' = 0 /\ found' = {} /\ shift' = 0
  /\ pc' = "drain"
  /\ UNCHANGED <<latest, index, torn, dirs, ids, cur, discovered, crashVars>>

SetPending ==
  /\ pc = "setPending"
  /\ pending' = (pending \cup found) \ ids
  /\ pend' = pending'
  /\ queue' = pending'
  /\ since' = 0 /\ cursor' = 0 /\ found' = {} /\ shift' = 0
  /\ pc' = "drain"
  /\ UNCHANGED <<latest, index, torn, dirs, ids, cur, discovered, crashVars>>

(***************************************************************************)
(* The process dies; half of a line may be left of an append.              *)
(***************************************************************************)
Crash ==
  /\ pc # "closed" /\ crashes < MaxCrashes
  /\ crashes' = crashes + 1
  /\ pc' = "closed"
  /\ Forget
  /\ UNCHANGED <<latest, diskVars, torns>>

CrashInAppend ==
  /\ pc \in {"append", "appendTombstone"} /\ crashes < MaxCrashes /\ torns < MaxTorn
  /\ crashes' = crashes + 1 /\ torns' = torns + 1
  /\ torn' = TRUE
  /\ pc' = "closed"
  /\ Forget
  /\ UNCHANGED <<latest, index, pend, dirs>>

CommitStep == MakeWay \/ RenameIntoPlace \/ AppendIndex \/ FlushPending

Next ==
  \/ Publish
  \/ Open \/ Close \/ StartDiscover \/ FetchPage \/ SetPending
  \/ \E a \in Article : Hole(a) \/ BeginCommit(a)
  \/ CommitStep
  \/ Crash \/ CrashInAppend

Spec == Init /\ [][Next]_vars

(***************************************************************************)
(* Fairness: the operator runs sync again and again and has a valid        *)
(* credential often enough, a run goes on to its end, and fetching one     *)
(* article does not fail for ever.                                         *)
(***************************************************************************)
FairSpec ==
  /\ Spec
  /\ WF_vars(Open) /\ WF_vars(Close) /\ SF_vars(StartDiscover)
  /\ WF_vars(FetchPage) /\ WF_vars(SetPending) /\ WF_vars(CommitStep)
  /\ \A a \in Article : WF_vars(Hole(a)) /\ SF_vars(BeginCommit(a))

-----------------------------------------------------------------------------
(***************************************************************************)
(* The state has its types, and the entry being committed has left the     *)
(* queue (store.cpp, sync.cpp).                                            *)
(***************************************************************************)
TypeOK ==
  /\ latest \in 0 .. NArticles
  /\ index \in Seq(Line \cup {Glued}) /\ torn \in BOOLEAN
  /\ pend \subseteq Article /\ dirs \subseteq Article
  /\ pc \in {"closed", "drain", "stage", "rename", "append", "appendTombstone", "flush",
             "paging", "setPending"}
  /\ pending \subseteq Article /\ ids \subseteq Article
  /\ queue \subseteq pending \cup ids /\ cur \in (Article \cup {NoArticle}) \ queue
  /\ discovered \in BOOLEAN
  /\ since \in Nat /\ cursor \in 0 .. NArticles /\ found \subseteq Article
  /\ shift \in 0 .. MaxShift
  /\ crashes \in 0 .. MaxCrashes /\ torns \in 0 .. MaxTorn

(***************************************************************************)
(* An article is in the index once, and one with a body has its directory: *)
(* whatever runs died in between, none is fetched again or loses the copy  *)
(* its line stands for ("已入库的永不重下、也永不改写", store.hpp).              *)
(***************************************************************************)
IndexSound ==
  /\ \A i, j \in DOMAIN index : index[i].id = index[j].id /\ index[i] # Glued => i = j
  /\ \A i \in DOMAIN index : index[i].dir => index[i].id \in dirs

(***************************************************************************)
(* A published article older than the watermark is on disk, in the index   *)
(* or on the queue.  Paging stops at the watermark, so one that is in      *)
(* neither would never be looked for again.                                *)
(***************************************************************************)
NothingLost ==
  ~Broken => \A a \in Published :
               Date[a] < MaxDate(Ids(index)) => a \in Ids(index) \cup pend

(***************************************************************************)
(* In the end every published article is in the index, unless an           *)
(* unreadable line has closed the store for good (see Reopenable).         *)
(***************************************************************************)
EventuallyCached == <>[](Published \subseteq Ids(index) \/ Broken)

(***************************************************************************)
(* store.cpp's read_jsonl: a line torn by a crash "is dropped", so the     *)
(* store can always be opened again.  The torn half is dropped from what   *)
(* is read but stays in the file; the next append continues it.            *)
(***************************************************************************)
Reopenable == pc = "closed" => ~Broken

=============================================================================
