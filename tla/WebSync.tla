------------------------------ MODULE WebSync -------------------------------
(***************************************************************************)
(* A run of the forum crawler (app/web/common/sync.py): discover pages     *)
(* through the list of one tag, drain downloads what is queued through two *)
(* pools (text, then images) and commits in any order.  Runs follow one    *)
(* another; the process may die between any two changes of the files, and  *)
(* inside an append; the list changes between runs and while it is paged.  *)
(***************************************************************************)
EXTENDS WebStore

CONSTANTS
  NInitial,       \* posts on the list before the first run
  PageSize,
  ByReply,        \* the list is ordered by the last reply (guoren) or not (jquant)
  Workers,        \* site.fetcher.workers
  STOP_PAGES, ANCHOR_WINDOW, ASSET_BACKLOG, HOLE_STREAK,
  MaxTouches,     \* posts published or replied to after the first run began
  MaxCrashes

ASSUME WebSyncAssumption ==
  /\ NInitial \in 0 .. NPosts
  /\ {PageSize, Workers, STOP_PAGES, ASSET_BACKLOG, HOLE_STREAK} \subseteq Nat \ {0}
  /\ {ANCHOR_WINDOW, MaxTouches, MaxCrashes} \subseteq Nat
  /\ ByReply \in BOOLEAN

VARIABLES
  list,       \* the posts on the forum's list, the front of page 1 first
  touches, crashes,
  phase,      \* where the run is; "closed": no process
  page,       \* the page to read next
  total,      \* total_pages, as the first page read said
  anchor,     \* _locate_anchor: the post looked for
  front,      \* entries[0] of the page just absorbed
  found,      \* _discover_shallow: what was read so far
  quiet,      \* _discover_shallow: quiet_pages
  queue,      \* drain: the queue it began with
  next,       \* drain: how many of them todo has given out
  net, img,   \* drain: places in queue whose text, whose images are being fetched
  cur,        \* drain: the place being committed, 0 if none
  streak,
  pushed,     \* history: the moves of the list that this full scan has to answer
              \* for, made while it ran or before the anchor it resumed from
  owed        \* history: what pushed was when deep_anchor was saved

paging == <<page, total, anchor, front, found, quiet>>
draining == <<queue, next, net, img, cur, streak>>
environment == <<list, touches>>
history == <<pushed, owed>>
vars == <<storeVars, environment, crashes, phase, paging, draining, history>>

Listed == {list[i] : i \in DOMAIN list}
Unseen == Listed \ Seen
Unknown == Listed \ Known

PagesIn(posts) == (Len(posts) + PageSize - 1) \div PageSize
Page(n) == SubSeq(list, (n - 1) * PageSize + 1,
                  IF n * PageSize <= Len(list) THEN n * PageSize ELSE Len(list))

(* Slip: the order of the list is kept. *)
AsListed(rows) == rows

(* In k-th place the row with fewer than k before it and k up to it. *)
Ascending(rows) ==
  [k \in DOMAIN rows |->
     CHOOSE v \in Queued(rows) : /\ Cardinality({i \in DOMAIN rows : rows[i] < v}) < k
                                /\ k <= Cardinality({i \in DOMAIN rows : rows[i] <= v})]

Place(p) == CHOOSE i \in DOMAIN list : list[i] = p

(* Posts that no file knows, behind one that is known. *)
Gaps == {p \in Unknown : \E q \in Listed \cap Known : Place(q) < Place(p)}

-----------------------------------------------------------------------------
(* The forum. *)

Movable == {p \in Post : \/ p \notin Listed /\ \A q \in Post : q < p => q \in Listed
                         \/ ByReply /\ p \in Listed}

Discovering == phase \in {"locate", "deep", "mark", "shallow", "enqueue"}
DeepScan == phase \in {"locate", "deep", "mark"}

(* A post comes to the front of the list.  drain does not read it.         *)
ToFront(p) ==
  /\ touches < MaxTouches
  /\ phase = "closed" \/ Discovering
  /\ p \in Movable
  /\ list' = <<p>> \o Picked(list, {i \in DOMAIN list : list[i] # p})
  /\ touches' = touches + 1
  /\ pushed' = IF DeepScan THEN pushed + 1 ELSE pushed
  /\ UNCHANGED <<storeVars, crashes, phase, paging, draining, owed>>

-----------------------------------------------------------------------------
(* discover *)

NoPaging ==
  /\ page' = 0 /\ total' = 0 /\ anchor' = NoAnchor /\ front' = NoAnchor
  /\ found' = <<>> /\ quiet' = 0

Open ==
  /\ phase = "closed"
  /\ OpenStore
  /\ phase' = "open"
  /\ UNCHANGED <<environment, crashes, paging, draining, history>>

(* The first page tells how many there are. *)
StartDeep(forced) ==
  /\ phase = "open"
  /\ forced \/ ~deep_done
  /\ total' = PagesIn(list)
  /\ IF forced \/ deep_anchor = NoAnchor
       THEN /\ phase' = "deep" /\ page' = PagesIn(list) /\ anchor' = NoAnchor
            /\ pushed' = 0
       ELSE /\ phase' = "locate" /\ page' = deep_page /\ anchor' = deep_anchor
            /\ pushed' = owed
  /\ UNCHANGED <<storeVars, environment, crashes, front, found, quiet, draining, owed>>

LastLocatePage ==
  IF deep_page + ANCHOR_WINDOW < total THEN deep_page + ANCHOR_WINDOW ELSE total

(* Slip: the anchor's page has been scanned, so its successor is next. *)
ResumeAfter == page - 1

(* The scan goes on from the page where the anchor is now, or from the     *)
(* oldest page if it is not found.                                         *)
Resume == page

Locate ==
  /\ phase = "locate"
  /\ \/ /\ page <= LastLocatePage /\ anchor \in Queued(Page(page))
        /\ page' = Resume /\ phase' = "deep"
     \/ /\ page < LastLocatePage /\ anchor \notin Queued(Page(page))
        /\ page' = page + 1 /\ UNCHANGED phase
     \/ /\ page >= LastLocatePage /\ anchor \notin Queued(Page(page))
        /\ page' = total /\ phase' = "deep"
  /\ UNCHANGED <<storeVars, environment, crashes, total, anchor, front, found, quiet,
                 draining, history>>

ScanPage ==
  /\ phase = "deep" /\ page >= 1
  /\ AddPending(Ascending(Page(page)))
  /\ front' = Page(page)[1]
  /\ phase' = "mark"
  /\ UNCHANGED <<environment, crashes, page, total, anchor, found, quiet, draining, history>>

MarkPage ==
  /\ phase = "mark"
  /\ SetProgress(page, front)
  /\ page' = page - 1
  /\ phase' = "deep"
  /\ owed' = pushed
  /\ UNCHANGED <<environment, crashes, total, anchor, front, found, quiet, draining, pushed>>

FinishDeep ==
  /\ phase = "deep" /\ page < 1
  /\ SetDeepDone
  /\ NoPaging
  /\ phase' = "discovered"
  /\ pushed' = 0 /\ owed' = 0
  /\ UNCHANGED <<environment, crashes, draining>>

StartShallow ==
  /\ phase = "open" /\ deep_done
  /\ page' = 1 /\ total' = PagesIn(list)
  /\ phase' = "shallow"
  /\ UNCHANGED <<storeVars, environment, crashes, anchor, front, found, quiet, draining, history>>

AllKnown(entries) == Queued(entries) \subseteq Seen

ReadPage ==
  /\ phase = "shallow"
  /\ found' = found \o Page(page)
  /\ quiet' = IF AllKnown(Page(page)) THEN quiet + 1 ELSE 0
  /\ IF page >= total \/ quiet' >= STOP_PAGES
       THEN phase' = "enqueue" /\ UNCHANGED page
       ELSE page' = page + 1 /\ UNCHANGED phase
  /\ UNCHANGED <<storeVars, environment, crashes, total, anchor, front, draining, history>>

Enqueue ==
  /\ phase = "enqueue"
  /\ AddPending(Ascending(found))
  /\ NoPaging
  /\ phase' = "discovered"
  /\ UNCHANGED <<environment, crashes, draining, history>>

-----------------------------------------------------------------------------
(* drain *)

NoDraining ==
  /\ queue' = <<>> /\ next' = 0 /\ net' = {} /\ img' = {} /\ cur' = 0 /\ streak' = 0

(* Slip: seen() for has(). *)
ToDoUnseen == FreshRows(mem)

(* What drain is to download. *)
ToDo == Unindexed(mem)

(* Slip: no limit on what waits for images. *)
RoomForText(flying, behind) == IF flying < Workers THEN Workers - flying ELSE 0

(* How many entries of todo the text pool is given when `flying` of its    *)
(* workers are busy and `behind` entries wait for their images.            *)
Room(flying, behind) ==
  IF behind < ASSET_BACKLOG * Workers /\ flying < Workers THEN Workers - flying ELSE 0

(* Slip: todo is not asked whether anything is left. *)
RefillUnbounded(places, given, n1, i1) ==
  LET fresh == given + 1 .. given + Room(Cardinality(n1), Cardinality(i1))
  IN  next' = given + Cardinality(fresh) /\ net' = n1 \cup fresh /\ img' = i1

(* refill, when todo has given out the first `given` of its places and n1, *)
(* i1 are in flight.                                                       *)
Refill(places, given, n1, i1) ==
  LET fresh == (given + 1 .. given + Room(Cardinality(n1), Cardinality(i1))) \cap places
  IN  next' = given + Cardinality(fresh) /\ net' = n1 \cup fresh /\ img' = i1

StartDrain ==
  /\ phase = "discovered"
  /\ ToDo # <<>>
  /\ queue' = ToDo
  /\ Refill(DOMAIN ToDo, 0, {}, {})
  /\ cur' = 0 /\ streak' = 0
  /\ phase' = "drain"
  /\ UNCHANGED <<storeVars, environment, crashes, paging, history>>

NothingToDo ==
  /\ phase = "discovered"
  /\ ToDo = <<>>
  /\ mem' = <<>> /\ phase' = "closed"
  /\ UNCHANGED <<files, environment, crashes, paging, draining, history>>

(* One finished future after the other is dealt with; the refill comes     *)
(* after the last of those that wait() returned, so after this one or      *)
(* later.                                                                  *)
AfterOne(n1, i1) ==
  /\ \/ Refill(DOMAIN queue, next, n1, i1)
     \/ /\ n1 \cup i1 # {}
        /\ net' = n1 /\ img' = i1 /\ UNCHANGED next
  /\ UNCHANGED queue

NetGot(p) ==
  /\ phase = "drain" /\ cur = 0
  /\ \E i \in net :
       /\ queue[i] = p
       /\ AfterOne(net \ {i}, img \cup {i})
  /\ UNCHANGED <<storeVars, environment, crashes, phase, paging, cur, streak, history>>

(* The end of the process: only the files stay. *)
Exit ==
  /\ mem' = <<>> /\ phase' = "closed"
  /\ NoPaging /\ NoDraining

(* A hole stays in the queue; too many in a row end the run. *)
Hole(i) ==
  /\ phase = "drain" /\ cur = 0
  /\ i \in net \cup img
  /\ IF streak + 1 < HOLE_STREAK * Workers
       THEN /\ AfterOne(net \ {i}, img \ {i})
            /\ streak' = streak + 1
            /\ UNCHANGED <<storeVars, phase, paging, cur>>
       ELSE Exit /\ UNCHANGED files
  /\ UNCHANGED <<environment, crashes, history>>

(* The images are there: commit begins with its assertion. *)
ImgGot(p) ==
  /\ phase = "drain" /\ cur = 0
  /\ \E i \in img :
       /\ queue[i] = p
       /\ IF p \notin index
            THEN /\ cur' = i /\ streak' = 0
                 /\ UNCHANGED <<phase, mem, paging, queue, next, net, img>>
            ELSE Exit
  /\ UNCHANGED <<files, environment, crashes, history>>

(* Slip: the index line comes first. *)
StagedLater ==
  /\ phase = "drain" /\ cur # 0 /\ queue[cur] \notin dirs
  /\ AppendIndex(queue[cur])
  /\ dirs' = dirs
  /\ UNCHANGED <<environment, crashes, phase, paging, draining, history>>

(* No directory of that name is left over: Open removed the orphans. *)
Staged ==
  /\ phase = "drain" /\ cur # 0 /\ queue[cur] \notin dirs
  /\ PutDirectory(queue[cur])
  /\ UNCHANGED <<environment, crashes, phase, paging, draining, history>>

Indexed ==
  /\ phase = "drain" /\ cur # 0 /\ queue[cur] \in dirs
  /\ AppendIndex(queue[cur])
  /\ cur' = 0
  /\ AfterOne(net, img \ {cur})
  /\ UNCHANGED <<environment, crashes, phase, paging, streak, history>>

EndDrain ==
  /\ phase = "drain" /\ cur = 0 /\ net \cup img = {}
  /\ CompactPending
  /\ Exit
  /\ UNCHANGED <<environment, crashes, history>>

-----------------------------------------------------------------------------
(* Kills, and every assertion not mentioned above. *)

Crash ==
  /\ phase # "closed" /\ crashes < MaxCrashes
  /\ crashes' = crashes + 1
  /\ Exit
  /\ UNCHANGED <<files, environment, history>>

CrashInAppend ==
  /\ crashes < MaxCrashes
  /\ crashes' = crashes + 1
  /\ \E partial \in BOOLEAN :
       \/ /\ phase = "deep" /\ page >= 1
          /\ \E n \in 0 .. NPosts : AddPendingInPart(Ascending(Page(page)), n, partial)
       \/ /\ phase = "enqueue"
          /\ \E n \in 0 .. 2 * NPosts : AddPendingInPart(Ascending(found), n, partial)
       \/ /\ phase = "drain" /\ cur # 0 /\ queue[cur] \in dirs
          /\ partial
          /\ torn' = TRUE
          /\ UNCHANGED <<index, pend, dirs, deep_done, deep_page, deep_anchor>>
  /\ Exit
  /\ UNCHANGED <<environment, history>>

(* The incomplete line stops every start until the user removes it.        *)
MendedByHand ==
  /\ phase = "closed" /\ torn
  /\ torn' = FALSE
  /\ UNCHANGED <<index, pend, dirs, deep_done, deep_page, deep_anchor, mem,
                 environment, crashes, phase, paging, draining, history>>

-----------------------------------------------------------------------------
Init ==
  /\ StoreInit
  /\ list = [i \in 1 .. NInitial |-> NInitial + 1 - i]
  /\ touches = 0 /\ crashes = 0
  /\ phase = "closed"
  /\ page = 0 /\ total = 0 /\ anchor = NoAnchor /\ front = NoAnchor
  /\ found = <<>> /\ quiet = 0
  /\ queue = <<>> /\ next = 0 /\ net = {} /\ img = {} /\ cur = 0 /\ streak = 0
  /\ pushed = 0 /\ owed = 0

Discover ==
  \/ StartDeep(FALSE) \/ StartDeep(TRUE) \/ Locate \/ ScanPage \/ MarkPage \/ FinishDeep
  \/ StartShallow \/ ReadPage \/ Enqueue

CommitStep == Staged \/ Indexed

Drain ==
  \/ StartDrain \/ NothingToDo \/ EndDrain \/ CommitStep
  \/ \E p \in Post : NetGot(p) \/ ImgGot(p)
  \/ \E i \in 1 .. Len(queue) : Hole(i)

Next ==
  \/ \E p \in Post : ToFront(p)
  \/ Open \/ Discover \/ Drain
  \/ Crash \/ CrashInAppend \/ MendedByHand

Spec == Init /\ [][Next]_vars

(* The crawler is started again and again and each run goes on to its end; *)
(* the oldest post of the queue, asked for again and again, arrives once,  *)
(* and so do its images; an incomplete line is removed by the user, since  *)
(* no start gets past it.                                                  *)
FairSpec ==
  /\ Spec
  /\ WF_vars(Open) /\ WF_vars(Discover) /\ WF_vars(Drain) /\ WF_vars(MendedByHand)
  /\ SF_vars(queue # <<>> /\ NetGot(queue[1]))
  /\ SF_vars(queue # <<>> /\ ImgGot(queue[1]))

-----------------------------------------------------------------------------
PhaseNames == {"closed", "open", "locate", "deep", "mark", "shallow", "enqueue",
               "discovered", "drain"}

TypeOK ==
  /\ index \subseteq Post /\ dirs \subseteq Post
  /\ pend \in Seq(Post) /\ mem \in Seq(Post) /\ found \in Seq(Post)
  /\ list \in Seq(Post) /\ queue \in Seq(Post)
  /\ {torn, deep_done} \subseteq BOOLEAN
  /\ {deep_page, total, quiet, next, streak, pushed, owed, touches, page} \subseteq Nat
  /\ {deep_anchor, anchor, front} \subseteq Post \cup {NoAnchor}
  /\ next <= Len(queue)
  /\ net \cup img \subseteq 1 .. next /\ net \cap img = {}
  /\ cur \in img \cup {0}
  /\ phase \in PhaseNames
  /\ crashes \in 0 .. MaxCrashes
  /\ streak < HOLE_STREAK * Workers

(***************************************************************************)
(* What index.jsonl calls cached has its directory, through every death    *)
(* between rename and append and the removal of orphans that follows       *)
(* (store.py, "atomicity").                                                *)
(***************************************************************************)
IndexSound == index \subseteq dirs

(***************************************************************************)
(* The two windows together bound the articles held in memory: "the limit  *)
(* is (ASSET_BACKLOG + 1) * workers" (sync.py, ASSET_BACKLOG).             *)
(***************************************************************************)
MemoryBound == Cardinality(net \cup img) <= (ASSET_BACKLOG + 1) * Workers

(***************************************************************************)
(* When a full scan has come to page 1, the posts it has not seen are no   *)
(* more than the moves of the list while it ran, those before the anchor   *)
(* that it resumed from included, however often it was killed and resumed: *)
(* what was published between runs is accounted for by the anchor, "older  *)
(* than the anchor is discovered" (sync.py, head).                         *)
(***************************************************************************)
AccountedFor ==
  phase = "deep" /\ page = 0 => Cardinality(Unseen) <= pushed

(***************************************************************************)
(* A post once written to the queue or the index stays in one of them:     *)
(* holes, kills, compaction and a second discovery lose nothing.           *)
(***************************************************************************)
NothingForgotten == [][Known \subseteq Known']_vars

(* The incremental scan has read the last page there was when it began,    *)
(* and the list has outgrown it since.                                     *)
Outgrown == phase = "enqueue" /\ page >= total /\ PagesIn(list) > total

(***************************************************************************)
(* No step leaves a post that no file knows behind one that is known,      *)
(* where the next incremental scan would stop before it, but for the moves *)
(* of the list that a full scan answers for, and for an incremental one    *)
(* that reads to the end of a list that grew by a page meanwhile: a scan   *)
(* that is killed leaves the newest posts to the next one, never a hole in *)
(* the middle.                                                             *)
(***************************************************************************)
NoNewGaps == [][Gaps' \subseteq Gaps \/ (DeepScan /\ pushed > 0) \/ Outgrown]_vars

(***************************************************************************)
(* Holes are retried until the queue is empty: once the forum is quiet,    *)
(* everything the files know is cached in the end, whatever was killed and *)
(* however many runs gave up after a series of holes: "can be killed at    *)
(* any time, the next run goes on" (store.py, "atomicity") - not by itself *)
(* though, if the kill tore a line (MendedByHand).                         *)
(***************************************************************************)
EventuallyCached == <>[](Known \subseteq index)
=============================================================================
