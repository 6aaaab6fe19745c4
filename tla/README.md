# A verification project for qmt

`qmt` downloads Chinese market data into monthly parquet files, builds feature
tensors from them, backtests strategies and mines factors on those tensors
(`cpp/`, `py/`), and keeps two document crawlers beside it (`app/gzh` for
WeChat articles, `app/web` for forum posts). This directory holds TLA+ models
of the parts whose correctness rests on the order of events: what is persisted
when, who waits for whom, what a run finds after the previous one died.

Paths below are relative to the repository root. Vendored code
(`cpp/include/boost`, `cpp/include/package`, `app/gzh/packages`), data and
documents of the exchanges are left aside.

## 1. Inventory

### 1.1 The market data pipeline (`cpp/src/main.cpp`, `api/`, `misc/`)

* **Download schedule and month archive.** State: `data/<YYYY-MM>/<table>.parquet`
  and nothing else; what to fetch is decided from a file's existence, its mtime
  and the largest visible date in it. Operations: `plan_months` (closed months:
  frozen or refetched whole; open months: increment from the watermark),
  `pending`, `preflight`, `update` of the two sources, `append_table_atomic`,
  `write_table_atomic`. Hard: three clocks (`today` captured at the start, the
  hour read fresh, mtimes compared in UTC), appends without deduplication,
  backfills behind the watermark, death between any two months. Correct when:
  no row is stored twice, none that was on time is skipped, a file never
  shrinks, a closed month is refetched once after the last backfill and then
  never written, and the pipeline stops asking when there is nothing to get.
* **Metadata files** (`meta_fresh`): one snapshot and one static table under
  `data/_meta`, replaced whole. Correct when a stale one is replaced and a fresh
  one is left alone.
* **BigQuant client** (`api/bigquant/dai.cpp`): Arrow Flight queries; **Tushare
  client** (`api/tushare/http.cpp`, `parse.cpp`): HTTP calls with retries on
  transport errors and on the rate-limit code, and column types inferred from
  each response. Hard: an increment's inferred types may differ from the file's.
* **Feature loader and pool cache** (`feature/load.cpp`, `pit.cpp`, `axis.cpp`,
  `tensor.cpp`). State: `data/pool/<itf>.bin`, one entry under a key of paths, sizes,
  mtimes and axes, and its `.tmp`. Operations: enumerate the month files, stat them for
  the key, map the cache or parse the files by threads and dump the pool, overlay
  the metadata snapshot. Hard: the archive changes while a load stats and reads it
  file by file; axes and metadata change between loads. Correct when a cache that
  is mapped is the pool that would be built, and a pool is never older than its load.
* **Feature build** (`feature/build.cpp`, `graph.hpp`, `ts.cpp`, `cs.cpp`):
  time-series and cross-section features computed in parallel phases separated
  by barriers, in dependency order. Correct when no feature reads one that is
  not built.
* **Strategy columns** (`strategy/columns.cpp`): scores and filters, numeric; they
  end in a ranking of the assets that can be bought.
* **Backtest engine** (`backtest/`). State: cash, positions, and the recorder's
  open records and days held. Operations, once a day: force out what is
  delisted, mark to market, decide from the ranking, sell, buy, spend the cash
  left on positions below target, record. Hard: a sale that a suspension
  prevents, after its slot was given away; limits that exempt a position;
  delisting on any day; purchases that share what cash there is. Correct when
  money is conserved but for costs, no asset is held or sold twice, the book
  follows the ranking as soon as it can, and the records agree with the book.
* **Analysis, report, mining** (`analysis/`, `report/`, `mine/`): statistics and
  search over tensors of floats.

### 1.2 The article crawler (`app/gzh`)

* **Article store and account sync** (`store.cpp`, `sync.cpp`, `profile.cpp`).
  State: `index.jsonl` (append-only, the commit point), `pending.jsonl` (the
  queue, replaced atomically), a directory per article (renamed from
  `.staging`). Operations: open, commit, set_pending, page through the history
  back to the watermark. Hard: death between any two file operations and inside
  the append, articles published while paging, articles of one second. Correct
  when an article is indexed once and with its files, none below the watermark
  is lost, and each is cached in the end.
* **Drain worker pool** (`drain` in `sync.cpp`): fetch threads behind a dispatch
  window, one committing main thread, two condition variables. Hard: lost
  wake-ups, holes, a counter read without the mutex. Correct when memory is
  bounded, no entry is dropped or committed twice, and the call returns.
* **Fetcher and egress** (`fetch.cpp`, `egress.cpp`, `assets.cpp`): attempts with
  time limits, one throttle shared by all threads.
* **Interception proxy** (`proxy.cpp`, `tlsca.cpp`, `capture.cpp`). State: the listening
  socket, the sockets of the connections served (`client_fds`, `upstream_fds`), the
  number of their threads (`inflight`). Operations: `start`, the accept loop, a
  detached thread per connection, `stop`. Hard: `stop` must wake, by shutting their
  sockets down, threads it cannot join, while others are still being accepted.
  Correct when no thread outlives `stop`, what it shuts down is open and the
  proxy's own, and it returns.
* **System proxy takeover** (`cli/main.cpp`, `desktop.cpp`). State: the desktop's proxy
  setting (seven values, each written by a `gsettings` process), `proxy-backup.json`, `g_restore_armed`.
  Operations: heal at start, back up, take over, wait for the user, restore; restore
  from `on_signal`. Hard: a kill or a signal between any two writes, a signal in
  the middle of the takeover or of the restoration, a write that outlives the start of the handler.
  Correct when the user's setting is always in force
  or in a whole backup, and in force again in the end.
* **Rendering** (`markdown.cpp`, `dom.cpp`, `html.cpp`, `renderer.cpp`,
  `cgi.cpp`): text conversion without state.

The sync opens the store, drains its queue through the pool, discovers new
entries with the credential the proxy captured, and drains again.

### 1.3 The forum crawler (`app/web`) and the scripts

* **Web crawler** (`common/sync.py`, `store.py`, `net.py`, `tunnel.py`, `site/*.py`).
  State: `index.jsonl` (append-only, the commit point), `pending.jsonl` (appended,
  compacted at the end of a run), a directory per post, `state.json` (progress of the
  first full scan: page and anchor). Operations: full scan from the oldest page to
  page 1, resumed at the anchor; incremental scan from page 1 until
  pages bring nothing new; drain through two pools (texts, images) in flight at
  once. Hard: pages shift while they are read and between two runs, kills inside a
  page or an append, holes in either pool. Correct when every post before the
  anchor is known, none known is forgotten, no gap opens behind a known post, memory
  is bounded, and everything known is cached in the end.
* **Launchers and Python reports** (`run.py`, `py/`): sequential.

## 2. Modules

| module | models | role |
|---|---|---|
| `Calendar` | `misc/date.cpp`, head of `misc/schedule.cpp` | clock, local and UTC dates, horizon |
| `MonthArchive` | `main.cpp`, `schedule.cpp`, `parquet.cpp`, the two `pipeline.cpp` | the download pipeline |
| `Mirror` | what readers of `data/` rely on | abstract specification, implemented by `MonthArchive` |
| `MonthArchive_proofs` | | theorems about it |
| `ArticleStore` | `store.cpp`, `sync_account`, `fetch_new_entries` | cache of one account over many runs |
| `ArticleStore_proofs` | | theorems about it |
| `Drain` | `drain` in `sync.cpp` | the worker pool, thread by thread |
| `DrainQueue` | what `drain` promises | abstract specification, implemented by `Drain` |
| `Drain_proofs` | | theorems about it |
| `Engine` | `backtest/engine.hpp`, `engine.cpp`, the recorder of `backtest.cpp` | the backtest, day by day |
| `Engine_proofs` | | theorems about the book: positions, ranking, records |
| `EngineMoney_proofs` | | theorems about the money: types, conservation, the sweep |
| `MitmProxy` | `start` with the accept thread, `serve`, `stop` in `proxy.cpp` | the proxy, thread by thread |
| `CaptureSession` | `capture_session`, `restore_now`, `on_signal`, start-up in `cli/main.cpp`; `desktop.cpp` | takeover and restoration, over many processes; composes `MitmProxy` |
| `CaptureSession_proofs` | | theorems about both |
| `WebStore` | class `Store` in `store.py` | the files of the forum cache and the operations on them |
| `WebSync` | `discover`, `drain` in `sync.py` | runs of the forum crawler; composes `WebStore` |
| `WebSync_proofs` | | theorems about both |
| `PoolCache` | `load_pit`, `compute_cache_key` and the cache file in `load.cpp` | one interface's pool beside a changing archive |
| `PoolCache_proofs` | | theorems about it |
| `MCMonthArchive`, `MCArticleStore`, `MCDrain`, `MCEngine`, `MCCaptureSession`, `MCWebSync`, `MCPoolCache` | | values of the constants for TLC |

Operators whose comment begins with "Slip" are not part of a specification:
each is a plausible slip of an operator after it, kept to see which property
notices.

### 2.1 MonthArchive

A date is a day number and a month an interval of days; the clock has
`HoursPerDay` hours, and UTC lags `UtcLag` hours behind. `server[t]` is the
source (environment): on-time rows of a day appear before the table's
`avail_hour` (`Publish`), late rows while the month is open (`Backfill`).
`disk[t][m]` is a month file: rows with their multiplicity and an mtime. A run
is `StartRun` (`today`, `pending`), `Accept` or `Decline` (the operator), then per
table `PlanTable`, per month `NextMonth`, the fetch (`FetchWindow`, or `FetchDay`
once per day), and `TouchEmpty` or `WriteTmp` and `Rename`. A table's `Kind` says how
it is asked: `range`, `perday` (Tushare), `monthfirst` (the Partition query). `Crash`
stands for a kill, a failed assertion and an exhausted retry alike: all end the
process, and only files survive (a stray `.tmp` is overwritten, never read).
Rows are pairs of a visible date and a label. One process runs at a time. That a
table's data of a day is complete at `avail_hour` is what the specs state of the
sources, and is an assumption about them.

### 2.2 ArticleStore

`index`, `torn`, `pend`, `dirs` are the files; the other variables are one run.
`Open` is the constructor with `read_jsonl`; `BeginCommit`, `MakeWay`,
`RenameIntoPlace`, `AppendIndex`, `FlushPending` are `commit`, one step per file
operation; `StartDiscover`, `FetchPage`, `SetPending` the discovery, one step per
page. `Crash` may come between any two steps, `CrashInAppend` leaves half a line.
Each message holds one article; the account does not delete; fewer articles than
a page holds appear during one discovery (`MaxShift < PageSize`). `drain` is
reduced to what `DrainQueue` promises: an entry is committed or left as a hole,
in any order.

### 2.3 Drain

Each section under `mutex` is one step, each notify another, as the code calls it
with the mutex released. `holes` is read by the outer loop without the mutex; the
value read is any between the last one seen and the current one. `wait_for`'s
limit is `Timeout`, enabled whenever the main thread waits.

### 2.4 Engine

`Engine::step` is cut into the phases of a day: `delist` (1), (2): `DelistSell`,
`Mark`; `decide` (3), (4): `Decide`; `sell` (5): `Sell`; `buy` and `sweep` (6):
`SetTarget`, `BuyNext`, `StartSweep`, `TopUp`; then `CloseDay` with the loop of
`backtest::run` over the holdings. One position is bought, sold or topped up
per step, and the recorder's hook is part of it. A position is its market value instead of
shares times price; money counts whole units with fees rounded down and the
target rounded up, so that a positive amount buys something, as with doubles.
The order of the holdings, which decides only the order of sales and of equal
deficits, is left open. `Decide` takes any ranking (`cs_rank`) of assets neither
suspended nor delisted, as `ts_pool_b` leaves those out. `OpenDay` is the market:
prices fall, assets are suspended, at a limit (`limit_up` and `limit_dn` act
alike) or delisted, `MaxShocks` times in all; an asset without a price is
ranked but cannot be bought. A price that changes falls by half; no price
rises, which keeps the money of an instance bounded. Mining (`mine.cpp`) runs the same kernel with an
empty recorder.

### 2.5 MitmProxy and CaptureSession

`conn[c]` is where the thread of connection `c` stands, from `Dial` (the kernel's queue)
through `Accept` and `Spawn` (the accept thread, which counts it), `Register`,
`ReadRequest`, `Splice` or `Intercept` or `NoUpstream`, `Over`, `CloseUpstream`,
`Unregister`, `Close` to `Uncount`. Each section under the proxy's mutex, each close and each change of
`inflight` is a step. `stop` goes `StopRunning`, `CloseListen`, `Join`, `Sweep`,
`Stopped`. A socket that was shut down ends the exchange on it (`cut`); one that was
not ends when the client or the site closes it, or at a timeout where the
code sets one. `Start` and `stop` are steps of the main thread in `CaptureSession`.

`CaptureSession` has a process at a time: `Boot` and `Heal` (`restore_proxy_backup`);
`Begin`, `OpenBackup`, `WriteBackup`, `Arm`, `TakeKey`, `Select`, `Restore`, `StopProxy`, `Exit`
are `capture_session` in its order, one step per file operation and per write of a value. The
setting is seven values: host and port of three endpoints, then the mode; each is the user's or the tool's,
and the user does not change it during a session. `Signal` starts
the handler in the main thread's place; only an armed one restores. A signal that finds `g_restore_armed` down
(before `Arm`, or after `restore_now` has lowered it, in the main thread or in the handler) and the abort after a
failed `gsettings` call there are `Unheeded`, `MaxUnheeded` times: the process ends where it stands. Where the flag is up, such
an abort is a `Signal`. `Kill` is SIGKILL or a power cut, anywhere, `MaxKills` times. A truncated backup stops every
start until it is deleted (`DeletedByHand`), as the JSON parser's assertion does.

Each value is written by a `gsettings` process that `system()` waits for; the main thread's step is its end. A
signal to the tool does not end that process. With `Lingers`, the one that writes key `k` for the
takeover when the signal comes may write after the handler has written the same key, hence `WrittenLast`; writing
before it makes no difference. Left out are a process that goes on after a `Kill` or an `Unheeded` end,
whose key the backup holds for the next start, and one of a restoration: it writes the user's value, as the handler does.

### 2.6 WebStore and WebSync

A post is the number of its publication, the list a sequence of posts, the
newest or last answered first. `ToFront` publishes a post, or, on a list ordered by the
last reply (`ByReply`, guoren), answers one, between runs and while a run pages.
`StartDeep`, `Locate`, `ScanPage`, `MarkPage`, `FinishDeep` are `_discover_deep` and
`_locate_anchor`, one step per page read and one per write of `state.json`; `StartShallow`,
`ReadPage`, `Enqueue` are `_discover_shallow`. In `drain` a place of the queue moves from
`net` to `img` to `cur`; `Refill` is the inner `refill`, called after any of the futures that
one `wait()` returned, so the model leaves open after which. A failed fetch is `Hole`; enough
of them in a row, or the assertion at the head of `commit`, end the run (`Exit`). `Staged` and
`Indexed` are `commit`. `CrashInAppend` leaves the first rows of a batch, and a partial row if `partial`: then `Open`
is not possible until the user has removed that row (`MendedByHand`, an action of the environment), see finding 5.
The comprehensions of `store.py` are `Picked`, the rows at a set of places in their order, and `found.sort` is
`Ascending`; both are defined by counting, because the provers take a library's recursive selection or
sort as a black box.

Two variables are history: `pushed` counts the moves of the list that the running full scan
answers for, `owed` what `pushed` was when the anchor was saved. A resumed scan answers for `owed` from
the start: what was published before the anchor was saved had moved posts onto pages read by then,
and these posts are older than the anchor. `Outgrown` is the one way in which an incremental scan may leave a hole: `total_pages` is read once
(`sync.py:187-189`), so a scan that reads to the last page that there was stops short of a list
that has grown by a page meanwhile.

### 2.7 PoolCache

`version[m]` is what month file `m` holds and `mtime[m]` its stamp; `Write` and `Touch` are
the two endings of `append_table_atomic` in `MonthArchive`, by another process. `Enumerate`
takes the axes and the list of files, `StatFile` builds the key one file at a time, `MapCache`
or `BeginBuild` follow; `ReadMonth` is a parser thread's work on a file, in any order;
`Dump` and `Rename` are `atomic_write`, `Overlay` is `apply_meta_overlays`. `Exit` ends the
process anywhere. That a new file has a new mtime is assumed (the clock of the model).

## 3. What is checked

| run | instance | shows |
|---|---|---|
| `range` | one window-answered table, 2 months of 2 days, 6 days of 3 hours, backfills on two days, one crash, no run over midnight; fairness | `RefetchedComplete`, `FrozenNeverWritten`, `MirrorsServer`, `EventuallyFrozen`, `Settles`, `TypeOK` |
| `overnight` | a month-first table and a day-by-day one, two rows a day, runs that may pass midnight, one crash | `NoDuplicateRows`, `OnTimeCaptured`, `RefetchFreezes` |
| `frozen` | as `range` | violates `FrozenComplete` (finding 1) |
| `sync` | 4 articles, two of one second, pages of 2, 2 crashes, one of them possibly inside the append; fairness | `IndexSound`, `NothingLost`, `EventuallyCached`, `TypeOK` |
| `torn` | as `sync` | violates `Reopenable` (finding 2) |
| `pool` | 2 workers, 5 entries, each of them possibly a hole; fairness | `WindowBound`, `NoLostWakeup`, `DrainsQueue`, `Terminates`, `TypeOK` |
| `days` | 3 assets, one without a price at first, 2 slots, exit rank 2, 3 days, 2 shocks, every ranking each day | `OnePosition`, `Conserved`, `BookFollowsRanking`, `Invested`, `StreakIsAge`, `TypeOK` |
| `forum` | 5 posts, 2 of them before the first run, pages of 2, 1 worker, 3 moves of the list, 1 crash, possibly inside a line, which the user then removes; fairness | `IndexSound`, `MemoryBound`, `AccountedFor`, `NothingForgotten`, `NoNewGaps`, `EventuallyCached`, `TypeOK` |
| `anchor` | 6 posts, ordered by the last reply, 3 moves | violates `AccountedFor` (finding 3) |
| `session` | 2 connections, 2 kills, signals at any time, one of them possibly unheeded; fairness | `Recoverable`, `LeavesClean`, `StopsUnused`, `RegisteredOpen`, `NoThreadLeft`, `EventuallyRestored`, `StopReturns` |
| `exit` | 1 connection, no kill, one unheeded signal, a `gsettings` process that may go on beside the handler | violates `EveryExitRestores` (findings 6 and 7) |
| `load` | 2 month files, 4 writes or touches, axes and metadata change once | `CacheSound`, `NothingStale` |

Why the bounds are enough. *MonthArchive*: with a lookback of one day every month
is open, closed and unfrozen, and frozen while the next is being filled; three
hours give a moment before, at and after each threshold (`avail_hour`, the UTC
date line, the dedup window). The clock stops at `LastDay`, after both months of
`range` have left their window. *ArticleStore*: two articles of one second on
both sides of a watermark, a history of two pages, and a
second crash that hits the recovery from the first. The fourth article may be published between the first page
of the other three and the second, and shift them. *Drain*: the queue is longer than the
window, and the window moves several times, past runs of commits and of holes. Three workers with
five entries (4.3 million states) pass too. *Engine*: three days are a purchase, a
day on which a shock blocks a sale or a limit exempts a position, and the day
after; a third asset takes the slot given away; two shocks can hit one
position on consecutive days or two on one. With exit rank 3 and three shocks
(326 thousand states) the properties hold too. *WebSync*: with two posts there is one
page before the first run and the three further posts open a second and a third, before, while and after
the list is paged, so that `Outgrown` occurs; one worker has a window of three, so that a
text, a waiting image and a hole are in flight together; a crash leaves each of the two
files in each intermediate state, and the run after it resumes or restarts
the scan. With six posts, four of them before the first run, and two crashes (7.6 million states)
`AccountedFor` holds too. Finding 3 needs a list in order of replies, four posts and three moves.
*CaptureSession*: one connection can be served while another is only accepted; the second
kill hits the recovery from the first, an unheeded signal cuts the handler's restoration short. *PoolCache*: two files are enough for one to
change between its stat and its read while the other is read; four writes let a
file change again after the dump, when its key may match.

Deadlock is checked in `session`, `exit` and `load`. It is not in the others: the bounds on the
clock and on the days of a backtest, a store nobody can open and a `drain`
that has returned are states where the system really stops. `Settles`,
both `EventuallyCached` and `Terminates` say that it does not stop anywhere else.

Fairness. *MonthArchive*: time passes and a run goes on (weak); the operator
starts a run that is pending again and again, and does not refuse for ever
(strong); nothing is assumed of the servers. *ArticleStore*: each run goes on to
its end (weak), the operator runs `sync` again and again, has a valid credential
often enough, and an article that is tried again and again is fetched once
(strong). A page is assumed to be answered in the end, although `profile.cpp`
repeats `ret=-6` without limit. *Drain*: no thread stops for ever (weak); a fetch
ends because each request has a time limit and a limited number of attempts.
*WebSync*: the crawler is started again and again and a run goes on to its end
(weak); the text and the images of the post at the head of the queue, asked for
in every run, arrive once (strong); nothing is assumed of the other posts, which may
be holes in every run of which they are not the head; and the user removes a torn line one day (weak), without
which no run would start again. *CaptureSession*: the threads are scheduled,
the handler goes on, an exchange whose client socket was shut down ends, and the tool
is started again one day (all weak). The user need not press Enter, and no client
need ever close a connection, since WeChat keeps its own open.

### Findings

1. `cpp/src/misc/schedule.cpp:123` takes a closed month as frozen if its file was
   written on or after month end + lookback. On that very day the month is still
   open, so the file was only extended: rows backfilled below the watermark
   during the month are never fetched, against `README.md:166`. The closing
   refetch happens only for a file whose last write is older. Writing the
   condition with `>` closes the gap for Chinese hours from 08:00 on, but a
   refetch before 08:00 is stamped with the previous UTC date and would be
   repeated (`RefetchFreezes` breaks): the stamp must be compared in local time too.
2. `app/gzh/src/store.cpp:119` drops an unterminated last line of `index.jsonl`
   from what it reads, not from the file. The next append continues that line,
   and each later open fails the assertion of `store.cpp:129`.
3. `app/web/common/sync.py:106` takes the page where the anchor stands now as the place where
   the scan stopped. Where the list is ordered by the last reply, the anchor itself may
   have been answered since: with pages `x y | a b` scanned down to the page of
   `a`, a reply moves `a` to the front, two newer posts push it back to page 2, and
   `y`, now on page 3, is behind the place where the scan resumes, which then sets
   `deep_done`. `sync.py:19-21` says that the boundary is stable, `site/guoren.py:13-14` says
   that the order is by reply. On lists in order of publication `AccountedFor` holds (`forum`).
4. `app/gzh/src/proxy.cpp:695`: a connection accepted just before `stop` registers its socket in its
   own thread, perhaps after the sweep. Nothing then shuts it down, and while its client keeps
   it open `inflight` does not return to zero, nor `stop` to its caller; `proxy.cpp:725-726` says
   that the sweep ends all connections, `cli/main.cpp:347` knows that `stop` "occasionally" hangs.
   If every connection has registered before the sweep, `stop` returns (`StopReturns`): that premise is all that keeps
   the property from failing, so no run of its own is spent on the hang. A look at `running` after the registration would close the gap.
5. `app/web/common/store.py:58` reads `index.jsonl` and `pending.jsonl` line by line and raises on a line that is not JSON. A
   kill inside a write leaves such a line, so no later run gets past `Store(...)` and the posts still queued
   are never fetched, against `store.py:16` ("can be killed at any time, the next run goes on") and `store.py:20` (a kill
   loses at most the current page). It is the fault of finding 2 in another file, and is reported with it. No row is lost
   (`NothingForgotten`), but a person must remove the line: without `MendedByHand` in `FairSpec`, `EventuallyCached` fails.
6. `app/gzh/cli/main.cpp:116`: `restore_now` lowers `g_restore_armed` before it restores. A fatal signal during the seven writes
   (a SIGTERM after Enter, a second one of another kind in the handler), or a write that fails (at a Ctrl-C the terminal
   interrupts `gsettings` while `system()` ignores SIGINT in the tool, and the assertion of `desktop.cpp:58` aborts),
   finds the flag down: the process ends with the machine's traffic sent to the dead port. `main.cpp:105-107` and
   `app/gzh/README.md:135` say that every way out, signals and aborts included, puts the setting back. The next start
   does (`EventuallyRestored`), as the backup is still whole (`Recoverable`). Run `exit` shows it; `LeavesClean` says what does hold of an exit.
7. `app/gzh/src/desktop.cpp:46`: a SIGTERM or SIGHUP while `system()` waits for a `gsettings` call of the takeover starts the handler
   beside that call. The handler writes everything back and removes the backup; the call may write its key after
   that. If it was the mode, the machine is left on the dead port with no backup: the next start heals nothing, against
   `main.cpp:402-403` ("however the last run died, this one starts clean"), and saves the tool's value as the user's.
   This too violates `EveryExitRestores`: TLC shows it when `MaxUnheeded` is 0 in `exit`. With `Lingers` the other promises fall with it (`Recoverable`, `LeavesClean`): they are checked and proved without.

One comment is stale, though no property is about it: `cpp/src/misc/schedule.cpp:128-129` says that an increment without rows
changes nothing, not even the mtime. `append_table_atomic` touches the file (`parquet.cpp:103-107`), as `README.md:168` says, and
`Settles` rests on that; the model follows the code.

## 4. What is proved

For every value of the constants that satisfies the modules' assumptions.

**MonthArchive_proofs.** `TypeCorrect` (TypeOK), `NoDuplicates` (NoDuplicateRows),
`WatermarkSound` (OnTimeCaptured), `StampFreezes` (RefetchFreezes) and `Refinement`
(MirrorsServer), all from `Invariance`. The properties speak of `disk` and are not
inductive: whether an append may duplicate a row depends on a plan made hours
before it. `IInv` carries what was true at planning through to the write: `FileInv`
(a file holds rows of its own month that the server has, once each, all on-time
ones up to its watermark), `PlanInv` (each planned month starts after every row
of its file, and ends at a day complete by then), `CurInv` and `RespInv` (the same
for the month being served and for what came back so far), `TmpInv` (the `.tmp` file
is a file that keeps `FileInv` and contains the one it replaces). It holds with
runs past midnight, because the horizon never runs ahead of the clock.

`RefetchIsComplete` (RefetchedComplete) and `FrozenIsFinal` (FrozenNeverWritten) are proved for runs that end
before midnight (`~Overnight`), the only ones they are claimed and true for. `NightInv` adds to `IInv` that a
run goes on during the day it captured, that no stamp is ahead of the clock, and that a closed month is planned only
if it is not frozen, and then whole: from its first day, with every row the server will ever have for it in
what came back, in the `.tmp` file, and in the file after the rename.

**Drain_proofs.** `Invariance`, `TypeCorrect`, `MemoryBound` (WindowBound),
`WakeupComing` (NoLostWakeup) and `Refinement` (DrainsQueue), for any pool and any
queue. `IInv` is a balance: `next_dispatch` = `committed` + `holes` + the entries being
fetched, ready or being committed (as cardinalities), these being disjoint, and at most
`workers` of them. If nothing is underway, the balance makes `next_dispatch` =
`committed` + `holes`, so the window is open and no worker goes to sleep: hence no lost wake-up
although holes do not notify. The return waits for both counters to make up the queue.

**ArticleStore_proofs.** `Invariance`, `TypeCorrect` (TypeOK), `SoundIndex` (IndexSound) and
`NoneLost` (NothingLost), for any history in which dates do not decrease, any page size
above `MaxShift`, any number of crashes and torn lines. `NothingLost` is about the
largest date of the index and not inductive: committing a queued article raises the
watermark past articles it never looked at. `Closed` is what holds instead: the index and
the queue together contain, with an article, every older one. What makes it last through
a discovery is `Covered`: each published article is cached, found, older than the
watermark, newer than all that was found (published meanwhile), or deeper than the cursor; a shift of
less than a page keeps what was found at most a page above the cursor, so only the last page can consist
of repeats (`LastPagePassed`). `Running` and `Committing` relate a run's memory to the files.

**Engine_proofs.** `Invariance`, `BookMatchesRecords` (OnePosition), `RankingRules`
(BookFollowsRanking) and `DaysHeld` (StreakIsAge), for every set of assets, every
market, and every `hold_n` and `exit_ratio` >= 1. The heart is the decision: a
wanted rank is at most `hold_n`, hence within the exit ranks, where a holding
would stay; so what is wanted is not held (`ToBuy`), and as it is not delisted
(`Ranked`), it was not held at the last close either (`Morning`), which makes the
streak start at 1. `Recorded` ties `open_recs`, `hold_streak` and `hold_last_seen` to the
book between and during days, `Marked` carries the exit rule through the sales. With
an exit rank below `hold_n` the lemma about the decision fails, as it must.

**EngineMoney_proofs.** `MoneyInvariance`, `TypeCorrect` (TypeOK), `MoneyConserved` (Conserved) and `AllInvested`
(Invested), for any number of assets, any falls of prices and any cost rate. `MInv` has, beside the types (cash is a natural number:
a purchase takes at most what is left), the account of the day (`Conserved`, from the mark to the
close), that the sweep begins when the purchases are done (`BoughtOut`), and what it still has to fill (`Lacking`,
`Swept`: while cash is left, a position has its target, or is on the list with all that it lacks, or was topped up). The worth of the book is a sum over
a set, defined by a recursive function. That taking out or changing one position changes the sum by
its value cannot be proved by the library's induction; it is proved by minimal counterexample
(`MinimalSubset`): inclusion is well-founded on the subsets of a finite set, so if some subset had another sum
than claimed, a smallest one would.

**CaptureSession_proofs.** For any finite number of connections, any number of kills and of unheeded signals.
`Invariance`, `TypeCorrect`, `SweptSocketsOpen` (RegisteredOpen) and `StopOutlivesThreads` (NoThreadLeft) rest on `IInv`: types,
the proxy's half `ProxyInv`, and `Control` (when the proxy runs, when the flag is up). The proxy's half
is a count: `inflight` is the cardinality of the live threads, at most one connection is between
`accept` and its thread, and after the join none is; so once `stop` reads zero there is no
thread, and nobody left to start one. `KeptInvariance`, `SettingRecoverable` (Recoverable), `StoppedUnused`
(StopsUnused) and `CleanExit` (LeavesClean) assume `~Lingers`, without which finding 7 refutes what they say. `Kept` says
at each place of the main thread and of the handler
which of setting, variable and backup are the user's, and which
keys a restoration has already written. `CleanExit` covers every return and every signal, heeded or not, but an unheeded one in
the course of a restoration or of the writing of the backup, where finding 6 shows that nothing of the kind is true.

**PoolCache_proofs.** `Invariance`, `CacheIsCurrent` (CacheSound), `PoolIsCurrent` (NothingStale)
and `TypeCorrect`, for any set of month files. A key holds no mtime beyond the clock
(`KeysPast`), so a write ends every match with the file it replaces, and what holds of versions
"as long as the mtimes match" (`Matches`) survives every step.

**WebSync_proofs.** For any number of posts, workers, moves of the list and crashes, any page size and window.

* `TypeCorrect` (TypeOK), from `TypesKept`: `Types` adds to `TypeOK` that no post is on the list twice and that the
  pages a scan is going to read are there (`Reach`: a list gets no shorter, so a page once counted stays).
* `IndexedHaveDirectories` (IndexSound); `WindowsKept` and `BoundedMemory` (MemoryBound). The bound on memory needs
  the windows of the two pools apart: at most `Workers` texts in flight, and a sum that grows only
  while fewer than `ASSET_BACKLOG * Workers` articles wait for images.
* `QueueLosesNothing` (NothingForgotten), from `HeldKept`. The step in danger is the compaction, which replaces the
  queue file by what the run has in memory; it loses nothing because both hold the same posts (`Held`)
  at any point of a run, after the duplicates of a torn batch were dropped on opening as well.
* `ScanAccountsForAll` (AccountedFor), from `AccountKept`, where only new posts come to the front (`~ByReply`;
  for the other order the run `anchor` refutes it). `InOrder` is the list: newest first, none missing. `Answered` says
  in each phase which posts may be lacking, and that they are no more than `pushed`: behind the page to read next,
  behind the page whose progress is not saved yet, or up to the anchor; and of the saved anchor, that no more than
  `owed` are lacking up to it, which survives the kill. A post published shifts each of these places
  by one and adds one to `pushed`.
* `ScanLeavesNoGap` (NoNewGaps), where only new posts come to the front. A write that ends early has brought
  the oldest of its rows, since they are sorted (`PrefixOldest`), so within a batch no hole opens. Below the batch of a
  full scan nothing is lacking but what `Answered` counts. Below that of an incremental one `ReadInOrder` holds:
  everything read is whole down to a place behind which the next post is known, or there is none, or the
  list has outgrown the pages counted.

The lemmas these rest on say what `Picked` and `Ascending` return: the chosen rows, each once and in their order
(`NthOrder`, `NthAll`, `PickedRows`, `PickedOrder`), and the same rows sorted (`AscendingSorted`,
`AscendingQueued`). They follow from cardinalities: of two places the later has more up to it, and the
least value up to which at least k rows lie is the k-th row (`Jump`).

Only model-checked: the liveness properties (`EventuallyFrozen`, `Settles`, both `EventuallyCached`, `Terminates`,
`EventuallyRestored`, `StopReturns`), since fairness and ENABLED are out of the prover's reach. Every safety property
that a passing run checks is proved. What needs induction over data (sums over a set, rows picked and sorted) is
proved by minimal counterexample or by counting. No module uses RECURSIVE operators.

## 5. What is not modelled

The vendored libraries (an HTML parser with its tables, a JavaScript engine, HTTP and JSON headers,
boost) make up almost all of the repository's lines; they keep no state of this program. Of its own code:

* Archive: two processes at once on `data/`; what a run past midnight does to completeness (its stamp claims
  a later day than its plan: `RefetchedComplete` and `FrozenNeverWritten` are checked without it, and the
  documents promise nothing about it); column types inferred per response; the metadata
  files, replaced whole after one test of freshness.
* Feature loader: two writes of a file within one tick of its mtime and of one size; a full disk
  while the cache is written; event chains, point-in-time fill and fields, which are numeric.
  Feature build: its dependency order is computed by `consteval`, its phases are joined one by one.
* Backtest: fills and their returns, the watch list, the equal-weight shadow index, the report's
  files. The assertion on the size of the book (`engine.hpp:342`) is out of an instance's reach.
* Articles: deletions by an account, messages of several articles, the attempts
  and the shared throttle of the fetcher.
* Capture: a second instance beside the first, an assertion that fails in a connection
  thread beside a running main thread, a `gsettings` process that outlives the tool, `--uninstall` and the certificate store, TLS and
  the credentials taken from the traffic.
* Forum: several tags, pinned posts, deletions, `max_pages` and `limit`, two processes, the throttle and
  the tunnel of `net.py` and `tunnel.py` (a fetch arrives or is a hole).
* Rendering, reports, statistics and mining are numeric or textual and have no state machine.

## 6. What could come next

1. Two processes: the archive without a lock, the second capture session that heals under the first.
2. The schema of a month file across Tushare responses (`parse.cpp`, `ConcatenateTables`).
3. A full disk in `atomic_write` and `append_line`, beside the deaths modelled now.
4. Deletions while an account's history is paged, once the server's offsets are known.
5. Proofs: that the pages of an incremental scan under a list ordered by replies lose nothing that was known; the
   refinement of `drain` in `WebSync` to an abstract queue, as `DrainQueue` is for the article crawler.
