# asst in TLA+

A formal model of asst: tasks and reminders on a CalDAV server, with a daemon
(`asstd`) that keeps a local copy in step and raises reminders, and a command
line and a GTK window as its clients. The modules here are translated from the
code under `crates/` (all paths below are relative to `src/crates/`), checked on
small instances by TLC, and proved for all instances by TLAPS.

    tlc -config MCTaskSync.cfg MCTaskSync     check a run
    tlapm TaskSyncProofs.tla                  check the proofs of a module

`PROJECT.json` lists the runs, what each definition translates (`map`), a
mutation of the code that each property catches (`mutants`), the hazards, the
findings and the theorems.

## 1. The system

### Components

**Store** (`asst-core/src/store.rs`). A SQLite file. Tables: `lists` (href, name,
sync token), `tasks` (href, list, etag, `base` = the server's text, `edits` = the
JSON queue on top, `ics` = both combined, `deleted`), `fired` and `snoozed` for
reminders, `meta`, and tables for GitHub pairs, the repo log, and tracked blocks.
One connection under a mutex; each operation locks it, so an operation is atomic,
and between two operations anything may happen. A few operations are several
transactions (`move_to`, `forget`), which a crash can separate.
*Correct when*: `ics` is always the base with the queue applied; the base is the
server's copy as long as the ETag is; an edit leaves the queue only when the
server has it.

**Sync** (`asst-core/src/sync.rs`, `caldav.rs`). `push` sends each pending row
(create, update or delete) under `If-Match` / `If-None-Match`; a conflict fetches
the server's copy, rebases the queue on it and sends once more. `pull` reads the
list of lists, then of each list that moved a delta since its token or a full
listing, then the texts it lacks. No lock is held at an await.
*Correct when*: nothing is overwritten that was not read; no edit is lost; a
delete stands; a token never claims more than the cache has; in the end the two
sides agree.

**Daemon core** (`asstd/src/daemon.rs`, `service.rs`). The sync loop (woken by a
`Notify`, an interval, or a request), the handlers of the D-Bus service for tasks,
lists, settings, sign-in and sign-out, the events clients listen to, and `flush`,
which pushes once more when asstd stops. Lists are made, renamed and deleted on
the server at once, outside the round.
*Correct when*: what a handler does between two awaits does not undo what another
did; signing out leaves nothing; who waits for a sync gets a round that began
after they asked; the two locks are always taken in one order.

**Reminders** (`asstd/src/reminders.rs`, `system.rs`). A loop: collect what is due,
show each through `org.freedesktop.Notifications`, note it as fired, sleep until
the next alarm, at most a minute, unless woken. Buttons complete or snooze.
*Correct when*: what is due rings, once, under one notification; a snooze is not
forgotten.

**Location** (`asstd/src/location.rs`). Asks GeoClue for a position when tasks have
place alarms, and shows an arrival. It waits on the reminders' `Notify`, which is
the part of it that is modelled.
*Correct when*: an arrival is shown once per arrival.

**GitHub issues** (`asstd/src/github.rs`, `asst-core/src/github.rs`). Every pass
reads a linked repo's issues, plans what differs from what was last agreed (pairs)
and applies it to both sides; checks that the repo still is the one linked.
*Correct when*: no duplicate, no issue closed because of a stale listing or a
relinked list, no issue of another repository touched.

**Following renames** (`asstd/src/follow.rs`). A repo that GitHub calls otherwise
moves its link, and its list takes the new name on the CalDAV server, through an
intent written to a log first.
*Correct when*: a list is renamed only after its own repo and onto no other list; a
rename the server took is told as done, also when its answer is lost; none waits
for ever.

**Time tracking** (`asst-core/src/track.rs`, `asstd/src/service.rs`). An ingest asks
ActivityWatch for one day, tags what its sensors saw, coalesces it into sessions
and replaces that day's rows of `blocks`. The window asks for one every minute, and
`asst track ingest` runs one in a process of its own.
*Correct when*: the rows of a day are the sessions of its last ingest, whoever ran
beside it, and a session through midnight is not lost to its neighbour.

**Task model** (`asst-core/src/task.rs`, `ical.rs`, `recur.rs`). Reading and editing a
VTODO, repeating rules, alarms. Pure. **Quick add** (`quickadd.rs`, `time.rs`): text to
a task. Pure.

**Window** (`asst-gtk/src/window.rs`, `model.rs`, `plan.rs`). One thread, whose copies of
the tasks come by loads that may be answered out of order; deletes held back for an
Undo, checks held back for a moment; a plan of the day of its own, kept in a file.
*Correct when*: an old answer is never shown over a newer one; what was taken back
is not done and what was not is, also when the window closes; Undo puts back what
its change had touched.

**Command line** (`asst`): one call each.

### How they interact

    user -> window / CLI --D-Bus--> asstd handlers --lock--> store <--lock-- sync loop --HTTP--> server <-- phone
                                        |  notify_one                          ^
                                        +-----> reminders, location            +-- flush, when asstd stops
                                        +-----> sync loop, GitHub pass

Everything goes through the store's lock and three kinds of wake-up: `Notify`
(one permit, one of those who wait), the events to clients, and intervals.

### What is hard here

Rounds are long and unlocked; the user, the phone, the handlers and a second
`push` act between any two of their steps. Answers are lost after the server took
the write. asstd dies anywhere, including between two transactions. Listings are
applied in another order than they were taken. A notification is shown while its
task changes. Calls of D-Bus run on threads of their own, and what one read under a
lock is stale once it lets go. `PROJECT.json` lists forty such hazards with their
lines, and which property would catch each.

## 2. What is modelled, and where

| Module | Models | Abstracts |
|---|---|---|
| `TaskData` | one task's text and edits: `task::apply` (`Combined`), what it refuses (`Refuses`), `already_applied` | iCalendar: a text is a kind, one settable value, how far a repeat advanced, and the edits it was made from |
| `TaskSync` | the rows of a list, a sync round step by step, the server, phone, faults, `flush` | URLs, XML, pages of a report; several lists |
| `ListSync` | the list table, listings, list requests, moves, sign-out | the edits inside a task (that is `TaskSync`), colors, order |
| `Reminders` | the reminder loop, the notification server, buttons, the `Notify` shared with location, clock, suspends | texts, the window's activation |
| `GithubPass` | a repo linked to a list: the pass, its plan and merge, every operation, the link, the user's tasks, GitHub's users | priority (merged as the notes are), labels, pages and ETags of the listing, which repo it is (that a look found the linked one) |
| `RepoFollow` | rounds of looks at every linked repo, the verdicts, and a list that follows its repo's name: marker, intent, rename, limits | archived repos, ETags, the wait after a refusal, what a held link shows; the pass itself (`GithubPass`) |
| `SyncLoop` | when rounds run, for whom, with which client, and who is told: counters, permits, settings, sign-in and sign-out, status, events | what a round does (`TaskSync`, `ListSync`); Offline and Error are one state, Failed |
| `Rounds` | what `sync_and_wait` promises, and no more | how |
| `DaemonLocks` | which locks each call takes in each section, and `add`'s look for its source | what is done with the locks held, but for the source |
| `Window` | loads, checks, deletes held for Undo, the selection completed and deleted, the calls and their answers, tray, and quitting with what may be done meanwhile | views, the editor, moves between lists |
| `Track` | an ingest, its timeline and sessions, the rows of a day, the window's loads and the command beside them | the fields of an event, the words on a block, reports |
| `DayPlan` | the slots of the day plan, every gesture on them, their Undo, pruning, and the columns of the Day view | drawing, hrefs beside uids |
| `…Proofs` | the theorems on `TaskSync`, `ListSync`, `Reminders`, `GithubPass`, `RepoFollow`, `SyncLoop`, `DaemonLocks`, and on `Window` and `DayPlan` together | |
| `MCTaskSync`, `MCListSync`, `MCReminders`, `MCGithubPass`, `MCRepoFollow`, `MCSyncLoop`, `MCDaemonLocks`, `MCWindow`, `MCDay` | what TLC runs | |

`TaskSync` EXTENDS `TaskData`, `MCDay` EXTENDS `Track` and `DayPlan`, and `SyncLoop` has an
INSTANCE of `Rounds`. The others stand alone, and take from what they share only what
they need: `ListSync` from a task whether its row is unsent, the server's or waiting to
be deleted; `Reminders` its alarms, list and whether it is open; `GithubPass` its title,
its notes and whether it is open; `SyncLoop` from a round that it sends, reads parts one
after another and may fail; `RepoFollow` from a pass that it reads issues by name;
`Window` from asstd each task's state and date.

### TaskData and TaskSync

A row of `tasks` is the record `Row` (`here`, `etag`, `base`, `edits`, `ics`,
`deleted`). ETags, sync tokens and the order of writes are one counter, `clock`:
the ETag of a resource is the clock of its last write, the token the clock of the
list's last change, 0 is NULL. `seen` in a body is the set of edits that copy was
made from; no code reads it, and it is how a property follows an edit through
rebases.

`pc[w]` is where a worker is in `sync_once`: `push` → `sent` → (`confirm`,
`refetch`, `reread`, `again`, `redelete`, `resent`) → `push` …, then for the loop
`lists` → `changes` → `known` → `fetch` → `store` → `finish`. Each request is two
steps: the server takes it (`Send`, `FetchOne`, `Redelete`, `ReadChanges`,
`FetchWanted`), and the answer is applied (`ApplyStored`, `ApplyMissing`,
`Rebase`, …), with anything in between. `PendingOf` is a row of `pending()`;
`OnTopOf` is how every path writes a row; `Rebased` and `ServerCopy` are
`put_server`; `Unsent` and `Pushed` are `pushed`; `Gone` and `Finish` are the end of
`pull_list`. The user's `LocalCreate`, `LocalEdit`, `LocalDelete` are the store's
operations behind every handler that changes a task. `NetworkFails` ends a round
at any request (whether the server took it depends on where), `ServerError` is one
row's problem, `Crash` leaves only the store. A server may keep a text byte for
byte (its ETag comes with the answer) or in its own words (no ETag, and the copy
is fetched): both are answers to `TakePut`.

`Workers` is the set of those who push: the loop, and in one run also `flush`,
which asstd calls when it stops, without stopping the loop first.

The history variables are `accepted` (edits the user was told were taken),
`deleted` and `phoneDone`. They constrain nothing.

### ListSync

`lists` and `rows` are the two tables, `listing` and `relisted` the two answers to
`remote.lists()` that can be under way (the loop's, and that of a request),
`TakeListing` is `apply_lists`, `remove_list_rows` and the removal of tasks. A list request
(`CreateList`, `UpdateList`, `DeleteList`) acts at the server, then `ApplyAnswer`,
`Relist` and `Adopt` follow as in `daemon.rs`. `Move` is `move_to`, and
`CrashInMove` its first transaction alone. `fate` follows a task: not made yet,
owed to the user, let go by one of them.

### Reminders

`Collect`, `CallServer`, `ServerShows`/`ServerRefuses`, `RecordShown`/`RecordRefused`,
`Sleep`, `WokenUp`/`SleptEnough` are the loop of `reminders::run`. `NotifyOne`, `Await`
and `GiveUp` are tokio's `Notify`, with its single permit and its order of waiters,
since the loop shares it with `location::run`. The notification server
(`screen`, `closing`) and logind are external and modelled from how the code calls
them. Time passes while the loop sleeps, while the server is slow, and during a
suspend, when the sleep's timer stands still. `taken` counts how often the server
took each reminder.

### GithubPass

`pairs`, `link` and `tasks` are the tables `gh_pairs`, `gh_links` and the rows of the
lists; `issues` is GitHub, and `older` what it was before the last change, which is
what a listing that lags shows. `pc` is where the pass is: `ReadIssues` takes the
listing, `Plan` reads tasks and pairs under one lock and computes `ops` as
`asst_core::github::plan` does (`PairOps`, `FreeOps`; `MergeOp` and `Agreed` are its
`merge`), and then each operation is carried out by the step of its name, with
GitHub's side of the call (`Update`, `Look`, `Create`) and what its answer does
(`Remember`, `Closed`, `CompleteTask`) as steps of their own, since nothing is locked
at an await. `StorePair` is `gh_pair`: the foreign key refuses it where the repo is no
longer linked. A task changed before the issue's call is lost (`Merge`, then
`Refused` or `PassFails`), an issue made and not paired (`Create`, then `PassFails`) and
a task made and not paired (`DiesUnpaired`) are all reachable.

The code carries operations out in the order of the plan; here any order is
taken, which includes it: no two are about one issue or, as `PairInvariant` says,
one task. `Matchings` allows any pairing by title that leaves no
two of a title over, of which the code's (first issue, first task) is one.

`over`, `touched`, `made` and `crossed` are history: issues ever closed or gone, what
people changed, how much they made, and whether the link changed in a pass.

### RepoFollow

`links` is `gh_links` with its marker (`from`, and `late` once MARKER_EXPIRES is over),
`log` the rows of `gh_log` that hold an intent, `hub` and `redirect` GitHub, `names` the
CalDAV server. `BeginRound` takes the links as they are (`todo`), and each is then looked
at as it was: `Look` and `LookAgain` are `look`, `Verdict` is `judge`, and `Hold`, `Fine`,
`LearnId`, `Rename` are `apply_verdict`. `Follow`, `ReadLists`, `Resume`, `Keep`, `WaitHour`,
`Intend`, `RenameList`, `Refused` and `Finish` are `try_follow`, with the server asked in a
step of its own. People link, unlink, rename and delete lists and switch the setting
between any two steps; GitHub renames, deletes and makes repos under old names. Hours
and months pass only between rounds, which are short beside them. `ReadIssues` stands
for the pass of `GithubPass`, which the round runs under the repo's name.

`meant` (the repo a link was made for), `since` (the names its repo had since its id was
learned), `deeds` (what the server took), and `shifted`, `crossed`, `meddled` (names that
changed hands unseen, links changed during a round, people who changed names) are
history, for the properties alone.

### SyncLoop and Rounds

`requested`, `completed` and `gen` are the counters of `sync_and_wait` and `sync_loop`,
`permit` tokio's `Notify` (one permit each, as only the loop waits), `mutex` the lock of
the client that is held while the keyring is asked. The loop goes `start`, `client`,
`password`, `push`, `pull`, `drop`, `answer`, `sleep`, `debounce`. A call is a sequence of
steps on a thread of its own: `Ask`–`AskWakes`–`AskAnswered`, `EditMade`–`EditTold`,
`SetReads`–`SetSaves`–`SetWakes`, `SignBegins`–`SignSaves`–`SignDrops`–`SignResets`–`SignSays`,
split where the code lets a lock go. `Pump` is the task of `service.rs` that coalesces
events.

`Rounds` is the abstract specification: who asks is answered when a round is over that
began after they asked. `SyncLoop` implements it under the mapping `Promise` (who has
asked, whether a round is under way, and the history variables `begun` and `served`, who
had asked when it began). TLC checks all of it (`RoundsArePromised`), TLAPS the safety
part (`ImplementsRounds`).

### DaemonLocks

A call is a sequence of sections, and a section a sequence of locks it takes and holds
until its work is done: `Sections` is read off every handler of `daemon.rs` that holds one
lock while it takes another, and of those that go through several. The order is
`remote` before `store` before `config` and `gh_state`; `status` is taken alone. Readers of
the config take turns here, which only makes waits longer. `add` has its data, too: the
source it looks for in its first section and makes the task of in its fourth.

### Window

`open`, `completed`, `hidden`, `completing` are the fields of the same name; `loads` are
`Cmd::Loaded` and `Cmd::CompletedLoaded` on their way, which read asstd at one time
(`Read`) and are applied at another (`Loaded`, `CompletedLoaded`) if they still are the
latest; `timers` and `toasts` are the moments of checked tasks and the Undo toasts;
`calls` are complete, delete and reopen on their way to asstd and back (`Serve`, `Reply`,
`CallFails`). `OtherChanges` is a sync round, the command line or a reminder's button.
What is shown may be selected at any time, so `selected` is only what the selection may hold
beside that: a task deleted by itself stays in it until `settle`, and a batch delete takes it
into a second toast. `batches` are the completions of a selection under way, each what is
left of it; one that fails is an answer (`BatchFailed`) that reads the tasks again. `Quit`
takes a copy of what is hidden, and `leaving` has what is left of each such copy: until
`Closed` the window goes on, may be used and be quit again, and what is taken back then is
deleted all the same. `seen`, `touched`, `doomed`, `refused`, `missed`, `dropped`, `again` and
`late` are history.

### Track and DayPlan, composed in MCDay

`Track` has the pure part of `track.rs` as operators on sets of spans (`MergeSpans`,
`SubtractSpans`, `ResolveTag`, `TaggedTimeline`, `CoalesceSessions`), in the order and with the
ties of the code, and the table `blocks` under ingests that run beside each other.
`QuerySensors`, `QueryAfk`, `IngestSpans`, `LoadBlocks`, `BlocksLoaded` are one load of the
window (generations as `current`), or, up to the third, one run of the command. Logs
only grow, and apart from each other, so that queries of them one after another could
have been one: the sensors are read in one step. Each load's queries are answered or
fail. `Tick` waits for the load it would overtake; the code's clock does not, but a load
takes less than its minute. `DueOf`, `MinutesKept` and `SessionsApart` are a definition of
what a day's rows are to be that goes by minutes, not by the code's passes.

`DayPlan` has one step per gesture: a message the handler sends itself is part of the
step, and so is what the next rendering prunes (`Rendered`), which is nothing while a
popover is open or before the first load. `offer` is the Undo of the toast on screen.
`Walk` is the loop of `first_free` over the slots that are left, and `ColumnOf` that of
`layout` over the blocks: functions on finite sets, defined by recursion.

The two halves share no state but the day on view, which each walks for itself;
`MCDay` runs either the one or the other, from one initial choice.

## 3. Runs

Ten runs must pass, two must find a violation. `CHECK_DEADLOCK` is off in three, where
the system really may stop: `daemon_locks` (all calls were made), `window` and
`deleted_kept` (the window is gone) and `day` (what may be done was done). In
`daemon_locks` a deadlock of the locks is `NeverStuck`.

| Run | Instance | Shows |
|---|---|---|
| `sync_loop` | 1 task, the loop; 3 local changes, 2 by the phone, 1 fault | nothing is overwritten unseen (`NoLostUpdate`), a base is the server's copy (`BaseIsServersCopy`), no accepted edit is lost (`NoLostEdit`), a delete stands (`DeleteStands`), a token never claims more than the cache has (`TokenCovers`), a repeating task advances once per completion while nothing is lost (`AdvancedOncePerCompletion`) |
| `sync_live` | 1 task; 2 + 2 changes, 1 fault, with fairness | the cache and the server come to agree for good |
| `list_sync` | 2 lists (one made on the way), 1 task; 2 user changes, 1 list request, 1 change elsewhere, 1 fault, with fairness | no task is lost, a list leaves only when it is gone (or by an overtaken listing), all agrees in the end |
| `reminders` | 1 task in 2 lists; at most 3 user changes and faults, with fairness | what is due rings (`RemindersRing`), once (`RingsOnce`), under one notification for a task, in whichever list it was (`OnePerTask`); no snooze is forgotten (`SnoozeKept`) |
| `github` | 1 repo, 2 lists, up to 5 tasks (one that repeats) and 3 issues; five events in all of 2 by the user, 1 on GitHub, 3 of the link, 1 fault, with fairness | a task has one issue (`PairsOneToOne`), nothing is made twice after a crash or a lost answer (`NothingTwice`), a task is completed only when its issue is over and an issue closed only when its task was left (`CompletedOnlyWhenOver`, `ClosedOnlyWhenLeft`), and the two sides come to say the same (`EventuallyInStep`) |
| `repo_follow` | 2 lists, one of them the inbox, and 2 repos, one made later, with 4 names; 5 events in all of 2 on GitHub, 2 by people, 1 fault, with fairness | no two links are one repo (`OneLinkPerRepo`), a pass reads its own repo's issues (`ReadsItsOwn`), a list is renamed only after its own repo (`RenamesOnlyItsOwn`), what the server took is told (`TakenIsTold`), no link waits for ever (`EventuallyFollowed`) |
| `sync_rounds` | 2 calls each of `sync_and_wait`, `set_settings` and signing in or out, 2 accounts, 2 parts of a round; 2 events, 1 fault, with fairness | who waits is answered by a round that began after they asked (`RoundsArePromised`), the loop does not sleep on work (`NeverSleepsOnWork`) and sleeps as long as is set (`SleepsAsSet`), clients hear of changes and of who is signed in (`ChangesAreTold`, `SignInIsHeard`) |
| `daemon_locks` | 3 threads, 4 calls of 10 kinds | calls never all wait for each other (`NeverStuck`), an add that is alone does not make what is there (`AddedOnceAlone`) |
| `window` | 2 tasks, one that repeats; three events in all of 3 by the user, 1 by others, 1 fault, with fairness | only what was deleted goes (`DeletesOnlyDoomed`), nothing is held back for good (`ClosesClean`), a check completes the date that was shown (`CompletesWhatWasChecked`), what is shown becomes what asstd has (`EventuallyCurrent`) |
| `day` | nine histories of three sensors over 2 days of 8 ticks; 3 tasks over 3 days of 8 minutes, 2 gestures, 3 loads; with fairness of the tracked half | a day's rows are the sessions of its last ingest (`SessionsHold`), the day on view catches up with the logs (`ShownCatchesUp`); Undo puts back what its change touched and no more (`UndoPutsBack`), an open task stays on the plan (`StaysPlanned`), blocks that overlap have columns of their own and a new one goes where there is room (`LaidOut`) |

The two violations are under `findings`, each a disagreement of the code with its own
docs or comments:

| Run | Says | Happens |
|---|---|---|
| `deleted_unsent` | store.rs: a row without an ETag never reached the server | delete a task while its create is in flight: it comes back with the next pull (`ForgottenNeverReached`) |
| `deleted_kept` | DESIGN.md: a deleted task goes when its toast does, or before the window closes | a task completed before its toast ends leaves the open ones, and completed ones were never loaded: `settle` forgets the delete, and the task stays (`DeletedGoes`) |

More such disagreements are known, reachable in the models, and excused by name in the
properties that pass:

- A repeating task can advance twice: complete, lose the answer, edit. `put_server`
  compares the whole queue with the copy, finds the last edit missing, and applies the
  completion again (`AdvancedOncePerCompletion` excuses a lost answer).
- asstd stops during a round: its `flush` and the loop send one row, and the later answer
  takes out edits that were not sent. `TaskSync` has it with two `Workers`; the run has
  the loop alone.
- A listing taken before a list was made is applied after: the new list goes with its
  unsent tasks (`LeavesOnlyWhenGone`). One under way at a sign-out fills the cache again.
- `location::run` takes the wake-up meant for reminders; one is up to a minute late
  (`RemindersRing` still holds).
- A pair made by title starts with the issue's notes as agreed on; the task's, which
  nobody changed, then overwrite the issue's.
- A repo renamed again before the pass that follows a lost reply: the deed is done and
  never told (`TakenIsTold` excuses a second rename).
- A round that fails after its first lists changed the store emits no Changed
  (`ChangesAreTold`).
- Two `add --source` of one source at once make two tasks (`AddedOnceAlone`).
- A task moved to another list once it rang, or while it is about to, rings again under its
  new href, and the notification under the old one stays: the task has two (`OnePerTask`
  excuses a task so moved, and `RingsOnce` the ring).
- A task is deleted by itself while it is selected, then with the selection: two toasts hold
  it. When one has ended, the Undo of the other comes too late (`DeletesOnlyDoomed`).
- The window lives on between Quit and its end. An Undo made then does not stop the delete
  (`DeletesOnlyDoomed`), and a delete made then is never sent (`ClosesClean`).
- Two untagged names whose sessions start together share a `source`, and the table keeps
  one of them (`MinutesKept`).

### Bounds, and why they are enough

Every counter that could grow is bounded by a constant in a guard: `MaxLocal`, `MaxPhone`,
`MaxUser`, `MaxRequests`, `MaxOthers`, `MaxAsks`, `MaxCalls`, `MaxReloads`, `MaxCommands`,
`MaxLoads`, `MaxGestures` bound what people and programs do, `MaxFaults` and `MaxFails` what
goes wrong, `MaxGithub`, `MaxHub` and `MaxLinks` GitHub and the link, `MaxEvents` all
together, `MaxTime` the clock of `Reminders`, `MaxReadings` the logs. Nothing bounds the
rounds of the loops: their steps can always be taken again, so behaviours are infinite
and liveness is meaningful.

- *One task* in `TaskSync`: rows of different resources share only the token and
  the day of the last full listing, and each property speaks of one row. Three
  local changes make create–edit–delete, and create–complete–edit around a lost
  answer. Two phone writes conflict with the first send and again with the resend
  or the delete after a refetch. One fault is enough for each single lost answer,
  and the round after it is a full one.
- *Two lists* in `ListSync` are the least between which a task moves and of which
  one can be overtaken by a listing; hrefs are never reused (a random end), so
  more lists only repeat this.
- *One task with an alarm and snoozes, five ids* in `Reminders`: five ids are more
  than are ever in use there (a restart makes one more), so the notification
  server never runs out. `GRACE`, the month `fired` is kept for and the longest
  sleep are two ticks each, the clock goes to four: an alarm can be on time,
  late within GRACE and later; sleeps are cut short by the limit and by an alarm.
- *Five tasks and three issues* in `GithubPass` are numbers to give out, not what is
  there at the start: two changes by the user and one on GitHub make at most three
  things, and a pass that dies one more. A number that ran out would only stop
  `Create` or `NewTask`; `EventuallyInStep` would then fail, and does not. Two titles
  tell paired by title from not, two notes tell which side moved, and two lists a
  task that left from one that is gone. One fault is one lost answer, one crash or
  one listing that lags; the link is made, dropped in a pass and made again.
- *Two repos and four names* in `RepoFollow`: one name differs from the first in its owner
  only, one is the inbox's, one is free. Five events make link, rename, delete, make
  again under the old name, and one lost reply. `PerHour` is 1 instead of 3, so that the
  limit is met.
- *Two calls of each kind* in `SyncLoop`: the races are between two of one kind, or one and
  the loop. Two parts are a round that fails after its first. Two events are few, but
  each begins a call of up to five steps beside a loop that never rests; the theorems
  have no bound.
- *Three threads* in `DaemonLocks`: a circle of three needs three; the theorem has any
  number. They are alike, hence the symmetry (the run has no liveness).
- *Two tasks* in `Window`: two in one toast, two toasts of one task each or of one task
  twice, one that repeats beside one that does not. Three events are delete–delete–undo,
  delete–quit–undo, check–uncheck–check, or one of them with a change by others or a call
  that failed.
- *Nine histories* in `MCDay`: one arrives reading by reading while days are loaded, with
  work and presence through midnight; the others are there for what they make of the
  sessions, each of them named in a comment. SESSION_GAP and MIN_SPAN are two ticks.
  The days of the plan are eight minutes on a grid of two; the saved plan has three
  blocks overlapping in a chain, one of them up to midnight, and one task on two days,
  so that a carry meets a slot.

Larger instances of `sync_loop` (a second href) and of `window` (a fourth event) are out of
reach of a run of minutes; the proofs below cover them for the properties they are about.

### Fairness, and why the code justifies it

- `TaskSync`: weak fairness of the loop's push and of its pull. `sync_loop` runs as
  a tokio task; every request has a timeout, so a worker at a request is not
  there for ever; and it begins a round at the latest when its interval is over.
  No fairness for the user, the phone, time or faults. That those
  end is a matter of their bounds: "once everyone rests".
- `ListSync`: the same for the loop (`LoopStep`) and a request under way
  (`RequestStep`). `NotSignedIn` stutters, as the round of a loop without an account.
- `Reminders`: the loop (`LoopStep`) and time (`Tick`). It assumes that the
  notification server answers, with an id or an error: `ring` calls it without a
  timeout. Nothing is assumed of `location::run`, nor of
  wake-ups: `RemindersRing` holds because the loop looks every minute anyway.
- `GithubPass`: weak fairness of the pass (`PassStep`): it runs as a task of its own,
  every call has a timeout, and a round comes at the latest when its interval is
  over. `NotLinked` stutters, as a round without a link. It assumes that GitHub answers
  once the faults are used up, and none of the user or of GitHub's users.
- `RepoFollow`: the same of its round (`RoundStep`), and strong fairness of `HourPasses`,
  which is enabled only between two rounds: rounds are much shorter than an hour.
- `SyncLoop`: weak fairness of the loop, of the pump and of the calls, each a task of its
  own whose waits are for locks, the keyring and the server, which time out.
- `Window`: weak fairness of `WindowStep`: asstd answers, messages are handled in turn, and
  moments and toasts end by timers. None of the user or of others.
- `Track`: weak fairness of the window's minute (`Tick`) and of each call. It assumes that
  ActivityWatch answers or fails: asstd's own queries have no timeout, and the hazard
  list says so. None of the sensors: "once they are quiet".
- `DaemonLocks` and `DayPlan` promise nothing that must happen.

### What the properties leave out on purpose

- `NoLostEdit` excuses an edit of a task that was deleted or that another client
  turned into something edits make no sense on: the code lets the server win
  there. A completion also counts as done where the phone made one.
- `LeavesOnlyWhenGone` excuses a listing taken before the list was made, and `NoTaskLost`
  a task of which such a listing took a row. A row it shows goes with its list. One that
  waits to be deleted is missed later: `push_one` forgets the href when the delete is
  answered, whatever the row is by then. With three changes by the user and two requests
  for lists (more than the run has), TLC finds this course where the excuse leaves such
  rows out: a task is sent in a list made elsewhere and moved out of it; its delete is
  under way; a request of before the list applies its listing, another's brings the list
  back; the task is moved back; the answer to the delete forgets it.
- `RingsOnce` allows one more ring for each restart (the loop cannot know whether
  the server took it) and each move (the table `fired` is keyed by href).
- `ClosedOnlyWhenLeft` excuses an issue closed once the link was dropped during a
  pass (`crossed`): that pass can pair an issue with a task of a list that is no longer
  linked, and the next closes it. It also excuses an issue that was closed before,
  whose task the pass then closes with it or opens again.
- `NothingTwice` speaks of titles that did not change, one link and one fault: the
  pass finds its own work again by title, and a second crash, or a title changed in
  between, does leave two.
- `TimePasses` prunes only history older than the last full listing: FULL_EVERY is
  a day and servers keep weeks. The mutant without FULL_EVERY breaks `TokenCovers`.
- `RepoFollow`: `ReadsItsOwn` excuses a name that went to another repo before the link
  learned its id, or between the look and the reading; `RenamesOnlyItsOwn` and
  `TakenIsTold` what people changed meanwhile.
- `SleepsAsSet` excuses two overlapping calls of `set_settings`, of which the later may find
  no difference to tell the loop of.
- `OnePerTask` excuses the notifications of a task whose close was overtaken or asstd's death
  forgot (`excused`), and two of different lists where the task was moved out of one of them
  with its ring due, under way or on the screen (`left`): `move_to` makes a new href, which
  the map of what is shown does not know.
- `Window`: a delete that `settle` forgot (`dropped`) is excused from `ClosesClean`, which is
  what `deleted_kept` shows to happen, and so is one made between Quit and the end (`late`).
  `DeletesOnlyDoomed` excuses the Undo of a task that was deleted again before it was taken
  back (`again`), of which one toast has ended and sent; of one that is deleted once, Undo
  is never too late. It does not speak of what Quit took along and has not sent.
  `EventuallyCurrent` excuses a change before the window listened for signals (`missed`), and
  an error page.
  `CompletesWhatWasChecked` speaks of tasks that others, and the selection, left alone
  since the window last agreed with asstd on them: asstd had them open with the date that
  was shown, no load on its way said otherwise, and no complete was still to be served or
  to fail (`touched`).
- `SessionsHold` is of what each ingest had read (`applied`): an ingest that read
  ActivityWatch first and wrote last leaves older rows, until the next minute's, which is
  `ShownCatchesUp`.

## 4. Proofs

Proved by TLAPS for every value of the constants, from the named ASSUMEs only:

| Module | Assumes |
|---|---|
| `TaskSync` | `WorkersAssumption`, `PhoneAssumption`, `BoundsAssumption` |
| `ListSync` | `InitialAssumption`, `NamesAssumption`, `BoundsAssumption` |
| `Reminders` | `HomeAssumption`, `NowhereAssumption`, `TimesAssumption`, `GraceAssumption`, `SleepAssumption`, `BoundsAssumption` |
| `GithubPass` | `NumbersAssumption`, `UidsAssumption`, `ItemsAssumption`, `NowhereAssumption`, `BoundsAssumption` |
| `RepoFollow` | `ReposAssumption`, `NamesAssumption`, `ShortAssumption`, `CalledAssumption`, `BornAssumption`, `BoundsAssumption` |
| `SyncLoop` | `FirstAssumption`, `AccountsAssumption`, `WhoAssumption`, `BoundsAssumption` |
| `DaemonLocks` | `ThreadsAssumption`, `BoundsAssumption` |
| `Window` | `RepeatingAssumption`, `OptionsAssumption`, `BoundsAssumption` |
| `DayPlan` | `TasksAssumption`, `MinutesAssumption`, `SavedAssumption`, `NothingAssumption` |

They say that sets are of the right kind and bounds are numbers, and of `DayPlan` also that
the grid is no longer than the day and that window.toml holds what `place` put there (one
that was edited by hand could hold anything); TLC evaluates all of them, and those of
`Track`. The bounds may be as large as one
likes, so a theorem is about any number of events.

**TaskSyncProofs.** `Invariance`: `Spec => []SyncInvariant`, for any hrefs, any number
of workers pushing side by side and any bounds. From it `TypeCorrect`, `BaseCorrect`
(`BaseIsServersCopy`), `CombinedCorrect` (`IcsIsCombined`), and the action property
`UpdatesKept` (`NoLostUpdate`). None of these is inductive by itself:

- that a row's base is the server's copy while its ETag is needs that no ETag here
  is one yet to be given out (`ETagsGiven`), and that a body in flight belongs to
  the ETag it came with (`AnswersHold`), which in turn needs the write the answer
  is for to be in hand (`WriteInHand`, `AnsweredBeforeReread`);
- that an update keeps what the server has needs that every update queued or under
  way, whose ETag is still the server's, was made from the server's copy
  (`UpdatesMadeFromCopy`). That holds because `pending()` sends `ics`, which is
  base plus edits (`IcsIsCombined`), under the ETag of that base. An update
  whose ETag has moved on is refused by the server, so nothing is claimed of it.

Its first part has the lemmas on `Combined` those rest on: what it returns, that
it sees at least what it was given, and that one more edit at the end of the
queue is one more edit on the result (`CombinedAppend`), without which `LocalEdit`
would not keep `ics` the combination.

`AloneInvariance` goes on where the loop is the only worker (`Alone`), for `DeletesStand`
(`DeleteStands`) and `TokensCover` (`TokenCovers`): nobody else then sends, or forgets, what
the loop has in hand. Both say what the server has from what is here, so the strengthening
says what each thing the loop holds tells of the server. A row's ETag was the server's
once (`RowsKnown`); a write in hand is the only one of its row, a create of a row not
yet sent or else of one that is there (`HandSound`), so that a refused delete is sent
again for that row and no other; an answer, and a copy it came with, is what the server
has, or the server was written since, and then later than the token (`AnswersTold`); what
the history was cut of is older than the token it is read with (`HistoryTold`); and from
the delta to its end (`PullTold`) every change up to the new token is named by it
(`DeltaTells`) and is in the cache or being fetched (`DeltaTaken`), while what it says is
gone, is, if the ETags read before were the server's (`KnownReached`). A body fetched late
does no harm because the server was then written after the delta's token, which claims
nothing of it.

`EditInvariance` goes on from there to the edits, for `NoEditLost` (`NoLostEdit`). An edit
is dropped where `pushed` takes it off the queue and where `put_server` finds a copy to
show it already, and in both it is in what the server has. A write carries the edits it
is said to (`WriteMade`, `HandMade`), and what the server has was made from it still when
its answer is applied (`TakenGrown`, `Grown`). For the rebase: whatever the server has was
made from the row's base, with an edit of the row as its title only if it was made with the
edits before that one (`MadeFrom`), and as far as the first edits of the row advance it only
if it was made with those (`AdvancedBy`, unless the phone completed it too): so a copy
`put_server` takes for applied was made with every edit (`ShownAreSeen`). Those are of the
server (`ServerFits`) and of every copy on its way (`CopiesFit`, `Told`); ids tell the edits
apart (`IdsGiven`); and an edit is in what the row shows, or its task was deleted, is gone,
or takes it no more (`EditsShown`).

`OnceInvariance` counts, for `AdvancedOnce` (`AdvancedOncePerCompletion`), as long as no
fault has happened (`AdvancesCounted`): how far a base, a write, a copy or what the server
has is advanced, and the completions the row has still to apply to it, are together no
more than the completions made (`Counted`). Only what the server has taken and is not
believed to have, as its answer is on the way, is in both, and is let off (`OnServer`):
`pushed` takes it off the queue and the sum is right again. A lost answer is just what
would leave it there, which is why the property excuses faults. What keeps `pushed` from
leaving the queue alone is that a write was taken as a task, or the server's copy is none
any more (`TakenStands`).

**ListSyncProofs.** `ListInvariance`, `ListTypes`, and `ListsLeaveOnlyWhenGone`. The
strengthening: a list is made once (`MadeOnce`); what a listing does not name was
not there when it was taken (`ListingsTold`), so that a list it takes from the
cache is gone or made since; a list the server said it deleted is gone
(`DeletedIsGone`), as hrefs are not used twice. `KeepInvariance` goes on to the tasks, for
`TasksKept` (`NoTaskLost`). A step that clears only what waits to be deleted loses nothing,
as that task is shown in another list (`GoneIsMoved`): `SafeStep`, which covers most
steps. What comes late is left. A delete under way is of a row that waits for it,
or whose list is gone for good (`DeletesTheGone`, `Barred`), so its answer takes nothing
else; a create under way is of a row not sent yet, and the server has what it took
(`CreatesTheNew`); and a page has what the cache shows as the server's, while what it has
is there, or waits to be deleted, or its list is gone (`PageIsHeld`, `SameIsHeld`). That
`DeletesTheGone` is not inductive without the excuse of section 3 is how the course told
there was found.

**RemindersProofs.** `ReminderInvariance`, `ReminderTypes`, `SnoozesKept`, `EachRingsOnce`
and `OneNotification`. The strengthening: a ring under way was looked for (`RingUnderWay`); one answered with
an id was taken by the server (`AnswerTaken`); so was all that counts as fired
(`FiredTaken`); an open task is in a list (`OpenPlaced`). `SnoozesKept` then goes over
every step that clears a snooze without the user: `Collect` only where the task
is closed, `RecordShown` only the time that was taken (`unsnooze_at`),
`RecordRefused` only after GRACE. `EachRingsOnce` (`RingsOnce`) is by `RingInvariant`: a
reminder taken as often as the restarts and moves so far allow is `Spent`, which is to
say that it is neither due nor being called and that collect cannot find it: its task is
not snoozed until that time, and it counts as fired, is missed by more than GRACE, or its
task is gone (`Remembered`). That lasts as a snooze is only ever set to a time to come;
and the ring that uses up the allowance is spent at once, as a pass has one reminder for
a task, and an alarm it found is not what its task is snoozed until (`DueSound`).
`OneNotification` (`OnePerTask`) is by `ScreenKnown`: what is on the screen the loop knows
of, or has just been answered with; an href is known under one id; and a ring under way
replaces that one. And by `RingsWhereItIs`: what is due, rings or is on the screen for a task,
and was not left behind by a move, is of one href, the one where the task is.

**GithubPassProofs.** `GithubPassTypes`, `PairsStayOneToOne`, `CompletionsEarned`,
`ClosingsEarned`, `NothingMadeTwice`. That a task has one issue is not inductive, as a pass pairs long after it planned. The
strengthening (`PairInvariant`): no two operations of a pass, the one in hand
included, are about one task (`WorkApart`); a task an operation is about is paired
with no issue but the operation's own (`PairsApart`); and what is paired or planned
was given out before (`WorkNew`, `PairsBorn`, `TasksBorn`), so that a new task is in
neither. `OpTaken` and `AnsweredFor` tie the operation in hand and its answer to it.
`CompletionsEarned` is by `OverInvariant`: what the issues, their state before the last
change and the listing say is over, is (`ToldRight`); a planned merge that completes
its task is of an issue that is over (`MergeTold`); and an issue that was asked for
and is not there is over (`GoneTold`), since every issue a pair, an operation or an
answer names was made once (`PairsMade`, `WorkMade`, `AnswerMade`). `ClosingsEarned`
(`ClosedOnlyWhenLeft`) is by `LeftInvariant`: a task that a pair or an operation ties to an
issue is open unless its user completed it or the issue is over, and in the linked list
unless its user took it away or the link changed during a pass (`AllKnown`), whenever the
pass planned; so what is planned to close an issue does so for a task that was left
(`ClosesKnown`). A new pair brings no task into this that was not in it: it is stored for
an operation, whose task was known already, or for a task just made, open and in the list
of the pass, which is the linked one (`SameLink`).

`NothingMadeTwice` (`NothingTwice`) counts, so its invariant does too. `DueInvariant`: what
is due is never more than people made. Due (`Due`) is an issue that is open, that a listing
or, before the one fault, the state a listing may lag at still shows open, or that a planned
operation will open (`IssueDue`); and a task that is open in the linked list, or for which
an issue is still to be made (`TaskDue`), unless it belongs to an issue that is due and is
counted with it (`Alone`). They belong together if they are paired and nothing is planned
against that, or if the issue was just made for the task (`Tied`). One pair besides may be
promised: an issue and a task of one title, one made for the other and not paired when its
pass died (`Lost`), or a repeating task that opened again while a listing still shows its
issue that is gone (`Stale`). The next plan adopts one by title, and perhaps another of that
title: who matches whom may change, and how many are left over does not.

That each step leaves no more due goes by `DueTurns`: an issue that is no longer due leaves
at most the one task that belonged to it, a task that is no longer due at most the issue
made for it, and people's steps add the one thing they made. `PlanKeepsDue` is the step that turns the
most over at once, for any matching of titles. The count rests on three more
invariants: no two operations are about one issue, and what asks for a partner has none
(`WorkInvariant`); a link made once is the one a pass is for (`LinkInvariant`); and while no
title changes, what is tied has one title in every state of the issue that may still be read
(`TitleInvariant`).

**RepoFollowProofs.** `FollowInvariance` is for all of the safety of `RepoFollow`, with any
number of repos, names, lists and changes. `OneLinkEach` (`OneLinkPerRepo`) needs no more
than the types: `gh_learn_id` and `gh_rename` look at every link in the statement that
changes one, however old the row is that they judge. The others are about what happened
between a row's being taken and its use, so each has an invariant on what the round holds:

- `ReadsTheMeant` (`ReadsItsOwn`): while no name changed hands unseen (`MeantHolds`), a link
  with an id is of the repo it was made for, and the name of one without still stands
  for that repo (`LinksMeant`); no other link has a taken row's name without an id
  (`RowsMeant`), so that a verdict learns the id for the link it was given for; and what
  was seen is of that repo (`SeenMeant`).
- `RenamesItsOwn` (`RenamesOnlyItsOwn`): while people leave links and lists alone
  (`CalmHolds`), the rows taken are the links there are (`RowsCurrent`), the last listing is
  what lists are called (`ListsCurrent`), the link, its marker and what was seen have names
  the repo had (`NamesSince`), and the rename under way is that of the marker and was
  allowed (`WorkAllowed`).
- `TakenTold` (`TakenIsTold`): with one change on GitHub (`OnceHolds`) a repo has two names,
  and a marker leads from the one to the other (`TwoNames`). So every intent in the log is
  found under its marker's names (`LogKnown`); one at most is open for a list, and it is
  the one in hand (`OneBegun`); so what the server took still has its marker and the new
  name, which the next listing shows, until it is told (`DeedsFound`).

**SyncLoopProofs.** `LoopInvariance` is for `ImplementsRounds` (the refinement, by one case
per step of the loop and the calls), `AnswersAreLater`, `SleepsWithoutWork`,
`ClientsAreTheAccounts`, `SleepIsTheSettings`, `ChangesTold` and `LoopTypes`. None of the
promises is inductive. Who asked before the round began was counted (`Begun`), which needs
that the generation of a round is between what was answered and what was asked
(`Generations`); whoever waits for a later one has left a permit, at whatever step the
loop is (`Waiters`), and so has what was edited after the push (`Edits`); the account a
client is made for is the one signed in, or some call is about to drop the client
(`UsesTheAccount`), which holds because the client's lock is held for the password; and a
call of `set_settings` that is alone has read the interval there is (`OneSets`).

**DaemonLocksProofs.** `LocksInvariance`: who holds a lock has taken it in its section, and
has come as far as that lock (`InSections`, `HoldersHold`). A call that waits then waits for
one that runs, and if that one waits too, it is for a lock further on in the order
(`WaitsFurtherOn`); there are four ranks, so `NeverAllWait`. `AddsOnceAlone` needs that
an add that is alone stays so until another begins (`Alone`).

**WindowProofs.** `HeldInvariance` is for `OnlyTheDoomedGo` (`DeletesOnlyDoomed`) and
`NothingHeldBack` (`ClosesClean`), with any number of toasts, calls and quits. It says that
what is hidden was deleted (`HiddenDoomed`); that a toast holds what was deleted, and two
share only what was deleted twice (`ToastsHold`); that what is on its way to be deleted is no
toast's any more, but for that (`GoingHeld`), so that its Undo is gone; and that what was
deleted and not taken back is hidden while the window lives, is still to be sent by every
Quit or was, and is gone, refused or forgotten when the window is (`DoomedHeld`).
`OnlyTheDoomedGo` then goes over what can send a delete or take one back: a toast that ends
sends what is hidden; Undo sends nothing, and of what it takes back nothing is on its way by
`GoingHeld`; Quit sends what is hidden.

`CheckInvariance` is for `ChecksCompleteWhatWasShown` (`CompletesWhatWasChecked`). Of a
task that others left alone, `CheckHolds` says: while a complete is on its way, or its
failure is, the task is shown as sent, and asstd, the window and the load that may come
have the date it was checked at; one that waits for its moment has none on its way, so
taking the check back and checking anew sends one; once it was served, the load that
comes has the date it was sent with, the next one, or no such task, and only the first
leaves it as sent. That rests on one load being the latest (`OneLoad`), with which the
generations of `reload` drop the others, and on what is sent being shown with its date
(`SentShown`), so that the completed tasks settle nothing; and on what is being completed with
the selection being touched (`BatchesTouched`).

Of the plan of the day, `PlanInvariance` says that the plan has one slot for a task and day,
within the day and of a duration it has room for, and that the toast on screen knows the
plan its change found: what it took or moved was on that plan, and what it made on the
later day was not (`OfferSound`). With it `UndoRestores` (`UndoPutsBack`) and `PlannedStays`
(`StaysPlanned`) go by one case per gesture. `DayIsLaidOut` (`LaidOut`) is about what the two
loops compute, for any slots:

- A function defined by recursion over finite sets is what its definition says only if
  one such function exists. The library's theorem for that takes an operator; in its place
  stands `SmallestSet`, that of a family of finite sets one holds no other: a largest
  family of sets of slots for which the walk is defined lacks none (`WalkExists`), for it
  could have one more; and likewise for blocks and their columns (`ColumnsExist`).
- `WalkFinds`: from a minute of the grid the walk ends at the first minute of the grid at
  which the slot overlaps none, again by a smallest set for which it does not.
- A column is left for each block, since `0 .. n` does not fit into `n` blocks
  (`ColumnLeft`). The block in the rightmost column of its group overlaps one in every column
  to the left of it that began no later; those and it share its first minute, and have
  columns of their own, so they are as many as there are columns (`GroupDeep`).

Model-checked only:

- all of `Track`. `SessionsHold` is not so for every history: where an app and a site have
  one name and are used in turn, `TaggedTimeline` gives their one span the kind of
  whichever began it, so a page that follows its namesake does not push the window beside it
  out. The histories TLC runs have no such names;
- all liveness, which is out of the provers' reach: `EventuallyConverged` (twice),
  `RemindersRing`, `EventuallyInStep`, `EventuallyFollowed`, `SignInIsHeard`,
  `EventuallyCurrent`, `ShownCatchesUp`, and the fairness of `RoundsArePromised`.

`BaseCorrect` and `UpdatesKept` also hold with `flush` beside the loop; `DeleteStands`,
`TokenCovers`, `NoLostEdit` and `AdvancedOncePerCompletion` do not, as TLC shows of each.

## 5. Not modelled

- *Command line, quick add, shared types, configuration*: one call or one parse each, and
  no state that outlives it but what asstd keeps. Text is parsed character by character
  and tested with tables of examples; a model would repeat the parser.
- *Arrivals* of `location.rs` (a GeoClue client that comes and goes): planned.
- *Widgets, drawing, packaging, HTTP, XML and the keyring*: no state of their own, or not
  this program's.
- *Of the window*: the editor and the add card with their drafts, views, moves of a task
  between lists, tray icon and search.
- *Of time tracking*: the words on a block, reports, rollups and suggestions, which read
  what `Track` has and change nothing; the removal of legacy rows, which is done once.
- *Of GitHub*: pages, labels, rate limits and their waits.
- *What iCalendar and recurrence compute* is abstracted in `TaskData`: setting a value, and
  advancing.

Most of the lines of the repository are of these kinds, widgets above all, so the map
covers about a tenth of them: the parts that share state, wait, fail and resume.

## 6. Plan

1. **Location**: arrivals, and a round of GeoClue that fails. An arrival is marked before its
   notification is shown.
2. **Editor**: a draft open while its task changes, moves or goes; what is saved when the
   window is left. On top of `Window`.
3. **EditPromise**: the abstract specification of synchronisation (an edit is
   accepted, waits, reaches the server, or is given up for a stated reason) that
   `TaskSync` implements under a refinement mapping from `rows` and `srv`, as `Rounds` is
   that of `SyncLoop`; and an abstract ring (due, shown once, dismissed) for `Reminders`.
4. **Occurrences** of `recur.rs` against a reference definition over bounded inputs.
5. Proofs on what is here: what of `Track` holds for every history, and that the steps of
   `TaskSync` map to those of item 3.
