# CrossVi: TLA+ models and proofs

CrossVi is firmware for the Xteink X3 and X4 e-readers (C++ on an ESP32-C3,
FreeRTOS, one SD card, no supervisor). This directory holds TLA+ models of the
parts of it whose correctness depends on the *order* of things: a power cut
between two storage calls, a packet that arrives late, two tasks that share a
screen object, a crash while the device starts. Each module is a translation of
the code it names; `PROJECT.json` maps every definition to its source lines.

Paths below are relative to the root of the repository.

## 1. The system and its parts

| Component | State it keeps | Operations | Talks to |
|---|---|---|---|
| `lib/Serialization/AtomicFile` | a primary file, `.bak`, `.tmp` | `load`, `save` | HalStorage; used by every JSON store |
| `lib/Serialization/StagedFileTransaction` | final file, backup, staging file | `recover`, `publish`, `publishAndVerify`, `begin/commit/rollbackPendingPublish` | HalStorage; used by the catalog, covers, uploads, sleep frame |
| `lib/Serialization/PersistableStore`, `LazyStoreState` | contents in RAM, write gate, loading state | `loadFromFile`, `saveToFile`, `markReadOnlyForRecovery`, `ensureLoaded` | AtomicFile, BootRecovery |
| `lib/BootRecovery` | a sealed record in RTC memory | `begin`, `enterStage`, `leaveStage`, `completeStartup` | `setup()` in `src/main.cpp` |
| `src/main.cpp` | boot progress, wake reason | `setup`, `loop`, `enterDeepSleep` | all |
| `src/activities/ActivityManager`, `RenderLock`, `RenderGeneration` | the current activity, a stack, a pending action, render generations, a waiter | `loop`, `pushActivity`, `popActivity`, `replaceActivity`, `requestUpdate(AndWait)`, `goToSleep`, the render task | every screen |
| `src/network/NearbySyncExchange`, `NearbySyncProtocol` | session, peer binding, offer, timers, a queue of six events | `start`, `stop`, `confirmPairing`, `acknowledgePeerOffer`, `update`, `onPacket` | ESP-NOW radio, Nearby activities |
| `src/activities/reader/ReadingStatsCompletionTransaction` | a write-ahead marker beside two statistics files | `recover`, `recoverPending`, `commit`, the permission checks | the statistics stores, readers, Home, the list of recent books |
| `BookReadingStats`, `GlobalReadingStats`, `ReadingStatsStorage` | the statistics of a book and of the device, each with a backup and a temp | `load`, `save`, `saveRedundant`, `writeAtomic` | the transaction, readers |
| `src/LibraryCatalogStore` | the library index on the card, a dirty marker | scan, enrich, publish, open | StagedFileTransaction |
| `src/network/OtaUpdater`, `FirmwareFlasher`, `OtaBootSwitch` | two firmware partitions and two boot records | download, flash, switch, confirm | flash, the bootloader, `main.cpp` |
| `src/activities/boot_sleep/SleepFrameStore` and sleep images | a one-shot frame file, a permission in the state file; image list and rotation | `save`, `load`, `discard`; choose | `main.cpp`, stores, the panel |
| `src/util/BookPathMoveUtils` | a book, the old book, an upload, a pending marker, state keyed by the path | `publishStagedBookFile`, `recoverInterruptedBookFileReplacement`, the reset of user state; rename and move | uploads, readers, the stores |
| `lib/Epub/Epub/SourceIdentityStore` | the identity of the book a cache belongs to, or a barrier | `load`, `save`, `prepareReplacement`, `cancelReplacement`, `recoverReplacement` | `BookPathMoveUtils`, `Epub` |
| Reading statistics, achievements, KOReader sync, OPDS, web server, downloads, EPUB/XTC/TXT engines, graphics, fonts, screens, HAL | see section 8 | | |

How they interact: one main task runs `loop()`; one render task draws. Every
storage call takes the `HalStorage` mutex for its own duration only, so a
sequence of calls is never atomic against a power cut. RTC memory survives a
reset and deep sleep, not a power cut; flash and the e-ink panel keep what they
hold without power. The radio callback runs in the Wi-Fi
task and only queues packets; `update()` on the main task consumes them.

### What is hard, and what makes each part correct

* **AtomicFile.** Seven storage calls, each of which can fail *having taken
  effect*, or be the last before a power cut. Correct: the durable value is the
  old or the new one at every moment; success means durable; no sibling left
  over blocks later saves; nothing readable is ever lost.
* **StagedFileTransaction.** The same with files too large to verify in RAM and
  a pending mode that stays open while the catalog reads the new file. Correct:
  one register; recovery never goes behind an acknowledged publication; no pair
  of files that `recover()` refuses for good.
* **NearbySyncExchange.** A two-party handshake whose last message can be lost,
  restarts on either side, a bystander, queue overflow. Correct: pairing is
  mutual; no offer before the receiver's user confirmed; an ACK means saved;
  a success is shared by both; losses alone never prevent completion.
* **Packet numbers.** 16 bits that wrap while users compare codes.
* **ActivityManager.** Two tasks, a non-recursive mutex, notifications that are
  merged, callbacks that call back. Correct: no use after delete; each pause is
  undone once; an acknowledged frame shows the state it was requested for; a
  blocking update returns.
* **ReadingStatsCompletionTransaction.** Finishing a book changes two files with a
  backup each, over some thirty storage calls, while a reader holds its own copy
  of both. Correct: a finished book is counted exactly once, also when a backup
  has to stand in later; a marker can always be recovered from, as it blocks
  every other statistics write.
* **Replacing a book.** An upload takes the place of a book whose progress,
  clippings and bookmarks are found by the path alone. Three files, a marker and
  an identity with backup and temp are changed one by one, some thirty calls,
  and what an interruption leaves is the only evidence of how far it came.
  Correct: no reader shows a book with the state of another; old or new book at
  every moment; a replacement that did not happen keeps the progress; whatever
  was cut off, the book can be opened.
* **Firmware update.** Two partitions, two records, each an erase and a write,
  and a bootloader that rewrites them too. Correct: the next start always finds
  a whole image, proven or not yet tried.
* **The wake frame.** A wake may paint only the difference to a saved frame.
  Frame and permission are two files, and a wake may come after anything: a
  failed write, a power cut, an update. Correct: whenever the next wake would
  paint a difference, the panel shows that frame.
* **BootRecovery and the stores.** Crashes while starting, across restarts with
  and without power. Correct: a bad file cannot keep the device from starting,
  a healthy store is not left out, and a store that did not read its file never
  overwrites it.

`PROJECT.json` "hazards" lists these at the lines where they bite.

## 2. The modules

| Module | Models | Built on | Theorems |
|---|---|---|---|
| `SdCard` | HalStorage's `exists`, `remove`, `rename` on a FAT card, with failures that may have taken effect | | |
| `DurableRegister` | abstract: a register with interruptible writes | | |
| `AtomicFile` | `AtomicFile.cpp` | `SdCard`; implements `DurableRegister` | `AtomicFileProofs` |
| `StagedFileTransaction` | `StagedFileTransaction.cpp` | `SdCard`; implements `DurableRegister` | `StagedFileTransactionProofs` |
| `BookReplacement` | `BookPathMoveUtils.cpp` for one path, `SourceIdentityStore.cpp` | `SdCard` | `BookReplacementProofs` |
| `ReadingStatsCompletion` | the transaction, both statistics stores' saves, and who uses them | `SdCard` | `ReadingStatsCompletionProofs` |
| `NearbySyncExchange` | the exchange, its peer binding, the radio | | `NearbySyncProofs` |
| `PeerSequence` | `sequenceIsNewer` and the counter, as operators | | `NearbySyncProofs` |
| `ActivityManager` | manager, render task, mutex, generations | | `ActivityManagerProofs` |
| `BootRecovery` | RTC record, `setup()`'s stages, the stores' write gate | | `BootRecoveryProofs` |
| `OtaBoot` | partitions, boot records, installation, confirmation, the bootloader | | `PowerCycleProofs` |
| `WakeFrame` | the saved frame and its permission, sleep, the resume decision | | |
| `PowerCycle` | one life of the device after another | composes `OtaBoot` and `WakeFrame` | `PowerCycleProofs` |

Each component `X` is instantiated for TLC by a module `MCX` and one or more
configurations; `OtaBoot` and `WakeFrame` are checked in their composition,
`PeerSequence` by an ASSUME of `MCNearbySyncExchange`. Operators commented as
mutants are faults a plausible edit of the code could introduce; `PROJECT.json`
"mutants" says which property each of them breaks, so no property is vacuous.

## 3. How state and actions correspond to the code

### SdCard
A card is a function from paths to contents. FAT gives two rules that callers
rely on: a rename needs its source and an *absent* destination. `HalStorage`
holds its mutex for a whole call, hence one call, one step. A call that returns
false may have done its work. A rename is assumed atomic and `exists()`
reliable; a write that is cut off leaves `Invalid` contents (the validators
callers pass are assumed to reject a torn file: they check length and parse).

### AtomicFile
`pc` is the position in `save()`; `primary`, `backup` are its locals. Every
storage call is an action with a success, a failure-without-effect and a
failure-with-effect outcome; `PowerCut` is possible at every label. `load()` is
one step as nothing else writes these paths. The refinement maps `reg` to the
value that primary or backup hold, `scratch` to a valid temp when neither does.

### DurableRegister
The value and the write under way. A write that does not succeed leaves the old
value or the new one. `Voidable` registers have faults that void the promise
until a write succeeds; `AtomicFile` implements one that is not voidable.

### StagedFileTransaction
`mode` is the public function that runs, `pc` the call it is at. `recover()` is
not a separate model: `publish` runs it first as the code does. Its reads are
separate: the validator may fail to read the backup that the digest then reads
(`StagedFileTransaction.cpp:96-99`). `Faults` names what the card may do at any
call: fail, fail having taken effect, not be readable for a while. Readers are of
two kinds: most stop if `recover()` fails, the catalog's `open()` reads on
whatever it returns (`mode` `"open"`, `LibraryCatalogStore.cpp:516`). In the
pending mode the transaction stops at `pending`, where the caller reads the
published file (`LibraryCatalogStore.cpp`) before it commits or rolls back.
`leftover` and `lapse` are history: a backup that should be gone, and a good file
that a fault has had removed. While there is a lapse the abstract register is
`void`, until a publication succeeds.

### BookReplacement
`disk` holds the book, the old book, the upload, the pending marker, the
identity with its siblings, and the state keyed by the path (cache directory,
clippings, bookmarks; each said to belong to a book). A handler is a list of
storage calls, `todo`, and the label `pc` of what the code does after them. `Do`
performs the first call, `Fail` lets it fail and goes on with what the code
tries then (`undo`), `PowerLoss` may tear a write in progress. `task` tells
apart who called a shared function: a reader (`open`), an upload (`publish`),
the part of it behind the point of no return (`finish`), and the adoption of an
identity (`bind`). `CannotDecide` is a decision that cannot read the card, or is
refused by a pending completion. `CopyOver` is a computer that writes another
book to the card; the code says itself that it cannot know of this before an
identity was adopted. Clippings and bookmarks are one file each, and writes that
go through a temp file are atomic here. A call that fails may have taken effect,
and a write may be torn. `slipped` is history: which of the two renames of a
publication was reported as failed and done all the same (section 7).

### NearbySyncExchange, PeerSequence
`node[d]` is the exchange object of device `d`, field by field. `Start`,
`Stop`, `ConfirmPairing`, `AcknowledgePeerOffer` are user calls through the
activity (which saves before it acknowledges); `Receive` is the handler of one
queued packet with all branches per type; `Resend` is the periodic timer;
timeouts and overflow happen at any moment when users are impatient.
`radio[d, e]` holds the packets in flight: any of them may arrive next or never;
taking one drops all older ones, because `PeerBinding::accept` takes only newer
numbers. `applied` is a history variable: what the receiver made durable.
`given`, a member of `Circumstances`, says who takes part in a behaviour, who of
them runs firmware that changes its offer, whether timers expire, and the
bounds on sessions, packets in flight and failing radio calls.

`PeerSequence` has no state. `Later(s, k)` is the number of the k-th packet after
`s` as `sendPacket` counts, `IsNewer` the comparison of the code; `Half` is half
the range of the counter.

### ActivityManager
`pc` is where the main task is: in which callback, draining pending actions,
inside `goHome()`, or in a blocking update. A callback may make any sequence of
manager calls, which over-approximates all screens. `render.pc` walks the
render task through *read generation, take mutex, draw, release, wake*.
`life` records constructor, `onEnter`, pauses and destruction of each object.
Push, Pop and Replace are one step each while the mutex is held: the render task
then touches nothing they touch. `goHome()` after a Pop with an empty stack
assigns `currentActivity` without the mutex, so it has steps of its own. One
assumption is *not* made: `ActivityManager.h:100-101` says `requestedUpdate` is
only set by the main loop, but `EpubReaderActivity.cpp:3183` sets it from the
render task, so the model lets it. The mutex is not recursive, and callers are
taken not to hold it: that no callback takes it twice is not checked.

### BootRecovery
`record` is the RTC structure (`valid` stands for the checksum), `reset` the
reset reason, `pc` and `next` the progress of `setup()` through `Order`. A file
is absent, readable, refused by its parser, or *poison*: its loader crashes.
`memory`, `writable`, `lazy` are what a store holds, its gate, and its
`LazyStoreState`. Crashes are caused by poison (repeatable, not counted) or
stray (bounded by `MaxMishaps`). `culprits` and `asked` are history.

### ReadingStatsCompletion
`card[f]` is the primary, backup and temp of a file: the statistics of each
book, the global ones, and the marker. `write` is the `writeAtomic()` under way
and its position, one action per storage call as in `AtomicFile`. `todo` is the
list of calls the main task still has to make (`recover()` is a plan of saves,
redundant saves, a verification and two removals, cut short where one fails),
`goal` what it makes them for, `job` the arguments of the `commit()` under way.
`reader` is an open reader with its copies of both statistics, which of them it
may write and which are dirty. The statistics are reduced to what the
transaction looks at (finished or not; the count) and one number that ordinary
saves change. Any read may fail for a moment; the scan for files of a newer
firmware that precedes each access is part of that. `Rot` turns a primary with
a good backup bad once the transaction is over. Resets, the relocation of a
book's cache, the import of older formats and the daily sidecar files are left
out. `adopted` is history, see section 7.

### OtaBoot
`record` is the two otadata records, `image` what a partition holds (a half
written image does not verify), `install` and `confirm` the position in
`flashFromSdPath`/`installUpdate` with `switchTo`, and in
`esp_ota_mark_app_valid_cancel_rollback`. A record is erased and then written,
two steps with a power cut possible between them, in the bootloader too
(`BootCut`). The bootloader and the `esp_ota_*` functions are not part of the
repository: they are modelled from what `OtaBootSwitch.cpp` and `main.cpp` rely
on (a record under trial at a start is aborted; the highest sequence number is
followed; `esp_ota_begin` refuses while the running image is on trial). `rash`
is history: an image was installed by one that was not yet confirmed.

### WakeFrame
`frame` is the file, `allowed` the flag in the state file, `memory` the same in
RAM, `panel` what the e-ink shows, `pc` where `enterDeepSleep()`, `setup()` or
the main loop is. Every write may fail, and so may the removal of the frame,
which nobody checks; `load()` may also give up without removing it (`Discard`,
`Replay`). The card may be pulled (`PullCard`). Saving a frame or the state is
one step, as its file transaction is modelled on its own. Between the save and
the sleep screen of Quick Resume another page may be drawn (`GoToSleep`). A
change of the Quick Resume setting is taken to be saved. `clung` and
`overpainted` are history, see section 7.

### PowerCycle
The two meet where the device goes down and comes up. `ComeUp` and
`BackToSleep` join a start of the bootloader with a start of `setup()`: a wake
that goes straight back to sleep is a start for the bootloader, and uses up the
trial of a new image. An installation blocks the main loop, which also puts the
device to sleep and confirms the image (`Update`, `MainLoop`).

## 4. Runs

| Run | Bound | Shows |
|---|---|---|
| `atomic_file` | 3 payloads, any number of saves, loads, faults, cuts | old-or-new, durable success, implements the register |
| `staged` | 3 files, all modes and readers; calls that fail with or without effect, files unreadable for a while, cuts, in any mixture | implements the register until a good file is removed; recovery goes behind an acknowledged publication only in three named cases; only an unvalidated damaged upload can leave the pair `recover()` refuses |
| `book_replacement` | 3 books, EPUB or not, any number of uploads, opens, copies, faults, cuts | no inherited state, old or new book, refusals only for a named cause, progress kept |
| `book_opens` | 2 books, as above | **violated**: a torn marker locks the book, see section 7 |
| `book_completion` | 2 books, 1 reading session in one of them; any number of toggles, recoveries, faults, cuts, bad sectors | a finished book is counted exactly once; a pending marker can be recovered from |
| `nearby` | 2 readers that start over, 2 sessions each, 2 packets per direction, 1 send fault; or 3 patient readers, one of which changes its offer, 1 session, 1 packet per direction; 2 offers | mutual pairing, authorised and pinned offers, honest acknowledgement, shared success, no false accusation |
| `nearby_lossy` | 2 readers, fair radio and users | the transfer completes |
| `activities` | 3 live objects, generations modulo 6, sleep and wake | no use after delete, pauses and handlers in order, honest acknowledgement and waiting |
| `activities_live` | 1 object, fair tasks | no wake-up is lost |
| `activities_sleep` | as `activities` | **violated**: a comment that is not true, see section 7 |
| `boot_recovery` | 1 eager, 2 lazy stores and the fonts, 2 mishaps | the right stages are skipped, files are preserved, no boot loop |
| `power_cycle` | sequence numbers up to 5, 2 pictures and the bundled one | the next boot is sound, a fast wake matches the panel and a new image starts clean, but for two named cases |

Why the bounds are enough:

* *Payloads.* The storage code compares payloads for equality only; old, new
  and one left over from an earlier attempt are all it can tell apart.
  Operations are unbounded: the state spaces are finite by themselves.
* *Books.* Likewise three: the book there was, the upload, and one that was
  copied over, or uploaded before and left behind by an interruption. They are
  interchangeable: `book_replacement` uses `Permutations(Books)` as symmetry,
  sound for invariants and for an action property that names no book.
* *Nearby.* An old and a new session per reader is what a stale packet can
  confuse; the list of two packets lets a duplicate meet its successor; three
  readers are one pair and a witness, whose lists are one long and whose users
  are patient to keep the space small. `nearby` and `nearby_lossy` run with
  `CHECK_DEADLOCK FALSE`: the readers run out of sessions. `NearbySyncProofs`
  is free of these bounds.
* *Packet numbers.* Six bits instead of sixteen, and a proof for every width.
  The guarantee has the code's own limit: half the range.
* *Activities.* Three objects are a parent, its child and a replacement. The
  generation counter modulo 6 wraps many times; `RoomToRequest` keeps the
  requests under way below half of it (in the code 2^31). The counter is
  proved for any even modulus from 6 on, and any number of objects.
* *Boot.* Two lazy stores are the smallest set in which a second crash can
  displace the first. `Restart` is not bounded, only mishaps are.
* *Completion.* Two books tell "counted once" from "the last one counted", and
  let a marker of one meet a reader of the other. One reading session makes a
  copy in memory differ from the card; the transaction compares contents for
  equality only, so more sessions add no new case.
* *Power cycle.* Five sequence numbers are several updates in a row: each of
  both records and partitions is used and used again. Two pictures are a frame
  and a panel that differ. Everything else is unbounded.

Fairness:

* `nearby_lossy`: timers fire (strong enough for resends), the users of both
  readers act, and a packet sent again and again arrives at last (strong
  fairness of delivery). The code resends at fixed periods in every waiting
  state and gives up only by timeout; the run leaves timeouts out and asks if
  anything but time can defeat the exchange.
* `activities_live`: weak fairness of the main task and of the render task,
  which FreeRTOS gives to two runnable tasks, and strong fairness of taking the
  mutex (its waiters are served in priority order; the render task waits with
  no timeout). Callbacks return: an activity does not loop for ever.
* `boot_recovery`: weak fairness of `setup()`'s own steps: the CPU runs it.

## 5. Proofs

`AtomicFileProofs` proves for *every* set of payloads, checked by `tlapm`:

* `TypeCorrect`, `SaveIsAtomic`, `SuccessIsDurable`: `Spec => []P` for the
  invariants of `atomic_file`.
* `RefinesRegister`: `Spec => ImplementsRegister`, the refinement of
  `DurableRegister`.
* Two facts that no run checks, as these follow: `NoRenameIsRefused` (no rename
  meets an existing destination or a missing source) and `ValueIsNeverLost` (no
  step leaves the card without a readable value once there was one).

The only assumption is `ContentsDistinct`: `Missing`, `Invalid` and the payloads
are different things. The invariant `OldOrNew` is not inductive: whether a step
preserves it depends on where `save()` is and what it found. The inductive
invariant is `IInv == TypeOK /\ PathsAtLabel /\ Acknowledged`, where
`PathsAtLabel` says for each label of `save()` what the three paths can be given
the locals (for example: after the backup was removed the primary is the durable
value, or the temp is complete and verified). `InitIInv`, one step per action
and `PTL` give `[]IInv`; the invariants follow from it; the refinement
maps each action to a register step or a stutter under `IInv`.

`BootRecoveryProofs` proves for every sequence of distinct stages, every choice
of eager and lazy stores among them and every number of mishaps:

* `TypeCorrect`, `SkipsCulprits`, `NeverTwice`: `Spec => []P` for the invariants
  of `boot_recovery`.
* `PreservesFiles`: the action property `FilesArePreserved`.

The assumptions are `OrderAssumption` (stages are distinct), `StageAssumption`
(stores are stages, no store is both eager and lazy, `None` is no stage) and
`BoundAssumption`. The inductive invariant adds three parts to the types.
`Sealed` ties the RTC record to this boot's decision and to the stage that runs;
`Accounted` ties the streak's culprits to whom the record blames, which differs
while a stage runs and after a manual safe boot; `Gated` says that a store that
may be saved has read its file, the fact behind `PreservesFiles`. The type
invariant itself needs `Gated`: a store that never read its file holds `blank`,
which is no file contents, and only the gate keeps it from being written.

`StagedFileTransactionProofs` proves for every set of contents:

* `TypeCorrect`, `NeverBehind`, `NeverBlocked`: `Spec => []P` for `TypeOK`,
  `AcknowledgedOrLater` and `NotBlocked`; `RefinesRegister`: the refinement of
  `DurableRegister`.

The only assumption is `StagedAssumption` (the contents are different things, and
modes and faults are those the module knows), so they hold for any mixture of
faults. What the code does not promise is in the
statements: `AcknowledgedOrLater` speaks of states without `lapse = "lost"`, and
the register that is refined is void from the removal of a good file to the next
publication that succeeds. The invariant says for each label what the three
paths hold, what would be left if the final path were taken away, and, for the
refinement, on which side of the point of no return the old contents are; the
parts that a misread file breaks are stated for `lapse = "none"`.

`NearbySyncProofs` proves for any number of readers, offers, sessions, packets in
flight and failing calls, for patient and impatient users and readers that
change their offers:

* `TypeCorrect`, `PairingAlwaysMutual`, `OffersAlwaysAuthorised`,
  `SuccessAlwaysShared`, `NobodyFalselyAccused`, `AcksAlwaysHonest`: `Spec =>
  []P` for the invariants of `nearby`; `OffersStayPinned`: the action property
  `OfferIsPinned`.

The only assumption is `NearbyAssumption` (`NoOffer` and `NoPeer` are none of the
others; a circumstance has numbers where it needs them). An invariant about two
readers is not inductive without what travels between them. The proof reads a
packet as *testimony*: whatever is in flight is true of its sender as long as
that one is in the session the packet was sent in (`Testimony`), and so is what
a reader has learned from packets (`Knowledge`). That sessions are never used
again, and that a sender keeps one offer per session unless it is fickle
(`OneOffer`), makes old testimony harmless. Every action is reduced to one
lemma: one reader starts over or keeps on, and what it sends is sincere.

The same module proves of `PeerSequence`, for every width of the counter
(`HalfAssumption`): `CountsLikeTheSender` (`Later` is the sender's counting, zero skipped),
`TakesFresh` and `RefusesStale`, the two facts that the radio of
`NearbySyncExchange` takes for granted.

`ActivityManagerProofs` proves for any number of activities, any even modulus
from 6 on, with and without sleep (`ActivityAssumption`):

* `TypeCorrect`, `NeverRendersTheDead`, `StackAlwaysInOrder`,
  `AcknowledgedAlwaysShown`: `Spec => []P` for the invariants of `activities`;
  `WaitAlwaysHonest`: the action property; `NothingEverLeaks`: every object that
  exists is current, on the stack or pending.

What is promised between two loops, or at the end of a wait, is not inductive.
`IInv` has, beside the types, `Counted`: everything in the making (the render
task's snapshot, the generation waited for) lies between the completed and the
requested generation, less than half the counter apart; `Exclusive`: the render
task draws under the mutex, and then the current activity; and `InOrder`: the
objects that exist are the current one, those below it and the pending one, all
different (`Alive`), each paused as often as the callback the main task is in
accounts for (`Paused`), and only those wait for a result that have a child
above them or are about to have one (`Handled`).

`PowerCycleProofs` proves of `OtaBoot`, for every bound on the sequence numbers
(`SeqAssumption`), `OtaTyped` and `NextBootAlwaysSound`. That the next start is
sound is not inductive: a trial may fail, and then the start after it counts.
The inductive invariant follows the *fallback*, the image that is started when no
record is new or on trial. `Careful` says that it stays whole and confirmed, that
only the other image is ever tried or overwritten, and that a record being
erased and written is never the only one that counts; it holds until an image
installs another before it was confirmed.

It proves of `PowerCycle`, for any set of pictures (`PictureAssumption`):

* `RefinesOtaBoot`, `RefinesWakeFrame`: the composition is a behaviour of each
  part; with the first, `CycleBootsSoundly` follows from what is proved of
  `OtaBoot`;
* `CycleTyped`, `FastWakeAlwaysMatches` and `FirstStartIsAlwaysClean`, from an
  invariant that says, for each label of sleep and wake, what frame, permission
  and panel have to do with each other, unless the frame clung to the card or was
  painted over.

`ReadingStatsCompletionProofs` proves for any number of books and of reading
sessions:

* `TypeCorrect`, `CompletionCountedOnce`, `MarkIsRecoverable`: `Spec => []P` for
  the invariants of `readingstats`;
* two facts that no run checks: `StatisticsAreReadable` (`load()` finds a copy
  of every file it ever held, whatever was cut off), and `RolledForward` (a
  marker, once written, disappears only when both files hold its new contents:
  a completion that began is never taken back).

It assumes `CompletionAssumption` (names are distinct, the set of books is
finite) and `ContentAssumption` (no record is taken for a missing or a torn
file). Two statements carry the induction. Without a marker (`Resting`) all
copies of a file that `load()` could fall back to agree on what matters, whether
the book is finished and how many are; so it does not matter which one survives.
With a marker (`Pending`) each of the two files holds the old or the new
contents, in a copy that does not depend on the temp. The rest of `IInv` says
where the program is: `Written` follows `writeAtomic()` from call to call;
`Tasks` describes what the main task may have left to do by its position in the
plan of `recover()` (`AtPlan`), of a reader that saves (`Flushing`) or of
`commit()`, so that thirty calls need one lemma each instead of one invariant
each; `Ready` says that a reader's copy agrees with the card before it becomes
the old contents of a transaction. TLC checked `IInv` on the instance of
`readingstats` before it was proved.

`BookReplacementProofs` proves for any number of books, from `BookAssumption`
alone (a book's contents are never taken for a marker, a barrier, a tombstone, a
torn or a missing file):

* `TypeCorrect`, `StateIsOwn`, `BookSurvives`, `RefusedForCause`: `Spec => []P`
  for the invariants of `book_replacement`; `OwnStateIsKept`: its action property;
* two facts that no run checks: `BackupIsOwned` (an old book is never there
  without the marker that proves it ours, unless the rename that put it there was
  reported as failed) and `RecoveryHasAnAnswer`
  (`decideNonEpubReplacementRecovery()` fails closed for no card that a
  publication leaves).

None of these is inductive: what a reader finds depends on what the last
interrupted handler left, and all that is known of that is on the card. `Sound`
says what the card alone tells: whose the state is if the identity names a book
(`Named`), hides it behind a barrier (`Behind`), is between two names
(`Between`), or is not there (`Nameless`); for other books, when the marker
takes back that the state is the book's (`Marked`); and that an old book comes
with its marker and is one of the candidates (`Whole`). It holds after every
call, and after every write that is cut off, which is why a power loss at any
point is harmless. `Standing` says for each label which list of calls is left and
what those before it have established. The proof follows the lists: one lemma
for each list of calls (`NewStep`, `OverStep`, `BackStep`, `AwayStep` and those
of books and marker) says that its next call is harmless and leads to the rest
of the list, one for each label that all its lists do, one for each handler that
the list it starts is the one the label names. TLC checked `IInv` with three
books before it was proved. The proof corrected the model in two places where
no run could have told: `CallFailed` named a label that no handler has, so an
adoption whose calls failed had no way to return (here every state has other
successors, so it was no deadlock); and the guards of `NonEpubRecovery`
overlapped where the code asks them in turn.

What stays with TLC: liveness (`ExchangeCompletes`, `WaitReturns`,
`RequestsComplete`, `BootLoopEnds`), as fairness and ENABLED are beyond the
prover. Every invariant and every action property of a passing run is a theorem.

## 6. Plan

Written, most important first: the two storage transactions (all of the user's
data goes through them), the exchange (the only distributed protocol), the
activity manager (every screen), the boot sequence, the completion of a book,
the replacement of a book, firmware update and the wake frame with their
composition; theorems for all of them.
Next:

1. `LibraryCatalogStore` over `StagedFileTransaction`'s pending mode, with the
   dirty marker. Property: a catalog that opens clean is the last published.
2. Renaming and deleting a book in `BookPathMoveUtils`, which carry caches and
   stores with them, beside `BookReplacement`.
3. An abstract specification of `ReadingStatsCompletion`, in which both files
   change in one step, and the refinement.

## 7. What the models show of the code beyond the properties

* **Sleep can be pre-empted** (finding, run `activities_sleep`). `goToSleep()`
  proposes the Sleep activity and calls `loop()`, which first runs the outgoing
  activity's `loop()`. That may navigate and delete the pending Sleep activity.
  The comment at `ActivityManager.cpp:351` says the sleep screen must be
  rendered because the caller sleeps right after; the device then sleeps behind
  another screen. `enterDeepSleep()` keeps no wake frame of such a screen outside
  Quick Resume; in Quick Resume it keeps the one saved before (see below).
* **A first value can come and go.** `load()` accepts a complete `.tmp` when
  nothing else is readable; the next interrupted `save()` removes it. No save
  of it ever succeeded, so the register allows it (`scratch`).
* **The receiver may report a timeout for what it saved.** The sender exits
  900 ms after its first ACK; if its `Complete` packets are lost the receiver
  ends in `TransferTimeout` although it saved and the sender knows. The last
  message of any handshake has this problem; the promise checked is that the
  sender is right.
* **Accepted can turn into Error** by queue overflow, on either side. The runs
  have overflows at any moment; no property speaks of the reader they stop.
* **Three ways to lose an acknowledged publication.** `AcknowledgedOrLater`
  excepts them by `lapse`; without the exception TLC prints the steps.
  - The removal of the backup after a publication fails, which is not checked;
    then a recovery cannot read the final file for a moment and rolls back to the
    backup from before that publication (`StagedFileTransaction.cpp:101-102`).
  - No final file is there, the validator fails to read a good backup, and the
    digest behind it succeeds: `recover()` takes the backup for damaged and
    deletes the last copy (`:96-99`). The comment above says that a "transient
    read failure must not turn an otherwise valid final into an invalid backup"
    and has only the final file in mind.
  - Removing the backup in `commitPendingPublish` reports failure having worked:
    the catalog rolls back, and both files are gone. It is rebuilt by a scan.

  `ImplementsRegister` is void from the removal of any good file that could not be
  read, also when the acknowledged one is behind it (`"undone"`).
* **publishAndVerify rotates before it validates.** Two uploads with bad
  contents, each cut off by power, can leave final and backup both invalid,
  which `recover()` refuses for good. `NotBlocked` holds for `publish`, which
  validates first, and for the others until a damaged upload (`unvalidated`).
* **`LibraryCatalogStore::open()` ignores the status of `recover()`** (line
  516) and reads whatever the final path holds. The register allows it: what is
  there is the value, or cannot be read.
* **A render may precede `onEnter()`** of an activity just installed: the mutex
  is released between the two. Activities must tolerate it.
* **A crash outside a guarded stage is not blamed on anything** and a crash in
  a deferred store is not guarded on first use; the next full boot guards it.
* **Statistics can be locked by two power cuts.** A first save that is cut off
  when its temp is complete leaves statistics only in `.tmp`. Toggling "finished"
  in the list of recent books then writes a marker that says the file was not
  missing. `recover()` saves the new contents, and `writeAtomic()` begins by
  removing the temp (`ReadingStatsStorage.cpp:71`): a second cut there leaves a
  missing file, which is neither the marker's old nor its new contents.
  `recover()` is then `Blocked` for good, and every statistics write and the
  reset are refused, although `ReadingStatsCompletionTransaction.h:16-17` says
  that opening a different book cannot leave the statistics locked forever.
  `PendingIsRecoverable` excepts this history by `~adopted`, so no property
  covers it; without the exception TLC prints these steps.
* **A torn marker locks a book** (finding, run `book_opens`).
  `writeReplacementPending()` writes the pending marker in place
  (`BookPathMoveUtils.cpp:173`). Cut off there, no later recovery can read it and
  each returns false (`:334`): the old book is untouched, and can neither be
  opened nor replaced until someone deletes a hidden file.
* **A rename wrongly reported as failed locks or mixes books.** FAT drivers may
  report a failure for a rename that was done. `publishStagedBookFile()` takes
  the report for the truth:
  - `BookPathMoveUtils.cpp:515-518`: the book is then under its old name, but
    barrier and marker are taken away. Recovery meets an old book without a
    marker and refuses (`:340`), now and for good; the path has no book, although
    `BookPathMoveUtils.h:33` says "On pre-publication failure the old book stays
    authoritative". `OldOrNewBook` still says that the book is on the card;
    that recovery has it back, that the refusal has another cause, and
    `BackupIsOwned` except it by `"rotated"` in `slipped`.
  - `:520-524`: the upload is then in place; where there was no book before, barrier
    and marker are taken away all the same, and the new book inherits the progress
    an earlier one left. `NeverInherits` excepts it by `"published"`.

  Without these exceptions TLC prints the steps.
* **A torn first identity does the same.** When an identity is adopted for the
  first time, or a barrier is cancelled, a cut can leave a torn `.tmp` that
  stands alone or under a barrier: `SourceIdentityStore` calls that `Invalid` for
  good. This is why `RefusalHasCause` names two torn files.
* **An identity that exists only in its temp can be forgotten.** `save()`
  removes the temp first. If the first adoption was cut off behind a complete
  temp, another book is copied over, and power is lost in the next `save()`, the
  new book inherits the state of the old one. The comments say that a
  replacement cannot be known before an identity was adopted; `CopyOver` is
  guarded accordingly.
* **An upload over a copied book is refused** until that book has been opened
  once: its identity is not the one on record.
* **An EPUB that cannot be read for a moment** makes recovery return true when
  no old book is there; the reader goes on, skips `recoverReplacement`
  (`Epub.cpp:408`), and behind a barrier puts its own state away. `KeepsOwnState`
  therefore speaks of opens without a failing read.
* **The wake frame can be painted over.** In Quick Resume `enterDeepSleep()`
  gives the render lock back between the save of the frame and `goToSleep()`
  (`main.cpp:263-269`), and keeps `savedWakeFrame` whatever `goToSleep()` returns
  (`:276-283`): a render that was pending, or an outgoing `loop()` that
  navigates, may draw another page first. A start without a card that goes back
  to sleep, and a startup sleep in Quick Resume (`main.cpp:224-244`), paint the
  panel too and leave frame and permission as they were. The next accepted wake
  then paints a fast difference over another picture, which `HalDisplay.h:20` and
  `main.cpp:285` want to exclude. `FastWakeMatches` excepts this history by
  `overpainted`.
* **The wake frame can cling to the card.** `discard()` and `load()` do not look
  at the result of `Storage.remove` (`SleepFrameStore.cpp:112-116`, `:191`), and
  `load()` gives up at line 177 without removing anything. A frame that stays is
  harmless while its permission is withdrawn; but `saveToFile()` may fail as well
  (`main.cpp:284`, `:542`, both not repeated), and then the frame is used again:
  over another page, or by the first start of a new image. `FastWakeMatches` and
  `FirstStartIsClean` except this history by `clung`.
* **An update within ten seconds of an update overwrites the only proven
  image.** `flashFromSdPath` does not ask whether the running image is on trial
  (from the network `esp_ota_begin` refuses). `NextBootIsSound` asks only for a
  whole image then (`rash`), so this hazard has no property.
* **A good image can lose its trial.** A start that goes straight back to sleep
  uses up the trial of a new image, and the next start goes back to the old one.
  A confirmation whose write fails leaves the image running without a record.
* **A manual safe boot that crashes** leaves every stage in the skip mask, so
  the following boot skips healthy stores too (`asked`).

## 8. Not modelled

* *Packet codecs, pairing-code digest, JSON, TLV layouts.* Byte layout; the
  models need only that encode and decode agree and that damage is rejected.
* *Calendar and streak arithmetic, achievements, statistics backups and peers.*
  Sequential accumulation, covered by the repository's unit tests.
* *EPUB/XTC/TXT engines, CSS, hyphenation, graphics, fonts.* Data
  transformations without concurrency.
* *KOReader sync, OPDS, web server, WebDAV, downloads.* Clients and servers
  around the file transaction; their HTTP is I/O.
* *Renaming, moving and deleting a book*; the library index but for its
  publication; the choice and conversion of sleep images. Section 6 has the
  first two.
* *The bootloader and the `esp_ota_*` functions* are external: modelled from how
  the firmware uses them. *Release lookup and image validation* are checks
  before the first change.
* *Individual screens.* To `ActivityManager` each is any sequence of calls.
* *Achievement notifications* that `replaceActivity` may wrap around an
  activity: the wrapper is one more activity.
* *Display, GPIO, tilt, clock, power drivers.* No state others rely on.
* *Vendored and generated code.*

Beyond the proof system and left to TLC: liveness and ENABLED; induction over
data; anything behind a RECURSIVE operator (the modules declare none).
