# DeepEyeLLM in TLA+

DeepEyeLLM runs language models on an Android phone: Kotlin coroutines drive
native inference engines (llama.cpp, Colibri, LiteRT) through JNI, WorkManager
downloads the model files, Compose screens show what happens.  This directory
holds TLA+ models of the parts where several of these actors meet, TLC
configurations that check them on small instances, and TLAPS proofs that the
central invariants hold for instances of any size.

Paths below are relative to `src/android/app/src/main/`; `…/` stands for
`kotlin/com/deepeye/agent/`.

## 1. Inventory

| component | source | state | operations | interacts with |
|---|---|---|---|---|
| Engine controller | `…/domain/EngineController.kt` | `engine`, `isEngineReady`, `engineStatus`, `initMutex` | initialize, reinitializeWithModel, switchToNativeLocalMode, executeChat(Stream), image, audio, stats | owns one engine; called by every screen, no lock on the client side |
| Engine classes | `…/domain/engine/LlamaCppEngine.kt`, `ColibriEngine.kt`, `…/DeepEyeAgentEngine.kt` | `isInitialized`, native handle | init, chat, chatStream, abort, close | JNI calls; close may come while a call is inside |
| llama.cpp bridge | `cpp/llama-bridge.cpp` | `LlamaState` (model, context, sampler, abort flag) per handle | init, generate, abort, free, stats | freed by close, read by generations |
| Colibri bridge | `cpp/colibri_jni_bridge.cpp` | session and its position, `session_mutex`, `is_aborted` | init, generate, stream, abort, reset, release | as above; its own mutex orders generations and resets, not the release |
| Model download | `…/services/ModelDownloadWorker.kt` | `.tmp`, `.tmp.partNNN` and final file; the run's progress | single stream, probe, parallel chunks, merge, verify, rename | WorkManager starts, stops and retries it; the HTTP server |
| Model catalog screen | `…/ui/models/ModelCatalogViewModel.kt` | rows with `engineState`, observer jobs | download, pause, resume, cancel, delete, import, select, refresh | WorkManager, files, controller, registry |
| Chat screen | `…/ui/chat/ChatViewModel.kt` | messages, `isGenerating`, streaming id, generation job | sendStream, cancelGeneration, newChat, activate model | controller |
| Registry, catalog repository | `…/core/model/ModelRegistry.kt`, `…/domain/repository/ModelRepository.kt` | list of specs; memory and disk caches | rescan, register, fetch | network, files |
| Skills, synchronisation | `…/core/skill/SkillRegistry.kt`, `…/ui/skills/SkillStoreViewModel.kt`, `…/services/SyncWorker.kt` | skill list, installed ids; the screen's copy of the list | update, toggle, mark, clear; refresh; periodic sync | network, main thread and IO threads without a lock |
| App update | `…/updater/` | state flow, `update.apk`, last check, dismissed versions | check, dismiss, download, install | network, dialog, package installer |
| Prompt lab, audio, image, benchmark | `…/ui/promptlab`, `ui/audio`, `ui/vision`, `…/benchmark` | their own running flags and results | run, stop | clients of the controller |
| Policy and audit | `…/core/policy`, `…/policy`, `…/core/security/rbac` | ring of entries | record, query, clear | many threads |
| Helpers | agents, memory, IDE, DEX, hardware, diagnostics | none shared | pure or simulated | |
| Rust core | `src/shared/src/*.rs` | two globals behind mutexes | every call one critical section | |

What is hard here:

* **Concurrency without locks.** `initMutex` serialises the loaders among
  themselves and nothing else.  Clients read `isEngineReady` and `engine`, copy
  a native handle and stay inside C++ for seconds; `close()` frees the memory
  behind the handle.  The chat screen's flags are written by the main thread
  and by the coroutines of generations that were cancelled long ago.
* **Cancellation is cooperative.** A cancelled coroutine runs on until its
  next suspension; a stopped worker until its next look at `isStopped`.
* **Crashes.** The process may die between any two steps (a use after free is
  one way); files and WorkManager's database survive.
* **Failure in the middle.** A reload can throw at nine places, a download at
  a dozen, several coroutines at once.

What makes each component correct: the controller never leaks or frees twice a
model, never accepts chats it cannot serve, and always returns; a download
leaves only files that can be resumed, installs only whole models as far as it can
tell, and ends; the
chat screen always lets the user stop the one generation that runs, shows what
was generated, and comes to rest; a Colibri generation decodes its own conversation
and stops when told; bytes of an answer become the same text however tokens cut
them; a catalog row tells the truth about its file and its work; the flags of
the skill list say what is installed; a dialog that cannot be dismissed goes
away by itself.  `PROJECT.json` lists every hazard at its line.

## 2. Modules

| module | what it is |
|---|---|
| `EngineController` | the controller, the engines behind it and their native memory |
| `ModelSlot` | abstract: a slot with at most one resident model and a ready flag |
| `EngineControllerProofs` | theorems about `EngineController`, and that it implements `ModelSlot` |
| `ColibriSession` | one Colibri engine: context, session, mutex, abort flag, generations, reset, close |
| `Conversation` | abstract: the record of one conversation, which only grows until it is dropped |
| `ColibriSessionProofs` | theorems about `ColibriSession`, and that it implements `Conversation` |
| `Utf8Stream` | `drainCompleteUtf8` of both bridges and the end of an answer |
| `Utf8StreamProofs` | theorems about the loop of `drainCompleteUtf8` and about `Utf8Stream` |
| `ChunkPlan` | how a file is cut into byte ranges |
| `ModelDownload` | the worker, the unique work, the files; EXTENDS `ChunkPlan` |
| `DownloadWork` | abstract: a work that leaves alone what is installed until it succeeds |
| `ModelDownloadProofs` | theorems about the ranges and `ModelDownload` with one run at a time, and that it implements `DownloadWork` |
| `CatalogRows` | one row of the model catalog, its observer, the refresh jobs, over `DownloadWork` |
| `CatalogRowsProofs` | theorems about `CatalogRows` |
| `ChatSession` | the chat screen and its generations |
| `ChatSessionProofs` | theorems about `ChatSession` |
| `SkillSync` | the skill registry between the skill screen and the workers |
| `SkillSyncProofs` | theorems about `SkillSync` |
| `AppUpdate` | check and download of an app update, and the dialog |
| `AppUpdateProofs` | theorems about `AppUpdate` |
| `MC…` | instances for TLC |

Definitions whose comment begins with "Mutant of" are deliberate bugs.  They
are used by no specification; putting one in the place of the definition it
names must make TLC refute the property `PROJECT.json` pairs it with.

### EngineController

* *Loaders* run `reinitializeWithModel` (`lpc` is the line they are at, from
  `lock` to `report`); `initialize` and `switchToNativeLocalMode` choose a file
  and then do the same, each with its own filter.  `engine.close()` is three
  steps, because a client can run between them: the handle field is zeroed and
  the abort flag raised, the native state is freed, `isInitialized` is lowered.
  `init()` is two: the native model is allocated and its handle stored, then
  `isInitialized` is raised.  `Throws` lists the places where the `try` block
  can throw, cancellation at a suspension point included.
* *Clients* run `executeChat(Stream)`: check the flag, fetch the engine, check
  `isInitialized`, copy the handle, enter native code, generate, return.
* `native[e]` is the memory behind engine object `e` (`none`, `live`, `freed`).
  `path` gives an engine its format, and the format its behaviour: LiteRT's
  `close()` releases nothing, llama.cpp and Colibri free.
* Files appear (download, import) and vanish (delete) at any time.
  `ProcessDeath` resets everything but the files.

Abstractions.  Sizes are in units of 10 MB.  Prompts, text and settings are left
out.  Engine objects nobody reaches are recycled as the garbage collector does,
so three names are enough for one client.  Colibri's session mutex, the
simulation mode used when the native library is missing, and the reuse of a
freed address by a later allocation are not modelled here (the mutex and what it
protects are `ColibriSession`'s); neither is the missing `isInitialized` check of LiteRT image requests.  After a use after free the
behaviour is undefined: the abort flag of the freed state reads as FALSE (the
generation may also end at any time) and the process may die.

### ColibriSession

* `ctx` is the memory behind the handle, `session`, `position` the native session
  and the rows in its cache; `author` remembers whose prompt opened it.
* A *client* (`pc`) enters, which lowers `is_aborted` before it waits for
  `session_mutex`; with the mutex it prefills at position 0, then selects,
  checks, delivers and steps until a bound, an abort, an end token or a failure.
  `nativeGenerateResponse` goes the same way and returns the text at once.
* `Runs` is what the runtime and its adapters ask of a run: a session, no
  cancellation, and the session's own position (`segment_runtime.c:200`,
  `olmoe.c:2103`; the other adapters ask the same).
* `resetSession` holds the mutex over destroy and create, which may fail.
  `close()` is four steps and takes no mutex.  A caller left inside the freed
  context may run on or take the process down (`Crash`).

Abstractions.  Tokens are counted; families, sampling and statistics are left
out.  The native declaration of `nativeInitModel` lacks an argument the C side
expects (hazards): where that is fatal, `InitModel` never happens.

### Utf8Stream

A byte is one of six classes: ASCII, the first of two, three or four, a
continuation, any other.  `Drained` is the loop of `drainCompleteUtf8`, which the
two bridges share to the letter, as a function of the bytes from the loop's
position on: it ends where no byte is left or all that is left may still be
completed (`Awaits`), else it puts out the whole character or the replacement
(`Piece`) and goes on behind it (`After`).  `Feed` is the callback of a token, `End`
the end of an answer: llama.cpp's bridge drops the carry, Colibri's passes it on.
The classes are the code's: F5 to F7, C0 and C1 count as first bytes, although no
valid text has them.  What an answer that ends inside a character should show,
`ValidTextKept` leaves open: dropping the cut character is right for JNI, passing it
on is not (`llama-bridge.cpp:731`).  llama's synchronous `nativeGenerateResponse`
(`:655`) passes its bytes to Kotlin undrained and is not in the module, nor is
Colibri's `nativeGenerateNextToken` (`colibri_jni_bridge.cpp:455`), which no Kotlin
declaration leads to.

### ModelDownload and ChunkPlan

* A file is a sequence of blocks; block `k` of the model is the number `k` and a
  hole is 0, so lost, repeated and misplaced data differ.  `Overwrite` is a
  write at an offset; a stream stays on its file through a rename or deletion
  (`out`, and `"lost"` for a part).  Output is buffered: `buf` holds what was
  read and not flushed.
* A *worker* is one run of `doWork`: length of `.tmp`, then one stream
  (206, 200, 416, another code, an error) or probe, plan, one coroutine per
  pending chunk, join, merge (copy and delete part by part), checksum, rename; a
  rename that fails over an existing file deletes that file (`RemoveOld`) and is
  tried `again`, and whatever the last one did, the run returns success.
* The *unique work* has WorkManager's states.  `DownloadModel` replaces it,
  pause and cancel cancel it, `Interrupt` (network lost, job stopped) and
  `ProcessDeath` put it back in the queue.  Stopping only raises `isStopped`.
* With one worker the stopped run is over before its successor starts.
  CoroutineWorker does not promise that: blocking calls go on.  With two
  workers it may overlap with its successor, on the same files.

Sizes.  `Total` is the model's size, `Planned` what the probe makes of the answer: the
size the server states, or, when a 206 states none, the length of the probe's own
body (1024 bytes, `ModelDownloadWorker.kt:324-325`).  `Responses` has a server that
states it (`range`), one that does not (`sizeless`) and one that sends the whole file
(`whole`).  A single stream compares what it read with no length.  When the server
announced one, the HTTP library throws (`io`); when not, a body cut short is an end
like any other (`short`), and a failing last flush goes unnoticed (`flush`).  So
without a checksum less than the model can be installed, and `unsure` remembers which
runs can do that: those nobody told the size, and those whose last flush failed.
`InstalledWhole` names exactly these as its exception; with a checksum, or when all
sizes are stated and no flush is lost (`Announced`), there is none
(`NothingElseInstalled`).  `Faults` also has other HTTP codes (`http`) and renames
that fail (`rename`).

`DownloadWork` is what the screen may rely on: the states of the unique work, the
count of its runs, whether a file is offered as the model (one of at least
`OfferedSize`, which is all the catalog looks at), and whether a stopped run is not
over yet (`lingering`).  Only a deletion, a run at its end and a run stopped too late
change what is offered.  That success puts the model there (`Install`) and that the
old one is not removed before (`Remove`) can be promised only if renames do not fail
and nothing less can be taken for the model: `Reliable`.  `ModelDownload` implements
`DownloadWork` (`WorkSpec`) with `Dependable` for `Reliable`: no `rename` fault, and a
checksum or all sizes stated.  `resume` has every fault and no checksum, so there
`Dependable` is false and the run checks the weaker contract; the theorem covers
both.  The exception `Linger` is real: `isStopped` is looked at before the checksum and
not after it, so a run paused meanwhile installs the model although its work is
cancelled.  `CatalogRows` is built from `DownloadWork`'s actions without `Reliable`: the
screen is checked against what the download was shown to do at its worst.

`ChunkPlan` is the arithmetic: the size of a range rounded up, the last range
what is left.  Its assumption excludes files of less than 50 bytes for eight
ranges, for which the code would ask for empty or negative ranges.

Abstractions.  The server's file does not change, and it states its size always or
never (`SizeAssumption`): parts are taken for complete by their length alone, so
those of a plan for 1024 bytes and of one for the true size could be mixed by a
server that does both.  Planning and one copy of the merge are atomic; progress
reports and notifications are left out.  `runAttemptCount` is counted up to the limit
beyond which it is not told apart.

### CatalogRows

* `row` is what the list shows of one model, `onDisk` whether a file of more
  than 1 MB is there, `work` the unique work.  The buttons and the system act on
  the work, and the work on the file, as `DownloadWork` says (`Download!Enqueue`,
  `Download!Cancel`, …); an import writes the same file beside it.  `told` and `post`
  are the observer: the flow reads the work when it changed and delivers later.
* A refresh job lists the disk on the IO dispatcher (`ListDisk`) and replaces
  the whole list later (`Publish`); several may be under way and finish in any
  order.  `behind` remembers that an older listing was shown after a newer one,
  or that an import failed or a rename lost the file, after which nobody refreshes.
* `Recreate` is a new ViewModel: no observer, one refresh; the work goes on, or is enqueued
  again if the process died.  An import ends with the old one, although its blocking
  copy may run on.

Abstractions.  Progress numbers, `DOWNLOADED` (a file of an unsupported format,
shown like `READY`) and the registry's own list are left out; the row's name and
file name do not change.

### SkillSync

The main thread runs a toggle in four steps (ids, map, write, show), because a
worker on the IO dispatcher may write in between; a worker reads the ids for its
list (`SyncRead`) and assigns it (`SyncWrite`).  `Collect` is the StateFlow
collector: conflated, and silent when the value equals the one it gave last.
`raced` and `returned` remember the two orders that do go wrong.
Abstractions: a skill is its id and its flag; concurrent changes inside the
`HashSet` are not modelled, nor `markInstalled` and `clear`, which only tests
call.

### AppUpdate

`state` is `_updateState`; a check or a download is a coroutine whose requests
run elsewhere and whose results are collected on the main thread, over whatever
is shown by then.  `offered` says the Update and Later buttons are on the
screen: they stay through the fade of `AnimatedContent`, so a second download
can be started over a first that has not reported yet (`overlapped`).  Two
downloads write the same `update.apk`; `writer` is the last to have created it.
`ReadyIsWhole` speaks of a download that ran alone and only once none is under way:
one started during the fade after an earlier one has ended leaves an Install button
over a file that is being rewritten.

### ChatSession

* The main thread (`mpc`, `op`) runs Stop, New chat and Send to the end, one
  statement on shared state at a time: cancel, lower the flag, forget the id,
  strip `isStreaming`, then empty the list or append the placeholder, raise the
  flag, set the id, launch.
* A generation (`job`) is a coroutine: chunks (each shown at once or withheld by
  the 30 ms throttle), the final flush, the suspension of the storage block,
  catch, and the two assignments of `finally`.  Chunks go on after a
  cancellation, because the abort comes too late (see the disagreements below).

Abstractions.  Text is counted in chunks; the speed display, error marks, trade
tickets and the model picker are left out; the end of the ViewModel is not
modelled.

## 3. Runs

Expected to pass (distinct states in parentheses):

| run | instance | shows |
|---|---|---|
| `safety` (800,856) | 2 loaders, 1 client, 3 engine objects, a GGUF and a LiteRT file | TypeOK, NoLeakedModel, HandleNeverDangles, ReadyEngineUsable, StatusHonest, refinement of ModelSlot |
| `returns` (164,064) | 2 loaders, 1 client, 1 file, fair | ReloadEnds, ChatEnds |
| `colibri` (81,655) | 2 clients, a reset, a close, context of 3, 2 tokens, fair | TypeOK, DecodesOwnPrompt, AbortStops, refinement of Conversation, MutexReturned |
| `utf8` (37,324) | all answers of up to 5 bytes, tokens of 1 to 3 | TypeOK, CutIndependent, OnlyWholeCharacters, ValidTextKept |
| `resume` (145,796) | 1 worker, 2 parts of 2 blocks, a server that sends ranges or all, every fault, no checksum, fair | PartialFilesSound, InstalledWhole, SuccessInstalls, refinement of DownloadWork, CompletePartsKept, DownloadEnds |
| `drain` (351,064) | 2 workers, 2 parts of 1 block, a server with ranges, checksum, any number of replacements, fair | StoppedRunEnds |
| `catalog` (327,742) | 1 row, 2 refresh jobs on demand, 1 retry, fair | ShownDownloadIsReal, PausedIsPaused, ReadyHasFile, ShownDownloadEnds |
| `session` (141,098) | 2 generations of at most 2 chunks, fair | TypeOK, OneLiveGeneration, QuiescentScreen, WholeAnswerShown, StreamingEnds |
| `skills` (639,936) | 2 skills, 1 built in, 1 worker, 2 refreshes, fair | TypeOK, FlagsTrue, ScreenTrue, LoadingEnds |
| `update` (53,608) | 2 downloads, a check of each kind, fair | ModalHasWork, ReadyIsWhole, ModalEnds |

Expected to find a counterexample; each states what a document or comment of the
repository says of the program, and is explained under "findings":

| run | property | the trace |
|---|---|---|
| `freed` | NoUseAfterFree | chat enters native code; a reload aborts and frees at once; the chat goes on |
| `stopped_run` | SucceededIntact | old run gets its 200 between the new run's checksum and rename |

Further disagreements between the code and what is written about it, met while
modelling, which no run repeats:

* A cancelled generation runs to its end: the handler that calls
  `nativeAbortGeneration` runs only when the blocking call has returned
  (`LlamaCppEngine.kt:212`; its test at `LlamaCppEngineTest.kt:349` expects a stop
  within one token).  `Cancel` of `EngineController` is that handler.
* `DeepEyeAgentEngine.close()` keeps its LiteRT engine (`:100`), although
  `EngineController.kt:127` speaks of releasing its address space: a reload ends
  with two models in memory.
* A process death between the last copy of a merge and the rename makes a
  complete download fail for good with 416 (`ModelDownloadWorker.kt:240`), although
  the repository's README promises seamless resumption.
* What is installed need not have been verified: without a checksum in the catalog, a
  206 that states no size makes 1024 bytes the model, and a body of unstated length
  may end early (`ModelDownloadWorker.kt:324, 265`), although
  `docs/aeos-v2027/17_ADR_REGISTRY.md:12` and the repository's README (`:59`) promise a
  SHA-256 check of every model.
* When both renames fail, the installed model is deleted and success returned
  (`ModelDownloadWorker.kt:145-153`).  The whole `.tmp` file is left, and until a
  cancellation deletes it every download asks for what lies behind its end, gets 416
  and fails for good.
* A cancelled generation's `finally` lowers its successor's `isGenerating`
  (`ChatViewModel.kt:324`): Send is shown where Stop should be.
* A Colibri session serves one conversation: every prompt is prefilled at
  position 0, which the session refuses until a reset that nothing calls
  (`colibri_jni_bridge.cpp:641`).
* The Colibri bridge hands a cut character to `NewStringUTF` (`:834`), which
  `llama-bridge.cpp:731` says would crash.
* A toggle of a skill between a `SyncWorker`'s read and its write is lost from
  the list (`SkillRegistry.kt:139`); "Showing cached skills." shows the built-in
  ones (`SkillStoreViewModel.kt:61`).
* The catalog's memory cache has no time to live, which the comments promise
  (`ModelRepository.kt:29, 43, 69`).

The inductive invariants, and with them the types of `CatalogRows`, `AppUpdate` and
`ModelDownload` and the bound of the Colibri cache, are proved (section 4) and not run again.

Bounds.  Two loaders are needed for the mutex, one client to be overtaken by a
reload; the proofs cover any number.  A second GGUF file would only add reloads
between equals.  Two parts of two blocks distinguish a complete part
from a partial one and the first from a later one; the rounding of the plan is
proved for every size.  A file is on offer from two blocks on, so that a shorter one
is installed and not offered.  With `Planned = 2` and `SizelessServer` instead, the same
properties hold (81,776 states; 22,369 with a checksum): there the probe's length
is taken for the size.  The
retry limit is 2 instead of 5, and 0 in `drain`, where nothing fails on its own:
only whether it is reached is looked at.  `drain` has no disturbance but a new
download that replaces the run (`Events`): a pause, a cancellation or an
interruption stops a run in the same way.  Two generations of a chat let a
cancelled one end at any line of its successor.  A context of three rows and
prompts of one or two leave a generation that meets the limit of tokens and one
that meets the end of the context first; two clients are one inside and one that
queues.  Five bytes hold every four-byte character, cut anywhere, with a byte
before or after it; a carry has at most three.  Two refresh jobs are enough for an
older listing to overtake a newer one; one retry for work that is enqueued again.
Two skills, one built in, give every list a flag that is right and one that is
wrong.  Two downloads of an update overlap.  The proofs cover any number in all of
these, and any size and number of parts, but one run of a model download at a time.

Deadlock is checked except in `colibri` (a closed engine rests), `utf8` (an answer
ends), `catalog`, `skills` and `update`, where users may do nothing
more.  Symmetry is used in `safety` and `stopped_run`, which check no liveness.

Fairness.  Kotlin's Mutex queues its waiters in order, hence strong fairness of
`Acquire`; Dispatchers.IO runs what is runnable, hence weak fairness of a loader
past the mutex, of a client in native code (its loop is bounded by the token
limit), and of a generation's coroutine; the main thread finishes what it began.
WorkManager runs enqueued work when its constraint holds and every request has a
time limit, hence weak fairness of `Start` and of a worker, of `Job` in
`CatalogRows` and of every request in `AppUpdate`.  std::mutex promises no order:
in `ColibriSession` only the holder of the mutex is assumed to run on.  Flows
deliver: weak fairness of the observer, of the refresh jobs and of the
collectors; strong fairness where the main thread may be busy each time, in
`SkillSync` (`Fetched`, `Collect`) and for the end of a download, which waits for
its progress, in `AppUpdate`.  Nothing is assumed of users, the system or the file
system: requests, stops, deaths and faults may happen or not, and `DownloadEnds`
and `ShownDownloadEnds` are claimed only once they no longer occur.

## 4. Proofs

`EngineControllerProofs`, from `PathAssumption` (files have a format and a size,
the default path is one of them) and `SentinelAssumption` (the sentinels are not
members).  The three safety properties of a reload are not inductive: that no
model is forgotten when `Construct` replaces `engine` depends on what `close()`
did before.  `LifecycleInv` says for each phase of the mutex holder how much of
the old engine is gone and of the new one there (`PhaseInv`), that critical
phases belong to the holder (`HeldByOwner`), and that freeable memory has a
handle except between the two halves of `close()` (`FreeableHasHandle`).
`StepCases` breaks `Next` into its actions; `ClientsLeaveLifeAlone` disposes of
the client actions at once; `LifecycleStep` goes through the others.  With it:
`NoLeakedModel`, `HandleNeverDangles`, `ReadyEngineUsable`; with one more
conjunct (no failure is announced while a load is under way) `StatusHonest`; and
`SlotRefinement`, that the controller's steps are steps of `ModelSlot`, where the
resident set is what can still be freed or is current.

`ChatSessionProofs`, from `ChatAssumption`.  `SessionInv` adds that between a
cancellation and the next launch no generation is live (`MainInv`), that a raised
flag always has a coroutine or the main thread to lower it (`FlagInv`), the same
for a streaming message (`StreamingInv`), and that at the final flush nothing is
withheld (`ShownInv`).  Each part is proved step by step in a lemma of its own.

`ColibriSessionProofs`, from `ColibriAssumption`.  That a generation decodes its own
prompt is not inductive: it needs that who is inside holds the mutex
(`HolderInv`), that there is nothing to enter before `init()` and after `close()`
(`ContextInv`) and what a row and a position mean (`CacheInv`); that at most one
token is late needs that a client about to deliver saw the flag down
(`AbortInv`).  Their conjunction is `SessionInv`; with it each step is a step of
`Conversation` (`Refinement`).

`Utf8StreamProofs`, from `StreamAssumption` (the bounds are numbers).  No theorem
about recursion is at hand that these provers can use, so the module begins with
`SetInduction`: a set of numbers that contains every number all of whose
predecessors it contains is all of them, from the well-foundedness of `<` on the
numbers.  Everything else is induction over the length of the bytes left:
that the equation of `Drained` has one solution on the sequences up to a length
(`SolutionsAgree`, `SolutionExists`) and hence holds (`DrainedEquation`); that
draining `s`, and its rest with `t`, is draining `s \o t` (`DrainedInTwo`, from
`StepOfConcat`: more bytes behind do not change what the loop does in front); that
what comes out is well-formed whatever goes in (`OutIsWellFormed`); and that text
which can be continued to whole characters is never replaced (`NothingLost`).
`IInv` says of a running answer that text and carry are what draining all of it at
once gives, and of an ended one what each bridge has done with the carry.  With it the four properties of
the run, for answers and tokens of any length.

`ModelDownloadProofs` begins with the ranges, from `PlanAssumption`: `DivBounds` and
`SizeBounds` bound the rounded quotient; `RangesFit`, `RangesDisjoint` and
`RangesCover` follow: every byte planned for is in exactly one range, for every size
and number of ranges the assumption allows.  The rest is from `PlanAssumption`, `SizeAssumption`,
`DownloadAssumption`, `NoFileAssumption` (a
missing file is not a sequence of blocks) and, in every theorem, `OneRun`: a stopped
run is over before its successor starts.  Without it `SucceededIntact` fails (run
`stopped_run`).  `Upto` and `PartUpto` are the prefixes of the model and of a range;
four lemmas say what `Overwrite` makes of them.  That files are prefixes is not
inductive: `RunInv` adds where each run stands in its file (`SingleInv`, `JoinInv`,
`MergeInv`, with the ranges of `ChunkPlan` adjoining each other), that its output
leads elsewhere only when it was stopped (`OutInv`), and that one that was not stopped
has the whole model before it installs anything, unless it is `unsure` and there is no
checksum (`EndInv`).  With it: `TypeOK`, `PartialFilesSound`, `InstalledWhole`,
`SuccessInstalls` and `CompletePartsKept`, for every size, number of ranges, fault and
disturbance and every server `SizeAssumption` allows; and `NothingElseInstalled`, with
the hypothesis `Checksummed \/ Announced`, for failing renames too.  `WorkRefinement`: each
step of a download is a step of `DownloadWork` or invisible.  It needs `WorkInv`
besides: the work runs if and only if a run is under way that was not stopped.  Four
kinds of steps are visible: the buttons' and the system's (`DisturbanceWork`), a
start, a return without success (`SettleWork`, `ReturnWork`) and the renames
(`RemoveOldWork`, `RenameWork`); the rest happens inside a run (`InnerWork`).

`CatalogRowsProofs`, from `CatalogAssumption`, over the actions of `DownloadWork`.  `RowInv` adds that what the
observer has read of an end is true and that a paused row has none (`WatchInv`),
and that once every job has looked at the disk the newest listing does not offer
a file that is gone (`NewestInv`): that listing, or the row itself, is what
`ReadyHasFile` speaks of when the last job is through.

`SkillSyncProofs`, from `SkillAssumption`.  `SyncInv` adds that what the main thread
or a worker is about to write has the flags of the moment, unless it was read
before a toggle (`WriteInv`).

`AppUpdateProofs`, from `UpdateAssumption`.  `UpdateInv` adds that a download that
was not started over another is alone and the writer of the file (`LoneInv`).

Only model-checked: the liveness properties (TLAPS 1.4.5 does not do fairness or
ENABLED).  Every invariant and action property of a passing run is proved.

## 5. Order of work, and what could follow

The modules were written in the order of section 2: first the controller with its
engines, then the download, the chat screen, the Colibri session, the pure
algorithms (`Utf8Stream`, `ChunkPlan`), and the screens around them.  What could
follow: `ChatFormatter`'s
sliding window over a history; a server whose file changes between two runs.

## Not modelled

* Vendored llama.cpp and colibri: nearly all lines of the repository.  They are
  built, not written, here; only what the bridges rely on is in the models.
* The registry's list and the two tiers of the catalog repository: sequential
  assignments; `CatalogRows` takes any catalog they may return.
* Prompt lab, audio, image and benchmark screens: clients of the controller,
  which `EngineController` has; their own flags repeat `ChatSession`'s pattern.
* The policy audit log: an in-memory deque of two lines (hazards).
* Compose layout, formatting, notifications, pure look-ups (access control,
  hardware fit, chat templates' wording), cryptography, agents and helpers
  without shared state, and the Rust core, a simulation behind one mutex.
