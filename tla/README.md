# sphanorama: a verification development

sphanorama captures a sphere of photographs on a phone and makes a panorama of it on the device. A
C++ core (managers, engines, resource access, utilities) is compiled to WebAssembly and runs in a
worker; a TypeScript shell owns the camera, the sensors, the files and the page. Almost everything
that can go wrong in it goes wrong *between* two correct calls: a worker killed between two file
writes, a spill refused for want of quota and tried again, a document flushed after the pixels it
names were replaced, a new capture begun under a build that is half done.

This directory models the parts that keep state across such moments, checks them with TLC on small
instances and proves the central ones with TLAPS for every instance. `PROJECT.json` lists the
components, the runs, the line of source behind every definition, the hazards and the theorems.
Paths below are relative to the repository (`src/` in `PROJECT.json`).

## 1. Inventory

### Parts that keep state

| part | state | operations | talks to |
|---|---|---|---|
| **frame store** `core/src/resource_access/frame_store_access` | a map of frames (bytes, tier, pins, hash, flags about the sink's copy), two byte totals, an identity counter | Allocate, Pin, Release, Demote, Adopt, Clear, Forget, ContentHash, TierGeneration | spill sink (below); managers and engines (above) |
| **spill sink / spill host** `spill_sink.h`, `shell/src/access/spill-host.ts` | slots, holes, high-water mark, token; two files that outlive the worker | write, read, drop, clear, recovery | browser files (OPFS) |
| **capture session manager** `core/src/managers/capture_session_manager` | the session, candidates of each cell, a burst, identity counters, the dwell, camera locks | Begin, Resume, OnMotion (advances a burst), OfferFrame, RequestRetake, CandidatePreview, End | frame store, project store, pose and quality engines, camera |
| **project manager** `core/src/managers/project_manager` | none of its own; documents of the project store | Create, Delete, List, SetSelection, GetSelection | project store |
| **panorama build manager** `core/src/managers/panorama_build_manager` | one build: what it read, made, drew, and left out of place | Start, Poll (one step), Panorama, PanoramaPreview, Cancel | frame store, registration and composition engines, project store |
| **document host** `shell/src/access/document-host.ts`, `indexeddb-store.ts` | documents in memory, a queue of work, a timer, a chain of persists | read, write, remove, flush, status; onLost | IndexedDB |
| **tier claim** `shell/src/bridge/tier-claim.ts` | which tab holds the tier, successor, timers | claim, hand over, take, skip, resume | other tabs (BroadcastChannel, Web Locks) |
| **worker / remote core** `shell/src/bridge/worker.ts`, `remote-core.ts` | outstanding calls by sequence number, life of the worker | call, boot, flush, die | the core |
| **camera path** `shell/src/access/camera.ts`, `capture-host.ts`, `clients/capture/lock-writes.ts`, `browser_camera_access.cpp` | what was asked of the track and what it confirmed | open, setLocks, push frame | browser track |
| **motion path** `shell/src/access/motion.ts`, `capture-host.ts`, `browser_motion_sensor_access.cpp`, `orientation_pose_engine.cpp` | two bounded buffers; the session's estimate of where the phone points | push, drain, reset; Initial, Integrate | browser sensors |
| **page clients** `shell/src/clients`, `main.ts` | the loop, an arm in flight, the question a coverage refresh has outstanding | tick, arm, resume, build, paint | all of the above through the remote core |

Without state across calls, and modelled as functions whose answers somebody relies on: the coverage
planner, the session document's validation, the generated codec and dispatch. The rest (quality,
preview, and the numeric parts of registration and composition) are functions of doubles.
`PROJECT.json` lists each part with what is modelled of it, or why it is not.

### How they interact

* The shell calls the core through one worker, one call at a time, each run to its end: a manager's
  method is atomic *for other callers of the core* and is one action here. The process can still die
  between any two, and what the core wrote to the document host is only in memory when it returns.
* Pixels go down through the frame store into the sink and its two files at once; the documents that
  name them go down later, by a timer. The token ("generation") of the tier ties the two together: a
  document is believed only if its token is the tier's.
* Engines pin frames, which faults them into the heap; whoever lent a frame has to put it back.
* The capture and the build share one frame store and know nothing of each other.
* Identities (frames, candidates) restart in every process and are stepped past what a document names.

### What is hard, and what makes each part correct

| part | hard behaviour | correct when |
|---|---|---|
| frame store | skipped writes, refused writes and clears, nested pins, a ceiling, adoption after a crash | no frame's content changes or is lost but by its writer; totals are exact; a skipped write relies on a copy that is there; identities are issued once |
| spill host | death between two file operations; short writes; an index behind the frames file | no two frames share a byte; no identity resolves to another's pixels; the token tells whether the copies are those of that capture |
| capture session | late documents, crash at any point, two projects over one tier, refused rollbacks, a burst that fails | a candidate shows its own exposure; a pick never moves to another; the document and the session agree; nothing leaks; a burst ends |
| document host | failed persists, work put back under newer work, several flushes, loss of the database | disk plus queued work is what memory says; a flush's answer is true; every flush returns; the page is told what is not on disk |
| panorama build | a store that may decline any call, another holder's pins, a store emptied under a build | everything borrowed goes back, everything made is given up, nothing is stranded, a finished build stands |
| projects over several tabs | each tab reads what it loaded, writes late, takes over another's tier | what the page offers can be taken up; what is written can be read; no capture is emptied unseen |
| aiming | stalls between ticks, arms a round trip old, a camera slower than the ticks | dwells are earned; frames are a burst's own; done means covered; bursts end; a held cell is offered |
| camera path | two directions that do not wait for each other, late and refused lock writes, a worker that dies | a locked burst stays locked; locks come back; no camera is revived; every call is answered |
| pose | silent, late, dropped samples; a page that turns under the phone | what is reported as measured is where the phone was |
| planner | questions asked at samples of a continuum | complete plans and filled gaps leave nothing unseen |
| facade | payloads cut short, lengths that lie | a call runs with what was written or not at all; nothing is read past the end |

## 2. The modules

```
SpillSink  <- implements -  SpillHost            the tier:      promise and browser implementation
FrameArchive <- implements - FrameStore          the store:     promise and implementation
CaptureSession                                   session + store + tier + documents + crash
PanoramaBuild                                    build + engines' borrowing + store + capture
DocumentHost                                     write-behind documents of one worker
Projects                                         tabs + documents + database + tier, the listing
CoveragePlanner <- Sweep                         what plans and gaps promise
                <- Aiming                        guidance, dwell, arm, burst against a camera's rate
CameraPath                                       page + lock chain + worker + host state + track
PoseTracking                                     sensors + buffer + the pose engine's fold
Contracts <- Facade                              payloads of every call, and the call itself
MC<Module>                                       instances for TLC (MCFrameTiers: FrameStore, SpillHost;
                                                 MCAlgorithms: Sweep, Facade, PoseTracking)
<Module>Proofs                                   theorems and their proofs, for TLAPS (section 4)
AlgorithmsProofs                                 those of CoveragePlanner, Sweep, Aiming, Facade, PoseTracking
```

Definitions named as "Fault: ..." in a comment are deliberately broken versions of the definition that
follows; the specification never uses them. Each property is checked to be violated when the
definition is replaced by its broken version (`PROJECT.json` "mutants").

### FrameStore, FrameArchive

`FrameStore` is `MemoryFrameStoreAccess`. `entries` is the map (an absent key is residency `"Gone"`),
`heapUsed`, `spilled` and `nextId` are the fields of that name, `sink` is what the sink holds. One
action per call that changes something; `Demote` is split by target and outcome (`DemoteToHeap`,
`PutBack` when the write is skipped, `Spill`, `SpillRefused`). A refused write may have destroyed the
sink's earlier copy; a refused clear may have given some copies up; `Restart` ends the process and
keeps any subset of the copies. `Fill` is the holder of a pin writing through its span. Taken for
granted: the 64-bit content hash does not collide (an assumption on the constant `HashOf`).

`FrameArchive` is the promise with the tiers' bookkeeping removed: every frame has one content, only
its writer changes it, a frame in the heap is never lost, and a frame whose copy was given up reads as
lost rather than as other pixels. `KeepsEveryFrame` says that `FrameStore` implements it.

### SpillHost, SpillSink

`SpillHost` is the allocator of `spill-host.ts`: exact-length holes used last in first out, a
high-water mark, and an index file rewritten after each change. One action per *file* operation, so
the worker can die (`Reload`) between any two. A byte of the file holds the tag of the frame and
capture whose byte it is, which is what the properties read. The constant `StaleIndex` says what a
refused index write can leave behind: with `FALSE`, nothing that parses (the truncate went through and
the write ran short, the case of an exhausted quota); with `TRUE`, the earlier index whole (the
truncate itself threw). See the findings. Opening the tier (lock, handover, sweep) is not here.
`Holes` are numbered by their place in their stack, so that a hole listed twice is seen.

`SpillSink` is `ISpillSink` as a specification: copies under identities, and a token that is the old
one only if every copy of that capture is still there. `TokenTellsTheTruth` says the host implements it.

### CaptureSession

`CaptureSessionManager` composed with a frame store (tiers `heap` and `cold` only, no sizes or
hashes), the tier with its token, and the documents of the project store with what of them is
`durable`. One action per call of the manager, whole: checkpoint, cooling, trimming and rollback are
inside it. `Flush` makes documents durable, `Crash` ends the process with an arbitrary part unflushed
and perhaps the tier lost under a new token. Dying inside a call is the same as dying after it without
a flush, since a call touches only memory and the tier. Each exposure has a number, `shot`, that the
code does not have: it is what tells a frame's own pixels from somebody else's.

A checkpoint may write nothing (`Checkpoint`): the code returns when `TierGeneration` is refused and
ignores a refused `WriteDocument`, and the earlier document stays. The properties hold through this, and
say what it costs. `DocumentInStep` is exact once a checkpoint has landed (`behind` is false); until
then the document is an earlier one, which may lack candidates or name some since let go of, but never
gives the identity or the frame of a candidate to another. `NothingLeaks` excepts what a session kept and
could not write down by its end (`stranded`), which nobody names until the store is cleared.
`PickNeverMoves` excepts a resume that stepped its counter past a pick and whose checkpoint wrote
nothing (`unstepped`). ADR 0070 has the stepped counter written down at once; where it is not, the pick can
be moved and the session ended, the next resume issues the picked identity again from the old counter, and
a process that finds the new document with the earlier pick, still durable, shows another frame for it. It
takes two deaths and three exposures in bursts of one, past this run's bounds. All three are cases of the
contract: in the browser a document write is refused only without a document host
(`browser_project_store_access.cpp`) and a generation only by a half-updated page
(`opfs_spill_sink.cpp`). `Projects`, which is about what the browser's tabs write, therefore lets every
checkpoint reach the document host.

Abstractions: every frame-quality ranking is possible (a trim may keep any candidates); a burst's tick
may at any time be due, fail, or be off the cell; guidance, dwell and burst timing are `Aiming`'s,
the camera's locks `CameraPath`'s; that a refused clear makes the store stop trusting the sink's copies is in FrameStore only.
`Begin` always takes a new token. `SetSelection` of the project manager is included because a pick
outlives captures.

### PanoramaBuild

`PanoramaBuildManager` with what the engines do to the store on its behalf, over a store that may
decline any of `ResidencyOf`, `Release`, `Demote` and `Forget` (`Refuses`), as the contract allows and
the repository's tests arrange. A call of the manager makes a dozen calls of the store; each helper
(`PutBack`, `Discard`, `ForgetFeatures`, `GiveBack`...) gives the set of outcomes those can come to,
in the order the code tries them, and an action picks one. What a build finds around it (how many
frames and captures, how many pins others may hold, what the store may decline) is a `situation`
chosen at the start. Beside it: the capture cooling, warming and
discarding its frames, a holder pinning them, and a new capture emptying the store between two polls.
`home` (the tier somebody else last left a frame in) and `held` (the pins somebody else has) are for
the properties only. Frames are read and pairs estimated in any order; the solve is taken to place
every frame; which cells pair is arbitrary. `Start`'s checks of the document are left out (a refused
Start changes nothing), as is an engine's rollback of an answer it did not finish: its destructor
ignores a refusal and nobody hears of it.

### DocumentHost

`document-host.ts` over IndexedDB, one action per turn of the event loop. JavaScript runs each turn to
its end and microtasks before the next task, which is the guard `Idle`: tasks (a write, the timer, an
answer of the store) start only when nothing is due, and a waiting flush resumes before the next
persist begins. A value is the number of the write that made it. A persist takes the queue as a
`snapshot`, and the store takes or refuses its removals and writes one at a time; the code sends the
removals out together and then the writes, so their order is left open. Losing the database empties the disk and
fails everything after. Several tabs on one database, and `issueProjectId`, are in `Projects`.

### Projects

`ProjectManager`, the session document, the document host and the tier as two tabs of one origin meet
in them. A tab takes a tier first and loads the documents then (`MayLoad`); it reads what it loaded
and wrote; a persist puts its documents one after another, each of which may be refused; a killed tab
loses what was not put. A session document is a record of what its validation tells apart: version,
token, spec, cells, and the cells its candidates are filed under. `Begin` writes what it accepted
(`Beginnable`), `Resume` reads it back (`Resumable`), `List` and the page decide in between
(`InAnotherTier`, `ResumableProject`). A queue of work is a set of numbered entries (`Entry`): a key
has one, `Queued` puts a newer write behind the rest, `First` is the next to be put. That one tab at a time holds the resident tier is the browser's
Web Lock and assumed; how long tabs wait for each other (`FRESH_MS`, `HANDOVER_MS`) is left out, since
a wait that is too short only gives a tab a tier of its own.

### CoveragePlanner, Sweep, Aiming

`CoveragePlanner` is the rings planner on a circle of directions. The code asks its questions at
samples, with margins for what lies between; the model keeps *both* the samples and what lies between
(`Grain`), so `Sweep` can say what the margins are for: a plan called complete, whose frames are aimed
anywhere in their cones, sees everything, and a build that filled every gap it was told of does too.
Caps, elevation and roll are left out, so what the code does at the poles is not covered. A lens
wider than half a turn is refused, as the code refuses a field of view past 180 degrees.

`Aiming` is the capture loop over such a plan: `OnMotion`'s ticks bring any of `Lapses` of time, with or
without samples, and the phone wherever it was turned; `Guide` picks the cell, dwells, and offers; the
page arms a round trip later, from an offer that may be stale, or is refused; the burst is paced by
its interval, the settle after the locks, and the camera's own rate, which the session may not know.
`held` (what the ticks of a dwell that had samples may vouch for, and its time) and `repeated` are for
the properties only. The plan is the one the planner lays (`PlannedAssumption`). `OfferFrame`, which can
also complete a cell, is not here: the page never calls it, and a frame offered by anyone else may be
aimed anywhere, so `DoneMeansCovered` is about cells that bursts filled.

### CameraPath

The page owns the track, the core reads a copy of what the page pushed to the worker, and the two
queues (`toCore`, `toPage`) are first in first out and do not wait for each other. Actions are the
turns of the page (arm, push of what the camera confirmed, the tick loop with its count of unreached
calls, what a posted release or close does), of the chain of lock writes (`createLockWriteChain`, with
its time-out), of the worker's message handlers and calls, and of the track. The worker may die at any
time. A burst is only its locks and its end.

The track settles a write late (`Settles`, `TimesOut`) or never (`Sticks`); it takes a lock or does not,
and gives one back or keeps it (`Leaves`), since `setLocks` swallows a refused constraint either way; it
ends. A write that is stuck parks the chain behind it for the life of the tab, over any later track
(`TrackAfter`): its own caller is given up by the clock, which starts when a write reaches the track, but
a write that joins behind it never does (`Parked`). `stuck` and `kept` are what the properties except: a
track that kept a lock is not said to give it back, and an arm behind a parked chain is not said to
end. That it should is `ArmsEnd`, which the code's comment claims and finding 4 refutes.

### PoseTracking

`OrientationPoseEngine::Integrate` sample by sample, with every branch but the tilt's: carried into
the sample's frame, taken whole, fused, reckoned, or left alone, and the clock. Angles are about one axis and sensors are exact, so that
`confidence` 1 can be held against where the phone was; a blend of a reading with a prediction that
differs from it is `Off`, whatever the gains. The phone turns at its sampled rate except in a stall
longer than `LongestPrediction`, in which it does anything; attitudes come in the order they were
taken, as the adapter pushes them (a late attitude is taken whole by design), rates may come late.

### Contracts, Facade

`Contracts` is the layout of every call of the facade, field by field, from `codec.h`
and the generated dispatch. `Facade` is one call: the page writes it, the core reads it field by field
behind one latch, runs or refuses, answers, and the page reads status and value. A payload may arrive
cut short, carry a double no integer fits, or a length that lies; `size_t` wraps at `SizeRange`.

## 3. The runs

| run | question | setting | bounds, and why they are enough |
|---|---|---|---|
| `frame_tiers` | do totals, hashes, identities, pins and content survive refusals and restarts; does the allocator keep bytes apart and tell the truth through crashes? | the two sides of the sink, each by itself over whatever the other may answer: refused writes and clears, restarts, adoption, the refinement of FrameArchive; refused index writes that leave no index, the refinement of SpillSink | store: 2 identities, sizes 1 and 2 under a ceiling of 3, so that both frames fit only when one is small; 2 pictures; 2 nested pins. Frames interact only through the totals, the ceiling and the counter, which two frames exercise. Host: 2 frames of lengths 1 and 2 in 3 bytes: holes of both lengths, reuse, growth, short writes; 3 tokens, so that two captures precede the one looked at |
| `spill_host_stale` | the host with an index left whole | **violation**, a finding | as above |
| `capture_session` | do pixels, identities, picks, document and session stay right through crashes and other projects? | 2 projects over one tier, a crash with anything unflushed, any checkpoint writing nothing | 2 cells of at most 1 candidate and bursts of 2 frames (so that one is always trimmed), 3 exposures, 3 tokens, 2 crashes, 1 caller's frame, 1 held frame: enough for a capture, a second project's over the same identities, a crash, and a resume of either |
| `document_host` | is anything forgotten, is a flush's answer true, do flushes return? | `FairSpec`; steps refused at any point, a lost database, a worker that dies | 1 project with 2 keys (projects meet only in the queue; a removal must race writes of its own documents), 2 flushes, 3 writes: one in the running snapshot, one queued, one after a put-back |
| `panorama_build` | does one willing Cancel restore the store after any refusals? are others' pins and a new capture respected? | two frames where every call may be refused; one frame with a holder and a new capture where `ResidencyOf` may not | 2 cells, so one pair, four feature frames and a preview; 2 pins, which the extraction and one pair's estimate can leave on one feature frame; 1 holder's pin, 2 captures. Capture frames are put back independently of each other, so one is enough for a holder |
| `panorama_owed` | the same when `ResidencyOf` may be refused | **violation**, a finding | as above |
| `aiming` | are dwells earned, exposures own, spheres covered; do bursts end, is a held cell offered? | `FairSpec`; arms refused or stale, ticks that fail | a ring of 16 directions with 3 cells, the phone at the edge of one's cone or in the middle of another, or lost; lapses that a tick may vouch for whole and longer ones; a dwell of 3 at a credit of 1, so that it takes three ticks; cameras faster and slower than the ticks; bursts of 2 |
| `projects` | can the page believe its listing, and is nothing emptied unseen? | kills, refused puts, deletions | 2 tabs, 2 projects, 3 tokens, 2 kills, 1 refused put, 1 deletion, 3 writes: a capture, one of another project over it, and a tab that takes over between its puts |
| `projects_titled` | has every listed project a title? | no deletion; **violation**, a finding | as above |
| `camera_path` | do locks hold and come back, is every call answered? | `Spec` with fairness; lock writes and releases refused, late or never settled, failed calls, a lost track, a dying worker | 3 arms and 2 openings (an earlier burst's release, the burst, and a second tap), 3 faults, bursts of 2, the code's own limit of 3 unreached ticks |
| `arms_end` | does an arm end although the track never settles a write? | **violation**, a finding | 2 arms, 1 opening, 1 fault: the stuck write |
| `algorithms` | do plans and gaps see everything; do calls arrive as written; is a measured aim honest? | three parts side by side that share nothing; each starts in a state where the others have nothing to do | rings of 16 directions asked at every second, lenses of 3 to 5, cones of 1 and 2, no overlap and 3 tenths: plans of 3 to 6 cells, some refused, the lens wider than half a turn among them. Lists and strings of up to 2; sizes wrap at 1024, where 25 and 128 elements' bytes pass it, and -1, 0 and 1 do not. 4 instants, a buffer of 2 drained 2 at a time, gaps of 2 past a prediction of 1, 2 page angles |

Every property is one that several steps, mostly of different actors, have to conspire to break; each
is stated with a comment at its definition, and the hazards of `PROJECT.json` say which of them it
guards. Deadlock is checked where the system never stops (`FrameTiers`,
`SpillHostStale`, `DocumentHost`); it is not for the others, whose bounds let everything have been done.

### Fairness

* `DocumentHost`: the event loop runs what is due and IndexedDB answers every request it was given.
  Writing is bounded, so `FlushesReturn` is a statement about the time once writing stops; the code
  gives up after one failed round rather than loop, and that is what it needs. Nothing retries a
  failed persist by itself, so `DurableOrTold` ends in *or the page is told*.
* `Aiming`: weak fairness of a tick that completes with a sample, because the page's render loop calls
  `OnMotion` every frame while a capture is on the screen, and sensors report while they are on.
  Nothing is assumed of the user: `HeldIsOffered` speaks of a phone that *is* held.
* `CameraPath`: the page runs its loop (`Step`) and hears its messages, the worker runs what it was
  sent, the track settles a lock write that is not stuck, and the clock of one that is goes off (weak
  fairness); nothing makes a track settle a write it is stuck in. A burst's ticks are due again and again
  and one of them takes a frame (strong fairness of `Advances`: a tick is only
  due between two that are not). Death, refusals and faults are never assumed nor excluded.
  `LocksComeBack` excepts what the code leaves open: a burst stranded in a core that has died, or under
  a loop that has stopped after three unreached ticks, keeps its locks until the page is left, and so
  does a track that refused the release or never settles a write. `CallsAnswered` excepts an arm whose
  write joined a parked chain.

### Findings

1. **A refused index write can show another frame's pixels** (`spill_host_stale`). `persist()` ignores
   a failed index write, on the ground that it costs the next one's resume. When `index.truncate`
   throws, the earlier index stays whole while the slots it names are reused. In the run a write of a
   frame falls short and frees its slot, the one persist after it is refused, a second frame takes the
   slot, and a worker that dies before that frame's persist leaves an index under the same token in
   which the first frame still has it: it answers with the second frame's pixels.
2. **A retry can release a pin that is not the build's** (`panorama_owed`). `PutBack` returns before
   it knows whether the engine left a pin if the store cannot say where the frame is; the frame is
   kept as owing one, and the next `Cancel` or `Start` releases whatever pin it finds. The contract
   promises that a retry leaves alone what something else has pinned. It takes a store whose
   `ResidencyOf` can fail and a holder of pins, which the tree does not have today.
3. **A refused put can leave a project without its title** (`projects_titled`). A failed persist puts
   its work back *behind* what was written since, so a new project's title goes behind the session
   document of the capture begun meanwhile. A tab that loads between the next persist's two puts, or
   after the worker died there, lists a project that `Create` takes care never to make.
4. **An arm behind a stuck lock write never ends** (`arms_end`). The bound on a lock write is there so
   that a camera which never settles one does not keep every later arm from the track
   (`lock-writes.ts:35-39`). It frees the caller whose write is stuck; the chain stays parked behind that
   write, as it must for the order of releases, and a write behind it has no clock, since that starts when
   a write reaches the track. The next arm waits for ever, and with it every later one of the tab.

## 4. The proofs

Eight modules hold proofs, `<Module>Proofs`. Each theorem is about the specification
TLC runs (`MCAlgorithms` runs three of them side by side), for every value of the constants its assumptions allow, and every invariant that a
passing run checks is the subject of one. The inductive invariants were checked by TLC on the small
instances before they were proved, but for the facade's, which ask whether there is a function (how
many bytes are owed, where each field lies) that TLC would have to search for. `PROJECT.json` lists the theorems with the
property each states. In every module the shape is the same: an invariant `...IInv`, a lemma that
`Init` gives it, lemmas per action (or per shape of action) that a step keeps it, and theorems that
follow from it.

### Assumptions

Named in the module that declares the constants, and evaluated by TLC: numbers are numbers, bounds
bound (`FrameStoreAssumption`, `SpillHostAssumption`, `FacadeAssumption`, `PoseAssumption`...); a marker for
"nothing" is none of the things it is not (`MarkersAssumption`, and the last conjunct of
`PlannerAssumption`: neither "no plan" nor "no gaps" is a set of cells); a content hash does not
collide. Four say something about the code:

* `PlannerAssumption` has `Grain <= 2 * Margin` and `Grain <= 2 * Between`: the planner's margins, for
  the lens it plans by and for the gaps it judges, cover what lies between two samples, which is what
  the code derives them from.
* `SweepAssumption`: lenses and cones are sizes, and an overlap is less than all of a frame, as the
  planner's own checks of its spec have it.
* `PlannedAssumption`: the cells of a session are what the planner lays for its spec.
* `OwnPixelsOnly` and `ImplementsSink` assume `StaleIndex = FALSE`; with `TRUE` they are false, which
  is finding 1.

### Frame store

`IInv == TypeOK /\ BudgetExact /\ CopyVouchedFor /\ HashHonest /\ IdentitiesFresh` is inductive, one
lemma per action, hence `TypeCorrect`, `BudgetCorrect`, `SkippedWriteSound`, `HashesCorrect`,
`IdentitiesCorrect`. The conjuncts need one another: a skipped put-back leaves the totals exact only if
entries have the shape `TypeOK` gives them, and keeps `HashHonest` only through `CopyVouchedFor`.
`PinsCorrect`, the action property that no call takes a pinned frame's bytes away, follows from it too.

The totals are sums over the map, and the specification states them without a recursion: a *running
tally* over the identities exists that ends in the total (`AddsUpTo`). `TallyUpdate` shows that changing one frame's weight changes the total by the
difference; `OneEntry` packages what every action that changes one entry has to show.

`ImplementsArchive`: the initial state maps to the archive's, and every call to one of the archive's
steps or to a stutter. It is `CopyVouchedFor` that makes a skipped write a stutter.

### Spill host

* `OneHand`: no byte is in two hands. The invariant says it of offsets and lengths (`Sound`), of the map
  in memory *and* of the one in the index, since a reload takes the latter up.
* `OwnPixelsOnly`: no identity resolves to another's pixels. The invariant says that every byte of
  every slot is the frame's own, in memory and in what a reload would read, and how far the index
  lags: it is whole, or the empty one of the next capture, or behind in the one frame the running call
  is about (`UpToDate`). A stale index is exactly what breaks the last of these.
* `ImplementsSink`: every file operation is a step or a stutter of `SpillSink`.

### Capture session

`IInv` gives `EachShowsItsOwn`, `IssuedOnce`, `WrittenAsItIs` and `NothingIsLeft`. None is inductive
alone. Where a checkpoint wrote nothing, `IInv` says of the earlier document what it still owes the
session (`DocumentInStep`, `Counted`). A document read back after a crash was written earlier, so `IInv` says of what is *durable*
what the properties say of memory, and how the one lags: one project at most has a document of the
tier's token, in memory or durable (`OneCapture`); the durable one names candidates the other names,
or whose identities the counter is past; what a document names is counted by its own counter
(`Counted`). Every call of a session is shown to be one shape of step (`SessionStep`: what it made,
wrote, left, and stored), and the shape is shown to keep the invariant once.

`PicksHold` needs more (`PickIInv`): no identity a pick names, in memory or durable, is to be issued
again, whichever of the documents the next process finds; and an identity is of one candidate across
them.

### Document host

* `NothingLost`: what is on disk, what the running persist has left and the queue, applied in that
  order, are what memory says. It is not inductive by itself, and `IInv` adds: `Behind` (the disk is
  the snapshot half applied: putting the whole snapshot back over it, after a failure, gives the same
  as what was left), `Apart` (no flush resumes while a persist runs), `Told` (after a persist that did
  not go through, the page is being told) and `Cared` (queued work has a timer, a persist or a flush to
  take it). The algebra of applying work over work is settled document by document in `Pointwise`.
* `FlushCorrect`: a flush that answers while nothing is failing has all of memory on disk.
* `NothingSilent`: what is not on disk is scheduled, running, awaited, or shown as failing.

### Projects

* `TakenUpAgain`: what a session writes travels through a tab's memory, its queue and its persist to
  the database and into another tab, so the invariant types every one of these places by the set of
  documents a resume accepts (`Written`).
* `OffersStand`: from the same, and from what `ResumableProject` chooses.
* `NothingStaysHidden`: `KnownIInv` adds that a tab beside the holder of the tier is writing nothing
  that says a capture is in it (`Theirs`), and that the holder knows, or has deleted, every capture that is
  on disk *or on its way there* (`Mine`).

### Camera path

A queue is described by what is among it and what is behind what, and an action by what it takes off
one queue and puts on the other.

* `NoCameraBack`: one opening is announced at a time, together with the call to begin; until that is
  answered nothing can be closed, and nothing is closed behind a refusal (`Openings`).
* `LocksHold`: the page is busy until it hears that a burst is over and its locks are asked back
  (`Occupied`), one tick and one arm are out at a time, only the last write of the lock chain is
  awaited, and so a locked burst has the track and the chain to itself (`Undisturbed`).

### The algorithms

`AlgorithmsProofs` holds the theorems of five modules, in this order.

**Recursion.** The planner's choice of targets, a sum, the flattening of a payload and its bytes are
defined by the community modules' folds or by a recursive function, which is a `CHOOSE` of a function that satisfies its
own equation. Nothing follows from it until such a function is known to *exist*, and the library's
theorems that say so take an operator, which no prover here can instantiate. Three lemmas stand in
for them. `InductiveSet` is induction over the numbers stated of a *set*, from the library's
first-order facts that numbers are well founded; `RecursionOnNumbers` and `RecursionOnSubsets` say that
a recursion along the numbers, or one that always goes on with a smaller subset of a finite set, has a
function that computes it, its steps being given as a *function* rather than an operator.

**Planner.** `PlanSeesAll`: a plan sees every direction from anywhere in its cones, on a circle of any
size. It is the geometry of the planner's margins: every direction is near a sample, the sample is inside
a cell's lens by the margin, and the margin covers the way to the sample.

**Aiming.**

* `DwellsAreEarned`: until a dwell is full, the time since its mark plus what it counts is no more
  than its time.
* `FramesAreOwnExposures`: until the camera has made a frame the burst has not seen, the wait left
  takes it past the end of the camera's period.
* `SphereDoneIsCovered`: what was taken of a cell was aimed in its cone, and `PlanSeesAll`.

**Sweep.** `SweepsSeeEverything` is both halves of what a build may rely on: a capture with a frame for
every cell sees everything, and a build whose gaps were all filled does, whatever it had placed and
however narrow its lens turned out. The second half is not local: a gap is one target for many
directions. `TargetsReach` shows, by induction over the directions still open, that the code's greedy
choice puts a target within reach of each of them, and that a target is itself near the direction it
was chosen for (`MiddleIsNear`: the mean of offsets that are all small is small). `SweepIInv` then
says that what was asked is seen by something placed or near a gap that is left, and filling a gap
trades the one for the other.

**Facade.** `RoomAlwaysBacked` and `CallsAreDelivered`, for every call of the contract, every length and
every claim.

* A list's count is taken only if the payload could hold as many elements of the bytes the list was
  declared with. That they take at least those is a fact about each of the contract's lists
  (`ElementsTakeAByte`, `CallsAreContracts`): a declared size larger than an element can be would break
  `CallsAreDelivered`, for the reader would refuse an honest list.
* `RoomIInv` says that what was reserved is *backed*: what is left to read begins with elements that
  still take the bytes between the reader and what it reserved. So reserved room never exceeds the
  payload even before it is read.
* `DeliveredIInv` adds where the reader stands. `Spells` says which numbers of a payload spell which
  fields; `EncodeSays` that a payload spells what it was encoded from; and `Follows`, the invariant,
  that a reader over a payload that does not lie has misread nothing, stands where the fields it has
  left are spelled, and fails only if something is wrong: with a cut payload, because the bytes run out before
  the fields do, and with a double that fits nothing, because that number is still ahead. A payload read
  to its end was therefore whole, which is what both sides conclude from one latch (`Answered`).

**Pose.** `FullConfidenceIsHonest`. The estimate is honest (`Honest`) because it was taken from an
attitude, or reckoned from one at a rate for no longer than is predicted. `PoseIInv` says what that
needs: the phone went on as it was sampled to for as long as the engine predicts (`Course`), what
waits in the buffer is what was sampled (`Truthful`), and attitudes are in order, behind each other
*and behind the rates that came late* (`Ordered`), which survives the buffer's dropping its oldest and
the drain's taking a part.

### Panorama build

`BuildIInv` says who answers for each frame in the store: the capture, or the build that made it
(`Accounts`); that with no holder about, a frame is where it was left or written down with what it
takes to put it there (`Placed`); that with one, where the store can say where a frame is, a pin owed
is one beside the holder's (`Keeps`); and what of this each stage of a build has behind it (`Phase`). An action is a set of
outcomes, so each helper has a lemma about every outcome it may come to, whichever calls are declined
(`PutBackIs`, `DiscardAllIs`, `ForgetFeaturesIs`, `GiveBackIs`...), each step of a poll one about what
it leaves whether it is answered for or not (`Step`), and what the rest of the app does to a frame is
one shape (`Untroubled`).

* `AlwaysRecoverable`: `GiveBackIs` for a store that declines nothing ends with nothing held, and a
  store in order without a build is as the capture left it.
* `ReadAndPutBack`, `FinishedBuildStands`: read off `Placed` and `Phase`.
* `HoldersKeep`: no holder's pin is ever released, *if the store can say where a frame is* or nobody
  holds any. The hypothesis is about the run and is needed: finding 2 is what happens without it. It
  is why `MayOwe`, what `Lent` writes down before an engine reads, is weaker than `Keeps`: a pin is
  noted as owed before there is one, and `PutBack` corrects it only by asking.

### What is only model-checked

Liveness (`FlushesReturn`, `DurableOrTold`, `BurstEnds`, `HeldIsOffered`, `LocksComeBack`,
`CallsAnswered`) and anything about ENABLED, which are out of the prover's reach. The four
disagreements of the findings are violations, and stay TLC's. Every invariant and every action property of
a passing run is a theorem.

What is proved is about the models: the payload of one call, rates and angles about one axis, a
horizon instead of a sphere (section 2 says what each leaves out).

No axioms are used.

## 5. Not modelled

* **Numeric code**: quality scores, features, matching, the solve, projection, rotation averaging,
  camera models; of the pose filter its gains and the gyroscope's offset; of the planner everything
  off the horizon. Their answers are inputs, or exact, or sets of outcomes.
* **Syntax**: the text of the session document and the words of messages.
* **Tier claim's clocks**: who waits how long before asking for the tier (`FRESH_MS`, `HANDOVER_MS`,
  `LOCK_WAIT_MS`). Web Locks decide who has it, whatever the waits come to.
* **Boot** of the worker, its flush at the end of a page, the sweep of abandoned tier files, the
  choice among platform sensors and their permissions.
* **Coverage refresh**: a flag and a retry time within one turn of the page's loop.
* Presentation, tools and tests.

## 6. Still worth doing

* The planner off the horizon: caps and elevations, where the margins are for area and not for arcs.
* A statement of what a project deleted in one tab may still become through the session of another,
  and the coverage refresh: the two hazards of `PROJECT.json` that no property covers.
* The sets of outcomes by which the build's helpers are modelled, shown to be those of the code's loops
  over frames one at a time.
