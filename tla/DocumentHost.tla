---------------------------- MODULE DocumentHost ----------------------------
(***************************************************************************)
(* document-host.ts: the documents of every project, read and written in   *)
(* memory at once and persisted behind that, one persist after another,    *)
(* into a store (IndexedDB) that may refuse any step or lose its database. *)
(*                                                                         *)
(* The host is run by an event loop.  Write, Remove, Flush, the timer, the *)
(* store's answers and its loss are tasks; what follows a settled promise  *)
(* runs before the next task, waiting flushes before the next persist,     *)
(* which was chained after them.  Idle says that nothing of it is left.    *)
(*                                                                         *)
(* A value is the number of the write that wrote it.  Removals and writes  *)
(* of one persist go out in any order within each; the host's is one.      *)
(***************************************************************************)
EXTENDS Naturals

CONSTANTS
  Projects, Keys,
  Flushes,      \* callers of flush
  MaxWrites     \* bound: writes

ASSUME DocumentHostAssumption == MaxWrites \in Nat

VARIABLES
  resident,     \* the documents as read() answers
  queue,        \* removed and pending: the work no persist has taken
  timer,        \* whether one is set
  chain,        \* persists enqueued and not settled
  busy,         \* whether one of them is running
  snapshot,     \* the work it took
  left,         \* what of it is not on disk yet
  went,         \* whether the last persist to settle went through
  failing, lost, loadError,   \* whether each is not null
  call,         \* what each flush awaits: an earlier persist, or its own
  ahead,        \* how many persists settle before it resumes
  disk,         \* the database
  writes        \* how many writes there were

memory == <<resident, queue, timer, chain, busy, snapshot, left, went, failing, lost,
            loadError, call, ahead>>
vars == <<memory, disk, writes>>

Doc == Projects \X Keys
ProjectOf(d) == d[1]
Absent == 0
NoDocuments == [d \in Doc |-> Absent]
Work == [removals : SUBSET Projects, writes : [Doc -> 0..MaxWrites]]
NoWork == [removals |-> {}, writes |-> NoDocuments]

(* The documents once work is done: the removals first, then the writes. *)
Over(documents, work) ==
  [d \in Doc |-> IF work.writes[d] # Absent THEN work.writes[d]
                 ELSE IF ProjectOf(d) \in work.removals THEN Absent
                 ELSE documents[d]]

(* createDocumentHost: what the store loaded, or nothing if it would not. *)
Loaded(refused) == IF refused THEN NoDocuments ELSE disk

Init ==
  /\ disk = NoDocuments /\ writes = 0
  /\ loadError \in BOOLEAN /\ resident = Loaded(loadError)
  /\ queue = NoWork /\ timer = FALSE
  /\ chain = 0 /\ busy = FALSE /\ snapshot = NoWork /\ left = NoWork /\ went = TRUE
  /\ failing = FALSE /\ lost = FALSE
  /\ call = [w \in Flushes |-> "none"] /\ ahead = [w \in Flushes |-> 0]

Ready(w) == call[w] # "none" /\ ahead[w] = 0
Idle ==
  /\ busy => left # NoWork
  /\ chain > 0 => busy
  /\ \A w \in Flushes : ~Ready(w)

-----------------------------------------------------------------------------
(* Fault: a write is queued and no timer set. *)
WriteUnscheduled(d) ==
  /\ Idle /\ writes < MaxWrites
  /\ writes' = writes + 1
  /\ resident' = [resident EXCEPT ![d] = writes']
  /\ IF loadError THEN UNCHANGED queue ELSE queue' = [queue EXCEPT !.writes[d] = writes']
  /\ UNCHANGED <<timer, chain, busy, snapshot, left, went, failing, lost, loadError, call,
                 ahead, disk>>

Write(d) ==
  /\ Idle /\ writes < MaxWrites
  /\ writes' = writes + 1
  /\ resident' = [resident EXCEPT ![d] = writes']
  /\ IF loadError THEN UNCHANGED <<queue, timer>>
     ELSE queue' = [queue EXCEPT !.writes[d] = writes'] /\ timer' = TRUE
  /\ UNCHANGED <<chain, busy, snapshot, left, went, failing, lost, loadError, call, ahead, disk>>

Cleared(documents, project) ==
  [d \in Doc |-> IF ProjectOf(d) = project THEN Absent ELSE documents[d]]

(* A project with no document in memory is not there to remove. *)
Remove(project) ==
  /\ Idle
  /\ \E key \in Keys : resident[<<project, key>>] # Absent
  /\ resident' = Cleared(resident, project)
  /\ IF loadError THEN UNCHANGED <<queue, timer>>
     ELSE /\ queue' = [removals |-> queue.removals \cup {project},
                       writes |-> Cleared(queue.writes, project)]
          /\ timer' = TRUE
  /\ UNCHANGED <<chain, busy, snapshot, left, went, failing, lost, loadError, call, ahead, disk,
                 writes>>

TimerFires ==
  /\ Idle /\ timer
  /\ timer' = FALSE
  /\ chain' = chain + 1
  /\ UNCHANGED <<resident, queue, busy, snapshot, left, went, failing, lost, loadError, call,
                 ahead, disk, writes>>

(* Fault: a flush does not wait for the persist that is running. *)
FlushWithoutWaiting(w) ==
  /\ Idle /\ call[w] = "none"
  /\ timer' = FALSE
  /\ call' = [call EXCEPT ![w] = "earlier"]
  /\ ahead' = [ahead EXCEPT ![w] = 0]
  /\ UNCHANGED <<resident, queue, chain, busy, snapshot, left, went, failing, lost, loadError,
                 disk, writes>>

(* flush, up to its first await: of whatever is enqueued by then. *)
Flush(w) ==
  /\ Idle /\ call[w] = "none"
  /\ timer' = FALSE
  /\ call' = [call EXCEPT ![w] = "earlier"]
  /\ ahead' = [ahead EXCEPT ![w] = chain]
  /\ UNCHANGED <<resident, queue, chain, busy, snapshot, left, went, failing, lost, loadError,
                 disk, writes>>

(* Fault: a flush tries again for as long as there is work. *)
NeverGivesUp(w) == FALSE

(* A persist of this flush's own failed: it does not try for ever. *)
GivesUp(w) == call[w] = "own" /\ ~went

FlushReturns(w) ==
  /\ Ready(w)
  /\ GivesUp(w) \/ queue = NoWork
  /\ call' = [call EXCEPT ![w] = "none"]
  /\ UNCHANGED <<resident, queue, timer, chain, busy, snapshot, left, went, failing, lost,
                 loadError, ahead, disk, writes>>

FlushPersists(w) ==
  /\ Ready(w)
  /\ ~GivesUp(w) /\ queue # NoWork
  /\ chain' = chain + 1
  /\ call' = [call EXCEPT ![w] = "own"]
  /\ ahead' = [ahead EXCEPT ![w] = chain']
  /\ UNCHANGED <<resident, queue, timer, busy, snapshot, left, went, failing, lost, loadError,
                 disk, writes>>

-----------------------------------------------------------------------------
(* persist, up to its first await. *)
Begin ==
  /\ chain > 0 /\ ~busy
  /\ \A w \in Flushes : ~Ready(w)
  /\ busy' = TRUE
  /\ snapshot' = queue /\ left' = queue
  /\ queue' = NoWork
  /\ UNCHANGED <<resident, timer, chain, went, failing, lost, loadError, call, ahead, disk,
                 writes>>

StoreRemoves(project) ==
  /\ project \in left.removals /\ ~lost
  /\ disk' = Cleared(disk, project)
  /\ left' = [left EXCEPT !.removals = @ \ {project}]
  /\ UNCHANGED <<resident, queue, timer, chain, busy, snapshot, went, failing, lost, loadError,
                 call, ahead, writes>>

StorePuts(d) ==
  /\ left.removals = {} /\ left.writes[d] # Absent /\ ~lost
  /\ disk' = [disk EXCEPT ![d] = left.writes[d]]
  /\ left' = [left EXCEPT !.writes[d] = Absent]
  /\ UNCHANGED <<resident, queue, timer, chain, busy, snapshot, went, failing, lost, loadError,
                 call, ahead, writes>>

(* What every way out of persist does. *)
Settled(through) ==
  /\ busy' = FALSE
  /\ snapshot' = NoWork /\ left' = NoWork
  /\ chain' = chain - 1
  /\ went' = through
  /\ ahead' = [w \in Flushes |-> IF ahead[w] = 0 THEN 0 ELSE ahead[w] - 1]
  /\ UNCHANGED <<resident, timer, lost, loadError, call, disk, writes>>

(* Fault: a persist that goes through takes back that the database is lost. *)
PersistedForgettingLoss ==
  /\ busy /\ left = NoWork
  /\ Settled(TRUE)
  /\ failing' = FALSE
  /\ UNCHANGED queue

Persisted ==
  /\ busy /\ left = NoWork
  /\ Settled(TRUE)
  /\ failing' = lost
  /\ UNCHANGED queue

(* Fault: what failed is put back although its project was removed since. *)
PutBackRemoved ==
  [removals |-> queue.removals \cup snapshot.removals,
   writes |-> [d \in Doc |-> IF queue.writes[d] # Absent THEN queue.writes[d]
                             ELSE snapshot.writes[d]]]

(* The whole snapshot again, done or not, under what was written and removed *)
(* since.                                                                    *)
PutBack ==
  [removals |-> queue.removals \cup snapshot.removals,
   writes |-> [d \in Doc |-> IF queue.writes[d] # Absent THEN queue.writes[d]
                             ELSE IF resident[d] # Absent THEN snapshot.writes[d]
                             ELSE Absent]]

StoreRefuses ==
  /\ busy /\ left # NoWork
  /\ Settled(FALSE)
  /\ failing' = TRUE
  /\ queue' = PutBack

(* The database is cleared under the page, which hears of it. *)
Lose ==
  /\ Idle /\ ~lost /\ ~loadError
  /\ lost' = TRUE /\ failing' = TRUE
  /\ disk' = NoDocuments
  /\ UNCHANGED <<resident, queue, timer, chain, busy, snapshot, left, went, loadError, call,
                 ahead, writes>>

(* The worker dies, between any two steps, and another one loads. *)
Restart ==
  /\ loadError' \in BOOLEAN /\ resident' = Loaded(loadError')
  /\ queue' = NoWork /\ timer' = FALSE
  /\ chain' = 0 /\ busy' = FALSE /\ snapshot' = NoWork /\ left' = NoWork /\ went' = TRUE
  /\ failing' = FALSE /\ lost' = FALSE
  /\ call' = [w \in Flushes |-> "none"] /\ ahead' = [w \in Flushes |-> 0]
  /\ UNCHANGED <<disk, writes>>

StoreAnswers ==
  \/ \E p \in Projects : StoreRemoves(p)
  \/ \E d \in Doc : StorePuts(d)
  \/ StoreRefuses

Resumes(w) == FlushReturns(w) \/ FlushPersists(w)

Next ==
  \/ \E d \in Doc : Write(d)
  \/ \E p \in Projects : Remove(p)
  \/ \E w \in Flushes : Flush(w) \/ Resumes(w)
  \/ TimerFires \/ Begin \/ StoreAnswers \/ Persisted \/ Lose \/ Restart

Spec == Init /\ [][Next]_vars

(* The event loop runs what is due, and IndexedDB answers every request. *)
FairSpec ==
  /\ Spec
  /\ WF_vars(Begin) /\ WF_vars(Persisted) /\ WF_vars(StoreAnswers) /\ WF_vars(TimerFires)
  /\ \A w \in Flushes : WF_vars(Resumes(w))

-----------------------------------------------------------------------------
(* The types; a persist that runs is the first of the chain, and a flush     *)
(* awaits one of the chain.                                                  *)
TypeOK ==
  /\ resident \in [Doc -> 0..MaxWrites] /\ disk \in [Doc -> 0..MaxWrites]
  /\ queue \in Work /\ snapshot \in Work /\ left \in Work
  /\ timer \in BOOLEAN /\ busy \in BOOLEAN /\ went \in BOOLEAN
  /\ failing \in BOOLEAN /\ lost \in BOOLEAN /\ loadError \in BOOLEAN
  /\ chain \in Nat /\ (busy => chain > 0) /\ (~busy => snapshot = NoWork /\ left = NoWork)
  /\ call \in [Flushes -> {"none", "earlier", "own"}]
  /\ ahead \in [Flushes -> Nat] /\ \A w \in Flushes : ahead[w] <= chain
  /\ writes \in 0..MaxWrites

(* Whatever was written or removed is on disk or still to be put there, in   *)
(* an order that ends in what memory says: through refused steps, work put   *)
(* back under newer work, and projects removed while they are persisted.     *)
NothingForgotten ==
  ~loadError /\ ~lost => resident = Over(Over(disk, left), queue)

(* A flush that is answered while nothing fails has everything on disk, its  *)
(* own and what was written while it waited, whoever else flushes.           *)
FlushIsDurable ==
  [][\A w \in Flushes :
       FlushReturns(w) /\ ~failing /\ ~loadError => disk = resident]_vars

(* What is not on disk is on its way, or the page is told that it is not:    *)
(* nothing is left in the queue without a timer, a persist or a flush.       *)
NothingWaitsUntold ==
  disk # resident =>
    loadError \/ failing \/ timer \/ chain > 0 \/ \E w \in Flushes : Ready(w)

(* What was written is on disk before long, or the page is told; a failed    *)
(* persist may leave it at that until the next write or flush.               *)
DurableOrTold == disk # resident ~> disk = resident \/ failing \/ loadError

(* No flush hangs, on a full disk or a lost database, once writing stops.    *)
FlushesReturn == \A w \in Flushes : call[w] # "none" ~> call[w] = "none"
=============================================================================
