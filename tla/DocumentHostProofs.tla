------------------------- MODULE DocumentHostProofs -------------------------
(***************************************************************************)
(* Theorems about the document host, for any projects, keys, callers of    *)
(* flush and number of writes.  NothingForgotten is not inductive: what a  *)
(* failed persist puts back is its whole snapshot, so the induction has to *)
(* know how the snapshot stands to the disk (Behind), and that a flush     *)
(* never resumes while a persist runs (Apart).                             *)
(***************************************************************************)
EXTENDS DocumentHost, TLAPS

(* What the running persist took is still to be done, or done. *)
Behind ==
  /\ left.removals \subseteq snapshot.removals
  /\ \A d \in Doc : left.writes[d] # Absent => left.writes[d] = snapshot.writes[d]
  /\ ~lost => \A d \in Doc :
       /\ snapshot.writes[d] # Absent =>
            \/ left.writes[d] # Absent
            \/ left.removals = {} /\ disk[d] = snapshot.writes[d]
       /\ snapshot.writes[d] = Absent /\ ProjectOf(d) \in snapshot.removals =>
            ProjectOf(d) \in left.removals \/ disk[d] = Absent

(* A flush resumes between persists only. *)
Apart == busy => \A w \in Flushes : ~Ready(w)

(* A failure is on show until a persist goes through, a loss for good. *)
Told == (~went => failing) /\ (lost => failing)

(* Work in the queue has a timer, a persist that has not begun, a flush that *)
(* resumes after the last persist, or a failure on show and none running.    *)
Cared ==
  queue # NoWork =>
    \/ timer
    \/ failing /\ ~busy
    \/ IF busy THEN chain > 1 ELSE chain > 0
    \/ \E w \in Flushes : call[w] # "none" /\ ahead[w] = chain

IInv == TypeOK /\ NothingForgotten /\ Behind /\ Apart /\ Told /\ Cared

-----------------------------------------------------------------------------
(* The empty documents and the empty work are of their types. *)
LEMMA Empty ==
  /\ NoDocuments \in [Doc -> 0..MaxWrites] /\ NoWork \in Work
  /\ NoWork.removals = {} /\ NoWork.writes = NoDocuments
BY DocumentHostAssumption DEF NoDocuments, NoWork, Work, Absent

(* Work with neither removal nor write is the empty work. *)
LEMMA EmptyWork ==
  ASSUME NEW work \in Work, work.removals = {}, \A d \in Doc : work.writes[d] = Absent
  PROVE  work = NoWork
<1>1. work.writes = NoDocuments
  BY DEF Work, NoDocuments
<1> QED
  BY <1>1 DEF Work, NoWork

(* Clearing a project keeps documents documents. *)
LEMMA ClearedType ==
  ASSUME NEW documents \in [Doc -> 0..MaxWrites], NEW project
  PROVE  Cleared(documents, project) \in [Doc -> 0..MaxWrites]
BY DocumentHostAssumption DEF Cleared, Absent

(* What a failed persist puts back is work. *)
LEMMA PutBackType == TypeOK => PutBack \in Work
BY DocumentHostAssumption DEF TypeOK, PutBack, Work, Absent

(* The initial state satisfies the invariant. *)
LEMMA InitIInv == Init => IInv
<1> SUFFICES ASSUME Init PROVE IInv
  OBVIOUS
<1>1. TypeOK
  <2>1. resident \in [Doc -> 0..MaxWrites] /\ disk \in [Doc -> 0..MaxWrites]
    BY Empty DEF Init, Loaded
  <2>2. /\ call \in [Flushes -> {"none", "earlier", "own"}]
        /\ ahead \in [Flushes -> Nat] /\ \A w \in Flushes : ahead[w] <= chain
    BY DEF Init
  <2>3. writes \in 0..MaxWrites
    BY DocumentHostAssumption DEF Init
  <2>4. chain \in Nat /\ (busy => chain > 0) /\ (~busy => snapshot = NoWork /\ left = NoWork)
    BY DEF Init
  <2> QED
    BY <2>1, <2>2, <2>3, <2>4, Empty DEF Init, TypeOK
<1>2. NothingForgotten
  <2>1. \A d \in Doc : NoDocuments[d] = Absent
    BY DEF NoDocuments
  <2> QED
    BY <2>1, Empty DEF Init, NothingForgotten, Over, Loaded, NoDocuments
<1>3. Behind
  BY Empty DEF Init, Behind, NoDocuments
<1>4. Apart /\ Told /\ Cared
  BY DEF Init, Apart, Told, Cared
<1> QED
  BY <1>1, <1>2, <1>3, <1>4 DEF IInv

-----------------------------------------------------------------------------
(* Types are kept by every step. *)
LEMMA SettledType ==
  ASSUME TypeOK, busy, NEW through \in BOOLEAN, Settled(through), failing' \in BOOLEAN,
         queue' \in Work
  PROVE  TypeOK'
<1>1. chain \in Nat /\ chain > 0 /\ chain' = chain - 1 /\ chain' \in Nat
  BY DEF TypeOK, Settled
<1>2. ahead' \in [Flushes -> Nat] /\ \A w \in Flushes : ahead'[w] <= chain'
  BY <1>1 DEF TypeOK, Settled
<1> QED
  BY <1>1, <1>2, Empty DEF TypeOK, Settled

(* Every turn of the event loop keeps the types. *)
LEMMA NextType ==
  ASSUME TypeOK, [Next]_vars
  PROVE  TypeOK'
<1>1. ASSUME NEW d \in Doc, Write(d) PROVE TypeOK'
  <2>1. writes' \in 0..MaxWrites
    BY <1>1, DocumentHostAssumption DEF Write, TypeOK
  <2>2. resident' \in [Doc -> 0..MaxWrites]
    BY <1>1, <2>1 DEF Write, TypeOK
  <2>3. [queue EXCEPT !.writes[d] = writes'] \in Work
    BY <2>1 DEF TypeOK, Work
  <2>4. queue' \in Work /\ timer' \in BOOLEAN
    BY <1>1, <2>3, Zenon DEF Write, TypeOK
  <2> QED
    BY <1>1, <2>1, <2>2, <2>4 DEF Write, TypeOK
<1>2. ASSUME NEW p \in Projects, Remove(p) PROVE TypeOK'
  <2>1. resident' \in [Doc -> 0..MaxWrites]
    BY <1>2, ClearedType DEF Remove, TypeOK
  <2>2. Cleared(queue.writes, p) \in [Doc -> 0..MaxWrites]
    BY ClearedType DEF TypeOK, Work
  <2>3. [removals |-> queue.removals \cup {p}, writes |-> Cleared(queue.writes, p)] \in Work
    BY <2>2 DEF TypeOK, Work
  <2>4. queue' \in Work /\ timer' \in BOOLEAN
    BY <1>2, <2>3, Zenon DEF Remove, TypeOK
  <2> QED
    BY <1>2, <2>1, <2>4 DEF Remove, TypeOK
<1>3. ASSUME NEW w \in Flushes, Flush(w) PROVE TypeOK'
  <2>1. /\ call' \in [Flushes -> {"none", "earlier", "own"}]
        /\ ahead' \in [Flushes -> Nat] /\ \A v \in Flushes : ahead'[v] <= chain'
    BY <1>3 DEF Flush, TypeOK
  <2> QED
    BY <1>3, <2>1 DEF Flush, TypeOK
<1>4. ASSUME NEW w \in Flushes, FlushReturns(w) PROVE TypeOK'
  BY <1>4 DEF FlushReturns, TypeOK
<1>5. ASSUME NEW w \in Flushes, FlushPersists(w) PROVE TypeOK'
  BY <1>5 DEF FlushPersists, TypeOK
<1>6. CASE TimerFires
  <2>1. chain' \in Nat /\ chain' > 0 /\ \A w \in Flushes : ahead'[w] <= chain'
    BY <1>6 DEF TimerFires, TypeOK
  <2> QED
    BY <1>6, <2>1 DEF TimerFires, TypeOK
<1>7. CASE Begin
  BY <1>7, Empty DEF Begin, TypeOK
<1>8. ASSUME NEW p \in Projects, StoreRemoves(p) PROVE TypeOK'
  <2>1. busy
    BY <1>8, Empty DEF StoreRemoves, TypeOK
  <2>2. disk' \in [Doc -> 0..MaxWrites] /\ left' \in Work
    BY <1>8, ClearedType DEF StoreRemoves, TypeOK, Work
  <2> QED
    BY <1>8, <2>1, <2>2 DEF StoreRemoves, TypeOK
<1>9. ASSUME NEW d \in Doc, StorePuts(d) PROVE TypeOK'
  <2>1. busy
    BY <1>9, Empty DEF StorePuts, TypeOK, NoDocuments
  <2>2. left.writes[d] \in 0..MaxWrites /\ Absent \in 0..MaxWrites
    BY DocumentHostAssumption DEF TypeOK, Work, Absent
  <2>3. disk' \in [Doc -> 0..MaxWrites] /\ left' \in Work
    BY <1>9, <2>2 DEF StorePuts, TypeOK, Work
  <2> QED
    BY <1>9, <2>1, <2>3 DEF StorePuts, TypeOK
<1>10. CASE StoreRefuses
  BY <1>10, SettledType, PutBackType DEF StoreRefuses
<1>11. CASE Persisted
  <2>1. failing' \in BOOLEAN /\ queue' \in Work
    BY <1>11 DEF Persisted, TypeOK
  <2> QED
    BY <1>11, <2>1, SettledType DEF Persisted
<1>12. CASE Lose
  BY <1>12, Empty DEF Lose, TypeOK
<1>13. CASE Restart
  <2>1. resident' \in [Doc -> 0..MaxWrites] /\ disk' \in [Doc -> 0..MaxWrites]
    BY <1>13, Empty DEF Restart, Loaded, TypeOK
  <2>2. /\ call' \in [Flushes -> {"none", "earlier", "own"}]
        /\ ahead' \in [Flushes -> Nat] /\ \A w \in Flushes : ahead'[w] <= chain'
    BY <1>13 DEF Restart
  <2> QED
    BY <1>13, <2>1, <2>2, Empty DEF Restart, TypeOK
<1>14. CASE UNCHANGED vars
  BY <1>14 DEF vars, memory, TypeOK
<1> QED
  BY <1>1, <1>2, <1>3, <1>4, <1>5, <1>6, <1>7, <1>8, <1>9, <1>10, <1>11, <1>12, <1>13, <1>14
     DEF Next, StoreAnswers, Resumes

-----------------------------------------------------------------------------
(* What one document ends as. *)
Final(documents, l, q, d) ==
  IF q.writes[d] # Absent THEN q.writes[d]
  ELSE IF ProjectOf(d) \in q.removals THEN Absent
  ELSE IF l.writes[d] # Absent THEN l.writes[d]
  ELSE IF ProjectOf(d) \in l.removals THEN Absent
  ELSE documents[d]

(* Memory is what disk, snapshot and queue end as, document by document. *)
LEMMA Pointwise ==
  ASSUME NEW r \in [Doc -> 0..MaxWrites], NEW documents, NEW l, NEW q
  PROVE  r = Over(Over(documents, l), q) <=> \A d \in Doc : r[d] = Final(documents, l, q, d)
<1>1. \A d \in Doc : Over(Over(documents, l), q)[d] = Final(documents, l, q, d)
  BY DEF Over, Final
<1>2. Over(Over(documents, l), q) =
        [d \in Doc |-> Over(Over(documents, l), q)[d]]
  BY DEF Over
<1> QED
  BY <1>1, <1>2

(* Nothing is forgotten by any step. *)
LEMMA NextForgotten ==
  ASSUME IInv, TypeOK', [Next]_vars
  PROVE  NothingForgotten'
<1> SUFFICES ASSUME ~loadError', ~lost', NEW d \in Doc
             PROVE  resident'[d] = Final(disk', left', queue', d)
  <2>1. resident' \in [Doc -> 0..MaxWrites]
    BY DEF TypeOK
  <2> QED
    BY <2>1, Pointwise DEF NothingForgotten
<1> USE DEF Absent
<1>1. /\ NoWork.writes[d] = 0 /\ ProjectOf(d) \notin NoWork.removals
      /\ NoDocuments[d] = 0
  BY DEF NoWork, NoDocuments
<1>2. ASSUME ~loadError, ~lost PROVE resident[d] = Final(disk, left, queue, d)
  <2>1. resident \in [Doc -> 0..MaxWrites]
    BY DEF IInv, TypeOK
  <2> QED
    BY <1>2, <2>1, Pointwise DEF IInv, NothingForgotten
<1>3. /\ queue \in Work /\ left \in Work /\ snapshot \in Work
      /\ disk \in [Doc -> 0..MaxWrites] /\ resident \in [Doc -> 0..MaxWrites]
      /\ ~busy => left = NoWork /\ snapshot = NoWork
  BY DEF IInv, TypeOK
<1>4. ASSUME NEW e \in Doc, Write(e) PROVE resident'[d] = Final(disk', left', queue', d)
  <2>1. queue'.writes[d] = (IF d = e THEN writes' ELSE queue.writes[d])
        /\ queue'.removals = queue.removals
    BY <1>3, <1>4 DEF Write, Work
  <2>2. writes' # 0 /\ resident'[d] = (IF d = e THEN writes' ELSE resident[d])
    BY <1>3, <1>4, DocumentHostAssumption DEF Write, IInv, TypeOK
  <2> QED
    BY <1>2, <1>4, <2>1, <2>2 DEF Write, Final
<1>5. ASSUME NEW p \in Projects, Remove(p) PROVE resident'[d] = Final(disk', left', queue', d)
  BY <1>2, <1>5 DEF Remove, Cleared, Final
<1>6. ASSUME NEW w \in Flushes, Flush(w) \/ FlushReturns(w) \/ FlushPersists(w)
      PROVE resident'[d] = Final(disk', left', queue', d)
  BY <1>2, <1>6 DEF Flush, FlushReturns, FlushPersists
<1>7. CASE TimerFires
  BY <1>2, <1>7 DEF TimerFires
<1>8. CASE Begin
  BY <1>1, <1>2, <1>3, <1>8 DEF Begin, Final
<1>9. ASSUME NEW p \in Projects, StoreRemoves(p)
      PROVE resident'[d] = Final(disk', left', queue', d)
  <2>1. left'.writes = left.writes /\ left'.removals = left.removals \ {p}
    BY <1>3, <1>9 DEF StoreRemoves, Work
  <2> QED
    BY <1>2, <1>9, <2>1 DEF StoreRemoves, Cleared, Final
<1>10. ASSUME NEW e \in Doc, StorePuts(e) PROVE resident'[d] = Final(disk', left', queue', d)
  <2>1. left'.writes[d] = (IF d = e THEN 0 ELSE left.writes[d]) /\ left'.removals = {}
    BY <1>3, <1>10 DEF StorePuts, Work
  <2>2. disk'[d] = (IF d = e THEN left.writes[e] ELSE disk[d])
    BY <1>3, <1>10 DEF StorePuts
  <2> QED
    BY <1>2, <1>10, <2>1, <2>2 DEF StorePuts, Final
<1>11. CASE StoreRefuses
  <2>1. /\ queue'.removals = queue.removals \cup snapshot.removals
        /\ queue'.writes[d] = IF queue.writes[d] # 0 THEN queue.writes[d]
                               ELSE IF resident[d] # 0 THEN snapshot.writes[d] ELSE 0
        /\ left' = NoWork /\ disk' = disk /\ resident' = resident
        /\ ~loadError /\ ~lost
    BY <1>11 DEF StoreRefuses, Settled, PutBack
  <2>2. /\ left.removals \subseteq snapshot.removals
        /\ left.writes[d] # 0 => left.writes[d] = snapshot.writes[d]
        /\ snapshot.writes[d] # 0 =>
             left.writes[d] # 0 \/ (left.removals = {} /\ disk[d] = snapshot.writes[d])
        /\ snapshot.writes[d] = 0 /\ ProjectOf(d) \in snapshot.removals =>
             ProjectOf(d) \in left.removals \/ disk[d] = 0
    BY <2>1 DEF IInv, Behind
  <2> QED
    BY <1>1, <1>2, <2>1, <2>2 DEF Final
<1>12. CASE Persisted
  BY <1>2, <1>12 DEF Persisted, Settled
<1>13. CASE Lose
  BY <1>13 DEF Lose
<1>14. CASE Restart
  BY <1>1, <1>14 DEF Restart, Loaded, Final
<1>15. CASE UNCHANGED vars
  BY <1>2, <1>15 DEF vars, memory
<1> QED
  BY <1>4, <1>5, <1>6, <1>7, <1>8, <1>9, <1>10, <1>11, <1>12, <1>13, <1>14, <1>15
     DEF Next, StoreAnswers, Resumes

(* The snapshot keeps standing to the disk as Behind says. *)
LEMMA NextBehind ==
  ASSUME IInv, TypeOK', [Next]_vars
  PROVE  Behind'
<1> USE DEF Absent
<1>1. /\ queue \in Work /\ left \in Work /\ snapshot \in Work
      /\ disk \in [Doc -> 0..MaxWrites] /\ Behind
  BY DEF IInv, TypeOK
<1>2. ASSUME snapshot' = NoWork, left' = NoWork PROVE Behind'
  BY <1>2, Empty DEF Behind, NoDocuments
<1>3. ASSUME UNCHANGED <<snapshot, left, disk, lost>> PROVE Behind'
  BY <1>1, <1>3 DEF Behind
<1>4. CASE Begin
  BY <1>1, <1>4 DEF Begin, Behind
<1>5. ASSUME NEW p \in Projects, StoreRemoves(p) PROVE Behind'
  <2>1. left'.writes = left.writes /\ left'.removals = left.removals \ {p}
    BY <1>1, <1>5 DEF StoreRemoves, Work
  <2>2. /\ snapshot' = snapshot /\ ~lost /\ p \in left.removals
        /\ \A d \in Doc : disk'[d] = IF ProjectOf(d) = p THEN 0 ELSE disk[d]
    BY <1>5 DEF StoreRemoves, Cleared
  <2> QED
    BY <1>1, <2>1, <2>2 DEF Behind
<1>6. ASSUME NEW e \in Doc, StorePuts(e) PROVE Behind'
  <2>1. /\ left'.removals = {} /\ left.removals = {} /\ left.writes[e] # 0
        /\ \A d \in Doc : left'.writes[d] = IF d = e THEN 0 ELSE left.writes[d]
    BY <1>1, <1>6 DEF StorePuts, Work
  <2>2. /\ snapshot' = snapshot /\ ~lost
        /\ \A d \in Doc : disk'[d] = IF d = e THEN left.writes[e] ELSE disk[d]
    BY <1>1, <1>6 DEF StorePuts
  <2>3. left.writes[e] = snapshot.writes[e]
    BY <1>1, <2>1 DEF Behind
  <2> QED
    BY <1>1, <2>1, <2>2, <2>3 DEF Behind
<1>7. CASE StoreRefuses
  BY <1>2, <1>7 DEF StoreRefuses, Settled
<1>8. CASE Persisted
  BY <1>2, <1>8 DEF Persisted, Settled
<1>9. CASE Lose
  BY <1>1, <1>9 DEF Lose, Behind
<1>10. CASE Restart
  BY <1>2, <1>10 DEF Restart
<1> QED
  BY <1>3, <1>4, <1>5, <1>6, <1>7, <1>8, <1>9, <1>10
     DEF Next, StoreAnswers, Resumes, Write, Remove, Flush, FlushReturns, FlushPersists,
         TimerFires, vars, memory

(* No flush comes to be resumed while a persist runs. *)
LEMMA NextApart ==
  ASSUME IInv, TypeOK', [Next]_vars
  PROVE  Apart'
<1>1. /\ chain \in Nat /\ (busy => chain > 0) /\ Apart
      /\ call \in [Flushes -> {"none", "earlier", "own"}] /\ ahead \in [Flushes -> Nat]
  BY DEF IInv, TypeOK
<1>2. ASSUME UNCHANGED <<busy, call, ahead>> PROVE Apart'
  BY <1>1, <1>2 DEF Apart, Ready
<1>3. ASSUME ~busy' PROVE Apart'
  BY <1>3 DEF Apart
<1>4. ASSUME NEW w \in Flushes, Flush(w) PROVE Apart'
  BY <1>1, <1>4 DEF Flush, Apart, Ready
<1>5. ASSUME NEW w \in Flushes, FlushReturns(w) \/ FlushPersists(w) PROVE Apart'
  BY <1>1, <1>3, <1>5 DEF FlushReturns, FlushPersists, Apart
<1>6. CASE Begin
  BY <1>6 DEF Begin, Apart, Ready
<1> QED
  BY <1>2, <1>3, <1>4, <1>5, <1>6
     DEF Next, StoreAnswers, Resumes, Write, Remove, TimerFires, StoreRemoves, StorePuts,
         StoreRefuses, Persisted, Settled, Lose, Restart, vars, memory

(* A failure stays on show until a persist goes through. *)
LEMMA NextTold ==
  ASSUME IInv, TypeOK', [Next]_vars
  PROVE  Told'
<1>1. Told /\ went \in BOOLEAN /\ lost \in BOOLEAN /\ failing \in BOOLEAN
  BY DEF IInv, TypeOK
<1>2. ASSUME UNCHANGED <<went, failing, lost>> PROVE Told'
  BY <1>1, <1>2 DEF Told
<1>3. CASE StoreRefuses
  BY <1>3 DEF StoreRefuses, Told
<1>4. CASE Persisted
  BY <1>1, <1>4 DEF Persisted, Settled, Told
<1>5. CASE Lose
  BY <1>5 DEF Lose, Told
<1>6. CASE Restart
  BY <1>6 DEF Restart, Told
<1> QED
  BY <1>2, <1>3, <1>4, <1>5, <1>6
     DEF Next, StoreAnswers, Resumes, Write, Remove, Flush, FlushReturns, FlushPersists,
         TimerFires, Begin, StoreRemoves, StorePuts, vars, memory

(* Work in the queue stays in somebody's care. *)
LEMMA NextCared ==
  ASSUME IInv, TypeOK', [Next]_vars
  PROVE  Cared'
<1>1. /\ chain \in Nat /\ (busy => chain > 0) /\ Apart /\ Told /\ Cared
      /\ call \in [Flushes -> {"none", "earlier", "own"}] /\ ahead \in [Flushes -> Nat]
      /\ timer \in BOOLEAN /\ busy \in BOOLEAN /\ failing \in BOOLEAN
  BY DEF IInv, TypeOK
<1>2. ASSUME UNCHANGED <<queue, timer, failing, busy, chain, call, ahead>> PROVE Cared'
  BY <1>1, <1>2 DEF Cared
<1>3. ASSUME timer' \/ queue' = NoWork PROVE Cared'
  BY <1>3 DEF Cared
<1>4. ASSUME NEW d \in Doc, Write(d) PROVE Cared'
  BY <1>2, <1>3, <1>4 DEF Write
<1>5. ASSUME NEW p \in Projects, Remove(p) PROVE Cared'
  BY <1>2, <1>3, <1>5 DEF Remove
<1>6. ASSUME NEW w \in Flushes, Flush(w) PROVE Cared'
  <2>1. call'[w] # "none" /\ ahead'[w] = chain'
    BY <1>1, <1>6 DEF Flush
  <2> QED
    BY <2>1 DEF Cared
<1>7. ASSUME NEW w \in Flushes, FlushReturns(w) PROVE Cared'
  <2>1. ~busy
    BY <1>1, <1>7 DEF FlushReturns, Apart
  <2> QED
    BY <1>1, <1>7, <2>1 DEF FlushReturns, GivesUp, Told, Cared
<1>8. ASSUME NEW w \in Flushes, FlushPersists(w) PROVE Cared'
  <2>1. ~busy /\ ~busy' /\ chain' > 0
    BY <1>1, <1>8 DEF FlushPersists, Apart
  <2> QED
    BY <2>1 DEF Cared
<1>9. CASE TimerFires
  <2>1. IF busy' THEN chain' > 1 ELSE chain' > 0
    BY <1>1, <1>9 DEF TimerFires
  <2> QED
    BY <2>1 DEF Cared
<1>10. CASE Begin
  BY <1>3, <1>10 DEF Begin
<1>11. ASSUME \/ \E p \in Projects : StoreRemoves(p)
              \/ \E d \in Doc : StorePuts(d)
       PROVE Cared'
  BY <1>2, <1>11 DEF StoreRemoves, StorePuts
<1>12. CASE StoreRefuses
  BY <1>12 DEF StoreRefuses, Settled, Cared
<1>13. CASE Persisted
  <2>1. /\ busy /\ ~busy' /\ chain' = chain - 1 /\ chain > 0 /\ queue' = queue
        /\ timer' = timer /\ call' = call
        /\ \A w \in Flushes : ahead'[w] = IF ahead[w] = 0 THEN 0 ELSE ahead[w] - 1
    BY <1>1, <1>13 DEF Persisted, Settled
  <2>2. ASSUME NEW w \in Flushes, call[w] # "none", ahead[w] = chain
        PROVE  call'[w] # "none" /\ ahead'[w] = chain'
    BY <1>1, <2>1, <2>2
  <2> QED
    BY <1>1, <2>1, <2>2 DEF Cared
<1>14. CASE Lose
  BY <1>1, <1>14 DEF Lose, Cared
<1>15. CASE Restart
  BY <1>3, <1>15 DEF Restart
<1>16. CASE UNCHANGED vars
  BY <1>2, <1>16 DEF vars, memory
<1> QED
  BY <1>4, <1>5, <1>6, <1>7, <1>8, <1>9, <1>10, <1>11, <1>12, <1>13, <1>14, <1>15, <1>16
     DEF Next, StoreAnswers, Resumes

-----------------------------------------------------------------------------
(* The inductive invariant: types, NothingForgotten, and what it rests on. *)
THEOREM Invariant == Spec => []IInv
<1>1. IInv /\ [Next]_vars => IInv'
  <2> SUFFICES ASSUME IInv, [Next]_vars PROVE IInv'
    OBVIOUS
  <2>1. TypeOK'
    BY NextType DEF IInv
  <2> QED
    BY <2>1, NextForgotten, NextBehind, NextApart, NextTold, NextCared DEF IInv
<1> QED
  BY <1>1, InitIInv, PTL DEF Spec

(* Types; a persist runs only from the chain, and a flush awaits one of it. *)
THEOREM TypeCorrect == Spec => []TypeOK
BY Invariant, PTL DEF IInv

(* No write and no removal is lost between memory, queue, snapshot and disk, *)
(* whatever the store refuses and whenever the worker dies.                  *)
THEOREM NothingLost == Spec => []NothingForgotten
BY Invariant, PTL DEF IInv

(* A flush that answers with nothing failing has all of memory on disk. *)
THEOREM FlushCorrect == Spec => FlushIsDurable
<1> DEFINE Durable ==
             \A w \in Flushes : FlushReturns(w) /\ ~failing /\ ~loadError => disk = resident
<1>1. IInv /\ [Next]_vars => [Durable]_vars
  <2> SUFFICES ASSUME IInv, NEW w \in Flushes, FlushReturns(w), ~failing, ~loadError
               PROVE  disk = resident
    OBVIOUS
  <2>1. ~busy /\ ~lost /\ left = NoWork
    BY DEF FlushReturns, IInv, Apart, Told, TypeOK
  <2>2. queue = NoWork
    BY DEF FlushReturns, GivesUp, IInv, Told
  <2>3. disk \in [Doc -> 0..MaxWrites] /\ resident = Over(Over(disk, NoWork), NoWork)
    BY <2>1, <2>2 DEF IInv, NothingForgotten, TypeOK
  <2>4. \A d \in Doc : Final(disk, NoWork, NoWork, d) = disk[d]
    BY Empty DEF Final, NoDocuments
  <2> QED
    BY <2>3, <2>4, Pointwise
<1>2. Spec => [][Durable]_vars
  BY <1>1, Invariant, PTL DEF Spec
<1> QED
  BY <1>2 DEF FlushIsDurable

(* What is not on disk is on its way there, or the page is told. *)
THEOREM NothingSilent == Spec => []NothingWaitsUntold
<1>1. IInv => NothingWaitsUntold
  <2> SUFFICES ASSUME IInv, ~loadError, ~failing, ~timer, ~(chain > 0),
                      \A w \in Flushes : ~Ready(w)
               PROVE  disk = resident
    BY DEF NothingWaitsUntold
  <2>1. ~lost /\ ~busy /\ chain = 0 /\ left = NoWork
    BY DEF IInv, Told, TypeOK
  <2>2. queue = NoWork
    BY <2>1 DEF IInv, Cared, Ready
  <2>3. disk \in [Doc -> 0..MaxWrites] /\ resident = Over(Over(disk, NoWork), NoWork)
    BY <2>1, <2>2 DEF IInv, NothingForgotten, TypeOK
  <2>4. \A d \in Doc : Final(disk, NoWork, NoWork, d) = disk[d]
    BY Empty DEF Final, NoDocuments
  <2> QED
    BY <2>3, <2>4, Pointwise
<1> QED
  BY <1>1, Invariant, PTL
=============================================================================
