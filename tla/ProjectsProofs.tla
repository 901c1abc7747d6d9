---------------------------- MODULE ProjectsProofs ----------------------------
(***************************************************************************)
(* Theorems about the projects of one origin, for any tabs, cells, numbers *)
(* of projects and tokens, and any bounds on what happens.  Each property  *)
(* is about what a tab reads or what the database holds, and is not        *)
(* inductive: documents travel from a session through a tab's memory, its  *)
(* queue and its persist to the database and back into another tab, so the *)
(* induction says the same of every place one can be.                      *)
(***************************************************************************)
EXTENDS Projects, WellFoundedInduction, TLAPS

(* A session document as every one written down is: one of this build's can  *)
(* be read back and taken up again.                                          *)
Written ==
  {document \in SessionDocument :
     document.version = Version =>
       Decodes(document) /\ Resumable(document, document.cells)}
Value == Written \cup {NoDocument, Titled}
Documents == {docs \in [Keys -> Value] : docs["session"] \in Written \cup {NoDocument}}

(* A capture in progress is one a resume would take. *)
Capturing ==
  {s \in [project : Project, sound : BOOLEAN, cells : Plans, filed : SUBSET Cells] :
     Beginnable(s.cells, s.sound) /\ s.filed \subseteq s.cells}

(* What a persist has to put is as it was written, and names a document. *)
Queueing ==
  /\ pending = [t \in Tabs |-> pending[t]] /\ puts = [t \in Tabs |-> puts[t]]
  /\ \A t \in Tabs :
       /\ \A e \in pending[t] : e.project \in Project /\ e.key \in Keys
       /\ \A put \in puts[t] :
            /\ put.project \in Project /\ put.key \in Keys /\ put.value \in Value
            /\ put.key = "session" => put.value \in Written \cup {NoDocument}

(* The types, and that a tab loads its documents with its tier decided. *)
Opening ==
  /\ up \in [Tabs -> SUBSET {"tier", "documents"}]
  /\ tier \in [Tabs -> 0..MaxTokens] /\ holder \in Tabs \cup {NoTab}
  /\ minted \in 1..MaxTokens /\ token \in 1..minted
  /\ \A t \in Tabs : "documents" \in up[t] => "tier" \in up[t]

WrittenIInv ==
  /\ Opening /\ Queueing
  /\ resident \in [Tabs -> [Project -> Documents]] /\ disk \in [Project -> Documents]
  /\ session \in [Tabs -> Capturing \cup {NoSession}]
  /\ removed \in [Tabs -> SUBSET Project] /\ removals \in [Tabs -> SUBSET Project]
  /\ issued \in 0..MaxProjects

-----------------------------------------------------------------------------
(* A project without documents has documents, as far as types go. *)
LEMMA NothingWritten == NoDocuments \in Documents /\ NoDocuments["session"] = NoDocument
BY DEF NoDocuments, Documents, Value, Keys

(* What an earlier or a later build left is not this build's to take up. *)
LEMMA EarlierWritten == Earlier \subseteq Written \cup {NoDocument}
<1> SUFFICES ASSUME NEW v \in {PlanlessVersion, LaterVersion}
             PROVE  [version |-> v, generation |-> 1, sound |-> TRUE, cells |-> {},
                     filed |-> Cells] \in Written
  BY DEF Earlier
<1> DEFINE d == [version |-> v, generation |-> 1, sound |-> TRUE, cells |-> {}, filed |-> Cells]
<1>1. d \in SessionDocument
  BY ProjectsAssumption DEF SessionDocument, Plans
<1>2. d.version # Version
  BY DEF PlanlessVersion, LaterVersion, Version
<1> QED
  BY <1>1, <1>2 DEF Written

(* What a capture in progress is written down as can be taken up again. *)
LEMMA EncodedWritten ==
  ASSUME NEW generation \in 0..MaxTokens, NEW s \in Capturing
  PROVE  /\ Encoded(generation, s) \in Written
         /\ Encoded(generation, s).generation = generation
         /\ Encoded(generation, s) # NoDocument
<1> DEFINE d == Encoded(generation, s)
<1>1. /\ s.sound \in BOOLEAN /\ s.cells \in Plans /\ s.filed \in SUBSET Cells
      /\ Beginnable(s.cells, s.sound) /\ s.filed \subseteq s.cells
  BY DEF Capturing
<1>2. /\ d.version = Version /\ d.generation = generation
      /\ d.sound = s.sound /\ d.cells = s.cells /\ d.filed = s.filed
  BY DEF Encoded
<1>3. d \in SessionDocument
  BY <1>1 DEF Encoded, SessionDocument
<1>4. Decodes(d) /\ Resumable(d, d.cells)
  BY <1>1, <1>2 DEF Decodes, Resumable, Beginnable, PlanDefect, SpecDefect,
    FilesEveryCandidate, Version
<1> QED
  BY <1>2, <1>3, <1>4, MarkersAssumption DEF Written

(* Setting one document keeps documents documents. *)
LEMMA DocumentSet ==
  ASSUME NEW docs \in [Project -> Documents], NEW p \in Project, NEW key \in Keys,
         NEW value \in Value, key = "session" => value \in Written \cup {NoDocument}
  PROVE  [docs EXCEPT ![p][key] = value] \in [Project -> Documents]
<1> DEFINE mine == docs[p]
<1>1. mine \in [Keys -> Value] /\ mine["session"] \in Written \cup {NoDocument}
  BY DEF Documents
<1> HIDE DEF mine
<1>2. [mine EXCEPT ![key] = value] \in [Keys -> Value]
  BY <1>1
<1>3. [mine EXCEPT ![key] = value]["session"] \in Written \cup {NoDocument}
  BY <1>1 DEF Keys
<1>4. [mine EXCEPT ![key] = value] \in Documents
  BY <1>2, <1>3 DEF Documents
<1>5. [docs EXCEPT ![p][key] = value] = [docs EXCEPT ![p] = [mine EXCEPT ![key] = value]]
  BY DEF mine
<1> QED
  BY <1>4, <1>5

(* WriteDocument keeps what is in memory and in the queue of its types. *)
LEMMA WriteTypes ==
  ASSUME WrittenIInv, NEW t \in Tabs, NEW p \in Project, NEW key \in Keys, NEW value \in Value,
         key = "session" => value \in Written \cup {NoDocument},
         WriteDocument(t, p, key, value), UNCHANGED puts
  PROVE  resident' \in [Tabs -> [Project -> Documents]] /\ Queueing'
<1>1. resident \in [Tabs -> [Project -> Documents]]
  BY DEF WrittenIInv
<1> DEFINE mine == resident[t]
<1>2. mine \in [Project -> Documents]
  BY <1>1
<1> HIDE DEF mine
<1>3. [mine EXCEPT ![p][key] = value] \in [Project -> Documents]
  BY <1>2, DocumentSet
<1>4. resident' = [resident EXCEPT ![t] = [mine EXCEPT ![p][key] = value]]
  BY DEF WriteDocument, mine
<1>5. resident' \in [Tabs -> [Project -> Documents]]
  BY <1>1, <1>3, <1>4
<1>6. /\ pending' = [pending EXCEPT ![t] = Queued(@, p, key)]
      /\ pending = [u \in Tabs |-> pending[u]]
      /\ \A u \in Tabs : \A e \in pending[u] : e.project \in Project /\ e.key \in Keys
  BY DEF WriteDocument, WrittenIInv, Queueing
<1>7. \A e \in Queued(pending[t], p, key) : e.project \in Project /\ e.key \in Keys
  BY <1>6 DEF Queued, Entry
<1>8. /\ pending' = [u \in Tabs |-> pending'[u]]
      /\ \A u \in Tabs : \A e \in pending'[u] : e.project \in Project /\ e.key \in Keys
  BY <1>6, <1>7
<1> QED
  BY <1>5, <1>8 DEF WrittenIInv, Queueing

(* The types hold from the first, whatever an earlier build left. *)
LEMMA WrittenInit == Init => WrittenIInv
<1> SUFFICES ASSUME Init PROVE WrittenIInv
  OBVIOUS
<1>1. Opening
  BY ProjectsAssumption DEF Init, Opening
<1>2. Queueing
  BY DEF Init, Queueing
<1>3. resident \in [Tabs -> [Project -> Documents]]
  BY NothingWritten DEF Init
<1>4. disk \in [Project -> Documents] /\ issued \in 0..MaxProjects
  <2>1. PICK first \in Earlier :
          /\ disk = [p \in Project |-> IF p = 1 /\ first # NoDocument
                                       THEN [title |-> Titled, session |-> first]
                                       ELSE NoDocuments]
          /\ issued = IF first = NoDocument THEN 0 ELSE 1
    BY DEF Init
  <2>2. first \in Written \cup {NoDocument}
    BY EarlierWritten
  <2>3. [title |-> Titled, session |-> first] \in Documents
    BY <2>2 DEF Documents, Keys, Value
  <2>4. disk \in [Project -> Documents]
    BY <2>1, <2>3, NothingWritten
  <2> QED
    BY <2>1, <2>4, ProjectsAssumption
<1> QED
  BY <1>1, <1>2, <1>3, <1>4 DEF Init, WrittenIInv

(* Opening a tab keeps the types. *)
LEMMA OpenTypes ==
  ASSUME WrittenIInv, NEW t \in Tabs,
         OpenTier(t) \/ LoadDocuments(t) \/ Kill(t)
  PROVE  WrittenIInv'
<1>1. /\ up \in [Tabs -> SUBSET {"tier", "documents"}]
      /\ tier \in [Tabs -> 0..MaxTokens] /\ holder \in Tabs \cup {NoTab}
      /\ minted \in 1..MaxTokens /\ token \in 1..minted /\ MaxTokens \in Nat
      /\ \A u \in Tabs : "documents" \in up[u] => "tier" \in up[u]
  BY ProjectsAssumption DEF WrittenIInv, Opening
<1>2. /\ Queueing /\ resident \in [Tabs -> [Project -> Documents]]
      /\ disk \in [Project -> Documents] /\ session \in [Tabs -> Capturing \cup {NoSession}]
      /\ removed \in [Tabs -> SUBSET Project] /\ removals \in [Tabs -> SUBSET Project]
      /\ issued \in 0..MaxProjects
  BY DEF WrittenIInv
<1>3. CASE OpenTier(t)
  <2>1. /\ up' = [up EXCEPT ![t] = @ \cup {"tier"}] /\ UNCHANGED <<host, token, session, disk>>
        /\ issued' = issued
        /\ \/ holder' = t /\ tier' = [tier EXCEPT ![t] = token] /\ minted' = minted
           \/ /\ minted < MaxTokens /\ minted' = minted + 1
              /\ tier' = [tier EXCEPT ![t] = minted'] /\ holder' = holder
           \/ tier' = [tier EXCEPT ![t] = 0] /\ holder' = holder /\ minted' = minted
    BY <1>3 DEF OpenTier, bounds
  <2>2. /\ up' \in [Tabs -> SUBSET {"tier", "documents"}]
        /\ \A u \in Tabs : "documents" \in up'[u] => "tier" \in up'[u]
    BY <1>1, <2>1
  <2>3. minted' \in 1..MaxTokens /\ token' \in 1..minted' /\ minted <= minted'
    BY <1>1, <2>1
  <2>4. tier' \in [Tabs -> 0..MaxTokens] /\ holder' \in Tabs \cup {NoTab}
    BY <1>1, <2>1, <2>3
  <2>5. Opening'
    BY <2>2, <2>3, <2>4 DEF Opening
  <2> QED
    BY <1>2, <2>1, <2>5 DEF WrittenIInv, Queueing, host
<1>4. CASE LoadDocuments(t)
  <2>1. /\ "tier" \in up[t] /\ up' = [up EXCEPT ![t] = @ \cup {"documents"}]
        /\ resident' = [resident EXCEPT ![t] = disk]
        /\ UNCHANGED <<pending, removed, puts, removals, tier, token, holder, minted, session,
                       disk, issued>>
    BY <1>4 DEF LoadDocuments, MayLoad, tiers, bounds
  <2>2. Opening'
    BY <1>1, <2>1 DEF Opening
  <2> QED
    BY <1>2, <2>1, <2>2 DEF WrittenIInv, Queueing
<1>5. CASE Kill(t)
  <2>1. /\ up' = [up EXCEPT ![t] = {}] /\ tier' = [tier EXCEPT ![t] = 0]
        /\ resident' = [resident EXCEPT ![t] = [p \in Project |-> NoDocuments]]
        /\ pending' = [pending EXCEPT ![t] = {}] /\ removed' = [removed EXCEPT ![t] = {}]
        /\ puts' = [puts EXCEPT ![t] = {}] /\ removals' = [removals EXCEPT ![t] = {}]
        /\ session' = [session EXCEPT ![t] = NoSession]
        /\ holder' \in {NoTab, holder}
        /\ UNCHANGED <<token, minted, disk, issued>>
    BY <1>5 DEF Kill
  <2>2. Opening'
    BY <1>1, <2>1 DEF Opening
  <2>3. Queueing'
    BY <1>2, <2>1 DEF Queueing
  <2>4. [p \in Project |-> NoDocuments] \in [Project -> Documents]
    BY NothingWritten
  <2> QED
    BY <1>2, <2>1, <2>2, <2>3, <2>4 DEF WrittenIInv
<1> QED
  BY <1>3, <1>4, <1>5

(* What a persist does keeps the types. *)
LEMMA PersistTypes ==
  ASSUME WrittenIInv, NEW t \in Tabs,
         Persist(t) \/ RemoveNext(t) \/ PutNext(t) \/ PutRefused(t)
  PROVE  WrittenIInv'
<1>1. /\ Opening /\ resident \in [Tabs -> [Project -> Documents]]
      /\ disk \in [Project -> Documents] /\ session \in [Tabs -> Capturing \cup {NoSession}]
      /\ removed \in [Tabs -> SUBSET Project] /\ removals \in [Tabs -> SUBSET Project]
      /\ issued \in 0..MaxProjects
  BY DEF WrittenIInv
<1>2. /\ pending = [u \in Tabs |-> pending[u]] /\ puts = [u \in Tabs |-> puts[u]]
      /\ \A u \in Tabs : \A e \in pending[u] : e.project \in Project /\ e.key \in Keys
      /\ \A u \in Tabs : \A put \in puts[u] :
            /\ put.project \in Project /\ put.key \in Keys /\ put.value \in Value
            /\ put.key = "session" => put.value \in Written \cup {NoDocument}
  BY DEF WrittenIInv, Queueing
<1>3. /\ UNCHANGED <<up, resident, tier, token, holder, minted, session, issued>>
      /\ Opening'
  <2>1. UNCHANGED <<up, resident, tier, token, holder, minted, session, issued>>
    BY DEF Persist, RemoveNext, PutNext, PutRefused, tiers, bounds
  <2> QED
    BY <1>1, <2>1 DEF Opening
<1>4. CASE Persist(t)
  <2> DEFINE taken == {[at |-> e.at, project |-> e.project, key |-> e.key,
                        value |-> resident[t][e.project][e.key]] : e \in pending[t]}
  <2>1. /\ puts' = [puts EXCEPT ![t] = taken] /\ removals' = [removals EXCEPT ![t] = removed[t]]
        /\ pending' = [pending EXCEPT ![t] = {}] /\ removed' = [removed EXCEPT ![t] = {}]
        /\ disk' = disk
    BY <1>4 DEF Persist
  <2>2. ASSUME NEW put \in taken
        PROVE  /\ put.project \in Project /\ put.key \in Keys /\ put.value \in Value
               /\ put.key = "session" => put.value \in Written \cup {NoDocument}
    <3>1. PICK e \in pending[t] :
            put = [at |-> e.at, project |-> e.project, key |-> e.key,
                   value |-> resident[t][e.project][e.key]]
      OBVIOUS
    <3>2. e.project \in Project /\ e.key \in Keys
      BY <1>2
    <3>3. resident[t][e.project] \in Documents
      BY <1>1, <3>2
    <3> QED
      BY <3>1, <3>2, <3>3 DEF Documents
  <2> HIDE DEF taken
  <2>3. Queueing'
    BY <1>2, <2>1, <2>2 DEF Queueing
  <2> QED
    BY <1>1, <1>3, <2>1, <2>3 DEF WrittenIInv
<1>5. CASE RemoveNext(t)
  <2>1. PICK p \in removals[t] :
          /\ removals' = [removals EXCEPT ![t] = @ \ {p}]
          /\ disk' = [disk EXCEPT ![p] = NoDocuments]
    BY <1>5 DEF RemoveNext
  <2>2. UNCHANGED <<pending, removed, puts>>
    BY <1>5 DEF RemoveNext
  <2>3. disk' \in [Project -> Documents] /\ removals' \in [Tabs -> SUBSET Project]
    BY <1>1, <2>1, NothingWritten
  <2> QED
    BY <1>1, <1>2, <1>3, <2>2, <2>3 DEF WrittenIInv, Queueing
<1>6. CASE PutNext(t)
  <2>1. PICK put \in puts[t] :
          /\ disk' = [disk EXCEPT ![put.project][put.key] = put.value]
          /\ puts' = [puts EXCEPT ![t] = @ \ {put}]
    BY <1>6 DEF PutNext
  <2>2. UNCHANGED <<pending, removed, removals>>
    BY <1>6 DEF PutNext
  <2>3. disk' \in [Project -> Documents]
    BY <1>1, <1>2, <2>1, DocumentSet
  <2>4. Queueing'
    BY <1>2, <2>1, <2>2 DEF Queueing
  <2> QED
    BY <1>1, <1>3, <2>2, <2>3, <2>4 DEF WrittenIInv
<1>7. CASE PutRefused(t)
  <2> DEFINE still == {put \in puts[t] : /\ ~IsQueued(pending[t], put.project, put.key)
                                         /\ resident[t][put.project][put.key] # NoDocument}
             back == {Entry(Last(pending[t]) + put.at, put.project, put.key) : put \in still}
  <2>1. /\ pending' = [pending EXCEPT ![t] = @ \cup back] /\ puts' = [puts EXCEPT ![t] = {}]
        /\ UNCHANGED <<removed, removals, disk>>
    BY <1>7 DEF PutRefused
  <2>2. \A e \in back : e.project \in Project /\ e.key \in Keys
    BY <1>2 DEF Entry
  <2> HIDE DEF back
  <2>3. Queueing'
    BY <1>2, <2>1, <2>2 DEF Queueing
  <2> QED
    BY <1>1, <1>3, <2>1, <2>3 DEF WrittenIInv
<1> QED
  BY <1>4, <1>5, <1>6, <1>7

(* What Begin does to the tiers keeps their types, and gives the tab a token *)
(* nothing has had, or leaves it without one.                                *)
LEMMA ClearedTypes ==
  ASSUME Opening, NEW t \in Tabs, Cleared(t)
  PROVE  /\ tier' \in [Tabs -> 0..MaxTokens] /\ holder' = holder
         /\ minted' \in 1..MaxTokens /\ token' \in 1..minted' /\ minted <= minted'
         /\ \A u \in Tabs \ {t} : tier'[u] = tier[u]
         /\ \/ tier'[t] = 0 /\ tier[t] = 0 /\ token' = token /\ minted' = minted
            \/ /\ minted' > minted /\ tier'[t] = minted'
               /\ token' = IF holder = t THEN minted' ELSE token
<1>1. /\ tier \in [Tabs -> 0..MaxTokens] /\ minted \in 1..MaxTokens /\ token \in 1..minted
      /\ MaxTokens \in Nat
  BY ProjectsAssumption DEF Opening
<1>2. CASE tier[t] = 0
  BY <1>1, <1>2 DEF Cleared, tiers
<1>3. CASE tier[t] # 0
  BY <1>1, <1>3 DEF Cleared
<1> QED
  BY <1>2, <1>3

(* Projects made and deleted keep the types. *)
LEMMA ProjectTypes ==
  ASSUME WrittenIInv, NEW t \in Tabs, Create(t) \/ \E p \in Project : Delete(t, p)
  PROVE  WrittenIInv'
<1>1. /\ Opening /\ Queueing /\ resident \in [Tabs -> [Project -> Documents]]
      /\ disk \in [Project -> Documents] /\ session \in [Tabs -> Capturing \cup {NoSession}]
      /\ removed \in [Tabs -> SUBSET Project] /\ removals \in [Tabs -> SUBSET Project]
      /\ issued \in 0..MaxProjects /\ MaxProjects \in Nat
  BY ProjectsAssumption DEF WrittenIInv
<1>2. CASE Create(t)
  <2>1. /\ issued' = issued + 1 /\ issued < MaxProjects
        /\ WriteDocument(t, issued', "title", Titled)
        /\ UNCHANGED <<up, removed, puts, removals, tier, token, holder, minted, session, disk>>
    BY <1>2 DEF Create, IssueProjectId, tiers
  <2>2. issued' \in Project /\ issued' \in 0..MaxProjects
    BY <1>1, <2>1 DEF Project
  <2>3. "title" \in Keys /\ Titled \in Value /\ "title" # "session"
    BY DEF Keys, Value
  <2>4. resident' \in [Tabs -> [Project -> Documents]] /\ Queueing'
    BY <2>1, <2>2, <2>3, WriteTypes
  <2>5. Opening'
    BY <1>1, <2>1 DEF Opening
  <2> QED
    BY <1>1, <2>1, <2>2, <2>4, <2>5 DEF WrittenIInv
<1>3. ASSUME NEW p \in Project, Delete(t, p) PROVE WrittenIInv'
  <2>1. /\ resident' = [resident EXCEPT ![t][p] = NoDocuments]
        /\ pending' = [pending EXCEPT ![t] = {e \in @ : e.project # p}]
        /\ removed' = [removed EXCEPT ![t] = @ \cup {p}]
        /\ UNCHANGED <<up, puts, removals, tier, token, holder, minted, session, disk, issued>>
    BY <1>3 DEF Delete, RemoveProject, tiers
  <2>2. [resident[t] EXCEPT ![p] = NoDocuments] \in [Project -> Documents]
    BY <1>1, NothingWritten
  <2>3. resident' \in [Tabs -> [Project -> Documents]]
    BY <1>1, <2>1, <2>2
  <2>4. Queueing'
    BY <1>1, <2>1 DEF Queueing
  <2>5. Opening'
    BY <1>1, <2>1 DEF Opening
  <2> QED
    BY <1>1, <1>3, <2>1, <2>3, <2>4, <2>5 DEF WrittenIInv
<1> QED
  BY <1>2, <1>3

(* A checkpoint keeps what is in memory and in the queue of its types. *)
LEMMA CheckpointTypes ==
  ASSUME WrittenIInv, NEW t \in Tabs, NEW generation \in 0..MaxTokens, NEW s \in Capturing,
         Checkpoint(t, generation, s), UNCHANGED puts
  PROVE  resident' \in [Tabs -> [Project -> Documents]] /\ Queueing'
<1> DEFINE written == Encoded(generation, s)
<1>1. written \in Written
  BY EncodedWritten
<1>2. s.project \in Project /\ "session" \in Keys
  BY DEF Capturing, Keys
<1>3. WriteDocument(t, s.project, "session", written)
  BY DEF Checkpoint
<1> HIDE DEF written
<1>4. written \in Value /\ ("session" = "session" => written \in Written \cup {NoDocument})
  BY <1>1 DEF Value
<1> QED
  BY <1>2, <1>3, <1>4, WriteTypes

(* Beginning a capture keeps the types. *)
LEMMA BeginTypes ==
  ASSUME WrittenIInv, NEW t \in Tabs, NEW p \in Project, Begin(t, p)
  PROVE  /\ WrittenIInv' /\ Cleared(t) /\ session'[t] \in Capturing
         /\ Checkpoint(t, tier'[t], session'[t])
<1>1. /\ Opening /\ session \in [Tabs -> Capturing \cup {NoSession}]
      /\ disk \in [Project -> Documents] /\ up \in [Tabs -> SUBSET {"tier", "documents"}]
      /\ removed \in [Tabs -> SUBSET Project] /\ removals \in [Tabs -> SUBSET Project]
      /\ issued \in 0..MaxProjects
  BY DEF WrittenIInv, Opening
<1>2. /\ Checkpoint(t, tier'[t], session'[t])
      /\ UNCHANGED <<up, removed, puts, removals, disk, issued>>
  BY DEF Begin
<1>3. PICK cells \in Plans, sound \in BOOLEAN :
        /\ Beginnable(cells, sound)
        /\ Cleared(t)
        /\ session' = [session EXCEPT ![t] =
                         [project |-> p, sound |-> sound, cells |-> cells, filed |-> {}]]
  BY DEF Begin
<1> DEFINE s == [project |-> p, sound |-> sound, cells |-> cells, filed |-> {}]
<1>4. s \in Capturing
  BY <1>3 DEF Capturing
<1>5. session'[t] = s /\ session' \in [Tabs -> Capturing \cup {NoSession}]
  BY <1>1, <1>3, <1>4
<1>6. /\ tier' \in [Tabs -> 0..MaxTokens] /\ holder' = holder
      /\ minted' \in 1..MaxTokens /\ token' \in 1..minted'
  BY <1>1, <1>3, ClearedTypes
<1>7. tier'[t] \in 0..MaxTokens
  BY <1>6
<1>8. resident' \in [Tabs -> [Project -> Documents]] /\ Queueing'
  BY <1>2, <1>4, <1>5, <1>7, CheckpointTypes
<1>9. Opening'
  BY <1>1, <1>2, <1>6 DEF Opening
<1> QED
  BY <1>1, <1>2, <1>3, <1>4, <1>5, <1>8, <1>9 DEF WrittenIInv

(* A capture in progress stays one that can be taken up again, and so is     *)
(* what is written of it.                                                    *)
LEMMA CaptureTypes ==
  ASSUME WrittenIInv, NEW t \in Tabs, Capture(t) \/ End(t)
  PROVE  /\ WrittenIInv' /\ UNCHANGED <<up, tier, token, holder, minted>>
         /\ \E s \in Capturing : Checkpoint(t, tier[t], s)
<1>1. /\ Opening /\ session \in [Tabs -> Capturing \cup {NoSession}]
      /\ disk \in [Project -> Documents] /\ tier \in [Tabs -> 0..MaxTokens]
      /\ removed \in [Tabs -> SUBSET Project] /\ removals \in [Tabs -> SUBSET Project]
      /\ issued \in 0..MaxProjects
  BY DEF WrittenIInv, Opening
<1>2. /\ session[t] # NoSession
      /\ UNCHANGED <<up, removed, puts, removals, tier, token, holder, minted, disk, issued>>
  BY DEF Capture, End, tiers
<1>3. session[t] \in Capturing /\ tier[t] \in 0..MaxTokens
  BY <1>1, <1>2
<1>4. \E s \in Capturing :
        /\ Checkpoint(t, tier[t], s)
        /\ session' \in [Tabs -> Capturing \cup {NoSession}]
  <2>1. CASE End(t)
    <3>1. Checkpoint(t, tier[t], session[t])
      BY <2>1 DEF End
    <3>2. session' \in [Tabs -> Capturing \cup {NoSession}]
      BY <1>1, <2>1 DEF End
    <3> QED
      BY <1>3, <3>1, <3>2
  <2>2. CASE Capture(t)
    <3> DEFINE was == session[t]
    <3>1. PICK cell \in was.cells :
            session' = [session EXCEPT ![t].filed =
                          IF cell \in @ THEN @ \ {cell} ELSE @ \cup {cell}]
      BY <2>2 DEF Capture
    <3> DEFINE files == IF cell \in was.filed THEN was.filed \ {cell} ELSE was.filed \cup {cell}
               s == [was EXCEPT !.filed = files]
    <3>2. /\ was \in [project : Project, sound : BOOLEAN, cells : Plans, filed : SUBSET Cells]
          /\ Beginnable(was.cells, was.sound) /\ was.filed \subseteq was.cells
      BY <1>3 DEF Capturing
    <3>3. files \subseteq was.cells /\ was.cells \subseteq Cells
      BY <3>2 DEF Beginnable, PlanDefect, Plans
    <3> HIDE DEF files
    <3>4. /\ s \in [project : Project, sound : BOOLEAN, cells : Plans, filed : SUBSET Cells]
          /\ s.cells = was.cells /\ s.sound = was.sound /\ s.filed = files
      BY <3>2, <3>3
    <3>5. s \in Capturing
      BY <3>2, <3>3, <3>4 DEF Capturing
    <3>6. session' = [session EXCEPT ![t] = s]
      BY <3>1 DEF files
    <3> HIDE DEF s
    <3>7. session'[t] = s /\ session' \in [Tabs -> Capturing \cup {NoSession}]
      BY <1>1, <3>5, <3>6
    <3>8. Checkpoint(t, tier[t], session'[t])
      BY <2>2 DEF Capture
    <3> QED
      BY <3>5, <3>7, <3>8
  <2> QED
    BY <2>1, <2>2
<1>5. PICK s \in Capturing :
        /\ Checkpoint(t, tier[t], s)
        /\ session' \in [Tabs -> Capturing \cup {NoSession}]
  BY <1>4
<1>6. resident' \in [Tabs -> [Project -> Documents]] /\ Queueing'
  BY <1>2, <1>3, <1>5, CheckpointTypes
<1>7. Opening'
  BY <1>1, <1>2 DEF Opening
<1> QED
  BY <1>1, <1>2, <1>5, <1>6, <1>7 DEF WrittenIInv

(* A capture taken up again is one that could be begun. *)
LEMMA ResumeTypes ==
  ASSUME WrittenIInv, NEW t \in Tabs, NEW p \in Project, Resume(t, p)
  PROVE  WrittenIInv'
<1>1. /\ Opening /\ Queueing /\ resident \in [Tabs -> [Project -> Documents]]
      /\ disk \in [Project -> Documents] /\ session \in [Tabs -> Capturing \cup {NoSession}]
      /\ removed \in [Tabs -> SUBSET Project] /\ removals \in [Tabs -> SUBSET Project]
      /\ issued \in 0..MaxProjects
  BY DEF WrittenIInv
<1>2. UNCHANGED <<up, resident, pending, puts, removed, removals, tier, token, holder, minted,
                  disk, issued>>
  BY DEF Resume, host, tiers, bounds
<1> DEFINE document == resident[t][p].session
<1>3. document \in Written
  <2>1. resident[t][p]["session"] \in Written \cup {NoDocument}
    BY <1>1 DEF Documents
  <2> QED
    BY <2>1 DEF Resume, HasSession, ReadDocument
<1>4. PICK cells \in IF document.version = PlanlessVersion THEN Plans ELSE {document.cells} :
        /\ Resumable(document, cells)
        /\ session' = [session EXCEPT ![t] =
                         [project |-> p, sound |-> document.sound, cells |-> cells,
                          filed |-> document.filed]]
  BY DEF Resume
<1> HIDE DEF document
<1>5. document \in SessionDocument
  BY <1>3 DEF Written
<1>6. /\ cells \in Plans /\ document.sound \in BOOLEAN /\ document.filed \in SUBSET Cells
      /\ Beginnable(cells, document.sound) /\ document.filed \subseteq cells
  BY <1>4, <1>5 DEF SessionDocument, Resumable, Beginnable, SpecDefect, FilesEveryCandidate
<1>7. [project |-> p, sound |-> document.sound, cells |-> cells, filed |-> document.filed]
        \in Capturing
  BY <1>6 DEF Capturing
<1>8. session' \in [Tabs -> Capturing \cup {NoSession}]
  BY <1>1, <1>4, <1>7
<1> QED
  BY <1>1, <1>2, <1>8 DEF WrittenIInv, Opening, Queueing

(* Every step keeps the types, and every document as it was written. *)
LEMMA WrittenStep == WrittenIInv /\ [Next]_vars => WrittenIInv'
<1> SUFFICES ASSUME WrittenIInv, [Next]_vars PROVE WrittenIInv'
  OBVIOUS
<1>1. ASSUME NEW t \in Tabs, OpenTier(t) \/ LoadDocuments(t) \/ Kill(t) PROVE WrittenIInv'
  BY <1>1, OpenTypes
<1>2. ASSUME NEW t \in Tabs, Persist(t) \/ RemoveNext(t) \/ PutNext(t) \/ PutRefused(t)
      PROVE  WrittenIInv'
  BY <1>2, PersistTypes
<1>3. ASSUME NEW t \in Tabs, Capture(t) \/ End(t) PROVE WrittenIInv'
  BY <1>3, CaptureTypes
<1>4. ASSUME NEW t \in Tabs, Create(t) PROVE WrittenIInv'
  BY <1>4, ProjectTypes
<1>5. ASSUME NEW t \in Tabs, NEW p \in Project, Delete(t, p) \/ Begin(t, p) \/ Resume(t, p)
      PROVE  WrittenIInv'
  BY <1>5, ProjectTypes, BeginTypes, ResumeTypes
<1>6. CASE UNCHANGED vars
  BY <1>6 DEF vars, host, tiers, bounds, WrittenIInv, Opening, Queueing
<1> QED
  BY <1>1, <1>2, <1>3, <1>4, <1>5, <1>6 DEF Next

(* A document anywhere is one as it was written. *)
LEMMA WrittenEverywhere == WrittenIInv => WrittenIsResumable
<1> SUFFICES ASSUME WrittenIInv, NEW p \in Project,
                    NEW document \in {disk[p].session} \cup {resident[t][p].session : t \in Tabs},
                    document # NoDocument, document.version = Version
             PROVE  Decodes(document) /\ Resumable(document, document.cells)
  BY DEF WrittenIsResumable
<1>1. disk[p]["session"] \in Written \cup {NoDocument}
  BY DEF WrittenIInv, Documents
<1>2. \A t \in Tabs : resident[t][p]["session"] \in Written \cup {NoDocument}
  BY DEF WrittenIInv, Documents
<1> QED
  BY <1>1, <1>2 DEF Written

(* Whatever this build writes down of a capture, it reads back and takes up  *)
(* again: through any tabs, refusals and kills, for any cells.               *)
THEOREM TakenUpAgain == Spec => []WrittenIsResumable
BY WrittenInit, WrittenStep, WrittenEverywhere, PTL DEF Spec

-----------------------------------------------------------------------------
(* A project among those offered can be chosen as the newest. *)
LEMMA NewestOf ==
  ASSUME NEW S \in SUBSET Project, S # {}
  PROVE  Max(S) \in S
<1> DEFINE R == OpToRel(<, Nat)
           Above == {n \in Nat : \A e \in S : e <= n}
<1>1. MaxProjects \in Above /\ Above \in SUBSET Nat
  BY ProjectsAssumption DEF Project
<1>2. IsWellFoundedOn(OpToRel(<, Nat), Nat)
  BY NatLessThanWellFounded
<1>3. PICK n \in Above : \A m \in Above : <<m, n>> \notin R
  BY <1>1, <1>2, WFMin
<1> HIDE DEF R
<1>4. n \in S
  <2>1. CASE n \notin S
    <3>1. \A e \in S : e \in Nat /\ e > 0 /\ e <= n /\ e # n
      BY <1>3, <2>1 DEF Project
    <3>2. n \in Nat /\ n > 0
      BY <1>3, <3>1
    <3>3. n - 1 \in Above /\ n - 1 < n
      BY <3>1, <3>2
    <3> QED
      BY <1>3, <3>2, <3>3 DEF R, OpToRel
  <2> QED
    BY <2>1
<1>5. \E m \in S : \A e \in S : m >= e
  BY <1>3, <1>4 DEF Project
<1> QED
  BY <1>5 DEF Max

(* What the page believes of the listing follows from how documents are. *)
LEMMA OfferedStands == WrittenIInv => OfferStands
<1> SUFFICES ASSUME WrittenIInv, NEW t \in Tabs, Open(t), session[t] = NoSession
             PROVE  LET offer == ResumableProject(t)
                    IN  /\ offer # NoProject /\ ~Unreadable(t, offer) =>
                             LET document == resident[t][offer].session
                             IN  /\ Adoptable(tier[t], document)
                                 /\ document.version = Version =>
                                      Resumable(document, document.cells)
                        /\ \A p \in Project :
                             /\ HasSession(t, p) /\ ~Unreadable(t, p)
                             /\ resident[t][p].session.generation = tier[t] /\ tier[t] # 0
                             => offer # NoProject /\ ~Unreadable(t, offer)
  BY DEF OfferStands
<1> DEFINE readable == {p \in Offerable(t) : ~Unreadable(t, p)}
           offer == ResumableProject(t)
<1>1. readable \subseteq Offerable(t) /\ Offerable(t) \subseteq Project
  BY DEF Offerable
<1>2. readable # {} => offer \in readable
  <2>1. readable # {} => Max(readable) \in readable
    BY <1>1, NewestOf
  <2>2. readable # {} => offer = Max(readable)
    BY DEF ResumableProject
  <2> QED
    BY <2>1, <2>2
<1>3. readable = {} => offer = NoProject \/ Unreadable(t, offer)
  <2>1. readable = {} /\ Offerable(t) # {} => offer = Max(Offerable(t))
    BY DEF ResumableProject
  <2>2. readable = {} /\ Offerable(t) = {} => offer = NoProject
    BY DEF ResumableProject
  <2>3. Offerable(t) # {} => Max(Offerable(t)) \in Offerable(t)
    BY <1>1, NewestOf
  <2> QED
    BY <2>1, <2>2, <2>3
<1> HIDE DEF offer
<1>4. ASSUME offer # NoProject, ~Unreadable(t, offer)
      PROVE  LET document == resident[t][offer].session
             IN  /\ Adoptable(tier[t], document)
                 /\ document.version = Version => Resumable(document, document.cells)
  <2> DEFINE document == resident[t][offer].session
  <2>1. offer \in readable
    BY <1>2, <1>3, <1>4
  <2>2. offer \in Project /\ HasSession(t, offer) /\ ~InAnotherTier(t, offer)
    BY <1>4, <2>1 DEF Offerable
  <2>3. document # NoDocument
    BY <2>2 DEF HasSession, ReadDocument
  <2>4. document.version = Version => Resumable(document, document.cells)
    BY <2>2, <2>3, WrittenEverywhere DEF WrittenIsResumable
  <2> QED
    BY <2>2, <2>4 DEF Adoptable, InAnotherTier
<1>5. ASSUME NEW p \in Project, HasSession(t, p), ~Unreadable(t, p),
             resident[t][p].session.generation = tier[t], tier[t] # 0
      PROVE  offer # NoProject /\ ~Unreadable(t, offer)
  <2>1. p \in readable
    BY <1>5 DEF Offerable, InAnotherTier
  <2>2. offer \in readable
    BY <1>2, <2>1
  <2> QED
    BY <1>1, <2>2, MarkersAssumption
<1> QED
  BY <1>4, <1>5 DEF offer

(* The page can believe the listing. *)
THEOREM OffersStand == Spec => []OfferStands
BY WrittenInit, WrittenStep, OfferedStands, PTL DEF Spec

-----------------------------------------------------------------------------
(* A session document whose frames are of the resident tier, as it is now. *)
OfTier(document) == document # NoDocument /\ document.generation = token

(* No tab and no document is of a tier there has not been yet. *)
Dated(document) == document # NoDocument => document.generation \in 0..minted
AllDated ==
  /\ \A t \in Tabs : tier[t] \in 0..minted
  /\ \A p \in Project : Dated(disk[p]["session"])
  /\ \A t \in Tabs, p \in Project : Dated(resident[t][p]["session"])
  /\ \A t \in Tabs : \A put \in puts[t] : put.key = "session" => Dated(put.value)

(* A tab that has not opened has nothing to write. *)
Quiet ==
  \A t \in Tabs : "documents" \notin up[t] =>
    pending[t] = {} /\ puts[t] = {} /\ session[t] = NoSession

(* A tab beside the one that has the resident tier has none of its own       *)
(* writing that says a capture is in it, whatever it read says.              *)
Theirs ==
  \A u \in Tabs : u # holder =>
    /\ tier[u] # token
    /\ \A e \in pending[u] \cup puts[u] :
         e.key = "session" => ~OfTier(resident[u][e.project]["session"])
    /\ \A put \in puts[u] : put.key = "session" => ~OfTier(put.value)

(* The tab that has it knows of every capture in it, on disk or on the way   *)
(* there, or has it deleted.                                                 *)
Mine ==
  \A t \in Tabs : t = holder =>
    /\ tier[t] = token /\ "tier" \in up[t]
    /\ "documents" \in up[t] =>
         \A p \in Project : OfTier(disk[p]["session"]) =>
           HasSession(t, p) \/ p \in removed[t] \cup removals[t]
    /\ \A put \in puts[t] : put.key = "session" /\ OfTier(put.value) =>
         HasSession(t, put.project) \/ put.project \in removed[t]

KnownIInv == WrittenIInv /\ AllDated /\ Quiet /\ Theirs /\ Mine

(* A tab that knows of every capture in its tier has none hidden. *)
LEMMA KnownIsNotHidden == KnownIInv => NothingHidden
BY DEF KnownIInv, Mine, NothingHidden, OfTier, Open

(* What is hidden from no tab is known from the first. *)
LEMMA KnownInit == Init => KnownIInv
<1> SUFFICES ASSUME Init PROVE KnownIInv
  OBVIOUS
<1>1. WrittenIInv
  BY WrittenInit
<1>2. PICK first \in Earlier :
        disk = [p \in Project |-> IF p = 1 /\ first # NoDocument
                                  THEN [title |-> Titled, session |-> first] ELSE NoDocuments]
  BY DEF Init
<1>3. first # NoDocument => first.generation = 1
  BY DEF Earlier
<1>4. AllDated
  <2>1. \A p \in Project : disk[p]["session"] \in {first, NoDocument}
    BY <1>2, NothingWritten
  <2>2. \A t \in Tabs, p \in Project : resident[t][p]["session"] = NoDocument
    BY NothingWritten DEF Init
  <2>3. (\A t \in Tabs : puts[t] = {}) /\ minted = 1
    BY DEF Init
  <2> QED
    BY <1>3, <2>1, <2>2, <2>3 DEF AllDated, Dated, Init
<1>5. Quiet /\ Theirs /\ Mine
  BY MarkersAssumption DEF Init, Quiet, Theirs, Mine
<1> QED
  BY <1>1, <1>4, <1>5 DEF KnownIInv

(* A checkpoint replaces one document of one tab, and queues that one. *)
LEMMA CheckpointWrites ==
  ASSUME WrittenIInv, NEW t \in Tabs, NEW generation \in 0..MaxTokens, NEW s \in Capturing,
         Checkpoint(t, generation, s)
  PROVE  /\ s.project \in Project
         /\ \A u \in Tabs \ {t} : resident'[u] = resident[u] /\ pending'[u] = pending[u]
         /\ \A p \in Project \ {s.project} : resident'[t][p] = resident[t][p]
         /\ resident'[t][s.project]["session"] # NoDocument
         /\ resident'[t][s.project]["session"].generation = generation
         /\ \A e \in pending'[t] : e \in pending[t] \/ e.project = s.project
<1> DEFINE written == Encoded(generation, s)
           mine == resident[t]
           q == s.project
<1>1. written # NoDocument /\ written.generation = generation
  BY EncodedWritten
<1>2. q \in Project /\ "session" \in Keys
  BY DEF Capturing, Keys
<1>3. /\ resident' = [resident EXCEPT ![t] = [mine EXCEPT ![q]["session"] = written]]
      /\ pending' = [pending EXCEPT ![t] = Queued(pending[t], q, "session")]
  BY DEF Checkpoint, WriteDocument
<1>4. /\ resident \in [Tabs -> [Project -> Documents]] /\ pending = [u \in Tabs |-> pending[u]]
      /\ mine \in [Project -> Documents]
  BY DEF WrittenIInv, Queueing
<1>5. mine[q] \in [Keys -> Value]
  BY <1>2, <1>4 DEF Documents
<1>6. \A e \in Queued(pending[t], q, "session") : e \in pending[t] \/ e.project = q
  BY DEF Queued, Entry
<1> HIDE DEF written, mine, q
<1> DEFINE then == [mine EXCEPT ![q]["session"] = written]
<1>7. then[q]["session"] = written /\ \A p \in Project \ {q} : then[p] = mine[p]
  BY <1>2, <1>4, <1>5
<1> HIDE DEF then
<1>8. resident'[t] = then /\ \A u \in Tabs \ {t} : resident'[u] = resident[u]
  BY <1>3, <1>4 DEF then
<1>9. /\ pending'[t] = Queued(pending[t], q, "session")
      /\ \A u \in Tabs \ {t} : pending'[u] = pending[u]
  BY <1>3, <1>4
<1> QED
  BY <1>1, <1>2, <1>6, <1>7, <1>8, <1>9 DEF mine, q

(* A tab that writes down a capture of its tier, which it may just have      *)
(* emptied, hides nothing.                                                   *)
LEMMA KnownWrites ==
  ASSUME KnownIInv, WrittenIInv', NEW t \in Tabs, NEW s \in Capturing, "documents" \in up[t],
         Checkpoint(t, tier'[t], s),
         UNCHANGED <<up, puts, removed, removals, disk, holder>>,
         \A u \in Tabs \ {t} : session'[u] = session[u] /\ tier'[u] = tier[u],
         \/ tier'[t] = tier[t] /\ token' = token /\ minted' = minted
         \/ /\ minted' > minted /\ tier'[t] = minted'
            /\ token' = IF holder = t THEN minted' ELSE token
  PROVE  KnownIInv'
<1> DEFINE q == s.project
<1>1. /\ WrittenIInv /\ AllDated /\ Quiet /\ Theirs /\ Mine
      /\ minted \in Nat /\ minted' \in Nat /\ token \in Nat /\ token' \in Nat
      /\ token <= minted /\ token > 0 /\ minted <= minted'
      /\ tier'[t] \in 0..MaxTokens /\ tier[t] \in Nat
  <2>1. /\ minted \in 1..MaxTokens /\ token \in 1..minted
        /\ minted' \in 1..MaxTokens /\ token' \in 1..minted' /\ MaxTokens \in Nat
        /\ tier \in [Tabs -> 0..MaxTokens] /\ tier' \in [Tabs -> 0..MaxTokens]
    BY ProjectsAssumption DEF KnownIInv, WrittenIInv, Opening
  <2> QED
    BY <2>1 DEF KnownIInv
<1>2. /\ q \in Project
      /\ \A u \in Tabs \ {t} : resident'[u] = resident[u] /\ pending'[u] = pending[u]
      /\ \A p \in Project \ {q} : resident'[t][p] = resident[t][p]
      /\ resident'[t][q]["session"] # NoDocument
      /\ resident'[t][q]["session"].generation = tier'[t]
      /\ \A e \in pending'[t] : e \in pending[t] \/ e.project = q
  BY <1>1, CheckpointWrites
<1> HIDE DEF q
<1>3. AllDated'
  <2>1. /\ \A u \in Tabs : tier'[u] \in 0..minted'
    BY <1>1 DEF AllDated
  <2>2. \A p \in Project : Dated(disk[p]["session"])'
    BY <1>1 DEF AllDated, Dated
  <2>3. \A u \in Tabs \ {t}, p \in Project : Dated(resident[u][p]["session"])'
    BY <1>1, <1>2 DEF AllDated, Dated
  <2>4. \A p \in Project \ {q} : Dated(resident[t][p]["session"])'
    BY <1>1, <1>2 DEF AllDated, Dated
  <2>5. Dated(resident[t][q]["session"])'
    BY <1>2, <2>1 DEF Dated
  <2>6. \A u \in Tabs : \A put \in puts'[u] : put.key = "session" => Dated(put.value)'
    BY <1>1 DEF AllDated, Dated
  <2> QED
    BY <2>1, <2>2, <2>3, <2>4, <2>5, <2>6 DEF AllDated
<1>4. Quiet'
  BY <1>1, <1>2 DEF Quiet
<1>5. ASSUME NEW document, Dated(document), OfTier(document)'
      PROVE  OfTier(document)
  BY <1>1, <1>5 DEF Dated, OfTier
<1>6. Theirs'
  <2> SUFFICES ASSUME NEW u \in Tabs, u # holder
               PROVE  /\ tier'[u] # token'
                      /\ \A e \in pending'[u] \cup puts'[u] :
                           e.key = "session" => ~OfTier(resident[u][e.project]["session"])'
                      /\ \A put \in puts'[u] : put.key = "session" => ~OfTier(put.value)'
    BY DEF Theirs
  <2>1. tier'[u] # token'
    BY <1>1 DEF Theirs, AllDated
  <2>2. \A put \in puts'[u] : put.key = "session" => ~OfTier(put.value)'
    BY <1>1, <1>5 DEF Theirs, AllDated
  <2>3. CASE u # t
    <3>1. \A e \in pending[u] \cup puts[u] : e.project \in Project
      BY <1>1 DEF WrittenIInv, Queueing
    <3> QED
      BY <1>1, <1>2, <1>5, <2>1, <2>2, <2>3, <3>1 DEF Theirs, AllDated, OfTier, Dated
  <2>4. CASE u = t
    <3>1. \A e \in pending[t] \cup puts[t] : e.project \in Project
      BY <1>1 DEF WrittenIInv, Queueing
    <3>2. ~OfTier(resident[t][q]["session"])'
      BY <1>2, <2>1, <2>4 DEF OfTier
    <3>3. ASSUME NEW e \in pending'[t] \cup puts'[t], e.key = "session"
          PROVE  ~OfTier(resident[t][e.project]["session"])'
      <4>1. CASE e.project = q
        BY <3>2, <4>1
      <4>2. CASE e.project # q
        <5>1. e \in pending[t] \cup puts[t]
          BY <1>2, <4>2
        <5>2. ~OfTier(resident[t][e.project]["session"])
          BY <1>1, <2>4, <3>3, <5>1 DEF Theirs
        <5>3. resident'[t][e.project] = resident[t][e.project]
          BY <1>2, <3>1, <4>2, <5>1
        <5>4. Dated(resident[t][e.project]["session"])
          BY <1>1, <3>1, <5>1 DEF AllDated
        <5> QED
          BY <1>5, <5>2, <5>3, <5>4
      <4> QED
        BY <4>1, <4>2
    <3> QED
      BY <2>1, <2>2, <2>4, <3>3
  <2> QED
    BY <2>3, <2>4
<1>7. Mine'
  <2> SUFFICES ASSUME NEW u \in Tabs, u = holder
               PROVE  /\ tier'[u] = token' /\ "tier" \in up'[u]
                      /\ "documents" \in up'[u] =>
                           \A p \in Project : OfTier(disk[p]["session"])' =>
                             HasSession(u, p)' \/ p \in removed'[u] \cup removals'[u]
                      /\ \A put \in puts'[u] : put.key = "session" /\ OfTier(put.value)' =>
                           HasSession(u, put.project)' \/ put.project \in removed'[u]
    BY DEF Mine
  <2>1. tier'[u] = token' /\ "tier" \in up'[u]
    BY <1>1 DEF Mine
  <2>2. ASSUME NEW p \in Project, HasSession(u, p) PROVE HasSession(u, p)'
    BY <1>2, <2>2 DEF HasSession, ReadDocument
  <2>3. \A p \in Project : OfTier(disk[p]["session"])' => OfTier(disk[p]["session"])
    BY <1>1, <1>5 DEF AllDated
  <2>4. \A put \in puts[u] : put.key = "session" /\ OfTier(put.value)' => OfTier(put.value)
    BY <1>1, <1>5 DEF AllDated
  <2>5. \A put \in puts[u] : put.project \in Project
    BY <1>1 DEF WrittenIInv, Queueing
  <2> QED
    BY <1>1, <2>1, <2>2, <2>3, <2>4, <2>5 DEF Mine
<1> QED
  BY <1>3, <1>4, <1>6, <1>7 DEF KnownIInv

(* A tab that opens, or ends, hides nothing. *)
LEMMA KnownOpens ==
  ASSUME KnownIInv, NEW t \in Tabs, OpenTier(t) \/ LoadDocuments(t) \/ Kill(t)
  PROVE  KnownIInv'
<1>1. /\ WrittenIInv /\ AllDated /\ Quiet /\ Theirs /\ Mine /\ WrittenIInv'
      /\ minted \in Nat /\ token \in Nat /\ token <= minted /\ token > 0
      /\ up \in [Tabs -> SUBSET {"tier", "documents"}] /\ tier \in [Tabs -> 0..MaxTokens]
      /\ \A u \in Tabs : "documents" \in up[u] => "tier" \in up[u]
      /\ resident \in [Tabs -> [Project -> Documents]]
      /\ pending = [u \in Tabs |-> pending[u]] /\ puts = [u \in Tabs |-> puts[u]]
      /\ session \in [Tabs -> Capturing \cup {NoSession}]
      /\ removed \in [Tabs -> SUBSET Project] /\ removals \in [Tabs -> SUBSET Project]
  BY OpenTypes DEF KnownIInv, WrittenIInv, Opening, Queueing
<1>2. CASE OpenTier(t)
  <2>1. /\ "tier" \notin up[t] /\ up' = [up EXCEPT ![t] = @ \cup {"tier"}]
        /\ UNCHANGED <<resident, pending, removed, puts, removals, token, session, disk>>
        /\ \/ holder = NoTab /\ holder' = t /\ tier' = [tier EXCEPT ![t] = token]
              /\ minted' = minted
           \/ /\ holder # NoTab /\ minted' = minted + 1
              /\ tier' = [tier EXCEPT ![t] = minted'] /\ holder' = holder
           \/ tier' = [tier EXCEPT ![t] = 0] /\ holder' = holder /\ minted' = minted
    BY <1>2 DEF OpenTier, host
  <2>2. "documents" \notin up[t] /\ pending[t] = {} /\ puts[t] = {} /\ t # holder
    BY <1>1, <2>1 DEF Quiet, Mine
  <2>3. \A u \in Tabs : "documents" \in up'[u] <=> "documents" \in up[u]
    BY <1>1, <2>1
  <2>4. AllDated'
    <3>1. \A document : Dated(document) => Dated(document)'
      BY <1>1, <2>1 DEF Dated
    <3>2. \A u \in Tabs : tier'[u] \in 0..minted'
      BY <1>1, <2>1 DEF AllDated
    <3> QED
      BY <1>1, <2>1, <3>1, <3>2 DEF AllDated
  <2>5. Quiet'
    BY <1>1, <2>1, <2>3 DEF Quiet
  <2>6. Theirs'
    <3>1. \A u \in Tabs : u # holder' => u # holder
      BY <2>1, MarkersAssumption
    <3>2. \A u \in Tabs : u # holder' => tier'[u] # token
      BY <1>1, <2>1, <3>1 DEF Theirs
    <3>3. \A document : OfTier(document)' <=> OfTier(document)
      BY <2>1 DEF OfTier
    <3> QED
      BY <1>1, <2>1, <3>1, <3>2, <3>3 DEF Theirs, OfTier
  <2>7. Mine'
    <3>1. ASSUME NEW u \in Tabs, u = holder', u = t
          PROVE  /\ tier'[u] = token' /\ "tier" \in up'[u]
                 /\ "documents" \notin up'[u] /\ puts'[u] = {}
      BY <1>1, <2>1, <2>2, <2>3, <3>1
    <3>2. ASSUME NEW u \in Tabs, u = holder', u # t
          PROVE  /\ u = holder /\ tier'[u] = tier[u] /\ up'[u] = up[u]
      BY <1>1, <2>1, <3>2
    <3> QED
      BY <1>1, <2>1, <3>1, <3>2 DEF Mine, OfTier, HasSession, ReadDocument
  <2> QED
    BY <1>1, <2>4, <2>5, <2>6, <2>7 DEF KnownIInv
<1>3. CASE LoadDocuments(t)
  <2>1. /\ "documents" \notin up[t] /\ "tier" \in up[t]
        /\ up' = [up EXCEPT ![t] = @ \cup {"documents"}]
        /\ resident' = [resident EXCEPT ![t] = disk]
        /\ UNCHANGED <<pending, removed, puts, removals, tier, token, holder, minted, session,
                       disk>>
    BY <1>3 DEF LoadDocuments, MayLoad, tiers
  <2>2. pending[t] = {} /\ puts[t] = {}
    BY <1>1, <2>1 DEF Quiet
  <2>3. resident'[t] = disk /\ \A u \in Tabs \ {t} : resident'[u] = resident[u] /\ up'[u] = up[u]
    BY <1>1, <2>1
  <2>4. AllDated'
    BY <1>1, <2>1, <2>3 DEF AllDated, Dated
  <2>5. Quiet'
    BY <1>1, <2>1 DEF Quiet
  <2>6. Theirs'
    BY <1>1, <2>1, <2>2, <2>3 DEF Theirs, OfTier
  <2>7. Mine'
    <3>1. \A p \in Project : OfTier(disk[p]["session"]) => HasSession(t, p)'
      BY <2>1, <2>3 DEF OfTier, HasSession, ReadDocument
    <3>2. \A u \in Tabs \ {t}, p \in Project : HasSession(u, p)' <=> HasSession(u, p)
      BY <2>3 DEF HasSession, ReadDocument
    <3>3. \A document : OfTier(document)' <=> OfTier(document)
      BY <2>1 DEF OfTier
    <3>4. \A u \in Tabs : \A put \in puts[u] : put.project \in Project
      BY <1>1 DEF WrittenIInv, Queueing
    <3>5. \A u \in Tabs : "tier" \in up[u] => "tier" \in up'[u]
      BY <1>1, <2>1
    <3> QED
      BY <1>1, <2>1, <2>2, <2>3, <3>1, <3>2, <3>3, <3>4, <3>5 DEF Mine
  <2> QED
    BY <1>1, <2>4, <2>5, <2>6, <2>7 DEF KnownIInv
<1>4. CASE Kill(t)
  <2>1. /\ up' = [up EXCEPT ![t] = {}] /\ tier' = [tier EXCEPT ![t] = 0]
        /\ resident' = [resident EXCEPT ![t] = [p \in Project |-> NoDocuments]]
        /\ pending' = [pending EXCEPT ![t] = {}] /\ removed' = [removed EXCEPT ![t] = {}]
        /\ puts' = [puts EXCEPT ![t] = {}] /\ removals' = [removals EXCEPT ![t] = {}]
        /\ session' = [session EXCEPT ![t] = NoSession]
        /\ holder' = IF holder = t THEN NoTab ELSE holder
        /\ UNCHANGED <<token, minted, disk>>
    BY <1>4 DEF Kill
  <2>2. /\ pending'[t] = {} /\ puts'[t] = {} /\ session'[t] = NoSession /\ tier'[t] = 0
        /\ \A p \in Project : resident'[t][p]["session"] = NoDocument
        /\ \A u \in Tabs \ {t} :
             /\ up'[u] = up[u] /\ tier'[u] = tier[u] /\ resident'[u] = resident[u]
             /\ pending'[u] = pending[u] /\ puts'[u] = puts[u] /\ session'[u] = session[u]
             /\ removed'[u] = removed[u] /\ removals'[u] = removals[u]
        /\ holder' # t /\ \A u \in Tabs \ {t} : u = holder' <=> u = holder
    BY <1>1, <2>1, NothingWritten, MarkersAssumption
  <2>3. \A document : (OfTier(document)' <=> OfTier(document)) /\ (Dated(document)' <=> Dated(document))
    BY <2>1 DEF OfTier, Dated
  <2>4. AllDated'
    <3>1. \A p \in Project : Dated(resident'[t][p]["session"])
      BY <2>2 DEF Dated
    <3> QED
      BY <1>1, <2>1, <2>2, <3>1 DEF AllDated, Dated
  <2>5. Quiet'
    BY <1>1, <2>2 DEF Quiet
  <2>6. Theirs'
    BY <1>1, <2>1, <2>2 DEF Theirs, OfTier
  <2>7. Mine'
    BY <1>1, <2>1, <2>2 DEF Mine, OfTier, HasSession, ReadDocument
  <2> QED
    BY <1>1, <2>4, <2>5, <2>6, <2>7 DEF KnownIInv
<1> QED
  BY <1>2, <1>3, <1>4

(* A persist, and what is put back where it is refused, hides nothing. *)
LEMMA KnownPersists ==
  ASSUME KnownIInv, NEW t \in Tabs,
         Persist(t) \/ RemoveNext(t) \/ PutNext(t) \/ PutRefused(t)
  PROVE  KnownIInv'
<1>1. /\ WrittenIInv /\ AllDated /\ Quiet /\ Theirs /\ Mine /\ WrittenIInv'
      /\ disk \in [Project -> Documents]
      /\ pending = [u \in Tabs |-> pending[u]] /\ puts = [u \in Tabs |-> puts[u]]
      /\ removed \in [Tabs -> SUBSET Project] /\ removals \in [Tabs -> SUBSET Project]
      /\ \A u \in Tabs : \A e \in pending[u] : e.project \in Project /\ e.key \in Keys
      /\ \A u \in Tabs : \A put \in puts[u] : put.project \in Project /\ put.key \in Keys
  BY PersistTypes DEF KnownIInv, WrittenIInv, Queueing
<1>2. UNCHANGED <<up, resident, tier, token, holder, minted, session>>
  BY DEF Persist, RemoveNext, PutNext, PutRefused, tiers, bounds
<1>3. /\ \A document : OfTier(document)' <=> OfTier(document)
      /\ \A document : Dated(document)' <=> Dated(document)
      /\ \A u \in Tabs, p \in Project : HasSession(u, p)' <=> HasSession(u, p)
  BY <1>2 DEF OfTier, Dated, HasSession, ReadDocument
<1>4. CASE Persist(t)
  <2> DEFINE taken == {[at |-> e.at, project |-> e.project, key |-> e.key,
                        value |-> resident[t][e.project][e.key]] : e \in pending[t]}
  <2>1. /\ puts' = [puts EXCEPT ![t] = taken] /\ removals' = [removals EXCEPT ![t] = removed[t]]
        /\ pending' = [pending EXCEPT ![t] = {}] /\ removed' = [removed EXCEPT ![t] = {}]
        /\ disk' = disk
    BY <1>4 DEF Persist, Running
  <2>2. \A put \in taken : \E e \in pending[t] :
          /\ put.project = e.project /\ put.key = e.key
          /\ put.key = "session" => put.value = resident[t][e.project]["session"]
    OBVIOUS
  <2>3. "documents" \notin up[t] => taken = {}
    BY <1>1 DEF Quiet
  <2> HIDE DEF taken
  <2>4. /\ puts'[t] = taken /\ pending'[t] = {} /\ removals'[t] = removed[t] /\ removed'[t] = {}
        /\ \A u \in Tabs \ {t} :
             /\ puts'[u] = puts[u] /\ pending'[u] = pending[u]
             /\ removals'[u] = removals[u] /\ removed'[u] = removed[u]
    BY <1>1, <2>1
  <2>5. AllDated'
    <3>1. \A put \in taken : put.key = "session" => Dated(put.value)
      BY <1>1, <2>2 DEF AllDated
    <3>2. \A u \in Tabs : \A put \in puts'[u] : put.key = "session" => Dated(put.value)
      BY <1>1, <2>4, <3>1 DEF AllDated
    <3>3. UNCHANGED <<tier, minted, disk, resident>>
      BY <1>2, <2>1
    <3> QED
      BY <1>1, <3>2, <3>3 DEF AllDated, Dated
  <2>6. Quiet'
    BY <1>1, <1>2, <2>3, <2>4 DEF Quiet
  <2>7. Theirs'
    <3>1. \A put \in taken : t # holder /\ put.key = "session" =>
            ~OfTier(put.value) /\ ~OfTier(resident[t][put.project]["session"])
      BY <1>1, <2>2 DEF Theirs
    <3> QED
      BY <1>1, <1>2, <2>4, <3>1 DEF Theirs, OfTier
  <2>8. Mine'
    <3>1. \A put \in taken : put.key = "session" /\ OfTier(put.value) => HasSession(t, put.project)
      BY <2>2 DEF OfTier, HasSession, ReadDocument
    <3>2. \A put \in taken : put.project \in Project
      BY <1>1, <2>2
    <3>3. removals[t] = {}
      BY <1>4 DEF Persist, Running
    <3>4. ASSUME NEW u \in Tabs, NEW put \in puts'[u], u = holder, put.key = "session",
                 OfTier(put.value)
          PROVE  HasSession(u, put.project)' \/ put.project \in removed'[u]
      <4>1. CASE u = t
        BY <1>3, <2>4, <3>1, <3>2, <3>4, <4>1
      <4>2. CASE u # t
        BY <1>1, <1>3, <2>4, <3>4, <4>2 DEF Mine
      <4> QED
        BY <4>1, <4>2
    <3>5. \A u \in Tabs : removed[u] \cup removals[u] \subseteq removed'[u] \cup removals'[u]
      BY <2>4, <3>3
    <3>6. UNCHANGED <<tier, token, up, disk, holder>>
      BY <1>2, <2>1
    <3>7. ASSUME NEW u \in Tabs, u = holder, "documents" \in up[u], NEW p \in Project,
                 OfTier(disk[p]["session"])
          PROVE  HasSession(u, p)' \/ p \in removed'[u] \cup removals'[u]
      BY <1>1, <1>3, <3>5, <3>7 DEF Mine
    <3> QED
      BY <1>1, <3>4, <3>6, <3>7 DEF Mine, OfTier
  <2> QED
    BY <1>1, <2>5, <2>6, <2>7, <2>8 DEF KnownIInv
<1>5. CASE RemoveNext(t)
  <2>1. PICK p \in removals[t] :
          /\ removals' = [removals EXCEPT ![t] = @ \ {p}]
          /\ disk' = [disk EXCEPT ![p] = NoDocuments]
    BY <1>5 DEF RemoveNext
  <2>2. UNCHANGED <<pending, removed, puts>>
    BY <1>5 DEF RemoveNext
  <2>3. /\ p \in Project /\ disk'[p]["session"] = NoDocument
        /\ \A o \in Project \ {p} : disk'[o] = disk[o]
        /\ \A u \in Tabs, o \in Project \ {p} : o \in removals'[u] <=> o \in removals[u]
    BY <1>1, <2>1, NothingWritten
  <2>4. AllDated'
    <3>1. Dated(disk'[p]["session"])
      BY <2>3 DEF Dated
    <3> QED
      BY <1>1, <1>2, <1>3, <2>2, <2>3, <3>1 DEF AllDated, Dated
  <2>5. Quiet' /\ Theirs'
    BY <1>1, <1>2, <1>3, <2>2 DEF Quiet, Theirs, OfTier
  <2>6. Mine'
    <3>1. ~OfTier(disk'[p]["session"])
      BY <2>3 DEF OfTier
    <3>2. \A o \in Project : OfTier(disk'[o]["session"]) => o # p /\ OfTier(disk[o]["session"])
      BY <2>3, <3>1
    <3> QED
      BY <1>1, <1>2, <1>3, <2>2, <2>3, <3>2 DEF Mine, OfTier
  <2> QED
    BY <1>1, <2>4, <2>5, <2>6 DEF KnownIInv
<1>6. CASE PutNext(t)
  <2>1. PICK put \in puts[t] :
          /\ disk' = [disk EXCEPT ![put.project][put.key] = put.value]
          /\ puts' = [puts EXCEPT ![t] = @ \ {put}]
    BY <1>6 DEF PutNext
  <2>2. UNCHANGED <<pending, removed, removals>> /\ removals[t] = {}
    BY <1>6 DEF PutNext
  <2> DEFINE q == put.project
  <2>3. q \in Project /\ put.key \in Keys
    BY <1>1
  <2>4. /\ \A o \in Project \ {q} : disk'[o] = disk[o]
        /\ put.key = "session" => disk'[q]["session"] = put.value
        /\ put.key # "session" => disk'[q]["session"] = disk[q]["session"]
    <3> DEFINE was == disk[q]
    <3>1. was \in [Keys -> Value] /\ "session" \in Keys
      BY <1>1, <2>3 DEF Documents, Keys
    <3>2. disk' = [disk EXCEPT ![q] = [was EXCEPT ![put.key] = put.value]]
      BY <2>1
    <3> HIDE DEF was, q
    <3>3. disk'[q] = [was EXCEPT ![put.key] = put.value] /\ \A o \in Project \ {q} : disk'[o] = disk[o]
      BY <1>1, <2>3, <3>2
    <3>4. was = disk[q]
      BY DEF was
    <3> QED
      BY <2>3, <3>1, <3>3, <3>4
  <2> HIDE DEF q
  <2>5. \A u \in Tabs : puts'[u] \subseteq puts[u]
    BY <1>1, <2>1
  <2>6. AllDated'
    <3>1. put.key = "session" => Dated(put.value)
      BY <1>1 DEF AllDated
    <3>2. \A o \in Project : Dated(disk'[o]["session"])
      BY <1>1, <2>3, <2>4, <3>1 DEF AllDated
    <3> QED
      BY <1>1, <1>2, <1>3, <2>5, <3>2 DEF AllDated, Dated
  <2>7. Quiet'
    BY <1>1, <1>2, <2>2, <2>5 DEF Quiet
  <2>8. Theirs'
    BY <1>1, <1>2, <1>3, <2>2, <2>5 DEF Theirs, OfTier
  <2>9. Mine'
    <3>1. ASSUME NEW u \in Tabs, u = holder, "documents" \in up[u], NEW o \in Project,
                 OfTier(disk'[o]["session"])
          PROVE  HasSession(u, o) \/ o \in removed[u] \cup removals[u]
      <4>1. CASE OfTier(disk[o]["session"])
        BY <1>1, <3>1, <4>1 DEF Mine
      <4>2. CASE ~OfTier(disk[o]["session"])
        <5>1. o = q /\ put.key = "session" /\ OfTier(put.value)
          BY <2>4, <3>1, <4>2
        <5>2. u = t
          BY <1>1, <3>1, <5>1 DEF Theirs
        <5> QED
          BY <1>1, <3>1, <5>1, <5>2 DEF Mine, q
      <4> QED
        BY <4>1, <4>2
    <3> QED
      BY <1>1, <1>2, <1>3, <2>2, <2>5, <3>1 DEF Mine, OfTier
  <2> QED
    BY <1>1, <2>6, <2>7, <2>8, <2>9 DEF KnownIInv
<1>7. CASE PutRefused(t)
  <2> DEFINE still == {put \in puts[t] : /\ ~IsQueued(pending[t], put.project, put.key)
                                         /\ resident[t][put.project][put.key] # NoDocument}
             back == {Entry(Last(pending[t]) + put.at, put.project, put.key) : put \in still}
  <2>1. /\ pending' = [pending EXCEPT ![t] = @ \cup back] /\ puts' = [puts EXCEPT ![t] = {}]
        /\ UNCHANGED <<removed, removals, disk>>
    BY <1>7 DEF PutRefused
  <2>2. \A e \in back : \E put \in puts[t] : e.project = put.project /\ e.key = put.key
    BY DEF Entry
  <2> HIDE DEF back
  <2>3. /\ pending'[t] = pending[t] \cup back /\ puts'[t] = {}
        /\ \A u \in Tabs \ {t} : pending'[u] = pending[u] /\ puts'[u] = puts[u]
    BY <1>1, <2>1
  <2>4. AllDated'
    BY <1>1, <1>2, <1>3, <2>1, <2>3 DEF AllDated, Dated
  <2>5. Quiet'
    BY <1>1, <1>2, <2>2, <2>3 DEF Quiet
  <2>6. Theirs'
    <3>1. \A e \in pending'[t] \cup puts'[t] : \E d \in pending[t] \cup puts[t] :
            e.project = d.project /\ e.key = d.key
      BY <2>2, <2>3
    <3> QED
      BY <1>1, <1>2, <1>3, <2>3, <3>1 DEF Theirs, OfTier
  <2>7. Mine'
    BY <1>1, <1>2, <1>3, <2>1, <2>3 DEF Mine, OfTier
  <2> QED
    BY <1>1, <2>4, <2>5, <2>6, <2>7 DEF KnownIInv
<1> QED
  BY <1>4, <1>5, <1>6, <1>7

(* Making a project, deleting one and taking a capture up again hide         *)
(* nothing: what a tab has deleted it will remove.                           *)
LEMMA KnownProjects ==
  ASSUME KnownIInv, NEW t \in Tabs,
         Create(t) \/ \E p \in Project : Delete(t, p) \/ Resume(t, p)
  PROVE  KnownIInv'
<1>1. /\ WrittenIInv /\ AllDated /\ Quiet /\ Theirs /\ Mine
      /\ resident \in [Tabs -> [Project -> Documents]]
      /\ pending = [u \in Tabs |-> pending[u]]
      /\ session \in [Tabs -> Capturing \cup {NoSession}]
      /\ removed \in [Tabs -> SUBSET Project] /\ issued \in 0..MaxProjects /\ MaxProjects \in Nat
      /\ \A u \in Tabs : \A e \in pending[u] : e.project \in Project /\ e.key \in Keys
      /\ \A u \in Tabs : \A put \in puts[u] : put.project \in Project /\ put.key \in Keys
  BY ProjectsAssumption DEF KnownIInv, WrittenIInv, Queueing
<1>2. UNCHANGED <<up, puts, removals, tier, token, holder, minted, disk>>
  BY DEF Create, Delete, Resume, tiers, host
<1>3. /\ \A document : OfTier(document)' <=> OfTier(document)
      /\ \A document : Dated(document)' <=> Dated(document)
  BY <1>2 DEF OfTier, Dated
<1>4. CASE Create(t)
  <2> DEFINE q == issued'
             mine == resident[t]
  <2>1. /\ q = issued + 1 /\ issued < MaxProjects /\ "documents" \in up[t]
        /\ resident' = [resident EXCEPT ![t] = [mine EXCEPT ![q]["title"] = Titled]]
        /\ pending' = [pending EXCEPT ![t] = Queued(pending[t], q, "title")]
        /\ UNCHANGED <<removed, session>>
    BY <1>4 DEF Create, IssueProjectId, WriteDocument, Open
  <2>2. q \in Project /\ mine \in [Project -> Documents]
    BY <1>1, <2>1 DEF Project
  <2>3. \A e \in Queued(pending[t], q, "title") : e \in pending[t] \/ e.key = "title"
    BY DEF Queued, Entry
  <2>4. /\ pending'[t] = Queued(pending[t], q, "title")
        /\ \A u \in Tabs \ {t} : pending'[u] = pending[u]
    BY <1>1, <2>1
  <2>5. \A u \in Tabs, p \in Project : resident'[u][p]["session"] = resident[u][p]["session"]
    <3> DEFINE then == [mine EXCEPT ![q]["title"] = Titled]
    <3>1. mine[q] \in [Keys -> Value] /\ "session" \in Keys /\ "title" \in Keys
      BY <2>2 DEF Documents, Keys
    <3> HIDE DEF mine, q
    <3>2. \A p \in Project : then[p]["session"] = mine[p]["session"]
      BY <2>2, <3>1
    <3> HIDE DEF then
    <3>3. resident'[t] = then /\ \A u \in Tabs \ {t} : resident'[u] = resident[u]
      BY <1>1, <2>1 DEF then
    <3> QED
      BY <3>2, <3>3 DEF mine
  <2>6. \A u \in Tabs, p \in Project : HasSession(u, p)' <=> HasSession(u, p)
    BY <2>5 DEF HasSession, ReadDocument
  <2>7. AllDated'
    BY <1>1, <1>2, <1>3, <2>5 DEF AllDated, Dated
  <2>8. Quiet'
    BY <1>1, <1>2, <2>1, <2>4 DEF Quiet
  <2>9. Theirs'
    <3>1. \A u \in Tabs : \A e \in pending'[u] : e.key = "session" => e \in pending[u]
      BY <2>3, <2>4
    <3> QED
      BY <1>1, <1>2, <1>3, <2>5, <3>1 DEF Theirs, OfTier
  <2>10. Mine'
    BY <1>1, <1>2, <1>3, <2>1, <2>6 DEF Mine, OfTier
  <2> QED
    BY <1>1, <1>4, ProjectTypes, <2>7, <2>8, <2>9, <2>10 DEF KnownIInv
<1>5. ASSUME NEW p \in Project, Delete(t, p) PROVE KnownIInv'
  <2>1. /\ resident' = [resident EXCEPT ![t][p] = NoDocuments]
        /\ pending' = [pending EXCEPT ![t] = {e \in @ : e.project # p}]
        /\ removed' = [removed EXCEPT ![t] = @ \cup {p}]
        /\ session' = session /\ "documents" \in up[t]
    BY <1>5 DEF Delete, RemoveProject, Open
  <2>2. /\ resident'[t][p]["session"] = NoDocument
        /\ \A o \in Project \ {p} : resident'[t][o] = resident[t][o]
        /\ \A u \in Tabs \ {t} : resident'[u] = resident[u]
    BY <1>1, <2>1, NothingWritten
  <2>3. \A u \in Tabs : pending'[u] \subseteq pending[u]
    BY <1>1, <2>1
  <2>4. /\ removed'[t] = removed[t] \cup {p}
        /\ \A u \in Tabs \ {t} : removed'[u] = removed[u]
    BY <1>1, <2>1
  <2>5. \A u \in Tabs, o \in Project :
          resident'[u][o]["session"] \in {NoDocument, resident[u][o]["session"]}
    BY <2>2
  <2>6. AllDated'
    BY <1>1, <1>2, <1>3, <2>5 DEF AllDated, Dated
  <2>7. Quiet'
    BY <1>1, <1>2, <2>1, <2>3 DEF Quiet
  <2>8. Theirs'
    <3>1. \A u \in Tabs, o \in Project :
            OfTier(resident'[u][o]["session"]) => OfTier(resident[u][o]["session"])
      BY <2>5 DEF OfTier
    <3> QED
      BY <1>1, <1>2, <1>3, <2>3, <3>1 DEF Theirs, OfTier
  <2>9. Mine'
    <3>1. \A u \in Tabs, o \in Project :
            HasSession(u, o) => HasSession(u, o)' \/ o \in removed'[u]
      BY <2>2, <2>4 DEF HasSession, ReadDocument
    <3>2. \A u \in Tabs : removed[u] \subseteq removed'[u]
      BY <2>4
    <3> QED
      BY <1>1, <1>2, <1>3, <3>1, <3>2 DEF Mine, OfTier
  <2>10. WrittenIInv'
    BY <1>1, <1>5, ProjectTypes
  <2> QED
    BY <2>6, <2>7, <2>8, <2>9, <2>10 DEF KnownIInv
<1>6. ASSUME NEW p \in Project, Resume(t, p) PROVE KnownIInv'
  <2>1. /\ "documents" \in up[t] /\ \A u \in Tabs \ {t} : session'[u] = session[u]
        /\ UNCHANGED <<resident, pending, removed>>
    BY <1>1, <1>6 DEF Resume, Open, host
  <2>2. WrittenIInv'
    BY <1>1, <1>6, ResumeTypes
  <2> QED
    BY <1>1, <1>2, <1>3, <2>1, <2>2
    DEF KnownIInv, AllDated, Quiet, Theirs, Mine, OfTier, Dated, HasSession, ReadDocument
<1> QED
  BY <1>4, <1>5, <1>6

(* Beginning a capture and going on with one hide nothing. *)
LEMMA KnownCaptures ==
  ASSUME KnownIInv, NEW t \in Tabs,
         Capture(t) \/ End(t) \/ \E p \in Project : Begin(t, p)
  PROVE  KnownIInv'
<1>1. WrittenIInv /\ Quiet /\ Opening /\ session \in [Tabs -> Capturing \cup {NoSession}]
  BY DEF KnownIInv, WrittenIInv
<1>2. /\ UNCHANGED <<puts, removed, removals, disk, up>>
      /\ \A u \in Tabs \ {t} : session'[u] = session[u]
  BY <1>1 DEF Capture, End, Begin
<1>3. CASE Capture(t) \/ End(t)
  <2>1. /\ WrittenIInv' /\ UNCHANGED <<up, tier, token, holder, minted>>
        /\ \E s \in Capturing : Checkpoint(t, tier[t], s)
    BY <1>1, <1>3, CaptureTypes
  <2>2. PICK s \in Capturing : Checkpoint(t, tier'[t], s)
    BY <2>1
  <2>3. "documents" \in up[t]
    BY <1>1, <1>3 DEF Quiet, Capture, End
  <2> QED
    BY <1>2, <2>1, <2>2, <2>3, KnownWrites
<1>4. ASSUME NEW p \in Project, Begin(t, p) PROVE KnownIInv'
  <2>1. /\ WrittenIInv' /\ Cleared(t) /\ session'[t] \in Capturing
        /\ Checkpoint(t, tier'[t], session'[t])
    BY <1>1, <1>4, BeginTypes
  <2>2. "documents" \in up[t]
    BY <1>4 DEF Begin, Open
  <2>3. /\ holder' = holder /\ \A u \in Tabs \ {t} : tier'[u] = tier[u]
        /\ \/ tier'[t] = 0 /\ tier[t] = 0 /\ token' = token /\ minted' = minted
           \/ /\ minted' > minted /\ tier'[t] = minted'
              /\ token' = IF holder = t THEN minted' ELSE token
    BY <1>1, <2>1, ClearedTypes
  <2>4. PICK s \in Capturing : Checkpoint(t, tier'[t], s)
    BY <2>1
  <2> QED
    BY <1>2, <2>1, <2>2, <2>3, <2>4, KnownWrites
<1> QED
  BY <1>3, <1>4

(* No step hides a capture. *)
LEMMA KnownStep == KnownIInv /\ [Next]_vars => KnownIInv'
<1> SUFFICES ASSUME KnownIInv, [Next]_vars PROVE KnownIInv'
  OBVIOUS
<1>1. ASSUME NEW t \in Tabs, OpenTier(t) \/ LoadDocuments(t) \/ Kill(t) PROVE KnownIInv'
  BY <1>1, KnownOpens
<1>2. ASSUME NEW t \in Tabs, Persist(t) \/ RemoveNext(t) \/ PutNext(t) \/ PutRefused(t)
      PROVE  KnownIInv'
  BY <1>2, KnownPersists
<1>3. ASSUME NEW t \in Tabs, Capture(t) \/ End(t) PROVE KnownIInv'
  BY <1>3, KnownCaptures
<1>4. ASSUME NEW t \in Tabs, Create(t) PROVE KnownIInv'
  BY <1>4, KnownProjects
<1>5. ASSUME NEW t \in Tabs, NEW p \in Project, Delete(t, p) \/ Begin(t, p) \/ Resume(t, p)
      PROVE  KnownIInv'
  BY <1>5, KnownProjects, KnownCaptures
<1>6. CASE UNCHANGED vars
  <2>1. WrittenIInv'
    BY <1>6, WrittenStep DEF KnownIInv
  <2> QED
    BY <1>6, <2>1 DEF vars, host, tiers, bounds, KnownIInv, AllDated, Quiet, Theirs, Mine,
      OfTier, Dated, HasSession, ReadDocument
<1> QED
  BY <1>1, <1>2, <1>3, <1>4, <1>5, <1>6 DEF Next

(* A tab that has the resident tier knows of every capture whose frames are  *)
(* in it, or was told to delete it, whatever the tab before it was still     *)
(* writing, and whatever the tabs beside it read.                            *)
THEOREM NothingStaysHidden == Spec => []NothingHidden
BY KnownInit, KnownStep, KnownIsNotHidden, PTL DEF Spec
=============================================================================
