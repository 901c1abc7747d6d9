------------------------------ MODULE Projects ------------------------------
(***************************************************************************)
(* The projects of one origin as its tabs see them: ProjectManager, the    *)
(* session document (session_document.cpp), what Begin and Resume ask of   *)
(* one, the document host of each tab over the one database, and the page, *)
(* which offers back a capture or starts another.                          *)
(*                                                                         *)
(* A tab takes its spill tier first and loads the documents then.  One tab *)
(* at a time has the resident tier; one beside it has a tier of its own,   *)
(* or none.  Each tab reads what it loaded and wrote; what it wrote goes   *)
(* to the database one document after another, may be refused there, and   *)
(* is lost with the tab where it was not put yet.                          *)
(*                                                                         *)
(* A session document keeps its version, its tier, whether its spec is one *)
(* SpecDefect passes, its cells, and the cells its candidates are filed    *)
(* under.  Cell 0 stands for any cell no resume could take.  Identities    *)
(* near 2^52 are left out: no capture comes near issuing one.              *)
(***************************************************************************)
EXTENDS Naturals, FiniteSetsExt

CONSTANTS
  Tabs, Cells,
  MaxProjects,    \* bound: projects
  MaxTokens,      \* bound: tokens of tiers, all tabs together
  MaxKills,       \* bound: tabs that end
  MaxRefusals,    \* bound: puts the database refuses
  MaxDeletes,     \* bound: projects deleted
  MaxWrites,      \* bound: documents written, all tabs together
  NoTab, NoProject, NoDocument, NoSession

ASSUME ProjectsAssumption ==
  /\ MaxProjects \in Nat \ {0} /\ MaxTokens \in Nat \ {0}
  /\ MaxKills \in Nat /\ MaxRefusals \in Nat /\ MaxDeletes \in Nat
  /\ MaxWrites \in Nat
  /\ 0 \notin Cells

VARIABLES
  up,          \* what of its tier and its documents each tab has opened
  tier,        \* the token of its tier, zero for none
  resident,    \* the documents it reads
  pending,     \* what of them no persist has taken: the Map's entries
  removed,     \* projects whose removal no persist has taken
  puts,        \* the persist that runs: what it has to put
  removals,    \* and to remove before that
  session,     \* the capture in progress
  disk,        \* the database
  token,       \* the resident tier's token
  holder,      \* the tab that has it
  issued, minted, writes, kills, refusals, deletes

host == <<resident, pending, removed, puts, removals>>
tiers == <<tier, token, holder, minted>>
bounds == <<issued, writes, kills, refusals, deletes>>
vars == <<up, host, tiers, session, disk, bounds>>

Project == 1..MaxProjects
Plans == SUBSET (Cells \cup {0})
Version == 3
PlanlessVersion == 2
LaterVersion == 4

SessionDocument ==
  [version : {PlanlessVersion, Version, LaterVersion}, generation : 0..MaxTokens,
   sound : BOOLEAN, cells : Plans, filed : SUBSET Cells]

ASSUME MarkersAssumption ==
  NoDocument \notin SessionDocument /\ NoProject \notin Project /\ NoTab \notin Tabs

Titled == "titled"
Keys == {"title", "session"}
NoDocuments == [key \in Keys |-> NoDocument]
Listed(documents) == \E key \in Keys : documents[key] # NoDocument

(* What earlier and later builds may have left in this browser: a capture     *)
(* from before the cells were written, or one this build cannot read.         *)
Earlier ==
  {NoDocument} \cup
  {[version |-> v, generation |-> 1, sound |-> TRUE, cells |-> {}, filed |-> Cells] :
     v \in {PlanlessVersion, LaterVersion}}

Init ==
  /\ up = [t \in Tabs |-> {}] /\ tier = [t \in Tabs |-> 0]
  /\ resident = [t \in Tabs |-> [p \in Project |-> NoDocuments]]
  /\ pending = [t \in Tabs |-> {}] /\ removed = [t \in Tabs |-> {}]
  /\ puts = [t \in Tabs |-> {}] /\ removals = [t \in Tabs |-> {}]
  /\ session = [t \in Tabs |-> NoSession]
  /\ \E first \in Earlier :
       /\ disk = [p \in Project |->
                    IF p = 1 /\ first # NoDocument
                    THEN [title |-> Titled, session |-> first] ELSE NoDocuments]
       /\ issued = IF first = NoDocument THEN 0 ELSE 1
  /\ token = 1 /\ holder = NoTab /\ minted = 1
  /\ writes = 0 /\ kills = 0 /\ refusals = 0 /\ deletes = 0

-----------------------------------------------------------------------------
(* What makes a document one that can be read, and a plan one that can be     *)
(* resumed.                                                                   *)
PlanDefect(cells) == cells = {} \/ 0 \in cells
SpecDefect(sound) == ~sound
FilesEveryCandidate(cells, filed) == filed \subseteq cells

Decodes(document) ==
  /\ document.version \in {PlanlessVersion, Version}
  /\ document.version = Version => ~PlanDefect(document.cells)

(* Fault: a plan is begun with whatever cells the planner laid. *)
BeginnableUnread(cells, sound) == ~SpecDefect(sound)

(* Begin holds the spec and the plan to what a resume will. *)
Beginnable(cells, sound) == ~SpecDefect(sound) /\ ~PlanDefect(cells)

(* Resume, of a document it has decoded and the plan it took from it or laid  *)
(* again.                                                                     *)
Resumable(document, cells) ==
  /\ ~SpecDefect(document.sound)
  /\ ~PlanDefect(cells)
  /\ FilesEveryCandidate(cells, document.filed)

(* A store with no tier adopts no frame. *)
Adoptable(generation, document) ==
  /\ document.generation = generation
  /\ generation = 0 => document.filed = {}

-----------------------------------------------------------------------------
(* ProjectManager::List of one project, and the page's choice of what to      *)
(* offer: the newest capture in this tab's tier, readable before unreadable.  *)
ReadDocument(t, p, key) == resident[t][p][key]
HasSession(t, p) == ReadDocument(t, p, "session") # NoDocument
Unreadable(t, p) == ~Decodes(ReadDocument(t, p, "session"))

(* Fault: zero matches zero, whatever frames the document names. *)
InAnotherTierByToken(t, p) == resident[t][p].session.generation # tier[t]

InAnotherTier(t, p) ==
  \/ resident[t][p].session.generation # tier[t]
  \/ tier[t] = 0 /\ resident[t][p].session.filed # {}

Offerable(t) ==
  {p \in Project : HasSession(t, p) /\ (Unreadable(t, p) \/ ~InAnotherTier(t, p))}

ResumableProject(t) ==
  LET readable == {p \in Offerable(t) : ~Unreadable(t, p)}
  IN  IF readable # {} THEN Max(readable)
      ELSE IF Offerable(t) # {} THEN Max(Offerable(t))
      ELSE NoProject

-----------------------------------------------------------------------------
(* A tab comes up: its tier, for which it may wait, then its documents.       *)
OpenTier(t) ==
  /\ "tier" \notin up[t]
  /\ up' = [up EXCEPT ![t] = @ \cup {"tier"}]
  /\ \/ /\ holder = NoTab
        /\ holder' = t /\ tier' = [tier EXCEPT ![t] = token] /\ UNCHANGED minted
     \/ /\ holder # NoTab /\ minted < MaxTokens
        /\ minted' = minted + 1 /\ tier' = [tier EXCEPT ![t] = minted'] /\ UNCHANGED holder
     \/ tier' = [tier EXCEPT ![t] = 0] /\ UNCHANGED <<holder, minted>>
  /\ UNCHANGED <<host, token, session, disk, bounds>>

(* Fault: the documents are loaded whether or not the tier is decided. *)
MayLoadFirst(t) == TRUE

MayLoad(t) == "tier" \in up[t]

LoadDocuments(t) ==
  /\ "documents" \notin up[t] /\ MayLoad(t)
  /\ up' = [up EXCEPT ![t] = @ \cup {"documents"}]
  /\ resident' = [resident EXCEPT ![t] = disk]
  /\ UNCHANGED <<pending, removed, puts, removals, tiers, session, disk, bounds>>

Open(t) == up[t] = {"tier", "documents"}

(* The tab ends, its worker with it, and what no persist had put is lost. *)
Kill(t) ==
  /\ up[t] # {} /\ kills < MaxKills
  /\ kills' = kills + 1
  /\ up' = [up EXCEPT ![t] = {}] /\ tier' = [tier EXCEPT ![t] = 0]
  /\ resident' = [resident EXCEPT ![t] = [p \in Project |-> NoDocuments]]
  /\ pending' = [pending EXCEPT ![t] = {}] /\ removed' = [removed EXCEPT ![t] = {}]
  /\ puts' = [puts EXCEPT ![t] = {}] /\ removals' = [removals EXCEPT ![t] = {}]
  /\ session' = [session EXCEPT ![t] = NoSession]
  /\ holder' = IF holder = t THEN NoTab ELSE holder
  /\ UNCHANGED <<token, minted, disk, issued, writes, refusals, deletes>>

-----------------------------------------------------------------------------
(* The document host.  A Map is in the order its keys were set in, and a key   *)
(* it has keeps its place.                                                     *)
Entry(at, p, key) == [at |-> at, project |-> p, key |-> key]
IsQueued(queue, p, key) == \E e \in queue : e.project = p /\ e.key = key
Last(queue) == Max({0} \cup {e.at : e \in queue})
Queued(queue, p, key) ==
  IF IsQueued(queue, p, key) THEN queue ELSE queue \cup {Entry(Last(queue) + 1, p, key)}
First(e, queue) == e \in queue /\ \A other \in queue : e.at <= other.at

WriteDocument(t, p, key, value) ==
  /\ writes < MaxWrites /\ writes' = writes + 1
  /\ resident' = [resident EXCEPT ![t][p][key] = value]
  /\ pending' = [pending EXCEPT ![t] = Queued(@, p, key)]

Running(t) == puts[t] # {} \/ removals[t] # {}

Persist(t) ==
  /\ ~Running(t) /\ (pending[t] # {} \/ removed[t] # {})
  /\ puts' = [puts EXCEPT ![t] =
       {[at |-> e.at, project |-> e.project, key |-> e.key,
         value |-> resident[t][e.project][e.key]] : e \in pending[t]}]
  /\ removals' = [removals EXCEPT ![t] = removed[t]]
  /\ pending' = [pending EXCEPT ![t] = {}] /\ removed' = [removed EXCEPT ![t] = {}]
  /\ UNCHANGED <<up, resident, tiers, session, disk, bounds>>

RemoveNext(t) ==
  /\ \E p \in removals[t] :
       /\ removals' = [removals EXCEPT ![t] = @ \ {p}]
       /\ disk' = [disk EXCEPT ![p] = NoDocuments]
  /\ UNCHANGED <<up, resident, pending, removed, puts, tiers, session, bounds>>

PutNext(t) ==
  /\ removals[t] = {}
  /\ \E put \in puts[t] :
       /\ First(put, puts[t])
       /\ disk' = [disk EXCEPT ![put.project][put.key] = put.value]
       /\ puts' = [puts EXCEPT ![t] = @ \ {put}]
  /\ UNCHANGED <<up, resident, pending, removed, removals, tiers, session, bounds>>

(* The database refuses: what it was to put is queued again, behind what was  *)
(* written since, unless it was removed since.  (What it had put or removed   *)
(* is done once more too, to the same effect.)                                *)
PutRefused(t) ==
  /\ removals[t] = {} /\ puts[t] # {} /\ refusals < MaxRefusals
  /\ refusals' = refusals + 1
  /\ LET still == {put \in puts[t] : /\ ~IsQueued(pending[t], put.project, put.key)
                                     /\ resident[t][put.project][put.key] # NoDocument}
     IN  pending' = [pending EXCEPT ![t] =
           @ \cup {Entry(Last(@) + put.at, put.project, put.key) : put \in still}]
  /\ puts' = [puts EXCEPT ![t] = {}]
  /\ UNCHANGED <<up, resident, removed, removals, tiers, session, disk, issued, writes, kills,
                 deletes>>

-----------------------------------------------------------------------------
(* ProjectManager.  The draw keeps the identities of different tabs apart.    *)
IssueProjectId == issued < MaxProjects /\ issued' = issued + 1

Create(t) ==
  /\ Open(t)
  /\ IssueProjectId
  /\ WriteDocument(t, issued', "title", Titled)
  /\ UNCHANGED <<up, removed, puts, removals, tiers, session, disk, kills, refusals, deletes>>

RemoveProject(t, p) ==
  /\ Listed(resident[t][p])
  /\ resident' = [resident EXCEPT ![t][p] = NoDocuments]
  /\ pending' = [pending EXCEPT ![t] = {e \in @ : e.project # p}]
  /\ removed' = [removed EXCEPT ![t] = @ \cup {p}]

Delete(t, p) ==
  /\ Open(t) /\ deletes < MaxDeletes
  /\ deletes' = deletes + 1
  /\ RemoveProject(t, p)
  /\ UNCHANGED <<up, puts, removals, tiers, session, disk, issued, writes, kills, refusals>>

-----------------------------------------------------------------------------
(* The session.                                                               *)
Encoded(generation, running) ==
  [version |-> Version, generation |-> generation, sound |-> running.sound,
   cells |-> running.cells, filed |-> running.filed]

Checkpoint(t, generation, running) ==
  WriteDocument(t, running.project, "session", Encoded(generation, running))

(* Clear empties the tier, under a token nothing has had. *)
Cleared(t) ==
  IF tier[t] = 0 THEN UNCHANGED tiers
  ELSE /\ minted < MaxTokens
       /\ minted' = minted + 1 /\ tier' = [tier EXCEPT ![t] = minted']
       /\ token' = IF holder = t THEN minted' ELSE token
       /\ UNCHANGED holder

Begin(t, p) ==
  /\ Open(t) /\ session[t] = NoSession
  /\ ReadDocument(t, p, "title") = Titled
  /\ \E cells \in Plans, sound \in BOOLEAN :
       /\ Beginnable(cells, sound)
       /\ Cleared(t)
       /\ session' = [session EXCEPT ![t] =
            [project |-> p, sound |-> sound, cells |-> cells, filed |-> {}]]
  /\ Checkpoint(t, tier'[t], session'[t])
  /\ UNCHANGED <<up, removed, puts, removals, disk, issued, kills, refusals,
                 deletes>>

(* The cells are the document's, or those the planner lays for its spec now. *)
Resume(t, p) ==
  /\ Open(t) /\ session[t] = NoSession
  /\ HasSession(t, p) /\ ~Unreadable(t, p)
  /\ LET document == resident[t][p].session
     IN  \E cells \in IF document.version = PlanlessVersion THEN Plans ELSE {document.cells} :
           /\ Adoptable(tier[t], document) /\ Resumable(document, cells)
           /\ session' = [session EXCEPT ![t] =
                [project |-> p, sound |-> document.sound, cells |-> cells,
                 filed |-> document.filed]]
  /\ UNCHANGED <<up, host, tiers, disk, bounds>>

(* A burst or an offered frame fills a cell, or a retake empties it. *)
Capture(t) ==
  /\ session[t] # NoSession
  /\ \E cell \in session[t].cells :
       session' = [session EXCEPT ![t].filed =
                     IF cell \in @ THEN @ \ {cell} ELSE @ \cup {cell}]
  /\ Checkpoint(t, tier[t], session'[t])
  /\ UNCHANGED <<up, removed, puts, removals, tiers, disk, issued, kills,
                 refusals, deletes>>

End(t) ==
  /\ session[t] # NoSession
  /\ Checkpoint(t, tier[t], session[t])
  /\ session' = [session EXCEPT ![t] = NoSession]
  /\ UNCHANGED <<up, removed, puts, removals, tiers, disk, issued, kills,
                 refusals, deletes>>

Next ==
  \E t \in Tabs :
    \/ OpenTier(t) \/ LoadDocuments(t) \/ Kill(t)
    \/ Persist(t) \/ RemoveNext(t) \/ PutNext(t) \/ PutRefused(t)
    \/ Create(t) \/ Capture(t) \/ End(t)
    \/ \E p \in Project : Delete(t, p) \/ Begin(t, p) \/ Resume(t, p)

Spec == Init /\ [][Next]_vars

-----------------------------------------------------------------------------
(* The page can believe the listing: a capture of this build's it offers is   *)
(* not refused for what its document says or for the tier its frames are in,  *)
(* and one in this tab's tier is not passed over for another.                 *)
OfferStands ==
  \A t \in Tabs : Open(t) /\ session[t] = NoSession =>
    LET offer == ResumableProject(t)
    IN  /\ offer # NoProject /\ ~Unreadable(t, offer) =>
             LET document == resident[t][offer].session
             IN  /\ Adoptable(tier[t], document)
                 /\ document.version = Version => Resumable(document, document.cells)
        /\ \A p \in Project :
             /\ HasSession(t, p) /\ ~Unreadable(t, p)
             /\ resident[t][p].session.generation = tier[t] /\ tier[t] # 0
             => offer # NoProject /\ ~Unreadable(t, offer)

(* Whatever this build writes down of a capture, it reads back and takes up   *)
(* again, whichever planner laid its cells and whichever build began it.      *)
WrittenIsResumable ==
  \A p \in Project :
    \A document \in {disk[p].session} \cup {resident[t][p].session : t \in Tabs} :
      document # NoDocument /\ document.version = Version =>
        Decodes(document) /\ Resumable(document, document.cells)

(* A tab that has the resident tier knows of every capture whose frames are   *)
(* in it, or was told to delete it: what its next Begin empties, its page     *)
(* could offer back, whatever the tab before it was still writing.            *)
NothingHidden ==
  \A t \in Tabs : Open(t) /\ holder = t =>
    \A p \in Project :
      LET document == disk[p].session
      IN  document # NoDocument /\ document.generation = tier[t] =>
            HasSession(t, p) \/ p \in removed[t] \cup removals[t]

(* What Create's refusal of an empty title is for: every project of a listing *)
(* can be told apart by its title.                                            *)
EveryListedProjectTitled ==
  \A t \in Tabs, p \in Project : Open(t) /\ Listed(resident[t][p]) =>
    ReadDocument(t, p, "title") = Titled
=============================================================================
