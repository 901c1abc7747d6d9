----------------------------- MODULE SpillHost ------------------------------
(***************************************************************************)
(* spill-host.ts: the spill sink of the browser, an allocator over one     *)
(* frames file whose map is written to a second file, the index, after     *)
(* every change.  The two files outlive the worker; what is between them   *)
(* when it dies is what the next worker reads.                             *)
(*                                                                         *)
(* One action per file operation, so the worker can die between any two.   *)
(* Dying inside file.write is dying after a short write.  A file cell      *)
(* holds the tag of what was written to it: whose bytes they are.          *)
(***************************************************************************)
EXTENDS Naturals, SequencesExt

CONSTANTS
  Identity,       \* frame identities
  Lengths,        \* byte lengths of frames
  Picture,        \* what a frame can show
  MaxEnd,         \* bound: bytes of the frames file
  MaxGeneration,  \* bound: tokens minted
  StaleIndex,     \* whether a refused index write can leave the earlier index
  NoSlot, Unreadable, Nobody, NoCopy, Torn, Strange

ASSUME SpillHostAssumption ==
  /\ Lengths \subseteq Nat \ {0}
  /\ MaxEnd \in Nat /\ MaxGeneration \in Nat \ {0}
  /\ StaleIndex \in BOOLEAN

VARIABLES
  slots,       \* where each frame is in the frames file
  free,        \* holes, by exact length, last in first out
  end,         \* the high-water mark
  generation,  \* the token of the capture being held
  index,       \* the index file: a StoredIndex, or nothing that parses
  cells,       \* the frames file: the tag in each byte
  minted,      \* how many tokens were minted: the next is a new one
  call         \* the file operation the host is about to do, and for whom

memory == <<slots, free, end, generation>>
hostVars == <<slots, free, end, generation, index, cells, minted, call>>

Slot == [offset : Nat, length : Lengths]
Tag == [generation : Nat, frame : Identity, pixels : Picture]
StoredIndex ==
  [g : Nat, end : Nat, slots : [Identity -> Slot \cup {NoSlot}], free : [Lengths -> Seq(Nat)]]
Idle == [at |-> "idle", who |-> {}]

(* What stands for nothing is none of the things it stands beside. *)
ASSUME MarkersAssumption ==
  /\ NoSlot \notin Slot /\ Nobody \notin Tag /\ Unreadable \notin StoredIndex
  /\ Strange \notin {NoCopy, Torn} \cup (Lengths \X Picture)

BytesOf(slot) == slot.offset .. (slot.offset + slot.length - 1)
ReachOf(slot) == IF slot = NoSlot THEN 0 ELSE slot.offset + slot.length
Held(f) == slots[f] # NoSlot
NoSlots == [f \in Identity |-> NoSlot]
NoHoles == [n \in Lengths |-> <<>>]
NoCells == [b \in 0..(MaxEnd - 1) |-> Nobody]

HostInit ==
  /\ slots = NoSlots /\ free = NoHoles /\ end = 0
  /\ generation = 1 /\ minted = 1
  /\ index = Unreadable
  /\ cells = NoCells
  /\ call = Idle

-----------------------------------------------------------------------------
(* release and take: exact lengths, last in first out, else the file grows. *)
Released(holes, slot) == [holes EXCEPT ![slot.length] = Append(@, slot.offset)]

(* The holes once f's slot is given back, which write does before it takes. *)
WithoutSlotOf(f) == IF Held(f) THEN Released(free, slots[f]) ELSE free

Taken(holes, length) ==
  [offset |-> IF holes[length] # <<>> THEN Last(holes[length]) ELSE end, length |-> length]

HolesLeft(holes, length) ==
  IF holes[length] # <<>> THEN [holes EXCEPT ![length] = Front(@)] ELSE holes

EndAfter(holes, length) == IF holes[length] # <<>> THEN end ELSE end + length

held == [g |-> generation, end |-> end, slots |-> slots, free |-> free]

(* writeIndex: a refusal empties the file, or left it alone. *)
WriteIndex(stored) == index' = stored
IndexRefused(keeps) == index' \in {Unreadable} \cup (IF keeps THEN {index} ELSE {})

-----------------------------------------------------------------------------
(* write: every byte reaches the file, and the slot is the frame's. *)
Write(f, length, pixels) ==
  /\ call = Idle
  /\ LET holes == WithoutSlotOf(f)
         slot == Taken(holes, length)
     IN  /\ EndAfter(holes, length) <= MaxEnd
         /\ cells' = [b \in DOMAIN cells |->
                        IF b \in BytesOf(slot)
                        THEN [generation |-> generation, frame |-> f, pixels |-> pixels]
                        ELSE cells[b]]
         /\ slots' = [slots EXCEPT ![f] = slot]
         /\ free' = HolesLeft(holes, length)
         /\ end' = EndAfter(holes, length)
  /\ call' = [at |-> "persist", who |-> {f}]
  /\ UNCHANGED <<generation, index, minted>>

(* write, refused after some bytes: the frame has no slot any more. *)
WriteShort(f, length, pixels, written) ==
  /\ call = Idle
  /\ written < length
  /\ LET holes == WithoutSlotOf(f)
         slot == Taken(holes, length)
     IN  /\ EndAfter(holes, length) <= MaxEnd
         /\ cells' = [b \in DOMAIN cells |->
                        IF b \in slot.offset .. (slot.offset + written - 1)
                        THEN [generation |-> generation, frame |-> f, pixels |-> pixels]
                        ELSE cells[b]]
         /\ slots' = [slots EXCEPT ![f] = NoSlot]
         /\ free' = Released(HolesLeft(holes, length), slot)
         /\ end' = EndAfter(holes, length)
  /\ call' = [at |-> "persist", who |-> {f}]
  /\ UNCHANGED <<generation, index, minted>>

(* Fault: a dropped frame stays in the index. *)
DropUnwritten(f) ==
  /\ call = Idle
  /\ Held(f)
  /\ slots' = [slots EXCEPT ![f] = NoSlot]
  /\ free' = Released(free, slots[f])
  /\ UNCHANGED <<end, generation, index, cells, minted, call>>

Drop(f) ==
  /\ call = Idle
  /\ Held(f)
  /\ slots' = [slots EXCEPT ![f] = NoSlot]
  /\ free' = Released(free, slots[f])
  /\ call' = [at |-> "persist", who |-> {f}]
  /\ UNCHANGED <<end, generation, index, cells, minted>>

(* persist: the index follows, and its refusal is not reported. *)
Persist ==
  /\ call.at = "persist"
  /\ WriteIndex(held) \/ IndexRefused(StaleIndex)
  /\ call' = Idle
  /\ UNCHANGED <<memory, cells, minted>>

(* Fault: the empty index goes out under the token of the old capture. *)
EmptyIndexSameToken ==
  /\ call = Idle
  /\ minted < MaxGeneration
  /\ minted' = minted + 1
  /\ \/ /\ WriteIndex([g |-> generation, end |-> 0, slots |-> NoSlots, free |-> NoHoles])
        /\ call' = [at |-> "truncate", who |-> {}]
     \/ /\ IndexRefused(TRUE)
        /\ call' = [at |-> "restore", who |-> {}]
  /\ UNCHANGED <<memory, cells>>

(* clear: the empty index first, under the token the next capture will have. *)
EmptyIndex ==
  /\ call = Idle
  /\ minted < MaxGeneration
  /\ minted' = minted + 1
  /\ \/ /\ WriteIndex([g |-> minted', end |-> 0, slots |-> NoSlots, free |-> NoHoles])
        /\ call' = [at |-> "truncate", who |-> {}]
     \/ /\ IndexRefused(TRUE)
        /\ call' = [at |-> "restore", who |-> {}]
  /\ UNCHANGED <<memory, cells>>

(* clear: then the frames, and only then is the tier the new capture's. *)
TruncateFrames ==
  /\ call.at = "truncate"
  /\ cells' = NoCells
  /\ slots' = NoSlots /\ free' = NoHoles /\ end' = 0
  /\ generation' = minted
  /\ call' = Idle
  /\ UNCHANGED <<index, minted>>

TruncateThrows ==
  /\ call.at = "truncate"
  /\ call' = [at |-> "restore", who |-> {}]
  /\ UNCHANGED <<memory, index, cells, minted>>

(* clear, refused: the old index is put back if it can be. *)
RestoreIndex ==
  /\ call.at = "restore"
  /\ WriteIndex(held) \/ IndexRefused(TRUE)
  /\ call' = Idle
  /\ UNCHANGED <<memory, cells, minted>>

(* Fault: the offsets come back and the high-water mark does not. *)
ReloadWithoutEnd ==
  /\ index # Unreadable
  /\ slots' = index.slots /\ free' = index.free /\ end' = 0
  /\ generation' = index.g
  /\ call' = Idle
  /\ UNCHANGED <<index, cells, minted>>

(* The worker dies, wherever it was, and another reads the index: a slot     *)
(* past the recorded high-water mark raises it.                              *)
Reload ==
  /\ \/ /\ index # Unreadable
        /\ slots' = index.slots /\ free' = index.free
        /\ end' = Max({index.end} \cup {ReachOf(index.slots[f]) : f \in Identity})
        /\ generation' = index.g
        /\ UNCHANGED minted
     \/ /\ index = Unreadable
        /\ minted < MaxGeneration
        /\ minted' = minted + 1
        /\ slots' = NoSlots /\ free' = NoHoles /\ end' = 0
        /\ generation' = minted'
  /\ call' = Idle
  /\ UNCHANGED <<index, cells>>

HostNext ==
  \/ \E f \in Identity, length \in Lengths, pixels \in Picture :
       \/ Write(f, length, pixels)
       \/ \E written \in 0..(length - 1) : WriteShort(f, length, pixels, written)
  \/ \E f \in Identity : Drop(f)
  \/ Persist
  \/ EmptyIndex \/ TruncateFrames \/ TruncateThrows \/ RestoreIndex
  \/ Reload

HostSpec == HostInit /\ [][HostNext]_hostVars

-----------------------------------------------------------------------------
(* The types; no tier ever answers with the token zero. *)
HostTypeOK ==
  /\ slots \in [Identity -> Slot \cup {NoSlot}]
  /\ free \in [Lengths -> Seq(Nat)]
  /\ end \in 0..MaxEnd
  /\ generation \in 1..MaxGeneration /\ minted \in generation..MaxGeneration
  /\ index \in StoredIndex \cup {Unreadable}
  /\ cells \in [0..(MaxEnd - 1) -> Tag \cup {Nobody}]
  /\ call.at \in {"idle", "persist", "truncate", "restore"}
  /\ call.who \subseteq Identity

(* The allocator never has a byte of the file in two hands: slots and holes  *)
(* are apart from each other, each hole is listed once, and all are below    *)
(* the high-water mark, also across reloads of an index that fell behind.    *)
Holes == UNION {{[offset |-> free[n][i], length |-> n, at |-> i] : i \in 1..Len(free[n])} :
                  n \in Lengths}
Apart(s, t) == BytesOf(s) \cap BytesOf(t) = {}
EveryByteInOneHand ==
  /\ \A f, g \in Identity : f # g /\ Held(f) /\ Held(g) => Apart(slots[f], slots[g])
  /\ \A f \in Identity, h \in Holes : Held(f) => Apart(slots[f], h)
  /\ \A h, k \in Holes : h # k => Apart(h, k)
  /\ \A h \in Holes : h.offset + h.length <= end
  /\ \A f \in Identity : Held(f) => slots[f].offset + slots[f].length <= end

(* What Read would answer, and whether every byte of it is the frame's own. *)
TagsOf(slot) == {cells[b] : b \in BytesOf(slot)}
Owns(f, tag) == tag # Nobody /\ tag.frame = f /\ tag.generation = generation

CopyOf(f) ==
  IF ~Held(f) THEN NoCopy
  ELSE LET tags == TagsOf(slots[f])
       IN  IF ~\A tag \in tags : Owns(f, tag) THEN Strange
           ELSE IF \E tag \in tags : tags = {tag}
                THEN <<slots[f].length, (CHOOSE tag \in tags : TRUE).pixels>>
                ELSE Torn

(* No identity resolves to somebody else's pixels, whatever was refused and  *)
(* wherever the worker died.                                                 *)
NoStrangersPixels == \A f \in Identity : CopyOf(f) # Strange

Sink == INSTANCE SpillSink WITH
  Frame <- Identity, Content <- Lengths \X Picture,
  copies <- [f \in Identity |-> CopyOf(f)],
  unsettled <- call.who

(* The host implements the sink: the token a reload answers with is the old  *)
(* one exactly when every copy of that capture is still there.               *)
TokenTellsTheTruth == Sink!Spec
=============================================================================
