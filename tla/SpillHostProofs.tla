-------------------------- MODULE SpillHostProofs --------------------------
(***************************************************************************)
(* Theorems about the spill host, for every set of frames and lengths and  *)
(* however often a file operation is refused or the worker dies.           *)
(***************************************************************************)
EXTENDS SpillHost, TLAPS

(* Two stretches of the file that share no byte. *)
Clear(o, n, p, m) == o + n <= p \/ p + m <= o

SlotMap == [Identity -> Slot \cup {NoSlot}]
HoleMap == [Lengths -> Seq(Nat)]

(* The allocator's map: slots and holes are apart and below the mark. *)
Sound(s, h, e) ==
  /\ \A f, g \in Identity : f # g /\ s[f] # NoSlot /\ s[g] # NoSlot =>
       Clear(s[f].offset, s[f].length, s[g].offset, s[g].length)
  /\ \A f \in Identity, n \in Lengths : \A i \in 1..Len(h[n]) : s[f] # NoSlot =>
       Clear(s[f].offset, s[f].length, h[n][i], n)
  /\ \A n, m \in Lengths : \A i \in 1..Len(h[n]), j \in 1..Len(h[m]) : n # m \/ i # j =>
       Clear(h[n][i], n, h[m][j], m)
  /\ \A n \in Lengths : \A i \in 1..Len(h[n]) : h[n][i] + n <= e
  /\ \A f \in Identity : s[f] # NoSlot => s[f].offset + s[f].length <= e

Map(s, h, e) ==
  /\ s \in SlotMap /\ h \in HoleMap /\ e \in Nat /\ e <= MaxEnd
  /\ Sound(s, h, e)

-----------------------------------------------------------------------------
(* A slot given back is one more hole, the last of its length. *)
LEMMA ReleasedHoles ==
  ASSUME NEW h \in HoleMap, NEW t \in Slot
  PROVE  /\ Released(h, t) \in HoleMap
         /\ \A n \in Lengths : \A i \in 1..Len(Released(h, t)[n]) :
              \/ i \in 1..Len(h[n]) /\ Released(h, t)[n][i] = h[n][i]
              \/ n = t.length /\ i = Len(h[n]) + 1 /\ Released(h, t)[n][i] = t.offset
<1> DEFINE r == Released(h, t)
<1>1. t.length \in Lengths /\ t.offset \in Nat
  BY DEF Slot
<1>2. /\ h[t.length] \in Seq(Nat) /\ Append(h[t.length], t.offset) \in Seq(Nat)
      /\ Len(Append(h[t.length], t.offset)) = Len(h[t.length]) + 1
      /\ \A i \in 1..Len(h[t.length]) : Append(h[t.length], t.offset)[i] = h[t.length][i]
      /\ Append(h[t.length], t.offset)[Len(h[t.length]) + 1] = t.offset
      /\ Len(h[t.length]) \in Nat
  BY <1>1 DEF HoleMap
<1>3. /\ r \in HoleMap /\ r[t.length] = Append(h[t.length], t.offset)
      /\ \A n \in Lengths : n # t.length => r[n] = h[n]
  BY <1>1, <1>2 DEF Released, HoleMap
<1> HIDE DEF r
<1>4. ASSUME NEW n \in Lengths, NEW i \in 1..Len(r[n])
      PROVE  \/ i \in 1..Len(h[n]) /\ r[n][i] = h[n][i]
             \/ n = t.length /\ i = Len(h[n]) + 1 /\ r[n][i] = t.offset
  <2>1. CASE n # t.length
    BY <1>3, <1>4, <2>1
  <2>2. CASE n = t.length
    BY <1>2, <1>3, <1>4, <2>2
  <2> QED
    BY <2>1, <2>2
<1> QED
  BY <1>3, <1>4 DEF r

(* Giving a slot back leaves every stretch apart from every other. *)
LEMMA GivesBack ==
  ASSUME NEW s, NEW h, NEW e, Map(s, h, e), NEW f \in Identity, s[f] # NoSlot
  PROVE  Map([s EXCEPT ![f] = NoSlot], Released(h, s[f]), e)
<1> DEFINE s2 == [s EXCEPT ![f] = NoSlot]
           h2 == Released(h, s[f])
           o == s[f].offset
           k == s[f].length
<1>1. s \in SlotMap /\ h \in HoleMap /\ e \in Nat /\ e <= MaxEnd /\ Sound(s, h, e)
  BY DEF Map
<1>2. s[f] \in Slot /\ o \in Nat /\ k \in Lengths /\ k \in Nat
  BY <1>1, SpillHostAssumption DEF SlotMap, Slot
<1>3. s2 \in SlotMap /\ s2[f] = NoSlot /\ \A g \in Identity : g # f => s2[g] = s[g]
  BY <1>1 DEF SlotMap
<1>4. /\ h2 \in HoleMap
      /\ \A n \in Lengths : \A i \in 1..Len(h2[n]) :
           \/ i \in 1..Len(h[n]) /\ h2[n][i] = h[n][i]
           \/ n = k /\ i = Len(h[n]) + 1 /\ h2[n][i] = o
  BY <1>1, <1>2, ReleasedHoles
<1>5. /\ \A g \in Identity : g # f /\ s[g] # NoSlot => Clear(s[g].offset, s[g].length, o, k) /\ Clear(o, k, s[g].offset, s[g].length)
      /\ \A n \in Lengths : \A i \in 1..Len(h[n]) : Clear(o, k, h[n][i], n) /\ Clear(h[n][i], n, o, k)
      /\ o + k <= e
  BY <1>1 DEF Sound, Clear
<1> HIDE DEF s2, h2, o, k
<1>6. \A g1, g2 \in Identity : g1 # g2 /\ s2[g1] # NoSlot /\ s2[g2] # NoSlot =>
        Clear(s2[g1].offset, s2[g1].length, s2[g2].offset, s2[g2].length)
  BY <1>1, <1>3 DEF Sound
<1>7. \A g \in Identity, n \in Lengths : \A i \in 1..Len(h2[n]) : s2[g] # NoSlot =>
        Clear(s2[g].offset, s2[g].length, h2[n][i], n)
  BY <1>1, <1>3, <1>4, <1>5 DEF Sound
<1>8. \A n, m \in Lengths : \A i \in 1..Len(h2[n]), j \in 1..Len(h2[m]) : n # m \/ i # j =>
        Clear(h2[n][i], n, h2[m][j], m)
  BY <1>1, <1>4, <1>5 DEF Sound
<1>9. \A n \in Lengths : \A i \in 1..Len(h2[n]) : h2[n][i] + n <= e
  BY <1>1, <1>4, <1>5 DEF Sound
<1>10. \A g \in Identity : s2[g] # NoSlot => s2[g].offset + s2[g].length <= e
  BY <1>1, <1>3 DEF Sound
<1>11. Sound(s2, h2, e)
  BY <1>6, <1>7, <1>8, <1>9, <1>10 DEF Sound
<1>12. Map(s2, h2, e)
  BY <1>1, <1>3, <1>4, <1>11 DEF Map
<1> QED
  BY <1>12 DEF s2, h2

(* A slot taken is the last hole of its length, which is one no more, or    *)
(* the stretch from the mark.                                               *)
LEMMA TakenHoles ==
  ASSUME NEW h \in HoleMap, NEW n \in Lengths, h[n] # <<>>
  PROVE  /\ HolesLeft(h, n) \in HoleMap
         /\ Len(h[n]) \in 1..Len(h[n]) /\ Taken(h, n) = [offset |-> h[n][Len(h[n])], length |-> n]
         /\ h[n][Len(h[n])] \in Nat
         /\ \A m \in Lengths : \A i \in 1..Len(HolesLeft(h, n)[m]) :
              i \in 1..Len(h[m]) /\ HolesLeft(h, n)[m][i] = h[m][i] /\ (m = n => i # Len(h[m]))
<1> DEFINE r == HolesLeft(h, n)
<1>1. /\ h[n] \in Seq(Nat) /\ Len(h[n]) \in Nat /\ Len(h[n]) >= 1 /\ h[n][Len(h[n])] \in Nat
  BY DEF HoleMap
<1>2. /\ Front(h[n]) \in Seq(Nat) /\ Len(Front(h[n])) = Len(h[n]) - 1
      /\ \A i \in 1..(Len(h[n]) - 1) : Front(h[n])[i] = h[n][i]
  BY <1>1 DEF Front
<1>3. /\ r \in HoleMap /\ r[n] = Front(h[n]) /\ \A m \in Lengths : m # n => r[m] = h[m]
  BY <1>2 DEF HolesLeft, HoleMap
<1> HIDE DEF r
<1>4. ASSUME NEW m \in Lengths, NEW i \in 1..Len(r[m])
      PROVE  i \in 1..Len(h[m]) /\ r[m][i] = h[m][i] /\ (m = n => i # Len(h[m]))
  <2>1. CASE m # n
    BY <1>3, <1>4, <2>1
  <2>2. CASE m = n
    <3> DEFINE k == Len(h[n])
    <3>1. k \in Nat /\ Len(r[n]) = k - 1 /\ i \in 1..Len(r[n])
      BY <1>1, <1>2, <1>3, <1>4, <2>2
    <3> HIDE DEF k
    <3>2. i \in 1..k /\ i \in 1..(k - 1) /\ i # k
      BY <3>1
    <3> QED
      BY <1>2, <1>3, <2>2, <3>2 DEF k
  <2> QED
    BY <2>1, <2>2
<1>5. Taken(h, n) = [offset |-> h[n][Len(h[n])], length |-> n]
  BY DEF Taken, Last
<1> QED
  BY <1>1, <1>3, <1>4, <1>5 DEF r

(* Taking a slot for a frame that has none leaves every stretch apart from  *)
(* every other, below the mark as the taking leaves it.                     *)
LEMMA TakesSlot ==
  ASSUME NEW s, NEW h, Map(s, h, end), NEW f \in Identity, s[f] = NoSlot,
         NEW n \in Lengths, EndAfter(h, n) <= MaxEnd
  PROVE  /\ Taken(h, n) \in Slot /\ Taken(h, n).length = n
         /\ Map([s EXCEPT ![f] = Taken(h, n)], HolesLeft(h, n), EndAfter(h, n))
<1> DEFINE t == Taken(h, n)
           s2 == [s EXCEPT ![f] = t]
           h2 == HolesLeft(h, n)
           e2 == EndAfter(h, n)
<1>1. s \in SlotMap /\ h \in HoleMap /\ end \in Nat /\ end <= MaxEnd /\ Sound(s, h, end)
  BY DEF Map
<1>2. n \in Nat /\ n > 0
  BY SpillHostAssumption
<1>3. ASSUME t \in Slot
      PROVE  s2 \in SlotMap /\ s2[f] = t /\ \A g \in Identity : g # f => s2[g] = s[g]
  BY <1>1, <1>3 DEF SlotMap
<1>4. CASE h[n] # <<>>
  <2> DEFINE k == Len(h[n])
             o == h[n][k]
  <2>1. /\ h2 \in HoleMap /\ k \in 1..k /\ t = [offset |-> o, length |-> n] /\ o \in Nat
        /\ \A m \in Lengths : \A i \in 1..Len(h2[m]) :
             i \in 1..Len(h[m]) /\ h2[m][i] = h[m][i] /\ (m = n => i # k)
    BY <1>1, <1>4, TakenHoles
  <2>2. t \in Slot /\ t.offset = o /\ t.length = n /\ e2 = end
    BY <1>4, <2>1 DEF Slot, EndAfter
  <2>3. s2 \in SlotMap /\ s2[f] = t /\ \A g \in Identity : g # f => s2[g] = s[g]
    BY <1>3, <2>2
  <2>4. /\ \A g \in Identity : s[g] # NoSlot => Clear(s[g].offset, s[g].length, o, n) /\ Clear(o, n, s[g].offset, s[g].length)
        /\ \A m \in Lengths : \A i \in 1..Len(h[m]) : m # n \/ i # k => Clear(o, n, h[m][i], m)
        /\ o + n <= end
    BY <1>1, <2>1 DEF Sound, Clear
  <2> HIDE DEF k, o, t, s2, h2, e2
  <2>5. \A g1, g2 \in Identity : g1 # g2 /\ s2[g1] # NoSlot /\ s2[g2] # NoSlot =>
          Clear(s2[g1].offset, s2[g1].length, s2[g2].offset, s2[g2].length)
    BY <1>1, <2>2, <2>3, <2>4 DEF Sound
  <2>6. \A g \in Identity, m \in Lengths : \A i \in 1..Len(h2[m]) : s2[g] # NoSlot =>
          Clear(s2[g].offset, s2[g].length, h2[m][i], m)
    BY <1>1, <2>1, <2>2, <2>3, <2>4 DEF Sound
  <2>7. \A l, m \in Lengths : \A i \in 1..Len(h2[l]), j \in 1..Len(h2[m]) : l # m \/ i # j =>
          Clear(h2[l][i], l, h2[m][j], m)
    BY <1>1, <2>1 DEF Sound
  <2>8. \A m \in Lengths : \A i \in 1..Len(h2[m]) : h2[m][i] + m <= end
    BY <1>1, <2>1 DEF Sound
  <2>9. \A g \in Identity : s2[g] # NoSlot => s2[g].offset + s2[g].length <= end
    BY <1>1, <2>2, <2>3, <2>4 DEF Sound
  <2>10. Sound(s2, h2, e2)
    BY <2>2, <2>5, <2>6, <2>7, <2>8, <2>9 DEF Sound
  <2>11. t \in Slot /\ t.length = n /\ Map(s2, h2, e2)
    BY <1>1, <2>1, <2>2, <2>3, <2>10 DEF Map
  <2> QED
    BY <2>11 DEF t, s2, h2, e2
<1>5. CASE h[n] = <<>>
  <2>1. h2 = h /\ t = [offset |-> end, length |-> n] /\ e2 = end + n
    BY <1>5 DEF HolesLeft, Taken, EndAfter
  <2>2. t \in Slot /\ t.offset = end /\ t.length = n /\ e2 \in Nat /\ e2 <= MaxEnd
    BY <1>1, <1>2, <2>1 DEF Slot
  <2>3. s2 \in SlotMap /\ s2[f] = t /\ \A g \in Identity : g # f => s2[g] = s[g]
    BY <1>3, <2>2
  <2>4. \A g \in Identity : s[g] # NoSlot => s[g].offset \in Nat /\ s[g].length \in Nat
    BY <1>1, SpillHostAssumption DEF SlotMap, Slot
  <2>5. \A m \in Lengths : m \in Nat /\ \A i \in 1..Len(h[m]) : h[m][i] \in Nat
    BY <1>1, SpillHostAssumption DEF HoleMap
  <2> HIDE DEF t, s2, h2, e2
  <2>6. \A g1, g2 \in Identity : g1 # g2 /\ s2[g1] # NoSlot /\ s2[g2] # NoSlot =>
          Clear(s2[g1].offset, s2[g1].length, s2[g2].offset, s2[g2].length)
    BY <1>1, <1>2, <2>2, <2>3, <2>4 DEF Sound, Clear
  <2>12. ASSUME NEW m \in Lengths, NEW i \in 1..Len(h[m])
         PROVE  h[m][i] + m <= end /\ h[m][i] + m <= e2
    <3> DEFINE a == h[m][i]
    <3>1. a \in Nat /\ m \in Nat /\ a + m <= end
      BY <1>1, <2>5, <2>12 DEF Sound
    <3> HIDE DEF a
    <3>2. a + m <= e2
      BY <1>1, <1>2, <2>1, <3>1
    <3> QED
      BY <3>1, <3>2 DEF a
  <2>7. ASSUME NEW g \in Identity, NEW m \in Lengths, NEW i \in 1..Len(h2[m]), s2[g] # NoSlot
        PROVE  Clear(s2[g].offset, s2[g].length, h2[m][i], m)
    <3>1. i \in 1..Len(h[m]) /\ h2[m][i] = h[m][i]
      BY <2>1, <2>7
    <3>2. CASE g = f
      BY <2>2, <2>3, <2>12, <3>1, <3>2 DEF Clear
    <3>3. CASE g # f
      BY <1>1, <2>3, <2>7, <3>1, <3>3 DEF Sound
    <3> QED
      BY <3>2, <3>3
  <2>8. \A m \in Lengths : \A i \in 1..Len(h2[m]) : h2[m][i] + m <= e2
    BY <2>1, <2>12
  <2>9. \A g \in Identity : s2[g] # NoSlot => s2[g].offset + s2[g].length <= e2
    BY <1>1, <1>2, <2>1, <2>2, <2>3, <2>4 DEF Sound
  <2>10. Sound(s2, h2, e2)
    BY <1>1, <2>1, <2>6, <2>7, <2>8, <2>9 DEF Sound
  <2>11. t \in Slot /\ t.length = n /\ Map(s2, h2, e2)
    BY <1>1, <2>1, <2>2, <2>3, <2>10 DEF Map
  <2> QED
    BY <2>11 DEF t, s2, h2, e2
<1> QED
  BY <1>4, <1>5

-----------------------------------------------------------------------------
(* The map in memory is sound, and so is any the index file may hand back.  *)
MapIInv ==
  /\ Map(slots, free, end)
  /\ index # Unreadable => Map(index.slots, index.free, index.end)

(* An empty map is sound. *)
LEMMA EmptyMap == Map(NoSlots, NoHoles, 0)
<1>1. NoSlots \in SlotMap /\ \A f \in Identity : NoSlots[f] = NoSlot
  BY DEF NoSlots, SlotMap
<1>2. NoHoles \in HoleMap /\ \A n \in Lengths : Len(NoHoles[n]) = 0
  BY DEF NoHoles, HoleMap
<1>3. Sound(NoSlots, NoHoles, 0)
  BY <1>1, <1>2 DEF Sound
<1> QED
  BY <1>1, <1>2, <1>3, SpillHostAssumption DEF Map

(* What write does before it takes: the frame has no slot any more. *)
LEMMA WithoutIts ==
  ASSUME Map(slots, free, end), NEW f \in Identity
  PROVE  /\ Map([slots EXCEPT ![f] = NoSlot], WithoutSlotOf(f), end)
         /\ [slots EXCEPT ![f] = NoSlot][f] = NoSlot
<1>1. slots \in SlotMap
  BY DEF Map
<1>2. CASE Held(f)
  BY <1>1, <1>2, GivesBack DEF Held, WithoutSlotOf, SlotMap
<1>3. CASE ~Held(f)
  <2>1. [slots EXCEPT ![f] = NoSlot] = slots
    BY <1>1, <1>3 DEF Held, SlotMap
  <2> QED
    BY <1>3, <2>1 DEF Held, WithoutSlotOf
<1> QED
  BY <1>2, <1>3

(* The map as a write leaves it, and as one refused after some bytes does.  *)
LEMMA WrittenMap ==
  ASSUME Map(slots, free, end), NEW f \in Identity, NEW n \in Lengths,
         EndAfter(WithoutSlotOf(f), n) <= MaxEnd
  PROVE  LET holes == WithoutSlotOf(f)
             slot == Taken(holes, n)
             mark == EndAfter(holes, n)
         IN  /\ slot \in Slot /\ slot.length = n
             /\ Map([slots EXCEPT ![f] = slot], HolesLeft(holes, n), mark)
             /\ Map([slots EXCEPT ![f] = NoSlot], Released(HolesLeft(holes, n), slot), mark)
<1> DEFINE holes == WithoutSlotOf(f)
           slot == Taken(holes, n)
           mark == EndAfter(holes, n)
           left == HolesLeft(holes, n)
           s0 == [slots EXCEPT ![f] = NoSlot]
           s1 == [slots EXCEPT ![f] = slot]
<1>1. Map(s0, holes, end) /\ s0[f] = NoSlot
  BY WithoutIts
<1>2. slots \in SlotMap
  BY DEF Map
<1>3. [s0 EXCEPT ![f] = slot] = s1 /\ [s1 EXCEPT ![f] = NoSlot] = s0 /\ s1[f] = slot
  BY <1>2 DEF SlotMap
<1>4. mark <= MaxEnd
  OBVIOUS
<1> HIDE DEF holes, s0
<1>5. slot \in Slot /\ slot.length = n /\ Map([s0 EXCEPT ![f] = slot], left, mark)
  BY <1>1, <1>4, TakesSlot
<1> HIDE DEF slot, mark, left, s1
<1>6. slot # NoSlot
  BY <1>5, MarkersAssumption
<1>7. Map(s1, left, mark) /\ s1[f] = slot
  BY <1>3, <1>5
<1>8. Map([s1 EXCEPT ![f] = NoSlot], Released(left, s1[f]), mark)
  BY <1>6, <1>7, GivesBack
<1>9. /\ slot \in Slot /\ slot.length = n
      /\ Map(s1, left, mark)
      /\ Map(s0, Released(left, slot), mark)
  BY <1>3, <1>5, <1>7, <1>8
<1> QED
  BY <1>9 DEF holes, slot, mark, left, s0, s1

(* The mark a reload comes back with is the recorded one: no slot of an     *)
(* index the host wrote is past it.                                         *)
LEMMA MarkIsKept ==
  ASSUME NEW s, NEW h, NEW e, Map(s, h, e)
  PROVE  Max({e} \cup {ReachOf(s[f]) : f \in Identity}) = e
<1> DEFINE S == {ReachOf(s[f]) : f \in Identity}
<1>1. e \in Nat
  BY DEF Map
<1>2. \A x \in S : x \in Nat /\ x <= e
  <2>1. ASSUME NEW f \in Identity PROVE ReachOf(s[f]) \in Nat /\ ReachOf(s[f]) <= e
    <3>1. CASE s[f] = NoSlot
      BY <1>1, <3>1 DEF ReachOf
    <3>2. CASE s[f] # NoSlot
      <4>1. s[f] \in Slot /\ s[f].offset + s[f].length <= e
        BY <3>2 DEF Map, Sound, SlotMap
      <4>2. s[f].offset \in Nat /\ s[f].length \in Nat
        BY <4>1, SpillHostAssumption DEF Slot
      <4>3. ReachOf(s[f]) = s[f].offset + s[f].length
        BY <3>2 DEF ReachOf
      <4> QED
        BY <4>1, <4>2, <4>3
    <3> QED
      BY <3>1, <3>2
  <2> QED
    BY <2>1
<1> HIDE DEF S
<1>3. e \in {e} \cup S /\ \A y \in {e} \cup S : e >= y
  BY <1>1, <1>2
<1>4. Max({e} \cup S) \in {e} \cup S /\ \A y \in {e} \cup S : Max({e} \cup S) >= y
  BY <1>3 DEF Max
<1>5. Max({e} \cup S) = e
  BY <1>1, <1>2, <1>4
<1> QED
  BY <1>5 DEF S

(* An empty file is mapped soundly. *)
LEMMA MapInit == HostInit => MapIInv
BY EmptyMap DEF HostInit, MapIInv

(* Every file operation keeps the map sound. *)
LEMMA MapStep == MapIInv /\ [HostNext]_hostVars => MapIInv'
<1> SUFFICES ASSUME MapIInv, [HostNext]_hostVars PROVE MapIInv'
  OBVIOUS
<1>1. Map(slots, free, end) /\ (index # Unreadable => Map(index.slots, index.free, index.end))
  BY DEF MapIInv
<1>2. ASSUME NEW f \in Identity, NEW n \in Lengths, NEW p \in Picture, Write(f, n, p)
      PROVE  MapIInv'
  <2>1. Map(slots', free', end')
    BY <1>1, <1>2, WrittenMap DEF Write
  <2> QED
    BY <1>1, <1>2, <2>1 DEF Write, MapIInv
<1>3. ASSUME NEW f \in Identity, NEW n \in Lengths, NEW p \in Picture, NEW w \in 0..(n - 1),
             WriteShort(f, n, p, w)
      PROVE  MapIInv'
  <2>1. Map(slots', free', end')
    BY <1>1, <1>3, WrittenMap DEF WriteShort
  <2> QED
    BY <1>1, <1>3, <2>1 DEF WriteShort, MapIInv
<1>4. ASSUME NEW f \in Identity, Drop(f)
      PROVE  MapIInv'
  <2>1. Map(slots', free', end)
    BY <1>1, <1>4, GivesBack DEF Drop, Held
  <2> QED
    BY <1>1, <1>4, <2>1 DEF Drop, MapIInv
<1>5. ASSUME Persist \/ RestoreIndex PROVE MapIInv'
  <2>1. index' \in {held, Unreadable, index}
    BY <1>5 DEF Persist, RestoreIndex, WriteIndex, IndexRefused
  <2>2. UNCHANGED <<slots, free, end>>
    BY <1>5 DEF Persist, RestoreIndex, memory
  <2>3. held.slots = slots /\ held.free = free /\ held.end = end
    BY DEF held
  <2>4. index' # Unreadable => Map(index'.slots, index'.free, index'.end)
    BY <1>1, <2>1, <2>3
  <2> QED
    BY <1>1, <2>2, <2>4 DEF MapIInv
<1>6. CASE EmptyIndex
  <2>1. \/ index' \in {Unreadable, index}
        \/ index' = [g |-> minted', end |-> 0, slots |-> NoSlots, free |-> NoHoles]
    BY <1>6 DEF EmptyIndex, WriteIndex, IndexRefused
  <2>2. UNCHANGED <<slots, free, end>>
    BY <1>6 DEF EmptyIndex, memory
  <2> QED
    BY <1>1, <2>1, <2>2, EmptyMap DEF MapIInv
<1>7. CASE TruncateFrames
  BY <1>1, <1>7, EmptyMap DEF TruncateFrames, MapIInv
<1>8. CASE TruncateThrows
  BY <1>1, <1>8 DEF TruncateThrows, MapIInv, memory
<1>9. CASE Reload
  <2>1. CASE index # Unreadable /\ slots' = index.slots /\ free' = index.free
             /\ end' = Max({index.end} \cup {ReachOf(index.slots[f]) : f \in Identity})
    BY <1>1, <1>9, <2>1, MarkIsKept DEF Reload, MapIInv
  <2>2. CASE slots' = NoSlots /\ free' = NoHoles /\ end' = 0
    BY <1>1, <1>9, <2>2, EmptyMap DEF Reload, MapIInv
  <2> QED
    BY <1>9, <2>1, <2>2 DEF Reload
<1>10. CASE UNCHANGED hostVars
  BY <1>1, <1>10 DEF hostVars, memory, MapIInv
<1> QED
  BY <1>2, <1>3, <1>4, <1>5, <1>6, <1>7, <1>8, <1>9, <1>10 DEF HostNext

(* Two stretches that are clear of each other share no byte. *)
LEMMA ClearIsApart ==
  ASSUME NEW s, NEW t, s.offset \in Nat, s.length \in Nat, t.offset \in Nat, t.length \in Nat,
         Clear(s.offset, s.length, t.offset, t.length)
  PROVE  Apart(s, t)
BY DEF Clear, Apart, BytesOf

(* No byte of the frames file is ever in two hands, whatever order writes,  *)
(* refusals, drops and clears come in, wherever the worker dies and however *)
(* old the index the next one reads (spill-host.ts, release and take).      *)
THEOREM OneHand == HostSpec => []EveryByteInOneHand
<1>1. MapIInv => EveryByteInOneHand
  <2> SUFFICES ASSUME MapIInv PROVE EveryByteInOneHand
    OBVIOUS
  <2>1. Map(slots, free, end) /\ slots \in SlotMap /\ free \in HoleMap /\ Sound(slots, free, end)
    BY DEF MapIInv, Map
  <2>2. \A f \in Identity : Held(f) => slots[f].offset \in Nat /\ slots[f].length \in Nat
    BY <2>1, SpillHostAssumption DEF Held, SlotMap, Slot
  <2>3. ASSUME NEW h \in Holes
        PROVE  /\ h.length \in Lengths /\ h.at \in 1..Len(free[h.length])
               /\ h.offset = free[h.length][h.at] /\ h.offset \in Nat /\ h.length \in Nat
    <3>3. PICK n \in Lengths : \E i \in 1..Len(free[n]) :
            h = [offset |-> free[n][i], length |-> n, at |-> i]
      BY <2>3 DEF Holes
    <3>1. PICK i \in 1..Len(free[n]) : h = [offset |-> free[n][i], length |-> n, at |-> i]
      BY <3>3
    <3>2. free[n][i] \in Nat /\ n \in Nat
      BY <2>1, SpillHostAssumption DEF HoleMap
    <3> QED
      BY <3>1, <3>2
  <2>4. ASSUME NEW f \in Identity, NEW g \in Identity, f # g, Held(f), Held(g)
        PROVE  Apart(slots[f], slots[g])
    BY <2>1, <2>2, <2>4, ClearIsApart DEF Sound, Held
  <2>5. ASSUME NEW f \in Identity, NEW h \in Holes, Held(f)
        PROVE  Apart(slots[f], h)
    BY <2>1, <2>2, <2>3, <2>5, ClearIsApart DEF Sound, Held
  <2>6. ASSUME NEW h \in Holes, NEW k \in Holes, h # k
        PROVE  Apart(h, k)
    <3>1. h.length # k.length \/ h.at # k.at
      <4>1. \A l \in Holes : \E n \in Lengths : \E i \in 1..Len(free[n]) :
              l = [offset |-> free[n][i], length |-> n, at |-> i]
        BY DEF Holes
      <4>2. \A l \in Holes : l = [offset |-> free[l.length][l.at], length |-> l.length, at |-> l.at]
        BY <4>1
      <4> QED
        BY <2>6, <4>2
    <3>2. Clear(h.offset, h.length, k.offset, k.length)
      BY <2>1, <2>3, <3>1 DEF Sound
    <3> QED
      BY <2>3, <3>2, ClearIsApart
  <2>7. \A h \in Holes : h.offset + h.length <= end
    BY <2>1, <2>3 DEF Sound
  <2>8. \A f \in Identity : Held(f) => slots[f].offset + slots[f].length <= end
    BY <2>1 DEF Sound, Held
  <2> QED
    BY <2>4, <2>5, <2>6, <2>7, <2>8 DEF EveryByteInOneHand
<1> QED
  BY <1>1, MapInit, MapStep, PTL DEF HostSpec

-----------------------------------------------------------------------------
(* Every byte of every slot is the frame's own, of the capture that is      *)
(* held: so it is in memory, and so it would be for a worker that read the  *)
(* index now.  Between two calls the index is the host's own map, or the    *)
(* empty one of a capture yet to begin, or nothing; it falls behind by one  *)
(* call at most, and only in the frame that call is about.                  *)
OwnsAll(s, g) ==
  \A f \in Identity : s[f] # NoSlot =>
    \A b \in BytesOf(s[f]) : cells[b] # Nobody /\ cells[b].frame = f /\ cells[b].generation = g

Numbers ==
  /\ cells \in [0..(MaxEnd - 1) -> Tag \cup {Nobody}]
  /\ generation \in Nat /\ minted \in Nat /\ generation <= minted
  /\ index # Unreadable => index.g \in Nat /\ index.g <= minted

EmptyOfNext ==
  /\ index # Unreadable /\ index.g > generation
  /\ index.slots = NoSlots /\ index.free = NoHoles /\ index.end = 0
IsHeld ==
  /\ index # Unreadable /\ index.g = generation /\ index.slots = slots
  /\ index.free = free /\ index.end = end
BehindByOneCall ==
  /\ index # Unreadable /\ index.g = generation
  /\ \A f \in Identity \ call.who : index.slots[f] = slots[f]

UpToDate ==
  \/ call.at \in {"idle", "restore"} /\ call.who = {} /\ (index = Unreadable \/ EmptyOfNext \/ IsHeld)
  \/ call.at = "truncate" /\ call.who = {} /\ EmptyOfNext /\ index.g = minted
  \/ call.at = "persist" /\ (index = Unreadable \/ EmptyOfNext \/ BehindByOneCall)

OwnIInv ==
  /\ MapIInv /\ Numbers /\ UpToDate
  /\ OwnsAll(slots, generation)
  /\ index # Unreadable => OwnsAll(index.slots, index.g)

(* The bytes a write lays down are in the file, and in nobody else's slot.  *)
LEMMA WrittenApart ==
  ASSUME Map(slots, free, end), NEW f \in Identity, NEW n \in Lengths,
         EndAfter(WithoutSlotOf(f), n) <= MaxEnd
  PROVE  LET slot == Taken(WithoutSlotOf(f), n)
         IN  /\ slot \in Slot /\ slot.length = n /\ slot # NoSlot
             /\ slot.offset \in Nat /\ n \in Nat /\ n > 0
             /\ BytesOf(slot) \subseteq 0..(MaxEnd - 1)
             /\ \A g \in Identity : g # f /\ slots[g] # NoSlot =>
                  BytesOf(slots[g]) \cap BytesOf(slot) = {}
<1> DEFINE slot == Taken(WithoutSlotOf(f), n)
           mark == EndAfter(WithoutSlotOf(f), n)
           s1 == [slots EXCEPT ![f] = slot]
           h1 == HolesLeft(WithoutSlotOf(f), n)
<1>1. slot \in Slot /\ slot.length = n /\ Map(s1, h1, mark) /\ mark <= MaxEnd
  BY WrittenMap
<1>2. slots \in SlotMap
  BY DEF Map
<1>3. s1[f] = slot /\ \A g \in Identity : g # f => s1[g] = slots[g]
  BY <1>2 DEF SlotMap
<1> HIDE DEF slot, mark, s1, h1
<1>4. slot # NoSlot /\ slot.offset \in Nat /\ n \in Nat /\ n > 0
  BY <1>1, MarkersAssumption, SpillHostAssumption DEF Slot
<1>5. slot.offset + n <= mark /\ mark \in Nat
  BY <1>1, <1>3, <1>4 DEF Map, Sound
<1>6. BytesOf(slot) \subseteq 0..(MaxEnd - 1)
  BY <1>1, <1>4, <1>5, SpillHostAssumption DEF BytesOf
<1>7. ASSUME NEW g \in Identity, g # f, slots[g] # NoSlot
      PROVE  BytesOf(slots[g]) \cap BytesOf(slot) = {}
  <2>1. slots[g].offset \in Nat /\ slots[g].length \in Nat
    BY <1>2, <1>7, SpillHostAssumption DEF SlotMap, Slot
  <2>2. Clear(slots[g].offset, slots[g].length, slot.offset, slot.length)
    BY <1>1, <1>3, <1>4, <1>7 DEF Map, Sound
  <2> QED
    BY <1>1, <1>4, <2>1, <2>2, ClearIsApart DEF Apart
<1> QED
  BY <1>1, <1>4, <1>6, <1>7 DEF slot

(* At first nobody owns a byte. *)
LEMMA OwnInit == HostInit => OwnIInv
<1> SUFFICES ASSUME HostInit PROVE OwnIInv
  OBVIOUS
<1>1. \A f \in Identity : slots[f] = NoSlot
  BY DEF HostInit, NoSlots
<1>2. Numbers
  BY SpillHostAssumption DEF HostInit, Numbers, NoCells
<1>3. UpToDate
  BY DEF HostInit, UpToDate, Idle
<1>4. OwnsAll(slots, generation)
  BY <1>1 DEF OwnsAll
<1>5. index = Unreadable
  BY DEF HostInit
<1> QED
  BY <1>2, <1>3, <1>4, <1>5, MapInit DEF OwnIInv

(* A write, whole or short, as far as the bytes are concerned. *)
Lays(f, n, p, S) ==
  /\ call = Idle
  /\ EndAfter(WithoutSlotOf(f), n) <= MaxEnd
  /\ S \subseteq BytesOf(Taken(WithoutSlotOf(f), n))
  /\ cells' = [b \in DOMAIN cells |->
                 IF b \in S THEN [generation |-> generation, frame |-> f, pixels |-> p]
                 ELSE cells[b]]
  /\ UNCHANGED <<generation, index, minted>>

(* What a write puts down is its frame's, and no other frame's byte is touched. *)
LEMMA BytesLaid ==
  ASSUME OwnIInv, NEW f \in Identity, NEW n \in Lengths, NEW p \in Picture, NEW S,
         Lays(f, n, p, S)
  PROVE  /\ Numbers'
         /\ index # Unreadable => OwnsAll(index.slots, index.g)'
         /\ \A g \in Identity : g # f /\ slots[g] # NoSlot =>
              \A b \in BytesOf(slots[g]) : cells'[b] = cells[b]
         /\ \A b \in S : cells'[b] = [generation |-> generation, frame |-> f, pixels |-> p]
<1> DEFINE slot == Taken(WithoutSlotOf(f), n)
           tag == [generation |-> generation, frame |-> f, pixels |-> p]
<1>0. /\ call = Idle /\ EndAfter(WithoutSlotOf(f), n) <= MaxEnd /\ S \subseteq BytesOf(slot)
      /\ cells' = [b \in DOMAIN cells |-> IF b \in S THEN tag ELSE cells[b]]
      /\ UNCHANGED <<generation, index, minted>>
  BY DEF Lays
<1>1. Map(slots, free, end) /\ Numbers /\ UpToDate /\ OwnsAll(slots, generation)
  BY DEF OwnIInv, MapIInv
<1>2. /\ S \subseteq 0..(MaxEnd - 1)
      /\ \A g \in Identity : g # f /\ slots[g] # NoSlot => BytesOf(slots[g]) \cap S = {}
  BY <1>0, <1>1, WrittenApart
<1>3. tag \in Tag /\ tag # Nobody /\ tag.frame = f /\ tag.generation = generation
  BY <1>1, MarkersAssumption DEF Numbers, Tag
<1>4. cells' = [b \in 0..(MaxEnd - 1) |-> IF b \in S THEN tag ELSE cells[b]]
  BY <1>0, <1>1 DEF Numbers
<1> HIDE DEF tag, slot
<1>5. Numbers'
  BY <1>0, <1>1, <1>3, <1>4 DEF Numbers
<1>6. \A b \in S : cells'[b] = tag
  BY <1>2, <1>4
<1>7. \A g \in Identity : slots[g] # NoSlot => BytesOf(slots[g]) \subseteq 0..(MaxEnd - 1)
  <2> SUFFICES ASSUME NEW g \in Identity, slots[g] # NoSlot PROVE BytesOf(slots[g]) \subseteq 0..(MaxEnd - 1)
    OBVIOUS
  <2>1. slots[g] \in Slot /\ slots[g].offset + slots[g].length <= end /\ end \in Nat /\ end <= MaxEnd
    BY <1>1 DEF Map, Sound, SlotMap
  <2>2. slots[g].offset \in Nat /\ slots[g].length \in Nat
    BY <2>1, SpillHostAssumption DEF Slot
  <2> QED
    BY <2>1, <2>2, SpillHostAssumption DEF BytesOf
<1>8. \A g \in Identity : g # f /\ slots[g] # NoSlot => \A b \in BytesOf(slots[g]) : cells'[b] = cells[b]
  BY <1>2, <1>4, <1>7
<1>9. ASSUME index # Unreadable PROVE OwnsAll(index.slots, index.g)'
  <2>1. CASE EmptyOfNext
    BY <1>0, <2>1 DEF EmptyOfNext, OwnsAll, NoSlots
  <2>2. CASE IsHeld
    <3>1. ASSUME NEW g \in Identity, slots[g] # NoSlot, NEW b \in BytesOf(slots[g])
          PROVE  cells'[b] # Nobody /\ cells'[b].frame = g /\ cells'[b].generation = generation
      <4>1. cells[b] # Nobody /\ cells[b].frame = g /\ cells[b].generation = generation
        BY <1>1, <3>1 DEF OwnsAll
      <4>2. CASE g # f
        BY <1>8, <3>1, <4>1, <4>2
      <4>3. CASE g = f
        BY <1>3, <1>4, <1>7, <3>1, <4>1, <4>3
      <4> QED
        BY <4>2, <4>3
    <3> QED
      BY <1>0, <2>2, <3>1 DEF IsHeld, OwnsAll
  <2> QED
    BY <1>0, <1>1, <1>9, <2>1, <2>2 DEF UpToDate, Idle
<1> QED
  BY <1>5, <1>6, <1>8, <1>9 DEF tag

(* A frame that a write or a drop is about owns what it has afterwards, and *)
(* the index falls behind in that frame only.                               *)
LEMMA FallsBehind ==
  ASSUME OwnIInv, call = Idle, NEW f \in Identity, call' = [at |-> "persist", who |-> {f}],
         UNCHANGED <<generation, index>>,
         \A g \in Identity : g # f => slots'[g] = slots[g]
  PROVE  UpToDate'
<1>1. index = Unreadable \/ EmptyOfNext \/ IsHeld
  BY DEF OwnIInv, UpToDate, Idle
<1>2. CASE index = Unreadable
  BY <1>2 DEF UpToDate
<1>3. CASE EmptyOfNext
  BY <1>3 DEF UpToDate, EmptyOfNext
<1>4. CASE IsHeld
  BY <1>4 DEF UpToDate, IsHeld, BehindByOneCall
<1> QED
  BY <1>1, <1>2, <1>3, <1>4

(* Every file operation leaves each frame the bytes it owns. *)
LEMMA OwnStep ==
  ASSUME StaleIndex = FALSE
  PROVE  OwnIInv /\ [HostNext]_hostVars => OwnIInv'
<1> SUFFICES ASSUME OwnIInv, [HostNext]_hostVars PROVE OwnIInv'
  OBVIOUS
<1>1. /\ Map(slots, free, end) /\ Numbers /\ UpToDate
      /\ OwnsAll(slots, generation)
      /\ index # Unreadable => OwnsAll(index.slots, index.g)
  BY DEF OwnIInv, MapIInv
<1>2. MapIInv'
  BY MapStep DEF OwnIInv
<1>3. slots \in SlotMap
  BY <1>1 DEF Map
<1>4. ASSUME NEW f \in Identity, NEW n \in Lengths, NEW p \in Picture, Write(f, n, p)
      PROVE  OwnIInv'
  <2> DEFINE slot == Taken(WithoutSlotOf(f), n)
             tag == [generation |-> generation, frame |-> f, pixels |-> p]
  <2>1. /\ call = Idle /\ EndAfter(WithoutSlotOf(f), n) <= MaxEnd
        /\ cells' = [b \in DOMAIN cells |-> IF b \in BytesOf(slot) THEN tag ELSE cells[b]]
        /\ slots' = [slots EXCEPT ![f] = slot]
        /\ call' = [at |-> "persist", who |-> {f}]
        /\ UNCHANGED <<generation, index, minted>>
    BY <1>4 DEF Write
  <2>2. slots'[f] = slot /\ \A g \in Identity : g # f => slots'[g] = slots[g]
    BY <1>3, <2>1 DEF SlotMap
  <2>0. Lays(f, n, p, BytesOf(slot))
    BY <2>1 DEF Lays
  <2>3. /\ Numbers' /\ (index # Unreadable => OwnsAll(index.slots, index.g)')
        /\ \A g \in Identity : g # f /\ slots[g] # NoSlot =>
             \A b \in BytesOf(slots[g]) : cells'[b] = cells[b]
        /\ \A b \in BytesOf(slot) : cells'[b] = tag
    BY <2>0, BytesLaid
  <2>4. UpToDate'
    BY <2>1, <2>2, FallsBehind
  <2>5. tag # Nobody /\ tag.frame = f /\ tag.generation = generation
    BY <1>1, MarkersAssumption DEF Numbers, Tag
  <2> HIDE DEF slot, tag
  <2>6. OwnsAll(slots, generation)'
    BY <1>1, <2>1, <2>2, <2>3, <2>5 DEF OwnsAll
  <2> QED
    BY <1>2, <2>1, <2>3, <2>4, <2>6 DEF OwnIInv, OwnsAll
<1>5. ASSUME NEW f \in Identity, NEW n \in Lengths, NEW p \in Picture, NEW w \in 0..(n - 1),
             WriteShort(f, n, p, w)
      PROVE  OwnIInv'
  <2> DEFINE slot == Taken(WithoutSlotOf(f), n)
             S == slot.offset .. (slot.offset + w - 1)
             tag == [generation |-> generation, frame |-> f, pixels |-> p]
  <2>1. /\ call = Idle /\ EndAfter(WithoutSlotOf(f), n) <= MaxEnd
        /\ cells' = [b \in DOMAIN cells |-> IF b \in S THEN tag ELSE cells[b]]
        /\ slots' = [slots EXCEPT ![f] = NoSlot]
        /\ call' = [at |-> "persist", who |-> {f}]
        /\ UNCHANGED <<generation, index, minted>>
    BY <1>5 DEF WriteShort
  <2>2. slots'[f] = NoSlot /\ \A g \in Identity : g # f => slots'[g] = slots[g]
    BY <1>3, <2>1 DEF SlotMap
  <2>7. slot.offset \in Nat /\ slot.length = n /\ n \in Nat
    BY <1>1, <2>1, WrittenApart
  <2>8. S \subseteq BytesOf(slot)
    BY <2>7 DEF BytesOf
  <2> HIDE DEF S
  <2>0. Lays(f, n, p, S)
    BY <2>1, <2>8 DEF Lays
  <2>3. /\ Numbers' /\ (index # Unreadable => OwnsAll(index.slots, index.g)')
        /\ \A g \in Identity : g # f /\ slots[g] # NoSlot =>
             \A b \in BytesOf(slots[g]) : cells'[b] = cells[b]
    BY <2>0, BytesLaid
  <2>4. UpToDate'
    BY <2>1, <2>2, FallsBehind
  <2>6. OwnsAll(slots, generation)'
    BY <1>1, <2>1, <2>2, <2>3 DEF OwnsAll
  <2> QED
    BY <1>2, <2>1, <2>3, <2>4, <2>6 DEF OwnIInv, OwnsAll
<1>6. ASSUME NEW f \in Identity, Drop(f)
      PROVE  OwnIInv'
  <2>1. /\ call = Idle /\ slots' = [slots EXCEPT ![f] = NoSlot]
        /\ call' = [at |-> "persist", who |-> {f}]
        /\ UNCHANGED <<generation, index, cells, minted>>
    BY <1>6 DEF Drop
  <2>2. slots'[f] = NoSlot /\ \A g \in Identity : g # f => slots'[g] = slots[g]
    BY <1>3, <2>1 DEF SlotMap
  <2>3. UpToDate'
    BY <2>1, <2>2, FallsBehind
  <2>4. OwnsAll(slots, generation)'
    BY <1>1, <2>1, <2>2 DEF OwnsAll
  <2> QED
    BY <1>1, <1>2, <2>1, <2>3, <2>4 DEF OwnIInv, OwnsAll, Numbers
<1>7. ASSUME Persist \/ RestoreIndex PROVE OwnIInv'
  <2>1. /\ UNCHANGED <<slots, free, end, generation, cells, minted>> /\ call' = Idle
        /\ index' = held \/ index' = Unreadable \/ (call.at = "restore" /\ index' = index)
    BY <1>7 DEF Persist, RestoreIndex, memory, WriteIndex, IndexRefused
  <2>2. CASE index' = held
    <3>1. held \in StoredIndex
      BY <1>1 DEF held, StoredIndex, Map, SlotMap, HoleMap, Numbers
    <3>2. index' # Unreadable
      BY <2>2, <3>1, MarkersAssumption
    <3>3. IsHeld'
      BY <2>1, <2>2, <3>2 DEF IsHeld, held
    <3> QED
      BY <1>1, <1>2, <2>1, <3>3 DEF OwnIInv, OwnsAll, Numbers, UpToDate, Idle, IsHeld
  <2>3. CASE index' = Unreadable
    BY <1>1, <1>2, <2>1, <2>3 DEF OwnIInv, OwnsAll, Numbers, UpToDate, Idle
  <2>4. CASE call.at = "restore" /\ index' = index
    <3>1. UpToDate'
      BY <1>1, <2>1, <2>4 DEF UpToDate, Idle, EmptyOfNext, IsHeld
    <3> QED
      BY <1>1, <1>2, <2>1, <2>4, <3>1 DEF OwnIInv, OwnsAll, Numbers
  <2> QED
    BY <2>1, <2>2, <2>3, <2>4
<1>8. CASE EmptyIndex
  <2> DEFINE empty == [g |-> minted', end |-> 0, slots |-> NoSlots, free |-> NoHoles]
  <2>1. /\ UNCHANGED <<slots, free, end, generation, cells>> /\ minted' = minted + 1
        /\ \/ index' = empty /\ call' = [at |-> "truncate", who |-> {}]
           \/ index' \in {Unreadable, index} /\ call' = [at |-> "restore", who |-> {}]
        /\ call = Idle
    BY <1>8 DEF EmptyIndex, memory, WriteIndex, IndexRefused
  <2>2. minted' \in Nat /\ generation' <= minted' /\ generation' < minted'
    BY <1>1, <2>1 DEF Numbers
  <2>3. CASE index' = empty /\ call' = [at |-> "truncate", who |-> {}]
    <3>1. empty \in StoredIndex
      BY <2>2, EmptyMap DEF StoredIndex, Map, SlotMap, HoleMap
    <3>2. /\ index' # Unreadable /\ index'.g = minted' /\ index'.slots = NoSlots
          /\ index'.free = NoHoles /\ index'.end = 0
      BY <2>3, <3>1, MarkersAssumption
    <3>3. EmptyOfNext' /\ UpToDate'
      BY <2>1, <2>2, <2>3, <3>2 DEF EmptyOfNext, UpToDate, NoSlots
    <3>4. Numbers'
      BY <1>1, <2>1, <2>2, <3>2 DEF Numbers
    <3>5. OwnsAll(slots, generation)' /\ OwnsAll(index.slots, index.g)'
      BY <1>1, <2>1, <3>2 DEF OwnsAll, NoSlots
    <3> QED
      BY <1>2, <3>3, <3>4, <3>5 DEF OwnIInv, OwnsAll
  <2>4. CASE index' \in {Unreadable, index} /\ call' = [at |-> "restore", who |-> {}]
    <3>1. UpToDate'
      BY <1>1, <2>1, <2>4 DEF UpToDate, Idle, EmptyOfNext, IsHeld
    <3>2. Numbers'
      BY <1>1, <2>1, <2>2, <2>4 DEF Numbers
    <3> QED
      BY <1>1, <1>2, <2>1, <2>4, <3>1, <3>2 DEF OwnIInv, OwnsAll
  <2> QED
    BY <2>1, <2>3, <2>4
<1>9. CASE TruncateFrames
  <2>1. /\ call.at = "truncate" /\ cells' = NoCells /\ slots' = NoSlots /\ free' = NoHoles /\ end' = 0
        /\ generation' = minted /\ call' = Idle /\ UNCHANGED <<index, minted>>
    BY <1>9 DEF TruncateFrames
  <2>2. EmptyOfNext /\ index.g = minted
    BY <1>1, <2>1 DEF UpToDate
  <2>3. OwnsAll(slots, generation)' /\ OwnsAll(index.slots, index.g)'
    BY <2>1, <2>2 DEF OwnsAll, NoSlots, EmptyOfNext
  <2>4. Numbers'
    BY <1>1, <2>1, SpillHostAssumption DEF Numbers, NoCells
  <2>5. UpToDate'
    BY <2>1, <2>2 DEF UpToDate, EmptyOfNext, IsHeld, Idle
  <2> QED
    BY <1>2, <2>3, <2>4, <2>5 DEF OwnIInv
<1>10. CASE TruncateThrows
  <2>1. /\ call.at = "truncate" /\ call' = [at |-> "restore", who |-> {}]
        /\ UNCHANGED <<slots, free, end, generation, index, cells, minted>>
    BY <1>10 DEF TruncateThrows, memory
  <2>2. UpToDate'
    BY <1>1, <2>1 DEF UpToDate, EmptyOfNext
  <2> QED
    BY <1>1, <1>2, <2>1, <2>2 DEF OwnIInv, OwnsAll, Numbers
<1>11. CASE Reload
  <2>1. CASE /\ index # Unreadable /\ slots' = index.slots /\ free' = index.free
             /\ end' = Max({index.end} \cup {ReachOf(index.slots[f]) : f \in Identity})
             /\ generation' = index.g /\ minted' = minted
    <3>1. call' = Idle /\ UNCHANGED <<index, cells>>
      BY <1>11 DEF Reload
    <3>2. end' = index.end
      BY <2>1, MarkIsKept DEF OwnIInv, MapIInv
    <3>3. IsHeld' /\ UpToDate'
      BY <2>1, <3>1, <3>2 DEF IsHeld, UpToDate, Idle
    <3> QED
      BY <1>1, <1>2, <2>1, <3>1, <3>3 DEF OwnIInv, OwnsAll, Numbers
  <2>2. CASE index = Unreadable /\ minted' = minted + 1 /\ slots' = NoSlots /\ generation' = minted'
    <3>1. call' = Idle /\ UNCHANGED <<index, cells>>
      BY <1>11 DEF Reload
    <3>2. OwnsAll(slots, generation)'
      BY <2>2 DEF OwnsAll, NoSlots
    <3>3. Numbers' /\ UpToDate'
      BY <1>1, <2>2, <3>1 DEF Numbers, UpToDate, Idle
    <3> QED
      BY <1>1, <1>2, <2>2, <3>1, <3>2, <3>3 DEF OwnIInv
  <2> QED
    BY <1>11, <2>1, <2>2 DEF Reload
<1>12. CASE UNCHANGED hostVars
  BY <1>1, <1>2, <1>12 DEF hostVars, memory, OwnIInv, OwnsAll, Numbers, UpToDate, EmptyOfNext, IsHeld, BehindByOneCall
<1> QED
  BY <1>4, <1>5, <1>6, <1>7, <1>8, <1>9, <1>10, <1>11, <1>12 DEF HostNext

-----------------------------------------------------------------------------
(* What Read answers of a frame whose bytes are its own. *)
LEMMA CopyIs ==
  ASSUME NEW f \in Identity
  PROVE  OwnIInv =>
           /\ ~Held(f) => CopyOf(f) = NoCopy
           /\ Held(f) => CopyOf(f) \in Lengths \X Picture \cup {Torn}
           /\ \A t : (Held(f) /\ TagsOf(slots[f]) = {t}) => CopyOf(f) = <<slots[f].length, t.pixels>>
<1> SUFFICES ASSUME OwnIInv
             PROVE  /\ ~Held(f) => CopyOf(f) = NoCopy
                    /\ Held(f) => CopyOf(f) \in Lengths \X Picture \cup {Torn}
                    /\ \A t : (Held(f) /\ TagsOf(slots[f]) = {t}) => CopyOf(f) = <<slots[f].length, t.pixels>>
  OBVIOUS
<1> DEFINE tags == TagsOf(slots[f])
           pixels == (CHOOSE tag \in tags : TRUE).pixels
<1>1. ~Held(f) => CopyOf(f) = NoCopy
  BY DEF CopyOf
<1>2. CASE Held(f)
  <2>1. slots[f] \in Slot /\ slots[f].offset + slots[f].length <= end /\ end \in Nat /\ end <= MaxEnd
    BY <1>2 DEF OwnIInv, MapIInv, Map, Sound, SlotMap, Held
  <2>2. slots[f].offset \in Nat /\ slots[f].length \in Lengths /\ slots[f].length \in Nat
    BY <2>1, SpillHostAssumption DEF Slot
  <2>3. BytesOf(slots[f]) \subseteq 0..(MaxEnd - 1)
    BY <2>1, <2>2, SpillHostAssumption DEF BytesOf
  <2>4. \A tag \in tags : Owns(f, tag) /\ tag \in Tag
    BY <1>2, <2>3 DEF OwnIInv, OwnsAll, Owns, TagsOf, Held, Numbers
  <2> HIDE DEF tags
  <2>5. CopyOf(f) = IF \E tag \in tags : tags = {tag} THEN <<slots[f].length, pixels>> ELSE Torn
    BY <1>2, <2>4 DEF CopyOf, tags
  <2>6. ASSUME NEW t, tags = {t}
        PROVE  t \in Tag /\ pixels = t.pixels /\ CopyOf(f) = <<slots[f].length, t.pixels>>
    <3>1. (CHOOSE tag \in tags : TRUE) = t
      BY <2>6
    <3> QED
      BY <2>4, <2>5, <2>6, <3>1
  <2>7. CopyOf(f) \in Lengths \X Picture \cup {Torn}
    <3>1. CASE \E tag \in tags : tags = {tag}
      <4>1. PICK t \in tags : tags = {t}
        BY <3>1
      <4>2. t.pixels \in Picture /\ CopyOf(f) = <<slots[f].length, t.pixels>>
        BY <2>6, <4>1 DEF Tag
      <4> QED
        BY <2>2, <4>2
    <3>2. CASE ~\E tag \in tags : tags = {tag}
      BY <2>5, <3>2
    <3> QED
      BY <3>1, <3>2
  <2> QED
    BY <1>2, <2>6, <2>7 DEF tags
<1> QED
  BY <1>1, <1>2

(* No identity resolves to somebody else's pixels: whatever write, drop,    *)
(* clear or index write was refused and wherever the worker died, every     *)
(* byte Read would answer with was written for that frame in this capture   *)
(* (spill-host.ts, persist and clear).  An index write the file refuses     *)
(* without being emptied breaks this, which is why StaleIndex is excluded.  *)
THEOREM OwnPixelsOnly ==
  ASSUME StaleIndex = FALSE
  PROVE  HostSpec => []NoStrangersPixels
<1>1. OwnIInv => NoStrangersPixels
  <2> SUFFICES ASSUME OwnIInv, NEW f \in Identity PROVE CopyOf(f) # Strange
    BY DEF NoStrangersPixels
  <2>1. CopyOf(f) \in Lengths \X Picture \cup {NoCopy, Torn}
    BY CopyIs
  <2> QED
    BY <2>1, MarkersAssumption
<1>2. OwnIInv /\ [HostNext]_hostVars => OwnIInv'
  BY OwnStep
<1> QED
  BY <1>1, <1>2, OwnInit, PTL DEF HostSpec

-----------------------------------------------------------------------------
Copies == [f \in Identity |-> CopyOf(f)]

(* A frame whose slot and bytes a step leaves alone reads as it did. *)
LEMMA ReadsAsItDid ==
  ASSUME NEW f \in Identity, slots'[f] = slots[f], generation' = generation,
         Held(f) => \A b \in BytesOf(slots[f]) : cells'[b] = cells[b]
  PROVE  CopyOf(f)' = CopyOf(f)
<1>1. CASE ~Held(f)
  BY <1>1 DEF CopyOf, Held
<1>2. CASE Held(f)
  <2>1. TagsOf(slots[f])' = TagsOf(slots[f])
    BY <1>2 DEF TagsOf
  <2>2. \A tag : Owns(f, tag)' = Owns(f, tag)
    BY DEF Owns
  <2> QED
    BY <1>2, <2>1, <2>2 DEF CopyOf, Held, Owns
<1> QED
  BY <1>1, <1>2

(* What the sink the host stands for holds, under every identity. *)
LEMMA CopiesAre ==
  OwnIInv =>
    \A f \in Identity :
      /\ CopyOf(f) \in (Lengths \X Picture) \cup {NoCopy, Torn}
      /\ ~Held(f) => CopyOf(f) = NoCopy
      /\ \A t : (Held(f) /\ TagsOf(slots[f]) = {t}) => CopyOf(f) = <<slots[f].length, t.pixels>>
BY CopyIs

(* The host begins as an empty sink. *)
LEMMA SinkInit == HostInit => Sink!Init
<1> SUFFICES ASSUME HostInit PROVE Sink!Init
  OBVIOUS
<1>1. \A f \in Identity : CopyOf(f) = NoCopy
  BY DEF HostInit, NoSlots, CopyOf, Held
<1> QED
  BY <1>1 DEF HostInit, Sink!Init, Idle

(* Every step of the host is a step of the sink, or none of its business. *)
LEMMA SinkStep ==
  ASSUME StaleIndex = FALSE
  PROVE  OwnIInv /\ OwnIInv' /\ [HostNext]_hostVars => [Sink!Next]_(Sink!vars)
<1> SUFFICES ASSUME OwnIInv, OwnIInv', [HostNext]_hostVars PROVE [Sink!Next]_(Sink!vars)
  OBVIOUS
<1>1. /\ Map(slots, free, end) /\ slots \in SlotMap /\ Numbers /\ UpToDate
  BY DEF OwnIInv, MapIInv, Map
<1>2. /\ Copies = [f \in Identity |-> CopyOf(f)] /\ Copies' = [f \in Identity |-> CopyOf(f)']
  BY DEF Copies
<1>3. \A f \in Identity :
        /\ CopyOf(f)' \in (Lengths \X Picture) \cup {NoCopy, Torn}
        /\ ~Held(f)' => CopyOf(f)' = NoCopy
        /\ \A t : (Held(f)' /\ TagsOf(slots[f])' = {t}) => CopyOf(f)' = <<slots[f].length, t.pixels>>'
  <2>1. (\A f \in Identity :
          /\ CopyOf(f) \in (Lengths \X Picture) \cup {NoCopy, Torn}
          /\ ~Held(f) => CopyOf(f) = NoCopy
          /\ \A t : (Held(f) /\ TagsOf(slots[f]) = {t}) => CopyOf(f) = <<slots[f].length, t.pixels>>)'
    BY CopiesAre, PTL
  <2> QED
    BY <2>1
<1>4. ASSUME NEW f \in Identity, NEW n \in Lengths, NEW p \in Picture, Write(f, n, p)
      PROVE  Sink!Write(f)
  <2> DEFINE slot == Taken(WithoutSlotOf(f), n)
             tag == [generation |-> generation, frame |-> f, pixels |-> p]
  <2>1. /\ call = Idle /\ EndAfter(WithoutSlotOf(f), n) <= MaxEnd
        /\ cells' = [b \in DOMAIN cells |-> IF b \in BytesOf(slot) THEN tag ELSE cells[b]]
        /\ slots' = [slots EXCEPT ![f] = slot]
        /\ call' = [at |-> "persist", who |-> {f}]
        /\ UNCHANGED <<generation, index, minted>>
    BY <1>4 DEF Write
  <2>2. slots'[f] = slot /\ \A g \in Identity : g # f => slots'[g] = slots[g]
    BY <1>1, <2>1 DEF SlotMap
  <2>3. /\ slot # NoSlot /\ slot.length = n /\ slot.offset \in Nat /\ n \in Nat /\ n > 0
        /\ slot.offset \in BytesOf(slot)
    BY <1>1, <2>1, WrittenApart DEF BytesOf
  <2>0. Lays(f, n, p, BytesOf(slot))
    BY <2>1 DEF Lays
  <2>4. /\ \A g \in Identity : g # f /\ slots[g] # NoSlot =>
             \A b \in BytesOf(slots[g]) : cells'[b] = cells[b]
        /\ \A b \in BytesOf(slot) : cells'[b] = tag
    BY <2>0, BytesLaid
  <2>5. tag.pixels = p
    OBVIOUS
  <2> HIDE DEF slot, tag
  <2>6. TagsOf(slots[f])' = {tag}
    BY <2>2, <2>3, <2>4 DEF TagsOf
  <2>7. Held(f)' /\ slots'[f].length = n
    BY <2>2, <2>3 DEF Held
  <2>8. CopyOf(f)' = <<n, p>>
    BY <1>3, <2>5, <2>6, <2>7
  <2>9. \A g \in Identity : g # f => CopyOf(g)' = CopyOf(g)
    BY <2>1, <2>2, <2>4, ReadsAsItDid DEF Held
  <2>10. Copies' = [Copies EXCEPT ![f] = <<n, p>>]
    BY <1>2, <2>8, <2>9
  <2> QED
    BY <2>1, <2>10 DEF Sink!Write, Copies
<1>5. ASSUME NEW f \in Identity, NEW n \in Lengths, NEW p \in Picture, NEW w \in 0..(n - 1),
             WriteShort(f, n, p, w)
      PROVE  Sink!GiveUp(f)
  <2> DEFINE slot == Taken(WithoutSlotOf(f), n)
             S == slot.offset .. (slot.offset + w - 1)
             tag == [generation |-> generation, frame |-> f, pixels |-> p]
  <2>1. /\ call = Idle /\ EndAfter(WithoutSlotOf(f), n) <= MaxEnd
        /\ cells' = [b \in DOMAIN cells |-> IF b \in S THEN tag ELSE cells[b]]
        /\ slots' = [slots EXCEPT ![f] = NoSlot]
        /\ call' = [at |-> "persist", who |-> {f}]
        /\ UNCHANGED <<generation, index, minted>>
    BY <1>5 DEF WriteShort
  <2>2. slots'[f] = NoSlot /\ \A g \in Identity : g # f => slots'[g] = slots[g]
    BY <1>1, <2>1 DEF SlotMap
  <2>3. slot.offset \in Nat /\ slot.length = n /\ n \in Nat
    BY <1>1, <2>1, WrittenApart
  <2>4. S \subseteq BytesOf(slot)
    BY <2>3 DEF BytesOf
  <2> HIDE DEF S
  <2>0. Lays(f, n, p, S)
    BY <2>1, <2>4 DEF Lays
  <2>5. \A g \in Identity : g # f /\ slots[g] # NoSlot =>
          \A b \in BytesOf(slots[g]) : cells'[b] = cells[b]
    BY <2>0, BytesLaid
  <2>6. CopyOf(f)' = NoCopy
    BY <1>3, <2>2 DEF Held
  <2>7. \A g \in Identity : g # f => CopyOf(g)' = CopyOf(g)
    BY <2>1, <2>2, <2>5, ReadsAsItDid DEF Held
  <2>8. Copies' = [Copies EXCEPT ![f] = NoCopy]
    BY <1>2, <2>6, <2>7
  <2> QED
    BY <2>1, <2>8 DEF Sink!GiveUp, Copies
<1>6. ASSUME NEW f \in Identity, Drop(f)
      PROVE  Sink!GiveUp(f)
  <2>1. /\ slots' = [slots EXCEPT ![f] = NoSlot]
        /\ call' = [at |-> "persist", who |-> {f}]
        /\ UNCHANGED <<generation, cells>>
    BY <1>6 DEF Drop
  <2>2. slots'[f] = NoSlot /\ \A g \in Identity : g # f => slots'[g] = slots[g]
    BY <1>1, <2>1 DEF SlotMap
  <2>3. CopyOf(f)' = NoCopy
    BY <1>3, <2>2 DEF Held
  <2>4. \A g \in Identity : g # f => CopyOf(g)' = CopyOf(g)
    BY <2>1, <2>2, ReadsAsItDid
  <2>5. Copies' = [Copies EXCEPT ![f] = NoCopy]
    BY <1>2, <2>3, <2>4
  <2> QED
    BY <2>1, <2>5 DEF Sink!GiveUp, Copies
<1>7. (UNCHANGED <<slots, generation, cells>>) => Copies' = Copies
  BY <1>2, ReadsAsItDid
<1>8. CASE Persist \/ RestoreIndex
  <2>1. UNCHANGED <<slots, generation, cells>> /\ call' = Idle
    BY <1>8 DEF Persist, RestoreIndex, memory
  <2> QED
    BY <1>7, <2>1 DEF Sink!Next, Sink!Settle, Copies, Idle
<1>9. CASE EmptyIndex \/ TruncateThrows
  <2>1. UNCHANGED <<slots, generation, cells>>
    BY <1>9 DEF EmptyIndex, TruncateThrows, memory
  <2>2. call = Idle \/ call.at = "truncate"
    BY <1>9 DEF EmptyIndex, TruncateThrows
  <2>3. call.who = {}
    BY <1>1, <2>2 DEF UpToDate, Idle
  <2>4. call' = [at |-> "truncate", who |-> {}] \/ call' = [at |-> "restore", who |-> {}]
    BY <1>9 DEF EmptyIndex, TruncateThrows
  <2> QED
    BY <1>7, <2>1, <2>3, <2>4 DEF Sink!vars, Copies
<1>10. (\A f \in Identity : slots'[f] = NoSlot) /\ generation' > generation /\ call' = Idle => Sink!StartOver
  <2> SUFFICES ASSUME \A f \in Identity : slots'[f] = NoSlot, generation' > generation, call' = Idle
               PROVE  Sink!StartOver
    OBVIOUS
  <2>1. Copies' = [f \in Identity |-> NoCopy]
    BY <1>2, <1>3 DEF Held
  <2> QED
    BY <2>1 DEF Sink!StartOver, Copies, Idle
<1>11. CASE TruncateFrames
  <2>1. index.g > generation /\ index.g = minted
    BY <1>1, <1>11 DEF TruncateFrames, UpToDate, EmptyOfNext
  <2>2. (\A f \in Identity : slots'[f] = NoSlot) /\ generation' > generation /\ call' = Idle
    BY <1>11, <2>1 DEF TruncateFrames, NoSlots
  <2> QED
    BY <1>10, <2>2 DEF Sink!Next
<1>12. CASE Reload
  <2>1. call' = Idle /\ UNCHANGED <<index, cells>>
    BY <1>12 DEF Reload
  <2>2. CASE index = Unreadable
    <3>1. (\A f \in Identity : slots'[f] = NoSlot) /\ generation' > generation
      BY <1>1, <1>12, <2>2 DEF Reload, NoSlots, Numbers
    <3> QED
      BY <1>10, <2>1, <3>1 DEF Sink!Next
  <2>3. CASE index # Unreadable /\ EmptyOfNext
    <3>1. (\A f \in Identity : slots'[f] = NoSlot) /\ generation' > generation
      BY <1>12, <2>3 DEF Reload, NoSlots, EmptyOfNext
    <3> QED
      BY <1>10, <2>1, <3>1 DEF Sink!Next
  <2>4. CASE index # Unreadable /\ ~EmptyOfNext
    <3>1. index.g = generation /\ \A f \in Identity \ call.who : index.slots[f] = slots[f]
      BY <1>1, <2>4 DEF UpToDate, IsHeld, BehindByOneCall
    <3>2. generation' = generation /\ \A f \in Identity \ call.who : slots'[f] = slots[f]
      BY <1>12, <2>4, <3>1 DEF Reload
    <3>3. \A f \in Identity \ call.who : CopyOf(f)' = CopyOf(f)
      BY <2>1, <3>2, ReadsAsItDid
    <3>4. Copies' \in [Identity -> (Lengths \X Picture) \cup {NoCopy, Torn}]
      BY <1>2, <1>3
    <3>5. \A f \in Identity \ call.who : Copies'[f] = Copies[f]
      BY <1>2, <3>3
    <3>6. Sink!Resume
      BY <2>1, <3>2, <3>4, <3>5 DEF Sink!Resume, Copies, Idle
    <3> QED
      BY <3>6 DEF Sink!Next
  <2> QED
    BY <2>2, <2>3, <2>4
<1>13. CASE UNCHANGED hostVars
  <2>1. UNCHANGED <<slots, generation, cells, call>>
    BY <1>13 DEF hostVars, memory
  <2> QED
    BY <1>7, <2>1 DEF Sink!vars, Copies
<1> QED
  BY <1>4, <1>5, <1>6, <1>8, <1>9, <1>11, <1>12, <1>13 DEF HostNext, Sink!Next

(* The host implements the sink the frame store counts on (spill-host.ts    *)
(* against ISpillSink): a tier that comes back with the same token has      *)
(* every copy it had, but for the call that was under way when the worker   *)
(* died; a tier that lost anything comes back with a new token.             *)
THEOREM ImplementsSink ==
  ASSUME StaleIndex = FALSE
  PROVE  HostSpec => TokenTellsTheTruth
<1>1. OwnIInv /\ [HostNext]_hostVars => OwnIInv'
  BY OwnStep
<1>2. OwnIInv /\ OwnIInv' /\ [HostNext]_hostVars => [Sink!Next]_(Sink!vars)
  BY SinkStep
<1> QED
  BY <1>1, <1>2, OwnInit, SinkInit, PTL DEF HostSpec, TokenTellsTheTruth, Sink!Spec
=============================================================================
