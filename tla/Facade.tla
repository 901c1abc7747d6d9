-------------------------------- MODULE Facade --------------------------------
(***************************************************************************)
(* A call across the facade: the page writes its arguments, the core reads *)
(* them and runs the call or refuses it, and the page reads the answer.    *)
(*                                                                         *)
(* A payload is its numbers, each as wide as it is on the wire.  What they *)
(* say is left out, but for the code of a status, what a length claims,    *)
(* and whether a double can become the integer it is meant for.  One thing *)
(* may be wrong with a payload: it arrives cut short, a double in it fits  *)
(* nothing, or a length lies.  A read that has lost its place finds        *)
(* anything.                                                               *)
(***************************************************************************)
EXTENDS Contracts, Integers, SequencesExt

CONSTANTS
  MaxLength,     \* of a string, and of a list
  SizeRange,     \* where a size_t wraps
  Claims         \* what a length that lies, or is none, may claim

ASSUME FacadeAssumption == MaxLength \in Nat /\ Claims \subseteq Int

VARIABLES
  call,       \* what is called
  leg,        \* who reads: the core, the page a status, the page a value
  sent,       \* the numbers of the payload, as they were written
  size,       \* the bytes of it that arrived
  wrong,      \* what is wrong with it
  todo,       \* fields still to be read
  reader,     \* where the reader is, and whether it has failed
  read,       \* the numbers read as they were sent, and whether it went astray
  reserved,   \* bytes that the elements made room for cannot do without
  core        \* what the core did, of arguments that were how

callVars == <<call, leg, sent, size, wrong, todo, reader, read, reserved, core>>

Begun == [at |-> 0, failed |-> FALSE]
NothingRead == [sent |-> 0, astray |-> FALSE]

CallInit ==
  /\ call \in SessionCalls \cup ReviewCalls \cup BuildCalls \cup ProjectCalls
  /\ leg = "none" /\ core = [did |-> "nothing", of |-> "nothing", whole |-> TRUE]
  /\ sent = <<>> /\ size = 0 /\ wrong = "nothing" /\ todo = <<>>
  /\ reader = Begun /\ read = NothingRead /\ reserved = 0

-----------------------------------------------------------------------------
(* The writer. *)
Checked == {"integer", "int64", "id"}
Width(kind) == CASE kind = "bool" -> 1 [] kind \in {"i32", "count"} -> 4 [] OTHER -> 8

Number(kind, width, claim) ==
  [kind |-> kind, width |-> width, claim |-> claim, fits |-> TRUE, true |-> TRUE]

(* A string is its length and its bytes. *)
Put(field, length) ==
  IF field.kind \in {"string", "bytes"}
    THEN <<Number("count", 4, length), Number("raw", length, 0)>>
    ELSE <<Number(field.kind, Width(field.kind), 0)>>

PutAll(fields, length) == FlattenSeq([i \in DOMAIN fields |-> Put(fields[i], length)])

(* A list is its count and its elements. *)
PutList(field, length) ==
  <<Number("count", 4, length)>> \o FlattenSeq([i \in 1..length |-> PutAll(field.of, length)])

Encode(fields, length) ==
  FlattenSeq([i \in DOMAIN fields |->
    IF fields[i].kind = "count" THEN PutList(fields[i], length) ELSE Put(fields[i], length)])

Bytewise(numbers) == FoldSeq(LAMBDA number, sum : sum + number.width, 0, numbers)

Arrives(numbers, bytes, fault) ==
  /\ sent' = numbers /\ size' = bytes /\ wrong' = fault
  /\ reader' = Begun /\ read' = NothingRead /\ reserved' = 0

Sends(numbers) ==
  \/ Arrives(numbers, Bytewise(numbers), "nothing")
  \/ \E bytes \in 0..(Bytewise(numbers) - 1) : Arrives(numbers, bytes, "cut")

(* What the page alone gets wrong: a number no integer is, a length. *)
SendsAmiss(numbers) == \E i \in DOMAIN numbers :
  \/ /\ numbers[i].kind \in Checked
     /\ Arrives([numbers EXCEPT ![i].fits = FALSE], Bytewise(numbers), "unfit")
  \/ /\ numbers[i].kind = "count"
     /\ \E claim \in Claims \ {numbers[i].claim} :
          Arrives([numbers EXCEPT ![i].claim = claim, ![i].true = FALSE], Bytewise(numbers), "lie")

Asks ==
  /\ leg = "none"
  /\ \E length \in 0..MaxLength : LET numbers == Encode(call.takes, length)
                                  IN  Sends(numbers) \/ SendsAmiss(numbers)
  /\ leg' = "core" /\ todo' = call.takes
  /\ UNCHANGED <<call, core>>

-----------------------------------------------------------------------------
(* The reader, the same on both sides but for what room a list is given. *)
DueNumber == sent[read.sent + 1]
OnCourse(kind) == ~read.astray /\ read.sent < Len(sent) /\ DueNumber.kind = kind
Anything == [kind : {"none"}, claim : Claims, fits : BOOLEAN, true : {FALSE}]
Zero == Number("none", 0, 0)

(* Fault: a read is judged by its own bytes alone. *)
LatchedNot(failed, past) == past

(* Once a read has failed, every later one does. *)
Latched(failed, past) == failed \/ past

(* Raw: what is read at the reader's place, where that leaves it, and       *)
(* whether that is what was sent.                                           *)
Raw(kind, width) ==
  IF Latched(reader.failed, reader.at + width > size)
    THEN {[number |-> Zero, reader |-> [reader EXCEPT !.failed = TRUE], read |-> read]}
  ELSE {[number |-> number,
         reader |-> [at |-> reader.at + width, failed |-> FALSE],
         read |-> IF number.true THEN [read EXCEPT !.sent = @ + 1]
                  ELSE [read EXCEPT !.astray = TRUE]] :
        number \in IF OnCourse(kind) THEN {DueNumber} ELSE Anything}

Fails(r) == [r EXCEPT !.failed = TRUE]
Reads(kinds) == todo # <<>> /\ Head(todo).kind \in kinds
ThePayload == <<call, leg, sent, size, wrong, core>>

GetScalar ==
  /\ Reads({"bool", "i32", "u64", "f64"})
  /\ \E got \in Raw(Head(todo).kind, Width(Head(todo).kind)) : reader' = got.reader /\ read' = got.read
  /\ todo' = Tail(todo)
  /\ UNCHANGED <<ThePayload, reserved>>

(* GetInteger, GetInt64, GetId: the page reads them as they come. *)
GetChecked ==
  /\ Reads(Checked)
  /\ \E got \in Raw(Head(todo).kind, 8) :
       /\ reader' = IF leg = "core" /\ ~got.number.fits THEN Fails(got.reader) ELSE got.reader
       /\ read' = got.read
  /\ todo' = Tail(todo)
  /\ UNCHANGED <<ThePayload, reserved>>

GetText ==
  /\ Reads({"string", "bytes"})
  /\ \E got \in Raw("count", 4) :
       LET length == got.number.claim
       IN  IF got.reader.failed \/ length < 0 \/ length > size - got.reader.at
             THEN reader' = Fails(got.reader) /\ read' = got.read
             ELSE /\ reader' = [got.reader EXCEPT !.at = @ + length]
                  /\ read' = [got.read EXCEPT !.sent = IF got.read.astray THEN @ ELSE @ + 1]
  /\ todo' = Tail(todo)
  /\ UNCHANGED <<ThePayload, reserved>>

(* Fault: the elements' bytes are multiplied out, in a size_t. *)
HasRoomMultiplied(count, least, left) == (count * least) % SizeRange <= left

(* The bytes left are divided: that cannot wrap. *)
HasRoom(count, least, left) == count <= left \div least

(* The page asks for a byte an element, the core for what one takes. *)
LeastBytes(field) == IF leg = "core" THEN field.least ELSE 1

GetCount ==
  /\ Reads({"count"})
  /\ \E got \in Raw("count", 4) :
       LET count == got.number.claim
           least == LeastBytes(Head(todo))
       IN  /\ read' = got.read
           /\ IF got.reader.failed \/ count < 0 \/ ~HasRoom(count, least, size - got.reader.at)
                THEN /\ reader' = Fails(got.reader) /\ todo' = Tail(todo)
                     /\ UNCHANGED reserved
                ELSE /\ reader' = got.reader
                     /\ todo' = FlattenSeq([i \in 1..count |-> Head(todo).of]) \o Tail(todo)
                     /\ reserved' = reserved + count * least
  /\ UNCHANGED ThePayload

-----------------------------------------------------------------------------
Whole == ~read.astray /\ read.sent = Len(sent)
HasRead(who) == leg = who /\ todo = <<>>

(* The status leads the answer: 0 is Ok, and a value follows that alone. *)
Answer(ok) == [Encode(Status \o (IF ok THEN call.answers ELSE <<>>), MaxLength)
                 EXCEPT ![1].claim = IF ok THEN 0 ELSE 1]

(* The call is run, as it was read, or refused as malformed. *)
Dispatches ==
  /\ HasRead("core")
  /\ \E ok \in IF reader.failed THEN {FALSE} ELSE BOOLEAN :
       /\ Sends(Answer(ok))
       /\ core' = [did |-> IF reader.failed THEN "refused" ELSE IF ok THEN "ran" ELSE "declined",
                   of |-> wrong, whole |-> Whole]
  /\ leg' = "status" /\ todo' = Status
  /\ UNCHANGED call

(* decodeStatus, before anything it read is believed. *)
StatusRead ==
  /\ HasRead("status")
  /\ \/ reader.failed /\ leg' = "malformed" /\ todo' = <<>>
     \/ ~reader.failed /\ sent[1].claim # 0 /\ leg' = "told" /\ todo' = <<>>
     \/ ~reader.failed /\ sent[1].claim = 0 /\ leg' = "value" /\ todo' = call.answers
  /\ UNCHANGED <<call, sent, size, wrong, reader, read, reserved, core>>

ValueRead ==
  /\ HasRead("value")
  /\ leg' = IF reader.failed THEN "malformed" ELSE "taken"
  /\ UNCHANGED <<call, sent, size, wrong, todo, reader, read, reserved, core>>

CallNext == \/ Asks \/ GetScalar \/ GetChecked \/ GetText \/ GetCount
            \/ Dispatches \/ StatusRead \/ ValueRead

CallSpec == CallInit /\ [][CallNext]_callVars

-----------------------------------------------------------------------------
(* Whatever is called, the core runs it with what the page wrote and        *)
(* refuses nothing that arrived whole, or does not run it at all; and the   *)
(* page takes a value only from a call that ran, all of it.  A length that  *)
(* lies may pass for another call of the same name (wire.h, facade.ts).     *)
DeliveredAsWritten ==
  /\ core.did \in {"ran", "declined"} /\ core.of # "lie" => core.of = "nothing" /\ core.whole
  /\ core.did = "refused" => core.of # "nothing"
  /\ leg = "taken" => core.did = "ran" /\ Whole
  /\ leg = "told" => core.did \in {"declined", "refused"}
  /\ leg = "malformed" => wrong = "cut"

(* No length makes the reader reserve more than the payload can hold, and   *)
(* it never reads past its end (wire.h: a 40-byte payload asked for a       *)
(* vector of 37 million).                                                   *)
RoomIsBacked == reserved <= size /\ reader.at <= size
=============================================================================
