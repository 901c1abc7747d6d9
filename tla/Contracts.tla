------------------------------ MODULE Contracts ------------------------------
(***************************************************************************)
(* What crosses between the page and the core, as the generated codec and  *)
(* dispatch lay it out (codec.h, facade.generated.cpp): a type or a call's *)
(* arguments are a sequence of fields, and a struct within another is its  *)
(* fields in place.  Enumerations cross unchecked as 32-bit integers.      *)
(***************************************************************************)
EXTENDS Naturals, Sequences

Field(kind) == [kind |-> kind, of |-> <<>>, least |-> 0]

Bool == Field("bool")
I32 == Field("i32")
U64 == Field("u64")
F64 == Field("f64")

(* Numbers that cross as doubles and are checked as they become integers. *)
Integer == Field("integer")
Int64 == Field("int64")
Id == Field("id")

String == Field("string")
Bytes == Field("bytes")

(* A count and its elements, of at least so many bytes each. *)
Vector(element, least) == [kind |-> "count", of |-> element, least |-> least]

-----------------------------------------------------------------------------
Status == <<I32, String, String>>
Vec3 == <<F64, F64, F64>>
Quat == <<F64, F64, F64, F64>>
ImuSample == <<Int64>> \o Vec3 \o Vec3 \o <<Bool>> \o Vec3 \o <<Bool>> \o Quat \o <<Bool, F64>>
PoseSample == <<Int64>> \o Quat \o Vec3 \o <<F64, Bool>>
FrameRef == <<Id, Id, I32, Integer, Integer, Integer, Int64, U64>>
FramePreview == <<Id, Integer, Integer, I32, Bytes>>
CapturePlanSpec == <<I32, F64, F64, F64, F64, Bool, I32>>
CoverageNode == <<Id>> \o Quat \o <<F64, Integer>>
CapturePlan == <<Vector(CoverageNode, 56)>> \o CapturePlanSpec
CoverageGap == Quat \o <<F64>>
QualityScore == <<F64, F64, F64, F64, F64, F64>>
Candidate == <<Id, Id>> \o FrameRef \o PoseSample \o QualityScore
BurstSpec == <<Integer, Integer, Integer, Bool, Bool, Bool>>
CaptureGuidance == <<Id, F64, F64, F64, I32, Bool, F64>>
CoverageState == <<Integer, Integer, F64, Vector(<<Id>>, 8), Vector(<<Id>>, 8)>>
BuildSpec == <<I32, I32, Integer, Bool>>
BuildProgress == <<Id, I32, F64, Integer, Integer>> \o Status
GhostRegion == <<Id, F64, F64, F64, F64>>
GhostReport == <<Vector(GhostRegion, 40)>>
EncodeSpec == <<I32, Integer, Bool, Integer, Integer>>
PanoramaRef == <<Id, I32, Integer, Integer, Integer, Vector(FrameRef, 60)>> \o FrameRef
CameraCapabilities == <<Integer, Integer, F64, F64, Bool, Bool, Bool, F64>>
ProjectSummary == <<Id, String, Int64, Integer, Integer, Bool, Bool, Bool, Bool>>
ExportSpec == EncodeSpec \o <<String, Bool>>

-----------------------------------------------------------------------------
Call(takes, answers) == [takes |-> takes, answers |-> answers]

SessionCalls == {
  Call(<<Id>> \o CapturePlanSpec, <<Id>>),                  \* Begin
  Call(<<Id>>, <<Id>>),                                     \* Resume
  Call(<<>>, CapturePlan),                                  \* GetPlan
  Call(<<Vector(ImuSample, 123)>>, CaptureGuidance),        \* OnMotion
  Call(<<Id>> \o BurstSpec, <<>>),                          \* ArmBurst
  Call(<<Id>> \o FrameRef \o PoseSample, <<I32>>)}          \* OfferFrame

ReviewCalls == {
  Call(<<>>, CameraCapabilities),                           \* CameraInUse
  Call(<<>>, CoverageState),                                \* Coverage
  Call(<<Id>>, <<Vector(Candidate, 1)>>),                 \* Candidates
  Call(<<Id, Id, Integer>>, FramePreview),                  \* CandidatePreview
  Call(<<Id, Bool>>, <<>>),                                 \* RequestRetake
  Call(<<>>, <<>>)}                                         \* End

BuildCalls == {
  Call(<<Id>> \o BuildSpec, <<Id>>),                        \* Start
  Call(<<Id>>, BuildProgress),                              \* Poll
  Call(<<Id>>, PanoramaRef),                                \* Panorama
  Call(<<Id>>, FramePreview),                               \* PanoramaPreview
  Call(<<Id>>, GhostReport),                                \* Ghosts
  Call(<<Id>>, <<Vector(CoverageGap, 1)>>),                \* Gaps
  Call(<<Id, Vector(<<Id>>, 8)>>, <<>>),                    \* Invalidate
  Call(<<Id>>, <<>>)}                                       \* Cancel

ProjectCalls == {
  Call(<<>>, <<Vector(ProjectSummary, 1)>>),               \* List
  Call(<<String>>, <<Id>>),                                 \* Create
  Call(<<Id>>, <<>>),                                       \* Delete
  Call(<<Id, Id, Id>>, <<>>),                               \* SetSelection
  Call(<<Id, Id>>, <<Id>>),                                 \* GetSelection
  Call(<<Id, Id>> \o ExportSpec, <<>>)}                     \* Export
=============================================================================
