---------------------- MODULE CandidateBindingProofs ----------------------
(***************************************************************************)
(* What was inspected is what is executed, for every set of releases,       *)
(* files, formulae and snapshots, and any number of changes from outside.   *)
(* There is one lemma per step: under each the invariant's parts on the     *)
(* state itself, the copy and its release, the decision of a check, the     *)
(* check of a command, and the inputs.                                      *)
(***************************************************************************)
EXTENDS CandidateBinding, TLAPS

LEMMA InitHolds == Init => BindingInvariant
<1> SUFFICES ASSUME Init PROVE BindingInvariant
  OBVIOUS
<1> USE DEF Init, SourceInit, Unasked
<1>1. TypeOK
  BY SourceIsTyped DEF TypeOK, SourceTypeOK, Rounds, Stages, Stored
<1>2. Placed /\ Fresh /\ CopyWasThere /\ HeadWasThere
  BY DEF Placed, Beginning, Collecting, Fresh, CopyWasThere, HeadWasThere
<1>3. RecordIsOfCopy /\ CheckDecides /\ CommandIsChecked
  BY DEF RecordIsOfCopy, CheckDecides, CommandIsChecked
<1>4. InputsAreBound /\ CommandRunsWhatWasInspected /\ PoursWhatWasAssessed
  BY DEF InputsAreBound, CommandRunsWhatWasInspected, PoursWhatWasAssessed
<1> QED BY <1>1, <1>2, <1>3, <1>4 DEF BindingInvariant

\* rev-parse at the recorded release again: HEAD had not left it, or something was put back.
LEMMA ReadHeadHolds ==
  ASSUME BindingInvariant, ReadHead
  PROVE  BindingInvariant'
<1> USE DEF BindingInvariant, ReadHead, Asking, GoTo, Unasked, Unavailable, installed,
            runtime, inputs, commands
<1>1. TypeOK' /\ Placed'
  BY DEF TypeOK, SourceTypeOK, Rounds, Stages, Placed, Beginning, Collecting
<1>2. Fresh' /\ CopyWasThere' /\ HeadWasThere' /\ RecordIsOfCopy'
  BY DEF TypeOK, SourceTypeOK, Placed, Beginning, Fresh, CopyWasThere, HeadWasThere,
         RecordIsOfCopy, OfRelease
<1>3. CheckDecides'
  <2>1. stage = "check" /\ head = revision => restored \/ OfRelease(revision)
    BY DEF Placed, Beginning, Fresh, RecordIsOfCopy
  <2>2. (OfRelease(revision))' <=> OfRelease(revision)
    BY DEF OfRelease
  <2>3. CASE stage = "check"
    <3>1. git' = Unavailable \/ git'.revision = head
      OBVIOUS
    <3>2. revision # None
      BY <2>3 DEF Placed, Beginning
    <3> QED BY <2>1, <2>2, <2>3, <3>1, <3>2, Zenon DEF CheckDecides, Placed
  <2>4. CASE stage # "check"
    BY <2>4 DEF CheckDecides, OfRelease, Placed, Beginning, Collecting
  <2> QED BY <2>3, <2>4
<1>4. CommandIsChecked' /\ CommandRunsWhatWasInspected'
  BY DEF TypeOK, CommandIsChecked, CommandRunsWhatWasInspected, Clean
<1>5. InputsAreBound' /\ PoursWhatWasAssessed'
  BY DEF Placed, Collecting, InputsAreBound, PoursWhatWasAssessed, MatchesMetadata
<1> QED BY <1>1, <1>2, <1>3, <1>4, <1>5

\* A clean status looked at the files of the release it names, unless HEAD moved meanwhile.
LEMMA ReadStatusHolds ==
  ASSUME BindingInvariant, ReadStatus
  PROVE  BindingInvariant'
<1> USE DEF BindingInvariant, ReadStatus, Asking, GoTo, Unasked, Unavailable, installed,
            runtime, inputs, commands
<1>1. TypeOK' /\ Placed'
  BY DEF TypeOK, SourceTypeOK, Rounds, Stages, Placed, Beginning, Collecting
<1>2. Fresh' /\ CopyWasThere' /\ HeadWasThere'
  BY DEF Fresh, CopyWasThere, HeadWasThere
<1>6. RecordIsOfCopy'
  <2>1. CASE Clean /\ git.revision = head
    BY <2>1, SourceIsTyped DEF Clean, TypeOK, CopyWasThere, RecordIsOfCopy, OfRelease
  <2>2. CASE git.revision \in pastHead
    BY <2>2 DEF RecordIsOfCopy, OfRelease, TypeOK
  <2>3. CASE ~Clean
    BY <2>3 DEF RecordIsOfCopy, OfRelease
  <2> QED BY <2>1, <2>2, <2>3 DEF HeadWasThere
<1>3. CheckDecides'
  BY DEF TypeOK, Placed, Beginning, Collecting, CheckDecides, OfRelease
<1>4. CommandIsChecked' /\ CommandRunsWhatWasInspected'
  BY DEF TypeOK, CommandIsChecked, CommandRunsWhatWasInspected, Clean
<1>5. InputsAreBound' /\ PoursWhatWasAssessed'
  BY DEF Placed, Collecting, InputsAreBound, PoursWhatWasAssessed, MatchesMetadata
<1> QED BY <1>1, <1>2, <1>6, <1>3, <1>4, <1>5

\* A failed git command answers nothing.
LEMMA GitFailsHolds ==
  ASSUME BindingInvariant, GitFails
  PROVE  BindingInvariant'
<1> USE DEF BindingInvariant, GitFails, Asking, GoTo, Unasked, Unavailable, installed,
            runtime, inputs, commands
<1>1. TypeOK' /\ Placed'
  BY DEF TypeOK, SourceTypeOK, Rounds, Stages, Placed, Beginning, Collecting
<1>2. Fresh' /\ CopyWasThere' /\ HeadWasThere' /\ RecordIsOfCopy' /\ CheckDecides'
  BY DEF TypeOK, SourceTypeOK, Placed, Beginning, Collecting, Fresh, CopyWasThere,
         HeadWasThere, RecordIsOfCopy, CheckDecides, OfRelease
<1>3. CommandIsChecked' /\ CommandRunsWhatWasInspected'
  BY DEF TypeOK, CommandIsChecked, CommandRunsWhatWasInspected, Clean
<1>4. InputsAreBound' /\ PoursWhatWasAssessed'
  BY DEF Placed, Collecting, InputsAreBound, PoursWhatWasAssessed, MatchesMetadata
<1> QED BY <1>1, <1>2, <1>3, <1>4

\* The selection precedes the copy.
LEMMA SelectReleaseHolds ==
  ASSUME BindingInvariant, SelectRelease
  PROVE  BindingInvariant'
<1> USE DEF BindingInvariant, SelectRelease, Asking, GoTo, Unasked, Unavailable, installed,
            runtime, inputs, commands
<1>1. TypeOK' /\ Placed'
  BY DEF TypeOK, SourceTypeOK, Rounds, Stages, Placed, Beginning, Collecting
<1>2. Fresh' /\ CopyWasThere' /\ HeadWasThere' /\ RecordIsOfCopy' /\ CheckDecides'
  BY DEF TypeOK, SourceTypeOK, Placed, Beginning, Collecting, Fresh, CopyWasThere,
         HeadWasThere, RecordIsOfCopy, CheckDecides, OfRelease
<1>3. CommandIsChecked' /\ CommandRunsWhatWasInspected'
  BY DEF TypeOK, CommandIsChecked, CommandRunsWhatWasInspected, Clean
<1>4. InputsAreBound' /\ PoursWhatWasAssessed'
  BY DEF Placed, Collecting, InputsAreBound, PoursWhatWasAssessed, MatchesMetadata
<1> QED BY <1>1, <1>2, <1>3, <1>4

\* A copied file is what is there.
LEMMA CopyFileHolds ==
  ASSUME BindingInvariant, NEW f \in File, CopyFile(f)
  PROVE  BindingInvariant'
<1> USE DEF BindingInvariant, CopyFile, Asking, GoTo, Unasked, Unavailable, installed,
            runtime, inputs, commands
<1>1. TypeOK' /\ Placed'
  BY DEF TypeOK, SourceTypeOK, Rounds, Stages, Placed, Beginning, Collecting
<1>2. Fresh' /\ CopyWasThere' /\ HeadWasThere' /\ RecordIsOfCopy' /\ CheckDecides'
  BY DEF TypeOK, SourceTypeOK, Placed, Beginning, Collecting, Fresh, CopyWasThere,
         HeadWasThere, RecordIsOfCopy, CheckDecides, OfRelease
<1>3. CommandIsChecked' /\ CommandRunsWhatWasInspected'
  BY DEF TypeOK, CommandIsChecked, CommandRunsWhatWasInspected, Clean
<1>4. InputsAreBound' /\ PoursWhatWasAssessed'
  BY DEF Placed, Collecting, InputsAreBound, PoursWhatWasAssessed, MatchesMetadata
<1> QED BY <1>1, <1>2, <1>3, <1>4

\* The copy, complete or the fixture, is what was there.
LEMMA CopyDoneHolds ==
  ASSUME BindingInvariant, CopyDone
  PROVE  BindingInvariant'
<1> USE DEF BindingInvariant, CopyDone, Asking, GoTo, Unasked, Unavailable, installed,
            runtime, inputs, commands
<1>1. TypeOK' /\ Placed'
  BY DEF TypeOK, SourceTypeOK, Rounds, Stages, Placed, Beginning, Collecting
<1>2. Fresh' /\ CopyWasThere' /\ HeadWasThere' /\ RecordIsOfCopy' /\ CheckDecides'
  BY DEF TypeOK, SourceTypeOK, Placed, Beginning, Collecting, Fresh, CopyWasThere,
         HeadWasThere, RecordIsOfCopy, CheckDecides, OfRelease
<1>3. CommandIsChecked' /\ CommandRunsWhatWasInspected'
  BY DEF TypeOK, CommandIsChecked, CommandRunsWhatWasInspected, Clean
<1>4. InputsAreBound' /\ PoursWhatWasAssessed'
  BY DEF Placed, Collecting, InputsAreBound, PoursWhatWasAssessed, MatchesMetadata
<1> QED BY <1>1, <1>2, <1>3, <1>4

\* The confirmed selection is not the record yet.
LEMMA ConfirmHolds ==
  ASSUME BindingInvariant, Confirm
  PROVE  BindingInvariant'
<1> USE DEF BindingInvariant, Confirm, Asking, GoTo, Unasked, Unavailable, installed,
            runtime, inputs, commands
<1>1. TypeOK' /\ Placed'
  BY DEF TypeOK, SourceTypeOK, Rounds, Stages, Placed, Beginning, Collecting
<1>2. Fresh' /\ CopyWasThere' /\ HeadWasThere' /\ RecordIsOfCopy' /\ CheckDecides'
  BY DEF TypeOK, SourceTypeOK, Placed, Beginning, Collecting, Fresh, CopyWasThere,
         HeadWasThere, RecordIsOfCopy, CheckDecides, OfRelease
<1>3. CommandIsChecked' /\ CommandRunsWhatWasInspected'
  BY DEF TypeOK, CommandIsChecked, CommandRunsWhatWasInspected, Clean
<1>4. InputsAreBound' /\ PoursWhatWasAssessed'
  BY DEF Placed, Collecting, InputsAreBound, PoursWhatWasAssessed, MatchesMetadata
<1> QED BY <1>1, <1>2, <1>3, <1>4

\* What is recorded is bound to the copy, by git or by the fixture's files.
LEMMA IdentifyHolds ==
  ASSUME BindingInvariant, Identify
  PROVE  BindingInvariant'
<1> USE DEF BindingInvariant, Identify, Asking, GoTo, Unasked, Unavailable, installed,
            runtime, inputs, commands
<1>1. TypeOK' /\ Placed'
  <2>1. revision' \in Release /\ revision' # None
    BY SourceIsTyped, BindingIsTyped DEF TypeOK
  <2> QED BY <2>1 DEF TypeOK, SourceTypeOK, Stages, Placed, Beginning, Collecting
<1>2. Fresh' /\ CopyWasThere' /\ HeadWasThere'
  BY DEF Fresh, CopyWasThere, HeadWasThere
<1>6. RecordIsOfCopy'
  <2>1. CASE git.revision # None /\ revision' = git.revision
    BY <2>1 DEF RecordIsOfCopy, OfRelease
  <2>2. CASE copy = LegacyTree /\ revision' = Legacy
    BY <2>2, BindingIsTyped DEF RecordIsOfCopy, OfRelease
  <2> QED BY <2>1, <2>2
<1>3. CheckDecides'
  BY DEF TypeOK, Placed, Beginning, Collecting, CheckDecides, OfRelease
<1>4. CommandIsChecked' /\ CommandRunsWhatWasInspected'
  BY DEF TypeOK, CommandIsChecked, CommandRunsWhatWasInspected, Clean
<1>5. InputsAreBound' /\ PoursWhatWasAssessed'
  BY DEF Placed, Collecting, InputsAreBound, PoursWhatWasAssessed, MatchesMetadata
<1> QED BY <1>1, <1>2, <1>6, <1>3, <1>4, <1>5

\* The first batch brings the snapshot in.
LEMMA AcquireMetadataHolds ==
  ASSUME BindingInvariant, AcquireMetadata
  PROVE  BindingInvariant'
<1> USE DEF BindingInvariant, AcquireMetadata, Asking, GoTo, Unasked, Unavailable,
            installed, runtime, inputs, commands
<1>1. TypeOK' /\ Placed'
  <2>1. Offers[published] \in [Formula -> Bottle]
    BY BindingIsTyped DEF TypeOK
  <2>2. candidates' \in [Formula -> Bottle \cup {Absent}]
    BY <2>1
  <2>3. disk' \in [Input -> Stored] /\ disk'[Packages] \in Snapshot
    BY DEF TypeOK, Input, Stored
  <2> QED BY <2>2, <2>3 DEF TypeOK, SourceTypeOK, Stages, Placed, Beginning, Collecting
<1>2. Fresh' /\ CopyWasThere' /\ HeadWasThere' /\ RecordIsOfCopy' /\ CheckDecides'
  BY DEF TypeOK, SourceTypeOK, Placed, Beginning, Collecting, Fresh, CopyWasThere,
         HeadWasThere, RecordIsOfCopy, CheckDecides, OfRelease
<1>3. CommandIsChecked' /\ CommandRunsWhatWasInspected'
  BY DEF TypeOK, CommandIsChecked, CommandRunsWhatWasInspected, Clean
<1>4. InputsAreBound' /\ PoursWhatWasAssessed'
  BY DEF Placed, Collecting, InputsAreBound, PoursWhatWasAssessed, MatchesMetadata
<1> QED BY <1>1, <1>2, <1>3, <1>4

\* The other batches describe the rest of the closure.
LEMMA InspectDependenciesHolds ==
  ASSUME BindingInvariant, InspectDependencies
  PROVE  BindingInvariant'
<1> USE DEF BindingInvariant, InspectDependencies, Asking, GoTo, Unasked, Unavailable,
            installed, runtime, inputs, commands
<1>1. TypeOK' /\ Placed'
  <2>1. Offers[disk[Packages]] \in [Formula -> Bottle]
    BY BindingIsTyped DEF Placed
  <2>2. candidates' \in [Formula -> Bottle \cup {Absent}]
    BY <2>1 DEF TypeOK
  <2> QED BY <2>2 DEF TypeOK, SourceTypeOK, Stages, Placed, Beginning, Collecting
<1>2. Fresh' /\ CopyWasThere' /\ HeadWasThere' /\ RecordIsOfCopy' /\ CheckDecides'
  BY DEF TypeOK, SourceTypeOK, Placed, Beginning, Collecting, Fresh, CopyWasThere,
         HeadWasThere, RecordIsOfCopy, CheckDecides, OfRelease
<1>3. CommandIsChecked' /\ CommandRunsWhatWasInspected'
  BY DEF TypeOK, CommandIsChecked, CommandRunsWhatWasInspected, Clean
<1>4. InputsAreBound' /\ PoursWhatWasAssessed'
  BY DEF Placed, Collecting, InputsAreBound, PoursWhatWasAssessed, MatchesMetadata
<1> QED BY <1>1, <1>2, <1>3, <1>4

\* A fetch replaces the snapshot with another one at most.
LEMMA FetchBottlesHolds ==
  ASSUME BindingInvariant, NEW s \in {disk[Packages], published}, FetchBottles(s)
  PROVE  BindingInvariant'
<1> USE DEF BindingInvariant, FetchBottles, Asking, GoTo, Unasked, Unavailable, installed,
            runtime, inputs, commands
<1>1. TypeOK' /\ Placed'
  <2>1. s \in Snapshot /\ Offers[s] \in [Formula -> Bottle]
    BY BindingIsTyped DEF TypeOK, Placed
  <2>2. ASSUME NEW x \in Input PROVE disk'[x] \in Stored
    <3>1. CASE x = Packages
      BY <2>1, <3>1 DEF Packages, Stored
    <3>2. ASSUME NEW f \in Formula, x = Cached(f) PROVE disk'[x] \in Stored
      BY <2>1, <3>2 DEF Cached, Stored
    <3>3. ASSUME NEW f \in Formula, x = Copied(f) PROVE disk'[x] \in Stored
      BY <3>3 DEF Copied, TypeOK
    <3> QED BY <3>1, <3>2, <3>3 DEF Input
  <2>3. disk' \in [Input -> Stored]
    BY <2>2
  <2>4. todo' \subseteq Formula
    OBVIOUS
  <2> QED BY <2>3, <2>4 DEF TypeOK, SourceTypeOK, Stages, Placed, Beginning, Collecting
<1>2. Fresh' /\ CopyWasThere' /\ HeadWasThere' /\ RecordIsOfCopy' /\ CheckDecides'
  BY DEF TypeOK, SourceTypeOK, Placed, Beginning, Collecting, Fresh, CopyWasThere,
         HeadWasThere, RecordIsOfCopy, CheckDecides, OfRelease
<1>3. CommandIsChecked' /\ CommandRunsWhatWasInspected'
  BY DEF TypeOK, CommandIsChecked, CommandRunsWhatWasInspected, Clean
<1>4. InputsAreBound' /\ PoursWhatWasAssessed'
  BY DEF Placed, Collecting, InputsAreBound, PoursWhatWasAssessed, MatchesMetadata
<1> QED BY <1>1, <1>2, <1>3, <1>4

\* A download is copied.
LEMMA CopyDownloadHolds ==
  ASSUME BindingInvariant, NEW f \in Formula, CopyDownload(f)
  PROVE  BindingInvariant'
<1> USE DEF BindingInvariant, CopyDownload, Asking, GoTo, Unasked, Unavailable, installed,
            runtime, inputs, commands
<1>1. TypeOK' /\ Placed'
  <2>1. disk' \in [Input -> Stored]
    BY DEF TypeOK, Stored
  <2>2. todo' \subseteq Formula \/ todo' \subseteq File \/ todo' \subseteq Input
    BY DEF TypeOK
  <2> QED BY <2>1, <2>2 DEF TypeOK, SourceTypeOK, Stages, Placed, Beginning, Collecting
<1>2. Fresh' /\ CopyWasThere' /\ HeadWasThere' /\ RecordIsOfCopy' /\ CheckDecides'
  BY DEF TypeOK, SourceTypeOK, Placed, Beginning, Collecting, Fresh, CopyWasThere,
         HeadWasThere, RecordIsOfCopy, CheckDecides, OfRelease
<1>3. CommandIsChecked' /\ CommandRunsWhatWasInspected'
  BY DEF TypeOK, CommandIsChecked, CommandRunsWhatWasInspected, Clean
<1>4. InputsAreBound' /\ PoursWhatWasAssessed'
  BY DEF Placed, Collecting, InputsAreBound, PoursWhatWasAssessed, MatchesMetadata
<1> QED BY <1>1, <1>2, <1>3, <1>4

\* A copy is assessed.
LEMMA AssessCandidateHolds ==
  ASSUME BindingInvariant, NEW f \in Formula, AssessCandidate(f)
  PROVE  BindingInvariant'
<1> USE DEF BindingInvariant, AssessCandidate, Asking, GoTo, Unasked, Unavailable,
            installed, runtime, inputs, commands
<1>1. TypeOK' /\ Placed'
  BY DEF TypeOK, SourceTypeOK, Rounds, Stages, Placed, Beginning, Collecting
<1>2. Fresh' /\ CopyWasThere' /\ HeadWasThere' /\ RecordIsOfCopy' /\ CheckDecides'
  BY DEF TypeOK, SourceTypeOK, Placed, Beginning, Collecting, Fresh, CopyWasThere,
         HeadWasThere, RecordIsOfCopy, CheckDecides, OfRelease
<1>3. CommandIsChecked' /\ CommandRunsWhatWasInspected'
  BY DEF TypeOK, CommandIsChecked, CommandRunsWhatWasInspected, Clean
<1>4. InputsAreBound' /\ PoursWhatWasAssessed'
  BY DEF Placed, Collecting, InputsAreBound, PoursWhatWasAssessed, MatchesMetadata
<1> QED BY <1>1, <1>2, <1>3, <1>4

\* An input is frozen.
LEMMA FreezeInputHolds ==
  ASSUME BindingInvariant, NEW x \in Input, FreezeInput(x)
  PROVE  BindingInvariant'
<1> USE DEF BindingInvariant, FreezeInput, Asking, GoTo, Unasked, Unavailable, installed,
            runtime, inputs, commands
<1>1. TypeOK' /\ Placed'
  BY DEF TypeOK, SourceTypeOK, Rounds, Stages, Placed, Beginning, Collecting
<1>2. Fresh' /\ CopyWasThere' /\ HeadWasThere' /\ RecordIsOfCopy' /\ CheckDecides'
  BY DEF TypeOK, SourceTypeOK, Placed, Beginning, Collecting, Fresh, CopyWasThere,
         HeadWasThere, RecordIsOfCopy, CheckDecides, OfRelease
<1>3. CommandIsChecked' /\ CommandRunsWhatWasInspected'
  BY DEF TypeOK, CommandIsChecked, CommandRunsWhatWasInspected, Clean
<1>4. InputsAreBound' /\ PoursWhatWasAssessed'
  BY DEF Placed, Collecting, InputsAreBound, PoursWhatWasAssessed, MatchesMetadata
<1> QED BY <1>1, <1>2, <1>3, <1>4

\* The collection goes on to its next loop, and to Prepare.
LEMMA CollectionGoesOnHolds ==
  ASSUME BindingInvariant, CollectionGoesOn
  PROVE  BindingInvariant'
<1> USE DEF BindingInvariant, CollectionGoesOn, Asking, GoTo, Unasked, Unavailable,
            installed, runtime, inputs, commands
<1>1. TypeOK' /\ Placed'
  <2>1. todo' \subseteq Input \/ todo' \subseteq Formula
    OBVIOUS
  <2>2. CASE stage = "download"
    BY <2>1, <2>2 DEF TypeOK, SourceTypeOK, Stages, Placed, Beginning, Collecting
  <2>3. CASE stage = "assess"
    BY <2>1, <2>3 DEF TypeOK, SourceTypeOK, Stages, Placed, Beginning, Collecting
  <2>4. CASE stage = "freeze"
    BY <2>1, <2>4 DEF TypeOK, SourceTypeOK, Rounds, Stages, Placed, Beginning, Collecting
  <2> QED BY <2>2, <2>3, <2>4
<1>2. Fresh' /\ CopyWasThere' /\ HeadWasThere' /\ RecordIsOfCopy' /\ CheckDecides'
  BY DEF TypeOK, SourceTypeOK, Placed, Beginning, Collecting, Fresh, CopyWasThere,
         HeadWasThere, RecordIsOfCopy, CheckDecides, OfRelease
<1>3. CommandIsChecked' /\ CommandRunsWhatWasInspected'
  BY DEF TypeOK, CommandIsChecked, CommandRunsWhatWasInspected, Clean
<1>4. InputsAreBound' /\ PoursWhatWasAssessed'
  BY DEF Placed, Collecting, InputsAreBound, PoursWhatWasAssessed, MatchesMetadata
<1> QED BY <1>1, <1>2, <1>3, <1>4

\* A compared input is as frozen and no longer counts as rewritten.
LEMMA ReadInputHolds ==
  ASSUME BindingInvariant, NEW x \in Input, ReadInput(x)
  PROVE  BindingInvariant'
<1> USE DEF BindingInvariant, ReadInput, Asking, GoTo, Unasked, Unavailable, installed,
            runtime, inputs, commands
<1>1. TypeOK' /\ Placed'
  BY DEF TypeOK, SourceTypeOK, Rounds, Stages, Placed, Beginning, Collecting
<1>2. Fresh' /\ CopyWasThere' /\ HeadWasThere' /\ RecordIsOfCopy' /\ CheckDecides'
  BY DEF TypeOK, SourceTypeOK, Placed, Beginning, Collecting, Fresh, CopyWasThere,
         HeadWasThere, RecordIsOfCopy, CheckDecides, OfRelease
<1>3. CommandIsChecked' /\ CommandRunsWhatWasInspected'
  BY DEF TypeOK, CommandIsChecked, CommandRunsWhatWasInspected, Clean
<1>4. InputsAreBound' /\ PoursWhatWasAssessed'
  BY DEF Placed, Collecting, InputsAreBound, PoursWhatWasAssessed, MatchesMetadata
<1> QED BY <1>1, <1>2, <1>3, <1>4

\* All inputs were compared.
LEMMA InputsReadHolds ==
  ASSUME BindingInvariant, InputsRead
  PROVE  BindingInvariant'
<1> USE DEF BindingInvariant, InputsRead, Asking, GoTo, Unasked, Unavailable, installed,
            runtime, inputs, commands
<1>1. TypeOK' /\ Placed'
  BY DEF TypeOK, SourceTypeOK, Rounds, Stages, Placed, Beginning, Collecting
<1>2. Fresh' /\ CopyWasThere' /\ HeadWasThere' /\ RecordIsOfCopy'
  BY DEF TypeOK, SourceTypeOK, Placed, Beginning, Fresh, CopyWasThere, HeadWasThere,
         RecordIsOfCopy, OfRelease
<1>3. CheckDecides'
  BY DEF TypeOK, Rounds, Placed, CheckDecides, OfRelease
<1>4. CommandIsChecked' /\ CommandRunsWhatWasInspected'
  BY DEF TypeOK, CommandIsChecked, CommandRunsWhatWasInspected, Clean
<1>5. InputsAreBound' /\ PoursWhatWasAssessed'
  BY DEF Placed, Collecting, InputsAreBound, PoursWhatWasAssessed, MatchesMetadata
<1> QED BY <1>1, <1>2, <1>3, <1>4, <1>5

\* The observation matches the snapshot with the candidates.
LEMMA ObserveHolds ==
  ASSUME BindingInvariant, Observe
  PROVE  BindingInvariant'
<1> USE DEF BindingInvariant, Observe, Asking, GoTo, Unasked, Unavailable, installed,
            runtime, inputs, commands
<1>1. TypeOK' /\ Placed'
  <2>1. todo' \subseteq Input
    OBVIOUS
  <2>2. CASE round = "prepare"
    BY <2>1, <2>2 DEF TypeOK, SourceTypeOK, Rounds, Stages, Placed, Beginning, Collecting
  <2>3. CASE round = "execute"
    BY <2>1, <2>3 DEF TypeOK, SourceTypeOK, Rounds, Stages, Placed, Beginning, Collecting
  <2>4. CASE round = "run"
    BY <2>1, <2>4 DEF TypeOK, SourceTypeOK, Rounds, Stages, Placed, Beginning, Collecting
  <2> QED BY <2>2, <2>3, <2>4
<1>2. Fresh' /\ CopyWasThere' /\ HeadWasThere' /\ RecordIsOfCopy' /\ CheckDecides'
  BY DEF TypeOK, SourceTypeOK, Placed, Beginning, Collecting, Fresh, CopyWasThere,
         HeadWasThere, RecordIsOfCopy, CheckDecides, OfRelease
<1>3. CommandIsChecked' /\ CommandRunsWhatWasInspected'
  BY DEF TypeOK, CommandIsChecked, CommandRunsWhatWasInspected, Clean
<1>4. InputsAreBound' /\ PoursWhatWasAssessed'
  BY DEF Placed, Collecting, InputsAreBound, PoursWhatWasAssessed, MatchesMetadata
<1> QED BY <1>1, <1>2, <1>3, <1>4

\* The release is settled before its files are compared.
LEMMA CheckReleaseHolds ==
  ASSUME BindingInvariant, CheckRelease
  PROVE  BindingInvariant'
<1> USE DEF BindingInvariant, CheckRelease, Asking, GoTo, Unasked, Unavailable, installed,
            runtime, inputs, commands
<1>1. TypeOK' /\ Placed'
  BY DEF TypeOK, SourceTypeOK, Rounds, Stages, Placed, Beginning, Collecting
<1>2. Fresh' /\ CopyWasThere' /\ HeadWasThere' /\ RecordIsOfCopy'
  BY DEF TypeOK, SourceTypeOK, Placed, Beginning, Fresh, CopyWasThere, HeadWasThere,
         RecordIsOfCopy, OfRelease
<1>3. CheckDecides'
  <2>1. revision # Legacy => restored \/ OfRelease(revision)
    BY DEF CheckDecides
  <2>2. OfRelease(revision)' <=> OfRelease(revision)
    BY DEF OfRelease
  <2>3. \A f \in Tracked \ todo' : copy[f] = Absent
    BY SourceIsTyped
  <2> QED BY <2>1, <2>2, <2>3 DEF CheckDecides
<1>4. CommandIsChecked' /\ CommandRunsWhatWasInspected'
  <2>1. revision # Legacy => git.revision = revision /\ revision # None
    BY DEF Placed, Beginning
  <2> QED BY <2>1 DEF CommandIsChecked, CommandRunsWhatWasInspected, Clean
<1>5. InputsAreBound' /\ PoursWhatWasAssessed'
  BY DEF Placed, Collecting, InputsAreBound, PoursWhatWasAssessed, MatchesMetadata
<1> QED BY <1>1, <1>2, <1>3, <1>4, <1>5

\* A compared file is there now, so it was not replaced.
LEMMA CompareFileHolds ==
  ASSUME BindingInvariant, NEW f \in File, CompareFile(f)
  PROVE  BindingInvariant'
<1> USE DEF BindingInvariant, CompareFile, Asking, GoTo, Unasked, Unavailable, installed,
            runtime, inputs, commands
<1>1. TypeOK' /\ Placed'
  BY DEF TypeOK, SourceTypeOK, Rounds, Stages, Placed, Beginning, Collecting
<1>2. Fresh' /\ CopyWasThere' /\ HeadWasThere' /\ RecordIsOfCopy'
  BY DEF TypeOK, SourceTypeOK, Placed, Beginning, Fresh, CopyWasThere, HeadWasThere,
         RecordIsOfCopy, OfRelease
<1>3. CheckDecides'
  <2>1. revision # Legacy /\ OfRelease(revision) /\ ~restored /\ f \in Tracked =>
          copy[f] \in {Absent, Tree[revision][f]}
    BY DEF OfRelease, Fresh
  <2> QED BY <2>1 DEF CheckDecides, OfRelease
<1>4. CommandIsChecked' /\ CommandRunsWhatWasInspected'
  BY DEF TypeOK, CommandIsChecked, CommandRunsWhatWasInspected, Clean
<1>5. InputsAreBound' /\ PoursWhatWasAssessed'
  BY DEF Placed, Collecting, InputsAreBound, PoursWhatWasAssessed, MatchesMetadata
<1> QED BY <1>1, <1>2, <1>3, <1>4, <1>5

\* All files were compared.
LEMMA RuntimeCheckedHolds ==
  ASSUME BindingInvariant, RuntimeChecked
  PROVE  BindingInvariant'
<1> USE DEF BindingInvariant, RuntimeChecked, Asking, GoTo, Unasked, Unavailable, installed,
            runtime, inputs, commands
<1>1. TypeOK' /\ Placed'
  BY DEF TypeOK, SourceTypeOK, Rounds, Stages, Placed, Beginning, Collecting
<1>2. Fresh' /\ CopyWasThere' /\ HeadWasThere' /\ RecordIsOfCopy' /\ CheckDecides'
  BY DEF TypeOK, SourceTypeOK, Placed, Beginning, Collecting, Fresh, CopyWasThere,
         HeadWasThere, RecordIsOfCopy, CheckDecides, OfRelease
<1>3. CommandIsChecked' /\ CommandRunsWhatWasInspected'
  BY DEF TypeOK, CommandIsChecked, CommandRunsWhatWasInspected, Clean
<1>4. InputsAreBound' /\ PoursWhatWasAssessed'
  BY DEF Placed, Collecting, InputsAreBound, PoursWhatWasAssessed, MatchesMetadata
<1> QED BY <1>1, <1>2, <1>3, <1>4

\* A command is selected: nothing has moved since.
LEMMA SelectCommandHolds ==
  ASSUME BindingInvariant, NEW f \in Formula, SelectCommand(f)
  PROVE  BindingInvariant'
<1> USE DEF BindingInvariant, SelectCommand, Asking, GoTo, Unasked, Unavailable, installed,
            runtime, inputs, commands
<1>1. TypeOK' /\ Placed'
  <2>1. todo' \subseteq File
    OBVIOUS
  <2> QED BY <2>1 DEF TypeOK, SourceTypeOK, Stages, Placed, Beginning, Collecting
<1>2. Fresh' /\ CopyWasThere' /\ HeadWasThere' /\ RecordIsOfCopy' /\ CheckDecides'
  BY DEF TypeOK, SourceTypeOK, Placed, Beginning, Collecting, Fresh, CopyWasThere,
         HeadWasThere, RecordIsOfCopy, CheckDecides, OfRelease
<1>3. CommandIsChecked' /\ CommandRunsWhatWasInspected'
  BY DEF TypeOK, CommandIsChecked, CommandRunsWhatWasInspected, Clean
<1>4. InputsAreBound' /\ PoursWhatWasAssessed'
  BY DEF Placed, Collecting, InputsAreBound, PoursWhatWasAssessed, MatchesMetadata
<1> QED BY <1>1, <1>2, <1>3, <1>4

\* A bottle the snapshot names is the candidate's.
LEMMA RunCommandHolds ==
  ASSUME BindingInvariant, RunCommand
  PROVE  BindingInvariant'
<1> USE DEF BindingInvariant, RunCommand, Asking, GoTo, Unasked, Unavailable, installed,
            runtime, inputs, commands
<1>1. TypeOK' /\ Placed'
  <2>1. current \in Formula
    BY DEF Placed
  <2>2. poured' \in [Formula -> Stored]
    BY <2>1 DEF TypeOK, Input
  <2> QED BY <2>2 DEF TypeOK, SourceTypeOK, Stages, Placed, Beginning, Collecting
<1>2. Fresh' /\ CopyWasThere' /\ HeadWasThere' /\ RecordIsOfCopy' /\ CheckDecides'
  BY DEF TypeOK, SourceTypeOK, Placed, Beginning, Collecting, Fresh, CopyWasThere,
         HeadWasThere, RecordIsOfCopy, CheckDecides, OfRelease
<1>3. CommandIsChecked' /\ CommandRunsWhatWasInspected'
  BY DEF TypeOK, CommandIsChecked, CommandRunsWhatWasInspected, Clean
<1>4. InputsAreBound' /\ PoursWhatWasAssessed'
  BY DEF Placed, Collecting, InputsAreBound, PoursWhatWasAssessed, MatchesMetadata
<1> QED BY <1>1, <1>2, <1>3, <1>4

\* Ending claims nothing new.
LEMMA EndsHolds ==
  ASSUME BindingInvariant, Ends
  PROVE  BindingInvariant'
<1> USE DEF BindingInvariant, Ends, Asking, GoTo, Unasked, Unavailable, installed, runtime,
            inputs, commands
<1>1. TypeOK' /\ Placed'
  BY DEF TypeOK, SourceTypeOK, Rounds, Stages, Placed, Beginning, Collecting
<1>2. Fresh' /\ CopyWasThere' /\ HeadWasThere' /\ RecordIsOfCopy' /\ CheckDecides'
  BY DEF TypeOK, SourceTypeOK, Placed, Beginning, Collecting, Fresh, CopyWasThere,
         HeadWasThere, RecordIsOfCopy, CheckDecides, OfRelease
<1>3. CommandIsChecked' /\ CommandRunsWhatWasInspected'
  BY DEF TypeOK, CommandIsChecked, CommandRunsWhatWasInspected, Clean
<1>4. InputsAreBound' /\ PoursWhatWasAssessed'
  BY DEF Placed, Collecting, InputsAreBound, PoursWhatWasAssessed, MatchesMetadata
<1> QED BY <1>1, <1>2, <1>3, <1>4

\* A file that changes or a HEAD that moves leaves what was there among the past, and
\* what is checked is unchecked again.
LEMMA SourceChangesHolds ==
  ASSUME BindingInvariant, SourceChanges, UNCHANGED <<published, wrapper>>
  PROVE  BindingInvariant'
<1> USE DEF BindingInvariant, Count, wrapper, runtime, inputs, commands
<1>1. /\ \A f \in File : past[f] \cup {source[f]} \subseteq past'[f] \cup {source'[f]}
      /\ \A f \in File : past[f] \subseteq past'[f]
      /\ pastHead \subseteq pastHead'
      /\ head \in {head'} \cup pastHead'
      /\ restored => restored'
      /\ moved' = TRUE
      /\ changes' = changes + 1
  BY DEF SourceChanges, ChangeFile, MoveHead, TypeOK, SourceTypeOK
<1>2. SourceTypeOK'
  <2>1. changes' \in Nat /\ moved' \in BOOLEAN
    BY <1>1 DEF TypeOK, SourceTypeOK
  <2>2. ASSUME NEW f \in File, NEW c \in Content, ChangeFile(f, c) PROVE SourceTypeOK'
    <3>1. restored' \in BOOLEAN
      BY <2>2, Zenon DEF ChangeFile
    <3>2. source' \in [File -> Content] /\ past' \in [File -> SUBSET Content]
      BY <2>2 DEF ChangeFile, TypeOK, SourceTypeOK
    <3> QED BY <2>1, <2>2, <3>1, <3>2 DEF ChangeFile, TypeOK, SourceTypeOK
  <2>3. ASSUME NEW r \in Commit \cup {NoCheckout}, MoveHead(r) PROVE SourceTypeOK'
    <3>1. restored' \in BOOLEAN
      BY <2>3, Zenon DEF MoveHead
    <3> QED BY <2>1, <2>3, <3>1 DEF MoveHead, TypeOK, SourceTypeOK
  <2> QED BY <2>2, <2>3 DEF SourceChanges
<1>3. Fresh'
  <2>1. ASSUME NEW f \in File, NEW c \in Content, ChangeFile(f, c) PROVE Fresh'
    BY <2>1 DEF ChangeFile, Fresh, TypeOK, SourceTypeOK
  <2>2. ASSUME NEW r, MoveHead(r) PROVE Fresh'
    BY <2>2 DEF MoveHead, Fresh, TypeOK, SourceTypeOK
  <2> QED BY <2>1, <2>2 DEF SourceChanges
<1>4. TypeOK' /\ Placed'
  BY <1>2 DEF TypeOK, Placed
<1>5. CopyWasThere' /\ HeadWasThere'
  BY <1>1 DEF CopyWasThere, HeadWasThere
<1>6. RecordIsOfCopy'
  BY <1>1, SourceIsTyped DEF RecordIsOfCopy, OfRelease
<1>7. CheckDecides'
  BY <1>1, SourceIsTyped DEF CheckDecides, OfRelease
<1>8. CommandIsChecked' /\ CommandRunsWhatWasInspected'
  BY <1>1 DEF CommandIsChecked, CommandRunsWhatWasInspected
<1>9. InputsAreBound' /\ PoursWhatWasAssessed'
  BY DEF InputsAreBound, PoursWhatWasAssessed, MatchesMetadata
<1> QED BY <1>3, <1>4, <1>5, <1>6, <1>7, <1>8, <1>9

\* Upstream is only read when metadata is acquired.
LEMMA PublishHolds ==
  ASSUME BindingInvariant, NEW s \in Snapshot, Publish(s)
  PROVE  BindingInvariant'
<1> USE DEF BindingInvariant, Publish, Count, installed, wrapper, runtime, inputs, commands
<1>1. TypeOK' /\ Placed' /\ Fresh' /\ CopyWasThere' /\ HeadWasThere'
  BY DEF TypeOK, SourceTypeOK, Placed, Fresh, CopyWasThere, HeadWasThere
<1>2. RecordIsOfCopy' /\ CheckDecides'
  BY DEF RecordIsOfCopy, CheckDecides, OfRelease
<1>3. CommandIsChecked' /\ CommandRunsWhatWasInspected'
  BY DEF CommandIsChecked, CommandRunsWhatWasInspected, Clean
<1>4. InputsAreBound' /\ PoursWhatWasAssessed'
  BY DEF InputsAreBound, PoursWhatWasAssessed, MatchesMetadata
<1> QED BY <1>1, <1>2, <1>3, <1>4

\* What is written counts as rewritten.
LEMMA StrayWriteHolds ==
  ASSUME BindingInvariant, NEW x \in Input, NEW c \in MayHold(x), StrayWrite(x, c)
  PROVE  BindingInvariant'
<1> USE DEF BindingInvariant, StrayWrite, Count, installed, runtime, commands
<1>1. c \in Stored /\ (x = Packages => c \in Snapshot)
  BY DEF MayHold, Stored
<1>2. TypeOK' /\ Placed'
  BY <1>1 DEF TypeOK, SourceTypeOK, Placed, Input
<1>3. Fresh' /\ CopyWasThere' /\ HeadWasThere' /\ RecordIsOfCopy' /\ CheckDecides'
  BY DEF Fresh, CopyWasThere, HeadWasThere, RecordIsOfCopy, CheckDecides, OfRelease
<1>4. CommandIsChecked' /\ CommandRunsWhatWasInspected'
  BY DEF CommandIsChecked, CommandRunsWhatWasInspected, Clean
<1>5. /\ \A y \in Input \ {x} : disk'[y] = disk[y]
      /\ rewritten \subseteq rewritten' /\ x \in rewritten'
  BY DEF TypeOK
<1>6. InputsAreBound'
  <2>1. MatchesMetadata => MatchesMetadata' \/ Packages \in rewritten'
    BY <1>5 DEF MatchesMetadata, Input
  <2>2. ASSUME NEW y \in Input, disk[y] = frozen[y] \/ y \in rewritten
        PROVE  disk'[y] = frozen'[y] \/ y \in rewritten'
    BY <1>5, <2>2
  <2> QED BY <1>5, <2>1, <2>2 DEF InputsAreBound
<1>7. PoursWhatWasAssessed'
  BY <1>5 DEF PoursWhatWasAssessed
<1> QED BY <1>2, <1>3, <1>4, <1>6, <1>7

LEMMA StepHolds == BindingInvariant /\ [Next]_vars => BindingInvariant'
<1> SUFFICES ASSUME BindingInvariant, [Next]_vars PROVE BindingInvariant'
  OBVIOUS
<1>1. CASE Runtime
  BY <1>1, ReadHeadHolds, ReadStatusHolds, GitFailsHolds, SelectReleaseHolds,
     CopyFileHolds, CopyDoneHolds, ConfirmHolds, IdentifyHolds DEF Runtime
<1>2. CASE Collect
  BY <1>2, AcquireMetadataHolds, InspectDependenciesHolds, FetchBottlesHolds,
     CopyDownloadHolds, AssessCandidateHolds, FreezeInputHolds, CollectionGoesOnHolds
     DEF Collect
<1>3. CASE Bind
  BY <1>3, ReadInputHolds, InputsReadHolds, ObserveHolds, CheckReleaseHolds,
     CompareFileHolds, RuntimeCheckedHolds DEF Bind
<1>4. CASE Execute
  BY <1>4, SelectCommandHolds, RunCommandHolds DEF Execute
<1>5. CASE Environment
  BY <1>5, SourceChangesHolds, PublishHolds, StrayWriteHolds DEF Environment
<1>6. CASE UNCHANGED vars
  <2> USE <1>6 DEF BindingInvariant, vars, installed, wrapper, runtime, inputs, commands
  <2>1. TypeOK' /\ Placed' /\ Fresh' /\ CopyWasThere' /\ HeadWasThere'
    BY DEF TypeOK, SourceTypeOK, Placed, Fresh, CopyWasThere, HeadWasThere
  <2>2. RecordIsOfCopy' /\ CheckDecides'
    BY DEF RecordIsOfCopy, CheckDecides, OfRelease
  <2>3. CommandIsChecked' /\ CommandRunsWhatWasInspected'
    BY DEF CommandIsChecked, CommandRunsWhatWasInspected, Clean
  <2>4. InputsAreBound' /\ PoursWhatWasAssessed'
    BY DEF InputsAreBound, PoursWhatWasAssessed, MatchesMetadata
  <2> QED BY <2>1, <2>2, <2>3, <2>4
<1> QED BY <1>1, <1>2, <1>3, <1>4, <1>5, <1>6, EndsHolds DEF Next, Settled

\* The invariant holds of every behaviour.
THEOREM BindingInvariantAlways == Spec => []BindingInvariant
BY InitHolds, StepHolds, PTL DEF Spec

\* Unless HEAD or a file was put back, no update that races the copy and the checks puts
\* a file of another release into a plan's copy.
THEOREM CopyIsOfReleaseAlways == Spec => []CopyIsOfRelease
<1>1. BindingInvariant => CopyIsOfRelease
  BY DEF BindingInvariant, CheckDecides, CopyIsOfRelease
<1> QED BY <1>1, BindingInvariantAlways, PTL

\* The source that runs a command is the inspected one and that of the release.
THEOREM CommandRunsWhatWasInspectedAlways == Spec => []CommandRunsWhatWasInspected
<1>1. BindingInvariant => CommandRunsWhatWasInspected
  BY DEF BindingInvariant
<1> QED BY <1>1, BindingInvariantAlways, PTL

\* Only assessed bottles are poured, unless the snapshot is replaced at the last moment.
THEOREM PoursWhatWasAssessedAlways == Spec => []PoursWhatWasAssessed
<1>1. BindingInvariant => PoursWhatWasAssessed
  BY DEF BindingInvariant
<1> QED BY <1>1, BindingInvariantAlways, PTL

\* Commands see the inputs that were frozen, but for those written at the last moment.
THEOREM ExecutesFrozenAlways == Spec => []ExecutesFrozen
<1>1. BindingInvariant => ExecutesFrozen
  BY DEF BindingInvariant, InputsAreBound, ExecutesFrozen
<1> QED BY <1>1, BindingInvariantAlways, PTL

=============================================================================
