------------------------ MODULE ArtifactCapture_proofs ------------------------
(***************************************************************************)
(* What ArtifactCapture guarantees for any outputs, contents, crashes and   *)
(* changes: its types, and the three properties that its run checks.        *)
(***************************************************************************)
EXTENDS ArtifactCapture, TLAPS

(* What a capture may take for the content of an output.                     *)
Taken(n) ==
    /\ data[n] = Absent => n \notin Required
    /\ data[n] \notin Invalid
    /\ approved # None => data[n] = approved[n]
Backed(c, n) == c[n] \in blobs \cup {Absent}
Passed(n)    == n \in Name \ Range(due)

FreshSawTheTurn == fresh => ~orphaned
NothingRead == pc \in {"turn", "capture", "blocked"} => data = Empty
Reading ==
    pc = "read" => /\ intent = None /\ manifest = None
                   /\ fresh \/ approved # None
                   /\ due \in Seq(Name) /\ \A n \in Name : Passed(n) => Taken(n)
Publishing ==
    pc = "publish" => /\ intent # None /\ manifest = None
                      /\ due \in Seq(Name)
                      /\ \A n \in Name : Passed(n) => Backed(intent.contents, n)
                      /\ \A n \in Name : data[n] # Absent => data[n] = intent.contents[n]
Finishing == pc = "finish" => manifest # None

(* The inductive invariant.  What was read so far could be recorded, and what *)
(* was passed while publishing is a blob: so the intent holds acceptable     *)
(* outputs and the manifest has all of their blobs.  A process that may read *)
(* without the operator's approval is the one that saw the turn end.         *)
IInv ==
    /\ TypeOK /\ ManifestIsBacked /\ NothingAdoptedAfterCrash /\ ApprovalIsUsable
    /\ FreshSawTheTurn /\ NothingRead /\ Reading /\ Publishing /\ Finishing

(* A sequence holds its head and what its tail holds.                        *)
LEMMA HeadAndTail ==
    ASSUME NEW S, NEW s \in Seq(S), s # <<>>
    PROVE  /\ Head(s) \in S /\ Tail(s) \in Seq(S)
           /\ Range(s) \subseteq {Head(s)} \cup Range(Tail(s))
  <1>1. Head(s) \in S /\ Tail(s) \in Seq(S)
    OBVIOUS
  <1>2. ASSUME NEW i \in DOMAIN s
        PROVE  s[i] \in {Head(s)} \cup Range(Tail(s))
    <2>1. CASE i = 1
      BY <2>1
    <2>2. CASE i # 1
      <3>1. i - 1 \in DOMAIN Tail(s) /\ Tail(s)[i - 1] = s[i]
        BY <2>2
      <3> QED BY <3>1 DEF Range
    <2> QED BY <2>1, <2>2
  <1> QED BY <1>1, <1>2 DEF Range

LEMMA EmptyRange == Range(<<>>) = {}
  BY DEF Range

LEMMA EmptyType == Empty \in Files /\ \A n \in Name : Empty[n] = Absent
  BY DEF Empty, Files

LEMMA AllDue == \A n \in Name : n \in Range(Writes)
  BY DEF Name

LEMMA InitHolds == Init => IInv
  <1> SUFFICES ASSUME Init PROVE IInv
    OBVIOUS
  <1>1. TypeOK
    <2>1. crashes \in 0 .. MaxCrash /\ changes \in 0 .. MaxChange
      BY CaptureAssumption DEF Init
    <2>2. response \in BOOLEAN /\ fresh \in BOOLEAN /\ orphaned \in BOOLEAN
      BY Zenon DEF Init
    <2> QED
      BY <2>1, <2>2, EmptyType DEF Init, TypeOK
  <1>2. pc = "turn" /\ manifest = None /\ result = None /\ intent = None /\ data = Empty
        /\ ~orphaned
    BY DEF Init
  <1> QED
    BY <1>1, <1>2 DEF IInv, ManifestIsBacked, NothingAdoptedAfterCrash, ApprovalIsUsable,
       FreshSawTheTurn, NothingRead, Reading, Publishing, Finishing

USE DEF durable, process, env

(* The files may change in any way: nothing in the invariant depends on them. *)
LEMMA FilesAreFree ==
    ASSUME IInv, NEW n \in Name, NEW c \in Content \cup {Absent}, Produce(n, c) \/ Change(n, c)
    PROVE  IInv'
  <1>1. files' \in Files
    BY DEF IInv, TypeOK, Files, Produce, Change
  <1>2. changes' \in 0 .. MaxChange
    BY CaptureAssumption DEF IInv, TypeOK, Produce, Change
  <1> QED
    BY <1>1, <1>2 DEF IInv, TypeOK, ManifestIsBacked, NothingAdoptedAfterCrash,
       ApprovalIsUsable, FreshSawTheTurn, NothingRead, Reading, Publishing, Finishing, Produce,
       Change, Taken, Backed, Passed

(* A process that stops leaves nothing behind in its memory.                 *)
LEMMA StopHolds ==
    ASSUME IInv, NEW l \in {"blocked", "failed"}, Stop(l), UNCHANGED durable, UNCHANGED env
    PROVE  IInv'
  BY EmptyType DEF IInv, TypeOK, ManifestIsBacked, NothingAdoptedAfterCrash, ApprovalIsUsable,
     FreshSawTheTurn, NothingRead, Reading, Publishing, Finishing, Stop

LEMMA StartHolds ==
    ASSUME IInv, Respond \/ Reuse \/ Continue \/ Inventory
    PROVE  IInv'
  <1> USE DEF TypeOK, ManifestIsBacked, NothingAdoptedAfterCrash, ApprovalIsUsable,
          FreshSawTheTurn, NothingRead, Reading, Publishing, Finishing
  <1>1. CASE Respond
    BY <1>1 DEF IInv, Respond
  <1>2. CASE Reuse
    BY <1>2 DEF IInv, Reuse, Captured
  <1>3. CASE Continue
    <2>1. CASE Approves
      BY <1>3, <2>1, CaptureAssumption, EmptyType, AllDue DEF IInv, Continue, Captured, Passed
    <2>2. CASE ~Approves
      BY <1>3, <2>2, StopHolds DEF Continue
    <2> QED BY <2>1, <2>2
  <1>4. CASE Inventory
    <2>1. CASE MayInventory
      BY <1>4, <2>1, CaptureAssumption, EmptyType, AllDue
      DEF IInv, Inventory, Captured, Passed, MayInventory
    <2>2. CASE ~MayInventory
      BY <1>4, <2>2, StopHolds DEF Inventory
    <2> QED BY <2>1, <2>2
  <1> QED BY <1>1, <1>2, <1>3, <1>4

(* One more output has been read, and could be recorded.                     *)
LEMMA ReadHolds ==
    ASSUME IInv, ReadSource
    PROVE  IInv'
  <1> DEFINE n == Head(due)
  <1>1. pc = "read" /\ due \in Seq(Name) /\ due # <<>>
    BY DEF IInv, Reading, ReadSource
  <1>2. n \in Name /\ Tail(due) \in Seq(Name) /\ Range(due) \subseteq {n} \cup Range(Tail(due))
    BY <1>1, HeadAndTail
  <1>3. CASE ~Acceptable(n)
    BY <1>3, StopHolds DEF ReadSource
  <1>4. CASE Acceptable(n) /\ Wrong(n)
    BY <1>4, StopHolds DEF ReadSource
  <1>5. CASE Acceptable(n) /\ ~Wrong(n)
    <2>1. /\ data' = [data EXCEPT ![n] = files[n]] /\ due' = Tail(due)
          /\ UNCHANGED <<pc, fresh, durable, env>>
      BY <1>5 DEF ReadSource
    <2>2. data' \in Files
      BY <2>1, <1>2 DEF IInv, TypeOK, Files
    <2>3. ASSUME NEW k \in Name, Passed(k)'
          PROVE  Taken(k)'
      <3>1. CASE k = n
        <4>1. data'[k] = files[k]
          BY <3>1, <2>1 DEF IInv, TypeOK, Files
        <4> QED BY <4>1, <3>1, <1>5, <2>1 DEF Taken, Acceptable, Wrong
      <3>2. CASE k # n
        <4>1. data'[k] = data[k]
          BY <3>2, <2>1 DEF IInv, TypeOK, Files
        <4>2. Passed(k)
          BY <3>2, <2>3, <2>1, <1>2 DEF Passed
        <4> QED BY <4>1, <4>2, <1>1, <2>1 DEF IInv, Reading, Taken
      <3> QED BY <3>1, <3>2
    <2> QED
      BY <1>1, <1>2, <2>1, <2>2, <2>3 DEF IInv, TypeOK, ManifestIsBacked,
         NothingAdoptedAfterCrash, ApprovalIsUsable, FreshSawTheTurn, NothingRead, Reading, Publishing,
         Finishing
  <1> QED BY <1>3, <1>4, <1>5

(* When all is read, it is acceptable, and it is what the operator approved.  *)
LEMMA IntentHolds ==
    ASSUME IInv, WriteIntent
    PROVE  IInv'
  <1>1. /\ pc = "read" /\ manifest = None /\ (fresh \/ approved # None)
        /\ \A n \in Name : Taken(n)
    BY EmptyRange DEF IInv, Reading, WriteIntent, Passed
  <1>2. data \in Outputs
    <2>1. data \in Files /\ \A n \in Name : data[n] \notin Invalid
      BY <1>1 DEF IInv, TypeOK, Taken
    <2>2. data \in [Name -> {Absent} \cup (Content \ Invalid)]
      BY <2>1 DEF Files
    <2>3. Required \subseteq Named(data)
      BY <1>1, CaptureAssumption DEF Taken, Named
    <2> QED BY <2>2, <2>3 DEF Outputs
  <1>3. approved # None => data = approved
    BY <1>1 DEF Taken, IInv, TypeOK, Files
  <1>4. /\ intent' \in Intent /\ intent'.contents = data
        /\ intent'.by = IF approved = None THEN "provider" ELSE "operator"
    BY <1>2 DEF WriteIntent, Intent
  <1>5. intent' # None
    BY <1>4, CaptureAssumption
  <1> QED
    BY <1>1, <1>3, <1>4, <1>5, CaptureAssumption, AllDue
    DEF IInv, TypeOK, ManifestIsBacked, NothingAdoptedAfterCrash, ApprovalIsUsable,
        FreshSawTheTurn, NothingRead, Reading, Publishing, Finishing, WriteIntent, Passed

(* One more content is a blob, the one that the intent names.                *)
LEMMA PublishHolds ==
    ASSUME IInv, Publish
    PROVE  IInv'
  <1> DEFINE n == Head(due)
             c == IF data[n] # Absent THEN data[n] ELSE files[n]
  <1>1. pc = "publish" /\ due \in Seq(Name) /\ due # <<>> /\ intent \in Intent
    BY DEF IInv, TypeOK, Publishing, Publish
  <1>2. n \in Name /\ Tail(due) \in Seq(Name) /\ Range(due) \subseteq {n} \cup Range(Tail(due))
    BY <1>1, HeadAndTail
  <1>3. Wanted(n) \in Content \cup {Absent}
    BY <1>1, <1>2 DEF Wanted, Intent, Outputs
  <1>4. ASSUME due' = Tail(due), blobs \subseteq blobs', blobs' \subseteq Content,
               Wanted(n) \in blobs' \cup {Absent},
               UNCHANGED <<pc, data, fresh, response, approved, intent, manifest, result, env>>
        PROVE  IInv'
    <2>1. ASSUME NEW k \in Name, Passed(k)'
          PROVE  Backed(intent.contents, k)'
      <3>1. CASE k = n
        BY <3>1, <1>4 DEF Backed, Wanted
      <3>2. CASE k # n
        <4>1. Passed(k)
          BY <3>2, <2>1, <1>4, <1>2 DEF Passed
        <4> QED BY <4>1, <1>1, <1>4 DEF IInv, Publishing, Backed
      <3> QED BY <3>1, <3>2
    <2> QED
      BY <1>1, <1>2, <1>4, <2>1 DEF IInv, TypeOK, ManifestIsBacked,
         NothingAdoptedAfterCrash, ApprovalIsUsable, FreshSawTheTurn, NothingRead, Reading, Publishing,
         Finishing
  <1>5. CASE Wanted(n) \in blobs \cup {Absent}
    BY <1>4, <1>5 DEF Publish, IInv, TypeOK
  <1>6. CASE Wanted(n) \notin blobs \cup {Absent} /\ (data[n] # Absent \/ Recoverable(n))
    <2>1. c = Wanted(n)
      BY <1>1, <1>2, <1>6 DEF IInv, Publishing, Wanted, Recoverable
    <2>2. blobs' = blobs \cup {c} /\ due' = Tail(due)
          /\ UNCHANGED <<pc, data, fresh, response, approved, intent, manifest, result, env>>
      BY <1>6 DEF Publish, Snapshot
    <2>3. blobs \subseteq blobs' /\ blobs' \subseteq Content
      BY <1>3, <1>6, <2>1, <2>2 DEF IInv, TypeOK
    <2> QED BY <1>4, <2>1, <2>2, <2>3
  <1>7. CASE ~(Wanted(n) \in blobs \cup {Absent})
             /\ ~(data[n] # Absent \/ Recoverable(n))
    BY <1>7, StopHolds DEF Publish
  <1> QED BY <1>5, <1>6, <1>7

LEMMA EndHolds ==
    ASSUME IInv, WriteManifest \/ Finish
    PROVE  IInv'
  <1>1. CASE WriteManifest
    <2>1. /\ pc = "publish" /\ manifest = None /\ intent \in Intent
          /\ \A n \in Name : Backed(intent.contents, n)
      BY <1>1, EmptyRange DEF IInv, TypeOK, Publishing, WriteManifest, Published, Passed
    <2>2. intent.contents \in Outputs /\ intent.contents # None
      BY <2>1, CaptureAssumption DEF Intent, Outputs, Files
    <2> QED
      BY <1>1, <2>1, <2>2 DEF IInv, TypeOK, ManifestIsBacked, NothingAdoptedAfterCrash, Backed,
         ApprovalIsUsable, FreshSawTheTurn, NothingRead, Reading, Publishing, Finishing, WriteManifest
  <1>2. CASE Finish
    BY <1>2, EmptyType DEF IInv, TypeOK, ManifestIsBacked, NothingAdoptedAfterCrash,
       ApprovalIsUsable, FreshSawTheTurn, NothingRead, Reading, Publishing, Finishing, Finish, Stop
  <1> QED BY <1>1, <1>2

(* A crash before the intent makes the files unknown, and nobody fresh is    *)
(* left; the operator's approval comes before any intent.                    *)
LEMMA BetweenHolds ==
    ASSUME IInv, Crash \/ Resume \/ Accept
    PROVE  IInv'
  <1> USE DEF TypeOK, ManifestIsBacked, NothingAdoptedAfterCrash, ApprovalIsUsable,
          FreshSawTheTurn, NothingRead, Reading, Publishing, Finishing
  <1>1. CASE Crash
    <2>1. crashes' \in 0 .. MaxCrash /\ data' \in Files /\ files' \in Files
      BY <1>1, EmptyType, CaptureAssumption DEF IInv, Crash, Stop
    <2>2. orphaned' \in BOOLEAN /\ (orphaned' <=> (orphaned \/ intent = None))
      BY <1>1 DEF Crash
    <2> QED
      BY <1>1, <2>1, <2>2 DEF IInv, Crash, Stop
  <1>2. CASE Resume
    BY <1>2 DEF IInv, Resume
  <1>3. CASE Accept
    BY <1>3 DEF IInv, Accept, Approvable
  <1> QED BY <1>1, <1>2, <1>3
LEMMA StepHolds ==
    ASSUME IInv, [Next]_vars
    PROVE  IInv'
  <1>1. CASE \E n \in Name, c \in Content \cup {Absent} : Produce(n, c) \/ Change(n, c)
    BY <1>1, FilesAreFree
  <1>2. CASE Respond \/ Reuse \/ Continue \/ Inventory
    BY <1>2, StartHolds
  <1>3. CASE ReadSource
    BY <1>3, ReadHolds
  <1>4. CASE WriteIntent
    BY <1>4, IntentHolds
  <1>5. CASE Publish
    BY <1>5, PublishHolds
  <1>6. CASE WriteManifest \/ Finish
    BY <1>6, EndHolds
  <1>7. CASE Crash \/ Resume \/ Accept
    BY <1>7, BetweenHolds
  <1>8. CASE UNCHANGED vars
    BY <1>8 DEF vars, IInv, TypeOK, ManifestIsBacked, NothingAdoptedAfterCrash,
       ApprovalIsUsable, FreshSawTheTurn, NothingRead, Reading, Publishing, Finishing, Taken, Backed,
       Passed
  <1> QED BY <1>1, <1>2, <1>3, <1>4, <1>5, <1>6, <1>7, <1>8 DEF Next

(* The inductive invariant holds throughout.                                 *)
THEOREM CaptureInvariant == Spec => []IInv
  <1>1. Init => IInv
    BY InitHolds
  <1>2. IInv /\ [Next]_vars => IInv'
    BY StepHolds
  <1> QED BY <1>1, <1>2, PTL DEF Spec

(* Every variable stays in its set; in particular every intent, manifest and *)
(* result has all the required outputs and no invalid content.               *)
THEOREM CaptureTypes == Spec => []TypeOK
  <1>1. IInv => TypeOK
    BY DEF IInv
  <1> QED BY <1>1, CaptureInvariant, PTL

(* Whoever changes the files and wherever the process dies, a manifest names *)
(* only blobs that exist, and a completed operation returns what it names.   *)
THEOREM ManifestsAreBacked == Spec => []ManifestIsBacked
  <1>1. IInv => ManifestIsBacked
    BY DEF IInv
  <1> QED BY <1>1, CaptureInvariant, PTL

(* Files that nobody can vouch for after a crash are not taken for the       *)
(* outputs of the turn unless the operator says so.                          *)
THEOREM NothingIsAdopted == Spec => []NothingAdoptedAfterCrash
  <1>1. IInv => NothingAdoptedAfterCrash
    BY DEF IInv
  <1> QED BY <1>1, CaptureInvariant, PTL

(* No approval is recorded beside an inventory that it differs from.         *)
THEOREM ApprovalsAreUsable == Spec => []ApprovalIsUsable
  <1>1. IInv => ApprovalIsUsable
    BY DEF IInv
  <1> QED BY <1>1, CaptureInvariant, PTL
===============================================================================
