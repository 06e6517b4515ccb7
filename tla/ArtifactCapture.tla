---------------------------- MODULE ArtifactCapture ----------------------------
(***************************************************************************)
(* The declared outputs of one provider turn (botpipe/artifacts.py, called   *)
(* by operations.py): the turn writes files that anybody may change later;   *)
(* capture reads each once, records what it read (the intent), publishes     *)
(* each content as an immutable blob and then the manifest, and only then    *)
(* the operation completes.  Each write is durable when it returns; the      *)
(* process may die between any two, and a resume continues from what is      *)
(* there.                                                                    *)
(*                                                                         *)
(* files are the mutable sources; response, approved (the operator's digests), *)
(* intent, blobs, manifest and result are durable; pc, data (contents read   *)
(* by this process), due (the outputs still to be read or published) and     *)
(* fresh (this process saw the turn end) are the process's.  orphaned says   *)
(* that a process died after the response and before the intent.             *)
(***************************************************************************)
EXTENDS Naturals, Sequences, Functions

CONSTANTS
    Writes,                 \* the declared outputs, in order
    Required,               \* those declared required
    Content, Invalid,       \* file contents; those that fail the declared kind
    Absent, None,
    MaxCrash, MaxChange     \* bounds: crashes, changes made by others

VARIABLES files, response, approved, intent, blobs, manifest, result,
          pc, data, due, fresh, orphaned, crashes, changes

durable == <<response, approved, intent, blobs, manifest, result>>
process == <<pc, data, due, fresh>>
env     == <<files, orphaned, crashes, changes>>
vars    == <<durable, process, env>>

Name   == Range(Writes)
Files  == [Name -> {Absent} \cup Content]
Empty  == [n \in Name |-> Absent]
Named(c) == {n \in Name : c[n] # Absent}

(* A recorded set of outputs has every required one, and only valid contents. *)
Outputs == {c \in [Name -> {Absent} \cup (Content \ Invalid)] : Required \subseteq Named(c)}
Intent  == [by : {"provider", "operator"}, contents : Outputs]

ASSUME CaptureAssumption ==
    /\ Writes \in Seq(Name) /\ Required \subseteq Name /\ Invalid \subseteq Content
    /\ Absent \notin Content /\ None \notin Files /\ None \notin Intent
    /\ MaxCrash \in Nat /\ MaxChange \in Nat

Init ==
    /\ files \in Files
    /\ response = FALSE /\ approved = None /\ intent = None /\ blobs = {}
    /\ manifest = None /\ result = None
    /\ pc = "turn" /\ data = Empty /\ due = <<>> /\ fresh = TRUE
    /\ orphaned = FALSE /\ crashes = 0 /\ changes = 0

(* The turn writes its outputs, and its response is recorded.                *)
Produce(n, c) ==
    /\ pc = "turn" /\ files' = [files EXCEPT ![n] = c]
    /\ UNCHANGED <<durable, process, orphaned, crashes, changes>>

Respond ==
    /\ pc = "turn" /\ response' = TRUE /\ pc' = "capture"
    /\ UNCHANGED <<approved, intent, blobs, manifest, result, data, due, fresh, env>>

(* Anybody else changes, replaces or removes a file.                         *)
Change(n, c) ==
    /\ pc # "turn" /\ changes < MaxChange /\ files[n] # c
    /\ files' = [files EXCEPT ![n] = c] /\ changes' = changes + 1
    /\ UNCHANGED <<durable, process, orphaned, crashes>>

--------------------------------------------------------------------------------
(* capture: an earlier manifest, an earlier intent, or an inventory.         *)
Stop(l) == pc' = l /\ data' = Empty /\ due' = <<>> /\ fresh' = FALSE

Captured == manifest # None

Reuse ==
    /\ pc = "capture" /\ Captured
    /\ pc' = "finish" /\ UNCHANGED <<durable, data, due, fresh, env>>

(* An inventory that differs from the operator's approval ends the capture.   *)
Approves == approved = None \/ (intent.by = "operator" /\ intent.contents = approved)

Continue ==
    /\ pc = "capture" /\ ~Captured /\ intent # None
    /\ IF Approves
       THEN pc' = "publish" /\ due' = Writes /\ UNCHANGED <<data, fresh>>
       ELSE Stop("blocked")
    /\ UNCHANGED <<durable, env>>

(* Faulty: a replayed response may be paired with whatever is there now.     *)
MayInventoryAlways == TRUE
MayInventory == fresh \/ approved # None

Inventory ==
    /\ pc = "capture" /\ ~Captured /\ intent = None
    /\ IF MayInventory
       THEN pc' = "read" /\ due' = Writes /\ data' = Empty /\ UNCHANGED fresh
       ELSE Stop("blocked")
    /\ UNCHANGED <<durable, env>>

(* One source at a time; an operator's approval names its content.           *)
Acceptable(n) == approved = None \/ approved[n] = files[n]
Wrong(n) == \/ files[n] = Absent /\ n \in Required
            \/ files[n] \in Invalid

ReadSource ==
    /\ pc = "read" /\ due # <<>>
    /\ LET n == Head(due) IN
       CASE ~Acceptable(n) -> Stop("blocked")
         [] Acceptable(n) /\ Wrong(n) -> Stop("failed")
         [] OTHER -> /\ data' = [data EXCEPT ![n] = files[n]] /\ due' = Tail(due)
                     /\ UNCHANGED <<pc, fresh>>
    /\ UNCHANGED <<durable, env>>

WriteIntent ==
    /\ pc = "read" /\ due = <<>>
    /\ intent' = [by |-> IF approved = None THEN "provider" ELSE "operator",
                  contents |-> data]
    /\ pc' = "publish" /\ due' = Writes
    /\ UNCHANGED <<response, approved, blobs, manifest, result, data, fresh, env>>

--------------------------------------------------------------------------------
(* Publish each content of the intent; a missing blob comes from memory, or  *)
(* from the source if that is still what the intent names.  A blob is found  *)
(* by its content; that files of other names have blobs of their own only     *)
(* makes more of them missing, and each of those is a content of its own here. *)
(* Faulty: the source is read again without comparing it.                    *)
RecoverableAlways(n) == files[n] # Absent
Recoverable(n) == files[n] = intent.contents[n]

Wanted(n)   == intent.contents[n]
Snapshot(c) == blobs' = blobs \cup {c}
Publish ==
    /\ pc = "publish" /\ due # <<>>
    /\ LET n == Head(due)
           c == IF data[n] # Absent THEN data[n] ELSE files[n]
       IN  CASE Wanted(n) \in blobs \cup {Absent} ->
                  due' = Tail(due) /\ UNCHANGED <<blobs, pc, data, fresh>>
             [] Wanted(n) \notin blobs \cup {Absent}
                /\ (data[n] # Absent \/ Recoverable(n)) ->
                  Snapshot(c) /\ due' = Tail(due)
                  /\ UNCHANGED <<pc, data, fresh>>
             [] OTHER -> Stop("blocked") /\ UNCHANGED blobs
    /\ UNCHANGED <<response, approved, intent, manifest, result, env>>

Published == due = <<>>

WriteManifest ==
    /\ pc = "publish" /\ Published
    /\ manifest' = intent.contents /\ pc' = "finish"
    /\ UNCHANGED <<response, approved, intent, blobs, result, data, due, fresh, env>>

Finish ==
    /\ pc = "finish" /\ result' = manifest /\ Stop("completed")
    /\ UNCHANGED <<response, approved, intent, blobs, manifest, env>>

--------------------------------------------------------------------------------
Crash ==
    /\ pc \notin {"turn", "blocked", "completed", "failed"} /\ crashes < MaxCrash
    /\ crashes' = crashes + 1
    /\ orphaned' = (orphaned \/ intent = None)
    /\ Stop("blocked")
    /\ UNCHANGED <<durable, files, changes>>

Resume ==
    /\ pc = "blocked" /\ pc' = "capture"
    /\ UNCHANGED <<durable, data, due, fresh, env>>

(* The operator accepts: the workspace as it is becomes the approved set,    *)
(* once, and only while no capture has begun.                                *)
(* Faulty: an intent that exists is no reason to refuse.                     *)
ApprovableAnyway == approved = None
Approvable == approved = None /\ intent = None /\ manifest = None

Accept ==
    /\ pc = "blocked" /\ Approvable
    /\ \A n \in Required : files[n] # Absent
    /\ approved' = files /\ pc' = "capture"
    /\ UNCHANGED <<response, intent, blobs, manifest, result, data, due, fresh, env>>

Next ==
    \/ Respond \/ Reuse \/ Continue \/ Inventory \/ ReadSource \/ WriteIntent
    \/ Publish \/ WriteManifest \/ Finish \/ Crash \/ Resume \/ Accept
    \/ \E n \in Name, c \in Content \cup {Absent} : Produce(n, c) \/ Change(n, c)

Spec == Init /\ [][Next]_vars

--------------------------------------------------------------------------------
(* Every variable stays in its set.                                          *)
TypeOK ==
    /\ files \in Files
    /\ response \in BOOLEAN /\ fresh \in BOOLEAN /\ orphaned \in BOOLEAN
    /\ approved \in {None} \cup Files
    /\ intent \in {None} \cup Intent
    /\ manifest \in {None} \cup Outputs /\ result \in {None} \cup Outputs
    /\ blobs \subseteq Content /\ data \in Files
    /\ pc \in {"turn", "capture", "read", "publish", "finish", "blocked", "failed",
              "completed"}
    /\ crashes \in 0 .. MaxCrash /\ changes \in 0 .. MaxChange

(* The manifest names every required output and no invalid content; none of  *)
(* its blobs is missing; and an operation that completed returns what its     *)
(* manifest names, whatever became of the files meanwhile.                   *)
ManifestIsBacked ==
    /\ manifest # None => /\ manifest \in Outputs
                          /\ \A n \in Name : manifest[n] \in blobs \cup {Absent}
    /\ result # None => result = manifest

(* After a crash between the response and the intent nobody knows whether    *)
(* the files are still what the turn wrote: they are never taken for its     *)
(* outputs without the operator.                                             *)
NothingAdoptedAfterCrash ==
    intent # None /\ intent.by = "provider" => ~orphaned

(* An operator's approval is never recorded beside an inventory it differs   *)
(* from, in which case no resume could finish the operation.                 *)
ApprovalIsUsable ==
    approved # None /\ intent # None =>
        intent.by = "operator" /\ intent.contents = approved
================================================================================
