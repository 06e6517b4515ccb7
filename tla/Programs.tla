------------------------------ MODULE Programs ------------------------------
(***************************************************************************)
(* The programs that are built on the engine, and the records that all of   *)
(* them leave: bundled workflows, the optimizer, work lists and labs.  They *)
(* share no state, so one of them runs in each behavior, and what is asked  *)
(* of them is asked of all at once.                                         *)
(***************************************************************************)
VARIABLES prog,          \* the program that runs
          pc, m          \* its control and its state
vars == <<prog, pc, m>>

Trials      == INSTANCE Trial WITH MaxEdit <- 1, MaxCrash <- 1, MaxCall <- 3
Paired      == INSTANCE PairedEvaluation WITH MaxEdit <- 1, MaxRegression <- 0, MinImprovement <- 1
Goals       == INSTANCE Goal WITH MaxRun <- 2, MaxStop <- 1, MaxToken <- 2, Fingerprint <- {"a"},
                                  Older <- {"plan", "audit"}
Rubric      == INSTANCE RubricTrials WITH Pair <- {1, 2}, MaxTime <- 4, MaxRepair <- 1, MaxTurn <- 3,
                                          Orders <- 2, MaxEdit <- 1, MaxCrash <- 1
Improvement == INSTANCE CandidateImprovement WITH MaxRevision <- 1, MaxEdit <- 1, MaxCrash <- 1
Phased      == INSTANCE PhasedWorkflow WITH MaxTurn <- 7
Loop        == INSTANCE DevLoop WITH MaxDepth <- 1, MaxPhase <- 2, MaxTurn <- 12
Store       == INSTANCE Storefront WITH MaxRound <- 2, MaxHuman <- 1
Published   == INSTANCE Publication WITH Publisher <- {"p", "q"}, MaxCall <- 2, MaxFault <- 1
Intake      == INSTANCE EvidenceIntake WITH Declared <- 3, MaxFiles <- 2, MaxFileBytes <- 2,
                                            MaxTotal <- 3, MaxSize <- 3, MaxChange <- 2, MaxCrash <- 1
Author      == INSTANCE WorkflowAuthor WITH MaxRound <- 2, MaxTurn <- 6, MaxEdit <- 1, MaxCrash <- 1
Work        == INSTANCE WorkLoop WITH MaxItem <- 2, MaxRefuse <- 2, MaxEdit <- 1, MaxCrash <- 2
Recreated   == INSTANCE CodeToWorkflow WITH Behavior <- {1, 2}, MaxTurn <- 10, MaxCrash <- 1
Coded       == INSTANCE Codec WITH MaxDepth <- 3, MaxValues <- 9, MaxEdit <- 1
Records     == INSTANCE RunRecords WITH Value <- {1, 2}, MaxOperation <- 2, MaxAttempt <- 1, MaxTurn <- 1

Init ==
    \/ prog = "trial"       /\ Trials!Init
    \/ prog = "paired"      /\ Paired!Init
    \/ prog = "goal"        /\ Goals!Init
    \/ prog = "rubric"      /\ Rubric!Init
    \/ prog = "improvement" /\ Improvement!Init
    \/ prog = "phased"      /\ Phased!Init
    \/ prog = "devloop"     /\ Loop!Init
    \/ prog = "storefront"  /\ Store!Init
    \/ prog = "publication" /\ Published!Init
    \/ prog = "intake"      /\ Intake!Init
    \/ prog = "author"      /\ Author!Init
    \/ prog = "worklist"    /\ Work!Init
    \/ prog = "recreate"    /\ Recreated!Init
    \/ prog = "codec"       /\ Coded!Init
    \/ prog = "records"     /\ Records!Init

Next ==
    /\ UNCHANGED prog
    /\ \/ prog = "trial"       /\ Trials!Next
       \/ prog = "paired"      /\ Paired!Next
       \/ prog = "goal"        /\ Goals!Next
       \/ prog = "rubric"      /\ Rubric!Next
       \/ prog = "improvement" /\ Improvement!Next
       \/ prog = "phased"      /\ Phased!Next
       \/ prog = "devloop"     /\ Loop!Next
       \/ prog = "storefront"  /\ Store!Next
       \/ prog = "publication" /\ Published!Next
       \/ prog = "intake"      /\ Intake!Next
       \/ prog = "author"      /\ Author!Next
       \/ prog = "worklist"    /\ Work!Next
       \/ prog = "recreate"    /\ Recreated!Next
       \/ prog = "codec"       /\ Coded!Next
       \/ prog = "records"     /\ Records!Next

(* What the process of the program does by itself: no human, no editor, no     *)
(* crash.  The journal is called by others, and nothing bounds a devloop, a    *)
(* work loop or the recreation of a codebase: their reviewers may refuse for   *)
(* ever.                                                                      *)
Step ==
    /\ UNCHANGED prog
    /\ \/ prog = "trial"       /\ Trials!Step
       \/ prog = "paired"      /\ Paired!Step
       \/ prog = "goal"        /\ Goals!Step
       \/ prog = "rubric"      /\ Rubric!Step
       \/ prog = "improvement" /\ Improvement!Step
       \/ prog = "phased"      /\ Phased!Step
       \/ prog = "storefront"  /\ Store!Step
       \/ prog = "publication" /\ Published!Step
       \/ prog = "intake"      /\ Intake!Step
       \/ prog = "author"      /\ Author!Step
       \/ prog = "codec"       /\ Coded!Step
Clock == UNCHANGED prog /\ prog = "trial" /\ Trials!Time

Spec == Init /\ [][Next]_vars /\ WF_vars(Step) /\ WF_vars(Clock)

(* What a program accepts, publishes, records or calls better is what was      *)
(* planned, tested, reviewed and compared: files edited, plans repaired and    *)
(* answers judged twice do not get between.  Two things do, and each part      *)
(* says where: what a trial's worker leaves that outlived its caller, and the  *)
(* copy that a goal's run saves when it is resumed behind a newer one.         *)
AcceptedIsWhatWasChecked ==
    /\ prog = "trial"       => Trials!OutcomeIsOfItsCode
    /\ prog = "paired"      => Paired!ComparesWhatWasFrozen /\ Paired!AcceptedIsCurrent
    /\ prog = "goal"        => Goals!CompleteIsEarned
    /\ prog = "rubric"      => Rubric!TrialsSawThePlan /\ Rubric!ImprovementIsEarned
    /\ prog = "improvement" => Improvement!OneCandidateThroughout
    /\ prog = "phased"      => Phased!UpstreamIsCurrent
    /\ prog = "devloop"     => Loop!AuditedIsVerified
    /\ prog = "storefront"  => Store!FinalIsApproved
    /\ prog = "publication" => Published!LoadedIsAccepted
    /\ prog = "author"      => Author!HandedOffIsTested /\ Author!ValidationIsOfLastBuild
    /\ prog = "worklist"    => Work!WorksThePlan
    /\ prog = "recreate"    => Recreated!PublishedIsAccepted

(* What a program has recorded or paid for is neither lost nor done again, and *)
(* its limits hold, when processes die, runs are resumed and calls repeated.   *)
(* The parts say what is kept where something is lost: a trial whose run was   *)
(* created by a worker without a caller has time once more, a publication that *)
(* was acknowledged when found in place may be gone but not in part, an older  *)
(* copy of a goal takes back what a newer run completed and charged.           *)
RecordsAndLimitsHold ==
    /\ [](/\ prog = "trial"       => Trials!TimeStartsOnce
          /\ prog = "goal"        => Goals!TokensAreKept
          /\ prog = "rubric"      => Rubric!BegunIsNotWrittenOff
          /\ prog = "improvement" => Improvement!EvaluatedOnce
          /\ prog = "devloop"     => Loop!FollowupsAreBounded
          /\ prog = "storefront"  => Store!RoundsAreAsked /\ Store!TotalsAgree
          /\ prog = "publication" => Published!ReceiptNamesAll
          /\ prog = "intake"      => Intake!CapturesFit /\ Intake!AnswerIsWhatIsKept
          /\ prog = "worklist"    => /\ Work!CompletionsAreKept /\ Work!PublishedOnce
                                     /\ Work!NeverMismatches
          /\ prog = "records"     => Records!LedgerStaysReadable /\ Records!ReferencesHold)
    /\ [][/\ prog = "trial"   => Trials!KeepsOutcome
          /\ prog = "goal"    => Goals!PaysWithinLimit /\ Goals!CompletedStays
          /\ prog = "author"  => Author!VerifiesCurrent
          /\ prog = "records" => Records!KeepsSettled]_vars

(* What a run has recorded is read back as it was, within the limits of size   *)
(* and depth and after edits of its classes, or not at all (codec.py).        *)
ReplayedAsRecorded == prog = "codec" => Coded!ReadAsRecorded /\ Coded!TableIsItsOwn

(* No program that has a limit runs for ever: it ends, or waits for a human or *)
(* an operator.                                                               *)
Rests ==
    /\ prog = "trial"       => Trials!Rests
    /\ prog = "paired"      => Paired!Rests
    /\ prog = "goal"        => Goals!Rests
    /\ prog = "rubric"      => Rubric!Rests
    /\ prog = "improvement" => Improvement!Rests
    /\ prog = "phased"      => Phased!Rests
    /\ prog = "storefront"  => Store!Rests
    /\ prog = "publication" => Published!Rests
    /\ prog = "intake"      => Intake!Rests
    /\ prog = "author"      => Author!Rests
    /\ prog = "codec"       => Coded!Rests
EveryProgramRests == []<>Rests
===============================================================================
