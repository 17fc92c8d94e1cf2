------------------------------- MODULE MCLab -------------------------------
(***************************************************************************)
(* Instances of the lab for TLC.                                           *)
(***************************************************************************)
EXTENDS LabRefinement, TLC

CONSTANTS m1, m2, m3, f1, f2, l1, l2, p1, p2, baseline, original, torn, none

Mutants2 == {m1, m2}
Mutants3 == {m1, m2, m3}

AllOfThem == {Mutants}
AnyOfThem == SUBSET Mutants
NoneOneOrAll == {{}, {m1}, Mutants}

\* Two mutants in one file, the third in another; two lines, m3 const-evaluated.
MCFileOf == [m \in Mutants |-> IF m = m3 THEN f2 ELSE f1]
MCLineOf == [m \in Mutants |-> IF m = m1 THEN l1 ELSE l2]
OnlyM2 == {m2} \cap Mutants
OnlyM3 == {m3} \cap Mutants

Yes == {TRUE}
No == {FALSE}

\* Option records; a test or build timeout is what lets "Timeout" happen.
Choose(runBaseline, check, equivalent, uncovered, inPlace, timeouts) ==
    [baseline : runBaseline, check_only : check, detect_equivalent : equivalent,
     skip_uncovered : uncovered, in_place : inPlace,
     test_timeout : timeouts, build_timeout : timeouts]

\* A baseline and two copies of the tree, or no baseline and the tree itself.
QueueOptions   == Choose({"Run"}, No, No, No, No, No)
                      \cup Choose({"Skip"}, No, No, No, Yes, No)
InPlaceOptions == Choose({"Run", "Skip"}, BOOLEAN, BOOLEAN, BOOLEAN, Yes, No)
RefineOptions  == Choose({"Run"}, No, Yes, Yes, No, No)
                      \cup Choose({"Skip"}, No, Yes, No, No, Yes)

WorkerOptions  == RefineOptions \cup InPlaceOptions

\* Nothing tells one digest from another.
PrintSymmetry == Permutations(Fingerprints)

PassOrFail == {"Success", "Failure"}
PassFailOrTimeout == {"Success", "Failure", "Timeout"}
AnyExit == Exit

=============================================================================
