-------------------------- MODULE Pipeline_proofs --------------------------
(***************************************************************************)
(* Theorems about the pipeline, for any files, retries and number of runs: *)
(* its work is bounded, its tests see no leftovers of earlier attempts,    *)
(* and nothing is committed past tests that failed.                        *)
(***************************************************************************)
EXTENDS Pipeline, TLAPS

-----------------------------------------------------------------------------
(* Counting results: what attempts and reviews may add.                     *)

Square == MaxRetries * MaxRetries
\* n attempts of CodeGen, and n reviews with the CodeGen loop after each.
Attempts(n) == n * MaxRetries
Reviews(n) == n * (MaxRetries + Square)

\* The results up to the first review, and up to the end of the reviews.
Coded == MaxRetries + Square
Reviewed == Coded + Reviews(MaxRetries)

LEMMA Work ==
    /\ MaxRetries \in Nat /\ MaxRetries > 0 /\ Square \in Nat
    /\ Attempts(0) = 0 /\ Reviews(0) = 0
    /\ \A n \in Nat : /\ Attempts(n) \in Nat
                      /\ Attempts(n + 1) = Attempts(n) + MaxRetries
                      /\ n <= MaxRetries => Attempts(n) <= Square
    /\ \A n \in Nat : /\ Reviews(n) \in Nat
                      /\ Reviews(n + 1) = Reviews(n) + MaxRetries + Square
                      /\ n <= MaxRetries => Reviews(n) <= Reviews(MaxRetries)
    /\ MaxResults = Reviewed + MaxRetries + MaxRetries
<1>1. MaxRetries \in Nat /\ MaxRetries > 0
  BY RetriesPositive
<1>2. Square \in Nat
  BY <1>1 DEF Square
<1>3. Attempts(0) = 0 /\ Reviews(0) = 0
  BY <1>1, <1>2 DEF Attempts, Reviews
<1>4. \A m, n, k \in Nat : /\ m * k \in Nat /\ (m + 1) * k = m * k + k
                           /\ (m + n) * k = m * k + n * k
  OBVIOUS
<1>5. ASSUME NEW k \in Nat, NEW n \in Nat, n <= MaxRetries
      PROVE  n * k <= MaxRetries * k
  <2>1. PICK d \in Nat : MaxRetries = n + d
    <3>1. MaxRetries - n \in Nat /\ MaxRetries = n + (MaxRetries - n)
      BY <1>1, <1>5
    <3> QED
      BY <3>1
  <2>2. (n + d) * k = n * k + d * k /\ d * k \in Nat /\ n * k \in Nat
    BY <1>4
  <2> QED
    BY <2>1, <2>2
<1>6. ASSUME NEW n \in Nat
      PROVE  /\ Attempts(n) \in Nat
             /\ Attempts(n + 1) = Attempts(n) + MaxRetries
             /\ n <= MaxRetries => Attempts(n) <= Square
  BY <1>1, <1>4, <1>5 DEF Attempts, Square
<1>7. ASSUME NEW n \in Nat
      PROVE  /\ Reviews(n) \in Nat
             /\ Reviews(n + 1) = Reviews(n) + MaxRetries + Square
             /\ n <= MaxRetries => Reviews(n) <= Reviews(MaxRetries)
  <2> DEFINE k == MaxRetries + Square
  <2>1. k \in Nat
    BY <1>1, <1>2
  <2>2. Reviews(n) = n * k /\ Reviews(n + 1) = (n + 1) * k /\ Reviews(MaxRetries) = MaxRetries * k
    BY DEF Reviews
  <2> HIDE DEF k
  <2>3. n * k \in Nat /\ (n + 1) * k = n * k + k
    BY <1>4, <2>1
  <2>4. n <= MaxRetries => n * k <= MaxRetries * k
    BY <1>5, <2>1
  <2>5. n * k + k = n * k + MaxRetries + Square
    BY <1>1, <1>2, <2>3 DEF k
  <2> QED
    BY <2>2, <2>3, <2>4, <2>5
<1>8. MaxResults = Reviewed + MaxRetries + MaxRetries
  BY <1>1 DEF MaxResults, Reviewed, Coded, Reviews, Square
<1> QED
  BY <1>1, <1>2, <1>3, <1>6, <1>7, <1>8

\* Every stage has added no more results than the loops before it and its own
\* attempts allow.
WorkFits ==
    /\ stage = "architect" => results <= tries
    /\ stage = "codegen" => results <= MaxRetries + Attempts(attempt) + tries
    /\ stage = "test" => results <= MaxRetries + Attempts(attempt + 1)
    /\ stage = "reviewer" => results <= Coded + Reviews(iteration) + tries
    /\ stage = "recode" =>
          results <= Coded + Reviews(iteration) + MaxRetries + Attempts(attempt) + tries
    /\ stage = "retest" =>
          results <= Coded + Reviews(iteration) + MaxRetries + Attempts(attempt + 1)
    /\ stage = "gotest" => results <= Reviewed
    /\ stage = "tester" => results <= Reviewed + tries
    /\ stage = "docwriter" => results <= Reviewed + MaxRetries + tries
    /\ stage \in {"idle", "finalize", "commit"} => results <= MaxResults

\* Until the first review, what this run has not written is as it found it; and
\* after a cleanup everything git did not fail on is as git or the start of the
\* run has it.
SlateFits ==
    /\ stage \in {"architect", "codegen", "test"} =>
          \A f \in Files \ allWritten : disk[f] = before[f]
    /\ stage \in {"architect", "codegen"} =>
          \A f \in Files \ spoiled : disk[f] \in {index[f], before[f]}

\* Past the first test loop its tests have passed, or could not be run.
GateFits ==
    stage \in {"reviewer", "recode", "retest", "gotest", "tester", "docwriter", "commit"}
    \/ (stage = "finalize" /\ message = "success")
        => gate \in {"passed", "unexecuted"}

IInv ==
    /\ TypeOK
    /\ WorkFits
    /\ SlateFits /\ CleanSlate
    /\ GateFits

-----------------------------------------------------------------------------
(* The bounds of a state.                                                   *)

\* The loops' counters, and what they stand for.
LEMMA Counters ==
    ASSUME TypeOK
    PROVE  /\ MaxRetries \in Nat /\ MaxRetries > 0 /\ Square \in Nat
           /\ Coded \in Nat /\ Reviewed \in Nat /\ MaxResults \in Nat
           /\ MaxResults = Reviewed + MaxRetries + MaxRetries
           /\ Coded = MaxRetries + Square
           /\ Attempts(0) = 0 /\ Reviews(0) = 0
           /\ tries \in Nat /\ tries < MaxRetries
           /\ attempt \in Nat /\ attempt < MaxRetries
           /\ iteration \in Nat /\ iteration < MaxRetries
           /\ results \in Nat
           /\ Attempts(attempt) \in Nat
           /\ Attempts(attempt + 1) = Attempts(attempt) + MaxRetries
           /\ Attempts(attempt + 1) <= Square
           /\ Reviews(iteration) \in Nat
           /\ Reviews(iteration + 1) = Reviews(iteration) + MaxRetries + Square
           /\ Coded + Reviews(iteration + 1) <= Reviewed
<1>1. /\ MaxRetries \in Nat /\ MaxRetries > 0 /\ Square \in Nat
      /\ Attempts(0) = 0 /\ Reviews(0) = 0
      /\ MaxResults = Reviewed + MaxRetries + MaxRetries
  BY Work
<1>2. Coded \in Nat /\ Coded = MaxRetries + Square
  BY <1>1 DEF Coded
<1>3. Reviews(MaxRetries) \in Nat
  BY Work
<1>4. Reviewed \in Nat /\ Reviewed = Coded + Reviews(MaxRetries)
  BY <1>2, <1>3 DEF Reviewed
<1>5. MaxResults \in Nat
  BY <1>1, <1>4
<1>6. /\ tries \in Nat /\ tries < MaxRetries
      /\ attempt \in Nat /\ attempt < MaxRetries
      /\ iteration \in Nat /\ iteration < MaxRetries
      /\ results \in Nat
  BY <1>1, <1>5 DEF TypeOK
<1>7. /\ Attempts(attempt) \in Nat
      /\ Attempts(attempt + 1) = Attempts(attempt) + MaxRetries
      /\ attempt + 1 <= MaxRetries => Attempts(attempt + 1) <= Square
  BY <1>6, Work
<1>8. /\ Reviews(iteration) \in Nat
      /\ Reviews(iteration + 1) = Reviews(iteration) + MaxRetries + Square
      /\ iteration + 1 <= MaxRetries => Reviews(iteration + 1) <= Reviews(MaxRetries)
  BY <1>6, Work
<1>9. attempt + 1 <= MaxRetries /\ iteration + 1 <= MaxRetries
  BY <1>1, <1>6
<1>10. Coded + Reviews(iteration + 1) <= Reviewed
  BY <1>1, <1>2, <1>3, <1>4, <1>8, <1>9
<1> QED
  BY <1>1, <1>2, <1>4, <1>5, <1>6, <1>7, <1>8, <1>9, <1>10

\* No stage is beyond the bound of the run, and an agent's is one result short
\* of it.
LEMMA InsideBound ==
    ASSUME TypeOK, WorkFits
    PROVE  /\ results <= MaxResults
           /\ stage \in AgentStages => results + 1 <= MaxResults
<1> USE Counters
<1>1. stage \in Stages
  BY DEF TypeOK
<1>2. CASE stage \in {"architect", "codegen", "test"}
  BY <1>2 DEF WorkFits, AgentStages
<1>3. CASE stage \in {"reviewer", "recode", "retest"}
  BY <1>3 DEF WorkFits, AgentStages
<1>4. CASE stage \in {"gotest", "tester", "docwriter", "idle", "finalize", "commit"}
  BY <1>4 DEF WorkFits, AgentStages
<1> QED
  BY <1>1, <1>2, <1>3, <1>4 DEF Stages

LEMMA InitFits == Init => IInv
<1> SUFFICES ASSUME Init PROVE IInv
  OBVIOUS
<1>1. /\ MaxRetries \in Nat /\ MaxRetries > 0 /\ MaxResults \in Nat
  <2>1. Reviews(MaxRetries) \in Nat /\ Square \in Nat /\ MaxRetries \in Nat
    BY Work
  <2> QED
    BY <2>1, Work DEF Reviewed, Coded
<1>2. TypeOK
  BY <1>1, RunsBound DEF Init, TypeOK, Stages, Versions, Tests
<1> QED
  BY <1>1, <1>2 DEF Init, IInv, WorkFits, SlateFits, CleanSlate, GateFits

-----------------------------------------------------------------------------
(* Types.                                                                   *)

\* What the next values of the run's counters are.
LEMMA ResultTypes ==
    ASSUME TypeOK
    PROVE  /\ AddResult => results' \in 0..(MaxResults + 1)
           /\ 0 \in 0..(MaxRetries - 1) /\ 0 \in 0..(MaxResults + 1)
           /\ tries + 1 < MaxRetries => tries + 1 \in 0..(MaxRetries - 1)
           /\ attempt + 1 < MaxRetries => attempt + 1 \in 0..(MaxRetries - 1)
           /\ iteration + 1 < MaxRetries => iteration + 1 \in 0..(MaxRetries - 1)
BY Counters DEF AddResult, TypeOK

\* Files as an answer leaves them, and as a cleanup does.
LEMMA DiskTypes ==
    ASSUME TypeOK
    PROVE  /\ \A kept, gone : Cleaned(kept, gone) \in [Files -> Versions]
           /\ \A S \in SUBSET Files : \A out \in [S -> Versions] :
                 [f \in Files |-> IF f \in S THEN out[f] ELSE disk[f]] \in [Files -> Versions]
<1>1. ASSUME NEW kept, NEW gone
      PROVE  Cleaned(kept, gone) \in [Files -> Versions]
  BY DEF TypeOK, Cleaned, Versions
<1>2. \A S \in SUBSET Files : \A out \in [S -> Versions] :
         [f \in Files |-> IF f \in S THEN out[f] ELSE disk[f]] \in [Files -> Versions]
  BY DEF TypeOK
<1> QED
  BY <1>1, <1>2

LEMMA StepKeepsTypes ==
    ASSUME TypeOK, [Next]_vars
    PROVE  TypeOK'
<1> USE ResultTypes
<1>1. CASE Start
  <2>1. runs' \in 0..MaxRuns
    BY <1>1, RunsBound DEF Start, TypeOK
  <2> QED
    BY <1>1, <2>1 DEF Start, TypeOK, Stages, Tests
<1>2. CASE Retry
  BY <1>2 DEF Retry, TypeOK, fileVars, endVars
<1>3. CASE GiveUp
  BY <1>3 DEF GiveUp, Fails, Finalize, TypeOK, Stages, fileVars
<1>4. CASE Raise
  <2>1. disk' \in [Files -> Versions]
    <3>1. disk' = disk \/ \E S \in SUBSET Files : \E out \in [S -> Versions] :
             disk' = [f \in Files |-> IF f \in S THEN out[f] ELSE disk[f]]
      BY <1>4 DEF Raise
    <3> QED
      BY <3>1, DiskTypes DEF TypeOK
  <2> QED
    BY <1>4, <2>1 DEF Raise, Completes, Finalize, TypeOK, Stages
<1>5. CASE Architect \/ Approve \/ Reject \/ Tester
  BY <1>5 DEF Architect, Approve, Reject, Tester, Completes, TypeOK, Stages, fileVars, endVars
<1>6. ASSUME NEW S \in SUBSET Files, CodeGen(S) \/ Recode(S)
      PROVE  TypeOK'
  <2>1. disk' \in [Files -> Versions] /\ written' = S
    <3>1. Write(S)
      BY <1>6 DEF CodeGen, Recode
    <3>2. PICK out \in [S -> Versions] :
             disk' = [f \in Files |-> IF f \in S THEN out[f] ELSE disk[f]]
      BY <3>1 DEF Write
    <3> QED
      BY <3>1, <3>2, DiskTypes DEF Write
  <2>2. tries' = 0 /\ AddResult
    BY <1>6 DEF CodeGen, Recode, Completes, Fails
  <2> QED
    BY <1>6, <2>1, <2>2 DEF CodeGen, Recode, TypeOK, Stages, endVars
<1>7. ASSUME NEW how \in {"passed", "unexecuted"}, LeaveTestLoop(how)
      PROVE  TypeOK'
  BY <1>7 DEF LeaveTestLoop, TypeOK, Stages, Tests, fileVars, endVars
<1>8. CASE TestAgain
  BY <1>8, DiskTypes DEF TestAgain, TypeOK, Stages, Tests, endVars
<1>9. CASE TestExhausted
  BY <1>9 DEF TestExhausted, Finalize, TypeOK, Stages, Tests, loopVars, fileVars
<1>10. CASE RetestAgain
  BY <1>10 DEF RetestAgain, TypeOK, Stages, fileVars, endVars
<1>11. ASSUME NEW how \in Tests \ {"none"}, LeaveRetestLoop(how)
       PROVE  TypeOK'
  BY <1>11 DEF LeaveRetestLoop, NextReview, TypeOK, Stages, fileVars, endVars
<1>12. ASSUME NEW how \in Tests \ {"none"}, GoTest(how)
       PROVE  TypeOK'
  BY <1>12 DEF GoTest, TypeOK, Stages, loopVars, fileVars, endVars
<1>13. CASE DocWriter
  BY <1>13 DEF DocWriter, Completes, Fails, Finalize, TypeOK, Stages, fileVars
<1>14. CASE Save
  BY <1>14 DEF Save, TypeOK, Stages, loopVars, fileVars, endVars
<1>15. CASE Commit
  BY <1>15 DEF Commit, TypeOK, Stages, loopVars
<1>16. CASE UNCHANGED vars
  BY <1>16 DEF vars, TypeOK
<1> QED
  BY <1>1, <1>2, <1>3, <1>4, <1>5, <1>6, <1>7, <1>8, <1>9, <1>10, <1>11, <1>12, <1>13,
     <1>14, <1>15, <1>16 DEF Next, Step

-----------------------------------------------------------------------------
(* The work of a run.                                                       *)

\* Below its bound, add_result adds one.
LEMMA AddsOne ==
    ASSUME TypeOK, WorkFits, AddResult
    PROVE  results' = results + 1
BY InsideBound, Counters DEF AddResult

LEMMA StepKeepsWork ==
    ASSUME TypeOK, WorkFits, [Next]_vars
    PROVE  WorkFits'
<1> USE Counters
<1>1. CASE Start
  BY <1>1 DEF Start, WorkFits
<1>2. CASE Retry
  <2>1. /\ results' = results + 1 /\ tries' = tries + 1 /\ stage' = stage
        /\ attempt' = attempt /\ iteration' = iteration /\ stage \in AgentStages
    BY <1>2, AddsOne DEF Retry
  <2> QED
    BY <2>1 DEF WorkFits, AgentStages
<1>3. CASE GiveUp
  <2>1. /\ results' = results + 1 /\ stage \in AgentStages /\ stage' = "finalize"
    BY <1>3, AddsOne DEF GiveUp, Fails, Finalize, AgentStages
  <2> QED
    BY <2>1, InsideBound DEF WorkFits
<1>4. CASE Raise
  <2>1. /\ results' = results + 1 /\ stage \in AgentStages /\ stage' = "finalize"
    BY <1>4, AddsOne DEF Raise, Completes, Finalize, AgentStages
  <2> QED
    BY <2>1, InsideBound DEF WorkFits
<1>5. CASE Architect
  <2>1. /\ results' = results + 1 /\ stage = "architect" /\ stage' = "codegen"
        /\ tries' = 0 /\ attempt' = attempt
    BY <1>5, AddsOne DEF Architect, Completes
  <2> QED
    BY <2>1 DEF WorkFits
<1>6. CASE Approve
  <2>1. /\ results' = results + 1 /\ stage = "reviewer" /\ stage' = "gotest"
    BY <1>6, AddsOne DEF Approve, Completes
  <2> QED
    BY <2>1 DEF WorkFits
<1>7. CASE Reject
  <2>1. /\ results' = results + 1 /\ stage = "reviewer" /\ stage' = "recode"
        /\ tries' = 0 /\ attempt' = 0 /\ iteration' = iteration
    BY <1>7, AddsOne DEF Reject, Completes
  <2> QED
    BY <2>1 DEF WorkFits
<1>8. CASE Tester
  <2>1. /\ results' = results + 1 /\ stage = "tester" /\ stage' = "docwriter" /\ tries' = 0
    BY <1>8, AddsOne DEF Tester, Completes
  <2> QED
    BY <2>1 DEF WorkFits
<1>9. ASSUME NEW S \in SUBSET Files, CodeGen(S)
      PROVE  WorkFits'
  <2>1. /\ results' = results + 1 /\ stage = "codegen" /\ stage' = "test"
        /\ attempt' = attempt
    BY <1>9, AddsOne DEF CodeGen, Completes
  <2> QED
    BY <2>1 DEF WorkFits
<1>10. ASSUME NEW S \in SUBSET Files, Recode(S)
       PROVE  WorkFits'
  <2>1. /\ results' = results + 1 /\ stage = "recode" /\ stage' = "retest"
        /\ attempt' = attempt /\ iteration' = iteration
    BY <1>10, AddsOne DEF Recode, Completes, Fails
  <2> QED
    BY <2>1 DEF WorkFits
<1>11. ASSUME NEW how \in {"passed", "unexecuted"}, LeaveTestLoop(how)
       PROVE  WorkFits'
  <2>1. /\ results' = results /\ stage = "test" /\ stage' = "reviewer"
        /\ iteration' = iteration /\ tries' = tries
    BY <1>11 DEF LeaveTestLoop
  <2> QED
    BY <2>1 DEF WorkFits
<1>12. CASE TestAgain
  <2>1. /\ results' = results /\ stage = "test" /\ stage' = "codegen"
        /\ attempt' = attempt + 1 /\ tries' = tries
    BY <1>12 DEF TestAgain
  <2> QED
    BY <2>1 DEF WorkFits
<1>13. CASE TestExhausted
  <2>1. results' = results /\ stage' = "finalize"
    BY <1>13 DEF TestExhausted, Finalize
  <2> QED
    BY <2>1, InsideBound DEF WorkFits
<1>14. CASE RetestAgain
  <2>1. /\ results' = results /\ stage = "retest" /\ stage' = "recode"
        /\ attempt' = attempt + 1 /\ iteration' = iteration /\ tries' = tries
    BY <1>14 DEF RetestAgain
  <2> QED
    BY <2>1 DEF WorkFits
<1>15. ASSUME NEW how \in Tests \ {"none"}, LeaveRetestLoop(how)
       PROVE  WorkFits'
  <2>1. /\ results' = results /\ stage = "retest" /\ tries' = tries
        /\ \/ stage' = "reviewer" /\ iteration' = iteration + 1
           \/ stage' = "gotest"
    BY <1>15 DEF LeaveRetestLoop, NextReview
  <2> QED
    BY <2>1 DEF WorkFits
<1>16. ASSUME NEW how \in Tests \ {"none"}, GoTest(how)
       PROVE  WorkFits'
  <2>1. results' = results /\ stage = "gotest" /\ stage' = "tester" /\ tries' = tries
    BY <1>16 DEF GoTest, loopVars
  <2> QED
    BY <2>1 DEF WorkFits
<1>17. CASE DocWriter
  <2>1. results' = results + 1 /\ stage \in AgentStages /\ stage' = "finalize"
    BY <1>17, AddsOne DEF DocWriter, Completes, Fails, Finalize, AgentStages
  <2> QED
    BY <2>1, InsideBound DEF WorkFits
<1>18. CASE Save \/ Commit
  <2>1. results' = results /\ stage' \in {"idle", "commit"}
    BY <1>18 DEF Save, Commit
  <2> QED
    BY <2>1, InsideBound DEF WorkFits
<1>19. CASE UNCHANGED vars
  BY <1>19 DEF vars, WorkFits
<1> QED
  BY <1>1, <1>2, <1>3, <1>4, <1>5, <1>6, <1>7, <1>8, <1>9, <1>10, <1>11, <1>12, <1>13,
     <1>14, <1>15, <1>16, <1>17, <1>18, <1>19 DEF Next, Step

-----------------------------------------------------------------------------
(* The workspace under test.                                                *)

\* Once the first test loop is left, or before it, no more is asked of the files.
BeforeReview == {"architect", "codegen", "test"}

LEMMA StepKeepsSlate ==
    ASSUME TypeOK, SlateFits, CleanSlate, [Next]_vars
    PROVE  SlateFits' /\ CleanSlate'
<1>1. CASE Start
  BY <1>1 DEF Start, SlateFits, CleanSlate
<1>2. CASE Retry
  BY <1>2 DEF Retry, SlateFits, CleanSlate, fileVars, endVars
<1>3. CASE Architect
  BY <1>3 DEF Architect, Completes, SlateFits, CleanSlate, fileVars, endVars
<1>4. ASSUME NEW S \in SUBSET Files, CodeGen(S)
      PROVE  SlateFits' /\ CleanSlate'
  <2>1. PICK out \in [S -> Versions] :
           disk' = [f \in Files |-> IF f \in S THEN out[f] ELSE disk[f]]
    BY <1>4 DEF CodeGen, Write
  <2>2. /\ stage = "codegen" /\ stage' = "test" /\ written' = S
        /\ allWritten' = allWritten \cup S /\ index' = index /\ before' = before
        /\ spoiled' = spoiled
    BY <1>4 DEF CodeGen, Completes, Write, endVars
  <2>3. \A f \in Files \ S : disk'[f] = disk[f]
    BY <2>1
  <2> QED
    BY <2>2, <2>3 DEF SlateFits, CleanSlate
<1>5. CASE TestAgain
  <2>1. /\ stage = "test" /\ stage' = "codegen" /\ index' = index /\ before' = before
        /\ allWritten' = allWritten
    BY <1>5 DEF TestAgain, endVars
  <2>2. PICK kept \in SUBSET allWritten, gone \in SUBSET allWritten :
           disk' = Cleaned(kept, gone) /\ spoiled' = kept \cup gone
    BY <1>5 DEF TestAgain
  <2>3. ASSUME NEW f \in Files \ spoiled'
        PROVE  disk'[f] = IF f \in allWritten THEN index[f] ELSE disk[f]
    BY <2>2 DEF Cleaned
  <2>4. ASSUME NEW f \in Files \ allWritten
        PROVE  disk'[f] = disk[f]
    BY <2>2 DEF Cleaned
  <2> QED
    BY <2>1, <2>3, <2>4 DEF SlateFits, CleanSlate
\* All other steps leave the stages before the first review, or are not in them.
<1>6. CASE UNCHANGED vars
  BY <1>6 DEF vars, SlateFits, CleanSlate
<1>7. CASE stage' \notin BeforeReview
  BY <1>7 DEF BeforeReview, SlateFits, CleanSlate
<1>8. CASE Step /\ stage' \in BeforeReview
  BY <1>2, <1>3, <1>4, <1>5, <1>8
     DEF Step, BeforeReview, GiveUp, Raise, Finalize, Recode, LeaveTestLoop, TestExhausted,
         Approve, Reject, RetestAgain, LeaveRetestLoop, NextReview, GoTest, Tester,
         DocWriter, Save, Commit
<1> QED
  BY <1>1, <1>6, <1>7, <1>8 DEF Next

-----------------------------------------------------------------------------
(* The gate before the commit.                                              *)

LEMMA StepKeepsGate ==
    ASSUME TypeOK, GateFits, [Next]_vars
    PROVE  GateFits'
<1>1. CASE Start
  BY <1>1 DEF Start, GateFits
<1>2. CASE GiveUp \/ Raise \/ TestExhausted
  BY <1>2 DEF GiveUp, Raise, TestExhausted, Finalize, GateFits
<1>3. CASE Architect \/ TestAgain
  BY <1>3 DEF Architect, TestAgain, GateFits
<1>4. ASSUME NEW S \in SUBSET Files, CodeGen(S)
      PROVE  GateFits'
  BY <1>4 DEF CodeGen, GateFits
<1>5. ASSUME NEW how \in {"passed", "unexecuted"}, LeaveTestLoop(how)
      PROVE  GateFits'
  BY <1>5 DEF LeaveTestLoop, GateFits
<1>6. CASE Retry \/ Approve \/ Reject \/ RetestAgain \/ Tester \/ DocWriter
  BY <1>6 DEF Retry, Approve, Reject, RetestAgain, Tester, DocWriter, Completes, Fails,
              Finalize, GateFits, endVars
<1>7. ASSUME NEW S \in SUBSET Files, Recode(S)
      PROVE  GateFits'
  BY <1>7 DEF Recode, Completes, Fails, GateFits
<1>8. ASSUME NEW how \in Tests \ {"none"}, LeaveRetestLoop(how) \/ GoTest(how)
      PROVE  GateFits'
  BY <1>8 DEF LeaveRetestLoop, NextReview, GoTest, GateFits
<1>9. CASE Save \/ Commit
  BY <1>9 DEF Save, Commit, GateFits
<1>10. CASE UNCHANGED vars
  BY <1>10 DEF vars, GateFits
<1> QED
  BY <1>1, <1>2, <1>3, <1>4, <1>5, <1>6, <1>7, <1>8, <1>9, <1>10 DEF Next, Step

-----------------------------------------------------------------------------
(* The theorems.                                                            *)

LEMMA Invariance == Spec => []IInv
<1>1. IInv /\ [Next]_vars => IInv'
  BY StepKeepsTypes, StepKeepsWork, StepKeepsSlate, StepKeepsGate DEF IInv
<1> QED
  BY <1>1, InitFits, PTL DEF Spec

\* The pipeline's state keeps its types.
THEOREM TypeCorrect == Spec => []TypeOK
<1>1. IInv => TypeOK
  BY DEF IInv
<1> QED
  BY <1>1, Invariance, PTL

\* A run calls agents at most as often as its nested loops and their retries
\* allow, for any max_retries (orchestrator.py).
THEOREM WorkIsBounded == Spec => []WorkBounded
<1>1. IInv => WorkBounded
  BY InsideBound DEF IInv, WorkBounded
<1> QED
  BY <1>1, Invariance, PTL

\* When an attempt of CodeGen is tested, no file of an earlier attempt is left in
\* the workspace (orchestrator.py, the cleanup at the head of a retry).
THEOREM SlateIsClean == Spec => []CleanSlate
<1>1. IInv => CleanSlate
  BY DEF IInv
<1> QED
  BY <1>1, Invariance, PTL

\* A run that comes to its commit left the first test loop with tests that
\* passed, or that could not be run.
THEOREM CommitsArePastTheGate == Spec => []CommitPastGate
<1>1. IInv => CommitPastGate
  BY DEF IInv, GateFits, CommitPastGate
<1> QED
  BY <1>1, Invariance, PTL
=============================================================================
