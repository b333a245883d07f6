------------------------------ MODULE Pipeline -----------------------------
(***************************************************************************)
(* The pipeline that has language models extend the repository             *)
(* (adk/agents/orchestrator.py): Architect, CodeGen with a go test loop,   *)
(* Reviewer with a loop back to CodeGen, Tester and DocWriter, each agent  *)
(* retried, and a commit and push of the whole workspace at the end.       *)
(*                                                                         *)
(* Of the workspace only the files CodeGen writes are kept, each in a Go   *)
(* package of its own, and of a file only whether its package passes go    *)
(* test.  Runs follow one another in the same workspace and branch.        *)
(***************************************************************************)
EXTENDS Integers, FiniteSets, Functions

CONSTANTS
    Files,      \* paths CodeGen may write
    MaxRetries, \* PipelineConfig.max_retries
    MaxRuns     \* bound: runs of a behaviour

ASSUME RetriesPositive == MaxRetries \in Nat \ {0}
ASSUME RunsBound == MaxRuns \in Nat

\* Whether a file's package passes go test; an absent file does no harm.
Versions == {"good", "bad"}
Tests == {"none", "passed", "failed", "unexecuted"}

VARIABLES
    stage,      \* where the run is; "idle" between runs
    tries,      \* attempt of _run_with_retry
    attempt,    \* codegen_attempt, of whichever loop is running
    iteration,  \* review_iteration
    results,    \* length of the state's list of results
    disk,       \* disk[f]: the version of f in the workspace
    index,      \* index[f]: the version git has staged or committed
    written,    \* written_files: those of the latest CodeGen output
    allWritten, \* all_written_files
    spoiled,    \* history: files git failed on in the run's latest clean-up
    gate,       \* history: what ended the first test loop
    tested,     \* history: go test before the Tester agent
    message,    \* the message _finalize was called with
    before,     \* history: the workspace when the run began
    runs        \* number of runs begun

loopVars == <<tries, attempt, iteration>>
fileVars == <<disk, index, written, allWritten, spoiled>>
endVars == <<message, before, runs>>
vars == <<stage, tries, attempt, iteration, results, disk, index, written,
          allWritten, spoiled, gate, tested, message, before, runs>>

Stages == {"idle", "architect", "codegen", "test", "reviewer", "recode",
           "retest", "gotest", "tester", "docwriter", "finalize", "commit"}

\* The agent a stage runs through _run_with_retry.
AgentStages == {"architect", "codegen", "reviewer", "recode", "tester", "docwriter"}

\* The most results one run can add: every loop to its end.
MaxResults == MaxRetries * (3 + 2 * MaxRetries + MaxRetries * MaxRetries)

TypeOK ==
    /\ stage \in Stages
    /\ tries \in 0..(MaxRetries - 1)
    /\ attempt \in 0..(MaxRetries - 1)
    /\ iteration \in 0..(MaxRetries - 1)
    /\ results \in 0..(MaxResults + 1)
    /\ disk \in [Files -> Versions] /\ index \in [Files -> Versions]
    /\ written \subseteq Files /\ allWritten \subseteq Files
    /\ spoiled \subseteq allWritten
    /\ gate \in Tests /\ tested \in Tests
    /\ message \in {"none", "success", "failed", "error"}
    /\ before \in [Files -> Versions]
    /\ runs \in 0..MaxRuns

Init ==
    /\ stage = "idle"
    /\ tries = 0 /\ attempt = 0 /\ iteration = 0 /\ results = 0
    /\ disk = [f \in Files |-> "good"] /\ index = disk /\ before = disk
    /\ written = {} /\ allWritten = {} /\ spoiled = {}
    /\ gate = "none" /\ tested = "none"
    /\ message = "none" /\ runs = 0

-----------------------------------------------------------------------------
(* Agents.                                                                  *)

\* run: a fresh PipelineState; the branch is set up, or the present one stays.
Start ==
    /\ stage = "idle"
    /\ runs < MaxRuns
    /\ stage' = "architect"
    /\ tries' = 0 /\ attempt' = 0 /\ iteration' = 0 /\ results' = 0
    /\ written' = {} /\ allWritten' = {} /\ spoiled' = {}
    /\ gate' = "none" /\ tested' = "none"
    /\ message' = "none"
    /\ before' = disk
    /\ runs' = runs + 1
    /\ UNCHANGED <<disk, index>>

Finalize(how) ==
    /\ stage' = "finalize"
    /\ message' = how
    /\ UNCHANGED <<before, runs>>

\* add_result.  (The count stops above its limit, to stay bounded.)
AddResult == results' = IF results > MaxResults THEN results ELSE results + 1

\* Mutant: one attempt too many.
RetryOnceMore ==
    /\ stage \in AgentStages
    /\ tries < MaxRetries
    /\ tries' = tries + 1
    /\ AddResult
    /\ UNCHANGED <<stage, attempt, iteration, fileVars, gate, tested, endVars>>

\* execute_agent fails and is tried again after the backoff.
Retry ==
    /\ stage \in AgentStages
    /\ tries + 1 < MaxRetries
    /\ tries' = tries + 1
    /\ AddResult
    /\ UNCHANGED <<stage, attempt, iteration, fileVars, gate, tested, endVars>>

\* The agent of stage s returns: completed, or failed for the last time.
Completes(s) ==
    stage = s /\ AddResult /\ tries' = 0

Fails(s) ==
    stage = s /\ tries + 1 = MaxRetries /\ AddResult /\ tries' = 0

\* An agent without which the run cannot go on has failed.
GiveUp ==
    /\ \E s \in {"architect", "codegen", "reviewer", "tester"} : Fails(s)
    /\ Finalize("failed")
    /\ UNCHANGED <<attempt, iteration, fileVars, gate, tested>>

\* An exception: the spec or the answer's files cannot be written (all of them).
Raise ==
    /\ \E s \in {"architect", "codegen", "recode", "docwriter"} : Completes(s)
    /\ IF stage \in {"codegen", "recode"}
       THEN \E S \in SUBSET Files : \E out \in [S -> Versions] :
               disk' = [f \in Files |-> IF f \in S THEN out[f] ELSE disk[f]]
       ELSE UNCHANGED disk
    /\ Finalize("error")
    /\ UNCHANGED <<attempt, iteration, index, written, allWritten, spoiled, gate, tested>>

Architect ==
    /\ Completes("architect")
    /\ stage' = "codegen"
    /\ UNCHANGED <<attempt, iteration, fileVars, gate, tested, endVars>>

\* parse_and_write_files of an answer that has the files of S.
Write(S) ==
    /\ written' = S
    /\ \E out \in [S -> Versions] :
          disk' = [f \in Files |-> IF f \in S THEN out[f] ELSE disk[f]]

CodeGen(S) ==
    /\ Completes("codegen")
    /\ Write(S)
    /\ allWritten' = allWritten \cup S
    /\ stage' = "test"
    /\ UNCHANGED <<attempt, iteration, index, spoiled, gate, tested, endVars>>

-----------------------------------------------------------------------------
(* The loop around CodeGen and go test.                                     *)

Passes(F) == \A f \in F : disk[f] = "good"

\* The packages of the files just written, or all when there are none.
TestScope == IF written = {} THEN Files ELSE written

\* go test passes, or cannot be run: the loop is left either way.
LeaveTestLoop(how) ==
    /\ stage = "test"
    /\ how = "passed" => Passes(TestScope)
    /\ gate' = how
    /\ stage' = "reviewer"
    /\ attempt' = 0
    /\ UNCHANGED <<tries, iteration, results, fileVars, tested, endVars>>

\* Mutant: nothing is cleaned up between the attempts.
CleanedNothing(kept, gone) == disk

\* Files of earlier attempts are reverted if git has them, else deleted.  What git
\* returns is not looked at: a checkout that fails keeps the file as it is, an
\* ls-files that fails has it deleted.
Cleaned(kept, gone) ==
    [f \in Files |-> CASE f \in gone -> "good"
                       [] f \in allWritten \ (kept \cup gone) -> index[f]
                       [] OTHER -> disk[f]]

TestAgain ==
    /\ stage = "test"
    /\ ~Passes(TestScope)
    /\ attempt + 1 < MaxRetries
    /\ attempt' = attempt + 1
    /\ \E kept, gone \in SUBSET allWritten :
          /\ kept \cap gone = {}
          /\ disk' = Cleaned(kept, gone)
          /\ spoiled' = kept \cup gone
    /\ gate' = "failed"
    /\ stage' = "codegen"
    /\ UNCHANGED <<tries, iteration, results, index, written, allWritten, tested,
                   endVars>>

\* Mutant: the loop has no else branch, and a run goes on when it is exhausted.
TestExhaustedGoesOn ==
    /\ stage = "test"
    /\ ~Passes(TestScope)
    /\ attempt + 1 = MaxRetries
    /\ gate' = "failed"
    /\ stage' = "reviewer"
    /\ attempt' = 0
    /\ UNCHANGED <<tries, iteration, results, fileVars, tested, endVars>>

TestExhausted ==
    /\ stage = "test"
    /\ ~Passes(TestScope)
    /\ attempt + 1 = MaxRetries
    /\ gate' = "failed"
    /\ Finalize("failed")
    /\ UNCHANGED <<loopVars, results, fileVars, tested>>

-----------------------------------------------------------------------------
(* The Reviewer and the loop back to CodeGen.                               *)

Approve ==
    /\ Completes("reviewer")
    /\ stage' = "gotest"
    /\ UNCHANGED <<attempt, iteration, fileVars, gate, tested, endVars>>

Reject ==
    /\ Completes("reviewer")
    /\ stage' = "recode"
    /\ attempt' = 0
    /\ UNCHANGED <<iteration, fileVars, gate, tested, endVars>>

\* CodeGen again; one that failed has an empty answer and writes nothing.
\* What it writes is not added to all_written_files.
Recode(S) ==
    /\ Completes("recode") \/ (Fails("recode") /\ S = {})
    /\ Write(S)
    /\ stage' = "retest"
    /\ UNCHANGED <<attempt, iteration, index, allWritten, spoiled, gate, tested,
                   endVars>>

\* Mutant: every rejection starts the review loop afresh.
NextReviewAfresh == stage' = "reviewer" /\ iteration' = 0

\* `continue`: the next review, or the Tester once the reviews are used up.
NextReview ==
    IF iteration + 1 < MaxRetries
    THEN stage' = "reviewer" /\ iteration' = iteration + 1
    ELSE stage' = "gotest" /\ UNCHANGED iteration

\* Tests of the whole repository fail, with attempts left.
RetestAgain ==
    /\ stage = "retest"
    /\ ~Passes(Files)
    /\ attempt + 1 < MaxRetries
    /\ attempt' = attempt + 1
    /\ stage' = "recode"
    /\ UNCHANGED <<tries, iteration, results, fileVars, gate, tested, endVars>>

\* They pass, cannot be run, or fail for the last time.
LeaveRetestLoop(how) ==
    /\ stage = "retest"
    /\ \/ how = "passed" /\ Passes(Files)
       \/ how = "failed" /\ ~Passes(Files) /\ attempt + 1 = MaxRetries
       \/ how = "unexecuted"
    /\ NextReview
    /\ attempt' = 0
    /\ UNCHANGED <<tries, results, fileVars, gate, tested, endVars>>

-----------------------------------------------------------------------------
(* Tester, DocWriter and the end.                                           *)

\* go test once more, for the Tester's context only.
GoTest(how) ==
    /\ stage = "gotest"
    /\ \/ how = "passed" /\ Passes(Files)
       \/ how = "failed" /\ ~Passes(Files)
       \/ how = "unexecuted"
    /\ tested' = how
    /\ stage' = "tester"
    /\ UNCHANGED <<loopVars, results, fileVars, gate, endVars>>

Tester ==
    /\ Completes("tester")
    /\ stage' = "docwriter"
    /\ UNCHANGED <<attempt, iteration, fileVars, gate, tested, endVars>>

\* DocWriter writes documents, which no test sees, or fails: neither matters.
DocWriter ==
    /\ Completes("docwriter") \/ Fails("docwriter")
    /\ Finalize("success")
    /\ UNCHANGED <<attempt, iteration, fileVars, gate, tested>>

\* _finalize saves the state, or raises out of run; only a success goes on.
Save ==
    /\ stage = "finalize"
    /\ stage' \in IF message = "success" THEN {"commit", "idle"} ELSE {"idle"}
    /\ UNCHANGED <<loopVars, results, fileVars, gate, tested, endVars>>

\* git add, commit and push: the first fails, or the whole workspace is staged
\* (and the rest, whether it fails or not, leaves the workspace alone).
Commit ==
    /\ stage = "commit"
    /\ index' \in {index, disk}
    /\ stage' = "idle"
    /\ UNCHANGED <<loopVars, results, disk, written, allWritten, spoiled, gate,
                   tested, message, before, runs>>

\* What a run does by itself.
Step ==
    \/ Retry \/ GiveUp \/ Raise
    \/ Architect
    \/ \E S \in SUBSET Files : CodeGen(S) \/ Recode(S)
    \/ \E how \in {"passed", "unexecuted"} : LeaveTestLoop(how)
    \/ TestAgain \/ TestExhausted
    \/ Approve \/ Reject \/ RetestAgain
    \/ \E how \in Tests \ {"none"} : LeaveRetestLoop(how) \/ GoTest(how)
    \/ Tester \/ DocWriter \/ Save \/ Commit

Next == Start \/ Step

\* Agent calls and go test end: both have timeouts (300 s and 60 s).
Spec == Init /\ [][Next]_vars
FairSpec == Spec /\ WF_vars(Step)

-----------------------------------------------------------------------------
(* Properties.                                                              *)

\* No run calls agents more often than its nested loops and retries allow
\* (orchestrator.py:270, 370, 386 and 483).
WorkBounded == results <= MaxResults

\* When CodeGen's output is tested, files it did not write just now are as git
\* or the start of the run has them: "stale/broken code from prior retries
\* doesn't pollute go test" (orchestrator.py:271-272).  The exceptions are the
\* files git failed on in the latest clean-up (orchestrator.py:276-287).
CleanSlate ==
    stage = "test" =>
        \A f \in Files \ (written \cup spoiled) : disk[f] \in {index[f], before[f]}

\* A run that reaches its commit did not leave the first test loop with tests
\* that failed: they passed, or go could not be run (orchestrator.py:324-361).
CommitPastGate == stage = "commit" => gate \in {"passed", "unexecuted"}

\* Every run ends, whatever agents, tests and reviewers answer.
RunsEnd == stage # "idle" ~> stage = "idle"

\* The pipeline's state diagram: "Tester_Decision --> DocWriter : Tests Pass"
\* (ARCHITECTURE.md:131): DocWriter does not run after tests that failed.
DocWriterAfterPass == stage = "docwriter" => tested # "failed"
=============================================================================
