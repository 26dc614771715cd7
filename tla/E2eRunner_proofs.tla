-------------------------- MODULE E2eRunner_proofs --------------------------
(***************************************************************************)
(* Proofs about E2eRunner, for any exit codes of the commands.             *)
(***************************************************************************)
EXTENDS E2eRunner, TLAPS

\* The runner's variables hold what they can, and a child runs or is being
\* stopped only where a command was called.
ChildOK ==
    /\ phase \in Commands \cup {"prepare", "killed", "write context", "remove",
                                "exited", "aborted"}
    /\ child \in {"none", "running", "stopping", "timed out"}
    /\ child # "none" => phase \in Commands

CodesOK ==
    /\ interrupted \in Signals \cup {NotInterrupted}
    /\ exitCode \in Nat /\ failure \in Nat

FlagsOK ==
    /\ cleanupFailed \in BOOLEAN /\ containers \in BOOLEAN
    /\ directory \in BOOLEAN /\ context \in BOOLEAN

\* Before the cleanup nothing has failed.
NothingFailedYet ==
    phase \notin {"down", "remove", "exited", "aborted"} =>
        exitCode = 0 /\ failure = 0 /\ cleanupFailed = FALSE

\* From then on the exit code is kept for the first failure, unless the signal
\* that came, or still comes, decides it.
CodeKept ==
    /\ phase = "down" => cleanupFailed = FALSE
    /\ phase \in {"down", "remove"} /\ interrupted = NotInterrupted =>
          /\ failure # 0 => exitCode = failure
          /\ failure = 0 /\ cleanupFailed = TRUE => exitCode = 1
          /\ failure = 0 /\ cleanupFailed = FALSE => exitCode = 0

\* The directory is there until the end, and the containers until the cleanup
\* succeeds.
FilesKept ==
    /\ phase \in (Commands \cup {"write context", "remove"}) => directory = TRUE
    /\ phase = "remove" /\ cleanupFailed = FALSE => containers = FALSE

\* What the end of a run leaves.
LeftBehind ==
    /\ phase = "exited" =>
          /\ cleanupFailed = TRUE => exitCode # 0 /\ directory = TRUE
          /\ cleanupFailed = FALSE => containers = FALSE /\ directory = FALSE
          /\ context = FALSE
    /\ phase = "aborted" =>
          /\ exitCode # 0 /\ directory = TRUE
          /\ cleanupFailed = FALSE => containers = FALSE

CodeReported ==
    phase = "exited" =>
        /\ interrupted # NotInterrupted => exitCode = interrupted
        /\ interrupted = NotInterrupted =>
              /\ failure # 0 => exitCode = failure
              /\ failure = 0 /\ cleanupFailed = TRUE => exitCode = 1
              /\ failure = 0 /\ cleanupFailed = FALSE => exitCode = 0

Controlled ==
    /\ ChildOK /\ CodesOK /\ FlagsOK
    /\ NothingFailedYet /\ CodeKept /\ FilesKept
    /\ LeftBehind /\ CodeReported /\ CleanupNotCancelled

USE DEF Signals, NotInterrupted, Commands

-----------------------------------------------------------------------------
LEMMA InitControlled ==
    ASSUME Init
    PROVE  Controlled
BY DEF Init, Controlled, ChildOK, CodesOK, FlagsOK, NothingFailedYet, CodeKept,
       FilesKept, LeftBehind, CodeReported, CleanupNotCancelled

\* A command, or the step after the context, fails: the first failure of the run.
LEMMA CleanUpAfterControlled ==
    ASSUME Controlled, NEW code \in Codes, CleanUpAfter(code),
           phase \in (Commands \cup {"write context"}) \ {"down"}
    PROVE  Controlled'
<1>1. code \in Nat \ {0}
  BY CodesAssumption
<1>2. interrupted \in {0, 130, 143}
  BY DEF Controlled, CodesOK
<1>3. /\ phase' = "down" /\ child' = "none"
      /\ UNCHANGED <<interrupted, cleanupFailed, containers, directory, context>>
      /\ failure' = code
      /\ interrupted = 0 => exitCode' = code
      /\ interrupted # 0 => exitCode' = interrupted
  BY DEF CleanUpAfter
<1>4. directory = TRUE /\ cleanupFailed = FALSE
  BY DEF Controlled, FilesKept, NothingFailedYet
<1>5. exitCode' \in Nat /\ failure' \in Nat
  BY ONLY <1>1, <1>2, <1>3
<1>6. (ChildOK /\ CodesOK /\ FlagsOK)'
  BY <1>3, <1>5 DEF Controlled, ChildOK, CodesOK, FlagsOK
<1>7. CodeKept'
  BY ONLY <1>1, <1>3, <1>4 DEF CodeKept
<1>8. (NothingFailedYet /\ FilesKept)'
  BY ONLY <1>3, <1>4 DEF NothingFailedYet, FilesKept
<1>9. (LeftBehind /\ CodeReported /\ CleanupNotCancelled)'
  BY ONLY <1>3 DEF LeftBehind, CodeReported, CleanupNotCancelled
<1>10. QED
  BY <1>6, <1>7, <1>8, <1>9 DEF Controlled

LEMMA NextControlled ==
    ASSUME Controlled, Next
    PROVE  Controlled'
<1> USE DEF Controlled, ChildOK, CodesOK, FlagsOK, NothingFailedYet, CodeKept,
            FilesKept, LeftBehind, CodeReported, CleanupNotCancelled
<1>1. ASSUME Prepare PROVE Controlled'
  BY <1>1 DEF Prepare
<1>2. ASSUME EarlyEnd PROVE Controlled'
  BY <1>2 DEF EarlyEnd
<1>3. ASSUME NEW code \in Signals, Signal(code) PROVE Controlled'
  <2>1. /\ phase \notin {"prepare", "killed", "exited", "aborted"}
        /\ interrupted' = code /\ code \in {130, 143}
        /\ child' \in {child, "stopping"}
        /\ child = "none" => child' = "none"
        /\ phase = "down" => child' = child
        /\ UNCHANGED <<phase, exitCode, cleanupFailed, containers, directory,
                       context, failure>>
    BY <1>3 DEF Signal, StopCancellable
  <2>2. ChildOK' /\ CleanupNotCancelled'
    BY ONLY <2>1, ChildOK, CleanupNotCancelled DEF ChildOK, CleanupNotCancelled
  <2>3. FlagsOK'
    BY ONLY <2>1, FlagsOK DEF FlagsOK
  <2>4. CodesOK'
    BY ONLY <2>1, CodesOK DEF CodesOK
  <2>5. (NothingFailedYet /\ FilesKept)'
    BY <2>1
  <2>6. (CodeKept /\ LeftBehind /\ CodeReported)'
    BY ONLY <2>1, CodeKept DEF CodeKept, LeftBehind, CodeReported
  <2>7. QED
    BY <2>2, <2>3, <2>4, <2>5, <2>6
<1>4. ASSUME Spawn PROVE Controlled'
  BY <1>4 DEF Spawn
<1>5. ASSUME TimeOut PROVE Controlled'
  BY <1>5 DEF TimeOut
<1>6. ASSUME CreateContainers PROVE Controlled'
  BY <1>6 DEF CreateContainers
<1>7. ASSUME CommandRefused PROVE Controlled'
  BY <1>7, CleanUpAfterControlled, CodesAssumption DEF CommandRefused
<1>8. ASSUME Succeed PROVE Controlled'
  <2>1. phase \in Commands \ {"down"}
    BY <1>8 DEF Succeed
  <2>2. phase' \in (Commands \cup {"write context"}) \ {"up"} /\ child' = "none"
    BY <1>8, <2>1 DEF Succeed, After
  <2>3. UNCHANGED <<interrupted, exitCode, cleanupFailed, containers,
                    directory, context, failure>>
    BY <1>8 DEF Succeed
  <2>4. QED
    BY <2>1, <2>2, <2>3
<1>9. ASSUME NEW code \in Codes, Fail(code) PROVE Controlled'
  BY <1>9, CleanUpAfterControlled DEF Fail
<1>10. ASSUME WriteContext PROVE Controlled'
  BY <1>10 DEF WriteContext
<1>11. ASSUME CleanUp PROVE Controlled'
  BY <1>11 DEF CleanUp
<1>12. ASSUME CleanUpFails PROVE Controlled'
  BY <1>12 DEF CleanUpFails, FailWithOneUnless
<1>13. ASSUME Exit PROVE Controlled'
  <2>1. /\ phase = "remove" /\ phase' = "exited" /\ context' = FALSE
        /\ interrupted = 0 => exitCode' = exitCode
        /\ interrupted # 0 => exitCode' = interrupted
        /\ UNCHANGED <<child, interrupted, cleanupFailed, containers, failure>>
    BY <1>13 DEF Exit, RemoveFiles
  <2>2. directory' = cleanupFailed
    <3>1. directory = TRUE /\ cleanupFailed \in BOOLEAN
      BY <2>1
    <3>2. directory' = (directory /\ cleanupFailed)
      BY <1>13 DEF Exit, RemoveFiles
    <3>3. QED
      BY ONLY <3>1, <3>2
  <2>3. exitCode' \in Nat /\ failure' \in Nat
    <3>1. /\ interrupted \in {0, 130, 143}
          /\ exitCode \in Nat /\ failure \in Nat
      OBVIOUS
    <3>2. QED
      BY ONLY <2>1, <3>1
  <2>4. (ChildOK /\ CodesOK /\ FlagsOK /\ CleanupNotCancelled)'
    BY <2>1, <2>2, <2>3
  <2>5. (NothingFailedYet /\ CodeKept /\ FilesKept)'
    BY ONLY <2>1 DEF NothingFailedYet, CodeKept, FilesKept
  <2>6. CodeReported'
    BY <2>1
  <2>7. LeftBehind'
    <3>1. cleanupFailed = FALSE => containers = FALSE
      BY ONLY <2>1, FilesKept DEF FilesKept
    <3>2. cleanupFailed = TRUE => exitCode' # 0
      BY ONLY <2>1, CodeKept DEF CodeKept
    <3>3. QED
      BY ONLY <2>1, <2>2, <3>1, <3>2 DEF LeftBehind
  <2>8. QED
    BY <2>4, <2>5, <2>6, <2>7
<1>14. ASSUME Abort PROVE Controlled'
  <2>1. /\ phase = "remove" /\ phase' = "aborted" /\ exitCode' = 1
        /\ UNCHANGED <<child, interrupted, cleanupFailed, containers, directory,
                       failure>>
    BY <1>14 DEF Abort
  <2>2. context' \in BOOLEAN
    BY <1>14 DEF Abort
  <2>3. (ChildOK /\ CodesOK)'
    BY ONLY <2>1, ChildOK, CodesOK DEF ChildOK, CodesOK
  <2>4. FlagsOK'
    BY ONLY <2>1, <2>2, FlagsOK DEF FlagsOK
  <2>5. (NothingFailedYet /\ CodeKept /\ FilesKept)'
    BY ONLY <2>1 DEF NothingFailedYet, CodeKept, FilesKept
  <2>6. LeftBehind'
    BY ONLY <2>1, FilesKept DEF FilesKept, LeftBehind
  <2>7. (CodeReported /\ CleanupNotCancelled)'
    BY ONLY <2>1 DEF CodeReported, CleanupNotCancelled
  <2>8. QED
    BY <2>3, <2>4, <2>5, <2>6, <2>7
<1> HIDE DEF Controlled
<1>15. QED
  BY <1>1, <1>2, <1>3, <1>4, <1>5, <1>6, <1>7, <1>8, <1>9, <1>10, <1>11,
     <1>12, <1>13, <1>14 DEF Next

\* The inductive invariant: while its child runs, is stopped or times out and
\* whatever signal comes, the runner still knows what failed first and has what
\* it needs to clean up.
THEOREM RunnerControlled == Spec => []Controlled
<1>1. Controlled /\ UNCHANGED vars => Controlled'
  <2>1. SUFFICES ASSUME Controlled, UNCHANGED vars
                 PROVE  Controlled'
    OBVIOUS
  <2>2. (ChildOK /\ CodesOK)'
    BY <2>1 DEF vars, Controlled, ChildOK, CodesOK
  <2>3. FlagsOK'
    BY <2>1 DEF vars, Controlled, FlagsOK
  <2>4. (NothingFailedYet /\ CodeKept /\ FilesKept)'
    BY <2>1 DEF vars, Controlled, NothingFailedYet, CodeKept, FilesKept
  <2>5. (LeftBehind /\ CodeReported /\ CleanupNotCancelled)'
    BY <2>1 DEF vars, Controlled, LeftBehind, CodeReported, CleanupNotCancelled
  <2>6. QED
    BY <2>2, <2>3, <2>4, <2>5 DEF Controlled
<1>2. QED
  BY <1>1, InitControlled, NextControlled, PTL DEF Spec

\* A run that ended has removed its containers and files, or failed and kept the
\* files that a manual cleanup needs; its safety context is gone in any case but
\* that of an rm that fails, which fails the run; and no signal stops the cleanup.
THEOREM NothingIsLeft == Spec => []NothingLeft
<1>1. Controlled => NothingLeft
  BY DEF Controlled, FlagsOK, LeftBehind, NothingLeft, Over
<1>2. QED
  BY <1>1, RunnerControlled, PTL

\* The exit code names the interruption, else the first failure, else that of
\* the cleanup.
THEOREM ExitCodeIsRight == Spec => []ExitCodeTells
<1>1. Controlled => ExitCodeTells
  <2>1. SUFFICES ASSUME Controlled, phase = "exited"
                 PROVE  ExitCodeTells
    BY DEF ExitCodeTells
  <2>2. CASE interrupted # NotInterrupted
    BY <2>1, <2>2 DEF Controlled, CodeReported, ExitCodeTells
  <2>3. CASE interrupted = NotInterrupted /\ failure # 0
    BY <2>1, <2>3 DEF Controlled, CodeReported, ExitCodeTells
  <2>4. CASE interrupted = NotInterrupted /\ failure = 0 /\ cleanupFailed = TRUE
    BY <2>1, <2>4 DEF Controlled, CodeReported, ExitCodeTells
  <2>5. CASE interrupted = NotInterrupted /\ failure = 0 /\ cleanupFailed = FALSE
    BY <2>1, <2>5 DEF Controlled, CodeReported, ExitCodeTells
  <2>6. cleanupFailed = TRUE \/ cleanupFailed = FALSE
    BY <2>1 DEF Controlled, FlagsOK
  <2>7. QED
    BY <2>2, <2>3, <2>4, <2>5, <2>6
<1>2. QED
  BY <1>1, RunnerControlled, PTL
=============================================================================
