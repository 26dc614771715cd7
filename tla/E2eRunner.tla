------------------------------ MODULE E2eRunner ------------------------------
(***************************************************************************)
(* The isolated runner of the database tests: it starts its own Compose    *)
(* project, runs its commands one after the other, and removes the project *)
(* again, whichever command fails or times out and whenever it is          *)
(* interrupted.                                                            *)
(***************************************************************************)
EXTENDS Integers

CONSTANT Codes      \* the exit codes of failing commands: any but 0, and 1 for
                    \* those that a signal killed, or that closed with 0 too late

ASSUME CodesAssumption == Codes \subseteq Nat \ {0} /\ 1 \in Codes

Signals == {130, 143}       \* what SIGINT and SIGTERM make of the exit code
NotInterrupted == 0

VARIABLES
    phase,          \* the command that is due or runs, or what comes next
    child,          \* activeChild: none, running, stopping after a signal, or
                    \* stopping after its timeout
    interrupted, exitCode, cleanupFailed,
    containers,     \* the project's containers, network and volumes
    directory, context,
    failure         \* history: the exit code of the command that failed

vars == <<phase, child, interrupted, exitCode, cleanupFailed, containers,
          directory, context, failure>>

Commands == {"up", "postgres port", "redis port", "migrate", "tests", "down"}

After(command) ==
    CASE command = "up" -> "postgres port"
      [] command = "postgres port" -> "redis port"
      [] command = "redis port" -> "write context"
      [] command = "migrate" -> "tests"
      [] command = "tests" -> "down"

HasTimeout(command) == command # "tests"

Init ==
    /\ phase = "prepare" /\ child = "none"
    /\ interrupted = NotInterrupted /\ exitCode = 0 /\ cleanupFailed = FALSE
    /\ containers = FALSE /\ directory = FALSE /\ context = FALSE
    /\ failure = 0

-----------------------------------------------------------------------------
\* The directory and its env file.
Prepare ==
    /\ phase = "prepare"
    /\ phase' = "up" /\ directory' = TRUE
    /\ UNCHANGED <<child, interrupted, exitCode, cleanupFailed, containers,
                   context, failure>>

\* A signal ends the process before the handlers are there, or the directory or
\* its env file cannot be written.
EarlyEnd ==
    /\ phase = "prepare"
    /\ phase' = "killed" /\ directory' \in BOOLEAN
    /\ UNCHANGED <<child, interrupted, exitCode, cleanupFailed, containers,
                   context, failure>>

\* Mutant: the tests are waited for.
StopNoTests(c) ==
    IF c = "running" /\ phase \notin {"down", "tests"} THEN "stopping" ELSE c

\* What a signal does to the child: SIGTERM, and SIGKILL after five seconds.
StopCancellable(c) ==
    IF c = "running" /\ phase # "down" THEN "stopping" ELSE c

\* onSignal; later signals are ignored.
Signal(code) ==
    /\ phase \notin {"prepare", "killed", "exited", "aborted"}
    /\ interrupted = NotInterrupted
    /\ interrupted' = code
    /\ child' = StopCancellable(child)
    /\ UNCHANGED <<phase, exitCode, cleanupFailed, containers, directory,
                   context, failure>>

\* command, when it is called.
Spawn ==
    /\ phase \in Commands /\ child = "none"
    /\ interrupted = NotInterrupted \/ phase = "down"
    /\ child' = "running"
    /\ UNCHANGED <<phase, interrupted, exitCode, cleanupFailed, containers,
                   directory, context, failure>>

TimeOut ==
    /\ child = "running" /\ HasTimeout(phase)
    /\ child' = "timed out"
    /\ UNCHANGED <<phase, interrupted, exitCode, cleanupFailed, containers,
                   directory, context, failure>>

\* docker compose up, before it returns.
CreateContainers ==
    /\ phase = "up" /\ child # "none" /\ ~containers
    /\ containers' = TRUE
    /\ UNCHANGED <<phase, child, interrupted, exitCode, cleanupFailed,
                   directory, context, failure>>

\* Mutant: the exit code says only that something failed.
CleanUpAfterAny(code) ==
    /\ phase' = "down" /\ child' = "none"
    /\ exitCode' = 1
    /\ failure' = code
    /\ UNCHANGED <<interrupted, cleanupFailed, containers, directory, context>>

\* The try block is left with an error; down is due.
CleanUpAfter(code) ==
    /\ phase' = "down" /\ child' = "none"
    /\ exitCode' = IF interrupted # NotInterrupted THEN interrupted ELSE code
    /\ failure' = code
    /\ UNCHANGED <<interrupted, cleanupFailed, containers, directory, context>>

\* The next command is refused, or cannot be spawned, its output is no port, or
\* the context cannot be written.
CommandRefused ==
    /\ phase \in (Commands \cup {"write context"}) \ {"down"}
    /\ child = "none" \/ (child = "running" /\ phase \in {"postgres port",
                                                          "redis port"})
    /\ CleanUpAfter(1)

\* close with 0, neither timed out nor interrupted.
Succeed ==
    /\ child = "running" /\ phase # "down"
    /\ phase = "up" => containers
    /\ phase' = After(phase)
    /\ child' = "none"
    /\ UNCHANGED <<interrupted, exitCode, cleanupFailed, containers, directory,
                   context, failure>>

\* close with another code, or after a signal or a timeout with any.
Fail(code) ==
    /\ child # "none" /\ phase # "down"
    /\ CleanUpAfter(code)

WriteContext ==
    /\ phase = "write context"
    /\ phase' = "migrate" /\ context' = TRUE
    /\ UNCHANGED <<child, interrupted, exitCode, cleanupFailed, containers,
                   directory, failure>>

\* down ends: interrupted or not.
CleanUp ==
    /\ phase = "down" /\ child = "running"
    /\ phase' = "remove" /\ child' = "none" /\ containers' = FALSE
    /\ UNCHANGED <<interrupted, exitCode, cleanupFailed, directory, context,
                   failure>>

\* Mutant: the failure of the cleanup is reported only.
KeepExitCode(code) == exitCode' = code

FailWithOneUnless(code) == exitCode' = IF code = 0 THEN 1 ELSE code

CleanUpFails ==
    /\ phase = "down"
    /\ phase' = "remove" /\ child' = "none" /\ cleanupFailed' = TRUE
    /\ FailWithOneUnless(exitCode)
    /\ containers' \in {containers, FALSE}
    /\ UNCHANGED <<interrupted, directory, context, failure>>

RemoveFiles ==
    /\ context' = FALSE
    /\ directory' = (directory /\ cleanupFailed)

\* The end of the finally block, and the process's exit code.
Exit ==
    /\ phase = "remove"
    /\ phase' = "exited"
    /\ RemoveFiles
    /\ exitCode' = IF interrupted # NotInterrupted THEN interrupted
                                                   ELSE exitCode
    /\ UNCHANGED <<child, interrupted, cleanupFailed, containers, failure>>

\* One of the two rm fails, for another reason than that there is no file: the
\* error leaves the finally block, and the script ends with 1 where it stands.
Abort ==
    /\ phase = "remove"
    /\ phase' = "aborted" /\ exitCode' = 1
    /\ context' = context \/ (~cleanupFailed /\ context' = FALSE)
    /\ UNCHANGED <<child, interrupted, cleanupFailed, containers, directory,
                   failure>>

Next ==
    \/ Prepare
    \/ EarlyEnd
    \/ \E code \in Signals : Signal(code)
    \/ Spawn
    \/ TimeOut
    \/ CreateContainers
    \/ CommandRefused
    \/ Succeed
    \/ \E code \in Codes : Fail(code)
    \/ WriteContext
    \/ CleanUp
    \/ CleanUpFails
    \/ Exit
    \/ Abort

Spec == Init /\ [][Next]_vars

\* Timeouts pass and a child that is stopped ends; the tests may run for ever.
FairSpec ==
    /\ Spec
    /\ WF_vars(Prepare \/ Spawn \/ TimeOut \/ WriteContext \/ Exit)
    /\ WF_vars(child \in {"stopping", "timed out"}
                  /\ (CleanUpFails \/ \E code \in Codes : Fail(code)))
    /\ WF_vars(child = "none" /\ interrupted # NotInterrupted /\ CommandRefused)

-----------------------------------------------------------------------------
(* Properties *)

Over == phase \in {"exited", "aborted"}

\* "Cleanup cannot be cancelled by a repeated signal", nor by the first one.
CleanupNotCancelled == phase = "down" => child # "stopping"

\* README: "Success, startup/migration/test failures, SIGINT (Ctrl+C) and
\* SIGTERM all remove only that run's containers, network and volumes."  If
\* Docker does not, "the command fails" and the files for a retry are kept, but
\* the safety context expires: no later test run finds that of a run that is over.
\* A run whose files cannot be removed fails too, and has removed the containers.
NothingLeft ==
    /\ CleanupNotCancelled
    /\ Over =>
          /\ containers => cleanupFailed
          /\ directory <=> cleanupFailed \/ phase = "aborted"
          /\ directory => exitCode # 0
          /\ context => phase = "aborted"

\* README: "The runner preserves failure exit codes and returns 130/143 on
\* interruption"; without either it succeeds.  (An aborted run ends with 1.)
ExitCodeTells ==
    phase = "exited" =>
        exitCode = IF interrupted # NotInterrupted THEN interrupted
                   ELSE IF failure # 0 THEN failure
                   ELSE IF cleanupFailed THEN 1 ELSE 0

\* An interrupted run ends, even if its tests would not.
InterruptEnds == interrupted # NotInterrupted ~> Over
=============================================================================
