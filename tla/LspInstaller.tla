----------------------------- MODULE LspInstaller -----------------------------
(***************************************************************************)
(* The installer of server binaries (old/src/lsp/lsp_installer*.cpp): a     *)
(* status per binary, one job at a time for each, and a generation that     *)
(* tells the service that one more binary is there.                        *)
(***************************************************************************)
EXTENDS Integers, FiniteSets

CONSTANT Binaries

VARIABLES
  present,      \* the binaries that resolve() finds
  status,       \* g_status
  queued,       \* g_queued
  failedAt,     \* g_failed_at: "never", "lately" (within kFailedRetry) or "long ago"
  generation,   \* g_generation
  installing    \* the jobs posted and not ended: a bag of binaries

installerVars == <<present, status, queued, failedAt, generation, installing>>

InstallerInit(found) ==
  /\ present = found
  /\ status = [b \in Binaries |-> "missing"]
  /\ queued = {} /\ failedAt = [b \in Binaries |-> "never"]
  /\ generation = 1 /\ installing = [b \in Binaries |-> 0]

\* request(), of a binary that is not there: left alone while it is under way, and, unless
\* the user insists, when it failed lately.
Request(b, force) ==
  IF \/ b \in queued \/ status[b] = "installing"
     \/ ~force /\ status[b] = "failed" /\ failedAt[b] = "lately"
  THEN UNCHANGED installerVars
  ELSE /\ status' = [status EXCEPT ![b] = "installing"]
       /\ queued' = queued \cup {b}
       /\ failedAt' = [failedAt EXCEPT ![b] = "never"]
       /\ installing' = [installing EXCEPT ![b] = @ + 1]
       /\ UNCHANGED <<present, generation>>

\* The job ends.
Install(b) ==
  /\ installing[b] > 0
  /\ installing' = [installing EXCEPT ![b] = @ - 1]
  /\ queued' = queued \ {b}
  /\ present' = present \cup {b} /\ status' = [status EXCEPT ![b] = "ready"]
  /\ generation' = generation + 1
  /\ UNCHANGED failedAt

InstallFails(b) ==
  /\ installing[b] > 0
  /\ installing' = [installing EXCEPT ![b] = @ - 1]
  /\ queued' = queued \ {b}
  /\ status' = [status EXCEPT ![b] = "failed"]
  /\ failedAt' = [failedAt EXCEPT ![b] = "lately"]
  /\ UNCHANGED <<present, generation>>

RetryTimePasses(b) ==
  /\ failedAt[b] = "lately"
  /\ failedAt' = [failedAt EXCEPT ![b] = "long ago"]
  /\ UNCHANGED <<present, status, queued, generation, installing>>

===============================================================================
