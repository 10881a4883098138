--------------------------------- MODULE Agent ---------------------------------
(***************************************************************************)
(* The agent's process from its start on (cmd/agent/main.go): main settles   *)
(* the configuration and registers with the aggregator, AgentStartup, and    *)
(* only then collects, one collection after the other, ParallelCollector.    *)
(* What the aggregator does about attempts that were given up goes on        *)
(* beside the collections.                                                  *)
(***************************************************************************)
EXTENDS ParallelCollector

CONSTANTS MaxRegisterRetries, DefaultTimeout, Seconds, Retries
          \* those of AgentStartup

CONSTANT Responsive  \* mount points of which statfs comes back

ASSUME AgentAssumption ==
  /\ Responsive \subseteq Mounts
  /\ MaxRegisterRetries \in Nat /\ DefaultTimeout \in Nat \ {0}
  /\ Seconds \subseteq Nat /\ 0 \in Seconds
  /\ Retries \subseteq Nat /\ 0 \in Retries

VARIABLES settings, pc, attempt, requests, verified, registered
          \* those of AgentStartup

Startup == INSTANCE AgentStartup

startupVars == <<settings, pc, attempt, requests, verified, registered>>
agentVars == <<vars, startupVars>>

AgentInit == Init /\ Startup!Init

StartupStep == Startup!Next /\ UNCHANGED vars

(* The loop's goroutine is started when main is through.                     *)
Collecting(A) == pc = "running" /\ A /\ UNCHANGED startupVars

AgentNext == StartupStep \/ Collecting(Next)

AgentSpec == AgentInit /\ [][AgentNext]_agentVars

(* main runs on and its timeouts strike, whatever the aggregator does; the   *)
(* readings of the machine itself come back, with a result or an error; and  *)
(* the ticker asks for the next collection.  disk.Usage has no timeout: of a *)
(* mount point whose server is gone it may never come back.                  *)
FairAgentSpec ==
  /\ AgentSpec
  /\ WF_agentVars(Startup!Agent /\ UNCHANGED vars)
  /\ WF_agentVars(Collecting(Readings)) /\ WF_agentVars(Collecting(Return))
  /\ \A m \in Responsive : WF_agentVars(Collecting(CollectMount(m)))
  /\ WF_agentVars(Collecting(Collect))
-----------------------------------------------------------------------------
(* The variables of both parts keep their types.                             *)
AgentTypeOK == TypeOK /\ Startup!TypeOK

(* An agent that was told it is registered has been verified, through all    *)
(* retries, timeouts and answers to attempts that were given up.             *)
SuccessIsVerified == registered /\ settings.enabled => verified

(* Whatever flags and file leave out, a report has some time to succeed in (a *)
(* timeout of zero would be a deadline that has already passed), a retry      *)
(* waits for at least a second (the files of failed reports depend on it,     *)
(* FailedReports), and where an aggregator is to be used, which only a file   *)
(* says, there is one.  And whoever has a file has a collection interval.     *)
SettingsAreSensible ==
  /\ settings.reports => /\ settings.timeout > 0 /\ settings.retryInterval > 0
                         /\ settings.enabled => settings.retryCount > 0
  /\ settings.loaded => settings.interval

(* However the aggregator behaves, an agent with a collection interval comes  *)
(* to collecting, and every collection returns, whatever could not be read in *)
(* it, unless statfs of a mount point hangs: its goroutines wait for one      *)
(* another without a timeout.                                               *)
KeepsCollecting ==
  [](mountPoints \subseteq Responsive /\ (pc = "start" \/ settings.interval)) =>
    []<>(phase = "returned")
=============================================================================
