----------------------------- MODULE FailedReports -----------------------------
(***************************************************************************)
(* What becomes of the samples the agent could not report (collectAndReport  *)
(* and saveFailedReportData of cmd/agent/main.go, with the pauses of         *)
(* HTTPReporter.Report).  Each goes to a file of its own name, which is the  *)
(* second its collection began in, while the ticker may start two            *)
(* collections a second: the later of two such files takes the other's       *)
(* place, unless a retry has put a second between them.                      *)
(*                                                                         *)
(* Time is discrete, Second units to the second.  MetricsPipeline models the *)
(* same loop without time and with everything on the other side of it.       *)
(***************************************************************************)
EXTENDS Integers

CONSTANTS
  Second,         \* units of time in a second
  Interval,       \* the collection interval
  RetryCount,     \* retries of a report
  RetryInterval,  \* the pause before each, whole seconds or the default of one
  MaxTime         \* bound: the clock

ASSUME ReportsAssumption ==
  /\ Second \in Nat \ {0} /\ Interval \in Nat \ {0}
  /\ RetryCount \in Nat /\ MaxTime \in Nat
  /\ RetryInterval \in Nat /\ RetryInterval >= Second

VARIABLES
  clock,        \* the time
  ticked,       \* ticker.C, which keeps one tick
  agent,        \* where the collecting goroutine is
  sample,       \* the number of the collection it is at
  collectTime,  \* the second that collection began in
  attempt,      \* i in Report's loop
  wake,         \* the time the pause before a retry ends
  files,        \* tmp/failed_reports: the sample in each file
  retried       \* history: samples logged as saved that had been retried

vars == <<clock, ticked, agent, sample, collectTime, attempt, wake, files, retried>>
disk == <<files, retried>>

(* A file that was opened, and truncated by that, but not written.           *)
Partial == 0

TypeOK ==
  /\ clock \in 0..MaxTime /\ wake \in 0..(MaxTime + RetryInterval)
  /\ ticked \in BOOLEAN
  /\ agent \in {"idle", "collecting", "sending", "pausing", "saving",
                "writing", "stopped"}
  /\ sample \in Nat /\ retried \subseteq 1..sample
  /\ collectTime \in 0..MaxTime
  /\ attempt \in 0..RetryCount
  /\ DOMAIN files \subseteq 0..MaxTime
  /\ files \in [DOMAIN files -> 0..sample]

Init ==
  /\ clock = 0 /\ ticked = TRUE
  /\ agent = "idle" /\ sample = 0 /\ collectTime = 0
  /\ attempt = 0 /\ wake = 0
  /\ files = [s \in {} |-> Partial] /\ retried = {}
-----------------------------------------------------------------------------
(* The ticker drops a tick nobody received before the next.                  *)
Tick ==
  /\ clock < MaxTime /\ clock' = clock + 1
  /\ ticked' = (ticked \/ clock' % Interval = 0)
  /\ UNCHANGED <<agent, sample, collectTime, attempt, wake, disk>>

(* The first collection, or the next one after a tick.                       *)
Collect ==
  /\ agent = "idle" /\ ticked
  /\ agent' = "collecting" /\ ticked' = FALSE
  /\ sample' = sample + 1
  /\ collectTime' = clock \div Second
  /\ UNCHANGED <<clock, attempt, wake, disk>>

(* Collect, which waits a quarter of a second for the CPU, returns, and the  *)
(* first attempt is made.                                                   *)
Report ==
  /\ agent = "collecting"
  /\ agent' = "sending" /\ attempt' = 0
  /\ UNCHANGED <<clock, ticked, sample, collectTime, wake, disk>>

(* json.Marshal or processData, the encryption for one, fails: no attempt is *)
(* made and nothing waited for.                                             *)
PrepareFails ==
  /\ agent = "collecting"
  /\ agent' = "saving" /\ attempt' = 0
  /\ UNCHANGED <<clock, ticked, sample, collectTime, wake, disk>>

Accepted ==
  /\ agent = "sending"
  /\ agent' = "idle"
  /\ UNCHANGED <<clock, ticked, sample, collectTime, attempt, wake, disk>>

(* A plausible slip: the next attempt is made at once.                       *)
AttemptFailsNoPause ==
  /\ agent = "sending"
  /\ IF attempt < RetryCount
       THEN agent' = "pausing" /\ attempt' = attempt + 1 /\ wake' = clock
       ELSE agent' = "saving" /\ UNCHANGED <<attempt, wake>>
  /\ UNCHANGED <<clock, ticked, sample, collectTime, disk>>

(* The attempt is refused or times out, at any time after it was made.       *)
AttemptFails ==
  /\ agent = "sending"
  /\ IF attempt < RetryCount
       THEN agent' = "pausing" /\ attempt' = attempt + 1
            /\ wake' = clock + RetryInterval
       ELSE agent' = "saving" /\ UNCHANGED <<attempt, wake>>
  /\ UNCHANGED <<clock, ticked, sample, collectTime, disk>>

Resume ==
  /\ agent = "pausing" /\ clock >= wake
  /\ agent' = "sending"
  /\ UNCHANGED <<clock, ticked, sample, collectTime, attempt, wake, disk>>

(* saveFailedReportData: the directory cannot be made, the sample not be      *)
(* encoded or the file not be opened; the sample is gone, which is logged.   *)
SaveFails ==
  /\ agent = "saving"
  /\ agent' = "idle"
  /\ UNCHANGED <<clock, ticked, sample, collectTime, attempt, wake, disk>>

(* os.WriteFile opens the file, and empties it if there is one.              *)
OpenFile ==
  /\ agent = "saving"
  /\ agent' = "writing"
  /\ files' = [s \in DOMAIN files \cup {collectTime} |->
                 IF s = collectTime THEN Partial ELSE files[s]]
  /\ UNCHANGED <<clock, ticked, sample, collectTime, attempt, wake, retried>>

WriteFile ==
  /\ agent = "writing"
  /\ agent' = "idle"
  /\ \/ /\ files' = [files EXCEPT ![collectTime] = sample]
        /\ retried' = IF attempt > 0 THEN retried \cup {sample} ELSE retried
     \/ UNCHANGED disk
  /\ UNCHANGED <<clock, ticked, sample, collectTime, attempt, wake>>

(* A signal ends the program without waiting for the goroutine.              *)
Quit ==
  /\ agent # "stopped"
  /\ agent' = "stopped"
  /\ UNCHANGED <<clock, ticked, sample, collectTime, attempt, wake, disk>>

Next ==
  \/ Tick \/ Collect \/ Report \/ PrepareFails \/ Accepted \/ AttemptFails \/ Resume
  \/ SaveFails \/ OpenFile \/ WriteFile \/ Quit

Spec == Init /\ [][Next]_vars
-----------------------------------------------------------------------------
(* A sample that was logged as saved after a retry stays in a file, whatever *)
(* is saved after it, retried or not, and wherever the program is stopped.   *)
(* main.go:465 takes the time stamp to make every file name unique; that is  *)
(* true of these only: reports that fail at once (no retries are configured, *)
(* or the sample could not be prepared) may share a second.                  *)
RetriedSamplesStay == \A n \in retried : \E s \in DOMAIN files : files[s] = n
=============================================================================
