----------------------------- MODULE AgentStartup -----------------------------
(***************************************************************************)
(* The agent's main up to its collection loop (cmd/agent/main.go): the       *)
(* settings that come out of flags, configuration file and defaults, and the *)
(* registration with the aggregator, which asks the control plane before it  *)
(* marks the node as verified.                                              *)
(*                                                                         *)
(* An attempt ends with an answer or after fifteen seconds; the aggregator's *)
(* handler may still be at work then, its own call has ten.  After the last  *)
(* attempt the agent starts to collect, registered or not; without any       *)
(* collection interval it panics instead.  With -debug nothing is reported.  *)
(***************************************************************************)
EXTENDS Integers, FiniteSets

CONSTANTS
  MaxRegisterRetries,  \* attempts after the first
  DefaultTimeout,      \* the reporter's own timeout, in seconds
  Seconds,             \* timeouts and pauses a configuration may give, 0 for none
  Retries              \* retry counts a configuration may give, 0 for none

VARIABLES
  settings,    \* what the reporter and the registration are started with
  pc,          \* where main is
  attempt,     \* i in attemptRegistration
  requests,    \* registration requests sent, and answers not received yet
  verified,    \* the aggregator has marked the node as verified
  registered   \* registrationSuccessful

vars == <<settings, pc, attempt, requests, verified, registered>>

(* What a configuration file may give; loaded: it could be read and parsed;  *)
(* interval: the collection interval in it is positive.                      *)
File == [loaded : BOOLEAN, enabled : BOOLEAN, aggregatorURL : BOOLEAN,
         authToken : BOOLEAN, aggregatorTimeout : Seconds,
         serverTimeout : Seconds, retryCount : Retries,
         retryInterval : Seconds, interval : BOOLEAN]

(* A file that cannot be loaded leaves a configuration without any value.    *)
NoFile == [loaded |-> FALSE, enabled |-> FALSE, aggregatorURL |-> FALSE,
           authToken |-> FALSE, aggregatorTimeout |-> 0,
           serverTimeout |-> 0, retryCount |-> 0,
           retryInterval |-> 0, interval |-> FALSE]

(* loaded: there is a file; interval: one for the ticker; reports: there is a *)
(* reporter, of which the rest is said; enabled: an aggregator is to be used. *)
Settings == [loaded : BOOLEAN, interval : BOOLEAN, reports : BOOLEAN,
             enabled : BOOLEAN, token : BOOLEAN, timeout : Nat,
             retryCount : Nat, retryInterval : Nat]

Unset == [loaded |-> FALSE, interval |-> FALSE, reports |-> FALSE,
          enabled |-> FALSE, token |-> FALSE, timeout |-> 0,
          retryCount |-> 0, retryInterval |-> 0]
Request == [attempt : 0..MaxRegisterRetries,
            state : {"sent", "validating", "ok", "refused"}]

TypeOK ==
  /\ settings \in Settings
  /\ pc \in {"start", "register", "waiting", "pause", "running", "panicked"}
  /\ attempt \in 0..MaxRegisterRetries
  /\ requests \subseteq Request
  /\ verified \in BOOLEAN /\ registered \in BOOLEAN

Init ==
  /\ settings = Unset
  /\ pc = "start" /\ attempt = 0
  /\ requests = {} /\ verified = FALSE /\ registered = FALSE
-----------------------------------------------------------------------------
(* A plausible slip: a count of zero passes for one that was chosen.         *)
DefaultedTimeout(file) ==
  IF ~file.loaded THEN file
  ELSE [file EXCEPT !.serverTimeout = IF @ = 0 THEN 10 ELSE @,
                    !.retryInterval = IF @ = 0 THEN 1 ELSE @,
                    !.interval = TRUE]

(* ensureDefaultConfig, which only a file that was loaded goes through.      *)
Defaulted(file) ==
  IF ~file.loaded THEN file
  ELSE [file EXCEPT !.serverTimeout = IF @ = 0 THEN 10 ELSE @,
                    !.retryCount = IF @ = 0 THEN 3 ELSE @,
                    !.retryInterval = IF @ = 0 THEN 1 ELSE @,
                    !.interval = TRUE]

(* The choice of the server, and with it of the token for registering;       *)
(* named: what -server names, "none" if it is not given.                     *)
Named == {"none", "aggregator", "other"}
ToAggregator(named, file) ==
  named = "none" /\ file.enabled /\ file.aggregatorURL
AgentToken(named, file) == ToAggregator(named, file) /\ file.authToken

(* getAppropriateTimeout: every URL contains an aggregator URL that is empty. *)
AppropriateTimeout(named, file) ==
  IF /\ file.enabled
     /\ ToAggregator(named, file) \/ named = "aggregator" \/ ~file.aggregatorURL
    THEN file.aggregatorTimeout ELSE Defaulted(file).serverTimeout

(* WithTimeout, WithRetryInterval: the reporter keeps its own default, of the *)
(* pause a second, without a value.                                         *)
WithTimeout(timeout) == IF timeout > 0 THEN timeout ELSE DefaultTimeout
WithRetryInterval(pause) == IF pause > 0 THEN pause ELSE 1

(* What NewHTTPReporter and the registration are given.                      *)
ReportSettings(named, file) ==
  [Unset EXCEPT !.reports = TRUE, !.enabled = file.enabled,
                !.token = AgentToken(named, file),
                !.timeout = WithTimeout(AppropriateTimeout(named, file)),
                !.retryCount = Defaulted(file).retryCount,
                !.retryInterval = WithRetryInterval(Defaulted(file).retryInterval)]

(* The end of main: time.NewTicker panics without a positive interval.       *)
StartCollecting(chosen) == pc' = IF chosen.interval THEN "running" ELSE "panicked"

(* main up to the registration, and past it where there is none: a node that *)
(* reports to the control plane itself counts as registered.  A positive     *)
(* -interval takes the place of the file's.                                  *)
Configure ==
  /\ pc = "start"
  /\ \E named \in Named, debug, interval \in BOOLEAN,
        file \in {f \in File : f.loaded} \cup {NoFile} :
       /\ settings' =
            [(IF debug THEN Unset ELSE ReportSettings(named, file)) EXCEPT
               !.loaded = file.loaded,
               !.interval = interval \/ Defaulted(file).interval]
       /\ registered' = (~debug /\ ~file.enabled)
  /\ IF settings'.token THEN pc' = "register" ELSE StartCollecting(settings')
  /\ UNCHANGED <<attempt, requests, verified>>

(* registerAgentWithAggregator puts its request on the wire.                 *)
Register ==
  /\ pc = "register"
  /\ pc' = "waiting"
  /\ requests' = requests \cup {[attempt |-> attempt, state |-> "sent"]}
  /\ UNCHANGED <<settings, attempt, verified, registered>>

(* A plausible slip: one attempt too many.                                  *)
AttemptFailedOnceMore ==
  /\ IF attempt <= MaxRegisterRetries
       THEN attempt' = attempt + 1 /\ pc' = "pause"
       ELSE attempt' = attempt /\ StartCollecting(settings)
  /\ UNCHANGED registered

(* The tail of attemptRegistration's loop; main goes on when it is through.  *)
AttemptFailed ==
  /\ IF attempt < MaxRegisterRetries
       THEN attempt' = attempt + 1 /\ pc' = "pause"
       ELSE attempt' = attempt /\ StartCollecting(settings)
  /\ UNCHANGED registered

(* A plausible slip: any answer is a success.                                *)
ReceiveAnything ==
  /\ pc = "waiting"
  /\ \E r \in requests : /\ r.attempt = attempt /\ r.state \in {"ok", "refused"}
                         /\ requests' = requests \ {r}
  /\ StartCollecting(settings) /\ registered' = TRUE
  /\ UNCHANGED <<settings, attempt, verified>>

(* A status 200.                                                            *)
ReceiveOk ==
  /\ pc = "waiting"
  /\ \E r \in requests : /\ r.attempt = attempt /\ r.state = "ok"
                         /\ requests' = requests \ {r}
  /\ StartCollecting(settings) /\ registered' = TRUE
  /\ UNCHANGED <<settings, attempt, verified>>

ReceiveRefusal ==
  /\ pc = "waiting"
  /\ \E r \in requests : /\ r.attempt = attempt /\ r.state = "refused"
                         /\ requests' = requests \ {r}
  /\ AttemptFailed
  /\ UNCHANGED <<settings, verified>>

(* Fifteen seconds pass or the connection breaks; an answer is lost.         *)
GiveUp ==
  /\ pc = "waiting"
  /\ requests' = {r \in requests : r.state \notin {"ok", "refused"}}
  /\ AttemptFailed
  /\ UNCHANGED <<settings, verified>>

(* The pause of five seconds before the next attempt.                        *)
Resume ==
  /\ pc = "pause" /\ pc' = "register"
  /\ UNCHANGED <<settings, attempt, requests, verified, registered>>
-----------------------------------------------------------------------------
(* The aggregator: handleNodeRegister with ValidateNode.                     *)
Awaited(r) == pc = "waiting" /\ r.attempt = attempt

AnswerRegister(r, status) ==
  requests' = (requests \ {r}) \cup
              (IF Awaited(r) THEN {[r EXCEPT !.state = status]} ELSE {})

HandleRegister(r) ==
  /\ r.state = "sent"
  /\ requests' = (requests \ {r}) \cup {[r EXCEPT !.state = "validating"]}
  /\ UNCHANGED <<settings, pc, attempt, verified, registered>>

LoseRequest(r) ==
  /\ r.state = "sent"
  /\ requests' = requests \ {r}
  /\ UNCHANGED <<settings, pc, attempt, verified, registered>>

(* The control plane confirms the token within ten seconds.                  *)
Validated(r) ==
  /\ r.state = "validating"
  /\ verified' = TRUE
  /\ AnswerRegister(r, "ok")
  /\ UNCHANGED <<settings, pc, attempt, registered>>

(* It does not, or not in time: status 401.                                  *)
NotValidated(r) ==
  /\ r.state = "validating"
  /\ AnswerRegister(r, "refused")
  /\ UNCHANGED <<settings, pc, attempt, verified, registered>>

Agent == Configure \/ Register \/ ReceiveOk \/ ReceiveRefusal \/ GiveUp \/ Resume

Next ==
  \/ Agent
  \/ \E r \in requests : \/ HandleRegister(r) \/ LoseRequest(r)
                         \/ Validated(r) \/ NotValidated(r)

Spec == Init /\ [][Next]_vars
=============================================================================
