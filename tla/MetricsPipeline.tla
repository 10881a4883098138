-------------------------- MODULE MetricsPipeline --------------------------
(***************************************************************************)
(* One way of a sample: the agent's collectAndReport and HTTPReporter.Report *)
(* (retries, each with its own timeout), the aggregator's handleNodeMetrics  *)
(* and DataProcessor (a cache of the latest sample per node, a ticker that   *)
(* snapshots the cache and forwards it node by node), and the control        *)
(* plane's metrics handler, which stores what it gets.                       *)
(*                                                                         *)
(* A sample is the number of its collection.  An attempt that ends without   *)
(* an answer (timeout, broken connection) leaves a request behind that the   *)
(* receiver may still execute at any later time, or never.                   *)
(***************************************************************************)
EXTENDS Integers, FiniteSets

CONSTANTS
  Nodes,       \* the nodes whose agents report to this aggregator
  NoNode,      \* stands for "no forward in progress"
  RetryCount,  \* RetryCount[n]: config retry_count of the agent of n
  MaxSamples,  \* bound: MaxSamples[n] collections of that agent
  MaxLate,     \* bound: forwards without an answer that may still execute
  Reliable     \* the nodes whose forwards the control plane does not fail
               \* for ever; used by the fairness condition only

ASSUME PipelineAssumption ==
  /\ NoNode \notin Nodes
  /\ RetryCount \in [Nodes -> Nat]
  /\ MaxSamples \in [Nodes -> Nat]
  /\ MaxLate \in Nat
  /\ Reliable \subseteq Nodes

VARIABLES
  sample,      \* sample[n]: the collection the agent of n is at
  agent,       \* agent[n]: "idle", "ready" to send, or "waiting" for an answer
  attempt,     \* attempt[n]: i in Report's loop
  requests,    \* report requests that were sent and not answered yet, and
               \* the answers that were not received yet
  acked,       \* acked[n]: the samples Report returned nil for
  saved,       \* saved[n]: the samples given to saveFailedReportData
  cache,       \* DataProcessor.metrics.data, 0 for a node without an entry
  snapshot,    \* metricsSnapshot: what the running batch still has to
               \* forward, 0 for a node that is done or was not in it
  forwarding,  \* the node the batch loop is at, or NoNode
  late,        \* forwards given up on that may still reach the store
  latest,      \* what the store's GetLatestMetrics returns, 0 for nothing
  gaveUp,      \* history: nodes an attempt to report was given up on
  unsure       \* history: nodes a forward was given up on

agentVars == <<sample, agent, attempt, acked, saved>>
batchVars == <<snapshot, forwarding, late, latest, unsure>>
vars == <<agentVars, requests, cache, batchVars, gaveUp>>

Samples == Nat \ {0}
Request == [node : Nodes, sample : Samples, attempt : Nat,
            state : {"sent", "ok", "refused"}]

AgentTypeOK ==
  /\ sample \in [Nodes -> Nat]
  /\ agent \in [Nodes -> {"idle", "ready", "waiting"}]
  /\ \A n \in Nodes : agent[n] # "idle" => sample[n] \in Samples
  /\ attempt \in [Nodes -> Nat]
  /\ \A n \in Nodes : attempt[n] <= RetryCount[n]
  /\ acked \in [Nodes -> SUBSET Samples]
  /\ saved \in [Nodes -> SUBSET Samples]
CacheTypeOK ==
  /\ requests \subseteq Request
  /\ cache \in [Nodes -> Nat]
  /\ gaveUp \subseteq Nodes
BatchTypeOK ==
  /\ snapshot \in [Nodes -> Nat]
  /\ forwarding \in Nodes \union {NoNode}
  /\ late \subseteq Nodes \X Samples
  /\ latest \in [Nodes -> Nat]
  /\ unsure \subseteq Nodes
TypeOK == AgentTypeOK /\ CacheTypeOK /\ BatchTypeOK

Init ==
  /\ sample = [n \in Nodes |-> 0]
  /\ agent = [n \in Nodes |-> "idle"]
  /\ attempt = [n \in Nodes |-> 0]
  /\ requests = {}
  /\ acked = [n \in Nodes |-> {}]
  /\ saved = [n \in Nodes |-> {}]
  /\ cache = [n \in Nodes |-> 0]
  /\ snapshot = [n \in Nodes |-> 0]
  /\ forwarding = NoNode
  /\ late = {}
  /\ latest = [n \in Nodes |-> 0]
  /\ gaveUp = {}
  /\ unsure = {}
-----------------------------------------------------------------------------
(* The agent: one goroutine, so a report ends before the next collection.   *)

(* collectAndReport: Collect succeeded; a failed one returns and changes     *)
(* nothing.                                                                 *)
Collect(n) ==
  /\ agent[n] = "idle" /\ sample[n] < MaxSamples[n]
  /\ sample' = [sample EXCEPT ![n] = @ + 1]
  /\ attempt' = [attempt EXCEPT ![n] = 0]
  /\ agent' = [agent EXCEPT ![n] = "ready"]
  /\ UNCHANGED <<acked, saved, requests, cache, batchVars, gaveUp>>

Current(n, state) == [node |-> n, sample |-> sample[n], attempt |-> attempt[n],
                      state |-> state]

(* Report: attempt i of the loop puts its request on the wire.              *)
Send(n) ==
  /\ agent[n] = "ready"
  /\ requests' = requests \union {Current(n, "sent")}
  /\ agent' = [agent EXCEPT ![n] = "waiting"]
  /\ UNCHANGED <<sample, attempt, acked, saved, cache, batchVars, gaveUp>>

(* Report: the sample cannot be serialised, compressed or encrypted; no      *)
(* attempt is made and the sample goes to a file.                           *)
PrepareFails(n) ==
  /\ agent[n] = "ready" /\ attempt[n] = 0
  /\ agent' = [agent EXCEPT ![n] = "idle"]
  /\ saved' = [saved EXCEPT ![n] = @ \union {sample[n]}]
  /\ UNCHANGED <<sample, attempt, acked, requests, cache, batchVars, gaveUp>>

(* The tail of the loop after a failed attempt: the next one, or after       *)
(* RetryCount retries the sample goes to a file and is not sent again.       *)
AttemptFailed(n) ==
  /\ IF attempt[n] < RetryCount[n]
       THEN /\ attempt' = [attempt EXCEPT ![n] = @ + 1]
            /\ agent' = [agent EXCEPT ![n] = "ready"]
            /\ UNCHANGED saved
       ELSE /\ agent' = [agent EXCEPT ![n] = "idle"]
            /\ saved' = [saved EXCEPT ![n] = @ \union {sample[n]}]
            /\ UNCHANGED attempt
  /\ UNCHANGED <<sample, acked, cache, batchVars>>

(* A 2xx answer: Report returns nil.                                        *)
ReceiveOk(n) ==
  /\ agent[n] = "waiting" /\ Current(n, "ok") \in requests
  /\ requests' = requests \ {Current(n, "ok")}
  /\ acked' = [acked EXCEPT ![n] = @ \union {sample[n]}]
  /\ agent' = [agent EXCEPT ![n] = "idle"]
  /\ UNCHANGED <<sample, attempt, saved, cache, batchVars, gaveUp>>

(* Any other status.                                                        *)
ReceiveRefusal(n) ==
  /\ agent[n] = "waiting" /\ Current(n, "refused") \in requests
  /\ requests' = requests \ {Current(n, "refused")}
  /\ AttemptFailed(n)
  /\ UNCHANGED gaveUp

(* A plausible slip: a timeout of the last attempt leaves Report without the *)
(* sample being saved.                                                      *)
GiveUpForgets(n) ==
  /\ agent[n] = "waiting"
  /\ requests' = requests \ {Current(n, "ok"), Current(n, "refused")}
  /\ gaveUp' = gaveUp \union {n}
  /\ attempt' = [attempt EXCEPT ![n] = IF @ < RetryCount[n] THEN @ + 1 ELSE @]
  /\ agent' = [agent EXCEPT ![n] =
                 IF attempt[n] < RetryCount[n] THEN "ready" ELSE "idle"]
  /\ UNCHANGED <<sample, acked, saved, cache, batchVars>>

(* client.Do returns an error: the timeout struck or the connection broke.   *)
(* The request stays behind if it was not executed; an answer is lost.       *)
GiveUp(n) ==
  /\ agent[n] = "waiting"
  /\ requests' = requests \ {Current(n, "ok"), Current(n, "refused")}
  /\ gaveUp' = gaveUp \union {n}
  /\ AttemptFailed(n)

(* A request is lost on the way, or the handler cannot read its body because *)
(* the connection is gone.                                                  *)
Lose(r) ==
  /\ r.state = "sent"
  /\ requests' = requests \ {r}
  /\ UNCHANGED <<agentVars, cache, batchVars, gaveUp>>
-----------------------------------------------------------------------------
(* The aggregator's handleNodeMetrics on a request of its own goroutine.     *)

Awaited(r) == /\ agent[r.node] = "waiting"
              /\ r.sample = sample[r.node] /\ r.attempt = attempt[r.node]

(* The answer travels back to an agent that still waits for it.             *)
AnswerReport(r, status) ==
  requests' = (requests \ {r}) \union
              (IF Awaited(r) THEN {[r EXCEPT !.state = status]} ELSE {})

(* A plausible slip: the answer is sent without the sample being cached.    *)
HandleReportAnswersOnly(r) ==
  /\ r.state = "sent"
  /\ AnswerReport(r, "ok")
  /\ UNCHANGED <<agentVars, cache, batchVars, gaveUp>>

(* ProcessMetrics replaces the cached sample of the node, whatever it was.  *)
HandleReport(r) ==
  /\ r.state = "sent"
  /\ cache' = [cache EXCEPT ![r.node] = r.sample]
  /\ AnswerReport(r, "ok")
  /\ UNCHANGED <<agentVars, batchVars, gaveUp>>

(* The body cannot be decrypted, decompressed or parsed: 400, nothing cached. *)
RefuseReport(r) ==
  /\ r.state = "sent"
  /\ AnswerReport(r, "refused")
  /\ UNCHANGED <<agentVars, cache, batchVars, gaveUp>>
-----------------------------------------------------------------------------
(* The DataProcessor goroutine: processMetrics and processMetricsData.       *)

BatchRunning == \E n \in Nodes : snapshot[n] # 0

(* A plausible slip: the cache is emptied when it is copied.                *)
TakeSnapshotAndClear ==
  /\ ~BatchRunning
  /\ snapshot' = cache
  /\ cache' = [n \in Nodes |-> 0]
  /\ UNCHANGED <<agentVars, requests, forwarding, late, latest, unsure, gaveUp>>

(* A tick of BatchInterval while the loop waits for it: the cache is copied  *)
(* under the lock and stays as it is.                                        *)
TakeSnapshot ==
  /\ ~BatchRunning
  /\ snapshot' = cache
  /\ UNCHANGED <<agentVars, requests, cache, forwarding, late, latest, unsure, gaveUp>>

(* range metricsSnapshot yields the nodes in any order.                     *)
NextNode ==
  /\ forwarding = NoNode
  /\ \E n \in Nodes : snapshot[n] # 0 /\ forwarding' = n
  /\ UNCHANGED <<agentVars, requests, cache, snapshot, late, latest, unsure, gaveUp>>

(* The loop goes on with the next node, whatever became of this one.        *)
Forwarded(n) ==
  /\ n = forwarding
  /\ forwarding' = NoNode
  /\ snapshot' = [snapshot EXCEPT ![n] = 0]
  /\ UNCHANGED <<agentVars, requests, cache, gaveUp>>

(* Plausible slips: the loop returns at the first error; a refused forward   *)
(* is queued for another attempt next to the cache.                         *)
ForwardRefusedAborts(n) ==
  /\ n = forwarding
  /\ forwarding' = NoNode
  /\ snapshot' = [m \in Nodes |-> 0]
  /\ UNCHANGED <<agentVars, requests, cache, late, latest, unsure, gaveUp>>

ForwardRefusedRequeues(n) ==
  /\ Forwarded(n)
  /\ Cardinality(late) < MaxLate
  /\ late' = late \union {<<n, snapshot[n]>>}
  /\ UNCHANGED <<latest, unsure>>

(* The control plane stores the sample and answers 2xx in time.             *)
ForwardStored(n) ==
  /\ Forwarded(n)
  /\ latest' = [latest EXCEPT ![n] = snapshot[n]]
  /\ UNCHANGED <<late, unsure>>

(* Any other status, or the control plane cannot be reached: logged only.   *)
ForwardRefused(n) ==
  /\ Forwarded(n)
  /\ UNCHANGED <<late, latest, unsure>>

(* Five seconds pass without an answer.  The request may still be executed;  *)
(* StoreLate covers one executed right away whose answer got lost.          *)
ForwardGivenUp(n) ==
  /\ Forwarded(n)
  /\ Cardinality(late) < MaxLate
  /\ late' = late \union {<<n, snapshot[n]>>}
  /\ unsure' = unsure \union {n}
  /\ UNCHANGED latest

(* HandleMetricsSubmitGin runs for a request its sender gave up on.         *)
StoreLate(m) ==
  /\ late' = late \ {m}
  /\ latest' = [latest EXCEPT ![m[1]] = m[2]]
  /\ UNCHANGED <<agentVars, requests, cache, snapshot, forwarding, unsure, gaveUp>>

LoseLate(m) ==
  /\ late' = late \ {m}
  /\ UNCHANGED <<agentVars, requests, cache, snapshot, forwarding, latest, unsure, gaveUp>>

Forward(n) == ForwardStored(n) \/ ForwardRefused(n) \/ ForwardGivenUp(n)

Next ==
  \/ \E n \in Nodes : \/ Collect(n) \/ Send(n) \/ PrepareFails(n)
                      \/ ReceiveOk(n) \/ ReceiveRefusal(n) \/ GiveUp(n)
                      \/ Forward(n)
  \/ \E r \in requests : HandleReport(r) \/ RefuseReport(r) \/ Lose(r)
  \/ TakeSnapshot
  \/ NextNode
  \/ \E m \in late : StoreLate(m) \/ LoseLate(m)

Spec == Init /\ [][Next]_vars

(* The ticker keeps ticking, the batch loop keeps moving (a forward ends     *)
(* within five seconds one way or the other), and the control plane does not *)
(* fail every forward of a Reliable node.  Nothing is assumed of agents, of  *)
(* the other nodes or of the order in which the loop visits nodes.           *)
FairSpec ==
  /\ Spec
  /\ WF_vars(TakeSnapshot)
  /\ WF_vars(NextNode)
  /\ WF_vars(\E n \in Nodes : Forward(n))
  /\ \A n \in Reliable : SF_vars(ForwardStored(n))
-----------------------------------------------------------------------------
(* As long as no attempt of its agent ended without an answer, the cache     *)
(* holds the last sample the agent was told is accepted, or a newer one.     *)
AckedIsCached == \A n \in Nodes \ gaveUp : \A s \in acked[n] : s <= cache[n]

(* No sample is silently lost by the agent: one it is done with was either   *)
(* accepted or written to a file, and never both, through all retries and    *)
(* answers that come too late (collectAndReport, Report).                    *)
Finished(n) == 1..(IF agent[n] = "idle" THEN sample[n] ELSE sample[n] - 1)
AccountedFor == \A n \in Nodes : /\ acked[n] \union saved[n] = Finished(n)
                                 /\ acked[n] \intersect saved[n] = {}

(* What the store knows of a node never falls behind while every report and  *)
(* every forward of the node was answered: neither the batch loop working on *)
(* its copy while reports go on, nor a batch after a failed one, reorders.   *)
NeverGoesBack ==
  \A n \in Nodes : n \notin gaveUp' \union unsure' => latest[n] <= latest'[n]
StoredInOrder == [][NeverGoesBack]_vars

(* The order that carries the two properties above: an undisturbed agent has *)
(* at most one request under way, the one it waits for; the cache is never    *)
(* behind the running batch or the store, the running batch is not behind    *)
(* the store, and only a forward that was given up on can still arrive.       *)
OneReportAtATime ==
  \A r \in requests : r.node \notin gaveUp =>
    /\ Awaited(r)
    /\ r.state = "ok" => cache[r.node] = r.sample
    /\ \A other \in requests : other.node = r.node => other = r
CacheLeads ==
  \A n \in Nodes \ gaveUp : /\ cache[n] <= sample[n]
                            /\ snapshot[n] <= cache[n]
                            /\ latest[n] <= cache[n]
BatchLeadsStore ==
  \A n \in Nodes \ (gaveUp \union unsure) : snapshot[n] # 0 => latest[n] <= snapshot[n]
LateIsOld ==
  \A m \in late : m[1] \in unsure /\ (m[1] \notin gaveUp => m[2] <= cache[m[1]])
BatchAtNode == forwarding # NoNode => snapshot[forwarding] # 0
PipelineOrdered ==
  OneReportAtATime /\ CacheLeads /\ BatchLeadsStore /\ LateIsOld /\ BatchAtNode

(* An accepted sample of an undisturbed node reaches the store, or a newer   *)
(* one does, however often forwards of this node fail first and whatever     *)
(* happens to the forwards of other nodes in the same batches.               *)
AckedIsStored ==
  \A n \in Reliable : \A s \in 1..MaxSamples[n] :
    (s \in acked[n]) ~> (latest[n] >= s \/ n \in gaveUp \union unsure)

(* Late forwards may leave an old sample on top in the store, but since the  *)
(* cache is forwarded again with every batch the store catches up once they  *)
(* have died down.                                                          *)
Settled(n, s) == cache[n] = s /\ \A m \in late : m[1] # n
StoreCatchesUp ==
  \A n \in Reliable : \A s \in 1..MaxSamples[n] :
    <>[]Settled(n, s) => <>[](latest[n] = s)
=============================================================================
