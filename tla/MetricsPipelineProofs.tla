------------------------ MODULE MetricsPipelineProofs ------------------------
(* Proofs about the way of a sample from agent to store, for any number of  *)
(* nodes, retries and samples.                                              *)
EXTENDS MetricsPipeline, TLAPS

IInv == TypeOK /\ PipelineOrdered /\ AckedIsCached /\ AccountedFor

(* At the start nothing was collected, cached, forwarded or stored.         *)
LEMMA InitIInv == Init => IInv
<1> SUFFICES ASSUME Init PROVE IInv
  OBVIOUS
<1> USE PipelineAssumption DEF Init
<1>1. TypeOK
  BY DEF TypeOK, AgentTypeOK, CacheTypeOK, BatchTypeOK, Samples
<1>2. PipelineOrdered
  BY DEF PipelineOrdered, OneReportAtATime, CacheLeads, BatchLeadsStore, LateIsOld, BatchAtNode
<1>3. AckedIsCached /\ AccountedFor
  BY DEF AckedIsCached, AccountedFor, Finished
<1> QED
  BY <1>1, <1>2, <1>3 DEF IInv
-----------------------------------------------------------------------------
(* What the agent has in hand is a sample and an attempt in range.          *)
LEMMA CurrentType ==
  ASSUME AgentTypeOK, NEW n \in Nodes, agent[n] # "idle",
         NEW state \in {"sent", "ok", "refused"}
  PROVE  Current(n, state) \in Request
BY DEF AgentTypeOK, Current, Request

(* The agent's own state, step by step.                                     *)
LEMMA AgentTypes == TypeOK /\ [Next]_vars => AgentTypeOK'
<1> SUFFICES ASSUME TypeOK, [Next]_vars PROVE AgentTypeOK'
  OBVIOUS
<1> USE DEF TypeOK
<1>1. ASSUME NEW n \in Nodes, Collect(n) PROVE AgentTypeOK'
  <2>1. sample[n] + 1 \in Samples /\ RetryCount[n] \in Nat
    <3>1. sample[n] \in Nat
      BY DEF AgentTypeOK
    <3> QED
      BY <3>1, PipelineAssumption DEF Samples
  <2>2. sample' \in [Nodes -> Nat] /\ agent' \in [Nodes -> {"idle", "ready", "waiting"}]
    BY <1>1, <2>1 DEF Collect, AgentTypeOK
  <2>3. attempt' \in [Nodes -> Nat] /\ \A m \in Nodes : attempt'[m] <= RetryCount[m]
    BY <1>1, <2>1 DEF Collect, AgentTypeOK
  <2>4. \A m \in Nodes : agent'[m] # "idle" => sample'[m] \in Samples
    BY <1>1, <2>1 DEF Collect, AgentTypeOK
  <2> QED
    BY <1>1, <2>2, <2>3, <2>4 DEF Collect, AgentTypeOK
<1>2. ASSUME NEW n \in Nodes, Send(n) PROVE AgentTypeOK'
  BY <1>2 DEF Send, AgentTypeOK
<1>11. ASSUME NEW n \in Nodes, PrepareFails(n) PROVE AgentTypeOK'
  <2>1. saved' \in [Nodes -> SUBSET Samples]
    BY <1>11 DEF PrepareFails, AgentTypeOK
  <2>2. /\ agent' \in [Nodes -> {"idle", "ready", "waiting"}]
        /\ \A m \in Nodes : agent'[m] # "idle" => agent[m] # "idle"
    BY <1>11 DEF PrepareFails, AgentTypeOK
  <2> QED
    BY <1>11, <2>1, <2>2 DEF PrepareFails, AgentTypeOK
<1>3. ASSUME NEW n \in Nodes, ReceiveOk(n) PROVE AgentTypeOK'
  <2>1. acked' \in [Nodes -> SUBSET Samples]
    BY <1>3 DEF ReceiveOk, AgentTypeOK
  <2>2. /\ agent' \in [Nodes -> {"idle", "ready", "waiting"}]
        /\ \A m \in Nodes : agent'[m] # "idle" => agent[m] # "idle"
    BY <1>3 DEF ReceiveOk, AgentTypeOK
  <2> QED
    BY <1>3, <2>1, <2>2 DEF ReceiveOk, AgentTypeOK
<1>4. ASSUME NEW n \in Nodes, agent[n] = "waiting", AttemptFailed(n) PROVE AgentTypeOK'
  <2>1. /\ agent' \in [Nodes -> {"idle", "ready", "waiting"}]
        /\ \A m \in Nodes : agent'[m] # "idle" => agent[m] # "idle"
    BY <1>4 DEF AttemptFailed, AgentTypeOK
  <2>2. attempt' \in [Nodes -> Nat] /\ \A m \in Nodes : attempt'[m] <= RetryCount[m]
    BY <1>4, PipelineAssumption DEF AttemptFailed, AgentTypeOK
  <2>3. saved' \in [Nodes -> SUBSET Samples]
    BY <1>4 DEF AttemptFailed, AgentTypeOK
  <2> QED
    BY <1>4, <2>1, <2>2, <2>3 DEF AttemptFailed, AgentTypeOK
<1>5. ASSUME UNCHANGED agentVars PROVE AgentTypeOK'
  BY <1>5 DEF agentVars, AgentTypeOK
<1>6. ASSUME NEW n \in Nodes, ReceiveRefusal(n) \/ GiveUp(n) PROVE AgentTypeOK'
  BY <1>4, <1>6 DEF ReceiveRefusal, GiveUp
<1>7. ASSUME NEW r \in requests, HandleReport(r) \/ RefuseReport(r) \/ Lose(r) PROVE AgentTypeOK'
  BY <1>5, <1>7 DEF HandleReport, RefuseReport, Lose
<1>8. ASSUME NEW n \in Nodes, Forward(n) PROVE AgentTypeOK'
  BY <1>5, <1>8 DEF Forward, ForwardStored, ForwardRefused, ForwardGivenUp, Forwarded
<1>9. ASSUME NEW m \in late, StoreLate(m) \/ LoseLate(m) PROVE AgentTypeOK'
  BY <1>5, <1>9 DEF StoreLate, LoseLate
<1>10. CASE TakeSnapshot \/ NextNode \/ UNCHANGED vars
  BY <1>5, <1>10 DEF TakeSnapshot, NextNode, vars
<1> QED
  BY <1>1, <1>2, <1>3, <1>6, <1>7, <1>8, <1>9, <1>10, <1>11 DEF Next

(* Requests, answers and the cache.                                         *)
LEMMA CacheTypes == TypeOK /\ [Next]_vars => CacheTypeOK'
<1> SUFFICES ASSUME TypeOK, [Next]_vars PROVE CacheTypeOK'
  OBVIOUS
<1> USE DEF TypeOK
<1>1. ASSUME NEW n \in Nodes, Send(n) PROVE CacheTypeOK'
  <2>1. Current(n, "sent") \in Request
    BY <1>1, CurrentType DEF Send
  <2> QED
    BY <1>1, <2>1 DEF Send, CacheTypeOK
<1>2. ASSUME requests' \subseteq requests, UNCHANGED cache, gaveUp' \subseteq Nodes
      PROVE  CacheTypeOK'
  BY <1>2 DEF CacheTypeOK
<1>3. ASSUME NEW n \in Nodes, \/ Collect(n) \/ PrepareFails(n)
                              \/ ReceiveOk(n) \/ ReceiveRefusal(n) \/ GiveUp(n)
      PROVE  CacheTypeOK'
  BY <1>2, <1>3 DEF Collect, PrepareFails, ReceiveOk, ReceiveRefusal, GiveUp, AttemptFailed, CacheTypeOK
<1>4. ASSUME NEW r \in requests, HandleReport(r) \/ RefuseReport(r) \/ Lose(r) PROVE CacheTypeOK'
  <2>1. r \in Request
    BY DEF CacheTypeOK
  <2>2. /\ r.node \in Nodes /\ r.sample \in Nat
        /\ \A status \in {"ok", "refused"} : [r EXCEPT !.state = status] \in Request
    BY <2>1, PipelineAssumption DEF Request, Samples
  <2>3. requests' \subseteq Request
    BY <1>4, <2>2 DEF HandleReport, RefuseReport, Lose, AnswerReport, CacheTypeOK
  <2>4. cache' \in [Nodes -> Nat]
    BY <1>4, <2>2 DEF HandleReport, RefuseReport, Lose, CacheTypeOK
  <2> QED
    BY <1>4, <2>3, <2>4 DEF HandleReport, RefuseReport, Lose, CacheTypeOK
<1>5. ASSUME UNCHANGED <<requests, cache, gaveUp>> PROVE CacheTypeOK'
  BY <1>5 DEF CacheTypeOK
<1>6. ASSUME NEW n \in Nodes, Forward(n) PROVE CacheTypeOK'
  BY <1>5, <1>6 DEF Forward, ForwardStored, ForwardRefused, ForwardGivenUp, Forwarded
<1>7. ASSUME NEW m \in late, StoreLate(m) \/ LoseLate(m) PROVE CacheTypeOK'
  BY <1>5, <1>7 DEF StoreLate, LoseLate
<1>8. CASE TakeSnapshot \/ NextNode \/ UNCHANGED vars
  BY <1>5, <1>8 DEF TakeSnapshot, NextNode, vars
<1> QED
  BY <1>1, <1>3, <1>4, <1>6, <1>7, <1>8 DEF Next

(* The batch and the store.  The batch loop only visits nodes it still has   *)
(* a sample of.                                                             *)
LEMMA BatchTypes == TypeOK /\ BatchAtNode /\ [Next]_vars => BatchTypeOK' /\ BatchAtNode'
<1> SUFFICES ASSUME TypeOK, BatchAtNode, [Next]_vars PROVE BatchTypeOK' /\ BatchAtNode'
  OBVIOUS
<1> USE DEF TypeOK
<1>1. CASE TakeSnapshot
  <2>1. forwarding = NoNode
    BY <1>1 DEF TakeSnapshot, BatchRunning, BatchAtNode, BatchTypeOK
  <2> QED
    BY <1>1, <2>1 DEF TakeSnapshot, BatchTypeOK, CacheTypeOK, BatchAtNode
<1>2. CASE NextNode
  BY <1>2 DEF NextNode, BatchTypeOK, BatchAtNode
<1>3. ASSUME NEW n \in Nodes, Forward(n) PROVE BatchTypeOK' /\ BatchAtNode'
  <2>1. Forwarded(n)
    BY <1>3 DEF Forward, ForwardStored, ForwardRefused, ForwardGivenUp
  <2>2. snapshot[n] \in Nat /\ snapshot[n] # 0 /\ n # NoNode
    BY <2>1, PipelineAssumption DEF Forwarded, BatchAtNode, BatchTypeOK
  <2>3. snapshot[n] \in Samples
    BY <2>2 DEF Samples
  <2>4. /\ snapshot' \in [Nodes -> Nat] /\ forwarding' = NoNode
        /\ BatchAtNode'
    BY <2>1, <2>3 DEF Forwarded, BatchTypeOK, BatchAtNode
  <2>5. latest' \in [Nodes -> Nat]
    BY <1>3, <2>2 DEF Forward, ForwardStored, ForwardRefused, ForwardGivenUp, BatchTypeOK
  <2>6. late' \subseteq Nodes \X Samples /\ unsure' \subseteq Nodes
    BY <1>3, <2>3 DEF Forward, ForwardStored, ForwardRefused, ForwardGivenUp, BatchTypeOK
  <2> QED
    BY <2>4, <2>5, <2>6 DEF BatchTypeOK
<1>4. ASSUME NEW m \in late, StoreLate(m) \/ LoseLate(m) PROVE BatchTypeOK' /\ BatchAtNode'
  <2>1. m[1] \in Nodes /\ m[2] \in Samples
    BY DEF BatchTypeOK
  <2>2. m[2] \in Nat
    BY <2>1 DEF Samples
  <2> QED
    BY <1>4, <2>1, <2>2 DEF StoreLate, LoseLate, BatchTypeOK, BatchAtNode
<1>5. ASSUME UNCHANGED batchVars PROVE BatchTypeOK' /\ BatchAtNode'
  BY <1>5 DEF batchVars, BatchTypeOK, BatchAtNode
<1>6. ASSUME NEW n \in Nodes, \/ Collect(n) \/ Send(n) \/ PrepareFails(n)
                              \/ ReceiveOk(n) \/ ReceiveRefusal(n) \/ GiveUp(n)
      PROVE  UNCHANGED batchVars
  BY <1>6 DEF Collect, Send, PrepareFails, ReceiveOk, ReceiveRefusal, GiveUp, AttemptFailed
<1>7. ASSUME NEW r \in requests, HandleReport(r) \/ RefuseReport(r) \/ Lose(r)
      PROVE  UNCHANGED batchVars
  BY <1>7 DEF HandleReport, RefuseReport, Lose
<1>8. CASE UNCHANGED vars
  BY <1>5, <1>8 DEF vars
<1> QED
  BY <1>1, <1>2, <1>3, <1>4, <1>5, <1>6, <1>7, <1>8 DEF Next
-----------------------------------------------------------------------------
(* Steps of the batch loop and of the store touch nothing agents, requests   *)
(* and the cache depend on.                                                 *)
LEMMA BatchStepsLeave ==
  ASSUME \/ TakeSnapshot \/ NextNode
         \/ \E n \in Nodes : Forward(n)
         \/ \E m \in late : StoreLate(m) \/ LoseLate(m)
         \/ UNCHANGED vars
  PROVE  UNCHANGED <<agentVars, requests, cache, gaveUp>>
BY DEF TakeSnapshot, NextNode, Forward, ForwardStored, ForwardRefused, ForwardGivenUp,
   Forwarded, StoreLate, LoseLate, vars

(* The agent has at most one request under way until it gives one up.       *)
LEMMA ReportSteps == IInv /\ [Next]_vars => OneReportAtATime'
<1> SUFFICES ASSUME IInv, [Next]_vars PROVE OneReportAtATime'
  OBVIOUS
<1> USE DEF IInv, TypeOK, PipelineOrdered
<1>1. ASSUME NEW n \in Nodes, Collect(n) \/ PrepareFails(n) PROVE OneReportAtATime'
  <2>1. \A r \in requests : r.node = n => n \in gaveUp
    BY <1>1 DEF Collect, PrepareFails, OneReportAtATime, Awaited
  <2>2. \A m \in Nodes : m # n => /\ agent'[m] = agent[m] /\ sample'[m] = sample[m]
                                  /\ attempt'[m] = attempt[m]
    BY <1>1 DEF Collect, PrepareFails, AgentTypeOK
  <2>3. \A r \in requests : r.node \in Nodes
    BY DEF CacheTypeOK, Request
  <2> QED
    BY <1>1, <2>1, <2>2, <2>3 DEF Collect, PrepareFails, OneReportAtATime, Awaited
<1>2. ASSUME NEW n \in Nodes, Send(n) PROVE OneReportAtATime'
  <2>1. \A r \in requests : r.node = n => n \in gaveUp
    BY <1>2 DEF Send, OneReportAtATime, Awaited
  <2>2. \A m \in Nodes : m # n => agent'[m] = agent[m]
    BY <1>2 DEF Send, AgentTypeOK
  <2>3. \A r \in requests : r.node \in Nodes
    BY DEF CacheTypeOK, Request
  <2>4. agent'[n] = "waiting"
    BY <1>2 DEF Send, AgentTypeOK
  <2>5. UNCHANGED <<sample, attempt, cache, gaveUp>>
    BY <1>2 DEF Send
  <2>6. \A r \in requests' : \/ r \in requests
                             \/ /\ r.node = n /\ r.sample = sample[n]
                                /\ r.attempt = attempt[n] /\ r.state = "sent"
                                /\ r = Current(n, "sent")
    BY <1>2 DEF Send, Current
  <2>7. ASSUME NEW r \in requests', r.node \notin gaveUp
        PROVE  /\ Awaited(r)'
               /\ r.state = "ok" => cache'[r.node] = r.sample
               /\ \A other \in requests' : other.node = r.node => other = r
    <3>1. CASE r.node = n
      BY <2>1, <2>4, <2>5, <2>6, <2>7, <3>1 DEF Awaited
    <3>2. CASE r.node # n
      <4>1. r \in requests /\ r.node \in Nodes
        BY <2>3, <2>6, <3>2
      <4> QED
        BY <2>2, <2>5, <2>6, <2>7, <3>2, <4>1 DEF OneReportAtATime, Awaited
    <3> QED
      BY <3>1, <3>2
  <2> QED
    BY <2>5, <2>7 DEF OneReportAtATime
<1>3. ASSUME NEW n \in Nodes, NEW answer \in requests, answer.node = n,
             n \notin gaveUp, requests' = requests \ {answer},
             UNCHANGED <<cache, gaveUp>>,
             \A m \in Nodes : m # n => /\ agent'[m] = agent[m] /\ sample'[m] = sample[m]
                                      /\ attempt'[m] = attempt[m]
      PROVE  OneReportAtATime'
  <2>1. \A r \in requests' : r.node # n
    BY <1>3 DEF OneReportAtATime
  <2>2. \A r \in requests : r.node \in Nodes
    BY DEF CacheTypeOK, Request
  <2> QED
    BY <1>3, <2>1, <2>2 DEF OneReportAtATime, Awaited
<1>4. ASSUME NEW n \in Nodes, requests' \subseteq requests,
             UNCHANGED cache, gaveUp \subseteq gaveUp', n \in gaveUp',
             \A m \in Nodes : m # n => /\ agent'[m] = agent[m] /\ sample'[m] = sample[m]
                                      /\ attempt'[m] = attempt[m]
      PROVE  OneReportAtATime'
  <2>1. \A r \in requests : r.node \in Nodes
    BY DEF CacheTypeOK, Request
  <2> QED
    BY <1>4, <2>1 DEF OneReportAtATime, Awaited
<1>5. ASSUME NEW n \in Nodes, ReceiveOk(n) \/ ReceiveRefusal(n) PROVE OneReportAtATime'
  <2>1. \A m \in Nodes : m # n => /\ agent'[m] = agent[m] /\ sample'[m] = sample[m]
                                  /\ attempt'[m] = attempt[m]
    BY <1>5 DEF ReceiveOk, ReceiveRefusal, AttemptFailed, AgentTypeOK
  <2>2. /\ UNCHANGED <<cache, gaveUp>>
        /\ \E answer \in requests : answer.node = n /\ requests' = requests \ {answer}
    BY <1>5 DEF ReceiveOk, ReceiveRefusal, AttemptFailed, Current
  <2> QED
    BY <1>3, <1>4, <2>1, <2>2
<1>6. ASSUME NEW n \in Nodes, GiveUp(n) PROVE OneReportAtATime'
  <2>1. \A m \in Nodes : m # n => /\ agent'[m] = agent[m] /\ sample'[m] = sample[m]
                                  /\ attempt'[m] = attempt[m]
    BY <1>6 DEF GiveUp, AttemptFailed, AgentTypeOK
  <2> QED
    BY <1>4, <1>6, <2>1 DEF GiveUp, AttemptFailed
<1>7. ASSUME NEW r \in requests, HandleReport(r) \/ RefuseReport(r) PROVE OneReportAtATime'
  <2> PICK status \in {"ok", "refused"} :
        /\ AnswerReport(r, status)
        /\ status = "ok" => cache' = [cache EXCEPT ![r.node] = r.sample]
        /\ status = "refused" => cache' = cache
    BY <1>7 DEF HandleReport, RefuseReport
  <2> DEFINE answer == [r EXCEPT !.state = status]
  <2>1. r \in Request /\ UNCHANGED <<agentVars, gaveUp>>
    BY <1>7 DEF HandleReport, RefuseReport, CacheTypeOK
  <2>2. /\ answer.node = r.node /\ answer.sample = r.sample
        /\ answer.attempt = r.attempt /\ answer.state = status
        /\ r.node \in Nodes
    BY <2>1 DEF Request
  <2>3. \A m \in Nodes : m # r.node => cache'[m] = cache[m]
    BY <2>2 DEF CacheTypeOK
  <2>4. status = "ok" => cache'[r.node] = r.sample
    BY <2>2 DEF CacheTypeOK
  <2>5. \A q \in requests' : (q \in requests /\ q # r) \/ q = answer
    BY DEF AnswerReport
  <2> HIDE DEF answer
  <2>6. UNCHANGED <<agent, sample, attempt, gaveUp>>
    BY <2>1 DEF agentVars
  <2>7. ASSUME NEW q \in requests', q.node \notin gaveUp
        PROVE  /\ Awaited(q)'
               /\ q.state = "ok" => cache'[q.node] = q.sample
               /\ \A other \in requests' : other.node = q.node => other = q
    <3>1. CASE q.node = r.node
      <4>1. q = answer /\ \A other \in requests' : other.node = q.node => other = q
        BY <2>2, <2>5, <2>7, <3>1 DEF OneReportAtATime
      <4>2. Awaited(q)'
        BY <2>2, <2>6, <2>7, <3>1, <4>1 DEF OneReportAtATime, Awaited
      <4> QED
        BY <2>2, <2>4, <4>1, <4>2
    <3>2. CASE q.node # r.node
      <4>1. q \in requests /\ q.node \in Nodes
        BY <2>2, <2>5, <3>2 DEF CacheTypeOK, Request
      <4> QED
        BY <2>2, <2>3, <2>5, <2>6, <2>7, <3>2, <4>1 DEF OneReportAtATime, Awaited
    <3> QED
      BY <3>1, <3>2
  <2> QED
    BY <2>6, <2>7 DEF OneReportAtATime
<1>8. ASSUME NEW r \in requests, Lose(r) PROVE OneReportAtATime'
  BY <1>8 DEF Lose, agentVars, OneReportAtATime, Awaited
<1>9. ASSUME UNCHANGED <<agentVars, requests, cache, gaveUp>> PROVE OneReportAtATime'
  BY <1>9 DEF agentVars, OneReportAtATime, Awaited
<1> QED
  BY <1>1, <1>2, <1>5, <1>6, <1>7, <1>8, <1>9, BatchStepsLeave DEF Next
-----------------------------------------------------------------------------
(* The cache of an undisturbed node never goes back and never runs ahead of  *)
(* its agent; who was disturbed or unsure stays so.                          *)
LEMMA CacheSteps ==
  ASSUME IInv, Next
  PROVE  /\ gaveUp \subseteq gaveUp' /\ unsure \subseteq unsure'
         /\ \A n \in Nodes \ gaveUp' : cache[n] <= cache'[n] /\ cache'[n] <= sample'[n]
<1> USE DEF IInv, TypeOK, PipelineOrdered
<1>1. /\ \A n \in Nodes : sample[n] \in Nat /\ cache[n] \in Nat
      /\ \A n \in Nodes \ gaveUp : cache[n] <= sample[n]
  BY PipelineAssumption DEF AgentTypeOK, CacheTypeOK, CacheLeads, Samples
<1>2. ASSUME UNCHANGED <<sample, cache, unsure>>, gaveUp \subseteq gaveUp'
      PROVE  /\ gaveUp \subseteq gaveUp' /\ unsure \subseteq unsure'
             /\ \A n \in Nodes \ gaveUp' : cache[n] <= cache'[n] /\ cache'[n] <= sample'[n]
  BY <1>1, <1>2
<1>3. ASSUME NEW n \in Nodes, \/ Send(n) \/ PrepareFails(n)
                              \/ ReceiveOk(n) \/ ReceiveRefusal(n) \/ GiveUp(n)
      PROVE  UNCHANGED <<sample, cache, unsure>> /\ gaveUp \subseteq gaveUp'
  BY <1>3 DEF Send, PrepareFails, ReceiveOk, ReceiveRefusal, GiveUp, AttemptFailed, batchVars
<1>4. ASSUME NEW n \in Nodes, Collect(n)
      PROVE  /\ gaveUp \subseteq gaveUp' /\ unsure \subseteq unsure'
             /\ \A m \in Nodes \ gaveUp' : cache[m] <= cache'[m] /\ cache'[m] <= sample'[m]
  <2>1. UNCHANGED <<cache, gaveUp, unsure>>
    BY <1>4 DEF Collect, batchVars
  <2>2. \A m \in Nodes : sample[m] <= sample'[m] /\ sample'[m] \in Nat
    BY <1>1, <1>4 DEF Collect, AgentTypeOK
  <2> QED
    BY <1>1, <2>1, <2>2
<1>5. ASSUME NEW r \in requests, HandleReport(r)
      PROVE  /\ gaveUp \subseteq gaveUp' /\ unsure \subseteq unsure'
             /\ \A m \in Nodes \ gaveUp' : cache[m] <= cache'[m] /\ cache'[m] <= sample'[m]
  <2>1. UNCHANGED <<sample, gaveUp, unsure>>
    BY <1>5 DEF HandleReport, agentVars, batchVars
  <2>2. r.node \in Nodes /\ (r.node \notin gaveUp => r.sample = sample[r.node])
    BY DEF CacheTypeOK, Request, OneReportAtATime, Awaited
  <2>3. \A m \in Nodes : cache'[m] = IF m = r.node THEN r.sample ELSE cache[m]
    BY <1>5, <2>2 DEF HandleReport, CacheTypeOK
  <2> QED
    BY <1>1, <2>1, <2>2, <2>3
<1>6. ASSUME NEW r \in requests, RefuseReport(r) \/ Lose(r)
      PROVE  UNCHANGED <<sample, cache, unsure>> /\ gaveUp \subseteq gaveUp'
  BY <1>6 DEF RefuseReport, Lose, agentVars, batchVars
<1>7. ASSUME \/ TakeSnapshot \/ NextNode
             \/ \E n \in Nodes : Forward(n)
             \/ \E m \in late : StoreLate(m) \/ LoseLate(m)
      PROVE  /\ gaveUp \subseteq gaveUp' /\ unsure \subseteq unsure'
             /\ \A m \in Nodes \ gaveUp' : cache[m] <= cache'[m] /\ cache'[m] <= sample'[m]
  <2>1. UNCHANGED <<agentVars, cache, gaveUp>>
    BY <1>7, BatchStepsLeave
  <2>2. unsure \subseteq unsure'
    BY <1>7 DEF TakeSnapshot, NextNode, Forward, ForwardStored, ForwardRefused,
       ForwardGivenUp, StoreLate, LoseLate
  <2> QED
    BY <1>1, <2>1, <2>2 DEF agentVars
<1> QED
  BY <1>2, <1>3, <1>4, <1>5, <1>6, <1>7 DEF Next

(* The batch stays behind the cache, the store behind both, and a late       *)
(* forward brings nothing newer than the cache.                              *)
LEMMA OrderSteps ==
  ASSUME IInv, Next
  PROVE  CacheLeads' /\ BatchLeadsStore' /\ LateIsOld' /\ NeverGoesBack
<1> USE DEF IInv, TypeOK, PipelineOrdered
<1>1. /\ gaveUp \subseteq gaveUp' /\ unsure \subseteq unsure'
      /\ \A n \in Nodes \ gaveUp' : cache[n] <= cache'[n] /\ cache'[n] <= sample'[n]
  BY CacheSteps
<1>2. /\ \A n \in Nodes : /\ cache[n] \in Nat /\ cache'[n] \in Nat
                          /\ snapshot[n] \in Nat /\ latest[n] \in Nat
      /\ \A m \in late : m[1] \in Nodes /\ m[2] \in Nat
  <2>1. CacheTypeOK'
    BY CacheTypes
  <2> QED
    BY <2>1, PipelineAssumption DEF CacheTypeOK, BatchTypeOK, Samples
<1>3. ASSUME UNCHANGED batchVars
      PROVE  CacheLeads' /\ BatchLeadsStore' /\ LateIsOld' /\ NeverGoesBack
  <2>1. UNCHANGED <<snapshot, late, latest, unsure>>
    BY <1>3 DEF batchVars
  <2>2. CacheLeads' /\ NeverGoesBack
    BY <1>1, <1>2, <2>1 DEF CacheLeads, NeverGoesBack
  <2>3. BatchLeadsStore'
    BY <1>1, <2>1 DEF BatchLeadsStore
  <2>4. LateIsOld'
    BY <1>1, <1>2, <2>1 DEF LateIsOld
  <2> QED
    BY <2>2, <2>3, <2>4
<1>4. ASSUME \/ \E n \in Nodes : \/ Collect(n) \/ Send(n) \/ PrepareFails(n)
                                 \/ ReceiveOk(n) \/ ReceiveRefusal(n) \/ GiveUp(n)
             \/ \E r \in requests : HandleReport(r) \/ RefuseReport(r) \/ Lose(r)
             \/ NextNode
      PROVE  UNCHANGED <<snapshot, late, latest, unsure>>
  BY <1>4 DEF Collect, Send, PrepareFails, ReceiveOk, ReceiveRefusal, GiveUp, AttemptFailed,
     HandleReport, RefuseReport, Lose, NextNode, batchVars
<1>5. ASSUME UNCHANGED <<snapshot, late, latest, unsure>>
      PROVE  CacheLeads' /\ BatchLeadsStore' /\ LateIsOld' /\ NeverGoesBack
  <2>1. CacheLeads' /\ NeverGoesBack
    BY <1>1, <1>2, <1>5 DEF CacheLeads, NeverGoesBack
  <2>2. BatchLeadsStore'
    BY <1>1, <1>5 DEF BatchLeadsStore
  <2>3. LateIsOld'
    BY <1>1, <1>2, <1>5 DEF LateIsOld
  <2> QED
    BY <2>1, <2>2, <2>3
<1>6. CASE TakeSnapshot
  <2>1. snapshot' = cache /\ UNCHANGED <<sample, cache, late, latest, unsure, gaveUp>>
    BY <1>6 DEF TakeSnapshot, agentVars
  <2>2. CacheLeads' /\ NeverGoesBack
    BY <1>1, <1>2, <2>1 DEF CacheLeads, NeverGoesBack
  <2>3. BatchLeadsStore'
    BY <2>1 DEF BatchLeadsStore, CacheLeads
  <2>4. LateIsOld'
    BY <2>1 DEF LateIsOld
  <2> QED
    BY <2>2, <2>3, <2>4
<1>7. ASSUME NEW n \in Nodes, Forward(n)
      PROVE  CacheLeads' /\ BatchLeadsStore' /\ LateIsOld' /\ NeverGoesBack
  <2>1. Forwarded(n)
    BY <1>7 DEF Forward, ForwardStored, ForwardRefused, ForwardGivenUp
  <2>2. /\ n = forwarding /\ snapshot[n] # 0
        /\ snapshot'[n] = 0
        /\ \A m \in Nodes : m # n => snapshot'[m] = snapshot[m]
        /\ UNCHANGED <<sample, cache, gaveUp>>
    BY <2>1, PipelineAssumption DEF Forwarded, BatchAtNode, BatchTypeOK, agentVars
  <2>3. /\ latest'[n] = latest[n] \/ latest'[n] = snapshot[n]
        /\ \A m \in Nodes : m # n => latest'[m] = latest[m]
    BY <1>7 DEF Forward, ForwardStored, ForwardRefused, ForwardGivenUp, BatchTypeOK
  <2>4. \A m \in late' : m \in late \/ (m = <<n, snapshot[n]>> /\ n \in unsure')
    BY <1>7 DEF Forward, ForwardStored, ForwardRefused, ForwardGivenUp
  <2>5. CacheLeads'
    BY <1>2, <2>2, <2>3 DEF CacheLeads
  <2>6. BatchLeadsStore'
    BY <1>1, <2>2, <2>3 DEF BatchLeadsStore
  <2>7. LateIsOld'
    BY <1>1, <1>2, <2>2, <2>4 DEF LateIsOld, CacheLeads
  <2>8. NeverGoesBack
    BY <1>1, <1>2, <2>2, <2>3 DEF NeverGoesBack, BatchLeadsStore
  <2> QED
    BY <2>5, <2>6, <2>7, <2>8
<1>8. ASSUME NEW m \in late, StoreLate(m) \/ LoseLate(m)
      PROVE  CacheLeads' /\ BatchLeadsStore' /\ LateIsOld' /\ NeverGoesBack
  <2>1. /\ m[1] \in Nodes /\ m[2] \in Nat /\ m[1] \in unsure
        /\ m[1] \notin gaveUp => m[2] <= cache[m[1]]
    BY <1>2 DEF LateIsOld
  <2>2. /\ late' \subseteq late
        /\ UNCHANGED <<sample, cache, snapshot, unsure, gaveUp>>
    BY <1>8 DEF StoreLate, LoseLate, agentVars
  <2>3. /\ latest'[m[1]] = latest[m[1]] \/ latest'[m[1]] = m[2]
        /\ \A n \in Nodes : n # m[1] => latest'[n] = latest[n]
    BY <1>8, <2>1 DEF StoreLate, LoseLate, BatchTypeOK
  <2>4. CacheLeads'
    BY <1>2, <2>1, <2>2, <2>3 DEF CacheLeads
  <2>5. BatchLeadsStore'
    BY <2>1, <2>2, <2>3 DEF BatchLeadsStore
  <2>6. LateIsOld'
    BY <2>2 DEF LateIsOld
  <2>7. NeverGoesBack
    BY <1>2, <2>1, <2>2, <2>3 DEF NeverGoesBack
  <2> QED
    BY <2>4, <2>5, <2>6, <2>7
<1> QED
  BY <1>4, <1>5, <1>6, <1>7, <1>8 DEF Next
-----------------------------------------------------------------------------
(* An answer of 2xx is sent once the sample is cached, and an agent that has *)
(* given up on no attempt has no other request that could undo it.           *)
LEMMA AckedSteps == ASSUME IInv, Next PROVE AckedIsCached'
<1> USE DEF IInv, TypeOK
<1>1. /\ gaveUp \subseteq gaveUp'
      /\ \A n \in Nodes \ gaveUp' : cache[n] <= cache'[n]
  BY CacheSteps
<1>2. \A n \in Nodes : /\ cache[n] \in Nat /\ cache'[n] \in Nat
                       /\ acked[n] \subseteq Nat
  <2>1. CacheTypeOK'
    BY CacheTypes
  <2> QED
    BY <2>1, PipelineAssumption DEF CacheTypeOK, AgentTypeOK, Samples
<1>3. ASSUME NEW n \in Nodes, ReceiveOk(n), n \notin gaveUp
      PROVE  sample[n] = cache[n]
  BY <1>3 DEF ReceiveOk, Current, PipelineOrdered, OneReportAtATime
<1>4. \A n \in Nodes \ gaveUp' : \A s \in acked'[n] : s \in acked[n] \/ s = cache[n]
  <2>1. ASSUME NEW n \in Nodes, ReceiveOk(n)
        PROVE  \A m \in Nodes \ gaveUp' : \A s \in acked'[m] : s \in acked[m] \/ s = cache[m]
    <3>1. \A m \in Nodes : acked'[m] = IF m = n THEN acked[m] \union {sample[m]} ELSE acked[m]
      BY <2>1 DEF ReceiveOk, AgentTypeOK
    <3> QED
      BY <1>1, <1>3, <2>1, <3>1
  <2>2. ASSUME NEW n \in Nodes, \/ Collect(n) \/ Send(n) \/ PrepareFails(n)
                                \/ ReceiveRefusal(n) \/ GiveUp(n)
        PROVE  UNCHANGED acked
    BY <2>2 DEF Collect, Send, PrepareFails, ReceiveRefusal, GiveUp, AttemptFailed
  <2>3. ASSUME NEW r \in requests, HandleReport(r) \/ RefuseReport(r) \/ Lose(r)
        PROVE  UNCHANGED acked
    BY <2>3 DEF HandleReport, RefuseReport, Lose, agentVars
  <2>4. ASSUME UNCHANGED agentVars PROVE UNCHANGED acked
    BY <2>4 DEF agentVars
  <2> QED
    BY <2>1, <2>2, <2>3, <2>4, BatchStepsLeave DEF Next
<1> QED
  BY <1>1, <1>2, <1>4 DEF AckedIsCached

(* The end of a report, with either outcome, accounts for its sample.        *)
LEMMA ReportEnds ==
  ASSUME AgentTypeOK, AccountedFor, NEW n \in Nodes, agent[n] # "idle",
         UNCHANGED sample, agent' = [agent EXCEPT ![n] = "idle"],
         \/ acked' = [acked EXCEPT ![n] = @ \union {sample[n]}] /\ UNCHANGED saved
         \/ saved' = [saved EXCEPT ![n] = @ \union {sample[n]}] /\ UNCHANGED acked
  PROVE  AccountedFor'
<1>1. sample[n] \in Nat \ {0}
  BY DEF AgentTypeOK, Samples
<1>2. Finished(n) = 1..(sample[n] - 1) /\ Finished(n)' = 1..sample[n]
  BY DEF AgentTypeOK, Finished
<1>3. sample[n] \notin acked[n] \union saved[n]
  BY <1>1, <1>2 DEF AccountedFor
<1>4. 1..sample[n] = (1..(sample[n] - 1)) \union {sample[n]}
  BY <1>1
<1>5. /\ acked'[n] \union saved'[n] = (acked[n] \union saved[n]) \union {sample[n]}
      /\ acked'[n] \intersect saved'[n] = {}
  BY <1>3 DEF AgentTypeOK, AccountedFor
<1>6. acked'[n] \union saved'[n] = Finished(n)'
  BY <1>2, <1>4, <1>5 DEF AccountedFor
<1>7. ASSUME NEW m \in Nodes, m # n
      PROVE  /\ acked'[m] = acked[m] /\ saved'[m] = saved[m] /\ agent'[m] = agent[m]
  BY <1>7 DEF AgentTypeOK
<1>8. ASSUME NEW m \in Nodes, m # n PROVE Finished(m)' = Finished(m)
  BY <1>7, <1>8 DEF Finished
<1>9. ASSUME NEW m \in Nodes
      PROVE  /\ acked'[m] \union saved'[m] = Finished(m)'
             /\ acked'[m] \intersect saved'[m] = {}
  BY <1>5, <1>6, <1>7, <1>8 DEF AccountedFor
<1> QED
  BY <1>9 DEF AccountedFor

(* A sample is finished when its report ends and never before.               *)
LEMMA AccountSteps == ASSUME IInv, [Next]_vars PROVE AccountedFor'
<1> USE DEF IInv, TypeOK
<1>1. ASSUME NEW n \in Nodes, agent[n] # "idle", agent' = [agent EXCEPT ![n] = "ready"]
                              \/ agent' = [agent EXCEPT ![n] = "waiting"],
             UNCHANGED <<sample, acked, saved>>
      PROVE  AccountedFor'
  <2>1. ASSUME NEW m \in Nodes PROVE Finished(m)' = Finished(m)
    <3>1. agent[m] = "idle" <=> agent'[m] = "idle"
      BY <1>1 DEF AgentTypeOK
    <3> QED
      BY <1>1, <3>1 DEF Finished
  <2> QED
    BY <1>1, <2>1 DEF AccountedFor
<1>2. ASSUME NEW n \in Nodes, Collect(n) PROVE AccountedFor'
  <2>1. sample[n] \in Nat
    BY PipelineAssumption DEF AgentTypeOK, Samples
  <2>2. ASSUME NEW m \in Nodes PROVE Finished(m)' = Finished(m)
    <3>1. CASE m = n
      <4>1. /\ agent[n] = "idle" /\ agent'[n] = "ready"
            /\ sample'[n] = sample[n] + 1
        BY <1>2 DEF Collect, AgentTypeOK
      <4>2. Finished(n) = 1..sample[n] /\ Finished(n)' = 1..(sample'[n] - 1)
        BY <4>1 DEF Finished
      <4> QED
        BY <2>1, <3>1, <4>1, <4>2
    <3>2. CASE m # n
      BY <1>2, <3>2 DEF Collect, AgentTypeOK, Finished
    <3> QED
      BY <3>1, <3>2
  <2> QED
    BY <1>2, <2>2 DEF Collect, AccountedFor
<1>3. ASSUME NEW n \in Nodes, Send(n) PROVE AccountedFor'
  BY <1>1, <1>3 DEF Send
<1>4. ASSUME NEW n \in Nodes, ReceiveOk(n) \/ PrepareFails(n) PROVE AccountedFor'
  BY <1>4, ReportEnds DEF ReceiveOk, PrepareFails
<1>5. ASSUME NEW n \in Nodes, agent[n] = "waiting", AttemptFailed(n) PROVE AccountedFor'
  <2>1. CASE attempt[n] < RetryCount[n]
    BY <1>1, <1>5, <2>1 DEF AttemptFailed
  <2>2. CASE ~(attempt[n] < RetryCount[n])
    BY <1>5, <2>2, ReportEnds DEF AttemptFailed
  <2> QED
    BY <2>1, <2>2
<1>6. ASSUME NEW n \in Nodes, ReceiveRefusal(n) \/ GiveUp(n) PROVE AccountedFor'
  BY <1>5, <1>6 DEF ReceiveRefusal, GiveUp
<1>7. ASSUME UNCHANGED agentVars PROVE AccountedFor'
  BY <1>7 DEF agentVars, AccountedFor, Finished
<1>8. ASSUME NEW r \in requests, HandleReport(r) \/ RefuseReport(r) \/ Lose(r)
      PROVE  AccountedFor'
  BY <1>7, <1>8 DEF HandleReport, RefuseReport, Lose
<1> QED
  BY <1>2, <1>3, <1>4, <1>6, <1>7, <1>8, BatchStepsLeave DEF Next
-----------------------------------------------------------------------------
(* IInv is inductive.                                                       *)
LEMMA StepIInv == IInv /\ [Next]_vars => IInv'
<1> SUFFICES ASSUME IInv, [Next]_vars PROVE IInv'
  OBVIOUS
<1>1. TypeOK' /\ BatchAtNode'
  BY AgentTypes, CacheTypes, BatchTypes DEF IInv, PipelineOrdered, TypeOK
<1>2. CASE Next
  <2>1. PipelineOrdered'
    BY <1>1, <1>2, ReportSteps, OrderSteps DEF PipelineOrdered
  <2> QED
    BY <1>1, <1>2, <2>1, AckedSteps, AccountSteps DEF IInv
<1>3. CASE UNCHANGED vars
  <2>1. CacheLeads' /\ BatchLeadsStore' /\ LateIsOld'
    BY <1>3 DEF IInv, PipelineOrdered, CacheLeads, BatchLeadsStore, LateIsOld,
       vars, agentVars, batchVars
  <2>2. AckedIsCached'
    BY <1>3 DEF IInv, AckedIsCached, vars, agentVars, batchVars
  <2>3. OneReportAtATime' /\ AccountedFor'
    BY ReportSteps, AccountSteps
  <2> QED
    BY <1>1, <2>1, <2>2, <2>3 DEF IInv, PipelineOrdered
<1> QED
  BY <1>2, <1>3

LEMMA InvariantHolds == Spec => []IInv
BY InitIInv, StepIInv, PTL DEF Spec

(* Every variable keeps its shape: retries stay within RetryCount, and an    *)
(* agent that sends or waits has a sample in hand.                           *)
THEOREM TypeCorrect == Spec => []TypeOK
BY InvariantHolds, PTL DEF IInv

(* An undisturbed agent has one request under way; agent, cache, batch and   *)
(* store follow one another in this order.                                   *)
THEOREM PipelineStaysOrdered == Spec => []PipelineOrdered
BY InvariantHolds, PTL DEF IInv

(* What an undisturbed agent was told is accepted is in the aggregator's     *)
(* cache, or something newer is.                                             *)
THEOREM AckedStaysCached == Spec => []AckedIsCached
BY InvariantHolds, PTL DEF IInv

(* The agent loses track of no sample, and files none that was accepted.     *)
THEOREM SamplesAccountedFor == Spec => []AccountedFor
BY InvariantHolds, PTL DEF IInv

(* For a node all whose reports and forwards were answered, no step makes    *)
(* the store fall back to an older sample.                                   *)
THEOREM StoreNeverGoesBack == Spec => StoredInOrder
<1>1. IInv /\ [Next]_vars => [NeverGoesBack]_vars
  BY OrderSteps
<1> QED
  BY <1>1, InvariantHolds, PTL DEF Spec, StoredInOrder
=============================================================================
